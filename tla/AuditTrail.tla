----------------------------- MODULE AuditTrail -----------------------------
(***************************************************************************)
(* What the audit log promises (crates/detent-ops/src/audit.rs): the       *)
(* records that can be read, as one sequence.  Records join at the end, a  *)
(* record whose append returned Ok is only ever lost as the oldest, by     *)
(* rotation, and a power loss takes back what was not acknowledged.        *)
(***************************************************************************)
EXTENDS Naturals, Sequences, SequencesExt

VARIABLES
  kept,   \* the bodies of the readable records, oldest first
  acked   \* the bodies whose append returned Ok

trailVars == <<kept, acked>>

Init == kept = <<>> /\ acked = {}

(* One more record can be read.                                             *)
Add ==
  /\ IsPrefix(kept, kept') /\ Len(kept') = Len(kept) + 1
  /\ Last(kept') \notin Range(kept) \cup acked
  /\ UNCHANGED acked

(* The append of the newest record returns Ok.                              *)
Ack ==
  /\ kept # <<>> /\ acked' = acked \cup {Last(kept)}
  /\ UNCHANGED kept

(* A rotation drops the oldest records, never all of them.                  *)
Drop ==
  /\ kept' # <<>> /\ IsStrictSuffix(kept', kept)
  /\ UNCHANGED acked

(* A power loss: the newest records that were not acknowledged are gone,    *)
(* and a rotation that was not yet durable is undone.                       *)
Lose ==
  /\ \E n \in 0..Len(kept) :
       /\ \A i \in (n + 1)..Len(kept) : kept[i] \notin acked
       /\ IsSuffix(SubSeq(kept, 1, n), kept')
  /\ UNCHANGED acked

Next == Add \/ Ack \/ Drop \/ Lose

Spec == Init /\ [][Next]_trailVars
=============================================================================
