--------------------------- MODULE CommitConfirm ---------------------------
(***************************************************************************)
(* What commit-confirm promises (docs/adr/ADR-012): of the commits armed   *)
(* one after the other, at most one is open at a time; each is closed      *)
(* exactly once, confirmed or rolled back, and stays so; and none stays    *)
(* open for ever, as long as it is attended: a monitor serves it, or will  *)
(* be started again.                                                       *)
(***************************************************************************)
CONSTANT Commit

VARIABLES
  fate,     \* what became of each commit
  attended  \* there is, or will be, a monitor to close what is open

Fates == {"unarmed", "armed", "confirmed", "rolled back"}

Init == fate = [c \in Commit |-> "unarmed"] /\ attended \in BOOLEAN

Arm(c) ==
  /\ \A d \in Commit : fate[d] # "armed"
  /\ fate[c] = "unarmed"
  /\ fate' = [fate EXCEPT ![c] = "armed"]

Close(c) ==
  /\ fate[c] = "armed"
  /\ \E f \in {"confirmed", "rolled back"} : fate' = [fate EXCEPT ![c] = f]

(* Only an attended commit is armed or closed.                              *)
Next ==
  /\ attended' \in BOOLEAN
  /\ UNCHANGED fate \/ (attended /\ \E c \in Commit : Arm(c) \/ Close(c))

Safety == Init /\ [][Next]_<<fate, attended>>

Spec == Safety /\ \A c \in Commit : WF_fate(attended /\ Close(c))
=============================================================================
