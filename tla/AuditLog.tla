------------------------------ MODULE AuditLog ------------------------------
(***************************************************************************)
(* The hash-chained audit log (crates/detent-ops/src/audit.rs): appends    *)
(* with rotation, torn lines and the link of each record to the one        *)
(* before it, one system call per step; the tail query and the full        *)
(* verification; kills, failing calls and power losses.                    *)
(*                                                                         *)
(* A record is the number of the call that wrote it and its SHA-256 hash   *)
(* is that number, since the hash covers the record without its chain.     *)
(* The digest of skipped lines is the sequence of those lines.             *)
(***************************************************************************)
EXTENDS Naturals, FiniteSets, Sequences, SequencesExt, FiniteSetsExt

CONSTANTS
  Proc,             \* processes with a FileAudit on this log
  MaxCalls,         \* bound: calls of record
  RotateLines,      \* rotate_bytes, counted in lines
  MaxFiles,         \* bound: files that exist at once, unlinked ones included
  MaxLimit,         \* bound: the largest limit of a query
  FaultKinds,       \* which of "kill", "io" and "power" happen
  MaxFaults,        \* bound: faults
  PowerAfterFault   \* a power loss may follow another fault

(* A log never holds only torn lines when it is rotated: 16 MiB of them in  *)
(* a row would be needed.                                                   *)
ASSUME AuditAssumption ==
  /\ MaxCalls \in Nat /\ RotateLines \in Nat /\ MaxFiles \in Nat /\ MaxLimit \in Nat
  /\ MaxFaults \in Nat /\ MaxFaults <= RotateLines
  /\ FaultKinds \subseteq {"kill", "io", "power"} /\ PowerAfterFault \in BOOLEAN

VARIABLES
  disk,    \* the contents of each file
  safe,    \* what a power loss leaves at least
  dir,     \* the directory: the files named log and log.1, 0: no such name
  back,    \* older directories a power loss may bring back
  app,     \* the append in progress in each process, APPEND_LOCK held
  reader,  \* a query or a verify in a process of its own
  calls,   \* calls of record so far
  acked,   \* history: records whose call returned Ok
  faults   \* faults so far

diskVars == <<disk, safe, dir, back>>
vars == <<disk, safe, dir, back, app, reader, calls, acked, faults>>

Body == 1..MaxCalls
Inode == 1..MaxFiles

(* A line: a record with its AuditChain, or (ok FALSE) the start of one,    *)
(* which does not parse.  prev 0 is None.                                   *)
Fragment(b) == [ok |-> FALSE, body |-> b, sequence |-> 0, prev |-> 0, torn |-> <<>>]

(* closed: the last byte is a newline, or there is none.                    *)
Empty == [lines |-> <<>>, closed |-> TRUE]

NoAnchor == [sequence |-> 0, body |-> 0]

Idle == [step |-> "idle", anchor |-> NoAnchor, line |-> Fragment(0), lead |-> FALSE,
         fresh |-> FALSE, fd |-> 0, out |-> "none"]

Away == [step |-> "idle", anchor |-> NoAnchor, lines |-> <<>>, crossed |-> FALSE,
         limit |-> 0, out |-> "none"]

Init ==
  /\ disk = [i \in Inode |-> Empty] /\ safe = disk
  /\ dir = [log |-> 0, old |-> 0] /\ back = {}
  /\ app = [p \in Proc |-> Idle] /\ reader = Away
  /\ calls = 0 /\ acked = {} /\ faults = 0

----------------------------------------------------------------------------
(* The chain over the lines of one file.                                    *)

Records(lines) == {i \in DOMAIN lines : lines[i].ok}

(* The last record before position i, 0: none.                              *)
Before(lines, i) == Max({j \in Records(lines) : j < i} \cup {0})

AnchorAt(lines, i, start) ==
  IF i = 0 THEN start ELSE [sequence |-> lines[i].sequence, body |-> lines[i].body]

(* The unreadable lines between the record before i and i.                  *)
Gap(lines, i) == [j \in 1..(i - 1 - Before(lines, i)) |-> lines[Before(lines, i) + j].body]

End(lines) == Len(lines) + 1

(* check_link.                                                              *)
Linked(line, previous, gap) ==
  /\ line.sequence = previous.sequence + 1 /\ line.prev = previous.body
  /\ line.torn = gap

CheckLink(lines, i, start) ==
  Linked(lines[i], AnchorAt(lines, Before(lines, i), start), Gap(lines, i))

(* scan_records finds no error, and the anchor it returns.                  *)
Scans(lines, start) == \A i \in Records(lines) : CheckLink(lines, i, start)

ScanAnchor(lines, start) == AnchorAt(lines, Before(lines, End(lines)), start)

(* query, with the newest limit records: links between the ones it reads,   *)
(* and the start of the file when it gets there.                            *)
QueryAccepts(lines, start, limit) ==
  \A i \in Records(lines) :
    LET newer == Cardinality({j \in Records(lines) : j >= i}) IN
      newer < limit => CheckLink(lines, i, start)

(* rotated_anchor.                                                          *)
RotatedAnchor ==
  IF dir.old = 0 THEN NoAnchor ELSE ScanAnchor(disk[dir.old].lines, NoAnchor)

Used == {dir.log, dir.old} \cup UNION {{d.log, d.old} : d \in back}
          \cup {app[p].fd : p \in Proc}

Free == Inode \ Used

----------------------------------------------------------------------------
(* Faults.                                                                  *)

Fault(kind) ==
  /\ kind \in FaultKinds /\ faults < MaxFaults
  /\ kind = "power" => faults = 0 \/ PowerAfterFault
  /\ faults' = faults + 1

Return(p, out) == app' = [app EXCEPT ![p] = [Idle EXCEPT !.out = out]]

(* A call fails and record returns its error.                               *)
Fails(p) == Fault("io") /\ Return(p, "io") /\ UNCHANGED <<reader, calls, acked>>

Step(p, step) == app' = [app EXCEPT ![p].step = step]

Quiet == UNCHANGED <<reader, calls, acked, faults>>

(* The line is appended; lead: after a newline that closes a torn line.     *)
(* Without it a line that was left open swallows the new one.               *)
Put(file, line, lead, closed) ==
  [lines |-> IF lead \/ file.closed THEN Append(file.lines, line)
             ELSE Append(Front(file.lines), Fragment(Last(file.lines).body)),
   closed |-> closed]

(* What a write of the line leaves when it stops early: nothing, the        *)
(* newline, the start of the record, or all of it but its newline.          *)
Cuts(file, line, lead) ==
  { file, [file EXCEPT !.closed = @ \/ lead],
    Put(file, Fragment(line.body), lead, FALSE), Put(file, line, lead, FALSE) }

(* What a power loss may leave of a file: any part of it, as long as what   *)
(* was synced is there.                                                     *)
PowerCuts(i) ==
  UNION { LET file == [lines |-> SubSeq(disk[i].lines, 1, n),
                       closed |-> IF n = Len(safe[i].lines) THEN safe[i].closed ELSE TRUE]
          IN  IF n = Len(disk[i].lines)
              THEN {file, disk[i]} ELSE Cuts(file, disk[i].lines[n + 1], ~file.closed) :
          n \in Len(safe[i].lines)..Len(disk[i].lines) }

----------------------------------------------------------------------------
(* FileAudit::record.                                                       *)

Record(p) ==
  /\ app[p].step = "idle" /\ calls < MaxCalls
  /\ calls' = calls + 1
  /\ app' = [app EXCEPT ![p] = [Idle EXCEPT !.step = "anchor",
                                            !.line = Fragment(calls + 1)]]
  /\ UNCHANGED <<diskVars, reader, acked, faults>>

ReadAnchor(p) ==
  /\ app[p].step = "anchor"
  /\ app' = [app EXCEPT ![p].step = "read", ![p].anchor = RotatedAnchor]
  /\ Quiet /\ UNCHANGED diskVars

Chained_Untorn(b, lines, start, rotate) ==
  LET anchor == ScanAnchor(lines, start) IN
    [ok |-> TRUE, body |-> b, sequence |-> anchor.sequence + 1, prev |-> anchor.body,
     torn |-> <<>>]

Chained_TornAtRotation(b, lines, start, rotate) ==
  LET anchor == ScanAnchor(lines, start) IN
    [ok |-> TRUE, body |-> b, sequence |-> anchor.sequence + 1, prev |-> anchor.body,
     torn |-> Gap(lines, End(lines))]

(* make_chain: the record that follows what the scan found.                 *)
Chained(b, lines, start, rotate) ==
  LET anchor == ScanAnchor(lines, start) IN
    [ok |-> TRUE, body |-> b, sequence |-> anchor.sequence + 1, prev |-> anchor.body,
     torn |-> IF rotate THEN <<>> ELSE Gap(lines, End(lines))]

(* read_log, scan_records and the record to write; a chain that does not    *)
(* scan refuses the append.                                                 *)
ReadLog(p) ==
  LET lines == IF dir.log = 0 THEN <<>> ELSE disk[dir.log].lines
      rotate == Len(lines) > RotateLines
  IN  /\ app[p].step = "read"
      /\ IF Scans(lines, app[p].anchor)
         THEN app' = [app EXCEPT ![p].step = IF rotate THEN "rename" ELSE "open",
                                 ![p].lead = ~rotate /\ dir.log # 0 /\ ~disk[dir.log].closed,
                                 ![p].fresh = rotate \/ dir.log = 0,
                                 ![p].anchor = NoAnchor,
                                 ![p].line = Chained(@.body, lines, app[p].anchor, rotate)]
         ELSE Return(p, "chain")
      /\ Quiet /\ UNCHANGED diskVars

(* The rename over log.1: the records of the old log.1 are dropped here.    *)
Rename(p) ==
  /\ app[p].step = "rename"
  /\ \/ /\ dir.log # 0
        /\ dir' = [log |-> 0, old |-> dir.log] /\ back' = back \cup {dir}
        /\ Step(p, "open")
        /\ reader' = [reader EXCEPT !.crossed = @ \/ reader.step # "idle"]
        /\ UNCHANGED <<calls, acked, faults>>
     \/ dir.log = 0 /\ Return(p, "io") /\ Quiet /\ UNCHANGED <<dir, back>>
     \/ Fails(p) /\ UNCHANGED <<dir, back>>
  /\ UNCHANGED <<disk, safe>>

(* open_for_append: the open creates the file when there is none.           *)
Open(p) ==
  /\ app[p].step = "open"
  /\ LET after == IF app[p].fresh THEN "syncdir" ELSE "write" IN
       \/ /\ dir.log # 0
          /\ app' = [app EXCEPT ![p].step = after, ![p].fd = dir.log]
          /\ Quiet /\ UNCHANGED diskVars
       \/ /\ dir.log = 0 /\ Free # {}
          /\ LET i == Min(Free) IN
               /\ disk' = [disk EXCEPT ![i] = Empty] /\ safe' = [safe EXCEPT ![i] = Empty]
               /\ dir' = [dir EXCEPT !.log = i] /\ back' = back \cup {dir}
               /\ app' = [app EXCEPT ![p].step = after, ![p].fd = i]
          /\ Quiet
       \/ Fails(p) /\ UNCHANGED diskVars

SyncDirectory(p) ==
  /\ app[p].step = "syncdir"
  /\ \/ back' = {} /\ Step(p, "write") /\ Quiet
     \/ Fails(p) /\ UNCHANGED back
  /\ UNCHANGED <<disk, safe, dir>>

(* write_all, whole or cut short by an error.                               *)
Write(p) ==
  /\ app[p].step = "write"
  /\ LET i == app[p].fd IN
       \/ /\ disk' = [disk EXCEPT ![i] = Put(@, app[p].line, app[p].lead, TRUE)]
          /\ Step(p, "sync") /\ Quiet
       \/ /\ Fails(p)
          /\ \E f \in Cuts(disk[i], app[p].line, app[p].lead) : disk' = [disk EXCEPT ![i] = f]
  /\ UNCHANGED <<safe, dir, back>>

SyncData_Early(p) ==
  /\ app[p].step = "sync"
  /\ acked' = acked \cup {app[p].line.body}
  /\ Return(p, "ok") /\ UNCHANGED <<diskVars, reader, calls, faults>>

SyncData(p) ==
  /\ app[p].step = "sync"
  /\ \/ /\ safe' = [safe EXCEPT ![app[p].fd] = disk[app[p].fd]]
        /\ acked' = acked \cup {app[p].line.body}
        /\ Return(p, "ok") /\ UNCHANGED <<reader, calls, faults>>
     \/ Fails(p) /\ UNCHANGED safe
  /\ UNCHANGED <<disk, dir, back>>

----------------------------------------------------------------------------
(* A process is killed; the write it was in may have happened in part.      *)
Kill(p) ==
  /\ app[p].step # "idle" /\ Fault("kill") /\ Return(p, "none")
  /\ LET i == app[p].fd IN
       IF app[p].step = "write"
       THEN \E f \in Cuts(disk[i], app[p].line, app[p].lead) : disk' = [disk EXCEPT ![i] = f]
       ELSE UNCHANGED disk
  /\ UNCHANGED <<safe, dir, back, reader, calls, acked>>

(* Power is lost: every process is gone, the directory may be an older      *)
(* one, and each file keeps at least what was synced.                       *)
PowerLoss ==
  /\ Fault("power") /\ app' = [p \in Proc |-> Idle] /\ reader' = Away
  /\ dir' \in back \cup {dir} /\ back' = {}
  /\ disk' \in {f \in [Inode -> UNION {PowerCuts(i) : i \in Inode}] :
                  \A i \in Inode : f[i] \in IF i \in {dir'.log, dir'.old}
                                            THEN PowerCuts(i) ELSE {Empty}}
  /\ safe' = disk' /\ UNCHANGED <<calls, acked>>

----------------------------------------------------------------------------
(* Readers.                                                                 *)

StayDisk == UNCHANGED <<diskVars, app, calls, acked, faults>>

(* verify reads the anchor first, then the log.                             *)
VerifyAnchor ==
  /\ reader.step = "idle"
  /\ reader' = [Away EXCEPT !.step = "verify", !.anchor = RotatedAnchor]
  /\ StayDisk

VerifyLog ==
  /\ reader.step = "verify"
  /\ LET lines == IF dir.log = 0 THEN <<>> ELSE disk[dir.log].lines IN
       reader' = [Away EXCEPT !.crossed = reader.crossed,
                    !.out = CASE dir.log = 0 -> "absent"
                              [] ~Scans(lines, reader.anchor) -> "chain"
                              [] OTHER -> "ok"]
  /\ StayDisk

(* query opens the log, reads it backwards from where it ended, and reads   *)
(* the anchor last.                                                         *)
QueryLog ==
  /\ reader.step = "idle" /\ dir.log # 0
  /\ \E n \in 1..MaxLimit :
       reader' = [Away EXCEPT !.step = "query", !.limit = n, !.lines = disk[dir.log].lines]
  /\ StayDisk

QueryAnchor ==
  /\ reader.step = "query"
  /\ reader' = [Away EXCEPT !.crossed = reader.crossed,
                  !.out = IF QueryAccepts(reader.lines, RotatedAnchor, reader.limit)
                          THEN "ok" ELSE "chain"]
  /\ StayDisk

Next ==
  \/ \E p \in Proc :
       \/ Record(p) \/ ReadAnchor(p) \/ ReadLog(p) \/ Rename(p) \/ Open(p)
       \/ SyncDirectory(p) \/ Write(p) \/ SyncData(p) \/ Kill(p)
  \/ PowerLoss
  \/ VerifyAnchor \/ VerifyLog \/ QueryLog \/ QueryAnchor

Spec == Init /\ [][Next]_vars

----------------------------------------------------------------------------
(* Properties.                                                              *)

(* Whatever kills, failed calls, rotations and power losses came before,    *)
(* the log one process writes always scans: record never refuses an append  *)
(* for its chain, so audited operations are never blocked by the log        *)
(* (record, scan_records).                                                  *)
NeverRefused == \A p \in Proc : app[p].out # "chain"

(* A query or a verify that no rotation crosses accepts what record wrote,  *)
(* torn lines, half-made rotations and appends in progress included, from   *)
(* either end of the file (query, verify, check_link).                      *)
ReaderAccepts == reader.out = "chain" => reader.crossed

(* The records that can be read: those of log.1, then those of log.         *)
Bodies(i) ==
  IF i = 0 THEN <<>>
  ELSE LET readable == SelectSeq(disk[i].lines, LAMBDA line : line.ok) IN
         [n \in DOMAIN readable |-> readable[n].body]

Trail == INSTANCE AuditTrail WITH kept <- Bodies(dir.old) \o Bodies(dir.log), acked <- acked

(* The log implements AuditTrail: records appear once, at the end, and an   *)
(* acknowledged one goes only as the oldest, by rotation (record,           *)
(* open_for_append).                                                        *)
ImplementsAuditTrail == Trail!Spec
=============================================================================
