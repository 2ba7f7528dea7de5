---------------------------- MODULE UpdateProofs ----------------------------
(***************************************************************************)
(* The self-update, for any number of updaters and releases, any of them   *)
(* sick or refused, and any number of runs and faults.                     *)
(***************************************************************************)
EXTENDS Update, FiniteSetTheorems, TLAPS

----------------------------------------------------------------------------
(***************************************************************************)
(* The choice of a release.                                                *)
(***************************************************************************)

(* A finite set of versions has a newest one: the set of those above it is  *)
(* the smallest of its kind.                                                *)
LEMMA MaxFacts ==
  ASSUME NEW S, IsFiniteSet(S), S \subseteq Int, S # {}
  PROVE  Max(S) \in S
<1> DEFINE Above(v) == {w \in S : w > v}
           F == {Above(v) : v \in S}
<1>1. F \subseteq FiniteSubsetsOf(S)
  <2>1. ASSUME NEW v \in S PROVE Above(v) \in SUBSET S /\ IsFiniteSet(Above(v))
    <3>1. Above(v) \in SUBSET S
      OBVIOUS
    <3> HIDE DEF Above
    <3> QED
      BY <3>1, FS_Subset
  <2> QED
    BY <2>1 DEF FiniteSubsetsOf
<1>2. F # {}
  OBVIOUS
<1>3. PICK v \in S : \A w \in S : ~(<<Above(w), Above(v)>> \in StrictSubsetOrdering(S))
  <2>1. IsWellFoundedOn(StrictSubsetOrdering(S), FiniteSubsetsOf(S))
    BY FS_StrictSubsetOrderingWellFounded
  <2> HIDE DEF F
  <2>2. PICK A \in F : \A B \in F : ~(<<B, A>> \in StrictSubsetOrdering(S))
    BY <1>1, <1>2, <2>1, WFMin
  <2> QED
    BY <2>2 DEF F
<1>4. \A w \in S : v >= w
  <2> SUFFICES ASSUME NEW w \in S, ~(v >= w) PROVE FALSE
    OBVIOUS
  <2>1. v \in Int /\ w \in Int /\ w > v
    OBVIOUS
  <2>2. Above(w) \subseteq Above(v)
    <3>1. \A x \in S : x \in Int
      OBVIOUS
    <3>2. \A x \in S : x > w => x > v
      BY <2>1, <3>1
    <3> QED
      BY <3>2
  <2>3. w \in Above(v) /\ w \notin Above(w) /\ Above(v) \subseteq S
    BY <2>1
  <2> HIDE DEF Above
  <2>4. <<Above(w), Above(v)>> \in StrictSubsetOrdering(S)
    BY <2>2, <2>3 DEF StrictSubsetOrdering
  <2> QED
    BY <1>3, <2>4
<1> QED
  BY <1>4 DEF Max

(* The release that is chosen is one of the list, and never the running one.*)
LEMMA SelectFacts ==
  ASSUME NEW current, NEW list \in SUBSET Releases, NEW old, NEW downgrade
  PROVE  LET v == Select(current, list, old, downgrade) IN
         v = 0 \/ (v \in list /\ (current \in Int => v # current))
<1> DEFINE newer == {v \in list \cap old : v > current}
           lower == {v \in list \cap old : v < current}
<1>1. IsFiniteSet(newer) /\ IsFiniteSet(lower) /\ newer \subseteq Int /\ lower \subseteq Int
  <2>1. newer \in SUBSET Releases /\ lower \in SUBSET Releases
    OBVIOUS
  <2> HIDE DEF newer, lower
  <2>2. Releases \subseteq Int
    BY UpdateAssumption
  <2>3. IsFiniteSet(newer) /\ IsFiniteSet(lower)
    BY <2>1, UpdateAssumption, FS_Subset
  <2> QED
    BY <2>1, <2>2, <2>3
<1>2. newer # {} => Max(newer) \in newer
  <2> HIDE DEF newer
  <2> QED
    BY <1>1, MaxFacts
<1>3. lower # {} => Max(lower) \in lower
  <2> HIDE DEF lower
  <2> QED
    BY <1>1, MaxFacts
<1>4. newer # {} => Max(newer) \in list /\ (current \in Int => Max(newer) # current)
  BY <1>1, <1>2
<1>5. lower # {} => Max(lower) \in list /\ (current \in Int => Max(lower) # current)
  BY <1>1, <1>3
<1> QED
  BY <1>4, <1>5 DEF Select

----------------------------------------------------------------------------
(***************************************************************************)
(* The inductive invariant.                                                *)
(***************************************************************************)

Early == {"select", "verify", "stage", "flush", "unlink", "write"}
Before == Early \cup {"keep", "copy", "copying", "persist", "cleanup"}
Swaps == {"flush", "unlink", "keep", "copy", "copying", "persist"}
After == {"sync", "restart", "health", "mark", "marking", "rollback"}

Contents == (Releases \ Refused) \cup {Partial}

Process ==
  [pc : Before \cup After \cup {"again"}, kind : {"cli", "unit"} \cup Checks,
   tag : Releases \cup {0}, downgrade : BOOLEAN, exe : Nat, cand : Releases \cup {0, Rejected},
   staged : Nat, src : Nat, dst : Nat, seen : SUBSET Releases]

Inodes == 1..Len(files)

(* A torn file is a copy that no sync wrote.                                *)
Sound(n) == files[n] = Partial => n \in copied

(* Every file is of a verified release or torn, and what has a name is      *)
(* neither torn, save for copies, nor without a sync.                       *)
DiskInv ==
  /\ files \in Seq(Contents)
  /\ target \in tdur /\ tdur \subseteq Inodes /\ copied \subseteq Inodes
  /\ prev \in Inodes \cup {0} /\ service \in Inodes \cup {0}
  /\ written \subseteq Inodes /\ prev \notin written /\ tdur \cap written = {}
  /\ \A n \in tdur \cup {prev} : n # 0 => Sound(n)
  /\ managed \in BOOLEAN /\ (~managed => service = 0)
  /\ bad \subseteq Releases /\ stamp \in Releases \cup {0, None, Rejected}
  /\ overlap \in BOOLEAN /\ unrepaired \in BOOLEAN

(* What an updater has in hand at each step.                                *)
ProcessInv(u) ==
  LET p == proc[u] IN
  Running(u) =>
    /\ p \in Process /\ p.exe \in Inodes
    /\ p.pc = "verify" => p.cand \in Releases
    /\ p.pc \in {"stage"} \cup Swaps \cup After => p.cand \in Releases \ Refused
    /\ p.pc \in Swaps => p.staged \in Inodes /\ Sound(p.staged)
    /\ p.pc \in Swaps \ {"flush"} => p.staged \notin written
    /\ p.pc = "copying" => p.src \in Inodes /\ p.dst \in copied

Alone == ~overlap /\ ~unrepaired

(* The binary in place is complete, and the cached offer is another.        *)
SettledInv ==
  /\ service \in {0, target} /\ stamp # files[target] /\ tdur = {target}

(* What an updater that runs alone finds at each step: the binary it runs   *)
(* until the rename, and from there on its candidate, with a complete copy  *)
(* of the one before.                                                       *)
AloneInv(u) ==
  LET p == proc[u] IN
  Running(u) =>
    /\ files[p.exe] # Partial
    /\ p.pc \in Before => p.exe = target /\ SettledInv
    /\ p.pc = "write" => p.cand # files[target]
    /\ p.pc \in Early \cup {"keep", "copy", "copying"} \cup After => prev # target
    /\ p.pc \in Swaps => files[p.staged] = p.cand /\ p.staged \notin {target, prev}
    /\ p.pc = "copying" => p.src = target /\ p.dst = prev /\ prev # 0
    /\ p.pc \in {"persist"} \cup After => prev # 0 /\ files[prev] = files[p.exe] /\ stamp # files[prev]
    /\ p.pc \in After => files[target] = p.cand
    /\ p.pc \in After \ {"sync"} => tdur = {target}
    /\ p.pc = "health" => service \in {0, target}
    /\ p.pc = "again" => prev = 0 /\ files[target] = files[p.exe] /\ stamp # files[target] /\ tdur = {target}

UpdateInv ==
  /\ DiskInv
  /\ proc \in [Updaters -> Process \cup {Idle}]
  /\ \A u \in Updaters : ProcessInv(u)
  /\ Alone => /\ \A n \in tdur : files[n] # Partial
              /\ \A u, w \in Updaters : Running(u) /\ Running(w) => w = u
              /\ \A u \in Updaters : AloneInv(u)
              /\ (\A u \in Updaters : ~Running(u)) => SettledInv /\ prev # target

----------------------------------------------------------------------------
(***************************************************************************)
(* The frame of a step of one updater.                                     *)
(***************************************************************************)

LEMMA IdleFacts ==
  Idle \notin Process /\ Idle.pc = "idle"
  BY DEF Idle, Process, Before, Early, Swaps, After

OnlyMoves(u) ==
  /\ proc' \in [Updaters -> Process \cup {Idle}]
  /\ \A w \in Updaters : w # u => proc'[w] = proc[w]

(* The updater is at another step, with what it had in hand.                *)
Goes(u, pc) ==
  /\ OnlyMoves(u) /\ proc'[u] \in Process /\ proc'[u].pc = pc
  /\ proc'[u].exe = proc[u].exe /\ proc'[u].cand = proc[u].cand
  /\ proc'[u].staged = proc[u].staged
  /\ proc'[u].src = proc[u].src /\ proc'[u].dst = proc[u].dst

LEMMA GotoFacts ==
  ASSUME UpdateInv, NEW u \in Updaters, proc[u] \in Process,
         NEW pc \in Before \cup After \cup {"again"}, Goto(u, pc)
  PROVE  Goes(u, pc)
<1> DEFINE p == [proc[u] EXCEPT !.pc = pc]
<1>1. /\ p \in Process /\ p.pc = pc /\ p.exe = proc[u].exe /\ p.cand = proc[u].cand
      /\ p.staged = proc[u].staged /\ p.src = proc[u].src /\ p.dst = proc[u].dst
  BY DEF Process
<1>2. proc' = [proc EXCEPT ![u] = p]
  BY DEF Goto
<1> HIDE DEF p
<1> QED
  BY <1>1, <1>2 DEF Goes, OnlyMoves, UpdateInv

Stops(u) == OnlyMoves(u) /\ proc'[u] = Idle

LEMMA EndFacts ==
  ASSUME UpdateInv, NEW u \in Updaters, End(u)
  PROVE  Stops(u)
  BY DEF Stops, OnlyMoves, End, UpdateInv

LEMMA AtFacts ==
  ASSUME UpdateInv, NEW u \in Updaters, proc[u].pc # "idle"
  PROVE  Running(u) /\ proc[u] \in Process /\ ProcessInv(u)
  BY IdleFacts DEF Running, UpdateInv, ProcessInv, Swaps

(* What no step does to the files others hold.                              *)
Frame ==
  /\ Inodes \subseteq Inodes' /\ copied \subseteq copied' /\ written' \cap Inodes \subseteq written
  /\ \A n \in Inodes : files'[n] = Partial => files[n] = Partial \/ n \in copied'

LEMMA OthersStay ==
  ASSUME UpdateInv, NEW w \in Updaters, proc'[w] = proc[w], Frame
  PROVE  ProcessInv(w)'
<1>1. ProcessInv(w)
  BY DEF UpdateInv
<1> QED
  BY <1>1 DEF ProcessInv, Swaps, Running, Frame, Sound

(* A step of u: what is left to show.                                       *)
LEMMA StepKeeps ==
  ASSUME UpdateInv, NEW u \in Updaters, Running(u), OnlyMoves(u), DiskInv',
         Frame, ProcessInv(u)',
         Alone' => /\ Alone
                   /\ \A n \in tdur' : files'[n] # Partial
                   /\ Running(u)' => AloneInv(u)'
                   /\ ~Running(u)' => SettledInv' /\ prev' # target'
  PROVE  UpdateInv'
<1>1. \A w \in Updaters : ProcessInv(w)'
  BY OthersStay DEF OnlyMoves
<1>2. ASSUME Alone'
      PROVE  /\ \A w \in Updaters : w # u => ~Running(w)'
             /\ \A w \in Updaters : AloneInv(w)'
             /\ (\A w \in Updaters : ~Running(w)') => SettledInv' /\ prev' # target'
  <2>1. \A w \in Updaters : w # u => ~Running(w)'
    BY <1>2 DEF UpdateInv, Running, OnlyMoves
  <2>2. \A w \in Updaters : w # u => AloneInv(w)'
    BY <2>1 DEF AloneInv
  <2>3. AloneInv(u)'
    BY <1>2 DEF AloneInv
  <2> QED
    BY <1>2, <2>1, <2>2, <2>3
<1> QED
  BY <1>1, <1>2 DEF UpdateInv, OnlyMoves

(* One that leaves the disk and the store.                                  *)
LEMMA SameDisk ==
  ASSUME UpdateInv, UNCHANGED <<files, target, prev, tdur, copied, written, managed>>,
         service' \in Inodes \cup {0}, ~managed => service' = 0,
         bad' \subseteq Releases, stamp' \in Releases \cup {0, None, Rejected},
         overlap' \in BOOLEAN, unrepaired' \in BOOLEAN
  PROVE  /\ DiskInv' /\ Frame /\ Inodes' = Inodes
         /\ Alone => \A n \in tdur' : files'[n] # Partial
  BY DEF Frame, Sound, UpdateInv, DiskInv, Inodes

LEMMA Here ==
  ASSUME UpdateInv, NEW u \in Updaters, Running(u), Alone
  PROVE  AloneInv(u) /\ target \in tdur /\ files[target] # Partial
  BY DEF UpdateInv, DiskInv

----------------------------------------------------------------------------
(***************************************************************************)
(* The actions.                                                            *)
(***************************************************************************)

Quiet == UNCHANGED <<files, target, prev, tdur, copied, written, managed, service, bad, stamp, overlap>>

(* Before the rename an updater leaves what it found.                       *)
LEMMA EndBefore ==
  ASSUME UpdateInv, NEW u \in Updaters, proc[u].pc \in Early, Stops(u), Quiet,
         unrepaired' \in BOOLEAN, unrepaired => unrepaired'
  PROVE  UpdateInv'
<1>1. Running(u) /\ proc[u] \in Process
  BY AtFacts DEF Early
<1>2. /\ DiskInv' /\ Frame /\ Inodes' = Inodes
      /\ Alone => \A n \in tdur' : files'[n] # Partial
  BY SameDisk DEF Quiet, UpdateInv, DiskInv
<1>3. ~Running(u)' /\ OnlyMoves(u)
  BY DEF Stops, Running
<1>4. Alone' => Alone
  BY DEF Alone, Quiet
<1>5. Alone => SettledInv' /\ prev' # target'
  BY <1>1, Here DEF AloneInv, SettledInv, Quiet, Before, Early, Swaps
<1> QED
  BY <1>1, <1>2, <1>3, <1>4, <1>5, StepKeeps DEF ProcessInv, Swaps

LEMMA MoveOn ==
  ASSUME UpdateInv, NEW u \in Updaters, Running(u), OnlyMoves(u), Quiet,
         unrepaired' \in BOOLEAN, unrepaired => unrepaired',
         ProcessInv(u)', Alone' => AloneInv(u)', Running(u)'
  PROVE  UpdateInv'
<1>1. /\ DiskInv' /\ Frame /\ Inodes' = Inodes
      /\ Alone => \A n \in tdur' : files'[n] # Partial
  BY SameDisk DEF Quiet, UpdateInv, DiskInv
<1>2. Alone' => Alone
  BY DEF Alone, Quiet
<1> QED
  BY <1>1, <1>2, StepKeeps

LEMMA ChoiceFacts ==
  ASSUME UpdateInv, NEW u \in Updaters, NEW feed \in SUBSET Releases, NEW old
  PROVE  LET v == Choice(u, feed, old) IN
         v = 0 \/ (v \in Releases /\ (Current(u) \in Int => v # Current(u)))
<1> DEFINE list == (IF proc[u].tag = 0 THEN feed ELSE feed \cap {proc[u].tag}) \ bad
<1>1. list \in SUBSET Releases
  OBVIOUS
<1>2. Choice(u, feed, old) = Select(Current(u), list, old, proc[u].downgrade)
  BY DEF Choice
<1> HIDE DEF list
<1> QED
  BY <1>1, <1>2, SelectFacts

LEMMA PrepareStep ==
  ASSUME UpdateInv, NEW u \in Updaters, Prepare(u)
  PROVE  UpdateInv'
<1>1. proc[u].pc = "select" /\ Quiet /\ UNCHANGED unrepaired
  BY DEF Prepare, At, Quiet, disk, fixed, store, history
<1>2. Running(u) /\ proc[u] \in Process /\ ProcessInv(u)
  BY <1>1, AtFacts
<1>3. unrepaired' \in BOOLEAN /\ (unrepaired => unrepaired')
  BY <1>1 DEF UpdateInv, DiskInv
<1>4. CASE End(u)
  BY <1>1, <1>3, <1>4, EndFacts, EndBefore DEF Early
<1>5. ASSUME NEW chosen \in Releases,
             proc' = [proc EXCEPT ![u] = [@ EXCEPT !.pc = "verify", !.tag = 0, !.downgrade = FALSE, !.cand = chosen]]
      PROVE  UpdateInv'
  <2> DEFINE p == [proc[u] EXCEPT !.pc = "verify", !.tag = 0, !.downgrade = FALSE, !.cand = chosen]
  <2>1. p \in Process /\ p.pc = "verify" /\ p.exe = proc[u].exe /\ p.cand = chosen
    BY <1>2 DEF Process, Before, Early, Swaps
  <2>2. proc' = [proc EXCEPT ![u] = p]
    BY <1>5
  <2> HIDE DEF p
  <2>3. OnlyMoves(u) /\ proc'[u] = p /\ Running(u)'
    BY <2>1, <2>2, IdleFacts DEF OnlyMoves, UpdateInv, Running
  <2>4. ProcessInv(u)'
    BY <1>1, <1>2, <2>1, <2>3 DEF ProcessInv, Swaps, Inodes, Quiet, After
  <2>5. Alone' => AloneInv(u)'
    <3>1. Alone' => AloneInv(u)
      BY <1>1, <1>2, Here DEF Alone, Quiet
    <3> QED
      BY <1>1, <1>2, <2>1, <2>3, <3>1 DEF AloneInv, SettledInv, Quiet, Before, Early, Swaps, After
  <2> QED
    BY <1>1, <1>2, <1>3, <2>3, <2>4, <2>5, MoveOn
<1>6. PICK feed \in SUBSET Releases : \E old \in SUBSET feed :
        LET chosen == Choice(u, feed, old) IN
        IF chosen = 0 THEN End(u)
        ELSE proc' = [proc EXCEPT ![u] = [@ EXCEPT !.pc = "verify", !.tag = 0, !.downgrade = FALSE, !.cand = chosen]]
  BY DEF Prepare
<1> QED
  BY <1>4, <1>5, <1>6, ChoiceFacts

LEMMA VerifyStep ==
  ASSUME UpdateInv, NEW u \in Updaters, Verify(u)
  PROVE  UpdateInv'
<1>1. proc[u].pc = "verify" /\ Quiet /\ UNCHANGED unrepaired
  BY DEF Verify, At, Quiet, disk, fixed, store, history
<1>2. Running(u) /\ proc[u] \in Process /\ ProcessInv(u)
  BY <1>1, AtFacts
<1>3. unrepaired' \in BOOLEAN /\ (unrepaired => unrepaired')
  BY <1>1 DEF UpdateInv, DiskInv
<1>4. CASE End(u)
  BY <1>1, <1>3, <1>4, EndFacts, EndBefore DEF Early
<1>5. CASE proc[u].cand \notin Refused /\ Goto(u, "stage")
  <2>1. Goes(u, "stage") /\ Running(u)'
    BY <1>2, <1>5, GotoFacts, IdleFacts DEF Before, Early, Swaps, Goes, Running
  <2>2. ProcessInv(u)'
    BY <1>1, <1>2, <1>5, <2>1 DEF Goes, ProcessInv, Swaps, Inodes, Quiet
  <2>3. Alone' => AloneInv(u)'
    <3>1. Alone' => AloneInv(u)
      BY <1>1, <1>2, Here DEF Alone, Quiet
    <3> QED
      BY <1>1, <1>2, <2>1, <3>1 DEF Goes, AloneInv, SettledInv, Quiet, Before, Early, Swaps, After
  <2> QED
    BY <1>1, <1>2, <1>3, <2>1, <2>2, <2>3, MoveOn DEF Goes
<1> QED
  BY <1>4, <1>5 DEF Verify

LEMMA CheckReportStep ==
  ASSUME UpdateInv, NEW u \in Updaters, CheckReport(u)
  PROVE  UpdateInv'
<1>1. proc[u].pc = "select" /\ Quiet /\ UNCHANGED unrepaired
  BY DEF CheckReport, At, Quiet, disk, fixed, store, history
<1>2. Running(u) /\ proc[u] \in Process /\ ProcessInv(u)
  BY <1>1, AtFacts
<1>3. unrepaired' \in BOOLEAN /\ (unrepaired => unrepaired')
  BY <1>1 DEF UpdateInv, DiskInv
<1>4. CASE End(u)
  BY <1>1, <1>3, <1>4, EndFacts, EndBefore DEF Early
<1>5. ASSUME NEW report \in Releases \cup {0, Rejected},
             Current(u) \in Releases => report # Current(u),
             proc' = [proc EXCEPT ![u] = [@ EXCEPT !.pc = "write", !.downgrade = FALSE, !.cand = report]]
      PROVE  UpdateInv'
  <2> DEFINE p == [proc[u] EXCEPT !.pc = "write", !.downgrade = FALSE, !.cand = report]
  <2>1. p \in Process /\ p.pc = "write" /\ p.exe = proc[u].exe /\ p.cand = report
    BY <1>2 DEF Process, Before, Early, Swaps
  <2>2. proc' = [proc EXCEPT ![u] = p]
    BY <1>5
  <2> HIDE DEF p
  <2>3. OnlyMoves(u) /\ proc'[u] = p /\ Running(u)'
    BY <2>1, <2>2, IdleFacts DEF OnlyMoves, UpdateInv, Running
  <2>4. ProcessInv(u)'
    BY <1>1, <1>2, <2>1, <2>3 DEF ProcessInv, Swaps, Inodes, Quiet, After
  <2>5. Alone' => AloneInv(u)'
    <3>1. Alone' => AloneInv(u) /\ files[target] # Partial
      BY <1>1, <1>2, Here DEF Alone, Quiet
    <3>2. AloneInv(u) => proc[u].exe = target
      BY <1>1, <1>2 DEF AloneInv, Before, Early, Swaps
    <3>3. files[target] # Partial => files[target] \in Releases
      BY DEF UpdateInv, DiskInv, Inodes, Contents
    <3>4. Alone' => report # files[target]
      BY <1>5, <3>1, <3>2, <3>3 DEF Current, Version
    <3> QED
      BY <1>1, <1>2, <2>1, <2>3, <3>1, <3>4 DEF AloneInv, SettledInv, Quiet, Before, Early, Swaps, After
  <2> QED
    BY <1>1, <1>2, <1>3, <2>3, <2>4, <2>5, MoveOn
<1>6. ASSUME NEW feed \in SUBSET Releases, NEW old, NEW report \in Reports(u, feed, old)
      PROVE  /\ report \in Releases \cup {0, Rejected}
             /\ Current(u) \in Releases => report # Current(u)
  <2>1. report = Rejected \/ report = Choice(u, feed, old)
    BY <1>6 DEF Reports
  <2>2. 0 \notin Releases /\ Rejected \notin Releases /\ Releases \subseteq Int
    BY UpdateAssumption DEF Rejected
  <2> QED
    BY <2>1, <2>2, ChoiceFacts
<1> QED
  BY <1>4, <1>5, <1>6 DEF CheckReport

LEMMA StageStep ==
  ASSUME UpdateInv, NEW u \in Updaters, Stage(u)
  PROVE  UpdateInv'
<1> DEFINE m == Len(files) + 1
<1>1. /\ proc[u].pc = "stage" /\ files' = Append(files, proc[u].cand) /\ written' = written \cup {m}
      /\ UNCHANGED <<target, prev, tdur, copied, managed, service, bad, stamp, overlap, unrepaired>>
  BY DEF Stage, At, store, history
<1>2. Running(u) /\ proc[u] \in Process /\ ProcessInv(u)
  BY <1>1, AtFacts
<1>3. proc[u].cand \in Contents /\ proc[u].cand # Partial /\ files \in Seq(Contents)
  BY <1>1, <1>2, UpdateAssumption DEF ProcessInv, Contents, UpdateInv, DiskInv
<1>4. /\ files' \in Seq(Contents) /\ Len(files') = m /\ m \in Nat \ {0}
      /\ files'[m] = proc[u].cand /\ \A n \in Inodes : files'[n] = files[n]
  BY <1>1, <1>3 DEF Inodes
<1>5. Inodes' = Inodes \cup {m} /\ m \notin Inodes
  BY <1>4 DEF Inodes
<1>6. proc' = [proc EXCEPT ![u] = [proc[u] EXCEPT !.pc = "flush", !.staged = m]]
  BY DEF Stage
<1> HIDE DEF m
<1>7. DiskInv'
  <2>1. \A n \in tdur \cup {prev} : n # 0 => Sound(n)'
    BY <1>1, <1>4 DEF UpdateInv, DiskInv, Sound
  <2>2. m # 0 /\ m \notin tdur /\ m # prev
    BY <1>4, <1>5 DEF UpdateInv, DiskInv
  <2> QED
    BY <1>1, <1>4, <1>5, <2>1, <2>2 DEF UpdateInv, DiskInv
<1> DEFINE p == [proc[u] EXCEPT !.pc = "flush", !.staged = m]
<1>8. /\ p \in Process /\ p.pc = "flush" /\ p.exe = proc[u].exe /\ p.cand = proc[u].cand
      /\ p.staged = m
  BY <1>2, <1>4 DEF Process, Before, Early
<1>9. proc' = [proc EXCEPT ![u] = p]
  BY <1>6
<1> HIDE DEF p
<1>10. OnlyMoves(u) /\ proc'[u] = p /\ Running(u)'
  BY <1>8, <1>9, IdleFacts DEF OnlyMoves, UpdateInv, Running
<1>11. ProcessInv(u)'
  BY <1>1, <1>2, <1>3, <1>4, <1>5, <1>8, <1>10 DEF ProcessInv, Swaps, Sound
<1>12. ASSUME Alone' PROVE Alone /\ AloneInv(u)' /\ \A n \in tdur' : files'[n] # Partial
  <2>1. /\ Alone /\ AloneInv(u) /\ tdur \subseteq Inodes /\ target \in Inodes
        /\ prev \in Inodes \cup {0}
    BY <1>1, <1>2, <1>12, Here DEF Alone, UpdateInv, DiskInv
  <2>2. \A n \in tdur' : files'[n] # Partial
    BY <1>1, <1>4, <2>1 DEF UpdateInv
  <2>3. proc[u].exe = target /\ SettledInv /\ files[target] # Partial /\ prev # target
    BY <1>1, <1>2, <2>1 DEF AloneInv, Before, Early
  <2>4. SettledInv' /\ files'[target'] # Partial
    BY <1>1, <1>4, <2>1, <2>3 DEF SettledInv
  <2>5. m \notin {target, prev}
    BY <1>4, <1>5, <2>1
  <2> QED
    BY <1>1, <1>4, <1>8, <1>10, <2>1, <2>2, <2>3, <2>4, <2>5 DEF AloneInv, Before, Early, Swaps, After
<1>13. Frame
  BY <1>1, <1>4, <1>5 DEF Frame
<1> QED
  BY <1>2, <1>7, <1>10, <1>11, <1>12, <1>13, StepKeeps

LEMMA StageSyncStep ==
  ASSUME UpdateInv, NEW u \in Updaters, StageSync(u)
  PROVE  UpdateInv'
<1>1. /\ proc[u].pc = "flush" /\ written' = written \ {proc[u].staged} /\ Goto(u, "unlink")
      /\ UNCHANGED <<files, target, prev, tdur, copied, managed, service, bad, stamp, overlap, unrepaired>>
  BY DEF StageSync, At, store, history
<1>2. Running(u) /\ proc[u] \in Process /\ ProcessInv(u)
  BY <1>1, AtFacts
<1>3. Goes(u, "unlink") /\ Running(u)'
  BY <1>1, <1>2, GotoFacts, IdleFacts DEF Before, Early, Goes, Running
<1>4. DiskInv' /\ Frame /\ Inodes' = Inodes
  BY <1>1 DEF UpdateInv, DiskInv, Inodes, Frame, Sound
<1>5. ProcessInv(u)'
  BY <1>1, <1>2, <1>3, <1>4 DEF Goes, ProcessInv, Swaps, Sound
<1>6. ASSUME Alone' PROVE Alone /\ AloneInv(u)' /\ \A n \in tdur' : files'[n] # Partial
  <2>1. Alone /\ AloneInv(u)
    BY <1>1, <1>2, <1>6, Here DEF Alone
  <2> QED
    BY <1>1, <1>2, <1>3, <2>1 DEF Goes, AloneInv, SettledInv, Before, Early, Swaps, After, UpdateInv
<1> QED
  BY <1>2, <1>3, <1>4, <1>5, <1>6, StepKeeps DEF Goes

LEMMA RemovePreviousStep ==
  ASSUME UpdateInv, NEW u \in Updaters, RemovePrevious(u)
  PROVE  UpdateInv'
<1>1. /\ proc[u].pc = "unlink" /\ prev' = 0 /\ Goto(u, "keep")
      /\ UNCHANGED <<files, target, tdur, copied, written, managed, service, bad, stamp, overlap, unrepaired>>
  BY DEF RemovePrevious, At, fixed, store, history
<1>2. Running(u) /\ proc[u] \in Process /\ ProcessInv(u)
  BY <1>1, AtFacts
<1>3. Goes(u, "keep") /\ Running(u)'
  BY <1>1, <1>2, GotoFacts, IdleFacts DEF Before, Early, Goes, Running
<1>4. DiskInv' /\ Frame /\ Inodes' = Inodes /\ 0 \notin Inodes
  BY <1>1 DEF UpdateInv, DiskInv, Inodes, Frame, Sound
<1>5. ProcessInv(u)'
  BY <1>1, <1>2, <1>3, <1>4 DEF Goes, ProcessInv, Swaps, Sound
<1>6. ASSUME Alone' PROVE Alone /\ AloneInv(u)' /\ \A n \in tdur' : files'[n] # Partial
  <2>1. Alone /\ AloneInv(u) /\ target # 0 /\ proc[u].staged # 0
    BY <1>1, <1>2, <1>4, <1>6, Here DEF Alone, UpdateInv, DiskInv, ProcessInv, Swaps
  <2> QED
    BY <1>1, <1>2, <1>3, <2>1 DEF Goes, AloneInv, SettledInv, Before, Early, Swaps, After, UpdateInv
<1> QED
  BY <1>2, <1>3, <1>4, <1>5, <1>6, StepKeeps DEF Goes

LEMMA KeepPreviousStep ==
  ASSUME UpdateInv, NEW u \in Updaters, KeepPrevious(u)
  PROVE  UpdateInv'
<1>1. /\ proc[u].pc = "keep"
      /\ UNCHANGED <<files, target, tdur, copied, written, managed, service, bad, stamp, overlap, unrepaired>>
  BY DEF KeepPrevious, At, fixed, store, history
<1>2. Running(u) /\ proc[u] \in Process /\ ProcessInv(u)
  BY <1>1, AtFacts
<1>3. CASE prev' = target /\ Goto(u, "persist")
  <2>1. Goes(u, "persist") /\ Running(u)'
    BY <1>2, <1>3, GotoFacts, IdleFacts DEF Before, Early, Swaps, Goes, Running
  <2>2. DiskInv' /\ Frame /\ Inodes' = Inodes
    BY <1>1, <1>3 DEF Frame, Sound, UpdateInv, DiskInv, Inodes
  <2>3. ProcessInv(u)'
    BY <1>1, <1>2, <2>1, <2>2 DEF Goes, ProcessInv, Swaps, Sound
  <2>4. ASSUME Alone' PROVE Alone /\ AloneInv(u)' /\ \A n \in tdur' : files'[n] # Partial
    <3>1. Alone /\ AloneInv(u)
      BY <1>1, <1>2, <2>4, Here DEF Alone
    <3>2. target # 0
      BY DEF UpdateInv, DiskInv, Inodes
    <3> QED
      BY <1>1, <1>2, <1>3, <2>1, <3>1, <3>2 DEF Goes, AloneInv, SettledInv, Before, Early, Swaps, After, UpdateInv
  <2> QED
    BY <1>2, <2>1, <2>2, <2>3, <2>4, StepKeeps DEF Goes
<1>4. CASE UNCHANGED prev /\ Goto(u, "copy")
  <2>1. Goes(u, "copy") /\ Running(u)'
    BY <1>2, <1>4, GotoFacts, IdleFacts DEF Before, Early, Swaps, Goes, Running
  <2>2. Quiet
    BY <1>1, <1>4 DEF Quiet
  <2>3. ProcessInv(u)'
    BY <1>1, <1>2, <2>1 DEF Goes, ProcessInv, Swaps, Inodes, Sound
  <2>4. ASSUME Alone' PROVE AloneInv(u)'
    <3>1. Alone /\ AloneInv(u)
      BY <1>1, <1>2, <2>4, Here DEF Alone
    <3> QED
      BY <1>1, <1>2, <1>4, <2>1, <3>1 DEF Goes, AloneInv, SettledInv, Before, Early, Swaps, After
  <2>5. unrepaired' \in BOOLEAN
    BY <1>1 DEF UpdateInv, DiskInv
  <2> QED
    BY <1>1, <1>2, <2>1, <2>2, <2>3, <2>4, <2>5, MoveOn DEF Goes
<1> QED
  BY <1>3, <1>4 DEF KeepPrevious

LEMMA CopyOpenStep ==
  ASSUME UpdateInv, NEW u \in Updaters, CopyOpen(u)
  PROVE  UpdateInv'
<1>1. /\ proc[u].pc = "copy"
      /\ UNCHANGED <<target, tdur, written, managed, service, bad, stamp, overlap, unrepaired>>
  BY DEF CopyOpen, At, store, history
<1>2. Running(u) /\ proc[u] \in Process /\ ProcessInv(u) /\ unrepaired' \in BOOLEAN
  BY <1>1, AtFacts DEF UpdateInv, DiskInv
<1>3. ASSUME Alone' PROVE Alone /\ AloneInv(u) /\ prev \notin {target, proc[u].staged}
  <2>1. Alone /\ AloneInv(u)
    BY <1>1, <1>2, <1>3, Here DEF Alone
  <2> QED
    BY <1>1, <1>2, <2>1 DEF AloneInv, Swaps
<1>4. CASE prev # 0 /\ Goto(u, "cleanup") /\ UNCHANGED <<files, prev, copied>>
  <2>1. Goes(u, "cleanup") /\ Running(u)'
    BY <1>2, <1>4, GotoFacts, IdleFacts DEF Before, Early, Swaps, Goes, Running
  <2>2. Quiet
    BY <1>1, <1>4 DEF Quiet
  <2>3. ProcessInv(u)'
    BY <1>1, <1>2, <1>4, <2>1 DEF Goes, ProcessInv, Swaps, Inodes
  <2>4. ASSUME Alone' PROVE AloneInv(u)'
    BY <1>1, <1>2, <1>3, <1>4, <2>1, <2>4 DEF Goes, AloneInv, SettledInv, Before, Early, Swaps, After
  <2> QED
    BY <1>1, <1>2, <2>1, <2>2, <2>3, <2>4, MoveOn DEF Goes
<1> DEFINE n == IF prev = 0 THEN Len(files) + 1 ELSE prev
<1>5. CASE /\ copied' = copied \cup {n} /\ prev' = n
           /\ files' = IF prev = 0 THEN Append(files, Partial) ELSE [files EXCEPT ![prev] = Partial]
           /\ proc' = [proc EXCEPT ![u] = [@ EXCEPT !.pc = "copying", !.src = target, !.dst = n]]
  <2>1. /\ files \in Seq(Contents) /\ Partial \in Contents /\ Len(files) \in Nat
        /\ prev \in Inodes \cup {0} /\ target \in Inodes
    BY DEF UpdateInv, DiskInv, Contents, Inodes
  <2>2. /\ files' \in Seq(Contents) /\ Inodes \subseteq Inodes' /\ n \in Inodes' /\ n \in Nat \ {0}
        /\ files'[n] = Partial /\ \A i \in Inodes : i # n => files'[i] = files[i]
        /\ Inodes' \subseteq Inodes \cup {n} /\ (prev = 0 => n \notin Inodes)
    <3>1. CASE prev = 0
      BY <1>5, <2>1, <3>1 DEF Inodes
    <3>2. CASE prev # 0
      BY <1>5, <2>1, <3>2 DEF Inodes
    <3> QED
      BY <3>1, <3>2
  <2> DEFINE p == [proc[u] EXCEPT !.pc = "copying", !.src = target, !.dst = n]
  <2>3. /\ p \in Process /\ p.pc = "copying" /\ p.exe = proc[u].exe /\ p.cand = proc[u].cand
        /\ p.staged = proc[u].staged /\ p.src = target /\ p.dst = n
    <3>1. n \in Nat /\ target \in Nat
      BY <2>1, <2>2 DEF Inodes
    <3> HIDE DEF n
    <3> QED
      BY <1>2, <3>1 DEF Process, Before, Early, Swaps
  <2>4. proc' = [proc EXCEPT ![u] = p]
    BY <1>5
  <2>5. copied' = copied \cup {n} /\ prev' = n
    BY <1>5
  <2>6. n = prev \/ n \notin Inodes
    BY <2>2
  <2> HIDE DEF p, n
  <2>7. OnlyMoves(u) /\ proc'[u] = p /\ Running(u)'
    BY <2>3, <2>4, IdleFacts DEF OnlyMoves, UpdateInv, Running
  <2>8. DiskInv' /\ Frame
    <3>1. \A i \in tdur \cup {n} : Sound(i)'
      BY <2>2, <2>5 DEF UpdateInv, DiskInv, Sound, Inodes
    <3>2. n \notin written
      BY <2>2, <2>6 DEF UpdateInv, DiskInv
    <3> QED
      BY <1>1, <2>2, <2>5, <3>1, <3>2 DEF UpdateInv, DiskInv, Frame
  <2>9. ProcessInv(u)'
    BY <1>1, <1>2, <2>1, <2>2, <2>3, <2>5, <2>7 DEF ProcessInv, Swaps, Sound
  <2>10. ASSUME Alone' PROVE AloneInv(u)' /\ \A i \in tdur' : files'[i] # Partial
    <3>1. Alone /\ AloneInv(u) /\ prev \notin {target, proc[u].staged}
      BY <1>3, <2>10
    <3>2. tdur \subseteq Inodes /\ proc[u].staged \in Inodes
      BY <1>1, <1>2 DEF UpdateInv, DiskInv, ProcessInv, Swaps
    <3>3. n \notin {0, target, proc[u].staged}
      BY <2>1, <2>2, <2>6, <3>1, <3>2
    <3>5. proc[u].exe = target /\ SettledInv /\ files[target] # Partial
      BY <1>1, <1>2, <3>1 DEF AloneInv, Before, Early, Swaps
    <3>6. files'[target] = files[target] /\ files'[proc[u].staged] = files[proc[u].staged]
      BY <2>1, <2>2, <3>2, <3>3
    <3>7. SettledInv'
      BY <1>1, <3>5, <3>6 DEF SettledInv
    <3>8. \A i \in tdur' : files'[i] # Partial
      BY <1>1, <3>5, <3>6 DEF SettledInv
    <3>9. files[proc[u].staged] = proc[u].cand /\ proc[u].staged # target
      BY <1>1, <1>2, <3>1 DEF AloneInv, Swaps
    <3> QED
      BY <1>1, <2>3, <2>5, <2>7, <3>3, <3>5, <3>6, <3>7, <3>8, <3>9 DEF AloneInv, Before, Early, Swaps, After
  <2> QED
    BY <1>2, <1>3, <2>7, <2>8, <2>9, <2>10, StepKeeps
<1> QED
  BY <1>4, <1>5 DEF CopyOpen

LEMMA CopyDoneStep ==
  ASSUME UpdateInv, NEW u \in Updaters, CopyDone(u)
  PROVE  UpdateInv'
<1> DEFINE dst == proc[u].dst
           src == proc[u].src
<1>1. /\ proc[u].pc = "copying" /\ files' = [files EXCEPT ![dst] = files[src]]
      /\ UNCHANGED <<target, prev, tdur, copied, written, managed, service, bad, stamp, overlap, unrepaired>>
  BY DEF CopyDone, At, fixed, store, history
<1>2. Running(u) /\ proc[u] \in Process /\ ProcessInv(u)
  BY <1>1, AtFacts
<1>3. src \in Inodes /\ dst \in Inodes /\ dst \in copied /\ files \in Seq(Contents)
  BY <1>1, <1>2 DEF ProcessInv, Swaps, UpdateInv, DiskInv
<1>4. /\ files' \in Seq(Contents) /\ Inodes' = Inodes /\ files'[dst] = files[src]
      /\ \A n \in Inodes : n # dst => files'[n] = files[n]
  BY <1>1, <1>3 DEF Inodes
<1>5. DiskInv' /\ Frame
  <2>1. \A n \in tdur \cup {prev} : n # 0 => Sound(n)'
    BY <1>1, <1>3, <1>4 DEF UpdateInv, DiskInv, Sound
  <2> QED
    BY <1>1, <1>3, <1>4, <2>1 DEF UpdateInv, DiskInv, Frame
<1> DEFINE p == [proc[u] EXCEPT !.pc = "persist", !.src = 0, !.dst = 0]
<1>6. /\ p \in Process /\ p.pc = "persist" /\ p.exe = proc[u].exe /\ p.cand = proc[u].cand
      /\ p.staged = proc[u].staged
  BY <1>2 DEF Process, Before, Early, Swaps
<1>7. proc' = [proc EXCEPT ![u] = p]
  BY DEF CopyDone
<1> HIDE DEF p
<1>8. OnlyMoves(u) /\ proc'[u] = p /\ Running(u)'
  BY <1>6, <1>7, IdleFacts DEF OnlyMoves, UpdateInv, Running
<1>9. ProcessInv(u)'
  BY <1>1, <1>2, <1>3, <1>4, <1>6, <1>8 DEF ProcessInv, Swaps, Sound
<1>10. ASSUME Alone' PROVE Alone /\ AloneInv(u)' /\ \A n \in tdur' : files'[n] # Partial
  <2>1. Alone /\ AloneInv(u) /\ tdur \subseteq Inodes /\ target \in Inodes
        /\ proc[u].staged \in Inodes
    BY <1>1, <1>2, <1>10, Here DEF Alone, UpdateInv, DiskInv, ProcessInv, Swaps
  <2>2. /\ proc[u].exe = target /\ SettledInv /\ files[target] # Partial
        /\ files[proc[u].staged] = proc[u].cand
        /\ src = target /\ dst = prev /\ prev \notin {0, target, proc[u].staged}
        /\ proc[u].staged # target
    BY <1>1, <1>2, <2>1 DEF AloneInv, Before, Early, Swaps
  <2>3. /\ files'[target] = files[target] /\ files'[prev] = files[target]
        /\ files'[proc[u].staged] = files[proc[u].staged]
    BY <1>4, <2>1, <2>2
  <2>4. \A n \in tdur' : files'[n] # Partial
    BY <1>1, <2>2, <2>3 DEF SettledInv
  <2>5. SettledInv'
    BY <1>1, <2>2, <2>3 DEF SettledInv
  <2>6. stamp # files'[prev]
    BY <2>2, <2>3 DEF SettledInv
  <2> QED
    BY <1>1, <1>6, <1>8, <2>1, <2>2, <2>3, <2>4, <2>5, <2>6 DEF AloneInv, Before, Early, Swaps, After
<1> QED
  BY <1>2, <1>5, <1>8, <1>9, <1>10, StepKeeps

LEMMA PersistStep ==
  ASSUME UpdateInv, NEW u \in Updaters, Persist(u)
  PROVE  UpdateInv'
<1>1. /\ proc[u].pc = "persist" /\ target' = proc[u].staged /\ tdur' = tdur \cup {proc[u].staged}
      /\ Goto(u, "sync")
      /\ UNCHANGED <<files, prev, copied, written, managed, service, bad, stamp, overlap, unrepaired>>
  BY DEF Persist, At, fixed, store, history
<1>2. /\ Running(u) /\ proc[u] \in Process /\ ProcessInv(u)
      /\ proc[u].staged \in Inodes /\ Sound(proc[u].staged) /\ proc[u].staged \notin written
  BY <1>1, AtFacts DEF ProcessInv, Swaps
<1>3. Goes(u, "sync") /\ Running(u)'
  BY <1>1, <1>2, GotoFacts, IdleFacts DEF After, Goes, Running
<1>4. DiskInv' /\ Frame /\ Inodes' = Inodes
  BY <1>1, <1>2 DEF Frame, Sound, UpdateInv, DiskInv, Inodes
<1>5. ProcessInv(u)'
  BY <1>1, <1>2, <1>3, <1>4 DEF Goes, ProcessInv, Swaps
<1>6. ASSUME Alone' PROVE Alone /\ AloneInv(u)' /\ \A n \in tdur' : files'[n] # Partial
  <2>1. Alone /\ AloneInv(u)
    BY <1>1, <1>2, <1>6, Here DEF Alone
  <2>2. files[proc[u].staged] = proc[u].cand /\ proc[u].cand # Partial
    BY <1>1, <1>2, <2>1, UpdateAssumption DEF AloneInv, ProcessInv, Swaps
  <2>3. \A n \in tdur' : files'[n] # Partial
    BY <1>1, <2>1, <2>2 DEF UpdateInv
  <2> QED
    BY <1>1, <1>2, <1>3, <2>1, <2>2, <2>3 DEF Goes, AloneInv, Before, Early, Swaps, After
<1> QED
  BY <1>2, <1>3, <1>4, <1>5, <1>6, StepKeeps DEF Goes

LEMMA SyncDirectoryStep ==
  ASSUME UpdateInv, NEW u \in Updaters, SyncDirectory(u)
  PROVE  UpdateInv'
<1>1. /\ proc[u].pc = "sync" /\ tdur' = {target} /\ Goto(u, "restart")
      /\ UNCHANGED <<files, target, prev, copied, written, managed, service, bad, stamp, overlap, unrepaired>>
  BY DEF SyncDirectory, At, fixed, store, history
<1>2. Running(u) /\ proc[u] \in Process /\ ProcessInv(u)
  BY <1>1, AtFacts
<1>3. Goes(u, "restart") /\ Running(u)'
  BY <1>1, <1>2, GotoFacts, IdleFacts DEF After, Goes, Running
<1>4. DiskInv' /\ Frame /\ Inodes' = Inodes
  BY <1>1, <1>2 DEF Frame, Sound, UpdateInv, DiskInv, Inodes
<1>5. ProcessInv(u)'
  BY <1>1, <1>2, <1>3, <1>4 DEF Goes, ProcessInv, Swaps, After
<1>6. ASSUME Alone' PROVE Alone /\ AloneInv(u)' /\ \A n \in tdur' : files'[n] # Partial
  <2>1. Alone /\ AloneInv(u) /\ files[target] # Partial
    BY <1>1, <1>2, <1>6, Here DEF Alone
  <2> QED
    BY <1>1, <1>2, <1>3, <2>1 DEF Goes, AloneInv, Before, Early, Swaps, After
<1> QED
  BY <1>2, <1>3, <1>4, <1>5, <1>6, StepKeeps DEF Goes

LEMMA CleanupStep ==
  ASSUME UpdateInv, NEW u \in Updaters, Cleanup(u)
  PROVE  UpdateInv'
<1>1. /\ proc[u].pc = "cleanup" /\ prev' = 0 /\ Stops(u)
      /\ UNCHANGED <<files, target, tdur, copied, written, managed, service, bad, stamp, overlap, unrepaired>>
  BY EndFacts DEF Cleanup, At, fixed, store, history
<1>2. Running(u) /\ proc[u] \in Process /\ ~Running(u)'
  BY <1>1, AtFacts DEF Stops, Running
<1>3. DiskInv' /\ Frame /\ Inodes' = Inodes
  BY <1>1 DEF Frame, Sound, UpdateInv, DiskInv, Inodes
<1>4. ASSUME Alone' PROVE Alone /\ SettledInv' /\ prev' # target' /\ \A n \in tdur' : files'[n] # Partial
  <2>1. Alone /\ AloneInv(u) /\ files[target] # Partial
    BY <1>1, <1>2, <1>4, Here DEF Alone
  <2>2. target # 0
    BY DEF UpdateInv, DiskInv, Inodes
  <2> QED
    BY <1>1, <1>2, <2>1, <2>2 DEF AloneInv, SettledInv, Before
<1> QED
  BY <1>1, <1>2, <1>3, <1>4, StepKeeps DEF Stops, ProcessInv, Swaps

(* After the rename the disk stays, and what is at .prev with it.           *)
LEMMA RestartAndCheckStep ==
  ASSUME UpdateInv, NEW u \in Updaters, RestartAndCheck(u)
  PROVE  UpdateInv'
<1>1. /\ proc[u].pc = "restart" /\ managed /\ service' = Runs(target) /\ Goto(u, "health")
      /\ UNCHANGED <<files, target, prev, tdur, copied, written, managed, bad, stamp, overlap, unrepaired>>
  BY DEF RestartAndCheck, At, disk, fixed, store, history
<1>2. Running(u) /\ proc[u] \in Process /\ ProcessInv(u)
  BY <1>1, AtFacts
<1>3. Goes(u, "health") /\ Running(u)'
  BY <1>1, <1>2, GotoFacts, IdleFacts DEF After, Goes, Running
<1>4. service' \in {0, target} /\ target \in Inodes
  BY <1>1 DEF Runs, UpdateInv, DiskInv
<1>5. /\ DiskInv' /\ Frame /\ Inodes' = Inodes
      /\ Alone => \A n \in tdur' : files'[n] # Partial
  BY <1>1, <1>4, SameDisk DEF UpdateInv, DiskInv
<1>6. ProcessInv(u)'
  BY <1>1, <1>2, <1>3, <1>5 DEF Goes, ProcessInv, Swaps, After
<1>7. ASSUME Alone' PROVE Alone /\ AloneInv(u)'
  <2>1. Alone /\ AloneInv(u)
    BY <1>1, <1>2, <1>7, Here DEF Alone
  <2> QED
    BY <1>1, <1>2, <1>3, <1>4, <2>1 DEF Goes, AloneInv, Before, Early, Swaps, After
<1> QED
  BY <1>2, <1>3, <1>5, <1>6, <1>7, StepKeeps DEF Goes

(* An install that ends without a rollback: the stamp goes with it.         *)
LEMMA InstalledStep ==
  ASSUME UpdateInv, NEW u \in Updaters, Installed(u), proc[u].pc \in {"restart", "health"},
         Alone => service \in {0, target}
  PROVE  UpdateInv'
<1>1. /\ stamp' = None /\ Stops(u)
      /\ UNCHANGED <<files, target, prev, tdur, copied, written, managed, service, bad, overlap, unrepaired>>
  BY EndFacts DEF Installed, disk, fixed, history
<1>2. Running(u) /\ proc[u] \in Process /\ ProcessInv(u) /\ ~Running(u)'
  BY <1>1, AtFacts DEF Stops, Running
<1>3. /\ DiskInv' /\ Frame /\ Inodes' = Inodes
      /\ Alone => \A n \in tdur' : files'[n] # Partial
  BY <1>1, SameDisk DEF UpdateInv, DiskInv
<1>4. ASSUME Alone' PROVE Alone /\ SettledInv' /\ prev' # target'
  <2>1. Alone /\ AloneInv(u) /\ files[target] # Partial
    BY <1>1, <1>2, <1>4, Here DEF Alone
  <2>2. files[target] \in Releases /\ None \notin Releases
    BY <2>1, UpdateAssumption DEF UpdateInv, DiskInv, Inodes, Contents, None
  <2>3. tdur = {target} /\ prev # target
    BY <1>2, <2>1 DEF AloneInv, After
  <2> QED
    BY <1>1, <2>1, <2>2, <2>3 DEF SettledInv
<1> QED
  BY <1>1, <1>2, <1>3, <1>4, StepKeeps DEF Stops, ProcessInv, Swaps

LEMMA NotAServiceStep ==
  ASSUME UpdateInv, NEW u \in Updaters, NotAService(u)
  PROVE  UpdateInv'
<1>1. proc[u].pc = "restart" /\ Installed(u) /\ service = 0
  BY DEF NotAService, At, UpdateInv, DiskInv
<1> QED
  BY <1>1, InstalledStep

LEMMA HealthyStep ==
  ASSUME UpdateInv, NEW u \in Updaters, Healthy(u)
  PROVE  UpdateInv'
<1>1. proc[u].pc = "health" /\ Installed(u)
  BY DEF Healthy, At
<1>2. Running(u)
  BY <1>1, AtFacts
<1>3. Alone => service \in {0, target}
  BY <1>1, <1>2, Here DEF AloneInv
<1> QED
  BY <1>1, <1>3, InstalledStep

LEMMA StampStaysStep ==
  ASSUME UpdateInv, NEW u \in Updaters, StampStays(u)
  PROVE  UpdateInv'
<1>1. /\ proc[u].pc \in {"restart", "health"} /\ Stops(u)
      /\ unrepaired' = (unrepaired \/ stamp = files[target])
      /\ UNCHANGED <<files, target, prev, tdur, copied, written, managed, service, bad, stamp, overlap>>
  BY EndFacts DEF StampStays, At, disk, fixed, store, Version
<1>2. proc[u].pc = "restart" => service = 0
  BY DEF StampStays, At, UpdateInv, DiskInv
<1>3. Running(u) /\ proc[u] \in Process /\ ProcessInv(u) /\ ~Running(u)'
  BY <1>1, AtFacts DEF Stops, Running
<1>4. /\ DiskInv' /\ Frame
      /\ Alone => \A n \in tdur' : files'[n] # Partial
  <2>1. unrepaired' \in BOOLEAN
    BY <1>1 DEF UpdateInv, DiskInv
  <2> QED
    BY <1>1, <2>1, SameDisk DEF UpdateInv, DiskInv
<1>5. ASSUME Alone' PROVE Alone /\ SettledInv' /\ prev' # target'
  <2>1. Alone /\ AloneInv(u) /\ stamp # files[target]
    BY <1>1, <1>3, <1>5, Here DEF Alone
  <2> QED
    BY <1>1, <1>2, <1>3, <2>1 DEF AloneInv, SettledInv, After
<1> QED
  BY <1>1, <1>3, <1>4, <1>5, StepKeeps DEF Stops, ProcessInv

(* A step after the rename that leaves the disk and the cached offer, or    *)
(* drops it.                                                                *)
LEMMA MoveAfter ==
  ASSUME UpdateInv, NEW u \in Updaters, proc[u].pc \in After \ {"sync"},
         OnlyMoves(u), proc'[u] \in Process, proc'[u].pc \in {"mark", "marking", "rollback"},
         proc'[u].exe = proc[u].exe, proc'[u].cand = proc[u].cand,
         UNCHANGED <<files, target, prev, tdur, copied, written, managed, overlap, unrepaired>>,
         bad' \subseteq Releases, stamp' \in {stamp, None}, service' \in {0, service}
  PROVE  UpdateInv'
<1>1. Running(u) /\ proc[u] \in Process /\ ProcessInv(u)
  BY AtFacts DEF After
<1>2. Running(u)'
  BY IdleFacts DEF Running
<1>3. /\ DiskInv' /\ Frame /\ Inodes' = Inodes
      /\ Alone => \A n \in tdur' : files'[n] # Partial
  BY SameDisk DEF UpdateInv, DiskInv
<1>4. ProcessInv(u)'
  BY <1>1, <1>3 DEF ProcessInv, Swaps, After
<1>5. ASSUME Alone' PROVE Alone /\ AloneInv(u)'
  <2>1. Alone /\ AloneInv(u)
    BY <1>1, <1>5, Here DEF Alone
  <2>2. /\ files[proc[u].exe] # Partial /\ prev # 0 /\ files[prev] = files[proc[u].exe]
        /\ stamp # files[prev] /\ files[target] = proc[u].cand /\ tdur = {target} /\ prev # target
    BY <1>1, <2>1 DEF AloneInv, After
  <2>3. stamp' # files[prev]
    <3>1. prev \in Inodes
      BY <2>2 DEF UpdateInv, DiskInv
    <3>2. files[prev] \in Releases
      BY <2>2, <3>1 DEF UpdateInv, DiskInv, Inodes, Contents
    <3>3. None \notin Releases
      BY UpdateAssumption DEF None
    <3> QED
      BY <2>2, <3>2, <3>3
  <2> QED
    BY <2>1, <2>2, <2>3 DEF AloneInv, Before, Early, Swaps, After
<1> QED
  BY <1>1, <1>2, <1>3, <1>4, <1>5, StepKeeps

LEMMA UnhealthyStep ==
  ASSUME UpdateInv, NEW u \in Updaters, Unhealthy(u)
  PROVE  UpdateInv'
<1>1. /\ proc[u].pc = "health" /\ Goto(u, "mark")
      /\ UNCHANGED <<files, target, prev, tdur, copied, written, managed, service, bad, stamp, overlap, unrepaired>>
  BY DEF Unhealthy, At, disk, fixed, store, history
<1>2. Goes(u, "mark")
  BY <1>1, AtFacts, GotoFacts DEF After
<1>3. bad' \subseteq Releases
  BY <1>1 DEF UpdateInv, DiskInv
<1> QED
  BY <1>1, <1>2, <1>3, MoveAfter DEF Goes, After

LEMMA ReadBadStep ==
  ASSUME UpdateInv, NEW u \in Updaters, ReadBad(u)
  PROVE  UpdateInv'
<1>1. /\ proc[u].pc = "mark" /\ bad \subseteq Releases
      /\ UNCHANGED <<files, target, prev, tdur, copied, written, managed, service, bad, stamp, overlap, unrepaired>>
  BY DEF ReadBad, At, disk, fixed, store, history, UpdateInv, DiskInv
<1>2. proc[u] \in Process
  BY <1>1, AtFacts
<1>3. PICK pc \in {"rollback", "marking"} :
        proc' = [proc EXCEPT ![u] = [@ EXCEPT !.pc = pc, !.seen = bad]]
  BY DEF ReadBad
<1> DEFINE p == [proc[u] EXCEPT !.pc = pc, !.seen = bad]
<1>4. p \in Process /\ p.pc = pc /\ p.exe = proc[u].exe /\ p.cand = proc[u].cand
  BY <1>1, <1>2 DEF Process, After
<1>5. proc' = [proc EXCEPT ![u] = p]
  BY <1>3
<1> HIDE DEF p
<1>6. OnlyMoves(u) /\ proc'[u] = p
  BY <1>4, <1>5 DEF OnlyMoves, UpdateInv
<1> QED
  BY <1>1, <1>4, <1>6, MoveAfter DEF After

LEMMA MarkBadStep ==
  ASSUME UpdateInv, NEW u \in Updaters, MarkBad(u)
  PROVE  UpdateInv'
<1>1. /\ proc[u].pc = "marking" /\ bad' = proc[u].seen \cup {proc[u].cand} /\ stamp' = None
      /\ UNCHANGED <<files, target, prev, tdur, copied, written, managed, service, overlap, unrepaired>>
  BY DEF MarkBad, At, disk, fixed, history
<1>2. proc[u] \in Process /\ ProcessInv(u) /\ Running(u)
  BY <1>1, AtFacts
<1>3. bad' \subseteq Releases
  <2>1. proc[u].seen \subseteq Releases
    BY <1>2 DEF Process
  <2>2. proc[u].cand \in Releases
    BY <1>1, <1>2 DEF ProcessInv, Swaps, After
  <2> QED
    BY <1>1, <2>1, <2>2
<1> DEFINE p == [proc[u] EXCEPT !.pc = "rollback", !.seen = {}]
<1>4. p \in Process /\ p.pc = "rollback" /\ p.exe = proc[u].exe /\ p.cand = proc[u].cand
  BY <1>2 DEF Process, After
<1>5. proc' = [proc EXCEPT ![u] = p]
  BY DEF MarkBad
<1> HIDE DEF p
<1>6. OnlyMoves(u) /\ proc'[u] = p
  BY <1>4, <1>5 DEF OnlyMoves, UpdateInv
<1> QED
  BY <1>1, <1>3, <1>4, <1>6, MoveAfter DEF After

LEMMA MarkFailsStep ==
  ASSUME UpdateInv, NEW u \in Updaters, MarkFails(u)
  PROVE  UpdateInv'
<1>1. /\ proc[u].pc = "marking" /\ Goto(u, "rollback") /\ stamp' \in {stamp, None}
      /\ bad' \in {bad, proc[u].seen \cup {proc[u].cand}}
      /\ UNCHANGED <<files, target, prev, tdur, copied, written, managed, service, overlap, unrepaired>>
  BY DEF MarkFails, At, disk, fixed, history
<1>2. Goes(u, "rollback")
  BY <1>1, AtFacts, GotoFacts DEF After
<1>3. bad' \subseteq Releases
  <2>1. proc[u] \in Process /\ ProcessInv(u) /\ Running(u)
    BY <1>1, AtFacts
  <2>2. proc[u].seen \subseteq Releases
    BY <2>1 DEF Process
  <2>3. proc[u].cand \in Releases
    BY <1>1, <2>1 DEF ProcessInv, After
  <2>4. bad \subseteq Releases
    BY DEF UpdateInv, DiskInv
  <2> QED
    BY <1>1, <2>2, <2>3, <2>4
<1> QED
  BY <1>1, <1>2, <1>3, MoveAfter DEF Goes, After

LEMMA LooksUnhealthyStep ==
  ASSUME UpdateInv, NEW u \in Updaters, LooksUnhealthy(u)
  PROVE  UpdateInv'
<1>1. /\ proc[u].pc \in {"restart", "health"} /\ Goto(u, "mark") /\ service' \in {0, service}
      /\ UNCHANGED <<files, target, prev, tdur, copied, written, managed, bad, stamp, overlap, unrepaired>>
  BY DEF LooksUnhealthy, At, disk, fixed, store, history
<1>2. Goes(u, "mark")
  BY <1>1, AtFacts, GotoFacts DEF After
<1>3. bad' \subseteq Releases
  BY <1>1 DEF UpdateInv, DiskInv
<1> QED
  BY <1>1, <1>2, <1>3, MoveAfter DEF Goes, After

(* The way back: the copy is there, and it is the binary the updater runs.  *)
LEMMA RollbackStep ==
  ASSUME UpdateInv, NEW u \in Updaters, Rollback(u)
  PROVE  UpdateInv'
<1>1. /\ proc[u].pc = "rollback"
      /\ UNCHANGED <<files, copied, written, managed, service, bad, stamp, overlap, unrepaired>>
  BY DEF Rollback, At, disk, fixed, store, history
<1>2. Running(u) /\ proc[u] \in Process /\ ProcessInv(u)
  BY <1>1, AtFacts
<1>3. ASSUME Alone'
      PROVE  /\ Alone /\ AloneInv(u) /\ prev # 0 /\ files[prev] = files[proc[u].exe]
             /\ files[prev] # Partial /\ stamp # files[prev]
  <2>1. Alone /\ AloneInv(u)
    BY <1>1, <1>2, <1>3, Here DEF Alone
  <2> QED
    BY <1>1, <1>2, <2>1 DEF AloneInv, After
<1>4. CASE prev = 0 /\ End(u) /\ UNCHANGED disk
  <2>1. Stops(u) /\ UNCHANGED <<target, prev, tdur>>
    BY <1>4, EndFacts DEF disk
  <2>2. DiskInv' /\ Frame /\ Inodes' = Inodes
    BY <1>1, <2>1, SameDisk DEF UpdateInv, DiskInv
  <2>3. ~Running(u)'
    BY <2>1 DEF Stops, Running
  <2> QED
    BY <1>2, <1>3, <1>4, <2>1, <2>2, <2>3, StepKeeps DEF Stops, ProcessInv, Swaps
<1>5. CASE prev # 0 /\ target' = prev /\ prev' = 0 /\ tdur' = {prev} /\ Goto(u, "again")
  <2>1. Goes(u, "again") /\ Running(u)'
    BY <1>2, <1>5, GotoFacts, IdleFacts DEF Goes, Running
  <2>2. DiskInv' /\ Frame /\ Inodes' = Inodes
    BY <1>1, <1>5 DEF Frame, Sound, UpdateInv, DiskInv, Inodes
  <2>3. ProcessInv(u)'
    BY <1>1, <1>2, <2>1, <2>2 DEF Goes, ProcessInv, Swaps, After
  <2>4. ASSUME Alone' PROVE AloneInv(u)' /\ \A n \in tdur' : files'[n] # Partial
    BY <1>1, <1>3, <1>5, <2>1, <2>4 DEF Goes, AloneInv, Before, Early, Swaps, After
  <2> QED
    BY <1>2, <1>3, <2>1, <2>2, <2>3, <2>4, StepKeeps DEF Goes
<1> QED
  BY <1>4, <1>5 DEF Rollback

LEMMA RestartAgainStep ==
  ASSUME UpdateInv, NEW u \in Updaters, RestartAgain(u)
  PROVE  UpdateInv'
<1>1. /\ proc[u].pc = "again" /\ Stops(u) /\ service' = IF managed THEN Runs(target) ELSE service
      /\ UNCHANGED <<files, target, prev, tdur, copied, written, managed, bad, stamp, overlap, unrepaired>>
  BY EndFacts DEF RestartAgain, At, disk, fixed, store, history
<1>2. Running(u) /\ proc[u] \in Process /\ ProcessInv(u) /\ ~Running(u)'
  BY <1>1, AtFacts DEF Stops, Running
<1>3. service' \in {0, target} /\ target \in Inodes /\ (~managed => service' = 0)
  BY <1>1 DEF Runs, UpdateInv, DiskInv
<1>0. target # 0
  BY DEF UpdateInv, DiskInv, Inodes
<1>4. /\ DiskInv' /\ Frame /\ Inodes' = Inodes
      /\ Alone => \A n \in tdur' : files'[n] # Partial
  BY <1>1, <1>3, SameDisk DEF UpdateInv, DiskInv
<1>5. ASSUME Alone' PROVE Alone /\ SettledInv' /\ prev' # target'
  <2>1. Alone /\ AloneInv(u)
    BY <1>1, <1>2, <1>5, Here DEF Alone
  <2> QED
    BY <1>0, <1>1, <1>2, <1>3, <2>1 DEF AloneInv, SettledInv
<1> QED
  BY <1>1, <1>2, <1>4, <1>5, StepKeeps DEF Stops, ProcessInv, Swaps

(* The report names another release than the one in place.                  *)
LEMMA WriteCachedStep ==
  ASSUME UpdateInv, NEW u \in Updaters, WriteCached(u)
  PROVE  UpdateInv'
<1>1. /\ proc[u].pc = "write" /\ Stops(u) /\ stamp' \in {proc[u].cand, stamp}
      /\ UNCHANGED <<files, target, prev, tdur, copied, written, managed, service, bad, overlap, unrepaired>>
  BY EndFacts DEF WriteCached, At, disk, fixed, history
<1>2. Running(u) /\ proc[u] \in Process /\ ProcessInv(u) /\ ~Running(u)'
  BY <1>1, AtFacts DEF Stops, Running
<1>3. stamp' \in Releases \cup {0, None, Rejected}
  BY <1>1, <1>2 DEF Process, UpdateInv, DiskInv
<1>4. /\ DiskInv' /\ Frame /\ Inodes' = Inodes
      /\ Alone => \A n \in tdur' : files'[n] # Partial
  BY <1>1, <1>3, SameDisk DEF UpdateInv, DiskInv
<1>5. ASSUME Alone' PROVE Alone /\ SettledInv' /\ prev' # target'
  <2>1. Alone /\ AloneInv(u)
    BY <1>1, <1>2, <1>5, Here DEF Alone
  <2> QED
    BY <1>1, <1>2, <2>1 DEF AloneInv, SettledInv, Before, Early, Swaps
<1> QED
  BY <1>1, <1>2, <1>4, <1>5, StepKeeps DEF Stops, ProcessInv, Swaps

(* A process of the binary that is installed, alone when no other runs.     *)
LEMMA StartedStep ==
  ASSUME UpdateInv, NEW u \in Updaters, NEW kind \in {"cli", "unit"} \cup Checks,
         NEW tag \in Releases \cup {0}, NEW downgrade \in BOOLEAN, Started(u, kind, tag, downgrade)
  PROVE  UpdateInv'
<1> DEFINE p == [pc |-> "select", kind |-> kind, tag |-> tag, downgrade |-> downgrade,
                 exe |-> target, cand |-> 0, staged |-> 0, src |-> 0, dst |-> 0, seen |-> {}]
<1>1. /\ ~Running(u) /\ proc' = [proc EXCEPT ![u] = p]
      /\ overlap' = (overlap \/ \E w \in Updaters : Running(w))
      /\ UNCHANGED <<files, target, prev, tdur, copied, written, managed, service, bad, stamp, unrepaired>>
      /\ files[target] \in Releases
  BY DEF Started, disk, fixed, store, Version
<1>2. target \in Inodes /\ target \in Nat
  BY DEF UpdateInv, DiskInv, Inodes
<1>3. p \in Process /\ p.pc = "select" /\ p.exe = target
  BY <1>2 DEF Process, Before, Early, Swaps
<1> HIDE DEF p
<1>4. OnlyMoves(u) /\ proc'[u] = p /\ Running(u)'
  BY <1>1, <1>3, IdleFacts DEF OnlyMoves, UpdateInv, Running
<1>5. /\ DiskInv' /\ Frame /\ Inodes' = Inodes
      /\ Alone => \A n \in tdur' : files'[n] # Partial
  <2>1. overlap' \in BOOLEAN
    BY <1>1 DEF Frame, Sound, UpdateInv, DiskInv
  <2> QED
    BY <1>1, <2>1, SameDisk DEF UpdateInv, DiskInv
<1>6. \A w \in Updaters : ProcessInv(w)'
  <2>1. ProcessInv(u)'
    BY <1>2, <1>3, <1>4, <1>5 DEF ProcessInv, Swaps, After
  <2> QED
    BY <1>4, <1>5, <2>1, OthersStay DEF OnlyMoves
<1>7. ASSUME Alone'
      PROVE  Alone /\ (\A w \in Updaters : ~Running(w)) /\ AloneInv(u)'
  <2>1. Alone /\ \A w \in Updaters : ~Running(w)
    BY <1>1, <1>7 DEF Alone
  <2>2. SettledInv /\ files[target] # Partial /\ prev # target
    BY <1>1, <2>1, UpdateAssumption DEF UpdateInv
  <2> QED
    BY <1>1, <1>3, <1>4, <2>1, <2>2 DEF AloneInv, SettledInv, Before, Early, Swaps, After
<1>8. ASSUME Alone', NEW w \in Updaters, Running(w)'
      PROVE  w = u
  BY <1>4, <1>7, <1>8 DEF OnlyMoves, Running
<1>9. ASSUME Alone', NEW w \in Updaters PROVE AloneInv(w)'
  BY <1>7, <1>8, <1>9 DEF AloneInv
<1> QED
  BY <1>4, <1>5, <1>6, <1>7, <1>8, <1>9 DEF UpdateInv, OnlyMoves

LEMMA StampExpiresStep ==
  ASSUME UpdateInv, StampExpires
  PROVE  UpdateInv'
<1>1. /\ stamp' = None
      /\ UNCHANGED <<files, target, prev, tdur, copied, written, managed, service, bad, proc, overlap, unrepaired>>
  BY DEF StampExpires, disk, fixed, history
<1>2. /\ DiskInv' /\ Frame /\ Inodes' = Inodes
      /\ Alone => \A n \in tdur' : files'[n] # Partial
  BY <1>1, SameDisk DEF UpdateInv, DiskInv
<1>3. \A w \in Updaters : ProcessInv(w)'
  BY <1>1, <1>2, OthersStay
<1>4. \A n \in Inodes : files[n] # Partial => None # files[n]
  BY UpdateAssumption DEF UpdateInv, DiskInv, Inodes, Contents, None
<1>5. prev \in Inodes \cup {0} /\ target \in Inodes /\ target \in tdur
  BY DEF UpdateInv, DiskInv
<1>6. ASSUME Alone, SettledInv PROVE SettledInv'
  BY <1>1, <1>4, <1>5, <1>6 DEF SettledInv, UpdateInv
<1>7. ASSUME Alone, NEW w \in Updaters PROVE AloneInv(w)'
  <2>1. AloneInv(w) /\ files[target] # Partial
    BY <1>5, <1>7 DEF UpdateInv
  <2> QED
    BY <1>1, <1>4, <1>5, <1>6, <1>7, <2>1 DEF AloneInv, Running
<1>8. Alone' => Alone
  BY <1>1 DEF Alone
<1> QED
  BY <1>1, <1>2, <1>3, <1>6, <1>7, <1>8 DEF UpdateInv, Running

LEMMA ServiceRestartsStep ==
  ASSUME UpdateInv, ServiceRestarts
  PROVE  UpdateInv'
<1>1. /\ service' \in {0, target} /\ managed
      /\ UNCHANGED <<files, target, prev, tdur, copied, written, managed, bad, stamp, proc, overlap, unrepaired>>
  BY DEF ServiceRestarts, Runs, disk, fixed, store, history
<1>2. /\ DiskInv' /\ Frame /\ Inodes' = Inodes
      /\ Alone => \A n \in tdur' : files'[n] # Partial
  BY <1>1, SameDisk DEF UpdateInv, DiskInv
<1>3. \A w \in Updaters : ProcessInv(w)'
  BY <1>1, <1>2, OthersStay
<1>4. ASSUME SettledInv PROVE SettledInv'
  BY <1>1, <1>4 DEF SettledInv
<1>5. ASSUME Alone, NEW w \in Updaters PROVE AloneInv(w)'
  <2>1. AloneInv(w)
    BY <1>5 DEF UpdateInv
  <2> QED
    BY <1>1, <1>4, <2>1 DEF AloneInv, Running
<1>6. Alone' => Alone
  BY <1>1 DEF Alone
<1> QED
  BY <1>1, <1>2, <1>3, <1>4, <1>5, <1>6 DEF UpdateInv, Running

(* A fault that nobody repairs ends what is promised of a lone updater.     *)
LEMMA Ruined ==
  ASSUME UpdateInv, NEW u \in Updaters, Running(u), OnlyMoves(u), unrepaired',
         DiskInv', Frame, ProcessInv(u)'
  PROVE  UpdateInv'
<1>1. ~Alone'
  BY DEF Alone
<1> QED
  BY <1>1, StepKeeps

LEMMA StepFailsStep ==
  ASSUME UpdateInv, NEW u \in Updaters, StepFails(u)
  PROVE  UpdateInv'
<1>1. Quiet /\ Running(u) /\ proc[u] \in Process /\ ProcessInv(u)
  BY DEF StepFails, Quiet, disk, fixed, store, UpdateInv, Running
<1>2. CASE ~Swapping(u) /\ End(u) /\ UNCHANGED unrepaired
  <2>1. proc[u].pc \in Early /\ Stops(u)
    BY <1>2, EndFacts DEF Swapping, Early
  <2>2. unrepaired' \in BOOLEAN
    BY <1>2 DEF UpdateInv, DiskInv
  <2> QED
    BY <1>1, <1>2, <2>1, <2>2, EndBefore
<1>3. CASE proc[u].pc \in {"copying", "persist"} /\ Goto(u, "cleanup") /\ UNCHANGED unrepaired
  <2>1. Goes(u, "cleanup") /\ Running(u)'
    BY <1>1, <1>3, GotoFacts, IdleFacts DEF Before, Early, Swaps, Goes, Running
  <2>2. ProcessInv(u)'
    BY <1>1, <1>3, <2>1 DEF Goes, ProcessInv, Swaps, Inodes, Quiet, After
  <2>3. ASSUME Alone' PROVE AloneInv(u)'
    <3>1. Alone /\ AloneInv(u)
      BY <1>1, <1>3, <2>3, Here DEF Alone, Quiet
    <3> QED
      BY <1>1, <1>3, <2>1, <3>1 DEF Goes, AloneInv, SettledInv, Quiet, Before, Early, Swaps, After
  <2>4. unrepaired' \in BOOLEAN
    BY <1>3 DEF UpdateInv, DiskInv
  <2> QED
    BY <1>1, <1>3, <2>1, <2>2, <2>3, <2>4, MoveOn DEF Goes
<1>7. CASE At(u, "unlink") /\ Goto(u, "keep") /\ UNCHANGED unrepaired
  <2>1. Goes(u, "keep") /\ Running(u)'
    BY <1>1, <1>7, GotoFacts, IdleFacts DEF Before, Goes, Running
  <2>2. ProcessInv(u)'
    BY <1>1, <1>7, <2>1 DEF At, Goes, ProcessInv, Swaps, Inodes, Quiet, After, Sound
  <2>3. ASSUME Alone' PROVE AloneInv(u)'
    <3>1. Alone /\ AloneInv(u)
      BY <1>1, <1>7, <2>3, Here DEF Alone, Quiet
    <3> QED
      BY <1>1, <1>7, <2>1, <3>1 DEF At, Goes, AloneInv, SettledInv, Quiet, Before, Early, Swaps, After
  <2>4. unrepaired' \in BOOLEAN
    BY <1>7 DEF UpdateInv, DiskInv
  <2> QED
    BY <1>1, <1>7, <2>1, <2>2, <2>3, <2>4, MoveOn DEF Goes
<1>4. ASSUME unrepaired' = TRUE
      PROVE  DiskInv' /\ Frame /\ Inodes' = Inodes /\ unrepaired'
  BY <1>1, <1>4, SameDisk DEF Quiet, UpdateInv, DiskInv
<1>5. CASE At(u, "sync") /\ Goto(u, "cleanup") /\ unrepaired' = TRUE
  <2>1. Goes(u, "cleanup")
    BY <1>1, <1>5, GotoFacts DEF Before, Early, Swaps
  <2>2. ProcessInv(u)'
    BY <1>1, <1>4, <1>5, <2>1 DEF Goes, ProcessInv, Swaps, After
  <2> QED
    BY <1>1, <1>4, <1>5, <2>1, <2>2, Ruined DEF Goes
<1>6. CASE At(u, "rollback") /\ End(u) /\ unrepaired' = TRUE
  <2>1. Stops(u) /\ ~Running(u)'
    BY <1>6, EndFacts DEF Stops, Running
  <2> QED
    BY <1>1, <1>4, <1>6, <2>1, Ruined DEF Stops, ProcessInv, Swaps
<1> QED
  BY <1>2, <1>3, <1>5, <1>6, <1>7 DEF StepFails

LEMMA RollbackSyncFailsStep ==
  ASSUME UpdateInv, NEW u \in Updaters, RollbackSyncFails(u)
  PROVE  UpdateInv'
<1>1. /\ proc[u].pc = "rollback" /\ prev # 0 /\ target' = prev /\ prev' = 0
      /\ tdur' = tdur \cup {prev} /\ Stops(u) /\ unrepaired' = TRUE
      /\ UNCHANGED <<files, copied, written, managed, service, bad, stamp, overlap>>
  BY EndFacts DEF RollbackSyncFails, At, fixed, store
<1>2. Running(u) /\ ~Running(u)'
  BY <1>1, AtFacts DEF Stops, Running
<1>3. DiskInv' /\ Frame /\ Inodes' = Inodes
  BY <1>1 DEF Frame, Sound, UpdateInv, DiskInv, Inodes
<1> QED
  BY <1>1, <1>2, <1>3, Ruined DEF Stops, ProcessInv, Swaps

LEMMA AgainFailsStep ==
  ASSUME UpdateInv, NEW u \in Updaters, AgainFails(u)
  PROVE  UpdateInv'
<1>1. /\ proc[u].pc = "again" /\ service' \in {0, service} /\ Stops(u) /\ unrepaired' = TRUE
      /\ UNCHANGED <<files, target, prev, tdur, copied, written, managed, bad, stamp, overlap>>
  BY EndFacts DEF AgainFails, At, disk, fixed, store
<1>2. Running(u) /\ ~Running(u)'
  BY <1>1, AtFacts DEF Stops, Running
<1>3. DiskInv' /\ Frame
  BY <1>1, SameDisk DEF UpdateInv, DiskInv
<1> QED
  BY <1>1, <1>2, <1>3, Ruined DEF Stops, ProcessInv

LEMMA KillStep ==
  ASSUME UpdateInv, NEW u \in Updaters, Kill(u)
  PROVE  UpdateInv'
<1>1. Running(u) /\ Stops(u) /\ Quiet /\ unrepaired' = (unrepaired \/ Swapping(u))
  BY EndFacts DEF Kill, Quiet, disk, fixed, store
<1>2. unrepaired' \in BOOLEAN /\ (unrepaired => unrepaired') /\ ~Running(u)'
  BY <1>1 DEF UpdateInv, DiskInv, Stops, Running
<1>3. CASE Swapping(u)
  <2>1. DiskInv' /\ Frame /\ Inodes' = Inodes
    BY <1>1, <1>2, SameDisk DEF Quiet, UpdateInv, DiskInv
  <2> QED
    BY <1>1, <1>2, <1>3, <2>1, Ruined DEF Stops, ProcessInv, Swaps
<1>4. CASE ~Swapping(u)
  <2>1. proc[u].pc \in Early
    BY <1>4 DEF Swapping, Early
  <2> QED
    BY <1>1, <1>2, <2>1, EndBefore
<1> QED
  BY <1>3, <1>4

(* Every process is gone. When nothing was being swapped and no unsynced    *)
(* copy was lost, the binary in place is the one there was.                 *)
LEMMA PowerLossStep ==
  ASSUME UpdateInv, PowerLoss
  PROVE  UpdateInv'
<1>1. /\ target' \in tdur /\ prev' \in {0, prev} /\ tdur' = {target'}
      /\ proc' = [u \in Updaters |-> Idle] /\ service' \in {0, target'}
      /\ (~managed => service' = 0)
      /\ UNCHANGED <<copied, written, managed, bad, stamp, overlap>>
  BY DEF PowerLoss, fixed, store
<1>2. PICK lost \in SUBSET (copied \cup written) :
        /\ files' = [n \in DOMAIN files |-> IF n \in lost THEN Partial ELSE files[n]]
        /\ unrepaired' = (unrepaired \/ lost \cap copied # {} \/ \E u \in Updaters : Running(u) /\ Swapping(u))
  BY DEF PowerLoss
<1>3. files \in Seq(Contents) /\ Partial \in Contents
  BY DEF UpdateInv, DiskInv, Contents
<1>4. /\ files' \in Seq(Contents) /\ Inodes' = Inodes
      /\ \A n \in Inodes : files'[n] = IF n \in lost THEN Partial ELSE files[n]
  <2>1. DOMAIN files = 1..Len(files) /\ Len(files) \in Nat
    BY <1>3
  <2>2. \A n \in 1..Len(files) : files[n] \in Contents
    BY <1>3
  <2>3. files' \in [1..Len(files) -> Contents] /\ Len(files') = Len(files)
    BY <1>2, <1>3, <2>1, <2>2
  <2> QED
    BY <1>2, <1>3, <2>1, <2>3 DEF Inodes
<1>5. \A n \in tdur' \cup {prev'} : n # 0 => Sound(n)'
  BY <1>1, <1>2, <1>4 DEF UpdateInv, DiskInv, Sound
<1>6. unrepaired' \in BOOLEAN
  BY <1>2 DEF UpdateInv, DiskInv
<1>7. DiskInv'
  <2>1. prev' \notin written /\ {target'} \cap written = {}
    BY <1>1 DEF UpdateInv, DiskInv, Inodes
  <2> QED
    BY <1>1, <1>4, <1>5, <1>6, <2>1 DEF UpdateInv, DiskInv
<1>8. \A u \in Updaters : ~Running(u)'
  BY <1>1 DEF Running
<1>9. proc' \in [Updaters -> Process \cup {Idle}]
  BY <1>1
<1>10. ASSUME Alone' PROVE SettledInv' /\ prev' # target' /\ \A n \in tdur' : files'[n] # Partial
  <2>1. Alone /\ lost \cap copied = {} /\ \A u \in Updaters : Running(u) => ~Swapping(u)
    BY <1>1, <1>2, <1>10 DEF Alone
  <2>2. SettledInv /\ prev # target
    <3>1. CASE \A u \in Updaters : ~Running(u)
      BY <2>1, <3>1 DEF UpdateInv
    <3>2. ASSUME NEW u \in Updaters, Running(u) PROVE SettledInv /\ prev # target
      <4>1. AloneInv(u) /\ proc[u].pc \in Early
        BY <2>1, <3>2 DEF UpdateInv, Swapping, Early
      <4> QED
        BY <3>2, <4>1 DEF AloneInv, Before
    <3> QED
      BY <3>1, <3>2
  <2>3. target' = target
    BY <1>1, <2>2 DEF SettledInv
  <2>4. target \in Inodes /\ target \in tdur /\ target \notin written /\ target # 0
    BY DEF UpdateInv, DiskInv, Inodes
  <2>5. files'[target] = files[target] /\ files[target] # Partial
    BY <1>4, <2>1, <2>4 DEF UpdateInv
  <2> QED
    BY <1>1, <2>2, <2>3, <2>4, <2>5 DEF SettledInv
<1> QED
  BY <1>7, <1>8, <1>9, <1>10 DEF UpdateInv, ProcessInv, Swaps, AloneInv

----------------------------------------------------------------------------
(***************************************************************************)
(* The theorems.                                                           *)
(***************************************************************************)

LEMMA UpdateInvInit ==
  Init => UpdateInv
<1> SUFFICES ASSUME Init PROVE UpdateInv
  OBVIOUS
<1>1. /\ target = 1 /\ prev = 0 /\ tdur = {1} /\ copied = {} /\ written = {} /\ managed \in BOOLEAN
      /\ service \in {0, 1} /\ (~managed => service = 0) /\ bad = {} /\ stamp = None
      /\ overlap = FALSE /\ unrepaired = FALSE /\ \A u \in Updaters : proc[u] = Idle
      /\ proc \in [Updaters -> Process \cup {Idle}]
  BY DEF Init
<1>2. PICK v \in Releases \ Refused : files = <<v>>
  BY DEF Init
<1>3. files \in Seq(Contents) /\ Inodes = {1} /\ files[1] = v
  BY <1>2 DEF Contents, Inodes
<1>4. v # Partial /\ v # None
  BY UpdateAssumption DEF None
<1>5. DiskInv
  BY <1>1, <1>3, <1>4 DEF DiskInv, Sound
<1>6. SettledInv
  BY <1>1, <1>3, <1>4 DEF SettledInv
<1> QED
  BY <1>1, <1>3, <1>4, <1>5, <1>6 DEF UpdateInv, Running, ProcessInv, Swaps, AloneInv

LEMMA UpdateInvNext ==
  UpdateInv /\ [Next]_vars => UpdateInv'
<1> SUFFICES ASSUME UpdateInv, [Next]_vars PROVE UpdateInv'
  OBVIOUS
<1>1. CASE UNCHANGED vars
  BY <1>1 DEF vars, disk, fixed, store, count, history, UpdateInv, DiskInv, Inodes, Sound, ProcessInv,
     Running, Alone, AloneInv, SettledInv
<1>2. ASSUME NEW u \in Updaters, RunUpdate(u) \/ StartUpdate(u) \/ RunCheck(u)
      PROVE  UpdateInv'
  <2>1. \A tag \in Releases \cup {0}, downgrade \in BOOLEAN, kind \in {"cli", "unit"} \cup Checks :
          Started(u, kind, tag, downgrade) => UpdateInv'
    BY StartedStep
  <2>2. CASE RunUpdate(u)
    BY <2>1, <2>2 DEF RunUpdate
  <2>3. CASE StartUpdate(u)
    BY <2>1, <2>3 DEF StartUpdate
  <2>4. CASE RunCheck(u)
    BY <2>1, <2>4 DEF RunCheck
  <2> QED
    BY <1>2, <2>2, <2>3, <2>4
<1>3. ASSUME NEW u \in Updaters, Step(u) PROVE UpdateInv'
  BY <1>3, PrepareStep, VerifyStep, StageStep, StageSyncStep, RemovePreviousStep, KeepPreviousStep, CopyOpenStep, CopyDoneStep,
     PersistStep, SyncDirectoryStep, CleanupStep, RestartAndCheckStep, NotAServiceStep,
     HealthyStep, UnhealthyStep, ReadBadStep, MarkBadStep, RollbackStep, RestartAgainStep,
     CheckReportStep, WriteCachedStep DEF Step
<1>4. ASSUME NEW u \in Updaters, Faulty(u) PROVE UpdateInv'
  BY <1>4, StepFailsStep, RollbackSyncFailsStep, LooksUnhealthyStep, StampStaysStep,
     MarkFailsStep, AgainFailsStep, KillStep
     DEF Faulty
<1> QED
  BY <1>1, <1>2, <1>3, <1>4, StampExpiresStep, ServiceRestartsStep, PowerLossStep DEF Next

LEMMA UpdateInvHolds ==
  Spec => []UpdateInv
  BY UpdateInvInit, UpdateInvNext, PTL DEF Spec

(* The binary at the target, and every one a power loss would leave there,  *)
(* is a complete one of a release that was verified, for any number of      *)
(* updaters and faults; a torn one needs an unsynced copy and a race or a   *)
(* fault that cut an updater short (swap, keep_previous).                   *)
THEOREM TargetIsAlwaysSound ==
  Spec => []TargetSound
<1>1. UpdateInv => TargetSound
  <2> SUFFICES ASSUME UpdateInv, NEW n \in tdur
               PROVE  /\ files[n] \notin Refused
                      /\ files[n] = Partial => n \in copied /\ (overlap \/ unrepaired)
    BY DEF TargetSound
  <2>1. n \in Inodes /\ files[n] \in Contents
    BY DEF UpdateInv, DiskInv, Inodes
  <2>2. files[n] \notin Refused
    BY <2>1, UpdateAssumption DEF Contents
  <2>3. files[n] = Partial => n \in copied
    BY <2>1 DEF UpdateInv, DiskInv, Inodes, Sound
  <2>4. files[n] = Partial => overlap \/ unrepaired
    BY DEF UpdateInv, Alone
  <2> QED
    BY <2>2, <2>3, <2>4
<1> QED
  BY <1>1, UpdateInvHolds, PTL

(* Between runs, the cached offer of `detent update --check` is never the   *)
(* release that is installed, whatever was installed, rolled back, checked  *)
(* or killed before, while no two processes crossed and no fault was left   *)
(* unrepaired (Installed's clear_stamp, mark_bad, write_cached).            *)
THEOREM OffersAreAlwaysNews ==
  Spec => []OfferIsNews
<1>1. UpdateInv => OfferIsNews
  BY DEF UpdateInv, OfferIsNews, Alone, SettledInv, Version
<1> QED
  BY <1>1, UpdateInvHolds, PTL

----------------------------------------------------------------------------
(***************************************************************************)
(* How a lone updater ends.                                                *)
(***************************************************************************)

(* An action of w is no step of another updater.                            *)
LEMMA OthersAreStill ==
  ASSUME UpdateInv, NEW w \in Updaters, NEW u \in Updaters, u # w,
         RunUpdate(w) \/ StartUpdate(w) \/ RunCheck(w) \/ Step(w) \/ Faulty(w)
  PROVE  proc'[u] = proc[u]
<1>1. ASSUME NEW p, proc' = [proc EXCEPT ![w] = p] PROVE proc'[u] = proc[u]
  BY <1>1 DEF UpdateInv
<1>2. \A pc : Goto(w, pc) => proc'[u] = proc[u]
  BY DEF Goto, UpdateInv
<1>3. End(w) => proc'[u] = proc[u]
  BY DEF End, UpdateInv
<1>4. CASE RunUpdate(w) \/ StartUpdate(w) \/ RunCheck(w)
  BY <1>1, <1>4 DEF RunUpdate, StartUpdate, RunCheck, Started
<1>5. CASE Faulty(w)
  BY <1>2, <1>3, <1>5 DEF Faulty, StepFails, RollbackSyncFails, LooksUnhealthy, StampStays, MarkFails,
     AgainFails, Kill
<1>6. CASE Prepare(w) \/ Verify(w) \/ Stage(w) \/ KeepPrevious(w) \/ CopyOpen(w) \/ CopyDone(w)
  <2>1. CASE Prepare(w)
    BY <1>1, <1>3, <2>1 DEF Prepare
  <2>2. CASE Verify(w) \/ KeepPrevious(w)
    BY <1>2, <1>3, <2>2 DEF Verify, KeepPrevious
  <2>3. CASE Stage(w) \/ CopyDone(w)
    BY <1>1, <2>3 DEF Stage, CopyDone
  <2>4. CASE CopyOpen(w)
    BY <1>1, <1>2, <2>4 DEF CopyOpen
  <2> QED
    BY <1>6, <2>1, <2>2, <2>3, <2>4
<1>7. CASE StageSync(w) \/ RemovePrevious(w) \/ Persist(w) \/ SyncDirectory(w) \/ Cleanup(w) \/ RestartAndCheck(w)
           \/ NotAService(w) \/ Healthy(w) \/ Unhealthy(w) \/ Rollback(w) \/ RestartAgain(w)
  BY <1>2, <1>3, <1>7 DEF StageSync, RemovePrevious, Persist, SyncDirectory, Cleanup, RestartAndCheck, NotAService, Healthy,
     Unhealthy, Installed, Rollback, RestartAgain
<1>8. CASE ReadBad(w) \/ MarkBad(w)
  BY <1>1, <1>8 DEF ReadBad, MarkBad
<1>9. CASE CheckReport(w) \/ WriteCached(w)
  BY <1>1, <1>3, <1>9 DEF CheckReport, WriteCached
<1> QED
  BY <1>4, <1>5, <1>6, <1>7, <1>8, <1>9 DEF Step

Restored(u) ==
  \/ files'[target'] = files[proc[u].exe] /\ service' \in {0, target'}
  \/ files'[target'] = proc[u].cand /\ (managed => Serving)

LEMMA RestoredBefore ==
  ASSUME UpdateInv, NEW u \in Updaters, Running(u), Alone, proc[u].pc \in Before,
         UNCHANGED <<files, target, service>>
  PROVE  Restored(u)
<1>1. AloneInv(u)
  BY Here
<1> QED
  BY <1>1 DEF AloneInv, SettledInv, Restored

(* The copy is there as long as the updater that made it is alone, so the   *)
(* rollback of the binary does not fail.                                    *)
LEMMA RestoredByStep ==
  ASSUME UpdateInv, NEW u \in Updaters, Running(u), proc'[u] = Idle, Alone, Step(u)
  PROVE  Restored(u)
<1>1. AloneInv(u) /\ proc[u] \in Process
  BY Here DEF UpdateInv, Running
<1>2. \A pc \in Before \cup After \cup {"again"} : ~Goto(u, pc)
  <2>1. ASSUME NEW pc \in Before \cup After \cup {"again"}, Goto(u, pc) PROVE FALSE
    BY <1>1, <2>1, GotoFacts, IdleFacts DEF Goes
  <2> QED
    BY <2>1
<1>3. CASE proc[u].pc \in {"select", "verify", "write"} /\ UNCHANGED <<files, target, service>>
  BY <1>3, RestoredBefore DEF Before, Early, Swaps
<1>4. CASE Prepare(u) \/ Verify(u) \/ CheckReport(u) \/ WriteCached(u)
  BY <1>3, <1>4 DEF Prepare, Verify, CheckReport, WriteCached, At, disk, fixed
<1>5. CASE Cleanup(u)
  BY <1>5, RestoredBefore DEF Cleanup, At, Before, Early, Swaps
<1>6. CASE NotAService(u) \/ Healthy(u)
  BY <1>1, <1>6 DEF NotAService, Healthy, Installed, At, disk, Restored, AloneInv, After
<1>7. CASE Rollback(u)
  BY <1>1, <1>2, <1>7 DEF Rollback, At, AloneInv, After
<1>8. CASE RestartAgain(u)
  BY <1>1, <1>8 DEF RestartAgain, At, disk, Restored, AloneInv, Runs, UpdateInv, DiskInv
<1>9. CASE Stage(u) \/ CopyOpen(u) \/ CopyDone(u) \/ ReadBad(u) \/ MarkBad(u)
  <2>1. ASSUME NEW p, p \in Process, proc' = [proc EXCEPT ![u] = p] PROVE FALSE
    BY <2>1, IdleFacts DEF UpdateInv
  <2>2. CASE Stage(u)
    <3> DEFINE p == [proc[u] EXCEPT !.pc = "flush", !.staged = Len(files) + 1]
    <3>1. Len(files) \in Nat
      BY DEF UpdateInv, DiskInv
    <3>2. PICK n \in Nat : n = Len(files) + 1
      BY <3>1
    <3>3. p \in Process
      BY <1>1, <3>2 DEF Process, Before, Early, Swaps
    <3> QED
      BY <2>1, <2>2, <3>3 DEF Stage
  <2>3. CASE CopyOpen(u)
    <3>1. Len(files) \in Nat /\ target \in Nat /\ prev \in Nat
      BY DEF UpdateInv, DiskInv, Inodes
    <3>2. ASSUME NEW n \in Nat,
                 proc' = [proc EXCEPT ![u] = [@ EXCEPT !.pc = "copying", !.src = target, !.dst = n]]
          PROVE  FALSE
      <4> DEFINE p == [proc[u] EXCEPT !.pc = "copying", !.src = target, !.dst = n]
      <4>1. p \in Process
        BY <1>1, <3>1 DEF Process, Before, Early, Swaps
      <4> QED
        BY <2>1, <3>2, <4>1
    <3>3. ~Goto(u, "cleanup")
      BY <1>2 DEF Before, Early, Swaps
    <3>4. (IF prev = 0 THEN Len(files) + 1 ELSE prev) \in Nat
      BY <3>1
    <3> DEFINE n == IF prev = 0 THEN Len(files) + 1 ELSE prev
    <3>5. \/ Goto(u, "cleanup")
          \/ proc' = [proc EXCEPT ![u] = [@ EXCEPT !.pc = "copying", !.src = target, !.dst = n]]
      BY <2>3 DEF CopyOpen
    <3> HIDE DEF n
    <3>6. n \in Nat
      BY <3>4 DEF n
    <3> QED
      BY <3>2, <3>3, <3>5, <3>6
  <2>4. CASE CopyDone(u)
    <3> DEFINE p == [proc[u] EXCEPT !.pc = "persist", !.src = 0, !.dst = 0]
    <3>1. p \in Process
      BY <1>1 DEF Process, Before, Early, Swaps
    <3> QED
      BY <2>1, <2>4, <3>1 DEF CopyDone
  <2>5. CASE ReadBad(u)
    <3>1. PICK pc \in {"rollback", "marking"} :
            proc' = [proc EXCEPT ![u] = [@ EXCEPT !.pc = pc, !.seen = bad]]
      BY <2>5 DEF ReadBad
    <3> DEFINE p == [proc[u] EXCEPT !.pc = pc, !.seen = bad]
    <3>2. bad \subseteq Releases
      BY DEF UpdateInv, DiskInv
    <3>3. p \in Process
      BY <1>1, <3>2 DEF Process, After
    <3> QED
      BY <2>1, <3>1, <3>3
  <2>6. CASE MarkBad(u)
    <3> DEFINE p == [proc[u] EXCEPT !.pc = "rollback", !.seen = {}]
    <3>1. p \in Process
      BY <1>1 DEF Process, After
    <3> QED
      BY <2>1, <2>6, <3>1 DEF MarkBad
  <2> QED
    BY <1>9, <2>2, <2>3, <2>4, <2>5, <2>6
<1>10. CASE StageSync(u) \/ RemovePrevious(u) \/ KeepPrevious(u) \/ Persist(u) \/ SyncDirectory(u) \/ RestartAndCheck(u) \/ Unhealthy(u)
  BY <1>2, <1>10 DEF StageSync, RemovePrevious, KeepPrevious, Persist, SyncDirectory, RestartAndCheck, Unhealthy, Before, Early, Swaps, After
<1> QED
  BY <1>4, <1>5, <1>6, <1>7, <1>8, <1>9, <1>10 DEF Step

LEMMA RestoredByFault ==
  ASSUME UpdateInv, NEW u \in Updaters, Running(u), proc'[u] = Idle, Alone, ~unrepaired', Faulty(u)
  PROVE  Restored(u)
<1>1. proc[u] \in Process
  BY DEF UpdateInv, Running
<1>2. \A pc \in {"keep", "cleanup", "mark", "rollback"} : ~Goto(u, pc)
  <2>1. ASSUME NEW pc \in {"keep", "cleanup", "mark", "rollback"}, Goto(u, pc) PROVE FALSE
    BY <1>1, <2>1, GotoFacts, IdleFacts DEF Goes, Before, Early, Swaps, After
  <2> QED
    BY <2>1
<1>3. CASE StampStays(u)
  <2>1. proc[u].pc \in {"restart", "health"} /\ UNCHANGED <<files, target, managed, service>>
        /\ (managed => Serving)
    BY <1>3 DEF StampStays, At, disk
  <2>2. AloneInv(u)
    BY Here
  <2> QED
    BY <2>1, <2>2 DEF AloneInv, After, Restored
<1>4. CASE ~StampStays(u)
  <2>1. ~Swapping(u) /\ UNCHANGED <<files, target, service>>
    BY <1>2, <1>4 DEF Faulty, StepFails, RollbackSyncFails, LooksUnhealthy, MarkFails, AgainFails, Kill, disk
  <2>2. proc[u].pc \in Before
    BY <2>1 DEF Swapping, Before, Early
  <2> QED
    BY <2>1, <2>2, RestoredBefore
<1> QED
  BY <1>3, <1>4

LEMMA RestoredByPowerLoss ==
  ASSUME UpdateInv, NEW u \in Updaters, Running(u), Alone, ~unrepaired', PowerLoss
  PROVE  Restored(u)
<1>1. PICK lost \in SUBSET (copied \cup written) :
        /\ files' = [n \in DOMAIN files |-> IF n \in lost THEN Partial ELSE files[n]]
        /\ unrepaired' = (unrepaired \/ lost \cap copied # {} \/ \E w \in Updaters : Running(w) /\ Swapping(w))
  BY DEF PowerLoss
<1>2. lost \cap copied = {} /\ ~Swapping(u)
  BY <1>1
<1>3. proc[u].pc \in Before /\ AloneInv(u)
  BY <1>2, Here DEF Swapping, Before, Early, Swaps
<1>4. proc[u].exe = target /\ tdur = {target}
  BY <1>3 DEF AloneInv, SettledInv
<1>5. target' = target /\ service' \in {0, target'}
  BY <1>4 DEF PowerLoss
<1>6. target \in DOMAIN files /\ target \notin written
  BY DEF UpdateInv, DiskInv, Inodes
<1>7. files'[target] = files[target]
  BY <1>1, <1>2, <1>6
<1> QED
  BY <1>4, <1>5, <1>7 DEF Restored

LEMMA StepHistory ==
  ASSUME NEW u \in Updaters, Step(u)
  PROVE  UNCHANGED <<overlap, unrepaired>>
<1>1. CASE Prepare(u) \/ Verify(u) \/ CheckReport(u) \/ WriteCached(u)
  BY <1>1 DEF Prepare, Verify, CheckReport, WriteCached, history
<1>2. CASE Stage(u) \/ StageSync(u) \/ RemovePrevious(u) \/ KeepPrevious(u) \/ CopyDone(u) \/ Persist(u)
  BY <1>2 DEF Stage, StageSync, RemovePrevious, KeepPrevious, CopyDone, Persist, history
<1>3. CASE CopyOpen(u)
  BY <1>3 DEF CopyOpen, history
<1>4. CASE SyncDirectory(u) \/ Cleanup(u) \/ RestartAndCheck(u) \/ NotAService(u) \/ Healthy(u)
  BY <1>4 DEF SyncDirectory, Cleanup, RestartAndCheck, NotAService, Healthy, Installed, history
<1>5. CASE Unhealthy(u) \/ ReadBad(u) \/ MarkBad(u) \/ Rollback(u) \/ RestartAgain(u)
  BY <1>5 DEF Unhealthy, ReadBad, MarkBad, Rollback, RestartAgain, history
<1> QED
  BY <1>1, <1>2, <1>3, <1>4, <1>5 DEF Step

LEMMA FaultHistory ==
  ASSUME NEW u \in Updaters, Faulty(u)
  PROVE  overlap' = overlap /\ (unrepaired => unrepaired')
<1>1. CASE StepFails(u)
  BY <1>1 DEF StepFails
<1>2. CASE RollbackSyncFails(u) \/ StampStays(u) \/ AgainFails(u)
  BY <1>2 DEF RollbackSyncFails, StampStays, AgainFails
<1>3. CASE LooksUnhealthy(u) \/ MarkFails(u)
  BY <1>3 DEF LooksUnhealthy, MarkFails, history
<1>4. CASE Kill(u)
  BY <1>4 DEF Kill
<1> QED
  BY <1>1, <1>2, <1>3, <1>4 DEF Faulty

(* An updater that ran alone ends with the binary it found, and no service  *)
(* of another, or with its candidate and a service that answers: on every   *)
(* path out of install_candidate and roll_back, whichever step failed,      *)
(* unless its process was cut short or the way back itself failed.          *)
THEOREM FailedUpdatesAlwaysRestore ==
  Spec => FailedUpdateRestores
<1>1. UpdateInv /\ [Next]_vars =>
        [\A u \in Updaters :
           /\ Running(u) /\ proc[u].kind \notin Checks /\ proc'[u] = Idle
           /\ ~overlap' /\ ~unrepaired'
           => \/ Version(target)' = Current(u) /\ service' \in {0, target'}
              \/ Version(target)' = proc[u].cand /\ (managed => Serving)]_vars
  <2>0. ASSUME UpdateInv, Next, NEW u \in Updaters,
               Running(u) /\ proc'[u] = Idle /\ ~overlap' /\ ~unrepaired'
        PROVE  Restored(u)
    <3>1. Running(u) /\ proc'[u] = Idle /\ ~overlap' /\ ~unrepaired' /\ proc'[u] # proc[u]
      BY <2>0 DEF Running
    <3>2. CASE PowerLoss
      <4>1. Alone
        BY <3>1, <3>2 DEF PowerLoss, Alone
      <4> QED
        BY <2>0, <3>1, <3>2, <4>1, RestoredByPowerLoss
    <3>3. CASE StampExpires \/ ServiceRestarts
      BY <3>1, <3>3 DEF StampExpires, ServiceRestarts
    <3>4. ASSUME NEW w \in Updaters, RunUpdate(w) \/ StartUpdate(w) \/ RunCheck(w) \/ Step(w) \/ Faulty(w)
          PROVE  Restored(u)
      <4>1. w = u
        BY <2>0, <3>1, <3>4, OthersAreStill
      <4>2. CASE RunUpdate(u) \/ StartUpdate(u) \/ RunCheck(u)
        BY <3>1, <4>2 DEF RunUpdate, StartUpdate, RunCheck, Started
      <4>3. CASE Step(u)
        <5>1. Alone
          BY <3>1, <4>3, StepHistory DEF Alone
        <5> QED
          BY <2>0, <3>1, <4>3, <5>1, RestoredByStep
      <4>4. CASE Faulty(u)
        <5>1. Alone
          BY <3>1, <4>4, FaultHistory DEF Alone
        <5> QED
          BY <2>0, <3>1, <4>4, <5>1, RestoredByFault
      <4> QED
        BY <3>4, <4>1, <4>2, <4>3, <4>4
    <3> QED
      BY <2>0, <3>2, <3>3, <3>4 DEF Next
  <2> QED
    BY <2>0 DEF Restored, Version, Current
<1> QED
  BY <1>1, UpdateInvHolds, PTL DEF Spec, FailedUpdateRestores
=============================================================================
