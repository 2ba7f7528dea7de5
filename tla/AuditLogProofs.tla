--------------------------- MODULE AuditLogProofs ---------------------------
(***************************************************************************)
(* The audit log of one process, for any number of calls, files and        *)
(* rotations: kills and failing calls at any step and any number of times, *)
(* and a power loss as the first fault.                                    *)
(***************************************************************************)
EXTENDS AuditLog, FiniteSetTheorems, TLAPS

----------------------------------------------------------------------------
(***************************************************************************)
(* The chain over the lines of a file.                                     *)
(***************************************************************************)

Line == [ok : BOOLEAN, body : Nat, sequence : Nat, prev : Nat, torn : Seq(Nat)]
File == [lines : Seq(Line), closed : BOOLEAN]
Anchor == [sequence : Nat, body : Nat]

(* A finite set of numbers has a largest one: the set of those above it is  *)
(* the smallest of its kind.                                                *)
LEMMA MaxFacts ==
  ASSUME NEW S, IsFiniteSet(S), S \subseteq Nat, S # {}
  PROVE  Max(S) \in S /\ \A w \in S : Max(S) >= w
<1> DEFINE Above(v) == {w \in S : w > v}
           F == {Above(v) : v \in S}
<1>1. F \subseteq FiniteSubsetsOf(S)
  <2>1. ASSUME NEW v \in S PROVE Above(v) \in SUBSET S /\ IsFiniteSet(Above(v))
    <3>1. Above(v) \in SUBSET S
      OBVIOUS
    <3> HIDE DEF Above
    <3> QED
      BY <3>1, FS_Subset
  <2> QED
    BY <2>1 DEF FiniteSubsetsOf
<1>2. F # {}
  OBVIOUS
<1>3. PICK v \in S : \A w \in S : ~(<<Above(w), Above(v)>> \in StrictSubsetOrdering(S))
  <2>1. IsWellFoundedOn(StrictSubsetOrdering(S), FiniteSubsetsOf(S))
    BY FS_StrictSubsetOrderingWellFounded
  <2> HIDE DEF F
  <2>2. PICK A \in F : \A B \in F : ~(<<B, A>> \in StrictSubsetOrdering(S))
    BY <1>1, <1>2, <2>1, WFMin
  <2> QED
    BY <2>2 DEF F
<1>4. \A w \in S : v >= w
  <2> SUFFICES ASSUME NEW w \in S, ~(v >= w) PROVE FALSE
    OBVIOUS
  <2>1. v \in Nat /\ w \in Nat /\ w > v
    OBVIOUS
  <2>2. Above(w) \subseteq Above(v)
    <3>1. \A x \in S : x \in Nat
      OBVIOUS
    <3>2. \A x \in S : x > w => x > v
      BY <2>1, <3>1
    <3> QED
      BY <3>2
  <2>3. w \in Above(v) /\ w \notin Above(w) /\ Above(v) \subseteq S
    BY <2>1
  <2> HIDE DEF Above
  <2>4. <<Above(w), Above(v)>> \in StrictSubsetOrdering(S)
    BY <2>2, <2>3 DEF StrictSubsetOrdering
  <2> QED
    BY <1>3, <2>4
<1> QED
  BY <1>4 DEF Max

(* A finite set of numbers has a smallest one: the largest is as far below  *)
(* the bound as the smallest is above 0.                                    *)
LEMMA MinFacts ==
  ASSUME NEW n \in Nat, NEW S \in SUBSET (1..n), S # {}
  PROVE  Min(S) \in S
<1> DEFINE T == {n - s : s \in S}
<1>1. T \subseteq 0..n /\ T # {}
  <2>1. \A s \in S : n - s \in 0..n
    OBVIOUS
  <2> QED
    BY <2>1
<1>2. IsFiniteSet(T) /\ T \subseteq Nat
  <2> HIDE DEF T
  <2>1. 0 \in Int /\ n \in Int
    OBVIOUS
  <2>2. IsFiniteSet(0..n)
    BY <2>1, FS_Interval
  <2>3. IsFiniteSet(T)
    BY <1>1, <2>2, FS_Subset
  <2> QED
    BY <1>1, <2>3
<1>3. Max(T) \in T /\ \A w \in T : Max(T) >= w
  <2> HIDE DEF T
  <2> QED
    BY <1>1, <1>2, MaxFacts
<1>4. PICK s \in S : Max(T) = n - s
  BY <1>3
<1>5. \A r \in S : s =< r
  <2> SUFFICES ASSUME NEW r \in S PROVE s =< r
    OBVIOUS
  <2>1. n - r \in T /\ s \in Nat /\ r \in Nat
    OBVIOUS
  <2>2. n - s >= n - r
    BY <1>3, <1>4, <2>1
  <2> QED
    BY <2>1, <2>2
<1> QED
  BY <1>5 DEF Min

(* The record before a position is one of those before it, or none; it is   *)
(* none only when there is none.                                            *)
LEMMA BeforeFacts ==
  ASSUME NEW lines \in Seq(Line), NEW i \in 1 .. Len(lines) + 1
  PROVE  /\ Before(lines, i) \in 0 .. i - 1
         /\ Before(lines, i) # 0 => Before(lines, i) \in Records(lines)
         /\ \A j \in Records(lines) : j < i => Before(lines, i) >= j
<1> DEFINE S == {j \in Records(lines) : j < i} \cup {0}
<1>1. S \subseteq 0 .. i - 1 /\ S # {} /\ \A j \in S : j # 0 => j \in Records(lines)
  BY DEF Records
<1>2. \A j \in Records(lines) : j < i => j \in S
  OBVIOUS
<1>3. Before(lines, i) = Max(S)
  BY DEF Before
<1> HIDE DEF S
<1>4. IsFiniteSet(S) /\ S \subseteq Nat
  <2>1. 0 \in Int /\ i - 1 \in Int
    OBVIOUS
  <2>2. IsFiniteSet(0 .. i - 1)
    BY <2>1, FS_Interval
  <2>3. IsFiniteSet(S)
    BY <1>1, <2>2, FS_Subset
  <2> QED
    BY <1>1, <2>3
<1>5. Max(S) \in S /\ \A w \in S : Max(S) >= w
  BY <1>1, <1>4, MaxFacts
<1> QED
  BY <1>1, <1>2, <1>3, <1>5

(* What links a record is what comes before it.                             *)
LEMMA SamePrefix ==
  ASSUME NEW s \in Seq(Line), NEW t \in Seq(Line), NEW i \in Nat \ {0},
         i <= Len(s) + 1, i <= Len(t) + 1, \A j \in 1 .. i - 1 : s[j] = t[j], NEW start
  PROVE  /\ Before(s, i) = Before(t, i) /\ Gap(s, i) = Gap(t, i)
         /\ AnchorAt(s, Before(s, i), start) = AnchorAt(t, Before(t, i), start)
<1>1. {j \in Records(s) : j < i} = {j \in Records(t) : j < i}
  <2>1. DOMAIN s = 1 .. Len(s) /\ DOMAIN t = 1 .. Len(t) /\ Len(s) \in Nat /\ Len(t) \in Nat
    OBVIOUS
  <2>2. \A j \in Nat : j < i /\ j >= 1 => j \in DOMAIN s /\ j \in DOMAIN t /\ s[j] = t[j]
    BY <2>1
  <2>3. ASSUME NEW j, j < i, j \in Records(s) PROVE j \in Records(t)
    BY <2>1, <2>2, <2>3 DEF Records
  <2>4. ASSUME NEW j, j < i, j \in Records(t) PROVE j \in Records(s)
    BY <2>1, <2>2, <2>4 DEF Records
  <2> QED
    BY <2>3, <2>4
<1>2. Before(s, i) = Before(t, i)
  BY <1>1 DEF Before
<1>3. Before(s, i) \in 0 .. i - 1
  <2>1. i \in 1 .. Len(s) + 1
    OBVIOUS
  <2> QED
    BY <2>1, BeforeFacts
<1>4. Gap(s, i) = Gap(t, i)
  <2> DEFINE b == Before(s, i)
  <2>1. \A j \in 1 .. (i - 1 - b) : b + j \in 1 .. i - 1
    BY <1>3
  <2>2. \A j \in 1 .. (i - 1 - b) : s[b + j].body = t[b + j].body
    BY <2>1
  <2> QED
    BY <1>2, <2>2 DEF Gap
<1>5. AnchorAt(s, Before(s, i), start) = AnchorAt(t, Before(t, i), start)
  <2>1. Before(s, i) # 0 => Before(s, i) \in 1 .. i - 1
    BY <1>3
  <2> QED
    BY <1>2, <2>1 DEF AnchorAt
<1> QED
  BY <1>2, <1>4, <1>5

(* The start of a file that scans does.                                     *)
LEMMA PrefixScans ==
  ASSUME NEW s \in Seq(Line), NEW t \in Seq(Line), Len(s) <= Len(t),
         \A j \in 1 .. Len(s) : s[j] = t[j], NEW start, Scans(t, start)
  PROVE  Scans(s, start)
<1> SUFFICES ASSUME NEW i \in Records(s) PROVE CheckLink(s, i, start)
  BY DEF Scans
<1>1. i \in 1 .. Len(s) /\ s[i] = t[i] /\ s[i].ok
  BY DEF Records
<1>2. i \in Records(t)
  BY <1>1 DEF Records
<1>3. CheckLink(t, i, start)
  BY <1>2 DEF Scans
<1>4. i \in Nat \ {0} /\ i <= Len(s) + 1 /\ i <= Len(t) + 1 /\ \A j \in 1 .. i - 1 : s[j] = t[j]
  BY <1>1
<1> QED
  BY <1>1, <1>3, <1>4, SamePrefix DEF CheckLink

(* A file that scans still does with one more line, which is linked or does *)
(* not parse.                                                               *)
LEMMA AppendScans ==
  ASSUME NEW s \in Seq(Line), NEW line \in Line, NEW start, Scans(s, start),
         line.ok => Linked(line, ScanAnchor(s, start), Gap(s, End(s)))
  PROVE  Scans(Append(s, line), start)
<1> DEFINE t == Append(s, line)
<1>0. /\ t \in Seq(Line) /\ Len(t) = Len(s) + 1 /\ t[Len(s) + 1] = line /\ Len(s) \in Nat
      /\ \A j \in 1 .. Len(s) : t[j] = s[j]
  OBVIOUS
<1> HIDE DEF t
<1> SUFFICES ASSUME NEW i \in Records(t) PROVE CheckLink(t, i, start)
  BY DEF Scans, t
<1>1. i \in 1 .. Len(s) + 1 /\ t[i].ok
  BY <1>0 DEF Records
<1>2. i \in Nat \ {0} /\ i <= Len(s) + 1 /\ i <= Len(t) + 1 /\ \A j \in 1 .. i - 1 : t[j] = s[j]
  BY <1>0, <1>1
<1>3. /\ Before(t, i) = Before(s, i) /\ Gap(t, i) = Gap(s, i)
      /\ AnchorAt(t, Before(t, i), start) = AnchorAt(s, Before(s, i), start)
  BY <1>0, <1>2, SamePrefix
<1>4. CASE i = Len(s) + 1
  BY <1>0, <1>1, <1>3, <1>4 DEF CheckLink, ScanAnchor, End
<1>5. CASE i # Len(s) + 1
  <2>1. i \in 1 .. Len(s) /\ t[i] = s[i]
    BY <1>0, <1>1, <1>5
  <2>2. i \in Records(s)
    BY <1>1, <2>1 DEF Records
  <2> QED
    BY <1>3, <2>1, <2>2 DEF Scans, CheckLink
<1> QED
  BY <1>4, <1>5

(* A file with a record has an anchor of its own.                           *)
LEMMA OwnAnchor ==
  ASSUME NEW lines \in Seq(Line), Records(lines) # {}, NEW a, NEW b
  PROVE  ScanAnchor(lines, a) = ScanAnchor(lines, b)
<1>1. PICK j \in Records(lines) : TRUE
  OBVIOUS
<1>2. j \in 1 .. Len(lines) /\ End(lines) \in 1 .. Len(lines) + 1 /\ j < End(lines)
  BY DEF Records, End
<1>3. Before(lines, End(lines)) >= j /\ Before(lines, End(lines)) \in Nat
  BY <1>2, BeforeFacts
<1>4. Before(lines, End(lines)) # 0
  BY <1>2, <1>3
<1> QED
  BY <1>4 DEF ScanAnchor, AnchorAt

LEMMA ScanTypes ==
  ASSUME NEW lines \in Seq(Line), NEW start \in Anchor
  PROVE  ScanAnchor(lines, start) \in Anchor /\ Gap(lines, End(lines)) \in Seq(Nat)
<1> DEFINE b == Before(lines, End(lines))
           k == End(lines) - 1 - b
<1>1. End(lines) \in 1 .. Len(lines) + 1 /\ Len(lines) \in Nat
  BY DEF End
<1>2. b \in 0 .. Len(lines) /\ (b # 0 => b \in DOMAIN lines)
  <2>1. b \in 0 .. End(lines) - 1 /\ (b # 0 => b \in Records(lines))
    BY <1>1, BeforeFacts
  <2> QED
    BY <1>1, <2>1 DEF End, Records
<1>3. ScanAnchor(lines, start) \in Anchor
  <2>1. CASE b = 0
    BY <2>1 DEF ScanAnchor, AnchorAt
  <2>2. CASE b # 0
    <3>1. lines[b] \in Line
      BY <1>2, <2>2
    <3> QED
      BY <2>2, <3>1 DEF ScanAnchor, AnchorAt, Anchor, Line
  <2> QED
    BY <2>1, <2>2
<1>4. k \in Nat /\ k = Len(lines) - b
  BY <1>1, <1>2 DEF End
<1>5. \A j \in 1 .. k : lines[b + j].body \in Nat
  <2> SUFFICES ASSUME NEW j \in 1 .. k PROVE lines[b + j].body \in Nat
    OBVIOUS
  <2>1. b + j \in 1 .. Len(lines)
    BY <1>1, <1>2, <1>4
  <2>2. lines[b + j] \in Line
    BY <2>1
  <2> QED
    BY <2>2 DEF Line
<1>6. Gap(lines, End(lines)) = [j \in 1 .. k |-> lines[b + j].body]
  BY DEF Gap
<1>7. Gap(lines, End(lines)) \in [1 .. k -> Nat]
  <2> HIDE DEF k, b
  <2> QED
    BY <1>5, <1>6
<1> HIDE DEF k, b
<1> QED
  BY <1>3, <1>4, <1>7

(* The record that make_chain makes.                                        *)
LEMMA ChainedFacts ==
  ASSUME NEW lines \in Seq(Line), NEW start \in Anchor, NEW b \in Nat, NEW rotate \in BOOLEAN
  PROVE  /\ Chained(b, lines, start, rotate) \in Line /\ Chained(b, lines, start, rotate).ok
         /\ Linked(Chained(b, lines, start, rotate), ScanAnchor(lines, start),
                   IF rotate THEN <<>> ELSE Gap(lines, End(lines)))
<1>1. ScanAnchor(lines, start) \in Anchor /\ Gap(lines, End(lines)) \in Seq(Nat)
  BY ScanTypes
<1> QED
  BY <1>1 DEF Chained, Linked, Line, Anchor

(* The lines that do not parse.                                             *)
Torn(lines) == {i \in DOMAIN lines : ~lines[i].ok}

LEMMA TornFinite ==
  ASSUME NEW lines \in Seq(Line)
  PROVE  IsFiniteSet(Torn(lines)) /\ Cardinality(Torn(lines)) \in Nat
<1>1. Torn(lines) \in SUBSET (1 .. Len(lines)) /\ 1 \in Int /\ Len(lines) \in Int
  BY DEF Torn
<1>2. IsFiniteSet(1 .. Len(lines))
  BY <1>1, FS_Interval
<1>3. IsFiniteSet(Torn(lines))
  BY <1>1, <1>2, FS_Subset
<1> QED
  BY <1>3, FS_CardinalityType

LEMMA NoneTorn == Cardinality(Torn(<<>>)) = 0
<1>1. Torn(<<>>) = {}
  BY DEF Torn
<1> QED
  BY <1>1, FS_EmptySet

(* A file that keeps some of its lines and gets one more has at most one    *)
(* more that does not parse.                                                *)
LEMMA TornGrows ==
  ASSUME NEW s \in Seq(Line), NEW t \in Seq(Line), NEW n, Torn(t) \subseteq Torn(s) \cup {n}
  PROVE  Cardinality(Torn(t)) <= Cardinality(Torn(s)) + 1
<1>1. IsFiniteSet(Torn(s)) /\ Cardinality(Torn(s)) \in Nat
  BY TornFinite
<1>2. /\ IsFiniteSet(Torn(s) \cup {n})
      /\ Cardinality(Torn(s) \cup {n}) \in {Cardinality(Torn(s)), Cardinality(Torn(s)) + 1}
  BY <1>1, FS_AddElement
<1>3. Cardinality(Torn(t)) <= Cardinality(Torn(s) \cup {n})
  BY <1>2, FS_Subset
<1>4. Cardinality(Torn(t)) \in Nat
  BY TornFinite
<1> QED
  BY <1>1, <1>2, <1>3, <1>4

LEMMA TornShrinks ==
  ASSUME NEW s \in Seq(Line), NEW t \in Seq(Line), Torn(t) \subseteq Torn(s)
  PROVE  Cardinality(Torn(t)) <= Cardinality(Torn(s))
  BY TornFinite, FS_Subset

(* A file with more lines than that has a record.                           *)
LEMMA SomeRecord ==
  ASSUME NEW lines \in Seq(Line), Len(lines) > Cardinality(Torn(lines))
  PROVE  Records(lines) # {}
<1> SUFFICES ASSUME Records(lines) = {} PROVE FALSE
  OBVIOUS
<1>1. Torn(lines) = 1 .. Len(lines)
  BY DEF Torn, Records
<1>2. Len(lines) \in Nat /\ 1 \in Int /\ Len(lines) \in Int
  OBVIOUS
<1>3. Cardinality(1 .. Len(lines)) = IF 1 > Len(lines) THEN 0 ELSE Len(lines) - 1 + 1
  BY <1>2, FS_Interval
<1> QED
  BY <1>1, <1>2, <1>3

(* What one more line does to the lines of a file.                          *)
LEMMA AppendTorn ==
  ASSUME NEW s \in Seq(Line), NEW line \in Line
  PROVE  /\ Append(s, line) \in Seq(Line) /\ Torn(Append(s, line)) \subseteq Torn(s) \cup {Len(s) + 1}
         /\ line.ok => Torn(Append(s, line)) = Torn(s)
<1>1. /\ DOMAIN Append(s, line) = 1 .. Len(s) + 1 /\ DOMAIN s = 1 .. Len(s) /\ Len(s) \in Nat
      /\ Append(s, line)[Len(s) + 1] = line /\ \A j \in 1 .. Len(s) : Append(s, line)[j] = s[j]
  OBVIOUS
<1>2. \A j \in 1 .. Len(s) + 1 : j = Len(s) + 1 \/ j \in 1 .. Len(s)
  BY <1>1
<1> QED
  BY <1>1, <1>2 DEF Torn

LEMMA FragmentIsLine == ASSUME NEW b \in Nat PROVE Fragment(b) \in Line /\ ~Fragment(b).ok
  BY DEF Fragment, Line

(* A write behind the end of the last line, whole or cut short, appends one *)
(* line or none.                                                            *)
LEMMA CutLines ==
  ASSUME NEW file \in File, NEW line \in Line, NEW lead \in BOOLEAN, lead \/ file.closed,
         NEW f \in Cuts(file, line, lead) \cup {Put(file, line, lead, TRUE)}
  PROVE  /\ f \in File
         /\ f.lines \in {file.lines, Append(file.lines, Fragment(line.body)), Append(file.lines, line)}
<1>1. file.lines \in Seq(Line) /\ file.closed \in BOOLEAN /\ line.body \in Nat
  BY DEF File, Line
<1>2. Fragment(line.body) \in Line
  BY <1>1, FragmentIsLine
<1>3. ASSUME NEW l \in Line, NEW c \in BOOLEAN PROVE Put(file, l, lead, c) = [lines |-> Append(file.lines, l), closed |-> c]
  BY DEF Put
<1>4. Append(file.lines, Fragment(line.body)) \in Seq(Line) /\ Append(file.lines, line) \in Seq(Line)
  BY <1>1, <1>2
<1>5. CASE f = file
  BY <1>5
<1>6. CASE f = [file EXCEPT !.closed = @ \/ lead]
  <2>1. (file.closed \/ lead) \in BOOLEAN
    BY <1>1
  <2>2. f = [lines |-> file.lines, closed |-> file.closed \/ lead]
    BY <1>6 DEF File
  <2> QED
    BY <1>1, <2>1, <2>2 DEF File
<1>7. CASE f \in {Put(file, Fragment(line.body), lead, FALSE), Put(file, line, lead, FALSE),
                  Put(file, line, lead, TRUE)}
  <2>1. \E l \in {Fragment(line.body), line}, c \in BOOLEAN : f = [lines |-> Append(file.lines, l), closed |-> c]
    BY <1>2, <1>3, <1>7
  <2> QED
    BY <1>4, <2>1 DEF File
<1> QED
  BY <1>5, <1>6, <1>7 DEF Cuts

----------------------------------------------------------------------------
(***************************************************************************)
(* The inductive invariant.                                                *)
(***************************************************************************)

Dir == [log : Inode \cup {0}, old : Inode \cup {0}]
Steps == {"idle", "anchor", "read", "rename", "open", "syncdir", "write", "sync"}
App == [step : Steps, anchor : Anchor, line : Line, lead : BOOLEAN, fresh : BOOLEAN,
        fd : Inode \cup {0}, out : {"none", "ok", "io", "chain"}]
Reader == [step : {"idle", "verify", "query"}, anchor : Anchor, lines : Seq(Line),
           crossed : BOOLEAN, limit : Nat, out : {"none", "ok", "chain", "absent"}]

TypeInv ==
  /\ disk \in [Inode -> File] /\ safe \in [Inode -> File]
  /\ dir \in Dir /\ back \subseteq Dir
  /\ app \in [Proc -> App] /\ reader \in Reader
  /\ calls \in Nat /\ faults \in 0 .. MaxFaults

(* The lines behind a name, and the anchor the file behind it gives.        *)
Lines(i) == IF i = 0 THEN <<>> ELSE disk[i].lines
AnchorOf(i) == IF i = 0 THEN NoAnchor ELSE ScanAnchor(disk[i].lines, NoAnchor)

Sound(d) == Scans(Lines(d.log), AnchorOf(d.old)) /\ (d.log # 0 => d.log # d.old)

(* Every fault tears one line of a file at most.                            *)
TornInv == \A i \in Inode : Cardinality(Torn(disk[i].lines)) <= faults

(* The append in progress has what it needs for its record to follow the    *)
(* last one, and writes it to the log, behind the end of its last line.     *)
Follows(a) == Linked(a.line, ScanAnchor(Lines(dir.log), RotatedAnchor),
                     Gap(Lines(dir.log), End(Lines(dir.log))))

AppendInv ==
  \A p \in Proc : LET a == app[p] IN
    /\ a.out # "chain"
    /\ a.step = "read" => a.anchor = RotatedAnchor
    /\ a.step = "rename" => /\ a.line.ok /\ a.fresh
                            /\ Linked(a.line, ScanAnchor(Lines(dir.log), RotatedAnchor), <<>>)
                            /\ dir.log # 0 /\ Records(Lines(dir.log)) # {}
    /\ a.step \in {"open", "syncdir", "write"} => a.line.ok /\ Follows(a)
    /\ a.step = "open" => /\ dir.log = 0 => a.fresh
                          /\ dir.log # 0 => a.lead \/ disk[dir.log].closed
    /\ a.step \in {"syncdir", "write", "sync"} => dir.log # 0 /\ a.fd = dir.log
    /\ a.step \in {"syncdir", "write"} => a.lead \/ disk[dir.log].closed

ReaderInv ==
  /\ reader.out = "chain" => reader.crossed
  /\ reader.step = "verify" /\ ~reader.crossed => reader.anchor = RotatedAnchor
  /\ reader.step = "query" /\ ~reader.crossed => Scans(reader.lines, RotatedAnchor)

(* Before the first fault: a rename or a new file is synced before anything *)
(* is written, so the directories a power loss may bring back are sound and *)
(* their files synced, but for the last line of the log.                    *)
PowerInv ==
  faults = 0 =>
    /\ \A d \in back : Sound(d)
    /\ \A d \in back \cup {dir} : \A i \in {d.log, d.old} \ {0} :
         safe[i] = disk[i] \/ (i = dir.log /\ \E p \in Proc : app[p].step = "sync")
    /\ \A p \in Proc :
         app[p].step \notin {"open", "syncdir"} \/ (app[p].step = "open" /\ ~app[p].fresh) => back = {}

AuditInv == TypeInv /\ Sound(dir) /\ TornInv /\ AppendInv /\ ReaderInv /\ PowerInv

----------------------------------------------------------------------------
(***************************************************************************)
(* Steps that leave the disk alone.                                        *)
(***************************************************************************)

Single == \A p, q \in Proc : p = q

LEMMA AnchorTypes ==
  ASSUME TypeInv
  PROVE  /\ RotatedAnchor \in Anchor /\ RotatedAnchor = AnchorOf(dir.old)
         /\ Lines(dir.log) \in Seq(Line)
<1>1. dir.log \in Inode \cup {0} /\ dir.old \in Inode \cup {0} /\ disk \in [Inode -> File]
  BY DEF TypeInv, Dir
<1>2. NoAnchor \in Anchor
  BY DEF NoAnchor, Anchor
<1>3. \A i \in Inode : disk[i].lines \in Seq(Line)
  BY <1>1 DEF File
<1>4. 0 \notin Inode /\ <<>> \in Seq(Line)
  BY DEF Inode
<1> QED
  BY <1>1, <1>2, <1>3, <1>4, ScanTypes DEF RotatedAnchor, AnchorOf, Lines

LEMMA DiskKept ==
  ASSUME UNCHANGED <<disk, dir>>
  PROVE  /\ RotatedAnchor' = RotatedAnchor /\ Lines(dir.log)' = Lines(dir.log)
         /\ Sound(dir) => Sound(dir)'
  BY DEF RotatedAnchor, Lines, AnchorOf, Sound

LEMMA SoundKept ==
  ASSUME UNCHANGED disk, NEW d, Sound(d) PROVE Sound(d)'
  BY DEF Lines, AnchorOf, Sound

LEMMA TornKept ==
  ASSUME TypeInv, TornInv, UNCHANGED disk, faults' \in {faults, faults + 1} PROVE TornInv'
<1> SUFFICES ASSUME NEW i \in Inode PROVE Cardinality(Torn(disk[i].lines)) <= faults'
  BY DEF TornInv
<1>1. Cardinality(Torn(disk[i].lines)) <= faults /\ disk[i].lines \in Seq(Line) /\ faults \in Nat
  BY DEF TornInv, TypeInv, File
<1>2. Cardinality(Torn(disk[i].lines)) \in Nat
  BY <1>1, TornFinite
<1> QED
  BY <1>1, <1>2

LEMMA ReaderKept ==
  ASSUME ReaderInv, UNCHANGED reader, RotatedAnchor' = RotatedAnchor PROVE ReaderInv'
  BY DEF ReaderInv

(* One process appends: what it does to its append is all that happens to   *)
(* appends.                                                                 *)
LEMMA OnlyOne ==
  ASSUME Single, NEW p \in Proc, NEW a, app \in [Proc -> App], app' = [app EXCEPT ![p] = a]
  PROVE  \A q \in Proc : q = p /\ app'[q] = a
  BY DEF Single

(* It ends, with any answer but a broken chain.                             *)
LEMMA AppendEnds ==
  ASSUME Single, NEW p \in Proc, app \in [Proc -> App], NEW out \in {"none", "ok", "io"},
         Return(p, out)
  PROVE  /\ AppendInv' /\ app' \in [Proc -> App]
         /\ \A q \in Proc : app'[q].step = "idle"
<1>1. [Idle EXCEPT !.out = out] \in App /\ [Idle EXCEPT !.out = out].step = "idle"
      /\ [Idle EXCEPT !.out = out].out = out
  <2>1. Fragment(0) \in Line /\ NoAnchor \in Anchor
    BY FragmentIsLine DEF NoAnchor, Anchor
  <2> QED
    BY <2>1 DEF Idle, App, Steps
<1>2. \A q \in Proc : q = p /\ app'[q] = [Idle EXCEPT !.out = out]
  BY OnlyOne DEF Return
<1>3. AppendInv'
  BY <1>1, <1>2 DEF AppendInv
<1>4. app' \in [Proc -> App]
  BY <1>1 DEF Return
<1> QED
  BY <1>1, <1>2, <1>3, <1>4

LEMMA FaultFacts ==
  ASSUME TypeInv, NEW kind, Fault(kind)
  PROVE  /\ faults' = faults + 1 /\ faults' \in 0 .. MaxFaults /\ faults' # 0
         /\ ~PowerAfterFault /\ kind = "power" => faults = 0
  BY AuditAssumption DEF Fault, TypeInv

(* After a fault there is no power loss to come.                            *)
LEMMA FaultedPower == ASSUME faults' # 0 PROVE PowerInv'
  BY DEF PowerInv

(* A call fails, or the process is killed, with nothing written.            *)
LEMMA EndsQuietly ==
  ASSUME Single, AuditInv, NEW p \in Proc, NEW out \in {"none", "ok", "io"}, Return(p, out),
         NEW kind, Fault(kind), UNCHANGED <<diskVars, reader, calls>>
  PROVE  AuditInv'
<1>1. /\ TypeInv /\ Sound(dir) /\ TornInv /\ ReaderInv
      /\ UNCHANGED <<disk, safe, dir, back>> /\ app \in [Proc -> App]
  BY DEF AuditInv, diskVars, TypeInv
<1>2. faults' = faults + 1 /\ faults' \in 0 .. MaxFaults /\ faults' # 0
  BY <1>1, FaultFacts
<1>3. AppendInv' /\ app' \in [Proc -> App]
  BY <1>1, AppendEnds
<1>4. TypeInv'
  BY <1>1, <1>2, <1>3 DEF TypeInv
<1>5. Sound(dir)' /\ TornInv' /\ ReaderInv' /\ PowerInv'
  BY <1>1, <1>2, DiskKept, TornKept, ReaderKept, FaultedPower
<1> QED
  BY <1>3, <1>4, <1>5 DEF AuditInv

(* The steps of the append that change nothing else.                        *)
LEMMA AppendMoves ==
  ASSUME Single, AuditInv, NEW p \in Proc, NEW a \in App, app' = [app EXCEPT ![p] = a],
         UNCHANGED <<disk, dir, safe, back, reader, faults>>, calls' \in Nat, AppendInv',
         app[p].step # "sync",
         faults = 0 /\ back # {} => a.step = "syncdir" \/ (a.step = "open" /\ a.fresh)
  PROVE  AuditInv'
<1>1. /\ TypeInv /\ Sound(dir) /\ TornInv /\ ReaderInv /\ PowerInv /\ app \in [Proc -> App]
  BY DEF AuditInv, TypeInv
<1>2. \A q \in Proc : q = p /\ app'[q] = a
  BY <1>1, OnlyOne
<1>3. TypeInv'
  BY <1>1 DEF TypeInv
<1>4. Sound(dir)' /\ TornInv' /\ ReaderInv'
  BY <1>1, DiskKept, TornKept, ReaderKept
<1>5. PowerInv'
  <2> SUFFICES ASSUME faults' = 0
               PROVE  /\ \A d \in back' : Sound(d)'
                      /\ \A d \in back' \cup {dir'} : \A i \in {d.log, d.old} \ {0} :
                           safe'[i] = disk'[i]
                      /\ \A q \in Proc : \/ app'[q].step \notin {"open", "syncdir"}
                                         \/ app'[q].step = "open" /\ ~app'[q].fresh
                                         => back' = {}
    BY DEF PowerInv
  <2>1. \A d \in back : Sound(d)'
    BY <1>1, SoundKept DEF PowerInv
  <2>2. \A q \in Proc : app[q].step # "sync"
    BY <1>2
  <2>3. \A d \in back \cup {dir} : \A i \in {d.log, d.old} \ {0} : safe[i] = disk[i]
    BY <1>1, <2>2 DEF PowerInv
  <2>4. \A q \in Proc : \/ app'[q].step \notin {"open", "syncdir"}
                        \/ app'[q].step = "open" /\ ~app'[q].fresh
                        => back' = {}
    BY <1>2
  <2> QED
    BY <2>1, <2>3, <2>4
<1> QED
  BY <1>3, <1>4, <1>5 DEF AuditInv

----------------------------------------------------------------------------
(***************************************************************************)
(* FileAudit::record.                                                      *)
(***************************************************************************)

LEMMA RecordStep ==
  ASSUME Single, AuditInv, NEW p \in Proc, Record(p) PROVE AuditInv'
<1> DEFINE a == [Idle EXCEPT !.step = "anchor", !.line = Fragment(calls + 1)]
<1>1. app \in [Proc -> App] /\ PowerInv /\ calls \in Nat /\ faults' = faults
  BY DEF AuditInv, TypeInv, Record
<1>2. a \in App /\ a.step = "anchor" /\ a.out = "none"
  <2>1. Fragment(calls + 1) \in Line /\ NoAnchor \in Anchor /\ Fragment(0) \in Line
    BY <1>1, FragmentIsLine DEF NoAnchor, Anchor
  <2> QED
    BY <2>1 DEF Idle, App, Steps
<1>3. app' = [app EXCEPT ![p] = a]
  BY DEF Record
<1> HIDE DEF a
<1>4. \A q \in Proc : q = p /\ app'[q] = a
  BY <1>1, <1>3, OnlyOne
<1>5. AppendInv'
  BY <1>2, <1>4 DEF AppendInv
<1>6. UNCHANGED <<disk, dir, safe, back, reader, faults>> /\ calls' \in Nat /\ app[p].step = "idle"
  BY <1>1 DEF Record, diskVars
<1>7. faults = 0 => back = {}
  BY <1>1, <1>6 DEF PowerInv
<1> QED
  BY <1>2, <1>3, <1>5, <1>6, <1>7, AppendMoves

LEMMA ReadAnchorStep ==
  ASSUME Single, AuditInv, NEW p \in Proc, ReadAnchor(p) PROVE AuditInv'
<1> DEFINE a == [app[p] EXCEPT !.step = "read", !.anchor = RotatedAnchor]
<1>1. app \in [Proc -> App] /\ PowerInv /\ AppendInv /\ TypeInv
  BY DEF AuditInv, TypeInv
<1>2. a \in App /\ a.step = "read" /\ a.out = app[p].out /\ a.anchor = RotatedAnchor
  BY <1>1, AnchorTypes DEF App, Steps
<1>3. app' = [app EXCEPT ![p] = a]
  BY <1>1 DEF ReadAnchor
<1> HIDE DEF a
<1>4. \A q \in Proc : q = p /\ app'[q] = a
  BY <1>1, <1>3, OnlyOne
<1>5. UNCHANGED <<disk, dir, safe, back, reader, faults>> /\ calls' \in Nat /\ app[p].step = "anchor"
  BY <1>1 DEF ReadAnchor, Quiet, diskVars, TypeInv
<1>6. RotatedAnchor' = RotatedAnchor
  BY <1>5, DiskKept
<1>7. AppendInv'
  <2>1. app[p].out # "chain"
    BY <1>1 DEF AppendInv
  <2> QED
    BY <1>2, <1>4, <1>6, <2>1 DEF AppendInv
<1>8. faults = 0 => back = {}
  BY <1>1, <1>5 DEF PowerInv
<1> QED
  BY <1>2, <1>3, <1>5, <1>7, <1>8, AppendMoves

(* The scan finds the chain whole, and the record follows it; a log that    *)
(* has grown to its limit has a record to anchor the next one.              *)
LEMMA ReadLogStep ==
  ASSUME Single, AuditInv, NEW p \in Proc, ReadLog(p) PROVE AuditInv'
<1> DEFINE lines == Lines(dir.log)
           rotate == Len(lines) > RotateLines
           line == Chained(app[p].line.body, lines, app[p].anchor, rotate)
           a == [app[p] EXCEPT !.step = IF rotate THEN "rename" ELSE "open",
                               !.lead = ~rotate /\ dir.log # 0 /\ ~disk[dir.log].closed,
                               !.fresh = rotate \/ dir.log = 0, !.anchor = NoAnchor, !.line = line]
<1>1. /\ app \in [Proc -> App] /\ PowerInv /\ AppendInv /\ TypeInv /\ Sound(dir) /\ TornInv
      /\ app[p] \in App
  BY DEF AuditInv, TypeInv
<1>2. app[p].step = "read" /\ app[p].anchor = RotatedAnchor /\ app[p].out # "chain"
  BY <1>1 DEF ReadLog, AppendInv
<1>3. RotatedAnchor \in Anchor /\ RotatedAnchor = AnchorOf(dir.old) /\ lines \in Seq(Line)
  BY <1>1, AnchorTypes
<1>4. Scans(lines, app[p].anchor)
  BY <1>1, <1>2, <1>3 DEF Sound
<1>5. app' = [app EXCEPT ![p] = a]
  BY <1>1, <1>4 DEF ReadLog, Lines
<1>6. /\ line \in Line /\ line.ok
      /\ Linked(line, ScanAnchor(lines, RotatedAnchor), IF rotate THEN <<>> ELSE Gap(lines, End(lines)))
  <2>1. app[p].line.body \in Nat /\ rotate \in BOOLEAN
    BY <1>1 DEF App, Line
  <2> HIDE DEF lines, rotate
  <2> QED
    BY <1>2, <1>3, <2>1, ChainedFacts
<1>7. rotate => dir.log # 0 /\ Records(lines) # {}
  <2> SUFFICES ASSUME rotate PROVE dir.log # 0 /\ Records(lines) # {}
    OBVIOUS
  <2>1. dir.log # 0
    BY AuditAssumption DEF Lines
  <2>2. dir.log \in Inode
    BY <1>1, <2>1 DEF TypeInv, Dir
  <2>3. Cardinality(Torn(lines)) <= faults
    BY <1>1, <2>1, <2>2 DEF TornInv, Lines
  <2>4. faults <= MaxFaults /\ faults \in Nat /\ MaxFaults <= RotateLines /\ RotateLines \in Nat
        /\ MaxFaults \in Nat
    BY <1>1, AuditAssumption DEF TypeInv
  <2>5. Cardinality(Torn(lines)) \in Nat /\ Len(lines) \in Nat
    BY <1>3, TornFinite
  <2>6. Len(lines) > Cardinality(Torn(lines))
    BY <2>3, <2>4, <2>5
  <2> HIDE DEF lines
  <2> QED
    BY <1>3, <2>1, <2>6, SomeRecord
<1>8. /\ a \in App /\ a.step = (IF rotate THEN "rename" ELSE "open") /\ a.line = line /\ a.out = app[p].out
      /\ a.fresh = (rotate \/ dir.log = 0) /\ a.lead = (~rotate /\ dir.log # 0 /\ ~disk[dir.log].closed)
  <2>1. NoAnchor \in Anchor
    BY DEF NoAnchor, Anchor
  <2>2. /\ (~rotate /\ dir.log # 0 /\ ~disk[dir.log].closed) \in BOOLEAN
        /\ (rotate \/ dir.log = 0) \in BOOLEAN
    OBVIOUS
  <2> HIDE DEF line, rotate
  <2> QED
    BY <1>1, <1>6, <2>1, <2>2 DEF App, Steps
<1> HIDE DEF a
<1>9. \A q \in Proc : q = p /\ app'[q] = a
  BY <1>1, <1>5, OnlyOne
<1>10. UNCHANGED <<disk, dir, safe, back, reader, faults>> /\ calls' \in Nat
  BY <1>1 DEF ReadLog, Quiet, diskVars, TypeInv
<1>11. RotatedAnchor' = RotatedAnchor /\ Lines(dir.log)' = lines
  BY <1>10, DiskKept
<1>12. AppendInv'
  <2> HIDE DEF lines, rotate, line
  <2>1. CASE rotate
    BY <1>2, <1>6, <1>7, <1>8, <1>9, <1>10, <1>11, <2>1 DEF AppendInv
  <2>2. CASE ~rotate
    BY <1>2, <1>6, <1>8, <1>9, <1>10, <1>11, <2>2 DEF AppendInv, Follows
  <2> QED
    BY <2>1, <2>2
<1>13. faults = 0 => back = {}
  BY <1>1, <1>2 DEF PowerInv
<1> QED
  BY <1>2, <1>5, <1>8, <1>10, <1>12, <1>13, AppendMoves

(* A log of no lines.                                                       *)
LEMMA EmptyScan ==
  ASSUME NEW start
  PROVE  Scans(<<>>, start) /\ ScanAnchor(<<>>, start) = start /\ Gap(<<>>, End(<<>>)) = <<>>
<1>1. <<>> \in Seq(Line) /\ End(<<>>) = 1 /\ End(<<>>) \in 1 .. Len(<<>>) + 1
  BY DEF End
<1>2. Before(<<>>, 1) \in 0 .. 1 - 1
  BY <1>1, BeforeFacts
<1>3. Before(<<>>, 1) = 0
  BY <1>2
<1>4. Scans(<<>>, start)
  BY DEF Scans, Records
<1>5. Gap(<<>>, 1) = [j \in 1 .. (1 - 1 - 0) |-> <<>>[0 + j].body]
  BY <1>3 DEF Gap
<1>6. Gap(<<>>, 1) = <<>>
  BY <1>5
<1> QED
  BY <1>1, <1>3, <1>4, <1>6 DEF ScanAnchor, AnchorAt

(* The log is renamed over log.1: its last record is the new anchor, and    *)
(* the one the append has made follows it.                                  *)
LEMMA RenameStep ==
  ASSUME Single, AuditInv, NEW p \in Proc, Rename(p) PROVE AuditInv'
<1>1. /\ app \in [Proc -> App] /\ PowerInv /\ AppendInv /\ TypeInv /\ Sound(dir) /\ TornInv /\ ReaderInv
      /\ app[p] \in App /\ dir \in Dir
  BY DEF AuditInv, TypeInv
<1>2. /\ app[p].step = "rename" /\ dir.log # 0 /\ Records(Lines(dir.log)) # {} /\ app[p].fresh
      /\ app[p].line.ok /\ Linked(app[p].line, ScanAnchor(Lines(dir.log), RotatedAnchor), <<>>)
      /\ app[p].out # "chain"
  BY <1>1 DEF Rename, AppendInv
<1>3. CASE Fails(p) /\ UNCHANGED <<dir, back>>
  BY <1>3, EndsQuietly DEF Fails, Rename, diskVars
<1>4. CASE /\ dir' = [log |-> 0, old |-> dir.log] /\ back' = back \cup {dir} /\ Step(p, "open")
           /\ reader' = [reader EXCEPT !.crossed = @ \/ reader.step # "idle"]
           /\ UNCHANGED <<calls, acked, faults>>
  <2> DEFINE a == [app[p] EXCEPT !.step = "open"]
  <2>1. app' = [app EXCEPT ![p] = a]
    BY <1>1, <1>4 DEF Step
  <2>2. a \in App /\ a.step = "open" /\ a.fresh /\ a.line = app[p].line /\ a.out = app[p].out
    BY <1>1, <1>2 DEF App, Steps
  <2> HIDE DEF a
  <2>3. \A q \in Proc : q = p /\ app'[q] = a
    BY <1>1, <2>1, OnlyOne
  <2>4. disk' = disk /\ safe' = safe /\ dir'.log = 0 /\ dir'.old = dir.log
    BY <1>4 DEF Rename
  <2>5. dir' \in Dir /\ back' \subseteq Dir /\ dir.log \in Inode
    BY <1>1, <1>2, <1>4 DEF Dir, TypeInv
  <2>6. TypeInv'
    <3>1. reader' \in Reader
      BY <1>1, <1>4 DEF TypeInv, Reader
    <3> QED
      BY <1>1, <1>4, <2>1, <2>2, <2>4, <2>5, <3>1 DEF TypeInv
  <2>7. Lines(dir.log)' = <<>> /\ RotatedAnchor' = ScanAnchor(disk[dir.log].lines, NoAnchor)
    BY <1>2, <2>4 DEF Lines, RotatedAnchor
  <2>8. Sound(dir)'
    BY <2>4, <2>7, EmptyScan DEF Sound, Lines
  <2>9. ScanAnchor(Lines(dir.log), RotatedAnchor) = RotatedAnchor'
    <3>1. Lines(dir.log) = disk[dir.log].lines /\ Lines(dir.log) \in Seq(Line)
      BY <1>1, <1>2, AnchorTypes DEF Lines
    <3> QED
      BY <1>2, <2>7, <3>1, OwnAnchor
  <2>10. Linked(a.line, ScanAnchor(Lines(dir.log)', RotatedAnchor'), Gap(Lines(dir.log)', End(Lines(dir.log)')))
    BY <1>2, <2>2, <2>7, <2>9, EmptyScan
  <2>11. AppendInv'
    BY <1>2, <2>2, <2>3, <2>4, <2>10 DEF AppendInv, Follows
  <2>12. ReaderInv'
    <3>1. /\ reader'.step = reader.step /\ reader'.out = reader.out
          /\ reader'.crossed = (reader.crossed \/ reader.step # "idle")
      BY <1>1, <1>4 DEF TypeInv, Reader
    <3> QED
      BY <1>1, <3>1 DEF ReaderInv
  <2>13. PowerInv'
    <3> SUFFICES ASSUME faults' = 0
                 PROVE  /\ \A d \in back' : Sound(d)'
                        /\ \A d \in back' \cup {dir'} : \A i \in {d.log, d.old} \ {0} :
                             safe'[i] = disk'[i]
      BY <2>2, <2>3 DEF PowerInv
    <3>1. faults = 0 /\ back = {} /\ \A q \in Proc : app[q].step # "sync"
      BY <1>1, <1>2, <1>4, <2>3 DEF PowerInv
    <3>2. back' = {dir}
      BY <1>4, <3>1
    <3>3. Sound(dir) => \A d \in back' : Sound(d)'
      BY <2>4, <3>2, SoundKept
    <3>4. \A i \in {dir.log, dir.old} \ {0} : safe[i] = disk[i]
      BY <1>1, <3>1 DEF PowerInv
    <3> QED
      BY <1>1, <2>4, <3>2, <3>3, <3>4
  <2>14. TornInv'
    BY <1>1, <1>4, <2>4, TornKept
  <2> QED
    BY <2>6, <2>8, <2>11, <2>12, <2>13, <2>14 DEF AuditInv
<1> QED
  BY <1>2, <1>3, <1>4 DEF Rename

(* A new file is none that a name, now or after a power loss, may lead to.  *)
LEMMA FreeFacts ==
  ASSUME Free # {}
  PROVE  /\ Min(Free) \in Inode /\ Min(Free) \notin {dir.log, dir.old}
         /\ \A d \in back : Min(Free) \notin {d.log, d.old}
<1>1. Free \in SUBSET (1 .. MaxFiles) /\ MaxFiles \in Nat
  BY AuditAssumption DEF Free, Inode
<1>2. Min(Free) \in Free
  BY <1>1, MinFacts
<1> QED
  BY <1>2 DEF Free, Used

(* A directory that does not lead to the file that is made is as it was.    *)
LEMMA SoundElsewhere ==
  ASSUME TypeInv, NEW d \in Dir, Sound(d), NEW i \in Inode, i \notin {d.log, d.old},
         NEW f, disk' = [disk EXCEPT ![i] = f]
  PROVE  Sound(d)' /\ Lines(d.log)' = Lines(d.log) /\ AnchorOf(d.old)' = AnchorOf(d.old)
<1>1. \A j \in Inode : j # i => disk'[j] = disk[j]
  BY DEF TypeInv
<1>2. d.log \in Inode \cup {0} /\ d.old \in Inode \cup {0}
  BY DEF Dir
<1> QED
  BY <1>1, <1>2 DEF Sound, Lines, AnchorOf

LEMMA OpenStep ==
  ASSUME Single, AuditInv, NEW p \in Proc, Open(p) PROVE AuditInv'
<1> DEFINE after == IF app[p].fresh THEN "syncdir" ELSE "write"
<1>1. /\ app \in [Proc -> App] /\ PowerInv /\ AppendInv /\ TypeInv /\ Sound(dir) /\ TornInv /\ ReaderInv
      /\ app[p] \in App /\ dir \in Dir /\ back \subseteq Dir /\ disk \in [Inode -> File]
      /\ safe \in [Inode -> File] /\ calls \in Nat
  BY DEF AuditInv, TypeInv
<1>2. /\ app[p].step = "open" /\ app[p].line.ok /\ Follows(app[p]) /\ app[p].out # "chain"
      /\ dir.log = 0 => app[p].fresh
      /\ dir.log # 0 => app[p].lead \/ disk[dir.log].closed
  BY <1>1 DEF Open, AppendInv
<1>3. CASE Fails(p) /\ UNCHANGED diskVars
  BY <1>3, EndsQuietly DEF Fails
<1>4. CASE /\ dir.log # 0 /\ app' = [app EXCEPT ![p].step = after, ![p].fd = dir.log]
           /\ Quiet /\ UNCHANGED diskVars
  <2> DEFINE a == [app[p] EXCEPT !.step = after, !.fd = dir.log]
  <2>1. app' = [app EXCEPT ![p] = a]
    BY <1>1, <1>4
  <2>2. /\ a \in App /\ a.step = after /\ a.fd = dir.log /\ a.line = app[p].line
        /\ a.lead = app[p].lead /\ a.out = app[p].out
    BY <1>1, <1>2, <1>4 DEF App, Steps, Dir
  <2> HIDE DEF a
  <2>3. \A q \in Proc : q = p /\ app'[q] = a
    BY <1>1, <2>1, OnlyOne
  <2>4. UNCHANGED <<disk, dir, safe, back, reader, faults>> /\ calls' \in Nat
    BY <1>1, <1>4 DEF Quiet, diskVars
  <2>5. RotatedAnchor' = RotatedAnchor /\ Lines(dir.log)' = Lines(dir.log)
    BY <2>4, DiskKept
  <2>6. AppendInv'
    BY <1>2, <1>4, <2>2, <2>3, <2>4, <2>5 DEF AppendInv, Follows
  <2>7. faults = 0 /\ back # {} => a.step = "syncdir"
    BY <1>1, <1>2, <2>2 DEF PowerInv
  <2> QED
    BY <1>2, <2>1, <2>2, <2>4, <2>6, <2>7, AppendMoves
<1>5. CASE dir.log = 0 /\ Free # {} /\ ~(Fails(p) /\ UNCHANGED diskVars)
  <2> DEFINE i == Min(Free)
             a == [app[p] EXCEPT !.step = after, !.fd = i]
  <2>1. /\ disk' = [disk EXCEPT ![i] = Empty] /\ safe' = [safe EXCEPT ![i] = Empty]
        /\ dir' = [dir EXCEPT !.log = i] /\ back' = back \cup {dir}
        /\ app' = [app EXCEPT ![p].step = after, ![p].fd = i] /\ Quiet
    BY <1>5 DEF Open
  <2>2. /\ i \in Inode /\ i \notin {dir.log, dir.old} /\ \A d \in back : i \notin {d.log, d.old}
    BY <1>5, FreeFacts
  <2> HIDE DEF i
  <2>3. app' = [app EXCEPT ![p] = a] /\ after = "syncdir"
    BY <1>1, <1>2, <1>5, <2>1
  <2>4. /\ a \in App /\ a.step = "syncdir" /\ a.fd = i /\ a.line = app[p].line
        /\ a.lead = app[p].lead /\ a.out = app[p].out
    BY <1>1, <2>2, <2>3 DEF App, Steps
  <2> HIDE DEF a
  <2>5. \A q \in Proc : q = p /\ app'[q] = a
    BY <1>1, <2>3, OnlyOne
  <2>6. dir'.log = i /\ dir'.old = dir.old /\ dir' \in Dir /\ back' \subseteq Dir /\ i # 0
    BY <1>1, <2>1, <2>2 DEF Dir, Inode
  <2>7. Empty \in File /\ Empty.lines = <<>> /\ Empty.closed
    BY DEF Empty, File
  <2>8. disk'[i] = Empty /\ safe'[i] = Empty /\ \A j \in Inode : j # i => disk'[j] = disk[j] /\ safe'[j] = safe[j]
    BY <1>1, <2>1, <2>2
  <2>9. TypeInv'
    BY <1>1, <2>1, <2>2, <2>3, <2>4, <2>6, <2>7 DEF TypeInv, Quiet
  <2>10. /\ Lines(dir.log)' = <<>> /\ Lines(dir.log) = <<>>
         /\ AnchorOf(dir.old)' = AnchorOf(dir.old)
    <3>1. dir.old \in Inode \cup {0}
      BY <1>1 DEF Dir
    <3> QED
      BY <1>5, <2>2, <2>6, <2>7, <2>8, <3>1 DEF Lines, AnchorOf
  <2>11. RotatedAnchor' = RotatedAnchor
    BY <1>1, <2>9, <2>10, AnchorTypes DEF RotatedAnchor, AnchorOf
  <2>12. Sound(dir)'
    BY <2>2, <2>6, <2>10, EmptyScan DEF Sound
  <2>13. AppendInv'
    BY <1>2, <2>4, <2>5, <2>6, <2>7, <2>8, <2>10, <2>11 DEF AppendInv, Follows
  <2>14. ReaderInv'
    BY <1>1, <2>1, <2>11, ReaderKept DEF Quiet
  <2>15. TornInv'
    <3>1. faults' = faults /\ faults \in Nat
      BY <1>1, <2>1 DEF Quiet, TypeInv
    <3> QED
      BY <1>1, <2>7, <2>8, <3>1, NoneTorn DEF TornInv
  <2>16. PowerInv'
    <3> SUFFICES ASSUME faults' = 0
                 PROVE  /\ \A d \in back' : Sound(d)'
                        /\ \A d \in back' \cup {dir'} : \A j \in {d.log, d.old} \ {0} :
                             safe'[j] = disk'[j]
      BY <2>4, <2>5 DEF PowerInv
    <3>1. faults = 0 /\ (\A d \in back \cup {dir} : Sound(d)) /\ \A q \in Proc : app[q].step # "sync"
      BY <1>1, <1>2, <2>1, <2>5 DEF PowerInv, Quiet
    <3>2. \A d \in back' : Sound(d)'
      BY <1>1, <2>1, <2>2, <3>1, SoundElsewhere
    <3>3. \A d \in back \cup {dir} : \A j \in {d.log, d.old} \ {0} : safe[j] = disk[j] /\ j \in Inode
      BY <1>1, <3>1 DEF PowerInv, Dir
    <3>4. \A d \in back \cup {dir} : \A j \in {d.log, d.old} \ {0} : safe'[j] = disk'[j]
      BY <2>2, <2>8, <3>3
    <3>5. \A j \in {dir'.log, dir'.old} \ {0} : safe'[j] = disk'[j]
      BY <2>6, <2>8, <3>4
    <3>6. \A d \in back' \cup {dir'} : d = dir' \/ d \in back \cup {dir}
      BY <2>1
    <3> QED
      BY <3>2, <3>4, <3>5, <3>6
  <2> QED
    BY <2>9, <2>12, <2>13, <2>14, <2>15, <2>16 DEF AuditInv
<1> QED
  BY <1>3, <1>4, <1>5 DEF Open

LEMMA SyncDirectoryStep ==
  ASSUME Single, AuditInv, NEW p \in Proc, SyncDirectory(p) PROVE AuditInv'
<1>1. /\ app \in [Proc -> App] /\ PowerInv /\ AppendInv /\ TypeInv /\ Sound(dir) /\ TornInv /\ ReaderInv
      /\ app[p] \in App
  BY DEF AuditInv, TypeInv
<1>2. app[p].step = "syncdir" /\ UNCHANGED <<disk, safe, dir>>
  BY DEF SyncDirectory
<1>3. CASE Fails(p) /\ UNCHANGED back
  BY <1>2, <1>3, EndsQuietly DEF Fails, diskVars
<1>4. CASE back' = {} /\ Step(p, "write") /\ Quiet
  <2> DEFINE a == [app[p] EXCEPT !.step = "write"]
  <2>1. app' = [app EXCEPT ![p] = a]
    BY <1>1, <1>4 DEF Step
  <2>2. /\ a \in App /\ a.step = "write" /\ a.fd = app[p].fd /\ a.line = app[p].line
        /\ a.lead = app[p].lead /\ a.out = app[p].out
    BY <1>1 DEF App, Steps
  <2> HIDE DEF a
  <2>3. \A q \in Proc : q = p /\ app'[q] = a
    BY <1>1, <2>1, OnlyOne
  <2>4. RotatedAnchor' = RotatedAnchor /\ Lines(dir.log)' = Lines(dir.log) /\ Sound(dir)'
    BY <1>1, <1>2, DiskKept
  <2>5. TypeInv'
    BY <1>1, <1>2, <1>4, <2>1, <2>2 DEF TypeInv, Quiet
  <2>6. AppendInv'
    BY <1>1, <1>2, <2>2, <2>3, <2>4 DEF AppendInv, Follows
  <2>7. TornInv' /\ ReaderInv'
    BY <1>1, <1>2, <1>4, <2>4, TornKept, ReaderKept DEF Quiet
  <2>8. PowerInv'
    <3> SUFFICES ASSUME faults' = 0
                 PROVE  \A i \in {dir'.log, dir'.old} \ {0} : safe'[i] = disk'[i]
      BY <1>4 DEF PowerInv
    <3>1. faults = 0 /\ \A q \in Proc : app[q].step # "sync"
      BY <1>2, <1>4, <2>3 DEF Quiet
    <3>2. \A i \in {dir.log, dir.old} \ {0} : safe[i] = disk[i]
      BY <1>1, <3>1 DEF PowerInv
    <3> QED
      BY <1>2, <3>2
  <2> QED
    BY <2>4, <2>5, <2>6, <2>7, <2>8 DEF AuditInv
<1> QED
  BY <1>3, <1>4 DEF SyncDirectory

(* The record or a part of it joins the log, behind the end of the last     *)
(* line.                                                                    *)
LEMMA LogGrows ==
  ASSUME AuditInv, NEW p \in Proc, app[p].step = "write",
         NEW f, disk' = [disk EXCEPT ![app[p].fd] = f], dir' = dir,
         \/ f = Put(disk[app[p].fd], app[p].line, app[p].lead, TRUE) /\ faults' = faults
         \/ f \in Cuts(disk[app[p].fd], app[p].line, app[p].lead) /\ faults' = faults + 1
  PROVE  /\ disk' \in [Inode -> File] /\ Sound(dir)' /\ TornInv' /\ RotatedAnchor' = RotatedAnchor
         /\ \A j \in Inode : j # dir.log => disk'[j] = disk[j]
<1> DEFINE i == dir.log
           line == app[p].line
           s == disk[i].lines
<1>1. /\ TypeInv /\ Sound(dir) /\ TornInv /\ app[p] \in App /\ disk \in [Inode -> File]
      /\ dir \in Dir /\ faults \in Nat
  BY DEF AuditInv, TypeInv
<1>2. /\ i # 0 /\ app[p].fd = i /\ line.ok /\ Follows(app[p]) /\ (app[p].lead \/ disk[i].closed)
  BY DEF AuditInv, AppendInv
<1>3. i \in Inode /\ disk[i] \in File /\ s \in Seq(Line) /\ line \in Line /\ app[p].lead \in BOOLEAN
      /\ disk[i].closed \in BOOLEAN
  BY <1>1, <1>2 DEF Dir, File, App
<1>4. /\ f \in File
      /\ f.lines \in {s, Append(s, Fragment(line.body)), Append(s, line)}
  <2>1. f \in Cuts(disk[i], line, app[p].lead) \cup {Put(disk[i], line, app[p].lead, TRUE)}
    BY <1>2
  <2> HIDE DEF i, line
  <2> QED
    BY <1>2, <1>3, <2>1, CutLines
<1>5. faults' = faults => f.lines = Append(s, line)
  BY <1>1, <1>2 DEF Put
<1>6. disk' \in [Inode -> File] /\ disk'[i] = f /\ \A j \in Inode : j # i => disk'[j] = disk[j]
  BY <1>1, <1>2, <1>3, <1>4
<1>7. RotatedAnchor' = RotatedAnchor /\ AnchorOf(dir.old)' = AnchorOf(dir.old) /\ RotatedAnchor = AnchorOf(dir.old)
  <2>1. dir.old \in Inode \cup {0} /\ dir.old # i
    BY <1>1, <1>2 DEF Dir, Sound
  <2> QED
    BY <1>6, <2>1 DEF RotatedAnchor, AnchorOf
<1>8. Fragment(line.body) \in Line /\ ~Fragment(line.body).ok
  BY <1>3, FragmentIsLine DEF Line
<1>9. Scans(f.lines, RotatedAnchor)
  <2>1. Scans(s, RotatedAnchor)
    BY <1>1, <1>2, <1>7 DEF Sound, Lines
  <2>2. Linked(line, ScanAnchor(s, RotatedAnchor), Gap(s, End(s)))
    BY <1>2 DEF Follows, Lines
  <2> HIDE DEF s, line
  <2> QED
    BY <1>3, <1>4, <1>8, <2>1, <2>2, AppendScans
<1>10. Sound(dir)'
  BY <1>1, <1>2, <1>6, <1>7, <1>9 DEF Sound, Lines
<1>11. TornInv'
  <2> SUFFICES ASSUME NEW j \in Inode PROVE Cardinality(Torn(disk'[j].lines)) <= faults'
    BY DEF TornInv
  <2>0. faults' = faults \/ faults' = faults + 1
    OBVIOUS
  <2>1. faults' \in {faults, faults + 1} /\ faults <= faults'
    BY <1>1, <2>0
  <2>2. Cardinality(Torn(disk[j].lines)) <= faults /\ Cardinality(Torn(disk[j].lines)) \in Nat
    BY <1>1, TornFinite DEF TornInv, File
  <2>3. CASE j # i
    BY <1>1, <1>6, <2>1, <2>2, <2>3
  <2>4. CASE j = i /\ f.lines \in {s, Append(s, line)}
    <3>1. Torn(f.lines) = Torn(s)
      BY <1>2, <1>3, <2>4, AppendTorn
    <3> QED
      BY <1>1, <1>6, <2>1, <2>2, <2>4, <3>1
  <2>5. CASE j = i /\ f.lines = Append(s, Fragment(line.body)) /\ faults' = faults + 1
    <3> HIDE DEF s, line
    <3>1. f.lines \in Seq(Line) /\ Torn(f.lines) \subseteq Torn(s) \cup {Len(s) + 1}
      BY <1>3, <1>8, <2>5, AppendTorn
    <3>2. Cardinality(Torn(f.lines)) <= Cardinality(Torn(s)) + 1
      BY <1>3, <3>1, TornGrows
    <3>3. Cardinality(Torn(f.lines)) \in Nat
      BY <3>1, TornFinite
    <3>4. disk'[j].lines = f.lines /\ disk[j].lines = s
      BY <1>6, <2>5 DEF s
    <3>5. Cardinality(Torn(s)) <= faults /\ Cardinality(Torn(s)) \in Nat
      BY <2>2, <3>4
    <3>6. Cardinality(Torn(f.lines)) <= faults + 1
      BY <1>1, <3>2, <3>3, <3>5
    <3> QED
      BY <2>5, <3>4, <3>6
  <2> QED
    BY <1>4, <1>5, <2>1, <2>3, <2>4, <2>5
<1> QED
  BY <1>6, <1>7, <1>10, <1>11

(* The write is cut short, and the append ends.                             *)
LEMMA LogCut ==
  ASSUME Single, AuditInv, NEW p \in Proc, app[p].step = "write",
         NEW f \in Cuts(disk[app[p].fd], app[p].line, app[p].lead),
         disk' = [disk EXCEPT ![app[p].fd] = f], UNCHANGED <<safe, dir, back, reader, calls>>,
         NEW out \in {"none", "ok", "io"}, Return(p, out), NEW kind, Fault(kind)
  PROVE  AuditInv'
<1>1. TypeInv /\ ReaderInv /\ app \in [Proc -> App]
  BY DEF AuditInv, TypeInv
<1>2. faults' = faults + 1 /\ faults' \in 0 .. MaxFaults /\ faults' # 0
  BY <1>1, FaultFacts
<1>3. AppendInv' /\ app' \in [Proc -> App]
  BY <1>1, AppendEnds
<1>4. disk' \in [Inode -> File] /\ Sound(dir)' /\ TornInv' /\ RotatedAnchor' = RotatedAnchor
  BY <1>2, LogGrows
<1>5. TypeInv'
  BY <1>1, <1>2, <1>3, <1>4 DEF TypeInv
<1> QED
  BY <1>1, <1>2, <1>3, <1>4, <1>5, ReaderKept, FaultedPower DEF AuditInv

LEMMA WriteStep ==
  ASSUME Single, AuditInv, NEW p \in Proc, Write(p) PROVE AuditInv'
<1>1. /\ app \in [Proc -> App] /\ PowerInv /\ AppendInv /\ TypeInv /\ Sound(dir) /\ ReaderInv
      /\ app[p] \in App
  BY DEF AuditInv, TypeInv
<1>2. app[p].step = "write" /\ UNCHANGED <<safe, dir, back>>
  BY DEF Write
<1>3. CASE Fails(p) /\ \E f \in Cuts(disk[app[p].fd], app[p].line, app[p].lead) :
                         disk' = [disk EXCEPT ![app[p].fd] = f]
  BY <1>2, <1>3, LogCut DEF Fails
<1>4. CASE /\ disk' = [disk EXCEPT ![app[p].fd] = Put(@, app[p].line, app[p].lead, TRUE)]
           /\ Step(p, "sync") /\ Quiet
  <2> DEFINE a == [app[p] EXCEPT !.step = "sync"]
  <2>1. app' = [app EXCEPT ![p] = a]
    BY <1>1, <1>4 DEF Step
  <2>2. a \in App /\ a.step = "sync" /\ a.fd = app[p].fd /\ a.out = app[p].out
    BY <1>1 DEF App, Steps
  <2> HIDE DEF a
  <2>3. \A q \in Proc : q = p /\ app'[q] = a
    BY <1>1, <2>1, OnlyOne
  <2>4. /\ disk' \in [Inode -> File] /\ Sound(dir)' /\ TornInv' /\ RotatedAnchor' = RotatedAnchor
        /\ \A j \in Inode : j # dir.log => disk'[j] = disk[j]
    BY <1>2, <1>4, LogGrows DEF Quiet
  <2>5. TypeInv'
    BY <1>1, <1>2, <1>4, <2>1, <2>2, <2>4 DEF TypeInv, Quiet
  <2>6. AppendInv'
    BY <1>1, <1>2, <2>2, <2>3 DEF AppendInv
  <2>7. ReaderInv'
    BY <1>1, <1>4, <2>4, ReaderKept DEF Quiet
  <2>8. PowerInv'
    <3> SUFFICES ASSUME faults' = 0
                 PROVE  /\ back' = {}
                        /\ \A i \in {dir'.log, dir'.old} \ {0} : safe'[i] = disk'[i] \/ i = dir'.log
      BY <2>2, <2>3 DEF PowerInv
    <3>1. faults = 0 /\ back = {} /\ \A q \in Proc : app[q].step # "sync"
      BY <1>1, <1>2, <1>4, <2>3 DEF Quiet, PowerInv
    <3>2. \A i \in {dir.log, dir.old} \ {0} : safe[i] = disk[i] /\ i \in Inode
      BY <1>1, <3>1 DEF PowerInv, TypeInv, Dir
    <3> QED
      BY <1>2, <2>4, <3>1, <3>2
  <2> QED
    BY <2>4, <2>5, <2>6, <2>7, <2>8 DEF AuditInv
<1> QED
  BY <1>3, <1>4 DEF Write

LEMMA SyncDataStep ==
  ASSUME Single, AuditInv, NEW p \in Proc, SyncData(p) PROVE AuditInv'
<1>1. /\ app \in [Proc -> App] /\ PowerInv /\ AppendInv /\ TypeInv /\ Sound(dir) /\ TornInv /\ ReaderInv
      /\ disk \in [Inode -> File] /\ safe \in [Inode -> File] /\ dir \in Dir
  BY DEF AuditInv, TypeInv
<1>2. app[p].step = "sync" /\ UNCHANGED <<disk, dir, back>>
  BY DEF SyncData
<1>3. CASE Fails(p) /\ UNCHANGED safe
  BY <1>2, <1>3, EndsQuietly DEF Fails, diskVars
<1>4. CASE /\ safe' = [safe EXCEPT ![app[p].fd] = disk[app[p].fd]]
           /\ Return(p, "ok") /\ UNCHANGED <<reader, calls, faults>>
  <2>1. AppendInv' /\ app' \in [Proc -> App]
    BY <1>1, <1>4, AppendEnds
  <2>2. app[p].fd = dir.log /\ dir.log \in Inode
    BY <1>1, <1>2 DEF AppendInv, Dir
  <2>3. safe' \in [Inode -> File] /\ safe'[dir.log] = disk[dir.log]
        /\ \A j \in Inode : j # dir.log => safe'[j] = safe[j]
    BY <1>1, <1>4, <2>2
  <2>4. TypeInv'
    BY <1>1, <1>2, <1>4, <2>1, <2>3 DEF TypeInv
  <2>5. Sound(dir)' /\ TornInv' /\ ReaderInv'
    BY <1>1, <1>2, <1>4, DiskKept, TornKept, ReaderKept
  <2>6. PowerInv'
    <3> SUFFICES ASSUME faults' = 0
                 PROVE  /\ back' = {}
                        /\ \A i \in {dir'.log, dir'.old} \ {0} : safe'[i] = disk'[i]
      BY DEF PowerInv
    <3>1. faults = 0 /\ back = {}
      BY <1>1, <1>2, <1>4 DEF PowerInv
    <3>2. \A i \in {dir.log, dir.old} \ {0} : i \in Inode /\ (safe[i] = disk[i] \/ i = dir.log)
      BY <1>1, <3>1 DEF PowerInv, Dir
    <3> QED
      BY <1>2, <2>3, <3>1, <3>2
  <2> QED
    BY <2>1, <2>4, <2>5, <2>6 DEF AuditInv
<1> QED
  BY <1>3, <1>4 DEF SyncData

LEMMA KillStep ==
  ASSUME Single, AuditInv, NEW p \in Proc, Kill(p) PROVE AuditInv'
<1>1. Fault("kill") /\ Return(p, "none") /\ UNCHANGED <<safe, dir, back, reader, calls>>
  BY DEF Kill
<1>2. CASE app[p].step = "write"
  BY <1>1, <1>2, LogCut DEF Kill
<1>3. CASE app[p].step # "write"
  BY <1>1, <1>3, EndsQuietly DEF Kill, diskVars
<1> QED
  BY <1>2, <1>3

----------------------------------------------------------------------------
(***************************************************************************)
(* A power loss.                                                           *)
(***************************************************************************)

(* It leaves the first lines of a file, and perhaps a part of the next.     *)
LeftOf(f, lines) ==
  \E s \in Seq(Line) :
    /\ Len(s) <= Len(lines) /\ \A j \in 1 .. Len(s) : s[j] = lines[j]
    /\ f.lines = s \/ \E b \in Nat : f.lines = Append(s, Fragment(b))

LEMMA PowerCutFacts ==
  ASSUME TypeInv, NEW i \in Inode, NEW f \in PowerCuts(i)
  PROVE  f \in File /\ LeftOf(f, disk[i].lines) /\ (safe[i] = disk[i] => f = disk[i])
<1> DEFINE lines == disk[i].lines
           Kept(n) == [lines |-> SubSeq(lines, 1, n),
                       closed |-> IF n = Len(safe[i].lines) THEN safe[i].closed ELSE TRUE]
<1>1. /\ disk[i] \in File /\ safe[i] \in File /\ lines \in Seq(Line) /\ safe[i].lines \in Seq(Line)
      /\ safe[i].closed \in BOOLEAN
  BY DEF TypeInv, File
<1>2. PICK n \in Len(safe[i].lines) .. Len(lines) :
        IF n = Len(lines) THEN f \in {Kept(n), disk[i]}
                          ELSE f \in Cuts(Kept(n), lines[n + 1], ~Kept(n).closed)
  BY DEF PowerCuts
<1>3. n \in Nat /\ n <= Len(lines) /\ Len(lines) \in Nat
  BY <1>1, <1>2
<1>4. /\ SubSeq(lines, 1, n) \in Seq(Line) /\ Len(SubSeq(lines, 1, n)) = n
      /\ \A j \in 1 .. n : SubSeq(lines, 1, n)[j] = lines[j]
  BY <1>1, <1>3
<1>5. Kept(n) \in File /\ Kept(n).lines = SubSeq(lines, 1, n)
  BY <1>1, <1>4 DEF File
<1>6. CASE n = Len(lines)
  <2>1. SubSeq(lines, 1, n) = lines
    BY <1>1, <1>4, <1>6
  <2>2. f \in File /\ f.lines = lines
    BY <1>1, <1>2, <1>5, <1>6, <2>1
  <2>3. LeftOf(f, lines)
    BY <1>1, <2>2 DEF LeftOf
  <2>4. ASSUME safe[i] = disk[i] PROVE f = disk[i]
    <3>1. Kept(n) = [lines |-> lines, closed |-> disk[i].closed]
      BY <1>6, <2>1, <2>4
    <3>2. Kept(n) = disk[i]
      BY <1>1, <3>1 DEF File
    <3> QED
      BY <1>2, <1>6, <3>2
  <2> QED
    BY <2>2, <2>3, <2>4
<1>7. CASE n # Len(lines)
  <2> DEFINE s == SubSeq(lines, 1, n)
             line == lines[n + 1]
  <2>1. n + 1 \in 1 .. Len(lines)
    BY <1>3, <1>7
  <2>2. line \in Line /\ line.body \in Nat
    <3>1. line \in Line
      BY <1>1, <2>1
    <3> QED
      BY <3>1 DEF Line
  <2>3. f \in Cuts(Kept(n), line, ~Kept(n).closed) /\ (~Kept(n).closed) \in BOOLEAN
    BY <1>2, <1>7
  <2>4. f \in File /\ f.lines \in {s, Append(s, Fragment(line.body)), Append(s, line)}
    <3> HIDE DEF Kept, line
    <3>1. (~Kept(n).closed) \/ Kept(n).closed
      OBVIOUS
    <3> QED
      BY <1>5, <2>2, <2>3, <3>1, CutLines
  <2>5. LeftOf(f, lines)
    <3>1. CASE f.lines \in {s, Append(s, Fragment(line.body))}
      BY <1>3, <1>4, <2>2, <3>1 DEF LeftOf
    <3>2. CASE f.lines = Append(s, line)
      <4>1. /\ Append(s, line) \in Seq(Line) /\ Len(Append(s, line)) = n + 1
            /\ \A j \in 1 .. n + 1 : Append(s, line)[j] = lines[j]
        BY <1>3, <1>4, <2>2
      <4>2. /\ Len(Append(s, line)) <= Len(lines)
            /\ \A j \in 1 .. Len(Append(s, line)) : Append(s, line)[j] = lines[j]
        BY <2>1, <4>1
      <4> HIDE DEF s, line, lines
      <4> QED
        BY <3>2, <4>1, <4>2 DEF LeftOf
    <3> QED
      BY <2>4, <3>1, <3>2
  <2>6. safe[i] # disk[i]
    BY <1>2, <1>3, <1>7
  <2> QED
    BY <2>4, <2>5, <2>6
<1> QED
  BY <1>6, <1>7

(* What it leaves of a file that scans does, with one torn line more.       *)
LEMMA LeftFacts ==
  ASSUME NEW lines \in Seq(Line), NEW f \in File, LeftOf(f, lines)
  PROVE  /\ \A start : Scans(lines, start) => Scans(f.lines, start)
         /\ Cardinality(Torn(f.lines)) <= Cardinality(Torn(lines)) + 1
<1>1. PICK s \in Seq(Line) :
        /\ Len(s) <= Len(lines) /\ \A j \in 1 .. Len(s) : s[j] = lines[j]
        /\ f.lines = s \/ \E b \in Nat : f.lines = Append(s, Fragment(b))
  BY DEF LeftOf
<1>2. \A start : Scans(lines, start) => Scans(s, start)
  BY <1>1, PrefixScans
<1>3. Torn(s) \subseteq Torn(lines)
  BY <1>1 DEF Torn
<1>4. f.lines \in Seq(Line)
  BY DEF File
<1>5. CASE f.lines = s
  <2>1. Torn(f.lines) \subseteq Torn(lines) \cup {0}
    BY <1>3, <1>5
  <2> QED
    BY <1>2, <1>4, <1>5, <2>1, TornGrows
<1>6. ASSUME NEW b \in Nat, f.lines = Append(s, Fragment(b))
      PROVE  /\ \A start : Scans(lines, start) => Scans(f.lines, start)
             /\ Cardinality(Torn(f.lines)) <= Cardinality(Torn(lines)) + 1
  <2>1. Fragment(b) \in Line /\ ~Fragment(b).ok
    BY FragmentIsLine
  <2>2. \A start : Scans(s, start) => Scans(Append(s, Fragment(b)), start)
    BY <2>1, AppendScans
  <2>3. Torn(Append(s, Fragment(b))) \subseteq Torn(s) \cup {Len(s) + 1}
    BY <2>1, AppendTorn
  <2>4. Torn(f.lines) \subseteq Torn(lines) \cup {Len(s) + 1}
    BY <1>3, <1>6, <2>3
  <2> QED
    BY <1>2, <1>4, <1>6, <2>2, <2>4, TornGrows
<1> QED
  BY <1>1, <1>5, <1>6

LEMMA PowerStep ==
  ASSUME Single, ~PowerAfterFault, AuditInv, PowerLoss PROVE AuditInv'
<1>1. /\ TypeInv /\ Sound(dir) /\ TornInv /\ PowerInv /\ disk \in [Inode -> File]
      /\ dir \in Dir /\ back \subseteq Dir /\ app \in [Proc -> App]
  BY DEF AuditInv, TypeInv
<1>2. faults = 0 /\ faults' = faults + 1 /\ faults' \in 0 .. MaxFaults /\ faults' # 0
  BY <1>1, FaultFacts DEF PowerLoss
<1>3. dir' \in back \cup {dir} /\ back' = {} /\ safe' = disk' /\ calls' = calls
  BY DEF PowerLoss
<1>4. DOMAIN disk' = Inode /\ disk' = [i \in Inode |-> disk'[i]]
  BY DEF PowerLoss
<1>5. \A i \in Inode : disk'[i] \in IF i \in {dir'.log, dir'.old} THEN PowerCuts(i) ELSE {Empty}
  BY DEF PowerLoss
<1>6. ASSUME NEW i \in Inode
      PROVE  disk'[i] \in File /\ Cardinality(Torn(disk'[i].lines)) <= faults'
  <2>1. /\ disk[i] \in File /\ disk[i].lines \in Seq(Line)
        /\ Cardinality(Torn(disk[i].lines)) <= faults
    BY <1>1 DEF File, TornInv
  <2>2. CASE i \in {dir'.log, dir'.old}
    <3>1. disk'[i] \in File /\ LeftOf(disk'[i], disk[i].lines)
      BY <1>1, <1>5, <2>2, PowerCutFacts
    <3>2. Cardinality(Torn(disk'[i].lines)) <= Cardinality(Torn(disk[i].lines)) + 1
      BY <2>1, <3>1, LeftFacts
    <3>3. Cardinality(Torn(disk[i].lines)) \in Nat /\ Cardinality(Torn(disk'[i].lines)) \in Nat
      BY <2>1, <3>1, TornFinite DEF File
    <3> QED
      BY <1>2, <2>1, <3>1, <3>2, <3>3
  <2>3. CASE i \notin {dir'.log, dir'.old}
    <3>1. disk'[i] = Empty
      BY <1>5, <2>3
    <3>2. Empty \in File /\ Empty.lines = <<>>
      BY DEF Empty, File
    <3> QED
      BY <1>2, <3>1, <3>2, NoneTorn
  <2> QED
    BY <2>2, <2>3
<1>7. disk' \in [Inode -> File] /\ TornInv'
  BY <1>4, <1>6 DEF TornInv
<1>8. Sound(dir')
  BY <1>1, <1>2, <1>3 DEF PowerInv
<1>9. dir' \in Dir /\ dir'.log \in Inode \cup {0} /\ dir'.old \in Inode \cup {0}
  BY <1>1, <1>3 DEF Dir
<1>10. dir'.old # 0 => disk'[dir'.old] = disk[dir'.old]
  <2> SUFFICES ASSUME dir'.old # 0 PROVE disk'[dir'.old] = disk[dir'.old]
    OBVIOUS
  <2>1. safe[dir'.old] = disk[dir'.old]
    <3> SUFFICES ASSUME dir'.old = dir.log, NEW p \in Proc, app[p].step = "sync" PROVE FALSE
      BY <1>1, <1>2, <1>3 DEF PowerInv
    <3>1. dir' = dir
      BY <1>1, <1>2, <1>3 DEF PowerInv
    <3> QED
      BY <1>8, <3>1 DEF Sound
  <2>2. disk'[dir'.old] \in PowerCuts(dir'.old)
    BY <1>5, <1>9
  <2> QED
    BY <1>1, <1>9, <2>1, <2>2, PowerCutFacts
<1>11. dir'.log # 0 => /\ disk'[dir'.log] \in File /\ disk[dir'.log].lines \in Seq(Line)
                       /\ LeftOf(disk'[dir'.log], disk[dir'.log].lines)
  BY <1>1, <1>5, <1>9, PowerCutFacts DEF File
<1>12. Sound(dir)'
  <2>1. AnchorOf(dir.old)' = AnchorOf(dir'.old)
    BY <1>10 DEF AnchorOf
  <2>2. Scans(Lines(dir.log)', AnchorOf(dir'.old))
    <3>1. CASE dir'.log = 0
      BY <3>1, EmptyScan DEF Lines
    <3>2. CASE dir'.log # 0
      <4>1. Scans(disk[dir'.log].lines, AnchorOf(dir'.old))
        BY <1>8, <3>2 DEF Sound, Lines
      <4>2. Scans(disk'[dir'.log].lines, AnchorOf(dir'.old))
        BY <1>11, <3>2, <4>1, LeftFacts
      <4> QED
        BY <3>2, <4>2 DEF Lines
    <3> QED
      BY <3>1, <3>2
  <2> QED
    BY <1>8, <2>1, <2>2 DEF Sound
<1>13. Idle \in App /\ Away \in Reader /\ Idle.step = "idle" /\ Idle.out = "none"
       /\ Away.step = "idle" /\ Away.out = "none"
  <2>1. Fragment(0) \in Line /\ NoAnchor \in Anchor /\ <<>> \in Seq(Line)
    BY FragmentIsLine DEF NoAnchor, Anchor
  <2> QED
    BY <2>1 DEF Idle, App, Steps, Away, Reader
<1>14. app' = [p \in Proc |-> Idle] /\ reader' = Away
  BY DEF PowerLoss
<1>15. TypeInv'
  BY <1>1, <1>2, <1>3, <1>7, <1>9, <1>13, <1>14 DEF TypeInv
<1>16. AppendInv' /\ ReaderInv'
  BY <1>13, <1>14 DEF AppendInv, ReaderInv
<1> QED
  BY <1>2, <1>7, <1>12, <1>15, <1>16, FaultedPower DEF AuditInv

----------------------------------------------------------------------------
(***************************************************************************)
(* Readers, and the theorems.                                              *)
(***************************************************************************)

LEMMA ReaderMoves ==
  ASSUME AuditInv, StayDisk, reader' \in Reader, ReaderInv' PROVE AuditInv'
<1>1. UNCHANGED <<disk, safe, dir, back, app, calls, faults>>
  BY DEF StayDisk, diskVars
<1>2. RotatedAnchor' = RotatedAnchor /\ Lines(dir.log)' = Lines(dir.log) /\ Sound(dir)'
  BY <1>1, DiskKept DEF AuditInv
<1>3. TypeInv' /\ TornInv'
  BY <1>1, TornKept DEF AuditInv, TypeInv
<1>4. AppendInv'
  BY <1>1, <1>2 DEF AuditInv, AppendInv, Follows
<1>5. PowerInv'
  BY <1>1, SoundKept DEF AuditInv, PowerInv
<1> QED
  BY <1>2, <1>3, <1>4, <1>5 DEF AuditInv

LEMMA ReaderStep ==
  ASSUME AuditInv, VerifyAnchor \/ VerifyLog \/ QueryLog \/ QueryAnchor PROVE AuditInv'
<1>1. TypeInv /\ Sound(dir) /\ ReaderInv /\ reader \in Reader
  BY DEF AuditInv, TypeInv
<1>2. RotatedAnchor \in Anchor /\ RotatedAnchor = AnchorOf(dir.old) /\ Lines(dir.log) \in Seq(Line)
  BY <1>1, AnchorTypes
<1>3. Scans(Lines(dir.log), RotatedAnchor)
  BY <1>1, <1>2 DEF Sound
<1>4. StayDisk
  BY DEF VerifyAnchor, VerifyLog, QueryLog, QueryAnchor
<1>5. RotatedAnchor' = RotatedAnchor
  BY <1>4, DiskKept DEF StayDisk, diskVars
<1>6. NoAnchor \in Anchor /\ <<>> \in Seq(Line)
  BY DEF NoAnchor, Anchor
<1>7. reader' \in Reader /\ ReaderInv'
  <2>1. CASE VerifyAnchor
    BY <1>2, <1>5, <1>6, <2>1 DEF VerifyAnchor, Away, Reader, ReaderInv
  <2>2. CASE VerifyLog
    <3> DEFINE lines == IF dir.log = 0 THEN <<>> ELSE disk[dir.log].lines
               out == CASE dir.log = 0 -> "absent"
                        [] ~Scans(lines, reader.anchor) -> "chain"
                        [] OTHER -> "ok"
    <3>1. reader' = [Away EXCEPT !.crossed = reader.crossed, !.out = out]
      BY <2>2 DEF VerifyLog
    <3>2. reader.crossed \in BOOLEAN /\ out \in {"none", "ok", "chain", "absent"}
      BY <1>1 DEF Reader
    <3>3. out = "chain" => reader.crossed
      <4>1. ~reader.crossed => Scans(lines, reader.anchor)
        BY <1>1, <1>3, <2>2 DEF VerifyLog, ReaderInv, Lines
      <4> QED
        BY <4>1
    <3> HIDE DEF out
    <3> QED
      BY <1>6, <3>1, <3>2, <3>3 DEF Away, Reader, ReaderInv
  <2>3. CASE QueryLog
    <3>1. PICK n \in 1..MaxLimit :
            reader' = [Away EXCEPT !.step = "query", !.limit = n, !.lines = disk[dir.log].lines]
      BY <2>3 DEF QueryLog
    <3>2. Lines(dir.log) = disk[dir.log].lines
      BY <2>3 DEF QueryLog, Lines
    <3>3. n \in Nat
      BY AuditAssumption
    <3> QED
      BY <1>2, <1>3, <1>5, <1>6, <3>1, <3>2, <3>3 DEF Away, Reader, ReaderInv
  <2>4. CASE QueryAnchor
    <3> DEFINE out == IF QueryAccepts(reader.lines, RotatedAnchor, reader.limit)
                      THEN "ok" ELSE "chain"
    <3>1. reader' = [Away EXCEPT !.crossed = reader.crossed, !.out = out]
      BY <2>4 DEF QueryAnchor
    <3>2. reader.crossed \in BOOLEAN /\ out \in {"none", "ok", "chain", "absent"}
      BY <1>1 DEF Reader
    <3>3. out = "chain" => reader.crossed
      <4>1. ~reader.crossed => Scans(reader.lines, RotatedAnchor)
        BY <1>1, <2>4 DEF QueryAnchor, ReaderInv
      <4> QED
        BY <4>1 DEF QueryAccepts, Scans
    <3> HIDE DEF out
    <3> QED
      BY <1>6, <3>1, <3>2, <3>3 DEF Away, Reader, ReaderInv
  <2> QED
    BY <2>1, <2>2, <2>3, <2>4
<1> QED
  BY <1>4, <1>7, ReaderMoves

LEMMA AuditInvInit == Init => AuditInv
<1> SUFFICES ASSUME Init PROVE AuditInv
  OBVIOUS
<1>1. /\ Fragment(0) \in Line /\ NoAnchor \in Anchor /\ <<>> \in Seq(Line)
      /\ Empty \in File /\ Empty.lines = <<>>
  BY FragmentIsLine DEF NoAnchor, Anchor, Empty, File
<1>2. Idle \in App /\ Away \in Reader /\ Idle.step = "idle" /\ Idle.out = "none"
      /\ Away.step = "idle" /\ Away.out = "none"
  BY <1>1 DEF Idle, App, Steps, Away, Reader
<1>3. dir.log = 0 /\ dir.old = 0 /\ dir \in Dir
  BY DEF Init, Dir
<1>4. TypeInv
  BY <1>1, <1>2, <1>3, AuditAssumption DEF Init, TypeInv
<1>5. Sound(dir)
  BY <1>3, EmptyScan DEF Sound, Lines
<1>6. TornInv
  BY <1>1, NoneTorn DEF Init, TornInv
<1>7. AppendInv /\ ReaderInv
  BY <1>2 DEF Init, AppendInv, ReaderInv
<1>8. PowerInv
  BY <1>3 DEF Init, PowerInv
<1> QED
  BY <1>4, <1>5, <1>6, <1>7, <1>8 DEF AuditInv

LEMMA AuditInvNext ==
  ASSUME Single, ~PowerAfterFault, AuditInv, [Next]_vars
  PROVE  AuditInv'
<1>1. CASE UNCHANGED vars
  <2>1. UNCHANGED <<disk, safe, dir, back, app, calls, faults, reader>>
    BY <1>1 DEF vars
  <2>2. StayDisk \/ acked' # acked
    BY <2>1 DEF StayDisk, diskVars
  <2>3. StayDisk /\ reader' \in Reader
    BY <1>1, <2>1, <2>2 DEF vars, AuditInv, TypeInv
  <2>4. ReaderInv'
    BY <2>1, DiskKept, ReaderKept DEF AuditInv
  <2> QED
    BY <2>3, <2>4, ReaderMoves
<1>2. CASE Next
  BY <1>2, RecordStep, ReadAnchorStep, ReadLogStep, RenameStep, OpenStep, SyncDirectoryStep,
     WriteStep, SyncDataStep, KillStep, PowerStep, ReaderStep DEF Next
<1> QED
  BY <1>1, <1>2

(* Whatever kills, failed calls and rotations come in any number, and after *)
(* a power loss as the first of them, the log that one process writes       *)
(* scans: record never refuses an append for its chain, so no audited       *)
(* operation is blocked by what a fault has left of the log (record,        *)
(* scan_records, make_chain, open_for_append).                              *)
THEOREM AppendsAreNeverRefused ==
  ASSUME Single, ~PowerAfterFault
  PROVE  Spec => []NeverRefused
<1>1. AuditInv => NeverRefused
  BY DEF AuditInv, AppendInv, NeverRefused
<1> QED
  BY <1>1, AuditInvInit, AuditInvNext, PTL DEF Spec

(* A query and a verify accept that log at every moment, also in the middle *)
(* of an append, unless a rotation comes between their two reads (query,    *)
(* verify, check_link).                                                     *)
THEOREM ReadersAccept ==
  ASSUME Single, ~PowerAfterFault
  PROVE  Spec => []ReaderAccepts
<1>1. AuditInv => ReaderAccepts
  BY DEF AuditInv, ReaderInv, ReaderAccepts
<1> QED
  BY <1>1, AuditInvInit, AuditInvNext, PTL DEF Spec

=============================================================================
