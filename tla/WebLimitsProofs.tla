-------------------------- MODULE WebLimitsProofs --------------------------
(***************************************************************************)
(* The budget of an API token, the end of a revoked one and the account of *)
(* the rejections, for any number of tokens and addresses, any sizes of    *)
(* the tables, any rate and any burst.                                     *)
(***************************************************************************)
EXTENDS WebLimits, FiniteSetTheorems, TLAPS

----------------------------------------------------------------------------
(***************************************************************************)
(* The arithmetic of the budget.                                           *)
(***************************************************************************)

Cost(n) == n * Interval

LEMMA LimitFacts ==
  /\ Interval \in Nat /\ Interval > 0
  /\ Burst \in Nat /\ Burst > 0
  /\ MaxTracked \in Nat
  BY LimitsAssumption

LEMMA CostFacts ==
  ASSUME NEW n \in Nat
  PROVE  /\ Cost(n) \in Nat
         /\ Cost(n + 1) = Cost(n) + Interval
  BY LimitFacts DEF Cost

LEMMA ToleranceFacts ==
  /\ Interval * (Burst - 1) \in Nat
  /\ Interval * (Burst - 1) + Interval = Interval * Burst
  BY LimitFacts

(* What is paid for within a time was allowed in it.                        *)
LEMMA CostBoundsNumber ==
  ASSUME NEW s \in Nat, NEW n \in Nat, Cost(s) <= n + Interval * Burst
  PROVE  s <= Burst + n \div Interval
<1> DEFINE q == n \div Interval
           r == n % Interval
<1>1. q \in Nat /\ r \in Nat /\ n = Interval * q + r /\ r < Interval
  BY LimitFacts
<1>2. SUFFICES ASSUME s >= Burst + q + 1 PROVE FALSE
  BY <1>1, LimitFacts
<1>3. s * Interval >= (Burst + q + 1) * Interval
  BY <1>1, <1>2, LimitFacts
<1>4. (Burst + q + 1) * Interval = Interval * Burst + Interval * q + Interval
  BY <1>1, LimitFacts
<1> QED
  BY <1>1, <1>3, <1>4, LimitFacts DEF Cost

----------------------------------------------------------------------------
(***************************************************************************)
(* What the limiter's table looks like after a check.                      *)
(***************************************************************************)

Budgets == [Tokens -> Budget \cup {None}]

(* make_room drops entries and changes none; while the table is not full of *)
(* draining buckets, it only drops full ones.                               *)
LEMMA TokenRoomFacts ==
  ASSUME NEW table \in Budgets, NEW k \in Tokens, NEW at \in Nat,
         NEW room \in TokenRoom(table, k, at)
  PROVE  /\ room \in Budgets
         /\ \A t \in Tokens : room[t] = table[t] \/ room[t] = None
         /\ ~(table[k] = None /\ Full(table, at)) =>
              \A t \in Tokens : \/ room[t] = table[t]
                                \/ room[t] = None /\ table[t].fullAt <= at
<1> DEFINE kept == Without(table, Tracked(table) \ Draining(table, at))
<1>1. /\ kept \in Budgets /\ DOMAIN kept = Tokens
      /\ \A t \in Tokens : kept[t] = table[t] \/ (kept[t] = None /\ table[t].fullAt <= at)
  BY DEF Without, Tracked, Draining, Budgets, Budget
<1>2. CASE room = table
  BY <1>2
<1>3. CASE room = kept
  BY <1>1, <1>3
<1>4. CASE table[k] = None /\ Full(table, at) /\ room \in EvictOldest(kept, "fullAt")
  <2> HIDE DEF kept
  <2>1. PICK o \in Tracked(kept) : room = Without(kept, {o})
    BY <1>4 DEF EvictOldest
  <2> QED
    BY <1>1, <1>4, <2>1 DEF Without, Budgets
<1> QED
  BY <1>2, <1>3, <1>4 DEF TokenRoom

LEMMA SetLimited ==
  ASSUME NEW f, NEW old, NEW new
  PROVE  [[fullAt |-> f, limited |-> old] EXCEPT !.limited = new] = [fullAt |-> f, limited |-> new]
  OBVIOUS

(* An allowed request moves the bucket of its token by one interval from    *)
(* where it stood, or from now if that is later; a refused one does not     *)
(* move it.                                                                 *)
LEMMA TokenCheckFacts ==
  ASSUME NEW table \in Budgets, NEW k \in Tokens, NEW at \in Nat,
         NEW c \in TokenCheck(table, k, at)
  PROVE  \E room \in TokenRoom(table, k, at), base \in Nat, flag \in BOOLEAN :
           /\ c.table = [room EXCEPT ![k] = [fullAt |-> IF c.allowed THEN base + Interval ELSE base,
                                             limited |-> flag]]
           /\ c.allowed \in BOOLEAN
           /\ c.allowed => at <= base /\ base <= at + Interval * (Burst - 1)
           /\ ~c.allowed => room[k] # None /\ base = room[k].fullAt
           /\ room[k] = None \/ room[k].fullAt <= base
<1>1. PICK room \in TokenRoom(table, k, at) :
        c = LET kept == IF room[k] # None /\ room[k].fullAt > at
                        THEN room[k] ELSE [fullAt |-> at, limited |-> FALSE]
                over == kept.fullAt - at > Interval * (Burst - 1)
            IN  [allowed |-> ~over, first |-> over /\ ~kept.limited,
                 table |-> [room EXCEPT ![k] =
                              IF over THEN [kept EXCEPT !.limited = TRUE]
                              ELSE [kept EXCEPT !.fullAt = @ + Interval]]]
  BY DEF TokenCheck
<1> DEFINE kept == IF room[k] # None /\ room[k].fullAt > at
                   THEN room[k] ELSE [fullAt |-> at, limited |-> FALSE]
           over == kept.fullAt - at > Interval * (Burst - 1)
           base == kept.fullAt
           flag == IF over THEN TRUE ELSE kept.limited
<1>2. room[k] \in Budget \cup {None}
  BY TokenRoomFacts DEF Budgets
<1>3. /\ kept \in Budget /\ base \in Nat /\ kept.limited \in BOOLEAN /\ base >= at
      /\ room[k] = None \/ room[k].fullAt <= base
      /\ over => room[k] # None /\ base = room[k].fullAt
  <2>1. CASE room[k] # None /\ room[k].fullAt > at
    <3>1. kept = room[k] /\ room[k] \in Budget
      BY <1>2, <2>1
    <3>2. room[k].fullAt \in Nat /\ room[k].limited \in BOOLEAN
      BY <3>1 DEF Budget
    <3>3. kept.limited \in BOOLEAN
      BY <3>1, <3>2, Zenon
    <3> HIDE DEF kept, over
    <3> QED
      BY <2>1, <3>1, <3>2, <3>3
  <2>2. CASE ~(room[k] # None /\ room[k].fullAt > at)
    <3>1. kept = [fullAt |-> at, limited |-> FALSE]
      BY <2>2
    <3>2. kept.fullAt = at /\ kept.limited = FALSE /\ kept \in Budget
      BY <3>1 DEF Budget
    <3>3. ~over
      BY <3>2, ToleranceFacts
    <3>4. room[k] # None => room[k].fullAt \in Nat
      BY <1>2 DEF Budget
    <3>5. kept.limited \in BOOLEAN
      BY <3>2, Zenon
    <3> HIDE DEF kept, over
    <3> QED
      BY <2>2, <3>2, <3>3, <3>4, <3>5
  <2> QED
    BY <2>1, <2>2
<1>4. /\ [kept EXCEPT !.limited = TRUE] = [fullAt |-> base, limited |-> TRUE]
      /\ [kept EXCEPT !.fullAt = @ + Interval]
           = [fullAt |-> base + Interval, limited |-> kept.limited]
  <2> HIDE DEF kept
  <2>1. PICK f \in Nat, l \in BOOLEAN : kept = [fullAt |-> f, limited |-> l]
    BY <1>3 DEF Budget
  <2>2. kept.fullAt = f /\ kept.limited = l
    BY <2>1
  <2>3. [[fullAt |-> f, limited |-> l] EXCEPT !.limited = TRUE] = [fullAt |-> f, limited |-> TRUE]
    BY SetLimited, Zenon
  <2>4. [[fullAt |-> f, limited |-> l] EXCEPT !.fullAt = @ + Interval]
          = [fullAt |-> f + Interval, limited |-> l]
    OBVIOUS
  <2> QED
    BY <2>1, <2>2, <2>3, <2>4, Zenon
<1>5. /\ c.allowed = ~over
      /\ c.table = [room EXCEPT ![k] = IF over THEN [kept EXCEPT !.limited = TRUE]
                                       ELSE [kept EXCEPT !.fullAt = @ + Interval]]
  BY <1>1
<1>6. ~over => base <= at + Interval * (Burst - 1)
  BY <1>3, ToleranceFacts
<1> HIDE DEF over, kept
<1>7. c.table = [room EXCEPT ![k] = [fullAt |-> IF c.allowed THEN base + Interval ELSE base,
                                     limited |-> flag]]
  BY <1>4, <1>5
<1> QED
  BY <1>3, <1>5, <1>6, <1>7

----------------------------------------------------------------------------
(***************************************************************************)
(* The budget of a token.                                                  *)
(***************************************************************************)

(* A bucket is ahead of its token's cost, and never more than the burst     *)
(* ahead of the clock; a token without a bucket has paid for what it got.   *)
Within(t) ==
  /\ budgets[t] = None => Cost(served[t]) + 1 <= now
  /\ budgets[t] # None => /\ Cost(served[t]) + 1 <= budgets[t].fullAt
                          /\ budgets[t].fullAt <= now + Interval * Burst

TokenInv ==
  /\ now \in Nat /\ now > 0
  /\ served \in [Tokens -> Nat]
  /\ budgets \in Budgets
  /\ ~crowded => \A t \in Tokens : Within(t)

(* What a request that gets to the limiter does.                            *)
Admitted(k) ==
  /\ \E c \in TokenCheck(budgets, k, now) :
       /\ budgets' = c.table
       /\ served' = [served EXCEPT ![k] = IF c.allowed THEN @ + 1 ELSE @]
  /\ crowded' = (crowded \/ (budgets[k] = None /\ Full(budgets, now)))
  /\ now' = now

LEMMA AdmittedKeepsTokenInv ==
  ASSUME TokenInv, NEW k \in Tokens, Admitted(k)
  PROVE  TokenInv'
<1>1. PICK c \in TokenCheck(budgets, k, now) :
        /\ budgets' = c.table
        /\ served' = [served EXCEPT ![k] = IF c.allowed THEN @ + 1 ELSE @]
  BY DEF Admitted
<1>2. budgets \in Budgets /\ now \in Nat /\ now > 0 /\ now' = now /\ served \in [Tokens -> Nat]
  BY DEF TokenInv, Admitted
<1>3. PICK room \in TokenRoom(budgets, k, now), base \in Nat, flag \in BOOLEAN :
        /\ c.table = [room EXCEPT ![k] = [fullAt |-> IF c.allowed THEN base + Interval ELSE base,
                                          limited |-> flag]]
        /\ c.allowed \in BOOLEAN
        /\ c.allowed => now <= base /\ base <= now + Interval * (Burst - 1)
        /\ ~c.allowed => room[k] # None /\ base = room[k].fullAt
        /\ room[k] = None \/ room[k].fullAt <= base
  BY <1>2, TokenCheckFacts
<1> DEFINE full == IF c.allowed THEN base + Interval ELSE base
           entry == [fullAt |-> full, limited |-> flag]
<1>4. /\ room \in Budgets
      /\ \A t \in Tokens : room[t] = budgets[t] \/ room[t] = None
      /\ ~(budgets[k] = None /\ Full(budgets, now)) =>
           \A t \in Tokens : \/ room[t] = budgets[t]
                             \/ room[t] = None /\ budgets[t].fullAt <= now
  BY <1>2, TokenRoomFacts
<1>5. full \in Nat /\ entry \in Budget /\ entry # None /\ entry.fullAt = full
  <2>1. full \in Nat
    BY LimitFacts
  <2>2. entry \in Budget /\ entry.fullAt = full
    BY <2>1 DEF Budget
  <2> QED
    BY <2>1, <2>2, NoneAssumption
<1>6. budgets' = [room EXCEPT ![k] = entry]
  BY <1>1, <1>3
<1> HIDE DEF full, entry
<1>7. budgets' \in Budgets
  BY <1>4, <1>5, <1>6 DEF Budgets
<1>8. served' \in [Tokens -> Nat]
  BY <1>1, <1>2
<1>9. ASSUME ~crowded', NEW t \in Tokens PROVE Within(t)'
  <2>1. /\ Within(t)
        /\ room[t] = budgets[t] \/ (room[t] = None /\ budgets[t].fullAt <= now)
    BY <1>4, <1>9 DEF Admitted, TokenInv
  <2>2. /\ Cost(served[t]) \in Nat /\ Cost(served[t] + 1) = Cost(served[t]) + Interval
        /\ budgets[t] # None => budgets[t].fullAt \in Nat
    BY <1>2, CostFacts DEF Budgets, Budget
  <2>3. CASE t # k
    <3>1. budgets'[t] = room[t] /\ served'[t] = served[t]
      BY <1>1, <1>2, <1>4, <1>6, <2>3 DEF Budgets
    <3> QED
      BY <1>2, <2>1, <2>2, <3>1 DEF Within
  <2>4. CASE t = k
    <3>1. budgets'[t] = entry
      BY <1>4, <1>6, <2>4 DEF Budgets
    <3>2. served'[t] = IF c.allowed THEN served[t] + 1 ELSE served[t]
      BY <1>1, <1>2, <2>4
    <3>3. CASE c.allowed
      <4>1. full = base + Interval
        BY <3>3 DEF full
      <4>2. Cost(served[t]) + 1 <= base
        BY <1>2, <1>3, <2>1, <2>2, <2>4, <3>3 DEF Within
      <4>3. full <= now + Interval * Burst
        BY <1>2, <1>3, <3>3, <4>1, ToleranceFacts, LimitFacts
      <4>4. Cost(served'[t]) + 1 <= full
        BY <2>2, <3>2, <3>3, <4>1, <4>2, LimitFacts
      <4> QED
        BY <1>2, <1>5, <3>1, <4>3, <4>4 DEF Within
    <3>4. CASE ~c.allowed
      <4>1. full = base /\ base = budgets[t].fullAt /\ budgets[t] # None
        BY <1>3, <2>1, <2>4, <3>4 DEF full
      <4> QED
        BY <1>2, <1>5, <2>1, <3>1, <3>2, <3>4, <4>1 DEF Within
    <3> QED
      BY <3>3, <3>4
  <2> QED
    BY <2>3, <2>4
<1> QED
  BY <1>2, <1>7, <1>8, <1>9 DEF TokenInv

LEMMA TokenInvStep ==
  ASSUME TokenInv, [Next]_vars
  PROVE  TokenInv'
<1>1. ASSUME NEW t \in Tokens, NEW ip \in Ips, Bearer(t, ip)
      PROVE  TokenInv'
  <2>1. CASE UNCHANGED <<budgets, served, crowded, now>>
    BY <2>1 DEF TokenInv, Within, Cost
  <2>2. CASE Admitted(t)
    BY <2>2, AdmittedKeepsTokenInv
  <2> QED
    BY <1>1, <2>1, <2>2 DEF Bearer, Admitted, limiter
<1>2. CASE Tick
  <2>1. now' = now + 1 /\ UNCHANGED <<budgets, served, crowded>>
    BY <1>2 DEF Tick, store
  <2>2. \A t \in Tokens : budgets[t] # None => budgets[t].fullAt \in Nat
    BY DEF TokenInv, Budgets, Budget
  <2>3. \A t \in Tokens : Cost(served[t]) \in Nat
    BY CostFacts DEF TokenInv
  <2>4. Interval * Burst \in Nat
    BY LimitFacts
  <2>5. \A t \in Tokens : Within(t) => Within(t)'
    BY <2>1, <2>2, <2>3, <2>4 DEF TokenInv, Within, Cost
  <2> QED
    BY <2>1, <2>5 DEF TokenInv
<1>3. CASE UNCHANGED <<budgets, served, crowded, now>>
  BY <1>3 DEF TokenInv, Within, Cost
<1> QED
  BY <1>1, <1>2, <1>3 DEF Next, Check, RecordFailure, RecordSuccess, Dropped, SweepLimiter, SweepLooks,
     Mutate, MutateWrites, MutatePrints, MutateFails, CliReads, CliWrites, CliFails, vars, store, tokens

(* A token never gets more than its burst and what has dripped in since,    *)
(* unless its bucket was in a table full of draining ones                   *)
(* (TokenLimiter::check, make_room).                                        *)
THEOREM TokenBudgetAlwaysHolds == Spec => []TokenBudgetHolds
<1>1. Init => TokenInv
  BY LimitFacts DEF Init, TokenInv, Empty, Zero, Budgets, Within, Cost
<1>2. TokenInv /\ [Next]_vars => TokenInv'
  BY TokenInvStep
<1>3. TokenInv => TokenBudgetHolds
  <2> SUFFICES ASSUME TokenInv, ~crowded, NEW t \in Tokens
               PROVE  served[t] <= Burst + (now - 1) \div Interval
    BY DEF TokenBudgetHolds
  <2>1. served[t] \in Nat /\ now - 1 \in Nat /\ Cost(served[t]) \in Nat /\ Interval * Burst \in Nat
    BY CostFacts, LimitFacts DEF TokenInv
  <2>2. Cost(served[t]) <= (now - 1) + Interval * Burst
    <3>1. Within(t) /\ (budgets[t] # None => budgets[t].fullAt \in Nat)
      BY DEF TokenInv, Budgets, Budget
    <3> QED
      BY <2>1, <3>1 DEF Within, TokenInv
  <2> QED
    BY <2>1, <2>2, CostBoundsNumber
<1> QED
  BY <1>1, <1>2, <1>3, PTL DEF Spec

----------------------------------------------------------------------------
(***************************************************************************)
(* The end of a token.                                                     *)
(***************************************************************************)

Deadlined(table) ==
  /\ DOMAIN table = Tokens
  /\ \A t \in Tokens : table[t] # None => table[t].expires \in Nat

StoreTypes ==
  /\ served \in [Tokens -> Nat] /\ now \in Nat /\ gone \subseteq Tokens
  /\ Deadlined(file) /\ Deadlined(mem)
  /\ worker # None => Deadlined(worker.to)
  /\ cli # None => Deadlined(cli.to)

(* Unless the two processes crossed, the cache is the file's while its      *)
(* fingerprint is, and while the worker is inside a change; and neither the *)
(* file nor what is about to be written has a token that was dropped.       *)
FreshInv ==
  /\ StoreTypes
  /\ ~crossed =>
       /\ fresh \/ worker # None => mem = file
       /\ \A t \in gone : /\ file[t] = None
                          /\ worker # None => worker.to[t] = None
                          /\ cli # None => cli.to[t] = None

LEMMA CurrentFacts ==
  ASSUME FreshInv
  PROVE  Deadlined(Current) /\ (~crossed => Current = file)
  BY DEF FreshInv, StoreTypes, Current

(* No change brings back a token that was dropped.                          *)
LEMMA ChangesFacts ==
  ASSUME NEW table, Deadlined(table), now \in Nat, NEW to \in Changes(table)
  PROVE  Deadlined(to) /\ \A t \in Tokens : t \in gone /\ table[t] = None => to[t] = None
<1>1. ASSUME NEW t \in Tokens, NEW expires \in {0} \cup {d \in Deadlines : d > now},
             to \in Issue(table, t, expires)
      PROVE  Deadlined(to) /\ \A k \in Tokens : k \in gone /\ table[k] = None => to[k] = None
  <2>1. expires \in Nat
    BY WebLimitsAssumption
  <2>2. to = [table EXCEPT ![t] = [expires |-> expires]] /\ t \notin gone
    BY <1>1 DEF Issue
  <2> QED
    BY <2>1, <2>2 DEF Deadlined
<1>2. ASSUME NEW t \in Tokens, to \in Revoke(table, t)
      PROVE  Deadlined(to) /\ \A k \in Tokens : k \in gone /\ table[k] = None => to[k] = None
  <2>1. to = [table EXCEPT ![t] = None]
    BY <1>2 DEF Revoke
  <2> QED
    BY <2>1 DEF Deadlined
<1> QED
  BY <1>1, <1>2 DEF Changes

LEMMA RetainFacts ==
  ASSUME NEW table, Deadlined(table)
  PROVE  Deadlined(Retain(table)) /\ \A t \in Tokens : table[t] = None => Retain(table)[t] = None
  BY DEF Retain, Without, Deadlined

LEMMA FreshInvStep ==
  ASSUME FreshInv, [Next]_vars
  PROVE  FreshInv'
<1> USE DEF FreshInv, StoreTypes
<1>1. ASSUME NEW t \in Tokens, NEW ip \in Ips, Bearer(t, ip)
      PROVE  FreshInv'
  <2>1. /\ mem' = Current /\ UNCHANGED <<file, now, worker, cli, gone, crossed>>
        /\ served' = served \/ \E n \in {served[t], served[t] + 1} :
                                 served' = [served EXCEPT ![t] = n]
    BY <1>1 DEF Bearer
  <2>2. served' \in [Tokens -> Nat]
    BY <2>1
  <2> QED
    BY <2>1, <2>2, CurrentFacts DEF Deadlined
<1>2. CASE SweepLooks
  BY <1>2, CurrentFacts DEF SweepLooks, Deadlined
<1>3. CASE Mutate
  <2>1. /\ mem' = Current /\ fresh'
        /\ UNCHANGED <<file, now, cli, gone, crossed, served>>
        /\ \/ \E to \in Changes(mem') : worker' = [to |-> to, step |-> "write"]
           \/ worker' = [to |-> Retain(mem'), step |-> "write"]
    BY <1>3 DEF Mutate
  <2>2. Deadlined(worker'.to) /\ \A t \in gone : mem'[t] = None => worker'.to[t] = None
    <3>1. ASSUME NEW to \in Changes(mem'), worker' = [to |-> to, step |-> "write"]
          PROVE  Deadlined(worker'.to) /\ \A t \in gone : mem'[t] = None => worker'.to[t] = None
      BY <2>1, <3>1, CurrentFacts, ChangesFacts
    <3>2. CASE worker' = [to |-> Retain(mem'), step |-> "write"]
      BY <2>1, <3>2, CurrentFacts, RetainFacts
    <3> QED
      BY <2>1, <3>1, <3>2
  <2> QED
    BY <2>1, <2>2, CurrentFacts DEF Deadlined
<1>4. CASE MutateWrites
  <2>1. /\ file' = worker.to /\ mem' = worker.to /\ worker'.to = worker.to
        /\ gone' = gone \cup Dropping(mem, worker.to) /\ crossed' = (crossed \/ cli # None)
        /\ worker # None /\ UNCHANGED <<now, cli, served>>
    BY <1>4 DEF MutateWrites
  <2> QED
    BY <2>1 DEF Deadlined, Dropping
<1>5. CASE MutatePrints
  BY <1>5 DEF MutatePrints, Deadlined
<1>6. CASE MutateFails
  <2>1. worker' = None /\ UNCHANGED <<mem, cli, gone, served, now>> /\ worker # None
    BY <1>6 DEF MutateFails
  <2>2. CASE UNCHANGED <<file, fresh, crossed>>
    BY <2>1, <2>2 DEF Deadlined
  <2>3. CASE file' = worker.to /\ fresh' = FALSE /\ crossed' = (crossed \/ cli # None)
    BY <2>1, <2>3 DEF Deadlined
  <2> QED
    BY <1>6, <2>2, <2>3 DEF MutateFails
<1>7. CASE CliReads
  <2>1. PICK to \in Changes(file) : cli' = [read |-> file, to |-> to]
    BY <1>7 DEF CliReads
  <2>2. UNCHANGED <<file, mem, fresh, worker, gone, crossed, served, now>> /\ cli'.to = to
    BY <1>7, <2>1 DEF CliReads
  <2> QED
    BY <2>1, <2>2, ChangesFacts DEF Deadlined
<1>8. CASE CliWrites
  <2>1. /\ file' = cli.to /\ fresh' = FALSE /\ cli # None /\ cli' = None
        /\ gone' = gone \cup Dropping(cli.read, cli.to) /\ crossed' = (crossed \/ worker # None)
        /\ UNCHANGED <<now, mem, worker, served>>
    BY <1>8 DEF CliWrites
  <2> QED
    BY <2>1 DEF Deadlined, Dropping
<1>9. CASE CliFails
  <2>1. cli' = None /\ UNCHANGED <<mem, worker, gone, served, now>> /\ cli # None
    BY <1>9 DEF CliFails
  <2>2. CASE UNCHANGED <<file, fresh, crossed>>
    BY <2>1, <2>2 DEF Deadlined
  <2>3. CASE file' = cli.to /\ fresh' = FALSE /\ crossed' = (crossed \/ worker # None)
    BY <2>1, <2>3 DEF Deadlined
  <2> QED
    BY <1>9, <2>2, <2>3 DEF CliFails
<1>10. CASE Tick
  BY <1>10 DEF Deadlined, Tick, store, tokens
<1>11. CASE UNCHANGED <<store, now>>
  BY <1>11 DEF Deadlined, store, tokens
<1> QED
  BY <1>1, <1>2, <1>3, <1>4, <1>5, <1>6, <1>7, <1>8, <1>9, <1>10, <1>11
     DEF Next, Check, RecordFailure, RecordSuccess, Dropped, SweepLimiter, vars

(* A token that was revoked or swept is never served again, and one past    *)
(* its deadline is not served, whichever process changed the file, unless   *)
(* the changes of the two processes crossed (authenticate, refresh_locked,  *)
(* mutate).                                                                 *)
THEOREM TokensEndAtOnce == Spec => TokenEndsAtOnce
<1> DEFINE Alive(t) == /\ t \notin gone
                       /\ file[t] # None /\ (file[t].expires = 0 \/ now < file[t].expires)
           Served == ~crossed => \A t \in Tokens : served'[t] > served[t] => Alive(t)
<1>1. Init => FreshInv
  BY DEF Init, FreshInv, StoreTypes, Deadlined, Zero, Empty
<1>2. FreshInv /\ [Next]_vars => FreshInv'
  BY FreshInvStep
<1>3. FreshInv /\ [Next]_vars => [Served]_vars
  <2> SUFFICES ASSUME FreshInv, Next, ~crossed, NEW t \in Tokens, served'[t] > served[t]
               PROVE  Alive(t)
    OBVIOUS
  <2>1. served' # served
    BY DEF FreshInv, StoreTypes
  <2>2. PICK k \in Tokens, ip \in Ips : Bearer(k, ip)
    BY <2>1 DEF Next, Check, RecordFailure, RecordSuccess, Dropped, SweepLimiter, SweepLooks,
       Mutate, MutateWrites, MutatePrints, MutateFails, CliReads, CliWrites, CliFails, Tick, store
  <2>3. /\ ~(Current[k] = None \/ Lapsed(Current, k, now))
        /\ \E n \in {served[k], served[k] + 1} : served' = [served EXCEPT ![k] = n]
    BY <2>1, <2>2 DEF Bearer
  <2>4. t = k
    BY <2>3 DEF FreshInv, StoreTypes
  <2>5. file[t] # None /\ (file[t].expires = 0 \/ ~(now >= file[t].expires))
    BY <2>3, <2>4, CurrentFacts DEF Lapsed
  <2> QED
    BY <2>5 DEF FreshInv, StoreTypes, Deadlined
<1> QED
  BY <1>1, <1>2, <1>3, PTL DEF Spec, TokenEndsAtOnce

----------------------------------------------------------------------------
(***************************************************************************)
(* The account of the rejections.                                          *)
(***************************************************************************)

Rejected == {ip \in Ips : rejected[ip] > 0}

Held(ip) == IF clients[ip] = None THEN 0 ELSE clients[ip].suppressed

(* Only an address with a rejection is in the table, so as long as those    *)
(* fit none is evicted.                                                     *)
RejectInv ==
  /\ clients \in [Ips -> Client \cup {None}]
  /\ rejected \in [Ips -> Nat] /\ reported \in [Ips -> Nat]
  /\ now \in Nat
  /\ \A ip \in Ips : clients[ip] # None => rejected[ip] > 0
  /\ Cardinality(Rejected) <= MaxTracked =>
       \A ip \in Ips : rejected[ip] = reported[ip] + Held(ip)

LEMMA RejectedKeepsRejectInv ==
  ASSUME RejectInv, NEW k \in Ips, RecordRejected(k), now' = now
  PROVE  RejectInv'
<1>1. PICK a \in Admit(clients, k, now) :
        /\ clients' = a.table
        /\ rejected' = [rejected EXCEPT ![k] = @ + 1]
        /\ reported' = [reported EXCEPT ![k] = IF a.logged THEN @ + 1 + a.held ELSE @]
  BY DEF RecordRejected
<1>2. /\ clients \in [Ips -> Client \cup {None}] /\ now \in Nat
      /\ rejected \in [Ips -> Nat] /\ reported \in [Ips -> Nat]
      /\ \A ip \in Ips : clients[ip] # None =>
           rejected[ip] > 0 /\ clients[ip].suppressed \in Nat /\ clients[ip].loggedAt \in Nat
  BY DEF RejectInv, Client
<1>3. /\ rejected' \in [Ips -> Nat] /\ rejected'[k] = rejected[k] + 1
      /\ \A ip \in Ips \ {k} : rejected'[ip] = rejected[ip]
  BY <1>1, <1>2
<1>4. IsFiniteSet(Rejected') /\ Rejected \cup {k} \subseteq Rejected'
  <2>1. IsFiniteSet(Rejected')
    BY WebLimitsAssumption, FS_Subset DEF Rejected
  <2> QED
    BY <1>2, <1>3, <2>1 DEF Rejected
<1>5. Cardinality(Rejected') <= MaxTracked => Cardinality(Rejected) <= MaxTracked
  <2>1. Cardinality(Rejected) <= Cardinality(Rejected') /\ IsFiniteSet(Rejected)
    BY <1>4, FS_Subset
  <2> QED
    BY <1>4, <2>1, FS_CardinalityType, LimitFacts
<1>6. ASSUME clients[k] = None, Cardinality(Rejected') <= MaxTracked
      PROVE  Cardinality(Tracked(clients)) < MaxTracked
  <2>1. Tracked(clients) \subseteq Rejected /\ k \notin Tracked(clients)
    BY <1>2, <1>6 DEF Tracked, Rejected
  <2>2. IsFiniteSet(Tracked(clients)) /\ Tracked(clients) \cup {k} \subseteq Rejected'
    BY <1>4, <2>1, FS_Subset
  <2>3. Cardinality(Tracked(clients) \cup {k}) = Cardinality(Tracked(clients)) + 1
    BY <2>1, <2>2, FS_AddElement
  <2>4. Cardinality(Tracked(clients) \cup {k}) <= Cardinality(Rejected')
    BY <1>4, <2>2, FS_Subset
  <2> QED
    BY <1>4, <1>6, <2>2, <2>3, <2>4, FS_CardinalityType, LimitFacts
<1>7. CASE clients[k] # None /\ Since(clients[k].loggedAt, now) < Window
  <2>1. /\ a.logged = FALSE
        /\ a.table = [clients EXCEPT ![k].suppressed = @ + 1]
    BY <1>7 DEF Admit
  <2>2. /\ clients'[k] \in Client /\ clients'[k].suppressed = clients[k].suppressed + 1
        /\ \A ip \in Ips \ {k} : clients'[ip] = clients[ip]
        /\ clients' \in [Ips -> Client \cup {None}]
    BY <1>1, <1>2, <1>7, <2>1 DEF Client
  <2>3. reported' = reported
    BY <1>1, <1>2, <2>1
  <2>4. ASSUME Cardinality(Rejected') <= MaxTracked, NEW ip \in Ips
        PROVE  rejected'[ip] = reported'[ip] + Held(ip)'
    <3>1. rejected[ip] = reported[ip] + Held(ip)
      BY <1>5, <2>4 DEF RejectInv
    <3> QED
      BY <1>2, <1>3, <1>7, <2>2, <2>3, <3>1, NoneAssumption DEF Held
  <2> QED
    BY <1>2, <1>3, <2>2, <2>3, <2>4 DEF RejectInv
<1>8. CASE ~(clients[k] # None /\ Since(clients[k].loggedAt, now) < Window)
  <2> DEFINE rooms == IF clients[k] # None \/ Cardinality(Tracked(clients)) < MaxTracked
                      THEN {clients} ELSE EvictOldest(clients, "loggedAt")
             entry == [loggedAt |-> now, suppressed |-> 0]
  <2>1. PICK room \in rooms :
          a = [logged |-> TRUE, held |-> IF clients[k] = None THEN 0 ELSE clients[k].suppressed,
               table |-> [room EXCEPT ![k] = entry]]
    BY <1>8 DEF Admit
  <2>2. /\ room \in [Ips -> Client \cup {None}]
        /\ \A ip \in Ips : room[ip] = clients[ip] \/ room[ip] = None
    <3>1. CASE room = clients
      BY <1>2, <3>1
    <3>2. CASE room \in EvictOldest(clients, "loggedAt")
      <4>1. PICK o \in Tracked(clients) : room = Without(clients, {o})
        BY <3>2 DEF EvictOldest
      <4> QED
        BY <1>2, <4>1 DEF Without
    <3> QED
      BY <3>1, <3>2
  <2>3. entry \in Client /\ entry # None /\ entry.suppressed = 0
    BY <1>2, NoneAssumption DEF Client
  <2>4. clients' = [room EXCEPT ![k] = entry] /\ a.held = Held(k) /\ a.logged = TRUE
    BY <1>1, <2>1 DEF Held
  <2> HIDE DEF entry
  <2>5. /\ clients' \in [Ips -> Client \cup {None}] /\ clients'[k] = entry
        /\ \A ip \in Ips \ {k} : clients'[ip] = room[ip]
    BY <2>2, <2>3, <2>4
  <2>6. /\ Held(k) \in Nat
        /\ reported' = [reported EXCEPT ![k] = @ + 1 + Held(k)]
    BY <1>1, <1>2, <2>4 DEF Held
  <2>7. ASSUME Cardinality(Rejected') <= MaxTracked, NEW ip \in Ips
        PROVE  rejected'[ip] = reported'[ip] + Held(ip)'
    <3>1. rejected[ip] = reported[ip] + Held(ip)
      BY <1>5, <2>7 DEF RejectInv
    <3>2. room = clients
      BY <1>6, <2>1, <2>7
    <3>3. CASE ip = k
      <4>1. Held(ip)' = 0
        BY <2>3, <2>5, <3>3 DEF Held
      <4> QED
        BY <1>2, <1>3, <2>6, <3>1, <3>3, <4>1
    <3>4. CASE ip # k
      <4>1. Held(ip)' = Held(ip)
        BY <2>5, <3>2, <3>4 DEF Held
      <4> QED
        BY <1>2, <1>3, <2>6, <3>1, <3>4, <4>1
    <3> QED
      BY <3>3, <3>4
  <2>8. \A ip \in Ips : clients'[ip] # None => rejected'[ip] > 0
    BY <1>2, <1>3, <2>2, <2>5
  <2>9. reported' \in [Ips -> Nat]
    BY <1>2, <2>6
  <2> QED
    BY <1>2, <1>3, <2>5, <2>7, <2>8, <2>9 DEF RejectInv
<1> QED
  BY <1>7, <1>8

(* While no more addresses come than the table holds, the audit log and the *)
(* counts held back for it account for every rejected credential            *)
(* (Coalescer::admit, record_rejected).                                     *)
THEOREM RejectionsAlwaysAccounted == Spec => []RejectionsAccounted
<1>1. Init => RejectInv
  BY DEF Init, RejectInv, Empty, Zero, Held
<1>2. RejectInv /\ [Next]_vars => RejectInv'
  <2> SUFFICES ASSUME RejectInv, [Next]_vars PROVE RejectInv'
    OBVIOUS
  <2>1. ASSUME NEW t \in Tokens, NEW ip \in Ips, Bearer(t, ip)
        PROVE  RejectInv'
    <3>1. CASE RecordRejected(ip) /\ now' = now
      BY <3>1, RejectedKeepsRejectInv
    <3>2. CASE UNCHANGED <<coalescer, now>>
      BY <3>2 DEF RejectInv, Rejected, Held, coalescer
    <3> QED
      BY <2>1, <3>1, <3>2 DEF Bearer
  <2>2. CASE Tick
    BY <2>2 DEF RejectInv, Rejected, Held, Tick, coalescer
  <2>3. CASE UNCHANGED <<coalescer, now>>
    BY <2>3 DEF RejectInv, Rejected, Held, coalescer
  <2> QED
    BY <2>1, <2>2, <2>3 DEF Next, Check, RecordFailure, RecordSuccess, Dropped, SweepLimiter, SweepLooks,
       Mutate, MutateWrites, MutatePrints, MutateFails, CliReads, CliWrites, CliFails, vars
<1>3. RejectInv => RejectionsAccounted
  BY DEF RejectInv, Rejected, Held, RejectionsAccounted
<1> QED
  BY <1>1, <1>2, <1>3, PTL DEF Spec
=============================================================================
