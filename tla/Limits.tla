------------------------------- MODULE Limits -------------------------------
(***************************************************************************)
(* The bounded tables that throttle the web front end: failed logins per   *)
(* principal (auth/ratelimit.rs), requests per API token                   *)
(* (auth/tokenlimit.rs) and audited rejections per address                 *)
(* (auth/coalesce.rs), each as operators on a table.  Times are ticks of a *)
(* clock; a principal without an entry is mapped to None.                  *)
(***************************************************************************)
EXTENDS Naturals, FiniteSets, FiniteSetsExt

CONSTANTS
  None,         \* no entry
  MaxFailures,  \* auth.max_failures
  BaseBackoff,  \* BASE_BACKOFF
  MaxBackoff,   \* MAX_BACKOFF
  BucketTTL,    \* BUCKET_TTL
  MaxTracked,   \* MAX_TRACKED, MAX_TRACKED_TOKENS and MAX_CLIENTS
  Interval,     \* one request of a token's budget
  Burst,        \* auth.token_burst
  Window        \* WINDOW of the coalescer

(* MAX_BACKOFF < BUCKET_TTL is the assertion in ratelimit.rs.               *)
ASSUME LimitsAssumption ==
  /\ {MaxFailures, BaseBackoff, MaxTracked, Interval, Burst, Window} \subseteq Nat \ {0}
  /\ MaxBackoff \in Nat /\ BucketTTL \in Nat /\ MaxBackoff < BucketTTL

(* The entries of the tables that are proved about.                         *)
Budget == [fullAt : Nat, limited : BOOLEAN]

Client == [loggedAt : Nat, suppressed : Nat]

ASSUME NoneAssumption == None \notin Budget /\ None \notin Client

Tracked(table) == {k \in DOMAIN table : table[k] # None}

Since(then, now) == IF now > then THEN now - then ELSE 0

Without(table, keys) == [k \in DOMAIN table |-> IF k \in keys THEN None ELSE table[k]]

(* The tables left after one of the entries with the least stamp goes.      *)
EvictOldest(table, stamp) ==
  {Without(table, {k}) : k \in {o \in Tracked(table) :
     \A other \in Tracked(table) : table[o][stamp] <= table[other][stamp]}}

----------------------------------------------------------------------------
(* RateLimiter.                                                             *)

Blocked_LateOnly(table, k, now) == table[k] # None /\ table[k].until > now + 1
Blocked(table, k, now) == table[k] # None /\ table[k].until > now

BackoffFor(over) == Min({BaseBackoff * 2^(over - 1), MaxBackoff})

SweepBuckets(table, now) ==
  Without(table, {k \in Tracked(table) : Since(table[k].seen, now) >= BucketTTL})

Crowd(table, now) == Cardinality(Tracked(SweepBuckets(table, now))) >= MaxTracked

(* make_room: one of the least recently seen goes, whichever the map        *)
(* iterates first.                                                          *)
MakeRoom(table, now) ==
  LET swept == SweepBuckets(table, now) IN
    IF Cardinality(Tracked(table)) < MaxTracked THEN {table}
    ELSE IF ~Crowd(table, now) THEN {swept}
    ELSE EvictOldest(swept, "seen")

Over(failures) == IF failures + 1 > MaxFailures THEN failures + 1 - MaxFailures ELSE 0

(* fail, one table for each choice of make_room.                            *)
Fail(table, k, now) ==
  { LET failures == IF room[k] = None THEN 1 ELSE room[k].failures + 1
        until == IF Over(failures) > 0 THEN now + BackoffFor(Over(failures))
                 ELSE IF room[k] = None THEN 0 ELSE room[k].until
    IN  [room EXCEPT ![k] = [failures |-> failures, until |-> until, seen |-> now]] :
    room \in MakeRoom(table, now) }

Clear(table, k) == Without(table, {k})

----------------------------------------------------------------------------
(* TokenLimiter: fullAt is when the bucket is full again.                   *)

Draining(table, now) == {k \in Tracked(table) : table[k].fullAt > now}

Full(table, now) == Cardinality(Draining(table, now)) >= MaxTracked

TokenRoom(table, k, now) ==
  LET draining == Without(table, Tracked(table) \ Draining(table, now)) IN
    IF table[k] # None \/ Cardinality(Tracked(table)) < MaxTracked THEN {table}
    ELSE IF ~Full(table, now) THEN {draining}
    ELSE EvictOldest(draining, "fullAt")

TokenCheck_Loose(table, k, now) ==
  { LET kept == IF room[k] # None /\ room[k].fullAt > now
                THEN room[k] ELSE [fullAt |-> now, limited |-> FALSE]
        over == kept.fullAt - now > Interval * Burst
    IN  [allowed |-> ~over, first |-> over /\ ~kept.limited,
         table |-> [room EXCEPT ![k] =
                      IF over THEN [kept EXCEPT !.limited = TRUE]
                      ELSE [kept EXCEPT !.fullAt = @ + Interval]]] :
    room \in TokenRoom(table, k, now) }
(* check: the tables it may leave, each with its answer.                    *)
TokenCheck(table, k, now) ==
  { LET kept == IF room[k] # None /\ room[k].fullAt > now
                THEN room[k] ELSE [fullAt |-> now, limited |-> FALSE]
        over == kept.fullAt - now > Interval * (Burst - 1)
    IN  [allowed |-> ~over, first |-> over /\ ~kept.limited,
         table |-> [room EXCEPT ![k] =
                      IF over THEN [kept EXCEPT !.limited = TRUE]
                      ELSE [kept EXCEPT !.fullAt = @ + Interval]]] :
    room \in TokenRoom(table, k, now) }

----------------------------------------------------------------------------
(* Coalescer::admit: logged, and how many rejections the record carries.    *)

Admit_Keeps(table, k, now) ==
  IF table[k] # None /\ Since(table[k].loggedAt, now) < Window
  THEN {[logged |-> FALSE, held |-> 0,
         table |-> [table EXCEPT ![k].suppressed = @ + 1]]}
  ELSE { [logged |-> TRUE, held |-> IF table[k] = None THEN 0 ELSE table[k].suppressed,
          table |-> [room EXCEPT ![k] =
            [loggedAt |-> now, suppressed |-> IF table[k] = None THEN 0 ELSE table[k].suppressed]]] :
         room \in IF table[k] # None \/ Cardinality(Tracked(table)) < MaxTracked
                  THEN {table} ELSE EvictOldest(table, "loggedAt") }
Admit(table, k, now) ==
  IF table[k] # None /\ Since(table[k].loggedAt, now) < Window
  THEN {[logged |-> FALSE, held |-> 0,
         table |-> [table EXCEPT ![k].suppressed = @ + 1]]}
  ELSE { [logged |-> TRUE, held |-> IF table[k] = None THEN 0 ELSE table[k].suppressed,
          table |-> [room EXCEPT ![k] = [loggedAt |-> now, suppressed |-> 0]]] :
         room \in IF table[k] # None \/ Cardinality(Tracked(table)) < MaxTracked
                  THEN {table} ELSE EvictOldest(table, "loggedAt") }
=============================================================================
