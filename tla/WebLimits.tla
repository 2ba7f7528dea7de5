----------------------------- MODULE WebLimits -----------------------------
(***************************************************************************)
(* What throttles the callers of the web front end: failed sign-ins by     *)
(* address and by name (RateLimiter), the requests of an API token         *)
(* (TokenLimiter over the TokenStore) and the audit records of rejected    *)
(* credentials (Coalescer), over the tables of Limits.                     *)
(*                                                                         *)
(* A sign-in is checked with the clock of its start and counted with the   *)
(* same reading when its hash is done, with other sign-ins in between.     *)
(* The worker drops a sign-in whose caller went away.                      *)
(*                                                                         *)
(* tokens.json is also changed by `detent token` in another process, with  *)
(* no lock between the two: each reads the file, writes it, and the worker *)
(* then takes the fingerprint its cache is held under.                     *)
(***************************************************************************)
EXTENDS Limits

CONSTANTS
  Ips,       \* addresses, IPv6 ones cut to their /64
  Names,     \* submitted names
  Slots,     \* MAX_CONCURRENT_ARGON2 sign-ins in flight
  Tokens,    \* API tokens
  MaxTokens, \* MAX_TOKENS
  Deadlines, \* when a token may expire
  MaxCalls, MaxTime  \* bounds

ASSUME WebLimitsAssumption ==
  /\ {MaxTokens, MaxCalls, MaxTime} \subseteq Nat \ {0}
  /\ MaxTokens < MaxTracked /\ Deadlines \subseteq Nat
  /\ IsFiniteSet(Slots) /\ IsFiniteSet(Tokens) /\ IsFiniteSet(Ips)

VARIABLES
  ips, names,    \* RateLimiter
  flight,        \* the sign-ins between check and record_failure
  file, mem, fresh,  \* tokens.json, TokenInner::tokens, and whether fp is the file's
  worker, cli,   \* the change each process is in the middle of, or None
  due,           \* the sweeper saw a token past its deadline
  budgets,       \* TokenLimiter
  clients,       \* Coalescer
  now, calls,    \* the clock and the calls made
  tries,         \* history: guesses at a name since its last success
  since,         \* history: when the first of them began, or that success
  overrun,       \* history: a failure found the table of names full
  gone,          \* history: the tokens that were revoked or swept
  crossed,       \* history: a process wrote while the other was in a change
  served,        \* history: the requests of a token that were let through
  crowded,       \* history: a new bucket found the table full of draining ones
  rejected,      \* history: rejected credentials of an address
  reported       \* history: those the audit log tells of

limiter == <<ips, names, flight, tries, since, overrun>>
tokens == <<file, mem, fresh, worker, cli, due, gone, crossed>>
store == <<tokens, budgets, served, crowded>>
coalescer == <<clients, rejected, reported>>
vars == <<limiter, store, coalescer, now, calls>>

Empty(keys) == [k \in keys |-> None]

Zero(keys) == [k \in keys |-> 0]

Called == calls < MaxCalls /\ calls' = calls + 1

----------------------------------------------------------------------------
(* Sign-ins.                                                                *)

(* RateLimiter::check, then the hash.                                       *)
Check(slot, ip, name) ==
  /\ flight[slot] = None
  /\ ~Blocked(ips, ip, now) /\ ~Blocked(names, name, now)
  /\ flight' = [flight EXCEPT ![slot] = [ip |-> ip, name |-> name, at |-> now]]
  /\ tries' = [tries EXCEPT ![name] = @ + 1]
  /\ Called
  /\ UNCHANGED <<ips, names, since, overrun, store, coalescer, now>>

RecordFailure(slot) ==
  /\ flight[slot] # None
  /\ LET it == flight[slot] IN
       /\ ips' \in Fail(ips, it.ip, it.at)
       /\ names' \in Fail(names, it.name, it.at)
       /\ overrun' = (overrun \/ Crowd(names, it.at))
  /\ flight' = [flight EXCEPT ![slot] = None]
  /\ UNCHANGED <<tries, since, store, coalescer, now, calls>>

RecordSuccess(slot) ==
  /\ flight[slot] # None
  /\ LET it == flight[slot]
         others == {s \in Slots \ {slot} : flight[s] # None /\ flight[s].name = it.name}
     IN  /\ ips' = Clear(ips, it.ip)
         /\ names' = Clear(names, it.name)
         /\ tries' = [tries EXCEPT ![it.name] = Cardinality(others)]
         /\ since' = [since EXCEPT ![it.name] = Min({now} \cup {flight[s].at : s \in others})]
  /\ flight' = [flight EXCEPT ![slot] = None]
  /\ UNCHANGED <<overrun, store, coalescer, now, calls>>

(* The handler was dropped at its await, by the request timeout or with its *)
(* connection: the hash keeps its permit to its end, and nothing is counted.*)
(* A guess nobody is told the result of is none.                            *)
Dropped(slot) ==
  /\ flight[slot] # None
  /\ flight' = [flight EXCEPT ![slot] = None]
  /\ tries' = [tries EXCEPT ![flight[slot].name] = @ - 1]
  /\ UNCHANGED <<ips, names, since, overrun, store, coalescer, now, calls>>

(* RateLimiter::sweep, by the sweeper.                                      *)
SweepLimiter ==
  /\ ips' = SweepBuckets(ips, now)
  /\ names' = SweepBuckets(names, now)
  /\ UNCHANGED <<flight, tries, since, overrun, store, coalescer, now, calls>>

----------------------------------------------------------------------------
(* Tokens.                                                                  *)

(* TokenStore::refresh: the tokens as the file has them.  A change between  *)
(* its fingerprint and its read only makes it read once more.               *)
Current_Cached == IF fresh THEN file ELSE mem
Current == IF fresh THEN mem ELSE file

Lapsed(table, t, at) == table[t].expires # 0 /\ at >= table[t].expires

(* AuthState::record_rejected.                                              *)
RecordRejected(ip) ==
  \E a \in Admit(clients, ip, now) :
    /\ clients' = a.table
    /\ rejected' = [rejected EXCEPT ![ip] = @ + 1]
    /\ reported' = [reported EXCEPT ![ip] = IF a.logged THEN @ + 1 + a.held ELSE @]

(* Caller::resolve_from with a bearer token: authenticate, then admit_token.*)
(* The mutex of the store is taken: no handler is inside mutate.            *)
Bearer(t, ip) ==
  /\ worker = None
  /\ mem' = Current /\ fresh' = TRUE
  /\ IF Current[t] = None \/ Lapsed(Current, t, now)
     THEN RecordRejected(ip) /\ UNCHANGED <<budgets, served, crowded>>
     ELSE /\ \E c \in TokenCheck(budgets, t, now) :
               /\ budgets' = c.table
               /\ served' = [served EXCEPT ![t] = IF c.allowed THEN @ + 1 ELSE @]
          /\ crowded' = (crowded \/ (budgets[t] = None /\ Full(budgets, now)))
          /\ UNCHANGED coalescer
  /\ Called
  /\ UNCHANGED <<limiter, now, file, worker, cli, due, gone, crossed>>

(* The changes: issue, revoke and the retain of sweep_expired, each as the  *)
(* table it makes of the one it read.  A token is never issued again: its   *)
(* value is random.                                                         *)
Issue(table, t, expires) ==
  IF table[t] = None /\ served[t] = 0 /\ t \notin gone
     /\ Cardinality(Tracked(table)) < MaxTokens
  THEN {[table EXCEPT ![t] = [expires |-> expires]]} ELSE {}

Revoke(table, t) ==
  IF table[t] = None THEN {} ELSE {[table EXCEPT ![t] = None]}

Retain(table) == Without(table, {t \in Tracked(table) : Lapsed(table, t, now)})

Changes(table) ==
  (UNION {Issue(table, t, expires) : t \in Tokens, expires \in {0} \cup {d \in Deadlines : d > now}})
    \cup (UNION {Revoke(table, t) : t \in Tokens})

(* sweep_expired looks for a token past its deadline, then calls mutate.    *)
SweepLooks ==
  /\ worker = None /\ ~due
  /\ mem' = Current /\ fresh' = TRUE
  /\ due' = (\E t \in Tracked(Current) : Lapsed(Current, t, now))
  /\ UNCHANGED <<limiter, coalescer, file, worker, cli, gone, crossed, budgets, served, crowded, now, calls>>

(* mutate in the worker, up to its write: what the file has, and the change *)
(* of a handler or of the sweeper.                                          *)
Mutate ==
  /\ worker = None
  /\ mem' = Current /\ fresh' = TRUE
  /\ \/ /\ \E to \in Changes(mem') : worker' = [to |-> to, step |-> "write"]
        /\ Called /\ UNCHANGED due
     \/ /\ due /\ due' = FALSE
        /\ worker' = [to |-> Retain(mem'), step |-> "write"]
        /\ UNCHANGED calls
  /\ UNCHANGED <<limiter, coalescer, file, cli, gone, crossed, budgets, served, crowded, now>>

(* The tokens one process had read and leaves out of what it writes.        *)
Dropping(read, to) == {t \in Tokens : read[t] # None /\ to[t] = None}

(* write_credential_file and the new cache.                                 *)
MutateWrites ==
  /\ worker # None /\ worker.step = "write"
  /\ file' = worker.to /\ mem' = worker.to /\ fresh' = FALSE
  /\ worker' = [to |-> worker.to, step |-> "print"]
  /\ gone' = gone \cup Dropping(mem, worker.to)
  /\ crossed' = (crossed \/ cli # None)
  /\ UNCHANGED <<limiter, coalescer, cli, due, budgets, served, crowded, now, calls>>

(* current_fingerprint: of whatever the file is by now.                     *)
MutatePrints ==
  /\ worker # None /\ worker.step = "print"
  /\ fresh' = TRUE /\ worker' = None
  /\ UNCHANGED <<limiter, coalescer, file, mem, cli, due, gone, crossed, budgets, served, crowded, now, calls>>

(* The write fails, before or after its rename, or the fingerprint does:    *)
(* the old one stays, so that the next refresh reads the file.              *)
MutateFails ==
  /\ worker # None /\ worker' = None
  /\ \/ UNCHANGED <<file, fresh, crossed>>
     \/ /\ worker.step = "write"
        /\ file' = worker.to /\ fresh' = FALSE
        /\ crossed' = (crossed \/ cli # None)
  /\ UNCHANGED <<limiter, coalescer, mem, cli, due, gone, budgets, served, crowded, now, calls>>

(* `detent token`: a store of its own, read, changed and written.           *)
CliReads ==
  /\ cli = None
  /\ \E to \in Changes(file) : cli' = [read |-> file, to |-> to]
  /\ Called
  /\ UNCHANGED <<limiter, coalescer, file, mem, fresh, worker, due, gone, crossed, budgets, served, crowded, now>>

CliWrites ==
  /\ cli # None /\ cli' = None
  /\ file' = cli.to /\ fresh' = FALSE
  /\ gone' = gone \cup Dropping(cli.read, cli.to)
  /\ crossed' = (crossed \/ worker # None)
  /\ UNCHANGED <<limiter, coalescer, mem, worker, due, budgets, served, crowded, now, calls>>

(* The command fails or is killed, before or after the rename.              *)
CliFails ==
  /\ cli # None /\ cli' = None
  /\ \/ UNCHANGED <<file, fresh, crossed>>
     \/ /\ file' = cli.to /\ fresh' = FALSE
        /\ crossed' = (crossed \/ worker # None)
  /\ UNCHANGED <<limiter, coalescer, mem, worker, due, gone, budgets, served, crowded, now, calls>>

Tick ==
  /\ now < MaxTime
  /\ now' = now + 1
  /\ UNCHANGED <<limiter, store, coalescer, calls>>

----------------------------------------------------------------------------
Init ==
  /\ ips = Empty(Ips) /\ names = Empty(Names) /\ flight = Empty(Slots)
  /\ file = Empty(Tokens) /\ mem = file /\ fresh = TRUE
  /\ worker = None /\ cli = None /\ due = FALSE
  /\ budgets = Empty(Tokens) /\ clients = Empty(Ips)
  /\ now = 1 /\ calls = 0
  /\ tries = Zero(Names) /\ since = [n \in Names |-> 1]
  /\ overrun = FALSE /\ gone = {} /\ crossed = FALSE
  /\ served = Zero(Tokens) /\ crowded = FALSE /\ rejected = Zero(Ips) /\ reported = Zero(Ips)

Next ==
  \/ \E s \in Slots, ip \in Ips, n \in Names : Check(s, ip, n)
  \/ \E s \in Slots : RecordFailure(s) \/ RecordSuccess(s) \/ Dropped(s)
  \/ SweepLimiter
  \/ \E t \in Tokens, ip \in Ips : Bearer(t, ip)
  \/ SweepLooks \/ Mutate \/ MutateWrites \/ MutatePrints \/ MutateFails
  \/ CliReads \/ CliWrites \/ CliFails
  \/ Tick

Spec == Init /\ [][Next]_vars

----------------------------------------------------------------------------
(* Properties.                                                              *)

(* However many addresses the attempts come from and however their hashes   *)
(* overlap, the guesses at one name that get an answer stay below the       *)
(* allowance: the failures before the lockout, and for each tick since the  *)
(* last success the attempts that fit in flight.  This holds until a        *)
(* failure finds the table of names full, of MAX_TRACKED names that failed  *)
(* within BUCKET_TTL: then one of them must go, and its count with it       *)
(* (check, record_failure, make_room).                                      *)
GuessesBounded ==
  ~overrun => \A n \in Names :
    tries[n] <= MaxFailures - 1 + Cardinality(Slots) * (1 + now - since[n])

(* A token never gets more than its burst and what has dripped in since:    *)
(* refused requests cost it nothing, and neither a revocation nor the room  *)
(* made for other tokens refills it.  This holds until a request finds the  *)
(* table full of buckets that drain, those of revoked tokens beyond         *)
(* TRACKED_MARGIN among them: then one must go, and its token starts anew   *)
(* (TokenLimiter::check, make_room).                                        *)
TokenBudgetHolds ==
  ~crowded => \A t \in Tokens : served[t] <= Burst + (now - 1) \div Interval

(* A token that was revoked is never accepted again and one past its        *)
(* deadline is not accepted, from the next request on and whichever process *)
(* revoked it: neither the cache nor the next change, of a handler, of the  *)
(* sweeper or of the command line, brings it back.  This holds until a      *)
(* process writes the file while the other is between its read and its      *)
(* fingerprint: no lock keeps the two apart, and the later write, or the    *)
(* cache under a fingerprint that is not its own, brings back what the      *)
(* other dropped (authenticate, refresh_locked, mutate).                    *)
TokenEndsAtOnce ==
  [][~crossed => \A t \in Tokens : served'[t] > served[t] =>
       /\ t \notin gone
       /\ file[t] # None /\ (file[t].expires = 0 \/ now < file[t].expires)]_vars

(* While no more addresses come than the table holds, the audit log and the *)
(* counts held back for it account for every rejected credential            *)
(* (Coalescer::admit, record_rejected).                                     *)
RejectionsAccounted ==
  Cardinality({ip \in Ips : rejected[ip] > 0}) <= MaxTracked =>
    \A ip \in Ips :
      rejected[ip] = reported[ip] + (IF clients[ip] = None THEN 0 ELSE clients[ip].suppressed)
=============================================================================
