------------------------------ MODULE WebAuth ------------------------------
(***************************************************************************)
(* Accounts and sessions of the web front end: the user store              *)
(* (auth/users.rs), the session store (auth/session.rs) and the handlers   *)
(* of auth/routes.rs, enrolment.rs, stepup.rs and sessions.rs, with the    *)
(* `detent user` command editing users.json from another process.          *)
(*                                                                         *)
(* The runtime has one thread, so a handler is atomic between two awaits;  *)
(* what it hands to spawn_blocking runs beside it and locks the stores one *)
(* call at a time.  The request timeout drops a handler at an await, but   *)
(* not the blocking closure it waits for.                                  *)
(*                                                                         *)
(* A password is the number of the call that set it, a TOTP key the number *)
(* of its enrolment, a code its counter.  What the rate limiter refuses is *)
(* Refuse here and WebLimits there.                                        *)
(***************************************************************************)
EXTENDS Naturals, FiniteSets

CONSTANTS
  None,
  Users,        \* account names
  Reqs,         \* requests that may be in flight
  MaxPermits,   \* MAX_CONCURRENT_ARGON2
  MaxSessions,  \* MAX_SESSIONS
  Idle, Absolute, StepTTL, PendingTTL,  \* auth.idle_timeout_secs ... in ticks
  WindowSteps,  \* WINDOW_STEPS of totp.rs
  TotpRequired, \* auth.totp_required
  WeakHash,     \* whether users.json starts with a hash of an older build
  MayTimeOut,   \* kinds of requests the request timeout may drop
  MaxCalls, MaxSids, MaxSecrets, MaxKeys, MaxTime  \* bounds

Kinds == {"login", "passwd", "enrol", "confirm", "disable", "reauth"}

ASSUME AuthAssumption ==
  /\ {MaxPermits, MaxSessions, Idle, Absolute, StepTTL, PendingTTL} \subseteq Nat \ {0}
  /\ {MaxCalls, MaxSids, MaxSecrets, MaxKeys, MaxTime} \subseteq Nat \ {0}
  /\ TotpRequired \in BOOLEAN /\ WeakHash \in BOOLEAN
  /\ MayTimeOut \subseteq Kinds
  /\ Users # {} /\ WindowSteps \in 0..1

Sids == 1..MaxSids

(* The records of users.json, of the sessions and of the requests.          *)
Creds == Nat \X (Nat \cup {None})

UserRec == [secret : Nat, weak : BOOLEAN, key : Nat \cup {None}, last : Nat, must : BOOLEAN]

PendingRec == [key : Nat, at : Nat]

Session ==
  [user : Users, totp : BOOLEAN, must : BOOLEAN, created : Nat, seen : Nat, stepped : Nat,
   pending : PendingRec \cup {None}, born : Creds \cup {None}, by : Creds \cup {None}]

Request ==
  [kind : Kinds \cup {None}, user : Users \cup {None}, sid : Sids \cup {None},
   stage : {"idle", "body", "hash", "rehash", "set", "answer"},
   totp : BOOLEAN, at : Nat, snap : UserRec \cup {None}, gone : BOOLEAN]

Enrolment == [user : Users, key : Nat, code : Nat \ {0}]

ASSUME NoneAssumption ==
  /\ None \notin Nat \cup Kinds \cup Users \cup Creds \cup UserRec \cup PendingRec \cup Session
  /\ None \notin Enrolment
  /\ None \notin Nat \X BOOLEAN \X (Nat \cup {None})

VARIABLES
  file,      \* users.json
  mem,       \* UserInner::users
  fresh,     \* UserInner::fp is the fingerprint of the file
  sessions,  \* SessionStore::entries
  reqs,      \* the requests in flight
  now,       \* the clock
  next,      \* the next session id, password, key and request
  used,      \* history: the codes accepted for an enrolled key
  reused,    \* history: one of them was accepted again
  stale,     \* history: a rehash put an older password back, or a handler stored
             \* new credentials and did not get to end the sessions
  cli        \* `detent user totp enable`, between its two writes

vars == <<file, mem, fresh, sessions, reqs, now, next, used, reused, stale, cli>>
history == <<used, reused, stale>>

NoReq == [kind |-> None, stage |-> "idle", user |-> None, sid |-> None,
          totp |-> FALSE, at |-> 0, snap |-> None, gone |-> FALSE]

NewUser(secret) == [secret |-> secret, weak |-> FALSE, key |-> None, last |-> 0, must |-> FALSE]

----------------------------------------------------------------------------
(* UserStore: refresh reads the file again and ends the sessions of the     *)
(* users whose password hash or key is another one; mutate refreshes first. *)

Credentials(rec) == IF rec = None THEN None ELSE <<rec.secret, rec.weak, rec.key>>

RevokeSubject(table, users) ==
  [s \in Sids |-> IF table[s] # None /\ table[s].user \in users THEN None ELSE table[s]]

Changed_PasswordOnly ==
  {u \in Users : mem[u] # None /\ (file[u] = None \/ file[u].secret # mem[u].secret)}
Changed == {u \in Users : mem[u] # None /\ Credentials(file[u]) # Credentials(mem[u])}

(* The sessions a refresh leaves.                                           *)
Kept == IF fresh THEN sessions ELSE RevokeSubject(sessions, Changed)

Refresh == mem' = file /\ fresh' = TRUE /\ UNCHANGED file

Write(u, rec) ==
  /\ file' = [file EXCEPT ![u] = rec]
  /\ mem' = file'
  /\ fresh' = TRUE

----------------------------------------------------------------------------
(* SessionStore.                                                            *)

Since(then, at) == IF at > then THEN at - then ELSE 0

Expired(s, at) == Since(s.seen, at) >= Idle \/ Since(s.created, at) >= Absolute

Live(table, sid, at) == sid \in Sids /\ table[sid] # None /\ ~Expired(table[sid], at)

Drop(table, sid) == [table EXCEPT ![sid] = None]

Evicted(table, at) ==
  [s \in Sids |-> IF table[s] # None /\ Expired(table[s], at) THEN None ELSE table[s]]

(* What a change of the credentials is: another password or another key.    *)
Known(rec) == IF rec = None THEN None ELSE <<rec.secret, rec.key>>

NewSession(u, totp, created, at, known) ==
  [user |-> u, totp |-> totp, must |-> FALSE, created |-> created, seen |-> at,
   stepped |-> 0, pending |-> None, born |-> known, by |-> None]

(* create: the table with the new session, or without it at the limit.      *)
Create(table, u, totp, at, known) ==
  LET room == Evicted(table, at) IN
    IF Cardinality({s \in Sids : room[s] # None}) >= MaxSessions THEN room
    ELSE [room EXCEPT ![next.sid] = NewSession(u, totp, at, at, known)]

(* attempt: rotate the session presented, else create one.                  *)
SignIn(table, sid, u, totp, at, known) ==
  LET rest == IF sid = None THEN table ELSE Drop(table, sid) IN
    IF Live(table, sid, at) /\ table[sid].user = u
    THEN [rest EXCEPT ![next.sid] = NewSession(u, totp, table[sid].created, at, known)]
    ELSE Create(rest, u, totp, at, known)

Restrict(table, sid) ==
  IF table[sid] = None THEN table ELSE [table EXCEPT ![sid].must = TRUE]

StepUp_Subject(table, sid, at, known) ==
  [s \in Sids |-> IF table[s] = None THEN None
                  ELSE [table[s] EXCEPT !.stepped = at, !.by = known]]
StepUp(table, sid, at, known) ==
  IF table[sid] = None THEN table
  ELSE IF Expired(table[sid], at) THEN Drop(table, sid)
  ELSE [table EXCEPT ![sid].stepped = at, ![sid].by = known]

SetPending(table, sid, key, at) ==
  IF table[sid] = None THEN table
  ELSE [table EXCEPT ![sid].pending = [key |-> key, at |-> at]]

PendingKey(table, sid, at) ==
  IF table[sid] = None \/ table[sid].pending = None THEN None
  ELSE IF Since(table[sid].pending.at, at) >= PendingTTL THEN None
  ELSE table[sid].pending.key

----------------------------------------------------------------------------
(* TotpSecret::check: the counters of the steps around now.                 *)

Codes(last) == {c \in (now - WindowSteps)..(now + WindowSteps) : c > last}

(* note_totp_counter: whether the code is still the newest of the account.  *)
Noted_Trusting(u, c) == file[u] # None /\ c > 0
Noted(u, c) == file[u] # None /\ c > file[u].last

WithCounter(rec, c) == [rec EXCEPT !.last = c]

(* History of an accepted code, when its key is the enrolled one.           *)
Spend(u, key, c) ==
  IF file[u] # None /\ file[u].key = key
  THEN used' = used \cup {<<key, c>>} /\ reused' = (reused \/ <<key, c>> \in used)
  ELSE UNCHANGED <<used, reused>>

(* check_totp: the answers the caller may give, 0 for no code.              *)
Factors(snap) ==
  IF snap.key = None THEN IF TotpRequired THEN {} ELSE {0}
  ELSE Codes(snap.last)

----------------------------------------------------------------------------
(* Requests.                                                                *)

End(r) == reqs' = [reqs EXCEPT ![r] = NoReq]

(* The bound on requests and commands.                                      *)
Counted == next.call <= MaxCalls /\ next' = [next EXCEPT !.call = @ + 1]

Hashing == {r \in Reqs : reqs[r].stage \in {"hash", "rehash", "set"}}

(* The request goes on; one that was dropped ends with its closure.         *)
Advance(r, q, stage) ==
  reqs' = [reqs EXCEPT ![r] = IF q.gone /\ stage = "answer" THEN NoReq
                              ELSE [q EXCEPT !.stage = stage]]

(* Caller::resolve: the table with the session touched or removed.          *)
Touch(sid) ==
  IF Live(Kept, sid, now) THEN [Kept EXCEPT ![sid].seen = now] ELSE Drop(Kept, sid)

(* Caller and WriteCaller refuse a restricted session, PendingCaller does   *)
(* not.                                                                     *)
RequireUnrestricted_Off(s, pending) == s.must \in BOOLEAN
RequireUnrestricted(s, pending) == s.must => pending

(* A handler behind WriteCaller or PendingCaller, up to its body.           *)
Resolve(r, kind, sid) ==
  /\ reqs[r].stage = "idle"
  /\ kind # "login" /\ sid < next.sid
  /\ Refresh
  /\ sessions' = Touch(sid)
  /\ IF Live(Kept, sid, now) /\ RequireUnrestricted(Kept[sid], kind = "passwd")
     THEN reqs' = [reqs EXCEPT ![r] =
            [NoReq EXCEPT !.kind = kind, !.stage = "body", !.user = Kept[sid].user,
                          !.sid = sid, !.totp = Kept[sid].totp]]
     ELSE UNCHANGED reqs
  /\ Counted
  /\ UNCHANGED <<now, history>>

(* A handler without a body: logout, an end of one session or of the others,*)
(* or any read.                                                             *)
Ends(sid, kind, other) ==
  LET u == Kept[sid].user
      doomed == CASE kind = "logout" -> {sid}
                  [] kind = "revoke" -> {other}
                  [] kind = "revoke_others" -> Sids \ {sid}
                  [] kind = "read" -> {}
  IN  {s \in doomed : Kept[s] # None /\ Kept[s].user = u}

Immediate(sid, kind, other) ==
  /\ sid < next.sid
  /\ Refresh
  /\ LET admitted == Live(Kept, sid, now) /\ RequireUnrestricted(Kept[sid], kind = "logout") IN
       sessions' = [s \in Sids |->
         IF admitted /\ s \in Ends(sid, kind, other) THEN None ELSE Touch(sid)[s]]
  /\ UNCHANGED <<reqs, now, next, history>>

(* The head of a handler that verifies a password: it takes a permit, or    *)
(* answers Busy.  A login presents whatever cookie the browser holds.       *)
Begin(r, kind, u, sid) ==
  /\ kind # "confirm"
  /\ \/ /\ kind = "login" /\ reqs[r].stage = "idle"
        /\ sid \in {None} \cup {s \in Sids : s < next.sid}
        /\ Counted
     \/ /\ reqs[r].stage = "body" /\ reqs[r].kind = kind
        /\ UNCHANGED next
        /\ sid = reqs[r].sid /\ u = reqs[r].user
        /\ kind = "disable" => ~TotpRequired
  /\ IF Cardinality(Hashing) < MaxPermits
     THEN reqs' = [reqs EXCEPT ![r] = [@ EXCEPT !.kind = kind, !.stage = "hash", !.user = u,
                                                !.sid = sid, !.at = now]]
     ELSE End(r)
  /\ UNCHANGED <<file, mem, fresh, sessions, now, history>>

(* A body that does not parse, a field past its limit, a locked-out         *)
(* principal, TotpRequired; or a code that is wrong or replayed.            *)
Refuse(r) ==
  /\ \/ reqs[r].stage = "body"
     \/ /\ reqs[r].stage = "answer" /\ reqs[r].kind \in {"login", "disable", "reauth"}
        /\ reqs[r].snap.key # None \/ Factors(reqs[r].snap) = {}
  /\ End(r)
  /\ UNCHANGED <<file, mem, fresh, sessions, now, next, history>>

(* TimeoutLayer, or a connection that closes.                               *)
Timeout(r) ==
  /\ reqs[r].stage # "idle" /\ reqs[r].kind \in MayTimeOut /\ ~reqs[r].gone
  /\ IF r \in Hashing THEN reqs' = [reqs EXCEPT ![r].gone = TRUE] ELSE End(r)
  /\ stale' = (stale \/ (reqs[r].kind = "passwd" /\ reqs[r].stage = "answer"))
  /\ UNCHANGED <<file, mem, fresh, sessions, now, next, used, reused>>

(* verify_password, up to the rehash; a password change goes on to set the  *)
(* new one in the same closure.                                             *)
AfterVerify(q) == IF q.kind = "passwd" THEN "set" ELSE "answer"

Verify(r, right) ==
  /\ reqs[r].stage = "hash"
  /\ Refresh
  /\ sessions' = Kept
  /\ LET rec == file[reqs[r].user]
         q == [reqs[r] EXCEPT !.snap = rec]
     IN  IF rec = None \/ ~right THEN End(r)
         ELSE Advance(r, q, IF rec.weak THEN "rehash" ELSE AfterVerify(q))
  /\ UNCHANGED <<now, next, history>>

(* verify_password: store a hash of the verified password made with the     *)
(* parameters of this build.                                                *)
Rehash(r) ==
  LET q == reqs[r]
      rec == file[q.user]
  IN
  /\ q.stage = "rehash"
  /\ sessions' = Kept
  /\ IF rec = None THEN Refresh /\ End(r) /\ UNCHANGED stale
     ELSE /\ Write(q.user, [rec EXCEPT !.secret = q.snap.secret, !.weak = FALSE])
          /\ Advance(r, q, AfterVerify(q))
          /\ stale' = (stale \/ rec.secret # q.snap.secret)
  /\ UNCHANGED <<now, next, used, reused>>

(* set_password, in the closure of replace_password.                        *)
SetPassword(r) ==
  LET q == reqs[r]
      rec == file[q.user]
  IN
  /\ q.stage = "set" /\ next.secret <= MaxSecrets
  /\ sessions' = Kept
  /\ IF rec = None THEN Refresh /\ End(r) /\ UNCHANGED <<next, stale>>
     ELSE /\ Write(q.user, [rec EXCEPT !.secret = next.secret, !.weak = FALSE, !.must = FALSE])
          /\ Advance(r, q, "answer")
          /\ next' = [next EXCEPT !.secret = @ + 1]
          /\ stale' = (stale \/ q.gone)
  /\ UNCHANGED <<now, used, reused>>

----------------------------------------------------------------------------
(* The handlers after the closure.                                          *)

NewSid == next.sid <= MaxSids /\ next' = [next EXCEPT !.sid = @ + 1]

(* What recording a code leaves: the store refreshes before it writes.      *)
SessionsAfter(c) == IF c = 0 THEN sessions ELSE Kept
UsersAfter(c) == IF c = 0 THEN mem ELSE file

(* Record the code a request presents, if there is one; then go on with     *)
(* what that leaves, or end the request.                                    *)
Accept(r, c, then) ==
  LET q == reqs[r] IN
    \/ /\ c = 0
       /\ then
       /\ UNCHANGED <<file, mem, fresh, history>>
    \/ /\ c # 0 /\ Noted(q.user, c)
       /\ then
       /\ Write(q.user, WithCounter(file[q.user], c))
       /\ Spend(q.user, q.snap.key, c)
       /\ UNCHANGED stale
    \/ /\ c # 0 /\ ~Noted(q.user, c)
       /\ sessions' = Kept
       /\ Refresh
       /\ UNCHANGED <<next, history>>

(* attempt, after verify_password.                                          *)
Login(r, c) ==
  LET q == reqs[r]
      in == SignIn(SessionsAfter(c), q.sid, q.user, c # 0, q.at,
                   Known(UsersAfter(c)[q.user]))
      then == NewSid /\ sessions' = IF q.snap.must THEN Restrict(in, next.sid) ELSE in
  IN
  /\ q.stage = "answer" /\ q.kind = "login" /\ c \in Factors(q.snap)
  /\ Accept(r, c, then)
  /\ End(r)
  /\ UNCHANGED now

(* replace_password, after set_password.                                    *)
ReplacePassword(r) ==
  LET q == reqs[r] IN
  /\ q.stage = "answer" /\ q.kind = "passwd"
  /\ NewSid
  /\ sessions' = Create(RevokeSubject(sessions, {q.user}), q.user, q.totp, q.at,
                        Known(mem[q.user]))
  /\ End(r)
  /\ UNCHANGED <<file, mem, fresh, now, history>>

(* reauth, after verify_password.                                           *)
Reauth(r, c) ==
  LET q == reqs[r]
      then == sessions' = StepUp(SessionsAfter(c), q.sid, q.at, Known(q.snap)) /\ UNCHANGED next
  IN
  /\ q.stage = "answer" /\ q.kind = "reauth" /\ c \in Factors(q.snap)
  /\ Accept(r, c, then)
  /\ End(r)
  /\ UNCHANGED now

(* start_enrolment, after verify_current.                                   *)
Enrol(r) ==
  LET q == reqs[r] IN
  /\ q.stage = "answer" /\ q.kind = "enrol"
  /\ IF q.snap.key # None THEN UNCHANGED <<sessions, next>>
     ELSE /\ next.key <= MaxKeys
          /\ sessions' = SetPending(sessions, q.sid, next.key, q.at)
          /\ next' = [next EXCEPT !.key = @ + 1]
  /\ End(r)
  /\ UNCHANGED <<file, mem, fresh, now, history>>

(* A write of users.json that fails before its rename leaves the file; the  *)
(* request ends.                                                            *)
WriteFails(r) ==
  LET q == reqs[r] IN
  /\ \/ q.stage \in {"rehash", "set"}
     \/ /\ q.stage = "answer" /\ q.kind \in {"login", "reauth", "disable"}
        /\ q.snap.key # None
  /\ Refresh /\ sessions' = Kept
  /\ End(r)
  /\ UNCHANGED <<now, next, history>>

(* One that fails after it leaves the new file under the old cache, and the *)
(* next refresh finds out.                                                  *)
Lands(u, rec) == file' = [file EXCEPT ![u] = rec] /\ fresh' = FALSE

WriteLands(r) ==
  LET q == reqs[r]
      rec == file[q.user]
  IN
  /\ q.stage \in {"rehash", "set", "answer"} /\ rec # None
  /\ \/ /\ q.stage = "rehash"
        /\ Lands(q.user, [rec EXCEPT !.secret = q.snap.secret, !.weak = FALSE])
        /\ stale' = (stale \/ rec.secret # q.snap.secret) /\ UNCHANGED next
     \/ /\ q.stage = "set" /\ next.secret <= MaxSecrets
        /\ Lands(q.user, [rec EXCEPT !.secret = next.secret, !.weak = FALSE, !.must = FALSE])
        /\ next' = [next EXCEPT !.secret = @ + 1] /\ UNCHANGED stale
     \/ /\ q.stage = "answer" /\ q.kind \in {"login", "reauth", "disable"}
        /\ q.snap.key # None
        /\ \E c \in Codes(q.snap.last) :
             Noted(q.user, c) /\ Lands(q.user, WithCounter(rec, c))
        /\ UNCHANGED <<next, stale>>
  /\ mem' = file /\ sessions' = Kept
  /\ End(r)
  /\ UNCHANGED <<now, used, reused>>

(* confirm_enrolment: no await.  The code is one of the pending key, which  *)
(* is taken; the key is stored, then the counter, and then the sessions     *)
(* end.  Either write may fail, before or after its rename: once the first  *)
(* is done and the second fails, the key is in force, no new session takes  *)
(* the code, and every older session stays.                                 *)
Confirm(r, c) ==
  LET q == reqs[r]
      rec == file[q.user]
      key == PendingKey(Kept, q.sid, now)
  IN
  /\ q.stage = "body" /\ q.kind = "confirm" /\ c \in Codes(0)
  /\ IF (rec # None /\ rec.key # None) \/ key = None
     THEN Refresh /\ sessions' = Kept /\ UNCHANGED <<next, history>>
     ELSE \/ /\ Refresh /\ UNCHANGED <<next, history>>
             /\ sessions' = [Kept EXCEPT ![q.sid].pending = None]
          \/ /\ rec # None
             /\ Lands(q.user, [rec EXCEPT !.key = key, !.last = 0]) /\ mem' = file
             /\ sessions' = [Kept EXCEPT ![q.sid].pending = None]
             /\ UNCHANGED <<next, history>>
          \/ /\ rec # None
             /\ \E last \in {0, c} : Write(q.user, [rec EXCEPT !.key = key, !.last = last])
             /\ sessions' = [Kept EXCEPT ![q.sid].pending = None]
             /\ stale' = TRUE /\ UNCHANGED <<next, used, reused>>
          \/ LET enrolled == [rec EXCEPT !.key = key, !.last = c] IN
             /\ rec # None /\ NewSid
             /\ Write(q.user, enrolled)
             /\ sessions' = Create(RevokeSubject(Kept, {q.user}), q.user, TRUE, now,
                                   Known(enrolled))
             /\ used' = used \cup {<<key, c>>} /\ UNCHANGED <<reused, stale>>
  /\ End(r)
  /\ UNCHANGED now

(* turn_off, after verify_current: the counter, then the key, which a write *)
(* that fails leaves in force, or clears under the old cache.               *)
Disable(r, c) ==
  LET q == reqs[r]
      rec == file[q.user]
  IN
  /\ q.stage = "answer" /\ q.kind = "disable"
  /\ IF q.snap.key = None
     THEN c = 0 /\ UNCHANGED <<file, mem, fresh, sessions, next, history>>
     ELSE /\ c \in Codes(q.snap.last)
          /\ IF ~Noted(q.user, c)
             THEN Refresh /\ sessions' = Kept /\ UNCHANGED <<next, history>>
             ELSE LET off == [rec EXCEPT !.key = None, !.last = 0] IN
                  /\ \/ /\ Write(q.user, WithCounter(rec, c))
                        /\ sessions' = Kept /\ UNCHANGED next
                     \/ /\ Lands(q.user, off)
                        /\ mem' = [file EXCEPT ![q.user] = WithCounter(rec, c)]
                        /\ sessions' = Kept /\ UNCHANGED next
                     \/ /\ NewSid
                        /\ Write(q.user, off)
                        /\ sessions' = Create(RevokeSubject(Kept, {q.user}), q.user, FALSE,
                                              q.at, Known(off))
                  /\ Spend(q.user, q.snap.key, c)
                  /\ UNCHANGED stale
  /\ End(r)
  /\ UNCHANGED now

----------------------------------------------------------------------------
(* `detent user` and `detent setup`, another process: the file is replaced, *)
(* and its fingerprint is another one.                                      *)

CommandLine(u, rec, secret, key) ==
  /\ file' = [file EXCEPT ![u] = rec]
  /\ fresh' = FALSE
  /\ next' = [next EXCEPT !.secret = @ + secret, !.key = @ + key, !.call = @ + 1]
  /\ next.secret + secret <= MaxSecrets + 1 /\ next.key + key <= MaxKeys + 1
  /\ next.call <= MaxCalls
  /\ UNCHANGED <<mem, sessions, reqs, now, reused, stale>>

UserAdd(u) == file[u] = None /\ CommandLine(u, NewUser(next.secret), 1, 0) /\ UNCHANGED used

UserPasswd(u) ==
  /\ file[u] # None
  /\ CommandLine(u, [file[u] EXCEPT !.secret = next.secret, !.weak = FALSE, !.must = FALSE], 1, 0)
  /\ UNCHANGED used

UserRemove(u) == file[u] # None /\ CommandLine(u, None, 0, 0) /\ UNCHANGED used

(* totp_enable: the key, and in a second write the counter of the code that *)
(* proved it, which a login with that code may have come before; the second *)
(* write may fail, or never be made.                                        *)
TotpEnable(u, c) ==
  /\ cli = None /\ file[u] # None /\ c \in Codes(0)
  /\ CommandLine(u, [file[u] EXCEPT !.key = next.key, !.last = 0], 0, 1)
  /\ cli' = [user |-> u, key |-> next.key, code |-> c]
  /\ UNCHANGED used

TotpNote ==
  /\ cli # None /\ cli' = None
  /\ \/ /\ Noted(cli.user, cli.code)
        /\ file' = [file EXCEPT ![cli.user] = WithCounter(@, cli.code)] /\ fresh' = FALSE
        /\ Spend(cli.user, cli.key, cli.code)
     \/ UNCHANGED <<file, fresh, used, reused>>
  /\ UNCHANGED <<mem, sessions, reqs, now, next, stale>>

TotpDisable(u) ==
  /\ file[u] # None
  /\ CommandLine(u, [file[u] EXCEPT !.key = None, !.last = 0], 0, 0)
  /\ UNCHANGED used

(* spawn_sweeper, and the eviction in SessionStore::list.                   *)
Sweep ==
  /\ sessions' = Evicted(sessions, now)
  /\ UNCHANGED <<file, mem, fresh, reqs, now, next, history>>

Tick ==
  /\ now < MaxTime
  /\ now' = now + 1
  /\ UNCHANGED <<file, mem, fresh, sessions, reqs, next, history>>

----------------------------------------------------------------------------
Init ==
  /\ file \in [Users -> {[secret |-> 0, weak |-> WeakHash, key |-> None, last |-> 0, must |-> m] :
                         m \in BOOLEAN}]
  /\ mem = file /\ fresh = TRUE
  /\ sessions = [s \in Sids |-> None]
  /\ reqs = [r \in Reqs |-> NoReq]
  /\ now = 2
  /\ next = [sid |-> 1, secret |-> 1, key |-> 1, call |-> 1]
  /\ used = {} /\ reused = FALSE /\ stale = FALSE /\ cli = None

Handled ==
  \/ \E r \in Reqs, kind \in Kinds, sid \in Sids : Resolve(r, kind, sid)
  \/ \E sid, other \in Sids, kind \in {"logout", "revoke", "revoke_others", "read"} :
       Immediate(sid, kind, other)
  \/ \E r \in Reqs, kind \in Kinds, u \in Users, sid \in Sids \cup {None} : Begin(r, kind, u, sid)
  \/ \E r \in Reqs : Refuse(r) \/ Timeout(r) \/ WriteFails(r) \/ WriteLands(r)
  \/ \E r \in Reqs, right \in BOOLEAN : Verify(r, right)
  \/ \E r \in Reqs : Rehash(r) \/ SetPassword(r) \/ ReplacePassword(r) \/ Enrol(r)
  \/ \E r \in Reqs, c \in 0..(MaxTime + WindowSteps) :
       Login(r, c) \/ Reauth(r, c) \/ Confirm(r, c) \/ Disable(r, c)

Next ==
  \/ /\ UNCHANGED cli
     /\ \/ Handled \/ Sweep \/ Tick
        \/ \E u \in Users :
             UserAdd(u) \/ UserPasswd(u) \/ UserRemove(u) \/ TotpDisable(u)
  \/ \E u \in Users, c \in 0..(MaxTime + WindowSteps) : TotpEnable(u, c)
  \/ TotpNote

Spec == Init /\ [][Next]_vars

----------------------------------------------------------------------------
(* Properties.                                                              *)

(* The file is the one in memory, no password change stands between its two *)
(* halves or ended there, no enrolment stored its key alone, and no rehash  *)
(* has put an older password back.                                          *)
Settled(u) ==
  /\ fresh /\ ~stale
  /\ ~\E r \in Reqs : reqs[r].kind = "passwd" /\ reqs[r].stage = "answer" /\ reqs[r].user = u

(* A session outlives no change of its user's password or second factor,    *)
(* whether a request of any session made it or the command line did         *)
(* (replace_password, renew_session, refresh): once the change is seen and  *)
(* its request is past it, every live session was opened after it (but for  *)
(* one a login in flight opened for an account removed meanwhile).          *)
OldSessionsEnd ==
  \A s \in Sids :
    sessions[s] # None /\ sessions[s].born # None /\ Settled(sessions[s].user) =>
      sessions[s].born = Known(mem[sessions[s].user])

(* A step-up rests on the credentials in force: one that verified a         *)
(* password since replaced, or a key since cleared, is gone with its        *)
(* session, even when the answer of the hash arrives after the change       *)
(* (reauth, step_up).                                                       *)
StepUpCurrent ==
  \A s \in Sids :
    sessions[s] # None /\ sessions[s].stepped # 0 /\ Settled(sessions[s].user) =>
      sessions[s].by = Known(mem[sessions[s].user])

(* A code opens one door: however logins, step-ups, confirmations and       *)
(* changes of the password interleave, a code is accepted at most once      *)
(* while its key is enrolled (check_totp, note_totp_counter).               *)
CodeOnceWhileEnrolled == ~reused

(* While an account owes a password change, every one of its sessions is    *)
(* restricted to that change: a login, a rotation of an older session and a *)
(* login that races the change leave none that may do more (attempt).       *)
OwingIsRestricted ==
  \A s \in Sids :
    (sessions[s] # None /\ mem[sessions[s].user] # None /\ mem[sessions[s].user].must) =>
      sessions[s].must
=============================================================================
