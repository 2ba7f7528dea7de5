--------------------------- MODULE WebAuthProofs ---------------------------
(***************************************************************************)
(* The sessions and codes of the web front end, for any number of users,   *)
(* requests and sessions, any timeouts and any of the requests dropped.    *)
(***************************************************************************)
EXTENDS WebAuth, TLAPS

----------------------------------------------------------------------------
(***************************************************************************)
(* What the operations on the session table do to the sessions it has.     *)
(***************************************************************************)

Table == [Sids -> Session \cup {None}]

(* The same session, touched or without its pending key.                    *)
Same(a, b) ==
  /\ a.user = b.user /\ a.must = b.must
  /\ a.stepped = b.stepped /\ a.by = b.by /\ a.born = b.born
  /\ a.pending = b.pending \/ a.pending = None

(* No session is new, and those that are left are the same.                 *)
Shrunk(new, old) ==
  /\ new \in Table
  /\ \A s \in Sids : new[s] # None => old[s] # None /\ Same(new[s], old[s])

LEMMA ShrunkRefl ==
  ASSUME NEW t \in Table
  PROVE  Shrunk(t, t)
  BY DEF Shrunk, Same

LEMMA ShrunkTrans ==
  ASSUME NEW a, NEW b, NEW c, Shrunk(a, b), Shrunk(b, c)
  PROVE  Shrunk(a, c)
  BY DEF Shrunk, Same

LEMMA RevokeFacts ==
  ASSUME NEW table \in Table, NEW users
  PROVE  /\ Shrunk(RevokeSubject(table, users), table)
         /\ \A s \in Sids : RevokeSubject(table, users)[s] # None =>
              table[s].user \notin users
  BY DEF RevokeSubject, Shrunk, Same, Table

LEMMA DropFacts ==
  ASSUME NEW table \in Table, NEW sid
  PROVE  Shrunk(Drop(table, sid), table)
  BY DEF Drop, Shrunk, Same, Table

LEMMA EvictedFacts ==
  ASSUME NEW table \in Table, NEW at
  PROVE  Shrunk(Evicted(table, at), table)
  BY DEF Evicted, Shrunk, Same, Table

LEMMA TouchedFacts ==
  ASSUME NEW table \in Table, NEW sid \in Sids, table[sid] # None, NEW at \in Nat
  PROVE  Shrunk([table EXCEPT ![sid].seen = at], table)
<1>1. table[sid] \in Session
  BY DEF Table
<1> DEFINE t == [table[sid] EXCEPT !.seen = at]
<1>2. t \in Session /\ Same(t, table[sid])
  BY <1>1 DEF Session, Same
<1> HIDE DEF t
<1>3. [table EXCEPT ![sid] = t] \in Table
  BY <1>2 DEF Table
<1>4. Shrunk([table EXCEPT ![sid] = t], table)
  BY <1>2, <1>3 DEF Shrunk, Same, Table
<1> QED
  BY <1>4 DEF t

LEMMA KeptFacts ==
  ASSUME sessions \in Table
  PROVE  Shrunk(Kept, sessions) /\ Kept \in Table
  BY ShrunkRefl, RevokeFacts DEF Kept, Shrunk

LEMMA TouchFacts ==
  ASSUME sessions \in Table, NEW sid \in Sids, now \in Nat
  PROVE  Shrunk(Touch(sid), Kept) /\ Touch(sid) \in Table
<1>1. Kept \in Table
  BY KeptFacts
<1>2. CASE Live(Kept, sid, now)
  BY <1>1, <1>2, TouchedFacts DEF Touch, Live, Shrunk
<1>3. CASE ~Live(Kept, sid, now)
  BY <1>1, <1>3, DropFacts DEF Touch, Shrunk
<1> QED
  BY <1>2, <1>3

(* A session that was opened: at the next id, and clean.                    *)
Clean(n, u, known) ==
  n \in Session /\ n.user = u /\ n.born = known /\ n.stepped = 0 /\ n.pending = None

Opened(new, old, u, known) ==
  /\ new \in Table
  /\ \A s \in Sids : new[s] # None =>
       \/ old[s] # None /\ Same(new[s], old[s])
       \/ s = next.sid /\ Clean(new[s], u, known)

LEMMA NewSessionFacts ==
  ASSUME NEW u \in Users, NEW totp \in BOOLEAN, NEW created \in Nat, NEW at \in Nat,
         NEW known \in Creds \cup {None}
  PROVE  Clean(NewSession(u, totp, created, at, known), u, known)
<1> DEFINE n == NewSession(u, totp, created, at, known)
<1>1. n \in Session
  BY DEF NewSession, Session
<1>2. n.user = u /\ n.born = known /\ n.stepped = 0 /\ n.pending = None
  BY DEF NewSession
<1> QED
  BY <1>1, <1>2 DEF Clean

LEMMA OpenFacts ==
  ASSUME NEW room, NEW table, Shrunk(room, table), NEW n, NEW u, NEW known, Clean(n, u, known)
  PROVE  Opened([room EXCEPT ![next.sid] = n], table, u, known)
<1>1. n \in Session
  BY DEF Clean
<1>2. [room EXCEPT ![next.sid] = n] \in Table
  BY <1>1 DEF Shrunk, Table
<1> QED
  BY <1>2 DEF Opened, Shrunk, Table

LEMMA CreateFacts ==
  ASSUME NEW table \in Table, NEW u \in Users, NEW totp \in BOOLEAN, NEW at \in Nat,
         NEW known \in Creds \cup {None}
  PROVE  Opened(Create(table, u, totp, at, known), table, u, known)
<1> DEFINE n == NewSession(u, totp, at, at, known)
           room == Evicted(table, at)
<1>1. Clean(n, u, known)
  BY NewSessionFacts
<1>2. Shrunk(room, table)
  BY EvictedFacts
<1> HIDE DEF n, room
<1>3. Opened(room, table, u, known)
  BY <1>2 DEF Opened, Shrunk
<1>4. Opened([room EXCEPT ![next.sid] = n], table, u, known)
  BY <1>1, <1>2, OpenFacts
<1> QED
  BY <1>3, <1>4 DEF Create, n, room

LEMMA SignInFacts ==
  ASSUME NEW table \in Table, NEW sid \in Sids \cup {None}, NEW u \in Users,
         NEW totp \in BOOLEAN, NEW at \in Nat, NEW known \in Creds \cup {None}
  PROVE  Opened(SignIn(table, sid, u, totp, at, known), table, u, known)
<1> DEFINE rest == IF sid = None THEN table ELSE Drop(table, sid)
<1>1. Shrunk(rest, table) /\ rest \in Table
  BY ShrunkRefl, DropFacts DEF Shrunk
<1>2. CASE Live(table, sid, at) /\ table[sid].user = u
  <2>1. table[sid].created \in Nat
    BY <1>2 DEF Live, Table, Session
  <2>2. Clean(NewSession(u, totp, table[sid].created, at, known), u, known)
    BY <2>1, NewSessionFacts
  <2> HIDE DEF rest
  <2> QED
    BY <1>1, <1>2, <2>2, OpenFacts DEF SignIn, rest
<1>3. CASE ~(Live(table, sid, at) /\ table[sid].user = u)
  <2>1. Opened(Create(rest, u, totp, at, known), rest, u, known)
    BY <1>1, CreateFacts
  <2> HIDE DEF rest
  <2>2. Opened(Create(rest, u, totp, at, known), table, u, known)
    BY <1>1, <2>1 DEF Opened, Shrunk, Same
  <2> QED
    BY <1>3, <2>2 DEF SignIn, rest
<1> QED
  BY <1>2, <1>3

LEMMA RestrictFacts ==
  ASSUME NEW table, NEW old, NEW u, NEW known, Opened(table, old, u, known),
         next.sid \in Sids, old[next.sid] = None
  PROVE  /\ Opened(Restrict(table, next.sid), old, u, known)
         /\ Restrict(table, next.sid)[next.sid] # None =>
              Restrict(table, next.sid)[next.sid].must
<1>1. CASE table[next.sid] = None
  BY <1>1 DEF Restrict
<1>2. CASE table[next.sid] # None
  <2> DEFINE n == [table[next.sid] EXCEPT !.must = TRUE]
  <2>1. Clean(table[next.sid], u, known)
    BY <1>2 DEF Opened
  <2>2. Clean(n, u, known)
    BY <2>1 DEF Clean, Session
  <2>3. n.must
    BY <2>1 DEF Clean, Session
  <2>4. n \in Session
    BY <2>2 DEF Clean
  <2> HIDE DEF n
  <2>5. [table EXCEPT ![next.sid] = n] \in Table
    BY <2>4 DEF Opened, Table
  <2>6. Opened([table EXCEPT ![next.sid] = n], old, u, known)
    BY <2>2, <2>5 DEF Opened, Table
  <2>7. [table EXCEPT ![next.sid] = n][next.sid] = n
    BY DEF Opened, Table
  <2>8. Restrict(table, next.sid) = [table EXCEPT ![next.sid] = n]
    BY <1>2 DEF Restrict, n
  <2> QED
    BY <2>3, <2>6, <2>7, <2>8
<1> QED
  BY <1>1, <1>2

(* A step-up, and a pending key, change one session in one way.             *)
SteppedUp(new, old, sid, known) ==
  /\ new \in Table
  /\ \A s \in Sids : new[s] # None =>
       /\ old[s] # None
       /\ \/ Same(new[s], old[s])
          \/ /\ s = sid /\ new[s].by = known
             /\ new[s].user = old[s].user /\ new[s].must = old[s].must
             /\ new[s].born = old[s].born /\ new[s].pending = old[s].pending

LEMMA StepUpFacts ==
  ASSUME NEW table \in Table, NEW sid \in Sids, NEW at \in Nat, NEW known \in Creds \cup {None}
  PROVE  SteppedUp(StepUp(table, sid, at, known), table, sid, known)
<1>1. CASE table[sid] = None
  BY <1>1, ShrunkRefl DEF StepUp, Shrunk, SteppedUp
<1>2. CASE table[sid] # None /\ Expired(table[sid], at)
  BY <1>2, DropFacts DEF StepUp, Shrunk, SteppedUp
<1>3. CASE table[sid] # None /\ ~Expired(table[sid], at)
  <2> DEFINE n == [table[sid] EXCEPT !.stepped = at, !.by = known]
  <2>1. table[sid] \in Session
    BY <1>3 DEF Table
  <2>2. /\ n \in Session
        /\ n.by = known /\ n.user = table[sid].user /\ n.must = table[sid].must
        /\ n.born = table[sid].born /\ n.pending = table[sid].pending
    BY <2>1 DEF Session
  <2>3. StepUp(table, sid, at, known) = [table EXCEPT ![sid] = n]
    BY <1>3 DEF StepUp
  <2> HIDE DEF n
  <2>4. [table EXCEPT ![sid] = n] \in Table
    BY <2>2 DEF Table
  <2>5. \A s \in Sids : [table EXCEPT ![sid] = n][s] = IF s = sid THEN n ELSE table[s]
    BY DEF Table
  <2> QED
    BY <1>3, <2>2, <2>3, <2>4, <2>5 DEF SteppedUp, Same
<1> QED
  BY <1>1, <1>2, <1>3

Pended(new, old, sid, key) ==
  /\ new \in Table
  /\ \A s \in Sids : new[s] # None =>
       /\ old[s] # None
       /\ \/ Same(new[s], old[s])
          \/ /\ s = sid /\ new[s].pending # None /\ new[s].pending.key = key
             /\ new[s].user = old[s].user /\ new[s].must = old[s].must /\ new[s].born = old[s].born
             /\ new[s].stepped = old[s].stepped /\ new[s].by = old[s].by

LEMMA SetPendingFacts ==
  ASSUME NEW table \in Table, NEW sid \in Sids, NEW key \in Nat, NEW at \in Nat
  PROVE  Pended(SetPending(table, sid, key, at), table, sid, key)
<1>1. CASE table[sid] = None
  BY <1>1, ShrunkRefl DEF SetPending, Shrunk, Pended
<1>2. CASE table[sid] # None
  <2> DEFINE p == [key |-> key, at |-> at]
             n == [table[sid] EXCEPT !.pending = p]
  <2>1. table[sid] \in Session /\ p \in PendingRec /\ p # None /\ p.key = key
    BY <1>2, NoneAssumption DEF Table, PendingRec
  <2> HIDE DEF p
  <2>2. /\ n \in Session
        /\ n.pending = p /\ n.user = table[sid].user /\ n.must = table[sid].must
        /\ n.born = table[sid].born /\ n.stepped = table[sid].stepped /\ n.by = table[sid].by
    BY <2>1 DEF Session
  <2>3. SetPending(table, sid, key, at) = [table EXCEPT ![sid] = n]
    BY <1>2 DEF SetPending, p
  <2> HIDE DEF n
  <2>4. [table EXCEPT ![sid] = n] \in Table
    BY <2>2 DEF Table
  <2>5. \A s \in Sids : [table EXCEPT ![sid] = n][s] = IF s = sid THEN n ELSE table[s]
    BY DEF Table
  <2> QED
    BY <1>2, <2>1, <2>2, <2>3, <2>4, <2>5 DEF Pended, Same
<1> QED
  BY <1>1, <1>2

----------------------------------------------------------------------------
(***************************************************************************)
(* The records of the user store.                                          *)
(***************************************************************************)

UserTable == [Users -> UserRec \cup {None}]

Owes(table, u) == table[u] # None /\ table[u].must

LEMMA KnownFacts ==
  ASSUME NEW rec \in UserRec \cup {None}
  PROVE  /\ Known(rec) \in Creds \cup {None}
         /\ Known(rec) = None <=> rec = None
  BY NoneAssumption DEF Known, UserRec, Creds

LEMMA PasswordFacts ==
  ASSUME NEW rec \in UserRec, NEW secret \in Nat
  PROVE  LET hashed == [rec EXCEPT !.secret = secret, !.weak = FALSE]
             set == [rec EXCEPT !.secret = secret, !.weak = FALSE, !.must = FALSE]
         IN  /\ hashed \in UserRec /\ hashed.secret = secret
             /\ hashed.key = rec.key /\ hashed.last = rec.last /\ (hashed.must => rec.must)
             /\ set \in UserRec /\ set.key = rec.key /\ set.last = rec.last /\ ~set.must
<1>1. [rec EXCEPT !.secret = secret, !.weak = FALSE] \in UserRec
  BY DEF UserRec
<1>2. [rec EXCEPT !.secret = secret, !.weak = FALSE, !.must = FALSE] \in UserRec
  BY DEF UserRec
<1> QED
  BY <1>1, <1>2 DEF UserRec

LEMMA FactorFacts ==
  ASSUME NEW rec \in UserRec, NEW key \in Nat \cup {None}, NEW c \in Nat
  PROVE  LET noted == WithCounter(rec, c)
             put == [rec EXCEPT !.key = key, !.last = c]
         IN  /\ noted \in UserRec /\ noted.secret = rec.secret /\ noted.key = rec.key
             /\ noted.last = c /\ (noted.must => rec.must)
             /\ put \in UserRec /\ put.secret = rec.secret /\ put.key = key
             /\ put.last = c /\ (put.must => rec.must)
  BY DEF UserRec, WithCounter

LEMMA NotedFacts ==
  ASSUME NEW rec \in UserRec, NEW c \in Nat
  PROVE  /\ WithCounter(rec, c) \in UserRec /\ WithCounter(rec, c).key = rec.key
         /\ WithCounter(rec, c).last = c
  BY DEF UserRec, WithCounter

(* The sessions a refresh leaves are of users whose credentials it leaves.  *)
LEMMA KeptKnown ==
  ASSUME sessions \in Table, mem \in UserTable, file \in UserTable, fresh => mem = file,
         NEW s \in Sids, Kept[s] # None
  PROVE  LET u == sessions[s].user IN
         mem[u] = None \/ Known(file[u]) = Known(mem[u])
<1> DEFINE u == sessions[s].user
<1>1. sessions[s] # None /\ u \in Users
  BY KeptFacts DEF Shrunk, Table, Session
<1>2. CASE fresh
  BY <1>2
<1>3. CASE ~fresh
  <2>1. u \notin Changed
    BY <1>3, RevokeFacts DEF Kept
  <2>2. mem[u] = None \/ Credentials(file[u]) = Credentials(mem[u])
    BY <1>1, <2>1 DEF Changed
  <2>3. mem[u] \in UserRec \cup {None} /\ file[u] \in UserRec \cup {None}
    BY <1>1 DEF UserTable
  <2>4. CASE mem[u] # None /\ file[u] # None /\ Credentials(file[u]) = Credentials(mem[u])
    BY <2>4 DEF Credentials, Known
  <2>5. ASSUME mem[u] # None, file[u] = None, Credentials(file[u]) = Credentials(mem[u])
        PROVE  FALSE
    <3>1. Credentials(mem[u]) \in Nat \X BOOLEAN \X (Nat \cup {None})
      BY <2>3, <2>5 DEF Credentials, UserRec
    <3> QED
      BY <2>5, <3>1, NoneAssumption DEF Credentials
  <2> QED
    BY <2>2, <2>4, <2>5
<1> QED
  BY <1>2, <1>3

----------------------------------------------------------------------------
(***************************************************************************)
(* The inductive invariant.                                                *)
(***************************************************************************)

AuthTypeOK ==
  /\ file \in UserTable /\ mem \in UserTable /\ fresh \in BOOLEAN
  /\ sessions \in Table
  /\ reqs \in [Reqs -> Request]
  /\ now \in Nat
  /\ next \in [sid : Nat \ {0}, secret : Nat, key : Nat, call : Nat]
  /\ used \subseteq Nat \X Nat /\ reused \in BOOLEAN /\ stale \in BOOLEAN

(* What a request in flight holds, by its kind and stage.                   *)
RequestOK(q) ==
  q.stage # "idle" =>
    /\ q.user \in Users /\ q.kind \in Kinds
    /\ q.kind # "login" => q.sid \in Sids /\ q.sid < next.sid
    /\ q.stage \in {"rehash", "set", "answer"} => q.snap \in UserRec
    /\ q.stage = "set" => q.kind = "passwd"

(* The stores agree when the fingerprint does, a session has an id that was *)
(* given out, and a request what its stage needs.                           *)
StoreInv ==
  /\ fresh => mem = file
  /\ \A s \in Sids : sessions[s] # None => s < next.sid
  /\ \A r \in Reqs : RequestOK(reqs[r])

(* No password change of u stands between its two halves, or ended there.   *)
Calm(halved, rs, u) ==
  ~halved /\ ~\E r \in Reqs : rs[r].kind = "passwd" /\ rs[r].stage = "answer" /\ rs[r].user = u

(* What a request may rely on after its await: the session it came with is  *)
(* of its user, its snapshot owes a change when the account does, only a    *)
(* login or a password change runs for an account that owes one, and a      *)
(* step-up whose session is left verified the credentials in force.         *)
RequestInv(q) ==
  q.stage # "idle" =>
    /\ q.kind # "login" /\ sessions[q.sid] # None => sessions[q.sid].user = q.user
    /\ q.stage \in {"rehash", "set", "answer"} /\ Owes(mem, q.user) => q.snap.must
    /\ q.kind \notin {"login", "passwd"} \/ (q.kind = "passwd" /\ q.stage = "answer") =>
         ~Owes(mem, q.user)
    /\ (/\ q.kind = "reauth" /\ q.stage \in {"rehash", "answer"}
        /\ sessions[q.sid] # None /\ Calm(stale, reqs, q.user)) =>
         Known(q.snap) = Known(mem[q.user])

SessionInv(s) ==
  sessions[s] # None =>
    LET u == sessions[s].user IN
    /\ Owes(mem, u) => sessions[s].must
    /\ Calm(stale, reqs, u) /\ sessions[s].born # None => sessions[s].born = Known(mem[u])
    /\ Calm(stale, reqs, u) /\ sessions[s].stepped # 0 =>
         sessions[s].by # None /\ sessions[s].by = Known(mem[u])

CalmInv ==
  /\ \A u \in Users : Owes(file, u) => Owes(mem, u)
  /\ \A r \in Reqs : RequestInv(reqs[r])
  /\ \A s \in Sids : SessionInv(s)

Enrolled(u, k) == file[u] # None /\ file[u].key = k

Pending(s, k) == sessions[s] # None /\ sessions[s].pending # None /\ sessions[s].pending.key = k

(* Keys are numbered as they are drawn, one is enrolled for one account or  *)
(* pending in one session, and the codes accepted for an enrolled one are   *)
(* no later than the last counter of its account.                           *)
KeyInv ==
  /\ \A u \in Users, k \in Nat : Enrolled(u, k) =>
       /\ k < next.key
       /\ \A v \in Users : Enrolled(v, k) => v = u
       /\ \A c \in Nat : <<k, c>> \in used => c <= file[u].last
  /\ \A s \in Sids, k \in Nat : Pending(s, k) =>
       /\ k < next.key
       /\ \A t \in Sids : Pending(t, k) => t = s
       /\ \A u \in Users : ~Enrolled(u, k)
       /\ \A c \in Nat : <<k, c>> \notin used
  /\ \A k, c \in Nat : <<k, c>> \in used => k < next.key
  /\ ~reused

----------------------------------------------------------------------------
(***************************************************************************)
(* The store, the sessions' ids and the requests keep their shape.         *)
(***************************************************************************)

LEMMA Bounds ==
  /\ MaxSids \in Nat /\ Sids \subseteq Nat /\ MaxTime \in Nat /\ WindowSteps \in Nat
  BY AuthAssumption DEF Sids

LEMMA NoRequest ==
  NoReq \in Request /\ NoReq.stage = "idle"
<1>1. NoReq.stage = "idle"
  BY DEF NoReq
<1>2. NoReq \in Request
  BY DEF NoReq, Request
<1> QED
  BY <1>1, <1>2

(* Only request r moves.                                                    *)
Alone(r) ==
  /\ reqs' \in [Reqs -> Request]
  /\ \A o \in Reqs : o # r => reqs'[o] = reqs[o]

Ended(r) == Alone(r) /\ reqs'[r].stage = "idle"

LEMMA EndFacts ==
  ASSUME reqs \in [Reqs -> Request], NEW r \in Reqs, End(r)
  PROVE  Ended(r)
  BY NoRequest DEF End, Ended, Alone

(* A request of the record q, at another stage.                             *)
Moved(r, q, stage) ==
  /\ Alone(r)
  /\ reqs'[r].stage = stage
  /\ reqs'[r].kind = q.kind /\ reqs'[r].user = q.user /\ reqs'[r].sid = q.sid
  /\ reqs'[r].snap = q.snap /\ reqs'[r].totp = q.totp /\ reqs'[r].at = q.at

LEMMA PutFacts ==
  ASSUME reqs \in [Reqs -> Request], NEW r \in Reqs, NEW q \in Request,
         reqs' = [reqs EXCEPT ![r] = q]
  PROVE  Moved(r, q, q.stage)
  BY DEF Moved, Alone

LEMMA AdvanceFacts ==
  ASSUME reqs \in [Reqs -> Request], NEW r \in Reqs, NEW q \in Request,
         NEW stage \in {"rehash", "set", "answer"}, Advance(r, q, stage)
  PROVE  \/ Ended(r) /\ q.gone /\ stage = "answer"
         \/ Moved(r, q, stage)
<1>1. CASE q.gone /\ stage = "answer"
  BY <1>1, NoRequest DEF Advance, Ended, Alone
<1>2. CASE ~(q.gone /\ stage = "answer")
  <2> DEFINE p == [q EXCEPT !.stage = stage]
  <2>1. /\ p \in Request /\ p.stage = stage /\ p.kind = q.kind /\ p.user = q.user
        /\ p.sid = q.sid /\ p.snap = q.snap /\ p.totp = q.totp /\ p.at = q.at
    BY DEF Request
  <2>2. reqs' = [reqs EXCEPT ![r] = p]
    BY <1>2 DEF Advance
  <2> HIDE DEF p
  <2> QED
    BY <2>1, <2>2, PutFacts DEF Moved
<1> QED
  BY <1>1, <1>2

LEMMA CodeFacts ==
  ASSUME NEW snap \in UserRec, now \in Nat, NEW c
  PROVE  /\ c \in Codes(snap.last) => c \in Nat /\ c # 0
         /\ c \in Codes(0) => c \in Nat /\ c # 0
         /\ c \in Factors(snap) => c \in Nat /\ (c # 0 => snap.key # None)
  BY Bounds DEF Codes, Factors, UserRec

LEMMA WriteFacts ==
  ASSUME file \in UserTable, NEW u \in Users, NEW rec \in UserRec, Write(u, rec)
  PROVE  /\ file' \in UserTable /\ mem' \in UserTable /\ fresh' /\ mem' = file'
         /\ file'[u] = rec /\ \A v \in Users : v # u => file'[v] = file[v]
  BY DEF Write, UserTable

----------------------------------------------------------------------------
(***************************************************************************)
(* What every step does to the accounts, the sessions and the requests, and*)
(* why that keeps CalmInv.                                                  *)
(***************************************************************************)

(* The session stays what it is, and while its user is calm the credentials *)
(* in force stay as well; a step-up rests on them.  It has a new pending     *)
(* key only where one was drawn.                                            *)
Carried(s) ==
  LET u == sessions[s].user IN
  /\ sessions[s] # None
  /\ sessions'[s].user = u /\ sessions'[s].must = sessions[s].must
  /\ sessions'[s].born = sessions[s].born
  /\ \/ sessions'[s].pending = sessions[s].pending \/ sessions'[s].pending = None
     \/ next'.key # next.key
  /\ Calm(stale', reqs', u) =>
       /\ Calm(stale, reqs, u)
       /\ mem[u] = None \/ Known(mem'[u]) = Known(mem[u])
       /\ \/ sessions'[s].stepped = sessions[s].stepped /\ sessions'[s].by = sessions[s].by
          \/ sessions'[s].by # None /\ sessions'[s].by = Known(mem'[u])

(* A session opened in this step.                                           *)
Fresh(s) ==
  LET u == sessions'[s].user IN
  /\ s = next.sid
  /\ Clean(sessions'[s], u, sessions'[s].born)
  /\ sessions'[s].born # None => sessions'[s].born = Known(mem'[u])
  /\ Owes(mem', u) => sessions'[s].must

(* A request in flight goes on: it waits, it has read the account, or it    *)
(* has set the password.                                                    *)
Held(q, p) ==
  /\ q.stage # "idle" /\ p.kind = q.kind /\ p.user = q.user /\ p.sid = q.sid
  /\ \/ p.stage \in {"body", "hash"}
     \/ p.stage = q.stage /\ p.snap = q.snap
     \/ q.stage = "rehash" /\ p.stage = AfterVerify(q) /\ p.snap = q.snap
     \/ q.stage = "hash" /\ p.stage \in {"rehash", AfterVerify(q)} /\ p.snap = mem'[q.user]
     \/ q.stage = "set" /\ p.snap = q.snap /\ ~Owes(mem', q.user)

(* A request that arrived in this step.                                     *)
Arrived(p) ==
  \/ p.stage = "hash" /\ p.kind = "login"
  \/ /\ p.stage = "body" /\ p.kind # "login"
     /\ sessions'[p.sid] # None => sessions'[p.sid].user = p.user
     /\ p.kind # "passwd" => ~Owes(mem', p.user)

GoodStep ==
  /\ \A u \in Users : (Owes(file', u) => Owes(mem', u)) /\ (Owes(mem', u) => Owes(mem, u))
  /\ \A s \in Sids : sessions'[s] # None => Carried(s) \/ Fresh(s)
  /\ \A r \in Reqs : reqs'[r].stage # "idle" => Held(reqs[r], reqs'[r]) \/ Arrived(reqs'[r])

LEMMA SessionsStay ==
  ASSUME AuthTypeOK, StoreInv, CalmInv, AuthTypeOK', GoodStep, NEW s \in Sids
  PROVE  SessionInv(s)'
<1> SUFFICES ASSUME sessions'[s] # None PROVE SessionInv(s)'
  BY DEF SessionInv
<1> DEFINE u == sessions'[s].user
<1>0. u \in Users /\ mem'[u] \in UserRec \cup {None}
  BY DEF AuthTypeOK, Table, Session, UserTable
<1>1. CASE Carried(s)
  <2>1. sessions[s] # None /\ u = sessions[s].user /\ SessionInv(s)
    BY <1>1 DEF Carried, CalmInv
  <2>2. Owes(mem', u) => sessions'[s].must
    BY <1>0, <1>1, <2>1 DEF GoodStep, SessionInv, Carried
  <2>3. mem[u] \in UserRec \cup {None}
    BY <1>0 DEF AuthTypeOK, UserTable
  <2>4. ASSUME Calm(stale', reqs', u), sessions'[s].born # None
        PROVE  sessions'[s].born = Known(mem'[u])
    <3>1. Calm(stale, reqs, u) /\ sessions[s].born = sessions'[s].born
      BY <1>1, <2>1, <2>4 DEF Carried
    <3>2. sessions[s].born = Known(mem[u])
      BY <2>1, <2>4, <3>1 DEF SessionInv
    <3> QED
      BY <1>1, <2>1, <2>3, <2>4, <3>1, <3>2, KnownFacts DEF Carried
  <2>5. ASSUME Calm(stale', reqs', u), sessions'[s].stepped # 0
        PROVE  sessions'[s].by # None /\ sessions'[s].by = Known(mem'[u])
    <3>1. Calm(stale, reqs, u)
      BY <1>1, <2>1, <2>5 DEF Carried
    <3>2. CASE sessions'[s].stepped = sessions[s].stepped /\ sessions'[s].by = sessions[s].by
      <4>1. sessions[s].by # None /\ sessions[s].by = Known(mem[u])
        BY <2>1, <2>5, <3>1, <3>2 DEF SessionInv
      <4> QED
        BY <1>1, <2>1, <2>3, <2>5, <3>2, <4>1, KnownFacts DEF Carried
    <3> QED
      BY <1>1, <2>1, <2>5, <3>2 DEF Carried
  <2> QED
    BY <2>2, <2>4, <2>5 DEF SessionInv
<1>2. CASE Fresh(s)
  BY <1>2 DEF Fresh, Clean, SessionInv
<1> QED
  BY <1>1, <1>2 DEF GoodStep

LEMMA RequestsStay ==
  ASSUME AuthTypeOK, StoreInv, CalmInv, AuthTypeOK', StoreInv', GoodStep, NEW r \in Reqs
  PROVE  RequestInv(reqs[r])'
<1> DEFINE q == reqs[r]
           p == reqs'[r]
<1> SUFFICES ASSUME p.stage # "idle" PROVE RequestInv(reqs[r])'
  BY DEF RequestInv
<1>0. RequestOK(reqs[r])' /\ p \in Request
  BY DEF StoreInv, AuthTypeOK
<1>1. CASE Arrived(p)
  BY <1>1, <1>0 DEF Arrived, RequestInv
<1>2. CASE Held(q, p)
  <2>1. q \in Request /\ RequestOK(q) /\ RequestInv(q) /\ q.stage # "idle"
    BY <1>2 DEF AuthTypeOK, StoreInv, CalmInv, Held
  <2>2. /\ p.kind = q.kind /\ p.user = q.user /\ p.sid = q.sid
        /\ q.user \in Users /\ q.kind \in Kinds /\ (q.kind # "login" => q.sid \in Sids)
    BY <1>2, <2>1 DEF Held, RequestOK
  <2>3. (q.kind # "login" /\ sessions'[q.sid] # None) => Carried(q.sid)
    <3>1. q.kind # "login" => q.sid \in Nat /\ next.sid \in Nat /\ q.sid < next.sid
      BY <2>1, <2>2, Bounds DEF RequestOK, AuthTypeOK
    <3> QED
      BY <2>2, <3>1 DEF GoodStep, Fresh
  <2>4. (q.kind # "login" /\ sessions'[q.sid] # None) =>
          sessions[q.sid] # None /\ sessions'[q.sid].user = q.user /\ sessions[q.sid].user = q.user
    BY <2>1, <2>3 DEF Carried, RequestInv
  <2>5. Owes(mem', q.user) => Owes(mem, q.user)
    BY <2>2 DEF GoodStep
  <2>6. p.stage \in {"rehash", "set", "answer"} /\ Owes(mem', q.user) => p.snap.must
    <3>1. AfterVerify(q) \in {"set", "answer"}
      BY DEF AfterVerify
    <3>2. CASE q.stage = "hash" /\ p.snap = mem'[q.user]
      BY <3>2 DEF Owes
    <3>3. CASE q.stage \in {"rehash", "set", "answer"} /\ p.snap = q.snap
      BY <2>1, <2>5, <3>3 DEF RequestInv
    <3> QED
      BY <1>2, <3>1, <3>2, <3>3 DEF Held
  <2>7. (q.kind \notin {"login", "passwd"} \/ (q.kind = "passwd" /\ p.stage = "answer")) =>
          ~Owes(mem', q.user)
    BY <1>2, <2>1, <2>2, <2>5 DEF Held, RequestInv, AfterVerify
  <2>8. ASSUME q.kind = "reauth", p.stage \in {"rehash", "answer"},
               sessions'[q.sid] # None, Calm(stale', reqs', q.user)
        PROVE  Known(p.snap) = Known(mem'[q.user])
    <3>1. CASE q.stage = "hash" /\ p.snap = mem'[q.user]
      BY <3>1
    <3>2. CASE q.stage \in {"rehash", "answer"} /\ p.snap = q.snap
      <4>1. Calm(stale, reqs, q.user) /\ (mem[q.user] = None \/ Known(mem'[q.user]) = Known(mem[q.user]))
        BY <2>3, <2>4, <2>8 DEF Carried
      <4>2. Known(q.snap) = Known(mem[q.user])
        BY <2>1, <2>4, <2>8, <3>2, <4>1 DEF RequestInv
      <4>3. q.snap \in UserRec /\ mem[q.user] \in UserRec \cup {None}
        BY <2>1, <2>2, <3>2 DEF RequestOK, AuthTypeOK, UserTable
      <4>4. q.snap # None
        BY <4>3, NoneAssumption
      <4> QED
        BY <3>2, <4>1, <4>2, <4>3, <4>4, KnownFacts
    <3>3. q.stage # "set"
      BY <2>1, <2>8 DEF RequestOK
    <3> QED
      BY <1>2, <2>8, <3>1, <3>2, <3>3 DEF Held
  <2> QED
    BY <2>2, <2>4, <2>6, <2>7, <2>8 DEF RequestInv
<1> QED
  BY <1>1, <1>2 DEF GoodStep

LEMMA GoodStepKeeps ==
  ASSUME AuthTypeOK, StoreInv, CalmInv, AuthTypeOK', StoreInv', GoodStep
  PROVE  CalmInv'
<1>1. \A u \in Users : Owes(file, u)' => Owes(mem, u)'
  BY DEF GoodStep, Owes
<1> QED
  BY <1>1, SessionsStay, RequestsStay DEF CalmInv

----------------------------------------------------------------------------
(***************************************************************************)
(* A step in four parts, proved one by one for each action.                *)
(***************************************************************************)

AccountsStep ==
  /\ file' \in UserTable /\ mem' \in UserTable /\ fresh' \in BOOLEAN
  /\ fresh' => mem' = file'
  /\ \A u \in Users : (Owes(file', u) => Owes(mem', u)) /\ (Owes(mem', u) => Owes(mem, u))

SessionsStep ==
  /\ sessions' \in Table
  /\ \A s \in Sids : sessions'[s] # None => Carried(s) \/ (Fresh(s) /\ next.sid < next'.sid)

RequestsStep ==
  /\ reqs' \in [Reqs -> Request]
  /\ \A r \in Reqs : reqs'[r].stage # "idle" =>
       /\ RequestOK(reqs[r])'
       /\ Held(reqs[r], reqs'[r]) \/ Arrived(reqs'[r])

Counters == [sid : Nat \ {0}, secret : Nat, key : Nat, call : Nat]

CountersStep ==
  /\ now' \in Nat /\ next' \in Counters /\ next.sid <= next'.sid
  /\ used' \subseteq Nat \X Nat /\ reused' \in BOOLEAN /\ stale' \in BOOLEAN

AuthInv == AuthTypeOK /\ StoreInv /\ CalmInv

LEMMA AuthStepKeeps ==
  ASSUME AuthInv, AccountsStep, SessionsStep, RequestsStep, CountersStep
  PROVE  AuthInv'
<1>1. AuthTypeOK'
  BY DEF AccountsStep, SessionsStep, RequestsStep, CountersStep, Counters, AuthTypeOK
<1>2. StoreInv'
  <2>1. ASSUME NEW s \in Sids, sessions'[s] # None
        PROVE  s < next'.sid
    <3>1. s \in Nat /\ next.sid \in Nat /\ next'.sid \in Nat /\ next.sid <= next'.sid
      BY Bounds DEF AuthInv, AuthTypeOK, CountersStep, Counters
    <3>2. sessions[s] # None => s < next.sid
      BY DEF AuthInv, StoreInv
    <3>3. sessions[s] # None \/ (s = next.sid /\ next.sid < next'.sid)
      BY <2>1 DEF SessionsStep, Carried, Fresh
    <3> QED
      BY <3>1, <3>2, <3>3
  <2>2. \A r \in Reqs : RequestOK(reqs[r])'
    BY DEF RequestsStep, RequestOK
  <2> QED
    BY <2>1, <2>2 DEF StoreInv, AccountsStep
<1>3. GoodStep
  BY DEF GoodStep, AccountsStep, SessionsStep, RequestsStep
<1> QED
  BY <1>1, <1>2, <1>3, GoodStepKeeps DEF AuthInv

(* The accounts.                                                            *)

LEMMA AccountsSame ==
  ASSUME AuthInv, UNCHANGED <<file, mem, fresh>>
  PROVE  AccountsStep
  BY DEF AuthInv, AuthTypeOK, StoreInv, CalmInv, AccountsStep

LEMMA AccountsRefresh ==
  ASSUME AuthInv, Refresh
  PROVE  AccountsStep
  BY DEF AuthInv, AuthTypeOK, StoreInv, CalmInv, AccountsStep, Refresh

LEMMA AccountsWrite ==
  ASSUME AuthInv, NEW u \in Users, NEW rec \in UserRec, Write(u, rec), rec.must => Owes(file, u)
  PROVE  AccountsStep
<1>1. /\ file' \in UserTable /\ mem' = file' /\ fresh' = TRUE
      /\ file'[u] = rec /\ \A v \in Users : v # u => file'[v] = file[v]
  BY WriteFacts DEF AuthInv, AuthTypeOK, Write
<1>2. ASSUME NEW v \in Users, Owes(mem', v) PROVE Owes(mem, v)
  <2>1. Owes(file, v)
    BY <1>1, <1>2 DEF Owes
  <2> QED
    BY <2>1 DEF AuthInv, CalmInv
<1> QED
  BY <1>1, <1>2 DEF AccountsStep

(* The file is changed, and memory is what it was before.                   *)
LEMMA AccountsLands ==
  ASSUME AuthInv, NEW u \in Users, NEW rec \in UserRec, Lands(u, rec), rec.must => Owes(file, u),
         mem' \in UserTable, \A v \in Users : Owes(mem', v) <=> Owes(file, v)
  PROVE  AccountsStep
<1>1. /\ file' \in UserTable /\ fresh' = FALSE
      /\ file'[u] = rec /\ \A v \in Users : v # u => file'[v] = file[v]
  BY DEF Lands, AuthInv, AuthTypeOK, UserTable
<1>2. \A v \in Users : Owes(file', v) => Owes(file, v)
  BY <1>1 DEF Owes
<1>3. \A v \in Users : Owes(file, v) => Owes(mem, v)
  BY DEF AuthInv, CalmInv
<1> QED
  BY <1>1, <1>2, <1>3 DEF AccountsStep

(* The requests.                                                            *)

LEMMA RequestsSame ==
  ASSUME AuthInv, UNCHANGED reqs, next.sid <= next'.sid, next' \in Counters
  PROVE  RequestsStep
<1> SUFFICES ASSUME NEW r \in Reqs, reqs'[r].stage # "idle"
             PROVE  RequestOK(reqs[r])' /\ Held(reqs[r], reqs'[r])
  BY DEF RequestsStep, AuthInv, AuthTypeOK
<1>1. RequestOK(reqs[r])
  BY DEF AuthInv, StoreInv
<1>2. next.sid \in Nat /\ next'.sid \in Nat
  BY DEF AuthInv, AuthTypeOK, Counters
<1>3. reqs[r].sid \in Sids => reqs[r].sid \in Nat
  BY Bounds
<1>4. RequestOK(reqs[r])'
  BY <1>1, <1>2, <1>3 DEF RequestOK
<1> QED
  BY <1>1, <1>4 DEF Held

LEMMA RequestsAlone ==
  ASSUME AuthInv, NEW r \in Reqs, Alone(r), next.sid <= next'.sid, next' \in Counters,
         reqs'[r].stage # "idle" =>
           RequestOK(reqs[r])' /\ (Held(reqs[r], reqs'[r]) \/ Arrived(reqs'[r]))
  PROVE  RequestsStep
<1> SUFFICES ASSUME NEW o \in Reqs, o # r, reqs'[o].stage # "idle"
             PROVE  RequestOK(reqs[o])' /\ Held(reqs[o], reqs'[o])
  BY DEF RequestsStep, Alone
<1>1. RequestOK(reqs[o]) /\ reqs'[o] = reqs[o]
  BY DEF AuthInv, StoreInv, Alone
<1>2. next.sid \in Nat /\ next'.sid \in Nat
  BY DEF AuthInv, AuthTypeOK, Counters
<1>3. reqs[o].sid \in Sids => reqs[o].sid \in Nat
  BY Bounds
<1>4. RequestOK(reqs[o])'
  BY <1>1, <1>2, <1>3 DEF RequestOK
<1> QED
  BY <1>1, <1>4 DEF Held

LEMMA RequestsEnded ==
  ASSUME AuthInv, NEW r \in Reqs, Ended(r), next.sid <= next'.sid, next' \in Counters
  PROVE  RequestsStep
  BY RequestsAlone DEF Ended

(* The sessions.                                                            *)

(* The step completes no password change.                                   *)
Quiet == \A u \in Users : Calm(stale', reqs', u) => Calm(stale, reqs, u)

LEMMA QuietSame ==
  ASSUME stale => stale', UNCHANGED reqs
  PROVE  Quiet
  BY DEF Quiet, Calm

LEMMA QuietAlone ==
  ASSUME NEW r, Alone(r), stale => stale',
         reqs[r].kind = "passwd" /\ reqs[r].stage = "answer" => stale'
  PROVE  Quiet
  BY DEF Quiet, Calm, Alone

LEMMA CarrySame ==
  ASSUME AuthInv, Quiet, UNCHANGED mem, NEW s \in Sids, sessions[s] # None,
         Same(sessions'[s], sessions[s])
  PROVE  Carried(s)
<1>1. sessions[s].user \in Users
  BY DEF AuthInv, AuthTypeOK, Table, Session
<1> QED
  BY <1>1 DEF Quiet, Same, Carried

LEMMA CarryKept ==
  ASSUME AuthInv, Quiet, NEW s \in Sids, Kept[s] # None, Same(sessions'[s], Kept[s]),
         Calm(stale', reqs', sessions[s].user) =>
           Known(mem'[sessions[s].user]) = Known(file[sessions[s].user])
  PROVE  Carried(s)
<1>1. sessions \in Table /\ Shrunk(Kept, sessions)
  BY KeptFacts DEF AuthInv, AuthTypeOK
<1>2. sessions[s] # None /\ Same(Kept[s], sessions[s]) /\ sessions[s].user \in Users
  BY <1>1 DEF Shrunk, Table, Session
<1>3. mem[sessions[s].user] = None \/ Known(file[sessions[s].user]) = Known(mem[sessions[s].user])
  BY KeptKnown DEF AuthInv, AuthTypeOK, StoreInv
<1> QED
  BY <1>2, <1>3 DEF Quiet, Same, Carried

LEMMA SessionsKept ==
  ASSUME AuthInv, Quiet, Shrunk(sessions', Kept),
         \A u \in Users : Calm(stale', reqs', u) => Known(mem'[u]) = Known(file[u])
  PROVE  SessionsStep
<1> SUFFICES ASSUME NEW s \in Sids, sessions'[s] # None
             PROVE  Carried(s)
  BY DEF SessionsStep, Shrunk
<1>1. Kept[s] # None /\ Same(sessions'[s], Kept[s])
  BY DEF Shrunk
<1>2. sessions[s].user \in Users
  BY <1>1, KeptFacts DEF AuthInv, AuthTypeOK, Shrunk, Table, Session
<1> QED
  BY <1>1, <1>2, CarryKept

LEMMA SessionsRefresh ==
  ASSUME AuthInv, Quiet, Refresh, Shrunk(sessions', Kept)
  PROVE  SessionsStep
  BY SessionsKept DEF Refresh

LEMMA SessionsSame ==
  ASSUME AuthInv, Quiet, UNCHANGED mem, Shrunk(sessions', sessions)
  PROVE  SessionsStep
  BY CarrySame DEF SessionsStep, Shrunk

----------------------------------------------------------------------------
(***************************************************************************)
(* The actions.                                                            *)
(***************************************************************************)

AuthStep == AccountsStep /\ SessionsStep /\ RequestsStep /\ CountersStep

LEMMA CounterFacts ==
  ASSUME AuthInv
  PROVE  /\ next \in Counters /\ next.sid \in Nat /\ next.sid <= next.sid
         /\ Counted => next' \in Counters /\ next'.sid = next.sid
         /\ NewSid => next' \in Counters /\ next'.sid = next.sid + 1 /\ next.sid \in Sids
         /\ sessions \in Table
  BY Bounds DEF AuthInv, AuthTypeOK, Counters, Counted, NewSid, Sids

LEMMA CountersCalm ==
  ASSUME AuthInv, UNCHANGED <<now, used, reused>>, stale' \in BOOLEAN,
         next' \in Counters, next.sid <= next'.sid
  PROVE  CountersStep
  BY DEF AuthInv, AuthTypeOK, CountersStep

LEMMA ResolveStep ==
  ASSUME AuthInv, NEW r \in Reqs, NEW kind \in Kinds, NEW sid \in Sids, Resolve(r, kind, sid)
  PROVE  AuthStep
<1>1. /\ reqs[r].stage = "idle" /\ kind # "login" /\ sid < next.sid /\ Refresh
      /\ sessions' = Touch(sid) /\ Counted /\ UNCHANGED <<now, used, reused, stale>>
  BY DEF Resolve, history
<1>2. next' \in Counters /\ next'.sid = next.sid /\ next.sid \in Nat /\ next.sid <= next'.sid
  BY <1>1, CounterFacts
<1>3. AccountsStep
  BY <1>1, AccountsRefresh
<1>4. CountersStep
  BY <1>1, <1>2, CountersCalm DEF AuthInv, AuthTypeOK
<1>5. Shrunk(sessions', Kept) /\ Shrunk(Kept, sessions)
  BY <1>1, TouchFacts, KeptFacts DEF AuthInv, AuthTypeOK
<1>6. CASE UNCHANGED reqs
  <2>1. Quiet
    BY <1>1, <1>6, QuietSame
  <2> QED
    BY <1>1, <1>2, <1>3, <1>4, <1>5, <1>6, <2>1, SessionsRefresh, RequestsSame DEF AuthStep
<1>7. CASE /\ Live(Kept, sid, now) /\ RequireUnrestricted(Kept[sid], kind = "passwd")
           /\ reqs' = [reqs EXCEPT ![r] =
                [NoReq EXCEPT !.kind = kind, !.stage = "body", !.user = Kept[sid].user,
                              !.sid = sid, !.totp = Kept[sid].totp]]
  <2> DEFINE p == [NoReq EXCEPT !.kind = kind, !.stage = "body", !.user = Kept[sid].user,
                                !.sid = sid, !.totp = Kept[sid].totp]
  <2>1. /\ Kept[sid] \in Session /\ Kept[sid] # None /\ sessions[sid] # None
        /\ Same(Kept[sid], sessions[sid])
    BY <1>5, <1>7, NoneAssumption DEF Live, Shrunk, Table
  <2>2. /\ p \in Request /\ p.kind = kind /\ p.stage = "body" /\ p.user = Kept[sid].user
        /\ p.sid = sid
    <3>1. Kept[sid].user \in Users /\ Kept[sid].totp \in BOOLEAN
      BY <2>1 DEF Session
    <3> QED
      BY <3>1, NoRequest DEF Request
  <2>3. reqs' = [reqs EXCEPT ![r] = p]
    BY <1>7
  <2> HIDE DEF p
  <2>4. Alone(r) /\ reqs'[r] = p
    BY <2>2, <2>3 DEF AuthInv, AuthTypeOK, Alone
  <2>5. Quiet
    BY <1>1, <2>4, QuietAlone
  <2>6. RequestOK(reqs[r])'
    BY <1>1, <1>2, <2>1, <2>2, <2>4 DEF RequestOK, Session
  <2>7. kind # "passwd" => ~Owes(mem', p.user)
    <3>1. SUFFICES ASSUME kind # "passwd", Owes(mem', p.user) PROVE FALSE
      OBVIOUS
    <3>2. Owes(mem, sessions[sid].user) /\ sessions[sid].user \in Users
      BY <1>3, <2>1, <2>2, <3>1 DEF AccountsStep, Same, Session
    <3>3. sessions[sid].must
      BY <2>1, <3>2 DEF AuthInv, CalmInv, SessionInv
    <3>4. Kept[sid].must
      BY <2>1, <3>3 DEF Same
    <3> QED
      BY <1>7, <3>1, <3>4 DEF RequireUnrestricted
  <2>8. sessions'[sid] # None => sessions'[sid].user = p.user
    BY <1>5, <2>2 DEF Shrunk, Same
  <2>9. Arrived(reqs'[r])
    BY <1>1, <2>2, <2>4, <2>7, <2>8 DEF Arrived
  <2>10. RequestsStep
    BY <1>2, <2>4, <2>6, <2>9, RequestsAlone
  <2> QED
    BY <1>1, <1>3, <1>4, <1>5, <2>5, <2>10, SessionsRefresh DEF AuthStep
<1> QED
  BY <1>6, <1>7 DEF Resolve

LEMMA ImmediateStep ==
  ASSUME AuthInv, NEW sid \in Sids, NEW kind, NEW other, Immediate(sid, kind, other)
  PROVE  AuthStep
<1>1. Refresh /\ UNCHANGED <<reqs, now, next, used, reused, stale>>
  BY DEF Immediate, history
<1>2. Quiet
  BY <1>1, QuietSame
<1>3. Shrunk(Touch(sid), Kept)
  BY TouchFacts DEF AuthInv, AuthTypeOK
<1>4. Shrunk(sessions', Touch(sid))
  <2> DEFINE doomed(s) == /\ Live(Kept, sid, now) /\ RequireUnrestricted(Kept[sid], kind = "logout")
                          /\ s \in Ends(sid, kind, other)
  <2>1. sessions' = [s \in Sids |-> IF doomed(s) THEN None ELSE Touch(sid)[s]]
    BY DEF Immediate
  <2> HIDE DEF doomed
  <2> QED
    BY <1>3, <2>1 DEF Shrunk, Same, Table
<1>5. Shrunk(sessions', Kept)
  BY <1>3, <1>4, ShrunkTrans
<1> QED
  BY <1>1, <1>2, <1>5, AccountsRefresh, SessionsRefresh, RequestsSame, CountersCalm, CounterFacts
     DEF AuthStep, AuthInv, AuthTypeOK

LEMMA BeginStep ==
  ASSUME AuthInv, NEW r \in Reqs, NEW kind \in Kinds, NEW u \in Users, NEW sid \in Sids \cup {None},
         Begin(r, kind, u, sid)
  PROVE  AuthStep
<1>1. UNCHANGED <<file, mem, fresh, sessions, now, used, reused, stale>>
  BY DEF Begin, history
<1>2. next' \in Counters /\ next'.sid = next.sid /\ next.sid <= next'.sid
  BY CounterFacts DEF Begin
<1>3. /\ reqs[r] \in Request
      /\ \/ reqs[r].stage = "idle" /\ kind = "login"
         \/ /\ reqs[r].stage = "body" /\ reqs[r].kind = kind /\ sid = reqs[r].sid /\ u = reqs[r].user
  BY DEF Begin, AuthInv, AuthTypeOK
<1>4. AccountsStep /\ CountersStep
  BY <1>1, <1>2, AccountsSame, CountersCalm DEF AuthInv, AuthTypeOK
<1>5. Alone(r) => Quiet
  BY <1>1, <1>3, QuietAlone
<1>6. Alone(r) => SessionsStep
  BY <1>1, <1>5, SessionsSame, ShrunkRefl DEF AuthInv, AuthTypeOK
<1>7. CASE End(r)
  <2>1. Ended(r)
    BY <1>7, EndFacts DEF AuthInv, AuthTypeOK
  <2> QED
    BY <1>2, <1>4, <1>6, <2>1, RequestsEnded DEF AuthStep, Ended
<1>8. CASE reqs' = [reqs EXCEPT ![r] = [@ EXCEPT !.kind = kind, !.stage = "hash", !.user = u,
                                                !.sid = sid, !.at = now]]
  <2> DEFINE p == [reqs[r] EXCEPT !.kind = kind, !.stage = "hash", !.user = u,
                                  !.sid = sid, !.at = now]
  <2>1. p \in Request /\ p.kind = kind /\ p.stage = "hash" /\ p.user = u /\ p.sid = sid
    BY <1>3 DEF Request, AuthInv, AuthTypeOK
  <2>2. reqs' = [reqs EXCEPT ![r] = p]
    BY <1>8
  <2> HIDE DEF p
  <2>3. Alone(r) /\ reqs'[r] = p
    BY <2>1, <2>2 DEF AuthInv, AuthTypeOK, Alone
  <2>4. RequestOK(reqs[r])
    BY DEF AuthInv, StoreInv
  <2>5. RequestOK(reqs[r])'
    BY <1>2, <1>3, <2>1, <2>3, <2>4 DEF RequestOK
  <2>6. Held(reqs[r], reqs'[r]) \/ Arrived(reqs'[r])
    BY <1>3, <2>1, <2>3 DEF Held, Arrived
  <2> QED
    BY <1>2, <1>4, <1>6, <2>3, <2>5, <2>6, RequestsAlone DEF AuthStep
<1> QED
  BY <1>7, <1>8 DEF Begin

LEMMA RefuseStep ==
  ASSUME AuthInv, NEW r \in Reqs, Refuse(r)
  PROVE  AuthStep
<1>1. UNCHANGED <<file, mem, fresh, sessions, now, next, used, reused, stale>>
  BY DEF Refuse, history
<1>2. Ended(r) /\ (reqs[r].stage = "answer" => reqs[r].kind # "passwd")
  BY EndFacts DEF Refuse, AuthInv, AuthTypeOK
<1>3. Quiet
  BY <1>1, <1>2, QuietAlone DEF Ended
<1> QED
  BY <1>1, <1>2, <1>3, AccountsSame, SessionsSame, ShrunkRefl, RequestsEnded, CountersCalm,
     CounterFacts DEF AuthStep, AuthInv, AuthTypeOK

LEMMA WriteFailsStep ==
  ASSUME AuthInv, NEW r \in Reqs, WriteFails(r)
  PROVE  AuthStep
<1>1. Refresh /\ sessions' = Kept /\ UNCHANGED <<now, next, used, reused, stale>>
  BY DEF WriteFails, history
<1>2. Ended(r) /\ (reqs[r].stage = "answer" => reqs[r].kind # "passwd")
  BY EndFacts DEF WriteFails, AuthInv, AuthTypeOK
<1>3. Quiet
  BY <1>1, <1>2, QuietAlone DEF Ended
<1>4. Shrunk(sessions', Kept)
  BY <1>1, KeptFacts, ShrunkRefl DEF AuthInv, AuthTypeOK
<1> QED
  BY <1>1, <1>2, <1>3, <1>4, AccountsRefresh, SessionsRefresh, RequestsEnded, CountersCalm,
     CounterFacts DEF AuthStep, AuthInv, AuthTypeOK

LEMMA WriteLandsStep ==
  ASSUME AuthInv, NEW r \in Reqs, WriteLands(r)
  PROVE  AuthStep
<1> DEFINE q == reqs[r]
           rec == file[q.user]
<1>1. /\ q.stage \in {"rehash", "set", "answer"} /\ rec # None
      /\ mem' = file /\ sessions' = Kept /\ UNCHANGED <<now, used, reused>>
      /\ (q.stage = "answer" => q.kind # "passwd") /\ Ended(r)
  BY EndFacts DEF WriteLands, AuthInv, AuthTypeOK
<1>2. q.user \in Users /\ q.snap \in UserRec /\ rec \in UserRec
  BY <1>1 DEF AuthInv, StoreInv, RequestOK, AuthTypeOK, UserTable
<1>3. /\ (stale => stale') /\ stale' \in BOOLEAN
      /\ next' \in Counters /\ next.sid <= next'.sid
  <2>1. UNCHANGED next \/ next' = [next EXCEPT !.secret = @ + 1]
    BY DEF WriteLands
  <2>2. next' \in Counters /\ next.sid <= next'.sid
    BY <2>1, CounterFacts DEF Counters
  <2>3. stale' = (stale \/ rec.secret # q.snap.secret) \/ stale' = stale
    BY DEF WriteLands
  <2>4. (stale => stale') /\ stale' \in BOOLEAN
    BY <2>3 DEF AuthInv, AuthTypeOK
  <2> QED
    BY <2>2, <2>4
<1>4. \E new \in UserRec : Lands(q.user, new) /\ (new.must => rec.must)
  <2>1. CASE Lands(q.user, [rec EXCEPT !.secret = q.snap.secret, !.weak = FALSE])
    <3> DEFINE new == [rec EXCEPT !.secret = q.snap.secret, !.weak = FALSE]
    <3>1. new \in UserRec /\ (new.must => rec.must)
      BY <1>2, PasswordFacts DEF UserRec
    <3> QED
      BY <2>1, <3>1
  <2>2. CASE Lands(q.user, [rec EXCEPT !.secret = next.secret, !.weak = FALSE, !.must = FALSE])
    <3> DEFINE new == [rec EXCEPT !.secret = next.secret, !.weak = FALSE, !.must = FALSE]
    <3>1. new \in UserRec /\ ~new.must
      BY <1>2, PasswordFacts DEF AuthInv, AuthTypeOK
    <3> QED
      BY <2>2, <3>1
  <2>3. ASSUME NEW c \in Codes(q.snap.last), Lands(q.user, WithCounter(rec, c))
        PROVE  \E new \in UserRec : Lands(q.user, new) /\ (new.must => rec.must)
    <3>1. c \in Nat
      BY <1>2, CodeFacts DEF UserRec, AuthInv, AuthTypeOK
    <3>2. WithCounter(rec, c) \in UserRec /\ (WithCounter(rec, c).must => rec.must)
      BY <1>2, <3>1, FactorFacts
    <3> QED
      BY <2>3, <3>2
  <2> QED
    BY <2>1, <2>2, <2>3 DEF WriteLands
<1>5. AccountsStep
  <2>1. rec.must => Owes(file, q.user)
    BY <1>1 DEF Owes
  <2>2. mem' \in UserTable /\ \A v \in Users : Owes(mem', v) <=> Owes(file, v)
    BY <1>1 DEF Owes, AuthInv, AuthTypeOK
  <2> QED
    BY <1>2, <1>4, <2>1, <2>2, AccountsLands
<1>6. Quiet
  BY <1>1, <1>3, QuietAlone DEF Ended
<1>7. Shrunk(sessions', Kept)
  BY <1>1, KeptFacts, ShrunkRefl DEF AuthInv, AuthTypeOK
<1>8. SessionsStep
  BY <1>1, <1>6, <1>7, SessionsKept
<1> QED
  BY <1>1, <1>3, <1>5, <1>8, RequestsEnded, CountersCalm DEF AuthStep

LEMMA TimeoutStep ==
  ASSUME AuthInv, NEW r \in Reqs, Timeout(r)
  PROVE  AuthStep
<1>1. /\ UNCHANGED <<file, mem, fresh, sessions, now, next, used, reused>>
      /\ reqs[r].stage # "idle"
  BY DEF Timeout
<1>2. stale' \in BOOLEAN /\ (stale => stale')
      /\ (reqs[r].kind = "passwd" /\ reqs[r].stage = "answer" => stale')
  BY DEF Timeout, AuthInv, AuthTypeOK
<1>3. AccountsStep /\ CountersStep /\ next \in Counters /\ next'.sid = next.sid
      /\ next.sid <= next'.sid
  BY <1>1, <1>2, AccountsSame, CountersCalm, CounterFacts
<1>4. Alone(r) => SessionsStep
  BY <1>1, <1>2, QuietAlone, SessionsSame, ShrunkRefl DEF AuthInv, AuthTypeOK
<1>5. CASE End(r)
  <2>1. Ended(r)
    BY <1>5, EndFacts DEF AuthInv, AuthTypeOK
  <2> QED
    BY <1>1, <1>3, <1>4, <2>1, RequestsEnded DEF AuthStep, Ended
<1>6. CASE reqs' = [reqs EXCEPT ![r].gone = TRUE]
  <2> DEFINE p == [reqs[r] EXCEPT !.gone = TRUE]
  <2>1. /\ p \in Request /\ p.kind = reqs[r].kind /\ p.stage = reqs[r].stage
        /\ p.user = reqs[r].user /\ p.sid = reqs[r].sid /\ p.snap = reqs[r].snap
    <3>1. reqs[r] \in Request
      BY DEF AuthInv, AuthTypeOK
    <3> QED
      BY <3>1 DEF Request
  <2>2. reqs' = [reqs EXCEPT ![r] = p]
    BY <1>6
  <2> HIDE DEF p
  <2>3. Alone(r) /\ reqs'[r] = p
    BY <2>1, <2>2 DEF AuthInv, AuthTypeOK, Alone
  <2>4. RequestOK(reqs[r])
    BY DEF AuthInv, StoreInv
  <2>5. RequestOK(reqs[r])'
    BY <1>1, <2>1, <2>3, <2>4 DEF RequestOK
  <2>6. Held(reqs[r], reqs'[r])
    BY <1>1, <2>1, <2>3 DEF Held
  <2> QED
    BY <1>1, <1>3, <1>4, <2>3, <2>5, <2>6, RequestsAlone DEF AuthStep
<1> QED
  BY <1>5, <1>6 DEF Timeout

(* A request that goes on with the record q it had, or ends with it.        *)
LEMMA RequestsAdvance ==
  ASSUME AuthInv, UNCHANGED next, NEW r \in Reqs, NEW q \in Request,
         NEW stage \in {"rehash", "set", "answer"}, Advance(r, q, stage),
         reqs[r].stage \in {"hash", "rehash", "set"},
         q.kind = reqs[r].kind, q.user = reqs[r].user, q.sid = reqs[r].sid,
         q.snap \in UserRec, stage = "set" => q.kind = "passwd",
         \/ reqs[r].stage = "rehash" /\ stage = AfterVerify(reqs[r]) /\ q.snap = reqs[r].snap
         \/ /\ reqs[r].stage = "hash" /\ stage \in {"rehash", AfterVerify(reqs[r])}
            /\ q.snap = mem'[q.user]
  PROVE  RequestsStep
<1>1. next \in Counters /\ next' \in Counters /\ next.sid <= next'.sid /\ reqs \in [Reqs -> Request]
  BY CounterFacts DEF AuthInv, AuthTypeOK
<1>2. CASE Ended(r)
  BY <1>1, <1>2, RequestsEnded
<1>3. CASE Moved(r, q, stage)
  <2>1. RequestOK(reqs[r])
    BY DEF AuthInv, StoreInv
  <2>2. RequestOK(reqs[r])'
    BY <1>3, <2>1 DEF RequestOK, Moved
  <2>3. Held(reqs[r], reqs'[r])
    BY <1>3 DEF Held, Moved
  <2> QED
    BY <1>1, <1>3, <2>2, <2>3, RequestsAlone DEF Moved
<1> QED
  BY <1>1, <1>2, <1>3, AdvanceFacts

LEMMA AdvanceAlone ==
  ASSUME AuthInv, NEW r \in Reqs, NEW q \in Request,
         NEW stage \in {"rehash", "set", "answer"}, Advance(r, q, stage)
  PROVE  Alone(r)
  BY AdvanceFacts DEF AuthInv, AuthTypeOK, Ended, Moved

LEMMA VerifyStep ==
  ASSUME AuthInv, NEW r \in Reqs, NEW right, Verify(r, right)
  PROVE  AuthStep
<1>1. /\ reqs[r].stage = "hash" /\ Refresh /\ sessions' = Kept
      /\ UNCHANGED <<now, next, used, reused, stale>>
  BY DEF Verify, history
<1>2. AccountsStep /\ CountersStep
  BY <1>1, AccountsRefresh, CountersCalm, CounterFacts DEF AuthInv, AuthTypeOK
<1>3. Alone(r) => SessionsStep
  <2>1. Kept \in Table
    BY KeptFacts DEF AuthInv, AuthTypeOK
  <2> QED
    BY <1>1, <2>1, QuietAlone, SessionsRefresh, ShrunkRefl
<1> DEFINE rec == file[reqs[r].user]
           q == [reqs[r] EXCEPT !.snap = rec]
<1>4. CASE End(r)
  <2>1. Ended(r)
    BY <1>4, EndFacts DEF AuthInv, AuthTypeOK
  <2> QED
    BY <1>1, <1>2, <1>3, <2>1, RequestsEnded, CounterFacts DEF AuthStep, Ended
<1>5. CASE rec # None /\ Advance(r, q, IF rec.weak THEN "rehash" ELSE AfterVerify(q))
  <2>1. reqs[r].user \in Users /\ reqs[r] \in Request
    BY <1>1 DEF AuthInv, StoreInv, RequestOK, AuthTypeOK
  <2>2. rec \in UserRec
    BY <1>5, <2>1 DEF AuthInv, AuthTypeOK, UserTable
  <2>3. /\ q \in Request /\ q.kind = reqs[r].kind /\ q.user = reqs[r].user
        /\ q.sid = reqs[r].sid /\ q.snap = rec
    BY <2>1, <2>2 DEF Request
  <2> HIDE DEF q
  <2> DEFINE stage == IF rec.weak THEN "rehash" ELSE AfterVerify(q)
  <2>4. stage \in {"rehash", AfterVerify(reqs[r])} /\ stage \in {"rehash", "set", "answer"}
        /\ (stage = "set" => q.kind = "passwd")
    BY <2>3 DEF AfterVerify
  <2>5. mem'[q.user] = rec
    BY <1>1, <2>3 DEF Refresh
  <2>6. Advance(r, q, stage)
    BY <1>5
  <2> HIDE DEF stage, rec
  <2>7. RequestsStep
    BY <1>1, <2>2, <2>3, <2>4, <2>5, <2>6, RequestsAdvance
  <2>8. Alone(r)
    BY <2>3, <2>4, <2>6, AdvanceAlone
  <2> QED
    BY <1>2, <1>3, <2>7, <2>8 DEF AuthStep
<1> QED
  BY <1>4, <1>5 DEF Verify

LEMMA RehashStep ==
  ASSUME AuthInv, NEW r \in Reqs, Rehash(r)
  PROVE  AuthStep
<1> DEFINE q == reqs[r]
           rec == file[q.user]
<1>1. q.stage = "rehash" /\ sessions' = Kept /\ UNCHANGED <<now, next, used, reused>>
  BY DEF Rehash
<1>2. /\ q \in Request /\ q.user \in Users /\ q.snap \in UserRec
      /\ rec \in UserRec \cup {None}
      /\ Shrunk(sessions', Kept)
  BY <1>1, KeptFacts, ShrunkRefl DEF AuthInv, StoreInv, RequestOK, AuthTypeOK, UserTable
<1>3. next \in Counters /\ next.sid <= next'.sid
  BY <1>1, CounterFacts
<1>4. CASE rec = None
  <2>1. Refresh /\ Ended(r) /\ UNCHANGED stale
    BY <1>4, EndFacts DEF Rehash, AuthInv, AuthTypeOK
  <2>2. Quiet
    BY <1>1, <2>1, QuietAlone DEF Ended
  <2> QED
    BY <1>1, <1>2, <1>3, <2>1, <2>2, AccountsRefresh, SessionsRefresh, RequestsEnded, CountersCalm
       DEF AuthStep, AuthInv, AuthTypeOK
<1>5. CASE rec # None
  <2> DEFINE hashed == [rec EXCEPT !.secret = q.snap.secret, !.weak = FALSE]
  <2>1. q.snap.secret \in Nat /\ rec \in UserRec
    BY <1>2, <1>5 DEF UserRec
  <2>2. /\ hashed \in UserRec /\ hashed.secret = q.snap.secret /\ hashed.key = rec.key
        /\ hashed.must => rec.must
    BY <2>1, PasswordFacts
  <2>3. /\ Write(q.user, hashed)
        /\ Advance(r, q, AfterVerify(q))
        /\ stale' = (stale \/ rec.secret # q.snap.secret)
    BY <1>5 DEF Rehash
  <2>4. AfterVerify(q) \in {"set", "answer"} /\ (AfterVerify(q) = "set" => q.kind = "passwd")
    BY DEF AfterVerify
  <2>5. stale' \in BOOLEAN /\ (stale => stale') /\ (rec.secret # q.snap.secret => stale')
    BY <2>3 DEF AuthInv, AuthTypeOK
  <2> HIDE DEF hashed
  <2>6. AccountsStep
    BY <1>2, <1>5, <2>2, <2>3, AccountsWrite DEF Owes
  <2>7. RequestsStep /\ Alone(r)
    BY <1>1, <1>2, <2>3, <2>4, RequestsAdvance, AdvanceAlone
  <2>8. Quiet
    BY <1>1, <2>5, <2>7, QuietAlone
  <2>9. ASSUME NEW u \in Users, Calm(stale', reqs', u)
        PROVE  Known(mem'[u]) = Known(file[u])
    <3>1. mem'[q.user] = hashed /\ (u # q.user => mem'[u] = file[u])
      BY <1>2, <2>2, <2>3, WriteFacts DEF AuthInv, AuthTypeOK
    <3>2. rec.secret = q.snap.secret
      BY <2>5, <2>9 DEF Calm
    <3>3. hashed # None
      BY <2>2, NoneAssumption
    <3>4. Known(hashed) = Known(rec)
      BY <1>5, <2>2, <3>2, <3>3 DEF Known
    <3> QED
      BY <3>1, <3>4
  <2>10. SessionsStep
    BY <1>2, <2>8, <2>9, SessionsKept
  <2> QED
    BY <1>1, <1>3, <2>5, <2>6, <2>7, <2>10, CountersCalm DEF AuthStep
<1> QED
  BY <1>4, <1>5

LEMMA SetPasswordStep ==
  ASSUME AuthInv, NEW r \in Reqs, SetPassword(r)
  PROVE  AuthStep
<1> DEFINE q == reqs[r]
           rec == file[q.user]
<1>1. q.stage = "set" /\ sessions' = Kept /\ UNCHANGED <<now, used, reused>>
  BY DEF SetPassword
<1>2. /\ q \in Request /\ q.user \in Users /\ q.snap \in UserRec /\ q.kind = "passwd"
      /\ rec \in UserRec \cup {None}
      /\ Shrunk(sessions', Kept) /\ RequestOK(q)
  BY <1>1, KeptFacts, ShrunkRefl DEF AuthInv, StoreInv, RequestOK, AuthTypeOK, UserTable
<1>3. CASE rec = None
  <2>1. Refresh /\ Ended(r) /\ UNCHANGED <<next, stale>>
    BY <1>3, EndFacts DEF SetPassword, AuthInv, AuthTypeOK
  <2>2. Quiet
    BY <1>1, <2>1, QuietAlone DEF Ended
  <2>3. next \in Counters /\ next.sid <= next'.sid
    BY <2>1, CounterFacts
  <2> QED
    BY <1>1, <1>2, <2>1, <2>2, <2>3, AccountsRefresh, SessionsRefresh, RequestsEnded, CountersCalm
       DEF AuthStep, AuthInv, AuthTypeOK
<1>4. CASE rec # None
  <2> DEFINE set == [rec EXCEPT !.secret = next.secret, !.weak = FALSE, !.must = FALSE]
  <2>1. /\ next' \in Counters /\ next'.sid = next.sid /\ next.secret \in Nat
        /\ next.sid <= next'.sid
    BY <1>4 DEF SetPassword, AuthInv, AuthTypeOK, Counters
  <2>2. set \in UserRec /\ ~set.must
    BY <1>2, <1>4, <2>1, PasswordFacts
  <2>3. /\ Write(q.user, set)
        /\ Advance(r, q, "answer")
        /\ stale' = (stale \/ q.gone)
    BY <1>4 DEF SetPassword
  <2>4. stale' \in BOOLEAN /\ (stale => stale') /\ (q.gone => stale')
    BY <1>2, <2>3 DEF AuthInv, AuthTypeOK, Request
  <2> HIDE DEF set
  <2>5. AccountsStep
    BY <1>2, <2>2, <2>3, AccountsWrite
  <2>6. \/ Ended(r) /\ q.gone
        \/ Moved(r, q, "answer")
    BY <1>2, <2>3, AdvanceFacts DEF AuthInv, AuthTypeOK
  <2>7. mem'[q.user] = set /\ \A u \in Users : u # q.user => mem'[u] = file[u]
    BY <1>2, <2>2, <2>3, WriteFacts DEF AuthInv, AuthTypeOK
  <2>8. RequestsStep
    <3>1. CASE Moved(r, q, "answer")
      <4>1. RequestOK(reqs[r])'
        BY <1>1, <1>2, <2>1, <3>1 DEF RequestOK, Moved
      <4>2. Held(reqs[r], reqs'[r])
        BY <1>1, <2>2, <2>7, <3>1 DEF Held, Moved, Owes
      <4> QED
        BY <2>1, <3>1, <4>1, <4>2, RequestsAlone DEF Moved
    <3> QED
      BY <2>1, <2>6, <3>1, RequestsEnded
  <2>9. Quiet
    BY <1>1, <2>4, <2>6, QuietAlone DEF Ended, Moved
  <2>10. ~Calm(stale', reqs', q.user)
    BY <1>2, <2>4, <2>6 DEF Calm, Moved
  <2>11. SessionsStep
    BY <1>2, <2>7, <2>9, <2>10, SessionsKept
  <2> QED
    BY <1>1, <2>1, <2>4, <2>5, <2>8, <2>11, CountersCalm DEF AuthStep
<1> QED
  BY <1>3, <1>4

(* A session is opened beside those of base that are left.                  *)
LEMMA SessionsOpened ==
  ASSUME AuthInv, NewSid, NEW base, NEW u \in Users, NEW known, Opened(sessions', base, u, known),
         \A s \in Sids : base[s] # None /\ Same(sessions'[s], base[s]) => Carried(s),
         known # None => known = Known(mem'[u]),
         Owes(mem', u) /\ sessions'[next.sid] # None => sessions'[next.sid].must
  PROVE  SessionsStep
<1> SUFFICES ASSUME NEW s \in Sids, sessions'[s] # None, ~Carried(s)
             PROVE  Fresh(s) /\ next.sid < next'.sid
  BY DEF SessionsStep, Opened
<1>1. s = next.sid /\ Clean(sessions'[s], u, known)
  BY DEF Opened
<1>2. next.sid < next'.sid
  BY CounterFacts
<1> QED
  BY <1>1, <1>2 DEF Fresh, Clean

LEMMA NextSidFree ==
  ASSUME AuthInv, NewSid
  PROVE  sessions[next.sid] = None
  BY CounterFacts DEF AuthInv, StoreInv

(* The code is recorded: the account keeps its credentials.                 *)
LEMMA AcceptedFacts ==
  ASSUME AuthInv, NEW r \in Reqs, reqs[r].stage = "answer", NEW c,
         c \in Factors(reqs[r].snap), c # 0, Noted(reqs[r].user, c),
         Write(reqs[r].user, WithCounter(file[reqs[r].user], c)),
         Spend(reqs[r].user, reqs[r].snap.key, c)
  PROVE  /\ AccountsStep
         /\ \A u \in Users : Known(mem'[u]) = Known(file[u])
         /\ used' \subseteq Nat \X Nat /\ reused' \in BOOLEAN
<1> DEFINE q == reqs[r]
           rec == file[q.user]
           noted == WithCounter(rec, c)
<1>1. q.user \in Users /\ q.snap \in UserRec
  BY DEF AuthInv, StoreInv, RequestOK
<1>2. rec \in UserRec
  BY <1>1 DEF Noted, AuthInv, AuthTypeOK, UserTable
<1>3. c \in Nat /\ q.snap.key \in Nat
  BY <1>1, CodeFacts DEF AuthInv, AuthTypeOK, UserRec
<1>4. /\ noted \in UserRec /\ noted.secret = rec.secret /\ noted.key = rec.key
      /\ noted.must => rec.must
  BY <1>2, <1>3, FactorFacts
<1>5. Write(q.user, noted)
  OBVIOUS
<1>6. Known(noted) = Known(rec)
  BY <1>2, <1>4, NoneAssumption DEF Known
<1> HIDE DEF noted
<1>7. AccountsStep
  BY <1>1, <1>2, <1>4, <1>5, AccountsWrite, NoneAssumption DEF Owes
<1>8. \A u \in Users : Known(mem'[u]) = Known(file[u])
  BY <1>1, <1>4, <1>5, <1>6, WriteFacts DEF AuthInv, AuthTypeOK
<1>9. used' \subseteq Nat \X Nat /\ reused' \in BOOLEAN
  <2>1. used \subseteq Nat \X Nat /\ reused \in BOOLEAN /\ <<q.snap.key, c>> \in Nat \X Nat
    BY <1>3 DEF AuthInv, AuthTypeOK
  <2>2. CASE UNCHANGED <<used, reused>>
    BY <2>1, <2>2
  <2>3. CASE /\ used' = used \cup {<<q.snap.key, c>>}
             /\ reused' = (reused \/ <<q.snap.key, c>> \in used)
    BY <2>1, <2>3
  <2> QED
    BY <2>2, <2>3 DEF Spend
<1> QED
  BY <1>7, <1>8, <1>9

(* What a request that presents a code relies on.                           *)
AnswerFacts(r) ==
  /\ reqs[r] \in Request /\ RequestOK(reqs[r]) /\ RequestInv(reqs[r])
  /\ reqs[r].user \in Users /\ reqs[r].snap \in UserRec /\ reqs[r].at \in Nat

LEMMA Answer ==
  ASSUME AuthInv, NEW r \in Reqs, reqs[r].stage = "answer"
  PROVE  AnswerFacts(r)
<1>1. reqs[r] \in Request /\ RequestOK(reqs[r]) /\ RequestInv(reqs[r])
  BY DEF AuthInv, AuthTypeOK, StoreInv, CalmInv
<1> QED
  BY <1>1 DEF AnswerFacts, RequestOK, Request

LEMMA LoginStep ==
  ASSUME AuthInv, NEW r \in Reqs, NEW c, Login(r, c)
  PROVE  AuthStep
<1> DEFINE q == reqs[r]
           known == Known(UsersAfter(c)[q.user])
           in == SignIn(SessionsAfter(c), q.sid, q.user, c # 0, q.at, known)
           then == NewSid /\ sessions' = IF q.snap.must THEN Restrict(in, next.sid) ELSE in
<1>1. q.stage = "answer" /\ q.kind = "login" /\ c \in Factors(q.snap) /\ Ended(r) /\ UNCHANGED now
  BY EndFacts DEF Login, AuthInv, AuthTypeOK
<1>2. AnswerFacts(r)
  BY <1>1, Answer
<1>3. SessionsAfter(c) \in Table /\ Shrunk(SessionsAfter(c), sessions) /\ known \in Creds \cup {None}
  <2>1. SessionsAfter(c) \in Table /\ Shrunk(SessionsAfter(c), sessions)
    BY KeptFacts, ShrunkRefl DEF SessionsAfter, AuthInv, AuthTypeOK
  <2>2. UsersAfter(c)[q.user] \in UserRec \cup {None}
    BY <1>2 DEF UsersAfter, AuthInv, AuthTypeOK, UserTable, AnswerFacts
  <2> QED
    BY <2>1, <2>2, KnownFacts
<1>4. Opened(in, SessionsAfter(c), q.user, known)
  <2>1. q.sid \in Sids \cup {None} /\ (c # 0) \in BOOLEAN
    BY <1>2 DEF AnswerFacts, Request
  <2> QED
    BY <1>2, <1>3, <2>1, SignInFacts DEF AnswerFacts
<1>5. (stale' = stale) => Quiet
  BY <1>1, QuietAlone DEF Ended
<1>6. ASSUME then, stale' = stale, AccountsStep,
             \A s \in Sids : SessionsAfter(c)[s] # None /\ Same(sessions'[s], SessionsAfter(c)[s]) =>
               Carried(s),
             known # None => known = Known(mem'[q.user])
      PROVE  SessionsStep
  <2> HIDE DEF in, known
  <2>1. SessionsAfter(c)[next.sid] = None /\ next.sid \in Sids
    BY <1>3, <1>6, NextSidFree, CounterFacts DEF Shrunk
  <2>2. Owes(mem', q.user) => q.snap.must
    BY <1>1, <1>2, <1>6 DEF AccountsStep, AnswerFacts, RequestInv
  <2>3. CASE q.snap.must
    <3>1. sessions' = Restrict(in, next.sid)
      BY <1>6, <2>3
    <3>2. /\ Opened(sessions', SessionsAfter(c), q.user, known)
          /\ sessions'[next.sid] # None => sessions'[next.sid].must
      BY <1>4, <2>1, <3>1, RestrictFacts
    <3> QED
      BY <1>2, <1>6, <3>2, SessionsOpened DEF AnswerFacts
  <2>4. CASE ~q.snap.must
    <3>1. sessions' = in
      BY <1>6, <2>4
    <3> QED
      BY <1>2, <1>4, <1>6, <2>2, <2>4, <3>1, SessionsOpened DEF AnswerFacts
  <2> QED
    BY <2>3, <2>4
<1>7. NewSid => next' \in Counters /\ next.sid <= next'.sid
  BY CounterFacts
<1>8. CASE c = 0 /\ then /\ UNCHANGED <<file, mem, fresh, history>>
  <2>1. UNCHANGED <<file, mem, fresh, used, reused, stale>>
    BY <1>8 DEF history
  <2>2. AccountsStep /\ SessionsAfter(c) = sessions /\ known = Known(mem'[q.user])
    BY <1>8, <2>1, AccountsSame DEF SessionsAfter, UsersAfter
  <2>3. SessionsStep
    BY <1>5, <1>6, <1>8, <2>1, <2>2, CarrySame
  <2> QED
    BY <1>1, <1>7, <1>8, <2>1, <2>2, <2>3, RequestsEnded, CountersCalm
       DEF AuthStep, AuthInv, AuthTypeOK
<1>9. CASE /\ c # 0 /\ Noted(q.user, c) /\ then
           /\ Write(q.user, WithCounter(file[q.user], c))
           /\ Spend(q.user, q.snap.key, c) /\ UNCHANGED stale
  <2>1. /\ AccountsStep
        /\ \A u \in Users : Known(mem'[u]) = Known(file[u])
        /\ used' \subseteq Nat \X Nat /\ reused' \in BOOLEAN
    BY <1>1, <1>9, AcceptedFacts
  <2>2. SessionsAfter(c) = Kept /\ known = Known(mem'[q.user])
    BY <1>2, <1>9, <2>1 DEF SessionsAfter, UsersAfter, AnswerFacts
  <2>3. \A s \in Sids : Kept[s] # None /\ Same(sessions'[s], Kept[s]) => Carried(s)
    <3>1. \A s \in Sids : Kept[s] # None => sessions[s].user \in Users
      BY KeptFacts DEF AuthInv, AuthTypeOK, Shrunk, Table, Session
    <3> QED
      BY <1>5, <1>9, <2>1, <3>1, CarryKept
  <2>4. SessionsStep
    BY <1>6, <1>9, <2>1, <2>2, <2>3
  <2>5. CountersStep
    BY <1>1, <1>7, <1>9, <2>1 DEF CountersStep, AuthInv, AuthTypeOK
  <2> QED
    BY <1>1, <1>7, <1>9, <2>1, <2>4, <2>5, RequestsEnded DEF AuthStep
<1>10. CASE c # 0 /\ sessions' = Kept /\ Refresh /\ UNCHANGED <<next, history>>
  <2>1. UNCHANGED <<next, used, reused, stale>>
    BY <1>10 DEF history
  <2>2. Shrunk(sessions', Kept)
    BY <1>10, KeptFacts, ShrunkRefl DEF AuthInv, AuthTypeOK
  <2> QED
    BY <1>1, <1>5, <1>10, <2>1, <2>2, AccountsRefresh, SessionsRefresh, RequestsEnded, CountersCalm,
       CounterFacts DEF AuthStep, AuthInv, AuthTypeOK
<1> QED
  BY <1>8, <1>9, <1>10 DEF Login, Accept

(* A step-up whose session is left rests on the credentials in force.       *)
LEMMA CarryStepped ==
  ASSUME AuthInv, Quiet, NEW r \in Reqs, reqs[r].stage = "answer", reqs[r].kind = "reauth",
         NEW s \in Sids, s = reqs[r].sid, sessions[s] # None,
         sessions'[s].by = Known(reqs[r].snap),
         sessions'[s].user = sessions[s].user, sessions'[s].must = sessions[s].must,
         sessions'[s].born = sessions[s].born,
         sessions'[s].pending = sessions[s].pending \/ sessions'[s].pending = None,
         LET u == sessions[s].user IN
         Calm(stale', reqs', u) => mem[u] = None \/ Known(mem'[u]) = Known(mem[u])
  PROVE  Carried(s)
<1> DEFINE u == sessions[s].user
<1>1. AnswerFacts(r)
  BY Answer
<1>2. u = reqs[r].user /\ u \in Users
  BY <1>1 DEF AnswerFacts, RequestInv
<1>3. mem[u] \in UserRec \cup {None} /\ reqs[r].snap # None
  BY <1>1, <1>2, NoneAssumption DEF AnswerFacts, AuthInv, AuthTypeOK, UserTable
<1>4. ASSUME Calm(stale', reqs', u)
      PROVE  /\ Calm(stale, reqs, u)
             /\ Known(reqs[r].snap) # None /\ Known(reqs[r].snap) = Known(mem'[u])
             /\ mem[u] = None \/ Known(mem'[u]) = Known(mem[u])
  <2>1. Calm(stale, reqs, u)
    BY <1>2, <1>4 DEF Quiet
  <2>2. Known(reqs[r].snap) = Known(mem[u])
    BY <1>1, <1>2, <2>1 DEF AnswerFacts, RequestInv
  <2>3. Known(reqs[r].snap) # None
    BY <1>1, <1>3, KnownFacts DEF AnswerFacts
  <2> QED
    BY <1>3, <1>4, <2>1, <2>2, <2>3, KnownFacts
<1> QED
  BY <1>4 DEF Carried

LEMMA ReauthStep ==
  ASSUME AuthInv, NEW r \in Reqs, NEW c, Reauth(r, c)
  PROVE  AuthStep
<1> DEFINE q == reqs[r]
           then == sessions' = StepUp(SessionsAfter(c), q.sid, q.at, Known(q.snap)) /\ UNCHANGED next
<1>1. q.stage = "answer" /\ q.kind = "reauth" /\ c \in Factors(q.snap) /\ Ended(r) /\ UNCHANGED now
  BY EndFacts DEF Reauth, AuthInv, AuthTypeOK
<1>2. AnswerFacts(r) /\ q.sid \in Sids
  BY <1>1, Answer DEF AnswerFacts, RequestOK
<1>3. SessionsAfter(c) \in Table /\ Shrunk(SessionsAfter(c), sessions)
  BY KeptFacts, ShrunkRefl DEF SessionsAfter, AuthInv, AuthTypeOK
<1>4. (stale' = stale) => Quiet
  BY <1>1, QuietAlone DEF Ended
<1>5. next \in Counters /\ next.sid <= next.sid
  BY CounterFacts
<1>6. ASSUME then, stale' = stale,
             \A s \in Sids : SessionsAfter(c)[s] # None =>
               LET u == sessions[s].user IN
               mem[u] = None \/ Known(mem'[u]) = Known(mem[u])
      PROVE  SessionsStep
  <2>1. SteppedUp(sessions', SessionsAfter(c), q.sid, Known(q.snap))
    BY <1>2, <1>3, <1>6, StepUpFacts, KnownFacts DEF AnswerFacts
  <2> SUFFICES ASSUME NEW s \in Sids, sessions'[s] # None
               PROVE  Carried(s)
    BY <2>1 DEF SessionsStep, SteppedUp
  <2>2. /\ SessionsAfter(c)[s] # None /\ sessions[s] # None
        /\ Same(SessionsAfter(c)[s], sessions[s]) /\ sessions[s].user \in Users
    BY <1>3, <2>1 DEF SteppedUp, Shrunk, AuthInv, AuthTypeOK, Table, Session
  <2>3. CASE Same(sessions'[s], SessionsAfter(c)[s])
    BY <1>4, <1>6, <2>2, <2>3 DEF Same, Carried, Quiet
  <2>4. CASE ~Same(sessions'[s], SessionsAfter(c)[s])
    <3>1. /\ s = q.sid /\ sessions'[s].by = Known(q.snap)
          /\ sessions'[s].user = sessions[s].user /\ sessions'[s].must = sessions[s].must
          /\ sessions'[s].born = sessions[s].born
          /\ sessions'[s].pending = sessions[s].pending \/ sessions'[s].pending = None
      BY <2>1, <2>2, <2>4 DEF SteppedUp, Same
    <3> QED
      BY <1>1, <1>4, <1>6, <2>2, <3>1, CarryStepped
  <2> QED
    BY <2>3, <2>4
<1>7. CASE c = 0 /\ then /\ UNCHANGED <<file, mem, fresh, history>>
  <2>1. UNCHANGED <<file, mem, fresh, used, reused, stale, next>>
    BY <1>7 DEF history
  <2>2. SessionsStep
    BY <1>6, <1>7, <2>1
  <2> QED
    BY <1>1, <1>5, <2>1, <2>2, AccountsSame, RequestsEnded, CountersCalm
       DEF AuthStep, AuthInv, AuthTypeOK
<1>8. CASE /\ c # 0 /\ Noted(q.user, c) /\ then
           /\ Write(q.user, WithCounter(file[q.user], c))
           /\ Spend(q.user, q.snap.key, c) /\ UNCHANGED stale
  <2>1. /\ AccountsStep
        /\ \A u \in Users : Known(mem'[u]) = Known(file[u])
        /\ used' \subseteq Nat \X Nat /\ reused' \in BOOLEAN
    BY <1>1, <1>8, AcceptedFacts
  <2>2. ASSUME NEW s \in Sids, SessionsAfter(c)[s] # None
        PROVE  LET u == sessions[s].user IN
               mem[u] = None \/ Known(mem'[u]) = Known(mem[u])
    <3>1. Kept[s] # None
      BY <1>8, <2>2 DEF SessionsAfter
    <3>2. sessions[s].user \in Users
      BY <3>1, KeptFacts DEF AuthInv, AuthTypeOK, Shrunk, Table, Session
    <3> QED
      BY <2>1, <3>1, <3>2, KeptKnown DEF AuthInv, AuthTypeOK, StoreInv
  <2>3. SessionsStep
    BY <1>6, <1>8, <2>2
  <2>4. CountersStep
    BY <1>1, <1>5, <1>8, <2>1 DEF CountersStep, AuthInv, AuthTypeOK
  <2> QED
    BY <1>1, <1>5, <1>8, <2>1, <2>3, <2>4, RequestsEnded DEF AuthStep
<1>9. CASE c # 0 /\ sessions' = Kept /\ Refresh /\ UNCHANGED <<next, history>>
  <2>1. UNCHANGED <<next, used, reused, stale>>
    BY <1>9 DEF history
  <2>2. Shrunk(sessions', Kept)
    BY <1>9, KeptFacts, ShrunkRefl DEF AuthInv, AuthTypeOK
  <2> QED
    BY <1>1, <1>4, <1>5, <1>9, <2>1, <2>2, AccountsRefresh, SessionsRefresh, RequestsEnded,
       CountersCalm DEF AuthStep, AuthInv, AuthTypeOK
<1> QED
  BY <1>7, <1>8, <1>9 DEF Reauth, Accept

LEMMA ReplacePasswordStep ==
  ASSUME AuthInv, NEW r \in Reqs, ReplacePassword(r)
  PROVE  AuthStep
<1> DEFINE q == reqs[r]
           rest == RevokeSubject(sessions, {q.user})
<1>1. /\ q.stage = "answer" /\ q.kind = "passwd" /\ NewSid /\ Ended(r)
      /\ sessions' = Create(rest, q.user, q.totp, q.at, Known(mem[q.user]))
      /\ UNCHANGED <<file, mem, fresh, now, used, reused, stale>>
  BY EndFacts DEF ReplacePassword, AuthInv, AuthTypeOK, history
<1>2. AnswerFacts(r) /\ q.totp \in BOOLEAN /\ mem[q.user] \in UserRec \cup {None}
      /\ sessions \in Table
  BY <1>1, Answer DEF AnswerFacts, Request, AuthInv, AuthTypeOK, UserTable
<1>3. ~Owes(mem, q.user)
  BY <1>1, <1>2 DEF AnswerFacts, RequestInv
<1>4. /\ Shrunk(rest, sessions) /\ rest \in Table
      /\ \A s \in Sids : rest[s] # None => sessions[s].user # q.user
  BY <1>2, RevokeFacts DEF Shrunk
<1> HIDE DEF rest
<1>5. Opened(sessions', rest, q.user, Known(mem[q.user]))
  BY <1>1, <1>2, <1>4, CreateFacts, KnownFacts DEF AnswerFacts
<1>6. ASSUME NEW s \in Sids, rest[s] # None, Same(sessions'[s], rest[s])
      PROVE  Carried(s)
  <2>1. sessions[s] # None /\ Same(rest[s], sessions[s]) /\ sessions[s].user # q.user
    BY <1>4, <1>6 DEF Shrunk
  <2>2. Calm(stale', reqs', sessions[s].user) => Calm(stale, reqs, sessions[s].user)
    BY <1>1, <2>1 DEF Calm, Ended, Alone
  <2> QED
    BY <1>1, <1>6, <2>1, <2>2 DEF Carried, Same
<1>7. SessionsStep
  BY <1>1, <1>2, <1>3, <1>5, <1>6, SessionsOpened DEF AnswerFacts
<1>8. next' \in Counters /\ next.sid <= next'.sid
  BY <1>1, CounterFacts
<1> QED
  BY <1>1, <1>7, <1>8, AccountsSame, RequestsEnded, CountersCalm DEF AuthStep, AuthInv, AuthTypeOK

LEMMA EnrolStep ==
  ASSUME AuthInv, NEW r \in Reqs, Enrol(r)
  PROVE  AuthStep
<1> DEFINE q == reqs[r]
<1>1. /\ q.stage = "answer" /\ q.kind = "enrol" /\ Ended(r)
      /\ UNCHANGED <<file, mem, fresh, now, used, reused, stale>>
  BY EndFacts DEF Enrol, AuthInv, AuthTypeOK, history
<1>2. AnswerFacts(r) /\ q.sid \in Sids /\ sessions \in Table
  BY <1>1, Answer DEF AnswerFacts, RequestOK, AuthInv, AuthTypeOK
<1>3. Quiet
  BY <1>1, QuietAlone DEF Ended
<1>4. next' \in Counters /\ next.sid <= next'.sid /\ next.key \in Nat
  BY CounterFacts DEF Enrol, Counters
<1>5. CASE UNCHANGED sessions
  BY <1>1, <1>2, <1>3, <1>4, <1>5, AccountsSame, SessionsSame, ShrunkRefl, RequestsEnded,
     CountersCalm DEF AuthStep, AuthInv, AuthTypeOK
<1>6. CASE sessions' = SetPending(sessions, q.sid, next.key, q.at) /\ next' = [next EXCEPT !.key = @ + 1]
  <2>0. next'.key # next.key
    BY <1>4, <1>6 DEF AuthInv, AuthTypeOK
  <2>1. Pended(sessions', sessions, q.sid, next.key)
    BY <1>2, <1>4, <1>6, SetPendingFacts DEF AnswerFacts
  <2>2. SessionsStep
    <3> SUFFICES ASSUME NEW s \in Sids, sessions'[s] # None
                 PROVE  Carried(s)
      BY <2>1 DEF SessionsStep, Pended
    <3>1. sessions[s] # None /\ sessions[s].user \in Users
      BY <1>2, <2>1 DEF Pended, Table, Session
    <3> QED
      BY <1>1, <1>3, <2>0, <2>1, <3>1 DEF Pended, Same, Carried, Quiet
  <2> QED
    BY <1>1, <1>4, <2>2, AccountsSame, RequestsEnded, CountersCalm DEF AuthStep, AuthInv, AuthTypeOK
<1> QED
  BY <1>5, <1>6 DEF Enrol

LEMMA ClearedFacts ==
  ASSUME NEW table \in Table, NEW sid \in Sids, table[sid] # None
  PROVE  Shrunk([table EXCEPT ![sid].pending = None], table)
<1>1. table[sid] \in Session
  BY DEF Table
<1> DEFINE t == [table[sid] EXCEPT !.pending = None]
<1>2. t \in Session /\ Same(t, table[sid])
  BY <1>1 DEF Session, Same
<1> HIDE DEF t
<1>3. [table EXCEPT ![sid] = t] \in Table
  BY <1>2 DEF Table
<1>4. Shrunk([table EXCEPT ![sid] = t], table)
  BY <1>2, <1>3 DEF Shrunk, Same, Table
<1> QED
  BY <1>4 DEF t

(* renew_session: the account changed, its sessions end and one is opened.  *)
LEMMA SessionsRenewed ==
  ASSUME AuthInv, Quiet, NewSid, NEW u \in Users, NEW totp \in BOOLEAN, NEW at \in Nat,
         sessions' = Create(RevokeSubject(Kept, {u}), u, totp, at, Known(mem'[u])),
         AccountsStep, \A v \in Users : v # u => mem'[v] = file[v], ~Owes(mem, u)
  PROVE  SessionsStep
<1> DEFINE rest == RevokeSubject(Kept, {u})
<1>1. Kept \in Table /\ Shrunk(Kept, sessions)
  BY KeptFacts DEF AuthInv, AuthTypeOK
<1>2. /\ Shrunk(rest, Kept) /\ rest \in Table
      /\ \A s \in Sids : rest[s] # None => Kept[s].user # u
  BY <1>1, RevokeFacts DEF Shrunk
<1>3. Known(mem'[u]) \in Creds \cup {None}
  BY KnownFacts DEF AccountsStep, UserTable
<1> HIDE DEF rest
<1>4. Opened(sessions', rest, u, Known(mem'[u]))
  BY <1>2, <1>3, CreateFacts DEF rest
<1>5. ASSUME NEW s \in Sids, rest[s] # None, Same(sessions'[s], rest[s])
      PROVE  Carried(s)
  <2>1. /\ Kept[s] # None /\ Same(sessions'[s], Kept[s])
        /\ sessions[s].user \in Users /\ sessions[s].user # u
    BY <1>1, <1>2, <1>5 DEF Shrunk, Same, Table, Session
  <2> QED
    BY <2>1, CarryKept
<1>6. ~Owes(mem', u)
  BY DEF AccountsStep
<1> QED
  BY <1>4, <1>5, <1>6, SessionsOpened

LEMMA PendingFacts ==
  ASSUME AuthInv, NEW sid \in Sids, PendingKey(Kept, sid, now) # None
  PROVE  /\ Kept[sid] # None /\ Kept[sid].pending # None
         /\ PendingKey(Kept, sid, now) = Kept[sid].pending.key
         /\ PendingKey(Kept, sid, now) \in Nat
<1>1. Kept \in Table
  BY KeptFacts DEF AuthInv, AuthTypeOK
<1> QED
  BY <1>1 DEF PendingKey, Table, Session, PendingRec

LEMMA ConfirmStep ==
  ASSUME AuthInv, NEW r \in Reqs, NEW c, Confirm(r, c)
  PROVE  AuthStep
<1> DEFINE q == reqs[r]
           rec == file[q.user]
           key == PendingKey(Kept, q.sid, now)
           enrolled == [rec EXCEPT !.key = key, !.last = c]
<1>1. q.stage = "body" /\ q.kind = "confirm" /\ c \in Codes(0) /\ Ended(r) /\ UNCHANGED now
  BY EndFacts DEF Confirm, AuthInv, AuthTypeOK
<1>2. q.user \in Users /\ q.sid \in Sids /\ ~Owes(mem, q.user) /\ rec \in UserRec \cup {None}
  BY <1>1 DEF AuthInv, StoreInv, CalmInv, RequestOK, RequestInv, AuthTypeOK, UserTable
<1>3. (stale => stale') => Quiet
  BY <1>1, QuietAlone DEF Ended
<1>4. Kept \in Table
  BY KeptFacts DEF AuthInv, AuthTypeOK
<1>5. CASE Refresh /\ Shrunk(sessions', Kept) /\ UNCHANGED <<next, used, reused, stale>>
  BY <1>1, <1>3, <1>5, AccountsRefresh, SessionsRefresh, RequestsEnded, CountersCalm, CounterFacts
     DEF AuthStep, AuthInv, AuthTypeOK
<1>6. CASE /\ key # None /\ rec # None /\ NewSid /\ Write(q.user, enrolled)
           /\ sessions' = Create(RevokeSubject(Kept, {q.user}), q.user, TRUE, now, Known(enrolled))
           /\ used' = used \cup {<<key, c>>} /\ UNCHANGED <<reused, stale>>
  <2>1. key \in Nat /\ c \in Nat
    BY <1>1, <1>2, <1>6, PendingFacts, Bounds DEF Codes, AuthInv, AuthTypeOK
  <2>2. enrolled \in UserRec /\ (enrolled.must => rec.must)
    BY <1>2, <1>6, <2>1, FactorFacts
  <2>3. rec.must => Owes(file, q.user)
    BY <1>6 DEF Owes
  <2> HIDE DEF enrolled, key, rec
  <2>4. AccountsStep
    BY <1>2, <1>6, <2>2, <2>3, AccountsWrite
  <2>5. mem'[q.user] = enrolled /\ \A v \in Users : v # q.user => mem'[v] = file[v]
    BY <1>2, <1>6, <2>2, WriteFacts DEF AuthInv, AuthTypeOK
  <2>6. SessionsStep
    <3>1. now \in Nat /\ TRUE \in BOOLEAN
      BY DEF AuthInv, AuthTypeOK
    <3> QED
      BY <1>2, <1>3, <1>6, <2>4, <2>5, <3>1, SessionsRenewed
  <2>7. next' \in Counters /\ next.sid <= next'.sid
    BY <1>6, CounterFacts
  <2>8. CountersStep
    BY <1>1, <1>6, <2>1, <2>7 DEF CountersStep, AuthInv, AuthTypeOK
  <2> QED
    BY <1>1, <2>4, <2>6, <2>7, <2>8, RequestsEnded DEF AuthStep
<1>7. CASE (rec # None /\ rec.key # None) \/ key = None
  <2>1. Refresh /\ sessions' = Kept /\ UNCHANGED <<next, used, reused, stale>>
    BY <1>7 DEF Confirm, history
  <2> QED
    BY <1>4, <1>5, <2>1, ShrunkRefl
<1>8. ASSUME key # None PROVE Shrunk([Kept EXCEPT ![q.sid].pending = None], Kept)
  BY <1>2, <1>4, <1>8, PendingFacts, ClearedFacts
<1>9. CASE /\ key # None /\ Refresh /\ UNCHANGED <<next, history>>
           /\ sessions' = [Kept EXCEPT ![q.sid].pending = None]
  BY <1>5, <1>8, <1>9 DEF history
<1>10. ASSUME key # None, rec # None, NEW last \in {0, c},
              Write(q.user, [rec EXCEPT !.key = key, !.last = last]),
              sessions' = [Kept EXCEPT ![q.sid].pending = None],
              stale' = TRUE, UNCHANGED <<next, used, reused>>
       PROVE  AuthStep
  <2> DEFINE half == [rec EXCEPT !.key = key, !.last = last]
  <2>1. key \in Nat /\ last \in Nat
    BY <1>1, <1>2, <1>10, PendingFacts, Bounds DEF Codes, AuthInv, AuthTypeOK
  <2>2. half \in UserRec /\ (half.must => rec.must)
    BY <1>2, <1>10, <2>1, FactorFacts
  <2>3. rec.must => Owes(file, q.user)
    BY <1>10 DEF Owes
  <2>4. Write(q.user, half)
    BY <1>10
  <2> HIDE DEF half
  <2>5. AccountsStep
    BY <1>2, <2>2, <2>3, <2>4, AccountsWrite
  <2>6. SessionsStep
    BY <1>3, <1>8, <1>10, SessionsKept DEF Calm
  <2> QED
    BY <1>1, <1>10, <2>5, <2>6, RequestsEnded, CountersCalm, CounterFacts DEF AuthStep
<1>11. CASE /\ key # None /\ rec # None /\ Lands(q.user, [rec EXCEPT !.key = key, !.last = 0])
            /\ mem' = file /\ sessions' = [Kept EXCEPT ![q.sid].pending = None]
            /\ UNCHANGED <<next, history>>
  <2> DEFINE on == [rec EXCEPT !.key = key, !.last = 0]
  <2>1. key \in Nat /\ 0 \in Nat
    BY <1>2, <1>11, PendingFacts
  <2>2. on \in UserRec /\ (on.must => rec.must)
    BY <1>2, <1>11, <2>1, FactorFacts
  <2>3. rec.must => Owes(file, q.user)
    BY <1>11 DEF Owes
  <2>4. Lands(q.user, on)
    BY <1>11
  <2>5. mem' \in UserTable /\ \A v \in Users : Owes(mem', v) <=> Owes(file, v)
    BY <1>11 DEF Owes, AuthInv, AuthTypeOK
  <2> HIDE DEF on
  <2>6. AccountsStep
    BY <1>2, <2>2, <2>3, <2>4, <2>5, AccountsLands
  <2>7. SessionsStep
    BY <1>3, <1>8, <1>11, SessionsKept DEF history
  <2> QED
    BY <1>1, <1>11, <2>6, <2>7, RequestsEnded, CountersCalm, CounterFacts
       DEF AuthStep, history, AuthInv, AuthTypeOK
<1> QED
  BY <1>6, <1>7, <1>9, <1>10, <1>11 DEF Confirm

LEMMA DisableStep ==
  ASSUME AuthInv, NEW r \in Reqs, NEW c, Disable(r, c)
  PROVE  AuthStep
<1> DEFINE q == reqs[r]
           rec == file[q.user]
           off == [rec EXCEPT !.key = None, !.last = 0]
<1>1. q.stage = "answer" /\ q.kind = "disable" /\ Ended(r) /\ UNCHANGED now
  BY EndFacts DEF Disable, AuthInv, AuthTypeOK
<1>2. AnswerFacts(r) /\ ~Owes(mem, q.user) /\ rec \in UserRec \cup {None}
  BY <1>1, Answer DEF AnswerFacts, RequestInv, AuthInv, AuthTypeOK, UserTable
<1>3. (stale' = stale) => Quiet
  BY <1>1, QuietAlone DEF Ended
<1>4. CASE UNCHANGED <<file, mem, fresh, sessions, next, history>>
  <2>1. UNCHANGED <<used, reused, stale>>
    BY <1>4 DEF history
  <2> QED
    BY <1>1, <1>3, <1>4, <2>1, AccountsSame, SessionsSame, ShrunkRefl, RequestsEnded, CountersCalm,
       CounterFacts DEF AuthStep, AuthInv, AuthTypeOK
<1>5. CASE Refresh /\ sessions' = Kept /\ UNCHANGED <<next, history>>
  <2>1. UNCHANGED <<used, reused, stale>>
    BY <1>5 DEF history
  <2>2. Shrunk(sessions', Kept)
    BY <1>5, KeptFacts, ShrunkRefl DEF AuthInv, AuthTypeOK
  <2> QED
    BY <1>1, <1>3, <1>5, <2>1, <2>2, AccountsRefresh, SessionsRefresh, RequestsEnded, CountersCalm,
       CounterFacts DEF AuthStep, AuthInv, AuthTypeOK
<1>6. CASE /\ q.snap.key # None /\ c \in Codes(q.snap.last) /\ Noted(q.user, c)
           /\ NewSid /\ Write(q.user, off)
           /\ sessions' = Create(RevokeSubject(Kept, {q.user}), q.user, FALSE, q.at, Known(off))
           /\ Spend(q.user, q.snap.key, c) /\ UNCHANGED stale
  <2>1. c \in Nat /\ q.snap.key \in Nat /\ rec \in UserRec
    BY <1>2, <1>6, CodeFacts DEF AnswerFacts, UserRec, Noted, AuthInv, AuthTypeOK
  <2>2. off \in UserRec /\ (off.must => rec.must)
    BY <2>1, FactorFacts
  <2>3. rec.must => Owes(file, q.user)
    BY <1>6 DEF Owes, Noted
  <2> HIDE DEF off, rec
  <2>4. AccountsStep
    BY <1>2, <1>6, <2>2, <2>3, AccountsWrite DEF AnswerFacts
  <2>5. mem'[q.user] = off /\ \A v \in Users : v # q.user => mem'[v] = file[v]
    BY <1>2, <1>6, <2>2, WriteFacts DEF AuthInv, AuthTypeOK, AnswerFacts
  <2>6. SessionsStep
    <3>1. q.at \in Nat /\ FALSE \in BOOLEAN /\ q.user \in Users
      BY <1>2 DEF AnswerFacts
    <3> QED
      BY <1>2, <1>3, <1>6, <2>4, <2>5, <3>1, SessionsRenewed
  <2>7. next' \in Counters /\ next.sid <= next'.sid
    BY <1>6, CounterFacts
  <2>8. used' \subseteq Nat \X Nat /\ reused' \in BOOLEAN
    <3>1. used \subseteq Nat \X Nat /\ reused \in BOOLEAN /\ <<q.snap.key, c>> \in Nat \X Nat
      BY <2>1 DEF AuthInv, AuthTypeOK
    <3>2. CASE UNCHANGED <<used, reused>>
      BY <3>1, <3>2
    <3>3. CASE /\ used' = used \cup {<<q.snap.key, c>>}
               /\ reused' = (reused \/ <<q.snap.key, c>> \in used)
      BY <3>1, <3>3
    <3> QED
      BY <1>6, <3>2, <3>3 DEF Spend
  <2>9. CountersStep
    BY <1>1, <1>6, <2>7, <2>8 DEF CountersStep, AuthInv, AuthTypeOK
  <2> QED
    BY <1>1, <2>4, <2>6, <2>7, <2>9, RequestsEnded DEF AuthStep
<1>7. CASE /\ q.snap.key # None /\ c \in Codes(q.snap.last) /\ Noted(q.user, c)
           /\ Write(q.user, WithCounter(rec, c)) /\ sessions' = Kept
           /\ Spend(q.user, q.snap.key, c) /\ UNCHANGED <<next, stale>>
  <2>1. c \in Factors(q.snap) /\ c # 0
    BY <1>2, <1>7, CodeFacts DEF AnswerFacts, Factors, AuthInv, AuthTypeOK
  <2>2. /\ AccountsStep /\ used' \subseteq Nat \X Nat /\ reused' \in BOOLEAN
        /\ \A u \in Users : Known(mem'[u]) = Known(file[u])
    BY <1>1, <1>7, <2>1, AcceptedFacts
  <2>3. Shrunk(sessions', Kept)
    BY <1>7, KeptFacts, ShrunkRefl DEF AuthInv, AuthTypeOK
  <2>4. SessionsStep
    BY <1>3, <1>7, <2>2, <2>3, SessionsKept
  <2>5. next' \in Counters /\ next.sid <= next'.sid
    BY <1>7, CounterFacts
  <2>6. CountersStep
    BY <1>1, <1>7, <2>2, <2>5 DEF CountersStep, AuthInv, AuthTypeOK
  <2> QED
    BY <1>1, <2>2, <2>4, <2>5, <2>6, RequestsEnded DEF AuthStep
<1>8. CASE /\ q.snap.key # None /\ c \in Codes(q.snap.last) /\ Noted(q.user, c)
           /\ Lands(q.user, off) /\ mem' = [file EXCEPT ![q.user] = WithCounter(rec, c)]
           /\ sessions' = Kept /\ Spend(q.user, q.snap.key, c) /\ UNCHANGED <<next, stale>>
  <2> DEFINE noted == WithCounter(rec, c)
  <2>1. c \in Nat /\ q.snap.key \in Nat /\ rec \in UserRec /\ q.user \in Users
    BY <1>2, <1>8, CodeFacts DEF AnswerFacts, UserRec, Noted, AuthInv, AuthTypeOK
  <2>2. off \in UserRec /\ (off.must => rec.must)
    BY <2>1, FactorFacts
  <2>3. /\ noted \in UserRec /\ noted.secret = rec.secret /\ noted.key = rec.key
        /\ (noted.must <=> rec.must)
    <3>1. noted.must = rec.must
      BY <2>1 DEF WithCounter, UserRec
    <3> QED
      BY <2>1, <3>1, FactorFacts
  <2>4. rec.must => Owes(file, q.user)
    BY <1>8 DEF Owes, Noted
  <2>5. Known(noted) = Known(rec) /\ noted # None /\ rec # None
    BY <2>1, <2>3, NoneAssumption DEF Known
  <2>6. mem' = [file EXCEPT ![q.user] = noted]
    BY <1>8
  <2> HIDE DEF noted, off, rec
  <2>7. /\ mem' \in UserTable /\ mem'[q.user] = noted
        /\ \A v \in Users : v # q.user => mem'[v] = file[v]
    BY <2>1, <2>3, <2>6 DEF AuthInv, AuthTypeOK, UserTable
  <2>8. \A v \in Users : (Owes(mem', v) <=> Owes(file, v)) /\ Known(mem'[v]) = Known(file[v])
    BY <2>3, <2>5, <2>7 DEF Owes, rec
  <2>9. AccountsStep
    BY <1>8, <2>1, <2>2, <2>4, <2>7, <2>8, AccountsLands
  <2>10. Shrunk(sessions', Kept)
    BY <1>8, KeptFacts, ShrunkRefl DEF AuthInv, AuthTypeOK
  <2>11. SessionsStep
    BY <1>3, <1>8, <2>8, <2>10, SessionsKept
  <2>12. used' \subseteq Nat \X Nat /\ reused' \in BOOLEAN
    <3>1. used \subseteq Nat \X Nat /\ reused \in BOOLEAN /\ <<q.snap.key, c>> \in Nat \X Nat
      BY <2>1 DEF AuthInv, AuthTypeOK
    <3>2. CASE UNCHANGED <<used, reused>>
      BY <3>1, <3>2
    <3>3. CASE /\ used' = used \cup {<<q.snap.key, c>>}
               /\ reused' = (reused \/ <<q.snap.key, c>> \in used)
      BY <3>1, <3>3
    <3> QED
      BY <1>8, <3>2, <3>3 DEF Spend
  <2>13. next' \in Counters /\ next.sid <= next'.sid
    BY <1>8, CounterFacts
  <2>14. CountersStep
    BY <1>1, <1>8, <2>12, <2>13 DEF CountersStep, AuthInv, AuthTypeOK
  <2> QED
    BY <1>1, <2>9, <2>11, <2>13, <2>14, RequestsEnded DEF AuthStep
<1> QED
  BY <1>4, <1>5, <1>6, <1>7, <1>8 DEF Disable

LEMMA CommandLineStep ==
  ASSUME AuthInv, NEW u \in Users, NEW rec \in UserRec \cup {None}, NEW secret \in Nat, NEW key \in Nat,
         CommandLine(u, rec, secret, key), rec # None /\ rec.must => Owes(file, u),
         used' \subseteq Nat \X Nat
  PROVE  AuthStep
<1>1. /\ file' = [file EXCEPT ![u] = rec] /\ fresh' = FALSE
      /\ next' = [next EXCEPT !.secret = @ + secret, !.key = @ + key, !.call = @ + 1]
      /\ UNCHANGED <<mem, sessions, reqs, now, reused, stale>>
  BY DEF CommandLine
<1>2. /\ next' \in Counters /\ next'.sid = next.sid /\ next.sid <= next'.sid
      /\ next'.key = next.key + key
  <2>1. next \in Counters /\ next.sid \in Nat
    BY CounterFacts
  <2>2. next.secret + secret \in Nat /\ next.key + key \in Nat /\ next.call + 1 \in Nat
    BY <2>1 DEF Counters
  <2>3. next' \in Counters /\ next'.sid = next.sid /\ next'.key = next.key + key
    BY <1>1, <2>1, <2>2 DEF Counters
  <2> QED
    BY <2>1, <2>3
<1>3. AccountsStep
  <2>1. file' \in UserTable /\ file'[u] = rec /\ \A v \in Users : v # u => file'[v] = file[v]
    BY <1>1 DEF AuthInv, AuthTypeOK, UserTable
  <2>2. \A v \in Users : Owes(file', v) => Owes(file, v)
    BY <2>1 DEF Owes
  <2>3. mem \in UserTable /\ fresh' \in BOOLEAN /\ ~fresh'
    BY <1>1 DEF AuthInv, AuthTypeOK
  <2>4. \A v \in Users : Owes(file', v) => Owes(mem, v)
    BY <2>2 DEF AuthInv, CalmInv
  <2> QED
    BY <1>1, <2>1, <2>2, <2>3, <2>4 DEF AccountsStep
<1>4. Quiet
  BY <1>1, QuietSame
<1>5. SessionsStep
  BY <1>1, <1>4, SessionsSame, ShrunkRefl DEF AuthInv, AuthTypeOK
<1>6. CountersStep
  BY <1>1, <1>2 DEF CountersStep, AuthInv, AuthTypeOK
<1> QED
  BY <1>1, <1>2, <1>3, <1>5, <1>6, RequestsSame DEF AuthStep

LEMMA CommandsStep ==
  ASSUME AuthInv, NEW u \in Users, NEW c,
         UserAdd(u) \/ UserPasswd(u) \/ UserRemove(u) \/ TotpDisable(u) \/ TotpEnable(u, c)
  PROVE  AuthStep
<1>1. /\ next.secret \in Nat /\ next.key \in Nat /\ used \subseteq Nat \X Nat
      /\ file[u] \in UserRec \cup {None}
  BY DEF AuthInv, AuthTypeOK, UserTable
<1>2. CASE UserAdd(u)
  <2>1. NewUser(next.secret) \in UserRec /\ ~NewUser(next.secret).must
    BY <1>1 DEF NewUser, UserRec
  <2> QED
    BY <1>1, <1>2, <2>1, CommandLineStep DEF UserAdd
<1>3. CASE UserPasswd(u)
  <2> DEFINE set == [file[u] EXCEPT !.secret = next.secret, !.weak = FALSE, !.must = FALSE]
  <2>1. set \in UserRec /\ ~set.must /\ CommandLine(u, set, 1, 0) /\ UNCHANGED used
    BY <1>1, <1>3, PasswordFacts DEF UserPasswd
  <2> HIDE DEF set
  <2> QED
    BY <1>1, <2>1, CommandLineStep
<1>4. CASE UserRemove(u)
  BY <1>1, <1>4, CommandLineStep DEF UserRemove
<1>5. CASE TotpDisable(u)
  <2> DEFINE off == [file[u] EXCEPT !.key = None, !.last = 0]
  <2>1. off \in UserRec /\ (off.must => file[u].must) /\ CommandLine(u, off, 0, 0)
        /\ file[u] # None /\ UNCHANGED used
    BY <1>1, <1>5, FactorFacts DEF TotpDisable
  <2> HIDE DEF off
  <2> QED
    BY <1>1, <2>1, CommandLineStep DEF Owes
<1>6. CASE TotpEnable(u, c)
  <2> DEFINE on == [file[u] EXCEPT !.key = next.key, !.last = 0]
  <2>1. 0 \in Nat
    OBVIOUS
  <2>2. on \in UserRec /\ (on.must => file[u].must) /\ CommandLine(u, on, 0, 1)
        /\ file[u] # None /\ UNCHANGED used
    BY <1>1, <1>6, <2>1, FactorFacts DEF TotpEnable
  <2> HIDE DEF on
  <2> QED
    BY <1>1, <2>2, CommandLineStep DEF Owes
<1> QED
  BY <1>2, <1>3, <1>4, <1>5, <1>6

(* The command between its two writes.                                      *)
CliInv == cli \in Enrolment \cup {None}

(* The counter of the code that proved a key goes to the file alone.        *)
LEMMA TotpNoteStep ==
  ASSUME AuthInv, CliInv, TotpNote
  PROVE  AuthStep
<1>1. /\ cli # None /\ cli \in Enrolment
      /\ UNCHANGED <<mem, sessions, reqs, now, next, stale>>
  BY DEF TotpNote, CliInv
<1>2. SessionsStep /\ RequestsStep
  BY <1>1, QuietSame, SessionsSame, ShrunkRefl, RequestsSame, CounterFacts DEF AuthInv, AuthTypeOK
<1>3. CASE UNCHANGED <<file, fresh, used, reused>>
  BY <1>1, <1>2, <1>3, AccountsSame, CountersCalm, CounterFacts DEF AuthStep, AuthInv, AuthTypeOK
<1>4. CASE /\ Noted(cli.user, cli.code) /\ fresh' = FALSE
           /\ file' = [file EXCEPT ![cli.user] = WithCounter(@, cli.code)]
           /\ Spend(cli.user, cli.key, cli.code)
  <2> DEFINE u == cli.user
             noted == WithCounter(file[u], cli.code)
  <2>1. u \in Users /\ cli.key \in Nat /\ cli.code \in Nat
    BY <1>1 DEF Enrolment
  <2>2. file[u] \in UserRec /\ file[u] # None
    BY <1>4, <2>1 DEF Noted, AuthInv, AuthTypeOK, UserTable
  <2>3. noted \in UserRec /\ (noted.must => file[u].must)
    BY <2>1, <2>2, FactorFacts
  <2>4. file' = [file EXCEPT ![u] = noted]
    BY <1>4
  <2> HIDE DEF noted
  <2>5. file' \in UserTable /\ file'[u] = noted /\ \A v \in Users : v # u => file'[v] = file[v]
    BY <2>1, <2>3, <2>4 DEF AuthInv, AuthTypeOK, UserTable
  <2>6. \A v \in Users : Owes(file', v) => Owes(mem, v)
    BY <2>2, <2>3, <2>5 DEF Owes, AuthInv, CalmInv
  <2>7. AccountsStep
    BY <1>1, <1>4, <2>5, <2>6 DEF AccountsStep, AuthInv, AuthTypeOK
  <2>8. used' \subseteq Nat \X Nat /\ reused' \in BOOLEAN
    <3>1. used \subseteq Nat \X Nat /\ reused \in BOOLEAN /\ <<cli.key, cli.code>> \in Nat \X Nat
      BY <2>1 DEF AuthInv, AuthTypeOK
    <3>2. CASE UNCHANGED <<used, reused>>
      BY <3>1, <3>2
    <3>3. CASE /\ used' = used \cup {<<cli.key, cli.code>>}
               /\ reused' = (reused \/ <<cli.key, cli.code>> \in used)
      BY <3>1, <3>3
    <3> QED
      BY <1>4, <3>2, <3>3 DEF Spend
  <2>9. CountersStep
    BY <1>1, <2>8, CounterFacts DEF CountersStep, AuthInv, AuthTypeOK
  <2> QED
    BY <1>2, <2>7, <2>9 DEF AuthStep
<1> QED
  BY <1>3, <1>4 DEF TotpNote

LEMMA CliStep ==
  ASSUME AuthInv, CliInv, [Next]_vars
  PROVE  CliInv'
<1>1. CASE UNCHANGED cli
  BY <1>1 DEF CliInv
<1>2. CASE TotpNote
  BY <1>2 DEF TotpNote, CliInv
<1>3. ASSUME NEW u \in Users, NEW c, TotpEnable(u, c) PROVE CliInv'
  <2>1. c \in Nat /\ c # 0 /\ next.key \in Nat
    BY <1>3, Bounds DEF TotpEnable, Codes, AuthInv, AuthTypeOK
  <2> QED
    BY <1>3, <2>1 DEF TotpEnable, CliInv, Enrolment
<1> QED
  BY <1>1, <1>2, <1>3 DEF Next, vars

LEMMA ClockStep ==
  ASSUME AuthInv, Sweep \/ Tick
  PROVE  AuthStep
<1>1. UNCHANGED <<file, mem, fresh, reqs, next, used, reused, stale>>
  BY DEF Sweep, Tick, history
<1>2. Shrunk(sessions', sessions)
  BY EvictedFacts, ShrunkRefl DEF Sweep, Tick, AuthInv, AuthTypeOK
<1>3. now' \in Nat
  BY DEF Sweep, Tick, AuthInv, AuthTypeOK
<1>4. CountersStep
  BY <1>1, <1>3, CounterFacts DEF CountersStep, AuthInv, AuthTypeOK
<1> QED
  BY <1>1, <1>2, <1>4, QuietSame, AccountsSame, SessionsSame, RequestsSame, CounterFacts
     DEF AuthStep

LEMMA StutterStep ==
  ASSUME AuthInv, UNCHANGED vars
  PROVE  AuthStep
<1>1. UNCHANGED <<file, mem, fresh, sessions, reqs, now, next, used, reused, stale>>
  BY DEF vars
<1> QED
  BY <1>1, QuietSame, AccountsSame, SessionsSame, ShrunkRefl, RequestsSame, CountersCalm,
     CounterFacts DEF AuthStep, AuthInv, AuthTypeOK

LEMMA NextStep ==
  ASSUME AuthInv, CliInv, [Next]_vars
  PROVE  AuthStep
<1>1. CASE UNCHANGED vars
  BY <1>1, StutterStep
<1>2. CASE Next
  BY <1>2, ResolveStep, ImmediateStep, BeginStep, RefuseStep, TimeoutStep, WriteFailsStep, WriteLandsStep,
     VerifyStep, RehashStep, SetPasswordStep, ReplacePasswordStep, EnrolStep, LoginStep,
     ReauthStep, ConfirmStep, DisableStep, CommandsStep, TotpNoteStep, ClockStep
     DEF Next, Handled
<1> QED
  BY <1>1, <1>2

LEMMA AuthInit ==
  Init => AuthInv
<1> SUFFICES ASSUME Init PROVE AuthInv
  OBVIOUS
<1>1. file \in UserTable
  <2> DEFINE first(m) == [secret |-> 0, weak |-> WeakHash, key |-> None, last |-> 0, must |-> m]
  <2>1. \A m \in BOOLEAN : first(m) \in UserRec
    BY AuthAssumption DEF UserRec
  <2>2. file \in [Users -> {first(m) : m \in BOOLEAN}]
    BY DEF Init
  <2> HIDE DEF first
  <2> QED
    BY <2>1, <2>2 DEF UserTable
<1>2. /\ mem = file /\ fresh = TRUE /\ sessions = [s \in Sids |-> None]
      /\ reqs = [r \in Reqs |-> NoReq] /\ now = 2
      /\ next = [sid |-> 1, secret |-> 1, key |-> 1, call |-> 1]
      /\ used = {} /\ reused = FALSE /\ stale = FALSE
  BY DEF Init
<1>3. reqs \in [Reqs -> Request] /\ \A r \in Reqs : reqs[r].stage = "idle"
  BY <1>2, NoRequest
<1>4. sessions \in Table /\ \A s \in Sids : sessions[s] = None
  BY <1>2 DEF Table
<1>5. AuthTypeOK
  <2>1. next \in [sid : Nat \ {0}, secret : Nat, key : Nat, call : Nat]
    BY <1>2
  <2>2. fresh \in BOOLEAN /\ reused \in BOOLEAN /\ stale \in BOOLEAN /\ now \in Nat
    BY <1>2
  <2>3. used \subseteq Nat \X Nat
    BY <1>2
  <2> QED
    BY <1>1, <1>2, <1>3, <1>4, <2>1, <2>2, <2>3, Zenon DEF AuthTypeOK
<1>6. StoreInv
  BY <1>2, <1>3, <1>4 DEF StoreInv, RequestOK
<1>7. CalmInv
  BY <1>2, <1>3, <1>4 DEF CalmInv, RequestInv, SessionInv
<1> QED
  BY <1>5, <1>6, <1>7 DEF AuthInv

LEMMA AuthAlways ==
  Spec => [](AuthInv /\ CliInv)
<1>1. AuthInv /\ CliInv /\ [Next]_vars => AuthInv' /\ CliInv'
  BY NextStep, AuthStepKeeps, CliStep DEF AuthStep
<1>2. Init => CliInv
  BY DEF Init, CliInv
<1> QED
  BY <1>1, <1>2, AuthInit, PTL DEF Spec

(* For every set of users and requests and every limit, a session outlives  *)
(* no change of the credentials of its user (refresh, replace_password,     *)
(* renew_session).                                                          *)
THEOREM OldSessionsAlwaysEnd ==
  Spec => []OldSessionsEnd
<1>1. AuthInv => OldSessionsEnd
  BY DEF AuthInv, CalmInv, SessionInv, Calm, OldSessionsEnd, Settled
<1> QED
  BY <1>1, AuthAlways, PTL

(* A step-up always rests on the credentials in force, however late the     *)
(* hash of its password is answered (reauth, step_up).                      *)
THEOREM StepUpAlwaysCurrent ==
  Spec => []StepUpCurrent
<1>1. AuthInv => StepUpCurrent
  BY DEF AuthInv, CalmInv, SessionInv, Calm, StepUpCurrent, Settled
<1> QED
  BY <1>1, AuthAlways, PTL

(* An account that owes a password change never has a session that may do   *)
(* more than change it (attempt, require_unrestricted).                     *)
THEOREM OwingIsAlwaysRestricted ==
  Spec => []OwingIsRestricted
<1>1. AuthInv => OwingIsRestricted
  BY DEF AuthInv, CalmInv, SessionInv, Owes, OwingIsRestricted
<1> QED
  BY <1>1, AuthAlways, PTL

----------------------------------------------------------------------------
(***************************************************************************)
(* The codes of an enrolled key.                                           *)
(***************************************************************************)

(* A step that draws and enrols no key, and spends none but an enrolled one.*)
Plain ==
  /\ next'.key = next.key /\ ~reused'
  /\ \A u \in Users, k \in Nat : Enrolled(u, k)' =>
       /\ Enrolled(u, k)
       /\ \A c \in Nat : <<k, c>> \in used' => c <= file'[u].last
  /\ \A k, c \in Nat : <<k, c>> \in used' =>
       <<k, c>> \in used \/ \E u \in Users : Enrolled(u, k)

LEMMA NoNewPending ==
  ASSUME AuthInv, SessionsStep, next'.key = next.key, NEW s \in Sids, NEW k \in Nat, Pending(s, k)'
  PROVE  Pending(s, k)
<1>1. CASE Carried(s)
  BY <1>1 DEF Carried, Pending
<1>2. CASE Fresh(s)
  BY <1>2 DEF Fresh, Clean, Pending
<1> QED
  BY <1>1, <1>2 DEF SessionsStep, Pending

LEMMA PlainKeeps ==
  ASSUME AuthInv, KeyInv, SessionsStep, Plain
  PROVE  KeyInv'
<1>1. ASSUME NEW u \in Users, NEW k \in Nat, Enrolled(u, k)'
      PROVE  /\ k < next'.key
             /\ \A v \in Users : Enrolled(v, k)' => v = u
             /\ \A c \in Nat : <<k, c>> \in used' => c <= file'[u].last
  BY <1>1 DEF KeyInv, Plain
<1>2. ASSUME NEW s \in Sids, NEW k \in Nat, Pending(s, k)'
      PROVE  /\ k < next'.key
             /\ \A t \in Sids : Pending(t, k)' => t = s
             /\ \A u \in Users : ~Enrolled(u, k)'
             /\ \A c \in Nat : <<k, c>> \notin used'
  <2>1. Pending(s, k) /\ \A t \in Sids : Pending(t, k)' => Pending(t, k)
    BY <1>2, NoNewPending DEF Plain
  <2> QED
    BY <2>1 DEF KeyInv, Plain
<1>3. \A k, c \in Nat : <<k, c>> \in used' => k < next'.key
  BY DEF KeyInv, Plain
<1> QED
  BY <1>1, <1>2, <1>3 DEF KeyInv, Plain

LEMMA PlainSame ==
  ASSUME KeyInv, UNCHANGED <<file, used, reused>>, next'.key = next.key
  PROVE  Plain
  BY DEF KeyInv, Plain, Enrolled

(* An account keeps its key with its counter or a later one, or has none.   *)
LEMMA PlainWrite ==
  ASSUME AuthInv, KeyInv, NEW u \in Users, NEW rec, file' = [file EXCEPT ![u] = rec],
         rec # None =>
           \/ rec.key = None
           \/ /\ file[u] # None /\ rec.key = file[u].key
              /\ rec.last = file[u].last \/ (rec.last \in Nat /\ rec.last >= file[u].last),
         UNCHANGED <<used, reused>>, next'.key = next.key
  PROVE  Plain
<1>1. file'[u] = rec /\ \A v \in Users : v # u => file'[v] = file[v]
  BY DEF AuthInv, AuthTypeOK, UserTable
<1>2. ASSUME NEW v \in Users, NEW k \in Nat, Enrolled(v, k)'
      PROVE  /\ Enrolled(v, k) /\ file[v].last \in Nat
             /\ file'[v].last \in Nat /\ file'[v].last >= file[v].last
  <2>1. Enrolled(v, k) /\ (v # u => file'[v] = file[v])
    BY <1>1, <1>2, NoneAssumption DEF Enrolled
  <2>2. file[v] \in UserRec /\ file[v].last \in Nat
    BY <2>1 DEF Enrolled, AuthInv, AuthTypeOK, UserTable, UserRec
  <2>3. CASE v = u
    BY <1>1, <1>2, <2>1, <2>2, <2>3, NoneAssumption DEF Enrolled
  <2> QED
    BY <2>1, <2>2, <2>3
<1>3. ASSUME NEW v \in Users, NEW k \in Nat, Enrolled(v, k)', NEW c \in Nat, <<k, c>> \in used'
      PROVE  c <= file'[v].last
  <2>1. c <= file[v].last
    BY <1>2, <1>3 DEF KeyInv
  <2> QED
    BY <1>2, <1>3, <2>1
<1> QED
  BY <1>2, <1>3 DEF KeyInv, Plain

(* The code is later than the last of the account, which has it now.        *)
LEMMA PlainSpend ==
  ASSUME AuthInv, KeyInv, NEW u \in Users, NEW rec \in UserRec, NEW key \in Nat, NEW c \in Nat,
         file' = [file EXCEPT ![u] = rec], Noted(u, c), Spend(u, key, c),
         rec.key = None \/ (rec.key = file[u].key /\ rec.last = c), next'.key = next.key
  PROVE  Plain
<1>1. file'[u] = rec /\ \A v \in Users : v # u => file'[v] = file[v]
  BY DEF AuthInv, AuthTypeOK, UserTable
<1>2. file[u] # None /\ c > file[u].last /\ file[u].last \in Nat
  BY DEF Noted, AuthInv, AuthTypeOK, UserTable, UserRec
<1>3. Enrolled(u, key) => <<key, c>> \notin used
  BY <1>2 DEF KeyInv
<1>4. ~reused'
  <2>1. CASE Enrolled(u, key)
    BY <1>3, <2>1 DEF Spend, Enrolled, KeyInv
  <2>2. CASE ~Enrolled(u, key)
    BY <2>2 DEF Spend, Enrolled, KeyInv
  <2> QED
    BY <2>1, <2>2
<1>5. ASSUME NEW k \in Nat, NEW d \in Nat, <<k, d>> \in used'
      PROVE  <<k, d>> \in used \/ (Enrolled(u, k) /\ d = c)
  BY <1>5 DEF Spend, Enrolled
<1>6. ASSUME NEW v \in Users, NEW k \in Nat, Enrolled(v, k)'
      PROVE  /\ Enrolled(v, k)
             /\ \A d \in Nat : <<k, d>> \in used' => d <= file'[v].last
  <2>1. CASE v = u
    <3>1. rec.key = k /\ Enrolled(u, k) /\ rec.last = c
      BY <1>1, <1>2, <1>6, <2>1, NoneAssumption DEF Enrolled
    <3>2. \A d \in Nat : <<k, d>> \in used => d <= file[u].last
      BY <3>1 DEF KeyInv
    <3>3. \A d \in Nat : <<k, d>> \in used' => d <= c
      BY <1>2, <1>5, <3>2
    <3> QED
      BY <1>1, <2>1, <3>1, <3>3
  <2>2. CASE v # u
    <3>1. Enrolled(v, k) /\ file'[v] = file[v]
      BY <1>1, <1>6, <2>2 DEF Enrolled
    <3>2. ~Enrolled(u, k)
      BY <2>2, <3>1 DEF KeyInv
    <3> QED
      BY <1>5, <3>1, <3>2 DEF KeyInv
  <2> QED
    BY <2>1, <2>2
<1> QED
  BY <1>4, <1>5, <1>6 DEF Plain

LEMMA KeyCounter ==
  ASSUME AuthInv
  PROVE  /\ Counted => next'.key = next.key
         /\ NewSid => next'.key = next.key
         /\ next.key \in Nat
  BY DEF AuthInv, AuthTypeOK, Counted, NewSid

LEMMA QuietKeys ==
  ASSUME AuthInv, KeyInv,
         \/ \E r \in Reqs, kind \in Kinds, sid \in Sids : Resolve(r, kind, sid)
         \/ \E sid, other, kind : Immediate(sid, kind, other)
         \/ \E r \in Reqs, kind \in Kinds, u \in Users, sid \in Sids \cup {None} :
              Begin(r, kind, u, sid)
         \/ \E r \in Reqs : Refuse(r) \/ Timeout(r) \/ WriteFails(r) \/ ReplacePassword(r)
         \/ \E r \in Reqs : \E right : Verify(r, right)
         \/ Sweep \/ Tick \/ UNCHANGED vars
  PROVE  Plain
<1>1. UNCHANGED <<file, used, reused>>
  BY DEF Resolve, Immediate, Begin, Refuse, Timeout, WriteFails, ReplacePassword, Verify,
     Sweep, Tick, Refresh, history, vars
<1>2. next' = next \/ Counted \/ NewSid
  BY DEF Resolve, Immediate, Begin, Refuse, Timeout, WriteFails, ReplacePassword, Verify,
     Sweep, Tick, vars
<1> QED
  BY <1>1, <1>2, KeyCounter, PlainSame

LEMMA PasswordKeys ==
  ASSUME AuthInv, KeyInv, NEW r \in Reqs, Rehash(r) \/ SetPassword(r)
  PROVE  Plain
<1> DEFINE q == reqs[r]
           rec == file[q.user]
<1>1. q.user \in Users /\ q.snap \in UserRec /\ rec \in UserRec \cup {None}
  BY DEF Rehash, SetPassword, AuthInv, StoreInv, RequestOK, AuthTypeOK, UserTable
<1>2. UNCHANGED <<used, reused>> /\ next'.key = next.key
  BY DEF Rehash, SetPassword, AuthInv, AuthTypeOK
<1>3. CASE rec = None
  <2>1. UNCHANGED file
    BY <1>3 DEF Rehash, SetPassword, Refresh
  <2> QED
    BY <1>2, <2>1, PlainSame
<1>4. CASE Rehash(r) /\ rec # None
  <2> DEFINE hashed == [rec EXCEPT !.secret = q.snap.secret, !.weak = FALSE]
  <2>1. hashed.key = rec.key /\ hashed.last = rec.last
    BY <1>1, <1>4, PasswordFacts DEF UserRec
  <2>2. file' = [file EXCEPT ![q.user] = hashed]
    BY <1>4 DEF Rehash, Write
  <2> HIDE DEF hashed
  <2> QED
    BY <1>1, <1>2, <1>4, <2>1, <2>2, PlainWrite
<1>5. CASE SetPassword(r) /\ rec # None
  <2> DEFINE set == [rec EXCEPT !.secret = next.secret, !.weak = FALSE, !.must = FALSE]
  <2>1. set.key = rec.key /\ set.last = rec.last
    BY <1>1, <1>5, PasswordFacts DEF AuthInv, AuthTypeOK
  <2>2. file' = [file EXCEPT ![q.user] = set]
    BY <1>5 DEF SetPassword, Write
  <2> HIDE DEF set
  <2> QED
    BY <1>1, <1>2, <1>5, <2>1, <2>2, PlainWrite
<1> QED
  BY <1>3, <1>4, <1>5

LEMMA LandedKeys ==
  ASSUME AuthInv, KeyInv, NEW r \in Reqs, WriteLands(r)
  PROVE  Plain
<1> DEFINE q == reqs[r]
           rec == file[q.user]
<1>1. q.stage \in {"rehash", "set", "answer"} /\ rec # None
  BY DEF WriteLands
<1>2. q.user \in Users /\ q.snap \in UserRec /\ rec \in UserRec
  BY <1>1 DEF AuthInv, StoreInv, RequestOK, AuthTypeOK, UserTable
<1>3. UNCHANGED <<used, reused>> /\ next'.key = next.key
  BY DEF WriteLands, AuthInv, AuthTypeOK
<1>4. ASSUME NEW new, Lands(q.user, new),
             new.key = rec.key, new.last = rec.last \/ (new.last \in Nat /\ new.last >= rec.last)
      PROVE  Plain
  BY <1>1, <1>2, <1>3, <1>4, PlainWrite DEF Lands
<1>5. CASE Lands(q.user, [rec EXCEPT !.secret = q.snap.secret, !.weak = FALSE])
  <2> DEFINE new == [rec EXCEPT !.secret = q.snap.secret, !.weak = FALSE]
  <2>1. new.key = rec.key /\ new.last = rec.last /\ Lands(q.user, new)
    BY <1>2, <1>5, PasswordFacts DEF UserRec
  <2> HIDE DEF new, rec, q
  <2> QED
    BY <1>4, <2>1
<1>6. CASE Lands(q.user, [rec EXCEPT !.secret = next.secret, !.weak = FALSE, !.must = FALSE])
  <2> DEFINE new == [rec EXCEPT !.secret = next.secret, !.weak = FALSE, !.must = FALSE]
  <2>1. new.key = rec.key /\ new.last = rec.last /\ Lands(q.user, new)
    BY <1>2, <1>6, PasswordFacts DEF AuthInv, AuthTypeOK
  <2> HIDE DEF new, rec, q
  <2> QED
    BY <1>4, <2>1
<1>7. ASSUME NEW c \in Codes(q.snap.last), Noted(q.user, c), Lands(q.user, WithCounter(rec, c))
      PROVE  Plain
  <2> DEFINE new == WithCounter(rec, c)
  <2>1. c \in Nat /\ rec.last \in Nat /\ c > rec.last
    BY <1>2, <1>7, CodeFacts DEF Noted, UserRec, AuthInv, AuthTypeOK
  <2>2. new.key = rec.key /\ new.last = c /\ Lands(q.user, new)
    BY <1>2, <1>7, <2>1, NotedFacts
  <2> HIDE DEF new, rec, q
  <2> QED
    BY <1>4, <2>1, <2>2
<1> QED
  BY <1>5, <1>6, <1>7 DEF WriteLands

LEMMA CodeKeys ==
  ASSUME AuthInv, KeyInv, NEW r \in Reqs, NEW c, Login(r, c) \/ Reauth(r, c)
  PROVE  Plain
<1> DEFINE q == reqs[r]
           rec == file[q.user]
           noted == WithCounter(rec, c)
<1>1. q.stage = "answer" /\ c \in Factors(q.snap)
  BY DEF Login, Reauth
<1>2. AnswerFacts(r) /\ q.user \in Users /\ c \in Nat /\ (c # 0 => q.snap.key \in Nat)
      /\ rec \in UserRec \cup {None}
  BY <1>1, Answer, CodeFacts DEF AnswerFacts, UserRec, AuthInv, AuthTypeOK, UserTable
<1>3. next'.key = next.key
  BY KeyCounter DEF Login, Reauth, Accept
<1>4. CASE UNCHANGED <<file, used, reused>>
  BY <1>3, <1>4, PlainSame
<1>5. CASE c # 0 /\ Noted(q.user, c) /\ Write(q.user, noted) /\ Spend(q.user, q.snap.key, c)
  <2>1. noted \in UserRec /\ noted.key = rec.key /\ noted.last = c
    BY <1>2, <1>5, NotedFacts DEF Noted
  <2>2. file' = [file EXCEPT ![q.user] = noted]
    BY <1>5 DEF Write
  <2> HIDE DEF noted
  <2> QED
    BY <1>2, <1>3, <1>5, <2>1, <2>2, PlainSpend
<1> QED
  BY <1>4, <1>5 DEF Login, Reauth, Accept, Refresh, history

LEMMA DisableKeys ==
  ASSUME AuthInv, KeyInv, NEW r \in Reqs, NEW c, Disable(r, c)
  PROVE  Plain
<1> DEFINE q == reqs[r]
           rec == file[q.user]
           off == [rec EXCEPT !.key = None, !.last = 0]
<1>1. q.stage = "answer"
  BY DEF Disable
<1>2. AnswerFacts(r) /\ q.user \in Users /\ rec \in UserRec \cup {None}
  BY <1>1, Answer DEF AnswerFacts, AuthInv, AuthTypeOK, UserTable
<1>3. next'.key = next.key
  BY KeyCounter DEF Disable
<1>4. CASE UNCHANGED <<file, used, reused>>
  BY <1>3, <1>4, PlainSame
<1>5. CASE /\ q.snap.key # None /\ c \in Codes(q.snap.last)
           /\ Noted(q.user, c) /\ (Write(q.user, off) \/ Lands(q.user, off))
           /\ Spend(q.user, q.snap.key, c)
  <2>1. c \in Nat /\ q.snap.key \in Nat
    BY <1>2, <1>5, CodeFacts DEF AnswerFacts, UserRec, AuthInv, AuthTypeOK
  <2>2. off \in UserRec /\ off.key = None
    <3>1. rec \in UserRec
      BY <1>2, <1>5 DEF Noted
    <3> QED
      BY <3>1 DEF UserRec
  <2>3. file' = [file EXCEPT ![q.user] = off]
    BY <1>5 DEF Write, Lands
  <2> HIDE DEF off
  <2> QED
    BY <1>2, <1>3, <1>5, <2>1, <2>2, <2>3, PlainSpend
<1>6. CASE /\ q.snap.key # None /\ c \in Codes(q.snap.last) /\ Noted(q.user, c)
           /\ Write(q.user, WithCounter(rec, c)) /\ Spend(q.user, q.snap.key, c)
  <2> DEFINE noted == WithCounter(rec, c)
  <2>1. c \in Nat /\ q.snap.key \in Nat
    BY <1>2, <1>6, CodeFacts DEF AnswerFacts, UserRec, AuthInv, AuthTypeOK
  <2>2. noted \in UserRec /\ noted.key = rec.key /\ noted.last = c
    BY <1>2, <1>6, <2>1, NotedFacts DEF Noted
  <2>3. file' = [file EXCEPT ![q.user] = noted]
    BY <1>6 DEF Write
  <2> HIDE DEF noted
  <2> QED
    BY <1>2, <1>3, <1>6, <2>1, <2>2, <2>3, PlainSpend
<1> QED
  BY <1>4, <1>5, <1>6 DEF Disable, Refresh, history

LEMMA CommandKeys ==
  ASSUME AuthInv, KeyInv, NEW u \in Users,
         UserAdd(u) \/ UserPasswd(u) \/ UserRemove(u) \/ TotpDisable(u)
  PROVE  Plain
<1>1. file[u] \in UserRec \cup {None} /\ next.secret \in Nat /\ next.key \in Nat
  BY DEF AuthInv, AuthTypeOK, UserTable
<1>2. UNCHANGED <<used, reused>> /\ next'.key = next.key
  <2>1. ASSUME NEW rec, NEW n \in Nat, CommandLine(u, rec, n, 0)
        PROVE  UNCHANGED reused /\ next'.key = next.key
    BY <1>1, <2>1 DEF CommandLine, AuthInv, AuthTypeOK
  <2> QED
    BY <2>1 DEF UserAdd, UserPasswd, UserRemove, TotpDisable
<1>3. CASE UserAdd(u)
  <2>1. NewUser(next.secret).key = None
    BY DEF NewUser
  <2> QED
    BY <1>2, <1>3, <2>1, PlainWrite DEF UserAdd, CommandLine
<1>4. CASE UserPasswd(u)
  <2> DEFINE set == [file[u] EXCEPT !.secret = next.secret, !.weak = FALSE, !.must = FALSE]
  <2>1. set.key = file[u].key /\ set.last = file[u].last /\ file[u] # None
    BY <1>1, <1>4, PasswordFacts DEF UserPasswd
  <2>2. file' = [file EXCEPT ![u] = set]
    BY <1>4 DEF UserPasswd, CommandLine
  <2> HIDE DEF set
  <2> QED
    BY <1>2, <2>1, <2>2, PlainWrite
<1>5. CASE UserRemove(u)
  BY <1>2, <1>5, PlainWrite DEF UserRemove, CommandLine
<1>6. CASE TotpDisable(u)
  <2> DEFINE off == [file[u] EXCEPT !.key = None, !.last = 0]
  <2>1. off.key = None
    <3>1. file[u] \in UserRec
      BY <1>1, <1>6 DEF TotpDisable
    <3> QED
      BY <3>1 DEF UserRec
  <2>2. file' = [file EXCEPT ![u] = off]
    BY <1>6 DEF TotpDisable, CommandLine
  <2> HIDE DEF off
  <2> QED
    BY <1>2, <2>1, <2>2, PlainWrite
<1> QED
  BY <1>3, <1>4, <1>5, <1>6

(* A key is drawn, and pending in one session.                              *)
LEMMA EnrolKeys ==
  ASSUME AuthInv, KeyInv, SessionsStep, NEW r \in Reqs, Enrol(r)
  PROVE  KeyInv'
<1> DEFINE q == reqs[r]
<1>1. q.stage = "answer" /\ q.kind = "enrol" /\ UNCHANGED <<file, used, reused>>
  BY DEF Enrol, history
<1>2. AnswerFacts(r) /\ q.sid \in Sids /\ sessions \in Table /\ next.key \in Nat
  BY <1>1, Answer DEF AnswerFacts, RequestOK, AuthInv, AuthTypeOK
<1>3. CASE UNCHANGED next
  BY <1>1, <1>3, PlainSame, PlainKeeps
<1>4. CASE sessions' = SetPending(sessions, q.sid, next.key, q.at) /\ next' = [next EXCEPT !.key = @ + 1]
  <2>1. Pended(sessions', sessions, q.sid, next.key)
    BY <1>2, <1>4, SetPendingFacts DEF AnswerFacts
  <2>2. next'.key = next.key + 1
    BY <1>4 DEF AuthInv, AuthTypeOK
  <2>3. \A u \in Users, k \in Nat : Enrolled(u, k)' <=> Enrolled(u, k)
    BY <1>1 DEF Enrolled
  <2>4. ASSUME NEW s \in Sids, NEW k \in Nat, Pending(s, k)'
        PROVE  Pending(s, k) \/ (s = q.sid /\ k = next.key)
    BY <2>1, <2>4 DEF Pended, Same, Pending
  <2>5. ASSUME NEW u \in Users, NEW k \in Nat, Enrolled(u, k)'
        PROVE  /\ k < next'.key
               /\ \A v \in Users : Enrolled(v, k)' => v = u
               /\ \A c \in Nat : <<k, c>> \in used' => c <= file'[u].last
    BY <1>1, <1>2, <2>2, <2>3, <2>5 DEF KeyInv
  <2>6. ASSUME NEW s \in Sids, NEW k \in Nat, Pending(s, k)'
        PROVE  /\ k < next'.key
               /\ \A t \in Sids : Pending(t, k)' => t = s
               /\ \A u \in Users : ~Enrolled(u, k)'
               /\ \A c \in Nat : <<k, c>> \notin used'
    <3>1. CASE k = next.key
      <4>1. \A t \in Sids : ~Pending(t, k)
        BY <1>2, <3>1 DEF KeyInv
      <4>2. \A u \in Users : ~Enrolled(u, k)
        BY <1>2, <3>1 DEF KeyInv
      <4>3. \A c \in Nat : <<k, c>> \notin used
        BY <1>2, <3>1 DEF KeyInv
      <4> QED
        BY <1>1, <1>2, <2>2, <2>3, <2>4, <2>6, <3>1, <4>1, <4>2, <4>3
    <3>2. CASE k # next.key
      <4>1. Pending(s, k) /\ \A t \in Sids : Pending(t, k)' => Pending(t, k)
        BY <2>4, <2>6, <3>2
      <4> QED
        BY <1>1, <1>2, <2>2, <2>3, <4>1 DEF KeyInv
    <3> QED
      BY <3>1, <3>2
  <2>7. \A k, c \in Nat : <<k, c>> \in used' => k < next'.key
    BY <1>1, <1>2, <2>2 DEF KeyInv
  <2> QED
    BY <1>1, <2>5, <2>6, <2>7 DEF KeyInv
<1> QED
  BY <1>3, <1>4 DEF Enrol

(* A key is enrolled that nobody has, and its first code is spent, or none. *)
LEMMA EnrolledKeeps ==
  ASSUME AuthInv, KeyInv, NEW u \in Users, NEW rec \in UserRec, NEW key \in Nat, NEW c \in Nat,
         file' = [file EXCEPT ![u] = rec], rec.key = key, rec.last = c,
         used' \subseteq used \cup {<<key, c>>}, UNCHANGED reused,
         next.key <= next'.key, next'.key \in Nat, key < next'.key,
         \A v \in Users : ~Enrolled(v, key), \A d \in Nat : <<key, d>> \notin used,
         \A s \in Sids, k \in Nat : Pending(s, k)' => Pending(s, k) /\ k # key
  PROVE  KeyInv'
<1>1. file'[u] = rec /\ \A v \in Users : v # u => file'[v] = file[v]
  BY DEF AuthInv, AuthTypeOK, UserTable
<1>2. rec # None /\ next.key \in Nat
  BY NoneAssumption DEF AuthInv, AuthTypeOK
<1>3. ASSUME NEW v \in Users, NEW k \in Nat, Enrolled(v, k)'
      PROVE  (v = u /\ k = key) \/ (v # u /\ k # key /\ Enrolled(v, k) /\ file'[v] = file[v])
  BY <1>1, <1>2, <1>3 DEF Enrolled
<1>4. \A k, d \in Nat : <<k, d>> \in used' => <<k, d>> \in used \/ (k = key /\ d = c)
  OBVIOUS
<1>5. ASSUME NEW v \in Users, NEW k \in Nat, Enrolled(v, k)'
      PROVE  /\ k < next'.key
             /\ \A w \in Users : Enrolled(w, k)' => w = v
             /\ \A d \in Nat : <<k, d>> \in used' => d <= file'[v].last
  <2>1. CASE k = key
    BY <1>1, <1>3, <1>4, <1>5, <2>1
  <2>2. CASE k # key
    <3>1. v # u /\ Enrolled(v, k) /\ file'[v] = file[v]
      BY <1>3, <1>5, <2>2
    <3>2. k < next.key /\ \A w \in Users : Enrolled(w, k)' => w = v
      BY <1>3, <2>2, <3>1 DEF KeyInv
    <3>3. \A d \in Nat : <<k, d>> \in used' => d <= file[v].last
      BY <1>4, <2>2, <3>1 DEF KeyInv
    <3> QED
      BY <1>2, <3>1, <3>2, <3>3
  <2> QED
    BY <2>1, <2>2
<1>6. ASSUME NEW s \in Sids, NEW k \in Nat, Pending(s, k)'
      PROVE  /\ k < next'.key
             /\ \A t \in Sids : Pending(t, k)' => t = s
             /\ \A v \in Users : ~Enrolled(v, k)'
             /\ \A d \in Nat : <<k, d>> \notin used'
  <2>1. Pending(s, k) /\ k # key
    BY <1>6
  <2>2. k < next.key /\ \A t \in Sids : Pending(t, k)' => t = s
    BY <2>1 DEF KeyInv
  <2>3. \A v \in Users : ~Enrolled(v, k)'
    BY <1>3, <2>1 DEF KeyInv
  <2>4. \A d \in Nat : <<k, d>> \notin used'
    BY <1>4, <2>1 DEF KeyInv
  <2> QED
    BY <1>2, <2>2, <2>3, <2>4
<1>7. \A k, d \in Nat : <<k, d>> \in used' => k < next'.key
  BY <1>2, <1>4 DEF KeyInv
<1> QED
  BY <1>5, <1>6, <1>7 DEF KeyInv

LEMMA ConfirmKeys ==
  ASSUME AuthInv, KeyInv, SessionsStep, NEW r \in Reqs, NEW c, Confirm(r, c)
  PROVE  KeyInv'
<1> DEFINE q == reqs[r]
           rec == file[q.user]
           key == PendingKey(Kept, q.sid, now)
           enrolled(last) == [rec EXCEPT !.key = key, !.last = last]
<1>1. q.stage = "body" /\ q.kind = "confirm" /\ c \in Codes(0)
  BY DEF Confirm
<1>2. q.user \in Users /\ q.sid \in Sids /\ rec \in UserRec \cup {None}
      /\ (sessions[q.sid] # None => sessions[q.sid].user = q.user)
  BY <1>1 DEF AuthInv, StoreInv, CalmInv, RequestOK, RequestInv, AuthTypeOK, UserTable
<1>3. CASE Refresh /\ UNCHANGED <<next, history>>
  BY <1>3, PlainSame, PlainKeeps DEF Refresh, history
<1>k. Kept \in Table /\ Shrunk(Kept, sessions)
  BY KeptFacts DEF AuthInv, AuthTypeOK
<1>c. c \in Nat
  BY <1>1, Bounds DEF Codes, AuthInv, AuthTypeOK
<1>4. ASSUME key # None, rec # None, NEW last \in Nat,
             file' = [file EXCEPT ![q.user] = enrolled(last)],
             UNCHANGED reused, used' \subseteq used \cup {<<key, last>>},
             next'.key = next.key,
             \A s \in Sids : sessions'[s] # None => sessions'[s].pending = None \/ s # q.sid
      PROVE  KeyInv'
  <2> DEFINE on == enrolled(last)
  <2>1. key \in Nat
    BY <1>2, <1>4, PendingFacts
  <2>2. on \in UserRec /\ on.key = key /\ on.last = last
    <3>1. rec \in UserRec
      BY <1>2, <1>4
    <3> HIDE DEF rec, key
    <3> QED
      BY <1>4, <2>1, <3>1 DEF UserRec
  <2>4. Pending(q.sid, key)
    BY <1>2, <1>4, <1>k, PendingFacts DEF Pending, Shrunk, Same
  <2>5. file' = [file EXCEPT ![q.user] = on]
    BY <1>4
  <2>6. next'.key = next.key /\ next.key \in Nat
    BY <1>4, KeyCounter
  <2>7. \A s \in Sids : sessions'[s] # None => sessions'[s].pending = None \/ s # q.sid
    BY <1>4
  <2> HIDE DEF key, on
  <2>8. ASSUME NEW s \in Sids, NEW k \in Nat, Pending(s, k)'
        PROVE  Pending(s, k) /\ k # key
    <3>1. Pending(s, k)
      BY <2>6, <2>8, NoNewPending
    <3>2. s # q.sid
      BY <2>7, <2>8 DEF Pending
    <3> QED
      BY <1>2, <2>1, <2>4, <3>1, <3>2 DEF KeyInv
  <2>9. /\ \A v \in Users : ~Enrolled(v, key)
        /\ \A d \in Nat : <<key, d>> \notin used
        /\ key < next'.key /\ next.key <= next'.key /\ next'.key \in Nat
    BY <1>2, <2>1, <2>4, <2>6 DEF KeyInv
  <2>10. used' \subseteq used \cup {<<key, last>>} /\ UNCHANGED reused
    BY <1>4
  <2>11. q.user \in Users
    BY <1>2
  <2> HIDE DEF q, rec, enrolled
  <2> QED
    BY <2>1, <2>2, <2>5, <2>8, <2>9, <2>10, <2>11, EnrolledKeeps
<1>5. ASSUME key # None, rec # None, NEW last \in {0, c},
             file' = [file EXCEPT ![q.user] = enrolled(last)],
             sessions' = [Kept EXCEPT ![q.sid].pending = None],
             UNCHANGED <<next, used, reused>>
      PROVE  KeyInv'
  <2>1. \A s \in Sids : sessions'[s] # None => sessions'[s].pending = None \/ s # q.sid
    <3>1. Kept[q.sid] \in Session
      BY <1>2, <1>5, <1>k, PendingFacts DEF Table
    <3>2. sessions'[q.sid] = [Kept[q.sid] EXCEPT !.pending = None]
      BY <1>2, <1>5, <1>k DEF Table
    <3> QED
      BY <3>1, <3>2 DEF Session
  <2>2. last \in Nat
    BY <1>5, <1>c
  <2> HIDE DEF enrolled, key, rec, q
  <2> QED
    BY <1>4, <1>5, <2>1, <2>2
<1>6. CASE /\ key # None /\ rec # None /\ NewSid /\ Write(q.user, enrolled(c))
           /\ sessions' = Create(RevokeSubject(Kept, {q.user}), q.user, TRUE, now,
                                 Known(enrolled(c)))
           /\ used' = used \cup {<<key, c>>} /\ UNCHANGED reused
  <2>1. \A s \in Sids : sessions'[s] # None => sessions'[s].pending = None \/ s # q.sid
    <3> DEFINE rest == RevokeSubject(Kept, {q.user})
               on == enrolled(c)
    <3>0. /\ Shrunk(rest, Kept)
          /\ \A s \in Sids : rest[s] # None => Kept[s].user # q.user
      BY <1>k, RevokeFacts
    <3>1. rest \in Table /\ (rest[q.sid] # None => Kept[q.sid] # None /\ Kept[q.sid].user # q.user)
      BY <1>2, <3>0 DEF Shrunk
    <3>2. rest[q.sid] = None
      BY <1>2, <1>k, <3>1 DEF Shrunk, Same
    <3> HIDE DEF rest
    <3>3. on \in UserRec
      <4>1. key \in Nat /\ rec \in UserRec
        BY <1>2, <1>6, PendingFacts
      <4> HIDE DEF rec, key
      <4> QED
        BY <1>c, <4>1 DEF UserRec
    <3> HIDE DEF on
    <3>4. Known(on) \in Creds \cup {None} /\ now \in Nat /\ TRUE \in BOOLEAN
      BY <3>3, KnownFacts DEF AuthInv, AuthTypeOK
    <3>5. Opened(sessions', rest, q.user, Known(on))
      BY <1>2, <1>6, <3>1, <3>4, CreateFacts DEF rest, on
    <3> QED
      BY <3>2, <3>5 DEF Opened, Clean
  <2>2. next'.key = next.key /\ file' = [file EXCEPT ![q.user] = enrolled(c)]
    BY <1>6, KeyCounter DEF Write
  <2> HIDE DEF enrolled, key, rec, q
  <2> QED
    BY <1>4, <1>6, <1>c, <2>1, <2>2
<1>7. CASE /\ key # None /\ rec # None /\ Lands(q.user, enrolled(0))
           /\ sessions' = [Kept EXCEPT ![q.sid].pending = None]
           /\ UNCHANGED <<next, history>>
  BY <1>5, <1>7 DEF Lands, history
<1>8. ASSUME key # None, rec # None, NEW last \in {0, c}, Write(q.user, enrolled(last)),
             sessions' = [Kept EXCEPT ![q.sid].pending = None],
             UNCHANGED <<next, used, reused>>
      PROVE  KeyInv'
  BY <1>5, <1>8 DEF Write
<1> QED
  BY <1>3, <1>6, <1>7, <1>8 DEF Confirm

LEMMA TotpEnableKeys ==
  ASSUME AuthInv, KeyInv, NEW u \in Users, NEW c, TotpEnable(u, c)
  PROVE  KeyInv'
<1> DEFINE on == [file[u] EXCEPT !.key = next.key, !.last = 0]
<1>1. 0 \in Nat /\ next.key \in Nat /\ file[u] \in UserRec
  BY DEF TotpEnable, AuthInv, AuthTypeOK, UserTable
<1>2. on \in UserRec /\ on.key = next.key /\ on.last = 0
  BY <1>1 DEF UserRec
<1>3. /\ file' = [file EXCEPT ![u] = on] /\ UNCHANGED <<sessions, used, reused>>
      /\ next' = [next EXCEPT !.secret = @ + 0, !.key = @ + 1, !.call = @ + 1]
  BY DEF TotpEnable, CommandLine
<1>4. next'.key = next.key + 1
  BY <1>1, <1>3 DEF AuthInv, AuthTypeOK
<1> HIDE DEF on
<1>5. /\ \A v \in Users : ~Enrolled(v, next.key)
      /\ \A d \in Nat : <<next.key, d>> \notin used
      /\ \A s \in Sids : ~Pending(s, next.key)
  BY <1>1 DEF KeyInv
<1>6. \A s \in Sids, k \in Nat : Pending(s, k)' => Pending(s, k) /\ k # next.key
  BY <1>3, <1>5 DEF Pending
<1>7. next.key < next'.key /\ next.key <= next'.key /\ next'.key \in Nat
  BY <1>1, <1>4
<1>8. used' \subseteq used \cup {<<next.key, 0>>}
  BY <1>3
<1> QED
  BY <1>1, <1>2, <1>3, <1>5, <1>6, <1>7, <1>8, EnrolledKeeps

(* The code that proved a key is later than the last of the account still,  *)
(* or not recorded: a login has used it.                                    *)
LEMMA TotpNoteKeys ==
  ASSUME AuthInv, CliInv, KeyInv, TotpNote
  PROVE  Plain
<1>1. cli \in Enrolment /\ next' = next
  BY DEF TotpNote, CliInv
<1>2. CASE UNCHANGED <<file, fresh, used, reused>>
  BY <1>1, <1>2, PlainSame
<1>3. CASE /\ Noted(cli.user, cli.code) /\ Spend(cli.user, cli.key, cli.code)
           /\ file' = [file EXCEPT ![cli.user] = WithCounter(@, cli.code)]
  <2> DEFINE u == cli.user
             noted == WithCounter(file[u], cli.code)
  <2>1. u \in Users /\ cli.key \in Nat /\ cli.code \in Nat
    BY <1>1 DEF Enrolment
  <2>2. file[u] \in UserRec
    BY <1>3, <2>1 DEF Noted, AuthInv, AuthTypeOK, UserTable
  <2>3. noted \in UserRec /\ noted.key = file[u].key /\ noted.last = cli.code
    BY <2>1, <2>2, NotedFacts
  <2>4. file' = [file EXCEPT ![u] = noted]
    BY <1>3
  <2> HIDE DEF noted
  <2> QED
    BY <1>1, <1>3, <2>1, <2>3, <2>4, PlainSpend
<1> QED
  BY <1>2, <1>3 DEF TotpNote

(* For every set of users and requests, a code is accepted at most once     *)
(* while its key is enrolled (check_totp, note_totp_counter).               *)
THEOREM CodesOpenOneDoor ==
  Spec => []CodeOnceWhileEnrolled
<1>1. Init => KeyInv
  <2> SUFFICES ASSUME Init PROVE KeyInv
    OBVIOUS
  <2>1. used = {} /\ ~reused /\ \A s \in Sids : sessions[s] = None
    BY DEF Init
  <2>2. \A u \in Users : file[u].key = None
    <3> DEFINE first(m) == [secret |-> 0, weak |-> WeakHash, key |-> None, last |-> 0, must |-> m]
    <3>1. file \in [Users -> {first(m) : m \in BOOLEAN}]
      BY DEF Init
    <3>2. \A m \in BOOLEAN : first(m).key = None
      OBVIOUS
    <3> HIDE DEF first
    <3> QED
      BY <3>1, <3>2
  <2> QED
    BY <2>1, <2>2, NoneAssumption DEF KeyInv, Enrolled, Pending
<1>2. AuthInv /\ CliInv /\ KeyInv /\ [Next]_vars => KeyInv'
  <2> SUFFICES ASSUME AuthInv, CliInv, KeyInv, [Next]_vars PROVE KeyInv'
    OBVIOUS
  <2>1. SessionsStep
    BY NextStep DEF AuthStep
  <2>2. Plain => KeyInv'
    BY <2>1, PlainKeeps
  <2>3. CASE UNCHANGED vars
    BY <2>2, <2>3, QuietKeys
  <2>4. CASE Next
    BY <2>1, <2>2, <2>4, QuietKeys, PasswordKeys, LandedKeys, CodeKeys, DisableKeys, CommandKeys, EnrolKeys,
       ConfirmKeys, TotpEnableKeys, TotpNoteKeys DEF Next, Handled
  <2> QED
    BY <2>3, <2>4
<1>3. KeyInv => CodeOnceWhileEnrolled
  BY DEF KeyInv, CodeOnceWhileEnrolled
<1> QED
  BY <1>1, <1>2, <1>3, AuthAlways, PTL DEF Spec
=============================================================================
