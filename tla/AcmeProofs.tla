----------------------------- MODULE AcmeProofs -----------------------------
(***************************************************************************)
(* The safety of the renewal loop, for every set of names, every lifetime  *)
(* and any number of faults and requests; and that the two computations of *)
(* schedule.rs agree: due_at rounds up where percent_used rounds down.     *)
(***************************************************************************)
EXTENDS Acme, SequenceTheorems, TLAPS

(***************************************************************************)
(* The invariant.                                                          *)
(***************************************************************************)
Age == Nat \cup {None}

Say == {"RenewNow", "Hello", "Installed", "Refused"}

Messages == [type : {"Hello"}] \cup [type : {"Install"}, pair : Nat]

FlagTypes ==
  /\ pc \in {"hello", "greeting", "round", "order", "installing", "sleep", "backoff", "ended"}
  /\ force \in BOOLEAN /\ pending \in BOOLEAN /\ seen \in BOOLEAN
  /\ asked \in BOOLEAN /\ late \in BOOLEAN

PairTypes ==
  /\ held \in Age /\ unused \in Age
  /\ toWorker \in Seq(Messages) /\ toAcme \in Seq(Say)

AcmeTypeOK == FlagTypes /\ PairTypes

(* The flag of a request that came in a backoff is set in a backoff only.   *)
SeenInBackoff == seen => pc \in {"backoff", "ended"}

OnlyRequests(queue) == \A i \in DOMAIN queue : queue[i] = "RenewNow"

(* One answer, among requests.                                              *)
OneAnswer(queue, answers) ==
  \E i \in DOMAIN queue :
    /\ queue[i] \in answers
    /\ \A j \in DOMAIN queue : j # i => queue[j] = "RenewNow"

(* Until an answer has been given up on, the socket holds one call or its   *)
(* answer while the process waits for one, and neither at other times.      *)
Lockstep ==
  ~late =>
    /\ pc \in {"hello", "round", "order", "sleep", "backoff"} =>
         toWorker = <<>> /\ OnlyRequests(toAcme)
    /\ pc = "greeting" =>
         \/ toWorker = <<[type |-> "Hello"]>> /\ OnlyRequests(toAcme)
         \/ toWorker = <<>> /\ OneAnswer(toAcme, {"Hello"})
    /\ pc = "installing" =>
         \/ toWorker = <<[type |-> "Install", pair |-> held]>> /\ OnlyRequests(toAcme)
         \/ toWorker = <<>> /\ OneAnswer(toAcme, {"Installed"}) /\ Spent(unused)
         \/ toWorker = <<>> /\ OneAnswer(toAcme, {"Refused"})

(* The loop holds on to a pair that was issued and is not served yet.       *)
IssuedIsHeld == ~late /\ pc # "ended" => Spent(unused) \/ held = unused

(* Every record that is up is in `presented`, from which the clean-ups take *)
(* what they delete.                                                        *)
OwedIsKnown == dns \subseteq presented

AcmeInv ==
  /\ AcmeTypeOK /\ OwedIsKnown /\ ChallengesWithdrawn /\ SeenInBackoff /\ RequestKept
  /\ Lockstep /\ IssuedIsHeld

----------------------------------------------------------------------------

LEMMA TimesMonotone ==
  ASSUME NEW b \in Nat, NEW p \in Int, NEW q \in Int, p <= q
  PROVE  b * p <= b * q
  OBVIOUS

(* Division by a positive number, against a bound.                          *)
LEMMA QuotientAtLeast ==
  ASSUME NEW a \in Nat, NEW b \in Nat \ {0}, NEW k \in Nat
  PROVE  a \div b >= k <=> a >= b * k
<1> DEFINE q == a \div b
<1>1. q \in Int /\ b * q <= a /\ a < b * (q + 1)
  OBVIOUS
<1> HIDE DEF q
<1>2. CASE q >= k
  BY <1>1, <1>2, b * k <= b * q, TimesMonotone DEF q
<1>3. CASE q < k
  <2>1. q + 1 <= k
    BY <1>1, <1>3
  <2>2. b * (q + 1) <= b * k
    BY <1>1, <2>1, TimesMonotone
  <2>. QED
    BY <1>1, <1>3, <2>2 DEF q
<1>. QED
  BY <1>1, <1>2, <1>3

LEMMA TwoThirdsIsCeiling ==
  ASSUME NEW life \in Nat \ {0}, NEW age \in Int
  PROVE  age >= two_thirds(life) <=> age * 100 >= life * 66
  BY DEF two_thirds

LEMMA DueAtTwoThirds ==
  ASSUME NEW life \in Nat \ {0}, NEW age \in Int
  PROVE  should_renew(life, age) <=> age >= two_thirds(life)
<1>1. CASE age < 0
  <2>1. two_thirds(life) >= 1
    BY DEF two_thirds
  <2>2. (0 * 100) \div life = 0
    OBVIOUS
  <2>. QED
    BY <1>1, <2>1, <2>2 DEF should_renew, percent_used, Lesser, Greater, two_thirds
<1>2. CASE age >= 0
  <2> DEFINE q == (age * 100) \div life
  <2>1. age * 100 \in Nat /\ q \in Int
    BY <1>2
  <2>2. q >= 66 <=> age * 100 >= life * 66
    BY <2>1, QuotientAtLeast
  <2>3. percent_used(life, age) = IF q <= 100 THEN q ELSE 100
    BY <1>2 DEF percent_used, Lesser, Greater
  <2> HIDE DEF q
  <2>4. should_renew(life, age) <=> q >= 66
    BY <2>1, <2>3 DEF should_renew
  <2>. QED
    BY <2>2, <2>4, TwoThirdsIsCeiling
<1>. QED
  BY <1>1, <1>2

(* should_renew turns TRUE at exactly the instant that due_at names, for    *)
(* every lifetime in whole seconds, a broken one included, and every        *)
(* reading of the clock: a wait until due_at ends neither before the        *)
(* certificate is due nor after it became due.                              *)
THEOREM DueIsExact ==
  ASSUME NEW life \in Int, NEW age \in Int
  PROVE  should_renew(life, age) <=> until_due(life, age) = 0
<1>1. CASE life <= 0
  BY <1>1 DEF should_renew, percent_used, until_due
<1>2. CASE life > 0
  <2>1. two_thirds(life) \in Int /\ life \in Nat \ {0}
    BY <1>2 DEF two_thirds
  <2>2. until_due(life, age) = 0 <=> age >= two_thirds(life)
    BY <1>2, <2>1 DEF until_due, Greater
  <2>. QED
    BY <2>1, <2>2, DueAtTwoThirds
<1>. QED
  BY <1>1, <1>2

(* The same with ARI's window: due_at and should_renew_in_window agree on   *)
(* the first instant at which the certificate is due.                       *)
THEOREM DueIsExactInWindow ==
  ASSUME NEW life \in Int, NEW age \in Int, NEW start \in Int
  PROVE  should_renew_in_window(life, age, start) <=> until_due_in_window(life, age, start) = 0
<1>1. CASE life <= 0
  BY <1>1 DEF should_renew_in_window, should_renew, percent_used, until_due_in_window
<1>2. CASE life > 0
  <2>1. two_thirds(life) \in Int /\ life \in Nat \ {0}
    BY <1>2 DEF two_thirds
  <2>2. until_due_in_window(life, age, start) = 0 <=> age >= start \/ age >= two_thirds(life)
    BY <1>2, <2>1 DEF until_due_in_window, Greater, Lesser
  <2>. QED
    BY <2>1, <2>2, DueAtTwoThirds DEF should_renew_in_window
<1>. QED
  BY <1>1, <1>2

----------------------------------------------------------------------------
(***************************************************************************)
(* What the operations on the socket's queue keep.                         *)
(***************************************************************************)
LEMMA RequestJoins ==
  ASSUME NEW q \in Seq(Say)
  PROVE  /\ OnlyRequests(q) => OnlyRequests(Append(q, "RenewNow"))
         /\ \A a : OneAnswer(q, a) => OneAnswer(Append(q, "RenewNow"), a)
  BY DEF OnlyRequests, OneAnswer, Say

LEMMA AnswerJoins ==
  ASSUME NEW q \in Seq(Say), NEW m \in Say, OnlyRequests(q)
  PROVE  OneAnswer(Append(q, m), {m})
<1>1. Append(q, m)[Len(q) + 1] = m /\ Len(q) + 1 \in DOMAIN Append(q, m)
  OBVIOUS
<1>2. \A j \in DOMAIN Append(q, m) : j # Len(q) + 1 => Append(q, m)[j] = "RenewNow"
  BY DEF OnlyRequests
<1> QED
  BY <1>1, <1>2 DEF OneAnswer

LEMMA RequestLeaves ==
  ASSUME NEW q \in Seq(Say), q # <<>>
  PROVE  /\ OnlyRequests(q) => OnlyRequests(Tail(q))
         /\ \A a : "RenewNow" \notin a /\ Head(q) = "RenewNow" /\ OneAnswer(q, a) => OneAnswer(Tail(q), a)
<1>1. \A i \in DOMAIN Tail(q) : i + 1 \in DOMAIN q /\ Tail(q)[i] = q[i + 1]
  OBVIOUS
<1>2. OnlyRequests(q) => OnlyRequests(Tail(q))
  BY <1>1 DEF OnlyRequests
<1>3. ASSUME NEW a, "RenewNow" \notin a, Head(q) = "RenewNow", OneAnswer(q, a)
      PROVE  OneAnswer(Tail(q), a)
  <2>1. PICK i \in DOMAIN q :
          q[i] \in a /\ \A j \in DOMAIN q : j # i => q[j] = "RenewNow"
    BY <1>3 DEF OneAnswer
  <2>2. i # 1
    BY <1>3, <2>1
  <2>3. i - 1 \in DOMAIN Tail(q) /\ Tail(q)[i - 1] = q[i]
    BY <2>1, <2>2
  <2>4. \A j \in DOMAIN Tail(q) : j # i - 1 => Tail(q)[j] = "RenewNow"
    BY <1>1, <2>1
  <2> QED
    BY <2>1, <2>3, <2>4 DEF OneAnswer
<1> QED
  BY <1>2, <1>3

LEMMA AnswerLeaves ==
  ASSUME NEW q \in Seq(Say), q # <<>>, Head(q) # "RenewNow", NEW a, OneAnswer(q, a)
  PROVE  Head(q) \in a /\ OnlyRequests(Tail(q))
<1>1. PICK i \in DOMAIN q :
        q[i] \in a /\ \A j \in DOMAIN q : j # i => q[j] = "RenewNow"
  BY DEF OneAnswer
<1>2. i = 1 /\ Head(q) = q[1]
  BY <1>1
<1>3. \A k \in DOMAIN Tail(q) : k + 1 \in DOMAIN q /\ k + 1 # 1 /\ Tail(q)[k] = q[k + 1]
  OBVIOUS
<1> QED
  BY <1>1, <1>2, <1>3 DEF OnlyRequests

(* A request stays on the socket while other messages come and go.          *)
LEMMA RequestStays ==
  ASSUME AcmeTypeOK, Requested
  PROVE  /\ \A m \in Say : toAcme' = Append(toAcme, m) => Requested'
         /\ Head(toAcme) # "RenewNow" /\ toAcme' = Tail(toAcme) => Requested'
<1>1. PICK i \in DOMAIN toAcme : toAcme[i] = "RenewNow"
  BY DEF Requested
<1>2. toAcme \in Seq(Say)
  BY DEF AcmeTypeOK, PairTypes
<1>3. ASSUME NEW m \in Say, toAcme' = Append(toAcme, m)
      PROVE  Requested'
  <2>1. i \in DOMAIN toAcme' /\ toAcme'[i] = "RenewNow"
    BY <1>1, <1>2, <1>3
  <2> QED
    BY <2>1 DEF Requested
<1>4. ASSUME Head(toAcme) # "RenewNow", toAcme' = Tail(toAcme)
      PROVE  Requested'
  <2>1. i # 1
    BY <1>1, <1>2, <1>4
  <2>2. i - 1 \in DOMAIN toAcme' /\ toAcme'[i - 1] = "RenewNow"
    BY <1>1, <1>2, <1>4, <2>1
  <2> QED
    BY <2>2 DEF Requested
<1> QED
  BY <1>3, <1>4

----------------------------------------------------------------------------
(***************************************************************************)
(* The invariant is inductive: types first.                                *)
(***************************************************************************)
LEMMA GrowthType ==
  ASSUME NEW t \in Age
  PROVE  /\ Growth(t, Old) \in Age
         /\ t \in Nat => Growth(t, Old) \in Nat
         /\ Spent(t) => Spent(Growth(t, Old))
  BY AcmeAssumption DEF Age, Growth, Old, Lesser, Spent

LEMMA MessageTypes ==
  /\ 0 \in Age /\ None \in Age
  /\ [type |-> "Hello"] \in Messages
  /\ \A c \in Nat : [type |-> "Install", pair |-> c] \in Messages
  /\ \A c \in Age : c # None => c \in Nat
  BY DEF Age, Messages

LEMMA FlagTypesStep ==
  ASSUME FlagTypes, [Next]_vars
  PROVE  FlagTypes'
<1> USE DEF loop, order, challenges, socket, worker
<1>0. Requested \in BOOLEAN
  BY DEF Requested
<1>1. CASE Hello
  BY <1>0, <1>1 DEF FlagTypes, Hello
<1>2. CASE RenewWhileCalling
  BY <1>0, <1>2 DEF FlagTypes, RenewWhileCalling, Calling, Incoming
<1>3. CASE Greeted
  BY <1>0, <1>3 DEF FlagTypes, Greeted, Incoming
<1>4. CASE Installed
  BY <1>0, <1>4 DEF FlagTypes, Installed, Incoming, Succeed, Fail, GoBack
<1>5. CASE TimedOut
  BY <1>0, <1>5 DEF FlagTypes, TimedOut, End, Fail, GoBack, Calling
<1>6. CASE Retry
  BY <1>0, <1>6 DEF FlagTypes, Retry, Begin, Send
<1>7. CASE LoadFails
  BY <1>0, <1>7 DEF FlagTypes, LoadFails, Begin, GoBack
<1>8. CASE NotDue
  BY <1>0, <1>8 DEF FlagTypes, NotDue, Begin, Succeed
<1>9. CASE Order
  BY <1>0, <1>9 DEF FlagTypes, Order, Begin
<1>10. CASE Present
  BY <1>0, <1>10 DEF FlagTypes, Present, AtStep
<1>11. CASE OrderFails
  BY <1>0, <1>11 DEF FlagTypes, OrderFails, Fail, GoBack, Withdraw
<1>12. CASE Finish
  BY <1>0, <1>12 DEF FlagTypes, Finish, Send, Fail, GoBack, Withdraw
<1>13. CASE WaitEnds
  BY <1>0, <1>13 DEF FlagTypes, WaitEnds
<1>14. CASE RenewWhileAsleep
  BY <1>0, <1>14 DEF FlagTypes, RenewWhileAsleep, Incoming
<1>15. CASE RenewInBackoff
  BY <1>0, <1>15 DEF FlagTypes, RenewInBackoff, Incoming
<1>16. CASE PeerEnds
  BY <1>0, <1>16 DEF FlagTypes, PeerEnds, End, Calling
<1>17. CASE AnswerHello
  BY <1>0, <1>17 DEF FlagTypes, AnswerHello, Answer
<1>18. CASE AnswerInstall
  BY <1>0, <1>18 DEF FlagTypes, AnswerInstall, Install, Answer
<1>19. CASE RenewNow
  BY <1>0, <1>19 DEF FlagTypes, RenewNow
<1>20. CASE Close
  BY <1>0, <1>20 DEF FlagTypes, Close
<1>21. CASE Tick
  BY <1>0, <1>21 DEF FlagTypes, Tick
<1>22. CASE UNCHANGED vars
  BY <1>22 DEF FlagTypes, vars
<1>23. CASE Authorize
  BY <1>0, <1>23 DEF FlagTypes, Authorize, AtStep
<1>24. CASE Propagated
  BY <1>0, <1>24 DEF FlagTypes, Propagated, AtStep
<1>25. CASE SetReady
  BY <1>0, <1>25 DEF FlagTypes, SetReady, AtStep
<1>26. CASE PresentFails
  BY <1>0, <1>26 DEF FlagTypes, PresentFails, AtStep, Fail, GoBack, Withdraw
<1>27. CASE ChallengeFails
  BY <1>0, <1>27 DEF FlagTypes, ChallengeFails, AtStep, Fail, GoBack, Withdraw
<1> QED
  BY <1>1, <1>2, <1>3, <1>4, <1>5, <1>6, <1>7, <1>8, <1>9, <1>10, <1>11, <1>12,
     <1>13, <1>14, <1>15, <1>16, <1>17, <1>18, <1>19, <1>20, <1>21, <1>22, <1>23, <1>24,
     <1>25, <1>26, <1>27 DEF Next,
     AcmeStep, WorkerStep

LEMMA PairTypesStep ==
  ASSUME PairTypes, [Next]_vars
  PROVE  PairTypes'
<1> USE MessageTypes DEF loop, order, challenges, socket, worker
<1>1. CASE Hello
  BY <1>1, MessageTypes DEF PairTypes, Say, Hello
<1>2. CASE RenewWhileCalling
  BY <1>2 DEF PairTypes, RenewWhileCalling, Calling, Incoming
<1>3. CASE Greeted
  BY <1>3 DEF PairTypes, Greeted, Incoming
<1>4. CASE Installed
  BY <1>4 DEF PairTypes, Installed, Incoming, Succeed, Fail, GoBack
<1>5. CASE TimedOut
  BY <1>5 DEF PairTypes, TimedOut, End, Fail, GoBack, Calling
<1>6. CASE Retry
  BY <1>6, MessageTypes DEF PairTypes, Spent, Retry, Begin, Send
<1>7. CASE LoadFails
  BY <1>7 DEF PairTypes, LoadFails, Begin, GoBack
<1>8. CASE NotDue
  BY <1>8 DEF PairTypes, NotDue, Begin, Succeed
<1>9. CASE Order
  BY <1>9 DEF PairTypes, Order, Begin
<1>10. CASE Present
  BY <1>10 DEF PairTypes, Present, AtStep
<1>11. CASE OrderFails
  BY <1>11 DEF PairTypes, OrderFails, Fail, GoBack, Withdraw
<1>12. CASE Finish
  <2>1. /\ toWorker' \in {toWorker, Append(toWorker, [type |-> "Install", pair |-> 0])}
        /\ held' \in {held, 0} /\ unused' \in {0, None} /\ toAcme' = toAcme
    BY <1>12 DEF Finish, Send, Fail, GoBack, Withdraw
  <2>2. [type |-> "Install", pair |-> 0] \in Messages
    BY MessageTypes
  <2>3. Append(toWorker, [type |-> "Install", pair |-> 0]) \in Seq(Messages)
    BY <2>2 DEF PairTypes
  <2> QED
    BY <2>1, <2>3, MessageTypes DEF PairTypes
<1>13. CASE WaitEnds
  BY <1>13 DEF PairTypes, WaitEnds
<1>14. CASE RenewWhileAsleep
  BY <1>14 DEF PairTypes, RenewWhileAsleep, Incoming
<1>15. CASE RenewInBackoff
  BY <1>15 DEF PairTypes, RenewInBackoff, Incoming
<1>16. CASE PeerEnds
  BY <1>16 DEF PairTypes, PeerEnds, End, Calling
<1>17. CASE AnswerHello
  BY <1>17, MessageTypes DEF PairTypes, Say, AnswerHello, Answer
<1>18. CASE AnswerInstall
  <2>1. /\ toWorker # <<>> /\ toWorker' = Tail(toWorker) /\ held' = held
        /\ unused' \in {unused, None} /\ \E m \in Say : toAcme' = Append(toAcme, m)
    BY <1>18 DEF AnswerInstall, Install, Answer, Say
  <2> QED
    BY <2>1, MessageTypes DEF PairTypes
<1>19. CASE RenewNow
  BY <1>19 DEF PairTypes, Say, RenewNow
<1>20. CASE Close
  BY <1>20 DEF PairTypes, Close
<1>21. CASE Tick
  <2>1. held' \in Age /\ unused' \in Age
    BY <1>21, GrowthType DEF PairTypes, Tick
  <2>2. toWorker' \in Seq(Messages)
    <3>1. toWorker' = [i \in 1..Len(toWorker) |->
                         IF toWorker[i].type = "Hello" THEN toWorker[i]
                         ELSE [toWorker[i] EXCEPT !.pair = Growth(@, Old)]]
      BY <1>21 DEF PairTypes, Tick
    <3>2. ASSUME NEW i \in 1..Len(toWorker)
          PROVE  (IF toWorker[i].type = "Hello" THEN toWorker[i]
                  ELSE [toWorker[i] EXCEPT !.pair = Growth(@, Old)]) \in Messages
      <4>1. toWorker[i] \in Messages
        BY DEF PairTypes
      <4>2. toWorker[i].type # "Hello" => Growth(toWorker[i].pair, Old) \in Nat
        BY <4>1, GrowthType DEF Messages, Age
      <4> QED
        BY <4>1, <4>2 DEF Messages
    <3>3. Len(toWorker) \in Nat
      BY DEF PairTypes
    <3> HIDE DEF Messages
    <3> DEFINE f == toWorker'
    <3>4. f \in [1..Len(toWorker) -> Messages]
      BY <3>1, <3>2
    <3> QED
      BY <3>3, <3>4, SeqDef
  <2> QED
    BY <1>21, <2>1, <2>2 DEF PairTypes, Tick
<1>22. CASE UNCHANGED vars
  BY <1>22 DEF PairTypes, vars
<1>23. CASE Authorize
  BY <1>23 DEF PairTypes, Authorize, AtStep
<1>24. CASE Propagated
  BY <1>24 DEF PairTypes, Propagated, AtStep
<1>25. CASE SetReady
  BY <1>25 DEF PairTypes, SetReady, AtStep
<1>26. CASE PresentFails
  BY <1>26 DEF PairTypes, PresentFails, AtStep, Fail, GoBack, Withdraw
<1>27. CASE ChallengeFails
  BY <1>27 DEF PairTypes, ChallengeFails, AtStep, Fail, GoBack, Withdraw
<1> QED
  BY <1>1, <1>2, <1>3, <1>4, <1>5, <1>6, <1>7, <1>8, <1>9, <1>10, <1>11, <1>12,
     <1>13, <1>14, <1>15, <1>16, <1>17, <1>18, <1>19, <1>20, <1>21, <1>22, <1>23, <1>24,
     <1>25, <1>26, <1>27 DEF Next,
     AcmeStep, WorkerStep

(***************************************************************************)
(* Requests and challenges.                                                *)
(***************************************************************************)
LEMMA FlagsStep ==
  ASSUME AcmeTypeOK, SeenInBackoff, RequestKept, OwedIsKnown, ChallengesWithdrawn, [Next]_vars
  PROVE  SeenInBackoff' /\ RequestKept' /\ OwedIsKnown' /\ ChallengesWithdrawn'
<1> USE DEF SeenInBackoff, RequestKept, ChallengesWithdrawn, OwedIsKnown,
           loop, order, challenges, socket, worker
<1>1. CASE Hello
  BY <1>1 DEF AcmeTypeOK, FlagTypes, Requested, Hello
<1>2. CASE RenewWhileCalling
  BY <1>2 DEF AcmeTypeOK, FlagTypes, Requested, RenewWhileCalling, Calling, Incoming
<1>3. CASE Greeted
  <2>1. toAcme' = Tail(toAcme) /\ Head(toAcme) # "RenewNow"
    BY <1>3 DEF Greeted, Incoming
  <2>2. Requested => Requested'
    BY <2>1, RequestStays
  <2> QED
    BY <1>3, <2>2 DEF AcmeTypeOK, FlagTypes, Greeted, Incoming
<1>4. CASE Installed
  <2>1. toAcme' = Tail(toAcme) /\ Head(toAcme) # "RenewNow"
    BY <1>4 DEF Installed, Incoming, Succeed, Fail, GoBack
  <2>2. Requested => Requested'
    BY <2>1, RequestStays
  <2> QED
    BY <1>4, <2>2 DEF AcmeTypeOK, FlagTypes, Installed, Incoming, Succeed, Fail, GoBack
<1>5. CASE TimedOut
  BY <1>5 DEF AcmeTypeOK, FlagTypes, Requested, TimedOut, End, Fail, GoBack, Calling
<1>6. CASE Retry
  BY <1>6 DEF AcmeTypeOK, FlagTypes, Requested, Retry, Begin, Send
<1>7. CASE LoadFails
  BY <1>7 DEF AcmeTypeOK, FlagTypes, Requested, LoadFails, Begin, GoBack
<1>8. CASE NotDue
  BY <1>8 DEF AcmeTypeOK, FlagTypes, Requested, NotDue, Begin, Succeed
<1>9. CASE Order
  BY <1>9 DEF AcmeTypeOK, FlagTypes, Requested, Order, Begin
<1>10. CASE Present
  BY <1>10 DEF AcmeTypeOK, FlagTypes, Requested, Present, AtStep
<1>11. CASE OrderFails
  BY <1>11 DEF AcmeTypeOK, FlagTypes, Requested, OrderFails, Fail, GoBack, Withdraw
<1>12. CASE Finish
  BY <1>12 DEF AcmeTypeOK, FlagTypes, Requested, Finish, Send, Fail, GoBack, Withdraw
<1>13. CASE WaitEnds
  BY <1>13 DEF AcmeTypeOK, FlagTypes, Requested, WaitEnds
<1>14. CASE RenewWhileAsleep
  BY <1>14 DEF AcmeTypeOK, FlagTypes, Requested, RenewWhileAsleep, Incoming
<1>15. CASE RenewInBackoff
  BY <1>15 DEF AcmeTypeOK, FlagTypes, Requested, RenewInBackoff, Incoming
<1>16. CASE PeerEnds
  BY <1>16 DEF AcmeTypeOK, FlagTypes, Requested, PeerEnds, End, Calling
<1>17. CASE AnswerHello
  <2>1. toAcme' = Append(toAcme, "Hello") /\ "Hello" \in Say
    BY <1>17 DEF AnswerHello, Answer, Say
  <2>2. Requested => Requested'
    BY <2>1, RequestStays
  <2> QED
    BY <1>17, <2>2 DEF AcmeTypeOK, FlagTypes, AnswerHello, Answer
<1>18. CASE AnswerInstall
  <2>1. \E m \in Say : toAcme' = Append(toAcme, m)
    BY <1>18 DEF AnswerInstall, Install, Answer, Say
  <2>2. Requested => Requested'
    BY <2>1, RequestStays
  <2> QED
    BY <1>18, <2>2 DEF AcmeTypeOK, FlagTypes, AnswerInstall, Install, Answer
<1>19. CASE RenewNow
  <2>1. Len(toAcme) + 1 \in DOMAIN toAcme' /\ toAcme'[Len(toAcme) + 1] = "RenewNow"
    BY <1>19 DEF AcmeTypeOK, PairTypes, RenewNow
  <2>2. Requested'
    BY <2>1 DEF Requested
  <2> QED
    BY <1>19, <2>2 DEF AcmeTypeOK, FlagTypes, RenewNow
<1>20. CASE Close
  BY <1>20 DEF AcmeTypeOK, FlagTypes, Requested, Close
<1>21. CASE Tick
  BY <1>21 DEF AcmeTypeOK, FlagTypes, Requested, Tick
<1>22. CASE UNCHANGED vars
  BY <1>22 DEF Requested, vars
<1>23. CASE Authorize
  BY <1>23 DEF AcmeTypeOK, FlagTypes, Requested, Authorize, AtStep
<1>24. CASE Propagated
  BY <1>24 DEF AcmeTypeOK, FlagTypes, Requested, Propagated, AtStep
<1>25. CASE SetReady
  BY <1>25 DEF AcmeTypeOK, FlagTypes, Requested, SetReady, AtStep
<1>26. CASE PresentFails
  BY <1>26 DEF AcmeTypeOK, FlagTypes, Requested, PresentFails, AtStep, Fail, GoBack, Withdraw
<1>27. CASE ChallengeFails
  BY <1>27 DEF AcmeTypeOK, FlagTypes, Requested, ChallengeFails, AtStep, Fail, GoBack, Withdraw
<1> QED
  BY <1>1, <1>2, <1>3, <1>4, <1>5, <1>6, <1>7, <1>8, <1>9, <1>10, <1>11, <1>12,
     <1>13, <1>14, <1>15, <1>16, <1>17, <1>18, <1>19, <1>20, <1>21, <1>22, <1>23, <1>24,
     <1>25, <1>26, <1>27 DEF Next,
     AcmeStep, WorkerStep

(***************************************************************************)
(* The socket and the issued pair.                                         *)
(***************************************************************************)
LEMMA HeadIsRequest ==
  ASSUME NEW q \in Seq(Say), q # <<>>, OnlyRequests(q)
  PROVE  Head(q) = "RenewNow"
  BY DEF OnlyRequests

LEMMA SocketStep ==
  ASSUME AcmeTypeOK, Lockstep, IssuedIsHeld, [Next]_vars
  PROVE  Lockstep' /\ IssuedIsHeld'
<1> USE DEF loop, order, challenges, socket, worker
<1> SUFFICES ASSUME ~late'
             PROVE  Lockstep' /\ IssuedIsHeld'
  BY DEF Lockstep, IssuedIsHeld
<1>00. late => late'
  BY DEF Next, AcmeStep, WorkerStep, vars, Hello, RenewWhileCalling, Calling, Incoming,
     Greeted, Installed, Succeed, Fail, GoBack, TimedOut, End, Retry, Begin, Send,
     LoadFails, NotDue, Order, Authorize, Present, Propagated, SetReady, AtStep, OrderFails,
     PresentFails, ChallengeFails, Withdraw, Finish, WaitEnds,
     RenewWhileAsleep, RenewInBackoff, PeerEnds, AnswerHello, Answer, AnswerInstall,
     Install, RenewNow, Close, Tick
<1>0. /\ ~late /\ toAcme \in Seq(Say) /\ toWorker \in Seq(Messages) /\ held \in Age /\ unused \in Age
      /\ pc \in {"hello", "greeting", "round", "order", "installing", "sleep", "backoff", "ended"}
  BY <1>00 DEF AcmeTypeOK, FlagTypes, PairTypes
<1>1. CASE Hello
  <2>1. toWorker = <<>> /\ toWorker' = <<[type |-> "Hello"]>> /\ OnlyRequests(toAcme) /\ pc' = "greeting"
    BY <1>0, <1>1 DEF Lockstep, Hello
  <2> QED
    BY <1>0, <1>1, <2>1 DEF Lockstep, IssuedIsHeld, Spent, Hello
<1>2. CASE RenewWhileCalling
  <2>1. /\ toAcme # <<>> /\ Head(toAcme) = "RenewNow" /\ toAcme' = Tail(toAcme) /\ toWorker' = toWorker
        /\ held' = held /\ unused' = unused
    BY <1>2 DEF RenewWhileCalling, Calling, Incoming
  <2>2. /\ OnlyRequests(toAcme) => OnlyRequests(toAcme')
        /\ \A m \in {"Hello", "Installed", "Refused"} : OneAnswer(toAcme, {m}) => OneAnswer(toAcme', {m})
    BY <1>0, <2>1, RequestLeaves
  <2> QED
    BY <1>0, <1>2, <2>1, <2>2 DEF Lockstep, IssuedIsHeld, RenewWhileCalling, Calling,
       Incoming
<1>3. CASE Greeted
  <2>1. toWorker = <<>> /\ OneAnswer(toAcme, {"Hello"})
    BY <1>0, <1>3, HeadIsRequest DEF Lockstep, Greeted, Incoming
  <2>2. OnlyRequests(toAcme')
    BY <1>0, <1>3, <2>1, AnswerLeaves DEF Greeted, Incoming
  <2> QED
    BY <1>0, <1>3, <2>1, <2>2 DEF Lockstep, IssuedIsHeld, Greeted
<1>4. CASE Installed
  <2>1. /\ toAcme # <<>> /\ Head(toAcme) # "RenewNow" /\ toAcme' = Tail(toAcme)
        /\ pc = "installing" /\ toWorker' = toWorker /\ unused' = unused
        /\ pc' \in {"round", "sleep", "backoff"}
        /\ held' = held \/ Head(toAcme) = "Installed"
    BY <1>4 DEF Installed, Incoming, Succeed, Fail, GoBack
  <2>2. \/ toWorker = <<>> /\ OneAnswer(toAcme, {"Installed"}) /\ Spent(unused)
        \/ toWorker = <<>> /\ OneAnswer(toAcme, {"Refused"})
    BY <1>0, <2>1, HeadIsRequest DEF Lockstep
  <2>3. OnlyRequests(toAcme') /\ (Head(toAcme) = "Installed" => Spent(unused))
    BY <1>0, <2>1, <2>2, AnswerLeaves
  <2>4. Spent(unused) => Spent(unused')
    BY <2>1
  <2> QED
    BY <1>0, <2>1, <2>2, <2>3, <2>4 DEF Lockstep, IssuedIsHeld
<1>5. CASE TimedOut
  BY <1>0, <1>5 DEF Lockstep, IssuedIsHeld, Spent, TimedOut, End, Fail, GoBack, Calling
<1>6. CASE Retry
  <2>1. /\ toWorker' = <<[type |-> "Install", pair |-> held]>> /\ OnlyRequests(toAcme)
        /\ pc' = "installing" /\ held' = held
    BY <1>0, <1>6 DEF Lockstep, Retry, Begin, Send
  <2> QED
    BY <1>0, <1>6, <2>1 DEF Lockstep, IssuedIsHeld, Spent, Retry, Begin, Send
<1>7. CASE LoadFails
  <2>1. Spent(unused) /\ unused' = unused /\ toWorker' = toWorker /\ toAcme' = toAcme
    BY <1>0, <1>7 DEF IssuedIsHeld, LoadFails, Begin, GoBack
  <2>2. Spent(unused')
    BY <2>1 DEF Spent
  <2> QED
    BY <1>0, <1>7, <2>1, <2>2 DEF Lockstep, IssuedIsHeld, LoadFails, Begin, GoBack
<1>8. CASE NotDue
  <2>1. Spent(unused) /\ unused' = unused /\ toWorker' = toWorker /\ toAcme' = toAcme
    BY <1>0, <1>8 DEF IssuedIsHeld, NotDue, Begin, Succeed
  <2>2. Spent(unused')
    BY <2>1 DEF Spent
  <2> QED
    BY <1>0, <1>8, <2>1, <2>2 DEF Lockstep, IssuedIsHeld, NotDue, Begin, Succeed
<1>9. CASE Order
  <2>1. Spent(unused) /\ unused' = unused /\ toWorker' = toWorker /\ toAcme' = toAcme
    BY <1>0, <1>9 DEF IssuedIsHeld, Order, Begin
  <2>2. Spent(unused')
    BY <2>1 DEF Spent
  <2> QED
    BY <1>0, <1>9, <2>1, <2>2 DEF Lockstep, IssuedIsHeld, Order, Begin
<1>10. CASE Present
  BY <1>0, <1>10 DEF Lockstep, IssuedIsHeld, Spent, Present, AtStep
<1>11. CASE OrderFails
  BY <1>0, <1>11 DEF Lockstep, IssuedIsHeld, Spent, OrderFails, Fail, GoBack, Withdraw
<1>12. CASE Finish
  <2>1. /\ toWorker = <<>> /\ OnlyRequests(toAcme) /\ toAcme' = toAcme
        /\ \/ /\ toWorker' = <<[type |-> "Install", pair |-> 0]>> /\ pc' = "installing"
              /\ held' = 0 /\ unused' = 0
           \/ toWorker' = <<>> /\ pc' = "backoff" /\ unused' = None
    BY <1>0, <1>12 DEF Lockstep, Finish, Send, Fail, GoBack, Withdraw
  <2> QED
    BY <1>0, <2>1 DEF Lockstep, IssuedIsHeld, Spent
<1>13. CASE WaitEnds
  BY <1>0, <1>13 DEF Lockstep, IssuedIsHeld, Spent, WaitEnds
<1>14. CASE RenewWhileAsleep
  <2>1. /\ toAcme # <<>> /\ Head(toAcme) = "RenewNow" /\ toAcme' = Tail(toAcme) /\ toWorker' = toWorker
        /\ held' = held /\ unused' = unused
    BY <1>14 DEF RenewWhileAsleep, Incoming
  <2>2. /\ OnlyRequests(toAcme) => OnlyRequests(toAcme')
        /\ \A m \in {"Hello", "Installed", "Refused"} : OneAnswer(toAcme, {m}) => OneAnswer(toAcme', {m})
    BY <1>0, <2>1, RequestLeaves
  <2> QED
    BY <1>0, <1>14, <2>1, <2>2 DEF Lockstep, IssuedIsHeld, RenewWhileAsleep, Incoming
<1>15. CASE RenewInBackoff
  <2>1. /\ toAcme # <<>> /\ Head(toAcme) = "RenewNow" /\ toAcme' = Tail(toAcme) /\ toWorker' = toWorker
        /\ held' = held /\ unused' = unused
    BY <1>15 DEF RenewInBackoff, Incoming
  <2>2. /\ OnlyRequests(toAcme) => OnlyRequests(toAcme')
        /\ \A m \in {"Hello", "Installed", "Refused"} : OneAnswer(toAcme, {m}) => OneAnswer(toAcme', {m})
    BY <1>0, <2>1, RequestLeaves
  <2> QED
    BY <1>0, <1>15, <2>1, <2>2 DEF Lockstep, IssuedIsHeld, RenewInBackoff, Incoming
<1>16. CASE PeerEnds
  BY <1>0, <1>16 DEF Lockstep, IssuedIsHeld, Spent, PeerEnds, End, Calling
<1>17. CASE AnswerHello
  <2>1. /\ toWorker # <<>> /\ Head(toWorker).type = "Hello" /\ toWorker' = Tail(toWorker)
        /\ toAcme' = Append(toAcme, "Hello") /\ pc' = pc /\ held' = held /\ unused' = unused
    BY <1>17 DEF AnswerHello, Answer
  <2>2. pc = "ended" \/ (pc = "greeting" /\ toWorker = <<[type |-> "Hello"]>> /\ OnlyRequests(toAcme))
    BY <1>0, <2>1 DEF Lockstep
  <2>3. pc = "greeting" => toWorker' = <<>> /\ OneAnswer(toAcme', {"Hello"})
    BY <1>0, <2>1, <2>2, AnswerJoins DEF Say
  <2> QED
    BY <1>0, <2>1, <2>2, <2>3 DEF Lockstep, IssuedIsHeld, Spent
<1>18. CASE AnswerInstall
  <2>1. /\ toWorker # <<>> /\ Head(toWorker).type = "Install" /\ toWorker' = Tail(toWorker)
        /\ pc' = pc /\ held' = held
        /\ \/ toAcme' = Append(toAcme, "Installed") /\ unused' = None
           \/ toAcme' = Append(toAcme, "Refused") /\ unused' = unused
    BY <1>18 DEF AnswerInstall, Install, Answer
  <2>2. pc = "ended" \/ (/\ pc = "installing" /\ OnlyRequests(toAcme)
                         /\ toWorker = <<[type |-> "Install", pair |-> held]>>)
    BY <1>0, <2>1 DEF Lockstep
  <2>3. pc = "installing" =>
          /\ toWorker' = <<>>
          /\ \/ OneAnswer(toAcme', {"Installed"}) /\ unused' = None
             \/ OneAnswer(toAcme', {"Refused"})
    <3>1. {"Installed", "Refused"} \subseteq Say
      BY DEF Say
    <3>2. CASE toAcme' = Append(toAcme, "Installed") /\ unused' = None
      BY <1>0, <2>1, <2>2, <3>1, <3>2, AnswerJoins
    <3>3. CASE toAcme' = Append(toAcme, "Refused")
      BY <1>0, <2>1, <2>2, <3>1, <3>3, AnswerJoins
    <3> QED
      BY <2>1, <3>2, <3>3
  <2> QED
    BY <1>0, <2>1, <2>2, <2>3 DEF Lockstep, IssuedIsHeld, Spent
<1>19. CASE RenewNow
  <2>1. /\ OnlyRequests(toAcme) => OnlyRequests(toAcme')
        /\ \A m : OneAnswer(toAcme, m) => OneAnswer(toAcme', m)
    BY <1>0, <1>19, RequestJoins DEF RenewNow
  <2> QED
    BY <1>0, <1>19, <2>1 DEF Lockstep, IssuedIsHeld, Spent, RenewNow
<1>20. CASE Close
  BY <1>0, <1>20 DEF Lockstep, IssuedIsHeld, Spent, Close
<1>21. CASE Tick
  <2>1. /\ pc' = pc /\ toAcme' = toAcme
        /\ held' = Growth(held, Old) /\ unused' = Growth(unused, Old)
    BY <1>21 DEF Tick
  <2>2. Spent(unused) => Spent(unused')
    BY <1>0, <2>1, GrowthType DEF Spent
  <2>3. toWorker = <<>> => toWorker' = <<>>
    BY <1>21 DEF Tick
  <2>4. toWorker = <<[type |-> "Hello"]>> => toWorker' = <<[type |-> "Hello"]>>
    BY <1>21 DEF Tick
  <2>5. toWorker = <<[type |-> "Install", pair |-> held]>> =>
          toWorker' = <<[type |-> "Install", pair |-> held']>>
    BY <1>21, <2>1 DEF Tick
  <2> QED
    BY <1>0, <2>1, <2>2, <2>3, <2>4, <2>5 DEF Lockstep, IssuedIsHeld
<1>22. CASE UNCHANGED vars
  BY <1>0, <1>22 DEF Lockstep, IssuedIsHeld, Spent, OnlyRequests, OneAnswer, vars
<1>23. CASE Authorize
  BY <1>0, <1>23 DEF Lockstep, IssuedIsHeld, Spent, Authorize, AtStep
<1>24. CASE Propagated
  BY <1>0, <1>24 DEF Lockstep, IssuedIsHeld, Spent, Propagated, AtStep
<1>25. CASE SetReady
  BY <1>0, <1>25 DEF Lockstep, IssuedIsHeld, Spent, SetReady, AtStep
<1>26. CASE PresentFails
  BY <1>0, <1>26 DEF Lockstep, IssuedIsHeld, Spent, PresentFails, AtStep, Fail, GoBack, Withdraw
<1>27. CASE ChallengeFails
  BY <1>0, <1>27 DEF Lockstep, IssuedIsHeld, Spent, ChallengeFails, AtStep, Fail, GoBack, Withdraw
<1> QED
  BY <1>1, <1>2, <1>3, <1>4, <1>5, <1>6, <1>7, <1>8, <1>9, <1>10, <1>11, <1>12,
     <1>13, <1>14, <1>15, <1>16, <1>17, <1>18, <1>19, <1>20, <1>21, <1>22, <1>23, <1>24,
     <1>25, <1>26, <1>27 DEF Next,
     AcmeStep, WorkerStep

LEMMA AcmeInvStep ==
  ASSUME AcmeInv, [Next]_vars
  PROVE  AcmeInv'
  BY FlagTypesStep, PairTypesStep, FlagsStep, SocketStep DEF AcmeInv, AcmeTypeOK

LEMMA AcmeInvInit ==
  ASSUME Init
  PROVE  AcmeInv
<1>1. FlagTypes
  BY DEF Init, FlagTypes
<1>2. PairTypes
  BY MessageTypes DEF Init, PairTypes
<1> QED
  BY <1>1, <1>2 DEF Init, AcmeInv, AcmeTypeOK, OwedIsKnown, ChallengesWithdrawn, SeenInBackoff,
     RequestKept,
                    Lockstep, IssuedIsHeld, OnlyRequests, Spent

LEMMA AcmeInvAlways == Spec => []AcmeInv
  BY AcmeInvInit, AcmeInvStep, PTL DEF Spec

----------------------------------------------------------------------------
(* When an order is over, whichever of its steps failed and however many    *)
(* records were up by then, the deletion of each of them was asked for: the *)
(* clean-ups of present_challenges and issue go by the list `presented`,    *)
(* which holds every record that is up.                                     *)
THEOREM ChallengesAreWithdrawn == Spec => []ChallengesWithdrawn
  BY AcmeInvAlways, PTL DEF AcmeInv

(* A renewal the web asked for is never dropped between rounds of run_loop: *)
(* it is on the socket or in one of the three flags until a forced round    *)
(* takes it up.                                                             *)
THEOREM RequestIsKept == Spec => []RequestKept
  BY AcmeInvAlways, PTL DEF AcmeInv

(* No order is placed while the pair of an earlier one is valid and not     *)
(* served, as long as AcmeClient::call has given up on no answer: until     *)
(* then the socket runs in lockstep, so that an Installed is the answer to  *)
(* the install of the held pair.                                            *)
THEOREM OrdersAreNotWasted == Spec => NoOrderWasted
<1>1. ASSUME AcmeInv, [Next]_vars
      PROVE  [pc # "order" /\ pc' = "order" /\ ~late => Spent(unused)]_vars
  <2> SUFFICES ASSUME pc # "order", pc' = "order", ~late
               PROVE  Spent(unused)
    OBVIOUS
  <2>1. Order
    BY <1>1 DEF Next, AcmeStep, WorkerStep, vars, loop, order, challenges, socket, worker, Hello,
       RenewWhileCalling, Calling, Incoming, Greeted, Installed, Succeed, Fail,
       GoBack, TimedOut, End, Retry, Begin, Send, LoadFails, NotDue, Authorize, Present,
       Propagated, SetReady, AtStep, OrderFails, PresentFails, ChallengeFails, Withdraw, Finish, WaitEnds, RenewWhileAsleep, RenewInBackoff,
       PeerEnds, AnswerHello, Answer, AnswerInstall, Install, RenewNow, Close, Tick
  <2> QED
    BY <1>1, <2>1 DEF AcmeInv, IssuedIsHeld, Order, Begin
<1> QED
  BY <1>1, AcmeInvAlways, PTL DEF Spec, NoOrderWasted
=============================================================================
