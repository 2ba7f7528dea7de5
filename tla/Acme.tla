-------------------------------- MODULE Acme --------------------------------
(***************************************************************************)
(* The acme process: its renewal loop, the order it places with the CA,    *)
(* and the socket on which the worker installs what it obtained and asks   *)
(* for a renewal.                                                          *)
(*                                                                         *)
(* Times are relative, so that they need no bound: a certificate is the    *)
(* time since its not_before, last_order the time since that order's       *)
(* round began, a wait the time it has left.  Each stops growing where no  *)
(* comparison of the code tells it from a larger one.                      *)
(*                                                                         *)
(* The process reads the stored pair, never the one the worker serves; the *)
(* two differ when the worker fails after it wrote the file.               *)
(***************************************************************************)
EXTENDS Schedule, Sequences, FiniteSets

CONSTANTS
  None,
  Domains,         \* the names an order authorizes
  Life,            \* not_after - not_before
  Windows,         \* starts of ARI's window, counted from not_before
  FirstRetry, CheckInterval,  \* FIRST_RETRY, which is MIN_CHECK_INTERVAL; and
                              \* CHECK_INTERVAL, which is MAX_RETRY
  MinForced,       \* MIN_FORCED_INTERVAL
  AcmeTimeout,     \* ACME_TIMEOUT
  FaultKinds, MaxFaults,  \* what may fail, and how often
  MaxRequests      \* bound: RenewNow messages under way

ASSUME AcmeAssumption ==
  /\ {Life, FirstRetry, MinForced, AcmeTimeout, MaxRequests} \subseteq Nat \ {0}
  /\ CheckInterval \in Nat /\ MinForced <= CheckInterval /\ FirstRetry <= CheckInterval
  /\ Windows \subseteq 0..Life /\ MaxFaults \in Nat
  /\ None \notin Int

VARIABLES
  pc, force, pending, seen,  \* run_loop: force, AcmeClient::pending_renew, renew_seen
  retry, wait, deadline,     \* its backoff; what is left of the wait, and until deadline
  elapsed,                   \* since started_at
  held,                      \* the pair in `held`, or the one being installed
  recheck,                   \* the delay that follows this install, if it succeeds
  lastOrder,                 \* last_order
  todo, challenge,           \* authorizations still pending, and the one in hand
  presented, dns,            \* the records to clean up; those that went up and whose
                             \* deletion was not asked for
  toWorker, toAcme, closed,  \* the socket, and whether the worker closed it
  disk, served,              \* the stored pair and the one in the CertStore; None as
                             \* well for a pair whose validity cannot be read
  faults,                    \* faults left
  asked,    \* history: a request was sent that no forced round has taken up
  unused,   \* history: the pair of the last order, until the worker serves it
  late      \* history: an answer was given up on

loop == <<force, pending, seen, retry, deadline>>
challenges == <<todo, challenge, presented, dns>>
order == <<lastOrder, challenges, unused>>
socket == <<toWorker, toAcme, closed>>
worker == <<disk, served>>
vars == <<pc, loop, wait, elapsed, held, recheck, order, socket, worker, faults, asked, late>>

Old == Life + 1

(* Growth(t, top): t one tick later, where top stands for top and more.     *)
Growth(t, top) == IF t = None THEN None ELSE Lesser(t + 1, top)

(* There is no such pair, or it has expired.                                *)
Spent(c) == IF c = None THEN TRUE ELSE c > Life

Left(t) == Greater(t - 1, 0)

Fault(kind) == kind \in FaultKinds /\ faults > 0 /\ faults' = faults - 1

Requested == \E i \in DOMAIN toAcme : toAcme[i] = "RenewNow"

----------------------------------------------------------------------------
(* When a certificate is due, with a window (w) or without one.             *)

ShouldRenew(age, w) ==
  IF w = None THEN should_renew(Life, age) ELSE should_renew_in_window(Life, age, w)

UntilDue(age, w) ==
  IF w = None THEN until_due(Life, age) ELSE until_due_in_window(Life, age, w)

(* next_check of a certificate that had this age when the round began.      *)
next_check(age, w) == Greater(FirstRetry, Lesser(CheckInterval, UntilDue(age, w)))

(* AcmeIssuer::renewal_window: the account is known from the first order on.*)
KnownWindows == IF lastOrder = None THEN {None} ELSE Windows \cup {None}

(* Of started_at, as forced_order_allowed gets it.                          *)
ForcedAllowed == IF lastOrder = None THEN TRUE ELSE lastOrder >= MinForced

----------------------------------------------------------------------------
(* How a round ends.                                                        *)

(* The wait after a success, skipped when a request came during the round.  *)
Succeed(delay) ==
  /\ retry' = FirstRetry
  /\ force' = pending /\ pending' = FALSE /\ seen' = FALSE /\ deadline' = 0
  /\ IF pending THEN pc' = "round" /\ wait' = 0 ELSE pc' = "sleep" /\ wait' = delay

(* The backoff.  Its deadline counts from started_at, the wait from now.    *)
GoBack(since) ==
  /\ retry' = Lesser(2 * retry, CheckInterval)
  /\ pc' = "backoff" /\ wait' = retry /\ deadline' = Greater(retry - since, 0)
  /\ seen' = pending /\ pending' = FALSE /\ force' = FALSE

Fail(since) == GoBack(since) /\ elapsed' = 0 /\ recheck' = 0

End == pc' = "ended" /\ wait' = 0 /\ UNCHANGED <<elapsed, recheck>>

(* AcmeClient::install up to its wait for the answer, for the pair c that   *)
(* had this age when the round began.                                       *)
Send(c, age) ==
  /\ toWorker' = Append(toWorker, [type |-> "Install", pair |-> c])
  /\ held' = c /\ recheck' = next_check(age, None)
  /\ pc' = "installing" /\ wait' = AcmeTimeout
  /\ UNCHANGED <<toAcme, closed>>

----------------------------------------------------------------------------
(* A round: the held pair again, else the stored pair if it is due.         *)

(* This round takes up the request behind `force`.                          *)
Begin ==
  /\ pc = "round" /\ elapsed' = 0
  /\ asked' = IF force THEN Requested ELSE asked

Retry ==
  /\ Begin
  /\ ~Spent(held)
  /\ Send(held, held)
  /\ force' = FALSE
  /\ UNCHANGED <<pending, seen, retry, deadline, order, worker, faults, late>>

(* load_acme cannot read the stored pair.                                   *)
LoadFails ==
  /\ Begin /\ Spent(held)
  /\ Fault("load")
  /\ GoBack(0) /\ held' = None /\ recheck' = 0
  /\ UNCHANGED <<order, socket, worker, late>>

NotDue ==
  /\ Begin /\ Spent(held)
  /\ disk # None /\ ~(force /\ ForcedAllowed)
  /\ \E w \in KnownWindows : ~ShouldRenew(disk, w) /\ Succeed(next_check(disk, w))
  /\ held' = None /\ recheck' = 0
  /\ UNCHANGED <<order, socket, worker, faults, late>>

(* account_and_order: the CA names the authorizations it still wants.       *)
Order ==
  /\ Begin /\ Spent(held)
  /\ disk # None /\ ~(force /\ ForcedAllowed) => \E w \in KnownWindows : ShouldRenew(disk, w)
  /\ todo' \in SUBSET Domains
  /\ pc' = "order" /\ held' = None /\ force' = FALSE
  /\ UNCHANGED <<pending, seen, retry, deadline, wait, recheck, lastOrder, challenge, presented,
                 dns, unused, socket, worker, faults, late>>

----------------------------------------------------------------------------
(* The order (order.rs).                                                    *)

(* present_challenges takes the authorizations one after the other.         *)
AtStep(steps) == pc = "order" /\ challenge # None /\ challenge.step \in steps

Authorize ==
  /\ pc = "order" /\ challenge = None
  /\ \E d \in todo : todo' = todo \ {d} /\ challenge' = [record |-> d, step |-> "present"]
  /\ UNCHANGED <<pc, loop, wait, elapsed, held, recheck, lastOrder, presented, dns, unused,
                 socket, worker, faults, asked, late>>

(* The record goes up.  AcmeIssuer has nothing to push between this and the *)
(* wait for its propagation.                                                *)
Present ==
  /\ AtStep({"present"})
  /\ presented' = presented \cup {challenge.record} /\ dns' = dns \cup {challenge.record}
  /\ challenge' = [record |-> challenge.record, step |-> "propagate"]
  /\ UNCHANGED <<pc, loop, wait, elapsed, held, recheck, lastOrder, todo, unused, socket,
                 worker, faults, asked, late>>

Propagated ==
  /\ AtStep({"propagate"})
  /\ challenge' = [record |-> challenge.record, step |-> "ready"]
  /\ UNCHANGED <<pc, loop, wait, elapsed, held, recheck, lastOrder, todo, presented, dns,
                 unused, socket, worker, faults, asked, late>>

SetReady ==
  /\ AtStep({"ready"})
  /\ challenge' = None
  /\ UNCHANGED <<pc, loop, wait, elapsed, held, recheck, lastOrder, todo, presented, dns,
                 unused, socket, worker, faults, asked, late>>

(* The end of the order: the deletion of these records is asked for.  What  *)
(* the provider answers is not looked at.                                   *)
Withdraw(records) ==
  /\ dns' = dns \ records
  /\ todo' = {} /\ challenge' = None /\ presented' = {}

(* A step of the order fails with the records of earlier turns up: the      *)
(* order itself, the list of authorizations or what one of them asks for;   *)
(* wait_ready or finalize.                                                  *)
OrderFails ==
  /\ pc = "order" /\ challenge = None /\ Fault("order")
  /\ Withdraw(presented)
  /\ Fail(elapsed)
  /\ UNCHANGED <<held, lastOrder, unused, socket, worker, asked, late>>

(* The provider reports that the record did not go up, and no deletion is   *)
(* asked for, also if it is up after all.                                   *)
PresentFails ==
  /\ AtStep({"present"}) /\ Fault("order")
  /\ Withdraw(presented)
  /\ Fail(elapsed)
  /\ UNCHANGED <<held, lastOrder, unused, socket, worker, asked, late>>

(* confirm_propagated or set_ready fails: the record is deleted and popped, *)
(* then the earlier ones.                                                   *)
ChallengeFails_Pops ==
  /\ AtStep({"propagate", "ready"}) /\ Fault("order")
  /\ Withdraw(presented \ {challenge.record})
  /\ Fail(elapsed)
  /\ UNCHANGED <<held, lastOrder, unused, socket, worker, asked, late>>
ChallengeFails ==
  /\ AtStep({"propagate", "ready"}) /\ Fault("order")
  /\ Withdraw({challenge.record} \cup (presented \ {challenge.record}))
  /\ Fail(elapsed)
  /\ UNCHANGED <<held, lastOrder, unused, socket, worker, asked, late>>

(* finish_order and the rest of renew_once.  A chain that does not parse is *)
(* dropped, but its order counts.                                           *)
Finish ==
  /\ pc = "order" /\ todo = {} /\ challenge = None
  /\ Withdraw(presented)
  /\ lastOrder' = Lesser(elapsed, MinForced)
  /\ \/ /\ Send(0, -elapsed) /\ unused' = 0
        /\ UNCHANGED <<loop, elapsed, faults>>
     \/ /\ Fault("chain") /\ Fail(elapsed) /\ unused' = None
        /\ UNCHANGED <<held, socket>>
  /\ UNCHANGED <<worker, asked, late>>

----------------------------------------------------------------------------
(* AcmeClient::call, for hello and for an install.                          *)

Calling == pc \in {"greeting", "installing"}

Hello ==
  /\ pc = "hello"
  /\ toWorker' = Append(toWorker, [type |-> "Hello"])
  /\ pc' = "greeting" /\ wait' = AcmeTimeout
  /\ UNCHANGED <<loop, elapsed, held, recheck, order, toAcme, closed, worker, faults, asked, late>>

Incoming == Head(toAcme)

(* A RenewNow before the answer is recorded, and the read starts again.     *)
RenewWhileCalling ==
  /\ Calling /\ toAcme # <<>> /\ Incoming = "RenewNow"
  /\ toAcme' = Tail(toAcme)
  /\ pending' = TRUE /\ wait' = AcmeTimeout
  /\ UNCHANGED <<pc, force, seen, retry, deadline, elapsed, held, recheck, order, toWorker,
                 closed, worker, faults, asked, late>>

Greeted ==
  /\ pc = "greeting" /\ toAcme # <<>> /\ Incoming = "Hello"
  /\ toAcme' = Tail(toAcme)
  /\ pc' = "round" /\ force' = pending /\ pending' = FALSE /\ wait' = 0
  /\ UNCHANGED <<seen, retry, deadline, elapsed, held, recheck, order, toWorker, closed,
                 worker, faults, asked, late>>

Installed_Drops ==
  /\ pc = "installing" /\ toAcme # <<>> /\ Incoming \in {"Installed", "Refused"}
  /\ toAcme' = Tail(toAcme)
  /\ \/ Incoming = "Installed" /\ Succeed(recheck) /\ elapsed' = 0 /\ recheck' = 0
     \/ Incoming = "Refused" /\ Fail(elapsed)
  /\ held' = None
  /\ UNCHANGED <<order, toWorker, closed, worker, faults, asked, late>>

(* The worker's answer, which may be the late one of an earlier install.    *)
Installed ==
  /\ pc = "installing" /\ toAcme # <<>> /\ Incoming \in {"Installed", "Refused"}
  /\ toAcme' = Tail(toAcme)
  /\ \/ /\ Incoming = "Installed" /\ held' = None
        /\ Succeed(recheck) /\ elapsed' = 0 /\ recheck' = 0
     \/ Incoming = "Refused" /\ Fail(elapsed) /\ UNCHANGED held
  /\ UNCHANGED <<order, toWorker, closed, worker, faults, asked, late>>

(* ACME_TIMEOUT: the end of the process, or a failed install.               *)
TimedOut ==
  /\ Calling /\ toAcme = <<>> /\ ~closed /\ wait = 0
  /\ \/ pc = "greeting" /\ End /\ UNCHANGED loop
     \/ pc = "installing" /\ Fail(elapsed)
  /\ late' = TRUE
  /\ UNCHANGED <<held, order, socket, worker, faults, asked>>

----------------------------------------------------------------------------
(* The waits (wait_or_peer), and what the worker says during them.  poll(2) *)
(* reports a message before it reports that the time is up.                 *)

WaitEnds_Forgets ==
  /\ pc \in {"sleep", "backoff"} /\ wait = 0 /\ toAcme = <<>> /\ ~closed
  /\ pc' = "round" /\ force' = FALSE /\ seen' = FALSE /\ deadline' = 0
  /\ UNCHANGED <<pending, retry, wait, elapsed, held, recheck, order, socket, worker, faults,
                 asked, late>>

WaitEnds ==
  /\ pc \in {"sleep", "backoff"} /\ wait = 0 /\ toAcme = <<>> /\ ~closed
  /\ pc' = "round" /\ force' = seen /\ seen' = FALSE /\ deadline' = 0
  /\ UNCHANGED <<pending, retry, wait, elapsed, held, recheck, order, socket, worker, faults,
                 asked, late>>

RenewWhileAsleep ==
  /\ pc = "sleep" /\ toAcme # <<>> /\ Incoming = "RenewNow"
  /\ toAcme' = Tail(toAcme)
  /\ pc' = "round" /\ force' = TRUE /\ wait' = 0
  /\ UNCHANGED <<pending, seen, retry, deadline, elapsed, held, recheck, order, toWorker,
                 closed, worker, faults, asked, late>>

RenewInBackoff_StartsOver ==
  /\ pc = "backoff" /\ toAcme # <<>> /\ Incoming = "RenewNow"
  /\ toAcme' = Tail(toAcme)
  /\ seen' = TRUE /\ wait' = retry
  /\ UNCHANGED <<pc, force, pending, retry, deadline, elapsed, held, recheck, order, toWorker,
                 closed, worker, faults, asked, late>>

RenewInBackoff ==
  /\ pc = "backoff" /\ toAcme # <<>> /\ Incoming = "RenewNow"
  /\ toAcme' = Tail(toAcme)
  /\ seen' = TRUE /\ wait' = deadline
  /\ UNCHANGED <<pc, force, pending, retry, deadline, elapsed, held, recheck, order, toWorker,
                 closed, worker, faults, asked, late>>

(* A message that is no RenewNow, or the end of the stream: renewals stop.  *)
PeerEnds ==
  /\ \/ pc \in {"sleep", "backoff"} /\ toAcme # <<>> /\ Incoming # "RenewNow"
     \/ (Calling \/ pc \in {"sleep", "backoff"}) /\ toAcme = <<>> /\ closed
  /\ End
  /\ UNCHANGED <<loop, held, order, socket, worker, faults, asked, late>>

----------------------------------------------------------------------------
(* The worker.                                                              *)

Answer(m) ==
  /\ ~closed /\ toWorker # <<>>
  /\ toWorker' = Tail(toWorker) /\ toAcme' = Append(toAcme, m)
  /\ UNCHANGED <<pc, loop, wait, elapsed, held, recheck, lastOrder, challenges, closed, asked, late>>

AnswerHello ==
  /\ Answer("Hello") /\ Head(toWorker).type = "Hello"
  /\ UNCHANGED <<unused, worker, faults>>

(* check_and_install, install_acme: the pair is stored, then served.        *)
Install(c) ==
  \/ /\ c <= Life /\ Answer("Installed")
     /\ disk' = c /\ served' = c /\ unused' = None
     /\ UNCHANGED faults
  \/ /\ c <= Life /\ Answer("Refused") /\ Fault("store")
     /\ disk' = c /\ UNCHANGED <<served, unused>>
  \/ /\ Answer("Refused")
     /\ (c > Life /\ UNCHANGED faults) \/ Fault("refuse")
     /\ UNCHANGED <<worker, unused>>

AnswerInstall ==
  /\ toWorker # <<>> /\ Head(toWorker).type = "Install"
  /\ Install(Head(toWorker).pair)

(* AcmeRenewer::renew_now, of a handler's thread.                           *)
RenewNow ==
  /\ ~closed /\ pc # "ended"
  /\ Cardinality({i \in DOMAIN toAcme : toAcme[i] = "RenewNow"}) < MaxRequests
  /\ toAcme' = Append(toAcme, "RenewNow") /\ asked' = TRUE
  /\ UNCHANGED <<pc, loop, wait, elapsed, held, recheck, order, toWorker, closed, worker,
                 faults, late>>

Close ==
  /\ ~closed /\ closed' = TRUE
  /\ UNCHANGED <<pc, loop, wait, elapsed, held, recheck, order, toWorker, toAcme, worker,
                 faults, asked, late>>

----------------------------------------------------------------------------
(* Time passes while the process waits: for its own timer, for the CA, or   *)
(* for the worker, which answers at once unless it is slow.                 *)
Tick ==
  /\ pc \notin {"hello", "round"}
  /\ pc \in {"greeting", "installing", "sleep", "backoff"} => wait > 0 /\ toAcme = <<>> /\ ~closed
  /\ IF toWorker # <<>> /\ ~closed THEN Fault("slow") ELSE UNCHANGED faults
  /\ wait' = Left(wait) /\ deadline' = Left(deadline)
  /\ elapsed' = IF pc \in {"order", "installing"} THEN Growth(elapsed, CheckInterval) ELSE elapsed
  /\ held' = Growth(held, Old) /\ disk' = Growth(disk, Old) /\ served' = Growth(served, Old)
  /\ unused' = Growth(unused, Old)
  /\ lastOrder' = Growth(lastOrder, MinForced)
  /\ toWorker' = [i \in DOMAIN toWorker |->
                    IF toWorker[i].type = "Hello" THEN toWorker[i]
                    ELSE [toWorker[i] EXCEPT !.pair = Growth(@, Old)]]
  /\ UNCHANGED <<pc, force, pending, seen, retry, recheck, challenges, toAcme, closed, asked, late>>

Init ==
  /\ pc = "hello" /\ force = FALSE /\ pending = FALSE /\ seen = FALSE
  /\ retry = FirstRetry /\ wait = 0 /\ deadline = 0 /\ elapsed = 0
  /\ held = None /\ recheck = 0 /\ lastOrder = None
  /\ todo = {} /\ challenge = None /\ presented = {} /\ dns = {}
  /\ toWorker = <<>> /\ toAcme = <<>> /\ closed = FALSE
  /\ disk \in {None} \cup 0..Old /\ served = disk
  /\ faults = MaxFaults /\ asked = FALSE /\ unused = None /\ late = FALSE

AcmeStep ==
  \/ Hello \/ RenewWhileCalling \/ Greeted \/ Installed \/ TimedOut
  \/ Retry \/ LoadFails \/ NotDue \/ Order
  \/ Authorize \/ Present \/ Propagated \/ SetReady
  \/ OrderFails \/ PresentFails \/ ChallengeFails \/ Finish
  \/ WaitEnds \/ RenewWhileAsleep \/ RenewInBackoff \/ PeerEnds

WorkerStep == AnswerHello \/ AnswerInstall

Next == AcmeStep \/ WorkerStep \/ RenewNow \/ Close \/ Tick

(* The process and the worker's thread run on, and a CA answers or times    *)
(* out.  Requests may go on for ever, but not so fast that the loop finds   *)
(* one on the socket each time it polls: strong fairness of time, and of    *)
(* the end of a wait.                                                       *)
Fairness ==
  /\ WF_vars(AcmeStep) /\ WF_vars(WorkerStep) /\ SF_vars(WaitEnds) /\ SF_vars(Tick)

Spec == Init /\ [][Next]_vars /\ Fairness

----------------------------------------------------------------------------
Due(c) == IF c = None THEN TRUE ELSE c >= two_thirds(Life)

(* Whichever step of an order fails, with however many records up, and      *)
(* also when it succeeds, the deletion of every record that the provider    *)
(* reported up was asked for when the order is over (present_challenges,    *)
(* issue, cleanup_challenges).                                              *)
ChallengesWithdrawn == pc # "order" => dns = {}

(* A renewal the web asked for is on the socket or in one of the loop's     *)
(* three flags until a forced round takes it up: no failure, timeout or     *)
(* backoff between two rounds drops it (run_loop, AcmeClient::call).        *)
RequestKept ==
  asked /\ pc # "ended" =>
    Requested \/ pending \/ seen \/ (force /\ pc = "round")

(* No order is placed while the pair of an earlier one is valid and waits   *)
(* to be served: the install is tried again instead, forced or not (round). *)
(* An answer that came after ACME_TIMEOUT breaks this: it is then taken for *)
(* the answer to a later install.                                           *)
NoOrderWasted ==
  [][pc # "order" /\ pc' = "order" /\ ~late => Spent(unused)]_vars

(* A certificate past two thirds of its life is replaced in the listener,   *)
(* although the worker may ask for renewals for ever meanwhile, unless the  *)
(* worker closes the socket or the process has ended (run_loop).            *)
DueIsRenewed == Due(served) ~> (~Due(served) \/ closed \/ pc = "ended")
=============================================================================
