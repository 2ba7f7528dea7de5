----------------------------- MODULE ServeProofs -----------------------------
(***************************************************************************)
(* The channels of the process tree, for any number of connections, calls, *)
(* hooks and faults: an answer is never taken for another's, and the       *)
(* runner is there as long as the monitor's loop may need it.              *)
(***************************************************************************)
EXTENDS Serve, TLAPS

(***************************************************************************)
(* The invariant.                                                          *)
(***************************************************************************)
Positive == Nat \ {0}

ServeTypeOK ==
  /\ mon \in {"confine", "begin", "abort", "lock", "recover", "idle", "work", "exit",
              "reapWorker", "reapRunner", "reapAcme", "ended"}
  /\ runner \in {"new", "idle", "busy", "ended"}
  /\ worker \in {"await", "hello", "serving", "grace", "join", "ended"}
  /\ eng \in {"none", "recv", "run", "stop", "ended"}
  /\ serving \in Nat /\ asking \in Nat /\ hooks \in Nat /\ asked \in Nat /\ calls \in Nat
  /\ toMonitor \in Seq(Positive) /\ toWorker \in Seq(Positive)
  /\ toRunner \in Seq(Positive) /\ fromRunner \in Seq(Positive)

(* The monitor waits for a hook only in its loop, with the channel open;    *)
(* the channel then holds that hook or its answer, and nothing while no     *)
(* hook is waited for.                                                      *)
HookInv ==
  /\ asking # 0 => link /\ mon \in {"recover", "idle", "work", "exit"}
  /\ runner = "busy" => toRunner # <<>>
  /\ asking # 0 => \/ toRunner = <<asking>> /\ fromRunner = <<>>
                   \/ toRunner = <<>> /\ fromRunner = <<asking>>
  /\ link /\ asking = 0 /\ mon # "ended" => toRunner = <<>> /\ fromRunner = <<>>

(* A runner that got to its loop ends only after its channel was dropped.   *)
RunnerInv == ~RunnerDropped => runner # "ended" \/ lost

(* What there is between the worker and the monitor: nothing, or the        *)
(* request asked on its way, being worked on, or answered.                  *)
Nothing == toMonitor = <<>> /\ serving = 0 /\ toWorker = <<>>

OneCall ==
  \/ Nothing
  \/ toMonitor = <<asked>> /\ serving = 0 /\ toWorker = <<>>
  \/ toMonitor = <<>> /\ serving = asked /\ toWorker = <<>>
  \/ toMonitor = <<>> /\ serving = 0 /\ toWorker = <<asked>>

(* Nobody is left who could send another request.                           *)
Silent == MonitorClosed \/ (worker = "ended" /\ eng \in {"none", "ended"})

CallInv ==
  /\ worker \in {"await", "hello"} => eng = "none"
  /\ worker = "ended" => eng \in {"none", "ended"}
  /\ eng = "recv" => asked = 0
  /\ mon = "work" => serving # 0
  /\ ~gaveUp => IF asked = 0 THEN Nothing \/ Silent ELSE OneCall

ServeInv == ServeTypeOK /\ HookInv /\ RunnerInv /\ CallInv

----------------------------------------------------------------------------
(***************************************************************************)
(* Queues.                                                                 *)
(***************************************************************************)
LEMMA QueueFacts ==
  ASSUME NEW S, NEW q \in Seq(S), NEW x \in S
  PROVE  /\ Append(q, x) \in Seq(S)
         /\ Append(q, x) # <<>>
         /\ q = <<>> => Append(q, x) = <<x>>
<1>1. Append(q, x) \in Seq(S) /\ Len(Append(q, x)) = Len(q) + 1 /\ Len(q) \in Nat
  OBVIOUS
<1>2. Append(q, x) # <<>>
  BY <1>1
<1>3. Append(<<>>, x) = <<x>>
  OBVIOUS
<1> QED
  BY <1>1, <1>2, <1>3

LEMMA TakeFacts ==
  ASSUME NEW S, NEW q \in Seq(S), q # <<>>
  PROVE  Head(q) \in S /\ Tail(q) \in Seq(S)
  OBVIOUS

(* Client::call ends with a response taken off the channel, or without.     *)
LEMMA CallEndFacts ==
  ASSUME TakeResponse \/ GaveUp
  PROVE  /\ asked' = 0
         /\ \/ toWorker' = toWorker
            \/ toWorker # <<>> /\ toWorker' = Tail(toWorker)
<1>1. CASE TakeResponse
  BY <1>1 DEF TakeResponse
<1>2. CASE GaveUp
  BY <1>2 DEF GaveUp
<1> QED
  BY <1>1, <1>2

LEMMA OneFacts ==
  ASSUME NEW x
  PROVE  Head(<<x>>) = x /\ Tail(<<x>>) = <<>> /\ <<x>> # <<>>
  OBVIOUS

(***************************************************************************)
(* It is inductive.                                                        *)
(***************************************************************************)
LEMMA ServeTypeStep ==
  ASSUME ServeTypeOK, HookInv, CallInv, [Next]_vars
  PROVE  ServeTypeOK'
<1> USE ServeAssumption DEF monVars, runnerVars, workerVars, pair, outside
<1>0. /\ runner = "busy" => toRunner # <<>>
      /\ mon = "work" => serving # 0
  BY DEF HookInv, CallInv
<1>1. CASE Confine
  BY <1>0, <1>1 DEF ServeTypeOK, Positive, Fault, Shutdown, Confine
<1>2. CASE BlockStopSignals
  BY <1>0, <1>2 DEF ServeTypeOK, Positive, Fault, Shutdown, BlockStopSignals
<1>3. CASE Abort
  BY <1>0, <1>3 DEF ServeTypeOK, Positive, Fault, Shutdown, Abort
<1>4. CASE Lock
  BY <1>0, <1>4 DEF ServeTypeOK, Positive, Fault, Shutdown, Lock
<1>5. CASE Recovered
  BY <1>0, <1>5 DEF ServeTypeOK, Positive, Fault, Shutdown, Recovered
<1>6. CASE Receive
  <2>1. toMonitor # <<>> => Head(toMonitor) \in Positive /\ Tail(toMonitor) \in Seq(Positive)
    BY TakeFacts DEF ServeTypeOK
  <2> QED
    BY <2>1, <1>0, <1>6 DEF ServeTypeOK, Positive, Receive
<1>7. CASE Respond
  <2>1. serving \in Positive => Append(toWorker, serving) \in Seq(Positive)
    BY QueueFacts DEF ServeTypeOK
  <2> QED
    BY <2>1, <1>0, <1>7 DEF ServeTypeOK, Positive, Respond
<1>8. CASE LoopLeft
  BY <1>0, <1>8 DEF ServeTypeOK, Positive, Fault, Shutdown, LoopLeft
<1>9. CASE Reap
  BY <1>0, <1>9 DEF ServeTypeOK, Positive, Fault, Shutdown, Reap
<1>10. CASE Ask
  <2>1. hooks' = hooks + 1 /\ hooks' \in Positive
    BY <1>10 DEF Ask, ServeTypeOK, Positive
  <2>2. Append(toRunner, hooks') \in Seq(Positive)
    BY <2>1, QueueFacts DEF ServeTypeOK
  <2> QED
    BY <2>1, <2>2, <1>0, <1>10 DEF ServeTypeOK, Positive, Ask
<1>11. CASE HookAnswered
  <2>1. fromRunner # <<>> => Tail(fromRunner) \in Seq(Positive)
    BY TakeFacts DEF ServeTypeOK
  <2> QED
    BY <2>1, <1>0, <1>11 DEF ServeTypeOK, Positive, HookAnswered
<1>12. CASE HookFails
  BY <1>0, <1>12 DEF ServeTypeOK, Positive, Fault, Shutdown, HookFails
<1>13. CASE RunnerStarts
  BY <1>0, <1>13 DEF ServeTypeOK, Positive, Fault, Shutdown, RunnerStarts
<1>14. CASE RunnerTakes
  BY <1>0, <1>14 DEF ServeTypeOK, Positive, Fault, Shutdown, RunnerTakes
<1>15. CASE RunnerAnswers
  <2>1. toRunner # <<>>
    BY <1>0, <1>15 DEF RunnerAnswers
  <2>2. Head(toRunner) \in Positive /\ Tail(toRunner) \in Seq(Positive)
    BY <2>1, TakeFacts DEF ServeTypeOK
  <2>3. Append(fromRunner, Head(toRunner)) \in Seq(Positive)
    BY <2>2, QueueFacts DEF ServeTypeOK
  <2> QED
    BY <2>1, <2>2, <2>3, <1>0, <1>15 DEF ServeTypeOK, Positive, RunnerAnswers
<1>16. CASE RunnerEnds
  BY <1>0, <1>16 DEF ServeTypeOK, Positive, Fault, Shutdown, RunnerEnds
<1>17. CASE BecomeWorker
  BY <1>0, <1>17 DEF ServeTypeOK, Positive, Fault, Shutdown, BecomeWorker
<1>18. CASE Hello
  <2>1. calls' = calls + 1 /\ calls' \in Positive
    BY <1>18 DEF Hello, ServeTypeOK, Positive
  <2>2. Append(toMonitor, calls') \in Seq(Positive)
    BY <2>1, QueueFacts DEF ServeTypeOK
  <2> QED
    BY <2>1, <2>2, <1>0, <1>18 DEF ServeTypeOK, Positive, Hello, Send
<1>19. CASE Greeted
  <2>1. toWorker # <<>> => Tail(toWorker) \in Seq(Positive)
    BY TakeFacts DEF ServeTypeOK
  <2>2. TakeResponse \/ GaveUp
    BY <1>19 DEF Greeted
  <2>3. asked' = 0 /\ (toWorker' = toWorker \/ (toWorker # <<>> /\ toWorker' = Tail(toWorker)))
    BY <2>2, CallEndFacts
  <2>4. asked' \in Nat /\ toWorker' \in Seq(Positive)
    BY <2>1, <2>3 DEF ServeTypeOK
  <2> QED
    BY <2>1, <2>2, <2>3, <2>4, <1>0, <1>19 DEF ServeTypeOK, Greeted
<1>20. CASE StopServing
  BY <1>0, <1>20 DEF ServeTypeOK, Positive, Fault, Shutdown, StopServing
<1>21. CASE Join
  BY <1>0, <1>21 DEF ServeTypeOK, Positive, Fault, Shutdown, Join
<1>22. CASE TakeJob
  BY <1>0, <1>22 DEF ServeTypeOK, Positive, Fault, Shutdown, TakeJob
<1>23. CASE Call
  <2>1. calls' = calls + 1 /\ calls' \in Positive
    BY <1>23 DEF Call, ServeTypeOK, Positive
  <2>2. Append(toMonitor, calls') \in Seq(Positive)
    BY <2>1, QueueFacts DEF ServeTypeOK
  <2> QED
    BY <2>1, <2>2, <1>0, <1>23 DEF ServeTypeOK, Positive, Call, Send
<1>24. CASE CallEnds
  <2>1. toWorker # <<>> => Tail(toWorker) \in Seq(Positive)
    BY TakeFacts DEF ServeTypeOK
  <2>2. TakeResponse \/ GaveUp
    BY <1>24 DEF CallEnds
  <2>3. asked' = 0 /\ (toWorker' = toWorker \/ (toWorker # <<>> /\ toWorker' = Tail(toWorker)))
    BY <2>2, CallEndFacts
  <2>4. asked' \in Nat /\ toWorker' \in Seq(Positive)
    BY <2>1, <2>3 DEF ServeTypeOK
  <2> QED
    BY <2>1, <2>2, <2>3, <2>4, <1>0, <1>24 DEF ServeTypeOK, CallEnds
<1>25. CASE Reply
  BY <1>0, <1>25 DEF ServeTypeOK, Positive, Fault, Shutdown, Reply
<1>26. CASE EngineStops
  <2>1. Shutdown \in Positive /\ Shutdown \in Nat
    BY DEF Shutdown, Positive
  <2>2. Append(toMonitor, Shutdown) \in Seq(Positive)
    BY <2>1, QueueFacts DEF ServeTypeOK
  <2> QED
    BY <2>1, <2>2, <1>0, <1>26 DEF ServeTypeOK, EngineStops, Send
<1>27. CASE AcmeStarts
  BY <1>0, <1>27 DEF ServeTypeOK, Positive, Fault, Shutdown, AcmeStarts
<1>28. CASE AcmeEnds
  BY <1>0, <1>28 DEF ServeTypeOK, Positive, Fault, Shutdown, AcmeEnds
<1>29. CASE LoopFails
  BY <1>0, <1>29 DEF ServeTypeOK, Positive, Fault, Shutdown, LoopFails
<1>30. CASE Stop
  BY <1>0, <1>30 DEF ServeTypeOK, Positive, Fault, Shutdown, Stop, GroupSignal
<1>31. CASE Kill
  <2>1. /\ mon' = mon \/ mon' = "ended"
        /\ worker' = worker \/ worker' = "ended"
        /\ runner' = runner \/ runner' = "ended"
        /\ eng' = eng \/ eng' = "ended"
        /\ asking' = asking \/ asking' = 0
        /\ asked' = asked \/ asked' = 0
        /\ UNCHANGED <<serving, hooks, calls, pair, toRunner, fromRunner>>
    BY <1>31 DEF Kill
  <2> QED
    BY <2>1 DEF ServeTypeOK
<1>32. ASSUME NEW c \in Conns, Accept(c) \/ Leave(c) \/ Execute(c)
       PROVE  ServeTypeOK'
  BY <1>0, <1>32 DEF ServeTypeOK, Accept, Leave, Execute
<1>33. CASE UNCHANGED vars
  BY <1>0, <1>33 DEF ServeTypeOK, vars
<1> QED
  BY <1>1, <1>2, <1>3, <1>4, <1>5, <1>6, <1>7, <1>8, <1>9, <1>10, <1>11, <1>12, <1>13,
     <1>14, <1>15, <1>16, <1>17, <1>18, <1>19, <1>20, <1>21, <1>22, <1>23, <1>24, <1>25,
     <1>26, <1>27, <1>28, <1>29, <1>30, <1>31, <1>32, <1>33 DEF Next, MonitorStep,
     RunnerStep, MainStep, EngineStep

LEMMA HookStep ==
  ASSUME ServeTypeOK, HookInv, RunnerInv, [Next]_vars
  PROVE  HookInv' /\ RunnerInv'
<1> USE DEF monVars, runnerVars, workerVars, pair, outside, HookInv, RunnerInv
<1>0. ServeTypeOK
  OBVIOUS
<1>1. CASE Confine
  BY <1>0, <1>1 DEF ServeTypeOK, Positive, RunnerDropped, RunnerClosed, Confine
<1>2. CASE BlockStopSignals
  BY <1>0, <1>2 DEF ServeTypeOK, Positive, RunnerDropped, RunnerClosed, BlockStopSignals
<1>3. CASE Abort
  BY <1>0, <1>3 DEF ServeTypeOK, Positive, RunnerDropped, RunnerClosed, Abort
<1>4. CASE Lock
  BY <1>0, <1>4 DEF ServeTypeOK, Positive, RunnerDropped, RunnerClosed, Lock
<1>5. CASE Recovered
  BY <1>0, <1>5 DEF ServeTypeOK, Positive, RunnerDropped, RunnerClosed, Recovered
<1>6. CASE Receive
  BY <1>0, <1>6 DEF ServeTypeOK, Positive, RunnerDropped, RunnerClosed, Receive
<1>7. CASE Respond
  BY <1>0, <1>7 DEF ServeTypeOK, Positive, RunnerDropped, RunnerClosed, Respond
<1>8. CASE LoopLeft
  BY <1>0, <1>8 DEF ServeTypeOK, Positive, RunnerDropped, RunnerClosed, LoopLeft
<1>9. CASE Reap
  BY <1>0, <1>9 DEF ServeTypeOK, Positive, RunnerDropped, RunnerClosed, Reap
<1>10. CASE Ask
  <2>1. toRunner = <<>> /\ fromRunner = <<>>
    BY <1>10 DEF Ask
  <2>2. hooks' \in Positive /\ hooks' # 0
    BY <1>0, <1>10 DEF Ask, ServeTypeOK, Positive
  <2>3. Append(toRunner, hooks') = <<hooks'>> /\ <<hooks'>> # <<>>
    BY <1>0, <2>1, <2>2, QueueFacts, OneFacts DEF ServeTypeOK
  <2> QED
    BY <2>1, <2>2, <2>3, <1>0, <1>10 DEF RunnerDropped, RunnerClosed, Ask
<1>11. CASE HookAnswered
  <2>1. Head(<<asking>>) = asking /\ Tail(<<asking>>) = <<>> /\ <<asking>> # <<>>
    BY OneFacts
  <2>2. toRunner = <<>> /\ Tail(fromRunner) = <<>>
    BY <2>1, <1>11 DEF HookAnswered
  <2> QED
    BY <2>1, <2>2, <1>0, <1>11 DEF RunnerDropped, RunnerClosed, HookAnswered
<1>12. CASE HookFails
  BY <1>0, <1>12 DEF ServeTypeOK, Positive, RunnerDropped, RunnerClosed, HookFails
<1>13. CASE RunnerStarts
  BY <1>0, <1>13 DEF ServeTypeOK, Positive, RunnerDropped, RunnerClosed, RunnerStarts
<1>14. CASE RunnerTakes
  BY <1>0, <1>14 DEF ServeTypeOK, Positive, RunnerDropped, RunnerClosed, RunnerTakes
<1>15. CASE RunnerAnswers
  <2>1. Head(<<asking>>) = asking /\ Tail(<<asking>>) = <<>> /\ <<asking>> # <<>>
    BY OneFacts
  <2>2. asking # 0 => Append(<<>>, asking) = <<asking>>
    BY <1>0 DEF ServeTypeOK
  <2>3. asking # 0 => /\ toRunner = <<asking>> /\ fromRunner = <<>> /\ ~RunnerClosed
                        /\ toRunner' = <<>> /\ fromRunner' = <<asking>> /\ runner' = "idle"
    BY <2>1, <2>2, <1>15 DEF RunnerAnswers, RunnerClosed, RunnerDropped
  <2>4. asking = 0 => ~link \/ mon = "ended"
    BY <1>15 DEF RunnerAnswers
  <2> QED
    BY <2>1, <2>2, <2>3, <2>4, <1>0, <1>15 DEF RunnerDropped, RunnerClosed, RunnerAnswers
<1>16. CASE RunnerEnds
  BY <1>0, <1>16 DEF ServeTypeOK, Positive, RunnerDropped, RunnerClosed, RunnerEnds
<1>17. CASE BecomeWorker
  BY <1>0, <1>17 DEF ServeTypeOK, Positive, RunnerDropped, RunnerClosed, BecomeWorker
<1>18. CASE Hello
  BY <1>0, <1>18 DEF ServeTypeOK, Positive, RunnerDropped, RunnerClosed, Hello, Send
<1>19. CASE Greeted
  BY <1>0, <1>19 DEF ServeTypeOK, Positive, RunnerDropped, RunnerClosed, Greeted,
     TakeResponse, GaveUp
<1>20. CASE StopServing
  BY <1>0, <1>20 DEF ServeTypeOK, Positive, RunnerDropped, RunnerClosed, StopServing
<1>21. CASE Join
  BY <1>0, <1>21 DEF ServeTypeOK, Positive, RunnerDropped, RunnerClosed, Join
<1>22. CASE TakeJob
  BY <1>0, <1>22 DEF ServeTypeOK, Positive, RunnerDropped, RunnerClosed, TakeJob
<1>23. CASE Call
  BY <1>0, <1>23 DEF ServeTypeOK, Positive, RunnerDropped, RunnerClosed, Call, Send
<1>24. CASE CallEnds
  BY <1>0, <1>24 DEF ServeTypeOK, Positive, RunnerDropped, RunnerClosed, CallEnds,
     TakeResponse, GaveUp
<1>25. CASE Reply
  BY <1>0, <1>25 DEF ServeTypeOK, Positive, RunnerDropped, RunnerClosed, Reply
<1>26. CASE EngineStops
  BY <1>0, <1>26 DEF ServeTypeOK, Positive, RunnerDropped, RunnerClosed, EngineStops, Send
<1>27. CASE AcmeStarts
  BY <1>0, <1>27 DEF ServeTypeOK, Positive, RunnerDropped, RunnerClosed, AcmeStarts
<1>28. CASE AcmeEnds
  BY <1>0, <1>28 DEF ServeTypeOK, Positive, RunnerDropped, RunnerClosed, AcmeEnds
<1>29. CASE LoopFails
  BY <1>0, <1>29 DEF ServeTypeOK, Positive, RunnerDropped, RunnerClosed, LoopFails
<1>30. CASE Stop
  BY <1>0, <1>30 DEF ServeTypeOK, Positive, RunnerDropped, RunnerClosed, Stop, GroupSignal
<1>31. CASE Kill
  BY <1>0, <1>31 DEF ServeTypeOK, Positive, RunnerDropped, RunnerClosed, Kill
<1>32. ASSUME NEW c \in Conns, Accept(c) \/ Leave(c) \/ Execute(c)
       PROVE  HookInv' /\ RunnerInv'
  BY <1>0, <1>32 DEF RunnerDropped, Accept, Leave, Execute
<1>33. CASE UNCHANGED vars
  BY <1>0, <1>33 DEF RunnerDropped, vars
<1> QED
  BY <1>1, <1>2, <1>3, <1>4, <1>5, <1>6, <1>7, <1>8, <1>9, <1>10, <1>11, <1>12, <1>13,
     <1>14, <1>15, <1>16, <1>17, <1>18, <1>19, <1>20, <1>21, <1>22, <1>23, <1>24, <1>25,
     <1>26, <1>27, <1>28, <1>29, <1>30, <1>31, <1>32, <1>33 DEF Next, MonitorStep,
     RunnerStep, MainStep, EngineStep

LEMMA CallStep ==
  ASSUME ServeTypeOK, CallInv, [Next]_vars
  PROVE  CallInv'
<1> USE ServeAssumption DEF monVars, runnerVars, workerVars, pair, outside, CallInv, Nothing, OneCall, Silent
<1>0. ServeTypeOK
  OBVIOUS
<1>1. CASE Confine
  BY <1>0, <1>1 DEF MonitorClosed, WorkerClosed, Confine
<1>2. CASE BlockStopSignals
  BY <1>0, <1>2 DEF MonitorClosed, WorkerClosed, BlockStopSignals
<1>3. CASE Abort
  BY <1>0, <1>3 DEF MonitorClosed, WorkerClosed, Abort
<1>4. CASE Lock
  BY <1>0, <1>4 DEF MonitorClosed, WorkerClosed, Lock
<1>5. CASE Recovered
  BY <1>0, <1>5 DEF MonitorClosed, WorkerClosed, Recovered
<1>6. CASE Receive
  <2>1. Head(<<asked>>) = asked /\ Tail(<<asked>>) = <<>> /\ <<asked>> # <<>>
    BY OneFacts
  <2>2. toMonitor # <<>> => Head(toMonitor) # 0
    BY <1>0, TakeFacts DEF ServeTypeOK, Positive
  <2> QED
    BY <2>1, <2>2, <1>0, <1>6 DEF MonitorClosed, WorkerClosed, Receive
<1>7. CASE Respond
  <2>1. asked # 0 => Append(<<>>, asked) = <<asked>>
    BY <1>0 DEF ServeTypeOK
  <2> QED
    BY <2>1, <1>0, <1>7 DEF MonitorClosed, WorkerClosed, Respond
<1>8. CASE LoopLeft
  BY <1>0, <1>8 DEF MonitorClosed, WorkerClosed, LoopLeft
<1>9. CASE Reap
  BY <1>0, <1>9 DEF MonitorClosed, WorkerClosed, Reap
<1>10. CASE Ask
  BY <1>0, <1>10 DEF MonitorClosed, WorkerClosed, Ask
<1>11. CASE HookAnswered
  BY <1>0, <1>11 DEF MonitorClosed, WorkerClosed, HookAnswered
<1>12. CASE HookFails
  BY <1>0, <1>12 DEF MonitorClosed, WorkerClosed, HookFails
<1>13. CASE RunnerStarts
  BY <1>0, <1>13 DEF MonitorClosed, WorkerClosed, RunnerStarts
<1>14. CASE RunnerTakes
  BY <1>0, <1>14 DEF MonitorClosed, WorkerClosed, RunnerTakes
<1>15. CASE RunnerAnswers
  BY <1>0, <1>15 DEF MonitorClosed, WorkerClosed, RunnerAnswers
<1>16. CASE RunnerEnds
  BY <1>0, <1>16 DEF MonitorClosed, WorkerClosed, RunnerEnds
<1>17. CASE BecomeWorker
  BY <1>0, <1>17 DEF MonitorClosed, WorkerClosed, BecomeWorker
<1>18. CASE Hello
  <2>1. calls' = calls + 1 /\ calls' # 0
    BY <1>0, <1>18 DEF Hello, ServeTypeOK
  <2>2. Append(<<>>, calls') = <<calls'>>
    OBVIOUS
  <2> QED
    BY <2>1, <2>2, <1>0, <1>18 DEF MonitorClosed, WorkerClosed, Hello, Send
<1>19. CASE Greeted
  <2>1. Tail(<<asked>>) = <<>>
    BY OneFacts
  <2>2. CASE TakeResponse /\ UNCHANGED gaveUp
    <3>1. asked' = 0 /\ (~gaveUp' => toMonitor' = <<>> /\ serving' = 0 /\ toWorker' = <<>>)
      BY <2>1, <2>2, <1>19 DEF Greeted, TakeResponse
    <3> QED
      BY <3>1, <1>19 DEF Greeted
  <2>3. CASE GaveUp
    <3>1. asked' = 0 /\ (~gaveUp' => MonitorClosed)
      BY <2>3 DEF GaveUp
    <3> QED
      BY <3>1, <1>19 DEF Greeted, MonitorClosed
  <2> QED
    BY <2>2, <2>3, <1>19 DEF Greeted
<1>20. CASE StopServing
  BY <1>0, <1>20 DEF MonitorClosed, WorkerClosed, StopServing
<1>21. CASE Join
  BY <1>0, <1>21 DEF MonitorClosed, WorkerClosed, Join
<1>22. CASE TakeJob
  BY <1>0, <1>22 DEF MonitorClosed, WorkerClosed, TakeJob
<1>23. CASE Call
  <2>1. calls' = calls + 1 /\ calls' # 0
    BY <1>0, <1>23 DEF Call, ServeTypeOK
  <2>2. Append(<<>>, calls') = <<calls'>>
    OBVIOUS
  <2> QED
    BY <2>1, <2>2, <1>0, <1>23 DEF MonitorClosed, WorkerClosed, Call, Send
<1>24. CASE CallEnds
  <2>1. Tail(<<asked>>) = <<>>
    BY OneFacts
  <2>2. CASE TakeResponse /\ UNCHANGED gaveUp
    <3>1. asked' = 0 /\ (~gaveUp' => toMonitor' = <<>> /\ serving' = 0 /\ toWorker' = <<>>)
      BY <2>1, <2>2, <1>24 DEF CallEnds, TakeResponse
    <3> QED
      BY <3>1, <1>24 DEF CallEnds
  <2>3. CASE GaveUp
    <3>1. asked' = 0 /\ (~gaveUp' => MonitorClosed)
      BY <2>3 DEF GaveUp
    <3> QED
      BY <3>1, <1>24 DEF CallEnds, MonitorClosed
  <2> QED
    BY <2>2, <2>3, <1>24 DEF CallEnds
<1>25. CASE Reply
  BY <1>0, <1>25 DEF MonitorClosed, WorkerClosed, Reply
<1>26. CASE EngineStops
  <2>1. Shutdown # 0
    BY DEF Shutdown
  <2>2. Append(<<>>, Shutdown) = <<Shutdown>>
    OBVIOUS
  <2> QED
    BY <2>1, <2>2, <1>0, <1>26 DEF MonitorClosed, WorkerClosed, EngineStops, Send
<1>27. CASE AcmeStarts
  BY <1>0, <1>27 DEF MonitorClosed, WorkerClosed, AcmeStarts
<1>28. CASE AcmeEnds
  BY <1>0, <1>28 DEF MonitorClosed, WorkerClosed, AcmeEnds
<1>29. CASE LoopFails
  BY <1>0, <1>29 DEF MonitorClosed, WorkerClosed, LoopFails
<1>30. CASE Stop
  BY <1>0, <1>30 DEF MonitorClosed, WorkerClosed, Stop, GroupSignal
<1>31. CASE Kill
  BY <1>0, <1>31 DEF MonitorClosed, WorkerClosed, Kill
<1>32. ASSUME NEW c \in Conns, Accept(c) \/ Leave(c) \/ Execute(c)
       PROVE  CallInv'
  BY <1>0, <1>32 DEF MonitorClosed, Accept, Leave, Execute
<1>33. CASE UNCHANGED vars
  BY <1>0, <1>33 DEF MonitorClosed, vars
<1> QED
  BY <1>1, <1>2, <1>3, <1>4, <1>5, <1>6, <1>7, <1>8, <1>9, <1>10, <1>11, <1>12, <1>13,
     <1>14, <1>15, <1>16, <1>17, <1>18, <1>19, <1>20, <1>21, <1>22, <1>23, <1>24, <1>25,
     <1>26, <1>27, <1>28, <1>29, <1>30, <1>31, <1>32, <1>33 DEF Next, MonitorStep,
     RunnerStep, MainStep, EngineStep

LEMMA ServeInvAlways == Spec => []ServeInv
<1>1. Init => ServeInv
  BY DEF Init, ServeInv, ServeTypeOK, HookInv, RunnerInv, RunnerDropped, CallInv, Nothing, Positive
<1>2. ServeInv /\ [Next]_vars => ServeInv'
  BY ServeTypeStep, HookStep, CallStep DEF ServeInv
<1> QED
  BY <1>1, <1>2, PTL DEF Spec

----------------------------------------------------------------------------
(* An answer belongs to what was asked: the runner's always, the monitor's  *)
(* until Client::call has given up on one (RunnerClient::call, serve_runner,*)
(* serve_loop, Client::call).                                               *)
THEOREM AnswersAlwaysMatch == Spec => []AnswersMatch
<1>1. ServeInv => AnswersMatch
  BY DEF ServeInv, ServeTypeOK, Positive, HookInv, CallInv, OneCall, Nothing, AnswersMatch
<1> QED
  BY <1>1, ServeInvAlways, PTL

(* As long as the monitor may need a hook, a runner that got to its loop is *)
(* there (block_stop_signals, run_monitor).                                 *)
THEOREM RunnerAlwaysOutlivesLoop == Spec => []RunnerOutlivesLoop
<1>1. ServeInv => RunnerOutlivesLoop
  BY DEF ServeInv, RunnerInv, RunnerDropped, RunnerOutlivesLoop
<1> QED
  BY <1>1, ServeInvAlways, PTL
=============================================================================
