------------------------------- MODULE Serve -------------------------------
(***************************************************************************)
(* The processes of `detent serve`, how they start, talk and end: the      *)
(* monitor (the parent), the runner, the acme process and the worker with  *)
(* its web connections and its engine thread.                              *)
(*                                                                         *)
(* What a request or a hook does is the matter of Monitor and OpsEngine:   *)
(* here each is a number, so that an answer can be told from another's.    *)
(* Time is a choice: any wait with a timeout may run out while what it     *)
(* waits for is not there.  A channel's end is open while a process holds  *)
(* a descriptor of it, those a fork inherits included.                     *)
(***************************************************************************)
EXTENDS Naturals, Sequences

CONSTANTS
  Conns,               \* connections the listener may have at a time
  None,
  MaxCalls, MaxHooks,  \* bounds: requests to the monitor, and to the runner
  FaultKinds, MaxFaults

ASSUME ServeAssumption ==
  /\ {MaxCalls, MaxHooks, MaxFaults} \subseteq Nat
  /\ None \notin Conns
  /\ FaultKinds \subseteq {"start", "loop", "kill"}

VARIABLES
  mon,       \* where the monitor is, from spawn_pair to the end of run
  started,   \* the byte the worker waits for has been written
  serving,   \* the request the serve loop works on; 0: none
  asking,    \* the hook the monitor waits for; 0: none
  link,      \* RunnerClient::channel is Some
  hooks,     \* number of hooks asked for
  runner,    \* forked, then in serve_runner: waiting, or busy with a hook
  toRunner, fromRunner,
  acme,
  worker,    \* the worker's main thread
  eng,       \* the engine thread
  job, jobs, \* whose operation it runs, and its inbox
  asked,     \* the request Client::call waits for; 0: none
  calls,     \* number of requests sent
  toMonitor, toWorker,
  conn,      \* a connection: whether it is there, and waits for the engine
  signal,    \* SIGTERM has been sent to the group
  faults,
  lost,      \* history: the runner was killed, or did not get to its loop
  gaveUp,    \* history: Client::call gave up on an answer
  cut        \* history: the grace ended with connections still open

monVars == <<mon, started, serving, asking, link, hooks>>
runnerVars == <<runner, toRunner, fromRunner>>
workerVars == <<worker, eng, job, jobs, asked, calls, conn, gaveUp, cut>>
pair == <<toMonitor, toWorker>>
outside == <<acme, signal, faults, lost>>
vars == <<monVars, runnerVars, workerVars, pair, outside>>

Fault(kind) == kind \in FaultKinds /\ faults < MaxFaults /\ faults' = faults + 1

(* Request::Shutdown has a number of its own.                               *)
Shutdown == MaxCalls + 1

----------------------------------------------------------------------------
(* Which ends are closed.                                                   *)

(* Of the pair: the monitor keeps its end while it waits for the worker.    *)
MonitorClosed == mon \in {"abort", "reapAcme", "ended"}

WorkerClosed == worker = "ended" \/ eng = "ended"

RunnerDropped_AfterReap == ~link \/ mon \in {"reapAcme", "ended"}

(* The monitor dropped its end of the runner's channel.                     *)
RunnerDropped == ~link \/ mon \in {"reapRunner", "reapAcme", "ended"}

(* The forked worker and acme process still hold a copy at first.           *)
RunnerClosed == RunnerDropped /\ worker # "await" /\ acme # "new"

(* The monitor holds a copy of the worker's end until it knows its role.    *)
AcmeClosed == worker = "ended" /\ mon \notin {"confine", "begin", "abort"}

(* The senders of the engine's inbox: the server's state and connections.   *)
HandlesDropped ==
  worker = "join" /\ \A c \in Conns : conn[c] \in {"none", "gone"}

----------------------------------------------------------------------------
(* The parent: spawn_pair, then run_monitor.                                *)

(* confine_monitor, then the byte that lets the worker go on.               *)
Confine ==
  /\ mon = "confine"
  /\ \/ /\ worker # "ended" /\ mon' = "begin" /\ started' = TRUE /\ UNCHANGED faults
     \/ /\ worker = "ended" /\ mon' = "abort" /\ UNCHANGED <<started, faults>>
     \/ /\ Fault("start") /\ mon' = "abort" /\ UNCHANGED started
  /\ UNCHANGED <<serving, asking, link, hooks, runnerVars, workerVars, pair, acme, signal, lost>>

(* The role is known: the parent drops the acme socket and blocks signals.  *)
BlockStopSignals ==
  /\ mon = "begin" /\ mon' = "lock"
  /\ UNCHANGED <<started, serving, asking, link, hooks, runnerVars, workerVars, pair, outside>>

(* reap_child after a failed start, and the return from run.                *)
Abort ==
  /\ mon = "abort" /\ worker = "ended" /\ mon' = "ended"
  /\ UNCHANGED <<started, serving, asking, link, hooks, runnerVars, workerVars, pair, outside>>

(* lock_exclusive: unavailable, which still reaps the acme process, or busy.*)
Lock ==
  /\ mon = "lock"
  /\ \/ mon' = "recover" /\ UNCHANGED faults
     \/ Fault("start") /\ mon' \in {"reapAcme", "ended"}
  /\ UNCHANGED <<started, serving, asking, link, hooks, runnerVars, workerVars, pair,
                 acme, signal, lost>>

(* recover_pending has asked for the hooks it needs, and succeeded or not.  *)
Recovered ==
  /\ mon = "recover" /\ asking = 0
  /\ \/ mon' = "idle" /\ UNCHANGED faults
     \/ Fault("start") /\ mon' = "ended"
  /\ UNCHANGED <<started, serving, asking, link, hooks, runnerVars, workerVars, pair,
                 acme, signal, lost>>

(* serve_loop: a request, or the end of the stream.                         *)
Receive ==
  /\ mon = "idle" /\ asking = 0
  /\ \/ /\ toMonitor # <<>> /\ mon' = "work"
        /\ serving' = Head(toMonitor) /\ toMonitor' = Tail(toMonitor)
     \/ /\ toMonitor = <<>> /\ WorkerClosed /\ mon' = "exit"
        /\ UNCHANGED <<serving, toMonitor>>
  /\ UNCHANGED <<started, asking, link, hooks, runnerVars, workerVars, toWorker, outside>>

(* The response; finish_send_error when the worker is gone.                 *)
Respond ==
  /\ mon = "work" /\ asking = 0 /\ serving' = 0
  /\ IF WorkerClosed THEN UNCHANGED toWorker ELSE toWorker' = Append(toWorker, serving)
  /\ mon' = IF WorkerClosed \/ serving = Shutdown THEN "exit" ELSE "idle"
  /\ UNCHANGED <<started, asking, link, hooks, runnerVars, workerVars, toMonitor, outside>>

(* The loop ends on its own: a marker that cannot be removed, a response    *)
(* over the frame limit, a frame that stops halfway.                        *)
LoopFails ==
  /\ mon \in {"idle", "work"} /\ asking = 0
  /\ Fault("loop") /\ mon' = "exit" /\ serving' = 0
  /\ UNCHANGED <<started, asking, link, hooks, runnerVars, workerVars, pair, acme, signal, lost>>

(* rollback_pending_on_exit has asked for its hooks.                        *)
LoopLeft ==
  /\ mon = "exit" /\ asking = 0 /\ mon' = "reapWorker"
  /\ UNCHANGED <<started, serving, asking, link, hooks, runnerVars, workerVars, pair, outside>>

(* run_monitor waits for the worker, drops its end of the runner's channel  *)
(* and waits for the runner; then run waits for the acme process.           *)
Reap ==
  /\ \/ mon = "reapWorker" /\ worker = "ended" /\ mon' = "reapRunner"
     \/ mon = "reapRunner" /\ runner = "ended" /\ mon' = "reapAcme"
     \/ mon = "reapAcme" /\ acme = "ended" /\ mon' = "ended"
  /\ UNCHANGED <<started, serving, asking, link, hooks, runnerVars, workerVars, pair, outside>>

----------------------------------------------------------------------------
(* RunnerClient::call: in recovery, for a request, at the deadline and in   *)
(* the rollback on exit.                                                    *)

Ask ==
  /\ mon \in {"recover", "idle", "work", "exit"} /\ asking = 0
  /\ link /\ hooks < MaxHooks
  /\ hooks' = hooks + 1
  /\ IF runner = "ended" THEN link' = FALSE /\ UNCHANGED <<asking, toRunner>>
     ELSE asking' = hooks' /\ toRunner' = Append(toRunner, hooks') /\ UNCHANGED link
  /\ UNCHANGED <<mon, started, serving, runner, fromRunner, workerVars, pair, outside>>

HookAnswered ==
  /\ asking # 0 /\ fromRunner # <<>>
  /\ asking' = 0 /\ fromRunner' = Tail(fromRunner)
  /\ UNCHANGED <<mon, started, serving, link, hooks, runner, toRunner, workerVars, pair, outside>>

HookFails_KeepsChannel ==
  /\ asking # 0 /\ fromRunner = <<>>
  /\ asking' = 0
  /\ UNCHANGED <<mon, started, serving, link, hooks, runnerVars, workerVars, pair, outside>>

(* RUNNER_TIMEOUT, or the runner is gone: the channel is given up.          *)
HookFails ==
  /\ asking # 0 /\ fromRunner = <<>>
  /\ asking' = 0 /\ link' = FALSE
  /\ UNCHANGED <<mon, started, serving, hooks, runnerVars, workerVars, pair, outside>>

----------------------------------------------------------------------------
(* The runner: spawn_runner and serve_runner.                               *)

(* It blocks the stop signals first, and may fail to drop its capabilities. *)
RunnerStarts ==
  /\ runner = "new"
  /\ \/ runner' = "idle" /\ UNCHANGED <<faults, lost>>
     \/ Fault("start") /\ runner' = "ended" /\ lost' = TRUE
  /\ UNCHANGED <<toRunner, fromRunner, monVars, workerVars, pair, acme, signal>>

RunnerTakes ==
  /\ runner = "idle" /\ toRunner # <<>> /\ runner' = "busy"
  /\ UNCHANGED <<toRunner, fromRunner, monVars, workerVars, pair, outside>>

RunnerAnswers ==
  /\ runner = "busy"
  /\ toRunner' = Tail(toRunner)
  /\ IF RunnerClosed THEN runner' = "ended" /\ UNCHANGED fromRunner
     ELSE runner' = "idle" /\ fromRunner' = Append(fromRunner, Head(toRunner))
  /\ UNCHANGED <<monVars, workerVars, pair, outside>>

RunnerEnds ==
  /\ runner = "idle" /\ toRunner = <<>> /\ RunnerClosed /\ runner' = "ended"
  /\ UNCHANGED <<toRunner, fromRunner, monVars, workerVars, pair, outside>>

----------------------------------------------------------------------------
(* The acme process drops what it inherited; it ends with its channel, or   *)
(* before (Acme).                                                           *)
AcmeStarts ==
  /\ acme = "new" /\ acme' = "running"
  /\ UNCHANGED <<monVars, runnerVars, workerVars, pair, signal, faults, lost>>

AcmeEnds ==
  /\ acme = "running" /\ acme' = "ended"
  /\ UNCHANGED <<monVars, runnerVars, workerVars, pair, signal, faults, lost>>

----------------------------------------------------------------------------
(* Client::call, by the main thread for hello, then by the engine thread.   *)

Send(id) == toMonitor' = Append(toMonitor, id) /\ asked' = id

(* recv took a response, which may be that to an earlier request.           *)
TakeResponse == asked # 0 /\ toWorker # <<>> /\ toWorker' = Tail(toWorker) /\ asked' = 0

GaveUp_OnEndOnly ==
  /\ asked # 0 /\ toWorker = <<>> /\ MonitorClosed /\ asked' = 0
  /\ gaveUp' = gaveUp /\ UNCHANGED toWorker

(* The read timeout, or the end of the stream.                              *)
GaveUp ==
  /\ asked # 0 /\ toWorker = <<>> /\ asked' = 0
  /\ gaveUp' = (gaveUp \/ ~MonitorClosed) /\ UNCHANGED toWorker

----------------------------------------------------------------------------
(* The worker's main thread.                                                *)

(* It waits for the byte, drops its privileges and the runner's channel.    *)
BecomeWorker ==
  /\ worker = "await"
  /\ \/ started /\ worker' = "hello" /\ UNCHANGED faults
     \/ started /\ Fault("start") /\ worker' = "ended"
     \/ ~started /\ MonitorClosed /\ worker' = "ended" /\ UNCHANGED faults
  /\ UNCHANGED <<eng, job, jobs, asked, calls, conn, gaveUp, cut, monVars, runnerVars, pair,
                 acme, signal, lost>>

Hello ==
  /\ worker = "hello" /\ asked = 0
  /\ calls' = calls + 1
  /\ IF MonitorClosed THEN worker' = "ended" /\ UNCHANGED <<asked, toMonitor>>
     ELSE Send(calls') /\ UNCHANGED worker
  /\ UNCHANGED <<eng, job, jobs, conn, gaveUp, cut, monVars, runnerVars, toWorker, outside>>

(* prepare_worker: the engine thread and the listener are up, or it fails.  *)
Greeted ==
  /\ worker = "hello"
  /\ \/ /\ TakeResponse /\ UNCHANGED gaveUp
        /\ \/ worker' = "serving" /\ eng' = "recv" /\ UNCHANGED faults
           \/ Fault("start") /\ worker' = "ended" /\ UNCHANGED eng
     \/ GaveUp /\ worker' = "ended" /\ UNCHANGED <<eng, faults>>
  /\ UNCHANGED <<job, jobs, calls, conn, cut, monVars, runnerVars, toMonitor,
                 acme, signal, lost>>

(* Server::serve: a connection comes, and ends when its client leaves, its  *)
(* request times out or the server asks it to.                              *)
Accept(c) ==
  /\ worker = "serving" /\ conn[c] = "none"
  /\ conn' = [conn EXCEPT ![c] = "open"]
  /\ UNCHANGED <<worker, eng, job, jobs, asked, calls, gaveUp, cut, monVars, runnerVars, pair, outside>>

Leave(c) ==
  /\ worker \in {"serving", "grace"} /\ conn[c] \in {"open", "waiting"}
  /\ conn' = [conn EXCEPT ![c] = IF @ = "open" THEN "none" ELSE "gone"]
  /\ UNCHANGED <<worker, eng, job, jobs, asked, calls, gaveUp, cut, monVars, runnerVars, pair, outside>>

(* EngineHandle::execute, pending_commit.                                   *)
Execute(c) ==
  /\ worker = "serving" /\ conn[c] = "open"
  /\ conn' = [conn EXCEPT ![c] = "waiting"] /\ jobs' = Append(jobs, c)
  /\ UNCHANGED <<worker, eng, job, asked, calls, gaveUp, cut, monVars, runnerVars, pair, outside>>

(* All connections have ended, or SHUTDOWN_GRACE has.                       *)
StopServing ==
  /\ worker = "grace" /\ worker' = "join"
  /\ cut' = \E c \in Conns : conn[c] \in {"open", "waiting"}
  /\ UNCHANGED <<eng, job, jobs, asked, calls, conn, gaveUp, monVars, runnerVars, pair, outside>>

(* EngineThread::join, and the end of the process.                          *)
Join ==
  /\ worker = "join" /\ eng = "ended" /\ worker' = "ended"
  /\ UNCHANGED <<eng, job, jobs, asked, calls, conn, gaveUp, cut, monVars, runnerVars, pair, outside>>

----------------------------------------------------------------------------
(* The engine thread.                                                       *)

TakeJob ==
  /\ eng = "recv" /\ jobs # <<>>
  /\ eng' = "run" /\ job' = Head(jobs) /\ jobs' = Tail(jobs)
  /\ UNCHANGED <<worker, asked, calls, conn, gaveUp, cut, monVars, runnerVars, pair, outside>>

(* A request of the operation.                                              *)
Call ==
  /\ eng = "run" /\ asked = 0 /\ calls < MaxCalls /\ ~MonitorClosed
  /\ calls' = calls + 1 /\ Send(calls')
  /\ UNCHANGED <<worker, eng, job, jobs, conn, gaveUp, cut, monVars, runnerVars, toWorker, outside>>

CallEnds ==
  /\ eng \in {"run", "stop"}
  /\ (TakeResponse /\ UNCHANGED gaveUp) \/ GaveUp
  /\ eng' = IF eng = "stop" THEN "ended" ELSE eng
  /\ UNCHANGED <<worker, job, jobs, calls, conn, cut, monVars, runnerVars, toMonitor, outside>>

(* The reply, which nobody reads once the caller has left or the runtime    *)
(* has stopped.                                                             *)
Reply ==
  /\ eng = "run" /\ asked = 0
  /\ eng' = "recv" /\ job' = None
  /\ conn' = [conn EXCEPT ![job] =
                CASE @ = "gone" -> "none"
                  [] @ = "waiting" /\ worker = "serving" -> "open"
                  [] @ = "waiting" /\ worker = "grace" -> "none"
                  [] OTHER -> @]
  /\ UNCHANGED <<worker, jobs, asked, calls, gaveUp, cut, monVars, runnerVars, pair, outside>>

(* recv fails: no sender is left.  OpsEngine::shutdown.                     *)
EngineStops ==
  /\ eng = "recv" /\ jobs = <<>> /\ HandlesDropped
  /\ IF MonitorClosed THEN eng' = "ended" /\ UNCHANGED <<asked, toMonitor>>
     ELSE eng' = "stop" /\ Send(Shutdown)
  /\ UNCHANGED <<worker, job, jobs, calls, conn, gaveUp, cut, monVars, runnerVars, toWorker, outside>>

----------------------------------------------------------------------------
(* Signals, and processes that are killed.                                  *)

GroupSignal_ReachesRunner ==
  /\ signal' = TRUE /\ UNCHANGED lost
  /\ mon' = IF mon \in {"confine", "begin", "abort"} THEN "ended" ELSE mon
  /\ runner' = "ended" /\ acme' = "ended"
  /\ worker' = CASE worker \in {"await", "hello"} -> "ended"
                 [] worker = "serving" -> "grace"
                 [] OTHER -> worker

(* SIGTERM to the group: the monitor and the runner block it from early on, *)
(* the worker has its handler once it listens.                              *)
GroupSignal ==
  /\ signal' = TRUE
  /\ mon' = IF mon \in {"confine", "begin", "abort"} THEN "ended" ELSE mon
  /\ IF runner = "new" THEN runner' = "ended" /\ lost' = TRUE ELSE UNCHANGED <<runner, lost>>
  /\ acme' = "ended"
  /\ worker' = CASE worker \in {"await", "hello"} -> "ended"
                 [] worker = "serving" -> "grace"
                 [] OTHER -> worker

(* systemctl stop; and the service manager once the parent has ended.       *)
Stop ==
  /\ ~signal \/ (mon = "ended" /\ (acme # "ended" \/ worker \in {"await", "hello", "serving"}))
  /\ GroupSignal
  /\ UNCHANGED <<started, serving, asking, link, hooks, toRunner, fromRunner, eng, job, jobs,
                 asked, calls, conn, gaveUp, cut, pair, faults>>

Kill ==
  /\ Fault("kill")
  /\ \/ /\ mon # "ended" /\ mon' = "ended" /\ asking' = 0
        /\ UNCHANGED <<started, serving, link, hooks, runnerVars, workerVars, lost>>
     \/ /\ worker # "ended" /\ worker' = "ended"
        /\ conn' = [c \in Conns |-> "none"] /\ eng' = "ended" /\ asked' = 0
        /\ UNCHANGED <<job, jobs, calls, gaveUp, cut, runnerVars, monVars, lost>>
     \/ /\ runner # "ended" /\ runner' = "ended" /\ lost' = TRUE
        /\ UNCHANGED <<toRunner, fromRunner, monVars, workerVars>>
  /\ UNCHANGED <<pair, acme, signal>>

Init ==
  /\ mon = "confine" /\ started = FALSE /\ serving = 0 /\ asking = 0 /\ link = TRUE /\ hooks = 0
  /\ runner = "new" /\ toRunner = <<>> /\ fromRunner = <<>>
  /\ acme = "new"
  /\ worker = "await" /\ eng = "none" /\ job = None /\ jobs = <<>> /\ asked = 0 /\ calls = 0
  /\ toMonitor = <<>> /\ toWorker = <<>> /\ conn = [c \in Conns |-> "none"]
  /\ signal = FALSE /\ faults = 0
  /\ lost = FALSE /\ gaveUp = FALSE /\ cut = FALSE

MonitorStep ==
  \/ Confine \/ BlockStopSignals \/ Abort \/ Lock \/ Recovered \/ Receive \/ Respond \/ LoopLeft \/ Reap
  \/ Ask \/ HookAnswered \/ HookFails

RunnerStep == RunnerStarts \/ RunnerTakes \/ RunnerAnswers \/ RunnerEnds

MainStep == BecomeWorker \/ Hello \/ Greeted \/ StopServing \/ Join

EngineStep == TakeJob \/ Call \/ CallEnds \/ Reply \/ EngineStops

AllEnded == mon = "ended" /\ worker = "ended" /\ runner = "ended" /\ acme = "ended"

Next ==
  \/ MonitorStep \/ RunnerStep \/ MainStep \/ EngineStep
  \/ AcmeStarts \/ AcmeEnds \/ LoopFails \/ Stop \/ Kill
  \/ \E c \in Conns : Accept(c) \/ Leave(c) \/ Execute(c)

(* Each thread runs on, every wait with a timeout runs out, and the service *)
(* manager signals what the parent left behind.                             *)
Fairness ==
  /\ WF_vars(MonitorStep) /\ WF_vars(RunnerStep) /\ WF_vars(MainStep) /\ WF_vars(EngineStep)
  /\ WF_vars(AcmeStarts) /\ WF_vars(AcmeClosed /\ AcmeEnds)
  /\ WF_vars(mon = "ended" /\ Stop)

Spec == Init /\ [][Next]_vars /\ Fairness

----------------------------------------------------------------------------
(* Properties.                                                              *)

(* An answer belongs to what was asked: the runner's always, since          *)
(* RunnerClient gives a channel up with the first answer it does not get;   *)
(* the monitor's until Client::call has given up on one, which it may do    *)
(* and go on.                                                               *)
AnswersMatch ==
  /\ asking # 0 /\ fromRunner # <<>> => Head(fromRunner) = asking
  /\ asked # 0 /\ toWorker # <<>> /\ ~gaveUp => Head(toWorker) = asked

(* As long as the monitor may need a hook, up to the rollback on its exit,  *)
(* a runner that got to its loop is there: a stop of the whole group does   *)
(* not end it, and its channel closes last (block_stop_signals,             *)
(* run_monitor).                                                            *)
RunnerOutlivesLoop ==
  mon \in {"recover", "idle", "work", "exit", "reapWorker"} /\ link =>
    runner # "ended" \/ lost

(* A handler that waits for the engine gets an answer or an error, also     *)
(* when the monitor has died or has left its loop with the channel open     *)
(* (EngineHandle::execute, Client::call), unless the grace of a shutdown    *)
(* stops the runtime under it.                                              *)
CallsEnd ==
  \A c \in Conns : conn[c] = "waiting" ~> (conn[c] # "waiting" \/ cut)

(* A stop, or the end of the worker or of the parent for whatever reason,   *)
(* ends all four processes, so that the service can be started again: no    *)
(* two of them wait for each other (run, run_monitor, run_worker), unless   *)
(* the grace ended with connections open, whose handles join waits for.     *)
TreeEnds ==
  (signal \/ worker = "ended" \/ mon = "ended") ~> (AllEnded \/ cut)
=============================================================================
