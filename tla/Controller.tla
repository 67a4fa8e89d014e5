----------------------------- MODULE Controller -----------------------------
(***************************************************************************)
(* controller::run once its threads exist, and how it stops them: the main *)
(* thread and its watchdog, the hook thread, the desktop observer and the  *)
(* action worker with its bounded queue (src/controller.rs,                *)
(* controller/action_worker.rs, controller/desktop.rs, and InputHook of    *)
(* platform/windows/hook.rs).                                              *)
(*                                                                         *)
(* A message of the queue is the number of actions it asks the worker for: *)
(* one, but for the resize of a pointer drag, which asks for several       *)
(* steps; or it is Stop.  Which key, movement or line of the sidebar asked *)
(* is left to HookDispatcher, PaneResize and Dashboard; what the worker    *)
(* does with a message either succeeds or fails.                           *)
(*                                                                         *)
(* accepted, due and carried_out are history: no action's guard reads them *)
(* and the code keeps no such counts.                                      *)
(***************************************************************************)
EXTENDS Integers, Sequences

CONSTANTS
  Capacity,      \* action_queue_capacity
  StopAttempts,  \* STOP_SEND_ATTEMPTS
  MaxSteps,      \* MAX_RESIZE_ACTIONS_PER_POINTER_EVENT
  MaxOffers,     \* bound on the messages the hook offers to the queue
  MaxRequests,   \* bound on the commands winter ui writes
  Stop,          \* WorkerMessage::Stop
  NoReport       \* the worker has not been joined

ASSUME ControllerAssumption ==
  /\ Capacity \in Nat \ {0}      \* validate_options
  /\ StopAttempts \in Nat \ {0}
  /\ MaxSteps \in Nat \ {0}
  /\ MaxOffers \in Nat
  /\ MaxRequests \in Nat
  /\ Stop \notin Nat
  /\ NoReport \notin [dispatched : Nat, failed : Nat]

VARIABLES
  main,            \* where run is
  attempts,        \* what is left of the retry budget of request_stop
  hook,            \* the hook thread
  detached,        \* hook.stop gave up waiting for it
  handler_active,  \* HookHealth
  shutdown,        \* a message waits in the shutdown channel (capacity 1)
  observer,        \* where run_observer is
  stopping,        \* DesktopCache::stopping
  dashboard,       \* dashboard.json exists
  queue,           \* the worker's channel
  worker,          \* where ActionWorker's run loop is
  job,             \* the actions the message at hand asks for, 0 for none
  offers,          \* messages the hook has offered
  requests,        \* commands the observer has offered
  accepted,        \* offers of either the queue took
  due,             \* actions the accepted ask for, but for those that failed
  carried_out,     \* messages the worker carried out
  dropped,         \* DashboardTelemetry::dropped
  dispatched,      \* WorkerTelemetry::dispatched, which counts actions
  failed,          \* WorkerTelemetry::failed, which counts messages
  report           \* the WorkerReport the join returned

main_vars == <<main, attempts, detached, report>>
hook_vars == <<hook, handler_active, shutdown, offers, dropped>>
observer_vars == <<observer, stopping, dashboard, requests>>
worker_vars == <<worker, job, carried_out, dispatched, failed>>
queue_vars == <<queue, accepted, due>>
vars == <<main_vars, hook_vars, observer_vars, worker_vars, queue_vars>>

MainPC ==
  {"start_hook", "wait_for_shutdown", "stop_hook", "join_hook", "stop_observer",
   "join_observer", "remove_dashboard", "request_stop", "join_worker",
   "request_stop_failed", "join_worker_failed", "drop_observer",
   "join_dropped_observer", "returned", "returned_error"}

-----------------------------------------------------------------------------
(***************************************************************************)
(* The channel.  A sender that finds it full, or the worker gone, keeps    *)
(* its message.                                                            *)
(***************************************************************************)

HasRoom == worker # "exited" /\ Len(queue) < Capacity

Send(message) == queue' = Append(queue, message)

Accept(message) ==
  /\ HasRoom
  /\ Send(message)
  /\ accepted' = accepted + 1
  /\ due' = due + message

MainHoldsSender ==
  main \in MainPC \ {"join_worker", "join_worker_failed", "drop_observer",
                     "join_dropped_observer", "returned", "returned_error"}

\* The hook thread's closure and run_observer each own a clone.
Disconnected ==
  /\ ~MainHoldsSender
  /\ hook \in {"absent", "exited"}
  /\ observer = "exited"

-----------------------------------------------------------------------------
(***************************************************************************)
(* The main thread.                                                        *)
(***************************************************************************)

Goto(from, to) == main = from /\ main' = to

StartHook ==
  /\ Goto("start_hook", "wait_for_shutdown")
  /\ hook' = "running"
  /\ UNCHANGED <<attempts, detached, report, handler_active, shutdown, offers, dropped,
                 observer_vars, worker_vars, queue_vars>>

\* InputHook::start returned an error: only the worker is stopped here, the
\* observer when its DesktopCache is dropped on return.
HookStartFails ==
  /\ Goto("start_hook", "request_stop_failed")
  /\ hook' = "absent"
  /\ UNCHANGED <<attempts, detached, report, handler_active, shutdown, offers, dropped,
                 observer_vars, worker_vars, queue_vars>>

ReceiveShutdown ==
  /\ Goto("wait_for_shutdown", "stop_hook")
  /\ shutdown
  /\ shutdown' = FALSE
  /\ UNCHANGED <<attempts, detached, report, hook, handler_active, offers, dropped,
                 observer_vars, worker_vars, queue_vars>>

\* Mutant of GiveUpWaiting: a blocking receive, without the watchdog.
GiveUpWaitingBlind ==
  /\ Goto("wait_for_shutdown", "stop_hook")
  /\ hook = "exited" /\ ~shutdown
  /\ UNCHANGED <<attempts, detached, report, hook_vars, observer_vars, worker_vars,
                 queue_vars>>

\* The watchdog finds the handler disabled, or the hook thread dropped the
\* sender of the shutdown channel.
GiveUpWaiting ==
  /\ Goto("wait_for_shutdown", "stop_hook")
  /\ ~handler_active \/ (hook = "exited" /\ ~shutdown)
  /\ UNCHANGED <<attempts, detached, report, hook_vars, observer_vars, worker_vars,
                 queue_vars>>

PostQuit ==
  /\ Goto("stop_hook", "join_hook")
  /\ hook' = IF hook = "running" THEN "quitting" ELSE hook
  /\ UNCHANGED <<attempts, detached, report, handler_active, shutdown, offers, dropped,
                 observer_vars, worker_vars, queue_vars>>

\* Mutant of JoinHook: the hook thread is told to quit and not waited for.
JoinHookUnwaited ==
  /\ Goto("join_hook", "stop_observer")
  /\ UNCHANGED <<attempts, detached, report, hook_vars, observer_vars, worker_vars,
                 queue_vars>>

JoinHook ==
  /\ Goto("join_hook", "stop_observer")
  /\ hook = "exited"
  /\ UNCHANGED <<attempts, detached, report, hook_vars, observer_vars, worker_vars,
                 queue_vars>>

\* SHUTDOWN_JOIN_TIMEOUT passes first: the handle is dropped, the thread lives on.
DetachHook ==
  /\ Goto("join_hook", "stop_observer")
  /\ hook # "exited"
  /\ detached' = TRUE
  /\ UNCHANGED <<attempts, report, hook_vars, observer_vars, worker_vars, queue_vars>>

StopObserver ==
  /\ Goto("stop_observer", "join_observer") \/ Goto("drop_observer", "join_dropped_observer")
  /\ stopping' = TRUE
  /\ UNCHANGED <<attempts, detached, report, hook_vars, observer, dashboard, requests,
                 worker_vars, queue_vars>>

\* Mutant of JoinObserver: the observer is told to stop and not waited for.
JoinObserverUnwaited ==
  /\ \/ Goto("join_observer", "remove_dashboard")
     \/ Goto("join_dropped_observer", "returned_error")
  /\ UNCHANGED <<attempts, detached, report, hook_vars, observer_vars, worker_vars,
                 queue_vars>>

JoinObserver ==
  /\ \/ Goto("join_observer", "remove_dashboard")
     \/ Goto("join_dropped_observer", "returned_error")
  /\ observer = "exited"
  /\ UNCHANGED <<attempts, detached, report, hook_vars, observer_vars, worker_vars,
                 queue_vars>>

\* Best effort: an error of remove_file is ignored.
RemoveDashboard ==
  /\ Goto("remove_dashboard", "request_stop")
  /\ dashboard' \in {FALSE, dashboard}
  /\ UNCHANGED <<attempts, detached, report, hook_vars, observer, stopping, requests,
                 worker_vars, queue_vars>>

GotoJoinWorker ==
  Goto("request_stop", "join_worker") \/ Goto("request_stop_failed", "join_worker_failed")

RequestStop ==
  /\ GotoJoinWorker
  /\ HasRoom
  /\ Send(Stop)
  /\ UNCHANGED <<attempts, detached, report, accepted, due, hook_vars, observer_vars,
                 worker_vars>>

\* The queue is full: sleep and try again, or leave it at dropping the sender.
RetryStop ==
  /\ main \in {"request_stop", "request_stop_failed"}
  /\ worker # "exited" /\ ~HasRoom
  /\ attempts' = attempts - 1
  /\ \/ attempts > 1 /\ UNCHANGED main
     \/ attempts = 1 /\ GotoJoinWorker
  /\ UNCHANGED <<detached, report, hook_vars, observer_vars, worker_vars, queue_vars>>

JoinWorker ==
  /\ Goto("join_worker", "returned") \/ Goto("join_worker_failed", "drop_observer")
  /\ worker = "exited"
  /\ report' = [dispatched |-> dispatched, failed |-> failed]
  /\ UNCHANGED <<attempts, detached, hook_vars, observer_vars, worker_vars, queue_vars>>

-----------------------------------------------------------------------------
(***************************************************************************)
(* The hook thread.  Events reach the handler until the thread has left    *)
(* its message loop.                                                       *)
(***************************************************************************)

HookRuns == hook \in {"running", "quitting"} /\ handler_active

\* try_send: a message the queue does not take is dropped and counted.
HookOffers(message) ==
  /\ HookRuns
  /\ offers < MaxOffers
  /\ offers' = offers + 1
  /\ \/ Accept(message) /\ UNCHANGED dropped
     \/ ~HasRoom /\ dropped' = dropped + 1 /\ UNCHANGED queue_vars
  /\ UNCHANGED <<main_vars, hook, handler_active, shutdown, observer_vars, worker_vars>>

OfferKeyCommand == HookOffers(1)

\* A movement of a drag that makes no whole step offers nothing.
OfferResize == \E steps \in 1..MaxSteps : HookOffers(steps)

\* The shutdown handshake completed; the channel holds one message.
FireShutdown ==
  /\ HookRuns
  /\ shutdown' = TRUE
  /\ UNCHANGED <<main_vars, hook, handler_active, offers, dropped, observer_vars,
                 worker_vars, queue_vars>>

\* A panic of the handler is caught: from then on every event passes.
HandlerPanics ==
  /\ HookRuns
  /\ handler_active' = FALSE
  /\ UNCHANGED <<main_vars, hook, shutdown, offers, dropped, observer_vars, worker_vars,
                 queue_vars>>

\* The message loop ends by WM_QUIT, or by an error of its own.
HookExits ==
  /\ hook \in {"running", "quitting"}
  /\ hook' = "exited"
  /\ UNCHANGED <<main_vars, handler_active, shutdown, offers, dropped, observer_vars,
                 worker_vars, queue_vars>>

-----------------------------------------------------------------------------
(***************************************************************************)
(* The observer: check, execute a pending command, publish, sleep.         *)
(***************************************************************************)

ObserverChecks ==
  /\ observer = "check"
  /\ observer' = IF stopping THEN "exited" ELSE "execute"
  /\ UNCHANGED <<main_vars, hook_vars, stopping, dashboard, requests, worker_vars,
                 queue_vars>>

\* try_send: a command the full queue refuses is lost, and counted nowhere.
ObserverExecutes ==
  /\ observer = "execute"
  /\ observer' = "publish"
  /\ \/ UNCHANGED <<requests, queue_vars>>
     \/ /\ requests < MaxRequests
        /\ requests' = requests + 1
        /\ \/ Accept(1)
           \/ ~HasRoom /\ UNCHANGED queue_vars
  /\ UNCHANGED <<main_vars, hook_vars, stopping, dashboard, worker_vars>>

\* The file is written if its body changed and no error prevents it.
ObserverPublishes ==
  /\ observer = "publish"
  /\ observer' = "check"
  /\ dashboard' \in {TRUE, dashboard}
  /\ UNCHANGED <<main_vars, hook_vars, stopping, requests, worker_vars, queue_vars>>

-----------------------------------------------------------------------------
(***************************************************************************)
(* The worker.                                                             *)
(***************************************************************************)

ReceiveCommand ==
  /\ worker = "idle"
  /\ queue # <<>>
  /\ \/ Head(queue) = Stop /\ worker' = "exited" /\ UNCHANGED job
     \/ Head(queue) # Stop /\ worker' = "busy" /\ job' = Head(queue)
  /\ queue' = Tail(queue)
  /\ UNCHANGED <<main_vars, hook_vars, observer_vars, carried_out, dispatched, failed, accepted,
                 due>>

\* recv returns RecvError: nothing queued and every sender gone.
ReceiveDisconnected ==
  /\ worker = "idle"
  /\ queue = <<>>
  /\ Disconnected
  /\ worker' = "exited"
  /\ UNCHANGED <<main_vars, hook_vars, observer_vars, job, carried_out, dispatched, failed,
                 queue_vars>>

\* A resize counts every step; one that fails at any step counts one failure, and
\* the steps before it nowhere.
FinishCommand ==
  /\ worker = "busy"
  /\ worker' = "idle"
  /\ job' = 0
  /\ \/ /\ dispatched' = dispatched + job
        /\ carried_out' = carried_out + 1
        /\ UNCHANGED <<failed, due>>
     \/ /\ failed' = failed + 1
        /\ due' = due - job
        /\ UNCHANGED <<dispatched, carried_out>>
  /\ UNCHANGED <<main_vars, hook_vars, observer_vars, queue, accepted>>

-----------------------------------------------------------------------------
Init ==
  /\ main = "start_hook"
  /\ attempts = StopAttempts
  /\ hook = "absent"
  /\ detached = FALSE
  /\ handler_active = TRUE
  /\ shutdown = FALSE
  /\ observer = "check"
  /\ stopping = FALSE
  /\ dashboard \in BOOLEAN
  /\ queue = <<>>
  /\ worker = "idle"
  /\ job = 0
  /\ offers = 0 /\ requests = 0 /\ accepted = 0 /\ due = 0
  /\ dropped = 0 /\ carried_out = 0 /\ dispatched = 0 /\ failed = 0
  /\ report = NoReport

MainStep ==
  \/ StartHook \/ HookStartFails \/ ReceiveShutdown \/ GiveUpWaiting
  \/ PostQuit \/ JoinHook \/ DetachHook \/ StopObserver \/ JoinObserver
  \/ RemoveDashboard \/ RequestStop \/ RetryStop \/ JoinWorker

HookStep == OfferKeyCommand \/ OfferResize \/ FireShutdown \/ HandlerPanics \/ HookExits

ObserverStep == ObserverChecks \/ ObserverExecutes \/ ObserverPublishes

WorkerStep == ReceiveCommand \/ ReceiveDisconnected \/ FinishCommand

\* run has returned; the process is about to exit.
Returned == main \in {"returned", "returned_error"} /\ UNCHANGED vars

Next == MainStep \/ HookStep \/ ObserverStep \/ WorkerStep \/ Returned

(***************************************************************************)
(* Each thread is scheduled.  The hook thread reads the WM_QUIT it was     *)
(* sent, however late; nothing makes a user press a key.                   *)
(***************************************************************************)
Fairness ==
  /\ WF_vars(MainStep)
  /\ WF_vars(ObserverStep)
  /\ WF_vars(WorkerStep)
  /\ WF_vars(hook = "quitting" /\ HookExits)

Spec == Init /\ [][Next]_vars /\ Fairness

-----------------------------------------------------------------------------
Messages == 0..(MaxOffers + MaxRequests)
Actions == 0..(MaxSteps * (MaxOffers + MaxRequests))

TypeOK ==
  /\ main \in MainPC
  /\ attempts \in 0..StopAttempts
  /\ hook \in {"absent", "running", "quitting", "exited"}
  /\ observer \in {"check", "execute", "publish", "exited"}
  /\ worker \in {"idle", "busy", "exited"} /\ job \in 0..MaxSteps
  /\ queue \in Seq(1..MaxSteps \cup {Stop}) /\ Len(queue) <= Capacity
  /\ {detached, handler_active, shutdown, stopping, dashboard} \subseteq BOOLEAN
  /\ offers \in 0..MaxOffers
  /\ requests \in 0..MaxRequests
  /\ {accepted, dropped, carried_out, failed} \subseteq Messages
  /\ {due, dispatched} \subseteq Actions
  /\ report \in {NoReport} \cup [dispatched : Actions, failed : Messages]

\* When run returns normally with its hook thread joined, the report accounts
\* for every message the queue ever took: each was carried out or is one failure,
\* and the actions reported are those the ones carried out asked for, a resize for
\* as many as it had steps.  Stop is behind all of them, however full the queue was.
ReportIsComplete ==
  main = "returned" /\ ~detached
    => carried_out + report.failed = accepted /\ report.dispatched = due

\* Once the state file is removed it never comes back: winter ui, which takes
\* the file for a running controller, cannot be misled by a late publish.
DashboardStaysGone ==
  [][ dashboard' /\ main \in {"request_stop", "join_worker", "returned"}
        => dashboard ]_vars

\* A shutdown the user completed, or a handler that was disabled, ends the run,
\* however long the worker is busy and however full its queue.
ShutdownCompletes ==
  main = "wait_for_shutdown" /\ (shutdown \/ ~handler_active) ~> main = "returned"

-----------------------------------------------------------------------------
(***************************************************************************)
(* What the documentation says of request_stop.                            *)
(***************************************************************************)

\* src/controller/action_worker.rs, request_stop: a saturated queue cannot hang
\* shutdown, because dropping the sender still lets the worker exit.
SaturatedQueueCannotHang ==
  main \in {"join_worker", "join_worker_failed"} ~> worker = "exited"

=============================================================================
