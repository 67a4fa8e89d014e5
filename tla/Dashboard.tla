----------------------------- MODULE Dashboard -----------------------------
(***************************************************************************)
(* The dashboard channel of src/dashboard.rs: two files between the        *)
(* controller's observer thread (src/controller/desktop.rs) and the        *)
(* `winter ui` pane (src/ui.rs).                                           *)
(*                                                                         *)
(* dashboard.json goes from the observer to the pane.  It is staged in a   *)
(* sibling and renamed, and only if what there is to show differs from     *)
(* what was last written.  command.json goes the other way: the pane       *)
(* replaces it, the observer reads it, removes it, and executes what it    *)
(* read.  There is no lock: every read, write, rename and removal is a     *)
(* step of its own, and the controller may die between any two.            *)
(***************************************************************************)
EXTENDS Naturals

CONSTANTS
  Body,          \* what there is to show: DashboardState::body
  NoBody,        \* last_written: None
  NoFile,        \* the file is absent
  Torn,          \* a file whose bytes are not all written yet
  StaleAfter,    \* DASHBOARD_STALE_AFTER_MS, in ticks
  RemoveFails,   \* whether removing the command file may fail
  MaxCommands,   \* bound on the commands given in the pane
  MaxTime        \* bound on the clock

\* Commands are numbered in the order they are given; 0 stands for none.
CommandId == 1..MaxCommands

State == [body: Body, at: 0..MaxTime]

\* Where the observer thread is; "down" if the controller is not running.
Step == {"down", "loop", "read", "taken", "publish", "stage", "staging", "rename"}

ASSUME DashboardAssumption ==
  /\ NoBody \notin Body
  /\ {NoFile, Torn} \cap State = {} /\ NoFile # Torn
  /\ StaleAfter \in Nat /\ MaxCommands \in Nat /\ MaxTime \in Nat
  /\ RemoveFails \in BOOLEAN

VARIABLES
  live,          \* the telemetry, snapshot and tabs as they are
  file,          \* dashboard.json
  staged,        \* dashboard.json.tmp-<pid> of the running controller
  last_written,  \* DashboardPublisher::last_written
  observer,      \* where the observer thread is
  built,         \* the state it is publishing
  command,       \* command.json
  taken,         \* the command it has read
  executed,      \* how often each command was queued for the worker
  given,         \* the number of commands given in the pane
  ui,            \* the frame in the pane
  died,          \* when the controller last stopped running
  polled,        \* the observer ended a pass in this tick
  now

dashboard_vars == <<file, staged, last_written, built>>
command_vars == <<command, taken, executed, given>>
clock_vars == <<died, polled, now>>
vars == <<live, dashboard_vars, observer, command_vars, ui, clock_vars>>

Running == observer # "down"

-----------------------------------------------------------------------------
(***************************************************************************)
(* take_command, command_to_message, execute_pending_command.              *)
(***************************************************************************)

NoPending ==
  /\ observer = "loop"
  /\ command = NoFile
  /\ observer' = "publish"
  /\ UNCHANGED <<live, dashboard_vars, command_vars, ui, clock_vars>>

ReadCommand ==
  /\ observer = "loop"
  /\ command # NoFile
  /\ taken' = command
  /\ observer' = "read"
  /\ UNCHANGED <<live, dashboard_vars, command, executed, given, ui, clock_vars>>

\* Mutant of Removed: the file is left for the pane to replace.
RemovedNever == UNCHANGED command

\* The file is removed whatever is in it by now; an error is ignored.
Removed == command' \in {NoFile} \cup (IF RemoveFails THEN {command} ELSE {})

\* The command is dropped if it is malformed, if no terminal is known, or if the
\* worker's queue is full.
Executed ==
  executed' \in {executed, [executed EXCEPT ![taken] = @ + 1]}

RemoveCommand ==
  /\ observer = "read"
  /\ Removed
  /\ observer' = "taken"
  /\ UNCHANGED <<live, dashboard_vars, taken, executed, given, ui, clock_vars>>

ExecuteCommand ==
  /\ observer = "taken"
  /\ Executed
  /\ observer' = "publish"
  /\ taken' = 0
  /\ UNCHANGED <<live, dashboard_vars, command, given, ui, clock_vars>>

-----------------------------------------------------------------------------
(***************************************************************************)
(* publish_if_changed, write_dashboard.                                    *)
(***************************************************************************)

\* The timestamp alone never triggers a write.
SkipPublish ==
  /\ observer = "publish"
  /\ last_written = live
  /\ observer' = "loop"
  /\ polled' = TRUE
  /\ UNCHANGED <<live, dashboard_vars, command_vars, ui, died, now>>

\* Mutant of BuildState: the baseline moves before anything is written.
BuildStateAsWritten ==
  /\ observer = "publish"
  /\ last_written # live
  /\ built' = [body |-> live, at |-> now]
  /\ last_written' = live
  /\ observer' = "stage"
  /\ UNCHANGED <<live, file, staged, command_vars, ui, clock_vars>>

BuildState ==
  /\ observer = "publish"
  /\ last_written # live
  /\ built' = [body |-> live, at |-> now]
  /\ observer' = "stage"
  /\ UNCHANGED <<live, file, staged, last_written, command_vars, ui, clock_vars>>

\* Mutant of BeginWrite: the bytes go to the file itself.
BeginWriteInPlace ==
  /\ observer = "stage"
  /\ file' = Torn
  /\ observer' = "staging"
  /\ UNCHANGED <<live, staged, last_written, built, command_vars, ui, clock_vars>>

BeginWrite ==
  /\ observer = "stage"
  /\ staged' = Torn
  /\ observer' = "staging"
  /\ UNCHANGED <<live, file, last_written, built, command_vars, ui, clock_vars>>

EndWrite ==
  /\ observer = "staging"
  /\ staged' = built
  /\ observer' = "rename"
  /\ UNCHANGED <<live, file, last_written, built, command_vars, ui, clock_vars>>

Replace ==
  /\ observer = "rename"
  /\ file' = staged
  /\ staged' = NoFile
  /\ last_written' = built.body
  /\ observer' = "loop"
  /\ polled' = TRUE
  /\ UNCHANGED <<live, built, command_vars, ui, died, now>>

\* The staged file is removed and the next pass tries again.
WriteFails ==
  /\ observer \in {"staging", "rename"}
  /\ staged' = NoFile
  /\ observer' = "loop"
  /\ polled' = TRUE
  /\ UNCHANGED <<live, file, last_written, built, command_vars, ui, died, now>>

-----------------------------------------------------------------------------
(***************************************************************************)
(* The life of the controller.                                             *)
(***************************************************************************)

\* run_observer publishes once before its loop.
StartController ==
  /\ ~Running
  /\ observer' = "publish"
  /\ last_written' = NoBody
  /\ staged' = NoFile
  /\ UNCHANGED <<live, file, built, command_vars, ui, clock_vars>>

\* The observer leaves its loop, and run() removes the dashboard file; an error
\* is ignored.
StopController ==
  /\ observer = "loop"
  /\ observer' = "down"
  /\ file' \in {NoFile, file}
  /\ died' = now
  /\ taken' = 0
  /\ UNCHANGED <<live, staged, last_written, built, command, executed, given, ui, polled, now>>

\* A process that is killed leaves every file as it is.
KillController ==
  /\ Running
  /\ observer' = "down"
  /\ died' = now
  /\ taken' = 0
  /\ UNCHANGED <<live, dashboard_vars, command, executed, given, ui, polled, now>>

-----------------------------------------------------------------------------
(***************************************************************************)
(* The pane: one turn of interactive() reads the file and renders it, and  *)
(* the next key acts on the state that was rendered, a stale one too.      *)
(***************************************************************************)

\* Mutant of IsOffline: the age of the state is not looked at.
IsOfflineUnaged(state) == state \notin State

IsOffline(state) == state \notin State \/ now - state.at > StaleAfter

Render ==
  /\ ui' = [state |-> IF file \in State THEN file ELSE NoFile,
            offline |-> IsOffline(file)]
  /\ UNCHANGED <<live, dashboard_vars, observer, command_vars, clock_vars>>

\* write_command replaces the file, a command nobody has read yet with it.
Activate ==
  /\ ui.state # NoFile
  /\ given < MaxCommands
  /\ given' = given + 1
  /\ command' = given'
  /\ UNCHANGED <<live, dashboard_vars, observer, taken, executed, ui, clock_vars>>

-----------------------------------------------------------------------------
Change(b) ==
  /\ b # live
  /\ live' = b
  /\ UNCHANGED <<dashboard_vars, observer, command_vars, ui, clock_vars>>

\* A tick is long enough for a pass of a running observer, which polls every
\* 25 ms where the pane waits for two seconds.
Tick ==
  /\ now < MaxTime
  /\ Running => polled
  /\ now' = now + 1
  /\ polled' = FALSE
  /\ UNCHANGED <<live, dashboard_vars, observer, command_vars, ui, died>>

Init ==
  /\ live \in Body
  /\ file = NoFile
  /\ staged = NoFile
  /\ last_written = NoBody
  /\ observer = "down"
  /\ built = NoFile
  /\ command = NoFile
  /\ taken = 0
  /\ executed = [c \in CommandId |-> 0]
  /\ given = 0
  /\ ui = [state |-> NoFile, offline |-> TRUE]
  /\ died = 0
  /\ polled = FALSE
  /\ now = 0

ObserverPass ==
  \/ NoPending \/ ReadCommand \/ RemoveCommand \/ ExecuteCommand
  \/ SkipPublish \/ BuildState \/ BeginWrite \/ EndWrite \/ Replace \/ WriteFails

Next ==
  \/ ObserverPass
  \/ StartController \/ StopController \/ KillController
  \/ Render \/ Activate
  \/ \E b \in Body : Change(b)
  \/ Tick

\* The observer's thread runs, and what keeps its write from succeeding (a
\* reader that has the file open) does not last for ever.
Fairness ==
  /\ WF_vars(ObserverPass)
  /\ SF_vars(EndWrite)
  /\ SF_vars(Replace)

Spec == Init /\ [][Next]_vars /\ Fairness

-----------------------------------------------------------------------------
TypeOK ==
  /\ live \in Body
  /\ file \in State \cup {NoFile, Torn}
  /\ staged \in State \cup {NoFile, Torn}
  /\ last_written \in Body \cup {NoBody}
  /\ observer \in Step
  /\ built \in State \cup {NoFile}
  /\ command \in CommandId \cup {NoFile}
  /\ taken \in CommandId \cup {0}
  /\ executed \in [CommandId -> Nat]
  /\ given \in 0..MaxCommands
  /\ ui \in [state: State \cup {NoFile}, offline: BOOLEAN]
  /\ {died, now} \subseteq 0..MaxTime
  /\ polled \in BOOLEAN

\* Once there is a dashboard the pane can read one at any moment, with writes
\* under way, failed, or cut short by the controller's death: only the removal
\* at an ordered stop takes it away.
DashboardStaysReadable ==
  [][ (file \in State) => (file' \in State \/ observer' = "down") ]_vars

\* A dashboard shown as live is never older than StaleAfter: if the controller
\* is gone, it was running that recently.
LiveIsRecent ==
  [][ ui' # ui /\ ~ui'.offline => Running \/ now - died <= StaleAfter ]_vars

\* As long as removals succeed, no command is executed twice, whatever the pane
\* writes between the read and the removal and wherever the controller dies.
AtMostOnce == \A c \in CommandId : executed[c] <= 1

\* However many writes fail, a running controller in a desktop that has come to
\* rest ends up with the truth in the file.
DashboardCatchesUp ==
  \A b \in Body :
    <>[](Running /\ live = b) => <>[](file \in State /\ file.body = b)

-----------------------------------------------------------------------------
(***************************************************************************)
(* What the documentation says of the channel.                             *)
(***************************************************************************)

\* src/dashboard.rs, the module comment: a missing or stale file means the
\* controller is not running.
OfflineMeansNotRunning ==
  [][ ui' # ui /\ ui'.offline /\ ui'.state # NoFile => ~Running ]_vars

=============================================================================
