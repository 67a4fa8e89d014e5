----------------------------- MODULE Autostart -----------------------------
(***************************************************************************)
(* The logon task of the controller: src/autostart.rs over                 *)
(* src/platform/windows/scheduled_task.rs and elevation.rs, and the exit   *)
(* status src/cli.rs makes of its reports.  A command that may not write   *)
(* the task starts a helper, the same binary with the same request,        *)
(* through a UAC prompt and waits for it.  Several commands may run at     *)
(* once, and anybody may change the task at any moment: nothing locks it,  *)
(* and a query and the write that follows are two calls of schtasks.       *)
(***************************************************************************)
EXTENDS Naturals

CONSTANTS
  Callers,     \* the processes a user starts
  MaxChanges,  \* bound: changes by others
  MaxFaults    \* bound: calls of schtasks that fail, helpers that are killed

\* Winter's for this binary, Winter's for another path, and somebody else's.
Tasks == {"ours", "stale", "foreign"}
NoTask == "missing"

\* Mutant of Managed: the description of the task is not looked at.
ManagedByName(t) == t \in Tasks

\* TaskSnapshot::parse: the description carries Winter's marker.
Managed(t) == t \in {"ours", "stale"}

Processes == Callers \X {"caller", "helper"}
Helper(c) == <<c, "helper">>
Caller(c) == <<c, "caller">>

VARIABLES
  task,      \* what the Task Scheduler holds under TASK_NAME
  pc,        \* where each process is
  command,   \* what each caller was asked to do
  elevated,  \* whether a process has an elevated token
  seen,      \* what each process read before it decided
  result,    \* the report of each process
  changes, faults,  \* bounded counters
  quiet,     \* history: nobody else changed the task since the command started
  honest,    \* history: every call of schtasks the command made told the truth
  current,   \* history: the task is as the process read it
  declined   \* history: the prompt of the command was dismissed

vars == <<task, pc, command, elevated, seen, result, changes, faults,
          quiet, honest, current, declined>>

Report(status, registered) == [status |-> status, registered |-> registered]
Error == Report("error", FALSE)
Skipped == Report("Skipped", FALSE)
Nothing == Report("none", FALSE)

-----------------------------------------------------------------------------
(* Reports and exit codes *)

\* persistent()
Persistent(report) ==
  report.registered /\ report.status \in {"Registered", "Unchanged", "Updated"}

\* run_autostart
ExitCode(asked, report) ==
  IF report.status = "error" THEN 1
  ELSE IF asked = "enable" THEN (IF Persistent(report) THEN 0 ELSE 2)
  ELSE IF asked = "disable" THEN (IF report.registered THEN 2 ELSE 0)
  ELSE IF report = Skipped THEN 2
  ELSE 0

-----------------------------------------------------------------------------
(* A process *)

Goes(p, place) == pc' = [pc EXCEPT ![p] = place] /\ UNCHANGED result

Ends(p, report) ==
  /\ pc' = [pc EXCEPT ![p] = "done"]
  /\ result' = [result EXCEPT ![p] = report]

Fault(c) ==
  /\ faults < MaxFaults /\ faults' = faults + 1
  /\ honest' = [honest EXCEPT ![c] = FALSE]

NoFault == UNCHANGED <<faults, honest>>

\* A process runs one command and ends.
Start(c, asked, admin) ==
  /\ pc[Caller(c)] = "off"
  /\ command' = [command EXCEPT ![c] = asked]
  /\ elevated' = [elevated EXCEPT ![Caller(c)] = admin]
  /\ pc' = [pc EXCEPT ![Caller(c)] = "query"]
  /\ quiet' = [quiet EXCEPT ![c] = TRUE]
  /\ UNCHANGED <<task, seen, result, changes, faults, honest, current, declined>>

\* Mutant of Matches: the path of the binary is not compared.
MatchesAnyPath(t) == Managed(t)

\* TaskSnapshot::matches
Matches(t) == t = "ours"

\* Where the write goes: directly, through the prompt, or nowhere when a helper
\* finds itself not elevated.
Proceeds(p) ==
  IF elevated[p] THEN Goes(p, "write")
  ELSE IF p[2] = "helper" THEN Ends(p, Error)
  ELSE Goes(p, "prompt")

Decide(p, asked, read) ==
  CASE asked = "status" ->
         Ends(p, IF read = NoTask THEN Report("Missing", FALSE)
                 ELSE IF Managed(read) THEN Report("Registered", TRUE)
                 ELSE Report("Foreign", FALSE))
    [] read # NoTask /\ ~Managed(read) -> Ends(p, Report("Foreign", FALSE))
    [] asked = "enable" /\ Matches(read) -> Ends(p, Report("Unchanged", TRUE))
    [] asked = "disable" /\ read = NoTask -> Ends(p, Report("Missing", FALSE))
    [] OTHER -> Proceeds(p)

\* query_task_xml: exit status 1 is no task, whatever was wrong.
Query(c, role) ==
  LET p == <<c, role>>
  IN  /\ pc[p] = "query"
      /\ \/ NoFault /\ Decide(p, command[c], task) /\ seen' = [seen EXCEPT ![p] = task]
         \/ Fault(c) /\ Decide(p, command[c], NoTask) /\ seen' = [seen EXCEPT ![p] = NoTask]
         \/ Fault(c) /\ Ends(p, IF command[c] = "status" THEN Skipped ELSE Error) /\ UNCHANGED seen
      /\ current' = [current EXCEPT ![p] = (seen'[p] = task)]
      /\ UNCHANGED <<task, command, elevated, changes, quiet, declined>>

\* A dismissed prompt is an error like any other: elevation_error compares the
\* HRESULT of the call with the bare code ERROR_CANCELLED.
Dismiss(c) ==
  /\ pc[Caller(c)] = "prompt"
  /\ Ends(Caller(c), Error)
  /\ declined' = [declined EXCEPT ![c] = TRUE]
  /\ UNCHANGED <<task, command, elevated, seen, changes, faults, quiet, honest, current>>

\* The helper decides for itself.
Approve(c, admin) ==
  /\ pc[Caller(c)] = "prompt"
  /\ pc' = [pc EXCEPT ![Caller(c)] = "wait", ![Helper(c)] = "query"]
  /\ elevated' = [elevated EXCEPT ![Helper(c)] = admin]
  /\ UNCHANGED <<task, command, seen, result, changes, faults, quiet, honest, current, declined>>

\* A helper that is killed leaves another exit code than 0.
Killed(c) ==
  /\ pc[Helper(c)] \in {"query", "write", "readback"} /\ Fault(c)
  /\ Ends(Helper(c), Error)
  /\ UNCHANGED <<task, command, elevated, seen, changes, quiet, current, declined>>

\* Only an exit code of 0 is a success; after a removal nothing is read again.
Resume(c) ==
  /\ pc[Caller(c)] = "wait" /\ pc[Helper(c)] = "done"
  /\ LET code == ExitCode(command[c], result[Helper(c)])
         then == IF code = 0 /\ command[c] = "enable" THEN "reread" ELSE "done"
     IN  /\ pc' = [pc EXCEPT ![Helper(c)] = "off", ![Caller(c)] = then]
         /\ result' = [result EXCEPT
               ![Helper(c)] = Nothing,
               ![Caller(c)] = IF code # 0 THEN Error
                              ELSE IF command[c] = "disable" THEN Report("Removed", FALSE)
                              ELSE @]
  /\ UNCHANGED <<task, command, elevated, seen, changes, faults, quiet, honest, current, declined>>

\* The task changes under everybody else.
Becomes(c, t) ==
  /\ task' = t
  /\ quiet' = [d \in Callers |-> quiet[d] /\ (d = c \/ t = task)]
  /\ current' = [p \in Processes |-> current[p] /\ t = task]

Keeps == UNCHANGED <<task, quiet, current>>

\* /Create /F replaces what is there.
Register(c, role) ==
  LET p == <<c, role>>
  IN  /\ pc[p] = "write" /\ command[c] = "enable"
      /\ \/ NoFault /\ Becomes(c, "ours") /\ Goes(p, "readback")
         \/ Fault(c) /\ Keeps /\ Ends(p, Error)
      /\ UNCHANGED <<command, elevated, seen, changes, declined>>

\* /Delete /F; exit status 1 is success, whatever was wrong.
Delete(c, role) ==
  LET p == <<c, role>>
  IN  /\ pc[p] = "write" /\ command[c] = "disable"
      /\ \/ NoFault /\ Becomes(c, NoTask) /\ Ends(p, Report("Removed", FALSE))
         \/ Fault(c) /\ Keeps /\ Ends(p, Report("Removed", FALSE))
         \/ Fault(c) /\ Keeps /\ Ends(p, Error)
      /\ UNCHANGED <<command, elevated, seen, changes, declined>>

\* What was registered only has to exist.
ReadBack(c, role) ==
  LET p == <<c, role>>
  IN  /\ pc[p] = "readback"
      /\ \/ /\ NoFault
            /\ Ends(p, IF task = NoTask THEN Error
                       ELSE Report(IF seen[p] = NoTask THEN "Registered" ELSE "Updated", TRUE))
         \/ Fault(c) /\ Ends(p, Error)
      /\ UNCHANGED <<task, command, elevated, seen, changes, quiet, current, declined>>

\* What the helper registered has to be Winter's.
Reread(c) ==
  /\ pc[Caller(c)] = "reread"
  /\ \/ /\ NoFault
        /\ Ends(Caller(c), IF task = NoTask THEN Error
                           ELSE IF Managed(task) THEN Report("Registered", TRUE)
                           ELSE Report("Foreign", FALSE))
     \/ Fault(c) /\ Ends(Caller(c), Error)
  /\ UNCHANGED <<task, command, elevated, seen, changes, quiet, current, declined>>

\* Somebody else: another copy of Winter, another program, the user.
Outside(t) ==
  /\ changes < MaxChanges /\ changes' = changes + 1
  /\ t # task /\ task' = t
  /\ quiet' = [c \in Callers |-> FALSE]
  /\ current' = [p \in Processes |-> FALSE]
  /\ UNCHANGED <<pc, command, elevated, seen, result, faults, honest, declined>>

-----------------------------------------------------------------------------
Init ==
  /\ task \in Tasks \cup {NoTask}
  /\ pc = [p \in Processes |-> "off"]
  /\ command = [c \in Callers |-> "status"]
  /\ elevated = [p \in Processes |-> FALSE]
  /\ seen = [p \in Processes |-> NoTask] /\ result = [p \in Processes |-> Nothing]
  /\ changes = 0 /\ faults = 0
  /\ quiet = [c \in Callers |-> TRUE] /\ honest = [c \in Callers |-> TRUE]
  /\ current = [p \in Processes |-> FALSE] /\ declined = [c \in Callers |-> FALSE]

Next ==
  \/ \E c \in Callers :
       \/ \E asked \in {"status", "enable", "disable"}, admin \in BOOLEAN : Start(c, asked, admin)
       \/ \E admin \in BOOLEAN : Approve(c, admin)
       \/ Dismiss(c) \/ Killed(c) \/ Resume(c) \/ Reread(c)
       \/ \E role \in {"caller", "helper"} :
            Query(c, role) \/ Register(c, role) \/ Delete(c, role) \/ ReadBack(c, role)
  \/ \E t \in Tasks \cup {NoTask} : Outside(t)

Spec == Init /\ [][Next]_vars

-----------------------------------------------------------------------------
(* Properties *)

Places == {"off", "query", "prompt", "wait", "write", "readback", "reread", "done"}

\* Every variable has its type, and only an elevated process is about to write
\* the task.
TypeOK ==
  /\ task \in Tasks \cup {NoTask} /\ seen \in [Processes -> Tasks \cup {NoTask}]
  /\ pc \in [Processes -> Places]
  /\ \A p \in Processes : pc[p] = "write" => elevated[p]
  /\ command \in [Callers -> {"status", "enable", "disable"}]
  /\ elevated \in [Processes -> BOOLEAN] /\ current \in [Processes -> BOOLEAN]
  /\ result \in [Processes -> [status: {"none", "error", "Registered", "Unchanged", "Updated",
                                        "Removed", "Missing", "Foreign", "Skipped"},
                               registered: BOOLEAN]]
  /\ {quiet, honest, declined} \subseteq [Callers -> BOOLEAN]
  /\ changes \in 0..MaxChanges /\ faults \in 0..MaxFaults

Over(c) == pc[Caller(c)] = "done"
Final(c) == result[Caller(c)]

\* A command that nobody interfered with and whose calls told the truth leaves
\* what it reports: a task for this binary after a successful enable, none after
\* a removal, whoever of caller and helper did the write.
QuietReportIsTrue ==
  \A c \in Callers : Over(c) /\ quiet[c] /\ honest[c] =>
    /\ command[c] = "enable" /\ Persistent(Final(c)) => task = "ours"
    /\ Final(c).status \in {"Removed", "Missing"} => task = NoTask

\* A task of somebody else is only replaced or deleted by a process that read
\* something different before: the task came after its query, or the query failed.
ForeignIsNotRead ==
  [][task = "foreign" /\ task' # task /\ changes' = changes =>
       \E p \in Processes : pc[p] = "write" /\ pc'[p] # "write" /\ ~current[p]]_vars

\* autostart.rs says that Winter refuses to overwrite or delete a task that is
\* not its own: here, a task that was there when the command started and that
\* nobody touched.
ForeignIsKept ==
  [][\A c \in Callers, role \in {"caller", "helper"} :
       pc[<<c, role>>] = "write" /\ pc'[<<c, role>>] # "write" /\ task = "foreign" /\ quiet[c] =>
         task' = task]_vars

\* autostart.rs says of Removed that the task was deleted by this call.
RemovedIsGone ==
  \A c \in Callers : Over(c) /\ quiet[c] /\ Final(c).status = "Removed" => task = NoTask

\* autostart.rs says of registered that the task points at this binary.
RegisteredPointsHere ==
  \A c \in Callers : Over(c) /\ quiet[c] /\ Final(c).registered => task = "ours"

\* autostart.rs says that a dismissed prompt is reported as Skipped rather than
\* as an error.
DismissedIsSkipped ==
  \A c \in Callers : Over(c) /\ declined[c] => Final(c).status = "Skipped"

\* cli.rs says that the exit status is 2 for a task owned by someone else.
ForeignNeedsAttention ==
  \A c \in Callers : Over(c) /\ command[c] # "status" /\ Final(c).status = "Foreign" =>
    ExitCode(command[c], Final(c)) = 2

=============================================================================
