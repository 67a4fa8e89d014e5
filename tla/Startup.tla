------------------------------- MODULE Startup -------------------------------
(***************************************************************************)
(* How a controller comes to run: the commands of src/cli.rs and the       *)
(* daemon of src/bin/winterd.rs, each a process that goes through the UAC  *)
(* prompt, config.toml and the action bridge, up to run_controller, where  *)
(* a named mutex (src/platform/windows/single_instance.rs) lets one in.    *)
(*                                                                         *)
(* Processes share the file, the bridge and the mutex, and nothing orders  *)
(* their steps.  The elevated successor a prompt starts and the background *)
(* controller `winter launch` spawns take over the slot of their parent,   *)
(* which only returns.                                                     *)
(***************************************************************************)
EXTENDS Configuration

CONSTANTS
  Slot,         \* the processes that can be alive at once
  Kind,         \* the commands users, shortcuts and the logon task start
  Initial,      \* the contents config.toml may start with
  Saves,        \* the contents the user may save, Absent among them
  MaxStarts,    \* bound on the commands started
  MaxChanges    \* bound on what users change behind the processes

\* Whatever is not Absent or Garbage has at least the fields of a configuration.
ASSUME ContentAssumption ==
  /\ Absent # Garbage
  /\ DefaultConfig \notin {Absent, Garbage}
  /\ \A c \in Initial \cup Saves :
       IsConfig(c) => "schema_version" \in DOMAIN c /\ IsConfig(Migrated(c))

VARIABLES
  pc,          \* where each process is; "free" when the slot has none
  command,     \* the command it runs
  hidden,      \* it was started through the prompt, with SW_HIDE
  cfg,         \* its ControllerConfig, once loaded
  opened,      \* it opened a Windows Terminal window
  outcome,     \* how the last process of the slot ended
  handles,     \* the processes with a handle of the named mutex
  file,        \* config.toml
  bridge,      \* what doctor finds of the action bridge
  winterd,     \* winterd.exe lies next to winter.exe
  user,        \* history: what the user last left in config.toml
  raced,       \* history: that was saved while a migration was writing back
  disturbed,   \* history: a process was stopped or killed
  starts, changes

process_vars == <<pc, command, hidden, cfg, opened, outcome, handles>>
world_vars == <<file, bridge, winterd, user, raced>>
count_vars == <<disturbed, starts, changes>>
vars == <<process_vars, world_vars, count_vars>>

\* The configurations that can be met, and what each compiles to.
Config ==
  LET met == {c \in Initial \cup Saves : IsConfig(c)} \cup {DefaultConfig}
  IN met \cup {Migrated(c) : c \in met}
CompilingConfig == {c \in Config : Compiles(c)}

Daemon == {"daemon", "daemon_launch", "daemon_quiet"}
Controller == Daemon \cup {"run", "fallback"}
Background == Daemon \cup {"fallback"}

\* Where the mutex is held as its owner.
Owning == {"launching", "compile", "running", "stopping"}

\* DaemonLaunchMode::should_launch, and the option of run_command.
ShouldLaunch(p) ==
  CASE command[p] = "daemon_launch" -> TRUE
    [] command[p] \in {"daemon_quiet", "fallback"} -> FALSE
    [] OTHER -> cfg[p].launch_terminal_on_start

Init ==
  /\ pc = [p \in Slot |-> "free"]
  /\ command = [p \in Slot |-> "config"]
  /\ hidden = [p \in Slot |-> FALSE]
  /\ cfg = [p \in Slot |-> Absent]
  /\ opened = [p \in Slot |-> FALSE]
  /\ outcome = [p \in Slot |-> "none"]
  /\ handles = {}
  /\ file \in Initial
  /\ bridge \in {"ready", "missing", "conflict"}
  /\ winterd \in BOOLEAN
  /\ user = file
  /\ raced = FALSE /\ disturbed = FALSE
  /\ starts = 0 /\ changes = 0

-----------------------------------------------------------------------------
Goto(p, at) == pc' = [pc EXCEPT ![p] = at]

\* Step of a process that leaves the processes' other state alone.
Proceed(p, at) ==
  /\ Goto(p, at)
  /\ UNCHANGED <<command, hidden, cfg, opened, outcome, handles>>

\* The process ends; Windows closes its handle of the mutex.
Exit(p, how) ==
  /\ Goto(p, "free")
  /\ command' = [command EXCEPT ![p] = "config"]
  /\ hidden' = [hidden EXCEPT ![p] = FALSE]
  /\ cfg' = [cfg EXCEPT ![p] = Absent]
  /\ outcome' = [outcome EXCEPT ![p] = how]
  /\ handles' = handles \ {p}
  /\ UNCHANGED opened

\* write_message_to_paths: last-error.log, else the copy in the temp directory;
\* only when both refuse is the message dropped.
LastErrorOutcome == {"reported", "silent"}

\* Where the error of a command goes: the daemon has no console and logs it, a
\* spawned `run` has none and does not, and a hidden one is seen by nobody.
ErrorOutcome(p) ==
  IF command[p] \in Daemon THEN LastErrorOutcome
  ELSE IF command[p] = "fallback" \/ hidden[p] THEN {"silent"} ELSE {"reported"}

Fail(p) == \E how \in ErrorOutcome(p) : Exit(p, how)

-----------------------------------------------------------------------------
\* A command is started.  What needs the controller's rights goes through
\* relaunch_current_process_elevated unless it is elevated already.
Start(p, k) ==
  /\ pc[p] = "free" /\ starts < MaxStarts
  /\ starts' = starts + 1
  /\ \E elevated \in IF k \in {"config", "doctor"} THEN {TRUE} ELSE BOOLEAN :
       Goto(p, IF elevated THEN "begin" ELSE "prompt")
  /\ command' = [command EXCEPT ![p] = k]
  /\ hidden' = [hidden EXCEPT ![p] = FALSE]
  /\ opened' = [opened EXCEPT ![p] = FALSE]
  /\ outcome' = [outcome EXCEPT ![p] = "none"]
  /\ UNCHANGED <<cfg, handles, world_vars, disturbed, changes>>

\* ShellExecuteW starts the successor without a visible window.
Approve(p) ==
  /\ pc[p] = "prompt"
  /\ Goto(p, "begin")
  /\ hidden' = [hidden EXCEPT ![p] = TRUE]
  /\ UNCHANGED <<command, cfg, opened, outcome, handles, world_vars, count_vars>>

Dismiss(p) ==
  /\ pc[p] = "prompt"
  /\ Fail(p)
  /\ UNCHANGED <<world_vars, count_vars>>

\* launch loads the configuration before the bridge, a controller after it;
\* doctor takes a missing file for a healthy one.
Begin(p) ==
  /\ pc[p] = "begin"
  /\ IF command[p] \in Controller THEN Proceed(p, "bridge")
     ELSE IF command[p] = "doctor"
     THEN IF file = Absent THEN Exit(p, "ok") ELSE Proceed(p, "read")
     ELSE Proceed(p, "exists")
  /\ UNCHANGED <<world_vars, count_vars>>

-----------------------------------------------------------------------------
(***************************************************************************)
(* The action bridge.  Only the daemon demands it ready; the commands      *)
(* install it, which a conflict defeats.                                   *)
(***************************************************************************)
AfterBridge(p) == IF command[p] = "launch" THEN "spawn" ELSE "exists"

CheckBridge(p) ==
  /\ pc[p] = "bridge"
  /\ IF bridge = "ready" THEN Proceed(p, AfterBridge(p))
     ELSE IF command[p] \in Daemon THEN Fail(p)
     ELSE Proceed(p, "install")
  /\ UNCHANGED <<world_vars, count_vars>>

InstallBridge(p) ==
  /\ pc[p] = "install"
  /\ IF bridge = "conflict"
     THEN Fail(p) /\ UNCHANGED bridge
     ELSE Proceed(p, AfterBridge(p)) /\ bridge' = "ready"
  /\ UNCHANGED <<file, winterd, user, raced, count_vars>>

\* background_launch_plan: winterd.exe, or this program without a window.
Spawn(p) ==
  /\ pc[p] = "spawn"
  /\ Goto(p, "begin")
  /\ command' = [command EXCEPT ![p] = IF winterd THEN "daemon_launch" ELSE "fallback"]
  /\ cfg' = [cfg EXCEPT ![p] = Absent]
  /\ UNCHANGED <<hidden, opened, outcome, handles, world_vars, count_vars>>

-----------------------------------------------------------------------------
(***************************************************************************)
(* The configuration: load_or_create, load and migrate_schema.             *)
(***************************************************************************)
AfterConfig(p, c) ==
  /\ cfg' = [cfg EXCEPT ![p] = c]
  /\ Goto(p, CASE command[p] = "launch" -> "bridge"
               [] command[p] \in Controller -> "acquire"
               [] OTHER -> "done")
  /\ UNCHANGED <<command, hidden, opened, outcome, handles>>

CheckExists(p) ==
  /\ pc[p] = "exists"
  /\ Proceed(p, IF file = Absent THEN "create" ELSE "read")
  /\ UNCHANGED <<world_vars, count_vars>>

\* Mutant of CreateConfig: committed with a rename, which replaces a file.
CreateByRename(p) ==
  /\ pc[p] = "create"
  /\ file' = DefaultConfig /\ AfterConfig(p, DefaultConfig)
  /\ UNCHANGED <<bridge, winterd, user, raced, count_vars>>

\* install_file_if_absent commits with a hard link, which an existing file
\* defeats; then that file is loaded.
CreateConfig(p) ==
  /\ pc[p] = "create"
  /\ IF file = Absent
     THEN file' = DefaultConfig /\ AfterConfig(p, DefaultConfig)
     ELSE Proceed(p, "read") /\ UNCHANGED file
  /\ UNCHANGED <<bridge, winterd, user, raced, count_vars>>

\* The file is read in one piece and parsed, validated and migrated in memory.
ReadConfig(p) ==
  /\ pc[p] = "read"
  /\ IF ~Loads(file) THEN Fail(p)
     ELSE IF NeedsMigration(file)
     THEN /\ cfg' = [cfg EXCEPT ![p] = Migrated(file)]
          /\ Goto(p, "write_back")
          /\ UNCHANGED <<command, hidden, opened, outcome, handles>>
     ELSE AfterConfig(p, file)
  /\ UNCHANGED <<world_vars, count_vars>>

\* replace_file_contents; a failure is a warning, the process goes on with the
\* migrated configuration in memory.
WriteBack(p) ==
  /\ pc[p] = "write_back"
  /\ file' \in {cfg[p], file}
  /\ AfterConfig(p, cfg[p])
  /\ UNCHANGED <<bridge, winterd, user, raced, count_vars>>

\* config and doctor have nothing left to do but print.
Finish(p) ==
  /\ pc[p] = "done"
  /\ Exit(p, "ok")
  /\ UNCHANGED <<world_vars, count_vars>>

-----------------------------------------------------------------------------
(***************************************************************************)
(* run_controller.                                                         *)
(***************************************************************************)

\* Mutant of Acquire: `let _ = SingleInstanceGuard::acquire()`, which drops the
\* guard in the same statement.
AcquireAndDrop(p) ==
  /\ pc[p] = "acquire"
  /\ Proceed(p, IF handles = {} THEN "launching" ELSE "denied")
  /\ UNCHANGED <<world_vars, count_vars>>

\* CreateMutexW: the caller gets a handle either way.  Its existence is the
\* lock, so a caller turned away holds the lock too until it drops the handle.
Acquire(p) ==
  /\ pc[p] = "acquire"
  /\ Goto(p, IF handles = {} THEN "launching" ELSE "denied")
  /\ handles' = handles \cup {p}
  /\ UNCHANGED <<command, hidden, cfg, opened, outcome, world_vars, count_vars>>

\* Mutant of Denied: every daemon turned away just ends.
DeniedQuietly(p) ==
  /\ pc[p] = "denied"
  /\ IF command[p] \notin Daemon THEN Fail(p) ELSE Exit(p, "ok")
  /\ UNCHANGED <<world_vars, count_vars>>

\* AlreadyRunning: the daemon opens the window it was asked for and is done, a
\* foreground run reports the error.
Denied(p) ==
  /\ pc[p] = "denied"
  /\ IF command[p] \notin Daemon THEN Fail(p)
     ELSE IF ShouldLaunch(p)
     THEN /\ handles' = handles \ {p}
          /\ Goto(p, "late_launch")
          /\ UNCHANGED <<command, hidden, cfg, opened, outcome>>
     ELSE Exit(p, "ok")
  /\ UNCHANGED <<world_vars, count_vars>>

\* launch_windows_terminal.
OpenWindow(p, next) ==
  \/ Fail(p)
  \/ /\ opened' = [opened EXCEPT ![p] = TRUE]
     /\ Goto(p, next)
     /\ UNCHANGED <<command, hidden, cfg, outcome, handles>>

\* The owner opens its window before its threads start.
LaunchTerminal(p) ==
  /\ pc[p] = "launching"
  /\ IF ShouldLaunch(p) THEN OpenWindow(p, "compile") ELSE Proceed(p, "compile")
  /\ UNCHANGED <<world_vars, count_vars>>

LateLaunch(p) ==
  /\ pc[p] = "late_launch"
  /\ OpenWindow(p, "done")
  /\ UNCHANGED <<world_vars, count_vars>>

\* The threads start, the key map is compiled, the hooks are installed; each
\* can fail, and the guard is dropped on the way out.
CompileAndHook(p) ==
  /\ pc[p] = "compile"
  /\ \/ cfg[p] \in CompilingConfig /\ Proceed(p, "running")
     \/ Fail(p)
  /\ UNCHANGED <<world_vars, count_vars>>

\* The shutdown shortcut: the threads are joined with the mutex still held.
Stop(p) ==
  /\ pc[p] = "running"
  /\ Proceed(p, "stopping")
  /\ disturbed' = TRUE
  /\ UNCHANGED <<world_vars, starts, changes>>

Stopped(p) ==
  /\ pc[p] = "stopping"
  /\ Exit(p, "ok") \/ Fail(p)
  /\ UNCHANGED <<world_vars, count_vars>>

-----------------------------------------------------------------------------
(***************************************************************************)
(* What happens to a process and behind its back.                          *)
(***************************************************************************)

\* A query, a file or a Windows call fails on the way to the mutex.
Fault(p) ==
  /\ pc[p] \in {"begin", "bridge", "install", "spawn", "exists", "create", "read", "acquire"}
  /\ Fail(p)
  /\ UNCHANGED <<world_vars, count_vars>>

\* A panic aborts the daemon after the hook has logged it.
Panic(p) ==
  /\ pc[p] \in {"compile", "running", "stopping"} /\ command[p] \in Daemon
  /\ Fail(p)
  /\ UNCHANGED <<world_vars, count_vars>>

Kill(p) ==
  /\ pc[p] # "free"
  /\ Exit(p, "silent")
  /\ disturbed' = TRUE
  /\ UNCHANGED <<world_vars, starts, changes>>

UserSaves(c) ==
  /\ changes < MaxChanges /\ c # file
  /\ changes' = changes + 1
  /\ file' = c /\ user' = c
  /\ raced' = \E p \in Slot : pc[p] = "write_back"
  /\ UNCHANGED <<process_vars, bridge, winterd, disturbed, starts>>

\* Settings edited by hand, a new Terminal channel, a claimed chord.
BridgeChanges(b) ==
  /\ changes < MaxChanges /\ b # bridge
  /\ changes' = changes + 1
  /\ bridge' = b
  /\ UNCHANGED <<process_vars, file, winterd, user, raced, disturbed, starts>>

Step(p) ==
  \/ Begin(p) \/ CheckBridge(p) \/ InstallBridge(p) \/ Spawn(p)
  \/ CheckExists(p) \/ CreateConfig(p) \/ ReadConfig(p) \/ WriteBack(p) \/ Finish(p)
  \/ Acquire(p) \/ Denied(p) \/ LaunchTerminal(p) \/ LateLaunch(p)
  \/ CompileAndHook(p) \/ Stopped(p)

Environment ==
  \/ \E p \in Slot : \/ \E k \in Kind : Start(p, k)
                     \/ Approve(p) \/ Dismiss(p) \/ Stop(p)
                     \/ Fault(p) \/ Panic(p) \/ Kill(p)
  \/ \E c \in Saves : UserSaves(c)
  \/ \E b \in {"ready", "missing", "conflict"} : BridgeChanges(b)

Next == (\E p \in Slot : Step(p)) \/ Environment

Spec == Init /\ [][Next]_vars

\* A process that can take a step is scheduled; nobody has to answer a prompt,
\* start, stop or change anything.
FairSpec == Spec /\ \A p \in Slot : WF_vars(Step(p))

-----------------------------------------------------------------------------
(***************************************************************************)
(* Properties.                                                             *)
(***************************************************************************)

Owner == {p \in Slot : pc[p] \in Owning}

\* Two controllers never run at once, from the first hook installed to the last
\* thread joined, whatever starts, stops, crashes and turned-away processes
\* do to the handles of the mutex (SingleInstanceGuard).
OneController == \A p, q \in Owner : p = q

\* What the user leaves in config.toml stays there, in its own words or with
\* only the schema version moved on; Winter writes a configuration of its own
\* only where there was none.  The one save it can lose is one made between
\* the read and the write-back of a migration (load_or_create, migrate_schema).
ConfigEditsSurvive ==
  \/ raced
  \/ file = user
  \/ IsConfig(user) /\ NeedsMigration(user) /\ file = Migrated(user)
  \/ user = Absent /\ file = DefaultConfig

\* The key map a running controller was started with: its prefix can be typed
\* into the terminal as a literal and is heard as itself; every enabled
\* shortcut dispatches its own action and shutdown is one of them; nothing
\* Windows owns is bound; and every action it can dispatch has one bridge
\* binding, on a chord no configuration can claim.
KeyMapIsSound(c) ==
  LET prefix == PrefixChordOf(c)
      bound == Bindings(c)
  IN /\ LogicalKeyForVk(VirtualKeyForLogicalKey(prefix.key)) = prefix.key
     /\ \A s \in EnabledSpecs(c) : bound[ConfiguredChord(c, s)] = s.action
     /\ \E chord \in DOMAIN bound : bound[chord] = Shutdown
     /\ \A chord \in DOMAIN bound \cup {prefix} :
          ~IsReservedSystemChord(chord) /\ chord.key \in LogicalKey \ {"escape"}
     /\ \A chord \in DOMAIN bound :
          bound[chord] # Shutdown =>
            \E b \in BindingForAction(bound[chord]) : BindingForAction(bound[chord]) = {b}

SoundConfigs == {c \in Config : IsValid(c) /\ KeyMapIsSound(c)}

RunningConfigIsSound == \A p \in Slot : pc[p] = "running" => cfg[p] \in SoundConfigs

Failed == \E p \in Slot : outcome[p] \in {"reported", "silent"}
Running == \E p \in Slot : pc[p] = "running"
Launching(p) == pc[p] = "begin" /\ command[p] = "launch"

\* `winter launch`, once elevated, ends with a controller running and, unless
\* winterd.exe is missing, a window open, or with a process that failed; a
\* launch never just evaporates between two that take each other for the one
\* that runs.  Stopping or killing a process voids the promise.
LaunchTakesEffect ==
  \A p \in Slot :
    /\ Launching(p) ~> (Running \/ Failed \/ disturbed)
    /\ Launching(p) ~> (opened[p] \/ ~winterd \/ Failed \/ disturbed)

\* ensure_bridge_ready: a genuine conflict fails loudly.  The code breaks it: the
\* elevated successor has no visible console to fail on.
ConflictFailsLoudly ==
  [][\A p \in Slot :
       pc[p] = "install" /\ bridge = "conflict" /\ pc'[p] = "free"
         => outcome'[p] = "reported" \/ disturbed']_vars

=============================================================================
