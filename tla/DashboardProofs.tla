-------------------------- MODULE DashboardProofs --------------------------
(***************************************************************************)
(* Proofs about the two files between controller and pane, for every       *)
(* staleness limit and any number of states, commands, failing writes and  *)
(* killed controllers: a dashboard that is readable stays so, one shown as *)
(* live is recent, and no command is executed twice.                       *)
(***************************************************************************)
EXTENDS Dashboard, TLAPS

-----------------------------------------------------------------------------
(* The dashboard file *)

\* No state is younger than the clock, nor the last stop of a controller.
ClockInv ==
  /\ live \in Body
  /\ now \in 0..MaxTime /\ died \in 0..MaxTime /\ died <= now
  /\ observer \in {"stage", "staging", "rename"} => built \in State /\ built.at <= now

\* A file whose controller is gone is no younger than its end.
FileInv ==
  /\ observer = "rename" => staged = built
  /\ file \in State => IF Running THEN file.at <= now ELSE file.at <= died

DashboardInv == ClockInv /\ FileInv

LEMMA DashboardInit == Init => DashboardInv
BY DashboardAssumption DEF Init, DashboardInv, ClockInv, FileInv, Running, State

LEMMA DashboardStep == DashboardInv /\ [Next]_vars => DashboardInv'
<1> SUFFICES ASSUME ClockInv, FileInv, [Next]_vars PROVE ClockInv' /\ FileInv'
  BY DEF DashboardInv
<1> USE DashboardAssumption
<1>1. CASE NoPending \/ ReadCommand \/ RemoveCommand \/ ExecuteCommand \/ SkipPublish
  BY <1>1 DEF ClockInv, FileInv, Running, NoPending, ReadCommand, RemoveCommand, ExecuteCommand,
              SkipPublish, dashboard_vars, command_vars, clock_vars
<1>2. CASE BuildState
  <2>1. built' \in State /\ built'.at = now
    BY <1>2 DEF BuildState, State, ClockInv
  <2> QED BY <1>2, <2>1 DEF BuildState, ClockInv, FileInv, Running, clock_vars
<1>3. CASE BeginWrite \/ EndWrite \/ WriteFails
  BY <1>3 DEF BeginWrite, EndWrite, WriteFails, ClockInv, FileInv, Running, clock_vars
<1>4. CASE Replace
  BY <1>4 DEF Replace, ClockInv, FileInv, Running
<1>5. CASE StartController
  <2>1. file \in State => file.at \in Nat
    BY DEF State
  <2> QED BY <1>5, <2>1 DEF StartController, ClockInv, FileInv, Running, clock_vars
<1>6. CASE StopController \/ KillController
  BY <1>6 DEF StopController, KillController, ClockInv, FileInv, Running, dashboard_vars
<1>7. CASE Render \/ Activate \/ \E b \in Body : Change(b)
  BY <1>7 DEF Render, Activate, Change, ClockInv, FileInv, Running, dashboard_vars, clock_vars
<1>8. CASE Tick
  <2>1. file \in State => file.at \in Nat
    BY DEF State
  <2>2. observer \in {"stage", "staging", "rename"} => built.at \in Nat
    BY DEF State, ClockInv
  <2> QED BY <1>8, <2>1, <2>2 DEF Tick, ClockInv, FileInv, Running, dashboard_vars
<1>9. CASE UNCHANGED vars
  BY <1>9 DEF vars, ClockInv, FileInv, Running, dashboard_vars, clock_vars
<1> QED BY <1>1, <1>2, <1>3, <1>4, <1>5, <1>6, <1>7, <1>8, <1>9 DEF Next, ObserverPass

\* Once there is a dashboard the pane can read one at any moment until an
\* ordered stop, with writes that fail and controllers that are killed.
THEOREM SpecDashboardStaysReadable == Spec => DashboardStaysReadable
<1>1. DashboardInv /\ [Next]_vars =>
        [(file \in State) => (file' \in State \/ observer' = "down")]_vars
  BY DEF DashboardInv, ClockInv, FileInv, Next, ObserverPass, NoPending, ReadCommand, RemoveCommand,
         ExecuteCommand, SkipPublish, BuildState, BeginWrite, EndWrite, Replace, WriteFails,
         StartController, StopController, KillController, Render, Activate, Change, Tick,
         dashboard_vars
<1> QED BY <1>1, DashboardInit, DashboardStep, PTL DEF Spec, DashboardStaysReadable

\* A dashboard shown as live is never older than the limit: a controller that
\* is gone was running that recently.
THEOREM SpecLiveIsRecent == Spec => LiveIsRecent
<1>1. DashboardInv /\ [Next]_vars =>
        [ui' # ui /\ ~ui'.offline => Running \/ now - died <= StaleAfter]_vars
  <2> SUFFICES ASSUME DashboardInv, Next, ui' # ui, ~ui'.offline, ~Running
               PROVE  now - died <= StaleAfter
    OBVIOUS
  <2>1. Render
    BY DEF Next, ObserverPass, NoPending, ReadCommand, RemoveCommand,
         ExecuteCommand, SkipPublish, BuildState, BeginWrite, EndWrite, Replace, WriteFails,
         StartController, StopController, KillController, Activate, Change, Tick
  <2>2. ~IsOffline(file)
    BY <2>1 DEF Render
  <2>3. file \in State /\ now - file.at <= StaleAfter
    <3>1. file.at \in Nat /\ StaleAfter \in Nat /\ now \in Nat
      BY <2>2, DashboardAssumption DEF IsOffline, State, DashboardInv, ClockInv
    <3> QED BY <3>1, <2>2 DEF IsOffline
  <2>4. file.at <= died /\ file.at \in Nat
    BY <2>3 DEF DashboardInv, FileInv, State
  <2> QED BY <2>3, <2>4, DashboardAssumption DEF DashboardInv, ClockInv
<1> QED BY <1>1, DashboardInit, DashboardStep, PTL DEF Spec, LiveIsRecent

-----------------------------------------------------------------------------
(* The command file *)

Unexecuted(c) == c \in 1..given /\ executed[c] = 0

\* A command on its way has not been executed, and one that arrived while its
\* forerunner was executing is another.
CommandInv ==
  /\ given \in 0..MaxCommands
  /\ executed \in [CommandId -> Nat]
  /\ \A c \in CommandId : executed[c] <= 1 /\ (c > given => executed[c] = 0)
  /\ command # NoFile => Unexecuted(command)
  /\ observer \in {"read", "taken"} => Unexecuted(taken)
  /\ observer = "taken" /\ command # NoFile => command > taken

LEMMA CommandStep ==
  ASSUME ~RemoveFails
  PROVE  CommandInv /\ [Next]_vars => CommandInv'
<1> SUFFICES ASSUME CommandInv, [Next]_vars PROVE CommandInv'
  OBVIOUS
<1> USE DashboardAssumption DEF CommandInv, Unexecuted, CommandId
<1>1. CASE NoPending
  BY <1>1 DEF NoPending, command_vars
<1>2. CASE ReadCommand
  BY <1>2 DEF ReadCommand
<1>3. CASE RemoveCommand
  BY <1>3 DEF RemoveCommand, Removed
<1>4. CASE ExecuteCommand
  <2>1. taken \in CommandId /\ executed[taken] = 0 /\ taken <= given
    BY <1>4 DEF ExecuteCommand
  <2>2. command # NoFile => command # taken
    BY <1>4, <2>1 DEF ExecuteCommand
  <2> QED BY <1>4, <2>1, <2>2 DEF ExecuteCommand, Executed
<1>5. CASE SkipPublish \/ BuildState \/ BeginWrite \/ EndWrite \/ Replace \/ WriteFails
  BY <1>5 DEF SkipPublish, BuildState, BeginWrite, EndWrite, Replace, WriteFails, command_vars
<1>6. CASE StartController
  BY <1>6 DEF StartController, command_vars
<1>7. CASE StopController \/ KillController
  BY <1>7 DEF StopController, KillController
<1>8. CASE Render \/ Tick \/ \E b \in Body : Change(b)
  BY <1>8 DEF Render, Tick, Change, command_vars
<1>9. CASE Activate
  BY <1>9 DEF Activate
<1>10. CASE UNCHANGED vars
  BY <1>10 DEF vars, command_vars
<1> QED BY <1>1, <1>2, <1>3, <1>4, <1>5, <1>6, <1>7, <1>8, <1>9, <1>10 DEF Next, ObserverPass

\* While removals succeed, no command is executed twice, whatever the pane
\* writes between the read and the removal and wherever the controller dies.
THEOREM SpecAtMostOnce ==
  ASSUME ~RemoveFails
  PROVE  Spec => []AtMostOnce
<1>1. Init => CommandInv
  BY DashboardAssumption DEF Init, CommandInv, CommandId
<1>2. CommandInv => AtMostOnce
  BY DEF CommandInv, AtMostOnce
<1> QED BY <1>1, <1>2, CommandStep, PTL DEF Spec

-----------------------------------------------------------------------------
(* Types *)

\* Whatever fails and whoever is killed, a file is absent, torn or a whole state,
\* what the pane shows is one it can have read, and a command is one that was given.
THEOREM SpecTypeOK == Spec => []TypeOK
<1>1. Init => TypeOK
  <2> SUFFICES ASSUME Init PROVE TypeOK
    OBVIOUS
  <2>1. executed \in [CommandId -> Nat]
    BY DEF Init
  <2>2. ui \in [state: State \cup {NoFile}, offline: BOOLEAN]
    BY DEF Init
  <2>3. polled \in BOOLEAN
    BY Zenon DEF Init
  <2> QED BY <2>1, <2>2, <2>3, DashboardAssumption DEF Init, TypeOK, Step
<1>2. ClockInv /\ TypeOK /\ [Next]_vars => TypeOK'
  <2> SUFFICES ASSUME ClockInv, TypeOK, [Next]_vars PROVE TypeOK'
    OBVIOUS
  <2> USE DashboardAssumption DEF TypeOK, Step
  <2>1. CASE NoPending \/ ReadCommand \/ RemoveCommand
    BY <2>1 DEF NoPending, ReadCommand, RemoveCommand, Removed, dashboard_vars, command_vars, clock_vars
  <2>2. CASE ExecuteCommand
    <3>1. executed' \in [CommandId -> Nat]
      BY <2>2 DEF ExecuteCommand, Executed
    <3> QED BY <2>2, <3>1 DEF ExecuteCommand, dashboard_vars, clock_vars
  <2>3. CASE SkipPublish \/ BeginWrite \/ EndWrite \/ WriteFails
    BY <2>3 DEF SkipPublish, BeginWrite, EndWrite, WriteFails, ClockInv, dashboard_vars, command_vars,
                clock_vars
  <2>4. CASE BuildState
    <3>1. built' \in State
      BY <2>4 DEF BuildState, State, ClockInv
    <3> QED BY <2>4, <3>1 DEF BuildState, command_vars, clock_vars
  <2>5. CASE Replace
    <3>1. built.body \in Body
      BY <2>5 DEF Replace, State, ClockInv
    <3> QED BY <2>5, <3>1 DEF Replace, command_vars
  <2>6. CASE StartController \/ StopController \/ KillController
    BY <2>6 DEF StartController, StopController, KillController, dashboard_vars, command_vars, clock_vars
  <2>7. CASE Render
    BY <2>7 DEF Render, IsOffline, dashboard_vars, command_vars, clock_vars
  <2>8. CASE Activate
    <3>1. given + 1 \in CommandId /\ given + 1 \in 0..MaxCommands
      BY <2>8 DEF Activate, CommandId
    <3> QED BY <2>8, <3>1 DEF Activate, dashboard_vars, clock_vars
  <2>9. CASE Tick
    <3>1. polled' \in BOOLEAN
      BY <2>9, Zenon DEF Tick
    <3> QED BY <2>9, <3>1 DEF Tick, dashboard_vars, command_vars
  <2>10. CASE UNCHANGED vars \/ \E b \in Body : Change(b)
    BY <2>10 DEF vars, Change, dashboard_vars, command_vars, clock_vars
  <2> QED BY <2>1, <2>2, <2>3, <2>4, <2>5, <2>6, <2>7, <2>8, <2>9, <2>10 DEF Next, ObserverPass
<1>3. DashboardInv => ClockInv
  BY DEF DashboardInv
<1> QED BY <1>1, <1>2, <1>3, DashboardInit, DashboardStep, PTL DEF Spec

=============================================================================
