----------------------------- MODULE MCInstall -----------------------------
(***************************************************************************)
(* The three things Winter leaves on a machine, side by side: the settings *)
(* files and the fragment (Integration), the block in a shell profile      *)
(* (ShellProfile) and the logon task (Autostart).  They share no state and *)
(* no step of one reads what another writes, so a behaviour picks one part *)
(* and leaves the others in an initial state of theirs.                    *)
(***************************************************************************)
EXTENDS SettingsEditorCases, TLC

CONSTANTS
    Stable, Preview,                            \* the channels
    ProfileText, ProfileEdits, ProfileFaults,   \* bounds of ShellProfile
    Callers, TaskChanges, TaskFaults            \* callers and bounds of Autostart

TwoChannels == <<Stable, Preview>>
OneChannel == <<Stable>>                        \* for RecordedBackupsExist
Symmetry == Permutations(Callers)

VARIABLES
    part,      \* the part that moves
    profile, hosted, what, step, read, backup, report,
    profileEdits, profileFaults, own, lateEdit, seenEdit, original,
    task, pc, command, elevated, seen, result, changes, taskFaults,
    quiet, honest, current, declined

Profile == INSTANCE ShellProfile WITH
    MaxText <- ProfileText, MaxEdits <- ProfileEdits, MaxFaults <- ProfileFaults,
    disk <- profile, command <- what, at <- step, snap <- read, edits <- profileEdits,
    faults <- profileFaults, mine <- own, late <- lateEdit, touched <- seenEdit

\* The bounds are numbers; a profile that does not exist holds no text.
ASSUME TextAssumption ==
    /\ ProfileText \in Nat /\ ProfileEdits \in Nat /\ ProfileFaults \in Nat
    /\ None \notin Seq(Profile!Token)

Task == INSTANCE Autostart WITH
    MaxChanges <- TaskChanges, MaxFaults <- TaskFaults, faults <- taskFaults

\* How often others change the task and calls on it fail is bounded by numbers.
ASSUME TaskAssumption == TaskChanges \in Nat /\ TaskFaults \in Nat

profileVars == <<profile, hosted, what, step, read, backup, report, profileEdits,
                 profileFaults, own, lateEdit, seenEdit, original>>
taskVars == <<task, pc, command, elevated, seen, result, changes, taskFaults,
              quiet, honest, current, declined>>
InstallVars == <<part, vars, profileVars, taskVars>>

Starts(which, start, asleep) == IF part = which THEN start ELSE start /\ asleep

InstallInit ==
    /\ part \in {"settings", "profile", "task"}
    /\ Starts("settings", Init,
              disk[Manifest] = None /\ \A t \in Targets : disk[t].bound \in [Bindings -> {"absent"}])
    /\ Starts("profile", Profile!Init, profile = None /\ ~hosted)
    /\ Starts("task", Task!Init, task = Task!NoTask)

InstallNext ==
    \/ part = "settings" /\ Next /\ UNCHANGED <<part, profileVars, taskVars>>
    \/ part = "profile" /\ Profile!Next /\ UNCHANGED <<part, vars, taskVars>>
    \/ part = "task" /\ Task!Next /\ UNCHANGED <<part, vars, profileVars>>

InstallSpec == InstallInit /\ [][InstallNext]_InstallVars

-----------------------------------------------------------------------------
\* No command over a profile, failed or killed, loses what the user last wrote
\* in it (ShellProfile).
UserTextSurvives == Profile!UserTextSurvives

\* A shell command's report holds of the profile until the user touches it
\* (ShellProfile).
ReportIsTrue == Profile!ReportIsTrue

\* Removing a block gives back the text it was added to (ShellProfile).
Reversible == Profile!Reversible

\* A block the user edited is never removed, and replaced only after a backup
\* (ShellProfile).
EditedBlocksSurvive == Profile!EditedBlocksSurvive

\* A command on the logon task that nobody interfered with leaves what it
\* reports (Autostart).
QuietReportIsTrue == Task!QuietReportIsTrue

\* A task of somebody else is replaced only by a process that read something
\* different before (Autostart).
ForeignIsNotRead == Task!ForeignIsNotRead
=============================================================================
