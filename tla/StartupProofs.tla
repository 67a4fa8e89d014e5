---------------------------- MODULE StartupProofs ----------------------------
(***************************************************************************)
(* Proofs about Startup for any number of processes, starts and changes,   *)
(* any contents of config.toml and any commands.  After them, about what   *)
(* an install runs first, LegacyMigration: its record and the              *)
(* configuration it carries over, for any number of commands and faults.   *)
(***************************************************************************)
EXTENDS Startup, LegacyMigration, SequenceTheorems, WellFoundedInduction, TLAPS

(***************************************************************************)
(* The mutex.  A handle is held by every process past CreateMutexW, the    *)
(* ones turned away included; only who found none becomes an owner.        *)
(***************************************************************************)
MutexInv ==
  /\ DOMAIN pc = Slot
  /\ \A p \in Slot : pc[p] \in Owning \cup {"denied"} => p \in handles
  /\ OneController

\* What a step of process p may do to the mutex: nobody else moves or loses a
\* handle, and p gets into the owned part only from inside it or with the mutex
\* free, staying in handles as long as it is past CreateMutexW.
MutexStep(p) ==
  /\ DOMAIN pc' = Slot
  /\ \A q \in Slot \ {p} : pc'[q] = pc[q] /\ (q \in handles => q \in handles')
  /\ pc'[p] \in Owning \cup {"denied"} => p \in handles'
  /\ pc'[p] \in Owning => pc[p] \in Owning \/ handles = {}

LEMMA MutexStepKeepsInv ==
  ASSUME MutexInv, NEW p \in Slot, MutexStep(p)
  PROVE  MutexInv'
<1>1. \A q \in Slot : pc'[q] \in Owning \cup {"denied"} => q \in handles'
  BY DEF MutexInv, MutexStep
<1>2. ASSUME NEW q \in Slot, NEW r \in Slot, pc'[q] \in Owning, pc'[r] \in Owning
      PROVE  q = r
  <2>1. \A s \in Slot : pc'[s] \in Owning => s = p \/ pc[s] \in Owning
    BY DEF MutexStep
  <2>2. pc'[p] \in Owning /\ pc[p] \notin Owning => \A s \in Slot : pc[s] \notin Owning
    BY DEF MutexStep, MutexInv
  <2>. QED
    BY <1>2, <2>1, <2>2 DEF MutexInv, OneController, Owner
<1>. QED
  BY <1>1, <1>2 DEF MutexInv, MutexStep, OneController, Owner

LEMMA ExitIsMutexStep ==
  ASSUME MutexInv, NEW p \in Slot, NEW how, Exit(p, how)
  PROVE  MutexStep(p)
BY DEF MutexInv, Exit, Goto, MutexStep, Owning

LEMMA FailIsMutexStep ==
  ASSUME MutexInv, NEW p \in Slot, Fail(p)
  PROVE  MutexStep(p)
BY ExitIsMutexStep DEF Fail

\* A step to a place outside the mutex that leaves the handles alone.
LEMMA OutsideIsMutexStep ==
  ASSUME MutexInv, NEW p \in Slot, NEW at,
         at \notin Owning \cup {"denied"}, Goto(p, at), UNCHANGED handles
  PROVE  MutexStep(p)
BY DEF MutexInv, Goto, MutexStep

LEMMA InitMutexInv == Init => MutexInv
BY DEF Init, MutexInv, Owning, OneController, Owner

LEMMA AfterConfigIsMutexStep ==
  ASSUME MutexInv, NEW p \in Slot, NEW c, AfterConfig(p, c)
  PROVE  MutexStep(p)
<1>1. PICK at \in {"bridge", "acquire", "done"} : Goto(p, at)
  BY DEF AfterConfig
<1>. QED
  BY <1>1, OutsideIsMutexStep DEF AfterConfig, Owning

LEMMA StepIsMutexStep ==
  ASSUME MutexInv, NEW p \in Slot, Step(p)
  PROVE  MutexStep(p)
<1>1. CASE Begin(p)
  BY <1>1, ExitIsMutexStep, OutsideIsMutexStep DEF Begin, Proceed, Owning
<1>2. CASE CheckBridge(p)
  BY <1>2, FailIsMutexStep, OutsideIsMutexStep DEF CheckBridge, AfterBridge, Proceed, Owning
<1>3. CASE InstallBridge(p)
  BY <1>3, FailIsMutexStep, OutsideIsMutexStep DEF InstallBridge, AfterBridge, Proceed, Owning
<1>4. CASE Spawn(p)
  BY <1>4, OutsideIsMutexStep DEF Spawn, Owning
<1>5. CASE CheckExists(p)
  BY <1>5, OutsideIsMutexStep DEF CheckExists, Proceed, Owning
<1>6. CASE CreateConfig(p)
  BY <1>6, AfterConfigIsMutexStep, OutsideIsMutexStep DEF CreateConfig, Proceed, Owning
<1>7. CASE ReadConfig(p)
  BY <1>7, FailIsMutexStep, AfterConfigIsMutexStep, OutsideIsMutexStep DEF ReadConfig, Owning
<1>8. CASE WriteBack(p)
  BY <1>8, AfterConfigIsMutexStep DEF WriteBack
<1>9. CASE Finish(p)
  BY <1>9, ExitIsMutexStep DEF Finish
<1>10. CASE Acquire(p)
  BY <1>10 DEF Acquire, Goto, MutexStep, MutexInv, Owning
<1>11. CASE Denied(p)
  <2>1. CASE handles' = handles \ {p} /\ Goto(p, "late_launch")
    BY <2>1 DEF Goto, MutexStep, MutexInv, Owning
  <2>. QED
    BY <1>11, <2>1, FailIsMutexStep, ExitIsMutexStep DEF Denied
<1>12. CASE LaunchTerminal(p)
  <2>1. CASE opened' = [opened EXCEPT ![p] = TRUE] /\ Goto(p, "compile") /\ UNCHANGED handles
    BY <1>12, <2>1 DEF LaunchTerminal, Goto, MutexStep, MutexInv, Owning
  <2>2. CASE Proceed(p, "compile")
    BY <1>12, <2>2 DEF LaunchTerminal, Proceed, Goto, MutexStep, MutexInv, Owning
  <2>. QED
    BY <1>12, <2>1, <2>2, FailIsMutexStep DEF LaunchTerminal, OpenWindow
<1>13. CASE LateLaunch(p)
  BY <1>13, FailIsMutexStep, OutsideIsMutexStep DEF LateLaunch, OpenWindow, Owning
<1>14. CASE CompileAndHook(p)
  BY <1>14, FailIsMutexStep DEF CompileAndHook, Proceed, Goto, MutexStep, MutexInv, Owning
<1>15. CASE Stopped(p)
  BY <1>15, FailIsMutexStep, ExitIsMutexStep DEF Stopped
<1>. QED
  BY <1>1, <1>2, <1>3, <1>4, <1>5, <1>6, <1>7, <1>8, <1>9, <1>10, <1>11,
     <1>12, <1>13, <1>14, <1>15 DEF Step

\* The environment starts, ends and kills processes, and nobody's mutex.
LEMMA NextKeepsMutexInv == MutexInv /\ [Next]_vars => MutexInv'
<1>. SUFFICES ASSUME MutexInv, [Next]_vars PROVE MutexInv'
  OBVIOUS
<1>1. CASE \E p \in Slot : Step(p)
  BY <1>1, StepIsMutexStep, MutexStepKeepsInv
<1>2. ASSUME NEW p \in Slot, NEW k \in Kind, Start(p, k) PROVE MutexInv'
  <2>1. PICK at \in {"begin", "prompt"} : Goto(p, at)
    BY <1>2 DEF Start
  <2>. QED
    BY <1>2, <2>1, OutsideIsMutexStep, MutexStepKeepsInv DEF Start, Owning
<1>3. ASSUME NEW p \in Slot, Approve(p) PROVE MutexInv'
  BY <1>3, OutsideIsMutexStep, MutexStepKeepsInv DEF Approve, Owning
<1>4. ASSUME NEW p \in Slot, Dismiss(p) \/ Fault(p) \/ Panic(p) PROVE MutexInv'
  BY <1>4, FailIsMutexStep, MutexStepKeepsInv DEF Dismiss, Fault, Panic
<1>5. ASSUME NEW p \in Slot, Stop(p) PROVE MutexInv'
  <2>1. MutexStep(p)
    BY <1>5 DEF Stop, Proceed, Goto, MutexStep, MutexInv, Owning
  <2>. QED
    BY <2>1, MutexStepKeepsInv
<1>6. ASSUME NEW p \in Slot, Kill(p) PROVE MutexInv'
  BY <1>6, ExitIsMutexStep, MutexStepKeepsInv DEF Kill
<1>7. CASE UNCHANGED <<pc, handles>>
  BY <1>7 DEF MutexInv, OneController, Owner
<1>8. ASSUME NEW c, UserSaves(c) PROVE MutexInv'
  BY <1>7, <1>8 DEF UserSaves, process_vars
<1>9. ASSUME NEW b, BridgeChanges(b) PROVE MutexInv'
  BY <1>7, <1>9 DEF BridgeChanges, process_vars
<1>10. CASE UNCHANGED vars
  BY <1>7, <1>10 DEF vars, process_vars
<1>. QED
  BY <1>1, <1>2, <1>3, <1>4, <1>5, <1>6, <1>8, <1>9, <1>10 DEF Next, Environment

\* At most one process owns the controller, however many are started: the one
\* that found no handle keeps its own for as long as it is inside.
THEOREM SpecOneController == Spec => []OneController
<1>1. MutexInv => OneController
  BY DEF MutexInv
<1>. QED
  BY InitMutexInv, NextKeepsMutexInv, <1>1, PTL DEF Spec

-----------------------------------------------------------------------------
(***************************************************************************)
(* The configuration file.  A pending write-back is the migrated form of   *)
(* what the user left, unless the user has saved since it was read.        *)
(***************************************************************************)
IsLegacy(c) == IsConfig(c) /\ NeedsMigration(c)

ConfigInv ==
  /\ DOMAIN pc = Slot /\ DOMAIN cfg = Slot
  /\ user \in Initial \cup Saves
  /\ ConfigEditsSurvive
  /\ \A p \in Slot :
       pc[p] = "write_back" => raced \/ (IsLegacy(user) /\ cfg[p] = Migrated(user))

\* A step that leaves the file and the user's history alone and makes nobody
\* else's write-back pending.
QuietStep(p) ==
  /\ UNCHANGED <<file, user, raced>>
  /\ DOMAIN pc' = Slot /\ DOMAIN cfg' = Slot
  /\ \A q \in Slot \ {p} : pc'[q] = pc[q] /\ cfg'[q] = cfg[q]
  /\ pc'[p] # "write_back"

LEMMA QuietStepKeepsConfigInv ==
  ASSUME ConfigInv, NEW p \in Slot, QuietStep(p)
  PROVE  ConfigInv'
BY DEF ConfigInv, QuietStep, ConfigEditsSurvive

\* A file that needs migrating is the user's own: what Winter writes does not.
LEMMA LegacyFileIsUsers ==
  ASSUME ConfigInv, ~raced, IsLegacy(file)
  PROVE  file = user
<1>1. ASSUME IsLegacy(user) PROVE ~NeedsMigration(Migrated(user))
  BY <1>1, ContentAssumption
     DEF ConfigInv, IsLegacy, NeedsMigration, Migrated,
         CONFIG_SCHEMA_VERSION, LEGACY_CONFIG_SCHEMA_VERSION
<1>2. ~NeedsMigration(DefaultConfig)
  BY DEF NeedsMigration, DefaultConfig, CONFIG_SCHEMA_VERSION, LEGACY_CONFIG_SCHEMA_VERSION
<1>. QED
  BY <1>1, <1>2 DEF ConfigInv, ConfigEditsSurvive, IsLegacy

LEMMA ExitIsQuiet ==
  ASSUME ConfigInv, NEW p \in Slot, NEW how, Exit(p, how), UNCHANGED <<file, user, raced>>
  PROVE  QuietStep(p)
BY DEF ConfigInv, Exit, Goto, QuietStep

LEMMA FailIsQuiet ==
  ASSUME ConfigInv, NEW p \in Slot, Fail(p), UNCHANGED <<file, user, raced>>
  PROVE  QuietStep(p)
BY ExitIsQuiet DEF Fail

LEMMA MoveIsQuiet ==
  ASSUME ConfigInv, NEW p \in Slot, NEW at, at # "write_back", Goto(p, at),
         UNCHANGED <<cfg, file, user, raced>>
  PROVE  QuietStep(p)
BY DEF ConfigInv, Goto, QuietStep

\* What AfterConfig does to the processes.
LEMMA AfterConfigMoves ==
  ASSUME ConfigInv, NEW p \in Slot, NEW c, AfterConfig(p, c)
  PROVE  /\ DOMAIN pc' = Slot /\ DOMAIN cfg' = Slot
         /\ \A q \in Slot \ {p} : pc'[q] = pc[q] /\ cfg'[q] = cfg[q]
         /\ pc'[p] # "write_back"
<1>1. PICK at \in {"bridge", "acquire", "done"} : Goto(p, at)
  BY DEF AfterConfig
<1>. QED
  BY <1>1 DEF AfterConfig, Goto, ConfigInv

LEMMA AfterConfigIsQuiet ==
  ASSUME ConfigInv, NEW p \in Slot, NEW c, AfterConfig(p, c), UNCHANGED <<file, user, raced>>
  PROVE  QuietStep(p)
BY AfterConfigMoves DEF QuietStep

LEMMA InitConfigInv == Init => ConfigInv
BY DEF Init, ConfigInv, ConfigEditsSurvive

\* Only where the user left no file is one created.
LEMMA CreateKeepsConfigInv ==
  ASSUME ConfigInv, NEW p \in Slot, CreateConfig(p)
  PROVE  ConfigInv'
<1>1. CASE file = Absent
  <2>1. /\ DOMAIN pc' = Slot /\ DOMAIN cfg' = Slot
        /\ \A q \in Slot \ {p} : pc'[q] = pc[q] /\ cfg'[q] = cfg[q]
        /\ pc'[p] # "write_back"
        /\ file' = DefaultConfig
    BY <1>1, AfterConfigMoves DEF CreateConfig
  <2>2. IsLegacy(user) => Migrated(user) # Absent
    BY ContentAssumption DEF ConfigInv, IsLegacy, IsConfig
  <2>3. raced \/ user = Absent
    BY <1>1, <2>2, ContentAssumption DEF ConfigInv, ConfigEditsSurvive, IsLegacy
  <2>4. ConfigEditsSurvive'
    BY <1>1, <2>1, <2>3 DEF ConfigEditsSurvive, CreateConfig
  <2>5. ~IsLegacy(user) \/ raced
    BY <2>3 DEF IsLegacy, IsConfig
  <2>. QED
    BY <1>1, <2>1, <2>4, <2>5 DEF ConfigInv, CreateConfig
<1>2. CASE file # Absent
  BY <1>2, MoveIsQuiet, QuietStepKeepsConfigInv DEF CreateConfig, Proceed
<1>. QED
  BY <1>1, <1>2

LEMMA ReadKeepsConfigInv ==
  ASSUME ConfigInv, NEW p \in Slot, ReadConfig(p)
  PROVE  ConfigInv'
<1>1. UNCHANGED <<file, user, raced>>
  BY DEF ReadConfig, world_vars
<1>2. CASE Loads(file) /\ NeedsMigration(file)
  <2>1. /\ DOMAIN pc' = Slot /\ DOMAIN cfg' = Slot
        /\ \A q \in Slot \ {p} : pc'[q] = pc[q] /\ cfg'[q] = cfg[q]
        /\ cfg'[p] = Migrated(file)
    BY <1>2 DEF ConfigInv, ReadConfig, Goto
  <2>2. raced \/ (IsLegacy(user) /\ file = user)
    BY <1>2, LegacyFileIsUsers DEF IsLegacy, Loads
  <2>. QED
    BY <1>1, <2>1, <2>2 DEF ConfigInv, ConfigEditsSurvive
<1>3. CASE ~Loads(file)
  BY <1>1, <1>3, FailIsQuiet, QuietStepKeepsConfigInv DEF ReadConfig
<1>4. CASE Loads(file) /\ ~NeedsMigration(file)
  BY <1>1, <1>4, AfterConfigIsQuiet, QuietStepKeepsConfigInv DEF ReadConfig
<1>. QED
  BY <1>2, <1>3, <1>4

LEMMA WriteBackKeepsConfigInv ==
  ASSUME ConfigInv, NEW p \in Slot, WriteBack(p)
  PROVE  ConfigInv'
<1>1. /\ DOMAIN pc' = Slot /\ DOMAIN cfg' = Slot
      /\ \A q \in Slot \ {p} : pc'[q] = pc[q] /\ cfg'[q] = cfg[q]
      /\ pc'[p] # "write_back"
  BY AfterConfigMoves DEF WriteBack
<1>2. ConfigEditsSurvive'
  BY DEF WriteBack, ConfigInv, ConfigEditsSurvive, IsLegacy
<1>. QED
  BY <1>1, <1>2 DEF ConfigInv, WriteBack

LEMMA StepKeepsConfigInv ==
  ASSUME ConfigInv, NEW p \in Slot, Step(p)
  PROVE  ConfigInv'
<1>. USE QuietStepKeepsConfigInv
<1>1. CASE Begin(p)
  BY <1>1, ExitIsQuiet, MoveIsQuiet DEF Begin, Proceed, world_vars
<1>2. CASE CheckBridge(p)
  BY <1>2, FailIsQuiet, MoveIsQuiet DEF CheckBridge, AfterBridge, Proceed, world_vars
<1>3. CASE InstallBridge(p)
  BY <1>3, FailIsQuiet, MoveIsQuiet DEF InstallBridge, AfterBridge, Proceed
<1>4. CASE Spawn(p)
  BY <1>4 DEF Spawn, Goto, QuietStep, ConfigInv, world_vars
<1>5. CASE CheckExists(p)
  BY <1>5, MoveIsQuiet DEF CheckExists, Proceed, world_vars
<1>6. CASE CreateConfig(p)
  BY <1>6, CreateKeepsConfigInv
<1>7. CASE ReadConfig(p)
  BY <1>7, ReadKeepsConfigInv
<1>8. CASE WriteBack(p)
  BY <1>8, WriteBackKeepsConfigInv
<1>9. CASE Finish(p)
  BY <1>9, ExitIsQuiet DEF Finish, world_vars
<1>10. CASE Acquire(p)
  BY <1>10, MoveIsQuiet DEF Acquire, world_vars
<1>11. CASE Denied(p)
  BY <1>11, FailIsQuiet, ExitIsQuiet, MoveIsQuiet DEF Denied, world_vars
<1>12. CASE LaunchTerminal(p)
  BY <1>12, FailIsQuiet, MoveIsQuiet DEF LaunchTerminal, OpenWindow, Proceed, world_vars
<1>13. CASE LateLaunch(p)
  BY <1>13, FailIsQuiet, MoveIsQuiet DEF LateLaunch, OpenWindow, world_vars
<1>14. CASE CompileAndHook(p)
  BY <1>14, FailIsQuiet, MoveIsQuiet DEF CompileAndHook, Proceed, world_vars
<1>15. CASE Stopped(p)
  BY <1>15, FailIsQuiet, ExitIsQuiet DEF Stopped, world_vars
<1>. QED
  BY <1>1, <1>2, <1>3, <1>4, <1>5, <1>6, <1>7, <1>8, <1>9, <1>10, <1>11,
     <1>12, <1>13, <1>14, <1>15 DEF Step

LEMMA NextKeepsConfigInv == ConfigInv /\ [Next]_vars => ConfigInv'
<1>. SUFFICES ASSUME ConfigInv, [Next]_vars PROVE ConfigInv'
  OBVIOUS
<1>. USE QuietStepKeepsConfigInv
<1>1. CASE \E p \in Slot : Step(p)
  BY <1>1, StepKeepsConfigInv
<1>2. ASSUME NEW p \in Slot, NEW k \in Kind, Start(p, k) PROVE ConfigInv'
  <2>1. PICK at \in {"begin", "prompt"} : Goto(p, at)
    BY <1>2 DEF Start
  <2>. QED
    BY <1>2, <2>1, MoveIsQuiet DEF Start, world_vars
<1>3. ASSUME NEW p \in Slot, Approve(p) \/ Stop(p) PROVE ConfigInv'
  BY <1>3, MoveIsQuiet DEF Approve, Stop, Proceed, world_vars
<1>4. ASSUME NEW p \in Slot, Dismiss(p) \/ Fault(p) \/ Panic(p) PROVE ConfigInv'
  BY <1>4, FailIsQuiet DEF Dismiss, Fault, Panic, world_vars
<1>5. ASSUME NEW p \in Slot, Kill(p) PROVE ConfigInv'
  BY <1>5, ExitIsQuiet DEF Kill, world_vars
<1>6. ASSUME NEW c \in Saves, UserSaves(c) PROVE ConfigInv'
  BY <1>6 DEF UserSaves, ConfigInv, ConfigEditsSurvive, process_vars
<1>7. CASE UNCHANGED <<pc, cfg, file, user, raced>>
  BY <1>7 DEF ConfigInv, ConfigEditsSurvive
<1>8. ASSUME NEW b, BridgeChanges(b) PROVE ConfigInv'
  BY <1>7, <1>8 DEF BridgeChanges, process_vars
<1>9. CASE UNCHANGED vars
  BY <1>7, <1>9 DEF vars, process_vars, world_vars
<1>. QED
  BY <1>1, <1>2, <1>3, <1>4, <1>5, <1>6, <1>8, <1>9 DEF Next, Environment

\* Whatever processes create, load and migrate the file, killed or not, the
\* user's configuration survives but for a save a write-back overtakes.
THEOREM SpecConfigEditsSurvive == Spec => []ConfigEditsSurvive
<1>1. ConfigInv => ConfigEditsSurvive
  BY DEF ConfigInv
<1>. QED
  BY InitConfigInv, NextKeepsConfigInv, <1>1, PTL DEF Spec

-----------------------------------------------------------------------------
(***************************************************************************)
(* The key map, for any registry.                                          *)
(***************************************************************************)

\* In every configuration that compiles, each enabled shortcut dispatches its
\* own action, and no chord bound, nor the prefix, is Escape or reserved.
THEOREM CompiledShortcutsDispatch ==
  ASSUME NEW c, Compiles(c)
  PROVE  /\ \A s \in EnabledSpecs(c) : Bindings(c)[ConfiguredChord(c, s)] = s.action
         /\ \A chord \in DOMAIN Bindings(c) \cup {PrefixChordOf(c)} : IsUsable(chord)
<1>1. ASSUME NEW s \in EnabledSpecs(c)
      PROVE  Bindings(c)[ConfiguredChord(c, s)] = s.action
  <2>. DEFINE t == CHOOSE u \in EnabledSpecs(c) : ConfiguredChord(c, u) = ConfiguredChord(c, s)
  <2>1. t \in EnabledSpecs(c) /\ ConfiguredChord(c, t) = ConfiguredChord(c, s)
    OBVIOUS
  <2>2. t = s
    BY <2>1 DEF Compiles, ChordsAreDistinct
  <2>. QED
    BY <2>2 DEF Bindings
<1>2. ASSUME NEW chord \in DOMAIN Bindings(c) PROVE IsUsable(chord)
  <2>1. PICK s \in EnabledSpecs(c) : chord = ConfiguredChord(c, s)
    BY DEF Bindings
  <2>2. PICK i \in DOMAIN shortcut_specs : s = shortcut_specs[i] /\ ~IsDisabled(c, s)
    BY DEF EnabledSpecs
  <2>. QED
    BY <2>1, <2>2 DEF Compiles
<1>. QED
  BY <1>1, <1>2 DEF Compiles

-----------------------------------------------------------------------------
(***************************************************************************)
(* What a running controller runs with.  A process gets to run only with a *)
(* configuration that compiled, and every one that compiles has a sound    *)
(* key map: that is a matter of the key table and the registry.            *)
(***************************************************************************)
RunningInv ==
  /\ DOMAIN pc = Slot /\ DOMAIN cfg = Slot
  /\ \A p \in Slot : pc[p] = "running" => cfg[p] \in CompilingConfig

\* A step of process p that does not take it to where controllers run.
Elsewhere(p) ==
  /\ DOMAIN pc' = Slot /\ DOMAIN cfg' = Slot
  /\ \A q \in Slot \ {p} : pc'[q] = pc[q] /\ cfg'[q] = cfg[q]
  /\ pc'[p] # "running"

LEMMA ElsewhereKeepsRunning ==
  ASSUME RunningInv, NEW p \in Slot, Elsewhere(p)
  PROVE  RunningInv'
BY DEF RunningInv, Elsewhere, CompilingConfig, Config

LEMMA ExitIsElsewhere ==
  ASSUME RunningInv, NEW p \in Slot, NEW how, Exit(p, how)
  PROVE  Elsewhere(p)
BY DEF RunningInv, Exit, Goto, Elsewhere

LEMMA FailIsElsewhere ==
  ASSUME RunningInv, NEW p \in Slot, Fail(p)
  PROVE  Elsewhere(p)
BY ExitIsElsewhere DEF Fail

LEMMA GotoIsElsewhere ==
  ASSUME RunningInv, NEW p \in Slot, NEW at, at # "running", Goto(p, at),
         cfg' = cfg \/ (\E c : cfg' = [cfg EXCEPT ![p] = c])
  PROVE  Elsewhere(p)
BY DEF RunningInv, Goto, Elsewhere

LEMMA AfterConfigIsElsewhere ==
  ASSUME RunningInv, NEW p \in Slot, NEW c, AfterConfig(p, c)
  PROVE  Elsewhere(p)
<1>1. PICK at \in {"bridge", "acquire", "done"} : Goto(p, at)
  BY DEF AfterConfig
<1>. QED
  BY <1>1, GotoIsElsewhere DEF AfterConfig

LEMMA StepKeepsRunning ==
  ASSUME RunningInv, NEW p \in Slot, Step(p)
  PROVE  RunningInv'
<1>1. CASE Begin(p) \/ CheckBridge(p) \/ InstallBridge(p)
  BY <1>1, ExitIsElsewhere, FailIsElsewhere, GotoIsElsewhere, ElsewhereKeepsRunning
  DEF Begin, CheckBridge, InstallBridge, AfterBridge, Proceed
<1>2. CASE Spawn(p)
  BY <1>2, GotoIsElsewhere, ElsewhereKeepsRunning DEF Spawn
<1>3. CASE CheckExists(p) \/ CreateConfig(p) \/ WriteBack(p) \/ Finish(p)
  BY <1>3, ExitIsElsewhere, AfterConfigIsElsewhere, GotoIsElsewhere, ElsewhereKeepsRunning
  DEF CheckExists, CreateConfig, WriteBack, Finish, Proceed
<1>4. CASE ReadConfig(p)
  BY <1>4, FailIsElsewhere, AfterConfigIsElsewhere, GotoIsElsewhere, ElsewhereKeepsRunning
  DEF ReadConfig
<1>5. CASE Acquire(p)
  BY <1>5, GotoIsElsewhere, ElsewhereKeepsRunning DEF Acquire
<1>6. CASE Denied(p)
  BY <1>6, ExitIsElsewhere, FailIsElsewhere, GotoIsElsewhere, ElsewhereKeepsRunning DEF Denied
<1>7. CASE LaunchTerminal(p) \/ LateLaunch(p)
  BY <1>7, FailIsElsewhere, GotoIsElsewhere, ElsewhereKeepsRunning
  DEF LaunchTerminal, LateLaunch, OpenWindow, Proceed
<1>8. CASE CompileAndHook(p)
  <2>1. CASE Fail(p)
    BY <2>1, FailIsElsewhere, ElsewhereKeepsRunning
  <2>2. CASE cfg[p] \in CompilingConfig /\ Proceed(p, "running")
    BY <2>2 DEF RunningInv, Proceed, Goto, CompilingConfig, Config
  <2>. QED
    BY <1>8, <2>1, <2>2 DEF CompileAndHook
<1>9. CASE Stopped(p)
  BY <1>9, ExitIsElsewhere, FailIsElsewhere, ElsewhereKeepsRunning DEF Stopped
<1>. QED
  BY <1>1, <1>2, <1>3, <1>4, <1>5, <1>6, <1>7, <1>8, <1>9 DEF Step

LEMMA NextKeepsRunning == RunningInv /\ [Next]_vars => RunningInv'
<1>. SUFFICES ASSUME RunningInv, [Next]_vars PROVE RunningInv'
  OBVIOUS
<1>1. ASSUME NEW p \in Slot, NEW k \in Kind, Start(p, k) PROVE RunningInv'
  <2>1. PICK at \in {"begin", "prompt"} : Goto(p, at)
    BY <1>1 DEF Start
  <2>. QED
    BY <1>1, <2>1, GotoIsElsewhere, ElsewhereKeepsRunning DEF Start
<1>2. ASSUME NEW p \in Slot, Approve(p) \/ Stop(p) PROVE RunningInv'
  BY <1>2, GotoIsElsewhere, ElsewhereKeepsRunning DEF Approve, Stop, Proceed
<1>3. ASSUME NEW p \in Slot, Dismiss(p) \/ Fault(p) \/ Panic(p) \/ Kill(p) PROVE RunningInv'
  BY <1>3, ExitIsElsewhere, FailIsElsewhere, ElsewhereKeepsRunning
  DEF Dismiss, Fault, Panic, Kill
<1>4. CASE UNCHANGED <<pc, cfg>>
  BY <1>4 DEF RunningInv, CompilingConfig, Config
<1>5. ASSUME NEW c, UserSaves(c) \/ BridgeChanges(c) PROVE RunningInv'
  BY <1>4, <1>5 DEF UserSaves, BridgeChanges, process_vars
<1>6. CASE UNCHANGED vars
  BY <1>4, <1>6 DEF vars, process_vars
<1>. QED
  BY <1>1, <1>2, <1>3, <1>5, <1>6, StepKeepsRunning DEF Next, Environment

\* Escape's own virtual key is in no row.
LEMMA RowsHaveOtherCodes == \A r \in KEY_DEFS : r.vk # VK_ESCAPE
<1>0. \A name, alias, code : Row(name, alias, code).vk = code
  BY DEF Row
<1>. USE <1>0 DEF VK_ESCAPE
<1>1. \A i \in DOMAIN Arrow : Row(Arrow[i], {}, 36 + i).vk # 27
  BY DEF Arrow
<1>2. \A i \in DOMAIN Function : Row(Function[i], {}, 111 + i).vk # 27
  BY DEF Function
<1>3. \A i \in DOMAIN Digit : Row(Digit[i], {}, 47 + i).vk # 27
  BY DEF Digit
<1>4. \A i \in DOMAIN Letter : Row(Letter[i], {}, 64 + i).vk # 27
  BY DEF Letter
<1>5. \A r \in Punctuation : r.vk # 27
  BY DEF Punctuation
<1>6. \A r \in {Row("escape", {"esc"}, NoVirtualKey), Row("tab", {}, 9), Row("space", {}, 32)} :
        r.vk # 27
  BY DEF NoVirtualKey
<1>. QED
  BY <1>1, <1>2, <1>3, <1>4, <1>5, <1>6 DEF KEY_DEFS

\* Injecting a key of the table and hearing it again gives the key.
LEMMA KeysRoundTrip ==
  ASSUME NEW k \in LogicalKey \ {"escape"}
  PROVE  LogicalKeyForVk(VirtualKeyForLogicalKey(k)) = k
<1>1. PICK r \in KEY_DEFS : r.canonical = k
  BY DEF LogicalKey
<1>2. {s \in KEY_DEFS : s.canonical = k} = {r}
  BY <1>1, TableAssumption DEF TableIsConsistent
<1>3. VirtualKeyForLogicalKey(k) = r.vk
  BY <1>2 DEF VirtualKeyForLogicalKey
<1>4. r.vk # NoVirtualKey
  BY <1>1, TableAssumption DEF TableIsConsistent
<1>5. {s \in KEY_DEFS : s.vk = r.vk /\ r.vk # NoVirtualKey} = {r}
  BY <1>1, <1>4, TableAssumption DEF TableIsConsistent
<1>. QED
  BY <1>1, <1>3, <1>5, RowsHaveOtherCodes DEF LogicalKeyForVk

\* The names of the table that other spellings stand for.
LEMMA SomeLogicalKeys ==
  /\ \A r \in Punctuation : r.canonical \in LogicalKey
  /\ \A i \in DOMAIN Arrow : Arrow[i] \in LogicalKey
  /\ \A i \in DOMAIN Function : Function[i] \in LogicalKey
  /\ \A i \in DOMAIN Digit : Digit[i] \in LogicalKey
  /\ \A i \in DOMAIN Letter : Letter[i] \in LogicalKey
<1>1. \A name, alias, code : Row(name, alias, code).canonical = name
  BY DEF Row
<1>. QED
  BY <1>1 DEF LogicalKey, KEY_DEFS

PunctuationName ==
  {"comma", "period", "semicolon", "slash", "backslash", "minus", "equals", "quote", "backtick",
   "left-bracket", "right-bracket"}

\* A character on its own stands for a key of the table.
LEMMA CharactersAreKeys == \A c \in SINGLE_CHAR_PUNCT : c.key \in LogicalKey
<1>1. PunctuationName \subseteq {r.canonical : r \in Punctuation}
  BY DEF Punctuation, Row, PunctuationName
<1>2. \A c \in SINGLE_CHAR_PUNCT : \E char : c \in {[char |-> char, key |-> k] : k \in PunctuationName}
  BY Zenon DEF SINGLE_CHAR_PUNCT, PunctuationName
<1>. QED
  BY <1>1, <1>2, SomeLogicalKeys

\* A name that parses is that of a row.
LEMMA ParsedNameIsLogical ==
  ASSUME NEW value, ParseKeyName(value) # NoKey
  PROVE  ParseKeyName(value) \in LogicalKey
<1>. DEFINE named == {r.canonical : r \in {s \in KEY_DEFS : value \in s.names}}
            loose == {f[2] : f \in {g \in LooseFunction : g[1] = value}}
            spelt == {c.key : c \in {d \in SINGLE_CHAR_PUNCT : d.char = value}}
<1>1. ParseKeyName(value) \in named \cup loose \cup spelt
  BY DEF ParseKeyName
<1>2. named \subseteq LogicalKey
  BY DEF LogicalKey
<1>3. spelt \subseteq LogicalKey
  BY CharactersAreKeys
<1>4. "f1" \in LogicalKey /\ "f4" \in LogicalKey /\ "f12" \in LogicalKey
  BY SomeLogicalKeys DEF Function
<1>5. loose \subseteq LogicalKey
  BY <1>4 DEF LooseFunction
<1>. QED
  BY <1>1, <1>2, <1>3, <1>5

LEMMA ParsedKeyIsLogical ==
  ASSUME NEW tokens, ParseChord(tokens) # NoChord
  PROVE  ParseChord(tokens).key \in LogicalKey
<1>. DEFINE keys == DOMAIN tokens \ ModifierTokens(tokens)
<1>1. PICK i \in keys : keys = {i} /\ ParseKeyName(tokens[i]) # NoKey
  BY DEF ParseChord
<1>2. ParseChord(tokens).key = ParseKeyName(tokens[CHOOSE j \in keys : TRUE])
  BY DEF ParseChord, MkChord
<1>3. (CHOOSE j \in keys : TRUE) = i
  BY <1>1
<1>. QED
  BY <1>1, <1>2, <1>3, ParsedNameIsLogical

\* A sequence of registry entries whose default chords are of keys in the table.
KeyedSeq(s) == \E S : s \in Seq(S) /\ \A e \in S : e.default_chord.key \in LogicalKey

LEMMA IsKeyed ==
  ASSUME NEW S, NEW s \in Seq(S), \A e \in S : e.default_chord.key \in LogicalKey
  PROVE  KeyedSeq(s)
BY DEF KeyedSeq

LEMMA ConcatIsKeyed ==
  ASSUME NEW s, NEW t, KeyedSeq(s), KeyedSeq(t)
  PROVE  KeyedSeq(s \o t)
<1>1. PICK S : s \in Seq(S) /\ \A e \in S : e.default_chord.key \in LogicalKey
  BY DEF KeyedSeq
<1>2. PICK T : t \in Seq(T) /\ \A e \in T : e.default_chord.key \in LogicalKey
  BY DEF KeyedSeq
<1>3. s \in Seq(S \cup T) /\ t \in Seq(S \cup T)
  BY <1>1, <1>2
<1>4. s \o t \in Seq(S \cup T)
  BY <1>3
<1>. QED
  BY <1>1, <1>2, <1>4 DEF KeyedSeq

LEMMA DirectedIsKeyed ==
  ASSUME NEW names, NEW mods, NEW kind
  PROVE  KeyedSeq(Directed(names, mods, kind))
<1>. DEFINE Entry4(i) == Entry(names[i], MkChord(mods, Direction[i]), Action(kind, Direction[i]))
            Entries == {Entry4(i) : i \in 1..4}
<1>1. DOMAIN Direction = 1..4
  BY DEF Direction
<1>2. \A i \in 1..4 : Direction[i] \in LogicalKey
  <2>1. "left" \in LogicalKey /\ "up" \in LogicalKey /\ "right" \in LogicalKey /\ "down" \in LogicalKey
    BY SomeLogicalKeys DEF Arrow
  <2>. QED
    BY <2>1 DEF Direction
<1>3. \A e \in Entries : e.default_chord.key \in LogicalKey
  BY <1>2 DEF Entry, MkChord
<1>. HIDE DEF Entry4
<1>4. [i \in 1..4 |-> Entry4(i)] \in Seq(Entries)
  OBVIOUS
<1>5. KeyedSeq([i \in 1..4 |-> Entry4(i)])
  BY <1>3, <1>4, IsKeyed
<1>. QED
  BY <1>1, <1>5 DEF Directed, Entry4

LEMMA TabEntriesAreKeyed == KeyedSeq(TabEntries)
<1>1. KeyedSeq(ActivateTabEntries)
  <2>. DEFINE Activate(i) == Entry(TabNames[i], MkChord({}, Digit[i]), Action("ActivateTab", Digit[i]))
              Entries == {Activate(i) : i \in 1..10}
  <2>1. DOMAIN TabNames = 1..10 /\ DOMAIN Digit = 1..10
    BY DEF TabNames, Digit
  <2>2. \A e \in Entries : e.default_chord.key \in LogicalKey
    BY <2>1, SomeLogicalKeys DEF Entry, MkChord
  <2>. HIDE DEF Activate
  <2>3. [i \in 1..10 |-> Activate(i)] \in Seq(Entries)
    OBVIOUS
  <2>. QED
    BY <2>1, <2>2, <2>3 DEF KeyedSeq, ActivateTabEntries, Activate
<1>2. \A name, kind : \A key \in LogicalKey : Plain(name, key, kind).default_chord.key \in LogicalKey
  BY DEF Plain, Entry, MkChord
<1>3. /\ "b" \in LogicalKey /\ "c" \in LogicalKey /\ "n" \in LogicalKey /\ "p" \in LogicalKey
      /\ "x" \in LogicalKey /\ "z" \in LogicalKey
  BY SomeLogicalKeys DEF Letter
<1>4. "comma" \in LogicalKey
  BY SomeLogicalKeys DEF Punctuation, Row
<1>5. ASSUME NEW a, NEW b, NEW c, NEW d,
             a.default_chord.key \in LogicalKey, b.default_chord.key \in LogicalKey,
             c.default_chord.key \in LogicalKey, d.default_chord.key \in LogicalKey
      PROVE  KeyedSeq(<<a, b, c, d>>) /\ KeyedSeq(<<a, b, c>>)
  <2>1. <<a, b, c, d>> \in Seq({a, b, c, d}) /\ <<a, b, c>> \in Seq({a, b, c, d})
    OBVIOUS
  <2>2. \A e \in {a, b, c, d} : e.default_chord.key \in LogicalKey
    BY <1>5
  <2>3. \A s \in Seq({a, b, c, d}) : KeyedSeq(s)
    BY <2>2, IsKeyed
  <2>. QED
    BY <2>1, <2>3, Zenon
<1>6. KeyedSeq(<<Plain("send_prefix_literal", "b", "SendPrefixLiteral"), Plain("new_tab", "c", "NewTab"),
                 Plain("next_tab", "n", "NextTab"), Plain("previous_tab", "p", "PreviousTab")>>)
  <2>1. /\ Plain("send_prefix_literal", "b", "SendPrefixLiteral").default_chord.key \in LogicalKey
        /\ Plain("new_tab", "c", "NewTab").default_chord.key \in LogicalKey
        /\ Plain("next_tab", "n", "NextTab").default_chord.key \in LogicalKey
        /\ Plain("previous_tab", "p", "PreviousTab").default_chord.key \in LogicalKey
    BY <1>2, <1>3, Zenon
  <2>. QED
    BY <1>5, <2>1, Zenon
<1>7. KeyedSeq(<<Plain("close_pane", "x", "ClosePane"), Plain("toggle_zoom", "z", "TogglePaneZoom"),
                 Plain("rename_tab", "comma", "RenameTab")>>)
  <2>1. /\ Plain("close_pane", "x", "ClosePane").default_chord.key \in LogicalKey
        /\ Plain("toggle_zoom", "z", "TogglePaneZoom").default_chord.key \in LogicalKey
        /\ Plain("rename_tab", "comma", "RenameTab").default_chord.key \in LogicalKey
    BY <1>2, <1>3, <1>4, Zenon
  <2>. QED
    BY <1>5, <2>1, Zenon
<1>. QED
  BY <1>1, <1>6, <1>7, ConcatIsKeyed DEF TabEntries

LEMMA DefaultKeysAreLogical ==
  \A i \in DOMAIN Actions : Actions[i].default_chord.key \in LogicalKey
<1>1. KeyedSeq(PaneEntries)
  BY DirectedIsKeyed, ConcatIsKeyed DEF PaneEntries
<1>2. KeyedSeq(<<Entry("shutdown", MkChord({}, "q"), Shutdown)>>)
  <2>. DEFINE entry == Entry("shutdown", MkChord({}, "q"), Shutdown)
  <2>1. "q" \in LogicalKey
    BY SomeLogicalKeys DEF Letter
  <2>2. entry.default_chord.key \in LogicalKey
    BY <2>1 DEF Entry, MkChord
  <2>. HIDE DEF entry
  <2>3. <<entry>> \in Seq({entry})
    OBVIOUS
  <2>. QED
    <3>1. \A s \in Seq({entry}) : KeyedSeq(s)
      BY <2>2, IsKeyed
    <3>2. KeyedSeq(<<entry>>)
      BY <2>3, <3>1, Zenon
    <3>. QED
      BY <3>2, Zenon DEF entry
<1>3. KeyedSeq(Actions)
  BY <1>1, <1>2, TabEntriesAreKeyed, ConcatIsKeyed DEF Actions
<1>. QED
  BY <1>3 DEF KeyedSeq

\* A shortcut spec is an entry of the registry, and every entry is one.
LEMMA SpecsAreEntries ==
  /\ \A i \in DOMAIN shortcut_specs : \E j \in DOMAIN Actions : shortcut_specs[i] = Actions[j]
  /\ \A j \in DOMAIN Actions : \E i \in DOMAIN shortcut_specs : shortcut_specs[i] = Actions[j]
<1>1. {SPEC_ORDER[i] : i \in DOMAIN SPEC_ORDER} = DOMAIN Actions
  BY RegistryAssumption DEF RegistryIsConsistent
<1>2. shortcut_specs = [i \in DOMAIN SPEC_ORDER |-> Actions[SPEC_ORDER[i]]]
  BY DEF shortcut_specs
<1>. HIDE DEF SPEC_ORDER, Actions, shortcut_specs
<1>. QED
  BY <1>1, <1>2

\* The keys of the prefix and of every chord bound are in the table, and not Escape.
LEMMA KeysAreLogical ==
  ASSUME NEW c, Compiles(c), NEW chord \in DOMAIN Bindings(c) \cup {PrefixChordOf(c)}
  PROVE  chord.key \in LogicalKey \ {"escape"} /\ ~IsReservedSystemChord(chord)
<1>1. IsUsable(chord)
  BY CompiledShortcutsDispatch
<1>2. chord # NoChord /\ chord.key # "escape" /\ ~IsReservedSystemChord(chord)
  BY <1>1 DEF IsUsable
<1>3. CASE chord = PrefixChordOf(c)
  BY <1>2, <1>3, ParsedKeyIsLogical DEF PrefixChordOf
<1>4. CASE chord \in DOMAIN Bindings(c)
  <2>1. PICK s \in EnabledSpecs(c) : chord = ConfiguredChord(c, s)
    BY <1>4 DEF Bindings
  <2>2. PICK i \in DOMAIN shortcut_specs : s = shortcut_specs[i]
    BY DEF EnabledSpecs
  <2>3. s.default_chord.key \in LogicalKey
    BY <2>2, SpecsAreEntries, DefaultKeysAreLogical
  <2>. QED
    BY <1>2, <2>1, <2>3, ParsedKeyIsLogical DEF ConfiguredChord
<1>. QED
  BY <1>3, <1>4

\* Shutdown is bound whatever the configuration disables.
LEMMA ShutdownIsBound ==
  ASSUME NEW c, Compiles(c)
  PROVE  \E chord \in DOMAIN Bindings(c) : Bindings(c)[chord] = Shutdown
<1>1. PICK j \in DOMAIN Actions : IsShutdown(Actions[j])
  BY RegistryAssumption DEF RegistryIsConsistent, Managed
<1>2. PICK i \in DOMAIN shortcut_specs : shortcut_specs[i] = Actions[j]
  BY SpecsAreEntries
<1>. DEFINE s == shortcut_specs[i]
<1>3. s.action = Shutdown
  BY <1>1, <1>2 DEF IsShutdown
<1>4. ~IsDisabled(c, s)
  BY <1>3 DEF Compiles, AllowDisabled, IsShutdown
<1>5. s \in EnabledSpecs(c)
  BY <1>4 DEF EnabledSpecs
<1>6. Bindings(c)[ConfiguredChord(c, s)] = Shutdown
  BY <1>3, <1>5, CompiledShortcutsDispatch
<1>7. ConfiguredChord(c, s) \in DOMAIN Bindings(c)
  BY <1>5 DEF Bindings
<1>. QED
  BY <1>6, <1>7

\* Every action bound but shutdown has one managed binding in Windows Terminal.
LEMMA ActionsAreManaged ==
  ASSUME NEW c, Compiles(c), NEW chord \in DOMAIN Bindings(c), Bindings(c)[chord] # Shutdown
  PROVE  \E b \in BindingForAction(Bindings(c)[chord]) :
           BindingForAction(Bindings(c)[chord]) = {b}
<1>1. PICK s \in EnabledSpecs(c) : chord = ConfiguredChord(c, s)
  BY DEF Bindings
<1>2. Bindings(c)[chord] = s.action
  BY <1>1, CompiledShortcutsDispatch
<1>3. PICK i \in DOMAIN shortcut_specs : s = shortcut_specs[i]
  BY DEF EnabledSpecs
<1>4. PICK j \in DOMAIN Actions : s = Actions[j]
  BY <1>3, SpecsAreEntries
<1>5. j \in Managed
  BY <1>2, <1>4 DEF Managed, IsShutdown
<1>6. /\ DOMAIN managed_bindings = Managed
      /\ \A i1 \in Managed : managed_bindings[i1].action = Actions[i1].action
  BY DEF managed_bindings
<1>7. \A i1, i2 \in Managed :
        managed_bindings[i1].action = managed_bindings[i2].action => i1 = i2
  <2>1. Injective([i1 \in Managed |-> managed_bindings[i1].action])
    BY RegistryAssumption DEF RegistryIsConsistent
  <2>. QED
    BY <2>1 DEF Injective
<1>8. BindingForAction(s.action) = {managed_bindings[j]}
  BY <1>4, <1>5, <1>6, <1>7 DEF BindingForAction
<1>. QED
  BY <1>2, <1>8

\* For any content of config.toml: what compiles is sound.
THEOREM CompiledKeyMapIsSound ==
  ASSUME NEW c, Compiles(c)
  PROVE  KeyMapIsSound(c)
<1>1. PrefixChordOf(c).key \in LogicalKey \ {"escape"}
  BY KeysAreLogical
<1>2. LogicalKeyForVk(VirtualKeyForLogicalKey(PrefixChordOf(c).key)) = PrefixChordOf(c).key
  BY <1>1, KeysRoundTrip
<1>. QED
  BY <1>2, CompiledShortcutsDispatch, KeysAreLogical, ShutdownIsBound, ActionsAreManaged
  DEF KeyMapIsSound

\* A controller runs only with a configuration that was valid, and whose key map can be
\* typed, dispatches every enabled shortcut, can be shut down and claims nothing of
\* Windows's: whatever users save to the file, and whenever.
THEOREM SpecRunningConfigIsSound == Spec => []RunningConfigIsSound
<1>1. Init => RunningInv
  BY DEF Init, RunningInv
<1>2. CompilingConfig \subseteq SoundConfigs
  BY CompiledKeyMapIsSound DEF CompilingConfig, SoundConfigs, Compiles
<1>3. RunningInv => RunningConfigIsSound
  BY <1>2 DEF RunningInv, RunningConfigIsSound
<1>. QED
  BY <1>1, <1>3, NextKeepsRunning, PTL DEF Spec

-----------------------------------------------------------------------------
(* The steps a command may have to do, and those it has still to do. *)

AnyStep ==
  Items("record", {"fragment"} \cup Targets) \cup Items("fragment", Names)
    \cup Items("sweep", Targets) \cup Items("shell", Shells \X Pairs)
    \cup Items("verdict", {"profiles"}) \cup Items("config", {"config"})
    \cup Items("tree", Names) \cup Items("folder", Names)

StepsInv ==
  /\ todo \subseteq AnyStep
  /\ \A step \in todo : step.kind = "tree" => dirs[step.on] # None

\* Whatever a sweep or a removal has still to do is done first.
SweptInv ==
  todo # {} =>
     /\ \A t \in Targets : settings[t] = {} \/ [kind |-> "sweep", on |-> t] \in todo
     /\ \A n \in Names \ unread :
          \/ fragments[n] \notin {"recorded", "edited"}
          \/ [kind |-> "fragment", on |-> n] \in todo

\* The configuration is carried before anything it could come from is removed.
CarriedInv ==
  todo # {} /\ ~discards =>
     \/ [kind |-> "config", on |-> "config"] \in todo
     \/ config # "absent"
     \/ \A n \in Names : ~Has(dirs[n], "config")

LegacyInv == MigrationTypeOK /\ StepsInv /\ SweptInv /\ CarriedInv
               /\ RecordOutlivesItsEntries /\ ConfigIsSomewhere

LEMMA StepKinds ==
  ASSUME NEW step \in AnyStep
  PROVE  /\ step = [kind |-> step.kind, on |-> step.on]
         /\ step.kind \in DOMAIN Stage
         /\ step.kind = "record" => step.on \in {"fragment"} \cup Targets
         /\ step.kind \in {"fragment", "tree", "folder"} => step.on \in Names
         /\ step.kind = "sweep" => step.on \in Targets
         /\ step.kind = "shell" => step.on \in Shells \X Pairs
         /\ step.kind = "config" => step.on = "config"
BY DEF AnyStep, Items, Stage

\* When it is the turn of a directory, everything is swept and carried.
LEMMA TreesComeLast ==
  ASSUME StepsInv, NEW step \in todo, First(step), step.kind = "tree",
         NEW other \in todo
  PROVE  other.kind \notin {"sweep", "fragment", "config"}
<1>1. SUFFICES ASSUME other.kind \in {"sweep", "fragment", "config"} PROVE FALSE
  OBVIOUS
<1>2. other # step
  BY <1>1
<1>3. Stage[step.kind] < Stage[other.kind]
  BY <1>1, <1>2 DEF First
<1> QED
  BY <1>1, <1>3 DEF Stage

LEMMA LeastPlace ==
  ASSUME NEW T, T \subseteq Nat, T # {}
  PROVE  \E x \in T : \A y \in T : x <= y
<1>1. PICK x \in T : \A y \in T : ~(<<y, x>> \in OpToRel(<, Nat))
  BY WFMin, NatLessThanWellFounded
<1>2. ASSUME NEW y \in T PROVE ~(y < x)
  BY <1>1, Zenon DEF OpToRel
<1> QED
  BY <1>2

\* The manifest found is one that is there.
LEMMA ManifestIsFound ==
  FoundManifest # None => FoundManifest \in Names /\ Has(dirs[FoundManifest], "manifest")
<1> DEFINE with == {n \in Names : Has(dirs[n], "manifest")}
           isFirst(n) == \A m \in with \ {n} : Precedes(NameOrder, n, m)
           places == {i \in DOMAIN NameOrder : NameOrder[i] \in with}
<1> SUFFICES ASSUME FoundManifest # None PROVE FoundManifest \in with
  OBVIOUS
<1>1. with # {} /\ FoundManifest = CHOOSE n \in with : isFirst(n)
  BY DEF FoundManifest
<1>2. places \subseteq Nat /\ places # {}
  BY <1>1, LegacyAssumption DEF LegacyAssumption, Names, Range
<1>3. PICK i \in places : \A j \in places : i <= j
  BY <1>2, LeastPlace
<1>4. isFirst(NameOrder[i])
  <2> SUFFICES ASSUME NEW m \in with \ {NameOrder[i]} PROVE Precedes(NameOrder, NameOrder[i], m)
    OBVIOUS
  <2>1. PICK j \in DOMAIN NameOrder : NameOrder[j] = m
    BY DEF Names, Range
  <2>2. j \in places /\ j # i
    BY <2>1
  <2>3. i < j
    BY <1>2, <1>3, <2>2
  <2> QED
    BY <2>1, <2>3 DEF Precedes
<1> QED
  BY <1>1, <1>4

-----------------------------------------------------------------------------
(* Each step *)

TypeOfStep == MigrationTypeOK /\ StepsInv

LEMMA InitLegacy == MigrationInit => LegacyInv
<1> SUFFICES ASSUME MigrationInit PROVE LegacyInv
  OBVIOUS
<1>1. MigrationTypeOK
  <2>1. discards \in BOOLEAN /\ broken \in BOOLEAN /\ settled \in BOOLEAN
    BY Zenon DEF MigrationInit
  <2>2. {discards, broken, settled} \subseteq BOOLEAN
    BY <2>1
  <2> QED
    BY <2>2, LegacyAssumption DEF LegacyAssumption, MigrationInit, MigrationTypeOK
<1> QED
  BY <1>1 DEF MigrationInit, LegacyInv, StepsInv, SweptInv, CarriedInv, RecordOutlivesItsEntries,
              ConfigIsSomewhere

LEMMA DetectKeeps ==
  ASSUME LegacyInv, NEW carry \in BOOLEAN, Detect(carry)
  PROVE  LegacyInv'
<1>1. MigrationTypeOK'
  <2>1. discards' \in BOOLEAN /\ broken' \in BOOLEAN /\ settled' \in BOOLEAN
    BY DEF LegacyInv, MigrationTypeOK, Detect
  <2>2. manifest' \in {None} \cup {n \in Names : Has(initial[n], "manifest")}
    BY ManifestIsFound DEF LegacyInv, MigrationTypeOK, Detect, Files
  <2> QED
    BY <2>1, <2>2, LegacyAssumption DEF LegacyAssumption, LegacyInv, MigrationTypeOK, Detect, artifacts
<1>2. StepsInv'
  BY DEF LegacyInv, MigrationTypeOK, StepsInv, Detect, Steps, AnyStep, Items, FoundDirs,
         FoundFragments, artifacts
<1>3. SweptInv'
  BY DEF LegacyInv, MigrationTypeOK, SweptInv, Detect, Steps, Items, FoundFragments, artifacts
<1>4. CarriedInv'
  BY DEF CarriedInv, Detect, Steps, Items
<1>5. RecordOutlivesItsEntries' /\ ConfigIsSomewhere'
  BY DEF LegacyInv, RecordOutlivesItsEntries, ConfigIsSomewhere, Detect, artifacts
<1> QED
  BY <1>1, <1>2, <1>3, <1>4, <1>5 DEF LegacyInv


\* What Done leaves of the steps.
LEMMA DoneLeaves ==
  ASSUME MigrationTypeOK, NEW step \in todo, Done(step)
  PROVE  /\ todo' = todo \ {step}
         /\ ending' \in {"none", "done", "failed", "refused", "killed"}
         /\ settled' \in BOOLEAN
BY DEF Done, MigrationTypeOK

LEMMA AbortLeaves ==
  ASSUME MigrationTypeOK, NEW how \in {"refused", "failed"}, Abort(how)
  PROVE  /\ todo' = {} /\ ending' \in {"none", "done", "failed", "refused", "killed"}
         /\ broken' \in BOOLEAN /\ settled' \in BOOLEAN
BY DEF Abort, MigrationTypeOK

LEMMA RecordKeeps ==
  ASSUME LegacyInv, NEW step \in todo, First(step), Record(step)
  PROVE  LegacyInv'
<1>1. step \in AnyStep /\ step.on \in {"fragment"} \cup Targets /\ todo' = todo \ {step}
  BY StepKinds DEF LegacyInv, StepsInv, Record, Done
<1>2. /\ fragments' \in [Names -> FragmentStates] /\ settings' \in [Targets -> SUBSET Kinds]
      /\ kept' \subseteq Targets
      /\ \A n \in Names : fragments'[n] = fragments[n] \/ fragments'[n] = "empty"
      /\ \A t \in Targets : settings'[t] \subseteq settings[t]
  <2>1. CASE step.on = "fragment"
    BY <2>1 DEF LegacyInv, MigrationTypeOK, Record, FragmentStates
  <2>2. CASE step.on # "fragment"
    BY <1>1, <2>2 DEF LegacyInv, MigrationTypeOK, Record
  <2> QED
    BY <2>1, <2>2
<1>3. MigrationTypeOK'
  BY <1>2, DoneLeaves DEF LegacyInv, MigrationTypeOK, Record
<1>4. StepsInv'
  BY <1>1 DEF LegacyInv, StepsInv, Record
<1>5. SweptInv'
  BY <1>1, <1>2 DEF LegacyInv, SweptInv, Record
<1>6. CarriedInv'
  BY <1>1 DEF LegacyInv, CarriedInv, Record
<1>7. RecordOutlivesItsEntries' /\ ConfigIsSomewhere'
  BY <1>2 DEF LegacyInv, RecordOutlivesItsEntries, ConfigIsSomewhere, Record
<1> QED
  BY <1>3, <1>4, <1>5, <1>6, <1>7 DEF LegacyInv


LEMMA RemoveFragmentKeeps ==
  ASSUME LegacyInv, NEW step \in todo, First(step), RemoveFragment(step)
  PROVE  LegacyInv'
<1>1. step \in AnyStep /\ step = [kind |-> "fragment", on |-> step.on] /\ step.on \in Names
  BY StepKinds DEF LegacyInv, StepsInv, RemoveFragment
<1>2. /\ fragments' \in [Names -> FragmentStates]
      /\ \A n \in Names : fragments'[n] = fragments[n] \/ fragments'[n] = "empty"
      /\ todo' = {} \/ (todo' = todo \ {step} /\ fragments'[step.on] \in {"empty", "foreign"})
  BY <1>1 DEF LegacyInv, MigrationTypeOK, RemoveFragment, Abort, Done, FragmentStates
<1>3. MigrationTypeOK'
  BY <1>2, DoneLeaves, AbortLeaves DEF LegacyInv, MigrationTypeOK, RemoveFragment
<1>4. StepsInv'
  BY <1>2 DEF LegacyInv, StepsInv, RemoveFragment
<1>5. SweptInv'
  BY <1>1, <1>2 DEF LegacyInv, SweptInv, RemoveFragment
<1>6. CarriedInv'
  BY <1>1, <1>2 DEF LegacyInv, CarriedInv, RemoveFragment
<1>7. RecordOutlivesItsEntries' /\ ConfigIsSomewhere'
  BY <1>2 DEF LegacyInv, RecordOutlivesItsEntries, ConfigIsSomewhere, RemoveFragment
<1> QED
  BY <1>3, <1>4, <1>5, <1>6, <1>7 DEF LegacyInv

LEMMA SweepKeeps ==
  ASSUME LegacyInv, NEW step \in todo, First(step), Sweep(step)
  PROVE  LegacyInv'
<1>1. step \in AnyStep /\ step = [kind |-> "sweep", on |-> step.on] /\ step.on \in Targets
  BY StepKinds DEF LegacyInv, StepsInv, Sweep
<1>2. /\ settings' \in [Targets -> SUBSET Kinds] /\ settings'[step.on] = {}
      /\ \A t \in Targets : settings'[t] = settings[t] \/ settings'[t] = {}
      /\ todo' = todo \ {step}
  BY <1>1 DEF LegacyInv, MigrationTypeOK, Sweep, Swept, Done
<1>3. MigrationTypeOK'
  BY <1>2, DoneLeaves DEF LegacyInv, MigrationTypeOK, Sweep
<1>4. StepsInv'
  BY <1>2 DEF LegacyInv, StepsInv, Sweep
<1>5. SweptInv'
  BY <1>1, <1>2 DEF LegacyInv, SweptInv, Sweep
<1>6. CarriedInv'
  BY <1>1, <1>2 DEF LegacyInv, CarriedInv, Sweep
<1>7. RecordOutlivesItsEntries' /\ ConfigIsSomewhere'
  BY <1>2 DEF LegacyInv, RecordOutlivesItsEntries, ConfigIsSomewhere, Sweep
<1> QED
  BY <1>3, <1>4, <1>5, <1>6, <1>7 DEF LegacyInv

LEMMA SweepProfileKeeps ==
  ASSUME LegacyInv, NEW step \in todo, First(step), SweepProfile(step)
  PROVE  LegacyInv'
<1> DEFINE shell == step.on[1]
           pair == step.on[2]
           found == profiles[shell][pair]
<1>1. step \in AnyStep /\ step.kind = "shell" /\ shell \in Shells /\ pair \in Pairs
  BY StepKinds DEF LegacyInv, StepsInv, SweepProfile
<1>2. todo' = todo \ {step} /\ found \in {"absent", "block", "malformed"}
  BY <1>1 DEF LegacyInv, MigrationTypeOK, SweepProfile, Done
<1>3. /\ profiles' \in [Shells -> [Pairs -> {"absent", "block", "malformed"}]]
      /\ reports' \in [Shells -> {"none", "Removed", "Missing", "Conflict", "Skipped"}]
  BY <1>1, <1>2 DEF LegacyInv, MigrationTypeOK, SweepProfile, Reported
<1>4. broken' \in BOOLEAN
  BY DEF LegacyInv, MigrationTypeOK, SweepProfile
<1>5. MigrationTypeOK'
  BY <1>3, <1>4, DoneLeaves DEF LegacyInv, MigrationTypeOK, SweepProfile
<1>6. StepsInv' /\ SweptInv' /\ CarriedInv'
  BY <1>1, <1>2 DEF LegacyInv, StepsInv, SweptInv, CarriedInv, SweepProfile
<1>7. RecordOutlivesItsEntries' /\ ConfigIsSomewhere'
  BY <1>2 DEF LegacyInv, RecordOutlivesItsEntries, ConfigIsSomewhere, SweepProfile
<1> QED
  BY <1>5, <1>6, <1>7 DEF LegacyInv

LEMMA ProfileVerdictKeeps ==
  ASSUME LegacyInv, NEW step \in todo, First(step), ProfileVerdict(step)
  PROVE  LegacyInv'
<1>1. todo' = {} \/ (todo' = todo \ {step} /\ step.kind = "verdict")
  BY DEF ProfileVerdict, Done, Abort
<1>2. MigrationTypeOK'
  BY DoneLeaves, AbortLeaves DEF LegacyInv, MigrationTypeOK, ProfileVerdict, artifacts
<1>3. StepsInv' /\ SweptInv' /\ CarriedInv'
  BY <1>1 DEF LegacyInv, StepsInv, SweptInv, CarriedInv, ProfileVerdict, artifacts
<1>4. RecordOutlivesItsEntries' /\ ConfigIsSomewhere'
  BY DEF LegacyInv, RecordOutlivesItsEntries, ConfigIsSomewhere, ProfileVerdict, artifacts
<1> QED
  BY <1>2, <1>3, <1>4 DEF LegacyInv

LEMMA CarryConfigKeeps ==
  ASSUME LegacyInv, NEW step \in todo, First(step), CarryConfig(step)
  PROVE  LegacyInv'
<1>1. todo' = todo \ {step} /\ step.kind = "config"
  BY DEF CarryConfig, Done
<1>2. /\ config' \in {"absent", "partial", "carried", "user"}
      /\ config' = "absent" => \A n \in Names : ~Has(dirs[n], "config")
      /\ config # "absent" => config' = config
  BY DEF LegacyInv, MigrationTypeOK, CarryConfig
<1>3. MigrationTypeOK'
  BY <1>2, DoneLeaves DEF LegacyInv, MigrationTypeOK, CarryConfig
<1>4. StepsInv' /\ SweptInv'
  BY <1>1 DEF LegacyInv, StepsInv, SweptInv, CarryConfig
<1>5. CarriedInv'
  BY <1>2 DEF CarriedInv, Has, CarryConfig
<1>6. RecordOutlivesItsEntries' /\ ConfigIsSomewhere'
  BY <1>2 DEF LegacyInv, RecordOutlivesItsEntries, ConfigIsSomewhere, CarryConfig
<1> QED
  BY <1>3, <1>4, <1>5, <1>6 DEF LegacyInv

LEMMA RemoveFolderKeeps ==
  ASSUME LegacyInv, NEW step \in todo, First(step), RemoveFolder(step)
  PROVE  LegacyInv'
<1>1. step \in AnyStep /\ step.on \in Names /\ todo' = todo \ {step} /\ step.kind = "folder"
  BY StepKinds DEF LegacyInv, StepsInv, RemoveFolder, Done
<1>2. /\ fragments' \in [Names -> FragmentStates]
      /\ \A n \in Names : fragments'[n] = fragments[n] \/ fragments'[n] = "absent"
  BY <1>1 DEF LegacyInv, MigrationTypeOK, RemoveFolder, FragmentStates
<1>3. MigrationTypeOK'
  BY <1>2, DoneLeaves DEF LegacyInv, MigrationTypeOK, RemoveFolder
<1>4. StepsInv' /\ CarriedInv'
  BY <1>1 DEF LegacyInv, StepsInv, CarriedInv, RemoveFolder
<1>5. SweptInv'
  BY <1>1, <1>2 DEF LegacyInv, SweptInv, RemoveFolder
<1>6. RecordOutlivesItsEntries' /\ ConfigIsSomewhere'
  BY <1>2 DEF LegacyInv, RecordOutlivesItsEntries, ConfigIsSomewhere, RemoveFolder
<1> QED
  BY <1>3, <1>4, <1>5, <1>6 DEF LegacyInv

\* A directory that goes, as a whole or in part, goes when everything is swept
\* and carried.
LEMMA TreesAreSpent ==
  ASSUME LegacyInv, NEW step \in todo, First(step), step.kind = "tree"
  PROVE  /\ step.on \in Names /\ dirs[step.on] \in SUBSET Files
         /\ \A t \in Targets : settings[t] = {}
         /\ \A n \in Names \ unread : fragments[n] \notin {"recorded", "edited"}
         /\ discards \/ config # "absent" \/ \A n \in Names : ~Has(dirs[n], "config")
<1>1. step \in AnyStep /\ step.on \in Names
  BY StepKinds DEF LegacyInv, StepsInv
<1>2. dirs[step.on] \in SUBSET Files
  BY <1>1 DEF LegacyInv, StepsInv, MigrationTypeOK
<1>3. \A other \in todo : other.kind \notin {"sweep", "fragment", "config"}
  BY TreesComeLast DEF LegacyInv
<1>4. \A x : /\ [kind |-> "sweep", on |-> x] \notin todo
             /\ [kind |-> "fragment", on |-> x] \notin todo
             /\ [kind |-> "config", on |-> x] \notin todo
  BY <1>3
<1> QED
  BY <1>1, <1>2, <1>4 DEF LegacyInv, SweptInv, CarriedInv

LEMMA RemoveTreeKeeps ==
  ASSUME LegacyInv, NEW step \in todo, First(step), RemoveTree(step)
  PROVE  LegacyInv'
<1>1. step.kind = "tree" /\ step.on \in Names /\ todo' = todo \ {step}
  BY TreesAreSpent DEF RemoveTree, Done
<1>2. /\ dirs' \in [Names -> {None} \cup SUBSET Files]
      /\ \A n \in Names \ {step.on} : dirs'[n] = dirs[n]
      /\ dirs'[step.on] = None
  BY <1>1 DEF LegacyInv, MigrationTypeOK, RemoveTree
<1>3. \A n \in Names : \A f \in Files : Has(dirs'[n], f) => Has(dirs[n], f)
  BY <1>2 DEF Has
<1>4. MigrationTypeOK'
  BY <1>2, <1>3, DoneLeaves DEF LegacyInv, MigrationTypeOK, RemoveTree
<1>5. StepsInv'
  <2> SUFFICES ASSUME NEW other \in todo', other.kind = "tree" PROVE dirs'[other.on] # None
    BY <1>1 DEF LegacyInv, StepsInv
  <2>1. other \in AnyStep /\ step \in AnyStep
    BY <1>1 DEF LegacyInv, StepsInv
  <2>2. other.on \in Names /\ other.on # step.on
    BY <1>1, <2>1, StepKinds
  <2> QED
    BY <1>1, <1>2, <2>2 DEF LegacyInv, StepsInv
<1>6. SweptInv'
  BY TreesAreSpent, <1>1 DEF SweptInv, RemoveTree
<1>7. CarriedInv'
  BY TreesAreSpent, <1>1, <1>3 DEF CarriedInv, RemoveTree, Files
<1>8. RecordOutlivesItsEntries'
  BY TreesAreSpent, <1>1 DEF RecordOutlivesItsEntries, RemoveTree
<1>9. ConfigIsSomewhere'
  BY TreesAreSpent, <1>1 DEF LegacyInv, ConfigIsSomewhere, RemoveTree
<1> QED
  BY <1>4, <1>5, <1>6, <1>7, <1>8, <1>9 DEF LegacyInv

LEMMA PassedOverKeeps ==
  ASSUME LegacyInv, NEW step \in todo, First(step), StepPassedOver(step)
  PROVE  LegacyInv'
<1>1. step \in AnyStep /\ todo' = todo \ {step} /\ step.kind \in {"folder", "shell", "fragment"}
  BY DEF LegacyInv, StepsInv, StepPassedOver, Done, Tolerated
<1>2. /\ step.kind = "fragment" => step = [kind |-> "fragment", on |-> step.on] /\ step.on \in Names
      /\ step.kind = "shell" => step.on[1] \in Shells
  BY <1>1, StepKinds
<1>3. /\ reports' \in [Shells -> {"none", "Removed", "Missing", "Conflict", "Skipped"}]
      /\ unread' \subseteq Names /\ unread \subseteq unread'
      /\ step.kind = "fragment" => step.on \in unread'
  BY <1>1, <1>2 DEF LegacyInv, MigrationTypeOK, StepPassedOver, Reported
<1>4. broken' \in BOOLEAN
  BY DEF LegacyInv, MigrationTypeOK, StepPassedOver
<1>5. faults' \in 0..MaxFaults
  BY LegacyAssumption DEF LegacyAssumption, LegacyInv, MigrationTypeOK, StepPassedOver, Faulty
<1>6. MigrationTypeOK'
  BY <1>3, <1>4, <1>5, DoneLeaves DEF LegacyInv, MigrationTypeOK, StepPassedOver, artifacts
<1>7. StepsInv' /\ CarriedInv'
  BY <1>1 DEF LegacyInv, StepsInv, CarriedInv, StepPassedOver, artifacts
<1>8. SweptInv'
  BY <1>1, <1>2, <1>3 DEF LegacyInv, SweptInv, StepPassedOver, artifacts
<1>9. RecordOutlivesItsEntries' /\ ConfigIsSomewhere'
  BY <1>3 DEF LegacyInv, RecordOutlivesItsEntries, ConfigIsSomewhere, StepPassedOver, artifacts
<1> QED
  BY <1>6, <1>7, <1>8, <1>9 DEF LegacyInv

\* What a step leaves that does not come to its end.
LEMMA LeftoversKeep ==
  ASSUME LegacyInv, NEW step \in todo, First(step), Leftovers(step),
         UNCHANGED <<fragments, settings, profiles, manifest, reports, rounds, initial,
                     discards, kept, unread>>,
         todo' = {}, Faulty, ending' \in {"failed", "killed"},
         broken' \in BOOLEAN, settled' \in BOOLEAN
  PROVE  LegacyInv'
<1>1. /\ dirs' \in [Names -> {None} \cup SUBSET Files]
      /\ \A n \in Names : \A f \in Files : Has(dirs'[n], f) => Has(dirs[n], f)
      /\ step.kind # "tree" => dirs' = dirs
  <2>1. CASE step.kind = "tree"
    <3>1. PICK files \in SUBSET dirs[step.on] : dirs' = [dirs EXCEPT ![step.on] = files]
      BY <2>1 DEF Leftovers
    <3>2. step.on \in Names /\ dirs[step.on] \in SUBSET Files /\ dirs[step.on] # None
      BY <2>1, TreesAreSpent DEF LegacyInv, StepsInv
    <3> QED
      BY <2>1, <3>1, <3>2 DEF LegacyInv, MigrationTypeOK, Has
  <2>2. CASE step.kind # "tree"
    BY <2>2 DEF LegacyInv, MigrationTypeOK, Leftovers
  <2> QED
    BY <2>1, <2>2
<1>2. /\ config' \in {"absent", "partial", "carried", "user"}
      /\ config # "absent" => config' = config
  BY DEF LegacyInv, MigrationTypeOK, Leftovers
<1>3. faults' \in 0..MaxFaults
  BY LegacyAssumption DEF LegacyAssumption, LegacyInv, MigrationTypeOK, Faulty
<1>4. MigrationTypeOK'
  BY <1>1, <1>2, <1>3 DEF LegacyInv, MigrationTypeOK
<1>5. StepsInv' /\ SweptInv' /\ CarriedInv'
  BY DEF StepsInv, SweptInv, CarriedInv
<1>6. RecordOutlivesItsEntries'
  <2>1. CASE step.kind = "tree"
    BY <2>1, TreesAreSpent DEF RecordOutlivesItsEntries
  <2>2. CASE step.kind # "tree"
    BY <1>1, <2>2 DEF LegacyInv, RecordOutlivesItsEntries
  <2> QED
    BY <2>1, <2>2
<1>7. ConfigIsSomewhere'
  <2>1. CASE step.kind = "tree"
    BY <1>2, <2>1, TreesAreSpent DEF LegacyInv, ConfigIsSomewhere
  <2>2. CASE step.kind # "tree"
    BY <1>1, <1>2, <2>2 DEF LegacyInv, ConfigIsSomewhere
  <2> QED
    BY <2>1, <2>2
<1> QED
  BY <1>4, <1>5, <1>6, <1>7 DEF LegacyInv

LEMMA LegacyStep == LegacyInv /\ [MigrationNext]_migration_vars => LegacyInv'
<1> SUFFICES ASSUME LegacyInv, [MigrationNext]_migration_vars PROVE LegacyInv'
  OBVIOUS
<1>1. ASSUME NEW carry \in BOOLEAN, Detect(carry) PROVE LegacyInv'
  BY <1>1, DetectKeeps
<1>2. ASSUME NEW step \in todo, First(step), StepFails(step) PROVE LegacyInv'
  <2>1. todo' = {} /\ ending' = "failed" /\ broken' \in BOOLEAN /\ settled' \in BOOLEAN
    BY <1>2, AbortLeaves DEF StepFails, Abort, LegacyInv, MigrationTypeOK
  <2> QED
    BY <1>2, <2>1, LeftoversKeep DEF StepFails
<1>3. ASSUME NEW step \in todo, First(step), KillMigration(step) PROVE LegacyInv'
  <2>1. broken' \in BOOLEAN /\ settled' \in BOOLEAN
    BY <1>3 DEF KillMigration, history, LegacyInv, MigrationTypeOK
  <2> QED
    BY <1>3, <2>1, LeftoversKeep DEF KillMigration, history
<1>4. CASE UNCHANGED migration_vars
  <2> USE <1>4 DEF migration_vars, artifacts, process, history
  <2>1. MigrationTypeOK'
    BY DEF LegacyInv, MigrationTypeOK
  <2>2. StepsInv' /\ SweptInv' /\ CarriedInv' /\ RecordOutlivesItsEntries' /\ ConfigIsSomewhere'
    BY DEF LegacyInv, StepsInv, SweptInv, CarriedInv, RecordOutlivesItsEntries, ConfigIsSomewhere
  <2> QED
    BY <2>1, <2>2 DEF LegacyInv
<1> QED
  BY <1>1, <1>2, <1>3, <1>4, RecordKeeps, RemoveFragmentKeeps, SweepKeeps, SweepProfileKeeps,
     ProfileVerdictKeeps, CarryConfigKeeps, RemoveTreeKeeps, RemoveFolderKeeps, PassedOverKeeps
     DEF MigrationNext

LEMMA SpecLegacy == MigrationSpec => []LegacyInv
BY InitLegacy, LegacyStep, PTL DEF MigrationSpec

\* Every variable has its type, the directories only lose files, and a command
\* goes by a manifest that existed: for any names, settings files and profiles.
THEOREM SpecMigrationTypeOK == MigrationSpec => []MigrationTypeOK
BY SpecLegacy, PTL DEF LegacyInv

\* However often a command fails, is killed and is run again, the manifest of the
\* earlier version outlives everything it records.
THEOREM SpecRecordOutlivesItsEntries == MigrationSpec => []RecordOutlivesItsEntries
BY SpecLegacy, PTL DEF LegacyInv

\* The configuration of the earlier version is never lost by an install, but for
\* a copy that was cut short.
THEOREM SpecConfigIsSomewhere == MigrationSpec => []ConfigIsSomewhere
BY SpecLegacy, PTL DEF LegacyInv


=============================================================================
