-------------------------- MODULE LegacyMigration --------------------------
(***************************************************************************)
(* The one-shot removal of a pre-Winter installation:                      *)
(* src/integration/legacy.rs, with the sweeps of shell.rs and jsonc.rs it  *)
(* calls.  `winter install` runs it first, `winter uninstall` when there   *)
(* is no Winter manifest.  Any step may fail, because a file is locked,    *)
(* malformed or changed meanwhile, and the process may be killed between   *)
(* two steps and while it copies the configuration; either way the user    *)
(* runs the command again.                                                 *)
(*                                                                         *)
(* A directory is the files in it that matter; keybindings are of three    *)
(* kinds, those the legacy manifest records, those among them the user     *)
(* changed, and those no manifest knows.  One write is one step here;      *)
(* Integration and ShellProfile look inside it.                            *)
(***************************************************************************)
EXTENDS Naturals, Sequences, FiniteSets, SequencesExt

CONSTANTS
  NameOrder,    \* LEGACY_DIR_NAMES
  TargetOrder,  \* the settings files, in the order they are visited
  ShellOrder,   \* the PowerShell profiles
  PairOrder,    \* LEGACY_SHELL_MARKER_PAIRS
  None,         \* no such directory, no such manifest
  MaxRounds,    \* bound: commands started
  MaxFaults     \* bound: steps that fail, and kills

Names   == Range(NameOrder)
Targets == Range(TargetOrder)
Shells  == Range(ShellOrder)
Pairs   == Range(PairOrder)

ASSUME LegacyAssumption ==
  /\ NameOrder \in Seq(Names) /\ None \notin Names
  /\ IsInjective(NameOrder) /\ IsInjective(TargetOrder)
  /\ IsInjective(ShellOrder) /\ IsInjective(PairOrder)
  /\ {MaxRounds, MaxFaults} \subseteq Nat

VARIABLES
  dirs,       \* the state directories
  fragments,  \* the fragment directories
  settings,   \* the legacy keybindings of each settings file
  profiles,   \* the legacy blocks of each profile, one per marker pair
  config,     \* Winter's own config.toml
  todo,       \* what the running command has still to do
  manifest,   \* whose manifest the command loaded
  reports,    \* what the shell sweep has reported, per profile
  ending,     \* how the last command ended
  rounds, faults,   \* bounded counters
  initial,    \* history: the state directories at the beginning
  discards,   \* history: an uninstall ran, which does not keep the configuration
  broken,     \* history: a step of the running command failed
  unread,     \* history: the fragments that could not be read when it was their turn
  kept,       \* history: the files whose changed keybindings were reported as kept
  settled     \* history: a migration completed

artifacts == <<dirs, fragments, settings, profiles, config>>
process == <<todo, manifest, reports, ending>>
history == <<initial, discards, broken, unread, kept, settled>>
migration_vars == <<artifacts, process, rounds, faults, history>>

Files == {"manifest", "config"}
FragmentStates == {"absent", "empty", "recorded", "edited", "foreign"}
Kinds == {"recorded", "changed", "unknown"}

Idle == todo = {}

Has(contents, name) == contents # None /\ name \in contents

-----------------------------------------------------------------------------
(* detect, and the steps of clean in their order *)

Precedes(order, a, b) ==
  \E i, j \in DOMAIN order : i < j /\ order[i] = a /\ order[j] = b

Items(kind, places) == {[kind |-> kind, on |-> place] : place \in places}

FoundDirs == {n \in Names : dirs[n] # None}
FoundFragments == {n \in Names : fragments[n] # "absent"}

\* The first state directory that has one.
FoundManifest ==
  LET with == {n \in Names : Has(dirs[n], "manifest")}
  IN  IF with = {} THEN None
      ELSE CHOOSE n \in with : \A m \in with \ {n} : Precedes(NameOrder, n, m)

\* migrate_if_present, and uninstall_if_present, which does not carry.
Steps(carry) ==
  (IF FoundManifest = None THEN {} ELSE Items("record", {"fragment"} \cup Targets))
    \cup Items("fragment", FoundFragments) \cup Items("sweep", Targets)
    \cup Items("shell", Shells \X Pairs) \cup Items("verdict", {"profiles"})
    \cup (IF carry THEN Items("config", {"config"}) ELSE {})
    \cup Items("tree", FoundDirs) \cup Items("folder", FoundFragments)

\* Mutant of Stage: the configuration is carried over last.
StageConfigLast ==
  [record |-> 1, fragment |-> 2, sweep |-> 3, shell |-> 4, verdict |-> 5, tree |-> 6,
   folder |-> 7, config |-> 8]

Stage ==
  [record |-> 1, fragment |-> 2, sweep |-> 3, shell |-> 4, verdict |-> 5, config |-> 6,
   tree |-> 7, folder |-> 8]

\* The places a stage visits, in turn: in the outer order, or else in the inner.
PlaceBefore(kind, a, b) ==
  CASE kind = "record" -> a = "fragment" \/ Precedes(TargetOrder, a, b)
    [] kind = "sweep" -> Precedes(TargetOrder, a, b)
    [] kind = "shell" -> \/ Precedes(ShellOrder, a[1], b[1])
                         \/ a[1] = b[1] /\ Precedes(PairOrder, a[2], b[2])
    [] OTHER -> Precedes(NameOrder, a, b)

\* The step of the running command that is next.
First(step) ==
  \A other \in todo \ {step} :
     \/ Stage[step.kind] < Stage[other.kind]
     \/ step.kind = other.kind /\ PlaceBefore(step.kind, step.on, other.on)

Detect(carry) ==
  /\ Idle /\ rounds < MaxRounds
  /\ FoundDirs # {} \/ FoundFragments # {}
  /\ rounds' = rounds + 1
  /\ todo' = Steps(carry) /\ manifest' = FoundManifest
  /\ reports' = [s \in Shells |-> "none"] /\ ending' = "none"
  /\ discards' = (discards \/ ~carry) /\ broken' = FALSE /\ kept' = {}
  /\ UNCHANGED <<artifacts, faults, initial, unread, settled>>

-----------------------------------------------------------------------------
(* One step *)

Done(step) ==
  /\ todo' = todo \ {step}
  /\ IF todo = {step} THEN ending' = "done" /\ settled' = TRUE
     ELSE UNCHANGED <<ending, settled>>

Abort(how) == todo' = {} /\ ending' = how /\ broken' = TRUE /\ UNCHANGED settled

\* What the manifest records and nobody changed since.
Record(step) ==
  /\ step.kind = "record"
  /\ Done(step)
  /\ IF step.on = "fragment"
     THEN /\ fragments' = [fragments EXCEPT ![manifest] = IF @ = "recorded" THEN "empty" ELSE @]
          /\ UNCHANGED <<settings, kept>>
     ELSE /\ settings' = [settings EXCEPT ![step.on] = @ \ {"recorded"}]
          /\ kept' = IF "changed" \in settings[step.on] THEN kept \cup {step.on} ELSE kept
          /\ UNCHANGED fragments
  /\ UNCHANGED <<dirs, profiles, config, manifest, reports, rounds, faults,
                 initial, discards, broken, unread>>

\* A fragment that has legacy ids is removed; one that has none is left alone
\* if there is a manifest, and refused if there is not.
RemoveFragment(step) ==
  /\ step.kind = "fragment"
  /\ IF fragments[step.on] = "foreign" /\ manifest = None
     THEN Abort("refused") /\ UNCHANGED fragments
     ELSE /\ Done(step) /\ UNCHANGED broken
          /\ fragments' = [fragments EXCEPT ![step.on] = IF @ = "foreign" THEN @ ELSE "empty"]
  /\ UNCHANGED <<dirs, settings, profiles, config, manifest, reports, rounds, faults,
                 initial, discards, unread, kept>>

\* remove_legacy_keybindings: every id with a legacy prefix.
Swept(kinds) == {}

Sweep(step) ==
  /\ step.kind = "sweep"
  /\ Done(step)
  /\ settings' = [settings EXCEPT ![step.on] = Swept(@)]
  /\ UNCHANGED <<dirs, fragments, profiles, config, manifest, reports, rounds, faults,
                 initial, discards, broken, unread, kept>>

\* The report of a pair takes the place of the one before it.
Reported(shell, status) == reports' = [reports EXCEPT ![shell] = status]

SweepProfile(step) ==
  LET shell == step.on[1]
      pair == step.on[2]
      found == profiles[shell][pair]
  IN  /\ step.kind = "shell"
      /\ Done(step)
      /\ profiles' = IF found = "block" THEN [profiles EXCEPT ![shell][pair] = "absent"]
                     ELSE profiles
      /\ Reported(shell, CASE found = "block" -> "Removed"
                           [] found = "absent" -> "Missing"
                           [] found = "malformed" -> "Conflict")
      /\ broken' = (broken \/ found = "malformed")
      /\ UNCHANGED <<dirs, fragments, settings, config, manifest, rounds, faults,
                     initial, discards, unread, kept>>

ProfileVerdict(step) ==
  /\ step.kind = "verdict"
  /\ IF Range(reports) \subseteq {"Removed", "Missing"} THEN Done(step) /\ UNCHANGED broken
     ELSE Abort("failed")
  /\ UNCHANGED <<artifacts, manifest, reports, rounds, faults, initial, discards, unread, kept>>

\* The first configuration found is copied, unless Winter has one.
CarryConfig(step) ==
  /\ step.kind = "config"
  /\ Done(step)
  /\ config' = IF config = "absent" /\ \E n \in Names : Has(dirs[n], "config")
               THEN "carried" ELSE config
  /\ UNCHANGED <<dirs, fragments, settings, profiles, manifest, reports, rounds, faults,
                 initial, discards, broken, unread, kept>>

RemoveTree(step) ==
  /\ step.kind = "tree"
  /\ Done(step)
  /\ dirs' = [dirs EXCEPT ![step.on] = None]
  /\ UNCHANGED <<fragments, settings, profiles, config, manifest, reports, rounds, faults,
                 initial, discards, broken, unread, kept>>

\* Errors are ignored: a directory that is not empty stays.
RemoveFolder(step) ==
  /\ step.kind = "folder"
  /\ Done(step)
  /\ fragments' = [fragments EXCEPT ![step.on] = IF @ = "empty" THEN "absent" ELSE @]
  /\ UNCHANGED <<dirs, settings, profiles, config, manifest, reports, rounds, faults,
                 initial, discards, broken, unread, kept>>

-----------------------------------------------------------------------------
(* Failures *)

Faulty == faults < MaxFaults /\ faults' = faults + 1

\* Mutant of Tolerated: a settings file that cannot be edited is skipped.
ToleratedSweep == {"folder", "shell", "fragment", "sweep"}

\* Steps that may fail without ending the command: a profile is reported, and a
\* fragment that cannot be read is taken for one that is not there.
Tolerated == {"folder", "shell", "fragment"}

\* Those whose failure may as well end it: the fragment was read.
Fatal == {"record", "fragment", "sweep", "config", "tree"}

\* A directory may lose some of its files before it cannot be removed; a copy
\* may leave a part of the file.
Leftovers(step) ==
  /\ IF step.kind = "tree"
     THEN \E files \in SUBSET dirs[step.on] : dirs' = [dirs EXCEPT ![step.on] = files]
     ELSE UNCHANGED dirs
  /\ IF step.kind = "config" /\ config = "absent"
     THEN config' \in {"absent", "partial"}
     ELSE UNCHANGED config

StepPassedOver(step) ==
  /\ step.kind \in Tolerated /\ Faulty
  /\ Done(step)
  /\ IF step.kind = "shell" THEN Reported(step.on[1], "Skipped") ELSE UNCHANGED reports
  /\ unread' = IF step.kind = "fragment" THEN unread \cup {step.on} ELSE unread
  /\ broken' = (broken \/ step.kind # "folder")
  /\ UNCHANGED <<artifacts, manifest, rounds, initial, discards, kept>>

StepFails(step) ==
  /\ step.kind \in Fatal /\ Faulty
  /\ Abort("failed")
  /\ Leftovers(step)
  /\ UNCHANGED <<fragments, settings, profiles, manifest, reports, rounds,
                 initial, discards, kept, unread>>

KillMigration(step) ==
  /\ Faulty
  /\ todo' = {} /\ ending' = "killed"
  /\ Leftovers(step)
  /\ UNCHANGED <<fragments, settings, profiles, manifest, reports, rounds, history>>

-----------------------------------------------------------------------------
\* What earlier versions may have left.  A changed keybinding, or a fragment as
\* it was recorded, comes with a manifest that records it.
MigrationInit ==
  /\ dirs \in [Names -> {None} \cup SUBSET Files]
  /\ fragments \in [Names -> FragmentStates]
  /\ \A n \in Names : fragments[n] = "recorded" => Has(dirs[n], "manifest")
  /\ settings \in [Targets -> SUBSET Kinds]
  /\ (\A t \in Targets : settings[t] \subseteq {"unknown"}) \/ FoundManifest # None
  /\ profiles \in [Shells -> [Pairs -> {"absent", "block", "malformed"}]]
  /\ config \in {"absent", "user"}
  /\ todo = {} /\ manifest = None /\ reports = [s \in Shells |-> "none"] /\ ending = "none"
  /\ rounds = 0 /\ faults = 0
  /\ initial = dirs /\ discards = FALSE /\ broken = FALSE /\ unread = {} /\ kept = {} /\ settled = FALSE

MigrationNext ==
  \/ \E carry \in BOOLEAN : Detect(carry)
  \/ \E step \in todo :
       /\ First(step)
       /\ \/ Record(step) \/ RemoveFragment(step) \/ Sweep(step) \/ SweepProfile(step)
          \/ ProfileVerdict(step) \/ CarryConfig(step) \/ RemoveTree(step) \/ RemoveFolder(step)
          \/ StepPassedOver(step) \/ StepFails(step) \/ KillMigration(step)

MigrationSpec == MigrationInit /\ [][MigrationNext]_migration_vars

-----------------------------------------------------------------------------
(* Properties *)

\* Every variable has its type, the directories only ever lose files, and what a
\* command goes by is a manifest that existed.
MigrationTypeOK ==
  /\ dirs \in [Names -> {None} \cup SUBSET Files] /\ initial \in [Names -> {None} \cup SUBSET Files]
  /\ \A n \in Names, f \in Files : Has(dirs[n], f) => Has(initial[n], f)
  /\ fragments \in [Names -> FragmentStates]
  /\ settings \in [Targets -> SUBSET Kinds]
  /\ profiles \in [Shells -> [Pairs -> {"absent", "block", "malformed"}]]
  /\ config \in {"absent", "partial", "carried", "user"}
  /\ manifest \in {None} \cup {n \in Names : Has(initial[n], "manifest")}
  /\ reports \in [Shells -> {"none", "Removed", "Missing", "Conflict", "Skipped"}]
  /\ ending \in {"none", "done", "failed", "refused", "killed"}
  /\ rounds \in 0..MaxRounds /\ faults \in 0..MaxFaults
  /\ {discards, broken, settled} \subseteq BOOLEAN /\ kept \subseteq Targets /\ unread \subseteq Names

\* However often a command fails or is killed, the manifest of the earlier
\* version is there as long as anything it was needed for: it only goes when no
\* legacy keybinding and no fragment with legacy ids is left, but for fragments
\* that could not be read.
RecordOutlivesItsEntries ==
  (\E n \in Names : Has(initial[n], "manifest") /\ ~Has(dirs[n], "manifest")) =>
     /\ \A t \in Targets : settings[t] = {}
     /\ \A n \in Names \ unread : fragments[n] \notin {"recorded", "edited"}

\* An install never loses the configuration: it is in a legacy directory until
\* Winter has one of its own, unless an earlier copy was cut short.
ConfigIsSomewhere ==
  ~discards /\ config # "partial" /\ (\E n \in Names : Has(initial[n], "config")) =>
     config # "absent" \/ \E n \in Names : Has(dirs[n], "config")

\* legacy.rs says that the state directory is only deleted after every step
\* has succeeded.
DirsOutliveFailures ==
  [][broken => \A n \in Names : dirs[n] # None => dirs'[n] # None]_migration_vars

\* legacy.rs says that the configuration is carried over byte for byte.
ConfigCarriedOver ==
  ending = "done" /\ ~discards /\ (\E n \in Names : Has(initial[n], "config")) =>
     config \in {"carried", "user"}

\* legacy.rs tells the user that changed keybindings are kept in place.
KeptKeybindingsStay ==
  ending = "done" => \A t \in kept : "changed" \in settings[t]

\* legacy.rs calls the cleanup a one-shot.
MigratesOnce == settled => ending # "refused"

=============================================================================
