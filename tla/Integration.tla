---------------------------- MODULE Integration ----------------------------
(***************************************************************************)
(* The settings integration: `winter install` and `winter uninstall` edit  *)
(* three kinds of files, the action fragment, one settings.json per        *)
(* Windows Terminal channel and the manifest that records what Winter      *)
(* added.  The user, or Windows Terminal itself, edits the same files at   *)
(* any moment, a file operation may fail at any step, and the process may  *)
(* be killed.  Nothing locks a file: every write compares the content with *)
(* the planned snapshot, stages a temporary file, compares again, moves    *)
(* the staged file over the destination and reads it back; an install that *)
(* fails undoes its writes in reverse order, each by the same protocol.    *)
(*                                                                         *)
(* A hash is the content it is taken of.  A settings file is its managed   *)
(* bindings and the number of the user edit it carries, so that a lost     *)
(* edit is visible.  Staging files have private names and nobody reads     *)
(* them: they are left out, and so are the shell profiles, the legacy      *)
(* migration, the backups uninstall makes, which no manifest refers to,    *)
(* and the fragment's backup, which is pruned like a channel's.            *)
(***************************************************************************)
EXTENDS Naturals, Sequences, FiniteSets, SequencesExt

CONSTANTS
    TargetOrder,  \* the channels' settings files, in the order they are visited
    Bindings,     \* the managed keybindings
    Fragment,     \* the action fragment file
    Manifest,     \* the manifest file
    None,         \* a file that does not exist
    KeepBackups,  \* KEEP_BACKUPS_PER_LABEL
    MaxRounds,    \* bound: installs started
    MaxEdits,     \* bound: edits by the user
    MaxFaults,    \* bound: file operations that fail
    MaxCrashes    \* bound: kills of the process

Targets == Range(TargetOrder)
Files   == Targets \cup {Fragment, Manifest}

ASSUME IntegrationAssumption ==
    /\ Fragment # Manifest /\ {Fragment, Manifest} \cap Targets = {}
    /\ TargetOrder \in Seq(Targets) /\ IsInjective(TargetOrder)
    /\ KeepBackups \in Nat \ {0}
    /\ {MaxRounds, MaxEdits, MaxFaults, MaxCrashes} \subseteq Nat

VARIABLES
    disk,      \* what every file holds
    backups,   \* per channel, the install rounds whose backups exist, newest first
    mode,      \* what the process is doing: idle, install, rollback, uninstall
    at,        \* progress of the current write
    work,      \* the files the process has still to write
    undo,      \* files an install has written, in order
    snap,      \* what the process read when it planned
    next,      \* the manifest it is going to save
    incomplete,\* a rollback step failed
    outcome,   \* how the last command ended
    round, edits, faults, crashes,   \* bounded counters
    mine,      \* history: the edit the user last left in each settings file
    late,      \* history: files last edited between a last check and its move
    touched,   \* history: files the user edited since the command started
    live,      \* history: bindings Winter put there that nobody changed since
    added,     \* history: bindings Winter ever added
    planted,   \* history: the fragment in place came from Winter
    clean      \* history: no kill, no incomplete rollback and no edit between
               \* an install's move and its read-back so far

history == <<mine, late, touched, live, added, planted, clean>>
process == <<mode, at, work, undo, snap, next, incomplete, outcome>>
vars == <<disk, backups, process, round, edits, faults, crashes, history>>

-----------------------------------------------------------------------------
(* Contents *)

\* What a settings file says of a managed binding: nothing; the bare entry Winter
\* would write; that entry with other members; another chord for the id, or
\* another id for the chord; an entry of the id that does not parse.
BindingStates == {"absent", "ours", "annotated", "altered", "malformed"}

Settings == [bound: [Bindings -> BindingStates], edit: 0..MaxEdits]
FragmentTexts == {"desired", "rewritten", "outdated", "foreign"}
TargetRecords == [owned: SUBSET Bindings, backup: 0..MaxRounds]
Manifests == [fragment: FragmentTexts \cup {None}, targets: [Targets -> TargetRecords]]

NoRecord == [owned |-> {}, backup |-> 0]
EmptyManifest == [fragment |-> None, targets |-> [t \in Targets |-> NoRecord]]

\* A manifest that does not exist is read as the empty one.
Loaded(m) == IF m = None THEN EmptyManifest ELSE m

\* What the settings editor answers, binding by binding (SettingsEditor).
Conflicting(c) == \E b \in Bindings : c.bound[b] \in {"altered", "malformed"}
Additions(c) == {b \in Bindings : c.bound[b] = "absent"}
Merged(c) == [c EXCEPT !.bound = [b \in Bindings |-> IF @[b] = "absent" THEN "ours" ELSE @[b]]]

\* An entry that does not parse is in the way of taking any out.
Removable(c, owned) == \A b \in owned : c.bound[b] # "malformed"
Removed(c, owned) == {b \in owned : c.bound[b] = "ours"}
Retained(c, owned) == {b \in owned : c.bound[b] \in {"annotated", "altered"}}
Without(c, bs) ==
    [c EXCEPT !.bound = [b \in Bindings |-> IF b \in bs THEN "absent" ELSE c.bound[b]]]

\* The desired actions, whatever the layout of the bytes.
SameActions(text) == text \in {"desired", "rewritten"}

FragmentStatus(text, record) ==
    CASE text = None        -> "Create"
      [] SameActions(text)  -> "Unchanged"
      [] text = record /\ ~SameActions(text) -> "Update"
      [] OTHER              -> "Conflict"

ASSUME NoneAssumption == None \notin Settings \cup FragmentTexts \cup Manifests

\* Pruning keeps the newest backups of a channel.
Kept(rounds) == SubSeq(rounds, 1, IF Len(rounds) > KeepBackups THEN KeepBackups ELSE Len(rounds))

-----------------------------------------------------------------------------
(* Planning *)

\* Mutant: claims every managed binding a file holds, the user's own included.
NextRecordOfAll(t, record, ready) ==
    IF t \in ready THEN [owned |-> Bindings, backup |-> round + 1] ELSE record

NextRecord(t, record, ready) ==
    IF t \in ready /\ Additions(disk[t]) # {}
    THEN [owned |-> record.owned \cup Additions(disk[t]), backup |-> round + 1]
    ELSE record

\* The settings files install can edit: a file that cannot be read, or binds a
\* managed id or chord otherwise, is reported and never blocks the others.
Ready(unread) == {t \in Targets \ unread : disk[t] # None /\ ~Conflicting(disk[t])}

NextFragment(record) ==
    CASE FragmentStatus(disk[Fragment], record) = "Unchanged" ->
             (IF record = None THEN None ELSE disk[Fragment])
      [] OTHER -> "desired"

Start(m, files, manifest) ==
    /\ mode' = m /\ at' = "begin" /\ work' = files /\ next' = manifest
    /\ snap' = disk /\ undo' = <<>> /\ incomplete' = FALSE /\ outcome' = "none"
    /\ touched' = {}
    /\ UNCHANGED <<disk, backups, edits, crashes, mine, late, live, added, planted, clean>>

\* install up to its first write: the settings files of `unread` cannot be
\* read.  A command that is refused here changes nothing and is no step.
StartInstall(unread) ==
    LET known == Loaded(disk[Manifest])
        ready == Ready(unread)
        status == FragmentStatus(disk[Fragment], known.fragment)
        planned == [fragment |-> NextFragment(known.fragment),
                    targets |-> [t \in Targets |-> NextRecord(t, known.targets[t], ready)]]
        edited(f) ==
            \/ f = Fragment /\ status \in {"Create", "Update"}
            \/ f \in ready /\ Additions(disk[f]) # {}
            \/ f = Manifest /\ planned # known
    IN  /\ mode = "idle" /\ round < MaxRounds /\ faults + Cardinality(unread) <= MaxFaults
        /\ ready # {} /\ status # "Conflict"
        /\ round' = round + 1 /\ faults' = faults + Cardinality(unread)
        /\ Start("install", {f \in Files : edited(f)}, planned)

\* uninstall up to its first write.  Without a manifest there is nothing to do;
\* one settings file it cannot plan for refuses the whole command.
StartUninstall ==
    LET known == disk[Manifest]
        owned(t) == known.targets[t].owned
        keptOf(t) == IF disk[t] = None THEN {} ELSE Retained(disk[t], owned(t))
        planned == [fragment |-> IF disk[Fragment] \in {None, known.fragment} THEN None
                                 ELSE known.fragment,
                    targets |-> [t \in Targets |-> IF keptOf(t) = {} THEN NoRecord
                                    ELSE [known.targets[t] EXCEPT !.owned = keptOf(t)]]]
        edited(f) ==
            \/ f = Fragment /\ disk[f] # None /\ disk[f] = known.fragment
            \/ f \in Targets /\ disk[f] # None /\ Removed(disk[f], owned(f)) # {}
            \/ f = Manifest
    IN  /\ mode = "idle" /\ disk[Manifest] # None
        /\ \A t \in Targets : disk[t] # None => Removable(disk[t], owned(t))
        /\ Start("uninstall", {f \in Files : edited(f)}, planned)
        /\ UNCHANGED <<round, faults>>

-----------------------------------------------------------------------------
(* One write *)

\* The fragment first, then the channels, then the manifest.
First(files) ==
    IF Fragment \in files THEN Fragment
    ELSE IF files \cap Targets = {} THEN Manifest
    ELSE TargetOrder[CHOOSE i \in DOMAIN TargetOrder :
             TargetOrder[i] \in files /\ \A j \in 1..(i - 1) : TargetOrder[j] \notin files]

Pending == IF mode = "rollback" THEN undo # <<>> ELSE work # {}
Busy == mode # "idle" /\ Pending
Current == IF mode = "rollback" THEN Last(undo) ELSE First(work)

Installed(f) ==
    CASE f = Fragment -> "desired"
      [] f = Manifest -> next
      [] OTHER        -> Merged(snap[f])

Uninstalled(f) ==
    CASE f = Fragment -> None
      [] f = Manifest -> (IF next = EmptyManifest THEN None ELSE next)
      [] OTHER        -> Without(snap[f], Removed(snap[f], snap[Manifest].targets[f].owned))

Expected(f) == IF mode = "rollback" THEN Installed(f) ELSE snap[f]
Replacement(f) ==
    CASE mode = "install"   -> Installed(f)
      [] mode = "rollback"  -> snap[f]
      [] mode = "uninstall" -> Uninstalled(f)

\* The backup of a settings file an install is about to replace, then pruning.
BackUp ==
    /\ Busy /\ at = "begin"
    /\ at' = "backed"
    /\ backups' = IF mode = "install" /\ Current \in Targets
                  THEN [backups EXCEPT ![Current] = Kept(<<round>> \o @)]
                  ELSE backups
    /\ UNCHANGED <<disk, mode, work, undo, snap, next, incomplete, outcome,
                   round, edits, faults, crashes, history>>

\* The first comparison; a replacement is staged, a removal needs no more.
Stage ==
    /\ Busy /\ at = "backed" /\ disk[Current] = Expected(Current)
    /\ at' = IF Replacement(Current) = None THEN "checked" ELSE "staged"
    /\ UNCHANGED <<disk, backups, mode, work, undo, snap, next, incomplete, outcome,
                   round, edits, faults, crashes, history>>

\* Mutant: the first comparison is trusted until the move.
AssumedUnchanged(f) == TRUE

\* The second comparison, after the staging file is on disk.
Unchanged(f) == disk[f] = Expected(f)

Recheck ==
    /\ Busy /\ at = "staged" /\ Unchanged(Current)
    /\ at' = "checked"
    /\ UNCHANGED <<disk, backups, mode, work, undo, snap, next, incomplete, outcome,
                   round, edits, faults, crashes, history>>

\* The move, or the removal, takes whatever the file holds by now.
Move ==
    /\ Busy /\ at = "checked"
    /\ at' = "moved"
    /\ disk' = [disk EXCEPT ![Current] = Replacement(Current)]
    /\ IF Current \in Targets
       THEN LET put == Replacement(Current)
                fresh == IF mode = "install" THEN Additions(snap[Current]) ELSE {}
            IN  /\ live' = [live EXCEPT ![Current] =
                       {b \in @ \cup fresh : put.bound[b] = "ours"}]
                /\ added' = [added EXCEPT ![Current] = @ \cup fresh]
       ELSE UNCHANGED <<live, added>>
    /\ planted' = IF Current = Fragment THEN Replacement(Current) # None ELSE planted
    /\ UNCHANGED <<backups, mode, work, undo, snap, next, incomplete, outcome,
                   round, edits, faults, crashes, mine, late, touched, clean>>

\* The read-back finds the replacement; a removal is not read back.
Verify ==
    /\ Busy /\ at = "moved"
    /\ Replacement(Current) # None => disk[Current] = Replacement(Current)
    /\ at' = "begin"
    /\ IF mode = "rollback"
       THEN undo' = Front(undo) /\ UNCHANGED work
       ELSE /\ work' = work \ {Current}
            /\ undo' = IF mode = "install" /\ Current # Manifest
                       THEN Append(undo, Current) ELSE undo
    /\ UNCHANGED <<disk, backups, mode, snap, next, incomplete, outcome,
                   round, edits, faults, crashes, history>>

-----------------------------------------------------------------------------
(* A write that fails: a comparison does, or a file operation *)

Refuted ==
    \/ at = "backed" /\ disk[Current] # Expected(Current)
    \/ at = "staged" /\ ~Unchanged(Current)
    \/ at = "moved" /\ Replacement(Current) # None /\ disk[Current] # Replacement(Current)

Breaks == ~(at = "moved" /\ Replacement(Current) = None) /\ faults < MaxFaults

Fails(fault) ==
    /\ Busy /\ at' = "begin"
    /\ IF fault THEN Breaks /\ faults' = faults + 1 ELSE Refuted /\ UNCHANGED faults

\* Mutant: a write that reports an error is taken not to have happened.
NeverApplied(f, unreadable) == FALSE

\* After an error the file is read again: the write counts as applied when
\* the replacement is there, or when the file cannot be read.
Applied(f, unreadable) == unreadable \/ disk[f] = Installed(f)

InstallFails(fault, unreadable) ==
    /\ mode = "install" /\ Fails(fault) /\ (unreadable => fault)
    /\ undo' = IF Current # Manifest /\ Applied(Current, unreadable)
               THEN Append(undo, Current) ELSE undo
    /\ mode' = "rollback" /\ work' = {}
    /\ UNCHANGED <<disk, backups, snap, next, incomplete, outcome,
                   round, edits, crashes, history>>

\* A created file that is gone by itself needs no undoing.
RollbackFails(fault) ==
    /\ mode = "rollback" /\ Fails(fault)
    /\ undo' = Front(undo)
    /\ incomplete' = (incomplete \/ fault \/ disk[Current] # None \/ snap[Current] # None)
    /\ UNCHANGED <<disk, backups, mode, work, snap, next, outcome,
                   round, edits, crashes, history>>

\* Mutant: a step that failed is dropped from the manifest all the same.
Forgotten(manifest, f) == manifest

\* What an uninstall step that failed leaves behind stays in the manifest.
Restored(manifest, f) ==
    IF f = Fragment THEN [manifest EXCEPT !.fragment = snap[Manifest].fragment]
    ELSE [manifest EXCEPT !.targets[f] = snap[Manifest].targets[f]]

UninstallFails(fault) ==
    /\ mode = "uninstall" /\ Fails(fault) /\ Current # Manifest
    /\ next' = Restored(next, Current) /\ work' = work \ {Current}
    /\ UNCHANGED <<disk, backups, mode, undo, snap, incomplete, outcome,
                   round, edits, crashes, history>>

\* The manifest cannot be saved or removed: the command returns the error.
UninstallAborts(fault) ==
    /\ mode = "uninstall" /\ Fails(fault) /\ Current = Manifest
    /\ mode' = "idle" /\ work' = {} /\ outcome' = "error"
    /\ UNCHANGED <<disk, backups, undo, snap, next, incomplete,
                   round, edits, crashes, history>>

Finish ==
    /\ mode # "idle" /\ ~Pending
    /\ mode' = "idle" /\ undo' = <<>>
    /\ outcome' = CASE mode = "install"   -> "installed"
                    [] mode = "uninstall" -> "uninstalled"
                    [] OTHER -> IF incomplete THEN "incomplete" ELSE "failed"
    /\ clean' = (clean /\ ~(mode = "rollback" /\ incomplete))
    /\ UNCHANGED <<disk, backups, at, work, snap, next, incomplete,
                   round, edits, faults, crashes, mine, late, touched, live, added, planted>>

\* The undo stack is in memory only: a kill forgets it.
Crash ==
    /\ mode # "idle" /\ crashes < MaxCrashes
    /\ mode' = "idle" /\ at' = "begin" /\ work' = {} /\ undo' = <<>>
    /\ outcome' = "crashed" /\ crashes' = crashes + 1 /\ clean' = FALSE
    /\ UNCHANGED <<disk, backups, snap, next, incomplete, round, edits, faults,
                   mine, late, touched, live, added, planted>>

-----------------------------------------------------------------------------
(* The user and Windows Terminal *)

\* Between the last comparison and the move; between the move and the read-back.
InWindow(f) == Busy /\ f = Current /\ at = "checked"
TakesOver(f) == Busy /\ f = Current /\ at = "moved" /\ mode = "install"

UserPart(c) == IF c = None THEN None ELSE c.edit

EditSettings(t, content) ==
    /\ edits < MaxEdits /\ edits' = edits + 1
    /\ disk' = [disk EXCEPT ![t] = content]
    /\ mine' = [mine EXCEPT ![t] = UserPart(content)]
    /\ late' = IF InWindow(t) THEN late \cup {t} ELSE late \ {t}
    /\ touched' = touched \cup {t}
    /\ live' = [live EXCEPT ![t] =
           IF content = None THEN {} ELSE {b \in @ : content.bound[b] = "ours"}]
    /\ clean' = (clean /\ ~TakesOver(t))
    /\ UNCHANGED <<backups, process, round, faults, crashes, added, planted>>

EditFragment(text) ==
    /\ edits < MaxEdits /\ edits' = edits + 1 /\ disk[Fragment] # text
    /\ disk' = [disk EXCEPT ![Fragment] = text]
    /\ late' = IF InWindow(Fragment) THEN late \cup {Fragment} ELSE late \ {Fragment}
    /\ touched' = touched \cup {Fragment}
    /\ planted' = (planted /\ text = "rewritten")
    /\ clean' = (clean /\ ~TakesOver(Fragment))
    /\ UNCHANGED <<backups, process, round, faults, crashes, mine, live, added>>

Edit ==
    \/ \E t \in Targets :
          \/ \E b \in [Bindings -> BindingStates] :
                EditSettings(t, [bound |-> b, edit |-> edits + 1])
          \/ disk[t] # None /\ EditSettings(t, None)
    \/ \E text \in {None, "rewritten", "foreign"} : EditFragment(text)

-----------------------------------------------------------------------------
(* A machine without Winter, or one an earlier version was installed on *)

Idle ==
    /\ mode = "idle" /\ at = "begin" /\ work = {} /\ undo = <<>>
    /\ snap = disk /\ next = EmptyManifest /\ incomplete = FALSE /\ outcome = "none"
    /\ round = 0 /\ edits = 0 /\ faults = 0 /\ crashes = 0
    /\ mine = [t \in Targets |-> 0] /\ late = {} /\ touched = {} /\ clean = TRUE

Init ==
    /\ \/ /\ \E bound \in [Targets -> [Bindings -> BindingStates]] :
                disk = [f \in Files |-> IF f \in Targets THEN [bound |-> bound[f], edit |-> 0]
                                        ELSE None]
          /\ backups = [t \in Targets |-> <<>>]
          /\ live = [t \in Targets |-> {}] /\ planted = FALSE
       \/ /\ disk = [f \in Files |->
                CASE f = Fragment -> "outdated"
                  [] f = Manifest -> [fragment |-> "outdated",
                         targets |-> [t \in Targets |-> [owned |-> Bindings, backup |-> 0]]]
                  [] OTHER -> [bound |-> [b \in Bindings |-> "ours"], edit |-> 0]]
          /\ backups = [t \in Targets |-> <<0>>]
          /\ live = [t \in Targets |-> Bindings] /\ planted = TRUE
    /\ added = live
    /\ Idle

Winter ==
    \/ \E unread \in SUBSET Targets : StartInstall(unread)
    \/ StartUninstall
    \/ BackUp \/ Stage \/ Recheck \/ Move \/ Verify \/ Finish \/ Crash
    \/ \E fault \in BOOLEAN :
          \/ \E unreadable \in BOOLEAN : InstallFails(fault, unreadable)
          \/ RollbackFails(fault) \/ UninstallFails(fault) \/ UninstallAborts(fault)

Next == Winter \/ Edit

Spec == Init /\ [][Next]_vars

-----------------------------------------------------------------------------
(* Properties *)

\* Every variable has its type; a channel never has more backups than
\* KEEP_BACKUPS_PER_LABEL, and only a settings file, the fragment or the
\* manifest is ever waiting to be written.
TypeOK ==
    /\ \A t \in Targets : disk[t] \in Settings \cup {None}
    /\ disk[Fragment] \in FragmentTexts \cup {None} /\ disk[Manifest] \in Manifests \cup {None}
    /\ DOMAIN disk = Files /\ DOMAIN snap = Files
    /\ backups \in [Targets -> UNION {[1..n -> 0..MaxRounds] : n \in 0..KeepBackups}]
    /\ mode \in {"idle", "install", "rollback", "uninstall"}
    /\ at \in {"begin", "backed", "staged", "checked", "moved"}
    /\ work \subseteq Files /\ undo \in Seq(Files \ {Manifest})
    /\ next \in Manifests /\ incomplete \in BOOLEAN
    /\ outcome \in {"none", "installed", "uninstalled", "failed", "incomplete", "error", "crashed"}
    /\ round \in 0..MaxRounds /\ edits \in 0..MaxEdits
    /\ faults \in 0..MaxFaults /\ crashes \in 0..MaxCrashes
    /\ mine \in [Targets -> (0..MaxEdits) \cup {None}]
    /\ late \subseteq Files /\ touched \subseteq Files
    /\ live \in [Targets -> SUBSET Bindings] /\ added \in [Targets -> SUBSET Bindings]
    /\ planted \in BOOLEAN /\ clean \in BOOLEAN

\* No install, rollback or uninstall, failed or killed, loses what the user
\* last did to a settings file, unless that edit fell between the second
\* comparison and the move, the residual race transaction.rs documents.
UserEditsSurvive ==
    \A t \in Targets : t \in late \/ UserPart(disk[t]) = mine[t]

\* An install that reports a plain failure, not an incomplete rollback, has
\* left the fragment and every settings file the user did not touch
\* meanwhile exactly as it found them, wherever the failure struck.
FailedInstallRestores ==
    outcome = "failed" => \A f \in Files \ (touched \cup {Manifest}) : disk[f] = snap[f]

\* A binding of a settings file that changes by Winter's doing was absent, or
\* is one Winter once added, as it was added: neither the identical binding a
\* user wrote first nor an entry the user changed is taken for a managed one.
RemovesOnlyItsOwn ==
    [][\A t \in Targets, b \in Bindings :
          (/\ edits' = edits /\ t \notin late
           /\ disk[t] # None /\ disk[t].bound[b] # "absent"
           /\ disk'[t].bound[b] # disk[t].bound[b])
          => disk[t].bound[b] = "ours" /\ b \in added[t]]_vars

\* Between commands, after any failures short of a kill, an incomplete
\* rollback or an edit that keeps an install from reading its own write
\* back, the manifest accounts for everything Winter left in the user's
\* files, so that a later uninstall can take it out.
NothingOrphaned ==
    mode = "idle" /\ clean =>
        LET known == Loaded(disk[Manifest])
        IN  /\ \A t \in Targets : live[t] \subseteq known.targets[t].owned
            /\ planted => known.fragment # None

\* The backup a manifest record points at has not been pruned.
RecordedBackupsExist ==
    disk[Manifest] # None =>
        \A t \in Targets : LET record == disk[Manifest].targets[t]
                           IN  record.owned # {} => record.backup \in Range(backups[t])
=============================================================================
