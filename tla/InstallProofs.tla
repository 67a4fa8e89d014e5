--------------------------- MODULE InstallProofs ---------------------------
(***************************************************************************)
(* Proofs about what Winter leaves on a machine.  The settings entries and *)
(* the fragment: whose edits survive, what a removal may take, what a      *)
(* failed install leaves behind, and that the manifest accounts for all    *)
(* Winter left, for any channels and bindings, any number of commands,     *)
(* edits, faults and kills, and any order of theirs.  Then the logon task, *)
(* for any callers, each with a helper of its own, and any changes by      *)
(* others, failing calls and killed helpers.  Then the block in a shell    *)
(* profile, for texts of any length and any commands, edits and faults:    *)
(* what each write and each edit does to a text is a splice of it, and     *)
(* what a splice keeps of the places outside it carries the invariants.    *)
(***************************************************************************)
EXTENDS MCInstall, SequenceTheorems, FiniteSetTheorems, WellFoundedInduction, TLAPS

-----------------------------------------------------------------------------
(***************************************************************************)
(* Where the process is, and what it has yet to write or to undo.          *)
(***************************************************************************)
IsDisk(d) ==
  /\ d = [f \in Files |-> d[f]]
  /\ \A t \in Targets : d[t] \in Settings \cup {None}
  /\ d[Fragment] \in FragmentTexts \cup {None}
  /\ d[Manifest] \in Manifests \cup {None}

Owned(m, t) == m.targets[t].owned

Moving(f) == at = "moved" /\ f = Current
Ahead == work \cup Range(undo)

ProcessInv ==
  /\ IsDisk(disk) /\ IsDisk(snap) /\ next \in Manifests
  /\ mode \in {"idle", "install", "rollback", "uninstall"}
  /\ at \in {"begin", "backed", "staged", "checked", "moved"}
  /\ work \subseteq Files /\ undo \in Seq(Files \ {Manifest})
  /\ round \in 0..MaxRounds
  /\ ~Busy => at = "begin"
  /\ mode \in {"idle", "rollback"} => work = {}
  /\ mode \in {"idle", "uninstall"} => undo = <<>>
  /\ mode = "uninstall" => snap[Manifest] \in Manifests /\ (Busy => Manifest \in work)
  /\ \A t \in Targets \cap Ahead : snap[t] \in Settings

-----------------------------------------------------------------------------
(***************************************************************************)
(* What the process compared is there until the move, or the edit is late. *)
(***************************************************************************)
CheckedInv ==
  at = "checked" => Current \in late \/ disk[Current] = Expected(Current)

SurvivalInv == CheckedInv /\ UserEditsSurvive /\ mine = [t \in Targets |-> mine[t]]

-----------------------------------------------------------------------------
(***************************************************************************)
(* Every binding the manifest claims, or is going to, Winter once added.   *)
(***************************************************************************)
NumbersInv ==
  /\ edits \in Nat
  /\ \A t \in Targets : /\ disk[t] # None => disk[t].edit <= edits
                        /\ snap[t] # None => snap[t].edit <= edits

Planned(t) == IF t \in work THEN Additions(snap[t]) ELSE {}

AddedInv ==
  /\ added = [t \in Targets |-> added[t]]
  /\ \A t \in Targets : Loaded(disk[Manifest]).targets[t].owned \subseteq added[t]
  /\ mode = "install" => \A t \in Targets : next.targets[t].owned \subseteq added[t] \cup Planned(t)
  /\ mode = "uninstall" => \A t \in Targets : next.targets[t].owned \subseteq added[t]
                               /\ snap[Manifest].targets[t].owned \subseteq added[t]
  /\ mode = "install" => \A t \in Targets : Moving(t) => Additions(snap[t]) \subseteq added[t]
  /\ mode \in {"install", "rollback"} =>
        \A t \in Targets : snap[t] # None /\ disk[t] = Merged(snap[t])
                             => Additions(snap[t]) \subseteq added[t]

-----------------------------------------------------------------------------
(***************************************************************************)
(* A file nobody touched is as it was found, or is to be undone.           *)
(***************************************************************************)
RestoreInv ==
  /\ outcome = "failed" => mode = "idle"
  /\ mode = "install" => \A f \in Files \ (touched \cup {Manifest}) :
        disk[f] = snap[f] \/ (disk[f] = Installed(f) /\ (f \in Range(undo) \/ Moving(f)))
  /\ mode = "rollback" /\ ~incomplete => \A f \in Files \ (touched \cup {Manifest}) :
        /\ disk[f] = snap[f] \/ (disk[f] = Installed(f) /\ f \in Range(undo))
        /\ Moving(f) => disk[f] = snap[f]
  /\ FailedInstallRestores

-----------------------------------------------------------------------------
(***************************************************************************)
(* What Winter left is in the manifest on disk, or in the one to come.     *)
(***************************************************************************)
InPlaceInv ==
  /\ live \in [Targets -> SUBSET Bindings]
  /\ \A t \in Targets : \A b \in live[t] : disk[t] # None /\ disk[t].bound[b] = "ours"
  /\ planted => disk[Fragment] # None

\* What is undone, or moved and not yet noted, needs no record.
Undoable(f) == f \in Range(undo) \/ (mode = "install" /\ Moving(f))

ManifestInv ==
  /\ mode = "install" /\ (Manifest \notin work \/ Moving(Manifest)) => Loaded(disk[Manifest]) = next
  /\ mode = "uninstall" =>
        IF Manifest \notin work \/ Moving(Manifest) THEN Loaded(disk[Manifest]) = next
        ELSE disk[Manifest] = snap[Manifest]

InstallInv ==
  mode = "install" =>
     /\ \A t \in Targets \cap work : Additions(snap[t]) \subseteq Owned(next, t)
     /\ Fragment \in Ahead => next.fragment # None
     /\ clean => \A f \in Files : Moving(f) => disk[f] = Installed(f)
     /\ clean => \A t \in Targets : live[t] \subseteq Owned(next, t)
     /\ clean => (planted => next.fragment # None)

RollbackInv ==
  mode \in {"install", "rollback"} /\ clean /\ ~incomplete =>
     /\ \A t \in Targets : 
           live[t] \subseteq Owned(Loaded(disk[Manifest]), t)
                \cup (IF Undoable(t) THEN Additions(snap[t]) ELSE {})
     /\ planted => Loaded(disk[Manifest]).fragment # None \/ Undoable(Fragment)
     /\ Fragment \in Ahead /\ snap[Fragment] # None => Loaded(disk[Manifest]).fragment # None
     /\ mode = "rollback" => \A t \in Targets : Moving(t) => live[t] \subseteq Owned(Loaded(disk[Manifest]), t)
     /\ mode = "rollback" /\ Moving(Fragment) /\ planted => Loaded(disk[Manifest]).fragment # None

UninstallInv ==
  mode = "uninstall" /\ clean =>
     /\ \A t \in Targets : live[t] \subseteq Owned(snap[Manifest], t)
     /\ \A t \in Targets : t \notin work \/ Moving(t) => live[t] \subseteq Owned(next, t)
     /\ planted => snap[Manifest].fragment # None
     /\ planted /\ (Fragment \notin work \/ Moving(Fragment)) => next.fragment # None

OrphanInv == InPlaceInv /\ ManifestInv /\ InstallInv /\ RollbackInv /\ UninstallInv /\ NothingOrphaned

-----------------------------------------------------------------------------
(* What the model's operators do. *)

\* The names of the files are apart, and None is no content of a file.
LEMMA NamesAreApart ==
  /\ Fragment # Manifest /\ Fragment \notin Targets /\ Manifest \notin Targets
  /\ Fragment \in Files /\ Manifest \in Files /\ Targets \subseteq Files
  /\ None \notin Settings /\ None \notin FragmentTexts /\ None \notin Manifests
BY IntegrationAssumption, NoneAssumption DEF IntegrationAssumption, Files

\* A set of natural numbers has a least one.
LEMMA LeastNumber ==
  ASSUME NEW T, T \subseteq Nat, T # {}
  PROVE  \E x \in T : \A y \in T : x <= y
<1>1. PICK x \in T : \A y \in T : ~(<<y, x>> \in OpToRel(<, Nat))
  BY WFMin, NatLessThanWellFounded
<1>2. ASSUME NEW y \in T PROVE ~(y < x)
  BY <1>1, Zenon DEF OpToRel
<1> QED
  BY <1>2

\* The next file to write is one of those left, and the manifest comes last.
LEMMA FirstIsLeft ==
  ASSUME NEW files, files \subseteq Files, files # {}
  PROVE  First(files) \in files /\ (First(files) = Manifest => files = {Manifest})
<1>1. CASE Fragment \in files
  BY <1>1, NamesAreApart DEF First
<1>2. CASE Fragment \notin files /\ files \cap Targets = {}
  BY <1>2, NamesAreApart DEF First, Files
<1>3. CASE Fragment \notin files /\ files \cap Targets # {}
  <2> DEFINE places == {i \in DOMAIN TargetOrder : TargetOrder[i] \in files}
             isFirst(i) == TargetOrder[i] \in files
                             /\ \A j \in 1..(i - 1) : TargetOrder[j] \notin files
  <2>1. TargetOrder \in Seq(Targets) /\ places \subseteq Nat /\ places # {}
    BY <1>3, IntegrationAssumption DEF IntegrationAssumption, Targets, Range
  <2>2. PICK i \in places : \A j \in places : i <= j
    BY <2>1, LeastNumber
  <2>3. isFirst(i) /\ i \in DOMAIN TargetOrder
    BY <2>1, <2>2
  <2>4. First(files) = TargetOrder[CHOOSE k \in DOMAIN TargetOrder : isFirst(k)]
    BY <1>3 DEF First
  <2>5. First(files) \in files /\ First(files) \in Targets
    BY <2>1, <2>3, <2>4
  <2> QED
    BY <2>5, NamesAreApart
<1> QED
  BY <1>1, <1>2, <1>3

\* What is on the undo stack without its top, and with one more on it.
LEMMA StackProperties ==
  ASSUME NEW S, NEW s \in Seq(S)
  PROVE  /\ s # <<>> => /\ Front(s) \in Seq(S) /\ Last(s) \in S
                        /\ Range(s) = Range(Front(s)) \cup {Last(s)}
         /\ \A e \in S : Append(s, e) \in Seq(S) /\ Range(Append(s, e)) = Range(s) \cup {e}
         /\ Range(s) \subseteq S
<1>1. ASSUME s # <<>>
      PROVE  /\ Front(s) \in Seq(S) /\ Last(s) \in S
             /\ Range(s) = Range(Front(s)) \cup {Last(s)}
  <2>1. Len(s) \in Nat \ {0} /\ DOMAIN s = 1..Len(s)
    BY <1>1
  <2>2. Front(s) \in Seq(S) /\ Len(Front(s)) = Len(s) - 1
        /\ \A i \in 1..(Len(s) - 1) : Front(s)[i] = s[i]
    BY <2>1 DEF Front
  <2>3. DOMAIN Front(s) = 1..(Len(s) - 1)
    BY <2>2, <2>1
  <2>4. Last(s) \in S
    BY <2>1 DEF Last
  <2> QED
    BY <2>1, <2>2, <2>3, <2>4 DEF Range, Last
<1>2. ASSUME NEW e \in S
      PROVE  Append(s, e) \in Seq(S) /\ Range(Append(s, e)) = Range(s) \cup {e}
  <2>1. /\ Append(s, e) \in Seq(S) /\ Len(Append(s, e)) = Len(s) + 1
        /\ \A i \in 1..Len(s) : Append(s, e)[i] = s[i]
        /\ Append(s, e)[Len(s) + 1] = e
    BY AppendProperties
  <2>2. DOMAIN Append(s, e) = 1..(Len(s) + 1) /\ DOMAIN s = 1..Len(s) /\ Len(s) \in Nat
    BY <2>1
  <2> QED
    BY <2>1, <2>2 DEF Range
<1>3. Range(s) \subseteq S
  BY DEF Range
<1> QED
  BY <1>1, <1>2, <1>3

\* What the settings editor makes of a file.
LEMMA MergedProperties ==
  ASSUME NEW c \in Settings
  PROVE  /\ Merged(c) \in Settings /\ Merged(c).edit = c.edit
         /\ \A b \in Bindings : Merged(c).bound[b] =
               IF c.bound[b] = "absent" THEN "ours" ELSE c.bound[b]
BY DEF Settings, Merged, BindingStates

LEMMA WithoutProperties ==
  ASSUME NEW c \in Settings, NEW bs
  PROVE  /\ Without(c, bs) \in Settings /\ Without(c, bs).edit = c.edit
         /\ \A b \in Bindings : Without(c, bs).bound[b] =
               IF b \in bs THEN "absent" ELSE c.bound[b]
BY DEF Settings, Without, BindingStates

LEMMA ManifestProperties ==
  /\ EmptyManifest \in Manifests
  /\ \A m \in Manifests \cup {None} : Loaded(m) \in Manifests
  /\ \A m \in Manifests : Loaded(m) = m
BY NamesAreApart, IntegrationAssumption
   DEF EmptyManifest, Manifests, NoRecord, TargetRecords, Loaded, IntegrationAssumption

\* The bounds are natural numbers.
LEMMA BoundsAreNat == MaxRounds \in Nat /\ MaxEdits \in Nat /\ MaxFaults \in Nat /\ MaxCrashes \in Nat
BY IntegrationAssumption, Zenon DEF IntegrationAssumption

-----------------------------------------------------------------------------
(* The commands' plans. *)

Quiet == UNCHANGED <<disk, backups, edits, crashes, mine, late, live, added, planted, clean>>

Planning(m) ==
  /\ mode = "idle" /\ mode' = m /\ at' = "begin" /\ undo' = <<>> /\ snap' = disk
  /\ incomplete' = FALSE /\ outcome' = "none" /\ touched' = {} /\ Quiet

\* install claims what a file it writes lacks, and drops no claim.
LEMMA InstallPlan ==
  ASSUME ProcessInv, NEW unread, StartInstall(unread)
  PROVE  LET known == Loaded(disk[Manifest])
         IN  /\ Planning("install") /\ round' \in 0..MaxRounds
             /\ work' \subseteq Files /\ next' \in Manifests
             /\ \A t \in Targets : t \in work' => disk[t] \in Settings
             /\ \A t \in Targets :
                  Owned(next', t) = Owned(known, t)
                     \cup (IF t \in work' THEN Additions(disk[t]) ELSE {})
             /\ Manifest \notin work' => next' = known
             /\ Fragment \in work' => /\ next'.fragment = "desired"
                                      /\ disk[Fragment] # None => known.fragment # None
             /\ Fragment \notin work' /\ known.fragment # None => next'.fragment # None
<1> DEFINE known == Loaded(disk[Manifest])
           ready == Ready(unread)
           status == FragmentStatus(disk[Fragment], known.fragment)
           planned == [fragment |-> NextFragment(known.fragment),
                       targets |-> [t \in Targets |-> NextRecord(t, known.targets[t], ready)]]
           edited(f) ==
             \/ f = Fragment /\ status \in {"Create", "Update"}
             \/ f \in ready /\ Additions(disk[f]) # {}
             \/ f = Manifest /\ planned # known
<1>1. /\ mode = "idle" /\ round < MaxRounds /\ round' = round + 1 /\ status # "Conflict"
      /\ Start("install", {f \in Files : edited(f)}, planned)
  BY DEF StartInstall
<1>2. Planning("install") /\ work' = {f \in Files : edited(f)} /\ next' = planned
  BY <1>1 DEF Planning, Quiet, Start
<1>3. known \in Manifests /\ ready \subseteq Targets /\ \A t \in ready : disk[t] \in Settings
  BY ManifestProperties DEF ProcessInv, IsDisk, Ready
<1>4. round' \in 0..MaxRounds
  BY <1>1, BoundsAreNat DEF ProcessInv
<1>5. \A t \in Targets : edited(t) <=> t \in ready /\ Additions(disk[t]) # {}
  BY NamesAreApart
<1>6. \A t \in Targets : known.targets[t] \in TargetRecords /\ Additions(disk[t]) \subseteq Bindings
  BY <1>3 DEF Manifests, Additions
<1>7. \A t \in Targets :
        /\ planned.targets[t] \in TargetRecords
        /\ Owned(planned, t) = Owned(known, t) \cup (IF edited(t) THEN Additions(disk[t]) ELSE {})
  <2> SUFFICES ASSUME NEW t \in Targets
               PROVE  /\ planned.targets[t] \in TargetRecords
                      /\ planned.targets[t].owned = known.targets[t].owned
                            \cup (IF edited(t) THEN Additions(disk[t]) ELSE {})
    BY DEF Owned
  <2> DEFINE r == [owned |-> known.targets[t].owned \cup Additions(disk[t]), backup |-> round']
  <2>1. planned.targets[t] = NextRecord(t, known.targets[t], ready)
    OBVIOUS
  <2>2. planned.targets[t] = IF edited(t) THEN r ELSE known.targets[t]
    BY <1>1, <1>5, <2>1 DEF NextRecord
  <2>3. r \in TargetRecords /\ r.owned = known.targets[t].owned \cup Additions(disk[t])
    BY <1>4, <1>6 DEF TargetRecords
  <2> HIDE DEF planned, known, edited, r
  <2> QED
    BY <1>6, <2>2, <2>3
<1>9. planned.fragment \in FragmentTexts \cup {None}
  BY NamesAreApart DEF ProcessInv, IsDisk, NextFragment, FragmentStatus, SameActions, FragmentTexts
<1>12. edited(Fragment) => planned.fragment = "desired" /\ (disk[Fragment] # None => known.fragment # None)
  BY <1>3, NamesAreApart DEF FragmentStatus, NextFragment, SameActions
<1>13. ~edited(Fragment) /\ known.fragment # None => planned.fragment # None
  BY <1>1, NamesAreApart DEF FragmentStatus, NextFragment, SameActions, FragmentTexts
<1>14. ~edited(Manifest) => planned = known
  OBVIOUS
<1>8. planned = [fragment |-> planned.fragment, targets |-> [t \in Targets |-> planned.targets[t]]]
  OBVIOUS
<1> HIDE DEF planned, edited, known, ready, status
<1>10. planned \in Manifests
  BY <1>7, <1>8, <1>9 DEF Manifests
<1>15. \A f \in Files : f \in work' <=> edited(f)
  BY <1>2
<1>16. work' \subseteq Files /\ next' = planned
  BY <1>2
<1>17. \A t \in Targets : t \in work' <=> edited(t)
  BY <1>15, NamesAreApart
<1>18. \A t \in Targets : t \in work' => disk[t] \in Settings
  BY <1>3, <1>5, <1>17
<1>19. \A t \in Targets : Owned(next', t) = Owned(known, t)
                             \cup (IF t \in work' THEN Additions(disk[t]) ELSE {})
  BY <1>7, <1>16, <1>17
<1> QED
  BY <1>2, <1>4, <1>10, <1>12, <1>13, <1>14, <1>15, <1>16, <1>18, <1>19, NamesAreApart DEF known

\* uninstall gives up what it takes out, and keeps the claim to what it leaves.
LEMMA UninstallPlan ==
  ASSUME ProcessInv, StartUninstall
  PROVE  /\ Planning("uninstall") /\ UNCHANGED round
         /\ work' \subseteq Files /\ Manifest \in work' /\ next' \in Manifests
         /\ disk[Manifest] \in Manifests
         /\ \A t \in Targets : t \in work' => disk[t] \in Settings
         /\ \A t \in Targets : Owned(next', t) \subseteq Owned(disk[Manifest], t)
         /\ \A t \in Targets : t \notin work' /\ disk[t] # None =>
               \A b \in Owned(disk[Manifest], t) : disk[t].bound[b] # "ours"
         /\ Fragment \notin work' /\ disk[Fragment] # None => next'.fragment = disk[Manifest].fragment
<1> DEFINE known == disk[Manifest]
           owned(t) == known.targets[t].owned
           keptOf(t) == IF disk[t] = None THEN {} ELSE Retained(disk[t], owned(t))
           planned == [fragment |-> IF disk[Fragment] \in {None, known.fragment} THEN None
                                    ELSE known.fragment,
                       targets |-> [t \in Targets |-> IF keptOf(t) = {} THEN NoRecord
                                       ELSE [known.targets[t] EXCEPT !.owned = keptOf(t)]]]
           edited(f) ==
             \/ f = Fragment /\ disk[f] # None /\ disk[f] = known.fragment
             \/ f \in Targets /\ disk[f] # None /\ Removed(disk[f], owned(f)) # {}
             \/ f = Manifest
<1>1. /\ mode = "idle" /\ disk[Manifest] # None /\ UNCHANGED round
      /\ Start("uninstall", {f \in Files : edited(f)}, planned)
  BY DEF StartUninstall
<1>2. Planning("uninstall") /\ work' = {f \in Files : edited(f)} /\ next' = planned
  BY <1>1 DEF Planning, Quiet, Start
<1>3. known \in Manifests
  BY <1>1 DEF ProcessInv, IsDisk
<1>4. \A t \in Targets : known.targets[t] \in TargetRecords /\ keptOf(t) \subseteq owned(t)
  BY <1>3 DEF Manifests, Retained
<1>5. \A t \in Targets : planned.targets[t] \in TargetRecords /\ Owned(planned, t) \subseteq owned(t)
  BY <1>4, BoundsAreNat DEF TargetRecords, NoRecord, Owned
<1>6. planned.fragment \in FragmentTexts \cup {None}
  BY <1>3 DEF Manifests
<1>7. planned \in Manifests
  BY <1>5, <1>6 DEF Manifests
<1>8. \A t \in Targets : edited(t) => disk[t] # None
  BY NamesAreApart
<1>9. \A t \in Targets : ~edited(t) /\ disk[t] # None => \A b \in owned(t) : disk[t].bound[b] # "ours"
  BY DEF Removed
<1>10. ~edited(Fragment) /\ disk[Fragment] # None => planned.fragment = known.fragment
  OBVIOUS
<1>11. edited(Manifest)
  OBVIOUS
<1> HIDE DEF planned, edited
<1>12. \A f \in Files : f \in work' <=> edited(f)
  BY <1>2
<1>13. work' \subseteq Files /\ next' = planned
  BY <1>2
<1>14. \A t \in Targets : t \in work' <=> edited(t)
  BY <1>12, NamesAreApart
<1>15. \A t \in Targets : t \in work' => disk[t] \in Settings
  BY <1>8, <1>14 DEF ProcessInv, IsDisk
<1>16. \A t \in Targets : Owned(next', t) \subseteq Owned(disk[Manifest], t)
  BY <1>5, <1>13 DEF Owned
<1>17. \A t \in Targets : t \notin work' /\ disk[t] # None =>
               \A b \in Owned(disk[Manifest], t) : disk[t].bound[b] # "ours"
  BY <1>9, <1>14 DEF Owned
<1> QED
  BY <1>1, <1>2, <1>3, <1>7, <1>10, <1>11, <1>12, <1>13, <1>15, <1>16, <1>17, NamesAreApart

-----------------------------------------------------------------------------
(* The file being written, and what is written to it. *)
LEMMA CurrentIsAhead ==
  ASSUME ProcessInv, Busy
  PROVE  /\ Current \in Files /\ Current \in Ahead
         /\ mode # "rollback" => Current \in work /\ (Current = Manifest => work = {Manifest})
         /\ mode = "rollback" => Current \in Range(undo) /\ Current # Manifest
<1>1. CASE mode = "rollback"
  <2>1. undo # <<>> /\ Current = Last(undo) /\ undo \in Seq(Files \ {Manifest})
    BY <1>1 DEF Busy, Pending, Current, ProcessInv
  <2>2. Last(undo) \in Range(undo) /\ Last(undo) \in Files \ {Manifest}
    BY <2>1, StackProperties
  <2> QED
    BY <1>1, <2>1, <2>2 DEF Ahead
<1>2. CASE mode # "rollback"
  <2>1. work # {} /\ Current = First(work) /\ work \subseteq Files
    BY <1>2 DEF Busy, Pending, Current, ProcessInv
  <2> QED
    BY <1>2, <2>1, FirstIsLeft DEF Ahead
<1> QED
  BY <1>1, <1>2

\* A write keeps the user's part of a settings file, and every file of its kind.
LEMMA WrittenContents ==
  ASSUME ProcessInv, Busy
  PROVE  /\ \A t \in Targets : t = Current =>
              /\ snap[t] \in Settings /\ Replacement(t) \in Settings /\ Expected(t) \in Settings
              /\ Replacement(t).edit = snap[t].edit /\ Expected(t).edit = snap[t].edit
         /\ Current = Fragment => Replacement(Fragment) \in FragmentTexts \cup {None}
         /\ Current = Manifest => Replacement(Manifest) \in Manifests \cup {None}
<1>1. mode \in {"install", "rollback", "uninstall"}
  BY DEF ProcessInv, Busy
<1>2. ASSUME NEW t \in Targets, t = Current
      PROVE  /\ snap[t] \in Settings /\ Replacement(t) \in Settings /\ Expected(t) \in Settings
             /\ Replacement(t).edit = snap[t].edit /\ Expected(t).edit = snap[t].edit
  <2>1. snap[t] \in Settings
    BY <1>2, CurrentIsAhead DEF ProcessInv
  <2>2. Installed(t) = Merged(snap[t])
    BY NamesAreApart DEF Installed
  <2>3. mode = "uninstall" => Uninstalled(t) =
          Without(snap[t], Removed(snap[t], snap[Manifest].targets[t].owned))
    BY NamesAreApart DEF Uninstalled
  <2>4. Merged(snap[t]) \in Settings /\ Merged(snap[t]).edit = snap[t].edit
    BY <2>1, MergedProperties
  <2>5. \A bs : Without(snap[t], bs) \in Settings /\ Without(snap[t], bs).edit = snap[t].edit
    BY <2>1, WithoutProperties
  <2> QED
    BY <1>1, <2>1, <2>2, <2>3, <2>4, <2>5 DEF Replacement, Expected
<1>3. snap[Fragment] \in FragmentTexts \cup {None}
  BY DEF ProcessInv, IsDisk
<1>4. Current = Fragment => Replacement(Fragment) \in FragmentTexts \cup {None}
  <2>1. Installed(Fragment) = "desired" /\ Uninstalled(Fragment) = None
    BY NamesAreApart DEF Installed, Uninstalled
  <2>2. "desired" \in FragmentTexts
    BY DEF FragmentTexts
  <2> QED
    BY <1>1, <1>3, <2>1, <2>2 DEF Replacement
<1>5. Current = Manifest => Replacement(Manifest) \in Manifests \cup {None}
  BY <1>1, NamesAreApart, CurrentIsAhead DEF ProcessInv, Replacement, Installed, Uninstalled
<1> QED
  BY <1>2, <1>4, <1>5

\* Nothing else of the machine moves than the progress of the write.
Checks == BackUp \/ Stage \/ Recheck

LEMMA ChecksKeep ==
  ASSUME ProcessInv, Checks
  PROVE  /\ Busy /\ at' \in {"backed", "staged", "checked"} /\ at # "moved"
         /\ at' = "checked" => disk[Current] = Expected(Current)
         /\ UNCHANGED <<disk, mode, work, undo, snap, next, incomplete, outcome,
                        round, edits, faults, crashes, history>>
         /\ Current' = Current /\ Busy'
<1>1. /\ Busy /\ at' \in {"backed", "staged", "checked"} /\ at # "moved"
      /\ at' = "checked" => disk[Current] = Expected(Current)
      /\ UNCHANGED <<disk, mode, work, undo, snap, next, incomplete, outcome,
                     round, edits, faults, crashes, history>>
  BY DEF Checks, BackUp, Stage, Recheck, Unchanged
<1> QED
  BY <1>1 DEF Current, Busy, Pending

\* What an edit by the user puts into a file and what it leaves alone.
LEMMA EditKeeps ==
  ASSUME ProcessInv, NumbersInv, Edit
  PROVE  /\ UNCHANGED <<backups, process, round, faults, crashes, added>>
         /\ edits' = edits + 1 /\ (clean' => clean) /\ Current' = Current /\ Busy' = Busy
         /\ \/ \E t \in Targets, content \in Settings \cup {None} :
                  /\ EditSettings(t, content)
                  /\ content # None => content.edit = edits + 1
            \/ \E text \in FragmentTexts \cup {None} : EditFragment(text)
<1>1. /\ \/ \E t \in Targets, content \in Settings \cup {None} :
                  /\ EditSettings(t, content)
                  /\ content # None => content.edit = edits + 1
         \/ \E text \in FragmentTexts \cup {None} : EditFragment(text)
  <2>1. ASSUME NEW t \in Targets, NEW b \in [Bindings -> BindingStates],
               EditSettings(t, [bound |-> b, edit |-> edits + 1])
        PROVE  [bound |-> b, edit |-> edits + 1] \in Settings
    BY <2>1, BoundsAreNat DEF EditSettings, NumbersInv, Settings
  <2>2. \A text \in {None, "rewritten", "foreign"} : text \in FragmentTexts \cup {None}
    BY DEF FragmentTexts
  <2>3. CASE \E text \in {None, "rewritten", "foreign"} : EditFragment(text)
    BY <2>2, <2>3
  <2>4. ASSUME NEW t \in Targets, NEW b \in [Bindings -> BindingStates],
               EditSettings(t, [bound |-> b, edit |-> edits + 1])
        PROVE  \E content \in Settings \cup {None} :
                  EditSettings(t, content) /\ (content # None => content.edit = edits + 1)
    <3> DEFINE c == [bound |-> b, edit |-> edits + 1]
    <3>1. c \in Settings /\ c.edit = edits + 1 /\ EditSettings(t, c)
      BY <2>1, <2>4
    <3> QED
      BY <3>1
  <2>5. ASSUME NEW t \in Targets, EditSettings(t, None)
        PROVE  \E content \in Settings \cup {None} :
                  EditSettings(t, content) /\ (content # None => content.edit = edits + 1)
    BY <2>5
  <2> QED
    BY <2>3, <2>4, <2>5 DEF Edit
<1>2. /\ UNCHANGED <<backups, process, round, faults, crashes, added>>
      /\ edits' = edits + 1 /\ (clean' => clean)
  BY <1>1 DEF EditSettings, EditFragment
<1> QED
  BY <1>1, <1>2 DEF process, Current, Busy, Pending

-----------------------------------------------------------------------------
\* A machine without Winter, or one an earlier version was installed on.
NoWinter ==
  /\ disk[Manifest] = None /\ disk[Fragment] = None
  /\ \A t \in Targets : live[t] = {}
  /\ planted = FALSE

EarlierWinter ==
  /\ disk[Manifest] \in Manifests /\ disk[Fragment] = "outdated"
  /\ disk[Manifest].fragment = "outdated"
  /\ \A t \in Targets : /\ Owned(disk[Manifest], t) = Bindings /\ live[t] = Bindings
                        /\ \A b \in Bindings : disk[t].bound[b] = "ours"

LEMMA InitContents ==
  ASSUME Init
  PROVE  /\ IsDisk(disk) /\ \A t \in Targets : disk[t] \in Settings /\ disk[t].edit = 0
         /\ live \in [Targets -> SUBSET Bindings]
         /\ NoWinter \/ EarlierWinter
<1>1. ASSUME NEW bound \in [Targets -> [Bindings -> BindingStates]],
             disk = [f \in Files |-> IF f \in Targets THEN [bound |-> bound[f], edit |-> 0]
                                      ELSE None],
             live = [t \in Targets |-> {}], planted = FALSE
      PROVE  /\ IsDisk(disk) /\ \A t \in Targets : disk[t] \in Settings /\ disk[t].edit = 0
             /\ live \in [Targets -> SUBSET Bindings] /\ NoWinter
  <2>1. \A t \in Targets : disk[t] \in Settings /\ disk[t].edit = 0
    BY <1>1, BoundsAreNat, NamesAreApart DEF Settings
  <2>2. disk[Fragment] = None /\ disk[Manifest] = None
    BY <1>1, NamesAreApart
  <2>3. disk = [f \in Files |-> disk[f]]
    BY <1>1
  <2> QED
    BY <1>1, <2>1, <2>2, <2>3 DEF IsDisk, NoWinter
<1>2. ASSUME disk = [f \in Files |->
                CASE f = Fragment -> "outdated"
                  [] f = Manifest -> [fragment |-> "outdated",
                         targets |-> [t \in Targets |-> [owned |-> Bindings, backup |-> 0]]]
                  [] OTHER -> [bound |-> [b \in Bindings |-> "ours"], edit |-> 0]],
             live = [t \in Targets |-> Bindings]
      PROVE  /\ IsDisk(disk) /\ \A t \in Targets : disk[t] \in Settings /\ disk[t].edit = 0
             /\ live \in [Targets -> SUBSET Bindings] /\ EarlierWinter
  <2> DEFINE m == [fragment |-> "outdated",
                   targets |-> [t \in Targets |-> [owned |-> Bindings, backup |-> 0]]]
             c == [bound |-> [b \in Bindings |-> "ours"], edit |-> 0]
  <2>1. c \in Settings /\ c.edit = 0 /\ \A b \in Bindings : c.bound[b] = "ours"
    BY BoundsAreNat DEF Settings, BindingStates
  <2>2. m \in Manifests /\ m.fragment = "outdated" /\ \A t \in Targets : Owned(m, t) = Bindings
    BY BoundsAreNat DEF Manifests, FragmentTexts, TargetRecords, Owned
  <2>3. /\ \A t \in Targets : disk[t] = c
        /\ disk[Fragment] = "outdated" /\ disk[Manifest] = m
    BY <1>2, NamesAreApart
  <2>4. disk = [f \in Files |-> disk[f]]
    BY <1>2
  <2> HIDE DEF c, m
  <2>5. "outdated" \in FragmentTexts
    BY DEF FragmentTexts
  <2> QED
    BY <1>2, <2>1, <2>2, <2>3, <2>4, <2>5 DEF IsDisk, EarlierWinter
<1> QED
  BY <1>1, <1>2 DEF Init

LEMMA InitProcess == Init => ProcessInv /\ NumbersInv
<1> SUFFICES ASSUME Init PROVE ProcessInv /\ NumbersInv
  OBVIOUS
<1>1. /\ mode = "idle" /\ at = "begin" /\ work = {} /\ undo = <<>> /\ snap = disk
      /\ next = EmptyManifest /\ round = 0 /\ edits = 0
  BY DEF Init, Idle
<1>2. next \in Manifests
  BY <1>1, ManifestProperties
<1>3. undo \in Seq(Files \ {Manifest}) /\ Range(undo) = {}
  BY <1>1 DEF Range
<1>4. ~Busy /\ Ahead = {}
  BY <1>1, <1>3 DEF Busy, Ahead
<1>5. round \in 0..MaxRounds
  BY <1>1, BoundsAreNat
<1> QED
  BY <1>1, <1>2, <1>3, <1>4, <1>5, InitContents DEF ProcessInv, NumbersInv

LEMMA StartKeepsProcess ==
  ASSUME ProcessInv, (\E unread \in SUBSET Targets : StartInstall(unread)) \/ StartUninstall
  PROVE  ProcessInv' /\ (mode' = "install" \/ mode' = "uninstall") /\ mode = "idle"
<1>1. ASSUME NEW unread, StartInstall(unread) PROVE ProcessInv'
  <2>1. /\ Planning("install") /\ round' \in 0..MaxRounds
        /\ work' \subseteq Files /\ next' \in Manifests
        /\ \A t \in Targets : t \in work' => disk[t] \in Settings
    BY <1>1, InstallPlan
  <2>2. Range(undo') = {} /\ undo' \in Seq(Files \ {Manifest})
    BY <2>1 DEF Planning, Range
  <2> QED
    BY <2>1, <2>2 DEF Planning, Quiet, ProcessInv, IsDisk, Ahead, Busy
<1>2. ASSUME StartUninstall PROVE ProcessInv'
  <2>1. /\ Planning("uninstall") /\ UNCHANGED round
        /\ work' \subseteq Files /\ Manifest \in work' /\ next' \in Manifests
        /\ disk[Manifest] \in Manifests
        /\ \A t \in Targets : t \in work' => disk[t] \in Settings
    BY <1>2, UninstallPlan
  <2>2. Range(undo') = {} /\ undo' \in Seq(Files \ {Manifest})
    BY <2>1 DEF Planning, Range
  <2> QED
    BY <2>1, <2>2 DEF Planning, Quiet, ProcessInv, IsDisk, Ahead, Busy
<1>3. mode = "idle" /\ mode' \in {"install", "uninstall"}
  BY DEF StartInstall, StartUninstall, Start
<1> QED
  BY <1>1, <1>2, <1>3

LEMMA MoveKeepsProcess ==
  ASSUME ProcessInv, Move
  PROVE  ProcessInv' /\ Current' = Current /\ Busy /\ Busy'
<1>1. /\ Busy /\ at' = "moved" /\ disk' = [disk EXCEPT ![Current] = Replacement(Current)]
      /\ UNCHANGED <<mode, work, undo, snap, next, round>>
  BY DEF Move
<1>2. Current' = Current /\ Busy' /\ Ahead' = Ahead
  BY <1>1 DEF Current, Busy, Pending, Ahead
<1>3. /\ \A f \in Files : disk'[f] = IF f = Current THEN Replacement(Current) ELSE disk[f]
      /\ disk' = [f \in Files |-> disk'[f]]
  BY <1>1 DEF ProcessInv, IsDisk
<1>4. IsDisk(disk)'
  BY <1>1, <1>3, WrittenContents, NamesAreApart DEF ProcessInv, IsDisk
<1> QED
  BY <1>1, <1>2, <1>4 DEF ProcessInv, IsDisk

LEMMA EditKeepsProcess ==
  ASSUME ProcessInv, NumbersInv, Edit
  PROVE  ProcessInv'
<1>1. UNCHANGED <<process, round>> /\ Busy' = Busy
  BY EditKeeps
<1>2. IsDisk(disk)'
  <2>1. ASSUME NEW t \in Targets, NEW content \in Settings \cup {None}, EditSettings(t, content)
        PROVE  IsDisk(disk)'
    <3>1. disk' = [disk EXCEPT ![t] = content]
      BY <2>1 DEF EditSettings
    <3> QED
      BY <3>1, NamesAreApart DEF ProcessInv, IsDisk
  <2>2. ASSUME NEW text \in FragmentTexts \cup {None}, EditFragment(text)
        PROVE  IsDisk(disk)'
    <3>1. disk' = [disk EXCEPT ![Fragment] = text]
      BY <2>2 DEF EditFragment
    <3> QED
      BY <3>1, NamesAreApart DEF ProcessInv, IsDisk
  <2> QED
    BY <2>1, <2>2, EditKeeps
<1> QED
  BY <1>1, <1>2 DEF process, ProcessInv, IsDisk, Ahead

\* The steps that end a write, or a command.
InstallEnds == mode = "install" /\ \E fault, unreadable \in BOOLEAN : InstallFails(fault, unreadable)
RollbackEnds == mode = "rollback" /\ \E fault \in BOOLEAN : RollbackFails(fault)
UninstallEnds == mode = "uninstall" /\ \E fault \in BOOLEAN : UninstallFails(fault)
UninstallStops == mode = "uninstall" /\ \E fault \in BOOLEAN : UninstallAborts(fault)

\* What a step of the process that ends a write, or the command, does to the two stacks.
Ends == Verify \/ InstallEnds \/ RollbackEnds \/ UninstallEnds \/ UninstallStops \/ Finish \/ Crash

LEMMA VerifyStacks ==
  ASSUME ProcessInv, Verify
  PROVE  /\ Busy /\ at = "moved" /\ at' = "begin"
         /\ UNCHANGED <<disk, backups, mode, snap, next, incomplete, outcome,
                        round, edits, faults, crashes, history>>
         /\ undo' \in Seq(Files \ {Manifest})
         /\ mode = "rollback" => /\ undo # <<>> /\ work' = work
                                 /\ Range(undo) = Range(undo') \cup {Current}
         /\ mode # "rollback" => /\ work' = work \ {Current}
                                 /\ Current = Manifest => work' = {}
         /\ mode = "install" => Range(undo') = Range(undo) \cup ({Current} \ {Manifest})
         /\ mode = "uninstall" => undo' = undo
<1>1. /\ Busy /\ at = "moved" /\ at' = "begin"
      /\ UNCHANGED <<disk, backups, mode, snap, next, incomplete, outcome,
                     round, edits, faults, crashes, history>>
      /\ mode = "rollback" => undo' = Front(undo) /\ work' = work
      /\ mode # "rollback" => /\ work' = work \ {Current}
                              /\ undo' = IF mode = "install" /\ Current # Manifest
                                         THEN Append(undo, Current) ELSE undo
  BY DEF Verify
<1>2. undo \in Seq(Files \ {Manifest}) /\ Current \in Files
  BY <1>1, CurrentIsAhead DEF ProcessInv
<1>3. CASE mode = "rollback"
  <2>1. undo # <<>> /\ Current = Last(undo)
    BY <1>1, <1>3 DEF Busy, Pending, Current
  <2> QED
    BY <1>1, <1>2, <1>3, <2>1, StackProperties
<1>4. CASE mode # "rollback"
  <2>1. Current = Manifest => work' = {}
    BY <1>1, <1>4, CurrentIsAhead
  <2>2. Current # Manifest => Append(undo, Current) \in Seq(Files \ {Manifest})
                              /\ Range(Append(undo, Current)) = Range(undo) \cup {Current}
    <3> SUFFICES ASSUME Current # Manifest
                 PROVE  Append(undo, Current) \in Seq(Files \ {Manifest})
                        /\ Range(Append(undo, Current)) = Range(undo) \cup {Current}
      OBVIOUS
    <3>1. Current \in Files \ {Manifest} /\ undo \in Seq(Files \ {Manifest})
      BY <1>2
    <3> QED
      BY <3>1, StackProperties
  <2> QED
    BY <1>1, <1>2, <1>4, <2>1, <2>2
<1> QED
  BY <1>3, <1>4

LEMMA InstallFailsStacks ==
  ASSUME ProcessInv, InstallEnds
  PROVE  /\ Busy /\ at' = "begin" /\ mode = "install" /\ mode' = "rollback" /\ work' = {}
         /\ UNCHANGED <<disk, backups, snap, next, incomplete, outcome,
                        round, edits, crashes, history>>
         /\ undo' \in Seq(Files \ {Manifest})
         /\ \/ UNCHANGED undo /\ (Current # Manifest => disk[Current] # Installed(Current))
            \/ Range(undo') = Range(undo) \cup {Current} /\ Current # Manifest
<1>1. PICK fault \in BOOLEAN, unreadable \in BOOLEAN : InstallFails(fault, unreadable)
  BY DEF InstallEnds
<1>2. /\ mode = "install" /\ Busy /\ at' = "begin" /\ mode' = "rollback" /\ work' = {}
      /\ undo' = IF Current # Manifest /\ Applied(Current, unreadable)
                 THEN Append(undo, Current) ELSE undo
      /\ UNCHANGED <<disk, backups, snap, next, incomplete, outcome,
                     round, edits, crashes, history>>
  BY <1>1 DEF InstallFails, Fails
<1>3. undo \in Seq(Files \ {Manifest}) /\ Current \in Files
  BY <1>2, CurrentIsAhead DEF ProcessInv
<1>4. Current # Manifest => Append(undo, Current) \in Seq(Files \ {Manifest})
                            /\ Range(Append(undo, Current)) = Range(undo) \cup {Current}
  <2> SUFFICES ASSUME Current # Manifest
               PROVE  Append(undo, Current) \in Seq(Files \ {Manifest})
                      /\ Range(Append(undo, Current)) = Range(undo) \cup {Current}
    OBVIOUS
  <2>1. Current \in Files \ {Manifest} /\ undo \in Seq(Files \ {Manifest})
    BY <1>3
  <2> QED
    BY <2>1, StackProperties
<1> QED
  BY <1>2, <1>3, <1>4 DEF Applied

LEMMA RollbackFailsStacks ==
  ASSUME ProcessInv, RollbackEnds
  PROVE  /\ Busy /\ at' = "begin" /\ mode = "rollback"
         /\ ~incomplete' => ~incomplete /\ disk[Current] = None /\ snap[Current] = None
         /\ UNCHANGED <<disk, backups, mode, work, snap, next, outcome,
                        round, edits, crashes, history>>
         /\ undo' \in Seq(Files \ {Manifest}) /\ Range(undo) = Range(undo') \cup {Current}
<1>1. PICK fault \in BOOLEAN : RollbackFails(fault)
  BY DEF RollbackEnds
<1>2. /\ mode = "rollback" /\ Busy /\ at' = "begin" /\ undo' = Front(undo)
      /\ incomplete' = (incomplete \/ fault \/ disk[Current] # None \/ snap[Current] # None)
      /\ UNCHANGED <<disk, backups, mode, work, snap, next, outcome,
                     round, edits, crashes, history>>
  BY <1>1 DEF RollbackFails, Fails
<1>3. undo # <<>> /\ Current = Last(undo) /\ undo \in Seq(Files \ {Manifest})
  BY <1>2 DEF Busy, Pending, Current, ProcessInv
<1> QED
  BY <1>2, <1>3, StackProperties

LEMMA UninstallFailsStacks ==
  ASSUME ProcessInv, UninstallEnds
  PROVE  /\ Busy /\ at' = "begin" /\ mode = "uninstall" /\ Current # Manifest
         /\ next' = Restored(next, Current) /\ work' = work \ {Current}
         /\ UNCHANGED <<disk, backups, mode, undo, snap, incomplete, outcome,
                        round, edits, crashes, history>>
BY DEF UninstallEnds, UninstallFails, Fails

LEMMA UninstallAbortsStacks ==
  ASSUME ProcessInv, UninstallStops
  PROVE  /\ Busy /\ at' = "begin" /\ mode = "uninstall" /\ Current = Manifest
         /\ mode' = "idle" /\ work' = {} /\ outcome' = "error"
         /\ UNCHANGED <<disk, backups, undo, snap, next, incomplete,
                        round, edits, crashes, history>>
BY DEF UninstallStops, UninstallAborts, Fails

\* What failed stays claimed as it was.
LEMMA RestoredProperties ==
  ASSUME ProcessInv, mode = "uninstall", NEW f \in Files \ {Manifest}
  PROVE  /\ Restored(next, f) \in Manifests
         /\ Restored(next, f).fragment = IF f = Fragment THEN snap[Manifest].fragment ELSE next.fragment
         /\ \A t \in Targets : Owned(Restored(next, f), t) =
               IF t = f THEN Owned(snap[Manifest], t) ELSE Owned(next, t)
<1>1. next \in Manifests /\ snap[Manifest] \in Manifests
  BY DEF ProcessInv
<1>2. CASE f = Fragment
  BY <1>1, <1>2, NamesAreApart DEF Restored, Manifests, Owned
<1>3. CASE f # Fragment
  <2>1. f \in Targets
    BY <1>3 DEF Files
  <2>2. Restored(next, f) = [fragment |-> next.fragment,
                             targets |-> [next.targets EXCEPT ![f] = snap[Manifest].targets[f]]]
    BY <1>1, <1>3 DEF Restored, Manifests
  <2> QED
    BY <1>1, <1>3, <2>1, <2>2 DEF Manifests, Owned
<1> QED
  BY <1>2, <1>3

LEMMA EndsKeepProcess ==
  ASSUME ProcessInv, Ends
  PROVE  ProcessInv'
<1>1. CASE Verify
  <2>1. Ahead' \subseteq Ahead
    BY <1>1, VerifyStacks, CurrentIsAhead DEF Ahead, ProcessInv
  <2>2. mode = "uninstall" /\ Busy' => Manifest \in work'
    BY <1>1, VerifyStacks DEF ProcessInv, Busy, Pending
  <2> QED
    <3>1. /\ mode # "idle" /\ at' = "begin" /\ UNCHANGED <<disk, mode, snap, next, round>>
          /\ undo' \in Seq(Files \ {Manifest}) /\ work' \subseteq work
          /\ mode = "uninstall" => undo' = undo
      BY <1>1, VerifyStacks DEF Busy
    <3> QED
      BY <2>1, <2>2, <3>1 DEF ProcessInv, IsDisk
<1>2. CASE InstallEnds
  <2>1. Ahead' \subseteq Ahead
    BY <1>2, InstallFailsStacks, CurrentIsAhead DEF Ahead
  <2> QED
    BY <1>2, <2>1, InstallFailsStacks DEF ProcessInv, IsDisk
<1>3. CASE RollbackEnds
  <2>1. Ahead' \subseteq Ahead
    BY <1>3, RollbackFailsStacks DEF Ahead
  <2> QED
    BY <1>3, <2>1, RollbackFailsStacks DEF ProcessInv, IsDisk
<1>4. CASE UninstallEnds
  <2>1. Ahead' \subseteq Ahead /\ Manifest \in work'
    BY <1>4, UninstallFailsStacks DEF Ahead, ProcessInv
  <2>2. next' \in Manifests
    BY <1>4, UninstallFailsStacks, RestoredProperties, CurrentIsAhead
  <2> QED
    BY <1>4, <2>1, <2>2, UninstallFailsStacks DEF ProcessInv, IsDisk
<1>5. CASE UninstallStops
  BY <1>5, UninstallAbortsStacks DEF ProcessInv, IsDisk, Ahead
<1>6. CASE Finish \/ Crash
  <2>1. /\ mode' = "idle" /\ undo' = <<>> /\ UNCHANGED <<disk, snap, next, round>>
        /\ work' = {} /\ at' = "begin"
    BY <1>6 DEF Finish, Crash, ProcessInv, Busy, Pending
  <2>2. undo' \in Seq(Files \ {Manifest}) /\ Ahead' = {}
    BY <2>1 DEF Ahead, Range
  <2> QED
    BY <2>1, <2>2 DEF ProcessInv, IsDisk, Busy
<1> QED
  BY <1>1, <1>2, <1>3, <1>4, <1>5, <1>6 DEF Ends

\* The end of a write changes no file and nothing the histories remember of them.
LEMMA EndsKeepFiles ==
  ASSUME ProcessInv, Ends
  PROVE  /\ UNCHANGED <<disk, snap, round, edits, mine, late, touched, live, added, planted>>
         /\ at' = "begin" /\ (clean' => clean) /\ mode # "idle"
<1>1. CASE Verify
  BY <1>1, VerifyStacks DEF history, Busy
<1>2. CASE InstallEnds
  BY <1>2, InstallFailsStacks DEF history
<1>3. CASE RollbackEnds
  BY <1>3, RollbackFailsStacks DEF history
<1>4. CASE UninstallEnds
  BY <1>4, UninstallFailsStacks DEF history
<1>5. CASE UninstallStops
  BY <1>5, UninstallAbortsStacks DEF history
<1>6. CASE Finish \/ Crash
  BY <1>6 DEF Finish, Crash, ProcessInv, Busy
<1> QED
  BY <1>1, <1>2, <1>3, <1>4, <1>5, <1>6 DEF Ends

StartsCommand == (\E unread \in SUBSET Targets : StartInstall(unread)) \/ StartUninstall

LEMMA NextCases ==
  ASSUME [Next]_vars
  PROVE  StartsCommand \/ Checks \/ Move \/ Ends \/ Edit \/ UNCHANGED vars
<1>1. \A fault, unreadable \in BOOLEAN : InstallFails(fault, unreadable) => InstallEnds
  BY DEF InstallEnds, InstallFails
<1>2. \A fault \in BOOLEAN : /\ RollbackFails(fault) => RollbackEnds
                             /\ UninstallFails(fault) => UninstallEnds
                             /\ UninstallAborts(fault) => UninstallStops
  BY DEF RollbackEnds, RollbackFails, UninstallEnds, UninstallFails, UninstallStops, UninstallAborts
<1> QED
  BY <1>1, <1>2 DEF Next, Winter, StartsCommand, Checks, Ends

LEMMA ProcessStep ==
  ASSUME ProcessInv, NumbersInv, [Next]_vars
  PROVE  ProcessInv'
<1>1. CASE Checks
  BY <1>1, ChecksKeep DEF ProcessInv, IsDisk, Ahead
<1>2. CASE UNCHANGED vars
  BY <1>2 DEF vars, process, ProcessInv, IsDisk, Ahead, Busy, Pending
<1> QED
  BY <1>1, <1>2, NextCases, StartKeepsProcess, MoveKeepsProcess, EndsKeepProcess,
     EditKeepsProcess DEF StartsCommand

\* The start of a command reads the files and changes none.
LEMMA StartReads ==
  ASSUME StartsCommand
  PROVE  /\ mode = "idle" /\ Planning(mode') /\ mode' \in {"install", "uninstall"}
         /\ Busy' => ~Busy
BY DEF StartsCommand, StartInstall, StartUninstall, Start, Planning, Quiet, Busy

LEMMA NumbersStep ==
  ASSUME ProcessInv, NumbersInv, [Next]_vars
  PROVE  NumbersInv'
<1>1. CASE StartsCommand
  BY <1>1, StartReads DEF Planning, Quiet, NumbersInv
<1>2. CASE Checks
  BY <1>2, ChecksKeep DEF NumbersInv
<1>3. CASE Move
  <2>1. /\ Busy /\ disk' = [disk EXCEPT ![Current] = Replacement(Current)] /\ UNCHANGED <<snap, edits>>
    BY <1>3 DEF Move
  <2>2. \A f \in Files : disk'[f] = IF f = Current THEN Replacement(Current) ELSE disk[f]
    BY <2>1 DEF ProcessInv, IsDisk
  <2> QED
    BY <2>1, <2>2, WrittenContents, NamesAreApart DEF NumbersInv
<1>4. CASE Ends
  BY <1>4, EndsKeepFiles DEF NumbersInv
<1>5. CASE Edit
  <2>1. edits' = edits + 1 /\ UNCHANGED snap
    BY <1>5, EditKeeps DEF process
  <2>2. \A t \in Targets : disk'[t] = disk[t] \/ disk'[t] = None \/ disk'[t].edit = edits + 1
    BY <1>5, EditKeeps, NamesAreApart DEF EditSettings, EditFragment, ProcessInv, IsDisk
  <2>3. \A t \in Targets : (disk[t] # None => disk[t].edit \in Nat) /\ (snap[t] # None => snap[t].edit \in Nat)
    <3>1. \A c \in Settings : c.edit \in Nat
      BY BoundsAreNat DEF Settings
    <3> QED
      BY <3>1 DEF ProcessInv, IsDisk
  <2> QED
    BY <2>1, <2>2, <2>3 DEF NumbersInv
<1>6. CASE UNCHANGED vars
  BY <1>6 DEF vars, process, NumbersInv
<1> QED
  BY <1>1, <1>2, <1>3, <1>4, <1>5, <1>6, NextCases

-----------------------------------------------------------------------------
(***************************************************************************)
(* Whose edits survive.                                                    *)
(***************************************************************************)
LEMMA MoveKeepsEdits ==
  ASSUME ProcessInv, SurvivalInv, Move
  PROVE  SurvivalInv'
<1>1. /\ Busy /\ at = "checked" /\ at' = "moved" /\ UNCHANGED <<mine, late>>
      /\ disk' = [disk EXCEPT ![Current] = Replacement(Current)]
  BY DEF Move
<1>2. \A f \in Files : disk'[f] = IF f = Current THEN Replacement(Current) ELSE disk[f]
  BY <1>1 DEF ProcessInv, IsDisk
<1>3. ASSUME NEW t \in Targets, t \notin late PROVE UserPart(disk'[t]) = mine[t]
  <2>1. UserPart(disk[t]) = mine[t]
    BY <1>3 DEF SurvivalInv, UserEditsSurvive
  <2>2. CASE t = Current
    <3>1. disk[t] = Expected(t) /\ disk'[t] = Replacement(t)
      BY <1>1, <1>2, <1>3, <2>2, NamesAreApart DEF SurvivalInv, CheckedInv
    <3> QED
      BY <1>1, <2>1, <2>2, <3>1, WrittenContents, NamesAreApart DEF UserPart
  <2>3. CASE t # Current
    BY <1>2, <2>1, <2>3, NamesAreApart
  <2> QED
    BY <2>2, <2>3
<1> QED
  BY <1>1, <1>3 DEF SurvivalInv, CheckedInv, UserEditsSurvive

LEMMA EditKeepsEdits ==
  ASSUME ProcessInv, NumbersInv, SurvivalInv, Edit
  PROVE  SurvivalInv'
<1>1. UNCHANGED process /\ Current' = Current /\ Busy' = Busy
  BY EditKeeps
<1>2. at = "checked" => Busy
  BY DEF ProcessInv
<1>3. ASSUME NEW f \in Files, f # Manifest, NEW content, disk' = [disk EXCEPT ![f] = content],
             late' = IF InWindow(f) THEN late \cup {f} ELSE late \ {f}
      PROVE  CheckedInv'
  <2>1. at' = at /\ Expected(Current)' = Expected(Current)
    BY <1>1 DEF process, Expected, Installed
  <2> SUFFICES ASSUME at = "checked" PROVE Current \in late' \/ disk'[Current] = Expected(Current)
    BY <1>1, <2>1 DEF CheckedInv
  <2>2. Current \in Files /\ (Current \in late \/ disk[Current] = Expected(Current))
    BY <1>2, CurrentIsAhead DEF SurvivalInv, CheckedInv
  <2>3. InWindow(f) <=> f = Current
    BY <1>2 DEF InWindow
  <2> QED
    BY <1>3, <2>2, <2>3 DEF ProcessInv, IsDisk
<1>4. ASSUME NEW t \in Targets, NEW content \in Settings \cup {None}, EditSettings(t, content)
      PROVE  SurvivalInv'
  <2>1. /\ disk' = [disk EXCEPT ![t] = content] /\ mine' = [mine EXCEPT ![t] = UserPart(content)]
        /\ late' = IF InWindow(t) THEN late \cup {t} ELSE late \ {t}
    BY <1>4 DEF EditSettings
  <2>2. CheckedInv'
    BY <1>3, <2>1, NamesAreApart
  <2>3. ASSUME NEW u \in Targets, u # t PROVE u \in late' \/ UserPart(disk'[u]) = mine'[u]
    BY <2>1, <2>3, NamesAreApart DEF SurvivalInv, UserEditsSurvive, ProcessInv, IsDisk
  <2>4. t \in late' \/ UserPart(disk'[t]) = mine'[t]
    BY <2>1, NamesAreApart DEF SurvivalInv, ProcessInv, IsDisk
  <2> QED
    BY <2>1, <2>2, <2>3, <2>4 DEF SurvivalInv, UserEditsSurvive
<1>5. ASSUME NEW text, EditFragment(text) PROVE SurvivalInv'
  <2>1. /\ disk' = [disk EXCEPT ![Fragment] = text] /\ UNCHANGED mine
        /\ late' = IF InWindow(Fragment) THEN late \cup {Fragment} ELSE late \ {Fragment}
    BY <1>5 DEF EditFragment
  <2>2. CheckedInv'
    BY <1>3, <2>1, NamesAreApart
  <2>3. \A u \in Targets : u \in late' \/ UserPart(disk'[u]) = mine'[u]
    BY <2>1, NamesAreApart DEF SurvivalInv, UserEditsSurvive, ProcessInv, IsDisk
  <2> QED
    BY <2>1, <2>2, <2>3 DEF SurvivalInv, UserEditsSurvive
<1> QED
  BY <1>4, <1>5, EditKeeps

LEMMA InitSurvival == Init => SurvivalInv
<1> SUFFICES ASSUME Init PROVE SurvivalInv
  OBVIOUS
<1>1. at = "begin" /\ mine = [t \in Targets |-> 0]
  BY DEF Init, Idle
<1>2. \A t \in Targets : disk[t] # None /\ disk[t].edit = 0
  BY InitContents, NamesAreApart
<1> QED
  BY <1>1, <1>2 DEF SurvivalInv, CheckedInv, UserEditsSurvive, UserPart

LEMMA SurvivalStep ==
  ASSUME ProcessInv, NumbersInv, SurvivalInv, [Next]_vars
  PROVE  SurvivalInv'
<1>1. CASE StartsCommand
  BY <1>1, StartReads DEF Planning, Quiet, SurvivalInv, CheckedInv, UserEditsSurvive
<1>2. CASE Checks
  <2>1. /\ at' = "checked" => disk'[Current'] = Expected(Current)'
        /\ UNCHANGED <<disk, history>>
    BY <1>2, ChecksKeep DEF Expected, Installed
  <2> QED
    BY <2>1 DEF history, SurvivalInv, CheckedInv, UserEditsSurvive
<1>3. CASE Ends
  BY <1>3, EndsKeepFiles DEF SurvivalInv, CheckedInv, UserEditsSurvive
<1>4. CASE UNCHANGED vars
  BY <1>4 DEF vars, process, history, SurvivalInv, CheckedInv, UserEditsSurvive, Current, Expected,
     Installed
<1> QED
  BY <1>1, <1>2, <1>3, <1>4, MoveKeepsEdits, EditKeepsEdits, NextCases

LEMMA SpecSurvival == Spec => [](ProcessInv /\ NumbersInv /\ SurvivalInv)
<1>1. Init => ProcessInv /\ NumbersInv /\ SurvivalInv
  BY InitProcess, InitSurvival
<1>2. ProcessInv /\ NumbersInv /\ SurvivalInv /\ [Next]_vars
        => ProcessInv' /\ NumbersInv' /\ SurvivalInv'
  BY ProcessStep, NumbersStep, SurvivalStep
<1> QED
  BY <1>1, <1>2, PTL DEF Spec

\* No install, rollback or uninstall, failed or killed, loses what the user last did to a
\* settings file: atomic_replace compares twice, and what it moves in carries the edit it
\* compared with.
THEOREM SpecUserEditsSurvive == Spec => []UserEditsSurvive
<1>1. SurvivalInv => UserEditsSurvive
  BY DEF SurvivalInv
<1> QED
  BY <1>1, SpecSurvival, PTL

-----------------------------------------------------------------------------
(***************************************************************************)
(* What a removal may take.                                                *)
(***************************************************************************)

\* A file that merging leaves as it is lacked nothing.
LEMMA MergedLacksNothing ==
  ASSUME NEW c \in Settings, c = Merged(c)
  PROVE  Additions(c) = {}
BY MergedProperties DEF Additions

\* The step that puts a file in place, for a proof to take apart.
LEMMA MoveFiles ==
  ASSUME ProcessInv, Move
  PROVE  /\ Busy /\ at = "checked" /\ at' = "moved" /\ Current \in Files /\ Current' = Current
         /\ \A f \in Files : disk'[f] = IF f = Current THEN Replacement(Current) ELSE disk[f]
         /\ UNCHANGED <<mode, work, undo, snap, next, incomplete, outcome, round, edits, mine,
                        late, touched, clean>>
         /\ mode = "install" \/ mode = "rollback" \/ mode = "uninstall"
<1>1. /\ Busy /\ at = "checked" /\ at' = "moved"
      /\ disk' = [disk EXCEPT ![Current] = Replacement(Current)]
      /\ UNCHANGED <<mode, work, undo, snap, next, incomplete, outcome, round, edits, mine,
                     late, touched, clean>>
  BY DEF Move
<1> QED
  BY <1>1, CurrentIsAhead DEF ProcessInv, IsDisk, Busy, Current

\* An install notes what it adds, the other commands add nothing.
LEMMA MoveAdds ==
  ASSUME ProcessInv, AddedInv, Move
  PROVE  /\ added' = [t \in Targets |-> added'[t]]
         /\ \A t \in Targets : added'[t] = IF t = Current /\ mode = "install"
                                           THEN added[t] \cup Additions(snap[t]) ELSE added[t]
<1>1. CASE Current \in Targets
  <2>1. added' = [added EXCEPT ![Current] = @ \cup
                     (IF mode = "install" THEN Additions(snap[Current]) ELSE {})]
    BY <1>1 DEF Move
  <2> QED
    BY <1>1, <2>1 DEF AddedInv
<1>2. CASE Current \notin Targets
  <2>1. UNCHANGED added
    BY <1>2 DEF Move
  <2> QED
    BY <1>2, <2>1 DEF AddedInv
<1> QED
  BY <1>1, <1>2

LEMMA StartKeepsAdded ==
  ASSUME ProcessInv, ProcessInv', AddedInv, StartsCommand
  PROVE  AddedInv'
<1> DEFINE known == Loaded(disk[Manifest])
<1>1. \A t \in Targets : Owned(known, t) \subseteq added[t]
  BY DEF AddedInv, Owned
<1>2. \A t \in Targets : disk[t] # None /\ disk[t] = Merged(disk[t]) => Additions(disk[t]) = {}
  BY MergedLacksNothing DEF ProcessInv, IsDisk
<1>3. ASSUME NEW unread, StartInstall(unread) PROVE AddedInv'
  <2>1. /\ Planning("install")
        /\ \A t \in Targets :
             Owned(next', t) = Owned(known, t) \cup (IF t \in work' THEN Additions(disk[t]) ELSE {})
    BY <1>3, InstallPlan
  <2>2. \A t \in Targets : ~Moving(t)'
    BY <2>1 DEF Planning, Moving
  <2> QED
    BY <1>1, <1>2, <2>1, <2>2 DEF Planning, Quiet, AddedInv, Planned, Owned
<1>4. ASSUME StartUninstall PROVE AddedInv'
  <2>1. /\ Planning("uninstall") /\ disk[Manifest] \in Manifests
        /\ \A t \in Targets : Owned(next', t) \subseteq Owned(disk[Manifest], t)
    BY <1>4, UninstallPlan
  <2>2. disk[Manifest] = known
    BY <2>1, ManifestProperties
  <2> QED
    BY <1>1, <2>1, <2>2 DEF Planning, Quiet, AddedInv, Owned
<1> QED
  BY <1>3, <1>4 DEF StartsCommand

LEMMA MoveKeepsAdded ==
  ASSUME ProcessInv, AddedInv, Move
  PROVE  AddedInv'
<1> DEFINE grown == \A t \in Targets : added[t] \subseteq added'[t]
<1>1. /\ Busy /\ at' = "moved" /\ Current \in Files /\ Current' = Current
      /\ \A f \in Files : disk'[f] = IF f = Current THEN Replacement(Current) ELSE disk[f]
      /\ UNCHANGED <<mode, work, undo, snap, next>>
      /\ mode = "install" \/ mode = "rollback" \/ mode = "uninstall"
  BY MoveFiles
<1>2. /\ added' = [t \in Targets |-> added'[t]] /\ grown
      /\ mode = "install" => \A t \in Targets : t = Current => Additions(snap[t]) \subseteq added'[t]
  BY MoveAdds
<1>3. \A t \in Targets : Loaded(disk'[Manifest]).targets[t].owned \subseteq added'[t]
  <2>1. CASE Current # Manifest
    BY <1>1, <1>2, <2>1, NamesAreApart DEF AddedInv
  <2>2. CASE Current = Manifest /\ mode = "install"
    <3>1. work = {Manifest} /\ disk'[Manifest] = next /\ next \in Manifests
      BY <1>1, <2>2, CurrentIsAhead, NamesAreApart DEF Replacement, Installed, ProcessInv
    <3>2. Loaded(disk'[Manifest]) = next /\ \A t \in Targets : Planned(t) = {}
      BY <3>1, ManifestProperties, NamesAreApart DEF Planned
    <3> QED
      BY <1>2, <2>2, <3>2 DEF AddedInv
  <2>3. CASE Current = Manifest /\ mode = "uninstall"
    <3>1. disk'[Manifest] = IF next = EmptyManifest THEN None ELSE next
      BY <1>1, <2>3, NamesAreApart DEF Replacement, Uninstalled
    <3>2. Loaded(disk'[Manifest]) = next
      BY <3>1, NamesAreApart DEF Loaded, ProcessInv
    <3> QED
      BY <1>2, <2>3, <3>2 DEF AddedInv
  <2> QED
    BY <1>1, <2>1, <2>2, <2>3, CurrentIsAhead
<1>4. mode \in {"install", "rollback"} =>
        \A t \in Targets : snap[t] # None /\ disk'[t] = Merged(snap[t])
                             => Additions(snap[t]) \subseteq added'[t]
  <2> SUFFICES ASSUME mode \in {"install", "rollback"}, NEW t \in Targets,
                      snap[t] # None, disk'[t] = Merged(snap[t])
               PROVE  Additions(snap[t]) \subseteq added'[t]
    OBVIOUS
  <2>1. CASE t # Current
    BY <1>1, <1>2, <2>1, NamesAreApart DEF AddedInv
  <2>2. CASE t = Current /\ mode = "install"
    BY <1>2, <2>2
  <2>3. CASE t = Current /\ mode = "rollback"
    <3>1. disk'[t] = snap[t] /\ snap[t] \in Settings
      BY <1>1, <2>3, WrittenContents, NamesAreApart DEF Replacement
    <3> QED
      BY <3>1, MergedLacksNothing
  <2> QED
    BY <2>1, <2>2, <2>3
<1> QED
  BY <1>1, <1>2, <1>3, <1>4 DEF AddedInv, Planned, Moving

LEMMA EndsKeepAdded ==
  ASSUME ProcessInv, AddedInv, Ends
  PROVE  AddedInv'
<1>1. UNCHANGED <<disk, snap, added>> /\ at' = "begin"
  BY EndsKeepFiles
<1>2. CASE Verify
  <2>1. /\ at = "moved" /\ UNCHANGED <<mode, next>>
        /\ mode # "rollback" => work' = work \ {Current}
    BY <1>2, VerifyStacks
  <2>2. mode = "install" => \A t \in Targets : Planned(t) \subseteq added[t] \cup Planned(t)'
    BY <1>1, <2>1 DEF AddedInv, Moving, Planned
  <2> QED
    BY <1>1, <2>1, <2>2 DEF AddedInv, Moving
<1>3. CASE InstallEnds
  BY <1>1, <1>3, InstallFailsStacks DEF AddedInv
<1>4. CASE RollbackEnds
  BY <1>1, <1>4, RollbackFailsStacks DEF AddedInv
<1>5. CASE UninstallEnds
  <2>1. mode = "uninstall" /\ UNCHANGED mode /\ next' = Restored(next, Current) /\ Current \in Files \ {Manifest}
    BY <1>5, UninstallFailsStacks, CurrentIsAhead
  <2>2. \A t \in Targets : Owned(next', t) = IF t = Current THEN Owned(snap[Manifest], t) ELSE Owned(next, t)
    BY <2>1, RestoredProperties
  <2> QED
    BY <1>1, <2>1, <2>2 DEF AddedInv, Owned
<1>6. CASE UninstallStops \/ Finish \/ Crash
  <2>1. mode' = "idle"
    BY <1>6, UninstallAbortsStacks DEF Finish, Crash
  <2> QED
    BY <1>1, <2>1 DEF AddedInv
<1> QED
  BY <1>2, <1>3, <1>4, <1>5, <1>6 DEF Ends

\* What the user writes is not what a merge makes of an older text.
LEMMA EditKeepsAdded ==
  ASSUME ProcessInv, NumbersInv, AddedInv, Edit
  PROVE  AddedInv'
<1>1. UNCHANGED <<process, added>> /\ Current' = Current
  BY EditKeeps
<1>2. disk'[Manifest] = disk[Manifest]
  BY EditKeeps, NamesAreApart DEF EditSettings, EditFragment, ProcessInv, IsDisk
<1>3. \A t \in Targets : snap[t] # None /\ disk'[t] = Merged(snap[t]) => disk'[t] = disk[t]
  <2> SUFFICES ASSUME NEW t \in Targets, snap[t] # None, disk'[t] = Merged(snap[t]), disk'[t] # disk[t]
               PROVE  FALSE
    OBVIOUS
  <2>1. snap[t] \in Settings
    BY DEF ProcessInv, IsDisk
  <2>2. disk'[t] \in Settings /\ disk'[t].edit = snap[t].edit /\ snap[t].edit \in Nat
    BY <2>1, MergedProperties, BoundsAreNat DEF Settings
  <2>3. disk'[t] = None \/ disk'[t].edit = edits + 1
    BY EditKeeps, NamesAreApart DEF EditSettings, EditFragment, ProcessInv, IsDisk
  <2> QED
    BY <2>2, <2>3, NamesAreApart DEF NumbersInv
<1> QED
  BY <1>1, <1>2, <1>3 DEF process, AddedInv, Planned, Moving

LEMMA AddedStep ==
  ASSUME ProcessInv, ProcessInv', NumbersInv, AddedInv, [Next]_vars
  PROVE  AddedInv'
<1>1. CASE Checks
  <2>1. /\ at # "moved" /\ at' # "moved"
        /\ UNCHANGED <<disk, mode, work, snap, next, added>>
    BY <1>1, ChecksKeep DEF history
  <2> QED
    BY <2>1 DEF AddedInv, Planned, Moving
<1>2. CASE UNCHANGED vars
  BY <1>2 DEF vars, process, history, AddedInv, Planned, Moving, Current
<1> QED
  BY <1>1, <1>2, StartKeepsAdded, MoveKeepsAdded, EndsKeepAdded, EditKeepsAdded, NextCases

LEMMA InitAdded == Init => AddedInv
<1> SUFFICES ASSUME Init PROVE AddedInv
  OBVIOUS
<1>1. mode = "idle" /\ added = live
  BY DEF Init, Idle
<1>2. live = [t \in Targets |-> live[t]] /\ (NoWinter \/ EarlierWinter)
  BY InitContents
<1>3. \A t \in Targets : Loaded(disk[Manifest]).targets[t].owned \subseteq live[t]
  <2>1. CASE NoWinter
    BY <2>1 DEF NoWinter, Loaded, EmptyManifest, NoRecord
  <2>2. CASE EarlierWinter
    BY <2>2, ManifestProperties DEF EarlierWinter, Owned
  <2> QED
    BY <1>2, <2>1, <2>2
<1> QED
  BY <1>1, <1>2, <1>3 DEF AddedInv

LEMMA SpecAdded == Spec => []AddedInv
<1>1. Init => AddedInv
  BY InitAdded
<1>2. ProcessInv /\ ProcessInv' /\ NumbersInv /\ AddedInv /\ [Next]_vars => AddedInv'
  BY AddedStep
<1> QED
  BY <1>1, <1>2, SpecSurvival, PTL DEF Spec

\* A move changes no binding but one that was absent or that Winter added as it is.
LEMMA MoveTakesItsOwn ==
  ASSUME ProcessInv, SurvivalInv, AddedInv, Move,
         NEW t \in Targets, NEW b \in Bindings, t \notin late, disk[t].bound[b] # "absent",
         disk'[t].bound[b] # disk[t].bound[b]
  PROVE  disk[t].bound[b] = "ours" /\ b \in added[t]
<1>1. /\ Busy /\ at = "checked" /\ (mode = "install" \/ mode = "rollback" \/ mode = "uninstall")
      /\ \A f \in Files : disk'[f] = IF f = Current THEN Replacement(Current) ELSE disk[f]
  BY MoveFiles
<1>2. t = Current /\ disk'[t] = Replacement(t)
  BY <1>1, NamesAreApart
<1>3. disk[t] = Expected(t) /\ snap[t] \in Settings
  BY <1>1, <1>2, WrittenContents DEF SurvivalInv, CheckedInv
<1>4. Installed(t) = Merged(snap[t])
  BY NamesAreApart DEF Installed
<1>5. Merged(snap[t]).bound[b] = IF snap[t].bound[b] = "absent" THEN "ours" ELSE snap[t].bound[b]
  BY <1>3, MergedProperties
<1>6. CASE mode = "install"
  <2>1. disk[t] = snap[t] /\ disk'[t] = Merged(snap[t])
    BY <1>2, <1>3, <1>4, <1>6 DEF Expected, Replacement
  <2> QED
    BY <1>5, <2>1
<1>7. CASE mode = "rollback"
  <2>1. disk[t] = Merged(snap[t]) /\ disk'[t] = snap[t]
    BY <1>2, <1>3, <1>4, <1>7 DEF Expected, Replacement
  <2>2. b \in Additions(snap[t]) /\ disk[t].bound[b] = "ours"
    BY <1>5, <2>1 DEF Additions
  <2>3. Additions(snap[t]) \subseteq added[t]
    BY <1>3, <1>7, <2>1, NamesAreApart DEF AddedInv
  <2> QED
    BY <2>2, <2>3
<1>8. CASE mode = "uninstall"
  <2> DEFINE gone == Removed(snap[t], Owned(snap[Manifest], t))
  <2>1. disk[t] = snap[t] /\ disk'[t] = Without(snap[t], gone)
    BY <1>2, <1>3, <1>8, NamesAreApart DEF Expected, Replacement, Uninstalled, Owned
  <2>2. b \in gone
    BY <1>3, <2>1, WithoutProperties
  <2> QED
    BY <1>8, <2>1, <2>2 DEF Removed, AddedInv, Owned
<1> QED
  BY <1>1, <1>6, <1>7, <1>8

\* Neither the identical binding a user wrote first nor an entry the user changed is taken
\* for a managed one: what Winter takes out or puts back it once added, as it was added.
THEOREM SpecRemovesOnlyItsOwn == Spec => RemovesOnlyItsOwn
<1>1. ProcessInv /\ NumbersInv /\ SurvivalInv /\ AddedInv /\ [Next]_vars =>
        \A t \in Targets, b \in Bindings :
          (/\ edits' = edits /\ t \notin late
           /\ disk[t] # None /\ disk[t].bound[b] # "absent"
           /\ disk'[t].bound[b] # disk[t].bound[b])
          => disk[t].bound[b] = "ours" /\ b \in added[t]
  <2> SUFFICES ASSUME ProcessInv, NumbersInv, SurvivalInv, AddedInv, [Next]_vars,
                      NEW t \in Targets, NEW b \in Bindings, edits' = edits, t \notin late,
                      disk[t].bound[b] # "absent", disk'[t].bound[b] # disk[t].bound[b]
               PROVE  disk[t].bound[b] = "ours" /\ b \in added[t]
    OBVIOUS
  <2>1. ~Edit
    BY EditKeeps DEF NumbersInv
  <2>2. ~StartsCommand /\ ~Checks /\ ~Ends /\ ~UNCHANGED vars
    BY StartReads, ChecksKeep, EndsKeepFiles DEF Planning, Quiet, vars
  <2>3. Move
    BY <2>1, <2>2, NextCases
  <2> QED
    BY <2>3, MoveTakesItsOwn
<1> QED
  BY <1>1, SpecSurvival, SpecAdded, PTL DEF Spec, RemovesOnlyItsOwn

-----------------------------------------------------------------------------
(***************************************************************************)
(* What a failed install leaves behind.                                    *)
(***************************************************************************)
LEMMA MoveKeepsRestore ==
  ASSUME ProcessInv, RestoreInv, Move
  PROVE  RestoreInv'
<1>1. /\ Busy /\ at = "checked" /\ at' = "moved" /\ Current \in Files /\ Current' = Current
      /\ \A f \in Files : disk'[f] = IF f = Current THEN Replacement(Current) ELSE disk[f]
      /\ UNCHANGED <<mode, undo, snap, next, incomplete, outcome, touched>>
  BY MoveFiles
<1>2. outcome' # "failed"
  BY <1>1 DEF RestoreInv, Busy
<1>3. \A f \in Files : ~Moving(f) /\ Installed(f)' = Installed(f) /\ (Moving(f)' <=> f = Current)
  BY <1>1 DEF Moving, Installed
<1>4. CASE mode = "install"
  <2>1. disk'[Current] = Installed(Current)
    BY <1>1, <1>4 DEF Replacement
  <2> QED
    BY <1>1, <1>2, <1>3, <1>4, <2>1 DEF RestoreInv, FailedInstallRestores
<1>5. CASE mode = "rollback"
  <2>1. disk'[Current] = snap[Current]
    BY <1>1, <1>5 DEF Replacement
  <2> QED
    BY <1>1, <1>2, <1>3, <1>5, <2>1 DEF RestoreInv, FailedInstallRestores
<1> QED
  BY <1>1, <1>2, <1>4, <1>5 DEF RestoreInv, FailedInstallRestores

LEMMA EndsKeepRestore ==
  ASSUME ProcessInv, RestoreInv, Ends
  PROVE  RestoreInv'
<1>1. UNCHANGED <<disk, snap, touched>> /\ at' = "begin" /\ mode # "idle" /\ outcome # "failed"
  BY EndsKeepFiles DEF RestoreInv
<1>2. \A f \in Files : ~Moving(f)'
  BY <1>1 DEF Moving
<1>3. CASE Verify
  <2>1. /\ UNCHANGED <<mode, next, incomplete, outcome>>
        /\ mode = "install" => Range(undo') = Range(undo) \cup ({Current} \ {Manifest})
        /\ mode = "rollback" => Range(undo) = Range(undo') \cup {Current}
        /\ at = "moved"
    BY <1>3, VerifyStacks
  <2>2. \A f \in Files : Installed(f)' = Installed(f) /\ (Moving(f) <=> f = Current)
    BY <1>1, <2>1 DEF Moving, Installed
  <2> QED
    BY <1>1, <1>2, <2>1, <2>2 DEF RestoreInv, FailedInstallRestores
<1>4. CASE InstallEnds
  <2>1. /\ mode = "install" /\ mode' = "rollback" /\ UNCHANGED <<next, incomplete, outcome>>
        /\ \/ UNCHANGED undo /\ (Current # Manifest => disk[Current] # Installed(Current))
           \/ Range(undo') = Range(undo) \cup {Current} /\ Current # Manifest
    BY <1>4, InstallFailsStacks
  <2>2. \A f \in Files : Installed(f)' = Installed(f) /\ (Moving(f) => f = Current)
    BY <1>1, <2>1 DEF Moving, Installed
  <2> QED
    BY <1>1, <1>2, <2>1, <2>2 DEF RestoreInv, FailedInstallRestores
<1>5. CASE RollbackEnds
  <2>1. /\ UNCHANGED <<mode, next, outcome>> /\ mode = "rollback"
        /\ ~incomplete' => ~incomplete /\ disk[Current] = None /\ snap[Current] = None
        /\ Range(undo) = Range(undo') \cup {Current}
    BY <1>5, RollbackFailsStacks
  <2>2. \A f \in Files : Installed(f)' = Installed(f)
    BY <1>1, <2>1 DEF Installed
  <2> QED
    BY <1>1, <1>2, <2>1, <2>2 DEF RestoreInv, FailedInstallRestores
<1>6. CASE UninstallEnds
  <2>1. mode' = "uninstall" /\ UNCHANGED outcome
    BY <1>6, UninstallFailsStacks
  <2> QED
    BY <1>1, <2>1 DEF RestoreInv, FailedInstallRestores
<1>7. CASE UninstallStops \/ Crash
  <2>1. mode' = "idle" /\ outcome' # "failed"
    BY <1>7, UninstallAbortsStacks DEF Crash
  <2> QED
    BY <2>1 DEF RestoreInv, FailedInstallRestores
<1>8. CASE Finish
  <2>1. /\ mode' = "idle" /\ ~Pending
        /\ outcome' = "failed" => mode = "rollback" /\ ~incomplete
    BY <1>1, <1>8 DEF Finish, ProcessInv
  <2>2. outcome' = "failed" => Range(undo) = {}
    BY <2>1 DEF Pending, Range
  <2> QED
    BY <1>1, <2>1, <2>2 DEF RestoreInv, FailedInstallRestores
<1> QED
  BY <1>3, <1>4, <1>5, <1>6, <1>7, <1>8 DEF Ends

\* What the user edits counts as touched.
LEMMA EditTouches ==
  ASSUME ProcessInv, NumbersInv, Edit
  PROVE  touched \subseteq touched' /\ \A f \in Files \ touched' : disk'[f] = disk[f]
<1>1. ASSUME NEW t \in Targets, NEW content, EditSettings(t, content)
      PROVE  touched' = touched \cup {t} /\ disk' = [disk EXCEPT ![t] = content]
  BY <1>1 DEF EditSettings
<1>2. ASSUME NEW text, EditFragment(text)
      PROVE  touched' = touched \cup {Fragment} /\ disk' = [disk EXCEPT ![Fragment] = text]
  BY <1>2 DEF EditFragment
<1> QED
  BY <1>1, <1>2, EditKeeps DEF ProcessInv, IsDisk

LEMMA RestoreStep ==
  ASSUME ProcessInv, NumbersInv, RestoreInv, [Next]_vars
  PROVE  RestoreInv'
<1>1. CASE StartsCommand
  BY <1>1, StartReads DEF Planning, Quiet, RestoreInv, FailedInstallRestores
<1>2. CASE Checks
  <2>1. /\ at # "moved" /\ at' # "moved"
        /\ UNCHANGED <<disk, mode, undo, snap, next, incomplete, outcome, touched>>
    BY <1>2, ChecksKeep DEF history
  <2> QED
    BY <2>1 DEF RestoreInv, FailedInstallRestores, Installed, Moving
<1>3. CASE Edit
  <2>1. UNCHANGED <<mode, at, undo, snap, next, incomplete, outcome>> /\ Current' = Current
    BY <1>3, EditKeeps DEF process
  <2>2. \A f \in Files : Installed(f)' = Installed(f) /\ Moving(f)' = Moving(f)
    BY <2>1 DEF Installed, Moving
  <2> QED
    BY <1>3, <2>1, <2>2, EditTouches DEF RestoreInv, FailedInstallRestores
<1>4. CASE UNCHANGED vars
  BY <1>4 DEF vars, process, history, RestoreInv, FailedInstallRestores, Installed, Moving, Current
<1> QED
  BY <1>1, <1>2, <1>3, <1>4, MoveKeepsRestore, EndsKeepRestore, NextCases

\* The undo stack of install_settings is enough: an install that reports a plain failure has
\* left the fragment and every settings file nobody touched meanwhile as it found them.
THEOREM SpecFailedInstallRestores == Spec => []FailedInstallRestores
<1>1. Init => RestoreInv
  BY DEF Init, Idle, RestoreInv, FailedInstallRestores
<1>2. ProcessInv /\ NumbersInv /\ RestoreInv /\ [Next]_vars => RestoreInv'
  BY RestoreStep
<1>3. RestoreInv => FailedInstallRestores
  BY DEF RestoreInv
<1> QED
  BY <1>1, <1>2, <1>3, SpecSurvival, PTL DEF Spec

-----------------------------------------------------------------------------
(***************************************************************************)
(* What Winter left is accounted for.                                      *)
(***************************************************************************)

\* What a move leaves of Winter's bindings in a file, and of its fragment.
LEMMA MoveLeaves ==
  ASSUME ProcessInv, InPlaceInv, Move
  PROVE  /\ live' \in [Targets -> SUBSET Bindings]
         /\ \A t \in Targets : t # Current => live'[t] = live[t]
         /\ \A t \in Targets : t = Current =>
              live'[t] = {b \in live[t] \cup (IF mode = "install" THEN Additions(snap[t]) ELSE {}) :
                             Replacement(t).bound[b] = "ours"}
         /\ planted' = IF Current = Fragment THEN Replacement(Fragment) # None ELSE planted
<1>1. planted' = IF Current = Fragment THEN Replacement(Fragment) # None ELSE planted
  BY DEF Move
<1>2. CASE Current \in Targets
  <2> DEFINE left == {b \in live[Current] \cup (IF mode = "install" THEN Additions(snap[Current])
                                                ELSE {}) : Replacement(Current).bound[b] = "ours"}
  <2>1. live' = [live EXCEPT ![Current] = left]
    BY <1>2 DEF Move
  <2>2. left \subseteq Bindings
    BY <1>2 DEF InPlaceInv, Additions
  <2> HIDE DEF left
  <2>3. live' \in [Targets -> SUBSET Bindings] /\ live'[Current] = left
        /\ \A t \in Targets : t # Current => live'[t] = live[t]
    BY <1>2, <2>1, <2>2 DEF InPlaceInv
  <2> QED
    BY <1>1, <2>3 DEF left
<1>3. CASE Current \notin Targets
  BY <1>1, <1>3 DEF Move, InPlaceInv
<1> QED
  BY <1>2, <1>3

\* What the user edits is no longer Winter's; a takeover is remembered.
LEMMA EditLeaves ==
  ASSUME ProcessInv, NumbersInv, InPlaceInv, Edit
  PROVE  /\ InPlaceInv' /\ (planted' => planted) /\ (clean' => clean)
         /\ \A t \in Targets : live'[t] \subseteq live[t]
         /\ disk'[Manifest] = disk[Manifest]
         /\ clean' /\ mode = "install" => \A f \in Files : Moving(f) => disk'[f] = disk[f]
<1>1. Current' = Current /\ Busy' = Busy /\ (clean' => clean) /\ (at = "moved" => Busy)
  BY EditKeeps DEF ProcessInv
<1>2. ASSUME NEW t \in Targets, NEW content \in Settings \cup {None}, EditSettings(t, content)
      PROVE  /\ InPlaceInv' /\ planted' = planted
             /\ \A u \in Targets : live'[u] \subseteq live[u]
             /\ \A f \in Files : f # t => disk'[f] = disk[f]
             /\ clean' => ~TakesOver(t)
  <2> DEFINE left == IF content = None THEN {} ELSE {b \in live[t] : content.bound[b] = "ours"}
  <2>1. /\ disk' = [disk EXCEPT ![t] = content] /\ live' = [live EXCEPT ![t] = left]
        /\ planted' = planted /\ (clean' => ~TakesOver(t))
    BY <1>2 DEF EditSettings
  <2>2. left \subseteq live[t] /\ \A b \in left : content # None /\ content.bound[b] = "ours"
    OBVIOUS
  <2> HIDE DEF left
  <2>3. /\ live' \in [Targets -> SUBSET Bindings] /\ live'[t] = left
        /\ \A u \in Targets : u # t => live'[u] = live[u]
    BY <2>1, <2>2 DEF InPlaceInv
  <2>4. disk'[t] = content /\ \A f \in Files : f # t => disk'[f] = disk[f]
    BY <2>1, NamesAreApart DEF ProcessInv, IsDisk
  <2> QED
    BY <2>1, <2>2, <2>3, <2>4, NamesAreApart DEF InPlaceInv
<1>3. ASSUME NEW text \in FragmentTexts \cup {None}, EditFragment(text)
      PROVE  /\ InPlaceInv' /\ (planted' => planted) /\ live' = live
             /\ \A f \in Files : f # Fragment => disk'[f] = disk[f]
             /\ clean' => ~TakesOver(Fragment)
  <2>1. /\ disk' = [disk EXCEPT ![Fragment] = text] /\ live' = live
        /\ planted' = (planted /\ text = "rewritten") /\ (clean' => ~TakesOver(Fragment))
    BY <1>3 DEF EditFragment
  <2>2. disk'[Fragment] = text /\ \A f \in Files : f # Fragment => disk'[f] = disk[f]
    BY <2>1, NamesAreApart DEF ProcessInv, IsDisk
  <2>3. planted' => planted /\ text \in FragmentTexts
    BY <2>1 DEF FragmentTexts
  <2> QED
    BY <2>1, <2>2, <2>3, NamesAreApart DEF InPlaceInv
<1>4. ASSUME NEW f \in Files, f # Manifest, \A g \in Files : g # f => disk'[g] = disk[g],
             clean' => ~TakesOver(f)
      PROVE  /\ disk'[Manifest] = disk[Manifest]
             /\ clean' /\ mode = "install" => \A g \in Files : Moving(g) => disk'[g] = disk[g]
  BY <1>1, <1>4, NamesAreApart DEF TakesOver, Moving
<1> QED
  BY <1>1, <1>2, <1>3, <1>4, EditKeeps, NamesAreApart

LEMMA InPlaceStep ==
  ASSUME ProcessInv, NumbersInv, InPlaceInv, [Next]_vars
  PROVE  InPlaceInv'
<1>1. CASE Move
  <2>1. \A f \in Files : disk'[f] = IF f = Current THEN Replacement(Current) ELSE disk[f]
    BY <1>1, MoveFiles
  <2>2. Busy
    BY <1>1 DEF Move
  <2> QED
    <3>1. \A t \in Targets : \A b \in live'[t] : disk'[t] # None /\ disk'[t].bound[b] = "ours"
      <4> SUFFICES ASSUME NEW t \in Targets, NEW b \in live'[t]
                   PROVE  disk'[t] # None /\ disk'[t].bound[b] = "ours"
        OBVIOUS
      <4>1. CASE t # Current
        BY <1>1, <2>1, <4>1, MoveLeaves, NamesAreApart DEF InPlaceInv
      <4>2. CASE t = Current
        <5>1. disk'[t] = Replacement(t) /\ Replacement(t) \in Settings
          BY <2>1, <2>2, <4>2, WrittenContents, NamesAreApart
        <5>2. Replacement(t).bound[b] = "ours"
          BY <1>1, <4>2, MoveLeaves
        <5> QED
          BY <5>1, <5>2, NamesAreApart
      <4> QED
        BY <4>1, <4>2
    <3>2. planted' => disk'[Fragment] # None
      BY <1>1, <2>1, MoveLeaves, NamesAreApart DEF InPlaceInv
    <3> QED
      BY <1>1, <3>1, <3>2, MoveLeaves DEF InPlaceInv
<1>2. CASE Edit
  BY <1>2, EditLeaves
<1>3. CASE UNCHANGED vars \/ Checks \/ StartsCommand \/ Ends
  <2>1. UNCHANGED <<disk, live, planted>>
    BY <1>3, ChecksKeep, StartReads, EndsKeepFiles DEF vars, history, Planning, Quiet
  <2> QED
    BY <2>1 DEF InPlaceInv
<1> QED
  BY <1>1, <1>2, <1>3, NextCases

-----------------------------------------------------------------------------
(* The manifest on disk. *)
LEMMA ManifestStep ==
  ASSUME ProcessInv, NumbersInv, InPlaceInv, ManifestInv, [Next]_vars
  PROVE  ManifestInv'
<1>1. \A m \in Manifests : Loaded(m) = m
  BY ManifestProperties
<1>2. CASE StartsCommand
  <2>1. ASSUME NEW unread, StartInstall(unread) PROVE ManifestInv'
    <3>1. /\ Planning("install") /\ (Manifest \notin work' => next' = Loaded(disk[Manifest]))
      BY <2>1, InstallPlan
    <3> QED
      BY <3>1 DEF Planning, Quiet, ManifestInv, Moving
  <2>2. ASSUME StartUninstall PROVE ManifestInv'
    <3>1. Planning("uninstall") /\ Manifest \in work'
      BY <2>2, UninstallPlan
    <3> QED
      BY <3>1 DEF Planning, Quiet, ManifestInv, Moving
  <2> QED
    BY <1>2, <2>1, <2>2 DEF StartsCommand
<1>3. CASE Checks
  <2>1. at # "moved" /\ at' # "moved" /\ UNCHANGED <<disk, mode, work, snap, next>>
    BY <1>3, ChecksKeep
  <2> QED
    BY <2>1 DEF ManifestInv, Moving
<1>4. CASE Move
  <2>1. /\ Busy /\ at = "checked" /\ at' = "moved" /\ Current' = Current /\ Current \in Files
        /\ \A f \in Files : disk'[f] = IF f = Current THEN Replacement(Current) ELSE disk[f]
        /\ UNCHANGED <<mode, work, snap, next>>
    BY <1>4, MoveFiles
  <2>2. Moving(Manifest)' <=> Current = Manifest
    BY <2>1 DEF Moving
  <2>3. ~Moving(Manifest)
    BY <2>1 DEF Moving
  <2>4. CASE Current # Manifest
    BY <2>1, <2>2, <2>3, <2>4, NamesAreApart DEF ManifestInv
  <2>5. CASE Current = Manifest /\ mode = "install"
    <3>1. disk'[Manifest] = next
      BY <2>1, <2>5, NamesAreApart DEF Replacement, Installed
    <3> QED
      BY <1>1, <2>1, <2>5, <3>1 DEF ManifestInv, ProcessInv
  <2>6. CASE Current = Manifest /\ mode = "uninstall"
    <3>1. disk'[Manifest] = IF next = EmptyManifest THEN None ELSE next
      BY <2>1, <2>6, NamesAreApart DEF Replacement, Uninstalled
    <3>2. Loaded(disk'[Manifest]) = next
      BY <3>1, NamesAreApart DEF Loaded, ProcessInv
    <3> QED
      BY <2>1, <2>2, <2>6, <3>2 DEF ManifestInv
  <2>7. CASE mode # "install" /\ mode # "uninstall"
    BY <2>1, <2>7 DEF ManifestInv
  <2> QED
    BY <2>4, <2>5, <2>6, <2>7
<1>5. CASE Verify
  <2>1. /\ Busy /\ at = "moved" /\ at' = "begin" /\ UNCHANGED <<disk, mode, snap, next>>
        /\ mode # "rollback" => work' = work \ {Current}
    BY <1>5, VerifyStacks
  <2>2. ~Moving(Manifest)' /\ (Moving(Manifest) <=> Current = Manifest)
    BY <2>1 DEF Moving
  <2> QED
    BY <2>1, <2>2 DEF ManifestInv
<1>6. CASE UninstallEnds
  <2>1. /\ Busy /\ at' = "begin" /\ mode = "uninstall" /\ Current # Manifest
        /\ work' = work \ {Current} /\ UNCHANGED <<disk, mode, snap>>
    BY <1>6, UninstallFailsStacks
  <2>2. ~Moving(Manifest)' /\ ~Moving(Manifest) /\ Manifest \in work'
    BY <2>1 DEF Moving, ProcessInv
  <2> QED
    BY <2>1, <2>2 DEF ManifestInv
<1>7. CASE InstallEnds \/ RollbackEnds \/ UninstallStops \/ Finish \/ Crash
  <2>1. mode' = "idle" \/ mode' = "rollback"
    BY <1>7, InstallFailsStacks, RollbackFailsStacks, UninstallAbortsStacks DEF Finish, Crash
  <2> QED
    BY <2>1 DEF ManifestInv
<1>8. CASE Edit
  <2>1. disk'[Manifest] = disk[Manifest] /\ Current' = Current
        /\ UNCHANGED <<mode, at, work, snap, next>>
    BY <1>8, EditLeaves, EditKeeps DEF process
  <2> QED
    BY <2>1 DEF ManifestInv, Moving
<1>9. CASE UNCHANGED vars
  BY <1>9 DEF vars, process, ManifestInv, Moving, Current
<1> QED
  BY <1>2, <1>3, <1>4, <1>5, <1>6, <1>7, <1>8, <1>9, NextCases DEF Ends

-----------------------------------------------------------------------------
(* The manifest an install is going to save. *)
LEMMA StartInstallInv ==
  ASSUME ProcessInv, NothingOrphaned, NEW unread, StartInstall(unread)
  PROVE  InstallInv' /\ RollbackInv'
<1> DEFINE known == Loaded(disk[Manifest])
<1>1. /\ Planning("install")
      /\ \A t \in Targets :
           Owned(next', t) = Owned(known, t) \cup (IF t \in work' THEN Additions(disk[t]) ELSE {})
      /\ Fragment \in work' => /\ next'.fragment = "desired"
                               /\ disk[Fragment] # None => known.fragment # None
      /\ Fragment \notin work' /\ known.fragment # None => next'.fragment # None
  BY InstallPlan
<1>2. Fragment \in Ahead' <=> Fragment \in work'
  BY <1>1 DEF Planning, Ahead, Range
<1>3. \A f : ~Moving(f)' /\ ~Undoable(f)'
  BY <1>1 DEF Planning, Moving, Undoable, Range
<1>4. "desired" # None
  BY NamesAreApart DEF FragmentTexts
<1>5. clean => /\ \A t \in Targets : live[t] \subseteq Owned(known, t)
               /\ planted => known.fragment # None
  BY <1>1 DEF NothingOrphaned, Planning, Owned
<1> HIDE DEF known
<1>6. InstallInv'
  BY <1>1, <1>2, <1>3, <1>4, <1>5 DEF Planning, Quiet, InstallInv
<1>7. RollbackInv'
  BY <1>1, <1>2, <1>3, <1>5 DEF Planning, Quiet, RollbackInv, known
<1> QED
  BY <1>6, <1>7

LEMMA MoveInstallInv ==
  ASSUME ProcessInv, InPlaceInv, InstallInv, Move
  PROVE  InstallInv'
<1> SUFFICES ASSUME mode = "install" PROVE InstallInv'
  BY MoveFiles DEF InstallInv
<1>1. /\ Busy /\ Current' = Current /\ Current \in Files
      /\ \A f \in Files : disk'[f] = IF f = Current THEN Replacement(Current) ELSE disk[f]
      /\ UNCHANGED <<mode, work, undo, snap, next, clean>>
  BY MoveFiles
<1>2. Current \in work
  BY <1>1, CurrentIsAhead
<1>3. Replacement(Current) = Installed(Current) /\ Ahead' = Ahead /\ Fragment \in Files
  BY <1>1, NamesAreApart DEF Replacement, Ahead
<1>4. \A f \in Files : Moving(f)' => disk'[f] = Installed(f)'
  BY <1>1, <1>3 DEF Moving, Installed
<1>5. clean => \A t \in Targets : live'[t] \subseteq Owned(next, t)
  BY <1>2, MoveLeaves DEF InstallInv
<1>6. clean => (planted' => next.fragment # None)
  BY <1>2, MoveLeaves DEF InstallInv, Ahead
<1> QED
  BY <1>1, <1>3, <1>4, <1>5, <1>6 DEF InstallInv

LEMMA InstallStep ==
  ASSUME ProcessInv, NumbersInv, InPlaceInv, NothingOrphaned, InstallInv, [Next]_vars
  PROVE  InstallInv'
<1>1. CASE StartsCommand
  BY <1>1, StartInstallInv DEF StartsCommand, StartUninstall, Start, InstallInv
<1>2. CASE Checks
  <2>1. /\ at # "moved" /\ at' # "moved"
        /\ UNCHANGED <<disk, mode, work, undo, snap, next, live, planted, clean>>
    BY <1>2, ChecksKeep DEF history
  <2> QED
    BY <2>1 DEF InstallInv, Moving, Ahead
<1>3. CASE Verify
  <2>1. /\ Busy /\ at' = "begin" /\ UNCHANGED <<mode, snap, next, live, planted, clean>>
        /\ mode = "install" => /\ work' = work \ {Current} /\ Current \in work
                               /\ Range(undo') = Range(undo) \cup ({Current} \ {Manifest})
    BY <1>3, VerifyStacks, CurrentIsAhead DEF history
  <2>2. \A f : ~Moving(f)'
    BY <2>1 DEF Moving
  <2>3. mode = "install" => Ahead' \subseteq Ahead
    BY <2>1 DEF Ahead
  <2> QED
    BY <2>1, <2>2, <2>3 DEF InstallInv
<1>4. CASE InstallEnds \/ RollbackEnds \/ UninstallEnds \/ UninstallStops \/ Finish \/ Crash
  <2>1. mode' # "install"
    BY <1>4, InstallFailsStacks, RollbackFailsStacks, UninstallFailsStacks, UninstallAbortsStacks
       DEF Finish, Crash
  <2> QED
    BY <2>1 DEF InstallInv
<1>5. CASE Edit
  <2>1. /\ UNCHANGED <<mode, at, work, undo, snap, next>> /\ Current' = Current
        /\ (planted' => planted) /\ (clean' => clean)
        /\ \A t \in Targets : live'[t] \subseteq live[t]
        /\ clean' /\ mode = "install" => \A f \in Files : Moving(f) => disk'[f] = disk[f]
    BY <1>5, EditLeaves, EditKeeps DEF process
  <2>2. \A f \in Files : Moving(f)' = Moving(f) /\ Installed(f)' = Installed(f)
    BY <2>1 DEF Moving, Installed
  <2>3. Ahead' = Ahead
    BY <2>1 DEF Ahead
  <2> QED
    BY <2>1, <2>2, <2>3 DEF InstallInv
<1>6. CASE UNCHANGED vars
  <2>1. /\ UNCHANGED <<disk, mode, at, work, undo, snap, next, live, planted, clean>>
        /\ Current' = Current
    BY <1>6 DEF vars, process, history, Current
  <2> QED
    BY <2>1 DEF InstallInv, Moving, Installed, Ahead
<1> QED
  BY <1>1, <1>2, <1>3, <1>4, <1>5, <1>6, MoveInstallInv, NextCases DEF Ends

-----------------------------------------------------------------------------
(* What an install undoes. *)
LEMMA MoveRollbackInv ==
  ASSUME ProcessInv, InPlaceInv, InstallInv, RollbackInv, Move
  PROVE  RollbackInv'
<1> DEFINE known == Loaded(disk[Manifest])
           fresh(t) == IF Undoable(t) THEN Additions(snap[t]) ELSE {}
<1>1. /\ Busy /\ at = "checked" /\ at' = "moved" /\ Current \in Files /\ Current' = Current
      /\ \A f \in Files : disk'[f] = IF f = Current THEN Replacement(Current) ELSE disk[f]
      /\ UNCHANGED <<mode, work, undo, snap, next, incomplete, clean>>
  BY MoveFiles
<1> SUFFICES ASSUME mode \in {"install", "rollback"}, clean, ~incomplete
             PROVE  RollbackInv'
  BY <1>1 DEF RollbackInv
<1>2. \A f \in Files : /\ Moving(f)' <=> f = Current
                       /\ Undoable(f) <=> f \in Range(undo)
                       /\ Undoable(f)' <=> f \in Range(undo) \/ (mode = "install" /\ f = Current)
  BY <1>1 DEF Moving, Undoable
<1>3. Ahead' = Ahead
  BY <1>1 DEF Ahead
<1>4. CASE mode = "install" /\ Current = Manifest
  <2>1. disk'[Manifest] = next /\ Loaded(next) = next
    BY <1>1, <1>4, NamesAreApart, ManifestProperties DEF Replacement, Installed, ProcessInv
  <2>2. live' = live /\ planted' = planted
    BY <1>4, NamesAreApart DEF Move
  <2> QED
    BY <1>1, <1>3, <1>4, <2>1, <2>2 DEF InstallInv, RollbackInv
<1>5. CASE mode = "install" /\ Current # Manifest
  <2>1. disk'[Manifest] = disk[Manifest]
    BY <1>1, <1>5, NamesAreApart
  <2>2. \A t \in Targets : live'[t] \subseteq Owned(known, t) \cup fresh(t)'
    BY <1>1, <1>2, <1>5, MoveLeaves, NamesAreApart DEF RollbackInv
  <2>3. planted' => known.fragment # None \/ Undoable(Fragment)'
    BY <1>2, <1>5, MoveLeaves, NamesAreApart DEF RollbackInv
  <2> QED
    BY <1>1, <1>3, <1>5, <2>1, <2>2, <2>3 DEF RollbackInv
<1>6. CASE mode = "rollback"
  <2>1. Current \in Range(undo) /\ Current # Manifest /\ disk'[Manifest] = disk[Manifest]
    BY <1>1, <1>6, CurrentIsAhead, NamesAreApart
  <2>2. \A t \in Targets : Replacement(t) = snap[t]
    BY <1>6 DEF Replacement
  <2>3. \A t \in Targets : t = Current => live'[t] \subseteq Owned(known, t)
    <3> SUFFICES ASSUME NEW t \in Targets, t = Current, NEW b \in live'[t]
                 PROVE  b \in Owned(known, t)
      OBVIOUS
    <3>1. b \in live[t] /\ snap[t].bound[b] = "ours"
      BY <1>6, <2>2, MoveLeaves
    <3>2. b \notin Additions(snap[t])
      BY <3>1 DEF Additions
    <3> QED
      BY <1>6, <3>1, <3>2 DEF RollbackInv
  <2>4. Current = Fragment /\ planted' => known.fragment # None
    <3>1. Current = Fragment /\ planted' => snap[Fragment] # None
      BY <1>6, MoveLeaves DEF Replacement
    <3> QED
      BY <1>6, <2>1, <3>1 DEF RollbackInv, Ahead
  <2>5. \A t \in Targets : live'[t] \subseteq Owned(known, t) \cup fresh(t)'
    BY <1>1, <1>2, <1>6, <2>3, MoveLeaves, NamesAreApart DEF RollbackInv
  <2>6. planted' => known.fragment # None \/ Undoable(Fragment)'
    BY <1>2, <1>6, <2>4, MoveLeaves, NamesAreApart DEF RollbackInv
  <2> QED
    BY <1>1, <1>2, <1>3, <1>6, <2>1, <2>3, <2>4, <2>5, <2>6, NamesAreApart DEF RollbackInv
<1> QED
  BY <1>4, <1>5, <1>6

LEMMA EndsRollbackInv ==
  ASSUME ProcessInv, InPlaceInv, InstallInv, RollbackInv, Ends
  PROVE  RollbackInv'
<1> DEFINE known == Loaded(disk[Manifest])
<1>1. /\ UNCHANGED <<disk, snap, live, planted>> /\ at' = "begin" /\ (clean' => clean)
  BY EndsKeepFiles
<1>2. \A f : ~Moving(f)' /\ (Undoable(f)' <=> f \in Range(undo'))
  BY <1>1 DEF Moving, Undoable
<1>3. CASE Verify
  <2>1. /\ Busy /\ at = "moved" /\ UNCHANGED <<mode, incomplete>>
        /\ mode = "install" => Range(undo') = Range(undo) \cup ({Current} \ {Manifest})
        /\ mode = "rollback" => Range(undo) = Range(undo') \cup {Current}
        /\ mode # "rollback" => work' = work \ {Current}
        /\ mode = "rollback" => work' = work
    BY <1>3, VerifyStacks
  <2>2. Ahead' \subseteq Ahead \/ mode = "uninstall" \/ mode = "idle"
    BY <2>1, CurrentIsAhead DEF Ahead, ProcessInv
  <2>3. CASE mode = "install"
    <3>1. \A f \in Files \ {Manifest} : Undoable(f) => Undoable(f)'
      BY <1>2, <2>1, <2>3 DEF Undoable, Moving
    <3> QED
      BY <1>1, <1>2, <2>1, <2>2, <2>3, <3>1, NamesAreApart DEF RollbackInv
  <2>4. CASE mode = "rollback"
    <3>1. \A f \in Files : Undoable(f) => Undoable(f)' \/ Moving(f)
      BY <1>2, <2>1, <2>4 DEF Undoable, Moving
    <3> QED
      BY <1>1, <1>2, <2>1, <2>2, <2>4, <3>1, NamesAreApart DEF RollbackInv
  <2> QED
    BY <2>1, <2>3, <2>4 DEF RollbackInv
<1>4. CASE InstallEnds
  <2>1. /\ Busy /\ mode = "install" /\ mode' = "rollback" /\ work' = {} /\ UNCHANGED <<incomplete, clean>>
        /\ \/ UNCHANGED undo /\ (Current # Manifest => disk[Current] # Installed(Current))
           \/ Range(undo') = Range(undo) \cup {Current} /\ Current # Manifest
    BY <1>4, InstallFailsStacks DEF history
  <2>2. Ahead' \subseteq Ahead
    BY <2>1, CurrentIsAhead DEF Ahead
  <2>3. clean => \A f \in Files \ {Manifest} : Undoable(f) => Undoable(f)'
    BY <1>2, <2>1 DEF Undoable, Moving, InstallInv
  <2> QED
    BY <1>1, <1>2, <2>1, <2>2, <2>3, NamesAreApart DEF RollbackInv
<1>5. CASE RollbackEnds
  <2>1. /\ Busy /\ mode = "rollback" /\ UNCHANGED <<mode, work>>
        /\ ~incomplete' => ~incomplete /\ disk[Current] = None
        /\ Range(undo) = Range(undo') \cup {Current}
    BY <1>5, RollbackFailsStacks
  <2>2. Ahead' \subseteq Ahead
    BY <2>1 DEF Ahead
  <2>3. ~incomplete' => /\ \A t \in Targets : t = Current => live[t] = {}
                        /\ Current = Fragment => ~planted
    BY <2>1 DEF InPlaceInv
  <2>4. \A f \in Files : Undoable(f) => Undoable(f)' \/ f = Current
    BY <1>2, <2>1 DEF Undoable
  <2> QED
    BY <1>1, <1>2, <2>1, <2>2, <2>3, <2>4, NamesAreApart DEF RollbackInv
<1>6. CASE UninstallEnds \/ UninstallStops \/ Finish \/ Crash
  <2>1. mode' \notin {"install", "rollback"}
    BY <1>6, UninstallFailsStacks, UninstallAbortsStacks DEF Finish, Crash
  <2> QED
    BY <2>1 DEF RollbackInv
<1> QED
  BY <1>3, <1>4, <1>5, <1>6 DEF Ends

LEMMA RollbackStep ==
  ASSUME ProcessInv, NumbersInv, InPlaceInv, NothingOrphaned, InstallInv, RollbackInv, [Next]_vars
  PROVE  RollbackInv'
<1>1. CASE StartsCommand
  BY <1>1, StartInstallInv DEF StartsCommand, StartUninstall, Start, RollbackInv
<1>2. CASE Checks
  <2>1. /\ at # "moved" /\ at' # "moved"
        /\ UNCHANGED <<disk, mode, work, undo, snap, incomplete, live, planted, clean>>
    BY <1>2, ChecksKeep DEF history
  <2> QED
    BY <2>1 DEF RollbackInv, Moving, Undoable, Ahead
<1>3. CASE Edit
  <2>1. /\ UNCHANGED <<mode, at, work, undo, snap, incomplete>> /\ Current' = Current
        /\ (planted' => planted) /\ (clean' => clean) /\ disk'[Manifest] = disk[Manifest]
        /\ \A t \in Targets : live'[t] \subseteq live[t]
    BY <1>3, EditLeaves, EditKeeps DEF process
  <2>2. \A f : Moving(f)' = Moving(f) /\ Undoable(f)' = Undoable(f)
    BY <2>1 DEF Moving, Undoable
  <2>3. Ahead' = Ahead
    BY <2>1 DEF Ahead
  <2> QED
    BY <2>1, <2>2, <2>3 DEF RollbackInv
<1>4. CASE UNCHANGED vars
  <2>1. /\ UNCHANGED <<disk, mode, at, work, undo, snap, incomplete, live, planted, clean>>
        /\ Current' = Current
    BY <1>4 DEF vars, process, history, Current
  <2> QED
    BY <2>1 DEF RollbackInv, Moving, Undoable, Ahead
<1> QED
  BY <1>1, <1>2, <1>3, <1>4, MoveRollbackInv, EndsRollbackInv, NextCases

-----------------------------------------------------------------------------
(* What an uninstall gives up. *)
LEMMA StartUninstallInv ==
  ASSUME ProcessInv, InPlaceInv, NothingOrphaned, StartUninstall
  PROVE  UninstallInv'
<1>1. /\ Planning("uninstall") /\ disk[Manifest] \in Manifests
      /\ \A t \in Targets : t \notin work' /\ disk[t] # None =>
            \A b \in Owned(disk[Manifest], t) : disk[t].bound[b] # "ours"
      /\ Fragment \notin work' /\ disk[Fragment] # None => next'.fragment = disk[Manifest].fragment
  BY UninstallPlan
<1>2. clean => /\ \A t \in Targets : live[t] \subseteq Owned(disk[Manifest], t)
               /\ planted => disk[Manifest].fragment # None
  BY <1>1, ManifestProperties DEF NothingOrphaned, Planning, Owned
<1>3. clean => \A t \in Targets : t \notin work' => live[t] = {}
  BY <1>1, <1>2 DEF InPlaceInv
<1>4. \A f : ~Moving(f)'
  BY <1>1 DEF Planning, Moving
<1> QED
  BY <1>1, <1>2, <1>3, <1>4 DEF Planning, Quiet, UninstallInv, InPlaceInv

LEMMA MoveUninstallInv ==
  ASSUME ProcessInv, InPlaceInv, UninstallInv, Move
  PROVE  UninstallInv'
<1>1. /\ Busy /\ at = "checked" /\ at' = "moved" /\ Current \in Files /\ Current' = Current
      /\ UNCHANGED <<mode, work, snap, next, clean>>
  BY MoveFiles
<1> SUFFICES ASSUME mode = "uninstall", clean PROVE UninstallInv'
  BY <1>1 DEF UninstallInv
<1>2. \A f : ~Moving(f) /\ (Moving(f)' <=> f = Current)
  BY <1>1 DEF Moving
<1>3. ASSUME NEW t \in Targets, t = Current PROVE live'[t] = {}
  <2> DEFINE gone == Removed(snap[t], Owned(snap[Manifest], t))
  <2>1. Replacement(t) = Without(snap[t], gone) /\ snap[t] \in Settings
    BY <1>1, <1>3, WrittenContents, NamesAreApart DEF Replacement, Uninstalled, Owned
  <2> SUFFICES ASSUME NEW b \in live'[t] PROVE FALSE
    OBVIOUS
  <2>2. b \in live[t] /\ Replacement(t).bound[b] = "ours"
    BY <1>3, MoveLeaves
  <2>3. b \in Bindings /\ b \in Owned(snap[Manifest], t)
    BY <2>2 DEF InPlaceInv, UninstallInv
  <2>4. b \notin gone /\ snap[t].bound[b] = "ours"
    BY <2>1, <2>2, <2>3, WithoutProperties
  <2> QED
    BY <2>3, <2>4 DEF Removed
<1>4. Current = Fragment => ~planted'
  BY MoveLeaves, NamesAreApart DEF Replacement, Uninstalled
<1>5. /\ \A t \in Targets : t # Current => live'[t] = live[t]
      /\ Current # Fragment => planted' = planted
  BY MoveLeaves
<1> QED
  BY <1>1, <1>2, <1>3, <1>4, <1>5 DEF UninstallInv

LEMMA UninstallStep ==
  ASSUME ProcessInv, NumbersInv, InPlaceInv, NothingOrphaned, UninstallInv, [Next]_vars
  PROVE  UninstallInv'
<1>1. CASE StartsCommand
  BY <1>1, StartUninstallInv DEF StartsCommand, StartInstall, Start, UninstallInv
<1>2. CASE Checks
  <2>1. /\ at # "moved" /\ at' # "moved"
        /\ UNCHANGED <<mode, work, snap, next, live, planted, clean>>
    BY <1>2, ChecksKeep DEF history
  <2> QED
    BY <2>1 DEF UninstallInv, Moving
<1>3. CASE Verify
  <2>1. /\ Busy /\ at = "moved" /\ at' = "begin"
        /\ UNCHANGED <<mode, snap, next, live, planted, clean>>
        /\ mode # "rollback" => work' = work \ {Current}
    BY <1>3, VerifyStacks DEF history
  <2>2. \A f : ~Moving(f)' /\ (Moving(f) <=> f = Current)
    BY <2>1 DEF Moving
  <2> QED
    BY <2>1, <2>2 DEF UninstallInv
<1>4. CASE UninstallEnds
  <2>1. /\ mode = "uninstall" /\ Busy /\ at' = "begin" /\ Current \in Files \ {Manifest}
        /\ next' = Restored(next, Current) /\ work' = work \ {Current}
        /\ UNCHANGED <<mode, snap, live, planted, clean>>
    BY <1>4, UninstallFailsStacks, CurrentIsAhead DEF history
  <2>2. /\ next'.fragment = IF Current = Fragment THEN snap[Manifest].fragment ELSE next.fragment
        /\ \A t \in Targets : Owned(next', t) = IF t = Current THEN Owned(snap[Manifest], t)
                                                ELSE Owned(next, t)
    BY <2>1, RestoredProperties
  <2>3. \A f : ~Moving(f)'
    BY <2>1 DEF Moving
  <2> QED
    BY <2>1, <2>2, <2>3 DEF UninstallInv
<1>5. CASE InstallEnds \/ RollbackEnds \/ UninstallStops \/ Finish \/ Crash
  <2>1. mode' # "uninstall"
    BY <1>5, InstallFailsStacks, RollbackFailsStacks, UninstallAbortsStacks DEF Finish, Crash
  <2> QED
    BY <2>1 DEF UninstallInv
<1>6. CASE Edit
  <2>1. /\ UNCHANGED <<mode, at, work, snap, next>> /\ Current' = Current
        /\ (planted' => planted) /\ (clean' => clean)
        /\ \A t \in Targets : live'[t] \subseteq live[t]
    BY <1>6, EditLeaves, EditKeeps DEF process
  <2>2. \A f : Moving(f)' = Moving(f)
    BY <2>1 DEF Moving
  <2> QED
    BY <2>1, <2>2 DEF UninstallInv
<1>7. CASE UNCHANGED vars
  BY <1>7 DEF vars, process, history, UninstallInv, Moving, Current
<1> QED
  BY <1>1, <1>2, <1>3, <1>4, <1>5, <1>6, <1>7, MoveUninstallInv, NextCases DEF Ends

-----------------------------------------------------------------------------
\* The end of a command, unless it is killed, finds what is left in the manifest.
LEMMA FinishAccounts ==
  ASSUME ProcessInv, ManifestInv, InstallInv, RollbackInv, UninstallInv, Finish
  PROVE  NothingOrphaned'
<1>1. /\ mode # "idle" /\ ~Pending /\ UNCHANGED <<disk, live, planted>>
      /\ clean' = (clean /\ ~(mode = "rollback" /\ incomplete))
  BY DEF Finish
<1>2. work = {} /\ \A f : ~Moving(f)
  BY <1>1 DEF Pending, Busy, Moving, ProcessInv
<1>3. CASE mode = "install"
  BY <1>1, <1>2, <1>3 DEF ManifestInv, InstallInv, NothingOrphaned, Owned
<1>4. CASE mode = "rollback"
  <2>1. \A f : ~Undoable(f)
    BY <1>1, <1>4 DEF Pending, Undoable, Range
  <2> QED
    BY <1>1, <1>4, <2>1 DEF RollbackInv, NothingOrphaned, Owned
<1>5. CASE mode = "uninstall"
  BY <1>1, <1>2, <1>5 DEF ManifestInv, UninstallInv, NothingOrphaned, Owned
<1> QED
  BY <1>1, <1>3, <1>4, <1>5 DEF ProcessInv

LEMMA AbortAccounts ==
  ASSUME ProcessInv, ManifestInv, UninstallInv, UninstallStops
  PROVE  NothingOrphaned'
<1>1. /\ mode = "uninstall" /\ Busy /\ Current = Manifest /\ UNCHANGED <<disk, live, planted, clean>>
  BY UninstallAbortsStacks DEF history
<1>2. work = {Manifest} /\ Fragment \notin work /\ \A t \in Targets : t \notin work
  BY <1>1, CurrentIsAhead, NamesAreApart
<1>3. CASE Moving(Manifest)
  BY <1>1, <1>2, <1>3 DEF ManifestInv, UninstallInv, NothingOrphaned, Owned
<1>4. CASE ~Moving(Manifest)
  <2>1. Loaded(disk[Manifest]) = snap[Manifest]
    BY <1>1, <1>2, <1>4, ManifestProperties DEF ManifestInv, ProcessInv
  <2> QED
    BY <1>1, <2>1 DEF UninstallInv, NothingOrphaned, Owned
<1> QED
  BY <1>3, <1>4

LEMMA NothingOrphanedStep ==
  ASSUME ProcessInv, NumbersInv, OrphanInv, [Next]_vars
  PROVE  NothingOrphaned'
<1> USE DEF OrphanInv
<1>1. CASE StartsCommand
  <2>1. mode' # "idle"
    BY <1>1, StartReads
  <2> QED
    BY <2>1 DEF NothingOrphaned
<1>2. CASE Checks \/ Move \/ Verify \/ InstallEnds \/ RollbackEnds \/ UninstallEnds
  <2>1. mode' # "idle"
    BY <1>2, ChecksKeep, MoveFiles, VerifyStacks, InstallFailsStacks, RollbackFailsStacks,
       UninstallFailsStacks DEF Busy
  <2> QED
    BY <2>1 DEF NothingOrphaned
<1>3. CASE Finish
  BY <1>3, FinishAccounts
<1>4. CASE UninstallStops
  BY <1>4, AbortAccounts
<1>5. CASE Crash
  BY <1>5 DEF Crash, NothingOrphaned
<1>6. CASE Edit
  <2>1. /\ mode' = mode /\ (planted' => planted) /\ (clean' => clean)
        /\ disk'[Manifest] = disk[Manifest] /\ \A t \in Targets : live'[t] \subseteq live[t]
    BY <1>6, EditLeaves, EditKeeps DEF process
  <2> QED
    BY <2>1 DEF NothingOrphaned
<1>7. CASE UNCHANGED vars
  BY <1>7 DEF vars, process, history, NothingOrphaned
<1> QED
  BY <1>1, <1>2, <1>3, <1>4, <1>5, <1>6, <1>7, NextCases DEF Ends

LEMMA InitOrphan == Init => OrphanInv
<1> SUFFICES ASSUME Init PROVE OrphanInv
  OBVIOUS
<1>1. mode = "idle"
  BY DEF Init, Idle
<1>2. /\ live \in [Targets -> SUBSET Bindings] /\ (NoWinter \/ EarlierWinter)
      /\ \A t \in Targets : disk[t] # None
  BY InitContents, NamesAreApart
<1>3. CASE NoWinter
  BY <1>1, <1>2, <1>3
     DEF NoWinter, OrphanInv, InPlaceInv, ManifestInv, InstallInv, RollbackInv, UninstallInv,
         NothingOrphaned
<1>4. CASE EarlierWinter
  <2>1. Loaded(disk[Manifest]) = disk[Manifest] /\ "outdated" # None
    BY <1>4, ManifestProperties, NamesAreApart DEF EarlierWinter, FragmentTexts
  <2> QED
    BY <1>1, <1>2, <1>4, <2>1
       DEF EarlierWinter, Owned, OrphanInv, InPlaceInv, ManifestInv, InstallInv, RollbackInv,
           UninstallInv, NothingOrphaned
<1> QED
  BY <1>2, <1>3, <1>4

\* Between commands, after any failures short of a kill, an incomplete rollback or a
\* takeover, the manifest accounts for everything Winter left: its bindings, and the fragment.
THEOREM SpecNothingOrphaned == Spec => []NothingOrphaned
<1>1. Init => OrphanInv
  BY InitOrphan
<1>2. ProcessInv /\ NumbersInv /\ OrphanInv /\ [Next]_vars => OrphanInv'
  <2> SUFFICES ASSUME ProcessInv, NumbersInv, OrphanInv, [Next]_vars PROVE OrphanInv'
    OBVIOUS
  <2>1. InPlaceInv' /\ ManifestInv'
    BY InPlaceStep, ManifestStep DEF OrphanInv
  <2>2. InstallInv' /\ RollbackInv' /\ UninstallInv'
    BY InstallStep, RollbackStep, UninstallStep DEF OrphanInv
  <2> QED
    BY <2>1, <2>2, NothingOrphanedStep DEF OrphanInv
<1>3. OrphanInv => NothingOrphaned
  BY DEF OrphanInv
<1> QED
  BY <1>1, <1>2, <1>3, SpecSurvival, PTL DEF Spec

-----------------------------------------------------------------------------
(***************************************************************************)
(* Types of what the process and its histories count and remember.         *)
(***************************************************************************)
CountersTyped == edits \in 0..MaxEdits /\ faults \in 0..MaxFaults /\ crashes \in 0..MaxCrashes

SwitchesTyped == incomplete \in BOOLEAN /\ planted \in BOOLEAN /\ clean \in BOOLEAN

HistoryTyped ==
  /\ mine \in [Targets -> (0..MaxEdits) \cup {None}]
  /\ late \subseteq Files /\ touched \subseteq Files
  /\ live \in [Targets -> SUBSET Bindings] /\ added \in [Targets -> SUBSET Bindings]
  /\ outcome \in {"none", "installed", "uninstalled", "failed", "incomplete", "error", "crashed"}

BackupLists == UNION {[1..n -> 0..MaxRounds] : n \in 0..KeepBackups}

BackupsTyped == backups \in [Targets -> BackupLists]

LEMMA TypesOfInstall ==
  ASSUME ProcessInv, CountersTyped, SwitchesTyped, HistoryTyped, BackupsTyped
  PROVE  TypeOK
<1>1. DOMAIN disk = Files /\ DOMAIN snap = Files
  BY DEF ProcessInv, IsDisk
<1> QED
  BY <1>1, Zenon DEF TypeOK, ProcessInv, IsDisk, CountersTyped, SwitchesTyped, HistoryTyped, BackupsTyped,
     BackupLists

\* The channels are finitely many, and so are those that cannot be read.
LEMMA UnreadIsCounted ==
  ASSUME NEW unread \in SUBSET Targets
  PROVE  Cardinality(unread) \in Nat
<1>1. DOMAIN TargetOrder = 1..Len(TargetOrder) /\ Len(TargetOrder) \in Nat
  BY IntegrationAssumption DEF IntegrationAssumption
<1>2. IsFiniteSet(DOMAIN TargetOrder)
  BY <1>1, FS_Interval
<1>3. TargetOrder \in Surjection(DOMAIN TargetOrder, Targets)
  BY IntegrationAssumption DEF IntegrationAssumption, Surjection, Targets, Range
<1>4. IsFiniteSet(Targets)
  BY <1>2, <1>3, FS_Surjection
<1> QED
  BY <1>4, FS_Subset, FS_CardinalityType

LEMMA FailCounts ==
  ASSUME CountersTyped, NEW fault \in BOOLEAN, Fails(fault)
  PROVE  faults' \in 0..MaxFaults
BY BoundsAreNat DEF CountersTyped, Fails, Breaks

LEMMA CountersStep ==
  ASSUME CountersTyped, ProcessInv, NumbersInv, [Next]_vars
  PROVE  CountersTyped'
<1> USE BoundsAreNat
<1>1. ASSUME NEW unread \in SUBSET Targets, StartInstall(unread)
      PROVE  CountersTyped'
  <2>1. faults' = faults + Cardinality(unread) /\ faults' <= MaxFaults /\ UNCHANGED <<edits, crashes>>
    BY <1>1 DEF StartInstall, Start
  <2> QED
    BY <2>1, UnreadIsCounted DEF CountersTyped
<1>2. CASE StartUninstall
  BY <1>2 DEF StartUninstall, Start, CountersTyped
<1>3. CASE BackUp \/ Stage \/ Recheck \/ Move \/ Verify \/ Finish
  BY <1>3 DEF BackUp, Stage, Recheck, Move, Verify, Finish, CountersTyped
<1>4. CASE Crash
  BY <1>4 DEF Crash, CountersTyped
<1>5. ASSUME NEW fault \in BOOLEAN, NEW unreadable \in BOOLEAN, InstallFails(fault, unreadable)
      PROVE  CountersTyped'
  <2>1. Fails(fault) /\ UNCHANGED <<edits, crashes>>
    BY <1>5 DEF InstallFails
  <2> QED
    BY <2>1, FailCounts DEF CountersTyped
<1>6. ASSUME NEW fault \in BOOLEAN, RollbackFails(fault) \/ UninstallFails(fault) \/ UninstallAborts(fault)
      PROVE  CountersTyped'
  <2>1. Fails(fault) /\ UNCHANGED <<edits, crashes>>
    BY <1>6 DEF RollbackFails, UninstallFails, UninstallAborts
  <2> QED
    BY <2>1, FailCounts DEF CountersTyped
<1>7. CASE Edit
  <2>1. edits < MaxEdits /\ edits' = edits + 1 /\ UNCHANGED <<faults, crashes>>
    BY <1>7 DEF Edit, EditSettings, EditFragment
  <2> QED
    BY <2>1 DEF CountersTyped
<1>8. CASE UNCHANGED vars
  BY <1>8 DEF vars, CountersTyped
<1> QED
  BY <1>1, <1>2, <1>3, <1>4, <1>5, <1>6, <1>7, <1>8 DEF Next, Winter

LEMMA SwitchesStep ==
  ASSUME SwitchesTyped, [Next]_vars
  PROVE  SwitchesTyped'
<1> USE Zenon DEF SwitchesTyped
<1>1. CASE StartsCommand
  BY <1>1 DEF StartsCommand, StartInstall, StartUninstall, Start
<1>2. CASE BackUp \/ Stage \/ Recheck \/ Verify
  BY <1>2 DEF BackUp, Stage, Recheck, Verify, history
<1>3. CASE Move
  <2>1. planted' = IF Current = Fragment THEN Replacement(Current) # None ELSE planted
    BY <1>3 DEF Move
  <2>2. UNCHANGED <<incomplete, clean>>
    BY <1>3 DEF Move
  <2>3. planted' \in BOOLEAN
    BY <2>1
  <2> QED
    BY <2>2, <2>3
<1>4. CASE Finish
  <2>1. clean' = (clean /\ ~(mode = "rollback" /\ incomplete))
    BY <1>4 DEF Finish
  <2>2. clean' \in BOOLEAN
    BY <2>1
  <2> QED
    BY <1>4, <2>2 DEF Finish
<1>5. CASE Crash
  BY <1>5 DEF Crash
<1>6. ASSUME NEW fault \in BOOLEAN, NEW unreadable \in BOOLEAN, InstallFails(fault, unreadable)
      PROVE  SwitchesTyped'
  BY <1>6 DEF InstallFails, history
<1>7. ASSUME NEW fault \in BOOLEAN, RollbackFails(fault)
      PROVE  SwitchesTyped'
  <2>1. incomplete' = (incomplete \/ fault \/ disk[Current] # None \/ snap[Current] # None)
    BY <1>7 DEF RollbackFails
  <2>2. incomplete' \in BOOLEAN
    BY <2>1
  <2> QED
    BY <1>7, <2>2 DEF RollbackFails, history
<1>8. ASSUME NEW fault \in BOOLEAN, UninstallFails(fault) \/ UninstallAborts(fault)
      PROVE  SwitchesTyped'
  BY <1>8 DEF UninstallFails, UninstallAborts, history
<1>9. ASSUME NEW t, NEW content, EditSettings(t, content)
      PROVE  SwitchesTyped'
  <2>1. clean' = (clean /\ ~TakesOver(t))
    BY <1>9 DEF EditSettings
  <2>2. clean' \in BOOLEAN
    BY <2>1
  <2> QED
    BY <1>9, <2>2 DEF EditSettings, process
<1>10. ASSUME NEW text, EditFragment(text)
       PROVE  SwitchesTyped'
  <2>1. clean' = (clean /\ ~TakesOver(Fragment)) /\ planted' = (planted /\ text = "rewritten")
    BY <1>10 DEF EditFragment
  <2>2. clean' \in BOOLEAN /\ planted' \in BOOLEAN
    BY <2>1
  <2> QED
    BY <1>10, <2>2 DEF EditFragment, process
<1>11. CASE UNCHANGED vars
  BY <1>11 DEF vars, process, history
<1> QED
  BY <1>1, <1>2, <1>3, <1>4, <1>5, <1>6, <1>7, <1>8, <1>9, <1>10, <1>11
  DEF Next, Winter, Edit, StartsCommand

\* Pruning keeps a list of backups short enough, and its entries are rounds.
LEMMA KeptIsTyped ==
  ASSUME NEW s \in BackupLists, NEW r \in 0..MaxRounds
  PROVE  Kept(<<r>> \o s) \in BackupLists
<1> USE BoundsAreNat
<1>1. KeepBackups \in Nat
  BY IntegrationAssumption DEF IntegrationAssumption
<1>2. PICK n \in 0..KeepBackups : s \in [1..n -> 0..MaxRounds]
  BY DEF BackupLists
<1> DEFINE all == <<r>> \o s
           k == IF n + 1 > KeepBackups THEN KeepBackups ELSE n + 1
<1>3. n \in Nat /\ s \in Seq(0..MaxRounds) /\ Len(s) = n
  BY <1>1, <1>2, IsASeq, LenProperties
<1>4. all \in Seq(0..MaxRounds) /\ Len(all) = n + 1
  BY <1>3
<1>5. Kept(all) = SubSeq(all, 1, k)
  BY <1>4 DEF Kept
<1>6. k \in 0..KeepBackups /\ k <= Len(all)
  BY <1>1, <1>3, <1>4
<1>7. SubSeq(all, 1, k) \in [1..k -> 0..MaxRounds]
  <2>1. k \in Nat /\ 1..k \subseteq DOMAIN all
    BY <1>1, <1>4, <1>6
  <2> HIDE DEF all, k
  <2>2. SubSeq(all, 1, k) = [i \in 1..k |-> all[i]]
    BY <2>1, <1>4
  <2>3. \A i \in 1..k : all[i] \in 0..MaxRounds
    BY <2>1, <1>4
  <2> QED
    BY <2>2, <2>3
<1> QED
  BY <1>5, <1>6, <1>7 DEF BackupLists

LEMMA BackupsStep ==
  ASSUME ProcessInv, BackupsTyped, [Next]_vars
  PROVE  BackupsTyped'
<1>1. CASE BackUp
  <2>1. CASE mode = "install" /\ Current \in Targets
    <3>1. Kept(<<round>> \o backups[Current]) \in BackupLists
      BY <2>1, KeptIsTyped DEF BackupsTyped, ProcessInv
    <3>2. backups' = [backups EXCEPT ![Current] = Kept(<<round>> \o backups[Current])]
      BY <1>1, <2>1 DEF BackUp
    <3> QED
      BY <3>1, <3>2 DEF BackupsTyped
  <2>2. CASE ~(mode = "install" /\ Current \in Targets)
    BY <1>1, <2>2 DEF BackUp, BackupsTyped
  <2> QED
    BY <2>1, <2>2
<1>2. CASE ~BackUp
  <2>1. UNCHANGED backups
    BY <1>2 DEF Next, Winter, StartInstall, StartUninstall, Start, Stage, Recheck, Move, Verify, Finish,
       Crash, InstallFails, RollbackFails, UninstallFails, UninstallAborts, Edit, EditSettings,
       EditFragment, vars
  <2> QED
    BY <2>1 DEF BackupsTyped
<1> QED
  BY <1>1, <1>2

LEMMA OutcomeStep ==
  ASSUME ProcessInv, HistoryTyped, [Next]_vars
  PROVE  outcome' \in {"none", "installed", "uninstalled", "failed", "incomplete", "error", "crashed"}
<1>1. CASE StartsCommand
  BY <1>1, StartReads DEF Planning
<1>2. CASE Finish
  BY <1>2 DEF Finish, ProcessInv
<1>3. CASE Crash
  BY <1>3 DEF Crash
<1>4. ASSUME NEW fault \in BOOLEAN, UninstallAborts(fault)
      PROVE  outcome' = "error"
  BY <1>4 DEF UninstallAborts
<1>5. ASSUME ~StartsCommand, ~Finish, ~Crash, ~\E fault \in BOOLEAN : UninstallAborts(fault)
      PROVE  outcome' = outcome
  BY <1>5 DEF Next, Winter, StartsCommand, BackUp, Stage, Recheck, Move, Verify, InstallFails, RollbackFails,
     UninstallFails, Edit, EditSettings, EditFragment, process, vars
<1> QED
  BY <1>1, <1>2, <1>3, <1>4, <1>5 DEF HistoryTyped

LEMMA MoveKeepsTypes ==
  ASSUME ProcessInv, HistoryTyped, Move
  PROVE  live' \in [Targets -> SUBSET Bindings] /\ added' \in [Targets -> SUBSET Bindings]
<1>1. CASE Current \in Targets
  <2> DEFINE fresh == IF mode = "install" THEN Additions(snap[Current]) ELSE {}
             ours == {b \in live[Current] \cup fresh : Replacement(Current).bound[b] = "ours"}
  <2>1. fresh \subseteq Bindings
    BY DEF Additions
  <2>2. live' = [live EXCEPT ![Current] = ours] /\ added' = [added EXCEPT ![Current] = added[Current] \cup fresh]
    BY <1>1 DEF Move
  <2>3. ours \subseteq Bindings /\ added[Current] \cup fresh \subseteq Bindings
    BY <1>1, <2>1 DEF HistoryTyped
  <2> HIDE DEF fresh, ours
  <2> QED
    BY <2>2, <2>3 DEF HistoryTyped
<1>2. CASE Current \notin Targets
  BY <1>2 DEF Move, HistoryTyped
<1> QED
  BY <1>1, <1>2

LEMMA EditKeepsTypes ==
  ASSUME ProcessInv, NumbersInv, CountersTyped, HistoryTyped, Edit
  PROVE  /\ mine' \in [Targets -> (0..MaxEdits) \cup {None}]
         /\ late' \subseteq Files /\ touched' \subseteq Files
         /\ live' \in [Targets -> SUBSET Bindings]
<1>1. ASSUME NEW t \in Targets, NEW content \in Settings \cup {None}, EditSettings(t, content)
      PROVE  /\ mine' \in [Targets -> (0..MaxEdits) \cup {None}]
             /\ late' \subseteq Files /\ touched' \subseteq Files
             /\ live' \in [Targets -> SUBSET Bindings]
  <2>1. t \in Files /\ UserPart(content) \in (0..MaxEdits) \cup {None}
    BY NamesAreApart DEF UserPart, Settings
  <2>2. /\ mine' = [mine EXCEPT ![t] = UserPart(content)]
        /\ late' \in {late \cup {t}, late \ {t}} /\ touched' = touched \cup {t}
    BY <1>1 DEF EditSettings
  <2>3. live' = [live EXCEPT ![t] = IF content = None THEN {} ELSE {b \in live[t] : content.bound[b] = "ours"}]
    BY <1>1 DEF EditSettings
  <2>4. live' \in [Targets -> SUBSET Bindings]
    BY <2>3 DEF HistoryTyped
  <2> QED
    BY <2>1, <2>2, <2>4 DEF HistoryTyped
<1>2. ASSUME NEW text, EditFragment(text)
      PROVE  /\ mine' = mine /\ live' = live
             /\ late' \in {late \cup {Fragment}, late \ {Fragment}} /\ touched' = touched \cup {Fragment}
  BY <1>2 DEF EditFragment
<1> QED
  BY <1>1, <1>2, EditKeeps, NamesAreApart DEF HistoryTyped

LEMMA HistoryStep ==
  ASSUME ProcessInv, NumbersInv, CountersTyped, HistoryTyped, [Next]_vars
  PROVE  HistoryTyped'
<1>1. CASE StartsCommand
  BY <1>1, StartReads, OutcomeStep DEF Planning, Quiet, HistoryTyped
<1>2. CASE Checks
  BY <1>2, ChecksKeep, OutcomeStep DEF history, HistoryTyped
<1>3. CASE Move
  BY <1>3, MoveFiles, MoveKeepsTypes, OutcomeStep DEF HistoryTyped
<1>4. CASE Ends
  BY <1>4, EndsKeepFiles, OutcomeStep DEF HistoryTyped
<1>5. CASE Edit
  BY <1>5, EditKeeps, EditKeepsTypes, OutcomeStep DEF HistoryTyped
<1>6. CASE UNCHANGED vars
  BY <1>6, OutcomeStep DEF vars, history, HistoryTyped
<1> QED
  BY <1>1, <1>2, <1>3, <1>4, <1>5, <1>6, NextCases

LEMMA InitTypes == Init => CountersTyped /\ SwitchesTyped /\ HistoryTyped /\ BackupsTyped
<1> SUFFICES ASSUME Init PROVE CountersTyped /\ SwitchesTyped /\ HistoryTyped /\ BackupsTyped
  OBVIOUS
<1> USE BoundsAreNat
<1>1. CountersTyped
  BY DEF Init, Idle, CountersTyped
<1>2. SwitchesTyped
  <2>1. incomplete = FALSE /\ clean = TRUE /\ (planted = FALSE \/ planted = TRUE)
    BY Zenon DEF Init, Idle
  <2> QED
    BY <2>1, Zenon DEF SwitchesTyped
<1>3. HistoryTyped
  <2>1. mine \in [Targets -> (0..MaxEdits) \cup {None}]
    BY DEF Init, Idle
  <2>2. late = {} /\ touched = {} /\ outcome = "none" /\ added = live
    BY DEF Init, Idle
  <2> QED
    BY <2>1, <2>2, InitContents DEF HistoryTyped
<1>4. BackupsTyped
  <2>1. <<>> \in [1..0 -> 0..MaxRounds] /\ <<0>> \in [1..1 -> 0..MaxRounds]
    OBVIOUS
  <2>2. 0 \in 0..KeepBackups /\ 1 \in 0..KeepBackups
    BY IntegrationAssumption DEF IntegrationAssumption
  <2>3. <<>> \in BackupLists /\ <<0>> \in BackupLists
    BY <2>1, <2>2 DEF BackupLists
  <2>4. backups = [t \in Targets |-> <<>>] \/ backups = [t \in Targets |-> <<0>>]
    BY DEF Init
  <2> QED
    BY <2>3, <2>4 DEF BackupsTyped
<1> QED
  BY <1>1, <1>2, <1>3, <1>4

\* Whatever fails, is killed or edited, each file holds what a file of its kind may
\* hold, only known files wait to be written or undone, and no channel keeps more
\* backups than KEEP_BACKUPS_PER_LABEL.
THEOREM SpecTypeOK == Spec => []TypeOK
<1> DEFINE Typed == CountersTyped /\ SwitchesTyped /\ HistoryTyped /\ BackupsTyped
<1>1. Init => Typed
  BY InitTypes
<1>2. ProcessInv /\ NumbersInv /\ Typed /\ [Next]_vars => Typed'
  BY CountersStep, SwitchesStep, HistoryStep, BackupsStep
<1>3. ProcessInv /\ Typed => TypeOK
  BY TypesOfInstall
<1> QED
  BY <1>1, <1>2, <1>3, SpecSurvival, PTL DEF Spec

-----------------------------------------------------------------------------
(***************************************************************************)
(* The logon task.                                                         *)
(***************************************************************************)

Roles == {"caller", "helper"}

\* One step of one caller, or of its helper.
TaskStep(c) ==
  \/ \E asked \in {"status", "enable", "disable"}, admin \in BOOLEAN : Task!Start(c, asked, admin)
  \/ \E admin \in BOOLEAN : Task!Approve(c, admin)
  \/ Task!Dismiss(c) \/ Task!Killed(c) \/ Task!Resume(c) \/ Task!Reread(c)
  \/ \E role \in Roles : Task!Query(c, role) \/ Task!Register(c, role) \/ Task!Delete(c, role) \/ Task!ReadBack(c, role)

-----------------------------------------------------------------------------
(* Types *)

Statuses == {"none", "error", "Registered", "Unchanged", "Updated", "Removed", "Missing",
             "Foreign", "Skipped"}
Reports == [status : Statuses, registered : BOOLEAN]

\* The part of the types the other invariants build on.
ShapeInv ==
  /\ task \in Task!Tasks \cup {Task!NoTask}
  /\ pc \in [Task!Processes -> Task!Places]
  /\ command \in [Callers -> {"status", "enable", "disable"}]
  /\ elevated \in [Task!Processes -> BOOLEAN]
  /\ seen \in [Task!Processes -> Task!Tasks \cup {Task!NoTask}]
  /\ result \in [Task!Processes -> Reports]
  /\ current \in [Task!Processes -> BOOLEAN]
  /\ quiet \in [Callers -> BOOLEAN]
  /\ honest \in [Callers -> BOOLEAN]
  /\ declined \in [Callers -> BOOLEAN]
  /\ changes \in Nat

\* A report is one.
LEMMA ReportType ==
  ASSUME NEW status \in Statuses, NEW registered \in BOOLEAN
  PROVE  /\ Task!Report(status, registered) \in Reports
         /\ Task!Report(status, registered).status = status
         /\ Task!Report(status, registered).registered = registered
BY DEF Task!Report, Reports

\* The two processes of a caller, and nobody else's.
LEMMA TwoProcesses ==
  ASSUME NEW c \in Callers
  PROVE  /\ Task!Caller(c) \in Task!Processes /\ Task!Helper(c) \in Task!Processes /\ Task!Caller(c) # Task!Helper(c)
         /\ \A role \in Roles : <<c, role>> \in Task!Processes /\ <<c, role>>[2] = role
         /\ \A d \in Callers, role \in Roles :
               /\ <<c, role>> = Task!Caller(d) <=> c = d /\ role = "caller"
               /\ <<c, role>> = Task!Helper(d) <=> c = d /\ role = "helper"
BY DEF Task!Caller, Task!Helper, Task!Processes, Roles

\* What a process that ends and one that goes on leave of the places and the
\* reports.
LEMMA EndsType ==
  ASSUME ShapeInv, NEW p \in Task!Processes, NEW verdict \in Reports, Task!Ends(p, verdict)
  PROVE  pc' \in [Task!Processes -> Task!Places] /\ result' \in [Task!Processes -> Reports]
BY DEF ShapeInv, Task!Ends, Task!Places

LEMMA GoesType ==
  ASSUME ShapeInv, NEW p \in Task!Processes, NEW place \in Task!Places, Task!Goes(p, place)
  PROVE  pc' \in [Task!Processes -> Task!Places] /\ result' \in [Task!Processes -> Reports]
BY DEF ShapeInv, Task!Goes

LEMMA DecideType ==
  ASSUME ShapeInv, NEW p \in Task!Processes, NEW asked \in {"status", "enable", "disable"},
         NEW found \in Task!Tasks \cup {Task!NoTask}, Task!Decide(p, asked, found)
  PROVE  pc' \in [Task!Processes -> Task!Places] /\ result' \in [Task!Processes -> Reports]
<1>1. CASE \E verdict \in Reports : Task!Ends(p, verdict)
  BY <1>1, EndsType
<1>2. CASE \E place \in Task!Places : Task!Goes(p, place)
  BY <1>2, GoesType
<1>3. {"error", "Missing", "Foreign", "Registered", "Unchanged"} \subseteq Statuses
      /\ {"write", "prompt"} \subseteq Task!Places
  BY DEF Statuses, Task!Places
<1>4. \A s \in {"error", "Missing", "Foreign", "Registered", "Unchanged"}, r \in BOOLEAN :
         Task!Report(s, r) \in Reports
  BY <1>3, ReportType
<1>5. (\E verdict \in Reports : Task!Ends(p, verdict)) \/ (\E place \in Task!Places : Task!Goes(p, place))
  BY <1>3, <1>4 DEF Task!Decide, Task!Proceeds, Task!Error
<1> QED BY <1>1, <1>2, <1>5


LEMMA NextIsStep == Task!Next <=> (\E c \in Callers : TaskStep(c)) \/ \E t \in Task!Tasks \cup {Task!NoTask} : Task!Outside(t)
BY DEF Task!Next, TaskStep, Roles

LEMMA ShapeInit == Task!Init => ShapeInv
<1> SUFFICES ASSUME Task!Init PROVE ShapeInv
  OBVIOUS
<1>1. Task!Nothing \in Reports
  BY DEF Task!Nothing, Task!Report, Reports, Statuses
<1>2. "off" \in Task!Places
  BY DEF Task!Places
<1> QED BY <1>1, <1>2 DEF Task!Init, ShapeInv

LEMMA ShapeStep == ShapeInv /\ [Task!Next]_(Task!vars) => ShapeInv'
<1> SUFFICES ASSUME ShapeInv, [Task!Next]_(Task!vars) PROVE ShapeInv'
  OBVIOUS
<1>places. {"query", "prompt", "wait", "write", "readback", "reread", "done", "off"} \subseteq Task!Places
  BY DEF Task!Places
<1>reports. \A s \in Statuses, r \in BOOLEAN : Task!Report(s, r) \in Reports
  BY ReportType
<1>statuses. {"none", "error", "Registered", "Unchanged", "Updated", "Removed", "Missing",
              "Foreign", "Skipped"} \subseteq Statuses
  BY DEF Statuses
<1>error. Task!Error \in Reports /\ Task!Skipped \in Reports /\ Task!Nothing \in Reports
  BY <1>reports, <1>statuses DEF Task!Error, Task!Skipped, Task!Nothing
<1>tasks. "ours" \in Task!Tasks
  BY DEF Task!Tasks
<1>1. CASE UNCHANGED Task!vars
  BY <1>1 DEF ShapeInv, Task!vars
<1>2. ASSUME NEW c \in Callers, TaskStep(c) PROVE ShapeInv'
  <2>c. Task!Caller(c) \in Task!Processes /\ Task!Helper(c) \in Task!Processes
        /\ \A role \in Roles : <<c, role>> \in Task!Processes
    BY TwoProcesses
  <2>1. ASSUME NEW asked \in {"status", "enable", "disable"}, NEW admin \in BOOLEAN, Task!Start(c, asked, admin)
        PROVE  ShapeInv'
    BY <2>1, <2>c, <1>places DEF ShapeInv, Task!Start
  <2>2. ASSUME NEW admin \in BOOLEAN, Task!Approve(c, admin) PROVE ShapeInv'
    BY <2>2, <2>c, <1>places DEF ShapeInv, Task!Approve
  <2>3. CASE Task!Dismiss(c)
    <3>1. pc' \in [Task!Processes -> Task!Places] /\ result' \in [Task!Processes -> Reports]
      BY <2>3, <2>c, <1>error, EndsType DEF Task!Dismiss
    <3> QED BY <2>3, <3>1 DEF Task!Dismiss, ShapeInv
  <2>4. CASE Task!Killed(c)
    <3>1. pc' \in [Task!Processes -> Task!Places] /\ result' \in [Task!Processes -> Reports]
      BY <2>4, <2>c, <1>error, EndsType DEF Task!Killed
    <3> QED BY <2>4, <3>1 DEF Task!Killed, Task!Fault, ShapeInv
  <2>5. CASE Task!Resume(c)
    <3>1. \A r \in Reports : Task!Report("Removed", FALSE) \in Reports
      BY <1>reports, <1>statuses
    <3>2. pc' \in [Task!Processes -> Task!Places]
      BY <2>5, <2>c, <1>places DEF Task!Resume, ShapeInv
    <3>3. result' \in [Task!Processes -> Reports]
      BY <2>5, <2>c, <3>1, <1>error DEF Task!Resume, ShapeInv
    <3> QED BY <2>5, <3>2, <3>3 DEF Task!Resume, ShapeInv
  <2>6. CASE Task!Reread(c)
    <3>1. \E r \in Reports : Task!Ends(Task!Caller(c), r)
      BY <2>6, <1>reports, <1>statuses, <1>error DEF Task!Reread
    <3>2. pc' \in [Task!Processes -> Task!Places] /\ result' \in [Task!Processes -> Reports]
      BY <3>1, <2>c, EndsType
    <3> QED BY <2>6, <3>2 DEF Task!Reread, Task!NoFault, Task!Fault, ShapeInv
  <2>7. ASSUME NEW role \in Roles, Task!Query(c, role) PROVE ShapeInv'
    <3> DEFINE p == <<c, role>>
    <3>p. p \in Task!Processes
      BY <2>c
    <3>1. pc' \in [Task!Processes -> Task!Places] /\ result' \in [Task!Processes -> Reports]
      <4>1. CASE \E found \in Task!Tasks \cup {Task!NoTask} : Task!Decide(p, command[c], found)
        BY <4>1, <3>p, DecideType DEF ShapeInv
      <4>2. CASE \E r \in Reports : Task!Ends(p, r)
        BY <4>2, <3>p, EndsType
      <4> QED BY <2>7, <4>1, <4>2, <1>error DEF Task!Query, ShapeInv
    <3>2. seen' \in [Task!Processes -> Task!Tasks \cup {Task!NoTask}]
      BY <2>7, <3>p DEF Task!Query, ShapeInv
    <3>3. current' \in [Task!Processes -> BOOLEAN]
      BY <2>7, <3>p DEF Task!Query, ShapeInv
    <3>4. honest' \in [Callers -> BOOLEAN]
      BY <2>7 DEF Task!Query, ShapeInv, Task!Fault, Task!NoFault
    <3> QED BY <2>7, <3>1, <3>2, <3>3, <3>4 DEF Task!Query, ShapeInv
  <2>8. ASSUME NEW t \in Task!Tasks \cup {Task!NoTask}, Task!Becomes(c, t) PROVE /\ task' \in Task!Tasks \cup {Task!NoTask}
                                                          /\ quiet' \in [Callers -> BOOLEAN]
                                                          /\ current' \in [Task!Processes -> BOOLEAN]
    BY <2>8 DEF Task!Becomes, ShapeInv
  <2>9. ASSUME NEW role \in Roles, Task!Register(c, role) PROVE ShapeInv'
    <3>1. pc' \in [Task!Processes -> Task!Places] /\ result' \in [Task!Processes -> Reports]
      BY <2>9, <2>c, <1>error, <1>places, EndsType, GoesType DEF Task!Register
    <3>2. /\ task' \in Task!Tasks \cup {Task!NoTask}
          /\ quiet' \in [Callers -> BOOLEAN]
          /\ current' \in [Task!Processes -> BOOLEAN]
      <4>1. CASE Task!Becomes(c, "ours")
        BY <4>1, <2>8, <1>tasks
      <4>2. CASE Task!Keeps
        BY <4>2 DEF Task!Keeps, ShapeInv
      <4> QED BY <2>9, <4>1, <4>2 DEF Task!Register
    <3>3. honest' \in [Callers -> BOOLEAN]
      BY <2>9 DEF Task!Register, ShapeInv, Task!Fault, Task!NoFault
    <3> QED BY <2>9, <3>1, <3>2, <3>3 DEF Task!Register, ShapeInv
  <2>10. ASSUME NEW role \in Roles, Task!Delete(c, role) PROVE ShapeInv'
    <3>1. pc' \in [Task!Processes -> Task!Places] /\ result' \in [Task!Processes -> Reports]
      BY <2>10, <2>c, <1>error, <1>reports, <1>statuses, EndsType DEF Task!Delete
    <3>2. /\ task' \in Task!Tasks \cup {Task!NoTask}
          /\ quiet' \in [Callers -> BOOLEAN]
          /\ current' \in [Task!Processes -> BOOLEAN]
      <4>1. CASE Task!Becomes(c, Task!NoTask)
        BY <4>1, <2>8
      <4>2. CASE Task!Keeps
        BY <4>2 DEF Task!Keeps, ShapeInv
      <4> QED BY <2>10, <4>1, <4>2 DEF Task!Delete
    <3>3. honest' \in [Callers -> BOOLEAN]
      BY <2>10 DEF Task!Delete, ShapeInv, Task!Fault, Task!NoFault
    <3> QED BY <2>10, <3>1, <3>2, <3>3 DEF Task!Delete, ShapeInv
  <2>11. ASSUME NEW role \in Roles, Task!ReadBack(c, role) PROVE ShapeInv'
    <3>1. \E r \in Reports : Task!Ends(<<c, role>>, r)
      BY <2>11, <1>error, <1>reports, <1>statuses DEF Task!ReadBack
    <3>2. pc' \in [Task!Processes -> Task!Places] /\ result' \in [Task!Processes -> Reports]
      BY <3>1, <2>c, EndsType
    <3>3. honest' \in [Callers -> BOOLEAN]
      BY <2>11 DEF Task!ReadBack, ShapeInv, Task!Fault, Task!NoFault
    <3> QED BY <2>11, <3>2, <3>3 DEF Task!ReadBack, ShapeInv
  <2> QED BY <1>2, <2>1, <2>2, <2>3, <2>4, <2>5, <2>6, <2>7, <2>9, <2>10, <2>11 DEF TaskStep
<1>3. ASSUME NEW t \in Task!Tasks \cup {Task!NoTask}, Task!Outside(t) PROVE ShapeInv'
  BY <1>3 DEF ShapeInv, Task!Outside
<1> QED BY <1>1, <1>2, <1>3, NextIsStep


-----------------------------------------------------------------------------
(* Where the two processes of a caller can be *)

OrderOf(c) ==
  /\ pc[Task!Helper(c)] \in {"off", "query", "write", "readback", "done"}
  /\ pc[Task!Helper(c)] # "off" => pc[Task!Caller(c)] = "wait"
  /\ pc[Task!Caller(c)] \in {"prompt", "wait"} => command[c] # "status"
  /\ pc[Task!Caller(c)] = "reread" => command[c] = "enable"
  /\ \A role \in Roles : /\ pc[<<c, role>>] = "write" => command[c] # "status"
                         /\ pc[<<c, role>>] = "readback" => command[c] = "enable"

OrderInv == \A c \in Callers : OrderOf(c)

\* A step of one caller leaves the processes of the others alone, and whoever
\* was undisturbed before and still is finds the task unchanged.
LEMMA OthersUntouched ==
  ASSUME ShapeInv, NEW c \in Callers, TaskStep(c), NEW d \in Callers, d # c
  PROVE  /\ \A role \in Roles : /\ pc'[<<d, role>>] = pc[<<d, role>>]
                                /\ result'[<<d, role>>] = result[<<d, role>>]
         /\ pc'[Task!Caller(d)] = pc[Task!Caller(d)] /\ pc'[Task!Helper(d)] = pc[Task!Helper(d)]
         /\ result'[Task!Caller(d)] = result[Task!Caller(d)] /\ result'[Task!Helper(d)] = result[Task!Helper(d)]
         /\ command'[d] = command[d]
         /\ honest'[d] = honest[d]
         /\ quiet'[d] => quiet[d] /\ task' = task
<1>1. /\ \A role \in Roles : /\ pc'[<<d, role>>] = pc[<<d, role>>]
                             /\ result'[<<d, role>>] = result[<<d, role>>]
  <2> SUFFICES ASSUME NEW role \in Roles
               PROVE  pc'[<<d, role>>] = pc[<<d, role>>] /\ result'[<<d, role>>] = result[<<d, role>>]
    OBVIOUS
  <2> DEFINE q == <<d, role>>
  <2>q. q \in Task!Processes /\ q # Task!Caller(c) /\ q # Task!Helper(c) /\ \A r \in Roles : q # <<c, r>>
    BY DEF Task!Processes, Roles, Task!Caller, Task!Helper
  <2> HIDE DEF q
  <2>1. ASSUME NEW p \in Task!Processes, p # q, NEW verdict, Task!Ends(p, verdict)
        PROVE  pc'[q] = pc[q] /\ result'[q] = result[q]
    BY <2>1, <2>q DEF Task!Ends, ShapeInv
  <2>2. ASSUME NEW p \in Task!Processes, p # q, NEW place, Task!Goes(p, place)
        PROVE  pc'[q] = pc[q] /\ result'[q] = result[q]
    BY <2>2, <2>q DEF Task!Goes, ShapeInv
  <2>3. ASSUME NEW p \in Task!Processes, p # q, NEW asked, NEW found, Task!Decide(p, asked, found)
        PROVE  pc'[q] = pc[q] /\ result'[q] = result[q]
    BY <2>1, <2>2, <2>3 DEF Task!Decide, Task!Proceeds
  <2>c. Task!Caller(c) \in Task!Processes /\ Task!Helper(c) \in Task!Processes
        /\ \A r \in Roles : <<c, r>> \in Task!Processes
    BY TwoProcesses
  <2>4. ASSUME \E asked \in {"status", "enable", "disable"}, admin \in BOOLEAN : Task!Start(c, asked, admin)
        PROVE  pc'[q] = pc[q] /\ result'[q] = result[q]
    BY <2>4, <2>q, <2>c DEF Task!Start, ShapeInv
  <2>5. ASSUME \E admin \in BOOLEAN : Task!Approve(c, admin)
        PROVE  pc'[q] = pc[q] /\ result'[q] = result[q]
    BY <2>5, <2>q, <2>c DEF Task!Approve, ShapeInv
  <2>6. ASSUME Task!Dismiss(c)
        PROVE  pc'[q] = pc[q] /\ result'[q] = result[q]
    BY <2>6, <2>q, <2>c, <2>1 DEF Task!Dismiss
  <2>7. ASSUME Task!Killed(c)
        PROVE  pc'[q] = pc[q] /\ result'[q] = result[q]
    BY <2>7, <2>q, <2>c, <2>1 DEF Task!Killed
  <2>8. ASSUME Task!Resume(c)
        PROVE  pc'[q] = pc[q] /\ result'[q] = result[q]
    BY <2>8, <2>q, <2>c DEF Task!Resume, ShapeInv
  <2>9. ASSUME Task!Reread(c)
        PROVE  pc'[q] = pc[q] /\ result'[q] = result[q]
    BY <2>9, <2>q, <2>c, <2>1 DEF Task!Reread
  <2>10. ASSUME NEW r \in Roles, Task!Query(c, r) PROVE pc'[q] = pc[q] /\ result'[q] = result[q]
    BY <2>10, <2>q, <2>c, <2>1, <2>3 DEF Task!Query
  <2>11. ASSUME NEW r \in Roles, Task!Register(c, r) PROVE pc'[q] = pc[q] /\ result'[q] = result[q]
    BY <2>11, <2>q, <2>c, <2>1, <2>2 DEF Task!Register
  <2>12. ASSUME NEW r \in Roles, Task!Delete(c, r) PROVE pc'[q] = pc[q] /\ result'[q] = result[q]
    BY <2>12, <2>q, <2>c, <2>1 DEF Task!Delete
  <2>13. ASSUME NEW r \in Roles, Task!ReadBack(c, r) PROVE pc'[q] = pc[q] /\ result'[q] = result[q]
    BY <2>13, <2>q, <2>c, <2>1 DEF Task!ReadBack
  <2> QED BY <2>4, <2>5, <2>6, <2>7, <2>8, <2>9, <2>10, <2>11, <2>12, <2>13 DEF TaskStep, q
<1>2. command'[d] = command[d]
  BY DEF TaskStep, Task!Start, Task!Approve, Task!Dismiss, Task!Killed, Task!Resume, Task!Reread, Task!Query, Task!Register, Task!Delete, Task!ReadBack,
         ShapeInv
<1>3. honest'[d] = honest[d]
  BY DEF TaskStep, Task!Start, Task!Approve, Task!Dismiss, Task!Killed, Task!Resume, Task!Reread, Task!Query, Task!Register, Task!Delete, Task!ReadBack,
         Task!Fault, Task!NoFault, ShapeInv
<1>4. quiet'[d] => quiet[d] /\ task' = task
  BY DEF TaskStep, Task!Start, Task!Approve, Task!Dismiss, Task!Killed, Task!Resume, Task!Reread, Task!Query, Task!Register, Task!Delete, Task!ReadBack,
         Task!Becomes, Task!Keeps, ShapeInv
<1> QED BY <1>1, <1>2, <1>3, <1>4 DEF Roles, Task!Caller, Task!Helper


\* Where a process is after it has read the task.
LEMMA DecidePlace ==
  ASSUME ShapeInv, NEW p \in Task!Processes, NEW asked \in {"status", "enable", "disable"},
         NEW found \in Task!Tasks \cup {Task!NoTask}, Task!Decide(p, asked, found)
  PROVE  /\ pc'[p] \in {"write", "prompt", "done"}
         /\ pc'[p] # "done" => asked # "status"
         /\ p[2] = "helper" => pc'[p] # "prompt"
         /\ \A q \in Task!Processes : q # p => pc'[q] = pc[q]
<1>1. ASSUME NEW verdict, Task!Ends(p, verdict)
      PROVE  pc'[p] = "done" /\ \A q \in Task!Processes : q # p => pc'[q] = pc[q]
  BY <1>1 DEF Task!Ends, ShapeInv
<1>2. ASSUME NEW place, Task!Goes(p, place)
      PROVE  pc'[p] = place /\ \A q \in Task!Processes : q # p => pc'[q] = pc[q]
  BY <1>2 DEF Task!Goes, ShapeInv
<1>3. \/ \E verdict : Task!Ends(p, verdict)
      \/ asked # "status" /\ Task!Proceeds(p)
  BY DEF Task!Decide
<1>4. \/ \E verdict : Task!Ends(p, verdict)
      \/ asked # "status" /\ Task!Goes(p, "write")
      \/ asked # "status" /\ p[2] # "helper" /\ Task!Goes(p, "prompt")
  BY <1>3 DEF Task!Proceeds
<1> QED BY <1>1, <1>2, <1>4

LEMMA OrderStep == ShapeInv /\ OrderInv /\ [Task!Next]_(Task!vars) => OrderInv'
<1> SUFFICES ASSUME ShapeInv, OrderInv, [Task!Next]_(Task!vars) PROVE OrderInv'
  OBVIOUS
<1>1. CASE UNCHANGED Task!vars
  BY <1>1 DEF OrderInv, OrderOf, Task!vars
<1>2. ASSUME NEW t \in Task!Tasks \cup {Task!NoTask}, Task!Outside(t) PROVE OrderInv'
  BY <1>2 DEF Task!Outside, OrderInv, OrderOf
<1>3. ASSUME NEW c \in Callers, TaskStep(c) PROVE OrderInv'
  <2>1. ASSUME NEW d \in Callers, d # c PROVE OrderOf(d)'
    BY <1>3, <2>1, OthersUntouched DEF OrderInv, OrderOf
  <2>2. OrderOf(c)'
    <3>c. /\ Task!Caller(c) \in Task!Processes /\ Task!Helper(c) \in Task!Processes /\ Task!Caller(c) # Task!Helper(c)
          /\ Task!Caller(c) = <<c, "caller">> /\ Task!Helper(c) = <<c, "helper">>
      BY TwoProcesses DEF Task!Caller, Task!Helper
    <3>o. OrderOf(c)
      BY DEF OrderInv
    <3>r. Roles = {"caller", "helper"}
      BY DEF Roles
    <3>1. CASE \E asked \in {"status", "enable", "disable"}, admin \in BOOLEAN : Task!Start(c, asked, admin)
      BY <3>1, <3>c, <3>o, <3>r DEF Task!Start, ShapeInv, OrderOf
    <3>2. CASE \E admin \in BOOLEAN : Task!Approve(c, admin)
      BY <3>2, <3>c, <3>o, <3>r DEF Task!Approve, ShapeInv, OrderOf
    <3>3. CASE Task!Dismiss(c)
      BY <3>3, <3>c, <3>o, <3>r DEF Task!Dismiss, Task!Ends, ShapeInv, OrderOf
    <3>4. CASE Task!Killed(c)
      BY <3>4, <3>c, <3>o, <3>r DEF Task!Killed, Task!Ends, ShapeInv, OrderOf
    <3>5. CASE Task!Resume(c)
      BY <3>5, <3>c, <3>o, <3>r DEF Task!Resume, ShapeInv, OrderOf
    <3>6. CASE Task!Reread(c)
      BY <3>6, <3>c, <3>o, <3>r DEF Task!Reread, Task!Ends, ShapeInv, OrderOf
    <3>7. ASSUME NEW role \in Roles, Task!Query(c, role) PROVE OrderOf(c)'
      <4> DEFINE p == <<c, role>>
      <4>p. p \in Task!Processes /\ p[2] = role /\ pc[p] = "query"
        BY <3>7, TwoProcesses DEF Task!Query
      <4>1. command'[c] = command[c] /\ command[c] \in {"status", "enable", "disable"}
        BY <3>7 DEF Task!Query, ShapeInv
      <4>2. /\ pc'[p] \in {"write", "prompt", "done"}
            /\ pc'[p] # "done" => command[c] # "status"
            /\ p[2] = "helper" => pc'[p] # "prompt"
            /\ \A q \in Task!Processes : q # p => pc'[q] = pc[q]
        <5>1. CASE \E found \in Task!Tasks \cup {Task!NoTask} : Task!Decide(p, command[c], found)
          BY <5>1, <4>1, <4>p, DecidePlace
        <5>2. CASE \E verdict : Task!Ends(p, verdict)
          BY <5>2, <4>p DEF Task!Ends, ShapeInv
        <5> QED BY <3>7, <5>1, <5>2 DEF Task!Query, ShapeInv
      <4> HIDE DEF p
      <4>3. CASE role = "caller"
        <5>1. p = Task!Caller(c) /\ pc'[Task!Helper(c)] = pc[Task!Helper(c)] /\ pc[Task!Helper(c)] = "off"
          BY <4>3, <4>2, <4>p, <3>c, <3>o DEF p, OrderOf
        <5> QED BY <5>1, <4>1, <4>2, <3>c, <3>o, <3>r DEF OrderOf
      <4>4. CASE role = "helper"
        <5>1. p = Task!Helper(c) /\ pc'[Task!Caller(c)] = pc[Task!Caller(c)] /\ pc[Task!Caller(c)] = "wait"
          BY <4>4, <4>2, <4>p, <3>c, <3>o DEF p, OrderOf
        <5> QED BY <5>1, <4>1, <4>2, <4>4, <4>p, <3>c, <3>o, <3>r DEF OrderOf
      <4> QED BY <4>3, <4>4, <3>r
    <3>8. ASSUME NEW role \in Roles, Task!Register(c, role) PROVE OrderOf(c)'
      BY <3>8, <3>c, <3>o, <3>r DEF Task!Register, Task!Ends, Task!Goes, ShapeInv, OrderOf
    <3>9. ASSUME NEW role \in Roles, Task!Delete(c, role) PROVE OrderOf(c)'
      BY <3>9, <3>c, <3>o, <3>r DEF Task!Delete, Task!Ends, ShapeInv, OrderOf
    <3>10. ASSUME NEW role \in Roles, Task!ReadBack(c, role) PROVE OrderOf(c)'
      BY <3>10, <3>c, <3>o, <3>r DEF Task!ReadBack, Task!Ends, ShapeInv, OrderOf
    <3> QED BY <1>3, <3>1, <3>2, <3>3, <3>4, <3>5, <3>6, <3>7, <3>8, <3>9, <3>10 DEF TaskStep
  <2> QED BY <2>1, <2>2 DEF OrderInv
<1> QED BY <1>1, <1>2, <1>3, NextIsStep


-----------------------------------------------------------------------------
(* A task of somebody else *)

\* Whoever is about to write a task that is as it read it does not write one of
\* somebody else.
CurrentInv ==
  \A p \in Task!Processes : pc[p] = "write" /\ current[p] => task # "foreign"

\* A process only goes on to write, or to ask for a helper, after it has read
\* a task of Winter's or none.
LEMMA ReadsItsOwn ==
  ASSUME ShapeInv, NEW p \in Task!Processes, NEW asked \in {"status", "enable", "disable"},
         NEW found \in Task!Tasks \cup {Task!NoTask}, Task!Decide(p, asked, found), pc'[p] # "done"
  PROVE  found # "foreign"
<1>1. ASSUME NEW verdict, Task!Ends(p, verdict) PROVE pc'[p] = "done"
  BY <1>1 DEF Task!Ends, ShapeInv
<1>2. found = Task!NoTask \/ Task!Managed(found)
  BY <1>1 DEF Task!Decide
<1> QED BY <1>2 DEF Task!Managed, Task!Tasks, Task!NoTask

LEMMA CurrentStep == ShapeInv /\ CurrentInv /\ [Task!Next]_(Task!vars) => CurrentInv'
<1> SUFFICES ASSUME ShapeInv, CurrentInv, [Task!Next]_(Task!vars),
                    NEW p \in Task!Processes, pc'[p] = "write", current'[p]
             PROVE  task' # "foreign"
  BY DEF CurrentInv
<1>1. CASE UNCHANGED Task!vars
  BY <1>1 DEF CurrentInv, Task!vars
<1>2. ASSUME NEW t \in Task!Tasks \cup {Task!NoTask}, Task!Outside(t) PROVE FALSE
  BY <1>2 DEF Task!Outside
<1>3. ASSUME NEW c \in Callers, TaskStep(c) PROVE task' # "foreign"
  <2>c. /\ Task!Caller(c) \in Task!Processes /\ Task!Helper(c) \in Task!Processes
        /\ \A role \in Roles : <<c, role>> \in Task!Processes
    BY TwoProcesses
  <2>1. CASE pc[p] = "write" /\ current[p] /\ task' = task
    BY <2>1 DEF CurrentInv
  <2>2. ASSUME NEW role \in Roles, Task!Query(c, role), p = <<c, role>> PROVE task' # "foreign"
    <3>1. task' = task /\ seen'[p] = task
      BY <2>2 DEF Task!Query, ShapeInv
    <3>2. CASE \E verdict : Task!Ends(p, verdict)
      BY <3>2 DEF Task!Ends, ShapeInv
    <3>3. CASE \E found \in Task!Tasks \cup {Task!NoTask} : Task!Decide(p, command[c], found) /\ seen'[p] = found
      <4>1. command[c] \in {"status", "enable", "disable"}
        BY DEF ShapeInv
      <4> QED BY <3>1, <3>3, <4>1, ReadsItsOwn
    <3> QED BY <2>2, <3>2, <3>3 DEF Task!Query, ShapeInv
  <2>3. \/ pc[p] = "write" /\ current[p] /\ task' = task
        \/ \E role \in Roles : Task!Query(c, role) /\ p = <<c, role>>
    <3>1. ASSUME NEW place, NEW q \in Task!Processes, Task!Goes(q, place), place # "write"
          PROVE  pc[p] = "write"
      BY <3>1 DEF Task!Goes, ShapeInv
    <3>2. ASSUME NEW verdict, NEW q \in Task!Processes, Task!Ends(q, verdict)
          PROVE  pc[p] = "write"
      BY <3>2 DEF Task!Ends, ShapeInv
    <3>3. CASE \E asked \in {"status", "enable", "disable"}, admin \in BOOLEAN : Task!Start(c, asked, admin)
      BY <3>3, <2>c DEF Task!Start, ShapeInv
    <3>4. CASE \E admin \in BOOLEAN : Task!Approve(c, admin)
      BY <3>4, <2>c DEF Task!Approve, ShapeInv
    <3>5. CASE Task!Dismiss(c)
      BY <3>5, <3>2, <2>c DEF Task!Dismiss
    <3>6. CASE Task!Killed(c)
      BY <3>6, <3>2, <2>c DEF Task!Killed
    <3>7. CASE Task!Resume(c)
      BY <3>7, <2>c DEF Task!Resume, ShapeInv
    <3>8. CASE Task!Reread(c)
      BY <3>8, <3>2, <2>c DEF Task!Reread
    <3>9. ASSUME NEW role \in Roles, Task!Query(c, role), p # <<c, role>>
          PROVE  pc[p] = "write" /\ current[p] /\ task' = task
      <4>1. current'[p] = current[p] /\ task' = task
        BY <3>9, <2>c DEF Task!Query, ShapeInv
      <4>2. pc'[p] = pc[p]
        <5>1. CASE \E verdict : Task!Ends(<<c, role>>, verdict)
          BY <5>1, <3>9, <2>c DEF Task!Ends, ShapeInv
        <5>2. CASE \E found \in Task!Tasks \cup {Task!NoTask} : Task!Decide(<<c, role>>, command[c], found)
          BY <5>2, <3>9, <2>c, DecidePlace DEF ShapeInv
        <5> QED BY <3>9, <5>1, <5>2 DEF Task!Query, ShapeInv
      <4> QED BY <4>1, <4>2
    <3>10. ASSUME NEW t, Task!Becomes(c, t) PROVE current[p] /\ task' = task
      BY <3>10 DEF Task!Becomes
    <3>11. ASSUME Task!Keeps PROVE current[p] /\ task' = task
      BY <3>11 DEF Task!Keeps
    <3>12. ASSUME NEW role \in Roles, Task!Register(c, role)
           PROVE  pc[p] = "write" /\ current[p] /\ task' = task
      BY <3>12, <3>1, <3>2, <3>10, <3>11, <2>c DEF Task!Register
    <3>13. ASSUME NEW role \in Roles, Task!Delete(c, role)
           PROVE  pc[p] = "write" /\ current[p] /\ task' = task
      BY <3>13, <3>2, <3>10, <3>11, <2>c DEF Task!Delete
    <3>14. ASSUME NEW role \in Roles, Task!ReadBack(c, role)
           PROVE  pc[p] = "write" /\ current[p] /\ task' = task
      BY <3>14, <3>2, <2>c DEF Task!ReadBack
    <3> QED BY <1>3, <3>3, <3>4, <3>5, <3>6, <3>7, <3>8, <3>9, <3>12, <3>13, <3>14
            DEF TaskStep, Task!Start, Task!Approve, Task!Dismiss, Task!Killed, Task!Resume, Task!Reread
  <2> QED BY <2>1, <2>2, <2>3
<1> QED BY <1>1, <1>2, <1>3, NextIsStep

\* Only a write changes the task without counting as somebody else's.
LEMMA OnlyWritesChange ==
  ASSUME ShapeInv, [Task!Next]_(Task!vars), task' # task, changes' = changes
  PROVE  \E p \in Task!Processes : pc[p] = "write" /\ pc'[p] # "write"
<1>1. ASSUME NEW t \in Task!Tasks \cup {Task!NoTask}, Task!Outside(t) PROVE FALSE
  BY <1>1 DEF Task!Outside, ShapeInv
<1>2. ~UNCHANGED Task!vars
  BY DEF Task!vars
<1>3. PICK c \in Callers, role \in Roles : Task!Register(c, role) \/ Task!Delete(c, role)
  BY <1>1, <1>2, NextIsStep
     DEF TaskStep, Task!Start, Task!Approve, Task!Dismiss, Task!Killed, Task!Resume, Task!Reread, Task!Query, Task!ReadBack
<1> DEFINE p == <<c, role>>
<1>4. p \in Task!Processes
  BY TwoProcesses
<1>5. pc[p] = "write"
  BY <1>3 DEF Task!Register, Task!Delete
<1>6. pc'[p] \in {"readback", "done"}
  BY <1>3, <1>4 DEF Task!Register, Task!Delete, Task!Ends, Task!Goes, ShapeInv
<1> QED BY <1>4, <1>5, <1>6

\* A task of somebody else is replaced or deleted only by a process that read
\* something different: it came after the query, or the query failed.
THEOREM SpecForeignIsNotRead == Task!Spec => ForeignIsNotRead
<1>1. Task!Init => CurrentInv
  BY DEF Task!Init, CurrentInv
<1>2. ShapeInv /\ CurrentInv /\ [Task!Next]_(Task!vars) =>
        [task = "foreign" /\ task' # task /\ changes' = changes =>
           \E p \in Task!Processes : pc[p] = "write" /\ pc'[p] # "write" /\ ~current[p]]_(Task!vars)
  BY OnlyWritesChange DEF CurrentInv
<1> QED BY <1>1, <1>2, ShapeInit, ShapeStep, CurrentStep, PTL
   DEF Task!Spec, ForeignIsNotRead, Task!ForeignIsNotRead

-----------------------------------------------------------------------------
(* What an undisturbed command leaves *)

\* What a successful command makes of the task.
Undisturbed(c) ==
  /\ command[c] = "enable" => task = "ours"
  /\ command[c] = "disable" => task = Task!NoTask

\* What the processes of an undisturbed command know of the task: neither asks
\* for it to be written if it is somebody else's, and what one of them reports
\* as done is done.
QuietOf(c) ==
  /\ pc[Task!Caller(c)] = "prompt" \/ pc[Task!Helper(c)] = "query" => task # "foreign"
  /\ \A role \in Roles : pc[<<c, role>>] = "readback" => task = "ours"
  /\ pc[Task!Helper(c)] = "done" /\ Task!ExitCode(command[c], result[Task!Helper(c)]) = 0 => Undisturbed(c)
  /\ pc[Task!Caller(c)] = "reread" => task = "ours"
  /\ pc[Task!Caller(c)] = "done" =>
       /\ command[c] = "enable" /\ Task!Persistent(result[Task!Caller(c)]) => task = "ours"
       /\ result[Task!Caller(c)].status \in {"Removed", "Missing"} => task = Task!NoTask

QuietInv == \A c \in Callers : quiet[c] /\ honest[c] => QuietOf(c)

\* What a process that has read the task truthfully reports, or goes on to do.
LEMMA TruthfulDecision ==
  ASSUME ShapeInv, NEW p \in Task!Processes, NEW asked \in {"status", "enable", "disable"},
         Task!Decide(p, asked, task)
  PROVE  \/ /\ pc'[p] \in {"write", "prompt"} /\ task # "foreign"
            /\ pc'[p] = "prompt" => p[2] # "helper"
         \/ /\ pc'[p] = "done"
            /\ asked = "enable" /\ Task!Persistent(result'[p]) => task = "ours"
            /\ asked = "disable" /\ task # "foreign" /\ Task!ExitCode(asked, result'[p]) = 0 => task = Task!NoTask
            /\ result'[p].status \in {"Removed", "Missing"} => task = Task!NoTask
<1>1. ASSUME pc'[p] # "done"
      PROVE  /\ pc'[p] \in {"write", "prompt"} /\ task # "foreign"
             /\ pc'[p] = "prompt" => p[2] # "helper"
  BY <1>1, DecidePlace, ReadsItsOwn DEF ShapeInv
<1>2. ASSUME pc'[p] = "done" PROVE pc'[p] = "done"
            /\ (asked = "enable" /\ Task!Persistent(result'[p]) => task = "ours")
            /\ (asked = "disable" /\ task # "foreign" /\ Task!ExitCode(asked, result'[p]) = 0 => task = Task!NoTask)
            /\ (result'[p].status \in {"Removed", "Missing"} => task = Task!NoTask)
  <2>1. ASSUME NEW verdict, Task!Ends(p, verdict) PROVE result'[p] = verdict
    BY <2>1 DEF Task!Ends, ShapeInv
  <2>2. ASSUME NEW place, Task!Goes(p, place) PROVE pc'[p] = place
    BY <2>2 DEF Task!Goes, ShapeInv
  <2>3. CASE asked = "status"
    <3>1. \/ Task!Ends(p, Task!Report("Missing", FALSE)) /\ task = Task!NoTask
          \/ Task!Ends(p, Task!Report("Registered", TRUE))
          \/ Task!Ends(p, Task!Report("Foreign", FALSE))
      BY <2>3 DEF Task!Decide
    <3>2. \/ result'[p].status = "Missing" /\ task = Task!NoTask
          \/ result'[p].status = "Registered"
          \/ result'[p].status = "Foreign"
      BY <3>1, <2>1 DEF Task!Report
    <3> QED BY <3>2, <2>3, <1>2
  <2>4. CASE asked = "enable"
    BY <1>2, <2>1, <2>2, <2>4 DEF Task!Decide, Task!Proceeds, Task!Report, Task!Persistent, Task!Matches, Task!Error
  <2>5. CASE asked = "disable"
    <3>1. \/ Task!Ends(p, Task!Report("Foreign", FALSE)) /\ ~Task!Managed(task) /\ task # Task!NoTask
          \/ Task!Ends(p, Task!Report("Missing", FALSE)) /\ task = Task!NoTask
          \/ Task!Ends(p, Task!Error)
      BY <1>2, <2>2, <2>5 DEF Task!Decide, Task!Proceeds
    <3>2. ~Task!Managed(task) /\ task # Task!NoTask => task = "foreign"
      BY DEF Task!Managed, ShapeInv, Task!Tasks
    <3>3. \/ result'[p].status = "Foreign" /\ task = "foreign"
          \/ task = Task!NoTask
          \/ result'[p].status = "error"
      BY <3>1, <3>2, <2>1 DEF Task!Report, Task!Error
    <3> QED BY <3>3, <2>5, <1>2 DEF Task!ExitCode
  <2> QED BY <1>2, <2>3, <2>4, <2>5
<1> QED BY <1>1, <1>2

LEMMA QuietStep == ShapeInv /\ OrderInv /\ QuietInv /\ [Task!Next]_(Task!vars) => QuietInv'
<1> SUFFICES ASSUME ShapeInv, OrderInv, QuietInv, [Task!Next]_(Task!vars) PROVE QuietInv'
  OBVIOUS
<1>1. CASE UNCHANGED Task!vars
  BY <1>1 DEF QuietInv, QuietOf, Undisturbed, Task!vars
<1>2. ASSUME NEW t \in Task!Tasks \cup {Task!NoTask}, Task!Outside(t) PROVE QuietInv'
  BY <1>2 DEF Task!Outside, QuietInv
<1>3. ASSUME NEW c \in Callers, TaskStep(c) PROVE QuietInv'
  <2>1. ASSUME NEW d \in Callers, d # c, quiet'[d], honest'[d] PROVE QuietOf(d)'
    <3>1. QuietOf(d)
      BY <1>3, <2>1, OthersUntouched DEF QuietInv
    <3> QED BY <1>3, <2>1, <3>1, OthersUntouched DEF QuietOf, Undisturbed
  <2>2. ASSUME quiet'[c], honest'[c] PROVE QuietOf(c)'
    <3>c. /\ Task!Caller(c) \in Task!Processes /\ Task!Helper(c) \in Task!Processes /\ Task!Caller(c) # Task!Helper(c)
          /\ Task!Caller(c) = <<c, "caller">> /\ Task!Helper(c) = <<c, "helper">>
          /\ \A role \in Roles : <<c, role>> = Task!Caller(c) \/ <<c, role>> = Task!Helper(c)
      BY TwoProcesses DEF Task!Caller, Task!Helper, Roles
    <3>o. OrderOf(c)
      BY DEF OrderInv
    <3>nofault. ~Task!Fault(c)
      BY <2>2 DEF Task!Fault, ShapeInv
    <3>1. CASE \E asked \in {"status", "enable", "disable"}, admin \in BOOLEAN : Task!Start(c, asked, admin)
      BY <3>1, <3>c, <3>o DEF Task!Start, ShapeInv, OrderOf, QuietOf
    <3>q. ASSUME quiet[c] PROVE QuietOf(c)
      <4>1. honest[c]
        BY <1>3, <2>2, <3>nofault DEF TaskStep, Task!Start, Task!Approve, Task!Dismiss, Task!Killed, Task!Resume, Task!Reread, Task!Query,
              Task!Register, Task!Delete, Task!ReadBack, Task!NoFault
      <4> QED BY <3>q, <4>1 DEF QuietInv
    <3>2. CASE \E admin \in BOOLEAN : Task!Approve(c, admin)
      <4>1. QuietOf(c) /\ task' = task
        BY <2>2, <3>2, <3>q DEF Task!Approve
      <4> QED BY <3>2, <4>1, <3>c, <3>o DEF Task!Approve, ShapeInv, OrderOf, QuietOf
    <3>3. CASE Task!Dismiss(c)
      <4>1. QuietOf(c) /\ task' = task /\ command' = command
        BY <2>2, <3>3, <3>q DEF Task!Dismiss
      <4>2. pc[Task!Helper(c)] = "off" /\ pc'[Task!Helper(c)] = "off" /\ pc'[Task!Caller(c)] = "done"
        BY <3>3, <3>c, <3>o DEF Task!Dismiss, Task!Ends, ShapeInv, OrderOf
      <4>3. result'[Task!Caller(c)].status = "error"
        BY <3>3, <3>c DEF Task!Dismiss, Task!Ends, ShapeInv, Task!Error, Task!Report
      <4> QED BY <4>1, <4>2, <4>3, <3>c DEF QuietOf, Task!Persistent
    <3>4. CASE Task!Killed(c)
      BY <3>4, <3>nofault DEF Task!Killed
    <3>5. CASE Task!Resume(c)
      <4>1. QuietOf(c) /\ task' = task /\ command' = command
        BY <2>2, <3>5, <3>q DEF Task!Resume
      <4>2. pc[Task!Helper(c)] = "done" /\ pc'[Task!Helper(c)] = "off"
        BY <3>5, <3>c DEF Task!Resume, ShapeInv
      <4>3. CASE Task!ExitCode(command[c], result[Task!Helper(c)]) # 0
        <5>1. pc'[Task!Caller(c)] = "done" /\ result'[Task!Caller(c)].status = "error"
          BY <3>5, <4>3, <3>c DEF Task!Resume, ShapeInv, Task!Error, Task!Report
        <5> QED BY <4>1, <4>2, <5>1, <3>c DEF QuietOf, Task!Persistent
      <4>4. CASE Task!ExitCode(command[c], result[Task!Helper(c)]) = 0 /\ command[c] = "enable"
        <5>1. pc'[Task!Caller(c)] = "reread"
          BY <3>5, <4>4, <3>c DEF Task!Resume, ShapeInv
        <5> QED BY <4>1, <4>2, <4>4, <5>1, <3>c DEF QuietOf, Undisturbed
      <4>5. CASE Task!ExitCode(command[c], result[Task!Helper(c)]) = 0 /\ command[c] = "disable"
        <5>1. pc'[Task!Caller(c)] = "done"
          BY <3>5, <4>5, <3>c DEF Task!Resume, ShapeInv
        <5> QED BY <4>1, <4>2, <4>5, <5>1, <3>c DEF QuietOf, Undisturbed
      <4>6. command[c] \in {"enable", "disable"}
        BY <3>5, <3>o DEF Task!Resume, OrderOf, ShapeInv
      <4> QED BY <4>3, <4>4, <4>5, <4>6
    <3>6. CASE Task!Reread(c)
      <4>1. QuietOf(c) /\ task' = task /\ command' = command /\ task = "ours"
        BY <2>2, <3>6, <3>q DEF Task!Reread, QuietOf
      <4>2. pc[Task!Helper(c)] = "off" /\ pc'[Task!Helper(c)] = "off" /\ pc'[Task!Caller(c)] = "done"
        BY <3>6, <3>c, <3>o DEF Task!Reread, Task!Ends, ShapeInv, OrderOf
      <4>3. result'[Task!Caller(c)] = Task!Report("Registered", TRUE)
        BY <3>6, <3>c, <3>nofault, <4>1 DEF Task!Reread, Task!Ends, ShapeInv, Task!Managed, Task!NoTask
      <4>4. result'[Task!Caller(c)].status = "Registered"
        BY <4>3 DEF Task!Report
      <4> QED BY <4>1, <4>2, <4>4, <3>c DEF QuietOf
    <3>7. ASSUME NEW role \in Roles, Task!Query(c, role) PROVE QuietOf(c)'
      <4> DEFINE p == <<c, role>>
      <4>1. QuietOf(c) /\ task' = task /\ command' = command /\ command[c] \in {"status", "enable", "disable"}
        BY <2>2, <3>7, <3>q DEF Task!Query, ShapeInv
      <4>2. p \in Task!Processes /\ p[2] = role /\ pc[p] = "query" /\ Task!Decide(p, command[c], task)
        BY <3>7, <3>nofault, TwoProcesses DEF Task!Query
      <4>3. \A q \in Task!Processes : q # p => pc'[q] = pc[q]
        BY <4>1, <4>2, DecidePlace DEF ShapeInv
      <4>4. CASE role = "caller"
        <5>1. p = Task!Caller(c) /\ pc[Task!Helper(c)] = "off" /\ pc'[Task!Helper(c)] = "off"
          BY <4>4, <4>2, <4>3, <3>c, <3>o DEF OrderOf
        <5> QED BY <5>1, <4>1, <4>2, <3>c, TruthfulDecision DEF QuietOf
      <4>5. CASE role = "helper"
        <5>1. p = Task!Helper(c) /\ pc[Task!Caller(c)] = "wait" /\ pc'[Task!Caller(c)] = "wait"
          BY <4>5, <4>2, <4>3, <3>c, <3>o DEF OrderOf
        <5>2. task # "foreign" /\ command[c] \in {"enable", "disable"}
          BY <5>1, <4>1, <4>2, <3>o DEF QuietOf, OrderOf
        <5>3. CASE pc'[p] # "done"
          BY <5>1, <5>2, <5>3, <4>1, <4>2, <4>5, <3>c, TruthfulDecision DEF QuietOf
        <5>4. CASE pc'[p] = "done"
          <6>1. command[c] = "enable" /\ Task!ExitCode(command[c], result'[p]) = 0 => Task!Persistent(result'[p])
            BY DEF Task!ExitCode
          <6>2. Task!ExitCode(command[c], result'[p]) = 0 => Undisturbed(c)
            BY <5>2, <5>4, <6>1, <4>1, <4>2, TruthfulDecision DEF Undisturbed
          <6> QED BY <5>1, <5>2, <5>4, <6>2, <4>1, <3>c DEF QuietOf, Undisturbed
        <5> QED BY <5>3, <5>4
      <4> QED BY <4>4, <4>5 DEF Roles
    <3>8. ASSUME NEW role \in Roles, Task!Register(c, role) PROVE QuietOf(c)'
      <4> DEFINE p == <<c, role>>
      <4>1. Task!Becomes(c, "ours") /\ Task!Goes(p, "readback") /\ command' = command /\ command[c] = "enable"
            /\ pc[p] = "write"
        BY <3>8, <3>nofault DEF Task!Register
      <4>2. task' = "ours" /\ result' = result /\ pc' = [pc EXCEPT ![p] = "readback"] /\ p \in Task!Processes
        BY <4>1, TwoProcesses DEF Task!Becomes, Task!Goes
      <4>3. \/ p = Task!Helper(c) /\ pc[Task!Caller(c)] = "wait"
            \/ p = Task!Caller(c) /\ pc[Task!Helper(c)] = "off"
        BY <4>1, <3>c, <3>o DEF OrderOf
      <4> QED BY <4>1, <4>2, <4>3, <3>c DEF QuietOf, Undisturbed, ShapeInv
    <3>9. ASSUME NEW role \in Roles, Task!Delete(c, role) PROVE QuietOf(c)'
      <4> DEFINE p == <<c, role>>
      <4>1. Task!Becomes(c, Task!NoTask) /\ Task!Ends(p, Task!Report("Removed", FALSE)) /\ command' = command
            /\ command[c] = "disable" /\ pc[p] = "write"
        BY <3>9, <3>nofault DEF Task!Delete
      <4>2. task' = Task!NoTask /\ pc' = [pc EXCEPT ![p] = "done"] /\ p \in Task!Processes
        BY <4>1, TwoProcesses DEF Task!Becomes, Task!Ends
      <4>3. \/ p = Task!Helper(c) /\ pc[Task!Caller(c)] = "wait" /\ pc'[Task!Caller(c)] = "wait" /\ pc'[Task!Helper(c)] = "done"
            \/ p = Task!Caller(c) /\ pc'[Task!Helper(c)] = "off" /\ pc'[Task!Caller(c)] = "done"
        BY <4>1, <4>2, <3>c, <3>o DEF OrderOf, ShapeInv
      <4> QED BY <4>1, <4>2, <4>3, <3>c DEF QuietOf, Undisturbed, Task!Tasks
    <3>10. ASSUME NEW role \in Roles, Task!ReadBack(c, role) PROVE QuietOf(c)'
      <4> DEFINE p == <<c, role>>
      <4>1. QuietOf(c) /\ task' = task /\ command' = command /\ pc[p] = "readback" /\ p \in Task!Processes
        BY <2>2, <3>10, <3>q, TwoProcesses DEF Task!ReadBack
      <4>2. task = "ours" /\ command[c] = "enable"
        BY <4>1, <3>o DEF QuietOf, OrderOf
      <4>3. \E s \in {"Registered", "Updated"} : Task!Ends(p, Task!Report(s, TRUE))
        BY <3>10, <3>nofault, <4>2 DEF Task!ReadBack, Task!NoTask
      <4>4. pc' = [pc EXCEPT ![p] = "done"] /\ result'[p].status \in {"Registered", "Updated"}
        BY <4>1, <4>3 DEF Task!Ends, ShapeInv, Task!Report
      <4>5. \/ p = Task!Helper(c) /\ pc[Task!Caller(c)] = "wait" /\ pc'[Task!Caller(c)] = "wait" /\ pc'[Task!Helper(c)] = "done"
            \/ p = Task!Caller(c) /\ pc'[Task!Helper(c)] = "off" /\ pc'[Task!Caller(c)] = "done"
        BY <4>1, <4>4, <3>c, <3>o DEF OrderOf, ShapeInv
      <4> QED BY <4>1, <4>2, <4>4, <4>5, <3>c DEF QuietOf, Undisturbed
    <3> QED BY <1>3, <3>1, <3>2, <3>3, <3>4, <3>5, <3>6, <3>7, <3>8, <3>9, <3>10 DEF TaskStep
  <2> QED BY <2>1, <2>2 DEF QuietInv
<1> QED BY <1>1, <1>2, <1>3, NextIsStep

\* A command that nobody interfered with and whose calls told the truth leaves
\* what it reports, whoever of the caller and its elevated helper did the write.
THEOREM SpecQuietReportIsTrue == Task!Spec => []QuietReportIsTrue
<1>1. Task!Init => OrderInv /\ QuietInv
  <2> SUFFICES ASSUME Task!Init PROVE OrderInv /\ QuietInv
    OBVIOUS
  <2>1. \A p \in Task!Processes : pc[p] = "off"
    BY DEF Task!Init
  <2>2. \A c \in Callers : Task!Caller(c) \in Task!Processes /\ Task!Helper(c) \in Task!Processes
                           /\ \A role \in Roles : <<c, role>> \in Task!Processes
    BY TwoProcesses
  <2> QED BY <2>1, <2>2 DEF OrderInv, OrderOf, QuietInv, QuietOf
<1>2. QuietInv => QuietReportIsTrue
  BY DEF QuietReportIsTrue, QuietInv, QuietOf, Task!QuietReportIsTrue, Task!Over, Task!Final
<1> QED BY <1>1, <1>2, ShapeInit, ShapeStep, OrderStep, QuietStep, PTL DEF Task!Spec

-----------------------------------------------------------------------------
(* Who writes the task *)

WritersElevated == \A p \in Task!Processes : pc[p] = "write" => elevated[p]

TaskBounds == changes \in 0..TaskChanges /\ taskFaults \in 0..TaskFaults

\* A process gets to write only where Proceeds sends it there.
LEMMA OnlyElevatedProceed ==
  ASSUME ShapeInv, NEW p \in Task!Processes, NEW asked \in {"status", "enable", "disable"},
         NEW found, Task!Decide(p, asked, found)
  PROVE  /\ \A q \in Task!Processes \ {p} : pc'[q] = pc[q]
         /\ pc'[p] = "write" => elevated[p]
<1>1. (\E verdict : Task!Ends(p, verdict)) \/ Task!Proceeds(p)
  BY DEF Task!Decide
<1>2. ASSUME NEW verdict, Task!Ends(p, verdict)
      PROVE  /\ \A q \in Task!Processes \ {p} : pc'[q] = pc[q]
             /\ pc'[p] = "done"
  BY <1>2 DEF Task!Ends, ShapeInv
<1>3. CASE Task!Proceeds(p)
  BY <1>2, <1>3 DEF Task!Proceeds, Task!Goes, ShapeInv
<1> QED
  BY <1>1, <1>2, <1>3

LEMMA WritersStep == ShapeInv /\ WritersElevated /\ [Task!Next]_(Task!vars) => WritersElevated'
<1> SUFFICES ASSUME ShapeInv, WritersElevated, [Task!Next]_(Task!vars) PROVE WritersElevated'
  OBVIOUS
<1> USE DEF WritersElevated
<1>1. ASSUME NEW p \in Task!Processes, NEW verdict, Task!Ends(p, verdict), UNCHANGED elevated
      PROVE  WritersElevated'
  BY <1>1 DEF Task!Ends, ShapeInv
<1>2. ASSUME NEW c \in Callers, TaskStep(c)
      PROVE  WritersElevated'
  <2>p. /\ Task!Caller(c) \in Task!Processes /\ Task!Helper(c) \in Task!Processes
        /\ \A role \in Roles : <<c, role>> \in Task!Processes
    BY TwoProcesses
  <2>1. ASSUME NEW asked, NEW admin, Task!Start(c, asked, admin) PROVE WritersElevated'
    BY <2>1, <2>p DEF Task!Start, ShapeInv
  <2>2. ASSUME NEW admin, Task!Approve(c, admin) PROVE WritersElevated'
    BY <2>2, <2>p DEF Task!Approve, ShapeInv
  <2>3. CASE Task!Dismiss(c) \/ Task!Killed(c) \/ Task!Reread(c)
    BY <2>3, <2>p, <1>1 DEF Task!Dismiss, Task!Killed, Task!Reread
  <2>4. CASE Task!Resume(c)
    BY <2>4, <2>p DEF Task!Resume, ShapeInv
  <2>5. ASSUME NEW role \in Roles, Task!Query(c, role) PROVE WritersElevated'
    <3>1. command[c] \in {"status", "enable", "disable"} /\ UNCHANGED elevated
      BY <2>5 DEF ShapeInv, Task!Query
    <3>2. CASE \E found : Task!Decide(<<c, role>>, command[c], found)
      BY <2>p, <3>1, <3>2, OnlyElevatedProceed
    <3>3. CASE \E verdict : Task!Ends(<<c, role>>, verdict)
      BY <2>p, <3>1, <3>3, <1>1
    <3> QED
      BY <2>5, <3>2, <3>3 DEF Task!Query
  <2>6. ASSUME NEW role \in Roles, Task!Register(c, role) PROVE WritersElevated'
    <3>1. CASE Task!Goes(<<c, role>>, "readback")
      BY <2>6, <2>p, <3>1 DEF Task!Goes, Task!Register, ShapeInv
    <3>2. CASE Task!Ends(<<c, role>>, Task!Error)
      BY <2>6, <2>p, <3>2, <1>1 DEF Task!Register
    <3> QED
      BY <2>6, <3>1, <3>2 DEF Task!Register
  <2>7. ASSUME NEW role \in Roles, Task!Delete(c, role) \/ Task!ReadBack(c, role) PROVE WritersElevated'
    BY <2>7, <2>p, <1>1 DEF Task!Delete, Task!ReadBack
  <2> QED
    BY <1>2, <2>1, <2>2, <2>3, <2>4, <2>5, <2>6, <2>7 DEF TaskStep
<1>3. ASSUME NEW t, Task!Outside(t) PROVE WritersElevated'
  BY <1>3 DEF Task!Outside
<1>4. CASE UNCHANGED Task!vars
  BY <1>4 DEF Task!vars
<1> QED
  BY <1>2, <1>3, <1>4, NextIsStep

LEMMA BoundsStep == TaskBounds /\ [Task!Next]_(Task!vars) => TaskBounds'
<1> SUFFICES ASSUME TaskBounds, [Task!Next]_(Task!vars) PROVE TaskBounds'
  OBVIOUS
<1> USE TaskAssumption DEF TaskBounds
<1>1. ASSUME NEW c, Task!Fault(c) PROVE taskFaults' \in 0..TaskFaults
  BY <1>1 DEF Task!Fault
<1>2. ASSUME NEW c \in Callers, TaskStep(c) PROVE UNCHANGED changes /\ taskFaults' \in 0..TaskFaults
  BY <1>2, <1>1 DEF TaskStep, Task!Start, Task!Approve, Task!Dismiss, Task!Killed, Task!Resume,
     Task!Reread, Task!Query, Task!Register, Task!Delete, Task!ReadBack, Task!NoFault
<1>3. ASSUME NEW t, Task!Outside(t) PROVE TaskBounds'
  BY <1>3 DEF Task!Outside
<1>4. CASE UNCHANGED Task!vars
  BY <1>4 DEF Task!vars
<1> QED
  BY <1>2, <1>3, <1>4, NextIsStep

\* Nothing writes the task but an elevated process, whoever asked for it and whatever the
\* prompt was answered; what each process holds and reports has its type.
THEOREM SpecTaskTypeOK == Task!Spec => []Task!TypeOK
<1>1. Task!Init => WritersElevated /\ TaskBounds
  <2> SUFFICES ASSUME Task!Init PROVE WritersElevated /\ TaskBounds
    OBVIOUS
  <2>1. WritersElevated
    BY DEF Task!Init, WritersElevated
  <2>2. TaskBounds
    BY TaskAssumption DEF Task!Init, TaskBounds
  <2> QED
    BY <2>1, <2>2
<1>2. ShapeInv /\ WritersElevated /\ TaskBounds => Task!TypeOK
  <2> SUFFICES ASSUME ShapeInv, WritersElevated, TaskBounds PROVE Task!TypeOK
    OBVIOUS
  <2>1. {quiet, honest, declined} \subseteq [Callers -> BOOLEAN]
    BY Zenon DEF ShapeInv
  <2> QED
    BY <2>1, Zenon DEF ShapeInv, WritersElevated, TaskBounds, Task!TypeOK, Reports, Statuses
<1> QED
  BY <1>1, <1>2, ShapeInit, ShapeStep, WritersStep, BoundsStep, PTL DEF Task!Spec

-----------------------------------------------------------------------------
(***************************************************************************)
(* The shell profile: texts and what normalizing keeps of them.            *)
(***************************************************************************)

Text == Seq(Profile!Token)

LEMMA GreatestNumber ==
  ASSUME NEW n \in Nat, NEW S \in SUBSET (1..n), S # {}
  PROVE  \E m \in S : \A i \in S : i <= m
<1> DEFINE T == {n - i : i \in S}
<1>1. T \subseteq Nat /\ T # {}
  <2>1. \A i \in S : n - i \in T
    OBVIOUS
  <2>2. \A i \in 1..n : n - i \in Nat
    OBVIOUS
  <2> QED
    BY <2>1, <2>2
<1>2. PICK x \in T : \A y \in T : x <= y
  BY <1>1, LeastNumber
<1>3. PICK m \in S : x = n - m
  OBVIOUS
<1>4. ASSUME NEW i \in S PROVE i <= m
  <2>1. n - m <= n - i
    BY <1>2, <1>3
  <2> QED
    BY <2>1
<1> QED
  BY <1>4

UpTo(S, i) == {j \in S : j <= i}

LEMMA UpToIsFinite ==
  ASSUME NEW n \in Nat, NEW S \in SUBSET (1..n)
  PROVE  /\ IsFiniteSet(S) /\ Cardinality(S) \in Nat
         /\ \A i : IsFiniteSet(UpTo(S, i)) /\ Cardinality(UpTo(S, i)) \in 0..Cardinality(S)
<1>1. IsFiniteSet(1..n)
  BY FS_Interval
<1>2. IsFiniteSet(S)
  BY <1>1, FS_Subset
<1>3. Cardinality(S) \in Nat
  BY <1>2, FS_CardinalityType
<1>4. ASSUME NEW i
      PROVE  IsFiniteSet(UpTo(S, i)) /\ Cardinality(UpTo(S, i)) \in 0..Cardinality(S)
  <2>1. UpTo(S, i) \in SUBSET S
    BY DEF UpTo
  <2>2. IsFiniteSet(UpTo(S, i)) /\ Cardinality(UpTo(S, i)) <= Cardinality(S)
    BY <1>2, <2>1, FS_Subset
  <2>3. Cardinality(UpTo(S, i)) \in Nat
    BY <2>2, FS_CardinalityType
  <2> QED
    BY <1>3, <2>2, <2>3
<1> QED
  BY <1>2, <1>3, <1>4

\* Every finite set of numbers has its n-th element.
LEMMA SomeNth ==
  ASSUME NEW n \in Nat, NEW S \in SUBSET (1..n), NEW k \in 1..Cardinality(S)
  PROVE  \E i \in S : Cardinality(UpTo(S, i)) = k
<1>1. /\ IsFiniteSet(S) /\ Cardinality(S) \in Nat
      /\ \A i : IsFiniteSet(UpTo(S, i)) /\ Cardinality(UpTo(S, i)) \in 0..Cardinality(S)
  BY UpToIsFinite
<1>2. S # {}
  BY <1>1, FS_EmptySet
<1>3. PICK m \in S : \A i \in S : i <= m
  BY <1>2, GreatestNumber
<1>4. UpTo(S, m) = S
  BY <1>3 DEF UpTo
<1> DEFINE T == {i \in S : k <= Cardinality(UpTo(S, i))}
<1>5. T \subseteq Nat /\ T # {}
  <2>1. m \in T
    BY <1>1, <1>4
  <2>2. T \subseteq S /\ S \subseteq Nat
    OBVIOUS
  <2> HIDE DEF T
  <2> QED
    BY <2>1, <2>2
<1>6. PICK i \in T : \A j \in T : i <= j
  BY <1>5, LeastNumber
<1> DEFINE R == UpTo(S, i) \ {i}
<1>7. i \in UpTo(S, i)
  BY DEF UpTo
<1>8. IsFiniteSet(R) /\ Cardinality(R) = Cardinality(UpTo(S, i)) - 1
  BY <1>1, <1>7, FS_RemoveElement
<1>9. CASE R = {}
  <2>1. Cardinality(R) = 0
    BY <1>9, FS_EmptySet
  <2> QED
    BY <1>1, <1>8, <2>1
<1>10. CASE R # {}
  <2>1. R \in SUBSET (1..n)
    BY DEF UpTo
  <2>2. PICK p \in R : \A j \in R : j <= p
    BY <1>10, <2>1, GreatestNumber
  <2>3. p \in S /\ p <= i /\ p # i
    BY <2>2 DEF UpTo
  <2>4. UpTo(S, p) = R
    <3>1. \A j \in S : j <= p <=> j <= i /\ j # i
      <4>1. \A j \in S : j <= i /\ j # i => j <= p
        BY <2>2 DEF UpTo
      <4>2. \A j \in S : j <= p => j <= i /\ j # i
        BY <2>3
      <4> QED
        BY <4>1, <4>2
    <3> QED
      BY <3>1 DEF UpTo
  <2>5. p \notin T
    BY <1>6, <2>3
  <2>6. ~(k <= Cardinality(R))
    BY <2>3, <2>4, <2>5
  <2> QED
    BY <1>1, <1>8, <2>6
<1> QED
  BY <1>9, <1>10

LEMMA ProfileCardinality == \A S : Profile!Cardinality(S) = Cardinality(S)
  BY DEF Profile!Cardinality, Cardinality

LEMMA NthIsNth ==
  ASSUME NEW n \in Nat, NEW S \in SUBSET (1..n), NEW k \in 1..Cardinality(S)
  PROVE  Profile!Nth(S, k) \in S /\ Cardinality(UpTo(S, Profile!Nth(S, k))) = k
<1>1. \E i \in S : Cardinality(UpTo(S, i)) = k
  BY SomeNth
<1>2. Profile!Nth(S, k) = CHOOSE i \in S : Profile!Cardinality(UpTo(S, i)) = k
  BY DEF Profile!Nth, UpTo
<1>3. \E i \in S : Profile!Cardinality(UpTo(S, i)) = k
  BY <1>1, ProfileCardinality
<1>4. Profile!Nth(S, k) \in S /\ Profile!Cardinality(UpTo(S, Profile!Nth(S, k))) = k
  BY <1>2, <1>3
<1> QED
  BY <1>4, ProfileCardinality

\* Where the tokens of a normalized text come from.
From(text, f) ==
  /\ f \in [1..Len(Profile!Normalized(text)) -> Profile!Counted(text)]
  /\ \A k, l \in DOMAIN f : k < l => f[k] < f[l]
  /\ \A i \in Profile!Counted(text) : \E k \in DOMAIN f : f[k] = i
  /\ \A k \in DOMAIN f : Profile!Normalized(text)[k] = Profile!Plain(text[f[k]])

LEMMA NormalizedKeepsOrder ==
  ASSUME NEW text \in Text
  PROVE  /\ Profile!Normalized(text) \in Text
         /\ \E f : From(text, f)
<1> DEFINE S == Profile!Counted(text)
           n == Cardinality(S)
           nth(k) == Profile!Nth(S, k)
           f == [k \in 1..n |-> nth(k)]
           N == Profile!Normalized(text)
<1>1. Len(text) \in Nat /\ S \in SUBSET (1..Len(text)) /\ \A i \in S : text[i] \in Profile!Token
  BY DEF Text, Profile!Counted
<1>2. N = [k \in 1..n |-> Profile!Plain(text[nth(k)])]
  BY ProfileCardinality DEF Profile!Normalized
<1> HIDE DEF S, N
<1>3. n \in Nat /\ \A i : IsFiniteSet(UpTo(S, i)) /\ Cardinality(UpTo(S, i)) \in 0..n
  BY <1>1, UpToIsFinite
<1> HIDE DEF n
<1>4. \A k \in 1..n : nth(k) \in S /\ Cardinality(UpTo(S, nth(k))) = k
  BY <1>1, NthIsNth DEF n
<1> HIDE DEF nth
<1>0. \A i \in S : i \in Nat
  BY <1>1
<1>5. \A k \in 1..n : Profile!Plain(text[nth(k)]) \in Profile!Token
  BY <1>1, <1>4 DEF Profile!Plain, Profile!Token
<1>6. N \in Text /\ Len(N) = n
  BY <1>2, <1>3, <1>5 DEF Text
<1>7. \A i, j \in S : Cardinality(UpTo(S, i)) < Cardinality(UpTo(S, j)) => i < j
  <2> SUFFICES ASSUME NEW i \in S, NEW j \in S, j <= i
               PROVE  Cardinality(UpTo(S, j)) <= Cardinality(UpTo(S, i))
    BY <1>1, <1>3
  <2>1. UpTo(S, j) \in SUBSET UpTo(S, i)
    BY <1>0 DEF UpTo
  <2> QED
    BY <1>3, <2>1, FS_Subset
<1>8. \A i, j \in S : Cardinality(UpTo(S, i)) = Cardinality(UpTo(S, j)) => i = j
  <2>1. ASSUME NEW i \in S, NEW j \in S, i < j, Cardinality(UpTo(S, i)) = Cardinality(UpTo(S, j))
        PROVE  FALSE
    <3>1. UpTo(S, i) \in SUBSET UpTo(S, j)
      BY <1>0, <2>1 DEF UpTo
    <3>2. UpTo(S, i) = UpTo(S, j)
      BY <1>3, <2>1, <3>1, FS_Subset
    <3>3. j \in UpTo(S, j) /\ j \notin UpTo(S, i)
      BY <1>1, <2>1 DEF UpTo
    <3> QED
      BY <3>2, <3>3
  <2>2. \A i, j \in S : i < j \/ j < i \/ i = j
    BY <1>1
  <2> QED
    BY <2>1, <2>2
<1>9. \A k, l \in 1..n : k < l => nth(k) < nth(l)
  BY <1>4, <1>7
<1>10. ASSUME NEW i \in S
       PROVE  \E k \in 1..n : nth(k) = i
  <2> DEFINE k == Cardinality(UpTo(S, i))
  <2>1. UpTo(S, i) # {}
    BY <1>1 DEF UpTo
  <2>2. k \in 1..n
    BY <1>3, <2>1, FS_EmptySet
  <2>3. nth(k) = i
    BY <1>4, <1>8, <2>2
  <2> QED
    BY <2>2, <2>3
<1>11. f \in [1..Len(N) -> S] /\ DOMAIN f = 1..n /\ \A k \in 1..n : f[k] = nth(k)
  BY <1>4, <1>6
<1>12. \A k \in 1..n : N[k] = Profile!Plain(text[nth(k)])
  BY <1>2
<1> HIDE DEF f
<1>13. From(text, f)
  BY <1>9, <1>10, <1>11, <1>12 DEF From, S, N
<1> QED
  BY <1>6, <1>13 DEF N

\* Winter's own block is one text, whichever newlines it was written with.
LEMMA BlocksAreTheSame ==
  ASSUME NEW n, NEW m
  PROVE  Profile!Normalized(Profile!ManagedBlock(n)) = Profile!Normalized(Profile!ManagedBlock(m))
<1> DEFINE text(b) == <<"begin", b, "end">>
           size == Cardinality(1..3)
           nth(k) == Profile!Nth(1..3, k)
           plain == [k \in 1..size |-> Profile!Plain(text("bodyLf")[nth(k)])]
<1>1. ASSUME NEW b \in {"bodyLf", "bodyCrLf"}
      PROVE  Profile!Normalized(text(b)) = plain
  <2>1. Profile!Counted(text(b)) = 1..3
    BY <1>1 DEF Profile!Counted
  <2>2. \A k \in 1..size : nth(k) \in 1..3
    BY NthIsNth
  <2>3. \A i \in 1..3 : Profile!Plain(text(b)[i]) = Profile!Plain(text("bodyLf")[i])
    BY <1>1 DEF Profile!Plain
  <2>4. Profile!Normalized(text(b)) = [k \in 1..size |-> Profile!Plain(text(b)[nth(k)])]
    BY <2>1, ProfileCardinality DEF Profile!Normalized
  <2> HIDE DEF nth, text, size
  <2> QED
    BY <2>2, <2>3, <2>4 DEF plain
<1>2. \A l : \E b \in {"bodyLf", "bodyCrLf"} : Profile!ManagedBlock(l) = text(b)
  BY DEF Profile!ManagedBlock
<1> HIDE DEF text, plain
<1> QED
  BY <1>1, <1>2

-----------------------------------------------------------------------------
(***************************************************************************)
(* What one write or edit does to a text: some places go, some are new,    *)
(* and those behind them move.                                             *)
(***************************************************************************)

\* s is text with what stands between the places a and c replaced by m tokens.
Spliced(s, text, a, m, c) ==
  /\ a \in 0..Len(text) /\ c \in (a + 1)..(Len(text) + 1) /\ m \in Nat
  /\ s \in Text /\ Len(s) = (a + m) + (Len(text) + 1 - c)
  /\ \A i \in 1..a : s[i] = text[i]
  /\ \A i \in c..Len(text) : s[i + (a + m + 1 - c)] = text[i]

\* Where a place that stays has gone.
Shift(a, m, c, i) == IF i <= a THEN i ELSE i + (a + m + 1 - c)

\* The places that stay, and those that are new.
Stays(text, a, c) == (1..a) \cup (c..Len(text))
Fresh(a, m) == (a + 1)..(a + m)

LEMMA ConcatIsSplice ==
  ASSUME NEW text \in Text, NEW a \in 0..Len(text), NEW c \in (a + 1)..(Len(text) + 1), NEW mid \in Text
  PROVE  LET s == SubSeq(text, 1, a) \o mid \o SubSeq(text, c, Len(text)) IN
         /\ Spliced(s, text, a, Len(mid), c)
         /\ \A j \in 1..Len(mid) : s[a + j] = mid[j]
<1> DEFINE x == SubSeq(text, 1, a)
           y == SubSeq(text, c, Len(text))
           s == (x \o mid) \o y
           n == Len(text)
           m == Len(mid)
<1>1. n \in Nat /\ m \in Nat /\ a \in Nat /\ a <= n /\ c \in Nat /\ a + 1 <= c /\ c <= n + 1
  BY DEF Text
<1>2. \A i \in 1..n : text[i] \in Profile!Token
  BY DEF Text
<1>3. x \in Text /\ Len(x) = a /\ \A i \in 1..a : x[i] = text[i]
  <2>1. \A i \in 1..a : text[i] \in Profile!Token
    BY <1>1, <1>2
  <2>2. /\ x \in Seq(Profile!Token)
        /\ Len(x) = IF 1 <= a THEN a - 1 + 1 ELSE 0
        /\ \A i \in 1..(a - 1 + 1) : x[i] = text[1 + i - 1]
    BY <1>1, <2>1, SubSeqProperties
  <2> HIDE DEF x
  <2> QED
    BY <1>1, <2>2 DEF Text
<1>4. y \in Text /\ Len(y) = n + 1 - c /\ \A i \in 1..(n + 1 - c) : y[i] = text[c + i - 1]
  <2>1. \A i \in c..n : text[i] \in Profile!Token
    BY <1>1, <1>2
  <2>2. /\ y \in Seq(Profile!Token)
        /\ Len(y) = IF c <= n THEN n - c + 1 ELSE 0
        /\ \A i \in 1..(n - c + 1) : y[i] = text[c + i - 1]
    BY <1>1, <2>1, SubSeqProperties
  <2> HIDE DEF y
  <2> QED
    BY <1>1, <2>2 DEF Text
<1> HIDE DEF x, y, n, m
<1>5. /\ x \o mid \in Text /\ Len(x \o mid) = a + m
      /\ \A i \in 1..(a + m) : (x \o mid)[i] = IF i <= a THEN x[i] ELSE mid[i - a]
  BY <1>3, ConcatProperties DEF Text, m
<1> DEFINE z == x \o mid
<1> HIDE DEF z
<1>6. /\ s \in Text /\ Len(s) = (a + m) + (n + 1 - c)
      /\ \A i \in 1..((a + m) + (n + 1 - c)) : s[i] = IF i <= a + m THEN z[i] ELSE y[i - (a + m)]
  <2>1. s = z \o y
    BY DEF z
  <2>2. z \in Seq(Profile!Token) /\ y \in Seq(Profile!Token) /\ Len(z) = a + m /\ Len(y) = n + 1 - c
    BY <1>4, <1>5 DEF Text, z
  <2>3. /\ z \o y \in Seq(Profile!Token) /\ Len(z \o y) = Len(z) + Len(y)
        /\ \A i \in 1..(Len(z) + Len(y)) : (z \o y)[i] = IF i <= Len(z) THEN z[i] ELSE y[i - Len(z)]
    BY <2>2, ConcatProperties
  <2> HIDE DEF s
  <2> QED
    BY <2>1, <2>2, <2>3 DEF Text
<1> HIDE DEF s
<1>7. \A i \in 1..a : s[i] = text[i]
  BY <1>1, <1>3, <1>5, <1>6 DEF z
<1>8. \A j \in 1..m : s[a + j] = mid[j]
  <2> SUFFICES ASSUME NEW j \in 1..m PROVE s[a + j] = mid[j]
    OBVIOUS
  <2>1. /\ a + j \in 1..((a + m) + (n + 1 - c)) /\ a + j <= a + m /\ ~(a + j <= a) /\ (a + j) - a = j
        /\ a + j \in 1..(a + m)
    BY <1>1
  <2>2. s[a + j] = z[a + j]
    BY <1>6, <2>1
  <2>3. z[a + j] = mid[(a + j) - a]
    BY <1>5, <2>1 DEF z
  <2> QED
    BY <2>1, <2>2, <2>3
<1>9. \A i \in c..n : s[i + (a + m + 1 - c)] = text[i]
  <2> SUFFICES ASSUME NEW i \in c..n PROVE s[i + (a + m + 1 - c)] = text[i]
    OBVIOUS
  <2> DEFINE k == i + (a + m + 1 - c)
             l == i + 1 - c
  <2>1. /\ k \in 1..((a + m) + (n + 1 - c)) /\ ~(k <= a + m) /\ k - (a + m) = l
        /\ l \in 1..(n + 1 - c) /\ c + l - 1 = i
    BY <1>1
  <2> HIDE DEF k, l
  <2>2. s[k] = y[l]
    BY <1>6, <2>1
  <2>3. y[l] = text[i]
    BY <1>4, <2>1
  <2> QED
    BY <2>2, <2>3 DEF k
<1>10. Spliced(s, text, a, m, c)
  BY <1>1, <1>6, <1>7, <1>9 DEF Spliced, n
<1> QED
  BY <1>8, <1>10 DEF s, x, y, m

\* The places of a splice are the kept ones, in their order, and the new ones.
LEMMA SplicePlaces ==
  ASSUME NEW s, NEW text \in Text, NEW a, NEW m, NEW c, Spliced(s, text, a, m, c)
  PROVE  /\ \A i \in Stays(text, a, c) : /\ i \in 1..Len(text) /\ Shift(a, m, c, i) \in 1..Len(s)
                                        /\ Shift(a, m, c, i) \notin Fresh(a, m)
                                        /\ s[Shift(a, m, c, i)] = text[i]
         /\ \A i, j \in Stays(text, a, c) : i < j <=> Shift(a, m, c, i) < Shift(a, m, c, j)
         /\ \A k \in 1..Len(s) \ Fresh(a, m) : \E i \in Stays(text, a, c) : k = Shift(a, m, c, i)
         /\ \A i \in 1..Len(text) : i \in Stays(text, a, c) \/ i \in (a + 1)..(c - 1)
         /\ \A i \in Stays(text, a, c) : i \notin (a + 1)..(c - 1)
         /\ DOMAIN s = 1..Len(s) /\ DOMAIN text = 1..Len(text)
<1> DEFINE n == Len(text)
<1>1. n \in Nat /\ m \in Nat /\ a \in Nat /\ a <= n /\ c \in Nat /\ a + 1 <= c /\ c <= n + 1
  BY DEF Text, Spliced
<1>2. Len(s) = (a + m) + (n + 1 - c)
  BY DEF Spliced
<1>3. \A i \in 1..a : s[i] = text[i]
  BY DEF Spliced
<1>4. \A i \in c..n : s[i + (a + m + 1 - c)] = text[i]
  BY DEF Spliced
<1>5. DOMAIN s = 1..Len(s) /\ DOMAIN text = 1..Len(text)
  BY DEF Text, Spliced
<1> HIDE DEF n
<1>6. ASSUME NEW i \in Stays(text, a, c)
      PROVE  /\ i \in 1..n /\ Shift(a, m, c, i) \in 1..Len(s)
             /\ Shift(a, m, c, i) \notin Fresh(a, m)
             /\ s[Shift(a, m, c, i)] = text[i]
             /\ i \notin (a + 1)..(c - 1)
  <2>1. i \in 1..a \/ i \in c..n
    BY DEF Stays, n
  <2>2. CASE i \in 1..a
    <3>1. Shift(a, m, c, i) = i
      BY <2>2 DEF Shift
    <3> QED
      BY <1>1, <1>2, <1>3, <2>2, <3>1 DEF Fresh
  <2>3. CASE i \in c..n
    <3>1. Shift(a, m, c, i) = i + (a + m + 1 - c)
      BY <1>1, <2>3 DEF Shift
    <3>2. s[i + (a + m + 1 - c)] = text[i]
      BY <1>4, <2>3
    <3>3. i + (a + m + 1 - c) \in 1..Len(s) /\ i + (a + m + 1 - c) \notin Fresh(a, m)
      BY <1>1, <1>2, <2>3 DEF Fresh
    <3> QED
      BY <1>1, <2>3, <3>1, <3>2, <3>3
  <2> QED
    BY <2>1, <2>2, <2>3
<1>7. ASSUME NEW i \in Stays(text, a, c), NEW j \in Stays(text, a, c)
      PROVE  i < j <=> Shift(a, m, c, i) < Shift(a, m, c, j)
  <2>1. (i \in 1..a \/ i \in c..n) /\ (j \in 1..a \/ j \in c..n)
    BY DEF Stays, n
  <2> QED
    BY <1>1, <2>1 DEF Shift
<1>8. ASSUME NEW k \in 1..Len(s), k \notin Fresh(a, m)
      PROVE  \E i \in Stays(text, a, c) : k = Shift(a, m, c, i)
  <2>1. CASE k <= a
    BY <1>1, <2>1 DEF Stays, Shift
  <2>2. CASE ~(k <= a)
    <3> DEFINE i == k - (a + m + 1 - c)
    <3>1. i \in c..n /\ k = i + (a + m + 1 - c) /\ ~(i <= a)
      BY <1>1, <1>2, <1>8, <2>2 DEF Fresh
    <3> HIDE DEF i
    <3> QED
      BY <3>1 DEF Stays, Shift, n
  <2> QED
    BY <2>1, <2>2
<1>9. \A i \in 1..n : i \in Stays(text, a, c) \/ i \in (a + 1)..(c - 1)
  BY <1>1 DEF Stays, n
<1> QED
  BY <1>5, <1>6, <1>7, <1>8, <1>9 DEF n

-----------------------------------------------------------------------------
(***************************************************************************)
(* Markers and the blocks between them.                                    *)
(***************************************************************************)

Brands == {"winter", "old"}
Markers(brand) == {Profile!Begin(brand), Profile!Finish(brand)}
NoMarker(text, brand) == \A i \in 1..Len(text) : text[i] \notin Markers(brand)

\* The only place where a token stands.
OnlyAt(text, token, p) ==
  p \in 1..Len(text) /\ text[p] = token /\ \A i \in 1..Len(text) : text[i] = token => i = p

BlockAt(text, brand, b, e) ==
  b < e /\ OnlyAt(text, Profile!Begin(brand), b) /\ OnlyAt(text, Profile!Finish(brand), e)

LEMMA PlacesAt ==
  ASSUME NEW text \in Text, NEW token
  PROVE  /\ Profile!Places(token, text) = {i \in 1..Len(text) : text[i] = token}
         /\ \A p : OnlyAt(text, token, p) <=> Profile!Places(token, text) = {p}
<1>1. DOMAIN text = 1..Len(text)
  BY DEF Text
<1>2. Profile!Places(token, text) = {i \in 1..Len(text) : text[i] = token}
  BY <1>1 DEF Profile!Places
<1>3. ASSUME NEW p, OnlyAt(text, token, p)
      PROVE  Profile!Places(token, text) = {p}
  BY <1>2, <1>3 DEF OnlyAt
<1>4. ASSUME NEW p, Profile!Places(token, text) = {p}
      PROVE  OnlyAt(text, token, p)
  BY <1>2, <1>4 DEF OnlyAt
<1> QED
  BY <1>2, <1>3, <1>4

LEMMA LocatedIsBlock ==
  ASSUME NEW text \in Text, NEW brand
  PROVE  Profile!Located(text, brand) <=> \E b, e : BlockAt(text, brand, b, e)
<1>1. DOMAIN text = 1..Len(text)
  BY DEF Text
<1>2. Profile!Located(text, brand) => \E b, e : BlockAt(text, brand, b, e)
  BY PlacesAt DEF Profile!Located, BlockAt
<1>3. ASSUME NEW b, NEW e, BlockAt(text, brand, b, e) PROVE Profile!Located(text, brand)
  <2>1. b \in DOMAIN text /\ e \in DOMAIN text /\ b < e
    BY <1>1, <1>3 DEF BlockAt, OnlyAt
  <2>2. Profile!Places(Profile!Begin(brand), text) = {b} /\ Profile!Places(Profile!Finish(brand), text) = {e}
    BY <1>3, PlacesAt DEF BlockAt
  <2> QED
    BY <2>1, <2>2 DEF Profile!Located
<1> QED
  BY <1>2, <1>3

LEMMA BlockIsThere ==
  ASSUME NEW text \in Text, NEW brand, NEW b, NEW e, BlockAt(text, brand, b, e)
  PROVE  /\ Profile!Located(text, brand) /\ Profile!BlockState(text, brand) = "Present"
         /\ Profile!Start(text, brand) = b /\ Profile!Stop(text, brand) = e
         /\ Profile!Inside(text, brand) = b..e
         /\ b \in 1..Len(text) /\ e \in 1..Len(text) /\ b < e
<1>1. Profile!Located(text, brand)
  BY LocatedIsBlock
<1>2. Profile!Places(Profile!Begin(brand), text) = {b} /\ Profile!Places(Profile!Finish(brand), text) = {e}
  BY PlacesAt DEF BlockAt
<1>3. b \in 1..Len(text) /\ e \in 1..Len(text) /\ b < e
  BY DEF BlockAt, OnlyAt
<1>4. Profile!Start(text, brand) = b
  BY <1>2, <1>3 DEF Profile!Start
<1>5. Profile!Stop(text, brand) = e
  BY <1>2, <1>3, <1>4 DEF Profile!Stop
<1> QED
  BY <1>1, <1>3, <1>4, <1>5 DEF Profile!BlockState, Profile!Inside

LEMMA AbsentIsNoMarker ==
  ASSUME NEW text \in Text, NEW brand
  PROVE  /\ Profile!BlockState(text, brand) = "Absent" <=> NoMarker(text, brand)
         /\ Profile!BlockState(text, brand) = "Present" <=> Profile!Located(text, brand)
         /\ ~Profile!Located(text, brand) => Profile!Inside(text, brand) = {}
         /\ NoMarker(text, brand) => ~Profile!Located(text, brand)
<1>1. DOMAIN text = 1..Len(text)
  BY DEF Text
<1>2. NoMarker(text, brand) <=> Markers(brand) \cap Profile!Range(text) = {}
  BY <1>1 DEF Profile!Range, NoMarker
<1>3. NoMarker(text, brand) => ~Profile!Located(text, brand)
  BY LocatedIsBlock DEF NoMarker, Markers, BlockAt, OnlyAt
<1>4. ~Profile!Located(text, brand) => Profile!Inside(text, brand) = {}
  BY DEF Profile!Inside
<1> QED
  BY <1>2, <1>3, <1>4 DEF Profile!BlockState, Markers

-----------------------------------------------------------------------------
\* A token that is neither taken out nor brought in by a splice.
Untouched(s, text, a, m, c, token) ==
  /\ \A k \in Fresh(a, m) : s[k] # token
  /\ \A i \in (a + 1)..(c - 1) : text[i] # token

\* The places that stay keep their tokens and their order, and what is no new place is one of
\* them.
KeepsPlaces(s, text, a, m, c) ==
  /\ \A i \in Stays(text, a, c) : /\ i \in 1..Len(text) /\ Shift(a, m, c, i) \in 1..Len(s)
                                  /\ s[Shift(a, m, c, i)] = text[i]
  /\ \A k \in 1..Len(s) \ Fresh(a, m) : \E i \in Stays(text, a, c) : k = Shift(a, m, c, i)
  /\ \A i \in 1..Len(text) : i \in Stays(text, a, c) \/ i \in (a + 1)..(c - 1)
  /\ \A i, j \in Stays(text, a, c) : Shift(a, m, c, i) = Shift(a, m, c, j) => i = j

LEMMA ShiftedPlaces ==
  ASSUME NEW s, NEW text \in Text, NEW a, NEW m, NEW c, Spliced(s, text, a, m, c)
  PROVE  KeepsPlaces(s, text, a, m, c)
<1>1. /\ \A i \in Stays(text, a, c) : /\ i \in 1..Len(text) /\ Shift(a, m, c, i) \in 1..Len(s)
                                      /\ s[Shift(a, m, c, i)] = text[i]
      /\ \A k \in 1..Len(s) \ Fresh(a, m) : \E i \in Stays(text, a, c) : k = Shift(a, m, c, i)
      /\ \A i \in 1..Len(text) : i \in Stays(text, a, c) \/ i \in (a + 1)..(c - 1)
  <2>1. \A i \in Stays(text, a, c) : /\ i \in 1..Len(text) /\ Shift(a, m, c, i) \in 1..Len(s)
                                     /\ s[Shift(a, m, c, i)] = text[i]
    BY SplicePlaces
  <2>2. \A k \in 1..Len(s) \ Fresh(a, m) : \E i \in Stays(text, a, c) : k = Shift(a, m, c, i)
    BY SplicePlaces
  <2>3. \A i \in 1..Len(text) : i \in Stays(text, a, c) \/ i \in (a + 1)..(c - 1)
    BY SplicePlaces
  <2> QED
    BY <2>1, <2>2, <2>3, Zenon
<1>2. \A i, j \in Stays(text, a, c) : Shift(a, m, c, i) = Shift(a, m, c, j) => i = j
  <2>1. \A i, j \in Stays(text, a, c) : i < j <=> Shift(a, m, c, i) < Shift(a, m, c, j)
    BY SplicePlaces
  <2>2. \A i, j \in Stays(text, a, c) : i < j \/ j < i \/ i = j
    BY <1>1
  <2>3. \A i \in Stays(text, a, c) : Shift(a, m, c, i) \in Nat
    BY <1>1
  <2> SUFFICES ASSUME NEW i \in Stays(text, a, c), NEW j \in Stays(text, a, c),
                      Shift(a, m, c, i) = Shift(a, m, c, j)
               PROVE  i = j
    OBVIOUS
  <2>4. ~(Shift(a, m, c, i) < Shift(a, m, c, j)) /\ ~(Shift(a, m, c, j) < Shift(a, m, c, i))
    BY <2>3
  <2> QED
    BY <2>1, <2>2, <2>4
<1> QED
  BY <1>1, <1>2, Zenon DEF KeepsPlaces

LEMMA TokenStays ==
  ASSUME NEW s, NEW text \in Text, NEW a, NEW m, NEW c, Spliced(s, text, a, m, c),
         NEW token, Untouched(s, text, a, m, c, token), NEW p, OnlyAt(text, token, p)
  PROVE  p \in Stays(text, a, c) /\ OnlyAt(s, token, Shift(a, m, c, p))
<1>0. KeepsPlaces(s, text, a, m, c)
  BY ShiftedPlaces
<1>1. /\ \A i \in Stays(text, a, c) : /\ i \in 1..Len(text) /\ Shift(a, m, c, i) \in 1..Len(s)
                                      /\ s[Shift(a, m, c, i)] = text[i]
      /\ \A k \in 1..Len(s) \ Fresh(a, m) : \E i \in Stays(text, a, c) : k = Shift(a, m, c, i)
      /\ \A i \in 1..Len(text) : i \in Stays(text, a, c) \/ i \in (a + 1)..(c - 1)
  BY <1>0, Zenon DEF KeepsPlaces
<1>2. p \in Stays(text, a, c)
  BY <1>1 DEF OnlyAt, Untouched
<1>3. ASSUME NEW k \in 1..Len(s), s[k] = token PROVE k = Shift(a, m, c, p)
  <2>1. k \notin Fresh(a, m)
    BY <1>3 DEF Untouched
  <2>2. PICK i \in Stays(text, a, c) : k = Shift(a, m, c, i)
    BY <1>1, <2>1
  <2>3. text[i] = token /\ i \in 1..Len(text)
    BY <1>1, <1>3, <2>2
  <2>4. i = p
    BY <2>3 DEF OnlyAt
  <2> QED
    BY <2>2, <2>4
<1>4. Shift(a, m, c, p) \in 1..Len(s) /\ s[Shift(a, m, c, p)] = token
  BY <1>1, <1>2 DEF OnlyAt
<1> QED
  BY <1>2, <1>3, <1>4 DEF OnlyAt

LEMMA TokenCame ==
  ASSUME NEW s, NEW text \in Text, NEW a, NEW m, NEW c, Spliced(s, text, a, m, c),
         NEW token, Untouched(s, text, a, m, c, token), NEW q, OnlyAt(s, token, q)
  PROVE  \E p \in Stays(text, a, c) : q = Shift(a, m, c, p) /\ OnlyAt(text, token, p)
<1>0. KeepsPlaces(s, text, a, m, c)
  BY ShiftedPlaces
<1>1. /\ \A i \in Stays(text, a, c) : /\ i \in 1..Len(text) /\ Shift(a, m, c, i) \in 1..Len(s)
                                      /\ s[Shift(a, m, c, i)] = text[i]
      /\ \A k \in 1..Len(s) \ Fresh(a, m) : \E i \in Stays(text, a, c) : k = Shift(a, m, c, i)
      /\ \A i \in 1..Len(text) : i \in Stays(text, a, c) \/ i \in (a + 1)..(c - 1)
  BY <1>0, Zenon DEF KeepsPlaces
<1>2. \A i, j \in Stays(text, a, c) : Shift(a, m, c, i) = Shift(a, m, c, j) => i = j
  BY <1>0, Zenon DEF KeepsPlaces
<1>3. q \in 1..Len(s) /\ q \notin Fresh(a, m) /\ s[q] = token
  BY DEF OnlyAt, Untouched
<1>4. PICK p \in Stays(text, a, c) : q = Shift(a, m, c, p)
  BY <1>1, <1>3
<1>5. ASSUME NEW i \in 1..Len(text), text[i] = token PROVE i = p
  <2>1. i \in Stays(text, a, c)
    BY <1>1, <1>5 DEF Untouched
  <2>2. Shift(a, m, c, i) = q
    BY <1>1, <1>5, <2>1 DEF OnlyAt
  <2> QED
    BY <1>2, <1>4, <2>1, <2>2
<1>6. p \in 1..Len(text) /\ text[p] = token
  BY <1>1, <1>3, <1>4
<1> QED
  BY <1>4, <1>5, <1>6 DEF OnlyAt

\* A block whose markers are left alone stays, with what is in it.
LEMMA BlockStays ==
  ASSUME NEW s, NEW text \in Text, NEW a, NEW m, NEW c, Spliced(s, text, a, m, c), NEW brand,
         Untouched(s, text, a, m, c, Profile!Begin(brand)),
         Untouched(s, text, a, m, c, Profile!Finish(brand))
  PROVE  /\ \A b, e : BlockAt(text, brand, b, e) =>
                        /\ b \in Stays(text, a, c) /\ e \in Stays(text, a, c)
                        /\ BlockAt(s, brand, Shift(a, m, c, b), Shift(a, m, c, e))
         /\ Profile!Located(s, brand) <=> Profile!Located(text, brand)
         /\ \A i \in Stays(text, a, c) :
              i \in Profile!Inside(text, brand) <=> Shift(a, m, c, i) \in Profile!Inside(s, brand)
<1> DEFINE sh(i) == Shift(a, m, c, i)
           K == Stays(text, a, c)
<1>1. \A i, j \in K : i < j <=> sh(i) < sh(j)
  BY SplicePlaces
<1>2. s \in Text
  BY DEF Spliced
<1>3. \A i \in K : i \in Nat /\ sh(i) \in Nat
  <2>1. \A i \in K : i \in 1..Len(text) /\ sh(i) \in 1..Len(s)
    BY SplicePlaces
  <2> HIDE DEF sh, K
  <2> QED
    BY <2>1
<1> HIDE DEF sh, K
<1>4. ASSUME NEW b, NEW e, BlockAt(text, brand, b, e)
      PROVE  b \in K /\ e \in K /\ BlockAt(s, brand, sh(b), sh(e))
  <2>1. b \in K /\ OnlyAt(s, Profile!Begin(brand), sh(b))
    BY <1>4, TokenStays DEF BlockAt, sh, K
  <2>2. e \in K /\ OnlyAt(s, Profile!Finish(brand), sh(e))
    BY <1>4, TokenStays DEF BlockAt, sh, K
  <2>3. b < e
    BY <1>4 DEF BlockAt
  <2> QED
    BY <1>1, <2>1, <2>2, <2>3 DEF BlockAt
<1>5. ASSUME NEW b, NEW e, BlockAt(s, brand, b, e)
      PROVE  \E i, j : BlockAt(text, brand, i, j)
  <2>0. ASSUME NEW token, token \in Markers(brand), NEW q, OnlyAt(s, token, q)
        PROVE  \E p \in K : q = sh(p) /\ OnlyAt(text, token, p)
    <3>1. Untouched(s, text, a, m, c, token)
      BY <2>0 DEF Markers
    <3>2. \E p \in Stays(text, a, c) : q = Shift(a, m, c, p) /\ OnlyAt(text, token, p)
      BY <2>0, <3>1, TokenCame
    <3> QED
      BY <3>2 DEF sh, K
  <2>1. PICK i \in K : b = sh(i) /\ OnlyAt(text, Profile!Begin(brand), i)
    BY <1>5, <2>0 DEF BlockAt, Markers
  <2>2. PICK j \in K : e = sh(j) /\ OnlyAt(text, Profile!Finish(brand), j)
    BY <1>5, <2>0 DEF BlockAt, Markers
  <2>3. i < j
    BY <1>1, <1>5, <2>1, <2>2 DEF BlockAt
  <2> QED
    BY <2>1, <2>2, <2>3 DEF BlockAt
<1>6. Profile!Located(s, brand) <=> Profile!Located(text, brand)
  BY <1>2, <1>4, <1>5, LocatedIsBlock
<1>7. ASSUME NEW i \in K
      PROVE  i \in Profile!Inside(text, brand) <=> sh(i) \in Profile!Inside(s, brand)
  <2>1. CASE Profile!Located(text, brand)
    <3>1. PICK b, e : BlockAt(text, brand, b, e)
      BY <2>1, LocatedIsBlock
    <3>2. b \in K /\ e \in K /\ BlockAt(s, brand, sh(b), sh(e))
      BY <1>4, <3>1
    <3>3. Profile!Inside(text, brand) = b..e /\ Profile!Inside(s, brand) = sh(b)..sh(e)
      BY <1>2, <3>1, <3>2, BlockIsThere
    <3>4. (i < b <=> sh(i) < sh(b)) /\ (e < i <=> sh(e) < sh(i))
      BY <1>1, <3>2
    <3>5. /\ i \in Nat /\ b \in Nat /\ e \in Nat /\ sh(i) \in Nat /\ sh(b) \in Nat /\ sh(e) \in Nat
      BY <1>3, <3>2
    <3> QED
      BY <3>3, <3>4, <3>5
  <2>2. CASE ~Profile!Located(text, brand)
    BY <1>2, <1>6, <2>2, AbsentIsNoMarker
  <2> QED
    BY <2>1, <2>2
<1> QED
  BY <1>4, <1>6, <1>7 DEF sh, K

-----------------------------------------------------------------------------
(***************************************************************************)
(* What the commands make of a text, as splices.                           *)
(***************************************************************************)

LineEnds == {"cr", "lf"}
IsNewline(n) == n \in Text /\ Len(n) \in {1, 2} /\ \A i \in 1..Len(n) : n[i] \in LineEnds

LEMMA NewlinesAreEnds ==
  ASSUME NEW text
  PROVE  IsNewline(Profile!Newline(text))
<1>1. <<"lf">> \in Text /\ Len(<<"lf">>) = 1 /\ <<"lf">>[1] = "lf"
  BY DEF Text, Profile!Token
<1>2. /\ <<"cr", "lf">> \in Text /\ Len(<<"cr", "lf">>) = 2 
      /\ <<"cr", "lf">>[1] = "cr" /\ <<"cr", "lf">>[2] = "lf"
  BY DEF Text, Profile!Token
<1>3. IsNewline(Profile!Lf)
  BY <1>1 DEF IsNewline, Profile!Lf, LineEnds
<1>4. IsNewline(Profile!CrLf)
  <2>1. \A i \in 1..2 : i = 1 \/ i = 2
    OBVIOUS
  <2> QED
    BY <1>2, <2>1 DEF IsNewline, Profile!CrLf, LineEnds
<1> QED
  BY <1>3, <1>4 DEF Profile!Newline

LEMMA ManagedBlockIs ==
  ASSUME NEW n
  PROVE  LET mb == Profile!ManagedBlock(n) IN
         /\ mb \in Text /\ Len(mb) = 3
         /\ mb[1] = "begin" /\ mb[2] \in {"bodyLf", "bodyCrLf"} /\ mb[3] = "end"
<1>1. ASSUME NEW b \in {"bodyLf", "bodyCrLf"}
      PROVE  /\ <<"begin", b, "end">> \in Text /\ Len(<<"begin", b, "end">>) = 3
             /\ <<"begin", b, "end">>[1] = "begin" /\ <<"begin", b, "end">>[2] = b
             /\ <<"begin", b, "end">>[3] = "end"
  BY <1>1 DEF Text, Profile!Token
<1> QED
  BY <1>1 DEF Profile!ManagedBlock

\* The part of a text in front of a place.
LEMMA PrefixIs ==
  ASSUME NEW text \in Text, NEW a \in 0..Len(text)
  PROVE  /\ SubSeq(text, 1, a) \in Text /\ Len(SubSeq(text, 1, a)) = a
         /\ \A i \in 1..a : SubSeq(text, 1, a)[i] = text[i]
<1> DEFINE x == SubSeq(text, 1, a)
<1>1. a \in Nat /\ a <= Len(text) /\ Len(text) \in Nat /\ \A i \in 1..Len(text) : text[i] \in Profile!Token
  BY DEF Text
<1>2. \A i \in 1..a : text[i] \in Profile!Token
  BY <1>1
<1>3. /\ x \in Seq(Profile!Token)
      /\ Len(x) = IF 1 <= a THEN a - 1 + 1 ELSE 0
      /\ \A i \in 1..(a - 1 + 1) : x[i] = text[1 + i - 1]
  BY <1>1, <1>2, SubSeqProperties
<1> HIDE DEF x
<1>4. x \in Text /\ Len(x) = a /\ \A i \in 1..a : x[i] = text[i]
  BY <1>1, <1>3 DEF Text
<1> QED
  BY <1>4 DEF x

\* A stretch of a text is what stands there.
LEMMA StretchIs ==
  ASSUME NEW text \in Text, NEW i \in 1..Len(text), NEW j \in 1..Len(text), i <= j,
         NEW t \in Text, Len(t) = j - i + 1, \A k \in 1..Len(t) : text[i + k - 1] = t[k]
  PROVE  SubSeq(text, i, j) = t
<1> DEFINE x == SubSeq(text, i, j)
<1>1. Len(text) \in Nat /\ \A k \in 1..Len(text) : text[k] \in Profile!Token
  BY DEF Text
<1>2. \A k \in i..j : text[k] \in Profile!Token
  BY <1>1
<1>3. /\ x \in Seq(Profile!Token)
      /\ Len(x) = IF i <= j THEN j - i + 1 ELSE 0
      /\ \A k \in 1..(j - i + 1) : x[k] = text[i + k - 1]
  BY <1>1, <1>2, SubSeqProperties
<1> HIDE DEF x
<1>4. x \in Seq(Profile!Token) /\ t \in Seq(Profile!Token) /\ Len(x) = Len(t) /\ \A k \in 1..Len(x) : x[k] = t[k]
  BY <1>3 DEF Text
<1>5. x = t
  BY <1>4, SeqEqual
<1> QED
  BY <1>5 DEF x

\* One of Winter's blocks, whose newlines were n, is among what a splice brought in; the rest
\* of that is newlines.
FreshBlock(s, a, m, p, n) ==
  /\ p \in Nat /\ a <= p /\ p + 3 <= a + m
  /\ s[p + 1] = "begin" /\ s[p + 2] \in {"bodyLf", "bodyCrLf"} /\ s[p + 3] = "end"
  /\ \A j \in 1..3 : s[p + j] = Profile!ManagedBlock(n)[j]
  /\ \A k \in Fresh(a, m) : k \in (p + 1)..(p + 3) \/ s[k] \in LineEnds

LEMMA RefreshedIsSplice ==
  ASSUME NEW text \in Text, NEW b, NEW e, BlockAt(text, "winter", b, e)
  PROVE  LET s == Profile!Refreshed(text) IN
         /\ Spliced(s, text, b - 1, 3, e + 1)
         /\ FreshBlock(s, b - 1, 3, b - 1, Profile!Newline(text))
<1> DEFINE n == Profile!Newline(text)
           mb == Profile!ManagedBlock(n)
           s == SubSeq(text, 1, b - 1) \o mb \o SubSeq(text, e + 1, Len(text))
<1>1. /\ Profile!Start(text, "winter") = b /\ Profile!Stop(text, "winter") = e
      /\ b \in 1..Len(text) /\ e \in 1..Len(text) /\ b < e
  BY BlockIsThere
<1>2. Profile!Refreshed(text) = s
  BY <1>1 DEF Profile!Refreshed, Profile!Before, Profile!Behind
<1>3. /\ mb \in Text /\ Len(mb) = 3
      /\ mb[1] = "begin" /\ mb[2] \in {"bodyLf", "bodyCrLf"} /\ mb[3] = "end"
  BY ManagedBlockIs
<1>4. b - 1 \in 0..Len(text) /\ e + 1 \in ((b - 1) + 1)..(Len(text) + 1) /\ b - 1 \in Nat
  BY <1>1 DEF Text
<1>5. Spliced(s, text, b - 1, Len(mb), e + 1) /\ \A j \in 1..Len(mb) : s[(b - 1) + j] = mb[j]
  BY <1>3, <1>4, ConcatIsSplice
<1> HIDE DEF s, mb
<1>6. s[(b - 1) + 1] = "begin" /\ s[(b - 1) + 2] \in {"bodyLf", "bodyCrLf"} /\ s[(b - 1) + 3] = "end"
  BY <1>3, <1>5
<1>7. \A k \in Fresh(b - 1, 3) : k \in ((b - 1) + 1)..((b - 1) + 3)
  BY DEF Fresh
<1>8. FreshBlock(s, b - 1, 3, b - 1, n)
  BY <1>3, <1>4, <1>5, <1>6, <1>7 DEF FreshBlock, mb
<1> QED
  BY <1>2, <1>3, <1>5, <1>8 DEF n

LEMMA TextsJoin ==
  ASSUME NEW x \in Text, NEW y \in Text
  PROVE  /\ x \o y \in Text /\ Len(x \o y) = Len(x) + Len(y)
         /\ \A i \in 1..(Len(x) + Len(y)) : (x \o y)[i] = IF i <= Len(x) THEN x[i] ELSE y[i - Len(x)]
BY ConcatProperties DEF Text

\* Winter's block of the newlines l behind f tokens that are newlines, and n behind it.
BlockBetween(mid, f, l, n) ==
  /\ mid \in Text /\ Len(mid) = f + 3 + Len(n)
  /\ \A j \in 1..3 : mid[f + j] = Profile!ManagedBlock(l)[j]
  /\ \A k \in 1..Len(mid) : k \in (f + 1)..(f + 3) \/ mid[k] \in LineEnds
  /\ \A k \in 1..Len(n) : mid[f + 3 + k] = n[k]

LEMMA BlockInNewlines ==
  ASSUME NEW front \in Text, \A i \in 1..Len(front) : front[i] \in LineEnds,
         NEW n, IsNewline(n), NEW l
  PROVE  BlockBetween((front \o Profile!ManagedBlock(l)) \o n, Len(front), l, n)
<1> DEFINE mb == Profile!ManagedBlock(l)
           h == front \o mb
           mid == h \o n
           f == Len(front)
<1>1. mb \in Text /\ Len(mb) = 3
  BY ManagedBlockIs
<1>2. n \in Text /\ Len(n) \in Nat /\ \A i \in 1..Len(n) : n[i] \in LineEnds
  BY DEF IsNewline
<1>3. f \in Nat
  BY DEF Text
<1> HIDE DEF mb
<1>4. h \in Text /\ Len(h) = f + 3 /\ \A i \in 1..(f + 3) : h[i] = IF i <= f THEN front[i] ELSE mb[i - f]
  <2>1. /\ front \o mb \in Text /\ Len(front \o mb) = Len(front) + Len(mb)
        /\ \A i \in 1..(Len(front) + Len(mb)) :
             (front \o mb)[i] = IF i <= Len(front) THEN front[i] ELSE mb[i - Len(front)]
    BY <1>1, TextsJoin
  <2> HIDE DEF h
  <2> QED
    BY <1>1, <2>1 DEF h
<1> HIDE DEF h
<1>5. mid \in Text /\ Len(mid) = (f + 3) + Len(n)
      /\ \A i \in 1..((f + 3) + Len(n)) : mid[i] = IF i <= f + 3 THEN h[i] ELSE n[i - (f + 3)]
  <2>1. /\ h \o n \in Text /\ Len(h \o n) = Len(h) + Len(n)
        /\ \A i \in 1..(Len(h) + Len(n)) : (h \o n)[i] = IF i <= Len(h) THEN h[i] ELSE n[i - Len(h)]
    BY <1>2, <1>4, TextsJoin
  <2> HIDE DEF mid
  <2> QED
    BY <1>4, <2>1 DEF mid
<1> HIDE DEF mid
<1>6. \A j \in 1..3 : mid[f + j] = mb[j]
  <2> SUFFICES ASSUME NEW j \in 1..3 PROVE mid[f + j] = mb[j]
    OBVIOUS
  <2>1. f + j \in 1..(f + 3) /\ ~(f + j <= f) /\ (f + j) - f = j /\ f + j <= f + 3 /\ f + j \in 1..((f + 3) + Len(n))
    BY <1>2, <1>3
  <2>2. mid[f + j] = h[f + j]
    BY <1>5, <2>1
  <2>3. h[f + j] = mb[(f + j) - f]
    BY <1>4, <2>1
  <2> QED
    BY <2>1, <2>2, <2>3
<1>7. \A k \in 1..Len(n) : mid[(f + 3) + k] = n[k]
  <2> SUFFICES ASSUME NEW k \in 1..Len(n) PROVE mid[(f + 3) + k] = n[k]
    OBVIOUS
  <2>1. (f + 3) + k \in 1..((f + 3) + Len(n)) /\ ~((f + 3) + k <= f + 3) /\ ((f + 3) + k) - (f + 3) = k
    BY <1>2, <1>3
  <2> QED
    BY <1>5, <2>1
<1>8. \A k \in 1..Len(mid) : k \in (f + 1)..(f + 3) \/ mid[k] \in LineEnds
  <2> SUFFICES ASSUME NEW k \in 1..Len(mid), k \notin (f + 1)..(f + 3) PROVE mid[k] \in LineEnds
    OBVIOUS
  <2>1. CASE k <= f
    <3>1. k \in 1..f /\ k <= f + 3 /\ k \in 1..(f + 3) /\ k \in 1..((f + 3) + Len(n))
      BY <1>2, <1>3, <1>5, <2>1
    <3>2. mid[k] = h[k] /\ h[k] = front[k]
      BY <1>4, <1>5, <2>1, <3>1
    <3> QED
      BY <3>1, <3>2
  <2>2. CASE ~(k <= f)
    <3>1. k - (f + 3) \in 1..Len(n) /\ ~(k <= f + 3) /\ k \in 1..((f + 3) + Len(n))
      BY <1>2, <1>3, <1>5, <2>2
    <3>2. mid[k] = n[k - (f + 3)]
      BY <1>5, <3>1
    <3> QED
      BY <1>2, <3>1, <3>2
  <2> QED
    BY <2>1, <2>2
<1> QED
  BY <1>3, <1>5, <1>6, <1>7, <1>8 DEF BlockBetween, mid, h, mb, f

LEMMA NoneIsNoText == None \notin Text
BY TextAssumption DEF Text

LEMMA TextsAssociate ==
  ASSUME NEW x \in Text, NEW y \in Text, NEW z \in Text
  PROVE  (x \o y) \o z = x \o (y \o z)
BY ConcatAssociative DEF Text

\* The block install appends to a text.
LEMMA AddedIsSplice ==
  ASSUME NEW text \in Text
  PROVE  LET s == Profile!Added(text)
             n == Profile!Newline(text)
             p == Len(text) + (IF text = <<>> THEN 0 ELSE Len(n))
             m == p + 3 + Len(n) - Len(text) IN
         /\ Spliced(s, text, Len(text), m, Len(text) + 1)
         /\ FreshBlock(s, Len(text), m, p, n)
         /\ text # <<>> => \A k \in 1..Len(n) : s[Len(text) + k] = n[k]
         /\ \A k \in 1..Len(n) : s[p + 3 + k] = n[k]
<1> DEFINE n == Profile!Newline(text)
           mb == Profile!ManagedBlock(n)
           front == IF text = <<>> THEN <<>> ELSE n
           mid == (front \o mb) \o n
           L == Len(text)
           s == text \o mid
           p == L + Len(front)
<1>1. IsNewline(n)
  BY NewlinesAreEnds
<1>2. n \in Text /\ Len(n) \in {1, 2} /\ \A i \in 1..Len(n) : n[i] \in LineEnds
  BY <1>1 DEF IsNewline
<1>3. front \in Text /\ \A i \in 1..Len(front) : front[i] \in LineEnds
  BY <1>2 DEF Text
<1>4. Len(front) = (IF text = <<>> THEN 0 ELSE Len(n)) /\ Len(front) \in Nat /\ L \in Nat
  BY <1>2 DEF Text
<1>5. mb \in Text /\ Len(mb) = 3 /\ mb[1] = "begin" /\ mb[2] \in {"bodyLf", "bodyCrLf"} /\ mb[3] = "end"
  BY ManagedBlockIs
<1> HIDE DEF n
<1>5a. text # <<>> => front = n
  OBVIOUS
<1>5b. (IF text = <<>> THEN <<>> ELSE n) = front
  OBVIOUS
<1> HIDE DEF front
<1>6. /\ mid \in Text /\ Len(mid) = Len(front) + 3 + Len(n)
      /\ \A j \in 1..3 : mid[Len(front) + j] = mb[j]
      /\ \A k \in 1..Len(mid) : k \in (Len(front) + 1)..(Len(front) + 3) \/ mid[k] \in LineEnds
      /\ \A k \in 1..Len(n) : mid[Len(front) + 3 + k] = n[k]
  <2>1. BlockBetween((front \o Profile!ManagedBlock(n)) \o n, Len(front), n, n)
    BY <1>1, <1>3, BlockInNewlines
  <2> HIDE DEF mid, mb
  <2>2. BlockBetween(mid, Len(front), n, n)
    BY <2>1 DEF mid, mb
  <2> QED
    BY <2>2 DEF BlockBetween, mb
<1>6a. \A k \in 1..Len(front) : mid[k] = front[k]
  <2>1. /\ front \o mb \in Text /\ Len(front \o mb) = Len(front) + Len(mb)
        /\ \A i \in 1..(Len(front) + Len(mb)) :
             (front \o mb)[i] = IF i <= Len(front) THEN front[i] ELSE mb[i - Len(front)]
    BY <1>3, <1>5, TextsJoin
  <2>2. \A i \in 1..(Len(front \o mb) + Len(n)) :
             mid[i] = IF i <= Len(front \o mb) THEN (front \o mb)[i] ELSE n[i - Len(front \o mb)]
    BY <1>2, <2>1, TextsJoin
  <2> SUFFICES ASSUME NEW k \in 1..Len(front) PROVE mid[k] = front[k]
    OBVIOUS
  <2>3. k \in 1..(Len(front) + Len(mb)) /\ k <= Len(front) + Len(mb) /\ k \in 1..((Len(front) + Len(mb)) + Len(n))
        /\ k <= Len(front)
    BY <1>2, <1>4, <1>5
  <2>4. mid[k] = (front \o mb)[k]
    BY <2>1, <2>2, <2>3
  <2>5. (front \o mb)[k] = front[k]
    BY <2>1, <2>3
  <2> QED
    BY <2>4, <2>5
<1>7. Profile!Added(text) = s
  <2>1. text # None
    BY NoneIsNoText
  <2>2. Profile!Added(text) = ((text \o front) \o mb) \o n
    BY <1>5b, <2>1 DEF Profile!Added, mb, n
  <2>3. (text \o front) \o mb = text \o (front \o mb)
    BY <1>3, <1>5, TextsAssociate
  <2>4. (text \o (front \o mb)) \o n = text \o ((front \o mb) \o n)
    <3>1. front \o mb \in Text
      BY <1>3, <1>5, TextsJoin
    <3> QED
      BY <1>2, <3>1, TextsAssociate
  <2> QED
    BY <2>2, <2>3, <2>4
<1> HIDE DEF mid, mb
<1>8. SubSeq(text, 1, L) = text /\ SubSeq(text, L + 1, Len(text)) = <<>>
  BY <1>4, SubSeqFull, SubSeqEmpty DEF Text
<1>9. (text \o mid) \o <<>> = text \o mid
  <2>1. text \o mid \in Seq(Profile!Token)
    BY <1>6, TextsJoin DEF Text
  <2> QED
    BY <2>1, ConcatEmptySeq
<1>10. s = (SubSeq(text, 1, L) \o mid) \o SubSeq(text, L + 1, Len(text))
  BY <1>8, <1>9
<1>11. L \in 0..Len(text) /\ L + 1 \in (L + 1)..(Len(text) + 1)
  BY <1>4
<1>12. /\ Spliced((SubSeq(text, 1, L) \o mid) \o SubSeq(text, L + 1, Len(text)), text, L, Len(mid), L + 1)
       /\ \A j \in 1..Len(mid) : ((SubSeq(text, 1, L) \o mid) \o SubSeq(text, L + 1, Len(text)))[L + j] = mid[j]
  BY <1>6, <1>11, ConcatIsSplice
<1>13. Spliced(s, text, L, Len(mid), L + 1) /\ \A j \in 1..Len(mid) : s[L + j] = mid[j]
  BY <1>10, <1>12
<1> HIDE DEF s, L
<1>14. FreshBlock(s, L, Len(mid), p, n)
  <2>1. \A j \in 1..3 : s[p + j] = mb[j]
    <3> SUFFICES ASSUME NEW j \in 1..3 PROVE s[p + j] = mb[j]
      OBVIOUS
    <3>1. Len(front) + j \in 1..Len(mid) /\ p + j = L + (Len(front) + j)
      BY <1>2, <1>4, <1>6
    <3> QED
      BY <1>6, <1>13, <3>1
  <2>2. ASSUME NEW k \in Fresh(L, Len(mid)) PROVE k \in (p + 1)..(p + 3) \/ s[k] \in LineEnds
    <3>1. k - L \in 1..Len(mid) /\ k = L + (k - L) /\ k \in Int
      BY <1>2, <1>4, <1>6 DEF Fresh
    <3>2. s[k] = mid[k - L]
      BY <1>13, <3>1
    <3>3. CASE k - L \in (Len(front) + 1)..(Len(front) + 3)
      BY <1>4, <3>1, <3>3
    <3> QED
      BY <1>6, <3>1, <3>2, <3>3
  <2>3. s[p + 1] = "begin" /\ s[p + 2] \in {"bodyLf", "bodyCrLf"} /\ s[p + 3] = "end"
    BY <1>5, <2>1
  <2>4. p \in Nat /\ L <= p /\ p + 3 <= L + Len(mid)
    BY <1>2, <1>4, <1>6
  <2> QED
    BY <2>1, <2>2, <2>3, <2>4 DEF FreshBlock, mb
<1>15. \A k \in 1..Len(n) : s[p + 3 + k] = n[k]
  <2> SUFFICES ASSUME NEW k \in 1..Len(n) PROVE s[p + 3 + k] = n[k]
    OBVIOUS
  <2>1. Len(front) + 3 + k \in 1..Len(mid) /\ p + 3 + k = L + (Len(front) + 3 + k)
    BY <1>2, <1>4, <1>6
  <2> QED
    BY <1>6, <1>13, <2>1
<1>16. text # <<>> => \A k \in 1..Len(n) : s[L + k] = n[k]
  <2> SUFFICES ASSUME text # <<>>, NEW k \in 1..Len(n) PROVE s[L + k] = n[k]
    OBVIOUS
  <2>1. front = n /\ k \in 1..Len(mid)
    BY <1>2, <1>4, <1>5a, <1>6
  <2> QED
    BY <1>6a, <1>13, <2>1
<1>17. Len(mid) = p + 3 + Len(n) - L
  BY <1>2, <1>4, <1>6
<1> QED
  BY <1>4, <1>7, <1>13, <1>14, <1>15, <1>16, <1>17 DEF L, n

LEMMA SuffixTaken ==
  ASSUME NEW text \in Text, NEW l \in 0..Len(text), NEW n, IsNewline(n)
  PROVE  \E a \in 0..l : /\ Profile!WithoutSuffix(SubSeq(text, 1, l), n) = SubSeq(text, 1, a)
                         /\ \A i \in (a + 1)..l : text[i] \in LineEnds
<1> DEFINE x == SubSeq(text, 1, l)
<1>1. x \in Text /\ Len(x) = l /\ \A i \in 1..l : x[i] = text[i]
  BY PrefixIs
<1>2. l \in Nat /\ Len(n) \in {1, 2} /\ \A i \in 1..Len(n) : n[i] \in LineEnds
  BY DEF IsNewline, Text
<1> HIDE DEF x
<1>3. CASE Len(x) >= Len(n) /\ SubSeq(x, Len(x) - Len(n) + 1, Len(x)) = n
  <2> DEFINE a == l - Len(n)
  <2>1. a \in 0..l /\ a \in Nat /\ a + Len(n) = l /\ a <= Len(x)
    BY <1>1, <1>2, <1>3
  <2>2. Profile!WithoutSuffix(x, n) = SubSeq(x, 1, a)
    BY <1>1, <1>3 DEF Profile!WithoutSuffix
  <2>3. SubSeq(x, 1, a) = SubSeq(text, 1, a)
    <3>1. /\ SubSeq(x, 1, a) \in Text /\ Len(SubSeq(x, 1, a)) = a
          /\ \A i \in 1..a : SubSeq(x, 1, a)[i] = x[i]
      BY <1>1, <2>1, PrefixIs
    <3>2. /\ SubSeq(text, 1, a) \in Text /\ Len(SubSeq(text, 1, a)) = a
          /\ \A i \in 1..a : SubSeq(text, 1, a)[i] = text[i]
      BY <2>1, PrefixIs
    <3>3. \A i \in 1..a : i \in 1..l
      BY <1>2, <2>1
    <3> DEFINE y == SubSeq(x, 1, a)
               z == SubSeq(text, 1, a)
    <3> HIDE DEF y, z, a
    <3>4. y \in Seq(Profile!Token) /\ z \in Seq(Profile!Token) /\ Len(y) = Len(z) /\ \A i \in 1..Len(y) : y[i] = z[i]
      BY <1>1, <3>1, <3>2, <3>3 DEF y, z, Text
    <3>5. y = z
      BY <3>4, SeqEqual
    <3> QED
      BY <3>5 DEF y, z
  <2>4. ASSUME NEW i \in (a + 1)..l PROVE text[i] \in LineEnds
    <3> DEFINE y == SubSeq(x, a + 1, l)
    <3>1. \A k \in (a + 1)..l : x[k] \in Profile!Token
      BY <1>1, <1>2, <2>1 DEF Text
    <3>3. y = n
      BY <1>1, <1>3
    <3>1a. a + 1 \in Int /\ l \in Int
      BY <1>2, <2>1
    <3> HIDE DEF a
    <3>2. \A k \in 1..(l - (a + 1) + 1) : y[k] = x[(a + 1) + k - 1]
      BY <3>1, <3>1a, SubSeqProperties
    <3>4. i - a \in 1..(l - (a + 1) + 1) /\ (a + 1) + (i - a) - 1 = i /\ i - a \in 1..Len(n) /\ i \in 1..l
      BY <1>2, <2>1
    <3> HIDE DEF y
    <3>5. y[i - a] = x[i]
      BY <3>2, <3>4
    <3> QED
      BY <1>1, <1>2, <3>3, <3>4, <3>5
  <2> HIDE DEF a
  <2> QED
    BY <2>1, <2>2, <2>3, <2>4 DEF x
<1>4. CASE ~(Len(x) >= Len(n) /\ SubSeq(x, Len(x) - Len(n) + 1, Len(x)) = n)
  <2>1. Profile!WithoutSuffix(x, n) = x
    BY <1>4 DEF Profile!WithoutSuffix
  <2>2. l \in 0..l /\ \A i \in (l + 1)..l : text[i] \in LineEnds
    BY <1>2
  <2> QED
    BY <2>1, <2>2 DEF x
<1> QED
  BY <1>3, <1>4

LEMMA NewlineBehindTaken ==
  ASSUME NEW text \in Text, NEW e \in 1..Len(text), NEW n, IsNewline(n)
  PROVE  \E c \in (e + 1)..(Len(text) + 1) :
           /\ (IF SubSeq(text, e + 1, Len(text)) = n THEN <<>> ELSE SubSeq(text, e + 1, Len(text)))
                = SubSeq(text, c, Len(text))
           /\ \A i \in (e + 1)..(c - 1) : text[i] \in LineEnds
<1> DEFINE L == Len(text)
           y == SubSeq(text, e + 1, L)
<1>1. L \in Nat /\ e \in Nat /\ e <= L /\ \A k \in 1..L : text[k] \in Profile!Token
  BY DEF Text
<1>2. CASE y = n
  <2>1. \A k \in (e + 1)..L : text[k] \in Profile!Token
    BY <1>1
  <2>2. /\ Len(y) = IF e + 1 <= L THEN L - (e + 1) + 1 ELSE 0
        /\ \A k \in 1..(L - (e + 1) + 1) : y[k] = text[(e + 1) + k - 1]
    BY <1>1, <2>1, SubSeqProperties
  <2>3. ASSUME NEW i \in (e + 1)..((L + 1) - 1) PROVE text[i] \in LineEnds
    <3>1. i - e \in 1..(L - (e + 1) + 1) /\ (e + 1) + (i - e) - 1 = i /\ e + 1 <= L
          /\ i - e \in 1..(L - e) /\ L - (e + 1) + 1 = L - e
      BY <1>1
    <3> HIDE DEF y, L
    <3>2. Len(n) = L - e /\ n[i - e] = text[i]
      BY <1>2, <2>2, <3>1
    <3> QED
      BY <3>1, <3>2 DEF IsNewline
  <2>4. SubSeq(text, L + 1, L) = <<>>
    BY <1>1, SubSeqEmpty
  <2>5. L + 1 \in (e + 1)..(L + 1)
    BY <1>1
  <2> HIDE DEF y
  <2>6. (IF y = n THEN <<>> ELSE y) = SubSeq(text, L + 1, L)
    BY <1>2, <2>4
  <2> QED
    BY <2>3, <2>5, <2>6 DEF y
<1>3. CASE y # n
  <2>1. e + 1 \in (e + 1)..(L + 1) /\ \A i \in (e + 1)..((e + 1) - 1) : text[i] \in LineEnds
    BY <1>1
  <2> QED
    BY <1>3, <2>1
<1> QED
  BY <1>2, <1>3

\* Removal takes the block, and newlines around it.
LEMMA CutIsSplice ==
  ASSUME NEW text \in Text, NEW brand, NEW b, NEW e, BlockAt(text, brand, b, e)
  PROVE  \E a \in 0..(b - 1), c \in (e + 1)..(Len(text) + 1) :
           /\ Spliced(Profile!Cut(text, brand), text, a, 0, c)
           /\ \A i \in (a + 1)..(b - 1) : text[i] \in LineEnds
           /\ \A i \in (e + 1)..(c - 1) : text[i] \in LineEnds
<1> DEFINE n == Profile!Newline(text)
<1>1. /\ Profile!Start(text, brand) = b /\ Profile!Stop(text, brand) = e
      /\ b \in 1..Len(text) /\ e \in 1..Len(text) /\ b < e
  BY BlockIsThere
<1>2. IsNewline(n)
  BY NewlinesAreEnds
<1>3. b - 1 \in 0..Len(text) /\ Len(text) \in Nat
  BY <1>1 DEF Text
<1> HIDE DEF n
<1>4. PICK a \in 0..(b - 1) : /\ Profile!WithoutSuffix(SubSeq(text, 1, b - 1), n) = SubSeq(text, 1, a)
                              /\ \A i \in (a + 1)..(b - 1) : text[i] \in LineEnds
  BY <1>2, <1>3, SuffixTaken
<1>5. PICK c \in (e + 1)..(Len(text) + 1) :
           /\ (IF SubSeq(text, e + 1, Len(text)) = n THEN <<>> ELSE SubSeq(text, e + 1, Len(text)))
                = SubSeq(text, c, Len(text))
           /\ \A i \in (e + 1)..(c - 1) : text[i] \in LineEnds
  BY <1>1, <1>2, NewlineBehindTaken
<1>6. Profile!Cut(text, brand) = SubSeq(text, 1, a) \o SubSeq(text, c, Len(text))
  BY <1>1, <1>4, <1>5 DEF Profile!Cut, Profile!Before, Profile!Behind, n
<1>7. SubSeq(text, 1, a) \o <<>> = SubSeq(text, 1, a)
  <2>1. a \in 0..Len(text)
    BY <1>1, <1>3
  <2>2. SubSeq(text, 1, a) \in Seq(Profile!Token)
    BY <2>1, PrefixIs DEF Text
  <2> QED
    BY <2>2, ConcatEmptySeq
<1>8. Profile!Cut(text, brand) = (SubSeq(text, 1, a) \o <<>>) \o SubSeq(text, c, Len(text))
  BY <1>6, <1>7
<1>9. <<>> \in Text /\ Len(<<>>) = 0 /\ a \in 0..Len(text) /\ c \in (a + 1)..(Len(text) + 1)
  BY <1>1, <1>3 DEF Text
<1>10. Spliced((SubSeq(text, 1, a) \o <<>>) \o SubSeq(text, c, Len(text)), text, a, Len(<<>>), c)
  BY <1>9, ConcatIsSplice
<1> QED
  BY <1>4, <1>5, <1>8, <1>9, <1>10

LEMMA MarkersAre ==
  /\ Markers("winter") = {"begin", "end"} /\ Markers("old") = {"oldbegin", "oldend"}
  /\ Profile!Begin("winter") = "begin" /\ Profile!Finish("winter") = "end"
  /\ Profile!Begin("old") = "oldbegin" /\ Profile!Finish("old") = "oldend"
BY DEF Markers, Profile!Begin, Profile!Finish

\* The block of an earlier version is whole and in front of Winter's, or is not there.
OldFirst(text) ==
  \/ NoMarker(text, "old")
  \/ \E b, e : /\ BlockAt(text, "old", b, e)
               /\ \A i \in 1..Len(text) : text[i] \in Markers("winter") => e < i

LEMMA NoMarkerStays ==
  ASSUME NEW s, NEW text \in Text, NEW a, NEW m, NEW c, Spliced(s, text, a, m, c), NEW brand,
         \A k \in Fresh(a, m) : s[k] \notin Markers(brand),
         \A i \in Stays(text, a, c) : text[i] \notin Markers(brand)
  PROVE  NoMarker(s, brand)
<1>1. KeepsPlaces(s, text, a, m, c)
  BY ShiftedPlaces
<1>2. ASSUME NEW k \in 1..Len(s) PROVE s[k] \notin Markers(brand)
  <2>1. CASE k \in Fresh(a, m)
    BY <2>1
  <2>2. CASE k \notin Fresh(a, m)
    <3>1. PICK i \in Stays(text, a, c) : k = Shift(a, m, c, i)
      BY <1>1, <2>2 DEF KeepsPlaces
    <3> QED
      BY <1>1, <3>1 DEF KeepsPlaces
  <2> QED
    BY <2>1, <2>2
<1> QED
  BY <1>2 DEF NoMarker

LEMMA OldFirstStays ==
  ASSUME NEW s, NEW text \in Text, NEW a, NEW m, NEW c, Spliced(s, text, a, m, c), OldFirst(text),
         Untouched(s, text, a, m, c, "oldbegin"), Untouched(s, text, a, m, c, "oldend"),
         \A b, e : BlockAt(text, "old", b, e) =>
            \A k \in Fresh(a, m) : s[k] \in Markers("winter") => e <= a
  PROVE  OldFirst(s)
<1>1. KeepsPlaces(s, text, a, m, c)
  BY ShiftedPlaces
<1>2. CASE NoMarker(text, "old")
  <2>1. \A k \in Fresh(a, m) : s[k] \notin Markers("old")
    BY MarkersAre DEF Untouched
  <2>2. \A i \in Stays(text, a, c) : text[i] \notin Markers("old")
    BY <1>1, <1>2 DEF KeepsPlaces, NoMarker
  <2> QED
    BY <2>1, <2>2, NoMarkerStays DEF OldFirst
<1>3. ASSUME NEW b, NEW e, BlockAt(text, "old", b, e),
             \A i \in 1..Len(text) : text[i] \in Markers("winter") => e < i
      PROVE  OldFirst(s)
  <2>1. Untouched(s, text, a, m, c, Profile!Begin("old")) /\ Untouched(s, text, a, m, c, Profile!Finish("old"))
    BY MarkersAre
  <2>2. /\ b \in Stays(text, a, c) /\ e \in Stays(text, a, c)
        /\ BlockAt(s, "old", Shift(a, m, c, b), Shift(a, m, c, e))
    BY <1>3, <2>1, BlockStays
  <2>3. ASSUME NEW k \in 1..Len(s), s[k] \in Markers("winter") PROVE Shift(a, m, c, e) < k
    <3>1. CASE k \in Fresh(a, m)
      <4>1. e <= a
        BY <1>3, <2>3, <3>1
      <4>2. Shift(a, m, c, e) = e
        BY <4>1 DEF Shift
      <4>3. a < k /\ a \in Nat /\ e \in Nat /\ k \in Nat
        BY <2>2, <3>1 DEF Fresh, Spliced, Stays
      <4> QED
        BY <4>1, <4>2, <4>3
    <3>2. CASE k \notin Fresh(a, m)
      <4>1. PICK i \in Stays(text, a, c) : k = Shift(a, m, c, i)
        BY <1>1, <3>2 DEF KeepsPlaces
      <4>2. i \in 1..Len(text) /\ text[i] = s[k]
        BY <1>1, <4>1 DEF KeepsPlaces
      <4>3. e < i
        BY <1>3, <2>3, <4>2
      <4> QED
        BY <2>2, <4>1, <4>3, SplicePlaces
    <3> QED
      BY <3>1, <3>2
  <2> QED
    BY <2>2, <2>3 DEF OldFirst
<1> QED
  BY <1>2, <1>3 DEF OldFirst

\* A block brought into a text without other markers is the block, and intact.
LEMMA FreshBlockIsThere ==
  ASSUME NEW s, NEW text \in Text, NEW a, NEW m, NEW c, Spliced(s, text, a, m, c),
         NEW p, NEW n, FreshBlock(s, a, m, p, n),
         \A i \in Stays(text, a, c) : text[i] \notin Markers("winter")
  PROVE  /\ BlockAt(s, "winter", p + 1, p + 3)
         /\ Profile!BlockState(s, "winter") = "Present" /\ Profile!Intact(s)
         /\ Profile!Inside(s, "winter") \subseteq Fresh(a, m)
<1>1. KeepsPlaces(s, text, a, m, c)
  BY ShiftedPlaces
<1>2. /\ p \in Nat /\ a \in Nat /\ m \in Nat /\ a <= p /\ p + 3 <= a + m
      /\ s[p + 1] = "begin" /\ s[p + 2] \in {"bodyLf", "bodyCrLf"} /\ s[p + 3] = "end"
  BY DEF FreshBlock, Spliced
<1>3. s \in Text /\ Len(s) \in Nat /\ a + m <= Len(s)
  <2>1. s \in Text /\ Len(s) = (a + m) + (Len(text) + 1 - c) /\ c \in (a + 1)..(Len(text) + 1) /\ Len(text) \in Nat
    BY DEF Spliced, Text
  <2> QED
    BY <1>2, <2>1
<1>4. ASSUME NEW k \in 1..Len(s), s[k] \in Markers("winter") 
      PROVE  (k = p + 1 /\ s[k] = "begin") \/ (k = p + 3 /\ s[k] = "end")
  <2>1. k \in Fresh(a, m)
    <3> SUFFICES ASSUME k \notin Fresh(a, m) PROVE FALSE
      OBVIOUS
    <3>1. PICK i \in Stays(text, a, c) : k = Shift(a, m, c, i)
      BY <1>1 DEF KeepsPlaces
    <3>2. text[i] = s[k]
      BY <1>1, <3>1 DEF KeepsPlaces
    <3> QED
      BY <1>4, <3>2
  <2>2. s[k] = "begin" \/ s[k] = "end"
    BY <1>4, MarkersAre
  <2>3. k \in (p + 1)..(p + 3)
    BY <2>1, <2>2 DEF FreshBlock, LineEnds
  <2>4. k = p + 1 \/ k = p + 2 \/ k = p + 3
    BY <1>2, <2>3
  <2> QED
    BY <1>2, <2>2, <2>4
<1>5. p + 1 \in 1..Len(s) /\ p + 3 \in 1..Len(s) /\ p + 1 < p + 3
  BY <1>2, <1>3
<1>6. OnlyAt(s, "begin", p + 1) /\ OnlyAt(s, "end", p + 3)
  <2>1. \A k \in 1..Len(s) : s[k] = "begin" => k = p + 1
    BY <1>4, MarkersAre
  <2>2. \A k \in 1..Len(s) : s[k] = "end" => k = p + 3
    BY <1>4, MarkersAre
  <2> QED
    BY <1>2, <1>5, <2>1, <2>2 DEF OnlyAt
<1>7. BlockAt(s, "winter", p + 1, p + 3)
  BY <1>5, <1>6, MarkersAre DEF BlockAt
<1>8. /\ Profile!BlockState(s, "winter") = "Present"
      /\ Profile!Start(s, "winter") = p + 1 /\ Profile!Stop(s, "winter") = p + 3
      /\ Profile!Inside(s, "winter") = (p + 1)..(p + 3)
  BY <1>3, <1>7, BlockIsThere
<1>9. Profile!Block(s, "winter") = Profile!ManagedBlock(n)
  <2> DEFINE mb == Profile!ManagedBlock(n)
  <2>1. mb \in Text /\ Len(mb) = 3
    BY ManagedBlockIs
  <2>2. \A j \in 1..3 : s[p + j] = mb[j]
    BY DEF FreshBlock
  <2> HIDE DEF mb
  <2>3. Len(mb) = (p + 3) - (p + 1) + 1 /\ p + 1 <= p + 3
    BY <1>2, <2>1
  <2>4. \A k \in 1..Len(mb) : s[(p + 1) + k - 1] = mb[k]
    <3> SUFFICES ASSUME NEW k \in 1..3 PROVE s[(p + 1) + k - 1] = mb[k]
      BY <2>1
    <3>1. (p + 1) + k - 1 = p + k
      BY <1>2
    <3> QED
      BY <2>2, <3>1
  <2>5. SubSeq(s, p + 1, p + 3) = mb
    BY <1>3, <1>5, <2>1, <2>3, <2>4, StretchIs
  <2> QED
    BY <1>8, <2>5 DEF Profile!Block, mb
<1>10. Profile!Intact(s)
  BY <1>9, BlocksAreTheSame DEF Profile!Intact
<1>11. (p + 1)..(p + 3) \subseteq Fresh(a, m)
  BY <1>2 DEF Fresh
<1> QED
  BY <1>7, <1>8, <1>10, <1>11

-----------------------------------------------------------------------------
(***************************************************************************)
(* How much of a text is the user's.                                       *)
(***************************************************************************)

InBlock(text) == Profile!Inside(text, "winter") \cup Profile!Inside(text, "old")
Own(text) == {i \in 1..Len(text) : text[i] = "x" /\ i \notin InBlock(text)}

LEMMA WrittenCountsOwn ==
  ASSUME NEW text \in Text
  PROVE  /\ Profile!Written(text) = Cardinality(Own(text))
         /\ IsFiniteSet(Own(text))
<1>1. text # None
  BY NoneIsNoText
<1>2. Profile!Places("x", text) \ InBlock(text) = Own(text)
  BY PlacesAt DEF Own
<1>3. Len(text) \in Nat
  BY DEF Text
<1>4. Own(text) \in SUBSET (1..Len(text))
  BY DEF Own
<1> QED
  BY <1>1, <1>2, <1>3, <1>4, UpToIsFinite, ProfileCardinality DEF Profile!Written, InBlock

LEMMA WrittenStays ==
  ASSUME NEW s, NEW text \in Text, NEW a, NEW m, NEW c, Spliced(s, text, a, m, c),
         \A k \in Fresh(a, m) : s[k] # "x",
         \A i \in (a + 1)..(c - 1) : text[i] = "x" => i \in InBlock(text),
         \A i \in Stays(text, a, c) : i \in InBlock(text) <=> Shift(a, m, c, i) \in InBlock(s)
  PROVE  Profile!Written(s) = Profile!Written(text)
<1> DEFINE f == [i \in Own(text) |-> Shift(a, m, c, i)]
<1>1. KeepsPlaces(s, text, a, m, c)
  BY ShiftedPlaces
<1>2. s \in Text
  BY DEF Spliced
<1>3. ASSUME NEW i \in Own(text) PROVE i \in Stays(text, a, c) /\ Shift(a, m, c, i) \in Own(s)
  <2>1. i \in 1..Len(text) /\ text[i] = "x" /\ i \notin InBlock(text)
    BY <1>3 DEF Own
  <2>2. i \in Stays(text, a, c)
    BY <1>1, <2>1 DEF KeepsPlaces
  <2>3. Shift(a, m, c, i) \in 1..Len(s) /\ s[Shift(a, m, c, i)] = "x"
    BY <1>1, <2>1, <2>2 DEF KeepsPlaces
  <2> QED
    BY <2>1, <2>2, <2>3 DEF Own
<1>4. ASSUME NEW k \in Own(s) PROVE \E i \in Own(text) : k = Shift(a, m, c, i)
  <2>1. k \in 1..Len(s) /\ s[k] = "x" /\ k \notin InBlock(s) /\ k \notin Fresh(a, m)
    BY <1>4 DEF Own
  <2>2. PICK i \in Stays(text, a, c) : k = Shift(a, m, c, i)
    BY <1>1, <2>1 DEF KeepsPlaces
  <2>3. i \in 1..Len(text) /\ text[i] = "x"
    BY <1>1, <2>1, <2>2 DEF KeepsPlaces
  <2>4. i \in Own(text)
    BY <2>1, <2>2, <2>3 DEF Own
  <2> QED
    BY <2>2, <2>4
<1>5. ASSUME NEW i \in Own(text), NEW j \in Own(text), Shift(a, m, c, i) = Shift(a, m, c, j) PROVE i = j
  BY <1>1, <1>3, <1>5 DEF KeepsPlaces
<1>6. f \in [Own(text) -> Own(s)]
  BY <1>3
<1>7. /\ \A i \in Own(text) : f[i] = Shift(a, m, c, i)
      /\ DOMAIN f = Own(text)
  OBVIOUS
<1> HIDE DEF f
<1>8. f \in Surjection(Own(text), Own(s))
  BY <1>4, <1>6, <1>7 DEF Surjection
<1>9. f \in Injection(Own(text), Own(s))
  BY <1>5, <1>6, <1>7 DEF Injection, IsInjective
<1>10. IsFiniteSet(Own(text))
  BY WrittenCountsOwn
<1>11. Cardinality(Own(s)) = Cardinality(Own(text))
  BY <1>8, <1>9, <1>10, FS_Surjection
<1> QED
  BY <1>2, <1>11, WrittenCountsOwn

-----------------------------------------------------------------------------
(***************************************************************************)
(* What a command leaves of a text.                                        *)
(***************************************************************************)

\* With Winter's block in it, and everything else as before.
Rebuilt(s, text) ==
  /\ s \in Text /\ Profile!BlockState(s, "winter") = "Present" /\ Profile!Intact(s)
  /\ OldFirst(s) /\ Profile!Written(s) = Profile!Written(text)

LEMMA FreshBlockRebuilds ==
  ASSUME NEW s, NEW text \in Text, NEW a, NEW m, NEW c, Spliced(s, text, a, m, c),
         NEW p, NEW n, FreshBlock(s, a, m, p, n), OldFirst(text),
         \A i \in Stays(text, a, c) : text[i] \notin Markers("winter")
                                      /\ i \notin Profile!Inside(text, "winter"),
         \A i \in (a + 1)..(c - 1) : text[i] \notin Markers("old")
                                     /\ i \in Profile!Inside(text, "winter"),
         \A b, e : BlockAt(text, "old", b, e) => e <= a
  PROVE  Rebuilt(s, text)
<1>1. KeepsPlaces(s, text, a, m, c)
  BY ShiftedPlaces
<1>2. s \in Text
  BY DEF Spliced
<1>3. /\ Profile!BlockState(s, "winter") = "Present" /\ Profile!Intact(s)
      /\ Profile!Inside(s, "winter") \subseteq Fresh(a, m)
  BY FreshBlockIsThere
<1>4. ASSUME NEW k \in Fresh(a, m) PROVE s[k] \in {"begin", "bodyLf", "bodyCrLf", "end", "cr", "lf"}
  <2>1. k \in (p + 1)..(p + 3) \/ s[k] \in LineEnds
    BY DEF FreshBlock
  <2>2. p \in Nat
    BY DEF FreshBlock
  <2>3. k \in (p + 1)..(p + 3) => k = p + 1 \/ k = p + 2 \/ k = p + 3
    BY <2>2
  <2> QED
    BY <2>1, <2>3 DEF FreshBlock, LineEnds
<1>5. Untouched(s, text, a, m, c, "oldbegin") /\ Untouched(s, text, a, m, c, "oldend")
  <2>1. \A k \in Fresh(a, m) : s[k] # "oldbegin" /\ s[k] # "oldend"
    BY <1>4
  <2>2. \A i \in (a + 1)..(c - 1) : text[i] # "oldbegin" /\ text[i] # "oldend"
    BY MarkersAre
  <2> QED
    BY <2>1, <2>2 DEF Untouched
<1>6. OldFirst(s)
  BY <1>5, OldFirstStays
<1>7. \A i \in Stays(text, a, c) : i \in Profile!Inside(text, "old") <=> Shift(a, m, c, i) \in Profile!Inside(s, "old")
  BY <1>5, BlockStays, MarkersAre
<1>8. \A i \in Stays(text, a, c) : Shift(a, m, c, i) \notin Fresh(a, m)
  BY SplicePlaces
<1>9. \A i \in Stays(text, a, c) : i \in InBlock(text) <=> Shift(a, m, c, i) \in InBlock(s)
  BY <1>3, <1>7, <1>8 DEF InBlock
<1>10. \A i \in (a + 1)..(c - 1) : text[i] = "x" => i \in InBlock(text)
  BY DEF InBlock
<1>11. Profile!Written(s) = Profile!Written(text)
  BY <1>4, <1>9, <1>10, WrittenStays
<1> QED
  BY <1>2, <1>3, <1>6, <1>11 DEF Rebuilt

LEMMA AddedRebuilds ==
  ASSUME NEW text \in Text, OldFirst(text), NoMarker(text, "winter")
  PROVE  Rebuilt(Profile!Added(text), text)
<1> DEFINE s == Profile!Added(text)
           L == Len(text)
<1>1. PICK m, p, n : Spliced(s, text, L, m, L + 1) /\ FreshBlock(s, L, m, p, n)
  BY AddedIsSplice
<1>2. Profile!Inside(text, "winter") = {}
  BY AbsentIsNoMarker
<1>3. L \in Nat
  BY DEF Text
<1>4. ASSUME NEW i \in Stays(text, L, L + 1)
      PROVE  text[i] \notin Markers("winter") /\ i \notin Profile!Inside(text, "winter")
  BY <1>2, <1>3 DEF Stays, NoMarker
<1>5. ASSUME NEW i \in (L + 1)..((L + 1) - 1)
      PROVE  text[i] \notin Markers("old") /\ i \in Profile!Inside(text, "winter")
  BY <1>3
<1>6. ASSUME NEW b, NEW e, BlockAt(text, "old", b, e) PROVE e <= L
  <2>1. e \in 1..Len(text)
    BY <1>6, BlockIsThere
  <2> QED
    BY <1>3, <2>1
<1> HIDE DEF s, L
<1>7. Rebuilt(s, text)
  BY <1>1, <1>4, <1>5, <1>6, FreshBlockRebuilds
<1> QED
  BY <1>7 DEF s

LEMMA RefreshedRebuilds ==
  ASSUME NEW text \in Text, OldFirst(text), NEW b, NEW e, BlockAt(text, "winter", b, e)
  PROVE  Rebuilt(Profile!Refreshed(text), text)
<1> DEFINE s == Profile!Refreshed(text)
<1>1. Spliced(s, text, b - 1, 3, e + 1) /\ FreshBlock(s, b - 1, 3, b - 1, Profile!Newline(text))
  BY RefreshedIsSplice
<1>2. /\ Profile!Inside(text, "winter") = b..e
      /\ b \in 1..Len(text) /\ e \in 1..Len(text) /\ b < e
  BY BlockIsThere
<1>3. Len(text) \in Nat
  BY DEF Text
<1>4. /\ text[b] \in Markers("winter")
      /\ \A i \in 1..Len(text) : text[i] \in Markers("winter") => i = b \/ i = e
  BY MarkersAre DEF BlockAt, OnlyAt
<1>5. ASSUME NEW o, NEW q, BlockAt(text, "old", o, q)
      PROVE  q <= b - 1 /\ \A i \in 1..Len(text) : text[i] \in Markers("old") => i <= q
  <2>1. o \in 1..Len(text) /\ q \in 1..Len(text) /\ o < q
    BY <1>5, BlockIsThere
  <2>2. \A i \in 1..Len(text) : text[i] \in Markers("old") => i = o \/ i = q
    BY <1>5, MarkersAre DEF BlockAt, OnlyAt
  <2>3. ~NoMarker(text, "old")
    <3>1. text[o] \in Markers("old")
      BY <1>5, MarkersAre DEF BlockAt, OnlyAt
    <3> QED
      BY <2>1, <3>1 DEF NoMarker
  <2>4. PICK o1, q1 : /\ BlockAt(text, "old", o1, q1)
                      /\ \A i \in 1..Len(text) : text[i] \in Markers("winter") => q1 < i
    BY <2>3 DEF OldFirst
  <2>5. q1 = q
    <3>1. OnlyAt(text, Profile!Finish("old"), q) /\ OnlyAt(text, Profile!Finish("old"), q1)
      BY <1>5, <2>4 DEF BlockAt
    <3> QED
      BY <3>1 DEF OnlyAt
  <2>6. q < b
    BY <1>2, <1>4, <2>4, <2>5
  <2> QED
    BY <1>2, <1>3, <2>1, <2>2, <2>6
<1>6. ASSUME NEW i \in Stays(text, b - 1, e + 1)
      PROVE  text[i] \notin Markers("winter") /\ i \notin Profile!Inside(text, "winter")
  <2>1. i \in 1..Len(text) /\ (i < b \/ e < i) /\ i \notin b..e /\ i # b /\ i # e
    BY <1>2, <1>3 DEF Stays
  <2> QED
    BY <1>2, <1>4, <2>1
<1>7. ASSUME NEW i \in ((b - 1) + 1)..((e + 1) - 1)
      PROVE  text[i] \notin Markers("old") /\ i \in Profile!Inside(text, "winter")
  <2>1. i \in b..e /\ i \in 1..Len(text)
    BY <1>2, <1>3
  <2>2. CASE NoMarker(text, "old")
    BY <1>2, <2>1, <2>2 DEF NoMarker
  <2>3. ASSUME NEW o, NEW q, BlockAt(text, "old", o, q) PROVE text[i] \notin Markers("old")
    <3>1. q <= b - 1 /\ (text[i] \in Markers("old") => i <= q)
      BY <1>5, <2>1, <2>3
    <3>2. q \in 1..Len(text)
      BY <2>3, BlockIsThere
    <3> QED
      BY <1>2, <2>1, <3>1, <3>2
  <2> QED
    BY <1>2, <2>1, <2>2, <2>3 DEF OldFirst
<1> HIDE DEF s
<1>8. Rebuilt(s, text)
  BY <1>1, <1>5, <1>6, <1>7, FreshBlockRebuilds
<1> QED
  BY <1>8 DEF s

LEMMA EmptyText ==
  /\ <<>> \in Text /\ Len(<<>>) = 0 /\ OldFirst(<<>>) /\ Profile!Written(<<>>) = 0
  /\ \A brand : NoMarker(<<>>, brand)
<1>1. <<>> \in Text /\ Len(<<>>) = 0 /\ 1..Len(<<>>) = {}
  BY DEF Text
<1>2. \A brand : NoMarker(<<>>, brand)
  BY <1>1 DEF NoMarker
<1>3. OldFirst(<<>>)
  BY <1>2 DEF OldFirst
<1>4. Own(<<>>) = {}
  BY <1>1 DEF Own
<1> QED
  BY <1>1, <1>2, <1>3, <1>4, WrittenCountsOwn, FS_EmptySet

LEMMA CrLfIs ==
  IsNewline(Profile!CrLf) /\ Len(Profile!CrLf) = 2
<1>2. /\ <<"cr", "lf">> \in Text /\ Len(<<"cr", "lf">>) = 2
      /\ <<"cr", "lf">>[1] = "cr" /\ <<"cr", "lf">>[2] = "lf"
  BY DEF Text, Profile!Token
<1>3. \A i \in 1..2 : i = 1 \/ i = 2
  OBVIOUS
<1> QED
  BY <1>2, <1>3 DEF IsNewline, Profile!CrLf, LineEnds

\* A profile install creates holds the block and nothing of the user's.
LEMMA CreatedIs ==
  Rebuilt(Profile!Added(None), <<>>)
<1> DEFINE n == Profile!CrLf
           mb == Profile!ManagedBlock(n)
           mid == mb \o n
           s == Profile!Added(None)
<1>1. IsNewline(n) /\ Len(n) = 2 /\ n \in Text
  BY CrLfIs DEF IsNewline
<1>2. mb \in Text /\ Len(mb) = 3 /\ mb[1] = "begin" /\ mb[2] \in {"bodyLf", "bodyCrLf"} /\ mb[3] = "end"
  BY ManagedBlockIs
<1>3. <<>> \in Text /\ Len(<<>>) = 0 /\ \A i \in 1..Len(<<>>) : <<>>[i] \in LineEnds
  BY EmptyText
<1>5. s = mid
  BY DEF Profile!Added
<1> HIDE DEF n, mb
<1>6. /\ mid \in Text /\ Len(mid) = Len(mb) + Len(n)
      /\ \A i \in 1..(Len(mb) + Len(n)) : mid[i] = IF i <= Len(mb) THEN mb[i] ELSE n[i - Len(mb)]
  BY <1>1, <1>2, TextsJoin
<1> HIDE DEF mid
<1>7. Len(mid) = 5 /\ (\A j \in 1..3 : mid[j] = mb[j]) /\ \A k \in 1..5 : k \in 1..3 \/ mid[k] \in LineEnds
  <2>1. Len(mid) = 5
    BY <1>1, <1>2, <1>6
  <2>2. \A i \in 1..5 : mid[i] = IF i <= 3 THEN mb[i] ELSE n[i - 3]
    BY <1>1, <1>2, <1>6
  <2>3. \A j \in 1..3 : mid[j] = mb[j]
    BY <2>2
  <2>4. ASSUME NEW k \in 1..5, k \notin 1..3 PROVE mid[k] \in LineEnds
    <3>1. k - 3 \in 1..2 /\ ~(k <= 3)
      BY <2>4
    <3> QED
      BY <1>1, <2>2, <3>1 DEF IsNewline
  <2> QED
    BY <2>1, <2>3, <2>4
<1>8. mid = (SubSeq(<<>>, 1, 0) \o mid) \o SubSeq(<<>>, 1, Len(<<>>))
  <2>1. SubSeq(<<>>, 1, 0) = <<>> /\ SubSeq(<<>>, 1, Len(<<>>)) = <<>>
    BY <1>3, SubSeqEmpty
  <2>2. <<>> \o mid = mid /\ mid \o <<>> = mid
    BY <1>6, ConcatEmptySeq DEF Text
  <2> QED
    BY <2>1, <2>2
<1>9. Spliced((SubSeq(<<>>, 1, 0) \o mid) \o SubSeq(<<>>, 1, Len(<<>>)), <<>>, 0, Len(mid), 1)
  <2>1. 0 \in 0..Len(<<>>) /\ 1 \in (0 + 1)..(Len(<<>>) + 1)
    BY <1>3
  <2> QED
    BY <1>3, <1>6, <2>1, ConcatIsSplice
<1>10. Spliced(s, <<>>, 0, 5, 1)
  BY <1>5, <1>7, <1>8, <1>9
<1>11. FreshBlock(mid, 0, 5, 0, n)
  <2>1. \A j \in 1..3 : mid[0 + j] = mb[j]
    BY <1>7
  <2>2. mid[0 + 1] = "begin" /\ mid[0 + 2] \in {"bodyLf", "bodyCrLf"} /\ mid[0 + 3] = "end"
    BY <1>2, <1>7
  <2>3. \A k \in Fresh(0, 5) : k \in (0 + 1)..(0 + 3) \/ mid[k] \in LineEnds
    BY <1>7 DEF Fresh
  <2> QED
    BY <2>1, <2>2, <2>3 DEF FreshBlock, mb
<1>12. \A i \in Stays(<<>>, 0, 1) : FALSE
  BY <1>3 DEF Stays
<1>13. \A b, e : ~BlockAt(<<>>, "old", b, e)
  BY <1>3, BlockIsThere
<1>14. \A i \in (0 + 1)..(1 - 1) : FALSE
  OBVIOUS
<1> HIDE DEF s
<1>15. FreshBlock(s, 0, 5, 0, n)
  BY <1>5, <1>11
<1>16. Rebuilt(s, <<>>)
  BY <1>3, <1>10, <1>12, <1>13, <1>14, <1>15, EmptyText, FreshBlockRebuilds
<1> QED
  BY <1>16 DEF s

-----------------------------------------------------------------------------
\* Without one brand's block, and everything else as before.
CutOut(s, text, brand) ==
  /\ s \in Text /\ Profile!BlockState(s, brand) = "Absent"
  /\ OldFirst(s) /\ Profile!Written(s) = Profile!Written(text)

Other(brand) == IF brand = "winter" THEN "old" ELSE "winter"

LEMMA OtherBrands ==
  ASSUME NEW brand \in Brands
  PROVE  /\ Other(brand) \in Brands /\ Markers(brand) \cap Markers(Other(brand)) = {}
         /\ Brands = {brand, Other(brand)}
         /\ \A o \in Brands : Markers(o) \cap LineEnds = {} /\ Markers(o) = {Profile!Begin(o), Profile!Finish(o)}
BY MarkersAre DEF Brands, Other, LineEnds, Markers

\* When the old block comes first and is whole, it and Winter's do not overlap.
LEMMA BlocksApart ==
  ASSUME NEW text \in Text, OldFirst(text), NEW b, NEW e, BlockAt(text, "old", b, e)
  PROVE  \A i \in 1..Len(text) : text[i] \in Markers("winter") => e < i
<1>1. b \in 1..Len(text) /\ e \in 1..Len(text) /\ text[b] \in Markers("old")
  BY BlockIsThere, MarkersAre DEF BlockAt, OnlyAt
<1>2. ~NoMarker(text, "old")
  BY <1>1 DEF NoMarker
<1>3. PICK b1, e1 : /\ BlockAt(text, "old", b1, e1)
                    /\ \A i \in 1..Len(text) : text[i] \in Markers("winter") => e1 < i
  BY <1>2 DEF OldFirst
<1>4. e1 = e
  BY <1>3, MarkersAre DEF BlockAt, OnlyAt
<1> QED
  BY <1>3, <1>4

\* What stands in one block is no marker of the other.
LEMMA NoMarkerInside ==
  ASSUME NEW text \in Text, OldFirst(text), NEW brand \in Brands, NEW b, NEW e, BlockAt(text, brand, b, e)
  PROVE  \A i \in b..e : text[i] \notin Markers(Other(brand))
<1>1. b \in 1..Len(text) /\ e \in 1..Len(text) /\ b < e /\ Len(text) \in Nat
  BY BlockIsThere DEF Text
<1> SUFFICES ASSUME NEW i \in b..e, text[i] \in Markers(Other(brand)) PROVE FALSE
  OBVIOUS
<1>2. i \in 1..Len(text)
  BY <1>1
<1>3. CASE brand = "old"
  <2>1. e < i
    BY <1>2, <1>3, BlocksApart DEF Other
  <2> QED
    BY <1>1, <1>2, <2>1
<1>4. CASE brand = "winter"
  <2>1. text[i] \in Markers("old") /\ ~NoMarker(text, "old")
    BY <1>2, <1>4 DEF NoMarker, Other
  <2>2. PICK b1, e1 : /\ BlockAt(text, "old", b1, e1)
                      /\ \A j \in 1..Len(text) : text[j] \in Markers("winter") => e1 < j
    BY <2>1 DEF OldFirst
  <2>3. i = b1 \/ i = e1
    BY <1>2, <2>1, <2>2, MarkersAre DEF BlockAt, OnlyAt
  <2>4. e1 < b
    BY <1>1, <1>4, <2>2, MarkersAre DEF BlockAt, OnlyAt
  <2>5. b1 < e1 /\ b1 \in 1..Len(text) /\ e1 \in 1..Len(text)
    BY <2>2, BlockIsThere
  <2> QED
    BY <1>1, <2>3, <2>4, <2>5
<1> QED
  BY <1>3, <1>4 DEF Brands

\* Where a removal cuts, and that it leaves the other brand's markers alone.
CutAt(s, text, brand, b, e, a, c) ==
  /\ a \in 0..(b - 1) /\ c \in (e + 1)..(Len(text) + 1)
  /\ Spliced(s, text, a, 0, c)
  /\ \A i \in (a + 1)..(c - 1) : i \in b..e \/ text[i] \in LineEnds
  /\ Untouched(s, text, a, 0, c, Profile!Begin(Other(brand)))
  /\ Untouched(s, text, a, 0, c, Profile!Finish(Other(brand)))

LEMMA CutPlaces ==
  ASSUME NEW text \in Text, OldFirst(text), NEW brand \in Brands, NEW b, NEW e, BlockAt(text, brand, b, e)
  PROVE  \E a, c : CutAt(Profile!Cut(text, brand), text, brand, b, e, a, c)
<1> DEFINE s == Profile!Cut(text, brand)
           o == Other(brand)
<1>1. b \in 1..Len(text) /\ e \in 1..Len(text) /\ b < e /\ Len(text) \in Nat
  BY BlockIsThere DEF Text
<1>2. PICK a \in 0..(b - 1), c \in (e + 1)..(Len(text) + 1) :
           /\ Spliced(s, text, a, 0, c)
           /\ \A i \in (a + 1)..(b - 1) : text[i] \in LineEnds
           /\ \A i \in (e + 1)..(c - 1) : text[i] \in LineEnds
  BY CutIsSplice
<1> HIDE DEF s
<1>3. ASSUME NEW i \in (a + 1)..(c - 1) PROVE i \in b..e \/ text[i] \in LineEnds
  <2>1. i \in (a + 1)..(b - 1) \/ i \in b..e \/ i \in (e + 1)..(c - 1)
    BY <1>1
  <2> QED
    BY <1>2, <2>1
<1>4. ASSUME NEW i \in (a + 1)..(c - 1) PROVE text[i] \notin Markers(o)
  <2>1. CASE i \in b..e
    BY <2>1, NoMarkerInside
  <2>2. CASE text[i] \in LineEnds
    <3>1. o \in Brands /\ Markers(o) \cap LineEnds = {}
      BY OtherBrands
    <3> QED
      BY <2>2, <3>1
  <2> QED
    BY <1>3, <2>1, <2>2
<1>5. Fresh(a, 0) = {}
  BY <1>1 DEF Fresh
<1>6. /\ Untouched(s, text, a, 0, c, Profile!Begin(o))
      /\ Untouched(s, text, a, 0, c, Profile!Finish(o))
  BY <1>4, <1>5 DEF Untouched, Markers
<1> QED
  BY <1>2, <1>3, <1>6 DEF CutAt, s

LEMMA CutEffect ==
  ASSUME NEW text \in Text, OldFirst(text), NEW brand \in Brands, NEW b, NEW e, BlockAt(text, brand, b, e)
  PROVE  CutOut(Profile!Cut(text, brand), text, brand)
<1> DEFINE s == Profile!Cut(text, brand)
           o == Other(brand)
<1>1. /\ b \in 1..Len(text) /\ e \in 1..Len(text) /\ b < e /\ Len(text) \in Nat
      /\ Profile!Inside(text, brand) = b..e
  BY BlockIsThere DEF Text
<1>2. PICK a, c : CutAt(s, text, brand, b, e, a, c)
  BY CutPlaces
<1> HIDE DEF s
<1>3. Spliced(s, text, a, 0, c) /\ s \in Text /\ Fresh(a, 0) = {} /\ a < b /\ e < c /\ a \in Nat /\ c \in Nat
  BY <1>1, <1>2 DEF CutAt, Spliced, Fresh
<1>4. ASSUME NEW i \in Stays(text, a, c) PROVE i \notin b..e /\ text[i] \notin Markers(brand)
  <2>1. i \in 1..Len(text) /\ i \notin b..e /\ i # b /\ i # e
    BY <1>1, <1>3, <1>4 DEF Stays
  <2>2. text[i] \in Markers(brand) => i = b \/ i = e
    BY <2>1 DEF Markers, BlockAt, OnlyAt
  <2> QED
    BY <2>1, <2>2
<1>5. NoMarker(s, brand)
  <2>1. \A k \in Fresh(a, 0) : s[k] \notin Markers(brand)
    BY <1>3
  <2> QED
    BY <1>3, <1>4, <2>1, NoMarkerStays
<1>6. Profile!BlockState(s, brand) = "Absent" /\ Profile!Inside(s, brand) = {}
  BY <1>3, <1>5, AbsentIsNoMarker
<1>7. OldFirst(s)
  <2>1. CASE brand = "old"
    BY <1>5, <2>1 DEF OldFirst
  <2>2. CASE brand = "winter"
    <3>1. Untouched(s, text, a, 0, c, "oldbegin") /\ Untouched(s, text, a, 0, c, "oldend")
      BY <1>2, <2>2, MarkersAre DEF CutAt, Other
    <3>2. \A k \in Fresh(a, 0) : FALSE
      BY <1>3
    <3> QED
      BY <1>3, <3>1, <3>2, OldFirstStays
  <2> QED
    BY <2>1, <2>2 DEF Brands
<1>8. \A i \in Stays(text, a, c) :
          i \in Profile!Inside(text, o) <=> Shift(a, 0, c, i) \in Profile!Inside(s, o)
  BY <1>2, <1>3, BlockStays DEF CutAt
<1>8a. Brands = {brand, o}
  BY OtherBrands
<1>9. \A t : InBlock(t) = Profile!Inside(t, brand) \cup Profile!Inside(t, o)
  BY <1>8a DEF InBlock, Brands, Other
<1>10. Profile!Written(s) = Profile!Written(text)
  <2>1. \A k \in Fresh(a, 0) : s[k] # "x"
    BY <1>3
  <2>2. \A i \in (a + 1)..(c - 1) : text[i] = "x" => i \in InBlock(text)
    BY <1>1, <1>2, <1>9 DEF CutAt, LineEnds
  <2>3. \A i \in Stays(text, a, c) : i \in InBlock(text) <=> Shift(a, 0, c, i) \in InBlock(s)
    BY <1>1, <1>4, <1>6, <1>8, <1>9
  <2> QED
    BY <1>3, <2>1, <2>2, <2>3, WrittenStays
<1>11. CutOut(s, text, brand)
  BY <1>3, <1>6, <1>7, <1>10 DEF CutOut
<1> QED
  BY <1>11 DEF s

\* The sweep of the old block takes nothing of Winter's.
LEMMA SweepLeavesBlock ==
  ASSUME NEW text \in Text, OldFirst(text), NEW b, NEW e, BlockAt(text, "old", b, e),
         Profile!Located(text, "winter")
  PROVE  LET s == Profile!Cut(text, "old") IN
         Profile!Located(s, "winter") /\ Profile!Block(s, "winter") = Profile!Block(text, "winter")
<1> DEFINE s == Profile!Cut(text, "old")
<1>1. b \in 1..Len(text) /\ e \in 1..Len(text) /\ b < e /\ Len(text) \in Nat
  BY BlockIsThere DEF Text
<1>2. PICK a, c : CutAt(s, text, "old", b, e, a, c)
  <2>1. "old" \in Brands
    BY DEF Brands
  <2> QED
    BY <2>1, CutPlaces
<1> HIDE DEF s
<1>3. Spliced(s, text, a, 0, c) /\ s \in Text /\ a < b /\ e < c /\ a \in Nat /\ c \in Nat
  BY <1>1, <1>2 DEF CutAt, Spliced
<1>4. PICK p, q : BlockAt(text, "winter", p, q)
  BY LocatedIsBlock
<1>5. /\ p \in 1..Len(text) /\ q \in 1..Len(text) /\ p < q
      /\ Profile!Start(text, "winter") = p /\ Profile!Stop(text, "winter") = q
  BY <1>4, BlockIsThere
<1>6. e < p
  <2>1. text[p] \in Markers("winter")
    BY <1>4, MarkersAre DEF BlockAt, OnlyAt
  <2> QED
    BY <1>5, <2>1, BlocksApart
<1>7. /\ Untouched(s, text, a, 0, c, Profile!Begin("winter"))
      /\ Untouched(s, text, a, 0, c, Profile!Finish("winter"))
  BY <1>2 DEF CutAt, Other
<1>8. p \in Stays(text, a, c) /\ BlockAt(s, "winter", Shift(a, 0, c, p), Shift(a, 0, c, q))
  BY <1>3, <1>4, <1>7, BlockStays
<1>9. c <= p
  BY <1>1, <1>3, <1>5, <1>6, <1>8 DEF Stays
<1> DEFINE d == a + 0 + 1 - c
           p1 == p + d
           q1 == q + d
<1>10. Shift(a, 0, c, p) = p1 /\ Shift(a, 0, c, q) = q1 /\ d \in Int
  BY <1>1, <1>3, <1>5, <1>9 DEF Shift
<1>11. /\ Profile!Located(s, "winter") /\ p1 \in 1..Len(s) /\ q1 \in 1..Len(s) /\ p1 < q1
       /\ Profile!Start(s, "winter") = p1 /\ Profile!Stop(s, "winter") = q1
  BY <1>3, <1>8, <1>10, BlockIsThere
<1>12. \A i \in c..Len(text) : s[i + d] = text[i]
  BY <1>3 DEF Spliced
<1> DEFINE t == SubSeq(text, p, q)
<1>13. t \in Text /\ Len(t) = q - p + 1 /\ \A k \in 1..(q - p + 1) : t[k] = text[p + k - 1]
  <2>1. \A k \in p..q : text[k] \in Profile!Token
    BY <1>5 DEF Text
  <2>2. /\ t \in Seq(Profile!Token)
        /\ Len(t) = IF p <= q THEN q - p + 1 ELSE 0
        /\ \A k \in 1..(q - p + 1) : t[k] = text[p + k - 1]
    BY <1>5, <2>1, SubSeqProperties
  <2> HIDE DEF t
  <2> QED
    BY <1>5, <2>2 DEF Text
<1> HIDE DEF t, d
<1>14. \A k \in 1..Len(t) : s[p1 + k - 1] = t[k]
  <2> SUFFICES ASSUME NEW k \in 1..Len(t) PROVE s[p1 + k - 1] = t[k]
    OBVIOUS
  <2>1. p + k - 1 \in c..Len(text) /\ p1 + k - 1 = (p + k - 1) + d /\ k \in 1..(q - p + 1)
    BY <1>1, <1>3, <1>5, <1>9, <1>10, <1>13
  <2> QED
    BY <1>12, <1>13, <2>1
<1>15. Len(t) = q1 - p1 + 1 /\ p1 <= q1
  BY <1>5, <1>10, <1>11, <1>13
<1>16. SubSeq(s, p1, q1) = t
  BY <1>3, <1>11, <1>13, <1>14, <1>15, StretchIs
<1> QED
  BY <1>5, <1>11, <1>16 DEF Profile!Block, t, s

-----------------------------------------------------------------------------
(***************************************************************************)
(* What the user makes of a text.                                          *)
(***************************************************************************)

\* A splice that brings no marker and takes none of the old block's leaves that block first.
LEMMA SpliceKeepsOldFirst ==
  ASSUME NEW s, NEW text \in Text, NEW a, NEW m, NEW c, Spliced(s, text, a, m, c), OldFirst(text),
         \A k \in Fresh(a, m) : s[k] \notin Markers("old") /\ (a = Len(text) \/ s[k] \notin Markers("winter")),
         \A i \in (a + 1)..(c - 1) : text[i] \notin Markers("old")
  PROVE  s \in Text /\ OldFirst(s)
<1>1. Untouched(s, text, a, m, c, "oldbegin") /\ Untouched(s, text, a, m, c, "oldend")
  BY MarkersAre DEF Untouched
<1>2. ASSUME NEW b, NEW e, BlockAt(text, "old", b, e), NEW k \in Fresh(a, m), s[k] \in Markers("winter")
      PROVE  e <= a
  <2>1. a = Len(text) /\ e \in 1..Len(text)
    BY <1>2, BlockIsThere
  <2> QED
    BY <2>1
<1>3. OldFirst(s)
  BY <1>1, <1>2, OldFirstStays
<1> QED
  BY <1>3 DEF Spliced

LEMMA SingleText ==
  ASSUME NEW token \in Profile!Token
  PROVE  <<token>> \in Text /\ Len(<<token>>) = 1 /\ <<token>>[1] = token
BY DEF Text

LEMMA InsertKeeps ==
  ASSUME NEW text \in Text, OldFirst(text), NEW i \in 1..(Len(text) + 1)
  PROVE  LET s == Profile!InsertAt(text, i, "x") IN s \in Text /\ OldFirst(s)
<1> DEFINE s == (SubSeq(text, 1, i - 1) \o <<"x">>) \o SubSeq(text, i, Len(text))
<1>1. Profile!InsertAt(text, i, "x") = s
  BY DEF Profile!InsertAt
<1>2. Len(text) \in Nat /\ i - 1 \in 0..Len(text) /\ i \in ((i - 1) + 1)..(Len(text) + 1)
  BY DEF Text
<1>3. <<"x">> \in Text /\ Len(<<"x">>) = 1 /\ <<"x">>[1] = "x"
  BY SingleText DEF Profile!Token
<1>4. Spliced(s, text, i - 1, Len(<<"x">>), i) /\ \A j \in 1..Len(<<"x">>) : s[(i - 1) + j] = <<"x">>[j]
  BY <1>2, <1>3, ConcatIsSplice
<1> HIDE DEF s
<1>5. Spliced(s, text, i - 1, 1, i) /\ s[(i - 1) + 1] = "x"
  BY <1>3, <1>4
<1>6. ASSUME NEW k \in Fresh(i - 1, 1) PROVE s[k] \notin Markers("old") /\ s[k] \notin Markers("winter")
  <2>1. k = (i - 1) + 1
    BY <1>2 DEF Fresh
  <2> QED
    BY <1>5, <2>1, MarkersAre
<1>7. \A k \in ((i - 1) + 1)..(i - 1) : FALSE
  OBVIOUS
<1> QED
  BY <1>1, <1>5, <1>6, <1>7, SpliceKeepsOldFirst

LEMMA RemoveKeeps ==
  ASSUME NEW text \in Text, OldFirst(text), NEW i \in DOMAIN text, text[i] \in {"begin", "end"}
  PROVE  LET s == Profile!RemoveAt(text, i) IN s \in Text /\ OldFirst(s)
<1> DEFINE s == (SubSeq(text, 1, i - 1) \o <<>>) \o SubSeq(text, i + 1, Len(text))
<1>1. Len(text) \in Nat /\ i \in 1..Len(text) /\ i - 1 \in 0..Len(text) /\ i + 1 \in ((i - 1) + 1)..(Len(text) + 1)
  BY DEF Text
<1>2. SubSeq(text, 1, i - 1) \o <<>> = SubSeq(text, 1, i - 1)
  <2>1. SubSeq(text, 1, i - 1) \in Seq(Profile!Token)
    BY <1>1, PrefixIs DEF Text
  <2> QED
    BY <2>1, ConcatEmptySeq
<1>3. Profile!RemoveAt(text, i) = s
  BY <1>2 DEF Profile!RemoveAt
<1>4. Spliced(s, text, i - 1, Len(<<>>), i + 1)
  BY <1>1, EmptyText, ConcatIsSplice
<1> HIDE DEF s
<1>5. Spliced(s, text, i - 1, 0, i + 1)
  BY <1>4, EmptyText
<1>6. \A k \in Fresh(i - 1, 0) : FALSE
  BY <1>1 DEF Fresh
<1>7. ASSUME NEW k \in ((i - 1) + 1)..((i + 1) - 1) PROVE text[k] \notin Markers("old")
  <2>1. k = i
    BY <1>1
  <2> QED
    BY <2>1, MarkersAre
<1> QED
  BY <1>3, <1>5, <1>6, <1>7, SpliceKeepsOldFirst

LEMMA AppendKeeps ==
  ASSUME NEW text \in Text, OldFirst(text), NEW n
  PROVE  LET s == text \o Profile!ManagedBlock(n) IN s \in Text /\ OldFirst(s)
<1> DEFINE mb == Profile!ManagedBlock(n)
           L == Len(text)
           s == (SubSeq(text, 1, L) \o mb) \o SubSeq(text, L + 1, Len(text))
<1>1. mb \in Text /\ Len(mb) = 3 /\ mb[1] = "begin" /\ mb[2] \in {"bodyLf", "bodyCrLf"} /\ mb[3] = "end"
  BY ManagedBlockIs
<1> HIDE DEF mb
<1>2. L \in Nat /\ L \in 0..Len(text) /\ L + 1 \in (L + 1)..(Len(text) + 1)
  BY DEF Text
<1>3. text \o mb = s
  <2>1. SubSeq(text, 1, L) = text /\ SubSeq(text, L + 1, Len(text)) = <<>>
    BY <1>2, SubSeqFull, SubSeqEmpty DEF Text
  <2>2. (text \o mb) \o <<>> = text \o mb
    <3>1. text \o mb \in Seq(Profile!Token)
      BY <1>1, TextsJoin DEF Text
    <3> QED
      BY <3>1, ConcatEmptySeq
  <2> QED
    BY <2>1, <2>2
<1>4. Spliced(s, text, L, Len(mb), L + 1) /\ \A j \in 1..Len(mb) : s[L + j] = mb[j]
  BY <1>1, <1>2, ConcatIsSplice
<1> HIDE DEF s
<1>5. Spliced(s, text, L, 3, L + 1) /\ \A j \in 1..3 : s[L + j] = mb[j]
  BY <1>1, <1>4
<1>6. ASSUME NEW k \in Fresh(L, 3) PROVE s[k] \notin Markers("old")
  <2>1. k - L \in 1..3 /\ k = L + (k - L)
    BY <1>2 DEF Fresh
  <2>2. s[k] = mb[k - L]
    BY <1>5, <2>1
  <2>3. k - L = 1 \/ k - L = 2 \/ k - L = 3
    BY <2>1
  <2> QED
    BY <1>1, <2>2, <2>3, MarkersAre
<1>7. \A k \in (L + 1)..((L + 1) - 1) : FALSE
  BY <1>2
<1>8. s \in Text /\ OldFirst(s)
  BY <1>5, <1>6, <1>7, SpliceKeepsOldFirst
<1> QED
  BY <1>3, <1>8 DEF mb

LEMMA RewriteKeeps ==
  ASSUME NEW text \in Text, OldFirst(text), NEW i \in DOMAIN text, text[i] \in {"bodyLf", "bodyCrLf"}
  PROVE  LET s == [text EXCEPT ![i] = "edited"] IN s \in Text /\ OldFirst(s)
<1> DEFINE s == [text EXCEPT ![i] = "edited"]
<1>1. Len(text) \in Nat /\ i \in 1..Len(text)
  BY DEF Text
<1>2. s \in Text /\ Len(s) = Len(text) /\ s[i] = "edited" /\ \A k \in 1..Len(text) : k # i => s[k] = text[k]
  <2>1. "edited" \in Profile!Token
    BY DEF Profile!Token
  <2> QED
    BY <1>1, <2>1 DEF Text
<1> HIDE DEF s
<1>3. Spliced(s, text, i - 1, 1, i + 1)
  <2>1. \A k \in 1..(i - 1) : s[k] = text[k]
    BY <1>1, <1>2
  <2>2. \A k \in (i + 1)..Len(text) : s[k + ((i - 1) + 1 + 1 - (i + 1))] = text[k]
    BY <1>1, <1>2
  <2>3. i - 1 \in 0..Len(text) /\ i + 1 \in ((i - 1) + 1)..(Len(text) + 1)
    BY <1>1
  <2>4. Len(text) = ((i - 1) + 1) + (Len(text) + 1 - (i + 1))
    BY <1>1
  <2>5. Len(s) = ((i - 1) + 1) + (Len(text) + 1 - (i + 1))
    BY <1>2, <2>4
  <2> QED
    BY <1>2, <2>1, <2>2, <2>3, <2>5 DEF Spliced
<1>4. ASSUME NEW k \in Fresh(i - 1, 1) PROVE s[k] \notin Markers("old") /\ s[k] \notin Markers("winter")
  <2>1. k = i
    BY <1>1 DEF Fresh
  <2> QED
    BY <1>2, <2>1, MarkersAre
<1>5. ASSUME NEW k \in ((i - 1) + 1)..((i + 1) - 1) PROVE text[k] \notin Markers("old")
  <2>1. k = i
    BY <1>1
  <2> QED
    BY <2>1, MarkersAre
<1>6. s \in Text /\ OldFirst(s)
  BY <1>3, <1>4, <1>5, SpliceKeepsOldFirst
<1> QED
  BY <1>6 DEF s

\* Normalizing moves no marker past another.
LEMMA MarkersKept ==
  ASSUME NEW text \in Text, NEW f, From(text, f), NEW token \in Markers("winter") \cup Markers("old")
  PROVE  LET s == Profile!Normalized(text) IN
         /\ \A k \in 1..Len(s) : f[k] \in 1..Len(text) /\ (s[k] = token => text[f[k]] = token)
         /\ \A i \in 1..Len(text) : text[i] = token => \E k \in 1..Len(s) : f[k] = i /\ s[k] = token
<1> DEFINE s == Profile!Normalized(text)
<1>1. token \in {"begin", "end", "oldbegin", "oldend"}
  BY MarkersAre
<1>2. DOMAIN text = 1..Len(text)
  BY DEF Text
<1>3. /\ f \in [1..Len(s) -> Profile!Counted(text)] /\ DOMAIN f = 1..Len(s)
      /\ \A i \in Profile!Counted(text) : \E k \in 1..Len(s) : f[k] = i
      /\ \A k \in 1..Len(s) : s[k] = Profile!Plain(text[f[k]])
  BY DEF From
<1> HIDE DEF s
<1>4. \A x : Profile!Plain(x) = token => x = token
  BY <1>1 DEF Profile!Plain
<1>5. Profile!Plain(token) = token
  BY <1>1 DEF Profile!Plain
<1>6. \A i \in 1..Len(text) : text[i] = token => i \in Profile!Counted(text)
  BY <1>1, <1>2 DEF Profile!Counted
<1>7. ASSUME NEW k \in 1..Len(s) PROVE f[k] \in 1..Len(text) /\ (s[k] = token => text[f[k]] = token)
  <2>1. f[k] \in Profile!Counted(text) /\ s[k] = Profile!Plain(text[f[k]])
    BY <1>3
  <2> QED
    BY <1>2, <1>4, <2>1 DEF Profile!Counted
<1>8. ASSUME NEW i \in 1..Len(text), text[i] = token PROVE \E k \in 1..Len(s) : f[k] = i /\ s[k] = token
  <2>1. i \in Profile!Counted(text)
    BY <1>6, <1>8
  <2>2. PICK k \in 1..Len(s) : f[k] = i
    BY <1>3, <2>1
  <2>3. s[k] = token
    BY <1>3, <1>5, <1>8, <2>2
  <2> QED
    BY <2>2, <2>3
<1> QED
  BY <1>7, <1>8 DEF s

LEMMA NormalizedKeepsOldFirst ==
  ASSUME NEW text \in Text, OldFirst(text)
  PROVE  Profile!Normalized(text) \in Text /\ OldFirst(Profile!Normalized(text))
<1> DEFINE s == Profile!Normalized(text)
           All == Markers("winter") \cup Markers("old")
<1>1. s \in Text /\ \E f : From(text, f)
  BY NormalizedKeepsOrder
<1>2. PICK f : From(text, f)
  BY <1>1
<1>3. \A token \in All : \A k \in 1..Len(s) : f[k] \in 1..Len(text) /\ (s[k] = token => text[f[k]] = token)
  BY <1>2, MarkersKept
<1>4. \A token \in All : \A i \in 1..Len(text) : text[i] = token => \E k \in 1..Len(s) : f[k] = i /\ s[k] = token
  BY <1>2, MarkersKept
<1>5. \A k, l \in 1..Len(s) : k < l => f[k] < f[l]
  BY <1>2 DEF From
<1> HIDE DEF s
<1>6. Len(s) \in Nat /\ Len(text) \in Nat
  BY <1>1 DEF Text
<1>7. \A k \in 1..Len(s) : f[k] \in 1..Len(text)
  BY <1>3, MarkersAre
<1>8. ASSUME NEW k \in 1..Len(s), NEW l \in 1..Len(s) PROVE (k < l <=> f[k] < f[l]) /\ (f[k] = f[l] => k = l)
  <2>1. f[k] \in Int /\ f[l] \in Int /\ (k < l => f[k] < f[l]) /\ (l < k => f[l] < f[k])
    BY <1>5, <1>6, <1>7
  <2>2. k < l \/ l < k \/ k = l
    BY <1>6
  <2> QED
    BY <2>1, <2>2
<1>9. ASSUME NoMarker(text, "old") PROVE OldFirst(s)
  <2>1. ASSUME NEW k \in 1..Len(s), s[k] \in Markers("old") PROVE FALSE
    <3>1. f[k] \in 1..Len(text) /\ text[f[k]] = s[k]
      BY <1>3, <2>1
    <3> QED
      BY <1>9, <2>1, <3>1 DEF NoMarker
  <2> QED
    BY <2>1 DEF NoMarker, OldFirst
<1>10. ASSUME NEW b, NEW e, BlockAt(text, "old", b, e),
              \A i \in 1..Len(text) : text[i] \in Markers("winter") => e < i
       PROVE  OldFirst(s)
  <2>1. ASSUME NEW token \in Markers("old"), NEW p, OnlyAt(text, token, p)
        PROVE  \E k \in 1..Len(s) : f[k] = p /\ OnlyAt(s, token, k)
    <3>1. p \in 1..Len(text) /\ text[p] = token /\ \A i \in 1..Len(text) : text[i] = token => i = p
      BY <2>1 DEF OnlyAt
    <3>2. PICK k \in 1..Len(s) : f[k] = p /\ s[k] = token
      BY <1>4, <3>1
    <3>3. ASSUME NEW l \in 1..Len(s), s[l] = token PROVE l = k
      <4>1. text[f[l]] = token /\ f[l] \in 1..Len(text)
        BY <1>3, <3>3
      <4>2. f[l] = f[k]
        BY <3>1, <3>2, <4>1
      <4> QED
        BY <1>8, <4>2
    <3> QED
      BY <3>2, <3>3 DEF OnlyAt
  <2>2. PICK kb \in 1..Len(s) : f[kb] = b /\ OnlyAt(s, "oldbegin", kb)
    BY <1>10, <2>1, MarkersAre DEF BlockAt
  <2>3. PICK ke \in 1..Len(s) : f[ke] = e /\ OnlyAt(s, "oldend", ke)
    BY <1>10, <2>1, MarkersAre DEF BlockAt
  <2>4. kb < ke
    <3>1. b < e
      BY <1>10 DEF BlockAt
    <3> QED
      BY <1>8, <2>2, <2>3, <3>1
  <2>5. BlockAt(s, "old", kb, ke)
    BY <2>2, <2>3, <2>4, MarkersAre DEF BlockAt
  <2>6. ASSUME NEW k \in 1..Len(s), s[k] \in Markers("winter") PROVE ke < k
    <3>1. f[k] \in 1..Len(text) /\ text[f[k]] = s[k]
      BY <1>3, <2>6
    <3>2. e < f[k]
      BY <1>10, <2>6, <3>1
    <3> QED
      BY <1>8, <2>3, <3>2
  <2> QED
    BY <2>5, <2>6 DEF OldFirst
<1>11. OldFirst(s)
  BY <1>9, <1>10 DEF OldFirst
<1> QED
  BY <1>1, <1>11 DEF s

-----------------------------------------------------------------------------
LEMMA OwnTextIs ==
  ASSUME NEW text \in Profile!OwnTexts
  PROVE  text \in Text /\ OldFirst(text) /\ \A brand \in Brands : NoMarker(text, brand)
<1>1. PICK n \in 0..ProfileText : text \in [1..n -> {"x", "cr", "lf"}]
  BY TextAssumption DEF Profile!OwnTexts
<1>2. text \in Text
  BY <1>1, TextAssumption DEF Text, Profile!Token
<1>3. DOMAIN text = 1..Len(text) /\ \A i \in 1..Len(text) : text[i] \in {"x", "cr", "lf"}
  <2>1. DOMAIN text = 1..Len(text)
    BY <1>2 DEF Text
  <2> QED
    BY <1>1, <2>1
<1>4. \A brand \in Brands : NoMarker(text, brand)
  BY <1>3, MarkersAre DEF NoMarker, Brands
<1> QED
  BY <1>2, <1>4 DEF OldFirst, Brands

\* A profile with the block of an earlier version in it.
LEMMA EarlierTextIs ==
  ASSUME NEW t \in Profile!OwnTexts
  PROVE  LET s == t \o Profile!Lf \o Profile!OldBlock \o Profile!Lf IN s \in Text /\ OldFirst(s)
<1> DEFINE lf == Profile!Lf
           ob == Profile!OldBlock
           u == t \o lf
           v == u \o ob
           s == v \o lf
           L == Len(t)
<1>1. t \in Text /\ NoMarker(t, "winter") /\ NoMarker(t, "old") /\ L \in Nat
  BY OwnTextIs DEF Brands, Text
<1>2. lf \in Text /\ Len(lf) = 1 /\ lf[1] = "lf"
  BY SingleText DEF Profile!Lf, Profile!Token
<1>3. ob \in Text /\ Len(ob) = 3 /\ ob[1] = "oldbegin" /\ ob[2] = "oldbody" /\ ob[3] = "oldend"
  BY DEF Profile!OldBlock, Text, Profile!Token
<1> HIDE DEF lf, ob
<1>4. u \in Text /\ Len(u) = L + 1 /\ \A i \in 1..(L + 1) : u[i] = IF i <= L THEN t[i] ELSE lf[i - L]
  <2>1. /\ t \o lf \in Text /\ Len(t \o lf) = Len(t) + Len(lf)
        /\ \A i \in 1..(Len(t) + Len(lf)) : (t \o lf)[i] = IF i <= Len(t) THEN t[i] ELSE lf[i - Len(t)]
    BY <1>1, <1>2, TextsJoin
  <2> QED
    BY <1>2, <2>1
<1> HIDE DEF u
<1>5. v \in Text /\ Len(v) = L + 4 /\ \A i \in 1..(L + 4) : v[i] = IF i <= L + 1 THEN u[i] ELSE ob[i - (L + 1)]
  <2>1. /\ u \o ob \in Text /\ Len(u \o ob) = Len(u) + Len(ob)
        /\ \A i \in 1..(Len(u) + Len(ob)) : (u \o ob)[i] = IF i <= Len(u) THEN u[i] ELSE ob[i - Len(u)]
    BY <1>3, <1>4, TextsJoin
  <2>2. Len(u) + Len(ob) = L + 4
    BY <1>1, <1>3, <1>4
  <2> QED
    BY <1>4, <2>1, <2>2
<1> HIDE DEF v
<1>6. s \in Text /\ Len(s) = L + 5 /\ \A i \in 1..(L + 5) : s[i] = IF i <= L + 4 THEN v[i] ELSE lf[i - (L + 4)]
  <2>1. /\ v \o lf \in Text /\ Len(v \o lf) = Len(v) + Len(lf)
        /\ \A i \in 1..(Len(v) + Len(lf)) : (v \o lf)[i] = IF i <= Len(v) THEN v[i] ELSE lf[i - Len(v)]
    BY <1>2, <1>5, TextsJoin
  <2>2. Len(v) + Len(lf) = L + 5
    BY <1>1, <1>2, <1>5
  <2> QED
    BY <1>5, <2>1, <2>2
<1> HIDE DEF s
<1>7. ASSUME NEW i \in 1..(L + 5)
      PROVE  \/ s[i] \notin Markers("winter") \cup Markers("old")
             \/ i = L + 2 /\ s[i] = "oldbegin"
             \/ i = L + 4 /\ s[i] = "oldend"
  <2>1. CASE i <= L
    <3>1. s[i] = v[i] /\ v[i] = u[i] /\ u[i] = t[i] /\ i \in 1..L
      BY <1>1, <1>4, <1>5, <1>6, <2>1
    <3> QED
      BY <1>1, <3>1 DEF NoMarker
  <2>2. CASE i = L + 1
    <3>1. s[i] = v[i] /\ v[i] = u[i] /\ u[i] = lf[1]
      BY <1>1, <1>4, <1>5, <1>6, <2>2
    <3> QED
      BY <1>2, <3>1, MarkersAre
  <2>3. ASSUME NEW j \in 1..3, i = L + 1 + j PROVE s[i] = ob[j]
    <3>1. i - (L + 1) = j /\ i \in 1..(L + 4) /\ i <= L + 4 /\ ~(i <= L + 1)
      BY <1>1, <2>3
    <3>2. s[i] = v[i] /\ v[i] = ob[i - (L + 1)]
      BY <1>5, <1>6, <3>1
    <3> QED
      BY <3>1, <3>2
  <2>4. CASE i = L + 5
    <3>1. s[i] = lf[1]
      BY <1>1, <1>6, <2>4
    <3> QED
      BY <1>2, <3>1, MarkersAre
  <2>5. CASE i = L + 2
    <3>1. i = L + 1 + 1
      BY <1>1, <2>5
    <3> QED
      BY <1>3, <2>3, <2>5, <3>1
  <2>6. CASE i = L + 3
    <3>1. i = L + 1 + 2
      BY <1>1, <2>6
    <3> QED
      BY <1>3, <2>3, <3>1, MarkersAre
  <2>7. CASE i = L + 4
    <3>1. i = L + 1 + 3
      BY <1>1, <2>7
    <3> QED
      BY <1>3, <2>3, <2>7, <3>1
  <2>8. i <= L \/ i = L + 1 \/ i = L + 2 \/ i = L + 3 \/ i = L + 4 \/ i = L + 5
    BY <1>1
  <2> QED
    BY <2>1, <2>2, <2>4, <2>5, <2>6, <2>7, <2>8
<1>8. s[L + 2] = "oldbegin" /\ s[L + 4] = "oldend"
  <2>1. L + 2 \in 1..(L + 5) /\ L + 4 \in 1..(L + 5) /\ L + 2 \in 1..(L + 4) /\ L + 4 \in 1..(L + 4)
    BY <1>1
  <2>2. ~(L + 2 <= L + 1) /\ ~(L + 4 <= L + 1) /\ (L + 2) - (L + 1) = 1 /\ (L + 4) - (L + 1) = 3
        /\ L + 2 <= L + 4 /\ L + 4 <= L + 4
    BY <1>1
  <2>3. s[L + 2] = v[L + 2] /\ v[L + 2] = ob[1]
    BY <1>5, <1>6, <2>1, <2>2
  <2>4. s[L + 4] = v[L + 4] /\ v[L + 4] = ob[3]
    BY <1>5, <1>6, <2>1, <2>2
  <2> QED
    BY <1>3, <2>3, <2>4
<1>9. BlockAt(s, "old", L + 2, L + 4)
  <2>1. L + 2 \in 1..Len(s) /\ L + 4 \in 1..Len(s) /\ L + 2 < L + 4
    BY <1>1, <1>6
  <2>2. \A i \in 1..Len(s) : s[i] = "oldbegin" => i = L + 2
    BY <1>6, <1>7, MarkersAre
  <2>3. \A i \in 1..Len(s) : s[i] = "oldend" => i = L + 4
    BY <1>6, <1>7, MarkersAre
  <2> QED
    BY <1>8, <2>1, <2>2, <2>3, MarkersAre DEF BlockAt, OnlyAt
<1>10. \A i \in 1..Len(s) : s[i] \notin Markers("winter")
  BY <1>6, <1>7, MarkersAre
<1>11. OldFirst(s)
  BY <1>9, <1>10 DEF OldFirst
<1> QED
  BY <1>6, <1>11 DEF s, v, u, lf, ob

-----------------------------------------------------------------------------
(***************************************************************************)
(* Removing the block gives back the text it was added to.                 *)
(***************************************************************************)

LEMMA CrLfOccurs ==
  ASSUME NEW text \in Text
  PROVE  Profile!Occurs(Profile!CrLf, text) <=>
            \E i \in 1..Len(text) : i + 1 <= Len(text) /\ text[i] = "cr" /\ text[i + 1] = "lf"
<1> DEFINE n == Profile!CrLf
<1>1. n \in Text /\ Len(n) = 2 /\ n[1] = "cr" /\ n[2] = "lf"
  BY DEF Text, Profile!Token, Profile!CrLf
<1>2. Len(text) \in Nat
  BY DEF Text
<1> HIDE DEF n
<1>3. ASSUME NEW i \in 1..Len(text), i + Len(n) - 1 <= Len(text), SubSeq(text, i, i + Len(n) - 1) = n
      PROVE  i + 1 <= Len(text) /\ text[i] = "cr" /\ text[i + 1] = "lf"
  <2>1. i + Len(n) - 1 = i + 1 /\ i \in Int /\ i + 1 <= Len(text) /\ i + 1 \in Int
    BY <1>1, <1>2, <1>3
  <2>2. \A k \in i..(i + 1) : text[k] \in Profile!Token
    BY <1>2, <2>1 DEF Text
  <2>3. \A k \in 1..((i + 1) - i + 1) : SubSeq(text, i, i + 1)[k] = text[i + k - 1]
    BY <2>1, <2>2, SubSeqProperties
  <2>4. SubSeq(text, i, i + 1) = n
    BY <1>3, <2>1
  <2>5. 1 \in 1..((i + 1) - i + 1) /\ 2 \in 1..((i + 1) - i + 1) /\ i + 1 - 1 = i /\ i + 2 - 1 = i + 1
    BY <2>1
  <2>6. n[1] = text[i + 1 - 1] /\ n[2] = text[i + 2 - 1]
    BY <2>3, <2>4, <2>5
  <2> QED
    BY <1>1, <2>1, <2>5, <2>6
<1>4. ASSUME NEW i \in 1..Len(text), i + 1 <= Len(text), text[i] = "cr", text[i + 1] = "lf"
      PROVE  i + Len(n) - 1 <= Len(text) /\ SubSeq(text, i, i + Len(n) - 1) = n
  <2>1. i + Len(n) - 1 = i + 1 /\ i + 1 \in 1..Len(text) /\ i <= i + 1 /\ Len(n) = (i + 1) - i + 1
    BY <1>1, <1>2, <1>4
  <2>2. \A k \in 1..Len(n) : text[i + k - 1] = n[k]
    <3> SUFFICES ASSUME NEW k \in 1..Len(n) PROVE text[i + k - 1] = n[k]
      OBVIOUS
    <3>1. k = 1 \/ k = 2
      BY <1>1
    <3>2. i + 1 - 1 = i /\ i + 2 - 1 = i + 1
      BY <1>2
    <3> QED
      BY <1>1, <1>4, <3>1, <3>2
  <2>3. SubSeq(text, i, i + 1) = n
    BY <1>1, <2>1, <2>2, StretchIs
  <2> QED
    BY <1>4, <2>1, <2>3
<1>5. Profile!Occurs(n, text) <=>
        \E i \in 1..Len(text) : i + Len(n) - 1 <= Len(text) /\ SubSeq(text, i, i + Len(n) - 1) = n
  BY DEF Profile!Occurs
<1> QED
  BY <1>3, <1>4, <1>5 DEF n

\* The block brings no newline convention of its own, unless it completes a CRLF.
LEMMA NewlineOfAdded ==
  ASSUME NEW text \in Text
  PROVE  \/ Profile!Newline(Profile!Added(text)) = Profile!Newline(text)
         \/ Profile!Last(text) = "cr" /\ ~Profile!Occurs(Profile!CrLf, text)
<1> DEFINE s == Profile!Added(text)
           n == Profile!Newline(text)
           L == Len(text)
           q == IF text = <<>> THEN 0 ELSE Len(n)
           p == L + q
           m == p + 3 + Len(n) - L
<1>0. Profile!CrLf # Profile!Lf
  BY DEF Profile!CrLf, Profile!Lf
<1>1. /\ Spliced(s, text, L, m, L + 1)
      /\ FreshBlock(s, L, m, p, n)
      /\ text # <<>> => \A k \in 1..Len(n) : s[L + k] = n[k]
      /\ \A k \in 1..Len(n) : s[p + 3 + k] = n[k]
  BY AddedIsSplice
<1>2. IsNewline(n) /\ n \in {Profile!Lf, Profile!CrLf}
  BY NewlinesAreEnds DEF Profile!Newline
<1>3. L \in Nat /\ Len(n) \in {1, 2} /\ DOMAIN text = 1..L
  BY <1>2 DEF Text, IsNewline
<1>3a. q \in {0, Len(n)} /\ (q # 0 => text # <<>>)
  OBVIOUS
<1> HIDE DEF q, n
<1>4. p \in Nat /\ m \in Nat /\ L + m = p + 3 + Len(n) /\ (p = L \/ p = L + Len(n)) /\ (p # L => text # <<>>)
  <2> DEFINE ln == Len(n)
  <2>1. L \in Nat /\ ln \in {1, 2} /\ q \in {0, ln} /\ (q # 0 => text # <<>>)
    BY <1>3, <1>3a
  <2> HIDE DEF ln, L
  <2>2. p \in Nat /\ (p = L \/ p = L + ln) /\ (p # L => text # <<>>)
    BY <2>1
  <2>3. p + 3 + ln - L \in Nat /\ L + (p + 3 + ln - L) = p + 3 + ln
    BY <2>1
  <2> QED
    BY <2>2, <2>3 DEF ln
<1> HIDE DEF m, s, p
<1>5. s \in Text /\ Len(s) = L + m /\ \A i \in 1..L : s[i] = text[i]
  <2>1. s \in Text /\ Len(s) = (L + m) + (L + 1 - (L + 1)) /\ \A i \in 1..L : s[i] = text[i]
    BY <1>1 DEF Spliced
  <2>2. \A l, k \in Nat : (l + k) + (l + 1 - (l + 1)) = l + k
    OBVIOUS
  <2> HIDE DEF L
  <2>3. Len(s) = L + m
    BY <1>3, <1>4, <2>1, <2>2
  <2> QED
    BY <2>1, <2>3
<1>6. DOMAIN s = 1..Len(s)
  BY <1>5 DEF Text
<1>7. s[p + 1] = "begin" /\ s[p + 3] = "end" /\ s[p + 2] = IF n = Profile!CrLf THEN "bodyCrLf" ELSE "bodyLf"
  <2>1. /\ \A j \in 1..3 : s[p + j] = Profile!ManagedBlock(n)[j]
        /\ s[p + 1] = "begin" /\ s[p + 3] = "end"
    BY <1>1 DEF FreshBlock
  <2>2. Profile!ManagedBlock(n)[2] = IF n = Profile!CrLf THEN "bodyCrLf" ELSE "bodyLf"
    BY DEF Profile!ManagedBlock
  <2> QED
    BY <2>1, <2>2
<1> HIDE DEF L
<1>8. CASE n = Profile!CrLf
  <2>1. p + 2 \in DOMAIN s
    BY <1>3, <1>4, <1>5, <1>6
  <2>2. "bodyCrLf" \in Profile!Range(s)
    BY <1>7, <1>8, <2>1 DEF Profile!Range
  <2>3. Profile!Newline(s) = Profile!CrLf
    BY <2>2 DEF Profile!Newline
  <2> QED
    BY <1>8, <2>3 DEF s, n
<1>9. CASE n = Profile!Lf
  <2>1. ~Profile!Occurs(Profile!CrLf, text) /\ "bodyCrLf" \notin Profile!Range(text)
    BY <1>0, <1>9 DEF Profile!Newline, n
  <2>2. Len(n) = 1 /\ n[1] = "lf"
    <3>1. Len(<<"lf">>) = 1 /\ <<"lf">>[1] = "lf"
      OBVIOUS
    <3> QED
      BY <1>9, <3>1 DEF Profile!Lf
  <2>3. ASSUME NEW k \in (L + 1)..Len(s) PROVE s[k] \in {"begin", "bodyLf", "end", "lf"}
    <3>1. (k = L + 1 /\ p # L) \/ k = p + 1 \/ k = p + 2 \/ k = p + 3 \/ k = p + 3 + 1
      BY <1>3, <1>4, <1>5, <2>2
    <3>2. k = L + 1 /\ p # L => s[k] = "lf"
      BY <1>1, <1>4, <2>2
    <3>3. k = p + 3 + 1 => s[k] = "lf"
      BY <1>1, <2>2
    <3> QED
      BY <1>0, <1>7, <1>9, <3>1, <3>2, <3>3
  <2>4. "bodyCrLf" \notin Profile!Range(s)
    <3> SUFFICES ASSUME NEW k \in 1..Len(s), s[k] = "bodyCrLf" PROVE FALSE
      BY <1>6 DEF Profile!Range
    <3>1. k \in 1..L
      BY <1>3, <1>5, <2>3
    <3>2. text[k] = "bodyCrLf" /\ k \in DOMAIN text
      BY <1>3, <1>5, <3>1
    <3> QED
      BY <2>1, <3>2 DEF Profile!Range
  <2>5. CASE Profile!Occurs(Profile!CrLf, s)
    <3>1. PICK i \in 1..Len(s) : i + 1 <= Len(s) /\ s[i] = "cr" /\ s[i + 1] = "lf"
      BY <1>5, <2>5, CrLfOccurs
    <3>2. i \in 1..L /\ text[i] = "cr"
      BY <1>3, <1>5, <2>3, <3>1
    <3>3. i = L
      <4> SUFFICES ASSUME i # L PROVE FALSE
        OBVIOUS
      <4>1. i + 1 \in 1..L
        BY <1>3, <3>2
      <4>2. text[i + 1] = "lf"
        BY <1>5, <3>1, <4>1
      <4>3. i + 1 <= Len(text) /\ i \in 1..Len(text)
        BY <3>2, <4>1 DEF L
      <4> QED
        BY <2>1, <3>2, <4>2, <4>3, CrLfOccurs
    <3>4. Profile!Last(text) = "cr"
      BY <3>2, <3>3 DEF Profile!Last, L
    <3> QED
      BY <2>1, <3>4
  <2>6. CASE ~Profile!Occurs(Profile!CrLf, s)
    <3>1. Profile!Newline(s) = Profile!Lf
      BY <2>4, <2>6 DEF Profile!Newline
    <3> QED
      BY <1>9, <3>1 DEF s, n
  <2> QED
    BY <2>5, <2>6
<1> QED
  BY <1>2, <1>8, <1>9

\* What stands behind a place.
LEMMA SuffixIs ==
  ASSUME NEW text \in Text, NEW a \in Nat, NEW n, IsNewline(n), Len(text) = a + Len(n),
         \A k \in 1..Len(n) : text[a + k] = n[k]
  PROVE  SubSeq(text, a + 1, Len(text)) = n
<1>1. n \in Text /\ Len(n) \in {1, 2}
  BY DEF IsNewline
<1>2. a + 1 \in 1..Len(text) /\ Len(text) \in 1..Len(text) /\ a + 1 <= Len(text)
  BY <1>1
<1>3. Len(n) = Len(text) - (a + 1) + 1
  BY <1>1
<1>4. \A k \in 1..Len(n) : text[(a + 1) + k - 1] = n[k]
  <2> SUFFICES ASSUME NEW k \in 1..Len(n) PROVE text[(a + 1) + k - 1] = n[k]
    OBVIOUS
  <2>1. (a + 1) + k - 1 = a + k
    BY <1>1
  <2> QED
    BY <2>1
<1> QED
  BY <1>1, <1>2, <1>3, <1>4, StretchIs

LEMMA PrefixesAreEqual ==
  ASSUME NEW s \in Text, NEW text \in Text, NEW a \in 0..Len(s), Len(text) = a, \A i \in 1..a : s[i] = text[i]
  PROVE  SubSeq(s, 1, a) = text
<1> DEFINE x == SubSeq(s, 1, a)
<1>1. x \in Text /\ Len(x) = a /\ \A i \in 1..a : x[i] = s[i]
  BY PrefixIs
<1> HIDE DEF x
<1>2. x \in Seq(Profile!Token) /\ text \in Seq(Profile!Token) /\ Len(x) = Len(text) /\ \A i \in 1..Len(x) : x[i] = text[i]
  BY <1>1 DEF Text
<1>3. x = text
  BY <1>2, SeqEqual
<1> QED
  BY <1>3 DEF x

LEMMA CutAdded ==
  ASSUME NEW text \in Text, NoMarker(text, "winter"),
         Profile!Newline(Profile!Added(text)) = Profile!Newline(text)
  PROVE  Profile!Cut(Profile!Added(text), "winter") = text
<1> DEFINE s == Profile!Added(text)
           n == Profile!Newline(text)
           L == Len(text)
           q == IF text = <<>> THEN 0 ELSE Len(n)
           p == L + q
           m == p + 3 + Len(n) - L
<1>1. /\ Spliced(s, text, L, m, L + 1)
      /\ FreshBlock(s, L, m, p, n)
      /\ text # <<>> => \A k \in 1..Len(n) : s[L + k] = n[k]
      /\ \A k \in 1..Len(n) : s[p + 3 + k] = n[k]
  BY AddedIsSplice
<1>2. IsNewline(n) /\ Len(n) \in {1, 2} /\ n \in Text
  BY NewlinesAreEnds DEF IsNewline
<1>3. L \in Nat
  BY DEF Text
<1>4. q \in {0, Len(n)} /\ (q = 0 => text = <<>>) /\ (text = <<>> => q = 0) /\ (text = <<>> => L = 0)
  BY <1>2
<1> HIDE DEF q, n
<1>5. p \in Nat /\ m \in Nat /\ L + m = p + 3 + Len(n)
  <2> DEFINE ln == Len(n)
  <2>1. ln \in {1, 2} /\ q \in {0, ln}
    BY <1>2, <1>4
  <2> HIDE DEF ln, L
  <2>2. p \in Nat /\ p + 3 + ln - L \in Nat /\ L + (p + 3 + ln - L) = p + 3 + ln
    BY <1>3, <2>1
  <2> QED
    BY <2>2 DEF ln
<1> HIDE DEF m, s, p
<1>6. s \in Text /\ Len(s) = L + m /\ \A i \in 1..L : s[i] = text[i]
  <2>1. s \in Text /\ Len(s) = (L + m) + (L + 1 - (L + 1)) /\ \A i \in 1..L : s[i] = text[i]
    BY <1>1 DEF Spliced
  <2>2. \A l, k \in Nat : (l + k) + (l + 1 - (l + 1)) = l + k
    OBVIOUS
  <2> HIDE DEF L
  <2>3. Len(s) = L + m
    BY <1>3, <1>5, <2>1, <2>2
  <2> QED
    BY <2>1, <2>3
<1>7. BlockAt(s, "winter", p + 1, p + 3)
  <2>1. \A i \in Stays(text, L, L + 1) : text[i] \notin Markers("winter")
    BY <1>3 DEF Stays, NoMarker
  <2> HIDE DEF L
  <2> QED
    BY <1>1, <2>1, FreshBlockIsThere
<1>8. Profile!Start(s, "winter") = p + 1 /\ Profile!Stop(s, "winter") = p + 3
  BY <1>6, <1>7, BlockIsThere
<1>9. Profile!Newline(s) = n
  BY DEF s, n
<1> HIDE DEF L
<1>10. Profile!Behind(s, "winter") = n
  <2>1. Len(s) = (p + 3) + Len(n)
    BY <1>5, <1>6
  <2>2. p + 3 \in Nat
    BY <1>5
  <2>3. SubSeq(s, (p + 3) + 1, Len(s)) = n
    BY <1>1, <1>2, <1>6, <2>1, <2>2, SuffixIs
  <2> QED
    BY <1>8, <2>3 DEF Profile!Behind
<1> DEFINE x == SubSeq(s, 1, p)
<1>11. Profile!Before(s, "winter") = x
  <2>1. (p + 1) - 1 = p
    BY <1>5
  <2> QED
    BY <1>8, <2>1 DEF Profile!Before
<1>12. p \in 0..Len(s)
  BY <1>2, <1>3, <1>5, <1>6
<1>13. x \in Text /\ Len(x) = p /\ \A i \in 1..p : x[i] = s[i]
  BY <1>6, <1>12, PrefixIs
<1> HIDE DEF x
<1>14. Profile!WithoutSuffix(x, n) = text
  <2>1. CASE text = <<>>
    <3>1. p = 0 /\ ~(Len(x) >= Len(n))
      BY <1>2, <1>4, <1>13, <2>1 DEF p
    <3>2. x = <<>>
      BY <1>13, <3>1, EmptySeq DEF Text
    <3> QED
      BY <2>1, <3>1, <3>2 DEF Profile!WithoutSuffix
  <2>2. CASE text # <<>>
    <3>1. p = L + Len(n) /\ L \in 0..p /\ p - Len(n) = L /\ p >= Len(n)
      BY <1>2, <1>3, <1>4, <2>2 DEF p
    <3>2. \A k \in 1..Len(n) : x[L + k] = n[k]
      <4> SUFFICES ASSUME NEW k \in 1..Len(n) PROVE x[L + k] = n[k]
        OBVIOUS
      <4>1. L + k \in 1..p
        BY <1>2, <1>3, <3>1
      <4> QED
        BY <1>1, <1>13, <2>2, <4>1
    <3>3. SubSeq(x, L + 1, Len(x)) = n
      BY <1>2, <1>3, <1>13, <3>1, <3>2, SuffixIs
    <3>4. SubSeq(x, 1, L) = text
      <4>1. \A i \in 1..L : x[i] = text[i]
        BY <1>3, <1>6, <1>13, <3>1
      <4>2. L \in 0..Len(x) /\ Len(text) = L
        BY <1>13, <3>1 DEF L
      <4> QED
        BY <1>13, <4>1, <4>2, PrefixesAreEqual
    <3>5. Len(x) - Len(n) = L /\ Len(x) >= Len(n) /\ Len(x) - Len(n) + 1 = L + 1
      BY <1>13, <3>1
    <3> QED
      BY <3>3, <3>4, <3>5 DEF Profile!WithoutSuffix
  <2> QED
    BY <2>1, <2>2
<1>15. text \o <<>> = text
  BY ConcatEmptySeq DEF Text
<1> QED
  BY <1>9, <1>10, <1>11, <1>14, <1>15 DEF Profile!Cut, s

\* A profile that install created is left empty.
LEMMA CutCreated ==
  Profile!Cut(Profile!Added(None), "winter") = <<>>
<1> DEFINE n == Profile!CrLf
           mb == Profile!ManagedBlock(n)
           s == mb \o n
<1>1. Profile!Added(None) = s
  BY DEF Profile!Added
<1>2. mb \in Text /\ Len(mb) = 3 /\ mb[1] = "begin" /\ mb[3] = "end"
  BY ManagedBlockIs
<1>3. mb[2] = "bodyCrLf"
  BY DEF Profile!ManagedBlock
<1>4. IsNewline(n) /\ Len(n) = 2 /\ n \in Text /\ \A i \in 1..Len(n) : n[i] \in LineEnds
  BY CrLfIs DEF IsNewline
<1> HIDE DEF n, mb
<1>5. s \in Text /\ Len(s) = 5 /\ (\A i \in 1..3 : s[i] = mb[i]) /\ \A k \in 1..2 : s[3 + k] = n[k]
  <2>1. /\ s \in Text /\ Len(s) = Len(mb) + Len(n)
        /\ \A i \in 1..(Len(mb) + Len(n)) : s[i] = IF i <= Len(mb) THEN mb[i] ELSE n[i - Len(mb)]
    BY <1>2, <1>4, TextsJoin
  <2> HIDE DEF s
  <2>2. Len(s) = 5 /\ \A i \in 1..5 : s[i] = IF i <= 3 THEN mb[i] ELSE n[i - 3]
    BY <1>2, <1>4, <2>1
  <2>3. \A k \in 1..2 : 3 + k \in 1..5 /\ ~(3 + k <= 3) /\ (3 + k) - 3 = k
    OBVIOUS
  <2>4. \A k \in 1..2 : s[3 + k] = n[k]
    BY <2>2, <2>3
  <2>5. \A i \in 1..3 : s[i] = mb[i]
    BY <2>2
  <2>6. s \in Text
    BY <2>1
  <2> QED
    BY <2>2, <2>4, <2>5, <2>6
<1> HIDE DEF s
<1>6. BlockAt(s, "winter", 1, 3)
  <2>1. ASSUME NEW i \in 1..Len(s) PROVE i = 1 \/ i = 3 \/ s[i] \notin {"begin", "end"}
    <3>1. i \in 1..3 \/ (i - 3 \in 1..2 /\ i = 3 + (i - 3))
      BY <1>5
    <3>2. CASE i - 3 \in 1..2 /\ i = 3 + (i - 3)
      <4>1. s[i] = n[i - 3]
        BY <1>5, <3>2
      <4> QED
        BY <1>4, <3>2, <4>1 DEF LineEnds
    <3>3. i = 2 => s[i] = "bodyCrLf"
      BY <1>3, <1>5
    <3>4. i \in 1..3 => i = 1 \/ i = 2 \/ i = 3
      OBVIOUS
    <3> QED
      BY <3>1, <3>2, <3>3, <3>4
  <2>2. 1 \in 1..Len(s) /\ 3 \in 1..Len(s) /\ s[1] = "begin" /\ s[3] = "end"
    BY <1>2, <1>5
  <2>3. OnlyAt(s, "begin", 1) /\ OnlyAt(s, "end", 3)
    BY <2>1, <2>2 DEF OnlyAt
  <2> QED
    BY <2>3, MarkersAre DEF BlockAt
<1>7. Profile!Start(s, "winter") = 1 /\ Profile!Stop(s, "winter") = 3
  BY <1>5, <1>6, BlockIsThere
<1>8. Profile!Newline(s) = n
  <2>1. 2 \in DOMAIN s /\ s[2] = "bodyCrLf"
    BY <1>3, <1>5 DEF Text
  <2>2. "bodyCrLf" \in Profile!Range(s)
    BY <2>1 DEF Profile!Range
  <2> QED
    BY <2>2 DEF Profile!Newline, n
<1>9. Profile!Behind(s, "winter") = n
  <2>1. Len(s) = 3 + Len(n)
    BY <1>4, <1>5
  <2>2. \A k \in 1..Len(n) : s[3 + k] = n[k]
    BY <1>4, <1>5
  <2>3. s \in Text /\ 3 \in Nat
    BY <1>5
  <2> HIDE DEF s
  <2>4. SubSeq(s, 3 + 1, Len(s)) = n
    BY <1>4, <2>1, <2>2, <2>3, SuffixIs
  <2> QED
    BY <1>7, <2>4 DEF Profile!Behind
<1>10. Profile!Before(s, "winter") = <<>>
  <2>1. SubSeq(s, 1, 0) = <<>>
    BY SubSeqEmpty
  <2> QED
    BY <1>7, <2>1 DEF Profile!Before
<1>11. Profile!WithoutSuffix(<<>>, n) = <<>>
  BY <1>4 DEF Profile!WithoutSuffix
<1>12. <<>> \o <<>> = <<>>
  OBVIOUS
<1> QED
  BY <1>1, <1>8, <1>9, <1>10, <1>11, <1>12 DEF Profile!Cut

-----------------------------------------------------------------------------
(***************************************************************************)
(* What a command that is going to write has read.                         *)
(***************************************************************************)
Steps == {"read", "backed", "staged", "checked", "moved"}

\* A text a command has something to write to.
Writes(w, t) ==
  \/ /\ w = "install"
     /\ \/ t = None
        \/ Profile!BlockState(t, "winter") = "Absent"
        \/ Profile!BlockState(t, "winter") = "Present" /\ ~Profile!Intact(t)
  \/ /\ w = "uninstall" /\ t # None
     /\ Profile!BlockState(t, "winter") = "Present" /\ Profile!Intact(t)
  \/ w = "sweep" /\ t # None /\ Profile!BlockState(t, "old") = "Present"

IsProfile(t) == t = None \/ (t \in Text /\ OldFirst(t))

ProfileShape ==
  /\ IsProfile(profile) /\ step \in Steps \cup {"idle"}
  /\ step # "idle" => IsProfile(read) /\ Writes(what, read)

LEMMA StatesOfBlock ==
  \A t, brand : /\ Profile!BlockState(t, brand) \in {"Present", "Absent", "Malformed"}
                /\ Profile!BlockState(t, brand) = "Present" <=> Profile!Located(t, brand)
BY DEF Profile!BlockState

LEMMA VerdictIs ==
  ASSUME NEW w \in {"install", "uninstall", "sweep"}, NEW t
  PROVE  LET v == Profile!Verdict(w, t) IN
         /\ v \in {"Create", "Update", "Removed"} => Writes(w, t)
         /\ v \in {"Create", "Update"} => w = "install"
         /\ v = "Removed" => w # "install"
         /\ v = "Unchanged" => ~Writes(w, t)
                             /\ t # None /\ Profile!BlockState(t, "winter") = "Present" /\ Profile!Intact(t)
<1>1. CASE w = "install"
  BY <1>1, StatesOfBlock DEF Profile!Verdict, Profile!Brand, Writes
<1>2. CASE w = "uninstall"
  BY <1>2, StatesOfBlock DEF Profile!Verdict, Profile!Brand, Writes
<1>3. CASE w = "sweep"
  BY <1>3, StatesOfBlock DEF Profile!Verdict, Profile!Brand, Writes
<1> QED
  BY <1>1, <1>2, <1>3

\* What a command writes.
Results(w, t, s) ==
  /\ s \in Text /\ OldFirst(s)
  /\ Profile!Written(s) = IF t = None THEN 0 ELSE Profile!Written(t)
  /\ w = "install" => Profile!BlockState(s, "winter") = "Present" /\ Profile!Intact(s)
  /\ w # "install" => Profile!BlockState(s, Profile!Brand(w)) = "Absent"

LEMMA ReplacementIs ==
  ASSUME ProfileShape, step # "idle"
  PROVE  /\ Results(what, read, Profile!Replacement)
         /\ what = "install" /\ (read = None \/ Profile!BlockState(read, "winter") = "Absent")
               => Profile!Replacement = Profile!Added(read)
         /\ what # "install" => Profile!Replacement = Profile!Cut(read, Profile!Brand(what))
<1>1. Writes(what, read) /\ IsProfile(read)
  BY DEF ProfileShape
<1>2. CASE what # "install"
  <2>1. /\ what \in {"uninstall", "sweep"} /\ read # None
        /\ Profile!BlockState(read, Profile!Brand(what)) = "Present"
    BY <1>1, <1>2 DEF Writes, Profile!Brand
  <2>2. read \in Text /\ OldFirst(read)
    BY <1>1, <2>1 DEF IsProfile
  <2>3. PICK b, e : BlockAt(read, Profile!Brand(what), b, e)
    BY <2>1, <2>2, StatesOfBlock, LocatedIsBlock
  <2>4. Profile!Brand(what) \in Brands
    BY DEF Profile!Brand, Brands
  <2>5. CutOut(Profile!Cut(read, Profile!Brand(what)), read, Profile!Brand(what))
    BY <2>2, <2>3, <2>4, CutEffect
  <2>6. Profile!Replacement = Profile!Cut(read, Profile!Brand(what))
    BY <1>2 DEF Profile!Replacement
  <2> QED
    BY <1>2, <2>1, <2>5, <2>6 DEF CutOut, Results
<1>3. CASE what = "install" /\ read = None
  <2>1. Profile!Replacement = Profile!Added(read)
    BY <1>3 DEF Profile!Replacement
  <2>2. Rebuilt(Profile!Added(None), <<>>) /\ Profile!Written(<<>>) = 0
    BY CreatedIs, EmptyText
  <2> QED
    BY <1>3, <2>1, <2>2 DEF Rebuilt, Results
<1>4. CASE what = "install" /\ read # None /\ Profile!BlockState(read, "winter") = "Absent"
  <2>1. Profile!Replacement = Profile!Added(read)
    BY <1>4 DEF Profile!Replacement
  <2>2. read \in Text /\ OldFirst(read)
    BY <1>1, <1>4 DEF IsProfile
  <2>3. NoMarker(read, "winter")
    BY <1>4, <2>2, AbsentIsNoMarker
  <2>4. Rebuilt(Profile!Added(read), read)
    BY <2>2, <2>3, AddedRebuilds
  <2> QED
    BY <1>4, <2>1, <2>4 DEF Rebuilt, Results
<1>5. CASE what = "install" /\ read # None /\ Profile!BlockState(read, "winter") = "Present"
  <2>1. Profile!Replacement = Profile!Refreshed(read)
    BY <1>5 DEF Profile!Replacement
  <2>2. read \in Text /\ OldFirst(read)
    BY <1>1, <1>5 DEF IsProfile
  <2>3. PICK b, e : BlockAt(read, "winter", b, e)
    BY <1>5, <2>2, StatesOfBlock, LocatedIsBlock
  <2>4. Rebuilt(Profile!Refreshed(read), read)
    BY <2>2, <2>3, RefreshedRebuilds
  <2> QED
    BY <1>5, <2>1, <2>4 DEF Rebuilt, Results
<1>6. what = "install" => read = None \/ Profile!BlockState(read, "winter") \in {"Absent", "Present"}
  BY <1>1 DEF Writes
<1> QED
  BY <1>2, <1>3, <1>4, <1>5, <1>6

-----------------------------------------------------------------------------
(***************************************************************************)
(* The steps.                                                              *)
(***************************************************************************)

\* Which step changes what.
LEMMA EditIs ==
  ASSUME Profile!Edit, IsProfile(profile)
  PROVE  \E t : Profile!Leaves(t) /\ IsProfile(t)
<1>1. CASE profile = None
  <2>1. Profile!Leaves(<<"x">>)
    BY <1>1 DEF Profile!Edit
  <2>2. <<"x">> \in Text /\ Len(<<"x">>) = 1 /\ <<"x">>[1] = "x"
    BY SingleText DEF Profile!Token
  <2>3. OldFirst(<<"x">>)
    <3>1. \A i \in 1..1 : i = 1
      OBVIOUS
    <3> QED
      BY <2>2, <3>1, MarkersAre DEF OldFirst, NoMarker
  <2> QED
    BY <2>1, <2>2, <2>3 DEF IsProfile
<1>2. CASE profile # None
  <2>1. profile \in Text /\ OldFirst(profile)
    BY <1>2 DEF IsProfile
  <2>2. ASSUME NEW i \in 1..(Len(profile) + 1), Profile!Leaves(Profile!InsertAt(profile, i, "x"))
        PROVE  \E t : Profile!Leaves(t) /\ IsProfile(t)
    BY <2>1, <2>2, InsertKeeps DEF IsProfile
  <2>3. ASSUME Profile!Leaves(None) PROVE \E t : Profile!Leaves(t) /\ IsProfile(t)
    BY <2>3 DEF IsProfile
  <2>4. ASSUME Profile!Leaves(Profile!UnixNewlines(profile)) PROVE \E t : Profile!Leaves(t) /\ IsProfile(t)
    BY <2>1, <2>4, NormalizedKeepsOldFirst DEF IsProfile, Profile!UnixNewlines
  <2>5. ASSUME Profile!Leaves(profile \o Profile!ManagedBlock(Profile!Newline(profile)))
        PROVE  \E t : Profile!Leaves(t) /\ IsProfile(t)
    BY <2>1, <2>5, AppendKeeps DEF IsProfile
  <2>6. ASSUME NEW i \in DOMAIN profile, profile[i] \in {"bodyLf", "bodyCrLf"},
               Profile!Leaves([profile EXCEPT ![i] = "edited"])
        PROVE  \E t : Profile!Leaves(t) /\ IsProfile(t)
    BY <2>1, <2>6, RewriteKeeps DEF IsProfile
  <2>7. ASSUME NEW i \in DOMAIN profile, profile[i] \in {"begin", "end"},
               Profile!Leaves(Profile!RemoveAt(profile, i))
        PROVE  \E t : Profile!Leaves(t) /\ IsProfile(t)
    BY <2>1, <2>7, RemoveKeeps DEF IsProfile
  <2> QED
    BY <1>2, <2>2, <2>3, <2>4, <2>5, <2>6, <2>7 DEF Profile!Edit
<1> QED
  BY <1>1, <1>2

-----------------------------------------------------------------------------
(***************************************************************************)
(* What a write rests on: the text it compared, the backup it took, and    *)
(* what the block was added to.                                            *)
(***************************************************************************)
ComparedInv == step = "checked" => lateEdit \/ profile = read

BackedUpInv == step \in Steps \ {"read"} /\ read # None => backup = read

\* A text without the block, or no profile.
WithoutBlock(t) == t = None \/ (t \in Text /\ NoMarker(t, "winter"))

OriginalInv ==
  \/ original = <<>>
  \/ \E t : /\ original = <<t>> /\ WithoutBlock(t) /\ profile = Profile!Added(t)
            /\ step \in Steps \ {"moved"} => read = profile

ProfileInv ==
  ProfileShape /\ ComparedInv /\ BackedUpInv /\ OriginalInv /\ UserTextSurvives /\ ReportIsTrue

\* The steps by which a command gets on without writing.
Prepares == Profile!BackUp \/ Profile!Check \/ Profile!Verify \/ Profile!Fail

LEMMA ProfileCases ==
  Profile!Next <=> (\E w \in {"install", "uninstall", "sweep"} : Profile!Read(w))
                   \/ Prepares \/ Profile!Move \/ Profile!Edit
BY DEF Profile!Next, Prepares

LEMMA ReadKeeps ==
  ASSUME ProfileInv, NEW w \in {"install", "uninstall", "sweep"}, Profile!Read(w)
  PROVE  ProfileInv'
<1>1. /\ step = "idle" /\ what' = w /\ seenEdit' = FALSE
      /\ UNCHANGED <<profile, hosted, own, lateEdit, original>>
  BY DEF Profile!Read
<1>2. CASE Profile!Verdict(w, profile) \in {"Create", "Update", "Removed"}
  <2>1. step' = "read" /\ read' = profile /\ Writes(w, profile)
    BY <1>2, VerdictIs DEF Profile!Read
  <2>2. ProfileShape'
    BY <1>1, <2>1 DEF ProfileInv, ProfileShape, Steps
  <2>3. ComparedInv' /\ BackedUpInv'
    BY <2>1 DEF ComparedInv, BackedUpInv, Steps
  <2>4. OriginalInv'
    BY <1>1, <2>1 DEF ProfileInv, OriginalInv
  <2>5. UserTextSurvives'
    BY <1>1 DEF ProfileInv, UserTextSurvives, Profile!UserTextSurvives
  <2>6. ReportIsTrue'
    BY <2>1 DEF ReportIsTrue, Profile!ReportIsTrue
  <2> QED
    BY <2>2, <2>3, <2>4, <2>5, <2>6 DEF ProfileInv
<1>3. CASE Profile!Verdict(w, profile) \notin {"Create", "Update", "Removed"}
  <2>1. step' = "idle" /\ report' = Profile!Verdict(w, profile)
    BY <1>3 DEF Profile!Read, Profile!Ended
  <2>2. ProfileShape'
    BY <1>1, <2>1 DEF ProfileInv, ProfileShape, Steps
  <2>3. ComparedInv' /\ BackedUpInv'
    BY <2>1 DEF ComparedInv, BackedUpInv, Steps
  <2>4. OriginalInv'
    BY <1>1, <2>1 DEF ProfileInv, OriginalInv, Steps
  <2>5. UserTextSurvives'
    BY <1>1 DEF ProfileInv, UserTextSurvives, Profile!UserTextSurvives
  <2>6. report' \in {"Create", "Update", "Unchanged"} =>
            Profile!BlockState(profile, "winter") = "Present" /\ Profile!Intact(profile)
    BY <1>3, <2>1, VerdictIs
  <2>7. ReportIsTrue'
    BY <1>1, <1>3, <2>1, <2>6 DEF ReportIsTrue, Profile!ReportIsTrue
  <2> QED
    BY <2>2, <2>3, <2>4, <2>5, <2>7 DEF ProfileInv
<1> QED
  BY <1>2, <1>3

LEMMA PreparesKeep ==
  ASSUME ProfileInv, Prepares
  PROVE  ProfileInv'
<1>1. UNCHANGED <<profile, hosted, what, own, lateEdit, seenEdit, original>> /\ step # "idle"
  BY DEF Prepares, Profile!BackUp, Profile!Check, Profile!Verify, Profile!Fail, Profile!history
<1>2. \/ /\ step' = "idle"
         /\ report' \in {"Conflict", "Skipped"}
            \/ (report' = Profile!Verdict(what, read) /\ profile = Profile!Replacement)
      \/ /\ step' \in {"backed", "staged", "checked"} /\ read' = read
         /\ step = "read" \/ (step \in {"backed", "staged"} /\ backup' = backup)
         /\ step = "read" => backup' = IF read = None THEN backup ELSE read
         /\ step' = "checked" => profile = read
  BY DEF Prepares, Profile!BackUp, Profile!Check, Profile!Verify, Profile!Fail, Profile!Ended, Profile!Swappable
<1>3. ProfileShape'
  BY <1>1, <1>2 DEF ProfileInv, ProfileShape, Steps
<1>4. ComparedInv'
  BY <1>1, <1>2 DEF ComparedInv
<1>5. BackedUpInv'
  BY <1>1, <1>2 DEF ProfileInv, BackedUpInv, Steps
<1>6. OriginalInv'
  BY <1>1, <1>2 DEF ProfileInv, OriginalInv, Steps
<1>7. UserTextSurvives'
  BY <1>1 DEF ProfileInv, UserTextSurvives, Profile!UserTextSurvives
<1>8. ReportIsTrue'
  <2>1. CASE step' # "idle"
    BY <2>1 DEF ReportIsTrue, Profile!ReportIsTrue
  <2>2. CASE report' \in {"Conflict", "Skipped"}
    BY <2>2 DEF ReportIsTrue, Profile!ReportIsTrue
  <2>3. CASE report' = Profile!Verdict(what, read) /\ profile = Profile!Replacement
    <3>1. Results(what, read, profile)
      BY <1>1, <2>3, ReplacementIs DEF ProfileInv
    <3>2. what \in {"install", "uninstall", "sweep"}
      BY <1>1 DEF ProfileInv, ProfileShape, Writes
    <3>3. /\ report' \in {"Create", "Update"} => what = "install"
          /\ report' = "Removed" => what # "install"
          /\ report' = "Unchanged" => ~Writes(what, read)
      BY <2>3, <3>2, VerdictIs
    <3>4. report' # "Unchanged"
      BY <1>1, <3>3 DEF ProfileInv, ProfileShape
    <3> QED
      BY <1>1, <3>1, <3>3, <3>4 DEF Results, ReportIsTrue, Profile!ReportIsTrue
  <2> QED
    BY <1>2, <2>1, <2>2, <2>3
<1> QED
  BY <1>3, <1>4, <1>5, <1>6, <1>7, <1>8 DEF ProfileInv

LEMMA MoveKeeps ==
  ASSUME ProfileInv, Profile!Move
  PROVE  ProfileInv'
<1>1. /\ step = "checked" /\ step' = "moved" /\ profile' = Profile!Replacement /\ seenEdit' = FALSE
      /\ UNCHANGED <<hosted, what, read, backup, report, own, lateEdit>>
      /\ original' = IF what = "install" /\ (read = None \/ Profile!BlockState(read, "winter") = "Absent")
                     THEN <<read>> ELSE <<>>
  BY DEF Profile!Move
<1>2. ProfileShape
  BY DEF ProfileInv
<1>3. /\ Results(what, read, Profile!Replacement)
      /\ what = "install" /\ (read = None \/ Profile!BlockState(read, "winter") = "Absent")
               => Profile!Replacement = Profile!Added(read)
  BY <1>1, <1>2, ReplacementIs
<1>4. ProfileShape'
  BY <1>1, <1>2, <1>3 DEF ProfileShape, IsProfile, Results, Steps
<1>5. ComparedInv' /\ ReportIsTrue'
  BY <1>1 DEF ComparedInv, ReportIsTrue, Profile!ReportIsTrue
<1>6. BackedUpInv'
  BY <1>1 DEF ProfileInv, BackedUpInv, Steps
<1>7. OriginalInv'
  <2>1. CASE what = "install" /\ (read = None \/ Profile!BlockState(read, "winter") = "Absent")
    <3>1. WithoutBlock(read)
      BY <1>1, <1>2, <2>1, AbsentIsNoMarker DEF WithoutBlock, ProfileShape, IsProfile
    <3> QED
      BY <1>1, <1>3, <2>1, <3>1 DEF OriginalInv
  <2>2. CASE ~(what = "install" /\ (read = None \/ Profile!BlockState(read, "winter") = "Absent"))
    BY <1>1, <2>2 DEF OriginalInv
  <2> QED
    BY <2>1, <2>2
<1>8. UserTextSurvives'
  <2>1. CASE lateEdit
    BY <1>1, <2>1 DEF UserTextSurvives, Profile!UserTextSurvives
  <2>2. CASE ~lateEdit
    <3>1. profile = read
      BY <1>1, <2>2 DEF ProfileInv, ComparedInv
    <3>2. Profile!Written(profile) = own \/ (own = None /\ Profile!Written(profile) = 0)
      BY <2>2 DEF ProfileInv, UserTextSurvives, Profile!UserTextSurvives
    <3>3. Profile!Written(profile') = IF profile = None THEN 0 ELSE Profile!Written(profile)
      BY <1>1, <1>3, <3>1 DEF Results
    <3>4. profile = None => Profile!Written(profile) = None
      BY DEF Profile!Written
    <3>5. Profile!Written(profile') = own \/ (own = None /\ Profile!Written(profile') = 0)
      BY <3>2, <3>3, <3>4
    <3> QED
      BY <1>1, <3>5 DEF UserTextSurvives, Profile!UserTextSurvives
  <2> QED
    BY <2>1, <2>2
<1> QED
  BY <1>4, <1>5, <1>6, <1>7, <1>8 DEF ProfileInv

LEMMA EditKeepsInv ==
  ASSUME ProfileInv, Profile!Edit
  PROVE  ProfileInv'
<1>1. IsProfile(profile)
  BY DEF ProfileInv, ProfileShape
<1>2. PICK t : Profile!Leaves(t) /\ IsProfile(t)
  BY <1>1, EditIs
<1>3. /\ profile' = t /\ own' = Profile!Written(t) /\ lateEdit' = (step = "checked")
      /\ seenEdit' = TRUE /\ original' = <<>>
      /\ UNCHANGED <<hosted, what, step, read, backup, report>>
  BY <1>2 DEF Profile!Leaves, Profile!process
<1>4. ProfileShape'
  BY <1>2, <1>3 DEF ProfileInv, ProfileShape
<1>5. ComparedInv' /\ ReportIsTrue' /\ OriginalInv'
  BY <1>3 DEF ComparedInv, ReportIsTrue, Profile!ReportIsTrue, OriginalInv
<1>6. BackedUpInv'
  BY <1>3 DEF ProfileInv, BackedUpInv
<1>7. UserTextSurvives'
  BY <1>3 DEF UserTextSurvives, Profile!UserTextSurvives
<1> QED
  BY <1>4, <1>5, <1>6, <1>7 DEF ProfileInv

LEMMA ProfileStays ==
  ASSUME ProfileInv, UNCHANGED Profile!vars
  PROVE  ProfileInv'
<1>1. UNCHANGED <<profile, hosted, what, step, read, backup, report, own, lateEdit, seenEdit, original>>
  BY DEF Profile!vars, Profile!process, Profile!history
<1> QED
  BY <1>1 DEF ProfileInv, ProfileShape, ComparedInv, BackedUpInv, OriginalInv, UserTextSurvives,
     Profile!UserTextSurvives, ReportIsTrue, Profile!ReportIsTrue

LEMMA ProfileInit == Profile!Init => ProfileInv
<1> SUFFICES ASSUME Profile!Init PROVE ProfileInv
  OBVIOUS
<1>1. /\ profile \in {None} \cup Profile!OwnTexts
                       \cup {t \o Profile!Lf \o Profile!OldBlock \o Profile!Lf : t \in Profile!OwnTexts}
      /\ step = "idle" /\ report = "none" /\ own = Profile!Written(profile) /\ original = <<>>
  BY DEF Profile!Init
<1>2. IsProfile(profile)
  <2>1. CASE profile = None
    BY <2>1 DEF IsProfile
  <2>2. CASE profile \in Profile!OwnTexts
    BY <2>2, OwnTextIs DEF IsProfile
  <2>3. ASSUME NEW t \in Profile!OwnTexts, profile = t \o Profile!Lf \o Profile!OldBlock \o Profile!Lf
        PROVE  IsProfile(profile)
    BY <2>3, EarlierTextIs DEF IsProfile
  <2> QED
    BY <1>1, <2>1, <2>2, <2>3
<1> QED
  BY <1>1, <1>2 DEF ProfileInv, ProfileShape, ComparedInv, BackedUpInv, OriginalInv, UserTextSurvives,
     Profile!UserTextSurvives, ReportIsTrue, Profile!ReportIsTrue, Steps

LEMMA ProfileStep == ProfileInv /\ [Profile!Next]_(Profile!vars) => ProfileInv'
BY ProfileCases, ReadKeeps, PreparesKeep, MoveKeeps, EditKeepsInv, ProfileStays

LEMMA SpecProfile == Profile!Spec => []ProfileInv
BY ProfileInit, ProfileStep, PTL DEF Profile!Spec

\* Whatever commands run, fail or are killed, and whatever the user does to the profile, it
\* holds what the user last left outside the blocks, unless that edit fell into the window
\* between the last comparison and the move.
THEOREM SpecUserTextSurvives == Profile!Spec => []UserTextSurvives
<1>1. ProfileInv => UserTextSurvives
  BY DEF ProfileInv
<1> QED
  BY <1>1, SpecProfile, PTL

\* What the last command reported of the block holds until the user touches the profile.
THEOREM SpecReportIsTrue == Profile!Spec => []ReportIsTrue
<1>1. ProfileInv => ReportIsTrue
  BY DEF ProfileInv
<1> QED
  BY <1>1, SpecProfile, PTL

\* Only the move writes.
LEMMA OnlyMoveMoves ==
  ASSUME [Profile!Next]_(Profile!vars), step = "checked", step' = "moved"
  PROVE  Profile!Move
<1>1. ~UNCHANGED Profile!vars
  BY DEF Profile!vars, Profile!process
<1>2. \A w : ~Profile!Read(w)
  BY DEF Profile!Read
<1>3. ~Prepares
  BY DEF Prepares, Profile!BackUp, Profile!Check, Profile!Verify, Profile!Fail, Profile!Ended
<1>4. ~Profile!Edit
  BY DEF Profile!Edit, Profile!Leaves, Profile!process
<1> QED
  BY <1>1, <1>2, <1>3, <1>4, ProfileCases

\* uninstall takes no block the user edited, install only one it backed up, and the sweep of
\* the old block none of Winter's.
THEOREM SpecEditedBlocksSurvive == Profile!Spec => EditedBlocksSurvive
<1> DEFINE Survives ==
      step = "checked" /\ step' = "moved" /\ ~lateEdit /\ profile # None
       /\ Profile!Located(profile, "winter") /\ ~Profile!Intact(profile) =>
          \/ Profile!Located(profile', "winter")
             /\ Profile!Block(profile', "winter") = Profile!Block(profile, "winter")
          \/ what = "install" /\ backup = profile
<1>1. ASSUME ProfileInv, [Profile!Next]_(Profile!vars) PROVE Survives
  <2> SUFFICES ASSUME step = "checked", step' = "moved", ~lateEdit, profile # None,
                      Profile!Located(profile, "winter"), ~Profile!Intact(profile)
               PROVE  \/ Profile!Located(profile', "winter")
                         /\ Profile!Block(profile', "winter") = Profile!Block(profile, "winter")
                      \/ what = "install" /\ backup = profile
    OBVIOUS
  <2>1. profile' = Profile!Replacement
    BY <1>1, OnlyMoveMoves DEF Profile!Move
  <2>2. profile = read /\ backup = read /\ Writes(what, read) /\ IsProfile(read)
    BY <1>1 DEF ProfileInv, ComparedInv, BackedUpInv, ProfileShape, Steps
  <2>3. what = "install" \/ what = "sweep"
    BY <2>2 DEF Writes
  <2>4. CASE what = "sweep"
    <3>1. read \in Text /\ OldFirst(read) /\ Profile!BlockState(read, "old") = "Present"
      BY <2>2, <2>4 DEF Writes, IsProfile
    <3>2. PICK b, e : BlockAt(read, "old", b, e)
      BY <3>1, StatesOfBlock, LocatedIsBlock
    <3>3. Profile!Replacement = Profile!Cut(read, "old")
      BY <2>4 DEF Profile!Replacement, Profile!Brand
    <3> QED
      BY <2>1, <2>2, <3>1, <3>2, <3>3, SweepLeavesBlock
  <2> QED
    BY <2>2, <2>3, <2>4
<1>2. ProfileInv /\ [Profile!Next]_(Profile!vars) => [Survives]_(Profile!vars)
  BY <1>1
<1> QED
  BY <1>2, SpecProfile, PTL DEF Profile!Spec, EditedBlocksSurvive, Profile!EditedBlocksSurvive

\* Taking the block out of a profile nobody touched since it was put in gives back the text.
THEOREM SpecReversible == Profile!Spec => Reversible
<1> DEFINE GivesBack ==
      \A text \in Profile!Range(original) :
        what = "uninstall" /\ step = "checked" /\ step' = "moved" =>
          IF text = None THEN profile' = <<>> ELSE
               \/ profile' = text
               \/ Profile!Last(text) = "cr" /\ ~Profile!Occurs(Profile!CrLf, text)
<1>1. ASSUME ProfileInv, [Profile!Next]_(Profile!vars) PROVE GivesBack
  <2> SUFFICES ASSUME NEW text \in Profile!Range(original), what = "uninstall", step = "checked", step' = "moved"
               PROVE  IF text = None THEN profile' = <<>> ELSE
                           \/ profile' = text
                           \/ Profile!Last(text) = "cr" /\ ~Profile!Occurs(Profile!CrLf, text)
    OBVIOUS
  <2>1. profile' = Profile!Cut(read, "winter")
    BY <1>1, OnlyMoveMoves DEF Profile!Move, Profile!Replacement, Profile!Brand
  <2>2. original # <<>>
    BY DEF Profile!Range
  <2>3. PICK t : /\ original = <<t>> /\ WithoutBlock(t) /\ profile = Profile!Added(t)
                 /\ step \in Steps \ {"moved"} => read = profile
    BY <1>1, <2>2 DEF ProfileInv, OriginalInv
  <2>4. text = t
    BY <2>3 DEF Profile!Range
  <2>5. read = Profile!Added(text)
    BY <2>3, <2>4 DEF Steps
  <2>6. CASE text = None
    BY <2>1, <2>5, <2>6, CutCreated
  <2>7. CASE text # None
    <3>1. text \in Text /\ NoMarker(text, "winter")
      BY <2>3, <2>4, <2>7 DEF WithoutBlock
    <3> QED
      BY <2>1, <2>5, <2>7, <3>1, NewlineOfAdded, CutAdded
  <2> QED
    BY <2>6, <2>7
<1>2. ProfileInv /\ [Profile!Next]_(Profile!vars) => [GivesBack]_(Profile!vars)
  BY <1>1
<1> QED
  BY <1>2, SpecProfile, PTL DEF Profile!Spec, Reversible, Profile!Reversible

-----------------------------------------------------------------------------
(***************************************************************************)
(* Types of the profile and of the commands over it.                       *)
(***************************************************************************)
Commands == {"install", "uninstall", "sweep"}

BlockStatuses == {"none", "Create", "Update", "Unchanged", "Missing", "Preserved", "Removed",
             "Conflict", "Skipped"}

CommandTyped ==
  /\ read \in Text \cup {None} /\ backup \in Text \cup {None}
  /\ what \in Commands \cup {"none"} /\ report \in BlockStatuses
  /\ profileEdits \in 0..ProfileEdits /\ profileFaults \in 0..ProfileFaults

FlagsTyped == hosted \in BOOLEAN /\ lateEdit \in BOOLEAN /\ seenEdit \in BOOLEAN

LEMMA TypesOfProfile ==
  ASSUME ProfileInv, CommandTyped, FlagsTyped
  PROVE  Profile!TypeOK
<1>1. /\ profile \in Seq(Profile!Token) \cup {None} /\ read \in Seq(Profile!Token) \cup {None}
      /\ backup \in Seq(Profile!Token) \cup {None}
  BY DEF ProfileInv, ProfileShape, IsProfile, CommandTyped, Text
<1>2. {hosted, lateEdit, seenEdit} \subseteq BOOLEAN
  BY Zenon DEF FlagsTyped
<1>3. Len(original) <= 1 /\ Profile!Range(original) \subseteq Seq(Profile!Token) \cup {None}
  <2>1. CASE original = <<>>
    BY <2>1 DEF Profile!Range
  <2>2. ASSUME NEW t, original = <<t>>, WithoutBlock(t)
        PROVE  Len(original) <= 1 /\ Profile!Range(original) \subseteq Seq(Profile!Token) \cup {None}
    BY <2>2 DEF Profile!Range, WithoutBlock, Text
  <2> QED
    BY <2>1, <2>2 DEF ProfileInv, OriginalInv
<1>4. step # "idle" => /\ read = None \/ Profile!BlockState(read, Profile!Brand(what)) # "Malformed"
                       /\ Profile!Replacement \in Seq(Profile!Token)
  <2> SUFFICES ASSUME step # "idle"
               PROVE  /\ read = None \/ Profile!BlockState(read, Profile!Brand(what)) # "Malformed"
                      /\ Profile!Replacement \in Seq(Profile!Token)
    OBVIOUS
  <2>1. Results(what, read, Profile!Replacement)
    BY ReplacementIs DEF ProfileInv
  <2>2. Writes(what, read)
    BY DEF ProfileInv, ProfileShape
  <2> QED
    BY <2>1, <2>2 DEF Results, Text, Writes, Profile!Brand
<1> QED
  BY <1>1, <1>2, <1>3, <1>4 DEF Profile!TypeOK, CommandTyped, Commands, BlockStatuses, ProfileInv, ProfileShape,
     Steps

LEMMA VerdictIsStatus == \A w, t : Profile!Verdict(w, t) \in BlockStatuses
BY DEF Profile!Verdict, BlockStatuses

LEMMA EndedIsTyped ==
  ASSUME CommandTyped, NEW status \in BlockStatuses, Profile!Ended(status),
         what' \in Commands \cup {"none"}, UNCHANGED profileEdits, profileFaults' \in 0..ProfileFaults
  PROVE  CommandTyped'
BY DEF CommandTyped, Profile!Ended

LEMMA CommandStepsTyped ==
  ASSUME ProfileInv, CommandTyped, [Profile!Next]_(Profile!vars)
  PROVE  CommandTyped'
<1>0. "Conflict" \in BlockStatuses /\ "Skipped" \in BlockStatuses /\ "none" \in BlockStatuses
  BY DEF BlockStatuses
<1>1. ASSUME NEW w \in Commands, Profile!Read(w)
      PROVE  CommandTyped'
  <2>1. what' = w /\ UNCHANGED <<profile, profileEdits, profileFaults>>
    BY <1>1 DEF Profile!Read
  <2>2. CASE Profile!Verdict(w, profile) \in {"Create", "Update", "Removed"}
    <3>1. report' = "none" /\ read' = profile /\ backup' = backup
      BY <1>1, <2>2 DEF Profile!Read
    <3> QED
      BY <1>0, <2>1, <3>1 DEF CommandTyped, ProfileInv, ProfileShape, IsProfile
  <2>3. CASE Profile!Verdict(w, profile) \notin {"Create", "Update", "Removed"}
    <3>1. Profile!Ended(Profile!Verdict(w, profile))
      BY <1>1, <2>3 DEF Profile!Read
    <3> QED
      BY <2>1, <3>1, VerdictIsStatus, EndedIsTyped DEF CommandTyped
  <2> QED
    BY <2>2, <2>3
<1>2. CASE Profile!BackUp \/ Profile!Move
  BY <1>2 DEF Profile!BackUp, Profile!Move, CommandTyped
<1>3. CASE Profile!Check
  <2>1. UNCHANGED <<what, profileEdits, profileFaults>>
    BY <1>3 DEF Profile!Check
  <2>2. CASE Profile!Swappable
    BY <1>3, <2>1, <2>2 DEF Profile!Check, CommandTyped
  <2>3. CASE ~Profile!Swappable
    BY <1>0, <1>3, <2>1, <2>3, EndedIsTyped DEF Profile!Check, CommandTyped
  <2> QED
    BY <2>2, <2>3
<1>4. CASE Profile!Verify
  <2>1. PICK status \in BlockStatuses : Profile!Ended(status)
    BY <1>0, <1>4, VerdictIsStatus DEF Profile!Verify
  <2> QED
    BY <1>4, <2>1, EndedIsTyped DEF Profile!Verify, CommandTyped
<1>5. CASE Profile!Fail
  <2>1. profileFaults' \in 0..ProfileFaults
    BY <1>5, TextAssumption DEF Profile!Fail, CommandTyped
  <2> QED
    BY <1>0, <1>5, <2>1, EndedIsTyped DEF Profile!Fail, CommandTyped
<1>6. CASE Profile!Edit
  <2>1. \E t : Profile!Leaves(t)
    BY <1>6, EditIs DEF ProfileInv, ProfileShape
  <2>2. /\ profileEdits < ProfileEdits /\ profileEdits' = profileEdits + 1
        /\ UNCHANGED <<what, read, backup, report, profileFaults>>
    BY <2>1 DEF Profile!Leaves, Profile!process
  <2> QED
    BY <2>2, TextAssumption DEF CommandTyped
<1>7. CASE UNCHANGED Profile!vars
  BY <1>7 DEF Profile!vars, Profile!process, CommandTyped
<1> QED
  BY <1>1, <1>2, <1>3, <1>4, <1>5, <1>6, <1>7 DEF Profile!Next, Commands

LEMMA FlagsStepTyped ==
  ASSUME ProfileInv, FlagsTyped, [Profile!Next]_(Profile!vars)
  PROVE  FlagsTyped'
<1>1. ASSUME NEW w, Profile!Read(w)
      PROVE  FlagsTyped'
  BY <1>1, Zenon DEF Profile!Read, FlagsTyped
<1>2. CASE Profile!BackUp \/ Profile!Check \/ Profile!Verify \/ Profile!Fail
  BY <1>2, Zenon DEF Profile!BackUp, Profile!Check, Profile!Verify, Profile!Fail, Profile!history, FlagsTyped
<1>3. CASE Profile!Move
  BY <1>3, Zenon DEF Profile!Move, FlagsTyped
<1>4. CASE Profile!Edit
  <2>1. \E t : Profile!Leaves(t)
    BY <1>4, EditIs DEF ProfileInv, ProfileShape
  <2>2. lateEdit' = (step = "checked")
    BY <2>1 DEF Profile!Leaves
  <2>3. lateEdit' \in BOOLEAN
    BY <2>2, Zenon
  <2>4. seenEdit' = TRUE /\ hosted' = hosted
    BY <2>1 DEF Profile!Leaves
  <2> QED
    BY <2>3, <2>4, Zenon DEF FlagsTyped
<1>5. CASE UNCHANGED Profile!vars
  BY <1>5, Zenon DEF Profile!vars, Profile!history, FlagsTyped
<1> QED
  BY <1>1, <1>2, <1>3, <1>4, <1>5 DEF Profile!Next

\* The profile and what a command has read of it are texts, and a command that is going to
\* write has read one it can edit, whatever the user made of the markers.
THEOREM SpecProfileTypeOK == Profile!Spec => []Profile!TypeOK
<1>1. Profile!Init => CommandTyped /\ FlagsTyped
  <2> SUFFICES ASSUME Profile!Init PROVE CommandTyped /\ FlagsTyped
    OBVIOUS
  <2>1. FlagsTyped
    BY Zenon DEF Profile!Init, FlagsTyped
  <2>2. CommandTyped
    BY TextAssumption DEF Profile!Init, CommandTyped, BlockStatuses
  <2> QED
    BY <2>1, <2>2
<1>2. ProfileInv /\ CommandTyped /\ FlagsTyped /\ [Profile!Next]_(Profile!vars) => CommandTyped' /\ FlagsTyped'
  BY CommandStepsTyped, FlagsStepTyped
<1>3. ProfileInv /\ CommandTyped /\ FlagsTyped => Profile!TypeOK
  BY TypesOfProfile
<1> QED
  BY <1>1, <1>2, <1>3, SpecProfile, PTL DEF Profile!Spec

-----------------------------------------------------------------------------
(***************************************************************************)
(* The parts side by side.                                                 *)
(***************************************************************************)

\* What is proved of a part holds of it in the company of the others: they share
\* no state, and a step of one leaves the others where they are.
THEOREM PartsKeepTheirSpecs == InstallSpec => Spec /\ Profile!Spec /\ Task!Spec
<1>1. InstallInit => Init /\ Profile!Init /\ Task!Init
  BY DEF InstallInit, Starts
<1>2. [InstallNext]_InstallVars =>
        [Next]_vars /\ [Profile!Next]_(Profile!vars) /\ [Task!Next]_(Task!vars)
  BY DEF InstallNext, InstallVars, profileVars, taskVars, Profile!vars, Profile!process,
         Profile!history, Task!vars
<1> QED
  BY <1>1, <1>2, PTL DEF InstallSpec, Spec, Profile!Spec, Task!Spec

=============================================================================
