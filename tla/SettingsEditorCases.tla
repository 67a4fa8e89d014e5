------------------------ MODULE SettingsEditorCases ------------------------
(***************************************************************************)
(* What the settings editor does to every small file, and that the states  *)
(* Integration tells a binding by are enough to say it.                    *)
(***************************************************************************)
EXTENDS SettingsEditor, Integration

SmallSequences(S, n) == UNION {[1..k -> S] : k \in 0..n}

\* Chords of up to four parts.
ChordParts == {"", "ctrl", "control", "shift", "f13", "esc", "plus"}

\* Two managed bindings, one of them spelled otherwise than its canonical form.
LeftDefinition == Entry(Id("winter.left", "Winter.Left"), "string", <<<<"shift", "control", "f13">>>>, FALSE)
RightDefinition == Entry(Id("winter.right", "Winter.Right"), "string", <<<<"f14">>>>, FALSE)
Wanted == <<Desired(LeftDefinition), Desired(RightDefinition)>>

\* Each of them as written and as a user may rewrite it; the chords bound to
\* actions of the user; entries of no consequence, well formed or not.
SampleEntries ==
  LET left == Id("winter.left", "winter.LEFT")
      user == Id("user.action", "User.Action")
      f13 == <<"ctrl", "shift", "f13">>
      f14 == <<"f14">>
      bad == <<"ctrl">>
  IN {LeftDefinition, RightDefinition, NotAnObject,
      Entry(left, "string", <<f13>>, TRUE), Entry(left, "array", <<f13>>, FALSE),
      Entry(left, "array", <<f13, <<"f9">>>>, FALSE), Entry(left, "string", <<f14>>, FALSE),
      Entry(left, "string", <<bad>>, FALSE), Entry(left, "missing", << >>, FALSE),
      Entry(user, "string", <<f13>>, FALSE), Entry(user, "array", <<f13, f14>>, FALSE),
      Entry(user, "array", << >>, FALSE), Entry(NoId, "string", <<f14>>, TRUE),
      Entry(NoId, "string", <<<<"ctrl", "x">>>>, TRUE), Entry(NotText, "string", <<f13>>, FALSE),
      Entry(Id("", "  "), "string", <<f13>>, FALSE)}

SmallProps ==
  {<< >>, <<Property(FALSE, << >>)>>}
    \cup {<<Property(TRUE, entries)>> : entries \in SmallSequences(SampleEntries, 2)}
    \cup {<<Property(TRUE, <<e>>), Property(TRUE, <<LeftDefinition>>)>> : e \in SampleEntries}

SmallFiles ==
  {File("UTF-8", TRUE, "object", props) : props \in SmallProps}
    \cup {File(bom, sound, root, << >>) :
            bom \in {"none", "UTF-16LE", "UTF-16BE"}, sound \in BOOLEAN, root \in {"object", "array"}}

WantedSequences == {<< >>, <<Wanted[1]>>, Wanted}

-----------------------------------------------------------------------------
\* The canonical form of a chord is its own canonical form, and does not depend
\* on the order of the modifiers (normalize_chord).
ChordsAreCanonical ==
  \A parts \in SmallSequences(ChordParts, 4) :
    LET chord == NormalizeChord(parts)
    IN chord # << >> =>
         /\ NormalizeChord(chord) = chord
         /\ "" \notin Range(parts) => NormalizeChord(Reverse(parts)) = chord

\* The definitions Winter writes are ones it may take out again, no two of them
\* of one id or chord (desired_keybinding, validate_desired_bindings).
WantedIsManaged ==
  ValidDesired(Wanted) /\ \A d \in Range(Wanted) : IsManagedDefinition(d.definition)

\* What was merged is found there: merging again adds nothing and objects to
\* nothing (merge_keybindings).
MergeIsIdempotent ==
  \A f \in SmallFiles, desired \in WantedSequences :
    LET merge == MergeKeybindings(f, desired)
        again == MergeKeybindings(merge.file, desired)
    IN merge.ok /\ merge.conflicts = {} =>
         again.ok /\ again.conflicts = {} /\ again.additions = << >> /\ again.file = merge.file

\* A merge with a conflict writes nothing; one without leaves every entry where
\* it was, and the file in its encoding (merge_keybindings).
MergeOnlyAppends ==
  \A f \in SmallFiles, desired \in WantedSequences :
    LET merge == MergeKeybindings(f, desired)
    IN merge.ok =>
         /\ merge.conflicts # {} => merge.file = f
         /\ [merge.file EXCEPT !.props = f.props] = f
         /\ merge.file # f => IsPrefix(EntriesOf(f), EntriesOf(merge.file))

\* A plan counts and objects as the merge will (analyze_keybindings).
PlanForetellsMerge ==
  \A f \in SmallFiles, desired \in WantedSequences :
    LET merge == MergeKeybindings(f, desired)
        plan == AnalyzeKeybindings(f, desired)
    IN /\ plan.ok = merge.ok
       /\ merge.ok => plan.conflicts = merge.conflicts /\ plan.bindings_to_add = Len(merge.additions)

\* Taking out what a merge added gives the file back, but for the array the
\* merge created (merge_keybindings, remove_managed_keybindings).
RemovalUndoesMerge ==
  \A f \in SmallFiles, desired \in WantedSequences :
    LET merge == MergeKeybindings(f, desired)
        removal == RemoveManaged(merge.file, merge.additions)
    IN merge.ok /\ merge.conflicts = {} =>
         /\ removal.ok /\ removal.removed = Len(merge.additions) /\ removal.retained = << >>
         /\ removal.file = IF merge.file = f THEN f ELSE WithEntries(f, EntriesOf(f))

\* A removal leaves nothing to remove: done again for what was retained it
\* retains the same (remove_managed_keybindings).
RemovalIsIdempotent ==
  \A f \in SmallFiles, managed \in WantedSequences :
    LET removal == RemoveManaged(f, managed)
        again == RemoveManaged(removal.file, removal.retained)
    IN removal.ok =>
         again.ok /\ again.removed = 0 /\ again.retained = removal.retained /\ again.file = removal.file

\* Malformed entries never stop the legacy sweep: the refusal the code has for
\* them is out of reach (remove_legacy_keybindings).
SweepNeverObjects ==
  \A f \in SmallFiles :
    Readable(f) /\ (f.props = << >> \/ HasArray(f)) => RemoveLegacy(f, {"winter.left"}).ok

-----------------------------------------------------------------------------
\* The state Integration gives a binding of a list of entries.
StateOf(entries, d) ==
  LET existing == ExistingBindings(entries)
      pairs == {x \in existing : x.id = d.id /\ x.chord = d.chord}
  IN CASE Malformed(entries, {d.id}) # {} -> "malformed"
       [] Malformed(entries, {d.id}) = {} /\ pairs # {} ->
            (IF \E x \in pairs : x.bare THEN "ours" ELSE "annotated")
       [] OTHER -> IF \E x \in existing : x.id = d.id \/ x.chord = d.chord
                     THEN "altered" ELSE "absent"

StatesOf(entries, definition) ==
  [bound |-> [b \in Bindings |-> StateOf(entries, definition[b])], edit |-> 0]

\* Binding by binding, Integration's operators say what the editor does to a
\* file of one array (scan_keybindings, remove_managed_keybindings).
StatesAreEnough ==
  \A entries \in SmallSequences(SampleEntries, 2), owned \in SUBSET Bindings,
     definition \in Injection(Bindings, Range(Wanted)) :
    LET f == File("UTF-8", TRUE, "object", <<Property(TRUE, entries)>>)
        wanted(bs) == {definition[b] : b \in bs}
        states == StatesOf(entries, definition)
        merge == MergeKeybindings(f, SetToSeq(wanted(Bindings)))
        removal == RemoveManaged(f, SetToSeq(wanted(owned)))
    IN /\ Conflicting(states) <=> merge.conflicts # {}
       /\ merge.conflicts = {} =>
            /\ Range(merge.additions) = wanted(Additions(states))
            /\ StatesOf(EntriesOf(merge.file), definition) = Merged(states)
       /\ removal.ok <=> Removable(states, owned)
       /\ removal.ok =>
            /\ removal.removed = Cardinality(Removed(states, owned))
            /\ Range(removal.retained) = wanted(Retained(states, owned))

ASSUME SettingsEditorAssumption ==
  /\ ChordsAreCanonical /\ WantedIsManaged
  /\ MergeIsIdempotent /\ MergeOnlyAppends /\ PlanForetellsMerge
  /\ RemovalUndoesMerge /\ RemovalIsIdempotent /\ SweepNeverObjects
  /\ StatesAreEnough
=============================================================================
