--------------------------- MODULE SettingsEditor ---------------------------
(***************************************************************************)
(* The settings editor of src/integration/jsonc.rs: what an install adds   *)
(* to the root `keybindings` of a Windows Terminal settings file, what an  *)
(* uninstall and the legacy sweep take out of it, and what a plan counts.  *)
(*                                                                         *)
(* Integration uses the outcome of these operators binding by binding;     *)
(* SettingsEditorCases checks that this is enough.  A file is what the     *)
(* editor reads: a byte order mark, the `keybindings` properties of the    *)
(* root object and their entries.  A chord is the sequence of its parts,   *)
(* trimmed and lowercased, "" an empty one.                                *)
(***************************************************************************)
EXTENDS Naturals, Sequences, FiniteSets, SequencesExt

\* What an entry has for an id: nothing, something that is no string, or a text
\* whose spelling comes to the trimmed, lowercase name.
NoId == [text |-> FALSE, given |-> FALSE]
NotText == [text |-> FALSE, given |-> TRUE]
Id(name, spelling) == [text |-> TRUE, given |-> TRUE, name |-> name, spelling |-> spelling]

-----------------------------------------------------------------------------
(* Names and chords.                                                       *)

ModifierOrder == <<"ctrl", "shift", "alt", "win">>

Aliases ==
  [control |-> "ctrl", windows |-> "win", escape |-> "esc", return |-> "enter",
   pageup |-> "pgup", pagedown |-> "pgdn", oemplus |-> "plus"]

ChordToken(part) == IF part \in DOMAIN Aliases THEN Aliases[part] ELSE part

\* The canonical chord of what a file spells, << >> when it is refused.  A run of
\* empty parts is one literal plus key.
NormalizeChord(parts) ==
  LET names == {i \in DOMAIN parts : parts[i] # "" /\ ChordToken(parts[i]) \in Range(ModifierOrder)}
      used == {ChordToken(parts[i]) : i \in names}
      keys == {i \in DOMAIN parts \ names : parts[i] = "" /\ i > 1 => parts[i - 1] # ""}
      key(i) == IF parts[i] = "" THEN "plus" ELSE ChordToken(parts[i])
  IN IF parts = <<"">> \/ Cardinality(used) # Cardinality(names) \/ Cardinality(keys) # 1
       THEN << >>
       ELSE SelectSeq(ModifierOrder, LAMBDA m : m \in used) \o <<key(CHOOSE i \in keys : TRUE)>>

-----------------------------------------------------------------------------
(* One entry of `keybindings`.                                             *)

\* form: what `keys` is; extra: whether the object has other members.
Entry(id, form, chords, extra) ==
  [object |-> TRUE, id |-> id, form |-> form, chords |-> chords, extra |-> extra]

NotAnObject == [object |-> FALSE]

HasName(e) == e.object /\ e.id.text /\ e.id.name # ""
IdOf(e) == IF HasName(e) THEN e.id.name ELSE ""
ChordsOf(e) == [i \in DOMAIN e.chords |-> NormalizeChord(e.chords[i])]

\* A chord of an array that is no string is refused like one that does not parse.
ParsesBinding(e) ==
  /\ e.object
  /\ HasName(e) \/ ~e.id.given
  /\ e.form \in {"string", "array"}
  /\ e.chords # << >>
  /\ << >> \notin Range(ChordsOf(e))

\* The only shape Winter may take out again.
HasOnlyIdAndKeys(e) == e.id.given /\ e.form = "string" /\ ~e.extra

\* One pass over the entries: a binding for every chord of every usable one.
ExistingBindings(entries) ==
  UNION {{[at |-> i, id |-> IdOf(entries[i]), chord |-> c, bare |-> HasOnlyIdAndKeys(entries[i])] :
            c \in Range(ChordsOf(entries[i]))} :
         i \in {j \in DOMAIN entries : ParsesBinding(entries[j])}}

\* A malformed entry is in the way only when it names a wanted id.
Malformed(entries, ids) ==
  {i \in DOMAIN entries : ~ParsesBinding(entries[i]) /\ HasName(entries[i]) /\ IdOf(entries[i]) \in ids}

Warnings(entries, ids) ==
  {i \in DOMAIN entries : ~ParsesBinding(entries[i])} \ Malformed(entries, ids)

-----------------------------------------------------------------------------
(* What is to be bound.                                                    *)

\* A managed definition is a bare entry of one chord.
IsManagedDefinition(e) == ParsesBinding(e) /\ HasOnlyIdAndKeys(e)

Desired(definition) ==
  [id |-> IdOf(definition), chord |-> ChordsOf(definition)[1], definition |-> definition]

ValidDesired(desired) ==
  \A i, j \in DOMAIN desired :
    i # j => desired[i].id # desired[j].id /\ desired[i].chord # desired[j].chord

IdsOf(records) == {r.id : r \in Range(records)}

-----------------------------------------------------------------------------
(* Files.                                                                  *)

\* sound: the bytes decode, and the text parses as JSONC.
File(bom, sound, root, props) == [bom |-> bom, sound |-> sound, root |-> root, props |-> props]

Property(array, entries) == [array |-> array, entries |-> entries]

Readable(f) == f.bom # "UTF-16BE" /\ f.sound /\ f.root = "object"

\* The property the parser's `get` finds is the first one.
HasArray(f) == f.props # << >> /\ f.props[1].array
EntriesOf(f) == IF f.props = << >> THEN << >> ELSE f.props[1].entries

\* Everything but the first `keybindings` is written back as it was read, byte
\* order mark included.
WithEntries(f, entries) ==
  [f EXCEPT !.props = IF @ = << >> THEN <<Property(TRUE, entries)>>
                      ELSE [@ EXCEPT ![1].entries = entries]]

ShapeConflict(f) == Len(f.props) > 1 \/ \E p \in Range(f.props) : ~p.array

-----------------------------------------------------------------------------
(* Adding.                                                                 *)

Conflict(kind, id, chord) == [kind |-> kind, id |-> id, chord |-> chord]

\* What stands in the way of one wanted binding; a pair that is there already is
\* found before anything else.
Obstacle(existing, d) ==
  IF \E x \in existing : x.id = d.id /\ x.chord = d.chord THEN "present"
  ELSE IF \E x \in existing : x.id = d.id THEN "SameIdDifferentBinding"
  ELSE IF \E x \in existing : x.chord = d.chord THEN "SameChordDifferentBinding"
  ELSE "none"

\* A set: conflicts are deduplicated, and their wording is left out.
ScanKeybindings(entries, desired) ==
  LET existing == ExistingBindings(entries)
      fate(d) == Obstacle(existing, d)
  IN [existing |-> Len(entries),
      additions |-> SelectSeq(desired, LAMBDA d : fate(d) = "none"),
      matching |-> Cardinality({i \in DOMAIN desired : fate(desired[i]) = "present"}),
      conflicts |->
        {Conflict("MalformedKeybinding", "", << >>) : i \in Malformed(entries, IdsOf(desired))}
        \cup {Conflict(fate(d), d.id, d.chord) :
                d \in {w \in Range(desired) : fate(w) \notin {"present", "none"}}},
      warnings |-> Cardinality(Warnings(entries, IdsOf(desired)))]

\* The result of a call that fails.
Refused == [ok |-> FALSE]

Merge(additions, conflicts, result) ==
  [ok |-> TRUE, additions |-> additions, conflicts |-> conflicts, file |-> result]

\* file: what is to be written, the file itself when nothing is.
MergeKeybindings(f, desired) ==
  LET scan == ScanKeybindings(EntriesOf(f), desired)
      definitions == [i \in DOMAIN scan.additions |-> scan.additions[i].definition]
  IN CASE ~Readable(f) -> Refused
       [] Readable(f) /\ ShapeConflict(f) ->
            Merge(<< >>, {Conflict("InvalidSettingsShape", "", << >>)}, f)
       [] OTHER ->
            Merge(scan.additions, scan.conflicts,
                  IF scan.conflicts # {} \/ definitions = << >> THEN f
                  ELSE WithEntries(f, EntriesOf(f) \o definitions))

AnalyzeKeybindings(f, desired) ==
  LET scan == ScanKeybindings(EntriesOf(f), desired)
      count(conflicts, existing, toAdd, managed, warnings) ==
        [ok |-> TRUE, conflicts |-> conflicts, existing_binding_count |-> existing,
         bindings_to_add |-> toAdd, managed_binding_count |-> managed, warnings |-> warnings]
  IN CASE ~Readable(f) -> Refused
       [] Readable(f) /\ ShapeConflict(f) ->
            count({Conflict("InvalidSettingsShape", "", << >>)}, 0, 0, 0, 0)
       [] OTHER -> count(scan.conflicts, scan.existing, Len(scan.additions), scan.matching,
                         scan.warnings)

-----------------------------------------------------------------------------
(* Taking out.                                                             *)

Removal(removed, retained, result) ==
  [ok |-> TRUE, removed |-> removed, retained |-> retained, file |-> result]

WithoutEntries(entries, gone) ==
  LET kept == SetToSortSeq(DOMAIN entries \ gone, <)
  IN [i \in DOMAIN kept |-> entries[kept[i]]]

\* The first bare entry of a record's id and chord that no record before it took.
Exact(existing, record, taken) ==
  {x.at : x \in {y \in existing :
                   y.bare /\ y.at \notin taken /\ y.id = record.id /\ y.chord = record.chord}}

\* Of a record that is not found as written but whose id or chord is still in
\* use, the manifest keeps account.
RemoveManaged(f, managed) ==
  LET existing == ExistingBindings(EntriesOf(f))
      step(sofar, record) ==
        LET exact == Exact(existing, record, sofar.taken)
            modified == \E x \in existing : x.id = record.id \/ x.chord = record.chord
        IN IF exact # {}
             THEN [sofar EXCEPT !.taken = @ \cup {CHOOSE i \in exact : \A j \in exact : i <= j}]
             ELSE [sofar EXCEPT !.retained = IF modified THEN Append(@, record) ELSE @]
      all == FoldLeft(step, [taken |-> {}, retained |-> << >>], managed)
  IN CASE ~Readable(f) \/ (f.props # << >> /\ ~HasArray(f)) -> Refused
       [] Readable(f) /\ f.props = << >> -> Removal(0, << >>, f)
       [] /\ Readable(f) /\ HasArray(f)
          /\ \/ Malformed(EntriesOf(f), IdsOf(managed)) # {}
             \/ \E r \in Range(managed) : ~IsManagedDefinition(r.definition) -> Refused
       [] OTHER ->
            Removal(Cardinality(all.taken), all.retained,
                    WithEntries(f, WithoutEntries(EntriesOf(f), all.taken)))

\* The legacy sweep goes by the id alone, and counts chords where it takes out
\* entries.  It looks for malformed entries of no id at all, so none stops it.
RemoveLegacy(f, legacyIds) ==
  LET found == {x \in ExistingBindings(EntriesOf(f)) : x.id \in legacyIds}
      chords == UNION {{x.at} \X DOMAIN EntriesOf(f)[x.at].chords : x \in found}
  IN CASE ~Readable(f) \/ (f.props # << >> /\ ~HasArray(f)) -> Refused
       [] Readable(f) /\ f.props = << >> -> Removal(0, << >>, f)
       [] OTHER -> Removal(Cardinality(chords), << >>,
                           WithEntries(f, WithoutEntries(EntriesOf(f), {x.at : x \in found})))
=============================================================================
