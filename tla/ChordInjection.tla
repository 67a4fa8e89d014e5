--------------------------- MODULE ChordInjection ---------------------------
(***************************************************************************)
(* How the action worker types a chord into Windows Terminal:              *)
(* src/platform/windows/input.rs.  The keyboard is shared with the user,   *)
(* who presses and releases keys, and changes the foreground window, at    *)
(* any moment but during one SendInput call.  A call may insert any prefix *)
(* of what it was given.                                                   *)
(*                                                                         *)
(* A modifier has two keys, either of which counts as the modifier being   *)
(* held; what Winter presses itself is the left one.  A press the hook     *)
(* consumed never reaches the keyboard state.                              *)
(***************************************************************************)
EXTENDS Naturals, Sequences, SequencesExt

CONSTANT UserKeys   \* the keys the user touches

Modifier == {"control", "alt", "shift"}

Left  == [control |-> "lcontrol", alt |-> "lalt", shift |-> "lshift"]
Right == [control |-> "rcontrol", alt |-> "ralt", shift |-> "rshift"]

Windows == "windows"   \* VK_LWIN or VK_RWIN
Target  == "target"    \* the key of the chord

Key == {Left[m] : m \in Modifier} \cup {Right[m] : m \in Modifier} \cup {Windows, Target}

ASSUME UserKeysAssumption == UserKeys \subseteq Key

VARIABLES
  physical,   \* the keys the user holds
  swallowed,  \* the hook consumed the press of the target key the user holds
  down,       \* the keys that are down for Windows: GetAsyncKeyState
  front,      \* the target window is in the foreground
  step,       \* where send_chord is
  wanted,     \* the modifiers of the chord
  literal,    \* ~check_target_key
  planned,    \* the ModifierSnapshot the plan was built on
  sent,       \* the events SendInput inserted
  heard,      \* history: what the last dispatch typed, and into what
  steady,     \* history: what has not changed since send_chord last checked it
  kept,       \* history: modifiers held since before the last plan
  stuck       \* history: keys a cleanup that failed was reported to have left down

user_vars == <<physical, swallowed, down, front>>
request == <<wanted, literal, planned>>
chord_vars == <<user_vars, step, request, sent, heard, steady, kept, stuck>>

Silence == [wanted |-> {}, modifiers |-> {}, front |-> FALSE, steady |-> {}]

-----------------------------------------------------------------------------
(***************************************************************************)
(* ModifierSnapshot and the plan.                                          *)
(***************************************************************************)

HeldModifiers(keys) == {m \in Modifier : {Left[m], Right[m]} \cap keys # {}}

Captured == HeldModifiers(down) \cup (down \cap {Windows, Target})

\* The target key must be free, unless it is replayed literally, and so must be
\* the modifiers the chord does not have.
Refused(modifiers, replay, snapshot) ==
  \/ ~replay /\ Target \in snapshot
  \/ Windows \in snapshot
  \/ (snapshot \cap Modifier) \ modifiers # {}

\* plan_modifier presses what the user does not hold already.
Pressed(m) == IF m \in wanted \ planned THEN <<Left[m]>> ELSE <<>>

Events(keys, transition) ==
  [i \in 1..Len(keys) |-> [key |-> keys[i], transition |-> transition]]

ChordKeys == Pressed("control") \o Pressed("alt") \o Pressed("shift") \o <<Target>>

Plan == Events(ChordKeys, "Down") \o Events(Reverse(ChordKeys), "Up")

Inserted == SubSeq(Plan, 1, sent)

-----------------------------------------------------------------------------
(***************************************************************************)
(* What events do to the keyboard.                                         *)
(***************************************************************************)

LeftDown(events) ==
  {e \in Range(events) :
     e.transition = "Down" /\ [e EXCEPT !.transition = "Up"] \notin Range(events)}

KeysOf(events) == {e.key : e \in events}

After(keys, events) == (keys \ KeysOf(Range(events))) \cup KeysOf(LeftDown(events))

\* Mutant of CleanupAfter: the last event inserted is not looked at.
CleanupBeforeLast(events) == KeysOf(LeftDown(Front(events)))

\* cleanup_after: what the inserted events left down.
CleanupAfter(events) == KeysOf(LeftDown(events))

-----------------------------------------------------------------------------
(***************************************************************************)
(* send_chord.                                                             *)
(***************************************************************************)

End ==
  /\ step' = "idle"
  /\ wanted' = {} /\ literal' = FALSE /\ planned' = {} /\ sent' = 0 /\ steady' = {}

SendChord(modifiers, replay) ==
  /\ step = "idle"
  /\ IF Refused(modifiers, replay, Captured) THEN End
     ELSE /\ step' = "planned"
          /\ wanted' = modifiers /\ literal' = replay /\ planned' = Captured
          /\ UNCHANGED <<sent, steady>>
  /\ heard' = Silence
  /\ kept' = (physical \cap down) \ {Target}
  /\ UNCHANGED <<user_vars, stuck>>

\* validate_window_identity may fail whenever it likes.
CheckTarget ==
  /\ step = "planned"
  /\ \/ front /\ step' = "focused" /\ steady' = {"window"} /\ UNCHANGED <<request, sent>>
     \/ End
  /\ UNCHANGED <<user_vars, heard, kept, stuck>>

\* Mutant of Drifted: only what is newly held counts.
DriftedUp ==
  \/ (Captured \cap (Modifier \cup {Windows})) \ planned # {}
  \/ ~literal /\ Target \in Captured

\* compare_modifier_state.
Drifted ==
  \/ Captured \cap (Modifier \cup {Windows}) # planned \cap (Modifier \cup {Windows})
  \/ ~literal /\ Target \in Captured

Recheck ==
  /\ step = "focused"
  /\ IF Drifted THEN End
     ELSE step' = "checked" /\ steady' = steady \cup {"keys"} /\ UNCHANGED <<request, sent>>
  /\ UNCHANGED <<user_vars, heard, kept, stuck>>

\* The chord is typed with the modifiers that are down when its key goes down.
Insert(n) ==
  LET events == SubSeq(Plan, 1, n)
      press == Len(ChordKeys)
  IN  /\ step = "checked"
      /\ down' = After(down, events)
      /\ IF n = Len(Plan) THEN End
         ELSE step' = "partial" /\ sent' = n /\ UNCHANGED <<request, steady>>
      /\ heard' = IF n < press THEN Silence
                  ELSE [wanted |-> wanted,
                        modifiers |-> HeldModifiers(After(down, SubSeq(Plan, 1, press))),
                        front |-> front, steady |-> steady]
      /\ stuck' = stuck \ KeysOf(Range(events))
      /\ UNCHANGED <<physical, swallowed, front, kept>>

\* The key pressed last is released first.  The second SendInput may be cut short
\* as well; the error says so.
Cleanup(released) ==
  LET keys == CleanupAfter(Inserted)
  IN  /\ step = "partial" /\ released \subseteq keys
      /\ \A k \in released, other \in keys \ released :
           \E i, j \in DOMAIN Inserted :
             i < j /\ Inserted[i].key = other /\ Inserted[j].key = k
      /\ down' = down \ released
      /\ End
      /\ stuck' = (stuck \ released) \cup (keys \ released)
      /\ UNCHANGED <<physical, swallowed, front, heard, kept>>

-----------------------------------------------------------------------------
(***************************************************************************)
(* The user, and the hook that consumes what belongs to a prefix session.  *)
(***************************************************************************)

Press(k) ==
  /\ k \notin physical
  /\ physical' = physical \cup {k}
  /\ \/ down' = down \cup {k} /\ stuck' = stuck \ {k} /\ UNCHANGED swallowed
     \/ k = Target /\ swallowed' = TRUE /\ UNCHANGED <<down, stuck>>
  /\ steady' = steady \ {"keys"}
  /\ UNCHANGED <<front, step, request, sent, heard, kept>>

Release(k) ==
  /\ k \in physical
  /\ physical' = physical \ {k}
  /\ IF k = Target /\ swallowed THEN swallowed' = FALSE /\ UNCHANGED <<down, stuck>>
     ELSE down' = down \ {k} /\ stuck' = stuck \ {k} /\ UNCHANGED swallowed
  /\ steady' = steady \ {"keys"}
  /\ kept' = kept \ {k}
  /\ UNCHANGED <<front, step, request, sent, heard>>

FocusChange ==
  /\ front' = ~front
  /\ steady' = steady \ {"window"}
  /\ UNCHANGED <<physical, swallowed, down, step, request, sent, heard, kept, stuck>>

ChordInit ==
  /\ physical = {} /\ down = {} /\ swallowed = FALSE
  /\ front \in BOOLEAN
  /\ step = "idle"
  /\ wanted = {} /\ literal = FALSE /\ planned = {} /\ sent = 0
  /\ heard = Silence /\ steady = {} /\ kept = {} /\ stuck = {}

ChordNext ==
  \/ \E modifiers \in SUBSET Modifier, replay \in BOOLEAN : SendChord(modifiers, replay)
  \/ CheckTarget \/ Recheck
  \/ \E n \in 0..Len(Plan) : Insert(n)
  \/ \E released \in SUBSET CleanupAfter(Inserted) : Cleanup(released)
  \/ \E k \in UserKeys : Press(k) \/ Release(k)
  \/ FocusChange

ChordSpec == ChordInit /\ [][ChordNext]_chord_vars

-----------------------------------------------------------------------------
(* Properties *)

\* Every variable has its type, and at most eight events are planned.
ChordTypeOK ==
  /\ physical \subseteq Key /\ down \subseteq Key /\ kept \subseteq Key /\ stuck \subseteq Key
  /\ {swallowed, front, literal} \subseteq BOOLEAN
  /\ steady \subseteq {"window", "keys"}
  /\ step \in {"idle", "planned", "focused", "checked", "partial"}
  /\ wanted \subseteq Modifier /\ planned \subseteq Modifier \cup {Windows, Target}
  /\ sent \in 0..8 /\ Len(Plan) <= 8
  /\ heard \in [wanted: SUBSET Modifier, modifiers: SUBSET Modifier,
             front: BOOLEAN, steady: SUBSET {"window", "keys"}]

\* However little of a chord SendInput inserted, and whatever the user did
\* meanwhile, no key is down afterwards that the user does not hold, except
\* those an error reported as left down.
NothingStuck == step = "idle" => down \subseteq physical \cup stuck

\* A modifier the user has held since before the plan is never released by the
\* chord, nor by its cleanup.
HeldKeysStay == kept \subseteq down

\* A chord leaves the keyboard as the user has it: no key down that the user does
\* not hold, none up that the user has held all along.
KeyboardIsTheUsers == NothingStuck /\ HeldKeysStay

\* The chord goes to the target with its modifiers and no other, unless the
\* window or the keys changed after send_chord last looked at them.
HeardAsPlanned ==
  /\ "window" \in heard.steady => heard.front
  /\ "keys" \in heard.steady => heard.modifiers = heard.wanted

=============================================================================
