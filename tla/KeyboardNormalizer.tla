------------------------- MODULE KeyboardNormalizer -------------------------
(***************************************************************************)
(* The KeyboardNormalizer of src/controller/keyboard.rs: one slot for each *)
(* side of each modifier, from which the modifiers of every key event are  *)
(* computed.                                                               *)
(*                                                                         *)
(* Around it, the keyboard: Windows may report a key of either side under  *)
(* the generic virtual key of its modifier, may not report what happens on *)
(* another desktop, and may run the hook before it notes the release       *)
(* itself.  KeyboardSession takes the modifiers of an event to be those    *)
(* held; here is when they are.                                            *)
(***************************************************************************)

CONSTANT Group  \* the modifiers: "ctrl", "alt", "shift" and "windows"

Key == Group \X {"left", "right"}
KeysOf(g) == {k \in Key : k[1] = g}

VARIABLES
  slots,      \* the slots that are set
  modifiers,  \* the modifiers of the last event
  held,       \* the modifier keys that are down
  disturbed   \* history: the keys whose slot no event has settled since one of
              \* theirs was missed or went to another slot

normalizer_vars == <<slots, modifiers, held, disturbed>>

IsHeld(g, keys) == KeysOf(g) \cap keys # {}

\* Only ctrl, alt and shift have a generic virtual key and a shared state to ask.
Paired(g) == g # "windows"

\* The slot of a key: the left one under the generic name.
SlotOf(k, generic) == IF generic THEN <<k[1], "left">> ELSE k

\* Mutant: a release clears the slot it names and no other.
ClearedAlone(now, slot, isDown) == now \ {slot}

\* A release clears its slot, and both when the modifier as a whole is up.
Cleared(now, slot, isDown) ==
  IF Paired(slot[1]) /\ ~isDown THEN now \ KeysOf(slot[1]) ELSE now \ {slot}

\* Alt is also what the event's own context says, but for the release of an alt key.
Modifiers(now, altDown, altReleased) ==
  {g \in Group : IsHeld(g, now) \/ (g = "alt" /\ altDown /\ ~altReleased)}

-----------------------------------------------------------------------------
NormalizerInit ==
  /\ slots = {} /\ modifiers = {}
  /\ held \in SUBSET Key /\ disturbed = held

\* A press or a repeat.
PressModifier(k, generic) ==
  LET slot == SlotOf(k, generic)
  IN /\ generic => Paired(k[1])
     /\ held' = held \cup {k}
     /\ slots' = slots \cup {slot}
     /\ modifiers' = Modifiers(slots', IsHeld("alt", held'), FALSE)
     /\ disturbed' = IF slot = k THEN disturbed \ {k} ELSE disturbed \cup {k, slot}

\* early: Windows still counts the key as down when the hook asks.
ReleaseModifier(k, generic, early) ==
  LET slot == SlotOf(k, generic)
      isDown == early \/ IsHeld(k[1], held')
  IN /\ k \in held /\ (generic => Paired(k[1]))
     /\ held' = held \ {k}
     /\ slots' = Cleared(slots, slot, isDown)
     /\ modifiers' = Modifiers(slots', IsHeld("alt", held'), k[1] = "alt")
     /\ disturbed' = IF Paired(k[1]) /\ ~isDown THEN disturbed \ KeysOf(k[1])
                     ELSE IF slot = k THEN disturbed \ {k} ELSE disturbed \cup {k, slot}

\* Any other key.
OtherKey ==
  /\ modifiers' = Modifiers(slots, IsHeld("alt", held), FALSE)
  /\ UNCHANGED <<slots, held, disturbed>>

\* A press or a release on the secure desktop, or while the hook restarts.
MissModifier(k) ==
  /\ held' = IF k \in held THEN held \ {k} ELSE held \cup {k}
  /\ disturbed' = disturbed \cup {k}
  /\ UNCHANGED <<slots, modifiers>>

NormalizerNext ==
  \/ \E k \in Key, generic \in BOOLEAN :
       \/ PressModifier(k, generic)
       \/ \E early \in BOOLEAN : ReleaseModifier(k, generic, early)
  \/ \E k \in Key : MissModifier(k)
  \/ OtherKey

NormalizerSpec == NormalizerInit /\ [][NormalizerNext]_normalizer_vars

-----------------------------------------------------------------------------
\* Sets of modifier keys and of modifiers.
NormalizerTypeOK ==
  /\ slots \subseteq Key /\ held \subseteq Key /\ disturbed \subseteq Key
  /\ modifiers \subseteq Group

\* The slot of a key that was not disturbed is set while the key is held: a release
\* of the other side, under either name, never clears it, and one release seen in
\* time settles both sides (reconcile_released_modifier).
SlotsAreHeld == \A k \in Key \ disturbed : k \in slots <=> k \in held

\* No modifier ghosts: an event reports an undisturbed modifier exactly if one of
\* its keys is held (normalize).
ModifiersAreHeld ==
  \A g \in Group : KeysOf(g) \cap disturbed = {} => (g \in modifiers <=> IsHeld(g, held))
=============================================================================
