-------------------------- MODULE KeyboardSession --------------------------
(***************************************************************************)
(* PrefixMachine behind a physical keyboard.  A key is pressed, repeats    *)
(* while it is the last key pressed (the keyboard's typematic rate) with   *)
(* whatever modifiers are held by then, and is released; the windows in    *)
(* the foreground change; the pointer clicks; time passes.  The low-level  *)
(* hook calls the machine for each keyboard event, and the application in  *)
(* the foreground sees the events the machine passes on.                   *)
(*                                                                         *)
(* Windows does not call the hook for what happens on another desktop (the *)
(* lock screen, a UAC prompt): the hook can miss a press or a release.     *)
(*                                                                         *)
(* The chord of an event is the one KeyboardNormalizer computes from the   *)
(* modifiers held, the event's own key included.                           *)
(***************************************************************************)
EXTENDS PrefixMachine

CONSTANTS
  ModifierKey,  \* the physical modifier keys
  ChordOf,      \* ChordOf[k][mods]: the chord of k with the modifiers mods held
  NoKey         \* no key repeats

ASSUME KeyboardAssumption ==
  /\ ModifierKey \subseteq PhysicalKey
  /\ ChordOf \in [PhysicalKey -> [SUBSET ModifierKey -> Chord]]
  /\ \A k \in PhysicalKey, mods \in SUBSET ModifierKey :
       ChordOf[k][mods] \in ModifierChord <=> k \in ModifierKey
  /\ NoKey \notin PhysicalKey

VARIABLES
  foreground,  \* the terminal in the foreground, NoTerminal for any other window
  typematic,   \* the key that repeats
  fate,        \* per key: up, or what became of its last press (see KeyFilter)
  missed       \* keys whose release the hook did not see

environment == <<foreground, typematic, fate, missed>>
vars == <<state, suppressed_keys, outcome, now, foreground, typematic, fate, missed>>

Fate == {"up", "passed", "unseen", "swallowed"}

Held == {k \in PhysicalKey : fate[k] # "up"}

KeyEventOf(k, transition, modifiers) ==
  [key |-> k, chord |-> ChordOf[k][modifiers], transition |-> transition,
   injected |-> FALSE, foreground |-> foreground]

\* The hook's decision on a press or a repeat is what the application sees.
DownFate(k) ==
  fate' = [fate EXCEPT ![k] = IF outcome'.disposition = "Consume"
                                THEN "swallowed" ELSE "passed"]

Press(k) ==
  /\ k \notin Held
  /\ HandleUserEvent(KeyEventOf(k, "Down", (Held \cup {k}) \cap ModifierKey))
  /\ DownFate(k)
  /\ typematic' = k
  /\ UNCHANGED <<now, foreground, missed>>

Repeat(k) ==
  /\ k = typematic
  /\ HandleUserEvent(KeyEventOf(k, "Down", Held \cap ModifierKey))
  /\ DownFate(k)
  /\ UNCHANGED <<now, foreground, typematic, missed>>

StopsRepeating(k) == typematic' = IF typematic = k THEN NoKey ELSE typematic

Release(k) ==
  /\ k \in Held
  /\ HandleUserEvent(KeyEventOf(k, "Up", (Held \ {k}) \cap ModifierKey))
  /\ fate' = [fate EXCEPT ![k] = "up"]
  /\ missed' = missed \ {k}
  /\ StopsRepeating(k)
  /\ UNCHANGED <<now, foreground>>

\* A press and a release on another desktop.  The modifiers are left out: what
\* a missed modifier does is a question about KeyboardNormalizer.
MissPress(k) ==
  /\ k \notin Held \cup ModifierKey
  /\ fate' = [fate EXCEPT ![k] = "unseen"]
  /\ typematic' = k
  /\ UNCHANGED <<machine, now, foreground, missed>>

MissRelease(k) ==
  /\ k \in Held \ ModifierKey
  /\ fate' = [fate EXCEPT ![k] = "up"]
  /\ missed' = missed \cup {k}
  /\ StopsRepeating(k)
  /\ UNCHANGED <<machine, now, foreground>>

\* Another window gets the focus, and starts with no key of its own down.
FocusChange(w) ==
  /\ w # foreground
  /\ foreground' = w
  /\ fate' = [k \in PhysicalKey |->
                IF fate[k] = "passed" THEN "unseen" ELSE fate[k]]
  /\ UNCHANGED <<machine, now, typematic, missed>>

Click == Cancel /\ UNCHANGED <<now, environment>>

SessionTick == Tick /\ UNCHANGED <<machine, environment>>

SessionInit ==
  /\ Init
  /\ foreground \in Window \cup {NoTerminal}
  /\ typematic = NoKey
  /\ fate = [k \in PhysicalKey |-> "up"]
  /\ missed = {}

SessionNext ==
  \/ \E k \in PhysicalKey :
       \/ Press(k) \/ Repeat(k) \/ Release(k)
       \/ MissPress(k) \/ MissRelease(k)
  \/ \E w \in Window \cup {NoTerminal} : FocusChange(w)
  \/ Click
  \/ SessionTick

SessionSpec == SessionInit /\ [][SessionNext]_vars

-----------------------------------------------------------------------------
SessionTypeOK ==
  /\ TypeOK
  /\ foreground \in Window \cup {NoTerminal}
  /\ typematic \in PhysicalKey \cup {NoKey}
  /\ fate \in [PhysicalKey -> Fate]
  /\ missed \subseteq PhysicalKey

\* The ledger holds exactly keys a user is holding and whose press nobody saw:
\* every release the hook sees takes its key out, so a key stays in it after
\* its release only if the hook missed that release.
LedgerIsHeld ==
  \A k \in suppressed_keys \ missed : fate[k] = "swallowed"

\* No other application loses a keystroke: a press is consumed while no
\* terminal is in the foreground only if the hook missed that key's release.
OtherAppsKeepTheirKeys ==
  [][ \A k \in PhysicalKey :
        fate[k] = "up" /\ fate'[k] = "swallowed"
          => foreground # NoTerminal \/ k \in missed ]_vars

\* Holding the prefix key never types it: the literal prefix is sent only
\* after the press that armed the session has been released.
LiteralAfterRelease ==
  [][ outcome'.command = "send_prefix_literal" /\ outcome' # outcome
        => fate[state.prefix_key] # "swallowed" ]_vars

(***************************************************************************)
(* PrefixMachine implements KeyFilter: it is engaged while a session is    *)
(* armed, holds the keys of the ledger, and has let go of the keys it      *)
(* consumed and no longer has in the ledger.                               *)
(***************************************************************************)
FilterFate ==
  [k \in PhysicalKey |->
     IF k \in Held /\ k \in suppressed_keys THEN "swallowed"
     ELSE IF fate[k] \in {"swallowed", "unseen"} THEN "loose" ELSE fate[k]]

Filter ==
  INSTANCE KeyFilter WITH
    Key <- PhysicalKey, fate <- FilterFate, engaged <- Armed

KeystrokesGoOneWay == Filter!Spec

-----------------------------------------------------------------------------
(***************************************************************************)
(* What the documentation says of the ledger.                              *)
(***************************************************************************)

\* docs/ARCHITECTURE.md, section 4: the machine records the keys it swallowed,
\* so that their repeats and releases do not leak into the shell.
SwallowedKeysNeverLeak ==
  [][ \A k \in PhysicalKey :
        fate[k] = "swallowed" /\ fate'[k] \in {"passed", "up"}
          => outcome'.disposition = "Consume" \/ k \in missed' ]_vars

=============================================================================
