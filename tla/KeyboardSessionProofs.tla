----------------------- MODULE KeyboardSessionProofs -----------------------
(***************************************************************************)
(* Proofs about KeyboardSession: what the ledger holds, who loses keys,    *)
(* when the literal prefix is sent, and that the machine implements        *)
(* KeyFilter, for any keyboard, bindings, windows and timeout; and about   *)
(* KeyboardNormalizer, whose modifiers a session takes to be those held.   *)
(***************************************************************************)
EXTENDS KeyboardSession, KeyboardNormalizer, PrefixMachineProofs

\* A key of the ledger is never one the application has seen pressed.
LedgerNotPassed == \A k \in suppressed_keys : fate[k] # "passed"

\* Once the release of the prefix key was seen, a session holds it no longer.
ReleasedIsNotHeld ==
  Armed /\ state.prefix_key_released => fate[state.prefix_key] # "swallowed"

\* While a session is armed, only a modifier both repeats and is passed on.
RepeatsAreSwallowed ==
  Armed /\ typematic \in PhysicalKey /\ fate[typematic] = "passed"
    => typematic \in ModifierKey

SessionInv ==
  /\ SessionTypeOK
  /\ PrefixKeyTracked
  /\ LedgerIsHeld
  /\ LedgerNotPassed
  /\ ReleasedIsNotHeld
  /\ RepeatsAreSwallowed

LEMMA SessionInvImpliesInv == SessionInv => Inv
BY DEF SessionInv, SessionTypeOK, Inv

LEMMA KeyEventOfIsKeyEvent ==
  ASSUME SessionTypeOK, NEW k \in PhysicalKey, NEW t \in {"Down", "Up"},
         NEW mods \in SUBSET ModifierKey
  PROVE  /\ KeyEventOf(k, t, mods) \in KeyEvent
         /\ KeyEventOf(k, t, mods).key = k
         /\ KeyEventOf(k, t, mods).transition = t
         /\ KeyEventOf(k, t, mods).foreground = foreground
         /\ KeyEventOf(k, t, mods).chord = ChordOf[k][mods]
BY KeyboardAssumption
   DEF KeyboardAssumption, KeyEventOf, KeyEvent, SessionTypeOK

-----------------------------------------------------------------------------
(***************************************************************************)
(* The inductive invariant.                                                *)
(***************************************************************************)

\* What a press or a repeat of k preserves; mods are the modifiers then held.
LEMMA DownPreservesSessionInv ==
  ASSUME SessionInv, NEW k \in PhysicalKey, NEW mods \in SUBSET ModifierKey,
         HandleUserEvent(KeyEventOf(k, "Down", mods)), DownFate(k),
         typematic' = k, UNCHANGED <<now, foreground, missed>>
  PROVE  SessionInv'
<1> DEFINE e == KeyEventOf(k, "Down", mods)
<1>0. /\ Inv /\ SessionTypeOK
      /\ e \in KeyEvent /\ e.key = k /\ e.transition = "Down"
      /\ ~e.injected
      /\ e.chord = ChordOf[k][mods]
  BY KeyEventOfIsKeyEvent, SessionInvImpliesInv DEF SessionInv, KeyEventOf
<1>1. Inv'
  BY <1>0, HandlerPreservesInv, UserEventIsHandled
<1>2. PassShape(e) \/ SwallowShape(e) \/ ArmShape(e) \/ HoldShape(e)
  BY <1>0, HandlerShapes
<1>3. outcome'.disposition \in {"Consume", "PassThrough"}
  BY <1>1 DEF Inv, TypeOK, PrefixOutcome
<1>4. /\ fate \in [PhysicalKey -> Fate]
      /\ fate' = [fate EXCEPT ![k] =
                    IF outcome'.disposition = "Consume" THEN "swallowed" ELSE "passed"]
  BY <1>0 DEF SessionTypeOK, DownFate
<1>5. SessionTypeOK'
  BY <1>0, <1>1, <1>4 DEF SessionTypeOK, Inv, Fate
<1>6. LedgerIsHeld' /\ LedgerNotPassed'
  <2>1. \A j \in suppressed_keys' : j # k => j \in suppressed_keys
    BY <1>0, <1>2 DEF PassShape, SwallowShape, ArmShape, HoldShape
  <2>2. k \in suppressed_keys' => outcome'.disposition = "Consume"
    BY <1>0, <1>2 DEF PassShape, SwallowShape, ArmShape, HoldShape
  <2>3. suppressed_keys' \subseteq PhysicalKey
    BY <1>1 DEF Inv, TypeOK
  <2>. QED
    BY <2>1, <2>2, <2>3, <1>4 DEF LedgerIsHeld, LedgerNotPassed, SessionInv
<1>7. ReleasedIsNotHeld'
  <2> SUFFICES ASSUME Armed', state'.prefix_key_released
               PROVE  fate'[state'.prefix_key] # "swallowed"
    BY DEF ReleasedIsNotHeld
  <2>1. /\ Armed /\ state'.prefix_key = state.prefix_key
        /\ state.prefix_key_released
        /\ k = state.prefix_key => outcome'.disposition = "PassThrough"
    BY <1>0, HandlerKeepsRelease
  <2>2. state.prefix_key \in PhysicalKey
    BY <2>1, <1>0 DEF Inv, TypeOK, Armed, ArmedState
  <2>. QED
    BY <2>1, <2>2, <1>4 DEF ReleasedIsNotHeld, SessionInv
<1>8. RepeatsAreSwallowed'
  \* Passed while armed: the handler is PassModifier, so k is a modifier.
  <2> SUFFICES ASSUME Armed', fate'[k] = "passed" PROVE k \in ModifierKey
    BY DEF RepeatsAreSwallowed
  <2>1. outcome'.disposition = "PassThrough"
    BY <1>3, <1>4
  <2>2. PassModifier(e)
    BY <1>0, <2>1 DEF HandleUserEvent, PassKeyUp, PassIdleKey, IdleKeyDown,
         Pass, SwallowLedgerKey, ArmPrefix, SystemShortcut, EscapeSession, EndSession,
         ResetTransientState, RefuseLiteral, RunCommand, ConsumeUnknown, Return, Armed
  <2>. QED
    BY <1>0, <2>2, KeyboardAssumption DEF PassModifier, KeyboardAssumption
<1>. QED
  BY <1>1, <1>5, <1>6, <1>7, <1>8 DEF SessionInv, Inv

LEMMA PressPreservesSessionInv ==
  ASSUME SessionInv, NEW k \in PhysicalKey, Press(k)
  PROVE  SessionInv'
BY DownPreservesSessionInv DEF Press

LEMMA RepeatPreservesSessionInv ==
  ASSUME SessionInv, NEW k \in PhysicalKey, Repeat(k)
  PROVE  SessionInv'
BY DownPreservesSessionInv DEF Repeat

LEMMA ReleasePreservesSessionInv ==
  ASSUME SessionInv, NEW k \in PhysicalKey, Release(k)
  PROVE  SessionInv'
<1> DEFINE mods == (Held \ {k}) \cap ModifierKey
           e == KeyEventOf(k, "Up", mods)
<1>0. /\ Inv /\ SessionTypeOK
      /\ e \in KeyEvent /\ e.key = k /\ e.transition = "Up"
      /\ ~e.injected
      /\ HandleUserEvent(e)
  BY KeyEventOfIsKeyEvent, SessionInvImpliesInv DEF SessionInv, KeyEventOf, Release
<1>1. Inv'
  BY <1>0, HandlerPreservesInv, UserEventIsHandled DEF Release
<1>2. PassShape(e) \/ SwallowShape(e)
  BY <1>0, HandlerShapes DEF ArmShape, HoldShape
<1>3. /\ fate \in [PhysicalKey -> Fate] /\ fate' = [fate EXCEPT ![k] = "up"]
      /\ missed' = missed \ {k}
      /\ typematic' \in {typematic, NoKey}
      /\ typematic' # k
  BY <1>0, KeyboardAssumption
     DEF Release, SessionTypeOK, StopsRepeating, KeyboardAssumption
<1>4. SessionTypeOK'
  BY <1>0, <1>1, <1>3 DEF SessionTypeOK, Inv, Fate, Release
<1>5. LedgerIsHeld' /\ LedgerNotPassed'
  <2>1. suppressed_keys' \subseteq suppressed_keys \ {k}
    BY <1>0, <1>2 DEF PassShape, SwallowShape
  <2>. QED
    BY <2>1, <1>3, <1>0 DEF LedgerIsHeld, LedgerNotPassed, SessionInv, Inv, TypeOK
<1>6. ReleasedIsNotHeld'
  <2> SUFFICES ASSUME Armed', state'.prefix_key_released
               PROVE  fate'[state'.prefix_key] # "swallowed"
    BY DEF ReleasedIsNotHeld
  <2>1. /\ Armed /\ state'.prefix_key = state.prefix_key
        /\ k = state.prefix_key \/ state.prefix_key_released
    BY <1>0, HandlerKeepsRelease
  <2>2. state.prefix_key \in PhysicalKey
    BY <2>1, <1>0 DEF Inv, TypeOK, Armed, ArmedState
  <2>. QED
    BY <2>1, <2>2, <1>3 DEF ReleasedIsNotHeld, SessionInv
<1>7. RepeatsAreSwallowed'
  <2>1. Armed' => Armed
    BY <1>2 DEF PassShape, SwallowShape
  <2>. QED
    BY <2>1, <1>3, KeyboardAssumption
       DEF RepeatsAreSwallowed, SessionInv, KeyboardAssumption
<1>. QED
  BY <1>1, <1>4, <1>5, <1>6, <1>7 DEF SessionInv, Inv

\* What happens away from the hook, and the clicks it sees, preserves it too.
LEMMA MissPressPreservesSessionInv ==
  ASSUME SessionInv, NEW k \in PhysicalKey, MissPress(k)
  PROVE  SessionInv'
BY DEF MissPress, machine, SessionInv, SessionTypeOK, TypeOK, PrefixKeyTracked,
       LedgerIsHeld, LedgerNotPassed, ReleasedIsNotHeld, RepeatsAreSwallowed, Armed,
       ArmedState, Held, Fate

LEMMA MissReleasePreservesSessionInv ==
  ASSUME SessionInv, NEW k \in PhysicalKey, MissRelease(k)
  PROVE  SessionInv'
<1>1. SessionTypeOK' /\ PrefixKeyTracked'
  BY DEF MissRelease, StopsRepeating, machine, SessionInv, SessionTypeOK, TypeOK,
         PrefixKeyTracked, Armed, Fate
<1>2. LedgerIsHeld' /\ LedgerNotPassed' /\ ReleasedIsNotHeld'
  BY DEF MissRelease, machine, SessionInv, SessionTypeOK, TypeOK, Armed, ArmedState,
         LedgerIsHeld, LedgerNotPassed, ReleasedIsNotHeld
<1>3. RepeatsAreSwallowed'
  BY KeyboardAssumption
     DEF MissRelease, StopsRepeating, machine, SessionInv, SessionTypeOK, Armed,
         RepeatsAreSwallowed, KeyboardAssumption
<1>. QED
  BY <1>1, <1>2, <1>3 DEF SessionInv

LEMMA FocusChangePreservesSessionInv ==
  ASSUME SessionInv, NEW w \in Window \cup {NoTerminal}, FocusChange(w)
  PROVE  SessionInv'
BY DEF FocusChange, machine, SessionInv, SessionTypeOK, TypeOK, PrefixKeyTracked,
       LedgerIsHeld, LedgerNotPassed, ReleasedIsNotHeld, RepeatsAreSwallowed, Armed,
       ArmedState, Fate

LEMMA ClickPreservesSessionInv ==
  ASSUME SessionInv, Click
  PROVE  SessionInv'
<1>1. Inv'
  BY SessionInvImpliesInv, CancelPreservesInv DEF Click
<1>. QED
  BY <1>1
     DEF Click, Cancel, ResetTransientState, environment, Inv, SessionInv,
         SessionTypeOK, LedgerIsHeld, LedgerNotPassed, ReleasedIsNotHeld,
         RepeatsAreSwallowed, Armed

LEMMA SessionTickPreservesSessionInv ==
  ASSUME SessionInv, SessionTick
  PROVE  SessionInv'
<1>1. Inv'
  BY SessionInvImpliesInv, TickPreservesInv DEF SessionTick
<1>. QED
  BY <1>1
     DEF SessionTick, machine, environment, Inv, SessionInv, SessionTypeOK,
         LedgerIsHeld, LedgerNotPassed, ReleasedIsNotHeld, RepeatsAreSwallowed, Armed

LEMMA SessionInitEstablishesInv == SessionInit => SessionInv
<1> SUFFICES ASSUME SessionInit PROVE SessionInv
  OBVIOUS
<1>1. Inv
  BY InitEstablishesInv DEF SessionInit
<1>. QED
  BY <1>1
     DEF Inv, SessionInit, Init, SessionInv, SessionTypeOK, LedgerIsHeld,
         LedgerNotPassed, ReleasedIsNotHeld, RepeatsAreSwallowed, Armed, Fate

LEMMA SessionNextPreservesInv == SessionInv /\ [SessionNext]_vars => SessionInv'
<1> SUFFICES ASSUME SessionInv, [SessionNext]_vars PROVE SessionInv'
  OBVIOUS
<1>1. CASE \E k \in PhysicalKey :
             \/ Press(k) \/ Repeat(k) \/ Release(k)
             \/ MissPress(k) \/ MissRelease(k)
  BY <1>1, PressPreservesSessionInv, RepeatPreservesSessionInv,
     ReleasePreservesSessionInv, MissPressPreservesSessionInv,
     MissReleasePreservesSessionInv
<1>2. CASE \E w \in Window \cup {NoTerminal} : FocusChange(w)
  BY <1>2, FocusChangePreservesSessionInv
<1>3. CASE Click
  BY <1>3, ClickPreservesSessionInv
<1>4. CASE SessionTick
  BY <1>4, SessionTickPreservesSessionInv
<1>5. CASE UNCHANGED vars
  BY <1>5
     DEF vars, SessionInv, SessionTypeOK, TypeOK, PrefixKeyTracked, LedgerIsHeld,
         LedgerNotPassed, ReleasedIsNotHeld, RepeatsAreSwallowed, Armed
<1>. QED
  BY <1>1, <1>2, <1>3, <1>4, <1>5 DEF SessionNext

-----------------------------------------------------------------------------
\* The machine and the keyboard keep their types together.
THEOREM SessionTypeCorrect == SessionSpec => []SessionTypeOK
<1>1. SessionInv => SessionTypeOK
  BY DEF SessionInv
<1>. QED
  BY <1>1, SessionInitEstablishesInv, SessionNextPreservesInv, PTL DEF SessionSpec

\* A key stays in the ledger after its release only if the hook missed that
\* release.
THEOREM LedgerHoldsHeldKeys == SessionSpec => []LedgerIsHeld
<1>1. SessionInv => LedgerIsHeld
  BY DEF SessionInv
<1>. QED
  BY <1>1, SessionInitEstablishesInv, SessionNextPreservesInv, PTL DEF SessionSpec

-----------------------------------------------------------------------------
(***************************************************************************)
(* Who may lose a keystroke.                                               *)
(***************************************************************************)

OtherAppsStep ==
  \A k \in PhysicalKey :
    fate[k] = "up" /\ fate'[k] = "swallowed"
      => foreground # NoTerminal \/ k \in missed

LEMMA DownSparesOtherApps ==
  ASSUME SessionInv, NEW k \in PhysicalKey, NEW mods \in SUBSET ModifierKey,
         HandleUserEvent(KeyEventOf(k, "Down", mods)), DownFate(k)
  PROVE  OtherAppsStep
<1> DEFINE e == KeyEventOf(k, "Down", mods)
<1>0. /\ Inv /\ SessionTypeOK
      /\ e \in KeyEvent /\ e.key = k /\ ~e.injected /\ e.transition = "Down"
      /\ e.foreground = foreground
  BY KeyEventOfIsKeyEvent, SessionInvImpliesInv DEF SessionInv, KeyEventOf
<1>1. outcome'.disposition = "Consume"
        => foreground # NoTerminal \/ k \in suppressed_keys
  BY <1>0, HandlerShapes DEF PassShape, SwallowShape, ArmShape, HoldShape
<1>2. fate[k] = "up" /\ k \in suppressed_keys => k \in missed
  BY DEF SessionInv, LedgerIsHeld
<1>. QED
  BY <1>0, <1>1, <1>2 DEF OtherAppsStep, DownFate, SessionTypeOK

LEMMA SessionNextSparesOtherApps ==
  ASSUME SessionInv, SessionNext
  PROVE  OtherAppsStep
<1>1. ASSUME NEW k \in PhysicalKey, Press(k) \/ Repeat(k)
      PROVE  OtherAppsStep
  BY <1>1, DownSparesOtherApps DEF Press, Repeat
<1>2. ASSUME NEW k \in PhysicalKey, Release(k) \/ MissPress(k) \/ MissRelease(k)
      PROVE  OtherAppsStep
  BY <1>2 DEF Release, MissPress, MissRelease, OtherAppsStep, SessionInv, SessionTypeOK
<1>3. ASSUME NEW w \in Window \cup {NoTerminal}, FocusChange(w)
      PROVE  OtherAppsStep
  BY <1>3 DEF FocusChange, OtherAppsStep
<1>4. CASE Click \/ SessionTick
  BY <1>4 DEF Click, SessionTick, environment, OtherAppsStep
<1>. QED
  BY <1>1, <1>2, <1>3, <1>4 DEF SessionNext

\* No other application loses a keystroke: a press is consumed while no terminal
\* is in the foreground only if the hook missed that key's release.
THEOREM OtherAppsAreSpared == SessionSpec => OtherAppsKeepTheirKeys
<1>1. SessionInv /\ [SessionNext]_vars =>
        [ \A k \in PhysicalKey :
            fate[k] = "up" /\ fate'[k] = "swallowed"
              => foreground # NoTerminal \/ k \in missed ]_vars
  BY SessionNextSparesOtherApps DEF OtherAppsStep
<1>. QED
  BY <1>1, SessionInitEstablishesInv, SessionNextPreservesInv, PTL
     DEF SessionSpec, OtherAppsKeepTheirKeys

-----------------------------------------------------------------------------
(***************************************************************************)
(* When the literal prefix is sent.                                        *)
(***************************************************************************)

LiteralStep ==
  outcome'.command = "send_prefix_literal" /\ outcome' # outcome
    => fate[state.prefix_key] # "swallowed"

LEMMA HandlerGatesLiteral ==
  ASSUME SessionInv, NEW e \in KeyEvent, HandleUserEvent(e)
  PROVE  LiteralStep
<1>1. CASE RunCommand(e)
  <2>1. Armed
    BY <1>1, Settled, SessionInvImpliesInv DEF RunCommand, ArmedKeyDown
  <2>2. outcome'.command = "send_prefix_literal" => state.prefix_key_released
    BY <1>1, <2>1
       DEF RunCommand, LiteralTooSoon, SessionInv, SessionTypeOK, TypeOK, Armed,
           ArmedState
  <2>. QED
    BY <2>1, <2>2 DEF LiteralStep, SessionInv, ReleasedIsNotHeld
<1>2. CASE ~RunCommand(e)
  <2>1. outcome'.command = "none"
    BY <1>2 DEF HandleUserEvent, SwallowLedgerKey, PassKeyUp,
                PassIdleKey, ArmPrefix, SystemShortcut, PassModifier, EscapeSession,
                RefuseLiteral, ConsumeUnknown, EndSession, Pass, Return
  <2>. QED
    BY <2>1 DEF LiteralStep
<1>. QED
  BY <1>1, <1>2

LEMMA SessionNextGatesLiteral ==
  ASSUME SessionInv, SessionNext
  PROVE  LiteralStep
<1>1. ASSUME NEW k \in PhysicalKey, Press(k) \/ Repeat(k) \/ Release(k)
      PROVE  LiteralStep
  <2>1. \E e \in KeyEvent : HandleUserEvent(e)
    BY <1>1, KeyEventOfIsKeyEvent DEF Press, Repeat, Release, SessionInv
  <2>. QED
    BY <2>1, HandlerGatesLiteral
<1>2. ASSUME NEW k \in PhysicalKey, MissPress(k) \/ MissRelease(k)
      PROVE  LiteralStep
  BY <1>2 DEF MissPress, MissRelease, machine, LiteralStep
<1>3. ASSUME NEW w \in Window \cup {NoTerminal}, FocusChange(w)
      PROVE  LiteralStep
  BY <1>3 DEF FocusChange, machine, LiteralStep
<1>4. CASE Click \/ SessionTick
  BY <1>4 DEF Click, Cancel, Return, SessionTick, machine, LiteralStep
<1>. QED
  BY <1>1, <1>2, <1>3, <1>4 DEF SessionNext

\* Holding the prefix key never types it.
THEOREM LiteralWaitsForRelease == SessionSpec => LiteralAfterRelease
<1>1. SessionInv /\ [SessionNext]_vars =>
        [ outcome'.command = "send_prefix_literal" /\ outcome' # outcome
            => fate[state.prefix_key] # "swallowed" ]_vars
  BY SessionNextGatesLiteral DEF LiteralStep
<1>. QED
  BY <1>1, SessionInitEstablishesInv, SessionNextPreservesInv, PTL
     DEF SessionSpec, LiteralAfterRelease

-----------------------------------------------------------------------------
(***************************************************************************)
(* The machine implements KeyFilter.  With freed, an event first lets go   *)
(* of the whole ledger; the shapes above then say where its own key goes.  *)
(***************************************************************************)

LEMMA FilterFateIsFunction ==
  ASSUME SessionTypeOK, LedgerNotPassed, NEW k \in PhysicalKey
  PROVE  /\ fate[k] = "up" => FilterFate[k] = "up"
         /\ fate[k] # "up" /\ k \in suppressed_keys => FilterFate[k] = "swallowed"
         /\ fate[k] \in {"swallowed", "unseen"} /\ k \notin suppressed_keys
              => FilterFate[k] = "loose"
         /\ fate[k] = "passed" => FilterFate[k] = "passed"
BY DEF FilterFate, Held, SessionTypeOK, Fate, LedgerNotPassed

\* What the filter lets go of when the ledger is emptied.
LEMMA LettingGo ==
  ASSUME SessionTypeOK, LedgerNotPassed, NEW k \in PhysicalKey
  PROVE  Filter!LetGo[k] =
           IF fate[k] \in {"swallowed", "unseen"} THEN "loose" ELSE fate[k]
BY FilterFateIsFunction DEF Filter!LetGo, SessionTypeOK, Fate

\* A press or a repeat, by its shape.
LEMMA DownImplementsFilter ==
  ASSUME SessionInv, SessionInv', NEW k \in PhysicalKey,
         NEW mods \in SUBSET ModifierKey,
         fate[k] = "up" \/ typematic = k,
         HandleUserEvent(KeyEventOf(k, "Down", mods)), DownFate(k)
  PROVE  Filter!Event(k) \/ Filter!Engage(k)
<1> DEFINE e == KeyEventOf(k, "Down", mods)
<1>0. /\ Inv /\ SessionTypeOK /\ LedgerNotPassed
      /\ SessionTypeOK' /\ LedgerNotPassed'
      /\ e \in KeyEvent /\ e.key = k /\ ~e.injected /\ e.transition = "Down"
      /\ e.chord = ChordOf[k][mods]
  BY KeyEventOfIsKeyEvent, SessionInvImpliesInv DEF SessionInv, KeyEventOf
<1>1. fate' = [fate EXCEPT ![k] =
                IF outcome'.disposition = "Consume" THEN "swallowed" ELSE "passed"]
  BY DEF DownFate
<1>2. fate \in [PhysicalKey -> Fate] /\ fate' \in [PhysicalKey -> Fate]
  BY <1>0 DEF SessionTypeOK
<1>3. Filter!LetGo = [j \in PhysicalKey |->
                       IF fate[j] \in {"swallowed", "unseen"} THEN "loose" ELSE fate[j]]
  BY <1>0, LettingGo DEF Filter!LetGo
<1>4. CASE PassShape(e)
  <2>1. PICK freed \in {FALSE, Armed} :
          /\ outcome'.disposition = "PassThrough"
          /\ suppressed_keys' = IF freed THEN {} ELSE suppressed_keys
          /\ Armed' = IF freed THEN FALSE ELSE Armed
          /\ k \notin suppressed_keys'
    BY <1>0, <1>4 DEF PassShape
  <2>2. fate' = [fate EXCEPT ![k] = "passed"]
    BY <1>1, <2>1
  <2>3. FilterFate' = [Filter!Before(freed) EXCEPT ![k] = "passed"]
    BY <1>2, <1>3, <2>1, <2>2, <1>0
       DEF FilterFate, Held, Filter!Before, Fate, LedgerNotPassed
  <2>4. "passed" \in Filter!Follow(Filter!Before(freed)[k])
    BY <1>2, <1>3, <2>1 DEF FilterFate, Held, Filter!Before, Filter!Follow, Fate
  <2>5. Armed' \in IF freed THEN {FALSE} ELSE {Armed, FALSE}
    BY <2>1
  <2>. QED
    BY <2>1, <2>3, <2>4, <2>5 DEF Filter!Event
<1>5. CASE SwallowShape(e)
  <2>1. /\ k \in suppressed_keys /\ suppressed_keys' = suppressed_keys
        /\ Armed' = Armed
        /\ fate' = [fate EXCEPT ![k] = "swallowed"]
    BY <1>0, <1>1, <1>5 DEF SwallowShape
  <2>2. FilterFate' = [FilterFate EXCEPT ![k] = "swallowed"]
    BY <1>2, <2>1 DEF FilterFate, Held
  <2>3. "swallowed" \in Filter!Follow(FilterFate[k])
    BY <2>1, <1>2 DEF FilterFate, Held, Filter!Follow
  <2>. QED
    BY <2>1, <2>2, <2>3 DEF Filter!Event, Filter!Before
<1>6. CASE ArmShape(e)
  <2>1. /\ suppressed_keys' = (IF Armed THEN {} ELSE suppressed_keys) \cup {k}
        /\ Armed'
        /\ Armed \/ k \notin suppressed_keys
        /\ fate' = [fate EXCEPT ![k] = "swallowed"]
    BY <1>0, <1>1, <1>6 DEF ArmShape
  <2>2. FilterFate' = [Filter!Before(Armed) EXCEPT ![k] = "swallowed"]
    BY <1>2, <1>3, <2>1, <1>0
       DEF FilterFate, Held, Filter!Before, Fate, LedgerNotPassed
  <2>3. FilterFate[k] # "swallowed" \/ Armed
    BY <1>2, <2>1 DEF FilterFate, Held, Fate
  <2>4. Armed' = TRUE
    BY <2>1 DEF Armed
  <2>. QED
    BY <2>2, <2>3, <2>4 DEF Filter!Engage
<1>7. CASE HoldShape(e)
  <2>1. /\ suppressed_keys' = suppressed_keys \cup {k}
        /\ k \notin suppressed_keys
        /\ Armed
        /\ fate' = [fate EXCEPT ![k] = "swallowed"]
        /\ k \notin ModifierKey
    BY <1>0, <1>1, <1>7, KeyboardAssumption DEF HoldShape, KeyboardAssumption
  <2>2. fate[k] # "passed"
    BY <2>1 DEF SessionInv, RepeatsAreSwallowed
  <2>3. FilterFate' = [FilterFate EXCEPT ![k] = "swallowed"]
    BY <1>2, <2>1 DEF FilterFate, Held
  <2>4. "swallowed" \in Filter!Follow(FilterFate[k])
    BY <1>2, <2>1, <2>2 DEF FilterFate, Held, Filter!Follow, Fate
  <2>5. Armed' \in {Armed, FALSE}
    BY <2>1 DEF Armed
  <2>. QED
    BY <2>3, <2>4, <2>5 DEF Filter!Event, Filter!Before
<1>. QED
  BY <1>0, <1>4, <1>5, <1>6, <1>7, HandlerShapes

LEMMA ReleaseImplementsFilter ==
  ASSUME SessionInv, SessionInv', NEW k \in PhysicalKey, Release(k)
  PROVE  Filter!Event(k)
<1> DEFINE mods == (Held \ {k}) \cap ModifierKey
           e == KeyEventOf(k, "Up", mods)
<1>0. /\ Inv /\ SessionTypeOK /\ LedgerNotPassed
      /\ e \in KeyEvent /\ e.key = k /\ ~e.injected /\ e.transition = "Up"
      /\ HandleUserEvent(e)
  BY KeyEventOfIsKeyEvent, SessionInvImpliesInv DEF SessionInv, KeyEventOf, Release
<1>1. /\ fate \in [PhysicalKey -> Fate]
      /\ fate' = [fate EXCEPT ![k] = "up"]
      /\ fate[k] # "up"
  BY <1>0 DEF Release, SessionTypeOK, Held
<1>2. Filter!LetGo = [j \in PhysicalKey |->
                       IF fate[j] \in {"swallowed", "unseen"} THEN "loose" ELSE fate[j]]
  BY <1>0, LettingGo DEF Filter!LetGo
<1>3. CASE PassShape(e)
  <2>1. PICK freed \in {FALSE, Armed} :
          /\ suppressed_keys' = IF freed THEN {} ELSE suppressed_keys
          /\ Armed' = IF freed THEN FALSE ELSE Armed
    BY <1>3 DEF PassShape
  <2>2. FilterFate' = [Filter!Before(freed) EXCEPT ![k] = "up"]
    BY <1>0, <1>1, <1>2, <2>1
       DEF FilterFate, Held, Filter!Before, Fate, LedgerNotPassed
  <2>3. "up" \in Filter!Follow(Filter!Before(freed)[k])
    BY <1>1, <1>2 DEF FilterFate, Held, Filter!Before, Filter!Follow, Fate
  <2>4. Armed' \in IF freed THEN {FALSE} ELSE {Armed, FALSE}
    BY <2>1
  <2>. QED
    BY <2>1, <2>2, <2>3, <2>4 DEF Filter!Event
<1>4. CASE SwallowShape(e)
  <2>1. suppressed_keys' = suppressed_keys \ {k} /\ Armed' = Armed
    BY <1>0, <1>4 DEF SwallowShape
  <2>2. FilterFate' = [FilterFate EXCEPT ![k] = "up"]
    BY <1>1, <2>1 DEF FilterFate, Held
  <2>3. "up" \in Filter!Follow(FilterFate[k])
    BY <1>1 DEF FilterFate, Held, Filter!Follow, Fate
  <2>. QED
    BY <2>1, <2>2, <2>3 DEF Filter!Event, Filter!Before
<1>. QED
  BY <1>0, <1>3, <1>4, HandlerShapes DEF ArmShape, HoldShape

LEMMA MissImplementsFilter ==
  ASSUME SessionInv, NEW k \in PhysicalKey, MissPress(k) \/ MissRelease(k)
  PROVE  Filter!Event(k) \/ Filter!PressElsewhere(k)
<1>0. fate \in [PhysicalKey -> Fate] /\ UNCHANGED suppressed_keys /\ Armed' = Armed
  BY DEF SessionInv, SessionTypeOK, MissPress, MissRelease, machine, Armed
<1>1. CASE MissPress(k)
  <2>1. fate' = [fate EXCEPT ![k] = "unseen"] /\ FilterFate[k] = "up"
    BY <1>0, <1>1 DEF MissPress, Held, FilterFate
  <2>2. FilterFate' = [FilterFate EXCEPT
                         ![k] = IF k \in suppressed_keys THEN "swallowed" ELSE "loose"]
    BY <1>0, <2>1 DEF FilterFate, Held, Fate
  <2>. QED
    BY <1>0, <2>1, <2>2
       DEF Filter!Event, Filter!Before, Filter!Follow, Filter!PressElsewhere
<1>2. CASE MissRelease(k)
  <2>1. fate' = [fate EXCEPT ![k] = "up"] /\ fate[k] # "up"
    BY <1>2 DEF MissRelease, Held
  <2>2. FilterFate' = [FilterFate EXCEPT ![k] = "up"]
    BY <1>0, <2>1 DEF FilterFate, Held
  <2>3. "up" \in Filter!Follow(FilterFate[k])
    BY <1>0, <2>1 DEF FilterFate, Held, Filter!Follow, Fate
  <2>. QED
    BY <1>0, <2>2, <2>3 DEF Filter!Event, Filter!Before
<1>. QED
  BY <1>1, <1>2

LEMMA FocusChangeImplementsFilter ==
  ASSUME SessionInv, NEW w \in Window \cup {NoTerminal}, FocusChange(w)
  PROVE  Filter!FocusChange
BY DEF SessionInv, SessionTypeOK, LedgerNotPassed, FocusChange, machine, Armed,
       Filter!FocusChange, FilterFate, Held, Fate

LEMMA ClickImplementsFilter ==
  ASSUME SessionInv, Click
  PROVE  Filter!Disengage \/ UNCHANGED <<FilterFate, Armed>>
<1>0. UNCHANGED fate
  BY DEF Click, environment
<1>1. CASE Armed
  <2>1. suppressed_keys' = {} /\ Armed' = FALSE
    BY <1>1 DEF Click, Cancel, ResetTransientState, Armed
  <2>2. Filter!LetGo = [j \in PhysicalKey |->
                         IF fate[j] \in {"swallowed", "unseen"} THEN "loose" ELSE fate[j]]
    BY LettingGo DEF Filter!LetGo, SessionInv
  <2>. QED
    BY <1>0, <1>1, <2>1, <2>2
       DEF SessionInv, SessionTypeOK, Filter!Disengage, FilterFate, Held, Fate
<1>2. CASE ~Armed
  BY <1>0, <1>2 DEF Click, Cancel, Armed, FilterFate, Held
<1>. QED
  BY <1>1, <1>2

LEMMA SessionNextImplementsFilter ==
  SessionInv /\ SessionInv' /\ [SessionNext]_vars
    => [Filter!Next]_<<FilterFate, Armed>>
<1> SUFFICES ASSUME SessionInv, SessionInv', [SessionNext]_vars
             PROVE  [Filter!Next]_<<FilterFate, Armed>>
  OBVIOUS
<1>1. ASSUME NEW k \in PhysicalKey, Press(k) \/ Repeat(k)
      PROVE  Filter!Next
  <2>1. \/ /\ fate[k] = "up"
           /\ HandleUserEvent(KeyEventOf(k, "Down", (Held \cup {k}) \cap ModifierKey))
        \/ /\ typematic = k
           /\ HandleUserEvent(KeyEventOf(k, "Down", Held \cap ModifierKey))
    BY <1>1 DEF Press, Repeat, Held
  <2>2. DownFate(k)
    BY <1>1 DEF Press, Repeat
  <2>3. Filter!Event(k) \/ Filter!Engage(k)
    BY <2>1, <2>2, DownImplementsFilter
  <2>. QED
    BY <2>3 DEF Filter!Next
<1>2. ASSUME NEW k \in PhysicalKey, Release(k) \/ MissPress(k) \/ MissRelease(k)
      PROVE  Filter!Next
  BY <1>2, ReleaseImplementsFilter, MissImplementsFilter DEF Filter!Next
<1>3. ASSUME NEW w \in Window \cup {NoTerminal}, FocusChange(w)
      PROVE  Filter!Next
  BY <1>3, FocusChangeImplementsFilter DEF Filter!Next
<1>4. CASE Click
  BY <1>4, ClickImplementsFilter DEF Filter!Next
<1>5. CASE SessionTick \/ UNCHANGED vars
  BY <1>5 DEF SessionTick, machine, environment, vars, FilterFate, Held, Armed
<1>. QED
  BY <1>1, <1>2, <1>3, <1>4, <1>5 DEF SessionNext

LEMMA SessionInitImplementsFilter == SessionInit => Filter!Init
BY DEF SessionInit, Init, Filter!Init, FilterFate, Held, Armed

\* Every keystroke goes one way: the machine, behind a keyboard that repeats and
\* a hook that can miss events, implements KeyFilter.
THEOREM MachineImplementsFilter == SessionSpec => KeystrokesGoOneWay
BY SessionInitEstablishesInv, SessionNextPreservesInv, SessionInitImplementsFilter,
   SessionNextImplementsFilter, PTL
   DEF SessionSpec, KeystrokesGoOneWay, Filter!Spec

-----------------------------------------------------------------------------
(* The modifiers of an event, for every set of them: what it reports of one  *)
(* that nothing disturbed is what the keyboard does.                         *)

NormalizerInv == NormalizerTypeOK /\ SlotsAreHeld /\ ModifiersAreHeld

\* The slot an event names is one of its own modifier.
LEMMA SlotIsOfItsGroup ==
  ASSUME NEW k \in Key, NEW generic \in BOOLEAN
  PROVE  SlotOf(k, generic) \in Key /\ SlotOf(k, generic)[1] = k[1] /\ k \in KeysOf(k[1])
BY DEF SlotOf, Key, KeysOf

\* What the slots say of a modifier none of whose keys was disturbed.
LEMMA SlotsTellGroup ==
  ASSUME NEW set, NEW down, NEW apart, NEW g \in Group,
         \A k \in Key \ apart : k \in set <=> k \in down, KeysOf(g) \cap apart = {}
  PROVE  IsHeld(g, set) <=> IsHeld(g, down)
BY DEF IsHeld, KeysOf

\* The modifiers of an event seen in state (slots', held', disturbed') are right:
\* the context of an event never names alt unless it is held.
LEMMA ModifiersFollowSlots ==
  ASSUME NEW set, NEW down, NEW apart, NEW altReleased \in BOOLEAN,
         \A k \in Key \ apart : k \in set <=> k \in down
  PROVE  \A g \in Group : KeysOf(g) \cap apart = {} =>
           (g \in Modifiers(set, IsHeld("alt", down), altReleased) <=> IsHeld(g, down))
<1> SUFFICES ASSUME NEW g \in Group, KeysOf(g) \cap apart = {}
             PROVE  g \in Modifiers(set, IsHeld("alt", down), altReleased) <=> IsHeld(g, down)
  OBVIOUS
<1>1. IsHeld(g, set) <=> IsHeld(g, down)
  BY SlotsTellGroup
<1> QED
  BY <1>1 DEF Modifiers

\* A press settles its own slot under its own name, and disturbs two at most.
LEMMA PressKeepsInv ==
  ASSUME NormalizerInv, NEW k \in Key, NEW generic \in BOOLEAN, PressModifier(k, generic)
  PROVE  NormalizerInv'
<1> DEFINE slot == SlotOf(k, generic)
<1>1. slot \in Key
  BY SlotIsOfItsGroup
<1>2. /\ held' = held \cup {k} /\ slots' = slots \cup {slot}
      /\ modifiers' = Modifiers(slots', IsHeld("alt", held'), FALSE)
      /\ disturbed' = IF slot = k THEN disturbed \ {k} ELSE disturbed \cup {k, slot}
  BY DEF PressModifier
<1>3. SlotsAreHeld'
  BY <1>1, <1>2 DEF NormalizerInv, SlotsAreHeld
<1>4. ModifiersAreHeld'
  BY <1>2, <1>3, ModifiersFollowSlots DEF SlotsAreHeld, ModifiersAreHeld
<1>5. NormalizerTypeOK'
  BY <1>1, <1>2 DEF NormalizerInv, NormalizerTypeOK, Modifiers
<1> QED
  BY <1>3, <1>4, <1>5 DEF NormalizerInv

\* A release that clears both sides finds neither held; one that clears a single
\* slot clears its own key's, or disturbs the two.
LEMMA ReleaseKeepsSlots ==
  ASSUME NormalizerInv, NEW k \in Key, NEW generic \in BOOLEAN, NEW early \in BOOLEAN,
         ReleaseModifier(k, generic, early)
  PROVE  SlotsAreHeld' /\ slots' \subseteq slots /\ disturbed' \subseteq Key
<1> DEFINE slot == SlotOf(k, generic)
           isDown == early \/ IsHeld(k[1], held')
<1>1. slot \in Key /\ slot[1] = k[1]
  BY SlotIsOfItsGroup
<1>2. /\ held' = held \ {k} /\ slots' = Cleared(slots, slot, isDown)
      /\ disturbed' = IF Paired(k[1]) /\ ~isDown THEN disturbed \ KeysOf(k[1])
                      ELSE IF slot = k THEN disturbed \ {k} ELSE disturbed \cup {k, slot}
  BY DEF ReleaseModifier
<1>3. CASE Paired(k[1]) /\ ~isDown
  <2>1. slots' = slots \ KeysOf(k[1]) /\ disturbed' = disturbed \ KeysOf(k[1])
    BY <1>1, <1>2, <1>3 DEF Cleared
  <2>2. KeysOf(k[1]) \cap held' = {}
    BY <1>3 DEF IsHeld
  <2>3. \A j \in Key \ KeysOf(k[1]) : j # k
    BY SlotIsOfItsGroup
  <2> QED
    BY <1>2, <2>1, <2>2, <2>3 DEF NormalizerInv, SlotsAreHeld, NormalizerTypeOK
<1>4. CASE ~(Paired(k[1]) /\ ~isDown)
  <2>1. slots' = slots \ {slot}
    BY <1>1, <1>2, <1>4 DEF Cleared
  <2>2. disturbed' = IF slot = k THEN disturbed \ {k} ELSE disturbed \cup {k, slot}
    BY <1>2, <1>4
  <2> QED
    BY <1>1, <1>2, <2>1, <2>2 DEF NormalizerInv, SlotsAreHeld, NormalizerTypeOK
<1> QED
  BY <1>3, <1>4

LEMMA ReleaseKeepsInv ==
  ASSUME NormalizerInv, NEW k \in Key, NEW generic \in BOOLEAN, NEW early \in BOOLEAN,
         ReleaseModifier(k, generic, early)
  PROVE  NormalizerInv'
<1>1. /\ held' = held \ {k}
      /\ modifiers' = Modifiers(slots', IsHeld("alt", held'), k[1] = "alt")
  BY DEF ReleaseModifier
<1>2. SlotsAreHeld' /\ slots' \subseteq slots /\ disturbed' \subseteq Key
  BY ReleaseKeepsSlots
<1>3. ModifiersAreHeld'
  BY <1>1, <1>2, ModifiersFollowSlots DEF SlotsAreHeld, ModifiersAreHeld
<1> QED
  BY <1>1, <1>2, <1>3 DEF NormalizerInv, NormalizerTypeOK, Modifiers

\* What is missed disturbs its key, and so its modifier.
LEMMA MissKeepsInv ==
  ASSUME NormalizerInv, NEW k \in Key, MissModifier(k)
  PROVE  NormalizerInv'
<1>1. /\ held' = IF k \in held THEN held \ {k} ELSE held \cup {k}
      /\ disturbed' = disturbed \cup {k} /\ UNCHANGED <<slots, modifiers>>
  BY DEF MissModifier
<1>2. SlotsAreHeld'
  BY <1>1 DEF NormalizerInv, SlotsAreHeld
<1>3. ModifiersAreHeld'
  <2> SUFFICES ASSUME NEW g \in Group, KeysOf(g) \cap disturbed' = {}
               PROVE  g \in modifiers' <=> IsHeld(g, held')
    BY DEF ModifiersAreHeld
  <2>1. k \notin KeysOf(g) /\ KeysOf(g) \cap disturbed = {}
    BY <1>1
  <2>2. IsHeld(g, held') <=> IsHeld(g, held)
    BY <1>1, <2>1 DEF IsHeld
  <2> QED
    BY <1>1, <2>1, <2>2 DEF NormalizerInv, ModifiersAreHeld
<1>4. NormalizerTypeOK'
  BY <1>1 DEF NormalizerInv, NormalizerTypeOK
<1> QED
  BY <1>2, <1>3, <1>4 DEF NormalizerInv

LEMMA OtherKeyKeepsInv ==
  ASSUME NormalizerInv, OtherKey
  PROVE  NormalizerInv'
<1>1. modifiers' = Modifiers(slots, IsHeld("alt", held), FALSE) /\ UNCHANGED <<slots, held, disturbed>>
  BY DEF OtherKey
<1>2. ModifiersAreHeld'
  BY <1>1, ModifiersFollowSlots DEF NormalizerInv, SlotsAreHeld, ModifiersAreHeld
<1> QED
  BY <1>1, <1>2 DEF NormalizerInv, SlotsAreHeld, NormalizerTypeOK, Modifiers

\* The invariant holds of a fresh normalizer, whatever is held, and is kept.
LEMMA NormalizerInvHolds == NormalizerSpec => []NormalizerInv
<1>1. NormalizerInit => NormalizerInv
  BY DEF NormalizerInit, NormalizerInv, NormalizerTypeOK, SlotsAreHeld, ModifiersAreHeld, IsHeld
<1>2. NormalizerInv /\ [NormalizerNext]_normalizer_vars => NormalizerInv'
  <2> SUFFICES ASSUME NormalizerInv, [NormalizerNext]_normalizer_vars PROVE NormalizerInv'
    OBVIOUS
  <2>1. CASE UNCHANGED normalizer_vars
    BY <2>1 DEF NormalizerInv, NormalizerTypeOK, SlotsAreHeld, ModifiersAreHeld, normalizer_vars
  <2> QED
    BY <2>1, PressKeepsInv, ReleaseKeepsInv, MissKeepsInv, OtherKeyKeepsInv DEF NormalizerNext
<1> QED
  BY <1>1, <1>2, PTL DEF NormalizerSpec

\* A press or release of one side, under whichever name, never falsifies the slot of
\* the other: reconcile_released_modifier clears only what is up.
THEOREM SpecSlotsAreHeld == NormalizerSpec => []SlotsAreHeld
<1>1. NormalizerInv => SlotsAreHeld
  BY DEF NormalizerInv
<1> QED
  BY <1>1, NormalizerInvHolds, PTL

\* The modifiers KeyboardNormalizer::normalize computes are those held, which is what
\* KeyboardSession takes for granted, unless a key was missed or misnamed.
THEOREM SpecModifiersAreHeld == NormalizerSpec => []ModifiersAreHeld
<1>1. NormalizerInv => ModifiersAreHeld
  BY DEF NormalizerInv
<1> QED
  BY <1>1, NormalizerInvHolds, PTL
=============================================================================
