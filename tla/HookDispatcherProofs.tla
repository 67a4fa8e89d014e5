------------------------ MODULE HookDispatcherProofs ------------------------
(***************************************************************************)
(* Proofs about HookDispatcher for any keys, bindings, windows, timeout    *)
(* and handshake window, and however far the observer's snapshot lags.     *)
(***************************************************************************)
EXTENDS HookDispatcher, PrefixMachineProofs

DispatcherInv ==
  /\ DispatcherTypeOK
  /\ PrefixKeyTracked
  /\ PendingKeyHeld
  /\ ArmedIsShown
  /\ ButtonGoesOneWay

LEMMA DispatcherInvImpliesInv == DispatcherInv => Inv
BY DEF DispatcherInv, DispatcherTypeOK, Inv

\* The dispatcher never takes for the foreground a terminal that is not in it.
LEMMA CachedIsForeground ==
  ASSUME DispatcherTypeOK, ReadSnapshot
  PROVE  /\ CachedTerminal \in Window \cup {NoTerminal}
         /\ last_known' \in Window \cup {NoTerminal}
         /\ CachedTerminal # NoTerminal => CachedTerminal = foreground
BY DEF DispatcherTypeOK, ReadSnapshot, CachedTerminal

\* The key of a shutdown command is in the ledger when the command is returned,
\* and a held ledger key keeps an idle machine as it is.
LEMMA HandlerKeepsPendingKey ==
  ASSUME Inv, NEW e \in KeyEvent, ~e.injected, HandleUserEvent(e)
  PROVE  /\ outcome'.command = "shutdown"
              => e.key \in suppressed_keys' /\ ~Armed' /\ e.transition = "Down"
         /\ ~Armed /\ e.key \in suppressed_keys /\ e.transition = "Down"
              => UNCHANGED <<state, suppressed_keys>>
<1>1. outcome'.command = "shutdown" => RunCommand(e)
  BY DEF HandleUserEvent, SwallowLedgerKey, PassKeyUp, PassIdleKey,
         ArmPrefix, SystemShortcut, PassModifier, EscapeSession, RefuseLiteral,
         ConsumeUnknown, EndSession, Pass, Return
<1>2. RunCommand(e) => e.key \in suppressed_keys' /\ ~Armed' /\ e.transition = "Down"
  BY DEF RunCommand, ArmedKeyDown, FreshKeyDown, Armed
<1>3. ASSUME ~Armed, e.key \in suppressed_keys, e.transition = "Down"
      PROVE  UNCHANGED <<state, suppressed_keys>>
  <2>1. e.key \in SettledLedger(e)
    BY <1>3 DEF SettledLedger, SessionEnds, Expired, ForegroundChanged
  <2>2. SwallowLedgerKey(e)
    BY <2>1 DEF HandleUserEvent, PassKeyUp, PassIdleKey, IdleKeyDown,
         ArmPrefix, SystemShortcut, PassModifier, EscapeSession, RefuseLiteral,
         RunCommand, ConsumeUnknown, ArmedKeyDown, FreshKeyDown
  <2>. QED
    BY <1>3, <2>2 DEF SwallowLedgerKey
<1>. QED
  BY <1>1, <1>2, <1>3

\* A command is returned for the window the event found in the foreground.
LEMMA HandlerTargetsForeground ==
  ASSUME Inv, NEW e \in KeyEvent, HandleUserEvent(e),
         outcome'.command \in {"action", "send_prefix_literal"}
  PROVE  outcome'.target = e.foreground /\ e.foreground \in Window
<1>1. RunCommand(e)
  BY DEF HandleUserEvent, SwallowLedgerKey, PassKeyUp, PassIdleKey,
         ArmPrefix, SystemShortcut, PassModifier, EscapeSession, RefuseLiteral,
         ConsumeUnknown, EndSession, Pass, Return
<1>2. Armed /\ e.foreground = state.target
  BY <1>1, Settled DEF RunCommand, ArmedKeyDown
<1>. QED
  BY <1>1, <1>2 DEF RunCommand, Inv, TypeOK, Armed, ArmedState

-----------------------------------------------------------------------------
(***************************************************************************)
(* A keyboard event, with what the dispatcher took for the foreground      *)
(* named.                                                                  *)
(***************************************************************************)

EventFor(k, c, t, w) ==
  [key |-> k, chord |-> c, transition |-> t, injected |-> FALSE, foreground |-> w]

LEMMA KeyboardEvent ==
  ASSUME DispatcherInv, NEW k \in PhysicalKey, NEW c \in Chord,
         NEW t \in {"Down", "Up"}, OnKeyboard(k, c, t)
  PROVE  \E w \in Window \cup {NoTerminal} :
           /\ w # NoTerminal => w = foreground
           /\ EventFor(k, c, t, w) \in KeyEvent
           /\ HandleUserEvent(EventFor(k, c, t, w))
           /\ Handshake(EventFor(k, c, t, w))
           /\ last_known' \in Window \cup {NoTerminal}
<1>1. PICK w \in Window \cup {NoTerminal} :
        /\ w = CachedTerminal /\ (w # NoTerminal => w = foreground)
        /\ last_known' \in Window \cup {NoTerminal}
  BY CachedIsForeground DEF OnKeyboard, DispatcherInv
<1>2. EventFor(k, c, t, w) \in KeyEvent
  BY DEF EventFor, KeyEvent
<1>3. HandleUserEvent(EventFor(k, c, t, w)) /\ Handshake(EventFor(k, c, t, w))
  BY <1>1 DEF OnKeyboard, EventFor
<1>. QED
  BY <1>1, <1>2, <1>3

-----------------------------------------------------------------------------
(***************************************************************************)
(* DispatcherInv is inductive: one lemma per action that moves a part of   *)
(* it.                                                                     *)
(***************************************************************************)

LEMMA OnKeyboardPreservesInv ==
  ASSUME DispatcherInv, NEW k \in PhysicalKey, NEW c \in Chord,
         NEW t \in {"Down", "Up"}, OnKeyboard(k, c, t)
  PROVE  DispatcherInv'
<1>1. PICK w \in Window \cup {NoTerminal} :
        /\ w # NoTerminal => w = foreground
        /\ EventFor(k, c, t, w) \in KeyEvent
        /\ HandleUserEvent(EventFor(k, c, t, w))
        /\ Handshake(EventFor(k, c, t, w))
        /\ last_known' \in Window \cup {NoTerminal}
  BY KeyboardEvent
<1> DEFINE e == EventFor(k, c, t, w)
<1>2. ~e.injected /\ e.key = k /\ e.transition = t /\ e.foreground = w
  BY DEF EventFor
<1>3. Inv /\ Inv'
  <2>1. UNCHANGED now
    BY DEF OnKeyboard
  <2>. QED
    BY <1>1, <2>1, DispatcherInvImpliesInv, HandlerPreservesInv, UserEventIsHandled
<1>4. offered' \in Message \cup {NoMessage}
  <2>1. CASE outcome'.command \in {"action", "send_prefix_literal"}
    <3>1. outcome'.target \in Window
      BY <1>1, <1>3, <2>1, HandlerTargetsForeground
    <3>. QED
      BY <2>1, <3>1 DEF OnKeyboard, OfferCommand, Message
  <2>2. CASE outcome'.command \notin {"action", "send_prefix_literal"}
    BY <2>2 DEF OnKeyboard, OfferCommand
  <2>. QED
    BY <2>1, <2>2
<1>5. Pending(e) \in PendingKey \cup {NoPending}
  BY <1>2, <1>3 DEF Pending, PendingKey, Inv, TypeOK, DispatcherInv, DispatcherTypeOK
<1>6. DispatcherTypeOK'
  <2>1. pending_shutdown_key' \in PendingKey \cup {NoPending} /\ shutdown' \in BOOLEAN
    BY <1>1, <1>5 DEF Handshake, DispatcherInv, DispatcherTypeOK
  <2>2. prefix_armed' \in BOOLEAN
    BY DEF OnKeyboard, StoreArmed, Armed
  <2>. QED
    BY <1>1, <1>3, <1>4, <2>1, <2>2
       DEF DispatcherInv, DispatcherTypeOK, OnKeyboard, pointer_vars, Inv
<1>7. PendingKeyHeld'
  <2> SUFFICES ASSUME pending_shutdown_key' # NoPending
               PROVE  pending_shutdown_key'.key \in suppressed_keys' /\ ~Armed'
    BY DEF PendingKeyHeld
  <2>1. /\ pending_shutdown_key' = Pending(e)
        /\ Pending(e) # NoPending /\ e.key = Pending(e).key /\ ~Completes(e)
    BY <1>1 DEF Handshake
  <2>2. e.transition = "Down"
    BY <1>2, <2>1 DEF Completes
  <2>3. CASE outcome'.command = "shutdown"
    BY <1>1, <1>2, <1>3, <2>1, <2>3, HandlerKeepsPendingKey
  <2>4. CASE outcome'.command # "shutdown"
    \* The repeat of the key that ended the session: its ledger entry stays.
    <3>1. Pending(e) = pending_shutdown_key
      BY <2>4 DEF Pending
    <3>2. e.key \in suppressed_keys /\ ~Armed
      BY <2>1, <3>1 DEF DispatcherInv, PendingKeyHeld
    <3>3. UNCHANGED <<state, suppressed_keys>>
      BY <1>1, <1>2, <1>3, <2>2, <3>2, HandlerKeepsPendingKey
    <3>. QED
      BY <2>1, <3>1, <3>2, <3>3 DEF Armed
  <2>. QED
    BY <2>3, <2>4
<1>8. ArmedIsShown'
  BY DEF OnKeyboard, StoreArmed, ArmedIsShown
<1>9. ButtonGoesOneWay'
  BY DEF OnKeyboard, pointer_vars, DispatcherInv, ButtonGoesOneWay
<1>. QED
  BY <1>3, <1>6, <1>7, <1>8, <1>9 DEF DispatcherInv, Inv

\* A click while a handshake is pending finds an idle machine, and leaves the
\* ledger with the pending key in it.
LEMMA LeftDownPreservesInv ==
  ASSUME DispatcherInv, LeftDown
  PROVE  DispatcherInv'
<1>1. UNCHANGED now /\ UNCHANGED keyboard_vars
  BY DEF LeftDown
<1>2. Inv'
  BY <1>1, DispatcherInvImpliesInv, CancelPreservesInv DEF LeftDown
<1>3. /\ CachedTerminal \in Window \cup {NoTerminal}
      /\ last_known' \in Window \cup {NoTerminal}
  BY CachedIsForeground DEF LeftDown, DispatcherInv
<1>4. /\ button' \in {"passed", "captured"}
      /\ drag' \in Drag \cup {NoDrag}
      /\ drag' # NoDrag <=> button' = "captured"
  <2>1. CASE BeginDrag
    <3>1. drag' \in Drag
      BY <1>3, <2>1 DEF BeginDrag, Drag
    <3>. QED
      BY <2>1, <3>1, DispatcherAssumption DEF BeginDrag, DispatcherAssumption
  <2>2. CASE PassClick
    BY <2>2 DEF PassClick
  <2>. QED
    BY <2>1, <2>2 DEF LeftDown
<1>5. DispatcherTypeOK'
  BY <1>1, <1>2, <1>3, <1>4
     DEF LeftDown, DispatcherInv, DispatcherTypeOK, keyboard_vars, Inv
<1>6. ~Armed' /\ (~Armed => UNCHANGED suppressed_keys)
  BY DEF LeftDown, Cancel, ResetTransientState, Armed
<1>7. PendingKeyHeld' /\ ArmedIsShown'
  BY <1>1, <1>6 DEF DispatcherInv, PendingKeyHeld, ArmedIsShown, keyboard_vars
<1>8. ButtonGoesOneWay'
  BY <1>4 DEF ButtonGoesOneWay
<1>. QED
  BY <1>2, <1>5, <1>7, <1>8 DEF DispatcherInv, Inv

LEMMA MovePreservesInv ==
  ASSUME DispatcherInv, Move
  PROVE  DispatcherInv'
<1>1. UNCHANGED <<prefix_vars, desktop_vars, keyboard_vars, button>>
  BY DEF Move
<1>2. drag \in Drag /\ drag # NoDrag
  BY DEF Move, DispatcherInv, DispatcherTypeOK
<1>3. drag' \in Drag
  BY <1>2 DEF Move, Drag
<1>4. offered' \in Message \cup {NoMessage}
  BY <1>2 DEF Move, Drag, Message
<1>5. drag' # NoDrag
  BY <1>3, DispatcherAssumption DEF DispatcherAssumption
<1>. QED
  BY <1>1, <1>2, <1>3, <1>4, <1>5
     DEF DispatcherInv, DispatcherTypeOK, TypeOK, PrefixKeyTracked, PendingKeyHeld,
         ArmedIsShown, ButtonGoesOneWay, Armed, prefix_vars, desktop_vars, keyboard_vars

LEMMA ReleasePreservesInv ==
  ASSUME DispatcherInv, LeftUp \/ MissLeftUp
  PROVE  DispatcherInv'
BY DEF LeftUp, MissLeftUp, DispatcherInv, DispatcherTypeOK, TypeOK, PrefixKeyTracked,
       PendingKeyHeld, ArmedIsShown, ButtonGoesOneWay, Armed, prefix_vars,
       desktop_vars, keyboard_vars

\* Neither the desktop nor the observer touches what the invariant relates.
LEMMA DesktopPreservesInv ==
  ASSUME DispatcherInv,
         (\E w \in Window \cup {NoTerminal} : FocusChange(w)) \/ Observe
  PROVE  DispatcherInv'
BY DEF FocusChange, Observe, DispatcherInv, DispatcherTypeOK, TypeOK, PrefixKeyTracked,
       PendingKeyHeld, ArmedIsShown, ButtonGoesOneWay, Armed, prefix_vars,
       keyboard_vars, pointer_vars

LEMMA DispatcherTickPreservesInv ==
  ASSUME DispatcherInv, DispatcherTick
  PROVE  DispatcherInv'
<1>1. Inv'
  BY DispatcherInvImpliesInv, TickPreservesInv DEF DispatcherTick
<1>. QED
  BY <1>1 DEF DispatcherTick, DispatcherInv, DispatcherTypeOK, PendingKeyHeld,
              ArmedIsShown, ButtonGoesOneWay, Armed, Inv, machine, desktop_vars,
              keyboard_vars, pointer_vars

LEMMA DispatcherInitEstablishesInv == DispatcherInit => DispatcherInv
<1> SUFFICES ASSUME DispatcherInit PROVE DispatcherInv
  OBVIOUS
<1>1. Inv
  BY InitEstablishesInv DEF DispatcherInit
<1>. QED
  BY <1>1 DEF DispatcherInit, Init, DispatcherInv, DispatcherTypeOK, PendingKeyHeld,
              ArmedIsShown, ButtonGoesOneWay, Armed, Inv

LEMMA DispatcherNextPreservesInv == DispatcherInv /\ [DispatcherNext]_vars => DispatcherInv'
<1> SUFFICES ASSUME DispatcherInv, [DispatcherNext]_vars PROVE DispatcherInv'
  OBVIOUS
<1>1. CASE \E k \in PhysicalKey, c \in Chord, t \in {"Down", "Up"} : OnKeyboard(k, c, t)
  BY <1>1, OnKeyboardPreservesInv
<1>2. CASE LeftDown
  BY <1>2, LeftDownPreservesInv
<1>3. CASE Move
  BY <1>3, MovePreservesInv
<1>4. CASE LeftUp \/ MissLeftUp
  BY <1>4, ReleasePreservesInv
<1>5. CASE (\E w \in Window \cup {NoTerminal} : FocusChange(w)) \/ Observe
  BY <1>5, DesktopPreservesInv
<1>6. CASE DispatcherTick
  BY <1>6, DispatcherTickPreservesInv
<1>7. CASE UNCHANGED vars
  BY <1>7 DEF vars, DispatcherInv, DispatcherTypeOK, TypeOK, PrefixKeyTracked,
              PendingKeyHeld, ArmedIsShown, ButtonGoesOneWay, Armed, prefix_vars,
              desktop_vars, keyboard_vars, pointer_vars
<1>. QED
  BY <1>1, <1>2, <1>3, <1>4, <1>5, <1>6, <1>7 DEF DispatcherNext

\* Every variable of the hook thread keeps its type.
THEOREM DispatcherTypeCorrect == DispatcherSpec => []DispatcherTypeOK
<1>1. DispatcherInv => DispatcherTypeOK
  BY DEF DispatcherInv
<1>. QED
  BY <1>1, DispatcherInitEstablishesInv, DispatcherNextPreservesInv, PTL DEF DispatcherSpec

\* Whatever arrives between the shutdown chord and the release of its key, the
\* release that fires the shutdown is consumed.
THEOREM PendingKeyStaysHeld == DispatcherSpec => []PendingKeyHeld
<1>1. DispatcherInv => PendingKeyHeld
  BY DEF DispatcherInv
<1>. QED
  BY <1>1, DispatcherInitEstablishesInv, DispatcherNextPreservesInv, PTL DEF DispatcherSpec

\* An armed prefix is always shown, though clicks end sessions without a word
\* to the dashboard.
THEOREM ArmedIsAlwaysShown == DispatcherSpec => []ArmedIsShown
<1>1. DispatcherInv => ArmedIsShown
  BY DEF DispatcherInv
<1>. QED
  BY <1>1, DispatcherInitEstablishesInv, DispatcherNextPreservesInv, PTL DEF DispatcherSpec

\* A captured press is released into the hook, a passed one into the window
\* below, whatever focus changes and missed releases lie between.
THEOREM ButtonsGoOneWay == DispatcherSpec => []ButtonGoesOneWay
<1>1. DispatcherInv => ButtonGoesOneWay
  BY DEF DispatcherInv
<1>. QED
  BY <1>1, DispatcherInitEstablishesInv, DispatcherNextPreservesInv, PTL DEF DispatcherSpec

-----------------------------------------------------------------------------
(***************************************************************************)
(* A stale snapshot is never acted on.                                     *)
(***************************************************************************)

CaptureStep ==
  \A k \in PhysicalKey : k \in suppressed_keys' \ suppressed_keys => foreground # NoTerminal

TargetStep ==
  offered' # offered /\ offered' # NoMessage => offered'.target = foreground

LEMMA OnKeyboardActsInForeground ==
  ASSUME DispatcherInv, NEW k \in PhysicalKey, NEW c \in Chord,
         NEW t \in {"Down", "Up"}, OnKeyboard(k, c, t)
  PROVE  CaptureStep /\ TargetStep
<1>1. PICK w \in Window \cup {NoTerminal} :
        /\ w # NoTerminal => w = foreground
        /\ EventFor(k, c, t, w) \in KeyEvent
        /\ HandleUserEvent(EventFor(k, c, t, w))
  BY KeyboardEvent
<1> DEFINE e == EventFor(k, c, t, w)
<1>2. ~e.injected /\ e.foreground = w
  BY DEF EventFor
<1>3. Inv
  BY DispatcherInvImpliesInv
<1>4. CaptureStep
  <2>1. PassShape(e) \/ SwallowShape(e) \/ ArmShape(e) \/ HoldShape(e)
    BY <1>1, <1>2, <1>3, HandlerShapes
  <2>2. CASE PassShape(e) \/ SwallowShape(e)
    BY <2>2 DEF PassShape, SwallowShape, CaptureStep
  <2>3. CASE ArmShape(e) \/ HoldShape(e)
    BY <1>1, <1>2, <2>3 DEF ArmShape, HoldShape, CaptureStep
  <2>. QED
    BY <2>1, <2>2, <2>3
<1>5. TargetStep
  <2>1. CASE outcome'.command \in {"action", "send_prefix_literal"}
    <3>1. outcome'.target = w /\ w = foreground
      BY <1>1, <1>2, <1>3, <2>1, HandlerTargetsForeground, SentinelAssumption
         DEF SentinelAssumption
    <3>. QED
      BY <2>1, <3>1 DEF OnKeyboard, OfferCommand, TargetStep
  <2>2. CASE outcome'.command \notin {"action", "send_prefix_literal"}
    BY <2>2 DEF OnKeyboard, OfferCommand, TargetStep
  <2>. QED
    BY <2>1, <2>2
<1>. QED
  BY <1>4, <1>5

LEMMA NextActsInForeground ==
  ASSUME DispatcherInv, DispatcherNext
  PROVE  CaptureStep /\ TargetStep
<1>1. CASE \E k \in PhysicalKey, c \in Chord, t \in {"Down", "Up"} : OnKeyboard(k, c, t)
  BY <1>1, OnKeyboardActsInForeground
<1>2. CASE LeftDown
  BY <1>2 DEF LeftDown, Cancel, ResetTransientState, CaptureStep, TargetStep
<1>3. CASE Move
  BY <1>3 DEF Move, prefix_vars, CaptureStep, TargetStep
<1>4. CASE LeftUp \/ MissLeftUp
  BY <1>4 DEF LeftUp, MissLeftUp, prefix_vars, CaptureStep, TargetStep
<1>5. CASE (\E w \in Window \cup {NoTerminal} : FocusChange(w)) \/ Observe
  BY <1>5 DEF FocusChange, Observe, prefix_vars, CaptureStep, TargetStep
<1>6. CASE DispatcherTick
  BY <1>6 DEF DispatcherTick, machine, CaptureStep, TargetStep
<1>. QED
  BY <1>1, <1>2, <1>3, <1>4, <1>5, <1>6 DEF DispatcherNext

\* Keys are captured in a terminal that is in the foreground at that moment,
\* however old the snapshot the dispatcher read.
THEOREM OnlyTerminalsAreCaptured == DispatcherSpec => CapturesOnlyTerminals
<1>1. DispatcherInv /\ [DispatcherNext]_vars =>
        [ \A k \in PhysicalKey :
            k \in suppressed_keys' \ suppressed_keys => foreground # NoTerminal ]_vars
  BY NextActsInForeground DEF CaptureStep
<1>. QED
  BY <1>1, DispatcherInitEstablishesInv, DispatcherNextPreservesInv, PTL
     DEF DispatcherSpec, CapturesOnlyTerminals

\* What the worker is asked to do is meant for the window in the foreground.
THEOREM TargetsAreForeground == DispatcherSpec => TargetIsForeground
<1>1. DispatcherInv /\ [DispatcherNext]_vars =>
        [ offered' # offered /\ offered' # NoMessage => offered'.target = foreground ]_vars
  BY NextActsInForeground DEF TargetStep
<1>. QED
  BY <1>1, DispatcherInitEstablishesInv, DispatcherNextPreservesInv, PTL
     DEF DispatcherSpec, TargetIsForeground

=============================================================================
