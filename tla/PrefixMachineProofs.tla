------------------------ MODULE PrefixMachineProofs ------------------------
(***************************************************************************)
(* Proofs about PrefixMachine for every set of keys, chords and windows,   *)
(* every table of bindings and every timeout.                              *)
(***************************************************************************)
EXTENDS PrefixMachine, TLAPS

\* The inductive invariant.  PrefixKeyTracked alone is not inductive: the record
\* that an armed state is comes from TypeOK.
Inv == TypeOK /\ PrefixKeyTracked

\* A bound chord is none of the special ones.
LEMMA BindingsAreCommands ==
  ASSUME NEW c \in DOMAIN Binding
  PROVE  /\ Binding[c] \in Command
         /\ c \notin ReservedChord \cup ModifierChord \cup EscapeChord
BY ConfigAssumption DEF ConfigAssumption

\* After a due deadline or a new foreground nothing of the session is left;
\* otherwise the event finds the machine as it was.
LEMMA Settled ==
  ASSUME Inv, NEW e \in KeyEvent
  PROVE  /\ SettledState(e) \in ArmedState \cup {Idle}
         /\ SettledLedger(e) \subseteq PhysicalKey
         /\ Cancellation(e) \in CancelReason
         /\ SettledState(e) # Idle =>
              /\ SettledState(e) = state
              /\ SettledLedger(e) = suppressed_keys
              /\ Cancellation(e) = "none"
              /\ Armed /\ ~Expired
              /\ e.foreground = state.target
BY DEF Inv, TypeOK, SettledState, SettledLedger, Cancellation, CancelReason,
       SessionEnds, Expired, ForegroundChanged, Armed

\* A key that is in the settled ledger is in the ledger, and no session ended.
LEMMA LedgerKeySettles ==
  ASSUME Inv, NEW e \in KeyEvent, e.key \in SettledLedger(e)
  PROVE  e.key \in suppressed_keys /\ ~SessionEnds(e)
BY DEF SettledLedger

-----------------------------------------------------------------------------
(***************************************************************************)
(* Every handler preserves the type invariant and keeps the prefix key     *)
(* tracked.                                                                *)
(***************************************************************************)

LEMMA HandlerPreservesInv ==
  ASSUME Inv, NEW e \in KeyEvent, HandleKeyEvent(e), UNCHANGED now
  PROVE  Inv'
<1> USE SentinelAssumption DEF SentinelAssumption
<1>1. CASE PassInjected(e)
  BY <1>1, Settled
     DEF PassInjected, Pass, Return, Inv, TypeOK, PrefixKeyTracked, PrefixOutcome,
         Armed, SettledState, SettledLedger
<1>2. CASE SwallowLedgerKey(e)
  BY <1>2, LedgerKeySettles
     DEF SwallowLedgerKey, Return, Inv, TypeOK, PrefixKeyTracked, PrefixOutcome,
         Armed, ArmedState, CancelReason
<1>3. CASE PassKeyUp(e)
  BY <1>3, Settled
     DEF PassKeyUp, Pass, Return, Inv, TypeOK, PrefixKeyTracked, PrefixOutcome,
         Armed, SettledState, SettledLedger
<1>4. CASE PassIdleKey(e)
  BY <1>4, Settled
     DEF PassIdleKey, Pass, Return, Inv, TypeOK, PrefixKeyTracked, PrefixOutcome,
         Armed, SettledState, SettledLedger
<1>5. CASE ArmPrefix(e)
  BY <1>5, Settled, ConfigAssumption
     DEF ArmPrefix, Arms, Return, Inv, TypeOK, PrefixKeyTracked, PrefixOutcome,
         Armed, ArmedState, KeyEvent, ConfigAssumption
<1>6. CASE SystemShortcut(e)
  BY <1>6
     DEF SystemShortcut, ResetTransientState, Return, Inv, TypeOK, PrefixKeyTracked,
         PrefixOutcome, CancelReason, Armed
<1>7. CASE PassModifier(e)
  BY <1>7
     DEF PassModifier, Return, Inv, TypeOK, PrefixKeyTracked, PrefixOutcome,
         CancelReason, Armed
<1>8. CASE EscapeSession(e)
  BY <1>8
     DEF EscapeSession, EndSession, Return, Inv, TypeOK, PrefixKeyTracked,
         PrefixOutcome, CancelReason, Armed, KeyEvent
<1>9. CASE RefuseLiteral(e)
  BY <1>9, Settled
     DEF RefuseLiteral, LiteralTooSoon, Return, Inv, TypeOK, PrefixKeyTracked,
         PrefixOutcome, CancelReason, Armed, ArmedKeyDown, KeyEvent
<1>10. CASE RunCommand(e)
  BY <1>10, Settled, BindingsAreCommands
     DEF RunCommand, ArmedKeyDown, Inv, TypeOK, PrefixKeyTracked, PrefixOutcome,
         CancelReason, Armed, ArmedState, KeyEvent
<1>11. CASE ConsumeUnknown(e)
  BY <1>11
     DEF ConsumeUnknown, EndSession, Return, Inv, TypeOK, PrefixKeyTracked,
         PrefixOutcome, CancelReason, Armed, KeyEvent
<1>. QED
  BY <1>1, <1>2, <1>3, <1>4, <1>5, <1>6, <1>7, <1>8, <1>9, <1>10, <1>11
     DEF HandleKeyEvent, HandleUserEvent

LEMMA CancelPreservesInv ==
  ASSUME Inv, Cancel, UNCHANGED now
  PROVE  Inv'
BY DEF Cancel, ResetTransientState, Return, Inv, TypeOK, PrefixKeyTracked,
       PrefixOutcome, CancelReason, Armed

LEMMA ObserveForegroundPreservesInv ==
  ASSUME Inv, NEW w \in Window \cup {NoTerminal}, ObserveForeground(w), UNCHANGED now
  PROVE  Inv'
BY DEF ObserveForeground, ResetTransientState, Return, Inv, TypeOK,
       PrefixKeyTracked, PrefixOutcome, CancelReason, Armed

LEMMA TickPreservesInv ==
  ASSUME Inv, Tick, UNCHANGED machine
  PROVE  Inv'
BY ConfigAssumption
   DEF Tick, machine, Inv, TypeOK, PrefixKeyTracked, Armed, ConfigAssumption

LEMMA InitEstablishesInv == Init => Inv
BY ConfigAssumption
   DEF Init, Inv, TypeOK, PrefixKeyTracked, PrefixOutcome, CancelReason, Armed,
       ConfigAssumption

LEMMA NextPreservesInv == Inv /\ [Next]_prefix_vars => Inv'
<1> SUFFICES ASSUME Inv, [Next]_prefix_vars PROVE Inv'
  OBVIOUS
<1>1. CASE \E e \in KeyEvent : HandleKeyEvent(e) /\ UNCHANGED now
  BY <1>1, HandlerPreservesInv
<1>2. CASE Cancel /\ UNCHANGED now
  BY <1>2, CancelPreservesInv
<1>3. CASE \E w \in Window \cup {NoTerminal} :
             ObserveForeground(w) /\ UNCHANGED now
  BY <1>3, ObserveForegroundPreservesInv
<1>4. CASE Tick /\ UNCHANGED machine
  BY <1>4, TickPreservesInv
<1>5. CASE UNCHANGED prefix_vars
  BY <1>5 DEF prefix_vars, Inv, TypeOK, PrefixKeyTracked, Armed
<1>. QED
  BY <1>1, <1>2, <1>3, <1>4, <1>5 DEF Next

-----------------------------------------------------------------------------
\* Whatever the events, the machine's state has its type: an armed session
\* names a verified window, and only keys are in the ledger.
THEOREM PrefixTypeCorrect == Spec => []TypeOK
<1>1. Inv => TypeOK
  BY DEF Inv
<1>. QED
  BY <1>1, InitEstablishesInv, NextPreservesInv, PTL DEF Spec

\* The ledger and prefix_key_released, which two handlers update separately,
\* never disagree about the key that armed the session.
THEOREM PrefixKeyStaysTracked == Spec => []PrefixKeyTracked
<1>1. Inv => PrefixKeyTracked
  BY DEF Inv
<1>. QED
  BY <1>1, InitEstablishesInv, NextPreservesInv, PTL DEF Spec

-----------------------------------------------------------------------------
(***************************************************************************)
(* What a handler may do to an armed session's deadline.                   *)
(***************************************************************************)

DeadlineStep ==
  Armed /\ state' # Idle /\ state'.deadline # state.deadline
    => outcome'.cancellation \in {"Timeout", "ForegroundChanged"}

LEMMA HandlerKeepsDeadline ==
  ASSUME Inv, NEW e \in KeyEvent, HandleKeyEvent(e)
  PROVE  DeadlineStep
<1>1. CASE PassInjected(e) \/ PassKeyUp(e) \/ PassIdleKey(e)
  BY <1>1 DEF PassInjected, PassKeyUp, PassIdleKey, Pass, SettledState, DeadlineStep
<1>2. CASE SwallowLedgerKey(e)
  BY <1>2 DEF SwallowLedgerKey, DeadlineStep, Inv, TypeOK, Armed, ArmedState
<1>3. CASE ArmPrefix(e)
  \* A session that was armed and is armed again by one event was ended by it.
  <2>1. SettledState(e) = Idle /\ outcome'.cancellation = Cancellation(e)
    BY <1>3 DEF ArmPrefix, IdleKeyDown, Return
  <2>2. Armed => Cancellation(e) \in {"Timeout", "ForegroundChanged"}
    BY <2>1 DEF SettledState, SessionEnds, Cancellation, Armed
  <2>. QED
    BY <2>1, <2>2 DEF DeadlineStep
<1>4. CASE PassModifier(e) \/ RefuseLiteral(e)
  BY <1>4 DEF PassModifier, RefuseLiteral, DeadlineStep
<1>5. CASE SystemShortcut(e) \/ EscapeSession(e) \/ RunCommand(e) \/ ConsumeUnknown(e)
  BY <1>5 DEF SystemShortcut, EscapeSession, RunCommand, ConsumeUnknown, EndSession,
              ResetTransientState, DeadlineStep
<1>. QED
  BY <1>1, <1>2, <1>3, <1>4, <1>5 DEF HandleKeyEvent, HandleUserEvent

LEMMA NextKeepsDeadline ==
  ASSUME Inv, Next
  PROVE  DeadlineStep
<1>1. CASE \E e \in KeyEvent : HandleKeyEvent(e)
  BY <1>1, HandlerKeepsDeadline
<1>2. CASE Cancel
  BY <1>2 DEF Cancel, ResetTransientState, DeadlineStep
<1>3. CASE \E w \in Window \cup {NoTerminal} : ObserveForeground(w)
  BY <1>3 DEF ObserveForeground, ResetTransientState, DeadlineStep
<1>4. CASE Tick /\ UNCHANGED machine
  BY <1>4 DEF machine, DeadlineStep
<1>. QED
  BY <1>1, <1>2, <1>3, <1>4 DEF Next

\* No sequence of events, repeats of the held prefix key included, extends an
\* armed session beyond the deadline it was given.
THEOREM DeadlineStaysFixed == Spec => DeadlineFixed
<1>1. Inv /\ [Next]_prefix_vars =>
        [ Armed /\ state' # Idle /\ state'.deadline # state.deadline
            => outcome'.cancellation \in {"Timeout", "ForegroundChanged"} ]_prefix_vars
  BY NextKeepsDeadline DEF DeadlineStep
<1>. QED
  BY <1>1, InitEstablishesInv, NextPreservesInv, PTL DEF Spec, DeadlineFixed

-----------------------------------------------------------------------------
(***************************************************************************)
(* Which handler dispatches.                                               *)
(***************************************************************************)

CommandStep ==
  outcome'.command # "none" /\ outcome' # outcome
    => /\ Armed /\ now < state.deadline
       /\ outcome'.target \in {state.target, NoTerminal}
       /\ state' = Idle

LEMMA HandlerDispatches ==
  ASSUME Inv, NEW e \in KeyEvent, HandleKeyEvent(e)
  PROVE  CommandStep
<1>1. CASE RunCommand(e)
  <2>1. Armed /\ ~Expired
    BY <1>1, Settled DEF RunCommand, ArmedKeyDown
  <2>2. now < state.deadline
    BY <2>1 DEF Expired, Inv, TypeOK, Armed, ArmedState
  <2>. QED
    BY <1>1, <2>1, <2>2 DEF RunCommand, CommandStep
<1>2. CASE ~RunCommand(e)
  <2>1. outcome'.command = "none"
    BY <1>2 DEF HandleKeyEvent, HandleUserEvent, PassInjected, SwallowLedgerKey, PassKeyUp,
                PassIdleKey, ArmPrefix, SystemShortcut, PassModifier, EscapeSession,
                RefuseLiteral, ConsumeUnknown, EndSession, Pass, Return
  <2>. QED
    BY <2>1 DEF CommandStep
<1>. QED
  BY <1>1, <1>2

LEMMA NextDispatches ==
  ASSUME Inv, Next
  PROVE  CommandStep
<1>1. CASE \E e \in KeyEvent : HandleKeyEvent(e)
  BY <1>1, HandlerDispatches
<1>2. CASE Cancel
  BY <1>2 DEF Cancel, Return, CommandStep
<1>3. CASE \E w \in Window \cup {NoTerminal} : ObserveForeground(w)
  BY <1>3 DEF ObserveForeground, Return, CommandStep
<1>4. CASE Tick /\ UNCHANGED machine
  BY <1>4 DEF machine, CommandStep
<1>. QED
  BY <1>1, <1>2, <1>3, <1>4 DEF Next

\* A command is dispatched at most once per armed session, before its deadline,
\* and only to the window in which the prefix was pressed.
THEOREM CommandsEndSessions == Spec => CommandsEndTheirSession
<1>1. Inv /\ [Next]_prefix_vars =>
        [ outcome'.command # "none" /\ outcome' # outcome
            => /\ Armed /\ now < state.deadline
               /\ outcome'.target \in {state.target, NoTerminal}
               /\ state' = Idle ]_prefix_vars
  BY NextDispatches DEF CommandStep
<1>. QED
  BY <1>1, InitEstablishesInv, NextPreservesInv, PTL DEF Spec, CommandsEndTheirSession

-----------------------------------------------------------------------------
(***************************************************************************)
(* Seen from the keyboard, a handler does one of four things.              *)
(***************************************************************************)

PassShape(e) ==
  \E freed \in {FALSE, Armed} :
    /\ outcome'.disposition = "PassThrough"
    /\ suppressed_keys' = IF freed THEN {} ELSE suppressed_keys
    /\ Armed' = IF freed THEN FALSE ELSE Armed
    /\ e.key \notin suppressed_keys'

SwallowShape(e) ==
  /\ outcome'.disposition = "Consume"
  /\ e.key \in suppressed_keys
  /\ suppressed_keys' =
       IF e.transition = "Up" THEN suppressed_keys \ {e.key} ELSE suppressed_keys
  /\ Armed' = Armed

ArmShape(e) ==
  /\ e.transition = "Down"
  /\ outcome'.disposition = "Consume"
  /\ Armed \/ e.key \notin suppressed_keys
  /\ suppressed_keys' = (IF Armed THEN {} ELSE suppressed_keys) \cup {e.key}
  /\ Armed'
  /\ e.foreground # NoTerminal

HoldShape(e) ==
  /\ e.transition = "Down"
  /\ outcome'.disposition = "Consume"
  /\ Armed
  /\ e.key \notin suppressed_keys
  /\ suppressed_keys' = suppressed_keys \cup {e.key}
  /\ e.chord \notin ModifierChord
  /\ e.foreground # NoTerminal

LEMMA UserEventIsHandled ==
  ASSUME NEW e \in KeyEvent, HandleUserEvent(e)
  PROVE  HandleKeyEvent(e)
BY DEF HandleKeyEvent

LEMMA SettledPasses ==
  ASSUME Inv, NEW e \in KeyEvent, Pass(e), e.key \notin SettledLedger(e)
  PROVE  PassShape(e)
<1>1. CASE SessionEnds(e)
  BY <1>1 DEF Pass, Return, PassShape, SettledState, SettledLedger, SessionEnds,
              Expired, ForegroundChanged, Armed
<1>2. CASE ~SessionEnds(e)
  BY <1>2 DEF Pass, Return, PassShape, SettledState, SettledLedger, Armed
<1>. QED
  BY <1>1, <1>2

LEMMA ArmedKeyDownIsInTarget ==
  ASSUME Inv, NEW e \in KeyEvent, ArmedKeyDown(e)
  PROVE  /\ Armed
         /\ e.transition = "Down"
         /\ e.key \notin suppressed_keys
         /\ e.foreground # NoTerminal
BY Settled, SentinelAssumption
   DEF ArmedKeyDown, FreshKeyDown, Inv, TypeOK, Armed, ArmedState, SentinelAssumption

LEMMA HandlerShapes ==
  ASSUME Inv, NEW e \in KeyEvent, HandleUserEvent(e)
  PROVE  PassShape(e) \/ SwallowShape(e) \/ ArmShape(e) \/ HoldShape(e)
<1>1. CASE PassKeyUp(e) \/ PassIdleKey(e)
  BY <1>1, SettledPasses DEF PassKeyUp, PassIdleKey, IdleKeyDown, FreshKeyDown
<1>2. CASE SwallowLedgerKey(e)
  BY <1>2, LedgerKeySettles, SentinelAssumption
     DEF SwallowLedgerKey, SwallowShape, Return, Armed, Inv, TypeOK, ArmedState,
         SentinelAssumption
<1>3. CASE ArmPrefix(e)
  <2>1. SettledState(e) = Idle /\ e.key \notin SettledLedger(e)
    BY <1>3 DEF ArmPrefix, IdleKeyDown, FreshKeyDown
  <2>2. SettledLedger(e) = IF Armed THEN {} ELSE suppressed_keys
    BY <2>1 DEF SettledState, SettledLedger, SessionEnds, Expired,
                ForegroundChanged, Armed
  <2>3. e.foreground \in Window /\ e.key \in PhysicalKey /\ now + Timeout \in Nat
    BY <1>3, ConfigAssumption
       DEF ArmPrefix, Arms, KeyEvent, Inv, TypeOK, ConfigAssumption
  <2>4. state' \in ArmedState
    BY <1>3, <2>3 DEF ArmPrefix, ArmedState
  <2>5. Armed'
    BY <2>4, SentinelAssumption DEF Armed, SentinelAssumption
  <2>. QED
    BY <1>3, <2>1, <2>2, <2>5
       DEF ArmPrefix, IdleKeyDown, FreshKeyDown, Arms, Return, ArmShape
<1>4. CASE SystemShortcut(e)
  BY <1>4, ArmedKeyDownIsInTarget
     DEF SystemShortcut, ResetTransientState, Return, PassShape, Armed
<1>5. CASE PassModifier(e)
  BY <1>5, ArmedKeyDownIsInTarget DEF PassModifier, Return, PassShape, Armed
<1>6. CASE EscapeSession(e)
  BY <1>6, ArmedKeyDownIsInTarget, ConfigAssumption
     DEF EscapeSession, EndSession, Return, HoldShape, ConfigAssumption
<1>7. CASE RefuseLiteral(e)
  BY <1>7, ArmedKeyDownIsInTarget, BindingsAreCommands
     DEF RefuseLiteral, Return, HoldShape
<1>8. CASE RunCommand(e)
  BY <1>8, ArmedKeyDownIsInTarget, BindingsAreCommands DEF RunCommand, HoldShape
<1>9. CASE ConsumeUnknown(e)
  BY <1>9, ArmedKeyDownIsInTarget DEF ConsumeUnknown, EndSession, Return, HoldShape
<1>. QED
  BY <1>1, <1>2, <1>3, <1>4, <1>5, <1>6, <1>7, <1>8, <1>9 DEF HandleUserEvent

\* How a session comes to know that its prefix key was released.
LEMMA HandlerKeepsRelease ==
  ASSUME Inv, NEW e \in KeyEvent, HandleUserEvent(e), Armed',
         state'.prefix_key_released
  PROVE  /\ Armed
         /\ state'.prefix_key = state.prefix_key
         /\ \/ e.transition = "Up" /\ e.key = state.prefix_key
            \/ /\ state.prefix_key_released
               /\ e.key = state.prefix_key /\ e.transition = "Down"
                    => outcome'.disposition = "PassThrough"
<1>1. CASE PassKeyUp(e) \/ PassIdleKey(e)
  BY <1>1 DEF PassKeyUp, PassIdleKey, Pass, Return, SettledState, Armed
<1>2. CASE SwallowLedgerKey(e)
  BY <1>2, LedgerKeySettles
     DEF SwallowLedgerKey, Inv, TypeOK, PrefixKeyTracked, Armed, ArmedState, KeyEvent
<1>3. CASE ArmPrefix(e)
  BY <1>3 DEF ArmPrefix
<1>4. CASE PassModifier(e)
  BY <1>4 DEF PassModifier, Return, Armed
<1>5. CASE RefuseLiteral(e)
  BY <1>5 DEF RefuseLiteral, LiteralTooSoon, Armed
<1>6. CASE SystemShortcut(e) \/ EscapeSession(e) \/ RunCommand(e) \/ ConsumeUnknown(e)
  BY <1>6 DEF SystemShortcut, EscapeSession, RunCommand, ConsumeUnknown, EndSession,
              ResetTransientState, Armed
<1>. QED
  BY <1>1, <1>2, <1>3, <1>4, <1>5, <1>6 DEF HandleUserEvent

=============================================================================
