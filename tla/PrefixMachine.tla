--------------------------- MODULE PrefixMachine ---------------------------
(***************************************************************************)
(* The prefix state machine of src/prefix.rs: PrefixMachine, its state,    *)
(* its ledger of suppressed keys, and the handlers that decide for every   *)
(* keyboard event whether the low-level hook passes it on or consumes it.  *)
(*                                                                         *)
(* The module is open: the events, the clock and the pointer are arbitrary *)
(* inputs.  KeyboardSession closes it with a physical keyboard, and        *)
(* HookDispatcher composes it with the rest of the hook thread.            *)
(***************************************************************************)
EXTENDS Integers

CONSTANTS
  PhysicalKey,    \* scan code and extended flag
  Chord,          \* logical key together with the active modifiers
  Window,         \* identities of verified Windows Terminal windows
  NoTerminal,     \* foreground_terminal: None
  Idle,           \* PrefixState::Idle
  PrefixChord,    \* PrefixConfig::prefix_chord
  Binding,        \* PrefixConfig::bindings, from bound chords to commands
  ReservedChord,  \* the chords is_reserved_system_chord accepts
  ModifierChord,  \* the chords whose logical key is LogicalKey::Modifier
  EscapeChord,    \* the chords whose logical key is LogicalKey::Escape
  Timeout,        \* PrefixConfig::timeout, in ticks
  MaxTime         \* bound on the clock

\* The other terminal actions differ only in the bridge chord the worker sends.
Command == {"action", "send_prefix_literal", "shutdown"}

ArmedState ==
  [target: Window, deadline: Nat, prefix_key: PhysicalKey,
   prefix_key_released: BOOLEAN]

CancelReason ==
  {"none", "Escape", "UnknownKey", "Timeout", "ForegroundChanged",
   "SystemShortcut", "PointerInput"}

KeyEvent ==
  [key: PhysicalKey, chord: Chord, transition: {"Down", "Up"},
   injected: BOOLEAN, foreground: Window \cup {NoTerminal}]

PrefixOutcome ==
  [disposition: {"PassThrough", "Consume"},
   command: Command \cup {"none"},
   target: Window \cup {NoTerminal},
   cancellation: CancelReason]

\* ControllerConfig::prefix_config rejects every configuration that breaks the
\* conditions on PrefixChord and Binding.
ASSUME ConfigAssumption ==
  /\ PrefixChord \in Chord \ (ReservedChord \cup EscapeChord \cup ModifierChord)
  /\ ReservedChord \subseteq Chord
  /\ ModifierChord \subseteq Chord
  /\ EscapeChord \subseteq Chord \ ModifierChord
  /\ DOMAIN Binding
       \subseteq Chord \ (ReservedChord \cup EscapeChord \cup ModifierChord)
  /\ \A c \in DOMAIN Binding : Binding[c] \in Command
  /\ Timeout \in Nat \ {0}
  /\ MaxTime \in Nat

ASSUME SentinelAssumption == NoTerminal \notin Window /\ Idle \notin ArmedState

VARIABLES
  state,            \* PrefixState
  suppressed_keys,  \* the ledger of consumed keys
  outcome,          \* what the last call returned to the hook
  now               \* Instant::now()

machine == <<state, suppressed_keys, outcome>>
prefix_vars == <<state, suppressed_keys, outcome, now>>

Armed == state # Idle

Return(disposition, cancellation) ==
  outcome' = [disposition |-> disposition, command |-> "none",
              target |-> NoTerminal, cancellation |-> cancellation]

ResetTransientState ==
  /\ state' = Idle
  /\ suppressed_keys' = {}

-----------------------------------------------------------------------------
(***************************************************************************)
(* The two checks every event starts with: the deadline, then the          *)
(* foreground.  Either ends the session and empties the ledger before the  *)
(* event itself is looked at.                                              *)
(***************************************************************************)

\* Mutant of Expired: the deadline itself still belongs to the session.
ExpiredLate == Armed /\ now > state.deadline

Expired == Armed /\ now >= state.deadline

\* Mutant of ForegroundChanged: no verified terminal counts as no information.
ForegroundKnownChanged(e) ==
  /\ Armed /\ ~Expired
  /\ e.foreground # NoTerminal
  /\ e.foreground # state.target

ForegroundChanged(e) == Armed /\ ~Expired /\ e.foreground # state.target

SessionEnds(e) == Expired \/ ForegroundChanged(e)

SettledState(e) == IF SessionEnds(e) THEN Idle ELSE state

SettledLedger(e) == IF SessionEnds(e) THEN {} ELSE suppressed_keys

Cancellation(e) ==
  IF Expired THEN "Timeout"
  ELSE IF ForegroundChanged(e) THEN "ForegroundChanged" ELSE "none"

Pass(e) ==
  /\ state' = SettledState(e)
  /\ suppressed_keys' = SettledLedger(e)
  /\ Return("PassThrough", Cancellation(e))

PassInjected(e) ==
  /\ e.injected
  /\ Pass(e)

\* A key of the ledger: its repeats and its release are consumed, and the
\* release takes it out.
SwallowLedgerKey(e) ==
  /\ ~e.injected
  /\ e.key \in SettledLedger(e)
  /\ \/ /\ e.transition = "Up"
        /\ suppressed_keys' = suppressed_keys \ {e.key}
        /\ state' = IF Armed /\ state.prefix_key = e.key
                      THEN [state EXCEPT !.prefix_key_released = TRUE]
                      ELSE state
     \/ /\ e.transition = "Down"
        /\ UNCHANGED <<state, suppressed_keys>>
  /\ Return("Consume", "none")

PassKeyUp(e) ==
  /\ ~e.injected
  /\ e.key \notin SettledLedger(e)
  /\ e.transition = "Up"
  /\ Pass(e)

FreshKeyDown(e) ==
  /\ ~e.injected
  /\ e.key \notin SettledLedger(e)
  /\ e.transition = "Down"

-----------------------------------------------------------------------------
(***************************************************************************)
(* handle_idle_key_down.                                                   *)
(***************************************************************************)

IdleKeyDown(e) == FreshKeyDown(e) /\ SettledState(e) = Idle

Arms(e) == e.foreground # NoTerminal /\ e.chord = PrefixChord

PassIdleKey(e) == IdleKeyDown(e) /\ ~Arms(e) /\ Pass(e)

ArmPrefix(e) ==
  /\ IdleKeyDown(e)
  /\ Arms(e)
  /\ state' = [target |-> e.foreground, deadline |-> now + Timeout,
               prefix_key |-> e.key, prefix_key_released |-> FALSE]
  /\ suppressed_keys' = SettledLedger(e) \cup {e.key}
  /\ Return("Consume", Cancellation(e))

-----------------------------------------------------------------------------
(***************************************************************************)
(* handle_armed_key_down.  The session goes on, so no cancellation was     *)
(* recorded before it.                                                     *)
(***************************************************************************)

ArmedKeyDown(e) == FreshKeyDown(e) /\ SettledState(e) # Idle

SystemShortcut(e) ==
  /\ ArmedKeyDown(e)
  /\ e.chord \in ReservedChord
  /\ ResetTransientState
  /\ Return("PassThrough", "SystemShortcut")

PassModifier(e) ==
  /\ ArmedKeyDown(e)
  /\ e.chord \in ModifierChord \ ReservedChord
  /\ UNCHANGED <<state, suppressed_keys>>
  /\ Return("PassThrough", "none")

\* Mutant of EndSession: the key that ends a session is consumed, not recorded.
EndSessionUnrecorded(e, reason) ==
  /\ state' = Idle
  /\ UNCHANGED suppressed_keys
  /\ Return("Consume", reason)

EndSession(e, reason) ==
  /\ state' = Idle
  /\ suppressed_keys' = suppressed_keys \cup {e.key}
  /\ Return("Consume", reason)

EscapeSession(e) ==
  /\ ArmedKeyDown(e)
  /\ e.chord \in EscapeChord \ ReservedChord
  /\ EndSession(e, "Escape")

\* Mutant of LiteralTooSoon: the literal prefix does not wait for the release.
LiteralNeverTooSoon(e) == FALSE

LiteralTooSoon(e) ==
  Binding[e.chord] = "send_prefix_literal" /\ ~state.prefix_key_released

RefuseLiteral(e) ==
  /\ ArmedKeyDown(e)
  /\ e.chord \in DOMAIN Binding
  /\ LiteralTooSoon(e)
  /\ suppressed_keys' = suppressed_keys \cup {e.key}
  /\ UNCHANGED state
  /\ Return("Consume", "none")

RunCommand(e) ==
  /\ ArmedKeyDown(e)
  /\ e.chord \in DOMAIN Binding
  /\ ~LiteralTooSoon(e)
  /\ state' = Idle
  /\ suppressed_keys' = suppressed_keys \cup {e.key}
  /\ outcome' = [disposition |-> "Consume", command |-> Binding[e.chord],
                 target |-> IF Binding[e.chord] = "shutdown"
                              THEN NoTerminal ELSE state.target,
                 cancellation |-> "none"]

ConsumeUnknown(e) ==
  /\ ArmedKeyDown(e)
  /\ e.chord \notin ReservedChord \cup ModifierChord \cup EscapeChord
                      \cup DOMAIN Binding
  /\ EndSession(e, "UnknownKey")

-----------------------------------------------------------------------------
\* The handler on an event of the user.  The hook passes injected events on
\* before any handler, so this is all of it that runs behind the hook.
HandleUserEvent(e) ==
  \/ SwallowLedgerKey(e)
  \/ PassKeyUp(e)
  \/ PassIdleKey(e)
  \/ ArmPrefix(e)
  \/ SystemShortcut(e)
  \/ PassModifier(e)
  \/ EscapeSession(e)
  \/ RefuseLiteral(e)
  \/ RunCommand(e)
  \/ ConsumeUnknown(e)

HandleKeyEvent(e) == PassInjected(e) \/ HandleUserEvent(e)

\* cancel(PointerInput): a due deadline is reported before the pointer.
Cancel ==
  \/ /\ Armed
     /\ ResetTransientState
     /\ Return("PassThrough", IF Expired THEN "Timeout" ELSE "PointerInput")
  \/ /\ ~Armed
     /\ UNCHANGED <<state, suppressed_keys>>
     /\ Return("PassThrough", "none")

\* observe_foreground: public, and called by tests only.
ObserveForeground(w) ==
  \/ /\ Armed /\ w # state.target
     /\ ResetTransientState
     /\ Return("PassThrough", "ForegroundChanged")
  \/ /\ ~(Armed /\ w # state.target)
     /\ UNCHANGED <<state, suppressed_keys>>
     /\ Return("PassThrough", "none")

Tick ==
  /\ now < MaxTime
  /\ now' = now + 1

Init ==
  /\ state = Idle
  /\ suppressed_keys = {}
  /\ outcome = [disposition |-> "PassThrough", command |-> "none",
                target |-> NoTerminal, cancellation |-> "none"]
  /\ now = 0

Next ==
  \/ \E e \in KeyEvent : HandleKeyEvent(e) /\ UNCHANGED now
  \/ Cancel /\ UNCHANGED now
  \/ \E w \in Window \cup {NoTerminal} : ObserveForeground(w) /\ UNCHANGED now
  \/ Tick /\ UNCHANGED machine

Spec == Init /\ [][Next]_prefix_vars

-----------------------------------------------------------------------------
(***************************************************************************)
(* Properties that hold whatever the events are.                           *)
(***************************************************************************)

TypeOK ==
  /\ state \in ArmedState \cup {Idle}
  /\ suppressed_keys \subseteq PhysicalKey
  /\ outcome \in PrefixOutcome
  /\ now \in 0..MaxTime

\* While a session is armed its prefix key is in the ledger exactly until its
\* release has been seen: prefix_key_released, which gates the literal prefix,
\* and the ledger, which decides what the shell sees, never disagree.
PrefixKeyTracked ==
  Armed =>
    (state.prefix_key_released <=> state.prefix_key \notin suppressed_keys)

\* No sequence of events, the repeats of the held prefix key included, extends
\* a session: the deadline moves only when a due deadline or a new foreground
\* ended the session and the same event armed the next one.
DeadlineFixed ==
  [][ Armed /\ state' # Idle /\ state'.deadline # state.deadline
        => outcome'.cancellation \in {"Timeout", "ForegroundChanged"} ]_prefix_vars

\* A command is dispatched at most once per armed session, before its
\* deadline, and to the window in which the prefix was pressed.
CommandsEndTheirSession ==
  [][ outcome'.command # "none" /\ outcome' # outcome
        => /\ Armed /\ now < state.deadline
           /\ outcome'.target \in {state.target, NoTerminal}
           /\ state' = Idle ]_prefix_vars

=============================================================================
