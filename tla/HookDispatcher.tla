--------------------------- MODULE HookDispatcher ---------------------------
(***************************************************************************)
(* HookDispatcher of src/controller.rs, which runs on the hook thread: it  *)
(* gives every keyboard event to the PrefixMachine and every mouse event   *)
(* to the PointerDragState, offers what they ask for to the action worker, *)
(* and completes the shutdown handshake.                                   *)
(*                                                                         *)
(* The foreground window changes under it.  What it takes for the terminal *)
(* in the foreground is the observer's snapshot, which lags, or the last   *)
(* snapshot it could read, which lags more, filtered by the window handle  *)
(* that is in the foreground now.                                          *)
(*                                                                         *)
(* Whether the worker's queue takes an offered message is Controller's     *)
(* subject; the geometry of a drag is PaneResize's.                          *)
(***************************************************************************)
EXTENDS PrefixMachine

CONSTANTS
  NoPending,        \* pending_shutdown_key: None
  NoDrag,           \* PointerDragState::active: None
  NoMessage,        \* the last event offered nothing to the worker
  HandshakeWindow   \* SHUTDOWN_HANDSHAKE_WINDOW, in ticks

PendingKey == [key: PhysicalKey, at: Nat]

\* Its sequence number and its divider are PaneResize's.
Drag == [target: Window, canceled: BOOLEAN]

Message ==
  [kind: {"action", "send_prefix_literal", "resize"}, target: Window]

ASSUME DispatcherAssumption ==
  /\ NoPending \notin PendingKey
  /\ NoDrag \notin Drag
  /\ NoMessage \notin Message
  /\ HandshakeWindow \in Nat

VARIABLES
  foreground,            \* the terminal in the foreground, NoTerminal for any other window
  snapshot,              \* DesktopSnapshot::terminal, as the observer left it
  last_known,            \* DesktopSnapshotSource::last_known
  prefix_armed,          \* DashboardTelemetry::prefix_armed
  pending_shutdown_key,
  shutdown,              \* the handshake has fired
  drag,                  \* PointerDragState::active
  button,                \* the primary button: "up", or where its press went
  offered                \* the message the last event offered to the worker

desktop_vars == <<foreground, snapshot, last_known>>
keyboard_vars == <<prefix_armed, pending_shutdown_key, shutdown>>
pointer_vars == <<drag, button>>
vars == <<prefix_vars, desktop_vars, keyboard_vars, pointer_vars, offered>>

-----------------------------------------------------------------------------
(***************************************************************************)
(* What the hook thread believes about the foreground.                     *)
(***************************************************************************)

\* snapshot(): what the lock protects, or the last value read if it is busy.
ReadSnapshot == last_known' \in {snapshot, last_known}

\* Mutant of CachedTerminal: the snapshot is believed without a look at the
\* window that is in the foreground now.
CachedTerminalUnfiltered == last_known'

\* Only the terminal whose window is in the foreground now counts.
CachedTerminal == IF last_known' = foreground THEN last_known' ELSE NoTerminal

-----------------------------------------------------------------------------
(***************************************************************************)
(* on_keyboard.                                                            *)
(***************************************************************************)

OfferCommand ==
  offered' = IF outcome'.command \in {"action", "send_prefix_literal"}
               THEN [kind |-> outcome'.command, target |-> outcome'.target]
               ELSE NoMessage

\* pending_shutdown_key, once this event's own command is looked at.
Pending(e) ==
  IF outcome'.command = "shutdown" THEN [key |-> e.key, at |-> now]
  ELSE pending_shutdown_key

Completes(e) ==
  /\ Pending(e) # NoPending
  /\ e.key = Pending(e).key
  /\ e.transition = "Up"

\* Mutant of Handshake: the events of other keys leave a pending handshake alone.
HandshakeIgnoringOthers(e) ==
  /\ pending_shutdown_key' = IF Completes(e) THEN NoPending ELSE Pending(e)
  /\ shutdown' = (shutdown \/ (Completes(e) /\ now - Pending(e).at <= HandshakeWindow))

\* shutdown_handshake_should_fire: another key ends the handshake, the key's own
\* release ends it and fires it unless it came too late.
Handshake(e) ==
  /\ pending_shutdown_key' =
       IF Pending(e) # NoPending /\ e.key = Pending(e).key /\ ~Completes(e)
         THEN Pending(e) ELSE NoPending
  /\ shutdown' = (shutdown \/ (Completes(e) /\ now - Pending(e).at <= HandshakeWindow))

StoreArmed == prefix_armed' = Armed'

\* Injected events do not reach the dispatcher: the hook passes them first.
OnKeyboard(k, c, t) ==
  /\ ReadSnapshot
  /\ LET e == [key |-> k, chord |-> c, transition |-> t, injected |-> FALSE,
               foreground |-> CachedTerminal]
     IN  /\ HandleUserEvent(e)
         /\ StoreArmed
         /\ OfferCommand
         /\ Handshake(e)
  /\ UNCHANGED <<now, foreground, snapshot, pointer_vars>>

-----------------------------------------------------------------------------
(***************************************************************************)
(* on_mouse.  Without mouse resizing no divider is ever found.             *)
(***************************************************************************)

BeginDrag ==
  /\ CachedTerminal # NoTerminal
  /\ drag' = [target |-> CachedTerminal, canceled |-> FALSE]
  /\ button' = "captured"

\* Mutant of PassClick: a click beside every divider leaves the old drag alone.
PassClickKeepingDrag ==
  /\ button' = "passed"
  /\ UNCHANGED drag

PassClick ==
  /\ drag' = NoDrag
  /\ button' = "passed"

\* A click cancels the armed prefix; prefix_armed is not stored here.
LeftDown ==
  /\ button = "up"
  /\ Cancel
  /\ ReadSnapshot
  /\ BeginDrag \/ PassClick
  /\ offered' = NoMessage
  /\ UNCHANGED <<now, foreground, snapshot, keyboard_vars>>

\* PaneDrag::update may or may not ask for a resize.
Move ==
  /\ drag # NoDrag
  /\ \/ /\ ~drag.canceled /\ foreground # drag.target
        /\ drag' = [drag EXCEPT !.canceled = TRUE]
        /\ offered' = NoMessage
     \/ /\ drag.canceled \/ foreground = drag.target
        /\ offered' = NoMessage
        /\ UNCHANGED drag
     \/ /\ ~drag.canceled /\ foreground = drag.target
        /\ offered' = [kind |-> "resize", target |-> drag.target]
        /\ UNCHANGED drag
  /\ UNCHANGED <<prefix_vars, desktop_vars, keyboard_vars, button>>

\* The event is consumed if, and only if, it ends a drag.
LeftUp ==
  /\ button # "up"
  /\ drag' = NoDrag
  /\ button' = "up"
  /\ offered' = NoMessage
  /\ UNCHANGED <<prefix_vars, desktop_vars, keyboard_vars>>

\* The button is released on another desktop: the hook is not called.
MissLeftUp ==
  /\ button # "up"
  /\ button' = "up"
  /\ UNCHANGED <<prefix_vars, desktop_vars, keyboard_vars, drag, offered>>

-----------------------------------------------------------------------------
(***************************************************************************)
(* The desktop and the observer.                                           *)
(***************************************************************************)

FocusChange(w) ==
  /\ w # foreground
  /\ foreground' = w
  /\ UNCHANGED <<prefix_vars, snapshot, last_known, keyboard_vars, pointer_vars, offered>>

\* refresh_snapshot, and its publication under the write lock.
Observe ==
  /\ snapshot' = foreground
  /\ UNCHANGED <<prefix_vars, foreground, last_known, keyboard_vars, pointer_vars, offered>>

DispatcherTick ==
  /\ Tick
  /\ UNCHANGED <<machine, desktop_vars, keyboard_vars, pointer_vars, offered>>

DispatcherInit ==
  /\ Init
  /\ foreground \in Window \cup {NoTerminal}
  /\ snapshot = foreground
  /\ last_known = NoTerminal
  /\ prefix_armed = FALSE
  /\ pending_shutdown_key = NoPending
  /\ shutdown = FALSE
  /\ drag = NoDrag
  /\ button = "up"
  /\ offered = NoMessage

DispatcherNext ==
  \/ \E k \in PhysicalKey, c \in Chord, t \in {"Down", "Up"} : OnKeyboard(k, c, t)
  \/ LeftDown \/ Move \/ LeftUp \/ MissLeftUp
  \/ \E w \in Window \cup {NoTerminal} : FocusChange(w)
  \/ Observe
  \/ DispatcherTick

DispatcherSpec == DispatcherInit /\ [][DispatcherNext]_vars

-----------------------------------------------------------------------------
DispatcherTypeOK ==
  /\ TypeOK
  /\ {foreground, snapshot, last_known} \subseteq Window \cup {NoTerminal}
  /\ {prefix_armed, shutdown} \subseteq BOOLEAN
  /\ pending_shutdown_key \in PendingKey \cup {NoPending}
  /\ drag \in Drag \cup {NoDrag}
  /\ button \in {"up", "passed", "captured"}
  /\ offered \in Message \cup {NoMessage}

\* The release that fires the shutdown is consumed: as long as a handshake is
\* pending its key is in the machine's ledger, which nothing can clear without
\* ending the handshake first.
PendingKeyHeld ==
  pending_shutdown_key # NoPending
    => pending_shutdown_key.key \in suppressed_keys /\ ~Armed

\* The dashboard never shows an armed prefix as idle.
ArmedIsShown == Armed => prefix_armed

\* Whatever the hook consumes and nobody's ledger holds was typed into a
\* terminal that is in the foreground at that moment, however old the snapshot.
CapturesOnlyTerminals ==
  [][ \A k \in PhysicalKey :
        k \in suppressed_keys' \ suppressed_keys => foreground # NoTerminal ]_vars

\* A command or a resize is offered only to the window in the foreground.
TargetIsForeground ==
  [][ offered' # offered /\ offered' # NoMessage => offered'.target = foreground ]_vars

\* A release goes where its press went: as long as the button is down, a drag is
\* active exactly if the press was captured.
ButtonGoesOneWay ==
  button # "up" => (drag # NoDrag <=> button = "captured")

=============================================================================
