------------------------------ MODULE Desktop ------------------------------
(***************************************************************************)
(* The desktop observer of src/controller/desktop.rs and the two ends it   *)
(* serves: the snapshot the hooks decide by, and the dashboard pane of     *)
(* src/ui.rs, whose commands it hands to the action worker                 *)
(* (src/controller/action_worker.rs).                                      *)
(*                                                                         *)
(* The desktop does not hold still for it.  The foreground window changes, *)
(* tabs are opened, closed and dragged, and a window handle is given to    *)
(* another process, between any two of the observer's reads and between    *)
(* what the pane shows, the key pressed there and the worker's answer.     *)
(***************************************************************************)
EXTENDS Naturals, FiniteSets, Sequences, SequencesExt, DashboardUi

CONSTANTS
  Window,        \* window handles
  Terminal,      \* Windows Terminal processes: process id and creation time
  OtherApp,      \* any other process
  FirstOwner,    \* whose the window handles are at first
  FirstForeground,  \* the window in front at first
  TabsOf,        \* the tabs each terminal may have
  PanesOf,       \* the rectangles of the panes of each tab
  NoWindow,      \* no foreground window
  MouseResize,   \* MouseResizeConfig::enabled
  MaxChanges,    \* bound on the changes of the desktop
  MaxFaults,     \* bound on the failures of accessibility and process queries
  MaxCommands    \* bound on the commands given in the pane

Tab == UNION {TabsOf[t] : t \in Terminal}

\* WindowIdentity: the handle with the process behind it.
Identity == [hwnd: Window, process: Terminal]

ASSUME DesktopAssumption ==
  /\ OtherApp \notin Terminal /\ NoWindow \notin Window /\ None \notin Identity
  /\ \A t, u \in Terminal : t # u => TabsOf[t] \cap TabsOf[u] = {}
  /\ \A t \in Terminal : IsFiniteSet(TabsOf[t]) /\ TabsOf[t] # {}
  /\ None \notin Tab
  \* A rectangle is a left and a right edge; the panes of a tab do not overlap.
  /\ \A t \in Tab :
       /\ IsFiniteSet(PanesOf[t]) /\ None \notin PanesOf[t]
       /\ \A r \in PanesOf[t] : r \in Nat \X Nat /\ r[1] < r[2]
       /\ \A r, s \in PanesOf[t] : r = s \/ r[2] <= s[1] \/ s[2] <= r[1]
  /\ FirstOwner \in [Window -> Terminal \cup {OtherApp}]
  /\ FirstForeground \in Window \cup {NoWindow}
  /\ MouseResize \in BOOLEAN
  /\ {MaxChanges, MaxFaults, MaxCommands} \subseteq Nat

VARIABLES
  owner,         \* the process behind each window handle
  foreground,    \* the foreground window
  strip,         \* the tabs of each terminal in the order of its tab strip
  active,        \* the tab each terminal shows
  focus,         \* the pane of each tab with the keyboard focus
  step,          \* where the observer is in its pass
  snapshot,      \* its DesktopSnapshot
  resolved,      \* resolved_hwnd
  forced,        \* last_geometry_refresh was put back: the next query is due
  cache,         \* TabCache
  activity,      \* FocusActivity: the panes focus entered, each with those it entered
                 \* later, which is all that their times are compared for
  shared,        \* the snapshot behind the lock
  shown,         \* the dashboard file
  frame,         \* the state the pane has drawn
  command,       \* the command file
  queue,         \* the message in the worker's queue
  worker,        \* the message the worker has validated
  misjudged,     \* the handle in resolved is not, or no longer, what it was taken for
  budget         \* what is left of the bounds

world == <<owner, foreground, strip, active, focus>>
observer_vars == <<step, snapshot, resolved, forced, cache, activity, shared, shown>>
pane_vars == <<frame, command>>
worker_vars == <<queue, worker>>
vars == <<world, observer_vars, pane_vars, worker_vars, misjudged, budget>>

Can(what) == budget[what] > 0
Spend(what) == budget' = [budget EXCEPT ![what] = @ - 1]

-----------------------------------------------------------------------------
(***************************************************************************)
(* The desktop.                                                            *)
(***************************************************************************)

\* terminal_window_identity.
IdentityOf(w) ==
  IF w \in Window /\ owner[w] \in Terminal THEN [hwnd |-> w, process |-> owner[w]] ELSE None

\* Another application is taken to have neither tabs nor terminal panes.
Strip(w) == IF owner[w] \in Terminal THEN strip[owner[w]] ELSE <<>>

\* The panes of the tab a window shows, with the keyboard focus only if the window
\* is in front.  The tab and the handle are for the properties.
PanesIn(w) ==
  IF owner[w] \notin Terminal THEN {}
  ELSE LET tab == active[owner[w]] IN
       {[rect |-> r, focused |-> foreground = w /\ focus[tab] = r, tab |-> tab, hwnd |-> w] :
          r \in PanesOf[tab]}

WorldChanges ==
  /\ Can("changes")
  /\ Spend("changes")
  /\ UNCHANGED <<observer_vars, pane_vars, worker_vars>>

SwitchTo(w) ==
  /\ w # foreground
  /\ foreground' = w
  /\ UNCHANGED <<owner, strip, active, focus, misjudged>>
  /\ WorldChanges

\* A window is closed and its handle given to another process, too quickly for a
\* poll of the foreground handle to notice.
Recycle(w, process) ==
  /\ \A v \in Window : owner[v] # process \/ process = OtherApp
  /\ owner[w] # process
  /\ owner' = [owner EXCEPT ![w] = process]
  /\ misjudged' = (misjudged \/ w = resolved)
  /\ UNCHANGED <<foreground, strip, active, focus>>
  /\ WorldChanges

\* Tabs are opened, closed and dragged.
Rearrange(t, tabs) ==
  /\ tabs # strip[t]
  /\ strip' = [strip EXCEPT ![t] = tabs]
  /\ active' = [active EXCEPT ![t] = IF @ \in ToSet(tabs) THEN @ ELSE tabs[1]]
  /\ UNCHANGED <<owner, foreground, focus, misjudged>>
  /\ WorldChanges

ClickTab(t, tab) ==
  /\ tab \in ToSet(strip[t]) \ {active[t]}
  /\ active' = [active EXCEPT ![t] = tab]
  /\ UNCHANGED <<owner, foreground, strip, focus, misjudged>>
  /\ WorldChanges

ClickPane(t, rect) ==
  /\ rect \in PanesOf[active[t]] \ {focus[active[t]]}
  /\ focus' = [focus EXCEPT ![active[t]] = rect]
  /\ UNCHANGED <<owner, foreground, strip, active, misjudged>>
  /\ WorldChanges

-----------------------------------------------------------------------------
(***************************************************************************)
(* TerminalAccessibility.  An element that cannot be fetched is missing    *)
(* from the enumeration, one whose name cannot be read only from the       *)
(* result; all of them unreadable is an error.  A failure takes one        *)
(* element, given by its position, and 0 is none.                          *)
(***************************************************************************)

Without(elements, i) == IF i = 0 THEN elements ELSE RemoveAt(elements, i)

\* descendants_where.
Enumerated(elements, missing) == Without(elements, missing)

\* Mutant of TabInfos: the index counts the readable tabs.
TabInfosCompact(elements, unreadable, shows) ==
  LET left == Without(elements, unreadable)
  IN [k \in DOMAIN left |-> [index |-> k - 1, tab |-> left[k], selected |-> left[k] = shows]]

\* tab_infos: the index is the position in the enumeration.
TabInfos(elements, unreadable, shows) ==
  Without([k \in DOMAIN elements |->
             [index |-> k - 1, tab |-> elements[k], selected |-> elements[k] = shows]],
          unreadable)

\* select_tab: the element at the position, None if there is no such one.
NthTab(elements, index) ==
  IF index + 1 \in DOMAIN elements THEN elements[index + 1] ELSE None

\* focus_pane_at: the pane that contains the point.
PaneAt(panes, x) ==
  IF \E p \in panes : p.rect[1] <= x /\ x < p.rect[2]
  THEN (CHOOSE p \in panes : p.rect[1] <= x /\ x < p.rect[2]).rect
  ELSE None

-----------------------------------------------------------------------------
(***************************************************************************)
(* refresh_snapshot.                                                       *)
(***************************************************************************)

ObserverOnly == UNCHANGED <<world, pane_vars, worker_vars>>

\* Mutant of Switched: the panes of the window left behind stay.
SwitchedKeepingPanes(terminal) ==
  snapshot' = [terminal |-> terminal, panes |-> snapshot.panes]

\* Mutant of Switched: the last terminal stays while another application is in front.
SwitchedToTerminals(terminal) ==
  snapshot' = [terminal |-> IF terminal = None THEN snapshot.terminal ELSE terminal, panes |-> {}]

\* apply_terminal_switch.
Switched(terminal) == snapshot' = [terminal |-> terminal, panes |-> {}]

\* The foreground handle is resolved when it is another one than last time.  A
\* failed query counts as no terminal, and is not made again for this handle.
ResolveForeground ==
  /\ step = "foreground"
  /\ step' = "geometry"
  /\ \/ /\ foreground = resolved
        /\ UNCHANGED <<snapshot, resolved, forced, misjudged, budget>>
     \/ /\ foreground # resolved
        /\ Switched(IdentityOf(foreground))
        /\ resolved' = foreground
        /\ forced' = TRUE
        /\ misjudged' = FALSE
        /\ UNCHANGED budget
     \/ /\ foreground # resolved /\ foreground \in Window /\ Can("faults")
        /\ Switched(None)
        /\ resolved' = foreground
        /\ forced' = TRUE
        /\ misjudged' = (IdentityOf(foreground) # None)
        /\ Spend("faults")
  /\ UNCHANGED <<cache, activity, shared, shown>>
  /\ ObserverOnly

\* The snapshot as it is after the pass goes behind the lock.
Locked(panes) ==
  /\ snapshot' = [terminal |-> snapshot.terminal, panes |-> panes]
  /\ shared' = snapshot'

\* Whether geometry_poll_interval has passed is left open, except that it counts as
\* passed after a switch.
SkipGeometry ==
  /\ step = "geometry"
  /\ ~(MouseResize /\ snapshot.terminal # None /\ forced)
  /\ step' = "tabs"
  /\ Locked(snapshot.panes)
  /\ UNCHANGED <<resolved, forced, cache, activity, shown, misjudged, budget>>
  /\ ObserverOnly

\* A query that fails leaves an empty layout, one that meets unreadable elements
\* the others.
RefreshGeometry ==
  /\ step = "geometry"
  /\ MouseResize /\ snapshot.terminal # None
  /\ step' = "tabs"
  /\ forced' = FALSE
  /\ LET panes == PanesIn(snapshot.terminal.hwnd) IN
     \/ Locked(panes) /\ UNCHANGED budget
     \/ \E some \in SUBSET panes \ {panes} : Locked(some) /\ Can("faults") /\ Spend("faults")
  /\ UNCHANGED <<resolved, cache, activity, shown, misjudged>>
  /\ ObserverOnly

-----------------------------------------------------------------------------
(***************************************************************************)
(* refresh_tabs, FocusActivity::observe_layout.                            *)
(***************************************************************************)

\* tab_refresh_due, where nothing was queried yet or another window was; whether
\* TAB_REFRESH_INTERVAL has passed is left open.
TabsAreDue(terminal) == terminal.hwnd # cache.hwnd

\* FocusActivity::observe: panes that are gone are pruned, but an empty pane set
\* means only that nothing could be seen.
Pruned(entered, keys) ==
  IF keys = {} THEN entered ELSE [k \in DOMAIN entered \cap keys |-> entered[k] \cap keys]

\* Mutant of Stamped: a pane that has a stamp keeps it.
StampedOnce(entered, key) ==
  [k \in DOMAIN entered \cup {key} |->
     IF k \notin DOMAIN entered THEN {}
     ELSE IF key \in DOMAIN entered THEN entered[k] ELSE entered[k] \cup {key}]

\* The pane the focus enters is later than every other.
Stamped(entered, key) ==
  [k \in DOMAIN entered \cup {key} |-> IF k = key THEN {} ELSE entered[k] \cup {key}]

Observed(panes) ==
  LET focused == {p.rect : p \in {q \in panes : q.focused}}
      key == IF focused = {} THEN None ELSE CHOOSE r \in focused : TRUE
      kept == Pruned(activity.entered, {p.rect : p \in panes})
  IN [focused |-> key,
      entered |-> IF key \in {activity.focused, None} THEN kept ELSE Stamped(kept, key)]

SkipTabs ==
  /\ step = "tabs"
  /\ ~(MouseResize /\ snapshot.terminal # None /\ TabsAreDue(snapshot.terminal))
  /\ step' = "publish"
  /\ activity' = Observed(snapshot.panes)
  /\ UNCHANGED <<snapshot, resolved, forced, cache, shared, shown, misjudged, budget>>
  /\ ObserverOnly

\* The window is recorded before it is asked; an answer that fails leaves the list.
RefreshTabs ==
  /\ step = "tabs"
  /\ MouseResize /\ snapshot.terminal # None
  /\ step' = "publish"
  /\ activity' = Observed(snapshot.panes)
  /\ LET w == snapshot.terminal.hwnd
         Asked(list, failed, whole) ==
           cache' = [list |-> list, hwnd |-> w, failed |-> failed,
                     from |-> IF failed THEN cache.from
                              ELSE [hwnd |-> w, process |-> owner[w], strip |-> Strip(w), whole |-> whole]]
         Answer(missing, unreadable) ==
           TabInfos(Enumerated(Strip(w), missing), unreadable,
                    IF owner[w] \in Terminal THEN active[owner[w]] ELSE None)
     IN \/ Asked(Answer(0, 0), FALSE, TRUE) /\ UNCHANGED budget
        \/ /\ Can("faults") /\ Spend("faults")
           /\ \/ Asked(cache.list, TRUE, FALSE)
              \/ \E i \in DOMAIN Strip(w) :
                   \/ Asked(Answer(i, 0), FALSE, FALSE)
                   \/ Len(Strip(w)) > 1 /\ Asked(Answer(0, i), FALSE, TRUE)
  /\ UNCHANGED <<snapshot, resolved, forced, shared, shown, misjudged>>
  /\ ObserverOnly

-----------------------------------------------------------------------------
(***************************************************************************)
(* execute_pending_command, publish.                                       *)
(***************************************************************************)

\* command_to_message: the target is the terminal of this pass, not the one the
\* pane showed.
Message == [target |-> snapshot.terminal, action |-> command.action, chosen |-> command.chosen]

TakeCommand ==
  /\ command' = None
  /\ \/ command # None /\ snapshot.terminal # None /\ queue = None /\ queue' = Message
     \* No command, no terminal to send it to, or no room in the queue.
     \/ UNCHANGED queue

\* The order is UI Automation's.
Listed(panes) == SetToSeq(panes)

\* build_dashboard_state.
DashboardState ==
  [terminal |-> snapshot.terminal, tabs |-> cache.list, panes |-> Listed(snapshot.panes),
   from |-> cache.from, failed |-> cache.failed]

EmptyState == [terminal |-> None, tabs |-> <<>>, panes |-> <<>>, from |-> None, failed |-> FALSE]

\* The end of a pass.  The two files are the subject of the module Dashboard.
Publish ==
  /\ step = "publish"
  /\ step' = "foreground"
  /\ TakeCommand
  /\ shown' = DashboardState
  /\ UNCHANGED <<world, snapshot, resolved, forced, cache, activity, shared, frame, worker,
                 misjudged, budget>>

-----------------------------------------------------------------------------
(***************************************************************************)
(* The pane: interactive() reads the file, mends the cursor, draws, and    *)
(* waits for one key.                                                      *)
(***************************************************************************)

\* What a row shows, for the properties.
Chosen(state, cursor) ==
  IF cursor[1] = "tab"
  THEN [tab |-> state.tabs[cursor[2]].tab, rect |-> None, from |-> state.from]
  ELSE [tab |-> state.panes[cursor[2]].tab, rect |-> state.panes[cursor[2]].rect, from |-> state.from]

\* A turn of interactive() draws the file as it is then.  Its cursor may be on any
\* row: see CursorReachesEveryRow.
Redraw ==
  /\ Can("commands")
  /\ shown # frame
  /\ frame' = shown
  /\ UNCHANGED <<world, observer_vars, command, worker_vars, misjudged, budget>>

\* Enter acts on the frame on the screen.
Activate(cursor) ==
  /\ Can("commands") /\ Spend("commands")
  /\ command' = [action |-> ActivationCommand(frame, cursor), chosen |-> Chosen(frame, cursor)]
  /\ frame' = EmptyState
  /\ UNCHANGED <<world, observer_vars, worker_vars, misjudged>>

-----------------------------------------------------------------------------
(***************************************************************************)
(* The worker: dispatch_select_tab, dispatch_focus_at_point.               *)
(***************************************************************************)

\* focus_pane_at wants the target in front; both want it to be the same process.
Valid(message) ==
  /\ message.action[1] = "FocusPane" => foreground = message.target.hwnd
  /\ IdentityOf(message.target.hwnd) = message.target

\* The identity is read anew; a message that fails is counted and gone.
Validate ==
  /\ worker = None /\ queue # None
  /\ queue' = None
  /\ \/ Valid(queue) /\ worker' = queue /\ UNCHANGED budget
     \/ ~Valid(queue) /\ UNCHANGED <<worker, budget>>
     \/ Can("faults") /\ Spend("faults") /\ UNCHANGED worker
  /\ UNCHANGED <<world, observer_vars, pane_vars, misjudged>>

\* Whoever has the handle by now is enumerated anew.
SelectTab ==
  /\ worker # None /\ worker.action[1] = "SelectTab"
  /\ LET w == worker.target.hwnd IN
     \E missing \in {0} \cup (IF Can("faults") THEN DOMAIN Strip(w) ELSE {}) :
       LET tab == NthTab(Enumerated(Strip(w), missing), worker.action[2]) IN
       /\ active' = IF tab = None THEN active ELSE [active EXCEPT ![owner[w]] = tab]
       /\ IF missing = 0 THEN UNCHANGED budget ELSE Spend("faults")
  /\ worker' = None
  /\ UNCHANGED <<owner, foreground, strip, focus, observer_vars, pane_vars, queue, misjudged>>

FocusPane ==
  /\ worker # None /\ worker.action[1] = "FocusPane"
  /\ LET w == worker.target.hwnd
         pane == PaneAt(PanesIn(w), worker.action[2])
     IN focus' = IF pane = None THEN focus ELSE [focus EXCEPT ![active[owner[w]]] = pane]
  /\ worker' = None
  /\ UNCHANGED <<owner, foreground, strip, active, observer_vars, pane_vars, queue, misjudged, budget>>

-----------------------------------------------------------------------------
Strips(t) == UNION {SetToSeqs(s) : s \in (SUBSET TabsOf[t]) \ {{}}}

\* The observer starts with the desktop as it is and an empty snapshot, resolved to
\* no handle; nothing has been drawn.
Init ==
  /\ owner = FirstOwner
  /\ foreground = FirstForeground
  /\ strip = [t \in Terminal |-> CHOOSE s \in SetToSeqs(TabsOf[t]) : TRUE]
  /\ active = [t \in Terminal |-> strip[t][1]]
  /\ focus = [t \in Tab |-> CHOOSE r \in PanesOf[t] : TRUE]
  /\ step = "foreground"
  /\ snapshot = [terminal |-> None, panes |-> {}]
  /\ resolved = NoWindow
  /\ forced = TRUE
  /\ cache = [list |-> <<>>, hwnd |-> NoWindow, failed |-> FALSE, from |-> None]
  /\ activity = [focused |-> None, entered |-> [k \in {} |-> {}]]
  /\ shared = snapshot
  /\ shown = EmptyState
  /\ frame = EmptyState
  /\ command = None /\ queue = None /\ worker = None
  /\ misjudged = FALSE
  /\ budget = [changes |-> MaxChanges, faults |-> MaxFaults, commands |-> MaxCommands]

ObserverPass ==
  \/ ResolveForeground \/ SkipGeometry \/ RefreshGeometry \/ SkipTabs \/ RefreshTabs
  \/ Publish

DesktopChanges ==
  \/ \E w \in Window \cup {NoWindow} : SwitchTo(w)
  \/ \E w \in Window, p \in Terminal \cup {OtherApp} : Recycle(w, p)
  \/ \E t \in Terminal : \E tabs \in Strips(t) : Rearrange(t, tabs)
  \/ \E t \in Terminal : \E tab \in TabsOf[t] : ClickTab(t, tab)
  \/ \E t \in Terminal : \E rect \in PanesOf[active[t]] : ClickPane(t, rect)

Pane == Redraw \/ \E cursor \in ToSet(Rows(frame)) : Activate(cursor)

Worker == Validate \/ SelectTab \/ FocusPane

Next == ObserverPass \/ DesktopChanges \/ Pane \/ Worker

\* The observer's thread runs, and as it does time passes: it cannot go on for ever
\* finding that neither interval is over.
Fairness == WF_vars(ObserverPass) /\ SF_vars(RefreshGeometry) /\ SF_vars(RefreshTabs)

Spec == Init /\ [][Next]_vars /\ Fairness

-----------------------------------------------------------------------------
\* The hooks are never given the panes of one window with the identity of another:
\* a divider drag that starts on a snapshot resizes the window it was read from.
PanesAreOfTheTerminal ==
  \A p \in shared.panes : shared.terminal # None /\ p.hwnd = shared.terminal.hwnd

\* The tabs listed are those of the terminal window the dashboard shows, unless the
\* last query failed, which leaves those of the window before.
TabsAreOfTheTerminal ==
  shown.terminal # None /\ shown.tabs # <<>> /\ ~shown.failed
    => shown.from.hwnd = shown.terminal.hwnd

\* Neither the hooks nor the dashboard are given anything of another window than
\* the one it comes with.
NothingOfAnotherWindow == PanesAreOfTheTerminal /\ TabsAreOfTheTerminal

\* The pane that has the keyboard focus is the one it entered last, across windows,
\* failed reads and other applications in front.
FocusedIsLatest ==
  activity.focused # None =>
    /\ activity.focused \in DOMAIN activity.entered
    /\ activity.entered[activity.focused] = {}
    /\ \A k \in DOMAIN activity.entered \ {activity.focused} :
         activity.focused \in activity.entered[k]

\* What Enter does is what the highlighted row says, however late it is done: the
\* worker selects the tab, or focuses the pane, that the row showed, if the command
\* went to the terminal it was read from and the tabs are where they were then.  The
\* tabs are counted again by the worker; the claim needs both counts complete.
ChoiceIsHonoured ==
  [][ \A w \in {worker} :
        w # None /\ worker' = None
        /\ w.chosen.from # None /\ w.chosen.from.whole /\ budget' = budget
        /\ w.target.process = owner[w.target.hwnd]
        => /\ w.action[1] = "SelectTab"
              /\ w.chosen.from.process = w.target.process
              /\ w.chosen.from.strip = strip[w.target.process]
              => active'[w.target.process] = w.chosen.tab
           /\ w.action[1] = "FocusPane" /\ active[w.target.process] = w.chosen.tab
              => focus'[w.chosen.tab] = w.chosen.rect ]_vars

\* What the dashboard shows of the foreground window is the truth.
TruthIsShown ==
  LET id == IdentityOf(foreground) IN
  /\ shown.terminal = id
  /\ id = None => shown.panes = <<>>
  /\ MouseResize /\ id # None =>
       /\ ToSet(shown.panes) = PanesIn(id.hwnd)
       /\ [k \in DOMAIN shown.tabs |-> shown.tabs[k].tab] = Strip(id.hwnd)

\* When the desktop comes to rest, the dashboard shows it as it is, however many
\* queries failed before; except if the process behind the handle in front was
\* misjudged, which lasts until another window comes to the front.
DesktopIsSeen == <>[]TruthIsShown \/ <>[]misjudged

=============================================================================
