----------------------------- MODULE PaneResize -----------------------------
(***************************************************************************)
(* A pane divider dragged with the mouse, from the press to the splitter   *)
(* Windows Terminal moves: PointerDragState (src/controller/pointer.rs) on *)
(* the hook thread, with the observer's layout, which lags; the action     *)
(* queue, which drops what does not fit; dispatch_pointer_resize and       *)
(* dispatch_focus_at_point (src/controller/action_worker.rs) on the        *)
(* worker; and the pane tree of Windows Terminal, as the comment on        *)
(* PaneDivider::resize_focus_point describes it.                           *)
(*                                                                         *)
(* Windows Terminal has no command to move a given splitter.  resizePane   *)
(* moves the nearest splitter above the focused pane that lies on the axis *)
(* of the direction, so the drag has to focus the right pane first.        *)
(*                                                                         *)
(* The terminal stays in the foreground here: a drag that loses it is      *)
(* HookDispatcher's subject.                                               *)
(***************************************************************************)
EXTENDS PaneLayout, Sequences, FiniteSets

CONSTANTS
  Extent,      \* the window's width and height
  Border,      \* the gap between two panes
  SplitPoint,  \* where panes may be split
  MinPane,     \* the least extent Windows Terminal leaves a pane it splits
  PressPoint,  \* the coordinates at which the button may be pressed
  Reach,       \* how far from the divider the pointer may be
  Capacity,    \* action_queue_capacity
  MaxPanes,    \* bound on the panes
  MaxDrags,    \* bound on the drags
  NoDrag       \* PointerDragState::active: None

ASSUME ResizeAssumption ==
  /\ Extent \in Nat \ {0} /\ Border \in Nat /\ Capacity \in Nat \ {0}
  \* A pane is not taken for the gap between two others.
  /\ MinPane \in Nat /\ MaxDividerGap < MinPane
  /\ SplitPoint \subseteq Nat /\ PressPoint \subseteq Nat /\ Reach \subseteq Int
  /\ MaxPanes \in Nat /\ MaxDrags \in Nat

VARIABLES
  area,           \* the pane tree: a rectangle for every path from the root
  splits,         \* the axis and the coordinate of every splitter, by its path
  focused,        \* the path of the pane that has the keyboard focus
  layout,         \* DesktopSnapshot::pane_layout
  drag,           \* PointerDragState::active
  next_sequence,
  actions,        \* the action queue
  last_focused,   \* the drag the worker last focused a pane for
  disturbed       \* another pane was focused since

tree_vars == <<area, splits>>
action_vars == <<actions, last_focused, disturbed>>
resize_vars == <<tree_vars, focused, layout, drag, next_sequence, action_vars>>

Point == [Axis -> PressPoint]

Leaves == DOMAIN area \ DOMAIN splits

Panes == {area[p] : p \in Leaves}

RectContains(rect, point) == \A a \in Axis : Within(point[a], rect[a])

-----------------------------------------------------------------------------
(***************************************************************************)
(* Windows Terminal.                                                       *)
(***************************************************************************)

\* Pane::ResizePane: the splitters above the focused pane.
Above(q, axis) ==
  {p \in DOMAIN splits :
     /\ Len(p) < Len(q)
     /\ SubSeq(q, 1, Len(p)) = p
     /\ splits[p].axis = axis}

Owners(axis) == Above(focused, axis)

Nearest(paths) == {p \in paths : \A q \in paths : Len(q) <= Len(p)}

\* splitPane: the new pane gets the focus.
SplitPane(axis, at) ==
  /\ Cardinality(Leaves) < MaxPanes
  /\ area[focused][axis].lo + MinPane <= at
  /\ at + Border + MinPane <= area[focused][axis].hi
  /\ splits' = [p \in DOMAIN splits \cup {focused} |->
                  IF p = focused THEN [axis |-> axis, at |-> at] ELSE splits[p]]
  /\ LET first == focused \o <<1>>
         second == focused \o <<2>>
     IN  /\ area' = [p \in DOMAIN area \cup {first, second} |->
                       CASE p = first  -> [area[focused] EXCEPT ![axis].hi = at]
                         [] p = second -> [area[focused] EXCEPT ![axis].lo = at + Border]
                         [] OTHER      -> area[p]]
         /\ focused' = second
  /\ disturbed' = TRUE
  /\ UNCHANGED <<layout, drag, next_sequence, actions, last_focused>>

\* The user clicks into a pane.
UserFocus(p) ==
  /\ drag = NoDrag
  /\ p # focused
  /\ focused' = p
  /\ disturbed' = TRUE
  /\ UNCHANGED <<tree_vars, layout, drag, next_sequence, actions, last_focused>>

-----------------------------------------------------------------------------
(***************************************************************************)
(* The observer and the hook thread.                                       *)
(***************************************************************************)

ObserveLayout ==
  /\ layout' = Panes
  /\ UNCHANGED <<tree_vars, focused, drag, next_sequence, action_vars>>

\* on_mouse(LeftDown), PointerDragState::begin.
Press(point) ==
  /\ drag = NoDrag
  /\ next_sequence < MaxDrags
  /\ \E d \in DividersAt(layout, point) :
       /\ Capturable(d)
       /\ next_sequence' = next_sequence + 1
       /\ drag' = [divider |-> d, last |-> point[d.axis], residual |-> 0,
                   sequence |-> next_sequence', panes |-> layout]
  /\ UNCHANGED <<tree_vars, focused, layout, action_vars>>

\* try_send.
Offer(message) ==
  actions' = IF Len(actions) < Capacity THEN Append(actions, message) ELSE actions

\* on_mouse(Move), PointerDragState::move_to.
MovePointer(coordinate) ==
  /\ drag # NoDrag
  /\ drag' = Updated(drag, coordinate)
  /\ LET steps == Steps(drag, coordinate)
     IN  IF steps = 0 THEN UNCHANGED actions
         ELSE Offer([kind |-> "resize", drag |-> drag.sequence, divider |-> drag.divider,
                     forward |-> steps > 0, panes |-> drag.panes])
  /\ UNCHANGED <<tree_vars, focused, layout, next_sequence, last_focused, disturbed>>

Release ==
  /\ drag # NoDrag
  /\ drag' = NoDrag
  /\ UNCHANGED <<tree_vars, focused, layout, next_sequence, action_vars>>

\* A focus command of the dashboard, or of a prefix binding; one at a time waits
\* in the queue here.
OfferFocus(p) ==
  /\ Len(actions) < Capacity
  /\ \A i \in 1..Len(actions) : actions[i].kind # "focus"
  /\ Offer([kind |-> "focus", pane |-> p])
  /\ UNCHANGED <<tree_vars, focused, layout, drag, next_sequence, last_focused, disturbed>>

-----------------------------------------------------------------------------
(***************************************************************************)
(* The action worker.                                                      *)
(***************************************************************************)

HeadIs(kind) == actions # <<>> /\ Head(actions).kind = kind

RunFocus ==
  /\ HeadIs("focus")
  /\ focused' = IF Head(actions).pane \in Leaves THEN Head(actions).pane ELSE focused
  /\ disturbed' = TRUE
  /\ actions' = Tail(actions)
  /\ UNCHANGED <<tree_vars, layout, drag, next_sequence, last_focused>>

NeedsFocus == HeadIs("resize") /\ last_focused # Head(actions).drag

\* focus_pane_at: the chords follow in RunResize.
FocusForDrag ==
  /\ NeedsFocus
  /\ \E p \in Leaves :
       /\ RectContains(area[p], Head(actions).divider.focus_point)
       /\ focused' = p
  /\ last_focused' = Head(actions).drag
  /\ disturbed' = FALSE
  /\ UNCHANGED <<tree_vars, layout, drag, next_sequence, actions>>

\* The message is dropped; the drag's next one tries again.
FocusFails ==
  /\ NeedsFocus
  /\ actions' = Tail(actions)
  /\ UNCHANGED <<tree_vars, focused, layout, drag, next_sequence, last_focused, disturbed>>

\* The chords go to whatever pane has the focus by now.
RunResize ==
  /\ HeadIs("resize")
  /\ ~NeedsFocus
  /\ actions' = Tail(actions)
  /\ UNCHANGED <<tree_vars, focused, layout, drag, next_sequence, last_focused, disturbed>>

-----------------------------------------------------------------------------
ResizeInit ==
  /\ area = [p \in {<< >>} |-> [a \in Axis |-> [lo |-> 0, hi |-> Extent]]]
  /\ splits = [p \in {} |-> << >>]
  /\ focused = << >>
  /\ layout = {}
  /\ drag = NoDrag
  /\ next_sequence = 0
  /\ actions = << >>
  /\ last_focused = 0
  /\ disturbed = FALSE

ResizeNext ==
  \/ \E axis \in Axis, at \in SplitPoint : SplitPane(axis, at)
  \/ \E p \in Leaves : UserFocus(p) \/ OfferFocus(p)
  \/ ObserveLayout
  \/ \E point \in Point : Press(point)
  \/ \E offset \in Reach :
       drag # NoDrag /\ MovePointer(drag.divider.coordinate + offset)
  \/ Release
  \/ RunFocus \/ FocusForDrag \/ FocusFails \/ RunResize

ResizeSpec == ResizeInit /\ [][ResizeNext]_resize_vars

-----------------------------------------------------------------------------
Interval == [lo: Int, hi: Int]
Rectangle == [Axis -> Interval]

IsDivider(d) ==
  /\ d.axis \in Axis /\ {d.coordinate, d.step} \subseteq Int /\ d.step > 0
  /\ {d.span, d.band} \subseteq Interval
  /\ d.focus_point \in [Axis -> Int]

IsMessage(m) ==
  \/ m.kind = "focus" /\ m.pane \in Seq({1, 2})
  \/ /\ m.kind = "resize" /\ m.drag \in 1..next_sequence /\ IsDivider(m.divider)
     /\ m.forward \in BOOLEAN /\ m.panes \subseteq Rectangle

ResizeTypeOK ==
  /\ \A p \in DOMAIN area : p \in Seq({1, 2}) /\ area[p] \in Rectangle
  /\ \A p \in DOMAIN splits : splits[p] \in [axis: Axis, at: SplitPoint]
  /\ DOMAIN splits \subseteq DOMAIN area
  /\ focused \in Leaves
  /\ layout \subseteq Rectangle
  /\ drag # NoDrag =>
       /\ IsDivider(drag.divider) /\ {drag.last, drag.residual} \subseteq Int
       /\ drag.sequence = next_sequence
  /\ next_sequence \in 0..MaxDrags
  /\ Len(actions) <= Capacity /\ \A i \in 1..Len(actions) : IsMessage(actions[i])
  /\ last_focused \in 0..next_sequence
  /\ disturbed \in BOOLEAN

\* What RunResize is about to move: one splitter, on the line and along the whole
\* span of the divider that was captured.
MovesOnly(divider) ==
  /\ Owners(divider.axis) # {}
  /\ \A p \in Nearest(Owners(divider.axis)) :
       /\ splits[p].at <= divider.coordinate
       /\ divider.coordinate <= splits[p].at + Border
       /\ area[p][Cross(divider.axis)].lo <= divider.span.lo
       /\ divider.span.hi <= area[p][Cross(divider.axis)].hi

ResizeIsNext == HeadIs("resize") /\ ~NeedsFocus /\ Head(actions).panes = Panes

\* What a drag moves is the divider it captured, whatever the pane tree behind
\* the rectangles is and whichever of its messages were dropped or failed, as
\* long as the layout is the one that was observed and nobody else moved the
\* focus since the worker focused a pane for it.
DragMovesItsDivider ==
  ResizeIsNext /\ ~disturbed => MovesOnly(Head(actions).divider)

\* However far the divider lags behind, a step never goes against the movement
\* that asked for it.
StepsFollowPointer ==
  [][ drag # NoDrag /\ drag' # NoDrag /\ Len(actions') > Len(actions)
        /\ actions'[Len(actions')].kind = "resize"
        => \/ drag'.last = drag.last
           \/ actions'[Len(actions')].forward <=> drag'.last > drag.last ]_resize_vars

-----------------------------------------------------------------------------
(***************************************************************************)
(* What the comments say of a drag.                                        *)
(***************************************************************************)

\* src/controller/action_worker.rs, dispatch_pointer_resize: the leading pane of
\* a divider is stable for the whole drag, so only focus once per drag.
OneFocusIsEnough == ResizeIsNext => MovesOnly(Head(actions).divider)

=============================================================================
