----------------------------- MODULE PaneLayout -----------------------------
(***************************************************************************)
(* The geometry of src/pane_layout.rs: the dividers between the rectangles *)
(* UI Automation reports for the panes, the divider under the pointer and  *)
(* the pane whose focus makes Windows Terminal move it, and the arithmetic *)
(* of a drag.                                                              *)
(*                                                                         *)
(* A rectangle is a function from axes to intervals, and a point one from  *)
(* axes to coordinates.  The coordinates of a screen are far from the      *)
(* limits of i32, where the code saturates.                                *)
(***************************************************************************)
EXTENDS Integers

CONSTANTS
  MaxDividerGap,  \* MAX_NATIVE_DIVIDER_GAP_PX
  FocusInset,     \* FOCUS_INSET_PX
  StepDivisor,    \* NATIVE_RESIZE_STEP_DIVISOR
  MaxSteps,       \* MAX_RESIZE_ACTIONS_PER_POINTER_EVENT
  HitSlop,        \* MouseResizeConfig::divider_hit_slop_px
  NoFocusPoint    \* resize_focus_point: None

ASSUME LayoutAssumption ==
  /\ {MaxDividerGap, FocusInset, HitSlop} \subseteq Nat
  /\ {StepDivisor, MaxSteps} \subseteq Nat \ {0}

\* SplitAxis: the divider of a vertical split moves along the x axis.
Axis == {"vertical", "horizontal"}

Cross(axis) == IF axis = "vertical" THEN "horizontal" ELSE "vertical"

Magnitude(n) == IF n < 0 THEN -n ELSE n

Larger(m, n) == IF m < n THEN n ELSE m

Smaller(m, n) == IF m < n THEN m ELSE n

Clamp(n, limit) == Larger(-limit, Smaller(limit, n))

\* Rust's division truncates towards zero.
Quotient(n, d) == IF n < 0 THEN -((-n) \div d) ELSE n \div d

Midpoint(first, second) == first + Quotient(second - first, 2)

-----------------------------------------------------------------------------
(***************************************************************************)
(* PaneLayout::from_panes.                                                 *)
(***************************************************************************)

LayoutStart(panes, axis) ==
  CHOOSE c \in {p[axis].lo : p \in panes} : \A p \in panes : c <= p[axis].lo

LayoutEnd(panes, axis) ==
  CHOOSE c \in {p[axis].hi : p \in panes} : \A p \in panes : c >= p[axis].hi

InsetFromStart(interval) ==
  interval.lo
    + Larger(0, Smaller(FocusInset, Quotient(interval.hi - interval.lo - 1, 2)))

\* A point of the pane, near the edge the layout grows from.
LeadingInsetPoint(pane, axis) ==
  [a \in Axis |-> IF a = axis THEN InsetFromStart(pane[a])
                  ELSE Midpoint(pane[a].lo, pane[a].hi)]

\* Mutant of FocusPoint: the leading pane, wherever it lies in the layout.
FocusPointLeading(axis, leading, trailing, panes) == LeadingInsetPoint(leading, axis)

\* Only a pane at the edge of the layout is sure to have its own divider as the
\* nearest splitter above it.
FocusPoint(axis, leading, trailing, panes) ==
  IF leading[axis].lo = LayoutStart(panes, axis) THEN LeadingInsetPoint(leading, axis)
  ELSE IF trailing[axis].hi = LayoutEnd(panes, axis)
         THEN LeadingInsetPoint(trailing, axis)
         ELSE NoFocusPoint

Faces(axis, leading, trailing) ==
  /\ leading[axis].lo <= trailing[axis].lo
  /\ Magnitude(trailing[axis].lo - leading[axis].hi) <= MaxDividerGap
  /\ Larger(leading[Cross(axis)].lo, trailing[Cross(axis)].lo)
       < Smaller(leading[Cross(axis)].hi, trailing[Cross(axis)].hi)

Divider(axis, leading, trailing, panes) ==
  LET start == Smaller(leading[axis].hi, trailing[axis].lo)
      side == Cross(axis)
  IN  [axis |-> axis,
       coordinate |-> Midpoint(leading[axis].hi, trailing[axis].lo),
       span |-> [lo |-> Larger(leading[side].lo, trailing[side].lo),
                 hi |-> Smaller(leading[side].hi, trailing[side].hi)],
       band |-> [lo |-> start,
                 hi |-> Larger(Larger(leading[axis].hi, trailing[axis].lo), start + 1)],
       focus_point |-> FocusPoint(axis, leading, trailing, panes),
       step |-> Larger(1, Quotient(trailing[axis].hi - leading[axis].lo, StepDivisor))]

\* Two panes that face each other on both axes have a vertical divider.
Dividers(panes) ==
  LET facing(axis) == {pair \in panes \X panes :
                         pair[1] # pair[2] /\ Faces(axis, pair[1], pair[2])}
      on(axis, pairs) == {Divider(axis, pair[1], pair[2], panes) : pair \in pairs}
      vertical == facing("vertical")
  IN  on("vertical", vertical)
        \cup on("horizontal", {pair \in facing("horizontal") :
                                 {pair, <<pair[2], pair[1]>>} \cap vertical = {}})

-----------------------------------------------------------------------------
(***************************************************************************)
(* capturable_divider_at.                                                  *)
(***************************************************************************)

Within(c, interval) == interval.lo <= c /\ c < interval.hi

Widened(interval) == [lo |-> interval.lo - HitSlop, hi |-> interval.hi + HitSlop]

HitTest(divider, point) ==
  /\ Within(point[divider.axis], Widened(divider.band))
  /\ Within(point[Cross(divider.axis)], Widened(divider.span))

DistanceFromLine(divider, point) ==
  Magnitude(point[divider.axis] - divider.coordinate)

\* Of several dividers at the same distance the first counts, in an order UI
\* Automation decides.
DividersAt(panes, point) ==
  LET hit == {d \in Dividers(panes) : HitTest(d, point)}
  IN  {d \in hit : \A e \in hit : DistanceFromLine(d, point) <= DistanceFromLine(e, point)}

Capturable(divider) == divider.focus_point # NoFocusPoint

-----------------------------------------------------------------------------
(***************************************************************************)
(* PaneDrag::update.                                                       *)
(***************************************************************************)

Reversed(drag, delta) == (delta > 0 /\ drag.residual < 0) \/ (delta < 0 /\ drag.residual > 0)

\* Mutant of Total: a reversal first uses up what the old direction left.
TotalUncut(drag, delta) == drag.residual + delta

\* The pixels that count towards steps: a reversal drops the stale residual.
Total(drag, delta) ==
  IF Reversed(drag, delta) THEN delta ELSE drag.residual + delta

Steps(drag, coordinate) ==
  Clamp(Quotient(Total(drag, coordinate - drag.last), drag.divider.step), MaxSteps)

Updated(drag, coordinate) ==
  [drag EXCEPT !.last = coordinate,
               !.residual = Total(drag, coordinate - drag.last)
                              - Steps(drag, coordinate) * drag.divider.step]

=============================================================================
