---------------------------- MODULE DashboardUi ----------------------------
(***************************************************************************)
(* The dashboard pane of src/ui.rs as functions of the state it has read:  *)
(* the rows the cursor moves over, what Enter writes to the command file,  *)
(* which of the keys pressed since the last poll counts, and how many      *)
(* lines of what are left when the pane is small.  Texts are left out: a   *)
(* line is what it is about.                                               *)
(*                                                                         *)
(* A state here is what the functions look at: tabs, a sequence of         *)
(* [index, selected], and panes, a sequence of [rect, focused].            *)
(***************************************************************************)
EXTENDS Integers, Sequences, FiniteSets, FiniteSetsExt, SequencesExt

CONSTANT None

-----------------------------------------------------------------------------
(***************************************************************************)
(* The cursor.                                                             *)
(***************************************************************************)

\* selectable: every tab, then every pane.
Rows(state) ==
  [k \in 1..Len(state.tabs) |-> <<"tab", k>>] \o [k \in 1..Len(state.panes) |-> <<"pane", k>>]

\* default_selection: the focused pane, the selected tab, or the first row.
DefaultSelection(state) ==
  LET focused == {k \in DOMAIN state.panes : state.panes[k].focused}
      selected == {k \in DOMAIN state.tabs : state.tabs[k].selected}
  IN IF focused # {} THEN <<"pane", Min(focused)>>
     ELSE IF selected # {} THEN <<"tab", Min(selected)>>
     ELSE IF Rows(state) # <<>> THEN Rows(state)[1]
     ELSE None

\* What a turn of interactive() makes of the cursor before it draws.
Mended(state, cursor) ==
  IF cursor \in ToSet(Rows(state)) THEN cursor ELSE DefaultSelection(state)

\* move_selection: clamped at both ends.
Moved(rows, cursor, delta) ==
  IF rows = <<>> THEN None
  ELSE LET at == IF cursor \in ToSet(rows) THEN CHOOSE i \in DOMAIN rows : rows[i] = cursor ELSE 1
       IN rows[Max({1, Min({at + delta, Len(rows)})})]

\* activation_command: the tab by its index, the pane by its centre.
ActivationCommand(state, cursor) ==
  IF cursor[1] = "tab"
  THEN <<"SelectTab", state.tabs[cursor[2]].index>>
  ELSE LET rect == state.panes[cursor[2]].rect IN <<"FocusPane", (rect[1] + rect[2]) \div 2>>

\* drain_input: what comes of the keys pressed since the last poll.
Drained(keys) ==
  LET Next(found, key) ==
        IF key \in {"up", "down", "enter"} /\ found \in {"none", "up", "down"} THEN key ELSE found
  IN IF "quit" \in ToSet(keys) THEN "quit" ELSE FoldLeft(Next, "none", keys)

-----------------------------------------------------------------------------
(***************************************************************************)
(* The frame.  A sidebar line is one of "header", "controller" (a heading),*)
(* "fact", "heading" (of the tabs or the panes), "entry", "rule", "quit".  *)
(***************************************************************************)

Repeat(line, n) == [k \in 1..n |-> line]

\* sidebar_lines: six facts and perhaps an error; the panes under the selected tab or,
\* if none is selected, under a heading of their own.
SidebarLines(hasState, hasError, tabs, panes, selected) ==
  <<"header", "controller">> \o Repeat("fact", 6 + (IF hasError THEN 1 ELSE 0)) \o
  <<"heading">> \o
  (IF ~hasState THEN <<>>
   ELSE IF tabs > 0 /\ ~selected
        THEN Repeat("entry", tabs) \o <<"heading">> \o Repeat("entry", panes)
        ELSE Repeat("entry", tabs + panes)) \o
  <<"rule", "quit">>

Cut(lines, from, count) ==
  SubSeq(lines, 1, from - 1) \o SubSeq(lines, from + Max({0, count}), Len(lines))

HeadingAt(lines) == SelectInSeq(lines, LAMBDA line : line = "heading")

\* The phases of fit_sidebar: the rule, the facts from the last one up, the heading of
\* the facts, the entries from the first one down, the heading, and what is left.
WithoutRule(lines, rows) ==
  IF Len(lines) > rows /\ Len(lines) >= 2 /\ lines[Len(lines) - 1] = "rule"
  THEN Cut(lines, Len(lines) - 1, 1) ELSE lines

WithoutFacts(lines, rows) ==
  LET at == HeadingAt(lines)
      count == Min({Len(lines) - rows, at - 3})
  IN IF at = 0 \/ count <= 0 THEN lines ELSE Cut(lines, at - count, count)

WithoutController(lines, rows) ==
  IF Len(lines) > rows /\ Len(lines) > 1 /\ lines[2] = "controller" THEN Cut(lines, 2, 1) ELSE lines

WithoutEntries(lines, rows) ==
  LET at == HeadingAt(lines)
      count == Min({Len(lines) - rows, Len(lines) - at - 1})
  IN IF at = 0 THEN lines ELSE Cut(lines, at + 1, count)

WithoutHeading(lines, rows) ==
  IF Len(lines) > rows /\ HeadingAt(lines) # 0 THEN Cut(lines, HeadingAt(lines), 1) ELSE lines

FitSidebar(lines, rows) ==
  LET kept == WithoutHeading(WithoutEntries(WithoutController(WithoutFacts(
                WithoutRule(lines, rows), rows), rows), rows), rows)
  IN SubSeq(kept, 1, Min({rows, Len(kept)}))

Less(n, m) == Max({0, n - m})

\* The height of the pane map above which there are taken lines; 0 if it is not drawn.
MapHeight(rows, taken, panes, width, offline) ==
  LET height == Less(rows, taken + 5) IN
  IF offline \/ panes = 0 \/ width < 10 \/ height < 3 THEN 0 ELSE height

\* right_zone_lines: a blank line, the map with its legend or a placeholder, a footer.
RightZoneHeight(rows, panes, width, offline) ==
  LET map == MapHeight(rows, 1, panes, width, offline)
  IN Min({rows, 1 + (IF map > 0 THEN map + 1 ELSE 1) + 1})

\* render_two_zone before fit: the banner, the zones side by side, the status bar.
TwoZoneHeight(rows, sidebar, panes, width, offline) ==
  LET banner == IF offline THEN 1 ELSE 0
      room == Less(rows, banner + 1)
  IN banner + Max({Len(FitSidebar(sidebar, room)), RightZoneHeight(room, panes, width, offline)}) + 1

\* render_narrow before fit: a title, the banner, a blank line, the map with its legend
\* and count or a placeholder, the status bar.
NarrowHeight(rows, panes, cols, offline) ==
  LET above == IF offline THEN 2 ELSE 1
      map == MapHeight(rows, above, panes, cols, offline)
  IN above + 1 + (IF map > 0 THEN map + 2 ELSE 1) + 1

-----------------------------------------------------------------------------
(***************************************************************************)
(* The pane map: map_rects over panes given as [x, y, width, height].      *)
(***************************************************************************)

\* scale: rounded half up, and clamped.
Scale(value, span, extent) ==
  Max({0, Min({extent, (2 * value * extent + span) \div (2 * span)})})

\* One direction of a rectangle: the cells from and to, at least one apart.
Cells(from, to, low, span, extent) ==
  LET first == Scale(from - low, span, extent)
      last == Min({extent, Max({Scale(to - low, span, extent), first + 1})})
  IN <<IF first >= last THEN last - 1 ELSE first, last>>

MapRects(panes, width, height) ==
  LET right(p) == p.x + Max({1, p.width})
      bottom(p) == p.y + Max({1, p.height})
      minX == Min({p.x : p \in ToSet(panes)})
      minY == Min({p.y : p \in ToSet(panes)})
      spanX == Max({right(p) : p \in ToSet(panes)} \cup {minX + 1}) - minX
      spanY == Max({bottom(p) : p \in ToSet(panes)} \cup {minY + 1}) - minY
  IN [k \in DOMAIN panes |->
        [x |-> Cells(panes[k].x, right(panes[k]), minX, spanX, width - 1),
         y |-> Cells(panes[k].y, bottom(panes[k]), minY, spanY, height - 1)]]

-----------------------------------------------------------------------------
(***************************************************************************)
(* What the pane promises of these, over small inputs.                     *)
(***************************************************************************)

SmallStates ==
  LET Seqs(S) == UNION {[1..n -> S] : n \in 0..2} IN
  [tabs: Seqs([index: 0..1, selected: BOOLEAN]), panes: Seqs([rect: {<<0, 2>>}, focused: BOOLEAN])]

\* From any frame the cursor starts on a row if there is one, and the arrow keys take
\* it from each row to the next and the one before.
ASSUME CursorReachesEveryRow ==
  \A s \in SmallStates :
    LET rows == Rows(s) IN
    /\ rows # <<>> => Mended(s, None) \in ToSet(rows)
    /\ \A i \in DOMAIN rows :
         /\ i < Len(rows) => Moved(rows, rows[i], 1) = rows[i + 1]
         /\ i > 1 => Moved(rows, rows[i], -1) = rows[i - 1]

\* A quit key wins over Enter, and Enter over a move, in whatever order they came.
ASSUME QuitWinsOverEnter ==
  \A keys \in [1..3 -> {"up", "down", "enter", "quit", "other"}] :
    /\ "quit" \in ToSet(keys) => Drained(keys) = "quit"
    /\ "enter" \in ToSet(keys) /\ "quit" \notin ToSet(keys) => Drained(keys) = "enter"

Sidebars ==
  {SidebarLines(s, e, t, p, sel) : s \in BOOLEAN, e \in BOOLEAN, t \in 0..3, p \in 0..3, sel \in BOOLEAN}

\* A sidebar fits its rows, and keeps the header, the heading of the sessions and the
\* quit hint as long as there is room for them.
ASSUME SidebarFits ==
  \A lines \in Sidebars, rows \in 0..18 :
    LET fitted == FitSidebar(lines, rows) IN
    /\ Len(fitted) = Min({rows, Len(lines)})
    /\ rows >= 2 => fitted[1] = "header" /\ fitted[Len(fitted)] = "quit"
    /\ rows >= 3 => HeadingAt(fitted) # 0

\* The cut to the rows of the pane never takes the status bar of a wide frame.
ASSUME StatusBarStays ==
  \A lines \in Sidebars, rows \in 2..20, panes \in 0..2, width \in {5, 40}, offline \in BOOLEAN :
    TwoZoneHeight(rows, lines, panes, width, offline) <= rows

\* draw_map writes inside its grid whatever the rectangles are, empty and overlapping
\* ones too: an index outside would end the pane.
ASSUME MapStaysInGrid ==
  LET Box == [x: {-3, 0, 5}, y: {0, 2}, width: {-1, 0, 1, 7}, height: {0, 4}] IN
  \A p, q \in Box, width \in 3..6, height \in {3, 4} :
    \A r \in ToSet(MapRects(<<p, q>>, width, height)) :
      /\ 0 <= r.x[1] /\ r.x[1] < r.x[2] /\ r.x[2] <= width - 1
      /\ 0 <= r.y[1] /\ r.y[1] < r.y[2] /\ r.y[2] <= height - 1

=============================================================================
