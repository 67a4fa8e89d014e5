--------------------------- MODULE DesktopProofs ---------------------------
(***************************************************************************)
(* What the desktop observer never mixes up, for every set of windows,     *)
(* terminals and tabs: the panes the hooks act on, and the tabs the        *)
(* dashboard lists, with the window they were read from; and that a        *)
(* command of the dashboard does what its row says.  And what a drag       *)
(* does to those panes, for every window, every pane tree and every loss   *)
(* of its messages: it moves the divider it captured, and each of its      *)
(* steps goes where the pointer went.                                      *)
(***************************************************************************)
EXTENDS Desktop, PaneResize, SequenceTheorems, FiniteSetTheorems, TLAPS

\* Panes paired with the terminal they were read from.
Paired(s) == \A p \in s.panes : s.terminal # None /\ p.hwnd = s.terminal.hwnd

PanesInv == Paired(snapshot) /\ Paired(shared)

\* A pane is read from the window that was asked.
LEMMA PanesAreReadThere ==
  ASSUME NEW w, NEW p \in PanesIn(w)
  PROVE  p.hwnd = w
BY DEF PanesIn

\* The inductive step: a switch forgets the panes, a query reads those of the terminal
\* of the snapshot, and the lock is given the snapshot as a whole.
LEMMA PanesStep ==
  ASSUME PanesInv, [Next]_vars
  PROVE  PanesInv'
<1>1. CASE ResolveForeground
  BY <1>1 DEF PanesInv, Paired, ResolveForeground, Switched
<1>2. CASE SkipGeometry
  BY <1>2 DEF PanesInv, Paired, SkipGeometry, Locked
<1>3. CASE RefreshGeometry
  <2>1. PICK panes \in SUBSET PanesIn(snapshot.terminal.hwnd) : Locked(panes)
    BY <1>3 DEF RefreshGeometry
  <2>2. /\ snapshot' = [terminal |-> snapshot.terminal, panes |-> panes]
        /\ shared' = snapshot'
    BY <2>1 DEF Locked
  <2>3. snapshot.terminal # None
    BY <1>3 DEF RefreshGeometry
  <2>4. \A p \in panes : p.hwnd = snapshot.terminal.hwnd
    BY <2>1, PanesAreReadThere
  <2> QED
    BY <2>2, <2>3, <2>4 DEF PanesInv, Paired
<1>4. CASE UNCHANGED <<snapshot, shared>>
  BY <1>4 DEF PanesInv, Paired
<1> QED
  BY <1>1, <1>2, <1>3, <1>4
  DEF Next, ObserverPass, DesktopChanges, Pane, Worker, SkipTabs, RefreshTabs, Publish, ObserverOnly,
      SwitchTo, Recycle, Rearrange, ClickTab, ClickPane, WorldChanges, Redraw, Activate, Validate,
      SelectTab, FocusPane, vars, observer_vars

\* The hooks are never given the panes of one window with the identity of another.
THEOREM SpecPanesAreOfTheTerminal == Spec => []PanesAreOfTheTerminal
<1>1. Init => PanesInv
  BY DEF Init, PanesInv, Paired
<1>2. PanesInv /\ [Next]_vars => PanesInv'
  BY PanesStep
<1>3. PanesInv => PanesAreOfTheTerminal
  BY DEF PanesInv, Paired, PanesAreOfTheTerminal
<1> QED
  BY <1>1, <1>2, <1>3, PTL DEF Spec

-----------------------------------------------------------------------------
(***************************************************************************)
(* The tabs.  That the list is of the window recorded with it holds at     *)
(* every moment; that this is the window of the snapshot holds only when   *)
(* the pass has come to publishing, and there it is needed.                *)
(***************************************************************************)

ListIsOfItsWindow == cache.list # <<>> /\ ~cache.failed => cache.from.hwnd = cache.hwnd

ListIsRead == cache.list # <<>> => MouseResize

WindowIsRecorded ==
  step = "publish" /\ MouseResize /\ snapshot.terminal # None
    => snapshot.terminal.hwnd = cache.hwnd

TabsInv == ListIsOfItsWindow /\ ListIsRead /\ WindowIsRecorded /\ TabsAreOfTheTerminal

\* A query records the window it asks, and an answer the window it came from.
LEMMA RefreshKeepsTabs ==
  ASSUME TabsInv, RefreshTabs
  PROVE  TabsInv'
<1> DEFINE w == snapshot.terminal.hwnd
<1>1. \E list, failed, whole :
        /\ failed \in BOOLEAN
        /\ cache' = [list |-> list, hwnd |-> w, failed |-> failed,
                     from |-> IF failed THEN cache.from
                              ELSE [hwnd |-> w, process |-> owner[w], strip |-> Strip(w),
                                    whole |-> whole]]
  BY Zenon DEF RefreshTabs
<1>2. /\ cache'.hwnd = w
      /\ ~cache'.failed => cache'.from.hwnd = w
  BY <1>1
<1>3. MouseResize /\ UNCHANGED <<snapshot, shown>>
  BY DEF RefreshTabs
<1> QED
  BY <1>2, <1>3
  DEF TabsInv, ListIsOfItsWindow, ListIsRead, WindowIsRecorded, TabsAreOfTheTerminal

\* A pass that does not ask for the tabs has found the window recorded.
LEMMA SkipKeepsTabs ==
  ASSUME TabsInv, SkipTabs
  PROVE  TabsInv'
BY DEF SkipTabs, TabsAreDue, TabsInv, ListIsOfItsWindow, ListIsRead, WindowIsRecorded,
       TabsAreOfTheTerminal

\* What is published is a list with the window of the snapshot.
LEMMA PublishKeepsTabs ==
  ASSUME TabsInv, Publish
  PROVE  TabsInv'
<1>1. /\ shown'.terminal = snapshot.terminal
      /\ shown'.tabs = cache.list
      /\ shown'.from = cache.from
      /\ shown'.failed = cache.failed
  BY DEF Publish, DashboardState
<1>2. /\ step = "publish" /\ step' = "foreground"
      /\ UNCHANGED <<cache, snapshot>>
  BY DEF Publish
<1> QED
  BY <1>1, <1>2
  DEF TabsInv, ListIsOfItsWindow, ListIsRead, WindowIsRecorded, TabsAreOfTheTerminal

\* No other step touches the list or what is shown, and none leads to publishing.
LEMMA OthersKeepTabs ==
  ASSUME TabsInv, UNCHANGED <<cache, shown>>,
         step' \in {"geometry", "tabs"} \/ UNCHANGED <<step, snapshot>>
  PROVE  TabsInv'
BY DEF TabsInv, ListIsOfItsWindow, ListIsRead, WindowIsRecorded, TabsAreOfTheTerminal

LEMMA TabsStep ==
  ASSUME TabsInv, [Next]_vars
  PROVE  TabsInv'
<1>1. CASE ResolveForeground \/ SkipGeometry \/ RefreshGeometry
  BY <1>1, OthersKeepTabs DEF ResolveForeground, SkipGeometry, RefreshGeometry
<1>2. CASE DesktopChanges \/ Pane \/ Worker \/ UNCHANGED vars
  <2>1. UNCHANGED <<cache, shown, step, snapshot>>
    BY <1>2
    DEF DesktopChanges, Pane, Worker, SwitchTo, Recycle, Rearrange, ClickTab, ClickPane, WorldChanges,
        Redraw, Activate, Validate, SelectTab, FocusPane, vars, observer_vars
  <2> QED
    BY <2>1, OthersKeepTabs
<1> QED
  BY <1>1, <1>2, RefreshKeepsTabs, SkipKeepsTabs, PublishKeepsTabs DEF Next, ObserverPass

\* The tabs listed are those of the window shown unless the last query failed.
THEOREM SpecTabsAreOfTheTerminal == Spec => []TabsAreOfTheTerminal
<1>1. Init => TabsInv
  BY DEF Init, EmptyState, TabsInv, ListIsOfItsWindow, ListIsRead, WindowIsRecorded, TabsAreOfTheTerminal
<1>2. TabsInv /\ [Next]_vars => TabsInv'
  BY TabsStep
<1>3. TabsInv => TabsAreOfTheTerminal
  BY DEF TabsInv
<1> QED
  BY <1>1, <1>2, <1>3, PTL DEF Spec

\* What the observer hands out is never of another window than it says.
THEOREM SpecNothingOfAnotherWindow == Spec => []NothingOfAnotherWindow
<1>1. PanesAreOfTheTerminal /\ TabsAreOfTheTerminal => NothingOfAnotherWindow
  BY DEF NothingOfAnotherWindow
<1> QED
  BY <1>1, SpecPanesAreOfTheTerminal, SpecTabsAreOfTheTerminal, PTL

-----------------------------------------------------------------------------
(***************************************************************************)
(* The pane with the focus.  Panes are pruned only for others that can be  *)
(* seen, and the one with the focus is always among those.                 *)
(***************************************************************************)
LEMMA ObservedKeepsLatest ==
  ASSUME FocusedIsLatest, NEW panes, activity' = Observed(panes)
  PROVE  FocusedIsLatest'
<1>. DEFINE holding == {p.rect : p \in {q \in panes : q.focused}}
            keys == {p.rect : p \in panes}
            key == IF holding = {} THEN None ELSE CHOOSE r \in holding : TRUE
            kept == Pruned(activity.entered, keys)
<1>1. /\ activity'.focused = key
      /\ activity'.entered = IF key \in {activity.focused, None} THEN kept ELSE Stamped(kept, key)
  BY DEF Observed
<1>2. key # None => key \in keys
  OBVIOUS
<1>. HIDE DEF key, keys, kept
<1>3. CASE key = None
  BY <1>1, <1>3 DEF FocusedIsLatest
<1>4. CASE key # None /\ key = activity.focused
  <2>1. kept = [k \in DOMAIN activity.entered \cap keys |-> activity.entered[k] \cap keys]
    BY <1>2, <1>4 DEF kept, Pruned
  <2>2. activity'.entered = kept
    BY <1>1, <1>4
  <2>. QED
    BY <1>1, <1>2, <1>4, <2>1, <2>2 DEF FocusedIsLatest
<1>5. CASE key # None /\ key # activity.focused
  <2>1. activity'.entered = Stamped(kept, key)
    BY <1>1, <1>5
  <2>. QED
    BY <1>1, <2>1 DEF FocusedIsLatest, Stamped
<1>. QED
  BY <1>3, <1>4, <1>5

\* The pane with the keyboard focus is the one it entered last, through every switch of
\* windows and tabs and every read that fails.
THEOREM SpecFocusedIsLatest == Spec => []FocusedIsLatest
<1>1. Init => FocusedIsLatest
  BY DEF Init, FocusedIsLatest
<1>2. FocusedIsLatest /\ [Next]_vars => FocusedIsLatest'
  <2>. SUFFICES ASSUME FocusedIsLatest, [Next]_vars PROVE FocusedIsLatest'
    OBVIOUS
  <2>1. CASE SkipTabs \/ RefreshTabs
    <3>1. activity' = Observed(snapshot.panes)
      BY <2>1 DEF SkipTabs, RefreshTabs
    <3>. QED
      BY <3>1, ObservedKeepsLatest
  <2>2. CASE UNCHANGED activity
    BY <2>2 DEF FocusedIsLatest
  <2>. QED
    BY <2>1, <2>2
    DEF Next, ObserverPass, DesktopChanges, Pane, Worker, ResolveForeground, SkipGeometry,
        RefreshGeometry, Publish, ObserverOnly, SwitchTo, Recycle, Rearrange, ClickTab, ClickPane,
        WorldChanges, Redraw, Activate, Validate, SelectTab, FocusPane, vars, observer_vars
<1>. QED
  BY <1>1, <1>2, PTL DEF Spec

-----------------------------------------------------------------------------
(***************************************************************************)
(* What the highlighted row says, from the desktop through the snapshot,   *)
(* the file, the frame and the command to the worker.                      *)
(***************************************************************************)

WorldInv ==
  /\ owner \in [Window -> Terminal \cup {OtherApp}]
  /\ strip \in [Terminal -> Seq(Tab)]
  /\ active \in [Terminal -> Tab]
  /\ focus = [t \in Tab |-> focus[t]]
  /\ budget \in [{"changes", "faults", "commands"} -> Int]

TabRow == [index: Nat, tab: Tab, selected: BOOLEAN]

\* A list from a whole enumeration names the tabs by their places in the strip it was
\* read from.
ListFits(list, from) ==
  /\ list \in Seq(TabRow)
  /\ from # None /\ from.whole =>
       \A k \in 1..Len(list) : /\ list[k].index + 1 \in 1..Len(from.strip)
                               /\ list[k].tab = from.strip[list[k].index + 1]

PaneFits(p) == p.tab \in Tab /\ p.rect \in PanesOf[p.tab]

StateFits(state) ==
  /\ ListFits(state.tabs, state.from)
  /\ Len(state.panes) \in Nat
  /\ \A k \in 1..Len(state.panes) : PaneFits(state.panes[k])

\* A command does what the row it was chosen from says.
Honest(message) ==
  /\ message.action[1] = "SelectTab" /\ message.chosen.from # None /\ message.chosen.from.whole =>
       /\ message.action[2] + 1 \in 1..Len(message.chosen.from.strip)
       /\ message.chosen.tab = message.chosen.from.strip[message.action[2] + 1]
  /\ message.action[1] = "FocusPane" =>
       /\ message.chosen.tab \in Tab
       /\ message.chosen.rect \in PanesOf[message.chosen.tab]
       /\ message.action[2] \in Nat
       /\ message.chosen.rect[1] <= message.action[2]
       /\ message.action[2] < message.chosen.rect[2]

SnapshotInv ==
  /\ snapshot.terminal \in Identity \cup {None}
  /\ IsFiniteSet(snapshot.panes)
  /\ \A p \in snapshot.panes : PaneFits(p)

RowsInv == ListFits(cache.list, cache.from) /\ StateFits(shown) /\ StateFits(frame)

CommandInv ==
  /\ command # None => Honest(command)
  /\ queue # None => queue.target \in Identity /\ Honest(queue)
  /\ worker # None => worker.target \in Identity /\ Honest(worker)

ChoiceInv == WorldInv /\ SnapshotInv /\ RowsInv /\ CommandInv

\* Taking one element out of a sequence.
LEMMA WithoutIsShorter ==
  ASSUME NEW S, NEW s \in Seq(S), NEW i \in 0..Len(s)
  PROVE  /\ Without(s, i) \in Seq(S)
         /\ \A k \in 1..Len(Without(s, i)) : \E j \in 1..Len(s) : Without(s, i)[k] = s[j]
<1>1. CASE i = 0
  <2>1. Without(s, i) = s
    BY <1>1 DEF Without
  <2> QED
    BY <2>1
<1>2. CASE i # 0
  <2> DEFINE a == SubSeq(s, 1, i - 1)
             b == SubSeq(s, i + 1, Len(s))
  <2>1. Without(s, i) = a \o b
    BY <1>2 DEF Without, RemoveAt
  <2>2. /\ i \in 1..Len(s) /\ i \in Int /\ Len(s) \in Nat
        /\ a \in Seq(S) /\ Len(a) = i - 1 /\ \A k \in 1..Len(a) : a[k] = s[k]
        /\ b \in Seq(S) /\ Len(b) = Len(s) - i /\ \A k \in 1..Len(b) : b[k] = s[i + k]
    BY <1>2
  <2> HIDE DEF a, b
  <2>3. /\ a \o b \in Seq(S) /\ Len(a \o b) = Len(s) - 1
        /\ \A k \in 1..Len(a) : (a \o b)[k] = a[k]
        /\ \A k \in 1..(Len(a) + Len(b)) : k > Len(a) => (a \o b)[k] = b[k - Len(a)]
    <3>1. /\ a \o b \in Seq(S) /\ Len(a \o b) = Len(a) + Len(b)
          /\ \A k \in 1..(Len(a) + Len(b)) :
               (a \o b)[k] = IF k <= Len(a) THEN a[k] ELSE b[k - Len(a)]
      BY <2>2, ConcatProperties
    <3> QED
      BY <2>2, <3>1
  <2>4. ASSUME NEW k \in 1..Len(a \o b)
        PROVE  \E j \in 1..Len(s) : (a \o b)[k] = s[j]
    <3>1. CASE k <= Len(a)
      <4>1. (a \o b)[k] = s[k] /\ k \in 1..Len(s)
        BY <2>2, <2>3, <2>4, <3>1
      <4> QED
        BY <4>1
    <3>2. CASE k > Len(a)
      <4>1. (a \o b)[k] = b[k - Len(a)] /\ k - Len(a) \in 1..Len(b)
        BY <2>2, <2>3, <2>4, <3>2
      <4>2. b[k - Len(a)] = s[i + (k - Len(a))] /\ i + (k - Len(a)) \in 1..Len(s)
        BY <2>2, <4>1
      <4> QED
        BY <4>1, <4>2
    <3> QED
      BY <2>2, <3>1, <3>2
  <2> QED
    BY <2>1, <2>3, <2>4
<1> QED
  BY <1>1, <1>2

\* Whatever is unreadable, the rows of an enumeration name its elements by their places.
LEMMA TabInfosAreRows ==
  ASSUME NEW elements \in Seq(Tab), NEW unreadable \in 0..Len(elements), NEW shows
  PROVE  LET list == TabInfos(elements, unreadable, shows) IN
         /\ list \in Seq(TabRow)
         /\ \A k \in 1..Len(list) : /\ list[k].index + 1 \in 1..Len(elements)
                                    /\ list[k].tab = elements[list[k].index + 1]
<1> DEFINE row(k) == [index |-> k - 1, tab |-> elements[k], selected |-> elements[k] = shows]
           all == [k \in DOMAIN elements |-> row(k)]
           list == TabInfos(elements, unreadable, shows)
<1>1. DOMAIN elements = 1..Len(elements) /\ Len(elements) \in Nat
  OBVIOUS
<1>2. \A k \in 1..Len(elements) : row(k) \in TabRow /\ row(k).index = k - 1 /\ row(k).tab = elements[k]
  BY DEF TabRow
<1> HIDE DEF row
<1>3. all \in Seq(TabRow) /\ Len(all) = Len(elements)
  BY <1>1, <1>2
<1>4. \A k \in 1..Len(elements) : all[k] = row(k)
  BY <1>1
<1>5. list = Without(all, unreadable)
  BY DEF TabInfos, row
<1> HIDE DEF all, list
<1>6. /\ list \in Seq(TabRow)
      /\ \A k \in 1..Len(list) : \E j \in 1..Len(all) : list[k] = all[j]
  <2>1. unreadable \in 0..Len(all)
    BY <1>3
  <2>2. /\ Without(all, unreadable) \in Seq(TabRow)
        /\ \A k \in 1..Len(Without(all, unreadable)) :
             \E j \in 1..Len(all) : Without(all, unreadable)[k] = all[j]
    BY <1>3, <2>1, WithoutIsShorter
  <2> QED
    BY <1>5, <2>2
<1>7. ASSUME NEW k \in 1..Len(list)
      PROVE  list[k].index + 1 \in 1..Len(elements) /\ list[k].tab = elements[list[k].index + 1]
  <2>1. PICK j \in 1..Len(elements) : list[k] = all[j]
    BY <1>3, <1>6
  <2>2. list[k].index = j - 1 /\ list[k].tab = elements[j]
    BY <1>2, <1>4, <2>1
  <2>3. (j - 1) + 1 = j
    BY <2>1
  <2> QED
    BY <2>2, <2>3
<1> QED
  BY <1>6, <1>7 DEF list

\* The panes are listed, each of them.
LEMMA ListedArePanes ==
  ASSUME NEW panes, IsFiniteSet(panes)
  PROVE  /\ Len(Listed(panes)) \in Nat
         /\ \A k \in 1..Len(Listed(panes)) : Listed(panes)[k] \in panes
<1> DEFINE n == Cardinality(panes)
<1>1. n \in Nat /\ ExistsBijection(1..n, panes)
  BY FS_CardinalityType
<1>2. PICK f \in Bijection(1..n, panes) : TRUE
  BY <1>1 DEF ExistsBijection
<1>3. f \in [1..n -> panes] /\ IsInjective(f)
  BY <1>2 DEF Bijection, Injection, IsInjective
<1>4. SetToSeq(panes) \in [1..n -> panes]
  BY <1>3 DEF SetToSeq
<1> HIDE DEF n
<1>5. Listed(panes) \in [1..n -> panes]
  BY <1>4 DEF Listed
<1>6. Listed(panes) \in Seq(panes) /\ Len(Listed(panes)) = n
  BY <1>1, <1>5
<1> QED
  BY <1>1, <1>5, <1>6

\* The cursor is on a tab or on a pane.
LEMMA CursorIsOnARow ==
  ASSUME NEW state, Len(state.tabs) \in Nat, Len(state.panes) \in Nat,
         NEW cursor \in ToSet(Rows(state))
  PROVE  \/ \E k \in 1..Len(state.tabs) : cursor = <<"tab", k>>
         \/ \E k \in 1..Len(state.panes) : cursor = <<"pane", k>>
<1> DEFINE m == Len(state.tabs)
           n == Len(state.panes)
           tabs == [k \in 1..m |-> <<"tab", k>>]
           panes == [k \in 1..n |-> <<"pane", k>>]
           S == {<<"tab", k>> : k \in 1..m} \cup {<<"pane", k>> : k \in 1..n}
<1>1. tabs \in Seq(S) /\ panes \in Seq(S)
  OBVIOUS
<1>2. Rows(state) = tabs \o panes
  BY DEF Rows
<1> HIDE DEF tabs, panes, S
<1>3. Rows(state) \in Seq(S)
  BY <1>1, <1>2, ConcatProperties
<1>4. cursor \in S
  BY <1>3 DEF ToSet
<1> QED
  BY <1>4 DEF S

LEMMA ActivatedIsHonest ==
  ASSUME NEW state, StateFits(state), NEW cursor \in ToSet(Rows(state))
  PROVE  Honest([action |-> ActivationCommand(state, cursor), chosen |-> Chosen(state, cursor)])
<1> DEFINE message == [action |-> ActivationCommand(state, cursor), chosen |-> Chosen(state, cursor)]
<1>1. /\ state.tabs \in Seq(TabRow) /\ Len(state.tabs) \in Nat
      /\ state.from # None /\ state.from.whole =>
           \A k \in 1..Len(state.tabs) :
             /\ state.tabs[k].index + 1 \in 1..Len(state.from.strip)
             /\ state.tabs[k].tab = state.from.strip[state.tabs[k].index + 1]
      /\ Len(state.panes) \in Nat
      /\ \A k \in 1..Len(state.panes) : PaneFits(state.panes[k])
  BY DEF StateFits, ListFits
<1>2. CASE \E k \in 1..Len(state.tabs) : cursor = <<"tab", k>>
  <2>1. PICK k \in 1..Len(state.tabs) : cursor = <<"tab", k>>
    BY <1>2
  <2>2. cursor[1] = "tab" /\ cursor[2] = k
    BY <2>1
  <2>3. /\ message.action = <<"SelectTab", state.tabs[k].index>>
        /\ message.chosen = [tab |-> state.tabs[k].tab, rect |-> None, from |-> state.from]
    BY <2>2 DEF ActivationCommand, Chosen
  <2>4. /\ message.action[1] = "SelectTab" /\ message.action[2] = state.tabs[k].index
        /\ message.chosen.tab = state.tabs[k].tab /\ message.chosen.from = state.from
    BY <2>3
  <2> HIDE DEF message
  <2>5. Honest(message)
    BY <1>1, <2>4 DEF Honest
  <2> QED
    BY <2>5 DEF message
<1>3. CASE \E k \in 1..Len(state.panes) : cursor = <<"pane", k>>
  <2>1. PICK k \in 1..Len(state.panes) : cursor = <<"pane", k>>
    BY <1>3
  <2> DEFINE pane == state.panes[k]
             x == (pane.rect[1] + pane.rect[2]) \div 2
  <2>2. cursor[1] = "pane" /\ cursor[2] = k
    BY <2>1
  <2>3. /\ message.action = <<"FocusPane", x>>
        /\ message.chosen = [tab |-> pane.tab, rect |-> pane.rect, from |-> state.from]
    BY <2>2 DEF ActivationCommand, Chosen
  <2>4. /\ message.action[1] = "FocusPane" /\ message.action[2] = x
        /\ message.chosen.tab = pane.tab /\ message.chosen.rect = pane.rect
    BY <2>3
  <2>5. pane.tab \in Tab /\ pane.rect \in PanesOf[pane.tab]
    BY <1>1 DEF PaneFits
  <2> HIDE DEF pane
  <2>6. pane.rect[1] \in Nat /\ pane.rect[2] \in Nat /\ pane.rect[1] < pane.rect[2]
    BY <2>5, DesktopAssumption
  <2>7. x \in Nat /\ pane.rect[1] <= x /\ x < pane.rect[2]
    BY <2>6
  <2> HIDE DEF message, x
  <2>8. Honest(message)
    BY <2>4, <2>5, <2>7 DEF Honest
  <2> QED
    BY <2>8 DEF message
<1> QED
  BY <1>1, <1>2, <1>3, CursorIsOnARow

\* The panes of a window are those of a tab.
LEMMA PanesFit ==
  ASSUME WorldInv, NEW w \in Window
  PROVE  IsFiniteSet(PanesIn(w)) /\ \A p \in PanesIn(w) : PaneFits(p)
<1>1. CASE owner[w] \notin Terminal
  BY <1>1, FS_EmptySet DEF PanesIn
<1>2. CASE owner[w] \in Terminal
  <2> DEFINE tab == active[owner[w]]
             pane(r) == [rect |-> r, focused |-> foreground = w /\ focus[tab] = r, tab |-> tab, hwnd |-> w]
  <2>1. tab \in Tab
    BY <1>2 DEF WorldInv
  <2>2. PanesIn(w) = {pane(r) : r \in PanesOf[tab]}
    BY <1>2 DEF PanesIn
  <2>3. \A r \in PanesOf[tab] : pane(r).rect = r /\ pane(r).tab = tab
    OBVIOUS
  <2> HIDE DEF tab, pane
  <2>4. IsFiniteSet(PanesOf[tab])
    BY <2>1, DesktopAssumption
  <2>5. IsFiniteSet({pane(r) : r \in PanesOf[tab]})
    <3> DEFINE f == [r \in PanesOf[tab] |-> pane(r)]
    <3>1. f \in Surjection(PanesOf[tab], {pane(r) : r \in PanesOf[tab]})
      BY DEF Surjection
    <3> QED
      BY <2>4, <3>1, FS_Surjection
  <2> QED
    BY <2>1, <2>2, <2>3, <2>5 DEF PaneFits
<1> QED
  BY <1>1, <1>2

LEMMA StripIsOfTabs ==
  ASSUME WorldInv, NEW w \in Window
  PROVE  Strip(w) \in Seq(Tab)
BY DEF WorldInv, Strip

\* A strip is a list of some of a terminal's tabs, and of at least one.
LEMMA StripsAreOfTabs ==
  ASSUME NEW t \in Terminal, NEW s \in (SUBSET TabsOf[t]) \ {{}}, NEW tabs \in SetToSeqs(s)
  PROVE  tabs \in Seq(Tab) /\ Len(tabs) > 0 /\ tabs[1] \in Tab
<1>1. IsFiniteSet(TabsOf[t]) /\ TabsOf[t] \subseteq Tab
  BY DesktopAssumption DEF Tab
<1>2. IsFiniteSet(s)
  BY <1>1, FS_Subset
<1>3. Cardinality(s) \in Nat /\ Cardinality(s) # 0
  BY <1>2, FS_CardinalityType, FS_EmptySet
<1>4. tabs \in [1..Cardinality(s) -> s]
  BY DEF SetToSeqs
<1>5. tabs \in Seq(Tab) /\ Len(tabs) = Cardinality(s)
  BY <1>1, <1>3, <1>4
<1> QED
  BY <1>3, <1>5

LEMMA SetsHaveSequences ==
  ASSUME NEW s, IsFiniteSet(s)
  PROVE  SetToSeqs(s) # {}
<1> DEFINE n == Cardinality(s)
<1>1. n \in Nat /\ ExistsBijection(1..n, s)
  BY FS_CardinalityType
<1>2. PICK f \in Bijection(1..n, s) : TRUE
  BY <1>1 DEF ExistsBijection
<1>3. f \in [1..n -> s] /\ \A i, j \in 1..n : i # j => f[i] # f[j]
  BY <1>2 DEF Bijection, Injection, IsInjective
<1> QED
  BY <1>3 DEF SetToSeqs

LEMMA WorldInit ==
  ASSUME Init
  PROVE  WorldInv
<1>1. \A t \in Terminal : IsFiniteSet(TabsOf[t]) /\ TabsOf[t] # {}
  BY DesktopAssumption
<1>2. strip = [t \in Terminal |-> CHOOSE s \in SetToSeqs(TabsOf[t]) : TRUE]
  BY DEF Init
<1>3. ASSUME NEW t \in Terminal
      PROVE  strip[t] \in Seq(Tab) /\ strip[t][1] \in Tab
  <2>1. SetToSeqs(TabsOf[t]) # {}
    BY <1>1, SetsHaveSequences
  <2>2. strip[t] \in SetToSeqs(TabsOf[t])
    BY <1>2, <2>1
  <2> QED
    BY <1>1, <2>2, StripsAreOfTabs
<1>4. strip \in [Terminal -> Seq(Tab)]
  BY <1>2, <1>3
<1>5. active \in [Terminal -> Tab]
  BY <1>3 DEF Init
<1>6. owner \in [Window -> Terminal \cup {OtherApp}] /\ focus = [t \in Tab |-> focus[t]]
  BY DesktopAssumption DEF Init
<1>7. budget \in [{"changes", "faults", "commands"} -> Int]
  <2>1. budget = [changes |-> MaxChanges, faults |-> MaxFaults, commands |-> MaxCommands]
    BY DEF Init
  <2>2. /\ DOMAIN budget = {"changes", "faults", "commands"}
        /\ budget = [k \in {"changes", "faults", "commands"} |-> budget[k]]
        /\ budget["changes"] = MaxChanges /\ budget["faults"] = MaxFaults
        /\ budget["commands"] = MaxCommands
    BY <2>1
  <2>3. MaxChanges \in Int /\ MaxFaults \in Int /\ MaxCommands \in Int
    BY DesktopAssumption
  <2> QED
    BY <2>2, <2>3
<1> QED
  BY <1>4, <1>5, <1>6, <1>7 DEF WorldInv

LEMMA SpentStaysTyped ==
  ASSUME WorldInv, NEW what \in {"changes", "faults", "commands"}, Spend(what)
  PROVE  /\ budget' \in [{"changes", "faults", "commands"} -> Int]
         /\ budget' # budget
<1>1. budget' = [budget EXCEPT ![what] = @ - 1] /\ budget \in [{"changes", "faults", "commands"} -> Int]
  BY DEF Spend, WorldInv
<1>2. budget'[what] = budget[what] - 1 /\ budget[what] \in Int
  BY <1>1
<1> QED
  BY <1>1, <1>2

\* The element the worker selects is a tab.
LEMMA SelectedIsATab ==
  ASSUME WorldInv, NEW w \in Window, NEW missing \in 0..Len(Strip(w)), NEW index
  PROVE  LET tab == NthTab(Enumerated(Strip(w), missing), index) IN
         tab # None => tab \in Tab /\ owner[w] \in Terminal
<1> DEFINE elements == Enumerated(Strip(w), missing)
<1>1. Strip(w) \in Seq(Tab) /\ Len(Strip(w)) \in Nat
  BY StripIsOfTabs
<1>2. elements \in Seq(Tab) /\ \A k \in 1..Len(elements) : \E j \in 1..Len(Strip(w)) : elements[k] = Strip(w)[j]
  BY <1>1, WithoutIsShorter DEF Enumerated
<1> HIDE DEF elements
<1>3. \A k \in DOMAIN elements : elements[k] \in Tab /\ Len(Strip(w)) > 0
  BY <1>1, <1>2
<1>4. owner[w] \notin Terminal => Len(Strip(w)) = 0
  BY DEF Strip
<1>5. NthTab(elements, index) # None => NthTab(elements, index) \in Tab /\ owner[w] \in Terminal
  BY <1>3, <1>4 DEF NthTab
<1> QED
  BY <1>5 DEF elements

LEMMA WorldStep ==
  ASSUME WorldInv, CommandInv, [Next]_vars
  PROVE  WorldInv'
<1>1. CASE UNCHANGED <<owner, strip, active, focus, budget>>
  BY <1>1 DEF WorldInv
<1>2. ASSUME UNCHANGED <<owner, strip, active, focus>>,
             NEW what \in {"changes", "faults", "commands"}, Spend(what)
      PROVE  WorldInv'
  BY <1>2, SpentStaysTyped DEF WorldInv
<1>3. CASE ResolveForeground \/ SkipGeometry \/ RefreshGeometry \/ SkipTabs \/ RefreshTabs
  <2>1. UNCHANGED <<owner, strip, active, focus>>
    BY <1>3 DEF ResolveForeground, SkipGeometry, RefreshGeometry, SkipTabs, RefreshTabs, ObserverOnly, world
  <2>2. UNCHANGED budget \/ Spend("faults")
    BY <1>3, Zenon DEF ResolveForeground, SkipGeometry, RefreshGeometry, SkipTabs, RefreshTabs
  <2> QED
    BY <1>1, <1>2, <2>1, <2>2
<1>4. CASE Publish \/ Redraw \/ Validate \/ UNCHANGED vars
  <2>1. UNCHANGED <<owner, strip, active, focus>>
    BY <1>4 DEF Publish, Redraw, Validate, world, vars
  <2>2. UNCHANGED budget \/ Spend("faults")
    BY <1>4 DEF Publish, Redraw, Validate, vars
  <2> QED
    BY <1>1, <1>2, <2>1, <2>2
<1>5. ASSUME NEW cursor, Activate(cursor)
      PROVE  WorldInv'
  BY <1>2, <1>5 DEF Activate, world
<1>6. ASSUME NEW w, SwitchTo(w)
      PROVE  WorldInv'
  BY <1>2, <1>6 DEF SwitchTo, WorldChanges
<1>7. ASSUME NEW w \in Window, NEW p \in Terminal \cup {OtherApp}, Recycle(w, p)
      PROVE  WorldInv'
  <2>1. /\ owner' = [owner EXCEPT ![w] = p] /\ UNCHANGED <<strip, active, focus>>
        /\ Spend("changes")
    BY <1>7 DEF Recycle, WorldChanges
  <2> QED
    BY <2>1, SpentStaysTyped DEF WorldInv
<1>8. ASSUME NEW t \in Terminal, NEW tabs \in Strips(t), Rearrange(t, tabs)
      PROVE  WorldInv'
  <2>1. PICK s \in (SUBSET TabsOf[t]) \ {{}} : tabs \in SetToSeqs(s)
    BY <1>8 DEF Strips
  <2>2. tabs \in Seq(Tab) /\ tabs[1] \in Tab
    BY <2>1, StripsAreOfTabs
  <2>3. /\ strip' = [strip EXCEPT ![t] = tabs] /\ UNCHANGED <<owner, focus>>
        /\ active' = [active EXCEPT ![t] = IF active[t] \in ToSet(tabs) THEN active[t] ELSE tabs[1]]
        /\ Spend("changes")
    BY <1>8 DEF Rearrange, WorldChanges
  <2>4. strip' \in [Terminal -> Seq(Tab)] /\ active' \in [Terminal -> Tab]
    BY <2>2, <2>3 DEF WorldInv
  <2> QED
    BY <2>3, <2>4, SpentStaysTyped DEF WorldInv
<1>9. ASSUME NEW t \in Terminal, NEW tab \in TabsOf[t], ClickTab(t, tab)
      PROVE  WorldInv'
  <2>1. /\ active' = [active EXCEPT ![t] = tab] /\ UNCHANGED <<owner, strip, focus>>
        /\ Spend("changes")
    BY <1>9 DEF ClickTab, WorldChanges
  <2>2. tab \in Tab
    BY DEF Tab
  <2> QED
    BY <2>1, <2>2, SpentStaysTyped DEF WorldInv
<1>10. ASSUME NEW t \in Terminal, NEW rect, ClickPane(t, rect)
       PROVE  WorldInv'
  <2>1. /\ focus' = [focus EXCEPT ![active[t]] = rect] /\ UNCHANGED <<owner, strip, active>>
        /\ Spend("changes")
    BY <1>10 DEF ClickPane, WorldChanges
  <2>2. focus' = [u \in Tab |-> focus'[u]]
    BY <2>1 DEF WorldInv
  <2> QED
    BY <2>1, <2>2, SpentStaysTyped DEF WorldInv
<1>11. CASE SelectTab
  <2> DEFINE w == worker.target.hwnd
  <2>1. w \in Window
    BY <1>11 DEF SelectTab, CommandInv, Identity
  <2>2. Strip(w) \in Seq(Tab) /\ DOMAIN Strip(w) = 1..Len(Strip(w)) /\ Len(Strip(w)) \in Nat
    BY <2>1, StripIsOfTabs
  <2>3. PICK missing \in {0} \cup (IF Can("faults") THEN DOMAIN Strip(w) ELSE {}) :
          LET tab == NthTab(Enumerated(Strip(w), missing), worker.action[2]) IN
          /\ active' = IF tab = None THEN active ELSE [active EXCEPT ![owner[w]] = tab]
          /\ IF missing = 0 THEN UNCHANGED budget ELSE Spend("faults")
    BY <1>11 DEF SelectTab
  <2>4. UNCHANGED <<owner, strip, focus>>
    BY <1>11 DEF SelectTab
  <2> HIDE DEF w
  <2>5. missing \in 0..Len(Strip(w))
    BY <2>2
  <2> DEFINE tab == NthTab(Enumerated(Strip(w), missing), worker.action[2])
  <2>6. tab # None => tab \in Tab /\ owner[w] \in Terminal
    BY <2>1, <2>5, SelectedIsATab
  <2>7. active' = IF tab = None THEN active ELSE [active EXCEPT ![owner[w]] = tab]
    BY <2>3
  <2> HIDE DEF tab
  <2>8. active' \in [Terminal -> Tab]
    BY <2>6, <2>7 DEF WorldInv
  <2>9. budget' \in [{"changes", "faults", "commands"} -> Int]
    BY <2>3, SpentStaysTyped DEF WorldInv
  <2> QED
    BY <2>4, <2>8, <2>9 DEF WorldInv
<1>12. CASE FocusPane
  <2>1. /\ UNCHANGED <<owner, strip, active, budget>>
        /\ focus' = focus \/ \E k, v : focus' = [focus EXCEPT ![k] = v]
    BY <1>12, Zenon DEF FocusPane
  <2>2. focus' = [u \in Tab |-> focus'[u]]
    BY <2>1 DEF WorldInv
  <2> QED
    BY <2>1, <2>2 DEF WorldInv
<1> QED
  BY <1>3, <1>4, <1>5, <1>6, <1>7, <1>8, <1>9, <1>10, <1>11, <1>12
  DEF Next, ObserverPass, DesktopChanges, Pane, Worker

LEMMA SnapshotStep ==
  ASSUME WorldInv, SnapshotInv, [Next]_vars
  PROVE  SnapshotInv'
<1>1. CASE UNCHANGED snapshot
  BY <1>1 DEF SnapshotInv, PaneFits
<1>2. CASE ResolveForeground
  <2>1. IdentityOf(foreground) \in Identity \cup {None}
    BY DEF IdentityOf, Identity
  <2>2. snapshot' = snapshot \/ \E terminal \in Identity \cup {None} : Switched(terminal)
    BY <1>2, <2>1 DEF ResolveForeground
  <2>3. ASSUME NEW terminal \in Identity \cup {None}, Switched(terminal)
        PROVE  SnapshotInv'
    <3>1. snapshot'.terminal = terminal /\ snapshot'.panes = {}
      BY <2>3 DEF Switched
    <3> QED
      BY <2>3, <3>1, FS_EmptySet DEF SnapshotInv
  <2> QED
    BY <1>1, <2>2, <2>3
<1>3. CASE SkipGeometry
  <2>1. snapshot'.terminal = snapshot.terminal /\ snapshot'.panes = snapshot.panes
    BY <1>3 DEF SkipGeometry, Locked
  <2> QED
    BY <2>1 DEF SnapshotInv, PaneFits
<1>4. CASE RefreshGeometry
  <2>1. PICK panes \in SUBSET PanesIn(snapshot.terminal.hwnd) : Locked(panes)
    BY <1>4 DEF RefreshGeometry
  <2>2. snapshot'.terminal = snapshot.terminal /\ snapshot'.panes = panes
    BY <2>1 DEF Locked
  <2>3. snapshot.terminal.hwnd \in Window
    BY <1>4 DEF RefreshGeometry, SnapshotInv, Identity
  <2>4. IsFiniteSet(PanesIn(snapshot.terminal.hwnd)) /\ \A p \in PanesIn(snapshot.terminal.hwnd) : PaneFits(p)
    BY <2>3, PanesFit
  <2>5. IsFiniteSet(panes)
    BY <2>1, <2>4, FS_Subset
  <2> QED
    BY <2>1, <2>2, <2>4, <2>5 DEF SnapshotInv, PaneFits
<1> QED
  BY <1>1, <1>2, <1>3, <1>4
  DEF Next, ObserverPass, DesktopChanges, Pane, Worker, SkipTabs, RefreshTabs, Publish, ObserverOnly,
      SwitchTo, Recycle, Rearrange, ClickTab, ClickPane, WorldChanges, Redraw, Activate, Validate,
      SelectTab, FocusPane, vars, observer_vars

\* What the terminal answers, whatever is missing from it or unreadable in it.
LEMMA AnswersFit ==
  ASSUME WorldInv, NEW w \in Window, NEW missing \in 0..Len(Strip(w)), NEW unreadable, NEW shows,
         NEW whole \in BOOLEAN, whole => missing = 0,
         NEW elements, elements = Enumerated(Strip(w), missing), unreadable \in 0..Len(elements)
  PROVE  ListFits(TabInfos(elements, unreadable, shows),
                  [hwnd |-> w, process |-> owner[w], strip |-> Strip(w), whole |-> whole])
<1> DEFINE list == TabInfos(elements, unreadable, shows)
           from == [hwnd |-> w, process |-> owner[w], strip |-> Strip(w), whole |-> whole]
<1>1. Strip(w) \in Seq(Tab) /\ Len(Strip(w)) \in Nat
  BY StripIsOfTabs
<1>2. elements \in Seq(Tab)
  BY <1>1, WithoutIsShorter DEF Enumerated
<1>3. /\ list \in Seq(TabRow)
      /\ \A k \in 1..Len(list) : /\ list[k].index + 1 \in 1..Len(elements)
                                 /\ list[k].tab = elements[list[k].index + 1]
  BY <1>2, TabInfosAreRows
<1>4. whole => elements = Strip(w)
  BY DEF Enumerated, Without
<1>5. from.strip = Strip(w) /\ from.whole = whole
  OBVIOUS
<1> HIDE DEF list, from
<1>6. ListFits(list, from)
  BY <1>3, <1>4, <1>5 DEF ListFits
<1> QED
  BY <1>6 DEF list, from

LEMMA RefreshedListFits ==
  ASSUME WorldInv, SnapshotInv, RowsInv, RefreshTabs
  PROVE  ListFits(cache.list, cache.from)'
<1> DEFINE w == snapshot.terminal.hwnd
           shows == IF owner[w] \in Terminal THEN active[owner[w]] ELSE None
           Answer(missing, unreadable) == TabInfos(Enumerated(Strip(w), missing), unreadable, shows)
           From(whole) == [hwnd |-> w, process |-> owner[w], strip |-> Strip(w), whole |-> whole]
           Asked(list, failed, whole) ==
             cache' = [list |-> list, hwnd |-> w, failed |-> failed,
                       from |-> IF failed THEN cache.from ELSE From(whole)]
<1>1. w \in Window
  BY DEF RefreshTabs, SnapshotInv, Identity
<1>2. \/ Asked(Answer(0, 0), FALSE, TRUE)
      \/ Asked(cache.list, TRUE, FALSE)
      \/ \E i \in DOMAIN Strip(w) : Asked(Answer(i, 0), FALSE, FALSE) \/ Asked(Answer(0, i), FALSE, TRUE)
  BY Zenon DEF RefreshTabs
<1>3. Strip(w) \in Seq(Tab) /\ DOMAIN Strip(w) = 1..Len(Strip(w)) /\ Len(Strip(w)) \in Nat
  BY <1>1, StripIsOfTabs
<1>4. Asked(cache.list, TRUE, FALSE) => cache'.list = cache.list /\ cache'.from = cache.from
  OBVIOUS
<1>5. \A list, whole : Asked(list, FALSE, whole) => cache'.list = list /\ cache'.from = From(whole)
  OBVIOUS
<1> HIDE DEF Asked, From, shows, w
<1>6. ASSUME NEW missing \in 0..Len(Strip(w)), NEW unreadable, NEW whole \in BOOLEAN, whole => missing = 0,
             unreadable \in 0..Len(Enumerated(Strip(w), missing))
      PROVE  ListFits(Answer(missing, unreadable), From(whole))
  BY <1>1, <1>6, AnswersFit DEF From
<1>7. /\ Enumerated(Strip(w), 0) = Strip(w)
      /\ \A i \in DOMAIN Strip(w) : Len(Enumerated(Strip(w), i)) \in Nat
  <2>1. ASSUME NEW i \in DOMAIN Strip(w)
        PROVE  Len(Enumerated(Strip(w), i)) \in Nat
    <3>1. Enumerated(Strip(w), i) \in Seq(Tab)
      BY <1>3, WithoutIsShorter DEF Enumerated
    <3> QED
      BY <3>1
  <2> QED
    BY <2>1 DEF Enumerated, Without
<1>8. ASSUME NEW unreadable \in 0..Len(Strip(w))
      PROVE  ListFits(Answer(0, unreadable), From(TRUE))
  <2>1. 0 \in 0..Len(Strip(w)) /\ unreadable \in 0..Len(Enumerated(Strip(w), 0))
    BY <1>3, <1>7
  <2> QED
    BY <1>6, <2>1
<1>9. ASSUME NEW i \in DOMAIN Strip(w)
      PROVE  ListFits(Answer(i, 0), From(FALSE))
  <2>1. i \in 0..Len(Strip(w)) /\ 0 \in 0..Len(Enumerated(Strip(w), i))
    BY <1>3, <1>7
  <2> QED
    BY <1>6, <2>1
<1> HIDE DEF Answer
<1>10. \/ cache'.list = cache.list /\ cache'.from = cache.from
       \/ ListFits(cache'.list, cache'.from)
  <2>1. 0 \in 0..Len(Strip(w)) /\ \A i \in DOMAIN Strip(w) : i \in 0..Len(Strip(w))
    BY <1>3
  <2>2. ListFits(Answer(0, 0), From(TRUE))
    BY <1>8, <2>1
  <2>3. \A i \in DOMAIN Strip(w) : ListFits(Answer(i, 0), From(FALSE)) /\ ListFits(Answer(0, i), From(TRUE))
    BY <1>8, <1>9, <2>1
  <2> QED
    BY <1>2, <1>4, <1>5, <2>2, <2>3
<1> QED
  BY <1>10 DEF RowsInv, ListFits

LEMMA RowsStep ==
  ASSUME WorldInv, SnapshotInv, RowsInv, [Next]_vars
  PROVE  RowsInv'
<1>1. CASE UNCHANGED <<cache, shown, frame>>
  BY <1>1 DEF RowsInv, ListFits, StateFits, PaneFits
<1>2. CASE RefreshTabs
  <2>1. UNCHANGED <<shown, frame>>
    BY <1>2 DEF RefreshTabs, ObserverOnly, pane_vars
  <2>2. StateFits(shown)' /\ StateFits(frame)'
    BY <2>1 DEF RowsInv, ListFits, StateFits, PaneFits
  <2> QED
    BY <1>2, <2>2, RefreshedListFits DEF RowsInv
<1>3. CASE Publish
  <2>1. shown' = DashboardState /\ UNCHANGED <<cache, frame>>
    BY <1>3 DEF Publish
  <2>2. /\ DashboardState.tabs = cache.list /\ DashboardState.from = cache.from
        /\ DashboardState.panes = Listed(snapshot.panes)
    BY DEF DashboardState
  <2>3. /\ Len(Listed(snapshot.panes)) \in Nat
        /\ \A k \in 1..Len(Listed(snapshot.panes)) : PaneFits(Listed(snapshot.panes)[k])
    BY ListedArePanes DEF SnapshotInv
  <2>4. StateFits(DashboardState)
    BY <2>2, <2>3 DEF StateFits, RowsInv
  <2>5. StateFits(shown')
    BY <2>1, <2>4
  <2> QED
    BY <2>1, <2>5 DEF RowsInv, ListFits, StateFits, PaneFits
<1>4. CASE Redraw
  <2>1. frame' = shown /\ UNCHANGED <<cache, shown>>
    BY <1>4 DEF Redraw, observer_vars
  <2> QED
    BY <2>1 DEF RowsInv, ListFits, StateFits, PaneFits
<1>5. ASSUME NEW cursor, Activate(cursor)
      PROVE  RowsInv'
  <2>1. frame' = EmptyState /\ UNCHANGED <<cache, shown>>
    BY <1>5 DEF Activate, observer_vars
  <2>2. frame'.tabs = << >> /\ frame'.from = None /\ frame'.panes = << >>
    BY <2>1 DEF EmptyState
  <2>3. StateFits(frame')
    BY <2>2 DEF StateFits, ListFits
  <2> QED
    BY <2>1, <2>3 DEF RowsInv, ListFits, StateFits, PaneFits
<1> QED
  BY <1>1, <1>2, <1>3, <1>4, <1>5
  DEF Next, ObserverPass, DesktopChanges, Pane, Worker, ResolveForeground, SkipGeometry,
      RefreshGeometry, SkipTabs, ObserverOnly, SwitchTo, Recycle, Rearrange, ClickTab, ClickPane,
      WorldChanges, Validate, SelectTab, FocusPane, vars, observer_vars, pane_vars

LEMMA CommandStep ==
  ASSUME SnapshotInv, RowsInv, CommandInv, [Next]_vars
  PROVE  CommandInv'
<1>1. CASE UNCHANGED <<command, queue, worker>>
  BY <1>1 DEF CommandInv, Honest
<1>2. CASE Publish
  <2>1. /\ command' = None /\ UNCHANGED worker
        /\ \/ UNCHANGED queue
           \/ /\ command # None /\ snapshot.terminal # None
              /\ queue' = [target |-> snapshot.terminal, action |-> command.action, chosen |-> command.chosen]
    BY <1>2 DEF Publish, TakeCommand, Message
  <2>2. CASE UNCHANGED queue
    BY <2>1, <2>2 DEF CommandInv, Honest
  <2>3. CASE /\ command # None /\ snapshot.terminal # None
             /\ queue' = [target |-> snapshot.terminal, action |-> command.action, chosen |-> command.chosen]
    <3>1. queue'.target = snapshot.terminal /\ queue'.action = command.action /\ queue'.chosen = command.chosen
      BY <2>3
    <3>2. Honest(command) /\ snapshot.terminal \in Identity
      BY <2>3 DEF CommandInv, SnapshotInv
    <3>3. Honest(queue')
      BY <3>1, <3>2 DEF Honest
    <3> QED
      BY <2>1, <3>1, <3>2, <3>3 DEF CommandInv, Honest
  <2> QED
    BY <2>1, <2>2, <2>3
<1>3. ASSUME NEW cursor \in ToSet(Rows(frame)), Activate(cursor)
      PROVE  CommandInv'
  <2>1. /\ command' = [action |-> ActivationCommand(frame, cursor), chosen |-> Chosen(frame, cursor)]
        /\ UNCHANGED <<queue, worker>>
    BY <1>3 DEF Activate, worker_vars
  <2>2. Honest(command')
    BY <1>3, <2>1, ActivatedIsHonest DEF RowsInv
  <2> QED
    BY <2>1, <2>2 DEF CommandInv, Honest
<1>4. CASE Validate
  <2>1. /\ queue' = None /\ UNCHANGED command /\ queue # None
        /\ worker' = queue \/ UNCHANGED worker
    BY <1>4 DEF Validate, pane_vars
  <2> QED
    BY <2>1 DEF CommandInv, Honest
<1>5. CASE SelectTab \/ FocusPane
  <2>1. worker' = None /\ UNCHANGED <<command, queue>>
    BY <1>5 DEF SelectTab, FocusPane, pane_vars
  <2> QED
    BY <2>1 DEF CommandInv, Honest
<1> QED
  BY <1>1, <1>2, <1>3, <1>4, <1>5
  DEF Next, ObserverPass, DesktopChanges, Pane, Worker, ResolveForeground, SkipGeometry,
      RefreshGeometry, SkipTabs, RefreshTabs, ObserverOnly, SwitchTo, Recycle, Rearrange, ClickTab,
      ClickPane, WorldChanges, Redraw, vars, pane_vars, worker_vars

Honoured(w) ==
  w # None /\ worker' = None
  /\ w.chosen.from # None /\ w.chosen.from.whole /\ budget' = budget
  /\ w.target.process = owner[w.target.hwnd]
  => /\ w.action[1] = "SelectTab"
        /\ w.chosen.from.process = w.target.process
        /\ w.chosen.from.strip = strip[w.target.process]
        => active'[w.target.process] = w.chosen.tab
     /\ w.action[1] = "FocusPane" /\ active[w.target.process] = w.chosen.tab
        => focus'[w.chosen.tab] = w.chosen.rect

LEMMA SelectionIsHonoured ==
  ASSUME WorldInv, CommandInv, SelectTab
  PROVE  Honoured(worker)
<1> DEFINE hwnd == worker.target.hwnd
           process == worker.target.process
<1> SUFFICES ASSUME worker.chosen.from # None, worker.chosen.from.whole, budget' = budget,
                    process = owner[hwnd],
                    worker.chosen.from.strip = strip[process]
             PROVE  active'[process] = worker.chosen.tab
  BY DEF Honoured, SelectTab
<1>1. worker # None /\ worker.action[1] = "SelectTab" /\ hwnd \in Window /\ process \in Terminal
  BY DEF SelectTab, CommandInv, Identity
<1>2. /\ worker.action[2] + 1 \in 1..Len(strip[process])
      /\ worker.chosen.tab = strip[process][worker.action[2] + 1]
  BY <1>1 DEF CommandInv, Honest
<1>3. Strip(hwnd) = strip[process]
  BY <1>1 DEF Strip
<1>4. PICK missing :
        LET tab == NthTab(Enumerated(Strip(hwnd), missing), worker.action[2]) IN
        /\ active' = IF tab = None THEN active ELSE [active EXCEPT ![owner[hwnd]] = tab]
        /\ IF missing = 0 THEN UNCHANGED budget ELSE Spend("faults")
  BY DEF SelectTab
<1>5. missing = 0
  BY <1>4, SpentStaysTyped
<1>6. Enumerated(Strip(hwnd), missing) = strip[process]
  BY <1>3, <1>5 DEF Enumerated, Without
<1>7. strip[process] \in Seq(Tab) /\ active \in [Terminal -> Tab]
  BY <1>1 DEF WorldInv
<1>8. NthTab(strip[process], worker.action[2]) = worker.chosen.tab /\ worker.chosen.tab \in Tab
  BY <1>2, <1>7 DEF NthTab
<1>9. worker.chosen.tab # None
  BY <1>8, DesktopAssumption
<1>10. active' = [active EXCEPT ![process] = worker.chosen.tab]
  BY <1>4, <1>6, <1>8, <1>9
<1> QED
  BY <1>1, <1>7, <1>10

LEMMA FocusIsHonoured ==
  ASSUME WorldInv, CommandInv, FocusPane
  PROVE  Honoured(worker)
<1> DEFINE hwnd == worker.target.hwnd
           process == worker.target.process
           tab == worker.chosen.tab
           rect == worker.chosen.rect
           x == worker.action[2]
<1> SUFFICES ASSUME process = owner[hwnd], active[process] = tab
             PROVE  focus'[tab] = rect
  BY DEF Honoured, FocusPane
<1>1. worker # None /\ worker.action[1] = "FocusPane" /\ hwnd \in Window /\ process \in Terminal
  BY DEF FocusPane, CommandInv, Identity
<1>2. tab \in Tab /\ rect \in PanesOf[tab] /\ rect[1] <= x /\ x < rect[2] /\ x \in Nat
  BY <1>1 DEF CommandInv, Honest
<1> DEFINE panes == PanesIn(hwnd)
           pane(r) == [rect |-> r, focused |-> foreground = hwnd /\ focus[tab] = r, tab |-> tab,
                       hwnd |-> hwnd]
<1>3. panes = {pane(r) : r \in PanesOf[tab]}
  BY <1>1 DEF PanesIn
<1>4. /\ \A p \in panes : p.rect \in PanesOf[tab]
      /\ \E p \in panes : p.rect = rect
  <2>1. \A r \in PanesOf[tab] : pane(r).rect = r
    OBVIOUS
  <2> HIDE DEF pane, panes
  <2> QED
    BY <1>2, <1>3, <2>1
<1>5. focus' = IF PaneAt(panes, x) = None THEN focus ELSE [focus EXCEPT ![active[owner[hwnd]]] = PaneAt(panes, x)]
  BY DEF FocusPane
<1>6. focus = [t \in Tab |-> focus[t]]
  BY DEF WorldInv
<1> HIDE DEF panes, hwnd, process, tab, rect, x
<1>7. \A p \in panes : p.rect[1] <= x /\ x < p.rect[2] => p.rect = rect
  <2> SUFFICES ASSUME NEW p \in panes, p.rect[1] <= x, x < p.rect[2]
               PROVE  p.rect = rect
    OBVIOUS
  <2>1. p.rect \in PanesOf[tab]
    BY <1>4
  <2>2. p.rect = rect \/ p.rect[2] <= rect[1] \/ rect[2] <= p.rect[1]
    BY <1>2, <2>1, DesktopAssumption
  <2>3. p.rect \in Nat \X Nat /\ rect \in Nat \X Nat
    BY <1>2, <2>1, DesktopAssumption
  <2>4. p.rect[1] \in Nat /\ p.rect[2] \in Nat /\ rect[1] \in Nat /\ rect[2] \in Nat
    BY <2>3
  <2> QED
    BY <1>2, <2>2, <2>4
<1>8. PaneAt(panes, x) = rect
  <2>1. \E p \in panes : p.rect[1] <= x /\ x < p.rect[2]
    BY <1>2, <1>4
  <2> QED
    BY <1>7, <2>1 DEF PaneAt
<1>9. rect # None
  BY <1>2, DesktopAssumption
<1>10. focus' = [focus EXCEPT ![tab] = rect]
  BY <1>5, <1>8, <1>9
<1> QED
  BY <1>2, <1>6, <1>10

LEMMA StepIsHonoured ==
  ASSUME WorldInv, CommandInv, [Next]_vars
  PROVE  Honoured(worker)
<1>1. worker = None \/ worker' # None \/ SelectTab \/ FocusPane
  BY DEF Next, ObserverPass, DesktopChanges, Pane, Worker, ResolveForeground, SkipGeometry,
      RefreshGeometry, SkipTabs, RefreshTabs, Publish, ObserverOnly, SwitchTo, Recycle, Rearrange, ClickTab,
      ClickPane, WorldChanges, Redraw, Activate, Validate, vars, worker_vars
<1>2. CASE worker = None \/ worker' # None
  BY <1>2 DEF Honoured
<1> QED
  BY <1>1, <1>2, SelectionIsHonoured, FocusIsHonoured

\* What Enter does is what the highlighted row says, for every set of windows,
\* terminals, tabs and panes, and however late the command is carried out.
THEOREM SpecChoiceIsHonoured == Spec => ChoiceIsHonoured
<1>1. Init => ChoiceInv
  <2> SUFFICES ASSUME Init
               PROVE  SnapshotInv /\ RowsInv /\ CommandInv
    BY WorldInit DEF ChoiceInv
  <2>1. SnapshotInv
    BY FS_EmptySet DEF Init, SnapshotInv
  <2>2. /\ cache.list = << >> /\ cache.from = None
        /\ shown.tabs = << >> /\ shown.from = None /\ shown.panes = << >>
        /\ frame.tabs = << >> /\ frame.from = None /\ frame.panes = << >>
    BY DEF Init, EmptyState
  <2>3. ListFits(<< >>, None)
    BY DEF ListFits
  <2>4. RowsInv
    BY <2>2, <2>3 DEF RowsInv, StateFits
  <2> QED
    BY <2>1, <2>4 DEF Init, CommandInv
<1>2. ChoiceInv /\ [Next]_vars => ChoiceInv'
  BY WorldStep, SnapshotStep, RowsStep, CommandStep DEF ChoiceInv
<1>3. ChoiceInv /\ [Next]_vars => Honoured(worker)
  BY StepIsHonoured DEF ChoiceInv
<1>4. ChoiceInv /\ [Next]_vars => [\A w \in {worker} : Honoured(w)]_vars
  BY <1>3
<1>5. Spec => [][\A w \in {worker} : Honoured(w)]_vars
  BY <1>1, <1>2, <1>4, PTL DEF Spec
<1> QED
  BY <1>5 DEF ChoiceIsHonoured, Honoured

-----------------------------------------------------------------------------
(***************************************************************************)
(* The pane tree of Windows Terminal.                                      *)
(***************************************************************************)

\* Every node above a pane is a splitter.
IsTree ==
  /\ DOMAIN splits \subseteq DOMAIN area /\ focused \in Leaves
  /\ \A q \in DOMAIN area : q \in Seq({1, 2})
  /\ \A q \in DOMAIN area : \A n \in 0..Len(q) : n < Len(q) => SubSeq(q, 1, n) \in DOMAIN splits

AreasFit ==
  \A q \in DOMAIN area :
    /\ area[q] \in Rectangle
    /\ \A a \in Axis : 0 <= area[q][a].lo /\ area[q][a].lo < area[q][a].hi /\ area[q][a].hi <= Extent

SplitsFit ==
  \A p \in DOMAIN splits :
    /\ splits[p].axis \in Axis /\ splits[p].at \in Nat
    /\ area[p][splits[p].axis].lo < splits[p].at
    /\ splits[p].at + Border < area[p][splits[p].axis].hi

Inner(inner, outer) == \A a \in Axis : outer[a].lo <= inner[a].lo /\ inner[a].hi <= outer[a].hi

\* Along an axis a pane ends, on one side, at the nearest splitter above it on that axis.
PanesEndAtSplits ==
  \A q \in Leaves, a \in Axis :
    /\ Above(q, a) = {} => area[q][a].lo = 0 /\ area[q][a].hi = Extent
    /\ \A p \in Nearest(Above(q, a)) :
         /\ Inner(area[q], area[p])
         /\ area[q][a].hi = splits[p].at \/ area[q][a].lo = splits[p].at + Border

\* Two panes are neighbours across a border, or too far apart to be taken for such.
Gap(i, j) == j.lo - i.hi = Border \/ j.lo - i.hi > MaxDividerGap
Apart(r, s) == \E a \in Axis : Gap(r[a], s[a]) \/ Gap(s[a], r[a])

PanesApart == \A p, q \in Leaves : p # q => Apart(area[p], area[q])

PanesReachEdges ==
  \A a \in Axis : /\ \E q \in Leaves : area[q][a].lo = 0
                  /\ \E q \in Leaves : area[q][a].hi = Extent

TreeInv == IsTree /\ AreasFit /\ SplitsFit /\ PanesEndAtSplits /\ PanesApart /\ PanesReachEdges

\* The two halves of a pane split along an axis.
Halves(rect, axis, at, first, second) ==
  /\ first \in Rectangle /\ second \in Rectangle
  /\ \A a \in Axis \ {axis} : first[a] = rect[a] /\ second[a] = rect[a]
  /\ first[axis].lo = rect[axis].lo /\ first[axis].hi = at
  /\ second[axis].lo = at + Border /\ second[axis].hi = rect[axis].hi

LEMMA SplitRectangle ==
  ASSUME NEW rect \in Rectangle, NEW axis \in Axis, NEW at \in SplitPoint
  PROVE  Halves(rect, axis, at, [rect EXCEPT ![axis].hi = at], [rect EXCEPT ![axis].lo = at + Border])
BY ResizeAssumption DEF Halves, Rectangle, Interval

\* A path and the two that lead one step further.
LEMMA Children ==
  ASSUME NEW f \in Seq({1, 2}), NEW i \in {1, 2}
  PROVE  /\ f \o <<i>> \in Seq({1, 2})
         /\ Len(f \o <<i>>) = Len(f) + 1
         /\ f \o <<i>> # f
         /\ \A n \in 0..Len(f) : SubSeq(f \o <<i>>, 1, n) = SubSeq(f, 1, n)
         /\ SubSeq(f \o <<i>>, 1, Len(f)) = f
         /\ (f \o <<i>>)[Len(f) + 1] = i
<1> DEFINE c == f \o <<i>>
<1>1. c \in Seq({1, 2}) /\ Len(c) = Len(f) + 1 /\ c[Len(f) + 1] = i
  BY ConcatProperties
<1>2. \A n \in 0..Len(f) : SubSeq(c, 1, n) = SubSeq(f, 1, n)
  <2> SUFFICES ASSUME NEW n \in 0..Len(f)
               PROVE  SubSeq(c, 1, n) = SubSeq(f, 1, n)
    OBVIOUS
  <2>1. CASE n = 0
    BY <2>1, SubSeqEmpty
  <2>2. CASE n # 0
    BY <2>2, SubSeqOfConcat1
  <2> QED
    BY <2>1, <2>2
<1>3. SubSeq(f, 1, Len(f)) = f
  BY SubSeqFull
<1>4. Len(f) \in Nat
  OBVIOUS
<1> HIDE DEF c
<1>5. c # f
  BY <1>1, <1>4
<1>6. SubSeq(c, 1, Len(f)) = f
  BY <1>2, <1>3, <1>4
<1> QED
  BY <1>1, <1>2, <1>5, <1>6 DEF c

\* What a split does to the tree.
Split(f, axis, at, c1, c2) ==
  /\ f \in Leaves /\ focused' = c2 /\ c1 # c2
  /\ DOMAIN area' = DOMAIN area \cup {c1, c2}
  /\ DOMAIN splits' = DOMAIN splits \cup {f}
  /\ c1 \notin DOMAIN area /\ c2 \notin DOMAIN area
  /\ \A q \in DOMAIN area : area'[q] = area[q]
  /\ \A p \in DOMAIN splits : splits'[p] = splits[p]
  /\ splits'[f].axis = axis /\ splits'[f].at = at
  /\ Halves(area[f], axis, at, area'[c1], area'[c2])
  /\ area[f][axis].lo + MinPane <= at /\ at + Border + MinPane <= area[f][axis].hi

SplitInTwo(f, axis, at) == Split(f, axis, at, f \o <<1>>, f \o <<2>>)

LEMMA SplitIsSplit ==
  ASSUME IsTree, AreasFit, NEW f, f = focused, NEW axis \in Axis, NEW at \in SplitPoint, SplitPane(axis, at)
  PROVE  SplitInTwo(f, axis, at)
<1> DEFINE c1 == f \o <<1>>
           c2 == f \o <<2>>
<1>1. f \in Leaves /\ f \in DOMAIN area /\ f \in Seq({1, 2}) /\ Len(f) \in Nat
  BY DEF IsTree, Leaves
<1>2. /\ Len(c1) = Len(f) + 1 /\ SubSeq(c1, 1, Len(f)) = f /\ c1[Len(f) + 1] = 1
      /\ Len(c2) = Len(f) + 1 /\ SubSeq(c2, 1, Len(f)) = f /\ c2[Len(f) + 1] = 2
  BY <1>1, Children
<1>3. /\ splits' = [p \in DOMAIN splits \cup {f} |->
                      IF p = f THEN [axis |-> axis, at |-> at] ELSE splits[p]]
      /\ area' = [p \in DOMAIN area \cup {c1, c2} |->
                    CASE p = c1  -> [area[f] EXCEPT ![axis].hi = at]
                      [] p = c2 -> [area[f] EXCEPT ![axis].lo = at + Border]
                      [] OTHER      -> area[p]]
      /\ focused' = c2
      /\ area[f][axis].lo + MinPane <= at /\ at + Border + MinPane <= area[f][axis].hi
  BY DEF SplitPane
<1> HIDE DEF c1, c2
<1>4. c1 # c2
  BY <1>2
<1>5. ASSUME NEW c \in {c1, c2}, c \in DOMAIN area
      PROVE  FALSE
  <2>1. SubSeq(c, 1, Len(f)) = f /\ Len(f) \in 0..Len(c) /\ Len(f) < Len(c)
    BY <1>1, <1>2
  <2>2. f \in DOMAIN splits
    BY <1>5, <2>1 DEF IsTree
  <2> QED
    BY <1>1, <2>2 DEF Leaves
<1>6. area[f] \in Rectangle
  BY <1>1 DEF AreasFit
<1>7. Halves(area[f], axis, at, [area[f] EXCEPT ![axis].hi = at],
             [area[f] EXCEPT ![axis].lo = at + Border])
  BY <1>6, SplitRectangle
<1>8. Halves(area[f], axis, at, area'[c1], area'[c2])
  BY <1>3, <1>4, <1>7
<1>9. \A q \in DOMAIN area : area'[q] = area[q]
  BY <1>3, <1>5
<1>10. \A p \in DOMAIN splits : splits'[p] = splits[p]
  BY <1>1, <1>3 DEF Leaves
<1>11. DOMAIN area' = DOMAIN area \cup {c1, c2} /\ DOMAIN splits' = DOMAIN splits \cup {f}
  BY <1>3
<1>12. splits'[f].axis = axis /\ splits'[f].at = at
  BY <1>3
<1> QED
  BY <1>1, <1>3, <1>4, <1>5, <1>8, <1>9, <1>10, <1>11, <1>12 DEF SplitInTwo, Split, c1, c2

\* What is above the panes after a split: for the others what was, for the halves what
\* was above the pane, and the new splitter.
LEMMA AboveAfterSplit ==
  ASSUME IsTree, NEW f, f = focused, NEW axis \in Axis, NEW at,
         SplitInTwo(f, axis, at)
  PROVE  /\ Leaves' = (Leaves \ {f}) \cup {f \o <<1>>, f \o <<2>>}
         /\ \A q \in Leaves \ {f}, a \in Axis : Above(q, a)' = Above(q, a)
         /\ \A i \in {1, 2}, a \in Axis :
              Above(f \o <<i>>, a)' = Above(f, a) \cup IF a = axis THEN {f} ELSE {}
<1> DEFINE c1 == f \o <<1>>
           c2 == f \o <<2>>
<1>1. f \in Leaves /\ f \in DOMAIN area /\ f \in Seq({1, 2}) /\ Len(f) \in Nat
  BY DEF IsTree, Leaves
<1>2. Split(f, axis, at, c1, c2)
  BY DEF SplitInTwo
<1>3. Leaves' = (Leaves \ {f}) \cup {c1, c2}
  <2> HIDE DEF c1, c2
  <2>1. c1 \notin DOMAIN splits /\ c2 \notin DOMAIN splits /\ c1 # f /\ c2 # f
    BY <1>1, <1>2 DEF Split, IsTree
  <2> QED
    BY <1>1, <1>2, <2>1 DEF Split, Leaves
<1>4. ASSUME NEW q \in Leaves \ {f}, NEW a \in Axis
      PROVE  Above(q, a)' = Above(q, a)
  <2>1. q \in DOMAIN area /\ q \in Seq({1, 2}) /\ Len(q) \in Nat
    BY <1>4 DEF IsTree, Leaves
  <2>2. ~(Len(f) < Len(q) /\ SubSeq(q, 1, Len(f)) = f)
    <3> SUFFICES ASSUME Len(f) < Len(q), SubSeq(q, 1, Len(f)) = f
                 PROVE  FALSE
      OBVIOUS
    <3>1. Len(f) \in 0..Len(q)
      BY <1>1, <2>1
    <3>2. SubSeq(q, 1, Len(f)) \in DOMAIN splits
      BY <2>1, <3>1 DEF IsTree
    <3> QED
      BY <1>1, <3>2 DEF Leaves
  <2> HIDE DEF c1, c2
  <2> QED
    BY <1>2, <2>2 DEF Above, Split
<1>5. ASSUME NEW i \in {1, 2}, NEW a \in Axis
      PROVE  Above(f \o <<i>>, a)' = Above(f, a) \cup IF a = axis THEN {f} ELSE {}
  <2> DEFINE c == f \o <<i>>
  <2>1. /\ Len(c) = Len(f) + 1
        /\ \A n \in 0..Len(f) : SubSeq(c, 1, n) = SubSeq(f, 1, n)
        /\ SubSeq(c, 1, Len(f)) = f
    BY <1>1, Children
  <2>2. \A p \in DOMAIN splits : Len(p) \in Nat
    BY DEF IsTree
  <2>3. Above(c, a)'
          = {p \in DOMAIN splits' : Len(p) < Len(c) /\ SubSeq(c, 1, Len(p)) = p /\ splits'[p].axis = a}
    BY DEF Above
  <2>4. c1 = c \/ c2 = c
    OBVIOUS
  <2>5. DOMAIN splits' = DOMAIN splits \cup {f} /\ splits'[f].axis = axis
        /\ \A p \in DOMAIN splits : splits'[p] = splits[p]
    BY <1>2 DEF Split
  <2> HIDE DEF c, c1, c2
  <2>6. ASSUME NEW p \in DOMAIN splits
        PROVE  p \in Above(c, a)' <=> p \in Above(f, a)
    <3>1. Len(p) \in Nat
      BY <2>2
    <3>2. p = f => FALSE
      BY <1>1 DEF Leaves
    <3>3. CASE Len(p) <= Len(f)
      <4>1. SubSeq(c, 1, Len(p)) = SubSeq(f, 1, Len(p))
        BY <1>1, <2>1, <3>1, <3>3
      <4>2. Len(p) = Len(f) => SubSeq(f, 1, Len(p)) = f
        BY <1>1, SubSeqFull
      <4> QED
        BY <1>1, <2>1, <2>3, <2>5, <3>1, <3>2, <3>3, <4>1, <4>2 DEF Above
    <3>4. CASE Len(p) > Len(f)
      BY <1>1, <2>1, <2>3, <3>1, <3>4 DEF Above
    <3> QED
      BY <1>1, <3>1, <3>3, <3>4
  <2>7. f \in Above(c, a)' <=> a = axis
    BY <1>1, <2>1, <2>3, <2>5
  <2>8. Above(f, a) \subseteq DOMAIN splits /\ Above(c, a)' \subseteq DOMAIN splits \cup {f}
    BY <2>3, <2>5 DEF Above
  <2>9. f \notin DOMAIN splits
    BY <1>1 DEF Leaves
  <2> QED
    BY <2>6, <2>7, <2>8, <2>9 DEF c
<1> QED
  BY <1>3, <1>4, <1>5

LEMMA IsTreeAfterSplit ==
  ASSUME IsTree, NEW f, f = focused, NEW axis \in Axis, NEW at,
         SplitInTwo(f, axis, at)
  PROVE  IsTree'
<1>1. f \in Leaves /\ f \in DOMAIN area /\ f \in Seq({1, 2}) /\ Len(f) \in Nat
  BY DEF IsTree, Leaves
<1>2. DOMAIN area' = DOMAIN area \cup {f \o <<1>>, f \o <<2>>} /\ DOMAIN splits' = DOMAIN splits \cup {f}
  BY DEF SplitInTwo, Split
<1>3. ASSUME NEW i \in {1, 2}, NEW n \in 0..Len(f \o <<i>>), n < Len(f \o <<i>>)
      PROVE  f \o <<i>> \in Seq({1, 2}) /\ SubSeq(f \o <<i>>, 1, n) \in DOMAIN splits'
  <2> DEFINE c == f \o <<i>>
  <2>1. /\ c \in Seq({1, 2}) /\ Len(c) = Len(f) + 1
        /\ \A k \in 0..Len(f) : SubSeq(c, 1, k) = SubSeq(f, 1, k)
        /\ SubSeq(c, 1, Len(f)) = f
    BY <1>1, Children
  <2>0. n \in 0..Len(c) /\ n < Len(c)
    BY <1>3
  <2> HIDE DEF c
  <2>2. CASE n < Len(f)
    <3>1. n \in 0..Len(f) /\ SubSeq(c, 1, n) = SubSeq(f, 1, n)
      BY <1>1, <2>0, <2>1, <2>2
    <3>2. SubSeq(f, 1, n) \in DOMAIN splits
      BY <1>1, <2>2, <3>1 DEF IsTree
    <3> QED
      BY <1>2, <2>1, <3>1, <3>2 DEF c
  <2>3. CASE ~(n < Len(f))
    <3>1. n = Len(f)
      <4>1. n \in Nat /\ Len(f) \in Nat /\ n < Len(f) + 1
        BY <1>1, <2>0, <2>1
      <4> QED
        BY <2>3, <4>1
    <3> QED
      BY <1>2, <2>1, <3>1 DEF c
  <2> QED
    BY <2>2, <2>3
<1>4. ASSUME NEW q \in DOMAIN area'
      PROVE  /\ q \in Seq({1, 2})
             /\ \A n \in 0..Len(q) : n < Len(q) => SubSeq(q, 1, n) \in DOMAIN splits'
  <2>1. CASE q \in DOMAIN area
    BY <1>2, <2>1 DEF IsTree
  <2>2. CASE q = f \o <<1>>
    <3>1. q \in Seq({1, 2}) /\ \A n \in 0..Len(q) : n < Len(q) => SubSeq(q, 1, n) \in DOMAIN splits'
      BY <1>1, <1>3, <2>2, Children
    <3> QED
      BY <3>1
  <2>3. CASE q = f \o <<2>>
    <3>1. q \in Seq({1, 2}) /\ \A n \in 0..Len(q) : n < Len(q) => SubSeq(q, 1, n) \in DOMAIN splits'
      BY <1>1, <1>3, <2>3, Children
    <3> QED
      BY <3>1
  <2> QED
    BY <1>2, <1>4, <2>1, <2>2, <2>3
<1>5. focused' \in Leaves'
  BY AboveAfterSplit DEF SplitInTwo, Split
<1>6. DOMAIN splits' \subseteq DOMAIN area'
  BY <1>1, <1>2 DEF IsTree
<1> QED
  BY <1>4, <1>5, <1>6 DEF IsTree

LEMMA FitAfterSplit ==
  ASSUME TreeInv, NEW f, f = focused, NEW axis \in Axis, NEW at \in SplitPoint,
         SplitInTwo(f, axis, at)
  PROVE  AreasFit' /\ SplitsFit' /\ \A q \in {f \o <<1>>, f \o <<2>>} : Inner(area'[q], area[f])
<1> DEFINE c1 == f \o <<1>>
           c2 == f \o <<2>>
<1>1. f \in DOMAIN area /\ f \notin DOMAIN splits /\ DOMAIN splits \subseteq DOMAIN area
  BY DEF TreeInv, IsTree, Leaves
<1>2. Split(f, axis, at, c1, c2)
  BY DEF SplitInTwo
<1> HIDE DEF c1, c2
<1>3. /\ area[f] \in Rectangle
      /\ \A a \in Axis : /\ area[f][a].lo \in Int /\ area[f][a].hi \in Int
                         /\ 0 <= area[f][a].lo /\ area[f][a].lo < area[f][a].hi /\ area[f][a].hi <= Extent
  BY <1>1 DEF TreeInv, AreasFit, Rectangle, Interval
<1>4. /\ at \in Nat /\ Border \in Nat /\ MinPane \in Nat /\ MinPane > 0 /\ MaxDividerGap \in Nat /\ Extent \in Nat
  BY ResizeAssumption, LayoutAssumption
<1>5. Halves(area[f], axis, at, area'[c1], area'[c2])
      /\ area[f][axis].lo + MinPane <= at /\ at + Border + MinPane <= area[f][axis].hi
  BY <1>2 DEF Split
<1>6. ASSUME NEW q \in {c1, c2}
      PROVE  /\ area'[q] \in Rectangle
             /\ Inner(area'[q], area[f])
             /\ \A a \in Axis : 0 <= area'[q][a].lo /\ area'[q][a].lo < area'[q][a].hi /\ area'[q][a].hi <= Extent
  <2>1. area'[q] \in Rectangle
    BY <1>5 DEF Halves
  <2>2. ASSUME NEW a \in Axis
        PROVE  /\ area[f][a].lo <= area'[q][a].lo /\ area'[q][a].hi <= area[f][a].hi
               /\ 0 <= area'[q][a].lo /\ area'[q][a].lo < area'[q][a].hi /\ area'[q][a].hi <= Extent
    <3>1. CASE a # axis
      <4>1. area'[q][a] = area[f][a]
        BY <1>5, <3>1 DEF Halves
      <4> QED
        BY <1>3, <4>1
    <3>2. CASE a = axis
      BY <1>3, <1>4, <1>5, <3>2 DEF Halves
    <3> QED
      BY <3>1, <3>2
  <2> QED
    BY <2>1, <2>2 DEF Inner
<1>7. AreasFit'
  <2>1. DOMAIN area' = DOMAIN area \cup {c1, c2} /\ \A q \in DOMAIN area : area'[q] = area[q]
    BY <1>2 DEF Split
  <2> QED
    BY <1>6, <2>1 DEF TreeInv, AreasFit
<1>8. SplitsFit'
  <2>1. /\ DOMAIN splits' = DOMAIN splits \cup {f}
        /\ \A p \in DOMAIN splits : splits'[p] = splits[p] /\ area'[p] = area[p]
        /\ area'[f] = area[f] /\ splits'[f].axis = axis /\ splits'[f].at = at
    BY <1>1, <1>2 DEF Split
  <2>2. area[f][axis].lo < at /\ at + Border < area[f][axis].hi
    BY <1>3, <1>4, <1>5
  <2> QED
    BY <1>4, <2>1, <2>2 DEF TreeInv, SplitsFit
<1> QED
  BY <1>6, <1>7, <1>8 DEF c1, c2

LEMMA EndsAfterSplit ==
  ASSUME TreeInv, NEW f, f = focused, NEW axis \in Axis, NEW at \in SplitPoint,
         SplitInTwo(f, axis, at)
  PROVE  PanesEndAtSplits'
<1> DEFINE Ends(q, a) ==
             /\ Above(q, a) = {} => area[q][a].lo = 0 /\ area[q][a].hi = Extent
             /\ \A p \in Nearest(Above(q, a)) :
                  /\ Inner(area[q], area[p])
                  /\ area[q][a].hi = splits[p].at \/ area[q][a].lo = splits[p].at + Border
<1>1. /\ f \in Leaves /\ f \in DOMAIN area /\ f \notin DOMAIN splits /\ DOMAIN splits \subseteq DOMAIN area
      /\ \A p \in DOMAIN splits : Len(p) \in Nat
      /\ Len(f) \in Nat
  BY DEF TreeInv, IsTree, Leaves
<1>2. /\ \A p \in DOMAIN area : area'[p] = area[p]
      /\ \A p \in DOMAIN splits : splits'[p] = splits[p]
      /\ splits'[f].axis = axis /\ splits'[f].at = at
  BY DEF SplitInTwo, Split
<1>3. /\ Leaves' = (Leaves \ {f}) \cup {f \o <<1>>, f \o <<2>>}
      /\ \A q \in Leaves \ {f}, a \in Axis : Above(q, a)' = Above(q, a)
      /\ \A i \in {1, 2}, a \in Axis :
           Above(f \o <<i>>, a)' = Above(f, a) \cup IF a = axis THEN {f} ELSE {}
  BY AboveAfterSplit DEF TreeInv
<1>4. \A q, a : Above(q, a) \subseteq DOMAIN splits /\ Nearest(Above(q, a)) \subseteq Above(q, a)
  BY DEF Above, Nearest
<1>5. ASSUME NEW q \in Leaves \ {f}, NEW a \in Axis
      PROVE  Ends(q, a)'
  <2>1. Above(q, a)' = Above(q, a) /\ area'[q] = area[q]
    BY <1>2, <1>3 DEF Leaves
  <2>2. \A p \in Nearest(Above(q, a)) : splits'[p] = splits[p] /\ area'[p] = area[p]
    BY <1>1, <1>2, <1>4
  <2>3. Ends(q, a)
    BY DEF TreeInv, PanesEndAtSplits
  <2>4. Nearest(Above(q, a))' = Nearest(Above(q, a))
    BY <2>1 DEF Nearest
  <2> QED
    BY <2>1, <2>2, <2>3, <2>4 DEF Inner
<1>6. ASSUME NEW i \in {1, 2}, NEW a \in Axis, NEW c, c = f \o <<i>>
      PROVE  Ends(c, a)'
  <2>1. Above(c, a)' = Above(f, a) \cup IF a = axis THEN {f} ELSE {}
    BY <1>3, <1>6
  <2>2. Inner(area'[c], area[f]) /\ area'[f] = area[f]
    BY <1>1, <1>2, <1>6, FitAfterSplit
  <2>3. Halves(area[f], axis, at, area'[f \o <<1>>], area'[f \o <<2>>])
    BY DEF SplitInTwo, Split
  <2>4. CASE a = axis
    <3>1. ASSUME NEW p \in Nearest(Above(c, a)')
          PROVE  p = f
      <4>1. f \in Above(c, a)' /\ p \in Above(f, a) \cup {f} /\ Len(f) <= Len(p)
        BY <2>1, <2>4, <3>1 DEF Nearest
      <4>2. p \in Above(f, a) => Len(p) < Len(f) /\ Len(p) \in Nat
        BY <1>1 DEF Above
      <4> QED
        BY <1>1, <4>1, <4>2
    <3>2. area'[c][a].hi = at \/ area'[c][a].lo = at + Border
      BY <1>6, <2>3, <2>4 DEF Halves
    <3>3. Above(c, a)' # {}
      BY <2>1, <2>4
    <3>4. Nearest(Above(c, a))' = Nearest(Above(c, a)')
      BY DEF Nearest
    <3> QED
      BY <1>2, <2>2, <3>1, <3>2, <3>3, <3>4 DEF Inner
  <2>5. CASE a # axis
    <3>1. Above(c, a)' = Above(f, a)
      BY <2>1, <2>5
    <3>2. area'[c][a] = area[f][a]
      BY <1>6, <2>3, <2>5 DEF Halves
    <3>3. Ends(f, a)
      BY <1>1 DEF TreeInv, PanesEndAtSplits
    <3>4. Nearest(Above(c, a))' = Nearest(Above(f, a))
      BY <3>1 DEF Nearest
    <3>5. ASSUME NEW p \in Nearest(Above(f, a))
          PROVE  /\ splits'[p] = splits[p] /\ area'[p] = area[p]
                 /\ Inner(area'[c], area[p])
      <4>1. p \in DOMAIN splits /\ p \in DOMAIN area
        BY <1>1, <1>4, <3>5
      <4>2. Inner(area[f], area[p])
        BY <3>3, <3>5
      <4>3. \A b \in Axis : /\ area[f][b].lo \in Int /\ area[f][b].hi \in Int
                            /\ area[p][b].lo \in Int /\ area[p][b].hi \in Int
                            /\ area'[c][b].lo \in Int /\ area'[c][b].hi \in Int
        <5>1. area'[c] \in Rectangle
          BY <1>6, <2>3 DEF Halves
        <5> QED
          BY <1>1, <4>1, <5>1 DEF TreeInv, AreasFit, Rectangle, Interval
      <4> QED
        BY <1>2, <2>2, <4>1, <4>2, <4>3 DEF Inner
    <3> QED
      BY <3>1, <3>2, <3>3, <3>4, <3>5 DEF Inner
  <2> QED
    BY <2>4, <2>5
<1>7. ASSUME NEW q \in Leaves', NEW a \in Axis
      PROVE  Ends(q, a)'
  <2>1. CASE q \in Leaves \ {f}
    BY <1>5, <2>1
  <2>2. CASE q = f \o <<1>>
    BY <1>6, <2>2
  <2>3. CASE q = f \o <<2>>
    BY <1>6, <2>3
  <2> QED
    BY <1>3, <2>1, <2>2, <2>3
<1> QED
  BY <1>7 DEF PanesEndAtSplits

LEMMA ApartAfterSplit ==
  ASSUME TreeInv, NEW f, f = focused, NEW axis \in Axis, NEW at \in SplitPoint,
         SplitInTwo(f, axis, at)
  PROVE  PanesApart'
<1>1. /\ f \in Leaves /\ Leaves \subseteq DOMAIN area
      /\ \A p \in DOMAIN area : area'[p] = area[p]
      /\ Halves(area[f], axis, at, area'[f \o <<1>>], area'[f \o <<2>>])
      /\ area[f][axis].lo + MinPane <= at /\ at + Border + MinPane <= area[f][axis].hi
  BY DEF SplitInTwo, Split, Leaves
<1>2. Leaves' = (Leaves \ {f}) \cup {f \o <<1>>, f \o <<2>>}
  BY AboveAfterSplit DEF TreeInv
<1>3. /\ at \in Nat /\ Border \in Nat /\ MinPane \in Nat /\ MinPane > MaxDividerGap
      /\ MaxDividerGap \in Nat
  BY ResizeAssumption, LayoutAssumption
<1>4. \A p \in Leaves, a \in Axis : area[p][a].lo \in Int /\ area[p][a].hi \in Int
  BY <1>1 DEF TreeInv, AreasFit, Rectangle, Interval
<1>5. \A r, s : Apart(r, s) <=> Apart(s, r)
  BY DEF Apart
<1>6. Apart(area'[f \o <<1>>], area'[f \o <<2>>])
  <2>1. Gap(area'[f \o <<1>>][axis], area'[f \o <<2>>][axis])
    BY <1>1, <1>3 DEF Gap, Halves
  <2> QED
    BY <2>1 DEF Apart
<1>7. ASSUME NEW q \in Leaves \ {f}, NEW i \in {1, 2}, NEW c, c = f \o <<i>>
      PROVE  Apart(area'[q], area'[c])
  <2>1. Apart(area[q], area[f])
    BY <1>1, <1>7 DEF TreeInv, PanesApart
  <2>2. PICK a \in Axis : Gap(area[q][a], area[f][a]) \/ Gap(area[f][a], area[q][a])
    BY <2>1 DEF Apart
  <2>3. area'[q] = area[q]
    BY <1>1, <1>7
  <2>4. CASE a # axis
    <3>1. area'[c][a] = area[f][a]
      BY <1>1, <1>7, <2>4 DEF Halves
    <3> QED
      BY <2>2, <2>3, <3>1 DEF Apart
  <2>5. CASE a = axis
    <3>1. \/ area'[c][a].lo = area[f][a].lo /\ area'[c][a].hi = at
          \/ area'[c][a].lo = at + Border /\ area'[c][a].hi = area[f][a].hi
      BY <1>1, <1>7, <2>5 DEF Halves
    <3>2. /\ area[q][a].lo \in Int /\ area[q][a].hi \in Int
          /\ area[f][a].lo \in Int /\ area[f][a].hi \in Int
      BY <1>1, <1>4, <1>7
    <3>3. CASE Gap(area[q][a], area[f][a])
      <4>1. Gap(area[q][a], area'[c][a])
        BY <1>1, <1>3, <2>5, <3>1, <3>2, <3>3 DEF Gap
      <4> QED
        BY <2>3, <4>1 DEF Apart
    <3>4. CASE Gap(area[f][a], area[q][a])
      <4>1. Gap(area'[c][a], area[q][a])
        BY <1>1, <1>3, <2>5, <3>1, <3>2, <3>4 DEF Gap
      <4> QED
        BY <2>3, <4>1 DEF Apart
    <3> QED
      BY <2>2, <3>3, <3>4
  <2> QED
    BY <2>4, <2>5
<1>8. ASSUME NEW p \in Leaves \ {f}, NEW q \in Leaves \ {f}, p # q
      PROVE  Apart(area'[p], area'[q])
  <2>1. Apart(area[p], area[q]) /\ area'[p] = area[p] /\ area'[q] = area[q]
    BY <1>1, <1>8 DEF TreeInv, PanesApart
  <2> QED
    BY <2>1
<1>9. ASSUME NEW p \in Leaves', NEW q \in Leaves', p # q
      PROVE  Apart(area'[p], area'[q])
  <2>1. CASE p \in Leaves \ {f} /\ q \in Leaves \ {f}
    BY <1>8, <1>9, <2>1
  <2>2. CASE p \in Leaves \ {f} /\ q \in {f \o <<1>>, f \o <<2>>}
    BY <1>7, <2>2
  <2>3. CASE p \in {f \o <<1>>, f \o <<2>>} /\ q \in Leaves \ {f}
    BY <1>5, <1>7, <2>3
  <2>4. CASE p \in {f \o <<1>>, f \o <<2>>} /\ q \in {f \o <<1>>, f \o <<2>>}
    <3>1. \/ p = f \o <<1>> /\ q = f \o <<2>>
          \/ p = f \o <<2>> /\ q = f \o <<1>>
      BY <1>9, <2>4
    <3> QED
      BY <1>5, <1>6, <3>1
  <2> QED
    BY <1>2, <1>9, <2>1, <2>2, <2>3, <2>4
<1> QED
  BY <1>9 DEF PanesApart, Apart, Gap

LEMMA EdgesAfterSplit ==
  ASSUME TreeInv, NEW f, f = focused, NEW axis \in Axis, NEW at \in SplitPoint,
         SplitInTwo(f, axis, at)
  PROVE  PanesReachEdges'
<1>1. /\ f \in Leaves /\ Leaves \subseteq DOMAIN area
      /\ \A p \in DOMAIN area : area'[p] = area[p]
      /\ Halves(area[f], axis, at, area'[f \o <<1>>], area'[f \o <<2>>])
  BY DEF SplitInTwo, Split, Leaves
<1>2. Leaves' = (Leaves \ {f}) \cup {f \o <<1>>, f \o <<2>>}
  BY AboveAfterSplit DEF TreeInv
<1>3. ASSUME NEW a \in Axis
      PROVE  /\ area'[f \o <<1>>][a].lo = area[f][a].lo
             /\ area'[f \o <<2>>][a].hi = area[f][a].hi
  BY <1>1 DEF Halves
<1>4. ASSUME NEW a \in Axis
      PROVE  \E q \in Leaves' : area'[q][a].lo = 0
  <2>1. PICK q \in Leaves : area[q][a].lo = 0
    BY DEF TreeInv, PanesReachEdges
  <2>2. CASE q = f
    BY <1>2, <1>3, <2>1, <2>2
  <2>3. CASE q # f
    BY <1>1, <1>2, <2>1, <2>3
  <2> QED
    BY <2>2, <2>3
<1>5. ASSUME NEW a \in Axis
      PROVE  \E q \in Leaves' : area'[q][a].hi = Extent
  <2>1. PICK q \in Leaves : area[q][a].hi = Extent
    BY DEF TreeInv, PanesReachEdges
  <2>2. CASE q = f
    BY <1>2, <1>3, <2>1, <2>2
  <2>3. CASE q # f
    BY <1>1, <1>2, <2>1, <2>3
  <2> QED
    BY <2>2, <2>3
<1> QED
  BY <1>4, <1>5 DEF PanesReachEdges

LEMMA TreeStep ==
  ASSUME TreeInv, [ResizeNext]_resize_vars
  PROVE  TreeInv'
<1>1. ASSUME NEW axis \in Axis, NEW at \in SplitPoint, SplitPane(axis, at)
      PROVE  TreeInv'
  <2>1. ASSUME NEW f, f = focused
        PROVE  TreeInv'
    <3>1. SplitInTwo(f, axis, at)
      BY <1>1, <2>1, SplitIsSplit DEF TreeInv
    <3>2. IsTree'
      BY <2>1, <3>1, IsTreeAfterSplit DEF TreeInv
    <3>3. AreasFit' /\ SplitsFit'
      BY <2>1, <3>1, FitAfterSplit
    <3>4. PanesEndAtSplits'
      BY <2>1, <3>1, EndsAfterSplit
    <3>5. PanesApart'
      BY <2>1, <3>1, ApartAfterSplit
    <3>6. PanesReachEdges'
      BY <2>1, <3>1, EdgesAfterSplit
    <3> QED
      BY <3>2, <3>3, <3>4, <3>5, <3>6 DEF TreeInv
  <2> QED
    BY <2>1
<1>2. CASE UNCHANGED tree_vars /\ focused' \in Leaves
  <2>1. area' = area /\ splits' = splits
    BY <1>2 DEF tree_vars
  <2>2. Leaves' = Leaves /\ \A q, a : Above(q, a)' = Above(q, a)
    BY <2>1 DEF Leaves, Above
  <2>3. IsTree'
    BY <1>2, <2>1, <2>2 DEF TreeInv, IsTree
  <2>4. AreasFit' /\ SplitsFit'
    BY <2>1 DEF TreeInv, AreasFit, SplitsFit
  <2>5. PanesApart' /\ PanesReachEdges'
    BY <2>1, <2>2 DEF TreeInv, PanesApart, PanesReachEdges
  <2>6. PanesEndAtSplits'
    BY <2>1, <2>2 DEF TreeInv, PanesEndAtSplits, Nearest
  <2> QED
    BY <2>3, <2>4, <2>5, <2>6 DEF TreeInv
<1>3. focused \in Leaves
  BY DEF TreeInv, IsTree
<1>4. \/ \E axis \in Axis, at \in SplitPoint : SplitPane(axis, at)
      \/ UNCHANGED tree_vars /\ focused' \in Leaves
  BY <1>3 DEF ResizeNext, UserFocus, OfferFocus, ObserveLayout, Press, MovePointer, Release, RunFocus,
     FocusForDrag, FocusFails, RunResize, resize_vars
<1> QED
  BY <1>1, <1>2, <1>4

LEMMA InitTree == ResizeInit => TreeInv
<1> SUFFICES ASSUME ResizeInit
             PROVE  TreeInv
  OBVIOUS
<1>1. /\ area = [p \in {<< >>} |-> [a \in Axis |-> [lo |-> 0, hi |-> Extent]]]
      /\ splits = [p \in {} |-> << >>] /\ focused = << >>
  BY DEF ResizeInit
<1>2. /\ DOMAIN area = {<< >>} /\ DOMAIN splits = {} /\ Leaves = {<< >>}
      /\ area[<< >>] = [a \in Axis |-> [lo |-> 0, hi |-> Extent]]
  BY <1>1 DEF Leaves
<1>3. Extent \in Nat /\ 0 < Extent
  BY ResizeAssumption
<1>4. IsTree
  <2>1. << >> \in Seq({1, 2}) /\ \A n \in 0..Len(<< >>) : ~(n < Len(<< >>))
    OBVIOUS
  <2> QED
    BY <1>1, <1>2, <2>1 DEF IsTree
<1>5. AreasFit
  BY <1>2, <1>3 DEF AreasFit, Rectangle, Interval
<1>6. SplitsFit /\ PanesApart
  BY <1>2 DEF SplitsFit, PanesApart
<1>7. PanesReachEdges
  BY <1>2 DEF PanesReachEdges
<1>8. \A q, a : Above(q, a) = {} /\ Nearest(Above(q, a)) = {}
  BY <1>2 DEF Above, Nearest
<1>9. PanesEndAtSplits
  BY <1>2, <1>8 DEF PanesEndAtSplits
<1> QED
  BY <1>4, <1>5, <1>6, <1>7, <1>9 DEF TreeInv

-----------------------------------------------------------------------------
(***************************************************************************)
(* The divider a drag captures, and the splitter its focus point leads to. *)
(***************************************************************************)

LEMMA DividersLieBetweenPanes ==
  ASSUME NEW panes, NEW d \in Dividers(panes)
  PROVE  \E axis \in Axis, leading, trailing \in panes :
           /\ leading # trailing /\ Faces(axis, leading, trailing)
           /\ d = Divider(axis, leading, trailing, panes)
<1> DEFINE facing(axis) == {pair \in panes \X panes :
                              pair[1] # pair[2] /\ Faces(axis, pair[1], pair[2])}
           Goal == \E axis \in Axis, leading, trailing \in panes :
                     /\ leading # trailing /\ Faces(axis, leading, trailing)
                     /\ d = Divider(axis, leading, trailing, panes)
<1>1. "vertical" \in Axis /\ "horizontal" \in Axis
  BY DEF Axis
<1>2. ASSUME NEW axis \in Axis, NEW pair \in facing(axis), d = Divider(axis, pair[1], pair[2], panes)
      PROVE  Goal
  <2>1. pair[1] \in panes /\ pair[2] \in panes /\ pair[1] # pair[2] /\ Faces(axis, pair[1], pair[2])
    OBVIOUS
  <2> QED
    BY <1>2, <2>1
<1>3. \/ \E pair \in facing("vertical") : d = Divider("vertical", pair[1], pair[2], panes)
      \/ \E pair \in facing("horizontal") : d = Divider("horizontal", pair[1], pair[2], panes)
  BY DEF Dividers
<1> HIDE DEF facing, Goal
<1>4. Goal
  BY <1>1, <1>2, <1>3
<1> QED
  BY <1>4 DEF Goal

\* Halving and the arithmetic built on it.
LEMMA Half ==
  ASSUME NEW n \in Nat
  PROVE  /\ Quotient(n, 2) \in Nat /\ 2 * Quotient(n, 2) <= n
         /\ n > 0 => Quotient(n, 2) < n
BY DEF Quotient

LEMMA InsetIsInPane ==
  ASSUME NEW rect \in Rectangle, \A a \in Axis : rect[a].lo < rect[a].hi, NEW axis \in Axis
  PROVE  RectContains(rect, LeadingInsetPoint(rect, axis))
<1> SUFFICES ASSUME NEW a \in Axis
             PROVE  Within(LeadingInsetPoint(rect, axis)[a], rect[a])
  BY DEF RectContains
<1>1. rect[a].lo \in Int /\ rect[a].hi \in Int /\ rect[a].lo < rect[a].hi
  BY DEF Rectangle, Interval
<1>2. CASE a = axis
  <2> DEFINE inset == Larger(0, Smaller(FocusInset, Quotient(rect[a].hi - rect[a].lo - 1, 2)))
             width == rect[a].hi - rect[a].lo - 1
  <2>1. width \in Nat
    BY <1>1
  <2>2. FocusInset \in Nat
    BY LayoutAssumption
  <2> HIDE DEF width
  <2>3. Quotient(width, 2) \in Nat /\ Quotient(width, 2) <= width
    BY <2>1, Half
  <2>4. inset \in Nat /\ inset <= width
    BY <2>1, <2>2, <2>3 DEF Larger, Smaller, width
  <2>5. LeadingInsetPoint(rect, axis)[a] = rect[a].lo + inset
    BY <1>2 DEF LeadingInsetPoint, InsetFromStart
  <2> HIDE DEF inset
  <2> QED
    BY <1>1, <2>4, <2>5 DEF Within, width
<1>3. CASE a # axis
  <2> DEFINE width == rect[a].hi - rect[a].lo
  <2>1. width \in Nat /\ width > 0
    BY <1>1
  <2>2. LeadingInsetPoint(rect, axis)[a] = rect[a].lo + Quotient(width, 2)
    BY <1>3 DEF LeadingInsetPoint, Midpoint
  <2> HIDE DEF width
  <2>3. Quotient(width, 2) \in Nat /\ Quotient(width, 2) < width
    BY <2>1, Half
  <2> QED
    BY <1>1, <2>2, <2>3 DEF Within, width
<1> QED
  BY <1>2, <1>3

\* A point lies in one pane.
LEMMA PointsPickAPane ==
  ASSUME TreeInv, NEW p \in Leaves, NEW q \in Leaves, NEW point,
         \A a \in Axis : point[a] \in Int, RectContains(area[p], point), RectContains(area[q], point)
  PROVE  p = q
<1> SUFFICES ASSUME p # q
             PROVE  FALSE
  OBVIOUS
<1>1. PICK a \in Axis : Gap(area[p][a], area[q][a]) \/ Gap(area[q][a], area[p][a])
  BY DEF TreeInv, PanesApart, Apart
<1>2. /\ area[p][a].lo \in Int /\ area[p][a].hi \in Int
      /\ area[q][a].lo \in Int /\ area[q][a].hi \in Int
  BY DEF TreeInv, AreasFit, Leaves, Rectangle, Interval
<1>3. Border \in Nat /\ MaxDividerGap \in Nat
  BY ResizeAssumption, LayoutAssumption
<1>4. /\ area[p][a].lo <= point[a] /\ point[a] < area[p][a].hi
      /\ area[q][a].lo <= point[a] /\ point[a] < area[q][a].hi
      /\ point[a] \in Int
  BY DEF RectContains, Within
<1> QED
  BY <1>1, <1>2, <1>3, <1>4 DEF Gap

LEMMA LayoutEdges ==
  ASSUME TreeInv, NEW axis \in Axis
  PROVE  LayoutStart(Panes, axis) = 0 /\ LayoutEnd(Panes, axis) = Extent
<1>1. \A r \in Panes : /\ r[axis].lo \in Int /\ r[axis].hi \in Int
                       /\ 0 <= r[axis].lo /\ r[axis].hi <= Extent
  BY DEF TreeInv, AreasFit, Panes, Leaves, Rectangle, Interval
<1>2. PICK low \in Panes : low[axis].lo = 0
  BY DEF TreeInv, PanesReachEdges, Panes
<1>3. PICK high \in Panes : high[axis].hi = Extent
  BY DEF TreeInv, PanesReachEdges, Panes
<1>4. Extent \in Nat
  BY ResizeAssumption
<1>5. LayoutStart(Panes, axis) = 0
  <2>1. 0 \in {p[axis].lo : p \in Panes} /\ \A p \in Panes : 0 <= p[axis].lo
    BY <1>1, <1>2
  <2>2. \A c \in {p[axis].lo : p \in Panes} : (\A p \in Panes : c <= p[axis].lo) => c = 0
    BY <1>1, <1>2
  <2> QED
    BY <2>1, <2>2 DEF LayoutStart
<1>6. LayoutEnd(Panes, axis) = Extent
  <2>1. Extent \in {p[axis].hi : p \in Panes} /\ \A p \in Panes : Extent >= p[axis].hi
    BY <1>1, <1>3
  <2>2. \A c \in {p[axis].hi : p \in Panes} : (\A p \in Panes : c >= p[axis].hi) => c = Extent
    BY <1>1, <1>3, <1>4
  <2> QED
    BY <2>1, <2>2 DEF LayoutEnd
<1> QED
  BY <1>5, <1>6

\* Panes that face each other have one border between them.
LEMMA FacingPanesTouch ==
  ASSUME TreeInv, NEW x \in Leaves, NEW y \in Leaves, x # y, NEW axis \in Axis,
         Faces(axis, area[x], area[y])
  PROVE  area[y][axis].lo = area[x][axis].hi + Border
<1>1. Cross(axis) \in Axis /\ \A a \in Axis : a = axis \/ a = Cross(axis)
  BY DEF Cross, Axis
<1>2. \A a \in Axis : /\ area[x][a].lo \in Int /\ area[x][a].hi \in Int /\ area[x][a].lo < area[x][a].hi
                      /\ area[y][a].lo \in Int /\ area[y][a].hi \in Int /\ area[y][a].lo < area[y][a].hi
  BY DEF TreeInv, AreasFit, Leaves, Rectangle, Interval
<1>3. Border \in Nat /\ MaxDividerGap \in Nat
  BY ResizeAssumption, LayoutAssumption
<1>4. PICK a \in Axis : Gap(area[x][a], area[y][a]) \/ Gap(area[y][a], area[x][a])
  BY DEF TreeInv, PanesApart, Apart
<1>5. a # Cross(axis)
  <2>1. /\ area[x][Cross(axis)].lo < area[y][Cross(axis)].hi
        /\ area[y][Cross(axis)].lo < area[x][Cross(axis)].hi
    BY <1>1, <1>2 DEF Faces, Larger, Smaller
  <2> QED
    BY <1>1, <1>2, <1>3, <1>4, <2>1 DEF Gap
<1>6. a = axis
  BY <1>1, <1>5
<1>7. area[x][axis].lo <= area[y][axis].lo
  BY DEF Faces
<1>8. ~Gap(area[y][axis], area[x][axis])
  BY <1>2, <1>3, <1>7 DEF Gap
<1>9. ~(area[y][axis].lo - area[x][axis].hi > MaxDividerGap)
  BY <1>2, <1>3 DEF Faces, Magnitude
<1> QED
  BY <1>2, <1>3, <1>4, <1>6, <1>8, <1>9 DEF Gap

\* The focus point of a divider that can be captured lies in the leading pane, at the
\* start of the layout, or in the trailing one, at its end.
LEMMA FocusPointSide ==
  ASSUME NEW axis, NEW leading, NEW trailing, NEW panes,
         Capturable(Divider(axis, leading, trailing, panes))
  PROVE  \/ /\ leading[axis].lo = LayoutStart(panes, axis)
            /\ Divider(axis, leading, trailing, panes).focus_point = LeadingInsetPoint(leading, axis)
         \/ /\ trailing[axis].hi = LayoutEnd(panes, axis)
            /\ Divider(axis, leading, trailing, panes).focus_point = LeadingInsetPoint(trailing, axis)
BY DEF Capturable, Divider, FocusPoint

LEMMA FocusedSideIsMoved ==
  ASSUME TreeInv, NEW d \in Dividers(Panes), Capturable(d), RectContains(area[focused], d.focus_point)
  PROVE  MovesOnly(d)
<1>1. PICK axis \in Axis, leading \in Panes, trailing \in Panes :
        /\ leading # trailing /\ Faces(axis, leading, trailing)
        /\ d = Divider(axis, leading, trailing, Panes)
  BY DividersLieBetweenPanes
<1>2. PICK x \in Leaves, y \in Leaves : leading = area[x] /\ trailing = area[y]
  BY DEF Panes
<1>3. x # y
  BY <1>1, <1>2
<1>4. trailing[axis].lo = leading[axis].hi + Border
  BY <1>1, <1>2, <1>3, FacingPanesTouch
<1>5. /\ leading \in Rectangle /\ trailing \in Rectangle
      /\ \A a \in Axis : /\ leading[a].lo < leading[a].hi /\ trailing[a].lo < trailing[a].hi
                         /\ leading[a].lo \in Int /\ leading[a].hi \in Int
                         /\ trailing[a].lo \in Int /\ trailing[a].hi \in Int
                         /\ 0 <= leading[a].lo /\ leading[a].hi <= Extent
                         /\ 0 <= trailing[a].lo /\ trailing[a].hi <= Extent
  BY <1>2 DEF TreeInv, AreasFit, Leaves, Rectangle, Interval
<1>6. Border \in Nat /\ Extent \in Nat /\ Cross(axis) \in Axis
  BY ResizeAssumption DEF Cross, Axis
<1>7. /\ d.axis = axis
      /\ d.coordinate = Midpoint(leading[axis].hi, trailing[axis].lo)
      /\ d.span.lo = Larger(leading[Cross(axis)].lo, trailing[Cross(axis)].lo)
      /\ d.span.hi = Smaller(leading[Cross(axis)].hi, trailing[Cross(axis)].hi)
  BY <1>1 DEF Divider
<1>8. /\ leading[axis].hi <= d.coordinate
      /\ d.coordinate <= leading[axis].hi + Border
  <2>1. d.coordinate = leading[axis].hi + Quotient(Border, 2)
    <3>1. trailing[axis].lo - leading[axis].hi = Border
      BY <1>4, <1>5, <1>6
    <3> QED
      BY <1>7, <3>1 DEF Midpoint
  <2>2. Quotient(Border, 2) \in Nat /\ Quotient(Border, 2) <= Border
    BY <1>6, Half
  <2> QED
    BY <1>5, <1>6, <2>1, <2>2
<1>9. \A side \in {leading, trailing} :
        side[Cross(axis)].lo <= d.span.lo /\ d.span.hi <= side[Cross(axis)].hi
  BY <1>5, <1>6, <1>7 DEF Larger, Smaller
<1>10. d.span.lo \in Int /\ d.span.hi \in Int
  BY <1>5, <1>6, <1>7 DEF Larger, Smaller
<1>11. /\ focused \in Leaves
       /\ \A side \in {leading, trailing} : \A a \in Axis : LeadingInsetPoint(side, axis)[a] \in Int
  <2>1. focused \in Leaves
    BY DEF TreeInv, IsTree
  <2>2. FocusInset \in Nat
    BY LayoutAssumption
  <2>3. ASSUME NEW side \in {leading, trailing}, NEW a \in Axis
        PROVE  LeadingInsetPoint(side, axis)[a] \in Int
    <3>1. side[a].lo \in Int /\ side[a].hi \in Int
      BY <1>5
    <3> QED
      BY <2>2, <3>1 DEF LeadingInsetPoint, InsetFromStart, Midpoint, Larger, Smaller, Quotient
  <2> QED
    BY <2>1, <2>3
\* The nearest splitter above the focused pane is the divider's.
<1>12. ASSUME NEW side \in {leading, trailing}, side = area[focused],
              Above(focused, axis) # {},
              \A p \in Nearest(Above(focused, axis)) : splits[p].at = leading[axis].hi
       PROVE  MovesOnly(d)
  <2>1. ASSUME NEW p \in Nearest(Above(focused, axis))
        PROVE  /\ splits[p].at <= d.coordinate /\ d.coordinate <= splits[p].at + Border
               /\ area[p][Cross(axis)].lo <= d.span.lo /\ d.span.hi <= area[p][Cross(axis)].hi
    <3>1. splits[p].at <= d.coordinate /\ d.coordinate <= splits[p].at + Border
      BY <1>8, <1>12
    <3>2. Inner(side, area[p])
      BY <1>11, <1>12 DEF TreeInv, PanesEndAtSplits
    <3>3. p \in DOMAIN area
      BY DEF Nearest, Above, TreeInv, IsTree
    <3>4. area[p][Cross(axis)].lo \in Int /\ area[p][Cross(axis)].hi \in Int
      BY <1>6, <3>3 DEF TreeInv, AreasFit, Rectangle, Interval
    <3>5. /\ area[p][Cross(axis)].lo <= side[Cross(axis)].lo
          /\ side[Cross(axis)].hi <= area[p][Cross(axis)].hi
          /\ side[Cross(axis)].lo \in Int /\ side[Cross(axis)].hi \in Int
      BY <1>5, <1>6, <3>2 DEF Inner
    <3> QED
      BY <1>9, <1>10, <3>1, <3>4, <3>5
  <2> QED
    BY <1>7, <1>12, <2>1 DEF MovesOnly, Owners
<1>13. \A p \in Above(focused, axis) :
         /\ splits[p].at \in Nat /\ splits[p].at > 0 /\ splits[p].at + Border < Extent
  <2> SUFFICES ASSUME NEW p \in Above(focused, axis)
               PROVE  splits[p].at \in Nat /\ splits[p].at > 0 /\ splits[p].at + Border < Extent
    OBVIOUS
  <2>1. p \in DOMAIN splits /\ p \in DOMAIN area /\ splits[p].axis = axis
    BY DEF Above, TreeInv, IsTree
  <2>2. /\ splits[p].at \in Nat
        /\ area[p][axis].lo < splits[p].at /\ splits[p].at + Border < area[p][axis].hi
    BY <2>1 DEF TreeInv, SplitsFit
  <2>3. /\ area[p][axis].lo \in Int /\ area[p][axis].hi \in Int
        /\ 0 <= area[p][axis].lo /\ area[p][axis].hi <= Extent
    BY <2>1 DEF TreeInv, AreasFit, Rectangle, Interval
  <2> QED
    BY <1>6, <2>2, <2>3
<1>14. \A p \in Nearest(Above(focused, axis)) : p \in Above(focused, axis)
  BY DEF Nearest
<1>15. CASE leading[axis].lo = LayoutStart(Panes, axis) /\ d.focus_point = LeadingInsetPoint(leading, axis)
  <2>1. leading = area[focused]
    <3>1. RectContains(leading, d.focus_point)
      BY <1>5, <1>15, InsetIsInPane
    <3>2. x = focused
      BY <1>2, <1>11, <1>15, <3>1, PointsPickAPane
    <3> QED
      BY <1>2, <3>2
  <2>2. leading[axis].lo = 0
    BY <1>15, LayoutEdges
  <2>3. Above(focused, axis) # {}
    <3>1. Above(focused, axis) = {} => leading[axis].hi = Extent
      BY <1>11, <2>1 DEF TreeInv, PanesEndAtSplits
    <3> QED
      BY <1>4, <1>5, <1>6, <3>1
  <2>4. ASSUME NEW p \in Nearest(Above(focused, axis))
        PROVE  splits[p].at = leading[axis].hi
    <3>1. leading[axis].hi = splits[p].at \/ leading[axis].lo = splits[p].at + Border
      BY <1>11, <2>1 DEF TreeInv, PanesEndAtSplits
    <3> QED
      BY <1>6, <1>13, <1>14, <2>2, <3>1
  <2> QED
    BY <1>12, <2>1, <2>3, <2>4
<1>16. CASE trailing[axis].hi = LayoutEnd(Panes, axis) /\ d.focus_point = LeadingInsetPoint(trailing, axis)
  <2>1. trailing = area[focused]
    <3>1. RectContains(trailing, d.focus_point)
      BY <1>5, <1>16, InsetIsInPane
    <3>2. y = focused
      BY <1>2, <1>11, <1>16, <3>1, PointsPickAPane
    <3> QED
      BY <1>2, <3>2
  <2>2. trailing[axis].hi = Extent
    BY <1>16, LayoutEdges
  <2>3. Above(focused, axis) # {}
    <3>1. Above(focused, axis) = {} => trailing[axis].lo = 0
      BY <1>11, <2>1 DEF TreeInv, PanesEndAtSplits
    <3> QED
      BY <1>4, <1>5, <1>6, <3>1
  <2>4. ASSUME NEW p \in Nearest(Above(focused, axis))
        PROVE  splits[p].at = leading[axis].hi
    <3>1. trailing[axis].hi = splits[p].at \/ trailing[axis].lo = splits[p].at + Border
      BY <1>11, <2>1 DEF TreeInv, PanesEndAtSplits
    <3>2. splits[p].at \in Nat /\ splits[p].at + Border < Extent
      BY <1>13, <1>14
    <3>3. trailing[axis].lo = splits[p].at + Border
      BY <1>6, <2>2, <3>1, <3>2
    <3> QED
      BY <1>4, <1>5, <1>6, <3>2, <3>3
  <2> QED
    BY <1>12, <2>1, <2>3, <2>4
<1> QED
  BY <1>1, <1>15, <1>16, FocusPointSide

-----------------------------------------------------------------------------
(***************************************************************************)
(* The drag, its messages and the pane focused for it.                     *)
(***************************************************************************)

IsQueue == Len(actions) \in Nat /\ actions = [i \in 1..Len(actions) |-> actions[i]]

Captured(divider, panes) == divider \in Dividers(panes) /\ Capturable(divider)

Resizes == {i \in 1..Len(actions) : actions[i].kind = "resize"}

\* A drag and its messages agree on the divider, which was captured in the layout
\* they carry.
DragInv ==
  /\ IsQueue
  /\ next_sequence \in Nat /\ last_focused \in 0..next_sequence
  /\ drag # NoDrag =>
       /\ drag = [divider |-> drag.divider, last |-> drag.last, residual |-> drag.residual,
                  sequence |-> drag.sequence, panes |-> drag.panes]
       /\ drag.sequence = next_sequence /\ next_sequence > 0
       /\ Captured(drag.divider, drag.panes)
  /\ \A i \in Resizes :
       /\ actions[i].drag \in 1..next_sequence
       /\ Captured(actions[i].divider, actions[i].panes)
       /\ drag # NoDrag /\ actions[i].drag = drag.sequence => actions[i].divider = drag.divider
       /\ \A j \in Resizes : actions[j].drag = actions[i].drag => actions[j].divider = actions[i].divider

\* Unless the focus was moved since, the focused pane holds the focus point of the drag
\* the worker last focused a pane for.
FocusInv ==
  ~disturbed =>
    /\ \A i \in Resizes :
         actions[i].drag = last_focused => RectContains(area[focused], actions[i].divider.focus_point)
    /\ drag # NoDrag /\ drag.sequence = last_focused
         => RectContains(area[focused], drag.divider.focus_point)

LEMMA SequencesAreQueues ==
  ASSUME NEW S, NEW q \in Seq(S)
  PROVE  Len(q) \in Nat /\ q = [i \in 1..Len(q) |-> q[i]]
OBVIOUS

LEMMA QueueTaken ==
  ASSUME IsQueue, actions # << >>, actions' = Tail(actions)
  PROVE  /\ IsQueue'
         /\ Head(actions) = actions[1] /\ 1 \in 1..Len(actions)
         /\ \A i \in 1..Len(actions') : i + 1 \in 1..Len(actions) /\ actions'[i] = actions[i + 1]
<1> DEFINE S == {actions[i] : i \in 1..Len(actions)}
<1>1. actions \in Seq(S)
  BY DEF IsQueue
<1> HIDE DEF S
<1>2. /\ Head(actions) \in S /\ actions' \in Seq(S) /\ Len(actions') = Len(actions) - 1
      /\ \A i \in 1..Len(actions') : actions'[i] = actions[i + 1]
  BY <1>1, HeadTailProperties
<1>3. Head(actions) = actions[1] /\ Len(actions) \in Nat /\ Len(actions) > 0
  BY <1>1
<1>4. IsQueue'
  <2>1. actions' \in Seq(S)
    BY <1>2
  <2> QED
    BY <2>1, SequencesAreQueues DEF IsQueue
<1>5. \A i \in 1..Len(actions') : i + 1 \in 1..Len(actions)
  BY <1>2, <1>3
<1> QED
  BY <1>2, <1>3, <1>4, <1>5

LEMMA QueueOffered ==
  ASSUME IsQueue, NEW message, Offer(message)
  PROVE  /\ IsQueue'
         /\ \/ actions' = actions
            \/ /\ Len(actions') = Len(actions) + 1
               /\ actions'[Len(actions) + 1] = message
               /\ \A i \in 1..Len(actions) : actions'[i] = actions[i]
<1> DEFINE S == {actions[i] : i \in 1..Len(actions)} \cup {message}
<1>1. actions \in Seq(S) /\ message \in S
  BY DEF IsQueue
<1> HIDE DEF S
<1>2. CASE actions' = actions
  BY <1>2 DEF IsQueue
<1>3. CASE actions' = Append(actions, message)
  <2>1. /\ actions' \in Seq(S) /\ Len(actions') = Len(actions) + 1
        /\ actions'[Len(actions) + 1] = message
        /\ \A i \in 1..Len(actions) : actions'[i] = actions[i]
    BY <1>1, <1>3, AppendProperties
  <2> QED
    BY <2>1 DEF IsQueue
<1> QED
  BY <1>2, <1>3 DEF Offer

\* A movement of the pointer offers one step of the drag, or none.
LEMMA MovementOffers ==
  ASSUME NEW coordinate, MovePointer(coordinate)
  PROVE  \/ actions' = actions
         \/ /\ Steps(drag, coordinate) # 0
            /\ \E forward \in BOOLEAN :
                 /\ forward = (Steps(drag, coordinate) > 0)
                 /\ Offer([kind |-> "resize", drag |-> drag.sequence, divider |-> drag.divider,
                           forward |-> forward, panes |-> drag.panes])
<1> DEFINE steps == Steps(drag, coordinate)
<1>1. CASE steps = 0
  BY <1>1 DEF MovePointer
<1>2. CASE steps # 0
  <2>1. Offer([kind |-> "resize", drag |-> drag.sequence, divider |-> drag.divider,
               forward |-> steps > 0, panes |-> drag.panes])
    BY <1>2 DEF MovePointer
  <2>2. (steps > 0) \in BOOLEAN
    OBVIOUS
  <2> HIDE DEF steps
  <2>3. \E forward \in BOOLEAN :
          /\ forward = (steps > 0)
          /\ Offer([kind |-> "resize", drag |-> drag.sequence, divider |-> drag.divider,
                    forward |-> forward, panes |-> drag.panes])
    BY <2>1, <2>2
  <2> QED
    BY <1>2, <2>3 DEF steps
<1> QED
  BY <1>1, <1>2

\* Taking a message leaves the others as they were.
LEMMA TakenKeepsDrag ==
  ASSUME DragInv, actions # << >>, actions' = Tail(actions), UNCHANGED <<drag, next_sequence, last_focused>>
  PROVE  /\ DragInv'
         /\ \A i \in Resizes' : i + 1 \in Resizes /\ actions'[i] = actions[i + 1]
<1>1. /\ IsQueue'
      /\ \A i \in 1..Len(actions') : i + 1 \in 1..Len(actions) /\ actions'[i] = actions[i + 1]
  BY QueueTaken DEF DragInv
<1>2. \A i \in Resizes' : i + 1 \in Resizes /\ actions'[i] = actions[i + 1]
  BY <1>1 DEF Resizes
<1> QED
  BY <1>1, <1>2 DEF DragInv

LEMMA DragStep ==
  ASSUME DragInv, [ResizeNext]_resize_vars
  PROVE  DragInv'
<1>1. CASE UNCHANGED <<drag, next_sequence, actions>> /\ last_focused' = last_focused
  BY <1>1 DEF DragInv, IsQueue, Resizes
<1>2. ASSUME NEW point, Press(point)
      PROVE  DragInv'
  <2>1. PICK d \in DividersAt(layout, point) :
          /\ Capturable(d)
          /\ next_sequence' = next_sequence + 1
          /\ drag' = [divider |-> d, last |-> point[d.axis], residual |-> 0,
                      sequence |-> next_sequence', panes |-> layout]
    BY <1>2 DEF Press
  <2>2. d \in Dividers(layout)
    BY <2>1 DEF DividersAt
  <2>3. actions' = actions /\ last_focused' = last_focused
    BY <1>2 DEF Press, action_vars
  <2>4. /\ drag'.divider = d /\ drag'.panes = layout /\ drag'.sequence = next_sequence + 1
        /\ drag' = [divider |-> drag'.divider, last |-> drag'.last, residual |-> drag'.residual,
                    sequence |-> drag'.sequence, panes |-> drag'.panes]
    BY <2>1
  <2>5. Resizes' = Resizes /\ IsQueue'
    BY <2>3 DEF Resizes, IsQueue, DragInv
  <2>6. next_sequence \in Nat /\ last_focused \in 0..next_sequence
    BY DEF DragInv
  <2>7. \A i \in Resizes : /\ actions[i].drag \in 1..next_sequence
                           /\ Captured(actions[i].divider, actions[i].panes)
                           /\ \A j \in Resizes : actions[j].drag = actions[i].drag => actions[j].divider = actions[i].divider
    BY DEF DragInv
  <2>8. Captured(d, layout)
    BY <2>1, <2>2 DEF Captured
  <2> QED
    BY <2>1, <2>3, <2>4, <2>5, <2>6, <2>7, <2>8 DEF DragInv, Captured
<1>3. ASSUME NEW coordinate, MovePointer(coordinate)
      PROVE  DragInv'
  <2>1. /\ drag # NoDrag /\ drag' = Updated(drag, coordinate)
        /\ UNCHANGED <<next_sequence, last_focused>>
    BY <1>3 DEF MovePointer
  <2>2. drag = [divider |-> drag.divider, last |-> drag.last, residual |-> drag.residual,
                sequence |-> drag.sequence, panes |-> drag.panes]
    BY <2>1 DEF DragInv
  <2>3. /\ drag'.divider = drag.divider /\ drag'.panes = drag.panes /\ drag'.sequence = drag.sequence
        /\ drag' = [divider |-> drag'.divider, last |-> drag'.last, residual |-> drag'.residual,
                    sequence |-> drag'.sequence, panes |-> drag'.panes]
    BY <2>1, <2>2 DEF Updated
  <2>4. /\ drag.sequence = next_sequence /\ next_sequence > 0 /\ next_sequence \in Nat
        /\ Captured(drag.divider, drag.panes)
    BY <2>1 DEF DragInv
  <2>5. CASE actions' = actions
    BY <2>1, <2>3, <2>4, <2>5 DEF DragInv, IsQueue, Resizes
  <2>6. CASE \E forward \in BOOLEAN :
               Offer([kind |-> "resize", drag |-> drag.sequence, divider |-> drag.divider,
                      forward |-> forward, panes |-> drag.panes])
    <3>1. PICK forward \in BOOLEAN :
               Offer([kind |-> "resize", drag |-> drag.sequence, divider |-> drag.divider,
                      forward |-> forward, panes |-> drag.panes])
      BY <2>6
    <3>2. CASE actions' # actions
      <4>1. /\ IsQueue'
            /\ Len(actions') = Len(actions) + 1
            /\ actions'[Len(actions) + 1]
                 = [kind |-> "resize", drag |-> drag.sequence, divider |-> drag.divider,
                    forward |-> forward, panes |-> drag.panes]
            /\ \A i \in 1..Len(actions) : actions'[i] = actions[i]
        BY <3>1, <3>2, QueueOffered DEF DragInv
      <4>2. Len(actions) \in Nat
        BY DEF DragInv, IsQueue
      <4>3. \A i \in Resizes' : (i \in Resizes /\ actions'[i] = actions[i]) \/ i = Len(actions) + 1
        BY <4>1, <4>2 DEF Resizes
      <4>4. \A i \in Resizes : /\ actions[i].drag \in 1..next_sequence
                               /\ Captured(actions[i].divider, actions[i].panes)
                               /\ actions[i].drag = drag.sequence => actions[i].divider = drag.divider
                               /\ \A j \in Resizes : actions[j].drag = actions[i].drag => actions[j].divider = actions[i].divider
        BY <2>1 DEF DragInv
      <4>5. LET last == actions'[Len(actions) + 1] IN
            last.drag = drag.sequence /\ last.divider = drag.divider /\ last.panes = drag.panes
        BY <4>1
      <4>6. drag.sequence \in 1..next_sequence
        BY <2>4
      <4>7. \A i \in Resizes' :
              /\ actions'[i].drag \in 1..next_sequence
              /\ Captured(actions'[i].divider, actions'[i].panes)
              /\ actions'[i].drag = drag.sequence => actions'[i].divider = drag.divider
        BY <2>4, <4>3, <4>4, <4>5, <4>6
      <4>8. \A i, j \in Resizes' : actions'[j].drag = actions'[i].drag => actions'[j].divider = actions'[i].divider
        BY <4>3, <4>4, <4>5
      <4>9. next_sequence \in Nat /\ last_focused \in 0..next_sequence
        BY DEF DragInv
      <4> QED
        BY <2>1, <2>3, <2>4, <4>1, <4>7, <4>8, <4>9 DEF DragInv, Captured
    <3> QED
      BY <2>5, <3>2
  <2> QED
    BY <1>3, <2>5, <2>6, MovementOffers
<1>4. CASE Release
  <2>1. drag' = NoDrag /\ UNCHANGED <<next_sequence, actions, last_focused>>
    BY <1>4 DEF Release, action_vars
  <2> QED
    BY <2>1 DEF DragInv, IsQueue, Resizes
<1>5. ASSUME NEW p, OfferFocus(p)
      PROVE  DragInv'
  <2>1. Offer([kind |-> "focus", pane |-> p]) /\ UNCHANGED <<drag, next_sequence, last_focused>>
    BY <1>5 DEF OfferFocus
  <2>2. /\ IsQueue'
        /\ \/ actions' = actions
           \/ /\ Len(actions') = Len(actions) + 1
              /\ actions'[Len(actions) + 1] = [kind |-> "focus", pane |-> p]
              /\ \A i \in 1..Len(actions) : actions'[i] = actions[i]
    BY <2>1, QueueOffered DEF DragInv
  <2>3. Len(actions) \in Nat
    BY DEF DragInv, IsQueue
  <2>4. \A i \in Resizes' : i \in Resizes /\ actions'[i] = actions[i]
    BY <2>2, <2>3 DEF Resizes
  <2> QED
    BY <2>1, <2>2, <2>4 DEF DragInv
<1>6. CASE RunFocus \/ FocusFails \/ RunResize
  <2>1. /\ actions # << >> /\ actions' = Tail(actions)
        /\ UNCHANGED <<drag, next_sequence, last_focused>>
    BY <1>6 DEF RunFocus, FocusFails, RunResize, NeedsFocus, HeadIs
  <2> QED
    BY <2>1, TakenKeepsDrag
<1>7. CASE FocusForDrag
  <2>1. /\ actions # << >> /\ Head(actions).kind = "resize" /\ last_focused' = Head(actions).drag
        /\ UNCHANGED <<drag, next_sequence, actions>>
    BY <1>7 DEF FocusForDrag, NeedsFocus, HeadIs
  <2>2. 1 \in Resizes /\ Head(actions) = actions[1]
    <3> DEFINE S == {actions[i] : i \in 1..Len(actions)}
    <3>1. actions \in Seq(S)
      BY DEF DragInv, IsQueue
    <3> QED
      BY <2>1, <3>1, HeadTailProperties DEF Resizes
  <2>3. last_focused' \in 0..next_sequence
    BY <2>1, <2>2 DEF DragInv
  <2> QED
    BY <2>1, <2>3 DEF DragInv, IsQueue, Resizes
<1>8. CASE UNCHANGED resize_vars
  BY <1>1, <1>8 DEF resize_vars, action_vars
<1>9. ASSUME NEW axis, NEW at, SplitPane(axis, at)
      PROVE  DragInv'
  BY <1>1, <1>9 DEF SplitPane
<1>10. ASSUME NEW p, UserFocus(p)
       PROVE  DragInv'
  BY <1>1, <1>10 DEF UserFocus
<1>11. CASE ObserveLayout
  BY <1>1, <1>11 DEF ObserveLayout, action_vars
<1> QED
  BY <1>2, <1>3, <1>4, <1>5, <1>6, <1>7, <1>8, <1>9, <1>10, <1>11 DEF ResizeNext

LEMMA FocusStep ==
  ASSUME TreeInv, DragInv, FocusInv, [ResizeNext]_resize_vars
  PROVE  FocusInv'
<1>1. CASE disturbed'
  BY <1>1 DEF FocusInv
<1>2. CASE UNCHANGED <<area, focused, drag, actions, last_focused, disturbed>>
  BY <1>2 DEF FocusInv, Resizes, RectContains
<1>3. ASSUME NEW point, Press(point)
      PROVE  FocusInv'
  <2>1. /\ UNCHANGED <<area, focused, actions, last_focused, disturbed>>
        /\ next_sequence' = next_sequence + 1
        /\ drag'.sequence = next_sequence'
    BY <1>3 DEF Press, tree_vars, action_vars
  <2>2. drag'.sequence # last_focused
    BY <2>1 DEF DragInv
  <2> QED
    BY <2>1, <2>2 DEF FocusInv, Resizes, RectContains
<1>4. ASSUME NEW coordinate, MovePointer(coordinate)
      PROVE  FocusInv'
  <2>1. /\ drag # NoDrag /\ drag' = Updated(drag, coordinate)
        /\ UNCHANGED <<area, focused, last_focused, disturbed>>
    BY <1>4 DEF MovePointer, tree_vars
  <2>2. drag = [divider |-> drag.divider, last |-> drag.last, residual |-> drag.residual,
                sequence |-> drag.sequence, panes |-> drag.panes]
    BY <2>1 DEF DragInv
  <2>3. drag'.divider = drag.divider /\ drag'.sequence = drag.sequence
    BY <2>1, <2>2 DEF Updated
  <2>4. CASE actions' = actions
    BY <2>1, <2>3, <2>4 DEF FocusInv, Resizes, RectContains
  <2>5. CASE \E forward \in BOOLEAN :
               Offer([kind |-> "resize", drag |-> drag.sequence, divider |-> drag.divider,
                      forward |-> forward, panes |-> drag.panes])
    <3>1. PICK forward \in BOOLEAN :
               Offer([kind |-> "resize", drag |-> drag.sequence, divider |-> drag.divider,
                      forward |-> forward, panes |-> drag.panes])
      BY <2>5
    <3>2. CASE actions' # actions
      <4>1. /\ Len(actions') = Len(actions) + 1
            /\ actions'[Len(actions) + 1]
                 = [kind |-> "resize", drag |-> drag.sequence, divider |-> drag.divider,
                    forward |-> forward, panes |-> drag.panes]
            /\ \A i \in 1..Len(actions) : actions'[i] = actions[i]
        BY <3>1, <3>2, QueueOffered DEF DragInv
      <4>2. Len(actions) \in Nat
        BY DEF DragInv, IsQueue
      <4>3. \A i \in Resizes' : (i \in Resizes /\ actions'[i] = actions[i]) \/ i = Len(actions) + 1
        BY <4>1, <4>2 DEF Resizes
      <4>4. LET last == actions'[Len(actions) + 1] IN
            last.drag = drag.sequence /\ last.divider = drag.divider
        BY <4>1
      <4> QED
        BY <2>1, <2>3, <4>3, <4>4 DEF FocusInv, RectContains
    <3> QED
      BY <2>4, <3>2
  <2> QED
    BY <1>4, <2>4, <2>5, MovementOffers
<1>5. CASE Release
  <2>1. drag' = NoDrag /\ UNCHANGED <<area, focused, actions, last_focused, disturbed>>
    BY <1>5 DEF Release, tree_vars, action_vars
  <2> QED
    BY <2>1 DEF FocusInv, Resizes, RectContains
<1>6. ASSUME NEW p, OfferFocus(p)
      PROVE  FocusInv'
  <2>1. /\ Offer([kind |-> "focus", pane |-> p])
        /\ UNCHANGED <<area, focused, drag, last_focused, disturbed>>
    BY <1>6 DEF OfferFocus, tree_vars
  <2>2. \/ actions' = actions
        \/ /\ Len(actions') = Len(actions) + 1
           /\ actions'[Len(actions) + 1] = [kind |-> "focus", pane |-> p]
           /\ \A i \in 1..Len(actions) : actions'[i] = actions[i]
    BY <2>1, QueueOffered DEF DragInv
  <2>3. Len(actions) \in Nat
    BY DEF DragInv, IsQueue
  <2>4. \A i \in Resizes' : i \in Resizes /\ actions'[i] = actions[i]
    BY <2>2, <2>3 DEF Resizes
  <2> QED
    BY <2>1, <2>4 DEF FocusInv, RectContains
<1>7. CASE FocusFails \/ RunResize
  <2>1. /\ actions # << >> /\ actions' = Tail(actions)
        /\ UNCHANGED <<area, focused, drag, next_sequence, last_focused, disturbed>>
    BY <1>7 DEF FocusFails, RunResize, NeedsFocus, HeadIs, tree_vars
  <2>2. \A i \in Resizes' : i + 1 \in Resizes /\ actions'[i] = actions[i + 1]
    BY <2>1, TakenKeepsDrag
  <2> QED
    BY <2>1, <2>2 DEF FocusInv, RectContains
<1>8. CASE FocusForDrag
  <2>1. /\ actions # << >> /\ Head(actions).kind = "resize" /\ last_focused' = Head(actions).drag
        /\ UNCHANGED <<area, drag, next_sequence, actions>>
    BY <1>8 DEF FocusForDrag, NeedsFocus, HeadIs, tree_vars
  <2>2. 1 \in Resizes /\ Head(actions) = actions[1]
    <3> DEFINE S == {actions[i] : i \in 1..Len(actions)}
    <3>1. actions \in Seq(S)
      BY DEF DragInv, IsQueue
    <3> QED
      BY <2>1, <3>1, HeadTailProperties DEF Resizes
  <2>3. RectContains(area[focused'], actions[1].divider.focus_point)
    BY <1>8, <2>2 DEF FocusForDrag
  <2>4. \A i \in Resizes : actions[i].drag = actions[1].drag => actions[i].divider = actions[1].divider
    BY <2>2 DEF DragInv
  <2>5. drag # NoDrag /\ drag.sequence = actions[1].drag => drag.divider = actions[1].divider
    BY <2>2 DEF DragInv
  <2> QED
    BY <2>1, <2>2, <2>3, <2>4, <2>5 DEF FocusInv, Resizes, RectContains
<1>9. ASSUME NEW axis, NEW at, SplitPane(axis, at)
      PROVE  FocusInv'
  BY <1>1, <1>9 DEF SplitPane
<1>10. ASSUME NEW p, UserFocus(p)
       PROVE  FocusInv'
  BY <1>1, <1>10 DEF UserFocus
<1>11. CASE RunFocus
  BY <1>1, <1>11 DEF RunFocus
<1>12. CASE ObserveLayout \/ UNCHANGED resize_vars
  BY <1>2, <1>12 DEF ObserveLayout, action_vars, tree_vars, resize_vars
<1> QED
  BY <1>3, <1>4, <1>5, <1>6, <1>7, <1>8, <1>9, <1>10, <1>11, <1>12 DEF ResizeNext

LEMMA InitDrag ==
  ASSUME ResizeInit
  PROVE  DragInv /\ FocusInv
<1>1. actions = << >> /\ drag = NoDrag /\ next_sequence = 0 /\ last_focused = 0
  BY DEF ResizeInit
<1>2. Resizes = {} /\ IsQueue
  BY <1>1 DEF Resizes, IsQueue
<1> QED
  BY <1>1, <1>2 DEF DragInv, FocusInv

\* For every pane tree, every point pressed and every loss of messages: what a drag
\* moves is the divider it captured, as long as the layout is the one observed and
\* nobody else moved the focus since the worker focused a pane for it.
THEOREM SpecDragMovesItsDivider == ResizeSpec => []DragMovesItsDivider
<1>1. ResizeInit => TreeInv /\ DragInv /\ FocusInv
  BY InitTree, InitDrag
<1>2. TreeInv /\ DragInv /\ FocusInv /\ [ResizeNext]_resize_vars => (TreeInv /\ DragInv /\ FocusInv)'
  BY TreeStep, DragStep, FocusStep
<1>3. TreeInv /\ DragInv /\ FocusInv => DragMovesItsDivider
  <2> SUFFICES ASSUME TreeInv, DragInv, FocusInv, ResizeIsNext, ~disturbed
               PROVE  MovesOnly(Head(actions).divider)
    BY DEF DragMovesItsDivider
  <2>1. /\ actions # << >> /\ Head(actions).kind = "resize" /\ last_focused = Head(actions).drag
        /\ Head(actions).panes = Panes
    BY DEF ResizeIsNext, NeedsFocus, HeadIs
  <2>2. 1 \in Resizes /\ Head(actions) = actions[1]
    <3> DEFINE S == {actions[i] : i \in 1..Len(actions)}
    <3>1. actions \in Seq(S)
      BY DEF DragInv, IsQueue
    <3> QED
      BY <2>1, <3>1, HeadTailProperties DEF Resizes
  <2>3. Captured(actions[1].divider, Panes)
    BY <2>1, <2>2 DEF DragInv
  <2>4. RectContains(area[focused], actions[1].divider.focus_point)
    BY <2>1, <2>2 DEF FocusInv
  <2> QED
    BY <2>2, <2>3, <2>4, FocusedSideIsMoved DEF Captured
<1> QED
  BY <1>1, <1>2, <1>3, PTL DEF ResizeSpec

-----------------------------------------------------------------------------
(***************************************************************************)
(* The direction of a step.                                                *)
(***************************************************************************)

\* A drag is measured in whole pixels, and a step of its divider is at least one.
PointerInv ==
  /\ layout \subseteq Rectangle
  /\ drag # NoDrag =>
       /\ drag = [divider |-> drag.divider, last |-> drag.last, residual |-> drag.residual,
                  sequence |-> drag.sequence, panes |-> drag.panes]
       /\ drag.last \in Int /\ drag.residual \in Int
       /\ drag.divider.coordinate \in Int
       /\ drag.divider.step \in Nat /\ drag.divider.step > 0

LEMMA DividersAreMeasured ==
  ASSUME NEW panes, panes \subseteq Rectangle, NEW d \in Dividers(panes)
  PROVE  d.axis \in Axis /\ d.coordinate \in Int /\ d.step \in Nat /\ d.step > 0
<1>1. PICK axis \in Axis, leading \in panes, trailing \in panes :
        d = Divider(axis, leading, trailing, panes)
  BY DividersLieBetweenPanes
<1>2. /\ leading[axis].lo \in Int /\ leading[axis].hi \in Int
      /\ trailing[axis].lo \in Int /\ trailing[axis].hi \in Int
  BY DEF Rectangle, Interval
<1>3. /\ d.axis = axis
      /\ d.coordinate = Midpoint(leading[axis].hi, trailing[axis].lo)
      /\ d.step = Larger(1, Quotient(trailing[axis].hi - leading[axis].lo, StepDivisor))
  BY <1>1 DEF Divider
<1>4. StepDivisor \in Nat \ {0}
  BY LayoutAssumption
<1>5. d.coordinate \in Int
  BY <1>2, <1>3 DEF Midpoint, Quotient
<1>6. Quotient(trailing[axis].hi - leading[axis].lo, StepDivisor) \in Int
  BY <1>2, <1>4 DEF Quotient
<1>7. d.step \in Nat /\ d.step > 0
  BY <1>3, <1>6 DEF Larger
<1> QED
  BY <1>3, <1>5, <1>7

\* Steps have the sign of the pixels that count, and those the sign of the movement.
LEMMA StepsHaveTheSignOfTheMovement ==
  ASSUME drag # NoDrag, PointerInv, NEW coordinate \in Int
  PROVE  /\ Total(drag, coordinate - drag.last) \in Int
         /\ Steps(drag, coordinate) \in Int
         /\ coordinate # drag.last /\ Steps(drag, coordinate) # 0
              => (Steps(drag, coordinate) > 0 <=> coordinate > drag.last)
<1> DEFINE delta == coordinate - drag.last
           total == Total(drag, delta)
           whole == Quotient(total, drag.divider.step)
<1>1. /\ drag.last \in Int /\ drag.residual \in Int
      /\ drag.divider.step \in Nat /\ drag.divider.step > 0
  BY DEF PointerInv
<1>2. delta \in Int /\ (delta > 0 <=> coordinate > drag.last) /\ (delta = 0 <=> coordinate = drag.last)
  BY <1>1
<1> HIDE DEF delta
<1>3. /\ total \in Int
      /\ delta > 0 => total > 0
      /\ delta < 0 => total < 0
  BY <1>1, <1>2 DEF Total, Reversed
<1> HIDE DEF total
<1>4. whole \in Int /\ (total > 0 => whole >= 0) /\ (total < 0 => whole <= 0)
  BY <1>1, <1>3 DEF Quotient
<1> HIDE DEF whole
<1>5. MaxSteps \in Nat
  BY LayoutAssumption
<1>6. /\ Clamp(whole, MaxSteps) \in Int
      /\ whole >= 0 => Clamp(whole, MaxSteps) >= 0
      /\ whole <= 0 => Clamp(whole, MaxSteps) <= 0
  BY <1>4, <1>5 DEF Clamp, Larger, Smaller
<1>7. Steps(drag, coordinate) = Clamp(whole, MaxSteps)
  BY DEF Steps, whole, total, delta
<1>8. Total(drag, coordinate - drag.last) = total
  BY DEF total, delta
<1> QED
  BY <1>2, <1>3, <1>4, <1>6, <1>7, <1>8

LEMMA PointerStep ==
  ASSUME TreeInv, PointerInv, [ResizeNext]_resize_vars
  PROVE  PointerInv'
<1>1. CASE UNCHANGED <<layout, drag>>
  BY <1>1 DEF PointerInv
<1>2. ASSUME NEW point \in Point, Press(point)
      PROVE  PointerInv'
  <2>1. PICK d \in DividersAt(layout, point) :
          drag' = [divider |-> d, last |-> point[d.axis], residual |-> 0,
                   sequence |-> next_sequence', panes |-> layout]
    BY <1>2 DEF Press
  <2>2. layout' = layout /\ layout \subseteq Rectangle
    BY <1>2 DEF Press, PointerInv
  <2>3. d \in Dividers(layout)
    BY <2>1 DEF DividersAt
  <2>4. d.axis \in Axis /\ d.coordinate \in Int /\ d.step \in Nat /\ d.step > 0
    BY <2>2, <2>3, DividersAreMeasured
  <2>5. point[d.axis] \in Int
    <3>1. \A a \in Axis : point[a] \in PressPoint
      BY DEF Point
    <3>2. PressPoint \subseteq Nat
      BY ResizeAssumption
    <3>3. point[d.axis] \in Nat
      BY <2>4, <3>1, <3>2
    <3> QED
      BY <3>3
  <2>6. /\ drag'.divider = d /\ drag'.last = point[d.axis] /\ drag'.residual = 0
        /\ drag' = [divider |-> drag'.divider, last |-> drag'.last, residual |-> drag'.residual,
                    sequence |-> drag'.sequence, panes |-> drag'.panes]
    BY <2>1
  <2> QED
    BY <2>2, <2>4, <2>5, <2>6 DEF PointerInv
<1>3. ASSUME NEW offset \in Reach, drag # NoDrag, MovePointer(drag.divider.coordinate + offset)
      PROVE  PointerInv'
  <2> DEFINE coordinate == drag.divider.coordinate + offset
  <2>1. drag' = Updated(drag, coordinate) /\ layout' = layout
    BY <1>3 DEF MovePointer
  <2>2. /\ drag = [divider |-> drag.divider, last |-> drag.last, residual |-> drag.residual,
                   sequence |-> drag.sequence, panes |-> drag.panes]
        /\ drag.divider.coordinate \in Int
        /\ drag.divider.step \in Nat /\ drag.divider.step > 0
    BY <1>3 DEF PointerInv
  <2>3. coordinate \in Int
    BY <2>2, ResizeAssumption
  <2> HIDE DEF coordinate
  <2>4. /\ Total(drag, coordinate - drag.last) \in Int
        /\ Steps(drag, coordinate) \in Int
    BY <1>3, <2>3, StepsHaveTheSignOfTheMovement
  <2>5. /\ drag'.divider = drag.divider /\ drag'.last = coordinate
        /\ drag'.residual = Total(drag, coordinate - drag.last)
                              - Steps(drag, coordinate) * drag.divider.step
        /\ drag' = [divider |-> drag'.divider, last |-> drag'.last, residual |-> drag'.residual,
                    sequence |-> drag'.sequence, panes |-> drag'.panes]
    BY <2>1, <2>2 DEF Updated
  <2>6. drag'.residual \in Int
    BY <2>2, <2>4, <2>5
  <2> QED
    BY <2>1, <2>2, <2>3, <2>5, <2>6 DEF PointerInv
<1>4. CASE Release
  BY <1>4 DEF Release, PointerInv
<1>5. CASE ObserveLayout
  <2>1. Panes \subseteq Rectangle
    BY DEF TreeInv, AreasFit, Panes, Leaves
  <2> QED
    BY <1>5, <2>1 DEF ObserveLayout, PointerInv
<1>6. ASSUME NEW p, OfferFocus(p) \/ UserFocus(p)
      PROVE  PointerInv'
  BY <1>1, <1>6 DEF OfferFocus, UserFocus
<1>7. ASSUME NEW axis, NEW at, SplitPane(axis, at)
      PROVE  PointerInv'
  BY <1>1, <1>7 DEF SplitPane
<1>8. CASE RunFocus \/ FocusForDrag \/ FocusFails \/ RunResize
  BY <1>1, <1>8 DEF RunFocus, FocusForDrag, FocusFails, RunResize
<1>9. CASE UNCHANGED resize_vars
  BY <1>1, <1>9 DEF resize_vars
<1> QED
  BY <1>2, <1>3, <1>4, <1>5, <1>6, <1>7, <1>8, <1>9 DEF ResizeNext

StepFollows ==
  drag # NoDrag /\ drag' # NoDrag /\ Len(actions') > Len(actions)
    /\ actions'[Len(actions')].kind = "resize"
    => \/ drag'.last = drag.last
       \/ actions'[Len(actions')].forward <=> drag'.last > drag.last

\* Only a movement of the pointer offers a step.
LEMMA OnlyMovementsOfferSteps ==
  ASSUME DragInv, [ResizeNext]_resize_vars, Len(actions') > Len(actions),
         actions'[Len(actions')].kind = "resize"
  PROVE  \E offset \in Reach : drag # NoDrag /\ MovePointer(drag.divider.coordinate + offset)
<1>1. Len(actions) \in Nat
  BY DEF DragInv, IsQueue
<1>2. actions' # actions
  BY <1>1
<1>3. actions # << >> => actions' # Tail(actions)
  <2> SUFFICES ASSUME actions # << >>, actions' = Tail(actions)
               PROVE  FALSE
    OBVIOUS
  <2>1. /\ IsQueue'
        /\ \A i \in 1..Len(actions') : i + 1 \in 1..Len(actions)
    BY QueueTaken DEF DragInv
  <2>2. Len(actions') \in 1..Len(actions')
    BY <1>1, <2>1 DEF IsQueue
  <2> QED
    BY <1>1, <2>1, <2>2
<1>4. ASSUME NEW p, OfferFocus(p)
      PROVE  FALSE
  <2>1. Offer([kind |-> "focus", pane |-> p])
    BY <1>4 DEF OfferFocus
  <2>2. /\ Len(actions') = Len(actions) + 1
        /\ actions'[Len(actions) + 1] = [kind |-> "focus", pane |-> p]
    BY <1>2, <2>1, QueueOffered DEF DragInv
  <2> QED
    BY <2>2
<1>5. ~(\E axis \in Axis, at \in SplitPoint : SplitPane(axis, at))
  BY <1>2 DEF SplitPane
<1>6. ~(\E p \in Leaves : UserFocus(p))
  BY <1>2 DEF UserFocus
<1>7. ~ObserveLayout /\ ~Release /\ ~FocusForDrag
  BY <1>2 DEF ObserveLayout, Release, FocusForDrag, action_vars
<1>8. ~(\E point \in Point : Press(point))
  BY <1>2 DEF Press, action_vars
<1>9. ~RunFocus /\ ~FocusFails /\ ~RunResize
  BY <1>3 DEF RunFocus, FocusFails, RunResize, NeedsFocus, HeadIs
<1>10. ~(UNCHANGED resize_vars)
  BY <1>2 DEF resize_vars, action_vars
<1> QED
  BY <1>4, <1>5, <1>6, <1>7, <1>8, <1>9, <1>10 DEF ResizeNext

LEMMA StepFollowsPointer ==
  ASSUME DragInv, PointerInv, [ResizeNext]_resize_vars
  PROVE  StepFollows
<1> SUFFICES ASSUME Len(actions') > Len(actions), actions'[Len(actions')].kind = "resize"
             PROVE  drag'.last # drag.last
                      => (actions'[Len(actions')].forward <=> drag'.last > drag.last)
  BY DEF StepFollows
<1>1. PICK offset \in Reach : drag # NoDrag /\ MovePointer(drag.divider.coordinate + offset)
  BY OnlyMovementsOfferSteps
<1> DEFINE coordinate == drag.divider.coordinate + offset
<1>2. coordinate \in Int
  BY <1>1, ResizeAssumption DEF PointerInv
<1>3. MovePointer(coordinate)
  BY <1>1
<1> HIDE DEF coordinate
<1>4. Len(actions) \in Nat
  BY DEF DragInv, IsQueue
<1>5. actions' # actions
  BY <1>4
<1>6. /\ Steps(drag, coordinate) # 0
      /\ \E forward \in BOOLEAN :
           /\ forward = (Steps(drag, coordinate) > 0)
           /\ Offer([kind |-> "resize", drag |-> drag.sequence, divider |-> drag.divider,
                     forward |-> forward, panes |-> drag.panes])
  BY <1>3, <1>5, MovementOffers
<1>7. PICK forward \in BOOLEAN :
        /\ forward = (Steps(drag, coordinate) > 0)
        /\ Offer([kind |-> "resize", drag |-> drag.sequence, divider |-> drag.divider,
                  forward |-> forward, panes |-> drag.panes])
  BY <1>6
<1>8. /\ Len(actions') = Len(actions) + 1
      /\ actions'[Len(actions) + 1]
           = [kind |-> "resize", drag |-> drag.sequence, divider |-> drag.divider,
              forward |-> forward, panes |-> drag.panes]
  BY <1>5, <1>7, QueueOffered DEF DragInv
<1>9. actions'[Len(actions')].forward = forward
  BY <1>8
<1>10. drag'.last = coordinate
  <2>1. drag' = Updated(drag, coordinate)
    BY <1>3 DEF MovePointer
  <2>2. drag = [divider |-> drag.divider, last |-> drag.last, residual |-> drag.residual,
                sequence |-> drag.sequence, panes |-> drag.panes]
    BY <1>1 DEF PointerInv
  <2> QED
    BY <2>1, <2>2 DEF Updated
<1>11. coordinate # drag.last => (Steps(drag, coordinate) > 0 <=> coordinate > drag.last)
  BY <1>1, <1>2, <1>6, StepsHaveTheSignOfTheMovement
<1>12. coordinate # drag.last => (forward <=> coordinate > drag.last)
  BY <1>7, <1>11
<1> QED
  BY <1>9, <1>10, <1>12

\* For every step of a divider, every limit on the steps of a movement and every way
\* the queue fills: what a movement offers never goes against it.
THEOREM SpecStepsFollowPointer == ResizeSpec => StepsFollowPointer
<1>1. ResizeInit => TreeInv /\ DragInv /\ FocusInv /\ PointerInv
  <2> SUFFICES ASSUME ResizeInit
               PROVE  PointerInv
    BY InitTree, InitDrag
  <2> QED
    BY DEF ResizeInit, PointerInv
<1>2. TreeInv /\ DragInv /\ FocusInv /\ PointerInv /\ [ResizeNext]_resize_vars
        => (TreeInv /\ DragInv /\ FocusInv /\ PointerInv)'
  BY TreeStep, DragStep, FocusStep, PointerStep
<1>3. DragInv /\ PointerInv /\ [ResizeNext]_resize_vars => [StepFollows]_resize_vars
  BY StepFollowsPointer
<1>4. ResizeSpec => [][StepFollows]_resize_vars
  BY <1>1, <1>2, <1>3, PTL DEF ResizeSpec
<1> QED
  BY <1>4 DEF StepsFollowPointer, StepFollows

-----------------------------------------------------------------------------
(***************************************************************************)
(* Types of the pane tree, the drag and its messages.                      *)
(***************************************************************************)
SplitsTyped == \A p \in DOMAIN splits : splits[p] \in [axis: Axis, at: SplitPoint]

DragTyped ==
  /\ next_sequence <= MaxDrags
  /\ drag # NoDrag => IsDivider(drag.divider) /\ drag.panes \subseteq Rectangle

QueueTyped == Len(actions) <= Capacity /\ \A i \in 1..Len(actions) : IsMessage(actions[i])

DisturbedTyped == disturbed \in BOOLEAN

LEMMA TypesOfResize ==
  TreeInv /\ DragInv /\ PointerInv /\ SplitsTyped /\ DragTyped /\ QueueTyped /\ DisturbedTyped
    => ResizeTypeOK
BY DEF ResizeTypeOK, TreeInv, IsTree, AreasFit, DragInv, PointerInv, SplitsTyped, DragTyped,
       QueueTyped, DisturbedTyped

\* A divider that can be captured has a point to focus.
LEMMA CapturedIsDivider ==
  ASSUME NEW panes, panes \subseteq Rectangle, NEW d, Captured(d, panes)
  PROVE  IsDivider(d)
<1>1. d \in Dividers(panes) /\ d.focus_point # NoFocusPoint
  BY DEF Captured, Capturable
<1>2. d.axis \in Axis /\ d.coordinate \in Int /\ d.step \in Nat /\ d.step > 0
  BY <1>1, DividersAreMeasured
<1>3. PICK axis \in Axis, leading \in panes, trailing \in panes :
        d = Divider(axis, leading, trailing, panes)
  BY <1>1, DividersLieBetweenPanes
<1>4. \A a \in Axis : /\ leading[a].lo \in Int /\ leading[a].hi \in Int
                      /\ trailing[a].lo \in Int /\ trailing[a].hi \in Int
  BY DEF Rectangle, Interval
<1>5. axis \in Axis /\ Cross(axis) \in Axis
  BY DEF Axis, Cross
<1>6. d.span \in Interval
  <2>1. d.span = [lo |-> Larger(leading[Cross(axis)].lo, trailing[Cross(axis)].lo),
                  hi |-> Smaller(leading[Cross(axis)].hi, trailing[Cross(axis)].hi)]
    BY <1>3 DEF Divider
  <2>2. /\ Larger(leading[Cross(axis)].lo, trailing[Cross(axis)].lo) \in Int
        /\ Smaller(leading[Cross(axis)].hi, trailing[Cross(axis)].hi) \in Int
    BY <1>4, <1>5 DEF Larger, Smaller
  <2> QED
    BY <2>1, <2>2 DEF Interval
<1>7. d.band \in Interval
  <2> DEFINE start == Smaller(leading[axis].hi, trailing[axis].lo)
             end == Larger(Larger(leading[axis].hi, trailing[axis].lo), start + 1)
  <2>1. d.band = [lo |-> start, hi |-> end]
    BY <1>3 DEF Divider
  <2>2. start \in Int
    BY <1>4 DEF Smaller
  <2>3. Larger(leading[axis].hi, trailing[axis].lo) \in Int
    BY <1>4 DEF Larger
  <2> HIDE DEF start
  <2>4. end \in Int
    BY <2>2, <2>3 DEF Larger
  <2> QED
    BY <2>1, <2>2, <2>4 DEF Interval
<1>8. ASSUME NEW pane \in Rectangle
      PROVE  LeadingInsetPoint(pane, axis) \in [Axis -> Int]
  <2>1. \A a \in Axis : pane[a].lo \in Int /\ pane[a].hi \in Int
    BY DEF Rectangle, Interval
  <2>2. FocusInset \in Nat
    BY LayoutAssumption
  <2>3. InsetFromStart(pane[axis]) \in Int
    <3>1. Quotient(pane[axis].hi - pane[axis].lo - 1, 2) \in Int
      BY <2>1 DEF Quotient
    <3>2. Smaller(FocusInset, Quotient(pane[axis].hi - pane[axis].lo - 1, 2)) \in Int
      BY <2>2, <3>1 DEF Smaller
    <3>3. Larger(0, Smaller(FocusInset, Quotient(pane[axis].hi - pane[axis].lo - 1, 2))) \in Int
      BY <3>2 DEF Larger
    <3> QED
      BY <2>1, <3>3 DEF InsetFromStart
  <2>4. \A a \in Axis : Midpoint(pane[a].lo, pane[a].hi) \in Int
    BY <2>1 DEF Midpoint, Quotient
  <2> QED
    BY <2>3, <2>4 DEF LeadingInsetPoint
<1>9. d.focus_point \in [Axis -> Int]
  <2>1. d.focus_point = FocusPoint(axis, leading, trailing, panes)
    BY <1>3 DEF Divider
  <2>2. \/ d.focus_point = LeadingInsetPoint(leading, axis)
        \/ d.focus_point = LeadingInsetPoint(trailing, axis)
    BY <1>1, <2>1 DEF FocusPoint
  <2> QED
    BY <1>8, <2>2
<1> QED
  BY <1>2, <1>6, <1>7, <1>9 DEF IsDivider

LEMMA SplitsStepTyped ==
  ASSUME SplitsTyped, [ResizeNext]_resize_vars
  PROVE  SplitsTyped'
<1>1. ASSUME NEW axis \in Axis, NEW at \in SplitPoint, SplitPane(axis, at)
      PROVE  SplitsTyped'
  <2>1. splits' = [p \in DOMAIN splits \cup {focused} |->
                     IF p = focused THEN [axis |-> axis, at |-> at] ELSE splits[p]]
    BY <1>1 DEF SplitPane
  <2> QED
    BY <2>1 DEF SplitsTyped
<1>2. CASE splits' = splits
  BY <1>2 DEF SplitsTyped
<1>3. ASSUME NEW p, UserFocus(p) \/ OfferFocus(p)
      PROVE  SplitsTyped'
  BY <1>2, <1>3 DEF UserFocus, OfferFocus, tree_vars
<1>4. ASSUME NEW point, Press(point)
      PROVE  SplitsTyped'
  BY <1>2, <1>4 DEF Press, tree_vars
<1>5. ASSUME NEW coordinate, MovePointer(coordinate)
      PROVE  SplitsTyped'
  BY <1>2, <1>5 DEF MovePointer, tree_vars
<1>6. CASE ObserveLayout \/ Release \/ RunFocus \/ FocusForDrag \/ FocusFails \/ RunResize
  BY <1>2, <1>6 DEF ObserveLayout, Release, RunFocus, FocusForDrag, FocusFails, RunResize, tree_vars
<1>7. CASE UNCHANGED resize_vars
  BY <1>2, <1>7 DEF resize_vars, tree_vars
<1> QED
  BY <1>1, <1>3, <1>4, <1>5, <1>6, <1>7 DEF ResizeNext

LEMMA DisturbedStep ==
  ASSUME DisturbedTyped, [ResizeNext]_resize_vars
  PROVE  DisturbedTyped'
<1>1. CASE disturbed' = disturbed
  BY <1>1, Zenon DEF DisturbedTyped
<1>2. CASE disturbed' = TRUE \/ disturbed' = FALSE
  BY <1>2, Zenon DEF DisturbedTyped
<1>3. ASSUME NEW axis, NEW at, SplitPane(axis, at)
      PROVE  DisturbedTyped'
  BY <1>2, <1>3, Zenon DEF SplitPane
<1>4. ASSUME NEW p, UserFocus(p)
      PROVE  DisturbedTyped'
  BY <1>2, <1>4, Zenon DEF UserFocus
<1>5. CASE RunFocus \/ FocusForDrag
  BY <1>2, <1>5, Zenon DEF RunFocus, FocusForDrag
<1>6. ASSUME \/ \E p \in Leaves : OfferFocus(p)
             \/ \E point \in Point : Press(point)
             \/ \E offset \in Reach : MovePointer(drag.divider.coordinate + offset)
             \/ ObserveLayout \/ Release \/ FocusFails \/ RunResize \/ UNCHANGED resize_vars
      PROVE  disturbed' = disturbed
  BY <1>6 DEF OfferFocus, Press, MovePointer, ObserveLayout, Release, FocusFails, RunResize,
              resize_vars, action_vars
<1> QED
  BY <1>1, <1>3, <1>4, <1>5, <1>6, Zenon DEF ResizeNext

LEMMA DragTypedStep ==
  ASSUME DragInv, PointerInv, DragTyped, [ResizeNext]_resize_vars
  PROVE  DragTyped'
<1>1. CASE UNCHANGED <<drag, next_sequence>>
  BY <1>1 DEF DragTyped
<1>2. ASSUME NEW point, Press(point)
      PROVE  DragTyped'
  <2>1. next_sequence < MaxDrags /\ next_sequence' = next_sequence + 1
    BY <1>2 DEF Press
  <2>2. PICK d \in DividersAt(layout, point) :
          /\ Capturable(d)
          /\ drag' = [divider |-> d, last |-> point[d.axis], residual |-> 0,
                      sequence |-> next_sequence', panes |-> layout]
    BY <1>2 DEF Press
  <2>3. d \in Dividers(layout) /\ layout \subseteq Rectangle
    BY <2>2 DEF DividersAt, PointerInv
  <2>4. IsDivider(d)
    BY <2>2, <2>3, CapturedIsDivider DEF Captured
  <2>5. drag'.divider = d /\ drag'.panes = layout
    BY <2>2
  <2>6. next_sequence' <= MaxDrags
    BY <2>1, ResizeAssumption DEF DragInv
  <2> QED
    BY <2>3, <2>4, <2>5, <2>6 DEF DragTyped
<1>3. ASSUME NEW coordinate, MovePointer(coordinate)
      PROVE  DragTyped'
  <2>1. drag # NoDrag /\ drag' = Updated(drag, coordinate) /\ next_sequence' = next_sequence
    BY <1>3 DEF MovePointer
  <2>2. drag = [divider |-> drag.divider, last |-> drag.last, residual |-> drag.residual,
                sequence |-> drag.sequence, panes |-> drag.panes]
    BY <2>1 DEF DragInv
  <2>3. drag'.divider = drag.divider /\ drag'.panes = drag.panes
    BY <2>1, <2>2 DEF Updated
  <2>4. next_sequence <= MaxDrags /\ IsDivider(drag.divider) /\ drag.panes \subseteq Rectangle
    BY <2>1 DEF DragTyped
  <2> QED
    BY <2>1, <2>3, <2>4 DEF DragTyped
<1>4. CASE Release
  BY <1>4 DEF Release, DragTyped
<1>5. ASSUME NEW axis, NEW at, SplitPane(axis, at)
      PROVE  DragTyped'
  BY <1>1, <1>5 DEF SplitPane
<1>6. ASSUME NEW p, UserFocus(p) \/ OfferFocus(p)
      PROVE  DragTyped'
  BY <1>1, <1>6 DEF UserFocus, OfferFocus
<1>7. CASE ObserveLayout \/ RunFocus \/ FocusForDrag \/ FocusFails \/ RunResize
  BY <1>1, <1>7 DEF ObserveLayout, RunFocus, FocusForDrag, FocusFails, RunResize
<1>8. CASE UNCHANGED resize_vars
  BY <1>1, <1>8 DEF resize_vars
<1> QED
  BY <1>2, <1>3, <1>4, <1>5, <1>6, <1>7, <1>8 DEF ResizeNext

\* What was offered to the queue: nothing, or a message of its type.
LEMMA OfferedTyped ==
  ASSUME IsQueue, QueueTyped, NEW message, Offer(message), IsMessage(message)',
         next_sequence' = next_sequence
  PROVE  QueueTyped'
<1>1. CASE actions' = actions
  BY <1>1 DEF QueueTyped, IsMessage
<1>2. CASE actions' # actions
  <2>1. Len(actions) < Capacity
    BY <1>2 DEF Offer
  <2>2. /\ Len(actions') = Len(actions) + 1 /\ Len(actions) \in Nat
        /\ actions'[Len(actions) + 1] = message
        /\ \A i \in 1..Len(actions) : actions'[i] = actions[i]
    BY <1>2, QueueOffered DEF IsQueue
  <2>3. Len(actions') <= Capacity
    BY <2>1, <2>2, ResizeAssumption
  <2>4. ASSUME NEW i \in 1..Len(actions')
        PROVE  \E m : m = actions'[i] /\ IsMessage(m)'
    <3>1. CASE i \in 1..Len(actions)
      <4>1. \A m : IsMessage(m) => IsMessage(m)'
        BY DEF IsMessage
      <4> QED
        BY <2>2, <3>1, <4>1 DEF QueueTyped
    <3>2. CASE i = Len(actions) + 1
      BY <2>2, <3>2
    <3> QED
      BY <2>2, <3>1, <3>2
  <2> QED
    BY <2>3, <2>4 DEF QueueTyped, IsMessage
<1> QED
  BY <1>1, <1>2

LEMMA QueueTypedStep ==
  ASSUME TreeInv, DragInv, DragTyped, QueueTyped, [ResizeNext]_resize_vars
  PROVE  QueueTyped'
<1>1. CASE UNCHANGED <<actions, next_sequence>>
  BY <1>1 DEF QueueTyped, IsMessage
<1>2. ASSUME NEW point, Press(point)
      PROVE  QueueTyped'
  <2>1. actions' = actions /\ next_sequence' = next_sequence + 1 /\ next_sequence \in Nat
    BY <1>2 DEF Press, action_vars, DragInv
  <2>2. \A m : IsMessage(m) => IsMessage(m)'
    BY <2>1 DEF IsMessage
  <2> QED
    BY <2>1, <2>2 DEF QueueTyped
<1>3. ASSUME NEW coordinate, MovePointer(coordinate)
      PROVE  QueueTyped'
  <2>1. drag # NoDrag /\ next_sequence' = next_sequence
    BY <1>3 DEF MovePointer
  <2>2. CASE actions' = actions
    BY <1>1, <2>1, <2>2
  <2>3. ASSUME NEW forward \in BOOLEAN,
               Offer([kind |-> "resize", drag |-> drag.sequence, divider |-> drag.divider,
                      forward |-> forward, panes |-> drag.panes])
        PROVE  QueueTyped'
    <3> DEFINE message == [kind |-> "resize", drag |-> drag.sequence, divider |-> drag.divider,
                           forward |-> forward, panes |-> drag.panes]
    <3>1. /\ drag.sequence \in 1..next_sequence /\ IsDivider(drag.divider)
          /\ drag.panes \subseteq Rectangle
      BY <2>1 DEF DragInv, DragTyped
    <3>2. message.kind = "resize" /\ message.drag = drag.sequence
          /\ message.divider = drag.divider /\ message.panes = drag.panes
      OBVIOUS
    <3>3. message.forward \in BOOLEAN
      BY Zenon
    <3> HIDE DEF message
    <3>4. message.drag \in 1..next_sequence' /\ IsDivider(message.divider)
          /\ message.panes \subseteq Rectangle
      BY <2>1, <3>1, <3>2
    <3>5. \E m : m = message /\ m.kind = "resize" /\ m.drag \in 1..next_sequence'
                 /\ IsDivider(m.divider) /\ m.forward \in BOOLEAN /\ m.panes \subseteq Rectangle
      BY <3>2, <3>3, <3>4, Zenon
    <3>6. \E m : m = message /\ Offer(m) /\ IsMessage(m)'
      BY <2>3, <3>5, Zenon DEF IsMessage, message
    <3> QED
      BY <2>1, <3>6, OfferedTyped DEF DragInv
  <2> QED
    BY <1>3, <2>2, <2>3, MovementOffers
<1>4. ASSUME NEW p \in Leaves, OfferFocus(p)
      PROVE  QueueTyped'
  <2> DEFINE message == [kind |-> "focus", pane |-> p]
  <2>1. Offer(message) /\ next_sequence' = next_sequence
    BY <1>4 DEF OfferFocus
  <2>2. message.kind = "focus" /\ message.pane \in Seq({1, 2})
    BY DEF TreeInv, IsTree, Leaves
  <2>3. IsMessage(message)'
    BY <2>2 DEF IsMessage
  <2> QED
    BY <2>1, <2>3, OfferedTyped DEF DragInv
<1>5. CASE RunFocus \/ FocusFails \/ RunResize
  <2>1. actions # << >> /\ actions' = Tail(actions) /\ next_sequence' = next_sequence
    BY <1>5 DEF RunFocus, FocusFails, RunResize, NeedsFocus, HeadIs
  <2>2. /\ IsQueue'
        /\ \A i \in 1..Len(actions') : i + 1 \in 1..Len(actions) /\ actions'[i] = actions[i + 1]
    BY <2>1, QueueTaken DEF DragInv
  <2>3. Len(actions') <= Capacity
    <3>1. Len(actions') \in Nat /\ Len(actions) \in Nat /\ Len(actions) <= Capacity
      BY <2>2 DEF IsQueue, DragInv, QueueTyped
    <3>2. Len(actions') = 0 \/ Len(actions') \in 1..Len(actions')
      BY <3>1
    <3>3. Len(actions') = 0 \/ Len(actions') + 1 \in 1..Len(actions)
      BY <2>2, <3>2
    <3> QED
      BY <3>1, <3>3, ResizeAssumption
  <2>4. \A i \in 1..Len(actions') : \E m : m = actions'[i] /\ IsMessage(m)'
    <3>1. \A m : IsMessage(m) => IsMessage(m)'
      BY <2>1 DEF IsMessage
    <3> QED
      BY <2>2, <3>1 DEF QueueTyped
  <2> QED
    BY <2>3, <2>4 DEF QueueTyped, IsMessage
<1>6. ASSUME NEW axis, NEW at, SplitPane(axis, at)
      PROVE  QueueTyped'
  BY <1>1, <1>6 DEF SplitPane
<1>7. ASSUME NEW p, UserFocus(p)
      PROVE  QueueTyped'
  BY <1>1, <1>7 DEF UserFocus
<1>8. CASE ObserveLayout \/ Release \/ FocusForDrag
  BY <1>1, <1>8 DEF ObserveLayout, Release, FocusForDrag, action_vars
<1>9. CASE UNCHANGED resize_vars
  BY <1>1, <1>9 DEF resize_vars, action_vars
<1> QED
  BY <1>2, <1>3, <1>4, <1>5, <1>6, <1>7, <1>8, <1>9 DEF ResizeNext

\* Type correctness of the pane tree, the drag and its messages, for every window, every
\* border and every capacity of the queue.
THEOREM SpecResizeTypeOK == ResizeSpec => []ResizeTypeOK
<1> DEFINE Inv == TreeInv /\ DragInv /\ PointerInv
           Types == SplitsTyped /\ DragTyped /\ QueueTyped /\ DisturbedTyped
<1>1. ResizeInit => Inv /\ Types
  <2> SUFFICES ASSUME ResizeInit
               PROVE  PointerInv /\ Types
    BY InitTree, InitDrag
  <2>1. /\ DOMAIN splits = {} /\ layout = {} /\ drag = NoDrag /\ next_sequence = 0
        /\ actions = << >>
    BY DEF ResizeInit
  <2>2. PointerInv /\ SplitsTyped
    BY <2>1 DEF PointerInv, SplitsTyped
  <2>3. DragTyped /\ QueueTyped
    BY <2>1, ResizeAssumption DEF DragTyped, QueueTyped
  <2>4. DisturbedTyped
    BY Zenon DEF ResizeInit, DisturbedTyped
  <2> QED
    BY <2>2, <2>3, <2>4
<1>2. Inv /\ Types /\ [ResizeNext]_resize_vars => (Inv /\ Types)'
  BY TreeStep, DragStep, PointerStep, SplitsStepTyped, DragTypedStep, QueueTypedStep, DisturbedStep
<1>3. Inv /\ Types => ResizeTypeOK
  BY TypesOfResize
<1> QED
  BY <1>1, <1>2, <1>3, PTL DEF ResizeSpec

=============================================================================
