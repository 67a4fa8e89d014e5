------------------------------ MODULE Registry ------------------------------
(***************************************************************************)
(* The action registry of src/registry.rs: one row per configurable        *)
(* action, from which the shortcut specs of the prefix layer and the       *)
(* bindings installed in Windows Terminal (src/keymap.rs) both derive.     *)
(***************************************************************************)
EXTENDS KeyTable

\* What a shortcut dispatches: a terminal action with its argument, or shutdown.
Action(kind, arg) == [kind |-> kind, arg |-> arg]
Shutdown == Action("Shutdown", "none")

Entry(name, chord, action) == [name |-> name, default_chord |-> chord, action |-> action]

Direction == <<"left", "right", "up", "down">>

Directed(names, mods, kind) ==
  [i \in DOMAIN Direction |->
     Entry(names[i], MkChord(mods, Direction[i]), Action(kind, Direction[i]))]

Plain(name, key, kind) == Entry(name, MkChord({}, key), Action(kind, "none"))

TabNames ==
  <<"activate_tab_0", "activate_tab_1", "activate_tab_2", "activate_tab_3",
    "activate_tab_4", "activate_tab_5", "activate_tab_6", "activate_tab_7",
    "activate_tab_8", "activate_tab_9">>

PaneEntries ==
  Directed(<<"split_left", "split_right", "split_up", "split_down">>,
           {"shift"}, "SplitPane")
  \o Directed(<<"focus_left", "focus_right", "focus_up", "focus_down">>,
              {}, "FocusPane")
  \o Directed(<<"resize_left", "resize_right", "resize_up", "resize_down">>,
              {"ctrl"}, "ResizePane")

ActivateTabEntries ==
  [i \in DOMAIN TabNames |->
     Entry(TabNames[i], MkChord({}, Digit[i]), Action("ActivateTab", Digit[i]))]

TabEntries ==
  <<Plain("send_prefix_literal", "b", "SendPrefixLiteral"),
    Plain("new_tab", "c", "NewTab"),
    Plain("next_tab", "n", "NextTab"),
    Plain("previous_tab", "p", "PreviousTab")>>
  \o ActivateTabEntries
  \o <<Plain("close_pane", "x", "ClosePane"),
       Plain("toggle_zoom", "z", "TogglePaneZoom"),
       Plain("rename_tab", "comma", "RenameTab")>>

\* Every action in the order of the bridge table, shutdown last.
Actions == PaneEntries \o TabEntries \o <<Entry("shutdown", MkChord({}, "q"), Shutdown)>>

IsShutdown(entry) == entry.action = Shutdown

\* Only shutdown may not be disabled.
AllowDisabled(entry) == ~IsShutdown(entry)

-----------------------------------------------------------------------------
\* The bridge chord of the i-th managed row: ten high function keys, F16 and
\* F17 left out, under one group of modifiers after the other.
BridgeFunctionKey == <<13, 14, 15, 18, 19, 20, 21, 22, 23, 24>>
BridgeModifiers ==
  <<{"ctrl", "alt", "shift"}, {"ctrl", "shift"}, {"alt", "shift"}>>

BridgeChord(i) ==
  [mods |-> BridgeModifiers[((i - 1) \div 10) + 1],
   function_key |-> BridgeFunctionKey[((i - 1) % 10) + 1]]

Managed == {i \in DOMAIN Actions : ~IsShutdown(Actions[i])}

\* managed_bindings: the rows Windows Terminal is given, in registry order.
managed_bindings ==
  [i \in Managed |->
     [action |-> Actions[i].action, id |-> Actions[i].name,
      bridge_chord |-> BridgeChord(i)]]

BindingForAction(action) == {b \in {managed_bindings[i] : i \in Managed} : b.action = action}

\* The command Windows Terminal runs for a managed action.
TerminalCommand(action) ==
  CASE action.kind = "SendPrefixLiteral" -> <<"sendInput", "ctrl+b">>
    [] action.kind = "SplitPane"   -> <<"splitPane", action.arg>>
    [] action.kind = "FocusPane"   -> <<"moveFocus", action.arg>>
    [] action.kind = "ResizePane"  -> <<"resizePane", action.arg>>
    [] action.kind = "ActivateTab" -> <<"switchToTab", action.arg>>
    [] action.kind = "NewTab"      -> <<"newTab">>
    [] action.kind = "NextTab"     -> <<"nextTab">>
    [] action.kind = "PreviousTab" -> <<"prevTab">>
    [] action.kind = "ClosePane"   -> <<"closePane">>
    [] action.kind = "TogglePaneZoom" -> <<"togglePaneZoom">>
    [] action.kind = "RenameTab"   -> <<"openTabRenamer">>

-----------------------------------------------------------------------------
\* SPEC_ORDER, one-based: the order in which the shortcuts are compiled.
SPEC_ORDER ==
  <<5, 6, 7, 8, 1, 2, 3, 4, 9, 10, 11, 12, 14, 15, 16, 17, 18, 19, 20, 21, 22,
    23, 24, 25, 26, 27, 28, 29, 13, 30>>

shortcut_specs == [i \in DOMAIN SPEC_ORDER |-> Actions[SPEC_ORDER[i]]]

KnownName == {Actions[i].name : i \in DOMAIN Actions}

Injective(f) == \A i, j \in DOMAIN f : f[i] = f[j] => i = j

\* The assertions the registry compiles with.
RegistryIsConsistent ==
  /\ \E i \in DOMAIN Actions : {i} = DOMAIN Actions \ Managed
  /\ Injective(SPEC_ORDER)
  /\ {SPEC_ORDER[i] : i \in DOMAIN SPEC_ORDER} = DOMAIN Actions
  /\ Injective([i \in DOMAIN Actions |-> Actions[i].name])
  /\ Injective([i \in DOMAIN Actions |-> Actions[i].default_chord])
  /\ Injective([i \in Managed |-> managed_bindings[i].action])
  /\ Injective([i \in Managed |-> managed_bindings[i].bridge_chord])

ASSUME RegistryAssumption == RegistryIsConsistent

=============================================================================
