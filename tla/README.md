# Winter: TLA+ models, model checking and proofs

Winter (`src/`) adds a tmux-like prefix key to Windows Terminal. A controller process
installs low-level keyboard and mouse hooks, decides for every key event whether the
application in the foreground may see it, turns commands into key chords Windows Terminal
is bound to, drags pane dividers with the mouse, and publishes a dashboard to a
`winter ui` pane. `winter install` edits Windows Terminal's settings so that those chords
exist; `winter uninstall` takes them out again.

This directory holds TLA+ models of the parts of Winter whose behaviour depends on order,
concurrency, failure or time, the TLC configurations that check them on small instances,
and TLAPS proofs that most of what the runs check holds for every instance: of the key
path, the controller and its chords, its start, the dashboard, the desktop observer, pane
drags, install, migration and the logon task.
`PROJECT.json` lists the runs, the mutants, the source lines behind every
definition (`map`), the hazards and the theorems.

All paths below are relative to `src/src/` unless they start with `docs/`.

## 1. The system

### 1.1 Processes and threads

| Actor | Code | Talks to |
|---|---|---|
| main thread | `controller.rs` `run` | starts the others; waits on the shutdown channel and a health watchdog; stops and joins them |
| hook thread | `platform/windows/hook.rs`, `controller.rs` `HookDispatcher` | reads the observer's snapshot, offers messages to the worker with `try_send`, sends shutdown |
| action worker | `controller/action_worker.rs` | a bounded queue in, UI Automation and `SendInput` out |
| observer | `controller/desktop.rs` | writes the snapshot and `dashboard.json`, reads `command.json`, offers commands to the worker |
| `winter ui` | `ui.rs` | a process of its own: reads `dashboard.json`, writes `command.json` |
| `winter install` / `uninstall` | `integration/` | a process of its own: fragment, `settings.json` per channel, manifest |
| `winter launch`, `run`, `winterd` | `cli.rs`, `bin/winterd.rs` | processes that meet in `config.toml`, the bridge and a named mutex; one of them becomes the controller |
| user and Windows | - | keys, clicks, foreground changes, UAC and lock screen, edits of settings, kills |

### 1.2 Components

For each: the state it keeps, its operations, what is hard about it, what makes it correct.

**Prefix state machine** (`prefix.rs`). State: idle or armed (target window, deadline,
prefix key, whether it was released) and the ledger of swallowed keys. Operations:
`handle_key_event`, `cancel`, `observe_foreground`. Called for every key event by the hook
dispatcher. Hard: the deadline, the foreground and the ledger are settled before each
event, so one event can end one session and begin another; keys overlap; repeats arrive
after their session is over. Correct when every keystroke goes one way, a session's deadline
is fixed, a command ends its session, the literal prefix waits for the release.

**Keyboard normalizer** (`controller/keyboard.rs`). State: modifiers down, their slots.
Turns virtual keys into chords. Hard: Windows does not deliver what happens on the secure
desktop, may name a side by the virtual key of the whole modifier, and may note a release only
after the hook has run. Correct when a modifier is reported exactly while it is held, and
when no missed release makes Winter swallow another application's keys.

**Hook dispatcher** (`controller.rs` `HookDispatcher`, `controller/pointer.rs`). State:
the machine, the last snapshot read, the shutdown key awaiting its release, the drag. It
runs in a callback with a time limit, so it never blocks: it takes the observer's snapshot
only if the lock is free and offers to the queue only if there is room. Correct when it
captures only what is typed into, or clicked on, a terminal that is in the foreground
*now*, and when the release that stops Winter is swallowed like its press.

**Controller run** (`controller.rs` `run`). State: the thread handles, the shutdown
channel, the health flags. Hard: six ways to stop (handshake, hook thread gone, handler
panicked, hook never started, join timeout, full queue). Correct when each stop ends, the
report counts everything, and no thread writes the dashboard after its removal.

**Action worker** (`controller/action_worker.rs`). State: the queue, two counters, the
drag it last focused a pane for. Correct when Stop is behind every accepted message, the
counters say what became of each, and a resize reaches the divider the user grabbed.

**Pane geometry and drag** (`pane_layout.rs`, `controller/pointer.rs`). Rectangles from UI
Automation to dividers, hit test, a focus point that makes Windows Terminal move the right
splitter, pixels to resize steps. Hard: Windows Terminal exposes no pane tree; several trees
produce the same rectangles; the layout the hook knows is old; messages get dropped.

**Desktop observer** (`controller/desktop.rs`, `platform/windows/foreground.rs`,
`accessibility.rs`). State: the snapshot with the foreground terminal and its panes, the
handle it was resolved for, tab cache, focus history; the copy behind the lock. One
operation, a pass: resolve the foreground, read geometry, read tabs, publish, take a command.
Hard: the desktop changes between any two reads, queries fail or return a part, a window
handle is reused, a command was chosen on a frame drawn earlier. Correct when nothing of one
window is taken for another's, the dashboard catches up, and a choice is carried out as shown.

**Dashboard** (`dashboard.rs`, `ui.rs`). State: `last_written`; `dashboard.json` and its
temporary, `command.json`; in the pane the frame drawn and the cursor. Hard: two processes
share two files without a lock, either may die between any two steps, and each write, replace
and remove may fail.

**Start of a controller** (`cli.rs`, `bin/winterd.rs`, `config.rs`,
`platform/windows/single_instance.rs`, `elevation.rs`). State: `config.toml`, the bridge, the
named mutex; in a process its configuration. Operations: `launch`, `run`, `config`, `doctor`
and the daemon in three modes, each a fixed series of steps through UAC, configuration and
bridge to the mutex. Hard: nothing orders the steps of two of them, the successors run
without a console, the user edits the file meanwhile. Correct when one controller runs at a
time with a sound key map, the user's configuration survives, and a launch comes to something.

**Key and action tables** (`keys.rs`, `keymap.rs`, `registry.rs`, and the chord parser of
`prefix.rs`). Constant. Correct when the tables derived from them agree: each action has one
bridge binding, each key one virtual key, each enabled shortcut its own chord.

**Settings editor** (`integration/jsonc.rs`). State: none; a file's text in, a file's text
out. Operations: merge and analyze the wanted keybindings, remove the managed ones, sweep the
legacy ones. Hard: the user's own entries of every shape, valid or not, may share a chord or
an id with Winter's. Correct when a merge only appends, a plan foretells it, and removal
undoes it.

**Settings integration** (`integration/`: `mod.rs`, `transaction.rs`, `rollback.rs`,
`fragment.rs`, `targets.rs`, `manifest.rs`). State: the fragment, the settings
of each channel, the manifest, the backups; in memory the undo stack. Operations: `install`,
`uninstall`. Hard: the user and Windows Terminal save the same files meanwhile, file
operations fail halfway, the process is killed. Correct when no user edit is lost, a failed
install leaves nothing behind, and what Winter added stays accounted for.

**Shell profiles** (`integration/shell.rs`). State: the text of each PowerShell profile, in
which Winter keeps one block between markers. Operations: install (add or refresh the
block), uninstall (unless it was edited), and the sweep of the blocks of earlier product
names. Hard: the file is the user's, who copies, edits and deletes blocks and rewrites
newlines. Correct when the user's text survives, removal restores it, and a report is true.

**Legacy migration** (`integration/legacy.rs`). State: up to five kinds of artifacts of
earlier versions. One operation of nine steps, run first by every install. Hard: any step
fails or is killed and the whole is run again from what is left, steered by a manifest that
it deletes at its end. Correct when the record outlives what it records, the configuration
is never lost, and it happens once.

**Chord injection** (`platform/windows/input.rs`). State: none but the keyboard's own, which
it shares with the user. Operation: plan from the modifiers held, check the window, check
the modifiers, `SendInput`, clean up what it inserted only in part. Correct when no key is
left down, no key the user holds is released, and the chord arrives as planned.

**Autostart** (`autostart.rs`, `platform/windows/scheduled_task.rs`, `elevation.rs`). State:
one logon task. Operations: status, enable, disable, the last two through an elevated helper
if need be. Hard: nothing locks the task, and `schtasks` says little about why it failed.
Correct when reports are true and nobody else's task is touched.

**Other components.** Planning reports and discovery, small platform helpers, shared types,
the installer script; section 8 says why they are left out, and which parts of the others.

## 2. Modules

| Module | Models | Composition |
|---|---|---|
| `PrefixMachine` | `prefix.rs`, every path of every handler, open to any event | - |
| `KeyFilter` | abstract: what the prefix layer promises the applications behind it | - |
| `KeyboardSession` | a physical keyboard in front of the machine, and a hook that misses events | extends `PrefixMachine`, refines `KeyFilter` |
| `KeyboardNormalizer` | the modifier slots, on a keyboard whose events are missed, misnamed or early | beside `KeyboardSession` in `MCKeyboardSession` |
| `HookDispatcher` | keyboard and mouse callbacks over a snapshot that lags | extends `PrefixMachine` |
| `Controller` | `run` and its four threads, start to stop | - |
| `Dashboard` | the two files between controller and pane | - |
| `PaneLayout` | geometry of dividers and drags, operators only | - |
| `PaneResize` | pointer, queue, worker and Windows Terminal's pane tree | extends `PaneLayout` |
| `Integration` | install, rollback, uninstall, and everyone who interferes | - |
| `SettingsEditor` | what the editor adds to and takes out of a settings file, operators only | - |
| `SettingsEditorCases` | the editor over every small file, and against `Integration` | extends both |
| `ChordInjection` | one chord on a keyboard the user goes on typing on | - |
| `ShellProfile` | install, uninstall and sweep of a profile's block, and the user | - |
| `LegacyMigration` | the migration with its failures, kills and reruns | - |
| `Autostart` | commands and elevated helpers over the logon task | - |
| `KeyTable` | the key table, its two maps, chord parsing | - |
| `Registry` | the action registry and the tables derived from it | extends `KeyTable` |
| `Configuration` | what `config.toml` may hold and which key map it compiles to | extends `Registry` |
| `Startup` | processes on their way to be the controller | extends `Configuration` |
| `DashboardUi` | cursor, rows, sidebar and map of the dashboard, operators only | - |
| `Desktop` | the observer's pass, the pane's choice and the worker's answer | extends `DashboardUi` |
| `PrefixMachineProofs`, `HookDispatcherProofs`, `DashboardProofs` | theorems | extend their module |
| `KeyboardSessionProofs` | theorems about the session and the normalizer | extends both |
| `ControllerProofs` | theorems about `Controller` and `ChordInjection` | extends both |
| `StartupProofs` | theorems about `Startup` and `LegacyMigration` | extends both |
| `DesktopProofs` | theorems about `Desktop` and `PaneResize` | extends both |
| `InstallProofs` | theorems about `Integration` and, through `MCInstall`, `ShellProfile` and `Autostart` | extends `MCInstall` |
| `MC...` | constants of the TLC runs | extend their module |

`PrefixMachine` is the core. The two modules on top give it two different environments:
`KeyboardSession` follows what becomes of each keystroke from press to release, and
`HookDispatcher` follows what the hook thread believes about the desktop. Both reuse the
machine's actions (`HandleUserEvent`, `Cancel`, `Tick`) as they are, so nothing about the
machine is modelled twice.

`MCInstall` puts `Integration`, `ShellProfile` and `Autostart` side by side. They share no
state and no step of one reads what another writes, so their interleavings have nothing to
show; a behaviour moves one of the three and the others rest in an initial state.
`MCKeyboardSession` does the same with `KeyboardSession` and `KeyboardNormalizer`.

### 2.1 How state and actions correspond to the code

*`PrefixMachine`.* `state`, `suppressed_keys` are the fields of the Rust struct,
`outcome` is the `PrefixOutcome` of the last call, `now` is `Instant::now()`. One action per
return path of `handle_key_event`: `PassInjected`, `SwallowLedgerKey`, `PassKeyUp`,
`PassIdleKey`, `ArmPrefix`, `SystemShortcut`, `PassModifier`, `EscapeSession`,
`RefuseLiteral`, `RunCommand`, `ConsumeUnknown`; each begins with the deadline and
foreground checks (`Settled...`), in that order, as the code does. Commands that only
differ in the chord the worker injects are one value, `"action"`. `HandleUserEvent` is the
handler without the injected events, which the hook (`platform/windows/hook.rs:498`) passes
on before any handler.

*`KeyboardSession`.* A key is pressed, repeats while it is the last one pressed, and is
released; `fate` records what became of its press; `MissPress` and `MissRelease` are the
events that happen on another desktop. The chord of a key is a constant function of the
modifiers held, which stands for the normalizer's tables.

*`KeyboardNormalizer`.* `slots` are the eight fields of the struct, a modifier and a side
each. `PressModifier`, `ReleaseModifier` and `OtherKey` are `normalize` for the three kinds of events: `generic`
is an event that names the modifier and not the side, `early` one at which `key_is_down` still
answers with the key that is being released. `disturbed` is history: keys of which an event was
missed or went to the other slot, until an event settles their slot again.

*`HookDispatcher`.* `OnKeyboard` is `on_keyboard` in full: read the snapshot or fall back
to the last known one, filter by the window in the foreground now, call the machine, store
`prefix_armed`, offer the command, advance the shutdown handshake. `LeftDown`, `Move`,
`LeftUp` are the mouse callbacks. `Observe` is the observer's update of the snapshot.

*`Controller`.* `main` is where `run` is; each step that can block or fail is an action
(`DetachHook` is the join timeout, `RetryStop` the loop of `request_stop`). The channel is
`queue`; it is disconnected when no sender is left (`Disconnected`), which depends on which
threads still own a clone. A message is the number of actions it asks the worker for: 1
(`OfferKeyCommand`, and what the observer offers), or the steps of a pointer resize
(`OfferResize`), of which the code never offers one without a step. `FinishCommand` is the
end of the worker's loop: a message that succeeds adds its actions to `dispatched`, one that
fails adds 1 to `failed`, whichever of its steps failed. `accepted`, `carried_out` and
`due` are history, in messages, messages and actions, which only the properties read.

*`Dashboard`.* One action per file operation of a pass of the observer, and of the pane:
staging may be cut short (`Torn`), every write may fail, the controller may be killed
anywhere. What is shown is an abstract `Body`; comparison of bodies is what the code
compares.

*`PaneLayout` / `PaneResize`.* A rectangle is a function from axes to intervals. `Dividers`
is `PaneLayout::from_panes`, `FocusPoint` its `resize_focus_point`, `Total`, `Steps` and
`Updated` are `PaneDrag::update`. Windows Terminal's tree is external and modelled from the
comment on `resize_focus_point`: a resize moves the nearest splitter above the focused pane
on the axis of the direction. `area` has a rectangle for each path from the root; trees are
built by splitting, so the rectangles are those a tree produces, and no pane becomes smaller
than `MinPane`. `actions` is the worker's queue, of which `RunFocus`, `FocusForDrag` and
`RunResize` take the head.

*`Integration`.* A write is the sequence `BackUp`, `Stage` (first comparison), `Recheck`
(second comparison), `Move`, `Verify` (read-back); at every one of them the user may edit,
the operation may fail, or the process may be killed. `StartInstall` and `StartUninstall`
are planning; `InstallFails` classifies the failed write and begins the rollback, which goes
through the same steps. `work` is the set of files a command has still to write; `First` picks
them in the code's order, the manifest last. A settings file is the state of its managed bindings (absent, Winter's
own, with members added by the user, changed, malformed) plus the number of the user edit it
carries; a hash is the content itself.

*`SettingsEditor`.* One operator per function of `jsonc.rs`; a file is the root property
`keybindings`, as often as it occurs, with its entries, and a chord is the sequence of its
parts. `SettingsEditorCases` evaluates them with the run `install`: `MergeOnlyAppends`,
`MergeIsIdempotent`, `PlanForetellsMerge`, `RemovalUndoesMerge`, `RemovalIsIdempotent`,
`ChordsAreCanonical`, `WantedIsManaged`, `SweepNeverObjects`, and `StatesAreEnough`, which
says that the states by which `Integration` tells a binding are enough: what `Conflicting`,
`Additions`, `Merged`, `Removable`, `Removed` and `Retained` say of a file's states is what
merge and removal do to the file.

*`ChordInjection`.* `step` is where `send_chord` is; `SendChord` captures the modifiers and
plans, `CheckTarget` and `Recheck` are the two checks, `Insert(n)` is a `SendInput` that inserts
the first n events and `Cleanup(released)` the one that releases what they left down, or a part
of it. Between any two of them the user
presses and releases keys and changes windows. A press the hook consumes (the literal prefix
is replayed while its key is held) reaches `physical` but not `down`.

*`ShellProfile`.* A text is a sequence of tokens: the user's writing, CR, LF, markers and
bodies, so that the newlines install adds and removal takes away are visible. `Read` decides
what a command would do, `BackUp`, `Check` (twice), `Move` and `Verify` are the write.

*`LegacyMigration`.* `Detect` is the only guard the code has; it fills `todo` with the steps
of `clean`, of which `First` is the one whose turn it is, and each step is an action. `StepPassedOver` is a failure the code
goes on after, `StepFails` one that ends the command, `KillMigration` the end of the process; a
copy or a removal of a directory may have been done in part.

*`Autostart`.* A caller and its helper are two processes with the same program; `Query`,
`Register`, `Delete`, `ReadBack` and `Reread` are one call of `schtasks` each, which may fail
with or without the exit status 1 that the code reads as "no such task".

*`KeyTable`, `Registry`, `Configuration`.* The tables are copied in full, as sets and
sequences of rows; the compiler's assertions are assumptions that TLC evaluates. A chord's
text is the sequence of its tokens. `Compiles` is `prefix_config`: `IsUsable` for every chord,
`ChordsAreDistinct` between them; `Bindings` is the map it returns.

*`Startup`.* `pc[p]` is where a process is; the actions are the steps of `execute`,
`load_or_create` and `run_controller` in the order of the command (`Begin` to `Stopped`).
`Fault` is any of them failing, `ErrorOutcome` says who can read about it. `CreateConfig` is the
hard link that an existing file defeats, `WriteBack` the migration's replacement. `handles` is
the mutex: `Acquire` adds the caller's handle whether it is let in or not, and the end of a
process closes it. The elevated successor and the background controller take the slot of
their parent, which only returns.

*`Desktop`.* `step` is where the observer is: `ResolveForeground`, `RefreshGeometry` or
`SkipGeometry`, `RefreshTabs` or `SkipTabs`, `Publish`, with `Locked` the update behind the
lock. `forced` is a query that is due whatever the clock says. The desktop's own actions
(`SwitchTo`, `Recycle`, `Rearrange`, `ClickTab`, `ClickPane`) are external. `Redraw` and
`Activate` are the pane, `Validate`, `SelectTab` and `FocusPane` the worker. A tab's identity,
which the code does not have, is there for the properties; commands carry what the code
gives them, a position or a point. An enumeration may miss one element, and one element may
not answer; `Without` takes it out by its place.

*`DashboardUi`.* `Rows`, `DefaultSelection`, `Mended`, `Moved` and `ActivationCommand` are the
cursor; `FitSidebar` and its parts are `fit_sidebar` over lines of which only the kind is
known; the `...Height` operators count the lines of each layout. What the pane promises of them
(`CursorReachesEveryRow`, `SidebarFits`, `StatusBarStays`, `MapStaysInGrid`, ...) are
assumptions over small inputs, which TLC evaluates with the run `desktop`.

## 3. Runs

Ten passing runs, each a different question:

| Run | Question | Properties | States |
|---|---|---|---|
| `keyboard_session` | does every keystroke go one way, every session end in time? | `CommandsEndTheirSession`, `OtherAppsKeepTheirKeys`, `LiteralAfterRelease`, `KeystrokesGoOneWay`, `ModifiersAreHeld` | 132,678 |
| `hook_dispatcher` | what is captured when the snapshot is old? | `PendingKeyHeld`, `ButtonGoesOneWay`, `CapturesOnlyTerminals`, `TargetIsForeground` | 62,486 |
| `controller` | does every stop end, completely? | `ReportIsComplete`, `DashboardStaysGone`, `ShutdownCompletes` | 266,558 |
| `dashboard` | what do the two processes see of each other? | `AtMostOnce`, `DashboardStaysReadable`, `LiveIsRecent`, `DashboardCatchesUp` | 131,636 |
| `pane_resize` | does a drag move the divider that was grabbed? | `DragMovesItsDivider`, `StepsFollowPointer` | 1,152,496 |
| `chord_injection` | what does a chord leave on the keyboard? | `KeyboardIsTheUsers`, `HeardAsPlanned` | 537,561 |
| `install` | of what Winter leaves on a machine, what survives, is restored, stays accounted for, is reported? | `UserEditsSurvive`, `FailedInstallRestores`, `NothingOrphaned`, `RemovesOnlyItsOwn` (settings), `UserTextSurvives`, `ReportIsTrue`, `Reversible`, `EditedBlocksSurvive` (profile), `QuietReportIsTrue`, `ForeignIsNotRead` (task) | 1,456,690 |
| `legacy_migration` | what does a migration lose that fails and is repeated? | `RecordOutlivesItsEntries`, `ConfigIsSomewhere` | 1,635,844 |
| `startup` | who runs, with which key map, and what comes of a launch? | `OneController`, `ConfigEditsSurvive`, `RunningConfigIsSound`, `LaunchTakesEffect` | 250 k |
| `desktop` | is what the observer hands out, and what a choice does, of the right window? | `NothingOfAnotherWindow`, `FocusedIsLatest`, `ChoiceIsHonoured`, `DesktopIsSeen` | 646 k |

Two runs check one statement of the documentation each and find it violated: `stop_hangs`
and `legacy_dirs`. The modules state thirteen more that do not hold; section 7.1 says how to
see their counterexamples.

`PrefixMachine` by itself, open to any event (injected ones and `observe_foreground`
included, neither of which the hook produces), is the subject of the proofs in section 5,
as are the invariants `PrefixKeyTracked`, `LedgerIsHeld`, `SlotsAreHeld`, `ArmedIsShown` and
`DeadlineFixed`, and the type invariants that section 5 lists. No configuration lists a type
invariant: each is proved, as a conjunct of an inductive invariant or as what follows from one.

What the less obvious properties say:

- `KeystrokesGoOneWay` is the refinement `KeyboardSession => KeyFilter`: a keystroke the
  filter holds stays held until its release or until the filter lets everything go at once,
  which only happens by disengaging; one the application has begun to see is never
  swallowed half-way, except by the press that arms.
- `OtherAppsKeepTheirKeys`: outside a terminal a press is swallowed only if the hook missed
  that key's last release, the one exception the design has.
- `ModifiersAreHeld`: no ghost modifier: whatever sides are held together and under whatever
  name their releases arrive, a key event reports a modifier exactly if one of its keys is
  down, except for keys a missed or misnamed event has left unsettled.
- `PendingKeyHeld`: the release that stops Winter is consumed: while the handshake is
  pending its key is in the ledger and nothing can have armed or cleared it.
- `TargetIsForeground`, `CapturesOnlyTerminals`: the snapshot and the last known snapshot
  may both be old, yet nothing is captured for, or sent to, a window that is not in front.
- `ReportIsComplete`: Stop is behind every accepted message, so when `run` returns each was
  carried out or is one of the reported failures, and the actions reported are exactly those
  the ones carried out asked for, unless the hook thread was detached and went on offering.
  The report's two numbers have different units: a resize of 3 steps counts 3 when it
  succeeds and 1 when it fails, its first steps then counting nowhere.
- `DashboardCatchesUp`: a failed write is never mistaken for a successful one: after any
  finite number of failures the truth gets into the file.
- `DragMovesItsDivider`: whatever the tree behind the rectangles is and whichever messages
  a full queue dropped, the splitter Windows Terminal moves is the divider that was
  captured, as long as the layout is still the observed one and nobody moved the focus
  meanwhile. The condition on the layout is the code's documented limit; the condition on
  the focus is what `OneFocusIsEnough` (7.1) takes for granted.
- `KeyboardIsTheUsers`: two sides of one cleanup (`NothingStuck`, `HeldKeysStay`). The keyboard afterwards has down
  what the user holds, no more (however little was inserted, unless the error said so) and
  no less (a modifier the user held is neither pressed nor released).
- `HeardAsPlanned`: what arrives differs from the plan only by what changed after the last
  check; the gap between the check and `SendInput` cannot be closed.
- `Reversible`: the text before the first install is the text after the uninstall, to the
  newline, whatever installs, sweeps and failures lie between. One text is exempt: it ends in
  a lone CR and has no CRLF, so that the LF install appends makes it a text with CRLF.
- `RecordOutlivesItsEntries`: the order of the steps and the choice of which may be passed
  over, in one statement: no failure deletes the manifest before what it records.
- `OneController`: the existence of the mutex is the lock, so a process turned away, one that
  is shutting down and one that was killed all have a say in who is let in.
- `ConfigEditsSurvive`: the two writes of `config.toml`, and the one window in which a save is
  lost, in one statement.
- `RunningConfigIsSound`: every enabled shortcut dispatches its own action over one bridge
  chord, the prefix can be injected and is heard as itself, shutdown is reachable, and
  nothing Windows owns is bound; over aliases, defaults and disabled shortcuts.
- `LaunchTakesEffect`: no two launches give up for each other.
- `NothingOfAnotherWindow`: the panes behind the lock and the tabs on show were read from the
  window they come with, whatever happened between the reads of a pass.
- `FocusedIsLatest`: the focus history across windows, tabs, failed reads and passes in which
  nothing could be seen.
- `ChoiceIsHonoured`: the row the user saw is what is selected, although the command holds a
  position or a point and is carried out later, by a new enumeration.
- `DesktopIsSeen`: no throttle, cache or failed query keeps an old desktop on show for ever.
- `ForeignIsNotRead`: the exact guarantee without a lock: somebody else's task is only lost
  to a process that read something different.
- `FailedInstallRestores`, `NothingOrphaned`: see section 7.2 for the three windows they
  leave out, each the residue of a case the code documents or does not handle.

### 3.1 Bounds, and why they are enough

- *Keys, chords, windows.* `keyboard_session`: 4 keys, 2 of them modifiers, since chords
  change under a held key only through modifiers; between them they carry a chord of each
  class the code distinguishes (prefix, command, literal, system shortcut, Escape, modifier,
  unknown), except the binding that stops Winter, which is `hook_dispatcher`'s subject. 2
  windows, which are symmetric, and "none"; deadline 2, clock 3, so that a session can expire
  and another begin and expire. `hook_dispatcher`:
  2 keys (a handshake and a key that disturbs it), 4 chords, 2 windows (snapshot, last known
  and foreground can all differ with "none"; the windows are symmetric, which is sound since
  the run checks no liveness); the handshake window is 0 ticks and the clock
  runs to 2, so that in-time and late releases both occur.
- *Modifiers.* `KeyboardNormalizer` in `keyboard_session`: Alt, which has a context of its own
  besides the shared state Control and Shift have too, and the Windows keys, which have
  neither; any keys down at the start, any number of events.
- *Threads.* Queue of 2, 2 retries of Stop, 3 messages by the hook and 1 by the dashboard:
  the queue fills, drains and fills again while Stop is being retried. A resize asks for 1 or
  2 steps (8 in the code), so messages of either weight are accepted, dropped, carried out and
  fail in any mix. `stop_hangs` uses a
  queue of 1.
- *Dashboard.* 2 bodies, 2 commands, staleness after 1 tick, clock 2: a state becomes stale
  while the controller runs and after it died, and a command is overwritten before and after
  it is read.
- *Geometry.* The constants are the code's own (16, 24, 20, 8 and a hit slop of 8 pixels);
  a window of 120 pixels split at 40 or 80 by up to 3 panes, none smaller than 24 pixels, covers
  nested splits whose dividers share a line. The pointer jumps to three offsets: less than a step, exactly
  at and beyond the cap of 8 steps. Two drags, queue of 2.
- *Integration.* 2 channels, 1 managed binding, 2 installs, any number of uninstalls, 1
  edit, 1 fault, 1 kill, 1 backup kept. One edit is enough to hit each window of a write, and
  one fault each step of an install of two channels; the combination of the two is covered.
  With fewer states of a binding (absent, Winter's own, changed) the properties hold for two
  edits as well.
- *Settings editor.* Chords of up to 4 of 7 parts; files of up to 2 of 16 entries, which are
  Winter's two definitions as written and as a user may rewrite them, the user's own entries on
  the same chords, and malformed ones; a second `keybindings` property; a property that is no
  array; 3 byte order marks. Each function treats entries by id and chord, so two entries and
  two wanted bindings show every way of meeting. In the run `StatesAreEnough` has 1 binding; it
  holds with 2 as well.
- *Chord injection.* The user touches both control keys, a Windows key and the target;
  every set of wanted modifiers, literal or not, and every number of events inserted and
  released. Alt and Shift go through the same code as Control.
- *Shell profile.* Texts of at most 1 token of the user's, a CR or a LF among them, with or
  without an old block; 2 edits anywhere, since it takes one to break a marker and one to meet a
  write; 1 fault.
- *Legacy migration.* 2 legacy names, 1 settings file, 1 profile with both marker pairs; 2
  commands and 1 fault: a failure at every step of the first, followed by a rerun. All initial combinations of artifacts
  a manifest can account for.
- *Autostart.* 2 callers with their helpers, side by side or one after the other, 1 change by
  somebody else, 2 failed calls (a caller's and its helper's). The callers are symmetric;
  the run checks no liveness. In `install` the settings, the profile and the task move in
  behaviours of their own.
- *Startup.* 2 processes at a time, 2 starts (the daemon `launch` spawns is not another), 1
  change by the user or of the bridge; `launch`, the daemon by itself, and `doctor`. The file is
  absent, of the old schema, deleted, or saved with a clash of chords. The launching
  process, its daemon in every mode, the fallback without `winterd.exe`, a second owner, and
  both writes of the file occur.
- *Desktop.* 2 window handles over 2 terminals and one other application, one terminal with 2
  tabs of which one is split, the other with 1 tab; 2 changes of the desktop, 1 failed
  query and 1 command, each at any point of a pass. Two changes reach every order of
  leaving a window and coming back, or of moving a tab after it was listed and reusing a handle.

Clocks and counters are bounded by `Max...` constants in the guards of the actions that
advance them. `CHECK_DEADLOCK FALSE` is set for `Integration` and `LegacyMigration`, where
nothing is left to run once the bounded commands and edits are used up, for `Startup` and
for `Autostart`, whose processes end. In `Controller`
the final state stutters explicitly (`Returned`).

### 3.2 Fairness

`Controller`, `Dashboard`, `Startup` and `Desktop` state liveness.

- `Controller`: weak fairness of the main thread, the observer and the worker, which are
  ordinary threads the scheduler runs; and of the hook thread's exit once it was sent
  `WM_QUIT`, whose message loop is bound to read it. Nothing makes the user press a key, and
  nothing makes the hook exit in time: `DetachHook` can always come first.
- `Dashboard`: weak fairness of the observer's pass, and strong fairness of the two
  steps that complete a write, since what makes them fail (a reader that has the file open)
  comes and goes. Without it a write that always fails would keep the truth off the disk,
  as it would in reality.

- `Startup`: weak fairness of the steps of each process. Nobody has to answer a prompt, and
  `LaunchTakesEffect` promises nothing while a prompt is open.
- `Desktop`: weak fairness of the observer's thread, and strong fairness of the two throttled
  queries: whether their interval is over is left open in a pass, and time passes as passes
  go on, so it cannot be found not over for ever. Nothing makes the user act or a query
  succeed; failures are bounded by `MaxFaults`.

`Tick` of `Dashboard` waits for a pass of a running observer: a tick is at least the pane's
two seconds, a pass is due every 25 ms.

## 4. Mutants

Every property of a passing run has a mutant: a variant of a mapped definition that a
plausible bug would produce (an extended deadline, a lock-free snapshot believed as it is,
a queue that blocks, a comparison done once). They are defined beside the original, marked
`Mutant`, and used by nothing else.

## 5. Proofs

Checked by TLAPS, for every set of keys, windows, tabs, settings files, callers and the like,
every table and every bound that meet the assumptions on the constants:

- `ConfigAssumption` (`PrefixMachine`): what `ControllerConfig::prefix_config` accepts: the
  prefix and the bound chords are ordinary chords, the timeout is positive.
- `KeyboardAssumption`: the chord of a key is a modifier's exactly if the key is a modifier.
- `ControllerAssumption`: what `validate_options` accepts, a queue of at least one place; the
  retries of Stop and the steps of a resize are at least 1; Stop is not a number of actions.
- `UserKeysAssumption`: the user's keys are keys.
- `DashboardAssumption`: no file, a torn one and a whole one are three things. `SpecAtMostOnce`
  also assumes `~RemoveFails`; section 7.2 says what happens otherwise.
- `IntegrationAssumption`: each settings file is visited once, and fragment, manifest and
  settings are different files; at least one backup is kept.
- `TextAssumption`, `TaskAssumption` (`MCInstall`): the bounds on texts, edits, changes and faults
  are numbers, and a profile that does not exist is no text.
- `LegacyAssumption`: nothing is listed twice.
- `ContentAssumption` (`Startup`): migrating a configuration gives a configuration.
- `DesktopAssumption`: a tab is of one terminal, its panes are finitely many and do not overlap.
- `LayoutAssumption`, `ResizeAssumption`: lengths are natural numbers, and the least pane is wider
  than `MAX_DIVIDER_GAP`. Otherwise a pane could be taken for the gap between two others, and
  `from_panes` would see a divider where there is none.
- `TableAssumption`, `RegistryAssumption`: what the tables of `keys.rs` and `registry.rs` satisfy,
  which TLC evaluates on the tables as they are.

The other parts of these assumptions, `SentinelAssumption` and `NoneAssumption` say that a "none"
value is no member of the set it complements.

| Theorem | States |
|---|---|
| `PrefixTypeCorrect`, `PrefixKeyStaysTracked` | `TypeOK`, `PrefixKeyTracked` are invariants |
| `DeadlineStaysFixed`, `CommandsEndSessions` | the action properties of the machine |
| `SessionTypeCorrect`, `LedgerHoldsHeldKeys` | the invariants of the session |
| `OtherAppsAreSpared`, `LiteralWaitsForRelease` | its action properties |
| `MachineImplementsFilter` | the session refines `KeyFilter` |
| `SpecSlotsAreHeld`, `SpecModifiersAreHeld` | the invariants of the normalizer |
| `DispatcherTypeCorrect`, `PendingKeyStaysHeld`, `ArmedIsAlwaysShown`, `ButtonsGoOneWay` | the invariants of the dispatcher |
| `OnlyTerminalsAreCaptured`, `TargetsAreForeground` | its action properties |
| `SpecTypeOK` (`ControllerProofs`), `SpecReportIsComplete`, `SpecDashboardStaysGone` | the safety properties of the controller |
| `SpecChordTypeOK`, `SpecKeyboardIsTheUsers`, `SpecHeardAsPlanned` | types, what a chord leaves on the keyboard, and what of it is heard |
| `SpecTypeOK` (`DashboardProofs`), `SpecDashboardStaysReadable`, `SpecLiveIsRecent`, `SpecAtMostOnce` | the safety properties of the dashboard |
| `SpecOneController`, `SpecConfigEditsSurvive`, `SpecRunningConfigIsSound` | the invariants of `Startup` |
| `CompiledKeyMapIsSound`, `CompiledShortcutsDispatch` | what every configuration that compiles binds |
| `SpecMigrationTypeOK`, `SpecRecordOutlivesItsEntries`, `SpecConfigIsSomewhere` | the invariants of the migration |
| `SpecTypeOK` (`InstallProofs`), `SpecUserEditsSurvive`, `SpecRemovesOnlyItsOwn`, `SpecFailedInstallRestores`, `SpecNothingOrphaned` | the properties of install and uninstall |
| `SpecTaskTypeOK`, `SpecForeignIsNotRead`, `SpecQuietReportIsTrue` | the properties of the logon task |
| `SpecProfileTypeOK`, `SpecUserTextSurvives`, `SpecReportIsTrue`, `SpecReversible`, `SpecEditedBlocksSurvive` | the properties of the shell profile |
| `PartsKeepTheirSpecs` | the specification of the run `install` implies those of its three parts |
| `SpecPanesAreOfTheTerminal`, `SpecTabsAreOfTheTerminal`, `SpecNothingOfAnotherWindow`, `SpecFocusedIsLatest` | the invariants of `Desktop` |
| `SpecChoiceIsHonoured` | its action property, from the desktop to the worker |
| `SpecResizeTypeOK`, `SpecDragMovesItsDivider`, `SpecStepsFollowPointer` | the properties of a drag |

*The machine.* `Inv` is `TypeOK` with `PrefixKeyTracked`. The lemma `Settled` says what the
two opening checks leave: either the old state untouched or idle with an empty ledger. Each
path of the handler then follows from the settled state alone. `HandlerShapes`
summarises the eleven paths in four shapes, which is all the modules on top need to know.

*The session.* The checked invariants are too weak for the refinement and for the literal
prefix: they do not exclude that an armed session swallows a repeat of a key whose press the
application has seen, or that the arming key still counts as held after its release was
recorded. `SessionInv` adds `LedgerNotPassed` (no application has seen the press of a key in
the ledger), `ReleasedIsNotHeld` (once the release of the prefix key is recorded, the key
is no longer down with its arming press) and `RepeatsAreSwallowed` (in an armed session, only
a modifier both repeats and is passed on). The refinement maps the ledger to "swallowed",
and keys that were consumed but have left the ledger to "loose"; each step of the session is
then one step of the filter, or none, by the shapes of the handler.

*The normalizer.* `SlotsAreHeld` (the slot of an undisturbed key is set exactly while the key
is held) is what `ModifiersAreHeld` rests on; with `TypeOK` the two are inductive. The step that
needs an argument is a release: if it clears both slots, the whole modifier was up, so neither
key is held.

*The dispatcher.* `DispatcherInv` is the conjunction of the dispatcher's invariants and the
machine's. `CachedIsForeground` (the filtered terminal is "none" or what is in front) carries both
action properties.

*The controller.* `JoinedInv` says from which step of `run` on the observer and the hook are
gone, unless the hook was detached. `CountInv` is a balance of messages: the accepted and Stop are
those carried out or failed, the one at hand and those in the queue, and there is at most one Stop.
`WorkInv` is the balance of their actions: `due` is what was dispatched, what the message at hand
asks for, and what the queue does. The last is the number of pairs `Asked(queue)` of a place in
the queue and an action asked for there, since a cardinality can be taken apart at either end of
the queue by lemmas where a recursive sum cannot. It bounds the counters of `TypeOK` too: no
message asks for more than `MaxSteps`. `ReportInv` adds that nothing is behind Stop in the queue
on an orderly way out, so that an empty queue at the end turns both balances into the report.

*Chords.* `OwnersInv` gives every key that is down an owner: the user, the next cleanup, or an
error that named it. `KeptInv` says that the modifiers held since before the plan are in it as
held, so no event touches them. The plan is taken apart in lemmas about which keys it presses
and that every prefix of it is undone by its cleanup. `SnapshotInv` is what the last
check still guarantees when the events go in.

*The dashboard.* `ClockInv` and `FileInv` order the times of what is built, staged and in the
file; `CommandInv` says that a command on its way was not executed, and that a new one
that appears while another is carried out is not the same.

*The start.* An owner is a process between the mutex and its end. `OneController` needs that
every owner has a handle, that whoever waits for the mutex has none, and that a process is an
owner only if it found no handle; the end of a process is the one step that takes a handle
away. `ConfigEditsSurvive` needs what the configuration of a process on its way to
`write_back` is: the migrated form of what the user left, unless a save came in between. It
rests on `ContentAssumption`. `RunningConfigIsSound` is `CompiledKeyMapIsSound`, a fact about
every configuration that compiles, and `RunningInv`: nobody gets to run with one that did not.

*The migration.* `StepsInv` says which steps can be left; `SweptInv` that files still holding
something are still to be swept; `CarriedInv` that as long as the configuration is not carried over,
nothing it could come from is gone. Both properties then rest on the order of the stages
(`Stage`): a removal is only ever `First` when no sweep and no carrying is left.

*Install.* `ProcessInv` is the type invariant with what the process knows of its own position.
`SurvivalInv` adds that a file that was compared is as compared until the move, or the edit came
too late. `AddedInv` accounts for `RemovesOnlyItsOwn`: what the manifest on disk, the one
read and the one to be written claim was once added by Winter. `RestoreInv` says of every file
nobody else touched that it is as found, or as installed and on the stack of what is to be undone.
`OrphanInv` needs the most: `InPlaceInv` (what is live is in its file), `ManifestInv` (which
manifest is on disk), and one conjunct per command for who accounts for what is live: the manifest
to come (`InstallInv`), the manifest on disk or the undo stack (`RollbackInv`), the manifest read
and, from each file's write on, the manifest to come (`UninstallInv`).

*The shell profile.* Whatever Winter writes, and whatever the user edits meanwhile, is a splice: one
stretch of the text goes, another comes in its place, and all other places stay in their order
(`Spliced`, with `AddedIsSplice`, `RefreshedIsSplice` and `CutIsSplice` for the three writes). A
block whose markers lie outside the stretch is still a block (`BlockStays`), and what the user wrote
outside of blocks is still there (`WrittenStays`); normalising line ends only drops newlines
(`NormalizedKeepsOrder`). `ProfileInv` is `ProfileShape` with three facts about a command on its way:
a text that was compared is still the text, or the edit came too late (`ComparedInv`); the backup
is the text that was read (`BackedUpInv`); and a profile nobody edited since the block was added is
the original with the block added (`OriginalInv`). `Reversible` follows since cutting out what was
added gives back what it was added to (`CutAdded`, `CutCreated`). `ProfileShape` needs `OldFirst`
beyond what is checked: the old brand's block is whole and in front of Winter's, or it is not
there at all. Without it, removing one block could cut into the other.

*The logon task.* `ShapeInv` and `OrderInv` say in which order a caller and its helper act and what
each has seen when. `CurrentInv` says that whoever is about to write what it has just read does not
overwrite somebody else's; `QuietInv` says what each process knows of an undisturbed task.

*Tabs and panes.* `PanesInv` pairs panes and terminal in the snapshot and behind the lock.
The tabs are harder: `ListIsOfItsWindow` holds at every moment, while `WindowIsRecorded` (the
window of the snapshot is the one the cache has recorded) holds only when the pass has come
to publishing, which is the moment it is needed; it is what `TabsAreDue` buys.
`ChoiceIsHonoured` follows a row on its way: `SnapshotInv` and `RowsInv` say of the snapshot, the
tab cache, the file and the frame that the indices of a row name the tab it shows in the strip it
was read from and that its rectangle is of that tab, and `CommandInv` that a command in any of its
three places does what its row says (`Honest`). The worker's own enumeration then either finds
that tab or the strip has changed, which is the property's condition.

*Drags.* `TreeInv` is what splitting keeps true of the pane tree: along an axis, a pane ends at the
nearest splitter above it or at the window's edge; two panes are a border apart on some axis, or
too far apart to be neighbours. From it follows the geometry the code bets on, that the pane that
holds a divider's focus point has that divider as the nearest splitter of its axis. `DragInv`
keeps drag, messages and captured divider together while messages are dropped, `FocusInv` that the
focus is where the worker put it for the current drag.

*Types.* Every type invariant is proved, as a theorem of its own or, for the normalizer, as a part
of its inductive invariant. Most follow the assignments. Three need more: that pruning keeps the
backups of a file within `KeepBackups` (`BackupsTyped`), that only an elevated process comes to
write the task (`WritersElevated`), and that a divider that can be captured has a point to focus
(`CapturedIsDivider`).

Only model-checked: all liveness (`ShutdownCompletes`, `DashboardCatchesUp`, `LaunchTakesEffect`,
`DesktopIsSeen`), which this prover does not reach. What `SettingsEditor`, `DashboardUi` and the
tables compute is evaluated by TLC over small inputs: they are recursive or finite, and induction
over data is out of the prover's reach too. All modules with theorems are free of `RECURSIVE`
operators.

## 6. Abstractions worth knowing

- Names and paths are model values. Parsing of JSON, layout of bytes and encodings are left
  out. `SettingsEditor` takes the parts of a chord and the name of an id as already trimmed and
  lowercased; comments and what else the user writes into a file are not its subject, since the
  syntax tree the code edits keeps them.
- The three properties about the foreground take `GetForegroundWindow` during a callback as
  atomic with the callback: a foreground that changes within one callback is an event after it.
- `PaneResize`: a resize leaves the model's coordinates as they are, because the drag's
  arithmetic uses the divider as captured and the properties compare lines, not sizes;
  `i32` saturation is left out, screen coordinates being far from it; at most one focus
  command waits in the queue at a time; the terminal stays in the foreground, the opposite
  being `HookDispatcher`'s subject.
- `HookDispatcher`: whether the queue has room is `Controller`'s subject; a divider under
  the pointer is a free choice there and computed in `PaneResize`.
- `Dashboard`: telemetry fields are read one by one in the code; the body is one value here.
- `Integration`: the files planning reads are independent, so it is one step; staging files
  have private names; a refused command changes nothing and is no step; uninstall's own
  backups are never referred to.
- `ChordInjection`: nothing happens during one `SendInput`, whose events Windows inserts
  as a block; the left and the right Windows key are one key.
- `ShellProfile`: encodings are left out; a failing step and a kill leave the same file and
  are one action; a shell is installed or not, however that is found out.
- `LegacyMigration`: one write is one step, whose inside is the subject of `Integration` and
  `ShellProfile`; directories that could not be listed are not there.
- `Startup`: TOML that does not parse is one value; the steps of `install` behind
  `InstallBridge` are `Integration`'s; two `winter config` on the same file are two processes
  like any other. `KeyTable` takes three of the loose spellings of a function key for all.
- `Desktop`: a rectangle is an interval, which is enough for "contains the point"; titles are
  left out, as is the order of panes other than from left to right; the intervals of both
  throttles are left open (3.2); at most one command is in the queue.
- *The wall clock.* `unix_ms_now` gives the stamps of the focus history (`controller/desktop.rs`)
  and of the state file. `Desktop` keeps the order in which the panes were entered and `Dashboard`
  a time that only grows, so stamps are taken to increase with each pass. A clock that is set back
  is not represented: `FocusedIsLatest` and `LiveIsRecent` say nothing of what is stamped
  before and after such a change.
- `DashboardUi`: a line is its kind; widths matter only where a line may be cut away.
- `Autostart`: the XML of the task is one of three kinds (ours, ours for another path, not
  ours); `install` and `uninstall` call the same functions and turn an error into a warning.

## 7. What the checks found

### 7.1 Statements that do not hold

Each is a definition beside the model, which quotes what it states. `stop_hangs` and
`legacy_dirs` check the first two. The others are not runs of their own; put the definition in
place of the properties of the configuration named (with the constants given, where they
differ) and TLC shows the counterexample.

| Statement | Configuration | Definition |
|---|---|---|
| 1 | `MCStopHangs.cfg` | `SaturatedQueueCannotHang` |
| 2 | `MCLegacyDirs.cfg` | `DirsOutliveFailures` |
| 3 | `MCKeyboardSession.cfg` | `SwallowedKeysNeverLeak` |
| 4 | `MCDashboard.cfg`, `MaxCommands = 1`, `MaxTime = 3` | `OfflineMeansNotRunning` |
| 5 | `MCPaneResize.cfg` | `OneFocusIsEnough` |
| 6 | `MCInstall.cfg`, `TargetOrder <- OneChannel`, `KeepBackups = 3`, `MaxRounds = 4`, `MaxFaults = 3`, `MaxCrashes = 0` | `RecordedBackupsExist` |
| 7-9 | `MCLegacyMigration.cfg` | `ConfigCarriedOver`, `KeptKeybindingsStay`, `MigratesOnce` |
| 10-14 | `MCInstall.cfg`, defined in `MCInstall` as `Task!...` like the properties there | `ForeignIsKept`, `RemovedIsGone`, `RegisteredPointsHere`, `DismissedIsSkipped`, `ForeignNeedsAttention` |
| 15 | `MCStartup.cfg` | `ConflictFailsLoudly` |

1. `controller/action_worker.rs:198-200` says a saturated queue cannot hang shutdown
   because dropping the sender lets the worker exit. When the hook fails to start
   (`controller.rs:230`) the observer still owns a sender: if the retries of Stop ran out,
   the join waits for ever. On the ordinary path the observer is joined first and the
   statement holds (`ShutdownCompletes`).
2. `integration/legacy.rs:16-17` says that the legacy directory, the only recovery record,
   is deleted only after every step succeeds. The sweep of profiles keeps one report per
   profile (`integration/shell.rs:460`), so the second marker pair's `Missing` hides the
   first pair's `Conflict`, and the migration goes on to the deletion.
3. `docs/ARCHITECTURE.md:110` says the ledger keeps the repeats and the release of
   swallowed keys from the shell. A session that ends by itself (deadline, new foreground,
   pointer, system shortcut) clears the ledger (`prefix.rs:632`), so holding a swallowed
   key across that moment sends its repeats and release on. `KeyFilter` states what does
   hold: the filter lets go of everything at once.
4. `dashboard.rs:6-7` says a stale file means that the controller is not running.
   `publish_if_changed` (`controller/desktop.rs:348`) never rewrites an unchanged state
   and there is no heartbeat: a desktop at rest looks offline. The converse holds
   (`LiveIsRecent`).
5. `controller/action_worker.rs:287-289` focuses once per drag because the leading pane is
   stable. A focus command or a click between two messages moves the focus, and the next
   resize moves another pane's divider.
6. `integration/transaction.rs:123-124` says that ten backups comfortably exceed those in
   use. Pruning does not look at the manifest: each install that fails after its backup
   leaves a newer one and no new record, so ten failures delete the backup the manifest
   refers to. (`KeepBackups = 3` scales this down; with ten it takes 16 million states.)
7. `integration/legacy.rs:16` says the configuration is carried over byte for byte. A copy
   that was cut short (`:259`) exists under the final name, so the next run takes it for
   Winter's own (`:247`) and deletes the original.
8. `integration/legacy.rs:172` tells the user how many changed keybindings were kept in
   place; step 3 (`:202-225`) removes them in the same run.
9. `integration/legacy.rs:1` calls the cleanup one-shot. A fragment without legacy ids in
   a legacy folder is left alone while there is a manifest (`:193`); afterwards there is
   none, and every install is refused because of it.
10. `autostart.rs:37-38` says that Winter refuses to overwrite a task that is not its own.
    A query that fails with status 1 counts as "no task"
    (`platform/windows/scheduled_task.rs:138`), and `/Create /F` replaces what it did not
    see.
11. `autostart.rs:63` says of `Removed` that the task was deleted. A deletion that fails
    with status 1 counts as success and is not looked at again.
12. `autostart.rs:79` says that `registered` means "points at this binary"; `status` does
    not compare the path.
13. `autostart.rs:17-18` says that a dismissed prompt is `Skipped`. `elevation_error`
    (`platform/windows/elevation.rs:129`) compares an HRESULT with a bare Win32 code,
    which never matches; elsewhere (`platform/windows/foreground.rs:140`) the code is
    converted first.
14. `cli.rs:226-228` gives a task owned by someone else exit status 2; `disable` of one
    ends with 0.
15. `cli.rs:341-342` says that a genuine conflict still fails loudly. The successor that the UAC
    prompt starts is a hidden process (`SW_HIDE`, `platform/windows/elevation.rs:151`): its
    message and its exit status reach nobody, and its parent has already ended with success.

### 7.2 Behaviour the models show and no document contradicts

- If the release of the button is lost, the drag stays active and hovering produces resizes
  until the next press (`controller/pointer.rs:55-56`). `ButtonGoesOneWay` is about the time
  the button is down.
- If removing `command.json` fails, the command is executed again on the next pass
  (`dashboard.rs:204`): with `RemoveFails = TRUE`, `AtMostOnce` fails. A command written
  while no controller runs is executed by the next one, however old.
- A kill of `install` between the first settings write and the save of the manifest leaves
  bindings no manifest knows: the next install finds them present and does not adopt them,
  uninstall leaves them, and doctor reports a healthy installation. `NothingOrphaned`
  therefore excludes kills. The documentation says that no journal is kept
  (`docs/ARCHITECTURE.md:189`).
- If the user edits a settings file between an install's move and its read-back, the write
  counts as not applied: the bindings stay, unrecorded, and the error does not mention
  them. `NothingOrphaned` and `FailedInstallRestores` exempt it. `integration/transaction.rs:182`
  describes the neighbouring race, between the last comparison and the move, which
  `UserEditsSurvive` exempts.
- What an incomplete rollback leaves behind is reported but not recorded in the manifest
  (compare `docs/ARCHITECTURE.md:232`).
- If the read-back of the manifest fails, the settings are rolled back and the new manifest
  stays; `FailedInstallRestores` does not speak of the manifest.
- Comments of the observer and the dashboard that the models contradict in passing:
  `controller/desktop.rs:399-400` (the recorded handle is the one the list was read from: not
  after a failed query, hence the exemption of `TabsAreOfTheTerminal`); `:571-572` (a tab
  switch cannot leak the old tab's history: it does where the panes of both tabs have the
  same rectangles, a pane's only key); `ui.rs:851` ("from the last one up": `fit_sidebar`
  removes the first entry each time); `controller/action_worker.rs:323-324` (a recycled
  handle can never receive a selection: nothing holds the handle between `Validate` and
  `SelectTab`, hence the condition on the process in `ChoiceIsHonoured`).
- A failed identity query counts as "no terminal" and is repeated only when another window
  comes to the front: until then the hooks and the dashboard see none (`DesktopIsSeen`).
- A tab element missing from one of the two enumerations behind a selection shifts the
  index, and the command of a pane that showed another terminal goes to the one in front.
- `winter launch` without `winterd.exe` falls back to `run --no-launch`, which opens no
  window although `cli.rs` announces one.
- `remove_managed_keybindings` looks at the first `keybindings` property only: if a user adds a
  second one, records of bindings that moved there are dropped. Merge refuses such a file.
- The legacy sweep's refusal for malformed entries is out of reach (it asks for those of no id):
  they stay in the file. It counts chords where it removes entries.
- A wanted pair that is there counts as present although another entry uses the same chord
  (`integration/jsonc.rs`, `scan_keybindings`).
- A save of `config.toml` between the read and the write-back of a migration is lost.
- `Enter` wins over moves read in the same poll: "j, Enter" in one batch activates the row
  before the move (`ui.rs`, `drain_input`).
- Two installs at once write the same bytes, so the slower one can take the other's write
  for its own and roll it back. One process is modelled so far.

## 8. Not modelled

- *Read-only:* integration plan, doctor's report and discovery, whose result is one value of
  `Startup`; shared types; the JSON reports of the command line.
- *Windows API calls:* DPI, cursor, known folders; `SetWindowsHookEx` and the message loop
  behind the hook; COM under the accessibility calls; the executable and class names behind a
  window's identity. The models take their results as inputs, failures included.
- *Text:* titles, colours and the diff renderer of `winter ui`, the console guard that restores
  the screen; the bytes of TOML, JSONC and XML and their encodings.
- *Partly:* the injection behind a shortcut and the queue before it are in two modules that are
  not composed; the modifiers of `KeyboardSession` are those held, which the normalizer reports
  only of undisturbed keys.

## 9. Plan

Done, in this order: `PrefixMachine`, `KeyFilter` and `KeyboardSession` with their
refinement, `HookDispatcher`, `Controller`, `Dashboard`, `PaneLayout` and `PaneResize`,
`Integration`, `ChordInjection`, `ShellProfile`, `LegacyMigration`, `Autostart`; `KeyTable`,
`Registry`, `Configuration` and `Startup`; `DashboardUi` and `Desktop`; `SettingsEditor` with its
cases; `KeyboardNormalizer`; proofs for the first three state machines, `Startup`, `Desktop` and
`KeyboardNormalizer`; then for `Controller`, `ChordInjection`, `Integration`, `ShellProfile`,
`Autostart`, `Dashboard`, `LegacyMigration`, `PaneResize` and the rest of `Startup` and `Desktop`.

Next, extending the models:

1. The abstract promise of an install (every file is as before or as planned, until the user
   edits it) as a module that `Integration` refines.
2. `Integration` with two processes: mutual rollback, a manifest saved over the other's.
3. `HookDispatcher`'s messages as the input of `Controller`'s queue, and `ChordInjection` as
   its output, by refinement.
4. `KeyboardNormalizer` under `KeyboardSession`, so that a ghost modifier meets a session.

Next, proofs:

1. The abstract install of the first list, refined step by step.
