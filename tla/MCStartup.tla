------------------------------ MODULE MCStartup ------------------------------
(***************************************************************************)
(* Startup with two processes and two starts, over a file that is absent,  *)
(* of the old schema, deleted, or saved with a configuration that loads    *)
(* and does not compile.                                                   *)
(***************************************************************************)
EXTENDS Startup, TLC

With(name, chord) == [DefaultConfig EXCEPT !.shortcuts = name :> chord]

\* A valid configuration that uses aliases, a disabled shortcut and no window.
Custom ==
  [DefaultConfig EXCEPT
     !.prefix = <<"control", "space">>, !.launch_terminal_on_start = FALSE,
     !.shortcuts = "new_tab" :> <<"shift", "dot">> @@ "close_pane" :> Disabled
                   @@ "next_tab" :> <<"c">>]

Legacy == [Custom EXCEPT !.schema_version = LEGACY_CONFIG_SCHEMA_VERSION]

\* Loads, and fails to compile: next_tab has the default chord of new_tab.
Clash == With("next_tab", <<"c">>)

MCInitial == {Absent, Legacy}
MCSaves == {Absent, Clash}
MCKind == {"launch", "daemon", "doctor"}

=============================================================================
