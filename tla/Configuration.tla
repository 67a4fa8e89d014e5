---------------------------- MODULE Configuration ----------------------------
(***************************************************************************)
(* The controller configuration of src/config.rs as pure operators: what   *)
(* config.toml parses to, which configurations are valid, and the key map  *)
(* the prefix layer is started with.                                       *)
(*                                                                         *)
(* The content of the file is Absent, text that is not a configuration, or *)
(* a record.  Chords are token sequences; Disabled stands for the word     *)
(* that switches a shortcut off.  A shortcut the file leaves out has its   *)
(* default chord.                                                          *)
(***************************************************************************)
EXTENDS Registry

CONSTANTS
  Absent,   \* no file
  Garbage   \* a file no configuration parses from

CONFIG_SCHEMA_VERSION == 2
LEGACY_CONFIG_SCHEMA_VERSION == 1
SupportedVersion == LEGACY_CONFIG_SCHEMA_VERSION .. CONFIG_SCHEMA_VERSION

PrefixTimeoutMs == 250 .. 5000
DividerHitSlopPx == 0 .. 32
GeometryPollIntervalMs == 50 .. 1000

Disabled == <<"disabled">>

MouseResizeConfig(enabled, slop, interval) ==
  [enabled |-> enabled, divider_hit_slop_px |-> slop,
   geometry_poll_interval_ms |-> interval]

NoShortcuts == [name \in {} |-> <<>>]

\* ControllerConfig::default, which writes every default shortcut out; leaving
\* them out compiles to the same key map.
DefaultConfig ==
  [schema_version |-> CONFIG_SCHEMA_VERSION, prefix_timeout_ms |-> 1500,
   launch_terminal_on_start |-> TRUE, prefix |-> <<"ctrl", "b">>,
   shortcuts |-> NoShortcuts, mouse_resize |-> MouseResizeConfig(TRUE, 8, 100)]

IsConfig(content) == content \notin {Absent, Garbage}

-----------------------------------------------------------------------------
\* A slop or an interval below zero, or a slop above a byte, does not even
\* deserialize; the ranges bind only while the divider drag is enabled.
MouseResizeIsValid(m) ==
  /\ m.divider_hit_slop_px \in 0 .. 255
  /\ m.geometry_poll_interval_ms \in Nat
  /\ m.enabled => /\ m.divider_hit_slop_px \in DividerHitSlopPx
                  /\ m.geometry_poll_interval_ms \in GeometryPollIntervalMs

ScalarsAreValid(c) ==
  /\ c.schema_version \in SupportedVersion
  /\ c.prefix_timeout_ms \in PrefixTimeoutMs
  /\ MouseResizeIsValid(c.mouse_resize)

\* validate: the scalars and the names of the shortcuts, not their chords.
IsValid(c) == ScalarsAreValid(c) /\ DOMAIN c.shortcuts \subseteq KnownName

\* parse_config_source, then validate: what load accepts.
Loads(content) == IsConfig(content) /\ IsValid(content)

NeedsMigration(c) == c.schema_version = LEGACY_CONFIG_SCHEMA_VERSION

\* migrate_schema in memory: the schema version and nothing else.
Migrated(c) == [c EXCEPT !.schema_version = CONFIG_SCHEMA_VERSION]

-----------------------------------------------------------------------------
HasCtrlOrAlt(chord) == chord.mods \cap {"ctrl", "alt"} # {}

\* Escape cancels the prefix, and reserved chords pass through an armed prefix.
IsUsable(chord) ==
  chord # NoChord /\ chord.key # "escape" /\ ~IsReservedSystemChord(chord)

PrefixChordOf(c) == ParseChord(c.prefix)

ConfiguredChord(c, spec) ==
  IF spec.name \in DOMAIN c.shortcuts
  THEN ParseChord(c.shortcuts[spec.name])
  ELSE spec.default_chord

IsDisabled(c, spec) ==
  spec.name \in DOMAIN c.shortcuts /\ c.shortcuts[spec.name] = Disabled

EnabledSpecs(c) ==
  {s \in {shortcut_specs[i] : i \in DOMAIN shortcut_specs} : ~IsDisabled(c, s)}

\* Mutant of ChordsAreDistinct: only the chords the file names are compared.
NamedChordsAreDistinct(c) ==
  \A s, t \in {u \in EnabledSpecs(c) : u.name \in DOMAIN c.shortcuts} :
    ConfiguredChord(c, s) = ConfiguredChord(c, t) => s = t

\* owners.insert finds no earlier owner.
ChordsAreDistinct(c) ==
  \A s, t \in EnabledSpecs(c) :
    ConfiguredChord(c, s) = ConfiguredChord(c, t) => s = t

\* prefix_config: Ok.  The prefix and the shortcuts are separate name spaces: a
\* shortcut may use the chord of the prefix.
Compiles(c) ==
  /\ IsValid(c)
  /\ IsUsable(PrefixChordOf(c))
  /\ HasCtrlOrAlt(PrefixChordOf(c))
  /\ \A i \in DOMAIN shortcut_specs :
       LET s == shortcut_specs[i]
       IN IF IsDisabled(c, s) THEN AllowDisabled(s)
          ELSE IsUsable(ConfiguredChord(c, s))
  /\ ChordsAreDistinct(c)

\* PrefixConfig::with_bindings: from chords to the actions they dispatch.
Bindings(c) ==
  [chord \in {ConfiguredChord(c, s) : s \in EnabledSpecs(c)} |->
     (CHOOSE s \in EnabledSpecs(c) : ConfiguredChord(c, s) = chord).action]

=============================================================================
