-------------------------- MODULE MCKeyboardSession --------------------------
(* Ctrl, Shift, the prefix key, which plainly is a command, and a key that   *)
(* plainly is the literal prefix and is a system chord, or Escape, with a    *)
(* modifier.  The terminals are interchangeable.                             *)
(*                                                                           *)
(* KeyboardSession takes the modifiers of an event to be those held, and     *)
(* KeyboardNormalizer says when they are.  A behaviour is one of either,     *)
(* while the other stays where it began.                                     *)
EXTENDS KeyboardSession, KeyboardNormalizer, TLC

CONSTANTS ctrl, shift, b, x, mod, ctrl_b, cmd, lit, reserved, esc, other

MCBinding == [c \in {cmd, lit} |-> IF c = lit THEN "send_prefix_literal" ELSE "action"]

MCChord(k, mods) ==
  CASE k \in ModifierKey            -> mod
    [] k = b /\ mods = {}            -> cmd
    [] k = b /\ mods = {ctrl}        -> ctrl_b
    [] k = b /\ shift \in mods       -> other
    [] k = x /\ mods = {}            -> lit
    [] k = x /\ mods = {ctrl}        -> reserved
    [] k = x /\ shift \in mods       -> esc

MCSymmetry == Permutations(Window)

MCChordOf ==
  [k \in PhysicalKey |-> [mods \in SUBSET ModifierKey |-> MCChord(k, mods)]]

-----------------------------------------------------------------------------
VARIABLE part

AllVars == <<part, vars, normalizer_vars>>

MCInit ==
  /\ part \in {"session", "normalizer"}
  /\ SessionInit /\ (part = "normalizer" => foreground = NoTerminal)
  /\ NormalizerInit /\ (part = "session" => held = {})

MCNext ==
  \/ part = "session" /\ SessionNext /\ UNCHANGED <<part, normalizer_vars>>
  \/ part = "normalizer" /\ NormalizerNext /\ UNCHANGED <<part, vars>>

MCSpec == MCInit /\ [][MCNext]_AllVars
=============================================================================
