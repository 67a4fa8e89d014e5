CONSTANTS
  ctrl = ctrl
  shift = shift
  b = b
  x = x
  mod = mod
  ctrl_b = ctrl_b
  cmd = cmd
  lit = lit
  reserved = reserved
  esc = esc
  other = other
  PhysicalKey = {ctrl, shift, b, x}
  ModifierKey = {ctrl, shift}
  Chord = {mod, ctrl_b, cmd, lit, reserved, esc, other}
  ChordOf <- MCChordOf
  NoKey = NoKey
  Window = {w1, w2}
  NoTerminal = NoTerminal
  Idle = Idle
  PrefixChord = ctrl_b
  Binding <- MCBinding
  ReservedChord = {reserved}
  ModifierChord = {mod}
  EscapeChord = {esc}
  Timeout = 2
  MaxTime = 3
  Group = {"alt", "windows"}
SPECIFICATION MCSpec
SYMMETRY MCSymmetry
INVARIANT ModifiersAreHeld
PROPERTY CommandsEndTheirSession
PROPERTY OtherAppsKeepTheirKeys
PROPERTY LiteralAfterRelease
PROPERTY KeystrokesGoOneWay
