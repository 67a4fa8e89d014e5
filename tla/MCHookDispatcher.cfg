CONSTANTS
  b = b
  q = q
  ctrl_b = ctrl_b
  cmd = cmd
  quit = quit
  other = other
  PhysicalKey = {b, q}
  Chord = {ctrl_b, cmd, quit, other}
  Window = {w1, w2}
  NoTerminal = NoTerminal
  Idle = Idle
  PrefixChord = ctrl_b
  Binding <- MCBinding
  ReservedChord = {}
  ModifierChord = {}
  EscapeChord = {}
  Timeout = 1
  MaxTime = 2
  NoPending = NoPending
  NoDrag = NoDrag
  NoMessage = NoMessage
  HandshakeWindow = 0
SPECIFICATION DispatcherSpec
SYMMETRY MCSymmetry
INVARIANT PendingKeyHeld
INVARIANT ButtonGoesOneWay
PROPERTY CapturesOnlyTerminals
PROPERTY TargetIsForeground
