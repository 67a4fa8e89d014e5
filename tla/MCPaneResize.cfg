CONSTANTS
  MaxDividerGap = 16
  FocusInset = 24
  StepDivisor = 20
  MaxSteps = 8
  HitSlop = 8
  NoFocusPoint = NoFocusPoint
  Extent = 120
  Border = 2
  SplitPoint = {40, 80}
  MinPane = 24
  PressPoint <- MCPressPoint
  Reach <- MCReach
  Capacity = 2
  MaxPanes = 3
  MaxDrags = 2
  NoDrag = NoDrag
SPECIFICATION ResizeSpec
INVARIANTS
  DragMovesItsDivider
PROPERTIES
  StepsFollowPointer
