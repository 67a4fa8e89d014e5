CONSTANTS
  A = A
  B = B
  a1 = a1
  a2 = a2
  b1 = b1
  w1 = w1
  w2 = w2
  Window = {w1, w2}
  Terminal = {A, B}
  OtherApp = OtherApp
  FirstOwner <- MCFirstOwner
  FirstForeground = w1
  TabsOf <- MCTabsOf
  PanesOf <- MCPanesOf
  NoWindow = NoWindow
  None = None
  MouseResize = TRUE
  MaxChanges = 2
  MaxFaults = 1
  MaxCommands = 1
SPECIFICATION Spec
INVARIANTS
  NothingOfAnotherWindow
  FocusedIsLatest
PROPERTIES
  ChoiceIsHonoured
  DesktopIsSeen
