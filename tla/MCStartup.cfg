SPECIFICATION FairSpec
CONSTANTS
  Absent = Absent
  Garbage = Garbage
  Slot = {p1, p2}
  Kind <- MCKind
  Initial <- MCInitial
  Saves <- MCSaves
  MaxStarts = 2
  MaxChanges = 1
INVARIANTS OneController ConfigEditsSurvive RunningConfigIsSound
PROPERTIES LaunchTakesEffect
CHECK_DEADLOCK FALSE
