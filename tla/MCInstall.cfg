SPECIFICATION InstallSpec
CONSTANTS
    Stable = Stable
    Preview = Preview
    TargetOrder <- TwoChannels
    Bindings = {b1}
    Fragment = Fragment
    Manifest = Manifest
    None = None
    KeepBackups = 1
    MaxRounds = 2
    MaxEdits = 1
    MaxFaults = 1
    MaxCrashes = 1
    ProfileText = 1
    ProfileEdits = 2
    ProfileFaults = 1
    Callers = {c1, c2}
    TaskChanges = 1
    TaskFaults = 2
SYMMETRY Symmetry
INVARIANTS UserEditsSurvive FailedInstallRestores NothingOrphaned
INVARIANTS UserTextSurvives ReportIsTrue QuietReportIsTrue
PROPERTIES RemovesOnlyItsOwn Reversible EditedBlocksSurvive ForeignIsNotRead
CHECK_DEADLOCK FALSE
