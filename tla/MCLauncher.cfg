SPECIFICATION Spec
CONSTANTS
    None = None
    DefaultSetting = "a"
    Unreadable = "typo"
    Savers = {"launcher", "cli"}
    Executables = {"game"}
    Torn = Torn
    Windows = {"game_window", "test_window"}
    TestWindow = "test_window"
    ExecutableOf <- MCExecutableOf
    Settings = {"a", "b"}
    Masks = {None, "left", "typo"}
    CliArguments <- MCCliArguments
    MaxRequests = 4
INVARIANT ControlsAgree
INVARIANT RunsAsShown
INVARIANT CloseLeavesNoChild
INVARIANT InterruptedSaveKeepsFile
PROPERTY StopIsHonoured
CHECK_DEADLOCK FALSE
