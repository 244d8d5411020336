SPECIFICATION FairShellSpec
CONSTANTS
    Week = 3
    MaxReminders = 2
    SaveMayFail = FALSE
INVARIANTS
    ShellTypeOK
    OnboardedOnce
    TabsNeedAccess
    AskedAfterRefusal
PROPERTIES
    LoadingScreenEnds
