SPECIFICATION AppSpec
CONSTANTS
    old = old
    NoPhoto = NoPhoto
    NoPlace = NoPlace
    Photos = {old}
    Places = {}
    Undated = {}
    CreationDay <- MCCreationDay
    PlaceOf <- MCPlaceOf
    SaveMayFail = TRUE
    MaxDay = 2
    MaxReflections = 2
    Week = 1
    MaxReminders = 1
INVARIANTS
    OneUser
    JournalMeansUser
    SheetOnlyIfNoSkip
    AtMostOneReflectionAtRisk
PROPERTIES
    AppImplementsShell
    DiskIsLateJournal
