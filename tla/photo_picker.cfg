SPECIFICATION FairPickerSpec
CONSTANTS
    MaxCount = 4
    FetchLimit = 3
INVARIANTS
    PickerTypeOK
    TrapsOnlyAlone
PROPERTIES
    PickerIsOneStep
    EndsIfRedrawable
CHECK_DEADLOCK FALSE
