SPECIFICATION FairFlicsySpec
CONSTANTS
    old = old
    new = new
    here = here
    NoPhoto = NoPhoto
    NoPlace = NoPlace
    Photos = {old, new}
    Places = {here}
    Undated = {}
    CreationDay <- MCCreationDay
    PlaceOf <- MCPlaceOf
    SaveMayFail = FALSE
    MaxDay = 2
    MaxReflections = 2
INVARIANTS
    FlicsyTypeOK
    CardMatchesTimer
    StaleListIsPending
    ListShowsJournal
PROPERTIES
    LoadingEnds
    FlicsyImplementsHome
    CountDownStays
