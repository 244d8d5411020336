SPECIFICATION HomeSpec
CONSTANTS
    old = old
    new = new
    undated = undated
    here = here
    there = there
    NoPhoto = NoPhoto
    NoPlace = NoPlace
    Photos = {old, new, undated}
    Places = {here, there}
    Undated = {undated}
    CreationDay <- MCCreationDay
    PlaceOf <- MCPlaceOf
    SaveMayFail = FALSE
    MaxDay = 3
    MaxReflections = 2
INVARIANTS
    EveryReflectionHasImage
