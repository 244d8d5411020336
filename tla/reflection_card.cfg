SPECIFICATION WritingSpec
CONSTANTS
    Titles = {"Add Title", "Sunday"}
    Texts = {"We swam.", "Write reflection...We swam."}
INVARIANTS
    WritingTypeOK
    TypedIsKept
PROPERTIES
    SavedAsWritten
