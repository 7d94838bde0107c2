CONSTANTS
    MaxEdits = 2
    MaxTitles = 1
    MaxPages = 2
    NoDoc = NoDoc
    NotCached = NotCached
    NoCall = NoCall
SPECIFICATION Spec
CHECK_DEADLOCK FALSE
INVARIANTS
    PublishableIsSaved
    UpdatesFitTheDraft
PROPERTIES
    EditsAreSaved
    RestoreBringsBack
