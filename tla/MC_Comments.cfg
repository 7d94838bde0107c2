CONSTANTS
    Windows = {w1, w2}
    Drafts = {d1}
    NoDraft = NoDraft
    NoPage = NoPage
    MaxEdits = 1
    MaxCalls = 1
    MaxComments = 4
    MaxBefore = 0
SPECIFICATION Spec
INVARIANTS
    DiscardedStaysGone
    DraftsAreListed
    RepliesAreShown
PROPERTIES
    DiscardEndsThePage
    QuietEditsAreSaved
