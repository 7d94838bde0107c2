SPECIFICATION Spec
CONSTANTS
    Cids = {1, 2, 3, 4}
    Entities = {doc}
    Requests = {r1, r2}
SYMMETRY RequestSymmetry
INVARIANTS CursorMissesNothing DraftsStayPrivate PublicIsClosed ListedInOrder
CHECK_DEADLOCK FALSE
