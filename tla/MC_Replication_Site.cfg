SPECIFICATION LiveSpec
CONSTANTS
    Cids = {1, 2, 3, 4}
    doc = doc
    group = group
    Entities = {doc, group}
    Blob <- MCBlob
    Mine = {1, 2}
    Drafted = {1}
    Group = group
    Loops = {"site"}
    SaveEvery = 2
    Deletable = {}
INVARIANTS CursorCovers
PROPERTIES EventuallyPushed
