SPECIFICATION LiveSpec
CONSTANTS
    Cids = {1, 2, 3}
    doc = doc
    group = group
    Entities = {doc, group}
    Blob <- MCBlob
    Mine = {}
    Drafted = {}
    Group = group
    Loops = {"peer"}
    SaveEvery = 2
    Deletable = {doc}
PROPERTIES EventuallyPulled
CHECK_DEADLOCK FALSE
