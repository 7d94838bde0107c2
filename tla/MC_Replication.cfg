SPECIFICATION Spec
CONSTANTS
    Cids = {1, 2, 3}
    doc = doc
    group = group
    Entities = {doc, group}
    Blob <- Linked
    Mine = {1, 3}
    Drafted = {1}
    Group = group
    Loops = {"peer", "site"}
    SaveEvery = 2
    Deletable = {doc}
INVARIANTS TypeOK
PROPERTIES Causal
