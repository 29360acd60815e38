CONSTANTS
    NoDoc = NoDoc
    Ids = {i1, i2}
    Edits = {e1, e2}
    Workers = {w1, w2}
    MaxEtag = 3
SPECIFICATION RepositorySpec
SYMMETRY Symmetry
INVARIANTS RepositoryTypeOK EntityIsSnapshot
PROPERTIES DeletedStaysDeleted NoLostEdit ImplementsLifecycle
