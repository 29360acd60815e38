CONSTANTS
    NoDoc = NoDoc
    Ids = {i1}
    Edits = {e1, e2}
    Workers = {w1, w2}
    MaxEtag = 3
SPECIFICATION MaintenanceSpec
PROPERTIES ReindexPreservesDocuments
