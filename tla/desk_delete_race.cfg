CONSTANTS
    NoDoc = NoDoc
    NoPrice = NoPrice
    Students = {s1}
    Schedules = {h1}
    EnrollmentIds = {e1}
    Requests = {r1, r2}
    Prices = {1}
    Capacities = {1}
    MaxEtag = 2
    MaxChanged = 2
SPECIFICATION Spec
SYMMETRY Symmetry

PROPERTIES DependentsBlockDeletion
