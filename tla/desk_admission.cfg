CONSTANTS
    NoDoc = NoDoc
    NoPrice = NoPrice
    Students = {s1, s2}
    Schedules = {h1}
    EnrollmentIds = {e1, e2, e3}
    Requests = {r1, r2}
    Prices = {1}
    Capacities = {1, 2}
    MaxEtag = 2
    MaxChanged = 2
SPECIFICATION AdmissionSpec
SYMMETRY Symmetry
INVARIANTS TypeOK DuplicatesBounded OverbookingBounded

