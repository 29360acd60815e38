CONSTANTS
    NoDoc = NoDoc
    NoPrice = NoPrice
    Students = {s1, s2}
    Schedules = {h1}
    EnrollmentIds = {e1}
    Requests = {r1, r2}
    Prices = {0, 1}
    Capacities = {1}
    MaxEtag = 2
    MaxChanged = 2
SPECIFICATION Spec
SYMMETRY Symmetry
PROPERTIES NegotiatedPriceKept
