\* Two requests in flight on one schedule with two sessions or one; one student
\* enrolls and leaves at any time.
CONSTANTS
    Students = {s1}
    Recorded = {"present"}
    Plans <- MCPlans
    Null = Null
    Workers = {w1, w2}
    StartDates <- MCStartDates
    SessionDates <- MCSessionDates
    LastDate = 4
    NoSchedule = NoSchedule
    Stale = Stale
SPECIFICATION Spec
SYMMETRY Symmetry
INVARIANTS TypeOK PlanSpansItsSessions
PROPERTIES HeldSessionsKept MarksKept
