\* Two submissions, the dialog opened twice, two faults.
CONSTANTS
    None = None
    Students = {ana}
    Documents = {dni}
    Schedules = {basico, avanzado}
    MaxSubmissions = 2
    MaxOpenings = 2
    MaxFaults = 1
    InitialPayments <- MCInitialPayments
SPECIFICATION FairSpec
INVARIANT TypeOK ToastTellsOutcome InitialPaymentOnce
PROPERTY SubmissionsAreReported
CHECK_DEADLOCK FALSE
