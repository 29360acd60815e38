\* A browser on a page of each kind, one record at first, one per request.  The
\* teachers page is the students page without wizard, the page of the payments to
\* teachers behaves like the one of the expenses, and the schedules page joins what
\* these three have: a form that creates, a menu, guarded edits.
CONSTANTS
    None = None
    Pages = {"students", "expenses", "enrollments"}
    InitialRecords = 1
    Limit = 1
    MaxWrites = 2
    MaxEvents = 1
SPECIFICATION RecordsSpec
INVARIANT RecordsTypeOK RowsAreTheServers OwnWritesShown
PROPERTY GuardedEditsKeepOthers
CHECK_DEADLOCK FALSE
