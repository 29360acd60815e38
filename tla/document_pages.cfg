\* A browser on the page of the catalog, and one on the overview; or one on the
\* detail page of a schedule, and the others.
CONSTANTS
    None = None
    active = active
    inactive = inactive
    melamina = melamina
    drywall = drywall
    Desks = {editor}
    Values = {melamina, drywall, third}
    Levels = {active, inactive}
    ActiveLevels = {active}
    InitialItems <- MCInitialItems
    MaxWrites = 2
    MaxFaults = 1
    Sessions = {s1, s2}
    Pupils = {ana, bea}
    MaxInFlight = 2
SPECIFICATION PagesSpec
SYMMETRY Interchangeable
INVARIANT PagesTypeOK ValuesAreUnique OwnWritesShown CurrentPanelsKeepMarks
PROPERTY CurrentCopiesEditOneItem
CHECK_DEADLOCK FALSE
