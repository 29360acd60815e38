\* One browser, an API with one conversation and one made up by the browser.
CONSTANTS
    None = None
    Conversations = {c1}
    Demo = {d1}
    Leads = {open, paid}
    FirstLead = open
    Limit = 1
    InitialCount = 2
    MaxEvents = 2
    MaxTyped = 2
    MaxTrouble = 1
    INITIAL_FLOWS <- MCInitialFlows
    MaxFlows = 2
    MaxSteps = 5
    CRM_AGENTS = 2
    INITIAL_ASSETS = 1
    MaxMade = 3
SPECIFICATION Spec
INVARIANTS TypeOK OwnChangesShown ThreadsAreWhole TypedIsSentOnce OneDefaultAgent
PROPERTY FlowEditsAreLocal
CHECK_DEADLOCK FALSE
