\* The enforcement point, its quarantine and the purge, with purges that overlap.
SPECIFICATION Spec
CONSTANTS
    coder = coder
    planner = planner
    read = read
    ingest = ingest
    secret = secret
    lure = lure
    clean = clean
    unscreenable = unscreenable
    Subjects <- MCSubjects
    Tools <- MCTools
    Gated <- MCGated
    Plans <- MCPlans
    Payloads <- MCPayloads
    Size <- MCSize
    Budget = 2
    Events = {"beside"}
    Calls <- MCCalls
    Clean <- clean
    Unscreenable <- unscreenable
    MaxRows = 2
INVARIANTS
    IInv
    FlaggedNeedsHuman
    ReleaseBuysBytes
    OpenRowHasBlob
    PlanBinds
    Accounted
SYMMETRY Responses
