\* The enforcement point, its quarantine and the purge, with a write that stores less than it was given.
SPECIFICATION Spec
CONSTANTS
    coder = coder
    planner = planner
    read = read
    ingest = ingest
    secret = secret
    lure = lure
    clean = clean
    unscreenable = unscreenable
    Subjects <- MCSubjects
    Tools <- MCTools
    Gated <- MCGated
    Plans <- MCPlans
    Payloads <- MCPayloads
    Size <- MCSize
    Budget = 2
    Events = {"short"}
    Calls <- MCCalls
    Clean <- clean
    Unscreenable <- unscreenable
    MaxRows = 2
INVARIANTS
    OpenRowHasBlob
SYMMETRY Responses
