\* Every way the policy can decide; the replay and the inductive invariant.
SPECIFICATION Spec
CONSTANTS
    planner = planner
    coder = coder
    unverified = unverified
    read = read
    release = release
    ingest = ingest
    bogus = bogus
    inside = inside
    outside = outside
    Subjects <- MCSubjects
    Unverified <- unverified
    Actions <- MCActions
    Resources <- MCResources
    Catalog <- MCCatalog
    Escalating <- MCEscalating
    Releases <- MCReleases
    Bindings <- MCBindings
    Escaping <- MCEscaping
    InScope <- MCInScope
    Requests <- PolicyRequests
    MaxRecords = 6
    MaxCarry = 1
INVARIANTS
    LeastPrivilege
    ReplayAgrees
    IInv
