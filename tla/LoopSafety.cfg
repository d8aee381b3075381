\* Safety and refinement of the approval loop over rotations and crashes.
SPECIFICATION Spec
CONSTANTS
    planner = planner
    coder = coder
    unverified = unverified
    read = read
    release = release
    ingest = ingest
    bogus = bogus
    inside = inside
    outside = outside
    Subjects <- MCSubjects
    Unverified <- unverified
    Actions <- MCActions
    Resources <- MCResources
    Catalog <- MCCatalog
    Escalating <- MCEscalating
    Releases <- MCReleases
    Bindings <- MCBindings
    Escaping <- MCEscaping
    InScope <- MCInScope
    Requests <- MCRequests
    MaxRecords = 8
    MaxCarry = 1
INVARIANTS
    IdsContinue
    OpenStateSurvivesRotation
    SpentOnce
    DecidedOnce
    EscalatingNeedsHuman
    OneRowPerRelease
PROPERTIES
    NeverReopens
    AbandonedIsFinal
    ImplementsLifecycle
