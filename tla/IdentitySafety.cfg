\* Delegation, expiry and revocation under a drifting, adjustable clock.
SPECIFICATION Spec
CONSTANTS
    orchestrator = orchestrator
    coder = coder
    plan = plan
    write = write
    egress = egress
    Roles <- MCRoles
    Scopes <- MCScopes
    Bound <- MCBound
    Delegators <- MCDelegators
    Ttls = {1, 2}
    MaxDrift = 1
    MaxTime = 2
    MaxIds = 4
INVARIANTS
    DepthOne
    NoOrphan
    WithinBinding
    LifetimeNestedUpToDrift
PROPERTY
    OnlyTimeRevives
