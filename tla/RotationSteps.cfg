\* One command at a time, which may die, and a machine that may lose power.
SPECIFICATION FairSpec
CONSTANTS
    gateway = gateway
    cli = cli
    Procs = {gateway, cli}
    Events = {"death", "power"}
    MaxRecords = 8
    MaxCarry = 0
    MaxCrashes = 2
INVARIANTS
    IInv
    Recovers
    NothingLost
    OpenIsCarried
PROPERTIES
    ImplementsSegmentedChain
    Converges
