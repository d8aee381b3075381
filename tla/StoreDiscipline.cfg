\* One process at a time: deaths, power losses, torn writes and repairs.
SPECIFICATION Spec
CONSTANTS
    gateway = gateway
    cli = cli
    this = this
    that = that
    Events = {"death", "power", "part", "repair"}
    MaxLines = 4
    Procs = {gateway, cli}
    Payloads = {this, that}
INVARIANTS
    IInv
    AckedIsKept
    Recoverable
PROPERTY
    ImplementsDurableLog
