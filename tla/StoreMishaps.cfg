\* Everything at once, but no repair: loss is never silent.
SPECIFICATION Spec
CONSTANTS
    gateway = gateway
    cli = cli
    this = this
    that = that
    Events = {"overlap", "death", "power", "error", "part", "text"}
    MaxLines = 4
    Procs = {gateway, cli}
    Payloads = {this, that}
INVARIANTS
    VerifiedIsComplete
