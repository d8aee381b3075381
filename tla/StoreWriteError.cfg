\* A write fails and the process goes on.
SPECIFICATION Spec
CONSTANTS
    gateway = gateway
    cli = cli
    this = this
    that = that
    Events = {"error"}
    MaxLines = 3
    Procs = {gateway, cli}
    Payloads = {this, that}
INVARIANTS
    Recoverable
