\* A command at its prompt while another process works on the chain.  A process
\* that opens the chain before it gets the lock may fork it, and nothing opens a
\* forked chain, so the system may stop.
SPECIFICATION Spec
CONSTANTS
    gateway = gateway
    cli = cli
    Procs = {gateway, cli}
    Events = {"overlap"}
    MaxRecords = 6
    MaxCarry = 0
    MaxCrashes = 0
PROPERTIES
    AppendsAreLocked
CHECK_DEADLOCK FALSE
