\* Two starts and a stop, nothing cut short.
CONSTANTS
    Setup <- MCSetups
    MaxCommands = 3
    MaxReboots = 0
    MaxCuts = 0
    MaxFails = 3
SPECIFICATION MacSpec
INVARIANTS
    DnsRestored
CHECK_DEADLOCK FALSE
