\* A start and a stop, nothing cut short.
CONSTANTS
    Setup <- MCSetups
    MaxCommands = 2
    MaxReboots = 0
    MaxCuts = 0
    MaxFails = 3
SPECIFICATION MacSpec
INVARIANTS
    ProxiesRestored
CHECK_DEADLOCK FALSE
