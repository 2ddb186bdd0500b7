SPECIFICATION HostsSpec
CONSTANTS
    Lan = {"br-lan", "br-guest"}
    ProxyIP = {"ip1", "ip2"}
    Ttl = {"64", "65"}
    Proc = {"fw"}
    Config <- MCConfig
    t1 = t1
    t2 = t2
    t3 = t3
    Order <- MCOrder
    FileLoop = "file"
    SlowLoop = {"network"}
    Slot = {t1, t2, t3}
    NoThread = NoThread
    MaxAttempts = 2
    MaxCrashes = 1
    MaxTaken = 2
INVARIANTS RedirectGuarded AppliedExactlyOnce KillOnBlocksAll StoppedIsSilent StartedIsAlive CleanShutdown
PROPERTIES StopEndsLoops NoRestartAfterStop
CHECK_DEADLOCK FALSE
