\* One LAN and one address, the kill switch armed, a proxy that comes and goes.
CONSTANTS
    Lan = {"br-lan"}
    ProxyIP = {"ip1"}
    Ttl = {"65"}
    Monitor = {"m1", "m2"}
    InitProc = "init"
    Proc = {"m1", "m2", "init"}
    Config <- MCConfig
    KillSwitchOption = {TRUE}
    FailThreshold = 2
    MaxCalls = 2
    MaxIfups = 0
    Allowed = {"proxy fails", "slow script"}
SPECIFICATION MCRouterSpec
INVARIANTS AtMostOneMonitor LoneStopOpens
PROPERTIES BlocksOnlyAfterThreshold
