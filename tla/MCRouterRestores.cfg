\* The boot-time start and the restart of an ifup, with a proxy that comes and goes.
CONSTANTS
    Lan = {"br-lan"}
    ProxyIP = {"ip1"}
    Ttl = {"65"}
    Monitor = {"m1", "m2"}
    InitProc = "init"
    Proc = {"m1", "m2", "init"}
    Config <- MCConfig
    KillSwitchOption = {TRUE}
    FailThreshold = 1
    MaxCalls = 0
    MaxIfups = 1
    Allowed = {"proxy fails"}
SPECIFICATION MCRouterSpec
PROPERTIES
    RouterRestores
