\* One health monitor against a proxy that comes and goes.
CONSTANTS
    Lan = {"br-lan"}
    ProxyIP = {"ip1", "ip2"}
    Ttl = {"65"}
    Monitor = {"m1"}
    TheMonitor = "m1"
    Proc = {"m1"}
    Config <- MCConfig
    FailThreshold = 3
SPECIFICATION Spec
INVARIANTS
    StateFileTellsTruth
PROPERTIES
    ImplementsKillSwitch
