\* One stop, with a kill switch whose check may still run when its monitor is killed.
CONSTANTS
    Lan = {"br-lan"}
    ProxyIP = {"ip1"}
    Ttl = {"65"}
    Monitor = {"m1", "m2"}
    InitProc = "init"
    Proc = {"m1", "m2", "init"}
    Config <- MCConfig
    KillSwitchOption = {TRUE}
    FailThreshold = 1
    MaxCalls = 1
    MaxIfups = 0
    Allowed = {"proxy fails", "slow script"}
SPECIFICATION MCRouterSafeSpec
INVARIANTS
    StoppedIsOpen
