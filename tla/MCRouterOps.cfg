CONSTANTS
    lan1 = lan1
    lan2 = lan2
    ip1 = ip1
    ip2 = ip2
    m1 = m1
    m2 = m2
    m3 = m3
    init = init
\* Every mix of operations, with the kill switch off.
CONSTANTS
    Lan = {lan1, lan2}
    ProxyIP = {ip1, ip2}
    Ttl = {"65"}
    Monitor = {m1, m2, m3}
    InitProc = init
    Proc = {m1, m2, m3, init}
    Config <- MCConfig
    KillSwitchOption = {FALSE}
    FailThreshold = 1
    MaxCalls = 1
    MaxIfups = 1
    Allowed = {"start overlaps", "slow boot", "slow script"}
VIEW View
SYMMETRY Symmetry
SPECIFICATION MCRouterSafeSpec
INVARIANTS
    NoBlackHole
    ConfigAdopted
CHECK_DEADLOCK FALSE
