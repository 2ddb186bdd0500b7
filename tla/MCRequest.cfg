SPECIFICATION Spec
CONSTANTS
    Name <- Names
    QName = "host"
    MaxChain = 2
    Lookup = {"v4", "v6"}
    Nameserver = {"a", "b", "u"}
    Family <- Fams
    Replies <- Sample
    Timeout = 2
    Lifetime = 2
    Backoff = 1
    MaxBackoff = 2
    MaxStalls = 1
    MaxClock = 6
    Configured <- Lists
    ConnectTimeout = 1
    Delay = 1
    Client = {"c1", "c2"}
    Target = {"x4", "x6", "y4"}
    FamilyOf <- TargetFams
    Domain = {"x"}
    MaxDatagrams = 2
    MaxAnswers = 1
INVARIANTS RemovesListed OneConnection NoStrangers
PROPERTIES RequestEnds SilentWhenDone
CHECK_DEADLOCK FALSE
