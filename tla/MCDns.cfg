CONSTANTS
    t1 = t1  u1 = u1  u2 = u2  r1 = r1
    None = None  KeepAll = KeepAll
    SerialBits = 3
    Writers = {t1, u1}
    Secondaries = {t1}
    Updaters = {u1}
    Readers = {r1}
    Names = {"@", "a", "b"}
    Apex = "@"
    Policies <- MCPolicies
    MaxId = 3
    History <- MCHistory
    UdpModes = {"first", "only"}
    MaxTransfers = 2
    Operations <- MCOperations
    MaxOperations = 1

    Threads = {q1, q2}
    Sentinel = Sentinel
    Unset = Unset
    Requests <- MCRequests
    Resolvers <- MCResolvers
    Sizes = {0}
    Worlds <- MCWorlds
    Ttls = {1}
    MaxTtl = 9
    MaxClock = 2
    MaxAsked = 2
    MaxFlushes = 1
    CleaningInterval = 2
    Fold <- MCFold
    ZoneOrigin <- MCZoneName
    Questions <- MCQuestions
    RRsets <- MCRRsets
    Profiles <- MCProfiles
    MaxPointer = 12
    MaxSize = 26
    MaxAdds = 5
    MaxLabel = 8
    MaxName = 12
    OtherNames <- MCOtherNames
    MaxTTL = 9
SPECIFICATION DnsSpec
INVARIANTS RingInOrder RoundTrip NamesSurvive OrderAgrees TokensAgree ZoneFilesAgree SignaturesHold DelegationsHold
PROPERTIES ReadersSeeOneVersion WritersServed TransferExact AnswersFresh
CHECK_DEADLOCK FALSE
