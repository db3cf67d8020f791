SPECIFICATION FairSpec
CONSTANTS
    Tcp = {c1}
    Quic = {q1}
    Streams = {s1}
    Grace = 1
    Mercy = 2
INVARIANTS
    NotCutShort
    SleepersWillWake
    ServersAreJoined
    OkIsSoleOwner
PROPERTIES
    FailsOnlyForFairings
    ShutdownEnds
