SPECIFICATION StandaloneSpec
CONSTANTS
    Callers = {c1, c2, c3}
    None = none
    MaxCalls = 2
    Empty = Empty
    NoQuery = NoQuery
    a = a
    a_encoded = a_encoded
    Texts = {Empty, a, a_encoded}
    Decode <- MCDecode
    MaxPath = 4
    MaxQuery = 2
    Tmp = tmp
    Dests = {d1, d2}
    MaxMethods = 2
    Nobody = nobody
    Procs = {p1, p2, p3}
    Retries = 1
    MaxFlakes = 1
    MaxStarts = 3
    Chars <- MCChars
    Scripts <- MCScripts
    MaxRead = 2
INVARIANTS
    FirstStoreWins
    SegmentsSurvive
    UploadIsSafe
    ServersAreReachable
    ClientUnderstands
PROPERTIES
    RestartSucceeds
    StreamIsLive
CHECK_DEADLOCK FALSE
