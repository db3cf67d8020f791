SPECIFICATION LifecycleSpec
CONSTANTS
    r1 = r1
    r2 = r2
    Routes = {r1, r2}
    Tables <- MCTables
    Forwards = {404, 422}
    Responses <- MCResponses
    Requests = {q1, q2}
    Names = {n1, n2}
    Plain = {v}
    Secret = {s}
    Absent = Absent
    Expired = Expired
    MaxOps = 2
INVARIANTS
    FirstAnswerWins
    NoRouteCookiesInErrors
    CatcherChain
    FramedUnlessRenamed
PROPERTIES
    ClientSeesPending
    ResponsesMerge
