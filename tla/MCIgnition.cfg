CONSTANTS
    Fairing <- MCFairing
    Kinds = {"ignite", "response"}
    MaxAttached = 4
    Routes = {"state", "wrapped", "nested"}
    Colliding <- MCColliding
    Sentries <- MCSentries
    NoParent = "-"
    Specialized = {"State", "Conn", "Debug"}
    Needs <- MCNeeds
    None = "none"
    StateTypes = {"config", "pool"}
SPECIFICATION IgnitionSpec
INVARIANTS
    RanIsPrefix
    QueryIsExact
    ReadyIsSafe
CHECK_DEADLOCK FALSE
