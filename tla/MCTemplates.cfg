SPECIFICATION TemplatesSpec
CONSTANTS
    Requests = {r1, r2}
    Boot = boot
    Walk <- MCWalk
    NameOf <- MCNameOf
    Lazy <- MCLazy
    MaxChanges = 2
INVARIANTS
    ContextIsWhole
    CaughtUp
PROPERTIES
    RequestsEnd
CHECK_DEADLOCK FALSE
