CONSTANTS
    Wires = {w1, w2}
    Trippers = {t1, t2}
    NoEvent = NoEvent
SPECIFICATION Spec
INVARIANTS
    NoLostWakeup
    ListPointsToLiveEvents
PROPERTY ImplementsLatch
CHECK_DEADLOCK FALSE
