SPECIFICATION Spec
INVARIANTS
    RingExact
    RotationSound
    LinesDelivered
CHECK_DEADLOCK FALSE
