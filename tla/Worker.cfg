CONSTANTS
    Items = {i1, i2, i3}
    BufferSize = 1
    BatchSize = 2
    Attempts = 3
    Outcomes = {"ok", "busy", "error"}
SPECIFICATION FairSpec
INVARIANTS TypeOK SettledOnce
PROPERTIES ImplementsDelivery CallsSettle
CHECK_DEADLOCK FALSE
