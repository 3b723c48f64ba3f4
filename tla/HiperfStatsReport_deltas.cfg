\* Reports over a run long enough for the uint32_t NACK counter to wrap.
CONSTANTS
    W32 = 2
    MaxEvents = 6
SPECIFICATION Spec
INVARIANTS TypeOK ReportedDeltasExact
\* The model stops after MaxEvents transport events.
CHECK_DEADLOCK FALSE
