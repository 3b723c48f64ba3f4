\* Live production with chunks of two segments and a consumer window of two,
\* and the virtual producer that answers every interest from its pool.
CONSTANTS
    Total = 4
    SegsPerJob = 2
    Window = 2
    MaxUnsatisfied = 2
    Modes = {"live", "virtual"}
SPECIFICATION Spec
INVARIANT TypeOK
PROPERTY AllReceived
\* A stop short of the download is reported as a violation of AllReceived.
CHECK_DEADLOCK FALSE
