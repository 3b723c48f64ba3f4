\* Where asyncProcessInterest starts a chunk when interests missed out of order.
CONSTANTS
    Total = 4
    SegsPerJob = 1
    Window = 3
    MaxUnsatisfied = 2
    Modes = {"live"}
SPECIFICATION Spec
PROPERTY ChunkStartsAtSmallestUnsatisfied
