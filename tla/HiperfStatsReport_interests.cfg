\* Reports once more than 2^W32 interests have been sent.
CONSTANTS
    W32 = 2
    MaxEvents = 6
SPECIFICATION Spec
INVARIANT InterestSentDeltaExact
CHECK_DEADLOCK FALSE
