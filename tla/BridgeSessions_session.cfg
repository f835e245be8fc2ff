CONSTANTS
    s1 = s1
    s2 = s2
    Sessions <- OneSession
    ErrorsCap = 3
SPECIFICATION FairSpec
INVARIANTS TypeOK JavaNotLeaked SenderNeverBlocks
PROPERTIES GoroutinesEnd SessionEnds
CHECK_DEADLOCK FALSE
