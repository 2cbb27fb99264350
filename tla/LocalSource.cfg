SPECIFICATION LocalSpec
CONSTANTS
    Frame = 3
INVARIANT AnswerWhole
INVARIANT GroupStopped
PROPERTY CallEnds
CHECK_DEADLOCK FALSE
