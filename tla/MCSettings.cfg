SPECIFICATION MCSpec
CONSTANTS
    Documents <- MCFiles
    Words <- MCWords
    IntOf <- MCIntOf
    Garbage = {0, 99}
    MaxOptions = 4
    Chunk = 4
INVARIANTS InputWins FileAsPrinted TableHolds SameText IntegersAsMeant TreeRecovered
CHECK_DEADLOCK FALSE
