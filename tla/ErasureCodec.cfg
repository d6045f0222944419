SPECIFICATION CodecSpec
CONSTANTS
    Size = {0, 1, 2, 3, 4, 5, 6, 7, 8, 9, 10}
    K = {1, 2, 3}
    M = {1, 2}
    BlockSizes = {1, 2, 3}
INVARIANT CodecTypeOK
INVARIANT DecodesToOriginal
INVARIANT FailsOnlyWhenTooFew
INVARIANT ShardSizesAgree
CHECK_DEADLOCK FALSE
