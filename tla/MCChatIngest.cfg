SPECIFICATION FairSpec
CONSTANTS
    Messages <- TwoWatches
    None = None
    MaxCopies = 1
    MaxFailures = 2
    MaxDeletions = 1
INVARIANT TypeOK
INVARIANT RowFileIsWhole
PROPERTY ImplementsReliableChat
PROPERTY GoodMessagesDelivered
CHECK_DEADLOCK FALSE
