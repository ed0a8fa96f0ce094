SPECIFICATION FairSpec
CONSTANTS
    Messages <- TwoWatches
    None = None
    MaxCopies = 1
    MaxFailures = 0
    MaxDeletions = 0
PROPERTY WellFormedMessagesDelivered
CHECK_DEADLOCK FALSE
