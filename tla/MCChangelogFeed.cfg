SPECIFICATION FeedSpec
CONSTANTS
    MaxIndex = 4
    QueueLimit = 2
    MaxCrashes = 2
    MaxFaults = 2
INVARIANTS FeedComplete FeedInOrder
PROPERTIES EntriesReachTopic
