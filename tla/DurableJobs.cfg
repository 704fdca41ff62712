CONSTANTS
    plain = plain
    poison = poison
    any = any
    picky = picky
    Null = Null
    Jobs <- MCJobs
    Workers <- MCWorkers
    Queues <- MCQueues
    QueueOf <- MCQueueOf
    Rank <- MCRank
    Override <- MCOverride
    Delays <- MCDelays
    Poison = {poison}
    Legacy = {poison}
    RetryAfter = 1
    SubSecond = 2
    MaxSecond = 3
    MaxFaults = 1
SPECIFICATION FairSpec
INVARIANTS TypeOK NoJobLost LeaseExclusive DuplicateNeedsTimeout
PROPERTIES LessThanASecondEarly EveryJobReleased ImplementsRail
CHECK_DEADLOCK FALSE
