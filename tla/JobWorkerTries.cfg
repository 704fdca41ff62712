CONSTANTS
    head = head
    tail = tail
    unique = unique
    twin = twin
    all = all
    some = some
    Null = Null
    Jobs <- ChainJobs
    Workers = {all, some}
    Tries <- ChainTries
    MaxExceptions <- ChainMaxExceptions
    FailOnTimeout = {tail}
    RetryUntil = {head}
    Link <- MCLink
    Chained = {head}
    Direct = {}
    Unique = {}
    Served <- ChainServed
    MaxTries = 2
    MaxDeferrals = 1
    MaxFaults = 0
SPECIFICATION Spec
INVARIANT TriesHonoured
CHECK_DEADLOCK FALSE
