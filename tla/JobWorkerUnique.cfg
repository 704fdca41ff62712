CONSTANTS
    head = head
    tail = tail
    unique = unique
    twin = twin
    all = all
    some = some
    Null = Null
    Jobs <- UniqueJobs
    Workers = {all, some}
    Tries <- UniqueTries
    MaxExceptions <- UniqueMaxExceptions
    FailOnTimeout = {}
    RetryUntil = {}
    Link <- MCLink
    Chained = {}
    Direct = {unique, twin}
    Unique = {unique, twin}
    Served <- UniqueServed
    MaxTries = 2
    MaxDeferrals = 1
    MaxFaults = 1
SPECIFICATION FairSpec
INVARIANTS AtMostOneUnique
PROPERTIES SlotFreed
CHECK_DEADLOCK FALSE
