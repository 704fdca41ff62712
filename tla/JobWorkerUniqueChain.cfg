CONSTANTS
    head = head
    tail = tail
    unique = unique
    twin = twin
    all = all
    some = some
    Null = Null
    Jobs <- UniqueJobs
    Workers = {all, some}
    Tries <- UniqueTries
    MaxExceptions <- UniqueMaxExceptions
    FailOnTimeout = {}
    RetryUntil = {}
    Link <- MCLink
    Chained = {unique}
    Direct = {twin}
    Unique = {unique, twin}
    Served <- UniqueServed
    MaxTries = 2
    MaxDeferrals = 1
    MaxFaults = 0
SPECIFICATION Spec
INVARIANT AtMostOneUnique
CHECK_DEADLOCK FALSE
