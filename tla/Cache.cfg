CONSTANTS
    page = page
    guard = guard
    limited = limited
    throttle = throttle
    profile = profile
    feed = feed
    people = people
    artists = artists
    a1 = a1
    a2 = a2
    a3 = a3
    b1 = b1
    b2 = b2
    r1 = r1
    r2 = r2
    report = report
    prune = prune
    mutex = mutex
    Null = Null
    Keys <- MCKeys
    MaxTime = 6
    Callers = {b1, b2}
    Refreshes = {r1, r2}
    Page = page
    Guard = guard
    Fresh = 1
    Stale = 2
    Slow = 2
    Tagged = {profile, feed}
    Tags = {people, artists}
    TagsOf <- MCTagsOf
    Users = {b1, b2}
    TagTTL = 1
    Limited = limited
    Throttle = throttle
    Jobs = {a1, a2, a3}
    MaxAttempts = 2
    Decay = 2
    Ticks = {a1, a2, a3}
    Tasks = {report}
    Identity <- MCIdentity
    OneServer = {report}
    Overlap = {report}
    ClaimTTL = 4
    OverlapTTL = 2
    Wall <- MCWall
    Skew = 1
    Names <- MCNames
    Owners <- MCOwners
    Clients = {a1, a2, a3}
    Mutex = mutex
    LockTTL = 2
    MaxWait = 1
    Driver = "redis"
    MaxFlushes = 1
SPECIFICATION EachAlone
SYMMETRY Alike
CONSTRAINT Enough
INVARIANTS TypeOK RefreshRight TagsKnowTheirEntries CountersRight LeaseHonoured OncePerMinute LockedMeansInFlight
CHECK_DEADLOCK FALSE
