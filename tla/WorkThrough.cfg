CONSTANTS
    order = order
    receipt = receipt
    helper = helper
    m1 = m1
    m2 = m2
    draft = draft
    final = final
    e1 = e1
    e2 = e2
    admin = admin
    p1 = p1
    p2 = p2
    c1 = c1
    c2 = c2
    g1 = g1
    n1 = n1
    n2 = n2
    n3 = n3
    editor = editor
    since = since
    primary = primary
    replica = replica
    mailer = mailer
    cart = cart
    notice = notice
    t1 = t1
    t2 = t2
    on = on
    off = off
    Work = {order, receipt}
    Helpers = {helper}
    Attempts = 2
    MaxFrames = 2
    Instances = {m1, m2}
    Titles = {draft, final}
    MaxHits = 2
    Editors = {e1, e2}
    Ids = {admin, editor}
    Notes = {since}
    NoNote = NoNote
    MaxLinks = 4
    MaxOld = 2
    MaxKey = 5
    Size = 2
    Parents = {p1, p2}
    Children = {c1, c2}
    Grands = {g1}
    Nodes = {n1, n2, n3}
    Here = Here
    Elsewhere = Elsewhere
    MaxPivots = 2
    Null = Null
    MaxId = 4
    Scores = {1, 2}
    PerPage = 2
    NoCursor = NoCursor
    h1 = h1
    h2 = h2
    Holders = {h1, h2}
    MaxChained = 2
    NoRows = NoRows
    x1 = x1
    x2 = x2
    Calls = {x1, x2}
    MaxTokens = 4
    MaxValidators = 4
    w1 = w1
    w2 = w2
    hello = hello
    world = world
    Writers = {w1, w2}
    Texts = {hello, world}
    NoArticle = NoArticle
    NoDoc = NoDoc
    d1 = d1
    d2 = d2
    Deploys = {d1, d2}
    Migrations = {1, 2, 3}
    OnlyData = {3}
    Needs <- MCNeeds
    MaxBatch = 2
    MaxRequests = 4
    MaxSids = 3
    Items = {cart}
    Messages = {notice}
    Checkers = {t1, t2}
    Values = {on, off}
    Missing = Missing
    Resources = {primary, replica, mailer}
    NameOf <- MCNameOf
    Critical = {primary}
    Managed = {primary, replica}
    Retries = 1
    MaxCallbacks = 1
    k1 = k1
    k2 = k2
    wrap = wrap
    tag = tag
    Tasks = {k1, k2}
    NoScope = NoScope
    Extensions = {wrap, tag}
    NoObject = NoObject
    MaxBuilt = 3
    MaxBinds = 2
    u1 = u1
    u2 = u2
    del1 = del1
    del2 = del2
    thumb = thumb
    Uploads = {u1, u2}
    Deletions = {del1, del2}
    Conversions = {thumb}
    Original = Original
    f1 = f1
    f2 = f2
    own = own
    wild = wild
    s1 = s1
    b1 = b1
    b2 = b2
    ana = ana
    ben = ben
    Dispatchers = {f1, f2}
    Listeners = {own, wild}
    Wildcards = {wild}
    MaxEvents = 2
    MaxBlocks = 1
    mail = mail
    inApp = inApp
    Via <- MCVia
    MailersOf <- MCMailersOf
    MaxTries = 2
    news = news
    chat = chat
    Topics = {news, chat}
    Private = {chat}
    MaxPublished = 2
    get1 = get1
    get2 = get2
    Fetches = {get1, get2}
    j1 = j1
    j2 = j2
    j3 = j3
    Jobs = {j1, j2, j3}
    Unserved = {j3}
    Limits = {0, 1}
    MaxWorks = 2
    NoOptions = NoOptions
    MaxTimes = 2
    Caps = {1, 2}
    Policies <- MCPolicies
    Streams = {s1}
    Stacks <- MCStacks
    Priority <- MCPriority
    Visitors <- MCVisitors
    Limit = 1
    MaxServed = 2
    Rulesets <- MCRulesets
    EachRules <- MCEach
    Lists <- MCLists
    Inputs = {"absent", "null", "bad", "odd", "good"}
    MaxPasses = 2
    Browsers = {b1, b2}
    Persons = {ana, ben}
    TwoFactored = {ana}
    Supporters = {ana}
    NoPerson = NoPerson
    MaxBumps = 2
    MaxVisits = 3
SPECIFICATION FairSpec
INVARIANTS ServicesRight CommitsAgainOnlyAfterLateError WorkedOff
PROPERTIES ImplementsAfterCommit DoneInTheEnd
CHECK_DEADLOCK FALSE
