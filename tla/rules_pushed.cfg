SPECIFICATION Spec
CONSTANTS
    www = www
    news = news
    api = api
    site = site
    ads = ads
    shop = shop
    Name = {ads, shop}
    NoName = NoName
    m1 = m1
    m2 = m2
    n1 = n1
    n2 = n2
    web4 = web4
    srv4 = srv4
    far4 = far4
    gw4 = gw4
    away4 = away4
    lan4 = lan4
    lo4 = lo4
    lo6 = lo6
    web6 = web6
    srv6 = srv6
    ll6 = ll6
    NoGateway = NoGateway
    V4 = {web4, srv4, far4, gw4, away4, lan4, lo4}
    V6 = {web6, srv6, ll6, lo6}
    High = {far4, gw4, lan4, ll6}
    Loopback = {lo4, lo6}
    LinkLocal = {ll6}
    PrivateNets <- MCPrivateNets
    ServerLists <- MCServerLists
    Uplink <- MCUplink
    Host = {www, api, news}
    NoHost = NoHost
    Site <- MCSite
    Apex = {}
    Model = {m1, m2}
    Decided = {block}
    Undecided = {unsure}
    Ttl <- MCTtl
    InheritCap = 1
    Cooldown = 1
    Span <- MCSpan
    Limit <- MCLimit
    CacheMax = 2
    BatchMax = 2
    PersistEvery = 2
    MaxTime = 2
    MaxCalls = 2
    MaxSaves = 1
    Category <- MCCategory
    Optin = {shop}
    Node = {n1, n2}
    FirstNode = n1
    Profile <- PushProfile
    Connection <- MCConnection
    MaxEdits = 2
    DayLen = 1
    BackoffMax = 2
    Catchup = 2
    FileMax = 2
    MaxHour = 3
    MaxRows = 3
    MaxFaults = 1
    MaxChoices = 2
    MaxRoots = 0
    MaxUndos = 1
    MaxApplies = 2
    MaxAtOnce = 2
    Link = {n1}
    Source = {subscription}
    Manual = Manual
    NoLink = NoLink
    MaxCommands = 0
    MaxBreaks = 1
INVARIANT PushedAsGenerated
CHECK_DEADLOCK FALSE
