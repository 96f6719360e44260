SPECIFICATION Spec
CONSTANTS
    Default = Default
    Scoped = Scoped
    server = server
    low = low
    high = high
    home = home
    cafe = cafe
    karing = karing
    wifi = wifi
    user = user
    ca = ca
    tun1 = tun1
    tun2 = tun2
    Dest = {Default, Scoped, server, low, high}
    Capture = {low, high}
    Audited = {low, high}
    Gateway = {home, cafe}
    Link = {karing}
    Tun = {tun1, tun2}
    NoRoute = NoRoute
    Service = {wifi}
    Resolver = {user}
    Sentinel = Sentinel
    Anchor = {}
    DeleteByPrefix = FALSE
    BypassPlan <- MCBypass
    CapturePlan <- MCCapture
    DnsPlan <- MCServices
    DeferModes = {TRUE}
    InitTable <- MCTable
    InitDns <- MCDns
    InitTrusted = {}
    NoSnap = NoSnap
    Max <- MaxRetain
PROPERTIES
    RetryStaysPossible
