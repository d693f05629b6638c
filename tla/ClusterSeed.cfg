\* A working tree without a Namespace the synced core list needs: Build refuses
\* until a person changes one of the two.
CHECK_DEADLOCK FALSE
SPECIFICATION FairSpec
CONSTANTS
    copy = copy
    source = source
    omit = omit
    url = url
    password = password
    token = token
    receivers = receivers
    argocdDir = argocdDir
    gatewayDir = gatewayDir
    extraDir = extraDir
    core = core
    extra = extra
    r1 = r1
    r2 = r2
    link = link
    host1 = host1
    host2 = host2
    lb = lb
    lb2 = lb2
    old = old
    live1 = live1
    item = item
    hand = hand
    g1 = g1
    g2 = g2
    g3 = g3
    Secrets <- MCSecrets
    Rank <- MCRank
    Keys <- MCKeys
    Extras = {}
    In <- MCIn
    Kind <- MCKind
    From <- MCFrom
    Formatted = {url}
    RehearsalItems = {token}
    Draws = {live1, item, hand, g1, g2, g3}
    NoValue = NoValue
    Plain = Plain
    Revisions = {r1, r2}
    None = None
    Apps <- MCApps
    ArgoCDApp = argocdDir
    GatewayApp = gatewayDir
    Elements <- MCElements
    NamespacesOf <- MCNamespacesOf
    Projects = {}
    Home <- MCHome
    Omitted = {omit}
    LiveLinks = {link}
    CutIn <- MCCutIn
    Leaks <- MCLeaks
    Hosts = {host1, host2}
    Addresses = {lb, old}
    LiveAddress = old
    LiveDraw = live1
    ItemDraw = item
    HandDraw = hand
    MaxByHand = 2
INVARIANTS RehearsalApart
PROPERTIES FreshOnce RoomForEach Sound Converges
