SPECIFICATION LiveServerSpec
CONSTANTS
    ana = ana
    s1 = s1
    s2 = s2
    s3 = s3
    k1 = k1
    k2 = k2
    old = old
    new = new
    Peers = {ana}
    Channels = {s1, s2, s3, k1}
    Signals = {s1, s2, s3}
    Sockets = {k1}
    Pages = {old, new}
    OldClients = {old}
    Timers = {t1, t2}
    PeerOf <- MCPeerOf
    PageOf <- MCPageOf
    NoPage = NoPage
    NoTimer = NoTimer
    Nobody = Nobody
    NoSignal = NoSignal
INVARIANTS
    SessionsAreSound
    RosterIsSound
    CountdownsAgree
    NobodyLeftBehind
PROPERTIES
    GoodbyeSparesOtherPages
    DesertersLeaveRoster
    KeepsPromise
