SPECIFICATION ServerSpec
CONSTANTS
    ana = ana
    s1 = s1
    s2 = s2
    s3 = s3
    k1 = k1
    k2 = k2
    old = old
    new = new
    Peers = {ana}
    Channels = {s1, s2, k1, k2}
    Signals = {s1, s2}
    Sockets = {k1, k2}
    Pages = {old, new}
    OldClients = {}
    Timers = {t1, t2}
    PeerOf <- MCPeerOf
    PageOf <- MCPageOf
    NoPage = NoPage
    NoTimer = NoTimer
    Nobody = Nobody
    NoSignal = NoSignal
INVARIANT
    NobodyStranded
