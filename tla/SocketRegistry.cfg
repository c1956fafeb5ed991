\* Two sockets on two channels, in the same or in different ones; a check timer
\* that may run a tick late.
CONSTANTS
    s1 = s1  s2 = s2
    c1 = c1  c2 = c2
    SocketId = {s1, s2}
    Channel = {c1, c2}
    NoChannel = NoChannel
    PingInterval = 1
    Lateness = 1
    PongDelay = 1
    ResponseTimeout = 4
SPECIFICATION FairSpec
INVARIANTS TypeOK OpenIsServed ChannelsSeparate LivePeerKept BroadcastReachesAll
PROPERTY GoneIsForgotten
