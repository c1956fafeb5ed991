--------------------------- MODULE SocketRegistry ---------------------------
(***************************************************************************)
(* The socket and channel registries of the websocket server              *)
(* (superset-websocket/src/index.ts): clients are tracked under the channel *)
(* of their token, events are broadcast to a channel, a timer pings every   *)
(* socket and forgets the ones that do not answer, another timer removes    *)
(* forgotten sockets from the channels.  Every callback of the server runs  *)
(* to completion on one event loop, so each is one action, but for the pass  *)
(* of a broadcast over its channel's list: it cleans the channel it is       *)
(* iterating over, so it takes a step per socket, while nothing else runs.   *)
(*                                                                          *)
(* A socket id is a fresh uuid: here, any id no registry refers to and whose *)
(* connection is gone.  The order of a channel's socket list decides only    *)
(* the order of sends, so the list is a set.                                 *)
(***************************************************************************)
EXTENDS Integers, FiniteSets

CONSTANTS
    SocketId,         \* ids a socket may be given
    Channel,          \* channel ids carried by the tokens
    NoChannel,        \* the channel of an id not in use
    PingInterval,     \* pingSocketsIntervalMs, in ticks
    Lateness,         \* how late the event loop may run that timer
    PongDelay,        \* a live peer answers a ping within this many ticks
    ResponseTimeout   \* socketResponseTimeoutMs, in ticks

ASSUME RegistryAssumption ==
    /\ PingInterval \in Nat \ {0}
    /\ Lateness \in Nat
    /\ PongDelay \in Nat
    /\ ResponseTimeout \in Nat
    /\ NoChannel \notin Channel

\* The default configuration (20 s, 60 s) leaves a live peer 40 s to answer.
ASSUME TimingAssumption == PingInterval + Lateness + PongDelay < ResponseTimeout

VARIABLES
    sockets,     \* ids that are keys of the sockets registry
    channels,    \* the channels registry: channel -> ids listed under it
    channelOf,   \* channel of each connection (SocketInstance.channel)
    ready,       \* readyState of each connection; "none" before it exists
    peer,        \* "live" peers answer pings, "mute" ones vanished without a close
    pongAge,     \* ticks since pongTs, up to ResponseTimeout
    pingAge,     \* ticks since the oldest unanswered ping; -1 when there is none
    sinceCheck,  \* ticks since checkSockets ran
    sending,     \* channel of the running sendToChannel, NoChannel when there is none
    pass,        \* listed sockets its forEach has not come to yet
    reached      \* open connections it has sent the event to

connections == <<channelOf, ready, peer, pongAge, pingAge>>
broadcast == <<sending, pass, reached>>
vars == <<sockets, channels, connections, sinceCheck, broadcast>>
-----------------------------------------------------------------------------
ReadyStates == {"none", "open", "closing", "closed"}

TypeOK ==
    /\ sockets \subseteq SocketId
    /\ DOMAIN channels \subseteq Channel
    /\ \A c \in DOMAIN channels : channels[c] \subseteq SocketId
    /\ channelOf \in [SocketId -> Channel \cup {NoChannel}]
    /\ ready \in [SocketId -> ReadyStates]
    /\ peer \in [SocketId -> {"live", "mute"}]
    /\ pongAge \in [SocketId -> 0 .. ResponseTimeout]
    /\ pingAge \in [SocketId -> -1 .. PongDelay]
    /\ sinceCheck \in 0 .. PingInterval + Lateness
    /\ sending \in Channel \cup {NoChannel}
    /\ pass \subseteq SocketId
    /\ reached \subseteq SocketId

Init ==
    /\ sockets = {}
    /\ channels = [c \in {} |-> {}]
    /\ channelOf = [s \in SocketId |-> NoChannel]
    /\ ready = [s \in SocketId |-> "none"]
    /\ peer = [s \in SocketId |-> "live"]
    /\ pongAge = [s \in SocketId |-> 0]
    /\ pingAge = [s \in SocketId |-> -1]
    /\ sinceCheck = 0
    /\ sending = NoChannel /\ pass = {} /\ reached = {}
-----------------------------------------------------------------------------
Listed(s) == \E c \in DOMAIN channels : s \in channels[c]

\* A uuid no connection and no registry knows.
Fresh(s) == ready[s] = "none" /\ s \notin sockets /\ ~Listed(s)

IsActive(s) == ready[s] = "open"

\* No callback is in the middle of a pass: the event loop may run another.
Idle == sending = NoChannel

\* Mutant: cleanChannel keeps an id the sockets registry no longer knows.
ActiveSocketsMutant(c) == {s \in channels[c] : s \in sockets => IsActive(s)}

\* The sockets cleanChannel keeps: tracked and still open.
ActiveSockets(c) == {s \in channels[c] : s \in sockets /\ IsActive(s)}

\* Mutant: a channel left without sockets is not deleted.
CleanedMutant(C) ==
    [c \in DOMAIN channels |-> IF c \in C THEN ActiveSockets(c) ELSE channels[c]]

\* channels after cleanChannel has run on every channel of C.
Cleaned(C) ==
    LET kept == {c \in DOMAIN channels : c \in C => ActiveSockets(c) # {}}
    IN  [c \in kept |-> IF c \in C THEN ActiveSockets(c) ELSE channels[c]]

\* Mutant: trackClient overwrites the entry of a channel it already knows.
TrackedMutant(s, c) ==
    [d \in DOMAIN channels \cup {c} |-> IF d = c THEN {s} ELSE channels[d]]

\* channels after trackClient has pushed s on channel c.
Tracked(s, c) ==
    [d \in DOMAIN channels \cup {c} |->
        IF d = c THEN {s} \cup (IF c \in DOMAIN channels THEN channels[c] ELSE {})
                 ELSE channels[d]]

\* Mutant: a token without a channel is let through.
AdmittedMutant(c) == TRUE

\* httpUpgrade: a request whose token carries no channel is refused.
Admitted(c) == c # NoChannel

\* wsConnection: the token's channel and a fresh socket enter both registries.
Connect(s, c) ==
    /\ Idle /\ Admitted(c) /\ Fresh(s)
    /\ sockets' = sockets \cup {s}
    /\ channels' = Tracked(s, c)
    /\ channelOf' = [channelOf EXCEPT ![s] = c]
    /\ ready' = [ready EXCEPT ![s] = "open"]
    /\ peer' = [peer EXCEPT ![s] = "live"]
    /\ pongAge' = [pongAge EXCEPT ![s] = 0]
    /\ pingAge' = [pingAge EXCEPT ![s] = -1]
    /\ UNCHANGED <<sinceCheck, broadcast>>

\* sendToChannel of an event for a known channel takes the list it will go over.
Broadcast(c) ==
    /\ Idle /\ c \in DOMAIN channels
    /\ sending' = c /\ pass' = channels[c]
    /\ UNCHANGED <<sockets, channels, connections, sinceCheck, reached>>

\* Mutant: `return cleanChannel(channel)` out of a for loop ends the whole pass.
RestMutant(s) == IF s \in sockets THEN pass \ {s} ELSE {}

\* forEach goes on over the list it started with, whatever a clean has put in
\* its place.
Rest(s) == pass \ {s}

\* The pass comes to s.  A socket the registry does not know has the channel
\* cleaned, and so has one whose send throws: on a connection that is no longer
\* open the websocket library may throw, or drop the message silently.
Send(s) ==
    /\ ~Idle /\ s \in pass
    /\ pass' = Rest(s)
    /\ \/ /\ s \in sockets /\ IsActive(s)
          /\ reached' = reached \cup {s} /\ UNCHANGED channels
       \/ /\ s \in sockets /\ ~IsActive(s)
          /\ UNCHANGED <<channels, reached>>
       \/ /\ ~(s \in sockets /\ IsActive(s))
          /\ channels' = Cleaned({sending}) /\ UNCHANGED reached
    /\ UNCHANGED <<sockets, connections, sinceCheck, sending>>

\* sendToChannel returns.
Sent ==
    /\ ~Idle /\ pass = {}
    /\ sending' = NoChannel /\ reached' = {}
    /\ UNCHANGED <<sockets, channels, connections, sinceCheck, pass>>

\* Mutant: the handler does not refresh pongTs.
PongMutant(s) ==
    /\ Idle /\ pingAge[s] >= 0 /\ peer[s] = "live" /\ ready[s] \in {"open", "closing"}
    /\ pingAge' = [pingAge EXCEPT ![s] = -1]
    /\ UNCHANGED <<sockets, channels, channelOf, ready, peer, pongAge, sinceCheck, broadcast>>

\* The `pong` handler: refresh pongTs when the registry still knows the socket.
Pong(s) ==
    /\ Idle /\ pingAge[s] >= 0 /\ peer[s] = "live" /\ ready[s] \in {"open", "closing"}
    /\ pingAge' = [pingAge EXCEPT ![s] = -1]
    /\ pongAge' = IF s \in sockets THEN [pongAge EXCEPT ![s] = 0] ELSE pongAge
    /\ UNCHANGED <<sockets, channels, channelOf, ready, peer, sinceCheck, broadcast>>
-----------------------------------------------------------------------------
TimedOut(s) == pongAge[s] >= ResponseTimeout

\* checkSockets, one pass over every tracked socket: one that has not answered
\* in time is terminated and forgotten, one that is no longer open is forgotten,
\* the others are pinged.  The channels still list the forgotten ids.
CheckSockets ==
    LET terminated == {s \in sockets : TimedOut(s)}
        forgotten  == terminated \cup {s \in sockets : ~IsActive(s)}
        pinged     == sockets \ forgotten
    IN  /\ Idle /\ sinceCheck >= PingInterval
        /\ sockets' = sockets \ forgotten
        /\ ready' = [s \in SocketId |->
                        IF s \in terminated /\ ready[s] = "open"
                        THEN "closing" ELSE ready[s]]
        /\ pingAge' = [s \in SocketId |->
                        IF s \in pinged /\ pingAge[s] = -1 THEN 0 ELSE pingAge[s]]
        /\ sinceCheck' = 0
        /\ UNCHANGED <<channels, channelOf, peer, pongAge, broadcast>>

\* The gc timer: cleanChannel on every channel.
Gc ==
    /\ Idle
    /\ channels' = Cleaned(DOMAIN channels)
    /\ UNCHANGED <<sockets, channelOf, ready, peer, pongAge, pingAge, sinceCheck, broadcast>>
-----------------------------------------------------------------------------
\* The environment.  The peer closes, or an earlier terminate completes: no
\* handler of the server runs then, the registries keep the socket.
PeerCloses(s) ==
    /\ Idle
    /\ \/ ready[s] = "open"    /\ ready' = [ready EXCEPT ![s] = "closing"]
       \/ ready[s] = "closing" /\ ready' = [ready EXCEPT ![s] = "closed"]
    /\ UNCHANGED <<sockets, channels, channelOf, peer, pongAge, pingAge, sinceCheck, broadcast>>

\* The peer vanishes without closing the connection.
PeerVanishes(s) ==
    /\ Idle /\ ready[s] = "open" /\ peer[s] = "live"
    /\ peer' = [peer EXCEPT ![s] = "mute"]
    /\ UNCHANGED <<sockets, channels, channelOf, ready, pongAge, pingAge, sinceCheck, broadcast>>

\* Nothing refers to the connection any more: its id stands for a fresh uuid.
Collected(s) ==
    /\ Idle /\ ready[s] = "closed" /\ s \notin sockets /\ ~Listed(s)
    /\ ready' = [ready EXCEPT ![s] = "none"]
    /\ pingAge' = [pingAge EXCEPT ![s] = -1]
    /\ pongAge' = [pongAge EXCEPT ![s] = 0]
    /\ peer' = [peer EXCEPT ![s] = "live"]
    /\ channelOf' = [channelOf EXCEPT ![s] = NoChannel]
    /\ UNCHANGED <<sockets, channels, sinceCheck, broadcast>>

\* One tick of time; a live peer with an open connection answers within
\* PongDelay and the check timer fires within PingInterval + Lateness.
Due(s) == ready[s] = "open" /\ peer[s] = "live" /\ pingAge[s] = PongDelay

Tick ==
    /\ Idle /\ sinceCheck < PingInterval + Lateness
    /\ \A s \in SocketId : ~Due(s)
    /\ sinceCheck' = sinceCheck + 1
    /\ pongAge' = [s \in SocketId |->
                      IF ready[s] = "none" \/ pongAge[s] = ResponseTimeout
                      THEN pongAge[s] ELSE pongAge[s] + 1]
    /\ pingAge' = [s \in SocketId |->
                      IF pingAge[s] = -1 \/ pingAge[s] = PongDelay
                      THEN pingAge[s] ELSE pingAge[s] + 1]
    /\ UNCHANGED <<sockets, channels, channelOf, ready, peer, broadcast>>
-----------------------------------------------------------------------------
Next ==
    \/ \E s \in SocketId, c \in Channel \cup {NoChannel} : Connect(s, c)
    \/ \E c \in Channel : Broadcast(c)
    \/ Sent
    \/ \E s \in SocketId : Send(s) \/ Pong(s) \/ PeerCloses(s) \/ PeerVanishes(s) \/ Collected(s)
    \/ CheckSockets
    \/ Gc
    \/ Tick

Spec == Init /\ [][Next]_vars

\* A pass runs to its end, and however many events there are to broadcast the
\* event loop comes back between passes to its timers and to the pongs (strong
\* fairness): time goes on, which it cannot do for ever without an overdue check
\* or pong, and gc fires.  Nothing obliges a peer to connect, close or vanish.
PassStep == Sent \/ \E s \in SocketId : Send(s)
TimeStep == Tick \/ CheckSockets \/ \E s \in SocketId : Pong(s)

Fairness == WF_vars(PassStep) /\ SF_vars(TimeStep) /\ SF_vars(Gc)

FairSpec == Spec /\ Fairness
-----------------------------------------------------------------------------
\* A connection that is open is tracked and listed under its own channel, so
\* the next broadcast reaches it, whatever interleaving of check, gc and failed
\* sends ran before.
OpenIsServed ==
    \A s \in SocketId : ready[s] = "open" =>
        /\ s \in sockets
        /\ channelOf[s] \in DOMAIN channels
        /\ s \in channels[channelOf[s]]

\* A socket is listed under its own channel only (no event of one user reaches
\* another user's connection), and no channel is kept with an empty list.
ChannelsSeparate ==
    \A c \in DOMAIN channels :
        /\ channels[c] # {}
        /\ \A s \in channels[c] : channelOf[s] = c

\* A connection whose peer answers every ping within PongDelay is never timed
\* out, hence never terminated, however late the check timer runs.
LivePeerKept ==
    \A s \in SocketId : ready[s] = "open" /\ peer[s] = "live" => ~TimedOut(s)

\* When a broadcast is over it has reached every open connection of its channel,
\* wherever in the pass another connection was unknown or its send threw and the
\* list was cleaned, or the channel deleted, under the running loop.
BroadcastReachesAll ==
    ~Idle /\ pass = {} =>
        {s \in SocketId : ready[s] = "open" /\ channelOf[s] = sending} \subseteq reached

\* A peer that vanished, or a connection that closed, leaves both registries.
GoneIsForgotten ==
    \A s \in SocketId :
        (ready[s] = "closed" \/ (ready[s] # "none" /\ peer[s] = "mute"))
            ~> (s \notin sockets /\ ~Listed(s))
=============================================================================
