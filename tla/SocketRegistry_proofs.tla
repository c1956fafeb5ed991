----------------------- MODULE SocketRegistry_proofs -----------------------
(***************************************************************************)
(* For every set of sockets and channels and every timing that satisfies    *)
(* TimingAssumption: the registries stay well formed, an open connection is *)
(* always reachable through its channel, a live peer is never timed out, and *)
(* a broadcast reaches every open connection of its channel.                *)
(***************************************************************************)
EXTENDS SocketRegistry, TLAPS

Connects == \E s \in SocketId, c \in Channel \cup {NoChannel} : Connect(s, c)

\* The steps of a broadcast that leave every registry alone, but for Send.
Quiet == Sent \/ \E c \in Channel : Broadcast(c)

\* How old the last pong of a live peer may be: no older than the last check if
\* no ping is outstanding, else a full check period older than that ping.
PongRecent ==
    \A s \in SocketId : ready[s] = "open" /\ peer[s] = "live" =>
        /\ pingAge[s] = -1 => pongAge[s] <= sinceCheck
        /\ pingAge[s] # -1 => pongAge[s] <= PingInterval + Lateness + pingAge[s]

\* What a running pass has not reached of its channel, it still comes to.
PassCovers ==
    ~Idle => {s \in SocketId : ready[s] = "open" /\ channelOf[s] = sending}
                \subseteq pass \cup reached

IInv == TypeOK /\ OpenIsServed /\ ChannelsSeparate /\ PongRecent /\ PassCovers

\* cleanChannel loses only inactive sockets: an entry that is tracked and open
\* survives, and every list that survives is a non-empty part of the old one.
LEMMA CleanedKeepsActive ==
    ASSUME NEW C, channels' = Cleaned(C)
    PROVE  /\ \A c \in DOMAIN channels : \A s \in channels[c] :
                  s \in sockets /\ ready[s] = "open" =>
                      c \in DOMAIN channels' /\ s \in channels'[c]
           /\ DOMAIN channels' \subseteq DOMAIN channels
           /\ \A c \in DOMAIN channels' :
                  /\ channels'[c] \subseteq channels[c]
                  /\ channels[c] # {} => channels'[c] # {}
BY DEF Cleaned, ActiveSockets, IsActive

\* trackClient keeps every list, and adds the socket to its channel's only.
LEMMA TrackedAdds ==
    ASSUME NEW s, NEW c, channels' = Tracked(s, c)
    PROVE  /\ DOMAIN channels' = DOMAIN channels \cup {c}
           /\ s \in channels'[c]
           /\ \A d \in DOMAIN channels : channels[d] \subseteq channels'[d]
           /\ \A d \in DOMAIN channels' : \A t \in channels'[d] :
                 \/ t = s /\ d = c
                 \/ d \in DOMAIN channels /\ t \in channels[d]
BY DEF Tracked

\* TypeOK, the type invariant of the two registries, is inductive.
LEMMA TypeStep == TypeOK /\ [Next]_vars => TypeOK'
<1> SUFFICES ASSUME TypeOK, [Next]_vars PROVE TypeOK'
  OBVIOUS
<1> USE RegistryAssumption
<1>1. CASE Connects
  <2>1. PICK s \in SocketId, c \in Channel : Connect(s, c)
    BY <1>1 DEF Connects, Connect, Admitted
  <2>2. /\ DOMAIN channels' \subseteq Channel
        /\ \A d \in DOMAIN channels' : channels'[d] \subseteq SocketId
    <3>1. channels' = Tracked(s, c)
      BY <2>1 DEF Connect
    <3>2. DOMAIN channels' = DOMAIN channels \cup {c}
      BY <3>1, TrackedAdds
    <3>3. \A d \in DOMAIN channels' : \A t \in channels'[d] :
              (t = s /\ d = c) \/ (d \in DOMAIN channels /\ t \in channels[d])
      BY <3>1, TrackedAdds
    <3>4. QED
      BY <3>2, <3>3 DEF TypeOK
  <2>3. QED
    BY <2>1, <2>2 DEF broadcast, Connect, TypeOK, ReadyStates
<1>2. ASSUME NEW s \in SocketId, Send(s) PROVE TypeOK'
  <2>1. /\ DOMAIN channels' \subseteq Channel
        /\ \A d \in DOMAIN channels' : channels'[d] \subseteq SocketId
    BY <1>2, CleanedKeepsActive DEF Send, TypeOK
  <2>2. pass' \subseteq SocketId /\ reached' \subseteq SocketId
    BY <1>2 DEF Send, Rest, TypeOK
  <2>3. QED
    BY <1>2, <2>1, <2>2 DEF Send, connections, TypeOK
<1>20. CASE Quiet
  BY <1>20 DEF Quiet, Sent, Broadcast, connections, TypeOK
<1>3. ASSUME NEW s \in SocketId, Pong(s) PROVE TypeOK'
  BY <1>3 DEF broadcast, Pong, TypeOK
<1>4. ASSUME NEW s \in SocketId, PeerCloses(s) PROVE TypeOK'
  BY <1>4 DEF broadcast, PeerCloses, TypeOK, ReadyStates
<1>5. ASSUME NEW s \in SocketId, PeerVanishes(s) PROVE TypeOK'
  BY <1>5 DEF broadcast, PeerVanishes, TypeOK
<1>6. ASSUME NEW s \in SocketId, Collected(s) PROVE TypeOK'
  BY <1>6 DEF broadcast, Collected, TypeOK, ReadyStates
<1>7. CASE CheckSockets
  BY <1>7 DEF broadcast, CheckSockets, TypeOK, ReadyStates
<1>8. CASE Gc
  <2>1. /\ DOMAIN channels' \subseteq Channel
        /\ \A d \in DOMAIN channels' : channels'[d] \subseteq SocketId
    BY <1>8, CleanedKeepsActive DEF Gc, TypeOK
  <2>2. QED
    BY <1>8, <2>1 DEF broadcast, Gc, TypeOK
<1>9. CASE Tick
  BY <1>9 DEF broadcast, Tick, TypeOK
<1>10. CASE UNCHANGED vars
  BY <1>10 DEF vars, connections, broadcast, TypeOK
<1>11. QED
  BY <1>1, <1>2, <1>20, <1>3, <1>4, <1>5, <1>6, <1>7, <1>8, <1>9, <1>10
     DEF Next, Connects, Quiet

\* OpenIsServed is inductive: a step that shrinks a list or forgets a socket
\* only does so for connections that are not open.
LEMMA ServedStep == TypeOK /\ OpenIsServed /\ [Next]_vars => OpenIsServed'
<1> SUFFICES ASSUME TypeOK, OpenIsServed, [Next]_vars,
                    NEW u \in SocketId, (ready[u] = "open")'
             PROVE  /\ u \in sockets'
                    /\ channelOf'[u] \in DOMAIN channels'
                    /\ u \in channels'[channelOf'[u]]
  BY DEF OpenIsServed
<1> DEFINE Served == /\ u \in sockets
                     /\ channelOf[u] \in DOMAIN channels
                     /\ u \in channels[channelOf[u]]
<1>0. ready[u] = "open" => Served
  BY DEF OpenIsServed
<1> HIDE DEF Served
<1>1. CASE Connects
  <2>1. PICK s \in SocketId, c \in Channel : Connect(s, c)
    BY <1>1 DEF Connects, Connect, Admitted
  <2>2. /\ sockets' = sockets \cup {s} /\ channels' = Tracked(s, c)
        /\ channelOf'[u] = IF u = s THEN c ELSE channelOf[u]
        /\ u # s => ready[u] = "open"
    BY <2>1 DEF Connect, TypeOK
  <2>3. CASE u = s
    BY <2>2, <2>3, TrackedAdds
  <2>4. CASE u # s
    <3>1. /\ DOMAIN channels' = DOMAIN channels \cup {c}
          /\ \A d \in DOMAIN channels : channels[d] \subseteq channels'[d]
      BY <2>2, TrackedAdds
    <3>2. QED
      BY <2>2, <2>4, <1>0, <3>1 DEF Served
  <2>5. QED
    BY <2>3, <2>4
<1>2. CASE \E s \in SocketId : Send(s)
  <2>1. PICK s \in SocketId : Send(s)
    BY <1>2
  <2>2. Served /\ ready[u] = "open" /\ UNCHANGED <<sockets, connections>>
    BY <2>1, <1>0 DEF Send, connections
  <2>3. CASE UNCHANGED channels
    BY <2>2, <2>3 DEF Served, connections
  <2>4. CASE channels' = Cleaned({sending})
    BY <2>2, <2>4, CleanedKeepsActive DEF Served, connections
  <2>5. QED
    BY <2>1, <2>3, <2>4 DEF Send
<1>20. CASE Quiet
  BY <1>20, <1>0 DEF Quiet, Sent, Broadcast, connections, Served
<1>3. ASSUME NEW s \in SocketId, Pong(s) PROVE Served
  BY <1>3, <1>0 DEF Pong
<1>4. ASSUME NEW s \in SocketId, PeerCloses(s) PROVE Served
  BY <1>4, <1>0 DEF PeerCloses, TypeOK
<1>5. ASSUME NEW s \in SocketId, PeerVanishes(s) PROVE Served
  BY <1>5, <1>0 DEF PeerVanishes
<1>6. CASE \E s \in SocketId : Pong(s) \/ PeerCloses(s) \/ PeerVanishes(s)
  BY <1>6, <1>3, <1>4, <1>5 DEF Pong, PeerCloses, PeerVanishes, Served
<1>7. ASSUME NEW s \in SocketId, Collected(s) 
      PROVE  Served /\ UNCHANGED <<sockets, channels>> /\ channelOf'[u] = channelOf[u]
  BY <1>7, <1>0 DEF Collected, TypeOK
<1>8. CASE CheckSockets
  <2>1. ready[u] = "open" /\ ~TimedOut(u)
    BY <1>8, <1>0 DEF CheckSockets, Served, TypeOK
  <2>2. QED
    BY <1>8, <2>1, <1>0 DEF CheckSockets, Served, IsActive
<1>9. CASE Gc
  <2>1. Served /\ ready[u] = "open"
    BY <1>9, <1>0 DEF Gc
  <2>2. QED
    BY <1>9, <2>1, CleanedKeepsActive DEF Gc, Served
<1>10. CASE Tick \/ UNCHANGED vars
  BY <1>10, <1>0 DEF Tick, vars, connections, Served
<1>11. QED
  BY <1>1, <1>2, <1>20, <1>6, <1>7, <1>8, <1>9, <1>10 DEF Next, Connects, Quiet, Served

\* ChannelsSeparate is inductive: only trackClient grows a list, with an id no
\* list holds, and cleanChannel drops a list it would leave empty.
LEMMA SeparateStep == TypeOK /\ ChannelsSeparate /\ [Next]_vars => ChannelsSeparate'
<1> SUFFICES ASSUME TypeOK, ChannelsSeparate, [Next]_vars, NEW d \in DOMAIN channels'
             PROVE  /\ channels'[d] # {}
                    /\ \A t \in channels'[d] : channelOf'[t] = d
  BY DEF ChannelsSeparate
<1>1. CASE Connects
  <2>1. PICK s \in SocketId, c \in Channel : Connect(s, c)
    BY <1>1 DEF Connects, Connect, Admitted
  <2>2. /\ channels' = Tracked(s, c) /\ ~Listed(s)
        /\ channelOf' = [channelOf EXCEPT ![s] = c]
    BY <2>1 DEF Connect, Fresh
  <2>3. channels'[d] # {}
    <3>1. /\ DOMAIN channels' = DOMAIN channels \cup {c}
          /\ s \in channels'[c]
          /\ \A e \in DOMAIN channels : channels[e] \subseteq channels'[e]
      BY <2>2, TrackedAdds
    <3>2. QED
      BY <3>1 DEF ChannelsSeparate
  <2>4. ASSUME NEW t \in channels'[d] PROVE channelOf'[t] = d
    <3>1. CASE t = s /\ d = c
      BY <2>2, <3>1 DEF TypeOK
    <3>2. CASE d \in DOMAIN channels /\ t \in channels[d]
      BY <2>2, <3>2 DEF Listed, ChannelsSeparate, TypeOK
    <3>3. QED
      BY <2>2, <3>1, <3>2, TrackedAdds
  <2>5. QED
    BY <2>3, <2>4
<1>2. ASSUME NEW s \in SocketId, Send(s)
      PROVE  channels'[d] # {} /\ \A t \in channels'[d] : channelOf'[t] = d
  <2>1. CASE UNCHANGED channels
    BY <1>2, <2>1 DEF Send, connections, ChannelsSeparate
  <2>2. CASE channels' = Cleaned({sending})
    BY <1>2, <2>2, CleanedKeepsActive DEF Send, connections, ChannelsSeparate
  <2>3. QED
    BY <1>2, <2>1, <2>2 DEF Send
<1>20. CASE Quiet
  BY <1>20 DEF Quiet, Sent, Broadcast, connections, ChannelsSeparate
<1>3. CASE \E s \in SocketId : Pong(s) \/ PeerCloses(s) \/ PeerVanishes(s)
  BY <1>3 DEF Pong, PeerCloses, PeerVanishes, ChannelsSeparate
<1>4. ASSUME NEW s \in SocketId, Collected(s)
      PROVE  channels'[d] # {} /\ \A t \in channels'[d] : channelOf'[t] = d
  BY <1>4 DEF Collected, Listed, ChannelsSeparate, TypeOK
<1>5. CASE CheckSockets \/ Tick \/ UNCHANGED vars
  BY <1>5 DEF CheckSockets, Tick, vars, connections, ChannelsSeparate
<1>6. CASE Gc
  BY <1>6, CleanedKeepsActive DEF Gc, ChannelsSeparate
<1>7. QED
  BY <1>1, <1>2, <1>20, <1>3, <1>4, <1>5, <1>6 DEF Next, Connects, Quiet

\* PongRecent is inductive: it needs OpenIsServed, so that a check pings every
\* open connection.
LEMMA RecentStep ==
    TypeOK /\ OpenIsServed /\ PongRecent /\ [Next]_vars => PongRecent'
<1> SUFFICES ASSUME TypeOK, OpenIsServed, PongRecent, [Next]_vars,
                    NEW u \in SocketId, (ready[u] = "open" /\ peer[u] = "live")'
             PROVE  /\ pingAge'[u] = -1 => pongAge'[u] <= sinceCheck'
                    /\ pingAge'[u] # -1 =>
                          pongAge'[u] <= PingInterval + Lateness + pingAge'[u]
  BY DEF PongRecent
<1> USE RegistryAssumption
<1> DEFINE Recent == /\ pingAge[u] = -1 => pongAge[u] <= sinceCheck
                     /\ pingAge[u] # -1 =>
                           pongAge[u] <= PingInterval + Lateness + pingAge[u]
<1>0. ready[u] = "open" /\ peer[u] = "live" => Recent
  BY DEF PongRecent
<1>1. CASE Connects
  BY <1>1, <1>0 DEF Connects, Connect, TypeOK
<1>2. CASE Quiet \/ \E s \in SocketId : Send(s)
  BY <1>2, <1>0 DEF Quiet, Sent, Broadcast, Send, connections
<1>3. ASSUME NEW s \in SocketId, Pong(s)
      PROVE  /\ pingAge'[u] = -1 => pongAge'[u] <= sinceCheck'
             /\ pingAge'[u] # -1 =>
                   pongAge'[u] <= PingInterval + Lateness + pingAge'[u]
  <2>1. ready[u] = "open" /\ u \in sockets
    BY <1>3 DEF Pong, OpenIsServed
  <2>2. QED
    BY <1>3, <2>1, <1>0 DEF Pong, TypeOK
<1>4. CASE \E s \in SocketId : PeerCloses(s) \/ PeerVanishes(s)
  BY <1>4, <1>0 DEF PeerCloses, PeerVanishes, TypeOK
<1>5. ASSUME NEW s \in SocketId, Collected(s) PROVE u # s
  BY <1>5 DEF Collected, TypeOK
<1>6. CASE \E s \in SocketId : Collected(s)
  BY <1>6, <1>5, <1>0 DEF Collected, TypeOK
<1>7. CASE CheckSockets
  <2>1. ready[u] = "open" /\ u \in sockets /\ ~TimedOut(u)
    BY <1>7 DEF CheckSockets, OpenIsServed, TypeOK
  <2>2. /\ pingAge'[u] = IF pingAge[u] = -1 THEN 0 ELSE pingAge[u]
        /\ pongAge'[u] = pongAge[u] /\ peer[u] = "live"
    BY <1>7, <2>1 DEF CheckSockets, IsActive, TypeOK
  <2>3. QED
    BY <2>1, <2>2, <1>0 DEF TypeOK
<1>8. CASE Gc
  BY <1>8, <1>0 DEF Gc
<1>9. CASE Tick
  <2>1. ready[u] = "open" /\ peer[u] = "live" /\ pingAge[u] # PongDelay
    BY <1>9 DEF Tick, Due
  <2>2. QED
    BY <1>9, <2>1, <1>0 DEF Tick, TypeOK
<1>10. CASE UNCHANGED vars
  BY <1>10, <1>0 DEF vars, connections
<1>11. QED
  BY <1>1, <1>2, <1>3, <1>4, <1>6, <1>7, <1>8, <1>9, <1>10 DEF Next, Connects, Quiet

\* PassCovers is inductive.  A pass starts from the channel's own list, which
\* OpenIsServed says holds every open connection; nothing else runs before it
\* ends, and a socket it leaves behind is reached unless it is not open.
LEMMA CoversStep ==
    TypeOK /\ OpenIsServed /\ PassCovers /\ [Next]_vars => PassCovers'
<1> SUFFICES ASSUME TypeOK, OpenIsServed, PassCovers, [Next]_vars, ~Idle',
                    NEW u \in SocketId, (ready[u] = "open" /\ channelOf[u] = sending)'
             PROVE  u \in pass' \cup reached'
  BY DEF PassCovers
<1>1. ASSUME NEW c \in Channel, Broadcast(c) PROVE u \in pass'
  BY <1>1 DEF Broadcast, connections, OpenIsServed
<1>2. ASSUME NEW s \in SocketId, Send(s) PROVE u \in pass' \cup reached'
  <2>1. ready[u] = "open" /\ u \in pass \cup reached
    BY <1>2 DEF Send, connections, PassCovers
  <2>2. u \in sockets /\ reached \subseteq reached' /\ pass' = pass \ {s}
    BY <1>2, <2>1 DEF Send, Rest, OpenIsServed
  <2>3. s = u => u \in reached'
    BY <1>2, <2>1, <2>2 DEF Send, IsActive
  <2>4. QED
    BY <2>1, <2>2, <2>3
<1>3. CASE UNCHANGED vars
  BY <1>3 DEF vars, broadcast, connections, Idle, PassCovers
<1>4. ASSUME Idle, UNCHANGED broadcast PROVE FALSE
  BY <1>4 DEF broadcast, Idle
<1>5. Sent => Idle'
  BY DEF Sent, Idle
<1>6. CASE Connects
  BY <1>6, <1>4 DEF Connects, Connect
<1>7. CASE \E s \in SocketId : Pong(s) \/ PeerCloses(s) \/ PeerVanishes(s) \/ Collected(s)
  BY <1>7, <1>4 DEF Pong, PeerCloses, PeerVanishes, Collected
<1>8. CASE CheckSockets \/ Gc \/ Tick
  BY <1>8, <1>4 DEF CheckSockets, Gc, Tick
<1>9. QED
  BY <1>1, <1>2, <1>3, <1>5, <1>6, <1>7, <1>8 DEF Next, Connects

\* The whole invariant holds of every behaviour.
THEOREM RegistryInvariant == Spec => []IInv
<1>1. Init => IInv
  BY RegistryAssumption
     DEF Init, IInv, TypeOK, ReadyStates, OpenIsServed, ChannelsSeparate, PongRecent,
         PassCovers, Idle
<1>2. IInv /\ [Next]_vars => IInv'
  BY TypeStep, ServedStep, SeparateStep, RecentStep, CoversStep DEF IInv
<1>3. QED
  BY <1>1, <1>2, PTL DEF Spec

\* Type correctness of the registries.
THEOREM RegistryTypeOK == Spec => []TypeOK
BY RegistryInvariant, PTL DEF IInv

\* An open connection is always tracked and listed under its own channel.
THEOREM RegistryServesOpen == Spec => []OpenIsServed
BY RegistryInvariant, PTL DEF IInv

\* A list never holds another channel's connection, and is never empty.
THEOREM RegistrySeparates == Spec => []ChannelsSeparate
BY RegistryInvariant, PTL DEF IInv

\* With PingInterval + Lateness + PongDelay < ResponseTimeout, a peer that
\* answers its pings is never terminated.
THEOREM RegistryKeepsLivePeers == Spec => []LivePeerKept
<1>1. IInv => LivePeerKept
  BY RegistryAssumption, TimingAssumption
     DEF IInv, TypeOK, PongRecent, LivePeerKept, TimedOut
<1>2. QED
  BY <1>1, RegistryInvariant, PTL

\* A broadcast that is over has reached every open connection of its channel,
\* however often its pass cleaned the channel.
THEOREM RegistryBroadcasts == Spec => []BroadcastReachesAll
<1>1. IInv => BroadcastReachesAll
  BY DEF IInv, PassCovers, BroadcastReachesAll
<1>2. QED
  BY <1>1, RegistryInvariant, PTL
=============================================================================
