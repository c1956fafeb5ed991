--------------------------- MODULE AsyncWebSocket ---------------------------
(***************************************************************************)
(* Global async queries over the websocket transport.  The server            *)
(* (superset-websocket/src/index.ts) reads the stream of all channels with      *)
(* blocking XREADs and sends every event to the page's connection; to a page     *)
(* that reconnects with a last_id it first sends a range of the channel's own     *)
(* stream.  Both kinds of command share one Redis connection, so a range waits     *)
(* for the blocking read before it.  The page (asyncEvent.ts) reconnects a          *)
(* bounded number of times, then polls.  SocketRegistry models the registries         *)
(* behind sendToChannel; here an open connection is served.                             *)
(***************************************************************************)
EXTENDS AsyncPolling

CONSTANTS
    ReadCount,        \* redisStreamReadCount
    MaxConnectRetries,\* wsConnectMaxRetries
    MaxDrops,         \* bound: connections lost, refused or reset by a restart
    Warm,             \* the server has read an event (of another channel) already
    OpensFirst,       \* the page requests charts only while it is connected
    Reloads           \* the page may be reloaded

ASSUME WebSocketAssumption ==
    /\ ReadCount \in Nat \ {0} /\ MaxConnectRetries \in Nat /\ MaxDrops \in Nat
    /\ Warm \in BOOLEAN /\ OpensFirst \in BOOLEAN /\ Reloads \in BOOLEAN

VARIABLES
    conn,      \* the page's connection
    asked,     \* the last_id of its latest wsConnect; Origin stands for none
    attempts,  \* wsConnectRetries
    wire,      \* events sent on the connection and not received yet
    firehose,  \* lastFirehoseId; Origin stands for "$"
    reading,   \* entries of full behind the blocked XREAD; -1 when none is blocked
    ranges,    \* XRANGE commands sent and not run yet
    since,     \* the entries of full from here on are this connection's to get
    received,  \* outcomes the page has received
    drops      \* connections lost so far

wsVars == <<conn, asked, attempts, wire, firehose, reading, ranges, since,
            received, drops>>

allVars == <<vars, wsVars>>

Dollar == Origin

WsTypeOK ==
    /\ TypeOK
    /\ conn \in {"connecting", "open", "closed", "given_up"}
    /\ asked \in Ids /\ firehose \in Ids
    /\ attempts \in 0 .. MaxConnectRetries + 1
    /\ wire \in Seq(Event)
    /\ reading \in -1 .. Len(full) /\ since \in -1 .. Len(full)
    /\ ranges \in Seq([from : Ids, to : Ids])
    /\ received \subseteq Job \X {"done", "error"}
    /\ drops \in 0 .. MaxDrops

WsInit ==
    /\ Init
    /\ conn = "connecting" /\ asked = Origin /\ attempts = 0
    /\ wire = <<>> /\ ranges = <<>>
    /\ firehose = IF Warm THEN <<0, 1>> ELSE Dollar
    /\ reading = -1 /\ since = -1
    /\ received = {} /\ drops = 0
-----------------------------------------------------------------------------
Sent(events) == IF conn = "open" THEN wire \o events ELSE wire

\* subscribeToGlobalStream: the next XREAD runs once the queued ranges have;
\* "$" stands for whatever the stream holds at that moment.
ReadBlocks ==
    /\ reading = -1 /\ ranges = <<>>
    /\ reading' = IF firehose = Dollar THEN Len(full) ELSE CountUpTo(full, firehose)
    /\ UNCHANGED <<vars, conn, asked, attempts, wire, firehose, ranges, since,
                   received, drops>>

\* The block timeout passes without an entry: the loop asks again, with "$" still
\* "$" as long as nothing was ever read.
ReadTimesOut ==
    /\ reading >= 0 /\ Before(fullCut, reading) = Len(full)
    /\ reading' = -1
    /\ UNCHANGED <<vars, conn, asked, attempts, wire, firehose, ranges, since,
                   received, drops>>

\* Mutant: lastFirehoseId skips to the newest id, not the last one of the reply.
ReadReturnsMutant ==
    /\ reading >= 0 /\ Len(full) > Before(fullCut, reading)
    /\ LET first == Before(fullCut, reading)
       IN  /\ wire' = Sent(SubSeq(full, first + 1, first + 1))
           /\ firehose' = NewestId(full)
           /\ since' = IF conn = "open" /\ (since = -1 \/ reading < fullCut) THEN first ELSE since
    /\ reading' = -1
    /\ UNCHANGED <<vars, conn, asked, attempts, ranges, received, drops>>

\* The XREAD returns entries: each is sent to the channel, then remembered.  What was
\* trimmed before it was read is nobody's to get.
ReadReturns ==
    /\ reading >= 0 /\ Len(full) > Before(fullCut, reading)
    /\ LET first == Before(fullCut, reading)
           last  == IF first + ReadCount < Len(full) THEN first + ReadCount ELSE Len(full)
           batch == SubSeq(full, first + 1, last)
       IN  /\ wire' = Sent(batch)
           /\ firehose' = NewestId(batch)
           /\ since' = IF conn = "open" /\ (since = -1 \/ reading < fullCut) THEN first ELSE since
    /\ reading' = -1
    /\ UNCHANGED <<vars, conn, asked, attempts, ranges, received, drops>>

\* fetchRangeFromStream: a queued XRANGE of the channel's stream runs and its
\* entries are sent to the channel, that is to whichever connection is open.
RangeRuns ==
    /\ reading = -1 /\ ranges # <<>>
    /\ LET r == Head(ranges)
       IN  wire' = Sent(XRange(scoped, scopedCut, r.from, IF r.to = Dollar THEN NewestId(scoped) ELSE r.to))
    /\ ranges' = Tail(ranges)
    /\ UNCHANGED <<vars, conn, asked, attempts, firehose, reading, since,
                   received, drops>>
-----------------------------------------------------------------------------
\* wsConnection on the server and `open` on the page.  A last_id asks for the
\* range from the id after it to the last one the server has read ("+" if none).
ConnOpens ==
    /\ conn = "connecting"
    /\ conn' = "open" /\ attempts' = 0
    /\ ranges' = IF asked = Origin THEN ranges
                 ELSE Append(ranges, [from |-> TsIncrement(asked), to |-> firehose])
    /\ since' = IF firehose = Dollar THEN -1 ELSE CountUpTo(full, firehose)
    /\ UNCHANGED <<vars, asked, wire, firehose, reading, received, drops>>

\* The connection is refused or lost; what was on the wire is lost with it, and
\* the server may go on sending to a connection that is gone.
ConnDrops ==
    /\ drops < MaxDrops /\ drops' = drops + 1
    /\ conn \in {"connecting", "open"} /\ conn' = "closed"
    /\ wire' = <<>>
    /\ UNCHANGED <<vars, asked, attempts, firehose, reading, ranges, since,
                   received>>

\* The websocket server restarts: registries, queued commands and the position
\* in the stream are gone.
ServerRestarts ==
    /\ drops < MaxDrops /\ drops' = drops + 1
    /\ conn' = IF conn \in {"connecting", "open"} THEN "closed" ELSE conn
    /\ wire' = <<>> /\ ranges' = <<>>
    /\ firehose' = Dollar /\ reading' = -1 /\ since' = -1
    /\ UNCHANGED <<vars, asked, attempts, received>>

\* The page's timer after `close`: connect again with the last id received, or,
\* when the retries are used up, ask the API once.
Reconnect ==
    /\ conn = "closed"
    /\ attempts' = attempts + 1
    /\ \/ /\ attempts < MaxConnectRetries
          /\ conn' = "connecting" /\ asked' = client.lastId
          /\ UNCHANGED vars
       \/ /\ attempts >= MaxConnectRetries
          /\ conn' = "given_up" /\ UNCHANGED asked
          /\ PollSent \/ (client.listening = {} /\ UNCHANGED vars)
    /\ UNCHANGED <<wire, firehose, reading, ranges, since, received, drops>>
-----------------------------------------------------------------------------
Outcomes(events) == {<<events[i].job, events[i].status>> : i \in DOMAIN events}

\* A `message` arrives.
Receive ==
    /\ wire # <<>>
    /\ client' = ProcessEvent(client, Head(wire))
    /\ Fits(client')
    /\ wire' = Tail(wire)
    /\ received' = received \cup Outcomes(<<Head(wire)>>)
    /\ UNCHANGED <<jobVars, reply, poll, conn, asked, attempts, firehose, reading, ranges,
                   since, drops>>

\* The one request of the fallback is answered, and its events processed, or it fails:
\* the transport is still "ws", so no timer is set.
FallbackGoesOn ==
    /\ \/ (PollAnswered \/ PollFails) /\ UNCHANGED received
       \/ PollReceived /\ received' = received \cup Outcomes(poll.events)
    /\ UNCHANGED <<conn, asked, attempts, wire, firehose, reading, ranges, since, drops>>

\* init() again: a new page connects with the id localStorage holds.
WsReload ==
    /\ Reloads
    /\ \E id \in StoredIds(full) : ReloadWith(id) /\ asked' = id
    /\ conn' = "connecting" /\ attempts' = 0
    /\ wire' = <<>> /\ poll' = Idle /\ received' = {}
    /\ UNCHANGED <<firehose, reading, ranges, since, drops>>
-----------------------------------------------------------------------------
PageActs ==
    /\ PageNext
    /\ OpensFirst /\ (\E j \in Job : reply[j] = "none" /\ reply'[j] # "none") => conn = "open"
    /\ UNCHANGED <<poll, wsVars>>

WsNext ==
    \/ PageActs
    \/ ReadBlocks \/ ReadTimesOut \/ ReadReturns \/ RangeRuns
    \/ ConnOpens \/ ConnDrops \/ ServerRestarts \/ Reconnect
    \/ Receive \/ FallbackGoesOn
    \/ WsReload

WsSpec == WsInit /\ [][WsNext]_allVars

\* Workers, timers and requests progress as for polling; the server's read loop
\* runs, what is sent arrives while the connection lasts, and the page reconnects.
WsFairness ==
    /\ \A j \in Job :
          /\ WF_allVars(JobStep(j) /\ UNCHANGED <<pageVars, poll, wsVars>>)
          /\ WF_allVars((Register(j) \/ ReplyLost(j)) /\ UNCHANGED <<poll, wsVars>>)
          /\ WF_allVars(DataArrives(j) /\ UNCHANGED <<poll, wsVars>>)
    /\ WF_allVars((\E e \in Pending : RetryFires(e)) /\ UNCHANGED <<poll, wsVars>>)
    /\ WF_allVars(ReadBlocks) /\ SF_allVars(ReadReturns) /\ WF_allVars(RangeRuns)
    /\ WF_allVars(ConnOpens) /\ WF_allVars(Reconnect) /\ WF_allVars(Receive)
    /\ WF_allVars(FallbackGoesOn)

WsFairSpec == WsSpec /\ WsFairness
-----------------------------------------------------------------------------
GotOrOnTheWire(e) ==
    <<e.job, e.status>> \in received \cup Outcomes(wire)

\* While a connection lasts, every event on the stream of all channels that the server
\* reads on from when the connection was made gets to it, across read batches, block
\* timeouts and ranges run in between, unless it is trimmed before it is read.
NoGapWhileConnected ==
    conn = "open" /\ since >= 0 =>
        \A i \in since + 1 .. Len(full) :
            AtMost(full[i].id, firehose) => GotOrOnTheWire(full[i])

\* superset-websocket/README.md: on a connection with a last_id, events "already
\* received and sent unsuccessfully are read from the channel-based Redis Stream
\* and re-sent".  Once the range has run, every event after the last one the page
\* received, which the server has read, got to the page or is on the wire.
ReconnectCatchesUp ==
    conn = "open" /\ asked # Origin /\ ranges = <<>> =>
        \A i \in DOMAIN full :
            Precedes(asked, full[i].id) /\ AtMost(full[i].id, firehose)
                => GotOrOnTheWire(full[i])
=============================================================================
