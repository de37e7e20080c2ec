--------------------------- MODULE TerminalStream ---------------------------
(***************************************************************************)
(* The stream of one terminal session: the replay log of the gateway       *)
(* (mobile-gateway/src/domain/terminal-replay-buffer.ts), the connections  *)
(* that send it (application/terminal-stream-service.ts behind             *)
(* interfaces/websocket/terminal-websocket-gateway.ts) and the client that *)
(* reads it, acknowledges and reconnects                                   *)
(* (mobile-app/src/adapters/network/terminal-stream-client.ts).            *)
(*                                                                         *)
(* Every event takes the next sequence number; the log keeps the newest    *)
(* ones.  A connection replays what follows the acknowledgement of its     *)
(* hello, while events that are produced meanwhile wait, and then sends    *)
(* live.  Each await of connect is a step.                                 *)
(***************************************************************************)
EXTENDS Integers, Sequences, FiniteSets

CONSTANTS
    Conns,       \* places for connections of the client, old and new
    MaxEvents,   \* what the replay log keeps
    MaxUnack,    \* maxUnacknowledgedEvents
    MayExpire,   \* events may also leave the log by age or by size
    Kinds,       \* the kinds of sequenced events: output and lifecycle
    Understood,  \* those the client accepts
    MaxSequence, \* bound: events of the session
    MaxFaults    \* bound: lost sockets and full transport buffers

ASSUME StreamAssumption ==
    /\ MaxEvents \in Nat \ {0} /\ MaxUnack \in Nat \ {0}
    /\ MaxSequence \in Nat /\ MaxFaults \in Nat
    /\ MayExpire \in BOOLEAN /\ Understood \subseteq Kinds /\ "snapshot" \notin Kinds
    /\ Conns \subseteq Nat \ {0} /\ IsFiniteSet(Conns) /\ Conns # {}

VARIABLES
    log,     \* the kinds of all events so far; an event is its position
    first,   \* the oldest event the replay log still keeps
    conn,    \* the connections of the gateway
    down,    \* messages on their way to the client
    up,      \* acknowledgements on their way to the gateway
    client,  \* the TerminalStreamClient
    shown,   \* history: the events the observer of the client was given
    faults

vars == <<log, first, conn, down, up, client, shown, faults>>

NoConn == 0

\* nextSequence of the log.
NextSeq == Len(log) + 1

Idle == [phase |-> "idle", closed |-> TRUE, listening |-> FALSE, latestSent |-> 0,
         acknowledged |-> 0, nextSequence |-> 1, truncated |-> FALSE,
         beforeReady |-> <<>>, sendQueue |-> <<>>]

Snapshot(truncated, next) == [type |-> "snapshot", truncated |-> truncated, seq |-> next]

Event(s) == [type |-> log[s], truncated |-> FALSE, seq |-> s]

Connection ==
    [phase : {"idle", "accepted", "opening", "opened", "replay", "ready"},
     closed : BOOLEAN, listening : BOOLEAN,
     latestSent : 0 .. Len(log), acknowledged : 0 .. Len(log), nextSequence : 1 .. NextSeq,
     truncated : BOOLEAN,
     beforeReady : Seq(1 .. Len(log)), sendQueue : Seq(1 .. Len(log))]

Message == [type : Kinds \cup {"snapshot"}, truncated : BOOLEAN, seq : 1 .. NextSeq]

TypeOK ==
    /\ log \in Seq(Kinds) /\ first \in 1 .. NextSeq
    /\ conn \in [Conns -> Connection]
    /\ \A c \in Conns : Len(conn[c].beforeReady) <= MaxUnack
    /\ down \in [Conns -> Seq(Message)]
    /\ up \in [Conns -> Seq(0 .. Len(log))]
    /\ client \in [sock : Conns \cup {NoConn}, lastAck : 0 .. Len(log),
                   receivedSnapshot : BOOLEAN, allowTruncatedGap : BOOLEAN]
    /\ shown \in Seq(1 .. Len(log))
    /\ faults \in 0 .. MaxFaults

Init ==
    /\ log = <<>> /\ first = 1
    /\ conn = [c \in Conns |-> Idle]
    /\ down = [c \in Conns |-> <<>>]
    /\ up = [c \in Conns |-> <<>>]
    /\ client = [sock |-> NoConn, lastAck |-> 0,
                 receivedSnapshot |-> FALSE, allowTruncatedGap |-> FALSE]
    /\ shown = <<>>
    /\ faults = 0

-----------------------------------------------------------------------------
(* The replay log and its listeners.                                       *)

\* prune drops the oldest events: those beyond maxEvents, and those that are
\* too old or too large for the log, which may be any number of them.
Pruned(next) ==
    LET least == IF next - MaxEvents > first THEN next - MaxEvents ELSE first
    IN IF MayExpire THEN least .. next ELSE {least}

\* Mutant: nothing bounds what waits for the end of the replay.
UnboundedQueue(k, s) ==
    IF ~k.listening \/ k.closed \/ s <= k.latestSent THEN k
    ELSE IF k.phase = "ready" THEN [k EXCEPT !.sendQueue = Append(@, s)]
    ELSE [k EXCEPT !.beforeReady = Append(@, s)]

\* queueEvent of a connection: what has been sent is not sent again, events
\* wait for the end of the replay, and too many of them close the transport.
queueEvent(k, s) ==
    IF ~k.listening \/ k.closed \/ s <= k.latestSent THEN k
    ELSE IF k.phase = "ready" THEN [k EXCEPT !.sendQueue = Append(@, s)]
    ELSE IF Len(k.beforeReady) >= MaxUnack THEN [k EXCEPT !.closed = TRUE]
    ELSE [k EXCEPT !.beforeReady = Append(@, s)]

\* The session produces an event: the terminal has output, or its state, its
\* lease or an input changes.
Publish(kind) ==
    /\ Len(log) < MaxSequence
    /\ log' = Append(log, kind)
    /\ first' \in Pruned(NextSeq + 1)
    /\ conn' = [c \in Conns |-> queueEvent(conn[c], NextSeq)]
    /\ UNCHANGED <<down, up, client, shown, faults>>

-----------------------------------------------------------------------------
(* The connections of the gateway.                                         *)

\* The hello is taken up, unless the socket has gone by then.
Hello(c) ==
    /\ conn[c].phase = "accepted"
    /\ conn' = [conn EXCEPT ![c] =
           IF @.closed THEN Idle ELSE [@ EXCEPT !.phase = "opening"]]
    /\ UNCHANGED <<log, first, down, up, client, shown, faults>>

\* Mutant: off by one, a client that lacks nothing is told of a gap.
TruncatedOneEarly(lastAck, earliest) == lastAck < earliest

historyTruncated(lastAck, earliest) == lastAck < earliest - 1

\* openOutputStream reads the replay and adds the listener in one turn of the
\* supervisor.  The socket may be gone already.
OpenStream(c) ==
    /\ conn[c].phase = "opening"
    /\ first' \in Pruned(NextSeq)
    /\ LET k == conn[c]
           truncated == historyTruncated(k.acknowledged, first')
       IN conn' = [conn EXCEPT ![c] =
              [k EXCEPT !.phase = "opened", !.listening = TRUE,
                        !.truncated = truncated, !.nextSequence = NextSeq]]
    /\ UNCHANGED <<log, down, up, client, shown, faults>>

\* A message sent on a socket the client has left reaches nobody.
Send(c, msg) == [down EXCEPT ![c] = IF client.sock = c THEN Append(@, msg) ELSE @]

SendSnapshot(c) ==
    /\ conn[c].phase = "opened"
    /\ conn' = [conn EXCEPT ![c].phase = "replay"]
    /\ down' = IF conn[c].closed THEN down
               ELSE Send(c, Snapshot(conn[c].truncated, conn[c].nextSequence))
    /\ UNCHANGED <<log, first, up, client, shown, faults>>

\* Too many events without an acknowledgement, or a full transport buffer.
Unacknowledged(k, s) == s - k.acknowledged > MaxUnack

Congested(c) == down[c] # <<>> /\ faults < MaxFaults

Overflow(c) ==
    /\ conn' = [conn EXCEPT ![c].closed = TRUE]
    /\ UNCHANGED <<log, first, down, up, client, shown>>

\* The last event of the replay: all that was kept, or nothing.
ReplayEnd(k) == IF k.truncated THEN 0 ELSE k.nextSequence - 1

\* One event of the replay is sent.
SendReplay(c) ==
    LET k == conn[c]
    IN /\ k.phase = "replay" /\ ~k.closed /\ k.latestSent < ReplayEnd(k)
       /\ \/ /\ ~Unacknowledged(k, k.latestSent + 1)
             /\ down' = Send(c, Event(k.latestSent + 1))
             /\ conn' = [conn EXCEPT ![c].latestSent = @ + 1]
             /\ UNCHANGED <<log, first, up, client, shown, faults>>
          \/ Unacknowledged(k, k.latestSent + 1) /\ Overflow(c) /\ UNCHANGED faults
          \/ Congested(c) /\ Overflow(c) /\ faults' = faults + 1

\* Mutant: the events that waited are not queued.
BecomeReadyEmpty(c) ==
    /\ conn[c].phase = "replay" /\ (conn[c].closed \/ conn[c].latestSent >= ReplayEnd(conn[c]))
    /\ conn' = [conn EXCEPT ![c].phase = "ready", ![c].beforeReady = <<>>]
    /\ UNCHANGED <<log, first, down, up, client, shown, faults>>

\* queueEvent of the events that waited, which are in order: those that were
\* sent are in front, and are left out.
Unsent(k) ==
    LET sent == CHOOSE n \in 0 .. Len(k.beforeReady) :
                    \A i \in 1 .. Len(k.beforeReady) : k.beforeReady[i] <= k.latestSent <=> i <= n
    IN SubSeq(k.beforeReady, sent + 1, Len(k.beforeReady))

\* The replay is over: the events that waited are queued behind it.
BecomeReady(c) ==
    LET k == conn[c]
    IN /\ k.phase = "replay" /\ (k.closed \/ k.latestSent >= ReplayEnd(k))
       /\ conn' = [conn EXCEPT ![c] =
              [k EXCEPT !.phase = "ready", !.beforeReady = <<>>,
                        !.sendQueue = IF k.closed THEN <<>> ELSE Unsent(k)]]
       /\ UNCHANGED <<log, first, down, up, client, shown, faults>>

\* Mutant: a live event does not move latestSent.
SendLiveUncounted(c) ==
    LET k == conn[c]
    IN /\ k.phase = "ready" /\ ~k.closed /\ k.sendQueue # <<>>
       /\ down' = Send(c, Event(Head(k.sendQueue)))
       /\ conn' = [conn EXCEPT ![c].sendQueue = Tail(@)]
       /\ UNCHANGED <<log, first, up, client, shown, faults>>

\* One event of the send queue: sent, passed over, or one too many.
SendLive(c) ==
    LET k == conn[c]
        s == Head(k.sendQueue)
        new == s > k.latestSent
    IN /\ k.phase = "ready" /\ ~k.closed /\ k.sendQueue # <<>>
       /\ \/ /\ ~new \/ ~Unacknowledged(k, s)
             /\ down' = IF new THEN Send(c, Event(s)) ELSE down
             /\ conn' = [conn EXCEPT ![c].latestSent = IF new THEN s ELSE @,
                                     ![c].sendQueue = Tail(@)]
             /\ UNCHANGED <<log, first, up, client, shown, faults>>
          \/ new /\ Unacknowledged(k, s) /\ Overflow(c) /\ UNCHANGED faults
          \/ new /\ Congested(c) /\ Overflow(c) /\ faults' = faults + 1

\* Messages of the client are handled one after the other, once connect has
\* returned; an acknowledgement out of the window closes the transport.
Acknowledge(c) ==
    LET k == conn[c]
        s == Head(up[c])
    IN /\ k.phase = "ready" /\ ~k.closed /\ up[c] # <<>>
       /\ up' = [up EXCEPT ![c] = Tail(@)]
       /\ conn' = [conn EXCEPT ![c] =
              IF s < k.acknowledged \/ s > k.latestSent THEN [k EXCEPT !.closed = TRUE]
              ELSE [k EXCEPT !.acknowledged = s]]
       /\ UNCHANGED <<log, first, down, client, shown, faults>>

\* The gateway learns that the client has left the socket.
OnClose(c) ==
    /\ client.sock # c /\ ~conn[c].closed
    /\ conn' = [conn EXCEPT ![c].closed = TRUE]
    /\ UNCHANGED <<log, first, down, up, client, shown, faults>>

\* Mutant: the listener stays until the send queue is empty.
DetachDrained(c) ==
    /\ conn[c].closed /\ conn[c].listening /\ conn[c].phase # "opened"
    /\ conn[c].sendQueue = <<>> /\ conn[c].beforeReady = <<>>
    /\ conn' = [conn EXCEPT ![c].listening = FALSE]
    /\ UNCHANGED <<log, first, down, up, client, shown, faults>>

\* closeStream removes the listener, in a later turn of the supervisor.
Detach(c) ==
    /\ conn[c].closed /\ conn[c].listening /\ conn[c].phase # "opened"
    /\ conn' = [conn EXCEPT ![c].listening = FALSE]
    /\ UNCHANGED <<log, first, down, up, client, shown, faults>>

\* A connection nobody refers to any more is forgotten.
Forget(c) ==
    /\ conn[c].closed /\ ~conn[c].listening /\ conn[c].phase = "ready" /\ client.sock # c
    /\ conn' = [conn EXCEPT ![c] = Idle]
    /\ UNCHANGED <<log, first, down, up, client, shown, faults>>

-----------------------------------------------------------------------------
(* The client.                                                             *)

\* open, at the start or when the reconnection timer fires: a new socket and
\* the hello with the last acknowledged sequence.
Open(c) ==
    /\ client.sock = NoConn /\ conn[c] = Idle
    /\ client' = [client EXCEPT !.sock = c, !.receivedSnapshot = FALSE,
                                !.allowTruncatedGap = FALSE]
    /\ conn' = [conn EXCEPT ![c] =
           [Idle EXCEPT !.phase = "accepted", !.closed = FALSE,
                        !.latestSent = client.lastAck, !.acknowledged = client.lastAck]]
    /\ UNCHANGED <<log, first, down, up, shown, faults>>

\* Is this message what the client expects now?
WellFormed(msg) ==
    IF msg.type = "snapshot"
    THEN ~client.receivedSnapshot /\ msg.seq > client.lastAck
    ELSE /\ msg.type \in Understood /\ client.receivedSnapshot
         /\ \/ msg.seq <= client.lastAck + 1
            \/ client.allowTruncatedGap

ReceiveSnapshot(c) ==
    LET msg == Head(down[c])
    IN /\ client.sock = c /\ down[c] # <<>> /\ WellFormed(msg) /\ msg.type = "snapshot"
       /\ client' = [client EXCEPT !.receivedSnapshot = TRUE, !.allowTruncatedGap = msg.truncated]
       /\ down' = [down EXCEPT ![c] = Tail(@)]
       /\ UNCHANGED <<log, first, conn, up, shown, faults>>

\* An event is shown once and acknowledged; a repeated one is acknowledged.
ReceiveEvent(c) ==
    LET msg == Head(down[c])
        new == msg.seq > client.lastAck
        ack == IF new THEN msg.seq ELSE client.lastAck
    IN /\ client.sock = c /\ down[c] # <<>> /\ WellFormed(msg) /\ msg.type # "snapshot"
       /\ client' = [client EXCEPT !.lastAck = ack,
                                   !.allowTruncatedGap = IF new THEN FALSE ELSE @]
       /\ shown' = IF new THEN Append(shown, msg.seq) ELSE shown
       /\ down' = [down EXCEPT ![c] = Tail(@)]
       /\ up' = [up EXCEPT ![c] = Append(@, ack)]
       /\ UNCHANGED <<log, first, conn, faults>>

\* The client is without a socket, what was on its way is lost, and the
\* reconnection timer runs.
Disconnected(c) ==
    /\ client.sock = c
    /\ client' = [client EXCEPT !.sock = NoConn]
    /\ down' = [down EXCEPT ![c] = <<>>]
    /\ up' = [up EXCEPT ![c] = <<>>]
    /\ UNCHANGED <<log, first, conn, shown>>

\* failProtocol on an unexpected message, or the close of the gateway, which
\* arrives behind its last message.
GiveUp(c) ==
    /\ IF down[c] = <<>> THEN conn[c].closed ELSE ~WellFormed(Head(down[c]))
    /\ Disconnected(c) /\ UNCHANGED faults

\* The network drops the socket.
NetworkDrop(c) == faults < MaxFaults /\ faults' = faults + 1 /\ Disconnected(c)

-----------------------------------------------------------------------------
GatewayStep(c) ==
    Hello(c) \/ OpenStream(c) \/ SendSnapshot(c) \/ SendReplay(c) \/ BecomeReady(c)
    \/ SendLive(c) \/ Acknowledge(c) \/ OnClose(c) \/ Detach(c) \/ Forget(c)

ClientStep(c) ==
    Open(c) \/ ReceiveSnapshot(c) \/ ReceiveEvent(c) \/ GiveUp(c) \/ NetworkDrop(c)

Next ==
    \/ \E kind \in Kinds : Publish(kind)
    \/ \E c \in Conns : GatewayStep(c) \/ ClientStep(c)

\* Timers fire, promises settle and sockets deliver what they accept; nothing
\* obliges the session to produce, or the network to fail.
Fairness ==
    /\ \A c \in Conns :
           /\ WF_vars(GatewayStep(c))
           /\ WF_vars(ReceiveSnapshot(c) \/ ReceiveEvent(c) \/ GiveUp(c))
    /\ WF_vars(\E c \in Conns : Open(c))

Spec == Init /\ [][Next]_vars /\ Fairness

-----------------------------------------------------------------------------
\* The reader of the stream is told of every gap, and there is one only where
\* the log had dropped the event it needed next: no reconnection, full window
\* or event that arrived during a replay loses, repeats or reorders an event.
Gapless == INSTANCE GaplessStream WITH
    produced <- Len(log), dropped <- first - 1, received <- shown

ReaderIsGapless == Gapless!Spec

\* What the client acknowledges is what the gateway has sent it and no less
\* than it acknowledged before, so that a client that follows the protocol is
\* never closed for an invalid acknowledgement.
AcksInWindow ==
    \A c \in Conns : ~conn[c].closed =>
        \A i \in 1 .. Len(up[c]) : up[c][i] \in conn[c].acknowledged .. conn[c].latestSent

\* An event reaches the client in the end, however long the replay is
\* compared with the window and however often the socket is lost, unless the
\* log has dropped what the client needed next.
EventsArrive ==
    \A s \in 1 .. MaxSequence :
        s <= Len(log) ~> (client.lastAck >= s \/ client.lastAck < first - 1)

\* A connection whose client has gone stops listening to the session, also
\* when the socket closes while the stream is being opened.
ListenersGo ==
    \A c \in Conns : (conn[c].listening /\ client.sock # c) ~> ~conn[c].listening

=============================================================================
