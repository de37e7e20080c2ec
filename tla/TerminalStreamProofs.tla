------------------------- MODULE TerminalStreamProofs -------------------------
(***************************************************************************)
(* Theorems about TerminalStream, for any number of connections, any       *)
(* window, log and number of events and faults: the stream implements      *)
(* GaplessStream.  The inductive invariant says of every connection what   *)
(* it still holds for its client, and of the one the client is on what is  *)
(* under way in both directions; the rest is that no step disturbs it.     *)
(***************************************************************************)
EXTENDS TerminalStream, SequenceTheorems, TLAPS

-----------------------------------------------------------------------------
(* The inductive invariant.                                                *)

\* Nothing is under way on a socket the client is not on.
QuietInv == \A c \in Conns : client.sock # c => down[c] = <<>> /\ up[c] = <<>>

\* The phases in which nothing has been sent.
Entering == {"accepted", "opening", "opened"}

\* The last event before those that are still queued.
Base(k) == IF k.latestSent < k.nextSequence - 1 THEN k.nextSequence - 1 ELSE k.latestSent

\* An open connection holds every event it has not sent, in order and once.
ConnInv(c) ==
    LET k == conn[c] IN
    /\ k.phase \in {"idle", "accepted", "opening"} => ~k.listening
    /\ k.phase \notin {"opened", "replay"} => k.beforeReady = <<>>
    /\ k.phase # "ready" => k.sendQueue = <<>>
    /\ k.phase \in Entering => k.latestSent = k.acknowledged
    /\ k.phase = "opened" => k.latestSent < k.nextSequence
    /\ k.phase = "idle" \/ (k.phase \in {"accepted", "opening"} /\ k.closed) => client.sock # c
    /\ ~k.closed /\ k.phase \in {"opened", "replay"} =>
           /\ k.listening /\ k.latestSent < k.nextSequence
           /\ Len(log) = k.nextSequence - 1 + Len(k.beforeReady)
           /\ \A i \in 1 .. Len(k.beforeReady) : k.beforeReady[i] = k.nextSequence - 1 + i
    /\ ~k.closed /\ k.phase = "ready" =>
           /\ k.listening
           /\ Len(log) = Base(k) + Len(k.sendQueue)
           /\ \A i \in 1 .. Len(k.sendQueue) : k.sendQueue[i] = Base(k) + i
           /\ k.latestSent < k.nextSequence - 1 => k.truncated

\* The next event may come after a gap.
Gap(c) == IF client.receivedSnapshot THEN client.allowTruncatedGap
          ELSE down[c] # <<>> /\ down[c][1].truncated

\* The events on their way, not counting the snapshot in front of them.
InFlight(c) == IF client.receivedSnapshot \/ down[c] = <<>> THEN Len(down[c]) ELSE Len(down[c]) - 1

\* A hello that is not answered yet carries the acknowledgement of the client.
EntryInv(c) ==
    conn[c].phase \in Entering =>
        /\ down[c] = <<>> /\ up[c] = <<>> /\ ~client.receivedSnapshot
        /\ conn[c].acknowledged = client.lastAck

\* The acknowledgements on their way are in order, and in the window.
AckInv(c) ==
    LET k == conn[c]
        u == up[c]
    IN
    /\ ~client.receivedSnapshot => u = <<>>
    /\ k.acknowledged <= client.lastAck /\ client.lastAck <= k.latestSent
    /\ \A i \in 1 .. Len(u) : k.acknowledged <= u[i] /\ u[i] <= client.lastAck
    /\ \A i, j \in 1 .. Len(u) : i <= j => u[i] <= u[j]

\* The events on their way end with the one that was sent last; the client
\* has the one before them, or will be told of the gap.
WireInv(c) ==
    LET k == conn[c]
        d == down[c]
    IN
    /\ ~client.receivedSnapshot => ~client.allowTruncatedGap
    /\ \A i \in 1 .. Len(d) : d[i].type = "snapshot" <=> i = 1 /\ ~client.receivedSnapshot
    /\ ~client.receivedSnapshot /\ d # <<>> => d[1].seq > client.lastAck
    /\ ~client.receivedSnapshot /\ d = <<>> /\ k.phase \in {"replay", "ready"} => k.closed
    /\ \A i \in 1 .. Len(d) : d[i].type # "snapshot" => d[i].seq = k.latestSent - Len(d) + i
    /\ client.lastAck <= k.latestSent - InFlight(c)
    /\ InFlight(c) = 0 \/ ~Gap(c) => client.lastAck = k.latestSent - InFlight(c)

\* A gap is one of the log, and announced before an event is left out.
GapInv(c) ==
    LET k == conn[c] IN
    /\ k.phase = "opened" /\ k.truncated => client.lastAck < first - 1
    /\ Gap(c) => client.lastAck < first - 1
    /\ ~k.closed /\ k.phase \in {"replay", "ready"} /\ k.truncated /\ k.latestSent < k.nextSequence - 1
       => Gap(c) /\ InFlight(c) = 0

\* The client and the connection it is on.
SocketInv(c) == EntryInv(c) /\ AckInv(c) /\ WireInv(c) /\ GapInv(c)

\* The acknowledgement of the client is the last event it showed.
ShownInv == client.lastAck = Gapless!LastReceived

\* The inductive invariant.
IInv ==
    /\ TypeOK /\ QuietInv /\ ShownInv
    /\ \A c \in Conns : ConnInv(c)
    /\ \A c \in Conns : client.sock = c => SocketInv(c)

\* What the client finds is what it waits for, or of a kind it does not know.
Expected ==
    \A c \in Conns : client.sock = c /\ down[c] # <<>> =>
        WellFormed(Head(down[c])) \/ Head(down[c]).type \in Kinds \ Understood
-----------------------------------------------------------------------------
(* What the steps do to the variables.                                     *)

LEMMA SeqGrows ==
  ASSUME NEW S, NEW T, S \subseteq T
  PROVE  Seq(S) \subseteq Seq(T)
BY SeqMonotonic

LEMMA LenLog ==
  ASSUME TypeOK
  PROVE  Len(log) \in Nat /\ NextSeq = Len(log) + 1
BY DEF TypeOK, NextSeq

\* A step that leaves the log alone and keeps each variable in its set.
LEMMA Typed ==
  ASSUME TypeOK, log' = log, first' \in 1 .. NextSeq,
         conn' \in [Conns -> Connection],
         \A c \in Conns : Len(conn'[c].beforeReady) <= MaxUnack,
         down' \in [Conns -> Seq(Message)], up' \in [Conns -> Seq(0 .. Len(log))],
         client' \in [sock : Conns \cup {NoConn}, lastAck : 0 .. Len(log),
                      receivedSnapshot : BOOLEAN, allowTruncatedGap : BOOLEAN],
         shown' \in Seq(1 .. Len(log)), faults' \in 0 .. MaxFaults
  PROVE  TypeOK'
BY DEF TypeOK, Connection, Message, NextSeq

LEMMA ConnTyped ==
  ASSUME TypeOK, NEW c \in Conns, NEW r \in Connection, Len(r.beforeReady) <= MaxUnack,
         conn' = [conn EXCEPT ![c] = r]
  PROVE  /\ conn' \in [Conns -> Connection]
         /\ \A e \in Conns : Len(conn'[e].beforeReady) <= MaxUnack
         /\ conn'[c] = r
         /\ \A e \in Conns \ {c} : conn'[e] = conn[e]
BY DEF TypeOK

LEMMA SendDoes ==
  ASSUME TypeOK, NEW c \in Conns, NEW msg \in Message, down' = Send(c, msg)
  PROVE  /\ down' \in [Conns -> Seq(Message)]
         /\ \A e \in Conns \ {c} : down'[e] = down[e]
         /\ client.sock # c => down'[c] = down[c]
         /\ client.sock = c =>
                /\ Len(down'[c]) = Len(down[c]) + 1 /\ down'[c] # <<>>
                /\ \A i \in 1 .. Len(down[c]) : down'[c][i] = down[c][i]
                /\ down'[c][Len(down[c]) + 1] = msg
<1>1. down[c] \in Seq(Message)
  BY DEF TypeOK
<1>2. /\ Append(down[c], msg) \in Seq(Message) /\ Append(down[c], msg) # <<>>
      /\ Len(Append(down[c], msg)) = Len(down[c]) + 1
      /\ \A i \in 1 .. Len(down[c]) : Append(down[c], msg)[i] = down[c][i]
      /\ Append(down[c], msg)[Len(down[c]) + 1] = msg
  BY <1>1, AppendProperties
<1>3. down' = [down EXCEPT ![c] = IF client.sock = c THEN Append(down[c], msg) ELSE down[c]]
  BY DEF Send
<1> HIDE DEF Send
<1> QED
  BY <1>1, <1>2, <1>3 DEF TypeOK

LEMMA TailDoes ==
  ASSUME NEW S, NEW q \in Seq(S), q # <<>>
  PROVE  /\ Tail(q) \in Seq(S) /\ Len(q) \in Nat \ {0}
         /\ Len(Tail(q)) = Len(q) - 1 /\ (Tail(q) = <<>> <=> Len(q) = 1)
         /\ \A i \in 1 .. Len(q) - 1 : Tail(q)[i] = q[i + 1]
         /\ Head(q) = q[1] /\ q[1] \in S
<1>1. Len(q) \in Nat \ {0}
  BY EmptySeq
<1>2. /\ Tail(q) \in Seq(S) /\ Len(Tail(q)) = Len(q) - 1
      /\ \A i \in 1 .. Len(Tail(q)) : Tail(q)[i] = q[i + 1]
  BY HeadTailProperties
<1>3. Tail(q) = <<>> <=> Len(Tail(q)) = 0
  BY <1>2, EmptySeq
<1>4. Head(q) = q[1] /\ q[1] \in S
  BY <1>1, ElementOfSeq
<1> QED
  BY <1>1, <1>2, <1>3, <1>4

LEMMA QueueDoes ==
  ASSUME TypeOK, NEW k \in Connection, NEW r, r = queueEvent(k, NextSeq)
  PROVE  IF k.closed \/ ~k.listening THEN r = k
         ELSE IF k.phase = "ready" THEN r = [k EXCEPT !.sendQueue = Append(k.sendQueue, Len(log) + 1)]
         ELSE IF Len(k.beforeReady) >= MaxUnack THEN r = [k EXCEPT !.closed = TRUE]
         ELSE r = [k EXCEPT !.beforeReady = Append(k.beforeReady, Len(log) + 1)]
<1>1. NextSeq = Len(log) + 1 /\ Len(log) \in Nat
  BY LenLog
<1>2. k.latestSent \in 0 .. Len(log)
  BY DEF Connection
<1>3. ~ (NextSeq <= k.latestSent)
  BY <1>1, <1>2
<1> QED
  BY <1>1, <1>3 DEF queueEvent

LEMMA QueueTyped ==
  ASSUME TypeOK, NEW k \in Connection, Len(k.beforeReady) <= MaxUnack,
         NEW kind \in Kinds, log' = Append(log, kind),
         NEW r, r = queueEvent(k, NextSeq)
  PROVE  r \in Connection' /\ Len(r.beforeReady) <= MaxUnack
<1> DEFINE n == Len(log)
<1>1. /\ n \in Nat /\ Len(log') = n + 1 /\ NextSeq = n + 1 /\ NextSeq' = n + 2
  BY AppendProperties DEF TypeOK, NextSeq
<1> HIDE DEF n
<1>2. Seq(1 .. n) \subseteq Seq(1 .. n + 1)
  BY <1>1, SeqGrows
<1>3. ASSUME NEW q \in Seq(1 .. n)
      PROVE  /\ Append(q, n + 1) \in Seq(1 .. n + 1) /\ Len(Append(q, n + 1)) = Len(q) + 1
             /\ Len(q) \in Nat
  BY <1>1, <1>2, AppendProperties, LenProperties
<1>4. /\ k.beforeReady \in Seq(1 .. n) /\ k.sendQueue \in Seq(1 .. n)
      /\ k.latestSent \in 0 .. n /\ k.acknowledged \in 0 .. n /\ k.nextSequence \in 1 .. n + 1
  BY <1>1 DEF Connection, n
<1>5. Connection' =
        [phase : {"idle", "accepted", "opening", "opened", "replay", "ready"},
         closed : BOOLEAN, listening : BOOLEAN,
         latestSent : 0 .. n + 1, acknowledged : 0 .. n + 1, nextSequence : 1 .. n + 2,
         truncated : BOOLEAN, beforeReady : Seq(1 .. n + 1), sendQueue : Seq(1 .. n + 1)]
  BY <1>1 DEF Connection
<1>6. k \in Connection'
  <2>1. k.latestSent \in 0 .. n + 1 /\ k.acknowledged \in 0 .. n + 1 /\ k.nextSequence \in 1 .. n + 2
    BY <1>1, <1>4
  <2> QED
    BY <1>2, <1>4, <1>5, <2>1 DEF Connection
<1>6a. /\ [k EXCEPT !.closed = TRUE] \in Connection'
       /\ [k EXCEPT !.closed = TRUE].beforeReady = k.beforeReady
  BY <1>5, <1>6
<1>7. ASSUME NEW q \in Seq(1 .. n + 1)
      PROVE  /\ [k EXCEPT !.sendQueue = q] \in Connection'
             /\ [k EXCEPT !.sendQueue = q].beforeReady = k.beforeReady
             /\ [k EXCEPT !.beforeReady = q] \in Connection'
             /\ [k EXCEPT !.beforeReady = q].beforeReady = q
  BY <1>5, <1>6
<1>8. Append(k.beforeReady, n + 1) \in Seq(1 .. n + 1) /\ Append(k.sendQueue, n + 1) \in Seq(1 .. n + 1)
      /\ Len(Append(k.beforeReady, n + 1)) = Len(k.beforeReady) + 1 /\ Len(k.beforeReady) \in Nat
  BY <1>3, <1>4
<1>9. MaxUnack \in Nat
  BY StreamAssumption
<1>10. \/ r = k \/ r = [k EXCEPT !.closed = TRUE] \/ r = [k EXCEPT !.sendQueue = Append(k.sendQueue, n + 1)]
       \/ Len(k.beforeReady) < MaxUnack /\ r = [k EXCEPT !.beforeReady = Append(k.beforeReady, n + 1)]
  <2> HIDE DEF Connection
  <2>1. IF k.closed \/ ~k.listening THEN r = k
         ELSE IF k.phase = "ready" THEN r = [k EXCEPT !.sendQueue = Append(k.sendQueue, n + 1)]
         ELSE IF Len(k.beforeReady) >= MaxUnack THEN r = [k EXCEPT !.closed = TRUE]
         ELSE r = [k EXCEPT !.beforeReady = Append(k.beforeReady, n + 1)]
    BY QueueDoes DEF n
  <2> QED
    BY <2>1, <1>8, <1>9
<1>11. CASE r = k
  BY <1>6, <1>11
<1>12. CASE r = [k EXCEPT !.closed = TRUE]
  BY <1>6a, <1>12
<1>13. CASE r = [k EXCEPT !.sendQueue = Append(k.sendQueue, n + 1)]
  BY <1>7, <1>8, <1>13
<1>14. CASE Len(k.beforeReady) < MaxUnack /\ r = [k EXCEPT !.beforeReady = Append(k.beforeReady, n + 1)]
  <2>1. r \in Connection' /\ r.beforeReady = Append(k.beforeReady, n + 1)
    BY <1>7, <1>8, <1>14
  <2> QED
    BY <2>1, <1>8, <1>9, <1>14
<1> QED
  BY <1>10, <1>11, <1>12, <1>13, <1>14

\* A gateway step of c that changes its connection and nothing else, or sends.
LEMMA GatewayTyped ==
  ASSUME TypeOK, NEW c \in Conns, NEW r \in Connection, Len(r.beforeReady) <= MaxUnack,
         conn' = [conn EXCEPT ![c] = r],
         log' = log, first' \in 1 .. NextSeq, up' \in [Conns -> Seq(0 .. Len(log))],
         down' \in [Conns -> Seq(Message)], client' = client, shown' = shown,
         faults' \in 0 .. MaxFaults
  PROVE  TypeOK'
<1>1. conn' \in [Conns -> Connection] /\ \A e \in Conns : Len(conn'[e].beforeReady) <= MaxUnack
  BY ConnTyped
<1> QED
  BY <1>1, Typed DEF TypeOK

LEMMA ConnFields ==
  ASSUME TypeOK, NEW c \in Conns
  PROVE  /\ conn[c] \in Connection /\ Len(conn[c].beforeReady) <= MaxUnack
         /\ Len(log) \in Nat /\ NextSeq = Len(log) + 1 /\ Len(conn[c].beforeReady) \in Nat
         /\ MaxUnack \in Nat \ {0}
BY LenLog, LenProperties, StreamAssumption DEF TypeOK, Connection

LEMMA IdleTyped ==
  ASSUME Len(log) \in Nat
  PROVE  Idle \in Connection /\ Len(Idle.beforeReady) <= MaxUnack
<1>1. <<>> \in Seq(1 .. Len(log)) /\ Len(<<>>) = 0
  BY EmptySeq
<1>2. 0 \in 0 .. Len(log) /\ 1 \in 1 .. NextSeq /\ MaxUnack \in Nat
  BY StreamAssumption DEF NextSeq
<1> QED
  BY <1>1, <1>2 DEF Connection, Idle

LEMMA HelloDoes ==
  ASSUME TypeOK, NEW c \in Conns, Hello(c),
         NEW r, r = IF conn[c].closed THEN Idle ELSE [conn[c] EXCEPT !.phase = "opening"]
  PROVE  /\ r \in Connection /\ Len(r.beforeReady) <= MaxUnack
         /\ conn' = [conn EXCEPT ![c] = r]
         /\ UNCHANGED <<log, first, down, up, client, shown, faults>>
         /\ TypeOK'
<1>1. /\ conn' = [conn EXCEPT ![c] = r]
      /\ UNCHANGED <<log, first, down, up, client, shown, faults>>
  BY DEF Hello
<1>2. r \in Connection /\ Len(r.beforeReady) <= MaxUnack
  <2>1. conn[c] \in Connection /\ Len(conn[c].beforeReady) <= MaxUnack
    BY ConnFields
  <2>2. CASE conn[c].closed
    BY <2>2, IdleTyped, LenLog
  <2>3. CASE ~conn[c].closed
    BY <2>1, <2>3 DEF Connection
  <2> QED
    BY <2>2, <2>3
<1> QED
  BY <1>1, <1>2, GatewayTyped DEF TypeOK

LEMMA PrunedDoes ==
  ASSUME TypeOK, NEW next \in Nat, first <= next, NEW f \in Pruned(next)
  PROVE  f \in first .. next
BY StreamAssumption DEF Pruned, TypeOK, NextSeq

LEMMA OpenStreamDoes ==
  ASSUME TypeOK, NEW c \in Conns, OpenStream(c),
         NEW r, r = [conn[c] EXCEPT !.phase = "opened", !.listening = TRUE,
                                    !.truncated = conn[c].acknowledged < first' - 1,
                                    !.nextSequence = NextSeq]
  PROVE  /\ r \in Connection /\ Len(r.beforeReady) <= MaxUnack
         /\ conn' = [conn EXCEPT ![c] = r]
         /\ first' \in first .. NextSeq
         /\ UNCHANGED <<log, down, up, client, shown, faults>>
         /\ TypeOK'
<1>1. /\ conn' = [conn EXCEPT ![c] = r]
      /\ UNCHANGED <<log, down, up, client, shown, faults>>
  BY DEF OpenStream, historyTruncated
<1>2. first' \in first .. NextSeq
  <2>1. first' \in Pruned(NextSeq)
    BY DEF OpenStream
  <2>2. NextSeq \in Nat /\ first <= NextSeq
    BY LenLog DEF TypeOK
  <2> QED
    BY <2>1, <2>2, PrunedDoes
<1>3. r \in Connection /\ Len(r.beforeReady) <= MaxUnack
  <2> DEFINE truncated == conn[c].acknowledged < first' - 1
  <2>1. conn[c] \in Connection /\ Len(conn[c].beforeReady) <= MaxUnack /\ NextSeq \in 1 .. NextSeq
    BY ConnFields
  <2>2. truncated \in BOOLEAN
    OBVIOUS
  <2>3. r = [conn[c] EXCEPT !.phase = "opened", !.listening = TRUE, !.truncated = truncated,
                            !.nextSequence = NextSeq]
    OBVIOUS
  <2> HIDE DEF truncated
  <2> QED
    BY <2>1, <2>2, <2>3 DEF Connection
<1>4. first' \in 1 .. NextSeq
  BY <1>2, LenLog DEF TypeOK
<1> QED
  BY <1>1, <1>2, <1>3, <1>4, GatewayTyped DEF TypeOK

LEMMA SendSnapshotDoes ==
  ASSUME TypeOK, NEW c \in Conns, SendSnapshot(c),
         NEW r, r = [conn[c] EXCEPT !.phase = "replay"],
         NEW msg, msg = Snapshot(conn[c].truncated, conn[c].nextSequence)
  PROVE  /\ r \in Connection /\ Len(r.beforeReady) <= MaxUnack /\ msg \in Message
         /\ conn' = [conn EXCEPT ![c] = r]
         /\ down' = IF conn[c].closed THEN down ELSE Send(c, msg)
         /\ UNCHANGED <<log, first, up, client, shown, faults>>
         /\ TypeOK'
<1>1. /\ conn' = [conn EXCEPT ![c] = r]
      /\ UNCHANGED <<log, first, up, client, shown, faults>>
      /\ down' = IF conn[c].closed THEN down ELSE Send(c, msg)
  BY DEF SendSnapshot
<1>2. r \in Connection /\ Len(r.beforeReady) <= MaxUnack /\ msg \in Message
  BY ConnFields DEF Connection, Message, Snapshot
<1>3. down' \in [Conns -> Seq(Message)]
  BY <1>1, <1>2, SendDoes DEF TypeOK
<1> QED
  BY <1>1, <1>2, <1>3, GatewayTyped DEF TypeOK

LEMMA EventTyped ==
  ASSUME TypeOK, NEW s \in 1 .. Len(log)
  PROVE  Event(s) \in Message /\ Event(s).seq = s /\ Event(s).type \in Kinds
<1>1. log[s] \in Kinds
  BY ElementOfSeq DEF TypeOK
<1> QED
  BY <1>1, LenLog DEF Event, Message

\* The connection is closed by a full window or a full transport.
LEMMA OverflowDoes ==
  ASSUME TypeOK, NEW c \in Conns, Overflow(c), faults' \in 0 .. MaxFaults,
         NEW r, r = [conn[c] EXCEPT !.closed = TRUE]
  PROVE  /\ r \in Connection /\ Len(r.beforeReady) <= MaxUnack
         /\ conn' = [conn EXCEPT ![c] = r]
         /\ UNCHANGED <<log, first, down, up, client, shown>>
         /\ TypeOK'
<1>1. /\ conn' = [conn EXCEPT ![c] = r]
      /\ UNCHANGED <<log, first, down, up, client, shown>>
  BY DEF Overflow
<1>2. r \in Connection /\ Len(r.beforeReady) <= MaxUnack
  BY ConnFields DEF Connection
<1> QED
  BY <1>1, <1>2, GatewayTyped DEF TypeOK

LEMMA OneMoreFault ==
  ASSUME TypeOK, NEW c \in Conns
  PROVE  Congested(c) /\ faults' = faults + 1 => faults' \in 0 .. MaxFaults
<1>1. faults \in 0 .. MaxFaults /\ MaxFaults \in Nat
  BY StreamAssumption DEF TypeOK
<1> QED
  BY <1>1 DEF Congested

LEMMA SendReplayDoes ==
  ASSUME TypeOK, NEW c \in Conns, SendReplay(c),
         NEW r, r = [conn[c] EXCEPT !.latestSent = conn[c].latestSent + 1],
         NEW msg, msg = Event(conn[c].latestSent + 1)
  PROVE  /\ conn[c].phase = "replay" /\ ~conn[c].closed
         /\ ~conn[c].truncated /\ conn[c].latestSent < conn[c].nextSequence - 1
         /\ \/ /\ r \in Connection /\ Len(r.beforeReady) <= MaxUnack
               /\ msg \in Message /\ msg.seq = conn[c].latestSent + 1 /\ msg.type \in Kinds
               /\ conn' = [conn EXCEPT ![c] = r]
               /\ down' = Send(c, msg)
               /\ UNCHANGED <<log, first, up, client, shown, faults>>
            \/ Overflow(c) /\ faults' \in 0 .. MaxFaults
         /\ TypeOK'
<1> DEFINE k == conn[c]
<1>1. k \in Connection /\ k.latestSent \in 0 .. Len(log) /\ k.nextSequence \in 1 .. NextSeq
      /\ k.truncated \in BOOLEAN /\ Len(k.beforeReady) <= MaxUnack /\ NextSeq = Len(log) + 1 /\ Len(log) \in Nat
  BY ConnFields DEF Connection
<1>2. /\ k.phase = "replay" /\ ~k.closed
      /\ ~k.truncated /\ k.latestSent < k.nextSequence - 1
  BY <1>1 DEF SendReplay, ReplayEnd
<1>3. CASE /\ conn' = [conn EXCEPT ![c].latestSent = @ + 1]
           /\ down' = Send(c, msg)
           /\ UNCHANGED <<log, first, up, client, shown, faults>>
  <2>1. conn' = [conn EXCEPT ![c] = r]
    BY <1>3
  <2>2. k.latestSent + 1 \in 1 .. Len(log)
    BY <1>1, <1>2
  <2>3. r \in Connection /\ Len(r.beforeReady) <= MaxUnack
    <3>1. k.latestSent + 1 \in 0 .. Len(log)
      BY <1>1, <2>2
    <3> QED
      BY <1>1, <3>1 DEF Connection
  <2>4. msg \in Message /\ msg.seq = k.latestSent + 1 /\ msg.type \in Kinds
    BY <2>2, EventTyped
  <2>5. down' \in [Conns -> Seq(Message)]
    BY <1>3, <2>4, SendDoes
  <2> QED
    BY <1>2, <1>3, <2>1, <2>3, <2>4, <2>5, GatewayTyped DEF TypeOK
<1>4. CASE Overflow(c) /\ faults' \in 0 .. MaxFaults
  BY <1>2, <1>4, OverflowDoes
<1>5. Congested(c) /\ faults' = faults + 1 => faults' \in 0 .. MaxFaults
  BY OneMoreFault
<1> QED
  BY <1>3, <1>4, <1>5 DEF SendReplay, TypeOK


\* While the replay lasts nothing that waits has been sent.
LEMMA UnsentAll ==
  ASSUME NEW S, NEW k, k.beforeReady \in Seq(S),
         \A i \in 1 .. Len(k.beforeReady) : ~(k.beforeReady[i] <= k.latestSent)
  PROVE  Unsent(k) = k.beforeReady
<1> DEFINE b == k.beforeReady
           P(n) == \A i \in 1 .. Len(b) : b[i] <= k.latestSent <=> i <= n
           sent == CHOOSE n \in 0 .. Len(b) : P(n)
<1>1. Len(b) \in Nat
  BY LenProperties
<1>2. P(0) /\ 0 \in 0 .. Len(b)
  BY <1>1
<1>3. sent \in 0 .. Len(b) /\ P(sent)
  <2> HIDE DEF P
  <2> QED
    BY <1>2
<1>4. sent = 0
  <2>1. CASE Len(b) = 0
    BY <1>3, <2>1
  <2>2. CASE 1 \in 1 .. Len(b)
    <3>1. ~ (1 <= sent)
      BY <1>3, <2>2
    <3> QED
      BY <1>1, <1>3, <3>1
  <2> QED
    BY <1>1, <2>1, <2>2
<1>5. Unsent(k) = SubSeq(b, sent + 1, Len(b))
  BY DEF Unsent
<1>6. SubSeq(b, 1, Len(b)) = b
  <2>1. /\ SubSeq(b, 1, Len(b)) \in Seq(S) /\ Len(SubSeq(b, 1, Len(b))) = Len(b)
        /\ \A i \in 1 .. Len(b) : SubSeq(b, 1, Len(b))[i] = b[i]
    BY <1>1, SubSeqProperties, Z3
  <2> HIDE DEF b
  <2> QED
    BY <2>1, SeqEqual DEF b
<1> HIDE DEF sent, b
<1> QED
  BY <1>4, <1>5, <1>6 DEF b

LEMMA BecomeReadyDoes ==
  ASSUME TypeOK, NEW c \in Conns, ConnInv(c), BecomeReady(c),
         NEW q, q = IF conn[c].closed THEN <<>> ELSE conn[c].beforeReady,
         NEW r, r = [conn[c] EXCEPT !.phase = "ready", !.beforeReady = <<>>, !.sendQueue = q]
  PROVE  /\ conn[c].phase = "replay"
         /\ conn[c].closed \/ conn[c].truncated \/ conn[c].latestSent >= conn[c].nextSequence - 1
         /\ r \in Connection /\ Len(r.beforeReady) <= MaxUnack
         /\ conn' = [conn EXCEPT ![c] = r]
         /\ UNCHANGED <<log, first, down, up, client, shown, faults>>
         /\ TypeOK'
<1> DEFINE k == conn[c]
<1>1. /\ k \in Connection /\ k.beforeReady \in Seq(1 .. Len(log)) /\ MaxUnack \in Nat
      /\ Len(k.beforeReady) \in Nat /\ k.latestSent \in Nat /\ k.nextSequence \in Nat
  BY ConnFields DEF Connection
<1>2. /\ k.phase = "replay"
      /\ k.closed \/ k.truncated \/ k.latestSent >= k.nextSequence - 1
      /\ UNCHANGED <<log, first, down, up, client, shown, faults>>
  BY DEF BecomeReady, ReplayEnd
<1>3. ~k.closed => Unsent(k) = k.beforeReady
  <2> SUFFICES ASSUME ~k.closed PROVE Unsent(k) = k.beforeReady
    OBVIOUS
  <2>1. /\ k.latestSent < k.nextSequence
        /\ \A i \in 1 .. Len(k.beforeReady) : k.beforeReady[i] = k.nextSequence - 1 + i
    BY <1>2 DEF ConnInv
  <2>2. \A i \in 1 .. Len(k.beforeReady) : ~(k.beforeReady[i] <= k.latestSent)
    BY <1>1, <2>1
  <2> HIDE DEF k
  <2> QED
    BY <1>1, <2>2, UnsentAll
<1>4. conn' = [conn EXCEPT ![c] = r]
  <2>1. conn' = [conn EXCEPT ![c] = [conn[c] EXCEPT !.phase = "ready", !.beforeReady = <<>>,
                        !.sendQueue = IF k.closed THEN <<>> ELSE Unsent(k)]]
    BY DEF BecomeReady
  <2>2. (IF k.closed THEN <<>> ELSE Unsent(k)) = q
    BY <1>3
  <2> QED
    BY <2>1, <2>2
<1>5. r \in Connection /\ Len(r.beforeReady) <= MaxUnack
  <2>1. <<>> \in Seq(1 .. Len(log)) /\ Len(<<>>) = 0
    BY EmptySeq
  <2>2. q \in Seq(1 .. Len(log))
    BY <1>1, <2>1
  <2>3. r.beforeReady = <<>> /\ r \in Connection
    BY <1>1, <2>1, <2>2 DEF Connection
  <2> QED
    BY <1>1, <2>1, <2>3
<1> QED
  BY <1>2, <1>4, <1>5, GatewayTyped DEF TypeOK

LEMMA SendLiveDoes ==
  ASSUME TypeOK, NEW c \in Conns, SendLive(c),
         NEW s, s = Head(conn[c].sendQueue),
         NEW r, r = [conn[c] EXCEPT !.latestSent = s, !.sendQueue = Tail(conn[c].sendQueue)],
         NEW p, p = [conn[c] EXCEPT !.sendQueue = Tail(conn[c].sendQueue)]
  PROVE  /\ conn[c].phase = "ready" /\ ~conn[c].closed /\ conn[c].sendQueue # <<>>
         /\ conn[c].sendQueue \in Seq(1 .. Len(log)) /\ s \in 1 .. Len(log)
         /\ \/ /\ s > conn[c].latestSent
               /\ r \in Connection /\ Len(r.beforeReady) <= MaxUnack
               /\ Event(s) \in Message /\ Event(s).seq = s /\ Event(s).type \in Kinds
               /\ conn' = [conn EXCEPT ![c] = r]
               /\ down' = Send(c, Event(s))
               /\ UNCHANGED <<log, first, up, client, shown, faults>>
            \/ /\ s <= conn[c].latestSent
               /\ p \in Connection /\ Len(p.beforeReady) <= MaxUnack
               /\ conn' = [conn EXCEPT ![c] = p]
               /\ UNCHANGED <<log, first, down, up, client, shown, faults>>
            \/ Overflow(c) /\ faults' \in 0 .. MaxFaults
         /\ TypeOK'
<1> DEFINE k == conn[c]
<1>1. /\ k \in Connection /\ k.sendQueue \in Seq(1 .. Len(log)) /\ k.latestSent \in 0 .. Len(log)
      /\ Len(k.beforeReady) <= MaxUnack /\ Len(log) \in Nat
  BY ConnFields DEF Connection
<1>2. k.phase = "ready" /\ ~k.closed /\ k.sendQueue # <<>>
  BY DEF SendLive
<1>3. s \in 1 .. Len(log) /\ Tail(k.sendQueue) \in Seq(1 .. Len(log))
  BY <1>1, <1>2, TailDoes
<1>4. s > k.latestSent \/ s <= k.latestSent
  BY <1>1, <1>3
<1>5. r \in Connection /\ Len(r.beforeReady) <= MaxUnack
  <2>1. s \in 0 .. Len(log)
    BY <1>1, <1>3
  <2> QED
    BY <1>1, <1>3, <2>1 DEF Connection
<1>6. p \in Connection /\ Len(p.beforeReady) <= MaxUnack
  BY <1>1, <1>3 DEF Connection
<1>7. Event(s) \in Message /\ Event(s).seq = s /\ Event(s).type \in Kinds
  BY <1>3, EventTyped
<1>8. CASE /\ s > k.latestSent
           /\ down' = Send(c, Event(s))
           /\ conn' = [conn EXCEPT ![c].latestSent = s, ![c].sendQueue = Tail(@)]
           /\ UNCHANGED <<log, first, up, client, shown, faults>>
  <2>1. conn' = [conn EXCEPT ![c] = r]
    BY <1>8 DEF TypeOK
  <2>2. down' \in [Conns -> Seq(Message)]
    BY <1>8, <1>7, SendDoes
  <2> QED
    BY <1>1, <1>2, <1>3, <1>5, <1>7, <1>8, <2>1, <2>2, GatewayTyped, ZenonT(60) DEF TypeOK
<1>9. CASE /\ s <= k.latestSent
           /\ conn' = [conn EXCEPT ![c].latestSent = @, ![c].sendQueue = Tail(@)]
           /\ UNCHANGED <<log, first, down, up, client, shown, faults>>
  <2>1. conn' = [conn EXCEPT ![c] = p]
    BY <1>9 DEF TypeOK, Connection
  <2> QED
    <3>1. TypeOK'
      BY <1>6, <1>9, <2>1, GatewayTyped DEF TypeOK
    <3> QED
      BY <1>1, <1>2, <1>3, <1>6, <1>9, <2>1, <3>1
<1>10. CASE Overflow(c) /\ faults' \in 0 .. MaxFaults
  BY <1>1, <1>2, <1>3, <1>10, OverflowDoes
<1>11. Congested(c) /\ faults' = faults + 1 => faults' \in 0 .. MaxFaults
  BY OneMoreFault
<1>12. ~(s > k.latestSent) <=> s <= k.latestSent
  BY <1>1, <1>3, SMTT(20)
<1> QED
  BY <1>4, <1>8, <1>9, <1>10, <1>11, <1>12 DEF SendLive, TypeOK

LEMMA AcknowledgeDoes ==
  ASSUME TypeOK, NEW c \in Conns, Acknowledge(c),
         NEW s, s = Head(up[c]),
         NEW r, r = [conn[c] EXCEPT !.acknowledged = s],
         NEW p, p = [conn[c] EXCEPT !.closed = TRUE]
  PROVE  /\ conn[c].phase = "ready" /\ ~conn[c].closed /\ up[c] # <<>>
         /\ up[c] \in Seq(0 .. Len(log)) /\ s \in 0 .. Len(log)
         /\ up' = [up EXCEPT ![c] = Tail(up[c])]
         /\ \/ /\ conn[c].acknowledged <= s /\ s <= conn[c].latestSent
               /\ r \in Connection /\ Len(r.beforeReady) <= MaxUnack
               /\ conn' = [conn EXCEPT ![c] = r]
            \/ /\ s < conn[c].acknowledged \/ s > conn[c].latestSent
               /\ p \in Connection /\ Len(p.beforeReady) <= MaxUnack
               /\ conn' = [conn EXCEPT ![c] = p]
         /\ UNCHANGED <<log, first, down, client, shown, faults>>
         /\ TypeOK'
<1> DEFINE k == conn[c]
<1>1. /\ k \in Connection /\ k.latestSent \in 0 .. Len(log) /\ k.acknowledged \in 0 .. Len(log)
      /\ Len(k.beforeReady) <= MaxUnack /\ Len(log) \in Nat /\ up[c] \in Seq(0 .. Len(log))
  BY ConnFields DEF Connection, TypeOK
<1>2. /\ k.phase = "ready" /\ ~k.closed /\ up[c] # <<>>
      /\ up' = [up EXCEPT ![c] = Tail(up[c])]
      /\ UNCHANGED <<log, first, down, client, shown, faults>>
      /\ conn' = [conn EXCEPT ![c] =
              IF s < k.acknowledged \/ s > k.latestSent THEN p ELSE r]
  BY DEF Acknowledge
<1>3. s \in 0 .. Len(log) /\ Tail(up[c]) \in Seq(0 .. Len(log))
  BY <1>1, <1>2, TailDoes
<1>4. r \in Connection /\ Len(r.beforeReady) <= MaxUnack
  BY <1>1, <1>3 DEF Connection
<1>5. p \in Connection /\ Len(p.beforeReady) <= MaxUnack
  BY <1>1 DEF Connection
<1>6. up' \in [Conns -> Seq(0 .. Len(log))]
  BY <1>2, <1>3 DEF TypeOK
<1>7. CASE s < k.acknowledged \/ s > k.latestSent
  BY <1>1, <1>2, <1>3, <1>5, <1>6, <1>7, GatewayTyped DEF TypeOK
<1>8. CASE k.acknowledged <= s /\ s <= k.latestSent
  <2>1. ~(s < k.acknowledged \/ s > k.latestSent)
    BY <1>1, <1>3, <1>8
  <2> QED
    BY <1>1, <1>2, <1>3, <1>4, <1>6, <1>8, <2>1, GatewayTyped DEF TypeOK
<1> QED
  BY <1>1, <1>3, <1>7, <1>8

LEMMA OnCloseDoes ==
  ASSUME TypeOK, NEW c \in Conns, OnClose(c),
         NEW r, r = [conn[c] EXCEPT !.closed = TRUE]
  PROVE  /\ client.sock # c
         /\ r \in Connection /\ Len(r.beforeReady) <= MaxUnack
         /\ conn' = [conn EXCEPT ![c] = r]
         /\ UNCHANGED <<log, first, down, up, client, shown, faults>>
         /\ TypeOK'
<1>1. /\ client.sock # c /\ conn' = [conn EXCEPT ![c] = r]
      /\ UNCHANGED <<log, first, down, up, client, shown, faults>>
  BY DEF OnClose
<1>2. r \in Connection /\ Len(r.beforeReady) <= MaxUnack
  BY ConnFields DEF Connection
<1> QED
  BY <1>1, <1>2, GatewayTyped DEF TypeOK

LEMMA DetachDoes ==
  ASSUME TypeOK, NEW c \in Conns, Detach(c),
         NEW r, r = [conn[c] EXCEPT !.listening = FALSE]
  PROVE  /\ conn[c].closed /\ conn[c].phase # "opened"
         /\ r \in Connection /\ Len(r.beforeReady) <= MaxUnack
         /\ conn' = [conn EXCEPT ![c] = r]
         /\ UNCHANGED <<log, first, down, up, client, shown, faults>>
         /\ TypeOK'
<1>1. /\ conn[c].closed /\ conn[c].phase # "opened"
      /\ conn' = [conn EXCEPT ![c] = r]
      /\ UNCHANGED <<log, first, down, up, client, shown, faults>>
  BY DEF Detach
<1>2. r \in Connection /\ Len(r.beforeReady) <= MaxUnack
  BY ConnFields DEF Connection
<1> QED
  BY <1>1, <1>2, GatewayTyped DEF TypeOK

LEMMA ForgetDoes ==
  ASSUME TypeOK, NEW c \in Conns, Forget(c)
  PROVE  /\ client.sock # c
         /\ Idle \in Connection /\ Len(Idle.beforeReady) <= MaxUnack
         /\ conn' = [conn EXCEPT ![c] = Idle]
         /\ UNCHANGED <<log, first, down, up, client, shown, faults>>
         /\ TypeOK'
<1>1. /\ client.sock # c /\ conn' = [conn EXCEPT ![c] = Idle]
      /\ UNCHANGED <<log, first, down, up, client, shown, faults>>
  BY DEF Forget
<1>2. Idle \in Connection /\ Len(Idle.beforeReady) <= MaxUnack
  BY IdleTyped, LenLog
<1> QED
  BY <1>1, <1>2, GatewayTyped DEF TypeOK

LEMMA OpenDoes ==
  ASSUME TypeOK, NEW c \in Conns, Open(c),
         NEW r, r = [Idle EXCEPT !.phase = "accepted", !.closed = FALSE,
                                 !.latestSent = client.lastAck, !.acknowledged = client.lastAck]
  PROVE  /\ client.sock = NoConn /\ c # NoConn
         /\ r \in Connection /\ Len(r.beforeReady) <= MaxUnack
         /\ conn' = [conn EXCEPT ![c] = r]
         /\ client' = [sock |-> c, lastAck |-> client.lastAck,
                       receivedSnapshot |-> FALSE, allowTruncatedGap |-> FALSE]
         /\ UNCHANGED <<log, first, down, up, shown, faults>>
         /\ TypeOK'
<1>1. /\ client \in [sock : Conns \cup {NoConn}, lastAck : 0 .. Len(log),
                   receivedSnapshot : BOOLEAN, allowTruncatedGap : BOOLEAN]
      /\ client.lastAck \in 0 .. Len(log)
  BY DEF TypeOK
<1>2. /\ client.sock = NoConn
      /\ conn' = [conn EXCEPT ![c] = r]
      /\ UNCHANGED <<log, first, down, up, shown, faults>>
      /\ client' = [client EXCEPT !.sock = c, !.receivedSnapshot = FALSE,
                                !.allowTruncatedGap = FALSE]
  BY DEF Open
<1>3. client' = [sock |-> c, lastAck |-> client.lastAck,
                       receivedSnapshot |-> FALSE, allowTruncatedGap |-> FALSE]
  BY <1>1, <1>2
<1>4. client' \in [sock : Conns \cup {NoConn}, lastAck : 0 .. Len(log),
                   receivedSnapshot : BOOLEAN, allowTruncatedGap : BOOLEAN]
  BY <1>1, <1>3
<1>5. r \in Connection /\ Len(r.beforeReady) <= MaxUnack
  <2>1. Idle \in Connection /\ Len(Idle.beforeReady) <= MaxUnack
    BY IdleTyped, LenLog
  <2> HIDE DEF Idle
  <2> QED
    BY <1>1, <2>1 DEF Connection
<1>6. c # NoConn
  BY StreamAssumption DEF NoConn
<1>7. conn' \in [Conns -> Connection] /\ \A e \in Conns : Len(conn'[e].beforeReady) <= MaxUnack
  BY <1>2, <1>5, ConnTyped
<1>8. TypeOK'
  BY <1>2, <1>4, <1>7, Typed DEF TypeOK
<1> QED
  BY <1>2, <1>3, <1>5, <1>6, <1>8

\* The next message of the client, and the client afterwards.
LEMMA NextMessage ==
  ASSUME TypeOK, NEW c \in Conns, down[c] # <<>>
  PROVE  /\ down[c] \in Seq(Message) /\ Len(down[c]) \in Nat \ {0}
         /\ Head(down[c]) = down[c][1] /\ down[c][1] \in Message
         /\ Tail(down[c]) \in Seq(Message) /\ Len(Tail(down[c])) = Len(down[c]) - 1
         /\ Tail(down[c]) = <<>> <=> Len(down[c]) = 1
         /\ \A i \in 1 .. Len(down[c]) - 1 : Tail(down[c])[i] = down[c][i + 1]
<1>1. down[c] \in Seq(Message)
  BY DEF TypeOK
<1> HIDE DEF Message
<1> QED
  BY <1>1, TailDoes

LEMMA ReceiveSnapshotDoes ==
  ASSUME TypeOK, NEW c \in Conns, ReceiveSnapshot(c),
         NEW d, d = Tail(down[c]), NEW msg, msg = down[c][1]
  PROVE  /\ client.sock = c /\ down[c] # <<>> /\ msg.type = "snapshot"
         /\ WellFormed(msg) /\ msg.truncated \in BOOLEAN
         /\ client' = [sock |-> c, lastAck |-> client.lastAck,
                       receivedSnapshot |-> TRUE, allowTruncatedGap |-> msg.truncated]
         /\ down' = [down EXCEPT ![c] = d]
         /\ UNCHANGED <<log, first, conn, up, shown, faults>>
         /\ TypeOK'
<1>1. /\ client \in [sock : Conns \cup {NoConn}, lastAck : 0 .. Len(log),
                   receivedSnapshot : BOOLEAN, allowTruncatedGap : BOOLEAN]
      /\ client.lastAck \in 0 .. Len(log) /\ client.sock \in Conns \cup {NoConn}
  BY DEF TypeOK
<1>2. /\ client.sock = c /\ down[c] # <<>>
      /\ down' = [down EXCEPT ![c] = d]
      /\ UNCHANGED <<log, first, conn, up, shown, faults>>
  BY DEF ReceiveSnapshot
<1>3. msg = Head(down[c]) /\ msg \in Message /\ d \in Seq(Message)
  BY <1>2, NextMessage
<1>4. msg.type = "snapshot" /\ WellFormed(msg) /\ msg.truncated \in BOOLEAN
  BY <1>3 DEF ReceiveSnapshot, Message
<1>5. client' = [sock |-> c, lastAck |-> client.lastAck,
                       receivedSnapshot |-> TRUE, allowTruncatedGap |-> msg.truncated]
  BY <1>1, <1>2, <1>3 DEF ReceiveSnapshot
<1>6. client' \in [sock : Conns \cup {NoConn}, lastAck : 0 .. Len(log),
                   receivedSnapshot : BOOLEAN, allowTruncatedGap : BOOLEAN]
  BY <1>1, <1>4, <1>5
<1>7. down' \in [Conns -> Seq(Message)]
  BY <1>2, <1>3 DEF TypeOK
<1>8. TypeOK'
  BY <1>2, <1>6, <1>7, Typed DEF TypeOK
<1> QED
  BY <1>2, <1>4, <1>5, <1>8

LEMMA ReceiveEventDoes ==
  ASSUME TypeOK, NEW c \in Conns, ReceiveEvent(c),
         NEW d, d = Tail(down[c]), NEW msg, msg = down[c][1],
         \* every event on its way has been produced
         msg.type # "snapshot" => msg.seq \in 1 .. Len(log)
  PROVE  /\ client.sock = c /\ down[c] # <<>> /\ msg.type # "snapshot"
         /\ WellFormed(msg) /\ msg.seq \in 1 .. Len(log)
         /\ down' = [down EXCEPT ![c] = d]
         /\ UNCHANGED <<log, first, conn, faults>>
         /\ \/ /\ msg.seq > client.lastAck
               /\ client' = [sock |-> c, lastAck |-> msg.seq,
                             receivedSnapshot |-> client.receivedSnapshot,
                             allowTruncatedGap |-> FALSE]
               /\ shown' = Append(shown, msg.seq)
               /\ up' = [up EXCEPT ![c] = Append(up[c], msg.seq)]
            \/ /\ msg.seq <= client.lastAck
               /\ client' = client /\ shown' = shown
               /\ up' = [up EXCEPT ![c] = Append(up[c], client.lastAck)]
         /\ TypeOK'
<1>1. /\ client \in [sock : Conns \cup {NoConn}, lastAck : 0 .. Len(log),
                   receivedSnapshot : BOOLEAN, allowTruncatedGap : BOOLEAN]
      /\ client.lastAck \in 0 .. Len(log) /\ Len(log) \in Nat
  BY LenLog DEF TypeOK
<1>2. /\ client.sock = c /\ down[c] # <<>>
      /\ down' = [down EXCEPT ![c] = d]
      /\ UNCHANGED <<log, first, conn, faults>>
  BY DEF ReceiveEvent
<1>3. msg = Head(down[c]) /\ msg \in Message /\ d \in Seq(Message)
  BY <1>2, NextMessage
<1>4. msg.type # "snapshot" /\ WellFormed(msg) /\ msg.seq \in 1 .. Len(log)
  BY <1>3 DEF ReceiveEvent
<1>5. down' \in [Conns -> Seq(Message)]
  BY <1>2, <1>3 DEF TypeOK
<1>6. up[c] \in Seq(0 .. Len(log)) /\ shown \in Seq(1 .. Len(log))
  BY DEF TypeOK
<1>7. CASE msg.seq > client.lastAck
  <2>1. /\ client' = [client EXCEPT !.lastAck = msg.seq, !.allowTruncatedGap = FALSE]
        /\ shown' = Append(shown, msg.seq)
        /\ up' = [up EXCEPT ![c] = Append(up[c], msg.seq)]
    BY <1>3, <1>7 DEF ReceiveEvent
  <2>2. client' = [sock |-> c, lastAck |-> msg.seq,
                             receivedSnapshot |-> client.receivedSnapshot,
                             allowTruncatedGap |-> FALSE]
    BY <1>1, <1>2, <2>1
  <2>3. client' \in [sock : Conns \cup {NoConn}, lastAck : 0 .. Len(log),
                     receivedSnapshot : BOOLEAN, allowTruncatedGap : BOOLEAN]
    <3>1. msg.seq \in 0 .. Len(log)
      BY <1>1, <1>4
    <3> QED
      BY <1>1, <2>1, <3>1
  <2>4. shown' \in Seq(1 .. Len(log))
    BY <1>4, <1>6, <2>1, AppendProperties
  <2>5. up' \in [Conns -> Seq(0 .. Len(log))]
    <3>1. Append(up[c], msg.seq) \in Seq(0 .. Len(log))
      <4>1. msg.seq \in 0 .. Len(log)
        BY <1>1, <1>4
      <4> QED
        BY <1>6, <4>1, AppendProperties
    <3> QED
      BY <2>1, <3>1 DEF TypeOK
  <2>6. TypeOK'
    BY <1>2, <1>5, <2>3, <2>4, <2>5, Typed DEF TypeOK
  <2> QED
    BY <1>2, <1>4, <1>7, <2>1, <2>2, <2>6
<1>8. CASE msg.seq <= client.lastAck
  <2>1. ~(msg.seq > client.lastAck)
    BY <1>1, <1>4, <1>8
  <2>2. /\ client' = client /\ shown' = shown
        /\ up' = [up EXCEPT ![c] = Append(up[c], client.lastAck)]
    BY <1>1, <1>3, <2>1 DEF ReceiveEvent
  <2>3. up' \in [Conns -> Seq(0 .. Len(log))]
    <3>1. Append(up[c], client.lastAck) \in Seq(0 .. Len(log))
      BY <1>1, <1>6, AppendProperties
    <3> QED
      BY <2>2, <3>1 DEF TypeOK
  <2>4. TypeOK'
    BY <1>2, <1>5, <2>2, <2>3, Typed DEF TypeOK
  <2> QED
    BY <1>2, <1>4, <1>8, <2>2, <2>4
<1>9. msg.seq > client.lastAck \/ msg.seq <= client.lastAck
  BY <1>1, <1>4
<1> QED
  BY <1>7, <1>8, <1>9

LEMMA DisconnectedDoes ==
  ASSUME TypeOK, NEW c \in Conns, GiveUp(c) \/ NetworkDrop(c)
  PROVE  /\ client.sock = c
         /\ client'.sock = NoConn /\ client'.lastAck = client.lastAck
         /\ down' = [down EXCEPT ![c] = <<>>]
         /\ up' = [up EXCEPT ![c] = <<>>]
         /\ UNCHANGED <<log, first, conn, shown>>
         /\ TypeOK'
<1>1. /\ client \in [sock : Conns \cup {NoConn}, lastAck : 0 .. Len(log),
                   receivedSnapshot : BOOLEAN, allowTruncatedGap : BOOLEAN]
  BY DEF TypeOK
<1>2. /\ client.sock = c
      /\ client' = [client EXCEPT !.sock = NoConn]
      /\ down' = [down EXCEPT ![c] = <<>>]
      /\ up' = [up EXCEPT ![c] = <<>>]
      /\ UNCHANGED <<log, first, conn, shown>>
  BY DEF GiveUp, NetworkDrop, Disconnected
<1>3. faults' \in 0 .. MaxFaults
  <2>1. faults \in 0 .. MaxFaults /\ MaxFaults \in Nat
    BY StreamAssumption DEF TypeOK
  <2> QED
    BY <2>1 DEF GiveUp, NetworkDrop
<1>4. /\ client' \in [sock : Conns \cup {NoConn}, lastAck : 0 .. Len(log),
                     receivedSnapshot : BOOLEAN, allowTruncatedGap : BOOLEAN]
      /\ client'.sock = NoConn /\ client'.lastAck = client.lastAck
  BY <1>1, <1>2
<1>5. down' \in [Conns -> Seq(Message)] /\ up' \in [Conns -> Seq(0 .. Len(log))]
  <2>1. <<>> \in Seq(Message) /\ <<>> \in Seq(0 .. Len(log))
    BY EmptySeq
  <2> QED
    BY <1>2, <2>1 DEF TypeOK
<1>6. TypeOK'
  BY <1>2, <1>3, <1>4, <1>5, Typed DEF TypeOK
<1> QED
  BY <1>2, <1>4, <1>6

LEMMA PublishDoes ==
  ASSUME TypeOK, NEW kind \in Kinds, Publish(kind)
  PROVE  /\ log' = Append(log, kind) /\ Len(log') = Len(log) + 1
         /\ first' \in first .. NextSeq'
         /\ \A e \in Conns : conn'[e] = queueEvent(conn[e], NextSeq)
         /\ UNCHANGED <<down, up, client, shown, faults>>
         /\ TypeOK'
<1> DEFINE n == Len(log)
<1>1. n \in Nat /\ log \in Seq(Kinds) /\ NextSeq = n + 1 /\ first \in 1 .. n + 1
  BY LenLog DEF TypeOK
<1>2. /\ log' = Append(log, kind)
      /\ first' \in Pruned(NextSeq + 1)
      /\ conn' = [e \in Conns |-> queueEvent(conn[e], NextSeq)]
      /\ UNCHANGED <<down, up, client, shown, faults>>
  BY DEF Publish
<1>3. Len(log') = n + 1 /\ log' \in Seq(Kinds) /\ NextSeq' = n + 2
  BY <1>1, <1>2, AppendProperties DEF NextSeq
<1>4. first' \in first .. NextSeq'
  <2>1. first' \in Pruned(n + 2) /\ n + 2 \in Nat /\ first <= n + 2
    BY <1>1, <1>2
  <2> QED
    BY <1>3, <2>1, PrunedDoes
<1>5. \A e \in Conns : conn'[e] \in Connection' /\ Len(conn'[e].beforeReady) <= MaxUnack
  <2> TAKE e \in Conns
  <2>1. conn[e] \in Connection /\ Len(conn[e].beforeReady) <= MaxUnack
    BY ConnFields
  <2>2. conn'[e] = queueEvent(conn[e], NextSeq)
    BY <1>2
  <2> QED
    BY <1>2, <2>1, <2>2, QueueTyped
<1>6. conn' \in [Conns -> Connection']
  BY <1>2, <1>5
<1> HIDE DEF n
<1>7. down' \in [Conns -> Seq(Message')]
  <2>1. Message \subseteq Message'
    <3>1. 1 .. n + 1 \subseteq 1 .. n + 2
      BY <1>1
    <3> QED
      BY <1>1, <1>3, <3>1 DEF Message
  <2>2. Seq(Message) \subseteq Seq(Message')
    BY <2>1, SeqGrows
  <2> QED
    BY <1>2, <2>2 DEF TypeOK
<1>8. up' \in [Conns -> Seq(0 .. n + 1)] /\ shown' \in Seq(1 .. n + 1)
  <2>1. Seq(0 .. n) \subseteq Seq(0 .. n + 1) /\ Seq(1 .. n) \subseteq Seq(1 .. n + 1)
    BY <1>1, SeqGrows
  <2> QED
    BY <1>2, <2>1 DEF TypeOK, n
<1>9. client' \in [sock : Conns \cup {NoConn}, lastAck : 0 .. n + 1,
                   receivedSnapshot : BOOLEAN, allowTruncatedGap : BOOLEAN]
  <2>1. client \in [sock : Conns \cup {NoConn}, lastAck : 0 .. n,
                   receivedSnapshot : BOOLEAN, allowTruncatedGap : BOOLEAN]
    BY DEF TypeOK, n
  <2>2. 0 .. n \subseteq 0 .. n + 1
    BY <1>1
  <2> QED
    BY <1>2, <2>1, <2>2
<1>10. first' \in 1 .. NextSeq'
  BY <1>1, <1>3, <1>4
<1>11. TypeOK'
  <2>1. Len(log') = n + 1 /\ faults' \in 0 .. MaxFaults
    BY <1>2, <1>3 DEF TypeOK
  <2> QED
    BY <1>3, <1>5, <1>6, <1>7, <1>8, <1>9, <1>10, <2>1 DEF TypeOK
<1> QED
  BY <1>2, <1>3, <1>4, <1>11 DEF n

-----------------------------------------------------------------------------
(* The invariant is kept by every step.                                    *)

LEMMA StateTyped ==
  ASSUME TypeOK, NEW c \in Conns
  PROVE  /\ Len(log) \in Nat /\ NextSeq = Len(log) + 1 /\ first \in 1 .. Len(log) + 1
         /\ client.lastAck \in 0 .. Len(log) /\ client.sock \in Conns \cup {NoConn}
         /\ client.receivedSnapshot \in BOOLEAN /\ client.allowTruncatedGap \in BOOLEAN
         /\ conn[c] \in Connection
         /\ conn[c].latestSent \in 0 .. Len(log) /\ conn[c].acknowledged \in 0 .. Len(log)
         /\ conn[c].nextSequence \in 1 .. Len(log) + 1
         /\ conn[c].truncated \in BOOLEAN /\ conn[c].closed \in BOOLEAN
         /\ conn[c].listening \in BOOLEAN
         /\ conn[c].phase \in {"idle", "accepted", "opening", "opened", "replay", "ready"}
         /\ conn[c].beforeReady \in Seq(1 .. Len(log)) /\ Len(conn[c].beforeReady) \in Nat
         /\ conn[c].sendQueue \in Seq(1 .. Len(log)) /\ Len(conn[c].sendQueue) \in Nat
         /\ down[c] \in Seq(Message) /\ Len(down[c]) \in Nat
         /\ up[c] \in Seq(0 .. Len(log)) /\ Len(up[c]) \in Nat
<1>1. Len(log) \in Nat /\ NextSeq = Len(log) + 1
  BY LenLog
<1>2. conn[c] \in Connection
  BY DEF TypeOK
<1>3. conn[c].beforeReady \in Seq(1 .. Len(log)) /\ conn[c].sendQueue \in Seq(1 .. Len(log))
  BY <1>2 DEF Connection
<1>4. down[c] \in Seq(Message) /\ up[c] \in Seq(0 .. Len(log))
  BY DEF TypeOK
<1>5. /\ Len(conn[c].beforeReady) \in Nat /\ Len(conn[c].sendQueue) \in Nat
      /\ Len(down[c]) \in Nat /\ Len(up[c]) \in Nat
  BY <1>3, <1>4, LenProperties
<1>6. /\ conn[c].latestSent \in 0 .. Len(log) /\ conn[c].acknowledged \in 0 .. Len(log)
      /\ conn[c].nextSequence \in 1 .. Len(log) + 1
      /\ conn[c].truncated \in BOOLEAN /\ conn[c].closed \in BOOLEAN
      /\ conn[c].listening \in BOOLEAN
      /\ conn[c].phase \in {"idle", "accepted", "opening", "opened", "replay", "ready"}
  BY <1>1, <1>2 DEF Connection
<1>7. /\ client.lastAck \in 0 .. Len(log) /\ client.sock \in Conns \cup {NoConn}
      /\ client.receivedSnapshot \in BOOLEAN /\ client.allowTruncatedGap \in BOOLEAN
      /\ first \in 1 .. Len(log) + 1
  BY <1>1 DEF TypeOK
<1> QED
  BY <1>1, <1>2, <1>3, <1>4, <1>5, <1>6, <1>7

LEMMA WireTyped ==
  ASSUME TypeOK, NEW c \in Conns, NEW i \in 1 .. Len(down[c])
  PROVE  /\ down[c][i] \in Message
         /\ down[c][i].seq \in Nat /\ down[c][i].truncated \in BOOLEAN
<1>1. down[c] \in Seq(Message)
  BY DEF TypeOK
<1>2. down[c][i] \in Message
  BY <1>1, ElementOfSeq
<1> QED
  BY <1>2, LenLog DEF Message

\* A connection that a step does not touch.
LEMMA OtherConn ==
  ASSUME NEW e \in Conns, ConnInv(e), conn'[e] = conn[e], log' = log,
         client.sock # e => client'.sock # e
  PROVE  ConnInv(e)'
BY DEF ConnInv, Base

\* The client on a connection that a step leaves alone, or only closes or
\* gives another event to send.
LEMMA OtherSocket ==
  ASSUME NEW e \in Conns, TypeOK, TypeOK', SocketInv(e),
         conn'[e].phase = conn[e].phase, conn[e].closed => conn'[e].closed,
         conn'[e].latestSent = conn[e].latestSent,
         conn'[e].acknowledged = conn[e].acknowledged,
         conn'[e].truncated = conn[e].truncated,
         conn'[e].nextSequence = conn[e].nextSequence,
         down'[e] = down[e], up'[e] = up[e], client' = client,
         first' >= first
  PROVE  SocketInv(e)'
<1>1. EntryInv(e)'
  BY DEF SocketInv, EntryInv
<1>2. AckInv(e)'
  BY DEF SocketInv, AckInv
<1>3. WireInv(e)'
  BY DEF SocketInv, WireInv, Gap, InFlight
<1>4. GapInv(e)'
  <2>1. first \in Nat /\ first' \in Nat /\ client.lastAck \in Nat /\ client'.lastAck = client.lastAck
    BY StateTyped DEF TypeOK, NextSeq
  <2>2. client.lastAck < first - 1 => client'.lastAck < first' - 1
    BY <2>1
  <2>3. (Gap(e)' <=> Gap(e)) /\ InFlight(e)' = InFlight(e)
    BY DEF Gap, InFlight
  <2> HIDE DEF Gap, InFlight
  <2> QED
    BY <2>2, <2>3 DEF SocketInv, GapInv
<1> QED
  BY <1>1, <1>2, <1>3, <1>4 DEF SocketInv

\* A step of c, its connection or the client on it, leaves the others alone.
LEMMA StepOf ==
  ASSUME IInv, NEW c \in Conns, TypeOK', log' = log, first' \in first .. NextSeq,
         \A e \in Conns \ {c} : conn'[e] = conn[e] /\ down'[e] = down[e] /\ up'[e] = up[e],
         client' = client \/ (client.sock \in {c, NoConn} /\ client'.sock \in {c, NoConn}),
         ConnInv(c)', client'.sock = c => SocketInv(c)',
         client'.sock # c => down'[c] = <<>> /\ up'[c] = <<>>,
         ShownInv'
  PROVE  IInv'
<1>1. \A e \in Conns : e # NoConn
  BY StreamAssumption DEF NoConn
<1>2. first' >= first
  BY LenLog DEF IInv, TypeOK
<1>3. \A e \in Conns \ {c} : client.sock # e => client'.sock # e
  BY <1>1
<1>4. QuietInv'
  BY <1>1, <1>3 DEF IInv, QuietInv
<1>5. ASSUME NEW e \in Conns PROVE ConnInv(e)'
  <2>1. CASE e = c
    BY <2>1
  <2>2. CASE e # c
    BY <1>3, <2>2, OtherConn DEF IInv
  <2> QED
    BY <2>1, <2>2
<1>6. ASSUME NEW e \in Conns, client'.sock = e PROVE SocketInv(e)'
  <2>1. CASE e = c
    BY <1>6, <2>1
  <2>2. CASE e # c
    <3>1. client' = client
      BY <1>1, <1>6, <2>2
    <3>2. SocketInv(e)
      BY <1>6, <3>1 DEF IInv
    <3> QED
      BY <1>2, <2>2, <3>1, <3>2, OtherSocket DEF IInv
  <2> QED
    BY <2>1, <2>2
<1> QED
  BY <1>4, <1>5, <1>6 DEF IInv

LEMMA HelloKeeps ==
  ASSUME IInv, NEW c \in Conns, Hello(c)
  PROVE  IInv'
<1> DEFINE k == conn[c]
           r == IF k.closed THEN Idle ELSE [k EXCEPT !.phase = "opening"]
<1>1. TypeOK /\ ConnInv(c) /\ (client.sock = c => SocketInv(c)) /\ k.phase = "accepted"
  BY DEF IInv, Hello
<1>2. /\ r \in Connection /\ Len(r.beforeReady) <= MaxUnack
      /\ conn' = [conn EXCEPT ![c] = r]
      /\ UNCHANGED <<log, first, down, up, client, shown, faults>>
      /\ TypeOK'
  BY <1>1, HelloDoes
<1>3. conn'[c] = r /\ \A e \in Conns \ {c} : conn'[e] = conn[e]
  BY <1>1, <1>2, ConnTyped
<1>4. k \in Connection
  BY <1>1, StateTyped
<1>5. ConnInv(c)' /\ (client'.sock = c => SocketInv(c)')
  <2>1. CASE k.closed
    <3>1. client.sock # c
      BY <1>1, <2>1 DEF ConnInv
    <3>2. conn'[c] = Idle
      BY <1>3, <2>1
    <3> QED
      BY <1>2, <3>1, <3>2 DEF ConnInv, Idle, Entering
  <2>2. CASE ~k.closed
    <3>1. conn'[c] = [k EXCEPT !.phase = "opening"]
      BY <1>3, <2>2
    <3>2. /\ conn'[c].phase = "opening" /\ conn'[c].closed = k.closed
          /\ conn'[c].listening = k.listening /\ conn'[c].beforeReady = k.beforeReady
          /\ conn'[c].sendQueue = k.sendQueue /\ conn'[c].latestSent = k.latestSent
          /\ conn'[c].acknowledged = k.acknowledged /\ conn'[c].truncated = k.truncated
          /\ conn'[c].nextSequence = k.nextSequence
      BY <1>4, <3>1 DEF Connection
    <3>3. ConnInv(c)'
      BY <1>1, <2>2, <3>2 DEF ConnInv, Entering
    <3>4. ASSUME client'.sock = c PROVE SocketInv(c)'
      <4>1. EntryInv(c)'
        BY <1>1, <1>2, <3>2, <3>4 DEF SocketInv, EntryInv, Entering
      <4>2. AckInv(c)'
        BY <1>1, <1>2, <3>2, <3>4 DEF SocketInv, AckInv
      <4>3. (Gap(c)' <=> Gap(c)) /\ InFlight(c)' = InFlight(c)
        BY <1>2 DEF Gap, InFlight
      <4>4. WireInv(c)'
        BY <1>1, <1>2, <3>2, <3>4, <4>3 DEF SocketInv, WireInv
      <4>5. GapInv(c)'
        BY <1>1, <1>2, <3>2, <3>4, <4>3 DEF SocketInv, GapInv
      <4> QED
        BY <4>1, <4>2, <4>4, <4>5 DEF SocketInv
    <3> QED
      BY <3>3, <3>4
  <2> QED
    BY <2>1, <2>2
<1>6. QuietInv /\ ShownInv' /\ first' \in first .. NextSeq
  BY <1>1, <1>2, StateTyped DEF IInv, ShownInv, Gapless!LastReceived
<1> HIDE DEF r
<1> QED
  BY <1>1, <1>2, <1>3, <1>5, <1>6, StepOf DEF QuietInv

\* StepOf for a step of the gateway.
LEMMA GatewayStepOf ==
  ASSUME IInv, NEW c \in Conns, NEW r \in Connection, Len(r.beforeReady) <= MaxUnack,
         conn' = [conn EXCEPT ![c] = r], TypeOK',
         log' = log, first' \in first .. NextSeq, client' = client, shown' = shown,
         \A e \in Conns \ {c} : down'[e] = down[e] /\ up'[e] = up[e],
         client.sock # c => down'[c] = down[c] /\ up'[c] = up[c],
         ConnInv(c)', client.sock = c => SocketInv(c)'
  PROVE  IInv'
<1>1. \A e \in Conns \ {c} : conn'[e] = conn[e]
  BY ConnTyped DEF IInv
<1>2. ShownInv'
  BY DEF IInv, ShownInv, Gapless!LastReceived
<1>3. client'.sock # c => down'[c] = <<>> /\ up'[c] = <<>>
  BY DEF IInv, QuietInv
<1> QED
  BY <1>1, <1>2, <1>3, StepOf

\* The step leaves first alone: the form in which it is used.
LEMMA FirstStays ==
  ASSUME TypeOK, first' = first
  PROVE  first' \in first .. NextSeq
BY LenLog DEF TypeOK

LEMMA OpenStreamKeeps ==
  ASSUME IInv, NEW c \in Conns, OpenStream(c)
  PROVE  IInv'
<1> DEFINE k == conn[c]
           r == [k EXCEPT !.phase = "opened", !.listening = TRUE,
                          !.truncated = k.acknowledged < first' - 1, !.nextSequence = NextSeq]
<1>1. TypeOK /\ ConnInv(c) /\ (client.sock = c => SocketInv(c)) /\ k.phase = "opening"
  BY DEF IInv, OpenStream
<1>2. /\ r \in Connection /\ Len(r.beforeReady) <= MaxUnack
      /\ conn' = [conn EXCEPT ![c] = r]
      /\ first' \in first .. NextSeq
      /\ UNCHANGED <<log, down, up, client, shown, faults>>
      /\ TypeOK'
  BY <1>1, OpenStreamDoes
<1>3. conn'[c] = r
  BY <1>1, <1>2, ConnTyped
<1>4. /\ k \in Connection /\ NextSeq = Len(log) + 1 /\ Len(log) \in Nat
      /\ k.latestSent \in 0 .. Len(log) /\ first' \in Nat
  BY <1>1, <1>2, StateTyped DEF TypeOK, NextSeq
<1>5. /\ conn'[c].phase = "opened" /\ conn'[c].closed = k.closed
      /\ conn'[c].listening = TRUE /\ conn'[c].beforeReady = k.beforeReady
      /\ conn'[c].sendQueue = k.sendQueue /\ conn'[c].latestSent = k.latestSent
      /\ conn'[c].acknowledged = k.acknowledged
      /\ conn'[c].truncated = (k.acknowledged < first' - 1)
      /\ conn'[c].nextSequence = Len(log) + 1
  BY <1>3, <1>4 DEF Connection
<1>6. ConnInv(c)'
  <2>1. k.beforeReady = <<>> /\ k.sendQueue = <<>> /\ k.latestSent = k.acknowledged /\ Len(<<>>) = 0
    BY <1>1, EmptySeq DEF ConnInv, Entering
  <2>2. k.closed => client.sock # c
    BY <1>1 DEF ConnInv
  <2> QED
    BY <1>2, <1>4, <1>5, <2>1, <2>2 DEF ConnInv, Entering
<1>7. ASSUME client.sock = c PROVE SocketInv(c)'
  <2>1. EntryInv(c)'
    BY <1>1, <1>2, <1>5, <1>7 DEF SocketInv, EntryInv, Entering
  <2>2. AckInv(c)'
    BY <1>1, <1>2, <1>5, <1>7 DEF SocketInv, AckInv
  <2>3. (Gap(c)' <=> Gap(c)) /\ InFlight(c)' = InFlight(c)
    BY <1>2 DEF Gap, InFlight
  <2>4. WireInv(c)'
    BY <1>1, <1>2, <1>5, <1>7, <2>3 DEF SocketInv, WireInv
  <2>5. GapInv(c)'
    <3>1. k.acknowledged = client.lastAck /\ ~Gap(c)
      BY <1>1, <1>7 DEF SocketInv, EntryInv, WireInv, Gap, Entering
    <3> QED
      BY <1>2, <1>5, <2>3, <3>1 DEF GapInv
  <2> QED
    BY <2>1, <2>2, <2>4, <2>5 DEF SocketInv
<1> HIDE DEF r
<1> QED
  BY <1>1, <1>2, <1>6, <1>7, GatewayStepOf

LEMMA SendSnapshotKeeps ==
  ASSUME IInv, NEW c \in Conns, SendSnapshot(c)
  PROVE  IInv'
<1> DEFINE k == conn[c]
           r == [k EXCEPT !.phase = "replay"]
           msg == Snapshot(k.truncated, k.nextSequence)
<1>1. TypeOK /\ ConnInv(c) /\ (client.sock = c => SocketInv(c)) /\ k.phase = "opened"
  BY DEF IInv, SendSnapshot
<1>2. /\ r \in Connection /\ Len(r.beforeReady) <= MaxUnack /\ msg \in Message
      /\ conn' = [conn EXCEPT ![c] = r]
      /\ down' = IF k.closed THEN down ELSE Send(c, msg)
      /\ UNCHANGED <<log, first, up, client, shown, faults>>
      /\ TypeOK'
  BY <1>1, SendSnapshotDoes
<1>3. conn'[c] = r
  BY <1>1, <1>2, ConnTyped
<1>4. /\ k \in Connection /\ k.latestSent \in 0 .. Len(log) /\ Len(log) \in Nat
      /\ k.nextSequence \in 1 .. Len(log) + 1 /\ client.lastAck \in Nat /\ k.closed \in BOOLEAN
  BY <1>1, StateTyped
<1>5. /\ conn'[c].phase = "replay" /\ conn'[c].closed = k.closed
      /\ conn'[c].listening = k.listening /\ conn'[c].beforeReady = k.beforeReady
      /\ conn'[c].sendQueue = k.sendQueue /\ conn'[c].latestSent = k.latestSent
      /\ conn'[c].acknowledged = k.acknowledged
      /\ conn'[c].truncated = k.truncated
      /\ conn'[c].nextSequence = k.nextSequence
  BY <1>3, <1>4 DEF Connection
<1>6. ConnInv(c)'
  BY <1>1, <1>2, <1>5 DEF ConnInv, Entering
<1>7. \A e \in Conns \ {c} : down'[e] = down[e] /\ up'[e] = up[e]
  <2>1. CASE k.closed
    BY <1>2, <2>1
  <2>2. CASE ~k.closed
    BY <1>1, <1>2, <2>2, SendDoes
  <2> QED
    BY <2>1, <2>2
<1>8. client.sock # c => down'[c] = down[c] /\ up'[c] = up[c]
  <2>1. CASE k.closed
    BY <1>2, <2>1
  <2>2. CASE ~k.closed
    BY <1>1, <1>2, <2>2, SendDoes
  <2> QED
    BY <2>1, <2>2
<1>9. ASSUME client.sock = c PROVE SocketInv(c)'
  <2>1. /\ down[c] = <<>> /\ Len(<<>>) = 0 /\ up[c] = <<>> /\ ~client.receivedSnapshot
        /\ k.acknowledged = client.lastAck /\ k.latestSent = k.acknowledged
        /\ k.latestSent < k.nextSequence
        /\ k.truncated => client.lastAck < first - 1
        /\ ~client.allowTruncatedGap
    BY <1>1, <1>9, EmptySeq DEF SocketInv, EntryInv, GapInv, WireInv, ConnInv, Entering
  <2>2. EntryInv(c)'
    BY <1>5 DEF EntryInv, Entering
  <2>3. AckInv(c)'
    BY <1>1, <1>2, <1>5, <1>9 DEF SocketInv, AckInv
  <2>4. CASE k.closed
    <3>1. down'[c] = <<>>
      BY <1>2, <2>1, <2>4
    <3>2. ~Gap(c)' /\ InFlight(c)' = 0
      BY <1>2, <2>1, <3>1 DEF Gap, InFlight
    <3>3. WireInv(c)'
      BY <1>2, <1>4, <1>5, <2>1, <2>4, <3>1, <3>2 DEF WireInv
    <3>4. GapInv(c)'
      BY <1>2, <1>5, <2>4, <3>2 DEF GapInv
    <3> QED
      BY <2>2, <2>3, <3>3, <3>4 DEF SocketInv
  <2>5. CASE ~k.closed
    <3>1. Len(down'[c]) = 1 /\ down'[c] # <<>> /\ down'[c][1] = msg
      <4> HIDE DEF msg
      <4>1. down' = Send(c, msg) /\ Len(down[c]) = 0
        BY <1>2, <2>1, <2>5
      <4>2. Len(down'[c]) = 0 + 1 /\ down'[c] # <<>> /\ down'[c][0 + 1] = msg
        BY <1>1, <1>2, <1>9, <4>1, SendDoes, ZenonT(60)
      <4> QED
        BY <4>2
    <3>2. msg.type = "snapshot" /\ msg.truncated = k.truncated /\ msg.seq = k.nextSequence
      BY DEF Snapshot
    <3> HIDE DEF msg
    <3>3. (Gap(c)' <=> k.truncated) /\ InFlight(c)' = 0
      BY <1>2, <2>1, <3>1, <3>2 DEF Gap, InFlight
    <3>4. WireInv(c)'
      BY <1>2, <1>4, <1>5, <2>1, <2>5, <3>1, <3>2, <3>3 DEF WireInv
    <3>5. GapInv(c)'
      BY <1>2, <1>5, <2>1, <3>3 DEF GapInv
    <3> QED
      BY <2>2, <2>3, <3>4, <3>5 DEF SocketInv
  <2> QED
    BY <2>4, <2>5
<1>10. first' \in first .. NextSeq
  BY <1>1, <1>2, FirstStays
<1> HIDE DEF r
<1> QED
  BY <1>1, <1>2, <1>6, <1>7, <1>8, <1>9, <1>10, GatewayStepOf

\* A connection that closes, or is closed and stops listening.
LEMMA CloseKeeps ==
  ASSUME IInv, NEW c \in Conns, NEW r,
         \/ r = [conn[c] EXCEPT !.closed = TRUE] /\ conn[c].phase \notin {"idle", "accepted", "opening"}
         \/ r = [conn[c] EXCEPT !.closed = TRUE] /\ client.sock # c
         \/ r = [conn[c] EXCEPT !.listening = FALSE] /\ conn[c].closed,
         r \in Connection, Len(r.beforeReady) <= MaxUnack,
         conn' = [conn EXCEPT ![c] = r],
         UNCHANGED <<log, first, down, up, client, shown>>, TypeOK'
  PROVE  IInv'
<1> DEFINE k == conn[c]
<1>1. TypeOK /\ ConnInv(c) /\ (client.sock = c => SocketInv(c)) /\ k \in Connection
  BY StateTyped DEF IInv
<1>3. conn'[c] = r
  BY <1>1, ConnTyped
<1>4. /\ conn'[c].phase = k.phase /\ conn'[c].closed = TRUE
      /\ conn'[c].listening => k.listening
      /\ conn'[c].beforeReady = k.beforeReady
      /\ conn'[c].sendQueue = k.sendQueue /\ conn'[c].latestSent = k.latestSent
      /\ conn'[c].acknowledged = k.acknowledged
      /\ conn'[c].truncated = k.truncated
      /\ conn'[c].nextSequence = k.nextSequence
  <2>1. CASE r = [k EXCEPT !.closed = TRUE]
    BY <1>1, <1>3, <2>1 DEF Connection
  <2>2. CASE r = [k EXCEPT !.listening = FALSE] /\ k.closed
    <3>1. k.closed = TRUE
      BY <1>1, <2>2 DEF Connection
    <3> QED
      BY <1>1, <1>3, <2>2, <3>1, k.listening \in BOOLEAN DEF Connection
  <2> QED
    BY <2>1, <2>2
<1>5. k.phase \in {"idle", "accepted", "opening"} => client.sock # c \/ k.closed
  OBVIOUS
<1>6. ConnInv(c)'
  BY <1>1, <1>4, <1>5 DEF ConnInv, Entering
<1>7. ASSUME client.sock = c PROVE SocketInv(c)'
  <2>1. EntryInv(c)'
    BY <1>1, <1>4, <1>7 DEF SocketInv, EntryInv
  <2>2. AckInv(c)'
    BY <1>1, <1>4, <1>7 DEF SocketInv, AckInv
  <2>3. (Gap(c)' <=> Gap(c)) /\ InFlight(c)' = InFlight(c)
    BY DEF Gap, InFlight
  <2>4. WireInv(c)'
    BY <1>1, <1>4, <1>7, <2>3 DEF SocketInv, WireInv
  <2>5. GapInv(c)'
    BY <1>1, <1>4, <1>7, <2>3 DEF SocketInv, GapInv
  <2> QED
    BY <2>1, <2>2, <2>4, <2>5 DEF SocketInv
<1>8. first' \in first .. NextSeq
  BY <1>1, FirstStays
<1> QED
  BY <1>6, <1>7, <1>8, GatewayStepOf

LEMMA OnCloseKeeps ==
  ASSUME IInv, NEW c \in Conns, OnClose(c)
  PROVE  IInv'
BY OnCloseDoes, CloseKeeps DEF IInv

LEMMA DetachKeeps ==
  ASSUME IInv, NEW c \in Conns, Detach(c)
  PROVE  IInv'
BY DetachDoes, CloseKeeps DEF IInv

LEMMA OverflowKeeps ==
  ASSUME IInv, NEW c \in Conns, Overflow(c), faults' \in 0 .. MaxFaults,
         conn[c].phase \in {"replay", "ready"}
  PROVE  IInv'
BY OverflowDoes, CloseKeeps, ZenonT(60) DEF IInv

LEMMA ForgetKeeps ==
  ASSUME IInv, NEW c \in Conns, Forget(c)
  PROVE  IInv'
<1>1. TypeOK
  BY DEF IInv
<1>2. /\ client.sock # c
      /\ Idle \in Connection /\ Len(Idle.beforeReady) <= MaxUnack
      /\ conn' = [conn EXCEPT ![c] = Idle]
      /\ UNCHANGED <<log, first, down, up, client, shown, faults>>
      /\ TypeOK'
  BY <1>1, ForgetDoes
<1>3. conn'[c] = Idle
  BY <1>1, <1>2, ConnTyped
<1>4. ConnInv(c)'
  BY <1>2, <1>3 DEF ConnInv, Idle, Entering
<1>5. first' \in first .. NextSeq
  BY <1>1, <1>2, FirstStays
<1> QED
  BY <1>2, <1>4, <1>5, GatewayStepOf

\* An open connection sends the event that follows the last one it sent, or
\* the first one behind a gap that the client has been told of.
LEMMA SentToClient ==
  ASSUME TypeOK, TypeOK', NEW c \in Conns, SocketInv(c), client.sock = c,
         ~conn[c].closed, conn[c].phase \in {"replay", "ready"},
         NEW msg \in Message, msg.type \in Kinds, NEW s \in Nat, msg.seq = s,
         down' = Send(c, msg), up' = up, client' = client, first' = first, log' = log,
         conn'[c].phase = conn[c].phase, conn'[c].closed = conn[c].closed,
         conn'[c].acknowledged = conn[c].acknowledged, conn'[c].latestSent = s,
         conn'[c].truncated = conn[c].truncated,
         conn'[c].nextSequence = conn[c].nextSequence,
         s = conn[c].latestSent + 1 \/ (s > conn[c].latestSent /\ Gap(c) /\ InFlight(c) = 0),
         conn[c].truncated => s >= conn[c].nextSequence - 1
  PROVE  SocketInv(c)'
<1> DEFINE k == conn[c]
           d == down[c]
           e == down'[c]
<1>1. /\ Len(d) \in Nat /\ k.latestSent \in Nat /\ k.acknowledged \in Nat /\ client.lastAck \in Nat
      /\ k.nextSequence \in Nat
      /\ d \in Seq(Message)
  BY StateTyped
<1>2. /\ Len(e) = Len(d) + 1 /\ e # <<>>
      /\ \A i \in 1 .. Len(d) : e[i] = d[i]
      /\ e[Len(d) + 1] = msg
  BY SendDoes
<1>3. msg.type # "snapshot"
  BY StreamAssumption
<1>4. ~client.receivedSnapshot => d # <<>> /\ Len(d) > 0
  <2>1. ~client.receivedSnapshot => d # <<>>
    BY DEF SocketInv, WireInv
  <2> QED
    BY <1>1, <2>1, EmptySeq
<1>5. Gap(c)' <=> Gap(c)
  <2>1. CASE client.receivedSnapshot
    BY <2>1 DEF Gap
  <2>2. CASE ~client.receivedSnapshot
    <3>1. 1 \in 1 .. Len(d)
      BY <1>1, <1>4, <2>2
    <3>2. e[1] = d[1]
      BY <1>2, <3>1
    <3> HIDE DEF d, e
    <3> QED
      BY <1>2, <1>4, <2>2, <3>2 DEF Gap, d, e
  <2> QED
    BY <2>1, <2>2
<1>6. InFlight(c)' = InFlight(c) + 1 /\ InFlight(c) \in Nat
  <2>1. CASE client.receivedSnapshot
    BY <1>1, <1>2, <2>1 DEF InFlight
  <2>2. CASE ~client.receivedSnapshot
    BY <1>1, <1>2, <1>4, <2>2 DEF InFlight
  <2> QED
    BY <2>1, <2>2
<1>7. EntryInv(c)'
  BY DEF EntryInv, Entering
<1>8. AckInv(c)'
  BY <1>1 DEF SocketInv, AckInv
<1>9. WireInv(c)'
  <2>1. /\ ~client.receivedSnapshot => ~client.allowTruncatedGap
        /\ \A i \in 1 .. Len(d) : d[i].type = "snapshot" <=> i = 1 /\ ~client.receivedSnapshot
        /\ ~client.receivedSnapshot /\ d # <<>> => d[1].seq > client.lastAck
        /\ \A i \in 1 .. Len(d) : d[i].type # "snapshot" => d[i].seq = k.latestSent - Len(d) + i
        /\ client.lastAck <= k.latestSent - InFlight(c)
        /\ InFlight(c) = 0 \/ ~Gap(c) => client.lastAck = k.latestSent - InFlight(c)
    BY DEF SocketInv, WireInv
  <2> HIDE DEF d, e
  <2>2. \A i \in 1 .. Len(e) : e[i].type = "snapshot" <=> i = 1 /\ ~client.receivedSnapshot
    <3> SUFFICES ASSUME NEW i \in 1 .. Len(e)
                 PROVE  e[i].type = "snapshot" <=> i = 1 /\ ~client.receivedSnapshot
      OBVIOUS
    <3>1. CASE i = Len(d) + 1
      <4>1. ~client.receivedSnapshot => i # 1
        BY <1>1, <1>4, <3>1
      <4> QED
        BY <1>2, <1>3, <3>1, <4>1
    <3>2. CASE i \in 1 .. Len(d)
      BY <1>2, <2>1, <3>2
    <3> QED
      BY <1>1, <1>2, <3>1, <3>2
  <2>3. ~client.receivedSnapshot => e[1].seq > client.lastAck
    <3> SUFFICES ASSUME ~client.receivedSnapshot PROVE e[1].seq > client.lastAck
      OBVIOUS
    <3>1. 1 \in 1 .. Len(d)
      BY <1>1, <1>4
    <3> QED
      BY <1>2, <1>4, <2>1, <3>1
  <2>4. \A i \in 1 .. Len(e) : e[i].type # "snapshot" => e[i].seq = s - Len(e) + i
    <3> SUFFICES ASSUME NEW i \in 1 .. Len(e), e[i].type # "snapshot"
                 PROVE  e[i].seq = s - Len(e) + i
      OBVIOUS
    <3>1. CASE i = Len(d) + 1
      BY <1>1, <1>2, <3>1
    <3>2. CASE i \in 1 .. Len(d)
      <4>1. e[i] = d[i] /\ d[i].seq = k.latestSent - Len(d) + i
        BY <1>2, <2>1, <3>2
      <4>2. s = k.latestSent + 1
        <5>1. InFlight(c) = 0 => FALSE
          <6> SUFFICES ASSUME InFlight(c) = 0 PROVE FALSE
            OBVIOUS
          <6>1. ~client.receivedSnapshot /\ Len(d) = 1
            <7>1. d # <<>>
              BY <1>1, <3>2, EmptySeq
            <7> QED
              BY <1>1, <3>2, <7>1 DEF InFlight, d
          <6>2. i = 1
            BY <3>2, <6>1
          <6> QED
            BY <2>2, <6>1, <6>2
        <5> QED
          BY <5>1
      <4> QED
        BY <1>1, <1>2, <3>2, <4>1, <4>2
    <3> QED
      BY <1>1, <1>2, <3>1, <3>2
  <2>5. client.lastAck <= s - InFlight(c)'
    <3>1. CASE s = k.latestSent + 1
      BY <1>1, <1>6, <2>1, <3>1, SMTT(20)
    <3>2. CASE s > k.latestSent /\ InFlight(c) = 0
      BY <1>1, <1>6, <2>1, <3>2
    <3> QED
      BY <3>1, <3>2
  <2>6. InFlight(c)' = 0 \/ ~Gap(c)' => client.lastAck = s - InFlight(c)'
    <3> SUFFICES ASSUME ~Gap(c) PROVE client.lastAck = s - InFlight(c)'
      BY <1>5, <1>6
    <3>1. s = k.latestSent + 1
      OBVIOUS
    <3> QED
      BY <1>1, <1>6, <2>1, <3>1, SMTT(20)
  <2> QED
    BY <1>2, <2>1, <2>2, <2>3, <2>4, <2>5, <2>6 DEF WireInv, e
<1>10. GapInv(c)'
  <2>1. ~(conn'[c].truncated /\ conn'[c].latestSent < conn'[c].nextSequence - 1)
    BY <1>1
  <2> QED
    BY <1>5, <2>1 DEF SocketInv, GapInv
<1> QED
  BY <1>7, <1>8, <1>9, <1>10 DEF SocketInv

LEMMA SendReplayKeeps ==
  ASSUME IInv, NEW c \in Conns, SendReplay(c)
  PROVE  IInv'
<1> DEFINE k == conn[c]
           r == [k EXCEPT !.latestSent = k.latestSent + 1]
           msg == Event(k.latestSent + 1)
<1>1. TypeOK /\ ConnInv(c) /\ (client.sock = c => SocketInv(c))
  BY DEF IInv
<1>2. /\ k.phase = "replay" /\ ~k.closed
      /\ ~k.truncated /\ k.latestSent < k.nextSequence - 1
      /\ TypeOK'
      /\ \/ /\ r \in Connection /\ Len(r.beforeReady) <= MaxUnack
            /\ msg \in Message /\ msg.seq = k.latestSent + 1 /\ msg.type \in Kinds
            /\ conn' = [conn EXCEPT ![c] = r]
            /\ down' = Send(c, msg)
            /\ UNCHANGED <<log, first, up, client, shown, faults>>
         \/ Overflow(c) /\ faults' \in 0 .. MaxFaults
  BY <1>1, SendReplayDoes
<1>3. CASE Overflow(c) /\ faults' \in 0 .. MaxFaults
  BY <1>2, <1>3, OverflowKeeps
<1>4. CASE /\ r \in Connection /\ Len(r.beforeReady) <= MaxUnack
           /\ msg \in Message /\ msg.seq = k.latestSent + 1 /\ msg.type \in Kinds
           /\ conn' = [conn EXCEPT ![c] = r]
           /\ down' = Send(c, msg)
           /\ UNCHANGED <<log, first, up, client, shown, faults>>
  <2>1. conn'[c] = r
    BY <1>1, <1>4, ConnTyped
  <2>2. /\ k \in Connection /\ k.latestSent \in Nat /\ k.nextSequence \in Nat
    BY <1>1, StateTyped
  <2>3. /\ conn'[c].phase = k.phase /\ conn'[c].closed = k.closed
        /\ conn'[c].listening = k.listening /\ conn'[c].beforeReady = k.beforeReady
        /\ conn'[c].sendQueue = k.sendQueue /\ conn'[c].latestSent = k.latestSent + 1
        /\ conn'[c].acknowledged = k.acknowledged
        /\ conn'[c].truncated = k.truncated
        /\ conn'[c].nextSequence = k.nextSequence
    BY <2>1, <2>2 DEF Connection
  <2>4. ConnInv(c)'
    BY <1>1, <1>2, <1>4, <2>2, <2>3 DEF ConnInv, Entering
  <2>5. client.sock = c => SocketInv(c)'
    <3> HIDE DEF msg, r
    <3>1. k.latestSent + 1 \in Nat
      BY <2>2
    <3> QED
      BY <1>1, <1>2, <1>4, <2>3, <3>1, SentToClient
  <2>6. /\ \A e \in Conns \ {c} : down'[e] = down[e] /\ up'[e] = up[e]
        /\ client.sock # c => down'[c] = down[c] /\ up'[c] = up[c]
    <3> HIDE DEF msg
    <3> QED
      BY <1>1, <1>4, SendDoes
  <2>7. first' \in first .. NextSeq
    BY <1>1, <1>4, FirstStays
  <2> HIDE DEF r
  <2> QED
    BY <1>2, <1>4, <2>4, <2>5, <2>6, <2>7, GatewayStepOf
<1> QED
  BY <1>2, <1>3, <1>4

LEMMA BecomeReadyKeeps ==
  ASSUME IInv, NEW c \in Conns, BecomeReady(c)
  PROVE  IInv'
<1> DEFINE k == conn[c]
           q == IF k.closed THEN <<>> ELSE k.beforeReady
           r == [k EXCEPT !.phase = "ready", !.beforeReady = <<>>, !.sendQueue = q]
<1>1. TypeOK /\ ConnInv(c) /\ (client.sock = c => SocketInv(c))
  BY DEF IInv
<1>2. /\ k.phase = "replay"
      /\ k.closed \/ k.truncated \/ k.latestSent >= k.nextSequence - 1
      /\ r \in Connection /\ Len(r.beforeReady) <= MaxUnack
      /\ conn' = [conn EXCEPT ![c] = r]
      /\ UNCHANGED <<log, first, down, up, client, shown, faults>>
      /\ TypeOK'
  BY <1>1, BecomeReadyDoes
<1>3. conn'[c] = r
  BY <1>1, <1>2, ConnTyped
<1>4. /\ k \in Connection /\ k.latestSent \in Nat /\ k.nextSequence \in Nat
      /\ Len(k.beforeReady) \in Nat
  BY <1>1, StateTyped
<1>5. /\ conn'[c].phase = "ready" /\ conn'[c].closed = k.closed
      /\ conn'[c].listening = k.listening /\ conn'[c].beforeReady = <<>>
      /\ conn'[c].sendQueue = q /\ conn'[c].latestSent = k.latestSent
      /\ conn'[c].acknowledged = k.acknowledged
      /\ conn'[c].truncated = k.truncated
      /\ conn'[c].nextSequence = k.nextSequence
  BY <1>3, <1>4 DEF Connection
<1>6. ConnInv(c)'
  <2>1. CASE k.closed
    BY <1>5, <2>1 DEF ConnInv, Entering
  <2>2. CASE ~k.closed
    <3>1. /\ k.listening /\ k.latestSent < k.nextSequence
          /\ Len(log) = k.nextSequence - 1 + Len(k.beforeReady)
          /\ \A i \in 1 .. Len(k.beforeReady) : k.beforeReady[i] = k.nextSequence - 1 + i
      BY <1>1, <1>2, <2>2 DEF ConnInv
    <3>2. Base(conn'[c]) = k.nextSequence - 1 /\ conn'[c].sendQueue = k.beforeReady
      BY <1>4, <1>5, <2>2, <3>1 DEF Base
    <3>3. k.truncated \/ ~(k.latestSent < k.nextSequence - 1)
      BY <1>2, <1>4, <2>2
    <3> HIDE DEF k
    <3> QED
      BY <1>2, <1>5, <2>2, <3>1, <3>2, <3>3 DEF ConnInv, Entering
  <2> QED
    BY <2>1, <2>2
<1>7. ASSUME client.sock = c PROVE SocketInv(c)'
  <2>1. EntryInv(c)'
    BY <1>5 DEF EntryInv, Entering
  <2>2. AckInv(c)'
    BY <1>1, <1>2, <1>5, <1>7 DEF SocketInv, AckInv
  <2>3. (Gap(c)' <=> Gap(c)) /\ InFlight(c)' = InFlight(c)
    BY <1>2 DEF Gap, InFlight
  <2>4. WireInv(c)'
    BY <1>1, <1>2, <1>5, <1>7, <2>3 DEF SocketInv, WireInv
  <2>5. GapInv(c)'
    BY <1>1, <1>2, <1>5, <1>7, <2>3 DEF SocketInv, GapInv
  <2> QED
    BY <2>1, <2>2, <2>4, <2>5 DEF SocketInv
<1>8. first' \in first .. NextSeq
  BY <1>1, <1>2, FirstStays
<1> HIDE DEF r
<1> QED
  BY <1>2, <1>6, <1>7, <1>8, GatewayStepOf

LEMMA SendLiveKeeps ==
  ASSUME IInv, NEW c \in Conns, SendLive(c)
  PROVE  IInv'
<1> DEFINE k == conn[c]
           s == Head(k.sendQueue)
           r == [k EXCEPT !.latestSent = s, !.sendQueue = Tail(k.sendQueue)]
<1>1. TypeOK /\ ConnInv(c) /\ (client.sock = c => SocketInv(c))
  BY DEF IInv
<1>2. /\ k \in Connection /\ k.latestSent \in Nat /\ k.nextSequence \in Nat
      /\ Len(k.sendQueue) \in Nat
  BY <1>1, StateTyped
<1>3. /\ k.phase = "ready" /\ ~k.closed /\ k.sendQueue # <<>>
      /\ k.sendQueue \in Seq(1 .. Len(log)) /\ s \in 1 .. Len(log)
      /\ TypeOK'
      /\ \/ /\ s > k.latestSent
            /\ r \in Connection /\ Len(r.beforeReady) <= MaxUnack
            /\ Event(s) \in Message /\ Event(s).seq = s /\ Event(s).type \in Kinds
            /\ conn' = [conn EXCEPT ![c] = r]
            /\ down' = Send(c, Event(s))
            /\ UNCHANGED <<log, first, up, client, shown, faults>>
         \/ s <= k.latestSent
         \/ Overflow(c) /\ faults' \in 0 .. MaxFaults
  BY <1>1, SendLiveDoes
<1>4. /\ s = Base(k) + 1 /\ Base(k) \in Nat
      /\ Base(k) >= k.latestSent /\ Base(k) >= k.nextSequence - 1
      /\ Len(log) = Base(k) + Len(k.sendQueue)
      /\ Len(Tail(k.sendQueue)) = Len(k.sendQueue) - 1
      /\ \A i \in 1 .. Len(k.sendQueue) - 1 : Tail(k.sendQueue)[i] = k.sendQueue[i + 1]
  <2>1. Base(k) \in Nat /\ Base(k) >= k.latestSent /\ Base(k) >= k.nextSequence - 1
    <3>1. k.nextSequence >= 1
      BY <1>1, StateTyped
    <3> QED
      BY <1>2, <3>1 DEF Base
  <2>2. /\ Len(log) = Base(k) + Len(k.sendQueue)
        /\ \A i \in 1 .. Len(k.sendQueue) : k.sendQueue[i] = Base(k) + i
    BY <1>1, <1>3 DEF ConnInv
  <2>3. /\ Len(k.sendQueue) \in Nat \ {0} /\ s = k.sendQueue[1]
        /\ Len(Tail(k.sendQueue)) = Len(k.sendQueue) - 1
        /\ \A i \in 1 .. Len(k.sendQueue) - 1 : Tail(k.sendQueue)[i] = k.sendQueue[i + 1]
    BY <1>3, TailDoes
  <2>4. 1 \in 1 .. Len(k.sendQueue)
    BY <2>3
  <2> QED
    BY <2>1, <2>2, <2>3, <2>4
<1>5. ~(s <= k.latestSent)
  BY <1>2, <1>4
<1>6. CASE Overflow(c) /\ faults' \in 0 .. MaxFaults
  BY <1>3, <1>6, OverflowKeeps
<1>7. CASE /\ s > k.latestSent
           /\ r \in Connection /\ Len(r.beforeReady) <= MaxUnack
           /\ Event(s) \in Message /\ Event(s).seq = s /\ Event(s).type \in Kinds
           /\ conn' = [conn EXCEPT ![c] = r]
           /\ down' = Send(c, Event(s))
           /\ UNCHANGED <<log, first, up, client, shown, faults>>
  <2>1. conn'[c] = r
    BY <1>1, <1>7, ConnTyped
  <2>2. s \in Nat
    BY <1>3
  <2>3. /\ conn'[c].phase = k.phase /\ conn'[c].closed = k.closed
        /\ conn'[c].listening = k.listening /\ conn'[c].beforeReady = k.beforeReady
        /\ conn'[c].sendQueue = Tail(k.sendQueue) /\ conn'[c].latestSent = s
        /\ conn'[c].acknowledged = k.acknowledged
        /\ conn'[c].truncated = k.truncated
        /\ conn'[c].nextSequence = k.nextSequence
    BY <1>2, <2>1 DEF Connection
  <2>4. ConnInv(c)'
    <3> DEFINE q == k.sendQueue
               t == Tail(q)
    <3>1. Base(conn'[c]) = Base(k) + 1 /\ ~(conn'[c].latestSent < conn'[c].nextSequence - 1)
      <4>1. ~(s < k.nextSequence - 1)
        BY <1>2, <1>4, <2>2
      <4> QED
        BY <1>4, <2>3, <4>1 DEF Base
    <3>2. Len(log) = Base(k) + 1 + Len(t)
      BY <1>2, <1>4
    <3>3. \A i \in 1 .. Len(t) : t[i] = Base(k) + 1 + i
      <4>1. \A i \in 1 .. Len(q) : q[i] = Base(k) + i
        BY <1>1, <1>3 DEF ConnInv
      <4>2. \A i \in 1 .. Len(t) : i + 1 \in 1 .. Len(q) /\ t[i] = q[i + 1]
        BY <1>2, <1>4
      <4> HIDE DEF q, t
      <4>3. \A i \in 1 .. Len(t) : t[i] = Base(k) + (i + 1)
        BY <4>1, <4>2
      <4> QED
        BY <1>4, <4>3
    <3> HIDE DEF q, t
    <3>4. conn'[c].sendQueue = t
      BY <2>3 DEF q, t
    <3> QED
      BY <1>1, <1>3, <1>7, <2>3, <3>1, <3>2, <3>3, <3>4 DEF ConnInv, Entering
  <2>5. ASSUME client.sock = c PROVE SocketInv(c)'
    <3>1. s = k.latestSent + 1 \/ (s > k.latestSent /\ Gap(c) /\ InFlight(c) = 0)
      <4>1. CASE k.latestSent < k.nextSequence - 1
        <5>1. k.truncated
          BY <1>1, <1>3, <4>1 DEF ConnInv
        <5> QED
          BY <1>1, <1>3, <1>7, <2>5, <4>1, <5>1 DEF SocketInv, GapInv
      <4>2. CASE ~(k.latestSent < k.nextSequence - 1)
        BY <1>4, <4>2 DEF Base
      <4> QED
        BY <4>1, <4>2
    <3>2. s >= k.nextSequence - 1
      BY <1>2, <1>4, <2>2
    <3> HIDE DEF r, s
    <3> QED
      BY <1>1, <1>3, <1>7, <2>2, <2>3, <2>5, <3>1, <3>2, SentToClient
  <2>6. /\ \A e \in Conns \ {c} : down'[e] = down[e] /\ up'[e] = up[e]
        /\ client.sock # c => down'[c] = down[c] /\ up'[c] = up[c]
    <3> HIDE DEF s
    <3> QED
      BY <1>1, <1>7, SendDoes
  <2>7. first' \in first .. NextSeq
    BY <1>1, <1>7, FirstStays
  <2> HIDE DEF r
  <2> QED
    BY <1>3, <1>7, <2>4, <2>5, <2>6, <2>7, GatewayStepOf
<1> QED
  BY <1>3, <1>5, <1>6, <1>7

LEMMA AcknowledgeKeeps ==
  ASSUME IInv, NEW c \in Conns, Acknowledge(c)
  PROVE  IInv'
<1> DEFINE k == conn[c]
           s == Head(up[c])
           r == [k EXCEPT !.acknowledged = s]
<1>1. TypeOK /\ ConnInv(c) /\ (client.sock = c => SocketInv(c))
  BY DEF IInv
<1>2. /\ k \in Connection /\ k.latestSent \in Nat /\ k.acknowledged \in Nat
      /\ client.lastAck \in Nat
  BY <1>1, StateTyped
<1>3. /\ k.phase = "ready" /\ ~k.closed /\ up[c] # <<>>
      /\ up[c] \in Seq(0 .. Len(log)) /\ s \in 0 .. Len(log)
      /\ up' = [up EXCEPT ![c] = Tail(up[c])]
      /\ \/ /\ k.acknowledged <= s /\ s <= k.latestSent
            /\ r \in Connection /\ Len(r.beforeReady) <= MaxUnack
            /\ conn' = [conn EXCEPT ![c] = r]
         \/ s < k.acknowledged \/ s > k.latestSent
      /\ UNCHANGED <<log, first, down, client, shown, faults>>
      /\ TypeOK'
  BY <1>1, AcknowledgeDoes
<1>4. client.sock = c
  BY <1>3 DEF IInv, QuietInv
<1>5. SocketInv(c)
  BY <1>1, <1>4
<1>6. /\ s = up[c][1] /\ Len(up[c]) \in Nat \ {0} /\ Len(Tail(up[c])) = Len(up[c]) - 1
      /\ \A i \in 1 .. Len(up[c]) - 1 : Tail(up[c])[i] = up[c][i + 1]
      /\ \A i \in 1 .. Len(up[c]) : up[c][i] \in Nat
  <2>1. \A i \in 1 .. Len(up[c]) : up[c][i] \in 0 .. Len(log)
    BY <1>3, ElementOfSeq
  <2> QED
    BY <1>3, <2>1, TailDoes
<1>7. 1 \in 1 .. Len(up[c])
  BY <1>6
<1>8. k.acknowledged <= s /\ s <= client.lastAck /\ client.lastAck <= k.latestSent /\ s \in Nat
  BY <1>5, <1>6, <1>7 DEF SocketInv, AckInv
<1>9. r \in Connection /\ Len(r.beforeReady) <= MaxUnack /\ conn' = [conn EXCEPT ![c] = r]
  BY <1>2, <1>3, <1>8
<1>10. conn'[c] = r
  BY <1>1, <1>9, ConnTyped
<1>11. /\ conn'[c].phase = k.phase /\ conn'[c].closed = k.closed
       /\ conn'[c].listening = k.listening /\ conn'[c].beforeReady = k.beforeReady
       /\ conn'[c].sendQueue = k.sendQueue /\ conn'[c].latestSent = k.latestSent
       /\ conn'[c].acknowledged = s
       /\ conn'[c].truncated = k.truncated
       /\ conn'[c].nextSequence = k.nextSequence
  BY <1>2, <1>10 DEF Connection
<1>12. ConnInv(c)'
  BY <1>1, <1>3, <1>11 DEF ConnInv, Entering, Base
<1>13. up'[c] = Tail(up[c])
  BY <1>1, <1>3 DEF TypeOK
<1>14. AckInv(c)'
  <2> DEFINE u == up[c]
             t == Tail(up[c])
  <2>1. /\ \A i \in 1 .. Len(u) : u[i] <= client.lastAck
        /\ \A i, j \in 1 .. Len(u) : i <= j => u[i] <= u[j]
    BY <1>5 DEF SocketInv, AckInv
  <2>2. \A i \in 1 .. Len(t) : i + 1 \in 1 .. Len(u) /\ t[i] = u[i + 1]
    BY <1>6
  <2>3. client.receivedSnapshot
    BY <1>3, <1>5 DEF SocketInv, AckInv
  <2>4. s = u[1] /\ 1 \in 1 .. Len(u)
    BY <1>6, <1>7
  <2> HIDE DEF u, t, s
  <2>5. \A i \in 1 .. Len(t) : s <= t[i] /\ t[i] <= client.lastAck
    BY <2>1, <2>2, <2>4
  <2>6. \A i, j \in 1 .. Len(t) : i <= j => t[i] <= t[j]
    BY <2>1, <2>2
  <2> QED
    BY <1>3, <1>8, <1>11, <1>13, <2>3, <2>5, <2>6 DEF AckInv, t
<1>15. EntryInv(c)'
  BY <1>3, <1>11 DEF EntryInv, Entering
<1>16. (Gap(c)' <=> Gap(c)) /\ InFlight(c)' = InFlight(c)
  BY <1>3 DEF Gap, InFlight
<1>17. WireInv(c)' /\ GapInv(c)'
  BY <1>3, <1>5, <1>11, <1>16 DEF SocketInv, WireInv, GapInv
<1>18. \A e \in Conns \ {c} : down'[e] = down[e] /\ up'[e] = up[e]
  BY <1>1, <1>3 DEF TypeOK
<1>19. first' \in first .. NextSeq
  BY <1>1, <1>3, FirstStays
<1>20. SocketInv(c)'
  BY <1>14, <1>15, <1>17 DEF SocketInv
<1> HIDE DEF r, s
<1> QED
  BY <1>3, <1>4, <1>9, <1>12, <1>18, <1>19, <1>20, GatewayStepOf

LEMMA OpenKeeps ==
  ASSUME IInv, NEW c \in Conns, Open(c)
  PROVE  IInv'
<1> DEFINE r == [Idle EXCEPT !.phase = "accepted", !.closed = FALSE,
                             !.latestSent = client.lastAck, !.acknowledged = client.lastAck]
<1>1. TypeOK /\ ConnInv(c) /\ client.lastAck \in Nat
  BY StateTyped DEF IInv
<1>2. /\ client.sock = NoConn /\ c # NoConn
      /\ r \in Connection /\ Len(r.beforeReady) <= MaxUnack
      /\ conn' = [conn EXCEPT ![c] = r]
      /\ client' = [sock |-> c, lastAck |-> client.lastAck,
                    receivedSnapshot |-> FALSE, allowTruncatedGap |-> FALSE]
      /\ UNCHANGED <<log, first, down, up, shown, faults>>
      /\ TypeOK'
  BY <1>1, OpenDoes
<1>3. conn'[c] = r /\ \A e \in Conns \ {c} : conn'[e] = conn[e]
  BY <1>1, <1>2, ConnTyped
<1>4. /\ conn'[c].phase = "accepted" /\ conn'[c].closed = FALSE
      /\ conn'[c].listening = FALSE /\ conn'[c].beforeReady = <<>>
      /\ conn'[c].sendQueue = <<>> /\ conn'[c].latestSent = client.lastAck
      /\ conn'[c].acknowledged = client.lastAck
      /\ conn'[c].truncated = FALSE /\ conn'[c].nextSequence = 1
  BY <1>3 DEF Idle
<1>5. down'[c] = <<>> /\ up'[c] = <<>> /\ Len(<<>>) = 0
  BY <1>2, EmptySeq DEF IInv, QuietInv
<1>6. /\ client'.sock = c /\ client'.lastAck = client.lastAck
      /\ ~client'.receivedSnapshot /\ ~client'.allowTruncatedGap
  BY <1>2
<1>7. ConnInv(c)'
  BY <1>4 DEF ConnInv, Entering
<1>8. SocketInv(c)'
  <2>1. ~Gap(c)' /\ InFlight(c)' = 0
    BY <1>5, <1>6 DEF Gap, InFlight
  <2>2. EntryInv(c)' /\ AckInv(c)'
    BY <1>1, <1>4, <1>5, <1>6 DEF EntryInv, AckInv
  <2>3. WireInv(c)' /\ GapInv(c)'
    BY <1>1, <1>4, <1>5, <1>6, <2>1 DEF WireInv, GapInv
  <2> QED
    BY <2>2, <2>3 DEF SocketInv
<1>9. ShownInv' /\ first' \in first .. NextSeq
  BY <1>1, <1>2, <1>6, FirstStays DEF IInv, ShownInv, Gapless!LastReceived
<1> QED
  BY <1>2, <1>3, <1>6, <1>7, <1>8, <1>9, StepOf

\* The messages behind the first one.
LEMMA Behind ==
  ASSUME TypeOK, NEW c \in Conns, SocketInv(c), down[c] # <<>>, NEW d, d = Tail(down[c])
  PROVE  /\ d \in Seq(Message) /\ Len(d) \in Nat /\ Len(down[c]) = Len(d) + 1
         /\ \A i \in 1 .. Len(d) :
                d[i].type # "snapshot" /\ d[i].seq = conn[c].latestSent - Len(d) + i
         /\ client.receivedSnapshot <=> down[c][1].type # "snapshot"
         /\ client.receivedSnapshot => down[c][1].seq = conn[c].latestSent - Len(d)
         /\ conn[c].phase \notin Entering
<1> DEFINE b == down[c]
<1>1. /\ Len(b) \in Nat \ {0} /\ d \in Seq(Message) /\ Len(d) = Len(b) - 1
      /\ \A i \in 1 .. Len(b) - 1 : d[i] = b[i + 1]
  BY NextMessage
<1>2. conn[c].latestSent \in Nat
  BY StateTyped
<1>3. /\ \A i \in 1 .. Len(b) : b[i].type = "snapshot" <=> i = 1 /\ ~client.receivedSnapshot
      /\ \A i \in 1 .. Len(b) : b[i].type # "snapshot" => b[i].seq = conn[c].latestSent - Len(b) + i
  BY DEF SocketInv, WireInv
<1>4. conn[c].phase \notin Entering
  BY DEF SocketInv, EntryInv
<1> HIDE DEF b
<1>5. \A i \in 1 .. Len(d) : i + 1 \in 1 .. Len(b) /\ i + 1 # 1 /\ d[i] = b[i + 1]
  BY <1>1
<1>6. \A i \in 1 .. Len(d) : d[i].type # "snapshot" /\ d[i].seq = conn[c].latestSent - Len(b) + (i + 1)
  BY <1>3, <1>5
<1>7. \A i \in 1 .. Len(d) : conn[c].latestSent - Len(b) + (i + 1) = conn[c].latestSent - Len(d) + i
  <2> DEFINE m == conn[c].latestSent
             x == Len(b)
             y == Len(d)
  <2>1. m \in Nat /\ x \in Nat /\ y = x - 1
    BY <1>1, <1>2
  <2> HIDE DEF m, x, y
  <2>2. \A i \in 1 .. y : m - x + (i + 1) = m - y + i
    BY <2>1
  <2> QED
    BY <2>2 DEF m, x, y
<1>8. 1 \in 1 .. Len(b)
  BY <1>1
<1>9. b[1].type # "snapshot" => b[1].seq = conn[c].latestSent - Len(d)
  BY <1>1, <1>2, <1>3, <1>8
<1>10. client.receivedSnapshot <=> b[1].type # "snapshot"
  BY <1>3, <1>8
<1>11. Len(d) \in Nat /\ Len(b) = Len(d) + 1
  BY <1>1
<1> QED
  BY <1>1, <1>4, <1>6, <1>7, <1>9, <1>10, <1>11 DEF b

LEMMA ReceiveSnapshotKeeps ==
  ASSUME IInv, NEW c \in Conns, ReceiveSnapshot(c)
  PROVE  IInv'
<1> DEFINE k == conn[c]
           d == Tail(down[c])
           msg == down[c][1]
<1>1. TypeOK /\ ConnInv(c)
  BY DEF IInv
<1>2. /\ client.sock = c /\ down[c] # <<>> /\ msg.type = "snapshot"
      /\ msg.truncated \in BOOLEAN
      /\ client' = [sock |-> c, lastAck |-> client.lastAck,
                    receivedSnapshot |-> TRUE, allowTruncatedGap |-> msg.truncated]
      /\ down' = [down EXCEPT ![c] = d]
      /\ UNCHANGED <<log, first, conn, up, shown, faults>>
      /\ TypeOK'
  BY <1>1, ReceiveSnapshotDoes
<1>3. SocketInv(c)
  BY <1>2 DEF IInv
<1>4. down'[c] = d /\ \A e \in Conns \ {c} : down'[e] = down[e]
  BY <1>1, <1>2 DEF TypeOK
<1>5. /\ Len(d) \in Nat /\ Len(down[c]) = Len(d) + 1
      /\ \A i \in 1 .. Len(d) : d[i].type # "snapshot" /\ d[i].seq = k.latestSent - Len(d) + i
      /\ ~client.receivedSnapshot /\ k.phase \notin Entering
  BY <1>1, <1>2, <1>3, Behind
<1>6. /\ client'.sock = c /\ client'.lastAck = client.lastAck
      /\ client'.receivedSnapshot /\ client'.allowTruncatedGap = msg.truncated
  BY <1>2
<1> HIDE DEF d
<1>7. (Gap(c)' <=> Gap(c)) /\ InFlight(c)' = InFlight(c) /\ InFlight(c) = Len(d)
  BY <1>2, <1>4, <1>5, <1>6 DEF Gap, InFlight
<1>8. EntryInv(c)'
  BY <1>2, <1>5 DEF EntryInv
<1>9. AckInv(c)'
  BY <1>2, <1>3, <1>6 DEF SocketInv, AckInv
<1>10. WireInv(c)'
  BY <1>2, <1>3, <1>4, <1>5, <1>6, <1>7 DEF SocketInv, WireInv
<1>11. GapInv(c)'
  BY <1>2, <1>3, <1>6, <1>7 DEF SocketInv, GapInv
<1>12. ConnInv(c)'
  BY <1>1, <1>2, <1>6 DEF ConnInv, Base
<1>13. ShownInv' /\ first' \in first .. NextSeq
  BY <1>1, <1>2, <1>6, FirstStays DEF IInv, ShownInv, Gapless!LastReceived
<1>14. SocketInv(c)'
  BY <1>8, <1>9, <1>10, <1>11 DEF SocketInv
<1> QED
  BY <1>2, <1>4, <1>6, <1>12, <1>13, <1>14, StepOf

\* An event that is received is new: it follows the acknowledgement, or a gap
\* of the log, and the client says so.
LEMMA ReceivedIsNew ==
  ASSUME TypeOK, NEW c \in Conns, SocketInv(c), down[c] # <<>>, NEW msg, msg = down[c][1],
         msg.type # "snapshot"
  PROVE  /\ msg.seq \in client.lastAck + 1 .. conn[c].latestSent /\ msg.seq \in 1 .. Len(log)
         /\ client.receivedSnapshot
         /\ msg.seq = client.lastAck + 1
            \/ (client.allowTruncatedGap /\ client.lastAck < first - 1)
<1> DEFINE d == Tail(down[c])
<1>1. /\ Len(d) \in Nat /\ Len(down[c]) = Len(d) + 1
      /\ client.receivedSnapshot /\ msg.seq = conn[c].latestSent - Len(d)
  BY Behind
<1>2. /\ conn[c].latestSent \in 0 .. Len(log) /\ client.lastAck \in 0 .. Len(log)
      /\ Len(log) \in Nat
  BY StateTyped
<1> HIDE DEF d
<1>3. InFlight(c) = Len(d) + 1 /\ (Gap(c) <=> client.allowTruncatedGap)
  BY <1>1 DEF InFlight, Gap
<1>4. /\ client.lastAck <= conn[c].latestSent - InFlight(c)
      /\ ~Gap(c) => client.lastAck = conn[c].latestSent - InFlight(c)
      /\ Gap(c) => client.lastAck < first - 1
  BY DEF SocketInv, WireInv, GapInv
<1>5. msg.seq \in client.lastAck + 1 .. conn[c].latestSent /\ msg.seq \in 1 .. Len(log)
  <2> DEFINE m == conn[c].latestSent
             a == client.lastAck
             s == msg.seq
  <2>1. /\ m \in 0 .. Len(log) /\ a \in 0 .. Len(log) /\ Len(log) \in Nat /\ Len(d) \in Nat
        /\ s = m - Len(d) /\ a <= m - (Len(d) + 1)
    BY <1>1, <1>2, <1>3, <1>4
  <2> HIDE DEF m, a, s
  <2>2. s \in a + 1 .. m /\ s \in 1 .. Len(log)
    BY <2>1
  <2> QED
    BY <2>2 DEF m, a, s
<1>6. ~Gap(c) => msg.seq = client.lastAck + 1
  BY <1>1, <1>2, <1>3, <1>4
<1> QED
  BY <1>1, <1>3, <1>4, <1>5, <1>6

LEMMA LastShown ==
  ASSUME TypeOK, NEW s \in 1 .. Len(log), shown' = Append(shown, s)
  PROVE  Gapless!LastReceived' = s
<1>1. shown \in Seq(1 .. Len(log))
  BY DEF TypeOK
<1>2. /\ Len(shown) \in Nat /\ shown' # <<>> /\ Len(shown') = Len(shown) + 1
      /\ shown'[Len(shown) + 1] = s
  BY <1>1, AppendProperties, LenProperties
<1> QED
  BY <1>2 DEF Gapless!LastReceived

LEMMA ReceiveEventKeeps ==
  ASSUME IInv, NEW c \in Conns, ReceiveEvent(c)
  PROVE  IInv'
<1> DEFINE k == conn[c]
           d == Tail(down[c])
           msg == down[c][1]
           u == up[c]
<1>1. TypeOK /\ ConnInv(c)
  BY DEF IInv
<1>2. client.sock = c /\ down[c] # <<>>
  BY DEF ReceiveEvent
<1>3. SocketInv(c)
  BY <1>2 DEF IInv
<1>4. msg.type # "snapshot" => msg.seq \in 1 .. Len(log)
  BY <1>1, <1>2, <1>3, ReceivedIsNew
<1>5. /\ msg.type # "snapshot"
      /\ down' = [down EXCEPT ![c] = d]
      /\ UNCHANGED <<log, first, conn, faults>>
      /\ \/ /\ msg.seq > client.lastAck
            /\ client' = [sock |-> c, lastAck |-> msg.seq,
                          receivedSnapshot |-> client.receivedSnapshot,
                          allowTruncatedGap |-> FALSE]
            /\ shown' = Append(shown, msg.seq)
            /\ up' = [up EXCEPT ![c] = Append(u, msg.seq)]
         \/ msg.seq <= client.lastAck
      /\ TypeOK'
  BY <1>1, <1>4, ReceiveEventDoes, ZenonT(60)
<1>6. /\ msg.seq \in client.lastAck + 1 .. k.latestSent /\ msg.seq \in 1 .. Len(log)
      /\ client.receivedSnapshot
  BY <1>1, <1>2, <1>3, <1>5, ReceivedIsNew
<1>7. client.lastAck \in Nat /\ k.latestSent \in Nat /\ k.acknowledged \in Nat
  BY <1>1, StateTyped
<1>8. /\ client' = [sock |-> c, lastAck |-> msg.seq,
                    receivedSnapshot |-> client.receivedSnapshot,
                    allowTruncatedGap |-> FALSE]
      /\ shown' = Append(shown, msg.seq)
      /\ up' = [up EXCEPT ![c] = Append(u, msg.seq)]
  BY <1>5, <1>6, <1>7
<1>9. /\ down'[c] = d /\ up'[c] = Append(u, msg.seq)
      /\ \A e \in Conns \ {c} : down'[e] = down[e] /\ up'[e] = up[e]
  BY <1>1, <1>5, <1>8 DEF TypeOK
<1>10. /\ Len(d) \in Nat /\ Len(down[c]) = Len(d) + 1
       /\ \A i \in 1 .. Len(d) : d[i].type # "snapshot" /\ d[i].seq = k.latestSent - Len(d) + i
       /\ k.phase \notin Entering /\ msg.seq = k.latestSent - Len(d)
  BY <1>1, <1>2, <1>3, <1>6, Behind
<1>11. /\ client'.sock = c /\ client'.lastAck = msg.seq
       /\ client'.receivedSnapshot /\ ~client'.allowTruncatedGap
  BY <1>6, <1>8
<1> HIDE DEF d
<1>12. ~Gap(c)' /\ InFlight(c)' = Len(d)
  BY <1>9, <1>11 DEF Gap, InFlight
<1>13. EntryInv(c)'
  BY <1>5, <1>10 DEF EntryInv
<1>14. AckInv(c)'
  <2> DEFINE t == Append(u, msg.seq)
             s == msg.seq
  <2>1. u \in Seq(0 .. Len(log)) /\ s \in 0 .. Len(log) /\ Len(u) \in Nat
    BY <1>1, <1>6, StateTyped
  <2>2. /\ Len(t) = Len(u) + 1 /\ t[Len(u) + 1] = s
        /\ \A i \in 1 .. Len(u) : t[i] = u[i]
    BY <2>1, AppendProperties
  <2>3. /\ \A i \in 1 .. Len(u) : u[i] \in Nat /\ k.acknowledged <= u[i] /\ u[i] <= client.lastAck
        /\ \A i, j \in 1 .. Len(u) : i <= j => u[i] <= u[j]
        /\ k.acknowledged <= client.lastAck
    <3>1. \A i \in 1 .. Len(u) : u[i] \in 0 .. Len(log)
      BY <2>1, ElementOfSeq
    <3> QED
      BY <1>3, <3>1 DEF SocketInv, AckInv
  <2>4. s \in Nat /\ client.lastAck < s /\ s <= k.latestSent
    BY <1>6, <1>7
  <2> HIDE DEF t, s, u
  <2>5. \A i \in 1 .. Len(t) : i \in 1 .. Len(u) \/ i = Len(u) + 1
    BY <2>1, <2>2
  <2>6. \A i \in 1 .. Len(t) : t[i] \in Nat /\ k.acknowledged <= t[i] /\ t[i] <= s
    BY <1>7, <2>2, <2>3, <2>4, <2>5
  <2>7. \A i, j \in 1 .. Len(t) : i <= j => t[i] <= t[j]
    <3> SUFFICES ASSUME NEW i \in 1 .. Len(t), NEW j \in 1 .. Len(t), i <= j
                 PROVE  t[i] <= t[j]
      OBVIOUS
    <3>1. CASE j = Len(u) + 1
      BY <2>2, <2>6, <3>1
    <3>2. CASE j \in 1 .. Len(u)
      <4>1. i \in 1 .. Len(u)
        BY <2>1, <2>2, <3>2
      <4> QED
        BY <2>2, <2>3, <3>2, <4>1
    <3> QED
      BY <2>5, <3>1, <3>2
  <2>8. up'[c] = t /\ client'.lastAck = s
    BY <1>9, <1>11 DEF t, s, u
  <2>9. k.acknowledged <= s
    BY <1>7, <2>3, <2>4
  <2> QED
    BY <1>5, <1>11, <2>4, <2>6, <2>7, <2>8, <2>9 DEF AckInv
<1>15. WireInv(c)'
  BY <1>5, <1>7, <1>9, <1>10, <1>11, <1>12 DEF WireInv
<1>16. GapInv(c)'
  <2>1. k.phase # "opened"
    BY <1>10 DEF Entering
  <2>2. InFlight(c) # 0
    BY <1>6, <1>10 DEF InFlight
  <2>3. ~(~k.closed /\ k.phase \in {"replay", "ready"} /\ k.truncated /\ k.latestSent < k.nextSequence - 1)
    BY <1>3, <2>2 DEF SocketInv, GapInv
  <2> QED
    BY <1>5, <1>12, <2>1, <2>3 DEF GapInv
<1>17. ConnInv(c)'
  BY <1>1, <1>2, <1>5, <1>11 DEF ConnInv, Base
<1>18. ShownInv' /\ first' \in first .. NextSeq
  <2>1. Gapless!LastReceived' = msg.seq
    BY <1>1, <1>6, <1>8, LastShown
  <2> QED
    BY <1>1, <1>5, <1>11, <2>1, FirstStays DEF ShownInv
<1>19. SocketInv(c)'
  BY <1>13, <1>14, <1>15, <1>16 DEF SocketInv
<1> QED
  BY <1>2, <1>5, <1>9, <1>11, <1>17, <1>18, <1>19, StepOf

LEMMA DisconnectedKeeps ==
  ASSUME IInv, NEW c \in Conns, GiveUp(c) \/ NetworkDrop(c)
  PROVE  IInv'
<1>1. TypeOK /\ ConnInv(c)
  BY DEF IInv
<1>2. /\ client.sock = c
      /\ client'.sock = NoConn /\ client'.lastAck = client.lastAck
      /\ down' = [down EXCEPT ![c] = <<>>]
      /\ up' = [up EXCEPT ![c] = <<>>]
      /\ UNCHANGED <<log, first, conn, shown>>
      /\ TypeOK'
  BY <1>1, DisconnectedDoes
<1>3. /\ down'[c] = <<>> /\ up'[c] = <<>>
      /\ \A e \in Conns \ {c} : down'[e] = down[e] /\ up'[e] = up[e]
  BY <1>1, <1>2 DEF TypeOK
<1>4. NoConn # c
  BY StreamAssumption DEF NoConn
<1>5. ConnInv(c)'
  BY <1>1, <1>2, <1>4 DEF ConnInv, Base
<1>6. ShownInv' /\ first' \in first .. NextSeq
  BY <1>1, <1>2, FirstStays DEF IInv, ShownInv, Gapless!LastReceived
<1> QED
  BY <1>2, <1>3, <1>4, <1>5, <1>6, StepOf

\* What a new event changes in a connection.
LEMMA QueuedKeeps ==
  ASSUME TypeOK, NEW e \in Conns, ConnInv(e), client' = client,
         Len(log') = Len(log) + 1, conn'[e] = queueEvent(conn[e], NextSeq)
  PROVE  /\ ConnInv(e)'
         /\ conn'[e].phase = conn[e].phase /\ (conn[e].closed => conn'[e].closed)
         /\ conn'[e].latestSent = conn[e].latestSent
         /\ conn'[e].acknowledged = conn[e].acknowledged
         /\ conn'[e].truncated = conn[e].truncated
         /\ conn'[e].nextSequence = conn[e].nextSequence
<1> DEFINE k == conn[e]
           r == conn'[e]
           n == Len(log)
           b == k.beforeReady
           q == k.sendQueue
<1>1. /\ k \in Connection /\ n \in Nat /\ k.latestSent \in Nat /\ k.nextSequence \in Nat
      /\ b \in Seq(1 .. n) /\ Len(b) \in Nat /\ q \in Seq(1 .. n) /\ Len(q) \in Nat
  BY StateTyped
<1>2. IF k.closed \/ ~k.listening THEN r = k
         ELSE IF k.phase = "ready" THEN r = [k EXCEPT !.sendQueue = Append(q, n + 1)]
         ELSE IF Len(b) >= MaxUnack THEN r = [k EXCEPT !.closed = TRUE]
         ELSE r = [k EXCEPT !.beforeReady = Append(b, n + 1)]
  BY <1>1, QueueDoes
<1>3. CASE k.closed \/ ~k.listening
  <2>1. r = k
    BY <1>2, <1>3
  <2>2. k.closed \/ k.phase \notin {"opened", "replay", "ready"}
    BY <1>3 DEF ConnInv
  <2>3. ConnInv(e)'
    BY <2>1, <2>2 DEF ConnInv, Entering
  <2> QED
    BY <2>1, <2>3
<1>4. CASE ~k.closed /\ k.listening /\ k.phase = "ready"
  <2>1. r = [k EXCEPT !.sendQueue = Append(q, n + 1)]
    BY <1>2, <1>4
  <2>2. /\ r.phase = k.phase /\ r.closed = k.closed /\ r.listening = k.listening
        /\ r.latestSent = k.latestSent /\ r.acknowledged = k.acknowledged
        /\ r.truncated = k.truncated /\ r.nextSequence = k.nextSequence
        /\ r.beforeReady = b /\ r.sendQueue = Append(q, n + 1)
    BY <1>1, <2>1 DEF Connection
  <2>3. /\ Len(Append(q, n + 1)) = Len(q) + 1 /\ Append(q, n + 1)[Len(q) + 1] = n + 1
        /\ \A i \in 1 .. Len(q) : Append(q, n + 1)[i] = q[i]
    <3>1. q \in Seq(Nat) /\ n + 1 \in Nat
      <4>1. Seq(1 .. n) \subseteq Seq(Nat)
        BY <1>1, SeqGrows
      <4> QED
        BY <1>1, <4>1
    <3> QED
      BY <3>1, AppendProperties
  <2>4. Base(r) = Base(k) /\ Base(k) \in Int
    BY <1>1, <2>2 DEF Base
  <2>5. /\ n = Base(k) + Len(q) /\ \A i \in 1 .. Len(q) : q[i] = Base(k) + i
    BY <1>4 DEF ConnInv
  <2> DEFINE t == Append(q, n + 1)
  <2>6. r.sendQueue = t
    BY <2>2
  <2> HIDE DEF t, q, n
  <2>7. \A i \in 1 .. Len(t) : i \in 1 .. Len(q) \/ i = Len(q) + 1
    BY <1>1, <2>3 DEF t
  <2>8. \A i \in 1 .. Len(t) : t[i] = Base(k) + i
    BY <1>1, <2>3, <2>4, <2>5, <2>7 DEF t
  <2>9. Len(log') = Base(k) + Len(t)
    BY <1>1, <2>3, <2>4, <2>5 DEF n, t
  <2>10. ConnInv(e)'
    BY <1>4, <2>2, <2>4, <2>6, <2>8, <2>9 DEF ConnInv, Entering
  <2> QED
    BY <2>2, <2>10
<1>5. CASE ~k.closed /\ k.listening /\ k.phase # "ready" /\ Len(b) >= MaxUnack
  <2>1. r = [k EXCEPT !.closed = TRUE]
    BY <1>2, <1>5
  <2>2. /\ r.phase = k.phase /\ r.closed = TRUE /\ r.listening = k.listening
        /\ r.latestSent = k.latestSent /\ r.acknowledged = k.acknowledged
        /\ r.truncated = k.truncated /\ r.nextSequence = k.nextSequence
        /\ r.beforeReady = b /\ r.sendQueue = q
    BY <1>1, <2>1 DEF Connection
  <2>3. k.phase \notin {"idle", "accepted", "opening"}
    BY <1>5 DEF ConnInv
  <2>4. ConnInv(e)'
    BY <2>2, <2>3 DEF ConnInv, Entering
  <2> QED
    BY <2>2, <2>4
<1>6. CASE ~k.closed /\ k.listening /\ k.phase # "ready" /\ ~(Len(b) >= MaxUnack)
  <2>1. r = [k EXCEPT !.beforeReady = Append(b, n + 1)]
    BY <1>2, <1>6
  <2>2. /\ r.phase = k.phase /\ r.closed = k.closed /\ r.listening = k.listening
        /\ r.latestSent = k.latestSent /\ r.acknowledged = k.acknowledged
        /\ r.truncated = k.truncated /\ r.nextSequence = k.nextSequence
        /\ r.beforeReady = Append(b, n + 1) /\ r.sendQueue = q
    BY <1>1, <2>1 DEF Connection
  <2>3. /\ Len(Append(b, n + 1)) = Len(b) + 1 /\ Append(b, n + 1)[Len(b) + 1] = n + 1
        /\ \A i \in 1 .. Len(b) : Append(b, n + 1)[i] = b[i]
    <3>1. b \in Seq(Nat) /\ n + 1 \in Nat
      <4>1. Seq(1 .. n) \subseteq Seq(Nat)
        BY <1>1, SeqGrows
      <4> QED
        BY <1>1, <4>1
    <3> QED
      BY <3>1, AppendProperties
  <2>4. k.phase \in {"opened", "replay"}
    BY <1>1, <1>6, StateTyped DEF ConnInv
  <2>5. /\ k.latestSent < k.nextSequence
        /\ n = k.nextSequence - 1 + Len(b)
        /\ \A i \in 1 .. Len(b) : b[i] = k.nextSequence - 1 + i
    BY <1>6, <2>4 DEF ConnInv
  <2> DEFINE t == Append(b, n + 1)
  <2>6. r.beforeReady = t
    BY <2>2
  <2> DEFINE m == k.nextSequence - 1
  <2>12. m \in Int /\ n = m + Len(b) /\ Len(log') = n + 1 /\ \A i \in 1 .. Len(b) : b[i] = m + i
    BY <1>1, <2>5
  <2> HIDE DEF t, b, n, m
  <2>7. \A i \in 1 .. Len(t) : i \in 1 .. Len(b) \/ i = Len(b) + 1
    BY <1>1, <2>3 DEF t
  <2>8. \A i \in 1 .. Len(t) : t[i] = m + i
    BY <1>1, <2>3, <2>12, <2>7 DEF t
  <2>9. Len(log') = m + Len(t)
    BY <1>1, <2>3, <2>12 DEF t
  <2>10. k.sendQueue = <<>>
    BY <1>6 DEF ConnInv
  <2>11. ConnInv(e)'
    BY <1>6, <2>2, <2>4, <2>5, <2>6, <2>8, <2>9, <2>10 DEF ConnInv, Entering, q, m
  <2> QED
    BY <2>2, <2>11
<1> QED
  BY <1>3, <1>4, <1>5, <1>6

LEMMA PublishKeeps ==
  ASSUME IInv, NEW kind \in Kinds, Publish(kind)
  PROVE  IInv'
<1>1. TypeOK
  BY DEF IInv
<1>2. /\ Len(log') = Len(log) + 1 /\ first' \in first .. NextSeq'
      /\ \A e \in Conns : conn'[e] = queueEvent(conn[e], NextSeq)
      /\ UNCHANGED <<down, up, client, shown, faults>>
      /\ TypeOK'
  BY <1>1, PublishDoes
<1>3. first' >= first
  BY <1>1, <1>2 DEF TypeOK, NextSeq
<1>4. ASSUME NEW e \in Conns
      PROVE  ConnInv(e)' /\ (client'.sock = e => SocketInv(e)')
  <2>1. /\ ConnInv(e)'
        /\ conn'[e].phase = conn[e].phase /\ (conn[e].closed => conn'[e].closed)
        /\ conn'[e].latestSent = conn[e].latestSent
        /\ conn'[e].acknowledged = conn[e].acknowledged
        /\ conn'[e].truncated = conn[e].truncated
        /\ conn'[e].nextSequence = conn[e].nextSequence
    BY <1>1, <1>2, QueuedKeeps DEF IInv
  <2>2. ASSUME client'.sock = e PROVE SocketInv(e)'
    BY <1>1, <1>2, <1>3, <2>1, <2>2, OtherSocket DEF IInv
  <2> QED
    BY <2>1, <2>2
<1>5. QuietInv' /\ ShownInv'
  BY <1>2 DEF IInv, QuietInv, ShownInv, Gapless!LastReceived
<1> QED
  BY <1>2, <1>4, <1>5 DEF IInv

LEMMA InitIInv == Init => IInv
<1> SUFFICES ASSUME Init PROVE IInv
  OBVIOUS
<1>1. /\ log = <<>> /\ Len(log) = 0 /\ first = 1 /\ NextSeq = 1
      /\ \A c \in Conns : conn[c] = Idle /\ down[c] = <<>> /\ up[c] = <<>>
      /\ client = [sock |-> NoConn, lastAck |-> 0,
                   receivedSnapshot |-> FALSE, allowTruncatedGap |-> FALSE]
      /\ shown = <<>> /\ faults = 0
  BY EmptySeq DEF Init, NextSeq
<1>2. TypeOK
  <2>1. Idle \in Connection /\ Len(Idle.beforeReady) <= MaxUnack
    BY <1>1, IdleTyped
  <2>2. /\ <<>> \in Seq(Message) /\ <<>> \in Seq(0 .. Len(log)) /\ <<>> \in Seq(1 .. Len(log))
        /\ <<>> \in Seq(Kinds)
    BY EmptySeq
  <2>3. conn \in [Conns -> Connection] /\ \A c \in Conns : Len(conn[c].beforeReady) <= MaxUnack
    BY <1>1, <2>1 DEF Init
  <2>4. down \in [Conns -> Seq(Message)] /\ up \in [Conns -> Seq(0 .. Len(log))]
    BY <2>2 DEF Init
  <2>5. client \in [sock : Conns \cup {NoConn}, lastAck : 0 .. Len(log),
                    receivedSnapshot : BOOLEAN, allowTruncatedGap : BOOLEAN]
    BY <1>1
  <2>6. faults \in 0 .. MaxFaults /\ first \in 1 .. NextSeq
    BY <1>1, StreamAssumption
  <2>7. log \in Seq(Kinds) /\ shown \in Seq(1 .. Len(log))
    BY <1>1, <2>2
  <2> QED
    BY <2>3, <2>4, <2>5, <2>6, <2>7 DEF TypeOK
<1>3. \A c \in Conns : ConnInv(c) /\ client.sock # c
  BY <1>1, StreamAssumption DEF ConnInv, Idle, Entering, NoConn
<1>4. QuietInv /\ ShownInv
  BY <1>1 DEF QuietInv, ShownInv, Gapless!LastReceived
<1> QED
  BY <1>2, <1>3, <1>4 DEF IInv

LEMMA StepIInv == IInv /\ [Next]_vars => IInv'
<1> SUFFICES ASSUME IInv, [Next]_vars PROVE IInv'
  OBVIOUS
<1>1. CASE \E kind \in Kinds : Publish(kind)
  BY <1>1, PublishKeeps
<1>2. ASSUME NEW c \in Conns, GatewayStep(c) PROVE IInv'
  <2>1. CASE Hello(c)
    BY <2>1, HelloKeeps
  <2>2. CASE OpenStream(c)
    BY <2>2, OpenStreamKeeps
  <2>3. CASE SendSnapshot(c)
    BY <2>3, SendSnapshotKeeps
  <2>4. CASE SendReplay(c)
    BY <2>4, SendReplayKeeps
  <2>5. CASE BecomeReady(c)
    BY <2>5, BecomeReadyKeeps
  <2>6. CASE SendLive(c)
    BY <2>6, SendLiveKeeps
  <2>7. CASE Acknowledge(c)
    BY <2>7, AcknowledgeKeeps
  <2>8. CASE OnClose(c)
    BY <2>8, OnCloseKeeps
  <2>9. CASE Detach(c)
    BY <2>9, DetachKeeps
  <2>10. CASE Forget(c)
    BY <2>10, ForgetKeeps
  <2> QED
    BY <1>2, <2>1, <2>2, <2>3, <2>4, <2>5, <2>6, <2>7, <2>8, <2>9, <2>10 DEF GatewayStep
<1>3. ASSUME NEW c \in Conns, ClientStep(c) PROVE IInv'
  <2>1. CASE Open(c)
    BY <2>1, OpenKeeps
  <2>2. CASE ReceiveSnapshot(c)
    BY <2>2, ReceiveSnapshotKeeps
  <2>3. CASE ReceiveEvent(c)
    BY <2>3, ReceiveEventKeeps
  <2>4. CASE GiveUp(c) \/ NetworkDrop(c)
    BY <2>4, DisconnectedKeeps
  <2> QED
    BY <1>3, <2>1, <2>2, <2>3, <2>4 DEF ClientStep
<1>4. CASE UNCHANGED vars
  <2>1. UNCHANGED <<log, first, conn, down, up, client, shown, faults>>
    BY <1>4 DEF vars
  <2>2. TypeOK /\ TypeOK'
    BY <2>1 DEF IInv, TypeOK, Connection, Message, NextSeq
  <2>3. first' >= first
    BY <2>1, <2>2 DEF TypeOK, NextSeq
  <2>4. \A c \in Conns : ConnInv(c)'
    BY <2>1, OtherConn DEF IInv
  <2>5. ASSUME NEW c \in Conns, client'.sock = c PROVE SocketInv(c)'
    BY <2>1, <2>2, <2>3, <2>5, OtherSocket DEF IInv
  <2>6. QuietInv' /\ ShownInv'
    BY <2>1 DEF IInv, QuietInv, ShownInv, Gapless!LastReceived
  <2> QED
    BY <2>2, <2>4, <2>5, <2>6 DEF IInv
<1> QED
  BY <1>1, <1>2, <1>3, <1>4 DEF Next

\* Through every interleaving, lost socket, full window and pruned log the
\* connections and the client agree on what is under way (connect, queueEvent
\* and acknowledge of the gateway, handleMessage of the client).
THEOREM Invariance == Spec => []IInv
BY InitIInv, StepIInv, PTL DEF Spec

-----------------------------------------------------------------------------
(* What follows from the invariant.                                        *)

\* Every variable keeps to its type; in particular no more events wait for the
\* end of a replay than the window allows (queueEvent), and no sequence number
\* is ahead of the log.
THEOREM TypeCorrect == Spec => []TypeOK
<1>1. IInv => TypeOK
  BY DEF IInv
<1> QED
  BY <1>1, Invariance, PTL

LEMMA AcksAreInWindow == IInv => AcksInWindow
<1> SUFFICES ASSUME IInv, NEW c \in Conns, NEW i \in 1 .. Len(up[c])
             PROVE  up[c][i] \in conn[c].acknowledged .. conn[c].latestSent
  BY DEF AcksInWindow
<1>1. TypeOK
  BY DEF IInv
<1>2. up[c] \in Seq(0 .. Len(log)) /\ Len(up[c]) \in Nat
  BY <1>1, StateTyped
<1>3. up[c] # <<>>
  BY <1>2, EmptySeq
<1>4. client.sock = c
  BY <1>3 DEF IInv, QuietInv
<1>5. /\ conn[c].acknowledged <= up[c][i] /\ up[c][i] <= client.lastAck
      /\ client.lastAck <= conn[c].latestSent
  BY <1>4 DEF IInv, SocketInv, AckInv
<1>6. up[c][i] \in 0 .. Len(log)
  BY <1>2, ElementOfSeq
<1>7. /\ client.lastAck \in Nat /\ conn[c].acknowledged \in Nat /\ conn[c].latestSent \in Nat
      /\ Len(log) \in Nat
  BY <1>1, StateTyped
<1> QED
  BY <1>5, <1>6, <1>7

\* No acknowledgement on its way is older than what the gateway has of the
\* client or ahead of what it has sent: the check of acknowledgements never
\* closes the connection of a client that follows the protocol.
THEOREM AcksStayInWindow == Spec => []AcksInWindow
BY AcksAreInWindow, Invariance, PTL

\* The client never meets a message out of its turn, so that failProtocol is
\* left to the kinds of events it does not know: reconnections, full windows
\* and events produced during a replay never make it give up a socket.
THEOREM MessagesAreExpected == Spec => []Expected
<1>1. IInv => Expected
  <2> SUFFICES ASSUME IInv, NEW c \in Conns, client.sock = c, down[c] # <<>>
               PROVE  \/ WellFormed(Head(down[c]))
                      \/ Head(down[c]).type \in Kinds \ Understood
    BY DEF Expected
  <2> DEFINE msg == down[c][1]
  <2>1. TypeOK /\ SocketInv(c)
    BY DEF IInv
  <2>2. Head(down[c]) = msg /\ msg \in Message /\ Len(down[c]) \in Nat \ {0}
    BY <2>1, NextMessage
  <2>3. 1 \in 1 .. Len(down[c])
    BY <2>2
  <2>4. CASE msg.type = "snapshot"
    <3>1. ~client.receivedSnapshot
      BY <2>1, <2>3, <2>4 DEF SocketInv, WireInv
    <3>2. msg.seq > client.lastAck
      BY <2>1, <3>1 DEF SocketInv, WireInv
    <3> QED
      BY <2>2, <2>4, <3>1, <3>2 DEF WellFormed
  <2>5. CASE msg.type # "snapshot"
    <3>1. /\ client.receivedSnapshot /\ msg.seq \in Nat
          /\ msg.seq = client.lastAck + 1 \/ client.allowTruncatedGap
      BY <2>1, <2>5, ReceivedIsNew
    <3>2. msg.type \in Kinds
      BY <2>2, <2>5 DEF Message
    <3>3. msg.seq = client.lastAck + 1 => msg.seq <= client.lastAck + 1
      BY <3>1
    <3> QED
      BY <2>2, <2>5, <3>1, <3>2, <3>3 DEF WellFormed
  <2> QED
    BY <2>4, <2>5
<1> QED
  BY <1>1, Invariance, PTL

-----------------------------------------------------------------------------
(* The stream implements GaplessStream.                                    *)

LEMMA GaplessInit == Init => Gapless!Init
BY EmptySeq DEF Init, Gapless!Init

LEMMA OneLess ==
  ASSUME NEW x \in Nat, NEW n \in Nat, NEW y \in x .. n + 1
  PROVE  y - 1 \in x - 1 .. n
OBVIOUS

LEMMA GaplessPublish ==
  ASSUME IInv, NEW kind \in Kinds, Publish(kind)
  PROVE  Gapless!Produce
<1>1. TypeOK
  BY DEF IInv
<1>2. /\ Len(log') = Len(log) + 1 /\ first' \in first .. NextSeq' /\ shown' = shown
  BY <1>1, PublishDoes
<1>3. /\ first \in Nat /\ NextSeq' = Len(log') + 1
      /\ Len(log) \in Nat /\ Len(log') \in Nat
  BY <1>1, <1>2, LenLog DEF TypeOK, NextSeq
<1>4. first' - 1 \in first - 1 .. Len(log')
  BY <1>2, <1>3, OneLess
<1> QED
  BY <1>2, <1>4 DEF Gapless!Produce

LEMMA GaplessOpenStream ==
  ASSUME IInv, NEW c \in Conns, OpenStream(c)
  PROVE  Gapless!Forget
<1>1. TypeOK
  BY DEF IInv
<1>2. first' \in first .. NextSeq /\ log' = log /\ shown' = shown
  BY <1>1, OpenStreamDoes
<1>3. first \in Nat /\ NextSeq = Len(log) + 1 /\ Len(log) \in Nat
  BY <1>1, StateTyped
<1>4. first' - 1 \in first - 1 .. Len(log)
  BY <1>2, <1>3, OneLess
<1> QED
  BY <1>2, <1>4 DEF Gapless!Forget

LEMMA GaplessReceive ==
  ASSUME IInv, NEW c \in Conns, ReceiveEvent(c)
  PROVE  Gapless!Receive \/ Gapless!Skip
<1> DEFINE msg == down[c][1]
           last == client.lastAck
<1>1. TypeOK /\ Gapless!LastReceived = last
  BY DEF IInv, ShownInv
<1>2. client.sock = c /\ down[c] # <<>>
  BY DEF ReceiveEvent
<1>3. SocketInv(c)
  BY <1>2 DEF IInv
<1>4. msg.type # "snapshot" => msg.seq \in 1 .. Len(log)
  BY <1>1, <1>2, <1>3, ReceivedIsNew
<1>5. /\ msg.type # "snapshot" /\ log' = log /\ first' = first
      /\ (msg.seq > last /\ shown' = Append(shown, msg.seq)) \/ msg.seq <= last
  BY <1>1, <1>4, ReceiveEventDoes
<1>6. /\ msg.seq \in last + 1 .. conn[c].latestSent /\ msg.seq \in 1 .. Len(log)
      /\ msg.seq = last + 1 \/ last < first - 1
  BY <1>1, <1>2, <1>3, <1>5, ReceivedIsNew
<1>7. last \in Nat /\ Len(log) \in Nat /\ first \in Nat
  BY <1>1, StateTyped
<1> DEFINE s == msg.seq
<1> HIDE DEF last, s
<1>8. s \in last + 1 .. Len(log) /\ shown' = Append(shown, s)
  BY <1>5, <1>6, <1>7 DEF s
<1>9. CASE s = last + 1
  BY <1>1, <1>5, <1>7, <1>8, <1>9 DEF Gapless!Receive
<1>10. CASE s # last + 1 /\ last < first - 1
  <2>1. s \in last + 2 .. Len(log) /\ last + 1 <= first - 1
    BY <1>7, <1>8, <1>10
  <2> QED
    BY <1>1, <1>5, <1>8, <2>1 DEF Gapless!Skip
<1> QED
  BY <1>6, <1>9, <1>10 DEF s

LEMMA GaplessNext == IInv /\ [Next]_vars => [Gapless!Next]_Gapless!vars
<1> SUFFICES ASSUME IInv, [Next]_vars PROVE [Gapless!Next]_Gapless!vars
  OBVIOUS
<1>1. UNCHANGED <<log, first, shown>> => UNCHANGED Gapless!vars
  BY DEF Gapless!vars
<1>2. CASE \E kind \in Kinds : Publish(kind)
  BY <1>2, GaplessPublish DEF Gapless!Next
<1>3. ASSUME NEW c \in Conns, GatewayStep(c) PROVE [Gapless!Next]_Gapless!vars
  <2>1. CASE OpenStream(c)
    BY <2>1, GaplessOpenStream DEF Gapless!Next
  <2>2. CASE ~OpenStream(c)
    <3>1. UNCHANGED <<log, first, shown>>
      BY <1>3, <2>2 DEF GatewayStep, Hello, SendSnapshot, SendReplay, Overflow, BecomeReady,
             SendLive, Acknowledge, OnClose, Detach, Forget
    <3> QED
      BY <1>1, <3>1
  <2> QED
    BY <2>1, <2>2
<1>4. ASSUME NEW c \in Conns, ClientStep(c) PROVE [Gapless!Next]_Gapless!vars
  <2>1. CASE ReceiveEvent(c)
    BY <2>1, GaplessReceive DEF Gapless!Next
  <2>2. CASE ~ReceiveEvent(c)
    <3>1. UNCHANGED <<log, first, shown>>
      BY <1>4, <2>2 DEF ClientStep, Open, ReceiveSnapshot, GiveUp, NetworkDrop, Disconnected
    <3> QED
      BY <1>1, <3>1
  <2> QED
    BY <2>1, <2>2
<1>5. CASE UNCHANGED vars
  BY <1>1, <1>5 DEF vars
<1> QED
  BY <1>2, <1>3, <1>4, <1>5 DEF Next

\* The reader of a terminal is given every event of the session once and in
\* order, and goes on behind a gap only where the log had dropped the event it
\* needed next, whatever the sockets, windows and replays in between
\* (connect, queueEvent and acknowledge of the gateway; open and
\* handleMessage of the client).
THEOREM StreamIsGapless == Spec => ReaderIsGapless
BY GaplessInit, GaplessNext, Invariance, PTL DEF Spec, ReaderIsGapless, Gapless!Spec

=============================================================================
