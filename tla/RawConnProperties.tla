-------------------------- MODULE RawConnProperties -------------------------
(***************************************************************************)
(* What a copper connection promises (RawConn): the fairness of its        *)
(* goroutines, the safety and liveness properties of the stream between    *)
(* two endpoints, and each direction of it as the abstract ByteStream.     *)
(***************************************************************************)
EXTENDS RawConn

\* The goroutines of a connection keep running.
FairSpec ==
    /\ Spec
    /\ \A x \in Side : /\ WF_vars(WriteLoop(x))
                      /\ WF_vars(ReadLoop(x))
                      /\ WF_vars(CloseStreams(x))

\* Besides, applications keep reading what arrives.
ReaderSpec == FairSpec /\ \A x \in Side : WF_vars(Read(x))

-----------------------------------------------------------------------------
\* Safety

\* Two endpoints that run this code never accuse each other of a protocol
\* violation: no DATA frame is refused by processDataFrame or
\* processDataLocked (unknown stream, reopened stream, data after EOF, more
\* data than the window), whatever the interleaving of loops and calls.
NoProtocolError ==
    \A x \in Side : conn[x].fail \notin ProtocolError

\* A payload that is about to be appended to the read buffer continues the
\* bytes already received: nothing is lost, duplicated or reordered.
InOrder ==
    \A x \in Side :
        LET f == Head(Incoming(x))
        IN /\ conn[x].rpc = "proc" /\ f.kind = "DATA" /\ f.len > 0
           /\ st[x].rerr = None
           => f.pos = st[x].rhi

\* A reader that sees a clean io.EOF has been given every byte the other
\* side's Write accepted (activeEOF, writeCtrl and clearWriteBufferLocked
\* decide when EOF may be sent).
CleanEOF ==
    \A x \in Side :
        st[x].rerr = "EOF" => st[x].rhi = st[Peer(x)].whi

\* Work is never forgotten: whenever a stream has a payload it may send it is
\* in the data queue or in the hands of writeData, and whenever it owes a
\* control frame it is in the ctrl queue or in the hands of writeCtrl.
DataScheduled ==
    \A x \in Side :
        ActiveData(st[x]) => \/ "data" \in st[x].queued
                            \/ conn[x].wpc \in {"data", "stopped", "closed"}

CtrlScheduled ==
    \A x \in Side :
        OwesCtrl(st[x]) => \/ "ctrl" \in st[x].queued
                          \/ conn[x].wpc \in {"ctrl", "loop", "ctrlWrite",
                                               "stopped", "closed"}

\* No wakeup is lost: a goroutine parked in Read, Write or Flush has a reason
\* to be parked in the current state, not only when it went to sleep.
NoLostWakeup ==
    \A x \in Side :
        LET s == st[x]
        IN /\ s.rwait = "read" => Readable(s) = 0 /\ s.rerr = None
           /\ s.wwait = "write" =>
                 Buffered(s) >= WriteBufferSize /\ s.werr = None
           /\ s.wwait = "flush" => Buffered(s) > 0 /\ s.werr = None

\* The channels acked and closed are closed exactly when they should be and
\* never twice (a second close panics).
ChannelsClosedOnce ==
    \A x \in Side :
        LET s == st[x]
        IN /\ s.nacked = IF s.rerr # None \/ "SeenAck" \in s.flags THEN 1 ELSE 0
           /\ s.nclosed = IF s.rerr # None /\ s.werr # None THEN 1 ELSE 0

\* While a stream can be read no credit leaks: what the remote may still send,
\* what is buffered and what is about to be granted add up to the window.
CreditConserved ==
    \A x \in Side :
        LET s == st[x]
        IN s.rerr = None => s.rleft + Readable(s) + s.rinc = Window

Newest(q) == q[Len(q)]

\* The network write of x returns.
Writes(x) == writing[x] /\ ~writing'[x]

\* A stream that cleanupLocked removed prepares no further frame, even if
\* writeCtrl or writeData was entered, or a call was made, before that; and if
\* a frame was in the hands of the write loop when the stream was removed, it
\* is not a DATA frame without the EOF flag: the other end has been sent EOF
\* already and would fail the whole connection (processDataFrame of rawconn.go
\* and rawstream.go).  A WINDOW or RESET that was in its hands is still written,
\* although a stream that is fully closed "MUST NOT send additional frames"
\* (PROTOCOL.md); the other end ignores it.
RemovedIsQuiet ==
    [][\A x \in Side : st[x].where = "gone" =>
         /\ Len(net'[x]) > Len(net[x]) => Newest(net'[x]).kind = "CONN"
         /\ Writes(x) /\ Newest(net[x]).kind = "DATA"
            => "EOF" \in Newest(net[x]).flags]_vars

-----------------------------------------------------------------------------
\* Each direction of the stream, from the Write calls of one end to the Read
\* calls of the other, as the abstract ByteStream.
WriterState(s) ==
    IF s.werr = None THEN "open" ELSE IF s.werr = "ECLOSED" THEN "closed"
    ELSE "broken"

ReaderState(s) ==
    IF s.rerr = None THEN "open" ELSE IF s.rerr = "EOF" THEN "eof"
    ELSE "broken"

Upload == INSTANCE ByteStream WITH
    written <- st["client"].whi,
    delivered <- st["server"].rhi,
    writer <- WriterState(st["client"]),
    reader <- ReaderState(st["server"])

Download == INSTANCE ByteStream WITH
    written <- st["server"].whi,
    delivered <- st["client"].rhi,
    writer <- WriterState(st["server"]),
    reader <- ReaderState(st["client"])

\* Both directions implement ByteStream: whatever frames, resets, windows and
\* connection failures do in between, the applications see a prefix of the
\* bytes written, and io.EOF only at the end of all of them.
ImplementsByteStream == Upload!BSpec /\ Download!BSpec

-----------------------------------------------------------------------------
\* Liveness

\* What Write accepted reaches the reader's buffer, or the reader's side was
\* closed, and a writer blocked by a full buffer or waiting for a flush gets on:
\* scheduling, window updates and wakeups never get stuck.
Delivery ==
    \A x \in Side :
        /\ <>[](st[Peer(x)].rhi = st[x].whi \/ st[Peer(x)].rerr # None)
        /\ []<>(st[x].wwait = "no")

\* Closing both directions at both ends makes each end fully closed, so that
\* cleanupLocked removes it ("Remove the stream from live streams if both sides
\* are closed") and its stream id can be used again.
ClosedIsRemoved ==
    []<>((\A x \in Side : st[x].rerr # None /\ st[x].werr # None)
         => \/ \A x \in Side : st[x].where = "gone"
            \/ \E x \in Side : conn[x].fail # None)

\* When the connection fails or the network breaks, every stream gets an error
\* in both directions, so no call stays blocked (closeWithError, failLocked).
\* A connection that failed ends: both loops return and the network connection
\* is closed, which is what Done waits for.
FailureEnds ==
    []<>(\A x \in Side :
            /\ Made(x) /\ (conn[x].fail # None \/ link = "down")
               => st[x].rerr # None /\ st[x].werr # None
            /\ conn[x].fail # None
               => conn[x].rpc = "stopped" /\ conn[x].wpc = "closed")
=============================================================================
