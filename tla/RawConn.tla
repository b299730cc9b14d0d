------------------------------- MODULE RawConn -------------------------------
(***************************************************************************)
(* Two copper endpoints, the connection between them and one stream that   *)
(* the client opens (rawconn.go, rawconn_outgoing.go, rawconn_streams.go   *)
(* and the calls of rawstream.go).  Each endpoint runs a read loop, a      *)
(* write loop and an application; a step is one critical section.          *)
(***************************************************************************)
EXTENDS RawStream, Sequences

CONSTANTS Calls,      \* calls each side's application may make
          MaxBytes,   \* bytes each side's application writes at most
          CloseErrs,  \* errors the application closes a stream with
          Faults      \* "close", "shutdown" and "break", if they may happen

Side == {"client", "server"}
Peer(x) == IF x = "client" THEN "server" ELSE "client"

CallName == {"Read", "Write", "Flush", "Acknowledge", "Close", "CloseRead",
             "CloseWrite", "SetDeadline"}

ASSUME RawConnParameters ==
    /\ Calls \in [Side -> SUBSET CallName]
    /\ MaxBytes \in [Side -> Nat]
    /\ CloseErrs \subseteq {"ECLOSED", "EAPP"}
    /\ Faults \subseteq {"close", "shutdown", "break"}

VARIABLES st,    \* st[x]: x's end of the stream
          conn,  \* conn[x]: x's connection
          net,   \* net[x]: frames x has prepared and its peer has not yet
                 \* handled; while writing[x] the last one is not written yet
          writing,  \* writing[x]: x's write loop is in a network write
          link   \* "up", or "down" once the network connection is broken

vars == <<st, conn, net, writing, link>>

\* wpc is where the write loop stands: idle (choosing work), about to enter
\* writeCtrl or writeData with the stream taken off its queue, inside the
\* network write of a control frame (loop) or of a payload (ctrlWrite,
\* dataWrite), returned (stopped) or done closing the network (closed).
IsConn(c) ==
    /\ DOMAIN c = {"fail", "oerr", "marks", "rpc", "wpc"}
    /\ c.fail \in Error \cup {None}        \* failure
    /\ c.oerr \in Error \cup {None}        \* outgoing.err
    /\ c.marks \subseteq {"closing",       \* streams.failLocked is running
                          "shutdown"}      \* Shutdown was called
    /\ c.rpc \in {"idle", "proc", "refuse", "told", "stopped"}
    /\ c.wpc \in {"idle", "ctrl", "loop", "ctrlWrite", "data", "dataWrite",
                  "stopped", "closed"}

NewConn == [fail |-> None, oerr |-> None, marks |-> {}, rpc |-> "idle",
            wpc |-> "idle"]

Init ==
    /\ st = [x \in Side |-> NoStream]
    /\ conn = [x \in Side |-> NewConn]
    /\ net = [x \in Side |-> <<>>]
    /\ writing = [x \in Side |-> FALSE]
    /\ link = "up"

Made(x) == st[x].where # "none"

\* outgoing.fail
FailOutgoing(c, err) ==
    [c EXCEPT !.oerr = IF @ # None THEN @ ELSE
                       IF err = "ECONNCLOSED" THEN "ECONNSHUTDOWN" ELSE err]

\* Mutant: the write loop is not told.
FailConnSilently(c, err, s) ==
    IF c.fail # None THEN c
    ELSE [c EXCEPT !.fail = err,
                 !.marks = @ \cup IF s.where = "live" THEN {"closing"} ELSE {}]

\* closeWithError up to the point where it unlocks conn.mu to close a stream
FailConn(c, err, s) ==
    IF c.fail # None THEN c
    ELSE [FailOutgoing(c, err) EXCEPT !.fail = err,
                 !.marks = @ \cup IF s.where = "live" THEN {"closing"} ELSE {}]

SetStream(x, s) == st' = [st EXCEPT ![x] = s]
SetConn(x, c) == conn' = [conn EXCEPT ![x] = c]
GotoW(x, pc) == SetConn(x, [conn[x] EXCEPT !.wpc = pc])
Send(x, f) == net' = [net EXCEPT ![x] = Append(@, f)]
Writing(x, b) == writing' = [writing EXCEPT ![x] = b]

-----------------------------------------------------------------------------
\* The connection

NewStream(x) ==
    /\ x = "client" /\ ~Made(x) /\ conn[x].fail = None
    /\ SetStream(x, NewOutgoing(st[x]))
    /\ UNCHANGED <<conn, net, writing, link>>

ConnClose(x) ==
    /\ "close" \in Faults /\ conn[x].fail = None
    /\ SetConn(x, FailConn(conn[x], "ECONNCLOSED", st[x]))
    /\ UNCHANGED <<st, net, writing, link>>

CloseStreams(x) ==
    /\ "closing" \in conn[x].marks
    /\ SetConn(x, [conn[x] EXCEPT !.marks = @ \ {"closing"}])
    /\ SetStream(x, CloseWithError(st[x], conn[x].fail))
    /\ UNCHANGED <<net, writing, link>>

\* Only the accepting side looks at shutdownchan.
Shutdown(x) ==
    /\ "shutdown" \in Faults /\ x = "server" /\ "shutdown" \notin conn[x].marks
    /\ SetConn(x, [conn[x] EXCEPT !.marks = @ \cup {"shutdown"}])
    /\ UNCHANGED <<st, net, writing, link>>

Break ==
    /\ "break" \in Faults /\ link = "up"
    /\ link' = "down"
    /\ UNCHANGED <<st, conn, net, writing>>

-----------------------------------------------------------------------------
\* The write loop

TakeCtrl(x) ==
    /\ conn[x].wpc = "idle" /\ conn[x].oerr = None /\ "ctrl" \in st[x].queued
    /\ SetStream(x, [st[x] EXCEPT !.queued = @ \ {"ctrl"}])
    /\ GotoW(x, "ctrl")
    /\ UNCHANGED <<net, writing, link>>

\* The stream as the next turn of writeCtrl's loop finds it: if that turn
\* follows a payload write, the payload is dropped under the same lock.
Relocked(x) ==
    IF conn[x].wpc = "ctrlWrite" THEN AfterWrite(st[x]) ELSE st[x]

InCtrl(x) ==
    /\ conn[x].wpc \in {"ctrl", "loop", "ctrlWrite"} /\ ~writing[x]
    /\ conn[x].wpc = "ctrl" => ~CanDiscard(st[x])

CtrlDiscard(x) ==
    /\ conn[x].wpc = "ctrl" /\ CanDiscard(st[x])
    /\ SetStream(x, DiscardStream(st[x]))
    /\ GotoW(x, "idle")
    /\ UNCHANGED <<net, writing, link>>

CtrlData(x) ==
    LET s == Relocked(x)
        p == PrepareData(s)
    IN /\ InCtrl(x) /\ NeedsDataCtrl(s)
       /\ SetStream(x, AfterOutgoingFlags(p))
       /\ Send(x, DataFrame(s, OutgoingFlags(p), PayloadSize(s)))
       /\ GotoW(x, "ctrlWrite")
       /\ Writing(x, TRUE) /\ UNCHANGED link

CtrlWindow(x) ==
    LET s == Relocked(x)
    IN /\ InCtrl(x) /\ ~NeedsDataCtrl(s) /\ NeedsWindow(s)
       /\ SetStream(x, AfterWindow(s))
       /\ Send(x, WindowFrame(s))
       /\ GotoW(x, "loop")
       /\ Writing(x, TRUE) /\ UNCHANGED link

CtrlReset(x) ==
    LET s == Relocked(x)
    IN /\ InCtrl(x) /\ ~NeedsDataCtrl(s) /\ ~NeedsWindow(s) /\ NeedsReset(s)
       /\ SetStream(x, AfterReadReset(s))
       /\ Send(x, ReadReset(s))
       /\ GotoW(x, "loop")
       /\ Writing(x, TRUE) /\ UNCHANGED link

CtrlEOF(x) ==
    LET s == Relocked(x)
    IN /\ InCtrl(x) /\ ~NeedsDataCtrl(s) /\ ~NeedsWindow(s) /\ ~NeedsReset(s)
       /\ NeedsEOF(s)
       /\ SetStream(x, SentEOF(s))
       /\ Send(x, EOFFrame(s))
       /\ GotoW(x, "loop")
       /\ Writing(x, TRUE) /\ UNCHANGED link

CtrlDone(x) ==
    LET s == Relocked(x)
    IN /\ InCtrl(x) /\ ~NeedsDataCtrl(s) /\ ~NeedsWindow(s) /\ ~NeedsReset(s)
       /\ ~NeedsEOF(s)
       /\ SetStream(x, s)
       /\ GotoW(x, "idle")
       /\ UNCHANGED <<net, writing, link>>

TakeData(x) ==
    /\ conn[x].wpc = "idle" /\ conn[x].oerr = None
    /\ st[x].queued = {"data"}
    /\ SetStream(x, [st[x] EXCEPT !.queued = {}])
    /\ GotoW(x, "data")
    /\ UNCHANGED <<net, writing, link>>

WriteData(x) ==
    LET s == st[x]
        p == PrepareData(s)
    IN /\ conn[x].wpc = "data" /\ PayloadSize(s) > 0
       /\ SetStream(x, Reschedule(AfterOutgoingFlags(p)))
       /\ Send(x, DataFrame(s, OutgoingFlags(p), PayloadSize(s)))
       /\ GotoW(x, "dataWrite")
       /\ Writing(x, TRUE) /\ UNCHANGED link

NoData(x) ==
    /\ conn[x].wpc = "data" /\ ~(PayloadSize(st[x]) > 0)
    /\ GotoW(x, "idle")
    /\ UNCHANGED <<st, net, writing, link>>

DataDone(x) ==
    /\ conn[x].wpc = "dataWrite" /\ ~writing[x]
    /\ SetStream(x, AfterWrite(st[x]))
    /\ GotoW(x, "idle")
    /\ UNCHANGED <<net, writing, link>>

\* The frame that was prepared under the lock is written, with no lock held:
\* meanwhile the read loop and the application may have changed the stream.
WriteFrame(x) ==
    /\ writing[x] /\ conn[x].wpc \in {"loop", "ctrlWrite", "dataWrite"}
    /\ Writing(x, FALSE)
    /\ UNCHANGED <<st, conn, net, link>>

\* A network write (or the flush of the buffered writer) fails.
WriteFail(x) ==
    /\ link = "down"
    /\ conn[x].wpc \in {"idle", "loop", "ctrlWrite", "dataWrite"}
    /\ SetConn(x, [FailConn(conn[x], "ENET", st[x]) EXCEPT !.wpc = "stopped"])
    /\ UNCHANGED <<st, net, writing, link>>

\* outgoing.err is reported to the remote and the loop returns.
SendConnError(x) ==
    /\ conn[x].wpc = "idle" /\ conn[x].oerr # None
    /\ Send(x, [kind |-> "CONN", flags |-> {}, pos |-> 0, len |-> 0,
                err |-> WireErr(conn[x].oerr)])
    /\ GotoW(x, "stopped")
    /\ UNCHANGED <<st, writing, link>>

\* The grace period ends (or the read loop is done) and the network
\* connection is closed.
CloseNetwork(x) ==
    /\ conn[x].wpc = "stopped"
    /\ GotoW(x, "closed")
    /\ link' = "down"
    /\ UNCHANGED <<st, net, writing>>

-----------------------------------------------------------------------------
\* The read loop.  A frame stays at the head of the channel between the step
\* that looks its stream up and the step that locks the stream.

Incoming(x) == net[Peer(x)]
AtHead(x, kind) == Incoming(x) # <<>> /\ Head(Incoming(x)).kind = kind

Arrives(x, kind) ==
    /\ conn[x].rpc = "idle" /\ AtHead(x, kind)
    /\ ~(writing[Peer(x)] /\ Len(Incoming(x)) = 1)

Consume(x) == net' = [net EXCEPT ![Peer(x)] = Tail(@)]
GotoProc(x) == SetConn(x, [conn[x] EXCEPT !.rpc = "proc"])

\* The read loop stops with a connection-level error.
StopReading(x, c, err) ==
    SetConn(x, [FailConn(c, err, st[x]) EXCEPT !.rpc = "stopped"])

\* A DATA frame that opens a stream; the application only gets to see the
\* stream if the connection is neither closed nor shutting down.
ArriveOpen(x) ==
    /\ Arrives(x, "DATA")
    /\ LET f == Head(Incoming(x))
           s == NewIncoming(st[x])
       IN /\ "OPEN" \in f.flags
          /\ \/ /\ st[x].where = "live" \/ f.len > Window
                /\ StopReading(x, conn[x], IF st[x].where = "live"
                               THEN "EINVALIDSTREAM" ELSE "EWINDOWOVERFLOW")
                /\ Consume(x) /\ UNCHANGED st
             \/ /\ st[x].where # "live" /\ f.len <= Window
                /\ conn[x].fail = None /\ "shutdown" \notin conn[x].marks
                /\ SetStream(x, s)
                /\ GotoProc(x) /\ UNCHANGED net
             \/ /\ st[x].where # "live" /\ f.len <= Window
                /\ conn[x].fail # None
                /\ SetStream(x, CloseWithError(s, conn[x].fail))
                /\ Consume(x) /\ UNCHANGED conn
             \/ /\ st[x].where # "live" /\ f.len <= Window
                /\ conn[x].fail = None /\ "shutdown" \in conn[x].marks
                /\ SetStream(x, s)
                /\ SetConn(x, [conn[x] EXCEPT !.rpc = "refuse"])
                /\ Consume(x)
    /\ UNCHANGED <<writing, link>>

\* The stream that arrived during shutdown is closed after conn.mu is released.
RefuseStream(x) ==
    /\ conn[x].rpc = "refuse"
    /\ SetStream(x, CloseWithError(st[x], "ECONNSHUTDOWN"))
    /\ SetConn(x, [conn[x] EXCEPT !.rpc = "idle"])
    /\ UNCHANGED <<net, writing, link>>

ArriveData(x) ==
    /\ Arrives(x, "DATA")
    /\ "OPEN" \notin Head(Incoming(x)).flags
    /\ \/ /\ st[x].where # "live"
          /\ StopReading(x, conn[x], "EINVALIDSTREAM") /\ Consume(x)
       \/ /\ st[x].where = "live" /\ conn[x].fail # None
          /\ Consume(x) /\ UNCHANGED conn
       \/ /\ st[x].where = "live" /\ conn[x].fail = None
          /\ GotoProc(x) /\ UNCHANGED net
    /\ UNCHANGED <<st, writing, link>>

ArriveReset(x) ==
    /\ Arrives(x, "RESET")
    /\ \/ /\ st[x].where # "live" \/ conn[x].fail # None
          /\ Consume(x) /\ UNCHANGED conn
       \/ /\ st[x].where = "live" /\ conn[x].fail = None
          /\ GotoProc(x) /\ UNCHANGED net
    /\ UNCHANGED <<st, writing, link>>

ArriveWindow(x) ==
    /\ Arrives(x, "WINDOW")
    /\ \/ /\ st[x].where # "live"
          /\ Consume(x) /\ UNCHANGED conn
       \/ /\ st[x].where = "live"
          /\ GotoProc(x) /\ UNCHANGED net
    /\ UNCHANGED <<st, writing, link>>

\* The RESET of stream 0: the write loop is told first, then the connection
\* fails with the error of the other end.
ArriveConnError(x) ==
    /\ Arrives(x, "CONN")
    /\ SetConn(x, [FailOutgoing(conn[x], "ECONNSHUTDOWN") EXCEPT !.rpc = "told"])
    /\ UNCHANGED <<st, net, writing, link>>

ProcessConnError(x) ==
    /\ conn[x].rpc = "told" /\ AtHead(x, "CONN")
    /\ StopReading(x, conn[x], Head(Incoming(x)).err)
    /\ Consume(x)
    /\ UNCHANGED <<st, writing, link>>

ProcessDataFrame(x) ==
    /\ conn[x].rpc = "proc" /\ Head(Incoming(x)).kind = "DATA"
    /\ LET f == Head(Incoming(x))
           err == DataError(st[x], f)
       IN /\ SetStream(x, ProcessData(st[x], f))
          /\ IF err = None
             THEN SetConn(x, [conn[x] EXCEPT !.rpc = "idle"])
             ELSE StopReading(x, conn[x], err)
    /\ Consume(x)
    /\ UNCHANGED <<writing, link>>

ProcessResetFrame(x) ==
    /\ conn[x].rpc = "proc" /\ Head(Incoming(x)).kind = "RESET"
    /\ SetStream(x, ProcessReset(st[x], Head(Incoming(x))))
    /\ SetConn(x, [conn[x] EXCEPT !.rpc = "idle"])
    /\ Consume(x)
    /\ UNCHANGED <<writing, link>>

ProcessWindowFrame(x) ==
    /\ conn[x].rpc = "proc" /\ Head(Incoming(x)).kind = "WINDOW"
    /\ LET inc == Head(Incoming(x)).len
       IN IF inc <= 0
          THEN StopReading(x, conn[x], "EINVALIDFRAME") /\ UNCHANGED st
          ELSE /\ SetStream(x, ChangeWriteWindow(st[x], inc))
               /\ SetConn(x, [conn[x] EXCEPT !.rpc = "idle"])
    /\ Consume(x)
    /\ UNCHANGED <<writing, link>>

ReadFail(x) ==
    /\ link = "down" /\ conn[x].rpc = "idle"
    /\ StopReading(x, conn[x], "EOF")
    /\ UNCHANGED <<st, net, writing, link>>

-----------------------------------------------------------------------------
\* The application: one goroutine that reads, one that writes, and calls of
\* Close and its variants from any goroutine.

MayCall(x, call) ==
    Made(x) /\ conn[x].rpc # "refuse" /\ call \in Calls[x]
App(x, s) == SetStream(x, s) /\ UNCHANGED <<conn, net, writing, link>>

\* Read, ReadByte, Discard and the wait of Peek
Read(x) ==
    /\ MayCall(x, "Read") /\ st[x].rwait = "no"
    /\ \/ \E n \in 1..Readable(st[x]) : App(x, ReadBytes(st[x], n))
       \/ /\ Readable(st[x]) = 0 /\ st[x].rerr = None
          /\ App(x, [st[x] EXCEPT !.rwait = "read"])

\* One turn of the loop in Write, or WriteByte
Write(x) ==
    /\ MayCall(x, "Write") /\ st[x].werr = None /\ st[x].wwait = "no"
    /\ st[x].whi < MaxBytes[x]
    /\ \/ \E n \in 1..Least(WriteBufferSize - Buffered(st[x]),
                            MaxBytes[x] - st[x].whi) :
             App(x, WriteBytes(st[x], n))
       \/ /\ Buffered(st[x]) >= WriteBufferSize
          /\ App(x, [st[x] EXCEPT !.wwait = "write"])

Flush(x) ==
    /\ MayCall(x, "Flush") /\ st[x].werr = None /\ st[x].wwait = "no"
    /\ Buffered(st[x]) > 0
    /\ App(x, [st[x] EXCEPT !.wwait = "flush"])

Acknowledge(x) ==
    /\ MayCall(x, "Acknowledge") /\ st[x].werr = None /\ st[x].wacked = "no"
    /\ App(x, AcknowledgeStream(st[x]))

Close(x) ==
    /\ MayCall(x, "Close") /\ st[x].serr = None
    /\ \E e \in CloseErrs : App(x, CloseWithError(st[x], e))

CloseRead(x) ==
    /\ MayCall(x, "CloseRead") /\ st[x].rerr = None
    /\ \E e \in CloseErrs : App(x, SetReadError(st[x], e))

CloseWrite(x) ==
    /\ MayCall(x, "CloseWrite") /\ st[x].werr = None
    /\ \E e \in CloseErrs : App(x, SetWriteError(st[x], e))

\* A deadline expires and the parked goroutine returns with a timeout.
ReadTimeout(x) ==
    /\ MayCall(x, "SetDeadline") /\ st[x].rwait = "read"
    /\ App(x, [st[x] EXCEPT !.rwait = "no"])

WriteTimeout(x) ==
    /\ MayCall(x, "SetDeadline") /\ st[x].wwait # "no"
    /\ App(x, [st[x] EXCEPT !.wwait = "no"])

-----------------------------------------------------------------------------
WriteLoop(x) ==
    \/ TakeCtrl(x) \/ CtrlDiscard(x) \/ CtrlData(x) \/ CtrlWindow(x)
    \/ CtrlReset(x) \/ CtrlEOF(x) \/ CtrlDone(x) \/ TakeData(x)
    \/ WriteData(x) \/ NoData(x) \/ DataDone(x) \/ WriteFrame(x)
    \/ WriteFail(x) \/ SendConnError(x) \/ CloseNetwork(x)

ReadLoop(x) ==
    \/ ArriveOpen(x) \/ RefuseStream(x) \/ ArriveData(x) \/ ArriveReset(x)
    \/ ArriveWindow(x) \/ ArriveConnError(x) \/ ProcessDataFrame(x)
    \/ ProcessResetFrame(x) \/ ProcessWindowFrame(x) \/ ProcessConnError(x)
    \/ ReadFail(x)

Application(x) ==
    \/ Read(x) \/ Write(x) \/ Flush(x) \/ Acknowledge(x) \/ Close(x)
    \/ CloseRead(x) \/ CloseWrite(x) \/ ReadTimeout(x) \/ WriteTimeout(x)

Next ==
    \/ Break
    \/ \E x \in Side :
          \/ NewStream(x) \/ ConnClose(x) \/ CloseStreams(x) \/ Shutdown(x)
          \/ WriteLoop(x) \/ ReadLoop(x) \/ Application(x)

Spec == Init /\ [][Next]_vars

\* writeCtrl has something to do for s.
OwesCtrl(s) ==
    \/ NeedsDataCtrl(s) \/ NeedsWindow(s) \/ NeedsReset(s)
    \/ PendingBytes(s) = 0 /\ "NeedEOF" \in s.flags

\* The two ends and what is between them.
EndsTypeOK ==
    /\ DOMAIN st = Side /\ \A x \in Side : IsStream(st[x])
    /\ DOMAIN conn = Side /\ \A x \in Side : IsConn(conn[x])
    /\ net \in [Side -> Seq(Frame)]
    /\ link \in {"up", "down"}

\* Every variable keeps its type; in particular the window counters of
\* rawStreamRead and rawStreamWrite never go below zero.
TypeOK == EndsTypeOK /\ writing \in [Side -> BOOLEAN]
=============================================================================
