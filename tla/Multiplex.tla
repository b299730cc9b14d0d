------------------------------ MODULE Multiplex ------------------------------
(***************************************************************************)
(* What the streams of one connection share at one end: the ids            *)
(* (StreamIDs), the map of live streams, the queues of the write loop      *)
(* (rawconn_outgoing.go), the pings (rawconn_pings.go) and the answers to  *)
(* PING and SETTINGS frames.                                               *)
(*                                                                         *)
(* A stream is an object with an id; what RawStream says of it is reduced  *)
(* to that it may ask for the write loop at any time while it is open, and *)
(* leaves the map when it is fully closed.  The other end runs the same    *)
(* code: it pings, and answers pings in the order it got them.             *)
(***************************************************************************)
EXTENDS StreamIDs, StreamQueue, FiniteSetsExt

CONSTANTS Ping,         \* calls of Ping
          PingData,     \* PingData[p]: the data call p sends
          Loads         \* bounds: what may happen to a connection

Data == {PingData[p] : p \in Ping}

\* A load bounds the streams opened, the pings sent from here, the PING and
\* SETTINGS frames of the other end, and says whether the connection may fail.
ASSUME LoadsAssumption ==
    Loads \subseteq [open : Nat, ping : SUBSET Ping, pings : Nat,
                     settings : Nat, fail : BOOLEAN]

VARIABLES load,     \* the load of this behaviour, chosen at the start
          object,   \* streams in the order they were opened
          failed,   \* conn.failure # nil, and so streams.err # nil
          closing,  \* streams.failLocked: where it stands, streams it closed
          out,      \* rawConnOutgoing
          loop,     \* the write loop
          reader,   \* the read loop
          pings,    \* rawConnPings
          ping,     \* ping[p]: what became of the call
          wire,     \* pings written, whose answers have not been read
          peer,     \* what the other end has sent and got answers for
          link      \* "up", or "down" once the network is broken

streams == <<idVars, object, closing>>
calls == <<pings, ping>>
vars == <<load, streams, failed, out, loop, reader, calls, wire, peer, link>>

NewOutgoing == [err |-> FALSE, writeready |-> FALSE, pingAcks |-> <<>>,
                pingQueue |-> <<>>, settingsAcks |-> 0,
                ctrl |-> EmptyQueue, data |-> EmptyQueue,
                inctrl |-> {}, indata |-> {}]
Waiting == [pc |-> "wait", batch |-> <<>>, stream |-> Nil]
NewPings == [err |-> FALSE, callbacks |-> [d \in Data |-> <<>>]]

Init ==
    /\ load \in Loads
    /\ IDInit /\ object = <<>> /\ closing = [pc |-> "no", closed |-> {}]
    /\ failed = FALSE
    /\ out = NewOutgoing /\ loop = Waiting /\ reader = "reading"
    /\ pings = NewPings /\ ping = [p \in Ping |-> "idle"]
    /\ wire = <<>>
    /\ peer = [pings |-> 0, acks |-> 0, settings |-> 0, settingsAcks |-> 0]
    /\ link = "up"

-----------------------------------------------------------------------------
\* rawConnOutgoing, as functions of its state.  Each is one critical section.

Wakeup(o) == [o EXCEPT !.writeready = TRUE]

\* Mutant: an answer with the same data is queued only once.
AddPingAckOnce(o, d) ==
    IF d \in Range(o.pingAcks) THEN o
    ELSE Wakeup([o EXCEPT !.pingAcks = Append(@, d)])

AddPingAck(o, d) == Wakeup([o EXCEPT !.pingAcks = Append(@, d)])

AddPingQueue(o, d) ==
    IF o.err THEN o ELSE Wakeup([o EXCEPT !.pingQueue = Append(@, d)])

AddSettingsAck(o) == Wakeup([o EXCEPT !.settingsAcks = @ + 1])

\* Mutant: a stream is queued again although it is in the queue.
AddCtrlTwice(o, s) ==
    Wakeup([o EXCEPT !.ctrl = Push(@, s), !.inctrl = @ \cup {s}])

AddCtrl(o, s) ==
    IF s \in o.inctrl THEN o
    ELSE Wakeup([o EXCEPT !.ctrl = Push(@, s), !.inctrl = @ \cup {s}])

\* Mutant: the write loop is not woken up.
AddDataSilently(o, s) ==
    IF s \in o.indata THEN o
    ELSE [o EXCEPT !.data = Push(@, s), !.indata = @ \cup {s}]

\* Mutant: the stream changes places with the oldest one of the queue.
AddDataFirst(o, s) ==
    LET q == Push(o.data, s)
    IN IF s \in o.indata THEN o
       ELSE Wakeup([o EXCEPT !.data = [q EXCEPT !.buf[Slot(q, o.data.size)] = Oldest(q),
                                                !.buf[q.off] = s],
                             !.indata = @ \cup {s}])

AddData(o, s) ==
    IF s \in o.indata THEN o
    ELSE Wakeup([o EXCEPT !.data = Push(@, s), !.indata = @ \cup {s}])

FailOutgoing(o) == IF o.err THEN o ELSE Wakeup([o EXCEPT !.err = TRUE])

ClearPingQueue(o) == [o EXCEPT !.pingQueue = <<>>]

-----------------------------------------------------------------------------
\* Streams

Streams == DOMAIN object
IsLive(s) == object[s].state \in {"open", "closed"}
LiveStreams == {s \in Streams : IsLive(s)}

\* Mutant: a stream is opened although the connection has failed.
NewStreamAnyway ==
    /\ Len(object) < load.open
    /\ Allocate
    /\ UNCHANGED <<load, object, closing, failed, out, loop, reader, calls, wire,
                   peer, link>>

\* NewStream: the id is looked for with conn.mu held.
NewStream ==
    /\ Len(object) < load.open /\ ~failed
    /\ Allocate
    /\ UNCHANGED <<load, object, closing, failed, out, loop, reader, calls, wire,
                   peer, link>>

AllocateTurn ==
    /\ InUse \/ GiveUp
    /\ UNCHANGED <<load, object, closing, failed, out, loop, reader, calls, wire,
                   peer, link>>

\* The new stream is in the map and asks for its OPEN to be sent.
StreamMade ==
    /\ Found
    /\ object' = Append(object, [id |-> next, state |-> "open"])
    /\ out' = AddCtrl(out, Len(object) + 1)
    /\ UNCHANGED <<load, closing, failed, loop, reader, calls, wire, peer, link>>

\* A live stream has frames to send, for whatever reason.
ScheduleCtrl(s) ==
    /\ object[s].state = "open" /\ s \notin out.inctrl
    /\ out' = AddCtrl(out, s)
    /\ UNCHANGED <<load, streams, failed, loop, reader, calls, wire, peer, link>>

ScheduleData(s) ==
    /\ object[s].state = "open" /\ s \notin out.indata
    /\ out' = AddData(out, s)
    /\ UNCHANGED <<load, streams, failed, loop, reader, calls, wire, peer, link>>

\* Both sides of the stream are closed: cleanupLocked.  The object may still
\* be in a queue while its id is given to another.
RemoveStream(s) ==
    /\ IsLive(s)
    /\ RemoveID(object[s].id)
    /\ object' = [object EXCEPT ![s].state = "gone"]
    /\ UNCHANGED <<load, closing, failed, out, loop, reader, calls, wire,
                   peer, link>>

\* One turn of streams.failLocked: with conn.mu released the stream is closed,
\* which has it write its RESET.  Streams may leave the map meanwhile; one that
\* would enter it may or may not be met.
CloseNext(s) ==
    /\ closing.pc = "loop" /\ ~scanning
    /\ s \in LiveStreams \ closing.closed
    /\ closing' = [closing EXCEPT !.closed = @ \cup {s}]
    /\ object' = [object EXCEPT ![s].state = "closed"]
    /\ out' = AddCtrl(out, s)
    /\ UNCHANGED <<load, idVars, failed, loop, reader, calls, wire, peer, link>>

CloseDone ==
    /\ closing.pc = "loop" /\ ~scanning
    /\ LiveStreams \subseteq closing.closed
    /\ closing' = [closing EXCEPT !.pc = "done"]
    /\ UNCHANGED <<load, idVars, object, failed, out, loop, reader, calls, wire,
                   peer, link>>

-----------------------------------------------------------------------------
\* Failure of the connection: closeWithError.  An allocation holds conn.mu.

Fail ==
    /\ ~scanning
    /\ failed' = TRUE
    /\ out' = IF failed THEN out ELSE ClearPingQueue(FailOutgoing(out))
    /\ closing' = IF failed THEN closing ELSE [closing EXCEPT !.pc = "loop"]
    /\ UNCHANGED <<idVars, object>>

CloseConn ==
    /\ load.fail /\ ~failed /\ Fail
    /\ UNCHANGED <<load, loop, reader, calls, wire, peer, link>>

Break ==
    /\ load.fail /\ link = "up" /\ link' = "down"
    /\ UNCHANGED <<load, streams, failed, out, loop, reader, calls, wire, peer>>

-----------------------------------------------------------------------------
\* Pings

\* The callbacks of P are called.
Called(P, how) ==
    [p \in Ping |-> IF p \notin P THEN ping[p]
                    ELSE IF ping[p] \in {"idle", "waiting"} THEN how
                    ELSE "twice"]

AddPing(p) ==
    LET d == PingData[p]
    IN /\ p \in load.ping /\ ping[p] = "idle"
       /\ IF pings.err
          THEN ping' = Called({p}, "failed") /\ UNCHANGED <<pings, out>>
          ELSE /\ ping' = [ping EXCEPT ![p] = "waiting"]
               /\ pings' = [pings EXCEPT !.callbacks[d] = Append(@, p)]
               /\ out' = AddPingQueue(out, d)
       /\ UNCHANGED <<load, streams, failed, loop, reader, wire, peer, link>>

HandleAck(d) ==
    LET c == pings.callbacks[d]
    IN IF c = <<>> THEN UNCHANGED calls
       ELSE /\ ping' = Called({Head(c)}, "ok")
            /\ pings' = [pings EXCEPT !.callbacks[d] = Tail(@)]

\* Mutant: callbacks that wait are not called.
FailPingsSilently ==
    /\ pings' = [pings EXCEPT !.err = TRUE]
    /\ out' = ClearPingQueue(out)
    /\ UNCHANGED ping

\* rawConnPings.fail
FailPings ==
    /\ pings' = [NewPings EXCEPT !.err = TRUE]
    /\ out' = ClearPingQueue(out)
    /\ ping' = Called(UNION {Range(pings.callbacks[d]) : d \in Data}, "failed")

-----------------------------------------------------------------------------
\* The write loop

Goto(pc, batch, s) == loop' = [pc |-> pc, batch |-> batch, stream |-> s]
Again == Goto("turn", <<>>, Nil)

\* What a turn of writeFrames finds, with outgoing.mu held.
Work(o) ==
    IF o.err THEN "error"
    ELSE IF o.pingAcks # <<>> THEN "acks"
    ELSE IF o.pingQueue # <<>> THEN "pings"
    ELSE IF o.settingsAcks > 0 THEN "settings"
    ELSE IF o.ctrl.size > 0 THEN "ctrl"
    ELSE IF o.data.size > 0 THEN "data"
    ELSE "none"

\* The loop is at the top of a turn, maybe woken up just now.
AtTurn ==
    \/ loop.pc = "turn"
    \/ loop.pc = "wait" /\ out.writeready

Turn(work, o) ==
    /\ AtTurn /\ Work(out) = work
    /\ out' = o
    /\ UNCHANGED <<load, streams, failed, reader, calls, wire, peer, link>>

TakeAcks ==
    /\ Turn("acks", [out EXCEPT !.pingAcks = <<>>])
    /\ Goto("acks", out.pingAcks, Nil)

TakePings ==
    /\ Turn("pings", [out EXCEPT !.pingQueue = <<>>])
    /\ Goto("pings", out.pingQueue, Nil)

TakeSettings ==
    /\ Turn("settings", [out EXCEPT !.settingsAcks = @ - 1])
    /\ Goto("settings", <<>>, Nil)

TakeCtrl ==
    LET s == Oldest(out.ctrl)
    IN /\ Turn("ctrl", [out EXCEPT !.ctrl = Take(@), !.inctrl = @ \ {s}])
       /\ Goto("ctrl", <<>>, s)

TakeData ==
    LET s == Oldest(out.data)
    IN /\ Turn("data", [out EXCEPT !.data = Take(@), !.indata = @ \ {s}])
       /\ Goto("data", <<>>, s)

Sleep ==
    /\ Turn("none", [out EXCEPT !.writeready = FALSE])
    /\ Goto("wait", <<>>, Nil)

\* The frames of a batch are written one by one, with no lock held.
WriteAck ==
    /\ loop.pc = "acks" /\ link = "up"
    /\ peer' = [peer EXCEPT !.acks = @ + 1]
    /\ IF Len(loop.batch) = 1 THEN Again ELSE Goto("acks", Tail(loop.batch), Nil)
    /\ UNCHANGED <<load, streams, failed, out, reader, calls, wire, link>>

WritePing ==
    /\ loop.pc = "pings" /\ link = "up"
    /\ wire' = Append(wire, Head(loop.batch))
    /\ IF Len(loop.batch) = 1 THEN Again ELSE Goto("pings", Tail(loop.batch), Nil)
    /\ UNCHANGED <<load, streams, failed, out, reader, calls, peer, link>>

WriteSettingsAck ==
    /\ loop.pc = "settings" /\ link = "up"
    /\ peer' = [peer EXCEPT !.settingsAcks = @ + 1]
    /\ Again
    /\ UNCHANGED <<load, streams, failed, out, reader, calls, wire, link>>

WriteCtrl ==
    /\ loop.pc = "ctrl" /\ link = "up"
    /\ Again
    /\ UNCHANGED <<load, streams, failed, out, reader, calls, wire, peer, link>>

\* A stream that has more data asks for another turn.
WriteData ==
    /\ loop.pc = "data" /\ link = "up"
    /\ Again
    /\ \/ UNCHANGED out
       \/ IsLive(loop.stream) /\ out' = AddData(out, loop.stream)
    /\ UNCHANGED <<load, streams, failed, reader, calls, wire, peer, link>>

WriteFail ==
    /\ loop.pc \in {"acks", "pings", "settings", "ctrl", "data"}
    /\ link = "down"
    /\ Fail
    /\ Goto("stopped", <<>>, Nil)
    /\ UNCHANGED <<load, reader, calls, wire, peer, link>>

\* The other end is told, if it can be, and the loop returns.
SendConnError ==
    /\ AtTurn /\ Work(out) = "error"
    /\ Goto("stopped", <<>>, Nil)
    /\ UNCHANGED <<load, streams, failed, out, reader, calls, wire, peer, link>>

\* Nothing was written for a while: a frame without content will be.
KeepAlive ==
    /\ ~out.writeready /\ loop.pc \notin {"stopped", "closed"}
    /\ out' = Wakeup(out)
    /\ UNCHANGED <<load, streams, failed, loop, reader, calls, wire, peer, link>>

\* After the read loop or a grace period.
CloseNetwork ==
    /\ loop.pc = "stopped" /\ link' = "down"
    /\ Goto("closed", <<>>, Nil)
    /\ UNCHANGED <<load, streams, failed, out, reader, calls, wire, peer>>

-----------------------------------------------------------------------------
\* The read loop

Reading == reader = "reading" /\ link = "up"

ArrivePing ==
    /\ Reading /\ peer.pings < load.pings
    /\ peer' = [peer EXCEPT !.pings = @ + 1]
    /\ \E d \in Data : out' = AddPingAck(out, d)
    /\ UNCHANGED <<load, streams, failed, loop, reader, calls, wire, link>>

ArriveAck ==
    /\ Reading /\ wire # <<>>
    /\ HandleAck(Head(wire))
    /\ wire' = Tail(wire)
    /\ UNCHANGED <<load, streams, failed, out, loop, reader, peer, link>>

\* SettingsFrame.Value never finds a value, so that SETTINGS change nothing.
ArriveSettings ==
    /\ Reading /\ peer.settings < load.settings
    /\ peer' = [peer EXCEPT !.settings = @ + 1]
    /\ out' = AddSettingsAck(out)
    /\ UNCHANGED <<load, streams, failed, loop, reader, calls, wire, link>>

\* The other end sent its error.  The write loop is told at once, before the
\* connection fails: calls of Ping in between are registered, not queued.
ArriveConnError ==
    /\ Reading /\ load.fail
    /\ out' = FailOutgoing(out)
    /\ reader' = "told"
    /\ UNCHANGED <<load, streams, failed, loop, calls, wire, peer, link>>

\* The error of the other end is returned, or the network failed.
ReadFail ==
    /\ reader = "told" \/ (reader = "reading" /\ link = "down")
    /\ Fail
    /\ reader' = "failing"
    /\ UNCHANGED <<load, loop, calls, wire, peer, link>>

\* The end of readloop.  It calls streams.failLocked again, which closes only
\* streams that FailStreams closes anyway, and finds no settings callback.
ReaderEnds ==
    /\ reader = "failing"
    /\ FailPings
    /\ reader' = "stopped"
    /\ UNCHANGED <<load, streams, failed, loop, wire, peer, link>>

-----------------------------------------------------------------------------
Allocation == AllocateTurn \/ StreamMade

FailStreams == CloseDone \/ \E s \in Streams : CloseNext(s)

WriteLoop ==
    \/ TakeAcks \/ TakePings \/ TakeSettings \/ TakeCtrl \/ TakeData \/ Sleep
    \/ WriteAck \/ WritePing \/ WriteSettingsAck \/ WriteCtrl \/ WriteData
    \/ WriteFail \/ SendConnError \/ CloseNetwork

\* What the read loop does by itself when something is there to read.
ReadLoop == ArriveAck \/ ReadFail \/ ReaderEnds

Next ==
    \/ NewStream \/ Allocation \/ FailStreams
    \/ \E s \in Streams :
          ScheduleCtrl(s) \/ ScheduleData(s) \/ RemoveStream(s)
    \/ \E p \in Ping : AddPing(p)
    \/ CloseConn \/ Break
    \/ KeepAlive \/ WriteLoop
    \/ ArrivePing \/ ArriveSettings \/ ArriveConnError \/ ReadLoop

Spec == Init /\ [][Next]_vars

\* The goroutines of this end keep running, and the other end answers pings.
FairSpec ==
    /\ Spec
    /\ WF_vars(Allocation)
    /\ WF_vars(FailStreams)
    /\ WF_vars(WriteLoop)
    /\ WF_vars(ReadLoop)

-----------------------------------------------------------------------------
\* The shape of the state; the callback of a ping is called at most once.
TypeOK ==
    /\ live = {object[s].id : s \in LiveStreams}
    /\ failed \in BOOLEAN
    /\ closing.pc \in {"no", "loop", "done"}
    /\ out.settingsAcks \in 0 .. load.settings
    /\ loop.pc \in {"wait", "turn", "acks", "pings", "settings", "ctrl", "data",
                    "stopped", "closed"}
    /\ reader \in {"reading", "told", "failing", "stopped"}
    /\ ping \in [Ping -> {"idle", "waiting", "ok", "failed"}]

\* The write loop sleeps only when there is nothing to write, whoever adds work
\* while it runs and whatever it was doing.
NoWorkForgotten ==
    loop.pc = "wait" /\ ~out.writeready => Work(out) = "none"

\* A stream is in a queue at most once, and inctrl and indata say whether it is,
\* also when it has left the map and another one has its id.
FlagsMatchQueues ==
    LET ctrl == Contents(out.ctrl)
        data == Contents(out.data)
    IN /\ IsInjective(ctrl) /\ Range(ctrl) = out.inctrl
       /\ IsInjective(data) /\ Range(data) = out.indata

\* q became r by at most one push or take of a first-in first-out queue.
FIFOStep(q, r) ==
    \/ r = q
    \/ q # <<>> /\ r = Tail(q)
    \/ r # <<>> /\ q = SubSeq(r, 1, Len(r) - 1)

\* The rings of streams are first-in first-out queues, while they wrap around
\* and grow: no stream overtakes another one.
QueuesAreFIFO ==
    [][/\ FIFOStep(Contents(out.ctrl), Contents(out'.ctrl))
       /\ FIFOStep(Contents(out.data), Contents(out'.data))]_vars

Count(f, d) == Cardinality({i \in DOMAIN f : f[i] = d})
Batch(pc) == IF loop.pc = pc THEN loop.batch ELSE <<>>

\* Until the write loop is told to stop (outgoing.fail) there is for every
\* callback one ping with its data on the way, and no other: an answer always
\* finds a callback, and pings with the same data get one answer each.  Every
\* PING and every SETTINGS of the other end has one answer written or waiting to
\* be.  After that, too, a call of Ping that has no result yet has its callback
\* registered, once, and no other call has: one that is made between
\* outgoing.fail and pings.fail is not sent, but does not lose its callback.
AnswersConserved ==
    /\ \A p \in Ping : Count(pings.callbacks[PingData[p]], p) =
                          IF ping[p] = "waiting" THEN 1 ELSE 0
    /\ ~out.err =>
          /\ \A d \in Data :
                Len(pings.callbacks[d]) =
                   Count(out.pingQueue, d) + Count(Batch("pings"), d)
                   + Count(wire, d)
          /\ peer.pings = Len(out.pingAcks) + Len(Batch("acks")) + peer.acks
          /\ peer.settings = out.settingsAcks + peer.settingsAcks
                             + (IF loop.pc = "settings" THEN 1 ELSE 0)

\* Every Ping gets its result, whenever the connection fails or the network
\* breaks, and although pings and answers share the write loop with streams.
PingsComplete == []<>(\A p \in Ping : ping[p] # "waiting")

\* A stream with data gets its turn however much the others have, once there
\* are no more control frames, which go first.
NoStarvation ==
    <>[](out.inctrl = {})
    => \A s \in 1 .. Max({l.open : l \in Loads}) :
          []<>(failed \/ s \notin out.indata)

\* A failed connection closes every stream, also one that was being opened; and
\* allocateLocked, which holds conn.mu and so keeps the connection from failing,
\* stops at a free id or at its second wraparound.
FailureClosesAll ==
    []<>(~scanning /\ (failed => \A s \in Streams : object[s].state # "open"))
=============================================================================
