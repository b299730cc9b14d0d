------------------------------ MODULE RawStream ------------------------------
(***************************************************************************)
(* One end of a copper stream (rawstream.go) as a record, and the methods  *)
(* of rawStream as operators from records to records.  Every operator is   *)
(* one method that runs with stream.mu held; RawConn.tla decides when the  *)
(* lock is taken and released.                                             *)
(*                                                                         *)
(* Bytes are abstracted to their position in the direction they travel:    *)
(* a buffer is an interval of positions and a payload is the interval      *)
(* (pos, pos+len].  Channels that are closed under a condition are counted *)
(* (closing one twice panics in Go), and a goroutine parked on a condition *)
(* variable is a flag that Broadcast clears.                               *)
(***************************************************************************)
EXTENDS Integers

CONSTANTS Window,           \* settings.localStreamWindowSize of both ends
          WriteBufferSize,  \* streamWriteBufferSize
          MaxPayload        \* MaxDataFramePayloadSize

ASSUME SizesArePositive ==
    /\ Window \in Nat \ {0}
    /\ WriteBufferSize \in Nat \ {0}
    /\ MaxPayload \in Nat \ {0}

None == "nil"

\* Errors a stream or a connection is closed with.  EAPP is any error code an
\* application may choose, EOF is io.EOF and ENET any other network error.
ProtocolError == {"EINVALIDSTREAM", "EINVALIDFRAME", "EWINDOWOVERFLOW"}
Error == ProtocolError \cup
         {"EOF", "ECLOSED", "EAPP", "ECONNCLOSED", "ECONNSHUTDOWN",
          "EINTERNAL", "ENET"}

Flag == {"SeenEOF", "SentEOF", "SeenAck", "SeenReset",
         "NeedOpen", "NeedAck", "NeedReset", "NeedEOF"}
BothEOF == {"SeenEOF", "SentEOF"}
DiscardFlags == {"NeedOpen", "NeedReset", "NeedEOF"}
DataCtrl == {"NeedOpen", "NeedAck"}

\* The queues of rawConnOutgoing the stream may be in.
Queue == {"ctrl", "data"}

\* The fields of a stream.  Types are given field by field, as the fields are
\* what the proofs reason about.
StreamField ==
    {"where", "flags", "rerr", "werr", "serr", "rlo", "rhi", "rleft", "rinc",
     "wlo", "whi", "wleft", "wired", "wacked", "nacked", "nclosed", "queued",
     "rwait", "wwait", "got", "sent"}

IsStream(s) ==
    /\ DOMAIN s = StreamField
    /\ s.where \in {"none", "live", "gone"}  \* in conn.streams.live or not
    /\ s.flags \subseteq Flag
    /\ s.rerr \in Error \cup {None}          \* read.err
    /\ s.werr \in Error \cup {None}          \* write.err
    /\ s.serr \in Error \cup {None}          \* err
    /\ s.rlo \in Nat /\ s.rhi \in Nat        \* read.buf holds (rlo, rhi]
    /\ s.rleft \in Nat                       \* read.left
    /\ s.rinc \in Nat                        \* read.increment
    /\ s.wlo \in Nat /\ s.whi \in Nat        \* write.buf holds (wlo, whi]
    /\ s.wleft \in Nat                       \* write.left
    /\ s.wired \in Nat                       \* write.wired
    /\ s.wacked \in {"no", "yes"}            \* write.acked
    /\ s.nacked \in Nat                      \* times read.acked was closed
    /\ s.nclosed \in Nat                     \* times closed was closed
    /\ s.queued \subseteq Queue              \* inctrl and indata
    /\ s.rwait \in {"no", "read"}            \* parked on read.ready
    /\ s.wwait \in {"no", "write", "flush"}  \* parked on write.ready, flushed
    /\ s.got \in Nat                         \* history: payload bytes received
    /\ s.sent \in Nat                        \* history: payload bytes sent

\* A frame of this stream, or (CONN) the RESET of stream 0.  A DATA payload is
\* (pos, pos+len]; a WINDOW frame grants (pos, pos+len] of the receiver's
\* credit, of which only the increment len is on the wire.
Frame == [kind  : {"DATA", "RESET", "WINDOW", "CONN"},
          flags : SUBSET {"OPEN", "ACK", "EOF", "READ", "WRITE"},
          pos   : Int,
          len   : Nat,
          err   : Error \cup {None}]

NoStream == [where |-> "none", flags |-> {}, rerr |-> None, werr |-> None,
             serr |-> None, rlo |-> 0, rhi |-> 0, rleft |-> Window, rinc |-> 0,
             wlo |-> 0, whi |-> 0, wleft |-> Window, wired |-> 0,
             wacked |-> "no", nacked |-> 0, nclosed |-> 0, queued |-> {},
             rwait |-> "no", wwait |-> "no", got |-> 0, sent |-> 0]

Least(a, b) == IF a < b THEN a ELSE b

\* scheduleCtrl and scheduleData, when they are called under a condition
Ctrl(cond) == IF cond THEN {"ctrl"} ELSE {}
Data(cond) == IF cond THEN {"data"} ELSE {}

-----------------------------------------------------------------------------
\* Derived quantities

Buffered(s) == s.whi - s.wlo
Readable(s) == s.rhi - s.rlo
PendingBytes(s) == Buffered(s) - s.wired
ActiveData(s) == s.wleft > 0 /\ PendingBytes(s) > 0

ActiveEOF(s) ==
    /\ Buffered(s) = s.wired
    /\ "NeedEOF" \in s.flags
    /\ "NeedReset" \notin s.flags
    /\ s.werr = "ECLOSED"

\* Credit this end has granted to the remote, beyond the initial window.
Granted(s) == s.rleft + s.got - Window

\* Credit this end has received from the remote, beyond the initial window.
Credited(s) == s.wleft + s.sent - Window

-----------------------------------------------------------------------------
\* Creation and closing

NewIncoming(s) == [s EXCEPT !.where = "live"]

NewOutgoing(s) ==
    [NewIncoming(s) EXCEPT !.flags = {"NeedOpen"},
                            !.queued = @ \cup {"ctrl"}]

\* Mutant: the stream is removed as soon as this end has finished.
CleanupEarly(s) ==
    IF "SentEOF" \in s.flags THEN [s EXCEPT !.where = "gone"] ELSE s

Cleanup(s) ==
    IF BothEOF \subseteq s.flags THEN [s EXCEPT !.where = "gone"] ELSE s

\* Mutant: closed is closed whether or not the other side still is open.
SetReadErrorClosing(s, err) ==
    IF s.rerr # None THEN s
    ELSE [s EXCEPT !.rerr = err, !.nclosed = @ + 1,
                   !.nacked = IF "SeenAck" \notin s.flags THEN @ + 1 ELSE @,
                   !.flags = IF "SeenEOF" \notin @ THEN @ \cup {"NeedReset"}
                                                   ELSE @,
                   !.queued = @ \cup Ctrl("SeenEOF" \notin s.flags),
                   !.rinc = 0, !.rwait = "no"]

SetReadError(s, err) ==
    IF s.rerr # None THEN s
    ELSE [s EXCEPT !.rerr = err,
                   !.nclosed = IF s.werr # None THEN @ + 1 ELSE @,
                   !.nacked = IF "SeenAck" \notin s.flags THEN @ + 1 ELSE @,
                   !.flags = IF "SeenEOF" \notin @ THEN @ \cup {"NeedReset"}
                                                   ELSE @,
                   !.queued = @ \cup Ctrl("SeenEOF" \notin s.flags),
                   !.rinc = 0,
                   !.rwait = "no"]

\* Mutant: the pending EOF is not scheduled.
SetWriteErrorUnscheduled(s, err) ==
    IF s.werr # None THEN s
    ELSE [s EXCEPT !.werr = err,
                   !.nclosed = IF s.rerr # None THEN @ + 1 ELSE @,
                   !.flags = @ \cup {"NeedEOF"},
                   !.wwait = "no"]

SetWriteError(s, err) ==
    IF s.werr # None THEN s
    ELSE [s EXCEPT !.werr = err,
                   !.nclosed = IF s.rerr # None THEN @ + 1 ELSE @,
                   !.flags = @ \cup {"NeedEOF"},
                   !.queued = @ \cup Ctrl(Buffered(s) = s.wired),
                   !.wwait = "no"]

CloseErr(err) == IF err = "EOF" THEN "ECLOSED" ELSE err

CloseWithError(s, err) ==
    IF s.serr # None THEN s
    ELSE SetWriteError(SetReadError([s EXCEPT !.serr = CloseErr(err)],
                                    CloseErr(err)),
                       CloseErr(err))

ClearWriteBuffer(s) ==
    [s EXCEPT !.wlo = s.whi,
              !.wired = 0,
              !.wwait = IF @ = "flush" THEN "no" ELSE @,
              !.queued = @ \cup Ctrl("NeedEOF" \in s.flags)]

-----------------------------------------------------------------------------
\* Incoming frames

\* Mutant: a RESET that was due before the EOF arrived stays due.
SeeEOFKeepingReset(s, err) ==
    Cleanup(SetReadError([s EXCEPT !.flags = @ \cup {"SeenEOF"}], err))

\* The remote will send no more data: EOF on DATA, or RESET with WRITE.
SeeEOF(s, err) ==
    Cleanup(SetReadError(
        [s EXCEPT !.flags = (@ \cup {"SeenEOF"}) \ {"NeedReset"}], err))

SeeAck(s) ==
    [s EXCEPT !.flags = @ \cup {"SeenAck"},
              !.nacked = IF s.rerr = None /\ "SeenAck" \notin s.flags
                         THEN @ + 1 ELSE @]

\* Mutant: the reader is not woken up.
AcceptQuietly(s, len) ==
    [s EXCEPT !.rhi = IF s.rerr = None THEN @ + len ELSE @,
              !.rleft = @ - len,
              !.got = @ + len]

AcceptPayload(s, len) ==
    [s EXCEPT !.rhi = IF s.rerr = None THEN @ + len ELSE @,
              !.rwait = IF s.rerr = None /\ len > 0 THEN "no" ELSE @,
              !.rleft = @ - len,
              !.got = @ + len]

\* The connection-level error processDataLocked returns, if any.
DataError(s, f) ==
    IF "SeenEOF" \in s.flags THEN "EINVALIDSTREAM"
    ELSE IF f.len > s.rleft THEN "EWINDOWOVERFLOW" ELSE None

ProcessData(s, f) ==
    LET acked == IF "ACK" \in f.flags THEN SeeAck(s) ELSE s
        taken == AcceptPayload(acked, f.len)
    IN CASE DataError(s, f) = "EINVALIDSTREAM"  -> s
         [] DataError(s, f) = "EWINDOWOVERFLOW" -> acked
         [] DataError(s, f) = None -> IF "EOF" \in f.flags
                                      THEN SeeEOF(taken, "EOF") ELSE taken

ProcessReset(s, f) ==
    LET seen == [s EXCEPT !.flags = @ \cup {"SeenReset"}]
        cut  == IF "READ" \in f.flags
                THEN SetWriteError(ClearWriteBuffer(seen), f.err) ELSE s
    IN IF "WRITE" \in f.flags
       THEN SeeEOF(cut, IF f.err = "ECLOSED" THEN "EOF" ELSE f.err)
       ELSE cut

\* Mutant: pending data is not scheduled when the window opens.
ChangeWindowQuietly(s, diff) == [s EXCEPT !.wleft = @ + diff]

ChangeWriteWindow(s, diff) ==
    [s EXCEPT !.wleft = @ + diff,
              !.queued = @ \cup Data(/\ s.wleft <= 0 /\ PendingBytes(s) > 0
                                     /\ s.wleft + diff > 0)]

-----------------------------------------------------------------------------
\* Outgoing frames

PayloadSize(s) == Least(Least(Buffered(s), s.wleft), MaxPayload)

PrepareData(s) ==
    LET n == PayloadSize(s)
    IN IF n > 0 THEN [s EXCEPT !.wired = n, !.wleft = @ - n, !.sent = @ + n]
                ELSE s

OutgoingFlags(s) ==
    (IF "NeedOpen" \in s.flags THEN {"OPEN"} ELSE {}) \cup
    (IF "NeedAck" \in s.flags THEN {"ACK"} ELSE {}) \cup
    (IF ActiveEOF(s) THEN {"EOF"} ELSE {})

AfterOutgoingFlags(s) ==
    LET rest == s.flags \ DataCtrl
    IN IF ActiveEOF(s)
       THEN Cleanup([s EXCEPT !.flags = (rest \ {"NeedEOF"}) \cup {"SentEOF"}])
       ELSE [s EXCEPT !.flags = rest]

DataFrame(s, flags, n) ==
    [kind |-> "DATA", flags |-> flags, pos |-> s.wlo, len |-> n, err |-> None]

\* writeData re-registers the stream after preparing a payload.
Reschedule(s) ==
    [s EXCEPT !.queued = @ \cup
        IF ActiveData(s) THEN {"data"}
        ELSE Ctrl(Buffered(s) = s.wired /\ "NeedEOF" \in s.flags)]

\* Mutants: the payload stays in the buffer; blocked writers are not woken up.
AfterWriteKeeping(s) == [s EXCEPT !.wired = 0]
AfterWriteQuietly(s) == [s EXCEPT !.wlo = @ + s.wired, !.wired = 0]

\* The payload has been handed to the network: drop it and wake writers up.
AfterWrite(s) ==
    LET left == Buffered(s) - s.wired
    IN [s EXCEPT !.wlo = @ + s.wired,
                 !.wired = 0,
                 !.wwait = IF \/ @ = "write" /\ left < WriteBufferSize
                              \/ @ = "flush" /\ left = 0
                           THEN "no" ELSE @]

\* The nothing-was-ever-sent shortcut at the top of writeCtrl.
CanDiscard(s) == DiscardFlags \subseteq s.flags /\ Buffered(s) = 0
DiscardStream(s) == Cleanup([s EXCEPT !.flags = BothEOF])

\* Mutant: EOF does not wait for the write buffer to drain.
NeedsEOFEarly(s) == "NeedEOF" \in s.flags

\* The four frames of writeCtrl's loop, in the order it tries them.
NeedsDataCtrl(s) == s.flags \cap DataCtrl # {} /\ "SentEOF" \notin s.flags
NeedsWindow(s) == s.rinc > 0
NeedsReset(s) == "NeedReset" \in s.flags
NeedsEOF(s) == Buffered(s) = 0 /\ "NeedEOF" \in s.flags

WindowFrame(s) == [kind |-> "WINDOW", flags |-> {}, pos |-> Granted(s),
                   len |-> s.rinc, err |-> None]
AfterWindow(s) == [s EXCEPT !.rleft = @ + s.rinc, !.rinc = 0]

WireErr(err) == IF err = "ECONNCLOSED" THEN "ECONNSHUTDOWN"
                ELSE IF err \in ProtocolError \cup {"ENET", "EOF"}
                THEN "EINTERNAL" ELSE err

ResetErr(s) == IF s.rerr = "EOF" THEN "ECLOSED" ELSE s.rerr
Coalesce(s) == NeedsEOF(s) /\ s.werr = ResetErr(s)

ResetFrame(flags, err) == [kind |-> "RESET", flags |-> flags, pos |-> 0,
                           len |-> 0, err |-> WireErr(err)]

SentEOF(s) ==
    Cleanup([s EXCEPT !.flags = (@ \ {"NeedEOF"}) \cup {"SentEOF"}])

ReadReset(s) ==
    ResetFrame(IF Coalesce(s) THEN {"READ", "WRITE"} ELSE {"READ"}, ResetErr(s))
AfterReadReset(s) ==
    LET r == [s EXCEPT !.flags = @ \ {"NeedReset"}]
    IN IF Coalesce(s) THEN SentEOF(r) ELSE r

EOFFrame(s) == IF s.werr = "ECLOSED" THEN DataFrame(s, {"EOF"}, 0)
               ELSE ResetFrame({"WRITE"}, s.werr)

-----------------------------------------------------------------------------
\* Application calls

\* Mutant: an increment that was not sent yet is overwritten.
ReadBytesOverwriting(s, n) ==
    [s EXCEPT !.rlo = @ + n,
              !.rinc = IF s.rerr = None THEN n ELSE @,
              !.queued = @ \cup Ctrl(s.rerr = None)]

ReadBytes(s, n) ==
    [s EXCEPT !.rlo = @ + n,
              !.rinc = IF s.rerr = None THEN @ + n ELSE @,
              !.queued = @ \cup Ctrl(s.rerr = None)]

WriteBytes(s, n) ==
    [s EXCEPT !.whi = @ + n, !.queued = @ \cup Data(s.wleft > 0)]

AcknowledgeStream(s) ==
    [s EXCEPT !.flags = @ \cup {"NeedAck"}, !.wacked = "yes",
              !.queued = @ \cup {"ctrl"}]
=============================================================================
