------------------------------ MODULE Passthru ------------------------------
(***************************************************************************)
(* A server that forwards a request copies each direction of one stream to *)
(* another (passthru.go).  This module is one direction: bytes arrive in   *)
(* the read buffer of src, are peeked, written to the write buffer of dst, *)
(* discarded, and sent by the write loop of dst's connection.  Three       *)
(* goroutines serve it: the copy loop, one that waits for dst's write side *)
(* to be closed and one that waits for src to be acknowledged.             *)
(*                                                                         *)
(* Unlike RawStream this module keeps the bytes and the memory they are in *)
(* (RingBuffer): both peek calls return slices of a buffer that others     *)
(* write to meanwhile.  Frames are on no wire: what happens to them there  *)
(* is the subject of RawConn.  A byte is its position in the stream.       *)
(***************************************************************************)
EXTENDS RingBuffer

CONSTANTS Window,           \* the stream window of the server
          WriteBufferSize,  \* streamWriteBufferSize
          MaxPayload,       \* MaxDataFramePayloadSize
          Loads             \* bounds: what may happen to the stream

ASSUME PassthruSizes ==
    /\ {Window, WriteBufferSize, MaxPayload} \subseteq Nat \ {0}

None == "nil"
Error == {"EOF", "ECLOSED", "EAPP"}   \* EAPP is any other error

\* A load bounds the bytes that are sent, says whether the sender acknowledges
\* and with what the two ends may be closed, other than EOF from the sender.
ASSUME LoadsAssumption ==
    Loads \subseteq [sent : Nat, ack : BOOLEAN, errs : SUBSET {"ECLOSED", "EAPP"}]

VARIABLES load,      \* the load of this behaviour, chosen at the start
          sent,      \* bytes that have arrived from the sender
          sender,    \* "open", or how the sender ended ("cut" is io.EOF on
                     \* its connection)
          src,       \* read side of src
          dst,       \* write side of dst
          copier,    \* the copy loop
          watcher,   \* the goroutine that waits for dst.WriteClosed
          acker,     \* the goroutine that waits for src.Acknowledged
          wloop,     \* the write loop of dst's connection, busy with dst
          received,  \* bytes the receiver got
          receiver   \* "open", or how the stream ended for the receiver

source == <<sent, sender, src>>
sink == <<dst, wloop, received, receiver>>
vars == <<load, source, sink, copier, watcher, acker>>

AtPeek == [pc |-> "peek", slice |-> NoSlice, n |-> 0, err |-> None, werr |-> None]
Idle == [pc |-> "idle", slice |-> NoSlice, eof |-> FALSE]

Init ==
    /\ load \in Loads
    /\ sent = 0 /\ sender = "open"
    /\ src = [buf |-> EmptyBuffer, left |-> Window, err |-> None,
              acked |-> FALSE]
    /\ dst = [buf |-> EmptyBuffer, left |-> Window, err |-> None,
              acked |-> FALSE, ended |-> FALSE]
    /\ copier = AtPeek /\ watcher = "waiting" /\ acker = "waiting"
    /\ wloop = Idle
    /\ received = <<>> /\ receiver = "open"

CloseErr(err) == IF err = "EOF" THEN "ECLOSED" ELSE err
Least(a, b) == IF a < b THEN a ELSE b

-----------------------------------------------------------------------------
\* The read loop of src's connection.  What arrives after the read side was
\* closed here changes nothing here.

\* DATA
Arrive(n) ==
    /\ src.err = None /\ n <= src.left /\ sent + n <= load.sent
    /\ sent' = sent + n
    /\ src' = [src EXCEPT !.left = @ - n,
                          !.buf = BufferWrite(@, [i \in 1 .. n |-> sent + i])]
    /\ copier' = [copier EXCEPT !.slice = Kept(@, src.buf, Grows(src.buf, n))]
    /\ UNCHANGED <<load, sender, sink, watcher, acker>>

\* The flag ACK on a DATA frame
ArriveAck ==
    /\ load.ack /\ src.err = None /\ ~src.acked
    /\ src' = [src EXCEPT !.acked = TRUE]
    /\ UNCHANGED <<load, sent, sender, sink, copier, watcher, acker>>

\* EOF, RESET, or the end of the connection.  The io.EOF of a connection that
\* the sender's end left closes its streams with ECLOSED.
ArriveEnd(err) ==
    /\ src.err = None
    /\ sender' = IF err = "EOF" THEN "closed"
                 ELSE IF err = "ECLOSED" THEN "cut" ELSE "broken"
    /\ src' = [src EXCEPT !.err = err]
    /\ UNCHANGED <<load, sent, sink, copier, watcher, acker>>

CloseReadWithError(err) ==
    src' = [src EXCEPT !.err = IF @ = None THEN CloseErr(err) ELSE @]

-----------------------------------------------------------------------------
\* The copy loop.  It holds the mutex write from Lock to Discard.

Goto(pc) == copier' = [copier EXCEPT !.pc = pc]
Return == copier' = [AtPeek EXCEPT !.pc = "done"]
Locked == copier.pc \in {"write", "discard"}

Peeked(pc, slice) ==
    copier' = [AtPeek EXCEPT !.pc = pc, !.err = src.err, !.slice = slice]

\* Mutant: the error is returned before the data that is left.
PeekErrorFirst ==
    LET b == Contiguous(src.buf)
    IN /\ copier.pc = "peek"
       /\ src.buf.size > 0 \/ src.err # None
       /\ IF src.err = None
          THEN src' = [src EXCEPT !.buf = b] /\ Peeked("lock", SliceOf(b, b.size))
          ELSE Peeked("ack", NoSlice) /\ UNCHANGED src
       /\ UNCHANGED <<load, sent, sender, sink, watcher, acker>>

\* All data there is, and the error if no more will come.
Peek ==
    LET b == Contiguous(src.buf)
    IN /\ copier.pc = "peek"
       /\ src.buf.size > 0 \/ src.err # None
       /\ IF src.buf.size > 0
          THEN src' = [src EXCEPT !.buf = b] /\ Peeked("lock", SliceOf(b, b.size))
          ELSE Peeked("ack", NoSlice) /\ UNCHANGED src
       /\ UNCHANGED <<load, sent, sender, sink, watcher, acker>>

Lock ==
    /\ copier.pc = "lock"
    /\ Goto("write")
    /\ UNCHANGED <<load, source, sink, watcher, acker>>

Room == WriteBufferSize - dst.buf.size

\* One turn of the loop of dst.Write
Write ==
    LET bytes == SliceBytes(copier.slice, src.buf)
        n == Least(copier.slice.len - copier.n, Room)
    IN /\ copier.pc = "write" /\ dst.err = None /\ n > 0
       /\ dst' = [dst EXCEPT !.buf =
                     BufferWrite(@, SubSeq(bytes, copier.n + 1, copier.n + n))]
       /\ wloop' = [wloop EXCEPT !.slice = Kept(@, dst.buf, Grows(dst.buf, n))]
       /\ copier' = [copier EXCEPT !.n = @ + n,
                                   !.pc = IF copier.n + n = copier.slice.len
                                          THEN "discard" ELSE "write"]
       /\ UNCHANGED <<load, source, received, receiver, watcher, acker>>

WriteFails ==
    /\ copier.pc = "write" /\ dst.err # None
    /\ copier' = [copier EXCEPT !.pc = "discard", !.werr = dst.err]
    /\ UNCHANGED <<load, source, sink, watcher, acker>>

\* Of what was peeked, what has been written is discarded; the sender gets it
\* as credit, here without the delay of the WINDOW frame.
Discard ==
    /\ copier.pc = "discard"
    /\ src' = [src EXCEPT !.buf = BufferDiscard(@, copier.n),
                          !.left = IF src.err = None THEN @ + copier.n ELSE @]
    /\ copier' = [copier EXCEPT !.slice = NoSlice, !.n = 0,
                     !.pc = IF copier.werr # None THEN "closeread"
                            ELSE IF copier.err # None THEN "ack" ELSE "peek"]
    /\ UNCHANGED <<load, sent, sender, sink, watcher, acker>>

\* The write side of dst is closed, and so is the read side of src.
CloseRead ==
    /\ copier.pc = "closeread"
    /\ CloseReadWithError(copier.werr)
    /\ Return
    /\ UNCHANGED <<load, sent, sender, sink, watcher, acker>>

Acknowledge(d) ==
    IF src.acked /\ d.err = None THEN [d EXCEPT !.acked = TRUE] ELSE d

\* Mutant: the acknowledgement is left to the other goroutine.
AckNothing ==
    /\ copier.pc = "ack"
    /\ Goto("closewrite")
    /\ UNCHANGED <<load, source, sink, watcher, acker>>

\* Acknowledge fails once the write side is closed, so it comes first.
Ack ==
    /\ copier.pc = "ack"
    /\ dst' = Acknowledge(dst)
    /\ Goto("closewrite")
    /\ UNCHANGED <<load, source, wloop, received, receiver, watcher, acker>>

\* Mutant: the error of the sender is not passed on.
CloseWriteNormally ==
    /\ copier.pc = "closewrite"
    /\ dst' = [dst EXCEPT !.err = IF @ = None THEN "ECLOSED" ELSE @]
    /\ Return
    /\ UNCHANGED <<load, source, wloop, received, receiver, watcher, acker>>

CloseWrite ==
    /\ copier.pc = "closewrite"
    /\ dst' = [dst EXCEPT !.err = IF @ = None THEN CloseErr(copier.err) ELSE @]
    /\ Return
    /\ UNCHANGED <<load, source, wloop, received, receiver, watcher, acker>>

-----------------------------------------------------------------------------
\* The other goroutines of passthru

\* Mutant: the source is not told.
ForgetSource ==
    /\ watcher = "waiting" /\ dst.err # None /\ ~Locked
    /\ watcher' = "done"
    /\ UNCHANGED <<load, source, sink, copier, acker>>

WatchWriteClosed ==
    /\ watcher = "waiting" /\ dst.err # None /\ ~Locked
    /\ CloseReadWithError(dst.err)
    /\ watcher' = "done"
    /\ UNCHANGED <<load, sent, sender, sink, copier, acker>>

WatchAcknowledged ==
    /\ acker = "waiting" /\ (src.acked \/ src.err # None)
    /\ dst' = Acknowledge(dst)
    /\ acker' = "done"
    /\ UNCHANGED <<load, source, wloop, received, receiver, copier, watcher>>

-----------------------------------------------------------------------------
\* The connection of dst: its write loop, and what the receiver answers

PayloadSize == Least(Least(dst.buf.size, dst.left), MaxPayload)

\* prepareDataLocked; the EOF goes with the last byte if it is due by then.
Prepare ==
    LET n == PayloadSize
        b == Contiguous(dst.buf)
    IN /\ wloop.pc = "idle" /\ n > 0
       /\ wloop' = [pc |-> "sending", slice |-> SliceOf(b, n),
                    eof |-> dst.err = "ECLOSED" /\ n = b.size]
       /\ dst' = [dst EXCEPT !.buf = b, !.left = @ - n]
       /\ UNCHANGED <<load, source, received, receiver, copier, watcher, acker>>

\* What a receiver makes of the end of the stream.
EndFor(err) == IF receiver # "open" THEN receiver
               ELSE IF err = "ECLOSED" THEN "eof" ELSE "broken"

\* The frame is sent while dst is not locked; then its data is discarded,
\* unless a RESET has cleared the buffer.
SendData ==
    /\ wloop.pc = "sending"
    /\ received' = IF receiver = "open"
                   THEN received \o SliceBytes(wloop.slice, dst.buf) ELSE received
    /\ receiver' = IF wloop.eof THEN EndFor("ECLOSED") ELSE receiver
    /\ dst' = [dst EXCEPT !.buf = BufferDiscard(@, Least(wloop.slice.len, @.size)),
                          !.ended = wloop.eof]
    /\ wloop' = Idle
    /\ UNCHANGED <<load, source, copier, watcher, acker>>

\* The EOF or RESET of writeCtrl
SendEnd ==
    /\ wloop.pc = "idle" /\ dst.err # None /\ dst.buf.size = 0 /\ ~dst.ended
    /\ dst' = [dst EXCEPT !.ended = TRUE]
    /\ receiver' = EndFor(dst.err)
    /\ UNCHANGED <<load, source, wloop, received, copier, watcher, acker>>

\* The receiver has read everything, and its WINDOW frame arrives.
ReceiverReads ==
    /\ receiver = "open" /\ dst.left + wloop.slice.len < Window
    /\ dst' = [dst EXCEPT !.left = Window - wloop.slice.len]
    /\ UNCHANGED <<load, source, wloop, received, receiver, copier, watcher, acker>>

\* The receiver closes its read side: RESET clears the buffer.
ReceiverCloses(err) ==
    /\ receiver = "open"
    /\ receiver' = "broken"
    /\ wloop' = [wloop EXCEPT !.slice = Kept(@, dst.buf, TRUE)]
    /\ dst' = [dst EXCEPT !.buf = EmptyBuffer,
                          !.err = IF @ = None THEN err ELSE @]
    /\ UNCHANGED <<load, source, received, copier, watcher, acker>>

\* The connection of dst fails; what is buffered is not sent.
SinkFails(err) ==
    /\ receiver = "open"
    /\ receiver' = "broken"
    /\ dst' = [dst EXCEPT !.err = IF @ = None THEN err ELSE @]
    /\ UNCHANGED <<load, source, wloop, received, copier, watcher, acker>>

-----------------------------------------------------------------------------
CopyLoop == \/ Peek \/ Lock \/ Write \/ WriteFails \/ Discard \/ CloseRead
            \/ Ack \/ CloseWrite

WriteLoop == Prepare \/ SendData \/ SendEnd

Next ==
    \/ \E n \in 1 .. MaxPayload : Arrive(n)
    \/ ArriveAck
    \/ \E err \in load.errs \cup {"EOF"} : ArriveEnd(err)
    \/ CopyLoop \/ WatchWriteClosed \/ WatchAcknowledged
    \/ WriteLoop \/ ReceiverReads
    \/ \E err \in load.errs : ReceiverCloses(err) \/ SinkFails(err)

Spec == Init /\ [][Next]_vars

\* The goroutines run, the connections send, and the receiver reads.
FairSpec ==
    /\ Spec
    /\ WF_vars(CopyLoop)
    /\ WF_vars(WatchWriteClosed)
    /\ WF_vars(WatchAcknowledged)
    /\ WF_vars(WriteLoop)
    /\ WF_vars(ReceiverReads)

-----------------------------------------------------------------------------
\* The shape of the state.
TypeOK ==
    /\ sent \in 0 .. load.sent /\ sender \in {"open", "closed", "cut", "broken"}
    /\ src.left \in 0 .. Window /\ src.err \in Error \cup {None}
    /\ dst.left \in 0 .. Window /\ dst.err \in Error \cup {None}
    /\ copier.pc \in {"peek", "lock", "write", "discard", "closeread", "ack",
                      "closewrite", "done"}
    /\ watcher \in {"waiting", "done"} /\ acker \in {"waiting", "done"}
    /\ wloop.pc \in {"idle", "sending"}
    /\ receiver \in {"open", "eof", "broken"}

\* Bytes of src's buffer that dst's buffer has as well.
Copied == IF Locked THEN copier.n ELSE 0

\* While nobody gave up, what the receiver got, what dst buffers and what src
\* buffers beyond that are exactly the bytes that arrived, in their order,
\* although slices of both buffers are read while the buffers are written,
\* wrap around, are moved and grow.  A sender gets credit only for what dst has
\* taken, so that a receiver that does not read stops it: the server buffers a
\* bounded number of bytes.
BytesConserved ==
    /\ TypeOK
    /\ \A i \in DOMAIN received : received[i] = i
    /\ receiver = "open" => sent - Len(received) <= Window + WriteBufferSize
    /\ receiver = "open" /\ dst.err = None =>
          received \o BytesOf(dst.buf)
                   \o SubSeq(BytesOf(src.buf), Copied + 1, src.buf.size)
          = [i \in 1 .. sent |-> i]

\* A receiver that is told EOF also knows that the stream was acknowledged, if
\* it was: the copy loop and the other goroutine race to forward that before
\* the write side is closed.
AckForwarded == receiver = "eof" /\ src.acked => dst.acked

\* To passthru a sender whose connection ended with io.EOF is one that closed.
Writer == IF sender = "cut" THEN "closed" ELSE sender

BS == INSTANCE ByteStream WITH
          written <- sent, delivered <- Len(received),
          writer <- Writer, reader <- receiver

\* Two streams joined by a server keep the promise of one: no byte is invented,
\* and EOF is told only after the last byte that arrived from a sender that did
\* not fail.  One whose connection ended with io.EOF counts as closed: its
\* receiver is told EOF after as many bytes as had arrived by then.
ProxyIsByteStream == BS!BSpec

\* ECLOSED stands for a stream that was closed normally (errors.go), so a
\* receiver that is told EOF has it from a sender that closed the stream.  The
\* code breaks this: closeWithErrorLocked turns the io.EOF of a connection into
\* ECLOSED, and CloseWriteWithError(ECLOSED) sends EOF.
EOFMeansClosed == receiver = "eof" => sender = "closed"

Ended == {copier.pc, watcher, acker} = {"done"}

\* When the sender or the receiver ends, the other one is told and none of the
\* three goroutines is left waiting.  When passthru returns both sides are
\* closed for good, so that the Close calls that follow cut nothing off.
PassthruEnds ==
    /\ [](copier.pc = "done" => src.err # None /\ dst.err # None)
    /\ []<>(sender # "open" \/ receiver # "open" =>
               Ended /\ receiver # "open" /\ src.err # None)

\* A receiver that does not close gets every byte.
Delivered == <>[](receiver \in {"open", "eof"} => Len(received) = sent)
=============================================================================
