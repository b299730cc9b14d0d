------------------------- MODULE RawConnLocalProofs -------------------------
(***************************************************************************)
(* What concerns one end of a stream by itself, for every instance of      *)
(* RawConn: its credit adds up, its channels are closed once, and nobody   *)
(* sleeps without a reason.  Most methods touch nothing of this; the       *)
(* lemmas are about those that do.                                         *)
(*                                                                         *)
(* In the second part, work is never forgotten: a stream that may send a   *)
(* payload or owes a control frame is in the queue where the write loop    *)
(* looks for it, or in its hands.  The third part has the steps that stay  *)
(* on one side and keep the invariant of RawConnInvariant.                 *)
(***************************************************************************)
EXTENDS RawConnInvariant

CreditOK(s) == s.rerr = None => s.rleft + Readable(s) + s.rinc = Window

ClosedOK(s) ==
    /\ s.nacked = IF s.rerr # None \/ "SeenAck" \in s.flags THEN 1 ELSE 0
    /\ s.nclosed = IF s.rerr # None /\ s.werr # None THEN 1 ELSE 0

ParkedOK(s) ==
    /\ s.rwait = "read" => Readable(s) = 0 /\ s.rerr = None
    /\ s.wwait = "write" => Buffered(s) >= WriteBufferSize /\ s.werr = None
    /\ s.wwait = "flush" => Buffered(s) > 0 /\ s.werr = None

LocalOK(s) == CreditOK(s) /\ ClosedOK(s) /\ ParkedOK(s)

LocalInv == \A x \in Side : LocalOK(st[x])

\* s and t agree on all that LocalOK looks at.
Alike(s, t) ==
    /\ t.rerr = s.rerr /\ t.werr = s.werr
    /\ t.rlo = s.rlo /\ t.rhi = s.rhi /\ t.rleft = s.rleft /\ t.rinc = s.rinc
    /\ t.wlo = s.wlo /\ t.whi = s.whi
    /\ t.nacked = s.nacked /\ t.nclosed = s.nclosed
    /\ t.rwait = s.rwait /\ t.wwait = s.wwait
    /\ "SeenAck" \in t.flags <=> "SeenAck" \in s.flags

\* A method that changes none of this.
LEMMA AlikeLocal ==
    ASSUME NEW s, NEW t, LocalOK(s), Alike(s, t)
    PROVE  LocalOK(t)
BY Zenon DEF LocalOK, CreditOK, ClosedOK, ParkedOK, Alike, Readable, Buffered

-----------------------------------------------------------------------------
\* Methods that send: the write loop changes flags, the window and what is
\* wired, but neither the buffers nor the errors.

\* prepareDataLocked, outgoingFlags and what writeData adds to them
LEMMA SendAlike ==
    ASSUME NEW s, IsStream(s)
    PROVE  /\ Alike(s, AfterOutgoingFlags(PrepareData(s)))
           /\ Alike(s, Reschedule(AfterOutgoingFlags(PrepareData(s))))
           /\ Alike(s, SentEOF(s))
           /\ Alike(s, AfterReadReset(s))
<1>1. ASSUME NEW t, DOMAIN t = StreamField
      PROVE  /\ DOMAIN AfterOutgoingFlags(t) = StreamField
             /\ Alike(t, AfterOutgoingFlags(t))
             /\ Alike(t, Reschedule(t))
             /\ Alike(t, SentEOF(t))
  <2>1. Alike(t, AfterOutgoingFlags(t)) /\ DOMAIN AfterOutgoingFlags(t) = StreamField
    BY <1>1 DEF AfterOutgoingFlags, Cleanup, Alike, StreamField, DataCtrl
  <2>2. Alike(t, Reschedule(t))
    BY <1>1 DEF Reschedule, Alike, StreamField
  <2>3. Alike(t, SentEOF(t))
    BY <1>1 DEF SentEOF, Cleanup, Alike, StreamField
  <2> QED BY <2>1, <2>2, <2>3
<1> DEFINE p == PrepareData(s)
           o == AfterOutgoingFlags(p)
           r == [s EXCEPT !.flags = @ \ {"NeedReset"}]
<1>2. DOMAIN p = StreamField /\ Alike(s, p)
  BY DEF PrepareData, Alike, IsStream, StreamField
<1>3. DOMAIN r = StreamField /\ Alike(s, r)
  BY DEF Alike, IsStream, StreamField
<1>4. AfterReadReset(s) = IF Coalesce(s) THEN SentEOF(r) ELSE r
  BY DEF AfterReadReset
<1> HIDE DEF p, r
<1>5. DOMAIN o = StreamField /\ Alike(p, o) /\ Alike(r, SentEOF(r))
  BY <1>1, <1>2, <1>3
<1> HIDE DEF o
<1>6. Alike(o, Reschedule(o))
  BY <1>1, <1>5
<1>7. Alike(s, SentEOF(s))
  BY <1>1 DEF IsStream
<1> QED
  BY <1>2, <1>3, <1>4, <1>5, <1>6, <1>7 DEF Alike, p, o

\* The bytes that were written leave the buffer, and writers wake up.
LEMMA AfterWriteLocal ==
    ASSUME NEW s, NEW w, StreamInv(s, w), LocalOK(s)
    PROVE  LocalOK(AfterWrite(s))
<1>1. WriteBufferSize \in Nat
  BY SizesArePositive
<1> QED
  BY <1>1 DEF StreamInv, IsStream, StreamField, BufferOK, LocalOK, CreditOK,
              ClosedOK, ParkedOK, AfterWrite, Readable, Buffered

\* The increment that was read goes to the remote.
LEMMA AfterWindowLocal ==
    ASSUME NEW s, IsStream(s), LocalOK(s)
    PROVE  LocalOK(AfterWindow(s))
BY SizesArePositive
   DEF IsStream, StreamField, LocalOK, CreditOK, ClosedOK, ParkedOK, AfterWindow,
       Readable, Buffered

\* A stream that is discarded has ended on both sides, so that losing the flag
\* SeenAck does not matter.
LEMMA DiscardLocal ==
    ASSUME NEW s, NEW w, StreamInv(s, w), LocalOK(s), CanDiscard(s)
    PROVE  LocalOK(DiscardStream(s))
<1>1. s.rerr # None
  BY DEF StreamInv, FlagsOK, CanDiscard, DiscardFlags
<1> QED
  BY <1>1 DEF StreamInv, IsStream, StreamField, LocalOK, CreditOK, ClosedOK,
              ParkedOK, DiscardStream, Cleanup, Readable, Buffered

-----------------------------------------------------------------------------
\* Methods that close and receive

\* setReadErrorLocked
LEMMA SetReadErrorLocal ==
    ASSUME NEW s, IsStream(s), LocalOK(s), NEW e \in Error
    PROVE  LocalOK(SetReadError(s, e))
BY DEF IsStream, StreamField, LocalOK, CreditOK, ClosedOK, ParkedOK, SetReadError,
       Readable, Buffered, Error, ProtocolError, None

\* setWriteErrorLocked
LEMMA SetWriteErrorLocal ==
    ASSUME NEW s, IsStream(s), LocalOK(s), NEW e \in Error
    PROVE  LocalOK(SetWriteError(s, e))
BY DEF IsStream, StreamField, LocalOK, CreditOK, ClosedOK, ParkedOK, SetWriteError,
       Readable, Buffered, Error, ProtocolError, None

\* closeWithErrorLocked
LEMMA CloseWithErrorLocal ==
    ASSUME NEW s, IsStream(s), LocalOK(s), NEW e \in Error
    PROVE  LocalOK(CloseWithError(s, e))
<1> DEFINE a == [s EXCEPT !.serr = CloseErr(e)]
           b == SetReadError(a, CloseErr(e))
<1>1. CloseErr(e) \in Error
  BY DEF CloseErr, Error, ProtocolError
<1>2. IsStream(a) /\ Alike(s, a)
  BY <1>1 DEF Alike, IsStream, StreamField
<1> HIDE DEF a
<1>3. LocalOK(a)
  BY <1>2, AlikeLocal
<1>4. IsStream(b) /\ LocalOK(b)
  <2>1. LocalOK(b)
    BY <1>1, <1>2, <1>3, SetReadErrorLocal
  <2>2. IsStream(b)
    BY <1>1, <1>2 DEF SetReadError, IsStream, StreamField, Flag, Ctrl, Queue
  <2> QED BY <2>1, <2>2
<1> HIDE DEF b
<1>5. LocalOK(SetWriteError(b, CloseErr(e)))
  BY <1>1, <1>4, SetWriteErrorLocal
<1> QED
  BY <1>5 DEF CloseWithError, a, b

\* The end of the remote's data.
LEMMA SeeEOFLocal ==
    ASSUME NEW s, IsStream(s), LocalOK(s), NEW e \in Error
    PROVE  LocalOK(SeeEOF(s, e))
<1> DEFINE a == [s EXCEPT !.flags = (@ \cup {"SeenEOF"}) \ {"NeedReset"}]
           b == SetReadError(a, e)
<1>1. IsStream(a) /\ Alike(s, a)
  BY DEF Alike, IsStream, StreamField, Flag
<1> HIDE DEF a
<1>2. LocalOK(a)
  BY <1>1, AlikeLocal
<1>3. LocalOK(b)
  BY <1>1, <1>2, SetReadErrorLocal
<1>4. DOMAIN b = StreamField
  BY <1>1 DEF SetReadError, IsStream
<1> HIDE DEF b
<1>5. Alike(b, Cleanup(b))
  BY <1>4 DEF Alike, Cleanup, StreamField
<1> QED
  BY <1>3, <1>5, AlikeLocal DEF SeeEOF, a, b

\* processDataLocked, whatever it returns
LEMMA ProcessDataLocal ==
    ASSUME NEW s, IsStream(s), LocalOK(s), NEW f \in Frame
    PROVE  LocalOK(ProcessData(s, f))
<1> DEFINE a == IF "ACK" \in f.flags THEN SeeAck(s) ELSE s
           b == AcceptPayload(a, f.len)
<1>1. IsStream(a) /\ LocalOK(a) /\ a.rleft = s.rleft
  BY DEF SeeAck, IsStream, StreamField, Flag, LocalOK, CreditOK, ClosedOK,
         ParkedOK, Readable, Buffered
<1>2. f.len \in Nat
  BY DEF Frame
<1> HIDE DEF a
<1>3. ASSUME DataError(s, f) = None
      PROVE  IsStream(b) /\ LocalOK(b)
  <2>1. f.len <= a.rleft
    BY <1>1, <1>2, <1>3 DEF DataError, None, IsStream
  <2> QED
    BY <1>1, <1>2, <2>1, SizesArePositive
       DEF AcceptPayload, IsStream, StreamField, LocalOK, CreditOK, ClosedOK,
           ParkedOK, Readable, Buffered
<1>4. "EOF" \in Error
  BY DEF Error
<1>5. DataError(s, f) \in {"EINVALIDSTREAM", "EWINDOWOVERFLOW", None}
  BY DEF DataError
<1>6. ProcessData(s, f) = s \/ ProcessData(s, f) = a
      \/ /\ DataError(s, f) = None
         /\ ProcessData(s, f) = IF "EOF" \in f.flags THEN SeeEOF(b, "EOF") ELSE b
  BY <1>5 DEF ProcessData, None, a
<1> HIDE DEF b
<1> QED
  BY <1>1, <1>3, <1>4, <1>6, SeeEOFLocal

\* processResetFrame.  The buffer is cleared and whoever waits for it to drain
\* is woken up by the error, if not before.
LEMMA ProcessResetLocal ==
    ASSUME NEW s, NEW w, StreamInv(s, w), LocalOK(s), NEW f \in Frame,
           f.err # None
    PROVE  LocalOK(ProcessReset(s, f))
<1> DEFINE seen == [s EXCEPT !.flags = @ \cup {"SeenReset"}]
           clear == ClearWriteBuffer(seen)
           cut == IF "READ" \in f.flags THEN SetWriteError(clear, f.err) ELSE s
           err == IF f.err = "ECLOSED" THEN "EOF" ELSE f.err
<1>1. f.err \in Error /\ err \in Error
  BY DEF Frame, Error
<1>2. /\ IsStream(clear) /\ CreditOK(clear) /\ ClosedOK(clear)
      /\ clear.werr = s.werr /\ clear.rwait = s.rwait
      /\ clear.rerr = s.rerr /\ Readable(clear) = Readable(s)
      /\ clear.wwait \in {"no", s.wwait}
  BY DEF ClearWriteBuffer, StreamInv, IsStream, StreamField, LocalOK, CreditOK,
         ClosedOK, Readable, Flag, Ctrl, Queue
<1> HIDE DEF clear
<1>3. IsStream(cut) /\ LocalOK(cut)
  <2>1. CASE "READ" \notin f.flags
    BY <2>1 DEF StreamInv
  <2>2. CASE "READ" \in f.flags /\ clear.werr # None
    <3>1. ParkedOK(clear)
      BY <1>2, <2>2 DEF LocalOK, ParkedOK, StreamInv, IsStream
    <3> QED BY <1>2, <2>2, <3>1 DEF LocalOK, SetWriteError
  <2>3. CASE "READ" \in f.flags /\ clear.werr = None
    <3> DEFINE t == SetWriteError(clear, f.err)
    <3>1. IsStream(t)
      BY <1>1, <1>2, <2>3
         DEF SetWriteError, IsStream, StreamField, Flag, Ctrl, Queue
    <3>2. ParkedOK(t)
      BY <1>2, <2>3 DEF SetWriteError, IsStream, StreamField, LocalOK, ParkedOK,
                        Readable
    <3>3. CreditOK(t) /\ ClosedOK(t)
      BY <1>1, <1>2, <2>3
         DEF SetWriteError, IsStream, StreamField, CreditOK, ClosedOK, Readable,
             Error, ProtocolError, None
    <3> HIDE DEF t
    <3> QED BY <2>3, <3>1, <3>2, <3>3 DEF LocalOK, t
  <2> QED BY <2>1, <2>2, <2>3
<1>4. ProcessReset(s, f) = IF "WRITE" \in f.flags THEN SeeEOF(cut, err) ELSE cut
  BY DEF ProcessReset, clear
<1> HIDE DEF cut, err
<1> QED
  BY <1>1, <1>3, <1>4, SeeEOFLocal

-----------------------------------------------------------------------------
\* Calls of the application

\* Read moves bytes from the buffer to the increment.
LEMMA ReadLocal ==
    ASSUME NEW s, IsStream(s), LocalOK(s), NEW n \in 1..Readable(s),
           s.rwait = "no"
    PROVE  LocalOK(ReadBytes(s, n))
BY SizesArePositive
   DEF ReadBytes, IsStream, StreamField, LocalOK, CreditOK, ClosedOK, ParkedOK,
       Readable, Buffered

\* Write adds bytes to the buffer.
LEMMA WriteLocal ==
    ASSUME NEW s, IsStream(s), LocalOK(s), NEW n \in Nat
    PROVE  LocalOK(WriteBytes(s, n))
BY SizesArePositive
   DEF WriteBytes, IsStream, StreamField, LocalOK, CreditOK, ClosedOK, ParkedOK,
       Readable, Buffered

\* The reader goes to sleep or gives up.
LEMMA ReadWaitLocal ==
    ASSUME NEW s, IsStream(s), LocalOK(s), NEW v \in {"no", "read"},
           v = "read" => Readable(s) = 0 /\ s.rerr = None
    PROVE  LocalOK([s EXCEPT !.rwait = v])
BY DEF IsStream, StreamField, LocalOK, CreditOK, ClosedOK, ParkedOK, Readable,
       Buffered

\* The writer goes to sleep or gives up.
LEMMA WriteWaitLocal ==
    ASSUME NEW s, IsStream(s), LocalOK(s), NEW v \in {"no", "write", "flush"},
           v = "write" => Buffered(s) >= WriteBufferSize /\ s.werr = None,
           v = "flush" => Buffered(s) > 0 /\ s.werr = None
    PROVE  LocalOK([s EXCEPT !.wwait = v])
BY DEF IsStream, StreamField, LocalOK, CreditOK, ClosedOK, ParkedOK, Readable,
       Buffered

\* Acknowledge, changeWriteWindowLocked and the two ways a stream is made
LEMMA OthersAlike ==
    ASSUME NEW s, IsStream(s)
    PROVE  /\ Alike(s, AcknowledgeStream(s))
           /\ \A d : Alike(s, ChangeWriteWindow(s, d))
           /\ Alike(s, NewIncoming(s))
           /\ s.flags = {} => Alike(s, NewOutgoing(s))
BY DEF Alike, AcknowledgeStream, IsStream, StreamField, ChangeWriteWindow,
       NewIncoming, NewOutgoing

\* takeCtrl and takeData
LEMMA QueuedAlike ==
    ASSUME NEW s, IsStream(s), NEW q
    PROVE  Alike(s, [s EXCEPT !.queued = q])
BY ZenonT(30) DEF Alike, IsStream, StreamField

-----------------------------------------------------------------------------
\* Steps of the connection

\* Side x's end becomes t.
LEMMA EndStep ==
    ASSUME Inv, LocalInv, NEW x \in Side, NEW t, SetStream(x, t), LocalOK(t)
    PROVE  LocalInv'
<1>1. DOMAIN st = Side
  BY DEF Inv, EndsTypeOK
<1>2. \A z \in Side : st'[z] = IF z = x THEN t ELSE st[z]
  BY <1>1 DEF SetStream
<1>3. \A z \in Side : LocalOK(st'[z])
  BY <1>2 DEF LocalInv
<1> QED
  BY <1>3 DEF LocalInv, LocalOK, CreditOK, ClosedOK, ParkedOK, Readable, Buffered

\* The ends stay as they are.
LEMMA SameEnds ==
    ASSUME LocalInv, st' = st
    PROVE  LocalInv'
BY DEF LocalInv, LocalOK, CreditOK, ClosedOK, ParkedOK, Readable, Buffered

\* The stream that writeCtrl finds after taking the lock again.
LEMMA RelockedLocal ==
    ASSUME Inv, LocalInv, NEW x \in Side, InCtrl(x)
    PROVE  LocalOK(Relocked(x)) /\ IsStream(Relocked(x))
<1>1. StreamInv(st[x], conn[x].wpc) /\ LocalOK(st[x])
  BY InvAt DEF EndOK, LocalInv
<1>2. IsStream(Relocked(x))
  BY RelockedInv DEF StreamInv
<1>3. LocalOK(AfterWrite(st[x]))
  BY <1>1, AfterWriteLocal
<1> QED
  BY <1>1, <1>2, <1>3 DEF Relocked

\* The write loop
LEMMA WriteLoopKeeps ==
    ASSUME Inv, LocalInv, NEW x \in Side, WriteLoop(x)
    PROVE  LocalInv'
<1>1. /\ StreamInv(st[x], conn[x].wpc) /\ IsStream(st[x]) /\ LocalOK(st[x])
  BY InvAt DEF EndOK, LocalInv
<1> DEFINE s == Relocked(x)
<1>2. InCtrl(x) => LocalOK(s) /\ IsStream(s)
  BY RelockedLocal
<1> HIDE DEF s
<1>3. InCtrl(x) => /\ LocalOK(AfterOutgoingFlags(PrepareData(s)))
                   /\ LocalOK(AfterWindow(s))
                   /\ LocalOK(AfterReadReset(s))
                   /\ LocalOK(SentEOF(s))
  BY <1>2, SendAlike, AlikeLocal, AfterWindowLocal
<1>4. CASE TakeCtrl(x)
  <2>1. LocalOK([st[x] EXCEPT !.queued = @ \ {"ctrl"}])
    BY <1>1, QueuedAlike, AlikeLocal
  <2> QED BY <1>4, <2>1, EndStep DEF TakeCtrl
<1>5. CASE CtrlDiscard(x)
  <2>1. LocalOK(DiscardStream(st[x]))
    BY <1>1, <1>5, DiscardLocal DEF CtrlDiscard
  <2> QED BY <1>5, <2>1, EndStep DEF CtrlDiscard
<1>6. CASE CtrlData(x)
  BY <1>3, <1>6, EndStep DEF CtrlData, s
<1>7. CASE CtrlWindow(x)
  BY <1>3, <1>7, EndStep DEF CtrlWindow, s
<1>8. CASE CtrlReset(x)
  BY <1>3, <1>8, EndStep DEF CtrlReset, s
<1>9. CASE CtrlEOF(x)
  BY <1>3, <1>9, EndStep DEF CtrlEOF, s
<1>10. CASE CtrlDone(x)
  BY <1>2, <1>10, EndStep DEF CtrlDone, s
<1>11. CASE TakeData(x)
  <2>1. LocalOK([st[x] EXCEPT !.queued = {}])
    BY <1>1, QueuedAlike, AlikeLocal
  <2> QED BY <1>11, <2>1, EndStep DEF TakeData
<1>12. CASE WriteData(x)
  <2>1. LocalOK(Reschedule(AfterOutgoingFlags(PrepareData(st[x]))))
    BY <1>1, SendAlike, AlikeLocal
  <2> QED BY <1>12, <2>1, EndStep DEF WriteData
<1>13. CASE DataDone(x)
  <2>1. LocalOK(AfterWrite(st[x]))
    BY <1>1, AfterWriteLocal
  <2> QED BY <1>13, <2>1, EndStep DEF DataDone
<1>14. CASE \/ NoData(x) \/ WriteFrame(x) \/ WriteFail(x) \/ SendConnError(x)
            \/ CloseNetwork(x)
  BY <1>14, SameEnds
     DEF NoData, WriteFrame, WriteFail, SendConnError, CloseNetwork
<1> QED
  BY <1>4, <1>5, <1>6, <1>7, <1>8, <1>9, <1>10, <1>11, <1>12, <1>13, <1>14
     DEF WriteLoop

\* The read loop.  What it handles is well formed.
LEMMA ReadLoopKeeps ==
    ASSUME Inv, LocalInv, NEW x \in Side, ReadLoop(x)
    PROVE  LocalInv'
<1> DEFINE f == Head(Incoming(x))
<1>1. /\ StreamInv(st[x], conn[x].wpc) /\ IsStream(st[x]) /\ LocalOK(st[x])
      /\ IsConn(conn[x])
  BY InvAt DEF EndOK, LocalInv
<1>2. ASSUME conn[x].rpc = "proc"
      PROVE  f \in Frame /\ FrameOK(f)
  <2>1. net[Peer(x)] \in Seq(Frame) /\ net[Peer(x)] # <<>>
    BY <1>2, InvAt DEF EndOK, ConnOK
  <2>2. f = net[Peer(x)][1] /\ f \in Frame /\ 1 \in 1..Len(net[Peer(x)])
    BY <2>1 DEF Incoming
  <2>3. \A i \in 1..Len(net[Peer(x)]) : FrameOK(net[Peer(x)][i])
    BY InvAt DEF ChannelOK
  <2> QED BY <2>2, <2>3, ZenonT(30)
<1> HIDE DEF f
<1>4. CASE ArriveOpen(x)
  <2> DEFINE s == NewIncoming(st[x])
  <2>1. LocalOK(s)
    BY <1>1, OthersAlike, AlikeLocal
  <2>2. CASE st' = st
    BY <2>2, SameEnds
  <2>3. CASE SetStream(x, s)
    BY <2>1, <2>3, EndStep
  <2>4. CASE /\ conn[x].fail # None /\ st[x].where # "live"
             /\ SetStream(x, CloseWithError(s, conn[x].fail))
    <3>1. conn[x].fail \in Error
      BY <1>1, <2>4, ZenonT(30) DEF IsConn
    <3>2. IsStream(s)
      BY <1>1 DEF NewIncoming, IsStream, StreamField
    <3> HIDE DEF s
    <3>3. LocalOK(CloseWithError(s, conn[x].fail))
      BY <2>1, <3>1, <3>2, CloseWithErrorLocal
    <3> QED BY <2>4, <3>3, EndStep
  <2> QED BY <1>4, <2>2, <2>3, <2>4, ZenonT(30) DEF ArriveOpen
<1>5. CASE RefuseStream(x)
  <2>1. "ECONNSHUTDOWN" \in Error
    BY DEF Error
  <2>2. LocalOK(CloseWithError(st[x], "ECONNSHUTDOWN"))
    BY <1>1, <2>1, CloseWithErrorLocal
  <2> QED BY <1>5, <2>2, EndStep DEF RefuseStream
<1>6. CASE ProcessDataFrame(x)
  <2>1. LocalOK(ProcessData(st[x], f))
    BY <1>1, <1>2, <1>6, ProcessDataLocal DEF ProcessDataFrame
  <2> QED BY <1>6, <2>1, EndStep DEF ProcessDataFrame, f
<1>7. CASE ProcessResetFrame(x)
  <2>1. f.err # None
    BY <1>2, <1>7 DEF ProcessResetFrame, FrameOK, f
  <2>2. LocalOK(ProcessReset(st[x], f))
    BY <1>1, <1>2, <1>7, <2>1, ProcessResetLocal DEF ProcessResetFrame
  <2> QED BY <1>7, <2>2, EndStep DEF ProcessResetFrame, f
<1>8. CASE ProcessWindowFrame(x)
  <2>1. LocalOK(ChangeWriteWindow(st[x], f.len))
    BY <1>1, OthersAlike, AlikeLocal
  <2>2. st' = st \/ SetStream(x, ChangeWriteWindow(st[x], f.len))
    BY <1>8 DEF ProcessWindowFrame, f
  <2> QED BY <2>1, <2>2, SameEnds, EndStep
<1>9. CASE \/ ArriveData(x) \/ ArriveReset(x) \/ ArriveWindow(x)
           \/ ArriveConnError(x) \/ ProcessConnError(x) \/ ReadFail(x)
  BY <1>9, SameEnds
     DEF ArriveData, ArriveReset, ArriveWindow, ArriveConnError, ProcessConnError,
         ReadFail
<1> QED
  BY <1>4, <1>5, <1>6, <1>7, <1>8, <1>9, ZenonT(30) DEF ReadLoop

\* The calls of the application
LEMMA ApplicationKeeps ==
    ASSUME Inv, LocalInv, NEW x \in Side, Application(x)
    PROVE  LocalInv'
<1> DEFINE s == st[x]
<1>1. StreamInv(s, conn[x].wpc) /\ IsStream(s) /\ LocalOK(s)
  BY InvAt DEF EndOK, LocalInv
<1>2. CloseErrs \subseteq Error
  BY RawConnParameters DEF Error
<1>3. ASSUME NEW t, App(x, t), LocalOK(t)
      PROVE  LocalInv'
  BY <1>3, EndStep DEF App
<1>4. CASE Read(x)
  <2>1. ASSUME NEW n \in 1..Readable(s), App(x, ReadBytes(s, n))
        PROVE  LocalInv'
    BY <1>1, <1>3, <1>4, <2>1, ReadLocal DEF Read
  <2>2. CASE /\ Readable(s) = 0 /\ s.rerr = None
             /\ App(x, [s EXCEPT !.rwait = "read"])
    <3>1. LocalOK([s EXCEPT !.rwait = "read"])
      BY <1>1, <2>2, ReadWaitLocal, Zenon
    <3> QED BY <1>3, <2>2, <3>1
  <2> QED BY <1>4, <2>1, <2>2 DEF Read
<1>5. CASE Write(x)
  <2>1. ASSUME NEW n \in Nat, App(x, WriteBytes(s, n))
        PROVE  LocalInv'
    BY <1>1, <1>3, <2>1, WriteLocal
  <2>2. CASE /\ Buffered(s) >= WriteBufferSize /\ s.werr = None
             /\ App(x, [s EXCEPT !.wwait = "write"])
    <3>1. LocalOK([s EXCEPT !.wwait = "write"])
      BY <1>1, <2>2, WriteWaitLocal, Zenon
    <3> QED BY <1>3, <2>2, <3>1
  <2>3. \A n \in 1..Least(WriteBufferSize - Buffered(s), MaxBytes[x] - s.whi) :
            n \in Nat
    OBVIOUS
  <2> QED BY <1>5, <2>1, <2>2, <2>3 DEF Write
<1>6. CASE Flush(x)
  <2>1. LocalOK([s EXCEPT !.wwait = "flush"])
    BY <1>1, <1>6, WriteWaitLocal, Zenon DEF Flush
  <2> QED BY <1>3, <1>6, <2>1 DEF Flush
<1>7. CASE Acknowledge(x)
  <2>1. LocalOK(AcknowledgeStream(s))
    BY <1>1, OthersAlike, AlikeLocal
  <2> QED BY <1>3, <1>7, <2>1 DEF Acknowledge
<1>8. CASE Close(x)
  BY <1>1, <1>2, <1>3, <1>8, CloseWithErrorLocal DEF Close
<1>9. CASE CloseRead(x)
  BY <1>1, <1>2, <1>3, <1>9, SetReadErrorLocal DEF CloseRead
<1>10. CASE CloseWrite(x)
  BY <1>1, <1>2, <1>3, <1>10, SetWriteErrorLocal DEF CloseWrite
<1>11. CASE ReadTimeout(x) \/ WriteTimeout(x)
  <2>1. LocalOK([s EXCEPT !.rwait = "no"]) /\ LocalOK([s EXCEPT !.wwait = "no"])
    BY <1>1, ReadWaitLocal, WriteWaitLocal, Zenon
  <2> QED BY <1>3, <1>11, <2>1 DEF ReadTimeout, WriteTimeout
<1> QED
  BY <1>4, <1>5, <1>6, <1>7, <1>8, <1>9, <1>10, <1>11, ZenonT(30) DEF Application

\* Every critical section keeps both ends in order.
LEMMA NextLocal == Inv /\ LocalInv /\ [Next]_vars => LocalInv'
<1> SUFFICES ASSUME Inv, LocalInv, [Next]_vars PROVE LocalInv'
  OBVIOUS
<1>1. CASE UNCHANGED vars \/ Break
  BY <1>1, SameEnds DEF vars, Break
<1>2. ASSUME NEW x \in Side, NewStream(x)
      PROVE  LocalInv'
  <2>1. IsStream(st[x]) /\ LocalOK(st[x]) /\ st[x].flags = {}
    BY <1>2, InvAt DEF NewStream, Made, EndOK, Untouched, LocalInv
  <2>2. LocalOK(NewOutgoing(st[x]))
    BY <2>1, OthersAlike, AlikeLocal
  <2> QED BY <1>2, <2>2, EndStep DEF NewStream
<1>3. ASSUME NEW x \in Side, ConnClose(x) \/ Shutdown(x)
      PROVE  LocalInv'
  BY <1>3, SameEnds DEF ConnClose, Shutdown
<1>4. ASSUME NEW x \in Side, CloseStreams(x)
      PROVE  LocalInv'
  <2>1. /\ StreamInv(st[x], conn[x].wpc) /\ LocalOK(st[x])
        /\ conn[x].fail \in Error
    BY <1>4, InvAt DEF CloseStreams, EndOK, ConnOK, IsConn, LocalInv
  <2>2. LocalOK(CloseWithError(st[x], conn[x].fail))
    BY <2>1, CloseWithErrorLocal DEF StreamInv
  <2> QED BY <1>4, <2>2, EndStep DEF CloseStreams
<1> QED
  BY <1>1, <1>2, <1>3, <1>4, WriteLoopKeeps, ReadLoopKeeps, ApplicationKeeps
     DEF Next

-----------------------------------------------------------------------------
\* The theorems

-----------------------------------------------------------------------------
\* Scheduling

CtrlHeld == {"ctrl", "loop", "ctrlWrite", "stopped", "closed"}
DataHeld == {"data", "stopped", "closed"}

\* w is where the write loop stands.
ScheduledOK(s, w) ==
    /\ ActiveData(s) => "data" \in s.queued \/ w \in DataHeld
    /\ OwesCtrl(s) => "ctrl" \in s.queued \/ w \in CtrlHeld

ScheduledInv == \A x \in Side : ScheduledOK(st[x], conn[x].wpc)

\* Going from s to t leaves the queues and puts the stream in the queue of any
\* work that it adds.
Enqueues(s, t) ==
    /\ s.queued \subseteq t.queued
    /\ ActiveData(t) => ActiveData(s) \/ "data" \in t.queued
    /\ OwesCtrl(t) => OwesCtrl(s) \/ "ctrl" \in t.queued

\* What such a step leaves true, and that such steps add up.
LEMMA EnqueuesScheduled ==
    ASSUME NEW s, NEW t, Enqueues(s, t)
    PROVE  /\ \A w : ScheduledOK(s, w) => ScheduledOK(t, w)
           /\ \A r : Enqueues(r, s) => Enqueues(r, t)
BY Zenon DEF Enqueues, ScheduledOK

\* The parts of a stream that decide what it has to send are the same.
SameWork(s, t) ==
    /\ t.queued = s.queued /\ t.rinc = s.rinc
    /\ t.wleft = s.wleft /\ t.whi - t.wlo - t.wired = s.whi - s.wlo - s.wired
    /\ \A b \in DataCtrl \cup {"NeedReset", "NeedEOF"} :
          b \in t.flags => b \in s.flags
    /\ "SentEOF" \in s.flags => "SentEOF" \in t.flags

\* Then nothing needs to be enqueued.
LEMMA SameWorkEnqueues ==
    ASSUME NEW s, NEW t, SameWork(s, t)
    PROVE  Enqueues(s, t)
BY DEF SameWork, Enqueues, ActiveData, OwesCtrl, NeedsDataCtrl, NeedsWindow,
       NeedsReset, PendingBytes, Buffered, DataCtrl

-----------------------------------------------------------------------------
\* The methods of a stream that may give it work

\* setReadErrorLocked
LEMMA SetReadErrorEnqueues ==
    ASSUME NEW s, IsStream(s), NEW e \in Error
    PROVE  Enqueues(s, SetReadError(s, e)) /\ IsStream(SetReadError(s, e))
<1> USE DEF SetReadError
<1>1. IsStream(SetReadError(s, e))
  BY DEF IsStream, StreamField, Flag, Ctrl, Queue
<1>2. Enqueues(s, SetReadError(s, e))
  BY DEF IsStream, StreamField, Enqueues, ActiveData, OwesCtrl, NeedsDataCtrl,
         NeedsWindow, NeedsReset, PendingBytes, Buffered, DataCtrl, Ctrl
<1> QED
  BY <1>1, <1>2

\* setWriteErrorLocked
LEMMA SetWriteErrorEnqueues ==
    ASSUME NEW s, IsStream(s), NEW e \in Error
    PROVE  Enqueues(s, SetWriteError(s, e)) /\ IsStream(SetWriteError(s, e))
<1> USE DEF SetWriteError
<1>1. IsStream(SetWriteError(s, e))
  BY DEF IsStream, StreamField, Flag, Ctrl, Queue
<1>2. Enqueues(s, SetWriteError(s, e))
  BY DEF IsStream, StreamField, Enqueues, ActiveData, OwesCtrl, NeedsDataCtrl,
         NeedsWindow, NeedsReset, PendingBytes, Buffered, DataCtrl, Ctrl
<1> QED
  BY <1>1, <1>2

\* closeWithErrorLocked
LEMMA CloseWithErrorEnqueues ==
    ASSUME NEW s, IsStream(s), NEW e \in Error
    PROVE  Enqueues(s, CloseWithError(s, e))
<1> DEFINE a == [s EXCEPT !.serr = CloseErr(e)]
           b == SetReadError(a, CloseErr(e))
<1>1. CloseErr(e) \in Error
  BY DEF CloseErr, Error, ProtocolError
<1>2. IsStream(a) /\ SameWork(s, a) /\ SameWork(s, s)
  BY <1>1 DEF SameWork, IsStream, StreamField
<1> HIDE DEF a
<1>3. IsStream(b) /\ Enqueues(a, b)
  BY <1>1, <1>2, SetReadErrorEnqueues
<1> HIDE DEF b
<1>4. Enqueues(b, SetWriteError(b, CloseErr(e)))
  BY <1>1, <1>3, SetWriteErrorEnqueues
<1>5. Enqueues(s, a) /\ Enqueues(s, s)
  BY <1>2, SameWorkEnqueues
<1>6. Enqueues(s, b)
  BY <1>3, <1>5, EnqueuesScheduled
<1>7. Enqueues(s, SetWriteError(b, CloseErr(e)))
  BY <1>4, <1>6, EnqueuesScheduled
<1> QED
  BY <1>5, <1>7 DEF CloseWithError, a, b

\* The end of the remote's data.
LEMMA SeeEOFEnqueues ==
    ASSUME NEW s, IsStream(s), NEW e \in Error
    PROVE  Enqueues(s, SeeEOF(s, e))
<1> DEFINE a == [s EXCEPT !.flags = (@ \cup {"SeenEOF"}) \ {"NeedReset"}]
           b == SetReadError(a, e)
<1>1. IsStream(a) /\ SameWork(s, a)
  BY DEF SameWork, IsStream, StreamField, Flag, DataCtrl
<1> HIDE DEF a
<1>2. IsStream(b) /\ Enqueues(a, b)
  BY <1>1, SetReadErrorEnqueues
<1> HIDE DEF b
<1>3. SameWork(b, Cleanup(b))
  BY <1>2 DEF SameWork, Cleanup, IsStream, StreamField
<1>4. Enqueues(s, a) /\ Enqueues(b, Cleanup(b))
  BY <1>1, <1>3, SameWorkEnqueues
<1>5. Enqueues(s, b)
  BY <1>2, <1>4, EnqueuesScheduled
<1>6. Enqueues(s, Cleanup(b))
  BY <1>4, <1>5, EnqueuesScheduled
<1> QED
  BY <1>6 DEF SeeEOF, a, b

\* processDataLocked
LEMMA ProcessDataEnqueues ==
    ASSUME NEW s, IsStream(s), NEW f \in Frame
    PROVE  Enqueues(s, ProcessData(s, f))
<1> DEFINE a == IF "ACK" \in f.flags THEN SeeAck(s) ELSE s
           b == AcceptPayload(a, f.len)
<1>1. IsStream(a) /\ SameWork(s, a) /\ a.rleft = s.rleft /\ SameWork(s, s)
  BY DEF SeeAck, SameWork, IsStream, StreamField, Flag, DataCtrl
<1>2. f.len \in Nat
  BY DEF Frame
<1> HIDE DEF a
<1>3. ASSUME DataError(s, f) = None
      PROVE  IsStream(b) /\ SameWork(s, b)
  <2>1. f.len <= a.rleft
    BY <1>1, <1>2, <1>3 DEF DataError, None, IsStream
  <2>2. SameWork(a, b)
    BY <1>1 DEF AcceptPayload, SameWork, IsStream, StreamField
  <2>3. IsStream(b)
    BY <1>1, <1>2, <2>1 DEF AcceptPayload, IsStream, StreamField
  <2> QED BY <1>1, <2>2, <2>3, Zenon DEF SameWork
<1>4. "EOF" \in Error
  BY DEF Error
<1>5. DataError(s, f) \in {"EINVALIDSTREAM", "EWINDOWOVERFLOW", None}
  BY DEF DataError
<1>6. ProcessData(s, f) = s \/ ProcessData(s, f) = a
      \/ /\ DataError(s, f) = None
         /\ ProcessData(s, f) = IF "EOF" \in f.flags THEN SeeEOF(b, "EOF") ELSE b
  BY <1>5 DEF ProcessData, None, a
<1> HIDE DEF b
<1>7. DataError(s, f) = None => Enqueues(s, b) /\ Enqueues(b, SeeEOF(b, "EOF"))
  BY <1>3, <1>4, SameWorkEnqueues, SeeEOFEnqueues
<1>8. DataError(s, f) = None => Enqueues(s, SeeEOF(b, "EOF"))
  BY <1>7, EnqueuesScheduled
<1>9. Enqueues(s, s) /\ Enqueues(s, a)
  BY <1>1, SameWorkEnqueues
<1> QED
  BY <1>6, <1>7, <1>8, <1>9

\* processResetFrame.  Clearing the buffer may make the end of the stream due.
LEMMA ProcessResetEnqueues ==
    ASSUME NEW s, NEW w, StreamInv(s, w), NEW f \in Frame, f.err # None
    PROVE  Enqueues(s, ProcessReset(s, f))
<1> DEFINE seen == [s EXCEPT !.flags = @ \cup {"SeenReset"}]
           clear == ClearWriteBuffer(seen)
           cut == IF "READ" \in f.flags THEN SetWriteError(clear, f.err) ELSE s
           err == IF f.err = "ECLOSED" THEN "EOF" ELSE f.err
<1>1. f.err \in Error /\ err \in Error
  BY DEF Frame, Error
<1>2. IsStream(clear)
  BY DEF ClearWriteBuffer, StreamInv, IsStream, StreamField, Flag, Ctrl, Queue
<1>3. Enqueues(s, clear)
  BY DEF ClearWriteBuffer, StreamInv, IsStream, StreamField, Enqueues, ActiveData,
         OwesCtrl, NeedsDataCtrl, NeedsWindow, NeedsReset, PendingBytes, Buffered,
         DataCtrl, Ctrl
<1> HIDE DEF clear
<1>4. IsStream(s) /\ Enqueues(s, s)
  BY SameWorkEnqueues DEF StreamInv, SameWork
<1>5. /\ IsStream(SetWriteError(clear, f.err))
      /\ Enqueues(clear, SetWriteError(clear, f.err))
  BY <1>1, <1>2, SetWriteErrorEnqueues
<1>6. IsStream(cut) /\ Enqueues(s, cut)
  BY <1>3, <1>4, <1>5, EnqueuesScheduled
<1>7. ProcessReset(s, f) = IF "WRITE" \in f.flags THEN SeeEOF(cut, err) ELSE cut
  BY DEF ProcessReset, clear
<1> HIDE DEF cut, err
<1>8. Enqueues(cut, SeeEOF(cut, err))
  BY <1>1, <1>6, SeeEOFEnqueues
<1>9. Enqueues(s, SeeEOF(cut, err))
  BY <1>6, <1>8, EnqueuesScheduled
<1> QED
  BY <1>6, <1>7, <1>9

\* A WINDOW frame, and the calls that leave the stream open
LEMMA OthersEnqueue ==
    ASSUME NEW s, NEW w, StreamInv(s, w), NEW n \in Nat
    PROVE  /\ Enqueues(s, ChangeWriteWindow(s, n))
           /\ Enqueues(s, ReadBytes(s, n))
           /\ Enqueues(s, WriteBytes(s, n))
           /\ Enqueues(s, AcknowledgeStream(s))
           /\ Enqueues(s, NewIncoming(s))
           /\ Enqueues(s, NewOutgoing(s))
           /\ Enqueues(s, AfterWrite(s))
<1> USE DEF StreamInv, IsStream, StreamField, BufferOK, Enqueues, ActiveData,
            OwesCtrl, NeedsDataCtrl, NeedsWindow, NeedsReset, PendingBytes,
            Buffered, DataCtrl
<1>1. Enqueues(s, ChangeWriteWindow(s, n))
  BY DEF ChangeWriteWindow, Data
<1>2. Enqueues(s, ReadBytes(s, n))
  BY DEF ReadBytes, Ctrl
<1>3. Enqueues(s, WriteBytes(s, n))
  BY DEF WriteBytes, Data
<1>4. Enqueues(s, AcknowledgeStream(s))
  BY DEF AcknowledgeStream
<1>5. Enqueues(s, NewIncoming(s))
  BY DEF NewIncoming
<1>6. Enqueues(s, NewOutgoing(s))
  BY DEF NewIncoming, NewOutgoing
<1>7. Enqueues(s, AfterWrite(s))
  BY DEF AfterWrite
<1> QED
  BY <1>1, <1>2, <1>3, <1>4, <1>5, <1>6, <1>7, Zenon

\* Going to sleep and giving up
LEMMA WaitsEnqueue ==
    ASSUME NEW s, IsStream(s), NEW v
    PROVE  /\ Enqueues(s, [s EXCEPT !.rwait = v])
           /\ Enqueues(s, [s EXCEPT !.wwait = v])
<1>1. /\ SameWork(s, [s EXCEPT !.rwait = v])
      /\ SameWork(s, [s EXCEPT !.wwait = v])
  BY Zenon DEF SameWork, IsStream, StreamField
<1> QED
  BY <1>1, SameWorkEnqueues, Zenon

-----------------------------------------------------------------------------
\* Steps of the connection

\* Side x's end becomes t and its connection c.
LEMMA ScheduledStep ==
    ASSUME Inv, ScheduledInv, NEW x \in Side, NEW t, NEW c,
           StBecomes(x, t), ConnBecomes(x, c), ScheduledOK(t, c.wpc)
    PROVE  ScheduledInv'
<1>1. \A z \in Side : ScheduledOK(st'[z], conn'[z].wpc)
  BY Sides DEF StBecomes, ConnBecomes, ScheduledInv
<1> QED
  BY <1>1 DEF ScheduledInv, ScheduledOK, ActiveData, OwesCtrl, NeedsDataCtrl,
              NeedsWindow, NeedsReset, PendingBytes, Buffered

\* The same when the write loop stays where it is, as it does when a connection
\* fails or its read loop moves.
LEMMA EnqueueStep ==
    ASSUME Inv, ScheduledInv, NEW x \in Side, NEW t, NEW c,
           StBecomes(x, t), ConnBecomes(x, c), c.wpc = conn[x].wpc,
           Enqueues(st[x], t)
    PROVE  ScheduledInv'
<1>1. ScheduledOK(t, c.wpc)
  BY EnqueuesScheduled DEF ScheduledInv
<1> QED
  BY <1>1, ScheduledStep

\* The read loop and failures leave the write loop where it is.
LEMMA SameLoop ==
    ASSUME NEW c, IsConn(c), NEW e, NEW s, NEW v
    PROVE  /\ FailConn(c, e, s).wpc = c.wpc
           /\ [FailConn(c, e, s) EXCEPT !.rpc = v].wpc = c.wpc
           /\ [c EXCEPT !.rpc = v].wpc = c.wpc
           /\ [c EXCEPT !.marks = v].wpc = c.wpc
           /\ IsConn(FailOutgoing(c, "ECONNSHUTDOWN"))
           /\ FailOutgoing(c, "ECONNSHUTDOWN").wpc = c.wpc
BY DEF IsConn, FailConn, FailOutgoing, Error

\* writeCtrl: what it does with the stream, and that it stops when nothing is
\* owed any more.
LEMMA WriteCtrlSchedules ==
    ASSUME NEW s, NEW w, StreamInv(s, w), s.wired = 0, ScheduledOK(s, "loop")
    PROVE  /\ ScheduledOK(AfterOutgoingFlags(PrepareData(s)), "ctrlWrite")
           /\ ScheduledOK(AfterWindow(s), "loop")
           /\ ScheduledOK(AfterReadReset(s), "loop")
           /\ ScheduledOK(SentEOF(s), "loop")
           /\ /\ ~NeedsDataCtrl(s) /\ ~NeedsWindow(s)
              /\ ~NeedsReset(s) /\ ~NeedsEOF(s)
              => ScheduledOK(s, "idle")
<1>1. ActiveData(s) => "data" \in s.queued
  BY ZenonT(30) DEF ScheduledOK, DataHeld
<1>2. ASSUME NEW t, NEW v \in CtrlHeld,
             t.queued = s.queued, ActiveData(t) => ActiveData(s)
      PROVE  ScheduledOK(t, v)
  BY <1>1, <1>2 DEF ScheduledOK
<1>3. "ctrlWrite" \in CtrlHeld /\ "loop" \in CtrlHeld
  BY Zenon DEF CtrlHeld
<1> USE DEF StreamInv, IsStream, StreamField, ActiveData, PendingBytes, Buffered,
            Cleanup
<1>4. ScheduledOK(AfterOutgoingFlags(PrepareData(s)), "ctrlWrite")
  <2> DEFINE p == PrepareData(s)
             t == AfterOutgoingFlags(p)
  <2>1. /\ DOMAIN p = StreamField /\ p.queued = s.queued
        /\ ActiveData(p) => ActiveData(s)
    BY SizesArePositive DEF PrepareData, PayloadSize, Least
  <2> HIDE DEF p
  <2>2. t.queued = p.queued /\ t.wleft = p.wleft /\ t.whi = p.whi
        /\ t.wlo = p.wlo /\ t.wired = p.wired
    BY <2>1, Zenon DEF AfterOutgoingFlags
  <2> HIDE DEF t
  <2> QED BY <1>2, <1>3, <2>1, <2>2 DEF t, p
<1>5. ScheduledOK(AfterWindow(s), "loop")
  <2> DEFINE t == AfterWindow(s)
  <2>1. t.queued = s.queued /\ (ActiveData(t) => ActiveData(s))
    BY DEF AfterWindow
  <2> HIDE DEF t
  <2> QED BY <1>2, <1>3, <2>1 DEF t
<1>6. ScheduledOK(AfterReadReset(s), "loop")
  <2> DEFINE t == AfterReadReset(s)
  <2>1. t.queued = s.queued /\ (ActiveData(t) => ActiveData(s))
    BY DEF AfterReadReset, SentEOF
  <2> HIDE DEF t
  <2> QED BY <1>2, <1>3, <2>1 DEF t
<1>7. ScheduledOK(SentEOF(s), "loop")
  <2> DEFINE t == SentEOF(s)
  <2>1. t.queued = s.queued /\ (ActiveData(t) => ActiveData(s))
    BY Zenon DEF SentEOF
  <2> HIDE DEF t
  <2> QED BY <1>2, <1>3, <2>1 DEF t
<1>8. /\ ~NeedsDataCtrl(s) /\ ~NeedsWindow(s) /\ ~NeedsReset(s) /\ ~NeedsEOF(s)
      => ScheduledOK(s, "idle")
  BY <1>1 DEF ScheduledOK, OwesCtrl, NeedsEOF
<1> QED
  BY <1>4, <1>5, <1>6, <1>7, <1>8, Zenon

\* writeData: it puts the stream back in a queue if there is more to do.
LEMMA WriteDataSchedules ==
    ASSUME NEW s, StreamInv(s, "data"), ScheduledOK(s, "data")
    PROVE  /\ ScheduledOK(Reschedule(AfterOutgoingFlags(PrepareData(s))),
                          "dataWrite")
           /\ ~(PayloadSize(s) > 0) => ScheduledOK(s, "idle")
<1>1. s.wired = 0 /\ (OwesCtrl(s) => "ctrl" \in s.queued)
  BY NothingWired DEF ScheduledOK, CtrlHeld
<1> DEFINE p == PrepareData(s)
           o == AfterOutgoingFlags(p)
           t == Reschedule(o)
<1>2. /\ DOMAIN p = StreamField /\ p.queued = s.queued /\ p.rinc = s.rinc
      /\ p.flags = s.flags
  BY DEF PrepareData, StreamInv, IsStream, StreamField
<1> HIDE DEF p
<1>3. /\ DOMAIN o = StreamField /\ o.queued = s.queued /\ o.rinc = s.rinc
      /\ o.flags \cap DataCtrl = {}
      /\ "NeedReset" \in o.flags => "NeedReset" \in s.flags
  BY <1>2 DEF AfterOutgoingFlags, Cleanup, DataCtrl, StreamField
<1> HIDE DEF o
<1>4. /\ o.queued \subseteq t.queued /\ t.rinc = o.rinc /\ t.flags = o.flags
      /\ ActiveData(t) <=> ActiveData(o)
      /\ PendingBytes(t) = PendingBytes(o)
      /\ ActiveData(o) => "data" \in t.queued
      /\ ~ActiveData(o) /\ Buffered(o) = o.wired /\ "NeedEOF" \in o.flags
            => "ctrl" \in t.queued
  BY <1>3 DEF Reschedule, Ctrl, ActiveData, PendingBytes, Buffered, StreamField
<1>5. /\ o.whi \in Int /\ o.wlo \in Int /\ o.wired \in Int
  <2>1. p.whi \in Int /\ p.wlo \in Int /\ p.wired \in Int
    BY SizesArePositive DEF p, PrepareData, PayloadSize, Least, StreamInv,
                            IsStream, StreamField, Buffered
  <2> QED BY <1>2, <2>1 DEF o, AfterOutgoingFlags, Cleanup, StreamField
<1>6. PendingBytes(o) = 0 => ~ActiveData(o) /\ Buffered(o) = o.wired
  BY <1>5 DEF ActiveData, PendingBytes, Buffered
<1> HIDE DEF t
<1>7. ScheduledOK(t, "dataWrite")
  <2>1. ActiveData(t) => "data" \in t.queued
    BY <1>4
  <2>2. ASSUME OwesCtrl(t) PROVE "ctrl" \in t.queued
    <3>1. CASE NeedsWindow(t) \/ NeedsReset(t)
      BY <1>1, <1>3, <1>4, <3>1 DEF OwesCtrl, NeedsWindow, NeedsReset
    <3>2. CASE PendingBytes(t) = 0 /\ "NeedEOF" \in t.flags
      BY <1>4, <1>6, <3>2
    <3> QED BY <1>3, <1>4, <2>2, <3>1, <3>2 DEF OwesCtrl, NeedsDataCtrl
  <2> QED BY <2>1, <2>2 DEF ScheduledOK
<1>8. ASSUME ~(PayloadSize(s) > 0) PROVE ScheduledOK(s, "idle")
  <2>1. ~ActiveData(s)
    BY <1>1, <1>8, SizesArePositive
       DEF ActiveData, PendingBytes, Buffered, PayloadSize, Least, StreamInv,
           IsStream
  <2> QED BY <1>1, <2>1, Zenon DEF ScheduledOK
<1> QED
  BY <1>7, <1>8 DEF t, o, p

\* The write loop
LEMMA WriteLoopSchedules ==
    ASSUME Inv, ScheduledInv, NEW x \in Side, WriteLoop(x)
    PROVE  ScheduledInv'
<1> DEFINE s == Relocked(x)
           w == conn[x].wpc
<1>1. /\ StreamInv(st[x], w) /\ IsStream(st[x]) /\ ScheduledOK(st[x], w)
      /\ IsConn(conn[x])
  BY InvAt DEF EndOK, ScheduledInv
<1>2. ASSUME NEW v PROVE [conn[x] EXCEPT !.wpc = v].wpc = v
  BY <1>1 DEF IsConn
<1>3. ASSUME NEW t, NEW v, SetStream(x, t), GotoW(x, v), ScheduledOK(t, v)
      PROVE  ScheduledInv'
  <2> DEFINE c == [conn[x] EXCEPT !.wpc = v]
  <2>1. StBecomes(x, t) /\ ConnBecomes(x, c)
    BY <1>3, Becomes DEF GotoW
  <2>2. c.wpc = v
    BY <1>2
  <2> HIDE DEF c
  <2> QED BY <1>3, <2>1, <2>2, ScheduledStep
<1>4. ASSUME NEW v, st' = st, GotoW(x, v), ScheduledOK(st[x], v)
      PROVE  ScheduledInv'
  <2> DEFINE c == [conn[x] EXCEPT !.wpc = v]
  <2>1. StBecomes(x, st[x]) /\ ConnBecomes(x, c)
    BY <1>4, Becomes, ZenonT(30) DEF GotoW
  <2>2. c.wpc = v
    BY <1>2
  <2> HIDE DEF c
  <2> QED BY <1>4, <2>1, <2>2, ScheduledStep
<1>5. ASSUME InCtrl(x)
      PROVE  StreamInv(s, "loop") /\ s.wired = 0 /\ ScheduledOK(s, "loop")
  <2>1. StreamInv(s, "loop") /\ s.wired = 0
    BY <1>5, RelockedInv, Zenon
  <2>2. Enqueues(st[x], AfterWrite(st[x])) /\ w \notin DataHeld
    BY <1>1, <1>5, OthersEnqueue, Zenon DEF InCtrl, DataHeld
  <2>3. ScheduledOK(s, w)
    BY <1>1, <2>2, EnqueuesScheduled DEF Relocked
  <2> QED BY <2>1, <2>2, <2>3 DEF ScheduledOK, CtrlHeld
<1> HIDE DEF s
<1>6. InCtrl(x) =>
          /\ ScheduledOK(AfterOutgoingFlags(PrepareData(s)), "ctrlWrite")
          /\ ScheduledOK(AfterWindow(s), "loop")
          /\ ScheduledOK(AfterReadReset(s), "loop")
          /\ ScheduledOK(SentEOF(s), "loop")
          /\ /\ ~NeedsDataCtrl(s) /\ ~NeedsWindow(s)
             /\ ~NeedsReset(s) /\ ~NeedsEOF(s)
             => ScheduledOK(s, "idle")
  BY <1>5, WriteCtrlSchedules
<1>7. CASE TakeCtrl(x)
  <2> DEFINE t == [st[x] EXCEPT !.queued = @ \ {"ctrl"}]
  <2>1. w \notin DataHeld
    BY <1>7 DEF TakeCtrl, DataHeld
  <2>2. /\ ActiveData(t) => ActiveData(st[x])
        /\ "data" \in st[x].queued => "data" \in t.queued
    BY <1>1, ZenonT(30) DEF IsStream, StreamField, ActiveData, PendingBytes, Buffered
  <2> HIDE DEF t
  <2>3. ScheduledOK(t, "ctrl")
    BY <1>1, <2>1, <2>2 DEF ScheduledOK, CtrlHeld
  <2> QED BY <1>3, <1>7, <2>3 DEF TakeCtrl, t
<1>8. CASE CtrlDiscard(x)
  <2> DEFINE t == DiscardStream(st[x])
  <2>1. /\ CanDiscard(st[x]) /\ w = "ctrl" /\ st[x].wired = 0
    BY <1>1, <1>8, NothingWired, Zenon DEF CtrlDiscard
  <2>2. st[x].rinc = 0
    BY <1>1, <2>1, ZenonT(30) DEF StreamInv, FlagsOK, ReadOK, CanDiscard, DiscardFlags
  <2>3. ~ActiveData(t) /\ ~OwesCtrl(t)
    BY <1>1, <2>1, <2>2
       DEF DiscardStream, Cleanup, CanDiscard, IsStream, StreamField, ActiveData,
           OwesCtrl, NeedsDataCtrl, NeedsWindow, NeedsReset, PendingBytes,
           Buffered, BothEOF, DataCtrl
  <2> HIDE DEF t
  <2>4. ScheduledOK(t, "idle")
    BY <2>3 DEF ScheduledOK
  <2> QED BY <1>3, <1>8, <2>4, Zenon DEF CtrlDiscard, t
<1>9. CASE CtrlData(x)
  BY <1>3, <1>6, <1>9 DEF CtrlData, s
<1>10. CASE CtrlWindow(x)
  BY <1>3, <1>6, <1>10 DEF CtrlWindow, s
<1>11. CASE CtrlReset(x)
  BY <1>3, <1>6, <1>11 DEF CtrlReset, s
<1>12. CASE CtrlEOF(x)
  BY <1>3, <1>6, <1>12 DEF CtrlEOF, s
<1>13. CASE CtrlDone(x)
  BY <1>3, <1>6, <1>13 DEF CtrlDone, s
<1>14. CASE TakeData(x)
  <2> DEFINE t == [st[x] EXCEPT !.queued = {}]
  <2>1. ~OwesCtrl(st[x])
    BY <1>1, <1>14 DEF TakeData, ScheduledOK, CtrlHeld
  <2>2. OwesCtrl(t) => OwesCtrl(st[x])
    BY <1>1 DEF IsStream, StreamField, OwesCtrl, NeedsDataCtrl, NeedsWindow,
                NeedsReset, PendingBytes, Buffered
  <2> HIDE DEF t
  <2>3. ScheduledOK(t, "data")
    BY <2>1, <2>2, Zenon DEF ScheduledOK, DataHeld
  <2> QED BY <1>3, <1>14, <2>3 DEF TakeData, t
<1>15. CASE WriteData(x)
  <2>1. ScheduledOK(Reschedule(AfterOutgoingFlags(PrepareData(st[x]))),
                    "dataWrite")
    BY <1>1, <1>15, WriteDataSchedules DEF WriteData
  <2> QED BY <1>3, <1>15, <2>1, Zenon DEF WriteData
<1>16. CASE NoData(x)
  <2>1. ScheduledOK(st[x], "idle")
    BY <1>1, <1>16, WriteDataSchedules DEF NoData
  <2> QED BY <1>4, <1>16, <2>1, Zenon DEF NoData
<1>17. CASE DataDone(x)
  <2>1. ScheduledOK(AfterWrite(st[x]), w)
    BY <1>1, OthersEnqueue, EnqueuesScheduled, Zenon
  <2>2. ScheduledOK(AfterWrite(st[x]), "idle")
    BY <1>17, <2>1 DEF DataDone, ScheduledOK, DataHeld, CtrlHeld
  <2> QED BY <1>3, <1>17, <2>2, Zenon DEF DataDone
<1>18. ScheduledOK(st[x], "stopped") /\ ScheduledOK(st[x], "closed")
  BY Zenon DEF ScheduledOK, DataHeld, CtrlHeld
<1>19. CASE SendConnError(x) \/ CloseNetwork(x)
  BY <1>4, <1>18, <1>19 DEF SendConnError, CloseNetwork
<1>20. CASE WriteFail(x)
  <2> DEFINE c == [FailConn(conn[x], "ENET", st[x]) EXCEPT !.wpc = "stopped"]
  <2>1. c.wpc = "stopped"
    BY <1>1 DEF IsConn, FailConn, FailOutgoing
  <2>2. StBecomes(x, st[x]) /\ ConnBecomes(x, c)
    BY <1>20, Becomes DEF WriteFail
  <2> HIDE DEF c
  <2> QED BY <1>18, <2>1, <2>2, ScheduledStep
<1>21. CASE WriteFrame(x)
  <2>1. /\ StBecomes(x, st[x]) /\ ConnBecomes(x, conn[x])
        /\ ScheduledOK(st[x], conn[x].wpc)
    BY <1>21, Becomes, Zenon DEF WriteFrame, ScheduledInv
  <2> QED BY <2>1, ScheduledStep
<1> QED
  BY <1>7, <1>8, <1>9, <1>10, <1>11, <1>12, <1>13, <1>14, <1>15, <1>16, <1>17,
     <1>19, <1>20, <1>21, Zenon DEF WriteLoop

\* The read loop
LEMMA ReadLoopSchedules ==
    ASSUME Inv, ScheduledInv, NEW x \in Side, ReadLoop(x)
    PROVE  ScheduledInv'
<1> DEFINE f == Head(Incoming(x))
<1>1. StreamInv(st[x], conn[x].wpc) /\ IsStream(st[x]) /\ IsConn(conn[x])
  BY InvAt, Zenon DEF EndOK
<1>2. ASSUME conn[x].rpc = "proc"
      PROVE  f \in Frame /\ FrameOK(f) /\ f.len \in Nat
  <2>1. net[Peer(x)] \in Seq(Frame) /\ net[Peer(x)] # <<>>
    BY <1>2, InvAt DEF EndOK, ConnOK
  <2>2. f = net[Peer(x)][1] /\ f \in Frame /\ 1 \in 1..Len(net[Peer(x)])
    BY <2>1 DEF Incoming
  <2>3. \A i \in 1..Len(net[Peer(x)]) : FrameOK(net[Peer(x)][i])
    BY InvAt DEF ChannelOK
  <2> QED BY <2>2, <2>3 DEF Frame
<1> HIDE DEF f
\* How the read loop changes its connection, if at all
<1>3. ASSUME NEW v, SetConn(x, [conn[x] EXCEPT !.rpc = v])
      PROVE  \E c : ConnBecomes(x, c) /\ c.wpc = conn[x].wpc
  <2> DEFINE c == [conn[x] EXCEPT !.rpc = v]
  <2>1. ConnBecomes(x, c) /\ c.wpc = conn[x].wpc
    BY <1>1, <1>3, Becomes DEF IsConn
  <2> HIDE DEF c
  <2> QED BY <2>1
<1>4. ASSUME NEW e, StopReading(x, conn[x], e)
      PROVE  \E c : ConnBecomes(x, c) /\ c.wpc = conn[x].wpc
  <2> DEFINE c == [FailConn(conn[x], e, st[x]) EXCEPT !.rpc = "stopped"]
  <2>1. c.wpc = conn[x].wpc
    BY <1>1, SameLoop
  <2>2. ConnBecomes(x, c)
    BY <1>4, Becomes, Zenon DEF StopReading
  <2> HIDE DEF c
  <2> QED BY <2>1, <2>2
<1>5. ASSUME conn' = conn
      PROVE  \E c : ConnBecomes(x, c) /\ c.wpc = conn[x].wpc
  BY <1>5, Becomes, Zenon
<1>6. ASSUME NEW t, SetStream(x, t), Enqueues(st[x], t),
             \E c : ConnBecomes(x, c) /\ c.wpc = conn[x].wpc
      PROVE  ScheduledInv'
  BY <1>6, Becomes, EnqueueStep, Zenon
<1>7. ASSUME st' = st, \E c : ConnBecomes(x, c) /\ c.wpc = conn[x].wpc
      PROVE  ScheduledInv'
  <2>1. StBecomes(x, st[x]) /\ SameWork(st[x], st[x])
    BY <1>7, Becomes DEF SameWork
  <2> QED BY <1>7, <2>1, SameWorkEnqueues, EnqueueStep, Zenon
<1>8. CASE ArriveOpen(x)
  <2> DEFINE s == NewIncoming(st[x])
  <2>1. Enqueues(st[x], s)
    BY <1>1, OthersEnqueue
  <2>2. CASE st' = st /\ \E e : StopReading(x, conn[x], e)
    BY <1>4, <1>7, <2>2
  <2>3. CASE SetStream(x, s) /\ \E v : SetConn(x, [conn[x] EXCEPT !.rpc = v])
    BY <1>3, <1>6, <2>1, <2>3, Zenon
  <2>4. CASE /\ conn[x].fail # None
             /\ SetStream(x, CloseWithError(s, conn[x].fail)) /\ conn' = conn
    <3>1. conn[x].fail \in Error
      BY <1>1, <2>4, ZenonT(30) DEF IsConn
    <3>2. IsStream(s)
      BY <1>1 DEF NewIncoming, IsStream, StreamField
    <3> HIDE DEF s
    <3>3. Enqueues(s, CloseWithError(s, conn[x].fail))
      BY <3>1, <3>2, CloseWithErrorEnqueues
    <3>4. Enqueues(st[x], CloseWithError(s, conn[x].fail))
      BY <2>1, <3>3, EnqueuesScheduled
    <3> QED BY <1>5, <1>6, <2>4, <3>4, Zenon
  <2>5. \/ st' = st /\ \E e : StopReading(x, conn[x], e)
        \/ SetStream(x, s) /\ \E v : SetConn(x, [conn[x] EXCEPT !.rpc = v])
        \/ /\ conn[x].fail # None
           /\ SetStream(x, CloseWithError(s, conn[x].fail)) /\ conn' = conn
    BY <1>8, Zenon DEF ArriveOpen, GotoProc
  <2> QED BY <2>2, <2>3, <2>4, <2>5, Zenon
<1>9. CASE RefuseStream(x)
  <2>1. "ECONNSHUTDOWN" \in Error
    BY DEF Error
  <2>2. Enqueues(st[x], CloseWithError(st[x], "ECONNSHUTDOWN"))
    BY <1>1, <2>1, CloseWithErrorEnqueues
  <2> QED BY <1>3, <1>6, <1>9, <2>2, Zenon DEF RefuseStream
<1>10. CASE ProcessDataFrame(x)
  <2>1. Enqueues(st[x], ProcessData(st[x], f))
    BY <1>1, <1>2, <1>10, ProcessDataEnqueues DEF ProcessDataFrame
  <2>2. \E c : ConnBecomes(x, c) /\ c.wpc = conn[x].wpc
    BY <1>3, <1>4, <1>10 DEF ProcessDataFrame
  <2> QED BY <1>6, <1>10, <2>1, <2>2 DEF ProcessDataFrame, f
<1>11. CASE ProcessResetFrame(x)
  <2>1. f.err # None
    BY <1>2, <1>11 DEF ProcessResetFrame, FrameOK, f
  <2>2. Enqueues(st[x], ProcessReset(st[x], f))
    BY <1>1, <1>2, <1>11, <2>1, ProcessResetEnqueues DEF ProcessResetFrame
  <2> QED BY <1>3, <1>6, <1>11, <2>2 DEF ProcessResetFrame, f
<1>12. CASE ProcessWindowFrame(x)
  <2>1. Enqueues(st[x], ChangeWriteWindow(st[x], f.len))
    BY <1>1, <1>2, <1>12, OthersEnqueue DEF ProcessWindowFrame
  <2>2. ~(f.len <= 0)
    BY <1>2, <1>12 DEF ProcessWindowFrame, FrameOK, f
  <2>3. /\ SetStream(x, ChangeWriteWindow(st[x], f.len))
        /\ SetConn(x, [conn[x] EXCEPT !.rpc = "idle"])
    BY <1>12, <2>2 DEF ProcessWindowFrame, f
  <2> QED BY <1>3, <1>6, <2>1, <2>3
<1>13. CASE ArriveData(x) \/ ArriveReset(x) \/ ArriveWindow(x) \/ ReadFail(x)
  <2>1. st' = st
    BY <1>13 DEF ArriveData, ArriveReset, ArriveWindow, ReadFail
  <2>2. \E c : ConnBecomes(x, c) /\ c.wpc = conn[x].wpc
    BY <1>3, <1>4, <1>5, <1>13, Zenon
       DEF ArriveData, ArriveReset, ArriveWindow, ReadFail, GotoProc
  <2> QED BY <1>7, <2>1, <2>2, Zenon
<1>14. CASE ArriveConnError(x)
  <2> DEFINE o == FailOutgoing(conn[x], "ECONNSHUTDOWN")
             c == [o EXCEPT !.rpc = "told"]
  <2>1. IsConn(o) /\ o.wpc = conn[x].wpc
    BY <1>1, SameLoop
  <2>2. ConnBecomes(x, c)
    BY <1>14, Becomes DEF ArriveConnError
  <2> HIDE DEF o
  <2>3. c.wpc = conn[x].wpc
    BY <2>1 DEF IsConn
  <2> HIDE DEF c
  <2> QED BY <1>7, <1>14, <2>2, <2>3 DEF ArriveConnError
<1>15. CASE ProcessConnError(x)
  <2> DEFINE c == [FailConn(conn[x], Head(Incoming(x)).err, st[x])
                      EXCEPT !.rpc = "stopped"]
  <2>1. ConnBecomes(x, c)
    BY <1>15, Becomes DEF ProcessConnError, StopReading
  <2>2. c.wpc = conn[x].wpc
    BY <1>1, SameLoop
  <2> HIDE DEF c
  <2> QED BY <1>7, <1>15, <2>1, <2>2 DEF ProcessConnError
<1> QED
  BY <1>8, <1>9, <1>10, <1>11, <1>12, <1>13, <1>14, <1>15, Zenon DEF ReadLoop

\* The calls of the application
LEMMA ApplicationSchedules ==
    ASSUME Inv, ScheduledInv, NEW x \in Side, Application(x)
    PROVE  ScheduledInv'
<1> DEFINE s == st[x]
<1>1. StreamInv(s, conn[x].wpc) /\ IsStream(s)
  BY InvAt, Zenon DEF EndOK
<1>2. CloseErrs \subseteq Error
  BY RawConnParameters DEF Error
<1>3. ASSUME NEW t, App(x, t), Enqueues(s, t)
      PROVE  ScheduledInv'
  <2>1. StBecomes(x, t) /\ ConnBecomes(x, conn[x])
    BY <1>3, Becomes, Zenon DEF App
  <2> QED BY <1>3, <2>1, EnqueueStep, Zenon
<1>4. ASSUME NEW n \in Nat,
             \/ App(x, ReadBytes(s, n)) \/ App(x, WriteBytes(s, n))
             \/ App(x, AcknowledgeStream(s))
      PROVE  ScheduledInv'
  BY <1>1, <1>3, <1>4, OthersEnqueue
<1>5. ASSUME NEW v,
             \/ App(x, [s EXCEPT !.rwait = v]) \/ App(x, [s EXCEPT !.wwait = v])
      PROVE  ScheduledInv'
  BY <1>1, <1>3, <1>5, WaitsEnqueue, Zenon
<1>6. CASE Read(x)
  <2>1. \A n \in 1..Readable(s) : n \in Nat
    OBVIOUS
  <2> QED BY <1>4, <1>5, <1>6, <2>1, Zenon DEF Read
<1>7. CASE Write(x)
  <2>1. \A n \in 1..Least(WriteBufferSize - Buffered(s), MaxBytes[x] - s.whi) :
            n \in Nat
    OBVIOUS
  <2> QED BY <1>4, <1>5, <1>7, <2>1, Zenon DEF Write
<1>8. CASE Flush(x) \/ ReadTimeout(x) \/ WriteTimeout(x)
  BY <1>5, <1>8, Zenon DEF Flush, ReadTimeout, WriteTimeout
<1>9. CASE Acknowledge(x)
  BY <1>4, <1>9 DEF Acknowledge
<1>10. CASE Close(x)
  BY <1>1, <1>2, <1>3, <1>10, CloseWithErrorEnqueues, Zenon DEF Close
<1>11. CASE CloseRead(x)
  BY <1>1, <1>2, <1>3, <1>11, SetReadErrorEnqueues, Zenon DEF CloseRead
<1>12. CASE CloseWrite(x)
  BY <1>1, <1>2, <1>3, <1>12, SetWriteErrorEnqueues DEF CloseWrite
<1> QED
  BY <1>6, <1>7, <1>8, <1>9, <1>10, <1>11, <1>12, Zenon DEF Application

\* Every critical section keeps the work scheduled.
LEMMA NextScheduled == Inv /\ ScheduledInv /\ [Next]_vars => ScheduledInv'
<1> SUFFICES ASSUME Inv, ScheduledInv, [Next]_vars PROVE ScheduledInv'
  OBVIOUS
<1>1. CASE UNCHANGED vars \/ Break
  BY <1>1 DEF vars, Break, ScheduledInv, ScheduledOK, ActiveData, OwesCtrl,
              NeedsDataCtrl, NeedsWindow, NeedsReset, PendingBytes, Buffered
<1>2. ASSUME NEW x \in Side, NewStream(x) \/ CloseStreams(x)
      PROVE  ScheduledInv'
  <2>1. StreamInv(st[x], conn[x].wpc) /\ IsStream(st[x]) /\ IsConn(conn[x])
    BY InvAt DEF EndOK
  <2>2. CASE NewStream(x)
    <3>1. Enqueues(st[x], NewOutgoing(st[x]))
      BY <2>1, OthersEnqueue, Zenon
    <3>2. StBecomes(x, NewOutgoing(st[x])) /\ ConnBecomes(x, conn[x])
      BY <2>2, Becomes DEF NewStream
    <3> QED BY <3>1, <3>2, EnqueueStep, Zenon
  <2>3. CASE CloseStreams(x)
    <3> DEFINE c == [conn[x] EXCEPT !.marks = @ \ {"closing"}]
               t == CloseWithError(st[x], conn[x].fail)
    <3>1. conn[x].fail \in Error
      BY <2>1, <2>3, InvAt DEF CloseStreams, EndOK, ConnOK, IsConn
    <3>2. Enqueues(st[x], t)
      BY <2>1, <3>1, CloseWithErrorEnqueues
    <3>3. StBecomes(x, t) /\ ConnBecomes(x, c)
      BY <2>3, Becomes DEF CloseStreams
    <3>4. c.wpc = conn[x].wpc
      BY <2>1 DEF IsConn
    <3> HIDE DEF c, t
    <3> QED BY <3>2, <3>3, <3>4, EnqueueStep
  <2> QED BY <1>2, <2>2, <2>3, Zenon
<1>3. ASSUME NEW x \in Side, ConnClose(x) \/ Shutdown(x)
      PROVE  ScheduledInv'
  <2>1. IsConn(conn[x])
    BY InvAt DEF EndOK
  <2>2. \E c : ConnBecomes(x, c) /\ c.wpc = conn[x].wpc
    <3>1. CASE ConnClose(x)
      <4> DEFINE c == FailConn(conn[x], "ECONNCLOSED", st[x])
      <4>1. c.wpc = conn[x].wpc
        BY <2>1, SameLoop
      <4>2. ConnBecomes(x, c)
        BY <3>1, Becomes DEF ConnClose
      <4> HIDE DEF c
      <4> QED BY <4>1, <4>2
    <3>2. CASE Shutdown(x)
      <4> DEFINE c == [conn[x] EXCEPT !.marks = @ \cup {"shutdown"}]
      <4>1. ConnBecomes(x, c)
        BY <3>2, Becomes DEF Shutdown
      <4>2. c.wpc = conn[x].wpc
        BY <2>1 DEF IsConn
      <4> HIDE DEF c
      <4> QED BY <4>1, <4>2
    <3> QED BY <1>3, <3>1, <3>2
  <2>3. StBecomes(x, st[x]) /\ SameWork(st[x], st[x])
    BY <1>3, Becomes DEF ConnClose, Shutdown, SameWork
  <2> QED BY <2>2, <2>3, SameWorkEnqueues, EnqueueStep, Zenon
<1> QED
  BY <1>1, <1>2, <1>3, WriteLoopSchedules, ReadLoopSchedules,
     ApplicationSchedules, Zenon DEF Next

-----------------------------------------------------------------------------
\* The theorems

-----------------------------------------------------------------------------
\* Steps that stay on one side

\* The client opens a stream, and may forget it before anything was sent.
LEMMA ClientStep ==
    ASSUME Inv, NEW x \in Side, NewStream(x) \/ CtrlDiscard(x)
    PROVE  Inv'
<1> DEFINE y == Peer(x)
           s == st[x]
<1>1. /\ EndOK(s, conn[x], net[y]) /\ EndOK(st[y], conn[y], net[x])
      /\ ChannelOK(s, conn[x].wpc, st[y], net[x])
      /\ ChannelOK(st[y], conn[y].wpc, s, net[y])
      /\ link \in {"up", "down"} /\ IsConn(conn[x])
  BY InvAt, Sides, Zenon DEF Inv, EndsTypeOK
<1>2. x = "client" /\ (s.where = "none" \/ "NeedOpen" \in s.flags)
  <2>1. CASE NewStream(x)
    BY <2>1, Zenon DEF NewStream, Made
  <2>2. CASE CtrlDiscard(x)
    <3>1. "NeedOpen" \in s.flags
      BY <2>2, Zenon DEF CtrlDiscard, CanDiscard, DiscardFlags
    <3> QED BY <3>1, Sides DEF Inv, OpenOK
  <2> QED BY <2>1, <2>2, Zenon
<1>3. OpenOK(s, st[y], net[x], net[y], conn[y].rpc)
  BY <1>2, Sides DEF Inv
<1>4. /\ st[y].where = "none"
      /\ \A i \in 1..Len(net[x]) : net[x][i].kind = "CONN"
      /\ \A i \in 1..Len(net[y]) : net[y][i].kind = "CONN"
      /\ st[y].flags = {}
  BY <1>1, <1>2, <1>3, Zenon DEF OpenOK, EndOK, Untouched, ChannelOK, OrderOK
<1>5. /\ conn[y].rpc = "proc" => net[x] # <<>>
      /\ NetBecomes(x, net[x], net[y]) /\ link' \in {"up", "down"}
  BY <1>1, Becomes, Zenon DEF EndOK, ConnOK, NewStream, CtrlDiscard
<1>6. ASSUME NEW t, NEW w,
             conn[x].wpc \in {"stopped", "closed"} => w \in {"stopped", "closed"},
             t.where # "none", t.got = s.got, t.rleft = s.rleft,
             t.sent = s.sent, t.wleft = s.wleft
      PROVE  /\ ChannelOK(t, w, st[y], net[x])
             /\ ChannelOK(st[y], conn[y].wpc, t, net[y])
  BY <1>1, <1>4, <1>6, Zenon
  DEF ChannelOK, DataOK, WindowOK, EOFOK, OrderOK, Ends,
      Granted, Credited
<1>7. CASE NewStream(x)
  <2> DEFINE t == NewOutgoing(s)
  <2>1. /\ s.where = "none" /\ s.flags = {} /\ StreamInv(s, conn[x].wpc)
    BY <1>1, <1>7, ZenonT(30) DEF NewStream, Made, EndOK, Untouched
  <2>2. /\ StreamInv(t, conn[x].wpc) /\ t.where = "live"
        /\ t.got = s.got /\ t.rleft = s.rleft
        /\ t.sent = s.sent /\ t.wleft = s.wleft
        /\ "NeedOpen" \in t.flags
    BY <2>1, ZenonT(30)
    DEF NewOutgoing, NewIncoming, StreamInv, IsStream, StreamField,
        BufferOK, FlagsOK, ReadOK, Buffered, PendingBytes, BothEOF, Flag, Queue
  <2>3. StBecomes(x, t) /\ ConnBecomes(x, conn[x])
    BY <1>7, Becomes, Zenon DEF NewStream
  <2> HIDE DEF t
  <2>4. EndOK(t, conn[x], net[y])
    BY <1>1, <2>2, ZenonT(30) DEF EndOK, ConnOK, Untouched
  <2>5. OpenOK(t, st[y], net[x], net[y], conn[y].rpc)
    BY <1>1, <1>3, <1>4, <2>2, Zenon DEF OpenOK, ChannelOK, FrameOK
  <2>6. /\ ChannelOK(t, conn[x].wpc, st[y], net[x])
        /\ ChannelOK(st[y], conn[y].wpc, t, net[y])
    BY <1>6, <2>2, Zenon
  <2> HIDE DEF y, s, Inv
  <2> QED
    BY <1>2, <1>5, <2>3, <2>4, <2>5, <2>6, StepInv, Zenon DEF y
<1>8. CASE CtrlDiscard(x)
  <2> DEFINE t == DiscardStream(s)
             c == [conn[x] EXCEPT !.wpc = "idle"]
  <2>1. StreamInv(s, conn[x].wpc) /\ CanDiscard(s) /\ conn[x].wpc = "ctrl"
    BY <1>1, <1>8, Zenon DEF CtrlDiscard, EndOK
  <2>2. /\ StreamInv(t, "idle") /\ t.where = "gone"
        /\ "SeenEOF" \in t.flags /\ "NeedOpen" \notin t.flags
        /\ t.got = s.got /\ t.rleft = s.rleft
        /\ t.sent = s.sent /\ t.wleft = s.wleft
    BY <2>1, DiscardStreamInv DEF BothEOF
  <2>3. /\ IsConn(c) /\ c.wpc = "idle" /\ c.rpc = conn[x].rpc
        /\ c.fail = conn[x].fail /\ c.marks = conn[x].marks
    BY <1>1 DEF IsConn
  <2>4. StBecomes(x, t) /\ ConnBecomes(x, c)
    BY <1>8, Becomes DEF CtrlDiscard, GotoW
  <2> HIDE DEF t, c
  <2>5. EndOK(t, c, net[y])
    BY <1>1, <2>2, <2>3, Zenon DEF EndOK, ConnOK, Untouched
  <2>6. OpenOK(t, st[y], net[x], net[y], conn[y].rpc)
    BY <1>1, <1>3, <1>4, <2>2, Zenon DEF OpenOK, ChannelOK, FrameOK
  <2>7. /\ ChannelOK(t, c.wpc, st[y], net[x])
        /\ ChannelOK(st[y], conn[y].wpc, t, net[y])
    BY <1>6, <2>1, <2>2, <2>3, Zenon
  <2> HIDE DEF y, s, Inv
  <2> QED
    BY <1>2, <1>5, <2>4, <2>5, <2>6, <2>7, StepInv, Zenon DEF y
<1> QED
  BY <1>7, <1>8, Zenon

\* The write loop takes a stream off a queue, finds nothing to do, or has
\* written a payload.
LEMMA WriteLoopLocal ==
    ASSUME Inv, NEW x \in Side,
           \/ TakeCtrl(x) \/ CtrlDone(x) \/ TakeData(x) \/ NoData(x)
           \/ DataDone(x) \/ CloseNetwork(x)
    PROVE  Inv'
<1>1. EndOK(st[x], conn[x], net[Peer(x)])
  BY InvAt, Zenon
<1>2. /\ StreamInv(st[x], conn[x].wpc) /\ Untouched(st[x], conn[x].wpc)
      /\ link \in {"up", "down"}
  BY <1>1 DEF EndOK, Inv, EndsTypeOK
<1>3. CASE TakeCtrl(x)
  <2> DEFINE t == [st[x] EXCEPT !.queued = @ \ {"ctrl"}]
  <2>1. StreamInv(t, "ctrl") /\ Same(st[x], t)
    BY <1>2, <1>3, ZenonT(30)
    DEF TakeCtrl, StreamInv, IsStream, StreamField, BufferOK,
        FlagsOK, ReadOK, Buffered, PendingBytes, Same
  <2>2. st[x].where # "none"
    BY <1>2, <1>3 DEF TakeCtrl, Untouched
  <2>3. Untouched(t, "ctrl")
    BY <2>1, <2>2 DEF Same, Untouched
  <2>4. StBecomes(x, t)
    BY <1>3, Becomes DEF TakeCtrl
  <2> HIDE DEF t
  <2> QED BY <1>2, <1>3, <2>1, <2>3, <2>4, GotoStep DEF TakeCtrl
<1>4. CASE CtrlDone(x)
  <2> DEFINE t == Relocked(x)
  <2>1. StreamInv(t, "idle") /\ Same(st[x], t) /\ Made(x)
    BY <1>4, RelockedInv, Zenon DEF CtrlDone
  <2>2. Untouched(t, "idle")
    BY <2>1 DEF Same, Untouched, Made
  <2>3. StBecomes(x, t)
    BY <1>4, Becomes, Zenon DEF CtrlDone
  <2> HIDE DEF t
  <2> QED BY <1>2, <1>4, <2>1, <2>2, <2>3, GotoStep, Zenon DEF CtrlDone, InCtrl
<1>5. CASE TakeData(x)
  <2> DEFINE t == [st[x] EXCEPT !.queued = {}]
  <2>1. StreamInv(t, "data") /\ Same(st[x], t)
    BY <1>2, <1>5, ZenonT(30)
    DEF TakeData, StreamInv, IsStream, StreamField, BufferOK,
        FlagsOK, ReadOK, Buffered, PendingBytes, Same
  <2>2. st[x].where # "none"
    BY <1>2, <1>5 DEF TakeData, Untouched
  <2>3. Untouched(t, "data")
    BY <2>1, <2>2 DEF Same, Untouched
  <2>4. StBecomes(x, t)
    BY <1>5, Becomes DEF TakeData
  <2> HIDE DEF t
  <2> QED BY <1>2, <1>5, <2>1, <2>3, <2>4, GotoStep DEF TakeData
<1>6. CASE NoData(x)
  <2>1. StreamInv(st[x], "idle") /\ Same(st[x], st[x])
    BY <1>2, <1>6, NothingWired, Zenon DEF NoData, Same
  <2>2. Untouched(st[x], "idle")
    BY <1>2 DEF Untouched
  <2>3. StBecomes(x, st[x])
    BY <1>6, Becomes, Zenon DEF NoData
  <2> QED BY <1>2, <1>6, <2>1, <2>2, <2>3, GotoStep, Zenon DEF NoData
<1>7. CASE DataDone(x)
  <2> DEFINE t == AfterWrite(st[x])
  <2>1. StreamInv(t, "idle") /\ Same(st[x], t)
    BY <1>2, AfterWriteInv, Zenon
  <2>2. Untouched(t, "idle")
    BY <1>2, <1>7, <2>1, ZenonT(30) DEF DataDone, Same, Untouched
  <2>3. StBecomes(x, t)
    BY <1>7, Becomes, Zenon DEF DataDone
  <2> HIDE DEF t
  <2> QED BY <1>2, <1>7, <2>1, <2>2, <2>3, GotoStep, Zenon DEF DataDone
<1>8. CASE CloseNetwork(x)
  <2>1. StreamInv(st[x], "closed") /\ Same(st[x], st[x])
    BY <1>2, Zenon DEF StreamInv, BufferOK, Same
  <2>2. Untouched(st[x], "closed")
    BY <1>2, Zenon DEF Untouched
  <2>3. StBecomes(x, st[x])
    BY <1>8, Becomes, ZenonT(30) DEF CloseNetwork
  <2> QED BY <1>8, <2>1, <2>2, <2>3, GotoStep DEF CloseNetwork
<1> QED
  BY <1>3, <1>4, <1>5, <1>6, <1>7, <1>8, Zenon

\* The calls of the application.
LEMMA ApplicationStep ==
    ASSUME Inv, NEW x \in Side, Application(x)
    PROVE  Inv'
<1>1. EndOK(st[x], conn[x], net[Peer(x)])
  BY InvAt, Zenon
<1>2. StreamInv(st[x], conn[x].wpc)
  BY <1>1 DEF EndOK
<1>3. CloseErrs \subseteq Error
  BY RawConnParameters DEF Error
<1>4. CASE Read(x)
  <2>1. Made(x)
    BY <1>4, Zenon DEF Read, MayCall
  <2>2. CASE \E n \in 1..Readable(st[x]) : App(x, ReadBytes(st[x], n))
    BY <1>2, <2>1, <2>2, ReadBytesInv, AppStep
  <2>3. CASE App(x, [st[x] EXCEPT !.rwait = "read"])
    BY <1>2, <2>1, <2>3, WaitInv, AppStep, Zenon
  <2> QED BY <1>4, <2>2, <2>3 DEF Read
<1>5. CASE Write(x)
  <2>1. Made(x) /\ st[x].werr = None
    BY <1>5, Zenon DEF Write, MayCall
  <2>2. CASE \E n \in 1..Least(WriteBufferSize - Buffered(st[x]),
                              MaxBytes[x] - st[x].whi) :
                App(x, WriteBytes(st[x], n))
    <3>1. PICK n \in 1..Least(WriteBufferSize - Buffered(st[x]),
                             MaxBytes[x] - st[x].whi) :
                App(x, WriteBytes(st[x], n))
      BY <2>2, Zenon
    <3>2. n \in Nat
      OBVIOUS
    <3> QED BY <1>2, <2>1, <3>1, <3>2, WriteBytesInv, AppStep, Zenon
  <2>3. CASE App(x, [st[x] EXCEPT !.wwait = "write"])
    BY <1>2, <2>1, <2>3, WaitInv, AppStep, Zenon
  <2> QED BY <1>5, <2>2, <2>3 DEF Write
<1>6. CASE Flush(x)
  BY <1>2, <1>6, WaitInv, AppStep, Zenon DEF Flush, MayCall
<1>7. CASE Acknowledge(x)
  BY <1>2, <1>7, AcknowledgeInv, AppStep, Zenon DEF Acknowledge, MayCall
<1>8. CASE Close(x)
  BY <1>2, <1>3, <1>8, CloseWithErrorInv, AppStep, Zenon DEF Close, MayCall
<1>9. CASE CloseRead(x)
  BY <1>2, <1>3, <1>9, SetReadErrorInv, AppStep, Zenon DEF CloseRead, MayCall
<1>10. CASE CloseWrite(x)
  BY <1>2, <1>3, <1>10, SetWriteErrorInv, AppStep DEF CloseWrite, MayCall
<1>11. CASE ReadTimeout(x)
  BY <1>2, <1>11, WaitInv, AppStep, Zenon DEF ReadTimeout, MayCall
<1>12. CASE WriteTimeout(x)
  BY <1>2, <1>12, WaitInv, AppStep, Zenon DEF WriteTimeout, MayCall
<1> QED
  BY <1>4, <1>5, <1>6, <1>7, <1>8, <1>9, <1>10, <1>11, <1>12, Zenon DEF Application

\* The connection is closed, shut down or broken, and its stream is told.
LEMMA ConnStep ==
    ASSUME Inv, NEW x \in Side,
           \/ ConnClose(x) \/ CloseStreams(x) \/ Shutdown(x) \/ WriteFail(x)
           \/ ReadFail(x) \/ RefuseStream(x)
    PROVE  Inv'
<1>1. EndOK(st[x], conn[x], net[Peer(x)])
  BY InvAt, Zenon
<1>2. /\ StreamInv(st[x], conn[x].wpc) /\ Untouched(st[x], conn[x].wpc)
      /\ IsConn(conn[x]) /\ ConnOK(st[x], conn[x], net[Peer(x)])
      /\ link \in {"up", "down"}
  BY <1>1, Zenon DEF EndOK, Inv, EndsTypeOK
<1>3. Same(st[x], st[x])
  BY Zenon DEF Same
<1>4. /\ conn[x].fail \notin ProtocolError
      /\ "closing" \in conn[x].marks => conn[x].fail # None /\ Made(x)
  BY <1>2 DEF ConnOK, Made
<1>5. CASE ConnClose(x)
  <2> DEFINE c == FailConn(conn[x], "ECONNCLOSED", st[x])
  <2>1. /\ IsConn(c) /\ c.rpc = conn[x].rpc /\ c.wpc = conn[x].wpc
        /\ c.fail \notin ProtocolError /\ c.fail # None
        /\ "closing" \in c.marks => Made(x)
    <3>1. "ECONNCLOSED" \in Error \ ProtocolError
      BY DEF Error, ProtocolError
    <3> QED BY <1>2, <1>4, <3>1, FailConnInv, Zenon DEF Made
  <2>2. StBecomes(x, st[x]) /\ ConnBecomes(x, c) /\ net' = net /\ link' = link
    BY <1>5, Becomes, Zenon DEF ConnClose
  <2> HIDE DEF c
  <2>3. ConnOK(st[x], c, net[Peer(x)])
    BY <1>2, <2>1, Zenon DEF ConnOK, Made
  <2> QED BY <1>2, <1>3, <2>1, <2>2, <2>3, LocalStep, Zenon
<1>6. CASE CloseStreams(x)
  <2> DEFINE c == [conn[x] EXCEPT !.marks = @ \ {"closing"}]
             t == CloseWithError(st[x], conn[x].fail)
  <2>1. /\ IsConn(c) /\ c.rpc = conn[x].rpc /\ c.wpc = conn[x].wpc
        /\ c.fail = conn[x].fail /\ "closing" \notin c.marks
    BY <1>2 DEF IsConn
  <2>2. conn[x].fail \in Error
    BY <1>2, <1>4, <1>6 DEF CloseStreams, IsConn
  <2>3. StreamInv(t, conn[x].wpc) /\ Same(st[x], t)
    BY <1>2, <2>2, CloseWithErrorInv, Zenon
  <2>4. StBecomes(x, t) /\ ConnBecomes(x, c) /\ net' = net /\ link' = link
    BY <1>6, Becomes DEF CloseStreams
  <2> HIDE DEF c, t
  <2>5. ConnOK(t, c, net[Peer(x)]) /\ Untouched(t, c.wpc)
    BY <1>2, <1>4, <1>6, <2>1, <2>3, Zenon
       DEF CloseStreams, ConnOK, Made, Same, Untouched
  <2> QED BY <1>2, <2>1, <2>3, <2>4, <2>5, LocalStep, Zenon
<1>7. CASE Shutdown(x)
  <2> DEFINE c == [conn[x] EXCEPT !.marks = @ \cup {"shutdown"}]
  <2>1. /\ IsConn(c) /\ c.rpc = conn[x].rpc /\ c.wpc = conn[x].wpc
        /\ c.fail = conn[x].fail
        /\ "closing" \in c.marks <=> "closing" \in conn[x].marks
    BY <1>2 DEF IsConn
  <2>2. StBecomes(x, st[x]) /\ ConnBecomes(x, c) /\ net' = net /\ link' = link
    BY <1>7, Becomes, Zenon DEF Shutdown
  <2> HIDE DEF c
  <2>3. ConnOK(st[x], c, net[Peer(x)])
    BY <1>2, <2>1, Zenon DEF ConnOK
  <2> QED BY <1>2, <1>3, <2>1, <2>2, <2>3, LocalStep, Zenon
<1>8. CASE WriteFail(x)
  <2> DEFINE d == FailConn(conn[x], "ENET", st[x])
             c == [d EXCEPT !.wpc = "stopped"]
  <2>1. /\ IsConn(d) /\ d.rpc = conn[x].rpc /\ d.wpc = conn[x].wpc
        /\ d.fail \notin ProtocolError /\ d.fail # None
        /\ "closing" \in d.marks => Made(x)
    <3>1. "ENET" \in Error \ ProtocolError
      BY DEF Error, ProtocolError
    <3> QED BY <1>2, <1>4, <3>1, FailConnInv, ZenonT(30) DEF Made
  <2> HIDE DEF d
  <2>2. /\ IsConn(c) /\ c.rpc = conn[x].rpc /\ c.wpc = "stopped"
        /\ c.fail = d.fail /\ c.marks = d.marks
    BY <2>1 DEF IsConn
  <2>3. StBecomes(x, st[x]) /\ ConnBecomes(x, c) /\ net' = net /\ link' = link
    BY <1>8, Becomes DEF WriteFail, d
  <2> HIDE DEF c
  <2>4. ConnOK(st[x], c, net[Peer(x)])
    BY <1>2, <2>1, <2>2, Zenon DEF ConnOK, Made
  <2>5. StreamInv(st[x], c.wpc) /\ Untouched(st[x], c.wpc)
    BY <1>2, <2>2, Zenon DEF StreamInv, BufferOK, Untouched
  <2> QED BY <1>2, <1>3, <2>2, <2>3, <2>4, <2>5, LocalStep, Zenon
<1>9. CASE ReadFail(x)
  <2> DEFINE d == FailConn(conn[x], "EOF", st[x])
             c == [d EXCEPT !.rpc = "stopped"]
  <2>1. /\ IsConn(d) /\ d.wpc = conn[x].wpc
        /\ d.fail \notin ProtocolError /\ d.fail # None
        /\ "closing" \in d.marks => Made(x)
    <3>1. "EOF" \in Error \ ProtocolError
      BY DEF Error, ProtocolError
    <3> QED BY <1>2, <1>4, <3>1, FailConnInv, Zenon DEF Made
  <2> HIDE DEF d
  <2>2. /\ IsConn(c) /\ c.rpc = "stopped" /\ c.wpc = conn[x].wpc
        /\ c.fail = d.fail /\ c.marks = d.marks
    BY <2>1 DEF IsConn
  <2>3. StBecomes(x, st[x]) /\ ConnBecomes(x, c) /\ net' = net /\ link' = link
    BY <1>9, Becomes DEF ReadFail, StopReading, d
  <2> HIDE DEF c
  <2>4. ConnOK(st[x], c, net[Peer(x)])
    BY <1>2, <2>1, <2>2, Zenon DEF ConnOK, Made
  <2> QED BY <1>2, <1>3, <1>9, <2>2, <2>3, <2>4, LocalStep, Zenon DEF ReadFail
<1>10. CASE RefuseStream(x)
  <2> DEFINE c == [conn[x] EXCEPT !.rpc = "idle"]
             t == CloseWithError(st[x], "ECONNSHUTDOWN")
  <2>1. /\ IsConn(c) /\ c.rpc = "idle" /\ c.wpc = conn[x].wpc
        /\ c.fail = conn[x].fail /\ c.marks = conn[x].marks
    BY <1>2 DEF IsConn
  <2>2. "ECONNSHUTDOWN" \in Error
    BY DEF Error
  <2>3. StreamInv(t, conn[x].wpc) /\ Same(st[x], t)
    BY <1>2, <2>2, CloseWithErrorInv, Zenon
  <2>4. StBecomes(x, t) /\ ConnBecomes(x, c) /\ net' = net /\ link' = link
    BY <1>10, Becomes DEF RefuseStream
  <2> HIDE DEF c, t
  <2>5. ConnOK(t, c, net[Peer(x)]) /\ Untouched(t, c.wpc)
    BY <1>2, <1>10, <2>1, <2>3 DEF RefuseStream, ConnOK, Same, Untouched
  <2> QED BY <1>2, <1>10, <2>1, <2>3, <2>4, <2>5, LocalStep DEF RefuseStream
<1> QED
  BY <1>5, <1>6, <1>7, <1>8, <1>9, <1>10

=============================================================================
