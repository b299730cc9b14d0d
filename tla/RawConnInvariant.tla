-------------------------- MODULE RawConnInvariant --------------------------
(***************************************************************************)
(* The inductive invariant of RawConn, and the lemmas that carry it over a *)
(* step: what the methods of rawStream preserve, what a frame put on or    *)
(* taken off a channel leaves true, and which parts of a side a step has   *)
(* to account for.  Then the steps of the write loop, which put a frame on *)
(* the wire, keep it.                                                      *)
(***************************************************************************)
EXTENDS RawConn, TLAPS

-----------------------------------------------------------------------------
\* What the methods of rawStream preserve

\* What holds of one end by itself; w is where its write loop stands (wpc in
\* RawConn).  Unless the write buffer was cleared by a RESET, what it holds
\* starts right after the bytes already sent; once EOF was sent it is empty.
BufferOK(s, w) ==
    /\ s.rlo <= s.rhi
    /\ s.wlo + s.wired <= s.whi
    /\ s.wired > 0 => w \in {"ctrlWrite", "dataWrite", "stopped", "closed"}
    /\ Buffered(s) > 0 \/ s.werr = None => s.wlo + s.wired = s.sent

FlagsOK(s) ==
    /\ "NeedReset" \in s.flags => s.rerr # None
    /\ "NeedEOF" \in s.flags => s.werr # None
    /\ "SentEOF" \in s.flags =>
          s.werr # None /\ "NeedEOF" \notin s.flags /\ PendingBytes(s) = 0
    /\ "NeedOpen" \in s.flags => s.flags \cap BothEOF = {}
    /\ s.where = "gone" => BothEOF \subseteq s.flags

\* Nothing is granted or reset once the read side has ended.
ReadOK(s) ==
    /\ "SeenEOF" \in s.flags => s.rerr # None /\ "NeedReset" \notin s.flags
    /\ s.rerr # None => s.rinc = 0

StreamInv(s, w) == IsStream(s) /\ BufferOK(s, w) /\ FlagsOK(s) /\ ReadOK(s)

\* s and t agree on everything the other end's frames depend on.
Same(s, t) ==
    /\ t.where = s.where
    /\ t.got = s.got /\ t.rleft = s.rleft
    /\ t.sent = s.sent /\ t.wleft = s.wleft
    /\ \A b \in {"SeenEOF", "SentEOF", "NeedOpen"} : b \in t.flags <=> b \in s.flags

USE DEF StreamInv, IsStream, StreamField, BufferOK, FlagsOK, ReadOK, Buffered,
        PendingBytes, Ctrl, Data, Queue, Flag, BothEOF

\* Dropping a payload that was written (the lock is taken again after the
\* network write in writeCtrl and writeData) leaves the stream consistent
\* wherever the write loop goes next.
LEMMA AfterWriteInv ==
    ASSUME NEW s, NEW w, NEW v, StreamInv(s, w)
    PROVE  StreamInv(AfterWrite(s), v) /\ Same(s, AfterWrite(s))
BY DEF AfterWrite, Same

\* Closing the read side (setReadErrorLocked).
LEMMA SetReadErrorInv ==
    ASSUME NEW s, NEW w, StreamInv(s, w), NEW e \in Error
    PROVE  /\ StreamInv(SetReadError(s, e), w)
           /\ Same(s, SetReadError(s, e))
           /\ SetReadError(s, e).rerr # None
BY DEF SetReadError, Same, Error, ProtocolError, None

\* Closing the write side (setWriteErrorLocked).
LEMMA SetWriteErrorInv ==
    ASSUME NEW s, NEW w, StreamInv(s, w), NEW e \in Error
    PROVE  StreamInv(SetWriteError(s, e), w) /\ Same(s, SetWriteError(s, e))
BY DEF SetWriteError, Same, Error, ProtocolError, None

\* Closing both sides (closeWithErrorLocked).
LEMMA CloseWithErrorInv ==
    ASSUME NEW s, NEW w, StreamInv(s, w), NEW e \in Error
    PROVE  StreamInv(CloseWithError(s, e), w) /\ Same(s, CloseWithError(s, e))
<1> DEFINE a == [s EXCEPT !.serr = CloseErr(e)]
           b == SetReadError(a, CloseErr(e))
<1>1. CloseErr(e) \in Error
  BY DEF CloseErr, Error, ProtocolError
<1>2. StreamInv(a, w) /\ Same(s, a)
  BY <1>1 DEF Same
<1> HIDE DEF StreamInv, a
<1>3. StreamInv(b, w) /\ Same(a, b)
  BY <1>1, <1>2, SetReadErrorInv
<1> HIDE DEF b
<1>4. StreamInv(SetWriteError(b, CloseErr(e)), w)
      /\ Same(b, SetWriteError(b, CloseErr(e)))
  BY <1>1, <1>3, SetWriteErrorInv
<1>5. CASE s.serr # None
  BY <1>5 DEF CloseWithError, Same
<1>6. CASE s.serr = None
  <2>1. CloseWithError(s, e) = SetWriteError(b, CloseErr(e))
    BY <1>6 DEF CloseWithError, a, b
  <2> QED
    BY <1>2, <1>3, <1>4, <2>1 DEF Same
<1> QED
  BY <1>5, <1>6

\* The application takes bytes out of the read buffer (Read, Discard).
LEMMA ReadBytesInv ==
    ASSUME NEW s, NEW w, StreamInv(s, w), NEW n \in 1..Readable(s)
    PROVE  StreamInv(ReadBytes(s, n), w) /\ Same(s, ReadBytes(s, n))
BY DEF ReadBytes, Readable, Same

\* The application puts bytes into the write buffer (Write, WriteByte).
LEMMA WriteBytesInv ==
    ASSUME NEW s, NEW w, StreamInv(s, w), NEW n \in Nat, s.werr = None
    PROVE  StreamInv(WriteBytes(s, n), w) /\ Same(s, WriteBytes(s, n))
BY DEF WriteBytes, Same

\* The application acknowledges the stream (Acknowledge).
LEMMA AcknowledgeInv ==
    ASSUME NEW s, NEW w, StreamInv(s, w)
    PROVE  StreamInv(AcknowledgeStream(s), w) /\ Same(s, AcknowledgeStream(s))
<1> DEFINE t == AcknowledgeStream(s)
<1>1. /\ DOMAIN t = DOMAIN s /\ t.flags = s.flags \cup {"NeedAck"}
      /\ t.wacked = "yes" /\ t.queued = s.queued \cup {"ctrl"}
      /\ \A f \in StreamField \ {"flags", "wacked", "queued"} : t[f] = s[f]
  BY Zenon DEF AcknowledgeStream
<1> HIDE DEF t
<1>2. \A b \in Flag \ {"NeedAck"} : b \in t.flags <=> b \in s.flags
  BY <1>1, Zenon
<1>3. IsStream(t)
  BY <1>1
<1>4. BufferOK(t, w)
  BY <1>1
<1>5. FlagsOK(t) /\ ReadOK(t)
  BY <1>1, <1>2
<1>6. Same(s, t)
  BY <1>1, <1>2, ZenonT(30) DEF Same
<1> QED BY <1>3, <1>4, <1>5, <1>6, Zenon DEF t

\* s and t agree except that the stream may have been removed or its read side
\* may have ended.
Keeps(s, t) ==
    /\ t.got = s.got /\ t.rleft = s.rleft
    /\ t.sent = s.sent /\ t.wleft = s.wleft
    /\ "SentEOF" \in t.flags <=> "SentEOF" \in s.flags
    /\ "NeedOpen" \notin t.flags
    /\ s.where # "none" => t.where # "none"

\* The end of the remote's data (EOF or RESET) is recorded.
LEMMA SeeEOFInv ==
    ASSUME NEW s, NEW w, StreamInv(s, w), NEW e \in Error,
           "NeedOpen" \notin s.flags
    PROVE  /\ StreamInv(SeeEOF(s, e), w)
           /\ Keeps(s, SeeEOF(s, e))
           /\ "SeenEOF" \in SeeEOF(s, e).flags
<1> DEFINE a == [s EXCEPT !.flags = (@ \cup {"SeenEOF"}) \ {"NeedReset"}]
           b == SetReadError(a, e)
<1>1. /\ IsStream(a) /\ BufferOK(a, w) /\ FlagsOK(a) /\ Keeps(s, a)
      /\ "SeenEOF" \in a.flags /\ "NeedReset" \notin a.flags
      /\ a.rerr # None => a.rinc = 0
  BY DEF Keeps
<1> HIDE DEF a
<1>2. StreamInv(b, w) /\ Same(a, b)
  <2>1. CASE a.rerr # None
    <3>1. b = a
      BY <2>1 DEF SetReadError
    <3>2. ReadOK(a)
      BY <1>1, <2>1
    <3>3. StreamInv(a, w)
      <4> HIDE DEF IsStream, BufferOK, FlagsOK, ReadOK
      <4> QED BY <1>1, <3>2, Zenon
    <3> HIDE DEF StreamInv
    <3> QED BY <3>1, <3>3, Zenon DEF Same
  <2>2. CASE a.rerr = None
    BY <1>1, <2>2 DEF SetReadError, Same, Error, ProtocolError, None
  <2> QED BY <2>1, <2>2, Zenon
<1> HIDE DEF b
<1>3. /\ StreamInv(Cleanup(b), w)
      /\ Keeps(a, Cleanup(b))
      /\ "SeenEOF" \in Cleanup(b).flags
  BY <1>1, <1>2 DEF Cleanup, Same, Keeps
<1>4. SeeEOF(s, e) = Cleanup(b)
  BY DEF SeeEOF, a, b
<1> QED
  BY <1>1, <1>3, <1>4 DEF Keeps

\* A payload that fits the window is accepted (processDataLocked).
LEMMA ProcessDataInv ==
    ASSUME NEW s, NEW w, StreamInv(s, w), NEW f \in Frame,
           "NeedOpen" \notin s.flags, "SeenEOF" \notin s.flags,
           f.len <= s.rleft, s.where # "none"
    PROVE  LET t == ProcessData(s, f)
           IN /\ DataError(s, f) = None
              /\ StreamInv(t, w)
              /\ t.got = s.got + f.len /\ t.rleft = s.rleft - f.len
              /\ t.sent = s.sent /\ t.wleft = s.wleft
              /\ "SentEOF" \in t.flags <=> "SentEOF" \in s.flags
              /\ "NeedOpen" \notin t.flags
              /\ "SeenEOF" \in t.flags <=> "EOF" \in f.flags
              /\ t.where # "none"
<1> DEFINE a == IF "ACK" \in f.flags THEN SeeAck(s) ELSE s
           b == AcceptPayload(a, f.len)
<1>1. StreamInv(a, w) /\ Same(s, a)
  BY DEF SeeAck, Same
<1>2. f.len \in Nat
  BY DEF Frame
<1>3. DataError(s, f) = None
  BY <1>2 DEF DataError
<1> HIDE DEF a
<1>4. /\ StreamInv(b, w)
      /\ b.got = s.got + f.len /\ b.rleft = s.rleft - f.len
      /\ b.sent = s.sent /\ b.wleft = s.wleft /\ b.where = s.where
      /\ b.flags = a.flags
  BY <1>1, <1>2 DEF AcceptPayload, Same
<1>5. ProcessData(s, f) = IF "EOF" \in f.flags THEN SeeEOF(b, "EOF") ELSE b
  BY <1>3 DEF ProcessData, None, a, b
<1> HIDE DEF b
<1>6. CASE "EOF" \in f.flags
  <2>1. "EOF" \in Error
    BY DEF Error
  <2>2. "NeedOpen" \notin b.flags
    BY <1>1, <1>4 DEF Same
  <2>3. /\ StreamInv(SeeEOF(b, "EOF"), w)
        /\ Keeps(b, SeeEOF(b, "EOF"))
        /\ "SeenEOF" \in SeeEOF(b, "EOF").flags
    <3> HIDE DEF StreamInv
    <3> QED BY <2>1, <2>2, <1>4, SeeEOFInv
  <2> HIDE DEF StreamInv
  <2> QED BY <1>1, <1>3, <1>4, <1>5, <1>6, <2>3 DEF Keeps, Same
<1>7. CASE "EOF" \notin f.flags
  <2> HIDE DEF StreamInv
  <2> QED BY <1>1, <1>3, <1>4, <1>5, <1>7 DEF Same
<1> QED
  BY <1>6, <1>7, Zenon

\* A RESET closes the write side, the read side or both.
LEMMA ProcessResetInv ==
    ASSUME NEW s, NEW w, StreamInv(s, w), NEW f \in Frame, f.err # None,
           "NeedOpen" \notin s.flags
    PROVE  LET t == ProcessReset(s, f)
           IN /\ StreamInv(t, w)
              /\ Keeps(s, t)
              /\ "SeenEOF" \in t.flags <=>
                    "SeenEOF" \in s.flags \/ "WRITE" \in f.flags
<1> DEFINE seen == [s EXCEPT !.flags = @ \cup {"SeenReset"}]
           clear == ClearWriteBuffer(seen)
           cut == IF "READ" \in f.flags THEN SetWriteError(clear, f.err) ELSE s
           err == IF f.err = "ECLOSED" THEN "EOF" ELSE f.err
<1>1. f.err \in Error /\ err \in Error
  BY DEF Frame, Error
<1>2. /\ IsStream(clear) /\ FlagsOK(clear) /\ Same(s, clear)
      /\ clear.wlo = clear.whi /\ clear.wired = 0 /\ clear.rlo <= clear.rhi
      /\ clear.werr = s.werr /\ ReadOK(clear)
  BY DEF ClearWriteBuffer, Same
<1> HIDE DEF clear
<1>3. StreamInv(cut, w) /\ Same(s, cut)
  <2>1. CASE "READ" \in f.flags /\ clear.werr # None
    <3>1. cut = clear
      BY <2>1 DEF SetWriteError
    <3>2. BufferOK(clear, w)
      BY <1>2, <2>1
    <3> HIDE DEF cut, IsStream, BufferOK, FlagsOK, ReadOK
    <3> QED BY <1>2, <3>1, <3>2 DEF Same
  <2>2. CASE "READ" \in f.flags /\ clear.werr = None
    <3> DEFINE t == SetWriteError(clear, f.err)
    <3>1. /\ IsStream(t) /\ BufferOK(t, w) /\ FlagsOK(t) /\ Same(clear, t)
      BY <1>1, <1>2, <2>2 DEF SetWriteError, Same
    <3>2. ReadOK(t)
      BY <1>2, <2>2 DEF SetWriteError
    <3>3. cut = t
      BY <2>2
    <3> HIDE DEF t, cut, IsStream, BufferOK, FlagsOK, ReadOK
    <3> QED BY <1>2, <3>1, <3>2, <3>3, Zenon DEF Same
  <2>3. CASE "READ" \notin f.flags
    <3>1. cut = s
      BY <2>3
    <3> HIDE DEF cut, IsStream, BufferOK, FlagsOK, ReadOK
    <3> QED BY <3>1 DEF Same
  <2> QED BY <2>1, <2>2, <2>3, Zenon
<1>4. ProcessReset(s, f) = IF "WRITE" \in f.flags THEN SeeEOF(cut, err) ELSE cut
  BY DEF ProcessReset, clear
<1> HIDE DEF cut, err, StreamInv
<1>5. CASE "WRITE" \in f.flags
  <2>1. "NeedOpen" \notin cut.flags
    BY <1>3 DEF Same
  <2>2. /\ StreamInv(SeeEOF(cut, err), w)
        /\ Keeps(cut, SeeEOF(cut, err))
        /\ "SeenEOF" \in SeeEOF(cut, err).flags
    BY <1>1, <1>3, <2>1, SeeEOFInv
  <2> QED BY <1>3, <1>4, <1>5, <2>2 DEF Keeps, Same
<1>6. CASE "WRITE" \notin f.flags
  BY <1>3, <1>4, <1>6 DEF Keeps, Same
<1> QED
  BY <1>5, <1>6

\* A WINDOW frame adds credit (changeWriteWindow).
LEMMA ChangeWriteWindowInv ==
    ASSUME NEW s, NEW w, StreamInv(s, w), NEW n \in Nat
    PROVE  LET t == ChangeWriteWindow(s, n)
           IN /\ StreamInv(t, w)
              /\ t.wleft = s.wleft + n
              /\ t.where = s.where /\ t.flags = s.flags /\ t.sent = s.sent
              /\ t.got = s.got /\ t.rleft = s.rleft
BY DEF ChangeWriteWindow

\* A DATA frame is prepared by writeCtrl or writeData (prepareDataLocked and
\* outgoingFlags): its payload starts at the byte after the last one sent.
LEMMA PrepareDataInv ==
    ASSUME NEW s, NEW w, StreamInv(s, w), s.wired = 0,
           "SentEOF" \notin s.flags, s.where # "none",
           NEW v \in {"ctrlWrite", "dataWrite"}
    PROVE  LET p == PrepareData(s)
               t == AfterOutgoingFlags(p)
               n == PayloadSize(s)
           IN /\ StreamInv(t, v)
              /\ n \in Nat
              /\ n > 0 => s.wlo = s.sent
              /\ t.sent = s.sent + n /\ t.wleft = s.wleft - n
              /\ t.got = s.got /\ t.rleft = s.rleft
              /\ t.where # "none"
              /\ "NeedOpen" \notin t.flags
              /\ "SeenEOF" \in t.flags <=> "SeenEOF" \in s.flags
              /\ "SentEOF" \in t.flags <=> "EOF" \in OutgoingFlags(p)
              /\ "OPEN" \in OutgoingFlags(p) <=> "NeedOpen" \in s.flags
              /\ OutgoingFlags(p) \subseteq {"OPEN", "ACK", "EOF"}
<1> DEFINE p == PrepareData(s)
           n == PayloadSize(s)
<1>1. n \in Nat /\ n <= Buffered(s) /\ n <= s.wleft
  BY SizesArePositive DEF PayloadSize, Least
<1> HIDE DEF n
<1>2. /\ IsStream(p) /\ BufferOK(p, v) /\ p.flags = s.flags /\ ReadOK(p)
      /\ p.where = s.where /\ p.werr = s.werr /\ p.rerr = s.rerr
      /\ p.sent = s.sent + n /\ p.wleft = s.wleft - n
      /\ p.got = s.got /\ p.rleft = s.rleft
      /\ n > 0 => s.wlo = s.sent
  BY <1>1 DEF PrepareData, n
<1> HIDE DEF p
<1>3. CASE ActiveEOF(p)
  <2> DEFINE a == [p EXCEPT !.flags = ((p.flags \ DataCtrl) \ {"NeedEOF"})
                                      \cup {"SentEOF"}]
  <2>1. /\ StreamInv(a, v) /\ "NeedOpen" \notin a.flags
        /\ "SeenEOF" \in a.flags <=> "SeenEOF" \in p.flags
        /\ "SentEOF" \in a.flags
        /\ a.where = p.where /\ a.sent = p.sent /\ a.wleft = p.wleft
        /\ a.got = p.got /\ a.rleft = p.rleft
    BY <1>2, <1>3 DEF ActiveEOF, DataCtrl, None
  <2>2. AfterOutgoingFlags(p) = Cleanup(a)
    BY <1>3 DEF AfterOutgoingFlags
  <2> HIDE DEF a
  <2>3. /\ StreamInv(Cleanup(a), v) /\ Cleanup(a).flags = a.flags
        /\ Cleanup(a).where # "none"
        /\ Cleanup(a).sent = a.sent /\ Cleanup(a).wleft = a.wleft
        /\ Cleanup(a).got = a.got /\ Cleanup(a).rleft = a.rleft
    BY <1>2, <2>1 DEF Cleanup
  <2>4. /\ "EOF" \in OutgoingFlags(p)
        /\ "OPEN" \in OutgoingFlags(p) <=> "NeedOpen" \in s.flags
        /\ OutgoingFlags(p) \subseteq {"OPEN", "ACK", "EOF"}
    BY <1>2, <1>3, ZenonT(30) DEF OutgoingFlags
  <2> HIDE DEF StreamInv
  <2> QED BY <1>1, <1>2, <2>1, <2>2, <2>3, <2>4 DEF p, n
<1>4. CASE ~ActiveEOF(p)
  <2> DEFINE a == [p EXCEPT !.flags = p.flags \ DataCtrl]
  <2>1. /\ StreamInv(a, v) /\ "NeedOpen" \notin a.flags
        /\ "SeenEOF" \in a.flags <=> "SeenEOF" \in p.flags
        /\ "SentEOF" \notin a.flags
        /\ a.where = p.where /\ a.sent = p.sent /\ a.wleft = p.wleft
        /\ a.got = p.got /\ a.rleft = p.rleft
    BY <1>2 DEF DataCtrl
  <2>2. AfterOutgoingFlags(p) = a
    BY <1>4, Zenon DEF AfterOutgoingFlags
  <2> HIDE DEF a
  <2>3. /\ "EOF" \notin OutgoingFlags(p)
        /\ "OPEN" \in OutgoingFlags(p) <=> "NeedOpen" \in s.flags
        /\ OutgoingFlags(p) \subseteq {"OPEN", "ACK", "EOF"}
    BY <1>2, <1>4 DEF OutgoingFlags
  <2> HIDE DEF StreamInv
  <2> QED BY <1>1, <1>2, <2>1, <2>2, <2>3 DEF p, n
<1> QED
  BY <1>3, <1>4, Zenon

\* writeData puts the stream back on a queue.
LEMMA RescheduleInv ==
    ASSUME NEW s, NEW w, StreamInv(s, w)
    PROVE  StreamInv(Reschedule(s), w) /\ Same(s, Reschedule(s))
BY DEF Reschedule, Same

\* A WINDOW frame grants what was read since the last one.
LEMMA AfterWindowInv ==
    ASSUME NEW s, NEW w, StreamInv(s, w)
    PROVE  LET t == AfterWindow(s)
           IN /\ StreamInv(t, w)
              /\ t.rleft = s.rleft + s.rinc
              /\ t.where = s.where /\ t.flags = s.flags /\ t.sent = s.sent
              /\ t.got = s.got /\ t.wleft = s.wleft
BY DEF AfterWindow

\* The write side is finished once nothing is buffered.
LEMMA SentEOFInv ==
    ASSUME NEW s, NEW w, StreamInv(s, w), s.wired = 0, NeedsEOF(s),
           s.where # "none", "NeedOpen" \notin s.flags
    PROVE  LET t == SentEOF(s)
           IN /\ StreamInv(t, w) /\ t.where # "none"
              /\ t.got = s.got /\ t.rleft = s.rleft
              /\ t.sent = s.sent /\ t.wleft = s.wleft
              /\ "SentEOF" \in t.flags /\ "NeedOpen" \notin t.flags
              /\ "SeenEOF" \in t.flags <=> "SeenEOF" \in s.flags
<1> DEFINE a == [s EXCEPT !.flags = (@ \ {"NeedEOF"}) \cup {"SentEOF"}]
<1>1. /\ StreamInv(a, w) /\ a.where # "none"
      /\ a.got = s.got /\ a.rleft = s.rleft
      /\ a.sent = s.sent /\ a.wleft = s.wleft
      /\ "SentEOF" \in a.flags /\ "NeedOpen" \notin a.flags
      /\ "SeenEOF" \in a.flags <=> "SeenEOF" \in s.flags
  BY DEF NeedsEOF
<1>2. SentEOF(s) = Cleanup(a)
  BY DEF SentEOF
<1> HIDE DEF a
<1> QED
  BY <1>1, <1>2 DEF Cleanup

\* The stream is forgotten before it was ever sent (writeCtrl's shortcut).
LEMMA DiscardStreamInv ==
    ASSUME NEW s, NEW w, StreamInv(s, w), CanDiscard(s), NEW v
    PROVE  LET t == DiscardStream(s)
           IN /\ StreamInv(t, v) /\ t.where = "gone"
              /\ BothEOF \subseteq t.flags /\ "NeedOpen" \notin t.flags
              /\ t.got = s.got /\ t.rleft = s.rleft
              /\ t.sent = s.sent /\ t.wleft = s.wleft
<1> DEFINE a == [s EXCEPT !.flags = BothEOF]
<1>1. /\ s.werr # None /\ s.wired = 0 /\ Buffered(s) = 0
      /\ s.rerr # None /\ s.rinc = 0
  BY DEF CanDiscard, DiscardFlags
<1>2. /\ IsStream(a) /\ BufferOK(a, v)
      /\ a.got = s.got /\ a.rleft = s.rleft
      /\ a.sent = s.sent /\ a.wleft = s.wleft
      /\ a.werr # None /\ PendingBytes(a) = 0
      /\ a.rerr # None /\ a.rinc = 0
  BY <1>1
<1>3. /\ "SeenEOF" \in a.flags /\ "SentEOF" \in a.flags
      /\ "NeedOpen" \notin a.flags /\ "NeedEOF" \notin a.flags
      /\ "NeedReset" \notin a.flags
  BY DEF CanDiscard
<1>4. DiscardStream(s) = Cleanup(a)
  BY DEF DiscardStream
<1> HIDE DEF a
<1>5. StreamInv(a, v)
  <2>1. FlagsOK(a) /\ ReadOK(a)
    BY <1>2, <1>3
  <2> HIDE DEF IsStream, BufferOK, FlagsOK, ReadOK
  <2> QED BY <1>2, <2>1, Zenon
<1> DEFINE t == [a EXCEPT !.where = "gone"]
<1>6. Cleanup(a) = t
  BY <1>3 DEF Cleanup
<1>7. /\ StreamInv(t, v) /\ t.where = "gone" /\ t.flags = a.flags
      /\ t.got = a.got /\ t.rleft = a.rleft
      /\ t.sent = a.sent /\ t.wleft = a.wleft
  <2>1. /\ DOMAIN t = DOMAIN a /\ t.where = "gone"
        /\ \A f \in StreamField \ {"where"} : t[f] = a[f]
    BY <1>5, Zenon
  <2> HIDE DEF t
  <2>2. IsStream(t) /\ BufferOK(t, v)
    BY <1>5, <2>1
  <2>5. /\ t.flags = a.flags /\ t.rerr = a.rerr /\ t.werr = a.werr
        /\ t.rinc = a.rinc /\ PendingBytes(t) = PendingBytes(a)
    BY <2>1, Zenon
  <2>6. FlagsOK(a) /\ ReadOK(a)
    <3> HIDE DEF IsStream, BufferOK, FlagsOK, ReadOK
    <3> QED BY <1>5, Zenon
  <2>3. FlagsOK(t) /\ ReadOK(t)
    <3> HIDE DEF PendingBytes
    <3> QED BY <1>3, <2>1, <2>5, <2>6, Zenon
  <2>4. /\ t.flags = a.flags /\ t.got = a.got /\ t.rleft = a.rleft
        /\ t.sent = a.sent /\ t.wleft = a.wleft
    BY <2>1, Zenon
  <2> HIDE DEF IsStream, BufferOK, FlagsOK, ReadOK
  <2> QED BY <2>1, <2>2, <2>3, <2>4, Zenon
<1> HIDE DEF t, StreamInv
<1> QED
  BY <1>2, <1>3, <1>4, <1>6, <1>7

HIDE DEF StreamInv, IsStream, StreamField, BufferOK, FlagsOK, ReadOK, Buffered,
         PendingBytes, Ctrl, Data, Queue, Flag, BothEOF

\* Parking a goroutine and waking it up.
LEMMA WaitInv ==
    ASSUME NEW s, NEW w, StreamInv(s, w)
    PROVE  /\ \A a \in {"no", "read"} :
                 /\ StreamInv([s EXCEPT !.rwait = a], w)
                 /\ Same(s, [s EXCEPT !.rwait = a])
           /\ \A a \in {"no", "write", "flush"} :
                 /\ StreamInv([s EXCEPT !.wwait = a], w)
                 /\ Same(s, [s EXCEPT !.wwait = a])
BY DEF StreamInv, IsStream, StreamField, BufferOK, FlagsOK, ReadOK,
       Buffered, PendingBytes, Same

-----------------------------------------------------------------------------
\* The inductive invariant

\* An end that was never made is untouched.
Untouched(s, w) ==
    s.where = "none" => /\ s.flags = {} /\ s.queued = {}
                        /\ s.rleft = Window /\ s.got = 0
                        /\ w \in {"idle", "stopped", "closed"}

ConnOK(s, c, q) ==
    /\ c.fail \notin ProtocolError
    /\ "closing" \in c.marks => c.fail # None /\ s.where # "none"
    /\ c.rpc = "refuse" => s.where # "none"
    /\ c.rpc = "proc" => q # <<>> /\ s.where # "none"

EndOK(s, c, q) ==
    /\ StreamInv(s, c.wpc)
    /\ IsConn(c)
    /\ Untouched(s, c.wpc)
    /\ ConnOK(s, c, q)

\* The last word of a sender: EOF on DATA, or RESET of its write side.
Ends(f) == \/ f.kind = "DATA" /\ "EOF" \in f.flags
           \/ f.kind = "RESET" /\ "WRITE" \in f.flags

FrameOK(f) ==
    /\ f.err \notin ProtocolError
    /\ f.kind \in {"RESET", "CONN"} => f.err # None
    /\ f.kind = "WINDOW" => f.len > 0
    /\ "OPEN" \in f.flags => f.kind = "DATA"

\* The frames q from s (whose write loop is at w) to its peer r.
DataOK(s, r, q) ==
    /\ r.got <= s.sent
    /\ \A i \in 1..Len(q) : q[i].kind = "DATA" /\ q[i].len > 0 =>
          r.got <= q[i].pos /\ q[i].pos + q[i].len <= s.sent
    /\ \A i, j \in 1..Len(q) :
          /\ i < j
          /\ q[i].kind = "DATA" /\ q[i].len > 0
          /\ q[j].kind = "DATA" /\ q[j].len > 0
          => q[i].pos + q[i].len <= q[j].pos

WindowOK(s, r, q) ==
    /\ Credited(r) <= Granted(s)
    /\ \A i \in 1..Len(q) : q[i].kind = "WINDOW" =>
          Credited(r) <= q[i].pos /\ q[i].pos + q[i].len <= Granted(s)
    /\ \A i, j \in 1..Len(q) :
          i < j /\ q[i].kind = "WINDOW" /\ q[j].kind = "WINDOW"
          => q[i].pos + q[i].len <= q[j].pos

EOFOK(s, r, q) ==
    /\ \A i \in 1..Len(q) : Ends(q[i]) =>
          /\ "SentEOF" \in s.flags
          /\ \A j \in 1..Len(q) : i < j => q[j].kind # "DATA"
    /\ "SeenEOF" \in r.flags =>
          /\ \A i \in 1..Len(q) : q[i].kind # "DATA"
          /\ "SentEOF" \in s.flags \/ s.where = "none"

OrderOK(s, w, q) ==
    /\ \A i \in 1..Len(q) : q[i].kind = "CONN" => w \in {"stopped", "closed"}
    /\ s.where = "none" => \A i \in 1..Len(q) : q[i].kind = "CONN"

ChannelOK(s, w, r, q) ==
    /\ \A i \in 1..Len(q) : FrameOK(q[i])
    /\ DataOK(s, r, q)
    /\ WindowOK(s, r, q)
    /\ EOFOK(s, r, q)
    /\ OrderOK(s, w, q)

\* The stream is opened once, by the client's first frame.
OpenOK(c, s, qc, qs, rpc) ==
    /\ c.where = "none" \/ "NeedOpen" \in c.flags =>
          s.where = "none" /\ \A i \in 1..Len(qc) : qc[i].kind = "CONN"
    /\ "NeedOpen" \notin s.flags
    /\ \A i \in 1..Len(qs) : "OPEN" \notin qs[i].flags
    /\ \A i \in 1..Len(qc) : "OPEN" \in qc[i].flags =>
          /\ i = 1
          /\ s.where = "none" \/ rpc = "proc"
          /\ s.where = "none" => "SeenEOF" \notin c.flags
    /\ s.where = "none" =>
          \A i \in 1..Len(qc) : qc[i].kind # "CONN" => "OPEN" \in qc[1].flags
    /\ s.where = "none" /\ c.where = "live" /\ "NeedOpen" \notin c.flags =>
          qc # <<>> /\ "OPEN" \in qc[1].flags

Inv ==
    /\ EndsTypeOK
    /\ \A x \in Side : EndOK(st[x], conn[x], net[Peer(x)])
    /\ \A x \in Side : ChannelOK(st[x], conn[x].wpc, st[Peer(x)], net[x])
    /\ OpenOK(st["client"], st["server"], net["client"], net["server"],
              conn["server"].rpc)

-----------------------------------------------------------------------------
\* What sending and handling a frame does to a channel

\* The counters of a stream are numbers.
LEMMA StreamNumbers ==
    ASSUME NEW s, IsStream(s)
    PROVE  /\ s.sent \in Nat /\ s.got \in Nat
           /\ s.rleft \in Nat /\ s.wleft \in Nat
           /\ Granted(s) \in Int /\ Credited(s) \in Int
<1>1. Window \in Int
  BY SizesArePositive
<1>2. s.sent \in Nat /\ s.got \in Nat /\ s.rleft \in Nat /\ s.wleft \in Nat
  BY DEF IsStream
<1> QED
  BY <1>1, <1>2 DEF Granted, Credited

\* Who was in S at a is so at b.
KeptIn(S, a, b) == a \in S => b \in S

\* Neither end changes anything the frames depend on.
LEMMA ChannelSame ==
    ASSUME NEW s, NEW s2, NEW r, NEW r2, NEW w, NEW w2, NEW q,
           ChannelOK(s, w, r, q), Same(s, s2), Same(r, r2),
           KeptIn({"stopped", "closed"}, w, w2)
    PROVE  ChannelOK(s2, w2, r2, q)
BY DEF KeptIn, ChannelOK, DataOK, WindowOK, EOFOK, OrderOK, Same, Granted, Credited

\* Nor anything the opening of the stream depends on.
LEMMA OpenSame ==
    ASSUME NEW c, NEW c2, NEW s, NEW s2, NEW qc, NEW qs, NEW rpc, NEW rpc2,
           OpenOK(c, s, qc, qs, rpc), Same(c, c2), Same(s, s2),
           KeptIn({"proc"}, rpc, rpc2)
    PROVE  OpenOK(c2, s2, qc, qs, rpc2)
BY DEF KeptIn, OpenOK, Same

\* A piece of a stream ends where a longer one does not end earlier
LEMMA UpTo ==
    ASSUME NEW x \in Int, NEW n \in Nat, NEW a \in Int, NEW b \in Int,
           x + n <= a, b >= a
    PROVE  x + n <= b
OBVIOUS

\* and one that begins later, ends later.
LEMMA Reached ==
    ASSUME NEW g \in Int, NEW x \in Int, NEW n \in Nat, NEW a \in Int, g <= a,
           n > 0 => g <= x /\ x + n <= a
    PROVE  g + n <= a
OBVIOUS

\* s becomes t and sends f.
LEMMA ChannelAppend ==
    ASSUME NEW s, NEW t, NEW r, NEW w, NEW v, NEW q \in Seq(Frame),
           NEW f \in Frame,
           IsStream(s), IsStream(t), IsStream(r),
           ChannelOK(s, w, r, q),
           w \notin {"stopped", "closed"},
           s.where # "none", t.where # "none",
           FrameOK(f), f.kind # "CONN",
           t.sent >= s.sent, Granted(t) >= Granted(s),
           "SentEOF" \in s.flags => "SentEOF" \in t.flags,
           f.kind = "DATA" => /\ "SentEOF" \notin s.flags
                              /\ t.sent = s.sent + f.len
                              /\ f.len > 0 => f.pos = s.sent,
           f.kind = "WINDOW" => f.pos = Granted(s) /\ f.pos + f.len = Granted(t),
           Ends(f) => "SentEOF" \in t.flags
    PROVE  ChannelOK(t, v, r, Append(q, f))
<1> DEFINE n == Len(q)
           p == Append(q, f)
<1>1. /\ n \in Nat /\ Len(p) = n + 1 /\ p[n + 1] = f
      /\ \A i \in 1..n : p[i] = q[i] /\ p[i] \in Frame
      /\ \A i \in 1..Len(p) : i \in 1..n \/ i = n + 1
  OBVIOUS
<1> HIDE DEF p, n
<1>2. f.len \in Nat /\ f.pos \in Int
  BY DEF Frame
<1>3. \A i \in 1..n : p[i].len \in Nat /\ p[i].pos \in Int
  BY <1>1 DEF Frame
<1>4. s.sent \in Nat /\ t.sent \in Nat /\ r.got \in Nat
      /\ Granted(s) \in Int /\ Granted(t) \in Int /\ Credited(r) \in Int
  BY StreamNumbers
<1>5. \A i \in 1..Len(p) : FrameOK(p[i])
  BY <1>1 DEF ChannelOK, n
<1>6. DataOK(t, r, p)
  <2>1. DataOK(s, r, q)
    BY DEF ChannelOK
  <2>2. r.got <= s.sent /\ r.got <= t.sent
    BY <1>4, <2>1 DEF DataOK
  <2>3. \A i \in 1..n : p[i].kind = "DATA" /\ p[i].len > 0 =>
            r.got <= p[i].pos /\ p[i].pos + p[i].len <= s.sent
    BY <1>1, <2>1 DEF DataOK, n
  <2>5. ASSUME NEW i \in 1..Len(p), p[i].kind = "DATA", p[i].len > 0
        PROVE  r.got <= p[i].pos /\ p[i].pos + p[i].len <= t.sent
    <3>1. CASE i \in 1..n
      <4>1. /\ r.got <= p[i].pos /\ p[i].pos + p[i].len <= s.sent
            /\ p[i].len \in Nat /\ p[i].pos \in Int
        BY <1>3, <2>3, <2>5, <3>1, Zenon
      <4>2. s.sent \in Int /\ t.sent \in Int
        BY <1>4
      <4> QED BY <4>1, <4>2, UpTo, Zenon
    <3>2. CASE i = n + 1
      BY <1>1, <1>2, <1>4, <2>2, <2>5, <3>2
    <3> QED BY <1>1, <3>1, <3>2
  <2>4. ASSUME NEW i \in 1..Len(p), NEW j \in 1..Len(p), i < j,
               p[i].kind = "DATA", p[i].len > 0,
               p[j].kind = "DATA", p[j].len > 0
        PROVE  p[i].pos + p[i].len <= p[j].pos
    <3>1. CASE j \in 1..n
      BY <1>1, <2>1, <2>4, <3>1 DEF DataOK, n
    <3>2. CASE j = n + 1
      BY <1>1, <2>3, <2>4, <3>2
    <3> QED BY <1>1, <3>1, <3>2
  <2> QED
    BY <2>2, <2>4, <2>5 DEF DataOK
<1>7. WindowOK(t, r, p)
  <2>1. WindowOK(s, r, q)
    BY DEF ChannelOK
  <2>2. Credited(r) <= Granted(s) /\ Credited(r) <= Granted(t)
    BY <1>4, <2>1 DEF WindowOK
  <2>3. \A i \in 1..n : p[i].kind = "WINDOW" =>
            Credited(r) <= p[i].pos /\ p[i].pos + p[i].len <= Granted(s)
    BY <1>1, <2>1 DEF WindowOK, n
  <2>5. ASSUME NEW i \in 1..Len(p), p[i].kind = "WINDOW"
        PROVE  Credited(r) <= p[i].pos /\ p[i].pos + p[i].len <= Granted(t)
    <3>1. CASE i \in 1..n
      <4>1. /\ Credited(r) <= p[i].pos /\ p[i].pos + p[i].len <= Granted(s)
            /\ p[i].len \in Nat /\ p[i].pos \in Int
        BY <1>3, <2>3, <2>5, <3>1, Zenon
      <4> QED BY <1>4, <4>1, UpTo, Zenon
    <3>2. CASE i = n + 1
      BY <1>1, <1>2, <1>4, <2>2, <2>5, <3>2
    <3> QED BY <1>1, <3>1, <3>2
  <2>4. ASSUME NEW i \in 1..Len(p), NEW j \in 1..Len(p), i < j,
               p[i].kind = "WINDOW", p[j].kind = "WINDOW"
        PROVE  p[i].pos + p[i].len <= p[j].pos
    <3>1. CASE j \in 1..n
      BY <1>1, <2>1, <2>4, <3>1 DEF WindowOK, n
    <3>2. CASE j = n + 1
      BY <1>1, <2>3, <2>4, <3>2
    <3> QED BY <1>1, <3>1, <3>2
  <2> QED
    BY <2>2, <2>4, <2>5 DEF WindowOK
<1>8. EOFOK(t, r, p)
  BY <1>1 DEF ChannelOK, EOFOK, Ends, n
<1>9. OrderOK(t, v, p)
  BY <1>1 DEF ChannelOK, OrderOK, n
<1> QED
  BY <1>5, <1>6, <1>7, <1>8, <1>9 DEF ChannelOK, p

\* The frame at the head has been handled and r has become t.
LEMMA ChannelTail ==
    ASSUME NEW s, NEW r, NEW t, NEW w, NEW q \in Seq(Frame), q # <<>>,
           IsStream(s), IsStream(r), IsStream(t),
           ChannelOK(s, w, r, q),
           \/ t.got = r.got
           \/ q[1].kind = "DATA" /\ t.got = r.got + q[1].len,
           \/ Credited(t) = Credited(r)
           \/ q[1].kind = "WINDOW" /\ Credited(t) = Credited(r) + q[1].len,
           "SeenEOF" \in t.flags => "SeenEOF" \in r.flags \/ Ends(q[1])
    PROVE  ChannelOK(s, w, t, Tail(q))
<1> DEFINE n == Len(q)
           p == Tail(q)
<1>1. /\ n \in Nat /\ n >= 1 /\ Len(p) = n - 1
      /\ \A i \in 1..Len(p) : p[i] = q[i + 1] /\ i + 1 \in 1..n
      /\ \A i \in 1..n : q[i] \in Frame
  OBVIOUS
<1> HIDE DEF p, n
<1>2. \A i \in 1..n : q[i].len \in Nat /\ q[i].pos \in Int
  BY <1>1 DEF Frame
<1>3. 1 \in 1..n /\ \A i \in 1..Len(p) : 1 < i + 1
  BY <1>1
<1>4. s.sent \in Nat /\ t.got \in Nat /\ r.got \in Nat
      /\ Granted(s) \in Int /\ Credited(t) \in Int /\ Credited(r) \in Int
  BY StreamNumbers
<1>5. \A i \in 1..Len(p) : FrameOK(p[i])
  BY <1>1 DEF ChannelOK, n
<1>6. DataOK(s, t, p)
  <2>1. DataOK(s, r, q)
    BY DEF ChannelOK
  <2>2. t.got <= s.sent
    <3>1. r.got <= s.sent /\ q[1].len \in Nat /\ q[1].pos \in Int
      BY <1>2, <1>3, <2>1, Zenon DEF DataOK
    <3>2. q[1].kind = "DATA" /\ q[1].len > 0 =>
             r.got <= q[1].pos /\ q[1].pos + q[1].len <= s.sent
      BY <1>3, <2>1, Zenon DEF DataOK, n
    <3>3. \/ t.got = r.got
          \/ q[1].kind = "DATA" /\ t.got = r.got + q[1].len
      BY Zenon
    <3>4. r.got \in Int /\ s.sent \in Int
      BY <1>4
    <3> QED BY <3>1, <3>2, <3>3, <3>4, Reached, Zenon
  <2>3. ASSUME NEW i \in 1..Len(p), p[i].kind = "DATA", p[i].len > 0
        PROVE  t.got <= p[i].pos /\ p[i].pos + p[i].len <= s.sent
    <3>1. /\ r.got <= p[i].pos /\ p[i].pos + p[i].len <= s.sent
          /\ p[i].len \in Nat /\ p[i].pos \in Int
          /\ q[1].len \in Nat /\ q[1].pos \in Int
      BY <1>1, <1>2, <1>3, <2>1, <2>3, Zenon DEF DataOK, n
    <3>2. CASE q[1].kind = "DATA" /\ q[1].len > 0
      <4>1. r.got <= q[1].pos /\ q[1].pos + q[1].len <= p[i].pos
        BY <1>1, <1>3, <2>1, <2>3, <3>2 DEF DataOK, n
      <4>2. t.got = r.got \/ t.got = r.got + q[1].len
        OBVIOUS
      <4> DEFINE len == q[1].len  pos == q[1].pos  next == p[i].pos
      <4>3. len \in Nat /\ pos \in Int /\ next \in Int
        BY <3>1
      <4>4. r.got <= pos /\ pos + len <= next
        BY <4>1
      <4>5. t.got = r.got \/ t.got = r.got + len
        BY <4>2
      <4> HIDE DEF len, pos, next
      <4>6. t.got <= next
        BY <1>4, <4>3, <4>4, <4>5
      <4> QED BY <3>1, <4>6 DEF next
    <3>3. CASE ~(q[1].kind = "DATA" /\ q[1].len > 0)
      <4>1. t.got = r.got
        BY <1>4, <3>1, <3>3, SMTT(30)
      <4> QED BY <3>1, <4>1, Zenon
    <3> QED BY <3>2, <3>3, Zenon
  <2>4. \A i, j \in 1..Len(p) :
          /\ i < j
          /\ p[i].kind = "DATA" /\ p[i].len > 0
          /\ p[j].kind = "DATA" /\ p[j].len > 0
          => p[i].pos + p[i].len <= p[j].pos
    <3> SUFFICES ASSUME NEW i \in 1..Len(p), NEW j \in 1..Len(p), i < j,
                        p[i].kind = "DATA" /\ p[i].len > 0,
                        p[j].kind = "DATA" /\ p[j].len > 0
                 PROVE  p[i].pos + p[i].len <= p[j].pos
      BY Zenon
    <3>1. i + 1 \in 1..n /\ j + 1 \in 1..n /\ p[i] = q[i + 1] /\ p[j] = q[j + 1]
      BY <1>1, Zenon
    <3>2. i + 1 < j + 1
      OBVIOUS
    <3> QED BY <2>1, <3>1, <3>2, Zenon DEF DataOK, n
  <2> QED
    BY <2>2, <2>3, <2>4, Zenon DEF DataOK
<1>7. WindowOK(s, t, p)
  <2>1. WindowOK(s, r, q)
    BY DEF ChannelOK
  <2>2. Credited(t) <= Granted(s)
    <3>1. /\ Credited(r) <= Granted(s) /\ q[1].len \in Nat /\ q[1].pos \in Int
      BY <1>2, <1>3, <2>1, Zenon DEF WindowOK
    <3>2. q[1].kind = "WINDOW" =>
             Credited(r) <= q[1].pos /\ q[1].pos + q[1].len <= Granted(s)
      BY <1>3, <2>1, Zenon DEF WindowOK, n
    <3>3. \/ Credited(t) = Credited(r)
          \/ q[1].kind = "WINDOW" /\ Credited(t) = Credited(r) + q[1].len
      BY Zenon
    <3> QED BY <1>4, <3>1, <3>2, <3>3, Reached, Zenon
  <2>3. ASSUME NEW i \in 1..Len(p), p[i].kind = "WINDOW"
        PROVE  Credited(t) <= p[i].pos /\ p[i].pos + p[i].len <= Granted(s)
    <3>1. /\ Credited(r) <= p[i].pos /\ p[i].pos + p[i].len <= Granted(s)
          /\ p[i].len \in Nat /\ p[i].pos \in Int
          /\ q[1].len \in Nat /\ q[1].pos \in Int
      BY <1>1, <1>2, <1>3, <2>1, <2>3, Zenon DEF WindowOK, n
    <3>2. CASE q[1].kind = "WINDOW"
      <4>1. Credited(r) <= q[1].pos /\ q[1].pos + q[1].len <= p[i].pos
        BY <1>1, <1>3, <2>1, <2>3, <3>2, Zenon DEF WindowOK, n
      <4> QED BY <1>4, <3>1, <3>2, <4>1, SMTT(30)
    <3>3. CASE q[1].kind # "WINDOW"
      BY <1>4, <3>1, <3>3, Zenon
    <3> QED BY <3>2, <3>3
  <2>4. \A i, j \in 1..Len(p) :
          i < j /\ p[i].kind = "WINDOW" /\ p[j].kind = "WINDOW"
          => p[i].pos + p[i].len <= p[j].pos
    <3> SUFFICES ASSUME NEW i \in 1..Len(p), NEW j \in 1..Len(p), i < j,
                        p[i].kind = "WINDOW", p[j].kind = "WINDOW"
                 PROVE  p[i].pos + p[i].len <= p[j].pos
      BY Zenon
    <3>1. i + 1 \in 1..n /\ j + 1 \in 1..n /\ p[i] = q[i + 1] /\ p[j] = q[j + 1]
      BY <1>1, Zenon
    <3>2. i + 1 < j + 1
      OBVIOUS
    <3> QED BY <2>1, <3>1, <3>2, Zenon DEF WindowOK, n
  <2> QED
    BY <2>2, <2>3, <2>4, Zenon DEF WindowOK
<1>8. EOFOK(s, t, p)
  <2>1. EOFOK(s, r, q)
    BY DEF ChannelOK
  <2>2. ASSUME NEW i \in 1..Len(p), Ends(p[i])
        PROVE  /\ "SentEOF" \in s.flags
               /\ \A j \in 1..Len(p) : i < j => p[j].kind # "DATA"
    <3>1. p[i] = q[i + 1] /\ i + 1 \in 1..n
      BY <1>1, Zenon
    <3>2. \A j \in 1..Len(p) : i < j => i + 1 < j + 1
      OBVIOUS
    <3> QED BY <1>1, <2>1, <2>2, <3>1, <3>2, Zenon DEF EOFOK, n
  <2>3. ASSUME "SeenEOF" \in t.flags
        PROVE  /\ \A i \in 1..Len(p) : p[i].kind # "DATA"
               /\ "SentEOF" \in s.flags \/ s.where = "none"
    BY <1>1, <1>3, <2>1, <2>3, Zenon DEF EOFOK, n
  <2> QED
    BY <2>2, <2>3, Zenon DEF EOFOK
<1>9. OrderOK(s, w, p)
  BY <1>1 DEF ChannelOK, OrderOK, n
<1> QED
  BY <1>5, <1>6, <1>7, <1>8, <1>9 DEF ChannelOK, p

-----------------------------------------------------------------------------
\* One side takes a step

\* The two sides.
LEMMA Sides ==
    ASSUME NEW x \in Side
    PROVE  /\ Peer(x) \in Side /\ Peer(Peer(x)) = x /\ Peer(x) # x
           /\ \A z \in Side : z = x \/ z = Peer(x)
           /\ x = "client" => Peer(x) = "server"
           /\ x = "server" => Peer(x) = "client"
           /\ x = "client" \/ x = "server"
BY DEF Side, Peer

\* What the invariant says of side x and its peer.
LEMMA InvAt ==
    ASSUME Inv, NEW x \in Side
    PROVE  /\ EndOK(st[x], conn[x], net[Peer(x)])
           /\ ChannelOK(st[x], conn[x].wpc, st[Peer(x)], net[x])
           /\ ChannelOK(st[Peer(x)], conn[Peer(x)].wpc, st[x], net[Peer(x)])
           /\ IsStream(st[x]) /\ IsStream(st[Peer(x)])
           /\ net[x] \in Seq(Frame) /\ net[Peer(x)] \in Seq(Frame)
BY Sides, Zenon DEF Inv, EndsTypeOK

\* Side x's end becomes t, its connection c, what it has sent qx and what it
\* has yet to handle qy; nothing changes at its peer.
StBecomes(x, t) ==
    DOMAIN st' = Side /\ st'[x] = t /\ st'[Peer(x)] = st[Peer(x)]
ConnBecomes(x, c) ==
    DOMAIN conn' = Side /\ conn'[x] = c /\ conn'[Peer(x)] = conn[Peer(x)]
NetBecomes(x, qx, qy) ==
    net' \in [Side -> Seq(Frame)] /\ net'[x] = qx /\ net'[Peer(x)] = qy

\* How the actions are written.
LEMMA Becomes ==
    ASSUME Inv, NEW x \in Side
    PROVE  /\ st' = st => StBecomes(x, st[x])
           /\ \A t : SetStream(x, t) => StBecomes(x, t)
           /\ conn' = conn => ConnBecomes(x, conn[x])
           /\ \A c : SetConn(x, c) => ConnBecomes(x, c)
           /\ net' = net => NetBecomes(x, net[x], net[Peer(x)])
           /\ \A f \in Frame :
                 Send(x, f) => NetBecomes(x, Append(net[x], f), net[Peer(x)])
           /\ Consume(x) /\ net[Peer(x)] # <<>> =>
                 NetBecomes(x, net[x], Tail(net[Peer(x)]))
<1>1. /\ Peer(x) \in Side /\ Peer(x) # x
      /\ DOMAIN st = Side /\ DOMAIN conn = Side /\ net \in [Side -> Seq(Frame)]
  BY Sides DEF Inv, EndsTypeOK
<1> HIDE DEF Inv
<1>2. /\ st' = st => StBecomes(x, st[x])
      /\ \A t : SetStream(x, t) => StBecomes(x, t)
  BY <1>1 DEF StBecomes, SetStream
<1>3. /\ conn' = conn => ConnBecomes(x, conn[x])
      /\ \A c : SetConn(x, c) => ConnBecomes(x, c)
  BY <1>1 DEF ConnBecomes, SetConn
<1>4. net' = net => NetBecomes(x, net[x], net[Peer(x)])
  BY <1>1 DEF NetBecomes
<1>5. ASSUME NEW f \in Frame, Send(x, f)
      PROVE  NetBecomes(x, Append(net[x], f), net[Peer(x)])
  BY <1>1, <1>5 DEF NetBecomes, Send
<1>6. ASSUME Consume(x), net[Peer(x)] # <<>>
      PROVE  NetBecomes(x, net[x], Tail(net[Peer(x)]))
  BY <1>1, <1>6 DEF NetBecomes, Consume
<1> QED
  BY <1>2, <1>3, <1>4, <1>5, <1>6

\* A step of x that changes its stream, its connection and the channels preserves
\* the invariant if what it leaves behind satisfies each part; the steps below
\* show that for the critical sections of each goroutine.
LEMMA StepInv ==
    ASSUME Inv, NEW x \in Side, NEW t, NEW c, NEW qx, NEW qy,
           StBecomes(x, t), ConnBecomes(x, c), NetBecomes(x, qx, qy),
           link' \in {"up", "down"},
           EndOK(t, c, qy),
           conn[Peer(x)].rpc = "proc" => qx # <<>>,
           ChannelOK(t, c.wpc, st[Peer(x)], qx),
           ChannelOK(st[Peer(x)], conn[Peer(x)].wpc, t, qy),
           x = "client" => OpenOK(t, st[Peer(x)], qx, qy, conn[Peer(x)].rpc),
           x = "server" => OpenOK(st[Peer(x)], t, qy, qx, c.rpc)
    PROVE  Inv'
<1> DEFINE y == Peer(x)
<1>1. /\ y \in Side /\ x # y /\ Peer(y) = x
      /\ \A z \in Side : z = x \/ z = y
      /\ \/ x = "client" /\ y = "server"
         \/ x = "server" /\ y = "client"
  BY Sides, Zenon
<1>3. /\ st'[x] = t /\ st'[y] = st[y] /\ conn'[x] = c /\ conn'[y] = conn[y]
      /\ DOMAIN st' = Side /\ DOMAIN conn' = Side
      /\ net' \in [Side -> Seq(Frame)] /\ net'[x] = qx /\ net'[y] = qy
  BY Zenon DEF StBecomes, ConnBecomes, NetBecomes
<1> HIDE DEF y
<1>4. EndOK(st[y], conn[y], net[x])
  BY <1>1, Zenon DEF Inv
<1>5. EndOK(st[y], conn[y], qx)
  BY <1>4 DEF EndOK, ConnOK, y
<1>6. \A z \in Side : EndOK(st'[z], conn'[z], net'[Peer(z)])
  BY <1>1, <1>3, <1>5, Zenon DEF y
<1>7. \A z \in Side : IsStream(st'[z]) /\ IsConn(conn'[z])
  BY <1>6, ZenonT(30) DEF EndOK, StreamInv
<1>8. \A z \in Side : ChannelOK(st'[z], conn'[z].wpc, st'[Peer(z)], net'[z])
  BY <1>1, <1>3, Zenon DEF y
<1>9. OpenOK(st'["client"], st'["server"], net'["client"], net'["server"],
             conn'["server"].rpc)
  BY <1>1, <1>3, Zenon DEF y
<1> QED
  BY <1>3, <1>6, <1>7, <1>8, <1>9, Zenon DEF Inv, EndsTypeOK

\* A step that sends and handles nothing.
LEMMA LocalStep ==
    ASSUME Inv, NEW x \in Side, NEW t, NEW c,
           StBecomes(x, t), ConnBecomes(x, c), net' = net,
           link' \in {"up", "down"},
           StreamInv(t, c.wpc), IsConn(c), Same(st[x], t),
           Untouched(t, c.wpc), ConnOK(t, c, net[Peer(x)]),
           conn[x].wpc \in {"stopped", "closed"}
              => c.wpc \in {"stopped", "closed"},
           conn[x].rpc = "proc" => c.rpc = "proc"
    PROVE  Inv'
<1> DEFINE y == Peer(x)
<1>1. /\ ChannelOK(st[x], conn[x].wpc, st[y], net[x])
      /\ ChannelOK(st[y], conn[y].wpc, st[x], net[y])
      /\ EndOK(st[y], conn[y], net[x])
  BY InvAt, Sides, Zenon
<1>2. NetBecomes(x, net[x], net[y])
  BY Becomes
<1>3. EndOK(t, c, net[y])
  BY Zenon DEF EndOK
<1>4. conn[y].rpc = "proc" => net[x] # <<>>
  BY <1>1, Zenon DEF EndOK, ConnOK
<1>5. /\ Same(st[y], st[y])
      /\ KeptIn({"stopped", "closed"}, conn[x].wpc, c.wpc)
      /\ KeptIn({"stopped", "closed"}, conn[y].wpc, conn[y].wpc)
      /\ KeptIn({"proc"}, conn[x].rpc, c.rpc)
      /\ KeptIn({"proc"}, conn[y].rpc, conn[y].rpc)
  BY Zenon DEF Same, KeptIn
<1>6. /\ ChannelOK(t, c.wpc, st[y], net[x])
      /\ ChannelOK(st[y], conn[y].wpc, t, net[y])
  BY <1>1, <1>5, ChannelSame, Zenon
<1>7. x = "client" => OpenOK(t, st[y], net[x], net[y], conn[y].rpc)
  <2>1. x = "client" => OpenOK(st[x], st[y], net[x], net[y], conn[y].rpc)
    BY Sides, Zenon DEF Inv
  <2> QED BY <1>5, <2>1, OpenSame, Zenon
<1>8. x = "server" => OpenOK(st[y], t, net[y], net[x], c.rpc)
  <2>1. x = "server" => OpenOK(st[y], st[x], net[y], net[x], conn[x].rpc)
    BY Sides, Zenon DEF Inv
  <2> QED BY <1>5, <2>1, OpenSame, Zenon
<1> HIDE DEF y, Inv
<1> QED
  BY <1>2, <1>3, <1>4, <1>6, <1>7, <1>8, StepInv, Zenon DEF y

\* A call of the application changes its own end only.
LEMMA AppStep ==
    ASSUME Inv, NEW x \in Side, NEW t, App(x, t), Made(x),
           StreamInv(t, conn[x].wpc), Same(st[x], t)
    PROVE  Inv'
<1>1. EndOK(st[x], conn[x], net[Peer(x)])
  BY InvAt
<1>2. Untouched(t, conn[x].wpc)
  BY Zenon DEF Made, Same, Untouched
<1>3. ConnOK(t, conn[x], net[Peer(x)])
  BY <1>1, Zenon DEF EndOK, ConnOK, Same
<1>4. StBecomes(x, t) /\ ConnBecomes(x, conn[x]) /\ net' = net
  BY Becomes DEF App
<1>5. link' \in {"up", "down"}
  BY Zenon DEF App, Inv, EndsTypeOK
<1> QED
  BY <1>1, <1>2, <1>3, <1>4, <1>5, LocalStep, Zenon DEF EndOK

\* The write loop moves on, to v.
LEMMA GotoStep ==
    ASSUME Inv, NEW x \in Side, NEW t,
           NEW v \in {"idle", "ctrl", "loop", "ctrlWrite", "data", "dataWrite",
                      "stopped", "closed"},
           StBecomes(x, t), GotoW(x, v), net' = net, link' \in {"up", "down"},
           conn[x].wpc \in {"stopped", "closed"} => v = "closed",
           StreamInv(t, v), Same(st[x], t), Untouched(t, v)
    PROVE  Inv'
<1> DEFINE c == [conn[x] EXCEPT !.wpc = v]
<1>1. EndOK(st[x], conn[x], net[Peer(x)])
  BY InvAt
<1>2. /\ IsConn(c) /\ c.wpc = v /\ c.rpc = conn[x].rpc
      /\ c.fail = conn[x].fail /\ c.marks = conn[x].marks
  BY <1>1 DEF EndOK, IsConn
<1>3. ConnBecomes(x, c)
  BY Becomes, Zenon DEF GotoW
<1> HIDE DEF c
<1>4. ConnOK(t, c, net[Peer(x)])
  BY <1>1, <1>2, Zenon DEF EndOK, ConnOK, Same
<1> QED
  BY <1>2, <1>3, <1>4, LocalStep, Zenon

\* Errors a connection may be closed with by something other than a frame that
\* breaks the protocol.
LEMMA FailConnInv ==
    ASSUME NEW c, IsConn(c), NEW s, NEW e \in Error \ ProtocolError,
           c.fail \notin ProtocolError,
           "closing" \in c.marks => c.fail # None /\ s.where # "none"
    PROVE  LET d == FailConn(c, e, s)
           IN /\ IsConn(d) /\ d.rpc = c.rpc /\ d.wpc = c.wpc
              /\ d.fail \notin ProtocolError /\ d.fail # None
              /\ "closing" \in d.marks => s.where # "none"
<1>1. CASE c.fail # None
  BY <1>1 DEF FailConn
<1>2. CASE c.fail = None
  <2> DEFINE o == FailOutgoing(c, e)
  <2>1. /\ IsConn(o) /\ o.rpc = c.rpc /\ o.wpc = c.wpc
        /\ o.marks = c.marks
    BY DEF FailOutgoing, IsConn, Error
  <2>2. FailConn(c, e, s) =
          [o EXCEPT !.fail = e, !.marks = @ \cup IF s.where = "live"
                                                THEN {"closing"} ELSE {}]
    BY <1>2 DEF FailConn
  <2> HIDE DEF o
  <2>3. e # None
    BY Zenon DEF Error, ProtocolError, None
  <2> QED
    BY <1>2, <2>1, <2>2, <2>3 DEF IsConn
<1> QED
  BY <1>1, <1>2

-----------------------------------------------------------------------------
\* The actions, one lemma for each group

\* A stream with nothing on the wire is consistent wherever the write loop is.
LEMMA NothingWired ==
    ASSUME NEW s, NEW w, StreamInv(s, w),
           w \notin {"ctrlWrite", "dataWrite", "stopped", "closed"}
    PROVE  s.wired = 0 /\ \A v : StreamInv(s, v)
BY DEF StreamInv, BufferOK, IsStream

\* The stream as writeCtrl finds it after taking the lock again.
LEMMA RelockedInv ==
    ASSUME Inv, NEW x \in Side, InCtrl(x)
    PROVE  /\ \A v : StreamInv(Relocked(x), v)
           /\ Same(st[x], Relocked(x))
           /\ Relocked(x).wired = 0
           /\ Made(x)
<1>1. EndOK(st[x], conn[x], net[Peer(x)])
  BY InvAt
<1>2. StreamInv(st[x], conn[x].wpc) /\ Untouched(st[x], conn[x].wpc)
  BY <1>1 DEF EndOK
<1>3. Made(x)
  BY <1>2, Zenon DEF InCtrl, Untouched, Made
<1>4. CASE conn[x].wpc = "ctrlWrite"
  <2>1. \A v : StreamInv(AfterWrite(st[x]), v) /\ Same(st[x], AfterWrite(st[x]))
    BY <1>2, AfterWriteInv
  <2>2. AfterWrite(st[x]).wired = 0
    <3>1. IsStream(st[x])
      BY InvAt, Zenon
    <3> QED BY <3>1, Zenon DEF AfterWrite, IsStream, StreamField
  <2> QED BY <1>3, <1>4, <2>1, <2>2, Zenon DEF Relocked
<1>5. CASE conn[x].wpc # "ctrlWrite"
  <2>1. conn[x].wpc \in {"ctrl", "loop"}
    BY <1>5, SMTT(30) DEF InCtrl
  <2> QED BY <1>2, <1>3, <1>5, <2>1, NothingWired DEF Relocked, Same
<1> QED BY <1>4, <1>5, Zenon

\* The end that receives changes nothing the channel depends on.
LEMMA ChannelReceiver ==
    ASSUME NEW s, NEW w, NEW r, NEW t, NEW q, ChannelOK(s, w, r, q),
           t.got = r.got, Credited(t) = Credited(r),
           "SeenEOF" \in t.flags <=> "SeenEOF" \in r.flags
    PROVE  ChannelOK(s, w, t, q)
BY Zenon DEF ChannelOK, DataOK, WindowOK, EOFOK
-----------------------------------------------------------------------------
\* The head of a channel

\* The head of what side x has yet to handle.  This is where the pieces of the
\* invariant meet: the payload fits the window because it ends at or before
\* the last byte the sender's credit allows, and that credit was granted.
LEMMA HeadFacts ==
    ASSUME Inv, NEW x \in Side, net[Peer(x)] # <<>>
    PROVE  LET f == Head(net[Peer(x)])
               y == Peer(x)
           IN /\ f = net[y][1] /\ f \in Frame /\ FrameOK(f)
              /\ f.kind # "CONN" =>
                    /\ "NeedOpen" \notin st[x].flags
                    /\ st[y].where # "none"
              /\ f.kind = "DATA" =>
                    /\ "SeenEOF" \notin st[x].flags
                    /\ f.len <= st[x].rleft
              /\ "OPEN" \in f.flags =>
                    /\ x = "server" /\ f.kind = "DATA"
                    /\ st[x].where = "none" \/ conn[x].rpc = "proc"
                    /\ st[x].where = "none" => "SeenEOF" \notin st[y].flags
              /\ f.kind = "DATA" /\ "OPEN" \notin f.flags =>
                    st[x].where = "live"
<1> DEFINE y == Peer(x)
           f == Head(net[y])
           s == st[x]
           r == st[y]
<1>1. /\ EndOK(s, conn[x], net[y])
      /\ ChannelOK(s, conn[x].wpc, r, net[x])
      /\ ChannelOK(r, conn[y].wpc, s, net[y])
      /\ IsStream(s) /\ IsStream(r) /\ net[y] \in Seq(Frame)
  BY InvAt, Zenon
<1>2. f = net[y][1] /\ f \in Frame /\ 1 \in 1..Len(net[y])
  BY <1>1
<1>3. FrameOK(f) /\ f.len \in Nat /\ f.pos \in Int
  BY <1>1, <1>2, Zenon DEF ChannelOK, Frame
<1>4. f.kind # "CONN" => r.where # "none"
  BY <1>1, <1>2 DEF ChannelOK, OrderOK
<1>5. f.kind # "CONN" => "NeedOpen" \notin s.flags
  <2>1. CASE x = "client"
    BY <1>4, <2>1, Sides, Zenon DEF Inv, OpenOK
  <2>2. CASE x = "server"
    BY <2>2, Sides, Zenon DEF Inv, OpenOK
  <2> QED BY <2>1, <2>2, Sides, Zenon
<1>6. f.kind = "DATA" => "SeenEOF" \notin s.flags
  BY <1>1, <1>2, Zenon DEF ChannelOK, EOFOK
<1>7. "OPEN" \in f.flags =>
         /\ x = "server" /\ f.kind = "DATA"
         /\ s.where = "none" \/ conn[x].rpc = "proc"
         /\ s.where = "none" => "SeenEOF" \notin r.flags
  <2>1. CASE x = "client"
    BY <1>2, <2>1, Sides, Zenon DEF Inv, OpenOK
  <2>2. CASE x = "server"
    BY <1>2, <1>3, <2>2, Sides, ZenonT(30) DEF Inv, OpenOK, FrameOK
  <2> QED BY <2>1, <2>2, Sides, Zenon
<1>8. f.kind = "DATA" /\ "OPEN" \notin f.flags => s.where = "live"
  <2> SUFFICES ASSUME f.kind = "DATA", "OPEN" \notin f.flags
               PROVE  s.where = "live"
    OBVIOUS
  <2>1. s.where # "none"
    <3>1. CASE x = "client"
      BY <1>4, <3>1, Sides, Zenon DEF Inv, OpenOK
    <3>2. CASE x = "server"
      BY <1>2, <3>2, Sides, Zenon DEF Inv, OpenOK
    <3> QED BY <3>1, <3>2, Sides, Zenon
  <2>2. s.where # "gone"
    BY <1>1, <1>6, ZenonT(30) DEF EndOK, StreamInv, FlagsOK, BothEOF
  <2> QED BY <1>1, <2>1, <2>2, Zenon DEF IsStream
<1>9. f.kind = "DATA" => f.len <= s.rleft
  <2> SUFFICES ASSUME f.kind = "DATA"
               PROVE  f.len <= s.rleft
    BY Zenon
  <2>1. /\ s.rleft \in Nat /\ s.got \in Nat /\ r.sent \in Nat /\ r.wleft \in Nat
        /\ Window \in Nat
    BY <1>1, StreamNumbers, SizesArePositive, SMTT(30)
  <2>2. f.len > 0 => s.got <= f.pos /\ f.pos + f.len <= r.sent
    BY <1>1, <1>2, Zenon DEF ChannelOK, DataOK
  <2>3. r.wleft + r.sent - Window <= s.rleft + s.got - Window
    BY <1>1, Zenon DEF ChannelOK, WindowOK, Credited, Granted
  <2> DEFINE len == f.len  pos == f.pos
  <2>4. len \in Nat /\ pos \in Int /\ (len > 0 => s.got <= pos /\ pos + len <= r.sent)
    BY <1>3, <2>2, ZenonT(30)
  <2> HIDE DEF len, pos, s, r
  <2>5. len <= s.rleft
    BY <2>1, <2>3, <2>4, SMTT(30)
  <2> QED BY <2>5 DEF len
<1> HIDE DEF f
<1> QED
  BY <1>2, <1>3, <1>4, <1>5, <1>6, <1>7, <1>8, <1>9, Zenon DEF f

-----------------------------------------------------------------------------
\* The write loop

\* Appending a frame.
LEMMA AppendFrame ==
    ASSUME NEW q \in Seq(Frame), NEW f \in Frame
    PROVE  /\ Len(q) \in Nat
           /\ Len(Append(q, f)) = Len(q) + 1
           /\ Append(q, f)[Len(q) + 1] = f
           /\ Append(q, f) # <<>>
           /\ \A i \in 1..Len(q) : Append(q, f)[i] = q[i]
           /\ \A i \in 1..Len(Append(q, f)) : i \in 1..Len(q) \/ i = Len(q) + 1
BY SMTT(30)

\* The client's first frame opens the stream, later ones do not.
LEMMA OpenSent ==
    ASSUME NEW s, NEW t, NEW r, NEW q \in Seq(Frame), NEW qs, NEW rpc,
           NEW f \in Frame, OpenOK(s, r, q, qs, rpc),
           \A i \in 1..Len(q) : q[i].kind # "CONN",
           s.where = "live", t.where # "none", "NeedOpen" \notin t.flags,
           "SeenEOF" \in t.flags <=> "SeenEOF" \in s.flags,
           "NeedOpen" \in s.flags => "SeenEOF" \notin t.flags,
           "OPEN" \in f.flags <=> "NeedOpen" \in s.flags
    PROVE  OpenOK(t, r, Append(q, f), qs, rpc)
<1> DEFINE n == Len(q)
           p == Append(q, f)
<1>1. /\ n \in Nat /\ Len(p) = n + 1 /\ p[n + 1] = f /\ p # <<>>
      /\ \A i \in 1..n : p[i] = q[i]
      /\ \A i \in 1..Len(p) : i \in 1..n \/ i = n + 1
  BY AppendFrame, ZenonT(30)
<1> HIDE DEF p
<1>2. "NeedOpen" \in s.flags => n = 0 /\ r.where = "none"
  <2>1. n = 0 \/ 1 \in 1..n
    BY <1>1
  <2> QED BY <2>1, Zenon DEF OpenOK
<1>3. \A i \in 1..Len(p) : "OPEN" \in p[i].flags =>
        /\ i = 1
        /\ r.where = "none" \/ rpc = "proc"
        /\ r.where = "none" => "SeenEOF" \notin t.flags
  BY <1>1, <1>2 DEF OpenOK
<1>4. r.where = "none" => "OPEN" \in p[1].flags
  <2>1. CASE "NeedOpen" \in s.flags
    BY <1>1, <1>2, <2>1
  <2>2. CASE "NeedOpen" \notin s.flags
    BY <1>1, <2>2 DEF OpenOK
  <2> QED BY <2>1, <2>2, Zenon
<1> QED
  BY <1>1, <1>3, <1>4, Zenon DEF OpenOK, p

\* The write loop sends frame f of a live stream, which becomes t.
LEMMA SendStep ==
    ASSUME Inv, NEW x \in Side, NEW t, NEW f \in Frame,
           NEW v \in {"loop", "ctrlWrite", "dataWrite"},
           SetStream(x, t), Send(x, f), GotoW(x, v), link' = link,
           conn[x].wpc \in {"ctrl", "loop", "ctrlWrite", "data"},
           st[x].where = "live", t.where # "none", StreamInv(t, v),
           FrameOK(f), f.kind # "CONN",
           t.got = st[x].got, Credited(t) = Credited(st[x]),
           t.sent >= st[x].sent, Granted(t) >= Granted(st[x]),
           "SeenEOF" \in t.flags <=> "SeenEOF" \in st[x].flags,
           "SentEOF" \in st[x].flags => "SentEOF" \in t.flags,
           "NeedOpen" \notin t.flags,
           "OPEN" \in f.flags <=> "NeedOpen" \in st[x].flags,
           f.kind = "DATA" => /\ "SentEOF" \notin st[x].flags
                              /\ t.sent = st[x].sent + f.len
                              /\ f.len > 0 => f.pos = st[x].sent,
           f.kind = "WINDOW" => /\ f.pos = Granted(st[x])
                                /\ f.pos + f.len = Granted(t),
           Ends(f) => "SentEOF" \in t.flags
    PROVE  Inv'
<1> DEFINE y == Peer(x)
           s == st[x]
           c == [conn[x] EXCEPT !.wpc = v]
           n == Len(net[x])
           p == Append(net[x], f)
<1>1. /\ EndOK(s, conn[x], net[y]) /\ EndOK(st[y], conn[y], net[x])
      /\ ChannelOK(s, conn[x].wpc, st[y], net[x])
      /\ ChannelOK(st[y], conn[y].wpc, s, net[y])
      /\ IsStream(s) /\ IsStream(st[y]) /\ IsStream(t)
      /\ net[x] \in Seq(Frame) /\ link' \in {"up", "down"}
  BY InvAt, Sides, Zenon DEF Inv, EndsTypeOK, StreamInv
<1>2. /\ IsConn(c) /\ c.wpc = v /\ c.rpc = conn[x].rpc
      /\ c.fail = conn[x].fail /\ c.marks = conn[x].marks
  BY <1>1 DEF EndOK, IsConn
<1>3. StBecomes(x, t) /\ ConnBecomes(x, c) /\ NetBecomes(x, p, net[y])
  BY Becomes DEF GotoW
<1>4. /\ n \in Nat /\ Len(p) = n + 1 /\ p[n + 1] = f /\ p # <<>>
      /\ \A i \in 1..n : p[i] = net[x][i]
      /\ \A i \in 1..Len(p) : i \in 1..n \/ i = n + 1
  BY <1>1, AppendFrame, Zenon
<1> HIDE DEF c, p
<1>5. ChannelOK(t, c.wpc, st[y], p)
  BY <1>1, <1>2, ChannelAppend, ZenonT(30) DEF p
<1>6. ChannelOK(st[y], conn[y].wpc, t, net[y])
  BY <1>1, ChannelReceiver, Zenon
<1>7. EndOK(t, c, net[y])
  BY <1>1, <1>2, Zenon DEF EndOK, ConnOK, Untouched
<1>8. \A i \in 1..n : net[x][i].kind # "CONN"
  BY <1>1, Zenon DEF ChannelOK, OrderOK
<1>9. ASSUME x = "client"
      PROVE  OpenOK(t, st[y], p, net[y], conn[y].rpc)
  <2>1. OpenOK(s, st[y], net[x], net[y], conn[y].rpc)
    BY <1>9, Sides, Zenon DEF Inv
  <2>2. "NeedOpen" \in s.flags => "SeenEOF" \notin t.flags
    BY <1>1, Zenon DEF EndOK, StreamInv, FlagsOK, BothEOF
  <2> QED BY <1>1, <1>8, <2>1, <2>2, OpenSent, Zenon DEF p
<1>10. ASSUME x = "server"
       PROVE  OpenOK(st[y], t, net[y], p, c.rpc)
  <2>1. OpenOK(st[y], s, net[y], net[x], conn[x].rpc)
    BY <1>10, Sides, Zenon DEF Inv
  <2>2. \A i \in 1..Len(p) : "OPEN" \notin p[i].flags
    BY <1>4, <2>1, Zenon DEF OpenOK
  <2> QED
    BY <1>2, <2>1, <2>2, Zenon DEF OpenOK
<1> HIDE DEF y, s, n, Inv
<1> QED
  BY <1>1, <1>3, <1>4, <1>5, <1>6, <1>7, <1>9, <1>10, StepInv, Zenon DEF y

\* What goes over the wire is never a protocol error.
LEMMA WireErrors ==
    ASSUME NEW e \in Error
    PROVE  WireErr(e) \in Error \ ProtocolError /\ WireErr(e) # None
BY Zenon DEF WireErr, Error, ProtocolError, None

IsDataFrame(f, s, flags, n) ==
    /\ f \in Frame /\ FrameOK(f) /\ f.kind = "DATA" /\ f.len = n
    /\ f.pos = s.wlo /\ f.flags = flags

\* What a DATA frame looks like.
LEMMA DataFrameOK ==
    ASSUME NEW s, s.wlo \in Nat, NEW n \in Nat,
           NEW flags \in SUBSET {"OPEN", "ACK", "EOF"}
    PROVE  IsDataFrame(DataFrame(s, flags, n), s, flags, n)
BY DEF IsDataFrame, DataFrame, Frame, FrameOK, None, ProtocolError

\* What is added to the window, is granted.
LEMMA GrantedMore ==
    ASSUME NEW s, NEW t, s.rleft \in Nat, s.got \in Nat, s.rinc \in Nat,
           Window \in Int, t.rleft = s.rleft + s.rinc, t.got = s.got
    PROVE  Granted(t) = Granted(s) + s.rinc
BY DEF Granted

\* There is a payload only when something is buffered.
LEMMA PayloadBuffered ==
    ASSUME NEW s, Buffered(s) \in Int, s.wleft \in Nat, PayloadSize(s) > 0
    PROVE  Buffered(s) > 0
BY SizesArePositive DEF PayloadSize, Least

\* What a stream sends, it has less credit for.
LEMMA CreditKept ==
    ASSUME NEW s, NEW u, NEW n \in Nat, s.sent \in Nat, s.wleft \in Nat,
           Window \in Nat, u.sent = s.sent + n, u.wleft = s.wleft - n
    PROVE  u.sent >= s.sent /\ Credited(u) = Credited(s)
BY DEF Credited

\* A DATA frame is sent by writeCtrl or writeData.
LEMMA SendDataStep ==
    ASSUME Inv, NEW x \in Side, NEW s, NEW u,
           NEW v \in {"ctrlWrite", "dataWrite"},
           \A w : StreamInv(s, w), Same(st[x], s), s.wired = 0, Made(x),
           conn[x].wpc \in {"ctrl", "loop", "ctrlWrite", "data"},
           "SentEOF" \notin s.flags,
           StreamInv(AfterOutgoingFlags(PrepareData(s)), v) => StreamInv(u, v),
           Same(AfterOutgoingFlags(PrepareData(s)), u),
           SetStream(x, u), GotoW(x, v), link' = link,
           Send(x, DataFrame(s, OutgoingFlags(PrepareData(s)), PayloadSize(s)))
    PROVE  Inv'
<1> DEFINE p == PrepareData(s)
           t == AfterOutgoingFlags(p)
           n == PayloadSize(s)
           f == DataFrame(s, OutgoingFlags(p), n)
<1>1. s.where # "none"
  BY Zenon DEF Same, Made
<1>2. /\ StreamInv(t, v)
      /\ n \in Nat
      /\ n > 0 => s.wlo = s.sent
      /\ t.sent = s.sent + n /\ t.wleft = s.wleft - n
      /\ t.got = s.got /\ t.rleft = s.rleft
      /\ t.where # "none"
      /\ "NeedOpen" \notin t.flags
      /\ "SeenEOF" \in t.flags <=> "SeenEOF" \in s.flags
      /\ "SentEOF" \in t.flags <=> "EOF" \in OutgoingFlags(p)
      /\ "OPEN" \in OutgoingFlags(p) <=> "NeedOpen" \in s.flags
      /\ OutgoingFlags(p) \subseteq {"OPEN", "ACK", "EOF"}
  BY <1>1, PrepareDataInv, ZenonT(30)
<1>3. IsStream(s) /\ IsStream(st[x]) /\ FlagsOK(s) /\ s.wlo \in Nat
  BY InvAt, ZenonT(30) DEF StreamInv, IsStream
<1>4. st[x].where = "live"
  BY <1>1, <1>3, Zenon DEF IsStream, FlagsOK, BothEOF, Same
<1> HIDE DEF t, n
<1>5. /\ f \in Frame /\ FrameOK(f) /\ f.kind = "DATA" /\ f.len = n
      /\ f.pos = s.wlo /\ f.flags = OutgoingFlags(p)
  <2>1. PICK o : o = OutgoingFlags(p)
    BY Zenon
  <2>2. o \in SUBSET {"OPEN", "ACK", "EOF"} /\ n \in Nat /\ s.wlo \in Nat
    BY <1>2, <1>3, <2>1, Zenon
  <2>3. IsDataFrame(DataFrame(s, o, n), s, o, n)
    BY <2>2, DataFrameOK, Zenon
  <2> QED BY <2>1, <2>3, Zenon DEF IsDataFrame
<1> HIDE DEF f
<1>6. /\ u.got = st[x].got /\ u.sent = st[x].sent + n
      /\ u.where # "none"
      /\ "NeedOpen" \notin u.flags
      /\ "SeenEOF" \in u.flags <=> "SeenEOF" \in st[x].flags
      /\ "SentEOF" \in u.flags <=> "EOF" \in f.flags
      /\ "OPEN" \in f.flags <=> "NeedOpen" \in st[x].flags
      /\ "SentEOF" \notin st[x].flags
      /\ n > 0 => f.pos = st[x].sent
  BY <1>2, <1>5, Zenon DEF Same, t
<1>7. u.wleft = st[x].wleft - n /\ u.rleft = st[x].rleft /\ StreamInv(u, v)
  BY <1>2, ZenonT(30) DEF Same, t
<1>8. st[x].sent \in Nat /\ st[x].wleft \in Nat /\ Window \in Nat
  BY <1>3, StreamNumbers, SizesArePositive, Zenon
<1>9. /\ u.sent >= st[x].sent /\ Credited(u) = Credited(st[x])
  <2>1. n \in Nat /\ u.sent = st[x].sent + n /\ u.wleft = st[x].wleft - n
    BY <1>2, <1>6, <1>7, Zenon
  <2> QED BY <1>8, <2>1, CreditKept, Zenon
<1>10. Granted(u) = Granted(st[x]) /\ Granted(u) \in Int
  BY <1>3, <1>6, <1>7, StreamNumbers, ZenonT(30) DEF Granted
<1>11. Granted(u) >= Granted(st[x])
  BY <1>10
<1>12. Ends(f) => "SentEOF" \in u.flags
  BY <1>5, <1>6, ZenonT(30) DEF Ends
<1>13. Send(x, f)
  BY ZenonT(30) DEF f, n
<1> HIDE DEF p
<1> QED
  BY <1>4, <1>5, <1>6, <1>7, <1>9, <1>11, <1>12, <1>13, SendStep, Zenon

\* The frames of the write loop.
LEMMA CtrlDataStep ==
    ASSUME Inv, NEW x \in Side, CtrlData(x)
    PROVE  Inv'
<1> DEFINE s == Relocked(x)
           t == AfterOutgoingFlags(PrepareData(s))
<1>1. /\ \A w : StreamInv(s, w)
      /\ Same(st[x], s) /\ s.wired = 0 /\ Made(x)
  BY RelockedInv, ZenonT(30) DEF CtrlData
<1>2. /\ SetStream(x, t) /\ GotoW(x, "ctrlWrite") /\ link' = link
      /\ Send(x, DataFrame(s, OutgoingFlags(PrepareData(s)), PayloadSize(s)))
      /\ "SentEOF" \notin s.flags
      /\ conn[x].wpc \in {"ctrl", "loop", "ctrlWrite"}
  BY DEF CtrlData, NeedsDataCtrl, InCtrl
<1>3. Same(t, t)
  BY ZenonT(30) DEF Same
<1> HIDE DEF s
<1> QED
  BY <1>1, <1>2, <1>3, SendDataStep

\* writeData sends a payload, possibly with OPEN, ACK or EOF.
LEMMA WriteDataStep ==
    ASSUME Inv, NEW x \in Side, WriteData(x)
    PROVE  Inv'
<1> DEFINE s == st[x]
           t == AfterOutgoingFlags(PrepareData(s))
           u == Reschedule(t)
<1>1. EndOK(s, conn[x], net[Peer(x)])
  BY InvAt
<1>2. conn[x].wpc = "data"
  BY DEF WriteData
<1>3. StreamInv(s, "data") /\ Untouched(s, "data")
  BY <1>1, <1>2 DEF EndOK
<1>4. s.wired = 0 /\ \A w : StreamInv(s, w)
  BY <1>3, NothingWired
<1>5. Made(x)
  BY <1>3, ZenonT(30) DEF Untouched, Made
<1>6. "SentEOF" \notin s.flags
  <2>1. PayloadSize(s) > 0
    BY DEF WriteData
  <2>2. Buffered(s) > 0
    <3>1. Buffered(s) \in Int /\ s.wleft \in Nat
      BY <1>3 DEF StreamInv, IsStream, Buffered
    <3> QED BY <2>1, <3>1, PayloadBuffered, Zenon
  <2>3. Buffered(s) \in Int
    BY <1>3 DEF StreamInv, IsStream, Buffered
  <2> QED
    BY <1>3, <1>4, <2>2, <2>3 DEF StreamInv, FlagsOK, PendingBytes
<1>7. Same(t, u)
  BY DEF Reschedule, Same
<1>8. StreamInv(t, "dataWrite") => StreamInv(u, "dataWrite")
  BY RescheduleInv, ZenonT(30)
<1>9. /\ SetStream(x, u) /\ GotoW(x, "dataWrite") /\ link' = link
      /\ Send(x, DataFrame(s, OutgoingFlags(PrepareData(s)), PayloadSize(s)))
  BY DEF WriteData
<1>10. Same(st[x], s)
  BY Zenon DEF Same
<1> HIDE DEF s, u
<1> QED
  BY <1>2, <1>4, <1>5, <1>6, <1>7, <1>8, <1>9, <1>10, SendDataStep, ZenonT(30)

\* writeCtrl grants the remote what the application has read.
LEMMA CtrlWindowStep ==
    ASSUME Inv, NEW x \in Side, CtrlWindow(x)
    PROVE  Inv'
<1> DEFINE s == Relocked(x)
           t == AfterWindow(s)
           f == WindowFrame(s)
<1>1. /\ StreamInv(s, "loop")
      /\ Same(st[x], s) /\ s.wired = 0 /\ Made(x)
  BY RelockedInv DEF CtrlWindow
<1>2. /\ SetStream(x, t) /\ GotoW(x, "loop") /\ link' = link /\ Send(x, f)
      /\ ~NeedsDataCtrl(s) /\ s.rinc > 0
      /\ conn[x].wpc \in {"ctrl", "loop", "ctrlWrite"}
  BY DEF CtrlWindow, InCtrl, NeedsWindow
<1>3. /\ StreamInv(t, "loop")
      /\ t.rleft = s.rleft + s.rinc
      /\ t.where = s.where /\ t.flags = s.flags /\ t.sent = s.sent
      /\ t.got = s.got /\ t.wleft = s.wleft
  BY <1>1, AfterWindowInv, SMTT(30)
<1>4. /\ IsStream(s) /\ IsStream(st[x]) /\ IsStream(t) /\ s.rinc \in Nat
      /\ FlagsOK(s) /\ ReadOK(s)
  BY <1>1, <1>3, InvAt, ZenonT(30) DEF StreamInv, IsStream
<1>5. Granted(s) \in Int /\ Window \in Int /\ s.rleft \in Nat /\ s.got \in Nat
  BY <1>4, StreamNumbers, SizesArePositive, SMTT(30)
<1>6. f \in Frame /\ f.kind = "WINDOW" /\ f.flags = {}
      /\ f.pos = Granted(s) /\ f.len = s.rinc /\ f.err = None
  BY <1>4, <1>5, Zenon DEF WindowFrame, Frame
<1>7. FrameOK(f) /\ ~Ends(f)
  BY <1>2, <1>6, Zenon DEF FrameOK, Ends, None, ProtocolError
<1>8. Granted(t) = Granted(s) + s.rinc /\ Granted(st[x]) = Granted(s)
  <2>1. Granted(t) = Granted(s) + s.rinc
    BY <1>3, <1>4, <1>5, GrantedMore, Zenon
  <2>2. Granted(st[x]) = Granted(s)
    BY <1>1, Zenon DEF Granted, Same
  <2> QED BY <2>1, <2>2, Zenon
<1>9. s.where = "live" /\ "NeedOpen" \notin s.flags
  <2>1. s.where # "none"
    BY <1>1, Zenon DEF Same, Made
  <2>2. s.rinc # 0
    BY <1>2, <1>4
  <2>3. "SeenEOF" \notin s.flags
    BY <1>4, <2>2, Zenon DEF ReadOK
  <2>4. s.where # "gone"
    BY <1>4, <2>3, Zenon DEF FlagsOK, BothEOF
  <2>5. s.where \in {"none", "live", "gone"}
    BY <1>4, Zenon DEF IsStream
  <2>6. "NeedOpen" \notin s.flags
    BY <1>2, <1>4, Zenon DEF NeedsDataCtrl, DataCtrl, FlagsOK, BothEOF
  <2> QED BY <2>1, <2>4, <2>5, <2>6, Zenon
<1>10. t.sent \in Nat /\ t.sent = st[x].sent
  BY <1>1, <1>3, <1>4, StreamNumbers, Zenon DEF Same
<1>11. Credited(t) = Credited(st[x])
  BY <1>1, <1>3, Zenon DEF Credited, Same
<1>12. /\ st[x].where = "live" /\ t.where # "none"
       /\ t.got = st[x].got /\ t.sent >= st[x].sent
       /\ "SeenEOF" \in t.flags <=> "SeenEOF" \in st[x].flags
       /\ "SentEOF" \in t.flags <=> "SentEOF" \in st[x].flags
       /\ "NeedOpen" \notin t.flags /\ "NeedOpen" \notin st[x].flags
  BY <1>1, <1>3, <1>9, <1>10 DEF Same
<1>13. /\ Granted(t) >= Granted(st[x])
       /\ f.pos = Granted(st[x]) /\ f.pos + f.len = Granted(t)
  BY <1>4, <1>5, <1>6, <1>8, SMTT(30)
<1> HIDE DEF s, t, f
<1> QED
  BY <1>2, <1>3, <1>6, <1>7, <1>11, <1>12, <1>13, SendStep, ZenonT(30)

\* A number is at least itself, and a frame without payload adds nothing to it.
LEMMA NothingAdded ==
    ASSUME NEW a \in Int
    PROVE  a >= a /\ a = a + 0 /\ ~(0 > 0)
OBVIOUS

\* A frame that ends one side of the stream: s becomes t.
LEMMA SendEndStep ==
    ASSUME Inv, NEW x \in Side, NEW s, NEW t, NEW f \in Frame,
           StreamInv(s, "loop"), Same(st[x], s), Made(x),
           conn[x].wpc \in {"ctrl", "loop", "ctrlWrite"},
           ~NeedsDataCtrl(s), NeedsReset(s) \/ NeedsEOF(s),
           StreamInv(t, "loop"), t.where # "none",
           t.got = s.got, t.rleft = s.rleft, t.sent = s.sent, t.wleft = s.wleft,
           "SeenEOF" \in t.flags <=> "SeenEOF" \in s.flags,
           "SentEOF" \in s.flags => "SentEOF" \in t.flags,
           "NeedOpen" \notin t.flags,
           Ends(f) => "SentEOF" \in t.flags,
           FrameOK(f), f.kind \in {"DATA", "RESET"},
           "OPEN" \notin f.flags,
           f.kind = "DATA" => f.len = 0 /\ NeedsEOF(s),
           SetStream(x, t), Send(x, f), GotoW(x, "loop"), link' = link
    PROVE  Inv'
<1>1. IsStream(s) /\ IsStream(st[x]) /\ FlagsOK(s) /\ ReadOK(s)
  BY InvAt, Zenon DEF StreamInv
<1>2. /\ s.where = "live" /\ "NeedOpen" \notin s.flags
      /\ NeedsEOF(s) => "SentEOF" \notin s.flags
  BY <1>1, Zenon DEF IsStream, FlagsOK, ReadOK, BothEOF, Same, Made, NeedsDataCtrl,
              DataCtrl, NeedsReset, NeedsEOF
<1>3. /\ st[x].where = "live"
      /\ "SentEOF" \in s.flags <=> "SentEOF" \in st[x].flags
      /\ "SeenEOF" \in t.flags <=> "SeenEOF" \in st[x].flags
      /\ "NeedOpen" \notin st[x].flags
      /\ t.got = st[x].got /\ t.sent = st[x].sent
  BY <1>2, Zenon DEF Same
<1>4. /\ Granted(t) = Granted(st[x]) /\ Credited(t) = Credited(st[x])
  BY Zenon DEF Same, Granted, Credited
<1>5. /\ t.sent \in Nat /\ Granted(t) \in Int /\ st[x].sent \in Nat
  BY <1>1, <1>3, <1>4, StreamNumbers, Zenon
<1>6. t.sent >= st[x].sent /\ Granted(t) >= Granted(st[x])
  <2>1. t.sent \in Int
    BY <1>5
  <2> QED BY <1>3, <1>4, <1>5, <2>1, NothingAdded, Zenon
<1>7. f.kind = "DATA" => /\ "SentEOF" \notin st[x].flags
                         /\ t.sent = st[x].sent + f.len
                         /\ ~(f.len > 0)
  <2>1. st[x].sent \in Int
    BY <1>5
  <2> QED BY <1>2, <1>3, <2>1, NothingAdded, Zenon
<1>8. f.kind # "WINDOW" /\ f.kind # "CONN"
  BY Zenon
<1> QED
  BY <1>2, <1>3, <1>4, <1>6, <1>7, <1>8, SendStep, Zenon

\* writeCtrl resets the read side, and the write side too if it may coalesce.
LEMMA CtrlResetStep ==
    ASSUME Inv, NEW x \in Side, CtrlReset(x)
    PROVE  Inv'
<1> DEFINE s == Relocked(x)
           r == [s EXCEPT !.flags = @ \ {"NeedReset"}]
           t == AfterReadReset(s)
           f == ReadReset(s)
<1>1. /\ StreamInv(s, "loop")
      /\ Same(st[x], s) /\ s.wired = 0 /\ Made(x)
  BY RelockedInv, Zenon DEF CtrlReset
<1>2. /\ SetStream(x, t) /\ GotoW(x, "loop") /\ link' = link /\ Send(x, f)
      /\ ~NeedsDataCtrl(s) /\ NeedsReset(s)
      /\ conn[x].wpc \in {"ctrl", "loop", "ctrlWrite"}
  BY Zenon DEF CtrlReset, InCtrl
<1> HIDE DEF s
<1>3. ResetErr(s) \in Error
  BY <1>1, <1>2, Zenon DEF StreamInv, IsStream, FlagsOK, NeedsReset, ResetErr, Error
<1>4. /\ f \in Frame /\ FrameOK(f) /\ f.kind = "RESET" /\ "OPEN" \notin f.flags
      /\ Ends(f) => Coalesce(s)
  <2>1. WireErr(ResetErr(s)) \in Error \ ProtocolError
        /\ WireErr(ResetErr(s)) # None
    BY <1>3, WireErrors
  <2> QED
    BY <2>1 DEF ReadReset, ResetFrame, Frame, FrameOK, Ends
<1>5. /\ StreamInv(r, "loop") /\ r.wired = 0 /\ r.where = s.where
      /\ r.got = s.got /\ r.rleft = s.rleft
      /\ r.sent = s.sent /\ r.wleft = s.wleft
      /\ "SeenEOF" \in r.flags <=> "SeenEOF" \in s.flags
      /\ "SentEOF" \in r.flags <=> "SentEOF" \in s.flags
      /\ "NeedOpen" \in r.flags <=> "NeedOpen" \in s.flags
      /\ NeedsEOF(s) => NeedsEOF(r)
  <2>1. /\ DOMAIN r = DOMAIN s /\ r.flags = s.flags \ {"NeedReset"}
        /\ \A g \in StreamField \ {"flags"} : r[g] = s[g]
    BY <1>1, Zenon DEF StreamInv, IsStream, StreamField
  <2> HIDE DEF r
  <2>2. /\ r.flags \subseteq s.flags /\ "NeedReset" \notin r.flags
        /\ \A b : b # "NeedReset" => (b \in r.flags <=> b \in s.flags)
    BY <2>1, Zenon
  <2>3. /\ r.where = s.where /\ r.rerr = s.rerr /\ r.werr = s.werr
        /\ r.rinc = s.rinc /\ r.wired = s.wired
        /\ r.got = s.got /\ r.rleft = s.rleft
        /\ r.sent = s.sent /\ r.wleft = s.wleft
        /\ PendingBytes(r) = PendingBytes(s) /\ Buffered(r) = Buffered(s)
    BY <2>1, Zenon DEF StreamField, PendingBytes, Buffered
  <2>4. IsStream(r)
    BY <1>1, <2>1, <2>2 DEF StreamInv, IsStream, StreamField
  <2>5. BufferOK(r, "loop")
    BY <1>1, <2>1, Zenon DEF StreamInv, BufferOK, StreamField, Buffered, PendingBytes
  <2>6. FlagsOK(s) /\ ReadOK(s)
    BY <1>1, Zenon DEF StreamInv
  <2>7. FlagsOK(r)
    BY <2>2, <2>3, <2>6, Zenon DEF FlagsOK, BothEOF
  <2>8. ReadOK(r)
    BY <2>2, <2>3, <2>6, Zenon DEF ReadOK
  <2>9. NeedsEOF(s) => NeedsEOF(r)
    BY <2>2, <2>3, Zenon DEF NeedsEOF
  <2> QED
    BY <1>1, <2>2, <2>3, <2>4, <2>5, <2>7, <2>8, <2>9, Zenon DEF StreamInv
<1>6. s.where # "none" /\ "NeedOpen" \notin s.flags
  BY <1>1, <1>2 DEF StreamInv, FlagsOK, Same, Made, NeedsDataCtrl, DataCtrl,
                    BothEOF
<1>7. t = IF Coalesce(s) THEN SentEOF(r) ELSE r
  BY DEF AfterReadReset
<1> HIDE DEF r, t, f
<1>8. /\ StreamInv(t, "loop") /\ t.where # "none"
      /\ t.got = s.got /\ t.rleft = s.rleft
      /\ t.sent = s.sent /\ t.wleft = s.wleft
      /\ "SeenEOF" \in t.flags <=> "SeenEOF" \in s.flags
      /\ "SentEOF" \in s.flags => "SentEOF" \in t.flags
      /\ "NeedOpen" \notin t.flags
      /\ Coalesce(s) => "SentEOF" \in t.flags
  <2>1. CASE Coalesce(s)
    <3>1. NeedsEOF(r)
      BY <1>5, <2>1 DEF Coalesce
    <3>2. r.where # "none" /\ "NeedOpen" \notin r.flags
      BY <1>5, <1>6
    <3>3. /\ StreamInv(SentEOF(r), "loop") /\ SentEOF(r).where # "none"
          /\ SentEOF(r).got = r.got /\ SentEOF(r).rleft = r.rleft
          /\ SentEOF(r).sent = r.sent /\ SentEOF(r).wleft = r.wleft
          /\ "SentEOF" \in SentEOF(r).flags
          /\ "NeedOpen" \notin SentEOF(r).flags
          /\ "SeenEOF" \in SentEOF(r).flags <=> "SeenEOF" \in r.flags
      BY <1>5, <3>1, <3>2, SentEOFInv, Zenon
    <3> QED BY <1>5, <1>7, <2>1, <3>3, ZenonT(30)
  <2>2. CASE ~Coalesce(s)
    BY <1>5, <1>6, <1>7, <2>2, Zenon
  <2> QED BY <2>1, <2>2, ZenonT(30)
<1> QED
  BY <1>1, <1>2, <1>4, <1>8, SendEndStep, ZenonT(30)

\* writeCtrl ends the write side with EOF or RESET.
LEMMA CtrlEOFStep ==
    ASSUME Inv, NEW x \in Side, CtrlEOF(x)
    PROVE  Inv'
<1> DEFINE s == Relocked(x)
           t == SentEOF(s)
           f == EOFFrame(s)
<1>1. /\ StreamInv(s, "loop")
      /\ Same(st[x], s) /\ s.wired = 0 /\ Made(x)
  BY RelockedInv, Zenon DEF CtrlEOF
<1>2. /\ SetStream(x, t) /\ GotoW(x, "loop") /\ link' = link /\ Send(x, f)
      /\ ~NeedsDataCtrl(s) /\ NeedsEOF(s)
      /\ conn[x].wpc \in {"ctrl", "loop", "ctrlWrite"}
  BY Zenon DEF CtrlEOF, InCtrl
<1> HIDE DEF s
<1>3. s.where # "none" /\ "NeedOpen" \notin s.flags
  BY <1>1, <1>2, Zenon DEF StreamInv, FlagsOK, Same, Made, NeedsDataCtrl, DataCtrl,
                    BothEOF
<1>4. s.werr \in Error /\ s.wlo \in Nat
  BY <1>1, <1>2, ZenonT(30) DEF StreamInv, IsStream, FlagsOK, NeedsEOF
<1>5. WireErr(s.werr) \in Error \ ProtocolError /\ WireErr(s.werr) # None
  BY <1>4, WireErrors, Zenon
<1>6. /\ f \in Frame /\ FrameOK(f) /\ f.kind \in {"DATA", "RESET"}
      /\ "OPEN" \notin f.flags
      /\ f.kind = "DATA" => f.len = 0
  BY <1>4, <1>5 DEF EOFFrame, DataFrame, ResetFrame, Frame, FrameOK, None,
                    ProtocolError
<1>7. /\ StreamInv(t, "loop") /\ t.where # "none"
      /\ t.got = s.got /\ t.rleft = s.rleft
      /\ t.sent = s.sent /\ t.wleft = s.wleft
      /\ "SentEOF" \in t.flags /\ "NeedOpen" \notin t.flags
      /\ "SeenEOF" \in t.flags <=> "SeenEOF" \in s.flags
  BY <1>1, <1>2, <1>3, SentEOFInv, ZenonT(30)
<1> HIDE DEF t, f
<1> QED
  BY <1>1, <1>2, <1>6, <1>7, SendEndStep, ZenonT(30)

\* The frame that ends the connection is one.
LEMMA ConnFrame ==
    ASSUME NEW e \in Error, e \notin ProtocolError, e # None
    PROVE  LET f == [kind |-> "CONN", flags |-> {}, pos |-> 0, len |-> 0, err |-> e]
           IN  f \in Frame /\ FrameOK(f) /\ f.kind = "CONN" /\ f.flags = {}
BY DEF Frame, FrameOK

\* It says nothing of how the stream is opened.
LEMMA OpenThenConn ==
    ASSUME NEW c, NEW s, NEW q \in Seq(Frame), NEW r, NEW rpc,
           OpenOK(c, s, q, r, rpc),
           NEW f \in Frame, f.kind = "CONN", f.flags = {}
    PROVE  OpenOK(c, s, Append(q, f), r, rpc)
<1>1. PICK n : n = Len(q)
  BY Zenon
<1>2. PICK p : p = Append(q, f)
  BY Zenon
<1>3. /\ n \in Nat /\ Len(p) = n + 1 /\ p[n + 1] = f /\ p # <<>>
      /\ \A i \in 1..n : p[i] = q[i]
      /\ \A i \in 1..Len(p) : i \in 1..n \/ i = n + 1
  BY <1>1, <1>2, AppendFrame
<1>4. (n >= 1 => p[1] = q[1]) /\ (q # <<>> => n >= 1)
  BY <1>1, <1>3
<1>5. OpenOK(c, s, p, r, rpc)
  BY <1>1, <1>3, <1>4 DEF OpenOK
<1> QED BY <1>2, <1>5

\* The write loop reports why the connection ends.
LEMMA SendConnErrorStep ==
    ASSUME Inv, NEW x \in Side, SendConnError(x)
    PROVE  Inv'
<1> DEFINE y == Peer(x)
           s == st[x]
           c == [conn[x] EXCEPT !.wpc = "stopped"]
           n == Len(net[x])
           f == [kind |-> "CONN", flags |-> {}, pos |-> 0, len |-> 0,
                 err |-> WireErr(conn[x].oerr)]
           p == Append(net[x], f)
<1>1. /\ EndOK(s, conn[x], net[y]) /\ EndOK(st[y], conn[y], net[x])
      /\ ChannelOK(s, conn[x].wpc, st[y], net[x])
      /\ ChannelOK(st[y], conn[y].wpc, s, net[y])
      /\ net[x] \in Seq(Frame) /\ link \in {"up", "down"}
  BY InvAt, Sides DEF Inv, EndsTypeOK
<1>2. /\ IsConn(c) /\ c.wpc = "stopped" /\ c.rpc = conn[x].rpc
      /\ c.fail = conn[x].fail /\ c.marks = conn[x].marks
  BY <1>1, Zenon DEF EndOK, IsConn
<1>3. conn[x].oerr \in Error
  BY <1>1, ZenonT(30) DEF EndOK, IsConn, SendConnError
<1>4. WireErr(conn[x].oerr) \in Error \ ProtocolError
      /\ WireErr(conn[x].oerr) # None
  BY <1>3, WireErrors, Zenon
<1>5. f \in Frame /\ FrameOK(f) /\ f.kind = "CONN" /\ f.flags = {}
  BY <1>4, ConnFrame, Zenon
<1>6. Send(x, f)
  BY ZenonT(30) DEF SendConnError
<1> HIDE DEF f
<1>7. /\ StBecomes(x, s) /\ ConnBecomes(x, c) /\ NetBecomes(x, p, net[y])
      /\ link' = link
  BY <1>5, <1>6, Becomes, Zenon DEF SendConnError, GotoW
<1>8. /\ n \in Nat /\ Len(p) = n + 1 /\ p[n + 1] = f /\ p # <<>>
      /\ \A i \in 1..n : p[i] = net[x][i]
      /\ \A i \in 1..Len(p) : i \in 1..n \/ i = n + 1
  BY <1>1, <1>5, AppendFrame, ZenonT(30)
<1> HIDE DEF c, p
<1>9. ChannelOK(s, c.wpc, st[y], p)
  <2>1. \A i \in 1..Len(p) : FrameOK(p[i])
    BY <1>1, <1>5, <1>8, ZenonT(30) DEF ChannelOK
  <2>2. DataOK(s, st[y], p)
    BY <1>1, <1>5, <1>8, ZenonT(30) DEF ChannelOK, DataOK
  <2>3. WindowOK(s, st[y], p)
    BY <1>1, <1>5, <1>8, Zenon DEF ChannelOK, WindowOK
  <2>4. EOFOK(s, st[y], p)
    BY <1>1, <1>5, <1>8, ZenonT(30) DEF ChannelOK, EOFOK, Ends
  <2>5. OrderOK(s, c.wpc, p)
    <3>1. c.wpc \in {"stopped", "closed"}
      BY <1>2, Zenon
    <3>2. s.where = "none" => \A i \in 1..Len(p) : p[i].kind = "CONN"
      BY <1>1, <1>5, <1>8, Zenon DEF ChannelOK, OrderOK
    <3> QED BY <3>1, <3>2, Zenon DEF OrderOK
  <2> QED BY <2>1, <2>2, <2>3, <2>4, <2>5, Zenon DEF ChannelOK
<1>10. EndOK(s, c, net[y])
  BY <1>1, <1>2, Zenon DEF EndOK, ConnOK, Untouched, StreamInv, BufferOK
<1>11. ASSUME x = "client"
       PROVE  OpenOK(s, st[y], p, net[y], conn[y].rpc)
  <2>1. OpenOK(s, st[y], net[x], net[y], conn[y].rpc)
    BY <1>11, Sides, Zenon DEF Inv
  <2> QED BY <1>1, <1>5, <2>1, OpenThenConn, Zenon DEF p
<1>12. ASSUME x = "server"
       PROVE  OpenOK(st[y], s, net[y], p, c.rpc)
  <2>1. OpenOK(st[y], s, net[y], net[x], conn[x].rpc)
    BY <1>12, Sides DEF Inv
  <2> QED BY <1>2, <1>5, <1>8, <2>1, ZenonT(30) DEF OpenOK
<1> HIDE DEF y, s, n, Inv
<1> QED
  BY <1>1, <1>7, <1>8, <1>9, <1>10, <1>11, <1>12, StepInv, Zenon DEF y, s
=============================================================================
