-------------------------- MODULE RawConnOrderProofs ------------------------
(***************************************************************************)
(* What each direction of a stream needs to implement ByteStream, for      *)
(* every instance of RawConn: bytes arrive in order, and io.EOF only after *)
(* all of them.                                                            *)
(*                                                                         *)
(* As long as the receiver has dropped nothing, the payloads in a channel  *)
(* lead without a gap from what it has got to what the sender has sent;    *)
(* and a sender that says io.EOF has sent all that was written, unless its *)
(* buffer was cleared by a RESET of a reader who had given up.             *)
(***************************************************************************)
EXTENDS RawConnInvariant

\* What the history of one end amounts to.
HistoryOK(s) ==
    /\ s.rerr = None => s.rhi = s.got
    /\ s.serr # None => s.rerr # None
    /\ s.sent <= s.whi

\* p marks the bytes before, between and after the frames of q.
Chain(p, got, sent, q) ==
    /\ p \in [0..Len(q) -> Int]
    /\ p[0] = got
    /\ \A i \in 1..Len(q) :
          IF q[i].kind = "DATA"
          THEN p[i] = p[i - 1] + q[i].len /\ (q[i].len > 0 => q[i].pos = p[i - 1])
          ELSE p[i] = p[i - 1]
    /\ \A i \in 0..Len(q) :
          (\A j \in 1..Len(q) : i < j => q[j].kind # "DATA") => p[i] = sent

\* The receiver r, whose connection is c, handles what it reads: it was neither
\* closed nor refused, and the connection has not failed since the frame at the
\* head of q was looked up.
Tracking(r, c, q) ==
    /\ r.rerr = None /\ c.rpc # "refuse"
    /\ c.fail = None \/ (c.rpc = "proc" /\ q[1].kind \in {"DATA", "RESET"})

\* The receiver of f takes it for a normal end of the data.
CleanEnd(f) ==
    \/ f.kind = "DATA" /\ "EOF" \in f.flags
    \/ f.kind = "RESET" /\ "WRITE" \in f.flags /\ f.err = "ECLOSED"

\* The frames q from s to r, whose connection is c.
Flow(s, r, c, q) ==
    /\ \A i \in 1..Len(q) :
          /\ q[i].err # "EOF"
          /\ CleanEnd(q[i]) =>
                s.werr = "ECLOSED" /\ (r.rerr = None => s.sent = s.whi)
          /\ q[i].kind = "RESET" /\ "READ" \in q[i].flags => s.rerr # None
    /\ r.rerr = None => s.wlo + s.wired = s.sent
    /\ Tracking(r, c, q) => \E p : Chain(p, r.got, s.sent, q)
    /\ r.rerr = "EOF" => s.werr = "ECLOSED" /\ r.rhi = s.whi

FlowInv ==
    \A x \in Side : /\ HistoryOK(st[x])
                    /\ Flow(st[x], st[Peer(x)], conn[Peer(x)], net[x])

-----------------------------------------------------------------------------
\* What a step may do to a flow

\* The sender goes on without sending: it may write while it is open, and its
\* buffer is only cleared once the receiver has given up.
WriterKeeps(s, t, r) ==
    /\ t.sent = s.sent
    /\ r.rerr = None => t.wlo + t.wired = s.wlo + s.wired
    /\ s.werr # None => t.werr = s.werr /\ t.whi = s.whi
    /\ s.rerr # None => t.rerr # None

\* The receiver goes on without receiving.
ReaderKeeps(r, t) ==
    /\ t.got = r.got /\ t.rhi = r.rhi
    /\ \/ t.rerr = r.rerr
       \/ r.rerr = None /\ t.rerr \notin {None, "EOF"}

\* The bytes stay in order when the sender does so
LEMMA FlowSender ==
    ASSUME NEW s, NEW t, NEW r, NEW c, NEW q, Flow(s, r, c, q),
           WriterKeeps(s, t, r)
    PROVE  Flow(t, r, c, q)
<1>1. "ECLOSED" # None /\ "EOF" # None
  BY DEF None
<1> QED
  BY <1>1 DEF Flow, WriterKeeps

\* and when the receiver does.
LEMMA FlowReceiver ==
    ASSUME NEW s, NEW t, NEW r, NEW c, NEW d, NEW q, Flow(s, r, c, q),
           ReaderKeeps(r, t), Tracking(t, d, q) => Tracking(r, c, q)
    PROVE  Flow(s, t, d, q)
<1>1. "EOF" # None
  BY DEF None
<1> QED
  BY <1>1 DEF Flow, ReaderKeeps

\* s becomes t and sends f.
LEMMA FlowAppend ==
    ASSUME NEW s, NEW t, NEW r, NEW c, NEW q \in Seq(Frame), NEW f \in Frame,
           IsStream(s), IsStream(t), IsStream(r),
           Flow(s, r, c, q),
           c.rpc = "proc" => q # <<>>,
           f.err # "EOF",
           CleanEnd(f) => t.werr = "ECLOSED" /\ (r.rerr = None => t.sent = t.whi),
           f.kind = "RESET" /\ "READ" \in f.flags => t.rerr # None,
           r.rerr = None => t.wlo + t.wired = t.sent,
           s.werr # None => t.werr = s.werr,
           s.rerr # None => t.rerr # None,
           t.whi = s.whi,
           s.sent = s.whi => t.sent = t.whi,
           IF f.kind = "DATA"
           THEN t.sent = s.sent + f.len /\ (f.len > 0 => f.pos = s.sent)
           ELSE t.sent = s.sent
    PROVE  Flow(t, r, c, Append(q, f))
<1> DEFINE n == Len(q)
           p == Append(q, f)
<1>1. /\ n \in Nat /\ Len(p) = n + 1 /\ p[n + 1] = f
      /\ \A i \in 1..n : p[i] = q[i]
      /\ \A i \in 1..Len(p) : i \in 1..n \/ i = n + 1
      /\ q # <<>> => p[1] = q[1]
  OBVIOUS
<1>2. f.len \in Nat /\ f.pos \in Int
  BY DEF Frame
<1>3. s.sent \in Nat /\ t.sent \in Nat
  BY DEF IsStream
<1> HIDE DEF p
<1>4. "ECLOSED" # None
  BY DEF None
<1>5. ASSUME NEW i \in 1..Len(p)
      PROVE  /\ p[i].err # "EOF"
             /\ CleanEnd(p[i]) =>
                   t.werr = "ECLOSED" /\ (r.rerr = None => t.sent = t.whi)
             /\ p[i].kind = "RESET" /\ "READ" \in p[i].flags => t.rerr # None
  <2>1. CASE i \in 1..n
    <3>1. p[i] = q[i]
      BY <1>1, <2>1
    <3> QED BY <1>4, <2>1, <3>1 DEF Flow
  <2>2. CASE i = n + 1
    BY <1>1, <2>2
  <2> QED BY <1>1, <2>1, <2>2
<1>6. ASSUME Tracking(r, c, p)
      PROVE  \E m : Chain(m, r.got, t.sent, p)
  <2>1. Tracking(r, c, q)
    BY <1>1, <1>6 DEF Tracking
  <2>2. PICK o : Chain(o, r.got, s.sent, q)
    BY <2>1 DEF Flow
  <2> DEFINE m == [i \in 0..(n + 1) |-> IF i <= n THEN o[i] ELSE t.sent]
  <2>3. /\ o \in [0..n -> Int] /\ o[0] = r.got
        /\ \A i \in 0..n : (\A j \in 1..n : i < j => q[j].kind # "DATA")
                              => o[i] = s.sent
    BY <2>2 DEF Chain
  <2>4. o[n] = s.sent
    BY <1>1, <2>3
  <2>5. /\ m \in [0..Len(p) -> Int] /\ m[n + 1] = t.sent
        /\ \A i \in 0..n : m[i] = o[i]
    BY <1>1, <1>3, <2>3
  <2> HIDE DEF m
  <2>6. m[0] = r.got
    BY <1>1, <2>3, <2>5
  <2>7. ASSUME NEW i \in 1..Len(p)
        PROVE  IF p[i].kind = "DATA"
               THEN /\ m[i] = m[i - 1] + p[i].len
                    /\ p[i].len > 0 => p[i].pos = m[i - 1]
               ELSE m[i] = m[i - 1]
    <3>1. CASE i \in 1..n
      <4>1. i \in 0..n /\ i - 1 \in 0..n /\ p[i] = q[i]
        BY <1>1, <3>1
      <4>2. m[i] = o[i] /\ m[i - 1] = o[i - 1]
        BY <2>5, <4>1
      <4> QED BY <2>2, <3>1, <4>1, <4>2 DEF Chain
    <3>2. CASE i = n + 1
      <4>1. m[i] = t.sent /\ m[i - 1] = s.sent /\ p[i] = f
        BY <1>1, <2>4, <2>5, <3>2
      <4> QED BY <4>1
    <3> QED BY <1>1, <3>1, <3>2
  <2>8. ASSUME NEW i \in 0..Len(p),
               \A j \in 1..Len(p) : i < j => p[j].kind # "DATA"
        PROVE  m[i] = t.sent
    <3>1. CASE i = n + 1
      BY <2>5, <3>1
    <3>2. CASE i \in 0..n
      <4>1. f.kind # "DATA"
        BY <1>1, <2>8, <3>2
      <4>2. \A j \in 1..n : i < j => q[j].kind # "DATA"
        BY <1>1, <2>8
      <4>3. m[i] = o[i] /\ o[i] = s.sent
        BY <2>3, <2>5, <3>2, <4>2
      <4> QED BY <4>1, <4>3
    <3> QED BY <1>1, <3>1, <3>2
  <2>9. Chain(m, r.got, t.sent, p)
    BY <2>5, <2>6, <2>7, <2>8 DEF Chain
  <2> QED BY <2>9
<1>7. r.rerr = "EOF" => t.werr = "ECLOSED" /\ r.rhi = t.whi
  BY <1>4 DEF Flow
<1> QED
  BY <1>5, <1>6, <1>7 DEF Flow, p

\* The chain without its first frame
LEMMA ChainTail ==
    ASSUME NEW p, NEW got, NEW sent, NEW q \in Seq(Frame), q # <<>>,
           Chain(p, got, sent, q)
    PROVE  /\ p[1] = IF q[1].kind = "DATA" THEN got + q[1].len ELSE got
           /\ q[1].kind = "DATA" /\ q[1].len > 0 => q[1].pos = got
           /\ (\A j \in 1..Len(q) : 1 < j => q[j].kind # "DATA") => p[1] = sent
           /\ \E m : Chain(m, p[1], sent, Tail(q))
<1> DEFINE n == Len(q)
           u == Tail(q)
           m == [i \in 0..(n - 1) |-> p[i + 1]]
<1>1. /\ n \in Nat /\ n >= 1 /\ Len(u) = n - 1
      /\ \A i \in 1..(n - 1) : u[i] = q[i + 1]
  OBVIOUS
<1>2. 1 \in 1..n /\ 1 - 1 = 0 /\ 0 \in 0..n /\ 1 \in 0..n
  BY <1>1
<1>3. p \in [0..n -> Int] /\ p[0] = got
  BY DEF Chain
<1>4. /\ p[1] = IF q[1].kind = "DATA" THEN got + q[1].len ELSE got
      /\ q[1].kind = "DATA" /\ q[1].len > 0 => q[1].pos = got
  BY <1>2, <1>3 DEF Chain
<1>5. (\A j \in 1..Len(q) : 1 < j => q[j].kind # "DATA") => p[1] = sent
  BY <1>2 DEF Chain
<1>6. /\ m \in [0..Len(u) -> Int] /\ m[0] = p[1]
      /\ \A i \in 0..(n - 1) : m[i] = p[i + 1]
  BY <1>1, <1>3
<1> HIDE DEF u, m
<1>7. ASSUME NEW i \in 1..Len(u)
      PROVE  IF u[i].kind = "DATA"
             THEN /\ m[i] = m[i - 1] + u[i].len
                  /\ u[i].len > 0 => u[i].pos = m[i - 1]
             ELSE m[i] = m[i - 1]
  <2>1. i + 1 \in 1..n /\ i \in 0..(n - 1) /\ i - 1 \in 0..(n - 1) /\ i \in 1..(n - 1)
    BY <1>1
  <2>2. (i + 1) - 1 = i /\ (i - 1) + 1 = i
    BY <1>1
  <2>3. m[i] = p[i + 1] /\ m[i - 1] = p[i] /\ u[i] = q[i + 1]
    BY <1>1, <1>6, <2>1, <2>2
  <2>4. IF q[i + 1].kind = "DATA"
        THEN /\ p[i + 1] = p[(i + 1) - 1] + q[i + 1].len
             /\ q[i + 1].len > 0 => q[i + 1].pos = p[(i + 1) - 1]
        ELSE p[i + 1] = p[(i + 1) - 1]
    BY <2>1 DEF Chain
  <2> QED BY <2>2, <2>3, <2>4
<1>8. ASSUME NEW i \in 0..Len(u),
             \A j \in 1..Len(u) : i < j => u[j].kind # "DATA"
      PROVE  m[i] = sent
  <2>1. i + 1 \in 0..n /\ i \in 0..(n - 1)
    BY <1>1
  <2>2. ASSUME NEW j \in 1..n, i + 1 < j
        PROVE  q[j].kind # "DATA"
    <3>1. j - 1 \in 1..Len(u) /\ i < j - 1 /\ (j - 1) + 1 = j /\ j - 1 \in 1..(n - 1)
      BY <1>1, <2>2
    <3>2. u[j - 1] = q[j]
      BY <1>1, <3>1
    <3> QED BY <1>8, <3>1, <3>2
  <2>3. p[i + 1] = sent
    BY <2>1, <2>2 DEF Chain
  <2> QED BY <1>6, <2>1, <2>3
<1>9. Chain(m, p[1], sent, u)
  BY <1>6, <1>7, <1>8, Zenon DEF Chain
<1> QED
  BY <1>4, <1>5, <1>9 DEF u

\* r becomes t and drops the first frame, or handles one without a payload.
LEMMA FlowTail ==
    ASSUME NEW s, NEW r, NEW t, NEW c, NEW d, NEW q \in Seq(Frame), q # <<>>,
           IsStream(r), Flow(s, r, c, q), ReaderKeeps(r, t),
           Tracking(t, d, Tail(q)) => Tracking(r, c, q) /\ q[1].kind # "DATA"
    PROVE  Flow(s, t, d, Tail(q))
<1> DEFINE u == Tail(q)
<1>1. \A i \in 1..Len(u) : i + 1 \in 1..Len(q) /\ u[i] = q[i + 1]
  OBVIOUS
<1> HIDE DEF u
<1>2. "EOF" # None
  BY DEF None
<1>3. ASSUME Tracking(t, d, u)
      PROVE  \E p : Chain(p, t.got, s.sent, u)
  <2>1. PICK p : Chain(p, r.got, s.sent, q)
    BY <1>3 DEF Flow, u
  <2>2. p[1] = r.got /\ \E m : Chain(m, p[1], s.sent, u)
    BY <1>3, <2>1, ChainTail DEF u
  <2> QED BY <2>2 DEF ReaderKeeps
<1>4. \A i \in 1..Len(u) :
          /\ u[i].err # "EOF"
          /\ CleanEnd(u[i]) =>
                s.werr = "ECLOSED" /\ (r.rerr = None => s.sent = s.whi)
          /\ u[i].kind = "RESET" /\ "READ" \in u[i].flags => s.rerr # None
  BY <1>1 DEF Flow
<1>5. t.rerr = None => r.rerr = None
  BY DEF ReaderKeeps
<1>6. t.rerr = "EOF" => s.werr = "ECLOSED" /\ t.rhi = s.whi
  BY <1>2 DEF ReaderKeeps, Flow
<1>7. r.rerr = None => s.wlo + s.wired = s.sent
  BY DEF Flow
<1> QED
  BY <1>3, <1>4, <1>5, <1>6, <1>7 DEF Flow, u

\* r becomes t by handling the frame at the head of q, which it had looked up:
\* a payload is appended if r can be read, and so is the end of the stream.
LEMMA FlowHandle ==
    ASSUME NEW s, NEW w, NEW r, NEW t, NEW c, NEW d, NEW q \in Seq(Frame),
           q # <<>>, IsStream(r), Flow(s, r, c, q), ChannelOK(s, w, r, q),
           HistoryOK(r),
           c.rpc = "proc", d.rpc = "idle", d.fail = c.fail,
           q[1].kind \in {"DATA", "RESET"},
           t.got = IF q[1].kind = "DATA" THEN r.got + q[1].len ELSE r.got,
           r.rerr # None => t.rerr = r.rerr /\ t.rhi = r.rhi,
           r.rerr = None => t.rhi = r.rhi + (t.got - r.got),
           r.rerr = None =>
              \/ t.rerr = None
              \/ t.rerr \notin {None, "EOF"}
              \/ t.rerr = "EOF" /\ CleanEnd(q[1])
    PROVE  Flow(s, t, d, Tail(q))
<1> DEFINE u == Tail(q)
           n == Len(q)
<1>1. \A i \in 1..Len(u) : i + 1 \in 1..Len(q) /\ u[i] = q[i + 1]
  OBVIOUS
<1>2. 1 \in 1..Len(q) /\ q[1] \in Frame
  OBVIOUS
<1> HIDE DEF u
<1>3. q[1].len \in Nat /\ r.got \in Nat /\ r.rhi \in Nat
  BY <1>2 DEF Frame, IsStream
<1>4. "EOF" # None /\ "refuse" # "proc"
  BY DEF None
<1>5. t.rerr = None => r.rerr = None
  OBVIOUS
<1>6. ASSUME r.rerr = None
      PROVE  \E p : Chain(p, r.got, s.sent, q)
  BY <1>6 DEF Tracking, Flow
<1>7. ASSUME Tracking(t, d, u)
      PROVE  \E p : Chain(p, t.got, s.sent, u)
  <2>1. PICK p : Chain(p, r.got, s.sent, q)
    BY <1>5, <1>6, <1>7 DEF Tracking
  <2>2. p[1] = t.got /\ \E m : Chain(m, p[1], s.sent, u)
    BY <2>1, ChainTail DEF u
  <2> QED BY <2>2
<1>8. \A i \in 1..Len(u) :
          /\ u[i].err # "EOF"
          /\ CleanEnd(u[i]) =>
                s.werr = "ECLOSED" /\ (r.rerr = None => s.sent = s.whi)
          /\ u[i].kind = "RESET" /\ "READ" \in u[i].flags => s.rerr # None
  BY <1>1 DEF Flow
<1>9. ASSUME t.rerr = "EOF"
      PROVE  s.werr = "ECLOSED" /\ t.rhi = s.whi
  <2>1. CASE r.rerr # None
    BY <1>9, <2>1 DEF Flow
  <2>2. CASE r.rerr = None
    <3>1. CleanEnd(q[1]) /\ Ends(q[1])
      BY <1>4, <1>9, <2>2 DEF CleanEnd, Ends
    <3>2. s.werr = "ECLOSED" /\ s.sent = s.whi
      BY <1>2, <2>2, <3>1 DEF Flow
    <3>3. \A j \in 1..Len(q) : 1 < j => q[j].kind # "DATA"
      BY <1>2, <3>1 DEF ChannelOK, EOFOK
    <3>4. PICK p : Chain(p, r.got, s.sent, q)
      BY <1>6, <2>2
    <3>5. t.got = s.sent
      BY <3>3, <3>4, ChainTail
    <3>6. r.rhi = r.got
      BY <2>2 DEF HistoryOK
    <3> QED BY <1>3, <2>2, <3>2, <3>5, <3>6
  <2> QED BY <2>1, <2>2
<1>10. r.rerr = None => s.wlo + s.wired = s.sent
  BY DEF Flow
<1> QED
  BY <1>5, <1>7, <1>8, <1>9, <1>10 DEF Flow, u

-----------------------------------------------------------------------------
\* What a step may do to one end

\* A writer writes or stops; a reader gets bytes, ends or stops.
WriterMoves(s, t) ==
    \/ t.werr = s.werr /\ t.whi = s.whi
    \/ s.werr = None /\ t.werr # None /\ t.whi = s.whi
    \/ s.werr = None /\ t.werr = None /\ t.whi > s.whi

ReaderMoves(s, t) ==
    \/ t.rerr = s.rerr /\ t.rhi = s.rhi
    \/ s.rerr = None /\ t.rerr \notin {None, "EOF"} /\ t.rhi = s.rhi
    \/ s.rerr = None /\ t.rerr = None /\ t.rhi > s.rhi
    \/ s.rerr = None /\ t.rerr = "EOF"

\* Neither sends nor receives.
Quiet(s, t) ==
    /\ t.sent = s.sent /\ t.wlo + t.wired = s.wlo + s.wired
    /\ WriterMoves(s, t)
    /\ ReaderKeeps(s, t)
    /\ t.serr = s.serr \/ t.rerr # None

\* Such a step keeps the history of the stream and its order.
LEMMA QuietKeeps ==
    ASSUME NEW s, NEW t, IsStream(s), IsStream(t), Quiet(s, t), HistoryOK(s)
    PROVE  /\ HistoryOK(t)
           /\ \A r : WriterKeeps(s, t, r)
           /\ ReaderMoves(s, t)
BY DEF Quiet, IsStream, WriterMoves, ReaderKeeps, HistoryOK, WriterKeeps, ReaderMoves

\* newIncomingStream changes nothing of this.
LEMMA QuietIncoming ==
    ASSUME NEW s, IsStream(s), NEW t, Quiet(NewIncoming(s), t)
    PROVE  Quiet(s, t) /\ IsStream(NewIncoming(s))
<1> DEFINE n == NewIncoming(s)
<1>1. /\ IsStream(n)
      /\ n.sent = s.sent /\ n.wlo = s.wlo /\ n.wired = s.wired
      /\ n.whi = s.whi /\ n.werr = s.werr /\ n.rerr = s.rerr
      /\ n.got = s.got /\ n.rhi = s.rhi /\ n.serr = s.serr
  BY DEF NewIncoming, IsStream, StreamField
<1> HIDE DEF n
<1>2. Quiet(n, t)
  BY DEF n
<1> QED
  BY <1>1, <1>2 DEF Quiet, WriterMoves, ReaderKeeps, n

\* The parts that matter here are the same.
LEMMA QuietMethods ==
    ASSUME NEW s, IsStream(s)
    PROVE  /\ Quiet(s, AfterWrite(s))
           /\ Quiet(s, DiscardStream(s))
           /\ \A n : Quiet(s, ChangeWriteWindow(s, n))
           /\ \A n : Quiet(s, ReadBytes(s, n))
           /\ \A n \in Nat \ {0} : s.werr = None => Quiet(s, WriteBytes(s, n))
           /\ Quiet(s, AcknowledgeStream(s))
           /\ Quiet(s, NewIncoming(s))
           /\ Quiet(s, NewOutgoing(s))
           /\ Quiet(s, s)
<1> USE DEF IsStream, StreamField, Quiet, WriterMoves, ReaderKeeps
<1>1. Quiet(s, AfterWrite(s))
  BY DEF AfterWrite
<1>2. Quiet(s, DiscardStream(s))
  BY DEF DiscardStream, Cleanup
<1>3. \A n : Quiet(s, ChangeWriteWindow(s, n)) /\ Quiet(s, ReadBytes(s, n))
  BY DEF ChangeWriteWindow, ReadBytes
<1>4. \A n \in Nat \ {0} : s.werr = None => Quiet(s, WriteBytes(s, n))
  BY DEF WriteBytes
<1>5. Quiet(s, AcknowledgeStream(s))
  BY DEF AcknowledgeStream
<1>6. Quiet(s, NewIncoming(s)) /\ Quiet(s, NewOutgoing(s)) /\ Quiet(s, s)
  BY DEF NewIncoming, NewOutgoing
<1> QED
  BY <1>1, <1>2, <1>3, <1>4, <1>5, <1>6, ZenonT(30)

\* Scheduling and waiting
LEMMA QuietFields ==
    ASSUME NEW s, IsStream(s), NEW v
    PROVE  /\ Quiet(s, [s EXCEPT !.queued = v])
           /\ Quiet(s, [s EXCEPT !.rwait = v])
           /\ Quiet(s, [s EXCEPT !.wwait = v])
BY DEF IsStream, StreamField, Quiet, WriterMoves, ReaderKeeps

\* Closing.  Only the end of the remote's data is reported as io.EOF.
LEMMA QuietClose ==
    ASSUME NEW s, IsStream(s), NEW e \in Error
    PROVE  /\ e # "EOF" => Quiet(s, SetReadError(s, e))
           /\ Quiet(s, SetWriteError(s, e))
           /\ Quiet(s, CloseWithError(s, e))
           /\ s.serr = None => CloseWithError(s, e).rerr # None
           /\ IsStream(CloseWithError(s, e))
<1> USE DEF IsStream, StreamField, Quiet, WriterMoves, ReaderKeeps
<1>1. e # None
  BY DEF Error, ProtocolError, None
<1>2. e # "EOF" => Quiet(s, SetReadError(s, e))
  BY <1>1 DEF SetReadError
<1>3. Quiet(s, SetWriteError(s, e))
  BY <1>1 DEF SetWriteError
<1> DEFINE k == CloseErr(e)
           a == [s EXCEPT !.serr = k]
           b == SetReadError(a, k)
           t == SetWriteError(b, k)
<1>4. k \in Error /\ k # "EOF" /\ k # None
  BY <1>1 DEF CloseErr, Error, ProtocolError, None
<1> HIDE DEF k
<1>5. /\ IsStream(a)
      /\ a.sent = s.sent /\ a.wlo = s.wlo /\ a.wired = s.wired
      /\ a.whi = s.whi /\ a.werr = s.werr /\ a.rerr = s.rerr
      /\ a.got = s.got /\ a.rhi = s.rhi
  BY <1>4
<1> HIDE DEF a
<1>6. /\ IsStream(b)
      /\ b.sent = s.sent /\ b.wlo = s.wlo /\ b.wired = s.wired
      /\ b.whi = s.whi /\ b.werr = s.werr
      /\ b.rerr = (IF s.rerr = None THEN k ELSE s.rerr)
      /\ b.got = s.got /\ b.rhi = s.rhi
  BY <1>4, <1>5 DEF SetReadError, Flag, Ctrl, Queue
<1> HIDE DEF b
<1>7. /\ IsStream(t)
      /\ t.sent = s.sent /\ t.wlo = s.wlo /\ t.wired = s.wired
      /\ t.whi = s.whi /\ t.werr = (IF s.werr = None THEN k ELSE s.werr)
      /\ t.rerr = (IF s.rerr = None THEN k ELSE s.rerr)
      /\ t.got = s.got /\ t.rhi = s.rhi
  BY <1>4, <1>6 DEF SetWriteError, Flag, Ctrl, Queue
<1> HIDE DEF t
<1>8. Quiet(s, t) /\ t.rerr # None
  BY <1>4, <1>7
<1>9. CloseWithError(s, e) = IF s.serr # None THEN s ELSE t
  BY DEF CloseWithError, a, b, t, k
<1>10. Quiet(s, s)
  BY Zenon
<1> HIDE DEF Quiet, IsStream
<1> QED
  BY <1>2, <1>3, <1>7, <1>8, <1>9, <1>10

\* processDataLocked and processResetFrame, as FlowHandle needs them.
LEMMA HandleMethods ==
    ASSUME NEW s, NEW w, StreamInv(s, w), NEW f \in Frame, f.err # "EOF",
           HistoryOK(s)
    PROVE  /\ f.kind = "DATA" /\ DataError(s, f) = None =>
              LET t == ProcessData(s, f)
              IN /\ t.got = s.got + f.len
                 /\ t.sent = s.sent /\ t.wlo = s.wlo /\ t.wired = s.wired
                 /\ t.werr = s.werr /\ t.whi = s.whi /\ t.serr = s.serr
                 /\ s.rerr # None => t.rerr = s.rerr /\ t.rhi = s.rhi
                 /\ s.rerr = None =>
                       /\ t.rhi = s.rhi + f.len
                       /\ t.rerr = IF "EOF" \in f.flags THEN "EOF" ELSE None
           /\ f.kind = "RESET" /\ f.err # None =>
              LET t == ProcessReset(s, f)
              IN /\ t.got = s.got /\ t.rhi = s.rhi
                 /\ t.sent = s.sent /\ t.whi = s.whi /\ t.serr = s.serr
                 /\ "READ" \notin f.flags =>
                       /\ t.wlo = s.wlo /\ t.wired = s.wired
                       /\ t.werr = s.werr
                 /\ s.werr # None => t.werr = s.werr
                 /\ s.rerr # None => t.rerr = s.rerr
                 /\ s.rerr = None =>
                       t.rerr = IF "WRITE" \in f.flags
                                THEN IF f.err = "ECLOSED" THEN "EOF" ELSE f.err
                                ELSE None
<1> USE DEF StreamField
<1>1. ASSUME NEW b, DOMAIN b = StreamField, NEW e
      PROVE  LET t == SeeEOF(b, e)
             IN /\ t.got = b.got /\ t.rhi = b.rhi /\ t.sent = b.sent
                /\ t.wlo = b.wlo /\ t.wired = b.wired /\ t.whi = b.whi
                /\ t.werr = b.werr /\ t.serr = b.serr
                /\ t.rerr = IF b.rerr = None THEN e ELSE b.rerr
  BY <1>1, Zenon DEF SeeEOF, SetReadError, Cleanup
<1>2. DOMAIN s = StreamField
  BY Zenon DEF StreamInv, IsStream
<1>3. ASSUME f.kind = "DATA", DataError(s, f) = None
      PROVE  LET t == ProcessData(s, f)
             IN /\ t.got = s.got + f.len
                /\ t.sent = s.sent /\ t.wlo = s.wlo /\ t.wired = s.wired
                /\ t.werr = s.werr /\ t.whi = s.whi /\ t.serr = s.serr
                /\ s.rerr # None => t.rerr = s.rerr /\ t.rhi = s.rhi
                /\ s.rerr = None =>
                      /\ t.rhi = s.rhi + f.len
                      /\ t.rerr = IF "EOF" \in f.flags THEN "EOF" ELSE None
  <2> DEFINE a == IF "ACK" \in f.flags THEN SeeAck(s) ELSE s
             b == AcceptPayload(a, f.len)
  <2>1. /\ DOMAIN a = StreamField
        /\ a.got = s.got /\ a.rhi = s.rhi /\ a.sent = s.sent
        /\ a.wlo = s.wlo /\ a.wired = s.wired /\ a.whi = s.whi
        /\ a.werr = s.werr /\ a.serr = s.serr /\ a.rerr = s.rerr
    BY <1>2 DEF SeeAck
  <2> HIDE DEF a
  <2>2. /\ DOMAIN b = StreamField
        /\ b.got = s.got + f.len /\ b.sent = s.sent
        /\ b.wlo = s.wlo /\ b.wired = s.wired /\ b.whi = s.whi
        /\ b.werr = s.werr /\ b.serr = s.serr /\ b.rerr = s.rerr
        /\ b.rhi = IF s.rerr = None THEN s.rhi + f.len ELSE s.rhi
    BY <2>1 DEF AcceptPayload
  <2> HIDE DEF b
  <2>3. ProcessData(s, f) = IF "EOF" \in f.flags THEN SeeEOF(b, "EOF") ELSE b
    BY <1>3, Zenon DEF ProcessData, None, a, b
  <2> QED BY <1>1, <2>2, <2>3
<1>4. ASSUME f.kind = "RESET", f.err # None
      PROVE  LET t == ProcessReset(s, f)
             IN /\ t.got = s.got /\ t.rhi = s.rhi
                /\ t.sent = s.sent /\ t.whi = s.whi /\ t.serr = s.serr
                /\ "READ" \notin f.flags =>
                      /\ t.wlo = s.wlo /\ t.wired = s.wired
                      /\ t.werr = s.werr
                /\ s.werr # None => t.werr = s.werr
                /\ s.rerr # None => t.rerr = s.rerr
                /\ s.rerr = None =>
                      t.rerr = IF "WRITE" \in f.flags
                               THEN IF f.err = "ECLOSED" THEN "EOF" ELSE f.err
                               ELSE None
  <2> DEFINE clear == ClearWriteBuffer([s EXCEPT !.flags = @ \cup {"SeenReset"}])
             cut == IF "READ" \in f.flags THEN SetWriteError(clear, f.err) ELSE s
             err == IF f.err = "ECLOSED" THEN "EOF" ELSE f.err
  <2>1. /\ DOMAIN clear = StreamField
        /\ clear.got = s.got /\ clear.rhi = s.rhi /\ clear.sent = s.sent
        /\ clear.whi = s.whi /\ clear.werr = s.werr /\ clear.serr = s.serr
        /\ clear.rerr = s.rerr
    BY <1>2 DEF ClearWriteBuffer
  <2> HIDE DEF clear
  <2>2. /\ DOMAIN cut = StreamField
        /\ cut.got = s.got /\ cut.rhi = s.rhi /\ cut.sent = s.sent
        /\ cut.whi = s.whi /\ cut.serr = s.serr /\ cut.rerr = s.rerr
        /\ s.werr # None => cut.werr = s.werr
        /\ "READ" \notin f.flags => cut = s
    BY <1>2, <2>1 DEF SetWriteError
  <2>3. ProcessReset(s, f) = IF "WRITE" \in f.flags THEN SeeEOF(cut, err) ELSE cut
    BY Zenon DEF ProcessReset, clear
  <2> HIDE DEF cut, err
  <2> QED BY <1>1, <2>2, <2>3 DEF err
<1> QED
  BY <1>3, <1>4

-----------------------------------------------------------------------------
\* Steps of the connection.  Each keeps the flows in order, and moves the ends
\* of one side as an application may see them move.

Moved ==
    \E x \in Side : /\ st'[Peer(x)] = st[Peer(x)]
                    /\ WriterMoves(st[x], st'[x])
                    /\ ReaderMoves(st[x], st'[x])

\* What the invariants say of side x and its peer.
LEMMA FlowAt ==
    ASSUME Inv, FlowInv, NEW x \in Side
    PROVE  LET y == Peer(x)
           IN /\ StreamInv(st[x], conn[x].wpc) /\ IsStream(st[x])
              /\ IsStream(st[y]) /\ IsConn(conn[x])
              /\ HistoryOK(st[x])
              /\ Flow(st[x], st[y], conn[y], net[x])
              /\ Flow(st[y], st[x], conn[x], net[y])
              /\ ChannelOK(st[y], conn[y].wpc, st[x], net[y])
              /\ net[x] \in Seq(Frame) /\ net[y] \in Seq(Frame)
              /\ conn[y].rpc = "proc" => net[x] # <<>>
              /\ conn[x].rpc = "proc" => net[y] # <<>>
<1>1. /\ Peer(x) \in Side /\ Peer(Peer(x)) = x
  BY Sides
<1>2. EndOK(st[Peer(x)], conn[Peer(x)], net[x])
  BY <1>1, InvAt
<1>3. EndOK(st[x], conn[x], net[Peer(x)])
  BY InvAt
<1>4. /\ HistoryOK(st[x]) /\ Flow(st[x], st[Peer(x)], conn[Peer(x)], net[x])
      /\ Flow(st[Peer(x)], st[x], conn[x], net[Peer(x)])
  BY <1>1 DEF FlowInv
<1> QED
  BY <1>2, <1>3, <1>4, InvAt DEF EndOK, ConnOK

\* Side x's end becomes t, its connection c, what it has sent qx and what it
\* has yet to handle qy.
LEMMA FlowStep ==
    ASSUME Inv, FlowInv, NEW x \in Side, NEW t, NEW c, NEW qx, NEW qy,
           StBecomes(x, t), ConnBecomes(x, c), NetBecomes(x, qx, qy),
           HistoryOK(t),
           Flow(t, st[Peer(x)], conn[Peer(x)], qx),
           Flow(st[Peer(x)], t, c, qy),
           WriterMoves(st[x], t), ReaderMoves(st[x], t)
    PROVE  FlowInv' /\ Moved
<1> DEFINE y == Peer(x)
<1>1. y \in Side /\ Peer(y) = x /\ \A z \in Side : z = x \/ z = y
  BY Sides
<1>2. /\ st'[x] = t /\ st'[y] = st[y] /\ conn'[x] = c /\ conn'[y] = conn[y]
      /\ net'[x] = qx /\ net'[y] = qy
  BY DEF StBecomes, ConnBecomes, NetBecomes
<1>3. HistoryOK(st[y])
  BY <1>1, Zenon DEF FlowInv
<1> HIDE DEF y
<1>4. \A z \in Side : /\ HistoryOK(st'[z])
                      /\ Flow(st'[z], st'[Peer(z)], conn'[Peer(z)], net'[z])
  BY <1>1, <1>2, <1>3 DEF y
<1>5. FlowInv'
  BY <1>4, Zenon DEF FlowInv, HistoryOK, Flow, CleanEnd, Tracking, Chain
<1>6. Moved
  BY <1>2, Zenon DEF Moved, y
<1> QED
  BY <1>5, <1>6

\* A step on one side that sends and handles nothing.
LEMMA QuietStep ==
    ASSUME Inv, FlowInv, NEW x \in Side, NEW t, NEW c,
           StBecomes(x, t), ConnBecomes(x, c), net' = net,
           IsStream(t), Quiet(st[x], t),
           Tracking(t, c, net[Peer(x)]) => Tracking(st[x], conn[x], net[Peer(x)])
    PROVE  FlowInv' /\ Moved
<1> DEFINE y == Peer(x)
<1>1. /\ IsStream(st[x]) /\ HistoryOK(st[x])
      /\ Flow(st[x], st[y], conn[y], net[x])
      /\ Flow(st[y], st[x], conn[x], net[y])
  BY FlowAt, Zenon
<1>2. /\ HistoryOK(t) /\ \A r : WriterKeeps(st[x], t, r)
      /\ ReaderMoves(st[x], t) /\ ReaderKeeps(st[x], t) /\ WriterMoves(st[x], t)
  BY <1>1, QuietKeeps, Zenon DEF Quiet
<1>3. Flow(t, st[y], conn[y], net[x])
  BY <1>1, <1>2, FlowSender, Zenon
<1>4. Flow(st[y], t, c, net[y])
  BY <1>1, <1>2, FlowReceiver, Zenon
<1>5. NetBecomes(x, net[x], net[y])
  BY Becomes, Zenon
<1> QED
  BY <1>2, <1>3, <1>4, <1>5, FlowStep, Zenon

\* The same, while a frame that brings no payload is handled, or one of any
\* kind is dropped because nothing is expected of this end any more.
LEMMA DropQuietly ==
    ASSUME Inv, FlowInv, NEW x \in Side, NEW t, NEW c, net[Peer(x)] # <<>>,
           StBecomes(x, t), ConnBecomes(x, c), Consume(x),
           IsStream(t), Quiet(st[x], t),
           Tracking(t, c, Tail(net[Peer(x)])) =>
              /\ Tracking(st[x], conn[x], net[Peer(x)])
              /\ net[Peer(x)][1].kind # "DATA"
    PROVE  FlowInv' /\ Moved
<1> DEFINE y == Peer(x)
<1>1. /\ IsStream(st[x]) /\ HistoryOK(st[x]) /\ net[y] \in Seq(Frame)
      /\ Flow(st[x], st[y], conn[y], net[x])
      /\ Flow(st[y], st[x], conn[x], net[y])
  BY FlowAt, Zenon
<1>2. /\ HistoryOK(t) /\ \A r : WriterKeeps(st[x], t, r)
      /\ ReaderMoves(st[x], t) /\ ReaderKeeps(st[x], t) /\ WriterMoves(st[x], t)
  BY <1>1, QuietKeeps, Zenon DEF Quiet
<1>3. Flow(t, st[y], conn[y], net[x])
  BY <1>1, <1>2, FlowSender, Zenon
<1>4. Flow(st[y], t, c, Tail(net[y]))
  BY <1>1, <1>2, FlowTail, Zenon
<1>5. NetBecomes(x, net[x], Tail(net[y]))
  BY Becomes, Zenon
<1> QED
  BY <1>2, <1>3, <1>4, <1>5, FlowStep, Zenon

\* The write loop, once it has the lock: the stream it finds is s, and it
\* becomes t while f is sent.
LEMMA SendQuietly ==
    ASSUME Inv, FlowInv, NEW x \in Side, NEW s, NEW t, NEW v, NEW f \in Frame,
           IsStream(s), Quiet(st[x], s), s.whi = st[x].whi, s.werr = st[x].werr,
           IsStream(t), StBecomes(x, t), GotoW(x, v), Send(x, f),
           t.got = s.got /\ t.rhi = s.rhi /\ t.rerr = s.rerr,
           t.whi = s.whi /\ t.werr = s.werr /\ t.serr = s.serr,
           t.sent <= t.whi,
           f.err # "EOF",
           f.kind = "RESET" /\ "READ" \in f.flags => t.rerr # None,
           s.wlo + s.wired = s.sent =>
              /\ t.wlo + t.wired = t.sent
              /\ CleanEnd(f) => t.sent = t.whi,
           CleanEnd(f) => t.werr = "ECLOSED",
           s.sent = s.whi => t.sent = t.whi,
           IF f.kind = "DATA"
           THEN t.sent = s.sent + f.len /\ (f.len > 0 => f.pos = s.sent)
           ELSE t.sent = s.sent
    PROVE  FlowInv' /\ Moved
<1> DEFINE y == Peer(x)
           c == [conn[x] EXCEPT !.wpc = v]
<1>1. /\ IsStream(st[x]) /\ HistoryOK(st[x]) /\ IsStream(st[y]) /\ IsConn(conn[x])
      /\ Flow(st[x], st[y], conn[y], net[x])
      /\ Flow(st[y], st[x], conn[x], net[y])
      /\ net[x] \in Seq(Frame)
      /\ conn[y].rpc = "proc" => net[x] # <<>>
  BY FlowAt
<1>2. /\ HistoryOK(s) /\ \A r : WriterKeeps(st[x], s, r)
      /\ ReaderKeeps(st[x], s)
  BY <1>1, QuietKeeps, Zenon DEF Quiet
<1>3. Flow(s, st[y], conn[y], net[x])
  BY <1>1, <1>2, FlowSender, Zenon
<1>4. st[y].rerr = None => s.wlo + s.wired = s.sent
  BY <1>3 DEF Flow
<1>5. Flow(t, st[y], conn[y], Append(net[x], f))
  BY <1>1, <1>3, <1>4, FlowAppend, Zenon
<1>6. ReaderKeeps(st[x], t) /\ HistoryOK(t)
  BY <1>2 DEF ReaderKeeps, HistoryOK
<1>7. c.rpc = conn[x].rpc /\ c.fail = conn[x].fail
  BY <1>1 DEF IsConn
<1>8. ConnBecomes(x, c) /\ NetBecomes(x, Append(net[x], f), net[y])
  BY Becomes, Zenon DEF GotoW
<1> HIDE DEF c
<1>9. Tracking(t, c, net[y]) => Tracking(st[x], conn[x], net[y])
  BY <1>6, <1>7, Zenon DEF Tracking, ReaderKeeps
<1>10. Flow(st[y], t, c, net[y])
  BY <1>1, <1>6, <1>9, FlowReceiver, Zenon
<1>11. WriterMoves(st[x], t) /\ ReaderMoves(st[x], t)
  BY <1>6, Zenon DEF WriterMoves, ReaderMoves, ReaderKeeps
<1> QED
  BY <1>5, <1>6, <1>8, <1>10, <1>11, FlowStep, Zenon

-----------------------------------------------------------------------------
\* The write loop

\* prepareDataLocked and outgoingFlags, as SendQuietly needs them.
LEMMA DataMethods ==
    ASSUME NEW s, NEW w, StreamInv(s, w), s.wired = 0, HistoryOK(s)
    PROVE  LET p == PrepareData(s)
               n == PayloadSize(s)
               t == AfterOutgoingFlags(p)
           IN /\ n \in Nat
              /\ t.got = s.got /\ t.rhi = s.rhi /\ t.rerr = s.rerr
              /\ t.whi = s.whi /\ t.werr = s.werr /\ t.serr = s.serr
              /\ t.sent = s.sent + n /\ t.sent <= t.whi
              /\ n > 0 => s.wlo = s.sent
              /\ s.wlo + s.wired = s.sent => t.wlo + t.wired = t.sent
              /\ s.sent = s.whi => t.sent = t.whi
              /\ "EOF" \in OutgoingFlags(p) =>
                    /\ t.werr = "ECLOSED"
                    /\ s.wlo + s.wired = s.sent => t.sent = t.whi
<1> DEFINE p == PrepareData(s)
           n == PayloadSize(s)
           t == AfterOutgoingFlags(p)
<1>1. /\ s.wlo \in Nat /\ s.whi \in Nat /\ s.wleft \in Nat /\ s.sent \in Nat
      /\ DOMAIN s = StreamField /\ s.wlo <= s.whi
      /\ s.whi - s.wlo > 0 => s.wlo = s.sent
      /\ s.sent <= s.whi
  BY DEF StreamInv, IsStream, BufferOK, Buffered, HistoryOK
<1>2. n \in Nat /\ n <= s.whi - s.wlo
  BY <1>1, SizesArePositive DEF PayloadSize, Least, Buffered
<1> HIDE DEF n
<1>3. /\ DOMAIN p = StreamField
      /\ p.got = s.got /\ p.rhi = s.rhi /\ p.rerr = s.rerr
      /\ p.whi = s.whi /\ p.werr = s.werr /\ p.serr = s.serr
      /\ p.sent = s.sent + n /\ p.wlo = s.wlo /\ p.wired = n
  BY <1>1, <1>2 DEF PrepareData, n, StreamField
<1> HIDE DEF p
<1>4. /\ t.got = p.got /\ t.rhi = p.rhi /\ t.rerr = p.rerr
      /\ t.whi = p.whi /\ t.werr = p.werr /\ t.serr = p.serr
      /\ t.sent = p.sent /\ t.wlo = p.wlo /\ t.wired = p.wired
  BY <1>3 DEF AfterOutgoingFlags, Cleanup, StreamField
<1>5. "EOF" \in OutgoingFlags(p) => p.werr = "ECLOSED" /\ p.whi - p.wlo = p.wired
  BY DEF OutgoingFlags, ActiveEOF, Buffered
<1> HIDE DEF t
<1>6. n > 0 => s.wlo = s.sent
  BY <1>1, <1>2
<1>7. t.sent <= t.whi /\ (s.sent = s.whi => t.sent = t.whi)
  BY <1>1, <1>2, <1>3, <1>4, <1>6
<1>8. s.wlo + s.wired = s.sent => t.wlo + t.wired = t.sent
  BY <1>1, <1>2, <1>3, <1>4
<1>9. "EOF" \in OutgoingFlags(p) =>
         /\ t.werr = "ECLOSED"
         /\ s.wlo + s.wired = s.sent => t.sent = t.whi
  BY <1>1, <1>2, <1>3, <1>4, <1>5
<1> QED
  BY <1>2, <1>3, <1>4, <1>6, <1>7, <1>8, <1>9, Zenon DEF p, n, t

\* The stream as writeCtrl finds it.
LEMMA RelockedQuiet ==
    ASSUME Inv, FlowInv, NEW x \in Side, InCtrl(x)
    PROVE  LET s == Relocked(x)
           IN /\ StreamInv(s, "loop") /\ IsStream(s) /\ HistoryOK(s)
              /\ s.wired = 0 /\ Quiet(st[x], s)
              /\ s.whi = st[x].whi /\ s.werr = st[x].werr
<1> DEFINE s == Relocked(x)
<1>1. StreamInv(s, "loop") /\ s.wired = 0
  BY RelockedInv, Zenon
<1>2. IsStream(s) /\ IsStream(st[x]) /\ HistoryOK(st[x])
  BY <1>1, FlowAt, Zenon DEF StreamInv
<1>3. Quiet(st[x], s)
  BY <1>2, QuietMethods, Zenon DEF Relocked
<1>4. s.whi = st[x].whi /\ s.werr = st[x].werr
  BY <1>2 DEF Relocked, AfterWrite, IsStream, StreamField
<1> HIDE DEF s
<1>5. HistoryOK(s)
  BY <1>2, <1>3, QuietKeeps
<1> QED
  BY <1>1, <1>2, <1>3, <1>4, <1>5 DEF s

\* writeCtrl sends what goes with a DATA frame, and writeData a payload.
LEMMA DataFlow ==
    ASSUME Inv, FlowInv, NEW x \in Side, CtrlData(x) \/ WriteData(x)
    PROVE  FlowInv' /\ Moved
<1>1. ASSUME NEW s, NEW w, NEW u, NEW v,
             StreamInv(s, w), s.wired = 0, HistoryOK(s), Quiet(st[x], s),
             s.whi = st[x].whi, s.werr = st[x].werr,
             "SentEOF" \notin s.flags, s.where # "none",
             \/ u = AfterOutgoingFlags(PrepareData(s))
             \/ u = Reschedule(AfterOutgoingFlags(PrepareData(s))),
             StBecomes(x, u), GotoW(x, v),
             Send(x, DataFrame(s, OutgoingFlags(PrepareData(s)), PayloadSize(s)))
      PROVE  FlowInv' /\ Moved
  <2> DEFINE p == PrepareData(s)
             n == PayloadSize(s)
             t == AfterOutgoingFlags(p)
             f == DataFrame(s, OutgoingFlags(p), n)
  <2>1. /\ n \in Nat
        /\ t.got = s.got /\ t.rhi = s.rhi /\ t.rerr = s.rerr
        /\ t.whi = s.whi /\ t.werr = s.werr /\ t.serr = s.serr
        /\ t.sent = s.sent + n /\ t.sent <= t.whi
        /\ n > 0 => s.wlo = s.sent
        /\ s.wlo + s.wired = s.sent => t.wlo + t.wired = t.sent
        /\ s.sent = s.whi => t.sent = t.whi
        /\ "EOF" \in OutgoingFlags(p) =>
              /\ t.werr = "ECLOSED"
              /\ s.wlo + s.wired = s.sent => t.sent = t.whi
    BY <1>1, DataMethods, Zenon
  <2>2. StreamInv(t, "dataWrite") /\ OutgoingFlags(p) \subseteq {"OPEN", "ACK", "EOF"}
    BY <1>1, PrepareDataInv
  <2>3. IsStream(t) /\ IsStream(s) /\ s.wlo \in Nat
    BY <1>1, <2>2, Zenon DEF StreamInv, IsStream
  <2>4. /\ f \in Frame /\ f.kind = "DATA" /\ f.len = n /\ f.pos = s.wlo
        /\ f.flags = OutgoingFlags(p) /\ f.err = None
    BY <2>1, <2>2, <2>3 DEF DataFrame, Frame
  <2>5. CleanEnd(f) => "EOF" \in OutgoingFlags(p)
    BY <2>4, Zenon DEF CleanEnd
  <2>6. f.err # "EOF" /\ f.kind # "RESET"
    BY <2>4 DEF None
  <2> HIDE DEF p, n, t
  <2>7. /\ IsStream(u)
        /\ u.got = t.got /\ u.rhi = t.rhi /\ u.rerr = t.rerr
        /\ u.whi = t.whi /\ u.werr = t.werr /\ u.serr = t.serr
        /\ u.sent = t.sent /\ u.wlo = t.wlo /\ u.wired = t.wired
    <3>1. u = t \/ u = Reschedule(t)
      BY <1>1, Zenon DEF t, p
    <3> QED BY <2>3, <3>1 DEF Reschedule, IsStream, StreamField, Queue, Ctrl
  <2>8. Send(x, f)
    BY <1>1, Zenon DEF f, n, p
  <2> HIDE DEF f
  <2> QED
    BY <1>1, <2>1, <2>3, <2>4, <2>5, <2>6, <2>7, <2>8, SendQuietly, ZenonT(30)
<1>2. CASE CtrlData(x)
  <2> DEFINE s == Relocked(x)
             u == AfterOutgoingFlags(PrepareData(s))
  <2>1. /\ StBecomes(x, u) /\ GotoW(x, "ctrlWrite") /\ InCtrl(x)
        /\ Send(x, DataFrame(s, OutgoingFlags(PrepareData(s)), PayloadSize(s)))
        /\ "SentEOF" \notin s.flags
    BY <1>2, Becomes, Zenon DEF CtrlData, NeedsDataCtrl
  <2>2. /\ StreamInv(s, "loop") /\ HistoryOK(s) /\ s.wired = 0
        /\ Quiet(st[x], s) /\ s.whi = st[x].whi /\ s.werr = st[x].werr
    BY <2>1, RelockedQuiet, Zenon
  <2>3. s.where # "none"
    BY <2>1, RelockedInv, Zenon DEF Same, Made
  <2> HIDE DEF s
  <2> QED BY <1>1, <2>1, <2>2, <2>3
<1>3. CASE WriteData(x)
  <2> DEFINE s == st[x]
             u == Reschedule(AfterOutgoingFlags(PrepareData(s)))
  <2>1. /\ StBecomes(x, u) /\ GotoW(x, "dataWrite")
        /\ Send(x, DataFrame(s, OutgoingFlags(PrepareData(s)), PayloadSize(s)))
        /\ conn[x].wpc = "data" /\ PayloadSize(s) > 0
    BY <1>3, Becomes, Zenon DEF WriteData
  <2>2. /\ StreamInv(s, "data") /\ HistoryOK(s) /\ IsStream(s)
    BY <2>1, FlowAt, Zenon
  <2>3. s.wired = 0
    BY <2>2, NothingWired, Zenon
  <2>4. Untouched(s, "data")
    BY <2>1, InvAt DEF EndOK
  <2>5. s.where # "none"
    BY <2>4 DEF Untouched
  <2>6. Quiet(st[x], s)
    BY <2>2, QuietMethods, Zenon
  <2>7. "SentEOF" \notin s.flags
    <3>1. Buffered(s) \in Int /\ s.wleft \in Nat
      BY <2>2 DEF IsStream, Buffered
    <3>2. Buffered(s) > 0
      BY <2>1, <3>1, SizesArePositive DEF PayloadSize, Least
    <3> QED BY <2>2, <2>3, <3>1, <3>2 DEF StreamInv, FlagsOK, PendingBytes
  <2> QED BY <1>1, <2>1, <2>2, <2>3, <2>5, <2>6, <2>7
<1> QED
  BY <1>2, <1>3

\* No error is io.EOF on the wire, and only ECLOSED is ECLOSED.
LEMMA WireErrFacts ==
    ASSUME NEW e \in Error
    PROVE  /\ WireErr(e) \in Error /\ WireErr(e) # "EOF"
           /\ WireErr(e) = "ECLOSED" => e = "ECLOSED"
BY DEF WireErr, Error, ProtocolError

\* The frames of writeCtrl that carry no payload.
LEMMA CtrlFlow ==
    ASSUME Inv, FlowInv, NEW x \in Side,
           CtrlWindow(x) \/ CtrlReset(x) \/ CtrlEOF(x)
    PROVE  FlowInv' /\ Moved
<1> DEFINE s == Relocked(x)
<1>1. InCtrl(x)
  BY Zenon DEF CtrlWindow, CtrlReset, CtrlEOF
<1>2. /\ StreamInv(s, "loop") /\ IsStream(s) /\ HistoryOK(s) /\ s.wired = 0
      /\ Quiet(st[x], s) /\ s.whi = st[x].whi /\ s.werr = st[x].werr
  BY <1>1, RelockedQuiet, Zenon
<1>3. s.where # "none"
  BY <1>1, RelockedInv, Zenon DEF Same, Made
<1>4. /\ s.wlo \in Nat /\ s.whi \in Nat /\ s.sent \in Nat /\ s.rinc \in Nat
      /\ DOMAIN s = StreamField /\ Granted(s) \in Int
  BY <1>2, StreamNumbers, Zenon DEF IsStream
<1>5. CASE CtrlWindow(x)
  <2> DEFINE t == AfterWindow(s)
             f == WindowFrame(s)
  <2>1. StBecomes(x, t) /\ GotoW(x, "loop") /\ Send(x, f)
    BY <1>5, Becomes, Zenon DEF CtrlWindow
  <2> HIDE DEF s
  <2>2. StreamInv(t, "loop")
    BY <1>2, AfterWindowInv
  <2>3. /\ t.got = s.got /\ t.rhi = s.rhi /\ t.rerr = s.rerr
        /\ t.whi = s.whi /\ t.werr = s.werr /\ t.serr = s.serr
        /\ t.sent = s.sent /\ t.wlo = s.wlo /\ t.wired = s.wired
    BY <1>4 DEF AfterWindow, StreamField
  <2>4. f \in Frame /\ f.kind = "WINDOW" /\ f.err = None
    BY <1>4, Zenon DEF WindowFrame, Frame
  <2>5. f.err # "EOF" /\ ~CleanEnd(f) /\ IsStream(t) /\ t.sent <= t.whi
    BY <1>2, <2>2, <2>3, <2>4 DEF None, CleanEnd, StreamInv, HistoryOK
  <2> HIDE DEF t, f
  <2> QED BY <1>2, <2>1, <2>3, <2>4, <2>5, SendQuietly, Zenon
<1>6. CASE CtrlReset(x)
  <2> DEFINE r == [s EXCEPT !.flags = @ \ {"NeedReset"}]
             t == AfterReadReset(s)
             f == ReadReset(s)
  <2>1. /\ StBecomes(x, t) /\ GotoW(x, "loop") /\ Send(x, f)
        /\ NeedsReset(s)
    BY <1>6, Becomes, Zenon DEF CtrlReset
  <2> HIDE DEF s
  <2>2. /\ t.got = s.got /\ t.rhi = s.rhi /\ t.rerr = s.rerr
        /\ t.whi = s.whi /\ t.werr = s.werr /\ t.serr = s.serr
        /\ t.sent = s.sent /\ t.wlo = s.wlo /\ t.wired = s.wired
        /\ IsStream(t)
    BY <1>2, <1>4, Zenon
    DEF AfterReadReset, SentEOF, Cleanup, IsStream, StreamField, Flag
  <2>3. s.rerr # None /\ s.rerr \in Error /\ ResetErr(s) \in Error
    BY <1>2, <2>1, Zenon
    DEF StreamInv, IsStream, FlagsOK, NeedsReset, ResetErr, Error
  <2>4. /\ f \in Frame /\ f.kind = "RESET" /\ f.err = WireErr(ResetErr(s))
        /\ "WRITE" \in f.flags => Coalesce(s)
    BY <2>3, WireErrFacts DEF ReadReset, ResetFrame, Frame
  <2>5. f.err # "EOF" /\ (CleanEnd(f) => Coalesce(s) /\ ResetErr(s) = "ECLOSED")
    BY <2>3, <2>4, WireErrFacts DEF CleanEnd
  <2>6. CleanEnd(f) => s.werr = "ECLOSED" /\ s.whi - s.wlo = 0
    BY <2>5, Zenon DEF Coalesce, NeedsEOF, Buffered
  <2>7. t.sent <= t.whi
    BY <1>2, <2>2, Zenon DEF HistoryOK
  <2> HIDE DEF t, f
  <2>8. CleanEnd(f) /\ s.wlo + s.wired = s.sent => t.sent = t.whi
    BY <1>2, <1>4, <2>2, <2>6
  <2> QED BY <1>2, <2>1, <2>2, <2>3, <2>4, <2>5, <2>6, <2>7, <2>8, SendQuietly, Zenon
<1>7. CASE CtrlEOF(x)
  <2> DEFINE t == SentEOF(s)
             f == EOFFrame(s)
  <2>1. /\ StBecomes(x, t) /\ GotoW(x, "loop") /\ Send(x, f)
        /\ NeedsEOF(s)
    BY <1>7, Becomes, Zenon DEF CtrlEOF
  <2> HIDE DEF s
  <2>2. /\ t.got = s.got /\ t.rhi = s.rhi /\ t.rerr = s.rerr
        /\ t.whi = s.whi /\ t.werr = s.werr /\ t.serr = s.serr
        /\ t.sent = s.sent /\ t.wlo = s.wlo /\ t.wired = s.wired
        /\ IsStream(t)
    BY <1>2, <1>4, Zenon DEF SentEOF, Cleanup, IsStream, StreamField, Flag
  <2>3. s.werr \in Error
    BY <1>2, <2>1 DEF StreamInv, IsStream, FlagsOK, NeedsEOF
  <2>4. /\ f \in Frame /\ f.err # "EOF"
        /\ f.kind = "DATA" => f.len = 0
        /\ f.kind = "RESET" => "READ" \notin f.flags
        /\ CleanEnd(f) => s.werr = "ECLOSED"
    <3>1. CASE s.werr = "ECLOSED"
      BY <1>4, <3>1 DEF EOFFrame, DataFrame, Frame, None
    <3>2. CASE s.werr # "ECLOSED"
      BY <2>3, <3>2, WireErrFacts DEF EOFFrame, ResetFrame, Frame, CleanEnd
    <3> QED BY <3>1, <3>2, Zenon
  <2>5. s.whi - s.wlo = 0
    BY <2>1, Zenon DEF NeedsEOF, Buffered
  <2>6. t.sent <= t.whi
    BY <1>2, <2>2 DEF HistoryOK
  <2> HIDE DEF t, f
  <2>7. s.wlo + s.wired = s.sent => t.sent = t.whi
    BY <1>2, <1>4, <2>2, <2>5
  <2>8. f.kind = "DATA" => t.sent = s.sent + f.len /\ ~(f.len > 0)
    BY <1>4, <2>2, <2>4
  <2> QED BY <1>2, <2>1, <2>2, <2>4, <2>6, <2>7, <2>8, SendQuietly, Zenon
<1> QED
  BY <1>5, <1>6, <1>7

\* A step away from the channels that leaves the read loop where it is.
LEMMA LocalQuiet ==
    ASSUME Inv, FlowInv, NEW x \in Side, NEW t, NEW c,
           StBecomes(x, t), ConnBecomes(x, c), net' = net,
           IsStream(t), Quiet(st[x], t),
           c.rpc = conn[x].rpc, conn[x].fail = None \/ c.fail = conn[x].fail
    PROVE  FlowInv' /\ Moved
<1>1. ReaderKeeps(st[x], t)
  BY Zenon DEF Quiet
<1>2. Tracking(t, c, net[Peer(x)]) => Tracking(st[x], conn[x], net[Peer(x)])
  BY <1>1, Zenon DEF Tracking, ReaderKeeps
<1> QED
  BY <1>2, QuietStep, Zenon

\* The write loop moves on, to v.
LEMMA GotoQuiet ==
    ASSUME Inv, FlowInv, NEW x \in Side, NEW t, NEW v,
           StBecomes(x, t), GotoW(x, v), net' = net,
           IsStream(t), Quiet(st[x], t)
    PROVE  FlowInv' /\ Moved
<1> DEFINE c == [conn[x] EXCEPT !.wpc = v]
<1>1. IsConn(conn[x])
  BY FlowAt
<1>2. c.rpc = conn[x].rpc /\ c.fail = conn[x].fail
  BY <1>1 DEF IsConn
<1>3. ConnBecomes(x, c)
  BY Becomes DEF GotoW
<1> HIDE DEF c
<1> QED
  BY <1>2, <1>3, LocalQuiet, Zenon

\* What closeWithError does to a connection.
LEMMA FailConnFacts ==
    ASSUME NEW c, IsConn(c), NEW e \in Error, NEW s
    PROVE  LET d == FailConn(c, e, s)
           IN /\ DOMAIN d = DOMAIN c
              /\ d.rpc = c.rpc /\ d.fail # None
              /\ c.fail # None => d.fail = c.fail
<1>1. e # None
  BY DEF Error, ProtocolError, None
<1> QED
  BY <1>1 DEF FailConn, FailOutgoing, IsConn

\* Every step of the write loop.
LEMMA WriteLoopFlow ==
    ASSUME Inv, FlowInv, NEW x \in Side, WriteLoop(x)
    PROVE  FlowInv' /\ Moved
<1> DEFINE s == st[x]
<1>1. IsStream(s) /\ StreamInv(s, conn[x].wpc) /\ IsConn(conn[x]) /\ HistoryOK(s)
  BY FlowAt, Zenon
<1>2. Quiet(s, s)
  BY <1>1, QuietMethods
<1>3. CASE TakeCtrl(x) \/ TakeData(x)
  <2>1. PICK v \in SUBSET Queue, w \in {"ctrl", "data"} :
          /\ SetStream(x, [s EXCEPT !.queued = v]) /\ GotoW(x, w) /\ net' = net
    <3>1. CASE TakeCtrl(x)
      <4> DEFINE v == s.queued \ {"ctrl"}
      <4>1. v \in SUBSET Queue
        BY <1>1 DEF IsStream
      <4>2. SetStream(x, [s EXCEPT !.queued = v]) /\ GotoW(x, "ctrl") /\ net' = net
        BY <3>1 DEF TakeCtrl
      <4> QED BY <4>1, <4>2
    <3>2. CASE TakeData(x)
      <4>1. {} \in SUBSET Queue
        OBVIOUS
      <4>2. SetStream(x, [s EXCEPT !.queued = {}]) /\ GotoW(x, "data") /\ net' = net
        BY <3>2, Zenon DEF TakeData
      <4> QED BY <4>1, <4>2
    <3> QED BY <1>3, <3>1, <3>2, Zenon
  <2> DEFINE t == [s EXCEPT !.queued = v]
  <2>2. IsStream(t)
    BY <1>1 DEF IsStream, StreamField
  <2>3. Quiet(s, t)
    BY <1>1, QuietFields, Zenon
  <2>4. StBecomes(x, t)
    BY <2>1, Becomes
  <2> HIDE DEF t
  <2> QED BY <2>1, <2>2, <2>3, <2>4, GotoQuiet
<1>4. CASE CtrlDiscard(x)
  <2> DEFINE t == DiscardStream(s)
  <2>1. SetStream(x, t) /\ GotoW(x, "idle") /\ net' = net /\ CanDiscard(s)
    BY <1>4, Zenon DEF CtrlDiscard
  <2>2. IsStream(t)
    BY <1>1, <2>1, DiscardStreamInv DEF StreamInv
  <2>3. Quiet(s, t) /\ StBecomes(x, t)
    BY <1>1, <2>1, QuietMethods, Becomes, Zenon
  <2> HIDE DEF t
  <2> QED BY <2>1, <2>2, <2>3, GotoQuiet, Zenon
<1>5. CASE CtrlDone(x)
  <2> DEFINE t == Relocked(x)
  <2>1. SetStream(x, t) /\ GotoW(x, "idle") /\ net' = net /\ InCtrl(x)
    BY <1>5, Zenon DEF CtrlDone
  <2>2. IsStream(t) /\ Quiet(s, t) /\ StBecomes(x, t)
    BY <2>1, RelockedQuiet, Becomes
  <2> HIDE DEF t
  <2> QED BY <2>1, <2>2, GotoQuiet
<1>6. CASE DataDone(x)
  <2> DEFINE t == AfterWrite(s)
  <2>1. SetStream(x, t) /\ GotoW(x, "idle") /\ net' = net
    BY <1>6, Zenon DEF DataDone
  <2>2. IsStream(t)
    BY <1>1, AfterWriteInv DEF StreamInv
  <2>3. Quiet(s, t) /\ StBecomes(x, t)
    BY <1>1, <2>1, QuietMethods, Becomes, Zenon
  <2> HIDE DEF t
  <2> QED BY <2>1, <2>2, <2>3, GotoQuiet, Zenon
<1>7. CASE NoData(x) \/ CloseNetwork(x)
  <2>1. st' = st /\ net' = net /\ \E v : GotoW(x, v)
    BY <1>7 DEF NoData, CloseNetwork
  <2> QED BY <1>1, <1>2, <2>1, GotoQuiet, Becomes, Zenon
<1>10. CASE WriteFrame(x)
  <2>1. StBecomes(x, s) /\ ConnBecomes(x, conn[x]) /\ net' = net
    BY <1>10, Becomes, Zenon DEF WriteFrame
  <2> QED BY <1>1, <1>2, <2>1, LocalQuiet, Zenon
<1>8. CASE WriteFail(x)
  <2> DEFINE d == FailConn(conn[x], "ENET", s)
             c == [d EXCEPT !.wpc = "stopped"]
  <2>1. "ENET" \in Error
    BY Zenon DEF Error
  <2>2. /\ DOMAIN d = DOMAIN conn[x] /\ d.rpc = conn[x].rpc
        /\ conn[x].fail # None => d.fail = conn[x].fail
    BY <1>1, <2>1, FailConnFacts
  <2>3. StBecomes(x, s) /\ ConnBecomes(x, c) /\ net' = net
    BY <1>8, Becomes DEF WriteFail
  <2> HIDE DEF d
  <2>4. c.rpc = conn[x].rpc /\ c.fail = d.fail
    BY <1>1, <2>2, Zenon DEF IsConn
  <2> HIDE DEF c
  <2> QED BY <1>1, <1>2, <2>2, <2>3, <2>4, LocalQuiet, Zenon
<1>9. CASE SendConnError(x)
  <2> DEFINE f == [kind |-> "CONN", flags |-> {}, pos |-> 0, len |-> 0,
                   err |-> WireErr(conn[x].oerr)]
  <2>1. Send(x, f) /\ GotoW(x, "stopped") /\ st' = st /\ conn[x].oerr \in Error
    BY <1>1, <1>9, Zenon DEF SendConnError, IsConn
  <2>2. f \in Frame /\ f.kind = "CONN" /\ f.err # "EOF" /\ ~CleanEnd(f)
    BY <2>1, WireErrFacts DEF Frame, CleanEnd
  <2>3. StBecomes(x, s)
    BY <2>1, Becomes, Zenon
  <2>4. s.sent <= s.whi
    BY <1>1 DEF HistoryOK
  <2> HIDE DEF f
  <2> QED BY <1>1, <1>2, <2>1, <2>2, <2>3, <2>4, SendQuietly, Zenon
<1> QED
  BY <1>3, <1>4, <1>5, <1>6, <1>7, <1>8, <1>9, <1>10, DataFlow, CtrlFlow, Zenon
     DEF WriteLoop

-----------------------------------------------------------------------------
\* The read loop

\* The frame at the head, and what its sender said with it.
LEMMA HeadFlow ==
    ASSUME Inv, FlowInv, NEW x \in Side, net[Peer(x)] # <<>>
    PROVE  LET f == Head(net[Peer(x)])
           IN /\ f = net[Peer(x)][1] /\ f \in Frame /\ f.len \in Nat
              /\ f.err # "EOF"
              /\ f.kind = "RESET" /\ "READ" \in f.flags => st[Peer(x)].rerr # None
              /\ f.kind \in {"RESET", "CONN"} => f.err \in Error
              /\ f.kind = "DATA" => DataError(st[x], f) = None
              /\ f.kind = "WINDOW" => ~(f.len <= 0)
<1> DEFINE q == net[Peer(x)]
           f == Head(q)
<1>1. /\ f = q[1] /\ f \in Frame /\ FrameOK(f)
      /\ f.kind = "DATA" => "SeenEOF" \notin st[x].flags /\ f.len <= st[x].rleft
  BY HeadFacts, Zenon
<1>2. q \in Seq(Frame) /\ Flow(st[Peer(x)], st[x], conn[x], q) /\ IsStream(st[x])
  BY FlowAt, Zenon
<1>3. 1 \in 1..Len(q)
  BY <1>2
<1>4. f.err # "EOF"
      /\ (f.kind = "RESET" /\ "READ" \in f.flags => st[Peer(x)].rerr # None)
  BY <1>1, <1>2, <1>3, Zenon DEF Flow
<1>5. f.len \in Nat /\ (f.kind \in {"RESET", "CONN"} => f.err \in Error)
  BY <1>1, Zenon DEF Frame, FrameOK
<1>6. f.kind = "DATA" => DataError(st[x], f) = None
  BY <1>1, <1>2, <1>5 DEF DataError, IsStream
<1>7. f.kind = "WINDOW" => ~(f.len <= 0)
  BY <1>1, <1>5 DEF FrameOK
<1> QED
  BY <1>1, <1>4, <1>5, <1>6, <1>7, Zenon

\* The read loop stops and drops the frame.
LEMMA StopFlow ==
    ASSUME Inv, FlowInv, NEW x \in Side, NEW b, NEW e \in Error,
           b = conn[x] \/ b = FailOutgoing(conn[x], "ECONNSHUTDOWN"),
           StopReading(x, b, e), st' = st,
           (Consume(x) /\ net[Peer(x)] # <<>>) \/ net' = net
    PROVE  FlowInv' /\ Moved
<1> DEFINE d == FailConn(b, e, st[x])
           c == [d EXCEPT !.rpc = "stopped"]
<1>1. IsConn(conn[x]) /\ IsStream(st[x]) /\ Quiet(st[x], st[x])
  BY FlowAt, QuietMethods, Zenon
<1>2. IsConn(b)
  <2>1. IsConn(FailOutgoing(conn[x], "ECONNSHUTDOWN"))
    BY <1>1, Zenon DEF FailOutgoing, IsConn, Error
  <2> QED BY <1>1, <2>1
<1>3. DOMAIN d = DOMAIN b /\ d.fail # None
  BY <1>2, FailConnFacts
<1>4. StBecomes(x, st[x]) /\ ConnBecomes(x, c)
  BY Becomes DEF StopReading
<1> HIDE DEF d
<1>5. c.rpc = "stopped" /\ c.fail # None
  BY <1>2, <1>3, Zenon DEF IsConn
<1> HIDE DEF c
<1>6. \A q : ~Tracking(st[x], c, q)
  BY <1>5, Zenon DEF Tracking
<1> QED
  BY <1>1, <1>4, <1>6, DropQuietly, QuietStep, Zenon

\* The stream of a frame has been looked up.
LEMMA LookupFlow ==
    ASSUME Inv, FlowInv, NEW x \in Side, NEW t, StBecomes(x, t), GotoProc(x),
           conn[x].fail = None \/ Head(net[Peer(x)]).kind = "WINDOW",
           conn[x].rpc = "idle", net[Peer(x)] # <<>>,
           net' = net, IsStream(t), Quiet(st[x], t)
    PROVE  FlowInv' /\ Moved
<1> DEFINE c == [conn[x] EXCEPT !.rpc = "proc"]
           q == net[Peer(x)]
<1>1. IsConn(conn[x])
  BY FlowAt
<1>2. c.rpc = "proc" /\ c.fail = conn[x].fail
  BY <1>1 DEF IsConn
<1>3. ConnBecomes(x, c)
  BY Becomes DEF GotoProc
<1>4. Head(q) = q[1]
  BY HeadFlow, Zenon
<1> HIDE DEF c
<1>5. ReaderKeeps(st[x], t)
  BY Zenon DEF Quiet
<1>6. Tracking(t, c, q) => Tracking(st[x], conn[x], q)
  BY <1>2, <1>4, <1>5 DEF Tracking, ReaderKeeps
<1> QED
  BY <1>3, <1>6, QuietStep, Zenon

\* Frames that arrive at a stream which is there, gone or closing.
LEMMA ArriveFlow ==
    ASSUME Inv, FlowInv, NEW x \in Side,
           ArriveData(x) \/ ArriveReset(x) \/ ArriveWindow(x)
    PROVE  FlowInv' /\ Moved
<1> DEFINE f == Head(net[Peer(x)])
<1>1. /\ net[Peer(x)] # <<>> /\ conn[x].rpc = "idle" /\ st' = st
  BY DEF ArriveData, ArriveReset, ArriveWindow, Arrives, AtHead, Incoming
<1>2. IsConn(conn[x]) /\ IsStream(st[x]) /\ Quiet(st[x], st[x])
  BY FlowAt, QuietMethods, Zenon
<1>3. StBecomes(x, st[x])
  BY <1>1, Becomes, Zenon
<1>4. f = net[Peer(x)][1] /\ (f.kind = "CONN" => f.err \in Error)
  BY <1>1, HeadFlow, Zenon
<1>5. CASE GotoProc(x) /\ net' = net /\ (conn[x].fail = None \/ f.kind = "WINDOW")
  BY <1>1, <1>2, <1>3, <1>5, LookupFlow, Zenon
<1>6. CASE Consume(x) /\ conn' = conn /\ (conn[x].fail # None \/ f.kind # "DATA")
  <2>1. ConnBecomes(x, conn[x])
    BY <1>6, Becomes, Zenon
  <2>2. Tracking(st[x], conn[x], Tail(net[Peer(x)])) =>
           Tracking(st[x], conn[x], net[Peer(x)]) /\ f.kind # "DATA"
    BY <1>1, <1>6, Zenon DEF Tracking
  <2> QED BY <1>1, <1>2, <1>3, <1>4, <1>6, <2>1, <2>2, DropQuietly
<1>7. CASE StopReading(x, conn[x], "EINVALIDSTREAM") /\ Consume(x)
  <2>1. "EINVALIDSTREAM" \in Error
    BY Zenon DEF Error, ProtocolError
  <2> QED BY <1>1, <1>7, <2>1, StopFlow
<1>9. CASE ArriveData(x)
  BY <1>5, <1>6, <1>7, <1>9, Zenon DEF ArriveData
<1>10. CASE ArriveReset(x)
  BY <1>5, <1>6, <1>10, Zenon DEF ArriveReset, Arrives, AtHead, Incoming
<1>11. CASE ArriveWindow(x)
  BY <1>5, <1>6, <1>11 DEF ArriveWindow, Arrives, AtHead, Incoming
<1> QED
  BY <1>9, <1>10, <1>11, Zenon

\* The RESET of stream 0 arrives, and then ends the connection.
LEMMA ConnErrorFlow ==
    ASSUME Inv, FlowInv, NEW x \in Side, ArriveConnError(x) \/ ProcessConnError(x)
    PROVE  FlowInv' /\ Moved
<1>1. IsConn(conn[x]) /\ IsStream(st[x]) /\ Quiet(st[x], st[x])
  BY FlowAt, QuietMethods, Zenon
<1>2. CASE ArriveConnError(x)
  <2> DEFINE o == FailOutgoing(conn[x], "ECONNSHUTDOWN")
             c == [o EXCEPT !.rpc = "told"]
  <2>1. StBecomes(x, st[x]) /\ ConnBecomes(x, c) /\ net' = net
    BY <1>2, Becomes, Zenon DEF ArriveConnError
  <2>2. DOMAIN o = DOMAIN conn[x] /\ o.fail = conn[x].fail
    BY <1>1 DEF FailOutgoing, IsConn
  <2> HIDE DEF o
  <2>3. c.rpc = "told" /\ c.fail = conn[x].fail
    BY <1>1, <2>2 DEF IsConn
  <2> HIDE DEF c
  <2>4. conn[x].rpc = "idle"
    BY <1>2, Zenon DEF ArriveConnError, Arrives
  <2>5. Tracking(st[x], c, net[Peer(x)]) => Tracking(st[x], conn[x], net[Peer(x)])
    BY <2>3, <2>4 DEF Tracking
  <2> QED BY <1>1, <2>1, <2>5, QuietStep, Zenon
<1>3. CASE ProcessConnError(x)
  <2> DEFINE f == Head(net[Peer(x)])
  <2>1. net[Peer(x)] # <<>> /\ f.kind = "CONN" /\ Consume(x) /\ st' = st
        /\ StopReading(x, conn[x], f.err)
    BY <1>3, Zenon DEF ProcessConnError, AtHead, Incoming
  <2>2. f.err \in Error
    BY <2>1, HeadFlow, Zenon
  <2> HIDE DEF f
  <2> QED BY <2>1, <2>2, StopFlow, Zenon
<1> QED
  BY <1>2, <1>3

\* A new stream arrives.
LEMMA OpenFlow ==
    ASSUME Inv, FlowInv, NEW x \in Side, ArriveOpen(x) \/ RefuseStream(x)
    PROVE  FlowInv' /\ Moved
<1> DEFINE s == st[x]
           n == NewIncoming(s)
           q == net[Peer(x)]
<1>1. IsConn(conn[x]) /\ IsStream(s) /\ Quiet(s, s) /\ Quiet(s, n) /\ HistoryOK(s)
  BY FlowAt, QuietMethods, Zenon
<1>2. IsStream(n) /\ \A t : Quiet(n, t) => Quiet(s, t)
  <2>1. IsStream(n)
    BY <1>1 DEF NewIncoming, IsStream, StreamField
  <2> QED BY <1>1, <2>1, QuietIncoming, Zenon
<1>3. CASE ArriveOpen(x)
  <2>1. /\ conn[x].rpc = "idle" /\ q # <<>>
    BY <1>3 DEF ArriveOpen, Arrives, AtHead, Incoming
  <2>2. CASE /\ \E e \in {"EINVALIDSTREAM", "EWINDOWOVERFLOW"} :
                   StopReading(x, conn[x], e)
             /\ Consume(x) /\ st' = st
    <3>1. {"EINVALIDSTREAM", "EWINDOWOVERFLOW"} \subseteq Error
      BY Zenon DEF Error, ProtocolError
    <3> QED BY <2>1, <2>2, <3>1, StopFlow, Zenon
  <2>3. CASE /\ conn[x].fail = None /\ SetStream(x, n) /\ GotoProc(x)
             /\ net' = net
    <3>1. StBecomes(x, n)
      BY <2>3, Becomes
    <3> HIDE DEF n
    <3> QED BY <1>1, <1>2, <2>1, <2>3, <3>1, LookupFlow, Zenon
  <2>4. CASE /\ conn[x].fail # None
             /\ SetStream(x, CloseWithError(n, conn[x].fail))
             /\ Consume(x) /\ conn' = conn
    <3> DEFINE t == CloseWithError(n, conn[x].fail)
    <3>1. conn[x].fail \in Error
      BY <1>1, <2>4, Zenon DEF IsConn
    <3>2. IsStream(t) /\ Quiet(n, t)
      BY <1>2, <3>1, QuietClose
    <3>3. Quiet(s, t) /\ StBecomes(x, t) /\ ConnBecomes(x, conn[x])
      BY <1>2, <2>4, <3>2, Becomes, Zenon
    <3> HIDE DEF t
    <3>4. ~Tracking(t, conn[x], Tail(q))
      BY <2>1, <2>4, Zenon DEF Tracking
    <3> QED BY <2>1, <2>4, <3>2, <3>3, <3>4, DropQuietly, Zenon
  <2>5. CASE /\ SetStream(x, n) /\ Consume(x)
             /\ SetConn(x, [conn[x] EXCEPT !.rpc = "refuse"])
    <3> DEFINE c == [conn[x] EXCEPT !.rpc = "refuse"]
    <3>1. StBecomes(x, n) /\ ConnBecomes(x, c)
      BY <2>5, Becomes
    <3>2. c.rpc = "refuse"
      BY <1>1 DEF IsConn
    <3> HIDE DEF n, c
    <3>3. ~Tracking(n, c, Tail(q))
      BY <3>2, Zenon DEF Tracking
    <3> QED BY <1>1, <1>2, <2>1, <2>5, <3>1, <3>3, DropQuietly
  <2> QED
    BY <1>3, <2>2, <2>3, <2>4, <2>5 DEF ArriveOpen
<1>4. CASE RefuseStream(x)
  <2> DEFINE t == CloseWithError(s, "ECONNSHUTDOWN")
             c == [conn[x] EXCEPT !.rpc = "idle"]
  <2>1. "ECONNSHUTDOWN" \in Error
    BY Zenon DEF Error
  <2>2. /\ IsStream(t) /\ Quiet(s, t)
        /\ s.serr = None => t.rerr # None
    BY <1>1, <2>1, QuietClose
  <2>3. s.serr # None => t.rerr # None
    BY <1>1 DEF CloseWithError, HistoryOK
  <2>4. StBecomes(x, t) /\ ConnBecomes(x, c) /\ net' = net
    BY <1>4, Becomes, Zenon DEF RefuseStream
  <2> HIDE DEF t, c
  <2>5. ~Tracking(t, c, q)
    BY <2>2, <2>3 DEF Tracking
  <2> QED BY <2>2, <2>4, <2>5, QuietStep
<1> QED
  BY <1>3, <1>4

\* A frame that was looked up is handled.
LEMMA ProcessFlow ==
    ASSUME Inv, FlowInv, NEW x \in Side,
           ProcessDataFrame(x) \/ ProcessResetFrame(x) \/ ProcessWindowFrame(x)
    PROVE  FlowInv' /\ Moved
<1> DEFINE y == Peer(x)
           s == st[x]
           q == net[y]
           f == Head(q)
           c == [conn[x] EXCEPT !.rpc = "idle"]
<1>1. conn[x].rpc = "proc" /\ Consume(x)
  BY SMTT(30) DEF ProcessDataFrame, ProcessResetFrame, ProcessWindowFrame
<1>2. /\ StreamInv(s, conn[x].wpc) /\ IsStream(s) /\ IsConn(conn[x])
      /\ HistoryOK(s) /\ q \in Seq(Frame) /\ q # <<>>
      /\ Flow(s, st[y], conn[y], net[x]) /\ Flow(st[y], s, conn[x], q)
      /\ ChannelOK(st[y], conn[y].wpc, s, q)
  BY <1>1, FlowAt, Zenon
<1>3. /\ f = q[1] /\ f \in Frame /\ f.len \in Nat /\ f.err # "EOF"
      /\ f.kind = "RESET" /\ "READ" \in f.flags => st[y].rerr # None
      /\ f.kind = "RESET" => f.err \in Error
      /\ f.kind = "DATA" => DataError(s, f) = None
      /\ f.kind = "WINDOW" => ~(f.len <= 0)
  BY <1>2, HeadFlow, Zenon
<1>4. c.rpc = "idle" /\ c.fail = conn[x].fail
  BY <1>2 DEF IsConn
<1>5. s.got \in Nat /\ s.rhi \in Nat /\ s.whi \in Nat /\ s.sent \in Nat
  BY <1>2, Zenon DEF IsStream
<1>6. NetBecomes(x, net[x], Tail(q))
  BY <1>1, <1>2, Becomes, Zenon
<1>7. CASE ProcessDataFrame(x)
  <2> DEFINE t == ProcessData(s, f)
  <2>1. f.kind = "DATA" /\ StBecomes(x, t) /\ ConnBecomes(x, c)
    BY <1>3, <1>7, Becomes, Zenon DEF ProcessDataFrame, Incoming
  <2>2. /\ t.got = s.got + f.len
        /\ t.sent = s.sent /\ t.wlo = s.wlo /\ t.wired = s.wired
        /\ t.werr = s.werr /\ t.whi = s.whi /\ t.serr = s.serr
        /\ s.rerr # None => t.rerr = s.rerr /\ t.rhi = s.rhi
        /\ s.rerr = None => /\ t.rhi = s.rhi + f.len
                            /\ t.rerr = IF "EOF" \in f.flags THEN "EOF" ELSE None
    BY <1>2, <1>3, <2>1, HandleMethods, Zenon
  <2> HIDE DEF t, f, q, c
  <2>3. WriterKeeps(s, t, st[y]) /\ WriterMoves(s, t)
    BY <2>2 DEF WriterKeeps, WriterMoves
  <2>4. Flow(t, st[y], conn[y], net[x])
    BY <1>2, <2>3, FlowSender, Zenon
  <2>5. ReaderMoves(s, t)
    BY <1>3, <1>5, <2>2 DEF ReaderMoves
  <2>6. HistoryOK(t)
    BY <1>2, <1>3, <1>5, <2>2, Zenon DEF HistoryOK, None
  <2>7. s.rerr = None => t.rhi = s.rhi + (t.got - s.got)
    BY <1>3, <1>5, <2>2
  <2>8. s.rerr = None => t.rerr = None \/ (t.rerr = "EOF" /\ CleanEnd(f))
    BY <2>1, <2>2, Zenon DEF CleanEnd
  <2>9. Flow(st[y], t, c, Tail(q))
    BY <1>1, <1>2, <1>3, <1>4, <2>1, <2>2, <2>7, <2>8, FlowHandle, Zenon
  <2> HIDE DEF s, y
  <2> QED BY <1>6, <2>1, <2>3, <2>4, <2>5, <2>6, <2>9, FlowStep, Zenon DEF s, y
<1>8. CASE ProcessResetFrame(x)
  <2> DEFINE t == ProcessReset(s, f)
  <2>1. f.kind = "RESET" /\ StBecomes(x, t) /\ ConnBecomes(x, c)
    BY <1>8, Becomes DEF ProcessResetFrame, Incoming
  <2>2. f.err # None
    BY <1>3, <2>1, Zenon DEF Error, ProtocolError, None
  <2>3. /\ t.got = s.got /\ t.rhi = s.rhi
        /\ t.sent = s.sent /\ t.whi = s.whi /\ t.serr = s.serr
        /\ "READ" \notin f.flags =>
              t.wlo = s.wlo /\ t.wired = s.wired /\ t.werr = s.werr
        /\ s.werr # None => t.werr = s.werr
        /\ s.rerr # None => t.rerr = s.rerr
        /\ s.rerr = None =>
              t.rerr = IF "WRITE" \in f.flags
                       THEN IF f.err = "ECLOSED" THEN "EOF" ELSE f.err
                       ELSE None
    BY <1>2, <1>3, <2>1, <2>2, HandleMethods
  <2> HIDE DEF t, f, q, c
  <2>4. WriterKeeps(s, t, st[y]) /\ WriterMoves(s, t)
    BY <1>3, <2>1, <2>3, Zenon DEF WriterKeeps, WriterMoves
  <2>5. Flow(t, st[y], conn[y], net[x])
    BY <1>2, <2>4, FlowSender, Zenon
  <2>6. s.rerr = None => \/ t.rerr = None
                         \/ t.rerr \notin {None, "EOF"}
                         \/ t.rerr = "EOF" /\ CleanEnd(f)
    BY <1>3, <2>1, <2>2, <2>3, Zenon DEF CleanEnd
  <2>7. ReaderMoves(s, t)
    BY <2>3, <2>6 DEF ReaderMoves
  <2>8. HistoryOK(t)
    BY <1>2, <2>3, Zenon DEF HistoryOK
  <2>9. s.rerr = None => t.rhi = s.rhi + (t.got - s.got)
    BY <1>5, <2>3
  <2>10. Flow(st[y], t, c, Tail(q))
    BY <1>1, <1>2, <1>3, <1>4, <2>1, <2>3, <2>6, <2>9, FlowHandle, ZenonT(30)
  <2> HIDE DEF s, y
  <2> QED BY <1>6, <2>1, <2>4, <2>5, <2>7, <2>8, <2>10, FlowStep, Zenon DEF s, y
<1>9. CASE ProcessWindowFrame(x)
  <2> DEFINE t == ChangeWriteWindow(s, f.len)
  <2>1. f.kind = "WINDOW" /\ StBecomes(x, t) /\ ConnBecomes(x, c)
    BY <1>3, <1>9, Becomes DEF ProcessWindowFrame, Incoming
  <2>2. IsStream(t) /\ Quiet(s, t)
    <3>1. StreamInv(t, conn[x].wpc)
      BY <1>2, <1>3, ChangeWriteWindowInv, Zenon
    <3> QED BY <1>2, <3>1, QuietMethods, Zenon DEF StreamInv
  <2> HIDE DEF t, f, c
  <2>3. ReaderKeeps(s, t)
    BY <2>2, Zenon DEF Quiet
  <2>4. Tracking(t, c, Tail(q)) => Tracking(s, conn[x], q) /\ q[1].kind # "DATA"
    BY <1>1, <1>3, <1>4, <2>1, <2>3, Zenon DEF Tracking, ReaderKeeps
  <2> QED BY <1>1, <1>2, <2>1, <2>2, <2>4, DropQuietly, Zenon
<1> QED
  BY <1>7, <1>8, <1>9

\* The network connection is gone.
LEMMA ReadFailFlow ==
    ASSUME Inv, FlowInv, NEW x \in Side, ReadFail(x)
    PROVE  FlowInv' /\ Moved
<1>1. "EOF" \in Error
  BY Zenon DEF Error
<1> QED
  BY <1>1, StopFlow DEF ReadFail

-----------------------------------------------------------------------------
\* The application and the connection

\* A call of the application.
LEMMA AppQuiet ==
    ASSUME Inv, FlowInv, NEW x \in Side, NEW t, App(x, t), IsStream(t),
           Quiet(st[x], t)
    PROVE  FlowInv' /\ Moved
<1>1. StBecomes(x, t) /\ ConnBecomes(x, conn[x]) /\ net' = net
  BY Becomes, Zenon DEF App
<1> QED
  BY <1>1, LocalQuiet

\* Every call of the application.
LEMMA ApplicationFlow ==
    ASSUME Inv, FlowInv, NEW x \in Side, Application(x)
    PROVE  FlowInv' /\ Moved
<1> DEFINE s == st[x]
<1>1. StreamInv(s, conn[x].wpc) /\ IsStream(s)
  BY FlowAt
<1>2. \A e \in CloseErrs : e \in Error /\ e # "EOF"
  BY RawConnParameters DEF Error
<1>3. ASSUME NEW v \in {"no", "read", "write", "flush"},
             \/ v \in {"no", "read"} /\ App(x, [s EXCEPT !.rwait = v])
             \/ v \in {"no", "write", "flush"} /\ App(x, [s EXCEPT !.wwait = v])
      PROVE  FlowInv' /\ Moved
  <2>1. v \in {"no", "read"} => StreamInv([s EXCEPT !.rwait = v], conn[x].wpc)
    BY <1>1, WaitInv, Zenon
  <2>2. v \in {"no", "write", "flush"} =>
           StreamInv([s EXCEPT !.wwait = v], conn[x].wpc)
    BY <1>1, WaitInv, Zenon
  <2>3. Quiet(s, [s EXCEPT !.rwait = v]) /\ Quiet(s, [s EXCEPT !.wwait = v])
    BY <1>1, QuietFields, Zenon
  <2> QED BY <1>3, <2>1, <2>2, <2>3, AppQuiet, Zenon DEF StreamInv
<1>4. CASE Read(x)
  <2>1. ASSUME NEW n \in 1..Readable(s), App(x, ReadBytes(s, n))
        PROVE  FlowInv' /\ Moved
    <3>1. StreamInv(ReadBytes(s, n), conn[x].wpc)
      BY <1>1, ReadBytesInv
    <3>2. Quiet(s, ReadBytes(s, n))
      BY <1>1, QuietMethods, Zenon
    <3> QED BY <2>1, <3>1, <3>2, AppQuiet, Zenon DEF StreamInv
  <2> QED BY <1>3, <1>4, <2>1 DEF Read
<1>5. CASE Write(x)
  <2> DEFINE m == Least(WriteBufferSize - Buffered(s), MaxBytes[x] - s.whi)
  <2>1. ASSUME NEW n \in 1..m, App(x, WriteBytes(s, n))
        PROVE  FlowInv' /\ Moved
    <3>1. n \in Nat \ {0} /\ s.werr = None
      BY <1>5 DEF Write
    <3>2. StreamInv(WriteBytes(s, n), conn[x].wpc)
      BY <1>1, <3>1, WriteBytesInv
    <3>3. Quiet(s, WriteBytes(s, n))
      BY <1>1, <3>1, QuietMethods, Zenon
    <3> QED BY <2>1, <3>2, <3>3, AppQuiet DEF StreamInv
  <2> QED BY <1>3, <1>5, <2>1, Zenon DEF Write
<1>6. CASE Acknowledge(x)
  <2>1. App(x, AcknowledgeStream(s)) /\ Quiet(s, AcknowledgeStream(s))
    BY <1>1, <1>6, QuietMethods, Zenon DEF Acknowledge
  <2>2. StreamInv(AcknowledgeStream(s), conn[x].wpc)
    BY <1>1, AcknowledgeInv
  <2> QED BY <2>1, <2>2, AppQuiet, Zenon DEF StreamInv
<1>7. CASE Close(x) \/ CloseRead(x) \/ CloseWrite(x)
  <2>1. PICK e \in CloseErrs :
          \/ App(x, CloseWithError(s, e))
          \/ App(x, SetReadError(s, e))
          \/ App(x, SetWriteError(s, e))
    BY <1>7, Zenon DEF Close, CloseRead, CloseWrite
  <2>2. /\ StreamInv(CloseWithError(s, e), conn[x].wpc)
        /\ StreamInv(SetReadError(s, e), conn[x].wpc)
        /\ StreamInv(SetWriteError(s, e), conn[x].wpc)
    BY <1>1, <1>2, CloseWithErrorInv, SetReadErrorInv, SetWriteErrorInv, Zenon
  <2>3. /\ Quiet(s, CloseWithError(s, e)) /\ Quiet(s, SetReadError(s, e))
        /\ Quiet(s, SetWriteError(s, e))
    BY <1>1, <1>2, QuietClose
  <2> QED BY <2>1, <2>2, <2>3, AppQuiet, Zenon DEF StreamInv
<1>8. CASE Flush(x) \/ ReadTimeout(x) \/ WriteTimeout(x)
  BY <1>3, <1>8 DEF Flush, ReadTimeout, WriteTimeout
<1> QED
  BY <1>4, <1>5, <1>6, <1>7, <1>8, Zenon DEF Application

\* The stream is opened; the connection is closed or shut down.
LEMMA ConnFlow ==
    ASSUME Inv, FlowInv, NEW x \in Side,
           NewStream(x) \/ ConnClose(x) \/ CloseStreams(x) \/ Shutdown(x)
    PROVE  FlowInv' /\ Moved
<1> DEFINE s == st[x]
<1>1. IsStream(s) /\ IsConn(conn[x]) /\ Quiet(s, s) /\ Quiet(s, NewOutgoing(s))
  BY FlowAt, QuietMethods, Zenon
<1>2. CASE NewStream(x)
  <2> DEFINE t == NewOutgoing(s)
  <2>1. StBecomes(x, t) /\ ConnBecomes(x, conn[x]) /\ net' = net
    BY <1>2, Becomes, Zenon DEF NewStream
  <2>2. IsStream(t)
    BY <1>1, Zenon DEF NewOutgoing, NewIncoming, IsStream, StreamField, Flag, Queue
  <2> HIDE DEF t
  <2> QED BY <1>1, <2>1, <2>2, LocalQuiet, Zenon DEF t
<1>3. CASE ConnClose(x)
  <2> DEFINE c == FailConn(conn[x], "ECONNCLOSED", s)
  <2>1. "ECONNCLOSED" \in Error
    BY Zenon DEF Error
  <2>2. c.rpc = conn[x].rpc
    BY <1>1, <2>1, FailConnFacts
  <2>3. /\ StBecomes(x, s) /\ ConnBecomes(x, c) /\ net' = net
        /\ conn[x].fail = None
    BY <1>3, Becomes, Zenon DEF ConnClose
  <2> HIDE DEF c
  <2> QED BY <1>1, <2>2, <2>3, LocalQuiet
<1>4. CASE CloseStreams(x)
  <2> DEFINE t == CloseWithError(s, conn[x].fail)
             c == [conn[x] EXCEPT !.marks = @ \ {"closing"}]
  <2>1. conn[x].fail \in Error
    BY <1>1, <1>4, InvAt, Zenon DEF CloseStreams, IsConn, EndOK, ConnOK
  <2>2. IsStream(t) /\ Quiet(s, t)
    BY <1>1, <2>1, QuietClose
  <2>3. StBecomes(x, t) /\ ConnBecomes(x, c) /\ net' = net
    BY <1>4, Becomes DEF CloseStreams
  <2>4. c.rpc = conn[x].rpc /\ c.fail = conn[x].fail
    BY <1>1 DEF IsConn
  <2> HIDE DEF t, c
  <2> QED BY <2>2, <2>3, <2>4, LocalQuiet, Zenon
<1>5. CASE Shutdown(x)
  <2> DEFINE c == [conn[x] EXCEPT !.marks = @ \cup {"shutdown"}]
  <2>1. StBecomes(x, s) /\ ConnBecomes(x, c) /\ net' = net
    BY <1>5, Becomes DEF Shutdown
  <2>2. c.rpc = conn[x].rpc /\ c.fail = conn[x].fail
    BY <1>1, Zenon DEF IsConn
  <2> HIDE DEF c
  <2> QED BY <1>1, <2>1, <2>2, LocalQuiet, Zenon
<1> QED
  BY <1>2, <1>3, <1>4, <1>5

-----------------------------------------------------------------------------
\* The theorems

\* A new connection has nothing on its way.
LEMMA InitFlow == Init => FlowInv
<1> SUFFICES ASSUME Init, NEW x \in Side
             PROVE  /\ HistoryOK(st[x])
                    /\ Flow(st[x], st[Peer(x)], conn[Peer(x)], net[x])
  BY DEF FlowInv
<1>1. /\ st[x] = NoStream /\ st[Peer(x)] = NoStream /\ net[x] = <<>>
  BY Sides DEF Init
<1>2. Chain([i \in 0..0 |-> 0], 0, 0, <<>>)
  BY DEF Chain
<1>3. HistoryOK(NoStream)
  BY DEF HistoryOK, NoStream
<1>4. \A c : Flow(NoStream, NoStream, c, <<>>)
  <2>1. /\ NoStream.rerr = None /\ NoStream.wlo = 0 /\ NoStream.wired = 0
        /\ NoStream.sent = 0 /\ NoStream.got = 0
    BY DEF NoStream
  <2>2. None # "EOF" /\ 1 .. Len(<<>>) = {} /\ 0 + 0 = 0
    BY DEF None
  <2> QED BY ONLY <1>2, <2>1, <2>2, Zenon DEF Flow
<1> QED
  BY <1>1, <1>3, <1>4, Zenon

\* Every critical section of every goroutine keeps the flows in order.
LEMMA NextFlow ==
    ASSUME Inv, FlowInv, [Next]_vars
    PROVE  FlowInv' /\ Moved
<1>1. CASE UNCHANGED <<st, conn, net>>
  <2>1. "client" \in Side
    BY Zenon DEF Side
  <2>2. Moved
    BY <1>1, <2>1, Zenon DEF Moved, WriterMoves, ReaderMoves
  <2>3. FlowInv'
    BY <1>1 DEF FlowInv
  <2> QED BY <2>2, <2>3
<1>2. CASE UNCHANGED vars \/ Break
  BY <1>1, <1>2, Zenon DEF vars, Break
<1>3. ASSUME NEW x \in Side,
             \/ NewStream(x) \/ ConnClose(x) \/ CloseStreams(x) \/ Shutdown(x)
             \/ WriteLoop(x) \/ ReadLoop(x) \/ Application(x)
      PROVE  FlowInv' /\ Moved
  BY <1>3, ConnFlow, WriteLoopFlow, OpenFlow, ArriveFlow, ConnErrorFlow,
     ProcessFlow, ReadFailFlow, ApplicationFlow DEF ReadLoop
<1> QED
  BY <1>2, <1>3 DEF Next

=============================================================================
