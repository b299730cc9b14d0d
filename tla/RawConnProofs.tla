---------------------------- MODULE RawConnProofs ---------------------------
(***************************************************************************)
(* The theorems about RawConn, for every window, buffer and payload size,  *)
(* every number of bytes and every set of calls and faults: its types, no  *)
(* protocol error between two endpoints that run this code, silence once   *)
(* removed, what each end keeps by itself, and that each direction of a    *)
(* stream implements ByteStream.  Before them, the steps of the read loop  *)
(* keep the invariant: what it says of the frame at the head of a channel, *)
(* and the read loop's, from the arrival of a frame to the end of its      *)
(* handler.                                                                *)
(***************************************************************************)
EXTENDS RawConnProperties, RawConnLocalProofs, RawConnOrderProofs

-----------------------------------------------------------------------------
\* The frame at the head

\* Side x has handled the frame at the head: its end is t, its connection c.
LEMMA HandleStep ==
    ASSUME Inv, NEW x \in Side, NEW t, NEW c, net[Peer(x)] # <<>>,
           StBecomes(x, t), ConnBecomes(x, c), Consume(x),
           link' \in {"up", "down"},
           IsConn(c), c.wpc = conn[x].wpc, c.rpc # "proc",
           c.fail \notin ProtocolError,
           "closing" \in c.marks => c.fail # None /\ t.where # "none",
           c.rpc = "refuse" => t.where # "none",
           StreamInv(t, c.wpc), Untouched(t, c.wpc),
           t.sent = st[x].sent, Granted(t) = Granted(st[x]),
           "SentEOF" \in t.flags <=> "SentEOF" \in st[x].flags,
           "NeedOpen" \in t.flags <=> "NeedOpen" \in st[x].flags,
           st[x].where # "none" => t.where # "none",
           t.where = "live" /\ x = "client" => st[x].where = "live",
           "OPEN" \in Head(net[Peer(x)]).flags => t.where # "none",
           t.where # "none" /\ st[x].where = "none" =>
              "OPEN" \in Head(net[Peer(x)]).flags,
           \/ t.got = st[x].got
           \/ /\ Head(net[Peer(x)]).kind = "DATA"
              /\ t.got = st[x].got + Head(net[Peer(x)]).len,
           \/ Credited(t) = Credited(st[x])
           \/ /\ Head(net[Peer(x)]).kind = "WINDOW"
              /\ Credited(t) = Credited(st[x]) + Head(net[Peer(x)]).len,
           "SeenEOF" \in t.flags =>
              "SeenEOF" \in st[x].flags \/ Ends(Head(net[Peer(x)]))
    PROVE  Inv'
<1> DEFINE y == Peer(x)
           s == st[x]
           r == st[y]
           f == Head(net[y])
           q == net[y]
           p == Tail(q)
<1>1. /\ EndOK(r, conn[y], net[x])
      /\ ChannelOK(s, conn[x].wpc, r, net[x])
      /\ ChannelOK(r, conn[y].wpc, s, q)
      /\ IsStream(s) /\ IsStream(r) /\ q \in Seq(Frame) /\ IsStream(t)
  BY InvAt, Sides, Zenon DEF StreamInv
<1>2. /\ f = q[1] /\ FrameOK(f)
      /\ f.kind # "CONN" => r.where # "none"
      /\ "OPEN" \in f.flags =>
            /\ x = "server" /\ f.kind = "DATA"
            /\ s.where = "none" => "SeenEOF" \notin r.flags
  BY HeadFacts, Zenon
<1>3. NetBecomes(x, net[x], p)
  BY Becomes
<1>4. ChannelOK(r, conn[y].wpc, t, p)
  BY <1>1, <1>2, ChannelTail, Zenon
<1>5. ChannelOK(t, c.wpc, r, net[x])
  BY <1>1, <1>2, ZenonT(30) DEF ChannelOK, DataOK, WindowOK, EOFOK, OrderOK
<1>6. EndOK(t, c, p) /\ (conn[y].rpc = "proc" => net[x] # <<>>)
  BY <1>1, Zenon DEF EndOK, ConnOK
<1>7. /\ Len(q) \in Nat /\ Len(p) = Len(q) - 1
      /\ \A i \in 1..Len(p) : p[i] = q[i + 1] /\ i + 1 \in 1..Len(q) /\ i + 1 # 1
      /\ 1 \in 1..Len(q)
  BY <1>1, SMTT(30)
<1> HIDE DEF p, f
<1>8. ASSUME x = "client"
      PROVE  OpenOK(t, r, net[x], p, conn[y].rpc)
  <2>1. OpenOK(s, r, net[x], q, conn[y].rpc)
    BY <1>8, Sides, Zenon DEF Inv
  <2>2. r.where = "none" => ("SeenEOF" \in t.flags => "SeenEOF" \in s.flags)
    BY <1>2, Zenon DEF Ends, f
  <2>3. \A i \in 1..Len(p) : "OPEN" \notin p[i].flags
    BY <1>7, <2>1, Zenon DEF OpenOK
  <2>4. /\ t.where = "none" => s.where = "none"
        /\ t.where = "live" => s.where = "live"
        /\ "NeedOpen" \in t.flags <=> "NeedOpen" \in s.flags
    BY <1>8
  <2> HIDE DEF s, r, q
  <2> QED BY ONLY <2>1, <2>2, <2>3, <2>4, Zenon DEF OpenOK
<1>9. ASSUME x = "server"
      PROVE  OpenOK(r, t, p, net[x], c.rpc)
  <2>1. OpenOK(r, s, q, net[x], conn[x].rpc)
    BY <1>9, Sides, Zenon DEF Inv
  <2>2. \A i \in 1..Len(p) : "OPEN" \notin p[i].flags
    BY <1>7, <2>1, Zenon DEF OpenOK
  <2>3. t.where = "none" => s.where = "none" /\ "OPEN" \notin q[1].flags
    BY <1>2 DEF f
  <2>4. r.where = "none" \/ "NeedOpen" \in r.flags =>
            t.where = "none" /\ \A i \in 1..Len(p) : p[i].kind = "CONN"
    BY <1>2, <1>7, <2>1, ZenonT(30) DEF OpenOK, f
  <2>5. t.where = "none" => \A i \in 1..Len(p) : p[i].kind = "CONN"
    BY <1>7, <2>1, <2>3, ZenonT(30) DEF OpenOK
  <2>6. ~(t.where = "none" /\ r.where = "live" /\ "NeedOpen" \notin r.flags)
    BY <2>1, <2>3, Zenon DEF OpenOK
  <2> QED BY <2>1, <2>2, <2>4, <2>5, <2>6, Zenon DEF OpenOK
<1> HIDE DEF y, s, r, q, Inv
<1> QED
  BY <1>3, <1>4, <1>5, <1>6, <1>8, <1>9, StepInv, Zenon DEF y, r

-----------------------------------------------------------------------------
\* The read loop

\* The stream is looked up and will be locked next.
LEMMA GotoProcStep ==
    ASSUME Inv, NEW x \in Side, net[Peer(x)] # <<>>, Made(x),
           GotoProc(x), st' = st, net' = net, link' = link
    PROVE  Inv'
<1> DEFINE c == [conn[x] EXCEPT !.rpc = "proc"]
<1>1. EndOK(st[x], conn[x], net[Peer(x)]) /\ link' \in {"up", "down"}
  BY InvAt DEF Inv, EndsTypeOK
<1>2. /\ IsConn(c) /\ c.wpc = conn[x].wpc /\ c.rpc = "proc"
      /\ c.fail = conn[x].fail /\ c.marks = conn[x].marks
  BY <1>1 DEF EndOK, IsConn
<1>3. StBecomes(x, st[x]) /\ ConnBecomes(x, c)
  BY Becomes, Zenon DEF GotoProc
<1> HIDE DEF c
<1>4. /\ ConnOK(st[x], c, net[Peer(x)]) /\ Same(st[x], st[x])
      /\ StreamInv(st[x], c.wpc) /\ Untouched(st[x], c.wpc)
  BY <1>1, <1>2, Zenon DEF EndOK, ConnOK, Made, Same
<1> QED
  BY <1>1, <1>2, <1>3, <1>4, LocalStep, Zenon

\* A frame of a stream that is gone, or that arrives after the connection
\* failed, is dropped.
LEMMA DropStep ==
    ASSUME Inv, NEW x \in Side, net[Peer(x)] # <<>>, conn[x].rpc = "idle",
           "OPEN" \notin Head(net[Peer(x)]).flags,
           Consume(x), st' = st, conn' = conn, link' = link
    PROVE  Inv'
<1>1. EndOK(st[x], conn[x], net[Peer(x)]) /\ link' \in {"up", "down"}
  BY InvAt, Zenon DEF Inv, EndsTypeOK
<1>2. StBecomes(x, st[x]) /\ ConnBecomes(x, conn[x])
  BY Becomes, Zenon
<1>3. /\ StreamInv(st[x], conn[x].wpc) /\ Untouched(st[x], conn[x].wpc)
      /\ IsConn(conn[x]) /\ conn[x].fail \notin ProtocolError
      /\ "closing" \in conn[x].marks =>
            conn[x].fail # None /\ st[x].where # "none"
  BY <1>1 DEF EndOK, ConnOK
<1> QED
  BY <1>1, <1>2, <1>3, HandleStep, Zenon

\* A DATA frame with OPEN is always acceptable: the side it arrives at has no
\* stream yet and the payload fits the initial window.
LEMMA ArriveOpenStep ==
    ASSUME Inv, NEW x \in Side, ArriveOpen(x)
    PROVE  Inv'
<1> DEFINE y == Peer(x)
           s == st[x]
           f == Head(net[y])
           t == NewIncoming(s)
<1>1. /\ EndOK(s, conn[x], net[y]) /\ EndOK(st[y], conn[y], net[x])
      /\ ChannelOK(s, conn[x].wpc, st[y], net[x])
      /\ ChannelOK(st[y], conn[y].wpc, s, net[y])
      /\ IsStream(st[y]) /\ link \in {"up", "down"}
  BY InvAt, Sides DEF Inv, EndsTypeOK
<1>2. /\ net[y] # <<>> /\ "OPEN" \in f.flags /\ conn[x].rpc = "idle"
      /\ link' = link
  BY Zenon DEF ArriveOpen, Arrives, AtHead, Incoming
<1>3. /\ x = "server" /\ f.kind = "DATA" /\ s.where = "none"
      /\ f.len <= s.rleft /\ "SeenEOF" \notin st[y].flags
      /\ f = net[y][1]
  BY <1>2, HeadFacts, Zenon
<1>4. /\ s.flags = {} /\ s.rleft = Window /\ StreamInv(s, conn[x].wpc)
      /\ IsConn(conn[x]) /\ conn[x].fail \notin ProtocolError
      /\ "closing" \notin conn[x].marks
  BY <1>1, <1>3, ZenonT(30) DEF EndOK, Untouched, ConnOK
<1>5. /\ StreamInv(t, conn[x].wpc) /\ t.where = "live"
      /\ t.got = s.got /\ t.rleft = s.rleft
      /\ t.sent = s.sent /\ t.wleft = s.wleft /\ t.flags = s.flags
  BY <1>4, ZenonT(30) DEF NewIncoming, StreamInv, IsStream, StreamField,
              BufferOK, FlagsOK, ReadOK, Buffered, PendingBytes, BothEOF
<1>6. Granted(t) = Granted(s) /\ Credited(t) = Credited(s)
  BY <1>5 DEF Granted, Credited
<1>7. ~(s.where = "live" \/ f.len > Window)
  <2>1. f.len \in Nat /\ Window \in Nat
    BY <1>2, HeadFacts, SizesArePositive, Zenon DEF Frame
  <2> QED BY <1>3, <1>4, <2>1
<1> HIDE DEF t
<1>8. CASE SetStream(x, t) /\ GotoProc(x) /\ UNCHANGED net
  <2> DEFINE c == [conn[x] EXCEPT !.rpc = "proc"]
  <2>1. /\ IsConn(c) /\ c.wpc = conn[x].wpc /\ c.rpc = "proc"
        /\ c.fail = conn[x].fail /\ c.marks = conn[x].marks
    BY <1>4 DEF IsConn
  <2>2. /\ StBecomes(x, t) /\ ConnBecomes(x, c)
        /\ NetBecomes(x, net[x], net[y])
    BY <1>8, Becomes, Zenon DEF GotoProc
  <2> HIDE DEF c
  <2>3. /\ EndOK(t, c, net[y])
        /\ conn[y].rpc = "proc" => net[x] # <<>>
    BY <1>1, <1>2, <1>4, <1>5, <2>1 DEF EndOK, ConnOK, Untouched
  <2>4. ChannelOK(st[y], conn[y].wpc, t, net[y])
    BY <1>1, <1>5, <1>6, ChannelReceiver, Zenon
  <2>5. ChannelOK(t, c.wpc, st[y], net[x])
    BY <1>1, <1>3, <1>5, <1>6, <2>1, ZenonT(30)
       DEF ChannelOK, DataOK, WindowOK, EOFOK, OrderOK
  <2>6. OpenOK(st[y], s, net[y], net[x], conn[x].rpc)
    BY <1>3, Sides, Zenon DEF Inv
  <2>7. 1 \in 1..Len(net[y])
    BY <1>2, InvAt
  <2>8. OpenOK(st[y], t, net[y], net[x], c.rpc)
    BY <1>3, <1>5, <2>1, <2>6, <2>7, Zenon DEF OpenOK
  <2> HIDE DEF y, s, f, Inv
  <2> QED
    BY <1>1, <1>2, <1>3, <2>2, <2>3, <2>4, <2>5, <2>8, StepInv DEF y
<1>9. CASE /\ conn[x].fail # None
           /\ SetStream(x, CloseWithError(t, conn[x].fail))
           /\ Consume(x) /\ UNCHANGED conn
  <2> DEFINE u == CloseWithError(t, conn[x].fail)
  <2>1. conn[x].fail \in Error
    BY <1>4, <1>9, Zenon DEF IsConn
  <2>2. StreamInv(u, conn[x].wpc) /\ Same(t, u)
    BY <1>5, <2>1, CloseWithErrorInv, Zenon
  <2>3. StBecomes(x, u) /\ ConnBecomes(x, conn[x])
    BY <1>9, Becomes, Zenon
  <2> HIDE DEF u
  <2>4. /\ u.where = "live" /\ u.sent = s.sent /\ u.got = s.got
        /\ "SentEOF" \in u.flags <=> "SentEOF" \in s.flags
        /\ "SeenEOF" \in u.flags <=> "SeenEOF" \in s.flags
        /\ "NeedOpen" \in u.flags <=> "NeedOpen" \in s.flags
        /\ Granted(u) = Granted(s) /\ Credited(u) = Credited(s)
    BY <1>5, <1>6, <2>2 DEF Same, Granted, Credited
  <2>5. Untouched(u, conn[x].wpc)
    BY <2>4, Zenon DEF Untouched
  <2> HIDE DEF s, f, Inv
  <2> QED
    <3>1. /\ net[Peer(x)] # <<>> /\ Consume(x) /\ link' \in {"up", "down"}
          /\ IsConn(conn[x]) /\ conn[x].rpc # "proc"
          /\ conn[x].fail \notin ProtocolError /\ conn[x].fail # None
          /\ StreamInv(u, conn[x].wpc)
      BY <1>1, <1>2, <1>3, <1>4, <1>9, <2>2, Zenon
    <3>2. /\ s.where = "none" /\ x = "server"
          /\ "OPEN" \in Head(net[Peer(x)]).flags
      BY <1>1, <1>2, <1>3, Zenon DEF f
    <3> QED BY <2>3, <2>4, <2>5, <3>1, <3>2, HandleStep, SMTT(30) DEF s
<1>10. CASE /\ SetStream(x, t)
            /\ SetConn(x, [conn[x] EXCEPT !.rpc = "refuse"])
            /\ Consume(x)
  <2> DEFINE c == [conn[x] EXCEPT !.rpc = "refuse"]
  <2>1. /\ IsConn(c) /\ c.wpc = conn[x].wpc /\ c.rpc = "refuse"
        /\ c.fail = conn[x].fail /\ c.marks = conn[x].marks
    BY <1>4 DEF IsConn
  <2>2. StBecomes(x, t) /\ ConnBecomes(x, c)
    BY <1>10, Becomes
  <2> HIDE DEF c
  <2>3. Untouched(t, c.wpc)
    BY <1>5 DEF Untouched
  <2> HIDE DEF s, f, Inv
  <2> QED
    BY <1>1, <1>2, <1>3, <1>4, <1>5, <1>6, <1>10, <2>1, <2>2, <2>3, HandleStep
       DEF s, f
<1> QED
  BY <1>7, <1>8, <1>9, <1>10, Zenon DEF ArriveOpen, Incoming, t

\* The other frames as they arrive.
LEMMA ArriveStep ==
    ASSUME Inv, NEW x \in Side,
           \/ ArriveData(x) \/ ArriveReset(x) \/ ArriveWindow(x)
    PROVE  Inv'
<1> DEFINE f == Head(net[Peer(x)])
<1>1. /\ net[Peer(x)] # <<>> /\ conn[x].rpc = "idle" /\ st' = st /\ link' = link
  BY Zenon DEF ArriveData, ArriveReset, ArriveWindow, Arrives, AtHead, Incoming
<1>2. /\ "OPEN" \notin f.flags
      /\ f.kind = "DATA" => st[x].where = "live"
  BY <1>1, HeadFacts, Zenon DEF ArriveData, ArriveReset, ArriveWindow, Arrives, AtHead, Incoming
<1>3. \/ st[x].where = "live" /\ GotoProc(x) /\ net' = net
      \/ Consume(x) /\ conn' = conn
  BY <1>2 DEF ArriveData, ArriveReset, ArriveWindow, Arrives, AtHead, Incoming
<1>4. CASE st[x].where = "live" /\ GotoProc(x) /\ net' = net
  BY <1>1, <1>4, GotoProcStep DEF Made
<1>5. CASE Consume(x) /\ conn' = conn
  BY <1>1, <1>2, <1>5, DropStep, Zenon
<1> QED
  BY <1>3, <1>4, <1>5, Zenon

\* The RESET of stream 0 fails the outgoing half (processResetFrame)
LEMMA ArriveConnErrorStep ==
    ASSUME Inv, NEW x \in Side, ArriveConnError(x)
    PROVE  Inv'
<1> DEFINE s == st[x]
           o == FailOutgoing(conn[x], "ECONNSHUTDOWN")
           c == [o EXCEPT !.rpc = "told"]
<1>1. EndOK(s, conn[x], net[Peer(x)]) /\ link' \in {"up", "down"}
  BY InvAt, Zenon DEF Inv, EndsTypeOK, ArriveConnError
<1>2. conn[x].rpc = "idle" /\ IsConn(conn[x])
  BY <1>1, Zenon DEF ArriveConnError, Arrives, EndOK
<1>3. /\ IsConn(o) /\ o.wpc = conn[x].wpc
      /\ o.fail = conn[x].fail /\ o.marks = conn[x].marks
  BY <1>2 DEF FailOutgoing, IsConn, Error
<1>4. StBecomes(x, s) /\ ConnBecomes(x, c) /\ net' = net
  BY Becomes, Zenon DEF ArriveConnError
<1> HIDE DEF o
<1>5. /\ IsConn(c) /\ c.rpc = "told" /\ c.wpc = conn[x].wpc
      /\ c.fail = conn[x].fail /\ c.marks = conn[x].marks
  BY <1>3, ZenonT(30) DEF IsConn
<1> HIDE DEF c
<1>6. /\ ConnOK(s, c, net[Peer(x)]) /\ Same(s, s)
      /\ StreamInv(s, c.wpc) /\ Untouched(s, c.wpc)
  BY <1>1, <1>5, Zenon DEF EndOK, ConnOK, Same
<1> QED
  BY <1>1, <1>2, <1>4, <1>5, <1>6, LocalStep, Zenon

\* and then stops the read loop (processFrame).
LEMMA ProcessConnErrorStep ==
    ASSUME Inv, NEW x \in Side, ProcessConnError(x)
    PROVE  Inv'
<1> DEFINE f == Head(net[Peer(x)])
           s == st[x]
           d == FailConn(conn[x], f.err, s)
           c == [d EXCEPT !.rpc = "stopped"]
<1>1. EndOK(s, conn[x], net[Peer(x)]) /\ link' \in {"up", "down"}
  BY InvAt, Zenon DEF Inv, EndsTypeOK, ProcessConnError
<1>2. /\ StreamInv(s, conn[x].wpc) /\ Untouched(s, conn[x].wpc)
      /\ IsConn(conn[x]) /\ conn[x].fail \notin ProtocolError
      /\ "closing" \in conn[x].marks => conn[x].fail # None /\ s.where # "none"
  BY <1>1, Zenon DEF EndOK, ConnOK
<1>3. net[Peer(x)] # <<>> /\ f.kind = "CONN"
  BY Zenon DEF ProcessConnError, AtHead, Incoming
<1>4. f.err \in Error \ ProtocolError /\ "OPEN" \notin f.flags
  BY <1>3, HeadFacts DEF FrameOK, Frame
<1>6. StBecomes(x, s) /\ ConnBecomes(x, c) /\ Consume(x)
  BY Becomes, Zenon DEF ProcessConnError, StopReading, Incoming
<1>7. /\ IsConn(d) /\ d.wpc = conn[x].wpc
      /\ d.fail \notin ProtocolError /\ d.fail # None
      /\ "closing" \in d.marks => s.where # "none"
  BY <1>2, <1>4, FailConnInv
<1> HIDE DEF d
<1>8. /\ IsConn(c) /\ c.rpc = "stopped" /\ c.wpc = conn[x].wpc
      /\ c.fail = d.fail /\ c.marks = d.marks
  BY <1>7, ZenonT(30) DEF IsConn
<1> HIDE DEF c
<1> QED
  BY <1>1, <1>2, <1>3, <1>4, <1>6, <1>7, <1>8, HandleStep, Zenon

\* A RESET does not bring a stream back.
LEMMA GoneAfterReset ==
    ASSUME NEW s, IsStream(s), s.where = "gone", NEW f
    PROVE  ProcessReset(s, f).where = "gone"
BY ZenonT(30)
DEF ProcessReset, SeeEOF, SetWriteError, ClearWriteBuffer, SetReadError, Cleanup,
    IsStream, StreamField

\* The frames as they are applied to the stream.
LEMMA ProcessStep ==
    ASSUME Inv, NEW x \in Side,
           \/ ProcessDataFrame(x) \/ ProcessResetFrame(x)
           \/ ProcessWindowFrame(x)
    PROVE  Inv'
<1> DEFINE f == Head(net[Peer(x)])
           s == st[x]
           c == [conn[x] EXCEPT !.rpc = "idle"]
<1>1. EndOK(s, conn[x], net[Peer(x)]) /\ link' \in {"up", "down"} /\ IsStream(s)
  BY InvAt
     DEF Inv, EndsTypeOK, ProcessDataFrame, ProcessResetFrame, ProcessWindowFrame
<1>2. /\ StreamInv(s, conn[x].wpc) /\ Untouched(s, conn[x].wpc)
      /\ IsConn(conn[x]) /\ conn[x].fail \notin ProtocolError
      /\ "closing" \in conn[x].marks => conn[x].fail # None
      /\ s.where # "none" /\ net[Peer(x)] # <<>>
  BY <1>1, Zenon
     DEF EndOK, ConnOK, ProcessDataFrame, ProcessResetFrame, ProcessWindowFrame
<1>3. /\ f \in Frame /\ FrameOK(f) /\ f.kind # "CONN"
      /\ f.kind = "DATA" => "SeenEOF" \notin s.flags /\ f.len <= s.rleft
      /\ "NeedOpen" \notin s.flags
  BY <1>2, HeadFacts
     DEF ProcessDataFrame, ProcessResetFrame, ProcessWindowFrame, Incoming
<1>4. /\ IsConn(c) /\ c.wpc = conn[x].wpc /\ c.rpc = "idle"
      /\ c.fail = conn[x].fail /\ c.marks = conn[x].marks
  BY <1>2, Zenon DEF IsConn
<1>5. f.len \in Nat /\ s.got \in Nat /\ s.rleft \in Nat /\ s.sent \in Nat
      /\ s.wleft \in Nat /\ Window \in Nat
  BY <1>1, <1>3, StreamNumbers, SizesArePositive DEF Frame
<1>6. Consume(x)
  BY SMTT(30) DEF ProcessDataFrame, ProcessResetFrame, ProcessWindowFrame
<1>7. ASSUME NEW t, StBecomes(x, t), ConnBecomes(x, c),
             StreamInv(t, conn[x].wpc), t.where # "none",
             t.where = "live" => s.where = "live",
             t.sent = s.sent, Granted(t) = Granted(s),
             "SentEOF" \in t.flags <=> "SentEOF" \in s.flags,
             "NeedOpen" \notin t.flags,
             \/ t.got = s.got
             \/ f.kind = "DATA" /\ t.got = s.got + f.len,
             \/ Credited(t) = Credited(s)
             \/ f.kind = "WINDOW" /\ Credited(t) = Credited(s) + f.len,
             "SeenEOF" \in t.flags => "SeenEOF" \in s.flags \/ Ends(f)
      PROVE  Inv'
  <2>1. Untouched(t, c.wpc)
    BY <1>7 DEF Untouched
  <2> HIDE DEF c, Inv
  <2> QED BY <1>1, <1>2, <1>3, <1>4, <1>6, <1>7, <2>1, HandleStep, Zenon
<1>8. CASE ProcessDataFrame(x)
  <2> DEFINE t == ProcessData(s, f)
  <2>1. f.kind = "DATA" /\ f.len <= s.rleft /\ "SeenEOF" \notin s.flags
    BY <1>3, <1>8, Zenon DEF ProcessDataFrame, Incoming
  <2>2. /\ DataError(s, f) = None
        /\ StreamInv(t, conn[x].wpc)
        /\ t.got = s.got + f.len /\ t.rleft = s.rleft - f.len
        /\ t.sent = s.sent /\ t.wleft = s.wleft
        /\ "SentEOF" \in t.flags <=> "SentEOF" \in s.flags
        /\ "NeedOpen" \notin t.flags
        /\ "SeenEOF" \in t.flags <=> "EOF" \in f.flags
        /\ t.where # "none"
    BY <1>2, <1>3, <2>1, ProcessDataInv, SMTT(30)
  <2>3. s.where = "live"
    BY <1>1, <1>2, <2>1, Zenon DEF IsStream, StreamInv, FlagsOK, BothEOF
  <2>4. StBecomes(x, t) /\ ConnBecomes(x, c)
    BY <1>8, <2>2, Becomes DEF ProcessDataFrame, Incoming
  <2> HIDE DEF t
  <2>5. Credited(t) = Credited(s)
    BY <2>2, Zenon DEF Credited
  <2>6. Granted(t) = Granted(s)
    <3> DEFINE len == f.len
    <3>1. len \in Nat /\ t.got = s.got + len /\ t.rleft = s.rleft - len
      BY <1>5, <2>2, Zenon
    <3> HIDE DEF len, s
    <3> QED BY <1>5, <3>1 DEF Granted
  <2>7. "SeenEOF" \in t.flags => Ends(f)
    BY <2>1, <2>2, Zenon DEF Ends
  <2> HIDE DEF s, f, c, Inv
  <2> QED BY <1>7, <2>1, <2>2, <2>3, <2>4, <2>5, <2>6, <2>7, Zenon
<1>9. CASE ProcessResetFrame(x)
  <2> DEFINE t == ProcessReset(s, f)
  <2>1. f.kind = "RESET" /\ f.err # None
    BY <1>3, <1>9 DEF ProcessResetFrame, Incoming, FrameOK
  <2>2. /\ StreamInv(t, conn[x].wpc)
        /\ Keeps(s, t)
        /\ "SeenEOF" \in t.flags =>
              "SeenEOF" \in s.flags \/ "WRITE" \in f.flags
    BY <1>2, <1>3, <2>1, ProcessResetInv, Zenon
  <2>3. StBecomes(x, t) /\ ConnBecomes(x, c)
    BY <1>9, Becomes, Zenon DEF ProcessResetFrame, Incoming
  <2>4. t.where = "live" => s.where = "live"
    <3> HIDE DEF t
    <3>1. s.where = "gone" => "SeenEOF" \in s.flags /\ "SentEOF" \in s.flags
      BY <1>2, Zenon DEF StreamInv, FlagsOK, BothEOF
    <3>2. s.where = "gone" => t.where = "gone"
      BY <1>1, GoneAfterReset, Zenon DEF t
    <3> QED BY <1>1, <1>2, <3>2, Zenon DEF IsStream
  <2> HIDE DEF t
  <2>5. /\ t.where # "none" /\ t.got = s.got /\ t.sent = s.sent
        /\ "SentEOF" \in t.flags <=> "SentEOF" \in s.flags
        /\ "NeedOpen" \notin t.flags
        /\ Granted(t) = Granted(s) /\ Credited(t) = Credited(s)
    BY <1>2, <2>2 DEF Keeps, Granted, Credited
  <2>6. "SeenEOF" \in t.flags => "SeenEOF" \in s.flags \/ Ends(f)
    BY <2>1, <2>2, Zenon DEF Ends
  <2> HIDE DEF s, f, c, Inv
  <2> QED BY <1>7, <2>2, <2>3, <2>4, <2>5, <2>6
<1>10. CASE ProcessWindowFrame(x)
  <2> DEFINE t == ChangeWriteWindow(s, f.len)
  <2>1. f.kind = "WINDOW" /\ ~(f.len <= 0)
    BY <1>3, <1>5, <1>10 DEF ProcessWindowFrame, Incoming, FrameOK
  <2>2. /\ StreamInv(t, conn[x].wpc)
        /\ t.wleft = s.wleft + f.len
        /\ t.where = s.where /\ t.flags = s.flags /\ t.sent = s.sent
        /\ t.got = s.got /\ t.rleft = s.rleft
    BY <1>2, <1>5, ChangeWriteWindowInv, Zenon
  <2>3. StBecomes(x, t) /\ ConnBecomes(x, c)
    BY <1>10, <2>1, Becomes DEF ProcessWindowFrame, Incoming
  <2> HIDE DEF t
  <2>4. Granted(t) = Granted(s)
    BY <2>2 DEF Granted
  <2>5. Credited(t) = Credited(s) + f.len
    <3> DEFINE len == f.len
    <3>1. len \in Nat /\ t.wleft = s.wleft + len
      BY <1>5, <2>2, Zenon
    <3>2. Credited(t) = Credited(s) + len
      <4> HIDE DEF len, s
      <4> QED BY <1>5, <2>2, <3>1 DEF Credited
    <3> QED BY <3>2, Zenon
  <2> HIDE DEF s, f, c, Inv
  <2> QED BY <1>2, <1>3, <1>7, <2>1, <2>2, <2>3, <2>4, <2>5
<1> QED
  BY <1>8, <1>9, <1>10

-----------------------------------------------------------------------------
\* The theorems

\* A new connection (NewRawConn) satisfies the invariant.
LEMMA InitInv == Init => Inv
<1> SUFFICES ASSUME Init PROVE Inv
  BY Zenon
<1>1. /\ DOMAIN st = Side /\ DOMAIN conn = Side /\ net \in [Side -> Seq(Frame)]
      /\ link \in {"up", "down"}
      /\ \A x \in Side : st[x] = NoStream /\ conn[x] = NewConn /\ net[x] = <<>>
  BY DEF Init
<1>2. Window \in Nat
  BY SizesArePositive
<1>3. StreamInv(NoStream, "idle")
  <2>1. IsStream(NoStream)
    BY <1>2, Zenon DEF NoStream, IsStream, StreamField, None
  <2>2. BufferOK(NoStream, "idle")
    BY DEF NoStream, BufferOK
  <2>3. FlagsOK(NoStream) /\ ReadOK(NoStream)
    BY DEF NoStream, FlagsOK, ReadOK
  <2> QED BY <2>1, <2>2, <2>3, Zenon DEF StreamInv
<1>4. IsConn(NewConn) /\ NewConn.wpc = "idle" /\ NewConn.rpc = "idle"
  BY Zenon DEF NewConn, IsConn
<1>5. EndOK(NoStream, NewConn, <<>>)
  BY <1>3, <1>4, Zenon
     DEF EndOK, Untouched, ConnOK, NoStream, NewConn, None, ProtocolError
<1>6. ChannelOK(NoStream, "idle", NoStream, <<>>)
  BY <1>2, SMTT(30)
  DEF ChannelOK, DataOK, WindowOK, EOFOK, OrderOK, NoStream, Granted,
      Credited
<1>7. OpenOK(NoStream, NoStream, <<>>, <<>>, "idle")
  BY DEF OpenOK, NoStream
<1>8. \A x \in Side : IsStream(st[x]) /\ IsConn(conn[x])
  BY <1>1, <1>3, <1>4 DEF StreamInv
<1>9. \A x \in Side : EndOK(st[x], conn[x], net[Peer(x)])
  BY <1>1, <1>5, Sides
<1>10. \A x \in Side : ChannelOK(st[x], conn[x].wpc, st[Peer(x)], net[x])
  BY <1>1, <1>4, <1>6, Sides
<1>11. OpenOK(st["client"], st["server"], net["client"], net["server"],
              conn["server"].rpc)
  BY <1>1, <1>4, <1>7 DEF Side
<1> QED
  BY <1>1, <1>8, <1>9, <1>10, <1>11 DEF Inv, EndsTypeOK

\* Every critical section of every goroutine preserves the invariant.
LEMMA NextInv == Inv /\ [Next]_vars => Inv'
<1> SUFFICES ASSUME Inv, [Next]_vars PROVE Inv'
  BY Zenon
<1>1. CASE UNCHANGED <<st, conn, net, link>>
  BY <1>1 DEF Inv, EndsTypeOK, EndOK, ChannelOK
<1>2. CASE Break
  <2>1. st' = st /\ conn' = conn /\ net' = net /\ link' \in {"up", "down"}
    BY <1>2 DEF Break
  <2> QED BY <2>1 DEF Inv, EndsTypeOK
<1>3. ASSUME NEW x \in Side,
             \/ NewStream(x) \/ ConnClose(x) \/ CloseStreams(x) \/ Shutdown(x)
             \/ WriteLoop(x) \/ ReadLoop(x) \/ Application(x)
      PROVE  Inv'
  <2>1. CASE NewStream(x)
    BY <2>1, ClientStep
  <2>2. CASE ConnClose(x) \/ CloseStreams(x) \/ Shutdown(x)
    BY <2>2, ConnStep
  <2>3. CASE WriteLoop(x)
    BY <1>1, <2>3, WriteLoopLocal, ClientStep, CtrlDataStep, CtrlWindowStep,
       CtrlResetStep, CtrlEOFStep, WriteDataStep, ConnStep, SendConnErrorStep
       DEF WriteLoop, WriteFrame
  <2>4. CASE ReadLoop(x)
    BY <2>4, ArriveOpenStep, ConnStep, ArriveStep, ArriveConnErrorStep,
       ProcessConnErrorStep, ProcessStep DEF ReadLoop
  <2>5. CASE Application(x)
    BY <2>5, ApplicationStep
  <2> QED BY <1>3, <2>1, <2>2, <2>3, <2>4, <2>5
<1> QED
  BY <1>1, <1>2, <1>3 DEF Next, vars

\* The invariant holds in every reachable state of every instance.
THEOREM Invariance == Spec => []Inv
BY InitInv, NextInv, PTL DEF Spec

\* Two endpoints that run this code never end their connection with a protocol
\* error: processDataFrame and processDataLocked accept every DATA frame.
THEOREM ProtocolRespected == Spec => []NoProtocolError
<1>1. Inv => NoProtocolError
  BY Zenon DEF Inv, EndOK, ConnOK, NoProtocolError
<1> QED
  BY <1>1, Invariance, PTL

-----------------------------------------------------------------------------
\* The frame that is being written

\* Frames of x that its write loop has in its hands.
InHand(b) == IF b THEN 1 ELSE 0

\* A write loop in a network write holds the newest frame of its channel; the
\* frame its peer is handling is an older one.  If it holds a DATA frame
\* without the EOF flag, the stream has not sent EOF: only the write loop
\* itself sets flagStreamSentEOF.
HeldOK(s, w, q, b, rpc) ==
    /\ rpc \in {"proc", "told"} => Len(q) > InHand(b)
    /\ b => /\ w \notin {"idle", "ctrl", "data"}
            /\ q # <<>>
            /\ Newest(q).kind = "DATA" /\ "EOF" \notin Newest(q).flags
               => "SentEOF" \notin s.flags

HeldInv ==
    /\ writing \in [Side -> BOOLEAN]
    /\ \A x \in Side :
          HeldOK(st[x], conn[x].wpc, net[x], writing[x], conn[Peer(x)].rpc)

\* Only the write loop sets flagStreamSentEOF.
Unsent(s, t) == "SentEOF" \notin s.flags => "SentEOF" \notin t.flags

\* The methods the application and the read loop use.
LEMMA UnsentMethods ==
    ASSUME NEW s, DOMAIN s = StreamField, NEW e, NEW n, NEW f
    PROVE  /\ Unsent(s, NewIncoming(s)) /\ Unsent(s, NewOutgoing(s))
           /\ Unsent(s, SetReadError(s, e)) /\ Unsent(s, SetWriteError(s, e))
           /\ Unsent(s, CloseWithError(s, e))
           /\ Unsent(s, CloseWithError(NewIncoming(s), e))
           /\ Unsent(s, ProcessData(s, f)) /\ Unsent(s, ProcessReset(s, f))
           /\ Unsent(s, ChangeWriteWindow(s, n))
           /\ Unsent(s, ReadBytes(s, n)) /\ Unsent(s, WriteBytes(s, n))
           /\ Unsent(s, AcknowledgeStream(s))
           /\ Unsent(s, [s EXCEPT !.rwait = n])
           /\ Unsent(s, [s EXCEPT !.wwait = n])
<1> USE DEF Unsent, StreamField
<1>1. /\ Unsent(s, NewIncoming(s)) /\ Unsent(s, NewOutgoing(s))
      /\ Unsent(s, ChangeWriteWindow(s, n))
      /\ Unsent(s, ReadBytes(s, n)) /\ Unsent(s, WriteBytes(s, n))
      /\ Unsent(s, AcknowledgeStream(s))
      /\ Unsent(s, [s EXCEPT !.rwait = n]) /\ Unsent(s, [s EXCEPT !.wwait = n])
  BY Zenon DEF NewIncoming, NewOutgoing, ChangeWriteWindow, ReadBytes, WriteBytes,
               AcknowledgeStream
<1>2. ASSUME NEW a, DOMAIN a = StreamField, NEW k
      PROVE  /\ DOMAIN SetReadError(a, k) = StreamField
             /\ Unsent(a, SetReadError(a, k)) /\ Unsent(a, SetWriteError(a, k))
  BY <1>2, Zenon DEF SetReadError, SetWriteError
<1>3. ASSUME NEW a, DOMAIN a = StreamField
      PROVE  Unsent(a, CloseWithError(a, e))
  <2> DEFINE k == CloseErr(e)
             b == [a EXCEPT !.serr = k]
  <2>1. DOMAIN b = StreamField /\ b.flags = a.flags
    BY <1>3, Zenon
  <2> HIDE DEF b, k
  <2>2. Unsent(b, SetWriteError(SetReadError(b, k), k))
    BY <1>2, <2>1, Zenon
  <2> QED BY <2>1, <2>2, Zenon DEF CloseWithError, b, k
<1>4. DOMAIN NewIncoming(s) = StreamField /\ NewIncoming(s).flags = s.flags
  BY Zenon DEF NewIncoming
<1>5. ASSUME NEW a, DOMAIN a = StreamField, NEW k
      PROVE  Unsent(a, SeeEOF(a, k))
  <2> DEFINE b == [a EXCEPT !.flags = (@ \cup {"SeenEOF"}) \ {"NeedReset"}]
  <2>1. DOMAIN b = StreamField /\ Unsent(a, b)
    BY <1>5, Zenon
  <2> HIDE DEF b
  <2>2. DOMAIN SetReadError(b, k) = StreamField /\ Unsent(b, SetReadError(b, k))
    BY <1>2, <2>1, Zenon
  <2>3. Unsent(SetReadError(b, k), Cleanup(SetReadError(b, k)))
    BY <2>2, Zenon DEF Cleanup
  <2> QED BY <2>1, <2>2, <2>3, Zenon DEF SeeEOF, b
<1>6. Unsent(s, ProcessData(s, f))
  <2> DEFINE a == IF "ACK" \in f.flags THEN SeeAck(s) ELSE s
             b == AcceptPayload(a, f.len)
  <2>1. DOMAIN a = StreamField /\ Unsent(s, a)
    BY Zenon DEF SeeAck
  <2> HIDE DEF a
  <2>2. DOMAIN b = StreamField /\ Unsent(s, b)
    BY <2>1, Zenon DEF AcceptPayload
  <2> HIDE DEF b
  <2>3. Unsent(s, SeeEOF(b, "EOF"))
    BY <1>5, <2>2, Zenon
  <2>4. ProcessData(s, f) \in {s, a, b, SeeEOF(b, "EOF")}
    BY Zenon DEF ProcessData, DataError, a, b, None
  <2> QED BY <2>1, <2>2, <2>3, <2>4, Zenon
<1>7. Unsent(s, ProcessReset(s, f))
  <2> DEFINE a == [s EXCEPT !.flags = @ \cup {"SeenReset"}]
             b == ClearWriteBuffer(a)
             c == SetWriteError(b, f.err)
  <2>1. DOMAIN a = StreamField /\ Unsent(s, a)
    BY Zenon
  <2> HIDE DEF a
  <2>2. DOMAIN b = StreamField /\ Unsent(s, b)
    BY <2>1, Zenon DEF ClearWriteBuffer
  <2> HIDE DEF b
  <2>3. DOMAIN c = StreamField /\ Unsent(s, c)
    BY <2>2, Zenon DEF SetWriteError
  <2>4. \/ ProcessReset(s, f) \in {s, c}
        \/ \E k : ProcessReset(s, f) \in {SeeEOF(s, k), SeeEOF(c, k)}
    BY Zenon DEF ProcessReset, a, b, c
  <2> HIDE DEF c
  <2>5. \A k : Unsent(s, SeeEOF(s, k)) /\ Unsent(s, SeeEOF(c, k))
    BY <1>5, <2>3, Zenon
  <2> QED BY <2>3, <2>4, <2>5, Zenon
<1> QED
  BY <1>1, <1>2, <1>3, <1>4, <1>6, <1>7, Zenon

\* The newest of two or more frames stays when the oldest is dropped.
LEMMA NewestLeft ==
    ASSUME NEW q \in Seq(Frame), Len(q) > 1
    PROVE  Tail(q) # <<>> /\ Newest(Tail(q)) = Newest(q)
<1>1. Len(Tail(q)) = Len(q) - 1 /\ \A i \in 1..(Len(q) - 1) : Tail(q)[i] = q[i + 1]
  OBVIOUS
<1>2. Len(q) \in Nat /\ Len(q) - 1 \in 1..(Len(q) - 1) /\ (Len(q) - 1) + 1 = Len(q)
  OBVIOUS
<1>3. Tail(q) # <<>>
  <2>1. Len(Tail(q)) # 0
    BY <1>1, <1>2
  <2>2. Len(<<>>) = 0
    OBVIOUS
  <2> QED BY <2>1, <2>2, Zenon
<1>4. Tail(q)[Len(q) - 1] = q[Len(q)]
  BY <1>1, <1>2
<1> QED
  BY <1>1, <1>3, <1>4, Zenon DEF Newest

\* What the peer of z may still handle: something other than what z holds.
Handed(q, b) == Len(q) > InHand(b)

\* A frame that has arrived.
LEMMA NotInHand ==
    ASSUME NEW q \in Seq(Frame), q # <<>>, NEW b \in BOOLEAN, ~(b /\ Len(q) = 1)
    PROVE  Handed(q, b)
<1>1. Len(q) \in Nat /\ Len(q) > 0
  OBVIOUS
<1> QED
  BY <1>1 DEF Handed, InHand

\* A step of z that does not touch the channels, or that drops the frame z has
\* handled from its incoming one.
LEMMA HeldStep ==
    ASSUME Inv, HeldInv, NEW z \in Side, NEW t, NEW c,
           StBecomes(z, t), ConnBecomes(z, c), writing' = writing,
           writing[z] => /\ Unsent(st[z], t)
                         /\ \/ c.wpc = conn[z].wpc
                            \/ c.wpc \notin {"idle", "ctrl", "data"},
           \/ /\ net' = net
              /\ c.rpc \in {"proc", "told"} =>
                    Handed(net[Peer(z)], writing[Peer(z)])
           \/ /\ Consume(z) /\ c.rpc \notin {"proc", "told"}
              /\ Handed(net[Peer(z)], writing[Peer(z)])
    PROVE  HeldInv'
<1> DEFINE y == Peer(z)
<1>1. /\ y \in Side /\ Peer(y) = z /\ y # z /\ \A x \in Side : x = z \/ x = y
      /\ net[z] \in Seq(Frame) /\ net[y] \in Seq(Frame)
      /\ net \in [Side -> Seq(Frame)]
  BY Sides DEF Inv, EndsTypeOK
<1>2. /\ writing \in [Side -> BOOLEAN]
      /\ HeldOK(st[z], conn[z].wpc, net[z], writing[z], conn[y].rpc)
      /\ HeldOK(st[y], conn[y].wpc, net[y], writing[y], conn[z].rpc)
  BY <1>1, Zenon DEF HeldInv
<1>3. HeldOK(t, c.wpc, net[z], writing[z], conn[y].rpc)
  BY <1>2, Zenon DEF HeldOK, Unsent
<1>4. /\ st'[z] = t /\ st'[y] = st[y] /\ conn'[z] = c /\ conn'[y] = conn[y]
      /\ writing'[z] = writing[z] /\ writing'[y] = writing[y]
  BY <1>1, Zenon DEF StBecomes, ConnBecomes
<1>5. CASE net' = net
  <2>1. \/ ~(c.rpc \in {"proc", "told"})
        \/ Handed(net[y], writing[y])
    <3>1. CASE net' = net /\ (c.rpc \in {"proc", "told"} => Handed(net[y], writing[y]))
      BY <3>1, Zenon
    <3>2. CASE Consume(z) /\ c.rpc \notin {"proc", "told"}
      BY <3>2, Zenon
    <3> QED BY <3>1, <3>2, Zenon
  <2>2. HeldOK(st[y], conn[y].wpc, net[y], writing[y], c.rpc)
    BY <1>2, <2>1, Zenon DEF HeldOK, Handed
  <2> QED BY <1>1, <1>2, <1>3, <1>4, <1>5, <2>2, Zenon DEF HeldInv
<1>6. CASE Consume(z) /\ c.rpc \notin {"proc", "told"} /\ Handed(net[y], writing[y])
  <2>1. net'[y] = Tail(net[y]) /\ net'[z] = net[z]
    BY <1>1, <1>6, Zenon DEF Consume
  <2>2. writing[y] => Tail(net[y]) # <<>> /\ Newest(Tail(net[y])) = Newest(net[y])
    <3> SUFFICES ASSUME writing[y]
                 PROVE  Tail(net[y]) # <<>> /\ Newest(Tail(net[y])) = Newest(net[y])
      BY Zenon
    <3>1. Len(net[y]) > 1
      BY <1>6 DEF Handed, InHand
    <3> QED BY <1>1, <3>1, NewestLeft, Zenon
  <2>3. HeldOK(st[y], conn[y].wpc, net'[y], writing[y], c.rpc)
    BY <1>2, <1>6, <2>1, <2>2, Zenon DEF HeldOK
  <2> QED BY <1>1, <1>2, <1>3, <1>4, <2>1, <2>3, Zenon DEF HeldInv
<1> QED
  BY <1>5, <1>6, Zenon

\* z, which held nothing, prepares a frame.
LEMMA HeldSend ==
    ASSUME Inv, HeldInv, NEW z \in Side, NEW t, NEW c, NEW f, NEW b \in BOOLEAN,
           StBecomes(z, t), ConnBecomes(z, c), Send(z, f),
           writing' = [writing EXCEPT ![z] = b], ~writing[z],
           c.rpc = conn[z].rpc,
           b => /\ c.wpc \notin {"idle", "ctrl", "data"}
                /\ f.kind = "DATA" /\ "EOF" \notin f.flags => "SentEOF" \notin t.flags
    PROVE  HeldInv'
<1> DEFINE y == Peer(z)
           q == Append(net[z], f)
<1>1. /\ y \in Side /\ Peer(y) = z /\ y # z /\ \A x \in Side : x = z \/ x = y
      /\ net[z] \in Seq(Frame) /\ net \in [Side -> Seq(Frame)]
  BY Sides DEF Inv, EndsTypeOK
<1>2. /\ writing \in [Side -> BOOLEAN]
      /\ HeldOK(st[z], conn[z].wpc, net[z], FALSE, conn[y].rpc)
      /\ HeldOK(st[y], conn[y].wpc, net[y], writing[y], conn[z].rpc)
  BY <1>1, Zenon DEF HeldInv
<1>3. /\ st'[z] = t /\ st'[y] = st[y] /\ conn'[z] = c /\ conn'[y] = conn[y]
      /\ writing' \in [Side -> BOOLEAN]
      /\ writing'[z] = b /\ writing'[y] = writing[y]
      /\ net'[z] = q /\ net'[y] = net[y]
  BY <1>1, <1>2 DEF StBecomes, ConnBecomes, Send
<1>4. Len(q) = Len(net[z]) + 1 /\ Newest(q) = f /\ Len(net[z]) \in Nat
  BY <1>1 DEF Newest
<1> HIDE DEF q
<1>5. q # <<>>
  <2>1. Len(q) # 0
    BY <1>4
  <2>2. Len(<<>>) = 0
    OBVIOUS
  <2> QED BY <2>1, <2>2, Zenon
<1>6. conn[y].rpc \in {"proc", "told"} => Len(q) > InHand(b)
  BY <1>2, <1>4 DEF HeldOK, InHand
<1>7. HeldOK(t, c.wpc, q, b, conn[y].rpc)
  BY <1>4, <1>5, <1>6, Zenon DEF HeldOK
<1>8. HeldOK(st[y], conn[y].wpc, net[y], writing[y], c.rpc)
  BY <1>2, Zenon
<1> QED
  BY <1>1, <1>3, <1>7, <1>8, Zenon DEF HeldInv

\* The DATA frame of writeCtrl and writeData carries EOF if it is the last.
LEMMA PreparedEOF ==
    ASSUME NEW s, NEW w, StreamInv(s, w), s.wired = 0, "SentEOF" \notin s.flags,
           s.where # "none", NEW v \in {"ctrlWrite", "dataWrite"}
    PROVE  LET p == PrepareData(s)
               f == DataFrame(s, OutgoingFlags(p), PayloadSize(s))
           IN /\ "EOF" \notin f.flags => "SentEOF" \notin AfterOutgoingFlags(p).flags
              /\ StreamInv(AfterOutgoingFlags(p), v)
<1>1. \A g, n : DataFrame(s, g, n).flags = g
  BY Zenon DEF DataFrame
<1>2. /\ StreamInv(AfterOutgoingFlags(PrepareData(s)), v)
      /\ "SentEOF" \in AfterOutgoingFlags(PrepareData(s)).flags <=>
            "EOF" \in OutgoingFlags(PrepareData(s))
  BY PrepareDataInv
<1> QED
  BY <1>1, <1>2, Zenon

\* Every step of the write loop.
LEMMA WriteLoopHeld ==
    ASSUME Inv, HeldInv, NEW z \in Side, WriteLoop(z)
    PROVE  HeldInv'
<1>1. /\ EndOK(st[z], conn[z], net[Peer(z)]) /\ IsStream(st[z]) /\ IsConn(conn[z])
      /\ HeldOK(st[z], conn[z].wpc, net[z], writing[z], conn[Peer(z)].rpc)
      /\ HeldOK(st[Peer(z)], conn[Peer(z)].wpc, net[Peer(z)], writing[Peer(z)],
                conn[z].rpc)
  BY InvAt, Sides, Zenon DEF HeldInv, EndOK
<1>2. ASSUME NEW v, GotoW(z, v)
      PROVE  LET c == [conn[z] EXCEPT !.wpc = v]
             IN ConnBecomes(z, c) /\ c.wpc = v /\ c.rpc = conn[z].rpc
  BY <1>1, <1>2, Becomes, Zenon DEF GotoW, IsConn
<1>3. conn[z].rpc \in {"proc", "told"} => Handed(net[Peer(z)], writing[Peer(z)])
  BY <1>1, Zenon DEF HeldOK, Handed
<1>4. ASSUME NEW t, StBecomes(z, t), NEW v, GotoW(z, v), net' = net,
             writing' = writing, ~writing[z]
      PROVE  HeldInv'
  BY <1>2, <1>3, <1>4, HeldStep, Zenon
<1>5. ASSUME NEW t, NEW v \in {"loop", "ctrlWrite", "dataWrite"}, NEW f,
             SetStream(z, t), GotoW(z, v), Send(z, f), Writing(z, TRUE), ~writing[z],
             f.kind = "DATA" /\ "EOF" \notin f.flags => "SentEOF" \notin t.flags
      PROVE  HeldInv'
  <2>1. StBecomes(z, t) /\ v \notin {"idle", "ctrl", "data"}
    BY <1>5, Becomes, Zenon
  <2> QED BY <1>2, <1>5, <2>1, HeldSend, Zenon DEF Writing
<1>6. writing[z] => conn[z].wpc \notin {"idle", "ctrl", "data"}
  BY <1>1, Zenon DEF HeldOK
<1>7. CASE CtrlData(z)
  <2> DEFINE s == Relocked(z)
             p == PrepareData(s)
             f == DataFrame(s, OutgoingFlags(p), PayloadSize(s))
  <2>1. /\ InCtrl(z) /\ ~writing[z] /\ "SentEOF" \notin s.flags
        /\ SetStream(z, AfterOutgoingFlags(p)) /\ Send(z, f)
        /\ GotoW(z, "ctrlWrite") /\ Writing(z, TRUE)
    BY <1>7, Zenon DEF CtrlData, InCtrl, NeedsDataCtrl
  <2>2. StreamInv(s, "loop") /\ s.wired = 0 /\ s.where # "none"
    BY <2>1, RelockedInv, Zenon DEF Same, Made
  <2> HIDE DEF s
  <2>3. "EOF" \notin f.flags => "SentEOF" \notin AfterOutgoingFlags(p).flags
    BY <2>1, <2>2, PreparedEOF, Zenon
  <2> QED BY <1>5, <2>1, <2>3, Zenon
<1>8. CASE CtrlWindow(z)
  <2> DEFINE s == Relocked(z)
  <2>1. /\ ~writing[z] /\ SetStream(z, AfterWindow(s)) /\ Send(z, WindowFrame(s))
        /\ GotoW(z, "loop") /\ Writing(z, TRUE)
    BY <1>8, Zenon DEF CtrlWindow, InCtrl
  <2>2. WindowFrame(s).kind # "DATA"
    BY Zenon DEF WindowFrame
  <2> HIDE DEF s
  <2> QED BY <1>5, <2>1, <2>2, Zenon
<1>9. CASE CtrlReset(z)
  <2> DEFINE s == Relocked(z)
  <2>1. /\ ~writing[z] /\ SetStream(z, AfterReadReset(s)) /\ Send(z, ReadReset(s))
        /\ GotoW(z, "loop") /\ Writing(z, TRUE)
    BY <1>9, Zenon DEF CtrlReset, InCtrl
  <2>2. ReadReset(s).kind # "DATA"
    BY Zenon DEF ReadReset, ResetFrame
  <2> HIDE DEF s
  <2> QED BY <1>5, <2>1, <2>2, Zenon
<1>10. CASE CtrlEOF(z)
  <2> DEFINE s == Relocked(z)
  <2>1. /\ ~writing[z] /\ SetStream(z, SentEOF(s)) /\ Send(z, EOFFrame(s))
        /\ GotoW(z, "loop") /\ Writing(z, TRUE)
    BY <1>10, Zenon DEF CtrlEOF, InCtrl
  <2>2. EOFFrame(s).kind = "DATA" => "EOF" \in EOFFrame(s).flags
    BY Zenon DEF EOFFrame, ResetFrame, DataFrame
  <2> HIDE DEF s
  <2> QED BY <1>5, <2>1, <2>2, Zenon
<1>11. CASE WriteData(z)
  <2> DEFINE s == st[z]
             p == PrepareData(s)
             t == AfterOutgoingFlags(p)
             f == DataFrame(s, OutgoingFlags(p), PayloadSize(s))
  <2>1. /\ conn[z].wpc = "data" /\ PayloadSize(s) > 0
        /\ SetStream(z, Reschedule(t)) /\ Send(z, f)
        /\ GotoW(z, "dataWrite") /\ Writing(z, TRUE)
    BY <1>11, Zenon DEF WriteData
  <2>2. StreamInv(s, "data") /\ s.wired = 0 /\ s.where # "none"
    BY <1>1, <2>1, NothingWired, Zenon DEF EndOK, Untouched
  <2>3. "SentEOF" \notin s.flags
    <3>1. Buffered(s) \in Int /\ s.wleft \in Nat
      BY <2>2 DEF StreamInv, IsStream, Buffered
    <3>2. Buffered(s) > 0
      BY <2>1, <3>1, PayloadBuffered, Zenon
    <3> QED BY <2>2, <3>1, <3>2 DEF StreamInv, FlagsOK, PendingBytes
  <2>4. /\ "EOF" \notin f.flags => "SentEOF" \notin t.flags
        /\ StreamInv(t, "dataWrite")
    BY <2>2, <2>3, PreparedEOF, Zenon
  <2> HIDE DEF t, f
  <2>5. Reschedule(t).flags = t.flags
    BY <2>4, Zenon DEF Reschedule, StreamInv, IsStream, StreamField
  <2> QED BY <1>5, <1>6, <2>1, <2>4, <2>5, Zenon
<1>12. CASE TakeCtrl(z) \/ CtrlDiscard(z) \/ TakeData(z) \/ CtrlDone(z)
            \/ DataDone(z) \/ NoData(z)
  <2>1. /\ net' = net /\ writing' = writing /\ ~writing[z]
        /\ \E v : GotoW(z, v)
        /\ st' = st \/ \E t : SetStream(z, t)
    BY <1>6, <1>12, Zenon DEF TakeCtrl, CtrlDiscard, TakeData, CtrlDone, DataDone,
                              NoData, InCtrl
  <2>2. \E t : StBecomes(z, t)
    BY <2>1, Becomes, Zenon
  <2> QED BY <1>4, <2>1, <2>2, Zenon
<1>13. CASE WriteFrame(z)
  <2>1. /\ writing' = [writing EXCEPT ![z] = FALSE] /\ writing[z]
        /\ st' = st /\ conn' = conn /\ net' = net
    BY <1>13, Zenon DEF WriteFrame, Writing
  <2>2. ASSUME NEW s, NEW w, NEW q \in Seq(Frame), NEW r, HeldOK(s, w, q, TRUE, r)
        PROVE  HeldOK(s, w, q, FALSE, r)
    <3>1. Len(q) > InHand(TRUE) => Len(q) > InHand(FALSE)
      BY DEF InHand
    <3> QED BY <2>2, <3>1, Zenon DEF HeldOK
  <2>3. /\ writing \in [Side -> BOOLEAN] /\ net \in [Side -> Seq(Frame)]
        /\ \A x \in Side :
              HeldOK(st[x], conn[x].wpc, net[x], writing[x], conn[Peer(x)].rpc)
    BY Zenon DEF HeldInv, Inv, EndsTypeOK
  <2>4. /\ writing' \in [Side -> BOOLEAN] /\ writing'[z] = FALSE
        /\ \A x \in Side \ {z} : writing'[x] = writing[x]
    BY <2>1, <2>3
  <2>5. HeldOK(st[z], conn[z].wpc, net[z], FALSE, conn[Peer(z)].rpc)
    <3>1. HeldOK(st[z], conn[z].wpc, net[z], TRUE, conn[Peer(z)].rpc)
      BY <2>1, <2>3
    <3> QED BY <2>2, <2>3, <3>1
  <2> QED BY <2>1, <2>3, <2>4, <2>5, Zenon DEF HeldInv
<1>14. CASE SendConnError(z)
  <2> DEFINE f == [kind |-> "CONN", flags |-> {}, pos |-> 0, len |-> 0,
                   err |-> WireErr(conn[z].oerr)]
  <2>1. /\ conn[z].wpc = "idle" /\ Send(z, f) /\ GotoW(z, "stopped")
        /\ st' = st /\ writing' = writing
    BY <1>14, Zenon DEF SendConnError
  <2> HIDE DEF f
  <2>2. StBecomes(z, st[z]) /\ ~writing[z]
    BY <1>6, <2>1, Becomes, Zenon
  <2>3. writing' = [writing EXCEPT ![z] = FALSE]
    BY <2>1, <2>2 DEF HeldInv
  <2> QED BY <1>2, <2>1, <2>2, <2>3, HeldSend, Zenon
<1>15. CASE WriteFail(z) \/ CloseNetwork(z)
  <2>1. /\ st' = st /\ net' = net /\ writing' = writing
        /\ \E c : /\ SetConn(z, c) /\ c.rpc = conn[z].rpc
                  /\ c.wpc \notin {"idle", "ctrl", "data"}
    <3>1. CASE WriteFail(z)
      <4> DEFINE d == FailConn(conn[z], "ENET", st[z])
      <4>1. "ENET" \in Error
        BY Zenon DEF Error
      <4>2. d.rpc = conn[z].rpc /\ DOMAIN d = DOMAIN conn[z]
        BY <1>1, <4>1, FailConnFacts
      <4> HIDE DEF d
      <4>3. LET c == [d EXCEPT !.wpc = "stopped"]
            IN c.rpc = conn[z].rpc /\ c.wpc = "stopped"
        BY <1>1, <4>2 DEF IsConn
      <4> QED BY <3>1, <4>3, Zenon DEF WriteFail, d
    <3>2. CASE CloseNetwork(z)
      <4>1. LET c == [conn[z] EXCEPT !.wpc = "closed"]
            IN c.rpc = conn[z].rpc /\ c.wpc = "closed"
        BY <1>1 DEF IsConn
      <4> QED BY <3>2, <4>1, Zenon DEF CloseNetwork, GotoW
    <3> QED BY <1>15, <3>1, <3>2
  <2>2. PICK c : /\ SetConn(z, c) /\ c.rpc = conn[z].rpc
                 /\ c.wpc \notin {"idle", "ctrl", "data"}
    BY <2>1
  <2>3. StBecomes(z, st[z]) /\ ConnBecomes(z, c) /\ Unsent(st[z], st[z])
    BY <2>1, <2>2, Becomes, Zenon DEF Unsent
  <2> QED BY <1>3, <2>1, <2>2, <2>3, HeldStep, Zenon
<1> QED
  BY <1>7, <1>8, <1>9, <1>10, <1>11, <1>12, <1>13, <1>14, <1>15, Zenon DEF WriteLoop

\* Every step of the read loop: the frame it handles is not the one its peer
\* is still writing.
LEMMA ReadLoopHeld ==
    ASSUME Inv, HeldInv, NEW z \in Side, ReadLoop(z)
    PROVE  HeldInv'
<1> DEFINE s == st[z]
           k == conn[z]
<1>1. /\ DOMAIN s = StreamField /\ IsConn(k)
      /\ net[Peer(z)] \in Seq(Frame) /\ writing[Peer(z)] \in BOOLEAN
      /\ HeldOK(st[Peer(z)], conn[Peer(z)].wpc, net[Peer(z)], writing[Peer(z)],
                k.rpc)
  <2>1. /\ DOMAIN s = StreamField /\ IsConn(k) /\ net[Peer(z)] \in Seq(Frame)
    BY InvAt, Zenon DEF EndOK, IsStream
  <2>2. Peer(z) \in Side /\ Peer(Peer(z)) = z
    BY Sides, Zenon
  <2> QED BY <2>1, <2>2 DEF HeldInv
<1>2. k.rpc \in {"proc", "told"} => Handed(net[Peer(z)], writing[Peer(z)])
  BY <1>1, Zenon DEF HeldOK, Handed
<1>3. ASSUME NEW kind, Arrives(z, kind)
      PROVE  Handed(net[Peer(z)], writing[Peer(z)])
  <2>1. /\ net[Peer(z)] # <<>>
        /\ ~(writing[Peer(z)] /\ Len(net[Peer(z)]) = 1)
    BY <1>3, Zenon DEF Arrives, AtHead, Incoming
  <2> QED BY <1>1, <2>1, NotInHand, Zenon
<1>4. ASSUME NEW e
      PROVE  LET d == FailConn(k, e, s)
             IN DOMAIN d = DOMAIN k /\ d.wpc = k.wpc /\ d.rpc = k.rpc
  BY <1>1, Zenon DEF FailConn, FailOutgoing, IsConn
<1>5. ASSUME NEW e, StopReading(z, k, e)
      PROVE  \E c : /\ ConnBecomes(z, c) /\ c.wpc = k.wpc
                    /\ c.rpc \notin {"proc", "told"}
  <2> DEFINE c == [FailConn(k, e, s) EXCEPT !.rpc = "stopped"]
  <2>1. c.wpc = k.wpc /\ c.rpc = "stopped"
    BY <1>1, <1>4, Zenon DEF IsConn
  <2>2. ConnBecomes(z, c)
    BY <1>5, Becomes, Zenon DEF StopReading
  <2> HIDE DEF c
  <2> QED BY <2>1, <2>2, Zenon
<1>6. ASSUME NEW v, SetConn(z, [k EXCEPT !.rpc = v])
      PROVE  \E c : ConnBecomes(z, c) /\ c.wpc = k.wpc /\ c.rpc = v
  <2>1. [k EXCEPT !.rpc = v].wpc = k.wpc /\ [k EXCEPT !.rpc = v].rpc = v
    BY <1>1, Zenon DEF IsConn
  <2> QED BY <1>6, <2>1, Becomes, Zenon
<1>7. conn' = conn => ConnBecomes(z, k)
  BY Becomes, Zenon
<1>8. ASSUME st' = st \/ \E t : SetStream(z, t) /\ Unsent(s, t)
      PROVE  \E t : StBecomes(z, t) /\ Unsent(s, t)
  BY <1>8, Becomes, Zenon DEF Unsent
<1>9. ASSUME NEW t, StBecomes(z, t), Unsent(s, t), NEW c, ConnBecomes(z, c),
             c.wpc = k.wpc, writing' = writing,
             \/ /\ net' = net
                /\ c.rpc \in {"proc", "told"} =>
                      Handed(net[Peer(z)], writing[Peer(z)])
             \/ /\ Consume(z) /\ c.rpc \notin {"proc", "told"}
                /\ Handed(net[Peer(z)], writing[Peer(z)])
      PROVE  HeldInv'
  BY <1>9, HeldStep, Zenon
<1> DEFINE Stays == st' = st \/ \E t : SetStream(z, t) /\ Unsent(s, t)
           Stops == \E c : /\ ConnBecomes(z, c) /\ c.wpc = k.wpc
                           /\ c.rpc \notin {"proc", "told"}
           WriterStays == \E c : ConnBecomes(z, c) /\ c.wpc = k.wpc
<1>10. ASSUME writing' = writing, Stays,
              \/ net' = net /\ Stops
              \/ net' = net /\ WriterStays /\ Handed(net[Peer(z)], writing[Peer(z)])
              \/ Consume(z) /\ Stops /\ Handed(net[Peer(z)], writing[Peer(z)])
       PROVE  HeldInv'
  <2>1. PICK t : StBecomes(z, t) /\ Unsent(s, t)
    BY <1>8, <1>10, Zenon
  <2> QED BY <1>9, <1>10, <2>1, Zenon
<1> HIDE DEF k
<1>11. CASE \/ ArriveData(z) \/ ArriveReset(z) \/ ArriveWindow(z)
  <2>1. /\ Handed(net[Peer(z)], writing[Peer(z)]) /\ k.rpc = "idle"
        /\ writing' = writing /\ st' = st
    BY <1>3, <1>11, Zenon DEF ArriveData, ArriveReset, ArriveWindow, Arrives, k
  <2>2. \/ Consume(z) /\ StopReading(z, k, "EINVALIDSTREAM")
        \/ Consume(z) /\ conn' = conn
        \/ GotoProc(z) /\ net' = net
    BY <1>11, Zenon DEF ArriveData, ArriveReset, ArriveWindow, k
  <2> QED BY <1>5, <1>6, <1>7, <1>10, <2>1, <2>2, Zenon DEF GotoProc, k
<1>12. CASE ArriveOpen(z)
  <2>1. /\ Handed(net[Peer(z)], writing[Peer(z)]) /\ k.rpc = "idle"
        /\ writing' = writing
    BY <1>3, <1>12, Zenon DEF ArriveOpen, Arrives, k
  <2>2. /\ Unsent(s, NewIncoming(s))
        /\ \A e : Unsent(s, CloseWithError(NewIncoming(s), e))
    BY <1>1, UnsentMethods, Zenon
  <2>3. Stays
    BY <1>12, <2>2, Zenon DEF ArriveOpen
  <2>4. \/ Consume(z) /\ \E e : StopReading(z, k, e)
        \/ Consume(z) /\ conn' = conn
        \/ Consume(z) /\ SetConn(z, [k EXCEPT !.rpc = "refuse"])
        \/ GotoProc(z) /\ net' = net
    BY <1>12, Zenon DEF ArriveOpen, k
  <2> HIDE DEF s
  <2> QED BY <1>5, <1>6, <1>7, <1>10, <2>1, <2>3, <2>4, Zenon DEF GotoProc, k
<1>13. CASE RefuseStream(z)
  <2>1. Unsent(s, CloseWithError(s, "ECONNSHUTDOWN"))
    BY <1>1, UnsentMethods, Zenon
  <2>2. /\ SetStream(z, CloseWithError(s, "ECONNSHUTDOWN"))
        /\ SetConn(z, [k EXCEPT !.rpc = "idle"])
        /\ net' = net /\ writing' = writing
    BY <1>13, Zenon DEF RefuseStream, k
  <2>3. Stays
    BY <2>1, <2>2, Zenon
  <2>4. Stops
    <3>1. PICK c : ConnBecomes(z, c) /\ c.wpc = k.wpc /\ c.rpc = "idle"
      BY <1>6, <2>2, Zenon
    <3> QED BY <3>1, Zenon
  <2> QED BY <1>10, <2>2, <2>3, <2>4, Zenon
<1>14. CASE ArriveConnError(z)
  <2> DEFINE c == [FailOutgoing(k, "ECONNSHUTDOWN") EXCEPT !.rpc = "told"]
  <2>1. c.wpc = k.wpc
    BY <1>1, Zenon DEF FailOutgoing, IsConn
  <2>2. /\ ConnBecomes(z, c) /\ net' = net /\ writing' = writing /\ st' = st
    BY <1>14, Becomes, Zenon DEF ArriveConnError, k
  <2>3. Handed(net[Peer(z)], writing[Peer(z)])
    BY <1>3, <1>14, Zenon DEF ArriveConnError
  <2> HIDE DEF c
  <2> QED BY <1>10, <2>1, <2>2, <2>3, Zenon
<1>15. CASE ProcessConnError(z) \/ ReadFail(z)
  <2>1. /\ writing' = writing /\ st' = st /\ \E e : StopReading(z, k, e)
        /\ (k.rpc = "told" /\ Consume(z)) \/ net' = net
    BY <1>15, Zenon DEF ProcessConnError, ReadFail, k
  <2> QED BY <1>2, <1>5, <1>10, <2>1, Zenon
<1>16. CASE ProcessDataFrame(z) \/ ProcessResetFrame(z) \/ ProcessWindowFrame(z)
  <2>1. /\ Consume(z) /\ writing' = writing /\ k.rpc = "proc"
        /\ \/ SetConn(z, [k EXCEPT !.rpc = "idle"])
           \/ \E e : StopReading(z, k, e)
    BY <1>16, Zenon DEF ProcessDataFrame, ProcessResetFrame, ProcessWindowFrame, k
  <2>2. \A f, n : /\ Unsent(s, ProcessData(s, f)) /\ Unsent(s, ProcessReset(s, f))
                  /\ Unsent(s, ChangeWriteWindow(s, n))
    BY <1>1, UnsentMethods, Zenon
  <2>3. Stays
    BY <1>16, <2>2, Zenon DEF ProcessDataFrame, ProcessResetFrame, ProcessWindowFrame
  <2> HIDE DEF s
  <2> QED BY <1>2, <1>5, <1>6, <1>10, <2>1, <2>3, Zenon
<1> QED
  BY <1>11, <1>12, <1>13, <1>14, <1>15, <1>16, Zenon DEF ReadLoop

\* The application, and the connection as a whole.
LEMMA OthersHeld ==
    ASSUME Inv, HeldInv, NEW z \in Side,
           \/ NewStream(z) \/ ConnClose(z) \/ CloseStreams(z) \/ Shutdown(z)
           \/ Application(z)
    PROVE  HeldInv'
<1> DEFINE s == st[z]
           k == conn[z]
<1>1. /\ DOMAIN s = StreamField /\ IsConn(k)
      /\ HeldOK(st[Peer(z)], conn[Peer(z)].wpc, net[Peer(z)], writing[Peer(z)],
                k.rpc)
  BY InvAt, Sides, Zenon DEF HeldInv, EndOK, IsStream
<1>2. k.rpc \in {"proc", "told"} => Handed(net[Peer(z)], writing[Peer(z)])
  BY <1>1, Zenon DEF HeldOK, Handed
<1>3. net' = net /\ writing' = writing
  BY Zenon DEF NewStream, ConnClose, CloseStreams, Shutdown, Application, Read, Write,
               Flush, Acknowledge, Close, CloseRead, CloseWrite, ReadTimeout,
               WriteTimeout, App
<1>4. \E t : StBecomes(z, t) /\ Unsent(s, t)
  <2>1. \A e, n : /\ Unsent(s, NewOutgoing(s))
                  /\ Unsent(s, SetReadError(s, e)) /\ Unsent(s, SetWriteError(s, e))
                  /\ Unsent(s, CloseWithError(s, e))
                  /\ Unsent(s, ReadBytes(s, n)) /\ Unsent(s, WriteBytes(s, n))
                  /\ Unsent(s, AcknowledgeStream(s))
                  /\ Unsent(s, [s EXCEPT !.rwait = n])
                  /\ Unsent(s, [s EXCEPT !.wwait = n])
    BY <1>1, UnsentMethods, Zenon
  <2>2. st' = st \/ \E t : SetStream(z, t) /\ Unsent(s, t)
    <3>1. CASE NewStream(z) \/ ConnClose(z) \/ CloseStreams(z) \/ Shutdown(z)
      BY <2>1, <3>1, Zenon DEF NewStream, ConnClose, CloseStreams, Shutdown
    <3>2. CASE Application(z)
      <4>1. CASE Read(z)
        BY <2>1, <4>1, Zenon DEF Read, App
      <4>2. CASE Write(z)
        BY <2>1, <4>2, Zenon DEF Write, App
      <4>3. CASE Flush(z) \/ Acknowledge(z) \/ ReadTimeout(z) \/ WriteTimeout(z)
        BY <2>1, <4>3, Zenon DEF Flush, Acknowledge, ReadTimeout, WriteTimeout, App
      <4>4. CASE Close(z) \/ CloseRead(z) \/ CloseWrite(z)
        BY <2>1, <4>4, Zenon DEF Close, CloseRead, CloseWrite, App
      <4> QED BY <3>2, <4>1, <4>2, <4>3, <4>4, Zenon DEF Application
    <3> QED BY <3>1, <3>2, Zenon
  <2>3. Unsent(s, s)
    BY Zenon DEF Unsent
  <2> QED BY <2>2, <2>3, Becomes, Zenon
<1>5. \E c : ConnBecomes(z, c) /\ c.wpc = k.wpc /\ c.rpc = k.rpc
  <2>1. CASE NewStream(z) \/ Application(z)
    <3>1. conn' = conn
      BY <2>1, Zenon DEF NewStream, Application, Read, Write, Flush, Acknowledge,
                         Close, CloseRead, CloseWrite, ReadTimeout, WriteTimeout, App
    <3> QED BY <3>1, Becomes, Zenon
  <2>2. CASE CloseStreams(z) \/ Shutdown(z)
    <3>1. PICK m : SetConn(z, [k EXCEPT !.marks = m])
      BY <2>2, Zenon DEF CloseStreams, Shutdown
    <3>2. /\ [k EXCEPT !.marks = m].wpc = k.wpc /\ [k EXCEPT !.marks = m].rpc = k.rpc
      BY <1>1, Zenon DEF IsConn
    <3> QED BY <3>1, <3>2, Becomes, Zenon
  <2>3. CASE ConnClose(z)
    <3> DEFINE c == FailConn(k, "ECONNCLOSED", s)
    <3>1. c.wpc = k.wpc /\ c.rpc = k.rpc
      BY <1>1, Zenon DEF FailConn, FailOutgoing, IsConn
    <3>2. ConnBecomes(z, c)
      BY <2>3, Becomes, Zenon DEF ConnClose
    <3> HIDE DEF c
    <3> QED BY <3>1, <3>2, Zenon
  <2> QED BY <2>1, <2>2, <2>3, Zenon
<1> QED
  BY <1>2, <1>3, <1>4, <1>5, HeldStep, Zenon

\* What the write loops hold, in every reachable state.
LEMMA HeldInvariance == Spec => [](Inv /\ HeldInv)
<1>1. Init => HeldInv
  <2> SUFFICES ASSUME Init PROVE HeldInv
    OBVIOUS
  <2>1. /\ writing \in [Side -> BOOLEAN]
        /\ \A x \in Side : ~writing[x] /\ conn[x].rpc = "idle"
    BY DEF Init, NewConn
  <2> QED BY <2>1, Sides, Zenon DEF HeldInv, HeldOK
<1>2. ASSUME Inv, HeldInv, [Next]_vars
      PROVE  HeldInv'
  <2>1. CASE UNCHANGED <<st, conn, net, writing>>
    BY <1>2, <2>1, Zenon DEF HeldInv
  <2>2. CASE Break \/ UNCHANGED vars
    BY <2>1, <2>2 DEF Break, vars
  <2>3. CASE \E x \in Side :
                \/ NewStream(x) \/ ConnClose(x) \/ CloseStreams(x) \/ Shutdown(x)
                \/ WriteLoop(x) \/ ReadLoop(x) \/ Application(x)
    BY <1>2, <2>3, WriteLoopHeld, ReadLoopHeld, OthersHeld, Zenon
  <2> QED BY <1>2, <2>2, <2>3, Zenon DEF Next
<1> QED
  BY <1>1, <1>2, InitInv, NextInv, PTL DEF Spec

\* Every variable keeps its type; in particular the counters read.left and
\* write.left never go below zero.
THEOREM TypeCorrect == Spec => []TypeOK
<1>1. Inv /\ HeldInv => TypeOK
  BY Zenon DEF Inv, HeldInv, TypeOK
<1> QED
  BY <1>1, HeldInvariance, PTL

\* A stream that is fully closed has nothing to send.
LEMMA GoneIsSilent ==
    ASSUME Inv, NEW x \in Side, st[x].where = "gone"
    PROVE  /\ ~CtrlData(x) /\ ~CtrlWindow(x) /\ ~CtrlReset(x) /\ ~CtrlEOF(x)
           /\ ~WriteData(x)
<1> DEFINE s == Relocked(x)
<1>1. ASSUME InCtrl(x)
      PROVE  /\ ~NeedsDataCtrl(s) /\ ~NeedsWindow(s)
             /\ ~NeedsReset(s) /\ ~NeedsEOF(s)
  <2>1. StreamInv(s, "loop") /\ s.where = "gone"
    BY <1>1, RelockedInv DEF Same
  <2> HIDE DEF s
  <2> QED
    BY <2>1 DEF StreamInv, FlagsOK, ReadOK, BothEOF, IsStream, NeedsDataCtrl,
                NeedsWindow, NeedsReset, NeedsEOF
<1>2. ~WriteData(x)
  <2> SUFFICES ASSUME WriteData(x) PROVE FALSE
    BY Zenon
  <2>1. EndOK(st[x], conn[x], net[Peer(x)]) /\ conn[x].wpc = "data"
    BY InvAt, Zenon DEF WriteData
  <2>2. StreamInv(st[x], "data") /\ st[x].wired = 0
    BY <2>1, NothingWired, Zenon DEF EndOK
  <2>3. Buffered(st[x]) = 0 /\ st[x].wleft \in Nat
    BY <2>2 DEF StreamInv, IsStream, FlagsOK, BothEOF, PendingBytes, Buffered
  <2>4. ~(PayloadSize(st[x]) > 0)
    BY <2>3, SizesArePositive DEF PayloadSize, Least
  <2> QED BY <2>4 DEF WriteData
<1> QED
  BY <1>1, <1>2, Zenon DEF CtrlData, CtrlWindow, CtrlReset, CtrlEOF

\* Once cleanupLocked has removed a stream, writeCtrl and writeData prepare no
\* frame for it, and a DATA frame that is still being written carries EOF.
THEOREM QuietOnceRemoved == Spec => RemovedIsQuiet
<1> DEFINE Silent(x) ==
        st[x].where = "gone" /\ Len(net'[x]) > Len(net[x])
        => net'[x][Len(net'[x])].kind = "CONN"
           Last(x) ==
        st[x].where = "gone" /\ Writes(x) /\ Newest(net[x]).kind = "DATA"
        => "EOF" \in Newest(net[x]).flags
<1>1. ASSUME Inv, [Next]_vars, NEW x \in Side
      PROVE  Silent(x)
  <2> SUFFICES ASSUME st[x].where = "gone"
               PROVE  \/ ~(Len(net'[x]) > Len(net[x]))
                      \/ net'[x][Len(net'[x])].kind = "CONN"
    BY Zenon
  <2>1. /\ net \in [Side -> Seq(Frame)]
        /\ \A z \in Side : net[z] \in Seq(Frame) /\ Len(net[z]) \in Nat
    BY <1>1 DEF Inv, EndsTypeOK
  <2>2. CASE net' = net
    BY <2>1, <2>2
  <2>3. ASSUME NEW z \in Side, Consume(z), net[Peer(z)] # <<>>
        PROVE  ~(Len(net'[x]) > Len(net[x]))
    <3>1. Peer(z) \in Side
      BY Sides
    <3>2. net'[x] = net[x] \/ (net'[x] = Tail(net[x]) /\ net[x] # <<>>)
      BY <2>1, <2>3, <3>1, Zenon DEF Consume
    <3>3. net[x] # <<>> => Len(Tail(net[x])) = Len(net[x]) - 1
      BY <2>1
    <3> QED BY <2>1, <3>2, <3>3
  <2>4. ASSUME NEW z \in Side, z # x, NEW f, Send(z, f)
        PROVE  net'[x] = net[x]
    BY <2>1, <2>4 DEF Send
  <2>5. ASSUME NEW z \in Side, WriteLoop(z)
        PROVE  \/ ~(Len(net'[x]) > Len(net[x]))
               \/ net'[x][Len(net'[x])].kind = "CONN"
    <3>1. CASE z # x
      <4>1. net' = net \/ \E f : Send(z, f)
        BY <2>5 DEF WriteLoop, TakeCtrl, CtrlDiscard, CtrlData, CtrlWindow,
                    CtrlReset, CtrlEOF, CtrlDone, TakeData, WriteData, NoData,
                    DataDone, WriteFrame, WriteFail, SendConnError, CloseNetwork
      <4> QED BY <2>1, <2>4, <3>1, <4>1
    <3>2. CASE z = x
      <4>1. /\ ~CtrlData(x) /\ ~CtrlWindow(x) /\ ~CtrlReset(x)
            /\ ~CtrlEOF(x) /\ ~WriteData(x)
        BY <1>1, GoneIsSilent
      <4>2. CASE SendConnError(x)
        <5> DEFINE f == [kind |-> "CONN", flags |-> {}, pos |-> 0, len |-> 0,
                         err |-> WireErr(conn[x].oerr)]
        <5>1. Send(x, f) /\ f.kind = "CONN"
          BY <4>2 DEF SendConnError
        <5> HIDE DEF f
        <5>2. net'[x] = Append(net[x], f)
          BY <2>1, <5>1 DEF Send
        <5>3. Len(net'[x]) = Len(net[x]) + 1 /\ net'[x][Len(net[x]) + 1] = f
          BY <2>1, <5>2
        <5> QED BY <5>1, <5>3, Zenon
      <4>3. CASE ~SendConnError(x)
        <5>1. net' = net
          BY <2>5, <3>2, <4>1, <4>3, Zenon
             DEF WriteLoop, TakeCtrl, CtrlDiscard, CtrlDone, TakeData, NoData,
                 DataDone, WriteFrame, WriteFail, CloseNetwork
        <5> QED BY <2>1, <5>1
      <4> QED BY <4>2, <4>3
    <3> QED BY <3>1, <3>2
  <2>6. ASSUME NEW z \in Side, ReadLoop(z)
        PROVE  net' = net \/ (Consume(z) /\ net[Peer(z)] # <<>>)
    <3>1. conn[z].rpc = "proc" => net[Peer(z)] # <<>>
      BY <1>1, InvAt, Zenon DEF EndOK, ConnOK
    <3> QED
      BY <2>6, <3>1, Zenon
         DEF ReadLoop, ArriveOpen, RefuseStream, ArriveData, ArriveReset,
             ArriveWindow, ArriveConnError, ProcessDataFrame, ProcessResetFrame,
             ProcessWindowFrame, ProcessConnError, ReadFail, Arrives, AtHead,
             Incoming
  <2>7. ASSUME NEW z \in Side,
               \/ NewStream(z) \/ ConnClose(z) \/ CloseStreams(z)
               \/ Shutdown(z) \/ Application(z)
        PROVE  net' = net
    BY <2>7 DEF NewStream, ConnClose, CloseStreams, Shutdown, Application, Read,
                Write, Flush, Acknowledge, Close, CloseRead, CloseWrite,
                ReadTimeout, WriteTimeout, App
  <2>8. CASE Break \/ UNCHANGED vars
    BY <2>2, <2>8 DEF Break, vars
  <2> QED
    BY <1>1, <2>2, <2>3, <2>5, <2>6, <2>7, <2>8 DEF Next
<1>2. ASSUME Inv, HeldInv, NEW x \in Side
      PROVE  Last(x)
  <2> SUFFICES ASSUME st[x].where = "gone", writing[x], Newest(net[x]).kind = "DATA"
               PROVE  "EOF" \in Newest(net[x]).flags
    BY Zenon DEF Writes
  <2>1. "SentEOF" \in st[x].flags
    BY <1>2, InvAt, Zenon DEF EndOK, StreamInv, FlagsOK, BothEOF
  <2>2. HeldOK(st[x], conn[x].wpc, net[x], TRUE, conn[Peer(x)].rpc)
    BY <1>2 DEF HeldInv
  <2> QED BY <2>1, <2>2, Zenon DEF HeldOK
<1>3. (Inv /\ HeldInv) /\ [Next]_vars
      => [\A x \in Side : st[x].where = "gone" =>
             /\ Len(net'[x]) > Len(net[x]) => Newest(net'[x]).kind = "CONN"
             /\ Writes(x) /\ Newest(net[x]).kind = "DATA"
                => "EOF" \in Newest(net[x]).flags]_vars
  BY <1>1, <1>2, Zenon DEF Newest
<1> QED
  BY <1>3, HeldInvariance, PTL DEF Spec, RemovedIsQuiet
-----------------------------------------------------------------------------
\* Each end

\* Both ends are in order in every reachable state of every instance.
LEMMA LocalInvariance == Spec => []LocalInv
<1>1. Init => LocalInv
  <2>1. LocalOK(NoStream)
    BY SizesArePositive
       DEF NoStream, LocalOK, CreditOK, ClosedOK, ParkedOK, Readable, Buffered
  <2> QED BY <2>1, Zenon DEF Init, LocalInv
<1> QED
  BY <1>1, NextLocal, Invariance, PTL DEF Spec

\* No credit leaks, whatever the sizes and whoever closes what: while a stream
\* can be read, read.left, the read buffer and read.increment add up to the
\* window (processDataLocked, Read, writeCtrl, setReadErrorLocked).
THEOREM CreditIsConserved == Spec => []CreditConserved
<1>1. LocalInv => CreditConserved
  BY DEF LocalInv, LocalOK, CreditOK, CreditConserved
<1> QED
  BY <1>1, LocalInvariance, PTL

\* The channels acked and closed are closed when they should be and never
\* twice, so that setReadErrorLocked, setWriteErrorLocked and
\* processDataLocked cannot panic.
THEOREM NoSecondClose == Spec => []ChannelsClosedOnce
<1>1. LocalInv => ChannelsClosedOnce
  BY DEF LocalInv, LocalOK, ClosedOK, ChannelsClosedOnce
<1> QED
  BY <1>1, LocalInvariance, PTL

\* A goroutine parked in Read, Write or Flush has a reason to be: every change
\* that ends its wait is followed by the Broadcast.
THEOREM WakeupsAreNotLost == Spec => []NoLostWakeup
<1>1. LocalInv => NoLostWakeup
  BY DEF LocalInv, LocalOK, ParkedOK, NoLostWakeup
<1> QED
  BY <1>1, LocalInvariance, PTL

\* A stream with work is scheduled in every reachable state of every instance.
LEMMA ScheduledInvariance == Spec => []ScheduledInv
<1>1. Init => ScheduledInv
  <2>1. ~ActiveData(NoStream) /\ ~OwesCtrl(NoStream)
    BY DEF NoStream, ActiveData, OwesCtrl, NeedsDataCtrl, NeedsWindow, NeedsReset,
           PendingBytes, Buffered
  <2>2. \A w : ScheduledOK(NoStream, w)
    BY <2>1, Zenon DEF ScheduledOK
  <2> QED BY <2>2, Zenon DEF Init, ScheduledInv
<1> QED
  BY <1>1, NextScheduled, Invariance, PTL DEF Spec

\* A payload that the window admits is never stranded: whatever Write, WINDOW
\* frames, RESET and writeCtrl do in between, the stream is in the data queue
\* or in the hands of writeData.
THEOREM DataIsScheduled == Spec => []DataScheduled
<1>1. ScheduledInv => DataScheduled
  BY DEF ScheduledInv, ScheduledOK, DataHeld, DataScheduled
<1> QED
  BY <1>1, ScheduledInvariance, PTL

\* A control frame that is owed (OPEN, ACK, WINDOW, RESET or EOF) is never
\* forgotten: the stream is in the ctrl queue or in the hands of writeCtrl.
THEOREM CtrlIsScheduled == Spec => []CtrlScheduled
<1>1. ScheduledInv => CtrlScheduled
  BY DEF ScheduledInv, ScheduledOK, CtrlHeld, CtrlScheduled
<1> QED
  BY <1>1, ScheduledInvariance, PTL
-----------------------------------------------------------------------------
\* The two directions

\* Both invariants hold in every reachable state of every instance.
THEOREM FlowInvariance == Spec => [](Inv /\ FlowInv)
<1>1. Init => Inv /\ FlowInv
  BY InitInv, InitFlow
<1>2. Inv /\ FlowInv /\ [Next]_vars => (Inv /\ FlowInv)'
  BY NextInv, NextFlow
<1> QED
  BY <1>1, <1>2, PTL DEF Spec

\* processDataLocked appends every payload where the last one ended: nothing is
\* lost, duplicated or reordered on the way to a stream that can be read.
THEOREM BytesInOrder == Spec => []InOrder
<1>1. ASSUME Inv, FlowInv, NEW x \in Side,
             conn[x].rpc = "proc", Head(net[Peer(x)]).kind = "DATA",
             Head(net[Peer(x)]).len > 0, st[x].rerr = None
      PROVE  Head(net[Peer(x)]).pos = st[x].rhi
  <2> DEFINE q == net[Peer(x)]
             s == st[Peer(x)]
  <2>1. /\ q \in Seq(Frame) /\ q # <<>> /\ HistoryOK(st[x])
        /\ Flow(s, st[x], conn[x], q)
    BY <1>1, FlowAt, Zenon
  <2>2. Head(q) = q[1]
    BY <2>1
  <2>3. Tracking(st[x], conn[x], q)
    BY <1>1, <2>2, Zenon DEF Tracking
  <2>4. PICK p : Chain(p, st[x].got, s.sent, q)
    BY <2>1, <2>3, Zenon DEF Flow
  <2>5. q[1].pos = st[x].got
    BY <1>1, <2>1, <2>2, <2>4, ChainTail
  <2> QED BY <1>1, <2>1, <2>2, <2>5, Zenon DEF HistoryOK
<1>2. Inv /\ FlowInv => InOrder
  BY <1>1, Zenon DEF InOrder, Incoming
<1> QED
  BY <1>2, FlowInvariance, PTL

\* Read reports a clean io.EOF only after every byte that the other end's Write
\* accepted (activeEOF and writeCtrl send EOF last, processResetFrame turns only
\* ECLOSED into io.EOF).
THEOREM EOFIsClean == Spec => []CleanEOF
<1>1. ASSUME Inv, FlowInv, NEW x \in Side, st[x].rerr = "EOF"
      PROVE  st[x].rhi = st[Peer(x)].whi
  BY <1>1, FlowAt, Zenon DEF Flow
<1>2. Inv /\ FlowInv => CleanEOF
  BY <1>1, Zenon DEF CleanEOF
<1> QED
  BY <1>2, FlowInvariance, PTL

\* A step as the writing application at x and the reading one at its peer see it.
LEMMA DirectionStep ==
    ASSUME Inv, FlowInv, [Next]_vars, NEW x \in Side
    PROVE  LET s == st[x]
               t == st'[x]
               r == st[Peer(x)]
               u == st'[Peer(x)]
           IN \/ /\ t.whi = s.whi /\ t.werr = s.werr
                 /\ u.rhi = r.rhi /\ u.rerr = r.rerr
              \/ /\ u = r /\ s.werr = None /\ t.werr = None
                 /\ t.whi \in Nat /\ t.whi > s.whi
              \/ /\ u = r /\ s.werr = None /\ t.werr # None /\ t.whi = s.whi
              \/ /\ t = s /\ r.rerr = None /\ u.rerr = None
                 /\ u.rhi \in r.rhi + 1 .. s.whi
              \/ /\ t = s /\ r.rerr = None /\ u.rerr = "EOF"
                 /\ s.werr = "ECLOSED" /\ u.rhi = s.whi
              \/ /\ t = s /\ r.rerr = None /\ u.rerr \notin {None, "EOF"}
                 /\ u.rhi = r.rhi
<1> DEFINE y == Peer(x)
           s == st[x]
           t == st'[x]
           r == st[y]
           u == st'[y]
<1>1. Inv' /\ FlowInv' /\ Moved
  BY NextInv, NextFlow
<1>2. y \in Side /\ Peer(y) = x /\ \A z \in Side : z = x \/ z = y
  BY Sides, Zenon
<1>3. IsStream(t) /\ IsStream(u) /\ DataOK(t, u, net'[x])
  BY <1>1, <1>2, Zenon DEF Inv, EndsTypeOK, ChannelOK
<1>4. HistoryOK(t) /\ HistoryOK(u) /\ Flow(t, u, conn'[y], net'[x])
  BY <1>1, <1>2, Zenon DEF FlowInv
<1>5. IsStream(r) /\ IsStream(s)
  BY <1>2, Zenon DEF Inv, EndsTypeOK
<1>6. /\ t.whi \in Nat /\ u.rhi \in Nat /\ u.got \in Nat /\ t.sent \in Nat
      /\ r.rhi \in Nat /\ s.whi \in Nat
  BY <1>3, <1>5, Zenon DEF IsStream
<1>7. \/ u = r /\ WriterMoves(s, t)
      \/ t = s /\ ReaderMoves(r, u)
  BY <1>1, <1>2, Zenon DEF Moved
<1> HIDE DEF y, s, t, r, u
<1>8. CASE u = r /\ WriterMoves(s, t)
  BY <1>6, <1>8, Zenon DEF WriterMoves, s, t, r, u, y
<1>9. CASE t = s /\ ReaderMoves(r, u)
  <2>1. u.rerr = None => u.rhi <= s.whi
    BY <1>3, <1>4, <1>6, <1>9 DEF HistoryOK, DataOK
  <2>2. u.rerr = "EOF" => s.werr = "ECLOSED" /\ u.rhi = s.whi
    BY <1>4, <1>9 DEF Flow
  <2>3. u.rerr = None /\ u.rhi > r.rhi => u.rhi \in r.rhi + 1 .. s.whi
    BY <1>6, <2>1
  <2> QED BY <1>9, <2>2, <2>3, Zenon DEF ReaderMoves, s, t, r, u, y
<1> QED
  BY <1>7, <1>8, <1>9

\* Each direction of a stream implements ByteStream: whatever frames, resets,
\* windows and failures do in between, Read returns a prefix of what Write
\* accepted, and io.EOF only at the end of all of it.
THEOREM StreamIsByteStream == Spec => ImplementsByteStream
<1>1. Init => Upload!BInit /\ Download!BInit
  BY DEF Init, Upload!BInit, Download!BInit, NoStream, WriterState, ReaderState,
         Side, None
<1>2. ASSUME Inv, FlowInv, [Next]_vars
      PROVE  [Upload!BNext]_Upload!bvars
  <2>1. "client" \in Side /\ Peer("client") = "server"
    BY Zenon DEF Side, Peer
  <2> QED
    BY <1>2, <2>1, DirectionStep
    DEF Upload!BNext, Upload!bvars, Upload!Accept, Upload!StopWriting,
        Upload!Deliver, Upload!Finish, Upload!StopReading, WriterState,
        ReaderState, None
<1>3. ASSUME Inv, FlowInv, [Next]_vars
      PROVE  [Download!BNext]_Download!bvars
  <2>1. "server" \in Side /\ Peer("server") = "client"
    BY DEF Side, Peer
  <2> QED
    BY <1>3, <2>1, DirectionStep
    DEF Download!BNext, Download!bvars, Download!Accept, Download!StopWriting,
        Download!Deliver, Download!Finish, Download!StopReading, WriterState,
        ReaderState, None
<1>4. Inv /\ FlowInv /\ [Next]_vars =>
         [Upload!BNext]_Upload!bvars /\ [Download!BNext]_Download!bvars
  BY <1>2, <1>3
<1> QED
  BY <1>1, <1>4, FlowInvariance, PTL
  DEF Spec, ImplementsByteStream, Upload!BSpec, Download!BSpec
=============================================================================
