-------------------------- MODULE PublicationProofs --------------------------
(***************************************************************************)
(* Endpoints are neither overloaded nor forgotten, for any number of       *)
(* endpoints and requests and any settings: active counts the requests     *)
(* that hold an endpoint, running or still waking up, and an endpoint is   *)
(* ready exactly when that count is below its concurrency.  To keep count  *)
(* one has to know that a request holds at most one endpoint, which        *)
(* follows from where it stands, and that a hand-over meets a request      *)
(* that waits, which follows from who is in the queue.                     *)
(***************************************************************************)
EXTENDS Publication, FiniteSetTheorems, TLAPS

In(q, r) == \E i \in 1 .. Len(q) : q[i] = r
Distinct(q) == \A i, j \in 1 .. Len(q) : q[i] = q[j] => i = j

ShapeOK ==
    /\ published \in SUBSET Endpoint /\ removed \in SUBSET Endpoint
    /\ ready \in SUBSET published
    /\ active \in [Endpoint -> Nat]
    /\ queue \in Seq(Request)
    /\ settings.queueSize \in Nat
    /\ chan \in [Request -> Endpoint \cup {NoEndpoint, Empty}]
    /\ pc \in [Request -> PC]
    /\ held \in [Request -> Endpoint \cup {NoEndpoint}]
    /\ before \in [Request -> SUBSET Endpoint]
    /\ waking \in Nat

\* What a request has, by where it stands.
PlaceOK ==
    \A r \in Request :
        /\ held[r] # NoEndpoint <=> pc[r] \in {"serving", "failed"}
        /\ chan[r] # Empty => pc[r] = "waiting"
        /\ pc[r] = "missed" => published # {}
        /\ pc[r] = "failed" => held[r] \notin published

\* A request never has an endpoint that was removed before it began; whoever
\* retries, or is about to, has seen one removed.
AgeOK ==
    /\ published \cap removed = {}
    /\ \A r \in Request :
          /\ before[r] \subseteq removed
          /\ held[r] \in Endpoint => held[r] \in (published \cup removed) \ before[r]
          /\ chan[r] \in Endpoint => chan[r] \in (published \cup removed) \ before[r]
          /\ chan[r] = NoEndpoint \/ pc[r] = "retry" => removed \ before[r] # {}

QueueOK ==
    /\ Distinct(queue)
    /\ \A r \in Request : In(queue, r) <=> pc[r] = "waiting" /\ chan[r] = Empty
    /\ QueueBounded

CapacityOK ==
    \A e \in Endpoint :
        /\ e \in published =>
              /\ active[e] = Cardinality(Holders(e))
              /\ active[e] <= Concurrency[e]
              /\ e \in ready <=> active[e] < Concurrency[e]
        /\ e \notin published \cup removed => active[e] = 0

PubInv == ShapeOK /\ PlaceOK /\ AgeOK /\ QueueOK /\ CapacityOK

-----------------------------------------------------------------------------
\* Queues

\* Who is in the queue when its first waiter has left it.
LEMMA TailQueue ==
    ASSUME NEW q \in Seq(Request), q # <<>>, Distinct(q)
    PROVE  /\ Head(q) \in Request /\ In(q, Head(q))
           /\ Tail(q) \in Seq(Request) /\ Len(Tail(q)) = Len(q) - 1
           /\ Distinct(Tail(q))
           /\ \A r : In(Tail(q), r) <=> In(q, r) /\ r # Head(q)
<1>1. Len(q) \in Nat /\ Len(q) >= 1 /\ Head(q) = q[1] /\ q[1] \in Request
  OBVIOUS
<1>2. /\ Tail(q) \in Seq(Request) /\ Len(Tail(q)) = Len(q) - 1
      /\ \A i \in 1 .. Len(q) - 1 : Tail(q)[i] = q[i + 1]
  OBVIOUS
<1>3. Distinct(Tail(q))
  BY <1>1, <1>2 DEF Distinct
<1>4. ASSUME NEW r PROVE In(Tail(q), r) <=> In(q, r) /\ r # Head(q)
  <2>1. ASSUME In(Tail(q), r) PROVE In(q, r) /\ r # Head(q)
    BY <1>1, <1>2, <2>1 DEF In, Distinct
  <2>2. ASSUME In(q, r), r # Head(q) PROVE In(Tail(q), r)
    <3>1. PICK i \in 1 .. Len(q) : q[i] = r
      BY <2>2 DEF In
    <3>2. i - 1 \in 1 .. Len(q) - 1 /\ Tail(q)[i - 1] = r
      BY <1>1, <1>2, <2>2, <3>1
    <3> QED BY <1>2, <3>2 DEF In
  <2> QED BY <2>1, <2>2
<1> QED BY <1>1, <1>2, <1>3, <1>4 DEF In

\* The same when a waiter was added at the end (queueWaiterRLocked).
LEMMA AppendQueue ==
    ASSUME NEW q \in Seq(Request), NEW w \in Request, Distinct(q), ~In(q, w)
    PROVE  /\ Append(q, w) \in Seq(Request) /\ Len(Append(q, w)) = Len(q) + 1
           /\ Distinct(Append(q, w))
           /\ \A r : In(Append(q, w), r) <=> In(q, r) \/ r = w
<1> DEFINE a == Append(q, w)
<1>1. /\ Len(q) \in Nat /\ a \in Seq(Request) /\ Len(a) = Len(q) + 1
      /\ \A i \in 1 .. Len(q) : a[i] = q[i]
      /\ a[Len(q) + 1] = w
  OBVIOUS
<1> HIDE DEF a
<1>2. Distinct(a)
  BY <1>1 DEF Distinct, In
<1>3. \A r : In(a, r) <=> In(q, r) \/ r = w
  BY <1>1 DEF In
<1> QED BY <1>1, <1>2, <1>3 DEF a

\* The same when only the first k waiters are kept (unpublishLocked).
LEMMA PrefixQueue ==
    ASSUME NEW q \in Seq(Request), NEW k \in 0 .. Len(q), Distinct(q)
    PROVE  /\ SubSeq(q, 1, k) \in Seq(Request) /\ Len(SubSeq(q, 1, k)) = k
           /\ Distinct(SubSeq(q, 1, k))
           /\ \A r : In(SubSeq(q, 1, k), r) <=>
                     In(q, r) /\ r \notin {q[i] : i \in k + 1 .. Len(q)}
<1> DEFINE p == SubSeq(q, 1, k)
<1>1. /\ Len(q) \in Nat /\ p \in Seq(Request) /\ Len(p) = k
      /\ \A i \in 1 .. k : p[i] = q[i]
  OBVIOUS
<1> HIDE DEF p
<1>2. Distinct(p)
  BY <1>1 DEF Distinct
<1>3. ASSUME NEW r
      PROVE  In(p, r) <=> In(q, r) /\ r \notin {q[i] : i \in k + 1 .. Len(q)}
  <2>1. ASSUME In(p, r)
        PROVE  In(q, r) /\ r \notin {q[i] : i \in k + 1 .. Len(q)}
    BY <1>1, <2>1 DEF In, Distinct
  <2>2. ASSUME In(q, r), r \notin {q[i] : i \in k + 1 .. Len(q)}
        PROVE  In(p, r)
    BY <1>1, <2>2 DEF In
  <2> QED BY <2>1, <2>2
<1> QED BY <1>1, <1>2, <1>3 DEF p

\* The others were waiting.
LEMMA RestQueue ==
    ASSUME NEW q \in Seq(Request), NEW k \in 0 .. Len(q)
    PROVE  \A r \in {q[i] : i \in k + 1 .. Len(q)} : In(q, r)
  BY DEF In

\* The same when the i-th waiter has left (cancelWaiterRLocked).
LEMMA WithoutQueue ==
    ASSUME NEW q \in Seq(Request), NEW i \in 1 .. Len(q), Distinct(q)
    PROVE  /\ Without(q, i) \in Seq(Request) /\ Len(Without(q, i)) = Len(q) - 1
           /\ Distinct(Without(q, i))
           /\ \A r : In(Without(q, i), r) <=> In(q, r) /\ r # q[i]
<1> DEFINE p == Without(q, i)
<1>1. /\ Len(q) \in Nat /\ p \in Seq(Request) /\ Len(p) = Len(q) - 1
      /\ \A j \in 1 .. Len(q) - 1 : p[j] = IF j < i THEN q[j] ELSE q[j + 1]
  <2> DEFINE a == SubSeq(q, 1, i - 1)
             b == SubSeq(q, i + 1, Len(q))
  <2>1. /\ a \in Seq(Request) /\ Len(a) = i - 1
        /\ \A j \in 1 .. i - 1 : a[j] = q[j]
    OBVIOUS
  <2>2. /\ b \in Seq(Request) /\ Len(b) = Len(q) - i
        /\ \A j \in 1 .. Len(q) - i : b[j] = q[j + i]
    OBVIOUS
  <2>3. p = a \o b
    BY DEF Without
  <2> HIDE DEF a, b, p
  <2>4. /\ a \o b \in Seq(Request) /\ Len(a \o b) = Len(q) - 1
        /\ \A j \in 1 .. Len(q) - 1 :
              (a \o b)[j] = IF j < i THEN a[j] ELSE b[j - (i - 1)]
    <3>1. a \in Seq(Request) /\ b \in Seq(Request)
      BY <2>1, <2>2
    <3>2. /\ a \o b \in Seq(Request) /\ Len(a \o b) = Len(a) + Len(b)
          /\ \A j \in 1 .. Len(a) + Len(b) :
                (a \o b)[j] = IF j <= Len(a) THEN a[j] ELSE b[j - Len(a)]
      BY <3>1
    <3> QED BY <2>1, <2>2, <3>2
  <2> QED BY <2>1, <2>2, <2>3, <2>4
<1> HIDE DEF p
<1>2. Distinct(p)
  BY <1>1, SMTT(30) DEF Distinct
<1>3. ASSUME NEW r PROVE In(p, r) <=> In(q, r) /\ r # q[i]
  <2>1. ASSUME In(p, r) PROVE In(q, r) /\ r # q[i]
    BY <1>1, <2>1 DEF In, Distinct
  <2>2. ASSUME In(q, r), r # q[i] PROVE In(p, r)
    <3>1. PICK j \in 1 .. Len(q) : q[j] = r
      BY <2>2 DEF In
    <3>2. CASE j < i
      BY <1>1, <3>1, <3>2 DEF In
    <3>3. CASE j > i
      <4>1. j - 1 \in 1 .. Len(q) - 1 /\ p[j - 1] = r
        BY <1>1, <3>1, <3>3
      <4> QED BY <1>1, <4>1 DEF In
    <3> QED BY <2>2, <3>1, <3>2, <3>3
  <2> QED BY <2>1, <2>2
<1> QED BY <1>1, <1>2, <1>3 DEF p

-----------------------------------------------------------------------------
\* Counting

\* The requests that hold an endpoint are finitely many, one more when a
\* request gets it and one less when it gives it back.
LEMMA CountHolders ==
    ASSUME NEW S \in SUBSET Request, NEW r \in Request
    PROVE  /\ Cardinality(S) \in Nat
           /\ r \notin S => Cardinality(S \cup {r}) = Cardinality(S) + 1
           /\ r \in S => Cardinality(S \ {r}) = Cardinality(S) - 1
<1>1. IsFiniteSet(S)
  BY FS_Subset, PublicationParameters
<1> QED BY <1>1, FS_CardinalityType, FS_AddElement, FS_RemoveElement

\* A request has at most one endpoint, and a queued one has none.
LEMMA OneEach ==
    ASSUME PubInv, NEW r \in Request
    PROVE  /\ \A d \in Endpoint : held[r] = d => chan[r] = Empty
           /\ \A d \in Endpoint : chan[r] = d => held[r] = NoEndpoint
           /\ pc[r] \notin {"waiting", "serving", "failed"} =>
                 \A d \in Endpoint : r \notin Holders(d)
           /\ In(queue, r) => \A d \in Endpoint : r \notin Holders(d)
<1> QED BY PublicationParameters
        DEF PubInv, ShapeOK, PlaceOK, QueueOK, Holders, NoEndpoint, Empty

\* The count of an endpoint and its place in pub.ready when its requests are
\* as many as before.
LEMMA SameCount ==
    ASSUME CapacityOK,
           \A e \in published : Cardinality(Holders(e))' = Cardinality(Holders(e)),
           UNCHANGED <<published, removed, active, ready>>
    PROVE  CapacityOK'
BY DEF CapacityOK

\* takeEndpointLocked: one more request has the endpoint it takes.
LEMMA TakeCount ==
    ASSUME PubInv, NEW e \in ready, Take(e), NEW w \in Request, w \notin Holders(e),
           Holders(e)' = Holders(e) \cup {w},
           \A d \in Endpoint \ {e} : Holders(d)' = Holders(d),
           UNCHANGED <<published, removed>>
    PROVE  /\ CapacityOK'
           /\ ready' \in SUBSET published' /\ active' \in [Endpoint -> Nat]
<1>1. /\ e \in published /\ e \in Endpoint
      /\ active \in [Endpoint -> Nat] /\ ready \in SUBSET published
      /\ published \in SUBSET Endpoint
  BY DEF PubInv, ShapeOK
<1>2. active[e] \in Nat /\ Concurrency[e] \in Nat /\ active[e] < Concurrency[e]
  BY <1>1, PublicationParameters DEF PubInv, CapacityOK
<1>3. Cardinality(Holders(e))' = active[e] + 1
  <2>1. Holders(e) \in SUBSET Request
    BY DEF Holders
  <2>2. Cardinality(Holders(e) \cup {w}) = Cardinality(Holders(e)) + 1
    BY <2>1, CountHolders, Zenon
  <2> QED BY <1>1, <2>2 DEF PubInv, CapacityOK
<1>4. /\ active' \in [Endpoint -> Nat]
      /\ \A d \in Endpoint : active'[d] = IF d = e THEN active[e] + 1 ELSE active[d]
      /\ ready' = IF active[e] + 1 = Concurrency[e] THEN ready \ {e} ELSE ready
  BY <1>1, <1>2 DEF Take
<1>5. ASSUME NEW d \in Endpoint
      PROVE  /\ d \in published' =>
                   /\ active'[d] = Cardinality(Holders(d))'
                   /\ active'[d] <= Concurrency[d]
                   /\ d \in ready' <=> active'[d] < Concurrency[d]
             /\ d \notin published' \cup removed' => active'[d] = 0
  <2>1. CASE d = e
    BY <1>1, <1>2, <1>3, <1>4, <2>1
  <2>2. CASE d # e
    BY <1>1, <1>4, <2>2 DEF PubInv, CapacityOK
  <2> QED BY <2>1, <2>2
<1> QED BY <1>1, <1>4, <1>5 DEF CapacityOK

-----------------------------------------------------------------------------
\* Steps

\* What AgeOK needs to know of a step that removes no endpoint: requests get
\* only published ones, and retry only for a reason.
LEMMA AgeKept ==
    ASSUME AgeOK, UNCHANGED <<published, removed, before>>,
           \A v \in Request :
              /\ held'[v] \in Endpoint =>
                    held'[v] = held[v] \/ held'[v] = chan[v] \/ held'[v] \in published
              /\ chan'[v] \in Endpoint => chan'[v] = chan[v] \/ chan'[v] \in published
              /\ chan'[v] = NoEndpoint => chan[v] = NoEndpoint
              /\ pc'[v] = "retry" => pc[v] = "retry" \/ removed \ before[v] # {}
    PROVE  AgeOK'
BY DEF AgeOK

\* r gives e back and is done or retries: releaseEndpointRLocked in Finish and
\* in CancelWaiter.  The first waiter gets e, or e is ready again, or is gone.
LEMMA ReleaseStep ==
    ASSUME PubInv, NEW r \in Request, NEW e \in Endpoint \cup {NoEndpoint},
           NEW k,
           k \in [Request -> Endpoint \cup {NoEndpoint, Empty}],
           \A w \in Request : k[w] = IF w = r THEN Empty ELSE chan[w],
           held' \in [Request -> Endpoint \cup {NoEndpoint}],
           \A w \in Request : held'[w] = IF w = r THEN NoEndpoint ELSE held[w],
           e = IF pc[r] = "waiting" THEN chan[r] ELSE held[r],
           pc[r] \in {"waiting", "serving", "failed"}, ~In(queue, r),
           pc' \in [Request -> PC], pc'[r] \in {"done", "retry"},
           \A w \in Request : w # r => pc'[w] = pc[w],
           pc'[r] = "retry" => held[r] \in Endpoint \ published,
           Release(e, k), UNCHANGED <<registry, before, waking>>
    PROVE  PubInv'
<1> USE DEF registry
<1>1. ShapeOK /\ PlaceOK /\ AgeOK /\ QueueOK /\ CapacityOK
  BY DEF PubInv
<1>2. \A w \in Request : pc'[w] = IF w = r THEN pc'[r] ELSE pc[w]
  OBVIOUS
<1>3. \A d \in Endpoint : r \in Holders(d) <=> d = e
  <2>1. \A d \in Endpoint : d # NoEndpoint /\ d # Empty
    BY PublicationParameters
  <2> QED BY <1>1, <2>1 DEF ShapeOK, PlaceOK, Holders, NoEndpoint, Empty
<1>4. /\ \A d \in Endpoint : d # NoEndpoint /\ d # Empty
      /\ NoEndpoint # Empty /\ published \subseteq Endpoint
      /\ pc'[r] = "retry" => removed \ before[r] # {}
  BY <1>1, PublicationParameters, ZenonT(30) DEF AgeOK, ShapeOK, NoEndpoint, Empty
<1>5. CASE e \notin published
  <2>1. chan' = k /\ UNCHANGED <<active, ready, queue>>
    BY <1>5 DEF Release
  <2>2. ShapeOK'
    BY <1>1, <1>2, <2>1 DEF ShapeOK
  <2>3. PlaceOK'
    BY <1>1, <1>2, <2>1 DEF PlaceOK
  <2>4. AgeOK'
    BY <1>1, <1>2, <1>4, <2>1, AgeKept
  <2>5. QueueOK'
    BY <1>1, <1>2, <2>1 DEF QueueOK, QueueBounded
  <2>6. \A d \in published : Holders(d)' = Holders(d)
    BY <1>1, <1>3, <1>5, <2>1, PublicationParameters DEF Holders, ShapeOK
  <2>7. CapacityOK'
    BY <1>1, <2>1, <2>6, SameCount
  <2> QED BY <2>2, <2>3, <2>4, <2>5, <2>7 DEF PubInv
<1>6. CASE e \in published /\ queue # <<>>
  <2> DEFINE w == Head(queue)
  <2>1. chan' = [k EXCEPT ![w] = e] /\ queue' = Tail(queue) /\ UNCHANGED <<active, ready>>
    BY <1>6 DEF Release
  <2>2. /\ w \in Request /\ In(queue, w)
        /\ queue' \in Seq(Request) /\ Len(queue') = Len(queue) - 1
        /\ Distinct(queue')
        /\ \A v : In(queue', v) <=> In(queue, v) /\ v # w
    BY <1>1, <1>6, <2>1, TailQueue DEF ShapeOK, QueueOK
  <2> HIDE DEF w
  <2>3. w # r /\ pc[w] = "waiting" /\ chan[w] = Empty
    BY <1>1, <2>2 DEF QueueOK
  <2>4. /\ e \in Endpoint /\ e # Empty /\ e # NoEndpoint
        /\ chan' \in [Request -> Endpoint \cup {NoEndpoint, Empty}]
        /\ \A v \in Request : chan'[v] = IF v = w THEN e ELSE k[v]
    BY <1>1, <1>6, <2>1, <2>2, PublicationParameters DEF ShapeOK
  <2>5. ShapeOK'
    BY <1>1, <1>2, <2>1, <2>2, <2>4 DEF ShapeOK
  <2>6. PlaceOK'
    BY <1>1, <1>2, <2>3, <2>4 DEF PlaceOK
  <2>7. AgeOK'
    BY <1>1, <1>2, <1>6, <1>4, <2>3, <2>4, AgeKept, Zenon
  <2>8. QueueOK'
    <3>1. \A v \in Request : In(queue', v) <=> pc'[v] = "waiting" /\ chan'[v] = Empty
      BY <1>1, <1>2, <2>2, <2>3, <2>4 DEF QueueOK
    <3>2. QueueBounded'
      BY <1>1, <1>6, <2>2 DEF QueueOK, QueueBounded, ShapeOK
    <3> QED BY <2>2, <3>1, <3>2 DEF QueueOK
  <2>9. ASSUME NEW d \in published
        PROVE  Cardinality(Holders(d))' = Cardinality(Holders(d))
    <3>1. d \in Endpoint /\ d # Empty /\ d # NoEndpoint
      BY <1>1, PublicationParameters DEF ShapeOK
    <3>2. Holders(d) \in SUBSET Request
      BY DEF Holders
    <3>3. CASE d # e
      <4>1. Holders(d)' = Holders(d)
        BY <1>3, <2>3, <2>4, <3>1, <3>3, OneEach, <2>2 DEF Holders
      <4> QED BY <4>1
    <3>4. CASE d = e
      <4>1. w \notin Holders(d) \ {r} /\ r \in Holders(d)
        BY <1>3, <2>2, <3>1, <3>4, OneEach
      <4>2. Holders(d)' = (Holders(d) \ {r}) \cup {w}
        BY <2>2, <2>3, <2>4, <3>1, <3>4 DEF Holders
      <4>3. Cardinality((Holders(d) \ {r}) \cup {w}) = Cardinality(Holders(d) \ {r}) + 1
        BY <2>2, <3>2, <4>1, CountHolders, Zenon
      <4>4. /\ Cardinality(Holders(d) \ {r}) = Cardinality(Holders(d)) - 1
            /\ Cardinality(Holders(d)) \in Nat
        BY <3>2, <4>1, CountHolders, Zenon
      <4> QED BY <4>2, <4>3, <4>4
    <3> QED BY <3>3, <3>4
  <2>10. CapacityOK'
    BY <1>1, <2>1, <2>9, SameCount
  <2> QED BY <2>5, <2>6, <2>7, <2>8, <2>10 DEF PubInv
<1>7. CASE e \in published /\ queue = <<>>
  <2>1. /\ chan' = k /\ queue' = queue
        /\ active' = [active EXCEPT ![e] = @ - 1] /\ ready' = ready \cup {e}
    BY <1>7 DEF Release
  <2>2. e \in Endpoint /\ published \in SUBSET Endpoint
    BY <1>1, <1>7, Zenon DEF ShapeOK
  <2>3. Holders(e)' = Holders(e) \ {r} /\ \A d \in Endpoint \ {e} : Holders(d)' = Holders(d)
    BY <1>3, <2>1, <2>2, PublicationParameters DEF Holders
  <2>4. /\ Cardinality(Holders(e))' = active[e] - 1
        /\ active[e] \in Nat \ {0}
        /\ active[e] <= Concurrency[e] /\ Concurrency[e] \in Nat
    <3>1. Holders(e) \in SUBSET Request /\ r \in Holders(e)
      BY <1>3, <2>2 DEF Holders
    <3>2. /\ Cardinality(Holders(e) \ {r}) = Cardinality(Holders(e)) - 1
          /\ Cardinality(Holders(e)) \in Nat
      BY <3>1, CountHolders, Zenon
    <3>3. Cardinality(Holders(e) \ {r}) \in Nat
      <4>1. Holders(e) \ {r} \in SUBSET Request
        BY <3>1
      <4> QED BY <4>1, CountHolders, Zenon
    <3>4. active[e] = Cardinality(Holders(e)) /\ active[e] <= Concurrency[e]
      BY <1>1, <1>7, <2>2 DEF CapacityOK
    <3>5. Concurrency[e] \in Nat
      BY <2>2, PublicationParameters
    <3>6. active[e] \in Nat \ {0}
      BY <3>2, <3>3, <3>4
    <3>7. Cardinality(Holders(e))' = Cardinality(Holders(e) \ {r})
      BY <2>3, Zenon
    <3> QED BY <3>2, <3>4, <3>5, <3>6, <3>7
  <2>5. /\ active' \in [Endpoint -> Nat]
        /\ \A d \in Endpoint : active'[d] = IF d = e THEN active[e] - 1 ELSE active[d]
    BY <1>1, <2>1, <2>2, <2>4 DEF ShapeOK
  <2>6. ShapeOK'
    BY <1>1, <1>2, <1>7, <2>1, <2>5 DEF ShapeOK
  <2>7. PlaceOK'
    BY <1>1, <1>2, <2>1 DEF PlaceOK
  <2>8. AgeOK'
    BY <1>1, <1>2, <1>4, <2>1, AgeKept
  <2>9. QueueOK'
    BY <1>1, <1>2, <2>1 DEF QueueOK, QueueBounded
  <2>10. ASSUME NEW d \in Endpoint
         PROVE  /\ d \in published' =>
                      /\ active'[d] = Cardinality(Holders(d))'
                      /\ active'[d] <= Concurrency[d]
                      /\ d \in ready' <=> active'[d] < Concurrency[d]
                /\ d \notin published' \cup removed' => active'[d] = 0
    <3>1. CASE d = e
      BY <1>7, <2>1, <2>4, <2>5, <3>1
    <3>2. CASE d # e
      BY <1>1, <2>1, <2>3, <2>5, <3>2 DEF CapacityOK
    <3> QED BY <3>1, <3>2, Zenon
  <2>11. CapacityOK'
    BY <2>10 DEF CapacityOK
  <2> QED BY <2>6, <2>7, <2>8, <2>9, <2>11 DEF PubInv
<1> QED BY <1>5, <1>6, <1>7 DEF Release

\* A request that has nothing and waits for nothing is answered, gives up or is
\* replaced by a new one.
LEMMA AnswerStep ==
    ASSUME PubInv, NEW r \in Request, NEW l \in {"start", "refused", "done"},
           pc[r] \in {"done", "refused", "retry", "missed"},
           pc' = [pc EXCEPT ![r] = l],
           UNCHANGED <<registry, queues, held, before, waking>>
    PROVE  PubInv'
<1> USE DEF registry, queues
<1>1. ShapeOK /\ PlaceOK /\ AgeOK /\ QueueOK /\ CapacityOK
  BY DEF PubInv
<1>2. /\ pc' \in [Request -> PC]
      /\ \A w \in Request : pc'[w] = IF w = r THEN l ELSE pc[w]
  BY <1>1 DEF ShapeOK, PC
<1>3. ShapeOK' /\ PlaceOK'
  BY <1>1, <1>2 DEF ShapeOK, PlaceOK
<1>4. AgeOK'
  BY <1>1, <1>2 DEF AgeOK
<1>5. QueueOK'
  BY <1>1, <1>2 DEF QueueOK, QueueBounded
<1>6. CapacityOK'
  BY <1>1, SameCount DEF Holders
<1> QED BY <1>3, <1>4, <1>5, <1>6 DEF PubInv

\* takeEndpointRLocked finds an endpoint, or finds none.
LEMMA TakeStep ==
    ASSUME PubInv, NEW r \in Request, TakeEndpoint(r)
    PROVE  PubInv'
<1> USE DEF registry
<1>1. ShapeOK /\ PlaceOK /\ AgeOK /\ QueueOK /\ CapacityOK
  BY DEF PubInv
<1>2. /\ pc[r] \in {"start", "retry"} /\ published # {}
      /\ UNCHANGED <<registry, queue, chan, waking>>
      /\ before' \in [Request -> SUBSET Endpoint]
      /\ \A w \in Request : before'[w] = IF w = r THEN removed ELSE before[w]
  BY <1>1 DEF TakeEndpoint, ShapeOK
<1>3. chan[r] = Empty /\ held[r] = NoEndpoint /\ ~In(queue, r)
  BY <1>1, <1>2 DEF PlaceOK, QueueOK
<1>4. ASSUME NEW e \in ready, Take(e), held' = [held EXCEPT ![r] = e],
             Goto(r, "serving")
      PROVE  PubInv'
  <2>1. e \in published /\ e \in Endpoint /\ e \notin removed /\ e # NoEndpoint
    BY <1>1, <1>4, PublicationParameters DEF ShapeOK, AgeOK
  <2>2. /\ pc' \in [Request -> PC]
        /\ \A w \in Request : pc'[w] = IF w = r THEN "serving" ELSE pc[w]
        /\ held' \in [Request -> Endpoint \cup {NoEndpoint}]
        /\ \A w \in Request : held'[w] = IF w = r THEN e ELSE held[w]
    BY <1>1, <1>4, <2>1 DEF ShapeOK, PC, Goto
  <2>3. /\ r \notin Holders(e) /\ Holders(e)' = Holders(e) \cup {r}
        /\ \A d \in Endpoint \ {e} : Holders(d)' = Holders(d)
    BY <1>2, <1>3, <2>1, <2>2, PublicationParameters DEF Holders
  <2>4. CapacityOK' /\ ready' \in SUBSET published' /\ active' \in [Endpoint -> Nat]
    BY <1>2, <1>4, <2>3, TakeCount
  <2>5. ShapeOK'
    BY <1>1, <1>2, <2>2, <2>4 DEF ShapeOK
  <2>6. PlaceOK'
    BY <1>1, <1>2, <1>3, <2>1, <2>2 DEF PlaceOK
  <2>7. AgeOK'
    <3>1. chan[r] \notin Endpoint /\ chan[r] # NoEndpoint
      BY <1>3, PublicationParameters DEF NoEndpoint, Empty
    <3>2. ASSUME NEW v \in Request
          PROVE  /\ before'[v] \subseteq removed
                 /\ held'[v] \in Endpoint =>
                       held'[v] \in (published \cup removed) \ before'[v]
                 /\ chan[v] \in Endpoint =>
                       chan[v] \in (published \cup removed) \ before'[v]
                 /\ chan[v] = NoEndpoint \/ pc'[v] = "retry" =>
                       removed \ before'[v] # {}
      <4>1. CASE v = r
        BY <1>2, <2>1, <2>2, <3>1, <4>1
      <4>2. CASE v # r
        BY <1>1, <1>2, <2>2, <4>2 DEF AgeOK
      <4> QED BY <4>1, <4>2
    <3> QED BY <1>1, <1>2, <3>2 DEF AgeOK
  <2>8. QueueOK'
    BY <1>1, <1>2, <2>2 DEF QueueOK, QueueBounded
  <2> QED BY <2>4, <2>5, <2>6, <2>7, <2>8 DEF PubInv
<1>5. ASSUME Goto(r, "missed"), UNCHANGED <<active, ready, held>>
      PROVE  PubInv'
  <2>1. /\ pc' \in [Request -> PC]
        /\ \A w \in Request : pc'[w] = IF w = r THEN "missed" ELSE pc[w]
    BY <1>1, <1>5 DEF ShapeOK, PC, Goto
  <2>2. ShapeOK' /\ PlaceOK'
    BY <1>1, <1>2, <1>5, <2>1, Zenon DEF ShapeOK, PlaceOK
  <2>3. AgeOK'
    BY <1>1, <1>2, <1>3, <1>5, <2>1, PublicationParameters DEF AgeOK, NoEndpoint, Empty
  <2>4. QueueOK'
    BY <1>1, <1>2, <2>1 DEF QueueOK, QueueBounded
  <2>5. CapacityOK'
    BY <1>1, <1>2, <1>5, SameCount DEF Holders
  <2> QED BY <2>2, <2>3, <2>4, <2>5 DEF PubInv
<1> QED BY <1>4, <1>5 DEF TakeEndpoint

\* queueWaiterRLocked: the request joins the queue, or finds it full.
LEMMA QueueStep ==
    ASSUME PubInv, NEW r \in Request, QueueWaiter(r)
    PROVE  PubInv'
<1> USE DEF registry
<1>1. ShapeOK /\ PlaceOK /\ AgeOK /\ QueueOK /\ CapacityOK
  BY DEF PubInv
<1>2. pc[r] = "missed" /\ UNCHANGED <<registry, active, ready, chan, held, before, waking>>
  BY DEF QueueWaiter
<1>3. CASE Goto(r, "refused") /\ queue' = queue
  <2>1. pc' = [pc EXCEPT ![r] = "refused"] /\ UNCHANGED <<registry, queues, held, before, waking>>
    BY <1>2, <1>3 DEF Goto, queues
  <2> QED BY <1>2, <2>1, AnswerStep, Zenon
<1>4. CASE /\ Len(queue) < settings.queueSize
           /\ queue' = Append(queue, r) /\ Goto(r, "waiting")
  <2>1. /\ pc' \in [Request -> PC]
        /\ \A w \in Request : pc'[w] = IF w = r THEN "waiting" ELSE pc[w]
    BY <1>1, <1>4 DEF ShapeOK, PC, Goto
  <2>2. chan[r] = Empty /\ held[r] = NoEndpoint /\ ~In(queue, r) /\ published # {}
    BY <1>1, <1>2 DEF PlaceOK, QueueOK
  <2>3. /\ queue' \in Seq(Request) /\ Len(queue') = Len(queue) + 1
        /\ Distinct(queue')
        /\ \A w : In(queue', w) <=> In(queue, w) \/ w = r
    BY <1>1, <1>4, <2>2, AppendQueue DEF ShapeOK, QueueOK
  <2>4. ShapeOK' /\ PlaceOK'
    BY <1>1, <1>2, <2>1, <2>2, <2>3, Zenon DEF ShapeOK, PlaceOK
  <2>5. AgeOK'
    BY <1>1, <1>2, <2>1 DEF AgeOK
  <2>6. QueueOK'
    <3>1. QueueBounded'
      BY <1>1, <1>2, <1>4, <2>2, <2>3 DEF QueueBounded, ShapeOK
    <3> QED BY <1>1, <1>2, <2>1, <2>2, <2>3, <3>1 DEF QueueOK
  <2>7. CapacityOK'
    BY <1>1, <1>2, SameCount DEF Holders
  <2> QED BY <2>4, <2>5, <2>6, <2>7 DEF PubInv
<1> QED BY <1>3, <1>4 DEF QueueWaiter

\* The waiter's channel delivers an endpoint, or it was closed.
LEMMA WakeUpStep ==
    ASSUME PubInv, NEW r \in Request, WakeUp(r)
    PROVE  PubInv'
<1> USE DEF registry
<1>1. ShapeOK /\ PlaceOK /\ AgeOK /\ QueueOK /\ CapacityOK
  BY DEF PubInv
<1>2. /\ pc[r] = "waiting" /\ chan[r] # Empty /\ held[r] = NoEndpoint
      /\ UNCHANGED <<registry, active, ready, queue, before, waking>>
      /\ chan' \in [Request -> Endpoint \cup {NoEndpoint, Empty}]
      /\ \A w \in Request : chan'[w] = IF w = r THEN Empty ELSE chan[w]
  BY <1>1, ZenonT(30) DEF WakeUp, ShapeOK, PlaceOK
<1>3. ~In(queue, r) /\ \A d \in Endpoint : d # NoEndpoint /\ d # Empty
  BY <1>1, <1>2, PublicationParameters DEF QueueOK
<1>4. ASSUME NEW l \in {"retry", "refused"}, Goto(r, l), held' = held,
             l = "retry" => removed \ before[r] # {},
             chan[r] \notin published
      PROVE  PubInv'
  <2>1. /\ pc' \in [Request -> PC]
        /\ \A w \in Request : pc'[w] = IF w = r THEN l ELSE pc[w]
    BY <1>1, <1>4 DEF ShapeOK, PC, Goto
  <2>2. ShapeOK' /\ PlaceOK'
    BY <1>1, <1>2, <1>4, <2>1, Zenon DEF ShapeOK, PlaceOK
  <2>3. AgeOK'
    BY <1>1, <1>2, <1>3, <1>4, <2>1 DEF AgeOK, NoEndpoint, Empty
  <2>4. QueueOK'
    BY <1>1, <1>2, <1>3, <2>1 DEF QueueOK, QueueBounded
  <2>5. \A d \in published : Holders(d)' = Holders(d)
    BY <1>1, <1>2, <1>3, <1>4, Zenon DEF Holders, ShapeOK
  <2>6. CapacityOK'
    BY <1>1, <1>2, <2>5, SameCount
  <2> QED BY <2>2, <2>3, <2>4, <2>6 DEF PubInv
<1>5. ASSUME chan[r] \in published, held' = [held EXCEPT ![r] = chan[r]],
             Goto(r, "serving")
      PROVE  PubInv'
  <2>1. chan[r] \in Endpoint
    BY <1>1, <1>5 DEF ShapeOK
  <2>2. /\ pc' \in [Request -> PC]
        /\ \A w \in Request : pc'[w] = IF w = r THEN "serving" ELSE pc[w]
        /\ held' \in [Request -> Endpoint \cup {NoEndpoint}]
        /\ \A w \in Request : held'[w] = IF w = r THEN chan[r] ELSE held[w]
    BY <1>1, <1>5, <2>1 DEF ShapeOK, PC, Goto
  <2>3. ShapeOK' /\ PlaceOK'
    BY <1>1, <1>2, <1>3, <2>1, <2>2, Zenon DEF ShapeOK, PlaceOK
  <2>4. AgeOK'
    BY <1>1, <1>2, <1>3, <2>1, <2>2 DEF AgeOK, NoEndpoint, Empty
  <2>5. QueueOK'
    BY <1>1, <1>2, <1>3, <2>2 DEF QueueOK, QueueBounded
  <2>6. \A d \in published : Holders(d)' = Holders(d)
    BY <1>1, <1>2, <1>3, <2>2 DEF Holders, ShapeOK
  <2>7. CapacityOK'
    BY <1>1, <1>2, <2>6, SameCount
  <2> QED BY <2>3, <2>4, <2>5, <2>7 DEF PubInv
<1>6. CASE chan[r] = NoEndpoint /\ held' = held
  <2>1. removed \ before[r] # {} /\ chan[r] \notin published
    BY <1>1, <1>3, <1>6 DEF AgeOK, ShapeOK
  <2> QED BY <1>3, <1>4, <1>5, <1>6, <2>1 DEF WakeUp
<1>7. CASE chan[r] # NoEndpoint /\ chan[r] \notin published
  <2>1. removed \ before[r] # {}
    BY <1>1, <1>2, <1>7 DEF AgeOK, ShapeOK
  <2> QED BY <1>4, <1>7, <2>1 DEF WakeUp
<1> QED BY <1>5, <1>6, <1>7 DEF WakeUp

\* cancelWaiterRLocked: the request leaves the queue or returns its endpoint.
LEMMA CancelStep ==
    ASSUME PubInv, NEW r \in Request, CancelWaiter(r)
    PROVE  PubInv'
<1> USE DEF registry
<1>1. ShapeOK /\ PlaceOK /\ AgeOK /\ QueueOK /\ CapacityOK
  BY DEF PubInv
<1>2. /\ pc[r] = "waiting" /\ UNCHANGED <<registry, held, before, waking>>
      /\ pc' = [pc EXCEPT ![r] = "done"]
      /\ pc' \in [Request -> PC]
      /\ \A w \in Request : pc'[w] = IF w = r THEN "done" ELSE pc[w]
  BY <1>1 DEF CancelWaiter, Goto, ShapeOK, PC
<1>3. ASSUME NEW i \in 1 .. Len(queue), queue[i] = r, queue' = Without(queue, i),
             UNCHANGED <<active, ready, chan>>
      PROVE  PubInv'
  <2>1. /\ queue' \in Seq(Request) /\ Len(queue') = Len(queue) - 1
        /\ Distinct(queue')
        /\ \A w : In(queue', w) <=> In(queue, w) /\ w # r
    BY <1>1, <1>3, WithoutQueue DEF ShapeOK, QueueOK
  <2>2. In(queue, r) /\ chan[r] = Empty
    BY <1>1, <1>3, Zenon DEF In, QueueOK
  <2>3. ShapeOK' /\ PlaceOK'
    BY <1>1, <1>2, <1>3, <2>1, <2>2, Zenon DEF ShapeOK, PlaceOK
  <2>4. AgeOK'
    BY <1>1, <1>2, <1>3 DEF AgeOK
  <2>5. QueueOK'
    <3>1. queue # <<>> /\ Len(queue) \in Nat
      BY <1>1, <1>3 DEF ShapeOK
    <3>2. QueueBounded'
      BY <1>1, <1>2, <2>1, <3>1 DEF QueueOK, QueueBounded, ShapeOK
    <3> QED BY <1>1, <1>2, <1>3, <2>1, <3>2 DEF QueueOK
  <2>6. CapacityOK'
    BY <1>1, <1>2, <1>3, SameCount DEF Holders
  <2> QED BY <2>3, <2>4, <2>5, <2>6 DEF PubInv
<1>4. ASSUME chan[r] # Empty, Release(chan[r], [chan EXCEPT ![r] = Empty])
      PROVE  PubInv'
  <2> DEFINE k == [chan EXCEPT ![r] = Empty]
  <2>1. /\ k \in [Request -> Endpoint \cup {NoEndpoint, Empty}]
        /\ \A w \in Request : k[w] = IF w = r THEN Empty ELSE chan[w]
    BY <1>1 DEF ShapeOK
  <2>2. Release(chan[r], k)
    BY <1>4
  <2> HIDE DEF k
  <2>3. /\ held' \in [Request -> Endpoint \cup {NoEndpoint}]
        /\ \A w \in Request : held'[w] = IF w = r THEN NoEndpoint ELSE held[w]
        /\ chan[r] \in Endpoint \cup {NoEndpoint}
        /\ chan[r] = IF pc[r] = "waiting" THEN chan[r] ELSE held[r]
        /\ ~In(queue, r)
    BY <1>1, <1>2, <1>4 DEF ShapeOK, PlaceOK, QueueOK
  <2>4. /\ pc' \in [Request -> PC] /\ pc'[r] \in {"done", "retry"}
        /\ \A w \in Request : w # r => pc'[w] = pc[w]
        /\ pc'[r] = "retry" => held[r] \in Endpoint \ published
        /\ pc[r] \in {"waiting", "serving", "failed"}
    BY <1>2
  <2>5. UNCHANGED <<registry, before, waking>>
    BY <1>2
  <2> QED BY <2>1, <2>2, <2>3, <2>4, <2>5, ReleaseStep, ZenonT(30)
<1> QED BY <1>3, <1>4 DEF CancelWaiter

\* The deferred release, after the request was served or its endpoint failed.
LEMMA FinishStep ==
    ASSUME PubInv, NEW r \in Request, Finish(r)
    PROVE  PubInv'
<1>1. ShapeOK /\ PlaceOK /\ AgeOK /\ QueueOK
  BY DEF PubInv
<1>2. /\ pc[r] \in {"serving", "failed"}
      /\ held' = [held EXCEPT ![r] = NoEndpoint]
      /\ Release(held[r], chan) /\ UNCHANGED <<registry, before, waking>>
      /\ pc' = [pc EXCEPT ![r] = IF pc[r] = "failed" THEN "retry" ELSE "done"]
  BY DEF Finish, Goto
<1>3. /\ chan[r] = Empty /\ held[r] # NoEndpoint /\ ~In(queue, r)
      /\ pc[r] = "failed" => held[r] \notin published
  BY <1>1, <1>2 DEF PlaceOK, QueueOK
<1>4. /\ chan \in [Request -> Endpoint \cup {NoEndpoint, Empty}]
      /\ \A w \in Request : chan[w] = IF w = r THEN Empty ELSE chan[w]
      /\ held' \in [Request -> Endpoint \cup {NoEndpoint}]
      /\ \A w \in Request : held'[w] = IF w = r THEN NoEndpoint ELSE held[w]
      /\ held[r] \in Endpoint \cup {NoEndpoint}
      /\ held[r] = IF pc[r] = "waiting" THEN chan[r] ELSE held[r]
  BY <1>1, <1>2, <1>3 DEF ShapeOK
<1>5. /\ pc' \in [Request -> PC] /\ pc'[r] \in {"done", "retry"}
      /\ \A w \in Request : w # r => pc'[w] = pc[w]
      /\ pc'[r] = "retry" => held[r] \in Endpoint \ published
      /\ pc[r] \in {"waiting", "serving", "failed"}
  BY <1>1, <1>2, <1>3 DEF ShapeOK, PC
<1> QED BY <1>2, <1>3, <1>4, <1>5, ReleaseStep, Zenon

\* publishLocked adds an endpoint that nobody has yet.
LEMMA PublishStep ==
    ASSUME PubInv, NEW e \in Endpoint, Publish(e)
    PROVE  PubInv'
<1>1. ShapeOK /\ PlaceOK /\ AgeOK /\ QueueOK /\ CapacityOK
  BY DEF PubInv
<1>2. /\ published # {} /\ e \notin published \cup removed
      /\ published' = published \cup {e} /\ ready' = ready \cup {e}
      /\ waking' = Concurrency[e]
      /\ UNCHANGED <<removed, active, queue, chan, pc, held, before>>
  BY DEF Publish
<1>3. settings'.queueSize \in Nat /\ settings.queueSize <= settings'.queueSize
  <2> DEFINE n == (settings.queueSize + QueueSize[e]) % Modulus
  <2>1. settings'.queueSize = n /\ ~(n < settings.queueSize)
    BY DEF Publish, Fits
  <2>2. settings.queueSize \in Nat /\ QueueSize[e] \in Nat /\ Modulus \in Nat \ {0}
    BY <1>1, PublicationParameters DEF ShapeOK
  <2>3. n \in Nat
    BY <2>2
  <2> HIDE DEF n
  <2> QED BY <2>1, <2>2, <2>3
<1>4. Concurrency[e] \in Nat \ {0}
  BY PublicationParameters
<1>5. ShapeOK'
  BY <1>1, <1>2, <1>3, <1>4 DEF ShapeOK
<1>6. AgeOK'
  BY <1>1, <1>2 DEF AgeOK
<1>7. PlaceOK'
  <2>1. \A r \in Request : held[r] # e
    BY <1>1, <1>2 DEF AgeOK
  <2> QED BY <1>1, <1>2, <2>1 DEF PlaceOK
<1>8. QueueOK'
  <2>1. QueueBounded'
    BY <1>1, <1>2, <1>3 DEF QueueOK, QueueBounded, ShapeOK
  <2> QED BY <1>1, <1>2, <2>1 DEF QueueOK
<1>9. CapacityOK'
  <2>1. \A d \in Endpoint : Holders(d)' = Holders(d)
    BY <1>2 DEF Holders
  <2>2. Holders(e) = {}
    BY <1>1, <1>2 DEF AgeOK, Holders
  <2>3. active[e] = 0 /\ Cardinality(Holders(e)) = 0
    BY <1>1, <1>2, <2>2, FS_EmptySet DEF CapacityOK
  <2>4. ASSUME NEW d \in Endpoint
        PROVE  /\ d \in published' =>
                     /\ active'[d] = Cardinality(Holders(d))'
                     /\ active'[d] <= Concurrency[d]
                     /\ d \in ready' <=> active'[d] < Concurrency[d]
               /\ d \notin published' \cup removed' => active'[d] = 0
    <3>1. CASE d = e
      BY <1>2, <1>4, <2>1, <2>3, <3>1
    <3>2. CASE d # e
      BY <1>1, <1>2, <2>1, <3>2 DEF CapacityOK
    <3> QED BY <3>1, <3>2
  <2> QED BY <2>4 DEF CapacityOK
<1> QED BY <1>5, <1>6, <1>7, <1>8, <1>9 DEF PubInv

\* One turn of wakeupWaitersLocked.
LEMMA WakeWaiterStep ==
    ASSUME PubInv, WakeWaiter
    PROVE  PubInv'
<1> USE DEF registry
<1>1. ShapeOK /\ PlaceOK /\ AgeOK /\ QueueOK /\ CapacityOK
  BY DEF PubInv
<1>2. waking > 0 /\ UNCHANGED <<registry, pc, held, before>>
  BY DEF WakeWaiter
<1>3. ASSUME NEW e \in ready, queue # <<>>, Take(e),
             chan' = [chan EXCEPT ![Head(queue)] = e], queue' = Tail(queue),
             waking' = waking - 1
      PROVE  PubInv'
  <2> DEFINE w == Head(queue)
  <2>1. /\ w \in Request /\ In(queue, w)
        /\ queue' \in Seq(Request) /\ Len(queue') = Len(queue) - 1
        /\ Distinct(queue')
        /\ \A v : In(queue', v) <=> In(queue, v) /\ v # w
    BY <1>1, <1>3, TailQueue DEF ShapeOK, QueueOK
  <2>2. /\ e \in published /\ e \in Endpoint /\ e # NoEndpoint /\ e # Empty
        /\ waking' \in Nat
    BY <1>1, <1>2, <1>3, PublicationParameters DEF ShapeOK
  <2>3. /\ chan' \in [Request -> Endpoint \cup {NoEndpoint, Empty}]
        /\ \A v \in Request : chan'[v] = IF v = w THEN e ELSE chan[v]
    BY <1>1, <1>3, <2>1, <2>2 DEF ShapeOK
  <2> HIDE DEF w
  <2>4. pc[w] = "waiting" /\ chan[w] = Empty
    BY <1>1, <2>1, Zenon DEF QueueOK
  <2>5. /\ w \notin Holders(e) /\ Holders(e)' = Holders(e) \cup {w}
        /\ \A d \in Endpoint \ {e} : Holders(d)' = Holders(d)
    <3>1. \A d \in Endpoint : w \notin Holders(d) /\ d # Empty
      BY <2>1, OneEach, PublicationParameters
    <3> QED BY <1>2, <2>1, <2>2, <2>3, <2>4, <3>1 DEF Holders
  <2>6. CapacityOK' /\ ready' \in SUBSET published' /\ active' \in [Endpoint -> Nat]
    BY <1>2, <1>3, <2>1, <2>5, TakeCount
  <2>7. ShapeOK'
    BY <1>1, <1>2, <2>1, <2>2, <2>3, <2>6 DEF ShapeOK
  <2>8. PlaceOK'
    BY <1>1, <1>2, <2>3, <2>4, Zenon DEF PlaceOK
  <2>9. AgeOK'
    BY <1>1, <1>2, <2>2, <2>3, AgeKept
  <2>10. QueueOK'
    <3>1. QueueBounded'
      BY <1>1, <1>2, <2>1, <2>2 DEF QueueOK, QueueBounded, ShapeOK
    <3> QED BY <1>1, <1>2, <2>1, <2>2, <2>3, <3>1 DEF QueueOK
  <2> QED BY <2>6, <2>7, <2>8, <2>9, <2>10 DEF PubInv
<1>4. ASSUME waking' = 0, UNCHANGED queues
      PROVE  PubInv'
  <2> USE DEF queues
  <2>1. ShapeOK' /\ PlaceOK' /\ AgeOK'
    BY <1>1, <1>2, <1>4, Zenon DEF ShapeOK, PlaceOK, AgeOK
  <2>2. QueueOK'
    BY <1>1, <1>2, <1>4 DEF QueueOK, QueueBounded
  <2>3. CapacityOK'
    BY <1>1, <1>2, <1>4, SameCount DEF Holders
  <2> QED BY <2>1, <2>2, <2>3 DEF PubInv
<1> QED BY <1>3, <1>4 DEF WakeWaiter

\* unpublishLocked, called by a client or because a stream could not be opened.
LEMMA DropStep ==
    ASSUME PubInv, NEW e \in published, Drop(e), CanLock,
           pc' \in [Request -> PC],
           \A r \in Request : \/ pc'[r] = pc[r]
                              \/ pc[r] = "serving" /\ pc'[r] = "failed" /\ held[r] = e,
           UNCHANGED <<held, before, waking>>
    PROVE  PubInv'
<1>1. ShapeOK /\ PlaceOK /\ AgeOK /\ QueueOK /\ CapacityOK
  BY DEF PubInv
<1>2. e \in Endpoint /\ \A d \in Endpoint : d # NoEndpoint /\ d # Empty
  BY <1>1, PublicationParameters, Zenon DEF ShapeOK
<1> DEFINE size == (settings.queueSize - QueueSize[e]) % Modulus
           keep == IF published \ {e} = {} THEN 0
                   ELSE IF Len(queue) > size THEN size ELSE Len(queue)
           closed == {queue[i] : i \in keep + 1 .. Len(queue)}
<1>3. /\ published' = published \ {e} /\ removed' = removed \cup {e}
      /\ settings'.queueSize = size /\ ready' = ready \ {e}
      /\ queue' = SubSeq(queue, 1, keep)
      /\ chan' = [r \in Request |-> IF r \in closed THEN NoEndpoint ELSE chan[r]]
      /\ active' = active
  BY DEF Drop
<1>4. size \in Nat
  <2>1. settings.queueSize \in Nat /\ QueueSize[e] \in Nat /\ Modulus \in Nat \ {0}
    BY <1>1, <1>2, PublicationParameters DEF ShapeOK
  <2> QED BY <2>1
<1> HIDE DEF size
<1>5. keep \in 0 .. Len(queue) /\ keep <= size /\ (published' = {} => keep = 0)
  BY <1>1, <1>3, <1>4 DEF ShapeOK
<1> HIDE DEF keep
<1>6. /\ queue' \in Seq(Request) /\ Len(queue') = keep /\ Distinct(queue')
      /\ \A r : In(queue', r) <=> In(queue, r) /\ r \notin closed
  BY <1>1, <1>3, <1>5, PrefixQueue, Zenon DEF ShapeOK, QueueOK
<1>7. \A r \in closed : In(queue, r)
  BY <1>1, <1>5, RestQueue, Zenon DEF ShapeOK
<1> HIDE DEF closed
<1>8. /\ chan' \in [Request -> Endpoint \cup {NoEndpoint, Empty}]
      /\ \A r \in Request : chan'[r] = IF r \in closed THEN NoEndpoint ELSE chan[r]
      /\ \A r \in closed : r \in Request => pc[r] = "waiting" /\ chan[r] = Empty
  BY <1>1, <1>3, <1>7 DEF ShapeOK, QueueOK
<1>9. ShapeOK'
  BY <1>1, <1>3, <1>4, <1>6, <1>8, Zenon DEF ShapeOK
<1>10. PlaceOK'
  BY <1>1, <1>3, <1>8, Zenon DEF PlaceOK, CanLock
<1>11. AgeOK'
  BY <1>1, <1>2, <1>3, <1>8, Zenon DEF AgeOK
<1>12. QueueOK'
  <2>1. \A r \in Request : In(queue', r) <=> pc'[r] = "waiting" /\ chan'[r] = Empty
    BY <1>1, <1>6, <1>8 DEF QueueOK, NoEndpoint, Empty
  <2>2. QueueBounded'
    <3>1. published' = {} => queue' = <<>>
      BY <1>5, <1>6
    <3>2. Len(queue') <= settings'.queueSize
      BY <1>3, <1>5, <1>6, Zenon
    <3> QED BY <3>1, <3>2 DEF QueueBounded
  <2> QED BY <1>6, <2>1, <2>2 DEF QueueOK
<1>13. CapacityOK'
  <2>1. \A d \in Endpoint : Holders(d)' = Holders(d)
    BY <1>2, <1>8 DEF Holders
  <2> QED BY <1>1, <1>2, <1>3, <2>1, Zenon DEF CapacityOK
<1> QED BY <1>9, <1>10, <1>11, <1>12, <1>13 DEF PubInv

\* The stream to the endpoint of r cannot be opened.
LEMMA StreamFailsStep ==
    ASSUME PubInv, NEW r \in Request, StreamFails(r)
    PROVE  PubInv'
<1>1. ShapeOK /\ PlaceOK /\ AgeOK /\ QueueOK /\ CapacityOK
  BY DEF PubInv
<1>2. /\ pc[r] = "serving" /\ CanLock /\ UNCHANGED <<held, before, waking>>
      /\ pc' \in [Request -> PC]
      /\ \A w \in Request : pc'[w] = IF w = r THEN "failed" ELSE pc[w]
  BY <1>1 DEF StreamFails, Goto, ShapeOK, PC
<1>3. CASE held[r] \in published /\ Drop(held[r])
  BY <1>2, <1>3, DropStep
<1>4. CASE held[r] \notin published /\ UNCHANGED <<registry, queues>>
  <2> USE DEF registry, queues
  <2>1. ShapeOK' /\ PlaceOK'
    BY <1>1, <1>2, <1>4, Zenon DEF ShapeOK, PlaceOK
  <2>2. AgeOK'
    BY <1>1, <1>2, <1>4, AgeKept
  <2>3. QueueOK'
    BY <1>1, <1>2, <1>4, Zenon DEF QueueOK, QueueBounded
  <2>4. CapacityOK'
    BY <1>1, <1>2, <1>4, SameCount DEF Holders
  <2> QED BY <2>1, <2>2, <2>3, <2>4 DEF PubInv
<1> QED BY <1>3, <1>4 DEF StreamFails

-----------------------------------------------------------------------------
\* A publication with its first endpoint, free.
LEMMA PubInit == Init => PubInv
<1> SUFFICES ASSUME Init PROVE PubInv
  BY Zenon
<1>1. PICK e \in Endpoint :
        /\ published = {e} /\ removed = {} /\ ready = {e} /\ queue = <<>>
        /\ settings.queueSize = QueueSize[e]
        /\ active = [d \in Endpoint |-> 0] /\ waking = 0
        /\ chan = [r \in Request |-> Empty] /\ pc = [r \in Request |-> "start"]
        /\ held = [r \in Request |-> NoEndpoint]
        /\ before = [r \in Request |-> {}]
  BY DEF Init
<1>2. /\ QueueSize[e] \in Nat /\ Concurrency[e] \in Nat \ {0}
      /\ \A d \in Endpoint : d # NoEndpoint /\ d # Empty
  BY PublicationParameters
<1>3. ShapeOK
  BY <1>1, <1>2 DEF ShapeOK, PC
<1>4. PlaceOK
  BY <1>1 DEF PlaceOK
<1>5. AgeOK
  BY <1>1, <1>2, Zenon DEF AgeOK, NoEndpoint, Empty
<1>6. QueueOK
  BY <1>1, <1>2 DEF QueueOK, QueueBounded, Distinct, In
<1>7. CapacityOK
  <2>1. Holders(e) = {}
    BY <1>1, <1>2 DEF Holders
  <2>2. Cardinality(Holders(e)) = 0
    BY <2>1, FS_EmptySet
  <2> QED BY <1>1, <1>2, <2>2 DEF CapacityOK
<1> QED BY <1>3, <1>4, <1>5, <1>6, <1>7 DEF PubInv

\* Every critical section of a publication keeps the invariant.
LEMMA PubNext == PubInv /\ [Next]_vars => PubInv'
<1> SUFFICES ASSUME PubInv, [Next]_vars PROVE PubInv'
  OBVIOUS
<1>1. ASSUME NEW r \in Request, NewRequest(r) \/ NoRoute(r) \/ GiveUp(r)
      PROVE  PubInv'
  <2>1. PICK l \in {"start", "refused", "done"} : pc' = [pc EXCEPT ![r] = l]
    BY <1>1, Zenon DEF NewRequest, NoRoute, GiveUp, Goto
  <2>2. /\ pc[r] \in {"done", "refused", "retry", "missed"}
        /\ UNCHANGED <<registry, queues, held, before, waking>>
    BY <1>1, Zenon DEF NewRequest, NoRoute, GiveUp
  <2> QED BY <2>1, <2>2, AnswerStep, Zenon
<1>2. ASSUME NEW e \in Endpoint, Unpublish(e)
      PROVE  PubInv'
  <2>1. /\ e \in published /\ Drop(e) /\ CanLock
        /\ UNCHANGED <<pc, held, before, waking>>
    BY <1>2 DEF Unpublish
  <2>2. pc' \in [Request -> PC]
    BY <2>1 DEF PubInv, ShapeOK
  <2> QED BY <2>1, <2>2, DropStep
<1>3. CASE UNCHANGED vars
  <2> USE DEF vars, registry, queues
  <2>1. ShapeOK' /\ PlaceOK' /\ AgeOK'
    BY <1>3 DEF PubInv, ShapeOK, PlaceOK, AgeOK
  <2>2. QueueOK'
    BY <1>3, Zenon DEF PubInv, QueueOK, QueueBounded
  <2>3. CapacityOK'
    BY <1>3, SameCount, ZenonT(30) DEF PubInv, Holders
  <2> QED BY <2>1, <2>2, <2>3, Zenon DEF PubInv
<1> QED
  BY <1>1, <1>2, <1>3, TakeStep, QueueStep, WakeUpStep, CancelStep, FinishStep,
     PublishStep, WakeWaiterStep, StreamFailsStep
     DEF Next, Handling, Cancelling

\* For any number of endpoints and requests, and whatever they were published
\* with, the invariant holds in every state a publication can be in.
THEOREM PubInvariance == Spec => []PubInv
BY PubInit, PubNext, PTL DEF Spec

\* takeEndpointLocked, releaseEndpointRLocked, cancelWaiterRLocked and
\* wakeupWaitersLocked never give an endpoint more requests than its
\* concurrency, and lose no capacity: one that could serve another request is
\* in pub.ready.
THEOREM CapacityIsExact == Spec => []CapacityExact
<1>1. PubInv => CapacityExact
  BY DEF PubInv, ShapeOK, CapacityOK, CapacityExact
<1> QED BY <1>1, PubInvariance, PTL

\* A parked request is in the queue exactly once or has its answer, so that
\* cancelWaiterRLocked never blocks and no waiter is answered twice;
\* queueWaiterRLocked and unpublishLocked keep the queue within its size.
THEOREM WaitersAreQueuedOnce == Spec => []WaitersQueuedOnce
<1>1. PubInv => WaitersQueuedOnce
  <2> SUFFICES ASSUME PubInv, NEW r \in Request
               PROVE  Cardinality({i \in 1 .. Len(queue) : queue[i] = r}) =
                         IF pc[r] = "waiting" /\ chan[r] = Empty THEN 1 ELSE 0
    BY DEF WaitersQueuedOnce, PubInv, QueueOK
  <2>1. QueueOK
    BY DEF PubInv
  <2>2. CASE In(queue, r)
    <3>1. PICK j \in 1 .. Len(queue) : queue[j] = r
      BY <2>2 DEF In
    <3>2. {i \in 1 .. Len(queue) : queue[i] = r} = {j}
      BY <2>1, <3>1 DEF QueueOK, Distinct
    <3>3. Cardinality({j}) = 1
      BY FS_Singleton, Zenon
    <3>4. pc[r] = "waiting" /\ chan[r] = Empty
      BY <2>1, <2>2 DEF QueueOK
    <3> QED BY <3>2, <3>3, <3>4, Zenon
  <2>3. CASE ~In(queue, r)
    <3>1. {i \in 1 .. Len(queue) : queue[i] = r} = {}
      BY <2>3 DEF In
    <3>2. ~(pc[r] = "waiting" /\ chan[r] = Empty)
      BY <2>1, <2>3 DEF QueueOK
    <3> QED BY <3>1, <3>2, FS_EmptySet, Zenon
  <2> QED BY <2>2, <2>3
<1> QED BY <1>1, PubInvariance, PTL

\* "It is mandatory that something had been removed" before a request retries:
\* the retries of handleRequestRLockedWith are no more than the removals.
THEOREM RetriesFollowRemovals == Spec => []RetryAfterRemoval
<1>1. PubInv => RetryAfterRemoval
  BY DEF PubInv, AgeOK, RetryAfterRemoval
<1> QED BY <1>1, PubInvariance, PTL
=============================================================================
