--------------------------- MODULE MultiplexProofs ---------------------------
(***************************************************************************)
(* What the streams of a connection share, for every load, number of       *)
(* streams and pings, and order of calls.                                  *)
(*                                                                         *)
(* The rings of streams are queues, however often they wrap around and     *)
(* grow, and the flags of streams say who is in them.  The write loop      *)
(* never sleeps on work: whatever adds work, or ends the connection,       *)
(* either leaves what the loop has to do as it is, or wakes the loop up.   *)
(* Pings and answers are neither lost nor made: the flow of a ping is      *)
(* counted from the queue to the batch of the write loop and the wire.     *)
(*                                                                         *)
(* Stream ids have the right parity whatever MaxStreamID is.  To know that *)
(* Wrap keeps the parity one has to know how far next can get beyond       *)
(* MaxStreamID: only GiveUp lets it, and only from below.                  *)
(***************************************************************************)
EXTENDS Multiplex, FiniteSetTheorems, TLAPS


-----------------------------------------------------------------------------
\* Powers of two

Less == {p \in Nat \X Nat : p[1] < p[2]}

\* A set of natural numbers has a least element.
LEMMA LeastNumber ==
    ASSUME NEW T, T \subseteq Nat, T # {}
    PROVE  \E x \in T : \A y \in T : x <= y
<1>1. IsWellFoundedOn(OpToRel(<, Nat), Nat)
  BY NatLessThanWellFounded
<1>2. Less = OpToRel(<, Nat)
  BY DEF Less, OpToRel
<1>3. \E x \in T : \A y \in T : ~(<<y, x>> \in Less)
  BY <1>1, <1>2, WFMin
<1>4. PICK x \in T : \A y \in T : ~(<<y, x>> \in Less)
  BY <1>3
<1>5. ASSUME NEW y \in T PROVE x <= y
  <2>1. <<y, x>> \in Nat \X Nat /\ <<y, x>>[1] = y /\ <<y, x>>[2] = x
    BY <1>4
  <2>2. ~(y < x)
    BY <1>4, <2>1 DEF Less
  <2> QED BY <2>2
<1> QED BY <1>4, <1>5

\* A product of odd numbers is odd.
LEMMA OddProduct ==
    ASSUME NEW d \in Nat, NEW k \in Nat, d % 2 = 1, k % 2 = 1
    PROVE  (d * k) % 2 = 1
<1>1. PICK a \in Nat : d = 2 * a + 1
  <2>1. d = 2 * (d \div 2) + 1 /\ d \div 2 \in Nat
    OBVIOUS
  <2> QED BY <2>1
<1>2. PICK b \in Nat : k = 2 * b + 1
  <2>1. k = 2 * (k \div 2) + 1 /\ k \div 2 \in Nat
    OBVIOUS
  <2> QED BY <2>1
<1>3. PICK c \in Nat : c = a * b
  OBVIOUS
<1>4. d * k = 2 * (2 * c + a + b) + 1
  BY <1>1, <1>2, <1>3
<1> QED BY <1>3, <1>4

\* Twice a power of two is one.
LEMMA DoublePow2 ==
    ASSUME NEW p \in Nat \ {0}, IsPow2(p)
    PROVE  IsPow2(2 * p)
<1>1. SUFFICES ASSUME NEW d \in 1 .. 2 * p, NEW k \in 1 .. 2 * p, d * k = 2 * p,
                      d % 2 # 0
               PROVE  d = 1
  BY DEF IsPow2
<1>2. d % 2 = 1
  BY <1>1
<1>3. k % 2 = 0
  <2>1. (d * k) % 2 = 0
    BY <1>1
  <2>2. k % 2 # 1
    BY <1>2, <2>1, OddProduct
  <2> QED BY <2>2
<1>4. PICK h \in 1 .. p : k = 2 * h
  <2>1. k = 2 * (k \div 2) /\ k \div 2 \in 1 .. p
    BY <1>3
  <2> QED BY <2>1
<1>5. d * h = p
  <2>1. d * k = 2 * (d * h)
    BY <1>4
  <2> QED BY <1>1, <1>4, <2>1
<1>6. d <= p
  BY <1>4, <1>5
<1> QED BY <1>2, <1>4, <1>5, <1>6 DEF IsPow2

\* Only 1 is an odd power of two.
LEMMA OddPow2 ==
    ASSUME NEW p \in Nat \ {0}, IsPow2(p), p # 1
    PROVE  p % 2 = 0
<1>1. p \in 1 .. p /\ 1 \in 1 .. p /\ p * 1 = p
  OBVIOUS
<1> QED BY <1>1 DEF IsPow2

\* There is a power of two between every number and its double, so that minpow2
\* is defined.  A number for which there is none could be halved.
LEMMA Pow2Exists ==
    ASSUME NEW n \in Nat \ {0}
    PROVE  \E p \in n .. 2 * n - 1 : IsPow2(p)
<1> DEFINE Without == {k \in Nat \ {0} : ~ \E p \in k .. 2 * k - 1 : IsPow2(p)}
<1>1. SUFFICES ASSUME Without # {} PROVE FALSE
  BY Zenon
<1>2. PICK m \in Without : \A j \in Without : m <= j
  <2>1. Without \subseteq Nat
    OBVIOUS
  <2> HIDE DEF Without
  <2> QED BY <1>1, <2>1, LeastNumber, ZenonT(30)
<1>3. m # 1
  <2>1. IsPow2(1)
    BY DEF IsPow2
  <2>2. 1 \in 1 .. 2 * 1 - 1
    OBVIOUS
  <2> QED BY <2>1, <2>2
<1>4. PICK h \in Nat \ {0} : h < m /\ (m = 2 * h \/ m = 2 * h - 1)
  <2>1. /\ (m + 1) \div 2 \in Nat \ {0} /\ (m + 1) \div 2 < m
        /\ m = 2 * ((m + 1) \div 2) \/ m = 2 * ((m + 1) \div 2) - 1
    BY <1>3
  <2> QED BY <2>1
<1>5. h \notin Without
  <2> HIDE DEF Without
  <2>1. m \in Nat
    BY DEF Without
  <2> QED BY <1>2, <1>4, <2>1
<1>6. PICK p \in h .. 2 * h - 1 : IsPow2(p)
  BY <1>5
<1>7. IsPow2(2 * p)
  BY <1>4, <1>6, DoublePow2
<1>8. 2 * p \notin m .. 2 * m - 1
  BY <1>2, <1>7
<1>9. m = 2 * h - 1 /\ p = m
  BY <1>4, <1>6, <1>8
<1>10. p % 2 = 1
  BY <1>4, <1>9
<1> QED BY <1>3, <1>4, <1>6, <1>9, <1>10, OddPow2

\* What minpow2 returns is large enough.
LEMMA MinPow2OK ==
    ASSUME NEW n \in Nat \ {0}
    PROVE  MinPow2(n) \in Nat /\ MinPow2(n) >= n
<1>1. \E p \in n .. 2 * n - 1 : IsPow2(p)
  BY Pow2Exists, Zenon
<1>2. MinPow2(n) \in n .. 2 * n - 1
  BY <1>1 DEF MinPow2
<1> QED BY <1>2

-----------------------------------------------------------------------------
\* The ring

\* Slots of a ring hold numbers of streams; the elements fit.
RingOK(q) ==
    /\ q.cap \in Nat
    /\ q \in [buf : [0 .. q.cap - 1 -> Nat], cap : Nat, off : Nat, size : Nat]
    /\ q.size <= q.cap
    /\ IF q.cap = 0 THEN q.off = 0 ELSE q.off < q.cap

\* A slot is found with at most one wraparound.
LEMMA SlotOK ==
    ASSUME NEW q, RingOK(q), NEW i \in Nat, i < q.cap
    PROVE  /\ (q.off + i) % q.cap = Slot(q, i)
           /\ Slot(q, i) \in 0 .. q.cap - 1
<1>1. q.cap \in Nat /\ q.cap > 0 /\ q.off \in Nat /\ q.off < q.cap
  BY DEF RingOK
<1>2. CASE q.off + i < q.cap
  <2>1. (q.off + i) % q.cap = q.off + i
    BY <1>1, <1>2
  <2> QED BY <1>1, <1>2, <2>1 DEF Slot
<1>3. CASE ~(q.off + i < q.cap)
  <2>1. (q.off + i) % q.cap = q.off + i - q.cap
    BY <1>1, <1>3
  <2> QED BY <1>1, <1>3, <2>1 DEF Slot
<1> QED BY <1>2, <1>3

\* Different elements have different slots.
LEMMA SlotsDiffer ==
    ASSUME NEW q, RingOK(q), NEW i \in Nat, NEW j \in Nat, i < q.cap, j < q.cap,
           i # j
    PROVE  Slot(q, i) # Slot(q, j)
<1>1. q.cap \in Nat /\ q.cap > 0 /\ q.off \in Nat /\ q.off < q.cap
  BY DEF RingOK
<1> QED BY <1>1 DEF Slot

\* What Contents gives: the slots from off on, in order.
LEMMA ContentsOK ==
    ASSUME NEW q, RingOK(q)
    PROVE  /\ Contents(q) \in Seq(Nat)
           /\ Len(Contents(q)) = q.size
           /\ \A i \in 1 .. q.size : Contents(q)[i] = q.buf[Slot(q, i - 1)]
<1>1. q.size \in Nat /\ q.off \in Nat /\ q.cap \in Nat /\ q.size <= q.cap
  BY DEF RingOK
<1>2. ASSUME NEW i \in 1 .. q.size
      PROVE  /\ q.buf[(q.off + i - 1) % q.cap] = q.buf[Slot(q, i - 1)]
             /\ q.buf[(q.off + i - 1) % q.cap] \in Nat
  <2>1. i - 1 \in Nat /\ i - 1 < q.cap /\ q.off + (i - 1) = q.off + i - 1
    BY <1>1
  <2>2. /\ (q.off + i - 1) % q.cap = Slot(q, i - 1)
        /\ Slot(q, i - 1) \in 0 .. q.cap - 1
    BY <2>1, SlotOK
  <2> QED BY <2>2 DEF RingOK
<1>3. Contents(q) \in [1 .. q.size -> Nat]
  BY <1>2 DEF Contents
<1>4. \A i \in 1 .. q.size : Contents(q)[i] = q.buf[(q.off + i - 1) % q.cap]
  BY DEF Contents
<1> QED BY <1>1, <1>2, <1>3, <1>4

\* Two sequences with the same elements are equal.
LEMMA SameSeq ==
    ASSUME NEW s \in Seq(Nat), NEW t \in Seq(Nat), Len(s) = Len(t),
           \A i \in 1 .. Len(s) : s[i] = t[i]
    PROVE  s = t
OBVIOUS

\* A ring is made of its fields.
LEMMA RingMade ==
    ASSUME NEW b, NEW c \in Nat, NEW o \in Nat, NEW n \in Nat, n <= c,
           IF c = 0 THEN o = 0 ELSE o < c, b \in [0 .. c - 1 -> Nat]
    PROVE  RingOK([buf |-> b, cap |-> c, off |-> o, size |-> n])
<1>1. PICK r : r = [buf |-> b, cap |-> c, off |-> o, size |-> n]
  BY ZenonT(30)
<1>2. r.buf = b /\ r.cap = c /\ r.off = o /\ r.size = n
  BY <1>1
<1>3. r \in [buf : [0 .. c - 1 -> Nat], cap : Nat, off : Nat, size : Nat]
  BY <1>1
<1>4. RingOK(r)
  BY <1>2, <1>3 DEF RingOK
<1> QED BY <1>1, <1>4

\* The fields of a ring that was made.
LEMMA RingFields ==
    ASSUME NEW q, RingOK(q)
    PROVE  /\ q = [buf |-> q.buf, cap |-> q.cap, off |-> q.off, size |-> q.size]
           /\ q.buf \in [0 .. q.cap - 1 -> Nat]
           /\ q.cap \in Nat /\ q.off \in Nat /\ q.size \in Nat /\ q.size <= q.cap
           /\ IF q.cap = 0 THEN q.off = 0 ELSE q.off < q.cap
BY DEF RingOK

\* A larger ring has the same elements in the same order.
LEMMA GrowOK ==
    ASSUME NEW q, RingOK(q), q.size = q.cap
    PROVE  /\ RingOK(Grow(q)) /\ Grow(q).size < Grow(q).cap
           /\ Contents(Grow(q)) = Contents(q)
<1> DEFINE n == MinPow2(q.cap + 1)
           b == [i \in 0 .. n - 1 |-> IF i < q.size THEN q.buf[(q.off + i) % q.cap]
                                      ELSE Nil]
<1>1. n \in Nat /\ n >= q.cap + 1
  <2>1. q.cap + 1 \in Nat \ {0}
    BY RingFields
  <2> QED BY <2>1, MinPow2OK
<1>2. Grow(q) = [q EXCEPT !.buf = b, !.cap = n, !.off = 0]
  BY DEF Grow
<1>3. PICK g : g = [buf |-> b, cap |-> n, off |-> 0, size |-> q.size]
  BY Zenon
<1>4. Grow(q) = g
  <2> HIDE DEF b, n
  <2> QED BY <1>2, <1>3, RingFields, ZenonT(30)
<1>5. ASSUME NEW i \in 0 .. n - 1
      PROVE  /\ b[i] \in Nat
             /\ i < q.size => b[i] = q.buf[Slot(q, i)]
  <2>1. CASE i < q.size
    <3>1. i \in Nat /\ i < q.cap
      BY <1>1, <2>1
    <3>2. (q.off + i) % q.cap = Slot(q, i) /\ Slot(q, i) \in 0 .. q.cap - 1
      BY <3>1, SlotOK
    <3>3. b[i] = q.buf[Slot(q, i)]
      BY <2>1, <3>2
    <3> HIDE DEF b
    <3> QED BY <3>2, <3>3, RingFields
  <2>2. CASE ~(i < q.size)
    <3>1. b[i] = Nil
      BY <2>2
    <3> QED BY <2>2, <3>1 DEF Nil
  <2> QED BY <2>1, <2>2
<1>6. b \in [0 .. n - 1 -> Nat]
  <2>1. b = [i \in 0 .. n - 1 |-> b[i]]
    OBVIOUS
  <2> HIDE DEF b, n
  <2> QED BY <1>5, <2>1
<1>7. RingOK(g) /\ g.size < g.cap
  <2> HIDE DEF b, n
  <2>1. n > 0 /\ q.size \in Nat /\ q.size < n
    BY <1>1, RingFields
  <2> QED BY <1>1, <1>3, <1>6, <2>1, RingMade
<1>8. Contents(g) = Contents(q)
  <2> HIDE DEF b, n
  <2>1. /\ Contents(g) \in Seq(Nat) /\ Contents(q) \in Seq(Nat)
        /\ Len(Contents(g)) = q.size /\ Len(Contents(q)) = q.size
    BY <1>3, <1>7, ContentsOK
  <2>2. ASSUME NEW i \in 1 .. q.size
        PROVE  Contents(g)[i] = Contents(q)[i]
    <3>1. i - 1 \in 0 .. n - 1 /\ i - 1 < q.size
      BY <1>1, RingFields
    <3>2. Slot(g, i - 1) = i - 1
      BY <1>1, <1>3, <3>1, RingFields DEF Slot
    <3>3. Contents(g)[i] = g.buf[Slot(g, i - 1)]
      BY <1>3, <1>7, ContentsOK
    <3>4. Contents(q)[i] = q.buf[Slot(q, i - 1)]
      BY ContentsOK
    <3> QED BY <1>3, <1>5, <3>1, <3>2, <3>3, <3>4
  <2> QED BY <2>1, <2>2, SameSeq
<1> QED BY <1>4, <1>7, <1>8

\* push adds the stream at the end of the queue, also when the ring wraps around
\* and when it has to grow.
LEMMA PushOK ==
    ASSUME NEW q, RingOK(q), NEW s \in Nat
    PROVE  /\ RingOK(Push(q, s))
           /\ Contents(Push(q, s)) = Append(Contents(q), s)
<1>1. PICK r : r = IF q.size = q.cap THEN Grow(q) ELSE q
  OBVIOUS
<1>2. RingOK(r) /\ r.size < r.cap /\ Contents(r) = Contents(q)
  <2>1. CASE q.size = q.cap
    BY <1>1, <2>1, GrowOK
  <2>2. CASE q.size # q.cap
    BY <1>1, <2>2, RingFields
  <2> QED BY <2>1, <2>2
<1>3. PICK pos : pos = Slot(r, r.size)
  OBVIOUS
<1>4. /\ r.cap \in Nat /\ r.off \in Nat /\ r.size \in Nat /\ r.off < r.cap
      /\ r.buf \in [0 .. r.cap - 1 -> Nat]
      /\ r = [buf |-> r.buf, cap |-> r.cap, off |-> r.off, size |-> r.size]
  BY <1>2, RingFields
<1>5. pos \in 0 .. r.cap - 1
  BY <1>2, <1>3, <1>4, SlotOK
<1>7. Push(q, s) = [r EXCEPT !.buf[pos] = s, !.size = @ + 1]
  <2>1. CASE q.size = q.cap
    BY <1>1, <1>3, <2>1 DEF Push
  <2>2. CASE q.size # q.cap
    BY <1>1, <1>3, <2>2 DEF Push
  <2> QED BY <2>1, <2>2
<1>8. PICK b : b = [r.buf EXCEPT ![pos] = s]
  BY Zenon
<1>9. PICK p : p = [buf |-> b, cap |-> r.cap, off |-> r.off, size |-> r.size + 1]
  BY ZenonT(30)
<1>10. Push(q, s) = p
  BY <1>4, <1>7, <1>8, <1>9, Zenon
<1>11. b \in [0 .. r.cap - 1 -> Nat]
  BY <1>4, <1>5, <1>8
<1>12. RingOK(p)
  <2>1. /\ r.size + 1 \in Nat /\ r.size + 1 <= r.cap
        /\ IF r.cap = 0 THEN r.off = 0 ELSE r.off < r.cap
    BY <1>2, <1>4
  <2> QED BY <1>4, <1>9, <1>11, <2>1, RingMade
<1>13. p.buf = b /\ p.size = r.size + 1 /\ \A i : Slot(p, i) = Slot(r, i)
  BY <1>9 DEF Slot
<1>14. /\ Contents(p) \in Seq(Nat) /\ Len(Contents(p)) = r.size + 1
       /\ Contents(r) \in Seq(Nat) /\ Len(Contents(r)) = r.size
  BY <1>2, <1>12, <1>13, ContentsOK
<1>15. ASSUME NEW i \in 1 .. r.size + 1
       PROVE  Contents(p)[i] = Append(Contents(r), s)[i]
  <2>1. Contents(p)[i] = b[Slot(r, i - 1)]
    BY <1>12, <1>13, ContentsOK
  <2>2. i - 1 \in Nat /\ i - 1 < r.cap
    BY <1>2, <1>4
  <2>3. CASE i = r.size + 1
    <3>1. i - 1 = r.size
      BY <1>4, <2>3
    <3>2. Contents(p)[i] = s
      BY <1>3, <1>4, <1>5, <1>8, <2>1, <3>1
    <3> QED BY <1>14, <2>3, <3>2
  <2>4. CASE i # r.size + 1
    <3>1. i \in 1 .. r.size /\ i - 1 # r.size
      BY <1>4, <2>4
    <3>2. Slot(r, i - 1) # pos /\ Slot(r, i - 1) \in 0 .. r.cap - 1
      BY <1>2, <1>3, <1>4, <2>2, <3>1, SlotOK, SlotsDiffer
    <3>3. Contents(p)[i] = r.buf[Slot(r, i - 1)]
      BY <1>4, <1>8, <2>1, <3>2
    <3>4. Contents(r)[i] = r.buf[Slot(r, i - 1)]
      BY <1>2, <3>1, ContentsOK
    <3> QED BY <1>14, <3>1, <3>3, <3>4
  <2> QED BY <2>3, <2>4
<1>16. Contents(p) = Append(Contents(r), s)
  <2>1. /\ Append(Contents(r), s) \in Seq(Nat)
        /\ Len(Append(Contents(r), s)) = r.size + 1
    BY <1>14
  <2> QED BY <1>14, <1>15, <2>1, SameSeq, Zenon
<1> QED BY <1>2, <1>10, <1>12, <1>16

\* take returns the first element of the queue and leaves the others.
LEMMA TakeOK ==
    ASSUME NEW q, RingOK(q), q.size > 0
    PROVE  /\ RingOK(Take(q))
           /\ Contents(q) # <<>> /\ Oldest(q) = Head(Contents(q))
           /\ Contents(Take(q)) = Tail(Contents(q))
<1>1. /\ q.cap \in Nat /\ q.off \in Nat /\ q.size \in Nat /\ q.off < q.cap
      /\ q.size <= q.cap /\ q.buf \in [0 .. q.cap - 1 -> Nat]
      /\ q = [buf |-> q.buf, cap |-> q.cap, off |-> q.off, size |-> q.size]
  BY RingFields
<1>2. PICK o : o = IF q.off + 1 = q.cap \/ q.size = 1 THEN 0 ELSE q.off + 1
  OBVIOUS
<1>3. PICK b : b = [q.buf EXCEPT ![q.off] = Nil]
  BY Zenon
<1>4. PICK t : t = [buf |-> b, cap |-> q.cap, off |-> o, size |-> q.size - 1]
  BY Zenon
<1>5. Take(q) = t
  <2>1. Take(q) = [q EXCEPT !.buf = b, !.off = o, !.size = q.size - 1]
    BY <1>1, <1>2, <1>3 DEF Take
  <2> QED BY <1>1, <1>4, <2>1, ZenonT(30)
<1>6. b \in [0 .. q.cap - 1 -> Nat]
  BY <1>1, <1>3 DEF Nil
<1>7. o \in Nat /\ o < q.cap /\ q.size - 1 \in Nat /\ q.size - 1 <= q.cap
  BY <1>1, <1>2
<1>8. RingOK(t)
  BY <1>1, <1>4, <1>6, <1>7, RingMade
<1>9. /\ Contents(t) \in Seq(Nat) /\ Len(Contents(t)) = q.size - 1
      /\ Contents(q) \in Seq(Nat) /\ Len(Contents(q)) = q.size
  BY <1>4, <1>8, ContentsOK
<1>10. Contents(q) # <<>> /\ Head(Contents(q)) = q.buf[q.off]
  <2>1. 1 \in 1 .. q.size /\ Slot(q, 1 - 1) = q.off
    BY <1>1 DEF Slot
  <2>2. Contents(q)[1] = q.buf[q.off]
    BY <2>1, ContentsOK
  <2> QED BY <1>1, <1>9, <2>2
<1>11. ASSUME NEW i \in 1 .. q.size - 1
       PROVE  Contents(t)[i] = Contents(q)[i + 1]
  <2>1. i + 1 \in 1 .. q.size /\ i + 1 - 1 = i /\ i \in Nat /\ i < q.cap /\ i # 0
    BY <1>1
  <2>2. Contents(q)[i + 1] = q.buf[Slot(q, i)]
    BY <2>1, ContentsOK
  <2>3. Slot(q, i) \in 0 .. q.cap - 1 /\ Slot(q, i) # q.off
    <3>1. Slot(q, 0) = q.off
      BY <1>1 DEF Slot
    <3>2. Slot(q, i) # Slot(q, 0)
      <4>1. 0 \in Nat /\ 0 < q.cap
        BY <1>1
      <4> QED BY <2>1, <4>1, SlotsDiffer
    <3> QED BY <2>1, <3>1, <3>2, SlotOK
  <2>4. Slot(t, i - 1) = Slot(q, i)
    <3>1. q.size # 1
      BY <1>1
    <3>2. t.off = o /\ t.cap = q.cap
      BY <1>4
    <3>3. CASE q.off + 1 = q.cap
      BY <1>1, <1>2, <2>1, <3>2, <3>3 DEF Slot
    <3>4. CASE q.off + 1 # q.cap
      BY <1>1, <1>2, <2>1, <3>1, <3>2, <3>4 DEF Slot
    <3> QED BY <3>3, <3>4
  <2>5. Contents(t)[i] = b[Slot(q, i)]
    BY <1>4, <1>8, <2>4, ContentsOK
  <2> QED BY <1>1, <1>3, <2>2, <2>3, <2>5
<1>12. Contents(t) = Tail(Contents(q))
  <2>1. /\ Tail(Contents(q)) \in Seq(Nat) /\ Len(Tail(Contents(q))) = q.size - 1
        /\ \A i \in 1 .. q.size - 1 : Tail(Contents(q))[i] = Contents(q)[i + 1]
    BY <1>1, <1>9, <1>10
  <2> QED BY <1>9, <1>11, <2>1, SameSeq, ZenonT(30)
<1> QED BY <1>5, <1>8, <1>10, <1>12 DEF Oldest

OutgoingField == {"err", "writeready", "pingAcks", "pingQueue", "settingsAcks",
                  "ctrl", "data", "inctrl", "indata"}

-----------------------------------------------------------------------------
\* The queues of streams

\* The ring has each stream of in once.
QueueOK(q, in) ==
    RingOK(q) /\ IsInjective(Contents(q)) /\ Range(Contents(q)) = in

\* Pushing a stream that is not in the queue.
LEMMA PushStep ==
    ASSUME NEW q, NEW in, QueueOK(q, in), NEW s \in Nat, s \notin in
    PROVE  /\ QueueOK(Push(q, s), in \cup {s})
           /\ FIFOStep(Contents(q), Contents(Push(q, s)))
<1>1. PICK c : c = Contents(q)
  OBVIOUS
<1>2. PICK p : p = Push(q, s)
  OBVIOUS
<1>3. RingOK(p) /\ Contents(p) = Append(c, s)
  BY <1>1, <1>2, PushOK, ZenonT(30) DEF QueueOK
<1>4. c \in Seq(Nat)
  BY <1>1, ContentsOK DEF QueueOK
<1>5. \A i \in 1 .. Len(c) : c[i] \in in
  BY <1>1, <1>4 DEF QueueOK, Range
<1>6. /\ DOMAIN Append(c, s) = 1 .. Len(c) + 1 /\ DOMAIN c = 1 .. Len(c)
      /\ Append(c, s)[Len(c) + 1] = s /\ Len(c) \in Nat
      /\ \A i \in 1 .. Len(c) : Append(c, s)[i] = c[i]
  BY <1>4
<1>7. IsInjective(Append(c, s))
  <2>1. IsInjective(c)
    BY <1>1 DEF QueueOK
  <2>2. \A i \in 1 .. Len(c) + 1 : i \in 1 .. Len(c) \/ i = Len(c) + 1
    BY <1>6
  <2> QED BY <1>5, <1>6, <2>1, <2>2 DEF IsInjective
<1>8. Range(Append(c, s)) = in \cup {s}
  <2>1. in = {c[i] : i \in 1 .. Len(c)}
    BY <1>1, <1>6 DEF QueueOK, Range
  <2>2. \A i : i \in 1 .. Len(c) + 1 <=> i \in 1 .. Len(c) \/ i = Len(c) + 1
    BY <1>6
  <2> QED BY <1>6, <2>1, <2>2 DEF Range
<1>9. FIFOStep(c, Append(c, s))
  <2>1. Append(c, s) # <<>> /\ c = SubSeq(Append(c, s), 1, Len(Append(c, s)) - 1)
    BY <1>4
  <2> QED BY <2>1, Zenon DEF FIFOStep
<1> QED BY <1>1, <1>2, <1>3, <1>7, <1>8, <1>9 DEF QueueOK

\* Taking the oldest.
LEMMA TakeStep ==
    ASSUME NEW q, NEW in, QueueOK(q, in), q.size > 0
    PROVE  /\ Oldest(q) \in Nat
           /\ QueueOK(Take(q), in \ {Oldest(q)})
           /\ FIFOStep(Contents(q), Contents(Take(q)))
<1>1. PICK c : c = Contents(q)
  OBVIOUS
<1>2. PICK p : p = Take(q)
  OBVIOUS
<1>3. RingOK(p) /\ Contents(p) = Tail(c) /\ c # <<>> /\ Oldest(q) = Head(c)
  BY <1>1, <1>2, TakeOK DEF QueueOK
<1>4. c \in Seq(Nat)
  BY <1>1, ContentsOK DEF QueueOK
<1>5. /\ DOMAIN c = 1 .. Len(c) /\ Len(c) \in Nat /\ Len(c) >= 1 /\ Head(c) = c[1]
      /\ DOMAIN Tail(c) = 1 .. Len(c) - 1
      /\ \A i \in 1 .. Len(c) - 1 : Tail(c)[i] = c[i + 1]
  BY <1>3, <1>4
<1>6. \A i, j \in 1 .. Len(c) : c[i] = c[j] => i = j
  BY <1>1, <1>5 DEF QueueOK, IsInjective
<1>7. \A i \in 1 .. Len(c) - 1 : i + 1 \in 1 .. Len(c) /\ i + 1 # 1
  BY <1>5
<1>8. IsInjective(Tail(c))
  <2>1. ASSUME NEW i \in 1 .. Len(c) - 1, NEW j \in 1 .. Len(c) - 1,
               Tail(c)[i] = Tail(c)[j]
        PROVE  i = j
    <3>1. i + 1 = j + 1
      BY <1>5, <1>6, <1>7, <2>1
    <3> QED BY <3>1
  <2> QED BY <1>5, <2>1 DEF IsInjective
<1>9. Range(Tail(c)) = in \ {Head(c)}
  <2>1. in = {c[i] : i \in 1 .. Len(c)}
    BY <1>1, <1>5 DEF QueueOK, Range
  <2>2. Range(Tail(c)) = {Tail(c)[i] : i \in 1 .. Len(c) - 1}
    BY <1>5, Zenon DEF Range
  <2>3. ASSUME NEW e \in Range(Tail(c)) PROVE e \in in \ {Head(c)}
    <3>1. PICK i \in 1 .. Len(c) - 1 : e = Tail(c)[i]
      BY <2>2, <2>3
    <3>2. e = c[i + 1] /\ i + 1 \in 1 .. Len(c) /\ i + 1 # 1 /\ 1 \in 1 .. Len(c)
      BY <1>5, <1>7, <3>1
    <3> QED BY <1>5, <1>6, <2>1, <3>2
  <2>4. ASSUME NEW e \in in \ {Head(c)} PROVE e \in Range(Tail(c))
    <3>1. PICK i \in 1 .. Len(c) : e = c[i]
      BY <2>1, <2>4
    <3>2. i # 1
      BY <1>5, <2>4, <3>1
    <3>3. i - 1 \in 1 .. Len(c) - 1 /\ i - 1 + 1 = i
      BY <1>5, <3>2
    <3>4. Tail(c)[i - 1] = c[i]
      BY <1>5, <3>3
    <3> QED BY <2>2, <3>1, <3>3, <3>4, ZenonT(30)
  <2> QED BY <2>3, <2>4
<1>10. FIFOStep(c, Tail(c))
  BY <1>3 DEF FIFOStep
<1> QED BY <1>1, <1>2, <1>3, <1>4, <1>5, <1>8, <1>9, <1>10 DEF QueueOK

\* Both queues, and what a critical section may do to them.
Queues(o) ==
    /\ DOMAIN o = OutgoingField
    /\ QueueOK(o.ctrl, o.inctrl) /\ QueueOK(o.data, o.indata)

FIFO(o, p) ==
    /\ FIFOStep(Contents(o.ctrl), Contents(p.ctrl))
    /\ FIFOStep(Contents(o.data), Contents(p.data))

\* Only the queues matter.
LEMMA SameQueues ==
    ASSUME NEW o, NEW p, Queues(o), DOMAIN p = OutgoingField,
           p.ctrl = o.ctrl, p.inctrl = o.inctrl,
           p.data = o.data, p.indata = o.indata
    PROVE  Queues(p) /\ FIFO(o, p)
BY DEF Queues, FIFO, FIFOStep

\* Every method of rawConnOutgoing keeps the queues and their flags in step.
LEMMA MethodsQueue ==
    ASSUME NEW o, Queues(o), NEW d, NEW s \in Nat
    PROVE  /\ Queues(o) /\ FIFO(o, o)
           /\ Queues(Wakeup(o)) /\ FIFO(o, Wakeup(o))
           /\ Queues(AddPingAck(o, d)) /\ FIFO(o, AddPingAck(o, d))
           /\ Queues(AddPingQueue(o, d)) /\ FIFO(o, AddPingQueue(o, d))
           /\ Queues(AddSettingsAck(o)) /\ FIFO(o, AddSettingsAck(o))
           /\ Queues(FailOutgoing(o)) /\ FIFO(o, FailOutgoing(o))
           /\ Queues(ClearPingQueue(o)) /\ FIFO(o, ClearPingQueue(o))
           /\ Queues(ClearPingQueue(FailOutgoing(o)))
           /\ FIFO(o, ClearPingQueue(FailOutgoing(o)))
           /\ Queues(AddCtrl(o, s)) /\ FIFO(o, AddCtrl(o, s))
           /\ Queues(AddData(o, s)) /\ FIFO(o, AddData(o, s))
<1>1. DOMAIN o = OutgoingField
  BY DEF Queues
<1>2. ASSUME NEW p,
             \/ p = o \/ p = Wakeup(o) \/ p = AddPingAck(o, d)
             \/ p = AddPingQueue(o, d) \/ p = AddSettingsAck(o)
             \/ p = FailOutgoing(o) \/ p = ClearPingQueue(o)
             \/ p = ClearPingQueue(FailOutgoing(o))
      PROVE  Queues(p) /\ FIFO(o, p)
  <2>1. /\ DOMAIN p = OutgoingField
        /\ p.ctrl = o.ctrl /\ p.inctrl = o.inctrl
        /\ p.data = o.data /\ p.indata = o.indata
    BY <1>1, <1>2 DEF OutgoingField, Wakeup, AddPingAck, AddPingQueue,
                      AddSettingsAck, FailOutgoing, ClearPingQueue
  <2> QED BY <2>1, SameQueues
<1>3. Queues(AddCtrl(o, s)) /\ FIFO(o, AddCtrl(o, s))
  <2>1. CASE s \in o.inctrl
    BY <1>2, <2>1 DEF AddCtrl
  <2>2. CASE s \notin o.inctrl
    <3>1. PICK p : p = AddCtrl(o, s)
      OBVIOUS
    <3>2. /\ DOMAIN p = OutgoingField
          /\ p.ctrl = Push(o.ctrl, s) /\ p.inctrl = o.inctrl \cup {s}
          /\ p.data = o.data /\ p.indata = o.indata
      BY <1>1, <2>2, <3>1 DEF AddCtrl, Wakeup, OutgoingField
    <3>3. /\ QueueOK(p.ctrl, p.inctrl) /\ QueueOK(p.data, p.indata)
          /\ FIFOStep(Contents(o.ctrl), Contents(p.ctrl))
      BY <2>2, <3>2, PushStep DEF Queues
    <3>4. FIFOStep(Contents(o.data), Contents(p.data))
      BY <3>2 DEF FIFOStep
    <3> QED BY <3>1, <3>2, <3>3, <3>4 DEF Queues, FIFO
  <2> QED BY <2>1, <2>2
<1>4. Queues(AddData(o, s)) /\ FIFO(o, AddData(o, s))
  <2>1. CASE s \in o.indata
    BY <1>2, <2>1 DEF AddData
  <2>2. CASE s \notin o.indata
    <3>1. PICK p : p = AddData(o, s)
      OBVIOUS
    <3>2. /\ DOMAIN p = OutgoingField
          /\ p.data = Push(o.data, s) /\ p.indata = o.indata \cup {s}
          /\ p.ctrl = o.ctrl /\ p.inctrl = o.inctrl
      BY <1>1, <2>2, <3>1 DEF AddData, Wakeup, OutgoingField
    <3>3. /\ QueueOK(p.data, p.indata) /\ QueueOK(p.ctrl, p.inctrl)
          /\ FIFOStep(Contents(o.data), Contents(p.data))
      BY <2>2, <3>2, PushStep DEF Queues
    <3>4. FIFOStep(Contents(o.ctrl), Contents(p.ctrl))
      BY <3>2 DEF FIFOStep
    <3> QED BY <3>1, <3>2, <3>3, <3>4 DEF Queues, FIFO
  <2> QED BY <2>1, <2>2
<1> QED BY <1>2, <1>3, <1>4

-----------------------------------------------------------------------------
\* Every action keeps the queues

Object == [id : Nat, state : {"open", "closed", "gone"}]

QueueInv == Queues(out) /\ loop.stream \in Nat

\* So does every step of the connection, and no stream overtakes another.
LEMMA QueueStep ==
    ASSUME QueueInv, object \in Seq(Object), [Next]_vars
    PROVE  QueueInv' /\ FIFO(out, out')
<1>1. Queues(out) /\ DOMAIN out = OutgoingField /\ loop.stream \in Nat
  BY DEF QueueInv, Queues
<1>2. Len(object) + 1 \in Nat /\ \A s \in Streams : s \in Nat
  BY DEF Streams
<1>3. ASSUME Queues(out') /\ FIFO(out, out'), loop'.stream \in Nat
      PROVE  QueueInv' /\ FIFO(out, out')
  BY <1>3 DEF QueueInv, Queues
<1>4. CASE NewStream \/ AllocateTurn \/ Break \/ ArriveAck \/ CloseDone
  BY <1>1, <1>3, <1>4, MethodsQueue, Zenon
     DEF NewStream, AllocateTurn, Break, ArriveAck, CloseDone
<1>5. CASE StreamMade
  BY <1>1, <1>2, <1>3, <1>5, MethodsQueue, ZenonT(30) DEF StreamMade
<1>6. ASSUME NEW s \in Streams,
             \/ CloseNext(s) \/ ScheduleCtrl(s) \/ ScheduleData(s) \/ RemoveStream(s)
      PROVE  QueueInv' /\ FIFO(out, out')
  <2>1. /\ \/ out' = out \/ out' = AddCtrl(out, s) \/ out' = AddData(out, s)
        /\ loop' = loop
    BY <1>6 DEF CloseNext, ScheduleCtrl, ScheduleData, RemoveStream
  <2> QED BY <1>1, <1>2, <1>3, <2>1, MethodsQueue, Zenon
<1>7. ASSUME NEW p \in Ping, AddPing(p)
      PROVE  QueueInv' /\ FIFO(out, out')
  <2>1. /\ out' = out \/ out' = AddPingQueue(out, PingData[p])
        /\ loop' = loop
    BY <1>7 DEF AddPing
  <2> QED BY <1>1, <1>3, <2>1, MethodsQueue, ZenonT(30)
<1>8. CASE CloseConn \/ KeepAlive \/ ArriveConnError \/ ReadFail
  <2>1. /\ \/ out' = out \/ out' = FailOutgoing(out) \/ out' = Wakeup(out)
           \/ out' = ClearPingQueue(FailOutgoing(out))
        /\ loop' = loop
    BY <1>8 DEF CloseConn, KeepAlive, ArriveConnError, ReadFail, Fail
  <2> QED BY <1>1, <1>3, <2>1, MethodsQueue, Zenon
<1>9. CASE ArrivePing \/ ArriveSettings \/ ReaderEnds
  <2>1. /\ \/ \E d \in Data : out' = AddPingAck(out, d)
           \/ out' = AddSettingsAck(out)
           \/ out' = ClearPingQueue(out)
        /\ loop' = loop
    BY <1>9 DEF ArrivePing, ArriveSettings, ReaderEnds, FailPings
  <2> QED BY <1>1, <1>3, <2>1, MethodsQueue, ZenonT(30)
<1>10. CASE TakeAcks \/ TakePings \/ TakeSettings \/ Sleep
  <2>1. /\ DOMAIN out' = OutgoingField
        /\ out'.ctrl = out.ctrl /\ out'.inctrl = out.inctrl
        /\ out'.data = out.data /\ out'.indata = out.indata
        /\ loop'.stream = Nil
    BY <1>1, <1>10 DEF TakeAcks, TakePings, TakeSettings, Sleep, Turn, Goto,
                       OutgoingField
  <2>2. Queues(out') /\ FIFO(out, out')
    BY <1>1, <2>1, SameQueues
  <2> QED BY <1>3, <2>1, <2>2 DEF Nil
<1>11. CASE TakeCtrl
  <2>1. PICK s : s = Oldest(out.ctrl)
    OBVIOUS
  <2>2. /\ DOMAIN out' = OutgoingField
        /\ out'.ctrl = Take(out.ctrl) /\ out'.inctrl = out.inctrl \ {s}
        /\ out'.data = out.data /\ out'.indata = out.indata
        /\ loop'.stream = s /\ Work(out) = "ctrl"
    BY <1>1, <1>11, <2>1 DEF TakeCtrl, Turn, Goto, OutgoingField
  <2>3. out.ctrl.size > 0
    BY <2>2 DEF Work
  <2>4. /\ s \in Nat /\ QueueOK(out'.ctrl, out'.inctrl)
        /\ FIFOStep(Contents(out.ctrl), Contents(out'.ctrl))
    <3>1. QueueOK(out.ctrl, out.inctrl)
      BY <1>1 DEF Queues
    <3>2. /\ s \in Nat /\ QueueOK(Take(out.ctrl), out.inctrl \ {s})
          /\ FIFOStep(Contents(out.ctrl), Contents(Take(out.ctrl)))
      BY <2>1, <2>3, <3>1, TakeStep, Zenon
    <3> QED BY <2>2, <3>2, Zenon
  <2>5. /\ QueueOK(out'.data, out'.indata)
        /\ FIFOStep(Contents(out.data), Contents(out'.data))
    BY <1>1, <2>2 DEF Queues, FIFOStep
  <2>6. Queues(out') /\ FIFO(out, out')
    BY <2>2, <2>4, <2>5 DEF Queues, FIFO
  <2> QED BY <1>3, <2>2, <2>4, <2>6
<1>12. CASE TakeData
  <2>1. PICK s : s = Oldest(out.data)
    OBVIOUS
  <2>2. /\ DOMAIN out' = OutgoingField
        /\ out'.data = Take(out.data) /\ out'.indata = out.indata \ {s}
        /\ out'.ctrl = out.ctrl /\ out'.inctrl = out.inctrl
        /\ loop'.stream = s /\ Work(out) = "data"
    BY <1>1, <1>12, <2>1 DEF TakeData, Turn, Goto, OutgoingField
  <2>3. out.data.size > 0
    BY <2>2 DEF Work
  <2>4. /\ s \in Nat /\ QueueOK(out'.data, out'.indata)
        /\ FIFOStep(Contents(out.data), Contents(out'.data))
    <3>1. QueueOK(out.data, out.indata)
      BY <1>1 DEF Queues
    <3>2. /\ s \in Nat /\ QueueOK(Take(out.data), out.indata \ {s})
          /\ FIFOStep(Contents(out.data), Contents(Take(out.data)))
      BY <2>1, <2>3, <3>1, TakeStep, Zenon
    <3> QED BY <2>2, <3>2, Zenon
  <2>5. /\ QueueOK(out'.ctrl, out'.inctrl)
        /\ FIFOStep(Contents(out.ctrl), Contents(out'.ctrl))
    BY <1>1, <2>2 DEF Queues, FIFOStep
  <2>6. Queues(out') /\ FIFO(out, out')
    BY <2>2, <2>4, <2>5 DEF Queues, FIFO
  <2> QED BY <1>3, <2>2, <2>4, <2>6
<1>13. CASE WriteAck \/ WritePing \/ WriteSettingsAck \/ WriteCtrl \/ WriteData
            \/ WriteFail \/ SendConnError \/ CloseNetwork
  <2>1. /\ \/ out' = out \/ out' = AddData(out, loop.stream)
           \/ out' = ClearPingQueue(FailOutgoing(out))
        /\ loop'.stream = Nil
    BY <1>13 DEF WriteAck, WritePing, WriteSettingsAck, WriteCtrl, WriteData,
                 WriteFail, SendConnError, CloseNetwork, Fail, Goto, Again
  <2>2. Queues(out') /\ FIFO(out, out')
    BY <1>1, <2>1, MethodsQueue, Zenon
  <2> QED BY <1>3, <2>1, <2>2 DEF Nil
<1>14. CASE UNCHANGED vars
  BY <1>1, <1>3, <1>14, MethodsQueue, ZenonT(30) DEF vars
<1> QED BY <1>4, <1>5, <1>6, <1>7, <1>8, <1>9, <1>10, <1>11, <1>12, <1>13, <1>14
        DEF Next, Allocation, FailStreams, WriteLoop, ReadLoop

-----------------------------------------------------------------------------
\* The write loop and its work

LoopInv == DOMAIN out = OutgoingField /\ NoWorkForgotten

\* q has no more work than o, or its writer has been woken up.
Calls(o, q) ==
    /\ DOMAIN q = OutgoingField
    /\ \/ q.writeready = TRUE
       \/ q.writeready = o.writeready /\ (Work(o) = "none" => Work(q) = "none")

\* Every method of rawConnOutgoing that the rest of the connection calls.
LEMMA MethodsCall ==
    ASSUME NEW o, DOMAIN o = OutgoingField, NEW d, NEW s
    PROVE  /\ Calls(o, o)
           /\ Calls(o, Wakeup(o))
           /\ Calls(o, AddPingAck(o, d))
           /\ Calls(o, AddPingQueue(o, d))
           /\ Calls(o, AddSettingsAck(o))
           /\ Calls(o, AddCtrl(o, s))
           /\ Calls(o, AddData(o, s))
           /\ Calls(o, FailOutgoing(o))
           /\ Calls(o, ClearPingQueue(o))
           /\ Calls(o, ClearPingQueue(FailOutgoing(o)))
<1> USE DEF Calls, OutgoingField
<1>1. Calls(o, o)
  OBVIOUS
<1>2. Calls(o, Wakeup(o))
  BY DEF Wakeup
<1>3. Calls(o, AddPingAck(o, d))
  BY DEF Wakeup, AddPingAck
<1>4. Calls(o, AddPingQueue(o, d))
  BY Zenon DEF Wakeup, AddPingQueue
<1>5. Calls(o, AddSettingsAck(o))
  BY DEF Wakeup, AddSettingsAck
<1>6. Calls(o, AddCtrl(o, s))
  BY ZenonT(30) DEF Wakeup, AddCtrl
<1>7. Calls(o, AddData(o, s))
  BY Zenon DEF Wakeup, AddData
<1>8. \A q : DOMAIN q = OutgoingField =>
             /\ DOMAIN ClearPingQueue(q) = OutgoingField
             /\ ClearPingQueue(q).writeready = q.writeready
             /\ Work(q) = "none" => Work(ClearPingQueue(q)) = "none"
  BY DEF ClearPingQueue, Work
<1>9. Calls(o, FailOutgoing(o))
  BY ZenonT(30) DEF Wakeup, FailOutgoing
<1>10. Calls(o, ClearPingQueue(o)) /\ Calls(o, ClearPingQueue(FailOutgoing(o)))
  BY <1>8, <1>9, Zenon
<1> QED BY <1>1, <1>2, <1>3, <1>4, <1>5, <1>6, <1>7, <1>9, <1>10

\* A step that leaves the loop alone, apart from stopping it.
LEMMA CallsKeep ==
    ASSUME LoopInv, Calls(out, out'), loop' = loop \/ loop'.pc # "wait"
    PROVE  LoopInv'
BY DEF LoopInv, NoWorkForgotten, Calls

\* One turn of the write loop takes work, or sleeps when there is none.
LEMMA TurnKeeps ==
    ASSUME LoopInv, WriteLoop
    PROVE  LoopInv'
<1> USE DEF LoopInv, NoWorkForgotten, Turn, Goto, Again, OutgoingField
<1>1. CASE TakeAcks
  BY <1>1 DEF TakeAcks
<1>2. CASE TakePings
  BY <1>2 DEF TakePings
<1>3. CASE TakeSettings
  BY <1>3 DEF TakeSettings
<1>4. CASE TakeCtrl
  BY <1>4 DEF TakeCtrl
<1>5. CASE TakeData
  BY <1>5 DEF TakeData
<1>6. CASE Sleep
  BY <1>6 DEF Sleep, Work
<1>7. CASE WriteAck
  BY <1>7 DEF WriteAck
<1>8. CASE WritePing
  BY <1>8 DEF WritePing
<1>9. CASE WriteSettingsAck \/ WriteCtrl
  BY <1>9 DEF WriteSettingsAck, WriteCtrl
<1>10. CASE WriteData
  <2>1. DOMAIN out' = OutgoingField
    <3>1. out' = out \/ out' = AddData(out, loop.stream)
      BY <1>10 DEF WriteData
    <3>2. Calls(out, out) /\ Calls(out, AddData(out, loop.stream))
      BY MethodsCall, Zenon DEF LoopInv
    <3> QED BY <3>1, <3>2 DEF Calls
  <2> QED BY <1>10, <2>1 DEF WriteData
<1>11. CASE WriteFail
  <2>1. DOMAIN out' = OutgoingField
    <3>1. out' = out \/ out' = ClearPingQueue(FailOutgoing(out))
      BY <1>11 DEF WriteFail, Fail
    <3> QED BY <3>1, MethodsCall, ZenonT(30) DEF Calls
  <2> QED BY <1>11, <2>1 DEF WriteFail
<1>12. CASE SendConnError \/ CloseNetwork
  BY <1>12 DEF SendConnError, CloseNetwork
<1> QED BY <1>1, <1>2, <1>3, <1>4, <1>5, <1>6, <1>7, <1>8, <1>9, <1>10, <1>11,
           <1>12 DEF WriteLoop

\* What the other goroutines do.
LEMMA OthersKeep ==
    ASSUME LoopInv, Next, ~WriteLoop
    PROVE  LoopInv'
<1>1. SUFFICES Calls(out, out') /\ loop' = loop
  BY CallsKeep
<1>2. DOMAIN out = OutgoingField
  BY DEF LoopInv
<1>3. CASE NewStream \/ AllocateTurn
  BY <1>2, <1>3, MethodsCall, Zenon DEF NewStream, AllocateTurn
<1>4. CASE StreamMade
  BY <1>2, <1>4, MethodsCall, ZenonT(30) DEF StreamMade
<1>5. CASE FailStreams
  <2>1. CASE CloseDone
    BY <1>2, <2>1, MethodsCall, Zenon DEF CloseDone
  <2>2. ASSUME NEW s \in Streams, CloseNext(s)
        PROVE  Calls(out, out') /\ loop' = loop
    <3>1. out' = AddCtrl(out, s) /\ loop' = loop
      BY <2>2 DEF CloseNext
    <3> QED BY <1>2, <3>1, MethodsCall, ZenonT(30)
  <2> QED BY <1>5, <2>1, <2>2 DEF FailStreams
<1>6. ASSUME NEW s \in Streams, ScheduleCtrl(s) \/ ScheduleData(s) \/ RemoveStream(s)
      PROVE  Calls(out, out') /\ loop' = loop
  BY <1>2, <1>6, MethodsCall, Zenon DEF ScheduleCtrl, ScheduleData, RemoveStream
<1>7. ASSUME NEW p \in Ping, AddPing(p)
      PROVE  Calls(out, out') /\ loop' = loop
  <2>1. /\ out' = out \/ out' = AddPingQueue(out, PingData[p])
        /\ loop' = loop
    BY <1>7 DEF AddPing
  <2> QED BY <1>2, <2>1, MethodsCall, ZenonT(30)
<1>8. CASE CloseConn \/ ArriveConnError \/ ReadFail
  BY <1>2, <1>8, MethodsCall, Zenon DEF CloseConn, ArriveConnError, ReadFail, Fail
<1>9. CASE Break \/ KeepAlive
  BY <1>2, <1>9, MethodsCall, ZenonT(30) DEF Break, KeepAlive
<1>10. CASE ArrivePing \/ ArriveAck \/ ArriveSettings
  <2>1. CASE ArrivePing
    <3>1. PICK d \in Data : out' = AddPingAck(out, d)
      BY <2>1 DEF ArrivePing
    <3> QED BY <1>2, <2>1, <3>1, MethodsCall, Zenon DEF ArrivePing
  <2>2. CASE ArriveAck \/ ArriveSettings
    BY <1>2, <2>2, MethodsCall, ZenonT(30) DEF ArriveAck, ArriveSettings
  <2> QED BY <1>10, <2>1, <2>2
<1>11. CASE ReaderEnds
  BY <1>2, <1>11, MethodsCall, Zenon DEF ReaderEnds, FailPings, FailPingsSilently
<1> QED BY <1>3, <1>4, <1>5, <1>6, <1>7, <1>8, <1>9, <1>10, <1>11
        DEF Next, Allocation, ReadLoop

\* writeFrames goes to sleep with outgoing.mu held when it found nothing, and
\* every addition is followed by wakeupLocked under the same lock: for all
\* streams, pings and failures the loop does not sleep while there is work.
THEOREM WorkIsNotForgotten == Spec => []NoWorkForgotten
<1>1. Init => LoopInv
  <2>1. DOMAIN NewOutgoing = OutgoingField
    BY DEF NewOutgoing, OutgoingField
  <2>2. Work(NewOutgoing) = "none"
    BY DEF NewOutgoing, Work, EmptyQueue
  <2> QED BY <2>1, <2>2, Zenon DEF Init, LoopInv, NoWorkForgotten
<1>2. LoopInv /\ [Next]_vars => LoopInv'
  <2>1. LoopInv /\ UNCHANGED vars => LoopInv'
    BY DEF LoopInv, NoWorkForgotten, vars, Work
  <2> QED BY <2>1, TurnKeeps, OthersKeep
<1>3. LoopInv => NoWorkForgotten
  BY DEF LoopInv
<1> QED BY <1>1, <1>2, <1>3, PTL DEF Spec

-----------------------------------------------------------------------------
\* Counting

\* Where d is in f.
Places(f, d) == {i \in DOMAIN f : f[i] = d}

\* Occurrences are counted by natural numbers.
LEMMA CountNat ==
    ASSUME NEW S, NEW f \in Seq(S), NEW d
    PROVE  /\ IsFiniteSet(Places(f, d)) /\ Count(f, d) = Cardinality(Places(f, d))
           /\ Count(f, d) \in Nat
           /\ Count(f, d) = 0 <=> d \notin Range(f)
           /\ Count(<<>>, d) = 0
<1>1. Len(f) \in Int /\ DOMAIN f = 1 .. Len(f)
  OBVIOUS
<1>2. IsFiniteSet(1 .. Len(f)) /\ Places(f, d) \in SUBSET (1 .. Len(f))
  BY <1>1, FS_Interval DEF Places
<1>3. IsFiniteSet(Places(f, d))
  BY <1>2, FS_Subset
<1>4. Count(f, d) = Cardinality(Places(f, d))
  BY DEF Count, Places
<1>5. Count(f, d) \in Nat
  BY <1>3, <1>4, FS_CardinalityType
<1>6. Count(f, d) = 0 <=> Places(f, d) = {}
  BY <1>3, <1>4, FS_EmptySet
<1>7. Places(f, d) = {} <=> d \notin Range(f)
  BY DEF Places, Range
<1>8. Count(<<>>, d) = 0
  <2>1. {i \in DOMAIN <<>> : <<>>[i] = d} = {}
    OBVIOUS
  <2> QED BY <2>1, FS_EmptySet DEF Count
<1> QED BY <1>3, <1>4, <1>5, <1>6, <1>7, <1>8

\* What Append adds to a count.
LEMMA CountAppend ==
    ASSUME NEW S, NEW f \in Seq(S), NEW e \in S, NEW d
    PROVE  Count(Append(f, e), d) = Count(f, d) + (IF e = d THEN 1 ELSE 0)
<1>1. /\ DOMAIN f = 1 .. Len(f) /\ DOMAIN Append(f, e) = 1 .. Len(f) + 1
      /\ Len(f) \in Nat /\ Append(f, e)[Len(f) + 1] = e
      /\ \A i \in 1 .. Len(f) : Append(f, e)[i] = f[i]
  OBVIOUS
<1>2. \A i : i \in 1 .. Len(f) + 1 <=> i \in 1 .. Len(f) \/ i = Len(f) + 1
  BY <1>1
<1>3. Len(f) + 1 \notin Places(f, d)
  BY <1>1 DEF Places
<1>4. /\ IsFiniteSet(Places(f, d)) /\ Count(f, d) = Cardinality(Places(f, d))
      /\ Count(f, d) \in Nat
  BY CountNat
<1>5. CASE e = d
  <2>1. {i \in DOMAIN Append(f, e) : Append(f, e)[i] = d}
          = Places(f, d) \cup {Len(f) + 1}
    BY <1>1, <1>2, <1>5 DEF Places
  <2>2. Count(Append(f, e), d) = Cardinality(Places(f, d) \cup {Len(f) + 1})
    BY <2>1, Zenon DEF Count
  <2>3. Cardinality(Places(f, d) \cup {Len(f) + 1}) = Cardinality(Places(f, d)) + 1
    BY <1>3, <1>4, FS_AddElement, Zenon
  <2> QED BY <1>4, <1>5, <2>2, <2>3
<1>6. CASE e # d
  <2>1. {i \in DOMAIN Append(f, e) : Append(f, e)[i] = d} = Places(f, d)
    BY <1>1, <1>2, <1>6 DEF Places
  <2>2. Count(Append(f, e), d) = Cardinality(Places(f, d))
    BY <2>1, Zenon DEF Count
  <2> QED BY <1>4, <1>6, <2>2
<1> QED BY <1>5, <1>6

\* What Tail takes off a count.
LEMMA CountTail ==
    ASSUME NEW S, NEW f \in Seq(S), f # <<>>, NEW d
    PROVE  Count(f, d) = Count(Tail(f), d) + (IF Head(f) = d THEN 1 ELSE 0)
<1>1. /\ DOMAIN f = 1 .. Len(f) /\ Len(f) \in Nat /\ Len(f) >= 1 /\ Head(f) = f[1]
      /\ Tail(f) \in Seq(S) /\ DOMAIN Tail(f) = 1 .. Len(f) - 1
      /\ \A i \in 1 .. Len(f) - 1 : Tail(f)[i] = f[i + 1]
  OBVIOUS
<1>2. /\ IsFiniteSet(Places(f, d)) /\ Count(f, d) = Cardinality(Places(f, d))
      /\ Count(f, d) \in Nat
      /\ IsFiniteSet(Places(Tail(f), d)) /\ Count(Tail(f), d) \in Nat
      /\ Count(Tail(f), d) = Cardinality(Places(Tail(f), d))
  BY <1>1, CountNat, ZenonT(30)
<1>3. PICK A : A = Places(Tail(f), d)
  OBVIOUS
<1>4. PICK B : B = Places(f, d) \ {1}
  BY ZenonT(30)
<1>5. \A i : i \in A <=> i \in 1 .. Len(f) - 1 /\ f[i + 1] = d
  BY <1>1, <1>3 DEF Places
<1>6. \A i : i \in B <=> i \in 1 .. Len(f) /\ i # 1 /\ f[i] = d
  BY <1>1, <1>4 DEF Places
<1>7. \A i \in A : i \in Int /\ i + 1 \in B
  BY <1>1, <1>5, <1>6
<1>8. \A i \in B : i - 1 \in A /\ i - 1 + 1 = i
  BY <1>1, <1>5, <1>6
<1>9. Cardinality(B) = Cardinality(A)
  <2>1. PICK g : g = [i \in A |-> i + 1]
    BY Zenon
  <2>2. g \in [A -> B]
    BY <1>7, <2>1
  <2>3. g \in Injection(A, B)
    BY <1>7, <2>1, <2>2 DEF Injection, IsInjective
  <2>4. g \in Surjection(A, B)
    BY <1>8, <2>1, <2>2 DEF Surjection
  <2>5. ExistsBijection(A, B)
    BY <2>3, <2>4, Zenon DEF ExistsBijection, Bijection
  <2> QED BY <1>2, <1>3, <2>5, FS_Bijection
<1>10. Cardinality(B) = IF 1 \in Places(f, d) THEN Cardinality(Places(f, d)) - 1
                        ELSE Cardinality(Places(f, d))
  BY <1>2, <1>4, FS_RemoveElement, ZenonT(30)
<1>11. 1 \in Places(f, d) <=> Head(f) = d
  BY <1>1 DEF Places
<1> QED BY <1>2, <1>3, <1>9, <1>10, <1>11

-----------------------------------------------------------------------------
\* Pings on their way

Callbacks == [Data -> Seq(Ping)]

\* For every callback of cb there is one ping in q, b or w.
Flow(cb, q, b, w) ==
    \A d \in Data : Len(cb[d]) = Count(q, d) + Count(b, d) + Count(w, d)

\* writeFrames takes the queue.
LEMMA FlowTake ==
    ASSUME NEW cb \in Callbacks, NEW q \in Seq(Data), NEW w \in Seq(Data),
           Flow(cb, q, <<>>, w)
    PROVE  Flow(cb, <<>>, q, w)
<1> SUFFICES ASSUME NEW d \in Data
             PROVE  Len(cb[d]) = Count(<<>>, d) + Count(q, d) + Count(w, d)
  BY DEF Flow
<1>1. Count(<<>>, d) = 0 /\ Count(q, d) \in Nat /\ Count(w, d) \in Nat
  BY CountNat
<1>2. Len(cb[d]) = Count(q, d) + Count(<<>>, d) + Count(w, d)
  BY DEF Flow
<1> QED BY <1>1, <1>2

\* writeFrames writes the first ping of its batch.
LEMMA FlowWrite ==
    ASSUME NEW cb \in Callbacks, NEW q \in Seq(Data), NEW b \in Seq(Data),
           NEW w \in Seq(Data), b # <<>>, Flow(cb, q, b, w)
    PROVE  Flow(cb, q, Tail(b), Append(w, Head(b)))
<1> SUFFICES ASSUME NEW d \in Data
             PROVE  Len(cb[d]) = Count(q, d) + Count(Tail(b), d)
                                 + Count(Append(w, Head(b)), d)
  BY DEF Flow
<1>1. Head(b) \in Data /\ Tail(b) \in Seq(Data)
  OBVIOUS
<1>2. /\ Count(q, d) \in Nat /\ Count(w, d) \in Nat /\ Count(b, d) \in Nat
      /\ Count(Tail(b), d) \in Nat
  BY <1>1, CountNat, Zenon
<1>3. Len(cb[d]) = Count(q, d) + Count(b, d) + Count(w, d)
  BY DEF Flow
<1>4. Count(b, d) = Count(Tail(b), d) + (IF Head(b) = d THEN 1 ELSE 0)
  BY CountTail
<1>5. Count(Append(w, Head(b)), d) = Count(w, d) + (IF Head(b) = d THEN 1 ELSE 0)
  BY <1>1, CountAppend
<1>6. PICK one \in Nat : one = IF Head(b) = d THEN 1 ELSE 0
  OBVIOUS
<1> QED BY <1>2, <1>3, <1>4, <1>5, <1>6

\* A call of Ping registers its callback and queues its ping.
LEMMA FlowAdd ==
    ASSUME NEW cb \in Callbacks, NEW q \in Seq(Data), NEW b \in Seq(Data),
           NEW w \in Seq(Data), Flow(cb, q, b, w), NEW d \in Data, NEW p \in Ping
    PROVE  Flow([cb EXCEPT ![d] = Append(@, p)], Append(q, d), b, w)
<1>1. PICK c : c = [cb EXCEPT ![d] = Append(@, p)]
  BY ZenonT(30)
<1>2. SUFFICES ASSUME NEW e \in Data
               PROVE  Len(c[e]) = Count(Append(q, d), e) + Count(b, e) + Count(w, e)
  BY <1>1 DEF Flow
<1>3. Count(q, e) \in Nat /\ Count(w, e) \in Nat /\ Count(b, e) \in Nat
  BY CountNat
<1>4. Len(cb[e]) = Count(q, e) + Count(b, e) + Count(w, e)
  BY DEF Flow
<1>5. Count(Append(q, d), e) = Count(q, e) + (IF d = e THEN 1 ELSE 0)
  BY CountAppend
<1>6. Len(c[e]) = IF d = e THEN Len(cb[e]) + 1 ELSE Len(cb[e])
  BY <1>1 DEF Callbacks
<1> QED BY <1>3, <1>4, <1>5, <1>6

\* An answer finds a callback, which handleAck takes off.
LEMMA FlowAck ==
    ASSUME NEW cb \in Callbacks, NEW q \in Seq(Data), NEW b \in Seq(Data),
           NEW w \in Seq(Data), Flow(cb, q, b, w), w # <<>>,
           NEW d, d = Head(w)
    PROVE  /\ d \in Data /\ cb[d] # <<>>
           /\ Flow([cb EXCEPT ![d] = Tail(@)], q, b, Tail(w))
<1>1. d \in Data /\ Tail(w) \in Seq(Data)
  OBVIOUS
<1>2. \A e \in Data : /\ Count(q, e) \in Nat /\ Count(w, e) \in Nat
                      /\ Count(b, e) \in Nat /\ Count(Tail(w), e) \in Nat
  BY <1>1, CountNat, Zenon
<1>3. \A e \in Data : Len(cb[e]) = Count(q, e) + Count(b, e) + Count(w, e)
  BY DEF Flow
<1>4. \A e \in Data : Count(w, e) = Count(Tail(w), e) + (IF d = e THEN 1 ELSE 0)
  BY CountTail
<1>5. cb[d] \in Seq(Ping) /\ Len(cb[d]) > 0
  <2>1. Count(w, d) = Count(Tail(w), d) + 1
    BY <1>1, <1>4
  <2>2. /\ Count(q, d) \in Nat /\ Count(b, d) \in Nat /\ Count(Tail(w), d) \in Nat
        /\ Len(cb[d]) = Count(q, d) + Count(b, d) + Count(w, d)
    BY <1>1, <1>2, <1>3, Zenon
  <2> QED BY <1>1, <2>1, <2>2 DEF Callbacks
<1>6. cb[d] # <<>>
  BY <1>5
<1>7. PICK c : c = [cb EXCEPT ![d] = Tail(@)]
  BY Zenon
<1>8. Flow(c, q, b, Tail(w))
  <2> SUFFICES ASSUME NEW e \in Data
               PROVE  Len(c[e]) = Count(q, e) + Count(b, e) + Count(Tail(w), e)
    BY DEF Flow
  <2>1. Len(c[e]) = IF d = e THEN Len(cb[e]) - 1 ELSE Len(cb[e])
    BY <1>5, <1>6, <1>7 DEF Callbacks
  <2>2. /\ Count(q, e) \in Nat /\ Count(b, e) \in Nat /\ Count(Tail(w), e) \in Nat
        /\ Len(cb[e]) = Count(q, e) + Count(b, e) + Count(w, e)
        /\ Count(w, e) = Count(Tail(w), e) + (IF d = e THEN 1 ELSE 0)
    BY <1>2, <1>3, <1>4
  <2> QED BY <2>1, <2>2
<1> QED BY <1>1, <1>6, <1>7, <1>8

-----------------------------------------------------------------------------
\* Calls of Ping

CallsWith(d) == {p \in Ping : PingData[p] = d}

Registered(p) == Count(pings.callbacks[PingData[p]], p)

PingInv ==
    /\ DOMAIN pings = {"err", "callbacks"}
    /\ pings.callbacks \in Callbacks
    /\ \A d \in Data : pings.callbacks[d] \in Seq(CallsWith(d))
    /\ ping \in [Ping -> {"idle", "waiting", "ok", "failed"}]
    /\ \A p \in Ping : Registered(p) = IF ping[p] = "waiting" THEN 1 ELSE 0

\* addPing registers a call that had no result.
LEMMA AddPingPing ==
    ASSUME PingInv, NEW p \in Ping, AddPing(p)
    PROVE  PingInv'
<1>1. PICK d : d = PingData[p]
  OBVIOUS
<1>2. d \in Data /\ p \in CallsWith(d)
  BY <1>1 DEF Data, CallsWith
<1>3. ping[p] = "idle"
  BY DEF AddPing
<1>4. CASE pings.err
  <2>1. pings' = pings /\ ping' = Called({p}, "failed")
    BY <1>4 DEF AddPing
  <2>2. ping' = [ping EXCEPT ![p] = "failed"]
    BY <1>3, <2>1, Zenon DEF Called, PingInv
  <2> QED BY <1>3, <2>1, <2>2, Zenon DEF PingInv, Registered
<1>5. CASE ~pings.err
  <2>1. /\ ping' = [ping EXCEPT ![p] = "waiting"]
        /\ pings' = [pings EXCEPT !.callbacks[d] = Append(@, p)]
    BY <1>1, <1>5 DEF AddPing
  <2>2. PICK cb : cb = pings.callbacks
    OBVIOUS
  <2>3. cb \in Callbacks /\ \A e \in Data : cb[e] \in Seq(CallsWith(e))
    BY <2>2 DEF PingInv
  <2>4. PICK c : c = [cb EXCEPT ![d] = Append(@, p)]
    BY ZenonT(30)
  <2>5. DOMAIN pings' = {"err", "callbacks"} /\ pings'.callbacks = c
    BY <2>1, <2>2, <2>4 DEF PingInv
  <2>6. c \in Callbacks /\ \A e \in Data : c[e] \in Seq(CallsWith(e))
    BY <1>2, <2>3, <2>4 DEF Callbacks
  <2>7. ping' \in [Ping -> {"idle", "waiting", "ok", "failed"}]
    BY <2>1 DEF PingInv
  <2>8. ASSUME NEW r \in Ping
        PROVE  Count(c[PingData[r]], r) = IF ping'[r] = "waiting" THEN 1 ELSE 0
    <3>1. PingData[r] \in Data
      BY DEF Data
    <3>2. Count(cb[PingData[r]], r) = IF ping[r] = "waiting" THEN 1 ELSE 0
      BY <2>2 DEF PingInv, Registered
    <3>3. CASE PingData[r] = d
      <4>1. c[PingData[r]] = Append(cb[d], p) /\ cb[d] \in Seq(Ping)
        BY <1>2, <2>3, <2>4, <3>3 DEF Callbacks
      <4>2. Count(Append(cb[d], p), r) = Count(cb[d], r) + (IF p = r THEN 1 ELSE 0)
        BY <4>1, CountAppend
      <4>3. CASE p = r
        BY <1>3, <2>1, <3>2, <3>3, <4>1, <4>2, <4>3 DEF PingInv
      <4>4. CASE p # r
        BY <2>1, <3>2, <3>3, <4>1, <4>2, <4>4 DEF PingInv
      <4> QED BY <4>3, <4>4
    <3>4. CASE PingData[r] # d
      <4>1. c[PingData[r]] = cb[PingData[r]] /\ p # r
        BY <1>1, <2>3, <2>4, <3>1, <3>4 DEF Callbacks
      <4> QED BY <2>1, <3>2, <4>1 DEF PingInv
    <3> QED BY <3>3, <3>4
  <2> QED BY <2>5, <2>6, <2>7, <2>8 DEF PingInv, Registered
<1> QED BY <1>4, <1>5

\* A callback that is registered has not been called.
LEMMA RegisteredWaits ==
    ASSUME PingInv, NEW d \in Data, NEW p \in Range(pings.callbacks[d])
    PROVE  p \in Ping /\ PingData[p] = d /\ ping[p] = "waiting"
<1>1. pings.callbacks[d] \in Seq(CallsWith(d))
  BY DEF PingInv
<1>2. p \in CallsWith(d)
  BY <1>1 DEF Range
<1>3. p \in Ping /\ PingData[p] = d
  BY <1>2 DEF CallsWith
<1>4. Count(pings.callbacks[d], p) # 0
  BY <1>1, CountNat
<1> QED BY <1>3, <1>4 DEF PingInv, Registered

\* handleAck gives a result to the call whose callback it takes off.
LEMMA HandleAckPing ==
    ASSUME PingInv, NEW d \in Data, HandleAck(d)
    PROVE  PingInv'
<1>1. PICK cb : cb = pings.callbacks
  OBVIOUS
<1>2. cb \in Callbacks /\ \A e \in Data : cb[e] \in Seq(CallsWith(e))
  BY <1>1 DEF PingInv
<1>3. CASE cb[d] = <<>>
  <2>1. pings' = pings /\ ping' = ping
    BY <1>1, <1>3 DEF HandleAck, calls
  <2> QED BY <2>1 DEF PingInv, Registered
<1>4. CASE cb[d] # <<>>
  <2>1. PICK p : p = Head(cb[d])
    OBVIOUS
  <2>2. p \in Range(cb[d])
    BY <1>2, <1>4, <2>1 DEF Range
  <2>3. p \in Ping /\ PingData[p] = d /\ ping[p] = "waiting"
    BY <1>1, <2>2, RegisteredWaits
  <2>4. /\ ping' = Called({p}, "ok")
        /\ pings' = [pings EXCEPT !.callbacks[d] = Tail(@)]
    BY <1>1, <1>4, <2>1 DEF HandleAck
  <2>5. ping' = [ping EXCEPT ![p] = "ok"]
    BY <2>3, <2>4, Zenon DEF Called, PingInv
  <2>6. PICK c : c = [cb EXCEPT ![d] = Tail(@)]
    BY ZenonT(30)
  <2>7. DOMAIN pings' = {"err", "callbacks"} /\ pings'.callbacks = c
    BY <1>1, <2>4, <2>6 DEF PingInv
  <2>8. c \in Callbacks /\ \A e \in Data : c[e] \in Seq(CallsWith(e))
    BY <1>2, <1>4, <2>6 DEF Callbacks
  <2>9. ping' \in [Ping -> {"idle", "waiting", "ok", "failed"}]
    BY <2>5, Zenon DEF PingInv
  <2>10. ASSUME NEW r \in Ping
         PROVE  Count(c[PingData[r]], r) = IF ping'[r] = "waiting" THEN 1 ELSE 0
    <3>1. PingData[r] \in Data
      BY DEF Data
    <3>2. Count(cb[PingData[r]], r) = IF ping[r] = "waiting" THEN 1 ELSE 0
      BY <1>1 DEF PingInv, Registered
    <3>3. CASE PingData[r] = d
      <4>1. c[PingData[r]] = Tail(cb[d]) /\ cb[d] \in Seq(Ping)
        BY <1>2, <2>6, <3>3 DEF Callbacks
      <4>2. Count(cb[d], r) = Count(Tail(cb[d]), r) + (IF p = r THEN 1 ELSE 0)
        BY <1>4, <2>1, <4>1, CountTail
      <4>3. Count(Tail(cb[d]), r) \in Nat
        <5>1. Tail(cb[d]) \in Seq(Ping)
          BY <1>4, <4>1
        <5> QED BY <5>1, CountNat, Zenon
      <4>4. CASE p = r
        BY <2>3, <2>5, <3>2, <3>3, <4>1, <4>2, <4>3, <4>4 DEF PingInv
      <4>5. CASE p # r
        BY <2>5, <3>2, <3>3, <4>1, <4>2, <4>3, <4>5 DEF PingInv
      <4> QED BY <4>4, <4>5
    <3>4. CASE PingData[r] # d
      <4>1. c[PingData[r]] = cb[PingData[r]] /\ p # r
        BY <1>2, <2>3, <2>6, <3>1, <3>4 DEF Callbacks
      <4> QED BY <2>5, <3>2, <4>1 DEF PingInv
    <3> QED BY <3>3, <3>4
  <2> QED BY <2>7, <2>8, <2>9, <2>10 DEF PingInv, Registered
<1> QED BY <1>3, <1>4

\* fail gives a result to every call that is registered, once.
LEMMA FailPingsPing ==
    ASSUME PingInv, FailPings
    PROVE  PingInv'
<1>1. PICK F : F = UNION {Range(pings.callbacks[d]) : d \in Data}
  BY ZenonT(30)
<1>2. ping' = Called(F, "failed") /\ pings' = [NewPings EXCEPT !.err = TRUE]
  BY <1>1 DEF FailPings
<1>3. DOMAIN pings' = {"err", "callbacks"} /\ pings'.callbacks = [d \in Data |-> <<>>]
  BY <1>2 DEF NewPings
<1>4. /\ pings'.callbacks \in Callbacks
      /\ \A d \in Data : pings'.callbacks[d] \in Seq(CallsWith(d))
  BY <1>3 DEF Callbacks
<1>5. \A p \in F : p \in Ping /\ ping[p] = "waiting"
  BY <1>1, RegisteredWaits
<1>6. ASSUME NEW p \in Ping, p \notin F PROVE ping[p] # "waiting"
  <2>1. PingData[p] \in Data
    BY DEF Data
  <2>2. p \notin Range(pings.callbacks[PingData[p]])
    BY <1>1, <1>6, <2>1
  <2>3. pings.callbacks[PingData[p]] \in Seq(Ping)
    BY <2>1 DEF PingInv, Callbacks
  <2>4. Registered(p) = 0
    BY <2>2, <2>3, CountNat DEF Registered
  <2> QED BY <2>4 DEF PingInv
<1>7. ping' \in [Ping -> {"idle", "waiting", "ok", "failed"}]
  BY <1>2, <1>5 DEF Called, PingInv
<1>8. \A p \in Ping : ping'[p] # "waiting"
  BY <1>2, <1>5, <1>6 DEF Called, PingInv
<1>9. ASSUME NEW p \in Ping PROVE Registered(p)' = 0
  <2>1. PingData[p] \in Data
    BY DEF Data
  <2>2. pings'.callbacks[PingData[p]] = <<>>
    BY <1>3, <2>1
  <2>3. <<>> \in Seq(Ping)
    OBVIOUS
  <2> QED BY <2>2, <2>3, CountNat, ZenonT(30) DEF Registered
<1> QED BY <1>3, <1>4, <1>7, <1>8, <1>9 DEF PingInv

-----------------------------------------------------------------------------
\* Answers

AnswerType ==
    /\ load \in Loads /\ failed \in BOOLEAN
    /\ reader \in {"reading", "told", "failing", "stopped"}
    /\ reader = "failing" => failed
    /\ out.err \in BOOLEAN /\ (failed => out.err)
    /\ out.pingQueue \in Seq(Data) /\ out.pingAcks \in Seq(Data)
    /\ out.settingsAcks \in 0 .. peer.settings
    /\ loop.pc \in {"wait", "turn", "acks", "pings", "settings", "ctrl", "data",
                    "stopped", "closed"}
    /\ loop.batch \in Seq(Data)
    /\ loop.pc \in {"acks", "pings"} => loop.batch # <<>>
    /\ wire \in Seq(Data)
    /\ peer \in [pings : Nat, acks : Nat, settings : Nat, settingsAcks : Nat]
    /\ peer.settings <= load.settings

\* Until the write loop is told to stop nothing that was asked is left
\* unanswered.
Answered ==
    /\ Flow(pings.callbacks, out.pingQueue, Batch("pings"), wire)
    /\ peer.pings = Len(out.pingAcks) + Len(Batch("acks")) + peer.acks
    /\ peer.settings = out.settingsAcks + peer.settingsAcks
                       + (IF loop.pc = "settings" THEN 1 ELSE 0)

AnswerInv == AnswerType /\ (~out.err => Answered)

\* p has the answers and pings of o.
SameAnswers(o, p) ==
    /\ p.err = o.err /\ p.pingQueue = o.pingQueue /\ p.pingAcks = o.pingAcks
    /\ p.settingsAcks = o.settingsAcks

\* What streams ask of the write loop leaves pings and answers alone.
LEMMA StreamsAnswer ==
    ASSUME NEW o, DOMAIN o = OutgoingField, NEW s
    PROVE  /\ SameAnswers(o, o) /\ SameAnswers(o, Wakeup(o))
           /\ SameAnswers(o, AddCtrl(o, s)) /\ SameAnswers(o, AddData(o, s))
<1> USE DEF SameAnswers, OutgoingField, Wakeup
<1>1. SameAnswers(o, o) /\ SameAnswers(o, Wakeup(o))
  OBVIOUS
<1>2. SameAnswers(o, AddCtrl(o, s))
  BY DEF AddCtrl
<1>3. SameAnswers(o, AddData(o, s))
  BY DEF AddData
<1> QED BY <1>1, <1>2, <1>3

\* A step of streams.
LEMMA QuietAnswers ==
    ASSUME AnswerInv, SameAnswers(out, out'), loop' = loop,
           UNCHANGED <<load, failed, reader, calls, wire, peer>>
    PROVE  AnswerInv'
<1>1. AnswerType'
  BY DEF AnswerInv, AnswerType, SameAnswers
<1>2. Answered => Answered'
  BY ZenonT(30) DEF Answered, SameAnswers, Batch, Flow, calls
<1> QED BY <1>1, <1>2, ZenonT(30) DEF AnswerInv, SameAnswers

\* fail and clearPingQueue
LEMMA FailedAnswers ==
    ASSUME NEW o, DOMAIN o = OutgoingField, o.err \in BOOLEAN
    PROVE  /\ LET p == FailOutgoing(o)
              IN /\ p.err = TRUE /\ p.pingQueue = o.pingQueue
                 /\ p.pingAcks = o.pingAcks /\ p.settingsAcks = o.settingsAcks
           /\ LET p == ClearPingQueue(FailOutgoing(o))
              IN /\ p.err = TRUE /\ p.pingQueue = <<>>
                 /\ p.pingAcks = o.pingAcks /\ p.settingsAcks = o.settingsAcks
<1>1. LET p == FailOutgoing(o)
      IN /\ p.err = TRUE /\ p.pingQueue = o.pingQueue
         /\ p.pingAcks = o.pingAcks /\ p.settingsAcks = o.settingsAcks
         /\ DOMAIN p = OutgoingField
  BY DEF FailOutgoing, Wakeup, OutgoingField
<1>2. \A p : DOMAIN p = OutgoingField =>
          LET q == ClearPingQueue(p)
          IN /\ q.err = p.err /\ q.pingQueue = <<>>
             /\ q.pingAcks = p.pingAcks /\ q.settingsAcks = p.settingsAcks
  BY DEF ClearPingQueue, OutgoingField
<1> QED BY <1>1, <1>2, Zenon

\* Once the write loop is told to stop only types matter.
LEMMA FailAnswers ==
    ASSUME AnswerInv, DOMAIN out = OutgoingField, Fail,
           loop' = loop \/ (Goto("stopped", <<>>, Nil)),
           reader' \in {reader, "failing"},
           UNCHANGED <<load, calls, wire, peer>>
    PROVE  AnswerInv'
<1>1. failed' = TRUE
  BY DEF Fail
<1>2. /\ out'.err = TRUE /\ out'.pingQueue \in Seq(Data)
      /\ out'.pingAcks = out.pingAcks /\ out'.settingsAcks = out.settingsAcks
  <2>1. /\ out.err \in BOOLEAN /\ out.pingQueue \in Seq(Data)
        /\ failed => out.err
    BY DEF AnswerInv, AnswerType
  <2>2. CASE failed
    BY <2>1, <2>2 DEF Fail
  <2>3. CASE out' = ClearPingQueue(FailOutgoing(out))
    <3>1. <<>> \in Seq(Data)
      OBVIOUS
    <3> QED BY <2>1, <2>3, <3>1, FailedAnswers, Zenon
  <2> QED BY <2>2, <2>3 DEF Fail
<1>3. /\ loop'.pc \in {"wait", "turn", "acks", "pings", "settings", "ctrl", "data",
                       "stopped", "closed"}
      /\ loop'.batch \in Seq(Data)
      /\ loop'.pc \in {"acks", "pings"} => loop'.batch # <<>>
  <2>1. CASE loop' = loop
    BY <2>1 DEF AnswerInv, AnswerType
  <2>2. CASE Goto("stopped", <<>>, Nil)
    <3>1. loop'.pc = "stopped" /\ loop'.batch = <<>>
      BY <2>2 DEF Goto
    <3> QED BY <3>1
  <2> QED BY <2>1, <2>2, ZenonT(30)
<1> QED BY <1>1, <1>2, <1>3 DEF AnswerInv, AnswerType

\* processResetFrame tells the write loop of the error of the other end.
LEMMA ToldAnswers ==
    ASSUME AnswerInv, DOMAIN out = OutgoingField, ArriveConnError
    PROVE  AnswerInv'
<1>1. /\ out' = FailOutgoing(out) /\ loop' = loop /\ reader' = "told"
      /\ UNCHANGED <<load, failed, wire, peer>>
  BY DEF ArriveConnError
<1>2. /\ out'.err = TRUE /\ out'.pingQueue = out.pingQueue
      /\ out'.pingAcks = out.pingAcks /\ out'.settingsAcks = out.settingsAcks
  BY <1>1, FailedAnswers DEF AnswerInv, AnswerType
<1> QED BY <1>1, <1>2 DEF AnswerInv, AnswerType

\* addPing.
LEMMA AddPingAnswers ==
    ASSUME AnswerInv, PingInv, DOMAIN out = OutgoingField, NEW p \in Ping, AddPing(p)
    PROVE  AnswerInv'
<1>1. PICK d : d = PingData[p]
  OBVIOUS
<1>2. d \in Data
  BY <1>1 DEF Data
<1>3. UNCHANGED <<load, failed, reader, wire, peer>> /\ loop' = loop
  BY ZenonT(30) DEF AddPing
<1>4. CASE pings.err
  <2>1. pings' = pings /\ out' = out
    BY <1>4 DEF AddPing
  <2>2. Batch("pings")' = Batch("pings") /\ Batch("acks")' = Batch("acks")
    BY <1>3 DEF Batch
  <2> QED BY <1>3, <2>1, <2>2 DEF AnswerInv, AnswerType, Answered, Flow
<1>5. CASE ~pings.err
  <2>1. /\ pings' = [pings EXCEPT !.callbacks[d] = Append(@, p)]
        /\ out' = AddPingQueue(out, d)
    BY <1>1, <1>5 DEF AddPing
  <2>2. /\ out'.err = out.err /\ out'.pingAcks = out.pingAcks
        /\ out'.settingsAcks = out.settingsAcks
        /\ out'.pingQueue = IF out.err THEN out.pingQueue
                            ELSE Append(out.pingQueue, d)
    BY <2>1, Zenon DEF AddPingQueue, Wakeup, OutgoingField
  <2>3. AnswerType'
    <3>1. out.pingQueue \in Seq(Data)
      BY Zenon DEF AnswerInv, AnswerType
    <3>2. Append(out.pingQueue, d) \in Seq(Data)
      BY <1>2, <3>1
    <3>3. out'.pingQueue \in Seq(Data)
      BY <2>2, <3>1, <3>2, Zenon
    <3>4. /\ load' = load /\ failed' = failed /\ reader' = reader /\ wire' = wire
          /\ peer' = peer /\ loop' = loop
      BY <1>3, Zenon
    <3> QED BY <2>2, <3>3, <3>4, ZenonT(30) DEF AnswerInv, AnswerType
  <2>4. ASSUME ~out.err PROVE Answered'
    <3>1. Answered /\ ~out.err
      BY <2>4 DEF AnswerInv, AnswerType
    <3>2. PICK cb : cb = pings.callbacks
      OBVIOUS
    <3>3. PICK b : b = Batch("pings")
      OBVIOUS
    <3>4. cb \in Callbacks /\ b \in Seq(Data)
      BY <3>2, <3>3 DEF PingInv, Batch, AnswerInv, AnswerType
    <3>5. pings'.callbacks = [cb EXCEPT ![d] = Append(@, p)]
      BY <2>1, <3>2 DEF PingInv
    <3>6. Flow(cb, out.pingQueue, b, wire)
      BY <3>1, <3>2, <3>3 DEF Answered
    <3>7. PICK q : q = out.pingQueue
      OBVIOUS
    <3>8. PICK w : w = wire
      BY Zenon
    <3>9. Flow([cb EXCEPT ![d] = Append(@, p)], Append(q, d), b, w)
      BY <1>2, <3>4, <3>6, <3>7, <3>8, FlowAdd, Zenon DEF AnswerInv, AnswerType
    <3>10. Batch("pings")' = b /\ Batch("acks")' = Batch("acks")
      BY <1>3, <3>3, ZenonT(30) DEF Batch
    <3>11. Flow(pings.callbacks, out.pingQueue, Batch("pings"), wire)'
      BY <1>3, <2>2, <3>1, <3>5, <3>7, <3>8, <3>9, <3>10
    <3> QED BY <1>3, <2>2, <3>1, <3>10, <3>11, ZenonT(30) DEF Answered
  <2> QED BY <2>2, <2>3, <2>4 DEF AnswerInv
<1> QED BY <1>4, <1>5

\* handleAck finds the callback of the ping that was answered.
LEMMA ArriveAckAnswers ==
    ASSUME AnswerInv, PingInv, ArriveAck
    PROVE  AnswerInv' /\ PingInv'
<1>1. PICK w : w = wire
  OBVIOUS
<1>2. w \in Seq(Data) /\ w # <<>>
  BY <1>1 DEF AnswerInv, AnswerType, ArriveAck
<1>3. PICK d : d = Head(w)
  OBVIOUS
<1>4. d \in Data /\ Tail(w) \in Seq(Data)
  BY <1>2, <1>3
<1>5. /\ HandleAck(d) /\ wire' = Tail(w)
      /\ UNCHANGED <<load, failed, reader, out, peer>> /\ loop' = loop
  BY <1>1, <1>3 DEF ArriveAck
<1>6. PingInv'
  BY <1>4, <1>5, HandleAckPing, Zenon
<1>7. AnswerType'
  BY <1>4, <1>5, Zenon DEF AnswerInv, AnswerType
<1>8. ASSUME ~out.err PROVE Answered'
  <2>1. Answered
    BY <1>8 DEF AnswerInv
  <2>2. PICK cb : cb = pings.callbacks
    OBVIOUS
  <2>3. PICK b : b = Batch("pings")
    OBVIOUS
  <2>4. PICK q : q = out.pingQueue
    OBVIOUS
  <2>5. cb \in Callbacks /\ b \in Seq(Data) /\ q \in Seq(Data)
    BY <2>2, <2>3, <2>4 DEF PingInv, Batch, AnswerInv, AnswerType
  <2>6. Flow(cb, q, b, w)
    BY <1>1, <2>1, <2>2, <2>3, <2>4 DEF Answered
  <2>7. cb[d] # <<>> /\ Flow([cb EXCEPT ![d] = Tail(@)], q, b, Tail(w))
    BY <1>2, <1>3, <2>5, <2>6, FlowAck, Zenon
  <2>8. pings'.callbacks = [cb EXCEPT ![d] = Tail(@)]
    BY <1>5, <2>2, <2>7 DEF HandleAck, PingInv
  <2>9. Batch("pings")' = b /\ Batch("acks")' = Batch("acks")
    BY <1>5, <2>3, ZenonT(30) DEF Batch
  <2>10. Flow(pings.callbacks, out.pingQueue, Batch("pings"), wire)'
    BY <1>5, <2>4, <2>7, <2>8, <2>9
  <2> QED BY <1>5, <2>1, <2>9, <2>10 DEF Answered
<1> QED BY <1>5, <1>6, <1>7, <1>8 DEF AnswerInv

\* Frames of the other end, and the end of the read loop.
LEMMA ArriveAnswers ==
    ASSUME AnswerInv, DOMAIN out = OutgoingField,
           ArrivePing \/ ArriveSettings \/ ReaderEnds
    PROVE  AnswerInv'
<1>1. load.pings \in Nat /\ load.settings \in Nat
  BY LoadsAssumption DEF AnswerInv, AnswerType
<1>2. CASE ArrivePing
  <2>1. PICK d \in Data : out' = AddPingAck(out, d)
    BY <1>2 DEF ArrivePing
  <2>2. /\ out'.err = out.err /\ out'.pingQueue = out.pingQueue
        /\ out'.settingsAcks = out.settingsAcks
        /\ out'.pingAcks = Append(out.pingAcks, d)
    BY <2>1 DEF AddPingAck, Wakeup, OutgoingField
  <2>3. /\ peer' = [peer EXCEPT !.pings = @ + 1]
        /\ UNCHANGED <<load, failed, reader, calls, wire>> /\ loop' = loop
    BY <1>2 DEF ArrivePing
  <2>4. /\ peer'.pings = peer.pings + 1 /\ peer'.acks = peer.acks
        /\ peer'.settings = peer.settings
        /\ peer'.settingsAcks = peer.settingsAcks
        /\ peer' \in [pings : Nat, acks : Nat, settings : Nat, settingsAcks : Nat]
    BY <2>3, SMTT(30) DEF AnswerInv, AnswerType
  <2>5. AnswerType'
    BY <2>1, <2>2, <2>3, <2>4 DEF AnswerInv, AnswerType
  <2>6. ASSUME ~out.err PROVE Answered'
    <3>1. Answered
      BY <2>6 DEF AnswerInv
    <3>2. Batch("pings")' = Batch("pings") /\ Batch("acks")' = Batch("acks")
      BY <2>3 DEF Batch
    <3>3. Flow(pings.callbacks, out.pingQueue, Batch("pings"), wire)'
      BY <2>2, <2>3, <3>1, <3>2 DEF Answered, calls
    <3>4. Len(out'.pingAcks) = Len(out.pingAcks) + 1 /\ Len(out.pingAcks) \in Nat
      BY <2>1, <2>2 DEF AnswerInv, AnswerType
    <3>5. Len(Batch("acks")) \in Nat /\ peer.acks \in Nat
      BY DEF AnswerInv, AnswerType, Batch
    <3> QED BY <2>2, <2>3, <2>4, <3>1, <3>2, <3>3, <3>4, <3>5 DEF Answered
  <2> QED BY <2>2, <2>5, <2>6 DEF AnswerInv
<1>3. CASE ArriveSettings
  <2>1. out' = AddSettingsAck(out)
    BY <1>3 DEF ArriveSettings
  <2>2. /\ out'.err = out.err /\ out'.pingQueue = out.pingQueue
        /\ out'.settingsAcks = out.settingsAcks + 1
        /\ out'.pingAcks = out.pingAcks
    BY <2>1 DEF AddSettingsAck, Wakeup, OutgoingField
  <2>3. /\ peer' = [peer EXCEPT !.settings = @ + 1] /\ peer.settings < load.settings
        /\ UNCHANGED <<load, failed, reader, calls, wire>> /\ loop' = loop
    BY <1>3 DEF ArriveSettings
  <2>4. /\ peer'.settings = peer.settings + 1 /\ peer'.acks = peer.acks
        /\ peer'.pings = peer.pings
        /\ peer'.settingsAcks = peer.settingsAcks
        /\ peer' \in [pings : Nat, acks : Nat, settings : Nat, settingsAcks : Nat]
    BY <2>3, SMTT(30) DEF AnswerInv, AnswerType
  <2>5. AnswerType'
    <3>1. /\ peer.settings \in Nat /\ load'.settings = load.settings
          /\ out.settingsAcks \in 0 .. peer.settings
      BY <2>3 DEF AnswerInv, AnswerType
    <3>2. /\ out'.settingsAcks \in 0 .. peer'.settings
          /\ peer'.settings <= load'.settings
      BY <1>1, <2>2, <2>3, <2>4, <3>1
    <3> QED BY <2>2, <2>3, <2>4, <3>2 DEF AnswerInv, AnswerType
  <2>6. ASSUME ~out.err PROVE Answered'
    <3>1. Answered
      BY <2>6 DEF AnswerInv
    <3>2. Batch("pings")' = Batch("pings") /\ Batch("acks")' = Batch("acks")
      BY <2>3 DEF Batch
    <3>3. Flow(pings.callbacks, out.pingQueue, Batch("pings"), wire)'
      BY <2>2, <2>3, <3>1, <3>2 DEF Answered, calls
    <3>4. /\ out.settingsAcks \in Nat /\ peer.settingsAcks \in Nat
          /\ peer.settings \in Nat
      BY DEF AnswerInv, AnswerType
    <3>5. peer'.settings = out'.settingsAcks + peer'.settingsAcks
                           + (IF loop'.pc = "settings" THEN 1 ELSE 0)
      BY <2>2, <2>3, <2>4, <3>1, <3>4, SMTT(30) DEF Answered
    <3> QED BY <2>2, <2>4, <3>1, <3>2, <3>3, <3>5 DEF Answered
  <2> QED BY <2>2, <2>5, <2>6 DEF AnswerInv
<1>4. CASE ReaderEnds
  <2>1. /\ out' = ClearPingQueue(out) /\ reader' = "stopped"
        /\ reader = "failing" /\ UNCHANGED <<load, failed, wire, peer>>
        /\ loop' = loop
    BY <1>4 DEF ReaderEnds, FailPings
  <2>2. /\ out'.err = out.err /\ out'.pingQueue = <<>>
        /\ out'.settingsAcks = out.settingsAcks /\ out'.pingAcks = out.pingAcks
    BY <2>1 DEF ClearPingQueue, OutgoingField
  <2>3. failed' /\ out'.err
    BY <2>1, <2>2 DEF AnswerInv, AnswerType
  <2> QED BY <2>1, <2>2, <2>3 DEF AnswerInv, AnswerType
<1> QED BY <1>2, <1>3, <1>4

\* A turn of writeFrames takes what there is to answer or to ask.
LEMMA TakeAnswers ==
    ASSUME AnswerInv, PingInv, DOMAIN out = OutgoingField,
           TakeAcks \/ TakePings \/ TakeSettings
    PROVE  AnswerInv'
<1>1. /\ UNCHANGED <<load, failed, reader, calls, wire, peer>>
      /\ loop.pc \in {"turn", "wait"}
  BY DEF TakeAcks, TakePings, TakeSettings, Turn, AtTurn
<1>2. Batch("acks") = <<>> /\ Batch("pings") = <<>>
  BY <1>1 DEF Batch
<1>3. Len(<<>>) = 0 /\ <<>> \in Seq(Data)
  OBVIOUS
<1>4. /\ out.settingsAcks \in Nat /\ peer.settingsAcks \in Nat
      /\ Len(out.pingAcks) \in Nat /\ peer.acks \in Nat /\ peer.settings \in Nat
  BY DEF AnswerInv, AnswerType
<1>5. CASE TakeAcks
  <2>1. /\ out' = [out EXCEPT !.pingAcks = <<>>] /\ out.pingAcks # <<>>
        /\ loop' = [pc |-> "acks", batch |-> out.pingAcks, stream |-> Nil]
    BY <1>5 DEF TakeAcks, Turn, Work, Goto
  <2>2. /\ out'.err = out.err /\ out'.pingQueue = out.pingQueue
        /\ out'.settingsAcks = out.settingsAcks /\ out'.pingAcks = <<>>
    BY <2>1 DEF OutgoingField
  <2>3. AnswerType'
    BY <1>1, <1>3, <2>1, <2>2 DEF AnswerInv, AnswerType
  <2>4. Batch("acks")' = out.pingAcks /\ Batch("pings")' = <<>>
    BY <2>1 DEF Batch
  <2>5. ASSUME Answered PROVE Answered'
    <3>1. Flow(pings.callbacks, out.pingQueue, Batch("pings"), wire)'
      BY <1>1, <1>2, <2>2, <2>4, <2>5, Zenon DEF Answered, calls
    <3>2. peer'.pings = Len(out'.pingAcks) + Len(Batch("acks")') + peer'.acks
      BY <1>1, <1>2, <1>3, <1>4, <2>2, <2>4, <2>5 DEF Answered
    <3>3. peer'.settings = out'.settingsAcks + peer'.settingsAcks
                           + (IF loop'.pc = "settings" THEN 1 ELSE 0)
      BY <1>1, <2>1, <2>2, <2>5 DEF Answered
    <3> QED BY <3>1, <3>2, <3>3 DEF Answered
  <2> QED BY <2>2, <2>3, <2>5 DEF AnswerInv
<1>6. CASE TakePings
  <2>1. /\ out' = [out EXCEPT !.pingQueue = <<>>] /\ out.pingQueue # <<>>
        /\ loop' = [pc |-> "pings", batch |-> out.pingQueue, stream |-> Nil]
    BY <1>6 DEF TakePings, Turn, Work, Goto
  <2>2. /\ out'.err = out.err /\ out'.pingAcks = out.pingAcks
        /\ out'.settingsAcks = out.settingsAcks /\ out'.pingQueue = <<>>
    BY <2>1 DEF OutgoingField
  <2>3. AnswerType'
    BY <1>1, <1>3, <2>1, <2>2 DEF AnswerInv, AnswerType
  <2>4. Batch("pings")' = out.pingQueue /\ Batch("acks")' = <<>>
    BY <2>1 DEF Batch
  <2>5. ASSUME Answered PROVE Answered'
    <3>1. PICK cb : cb = pings.callbacks
      OBVIOUS
    <3>2. PICK q : q = out.pingQueue
      OBVIOUS
    <3>3. PICK w : w = wire
      OBVIOUS
    <3>4. Flow(cb, q, <<>>, w)
      BY <1>2, <2>5, <3>1, <3>2, <3>3 DEF Answered
    <3>5. cb \in Callbacks /\ q \in Seq(Data) /\ w \in Seq(Data)
      BY <3>1, <3>2, <3>3 DEF PingInv, AnswerInv, AnswerType
    <3>6. Flow(cb, <<>>, q, w)
      BY <3>4, <3>5, FlowTake, Zenon
    <3>7. Flow(pings.callbacks, out.pingQueue, Batch("pings"), wire)'
      BY <1>1, <2>2, <2>4, <3>1, <3>2, <3>3, <3>6 DEF calls
    <3>8. peer'.pings = Len(out'.pingAcks) + Len(Batch("acks")') + peer'.acks
      BY <1>1, <1>2, <2>2, <2>4, <2>5 DEF Answered
    <3>9. peer'.settings = out'.settingsAcks + peer'.settingsAcks
                           + (IF loop'.pc = "settings" THEN 1 ELSE 0)
      BY <1>1, <2>1, <2>2, <2>5 DEF Answered
    <3> QED BY <3>7, <3>8, <3>9 DEF Answered
  <2> QED BY <2>2, <2>3, <2>5 DEF AnswerInv
<1>7. CASE TakeSettings
  <2>1. /\ out' = [out EXCEPT !.settingsAcks = @ - 1] /\ out.settingsAcks > 0
        /\ loop' = [pc |-> "settings", batch |-> <<>>, stream |-> Nil]
    BY <1>7 DEF TakeSettings, Turn, Work, Goto
  <2>2. /\ out'.err = out.err /\ out'.pingAcks = out.pingAcks
        /\ out'.pingQueue = out.pingQueue
        /\ out'.settingsAcks = out.settingsAcks - 1
    BY <2>1 DEF OutgoingField
  <2>3. out'.settingsAcks \in 0 .. peer'.settings
    BY <1>1, <1>4, <2>1, <2>2 DEF AnswerInv, AnswerType
  <2>4. AnswerType'
    BY <1>1, <1>3, <2>1, <2>2, <2>3 DEF AnswerInv, AnswerType
  <2>5. Batch("pings")' = <<>> /\ Batch("acks")' = <<>>
    BY <2>1 DEF Batch
  <2>6. ASSUME Answered PROVE Answered'
    <3>1. Flow(pings.callbacks, out.pingQueue, Batch("pings"), wire)'
      BY <1>1, <1>2, <2>2, <2>5, <2>6, Zenon DEF Answered, calls
    <3>2. peer'.pings = Len(out'.pingAcks) + Len(Batch("acks")') + peer'.acks
      BY <1>1, <1>2, <2>2, <2>5, <2>6 DEF Answered
    <3>3. peer.settings = out.settingsAcks + peer.settingsAcks
      BY <1>1, <1>4, <2>6 DEF Answered
    <3>4. peer'.settings = out'.settingsAcks + peer'.settingsAcks
                           + (IF loop'.pc = "settings" THEN 1 ELSE 0)
      BY <1>1, <1>4, <2>1, <2>2, <3>3
    <3> QED BY <3>1, <3>2, <3>4 DEF Answered
  <2> QED BY <2>2, <2>4, <2>6 DEF AnswerInv
<1> QED BY <1>5, <1>6, <1>7

\* writeFrames writes an answer or a ping of its batch.
LEMMA WriteAnswers ==
    ASSUME AnswerInv, PingInv, DOMAIN out = OutgoingField,
           WriteAck \/ WritePing \/ WriteSettingsAck
    PROVE  AnswerInv'
<1>1. UNCHANGED <<load, failed, reader, calls, out>>
  BY DEF WriteAck, WritePing, WriteSettingsAck
<1>2. Len(<<>>) = 0 /\ <<>> \in Seq(Data)
  OBVIOUS
<1>3. /\ out.settingsAcks \in Nat /\ peer.settingsAcks \in Nat
      /\ Len(out.pingAcks) \in Nat /\ peer.acks \in Nat /\ peer.settings \in Nat
  BY DEF AnswerInv, AnswerType
<1>4. ASSUME loop.pc \in {"acks", "pings"},
             IF Len(loop.batch) = 1 THEN Again ELSE Goto(loop.pc, Tail(loop.batch), Nil)
      PROVE  /\ loop.batch \in Seq(Data) /\ loop.batch # <<>>
             /\ loop'.batch = Tail(loop.batch) /\ loop'.batch \in Seq(Data)
             /\ loop'.pc = IF Tail(loop.batch) = <<>> THEN "turn" ELSE loop.pc
  <2>1. loop.batch \in Seq(Data) /\ loop.batch # <<>>
    BY <1>4 DEF AnswerInv, AnswerType
  <2>2. PICK b \in Seq(Data) : b = loop.batch
    BY <2>1
  <2>3. /\ Tail(b) \in Seq(Data) /\ Len(b) \in Nat /\ Len(b) # 0
        /\ Len(Tail(b)) = Len(b) - 1
    BY <2>1, <2>2
  <2>4. CASE Len(b) = 1
    <3>1. Tail(b) = <<>>
      <4>1. Len(Tail(b)) = 0
        BY <2>3, <2>4
      <4>2. \A c \in Seq(Data) : Len(c) = 0 => c = <<>>
        OBVIOUS
      <4> QED BY <2>3, <4>1, <4>2, ZenonT(30)
    <3>2. loop'.pc = "turn" /\ loop'.batch = <<>>
      BY <1>4, <2>2, <2>4 DEF Again, Goto
    <3> QED BY <2>1, <2>2, <2>3, <3>1, <3>2
  <2>5. CASE Len(b) # 1
    <3>1. Tail(b) # <<>>
      BY <2>3, <2>5
    <3>2. loop'.pc = loop.pc /\ loop'.batch = Tail(b)
      BY <1>4, <2>2, <2>5 DEF Goto
    <3> QED BY <2>1, <2>2, <2>3, <3>1, <3>2
  <2> QED BY <2>4, <2>5, ZenonT(30)
<1>5. CASE WriteAck
  <2>1. /\ loop.pc = "acks" /\ wire' = wire /\ peer' = [peer EXCEPT !.acks = @ + 1]
        /\ IF Len(loop.batch) = 1 THEN Again
           ELSE Goto(loop.pc, Tail(loop.batch), Nil)
    BY <1>5 DEF WriteAck
  <2>2. PICK b \in Seq(Data) :
           /\ b = loop.batch /\ b # <<>> /\ loop'.batch = Tail(b)
           /\ Tail(b) \in Seq(Data)
           /\ loop'.pc = IF Tail(b) = <<>> THEN "turn" ELSE "acks"
    BY <1>4, <2>1, Zenon
  <2>3. /\ peer'.acks = peer.acks + 1 /\ peer'.pings = peer.pings
        /\ peer'.settings = peer.settings /\ peer'.settingsAcks = peer.settingsAcks
        /\ peer' \in [pings : Nat, acks : Nat, settings : Nat, settingsAcks : Nat]
    <3>1. peer \in [pings : Nat, acks : Nat, settings : Nat, settingsAcks : Nat]
      BY DEF AnswerInv, AnswerType
    <3> QED BY <2>1, <3>1
  <2>4. AnswerType'
    BY <1>1, <2>1, <2>2, <2>3, ZenonT(30) DEF AnswerInv, AnswerType
  <2>5. /\ Batch("acks")' = Tail(b) /\ Batch("acks") = b
        /\ Batch("pings")' = <<>> /\ Batch("pings") = <<>>
    BY <2>1, <2>2, Zenon DEF Batch
  <2>6. ASSUME Answered PROVE Answered'
    <3>1. Flow(pings.callbacks, out.pingQueue, Batch("pings"), wire)'
      BY <1>1, <2>1, <2>5, <2>6 DEF Answered, calls
    <3>2. Len(b) = Len(Tail(b)) + 1 /\ Len(Tail(b)) \in Nat
      BY <2>2
    <3>3. peer'.pings = Len(out'.pingAcks) + Len(Batch("acks")') + peer'.acks
      <4>1. peer.pings = Len(out.pingAcks) + Len(b) + peer.acks
        BY <2>5, <2>6 DEF Answered
      <4>2. peer'.pings = Len(out.pingAcks) + Len(Tail(b)) + (peer.acks + 1)
        <5>1. PICK i \in Nat : i = Len(out.pingAcks)
          BY <1>3
        <5>2. PICK j \in Nat : j = Len(Tail(b))
          BY <3>2
        <5>3. PICK k \in Nat : k = peer.acks
          BY <1>3
        <5>4. peer'.pings = i + (j + 1) + k
          BY <2>3, <3>2, <4>1, <5>1, <5>2, <5>3, Zenon
        <5>5. peer'.pings = i + j + (k + 1)
          BY <5>4
        <5> QED BY <5>1, <5>2, <5>3, <5>5
      <4> QED BY <1>1, <2>3, <2>5, <4>2, Zenon
    <3>4. peer'.settings = out'.settingsAcks + peer'.settingsAcks
                           + (IF loop'.pc = "settings" THEN 1 ELSE 0)
      BY <1>1, <2>1, <2>2, <2>3, <2>6 DEF Answered
    <3> QED BY <3>1, <3>3, <3>4 DEF Answered
  <2> QED BY <1>1, <2>4, <2>6 DEF AnswerInv
<1>6. CASE WritePing
  <2>1. /\ loop.pc = "pings" /\ peer' = peer /\ wire' = Append(wire, Head(loop.batch))
        /\ IF Len(loop.batch) = 1 THEN Again
           ELSE Goto(loop.pc, Tail(loop.batch), Nil)
    BY <1>6 DEF WritePing
  <2>2. PICK b \in Seq(Data) :
           /\ b = loop.batch /\ b # <<>> /\ loop'.batch = Tail(b)
           /\ Tail(b) \in Seq(Data)
           /\ loop'.pc = IF Tail(b) = <<>> THEN "turn" ELSE "pings"
    BY <1>4, <2>1, Zenon
  <2>3. wire' = Append(wire, Head(b)) /\ wire' \in Seq(Data)
    <3>1. wire \in Seq(Data) /\ wire' = Append(wire, Head(b))
      BY <2>1, <2>2, Zenon DEF AnswerInv, AnswerType
    <3>2. Head(b) \in Data
      BY <2>2
    <3> QED BY <3>1, <3>2
  <2>4. AnswerType'
    BY <1>1, <2>1, <2>2, <2>3 DEF AnswerInv, AnswerType
  <2>5. /\ Batch("pings")' = Tail(b) /\ Batch("pings") = b
        /\ Batch("acks")' = <<>> /\ Batch("acks") = <<>>
    BY <2>1, <2>2, Zenon DEF Batch
  <2>6. ASSUME Answered PROVE Answered'
    <3>1. PICK cb : cb = pings.callbacks
      OBVIOUS
    <3>2. PICK q : q = out.pingQueue
      OBVIOUS
    <3>3. PICK w : w = wire
      OBVIOUS
    <3>4. Flow(cb, q, b, w)
      BY <2>5, <2>6, <3>1, <3>2, <3>3, ZenonT(30) DEF Answered
    <3>5. cb \in Callbacks /\ q \in Seq(Data) /\ w \in Seq(Data)
      BY <3>1, <3>2, <3>3, ZenonT(30) DEF PingInv, AnswerInv, AnswerType
    <3>6. Flow(cb, q, Tail(b), Append(w, Head(b)))
      BY <2>2, <3>4, <3>5, FlowWrite
    <3>7. Flow(pings.callbacks, out.pingQueue, Batch("pings"), wire)'
      BY <1>1, <2>3, <2>5, <3>1, <3>2, <3>3, <3>6, Zenon DEF calls
    <3>8. peer'.pings = Len(out'.pingAcks) + Len(Batch("acks")') + peer'.acks
      BY <1>1, <2>1, <2>5, <2>6, ZenonT(30) DEF Answered
    <3>9. peer'.settings = out'.settingsAcks + peer'.settingsAcks
                           + (IF loop'.pc = "settings" THEN 1 ELSE 0)
      BY <1>1, <2>1, <2>2, <2>6 DEF Answered
    <3> QED BY <3>7, <3>8, <3>9 DEF Answered
  <2> QED BY <1>1, <2>4, <2>6 DEF AnswerInv
<1>7. CASE WriteSettingsAck
  <2>1. /\ loop.pc = "settings" /\ wire' = wire
        /\ peer' = [peer EXCEPT !.settingsAcks = @ + 1]
        /\ loop'.pc = "turn" /\ loop'.batch = <<>>
    BY <1>7 DEF WriteSettingsAck, Again, Goto
  <2>2. /\ peer'.settingsAcks = peer.settingsAcks + 1 /\ peer'.pings = peer.pings
        /\ peer'.settings = peer.settings /\ peer'.acks = peer.acks
        /\ peer' \in [pings : Nat, acks : Nat, settings : Nat, settingsAcks : Nat]
    BY <2>1, SMTT(30) DEF AnswerInv, AnswerType
  <2>3. AnswerType'
    BY <1>1, <1>2, <2>1, <2>2 DEF AnswerInv, AnswerType
  <2>4. /\ Batch("acks")' = <<>> /\ Batch("acks") = <<>>
        /\ Batch("pings")' = <<>> /\ Batch("pings") = <<>>
    BY <2>1 DEF Batch
  <2>5. ASSUME Answered PROVE Answered'
    <3>1. Flow(pings.callbacks, out.pingQueue, Batch("pings"), wire)'
      BY <1>1, <2>1, <2>4, <2>5 DEF Answered, calls
    <3>2. peer'.pings = Len(out'.pingAcks) + Len(Batch("acks")') + peer'.acks
      BY <1>1, <2>2, <2>4, <2>5 DEF Answered
    <3>3. peer.settings = out.settingsAcks + peer.settingsAcks + 1
      BY <2>1, <2>5 DEF Answered
    <3>4. peer'.settings = out'.settingsAcks + peer'.settingsAcks
                           + (IF loop'.pc = "settings" THEN 1 ELSE 0)
      BY <1>1, <1>3, <2>1, <2>2, <3>3
    <3> QED BY <3>1, <3>2, <3>4 DEF Answered
  <2> QED BY <1>1, <2>3, <2>5 DEF AnswerInv
<1> QED BY <1>5, <1>6, <1>7

\* Every step of the connection keeps account of pings and answers.
LEMMA AnswerStep ==
    ASSUME AnswerInv, PingInv, DOMAIN out = OutgoingField, [Next]_vars
    PROVE  AnswerInv' /\ PingInv'
<1> DEFINE Rest == <<load, failed, reader, calls, wire, peer>>
<1>1. ASSUME UNCHANGED calls PROVE PingInv'
  BY <1>1 DEF calls, PingInv, Registered, Count, Callbacks
<1>2. \A s : /\ SameAnswers(out, out) /\ SameAnswers(out, Wakeup(out))
             /\ SameAnswers(out, AddCtrl(out, s)) /\ SameAnswers(out, AddData(out, s))
  BY StreamsAnswer
<1>3. ASSUME SameAnswers(out, out'), loop' = loop, UNCHANGED Rest
      PROVE  AnswerInv' /\ PingInv'
  BY <1>1, <1>3, QuietAnswers DEF calls
<1> HIDE DEF Rest
<1>4. CASE NewStream \/ Allocation
  <2>1. UNCHANGED Rest /\ loop' = loop /\ (out' = out \/ \E s : out' = AddCtrl(out, s))
    BY <1>4 DEF NewStream, Allocation, AllocateTurn, StreamMade, Rest
  <2> QED BY <1>2, <1>3, <2>1
<1>5. CASE FailStreams
  <2>1. UNCHANGED Rest /\ loop' = loop /\ (out' = out \/ \E s : out' = AddCtrl(out, s))
    BY <1>5 DEF FailStreams, CloseDone, CloseNext, Rest
  <2> QED BY <1>2, <1>3, <2>1
<1>6. ASSUME NEW s \in Streams, ScheduleCtrl(s) \/ ScheduleData(s) \/ RemoveStream(s)
      PROVE  AnswerInv' /\ PingInv'
  <2>1. UNCHANGED Rest /\ loop' = loop
        /\ out' \in {out, AddCtrl(out, s), AddData(out, s)}
    BY <1>6 DEF ScheduleCtrl, ScheduleData, RemoveStream, Rest
  <2> QED BY <1>2, <1>3, <2>1
<1>7. ASSUME NEW p \in Ping, AddPing(p) PROVE AnswerInv' /\ PingInv'
  BY <1>7, AddPingPing, AddPingAnswers
<1>8. CASE CloseConn \/ WriteFail \/ ReadFail
  <2>1. /\ Fail /\ UNCHANGED <<load, calls, wire, peer>>
        /\ loop' = loop \/ Goto("stopped", <<>>, Nil)
        /\ reader' \in {reader, "failing"}
    BY <1>8 DEF CloseConn, WriteFail, ReadFail
  <2> QED BY <1>1, <2>1, FailAnswers
<1>9. CASE Break \/ KeepAlive
  <2>1. UNCHANGED Rest /\ loop' = loop /\ out' \in {out, Wakeup(out)}
    BY <1>9 DEF Break, KeepAlive, Rest
  <2> QED BY <1>2, <1>3, <2>1
<1>10. CASE TakeAcks \/ TakePings \/ TakeSettings
  <2>1. UNCHANGED calls
    BY <1>10 DEF TakeAcks, TakePings, TakeSettings, Turn
  <2> QED BY <1>1, <1>10, <2>1, TakeAnswers
<1>11. CASE WriteAck \/ WritePing \/ WriteSettingsAck
  <2>1. UNCHANGED calls
    BY <1>11 DEF WriteAck, WritePing, WriteSettingsAck
  <2> QED BY <1>1, <1>11, <2>1, WriteAnswers
<1>12. CASE TakeCtrl \/ TakeData \/ Sleep \/ WriteCtrl \/ WriteData \/ SendConnError
            \/ CloseNetwork
  <2>1. UNCHANGED Rest
    BY <1>12 DEF TakeCtrl, TakeData, Sleep, Turn, WriteCtrl, WriteData,
                 SendConnError, CloseNetwork, Rest
  <2>2. loop.pc \in {"wait", "turn", "ctrl", "data", "stopped"}
    BY <1>12 DEF TakeCtrl, TakeData, Sleep, Turn, WriteCtrl, WriteData,
                 SendConnError, CloseNetwork, AtTurn
  <2>3. PICK v \in {"wait", "turn", "ctrl", "data", "stopped", "closed"} :
           \E s : Goto(v, <<>>, s)
    BY <1>12 DEF TakeCtrl, TakeData, Sleep, WriteCtrl, WriteData,
                 SendConnError, CloseNetwork, Again
  <2>4. loop'.pc = v /\ loop'.batch = <<>>
    BY <2>3 DEF Goto
  <2>5. SameAnswers(out, out')
    <3>1. CASE TakeCtrl \/ TakeData \/ Sleep
      BY <3>1, Zenon DEF TakeCtrl, TakeData, Sleep, Turn, SameAnswers, OutgoingField
    <3>2. CASE WriteCtrl \/ WriteData \/ SendConnError \/ CloseNetwork
      BY <1>2, <3>2, Zenon DEF WriteCtrl, WriteData, SendConnError, CloseNetwork
    <3> QED BY <1>12, <3>1, <3>2
  <2>6. AnswerType'
    <3>1. <<>> \in Seq(Data)
      OBVIOUS
    <3> QED BY <2>1, <2>3, <2>4, <2>5, <3>1
            DEF AnswerInv, AnswerType, SameAnswers, Rest
  <2>7. /\ Batch("acks")' = <<>> /\ Batch("acks") = <<>>
        /\ Batch("pings")' = <<>> /\ Batch("pings") = <<>>
    BY <2>2, <2>3, <2>4 DEF Batch
  <2>8. ASSUME Answered PROVE Answered'
    <3>1. Flow(pings.callbacks, out.pingQueue, Batch("pings"), wire)'
      BY <2>1, <2>5, <2>7, <2>8 DEF Answered, calls, Rest, SameAnswers
    <3>2. peer'.pings = Len(out'.pingAcks) + Len(Batch("acks")') + peer'.acks
      BY <2>1, <2>5, <2>7, <2>8, Zenon DEF Answered, Rest, SameAnswers
    <3>3. peer'.settings = out'.settingsAcks + peer'.settingsAcks
                           + (IF loop'.pc = "settings" THEN 1 ELSE 0)
      BY <2>1, <2>2, <2>3, <2>4, <2>5, <2>8 DEF Answered, Rest, SameAnswers
    <3> QED BY <3>1, <3>2, <3>3, Zenon DEF Answered
  <2> QED BY <1>1, <2>1, <2>5, <2>6, <2>8 DEF AnswerInv, SameAnswers, Rest
<1>13. CASE ArrivePing \/ ArriveSettings \/ ArriveConnError
  <2>1. UNCHANGED calls
    BY <1>13 DEF ArrivePing, ArriveSettings, ArriveConnError
  <2> QED BY <1>1, <1>13, <2>1, ArriveAnswers, ToldAnswers
<1>14. CASE ArriveAck
  BY <1>14, ArriveAckAnswers
<1>15. CASE ReaderEnds
  <2>1. FailPings
    BY <1>15 DEF ReaderEnds
  <2> QED BY <1>15, <2>1, FailPingsPing, ArriveAnswers
<1>16. CASE UNCHANGED vars
  <2>1. UNCHANGED Rest /\ loop' = loop /\ out' = out
    BY <1>16 DEF vars, Rest, calls
  <2> QED BY <1>2, <1>3, <2>1
<1> QED BY <1>4, <1>5, <1>6, <1>7, <1>8, <1>9, <1>10, <1>11, <1>12, <1>13, <1>14,
           <1>15, <1>16, Zenon DEF Next, WriteLoop, ReadLoop

-----------------------------------------------------------------------------
\* Streams

\* The map of live streams has the streams that did not leave it, each under
\* its own id.
StreamInv ==
    /\ object \in Seq(Object)
    /\ live = {object[s].id : s \in LiveStreams}
    /\ \A s, t \in LiveStreams : object[s].id = object[t].id => s = t
    /\ DOMAIN closing = {"pc", "closed"} /\ closing.pc \in {"no", "loop", "done"}

\* A step that makes no stream and takes none away.
LEMMA SameStreams ==
    ASSUME StreamInv, object' = object, live' = live
    PROVE  /\ object' \in Seq(Object)
           /\ live' = {object'[s].id : s \in LiveStreams'}
           /\ \A s, t \in LiveStreams' : object'[s].id = object'[t].id => s = t
<1>1. LiveStreams' = LiveStreams
  BY DEF LiveStreams, Streams, IsLive
<1> QED BY <1>1 DEF StreamInv

\* A new stream has an id no live stream has.
LEMMA StreamMadeStreams ==
    ASSUME StreamInv, next \in Nat, StreamMade
    PROVE  StreamInv'
<1>1. PICK o \in Seq(Object) : o = object
  BY DEF StreamInv
<1>2. PICK n \in Nat : n = Len(o)
  OBVIOUS
<1>3. PICK e : e = [id |-> next, state |-> "open"]
  BY Zenon
<1>4. e \in Object /\ e.id = next /\ e.state = "open"
  BY <1>3 DEF Object
<1>5. object' = Append(o, e) /\ closing' = closing
      /\ next \notin live /\ live' = live \cup {next}
  BY <1>1, <1>3 DEF StreamMade, Found
<1>6. /\ Append(o, e) \in Seq(Object) /\ DOMAIN Append(o, e) = 1 .. n + 1
      /\ DOMAIN o = 1 .. n /\ Append(o, e)[n + 1] = e
      /\ \A s \in 1 .. n : Append(o, e)[s] = o[s]
  BY <1>2, <1>4
<1>7. LiveStreams \subseteq 1 .. n /\ LiveStreams' = LiveStreams \cup {n + 1}
  <2>1. \A s : s \in LiveStreams <=> s \in 1 .. n /\ o[s].state \in {"open", "closed"}
    BY <1>1, <1>6 DEF LiveStreams, Streams, IsLive
  <2>2. \A s : s \in LiveStreams' <=>
                  s \in 1 .. n + 1 /\ Append(o, e)[s].state \in {"open", "closed"}
    BY <1>5, <1>6 DEF LiveStreams, Streams, IsLive
  <2>3. \A s : s \in 1 .. n + 1 <=> s \in 1 .. n \/ s = n + 1
    BY <1>2
  <2> QED BY <1>4, <1>6, <2>1, <2>2, <2>3
<1>8. \A s \in LiveStreams : o[s].id \in live
  BY <1>1 DEF StreamInv
<1>9. n + 1 \notin LiveStreams
  BY <1>2, <1>7
<1>10. live' = {object'[s].id : s \in LiveStreams'}
  <2>1. live = {o[s].id : s \in LiveStreams}
    BY <1>1, Zenon DEF StreamInv
  <2>2. {Append(o, e)[s].id : s \in LiveStreams'} = live \cup {next}
    BY <1>4, <1>6, <1>7, <2>1, Zenon
  <2> QED BY <1>5, <2>2, Zenon
<1>11. \A s, t \in LiveStreams' : object'[s].id = object'[t].id => s = t
  BY <1>1, <1>4, <1>5, <1>6, <1>7, <1>8 DEF StreamInv
<1> QED BY <1>5, <1>6, <1>10, <1>11, Zenon DEF StreamInv

\* cleanupLocked, and the turns of streams.failLocked.
LEMMA StreamChanged ==
    ASSUME StreamInv, NEW s \in Streams, RemoveStream(s) \/ CloseNext(s)
    PROVE  StreamInv'
<1>1. PICK o \in Seq(Object) : o = object
  BY DEF StreamInv
<1>2. PICK how \in {"closed", "gone"} :
         /\ object' = [o EXCEPT ![s].state = how]
         /\ live' = IF how = "gone" THEN live \ {o[s].id} ELSE live
  BY <1>1 DEF RemoveStream, RemoveID, CloseNext, idVars
<1>3. s \in LiveStreams /\ s \in DOMAIN o
  BY <1>1 DEF RemoveStream, CloseNext, LiveStreams, Streams
<1>4. \A t \in DOMAIN o : o[t] \in Object
  OBVIOUS
<1>5. PICK p : p = [o EXCEPT ![s].state = how]
  BY Zenon
<1>6. /\ DOMAIN p = DOMAIN o /\ p[s].state = how
      /\ \A t \in DOMAIN o : p[t].id = o[t].id /\ (t # s => p[t] = o[t])
  BY <1>3, <1>4, <1>5 DEF Object
<1>7. p \in Seq(Object)
  <2>1. [o[s] EXCEPT !.state = how] \in Object
    BY <1>3, <1>4 DEF Object
  <2>2. p = [o EXCEPT ![s] = [o[s] EXCEPT !.state = how]]
    BY <1>5
  <2> QED BY <1>3, <2>1, <2>2
<1>8. LiveStreams' = IF how = "gone" THEN LiveStreams \ {s} ELSE LiveStreams
  <2>1. \A t : t \in LiveStreams <=>
                  t \in DOMAIN o /\ o[t].state \in {"open", "closed"}
    BY <1>1 DEF LiveStreams, Streams, IsLive
  <2>2. \A t : t \in LiveStreams' <=>
                  t \in DOMAIN p /\ p[t].state \in {"open", "closed"}
    BY <1>2, <1>5 DEF LiveStreams, Streams, IsLive
  <2> QED BY <1>3, <1>6, <2>1, <2>2, Zenon
<1>9. LiveStreams \subseteq DOMAIN o
  BY <1>1, ZenonT(30) DEF LiveStreams, Streams
<1>10. \A t, u \in LiveStreams' : p[t].id = p[u].id => t = u
  BY <1>1, <1>6, <1>8, <1>9 DEF StreamInv
<1>11. live' = {p[t].id : t \in LiveStreams'}
  <2>1. live = {o[t].id : t \in LiveStreams}
    BY <1>1, ZenonT(30) DEF StreamInv
  <2>2. \A t \in LiveStreams : o[t].id = o[s].id => t = s
    BY <1>1, <1>3 DEF StreamInv
  <2>3. CASE how = "gone"
    <3>1. LiveStreams' = LiveStreams \ {s} /\ live' = live \ {o[s].id}
      BY <1>2, <1>8, <2>3
    <3> QED BY <1>6, <1>9, <2>1, <2>2, <3>1, ZenonT(30)
  <2>4. CASE how = "closed"
    <3>1. LiveStreams' = LiveStreams /\ live' = live
      BY <1>2, <1>8, <2>4
    <3> QED BY <1>6, <1>9, <2>1, <3>1, Zenon
  <2> QED BY <2>3, <2>4, ZenonT(30)
<1>12. DOMAIN closing' = {"pc", "closed"} /\ closing'.pc \in {"no", "loop", "done"}
  BY DEF StreamInv, RemoveStream, CloseNext
<1>13. object' = p
  BY <1>2, <1>5
<1>14. /\ object' \in Seq(Object)
       /\ live' = {object'[t].id : t \in LiveStreams'}
       /\ \A t, u \in LiveStreams' : object'[t].id = object'[u].id => t = u
  BY <1>7, <1>10, <1>11, <1>13, Zenon
<1> QED BY <1>12, <1>14, Zenon DEF StreamInv

\* Every step of the connection keeps the map right.
LEMMA StreamStep ==
    ASSUME StreamInv, next \in Nat, [Next]_vars
    PROVE  StreamInv'
<1>1. CASE StreamMade
  BY <1>1, StreamMadeStreams
<1>2. ASSUME NEW s \in Streams, RemoveStream(s) \/ CloseNext(s) PROVE StreamInv'
  BY <1>2, StreamChanged
<1>3. ASSUME object' = object, live' = live,
             closing' \in {closing, [closing EXCEPT !.pc = "loop"],
                           [closing EXCEPT !.pc = "done"]}
      PROVE  StreamInv'
  <2>1. DOMAIN closing' = {"pc", "closed"} /\ closing'.pc \in {"no", "loop", "done"}
    BY <1>3 DEF StreamInv
  <2> QED BY <1>3, <2>1, SameStreams, Zenon DEF StreamInv
<1>4. CASE NewStream \/ AllocateTurn \/ CloseDone
  BY <1>3, <1>4 DEF NewStream, Allocate, AllocateTurn, InUse, GiveUp, CloseDone, idVars
<1>5. CASE CloseConn \/ WriteFail \/ ReadFail
  BY <1>3, <1>5 DEF CloseConn, WriteFail, ReadFail, Fail, idVars
<1>6. CASE UNCHANGED streams
  BY <1>3, <1>6 DEF streams, idVars
<1>7. ASSUME NEW s \in Streams, ScheduleCtrl(s) \/ ScheduleData(s) PROVE UNCHANGED streams
  BY <1>7 DEF ScheduleCtrl, ScheduleData
<1>8. ASSUME NEW p \in Ping, AddPing(p) PROVE UNCHANGED streams
  BY <1>8 DEF AddPing
<1>9. CASE Break \/ KeepAlive \/ ArrivePing \/ ArriveAck \/ ArriveSettings
           \/ ArriveConnError \/ ReaderEnds
  <2>1. UNCHANGED streams
    BY <1>9 DEF Break, KeepAlive, ArrivePing, ArriveAck, ArriveSettings,
                ArriveConnError, ReaderEnds
  <2> QED BY <1>6, <2>1
<1>10. CASE TakeAcks \/ TakePings \/ TakeSettings \/ TakeCtrl \/ TakeData \/ Sleep
  <2>1. UNCHANGED streams
    BY <1>10 DEF TakeAcks, TakePings, TakeSettings, TakeCtrl, TakeData, Sleep, Turn
  <2> QED BY <1>6, <2>1
<1>11. CASE WriteAck \/ WritePing \/ WriteSettingsAck \/ WriteCtrl \/ WriteData
            \/ SendConnError \/ CloseNetwork
  <2>1. UNCHANGED streams
    BY <1>11 DEF WriteAck, WritePing, WriteSettingsAck, WriteCtrl, WriteData,
                 SendConnError, CloseNetwork
  <2> QED BY <1>6, <2>1
<1>12. CASE UNCHANGED vars
  BY <1>6, <1>12 DEF vars
<1> QED BY <1>1, <1>2, <1>4, <1>5, <1>6, <1>7, <1>8, <1>9, <1>10, <1>11, <1>12, Zenon
        DEF Next, Allocation, FailStreams, WriteLoop, ReadLoop

-----------------------------------------------------------------------------
\* Stream ids

\* No id exceeds the range by more than two.
Near(n) == n \in 1 .. MaxStreamID + 2

IDInv ==
    /\ Near(next) /\ next % 2 = First % 2
    /\ \A id \in live : Near(id) /\ id % 2 = First % 2
    /\ wrapped => next <= MaxStreamID

USE StreamIDParameters

\* The candidate that follows next has its parity and is in range when the scan
\* had to wrap around (allocateLocked, the end of a turn).
LEMMA AdvanceOK ==
    ASSUME IDInv, Advance
    PROVE  /\ Near(next') /\ next' % 2 = First % 2
           /\ next' <= MaxStreamID
<1>1. CASE ~Beyond
  BY <1>1 DEF IDInv, Advance, Beyond, Near
<1>2. CASE Beyond
  <2>1. /\ next + 2 >= MaxStreamID + 1
        /\ next + 2 < 2 * (MaxStreamID + 1)
    BY <1>2 DEF IDInv, Beyond, Near
  <2>2. (next + 2) % (MaxStreamID + 1) = next + 2 - (MaxStreamID + 1)
    BY <2>1 DEF IDInv, Near
  <2>3. next' = IF next + 2 - (MaxStreamID + 1) = 0 THEN 2
                ELSE next + 2 - (MaxStreamID + 1)
    BY <1>2, <2>2 DEF Advance, Wrap
  <2> QED BY <2>1, <2>3 DEF IDInv, Near
<1> QED BY <1>1, <1>2

\* The invariant holds of a new connection and is kept by every turn.
LEMMA IDInvInductive ==
    /\ IDInit => IDInv
    /\ IDInv /\ [IDNext]_idVars => IDInv'
<1>1. IDInit => IDInv
  BY DEF IDInit, IDInv, Near
<1>2. ASSUME IDInv, [IDNext]_idVars PROVE IDInv'
  <2>1. CASE Allocate
    BY <1>2, <2>1 DEF Allocate, IDInv, Near
  <2>2. CASE GiveUp
    BY <1>2, <2>2 DEF GiveUp, IDInv, Near
  <2>3. CASE Found
    BY <1>2, <2>3, AdvanceOK DEF Found, CanTry, IDInv
  <2>4. CASE InUse
    BY <1>2, <2>4, AdvanceOK DEF InUse, CanTry, IDInv
  <2>5. ASSUME NEW id \in live, RemoveID(id) PROVE IDInv'
    BY <1>2, <2>5 DEF RemoveID, IDInv, Near
  <2>6. CASE UNCHANGED idVars
    BY <1>2, <2>6 DEF idVars, IDInv, Near
  <2> QED BY <1>2, <2>1, <2>2, <2>3, <2>4, <2>5, <2>6 DEF IDNext
<1> QED BY <1>1, <1>2

\* To the ids every step of the connection is a turn of allocateLocked, a
\* removal or nothing, whatever the write loop, the pings and a failure of the
\* connection do in between.
LEMMA StepScansIDs == [Next]_vars => [IDNext]_idVars
<1> SUFFICES ASSUME [Next]_vars PROVE [IDNext]_idVars
  OBVIOUS
<1>1. CASE NewStream \/ Allocation
  BY <1>1 DEF NewStream, Allocation, AllocateTurn, StreamMade, IDNext
<1>2. ASSUME NEW s \in Streams, RemoveStream(s)
      PROVE  IDNext
  BY <1>2, Zenon DEF RemoveStream, RemoveID, IDNext
<1>3. ASSUME NEW s \in Streams, ScheduleCtrl(s) \/ ScheduleData(s)
      PROVE  UNCHANGED idVars
  BY <1>3 DEF ScheduleCtrl, ScheduleData, streams, idVars
<1>4. CASE FailStreams
  BY <1>4 DEF FailStreams, CloseDone, CloseNext, idVars
<1>5. ASSUME NEW p \in Ping, AddPing(p)
      PROVE  UNCHANGED idVars
  BY <1>5 DEF AddPing, streams, idVars
<1>6. CASE CloseConn \/ Break \/ KeepAlive
  BY <1>6 DEF CloseConn, Break, KeepAlive, Fail, streams, idVars
<1>7. CASE WriteLoop
  <2>1. CASE TakeAcks \/ TakePings \/ TakeSettings \/ TakeCtrl \/ TakeData \/ Sleep
    BY <2>1 DEF TakeAcks, TakePings, TakeSettings, TakeCtrl, TakeData, Sleep,
                Turn, streams, idVars
  <2>2. CASE WriteAck \/ WritePing \/ WriteSettingsAck \/ WriteCtrl \/ WriteData
    BY <2>2 DEF WriteAck, WritePing, WriteSettingsAck, WriteCtrl, WriteData,
                streams, idVars
  <2>3. CASE WriteFail \/ SendConnError \/ CloseNetwork
    BY <2>3 DEF WriteFail, SendConnError, CloseNetwork, Fail, streams, idVars
  <2> QED BY <1>7, <2>1, <2>2, <2>3 DEF WriteLoop
<1>8. CASE ArrivePing \/ ArriveSettings \/ ArriveConnError \/ ReadLoop
  BY <1>8 DEF ArrivePing, ArriveAck, ArriveSettings, ArriveConnError, ReadLoop,
              ReadFail, ReaderEnds, Fail, streams, idVars
<1>9. CASE UNCHANGED vars
  BY <1>9 DEF vars, streams, idVars
<1> QED BY <1>1, <1>2, <1>3, <1>4, <1>5, <1>6, <1>7, <1>8, <1>9 DEF Next

\* So the connection allocates ids as StreamIDs says.
THEOREM ConnectionScansIDs == Spec => IDSpec
<1>1. Init => IDInit
  BY DEF Init
<1> QED BY <1>1, StepScansIDs, PTL DEF Spec, IDSpec

\* For every odd MaxStreamID the ids of a side have its parity, through every
\* wraparound, failed allocation and order of removals (allocateLocked).
THEOREM IDsAreOwn == Spec => []OwnIDs
<1>1. IDInv => OwnIDs
  BY DEF IDInv, OwnIDs
<1> QED BY <1>1, IDInvInductive, ConnectionScansIDs, PTL DEF IDSpec

\* Ids leave the range of 31 bits, but by no more than two: what the failed
\* allocation before may have added to next.
THEOREM IDsAreNear == Spec => [](\A id \in live : id <= MaxStreamID + 2)
<1>1. IDInv => \A id \in live : id <= MaxStreamID + 2
  BY DEF IDInv, Near
<1> QED BY <1>1, IDInvInductive, ConnectionScansIDs, PTL DEF IDSpec

-----------------------------------------------------------------------------
\* The connection

\* Each part needs another: streams pushed are numbers, the account of pings is
\* kept by whoever is registered, a new id is free because live has all.
ConnInv == QueueInv /\ AnswerInv /\ PingInv /\ StreamInv /\ IDInv

\* A new connection.
LEMMA ConnInvInit == Init => ConnInv
<1> SUFFICES ASSUME Init PROVE ConnInv
  BY Zenon
<1>1. /\ object = <<>> /\ live = {} /\ closing = [pc |-> "no", closed |-> {}]
      /\ out = NewOutgoing /\ loop = Waiting /\ wire = <<>> /\ reader = "reading"
      /\ pings = NewPings /\ ping = [p \in Ping |-> "idle"] /\ failed = FALSE
      /\ peer = [pings |-> 0, acks |-> 0, settings |-> 0, settingsAcks |-> 0]
      /\ load \in Loads
  BY Zenon DEF Init, IDInit
<1>2. QueueInv
  <2>1. PICK q : q = EmptyQueue
    BY ZenonT(30)
  <2>2. /\ q.cap = 0 /\ q.size = 0 /\ q.off = 0 /\ q.buf = [i \in {} |-> Nil]
        /\ q \in [buf : [0 .. q.cap - 1 -> Nat], cap : Nat, off : Nat, size : Nat]
    BY <2>1 DEF EmptyQueue
  <2>3. RingOK(q)
    BY <2>2 DEF RingOK
  <2>4. Contents(q) = <<>>
    BY <2>2 DEF Contents
  <2>5. QueueOK(q, {})
    BY <2>3, <2>4 DEF QueueOK, IsInjective, Range
  <2>6. /\ out.ctrl = q /\ out.data = q /\ out.inctrl = {} /\ out.indata = {}
        /\ DOMAIN out = OutgoingField
    BY <1>1, <2>1, Zenon DEF NewOutgoing, OutgoingField
  <2>7. loop.stream \in Nat
    BY <1>1 DEF Waiting, Nil
  <2> QED BY <2>5, <2>6, <2>7 DEF QueueInv, Queues
<1>3. PingInv
  <2>1. /\ DOMAIN pings = {"err", "callbacks"}
        /\ pings.callbacks = [d \in Data |-> <<>>]
    BY <1>1 DEF NewPings
  <2>2. \A p \in Ping : PingData[p] \in Data
    BY DEF Data
  <2>3. \A p \in Ping : Registered(p) = 0
    <3>1. <<>> \in Seq(Ping)
      OBVIOUS
    <3>2. \A p : Count(<<>>, p) = 0
      BY <3>1, CountNat, Zenon
    <3> QED BY <2>1, <2>2, <3>2 DEF Registered
  <2>4. /\ ping \in [Ping -> {"idle", "waiting", "ok", "failed"}]
        /\ \A p \in Ping : ping[p] # "waiting"
    BY <1>1
  <2>5. /\ pings.callbacks \in Callbacks
        /\ \A d \in Data : pings.callbacks[d] \in Seq(CallsWith(d))
    BY <2>1 DEF Callbacks
  <2>6. \A p \in Ping : Registered(p) = IF ping[p] = "waiting" THEN 1 ELSE 0
    BY <2>3, <2>4, Zenon
  <2> QED BY <2>1, <2>4, <2>5, <2>6, Zenon DEF PingInv
<1>4. AnswerInv
  <2>1. load.settings \in Nat
    BY <1>1, LoadsAssumption, Zenon
  <2>2. /\ out.err = FALSE /\ out.pingQueue = <<>> /\ out.pingAcks = <<>>
        /\ out.settingsAcks = 0
        /\ loop.pc = "wait" /\ loop.batch = <<>>
        /\ peer.pings = 0 /\ peer.acks = 0 /\ peer.settings = 0
        /\ peer.settingsAcks = 0
        /\ peer \in [pings : Nat, acks : Nat, settings : Nat, settingsAcks : Nat]
    BY <1>1, Zenon DEF NewOutgoing, Waiting
  <2>3. AnswerType
    <3>1. <<>> \in Seq(Data) /\ 0 \in 0 .. 0 /\ 0 <= load.settings
      BY <2>1
    <3> QED BY <1>1, <2>2, <3>1, Zenon DEF AnswerType
  <2>4. Batch("pings") = <<>> /\ Batch("acks") = <<>> /\ Len(<<>>) = 0
    BY <2>2, ZenonT(30) DEF Batch
  <2>5. \A d \in Data : pings.callbacks[d] = <<>> /\ Count(<<>>, d) = 0
    <3>1. <<>> \in Seq(Data)
      OBVIOUS
    <3>2. \A d : Count(<<>>, d) = 0
      BY <3>1, CountNat, Zenon
    <3> QED BY <1>1, <3>2 DEF NewPings
  <2>6. Flow(pings.callbacks, <<>>, <<>>, <<>>)
    <3>1. Len(<<>>) = 0 + 0 + 0
      OBVIOUS
    <3> QED BY <2>5, <3>1, Zenon DEF Flow
  <2>7. Answered
    <3>1. 0 = Len(<<>>) + Len(<<>>) + 0 /\ 0 = 0 + 0 + 0 /\ "wait" # "settings"
      OBVIOUS
    <3> QED BY <1>1, <2>2, <2>4, <2>6, <3>1, Zenon DEF Answered
  <2> QED BY <2>3, <2>7 DEF AnswerInv
<1>5. StreamInv
  <2>1. LiveStreams = {}
    BY <1>1 DEF LiveStreams, Streams
  <2> QED BY <1>1, <2>1 DEF StreamInv
<1>6. IDInv
  BY IDInvInductive DEF Init
<1> QED BY <1>2, <1>3, <1>4, <1>5, <1>6 DEF ConnInv

\* Every step of the connection.
LEMMA ConnInvNext ==
    ASSUME ConnInv, [Next]_vars
    PROVE  ConnInv' /\ FIFO(out, out')
<1>1. object \in Seq(Object) /\ DOMAIN out = OutgoingField /\ next \in Nat
  BY DEF ConnInv, StreamInv, QueueInv, Queues, IDInv, Near
<1>2. IDInv'
  BY StepScansIDs, IDInvInductive DEF ConnInv
<1> QED BY <1>1, <1>2, QueueStep, AnswerStep, StreamStep, Zenon DEF ConnInv

\* The map of live streams has exactly the streams that did not leave it, no
\* more answers are owed than SETTINGS came, and no callback of a ping is called
\* twice, whatever fails when.
THEOREM TypeCorrect == Spec => []TypeOK
<1>1. ConnInv => TypeOK
  <2> SUFFICES ASSUME ConnInv PROVE TypeOK
    BY Zenon
  <2>1. load.settings \in Nat
    BY LoadsAssumption DEF ConnInv, AnswerInv, AnswerType
  <2>2. out.settingsAcks \in 0 .. load.settings
    BY <2>1 DEF ConnInv, AnswerInv, AnswerType
  <2> QED BY <2>2 DEF ConnInv, StreamInv, AnswerInv, AnswerType, PingInv, TypeOK
<1> QED BY <1>1, ConnInvInit, ConnInvNext, PTL DEF Spec

\* addCtrl, addData and the turns of writeFrames keep the flags of streams and
\* the rings in step, for all numbers of streams and growths of the rings.
THEOREM FlagsAreRight == Spec => []FlagsMatchQueues
<1>1. ConnInv => FlagsMatchQueues
  BY DEF ConnInv, QueueInv, Queues, QueueOK, FlagsMatchQueues
<1> QED BY <1>1, ConnInvInit, ConnInvNext, PTL DEF Spec

\* push and take make a ring a first-in first-out queue: it wraps around and
\* minpow2 makes it larger, and no stream overtakes another one.
THEOREM NoStreamOvertakes == Spec => QueuesAreFIFO
<1>1. ConnInv /\ [Next]_vars =>
         [/\ FIFOStep(Contents(out.ctrl), Contents(out'.ctrl))
          /\ FIFOStep(Contents(out.data), Contents(out'.data))]_vars
  BY ConnInvNext, Zenon DEF FIFO
<1> QED BY <1>1, ConnInvInit, ConnInvNext, PTL DEF Spec, QueuesAreFIFO

\* Until outgoing.fail tells the write loop to stop every ping sent has one
\* callback and every callback one ping, and every PING and SETTINGS of the other
\* end one answer, in the queue, in the batch of the write loop or on the wire.
THEOREM AnswersAreConserved == Spec => []AnswersConserved
<1>1. ConnInv => AnswersConserved
  BY DEF ConnInv, AnswerInv, Answered, Flow, PingInv, Registered, AnswersConserved
<1> QED BY <1>1, ConnInvInit, ConnInvNext, PTL DEF Spec

\* Two streams that are open at the same time have different ids, also when
\* allocateLocked has wrapped around and uses the ids of streams that left.
THEOREM IDsAreUnique ==
    Spec => [](\A s, t \in LiveStreams : object[s].id = object[t].id => s = t)
<1>1. ConnInv => \A s, t \in LiveStreams : object[s].id = object[t].id => s = t
  BY DEF ConnInv, StreamInv
<1> QED BY <1>1, ConnInvInit, ConnInvNext, PTL DEF Spec
=============================================================================
