--------------------------- MODULE PassthruProofs ---------------------------
(***************************************************************************)
(* One direction of a forwarded request, for every window, size of write   *)
(* buffer, payload of a frame, and load.                                   *)
(*                                                                         *)
(* Every place bytes are in holds a run of successive positions, and the   *)
(* runs join: what the receiver got, the write buffer of dst, what the     *)
(* copy loop still has of the slice it peeked, and the read buffer of src. *)
(* A buffer keeps its run however often its memory wraps around, grows, or *)
(* is given back.  A slice is a view of memory that others write to, so    *)
(* the invariant says where the bytes of a slice are and that nobody       *)
(* writes there before the slice is discarded.                             *)
(***************************************************************************)
EXTENDS Passthru, WellFoundedInduction, TLAPS

-----------------------------------------------------------------------------
\* Powers of two

Less == {p \in Nat \X Nat : p[1] < p[2]}

\* A set of natural numbers has a least element.
LEMMA LeastNumber ==
    ASSUME NEW T, T \subseteq Nat, T # {}
    PROVE  \E x \in T : \A y \in T : x <= y
<1>1. IsWellFoundedOn(OpToRel(<, Nat), Nat)
  BY NatLessThanWellFounded
<1>2. Less = OpToRel(<, Nat)
  BY DEF Less, OpToRel
<1>3. \E x \in T : \A y \in T : ~(<<y, x>> \in Less)
  BY <1>1, <1>2, WFMin
<1>4. PICK x \in T : \A y \in T : ~(<<y, x>> \in Less)
  BY <1>3
<1>5. ASSUME NEW y \in T PROVE x <= y
  <2>1. <<y, x>> \in Nat \X Nat /\ <<y, x>>[1] = y /\ <<y, x>>[2] = x
    BY <1>4
  <2>2. ~(y < x)
    BY <1>4, <2>1 DEF Less
  <2> QED BY <2>2
<1> QED BY <1>4, <1>5

\* A product of odd numbers is odd.
LEMMA OddProduct ==
    ASSUME NEW d \in Nat, NEW k \in Nat, d % 2 = 1, k % 2 = 1
    PROVE  (d * k) % 2 = 1
<1>1. PICK a \in Nat : d = 2 * a + 1
  <2>1. d = 2 * (d \div 2) + 1 /\ d \div 2 \in Nat
    OBVIOUS
  <2> QED BY <2>1
<1>2. PICK b \in Nat : k = 2 * b + 1
  <2>1. k = 2 * (k \div 2) + 1 /\ k \div 2 \in Nat
    OBVIOUS
  <2> QED BY <2>1
<1>3. PICK c \in Nat : c = a * b
  OBVIOUS
<1>4. d * k = 2 * (2 * c + a + b) + 1
  BY <1>1, <1>2, <1>3
<1> QED BY <1>3, <1>4

\* Twice a power of two is one.
LEMMA DoublePow2 ==
    ASSUME NEW p \in Nat \ {0}, IsPow2(p)
    PROVE  IsPow2(2 * p)
<1>1. SUFFICES ASSUME NEW d \in 1 .. 2 * p, NEW k \in 1 .. 2 * p, d * k = 2 * p,
                      d % 2 # 0
               PROVE  d = 1
  BY DEF IsPow2
<1>2. d % 2 = 1
  BY <1>1
<1>3. k % 2 = 0
  <2>1. (d * k) % 2 = 0
    BY <1>1
  <2>2. k % 2 # 1
    BY <1>2, <2>1, OddProduct
  <2> QED BY <2>2
<1>4. PICK h \in 1 .. p : k = 2 * h
  <2>1. k = 2 * (k \div 2) /\ k \div 2 \in 1 .. p
    BY <1>3
  <2> QED BY <2>1
<1>5. d * h = p
  <2>1. d * k = 2 * (d * h)
    BY <1>4
  <2> QED BY <1>1, <1>4, <2>1
<1>6. d <= p
  BY <1>4, <1>5
<1> QED BY <1>2, <1>4, <1>5, <1>6 DEF IsPow2

\* Only 1 is an odd power of two.
LEMMA OddPow2 ==
    ASSUME NEW p \in Nat \ {0}, IsPow2(p), p # 1
    PROVE  p % 2 = 0
<1>1. p \in 1 .. p /\ 1 \in 1 .. p /\ p * 1 = p
  OBVIOUS
<1> QED BY <1>1 DEF IsPow2

\* There is a power of two between every number and its double, so that minpow2
\* is defined.  A number for which there is none could be halved.
LEMMA Pow2Exists ==
    ASSUME NEW n \in Nat \ {0}
    PROVE  \E p \in n .. 2 * n - 1 : IsPow2(p)
<1> DEFINE Without == {k \in Nat \ {0} : ~ \E p \in k .. 2 * k - 1 : IsPow2(p)}
<1>1. SUFFICES ASSUME Without # {} PROVE FALSE
  BY Zenon
<1>2. PICK m \in Without : \A j \in Without : m <= j
  <2>1. Without \subseteq Nat
    OBVIOUS
  <2> HIDE DEF Without
  <2> QED BY <1>1, <2>1, LeastNumber
<1>3. m # 1
  <2>1. IsPow2(1)
    BY DEF IsPow2
  <2>2. 1 \in 1 .. 2 * 1 - 1
    OBVIOUS
  <2> QED BY <2>1, <2>2
<1>4. PICK h \in Nat \ {0} : h < m /\ (m = 2 * h \/ m = 2 * h - 1)
  <2>1. /\ (m + 1) \div 2 \in Nat \ {0} /\ (m + 1) \div 2 < m
        /\ m = 2 * ((m + 1) \div 2) \/ m = 2 * ((m + 1) \div 2) - 1
    BY <1>3
  <2> QED BY <2>1
<1>5. h \notin Without
  <2> HIDE DEF Without
  <2>1. m \in Nat
    BY DEF Without
  <2> QED BY <1>2, <1>4, <2>1
<1>6. PICK p \in h .. 2 * h - 1 : IsPow2(p)
  BY <1>5
<1>7. IsPow2(2 * p)
  BY <1>4, <1>6, DoublePow2
<1>8. 2 * p \notin m .. 2 * m - 1
  BY <1>2, <1>7
<1>9. m = 2 * h - 1 /\ p = m
  BY <1>4, <1>6, <1>8
<1>10. p % 2 = 1
  BY <1>4, <1>9
<1> QED BY <1>3, <1>4, <1>6, <1>9, <1>10, OddPow2

\* What minpow2 returns is large enough.
LEMMA MinPow2OK ==
    ASSUME NEW n \in Nat \ {0}
    PROVE  MinPow2(n) \in Nat /\ MinPow2(n) >= n
<1>1. \E p \in n .. 2 * n - 1 : IsPow2(p)
  BY Pow2Exists, Zenon
<1>2. MinPow2(n) \in n .. 2 * n - 1
  BY <1>1 DEF MinPow2
<1> QED BY <1>2

-----------------------------------------------------------------------------
\* The ring

\* The bytes fit in the memory.
BufferOK(b) ==
    /\ b.cap \in Nat
    /\ b \in [mem : [0 .. b.cap - 1 -> Nat], cap : Nat, off : Nat, size : Nat]
    /\ b.size <= b.cap
    /\ IF b.cap = 0 THEN b.off = 0 ELSE b.off < b.cap

\* The slot of the byte that follows i others.
Place(b, i) == IF b.off + i >= b.cap THEN b.off + i - b.cap ELSE b.off + i

\* The buffer has the bytes from position lo on.
Holds(b, lo) == \A i \in 0 .. b.size - 1 : b.mem[Place(b, i)] = lo + i + 1

\* What % gives, within one turn of the ring above and two below.
LEMMA ModIs ==
    ASSUME NEW a \in Int, NEW c \in Nat, c > 0, NEW r \in 0 .. c - 1,
           a = r \/ a = r + c \/ a = r - c \/ a = r - 2 * c
    PROVE  a % c = r
<1>1. CASE a = r
  BY <1>1
<1>2. CASE a = r + c
  BY <1>2
<1>3. CASE a = r - c
  BY <1>3
<1>4. CASE a = r - 2 * c
  BY <1>4
<1> QED BY <1>1, <1>2, <1>3, <1>4

\* What % gives is a slot.
LEMMA ModRange ==
    ASSUME NEW a \in Int, NEW c \in Nat, c > 0
    PROVE  a % c \in 0 .. c - 1
  OBVIOUS

\* The fields of a buffer.
LEMMA BufferFields ==
    ASSUME NEW b, BufferOK(b)
    PROVE  /\ b.cap \in Nat /\ b.off \in Nat /\ b.size \in Nat /\ b.size <= b.cap
           /\ b.mem \in [0 .. b.cap - 1 -> Nat]
           /\ b.cap = 0 => b.off = 0
           /\ b.cap # 0 => b.off < b.cap
  BY DEF BufferOK

\* A slot is found with at most one wraparound.
LEMMA PlaceOK ==
    ASSUME NEW b, BufferOK(b), NEW i \in Nat, i < b.cap
    PROVE  (b.off + i) % b.cap = Place(b, i) /\ Place(b, i) \in 0 .. b.cap - 1
<1>1. /\ b.cap \in Nat /\ b.cap > 0 /\ b.off \in Nat /\ b.off < b.cap
  BY BufferFields
<1>2. Place(b, i) \in 0 .. b.cap - 1
  BY <1>1 DEF Place
<1>3. b.off + i = Place(b, i) \/ b.off + i = Place(b, i) + b.cap
  BY <1>1 DEF Place
<1> QED BY <1>1, <1>2, <1>3, ModIs

\* The bytes that BytesOf lists.
LEMMA BytesAre ==
    ASSUME NEW b, BufferOK(b)
    PROVE  /\ BytesOf(b) \in Seq(Nat) /\ Len(BytesOf(b)) = b.size
           /\ \A i \in 0 .. b.size - 1 : BytesOf(b)[i + 1] = b.mem[Place(b, i)]
<1>1. b.size \in Nat /\ b.cap \in Nat /\ b.size <= b.cap /\ b.off \in Nat
      /\ b.mem \in [0 .. b.cap - 1 -> Nat]
  BY BufferFields
<1>2. ASSUME NEW i \in 1 .. b.size
      PROVE  /\ b.mem[(b.off + i - 1) % b.cap] = b.mem[Place(b, i - 1)]
             /\ b.mem[(b.off + i - 1) % b.cap] \in Nat
  <2>1. i - 1 \in Nat /\ i - 1 < b.cap /\ b.off + i - 1 = b.off + (i - 1)
    BY <1>1
  <2>2. /\ (b.off + (i - 1)) % b.cap = Place(b, i - 1)
        /\ Place(b, i - 1) \in 0 .. b.cap - 1
    BY <2>1, PlaceOK
  <2> QED BY <1>1, <2>1, <2>2
<1>3. BytesOf(b) = [i \in 1 .. b.size |-> b.mem[(b.off + i - 1) % b.cap]]
  BY DEF BytesOf
<1>4. BytesOf(b) \in Seq(Nat) /\ Len(BytesOf(b)) = b.size
  <2>1. BytesOf(b) \in [1 .. b.size -> Nat]
    BY <1>2, <1>3
  <2> QED BY <1>1, <2>1
<1>5. ASSUME NEW i \in 0 .. b.size - 1
      PROVE  BytesOf(b)[i + 1] = b.mem[Place(b, i)]
  <2>1. i + 1 \in 1 .. b.size /\ (i + 1) - 1 = i
    BY <1>1
  <2> QED BY <1>2, <1>3, <2>1, Zenon
<1> QED BY <1>4, <1>5, ZenonT(30)

\* A buffer is made of its fields.
LEMMA BufferMade ==
    ASSUME NEW m, NEW c \in Nat, NEW o \in Nat, NEW n \in Nat, n <= c,
           IF c = 0 THEN o = 0 ELSE o < c, m \in [0 .. c - 1 -> Nat]
    PROVE  BufferOK([mem |-> m, cap |-> c, off |-> o, size |-> n])
<1>1. PICK b : b = [mem |-> m, cap |-> c, off |-> o, size |-> n]
  OBVIOUS
<1>2. b.mem = m /\ b.cap = c /\ b.off = o /\ b.size = n
  BY <1>1
<1>3. b \in [mem : [0 .. c - 1 -> Nat], cap : Nat, off : Nat, size : Nat]
  BY <1>1
<1>4. BufferOK(b)
  BY <1>2, <1>3 DEF BufferOK
<1> QED BY <1>1, <1>4

\* New memory that is large enough has the same bytes.
LEMMA ReallocateOK ==
    ASSUME NEW b, BufferOK(b), NEW lo \in Int, Holds(b, lo),
           NEW n \in Nat, b.size <= n,
           NEW c, c = Reallocate(b, n)
    PROVE  /\ BufferOK(c) /\ Holds(c, lo)
           /\ c.size = b.size /\ c.off = 0 /\ c.cap = n
<1>1. PICK s : s = BytesOf(b)
  OBVIOUS
<1>2. s \in Seq(Nat) /\ Len(s) = b.size /\ b.size \in Nat
      /\ \A i \in 0 .. b.size - 1 : s[i + 1] = b.mem[Place(b, i)]
  BY <1>1, BytesAre, BufferFields
<1>3. PICK m : m = [i \in 0 .. n - 1 |-> IF i < b.size THEN s[i + 1] ELSE 0]
  BY Zenon
<1>4. /\ m \in [0 .. n - 1 -> Nat]
      /\ \A i \in 0 .. b.size - 1 : m[i] = s[i + 1]
  BY <1>2, <1>3, SMTT(30)
<1>5. c = [mem |-> m, cap |-> n, off |-> 0, size |-> b.size]
  BY <1>1, <1>3, Zenon DEF Reallocate
<1>6. BufferOK(c) /\ c.mem = m /\ c.cap = n /\ c.off = 0 /\ c.size = b.size
  <2>1. IF n = 0 THEN 0 = 0 ELSE 0 < n
    OBVIOUS
  <2>2. BufferOK([mem |-> m, cap |-> n, off |-> 0, size |-> b.size])
    BY <1>2, <1>4, <2>1, BufferMade
  <2> QED BY <1>5, <2>2
<1>7. ASSUME NEW i \in 0 .. c.size - 1 PROVE c.mem[Place(c, i)] = lo + i + 1
  <2>1. Place(c, i) = i /\ i \in 0 .. b.size - 1
    BY <1>2, <1>6 DEF Place
  <2>2. b.mem[Place(b, i)] = lo + i + 1
    BY <2>1 DEF Holds
  <2> QED BY <1>2, <1>4, <1>6, <2>1, <2>2, Zenon
<1>8. Holds(c, lo)
  BY <1>7 DEF Holds
<1> QED BY <1>6, <1>8

\* The sequence s has the n bytes from position lo on.
Run(s, n, lo) == s \in Seq(Nat) /\ Len(s) = n /\ \A i \in 1 .. n : s[i] = lo + i

\* Where copy puts the byte for the slot of the byte that follows j others.
LEMMA PutPlace ==
    ASSUME NEW cap \in Nat, cap > 0, NEW off \in Nat, off < cap, NEW size \in Nat,
           size <= cap, NEW j \in Nat, j < cap,
           NEW p, p = off + j \/ p = off + j - cap
    PROVE  (p - (off + size)) % cap = IF j >= size THEN j - size ELSE j - size + cap
<1>1. CASE j >= size
  <2>1. j - size \in 0 .. cap - 1 /\ p - (off + size) \in Int
    BY <1>1
  <2>2. p - (off + size) = j - size \/ p - (off + size) = (j - size) - cap
    OBVIOUS
  <2> QED BY <1>1, <2>1, <2>2, ModIs
<1>2. CASE ~(j >= size)
  <2>1. j - size + cap \in 0 .. cap - 1 /\ p - (off + size) \in Int
    BY <1>2
  <2>2. \/ p - (off + size) = (j - size + cap) - cap
        \/ p - (off + size) = (j - size + cap) - 2 * cap
    OBVIOUS
  <2> QED BY <1>2, <2>1, <2>2, ModIs
<1> QED BY <1>1, <1>2

\* The memory after copy.
Copy(mem, cap, end, s) ==
    [i \in 0 .. cap - 1 |-> LET k == (i - end) % cap
                            IN IF k < Len(s) THEN s[k + 1] ELSE mem[i]]

\* What is where in memory m after n bytes of s were copied to it.
CopyOK(m, mem, cap, off, size, s, n) ==
    /\ m \in [0 .. cap - 1 -> Nat]
    /\ \A j \in 0 .. size + n - 1, p \in 0 .. cap - 1 :
          p = off + j \/ p = off + j - cap =>
             m[p] = IF j >= size THEN s[j - size + 1] ELSE mem[p]

\* copy puts the bytes after those that are there.
LEMMA PutMemory ==
    ASSUME NEW cap \in Nat, cap > 0, NEW off \in Nat, off < cap, NEW size \in Nat,
           NEW n \in Nat, NEW s, NEW lo, Run(s, n, lo), size + n <= cap,
           NEW mem \in [0 .. cap - 1 -> Nat],
           NEW m, m = Copy(mem, cap, off + size, s)
    PROVE  CopyOK(m, mem, cap, off, size, s, n)
<1>1. ASSUME NEW i \in 0 .. cap - 1
      PROVE  (LET k == (i - (off + size)) % cap
              IN IF k < Len(s) THEN s[k + 1] ELSE mem[i]) \in Nat
  <2>1. i - (off + size) \in Int
    OBVIOUS
  <2>2. PICK k \in 0 .. cap - 1 : k = (i - (off + size)) % cap
    BY <2>1, ModRange, Zenon
  <2>3. mem[i] \in Nat
    BY Zenon
  <2>4. ASSUME k < Len(s) PROVE s[k + 1] \in Nat
    <3>1. s \in Seq(Nat) /\ Len(s) = n
      BY Zenon DEF Run
    <3>2. k + 1 \in 1 .. n
      BY <2>4, <3>1
    <3> QED BY <3>1, <3>2
  <2> QED BY <2>2, <2>3, <2>4, Zenon
<1>2. m \in [0 .. cap - 1 -> Nat]
  BY <1>1, Zenon DEF Copy
<1>3. ASSUME NEW j \in 0 .. size + n - 1, NEW p \in 0 .. cap - 1,
             p = off + j \/ p = off + j - cap
      PROVE  m[p] = IF j >= size THEN s[j - size + 1] ELSE mem[p]
  <2>1. j \in Nat /\ j < cap /\ size <= cap
    OBVIOUS
  <2>2. (p - (off + size)) % cap = IF j >= size THEN j - size ELSE j - size + cap
    BY <1>3, <2>1, PutPlace, SMTT(30)
  <2>3. PICK k : k = (p - (off + size)) % cap
    OBVIOUS
  <2>4. m[p] = IF k < n THEN s[k + 1] ELSE mem[p]
    BY <2>3, Zenon DEF Copy, Run
  <2>5. k = IF j >= size THEN j - size ELSE j - size + cap
    BY <2>2, <2>3, Zenon
  <2>6. k < n <=> j >= size
    BY <2>5
  <2> QED BY <2>4, <2>5, <2>6, Zenon
<1> QED BY <1>2, <1>3, Zenon DEF CopyOK

\* Positions are added in any order.
LEMMA SumsAgree ==
    ASSUME NEW lo \in Int, NEW n \in Nat, NEW j \in Nat
    PROVE  lo + (n + j) + 1 = (lo + n) + j + 1
  OBVIOUS

\* The indices of a + n things.
LEMMA RangeOfSum ==
    ASSUME NEW a \in Nat, NEW n \in Nat, NEW c, c = a + n, NEW j \in 0 .. c - 1
    PROVE  j \in 0 .. a + n - 1
  OBVIOUS

\* The bytes of s follow those of the buffer, in memory that has room for them.
LEMMA PutOK ==
    ASSUME NEW b, BufferOK(b), NEW lo \in Int, Holds(b, lo),
           NEW s, NEW n \in Nat, n > 0, Run(s, n, lo + b.size), b.size + n <= b.cap,
           NEW c, c = Put(b, s)
    PROVE  /\ BufferOK(c) /\ Holds(c, lo)
           /\ c.size = b.size + n /\ c.off = b.off /\ c.cap = b.cap
<1>1. /\ b.cap \in Nat /\ b.cap > 0 /\ b.off \in Nat /\ b.size \in Nat /\ b.off < b.cap
      /\ b.size <= b.cap
  BY BufferFields
<1>2. b.mem \in [0 .. b.cap - 1 -> Nat] /\ DOMAIN b.mem = 0 .. b.cap - 1
  BY BufferFields
<1>3. PICK m : m = Copy(b.mem, b.cap, b.off + b.size, s)
  BY Zenon
<1>4. c = [mem |-> m, cap |-> b.cap, off |-> b.off, size |-> b.size + n]
  <2>1. c = [b EXCEPT !.mem = m, !.size = b.size + n]
    BY <1>2, <1>3, Zenon DEF Put, Copy, Run
  <2> QED BY <2>1, Zenon DEF BufferOK
<1>5. CopyOK(m, b.mem, b.cap, b.off, b.size, s, n)
  BY <1>1, <1>2, <1>3, PutMemory, ZenonT(30)
<1>6. ASSUME NEW j \in 0 .. b.size + n - 1
      PROVE  m[Place(b, j)] = lo + j + 1
  <2>1. j \in Nat /\ j < b.cap
    BY <1>1
  <2>2. PICK p \in 0 .. b.cap - 1 : p = Place(b, j)
    BY <2>1, PlaceOK
  <2>3. p = b.off + j \/ p = b.off + j - b.cap
    BY <2>2 DEF Place
  <2>4. m[p] = IF j >= b.size THEN s[j - b.size + 1] ELSE b.mem[p]
    BY <1>5, <2>3, Zenon DEF CopyOK
  <2>5. CASE j >= b.size
    <3>1. j - b.size + 1 \in 1 .. n
      BY <1>1, <2>5
    <3>2. s[j - b.size + 1] = lo + b.size + (j - b.size + 1)
      BY <3>1, Zenon DEF Run
    <3>3. lo + b.size + (j - b.size + 1) = lo + j + 1
      BY <1>1, <2>1
    <3> QED BY <2>2, <2>4, <2>5, <3>2, <3>3, Zenon
  <2>6. CASE ~(j >= b.size)
    <3>1. j \in 0 .. b.size - 1
      BY <1>1, <2>1, <2>6
    <3>2. b.mem[Place(b, j)] = lo + j + 1
      BY <3>1, Zenon DEF Holds
    <3> QED BY <2>2, <2>4, <2>6, <3>2, Zenon
  <2> QED BY <2>5, <2>6, Zenon
<1>7. BufferOK([mem |-> m, cap |-> b.cap, off |-> b.off, size |-> b.size + n])
  <2>1. b.size + n \in Nat /\ IF b.cap = 0 THEN b.off = 0 ELSE b.off < b.cap
    BY <1>1
  <2>2. m \in [0 .. b.cap - 1 -> Nat]
    BY <1>5 DEF CopyOK
  <2> QED BY <1>1, <2>1, <2>2, BufferMade
<1>8. c.mem = m /\ c.size = b.size + n /\ c.off = b.off /\ c.cap = b.cap
  BY <1>4
<1>9. Holds(c, lo)
  <2>1. ASSUME NEW j \in 0 .. c.size - 1 PROVE c.mem[Place(c, j)] = lo + j + 1
    <3>1. j \in 0 .. b.size + n - 1
      BY <1>1, <1>8, RangeOfSum, Zenon
    <3>2. Place(c, j) = Place(b, j)
      BY <1>8, Zenon DEF Place
    <3>3. m[Place(b, j)] = lo + j + 1
      BY <1>6, <3>1, Zenon
    <3> QED BY <1>8, <3>2, <3>3, Zenon
  <2> QED BY <2>1, Zenon DEF Holds
<1> QED BY <1>4, <1>7, <1>8, <1>9, Zenon

\* write, with and without new memory.
LEMMA WriteOK ==
    ASSUME NEW b, BufferOK(b), NEW lo \in Int, Holds(b, lo),
           NEW s, NEW n \in Nat, n > 0, Run(s, n, lo + b.size),
           NEW c, c = BufferWrite(b, s)
    PROVE  /\ BufferOK(c) /\ Holds(c, lo) /\ c.size = b.size + n
           /\ ~Grows(b, n) => c.off = b.off /\ c.cap = b.cap
<1>1. b.size \in Nat /\ b.cap \in Nat
  BY BufferFields
<1>2. Len(s) = n
  BY Zenon DEF Run
<1>3. CASE Grows(b, n)
  <2>1. b.size + n \in Nat /\ b.size + n > 0
    BY <1>1
  <2>2. PICK k \in Nat : k = MinPow2(b.size + n) /\ k >= b.size + n
    BY <2>1, MinPow2OK
  <2>3. PICK d : d = Reallocate(b, k)
    OBVIOUS
  <2>4. b.size <= k
    BY <1>1, <2>2
  <2>5. BufferOK(d) /\ Holds(d, lo) /\ d.size = b.size /\ d.cap = k
    BY <2>3, <2>4, ReallocateOK
  <2>6. c = Put(d, s)
    BY <1>2, <1>3, <2>2, <2>3, Zenon DEF BufferWrite
  <2>7. Run(s, n, lo + d.size) /\ d.size + n <= d.cap
    BY <2>2, <2>5
  <2>8. BufferOK(c) /\ Holds(c, lo) /\ c.size = d.size + n
    BY <2>5, <2>6, <2>7, PutOK
  <2> QED BY <1>3, <2>5, <2>8
<1>4. CASE ~Grows(b, n)
  <2>1. c = Put(b, s)
    BY <1>2, <1>4, Zenon DEF BufferWrite
  <2>2. b.size + n <= b.cap
    BY <1>1, <1>4 DEF Grows
  <2> QED BY <2>1, <2>2, PutOK
<1> QED BY <1>3, <1>4, Zenon

\* The memory after peek has moved the two parts together.
Together(mem, cap, end, n, off) ==
    [i \in 0 .. cap - 1 |->
        IF i \in end .. end + n - 1 THEN mem[off + i - end]
        ELSE IF i \in end + n .. 2 * end + n - 1 THEN mem[i - end - n] ELSE mem[i]]

\* Moving the two parts keeps the bytes, in the right order.
LEMMA MoveOK ==
    ASSUME NEW b, BufferOK(b), NEW lo \in Int, Holds(b, lo),
           Wraps(b), ~Crowded(b), NEW c, c = Move(b)
    PROVE  /\ BufferOK(c) /\ Holds(c, lo) /\ c.size = b.size
           /\ c.off + c.size <= c.cap
<1> DEFINE end == b.off + b.size - b.cap
           n == b.cap - b.off
<1>1. /\ b.cap \in Nat /\ b.off \in Nat /\ b.size \in Nat /\ b.size <= b.cap
      /\ b.cap > 0 /\ b.off < b.cap /\ b.off + b.size > b.cap /\ b.size * 2 <= b.cap
  BY BufferFields DEF Wraps, Crowded
<1>2. b.mem \in [0 .. b.cap - 1 -> Nat] /\ DOMAIN b.mem = 0 .. b.cap - 1
  BY BufferFields
<1>3. PICK m : m = Together(b.mem, b.cap, end, n, b.off)
  BY Zenon
<1>4. c = [mem |-> m, cap |-> b.cap, off |-> end, size |-> b.size]
  <2>1. c = [b EXCEPT !.mem = m, !.off = end]
    BY <1>2, <1>3, Zenon DEF Move, Together
  <2> QED BY <2>1, Zenon DEF BufferOK
<1>5. /\ end \in Nat /\ n \in Nat /\ end > 0 /\ n > 0 /\ end + n = b.size
      /\ end + b.size <= b.off /\ end < b.cap
  BY <1>1
<1>6. m \in [0 .. b.cap - 1 -> Nat]
  <2>1. ASSUME NEW i \in 0 .. b.cap - 1
        PROVE  (IF i \in end .. end + n - 1 THEN b.mem[b.off + i - end]
                ELSE IF i \in end + n .. 2 * end + n - 1 THEN b.mem[i - end - n]
                ELSE b.mem[i]) \in Nat
    <3>1. i \in end .. end + n - 1 => b.off + i - end \in 0 .. b.cap - 1
      BY <1>1, <1>5
    <3>2. i \in end + n .. 2 * end + n - 1 => i - end - n \in 0 .. b.cap - 1
      BY <1>1, <1>5
    <3> HIDE DEF end, n
    <3> QED BY <1>2, <3>1, <3>2, ZenonT(30)
  <2> HIDE DEF end, n
  <2> QED BY <1>3, <2>1, Zenon DEF Together
<1>7. c.mem = m /\ c.size = b.size /\ c.off = end /\ c.cap = b.cap
  BY <1>4
<1>8. BufferOK(c)
  <2>1. IF b.cap = 0 THEN end = 0 ELSE end < b.cap
    BY <1>5
  <2> HIDE DEF end, n
  <2>2. BufferOK([mem |-> m, cap |-> b.cap, off |-> end, size |-> b.size])
    BY <1>1, <1>5, <1>6, <2>1, BufferMade, ZenonT(30)
  <2> QED BY <1>4, <2>2, Zenon
<1>9. ASSUME NEW j \in 0 .. c.size - 1 PROVE c.mem[Place(c, j)] = lo + j + 1
  <2>1. j \in 0 .. b.size - 1 /\ j \in Nat
    BY <1>1, <1>7
  <2>2. Place(c, j) = end + j /\ end + j \in 0 .. b.cap - 1
    BY <1>1, <1>5, <1>7, <2>1 DEF Place
  <2>3. b.mem[Place(b, j)] = lo + j + 1
    BY <2>1, Zenon DEF Holds
  <2>4. CASE j < n
    <3>1. end + j \in end .. end + n - 1 /\ b.off + (end + j) - end = Place(b, j)
      BY <1>1, <1>5, <2>1, <2>4 DEF Place
    <3> HIDE DEF end, n
    <3>2. m[end + j] = b.mem[b.off + (end + j) - end]
      BY <1>3, <2>2, <3>1, Zenon DEF Together
    <3> QED BY <1>7, <2>2, <2>3, <3>1, <3>2, Zenon
  <2>5. CASE ~(j < n)
    <3>1. /\ end + j \notin end .. end + n - 1 /\ end + j \in end + n .. 2 * end + n - 1
          /\ (end + j) - end - n = Place(b, j)
      BY <1>1, <1>5, <2>1, <2>5 DEF Place
    <3> HIDE DEF end, n
    <3>2. m[end + j] = b.mem[(end + j) - end - n]
      BY <1>3, <2>2, <3>1, Zenon DEF Together
    <3> QED BY <1>7, <2>2, <2>3, <3>1, <3>2, Zenon
  <2> QED BY <2>4, <2>5, Zenon
<1>10. Holds(c, lo)
  BY <1>9, Zenon DEF Holds
<1>11. c.off + c.size <= c.cap
  BY <1>1, <1>5, <1>7
<1> QED BY <1>7, <1>8, <1>10, <1>11, Zenon

\* peek keeps the bytes and leaves them contiguous.
LEMMA ContiguousOK ==
    ASSUME NEW b, BufferOK(b), NEW lo \in Int, Holds(b, lo),
           NEW c, c = Contiguous(b)
    PROVE  /\ BufferOK(c) /\ Holds(c, lo) /\ c.size = b.size
           /\ c.off + c.size <= c.cap
<1>1. b.size \in Nat /\ b.cap \in Nat /\ b.off \in Nat /\ b.size <= b.cap
  BY BufferFields
<1>2. CASE Crowded(b)
  <2>1. PICK k \in Nat : k = 2 * b.cap /\ b.size <= k
    BY <1>1
  <2>2. c = Reallocate(b, k)
    BY <1>2, <2>1, Zenon DEF Contiguous
  <2>3. BufferOK(c) /\ Holds(c, lo) /\ c.size = b.size /\ c.off = 0 /\ c.cap = k
    BY <2>1, <2>2, ReallocateOK
  <2> QED BY <1>1, <2>1, <2>3
<1>3. CASE ~Crowded(b) /\ Wraps(b)
  <2>1. c = Move(b)
    BY <1>3, Zenon DEF Contiguous
  <2> QED BY <1>3, <2>1, MoveOK
<1>4. CASE ~Crowded(b) /\ ~Wraps(b)
  <2>1. c = b
    BY <1>4, Zenon DEF Contiguous
  <2>2. b.off + b.size <= b.cap
    BY <1>1, <1>4 DEF Wraps
  <2> QED BY <2>1, <2>2
<1> QED BY <1>2, <1>3, <1>4, Zenon

\* The slot of the byte that follows j others, after n bytes were taken.
LEMMA PlaceShifts ==
    ASSUME NEW cap \in Nat, NEW off \in Nat, NEW n \in Nat, NEW j \in Nat,
           off < cap, n + j < cap,
           NEW o, o = IF off + n >= cap THEN off + n - cap ELSE off + n
    PROVE  (IF o + j >= cap THEN o + j - cap ELSE o + j)
           = IF off + (n + j) >= cap THEN off + (n + j) - cap ELSE off + (n + j)
  OBVIOUS

\* discard takes the first n bytes away.
LEMMA DiscardOK ==
    ASSUME NEW b, BufferOK(b), NEW lo \in Int, Holds(b, lo),
           NEW n \in Nat, n <= b.size, NEW c, c = BufferDiscard(b, n)
    PROVE  BufferOK(c) /\ Holds(c, lo + n) /\ c.size = b.size - n
<1>1. /\ b.size \in Nat /\ b.cap \in Nat /\ b.off \in Nat /\ b.size <= b.cap
      /\ b.cap = 0 => b.off = 0
      /\ b.cap # 0 => b.off < b.cap
  BY BufferFields
<1>2. PICK o : o = IF b.off + n >= b.cap THEN b.off + n - b.cap ELSE b.off + n
  OBVIOUS
<1>3. o \in Nat /\ IF b.cap = 0 THEN o = 0 ELSE o < b.cap
  BY <1>1, <1>2, SMTT(30)
<1>4. c = [mem |-> b.mem, cap |-> b.cap, off |-> o, size |-> b.size - n]
  <2>1. ~(n > b.size)
    BY <1>1
  <2>2. c = [b EXCEPT !.off = o, !.size = b.size - n]
    BY <1>2, <2>1, Zenon DEF BufferDiscard
  <2> QED BY <2>2, Zenon DEF BufferOK
<1>5. c.mem = b.mem /\ c.cap = b.cap /\ c.off = o /\ c.size = b.size - n
  BY <1>4
<1>6. BufferOK(c)
  <2>1. b.size - n \in Nat /\ b.size - n <= b.cap
    BY <1>1
  <2>2. BufferOK([mem |-> b.mem, cap |-> b.cap, off |-> o, size |-> b.size - n])
    BY <1>1, <1>3, <2>1, BufferFields, BufferMade, ZenonT(30)
  <2> QED BY <1>4, <2>2, Zenon
<1>7. ASSUME NEW j \in 0 .. c.size - 1 PROVE c.mem[Place(c, j)] = (lo + n) + j + 1
  <2>1. n + j \in 0 .. b.size - 1 /\ j \in Nat
    BY <1>1, <1>5
  <2>2. Place(c, j) = Place(b, n + j)
    <3>1. n + j < b.cap
      BY <1>1, <2>1
    <3>2. b.off < b.cap
      BY <1>1, <2>1
    <3>3. (IF o + j >= b.cap THEN o + j - b.cap ELSE o + j)
          = IF b.off + (n + j) >= b.cap THEN b.off + (n + j) - b.cap ELSE b.off + (n + j)
      BY <1>1, <1>2, <2>1, <3>1, <3>2, PlaceShifts
    <3> QED BY <1>5, <3>3, Zenon DEF Place
  <2>3. b.mem[Place(b, n + j)] = lo + (n + j) + 1
    BY <2>1, Zenon DEF Holds
  <2>4. lo + (n + j) + 1 = (lo + n) + j + 1
    BY <2>1, SumsAgree, Zenon
  <2> QED BY <1>5, <2>2, <2>3, <2>4, Zenon
<1>8. Holds(c, lo + n)
  BY <1>7, Zenon DEF Holds
<1> QED BY <1>5, <1>6, <1>8, Zenon

-----------------------------------------------------------------------------
\* Runs of bytes, and slices of a ring

\* A run that follows another one continues it.
LEMMA RunConcat ==
    ASSUME NEW s, NEW t, NEW n \in Nat, NEW k \in Nat, NEW lo \in Int,
           Run(s, n, lo), Run(t, k, lo + n)
    PROVE  Run(s \o t, n + k, lo)
<1>1. s \in Seq(Nat) /\ Len(s) = n /\ t \in Seq(Nat) /\ Len(t) = k
  BY Zenon DEF Run
<1>2. s \o t \in Seq(Nat) /\ Len(s \o t) = n + k
  <2>1. s \o t \in Seq(Nat)
    BY <1>1, SMTT(30)
  <2>2. Len(s \o t) = Len(s) + Len(t)
    BY <1>1, SMTT(30)
  <2> QED BY <1>1, <2>1, <2>2, Zenon
<1>3. ASSUME NEW i \in 1 .. n + k PROVE (s \o t)[i] = lo + i
  <2>1. CASE i <= n
    <3>1. i \in 1 .. n /\ (s \o t)[i] = s[i]
      BY <1>1, <2>1
    <3> QED BY <3>1, Zenon DEF Run
  <2>2. CASE ~(i <= n)
    <3>1. i - n \in 1 .. k /\ (s \o t)[i] = t[i - n]
      BY <1>1, <2>2
    <3>2. t[i - n] = lo + n + (i - n)
      BY <3>1, Zenon DEF Run
    <3>3. lo + n + (i - n) = lo + i
      OBVIOUS
    <3> QED BY <3>1, <3>2, <3>3, Zenon
  <2> QED BY <2>1, <2>2, Zenon
<1> QED BY <1>2, <1>3, Zenon DEF Run

\* A part of a run is one.
LEMMA RunPart ==
    ASSUME NEW s, NEW n \in Nat, NEW lo \in Int, Run(s, n, lo),
           NEW a \in Nat, NEW k \in Nat, a + k <= n
    PROVE  Run(SubSeq(s, a + 1, a + k), k, lo + a)
<1>1. s \in Seq(Nat) /\ Len(s) = n
  BY Zenon DEF Run
<1>2. PICK t : t = SubSeq(s, a + 1, a + k)
  OBVIOUS
<1>3. t \in Seq(Nat) /\ Len(t) = k
  BY <1>1, <1>2
<1>4. ASSUME NEW i \in 1 .. k PROVE t[i] = (lo + a) + i
  <2>1. t[i] = s[a + i] /\ a + i \in 1 .. n
    BY <1>1, <1>2
  <2>2. s[a + i] = lo + (a + i)
    BY <2>1, Zenon DEF Run
  <2>3. lo + (a + i) = (lo + a) + i
    OBVIOUS
  <2> QED BY <2>1, <2>2, <2>3, Zenon
<1> QED BY <1>2, <1>3, <1>4, Zenon DEF Run

\* A run from the first byte on is written down as a function.
LEMMA RunIs ==
    ASSUME NEW s, NEW n \in Nat, Run(s, n, 0)
    PROVE  s = [i \in 1 .. n |-> i]
<1>1. s \in Seq(Nat) /\ Len(s) = n /\ \A i \in 1 .. n : s[i] = 0 + i
  BY Zenon DEF Run
<1> QED BY <1>1

\* So are the bytes that a frame carries.
LEMMA RunMade ==
    ASSUME NEW n \in Nat, NEW lo \in Nat
    PROVE  Run([i \in 1 .. n |-> lo + i], n, lo)
<1>1. PICK s : s = [i \in 1 .. n |-> lo + i]
  BY Zenon
<1>2. s \in Seq(Nat) /\ Len(s) = n
  BY <1>1
<1>3. \A i \in 1 .. n : s[i] = lo + i
  BY <1>1, Zenon
<1> QED BY <1>1, <1>2, <1>3, Zenon DEF Run

\* The bytes of a buffer are a run.
LEMMA BytesRun ==
    ASSUME NEW b, BufferOK(b), NEW lo \in Int, Holds(b, lo)
    PROVE  Run(BytesOf(b), b.size, lo)
<1>1. b.size \in Nat
  BY BufferFields
<1>2. /\ BytesOf(b) \in Seq(Nat) /\ Len(BytesOf(b)) = b.size
      /\ \A i \in 0 .. b.size - 1 : BytesOf(b)[i + 1] = b.mem[Place(b, i)]
  BY BytesAre, Zenon
<1>3. ASSUME NEW i \in 1 .. b.size PROVE BytesOf(b)[i] = lo + i
  <2>1. PICK j \in 0 .. b.size - 1 : j + 1 = i /\ lo + j + 1 = lo + i
    <3>1. i - 1 \in 0 .. b.size - 1 /\ (i - 1) + 1 = i /\ lo + (i - 1) + 1 = lo + i
      BY <1>1
    <3> QED BY <3>1, Zenon
  <2>2. b.mem[Place(b, j)] = lo + j + 1
    BY Zenon DEF Holds
  <2>3. BytesOf(b)[j + 1] = b.mem[Place(b, j)]
    BY <1>2, Zenon
  <2> QED BY <2>1, <2>2, <2>3, Zenon
<1> QED BY <1>2, <1>3, Zenon DEF Run

\* A slice has the bytes of buffer b from position lo on, in the memory that it
\* shares with b or in memory that b no longer uses.
IsSlice(sl) == sl = [off |-> sl.off, len |-> sl.len, own |-> sl.own]
SliceOK(sl, b, lo) ==
    /\ IsSlice(sl) /\ sl.len \in Nat /\ sl.len <= b.size
    /\ sl.len > 0 => IF sl.own = <<>>
                     THEN sl.off = b.off /\ b.off + sl.len <= b.cap
                     ELSE Run(sl.own, sl.len, lo)

\* So the bytes that are read through it are those.
LEMMA SliceRun ==
    ASSUME NEW b, BufferOK(b), NEW lo \in Int, Holds(b, lo),
           NEW sl, SliceOK(sl, b, lo), sl.len > 0
    PROVE  Run(SliceBytes(sl, b), sl.len, lo)
<1>1. CASE sl.own # <<>>
  BY <1>1, Zenon DEF SliceOK, SliceBytes
<1>2. CASE sl.own = <<>>
  <2>1. /\ sl.off = b.off /\ b.off + sl.len <= b.cap /\ sl.len <= b.size
        /\ sl.len \in Nat
    BY <1>2, Zenon DEF SliceOK
  <2>2. /\ b.size \in Nat /\ b.cap \in Nat /\ b.off \in Nat
    BY BufferFields
  <2>3. PICK s : s = [i \in 1 .. sl.len |-> b.mem[b.off + i - 1]]
    BY Zenon
  <2>4. s = SliceBytes(sl, b)
    BY <1>2, <2>1, <2>3, Zenon DEF SliceBytes
  <2>5. ASSUME NEW i \in 1 .. sl.len
        PROVE  b.mem[b.off + i - 1] = lo + i /\ b.off + i - 1 \in 0 .. b.cap - 1
    <3>1. PICK j \in 0 .. b.size - 1 : j = i - 1 /\ lo + j + 1 = lo + i
      <4>1. i - 1 \in 0 .. b.size - 1 /\ lo + (i - 1) + 1 = lo + i
        BY <2>1, <2>2
      <4> QED BY <4>1, Zenon
    <3>2. Place(b, j) = b.off + i - 1 /\ b.off + i - 1 \in 0 .. b.cap - 1
      BY <2>1, <2>2, <3>1 DEF Place
    <3>3. b.mem[Place(b, j)] = lo + j + 1
      BY Zenon DEF Holds
    <3> QED BY <3>1, <3>2, <3>3, Zenon
  <2>6. s \in Seq(Nat) /\ Len(s) = sl.len
    <3>1. \A i \in 1 .. sl.len : b.mem[b.off + i - 1] \in Nat
      BY <2>5, BufferFields
    <3> QED BY <2>1, <2>3, <3>1
  <2>7. \A i \in 1 .. sl.len : s[i] = lo + i
    BY <2>3, <2>5, Zenon
  <2> QED BY <2>4, <2>6, <2>7, Zenon DEF Run
<1> QED BY <1>1, <1>2, Zenon

\* A slice outlives a write to its buffer.
LEMMA SliceKept ==
    ASSUME NEW b, BufferOK(b), NEW lo \in Int, Holds(b, lo),
           NEW sl, SliceOK(sl, b, lo), NEW n \in Nat, NEW c,
           c.size = b.size + n, ~Grows(b, n) => c.off = b.off /\ c.cap = b.cap,
           NEW u, u = Kept(sl, b, Grows(b, n))
    PROVE  SliceOK(u, c, lo) /\ u.len = sl.len
<1>1. sl.len \in Nat /\ sl.len <= b.size /\ b.size \in Nat /\ sl.len <= c.size
  BY BufferFields DEF SliceOK
<1>2. CASE ~Grows(b, n)
  <2>1. u = sl
    BY <1>2, Zenon DEF Kept
  <2>2. c.off = b.off /\ c.cap = b.cap
    BY <1>2, Zenon
  <2> QED BY <1>1, <2>1, <2>2, Zenon DEF SliceOK
<1>3. CASE Grows(b, n)
  <2>1. PICK own : own = SliceBytes(sl, b)
    OBVIOUS
  <2>2. u = [sl EXCEPT !.own = own]
    BY <1>3, <2>1, Zenon DEF Kept
  <2>3. u = [off |-> sl.off, len |-> sl.len, own |-> own]
    BY <2>2, Zenon DEF SliceOK, IsSlice
  <2>4. IsSlice(u) /\ u.len = sl.len /\ u.own = own
    BY <2>3 DEF IsSlice
  <2>5. ASSUME sl.len > 0 PROVE Run(own, sl.len, lo) /\ own # <<>>
    <3>1. Run(own, sl.len, lo)
      BY <2>1, <2>5, SliceRun
    <3>2. own \in Seq(Nat) /\ Len(own) = sl.len
      BY <3>1, Zenon DEF Run
    <3>3. own # <<>>
      BY <2>5, <3>2
    <3> QED BY <3>1, <3>3, Zenon
  <2> QED BY <1>1, <2>4, <2>5, Zenon DEF SliceOK
<1> QED BY <1>2, <1>3, Zenon

\* What peek returns is such a slice.
LEMMA SliceTaken ==
    ASSUME NEW b, BufferOK(b), b.off + b.size <= b.cap, NEW lo,
           NEW n \in Nat, n <= b.size, NEW sl, sl = SliceOf(b, n)
    PROVE  SliceOK(sl, b, lo) /\ sl.len = n
<1>1. /\ b.size \in Nat /\ b.cap \in Nat /\ b.off \in Nat
  BY BufferFields
<1>2. sl = [off |-> b.off, len |-> n, own |-> <<>>]
  BY Zenon DEF SliceOf
<1>3. IsSlice(sl) /\ sl.off = b.off /\ sl.len = n /\ sl.own = <<>>
  BY <1>2 DEF IsSlice
<1>4. b.off + n <= b.cap
  BY <1>1
<1> QED BY <1>3, <1>4, Zenon DEF SliceOK

-----------------------------------------------------------------------------
\* The invariant

Errors == Error \cup {None}

IsSrc(s) ==
    /\ s = [buf |-> s.buf, left |-> s.left, err |-> s.err, acked |-> s.acked]
    /\ s.left \in 0 .. Window /\ s.err \in Errors /\ s.acked \in BOOLEAN

IsDst(d) ==
    /\ d = [buf |-> d.buf, left |-> d.left, err |-> d.err, acked |-> d.acked,
            ended |-> d.ended]
    /\ d.left \in 0 .. Window /\ d.err \in Errors /\ d.acked \in BOOLEAN

IsCopier(c) ==
    /\ c = [pc |-> c.pc, slice |-> c.slice, n |-> c.n, err |-> c.err,
            werr |-> c.werr]
    /\ c.pc \in {"peek", "lock", "write", "discard", "closeread", "ack",
                 "closewrite", "done"}
    /\ c.n \in Nat /\ c.err \in Errors /\ c.werr \in Errors

IsLoop(w) ==
    /\ w = [pc |-> w.pc, slice |-> w.slice, eof |-> w.eof]
    /\ w.pc \in {"idle", "sending"} /\ w.eof \in BOOLEAN

Types ==
    /\ load \in Loads /\ sent \in 0 .. load.sent
    /\ sender \in {"open", "closed", "cut", "broken"}
    /\ receiver \in {"open", "eof", "broken"}
    /\ watcher \in {"waiting", "done"} /\ acker \in {"waiting", "done"}
    /\ IsSrc(src) /\ IsDst(dst) /\ IsCopier(copier) /\ IsLoop(wloop)

\* Bytes that are in src no more; bytes that left dst or were cleared there.
Taken == sent - src.buf.size
Base == Taken + copier.n - dst.buf.size

\* src has the bytes that were not taken, and its sender credit for the rest.
SrcInv ==
    /\ BufferOK(src.buf) /\ Taken \in Nat /\ Holds(src.buf, Taken)
    /\ src.left + src.buf.size <= Window
    /\ src.err = None => src.left + src.buf.size = Window /\ sender = "open"

\* The copy loop has a slice of what src holds; once it knows the error of src
\* that is all there will be.
CopyInv ==
    /\ SliceOK(copier.slice, src.buf, Taken)
    /\ copier.n <= copier.slice.len
    /\ copier.pc \notin {"lock", "write", "discard"} => copier.slice.len = 0
    /\ copier.pc = "lock" => copier.n = 0
    /\ copier.pc = "discard" /\ copier.werr = None => copier.n = copier.slice.len
    /\ copier.err # None /\ copier.pc # "closeread" =>
          copier.err = src.err /\ copier.slice.len = src.buf.size
    /\ copier.pc \in {"ack", "closewrite"} => copier.err # None
    /\ copier.pc = "closeread" => copier.werr # None
    /\ copier.werr # None => dst.err # None

\* dst continues what the receiver has, and the write loop has a slice of it.
SinkInv ==
    /\ BufferOK(dst.buf) /\ Holds(dst.buf, Base)
    /\ dst.buf.size <= WriteBufferSize
    /\ Run(received, Len(received), 0)
    /\ receiver = "open" => Len(received) = Base
    /\ IsSlice(wloop.slice) /\ wloop.slice.len \in Nat
    /\ receiver = "open" => SliceOK(wloop.slice, dst.buf, Base)
    /\ IF wloop.pc = "idle" THEN wloop.slice.len = 0 /\ ~wloop.eof
                            ELSE wloop.slice.len > 0
    /\ wloop.slice.len + dst.left <= Window
    /\ wloop.eof /\ receiver = "open" =>
          dst.err = "ECLOSED" /\ wloop.slice.len = dst.buf.size

\* The write side of dst is closed by the receiver's doing, or when all of src
\* and its acknowledgement were passed on.  Until the receiver is broken src is
\* closed by the sender or by the io.EOF of its connection, never from here.
EndInv ==
    /\ receiver # "open" => dst.err # None
    /\ receiver # "broken" /\ dst.err # None =>
          /\ copier.pc = "done" /\ src.buf.size = 0
          /\ src.err # None /\ dst.err = CloseErr(src.err)
          /\ src.acked => dst.acked
    /\ receiver # "broken" =>
          (src.err \in {"EOF", "ECLOSED"} <=> sender \in {"closed", "cut"})
    /\ receiver = "eof" =>
          /\ dst.err = "ECLOSED" /\ dst.buf.size = 0
          /\ Len(received) = sent /\ sender \in {"closed", "cut"}
    /\ copier.pc = "closewrite" /\ src.acked /\ dst.err = None => dst.acked
    /\ copier.pc = "done" => src.err # None /\ dst.err # None

PassInv == Types /\ SrcInv /\ CopyInv /\ SinkInv /\ EndInv

\* What NoSlice is a slice of.
LEMMA NoSliceOK ==
    ASSUME NEW b, BufferOK(b), NEW lo
    PROVE  SliceOK(NoSlice, b, lo) /\ NoSlice.len = 0
<1>1. b.size \in Nat
  BY BufferFields
<1> QED BY <1>1 DEF SliceOK, IsSlice, NoSlice

\* The numbers that the invariant is about, those of the source
LEMMA Numbers ==
    ASSUME PassInv
    PROVE  /\ sent \in Nat /\ load.sent \in Nat /\ sent <= load.sent
           /\ src.buf.size \in Nat /\ Taken \in Nat /\ sent = Taken + src.buf.size
           /\ copier.n \in Nat /\ copier.slice.len \in Nat
           /\ copier.n <= copier.slice.len /\ copier.slice.len <= src.buf.size
           /\ Window \in Nat /\ src.left \in Nat /\ src.left + src.buf.size <= Window
<1>1. load.sent \in Nat
  BY LoadsAssumption DEF PassInv, Types
<1>2. sent \in Nat /\ sent <= load.sent
  BY <1>1 DEF PassInv, Types
<1>3. src.buf.size \in Nat
  BY BufferFields DEF PassInv, SrcInv
<1>4. /\ copier.n \in Nat /\ copier.slice.len \in Nat
      /\ copier.n <= copier.slice.len /\ copier.slice.len <= src.buf.size
  BY Zenon DEF PassInv, Types, IsCopier, CopyInv, SliceOK
<1>5. Taken \in Nat
  BY Zenon DEF PassInv, SrcInv
<1>6. sent = Taken + src.buf.size
  BY <1>2, <1>3 DEF Taken
<1>7. Window \in Nat
  BY PassthruSizes
<1>8. src.left \in Nat
  <2>1. src.left \in 0 .. Window
    BY Zenon DEF PassInv, Types, IsSrc
  <2> QED BY <1>7, <2>1
<1>9. src.left + src.buf.size <= Window
  BY Zenon DEF PassInv, SrcInv
<1> QED BY <1>1, <1>2, <1>3, <1>4, <1>5, <1>6, <1>7, <1>8, <1>9, Zenon

\* and those of the sink.
LEMMA SinkNumbers ==
    ASSUME PassInv
    PROVE  /\ dst.buf.size \in Nat /\ dst.buf.size <= WriteBufferSize
           /\ WriteBufferSize \in Nat /\ Window \in Nat /\ dst.left \in Nat
           /\ wloop.slice.len \in Nat /\ wloop.slice.len + dst.left <= Window
           /\ Taken \in Nat /\ copier.n \in Nat /\ Base \in Int
           /\ Base = Taken + copier.n - dst.buf.size /\ Len(received) \in Nat
<1>1. dst.buf.size \in Nat
  BY BufferFields DEF PassInv, SinkInv
<1>2. WriteBufferSize \in Nat /\ Window \in Nat
  BY PassthruSizes
<1>3. dst.left \in Nat
  <2>1. dst.left \in 0 .. Window
    BY Zenon DEF PassInv, Types, IsDst
  <2> QED BY <1>2, <2>1
<1>4. /\ wloop.slice.len \in Nat /\ wloop.slice.len + dst.left <= Window
      /\ dst.buf.size <= WriteBufferSize
  BY Zenon DEF PassInv, SinkInv
<1>5. Taken \in Nat /\ copier.n \in Nat
  BY Numbers
<1>6. Base \in Int /\ Base = Taken + copier.n - dst.buf.size
  BY <1>1, <1>5 DEF Base
<1>7. Len(received) \in Nat
  <2>1. received \in Seq(Nat)
    BY Zenon DEF PassInv, SinkInv, Run
  <2> QED BY <2>1
<1> QED BY <1>1, <1>2, <1>3, <1>4, <1>5, <1>6, <1>7, Zenon

\* The buffers and slices that it is about.
LEMMA Buffers ==
    ASSUME PassInv
    PROVE  /\ BufferOK(src.buf) /\ Holds(src.buf, Taken)
           /\ SliceOK(copier.slice, src.buf, Taken)
           /\ BufferOK(dst.buf) /\ Holds(dst.buf, Base)
           /\ receiver = "open" => SliceOK(wloop.slice, dst.buf, Base)
  BY Zenon DEF PassInv, SrcInv, CopyInv, SinkInv

\* What a step of the source leaves of the sink.
LEMMA SinkKept ==
    ASSUME SinkInv, UNCHANGED sink, Base' = Base
    PROVE  SinkInv'
<1>1. dst' = dst /\ wloop' = wloop /\ received' = received /\ receiver' = receiver
  BY Zenon DEF sink
<1> QED BY <1>1, Zenon DEF SinkInv

\* DATA
LEMMA ArriveInv ==
    ASSUME PassInv, NEW n \in 1 .. MaxPayload, Arrive(n)
    PROVE  PassInv'
<1>1. n \in Nat /\ n > 0
  BY PassthruSizes
<1>2. PICK s : s = [i \in 1 .. n |-> sent + i]
  BY Zenon
<1>3. PICK b : b = BufferWrite(src.buf, s)
  OBVIOUS
<1>4. PICK u : u = Kept(copier.slice, src.buf, Grows(src.buf, n))
  OBVIOUS
<1>5. /\ src.err = None /\ n <= src.left /\ sent + n <= load.sent /\ sent' = sent + n
      /\ load' = load /\ sender' = sender /\ UNCHANGED sink
      /\ watcher' = watcher /\ acker' = acker
  BY Zenon DEF Arrive
<1>6. /\ src' = [buf |-> b, left |-> src.left - n, err |-> src.err, acked |-> src.acked]
      /\ copier' = [pc |-> copier.pc, slice |-> u, n |-> copier.n, err |-> copier.err,
                    werr |-> copier.werr]
  <2>1. /\ src' = [src EXCEPT !.left = @ - n, !.buf = b]
        /\ copier' = [copier EXCEPT !.slice = u]
    BY <1>2, <1>3, <1>4, Zenon DEF Arrive
  <2> QED BY <2>1, Zenon DEF PassInv, Types, IsSrc, IsCopier
<1>7. /\ src'.buf = b /\ src'.left = src.left - n /\ src'.err = src.err
      /\ src'.acked = src.acked
      /\ copier'.pc = copier.pc /\ copier'.slice = u /\ copier'.n = copier.n
      /\ copier'.err = copier.err /\ copier'.werr = copier.werr
  BY <1>6
<1>8. /\ BufferOK(b) /\ Holds(b, Taken) /\ b.size = src.buf.size + n
      /\ ~Grows(src.buf, n) => b.off = src.buf.off /\ b.cap = src.buf.cap
  <2>1. Run(s, n, sent)
    BY <1>1, <1>2, Numbers, RunMade, Zenon
  <2>2. Run(s, n, Taken + src.buf.size)
    BY <2>1, Numbers, Zenon
  <2>3. Taken \in Int
    BY Numbers
  <2> QED BY <1>1, <1>3, <2>2, <2>3, Buffers, WriteOK
<1>9. SliceOK(u, b, Taken) /\ u.len = copier.slice.len
  <2>1. Taken \in Int
    BY Numbers
  <2> QED BY <1>1, <1>4, <1>8, <2>1, Buffers, SliceKept
<1>10. Taken' = Taken /\ Base' = Base
  <2>1. (sent + n) - b.size = sent - src.buf.size
    BY <1>1, <1>8, Numbers
  <2>2. Taken' = Taken
    BY <1>5, <1>7, <2>1, Zenon DEF Taken
  <2> QED BY <1>5, <1>7, <2>2, Zenon DEF Base, sink
<1>11. Types'
  <2>1. src.left - n \in 0 .. Window
    BY <1>1, <1>5, Numbers
  <2>2. sent' \in 0 .. load.sent
    BY <1>1, <1>5, Numbers
  <2>3. IsSrc(src')
    BY <1>6, <1>7, <2>1, Zenon DEF PassInv, Types, IsSrc
  <2>4. IsCopier(copier')
    BY <1>6, <1>7, Zenon DEF PassInv, Types, IsCopier
  <2> QED BY <1>5, <2>2, <2>3, <2>4, Zenon DEF PassInv, Types, sink
<1>12. SrcInv'
  <2>1. src.left + src.buf.size = Window /\ sender = "open"
    BY <1>5, Zenon DEF PassInv, SrcInv
  <2>2. (src.left - n) + b.size = Window /\ (src.left - n) + b.size <= Window
    BY <1>1, <1>8, <2>1, Numbers
  <2> QED BY <1>5, <1>7, <1>8, <1>10, <2>1, <2>2, Numbers, Zenon DEF SrcInv
<1>13. CopyInv'
  BY <1>5, <1>7, <1>9, <1>10, Zenon DEF PassInv, Types, IsCopier, CopyInv, sink
<1>14. SinkInv'
  BY <1>5, <1>10, SinkKept, Zenon DEF PassInv
<1>15. EndInv'
  BY <1>5, <1>7, Zenon DEF PassInv, EndInv, sink
<1> QED BY <1>11, <1>12, <1>13, <1>14, <1>15, Zenon DEF PassInv

\* The flag ACK; a stream that has ended takes none.
LEMMA ArriveAckInv ==
    ASSUME PassInv, ArriveAck
    PROVE  PassInv'
<1>1. /\ src.err = None /\ sent' = sent /\ load' = load /\ sender' = sender
      /\ UNCHANGED sink /\ copier' = copier /\ watcher' = watcher /\ acker' = acker
  BY Zenon DEF ArriveAck
<1>2. src' = [buf |-> src.buf, left |-> src.left, err |-> src.err, acked |-> TRUE]
  <2>1. src' = [src EXCEPT !.acked = TRUE]
    BY Zenon DEF ArriveAck
  <2> QED BY <2>1, Zenon DEF PassInv, Types, IsSrc
<1>3. /\ src'.buf = src.buf /\ src'.left = src.left /\ src'.err = src.err
      /\ src'.acked = TRUE
  BY <1>2
<1>4. Taken' = Taken /\ Base' = Base
  BY <1>1, <1>3, Zenon DEF Taken, Base, sink
<1>5. Types'
  <2>1. IsSrc(src')
    BY <1>2, <1>3, Zenon DEF PassInv, Types, IsSrc
  <2> QED BY <1>1, <2>1, Zenon DEF PassInv, Types, sink
<1>6. SrcInv' /\ CopyInv'
  BY <1>1, <1>3, <1>4, Zenon DEF PassInv, SrcInv, CopyInv, sink
<1>7. SinkInv'
  BY <1>1, <1>4, SinkKept, Zenon DEF PassInv
<1>8. EndInv'
  <2>1. copier.pc # "closewrite"
    BY <1>1, Zenon DEF PassInv, CopyInv
  <2> QED BY <1>1, <1>3, <2>1, Zenon DEF PassInv, EndInv, sink
<1> QED BY <1>5, <1>6, <1>7, <1>8, Zenon DEF PassInv

\* EOF, RESET or a failure
LEMMA ArriveEndInv ==
    ASSUME PassInv, NEW err \in load.errs \cup {"EOF"}, ArriveEnd(err)
    PROVE  PassInv'
<1>1. err \in {"EOF", "ECLOSED", "EAPP"}
  BY LoadsAssumption DEF PassInv, Types
<1>2. /\ src.err = None /\ sent' = sent /\ load' = load
      /\ sender' = IF err = "EOF" THEN "closed"
                   ELSE IF err = "ECLOSED" THEN "cut" ELSE "broken"
      /\ UNCHANGED sink /\ copier' = copier /\ watcher' = watcher /\ acker' = acker
  BY Zenon DEF ArriveEnd
<1>3. src' = [buf |-> src.buf, left |-> src.left, err |-> err, acked |-> src.acked]
  <2>1. src' = [src EXCEPT !.err = err]
    BY Zenon DEF ArriveEnd
  <2> QED BY <2>1, Zenon DEF PassInv, Types, IsSrc
<1>4. /\ src'.buf = src.buf /\ src'.left = src.left /\ src'.err = err
      /\ src'.acked = src.acked
  BY <1>3
<1>5. Taken' = Taken /\ Base' = Base
  BY <1>2, <1>4, Zenon DEF Taken, Base, sink
<1>6. err \in Errors /\ err # None
  BY <1>1 DEF Errors, Error, None
<1>7. Types'
  <2>1. IsSrc(src')
    BY <1>3, <1>4, <1>6, Zenon DEF PassInv, Types, IsSrc
  <2>2. sender' \in {"open", "closed", "cut", "broken"}
    BY <1>2
  <2> QED BY <1>2, <2>1, <2>2, Zenon DEF PassInv, Types, sink
<1>8. SrcInv'
  BY <1>2, <1>4, <1>5, <1>6 DEF PassInv, SrcInv
<1>9. CopyInv'
  BY <1>2, <1>4, <1>5, Zenon DEF PassInv, CopyInv, sink
<1>10. SinkInv'
  BY <1>2, <1>5, SinkKept, Zenon DEF PassInv
<1>11. EndInv'
  <2>1. copier.pc # "closewrite" /\ copier.pc # "done"
    BY <1>2, Zenon DEF PassInv, CopyInv, EndInv
  <2>2. err \in {"EOF", "ECLOSED"} <=> sender' \in {"closed", "cut"}
    BY <1>1, <1>2
  <2> QED BY <1>2, <1>4, <1>6, <2>1, <2>2, Zenon DEF PassInv, EndInv, sink
<1> QED BY <1>7, <1>8, <1>9, <1>10, <1>11, Zenon DEF PassInv

\* What Peeked makes of the copy loop.
LEMMA PeekedIs ==
    ASSUME NEW pc, NEW u, Peeked(pc, u)
    PROVE  /\ copier' = [pc |-> pc, slice |-> u, n |-> 0, err |-> src.err, werr |-> None]
           /\ copier'.pc = pc /\ copier'.slice = u /\ copier'.n = 0
           /\ copier'.err = src.err /\ copier'.werr = None
<1>1. copier' = [pc |-> pc, slice |-> u, n |-> 0, err |-> src.err, werr |-> None]
  BY ZenonT(30) DEF Peeked, AtPeek
<1> QED BY <1>1

\* The peek of the copy loop
LEMMA PeekInv ==
    ASSUME PassInv, Peek
    PROVE  PassInv'
<1>1. /\ copier.pc = "peek"
      /\ src.buf.size > 0 \/ src.err # None
      /\ sent' = sent /\ load' = load /\ sender' = sender
      /\ UNCHANGED sink /\ watcher' = watcher /\ acker' = acker
  BY Zenon DEF Peek
<1>2. copier.n = 0 /\ copier.slice.len = 0
  <2>1. copier.slice.len = 0
    BY <1>1, Zenon DEF PassInv, CopyInv
  <2> QED BY <2>1, Numbers
<1>3. dst.err = None \/ receiver = "broken"
  BY <1>1, Zenon DEF PassInv, Types, EndInv
<1>4. CASE src.buf.size > 0
  <2>1. PICK b : b = Contiguous(src.buf)
    OBVIOUS
  <2>2. PICK u : u = SliceOf(b, b.size)
    OBVIOUS
  <2>3. src' = [src EXCEPT !.buf = b] /\ Peeked("lock", u)
    BY <1>4, <2>1, <2>2, Zenon DEF Peek
  <2>4. src' = [buf |-> b, left |-> src.left, err |-> src.err, acked |-> src.acked]
    BY <2>3, Zenon DEF PassInv, Types, IsSrc
  <2>5. /\ src'.buf = b /\ src'.left = src.left /\ src'.err = src.err
        /\ src'.acked = src.acked
    BY <2>4
  <2>6. /\ BufferOK(b) /\ Holds(b, Taken) /\ b.size = src.buf.size
        /\ b.off + b.size <= b.cap
    <3>1. Taken \in Int
      BY Numbers
    <3> QED BY <2>1, <3>1, Buffers, ContiguousOK
  <2>7. SliceOK(u, b, Taken) /\ u.len = b.size
    <3>1. b.size \in Nat /\ b.size <= b.size
      BY <2>6, Numbers
    <3> QED BY <2>2, <2>6, <3>1, SliceTaken
  <2>8. /\ copier' = [pc |-> "lock", slice |-> u, n |-> 0, err |-> src.err,
                      werr |-> None]
        /\ copier'.pc = "lock" /\ copier'.slice = u /\ copier'.n = 0
        /\ copier'.err = src.err /\ copier'.werr = None
    BY <2>3, PeekedIs, Zenon
  <2>9. Taken' = Taken
    BY <1>1, <2>5, <2>6, Zenon DEF Taken
  <2>10. Base' = Base
    BY <1>1, <1>2, <2>8, <2>9, Zenon DEF Base, sink
  <2>11. Types'
    <3>1. IsSrc(src')
      BY <2>4, <2>5, Zenon DEF PassInv, Types, IsSrc
    <3>2. 0 \in Nat /\ None \in Errors
      BY DEF Errors
    <3>3. IsCopier(copier')
      BY <2>8, <3>2, Zenon DEF PassInv, Types, IsSrc, IsCopier
    <3> QED BY <1>1, <3>1, <3>3, Zenon DEF PassInv, Types, sink
  <2>12. SrcInv'
    BY <1>1, <2>5, <2>6, <2>9, Zenon DEF PassInv, SrcInv
  <2>13. CopyInv'
    <3>1. 0 <= u.len
      BY <2>6, <2>7, Numbers
    <3> QED BY <2>5, <2>7, <2>8, <2>9, <3>1 DEF CopyInv
  <2>14. SinkInv'
    BY <1>1, <2>10, SinkKept, Zenon DEF PassInv
  <2>15. EndInv'
    BY <1>1, <1>3, <2>5, <2>8 DEF PassInv, Types, EndInv, sink
  <2> QED BY <2>11, <2>12, <2>13, <2>14, <2>15, Zenon DEF PassInv
<1>5. CASE ~(src.buf.size > 0)
  <2>1. src' = src /\ Peeked("ack", NoSlice) /\ src.err # None
    BY <1>1, <1>5, Zenon DEF Peek
  <2>2. /\ copier' = [pc |-> "ack", slice |-> NoSlice, n |-> 0, err |-> src.err,
                      werr |-> None]
        /\ copier'.pc = "ack" /\ copier'.slice = NoSlice /\ copier'.n = 0
        /\ copier'.err = src.err /\ copier'.werr = None
    BY <2>1, PeekedIs, Zenon
  <2>3. Taken' = Taken
    BY <1>1, <2>1, Zenon DEF Taken
  <2>4. Base' = Base
    BY <1>1, <1>2, <2>2, <2>3, Zenon DEF Base, sink
  <2>5. Types'
    <3>1. 0 \in Nat /\ None \in Errors
      BY DEF Errors
    <3>2. IsCopier(copier')
      BY <2>2, <3>1, Zenon DEF PassInv, Types, IsSrc, IsCopier
    <3> QED BY <1>1, <2>1, <3>2, Zenon DEF PassInv, Types, sink
  <2>6. SrcInv'
    BY <1>1, <2>1, <2>3, Zenon DEF PassInv, SrcInv
  <2>7. CopyInv'
    <3>1. src.buf.size = 0
      BY <1>5, Numbers
    <3>2. SliceOK(NoSlice, src.buf, Taken) /\ NoSlice.len = 0
      BY Buffers, NoSliceOK, Zenon
    <3> QED BY <2>1, <2>2, <2>3, <3>1, <3>2 DEF CopyInv
  <2>8. SinkInv'
    BY <1>1, <2>4, SinkKept, Zenon DEF PassInv
  <2>9. EndInv'
    BY <1>1, <1>3, <2>1, <2>2 DEF PassInv, Types, EndInv, sink
  <2> QED BY <2>5, <2>6, <2>7, <2>8, <2>9, Zenon DEF PassInv
<1> QED BY <1>4, <1>5, Zenon

\* What Goto makes of the copy loop.
LEMMA GotoIs ==
    ASSUME IsCopier(copier), NEW pc, Goto(pc)
    PROVE  /\ copier' = [pc |-> pc, slice |-> copier.slice, n |-> copier.n,
                         err |-> copier.err, werr |-> copier.werr]
           /\ copier'.pc = pc /\ copier'.slice = copier.slice /\ copier'.n = copier.n
           /\ copier'.err = copier.err /\ copier'.werr = copier.werr
<1>1. copier' = [pc |-> pc, slice |-> copier.slice, n |-> copier.n,
                 err |-> copier.err, werr |-> copier.werr]
  BY Zenon DEF IsCopier, Goto
<1> QED BY <1>1

\* The mutex is locked.
LEMMA LockInv ==
    ASSUME PassInv, Lock
    PROVE  PassInv'
<1>1. /\ copier.pc = "lock" /\ Goto("write") /\ load' = load
      /\ UNCHANGED source /\ UNCHANGED sink /\ watcher' = watcher /\ acker' = acker
  BY Zenon DEF Lock
<1>2. sent' = sent /\ sender' = sender /\ src' = src
  BY <1>1, Zenon DEF source
<1>3. /\ copier' = [pc |-> "write", slice |-> copier.slice, n |-> copier.n,
                    err |-> copier.err, werr |-> copier.werr]
      /\ copier'.pc = "write" /\ copier'.slice = copier.slice /\ copier'.n = copier.n
      /\ copier'.err = copier.err /\ copier'.werr = copier.werr
  BY <1>1, GotoIs, Zenon DEF PassInv, Types
<1>4. Taken' = Taken
  BY <1>2, Zenon DEF Taken
<1>5. Base' = Base
  BY <1>1, <1>3, <1>4, Zenon DEF Base, sink
<1>6. Types'
  <2>1. IsCopier(copier')
    BY <1>3, Zenon DEF PassInv, Types, IsCopier
  <2> QED BY <1>1, <1>2, <2>1, Zenon DEF PassInv, Types, sink
<1>7. SrcInv'
  BY <1>2, <1>4, Zenon DEF PassInv, SrcInv
<1>8. CopyInv'
  BY <1>1, <1>2, <1>3, <1>4 DEF PassInv, CopyInv, sink
<1>9. SinkInv'
  BY <1>1, <1>5, SinkKept, Zenon DEF PassInv
<1>10. EndInv'
  BY <1>1, <1>2, <1>3 DEF PassInv, EndInv, sink
<1> QED BY <1>6, <1>7, <1>8, <1>9, <1>10, Zenon DEF PassInv

\* How many of len bytes, k of which are written, fit in a buffer of size w.
LEMMA TurnSize ==
    ASSUME NEW len \in Nat, NEW k \in Nat, k <= len,
           NEW w \in Nat, NEW size \in Nat, size <= w,
           NEW n, n = Least(len - k, w - size)
    PROVE  n \in Nat /\ k + n <= len /\ size + n <= w
  BY DEF Least

\* One turn of dst.Write
LEMMA WriteInv ==
    ASSUME PassInv, Write
    PROVE  PassInv'
<1>1. PICK bytes : bytes = SliceBytes(copier.slice, src.buf)
  OBVIOUS
<1>2. PICK n : n = Least(copier.slice.len - copier.n, Room)
  OBVIOUS
<1>3. PICK s : s = SubSeq(bytes, copier.n + 1, copier.n + n)
  BY ZenonT(30)
<1>4. PICK b : b = BufferWrite(dst.buf, s)
  OBVIOUS
<1>5. PICK u : u = Kept(wloop.slice, dst.buf, Grows(dst.buf, n))
  OBVIOUS
<1>6. PICK pc : pc = IF copier.n + n = copier.slice.len THEN "discard" ELSE "write"
  OBVIOUS
<1>7. /\ copier.pc = "write" /\ dst.err = None /\ n > 0 /\ load' = load
      /\ UNCHANGED source /\ received' = received /\ receiver' = receiver
      /\ watcher' = watcher /\ acker' = acker
  BY <1>2, Zenon DEF Write
<1>8. /\ dst' = [buf |-> b, left |-> dst.left, err |-> dst.err, acked |-> dst.acked,
                 ended |-> dst.ended]
      /\ wloop' = [pc |-> wloop.pc, slice |-> u, eof |-> wloop.eof]
      /\ copier' = [pc |-> pc, slice |-> copier.slice, n |-> copier.n + n,
                    err |-> copier.err, werr |-> copier.werr]
  <2>1. /\ dst' = [dst EXCEPT !.buf = b]
        /\ wloop' = [wloop EXCEPT !.slice = u]
        /\ copier' = [copier EXCEPT !.n = @ + n, !.pc = pc]
    BY <1>1, <1>2, <1>3, <1>4, <1>5, <1>6, Zenon DEF Write
  <2> QED BY <2>1, Zenon DEF PassInv, Types, IsDst, IsLoop, IsCopier
<1>9. /\ dst'.buf = b /\ dst'.left = dst.left /\ dst'.err = dst.err
      /\ dst'.acked = dst.acked /\ dst'.ended = dst.ended
  BY <1>8
<1>10. /\ wloop'.pc = wloop.pc /\ wloop'.slice = u /\ wloop'.eof = wloop.eof
       /\ copier'.pc = pc /\ copier'.slice = copier.slice /\ copier'.n = copier.n + n
       /\ copier'.err = copier.err /\ copier'.werr = copier.werr
  BY <1>8
<1>11. sent' = sent /\ sender' = sender /\ src' = src
  BY <1>7, Zenon DEF source
<1>12. receiver = "open"
  BY <1>7, Zenon DEF PassInv, Types, EndInv
<1>13. /\ n \in Nat /\ copier.n + n <= copier.slice.len
       /\ dst.buf.size + n <= WriteBufferSize
  <2>1. n = Least(copier.slice.len - copier.n, WriteBufferSize - dst.buf.size)
    BY <1>2, Zenon DEF Room
  <2> QED BY <2>1, Numbers, SinkNumbers, TurnSize, Zenon
<1>14. Run(s, n, Base + dst.buf.size)
  <2>1. Taken \in Int /\ copier.slice.len > 0
    BY <1>7, <1>13, Numbers
  <2>2. Run(bytes, copier.slice.len, Taken)
    BY <1>1, <2>1, Buffers, SliceRun
  <2>3. Run(s, n, Taken + copier.n)
    BY <1>3, <1>13, <2>1, <2>2, Numbers, RunPart, Zenon
  <2>4. Base + dst.buf.size = Taken + copier.n
    <3>1. /\ Taken \in Nat /\ copier.n \in Nat /\ dst.buf.size \in Nat
          /\ Base = Taken + copier.n - dst.buf.size
      BY SinkNumbers, Zenon
    <3> QED BY <3>1
  <2> QED BY <2>3, <2>4, Zenon
<1>15. /\ BufferOK(b) /\ Holds(b, Base) /\ b.size = dst.buf.size + n
       /\ ~Grows(dst.buf, n) => b.off = dst.buf.off /\ b.cap = dst.buf.cap
  <2>1. Base \in Int
    BY SinkNumbers, Zenon
  <2>2. /\ BufferOK(dst.buf) /\ Holds(dst.buf, Base) /\ n \in Nat /\ n > 0
        /\ Run(s, n, Base + dst.buf.size)
    BY <1>7, <1>13, <1>14, Buffers, Zenon
  <2> QED BY <1>4, <2>1, <2>2, WriteOK
<1>16. SliceOK(u, b, Base) /\ u.len = wloop.slice.len
  <2>1. Base \in Int
    BY SinkNumbers, Zenon
  <2> QED BY <1>5, <1>12, <1>13, <1>15, <2>1, Buffers, SliceKept
<1>17. Taken' = Taken
  BY <1>11, Zenon DEF Taken
<1>18. Base' = Base
  <2>1. Taken + (copier.n + n) - b.size = Taken + copier.n - dst.buf.size
    BY <1>13, <1>15, SinkNumbers
  <2> QED BY <1>9, <1>10, <1>17, <2>1, Zenon DEF Base
<1>19. Types'
  <2>1. copier.n + n \in Nat
    BY <1>13, Numbers
  <2>2. pc \in {"discard", "write"}
    BY <1>6
  <2>3. IsCopier(copier')
    BY <1>8, <1>10, <2>1, <2>2 DEF PassInv, Types, IsCopier
  <2>4. IsDst(dst') /\ IsLoop(wloop')
    BY <1>8, <1>9, <1>10, Zenon DEF PassInv, Types, IsDst, IsLoop
  <2> QED BY <1>7, <1>11, <2>3, <2>4, Zenon DEF PassInv, Types
<1>20. SrcInv'
  BY <1>11, <1>17, Zenon DEF PassInv, SrcInv
<1>21. CopyInv'
  <2>1. pc = "discard" => copier.n + n = copier.slice.len
    BY <1>6
  <2>2. pc \in {"discard", "write"}
    BY <1>6
  <2>3. copier.err # None => copier.err = src.err /\ copier.slice.len = src.buf.size
    BY <1>7, Zenon DEF PassInv, CopyInv
  <2>4. copier.werr # None => dst.err # None
    BY Zenon DEF PassInv, CopyInv
  <2> QED BY <1>9, <1>10, <1>11, <1>13, <1>17, <2>1, <2>2, <2>3, <2>4, Buffers
          DEF CopyInv
<1>22. SinkInv'
  <2>1. ~wloop.eof
    BY <1>7, <1>12, ZenonT(30) DEF PassInv, SinkInv, None
  <2>2. b.size <= WriteBufferSize
    BY <1>13, <1>15
  <2>3. IsSlice(u) /\ u.len \in Nat
    BY <1>16, Zenon DEF SliceOK
  <2> QED BY <1>7, <1>9, <1>10, <1>15, <1>16, <1>18, <2>1, <2>2, <2>3, Zenon
          DEF PassInv, SinkInv
<1>23. EndInv'
  <2>1. pc # "closewrite" /\ pc # "done"
    BY <1>6
  <2> QED BY <1>7, <1>9, <1>10, <1>11, <1>12, <2>1 DEF PassInv, EndInv
<1> QED BY <1>19, <1>20, <1>21, <1>22, <1>23, Zenon DEF PassInv

\* dst.Write fails
LEMMA WriteFailsInv ==
    ASSUME PassInv, WriteFails
    PROVE  PassInv'
<1>1. /\ copier.pc = "write" /\ dst.err # None /\ load' = load
      /\ UNCHANGED source /\ UNCHANGED sink /\ watcher' = watcher /\ acker' = acker
  BY Zenon DEF WriteFails
<1>2. sent' = sent /\ sender' = sender /\ src' = src /\ dst' = dst
  BY <1>1, Zenon DEF source, sink
<1>3. copier' = [pc |-> "discard", slice |-> copier.slice, n |-> copier.n,
                 err |-> copier.err, werr |-> dst.err]
  <2>1. copier' = [copier EXCEPT !.pc = "discard", !.werr = dst.err]
    BY Zenon DEF WriteFails
  <2> QED BY <2>1, Zenon DEF PassInv, Types, IsCopier
<1>4. /\ copier'.pc = "discard" /\ copier'.slice = copier.slice
      /\ copier'.n = copier.n /\ copier'.err = copier.err /\ copier'.werr = dst.err
  BY <1>3
<1>5. Taken' = Taken
  BY <1>2, Zenon DEF Taken
<1>6. Base' = Base
  BY <1>2, <1>4, <1>5, Zenon DEF Base
<1>7. Types'
  <2>1. IsCopier(copier')
    BY <1>3, <1>4, Zenon DEF PassInv, Types, IsCopier, IsDst
  <2> QED BY <1>1, <1>2, <2>1, Zenon DEF PassInv, Types, sink
<1>8. SrcInv'
  BY <1>2, <1>5, Zenon DEF PassInv, SrcInv
<1>9. CopyInv'
  BY <1>1, <1>2, <1>4, <1>5 DEF PassInv, CopyInv
<1>10. SinkInv'
  BY <1>1, <1>6, SinkKept, Zenon DEF PassInv
<1>11. EndInv'
  BY <1>1, <1>2, <1>4 DEF PassInv, EndInv, sink
<1> QED BY <1>7, <1>8, <1>9, <1>10, <1>11, Zenon DEF PassInv

\* Discard, after as much of the slice was written as could be
LEMMA DiscardInv ==
    ASSUME PassInv, Discard
    PROVE  PassInv'
<1>1. PICK b : b = BufferDiscard(src.buf, copier.n)
  OBVIOUS
<1>2. PICK left : left = IF src.err = None THEN src.left + copier.n ELSE src.left
  OBVIOUS
<1>3. PICK pc : pc = IF copier.werr # None THEN "closeread"
                     ELSE IF copier.err # None THEN "ack" ELSE "peek"
  OBVIOUS
<1>4. /\ copier.pc = "discard" /\ load' = load /\ sent' = sent /\ sender' = sender
      /\ UNCHANGED sink /\ watcher' = watcher /\ acker' = acker
  BY Zenon DEF Discard
<1>5. /\ src' = [buf |-> b, left |-> left, err |-> src.err, acked |-> src.acked]
      /\ copier' = [pc |-> pc, slice |-> NoSlice, n |-> 0, err |-> copier.err,
                    werr |-> copier.werr]
  <2>1. /\ src' = [src EXCEPT !.buf = b, !.left = left]
        /\ copier' = [copier EXCEPT !.slice = NoSlice, !.n = 0, !.pc = pc]
    BY <1>1, <1>2, <1>3, Zenon DEF Discard
  <2> QED BY <2>1, Zenon DEF PassInv, Types, IsSrc, IsCopier
<1>6. /\ src'.buf = b /\ src'.left = left /\ src'.err = src.err
      /\ src'.acked = src.acked
      /\ copier'.pc = pc /\ copier'.slice = NoSlice /\ copier'.n = 0
      /\ copier'.err = copier.err /\ copier'.werr = copier.werr
  BY <1>5
<1>7. BufferOK(b) /\ Holds(b, Taken + copier.n) /\ b.size = src.buf.size - copier.n
  <2>1. Taken \in Int /\ copier.n <= src.buf.size /\ copier.n \in Nat
    BY Numbers
  <2> QED BY <1>1, <2>1, Buffers, DiscardOK
<1>8. Taken' = Taken + copier.n /\ Taken + copier.n \in Nat
  <2>1. sent - b.size = Taken + copier.n /\ Taken + copier.n \in Nat
    BY <1>7, Numbers
  <2> QED BY <1>4, <1>6, <2>1, Zenon DEF Taken
<1>9. Base' = Base
  <2>1. Taken + copier.n + 0 - dst.buf.size = Taken + copier.n - dst.buf.size
    BY SinkNumbers
  <2> QED BY <1>4, <1>6, <1>8, <2>1, Zenon DEF Base, sink
<1>10. left \in 0 .. Window /\ left + b.size <= Window
  BY <1>2, <1>7, Numbers
<1>11. pc \in {"closeread", "ack", "peek"}
  BY <1>3
<1>12. Types'
  <2>1. IsSrc(src')
    BY <1>5, <1>6, <1>10, Zenon DEF PassInv, Types, IsSrc
  <2>2. 0 \in Nat
    OBVIOUS
  <2>3. IsCopier(copier')
    BY <1>5, <1>6, <1>11, <2>2 DEF PassInv, Types, IsCopier
  <2> QED BY <1>4, <2>1, <2>3, Zenon DEF PassInv, Types, sink
<1>13. SrcInv'
  <2>1. ASSUME src.err = None PROVE left + b.size = Window /\ sender = "open"
    <3>1. src.left + src.buf.size = Window /\ sender = "open"
      BY <2>1, Zenon DEF PassInv, SrcInv
    <3> QED BY <1>2, <1>7, <2>1, <3>1, Numbers
  <2> QED BY <1>4, <1>6, <1>7, <1>8, <1>10, <2>1, Zenon DEF SrcInv
<1>14. CopyInv'
  <2>1. SliceOK(NoSlice, b, Taken + copier.n) /\ NoSlice.len = 0
    BY <1>7, NoSliceOK, Zenon
  <2>2. 0 <= NoSlice.len
    BY <2>1
  <2>3. ASSUME copier.err # None, pc # "closeread"
        PROVE  copier.err = src.err /\ b.size = 0
    <3>1. copier.werr = None
      BY <1>3, <2>3
    <3>2. copier.err = src.err /\ copier.slice.len = src.buf.size
          /\ copier.n = copier.slice.len
      BY <1>4, <2>3, <3>1 DEF PassInv, CopyInv
    <3> QED BY <1>7, <3>2, Numbers
  <2>4. (pc = "ack" => copier.err # None) /\ (pc = "closeread" => copier.werr # None)
    BY <1>3
  <2>5. copier.werr # None => dst.err # None
    BY Zenon DEF PassInv, CopyInv
  <2>6. dst' = dst
    BY <1>4, Zenon DEF sink
  <2> QED BY <1>6, <1>8, <1>11, <2>1, <2>2, <2>3, <2>4, <2>5, <2>6 DEF CopyInv
<1>15. SinkInv'
  BY <1>4, <1>9, SinkKept, Zenon DEF PassInv
<1>16. EndInv'
  BY <1>4, <1>6, <1>11 DEF PassInv, Types, EndInv, sink
<1> QED BY <1>12, <1>13, <1>14, <1>15, <1>16, Zenon DEF PassInv

\* What Return makes of the copy loop.
LEMMA ReturnIs ==
    ASSUME Return
    PROVE  /\ copier' = [pc |-> "done", slice |-> NoSlice, n |-> 0, err |-> None,
                         werr |-> None]
           /\ copier'.pc = "done" /\ copier'.slice = NoSlice /\ copier'.n = 0
           /\ copier'.err = None /\ copier'.werr = None
           /\ IsCopier(copier')
<1>1. copier' = [pc |-> "done", slice |-> NoSlice, n |-> 0, err |-> None, werr |-> None]
  BY DEF Return, AtPeek
<1>2. /\ copier'.pc = "done" /\ copier'.slice = NoSlice /\ copier'.n = 0
      /\ copier'.err = None /\ copier'.werr = None
  BY <1>1
<1> QED BY <1>1, <1>2 DEF IsCopier, Errors

\* The error that a close reports.
LEMMA CloseErrIs ==
    ASSUME NEW err \in Errors, err # None
    PROVE  CloseErr(err) \in Errors /\ CloseErr(err) # None
  BY DEF CloseErr, Errors, Error, None

\* What CloseReadWithError makes of src.
LEMMA CloseReadIs ==
    ASSUME IsSrc(src), NEW err \in Errors, err # None, CloseReadWithError(err)
    PROVE  /\ IsSrc(src') /\ src'.buf = src.buf /\ src'.left = src.left
           /\ src'.acked = src.acked /\ src'.err # None
           /\ src.err # None => src'.err = src.err
<1>1. PICK e : e = IF src.err = None THEN CloseErr(err) ELSE src.err
  OBVIOUS
<1>2. src' = [buf |-> src.buf, left |-> src.left, err |-> e, acked |-> src.acked]
  <2>1. src' = [src EXCEPT !.err = e]
    BY <1>1, Zenon DEF CloseReadWithError
  <2> QED BY <2>1, Zenon DEF IsSrc
<1>3. /\ src'.buf = src.buf /\ src'.left = src.left /\ src'.err = e
      /\ src'.acked = src.acked
  BY <1>2
<1>4. e \in Errors /\ e # None /\ (src.err # None => e = src.err)
  BY <1>1, CloseErrIs, Zenon DEF IsSrc
<1> QED BY <1>2, <1>3, <1>4, Zenon DEF IsSrc

\* The write failed, and the source is closed.
LEMMA CloseReadInv ==
    ASSUME PassInv, CloseRead
    PROVE  PassInv'
<1>1. /\ copier.pc = "closeread" /\ load' = load /\ sent' = sent /\ sender' = sender
      /\ CloseReadWithError(copier.werr) /\ Return
      /\ UNCHANGED sink /\ watcher' = watcher /\ acker' = acker
  BY Zenon DEF CloseRead
<1>2. copier.werr \in Errors /\ copier.werr # None /\ dst.err # None
  BY <1>1, Zenon DEF PassInv, Types, IsCopier, CopyInv
<1>3. /\ IsSrc(src') /\ src'.buf = src.buf /\ src'.left = src.left
      /\ src'.acked = src.acked /\ src'.err # None
      /\ src.err # None => src'.err = src.err
  BY <1>1, <1>2, CloseReadIs, Zenon DEF PassInv, Types
<1>4. copier.n = 0
  <2>1. copier.slice.len = 0
    BY <1>1 DEF PassInv, CopyInv
  <2>2. copier.n \in Nat /\ copier.n <= copier.slice.len
    BY Numbers, Zenon
  <2> QED BY <2>1, <2>2
<1>5. receiver = "broken"
  BY <1>1, <1>2 DEF PassInv, EndInv
<1>6. Taken' = Taken
  BY <1>1, <1>3, Zenon DEF Taken
<1>7. Base' = Base
  BY <1>1, <1>4, <1>6, ReturnIs, Zenon DEF Base, sink
<1>8. Types'
  BY <1>1, <1>3, ReturnIs, Zenon DEF PassInv, Types, sink
<1>9. SrcInv'
  BY <1>1, <1>3, <1>6, Zenon DEF PassInv, SrcInv
<1>10. CopyInv'
  <2>1. SliceOK(NoSlice, src.buf, Taken) /\ NoSlice.len = 0 /\ 0 <= 0
    BY Buffers, NoSliceOK
  <2> QED BY <1>1, <1>3, <1>6, <2>1, ReturnIs DEF CopyInv
<1>11. SinkInv'
  BY <1>1, <1>7, SinkKept, Zenon DEF PassInv
<1>12. EndInv'
  BY <1>1, <1>2, <1>3, <1>5, ReturnIs DEF EndInv, sink
<1> QED BY <1>8, <1>9, <1>10, <1>11, <1>12, Zenon DEF PassInv

\* The watcher of dst closes the source.
LEMMA WatchWriteClosedInv ==
    ASSUME PassInv, WatchWriteClosed
    PROVE  PassInv'
<1>1. /\ dst.err # None /\ load' = load /\ sent' = sent /\ sender' = sender
      /\ CloseReadWithError(dst.err) /\ copier' = copier
      /\ UNCHANGED sink /\ watcher' = "done" /\ acker' = acker
  BY Zenon DEF WatchWriteClosed
<1>2. dst.err \in Errors
  BY Zenon DEF PassInv, Types, IsDst
<1>3. /\ IsSrc(src') /\ src'.buf = src.buf /\ src'.left = src.left
      /\ src'.acked = src.acked /\ src'.err # None
      /\ src.err # None => src'.err = src.err
  BY <1>1, <1>2, CloseReadIs, Zenon DEF PassInv, Types
<1>4. Taken' = Taken
  BY <1>1, <1>3, Zenon DEF Taken
<1>5. Base' = Base
  BY <1>1, <1>4, Zenon DEF Base, sink
<1>6. Types'
  BY <1>1, <1>3, Zenon DEF PassInv, Types, sink
<1>7. SrcInv'
  BY <1>1, <1>3, <1>4, Zenon DEF PassInv, SrcInv
<1>8. CopyInv'
  BY <1>1, <1>3, <1>4 DEF PassInv, CopyInv, sink
<1>9. SinkInv'
  BY <1>1, <1>5, SinkKept, Zenon DEF PassInv
<1>10. EndInv'
  BY <1>1, <1>3 DEF PassInv, EndInv, sink
<1> QED BY <1>6, <1>7, <1>8, <1>9, <1>10, Zenon DEF PassInv

\* What Acknowledge makes of dst.
LEMMA AcknowledgeIs ==
    ASSUME IsDst(dst), dst' = Acknowledge(dst)
    PROVE  /\ IsDst(dst') /\ dst'.buf = dst.buf /\ dst'.left = dst.left
           /\ dst'.err = dst.err /\ (dst.acked => dst'.acked)
           /\ src.acked /\ dst.err = None => dst'.acked
<1>1. CASE src.acked /\ dst.err = None
  <2>1. dst' = [dst EXCEPT !.acked = TRUE]
    BY <1>1, Zenon DEF Acknowledge
  <2>2. dst' = [buf |-> dst.buf, left |-> dst.left, err |-> dst.err, acked |-> TRUE,
                ended |-> dst.ended]
    BY <2>1, Zenon DEF IsDst
  <2>3. /\ dst'.buf = dst.buf /\ dst'.left = dst.left /\ dst'.err = dst.err
        /\ dst'.acked = TRUE /\ dst'.ended = dst.ended
    BY <2>2
  <2> QED BY <2>2, <2>3, Zenon DEF IsDst
<1>2. CASE ~(src.acked /\ dst.err = None)
  <2>1. dst' = dst
    BY <1>2, Zenon DEF Acknowledge
  <2> QED BY <1>2, <2>1, Zenon
<1> QED BY <1>1, <1>2, Zenon

\* The copy loop forwards the acknowledgement.
LEMMA AckInv ==
    ASSUME PassInv, Ack
    PROVE  PassInv'
<1>1. /\ copier.pc = "ack" /\ dst' = Acknowledge(dst) /\ Goto("closewrite")
      /\ load' = load /\ UNCHANGED source /\ wloop' = wloop /\ received' = received
      /\ receiver' = receiver /\ watcher' = watcher /\ acker' = acker
  BY Zenon DEF Ack
<1>2. sent' = sent /\ sender' = sender /\ src' = src
  BY <1>1, Zenon DEF source
<1>3. /\ copier' = [pc |-> "closewrite", slice |-> copier.slice, n |-> copier.n,
                    err |-> copier.err, werr |-> copier.werr]
      /\ copier'.pc = "closewrite" /\ copier'.slice = copier.slice
      /\ copier'.n = copier.n /\ copier'.err = copier.err /\ copier'.werr = copier.werr
  BY <1>1, GotoIs, Zenon DEF PassInv, Types
<1>4. /\ IsDst(dst') /\ dst'.buf = dst.buf /\ dst'.left = dst.left
      /\ dst'.err = dst.err /\ (dst.acked => dst'.acked)
      /\ src.acked /\ dst.err = None => dst'.acked
  BY <1>1, AcknowledgeIs, Zenon DEF PassInv, Types
<1>5. Taken' = Taken
  BY <1>2, Zenon DEF Taken
<1>6. Base' = Base
  BY <1>3, <1>4, <1>5, Zenon DEF Base
<1>7. Types'
  <2>1. IsCopier(copier')
    BY <1>3, Zenon DEF PassInv, Types, IsCopier
  <2> QED BY <1>1, <1>2, <1>4, <2>1, Zenon DEF PassInv, Types
<1>8. SrcInv'
  BY <1>2, <1>5, Zenon DEF PassInv, SrcInv
<1>9. CopyInv'
  BY <1>1, <1>2, <1>3, <1>4, <1>5, ZenonT(30) DEF PassInv, CopyInv
<1>10. SinkInv'
  BY <1>1, <1>4, <1>6, Zenon DEF PassInv, SinkInv
<1>11. EndInv'
  BY <1>1, <1>2, <1>3, <1>4, ZenonT(30) DEF PassInv, EndInv
<1> QED BY <1>7, <1>8, <1>9, <1>10, <1>11, Zenon DEF PassInv

\* The other goroutine does.
LEMMA WatchAcknowledgedInv ==
    ASSUME PassInv, WatchAcknowledged
    PROVE  PassInv'
<1>1. /\ dst' = Acknowledge(dst) /\ copier' = copier
      /\ load' = load /\ UNCHANGED source /\ wloop' = wloop /\ received' = received
      /\ receiver' = receiver /\ watcher' = watcher /\ acker' = "done"
  BY Zenon DEF WatchAcknowledged
<1>2. sent' = sent /\ sender' = sender /\ src' = src
  BY <1>1, Zenon DEF source
<1>3. /\ IsDst(dst') /\ dst'.buf = dst.buf /\ dst'.left = dst.left
      /\ dst'.err = dst.err /\ (dst.acked => dst'.acked)
      /\ src.acked /\ dst.err = None => dst'.acked
  BY <1>1, AcknowledgeIs, Zenon DEF PassInv, Types
<1>4. Taken' = Taken
  BY <1>2, Zenon DEF Taken
<1>5. Base' = Base
  BY <1>1, <1>3, <1>4, Zenon DEF Base
<1>6. Types'
  BY <1>1, <1>2, <1>3, Zenon DEF PassInv, Types
<1>7. SrcInv' /\ CopyInv'
  BY <1>1, <1>2, <1>3, <1>4, Zenon DEF PassInv, SrcInv, CopyInv
<1>8. SinkInv'
  BY <1>1, <1>3, <1>5, Zenon DEF PassInv, SinkInv
<1>9. EndInv'
  BY <1>1, <1>2, <1>3 DEF PassInv, EndInv
<1> QED BY <1>6, <1>7, <1>8, <1>9, Zenon DEF PassInv

\* The end of the source is passed on.
LEMMA CloseWriteInv ==
    ASSUME PassInv, CloseWrite
    PROVE  PassInv'
<1>1. PICK e : e = IF dst.err = None THEN CloseErr(copier.err) ELSE dst.err
  OBVIOUS
<1>2. /\ copier.pc = "closewrite" /\ Return
      /\ load' = load /\ UNCHANGED source /\ wloop' = wloop /\ received' = received
      /\ receiver' = receiver /\ watcher' = watcher /\ acker' = acker
  BY Zenon DEF CloseWrite
<1>3. sent' = sent /\ sender' = sender /\ src' = src
  BY <1>2, Zenon DEF source
<1>4. dst' = [buf |-> dst.buf, left |-> dst.left, err |-> e, acked |-> dst.acked,
              ended |-> dst.ended]
  <2>1. dst' = [dst EXCEPT !.err = e]
    BY <1>1, Zenon DEF CloseWrite
  <2> QED BY <2>1, Zenon DEF PassInv, Types, IsDst
<1>5. /\ dst'.buf = dst.buf /\ dst'.left = dst.left /\ dst'.err = e
      /\ dst'.acked = dst.acked /\ dst'.ended = dst.ended
  BY <1>4
<1>6. /\ copier.err # None /\ copier.err = src.err /\ copier.slice.len = 0
      /\ src.buf.size = 0
  BY <1>2 DEF PassInv, CopyInv
<1>7. copier.n = 0
  BY <1>6, Numbers
<1>8. e \in Errors /\ e # None /\ (dst.err = None => e = CloseErr(src.err))
  <2>1. copier.err \in Errors /\ dst.err \in Errors
    BY Zenon DEF PassInv, Types, IsCopier, IsDst
  <2> QED BY <1>1, <1>6, <2>1, CloseErrIs, Zenon
<1>9. Taken' = Taken
  BY <1>3, Zenon DEF Taken
<1>10. Base' = Base
  BY <1>2, <1>5, <1>7, <1>9, ReturnIs, Zenon DEF Base
<1>11. Types'
  <2>1. IsDst(dst')
    BY <1>4, <1>5, <1>8, Zenon DEF PassInv, Types, IsDst
  <2> QED BY <1>2, <1>3, <2>1, ReturnIs, Zenon DEF PassInv, Types
<1>12. SrcInv'
  BY <1>3, <1>9, Zenon DEF PassInv, SrcInv
<1>13. CopyInv'
  <2>1. SliceOK(NoSlice, src.buf, Taken) /\ NoSlice.len = 0 /\ 0 <= 0
    BY Buffers, NoSliceOK
  <2> QED BY <1>2, <1>3, <1>9, <2>1, ReturnIs DEF CopyInv
<1>14. receiver # "broken" => dst.err = None
  BY <1>2 DEF PassInv, EndInv
<1>15. SinkInv'
  <2>1. receiver = "open" => ~wloop.eof
    BY <1>14, ZenonT(30) DEF PassInv, SinkInv, None
  <2> QED BY <1>2, <1>5, <1>10, <2>1, Zenon DEF PassInv, SinkInv
<1>16. EndInv'
  <2>1. receiver # "broken" => e = CloseErr(src.err) /\ (src.acked => dst.acked)
    BY <1>2, <1>8, <1>14 DEF PassInv, EndInv
  <2>2. receiver # "eof"
    BY <1>14 DEF PassInv, EndInv
  <2>3. receiver # "broken" =>
           (src.err \in {"EOF", "ECLOSED"} <=> sender \in {"closed", "cut"})
    BY Zenon DEF PassInv, EndInv
  <2> QED BY <1>2, <1>3, <1>5, <1>6, <1>8, <2>1, <2>2, <2>3, ReturnIs, ZenonT(30) DEF EndInv
<1> QED BY <1>11, <1>12, <1>13, <1>15, <1>16, Zenon DEF PassInv

\* What a step of the sink leaves of the source, if it does not open dst again.
LEMMA SourceKept ==
    ASSUME PassInv, UNCHANGED source, copier' = copier, dst.err # None => dst'.err # None
    PROVE  SrcInv' /\ CopyInv' /\ Taken' = Taken
<1>1. sent' = sent /\ sender' = sender /\ src' = src
  BY Zenon DEF source
<1>2. Taken' = Taken
  BY <1>1, Zenon DEF Taken
<1>3. SrcInv'
  BY <1>1, <1>2, Zenon DEF PassInv, SrcInv
<1>4. CopyInv'
  BY <1>1, <1>2, Zenon DEF PassInv, CopyInv
<1> QED BY <1>2, <1>3, <1>4, Zenon

\* The size of a payload.
LEMMA PayloadOK ==
    ASSUME PassInv, NEW n, n = PayloadSize, n > 0
    PROVE  n \in Nat /\ n <= dst.buf.size /\ n <= dst.left
<1>1. MaxPayload \in Nat
  BY PassthruSizes
<1>2. dst.buf.size \in Nat /\ dst.left \in Nat
  BY SinkNumbers, Zenon
<1> QED BY <1>1, <1>2 DEF PayloadSize, Least

\* The write loop peeks.
LEMMA PrepareInv ==
    ASSUME PassInv, Prepare
    PROVE  PassInv'
<1>1. PICK n : n = PayloadSize
  OBVIOUS
<1>2. PICK b : b = Contiguous(dst.buf)
  OBVIOUS
<1>3. PICK u : u = SliceOf(b, n)
  OBVIOUS
<1>4. PICK eof \in BOOLEAN : eof <=> dst.err = "ECLOSED" /\ n = b.size
  BY Zenon
<1>5. /\ wloop.pc = "idle" /\ n > 0 /\ load' = load /\ UNCHANGED source
      /\ received' = received /\ receiver' = receiver /\ copier' = copier
      /\ watcher' = watcher /\ acker' = acker
  BY <1>1, Zenon DEF Prepare
<1>6. /\ wloop' = [pc |-> "sending", slice |-> u, eof |-> eof]
      /\ dst' = [buf |-> b, left |-> dst.left - n, err |-> dst.err, acked |-> dst.acked,
                 ended |-> dst.ended]
  <2>1. wloop' = [pc |-> "sending", slice |-> u,
                  eof |-> dst.err = "ECLOSED" /\ n = b.size]
    BY <1>1, <1>2, <1>3, Zenon DEF Prepare
  <2>2. eof = (dst.err = "ECLOSED" /\ n = b.size)
    BY <1>4, Zenon
  <2>3. dst' = [dst EXCEPT !.buf = b, !.left = @ - n]
    BY <1>1, <1>2, Zenon DEF Prepare
  <2>4. dst' = [buf |-> b, left |-> dst.left - n, err |-> dst.err,
                acked |-> dst.acked, ended |-> dst.ended]
    BY <2>3, Zenon DEF PassInv, Types, IsDst
  <2> QED BY <2>1, <2>2, <2>4, Zenon
<1>7. /\ wloop'.pc = "sending" /\ wloop'.slice = u /\ wloop'.eof = eof
      /\ dst'.buf = b /\ dst'.left = dst.left - n /\ dst'.err = dst.err
      /\ dst'.acked = dst.acked /\ dst'.ended = dst.ended
  BY <1>6, ZenonT(30)
<1>8. n \in Nat /\ n <= dst.buf.size /\ n <= dst.left
  BY <1>1, <1>5, PayloadOK, ZenonT(30)
<1>9. /\ BufferOK(b) /\ Holds(b, Base) /\ b.size = dst.buf.size
      /\ b.off + b.size <= b.cap
  <2>1. Base \in Int
    BY SinkNumbers, Zenon
  <2> QED BY <1>2, <2>1, Buffers, ContiguousOK
<1>10. SliceOK(u, b, Base) /\ u.len = n
  <2>1. n <= b.size
    BY <1>8, <1>9
  <2> QED BY <1>3, <1>8, <1>9, <2>1, SliceTaken
<1>11. SrcInv' /\ CopyInv' /\ Taken' = Taken
  BY <1>5, <1>7, SourceKept, Zenon
<1>12. Base' = Base
  BY <1>5, <1>7, <1>9, <1>11, Zenon DEF Base
<1>13. Types'
  <2>1. dst.left - n \in 0 .. Window
    BY <1>8, SinkNumbers, SMTT(30)
  <2>2. IsDst(dst')
    BY <1>6, <1>7, <2>1, Zenon DEF PassInv, Types, IsDst
  <2>3. IsLoop(wloop')
    BY <1>6, <1>7, Zenon DEF IsLoop
  <2> QED BY <1>5, <2>2, <2>3, Zenon DEF PassInv, Types, source
<1>14. SinkInv'
  <2>1. u.len + (dst.left - n) <= Window /\ u.len > 0 /\ u.len \in Nat
    BY <1>5, <1>8, <1>10, SinkNumbers
  <2>2. IsSlice(u)
    BY <1>10, Zenon DEF SliceOK
  <2>3. /\ dst.buf.size <= WriteBufferSize /\ Run(received, Len(received), 0)
        /\ receiver = "open" => Len(received) = Base
    BY Zenon DEF PassInv, SinkInv
  <2> QED BY <1>4, <1>5, <1>7, <1>9, <1>10, <1>12, <2>1, <2>2, <2>3, ZenonT(30) DEF SinkInv
<1>15. EndInv'
  BY <1>5, <1>7, <1>9, Zenon DEF PassInv, EndInv, source
<1> QED BY <1>11, <1>13, <1>14, <1>15, Zenon DEF PassInv

\* When the receiver can be told EOF, it has everything.
LEMMA AllPassed ==
    ASSUME PassInv, receiver = "open", dst.err = "ECLOSED"
    PROVE  Taken = sent /\ copier.n = 0 /\ sender \in {"closed", "cut"}
<1>1. /\ src.buf.size = 0 /\ CloseErr(src.err) = "ECLOSED"
      /\ src.err \in {"EOF", "ECLOSED"} => sender \in {"closed", "cut"}
  BY DEF PassInv, EndInv, None
<1>2. src.err \in {"EOF", "ECLOSED"}
  BY <1>1, Zenon DEF CloseErr
<1>3. Taken = sent /\ copier.n = 0
  BY <1>1, Numbers
<1> QED BY <1>1, <1>2, <1>3, Zenon

\* The write loop sends.
LEMMA SendDataInv ==
    ASSUME PassInv, SendData
    PROVE  PassInv'
<1>1. PICK n : n = Least(wloop.slice.len, dst.buf.size)
  OBVIOUS
<1>2. PICK b : b = BufferDiscard(dst.buf, n)
  OBVIOUS
<1>3. PICK bytes : bytes = SliceBytes(wloop.slice, dst.buf)
  OBVIOUS
<1>4. /\ wloop.pc = "sending" /\ load' = load /\ UNCHANGED source
      /\ received' = IF receiver = "open" THEN received \o bytes ELSE received
      /\ receiver' = IF wloop.eof /\ receiver = "open" THEN "eof" ELSE receiver
      /\ wloop' = Idle /\ copier' = copier /\ watcher' = watcher /\ acker' = acker
  BY <1>3, Zenon DEF SendData, EndFor
<1>5. dst' = [buf |-> b, left |-> dst.left, err |-> dst.err, acked |-> dst.acked,
              ended |-> wloop.eof]
  <2>1. dst' = [dst EXCEPT !.buf = b, !.ended = wloop.eof]
    BY <1>1, <1>2, Zenon DEF SendData
  <2> QED BY <2>1, Zenon DEF PassInv, Types, IsDst
<1>6. /\ dst'.buf = b /\ dst'.left = dst.left /\ dst'.err = dst.err
      /\ dst'.acked = dst.acked /\ dst'.ended = wloop.eof
  BY <1>5
<1>7. /\ wloop'.pc = "idle" /\ wloop'.slice = NoSlice /\ wloop'.eof = FALSE
      /\ IsSlice(NoSlice) /\ NoSlice.len = 0 /\ IsLoop(wloop')
  BY <1>4, ZenonT(30) DEF Idle, NoSlice, IsSlice, IsLoop
<1>8. n \in Nat /\ n <= dst.buf.size
  <2>1. wloop.slice.len \in Nat /\ dst.buf.size \in Nat
    BY SinkNumbers, Zenon
  <2> QED BY <1>1, <2>1 DEF Least
<1>9. BufferOK(b) /\ Holds(b, Base + n) /\ b.size = dst.buf.size - n
  <2>1. Base \in Int
    BY SinkNumbers, Zenon
  <2> QED BY <1>2, <1>8, <2>1, Buffers, DiscardOK
<1>10. SrcInv' /\ CopyInv' /\ Taken' = Taken
  BY <1>4, <1>6, SourceKept, Zenon
<1>11. Base' = Base + n
  <2>1. Taken + copier.n - b.size = Base + n
    <3>1. /\ Taken \in Nat /\ copier.n \in Nat /\ dst.buf.size \in Nat
          /\ Base = Taken + copier.n - dst.buf.size
      BY SinkNumbers, Zenon
    <3>2. b.size = dst.buf.size - n /\ n \in Nat
      BY <1>8, <1>9, Zenon
    <3> QED BY <3>1, <3>2
  <2> QED BY <1>4, <1>6, <1>10, <2>1, Zenon DEF Base
<1>12. Types'
  <2>1. IsDst(dst')
    BY <1>5, <1>6, Zenon DEF PassInv, Types, IsDst
  <2>2. receiver' \in {"open", "eof", "broken"}
    BY <1>4 DEF PassInv, Types
  <2> QED BY <1>4, <1>7, <2>1, <2>2, Zenon DEF PassInv, Types, source
<1>13. /\ Run(received', Len(received'), 0)
       /\ receiver = "open" => Len(received') = Base + n
  <2>1. CASE receiver # "open"
    <3>1. received' = received
      BY <1>4, <2>1, Zenon
    <3> QED BY <2>1, <3>1, Zenon DEF PassInv, SinkInv
  <2>2. CASE receiver = "open"
    <3>1. SliceOK(wloop.slice, dst.buf, Base) /\ wloop.slice.len > 0
      BY <1>4, <2>2, ZenonT(30) DEF PassInv, SinkInv
    <3>2. n = wloop.slice.len
      <4>1. wloop.slice.len <= dst.buf.size /\ wloop.slice.len \in Nat
        BY <3>1, Zenon DEF SliceOK
      <4> QED BY <1>1, <4>1, SinkNumbers DEF Least
    <3>3. Run(bytes, n, Base)
      <4>1. Base \in Int
        BY SinkNumbers, Zenon
      <4>2. Run(bytes, wloop.slice.len, Base)
        BY <1>3, <3>1, <4>1, Buffers, SliceRun, ZenonT(30)
      <4> QED BY <3>2, <4>2, Zenon
    <3>4. Len(received) = Base /\ Run(received, Len(received), 0)
      BY <2>2, Zenon DEF PassInv, SinkInv
    <3>5. Base \in Nat /\ 0 + Base = Base /\ 0 \in Int
      BY <3>4, SinkNumbers
    <3>6. Run(received, Base, 0) /\ Run(bytes, n, 0 + Base)
      BY <3>3, <3>4, <3>5, Zenon
    <3>7. Run(received \o bytes, Base + n, 0)
      BY <1>8, <3>5, <3>6, RunConcat, Zenon
    <3>8. received' = received \o bytes
      BY <1>4, <2>2, Zenon
    <3>9. Len(received') = Base + n
      BY <3>7, <3>8, Zenon DEF Run
    <3> QED BY <3>7, <3>8, <3>9, Zenon
  <2> QED BY <2>1, <2>2, Zenon
<1>14. ASSUME wloop.eof, receiver = "open"
       PROVE  /\ dst.err = "ECLOSED" /\ b.size = 0 /\ sender \in {"closed", "cut"}
              /\ Len(received') = sent
  <2>1. dst.err = "ECLOSED" /\ wloop.slice.len = dst.buf.size
    BY <1>14, Zenon DEF PassInv, SinkInv
  <2>2. n = dst.buf.size
    BY <1>1, <2>1, Zenon DEF Least
  <2>3. Taken = sent /\ copier.n = 0 /\ sender \in {"closed", "cut"}
    BY <1>14, <2>1, AllPassed, Zenon
  <2>4. b.size = 0 /\ Base + n = sent
    <3>1. b.size = n - n /\ Base = sent + 0 - n
      BY <1>9, <2>2, <2>3, SinkNumbers, Zenon
    <3>2. sent \in Nat
      BY Numbers, Zenon
    <3> QED BY <1>8, <3>1, <3>2
  <2> QED BY <1>13, <1>14, <2>1, <2>3, <2>4, Zenon
<1>15. SinkInv'
  <2>1. b.size <= WriteBufferSize /\ 0 + dst.left <= Window /\ 0 \in Nat
    <3>1. /\ dst.buf.size \in Nat /\ dst.buf.size <= WriteBufferSize
          /\ WriteBufferSize \in Nat
      BY SinkNumbers, Zenon
    <3>2. b.size <= WriteBufferSize
      BY <1>8, <1>9, <3>1
    <3>3. 0 + dst.left <= Window /\ 0 \in Nat
      BY SinkNumbers
    <3> QED BY <3>2, <3>3, Zenon
  <2>2. SliceOK(NoSlice, b, Base + n)
    BY <1>9, NoSliceOK, Zenon
  <2>3. receiver' = "open" => receiver = "open"
    BY <1>4, Zenon
  <2> QED BY <1>6, <1>7, <1>9, <1>11, <1>13, <2>1, <2>2, <2>3 DEF SinkInv
<1>16. EndInv'
  <2>1. sent' = sent /\ sender' = sender /\ src' = src
    BY <1>4, Zenon DEF source
  <2>2. CASE wloop.eof /\ receiver = "open"
    <3>1. receiver' = "eof"
      BY <1>4, <2>2, Zenon
    <3> QED BY <1>4, <1>6, <1>14, <2>1, <2>2, <3>1 DEF PassInv, EndInv, None
  <2>3. CASE ~(wloop.eof /\ receiver = "open")
    <3>1. receiver' = receiver
      BY <1>4, <2>3, Zenon
    <3>2. receiver = "eof" => b.size = 0 /\ received' = received
      <4>1. receiver = "eof" => dst.buf.size = 0
        BY Zenon DEF PassInv, EndInv
      <4>2. dst.buf.size = 0 => b.size = 0
        BY <1>8, <1>9
      <4> QED BY <1>4, <4>1, <4>2
    <3> QED BY <1>4, <1>6, <2>1, <3>1, <3>2, Zenon DEF PassInv, EndInv
  <2> QED BY <2>2, <2>3, Zenon
<1> QED BY <1>10, <1>12, <1>15, <1>16, Zenon DEF PassInv

\* The write loop sends EOF or RESET.
LEMMA SendEndInv ==
    ASSUME PassInv, SendEnd
    PROVE  PassInv'
<1>1. /\ wloop.pc = "idle" /\ dst.err # None /\ dst.buf.size = 0 /\ load' = load
      /\ UNCHANGED source /\ wloop' = wloop /\ received' = received
      /\ copier' = copier /\ watcher' = watcher /\ acker' = acker
      /\ receiver' = IF receiver # "open" THEN receiver
                     ELSE IF dst.err = "ECLOSED" THEN "eof" ELSE "broken"
  BY Zenon DEF SendEnd, EndFor
<1>2. dst' = [buf |-> dst.buf, left |-> dst.left, err |-> dst.err,
              acked |-> dst.acked, ended |-> TRUE]
  <2>1. dst' = [dst EXCEPT !.ended = TRUE]
    BY Zenon DEF SendEnd
  <2> QED BY <2>1, Zenon DEF PassInv, Types, IsDst
<1>3. /\ dst'.buf = dst.buf /\ dst'.left = dst.left /\ dst'.err = dst.err
      /\ dst'.acked = dst.acked /\ dst'.ended = TRUE
  BY <1>2
<1>4. SrcInv' /\ CopyInv' /\ Taken' = Taken
  BY <1>1, <1>3, SourceKept, Zenon
<1>5. Base' = Base
  BY <1>1, <1>3, <1>4, Zenon DEF Base
<1>6. receiver' # "open"
  BY <1>1
<1>7. Types'
  <2>1. IsDst(dst')
    BY <1>2, <1>3, Zenon DEF PassInv, Types, IsDst
  <2>2. receiver' \in {"open", "eof", "broken"}
    BY <1>1 DEF PassInv, Types
  <2> QED BY <1>1, <2>1, <2>2, Zenon DEF PassInv, Types, source
<1>8. SinkInv'
  BY <1>1, <1>3, <1>5, <1>6, Zenon DEF PassInv, SinkInv
<1>9. EndInv'
  <2>1. sent' = sent /\ sender' = sender /\ src' = src
    BY <1>1, Zenon DEF source
  <2>2. CASE receiver # "open"
    <3>1. receiver' = receiver
      BY <1>1, <2>2, Zenon
    <3> QED BY <1>1, <1>3, <2>1, <3>1, Zenon DEF PassInv, EndInv
  <2>3. CASE receiver = "open" /\ dst.err = "ECLOSED"
    <3>1. receiver' = "eof"
      BY <1>1, <2>3, Zenon
    <3>2. Taken = sent /\ copier.n = 0 /\ sender \in {"closed", "cut"}
      BY <2>3, AllPassed, Zenon
    <3>3. Len(received) = sent
      <4>1. Len(received) = sent + 0 - 0
        BY <1>1, <2>3, <3>2, SinkNumbers, Zenon DEF PassInv, SinkInv
      <4> QED BY <4>1, Numbers
    <3> QED BY <1>1, <1>3, <2>1, <2>3, <3>1, <3>2, <3>3 DEF PassInv, EndInv
  <2>4. CASE receiver = "open" /\ dst.err # "ECLOSED"
    <3>1. receiver' = "broken"
      BY <1>1, <2>4, Zenon
    <3> QED BY <1>1, <1>3, <2>1, <3>1 DEF PassInv, EndInv
  <2> QED BY <2>2, <2>3, <2>4, Zenon
<1> QED BY <1>4, <1>7, <1>8, <1>9, Zenon DEF PassInv

\* The receiver returns credit.
LEMMA ReceiverReadsInv ==
    ASSUME PassInv, ReceiverReads
    PROVE  PassInv'
<1>1. /\ load' = load /\ UNCHANGED source /\ wloop' = wloop /\ received' = received
      /\ receiver' = receiver /\ copier' = copier /\ watcher' = watcher
      /\ acker' = acker
  BY Zenon DEF ReceiverReads
<1>2. dst' = [buf |-> dst.buf, left |-> Window - wloop.slice.len, err |-> dst.err,
              acked |-> dst.acked, ended |-> dst.ended]
  <2>1. dst' = [dst EXCEPT !.left = Window - wloop.slice.len]
    BY Zenon DEF ReceiverReads
  <2> QED BY <2>1, Zenon DEF PassInv, Types, IsDst
<1>3. /\ dst'.buf = dst.buf /\ dst'.left = Window - wloop.slice.len
      /\ dst'.err = dst.err /\ dst'.acked = dst.acked /\ dst'.ended = dst.ended
  BY <1>2
<1>4. SrcInv' /\ CopyInv' /\ Taken' = Taken
  BY <1>1, <1>3, SourceKept, Zenon
<1>5. Base' = Base
  BY <1>1, <1>3, <1>4, Zenon DEF Base
<1>6. /\ Window - wloop.slice.len \in 0 .. Window
      /\ wloop.slice.len + (Window - wloop.slice.len) <= Window
  <2>1. /\ Window \in Nat /\ wloop.slice.len \in Nat /\ dst.left \in Nat
        /\ wloop.slice.len + dst.left <= Window
    BY SinkNumbers, Zenon
  <2> QED BY <2>1
<1>7. Types'
  <2>1. IsDst(dst')
    BY <1>2, <1>3, <1>6, Zenon DEF PassInv, Types, IsDst
  <2> QED BY <1>1, <2>1, Zenon DEF PassInv, Types, source
<1>8. SinkInv'
  BY <1>1, <1>3, <1>5, <1>6, Zenon DEF PassInv, SinkInv
<1>9. EndInv'
  BY <1>1, <1>3, Zenon DEF PassInv, EndInv, source
<1> QED BY <1>4, <1>7, <1>8, <1>9, Zenon DEF PassInv

\* Nothing is in a buffer that was cleared.
LEMMA EmptyOK ==
    ASSUME NEW lo
    PROVE  BufferOK(EmptyBuffer) /\ Holds(EmptyBuffer, lo) /\ EmptyBuffer.size = 0
<1>1. NoMemory \in [0 .. 0 - 1 -> Nat]
  <2>1. 0 .. 0 - 1 = {}
    OBVIOUS
  <2>2. NoMemory \in [{} -> Nat]
    BY Zenon DEF NoMemory
  <2> QED BY <2>1, <2>2, Zenon
<1>2. BufferOK([mem |-> NoMemory, cap |-> 0, off |-> 0, size |-> 0])
  <2>1. 0 \in Nat /\ 0 <= 0 /\ IF 0 = 0 THEN 0 = 0 ELSE 0 < 0
    OBVIOUS
  <2> QED BY <1>1, <2>1, BufferMade, Zenon
<1>3. EmptyBuffer.size = 0 /\ 0 .. EmptyBuffer.size - 1 = {}
  BY DEF EmptyBuffer
<1> QED BY <1>2, <1>3, Zenon DEF EmptyBuffer, Holds

\* The receiver is gone, and dst is closed.
LEMMA Broken ==
    ASSUME PassInv, receiver' = "broken", dst'.err # None, IsDst(dst'),
           IsLoop(wloop'), wloop'.slice.len = wloop.slice.len, IsSlice(wloop'.slice),
           wloop'.pc = wloop.pc, wloop'.eof = wloop.eof, dst'.left = dst.left,
           BufferOK(dst'.buf), Holds(dst'.buf, Base'), dst'.buf.size <= WriteBufferSize,
           load' = load, UNCHANGED source, received' = received, copier' = copier,
           watcher' = watcher, acker' = acker
    PROVE  PassInv'
<1>1. SrcInv' /\ CopyInv' /\ Taken' = Taken
  BY SourceKept, Zenon
<1>2. Types'
  <2>1. receiver' \in {"open", "eof", "broken"}
    BY Zenon
  <2> QED BY <2>1, Zenon DEF PassInv, Types, source
<1>3. SinkInv'
  BY Zenon DEF PassInv, SinkInv
<1>4. EndInv'
  BY Zenon DEF PassInv, EndInv, source
<1> QED BY <1>1, <1>2, <1>3, <1>4, Zenon DEF PassInv

\* The receiver closes its read side.
LEMMA ReceiverClosesInv ==
    ASSUME PassInv, NEW err \in load.errs, ReceiverCloses(err)
    PROVE  PassInv'
<1>1. err \in Errors /\ err # None
  <2>1. err \in {"ECLOSED", "EAPP"}
    BY LoadsAssumption DEF PassInv, Types
  <2> QED BY <2>1 DEF Errors, Error, None
<1>2. PICK e : e = IF dst.err = None THEN err ELSE dst.err
  OBVIOUS
<1>3. PICK u : u = Kept(wloop.slice, dst.buf, TRUE)
  BY ZenonT(30)
<1>4. /\ receiver' = "broken" /\ load' = load /\ UNCHANGED source
      /\ received' = received /\ copier' = copier /\ watcher' = watcher
      /\ acker' = acker
  BY Zenon DEF ReceiverCloses
<1>5. /\ wloop' = [pc |-> wloop.pc, slice |-> u, eof |-> wloop.eof]
      /\ dst' = [buf |-> EmptyBuffer, left |-> dst.left, err |-> e,
                 acked |-> dst.acked, ended |-> dst.ended]
  <2>1. /\ wloop' = [wloop EXCEPT !.slice = u]
        /\ dst' = [dst EXCEPT !.buf = EmptyBuffer, !.err = e]
    BY <1>2, <1>3, Zenon DEF ReceiverCloses
  <2> QED BY <2>1, Zenon DEF PassInv, Types, IsDst, IsLoop
<1>6. /\ wloop'.pc = wloop.pc /\ wloop'.slice = u /\ wloop'.eof = wloop.eof
      /\ dst'.buf = EmptyBuffer /\ dst'.left = dst.left /\ dst'.err = e
      /\ dst'.acked = dst.acked /\ dst'.ended = dst.ended
  BY <1>5
<1>7. e \in Errors /\ e # None
  BY <1>1, <1>2, Zenon DEF PassInv, Types, IsDst
<1>8. IsDst(dst') /\ IsLoop(wloop')
  BY <1>5, <1>6, <1>7, Zenon DEF PassInv, Types, IsDst, IsLoop
<1>9. IsSlice(u) /\ u.len = wloop.slice.len
  <2>1. PICK own : own = SliceBytes(wloop.slice, dst.buf)
    OBVIOUS
  <2>2. u = [wloop.slice EXCEPT !.own = own]
    BY <1>3, <2>1, Zenon DEF Kept
  <2>3. u = [off |-> wloop.slice.off, len |-> wloop.slice.len, own |-> own]
    BY <2>2, Zenon DEF PassInv, SinkInv, IsSlice
  <2> QED BY <2>3 DEF IsSlice
<1>10. /\ BufferOK(EmptyBuffer) /\ Holds(EmptyBuffer, Base')
       /\ EmptyBuffer.size <= WriteBufferSize
  BY EmptyOK, PassthruSizes
<1> QED BY <1>4, <1>6, <1>7, <1>8, <1>9, <1>10, Broken, Zenon

\* The connection of dst fails.
LEMMA SinkFailsInv ==
    ASSUME PassInv, NEW err \in load.errs, SinkFails(err)
    PROVE  PassInv'
<1>1. err \in Errors /\ err # None
  <2>1. err \in {"ECLOSED", "EAPP"}
    BY LoadsAssumption DEF PassInv, Types
  <2> QED BY <2>1 DEF Errors, Error, None
<1>2. PICK e : e = IF dst.err = None THEN err ELSE dst.err
  OBVIOUS
<1>3. /\ receiver' = "broken" /\ load' = load /\ UNCHANGED source /\ wloop' = wloop
      /\ received' = received /\ copier' = copier /\ watcher' = watcher
      /\ acker' = acker
  BY Zenon DEF SinkFails
<1>4. dst' = [buf |-> dst.buf, left |-> dst.left, err |-> e,
              acked |-> dst.acked, ended |-> dst.ended]
  <2>1. dst' = [dst EXCEPT !.err = e]
    BY <1>2, Zenon DEF SinkFails
  <2> QED BY <2>1, Zenon DEF PassInv, Types, IsDst
<1>5. /\ dst'.buf = dst.buf /\ dst'.left = dst.left /\ dst'.err = e
      /\ dst'.acked = dst.acked /\ dst'.ended = dst.ended
  BY <1>4
<1>6. e \in Errors /\ e # None
  BY <1>1, <1>2, Zenon DEF PassInv, Types, IsDst
<1>7. IsDst(dst') /\ IsLoop(wloop')
  BY <1>3, <1>4, <1>5, <1>6, Zenon DEF PassInv, Types, IsDst
<1>8. Taken' = Taken
  BY <1>3, <1>5, <1>6, SourceKept, Zenon
<1>9. Base' = Base
  BY <1>3, <1>5, <1>8, Zenon DEF Base
<1>10. /\ BufferOK(dst'.buf) /\ Holds(dst'.buf, Base')
       /\ dst'.buf.size <= WriteBufferSize /\ IsSlice(wloop'.slice)
  BY <1>3, <1>5, <1>9, Zenon DEF PassInv, SinkInv
<1> QED BY <1>3, <1>5, <1>6, <1>7, <1>10, Broken, Zenon

-----------------------------------------------------------------------------
\* The invariant holds

\* It holds initially.
LEMMA PassInvInit == Init => PassInv
<1> SUFFICES ASSUME Init PROVE PassInv
  OBVIOUS
<1>1. /\ load \in Loads /\ sent = 0 /\ sender = "open" /\ receiver = "open"
      /\ src = [buf |-> EmptyBuffer, left |-> Window, err |-> None, acked |-> FALSE]
      /\ dst = [buf |-> EmptyBuffer, left |-> Window, err |-> None, acked |-> FALSE,
                ended |-> FALSE]
      /\ watcher = "waiting" /\ acker = "waiting" /\ received = <<>>
  BY Zenon DEF Init
<1>2. /\ copier = [pc |-> "peek", slice |-> NoSlice, n |-> 0, err |-> None,
                   werr |-> None]
      /\ wloop = [pc |-> "idle", slice |-> NoSlice, eof |-> FALSE]
  BY Zenon DEF Init, AtPeek, Idle
<1>3. /\ src.buf = EmptyBuffer /\ src.left = Window /\ src.err = None
      /\ src.acked = FALSE
      /\ dst.buf = EmptyBuffer /\ dst.left = Window /\ dst.err = None
      /\ dst.acked = FALSE /\ dst.ended = FALSE
  BY <1>1
<1>4. /\ copier.pc = "peek" /\ copier.slice = NoSlice /\ copier.n = 0
      /\ copier.err = None /\ copier.werr = None
      /\ wloop.pc = "idle" /\ wloop.slice = NoSlice /\ wloop.eof = FALSE
  BY <1>2
<1>5. Window \in Nat /\ WriteBufferSize \in Nat /\ load.sent \in Nat
  BY <1>1, PassthruSizes, LoadsAssumption
<1>6. /\ BufferOK(EmptyBuffer) /\ Holds(EmptyBuffer, 0) /\ EmptyBuffer.size = 0
      /\ SliceOK(NoSlice, EmptyBuffer, 0) /\ NoSlice.len = 0 /\ IsSlice(NoSlice)
  <2>1. BufferOK(EmptyBuffer) /\ Holds(EmptyBuffer, 0) /\ EmptyBuffer.size = 0
    BY EmptyOK, Zenon
  <2>2. SliceOK(NoSlice, EmptyBuffer, 0) /\ NoSlice.len = 0
    BY <2>1, NoSliceOK, Zenon
  <2> QED BY <2>1, <2>2, Zenon DEF SliceOK
<1>7. Taken = 0 /\ Base = 0
  <2>1. sent = 0 /\ src.buf.size = 0 /\ dst.buf.size = 0 /\ copier.n = 0
    BY <1>1, <1>3, <1>4, <1>6, Zenon
  <2> QED BY <2>1 DEF Taken, Base
<1>8. Types
  <2>1. 0 \in 0 .. load.sent /\ Window \in 0 .. Window /\ None \in Errors /\ 0 \in Nat
    BY <1>5 DEF Errors
  <2>2. IsSrc(src) /\ IsDst(dst)
    BY <1>1, <1>3, <2>1, Zenon DEF IsSrc, IsDst
  <2>3. IsCopier(copier) /\ IsLoop(wloop)
    BY <1>2, <1>4, <2>1, Zenon DEF IsCopier, IsLoop
  <2> QED BY <1>1, <2>1, <2>2, <2>3, Zenon DEF Types
<1>9. SrcInv
  <2>1. Window + 0 <= Window /\ Window + 0 = Window /\ 0 \in Nat
    BY <1>5
  <2> QED BY <1>1, <1>3, <1>6, <1>7, <2>1, Zenon DEF SrcInv
<1>10. CopyInv
  <2>1. 0 <= 0
    OBVIOUS
  <2> QED BY <1>3, <1>4, <1>6, <1>7, <2>1 DEF CopyInv
<1>11. SinkInv
  <2>1. 0 <= WriteBufferSize /\ 0 + Window <= Window /\ 0 \in Nat
    BY <1>5
  <2>2. Run(received, Len(received), 0) /\ Len(received) = 0
    BY <1>1 DEF Run
  <2> QED BY <1>3, <1>4, <1>6, <1>7, <2>1, <2>2, Zenon DEF SinkInv
<1>12. EndInv
  BY <1>1, <1>3, <1>4 DEF EndInv, None
<1> QED BY <1>8, <1>9, <1>10, <1>11, <1>12, Zenon DEF PassInv

\* Every step keeps it.
LEMMA PassInvNext == PassInv /\ [Next]_vars => PassInv'
<1> SUFFICES ASSUME PassInv, [Next]_vars PROVE PassInv'
  OBVIOUS
<1>1. CASE UNCHANGED vars
  <2>1. /\ load' = load /\ UNCHANGED source /\ UNCHANGED sink /\ copier' = copier
        /\ watcher' = watcher /\ acker' = acker
    BY <1>1, Zenon DEF vars
  <2>2. /\ sent' = sent /\ sender' = sender /\ src' = src /\ dst' = dst
        /\ wloop' = wloop /\ received' = received /\ receiver' = receiver
    BY <2>1, Zenon DEF source, sink
  <2>3. SrcInv' /\ CopyInv' /\ Taken' = Taken
    BY <2>1, <2>2, SourceKept, Zenon
  <2>4. Base' = Base
    BY <2>1, <2>2, <2>3, Zenon DEF Base
  <2>5. SinkInv'
    BY <2>1, <2>4, SinkKept, Zenon DEF PassInv
  <2>6. Types' /\ EndInv'
    BY <2>1, <2>2, Zenon DEF PassInv, Types, EndInv
  <2> QED BY <2>3, <2>5, <2>6, Zenon DEF PassInv
<1>2. ASSUME NEW n \in 1 .. MaxPayload, Arrive(n) PROVE PassInv'
  BY <1>2, ArriveInv, Zenon
<1>3. ASSUME NEW err \in load.errs \cup {"EOF"}, ArriveEnd(err) PROVE PassInv'
  BY <1>3, ArriveEndInv, Zenon
<1>4. ASSUME NEW err \in load.errs, ReceiverCloses(err) PROVE PassInv'
  BY <1>4, ReceiverClosesInv, Zenon
<1>5. ASSUME NEW err \in load.errs, SinkFails(err) PROVE PassInv'
  BY <1>5, SinkFailsInv, Zenon
<1>6. CASE CopyLoop
  BY <1>6, PeekInv, LockInv, WriteInv, WriteFailsInv, DiscardInv, CloseReadInv,
     AckInv, CloseWriteInv, Zenon DEF CopyLoop
<1>7. CASE WriteLoop
  BY <1>7, PrepareInv, SendDataInv, SendEndInv, Zenon DEF WriteLoop
<1> QED BY <1>1, <1>2, <1>3, <1>4, <1>5, <1>6, <1>7, ArriveAckInv, WatchWriteClosedInv,
           WatchAcknowledgedInv, ReceiverReadsInv, Zenon DEF Next

\* The inductive invariant: what is in the two rings, in the two slices that are
\* read while the rings change, and what each goroutine of passthru may rely on.
THEOREM PassInvariance == Spec => []PassInv
<1> QED BY PassInvInit, PassInvNext, PTL DEF Spec

\* The bytes that are in the two buffers and not in both.
LEMMA BufferedBound ==
    ASSUME NEW taken \in Nat, NEW size \in Nat, NEW n \in Nat, NEW dsize \in Nat,
           NEW w \in Nat, NEW b \in Nat, n <= size, size <= w, dsize <= b,
           NEW all, all = taken + size, NEW got, got = taken + n - dsize
    PROVE  all - got <= w + b
  OBVIOUS

\* What the receiver got, what dst buffers and what src buffers beyond that are
\* the bytes that arrived, for any window, buffer and payload size and any number
\* of bytes, and the server buffers a bounded number of them.
THEOREM BytesAreConserved == Spec => []BytesConserved
<1>1. ASSUME PassInv PROVE BytesConserved
  <2>1. Copied = copier.n
    <3>1. ASSUME ~Locked PROVE copier.n = 0
      <4>1. copier.pc = "lock" => copier.n = 0
        BY <1>1, Zenon DEF PassInv, CopyInv
      <4>2. copier.pc \notin {"lock", "write", "discard"} => copier.slice.len = 0
        BY <1>1, Zenon DEF PassInv, CopyInv
      <4>3. copier.slice.len = 0 => copier.n = 0
        BY <1>1, Numbers
      <4> QED BY <3>1, <4>1, <4>2, <4>3 DEF Locked
    <3> QED BY <3>1, Zenon DEF Copied
  <2>2. TypeOK
    BY <1>1, Zenon DEF PassInv, Types, IsSrc, IsDst, IsCopier, IsLoop, Errors, TypeOK
  <2>3. \A i \in DOMAIN received : received[i] = i
    <3>1. /\ received \in Seq(Nat)
          /\ \A i \in 1 .. Len(received) : received[i] = 0 + i
      BY <1>1, Zenon DEF PassInv, SinkInv, Run
    <3> QED BY <3>1
  <2>4. ASSUME receiver = "open" PROVE sent - Len(received) <= Window + WriteBufferSize
    <3>1. Len(received) = Taken + copier.n - dst.buf.size
      BY <1>1, <2>4, SinkNumbers, Zenon DEF PassInv, SinkInv
    <3>2. src.buf.size <= Window /\ copier.n <= src.buf.size
      BY <1>1, Numbers
    <3> QED BY <1>1, <3>1, <3>2, Numbers, SinkNumbers, BufferedBound, Zenon
  <2>5. ASSUME receiver = "open"
        PROVE  received \o BytesOf(dst.buf)
                        \o SubSeq(BytesOf(src.buf), Copied + 1, src.buf.size)
               = [i \in 1 .. sent |-> i]
    <3>1. PICK n \in Nat : n = Len(received)
      BY <1>1, SinkNumbers, Zenon
    <3>2. PICK k \in Nat : k = dst.buf.size
      BY <1>1, SinkNumbers, Zenon
    <3>3. n = Base /\ Run(received, n, 0) /\ Base \in Int
      BY <1>1, <2>5, <3>1, SinkNumbers, Zenon DEF PassInv, SinkInv
    <3>4. Run(BytesOf(dst.buf), k, n)
      BY <1>1, <3>2, <3>3, Buffers, BytesRun, Zenon
    <3>5. Run(received \o BytesOf(dst.buf), n + k, 0)
      <4>1. 0 + n = n /\ 0 \in Int
        OBVIOUS
      <4> QED BY <3>3, <3>4, <4>1, RunConcat, Zenon
    <3>6. PICK j \in Nat : copier.n + j = src.buf.size
      <4>1. /\ copier.n \in Nat /\ src.buf.size \in Nat /\ copier.slice.len \in Nat
            /\ copier.n <= copier.slice.len /\ copier.slice.len <= src.buf.size
        BY <1>1, Numbers, Zenon
      <4>2. src.buf.size - copier.n \in Nat
            /\ copier.n + (src.buf.size - copier.n) = src.buf.size
        BY <4>1
      <4> QED BY <4>2, Zenon
    <3>7. Run(SubSeq(BytesOf(src.buf), copier.n + 1, copier.n + j), j, Taken + copier.n)
      <4>1. Taken \in Int /\ copier.n \in Nat /\ copier.n + j <= src.buf.size
            /\ src.buf.size \in Nat
        BY <1>1, <3>6, Numbers
      <4>2. Run(BytesOf(src.buf), src.buf.size, Taken)
        BY <1>1, <4>1, Buffers, BytesRun, Zenon
      <4> QED BY <4>1, <4>2, RunPart, Zenon
    <3>8. /\ Taken + copier.n = 0 + (n + k) /\ (n + k) + j = sent /\ n + k \in Nat
          /\ 0 \in Int
      <4>1. n = Taken + copier.n - k /\ Taken \in Nat /\ copier.n \in Nat
        BY <1>1, <3>2, <3>3, SinkNumbers, Zenon
      <4>2. sent = Taken + src.buf.size
        BY <1>1, Numbers, Zenon
      <4> QED BY <3>6, <4>1, <4>2
    <3>9. Run((received \o BytesOf(dst.buf))
              \o SubSeq(BytesOf(src.buf), copier.n + 1, copier.n + j), sent, 0)
      BY <3>5, <3>7, <3>8, RunConcat, Zenon
    <3>10. sent \in Nat
      BY <1>1, Numbers, Zenon
    <3> QED BY <2>1, <3>6, <3>9, <3>10, RunIs, Zenon
  <2> QED BY <2>2, <2>3, <2>4, <2>5, Zenon DEF BytesConserved
<1> QED BY <1>1, PassInvariance, PTL

\* A receiver that is told EOF also knows that the stream was acknowledged, if it
\* was, whichever goroutine of passthru forwards it.
THEOREM AckIsForwarded == Spec => []AckForwarded
<1>1. PassInv => AckForwarded
  BY DEF PassInv, EndInv, AckForwarded
<1> QED BY <1>1, PassInvariance, PTL

\* When the copy loop of passthru returns, both sides are closed, so that the
\* Close calls that follow cut nothing off.
THEOREM ReturnsClosed == Spec => [](copier.pc = "done" => src.err # None /\ dst.err # None)
<1>1. PassInv => (copier.pc = "done" => src.err # None /\ dst.err # None)
  BY Zenon DEF PassInv, EndInv
<1> QED BY <1>1, PassInvariance, PTL

-----------------------------------------------------------------------------
\* Two joined streams are one

\* Steps that leave both ends of the stream alone.
LEMMA Stutter ==
    ASSUME sent' = sent, received' = received, sender' = sender, receiver' = receiver
    PROVE  UNCHANGED <<sent, Len(received), Writer, receiver>>
<1>1. Len(received') = Len(received) /\ Writer' = Writer
  BY Zenon DEF Writer
<1> QED BY <1>1, Zenon

\* An open receiver has at most what was sent,
Within == receiver = "open" => Len(received) <= sent

\* as the invariant says
LEMMA GotWithin == PassInv => Within
<1> SUFFICES ASSUME PassInv, receiver = "open" PROVE Len(received) <= sent
  BY DEF Within
<1>1. /\ Len(received) = Taken + copier.n - dst.buf.size
      /\ Taken \in Nat /\ copier.n \in Nat /\ dst.buf.size \in Nat
  BY SinkNumbers, Zenon DEF PassInv, SinkInv
<1>2. sent = Taken + src.buf.size /\ src.buf.size \in Nat /\ copier.n <= src.buf.size
  BY Numbers
<1> QED BY <1>1, <1>2, SMTT(30)

\* also after a step.
LEMMA GotWithinAfter == PassInv' => Within'
  BY GotWithin, PTL

\* The write loop delivers, with or without the end.
LEMMA SendDataStep ==
    ASSUME PassInv, PassInv', SendData
    PROVE  BS!BNext \/ UNCHANGED <<sent, Len(received), Writer, receiver>>
<1>1. PICK bytes : bytes = SliceBytes(wloop.slice, dst.buf)
  OBVIOUS
<1>2. /\ wloop.pc = "sending" /\ UNCHANGED source
      /\ received' = IF receiver = "open" THEN received \o bytes ELSE received
      /\ receiver' = IF wloop.eof /\ receiver = "open" THEN "eof" ELSE receiver
  BY <1>1, Zenon DEF SendData, EndFor
<1>3. sent' = sent /\ sender' = sender /\ Writer' = Writer
  BY <1>2, Zenon DEF source, Writer
<1>4. CASE receiver # "open"
  <2>1. received' = received /\ receiver' = receiver
    BY <1>2, <1>4, Zenon
  <2> QED BY <1>3, <2>1, Stutter, Zenon
<1>5. CASE receiver = "open" /\ wloop.eof
  <2>1. receiver' = "eof"
    BY <1>2, <1>5, Zenon
  <2>2. Len(received)' = sent' /\ Writer' = "closed"
    BY <2>1, Zenon DEF PassInv, EndInv, Writer
  <2>3. BS!Finish
    BY <1>3, <1>5, <2>1, <2>2, Zenon DEF BS!Finish
  <2> QED BY <2>3, Zenon DEF BS!BNext
<1>6. CASE receiver = "open" /\ ~wloop.eof
  <2>1. receiver' = receiver /\ received' = received \o bytes
    BY <1>2, <1>6, Zenon
  <2>2. /\ SliceOK(wloop.slice, dst.buf, Base) /\ wloop.slice.len > 0
        /\ wloop.slice.len \in Nat /\ received \in Seq(Nat)
    BY <1>2, <1>6, ZenonT(30) DEF PassInv, SinkInv, Run
  <2>3. bytes \in Seq(Nat) /\ Len(bytes) = wloop.slice.len
    <3>1. Base \in Int
      BY SinkNumbers, Zenon
    <3>2. Run(bytes, wloop.slice.len, Base)
      BY <1>1, <2>2, <3>1, Buffers, SliceRun, ZenonT(30)
    <3> QED BY <3>2, Zenon DEF Run
  <2>4. Len(received)' = Len(received) + Len(bytes) /\ Len(received) \in Nat
    BY <2>1, <2>2, <2>3
  <2>5. Len(received)' <= sent
    <3>1. Len(received)' <= sent'
      BY <1>6, <2>1, GotWithinAfter, Zenon DEF Within
    <3> QED BY <1>3, <3>1, Zenon
  <2>6. Len(received)' \in Len(received) + 1 .. sent
    <3>1. sent \in Nat
      BY Numbers, Zenon
    <3> QED BY <2>2, <2>3, <2>4, <2>5, <3>1
  <2>7. BS!Deliver
    BY <1>3, <1>6, <2>1, <2>6, Zenon DEF BS!Deliver
  <2> QED BY <2>7, Zenon DEF BS!BNext
<1> QED BY <1>4, <1>5, <1>6, Zenon

\* Every step is one of ByteStream or changes nothing there.
LEMMA ProxyStep ==
    ASSUME PassInv, PassInv', [Next]_vars
    PROVE  [BS!BNext]_<<sent, Len(received), Writer, receiver>>
<1>1. ASSUME NEW n \in 1 .. MaxPayload, Arrive(n) PROVE BS!Accept
  <2>1. /\ src.err = None /\ sent' = sent + n /\ sender' = sender
        /\ received' = received /\ receiver' = receiver
    BY <1>1, Zenon DEF Arrive, sink
  <2>2. Writer = "open" /\ Writer' = Writer
    BY <2>1 DEF PassInv, SrcInv, Writer
  <2>3. sent + n \in Nat /\ sent + n > sent
    BY PassthruSizes, Numbers
  <2> QED BY <2>1, <2>2, <2>3, Zenon DEF BS!Accept
<1>2. ASSUME NEW err \in load.errs \cup {"EOF"}, ArriveEnd(err) PROVE BS!StopWriting
  <2>1. /\ src.err = None /\ sent' = sent
        /\ sender' = IF err = "EOF" THEN "closed"
                     ELSE IF err = "ECLOSED" THEN "cut" ELSE "broken"
        /\ received' = received /\ receiver' = receiver
    BY <1>2, Zenon DEF ArriveEnd, sink
  <2>2. Writer = "open" /\ Writer' \in {"closed", "broken"}
    BY <2>1 DEF PassInv, SrcInv, Writer
  <2> QED BY <2>1, <2>2, Zenon DEF BS!StopWriting
<1>3. CASE SendData
  BY <1>3, SendDataStep, Zenon
<1>4. CASE SendEnd
  <2>1. /\ dst.err # None /\ UNCHANGED source /\ received' = received
        /\ receiver' = IF receiver # "open" THEN receiver
                       ELSE IF dst.err = "ECLOSED" THEN "eof" ELSE "broken"
    BY <1>4, Zenon DEF SendEnd, EndFor
  <2>2. sent' = sent /\ sender' = sender /\ Writer' = Writer
    BY <2>1, Zenon DEF source, Writer
  <2>3. CASE receiver # "open"
    BY <2>1, <2>2, <2>3, Stutter, Zenon
  <2>4. CASE receiver = "open" /\ dst.err = "ECLOSED"
    <3>1. receiver' = "eof"
      BY <2>1, <2>4, Zenon
    <3>2. Len(received)' = sent' /\ Writer' = "closed"
      BY <3>1, Zenon DEF PassInv, EndInv, Writer
    <3>3. BS!Finish
      BY <2>2, <2>4, <3>1, <3>2, Zenon DEF BS!Finish
    <3> QED BY <3>3, Zenon DEF BS!BNext
  <2>5. CASE receiver = "open" /\ dst.err # "ECLOSED"
    <3>1. BS!StopReading
      BY <2>1, <2>2, <2>5, Zenon DEF BS!StopReading
    <3> QED BY <3>1, Zenon DEF BS!BNext
  <2> QED BY <2>3, <2>4, <2>5, Zenon
<1>5. ASSUME NEW err, ReceiverCloses(err) \/ SinkFails(err) PROVE BS!StopReading
  BY <1>5, Zenon DEF ReceiverCloses, SinkFails, source, Writer, BS!StopReading
<1>6. CASE UNCHANGED vars
  BY <1>6, Stutter, Zenon DEF vars, source, sink
<1>7. CASE CopyLoop
  BY <1>7, Stutter, Zenon DEF CopyLoop, Peek, Lock, Write, WriteFails, Discard,
                              CloseRead, Ack, CloseWrite, source, sink
<1>8. CASE ArriveAck \/ WatchWriteClosed \/ WatchAcknowledged \/ Prepare \/ ReceiverReads
  BY <1>8, Stutter, Zenon DEF ArriveAck, WatchWriteClosed, WatchAcknowledged, Prepare,
                              ReceiverReads, source, sink
<1> QED BY <1>1, <1>2, <1>3, <1>4, <1>5, <1>6, <1>7, <1>8, Zenon
        DEF Next, WriteLoop, BS!BNext

\* Refinement: two streams joined by passthru implement ByteStream, for all sizes,
\* numbers of bytes and ways to end, where a sender whose connection ended with
\* io.EOF is one that closed.
THEOREM ProxyRefines == Spec => ProxyIsByteStream
<1>1. Init => BS!BInit
  <2> SUFFICES ASSUME Init PROVE BS!BInit
    OBVIOUS
  <2>1. Len(received) = 0
    BY DEF Init
  <2>2. Writer = "open"
    BY DEF Init, Writer
  <2> QED BY <2>1, <2>2, Zenon DEF Init, BS!BInit
<1>2. PassInv /\ PassInv' /\ [Next]_vars =>
         [BS!BNext]_<<sent, Len(received), Writer, receiver>>
  BY ProxyStep
<1> QED BY <1>1, <1>2, PassInvariance, PTL DEF Spec, ProxyIsByteStream, BS!BSpec,
           BS!bvars

=============================================================================
