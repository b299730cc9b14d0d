----------------------------- MODULE RingBuffer -----------------------------
(***************************************************************************)
(* The dynamic ring buffer that streams keep their data in (buffer.go), as *)
(* a record of the fields of the struct; mem is the memory of the slice    *)
(* buf, its slots numbered from 0.  What matters is where the bytes are:   *)
(* peek hands out a slice of mem that is used after the lock is released.  *)
(***************************************************************************)
EXTENDS Integers, Sequences

\* A number whose only odd divisor is 1.
IsPow2(p) == \A d, k \in 1 .. p : d * k = p => d = 1 \/ d % 2 = 0

\* The power of two from n on, and 0 for 0 (minpow2).
MinPow2(n) == IF n = 0 THEN 0 ELSE CHOOSE p \in n .. 2 * n - 1 : IsPow2(p)

NoMemory == [i \in {} |-> 0]
EmptyBuffer == [mem |-> NoMemory, cap |-> 0, off |-> 0, size |-> 0]

\* The bytes in the order in which they were written.
BytesOf(b) == [i \in 1 .. b.size |-> b.mem[(b.off + i - 1) % b.cap]]

\* New memory of n slots that starts with the bytes of the buffer.
Reallocate(b, n) ==
    LET s == BytesOf(b)
    IN [mem |-> [i \in 0 .. n - 1 |-> IF i < b.size THEN s[i + 1] ELSE 0],
        cap |-> n, off |-> 0, size |-> b.size]

\* write needs new memory
Grows(b, n) == b.size + n > b.cap

\* copy of the bytes s to the free slots that follow the data
Put(b, s) ==
    LET end == b.off + b.size
    IN [b EXCEPT !.mem = [i \in DOMAIN @ |->
                             LET k == (i - end) % b.cap
                             IN IF k < Len(s) THEN s[k + 1] ELSE @[i]],
                 !.size = @ + Len(s)]

BufferWrite(b, s) ==
    Put(IF Grows(b, Len(s)) THEN Reallocate(b, MinPow2(b.size + Len(s))) ELSE b, s)

\* The data continues at slot 0; peek moves it to make it contiguous.
Wraps(b) == b.off + b.size > b.cap
Crowded(b) == Wraps(b) /\ b.size * 2 > b.cap

\* Mutant: the two parts change places.
MoveSwapped(b) ==
    LET end == b.off + b.size - b.cap
        n   == b.cap - b.off
    IN [b EXCEPT !.mem = [i \in DOMAIN @ |->
                             IF i \in end .. end + n - 1 THEN @[b.off + i - end]
                             ELSE @[i]],
                 !.off = 0]

\* There is room for the data between its two parts: first the older part is
\* copied behind the newer one, then the newer one behind that.
Move(b) ==
    LET end == b.off + b.size - b.cap
        n   == b.cap - b.off
    IN [b EXCEPT !.mem = [i \in DOMAIN @ |->
                             IF i \in end .. end + n - 1 THEN @[b.off + i - end]
                             ELSE IF i \in end + n .. 2 * end + n - 1
                             THEN @[i - end - n]
                             ELSE @[i]],
                 !.off = end]

\* The buffer that peek leaves behind, whose data is contiguous.
Contiguous(b) ==
    IF Crowded(b) THEN Reallocate(b, 2 * b.cap)
    ELSE IF Wraps(b) THEN Move(b) ELSE b

\* discard, which leaves off where it is when nothing is left
BufferDiscard(b, n) ==
    IF n > b.size THEN [b EXCEPT !.off = 0, !.size = 0]
    ELSE [b EXCEPT !.off = IF @ + n >= b.cap THEN @ + n - b.cap ELSE @ + n,
                   !.size = @ - n]

-----------------------------------------------------------------------------
\* A slice of n bytes of the buffer's memory, as peek returns it.  It shares
\* the memory until the buffer gets other memory; own then holds its bytes.

SliceOf(b, n) == [off |-> b.off, len |-> n, own |-> <<>>]
NoSlice == [off |-> 0, len |-> 0, own |-> <<>>]

SliceBytes(sl, b) ==
    IF sl.own # <<>> THEN sl.own
    ELSE [i \in 1 .. sl.len |-> b.mem[sl.off + i - 1]]

\* The slice after the buffer it was taken from got new memory, if it did.
Kept(sl, b, realloc) ==
    IF realloc THEN [sl EXCEPT !.own = SliceBytes(sl, b)] ELSE sl
=============================================================================
