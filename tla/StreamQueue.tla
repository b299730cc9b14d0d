----------------------------- MODULE StreamQueue -----------------------------
(***************************************************************************)
(* rawStreamQueue (rawstream_queue.go): a queue of streams in a ring that  *)
(* grows.  A queue is a record of the fields of the struct; the slots of   *)
(* the ring are numbered from 0 as in the code.                            *)
(***************************************************************************)
EXTENDS RingBuffer

Nil == 0   \* the nil pointer

EmptyQueue == [buf |-> [i \in {} |-> Nil], cap |-> 0, off |-> 0, size |-> 0]

\* Mutant: a ring that wraps is copied as if it did not.
GrowUnwrapped(q) ==
    LET n == MinPow2(q.cap + 1)
    IN [q EXCEPT !.buf = [i \in 0 .. n - 1 |-> IF i < q.cap THEN q.buf[i]
                                               ELSE Nil],
                 !.cap = n, !.off = 0]

\* A larger ring, with the elements in its first slots.
Grow(q) ==
    LET n == MinPow2(q.cap + 1)
    IN [q EXCEPT !.buf = [i \in 0 .. n - 1 |->
                             IF i < q.size THEN q.buf[(q.off + i) % q.cap]
                             ELSE Nil],
                 !.cap = n, !.off = 0]

\* The slot of the i-th element after the oldest.
Slot(q, i) == IF q.off + i >= q.cap THEN q.off + i - q.cap ELSE q.off + i

Push(queue, s) ==
    LET q == IF queue.size = queue.cap THEN Grow(queue) ELSE queue
    IN [q EXCEPT !.buf[Slot(q, q.size)] = s, !.size = @ + 1]

\* What take returns, and the queue it leaves behind.
Oldest(q) == q.buf[q.off]

Take(q) ==
    [q EXCEPT !.buf[q.off] = Nil,
              !.off = IF q.off + 1 = q.cap \/ q.size = 1 THEN 0 ELSE @ + 1,
              !.size = @ - 1]

\* The elements in the order in which take returns them.
Contents(q) == [i \in 1 .. q.size |-> q.buf[(q.off + i - 1) % q.cap]]
=============================================================================
