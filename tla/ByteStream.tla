----------------------------- MODULE ByteStream -----------------------------
(***************************************************************************)
(* What one direction of a copper stream promises to the two applications: *)
(* bytes arrive in the order they were written and none is invented, and a *)
(* reader that is told io.EOF has got all of them from a writer that       *)
(* closed normally.  Either side may give up at any time.                  *)
(***************************************************************************)
EXTENDS Integers

VARIABLES written,    \* bytes accepted by Write
          delivered,  \* bytes made available to Read
          writer,     \* open, closed (with ECLOSED) or broken
          reader      \* open, eof (with io.EOF) or broken

bvars == <<written, delivered, writer, reader>>

BInit ==
    /\ written = 0 /\ delivered = 0
    /\ writer = "open" /\ reader = "open"

Accept ==
    /\ writer = "open"
    /\ written' \in Nat /\ written' > written
    /\ UNCHANGED <<delivered, writer, reader>>

StopWriting ==
    /\ writer = "open"
    /\ writer' \in {"closed", "broken"}
    /\ UNCHANGED <<written, delivered, reader>>

Deliver ==
    /\ reader = "open"
    /\ delivered' \in delivered + 1 .. written
    /\ UNCHANGED <<written, writer, reader>>

\* The last bytes, if any, come together with the end of the stream.
Finish ==
    /\ reader = "open" /\ writer = "closed"
    /\ delivered' = written
    /\ reader' = "eof"
    /\ UNCHANGED <<written, writer>>

StopReading ==
    /\ reader = "open"
    /\ reader' = "broken"
    /\ UNCHANGED <<written, delivered, writer>>

\* One step of the program may stop both directions, that is the reader of one
\* and the writer of the other, but never both ends of the same direction.
BNext == Accept \/ StopWriting \/ Deliver \/ Finish \/ StopReading

BSpec == BInit /\ [][BNext]_bvars
=============================================================================
