------------------------------ MODULE StreamIDs ------------------------------
(***************************************************************************)
(* How a connection chooses ids for the streams it opens                   *)
(* (rawconn_streams.go): allocateLocked scans upwards by two from where it *)
(* stopped last time, wraps around once and gives up the second time.      *)
(* Streams leave the map of live streams in any order.                     *)
(*                                                                         *)
(* allocateLocked holds conn.mu throughout; a step is one turn of its loop *)
(* and no stream leaves in between.                                        *)
(***************************************************************************)
EXTENDS Integers

CONSTANTS MaxStreamID,  \* 2^31 - 1 in the program, a mask of ones
          First         \* 1 on a client's connection, 2 on a server's

ASSUME StreamIDParameters ==
    /\ MaxStreamID \in Nat /\ MaxStreamID >= 3 /\ MaxStreamID % 2 = 1
    /\ First \in {1, 2}

VARIABLES next,      \* streams.next
          live,      \* ids of the connection's own streams in streams.live
          scanning,  \* allocateLocked is in its loop
          wrapped    \* its local variable

idVars == <<next, live, scanning, wrapped>>

IDInit ==
    /\ next = First /\ live = {}
    /\ scanning = FALSE /\ wrapped = FALSE

\* Mutant: the ids start again at 2, whichever side it is.
WrapToTwo(n) == 2

\* next &= MaxStreamID, where 0 is never used as an id
Wrap(n) == LET m == n % (MaxStreamID + 1) IN IF m = 0 THEN 2 ELSE m

\* The candidate of a turn is next, which moves on before the id is looked up.
Beyond == next + 2 > MaxStreamID
Advance == next' = IF Beyond THEN Wrap(next + 2) ELSE next + 2
CanTry == scanning /\ ~(Beyond /\ wrapped)

Allocate ==
    /\ ~scanning
    /\ scanning' = TRUE
    /\ UNCHANGED <<next, live, wrapped>>

\* ErrNoFreeStreamID
GiveUp ==
    /\ scanning /\ Beyond /\ wrapped
    /\ next' = next + 2
    /\ scanning' = FALSE /\ wrapped' = FALSE
    /\ UNCHANGED live

Found ==
    /\ CanTry /\ next \notin live
    /\ Advance
    /\ live' = live \cup {next}
    /\ scanning' = FALSE /\ wrapped' = FALSE

InUse ==
    /\ CanTry /\ next \in live
    /\ Advance
    /\ wrapped' = (wrapped \/ Beyond)
    /\ UNCHANGED <<live, scanning>>

\* streams.remove
RemoveID(id) ==
    /\ ~scanning /\ id \in live
    /\ live' = live \ {id}
    /\ UNCHANGED <<next, scanning, wrapped>>

IDNext ==
    Allocate \/ GiveUp \/ Found \/ InUse \/ \E id \in live : RemoveID(id)

IDSpec == IDInit /\ [][IDNext]_idVars

-----------------------------------------------------------------------------
\* Every id has the parity of its side, through any number of wraparounds and
\* failed allocations, so both ends of a connection never choose the same id
\* and isOwnedID recognises its own.
OwnIDs ==
    /\ next % 2 = First % 2
    /\ \A id \in live : id % 2 = First % 2

\* Stream ids are "31-bit unsigned" (PROTOCOL.md) and next "wraps around 2^31".
IDsFit == \A id \in live : id <= MaxStreamID
=============================================================================
