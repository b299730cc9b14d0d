----------------------------- MODULE MCPassthru -----------------------------
(***************************************************************************)
(* An instance of Passthru for TLC.                                        *)
(***************************************************************************)
EXTENDS Passthru

Load(n, ack, errs) == [sent |-> n, ack |-> ack, errs |-> errs]

\* Enough bytes for both rings to wrap around, move and grow; a receiver that
\* closes in the middle; acknowledgements and failures around a few bytes.
MCLoads == {Load(6, FALSE, {}), Load(3, FALSE, {"ECLOSED"}),
            Load(2, TRUE, {"ECLOSED", "EAPP"})}
=============================================================================
