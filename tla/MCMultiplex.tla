----------------------------- MODULE MCMultiplex -----------------------------
(***************************************************************************)
(* An instance of Multiplex for TLC.                                       *)
(***************************************************************************)
EXTENDS Multiplex

\* Two pings with the same data.
MCPing == {1, 2}
MCPingData == [p \in MCPing |-> 1]

Load(open, P, n, m, fail) ==
    [open |-> open, ping |-> P, pings |-> n, settings |-> m, fail |-> fail]

\* Three streams, so that a ring grows while it wraps around and ids run out;
\* two streams and a failure; a stream and pings; pings and SETTINGS.
MCLoads == {Load(3, {}, 0, 0, FALSE), Load(2, {}, 0, 0, TRUE),
            Load(1, MCPing, 1, 0, TRUE), Load(0, MCPing, 2, 1, TRUE)}
=============================================================================
