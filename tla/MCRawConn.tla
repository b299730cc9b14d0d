------------------------------ MODULE MCRawConn ------------------------------
(***************************************************************************)
(* Instances of RawConn for TLC: what the two applications may do.         *)
(***************************************************************************)
EXTENDS RawConnProperties, TLC

PerSide(c, s) == ("client" :> c) @@ ("server" :> s)

\* The client uploads and closes, the server reads.
UploadCalls == PerSide({"Write", "Flush", "CloseWrite", "SetDeadline"},
                       {"Read", "Acknowledge", "SetDeadline"})
UploadBytes == PerSide(3, 0)

\* Both sides close in different ways.
CloseCalls == PerSide({"Write", "Close"}, {"CloseRead", "CloseWrite"})
CloseBytes == PerSide(1, 0)

\* Connections fail around an upload that the server may refuse.
FaultCalls == PerSide({"Write"}, {"Close"})

\* Every way to close while the connection shuts down.
RemovalCalls == PerSide({"Write", "CloseWrite", "Close"}, {"Close"})
=============================================================================
