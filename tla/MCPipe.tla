------------------------------- MODULE MCPipe -------------------------------
(* Model values for Pipe. *)
EXTENDS Pipe

CONSTANTS p1, p2, b1, b2

MCProcs == {p1, p2}
MCBytes == {b1, b2}
=============================================================================
