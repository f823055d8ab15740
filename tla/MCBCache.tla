------------------------------ MODULE MCBCache ------------------------------
(* Model values for BCache: two or three buffers, three blocks of which    *)
(* one is an indirect block.                                               *)
EXTENDS BCache

CONSTANTS p1, p2, k1, k2, k3, v1, v2

MCProcs    == {p1, p2}
MCKillable == {p1}
NoneKilled == {}
MCBlocks   == {k1, k2, k3}
MCIndirect == {k1}
MCVals     == {v1, v2}
MCVal      == {v1}
=============================================================================
