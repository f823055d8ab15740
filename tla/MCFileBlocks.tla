---------------------------- MODULE MCFileBlocks ----------------------------
(* The root and two files, one of which may be in the image, on a disk too  *)
(* small for all of them at full size.                                      *)
EXTENDS FileBlocks, TLC

MCPrograms == {<<>>, <<<<8, 9, 9>>>>}
MCSources == {<<6, 7, 7>>}
Symmetry == Permutations(Files)
=============================================================================
