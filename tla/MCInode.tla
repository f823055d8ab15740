------------------------------ MODULE MCInode ------------------------------
(* Two processes making calls on a small tree. *)
EXTENDS Inode

Abs(e) == [abs |-> TRUE, elems |-> e]
Rel(e) == [abs |-> FALSE, elems |-> e]
Symmetry == Permutations(Procs)

Nowhere == Rel(<<>>)

Call(op, path) == [op |-> op, path |-> path, path2 |-> Nowhere]

MCCalls ==
  {Call("mkdir", Abs(<<"a">>)), Call("unlink", Abs(<<"a">>)),
   Call("unlink", Rel(<<"..">>)),
   Call("open", Abs(<<"a">>)), Call("chdir", Abs(<<"a">>)), Call("create", Rel(<<"b">>)),
   [op |-> "link", path |-> Rel(<<"b">>), path2 |-> Rel(<<"a">>)]}
=============================================================================
