----------------------------- MODULE BlockStore -----------------------------
(***************************************************************************)
(* What the buffer cache promises the file system: every disk block has    *)
(* one value, and bread ... brelse is exclusive use of it.  BCache         *)
(* implements this specification.                                          *)
(***************************************************************************)
CONSTANTS Procs, Blocks, Vals, Nobody

VARIABLES store,    \* store[k]: the contents of block k
          owner     \* owner[k]: the process between bread and brelse of k

Init ==
  /\ store \in [Blocks -> Vals]
  /\ owner = [k \in Blocks |-> Nobody]

Bread(p, k) ==
  /\ owner[k] = Nobody
  /\ owner' = [owner EXCEPT ![k] = p]
  /\ UNCHANGED store

Bwrite(p, k, v) ==
  /\ owner[k] = p
  /\ store' = [store EXCEPT ![k] = v]
  /\ UNCHANGED owner

Brelse(p, k) ==
  /\ owner[k] = p
  /\ owner' = [owner EXCEPT ![k] = Nobody]
  /\ UNCHANGED store

Next ==
  \E p \in Procs, k \in Blocks :
    Bread(p, k) \/ Brelse(p, k) \/ \E v \in Vals : Bwrite(p, k, v)

Spec == Init /\ [][Next]_<<store, owner>>
=============================================================================
