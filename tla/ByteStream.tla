----------------------------- MODULE ByteStream -----------------------------
(***************************************************************************)
(* What a pipe promises: a stream of bytes of bounded length.  A write     *)
(* appends, a read takes bytes off the front, nothing is lost, duplicated  *)
(* or reordered between them.                                              *)
(***************************************************************************)
EXTENDS Naturals, Sequences

CONSTANTS Bytes, Capacity

VARIABLES stream,   \* bytes written and not yet read, oldest first
          got       \* what a read has just returned

Init == stream = <<>> /\ got = <<>>

Put ==
  /\ \E k \in 0 .. Capacity - Len(stream) : \E s \in [1 .. k -> Bytes] :
       stream' = stream \o s
  /\ got' = <<>>

Get ==
  \E k \in 0 .. Len(stream) :
    /\ got' = SubSeq(stream, 1, k)
    /\ stream' = SubSeq(stream, k + 1, Len(stream))

Next == Put \/ Get

Spec == Init /\ [][Next]_<<stream, got>>
=============================================================================
