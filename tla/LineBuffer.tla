----------------------------- MODULE LineBuffer -----------------------------
(***************************************************************************)
(* What the console promises programs about their input: a line being      *)
(* edited, and a queue of finished characters, each of which goes to one   *)
(* reader, in order.  Only the line can still be edited.                   *)
(***************************************************************************)
EXTENDS Naturals, Sequences, SequencesExt

CONSTANTS Readers, Chars, Capacity

VARIABLES ready,       \* finished, not yet read
          line,        \* being edited
          got          \* got[p]: what the read of p has returned so far

vars == <<ready, line, got>>

Init == ready = <<>> /\ line = <<>> /\ got = [p \in Readers |-> <<>>]

\* A character ends the line if it is a newline or end of file, or if there
\* is no room for another one.
Type(c) ==
  /\ Len(ready) + Len(line) < Capacity
  /\ LET ends == c \in {"nl", "eof"} \/ Len(ready) + Len(line) + 1 = Capacity
     IN  IF ends THEN ready' = ready \o Append(line, c) /\ line' = <<>>
         ELSE line' = Append(line, c) /\ UNCHANGED ready
  /\ UNCHANGED got

Erase == line # <<>> /\ line' = Front(line) /\ UNCHANGED <<ready, got>>

EraseLine == line' = <<>> /\ UNCHANGED <<ready, got>>

StartRead(p) == got' = [got EXCEPT ![p] = <<>>] /\ UNCHANGED <<ready, line>>

\* Take the next characters, none of them an end of file, and no more than to
\* the end of a line; or eat an end of file with nothing read before it.
Read(p) ==
  \/ \E k \in 1 .. Len(ready) :
       /\ \A i \in 1 .. k : ready[i] # "eof" /\ (ready[i] = "nl" => i = k)
       /\ got' = [got EXCEPT ![p] = @ \o SubSeq(ready, 1, k)]
       /\ ready' = SubSeq(ready, k + 1, Len(ready))
       /\ UNCHANGED line
  \/ /\ ready # <<>> /\ Head(ready) = "eof" /\ got[p] = <<>>
     /\ ready' = Tail(ready)
     /\ UNCHANGED <<line, got>>

Next ==
  \/ \E c \in Chars : Type(c)
  \/ Erase \/ EraseLine
  \/ \E p \in Readers : StartRead(p) \/ Read(p)

Spec == Init /\ [][Next]_vars
=============================================================================
