------------------------------ MODULE Console ------------------------------
(***************************************************************************)
(* Console input and output: consoleintr, consoleread and consolewrite of  *)
(* console.c, and the serial port's receive interrupt in scif.c.           *)
(*                                                                         *)
(* Input goes through a ring of INPUT_BUF characters with three unsigned   *)
(* indices; r, w and e wrap round at UMod (2^32).  consoleintr handles one *)
(* character per step, with input.lock held; a section of consoleread      *)
(* between two sleeps is one step.  Both calls enter with the inode of the *)
(* console locked, release it and lock it again before they return.        *)
(***************************************************************************)
EXTENDS Integers, Sequences, FiniteSets, FiniteSetsExt

CONSTANTS Procs, Chars, INPUT_BUF, UMod, Sizes

ASSUME ConsoleAssumption ==
  /\ INPUT_BUF \in Nat \ {0} /\ UMod % INPUT_BUF = 0 /\ UMod > INPUT_BUF /\ Sizes \subseteq Nat
  /\ {"nl", "eof"} \subseteq Chars /\ Chars \cap {"kill", "bs", "none"} = {}

VARIABLES r, w, e, buf,
          pc,          \* pc[p]: where p is in its call
          n, target,   \* n[p], target[p]: consoleread's
          got,         \* got[p]: what dst holds
          killed,
          holder       \* who has the console's inode locked, or "none"

input == <<r, w, e, buf>>
vars == <<input, pc, n, target, got, killed, holder>>

Minus(a, b) == (a - b) % UMod
Plus(a, b) == (a + b) % UMod
At(i) == buf[i % INPUT_BUF]

\* wakeup(&input.r), and one that is left out.
NoWakeup == UNCHANGED pc
Wakeup == pc' = [p \in Procs |-> IF pc[p] = "asleep" THEN "read" ELSE pc[p]]

\* The code leaves the slots outside r .. e as they are and reads none of them
\* before it stores into it; the model forgets them, to have fewer states.
Kept(b, from, to) ==
  [i \in 0 .. INPUT_BUF - 1 |->
     IF \E k \in 0 .. INPUT_BUF - 1 : k < Minus(to, from) /\ Plus(from, k) % INPUT_BUF = i
     THEN b[i] ELSE "none"]

-----------------------------------------------------------------------------
(* consoleintr *)

\* A test for room that is off by one.
RoomOff == Minus(e, r) <= INPUT_BUF
Room == Minus(e, r) < INPUT_BUF

\* An ordinary character, newline or ^D; dropped if the ring is full.
Default(c) ==
  /\ Room
  /\ buf' = [buf EXCEPT ![e % INPUT_BUF] = c]
  /\ e' = Plus(e, 1)
  /\ LET ends == c \in {"nl", "eof"} \/ e' = Plus(r, INPUT_BUF)
     IN  IF ends THEN w' = e' /\ Wakeup ELSE UNCHANGED <<w, pc>>
  /\ UNCHANGED <<r, n, target, got, killed, holder>>

Backspace ==
  /\ e # w
  /\ e' = Minus(e, 1) /\ buf' = Kept(buf, r, e')
  /\ UNCHANGED <<r, w, pc, n, target, got, killed, holder>>

\* ^U: back to w, or to a newline on the way (there is none).
KillLine ==
  LET back == {k \in 0 .. Minus(e, w) :
                 /\ k < Minus(e, w) => At(Minus(Minus(e, k), 1)) = "nl"
                 /\ \A j \in 0 .. k - 1 : At(Minus(Minus(e, j), 1)) # "nl"}
  IN  /\ e # w
      /\ e' = Minus(e, Min(back)) /\ buf' = Kept(buf, r, e')
      /\ UNCHANGED <<r, w, pc, n, target, got, killed, holder>>

-----------------------------------------------------------------------------
(* consoleread *)

HolderGone(p) == "none"

\* The call, from readi with the inode locked: iunlock(ip), target = n.
Consoleread(p, k) ==
  /\ pc[p] = "idle" /\ holder = "none"
  /\ pc' = [pc EXCEPT ![p] = "read"]
  /\ n' = [n EXCEPT ![p] = k] /\ target' = [target EXCEPT ![p] = k]
  /\ got' = [got EXCEPT ![p] = <<>>]
  /\ holder' = HolderGone(p)
  /\ UNCHANGED <<input, killed>>

Take(p, k) == got' = [got EXCEPT ![p] = @ \o [i \in 1 .. k |-> At(Plus(r, i - 1))]]
Return(p) == pc' = [pc EXCEPT ![p] = "relock"]

\* Whether a reader with nothing to read gives up.
GiveUp(p) == killed[p]

\* Whether ^D stays for the next read.
KeepEofNever(p, left) == FALSE
KeepEof(p, left) == left < target[p]

\* With input.lock held, from the test r == w to the end or to sleep.
ReadLoop(p) ==
  LET k == Min({n[p], Minus(w, r)})
      ends == {i \in 0 .. k - 1 : At(Plus(r, i)) \in {"nl", "eof"}}
      i == Min(ends)
      eof == At(Plus(r, i)) = "eof"
  IN  /\ pc[p] = "read"
      /\ \/ /\ n[p] > 0 /\ r = w /\ GiveUp(p)
            /\ Return(p) /\ UNCHANGED <<r, n, got>>
         \/ /\ n[p] > 0 /\ r = w /\ ~GiveUp(p)
            /\ pc' = [pc EXCEPT ![p] = "asleep"] /\ UNCHANGED <<r, n, got>>
         \/ /\ n[p] = 0 \/ r # w
            /\ ends = {}
            /\ r' = Plus(r, k) /\ Take(p, k) /\ n' = [n EXCEPT ![p] = @ - k]
            /\ IF k = n[p] \/ GiveUp(p) THEN Return(p) ELSE pc' = [pc EXCEPT ![p] = "asleep"]
         \/ /\ ends # {} /\ ~eof
            /\ r' = Plus(r, i + 1) /\ Take(p, i + 1) /\ n' = [n EXCEPT ![p] = @ - (i + 1)]
            /\ Return(p)
         \/ /\ ends # {} /\ eof
            /\ r' = IF KeepEof(p, n[p] - i) THEN Plus(r, i) ELSE Plus(r, i + 1)
            /\ Take(p, i) /\ n' = [n EXCEPT ![p] = @ - i]
            /\ Return(p)
      /\ buf' = Kept(buf, r', e)
      /\ UNCHANGED <<w, e, target, killed, holder>>

\* ilock(ip) again, and the caller's iunlock.  A killed process exits after its
\* call, and another one takes its place.
Relock(p) ==
  /\ pc[p] = "relock" /\ holder \in {"none", p}
  /\ pc' = [pc EXCEPT ![p] = "idle"]
  /\ n' = [n EXCEPT ![p] = 0] /\ target' = [target EXCEPT ![p] = 0]
  /\ got' = [got EXCEPT ![p] = <<>>]
  /\ killed' = [killed EXCEPT ![p] = FALSE]
  /\ holder' = "none"
  /\ UNCHANGED input

-----------------------------------------------------------------------------
(* consolewrite: the inode is locked when it is called, and again after the  *)
(* output under cons.lock.                                                   *)

Consolewrite(p) ==
  /\ pc[p] = "idle"
  /\ pc' = [pc EXCEPT ![p] = "write"]
  /\ UNCHANGED <<input, n, target, got, killed, holder>>

WriteOut(p) ==
  /\ pc[p] = "write" /\ holder = "none"
  /\ pc' = [pc EXCEPT ![p] = "relock"]
  /\ UNCHANGED <<input, n, target, got, killed, holder>>

\* kill, during a call: the flag, and a wakeup.
Kill(p) ==
  /\ pc[p] # "idle" /\ ~killed[p]
  /\ killed' = [killed EXCEPT ![p] = TRUE]
  /\ pc' = [pc EXCEPT ![p] = IF @ = "asleep" THEN "read" ELSE @]
  /\ UNCHANGED <<input, n, target, got, holder>>

-----------------------------------------------------------------------------
Init ==
  /\ r = 0 /\ w = 0 /\ e = 0
  /\ buf = [i \in 0 .. INPUT_BUF - 1 |-> "none"]
  /\ pc = [p \in Procs |-> "idle"]
  /\ n = [p \in Procs |-> 0] /\ target = [p \in Procs |-> 0]
  /\ got = [p \in Procs |-> <<>>]
  /\ killed = [p \in Procs |-> FALSE]
  /\ holder = "none"

Intr == (\E c \in Chars : Default(c)) \/ Backspace \/ KillLine

Step(p) == ReadLoop(p) \/ Relock(p) \/ WriteOut(p)

Next ==
  \/ Intr
  \/ \E p \in Procs :
       Step(p) \/ Consolewrite(p) \/ Kill(p) \/ \E k \in Sizes : Consoleread(p, k)

Spec == Init /\ [][Next]_vars

\* Processes that can run do; nothing makes anybody type, call or kill.
FairSpec == Spec /\ \A p \in Procs : WF_vars(Step(p))

-----------------------------------------------------------------------------
(* Properties *)

\* Types.
TypeOK ==
  /\ {r, w, e} \subseteq 0 .. UMod - 1
  /\ buf \in [0 .. INPUT_BUF - 1 -> Chars \cup {"none"}]
  /\ pc \in [Procs -> {"idle", "read", "asleep", "relock", "write"}]
  /\ \A p \in Procs : n[p] \in 0 .. target[p] /\ target[p] \in Sizes \cup {0}
  /\ \A p \in Procs : Len(got[p]) + n[p] <= target[p]
  /\ killed \in [Procs -> BOOLEAN] /\ holder \in Procs \cup {"none"}

\* The read index, the write index and the edit index keep their order and
\* their distance, also when they wrap round and when the ring is full.
IndexOrder == Minus(w, r) <= Minus(e, r) /\ Minus(e, r) <= INPUT_BUF

\* No reader sleeps when there is finished input: consoleintr wakes for every
\* way a line can end, a full ring included.
ReaderNotMissed == \A p \in Procs : pc[p] = "asleep" => r = w

Segment(a, b) == [i \in 1 .. Minus(b, a) |-> At(Plus(a, i - 1))]
Lines == INSTANCE LineBuffer WITH
  Readers <- Procs, Capacity <- INPUT_BUF, ready <- Segment(r, w), line <- Segment(w, e)

\* The ring with its three indices is a line being edited and a queue: no
\* character is lost, reordered, read twice or read before its line is done,
\* reads stop at line ends, and ^D after some input gives an empty read later.
ImplementsLineBuffer == Lines!Spec


\* kill ends a read that waits for input: the reader wakes, and does not go
\* back to sleep.
KilledReadReturns ==
  \A p \in Procs : pc[p] \in {"read", "asleep"} /\ killed[p] ~> pc[p] = "idle"
=============================================================================
