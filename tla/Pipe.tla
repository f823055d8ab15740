-------------------------------- MODULE Pipe --------------------------------
(***************************************************************************)
(* pipe.c: one pipe, from pipealloc to the pipeclose that frees it, used   *)
(* by processes that share its two ends.                                   *)
(*                                                                         *)
(* Code that holds p->lock is one step (Spinlock).  sleep releases the     *)
(* lock and takes it again, so a call that blocks continues in a later     *)
(* step: Resume runs the loop again from its test.  Between being woken    *)
(* and taking the lock again a process can lose the race to another one,   *)
(* and, if it was killed, exit without ever returning to the loop.         *)
(***************************************************************************)
EXTENDS Naturals, FiniteSetsExt

CONSTANTS Procs,
          Bytes,
          PIPESIZE,
          UMod,       \* 2^32: nread and nwrite are uint
          MaxN        \* bound on the byte count of a read or write

ASSUME PipeAssumption ==
  /\ Bytes # {} /\ PIPESIZE \in Nat \ {0} /\ MaxN \in Nat
  /\ UMod \in Nat /\ UMod > PIPESIZE /\ UMod % PIPESIZE = 0

VARIABLES nread, nwrite, data, readopen, writeopen,   \* struct pipe
          freed,      \* pipeclose has called kfree on it
          ends,       \* ends[p]: ends of the pipe p has open files for
          closing,    \* ends whose last file is closed, pipeclose to come
          op,         \* op[p]: what p is doing
          left,       \* left[p]: bytes p still has to write, or wants to read
          asleep,     \* asleep[p]: the channel p sleeps on, or "none"
          killed,
          got,        \* the bytes piperead has just copied out
          unsignalled \* bytes were added since readers were last woken

pipe == <<nread, nwrite, data, readopen, writeopen, freed>>
vars == <<pipe, ends, closing, op, left, asleep, killed, got, unsignalled>>

Ends     == {"read", "write"}
Ops      == {"idle", "read", "write", "exit"}
Channels == {"nread", "nwrite"}

-----------------------------------------------------------------------------
(* uint arithmetic and the ring *)

Uint == 0 .. UMod - 1
Plus(c, i) == (c + i) % UMod       \* c + i on uint
Count == (nwrite + UMod - nread) % UMod

\* A full test that does not wrap at 32 bits.
FullAtUnwrapped(w) == w = nread + PIPESIZE

\* The tests of the two loops, for the counter value the loop has reached.
FullAt(w)  == w = Plus(nread, PIPESIZE)
EmptyAt(r) == r = nwrite
Full  == FullAt(nwrite)
Empty == EmptyAt(nread)

\* data after the bytes s[1..k] have been stored, one after the other.
Stored(k, s) ==
  [j \in 0 .. PIPESIZE - 1 |->
     LET at == {i \in 1 .. k : Plus(nwrite, i - 1) % PIPESIZE = j}
     IN  IF at = {} THEN data[j] ELSE s[Max(at)]]

\* The k bytes at the front.
Front(k) == [i \in 1 .. k |-> data[Plus(nread, i - 1) % PIPESIZE]]

Wake(a, c) == [p \in Procs |-> IF a[p] = c THEN "none" ELSE a[p]]

\* wakeup(&p->nread) and wakeup(&p->nwrite), and one that wakes nobody.
WakeNobody(a) == a
WakeReaders(a) == Wake(a, "nread")
WakeWriters(a) == Wake(a, "nwrite")

-----------------------------------------------------------------------------
(* pipewrite *)

\* With n bytes to go, the loop stores k of them before it ends or meets a
\* full pipe.
StopsWriting(k, n) ==
  /\ k = n \/ FullAt(Plus(nwrite, k))
  /\ \A i \in 0 .. k - 1 : ~FullAt(Plus(nwrite, i))

\* The for loop with n bytes to go, until it ends, blocks or gives up.  It
\* stores k bytes; if that is not all, the pipe is full.  The return -1 comes
\* before the wakeup of the readers.
WriteLoop(p, n) ==
  \E k \in 0 .. n :
      /\ StopsWriting(k, n)
      /\ \E s \in [1 .. k -> Bytes] : data' = Stored(k, s)
      /\ nwrite' = Plus(nwrite, k)
      /\ \/ /\ k = n
            /\ op' = [op EXCEPT ![p] = "idle"]
            /\ left' = [left EXCEPT ![p] = 0]
            /\ asleep' = WakeReaders(asleep)
            /\ unsignalled' = FALSE
         \/ /\ k < n
            /\ readopen = 0 \/ killed[p]
            /\ op' = [op EXCEPT ![p] = "idle"]
            /\ left' = [left EXCEPT ![p] = 0]
            /\ unsignalled' = (unsignalled \/ k > 0)
            /\ UNCHANGED asleep
         \/ /\ k < n
            /\ readopen = 1 /\ ~killed[p]
            /\ op' = [op EXCEPT ![p] = "write"]
            /\ left' = [left EXCEPT ![p] = n - k]
            /\ asleep' = [WakeReaders(asleep) EXCEPT ![p] = "nwrite"]
            /\ unsignalled' = FALSE
      /\ got' = <<>>
      /\ UNCHANGED <<nread, readopen, writeopen, freed, ends, closing, killed>>

Pipewrite(p, n) ==
  /\ op[p] = "idle" /\ "write" \in ends[p]
  /\ WriteLoop(p, n)

-----------------------------------------------------------------------------
(* piperead *)

\* The copy loop takes k bytes before it has n or meets an empty pipe.
StopsReading(k, n) ==
  /\ k = n \/ EmptyAt(Plus(nread, k))
  /\ \A i \in 0 .. k - 1 : ~EmptyAt(Plus(nread, i))

ReadLoop(p, n) ==
  \/ /\ Empty /\ writeopen = 1
     /\ killed[p]
     /\ op' = [op EXCEPT ![p] = "idle"]
     /\ left' = [left EXCEPT ![p] = 0]
     /\ got' = <<>>
     /\ UNCHANGED <<pipe, ends, closing, asleep, killed, unsignalled>>
  \/ /\ Empty /\ writeopen = 1
     /\ ~killed[p]
     /\ op' = [op EXCEPT ![p] = "read"]
     /\ left' = [left EXCEPT ![p] = n]
     /\ asleep' = [asleep EXCEPT ![p] = "nread"]
     /\ got' = <<>>
     /\ UNCHANGED <<pipe, ends, closing, killed, unsignalled>>
  \/ /\ ~(Empty /\ writeopen = 1)
     /\ \E k \in 0 .. n :
            /\ StopsReading(k, n)
            /\ got' = Front(k)
            /\ nread' = Plus(nread, k)
     /\ op' = [op EXCEPT ![p] = "idle"]
     /\ left' = [left EXCEPT ![p] = 0]
     /\ asleep' = WakeWriters(asleep)
     /\ UNCHANGED <<nwrite, data, readopen, writeopen, freed, ends, closing,
                    killed, unsignalled>>

Piperead(p, n) ==
  /\ op[p] = "idle" /\ "read" \in ends[p]
  /\ ReadLoop(p, n)

\* Woken, or killed, in sleep: take the lock and test again.
Resume(p) ==
  /\ asleep[p] = "none"
  /\ \/ op[p] = "write" /\ WriteLoop(p, left[p])
     \/ op[p] = "read" /\ ReadLoop(p, left[p])

-----------------------------------------------------------------------------
(* The ends of the pipe *)

\* fork: a new process gets p's open files.
Fork(p, q) ==
  /\ op[p] = "idle" /\ ends[p] # {}
  /\ op[q] = "idle" /\ ends[q] = {}
  /\ ends' = [ends EXCEPT ![q] = ends[p]]
  /\ killed' = [killed EXCEPT ![q] = FALSE]
  /\ got' = <<>>
  /\ UNCHANGED <<pipe, closing, op, left, asleep, unsignalled>>

\* fileclose by close or exit; whoever closes the last file of an end goes on
\* to pipeclose, after ftable.lock is released.
Fileclose(p, e) ==
  /\ op[p] \in {"idle", "exit"} /\ e \in ends[p]
  /\ ends' = [ends EXCEPT ![p] = @ \ {e}]
  /\ closing' = IF \E q \in Procs \ {p} : e \in ends[q] THEN closing
                ELSE closing \cup {e}
  /\ op' = [op EXCEPT ![p] = IF ends'[p] = {} THEN "idle" ELSE @]
  /\ got' = <<>>
  /\ UNCHANGED <<pipe, left, asleep, killed, unsignalled>>

\* The test before kfree, and one that one closed end satisfies.
EitherClosed(r, w) == r = 0 \/ w = 0
BothClosed(r, w) == r = 0 /\ w = 0

Pipeclose(e) ==
  /\ e \in closing
  /\ closing' = closing \ {e}
  /\ writeopen' = IF e = "write" THEN 0 ELSE writeopen
  /\ readopen' = IF e = "read" THEN 0 ELSE readopen
  /\ asleep' = IF e = "write" THEN WakeReaders(asleep) ELSE WakeWriters(asleep)
  /\ unsignalled' = (unsignalled /\ e # "write")
  /\ freed' = BothClosed(readopen', writeopen')
  /\ got' = <<>>
  /\ UNCHANGED <<nread, nwrite, data, ends, op, left, killed>>

\* kill: set the flag, end the sleep.
Kill(p) ==
  /\ ~killed[p] /\ ends[p] # {}
  /\ killed' = [killed EXCEPT ![p] = TRUE]
  /\ asleep' = [asleep EXCEPT ![p] = "none"]
  /\ got' = <<>>
  /\ UNCHANGED <<pipe, ends, closing, op, left, unsignalled>>

\* The timer finds a killed process between wakeup and lock, or outside a
\* call, and makes it exit: from there on it only closes its files.
KilledExit(p) ==
  /\ killed[p] /\ asleep[p] = "none" /\ op[p] # "exit" /\ ends[p] # {}
  /\ op' = [op EXCEPT ![p] = "exit"]
  /\ left' = [left EXCEPT ![p] = 0]
  /\ got' = <<>>
  /\ UNCHANGED <<pipe, ends, closing, asleep, killed, unsignalled>>

-----------------------------------------------------------------------------
\* pipealloc and sys_pipe have succeeded for one process.
Init ==
  /\ nread = 0 /\ nwrite = 0
  /\ data = [j \in 0 .. PIPESIZE - 1 |-> CHOOSE b \in Bytes : TRUE]
  /\ readopen = 1 /\ writeopen = 1 /\ freed = FALSE
  /\ \E p \in Procs : ends = [q \in Procs |-> IF q = p THEN Ends ELSE {}]
  /\ closing = {}
  /\ op = [p \in Procs |-> "idle"]
  /\ left = [p \in Procs |-> 0]
  /\ asleep = [p \in Procs |-> "none"]
  /\ killed = [p \in Procs |-> FALSE]
  /\ got = <<>>
  /\ unsignalled = FALSE

Next ==
  \/ \E p \in Procs :
       \/ \E n \in 0 .. MaxN : Pipewrite(p, n) \/ Piperead(p, n)
       \/ Resume(p)
       \/ \E q \in Procs \ {p} : Fork(p, q)
       \/ \E e \in Ends : Fileclose(p, e)
       \/ Kill(p)
       \/ KilledExit(p)
  \/ \E e \in Ends : Pipeclose(e)

Spec == Init /\ [][Next]_vars

-----------------------------------------------------------------------------
(* Safety *)

TypeOK ==
  /\ nread \in Uint /\ nwrite \in Uint
  /\ data \in [0 .. PIPESIZE - 1 -> Bytes]
  /\ readopen \in {0, 1} /\ writeopen \in {0, 1}
  /\ freed \in BOOLEAN
  /\ ends \in [Procs -> SUBSET Ends]
  /\ closing \in SUBSET Ends
  /\ op \in [Procs -> Ops]
  /\ left \in [Procs -> 0 .. MaxN]
  /\ asleep \in [Procs -> Channels \cup {"none"}]
  /\ killed \in [Procs -> BOOLEAN]
  /\ unsignalled \in BOOLEAN

\* No reader sleeps through data or end of file: a process asleep on
\* &p->nread found the pipe empty with a writer left, and that is still so;
\* the one exception is a writer that was killed (or lost its reader) in a
\* full pipe, which returns -1 without waking the readers.
ReadersNotMissed ==
  \A p \in Procs : asleep[p] = "nread" => writeopen = 1 /\ (Empty \/ unsignalled)

\* No writer sleeps through free space or the loss of the last reader.
WritersNotMissed ==
  \A p \in Procs : asleep[p] = "nwrite" => readopen = 1 /\ Full

\* The page is freed when nobody can reach it any more: no file, no call in
\* progress, no pipeclose to come.
FreedMeansUnused ==
  freed => closing = {} /\ \A p \in Procs : ends[p] = {} /\ op[p] = "idle"

\* readopen and writeopen are exact: an end counts as open as long as some
\* file has it or the pipeclose of its last file is under way, so the other
\* side never waits for an end that nobody holds.
OpenMeansHeld ==
  LET Held(e) == e \in closing \/ \E p \in Procs : e \in ends[p]
  IN  (readopen = 1 <=> Held("read")) /\ (writeopen = 1 <=> Held("write"))

\* Bytes come out in the order they went in, none lost to an overrun of the
\* ring or to the wrap of the counters: the pipe is a bounded byte stream.
BS == INSTANCE ByteStream WITH
        Capacity <- PIPESIZE, stream <- Front(Count)

ImplementsByteStream == BS!Spec

-----------------------------------------------------------------------------
(* What the safety properties rest on, checked as parts of IInv *)

\* The ring never holds more than it has room for.
Bounded == Count <= PIPESIZE

\* A call in progress keeps its end open, and sleeps on its own channel.
CallsHoldEnds ==
  \A p \in Procs :
    /\ op[p] \in Ends => op[p] \in ends[p]
    /\ op[p] = "exit" => ends[p] # {}
    /\ asleep[p] = "nread" => op[p] = "read"
    /\ asleep[p] = "nwrite" => op[p] = "write"

\* An end is closed once, after its last file.
ClosedOnce == \A e \in closing : \A p \in Procs : e \notin ends[p]

FreedMeansClosed == freed <=> readopen = 0 /\ writeopen = 0

IInv ==
  /\ TypeOK /\ Bounded
  /\ CallsHoldEnds /\ ClosedOnce /\ OpenMeansHeld /\ FreedMeansClosed
  /\ ReadersNotMissed /\ WritersNotMissed

-----------------------------------------------------------------------------
(* Liveness *)

\* A woken process gets the CPU (Proc), a close under way is finished and a
\* dying process closes its files.  As to the programs: whoever has the read
\* end and is not busy reads again.
Fairness ==
  /\ \A p \in Procs : WF_vars(Resume(p))
  /\ \A e \in Ends : WF_vars(Pipeclose(e))
  /\ \A p \in Procs : WF_vars(op[p] = "exit" /\ \E e \in Ends : Fileclose(p, e))
  /\ \A p \in Procs : SF_vars(\E n \in 1 .. MaxN : Piperead(p, n))

FairSpec == Spec /\ Fairness

=============================================================================
