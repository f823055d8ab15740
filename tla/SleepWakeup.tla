----------------------------- MODULE SleepWakeup -----------------------------
(***************************************************************************)
(* What sleep, wakeup and kill promise the rest of the kernel: a process   *)
(* sleeps on one channel; a wakeup of the channel makes every process that *)
(* sleeps on it runnable; kill marks one process and makes it runnable;    *)
(* nothing else ends a sleep.  Proc implements this specification.         *)
(***************************************************************************)
CONSTANTS Sleepers, Chans, Awake

VARIABLES asleep,    \* asleep[p]: the channel p sleeps on, or Awake
          killed

Init ==
  /\ asleep = [p \in Sleepers |-> Awake]
  /\ killed = [p \in Sleepers |-> FALSE]

Sleep(p, c) ==
  /\ asleep[p] = Awake
  /\ asleep' = [asleep EXCEPT ![p] = c]
  /\ UNCHANGED killed

\* wakeup1 on each channel of C while ptable.lock is held.
Wakeup(C) ==
  /\ asleep' = [p \in Sleepers |-> IF asleep[p] \in C THEN Awake ELSE asleep[p]]
  /\ UNCHANGED killed

Kill(p) ==
  /\ killed' = [killed EXCEPT ![p] = TRUE]
  /\ asleep' = [asleep EXCEPT ![p] = Awake]

\* wait frees the slot of a process that has exited.
Reap(p) ==
  /\ asleep[p] = Awake
  /\ killed' = [killed EXCEPT ![p] = FALSE]
  /\ UNCHANGED asleep

Next ==
  \/ \E p \in Sleepers, c \in Chans : Sleep(p, c)
  \/ \E C \in SUBSET Chans : Wakeup(C)
  \/ \E p \in Sleepers : Kill(p) \/ Reap(p)

Spec == Init /\ [][Next]_<<asleep, killed>>
=============================================================================
