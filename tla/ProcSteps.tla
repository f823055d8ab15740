----------------------------- MODULE ProcSteps ------------------------------
(***************************************************************************)
(* The steps of the process table keep its inductive invariant IInv (at    *)
(* the end of Proc): the scheduler, the timer's frames, sys_sleep, wait    *)
(* and kill.  IInv is split into                                           *)
(*   TableInv  what it says of the table alone,                            *)
(*   Stopped   where a process that does not run has stopped,              *)
(*   StackInv  what it says of the frames of fork and of init's exit,      *)
(* because most actions disturb one of them only.  The lemmas before the   *)
(* first action say what pushing, replacing and popping a frame leave of   *)
(* a stack; then comes one lemma for each action.                          *)
(***************************************************************************)
EXTENDS Proc, TLAPS

\* Above position n, p's new stack is its old one moved by k.
Shift(p, n, k) ==
  \A i \in DOMAIN stk'[p] : i > n =>
    i + k \in DOMAIN stk[p] /\ stk'[p][i] = stk[p][i + k]

\* Only p's stack changes.
Others(p) == \A q \in Slots \ {p} : stk'[q] = stk[q]

\* Call pushes one frame: the others keep their content, one place down.
LEMMA CallFacts ==
  ASSUME TypeOK, NEW p \in Slots, NEW f \in Frames, Call(p, f)
  PROVE  /\ stk' \in [Slots -> Seq(Frames)]
         /\ Others(p) /\ Shift(p, 1, -1)
         /\ stk'[p] # <<>> /\ stk'[p][1] = f /\ Head(stk'[p]) = f
<1> DEFINE t == <<f>> \o stk[p]
<1>1. stk[p] \in Seq(Frames)
  BY DEF TypeOK
<1>2. /\ t \in Seq(Frames) /\ t # <<>> /\ t[1] = f /\ Head(t) = f
      /\ \A i \in DOMAIN t : i > 1 => i - 1 \in DOMAIN stk[p] /\ t[i] = stk[p][i - 1]
  BY <1>1
<1>3. stk' = [stk EXCEPT ![p] = t]
  BY DEF Call
<1> HIDE DEF t
<1> QED
  BY <1>2, <1>3 DEF TypeOK, Others, Shift

\* Continue replaces the top frame and nothing else.
LEMMA ContinueFacts ==
  ASSUME TypeOK, NEW p \in Slots, NEW f \in Frames, stk[p] # <<>>, Continue(p, f)
  PROVE  /\ stk' \in [Slots -> Seq(Frames)]
         /\ Others(p) /\ Shift(p, 1, 0)
         /\ stk'[p] # <<>> /\ stk'[p][1] = f /\ Head(stk'[p]) = f
<1> DEFINE t == <<f>> \o Tail(stk[p])
<1>1. stk[p] \in Seq(Frames)
  BY DEF TypeOK
<1>2. /\ t \in Seq(Frames) /\ t # <<>> /\ t[1] = f /\ Head(t) = f
      /\ \A i \in DOMAIN t : i > 1 => i \in DOMAIN stk[p] /\ t[i] = stk[p][i]
  BY <1>1
<1>3. stk' = [stk EXCEPT ![p] = t]
  BY DEF Continue
<1> HIDE DEF t
<1> QED
  BY <1>2, <1>3 DEF TypeOK, Others, Shift

\* Return pops the top frame: the others move one place up.
LEMMA ReturnFacts ==
  ASSUME TypeOK, NEW p \in Slots, stk[p] # <<>>, Return(p)
  PROVE  /\ stk' \in [Slots -> Seq(Frames)]
         /\ Others(p) /\ Shift(p, 0, 1)
<1> DEFINE t == Tail(stk[p])
<1>1. stk[p] \in Seq(Frames)
  BY DEF TypeOK
<1>2. /\ t \in Seq(Frames)
      /\ \A i \in DOMAIN t : i + 1 \in DOMAIN stk[p] /\ t[i] = stk[p][i + 1]
  BY <1>1
<1>3. stk' = [stk EXCEPT ![p] = t]
  BY DEF Return
<1> HIDE DEF t
<1> QED
  BY <1>2, <1>3 DEF TypeOK, Others, Shift

\* The top of a stack that is not empty is its first frame, a member of Frames.
LEMMA TopFacts ==
  ASSUME TypeOK, NEW p \in Slots, stk[p] # <<>>
  PROVE  /\ 1 \in DOMAIN stk[p] /\ Top(p) = stk[p][1] /\ Top(p) \in Frames
         /\ Top(p).at \in Labels /\ Top(p).np \in Slots \cup {0} /\ Top(p).rem \in 0 .. MaxSleep
<1>1. stk[p] \in Seq(Frames)
  BY DEF TypeOK
<1>2. 1 \in DOMAIN stk[p] /\ Top(p) = stk[p][1] /\ Top(p) \in Frames
  BY <1>1 DEF Top
<1> QED
  BY <1>2 DEF Frames

\* Frames alike but for the ticks left to sleep.
Same(f, g) == f.at = g.at /\ f.np = g.np

Alike(s, t) ==
  /\ DOMAIN s = DOMAIN t /\ \A i \in DOMAIN s : Same(s[i], t[i])
  /\ s = <<>> <=> t = <<>>
  /\ t # <<>> => Head(s).at = Head(t).at

OthersAlike(p) == \A q \in Slots \ {p} : Alike(stk'[q], stk[q])

ShiftAlike(p, n, k) ==
  \A i \in DOMAIN stk'[p] : i > n =>
    i + k \in DOMAIN stk[p] /\ Same(stk'[p][i], stk[p][i + k])

\* The part of IInv about the stacks: fork's frames, and init's exit.
StackInv ==
  /\ ForkFrames /\ ForkOwnsEmbryo
  /\ \A i \in DOMAIN stk[initproc] : stk[initproc][i].at = "exit" => panicked

\* Where frame i of q was before a step that moves p's frames by k.
Place(p, k, q, i) == IF q = p THEN i + k ELSE i

Kept(p, k, q, i) ==
  /\ Place(p, k, q, i) \in DOMAIN stk[q]
  /\ Same(stk'[q][i], stk[q][Place(p, k, q, i)])

\* The frames after a step are frames, at positions that are numbers.
LEMMA NewFrames ==
  ASSUME stk' \in [Slots -> Seq(Frames)], NEW q \in Slots, NEW i \in DOMAIN stk'[q]
  PROVE  /\ i \in Nat \ {0} /\ stk'[q][i] \in Frames
         /\ stk'[q][i].np # 0 => stk'[q][i].np \in Slots
<1>1. i \in Nat \ {0} /\ stk'[q][i] \in Frames
  BY stk'[q] \in Seq(Frames)
<1> QED
  BY <1>1 DEF Frames

\* A frame that was there keeps its slot to itself among those that were.
LEMMA KeptOwner ==
  ASSUME StackInv, NEW p, NEW k \in -1 .. 1,
         NEW q \in Slots, NEW i \in Nat, Kept(p, k, q, i), stk'[q][i].np # 0,
         NEW r \in Slots, NEW j \in Nat, Kept(p, k, r, j), stk'[r][j].np = stk'[q][i].np
  PROVE  r = q /\ j = i
<1>1. ForkOwnsEmbryo
  BY DEF StackInv
<1>2. PICK x \in DOMAIN stk[q] : x = Place(p, k, q, i) /\ stk[q][x].np = stk'[q][i].np
  BY DEF Kept, Same
<1>3. PICK y \in DOMAIN stk[r] : y = Place(p, k, r, j) /\ stk[r][y].np = stk'[r][j].np
  BY Zenon DEF Kept, Same
<1>4. r = q /\ y = x
  BY <1>1, <1>2, <1>3 DEF ForkOwnsEmbryo
<1> QED
  BY <1>2, <1>3, <1>4 DEF Place

\* What the invariant says of a frame g of fork.
Says(g) ==
  /\ g.np # 0 <=> g.at \in ForkLabels
  /\ g.at \in ForkLabels \ {"fork_kstack"} =>
       stk[g.np] # <<>> /\ Head(stk[g.np]).at = "forkret"
  /\ g.np # 0 => state[g.np] = "EMBRYO"

\* It held of a frame that was there.
LEMMA KeptFrame ==
  ASSUME StackInv, NEW p, NEW k \in -1 .. 1, NEW q \in Slots, NEW i, Kept(p, k, q, i)
  PROVE  Says(stk'[q][i])
<1> DEFINE g == stk'[q][i]
<1>1. PICK j \in DOMAIN stk[q] : g.at = stk[q][j].at /\ g.np = stk[q][j].np
  BY DEF Kept, Same
<1>2. ForkFrames /\ ForkOwnsEmbryo
  BY DEF StackInv
<1>3. /\ g.np # 0 <=> g.at \in ForkLabels
      /\ g.at \in ForkLabels \ {"fork_kstack"} =>
           stk[g.np] # <<>> /\ Head(stk[g.np]).at = "forkret"
  BY <1>1, <1>2 DEF ForkFrames, Top
<1>4. g.np # 0 => state[g.np] = "EMBRYO"
  BY <1>1, <1>2 DEF ForkOwnsEmbryo
<1> QED
  BY <1>3, <1>4 DEF Says

\* init's frames stay clear of exit where they were.
LEMMA KeptInit ==
  ASSUME StackInv, NEW p, NEW k \in -1 .. 1, NEW i, Kept(p, k, initproc, i),
         stk'[initproc][i].at = "exit"
  PROVE  panicked
  BY Zenon DEF StackInv, Kept, Same

\* Frames that fork has nothing to do with come and go on p's stack.
Quiet(p, n) ==
  /\ n = 1 => /\ stk'[p][1].np = 0 /\ stk'[p][1].at \notin ForkLabels
              /\ p = initproc /\ stk'[p][1].at = "exit" => panicked'
  /\ panicked => panicked'
  /\ \A q \in Slots : state[q] = "EMBRYO" => state'[q] = "EMBRYO"

\* Every frame of the new stacks is that one or was there before.
LEMMA QuietKept ==
  ASSUME stk' \in [Slots -> Seq(Frames)], NEW p \in Slots, NEW n \in {0, 1}, NEW k \in -1 .. 1,
         OthersAlike(p), ShiftAlike(p, n, k), NEW q \in Slots, NEW i \in DOMAIN stk'[q]
  PROVE  (q = p /\ i = 1 /\ n = 1) \/ Kept(p, k, q, i)
<1>1. i \in Nat \ {0}
  BY NewFrames
<1> QED
  BY <1>1 DEF OthersAlike, ShiftAlike, Alike, Kept, Place

\* So every slot that a fork works on is still an embryo of that fork alone,
LEMMA QuietOwner ==
  ASSUME StackInv, stk' \in [Slots -> Seq(Frames)],
         NEW p \in Slots, NEW n \in {0, 1}, NEW k \in -1 .. 1,
         OthersAlike(p), ShiftAlike(p, n, k), Quiet(p, n)
  PROVE  ForkOwnsEmbryo'
<1> SUFFICES ASSUME NEW q \in Slots, NEW i \in DOMAIN stk'[q], stk'[q][i].np # 0
             PROVE  /\ state'[stk'[q][i].np] = "EMBRYO"
                    /\ \A r \in Slots : \A j \in DOMAIN stk'[r] :
                         stk'[r][j].np = stk'[q][i].np => r = q /\ j = i
  BY DEF ForkOwnsEmbryo
<1>1. Kept(p, k, q, i) /\ i \in Nat /\ stk'[q][i].np \in Slots
  BY QuietKept, NewFrames DEF Quiet
<1>2. state'[stk'[q][i].np] = "EMBRYO"
  <2>1. Says(stk'[q][i])
    BY <1>1, KeptFrame, Zenon
  <2> QED
    BY <1>1, <2>1 DEF Says, Quiet
<1>3. ASSUME NEW r \in Slots, NEW j \in DOMAIN stk'[r], stk'[r][j].np = stk'[q][i].np
      PROVE  r = q /\ j = i
  <2>1. ~(r = p /\ j = 1 /\ n = 1)
    BY <1>3 DEF Quiet
  <2>2. Kept(p, k, r, j) /\ j \in Nat
    BY <2>1, QuietKept, NewFrames
  <2> QED
    BY <1>1, <1>3, <2>2, KeptOwner, Zenon
<1> QED
  BY <1>2, <1>3

\* every frame of fork still has its child's stack,
LEMMA QuietFrames ==
  ASSUME StackInv, stk' \in [Slots -> Seq(Frames)],
         NEW p \in Slots, NEW n \in {0, 1}, NEW k \in -1 .. 1, state[p] # "EMBRYO",
         OthersAlike(p), ShiftAlike(p, n, k), Quiet(p, n)
  PROVE  ForkFrames'
<1> SUFFICES ASSUME NEW q \in Slots, NEW i \in DOMAIN stk'[q], NEW g, g = stk'[q][i]
             PROVE  /\ g.np # 0 <=> g.at \in ForkLabels
                    /\ g.at \in ForkLabels \ {"fork_kstack"} =>
                         stk'[g.np] # <<>> /\ Head(stk'[g.np]).at = "forkret"
  BY DEF ForkFrames, Top
<1>1. CASE q = p /\ i = 1 /\ n = 1
  BY <1>1 DEF Quiet
<1>2. CASE Kept(p, k, q, i)
  <2>1. g.np # 0 => g.np \in Slots
    BY NewFrames
  <2>2. /\ g.np # 0 <=> g.at \in ForkLabels
        /\ g.at \in ForkLabels \ {"fork_kstack"} =>
             stk[g.np] # <<>> /\ Head(stk[g.np]).at = "forkret"
        /\ g.np # 0 => state[g.np] = "EMBRYO"
    <3>1. Says(g)
      BY <1>2, KeptFrame, Zenon
    <3> QED
      BY <3>1 DEF Says
  <2>3. g.np # 0 => Alike(stk'[g.np], stk[g.np])
    BY <2>1, <2>2 DEF OthersAlike
  <2> QED
    BY <2>2, <2>3 DEF Alike
<1> QED
  BY <1>1, <1>2, QuietKept

\* and init is still not in exit.
LEMMA QuietAlike ==
  ASSUME StackInv, NEW p \in Slots, state[p] # "EMBRYO", NEW n \in {0, 1}, NEW k \in -1 .. 1,
         stk' \in [Slots -> Seq(Frames)], OthersAlike(p), ShiftAlike(p, n, k), Quiet(p, n)
  PROVE  StackInv'
<1>1. initproc \in Slots
  BY ProcAssumption DEF initproc, Slots
<1>2. ASSUME NEW i \in DOMAIN stk'[initproc], stk'[initproc][i].at = "exit"
      PROVE  panicked'
  <2>1. (initproc = p /\ i = 1 /\ n = 1) \/ Kept(p, k, initproc, i)
    BY <1>1, QuietKept
  <2>2. CASE Kept(p, k, initproc, i)
    BY <1>2, <2>2, KeptInit, Zenon DEF Quiet
  <2> QED
    BY <1>2, <2>1, <2>2 DEF Quiet
<1> QED
  BY <1>2, QuietOwner, QuietFrames DEF StackInv

\* When the slots keep their states, a change of one stack that no frame of
\* fork takes part in keeps the part of IInv about the stacks.
LEMMA QuietStack ==
  ASSUME StackInv, NEW p \in Slots, state[p] # "EMBRYO", NEW n \in {0, 1}, NEW k \in -1 .. 1,
         stk' \in [Slots -> Seq(Frames)], Others(p), Shift(p, n, k), Quiet(p, n)
  PROVE  StackInv'
<1>1. OthersAlike(p)
  BY DEF Others, OthersAlike, Alike, Same
<1>2. ShiftAlike(p, n, k)
  BY DEF Shift, ShiftAlike, Same
<1> QED
  BY <1>1, <1>2, QuietAlike

\* The parts of IInv that speak of the table alone.
TableInv ==
  /\ \A p \in Slots : state[p] = "RUNNING" <=> proc = p
  /\ state[initproc] \in Live /\ parent[initproc] = NoProc
  /\ NotOwnParent /\ ParentsLive /\ SleepersHaveChan
  /\ NoMissedExit /\ KilledNotAsleep

\* The parts about where switched-out processes stopped.
Stopped ==
  \A p \in Slots :
    /\ state[p] \in {"SLEEPING", "RUNNABLE"} =>
         stk[p] # <<>> /\ Head(stk[p]).at \in {"forkret", "wait", "sleep", "yield"}
    /\ state[p] = "SLEEPING" /\ chan[p] = TicksChan => Head(stk[p]).rem > 0

\* IInv is the conjunction of the parts that the proofs below deal with apart.
LEMMA Parts == IInv <=> TypeOK /\ TableInv /\ Stopped /\ StackInv
  BY DEF IInv, TableInv, Stopped, StackInv, RunningIsProc, InitLives, NoMissedTick, Top

\* The same for the state after a step.
LEMMA PartsPrime == IInv' <=> TypeOK' /\ TableInv' /\ Stopped' /\ StackInv'
  BY DEF IInv, TableInv, Stopped, StackInv, RunningIsProc, InitLives, NoMissedTick, Top

\* A step that changes no stack keeps what IInv says of fork's frames, if the
\* embryos stay embryos.
LEMMA SameStacks ==
  ASSUME IInv, stk' = stk, panicked' = panicked,
         \A q \in Slots : state[q] = "EMBRYO" => state'[q] = "EMBRYO"
  PROVE  StackInv'
<1>1. \A q \in Slots : \A i \in DOMAIN stk[q] : stk[q][i] \in Frames
  BY DEF IInv, TypeOK
<1>2. \A q \in Slots : \A i \in DOMAIN stk[q] : stk[q][i].np # 0 => stk[q][i].np \in Slots
  BY <1>1 DEF Frames
<1> QED
  BY <1>2 DEF IInv, StackInv, ForkFrames, ForkOwnsEmbryo, InitLives, Top

\* scheduler() acquires ptable.lock.
LEMMA SchedulerAcquireInv == IInv /\ SchedulerAcquire => IInv'
<1> SUFFICES ASSUME IInv, SchedulerAcquire PROVE IInv'
  OBVIOUS
<1>1. StackInv'
  BY SameStacks DEF SchedulerAcquire, table
<1>2. TypeOK' /\ TableInv' /\ Stopped'
  BY Parts, ProcAssumption DEF SchedulerAcquire, table, TypeOK, TableInv, Stopped, NotOwnParent,
       ParentsLive,
       SleepersHaveChan, NoMissedExit, KilledNotAsleep
<1> QED
  BY <1>1, <1>2, PartsPrime

\* scheduler() releases ptable.lock at the end of a scan.
LEMMA SchedulerReleaseInv == IInv /\ SchedulerRelease => IInv'
<1> SUFFICES ASSUME IInv, SchedulerRelease PROVE IInv'
  OBVIOUS
<1>1. StackInv'
  BY SameStacks DEF SchedulerRelease, table
<1>2. TypeOK' /\ TableInv' /\ Stopped'
  BY Parts, ProcAssumption, Zenon DEF SchedulerRelease, table, TypeOK, TableInv, Stopped, NotOwnParent,
       ParentsLive,
       SleepersHaveChan, NoMissedExit, KilledNotAsleep
<1> QED
  BY <1>1, <1>2, PartsPrime

\* scheduler() marks the slot it found RUNNING and switches to it.
LEMMA SchedulerSwtchInv == IInv /\ SchedulerSwtch => IInv'
<1> SUFFICES ASSUME IInv, SchedulerSwtch PROVE IInv'
  OBVIOUS
<1>1. PICK p \in Slots :
        /\ state[p] = "RUNNABLE" /\ state' = [state EXCEPT ![p] = "RUNNING"]
        /\ proc = NoProc /\ proc' = p /\ sp' = p + 1
        /\ UNCHANGED <<pid, parent, chan, killed, nextpid, ptlock, stk, panicked>>
  BY Zenon DEF SchedulerSwtch, Ready
<1>2. TypeOK /\ TableInv /\ Stopped
  BY Parts
<1>3. StackInv'
  BY <1>1, <1>2, SameStacks DEF IInv, TypeOK
<1>4. TypeOK' 
  BY <1>1, <1>2, ProcAssumption DEF TypeOK, States, Slots
<1>5. TableInv' 
  BY <1>1, <1>2, ProcAssumption DEF TypeOK, TableInv, NotOwnParent, ParentsLive, Live,
       NoProc, Slots,
       SleepersHaveChan, NoMissedExit, KilledNotAsleep
<1>6. Stopped' 
  BY <1>1, <1>2 DEF Stopped, TypeOK
<1> QED
  BY <1>3, <1>4, <1>5, <1>6, PartsPrime

\* The process that proc points to is RUNNING.
LEMMA Runs ==
  ASSUME IInv, NEW p \in Slots, proc = p
  PROVE  state[p] = "RUNNING"
  BY DEF IInv, RunningIsProc

\* Steps that leave the table alone and push or pop no frame of fork.
LEMMA StackOnly ==
  ASSUME IInv, NEW p \in Slots, proc = p, UNCHANGED <<table, proc, sp>>,
         ptlock' \in BOOLEAN, panicked' \in BOOLEAN, panicked => panicked',
         NEW n \in {0, 1}, NEW k \in -1 .. 1,
         stk' \in [Slots -> Seq(Frames)], Others(p), Shift(p, n, k),
         n = 1 => /\ stk'[p][1].np = 0 /\ stk'[p][1].at \notin ForkLabels
                  /\ p = initproc /\ stk'[p][1].at = "exit" => panicked'
  PROVE  IInv'
<1>1. state[p] = "RUNNING"
  BY Runs
<1>2. StackInv'
  BY <1>1, Parts, QuietStack DEF table, Quiet
<1>3. TypeOK'
  BY DEF table, IInv, TypeOK
<1>4. TableInv'
  BY Parts DEF table, TableInv, NotOwnParent, ParentsLive, SleepersHaveChan, NoMissedExit,
       KilledNotAsleep
<1>5. Stopped'
  BY <1>1, Parts DEF table, Stopped, Others
<1> QED
  BY <1>2, <1>3, <1>4, <1>5, PartsPrime

\* forkret releases ptable.lock and leaves the child's stack empty.
LEMMA ForkretInv ==
  ASSUME IInv, NEW p \in Slots, Forkret(p)
  PROVE  IInv'
<1>1. stk[p] # <<>> /\ proc = p /\ Return(p)
  BY DEF Forkret, Resumed
<1>2. stk' \in [Slots -> Seq(Frames)] /\ Others(p) /\ Shift(p, 0, 1)
  BY <1>1, ReturnFacts DEF IInv
<1>3. UNCHANGED <<table, proc, sp>> /\ ptlock' \in BOOLEAN /\ panicked' \in BOOLEAN /\ (panicked => panicked')
  BY Zenon DEF Forkret, IInv, TypeOK
<1> QED
  BY <1>1, <1>2, <1>3, StackOnly

\* do_timer returns to what it interrupted.
LEMMA TimerReturnInv ==
  ASSUME IInv, NEW p \in Slots, TimerReturn(p)
  PROVE  IInv'
<1>1. stk[p] # <<>> /\ proc = p /\ Return(p)
  BY DEF TimerReturn, At, Running
<1>2. stk' \in [Slots -> Seq(Frames)] /\ Others(p) /\ Shift(p, 0, 1)
  BY <1>1, ReturnFacts DEF IInv
<1>3. UNCHANGED <<table, proc, sp>> /\ ptlock' \in BOOLEAN /\ panicked' \in BOOLEAN /\ (panicked => panicked')
  BY DEF TimerReturn, IInv, TypeOK
<1> QED
  BY <1>1, <1>2, <1>3, StackOnly

\* A frame that keeps np and the rest of the stack.
LEMMA GotoFacts ==
  ASSUME TypeOK, NEW p \in Slots, stk[p] # <<>>, NEW l \in Labels, Goto(p, l)
  PROVE  /\ stk' \in [Slots -> Seq(Frames)]
         /\ Others(p) /\ Shift(p, 1, 0)
         /\ stk'[p] # <<>> /\ Head(stk'[p]) = stk'[p][1]
         /\ stk'[p][1].at = l /\ stk'[p][1].np = Top(p).np /\ stk'[p][1].rem = Top(p).rem
<1> DEFINE f == Frame(l, Top(p).np, Top(p).rem)
<1>1. f \in Frames /\ f.at = l /\ f.np = Top(p).np /\ f.rem = Top(p).rem
  BY TopFacts DEF Frame, Frames
<1>2. Continue(p, f)
  BY DEF Goto
<1> HIDE DEF f
<1> QED
  BY <1>1, <1>2, ContinueFacts

\* yield returns, releasing ptable.lock.
LEMMA YieldResumeInv ==
  ASSUME IInv, NEW p \in Slots, YieldResume(p)
  PROVE  IInv'
<1>1. stk[p] # <<>> /\ proc = p /\ Goto(p, "timer_ret") /\ Top(p).at = "yield"
  BY DEF YieldResume, Resumed
<1>2. Top(p).np = 0
  BY <1>1, TopFacts DEF IInv, ForkFrames, ForkLabels
<1>3. "timer_ret" \in Labels
  BY DEF Labels
<1>4. /\ stk' \in [Slots -> Seq(Frames)] /\ Others(p) /\ Shift(p, 1, 0)
      /\ stk'[p][1].np = 0 /\ stk'[p][1].at = "timer_ret"
  BY <1>1, <1>2, <1>3, GotoFacts DEF IInv
<1>5. panicked' = panicked
  BY DEF YieldResume
<1>6. UNCHANGED <<table, proc, sp>> /\ ptlock' \in BOOLEAN /\ panicked' \in BOOLEAN
  BY <1>5, Zenon DEF YieldResume, IInv, TypeOK
<1>7. stk'[p][1].at \notin ForkLabels
  BY <1>4 DEF ForkLabels
<1> QED
  BY <1>1, <1>4, <1>5, <1>6, <1>7, StackOnly

\* do_timer sends a killed process into exit; init panics instead.
LEMMA TimerExitInv ==
  ASSUME IInv, NEW p \in Slots, TimerExit(p)
  PROVE  IInv'
<1>1. stk[p] # <<>> /\ proc = p /\ Goto(p, "exit") /\ Top(p).at \in {"timer", "timer_ret"}
  BY DEF TimerExit, At, Running
<1>2. Top(p).np = 0
  BY <1>1, TopFacts DEF IInv, ForkFrames, ForkLabels
<1>3. "exit" \in Labels
  BY DEF Labels
<1>4. /\ stk' \in [Slots -> Seq(Frames)] /\ Others(p) /\ Shift(p, 1, 0)
      /\ stk'[p][1].np = 0 /\ stk'[p][1].at = "exit"
  BY <1>1, <1>2, <1>3, GotoFacts DEF IInv
<1>5. ~panicked /\ panicked' = (p = initproc)
  BY DEF TimerExit, At, Running, ExitEntry
<1>6. UNCHANGED <<table, proc, sp>> /\ ptlock' \in BOOLEAN /\ panicked' \in BOOLEAN
  BY <1>5 DEF TimerExit, IInv, TypeOK
<1>7. stk'[p][1].at \notin ForkLabels
  BY <1>4 DEF ForkLabels
<1>8. proc = p /\ (p = initproc => panicked') /\ (panicked => panicked')
  BY <1>1, <1>5, Zenon
<1> QED
  BY <1>4, <1>6, <1>7, <1>8, StackOnly

\* sys_exit enters exit; init panics instead.
LEMMA SysExitInv ==
  ASSUME IInv, NEW p \in Slots, SysExit(p)
  PROVE  IInv'
<1> DEFINE f == Frame("exit", 0, 0)
<1>1. f \in Frames /\ f.np = 0 /\ f.at = "exit"
  BY ProcAssumption DEF Frame, Frames, Labels
<1>2. Call(p, f)
  BY DEF SysExit
<1> HIDE DEF f
<1>3. /\ stk' \in [Slots -> Seq(Frames)] /\ Others(p) /\ Shift(p, 1, -1)
      /\ stk'[p][1].np = 0 /\ stk'[p][1].at = "exit"
  BY <1>1, <1>2, CallFacts DEF IInv
<1>4. proc = p /\ ~panicked /\ panicked' = (p = initproc)
  BY DEF SysExit, UserMode, Running, ExitEntry
<1>5. UNCHANGED <<table, proc, sp>> /\ ptlock' \in BOOLEAN /\ panicked' \in BOOLEAN
  BY <1>4 DEF SysExit, IInv, TypeOK
<1>6. stk'[p][1].at \notin ForkLabels
  BY <1>3 DEF ForkLabels
<1>7. proc = p /\ (p = initproc => panicked') /\ (panicked => panicked')
  BY <1>1, <1>4, Zenon
<1> QED
  BY <1>3, <1>5, <1>6, <1>7, StackOnly

\* do_tlb_violation kills the running process and enters exit.
LEMMA TlbViolationInv ==
  ASSUME IInv, NEW p \in Slots, TlbViolation(p)
  PROVE  IInv'
<1> DEFINE f == Frame("exit", 0, 0)
<1>1. f \in Frames /\ f.np = 0 /\ f.at = "exit"
  BY ProcAssumption DEF Frame, Frames, Labels
<1>2. Call(p, f)
  BY DEF TlbViolation
<1> HIDE DEF f
<1>3. /\ stk' \in [Slots -> Seq(Frames)] /\ Others(p) /\ Shift(p, 1, -1)
      /\ stk'[p][1].np = 0 /\ stk'[p][1].at = "exit"
  BY <1>1, <1>2, CallFacts DEF IInv
<1>4. proc = p /\ ~panicked /\ panicked' = (p = initproc)
  BY DEF TlbViolation, UserMode, Running, ExitEntry
<1>5. /\ killed' = [killed EXCEPT ![p] = TRUE]
      /\ UNCHANGED <<state, pid, parent, chan, nextpid, proc, sp, ptlock>>
  BY DEF TlbViolation
<1>6. state[p] = "RUNNING"
  BY <1>4, Runs
<1>7. (p = initproc => panicked') /\ (panicked => panicked') /\ panicked' \in BOOLEAN
  BY <1>4, Zenon
<1>8. stk'[p][1].at \notin ForkLabels
  BY <1>3 DEF ForkLabels
<1>9. StackInv'
  BY <1>3, <1>5, <1>6, <1>7, <1>8, Parts, QuietStack DEF Quiet
<1>10. TypeOK'
  BY <1>3, <1>5, <1>7 DEF IInv, TypeOK
<1>11. TableInv'
  BY <1>5, <1>6, Parts DEF TypeOK, TableInv, NotOwnParent, ParentsLive, Live, SleepersHaveChan,
       NoMissedExit, KilledNotAsleep
<1>12. Stopped'
  BY <1>3, <1>5, <1>6, Parts DEF Stopped, Others
<1> QED
  BY <1>9, <1>10, <1>11, <1>12, PartsPrime

\* kill marks a slot and makes it runnable if it sleeps.
LEMMA SysKillInv ==
  ASSUME IInv, NEW p \in Slots, NEW n, SysKill(p, n)
  PROVE  IInv'
<1>1. PICK q \in Slots :
        /\ killed' = [killed EXCEPT ![q] = TRUE]
        /\ state' = [state EXCEPT ![q] = IF state[q] = "SLEEPING" THEN "RUNNABLE" ELSE state[q]]
        /\ UNCHANGED <<pid, parent, chan, nextpid, proc, sp, ptlock, stk, panicked>>
  BY Zenon DEF SysKill, KillWakes
<1>2. TypeOK /\ TableInv /\ Stopped
  BY Parts
<1>3. StackInv'
  BY <1>1, <1>2, SameStacks DEF IInv, TypeOK
<1>4. TypeOK'
  BY <1>1, <1>2 DEF TypeOK, States
<1>5. TableInv'
  BY <1>1, <1>2 DEF TypeOK, TableInv, NotOwnParent, ParentsLive, Live, SleepersHaveChan,
       NoMissedExit, KilledNotAsleep
<1>6. Stopped'
  BY <1>1, <1>2 DEF TypeOK, Stopped
<1> QED
  BY <1>3, <1>4, <1>5, <1>6, PartsPrime

\* sleep clears chan after it is woken and releases ptable.lock.
LEMMA SleepResumeInv ==
  ASSUME IInv, NEW p \in Slots, SleepResume(p)
  PROVE  IInv'
<1>1. /\ stk[p] # <<>> /\ proc = p /\ Goto(p, "sleep_relock") /\ Top(p).at = "sleep"
      /\ chan' = [chan EXCEPT ![p] = 0] /\ ptlock' = FALSE
      /\ UNCHANGED <<state, pid, parent, killed, nextpid, proc, sp, panicked>>
  BY DEF SleepResume, Resumed
<1>2. Top(p).np = 0
  BY <1>1, TopFacts DEF IInv, ForkFrames, ForkLabels
<1>3. "sleep_relock" \in Labels
  BY DEF Labels
<1>4. /\ stk' \in [Slots -> Seq(Frames)] /\ Others(p) /\ Shift(p, 1, 0)
      /\ stk'[p][1].np = 0 /\ stk'[p][1].at = "sleep_relock"
  BY <1>1, <1>2, <1>3, GotoFacts DEF IInv
<1>5. state[p] = "RUNNING"
  BY <1>1, Runs
<1>6. stk'[p][1].at \notin ForkLabels
  BY <1>4 DEF ForkLabels
<1>7. StackInv'
  BY <1>1, <1>4, <1>5, <1>6, Parts, QuietStack DEF Quiet
<1>8. TypeOK'
  BY <1>1, <1>4, Zenon DEF IInv, TypeOK
<1>9. TableInv'
  BY <1>1, <1>5, Parts DEF TypeOK, TableInv, NotOwnParent, ParentsLive, Live, SleepersHaveChan,
       NoMissedExit, KilledNotAsleep
<1>10. Stopped'
  BY <1>1, <1>4, <1>5, Parts DEF TypeOK, Stopped, Others
<1> QED
  BY <1>7, <1>8, <1>9, <1>10, PartsPrime

\* yield makes the running process RUNNABLE and goes to scheduler().
LEMMA TimerYieldInv ==
  ASSUME IInv, NEW p \in Slots, TimerYield(p)
  PROVE  IInv'
<1>1. /\ stk[p] # <<>> /\ proc = p /\ Goto(p, "yield") /\ Top(p).at = "timer"
      /\ state' = [state EXCEPT ![p] = "RUNNABLE"] /\ proc' = NoProc /\ ptlock' = TRUE
      /\ UNCHANGED <<pid, parent, chan, killed, nextpid, sp, panicked>>
  BY DEF TimerYield, At, Running, Sched
<1>2. Top(p).np = 0
  BY <1>1, TopFacts DEF IInv, ForkFrames, ForkLabels
<1>3. "yield" \in Labels
  BY DEF Labels
<1>4. /\ stk' \in [Slots -> Seq(Frames)] /\ Others(p) /\ Shift(p, 1, 0)
      /\ stk'[p] # <<>> /\ Head(stk'[p]) = stk'[p][1]
      /\ stk'[p][1].np = 0 /\ stk'[p][1].at = "yield"
  BY <1>1, <1>2, <1>3, GotoFacts DEF IInv
<1>5. state[p] = "RUNNING"
  BY <1>1, Runs
<1>6. stk'[p][1].at \notin ForkLabels
  BY <1>4 DEF ForkLabels
<1>7. \A q \in Slots : state[q] = "EMBRYO" => state'[q] = "EMBRYO"
  BY <1>1, <1>5 DEF IInv, TypeOK
<1>8. panicked => panicked'
  BY <1>1
<1>9. StackInv'
  BY <1>4, <1>5, <1>6, <1>7, <1>8, Parts, QuietStack DEF Quiet
<1>10. TypeOK'
  BY <1>1, <1>4, Zenon DEF IInv, TypeOK, States
<1>11. TableInv'
  BY <1>1, <1>5, Parts DEF TypeOK, NoProc, Slots, TableInv, NotOwnParent, ParentsLive, Live,
       SleepersHaveChan, NoMissedExit, KilledNotAsleep
<1>12. Stopped'
  BY <1>1, <1>4, <1>5, Parts DEF TypeOK, Stopped, Others
<1> QED
  BY <1>9, <1>10, <1>11, <1>12, PartsPrime

\* What a call that blocks or returns leaves: the stack below, with or
\* without a frame on top.
Below(p, below, k) ==
  /\ below \in Seq(Frames)
  /\ \A i \in DOMAIN below : i + k \in DOMAIN stk[p] /\ below[i] = stk[p][i + k]

Block(p, f, below) == stk' = [stk EXCEPT ![p] = <<f>> \o below]

\* A system call that returns to the frames below it leaves fork's frames alone.
LEMMA ReturnBelow ==
  ASSUME TypeOK, NEW p \in Slots, NEW below, NEW k \in {0, 1}, Below(p, below, k),
         stk' = [stk EXCEPT ![p] = below]
  PROVE  stk' \in [Slots -> Seq(Frames)] /\ Others(p) /\ Shift(p, 0, k)
  BY DEF TypeOK, Below, Others, Shift

\* So does one that pushes a frame of its own on them.
LEMMA BlockBelow ==
  ASSUME TypeOK, NEW p \in Slots, NEW below, NEW k \in {0, 1}, Below(p, below, k),
         NEW f \in Frames, Block(p, f, below)
  PROVE  /\ stk' \in [Slots -> Seq(Frames)] /\ Others(p) /\ Shift(p, 1, k - 1)
         /\ stk'[p] # <<>> /\ Head(stk'[p]) = f /\ stk'[p][1] = f
<1> DEFINE t == <<f>> \o below
<1>1. /\ t \in Seq(Frames) /\ t # <<>> /\ t[1] = f /\ Head(t) = f
      /\ \A i \in DOMAIN t : i > 1 => i \in Nat /\ i - 1 \in DOMAIN below /\ t[i] = below[i - 1]
  BY DEF Below
<1>2. \A i \in DOMAIN t : i > 1 => i + (k - 1) \in DOMAIN stk[p] /\ t[i] = stk[p][i + (k - 1)]
  <2> SUFFICES ASSUME NEW i \in DOMAIN t, i > 1
               PROVE  i + (k - 1) \in DOMAIN stk[p] /\ t[i] = stk[p][i + (k - 1)]
    OBVIOUS
  <2> HIDE DEF t
  <2>1. (i - 1) + k = i + (k - 1)
    BY <1>1
  <2> QED
    BY <1>1, <2>1 DEF Below
<1>3. stk' = [stk EXCEPT ![p] = t]
  BY DEF Block
<1> HIDE DEF t
<1> QED
  BY <1>1, <1>2, <1>3 DEF TypeOK, Others, Shift

\* In user mode there are no frames below.
LEMMA NoFrames ==
  ASSUME NEW p \in Slots, stk[p] = <<>>
  PROVE  Below(p, stk[p], 0)
  BY DEF Below

\* Under the top frame are the frames below it.
LEMMA TailBelow ==
  ASSUME TypeOK, NEW p \in Slots, stk[p] # <<>>
  PROVE  Below(p, Tail(stk[p]), 1)
<1>1. stk[p] \in Seq(Frames)
  BY DEF TypeOK
<1> QED
  BY <1>1 DEF Below

\* A running process goes to sleep.
LEMMA BlockInv ==
  ASSUME IInv, NEW p \in Slots, proc = p, ~killed[p],
         NEW below, NEW k \in {0, 1}, Below(p, below, k),
         NEW f \in Frames, f.np = 0, f.at \in {"wait", "sleep"},
         Block(p, f, below),
         NEW c \in Chans, chan' = [chan EXCEPT ![p] = c],
         c = TicksChan => f.rem > 0,
         c = p => \A q \in Slots : parent[q] = p => state[q] # "ZOMBIE",
         state' = [state EXCEPT ![p] = "SLEEPING"], Sched,
         UNCHANGED <<pid, parent, killed, nextpid, sp, panicked>>
  PROVE  IInv'
<1>1. state[p] = "RUNNING"
  BY Runs
<1>2. /\ stk' \in [Slots -> Seq(Frames)] /\ Others(p) /\ Shift(p, 1, k - 1)
      /\ stk'[p] # <<>> /\ Head(stk'[p]) = f /\ stk'[p][1] = f
  <2>1. TypeOK
    BY DEF IInv
  <2> QED
    BY <2>1, BlockBelow
<1>3. \A q \in Slots : state[q] = "EMBRYO" => state'[q] = "EMBRYO"
  BY <1>1 DEF IInv, TypeOK
<1>4. stk'[p][1].at \notin ForkLabels /\ stk'[p][1].at # "exit" /\ stk'[p][1].np = 0
  BY <1>2 DEF ForkLabels
<1>5. k - 1 \in -1 .. 1 /\ (panicked => panicked')
  OBVIOUS
<1>6. StackInv'
  BY <1>1, <1>2, <1>3, <1>4, <1>5, Parts, QuietStack DEF Quiet
<1>7. TypeOK'
  BY <1>2, Zenon DEF IInv, TypeOK, States, Sched
<1>8. TableInv'
  BY <1>1, Parts DEF TypeOK, Sched, NoProc, Slots, TableInv, NotOwnParent, ParentsLive, Live,
       SleepersHaveChan, NoMissedExit, KilledNotAsleep
<1>9. Stopped'
  <2>1. TypeOK /\ Stopped
    BY Parts
  <2>2. \A q \in Slots \ {p} : state'[q] = state[q] /\ chan'[q] = chan[q] /\ stk'[q] = stk[q]
    BY <1>2, <2>1, Zenon DEF TypeOK, Others
  <2>3. chan'[p] = c
    BY <2>1, Zenon DEF TypeOK
  <2> QED
    BY <1>2, <2>1, <2>2, <2>3 DEF Stopped
<1> QED
  BY <1>6, <1>7, <1>8, <1>9, PartsPrime

\* sys_sleep's loop returns, or sleeps with ticks left.
LEMMA SleepLoopInv ==
  ASSUME IInv, NEW p \in Slots, proc = p, NEW rem \in 0 .. MaxSleep,
         NEW below, NEW k \in {0, 1}, Below(p, below, k), SleepLoop(p, rem, below)
  PROVE  IInv'
<1>1. CASE (rem = 0 \/ killed[p]) /\ stk' = [stk EXCEPT ![p] = below] /\ UNCHANGED <<state, chan, proc, ptlock>>
  <2>1. stk' \in [Slots -> Seq(Frames)] /\ Others(p) /\ Shift(p, 0, k)
    BY <1>1, ReturnBelow, Zenon DEF IInv
  <2>2. /\ UNCHANGED <<table, proc, sp>> /\ ptlock' \in BOOLEAN /\ panicked' \in BOOLEAN
        /\ panicked => panicked'
    BY <1>1 DEF SleepLoop, table, IInv, TypeOK
  <2> QED
    BY <2>1, <2>2, StackOnly
<1>2. CASE /\ rem > 0 /\ ~killed[p] /\ chan' = [chan EXCEPT ![p] = TicksChan]
           /\ state' = [state EXCEPT ![p] = "SLEEPING"]
           /\ stk' = [stk EXCEPT ![p] = <<Frame("sleep", 0, rem)>> \o below] /\ Sched
  <2> DEFINE f == Frame("sleep", 0, rem)
  <2>1. f \in Frames /\ f.np = 0 /\ f.at \in {"wait", "sleep"} /\ f.rem > 0
    BY <1>2 DEF Frame, Frames, Labels
  <2>2. TicksChan \in Chans /\ TicksChan # p
    BY ProcAssumption DEF Chans, TicksChan, Slots
  <2>3. Block(p, f, below)
    BY <1>2 DEF Block
  <2>4. UNCHANGED <<pid, parent, killed, nextpid, sp, panicked>>
    BY DEF SleepLoop
  <2> HIDE DEF f
  <2> QED
    BY <1>2, <2>1, <2>2, <2>3, <2>4, BlockInv, Zenon
<1> QED
  BY <1>1, <1>2 DEF SleepLoop

\* sys_sleep enters its loop.
LEMMA SysSleepInv ==
  ASSUME IInv, NEW p \in Slots, NEW n \in 0 .. MaxSleep, SysSleep(p, n)
  PROVE  IInv'
  BY NoFrames, SleepLoopInv DEF SysSleep, UserMode, Running

\* sleep retakes tickslock and sys_sleep's loop goes on.
LEMMA SleepRelockInv ==
  ASSUME IInv, NEW p \in Slots, SleepRelock(p)
  PROVE  IInv'
<1>1. proc = p /\ stk[p] # <<>> /\ SleepLoop(p, Top(p).rem, Tail(stk[p]))
  BY DEF SleepRelock, At, Running
<1>2. Top(p).rem \in 0 .. MaxSleep /\ Below(p, Tail(stk[p]), 1)
  BY <1>1, TopFacts, TailBelow DEF IInv
<1> QED
  BY <1>1, <1>2, SleepLoopInv

\* wait: reap a zombie, fail, or sleep.
LEMMA WaitLoopInv ==
  ASSUME IInv, NEW p \in Slots, proc = p,
         NEW below, NEW k \in {0, 1}, Below(p, below, k), WaitLoop(p, below)
  PROVE  IInv'
<1> DEFINE kids    == {q \in Slots : parent[q] = p}
           zombies == {q \in kids : state[q] = "ZOMBIE"}
           Reaped(q) ==
                      /\ state' = [state EXCEPT ![q] = "UNUSED"]
                      /\ pid' = [pid EXCEPT ![q] = 0]
                      /\ parent' = [parent EXCEPT ![q] = NoProc]
                      /\ killed' = [killed EXCEPT ![q] = FALSE]
                      /\ chan' = [chan EXCEPT ![p] = 0]
                      /\ stk' = [stk EXCEPT ![p] = below]
                      /\ ptlock' = FALSE /\ proc' = proc
           Failed  == /\ chan' = [chan EXCEPT ![p] = 0]
                      /\ stk' = [stk EXCEPT ![p] = below]
                      /\ ptlock' = FALSE
                      /\ UNCHANGED <<state, pid, parent, killed, proc>>
           Slept   == /\ ~killed[p]
                      /\ chan' = [chan EXCEPT ![p] = p]
                      /\ state' = [state EXCEPT ![p] = "SLEEPING"]
                      /\ stk' = [stk EXCEPT ![p] = <<Frame("wait", 0, 0)>> \o below]
                      /\ Sched
                      /\ UNCHANGED <<pid, parent, killed>>
<1>1. /\ \/ \E q \in zombies : Reaped(q)
         \/ zombies = {} /\ Failed
         \/ zombies = {} /\ Slept
      /\ UNCHANGED <<nextpid, sp, panicked>>
  BY Zenon DEF WaitLoop
<1>2. state[p] = "RUNNING" /\ TypeOK
  BY Runs DEF IInv
<1>4. ASSUME NEW q \in Slots, parent[q] = p, state[q] = "ZOMBIE", Reaped(q)
      PROVE  IInv'
  <2>1. stk' \in [Slots -> Seq(Frames)] /\ Others(p) /\ Shift(p, 0, k)
    BY <1>2, <1>4, ReturnBelow, Zenon
  <2>2. \A r \in Slots : state[r] = "EMBRYO" => state'[r] = "EMBRYO"
    BY <1>2, <1>4 DEF TypeOK
  <2>3. panicked => panicked'
    BY <1>1
  <2>4. StackInv'
    BY <1>2, <2>1, <2>2, <2>3, Parts, QuietStack DEF Quiet
  <2>5. TypeOK'
    <3>1. state' \in [Slots -> States] /\ pid' \in [Slots -> 0 .. MaxPid]
      BY <1>2, <1>4, ProcAssumption DEF TypeOK, States
    <3>2. parent' \in [Slots -> Slots \cup {NoProc}] /\ killed' \in [Slots -> BOOLEAN]
      BY <1>2, <1>4 DEF TypeOK
    <3>3. chan' \in [Slots -> Chans \cup {0}]
      BY <1>2, <1>4 DEF TypeOK
    <3> QED
      BY <1>1, <1>2, <1>4, <2>1, <3>1, <3>2, <3>3, Zenon DEF TypeOK
  <2>6. TableInv'
    <3>1. \A r \in Slots : state'[r] = IF r = q THEN "UNUSED" ELSE state[r]
      BY <1>2, <1>4 DEF TypeOK
    <3>2. \A r \in Slots : parent'[r] = IF r = q THEN NoProc ELSE parent[r]
      BY <1>2, <1>4 DEF TypeOK
    <3>3. \A r \in Slots : chan'[r] = IF r = p THEN 0 ELSE chan[r]
      BY <1>2, <1>4 DEF TypeOK
    <3>4. \A r \in Slots : killed'[r] = IF r = q THEN FALSE ELSE killed[r]
      BY <1>2, <1>4 DEF TypeOK
    <3>5. proc' = p /\ 0 \notin Slots
      BY <1>4 DEF Slots
    <3>6. TableInv
      BY Parts
    <3> HIDE DEF zombies, kids
    <3>7. parent' \in [Slots -> Slots \cup {NoProc}]
      BY <2>5 DEF TypeOK
    <3>8. ParentsLive'
      BY <1>2, <1>4, <3>1, <3>2, <3>6, <3>7 DEF TableInv, ParentsLive, Live, NoProc
    <3>9. NotOwnParent' /\ SleepersHaveChan' /\ NoMissedExit' /\ KilledNotAsleep'
      BY <1>2, <1>4, <3>1, <3>2, <3>3, <3>4, <3>5, <3>6 DEF TableInv, NotOwnParent,
           SleepersHaveChan,
           NoMissedExit, KilledNotAsleep, NoProc
    <3>10. initproc \in Slots
      BY ProcAssumption DEF initproc, Slots
    <3> QED
      BY <1>2, <1>4, <3>1, <3>2, <3>5, <3>6, <3>8, <3>9, <3>10 DEF TableInv, Live
  <2>7. Stopped'
    BY <1>2, <1>4, <2>1, Parts DEF TypeOK, Stopped, Others
  <2> QED
    BY <2>4, <2>5, <2>6, <2>7, PartsPrime
<1>5. CASE zombies = {} /\ Failed
  <2>1. stk' \in [Slots -> Seq(Frames)] /\ Others(p) /\ Shift(p, 0, k)
    BY <1>2, <1>5, ReturnBelow, Zenon
  <2>2. (panicked => panicked') /\ \A r \in Slots : state[r] = "EMBRYO" => state'[r] = "EMBRYO"
    BY <1>1, <1>5
  <2>3. StackInv'
    BY <1>2, <2>1, <2>2, Parts, QuietStack DEF Quiet
  <2>4. TypeOK'
    BY <1>1, <1>2, <1>5, <2>1, Zenon DEF TypeOK
  <2>5. TableInv'
    BY <1>2, <1>5, Parts DEF TypeOK, TableInv, NotOwnParent, ParentsLive, Live, SleepersHaveChan,
         NoMissedExit, KilledNotAsleep
  <2>6. Stopped'
    BY <1>2, <1>5, <2>1, Parts DEF TypeOK, Stopped, Others
  <2> QED
    BY <2>3, <2>4, <2>5, <2>6, PartsPrime
<1>6. CASE zombies = {} /\ Slept
  <2> DEFINE f == Frame("wait", 0, 0)
  <2>1. f \in Frames /\ f.np = 0 /\ f.at \in {"wait", "sleep"}
    BY ProcAssumption DEF Frame, Frames, Labels
  <2>2. p \in Chans /\ TicksChan # p
    BY ProcAssumption DEF Chans, TicksChan, Slots
  <2>3. Block(p, f, below)
    BY <1>6 DEF Block
  <2>4. \A r \in Slots : parent[r] = p => state[r] # "ZOMBIE"
    BY <1>6
  <2>5. UNCHANGED <<pid, parent, killed, nextpid, sp, panicked>>
    BY <1>1, <1>6
  <2> HIDE DEF f
  <2> QED
    BY <1>6, <2>1, <2>2, <2>3, <2>4, <2>5, BlockInv, Zenon
<1> QED
  BY <1>1, <1>4, <1>5, <1>6, Zenon

\* wait enters its loop.
LEMMA SysWaitInv ==
  ASSUME IInv, NEW p \in Slots, SysWait(p)
  PROVE  IInv'
  BY NoFrames, WaitLoopInv DEF SysWait, UserMode, Running

\* wait is woken and scans again.
LEMMA WaitResumeInv ==
  ASSUME IInv, NEW p \in Slots, WaitResume(p)
  PROVE  IInv'
<1>1. proc = p /\ stk[p] # <<>> /\ WaitLoop(p, Tail(stk[p]))
  BY DEF WaitResume, Resumed
<1>2. Below(p, Tail(stk[p]), 1)
  BY <1>1, TailBelow DEF IInv
<1> QED
  BY <1>1, <1>2, WaitLoopInv

=============================================================================
