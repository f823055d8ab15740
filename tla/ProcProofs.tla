----------------------------- MODULE ProcProofs -----------------------------
(***************************************************************************)
(* Proofs about the process table, for any number of slots and any bounds. *)
(* After the steps of ProcSteps come those of fork and exit and the timer  *)
(* interrupt, then the theorems; the last section proves that Proc         *)
(* implements SleepWakeup.                                                 *)
(***************************************************************************)
EXTENDS ProcSteps

\* A step of fork: p's top frame, if n = 1, is that of a fork which makes np;
\* np's stack may get the frame of forkret; every other frame was there and
\* belongs to another fork or to none.
Covers(p, np, n, k) ==
  \A q \in Slots : \A i \in DOMAIN stk'[q] :
    \/ q = p /\ i = 1 /\ n = 1
    \/ q = np /\ stk'[q][i].np = 0 /\ stk'[q][i].at = "forkret"
    \/ Kept(p, k, q, i) /\ stk'[q][i].np # np

ForkTopIs(p, np, n) ==
  n = 1 =>
    /\ state'[np] = "EMBRYO"
    /\ stk'[p][1].np = np /\ stk'[p][1].at \in ForkLabels
    /\ stk'[p][1].at # "fork_kstack" => stk'[np] # <<>> /\ Head(stk'[np]).at = "forkret"

ForkRest(p, np) ==
  /\ panicked' = panicked
  /\ \A q \in Slots \ {np} : state[q] = "EMBRYO" => state'[q] = "EMBRYO"
  /\ \A q \in Slots \ {p, np} : stk'[q] = stk[q]

\* Such a step leaves every embryo to one fork,
LEMMA ForksOwner ==
  ASSUME StackInv, stk' \in [Slots -> Seq(Frames)], NEW p \in Slots, NEW np \in Slots, np # 0,
         NEW n \in {0, 1}, NEW k \in -1 .. 1,
         Covers(p, np, n, k), ForkTopIs(p, np, n), ForkRest(p, np)
  PROVE  ForkOwnsEmbryo'
<1> SUFFICES ASSUME NEW q \in Slots, NEW i \in DOMAIN stk'[q], stk'[q][i].np # 0
             PROVE  /\ state'[stk'[q][i].np] = "EMBRYO"
                    /\ \A r \in Slots : \A j \in DOMAIN stk'[r] :
                         stk'[r][j].np = stk'[q][i].np => r = q /\ j = i
  BY DEF ForkOwnsEmbryo
<1>1. i \in Nat /\ stk'[q][i].np \in Slots
  BY NewFrames
<1>2. CASE q = p /\ i = 1 /\ n = 1
  BY <1>2 DEF Covers, ForkTopIs
<1>3. CASE Kept(p, k, q, i) /\ stk'[q][i].np # np
  <2>1. state[stk'[q][i].np] = "EMBRYO"
    <3>1. Says(stk'[q][i])
      BY <1>3, KeptFrame, Zenon
    <3> QED
      BY <3>1 DEF Says
  <2>2. state'[stk'[q][i].np] = "EMBRYO"
    BY <1>1, <1>3, <2>1 DEF ForkRest
  <2>3. ASSUME NEW r \in Slots, NEW j \in DOMAIN stk'[r], stk'[r][j].np = stk'[q][i].np
        PROVE  r = q /\ j = i
    <3>1. Kept(p, k, r, j)
      BY <1>3, <2>3 DEF Covers, ForkTopIs
    <3>2. j \in Nat
      BY NewFrames
    <3> QED
      BY <1>1, <1>3, <2>3, <3>1, <3>2, KeptOwner, Zenon
  <2> QED
    BY <2>2, <2>3
<1> QED
  BY <1>2, <1>3 DEF Covers

\* gives every frame of fork the stack its child needs,
LEMMA ForksFrames ==
  ASSUME StackInv, stk' \in [Slots -> Seq(Frames)], NEW p \in Slots, NEW np \in Slots, np # 0,
         state[p] # "EMBRYO", NEW n \in {0, 1}, NEW k \in -1 .. 1,
         Covers(p, np, n, k), ForkTopIs(p, np, n), ForkRest(p, np)
  PROVE  ForkFrames'
<1> SUFFICES ASSUME NEW q \in Slots, NEW i \in DOMAIN stk'[q], NEW g, g = stk'[q][i]
             PROVE  /\ g.np # 0 <=> g.at \in ForkLabels
                    /\ g.at \in ForkLabels \ {"fork_kstack"} =>
                         stk'[g.np] # <<>> /\ Head(stk'[g.np]).at = "forkret"
  BY DEF ForkFrames, Top
<1>1. CASE q = p /\ i = 1 /\ n = 1
  BY <1>1 DEF ForkTopIs
<1>2. CASE g.np = 0 /\ g.at = "forkret"
  BY <1>2 DEF ForkLabels
<1>3. CASE Kept(p, k, q, i) /\ g.np # np
  <2>1. Says(g)
    BY <1>3, KeptFrame, Zenon
  <2>2. g.np # 0 => g.np \in Slots
    BY NewFrames
  <2>3. g.np # 0 => stk'[g.np] = stk[g.np]
    BY <1>3, <2>1, <2>2 DEF Says, ForkRest
  <2> QED
    BY <2>1, <2>3 DEF Says
<1> QED
  BY <1>1, <1>2, <1>3 DEF Covers

\* and leaves init out of exit.
LEMMA ForksStack ==
  ASSUME StackInv, stk' \in [Slots -> Seq(Frames)], NEW p \in Slots, NEW np \in Slots, np # 0,
         state[p] # "EMBRYO", NEW n \in {0, 1}, NEW k \in -1 .. 1,
         Covers(p, np, n, k), ForkTopIs(p, np, n), ForkRest(p, np)
  PROVE  StackInv'
<1>1. initproc \in Slots
  BY ProcAssumption DEF initproc, Slots
<1>2. ASSUME NEW i \in DOMAIN stk'[initproc], stk'[initproc][i].at = "exit"
      PROVE  panicked'
  <2>1. Kept(p, k, initproc, i)
    BY <1>1, <1>2 DEF Covers, ForkTopIs, ForkLabels
  <2> QED
    BY <1>2, <2>1, KeptInit, Zenon DEF ForkRest
<1> QED
  BY <1>2, ForksOwner, ForksFrames DEF StackInv

\* The frame of a fork in progress: its slot is EMBRYO, not p's own, and no
\* other frame has it.
LEMMA ForkTop ==
  ASSUME IInv, NEW p \in Slots, proc = p, stk[p] # <<>>, Top(p).at \in ForkLabels
  PROVE  /\ Top(p).np \in Slots /\ state[Top(p).np] = "EMBRYO" /\ Top(p).np # p
         /\ \A q \in Slots : \A j \in DOMAIN stk[q] :
              stk[q][j].np = Top(p).np => q = p /\ j = 1
<1>1. TypeOK /\ ForkFrames /\ ForkOwnsEmbryo
  BY DEF IInv
<1>2. 1 \in DOMAIN stk[p] /\ Top(p) = stk[p][1] /\ Top(p).np \in Slots \cup {0}
  BY <1>1, TopFacts
<1>3. Top(p).np # 0
  BY <1>1, <1>2 DEF ForkFrames
<1>4. state[p] = "RUNNING"
  BY Runs
<1>5. /\ state[Top(p).np] = "EMBRYO"
      /\ \A q \in Slots : \A j \in DOMAIN stk[q] : stk[q][j].np = Top(p).np => q = p /\ j = 1
  BY <1>1, <1>2, <1>3 DEF ForkOwnsEmbryo
<1> QED
  BY <1>2, <1>3, <1>4, <1>5

\* allocproc claims a slot, or finds none.
LEMMA SysForkInv ==
  ASSUME IInv, NEW p \in Slots, SysFork(p)
  PROVE  IInv'
<1> DEFINE free == {q \in Slots : state[q] = "UNUSED"}
<1>1. proc = p /\ nextpid <= MaxPid /\ UNCHANGED <<proc, sp, ptlock, panicked>>
  BY DEF SysFork, UserMode, Running
<1>2. TypeOK /\ TableInv /\ Stopped /\ StackInv
  BY Parts
<1>3. CASE free = {} /\ UNCHANGED <<table, stk>>
  <2>1. StackInv'
    BY <1>1, <1>3, SameStacks DEF table
  <2>2. TypeOK' /\ TableInv' /\ Stopped'
    BY <1>1, <1>2, <1>3 DEF table, TypeOK, Stopped, TableInv, NotOwnParent, ParentsLive, Live,
         SleepersHaveChan, NoMissedExit, KilledNotAsleep
  <2> QED
    BY <2>1, <2>2, PartsPrime
<1>4. ASSUME NEW np \in Slots, state[np] = "UNUSED", state' = [state EXCEPT ![np] = "EMBRYO"],
             pid' = [pid EXCEPT ![np] = nextpid], Call(p, Frame("fork_kstack", np, 0)),
             nextpid' = nextpid + 1, UNCHANGED <<parent, chan, killed>>
      PROVE  IInv'
  <2> DEFINE f == Frame("fork_kstack", np, 0)
  <2>1. np \in Slots /\ state[np] = "UNUSED"
    BY <1>4
  <2>2. f \in Frames /\ f.np = np /\ f.at = "fork_kstack"
    BY <2>1, ProcAssumption DEF Frame, Frames, Labels, ForkLabels
  <2>c. Call(p, f)
    BY <1>4
  <2> HIDE DEF f, free
  <2>3. /\ stk' \in [Slots -> Seq(Frames)] /\ Others(p) /\ Shift(p, 1, -1)
        /\ stk'[p] # <<>> /\ stk'[p][1] = f /\ Head(stk'[p]) = f
    BY <1>2, <2>2, <2>c, CallFacts
  <2>4. state[p] = "RUNNING" /\ np # p /\ np # 0
    BY <1>1, <2>1, Runs DEF Slots
  <2>5. TypeOK'
    <3>1. nextpid \in 0 .. MaxPid /\ nextpid' \in 1 .. MaxPid + 1
      BY <1>1, <1>2, <1>4, ProcAssumption DEF TypeOK
    <3>2. state' \in [Slots -> States] /\ pid' \in [Slots -> 0 .. MaxPid]
      BY <1>2, <1>4, <2>1, <3>1 DEF TypeOK, States
    <3> QED
      BY <1>1, <1>2, <1>4, <2>3, <3>1, <3>2 DEF TypeOK
  <2>6. TableInv'
    BY <1>1, <1>2, <1>4, <2>1 DEF TypeOK, TableInv, NotOwnParent, ParentsLive, Live,
         SleepersHaveChan, NoMissedExit, KilledNotAsleep
  <2>7. Stopped'
    BY <1>2, <1>4, <2>1, <2>3, <2>4, Zenon DEF TypeOK, Stopped, Others
  <2>8. StackInv'
    <3>1. \A q \in Slots : \A i \in DOMAIN stk[q] : stk[q][i].np # np
      BY <1>2, <2>1, <2>4 DEF StackInv, ForkOwnsEmbryo
    <3>2. Covers(p, np, 1, -1)
      <4> SUFFICES ASSUME NEW q \in Slots, NEW i \in DOMAIN stk'[q], ~(q = p /\ i = 1)
                   PROVE  Kept(p, -1, q, i) /\ stk'[q][i].np # np
        BY DEF Covers
      <4>1. i \in Nat \ {0}
        BY <2>3, NewFrames
      <4>2. Place(p, -1, q, i) \in DOMAIN stk[q] /\ stk'[q][i] = stk[q][Place(p, -1, q, i)]
        BY <2>3, <4>1 DEF Others, Shift, Place
      <4> QED
        BY <3>1, <4>2 DEF Kept, Same
    <3>3. ForkTopIs(p, np, 1)
      BY <1>2, <1>4, <2>2, <2>3 DEF ForkTopIs, ForkLabels, TypeOK
    <3>4. ForkRest(p, np)
      BY <1>1, <1>2, <1>4, <2>3 DEF ForkRest, Others, TypeOK
    <3> QED
      BY <1>2, <2>3, <2>4, <3>2, <3>3, <3>4, ForksStack
  <2> QED
    BY <2>5, <2>6, <2>7, <2>8, PartsPrime
<1> QED
  BY <1>3, <1>4, Zenon DEF SysFork, Claimed

\* The child's stack holds the frame of forkret and what it held.
ChildStack(np) ==
  \A i \in DOMAIN stk'[np] :
    \/ stk'[np][i].np = 0 /\ stk'[np][i].at = "forkret"
    \/ i \in DOMAIN stk[np] /\ stk'[np][i] = stk[np][i]

\* fork moves on, or ends, with its own slot.
LEMMA ForkStep ==
  ASSUME IInv, NEW p \in Slots, proc = p, stk[p] # <<>>, Top(p).at \in ForkLabels,
         NEW np, np = Top(p).np, NEW n \in {0, 1},
         stk' \in [Slots -> Seq(Frames)], Shift(p, n, 1 - n),
         ChildStack(np), ForkTopIs(p, np, n), ForkRest(p, np)
  PROVE  StackInv'
<1>1. /\ np \in Slots /\ np # p /\ np # 0
      /\ \A q \in Slots : \A j \in DOMAIN stk[q] : stk[q][j].np = np => q = p /\ j = 1
  BY ForkTop DEF Slots
<1>2. state[p] = "RUNNING" /\ StackInv
  BY Runs, Parts
<1>3. Covers(p, np, n, 1 - n)
  <2> SUFFICES ASSUME NEW q \in Slots, NEW i \in DOMAIN stk'[q], ~(q = p /\ i = 1 /\ n = 1),
                      ~(q = np /\ stk'[q][i].np = 0 /\ stk'[q][i].at = "forkret")
               PROVE  Kept(p, 1 - n, q, i) /\ stk'[q][i].np # np
    BY DEF Covers
  <2>1. i \in Nat \ {0}
    BY NewFrames
  <2>2. CASE q = p
    <3>1. i > n
      BY <2>1, <2>2
    <3>2. i + (1 - n) \in DOMAIN stk[q] /\ stk'[q][i] = stk[q][i + (1 - n)]
      BY <2>2, <3>1 DEF Shift
    <3>3. i + (1 - n) # 1
      BY <2>1, <3>1
    <3> QED
      BY <1>1, <2>2, <3>2, <3>3 DEF Kept, Place, Same
  <2>3. CASE q # p
    <3>1. i \in DOMAIN stk[q] /\ stk'[q][i] = stk[q][i]
      BY <2>3 DEF ForkRest, ChildStack
    <3> QED
      BY <1>1, <2>3, <3>1 DEF Kept, Place, Same
  <2> QED
    BY <2>2, <2>3
<1> QED
  BY <1>1, <1>2, <1>3, 1 - n \in -1 .. 1, ForksStack

\* allocproc or copyuvm fails.
LEMMA ForkFailInv ==
  ASSUME IInv, NEW p \in Slots, ForkFail(p)
  PROVE  IInv'
<1> DEFINE np == Top(p).np
<1>1. /\ proc = p /\ stk[p] # <<>> /\ Top(p).at \in ForkLabels
      /\ state' = [state EXCEPT ![np] = "UNUSED"]
      /\ UNCHANGED <<pid, parent, chan, killed, nextpid, proc, sp, ptlock, panicked>>
  BY DEF ForkFail, At, Running, ForkLabels
<1>2. np \in Slots /\ state[np] = "EMBRYO" /\ np # p
  BY <1>1, ForkTop
<1>3. TypeOK /\ TableInv /\ Stopped /\ StackInv
  BY Parts
<1> DEFINE t == Tail(stk[p])
<1>4. t \in Seq(Frames) /\ \A i \in DOMAIN t : i + 1 \in DOMAIN stk[p] /\ t[i] = stk[p][i + 1]
  <2>1. stk[p] \in Seq(Frames)
    BY <1>3 DEF TypeOK
  <2> QED
    BY <1>1, <2>1
<1> DEFINE u == <<>>
<1>5. stk' = [stk EXCEPT ![p] = t, ![np] = u] /\ u \in Seq(Frames) /\ DOMAIN u = {}
  BY DEF ForkFail
<1> HIDE DEF t, u, np
<1>6. /\ stk' \in [Slots -> Seq(Frames)] /\ stk'[np] = u /\ stk'[p] = t
      /\ \A q \in Slots \ {p, np} : stk'[q] = stk[q]
  BY <1>2, <1>3, <1>4, <1>5, Zenon DEF TypeOK
<1>7. Shift(p, 0, 1)
  BY <1>4, <1>6 DEF Shift
<1>8. \A q \in Slots \ {np} : state'[q] = state[q]
  BY <1>1, <1>3 DEF TypeOK
<1>9. np = Top(p).np /\ 1 - 0 = 1 /\ DOMAIN stk'[np] = {}
  BY <1>5, <1>6 DEF np
<1>10. StackInv'
  <2>1. ChildStack(np) /\ ForkTopIs(p, np, 0) /\ ForkRest(p, np)
    BY <1>1, <1>6, <1>8, <1>9 DEF ChildStack, ForkTopIs, ForkRest
  <2> QED
    BY <1>1, <1>6, <1>7, <1>9, <2>1, ForkStep
<1>11. TypeOK'
  BY <1>1, <1>2, <1>3, <1>6 DEF TypeOK, States
<1>12. TableInv'
  BY <1>1, <1>2, <1>3 DEF TypeOK, TableInv, NotOwnParent, ParentsLive, Live, SleepersHaveChan,
       NoMissedExit, KilledNotAsleep
<1>13. Stopped'
  BY <1>1, <1>2, <1>3, <1>6, Runs DEF TypeOK, Stopped
<1> QED
  BY <1>10, <1>11, <1>12, <1>13, PartsPrime

\* allocproc builds the child's stack.
LEMMA ForkKstackInv ==
  ASSUME IInv, NEW p \in Slots, ForkKstack(p)
  PROVE  IInv'
<1> DEFINE np == Top(p).np
           f  == Frame("fork_copyuvm", np, 0)
           c  == Frame("forkret", 0, 0)
           t  == <<f>> \o Tail(stk[p])
           u  == <<c>>
<1>1. /\ proc = p /\ stk[p] # <<>> /\ Top(p).at \in ForkLabels
      /\ UNCHANGED <<table, proc, sp, ptlock, panicked>>
  BY DEF ForkKstack, At, Running, ForkLabels
<1>2. np \in Slots /\ state[np] = "EMBRYO" /\ np # p /\ state[p] = "RUNNING"
  BY <1>1, ForkTop, Runs
<1>3. TypeOK /\ TableInv /\ Stopped /\ StackInv
  BY Parts
<1>4. f \in Frames /\ f.np = np /\ f.at = "fork_copyuvm" /\ c \in Frames /\ c.np = 0 /\ c.at = "forkret"
  BY <1>2, ProcAssumption DEF Frame, Frames, Labels, ForkLabels
<1> HIDE DEF f, c
<1>5. /\ t \in Seq(Frames) /\ t[1] = f
      /\ \A i \in DOMAIN t : i > 1 => i \in DOMAIN stk[p] /\ t[i] = stk[p][i]
  <2>1. stk[p] \in Seq(Frames)
    BY <1>3 DEF TypeOK
  <2> QED
    BY <1>1, <1>4, <2>1
<1>6. u \in Seq(Frames) /\ u # <<>> /\ Head(u) = c /\ DOMAIN u = {1} /\ u[1] = c
  BY <1>4
<1>7. stk' = [stk EXCEPT ![p] = t, ![np] = u]
  BY DEF ForkKstack, f, c
<1> HIDE DEF t, np, u
<1>8. /\ stk' \in [Slots -> Seq(Frames)] /\ stk'[np] = u /\ stk'[p] = t
      /\ \A q \in Slots \ {p, np} : stk'[q] = stk[q]
  BY <1>2, <1>3, <1>5, <1>6, <1>7, Zenon DEF TypeOK
<1>9. Shift(p, 1, 1 - 1)
  <2>1. \A i \in DOMAIN t : i + (1 - 1) = i
    BY <1>5
  <2> QED
    BY <1>5, <1>8, <2>1 DEF Shift
<1>10. np = Top(p).np /\ f.at \in ForkLabels /\ state' = state /\ panicked' = panicked
  BY <1>1, <1>4 DEF np, table, ForkLabels
<1>11. StackInv'
  <2>1. ChildStack(np)
    BY <1>4, <1>6, <1>8 DEF ChildStack
  <2>2. ForkTopIs(p, np, 1)
    BY <1>2, <1>4, <1>5, <1>6, <1>8, <1>10 DEF ForkTopIs
  <2>3. ForkRest(p, np)
    BY <1>8, <1>10 DEF ForkRest
  <2> QED
    BY <1>1, <1>8, <1>9, <1>10, <2>1, <2>2, <2>3, ForkStep
<1>12. TypeOK' /\ TableInv'
  <2>1. TypeOK'
    BY <1>1, <1>3, <1>8, Zenon DEF table, TypeOK
  <2> QED
    BY <1>1, <1>3, <2>1, Zenon DEF table, TableInv, NotOwnParent, ParentsLive, Live,
         SleepersHaveChan, NoMissedExit, KilledNotAsleep
<1>13. Stopped'
  BY <1>1, <1>2, <1>3, <1>8, Zenon DEF table, TypeOK, Stopped
<1> QED
  BY <1>11, <1>12, <1>13, PartsPrime

\* A step of fork after allocproc that stays in fork.
LEMMA ForkGoto ==
  ASSUME IInv, NEW p \in Slots, proc = p, stk[p] # <<>>, NEW l \in ForkLabels,
         Top(p).at \in ForkLabels \ {"fork_kstack"}, Goto(p, l), UNCHANGED <<state, panicked>>
  PROVE  /\ StackInv' /\ stk' \in [Slots -> Seq(Frames)]
         /\ Others(p)
<1> DEFINE np == Top(p).np
<1>1. np \in Slots /\ state[np] = "EMBRYO" /\ np # p
  BY ForkTop
<1>2. TypeOK /\ TableInv /\ Stopped /\ StackInv
  BY Parts
<1>3. l \in Labels
  BY DEF Labels
<1>4. /\ stk' \in [Slots -> Seq(Frames)] /\ Others(p) /\ Shift(p, 1, 0)
      /\ stk'[p][1].at = l /\ stk'[p][1].np = np
  BY <1>2, <1>3, GotoFacts
<1>5. stk[np] # <<>> /\ Head(stk[np]).at = "forkret"
  BY <1>2, TopFacts DEF StackInv, ForkFrames, Top
<1>6. stk'[np] = stk[np] /\ \A q \in Slots \ {p, np} : stk'[q] = stk[q]
  BY <1>1, <1>4 DEF Others
<1> HIDE DEF np
<1>7. np = Top(p).np /\ 1 - 1 = 0
  BY DEF np
<1>8. StackInv'
  <2>1. ChildStack(np) /\ ForkTopIs(p, np, 1) /\ ForkRest(p, np)
    BY <1>1, <1>4, <1>5, <1>6 DEF ChildStack, ForkTopIs, ForkRest
  <2> QED
    BY <1>4, <1>7, <2>1, ForkStep
<1> QED
  BY <1>4, <1>8

\* fork has copied the address space.
LEMMA ForkCopyuvmInv ==
  ASSUME IInv, NEW p \in Slots, ForkCopyuvm(p)
  PROVE  IInv'
<1>1. /\ proc = p /\ stk[p] # <<>> /\ Top(p).at = "fork_copyuvm" /\ Goto(p, "fork_parent")
      /\ UNCHANGED <<table, proc, sp, ptlock, panicked>>
  BY DEF ForkCopyuvm, At, Running
<1>2. StackInv' /\ stk' \in [Slots -> Seq(Frames)] /\ Others(p)
  BY <1>1, ForkGoto DEF ForkLabels, table
<1>3. TypeOK /\ TableInv /\ Stopped /\ state[p] = "RUNNING"
  BY <1>1, Parts, Runs
<1>4. TypeOK' /\ TableInv'
  BY <1>1, <1>2, <1>3 DEF table, TypeOK, TableInv, NotOwnParent, ParentsLive, Live,
       SleepersHaveChan, NoMissedExit, KilledNotAsleep
<1>5. Stopped'
  BY <1>1, <1>2, <1>3, Zenon DEF table, Stopped, Others
<1> QED
  BY <1>2, <1>4, <1>5, PartsPrime

\* fork sets the child's parent: itself, a live process.
LEMMA ForkParentInv ==
  ASSUME IInv, NEW p \in Slots, ForkParent(p)
  PROVE  IInv'
<1>1. /\ proc = p /\ stk[p] # <<>> /\ Top(p).at = "fork_parent" /\ Goto(p, "fork_run")
      /\ parent' = [parent EXCEPT ![Top(p).np] = p]
      /\ UNCHANGED <<state, pid, chan, killed, nextpid, proc, sp, ptlock, panicked>>
  BY Zenon DEF ForkParent, At, Running
<1>2. StackInv' /\ stk' \in [Slots -> Seq(Frames)] /\ Others(p)
  BY <1>1, ForkGoto DEF ForkLabels
<1>3. TypeOK /\ TableInv /\ Stopped /\ state[p] = "RUNNING"
  BY <1>1, Parts, Runs
<1>4. Top(p).np \in Slots /\ state[Top(p).np] = "EMBRYO" /\ Top(p).np # p
  BY <1>1, ForkTop DEF ForkLabels
<1>5. TypeOK'
  BY <1>1, <1>2, <1>3, <1>4 DEF TypeOK
<1>6. TableInv'
  BY <1>1, <1>3, <1>4 DEF TypeOK, TableInv, NotOwnParent, ParentsLive, Live, SleepersHaveChan,
       NoMissedExit, KilledNotAsleep
<1>7. Stopped'
  BY <1>1, <1>2, <1>3 DEF Stopped, Others
<1> QED
  BY <1>2, <1>5, <1>6, <1>7, PartsPrime

\* The child is runnable, with a stack that leads to forkret.
LEMMA ForkRunInv ==
  ASSUME IInv, NEW p \in Slots, ForkRun(p)
  PROVE  IInv'
<1> DEFINE np == Top(p).np
<1>1. /\ proc = p /\ stk[p] # <<>> /\ Top(p).at = "fork_run" /\ Return(p)
      /\ state' = [state EXCEPT ![np] = "RUNNABLE"]
      /\ UNCHANGED <<pid, parent, chan, killed, nextpid, proc, sp, ptlock, panicked>>
  BY Zenon DEF ForkRun, At, Running
<1>2. TypeOK /\ TableInv /\ Stopped /\ StackInv /\ state[p] = "RUNNING"
  BY <1>1, Parts, Runs
<1>3. np \in Slots /\ state[np] = "EMBRYO" /\ np # p
  BY <1>1, ForkTop DEF ForkLabels
<1>4. stk[np] # <<>> /\ Head(stk[np]).at = "forkret"
  BY <1>1, <1>2, TopFacts DEF StackInv, ForkFrames, Top, ForkLabels
<1>5. stk' \in [Slots -> Seq(Frames)] /\ Others(p) /\ Shift(p, 0, 1)
  BY <1>1, <1>2, ReturnFacts
<1> HIDE DEF np
<1>6. stk'[np] = stk[np] /\ \A q \in Slots \ {p, np} : stk'[q] = stk[q]
  BY <1>3, <1>5 DEF Others
<1>7. np = Top(p).np /\ 1 - 0 = 1 /\ Top(p).at \in ForkLabels
  BY <1>1 DEF np, ForkLabels
<1>8. \A q \in Slots \ {np} : state'[q] = state[q]
  BY <1>1, <1>2 DEF TypeOK
<1>9. StackInv'
  <2>1. ChildStack(np) /\ ForkTopIs(p, np, 0) /\ ForkRest(p, np)
    BY <1>1, <1>6, <1>8 DEF ChildStack, ForkTopIs, ForkRest
  <2> QED
    BY <1>1, <1>5, <1>7, <2>1, ForkStep
<1>10. TypeOK'
  BY <1>1, <1>2, <1>3, <1>5 DEF TypeOK, States
<1>11. TableInv'
  BY <1>1, <1>2, <1>3 DEF TypeOK, TableInv, NotOwnParent, ParentsLive, Live, SleepersHaveChan,
       NoMissedExit, KilledNotAsleep
<1>12. Stopped'
  BY <1>1, <1>2, <1>3, <1>4, <1>5, <1>6 DEF TypeOK, Stopped, Others
<1> QED
  BY <1>9, <1>10, <1>11, <1>12, PartsPrime

\* exit: the wakeups come before ZOMBIE, in one section.
LEMMA ExitSchedInv ==
  ASSUME IInv, NEW p \in Slots, ExitSched(p)
  PROVE  IInv'
<1> DEFINE u == <<>>
<1>1. /\ proc = p /\ ~panicked /\ stk[p] # <<>> /\ Top(p).at = "exit"
      /\ state' = [ExitWakes(p) EXCEPT ![p] = "ZOMBIE"]
      /\ parent' = [q \in Slots |-> IF q \in Orphans(p) THEN initproc ELSE parent[q]]
      /\ stk' = [stk EXCEPT ![p] = u] /\ u \in Seq(Frames) /\ DOMAIN u = {}
      /\ proc' = NoProc /\ ptlock' = TRUE
      /\ UNCHANGED <<pid, chan, killed, nextpid, sp, panicked>>
  BY DEF ExitSched, At, Running, Sched
<1> HIDE DEF u
<1>2. TypeOK /\ TableInv /\ Stopped /\ StackInv /\ state[p] = "RUNNING"
  BY <1>1, Parts, Runs
<1>3. p # initproc /\ initproc \in Slots /\ 0 \notin Slots
  BY <1>1, <1>2, TopFacts, ProcAssumption DEF StackInv, initproc, Slots
<1>4. \A q \in Slots \ {p} :
        \/ state'[q] = state[q]
        \/ state[q] = "SLEEPING" /\ state'[q] = "RUNNABLE"
  BY <1>1, <1>2 DEF TypeOK, ExitWakes, Wakeup1
<1>5. state'[p] = "ZOMBIE" /\ state' \in [Slots -> States]
  BY <1>1, <1>2 DEF TypeOK, ExitWakes, Wakeup1, States
<1>6. \A q \in Slots \ {p} : state[q] = "SLEEPING" /\ chan[q] = parent[p] => state'[q] = "RUNNABLE"
  BY <1>1, <1>2 DEF TypeOK, ExitWakes, Wakeup1
<1>7. (\E q \in Orphans(p) : state[q] = "ZOMBIE") =>
        \A q \in Slots \ {p} : state[q] = "SLEEPING" /\ chan[q] = initproc => state'[q] = "RUNNABLE"
  BY <1>1, <1>2 DEF TypeOK, ExitWakes, Wakeup1
<1>8. \A q \in Slots : parent'[q] = IF parent[q] = p THEN initproc ELSE parent[q]
  BY <1>1 DEF Orphans
<1>9. stk' \in [Slots -> Seq(Frames)] /\ Others(p) /\ Shift(p, 0, 0)
  BY <1>1, <1>2 DEF TypeOK, Others, Shift
<1>10. (panicked => panicked') /\ \A q \in Slots : state[q] = "EMBRYO" => state'[q] = "EMBRYO"
  BY <1>1, <1>2, <1>4
<1>11. StackInv'
  BY <1>2, <1>9, <1>10, Parts, QuietStack DEF Quiet
<1>12. TypeOK'
  <2>1. parent' \in [Slots -> Slots \cup {NoProc}]
    BY <1>1, <1>2, <1>3 DEF TypeOK
  <2> QED
    BY <1>1, <1>2, <1>5, <1>9, <2>1 DEF TypeOK
<1>13. NoMissedExit'
  <2> SUFFICES ASSUME NEW r \in Slots, NEW q \in Slots, state'[r] = "SLEEPING", chan[r] = r,
                      parent'[q] = r, state'[q] = "ZOMBIE"
               PROVE  FALSE
    BY <1>1 DEF NoMissedExit
  <2>1. r # p /\ state[r] = "SLEEPING"
    BY <1>4, <1>5
  <2>2. CASE q = p
    BY <2>1, <2>2, <1>2, <1>6, <1>8 DEF TableInv, NotOwnParent
  <2>3. CASE q # p /\ parent[q] = p
    <3>1. state[q] = "ZOMBIE" /\ r = initproc /\ q \in Orphans(p)
      BY <2>3, <1>4, <1>8 DEF Orphans
    <3> QED
      BY <2>1, <3>1, <1>7
  <2>4. CASE q # p /\ parent[q] # p
    BY <2>1, <2>4, <1>2, <1>4, <1>8 DEF TableInv, NoMissedExit
  <2> QED
    BY <2>2, <2>3, <2>4
<1>14. ParentsLive'
  <2> SUFFICES ASSUME NEW q \in Slots, parent'[q] # NoProc
               PROVE  state'[parent'[q]] \in Live
    BY DEF ParentsLive
  <2>1. CASE parent[q] = p
    BY <2>1, <1>2, <1>3, <1>4, <1>8 DEF TableInv, Live
  <2>2. CASE parent[q] # p
    <3>1. parent'[q] = parent[q] /\ parent[q] \in Slots \ {p} /\ state[parent[q]] \in Live
      BY <2>2, <1>2, <1>8 DEF TableInv, ParentsLive, TypeOK, NoProc
    <3> QED
      BY <3>1, <1>4 DEF Live
  <2> QED
    BY <2>1, <2>2
<1>15. state'[initproc] \in Live /\ parent'[initproc] = NoProc /\ NotOwnParent'
  BY <1>2, <1>3, <1>4, <1>8 DEF TableInv, Live, NotOwnParent, NoProc, Slots
<1>16. SleepersHaveChan' /\ KilledNotAsleep'
  BY <1>1, <1>2, <1>4, <1>5 DEF TableInv, SleepersHaveChan, KilledNotAsleep
<1>17. \A q \in Slots : state'[q] = "RUNNING" <=> proc' = q
  BY <1>1, <1>2, <1>3, <1>4, <1>5 DEF TableInv, NoProc
<1>18. TableInv'
  BY <1>13, <1>14, <1>15, <1>16, <1>17 DEF TableInv
<1>19. Stopped'
  BY <1>1, <1>2, <1>4, <1>5, <1>9 DEF Stopped, Others
<1> QED
  BY <1>11, <1>12, <1>18, <1>19, PartsPrime

\* A tick wakes every sleeper on &ticks and pushes at most the handler.
LEMMA TickInv ==
  ASSUME IInv, Tick
  PROVE  IInv'
<1>1. /\ ~ptlock /\ state' = Wakeup1(state, TicksChan)
      /\ UNCHANGED <<pid, parent, chan, killed, nextpid, proc, sp, ptlock, panicked>>
  BY DEF Tick
<1>2. TypeOK /\ TableInv /\ Stopped /\ StackInv
  BY Parts
<1>3. /\ state' \in [Slots -> States]
      /\ \A q \in Slots : state'[q] = IF state[q] = "SLEEPING" /\ chan[q] = TicksChan THEN "RUNNABLE" ELSE state[q]
  BY <1>1, <1>2 DEF TypeOK, Wakeup1, States
<1>4. TableInv'
  <2>1. \A q \in Slots : state[q] \in Live => state'[q] \in Live
    BY <1>3 DEF Live
  <2>2. /\ \A q \in Slots : state'[q] = "ZOMBIE" => state[q] = "ZOMBIE"
        /\ \A q \in Slots : state'[q] = "SLEEPING" => state[q] = "SLEEPING"
        /\ \A q \in Slots : state'[q] = "RUNNING" <=> state[q] = "RUNNING"
    BY <1>3
  <2>3. ParentsLive' /\ state'[initproc] \in Live
    BY <1>1, <1>2, <2>1, ProcAssumption DEF TypeOK, TableInv, ParentsLive, NoProc, initproc, Slots
  <2> QED
    BY <1>1, <1>2, <2>2, <2>3 DEF TableInv, NotOwnParent, SleepersHaveChan, NoMissedExit,
         KilledNotAsleep
<1> DEFINE f == Frame("timer", 0, 0)
<1>5. f \in Frames /\ f.np = 0 /\ f.at = "timer"
  BY ProcAssumption DEF Frame, Frames, Labels
<1>6. \A g \in Frames : Aged(g) \in Frames /\ Aged(g).at = g.at /\ Aged(g).np = g.np
  BY ProcAssumption DEF Frames, Frame, Aged
<1>7. /\ Ticked \in [Slots -> Seq(Frames)]
      /\ \A q \in Slots :
           /\ DOMAIN Ticked[q] = DOMAIN stk[q] /\ (Ticked[q] = <<>> <=> stk[q] = <<>>)
           /\ \A i \in DOMAIN stk[q] :
                 Ticked[q][i].at = stk[q][i].at /\ Ticked[q][i].np = stk[q][i].np
  <2> SUFFICES ASSUME NEW q \in Slots
               PROVE  /\ Ticked[q] \in Seq(Frames)
                      /\ DOMAIN Ticked[q] = DOMAIN stk[q] /\ (Ticked[q] = <<>> <=> stk[q] = <<>>)
                      /\ \A i \in DOMAIN stk[q] :
                            Ticked[q][i].at = stk[q][i].at /\ Ticked[q][i].np = stk[q][i].np
    BY Zenon DEF Ticked
  <2>1. stk[q] \in Seq(Frames) /\ Ticked[q] = [i \in DOMAIN stk[q] |-> Aged(stk[q][i])]
    BY <1>2 DEF TypeOK, Ticked
  <2> HIDE DEF Ticked
  <2> QED
    BY <2>1, <1>6
<1>8. \A q \in Slots : Alike(Ticked[q], stk[q])
  <2> SUFFICES ASSUME NEW q \in Slots
               PROVE  stk[q] # <<>> => Head(Ticked[q]).at = Head(stk[q]).at
    BY <1>7 DEF Alike, Same
  <2>1. CASE stk[q] # <<>>
    <3>1. /\ stk[q] \in Seq(Frames) /\ Ticked[q] \in Seq(Frames)
          /\ Ticked[q] # <<>> /\ \A i \in DOMAIN stk[q] : Ticked[q][i].at = stk[q][i].at
      BY <2>1, <1>2, <1>7 DEF TypeOK
    <3>2. 1 \in DOMAIN stk[q] /\ Head(stk[q]) = stk[q][1] /\ Head(Ticked[q]) = Ticked[q][1]
      BY <2>1, <3>1
    <3> QED
      BY <3>1, <3>2
  <2> QED
    BY <2>1
<1>9. state[initproc] # "EMBRYO" /\ initproc \in Slots /\ NoProc \notin Slots
  BY <1>2, ProcAssumption DEF TableInv, Live, initproc, Slots, NoProc
<1>10. \A q \in Slots : state[q] = "EMBRYO" => state'[q] = "EMBRYO"
  BY <1>3
<1> HIDE DEF f
<1>11. CASE proc = NoProc /\ stk' = Ticked
  <2>1. OthersAlike(initproc) /\ stk' \in [Slots -> Seq(Frames)]
    BY <1>7, <1>8, <1>11 DEF OthersAlike
  <2>2. ShiftAlike(initproc, 0, 0)
    <3>1. \A i \in DOMAIN Ticked[initproc] : i \in Nat
      BY <1>7, <1>9
    <3> QED
      BY <3>1, <1>8, <1>9, <1>11 DEF ShiftAlike, Alike
  <2>3. StackInv'
    BY <2>1, <2>2, <1>1, <1>9, <1>10, Parts, QuietAlike DEF Quiet
  <2>4. TypeOK'
    BY <1>1, <1>2, <1>3, <2>1 DEF TypeOK
  <2>5. Stopped'
    BY <1>1, <1>2, <1>3, <1>8, <1>11, Zenon DEF Stopped, Alike
  <2> QED
    BY <1>4, <2>3, <2>4, <2>5, PartsPrime
<1>12. CASE proc # NoProc /\ stk' = [Ticked EXCEPT ![proc] = <<f>> \o @]
  <2> DEFINE t == <<f>> \o Ticked[proc]
  <2>1. proc \in Slots /\ state[proc] = "RUNNING"
    BY <1>2, <1>12 DEF TypeOK, TableInv
  <2>2. /\ t \in Seq(Frames) /\ t[1] = f
        /\ \A i \in DOMAIN t : i > 1 => i + (-1) \in DOMAIN Ticked[proc] /\ t[i] = Ticked[proc][i + (-1)]
    <3>1. Ticked[proc] \in Seq(Frames)
      BY <2>1, <1>7
    <3> QED
      BY <3>1, <1>5
  <2>3. stk' = [Ticked EXCEPT ![proc] = t]
    BY <1>12
  <2> HIDE DEF t
  <2>4. /\ stk' \in [Slots -> Seq(Frames)] /\ stk'[proc] = t
        /\ \A q \in Slots \ {proc} : stk'[q] = Ticked[q]
    BY <1>7, <2>1, <2>2, <2>3
  <2>5. OthersAlike(proc)
    BY <1>8, <2>4 DEF OthersAlike
  <2>6. ShiftAlike(proc, 1, -1)
    BY <1>8, <2>1, <2>2, <2>4 DEF ShiftAlike, Alike
  <2>7. stk'[proc][1].np = 0 /\ stk'[proc][1].at \notin ForkLabels /\ stk'[proc][1].at # "exit"
    BY <1>5, <2>2, <2>4 DEF ForkLabels
  <2>8. state[proc] # "EMBRYO" /\ (panicked => panicked')
    BY <1>1, <2>1
  <2>9. StackInv'
    BY <2>1, <2>4, <2>5, <2>6, <2>7, <2>8, <1>10, Parts, QuietAlike DEF Quiet
  <2>10. TypeOK'
    BY <1>1, <1>2, <1>3, <2>4 DEF TypeOK
  <2>11. Stopped'
    BY <1>1, <1>2, <1>3, <2>1, <2>5 DEF Stopped, OthersAlike, Alike
  <2> QED
    BY <1>4, <2>9, <2>10, <2>11, PartsPrime
<1> QED
  BY <1>11, <1>12 DEF Tick, f

-----------------------------------------------------------------------------
\* The state userinit leaves satisfies IInv.
LEMMA InitInv == Init => IInv
<1> SUFFICES ASSUME Init PROVE IInv
  OBVIOUS
<1> DEFINE f == Frame("forkret", 0, 0)
           u == <<f>>
           e == <<>>
<1>1. f \in Frames /\ f.np = 0 /\ f.at = "forkret"
  BY ProcAssumption DEF Frame, Frames, Labels
<1> HIDE DEF f
<1>2. /\ u \in Seq(Frames) /\ DOMAIN u = {1} /\ u[1] = f /\ Head(u) = f /\ u # <<>>
      /\ e \in Seq(Frames) /\ DOMAIN e = {}
  BY <1>1
<1>3. initproc \in Slots /\ 0 \notin Slots
  BY ProcAssumption DEF initproc, Slots
<1>4. stk = [q \in Slots |-> IF q = initproc THEN u ELSE e]
  BY DEF Init, f
<1> HIDE DEF u, e
<1>5. TypeOK
  <2>1. stk \in [Slots -> Seq(Frames)]
    BY <1>2, <1>4
  <2>2. state \in [Slots -> States] /\ pid \in [Slots -> 0 .. MaxPid]
    BY ProcAssumption DEF Init, States
  <2>3. /\ parent \in [Slots -> Slots \cup {NoProc}] /\ chan \in [Slots -> Chans \cup {0}]
        /\ killed \in [Slots -> BOOLEAN]
    BY DEF Init
  <2>4. nextpid \in 1 .. MaxPid + 1 /\ sp \in 1 .. NPROC + 1
    BY ProcAssumption DEF Init
  <2> QED
    BY <2>1, <2>2, <2>3, <2>4, Zenon DEF Init, TypeOK
<1>6. TableInv
  BY <1>3 DEF Init, NoProc, TableInv, NotOwnParent, ParentsLive, Live, SleepersHaveChan,
       NoMissedExit, KilledNotAsleep
<1>7. Stopped
  BY <1>1, <1>2, <1>4 DEF Init, Stopped
<1>8. \A q \in Slots : \A i \in DOMAIN stk[q] : stk[q][i].np = 0 /\ stk[q][i].at = "forkret"
  BY <1>1, <1>2, <1>4
<1>9. StackInv
  BY <1>3, <1>8 DEF StackInv, ForkFrames, ForkOwnsEmbryo, ForkLabels
<1> QED
  BY <1>5, <1>6, <1>7, <1>9, Parts

\* Every step preserves IInv: one lemma above for each action.
LEMMA NextInv == IInv /\ [Next]_vars => IInv'
<1> SUFFICES ASSUME IInv, [Next]_vars PROVE IInv'
  OBVIOUS
<1>1. CASE Scheduler
  BY <1>1, SchedulerAcquireInv, SchedulerSwtchInv, SchedulerReleaseInv DEF Scheduler
<1>2. CASE Tick
  BY <1>2, TickInv
<1>3. ASSUME NEW p \in Slots, Kernel(p) PROVE IInv'
  BY <1>3, ForkretInv, ForkFailInv, ForkKstackInv, ForkCopyuvmInv, ForkParentInv, ForkRunInv,
       ExitSchedInv,
     WaitResumeInv, SleepResumeInv, SleepRelockInv, TimerExitInv, TimerYieldInv, YieldResumeInv,
     TimerReturnInv, Zenon DEF Kernel
<1>4. ASSUME NEW p \in Slots, User(p) PROVE IInv'
  BY <1>4, SysForkInv, SysExitInv, TlbViolationInv, SysWaitInv, SysKillInv, SysSleepInv,
       Zenon DEF User
<1>5. CASE UNCHANGED vars
  <2>1. StackInv'
    BY <1>5, SameStacks DEF vars, table
  <2>2. TypeOK' /\ TableInv' /\ Stopped'
    BY <1>5, Parts DEF vars, table, TypeOK, TableInv, Stopped, NotOwnParent, ParentsLive,
         SleepersHaveChan, NoMissedExit, KilledNotAsleep
  <2> QED
    BY <2>1, <2>2, PartsPrime
<1> QED
  BY <1>1, <1>2, <1>3, <1>4, <1>5 DEF Next, PanicLoop

\* Every reachable state of the process table satisfies IInv, for every size of
\* the table and every bound.
THEOREM ProcInvariant == Spec => []IInv
  BY InitInv, NextInv, PTL DEF Spec

\* wait misses no exit (exit's wakeup1 of the parent and of init against wait's
\* scan and sleep), whatever the size of the table.
THEOREM ProcNoMissedExit == Spec => []NoMissedExit
<1>1. IInv => NoMissedExit
  BY DEF IInv
<1> QED
  BY <1>1, ProcInvariant, PTL

\* The slot fork builds without a lock stays EMBRYO and is built by one process.
THEOREM ProcForkOwnsEmbryo == Spec => []ForkOwnsEmbryo
<1>1. IInv => ForkOwnsEmbryo
  BY DEF IInv
<1> QED
  BY <1>1, ProcInvariant, PTL

\* No process sleeps that was killed, or that sys_sleep owes no more ticks.
THEOREM ProcSleepersWake == Spec => [](KilledNotAsleep /\ NoMissedTick)
<1>1. IInv => KilledNotAsleep /\ NoMissedTick
  BY DEF IInv
<1> QED
  BY <1>1, ProcInvariant, PTL

\* exit leaves no child to a parent that cannot wait for it.
THEOREM ProcParentsLive == Spec => []ParentsLive
<1>1. IInv => ParentsLive
  BY DEF IInv
<1> QED
  BY <1>1, ProcInvariant, PTL

-----------------------------------------------------------------------------
asleep == [p \in Slots |-> IF state[p] = "SLEEPING" THEN chan[p] ELSE 0]

\* A step that ends no sleep and starts none.
LEMMA NoSleeper ==
  ASSUME IInv, \A q \in Slots : \/ state[q] = "SLEEPING" /\ state'[q] = "SLEEPING" /\ chan'[q] = chan[q]
                                \/ state[q] # "SLEEPING" /\ state'[q] # "SLEEPING"
  PROVE  asleep' = asleep
  BY DEF asleep

\* A running process that goes to sleep on c is a Sleep step.
LEMMA SwSleep ==
  ASSUME IInv, NEW p \in Slots, proc = p, NEW c \in Chans,
         chan' = [chan EXCEPT ![p] = c], state' = [state EXCEPT ![p] = "SLEEPING"], killed' = killed
  PROVE  SW!Sleep(p, c)
<1>1. state[p] = "RUNNING" /\ TypeOK
  BY Runs DEF IInv
<1>2. asleep' = [asleep EXCEPT ![p] = c] /\ asleep[p] = 0
  BY <1>1, Zenon DEF asleep, TypeOK
<1> QED
  BY <1>2 DEF SW!Sleep, asleep

\* Waking every sleeper on the channels of C, and no other, is a Wakeup step.
LEMMA SwWakeup ==
  ASSUME IInv, NEW C \in SUBSET Chans, chan' = chan, killed' = killed,
         \A q \in Slots : IF state[q] = "SLEEPING" /\ chan[q] \in C THEN state'[q] = "RUNNABLE"
                          ELSE state'[q] = "SLEEPING" <=> state[q] = "SLEEPING"
  PROVE  SW!Wakeup(C)
<1>1. 0 \notin C
  BY ProcAssumption DEF Chans, TicksChan, Slots
<1>2. asleep' = [p \in Slots |-> IF asleep[p] \in C THEN 0 ELSE asleep[p]]
  <2>1. \A q \in Slots : asleep'[q] = IF asleep[q] \in C THEN 0 ELSE asleep[q]
    BY <1>1 DEF asleep
  <2> QED
    BY <2>1 DEF asleep
<1> QED
  BY <1>2 DEF SW!Wakeup, asleep

\* Marking one process and ending its sleep is a Kill step.
LEMMA SwKill ==
  ASSUME IInv, NEW q \in Slots, killed' = [killed EXCEPT ![q] = TRUE], chan' = chan,
         state' = [state EXCEPT ![q] = IF state[q] = "SLEEPING" THEN "RUNNABLE" ELSE state[q]]
  PROVE  SW!Kill(q)
<1>1. asleep' = [asleep EXCEPT ![q] = 0]
  BY Zenon DEF asleep, IInv, TypeOK
<1> QED
  BY <1>1 DEF SW!Kill, asleep

\* exit's section is one Wakeup of the parent's channel, and of init's if it
\* inherits a zombie.
LEMMA SwExit ==
  ASSUME IInv, NEW p \in Slots, ExitSched(p)
  PROVE  \E C \in SUBSET Chans : SW!Wakeup(C)
<1> DEFINE Z == \E q \in Orphans(p) : state[q] = "ZOMBIE"
           C == ({parent[p]} \cup (IF Z THEN {initproc} ELSE {})) \cap Chans
<1>1. TypeOK /\ SleepersHaveChan /\ state[p] = "RUNNING" /\ UNCHANGED <<chan, killed>>
  BY Runs DEF IInv, ExitSched, At, Running
<1>2. \A q \in Slots : IF state[q] = "SLEEPING" /\ chan[q] \in C THEN state'[q] = "RUNNABLE"
                        ELSE state'[q] = "SLEEPING" <=> state[q] = "SLEEPING"
  <2> SUFFICES ASSUME NEW q \in Slots
               PROVE  IF state[q] = "SLEEPING" /\ chan[q] \in C THEN state'[q] = "RUNNABLE"
                      ELSE state'[q] = "SLEEPING" <=> state[q] = "SLEEPING"
    OBVIOUS
  <2>1. state' = [ExitWakes(p) EXCEPT ![p] = "ZOMBIE"]
    BY DEF ExitSched
  <2>2. CASE q = p
    BY <1>1, <2>1, <2>2 DEF ExitWakes, Wakeup1
  <2>3. CASE q # p
    <3>1. state'[q] = ExitWakes(p)[q]
      BY <2>1, <2>3 DEF ExitWakes, Wakeup1
    <3>2. state[q] = "SLEEPING" => chan[q] \in Chans
      BY <1>1 DEF SleepersHaveChan
    <3>3. CASE Z
      BY <3>1, <3>2, <3>3 DEF ExitWakes, Wakeup1
    <3>4. CASE ~Z
      BY <3>1, <3>2, <3>4 DEF ExitWakes, Wakeup1
    <3> QED
      BY <3>3, <3>4
  <2> QED
    BY <2>2, <2>3
<1> HIDE DEF C
<1>3. C \in SUBSET Chans
  BY DEF C
<1> QED
  BY <1>1, <1>2, <1>3, SwWakeup

\* A pass of wait's loop reaps, sleeps on the caller's own slot, or is no step
\* of the interface.
LEMMA SwWait ==
  ASSUME IInv, NEW p \in Slots, proc = p, NEW below, WaitLoop(p, below)
  PROVE  SW!Next \/ UNCHANGED <<asleep, killed>>
<1> DEFINE kids    == {q \in Slots : parent[q] = p}
           zombies == {q \in kids : state[q] = "ZOMBIE"}
<1>1. state[p] = "RUNNING" /\ TypeOK
  BY Runs DEF IInv
<1>2. \/ \E q \in zombies :
           /\ state' = [state EXCEPT ![q] = "UNUSED"]
           /\ killed' = [killed EXCEPT ![q] = FALSE] /\ chan' = [chan EXCEPT ![p] = 0]
      \/ UNCHANGED <<state, killed>> /\ chan' = [chan EXCEPT ![p] = 0]
      \/ /\ chan' = [chan EXCEPT ![p] = p] /\ state' = [state EXCEPT ![p] = "SLEEPING"]
         /\ killed' = killed
  BY Zenon DEF WaitLoop
<1>4. ASSUME NEW q \in Slots, state[q] = "ZOMBIE", state' = [state EXCEPT ![q] = "UNUSED"],
             killed' = [killed EXCEPT ![q] = FALSE], chan' = [chan EXCEPT ![p] = 0]
      PROVE  SW!Next \/ UNCHANGED <<asleep, killed>>
  <2>1. asleep' = asleep
    BY <1>1, <1>4, NoSleeper DEF TypeOK
  <2>2. asleep[q] = 0 /\ q \in Slots
    BY <1>4 DEF asleep
  <2>3. SW!Reap(q)
    BY <1>4, <2>1, <2>2 DEF SW!Reap, asleep
  <2> QED
    BY <2>2, <2>3 DEF SW!Next
<1>5. CASE UNCHANGED <<state, killed>> /\ chan' = [chan EXCEPT ![p] = 0]
  BY <1>1, <1>5, NoSleeper DEF TypeOK
<1>6. CASE /\ chan' = [chan EXCEPT ![p] = p] /\ state' = [state EXCEPT ![p] = "SLEEPING"]
           /\ killed' = killed
  <2>1. p \in Chans
    BY DEF Chans
  <2>2. SW!Sleep(p, p)
    BY <1>6, <2>1, SwSleep, Zenon
  <2> QED
    BY <2>1, <2>2 DEF SW!Next
<1> QED
  BY <1>2, <1>4, <1>5, <1>6

\* A pass of sys_sleep's loop sleeps on &ticks or is no step of the interface.
LEMMA SwSleepLoop ==
  ASSUME IInv, NEW p \in Slots, proc = p, NEW rem, NEW below, SleepLoop(p, rem, below)
  PROVE  SW!Next \/ UNCHANGED <<asleep, killed>>
<1>1. CASE UNCHANGED <<state, chan>>
  BY <1>1 DEF asleep, SleepLoop
<1>2. CASE /\ chan' = [chan EXCEPT ![p] = TicksChan] /\ state' = [state EXCEPT ![p] = "SLEEPING"]
  <2>1. TicksChan \in Chans
    BY DEF Chans
  <2>2. SW!Sleep(p, TicksChan)
    BY <1>2, <2>1, SwSleep, Zenon DEF SleepLoop
  <2> QED
    BY <2>1, <2>2 DEF SW!Next
<1> QED
  BY <1>1, <1>2 DEF SleepLoop

\* do_timer's wakeup(&ticks) is a Wakeup step.
LEMMA SwTick ==
  ASSUME IInv, Tick
  PROVE  SW!Next
<1>1. /\ \A q \in Slots : state'[q] = IF state[q] = "SLEEPING" /\ chan[q] = TicksChan THEN "RUNNABLE" ELSE state[q]
      /\ UNCHANGED <<chan, killed>>
  BY DEF Tick, Wakeup1
<1>2. {TicksChan} \in SUBSET Chans
  BY DEF Chans
<1>3. SW!Wakeup({TicksChan})
  BY <1>1, <1>2, SwWakeup
<1> QED
  BY <1>2, <1>3 DEF SW!Next

\* A step that changes no state and no sleeper's channel is no step of the
\* interface.
LEMMA SwStill ==
  ASSUME IInv, UNCHANGED <<state, killed>>,
         \A q \in Slots : state[q] = "SLEEPING" => chan'[q] = chan[q]
  PROVE  UNCHANGED <<asleep, killed>>
  BY DEF asleep

\* Neither is any step of scheduler().
LEMMA SwScheduler ==
  ASSUME IInv, Scheduler
  PROVE  UNCHANGED <<asleep, killed>>
<1>1. CASE SchedulerAcquire \/ SchedulerRelease
  BY <1>1, SwStill DEF SchedulerAcquire, SchedulerRelease, table
<1>2. CASE SchedulerSwtch
  <2>1. PICK p \in Slots : /\ state[p] = "RUNNABLE" /\ state' = [state EXCEPT ![p] = "RUNNING"]
                           /\ chan' = chan /\ killed' = killed
    BY <1>2, Zenon DEF SchedulerSwtch, Ready
  <2>2. TypeOK
    BY DEF IInv
  <2>3. asleep' = asleep
    BY <2>1, <2>2, NoSleeper DEF TypeOK
  <2> QED
    BY <2>1, <2>3
<1> QED
  BY <1>1, <1>2 DEF Scheduler

\* The kernel steps of a process, by action.
LEMMA SwKernel ==
  ASSUME IInv, NEW p \in Slots, Kernel(p)
  PROVE  SW!Next \/ UNCHANGED <<asleep, killed>>
<1>1. TypeOK /\ ForkFrames /\ ForkOwnsEmbryo
  BY DEF IInv
<1>2. CASE Forkret(p) \/ ForkKstack(p) \/ ForkCopyuvm(p) \/ ForkParent(p)
  BY <1>2, SwStill DEF Forkret, ForkKstack, ForkCopyuvm, ForkParent, table
<1>3. CASE TimerExit(p) \/ YieldResume(p) \/ TimerReturn(p)
  BY <1>3, SwStill, Zenon DEF TimerExit, YieldResume, TimerReturn, table
<1>4. CASE ForkFail(p)
  <2>1. Top(p).np \in Slots /\ state[Top(p).np] = "EMBRYO"
    <3>1. proc = p /\ stk[p] # <<>> /\ Top(p).at \in ForkLabels
      BY <1>4 DEF ForkFail, At, Running, ForkLabels
    <3> QED
      BY <3>1, ForkTop
  <2>2. asleep' = asleep
    BY <1>1, <1>4, <2>1, NoSleeper DEF ForkFail, TypeOK
  <2> QED
    BY <1>4, <2>2 DEF ForkFail
<1>5. CASE ForkRun(p)
  <2>1. Top(p).np \in Slots /\ state[Top(p).np] = "EMBRYO"
    <3>1. proc = p /\ stk[p] # <<>> /\ Top(p).at \in ForkLabels
      BY <1>5 DEF ForkRun, At, Running, ForkLabels
    <3> QED
      BY <3>1, ForkTop
  <2>2. asleep' = asleep
    BY <1>1, <1>5, <2>1, NoSleeper DEF ForkRun, TypeOK
  <2> QED
    BY <1>5, <2>2 DEF ForkRun
<1>6. CASE ExitSched(p)
  BY <1>6, SwExit DEF SW!Next
<1>7. CASE WaitResume(p)
  BY <1>7, SwWait DEF WaitResume, Resumed
<1>8. CASE SleepResume(p)
  <2>1. proc = p
    BY <1>8 DEF SleepResume, Resumed
  <2>2. state[p] = "RUNNING"
    BY <2>1, Runs
  <2> QED
    BY <1>1, <1>8, <2>2, SwStill DEF SleepResume, TypeOK
<1>9. CASE SleepRelock(p)
  BY <1>9, SwSleepLoop DEF SleepRelock, At, Running
<1>10. CASE TimerYield(p)
  <2>1. proc = p
    BY <1>10 DEF TimerYield, At, Running
  <2>2. state[p] = "RUNNING"
    BY <2>1, Runs
  <2>3. asleep' = asleep
    BY <1>1, <1>10, <2>2, NoSleeper DEF TimerYield, TypeOK
  <2> QED
    BY <1>10, <2>3 DEF TimerYield
<1> QED
  BY <1>2, <1>3, <1>4, <1>5, <1>6, <1>7, <1>8, <1>9, <1>10 DEF Kernel

\* The system calls and faults of a process, by action.
LEMMA SwUser ==
  ASSUME IInv, NEW p \in Slots, User(p)
  PROVE  SW!Next \/ UNCHANGED <<asleep, killed>>
<1>1. TypeOK
  BY DEF IInv
<1>2. CASE SysFork(p)
  <2>1. CASE UNCHANGED table
    BY <1>2, <2>1, SwStill, Zenon DEF table
  <2>2. ASSUME NEW np \in Slots, state[np] = "UNUSED", state' = [state EXCEPT ![np] = "EMBRYO"],
               UNCHANGED <<chan, killed>>
        PROVE  UNCHANGED <<asleep, killed>>
    <3>1. asleep' = asleep
      BY <1>1, <2>2, NoSleeper DEF TypeOK
    <3> QED
      BY <2>2, <3>1
  <2> QED
    BY <1>2, <2>1, <2>2, Zenon DEF SysFork, Claimed
<1>3. CASE SysExit(p)
  BY <1>3, SwStill DEF SysExit, table
<1>4. CASE TlbViolation(p)
  <2>1. proc = p
    BY <1>4 DEF TlbViolation, UserMode, Running
  <2>2. state[p] = "RUNNING"
    BY <2>1, Runs
  <2>3. SW!Kill(p)
    BY <1>1, <1>4, <2>2, SwKill, Zenon DEF TlbViolation, TypeOK
  <2> QED
    BY <2>3 DEF SW!Next
<1>5. CASE SysWait(p)
  BY <1>5, SwWait DEF SysWait, UserMode, Running
<1>6. ASSUME NEW n \in 0 .. MaxPid, SysKill(p, n)
      PROVE  SW!Next
  <2>2. PICK q \in Slots : /\ killed' = [killed EXCEPT ![q] = TRUE] /\ chan' = chan
                           /\ state' = [state EXCEPT ![q] = KillWakes(state[q])]
    BY <1>6, Zenon DEF SysKill
  <2>3. SW!Kill(q)
    BY <2>2, SwKill, Zenon DEF KillWakes
  <2> QED
    BY <2>3 DEF SW!Next
<1>7. ASSUME NEW n \in 0 .. MaxSleep, SysSleep(p, n)
      PROVE  SW!Next \/ UNCHANGED <<asleep, killed>>
  BY <1>7, SwSleepLoop DEF SysSleep, UserMode, Running
<1> QED
  BY <1>2, <1>3, <1>4, <1>5, <1>6, <1>7 DEF User

\* proc.c's sleep, wakeup, kill, exit and wait, with the timer, implement the
\* sleep/wakeup interface.
THEOREM ProcImplementsSleepWakeup == Spec => ImplementsSleepWakeup
<1>1. Init => SW!Init
  BY DEF Init, SW!Init
<1>2. IInv /\ [Next]_vars => [SW!Next]_<<asleep, killed>>
  <2> SUFFICES ASSUME IInv, [Next]_vars
               PROVE  SW!Next \/ UNCHANGED <<asleep, killed>>
    OBVIOUS
  <2>1. CASE UNCHANGED vars
    BY <2>1 DEF vars, table, asleep
  <2>2. CASE PanicLoop
    BY <2>2 DEF PanicLoop, vars, table, asleep
  <2> QED
    BY <2>1, <2>2, SwScheduler, SwTick, SwKernel, SwUser DEF Next
<1>3. IInv /\ [Next]_vars => [SW!Next]_<<[p \in Slots |-> IF state[p] = "SLEEPING" THEN chan[p] ELSE 0], killed>>
  BY <1>2 DEF asleep
<1> QED
  BY <1>1, <1>3, ProcInvariant, PTL DEF Spec, ImplementsSleepWakeup, SW!Spec
=============================================================================
