--------------------------- MODULE SpinlockProofs ---------------------------
(* IInv of Spinlock is inductive, for every set of processes and locks and *)
(* every stack bound; the safety properties of Spinlock follow from it.    *)
EXTENDS Spinlock, FiniteSetTheorems, TLAPS

USE DepthAssumption

\* A finite set of locks gains or loses one lock: what pushcli and popcli
\* count.
LEMMA LockCount ==
  ASSUME NEW L \in SUBSET Locks, NEW l \in Locks
  PROVE  /\ Cardinality(L) \in Nat
         /\ l \notin L => Cardinality(L \cup {l}) = Cardinality(L) + 1
         /\ l \in L => /\ Cardinality(L \ {l}) = Cardinality(L) - 1
                       /\ Cardinality(L) > 0
         /\ (L = {} <=> Cardinality(L) = 0)
         /\ Cardinality({l}) = 1
<1>1. IsFiniteSet(L)
  BY LocksAssumption, FS_Subset
<1>2. Cardinality(L) \in Nat /\ (L = {} <=> Cardinality(L) = 0)
  BY <1>1, FS_CardinalityType, FS_EmptySet
<1>3. Cardinality({l}) = 1
  BY FS_Singleton
<1>4. l \notin L => Cardinality(L \cup {l}) = Cardinality(L) + 1
  BY <1>1, FS_AddElement
<1>5. l \in L => Cardinality(L \ {l}) = Cardinality(L) - 1
  BY <1>1, FS_RemoveElement
<1>6. l \in L => Cardinality(L) > 0
  BY <1>2
<1>7. QED
  BY <1>2, <1>3, <1>4, <1>5, <1>6

\* The state in which main() starts satisfies the invariant.
LEMMA InitIInv == Init => IInv
<1> SUFFICES ASSUME Init PROVE IInv
  OBVIOUS
<1>1. TypeOK
  BY DEF Init, TypeOK, Threads, Levels, Cpu, Context, Bit, FreshContext, Panics
<1>2. NcliCountsLocks
  BY FS_EmptySet DEF Init, NcliCountsLocks
<1>3. QED
  BY <1>1, <1>2 DEF Init, IInv, NoPanic, LockedMeansMasked, OneCriticalSection,
     LockedIsTop, Top, ContextsMasked, StacksReady, Threads, Levels, FreshContext

\* What pushcli and popcli do to the CPU's state.
LEMMA PushPop ==
  ASSUME NEW c \in Cpu
  PROVE  /\ Pushcli(c) \in Cpu
         /\ Pushcli(c).bl = 1
         /\ Pushcli(c).ncli = c.ncli + 1
         /\ c.ncli > 0 => /\ Popcli(c) \in Cpu
                          /\ Popcli(c).ncli = c.ncli - 1
         /\ c.ncli # 1 => Popcli(c).bl = c.bl
<1>1. c.bl \in Bit /\ c.ncli \in Nat /\ c.intena \in Bit
  BY DEF Cpu
<1>2. Pushcli(c) \in Cpu /\ Pushcli(c).bl = 1 /\ Pushcli(c).ncli = c.ncli + 1
  BY <1>1 DEF Cpu, Bit, Pushcli, IntenaOf
<1>3. c.ncli > 0 => Popcli(c) \in Cpu
  BY <1>1 DEF Cpu, Bit, Popcli
<1>4. Popcli(c).ncli = c.ncli - 1 /\ (c.ncli # 1 => Popcli(c).bl = c.bl)
  BY <1>1 DEF Popcli
<1>5. QED
  BY <1>2, <1>3, <1>4

\* acquire, on a lock that is free: interrupts are masked before the lock is
\* taken, and the activation that takes it becomes the one holding locks.
LEMMA AcquireIInv ==
  ASSUME IInv, NEW l \in Locks, Acquire(l)
  PROVE  IInv'
<1> USE DEF Acquire, InKernel, NoPanic
<1>1. thr \in Threads /\ depth[thr] \in Levels
  BY DEF IInv, TypeOK, Levels
<1>2. l \notin locked /\ locked = Top
  BY <1>1 DEF IInv, LockedIsTop, Levels
<1>3. TypeOK'
  BY <1>1, <1>2, PushPop DEF IInv, TypeOK
<1>4. Top' = Top \cup {l}
  BY <1>1 DEF IInv, TypeOK, Top
<1>5. NcliCountsLocks'
  <2>1. cpu'.ncli = cpu.ncli + 1
    BY PushPop DEF IInv, TypeOK
  <2>2. Cardinality(locked') = Cardinality(locked) + 1
    BY <1>2, LockCount, Zenon DEF IInv, TypeOK
  <2>3. QED
    BY <2>1, <2>2 DEF IInv, NcliCountsLocks
<1>6. LockedMeansMasked'
  BY PushPop DEF IInv, TypeOK, LockedMeansMasked
<1>7. OneCriticalSection'
  BY <1>1 DEF IInv, TypeOK, OneCriticalSection
<1>8. LockedIsTop'
  BY <1>1, <1>2, <1>4 DEF LockedIsTop, Levels
<1>9. QED
  BY <1>2, <1>3, <1>5, <1>6, <1>7, <1>8
     DEF IInv, NoPanic, ContextsMasked, StacksReady

\* release of a lock: popcli unmasks interrupts only with the last lock gone.
LEMMA ReleaseIInv ==
  ASSUME IInv, NEW l \in Locks, Release(l)
  PROVE  IInv'
<1> USE DEF Release, InKernel, NoPanic
<1>1. thr \in Threads /\ depth[thr] \in Levels
  BY DEF IInv, TypeOK, Levels
<1>2. l \in locked /\ locked = Top
  BY <1>1 DEF IInv, LockedIsTop, Levels
<1>3. /\ cpu \in Cpu /\ locked \in SUBSET Locks
      /\ cpu.ncli = Cardinality(locked) /\ cpu.ncli > 0
      /\ cpu.bl = 1
      /\ Cardinality(locked \ {l}) = cpu.ncli - 1
  <2>1. cpu \in Cpu /\ locked \in SUBSET Locks
    BY DEF IInv, TypeOK
  <2>2. cpu.ncli = Cardinality(locked)
    BY DEF IInv, NcliCountsLocks
  <2>3. cpu.bl = 1
    BY <1>2 DEF IInv, LockedMeansMasked
  <2>4. Cardinality(locked) > 0 /\ Cardinality(locked \ {l}) = Cardinality(locked) - 1
    BY <1>2, <2>1, LockCount, Zenon
  <2>5. QED
    BY <2>1, <2>2, <2>3, <2>4
<1>4. TypeOK' /\ NoPanic'
  BY <1>1, <1>2, <1>3, PushPop DEF IInv, TypeOK, NoPanic, PopcliPanic, Cpu
<1>5. Top' = Top \ {l}
  BY <1>1 DEF IInv, TypeOK, Top
<1>6. NcliCountsLocks'
  BY <1>3, PushPop DEF NcliCountsLocks
<1>7. LockedMeansMasked'
  <2>1. CASE cpu.ncli = 1
    <3>1. locked \ {l} = {}
      <4>1. Cardinality(locked \ {l}) = 0
        BY <2>1, <1>3
      <4>2. QED
        BY <1>3, <4>1, LockCount, Zenon
    <3>2. QED
      BY <3>1 DEF LockedMeansMasked
  <2>2. CASE cpu.ncli # 1
    BY <2>2, <1>3, PushPop DEF LockedMeansMasked
  <2>3. QED
    BY <2>1, <2>2
<1>8. OneCriticalSection'
  BY <1>1 DEF IInv, TypeOK, OneCriticalSection
<1>9. LockedIsTop'
  BY <1>1, <1>2, <1>5 DEF LockedIsTop, Levels
<1>10. QED
  BY <1>4, <1>6, <1>7, <1>8, <1>9 DEF IInv, ContextsMasked, StacksReady

\* The pushcli and popcli of switchuvm take no lock and leave the count alone.
LEMMA SwitchuvmIInv == IInv /\ Switchuvm => IInv'
<1> SUFFICES ASSUME IInv, Switchuvm PROVE IInv'
  OBVIOUS
<1>1. cpu \in Cpu /\ Pushcli(cpu) \in Cpu
  BY PushPop DEF IInv, TypeOK
<1>2. cpu' \in Cpu /\ cpu'.ncli = cpu.ncli
  BY <1>1, PushPop DEF Switchuvm, Cpu
<1>3. LockedMeansMasked'
  <2>1. CASE locked = {}
    BY <2>1 DEF Switchuvm, LockedMeansMasked
  <2>2. CASE locked # {}
    <3>1. PICK l : l \in locked
      BY <2>2
    <3>2. cpu.ncli > 0
      BY <3>1, LockCount, Zenon DEF IInv, TypeOK, NcliCountsLocks
    <3>3. cpu'.bl = 1
      <4>1. Pushcli(cpu).ncli # 1 /\ Pushcli(cpu).bl = 1
        BY <1>1, <3>2, PushPop DEF Cpu
      <4>2. QED
        BY <1>1, <4>1, PushPop DEF Switchuvm
    <3>4. QED
      BY <3>3 DEF LockedMeansMasked
  <2>3. QED
    BY <2>1, <2>2
<1>4. QED
  BY <1>2, <1>3 DEF Switchuvm, IInv, TypeOK, NoPanic, NcliCountsLocks,
     OneCriticalSection, LockedIsTop, Top, ContextsMasked, StacksReady

\* A trap or an interrupt is taken only when no lock is held, so the new
\* activation starts above activations that hold nothing.
LEMMA PushFrameIInv ==
  ASSUME IInv, PushFrame, depth[thr] < MaxDepth, cpu.bl = 0 \/ depth[thr] = 0
  PROVE  IInv'
<1> USE DEF PushFrame
<1>1. thr \in Threads /\ depth[thr] \in 0 .. MaxDepth
  BY DEF IInv, TypeOK
<1>2. locked = {}
  BY DEF IInv, LockedMeansMasked, LockedIsTop
<1>3. cpu' \in Cpu /\ cpu'.ncli = cpu.ncli
  BY DEF IInv, TypeOK, Cpu, Bit
<1>4. TypeOK'
  BY <1>1, <1>3 DEF IInv, TypeOK, Levels, Cpu
<1>5. \A t \in Threads, i \in Levels : own[t][i] = {}
  BY <1>1, <1>2 DEF IInv, TypeOK, OneCriticalSection, LockedIsTop, Top, Levels
<1>6. OneCriticalSection' /\ LockedIsTop'
  <2>1. OneCriticalSection'
    BY <1>5 DEF OneCriticalSection
  <2>2. depth'[thr] \in Levels
    BY <1>1 DEF IInv, TypeOK, Levels
  <2>3. Top' = {}
    BY <1>1, <1>5, <2>2 DEF Top
  <2>4. QED
    BY <1>2, <2>1, <2>3 DEF LockedIsTop
<1>7. StacksReady'
  BY <1>1 DEF IInv, TypeOK, StacksReady
<1>8. QED
  BY <1>2, <1>3, <1>4, <1>6, <1>7
     DEF IInv, NoPanic, LockedMeansMasked, NcliCountsLocks, ContextsMasked

\* A handler returns only with no lock held, and restores an SR that was
\* unmasked when it was interrupted.
LEMMA RteIInv == IInv /\ Rte => IInv'
<1> SUFFICES ASSUME IInv, Rte PROVE IInv'
  OBVIOUS
<1> USE DEF Rte, InKernel
<1>1. thr \in Threads /\ depth[thr] \in Levels
  BY DEF IInv, TypeOK, Levels
<1>2. locked = {}
  BY <1>1 DEF IInv, LockedIsTop, Levels
<1>3. cpu' \in Cpu /\ cpu'.ncli = cpu.ncli
  BY <1>1, Zenon DEF IInv, TypeOK, Cpu
<1>4. TypeOK'
  BY <1>1, <1>3 DEF IInv, TypeOK, Levels
<1>5. \A t \in Threads, i \in Levels : own[t][i] = {}
  BY <1>1 DEF IInv, OneCriticalSection, Top
<1>6. OneCriticalSection' /\ LockedIsTop'
  <2>1. OneCriticalSection'
    BY <1>5 DEF OneCriticalSection
  <2>2. depth'[thr] = 0 \/ depth'[thr] \in Levels
    BY <1>1 DEF IInv, TypeOK, Levels
  <2>3. depth'[thr] = 0 \/ Top' = {}
    BY <1>1, <1>5, <2>2 DEF Top
  <2>4. QED
    BY <1>2, <2>1, <2>3 DEF LockedIsTop
<1>7. StacksReady'
  BY <1>1 DEF IInv, TypeOK, StacksReady, Levels
<1>8. QED
  BY <1>2, <1>3, <1>4, <1>6, <1>7
     DEF IInv, NoPanic, LockedMeansMasked, NcliCountsLocks, ContextsMasked

\* Leaving a process for the scheduler hands ptable.lock over: it stays
\* locked, its holder becomes the scheduler's loop.  d is the depth of the
\* stack the process has when it runs again.
LEMMA LeaveProcessIInv ==
  ASSUME IInv, InKernel, thr \in Procs, Top = {ptable},
         NEW c \in Context, c.bl = 1, LeaveProcess(c),
         panicked' = SchedPanic, UNCHANGED locked,
         NEW d \in 1 .. MaxDepth, depth' = [depth EXCEPT ![thr] = d],
         ssr' \in [Threads -> [Levels -> Bit]]
  PROVE  IInv'
<1> USE DEF LeaveProcess, InKernel
<1>1. thr \in Threads /\ Scheduler \in Threads /\ thr # Scheduler
      /\ depth[thr] \in Levels /\ 1 \in Levels
  BY ThreadsAssumption DEF IInv, TypeOK, Levels, Threads
<1>2. locked = {ptable} /\ depth[Scheduler] = 1 /\ ctx[Scheduler].bl = 1
  BY <1>1 DEF IInv, LockedIsTop, Levels, StacksReady, ContextsMasked
<1>3. cpu.ncli = 1 /\ cpu.bl = 1
  BY <1>2, LocksAssumption, LockCount, Zenon DEF IInv, NcliCountsLocks, LockedMeansMasked
<1>4. cpu' \in Cpu /\ cpu'.ncli = 1 /\ cpu'.bl = 1
  BY <1>2, <1>3 DEF IInv, TypeOK, Cpu, Bit
<1>5. NoPanic'
  BY <1>2, <1>3 DEF SchedPanic, NoPanic
<1>6. own' \in [Threads -> [Levels -> SUBSET Locks]]
  <2>1. \A t \in Threads : own[t] \in [Levels -> SUBSET Locks]
    BY DEF IInv, TypeOK
  <2>2. \A t \in Threads : own'[t] \in [Levels -> SUBSET Locks]
    BY <1>1, <2>1, LocksAssumption, Zenon DEF IInv, TypeOK
  <2>3. QED
    BY <2>2, Zenon DEF IInv, TypeOK
<1>7. TypeOK'
  <2>1. ctx' \in [Threads -> Context] /\ depth' \in [Threads -> 0 .. MaxDepth]
    BY <1>1 DEF IInv, TypeOK
  <2>2. panicked' \in Panics /\ thr' \in Threads /\ locked' \subseteq Locks
    BY <1>1, <1>5 DEF IInv, TypeOK, NoPanic, Panics
  <2>3. QED
    BY <1>4, <1>6, <2>1, <2>2, Zenon DEF TypeOK
<1>8. \A t \in Threads, i \in Levels :
        own'[t][i] = IF t = Scheduler /\ i = 1 THEN {ptable} ELSE {}
  BY <1>1, Zenon DEF IInv, TypeOK, OneCriticalSection, Top
<1>9. OneCriticalSection' /\ LockedIsTop'
  <2>1. depth'[Scheduler] = 1
    BY <1>1, <1>2 DEF IInv, TypeOK
  <2>2. Top' = {ptable}
    BY <1>1, <1>8, <2>1, Zenon DEF Top
  <2>3. OneCriticalSection'
    BY <1>8, <2>1, Zenon DEF OneCriticalSection
  <2>4. QED
    BY <1>2, <2>1, <2>2, <2>3 DEF LockedIsTop
<1>10. ContextsMasked' /\ StacksReady'
  BY <1>1, <1>2 DEF IInv, TypeOK, ContextsMasked, StacksReady
<1>11. NcliCountsLocks'
  BY <1>2, <1>4, LocksAssumption, LockCount, Zenon DEF NcliCountsLocks
<1>12. QED
  BY <1>4, <1>5, <1>7, <1>9, <1>10, <1>11 DEF IInv, LockedMeansMasked

\* sched and exit enter swtch with exactly ptable.lock held.
LEMMA SchedIInv == IInv /\ (Sched \/ Exit) => IInv'
<1> SUFFICES ASSUME IInv, Sched \/ Exit PROVE IInv'
  OBVIOUS
<1> USE DEF InKernel
<1>1. InKernel /\ thr \in Threads /\ thr \in Procs /\ Top = {ptable}
      /\ depth[thr] \in Levels /\ 1 \in Levels
  BY DEF IInv, TypeOK, Sched, Exit, Levels
<1>2. cpu.bl = 1
  BY <1>1 DEF IInv, LockedMeansMasked, LockedIsTop, Levels
<1>3. CASE Sched
  <2>1. [pr |-> "sched", bl |-> cpu.bl, intena |-> cpu.intena] \in Context
    BY DEF IInv, TypeOK, Cpu, Context
  <2>2. depth' = [depth EXCEPT ![thr] = depth[thr]]
    BY <1>1, <1>3 DEF Sched, IInv, TypeOK
  <2>3. ssr' \in [Threads -> [Levels -> Bit]]
    BY <1>3 DEF Sched, IInv, TypeOK
  <2>4. QED
    BY <1>1, <1>2, <1>3, <2>1, <2>2, <2>3, LeaveProcessIInv, Zenon DEF Sched, Levels
<1>4. CASE Exit
  <2>1. FreshContext \in Context /\ FreshContext.bl = 1
    BY DEF FreshContext, Context, Bit
  <2>2. ssr' \in [Threads -> [Levels -> Bit]]
    BY <1>1, <1>4 DEF Exit, IInv, TypeOK, Bit
  <2>3. QED
    BY <1>1, <1>4, <2>1, <2>2, LeaveProcessIInv, Zenon DEF Exit, Levels
<1>5. QED
  BY <1>3, <1>4

\* The scheduler's swtch hands ptable.lock to the process it runs, which was
\* left with one lock and interrupts masked.
LEMMA SwtchIInv ==
  ASSUME IInv, NEW p \in Procs, Swtch(p)
  PROVE  IInv'
<1> USE DEF Swtch
<1>1. p \in Threads /\ Scheduler \in Threads /\ p # Scheduler
      /\ 1 \in Levels /\ depth[p] \in Levels
  BY ThreadsAssumption DEF IInv, TypeOK, Levels, Threads, StacksReady
<1>2. locked = {ptable} /\ cpu.bl = 1 /\ ctx[p].bl = 1
  BY <1>1 DEF IInv, LockedIsTop, Top, LockedMeansMasked, ContextsMasked
<1>3. cpu' \in Cpu /\ cpu'.ncli = cpu.ncli /\ cpu'.bl = 1
  BY <1>1, <1>2, Zenon DEF IInv, TypeOK, Cpu, Context
<1>4. \A t \in Threads : own'[t] \in [Levels -> SUBSET Locks]
  BY <1>1, LocksAssumption, Zenon DEF IInv, TypeOK
<1>5. ctx' \in [Threads -> Context]
  BY <1>1, <1>2, Zenon DEF IInv, TypeOK, Context, Bit
<1>6. TypeOK'
  BY <1>1, <1>3, <1>4, <1>5, Zenon DEF IInv, TypeOK
<1>7. \A t \in Threads, i \in Levels :
        own'[t][i] = IF t = p /\ i = depth[p] THEN {ptable} ELSE {}
  BY <1>1, Zenon DEF IInv, TypeOK, OneCriticalSection
<1>8. OneCriticalSection' /\ LockedIsTop'
  <2>1. Top' = {ptable}
    BY <1>1, <1>7, Zenon DEF Top
  <2>2. OneCriticalSection'
    <3>1. \A t \in Threads, i \in Levels :
            own'[t][i] # {} => t = p /\ i = depth[p]
      BY <1>7, Zenon
    <3>2. QED
      BY <3>1, Zenon DEF OneCriticalSection
  <2>3. QED
    BY <1>1, <1>2, <2>1, <2>2 DEF LockedIsTop, Levels
<1>9. ContextsMasked'
  BY <1>1, <1>2 DEF IInv, TypeOK, ContextsMasked
<1>10. StacksReady'
  BY <1>1 DEF IInv, TypeOK, StacksReady
<1>11. QED
  BY <1>3, <1>6, <1>8, <1>9, <1>10
     DEF IInv, NoPanic, LockedMeansMasked, NcliCountsLocks

\* The scheduler enables interrupts between rounds, when it holds no lock.
LEMMA SchedulerStiIInv == IInv /\ SchedulerSti => IInv'
<1> SUFFICES ASSUME IInv, SchedulerSti PROVE IInv'
  OBVIOUS
<1>1. locked = {}
  BY DEF IInv, LockedIsTop, Top, SchedulerSti
<1>2. cpu' \in Cpu /\ cpu'.ncli = cpu.ncli
  BY DEF IInv, TypeOK, Cpu, Bit, SchedulerSti
<1>3. QED
  BY <1>1, <1>2, Zenon DEF SchedulerSti, IInv, TypeOK, NoPanic, LockedMeansMasked,
     NcliCountsLocks, OneCriticalSection, LockedIsTop, Top, ContextsMasked, StacksReady

\* Every step of the kernel, of a handler or of the scheduler preserves the
\* invariant.
LEMMA NextIInv == IInv /\ [Next]_vars => IInv'
<1> SUFFICES ASSUME IInv, [Next]_vars PROVE IInv'
  OBVIOUS
<1>1. ASSUME NEW l \in Locks, Acquire(l) \/ Release(l) PROVE IInv'
  BY <1>1, AcquireIInv, ReleaseIInv
<1>2. CASE UserTrap
  BY <1>2, PushFrameIInv DEF UserTrap
<1>3. CASE Interrupt
  BY <1>3, PushFrameIInv DEF Interrupt
<1>4. ASSUME NEW p \in Procs, Swtch(p) PROVE IInv'
  BY <1>4, SwtchIInv
<1>5. CASE UNCHANGED vars
  BY <1>5 DEF vars, IInv, TypeOK, NoPanic, LockedMeansMasked, NcliCountsLocks,
     OneCriticalSection, LockedIsTop, Top, ContextsMasked, StacksReady
<1>6. QED
  BY <1>1, <1>2, <1>3, <1>4, <1>5, SwitchuvmIInv, RteIInv, SchedIInv,
     SchedulerStiIInv DEF Next

\* IInv holds in every reachable state.
THEOREM SpinlockInvariant == Spec => []IInv
BY InitIInv, NextIInv, PTL DEF Spec

\* Typing: a CPU, a stack and a context for every thread, forever.
THEOREM SpinlockTypes == Spec => []TypeOK
<1>1. IInv => TypeOK
  BY DEF IInv
<1>2. QED
  BY <1>1, SpinlockInvariant, PTL

\* However handlers nest and processes switch, acquire, release, popcli and
\* sched never find their consistency checks violated.
THEOREM SpinlockNoPanic == Spec => []NoPanic
<1>1. IInv => NoPanic
  BY DEF IInv
<1>2. QED
  BY <1>1, SpinlockInvariant, PTL

\* Code between acquire and the outermost release runs with SR.BL set, and
\* no other activation on any kernel stack is inside a critical section: a
\* locked section is one atomic step.  The models of the other components
\* take their grain of atomicity from this.
THEOREM SpinlockMutualExclusion == Spec => [](LockedMeansMasked /\ OneCriticalSection)
<1>1. IInv => LockedMeansMasked /\ OneCriticalSection
  BY DEF IInv
<1>2. QED
  BY <1>1, SpinlockInvariant, PTL

\* cpu->ncli, the number of popcli still due, is the number of locks held.
THEOREM SpinlockNesting == Spec => []NcliCountsLocks
<1>1. IInv => NcliCountsLocks
  BY DEF IInv
<1>2. QED
  BY <1>1, SpinlockInvariant, PTL
=============================================================================
