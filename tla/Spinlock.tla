------------------------------ MODULE Spinlock ------------------------------
(***************************************************************************)
(* Spinlocks, interrupt masking and kernel stack switching on the single   *)
(* SH-4A CPU: spinlock.c, cli/sti (sh4.h), the trap entry and return paths *)
(* (entry.S) and the hand-off of ptable.lock across swtch (proc.c).        *)
(*                                                                         *)
(* The code that uses the locks is the most general client: whatever runs  *)
(* in the kernel may acquire a lock it does not hold and release one it    *)
(* holds, in any order.  What the module checks is that this is enough for *)
(* the locks to be critical sections although interrupt handlers nest on   *)
(* top of kernel code and processes are switched from inside handlers.     *)
(*                                                                         *)
(* Level i of a thread's kernel stack is the i-th activation on it: the    *)
(* system call or exception at the bottom, interrupt handlers above it.    *)
(* depth[p] = 0 means process p is in user mode.  The scheduler's own loop *)
(* (and main(), which becomes it) is level 1 of the Scheduler thread.      *)
(***************************************************************************)
EXTENDS Naturals, FiniteSets

CONSTANTS Procs,      \* processes, each with a kernel stack of its own
          Scheduler,  \* the boot thread: main() and then scheduler()
          Locks,      \* every struct spinlock of the kernel
          ptable,     \* ptable.lock
          MaxDepth    \* bound on the activations on one kernel stack

ASSUME LocksAssumption == IsFiniteSet(Locks) /\ ptable \in Locks
ASSUME ThreadsAssumption == Scheduler \notin Procs
ASSUME DepthAssumption == MaxDepth \in Nat /\ MaxDepth >= 2

VARIABLES thr,      \* thread whose kernel stack (or user code) the CPU runs
          cpu,      \* SR.BL and the fields ncli and intena of struct cpu
          locked,   \* locks with lk->locked = 1 (then lk->cpu = cpu)
          depth,    \* depth[t]: activations on t's kernel stack
          ssr,      \* ssr[t][i]: SR.BL saved in the trap frame of level i
          own,      \* own[t][i]: locks acquired by level i, not yet released
          ctx,      \* ctx[t]: what swtch and sched saved for t
          panicked  \* the argument of panic(), or "none" while it was not called

vars == <<thr, cpu, locked, depth, ssr, own, ctx, panicked>>

Threads == Procs \cup {Scheduler}
Levels  == 1 .. MaxDepth

Bit     == {0, 1}
Cpu     == [bl : Bit, ncli : Nat, intena : Bit]
Context == [pr : {"sched", "forkret"}, bl : Bit, intena : Bit]

Panics  == {"none", "acquire", "release", "popcli - interruptible", "popcli",
            "sched ptable.lock", "sched locks", "sched interruptible"}

\* allocproc's context: swtch enters forkret with SR = 0x70000000 (BL set).
FreshContext == [pr |-> "forkret", bl |-> 1, intena |-> 0]

-----------------------------------------------------------------------------
(* pushcli and popcli, as functions on the CPU's state. *)

\* sr | SR_BL_MASK: non-zero whatever sr was.
IntenaOf(sr_bl) == 1

Pushcli(c) ==
  [bl     |-> 1,
   ncli   |-> c.ncli + 1,
   intena |-> IF c.ncli = 0 THEN IntenaOf(c.bl) ELSE c.intena]

PopcliPanic(c) ==
  IF c.bl = 0 THEN "popcli - interruptible"
  ELSE IF c.ncli = 0 THEN "popcli" ELSE "none"

\* A popcli that enables interrupts before the last one due.
PopcliEarly(c) ==
  [bl |-> IF c.intena = 1 THEN 0 ELSE c.bl, ncli |-> c.ncli - 1, intena |-> c.intena]

Popcli(c) ==
  [bl     |-> IF c.ncli = 1 /\ c.intena = 1 THEN 0 ELSE c.bl,
   ncli   |-> c.ncli - 1,
   intena |-> c.intena]

-----------------------------------------------------------------------------
\* The consistency checks of acquire, release, popcli and sched never fail:
\* no interleaving of handlers and switches makes kernel code that releases
\* what it acquires panic.
NoPanic == panicked = "none"

InKernel == NoPanic /\ depth[thr] > 0
Top      == own[thr][depth[thr]]    \* locks of the running activation

\* holding(lk) is l \in locked: there is one CPU.  The spin loop after the
\* check never runs for the same reason.
Acquire(l) ==
  /\ InKernel
  /\ l \notin Top
  /\ cpu' = Pushcli(cpu)
  /\ panicked' = IF l \in locked THEN "acquire" ELSE "none"
  /\ locked' = locked \cup {l}
  /\ own' = [own EXCEPT ![thr][depth[thr]] = @ \cup {l}]
  /\ UNCHANGED <<thr, depth, ssr, ctx>>

Release(l) ==
  /\ InKernel
  /\ l \in Top
  /\ panicked' = IF l \notin locked THEN "release" ELSE PopcliPanic(cpu)
  /\ locked' = locked \ {l}
  /\ cpu' = Popcli(cpu)
  /\ own' = [own EXCEPT ![thr][depth[thr]] = @ \ {l}]
  /\ UNCHANGED <<thr, depth, ssr, ctx>>

\* The pushcli/popcli pair around the TLB reload: called by a process from
\* growproc and exec, and by scheduler() holding ptable.lock.
Switchuvm ==
  /\ InKernel
  /\ depth[thr] = 1
  /\ thr = Scheduler => Top = {ptable}
  /\ cpu' = Popcli(Pushcli(cpu))
  /\ UNCHANGED <<thr, locked, depth, ssr, own, ctx, panicked>>

-----------------------------------------------------------------------------
(* Trap entry and return.  The hardware saves SR in SSR and sets SR.BL. *)

PushFrame ==
  /\ depth' = [depth EXCEPT ![thr] = @ + 1]
  /\ ssr' = [ssr EXCEPT ![thr][depth[thr] + 1] = cpu.bl]
  /\ cpu' = [cpu EXCEPT !.bl = 1]
  /\ UNCHANGED <<thr, locked, own, ctx, panicked>>

\* TRAPA, or a TLB exception, in user mode.
UserTrap ==
  /\ NoPanic
  /\ thr \in Procs /\ depth[thr] = 0
  /\ PushFrame

\* The timer or the serial port interrupts user code, a process inside the
\* kernel, or the scheduler's loop.
Interrupt ==
  /\ NoPanic
  /\ cpu.bl = 0
  /\ depth[thr] < MaxDepth
  /\ PushFrame

\* rte at the end of trapret: SR is reloaded from SSR.
Rte ==
  /\ InKernel
  /\ Top = {}
  /\ thr = Scheduler => depth[thr] > 1
  /\ cpu' = [cpu EXCEPT !.bl = ssr[thr][depth[thr]]]
  /\ depth' = [depth EXCEPT ![thr] = @ - 1]
  /\ UNCHANGED <<thr, locked, ssr, own, ctx, panicked>>

-----------------------------------------------------------------------------
(* Switching stacks.  ptable.lock changes hands with the CPU. *)

\* The swtch of sched: from the running process back into scheduler().
LeaveProcess(context) ==
  /\ thr' = Scheduler
  /\ ctx' = [ctx EXCEPT ![thr] = context]
  /\ cpu' = [cpu EXCEPT !.bl = ctx[Scheduler].bl]
  /\ own' = [own EXCEPT ![thr][depth[thr]] = @ \ {ptable},
                        ![Scheduler][1] = {ptable}]

SchedPanic ==
  IF ptable \notin locked THEN "sched ptable.lock"
  ELSE IF cpu.ncli # 1 THEN "sched locks"
  ELSE IF cpu.bl = 0 THEN "sched interruptible" ELSE "none"

\* yield and sleep call sched holding ptable.lock and nothing else that the
\* same activation acquired; what outer activations hold they cannot know.
Sched ==
  /\ InKernel
  /\ thr \in Procs
  /\ Top = {ptable}
  /\ panicked' = SchedPanic
  /\ LeaveProcess([pr |-> "sched", bl |-> cpu.bl, intena |-> cpu.intena])
  /\ UNCHANGED <<locked, depth, ssr>>

\* exit abandons the kernel stack; the slot runs again only after allocproc
\* has given it a new stack with one trap frame (ssr = 0) and a new context.
Exit ==
  /\ InKernel
  /\ thr \in Procs
  /\ Top = {ptable}
  /\ panicked' = SchedPanic
  /\ LeaveProcess(FreshContext)
  /\ depth' = [depth EXCEPT ![thr] = 1]
  /\ ssr' = [ssr EXCEPT ![thr][1] = 0]
  /\ UNCHANGED locked

\* scheduler() holding ptable.lock resumes p inside sched, which restores
\* intena, or enters forkret, which does not.
Swtch(p) ==
  /\ NoPanic
  /\ thr = Scheduler /\ depth[Scheduler] = 1
  /\ own[Scheduler][1] = {ptable}
  /\ thr' = p
  /\ ctx' = [ctx EXCEPT ![Scheduler].bl = cpu.bl]
  /\ cpu' = [cpu EXCEPT !.bl = ctx[p].bl,
                        !.intena = IF ctx[p].pr = "sched" THEN ctx[p].intena ELSE @]
  /\ own' = [own EXCEPT ![Scheduler][1] = {}, ![p][depth[p]] = {ptable}]
  /\ UNCHANGED <<locked, depth, ssr, panicked>>

\* The sti at the head of scheduler()'s loop, ptable.lock not held.
SchedulerSti ==
  /\ NoPanic
  /\ thr = Scheduler /\ depth[Scheduler] = 1
  /\ own[Scheduler][1] = {}
  /\ cpu' = [cpu EXCEPT !.bl = 0]
  /\ UNCHANGED <<thr, locked, depth, ssr, own, ctx, panicked>>

-----------------------------------------------------------------------------
\* main() starts on the boot stack with SR.BL set (SR_INIT in entry.S); every
\* process has the stack and context allocproc builds.
Init ==
  /\ thr = Scheduler
  /\ cpu = [bl |-> 1, ncli |-> 0, intena |-> 0]
  /\ locked = {}
  /\ depth = [t \in Threads |-> 1]
  /\ ssr = [t \in Threads |-> [i \in Levels |-> 0]]
  /\ own = [t \in Threads |-> [i \in Levels |-> {}]]
  /\ ctx = [t \in Threads |-> FreshContext]
  /\ panicked = "none"

Next ==
  \/ \E l \in Locks : Acquire(l) \/ Release(l)
  \/ Switchuvm
  \/ UserTrap
  \/ Interrupt
  \/ Rte
  \/ Sched
  \/ Exit
  \/ \E p \in Procs : Swtch(p)
  \/ SchedulerSti

Spec == Init /\ [][Next]_vars

-----------------------------------------------------------------------------
TypeOK ==
  /\ thr \in Threads
  /\ cpu \in Cpu
  /\ locked \subseteq Locks
  /\ depth \in [Threads -> 0 .. MaxDepth]
  /\ ssr \in [Threads -> [Levels -> Bit]]
  /\ own \in [Threads -> [Levels -> SUBSET Locks]]
  /\ ctx \in [Threads -> Context]
  /\ panicked \in Panics

\* While any spinlock is held interrupts are masked, so the code between
\* acquire and the outermost release is not interrupted.
LockedMeansMasked == locked # {} => cpu.bl = 1

\* cpu->ncli counts the locks held between calls of acquire and release.
NcliCountsLocks == cpu.ncli = Cardinality(locked)

\* Only the running thread is inside critical sections, and on its stack only
\* the topmost activation: a handler never runs above, and sched never
\* leaves behind, code that holds a lock.
OneCriticalSection ==
  \A t \in Threads : \A i \in Levels :
    own[t][i] # {} => t = thr /\ i = depth[t]

-----------------------------------------------------------------------------
(* The inductive invariant: the properties above and what they rest on. *)

\* lk->locked is set exactly for the locks of the running activation.
LockedIsTop == locked = IF depth[thr] = 0 THEN {} ELSE Top

\* Every thread that is switched out was switched out with SR.BL set.
ContextsMasked == \A t \in Threads : t # thr => ctx[t].bl = 1

\* A thread that is switched out has an activation to come back to, and
\* scheduler() comes back to its loop.
StacksReady ==
  /\ \A t \in Threads : t # thr => depth[t] >= 1
  /\ depth[Scheduler] >= 1
  /\ thr # Scheduler => depth[Scheduler] = 1

\* Together they are preserved by every step.
IInv ==
  /\ TypeOK
  /\ NoPanic
  /\ LockedMeansMasked
  /\ NcliCountsLocks
  /\ OneCriticalSection
  /\ LockedIsTop
  /\ ContextsMasked
  /\ StacksReady

=============================================================================
