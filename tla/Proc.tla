-------------------------------- MODULE Proc --------------------------------
(***************************************************************************)
(* The process table (proc.c), the timer interrupt (timer.c) and the       *)
(* process system calls (sysproc.c).                                       *)
(*                                                                         *)
(* A section that holds ptable.lock or tickslock is one step: Spinlock     *)
(* proves that it cannot be interrupted.  popcli always enables interrupts *)
(* when the last lock is released, so between two sections of a system     *)
(* call or of the timer handler the process can be interrupted, preempted  *)
(* and, if it was killed, made to exit: those points are the labels below. *)
(*                                                                         *)
(* stk[p] is p's kernel stack, top first; <<>> is user mode.  A frame says *)
(* where the activation continues:                                         *)
(*   forkret       a new child, not yet run                                *)
(*   fork_kstack   in allocproc, slot np taken, kernel stack not allocated *)
(*   fork_copyuvm  in fork, address space not copied                       *)
(*   fork_parent   in fork, np->parent not set                             *)
(*   fork_run      in fork, files and cwd to be duplicated                 *)
(*   exit          in exit, files being closed                             *)
(*   wait          asleep in wait                                          *)
(*   sleep         asleep in sys_sleep                                     *)
(*   sleep_relock  in sleep, ptable.lock released, tickslock not retaken   *)
(*   timer         in do_timer, tick counted, first killed check to come   *)
(*   yield         in yield, switched out                                  *)
(*   timer_ret     in do_timer after yield, second killed check to come    *)
(***************************************************************************)
EXTENDS Integers, Sequences

CONSTANTS NPROC,    \* slots of the process table
          MaxPid,   \* bound on the pids handed out
          MaxSleep, \* bound on the argument of sys_sleep
          MaxDepth  \* bound on nested activations of one kernel stack

ASSUME ProcAssumption ==
  /\ NPROC \in Nat \ {0} /\ MaxPid \in Nat \ {0}
  /\ MaxSleep \in Nat /\ MaxDepth \in Nat \ {0}

VARIABLES state, pid, parent, chan, killed,   \* struct proc, by slot
          nextpid,
          proc,      \* the global proc: running slot, NoProc in scheduler()
          sp,        \* scheduler()'s loop variable p: next slot to look at
          ptlock,    \* ptable.lock is held across the switch in progress
          stk,       \* kernel stacks
          panicked   \* exit called panic("init exiting")

table == <<state, pid, parent, chan, killed, nextpid>>
vars  == <<table, proc, sp, ptlock, stk, panicked>>

Slots     == 1 .. NPROC
NoProc    == 0
initproc  == 1
TicksChan == NPROC + 1     \* &ticks; &ptable.proc[p] is p; 0 is no channel
Chans     == Slots \cup {TicksChan}

States == {"UNUSED", "EMBRYO", "SLEEPING", "RUNNABLE", "RUNNING", "ZOMBIE"}
Live   == {"SLEEPING", "RUNNABLE", "RUNNING"}
ForkLabels == {"fork_kstack", "fork_copyuvm", "fork_parent", "fork_run"}
Labels == ForkLabels \cup {"forkret", "exit", "wait", "sleep", "sleep_relock",
                           "timer", "yield", "timer_ret"}

\* np is fork's local variable; rem is n - (ticks - ticks0) of sys_sleep, 0
\* once the difference is no longer smaller than n.
Frame(at, np, rem) == [at |-> at, np |-> np, rem |-> rem]
Frames == [at : Labels, np : Slots \cup {0}, rem : 0 .. MaxSleep]

\* What a scan of the table from its start finds.
First(q, S) == q \in S /\ \A r \in S : q <= r

-----------------------------------------------------------------------------
\* p runs and holds no lock.
Running(p)  == ~panicked /\ proc = p /\ ~ptlock
UserMode(p) == Running(p) /\ stk[p] = <<>>
Top(p)      == Head(stk[p])
At(p, l)    == Running(p) /\ stk[p] # <<>> /\ Top(p).at = l

\* scheduler() has just switched to p, which still holds ptable.lock.
Resumed(p, l) ==
  ~panicked /\ proc = p /\ ptlock /\ stk[p] # <<>> /\ Top(p).at = l

Call(p, f)     == stk' = [stk EXCEPT ![p] = <<f>> \o @]
Continue(p, f) == stk' = [stk EXCEPT ![p] = <<f>> \o Tail(@)]
Goto(p, l)     == Continue(p, Frame(l, Top(p).np, Top(p).rem))
Return(p)      == stk' = [stk EXCEPT ![p] = Tail(@)]

\* sched(): back into scheduler()'s loop, ptable.lock held.
Sched == proc' = NoProc /\ ptlock' = TRUE

\* A wakeup that stops at the first process sleeping on the channel.
Wakeup1First(st, c) ==
  LET on == {q \in Slots : st[q] = "SLEEPING" /\ chan[q] = c}
  IN  [q \in Slots |-> IF First(q, on) THEN "RUNNABLE" ELSE st[q]]

Wakeup1(st, c) ==
  [q \in Slots |-> IF st[q] = "SLEEPING" /\ chan[q] = c THEN "RUNNABLE" ELSE st[q]]

-----------------------------------------------------------------------------
(* scheduler() *)

\* The head of the loop: interrupts are on until ptable.lock is acquired.
SchedulerAcquire ==
  /\ ~panicked /\ proc = NoProc /\ ~ptlock
  /\ ptlock' = TRUE
  /\ sp' = 1
  /\ UNCHANGED <<table, proc, stk, panicked>>

\* What is left of the scan, and one that is off by one.
ReadyAfter == {q \in Slots : q > sp /\ state[q] = "RUNNABLE"}
Ready == {q \in Slots : q >= sp /\ state[q] = "RUNNABLE"}

SchedulerSwtch ==
  /\ ~panicked /\ proc = NoProc /\ ptlock
  /\ \E p \in Ready :
       /\ First(p, Ready)
       /\ proc' = p
       /\ state' = [state EXCEPT ![p] = "RUNNING"]
       /\ sp' = p + 1
  /\ UNCHANGED <<pid, parent, chan, killed, nextpid, ptlock, stk, panicked>>

SchedulerRelease ==
  /\ ~panicked /\ proc = NoProc /\ ptlock /\ Ready = {}
  /\ ptlock' = FALSE
  /\ UNCHANGED <<table, proc, sp, stk, panicked>>

\* A child's first run: release ptable.lock, return to user mode.
Forkret(p) ==
  /\ Resumed(p, "forkret")
  /\ ptlock' = FALSE
  /\ Return(p)
  /\ UNCHANGED <<table, proc, sp, panicked>>

-----------------------------------------------------------------------------
(* fork *)

\* What allocproc makes of the slot before it releases ptable.lock, and one
\* that does not mark it.
Unclaimed == "UNUSED"
Claimed == "EMBRYO"

\* allocproc's section.  The table may be full: fork returns -1.
SysFork(p) ==
  /\ UserMode(p)
  /\ nextpid <= MaxPid
  /\ LET free == {q \in Slots : state[q] = "UNUSED"}
     IN  \/ /\ free = {}
            /\ UNCHANGED <<table, stk>>
         \/ \E np \in free :
              /\ First(np, free)
              /\ state' = [state EXCEPT ![np] = Claimed]
              /\ pid' = [pid EXCEPT ![np] = nextpid]
              /\ Call(p, Frame("fork_kstack", np, 0))
              /\ nextpid' = nextpid + 1
              /\ UNCHANGED <<parent, chan, killed>>
  /\ UNCHANGED <<proc, sp, ptlock, panicked>>

\* kalloc or copyuvm found no memory: the slot is given back with its pid.
ForkFail(p) ==
  /\ At(p, "fork_kstack") \/ At(p, "fork_copyuvm")
  /\ state' = [state EXCEPT ![Top(p).np] = "UNUSED"]
  /\ stk' = [stk EXCEPT ![p] = Tail(@), ![Top(p).np] = <<>>]
  /\ UNCHANGED <<pid, parent, chan, killed, nextpid, proc, sp, ptlock, panicked>>

\* allocproc builds the stack from which the child will enter forkret.
ForkKstack(p) ==
  /\ At(p, "fork_kstack")
  /\ stk' = [stk EXCEPT ![p] = <<Frame("fork_copyuvm", Top(p).np, 0)>> \o Tail(@),
                        ![Top(p).np] = <<Frame("forkret", 0, 0)>>]
  /\ UNCHANGED <<table, proc, sp, ptlock, panicked>>

ForkCopyuvm(p) ==
  /\ At(p, "fork_copyuvm")
  /\ Goto(p, "fork_parent")
  /\ UNCHANGED <<table, proc, sp, ptlock, panicked>>

ForkParent(p) ==
  /\ At(p, "fork_parent")
  /\ parent' = [parent EXCEPT ![Top(p).np] = p]
  /\ Goto(p, "fork_run")
  /\ UNCHANGED <<state, pid, chan, killed, nextpid, proc, sp, ptlock, panicked>>

ForkRun(p) ==
  /\ At(p, "fork_run")
  /\ state' = [state EXCEPT ![Top(p).np] = "RUNNABLE"]
  /\ Return(p)
  /\ UNCHANGED <<pid, parent, chan, killed, nextpid, proc, sp, ptlock, panicked>>

-----------------------------------------------------------------------------
(* exit and wait *)

\* if(proc == initproc) panic("init exiting")
ExitEntry(p) == panicked' = (p = initproc)

SysExit(p) ==
  /\ UserMode(p)
  /\ ExitEntry(p)
  /\ Call(p, Frame("exit", 0, 0))
  /\ UNCHANGED <<table, proc, sp, ptlock>>

\* do_tlb_violation: a bad access in user mode.
TlbViolation(p) ==
  /\ UserMode(p)
  /\ killed' = [killed EXCEPT ![p] = TRUE]
  /\ ExitEntry(p)
  /\ Call(p, Frame("exit", 0, 0))
  /\ UNCHANGED <<state, pid, parent, chan, nextpid, proc, sp, ptlock>>

Orphans(p) == {q \in Slots : parent[q] = p}

\* exit wakes the parent, and init if it inherits a zombie; or nobody.
ExitWakesNobody(p) == state
ExitWakes(p) ==
  LET st == Wakeup1(state, parent[p])
  IN  IF \E q \in Orphans(p) : state[q] = "ZOMBIE" THEN Wakeup1(st, initproc) ELSE st

\* Files closed and cwd released; then one section: the wakeups, the children
\* passed to init, ZOMBIE, sched.
ExitSched(p) ==
  /\ At(p, "exit")
  /\ state' = [ExitWakes(p) EXCEPT ![p] = "ZOMBIE"]
  /\ parent' = [q \in Slots |-> IF q \in Orphans(p) THEN initproc ELSE parent[q]]
  /\ stk' = [stk EXCEPT ![p] = <<>>]
  /\ Sched
  /\ UNCHANGED <<pid, chan, killed, nextpid, sp, panicked>>

\* One pass of wait's loop, ptable.lock held; below is the stack wait
\* returns to.
WaitLoop(p, below) ==
  LET kids    == {q \in Slots : parent[q] = p}
      zombies == {q \in kids : state[q] = "ZOMBIE"}
  IN  /\ \/ /\ \E q \in zombies :
                 /\ First(q, zombies)
                 /\ state' = [state EXCEPT ![q] = "UNUSED"]
                 /\ pid' = [pid EXCEPT ![q] = 0]
                 /\ parent' = [parent EXCEPT ![q] = NoProc]
                 /\ killed' = [killed EXCEPT ![q] = FALSE]
            /\ chan' = [chan EXCEPT ![p] = 0]
            /\ stk' = [stk EXCEPT ![p] = below]
            /\ ptlock' = FALSE
            /\ UNCHANGED proc
         \/ /\ zombies = {}
            /\ kids = {} \/ killed[p]
            /\ chan' = [chan EXCEPT ![p] = 0]
            /\ stk' = [stk EXCEPT ![p] = below]
            /\ ptlock' = FALSE
            /\ UNCHANGED <<state, pid, parent, killed, proc>>
         \/ /\ zombies = {}
            /\ kids # {} /\ ~killed[p]
            /\ chan' = [chan EXCEPT ![p] = p]
            /\ state' = [state EXCEPT ![p] = "SLEEPING"]
            /\ stk' = [stk EXCEPT ![p] = <<Frame("wait", 0, 0)>> \o below]
            /\ Sched
            /\ UNCHANGED <<pid, parent, killed>>
      /\ UNCHANGED <<nextpid, sp, panicked>>

SysWait(p) == UserMode(p) /\ WaitLoop(p, stk[p])

\* Woken in wait: lk is ptable.lock itself, so the loop goes on with it.
WaitResume(p) == Resumed(p, "wait") /\ WaitLoop(p, Tail(stk[p]))

-----------------------------------------------------------------------------
(* kill and sys_sleep *)

\* kill wakes the process from sleep, or does not.
KillKeeps(s) == s
KillWakes(s) == IF s = "SLEEPING" THEN "RUNNABLE" ELSE s

\* The first slot with that pid, whatever its state.
SysKill(p, n) ==
  /\ UserMode(p)
  /\ LET found == {q \in Slots : pid[q] = n}
     IN  \E q \in found :
           /\ First(q, found)
           /\ killed' = [killed EXCEPT ![q] = TRUE]
           /\ state' = [state EXCEPT ![q] = KillWakes(@)]
  /\ UNCHANGED <<pid, parent, chan, nextpid, proc, sp, ptlock, stk, panicked>>

\* sys_sleep's loop with tickslock held; below is the stack it returns to.
SleepLoop(p, rem, below) ==
  /\ \/ /\ rem = 0 \/ killed[p]
        /\ stk' = [stk EXCEPT ![p] = below]
        /\ UNCHANGED <<state, chan, proc, ptlock>>
     \/ /\ rem > 0 /\ ~killed[p]
        /\ chan' = [chan EXCEPT ![p] = TicksChan]
        /\ state' = [state EXCEPT ![p] = "SLEEPING"]
        /\ stk' = [stk EXCEPT ![p] = <<Frame("sleep", 0, rem)>> \o below]
        /\ Sched
  /\ UNCHANGED <<pid, parent, killed, nextpid, sp, panicked>>

SysSleep(p, n) == UserMode(p) /\ SleepLoop(p, n, stk[p])

\* sleep's tail: chan cleared, ptable.lock released, lk not yet reacquired.
SleepResume(p) ==
  /\ Resumed(p, "sleep")
  /\ chan' = [chan EXCEPT ![p] = 0]
  /\ ptlock' = FALSE
  /\ Goto(p, "sleep_relock")
  /\ UNCHANGED <<state, pid, parent, killed, nextpid, proc, sp, panicked>>

SleepRelock(p) ==
  /\ At(p, "sleep_relock")
  /\ SleepLoop(p, Top(p).rem, Tail(stk[p]))

-----------------------------------------------------------------------------
(* do_timer *)

\* Every sleeper's ticks - ticks0 grows by one.
Aged(f) == Frame(f.at, f.np, IF f.rem > 0 THEN f.rem - 1 ELSE 0)
Ticked == [q \in Slots |-> [i \in DOMAIN stk[q] |-> Aged(stk[q][i])]]

\* The section of do_timer: ticks++ and wakeup(&ticks).  In scheduler() proc
\* is 0 and the handler then returns; otherwise its checks are still to come.
Tick ==
  /\ ~panicked /\ ~ptlock
  /\ proc # NoProc => Len(stk[proc]) < MaxDepth
  /\ state' = Wakeup1(state, TicksChan)
  /\ stk' = IF proc = NoProc THEN Ticked
            ELSE [Ticked EXCEPT ![proc] = <<Frame("timer", 0, 0)>> \o @]
  /\ UNCHANGED <<pid, parent, chan, killed, nextpid, proc, sp, ptlock, panicked>>

\* if(proc && proc->killed) exit(): user mode or not.
TimerExit(p) ==
  /\ At(p, "timer") \/ At(p, "timer_ret")
  /\ killed[p]
  /\ ExitEntry(p)
  /\ Goto(p, "exit")
  /\ UNCHANGED <<table, proc, sp, ptlock>>

\* if(proc && proc->state == RUNNING) yield()
TimerYield(p) ==
  /\ At(p, "timer")
  /\ ~killed[p]
  /\ state' = [state EXCEPT ![p] = "RUNNABLE"]
  /\ Goto(p, "yield")
  /\ Sched
  /\ UNCHANGED <<pid, parent, chan, killed, nextpid, sp, panicked>>

YieldResume(p) ==
  /\ Resumed(p, "yield")
  /\ ptlock' = FALSE
  /\ Goto(p, "timer_ret")
  /\ UNCHANGED <<table, proc, sp, panicked>>

TimerReturn(p) ==
  /\ At(p, "timer_ret")
  /\ ~killed[p]
  /\ Return(p)
  /\ UNCHANGED <<table, proc, sp, ptlock, panicked>>

-----------------------------------------------------------------------------
\* userinit has made slot 1 runnable; scheduler() is about to start.
Init ==
  /\ state = [q \in Slots |-> IF q = initproc THEN "RUNNABLE" ELSE "UNUSED"]
  /\ pid = [q \in Slots |-> IF q = initproc THEN 1 ELSE 0]
  /\ parent = [q \in Slots |-> NoProc]
  /\ chan = [q \in Slots |-> 0]
  /\ killed = [q \in Slots |-> FALSE]
  /\ nextpid = 2
  /\ proc = NoProc
  /\ sp = 1
  /\ ptlock = FALSE
  /\ stk = [q \in Slots |-> IF q = initproc THEN <<Frame("forkret", 0, 0)>> ELSE <<>>]
  /\ panicked = FALSE

Scheduler == SchedulerAcquire \/ SchedulerSwtch \/ SchedulerRelease

\* What the kernel does on p's stack.
Kernel(p) ==
  \/ Forkret(p)
  \/ ForkFail(p) \/ ForkKstack(p) \/ ForkCopyuvm(p) \/ ForkParent(p) \/ ForkRun(p)
  \/ ExitSched(p)
  \/ WaitResume(p)
  \/ SleepResume(p) \/ SleepRelock(p)
  \/ TimerExit(p) \/ TimerYield(p) \/ YieldResume(p) \/ TimerReturn(p)

\* The system calls and faults of p's program.
User(p) ==
  \/ SysFork(p)
  \/ SysExit(p)
  \/ TlbViolation(p)
  \/ SysWait(p)
  \/ \E n \in 0 .. MaxPid : SysKill(p, n)
  \/ \E n \in 0 .. MaxSleep : SysSleep(p, n)

\* for(;;) at the end of panic
PanicLoop == panicked /\ UNCHANGED vars

Next ==
  \/ Scheduler
  \/ Tick
  \/ \E p \in Slots : Kernel(p) \/ User(p)
  \/ PanicLoop

Spec == Init /\ [][Next]_vars

-----------------------------------------------------------------------------
(* Safety *)

TypeOK ==
  /\ state \in [Slots -> States]
  /\ pid \in [Slots -> 0 .. MaxPid]
  /\ parent \in [Slots -> Slots \cup {NoProc}]
  /\ chan \in [Slots -> Chans \cup {0}]
  /\ killed \in [Slots -> BOOLEAN]
  /\ nextpid \in 1 .. MaxPid + 1
  /\ proc \in Slots \cup {NoProc}
  /\ sp \in 1 .. NPROC + 1
  /\ ptlock \in BOOLEAN
  /\ stk \in [Slots -> Seq(Frames)]
  /\ panicked \in BOOLEAN

\* No exit is missed by wait: a process asleep in wait has no zombie child.
\* (exit's wakeup1 of the parent and of init, against wait's scan.)
NoMissedExit ==
  \A p, q \in Slots :
    state[p] = "SLEEPING" /\ chan[p] = p /\ parent[q] = p => state[q] # "ZOMBIE"

\* No tick is missed by sys_sleep: a process asleep on &ticks has ticks left
\* to sleep at the last tick it was asleep for.
NoMissedTick ==
  \A p \in Slots : state[p] = "SLEEPING" /\ chan[p] = TicksChan => Top(p).rem > 0

\* kill is not missed: a killed process is never asleep, in wait or in
\* sys_sleep, whenever the kill came.
KilledNotAsleep == \A p \in Slots : killed[p] => state[p] # "SLEEPING"

\* p->parent is a live process that can still call wait: exit never leaves a
\* child (a running one, a zombie or one that fork is still building) to a
\* parent that is dead or free, so every zombie has a reaper.
ParentsLive ==
  \A q \in Slots : parent[q] # NoProc =>
    state[parent[q]] \in Live

\* The slot that fork is building stays EMBRYO, and is being built by one
\* process only, although fork holds no lock.
ForkOwnsEmbryo ==
  \A p \in Slots : \A i \in DOMAIN stk[p] :
    LET np == stk[p][i].np
    IN  np # 0 =>
          /\ state[np] = "EMBRYO"
          /\ \A q \in Slots : \A j \in DOMAIN stk[q] :
               stk[q][j].np = np => q = p /\ j = i

\* scheduler() and the process table agree on who runs, and every process
\* that is not running stopped at a point from which scheduler() can resume
\* it holding ptable.lock.
RunningIsProc ==
  \A p \in Slots :
    /\ state[p] = "RUNNING" <=> proc = p
    /\ state[p] \in {"SLEEPING", "RUNNABLE"} =>
         stk[p] # <<>> /\ Top(p).at \in {"forkret", "wait", "sleep", "yield"}

\* The parts of proc.c together implement the sleep/wakeup interface: a
\* process stops sleeping only through a wakeup of its channel, which wakes
\* all who sleep on it, or through kill.
SW == INSTANCE SleepWakeup WITH
        Sleepers <- Slots, Awake <- 0,
        asleep <- [p \in Slots |-> IF state[p] = "SLEEPING" THEN chan[p] ELSE 0]

ImplementsSleepWakeup == SW!Spec

-----------------------------------------------------------------------------
(* What the safety properties rest on, checked as parts of IInv *)

\* A frame of fork, and no other, has a slot under construction; after
\* allocproc the slot's stack leads to forkret.
ForkFrames ==
  \A p \in Slots : \A i \in DOMAIN stk[p] :
    LET f == stk[p][i]
    IN  /\ f.np # 0 <=> f.at \in ForkLabels
        /\ f.at \in ForkLabels \ {"fork_kstack"} =>
             stk[f.np] # <<>> /\ Top(f.np).at = "forkret"

\* init neither dies nor gets a parent: it cannot exit without a panic.
InitLives ==
  /\ state[initproc] \in Live
  /\ parent[initproc] = NoProc
  /\ \A i \in DOMAIN stk[initproc] : stk[initproc][i].at = "exit" => panicked

NotOwnParent == \A q \in Slots : parent[q] # q

SleepersHaveChan == \A p \in Slots : state[p] = "SLEEPING" => chan[p] \in Chans

IInv ==
  /\ TypeOK
  /\ RunningIsProc
  /\ ForkFrames /\ ForkOwnsEmbryo
  /\ InitLives /\ NotOwnParent /\ ParentsLive
  /\ SleepersHaveChan
  /\ NoMissedExit /\ NoMissedTick /\ KilledNotAsleep

-----------------------------------------------------------------------------
(* Liveness *)

\* The scheduler keeps running and the timer keeps ticking: an underflow that
\* comes while interrupts are masked stays pending, so SF.  Between two ticks
\* the kernel code on a stack gets to its next step: a step is short against
\* the timer's period.  Strong fairness by stack depth, because the steps of
\* a handler on top of a system call do not move the system call forward.
\* init.c calls wait again and again.
Fairness ==
  /\ WF_vars(Scheduler)
  /\ SF_vars(Tick)
  /\ \A p \in Slots, d \in 1 .. MaxDepth : SF_vars(Len(stk[p]) = d /\ Kernel(p))
  /\ SF_vars(SysWait(initproc))

FairSpec == Spec /\ Fairness

\* scheduler() starves nobody: a runnable process gets to run.
RunnableRuns ==
  \A p \in Slots : state[p] = "RUNNABLE" ~> (state[p] # "RUNNABLE" \/ panicked)

\* A killed process dies, wherever it was when it was killed.
KilledDies ==
  \A p \in Slots :
    killed[p] /\ state[p] \in Live
      ~> (state[p] \in {"ZOMBIE", "UNUSED"} \/ panicked)

\* A zombie that belongs to init, by birth or because its parent died, is
\* reaped.
OrphansReaped ==
  \A p \in Slots :
    state[p] = "ZOMBIE" /\ parent[p] = initproc ~> (state[p] = "UNUSED" \/ panicked)

\* sys_sleep(n) ends.
SleepEnds ==
  \A p \in Slots :
    state[p] = "SLEEPING" /\ chan[p] = TicksChan
      ~> (stk[p] = <<>> \/ panicked)
=============================================================================
