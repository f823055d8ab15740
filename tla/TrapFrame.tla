----------------------------- MODULE TrapFrame -----------------------------
(***************************************************************************)
(* The registers across traps, interrupts and context switches: entry.S,   *)
(* the dispatch through vect_table (vectors.S), the end of do_syscall and  *)
(* swtch.S, composed with Spinlock, which says when interrupts are masked. *)
(*                                                                         *)
(* A register holds the name of the activation whose value it has, <<t, i>>*)
(* for level i of thread t, level 0 being t's user code.  Registers that   *)
(* are saved, loaded and banked alike are one: r0-r7 of each bank, `rest'  *)
(* for r8-r14, pr, mach, macl and gbr, `ctl' for spc, ssr and sgr, which   *)
(* the hardware writes at every trap.  User code and the scheduler run on  *)
(* bank 0, traps (and so everything processes do in the kernel) on bank 1. *)
(***************************************************************************)
EXTENDS Spinlock, Sequences

VARIABLES regs,    \* the CPU's registers
          frames,  \* frames[t]: the trap frames on t's kernel stack, top last
          saved,   \* saved[t]: what swtch left on t's stack above them
          lost,    \* rte went elsewhere than to the code that was interrupted
          torn,    \* history: an interrupt came after trapret had loaded spc
          moved    \* history: t was switched out since r0-r7 of its user
                   \* code, or the result of its system call, were in bank 0

tvars == <<regs, frames, saved, lost, torn, moved>>
allvars == <<vars, tvars>>

Me          == <<thr, depth[thr]>>
Interrupted == <<thr, depth[thr] - 1>>

\* SR.RB of an activation: SR_INIT for the scheduler, 0 for user code, else
\* set by the trap.
RB(a) == IF a[2] = 0 \/ a = <<Scheduler, 1>> THEN 0 ELSE 1

\* A frame, with the event that vect_table is indexed by and how far trapret
\* has got: "c" in the C handler, "r14" at spc, "ssr" past ssr.
Trapframe(low, rest, ctl, event) ==
  [low |-> low, rest |-> rest, ctl |-> ctl, event |-> event, at |-> "c"]

\* "other" is all that vect_table sends to trap().
Exceptions == {"trapa", "tlb_violation", "other"}
TlbEvents  == {"tlb_miss"}
Interrupts == {"tmu0", "scif"}

\* do_tlb_miss does nothing, do_scif_read only stores characters; system
\* calls and do_timer may give up the CPU, do_tlb_violation exits.
MaySched == {"trapa", "tmu0"}
MayExit  == {"trapa", "tmu0", "tlb_violation"}

Trapped == frames[thr] # <<>>
F       == frames[thr][Len(frames[thr])]
At(s)   == Trapped /\ F.at = s
InTrap  == Trapped /\ F.event = "other"

\* C code runs, as opposed to trapret and to an address nobody chose.
InC == ~lost /\ (Trapped => At("c") /\ ~InTrap)

\* The activation goes on with registers of its own in the bank it runs on.
Use(r, a) == [r EXCEPT !.bank[RB(a)] = a, !.rest = a]

-----------------------------------------------------------------------------
(* Entry: the frame is pushed with interrupts masked.                      *)

\* What user code has in its registers at the trap is its own by definition.
Before == [(IF depth[thr] = 0 THEN Use(regs, Me) ELSE regs) EXCEPT !.ctl = Me]

\* The registers a frame has room for, and a frame that leaves out r8-r14.
PushedShort(r) == [r EXCEPT !.rest = <<thr, depth[thr] + 1>>]
Pushed(r) == r

Enter(e) ==
  LET r == Pushed(Before)
  IN  /\ frames' = [frames EXCEPT ![thr] = Append(@, Trapframe(r.bank[1], r.rest, r.ctl, e))]
      /\ regs' = Use(Before, <<thr, depth[thr] + 1>>)
      /\ moved' = IF depth[thr] = 0 THEN [moved EXCEPT ![thr] = FALSE] ELSE moved
      /\ UNCHANGED <<saved, lost>>

\* general_exception and tlb_exception, from user code.  The latter finds
\* the kernel stack with the help of the boot stack, in use no more.
GeneralException(e) == ~lost /\ UserTrap /\ Enter(e) /\ UNCHANGED torn
TlbException(e) == ~lost /\ UserTrap /\ Enter(e) /\ UNCHANGED torn

\* intr_entry, from anywhere: also from the middle of trapret.
Intr(e) ==
  /\ ~lost
  /\ Interrupt
  /\ Enter(e)
  /\ torn' = (torn \/ At("ssr"))

-----------------------------------------------------------------------------
(* Return.  Interrupts are not masked if the handler took a lock.          *)

Goto(s) == frames' = [frames EXCEPT ![thr][Len(frames[thr])].at = s]

\* do_syscall, whatever the call did, ends with an ldc to r0_bank; the
\* caller expects nothing in r1-r7.
DoSyscall == [bank0 |-> Interrupted, moved |-> [moved EXCEPT ![thr] = FALSE]]
OtherHandler == [bank0 |-> regs.bank[0], moved |-> moved]

\* The handler returns and trapret loads r0-r14 and the rest.
HandlerReturns ==
  /\ Trapped /\ InC /\ InKernel /\ Top = {}
  /\ LET h == IF F.event = "trapa" THEN DoSyscall ELSE OtherHandler
     IN  /\ regs' = [regs EXCEPT !.bank = [b \in Bit |-> IF b = 0 THEN h.bank0 ELSE F.low],
                             !.rest = F.rest]
         /\ moved' = h.moved
  /\ Goto("r14")
  /\ UNCHANGED <<vars, saved, lost, torn>>

\* What trapret loads into spc and ssr, and a trapret that leaves them as
\* the last trap has set them.
Unloaded == regs.ctl
Loaded == F.ctl

LoadSpc ==
  /\ NoPanic /\ ~lost /\ At("r14")
  /\ regs' = [regs EXCEPT !.ctl = Loaded]
  /\ Goto("ssr")
  /\ UNCHANGED <<vars, saved, lost, torn, moved>>

TrapretRte ==
  /\ ~lost /\ At("ssr")
  /\ Rte
  /\ lost' = (regs.ctl # Interrupted)
  /\ frames' = [frames EXCEPT ![thr] = SubSeq(@, 1, Len(@) - 1)]
  /\ UNCHANGED <<regs, saved, torn, moved>>

\* while(1) in trap(); and the CPU running at an address nobody chose.
Halted == (lost \/ InTrap) /\ UNCHANGED allvars

-----------------------------------------------------------------------------
(* swtch: stores r0-r7, r0_bank-r7_bank and the others, and loads them     *)
(* from the other thread's context with SR.RB still that of the old one.   *)

Store == [low |-> regs.bank[RB(Me)], other |-> regs.bank[1 - RB(Me)],
          rest |-> regs.rest, ctl |-> regs.ctl]

\* Loading context c, and a load that forgets the unbanked registers.
LoadBanked(c) == [bank |-> [b \in Bit |-> IF b = RB(Me) THEN c.low ELSE c.other],
                  rest |-> regs.rest, ctl |-> c.ctl]
Load(c) == [bank |-> [b \in Bit |-> IF b = RB(Me) THEN c.low ELSE c.other],
            rest |-> c.rest, ctl |-> c.ctl]

\* The resumed code is sched(), scheduler() or forkret(), which expect
\* nothing in r0-r7 after a call.
Resume(c, a) == [Load(c) EXCEPT !.bank[RB(a)] = a]

\* A process that never ran: allocproc's context is zero, which is also what
\* r0 of a child and the registers of a new program should be; fork copies
\* the parent's frame.
FreshSave(t)  == [low |-> <<t, 0>>, other |-> <<t, 0>>, rest |-> <<t, 1>>, ctl |-> <<t, 0>>]
FreshFrame(t) == Trapframe(<<t, 0>>, <<t, 0>>, <<t, 0>>, "trapa")

SchedSwtch ==
  /\ InC /\ Sched
  /\ F.event \in MaySched
  /\ saved' = [saved EXCEPT ![thr] = Store]
  /\ regs' = Resume(saved[Scheduler], <<Scheduler, 1>>)
  /\ moved' = [moved EXCEPT ![thr] = TRUE]
  /\ UNCHANGED <<frames, lost, torn>>

ExitSwtch ==
  /\ InC /\ Exit
  /\ F.event \in MayExit
  /\ saved' = [saved EXCEPT ![thr] = FreshSave(thr)]
  /\ frames' = [frames EXCEPT ![thr] = <<FreshFrame(thr)>>]
  /\ regs' = Resume(saved[Scheduler], <<Scheduler, 1>>)
  /\ moved' = [moved EXCEPT ![thr] = FALSE]
  /\ UNCHANGED <<lost, torn>>

SchedulerSwtch(p) ==
  /\ InC /\ Swtch(p)
  /\ saved' = [saved EXCEPT ![Scheduler] = Store, ![p] = FreshSave(p)]
  /\ regs' = Resume(saved[p], <<p, depth[p]>>)
  /\ UNCHANGED <<frames, lost, torn, moved>>

-----------------------------------------------------------------------------
\* Kernel code between the switches; it leaves the registers its own.
Kernel ==
  /\ InC
  /\ \/ \E l \in Locks : Acquire(l) \/ Release(l)
     \/ Switchuvm
     \/ SchedulerSti
  /\ UNCHANGED tvars

\* start in entry.S; the processes are as allocproc leaves them.
TInit ==
  /\ Init
  /\ regs = [bank |-> [b \in Bit |-> <<Scheduler, 1>>], rest |-> <<Scheduler, 1>>,
             ctl |-> <<Scheduler, 1>>]
  /\ frames = [t \in Threads |-> IF t = Scheduler THEN <<>> ELSE <<FreshFrame(t)>>]
  /\ saved = [t \in Threads |-> FreshSave(t)]
  /\ lost = FALSE /\ torn = FALSE
  /\ moved = [t \in Threads |-> FALSE]

TNext ==
  \/ \E e \in Exceptions : GeneralException(e)
  \/ \E e \in TlbEvents : TlbException(e)
  \/ \E e \in Interrupts : Intr(e)
  \/ HandlerReturns
  \/ LoadSpc
  \/ TrapretRte
  \/ Halted
  \/ SchedSwtch
  \/ ExitSwtch
  \/ \E p \in Procs : SchedulerSwtch(p)
  \/ Kernel

TSpec == TInit /\ [][TNext]_allvars

-----------------------------------------------------------------------------
\* swtch.S:5 "Save current register context in old and then load register
\* context from new", and what of it holds.  swtch stores a process's
\* registers with SR.RB set and loads them with the scheduler's SR.RB clear,
\* so it exchanges the banks: r0-r7 of user code survive every trap that did
\* not switch, all other registers survive switches too.  A system call's
\* result is delivered unless the process is switched out between the end of
\* do_syscall and rte.
KeptUnlessSwitched ==
  InC => /\ regs.rest = Me
         /\ regs.bank[RB(Me)] = Me \/ (depth[thr] = 0 /\ moved[thr])

\* rte leads back to the code that was interrupted, at every depth of nested
\* handlers and across switches, unless an interrupt came in the few
\* instructions of trapret after spc and ssr were loaded.
RteComesBack == lost => torn

-----------------------------------------------------------------------------
(* What they rest on, checked as parts of TInv *)

\* Level i of t's stack is a trap if it is above the base: scheduler()'s loop.
Base(t) == IF t = Scheduler THEN 1 ELSE 0

Acts   == Threads \X Nat
Regs   == [bank : [Bit -> Acts], rest : Acts, ctl : Acts]
Frame  == [low : Acts, rest : Acts, ctl : Acts, at : {"c", "r14", "ssr"},
           event : Exceptions \cup TlbEvents \cup Interrupts]
Save   == [low : Acts, other : Acts, rest : Acts, ctl : Acts]

TTypeOK ==
  /\ regs \in Regs
  /\ frames \in [Threads -> Seq(Frame)]
  /\ saved \in [Threads -> Save]
  /\ lost \in BOOLEAN /\ torn \in BOOLEAN
  /\ moved \in [Threads -> BOOLEAN]

\* The frames of a stack are those of its levels, and what each has saved is
\* what it interrupted had, or was to have when trapret had come that far.
FrameRight(t, s, i) ==
  LET a == <<t, i + Base(t) - 1>>
  IN  /\ s[i].ctl = a
      /\ s[i].event = "trapa" => i = 1 /\ t # Scheduler
      /\ i = 1 => s[i].rest = a
      /\ i > 1 /\ s[i - 1].at = "c" => s[i].rest = a /\ s[i].low = a
      /\ i > 1 /\ s[i - 1].at # "c" => s[i].rest = s[i - 1].rest /\ s[i].low = s[i - 1].low

FramesNest ==
  \A t \in Threads :
    /\ Len(frames[t]) = depth[t] - Base(t)
    /\ \A i \in 1 .. Len(frames[t]) : FrameRight(t, frames[t], i)

\* The registers are the running activation's until trapret loads them.
RegsCurrent ==
  /\ Trapped /\ ~At("c") => regs.rest = F.rest /\ regs.bank[1] = F.low
  /\ ~Trapped \/ At("c") => regs.rest = Me
  /\ At("c") => regs.bank[1] = Me
  /\ thr = Scheduler => regs.bank[0] = <<Scheduler, 1>>
  /\ thr # Scheduler => moved[thr] \/ regs.bank[0] = <<thr, 0>>

\* A thread that is switched out is in its C code and has it all saved.
SavedReady ==
  \A t \in Threads \ {thr} :
    /\ saved[t].rest = <<t, depth[t]>>
    /\ frames[t] # <<>> => frames[t][Len(frames[t])].at = "c"
    /\ t # Scheduler => moved[t] \/ saved[t].low = <<t, 0>>

\* Without an interrupt in its last instructions, trapret's spc is right.
SpcRight ==
  ~torn => /\ ~lost
           /\ \A t \in Threads : \A i \in 1 .. Len(frames[t]) :
                frames[t][i].at = "ssr" =>
                  t = thr /\ i = Len(frames[t]) /\ regs.ctl = frames[t][i].ctl

TInv == IInv /\ TTypeOK /\ FramesNest /\ RegsCurrent /\ SavedReady /\ SpcRight
=============================================================================
