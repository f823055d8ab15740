-------------------------- MODULE TrapFrameProofs --------------------------
(***************************************************************************)
(* Proofs about traps, for any number of processes and locks and for       *)
(* handlers nested to any depth.  A step of TrapFrame is a step of         *)
(* Spinlock or leaves the locks alone, so what SpinlockProofs shows holds  *)
(* here too; TInv adds what is in the registers, the frames and the        *)
(* contexts.                                                               *)
(***************************************************************************)
EXTENDS TrapFrame, SpinlockProofs

\* A step with registers is a step of the locks and stacks underneath.
LEMMA StepUnder == TNext => [Next]_vars
<1> SUFFICES ASSUME TNext PROVE [Next]_vars
  OBVIOUS
<1>1. (\E e \in Exceptions : GeneralException(e)) \/ (\E e \in TlbEvents : TlbException(e)) => UserTrap
  BY DEF GeneralException, TlbException
<1>2. (\E e \in Interrupts : Intr(e)) => Interrupt
  BY DEF Intr
<1>3. HandlerReturns \/ LoadSpc \/ Halted => UNCHANGED vars
  BY DEF HandlerReturns, LoadSpc, Halted, allvars
<1>4. TrapretRte => Rte
  BY DEF TrapretRte
<1>5. (SchedSwtch => Sched) /\ (ExitSwtch => Exit)
  BY DEF SchedSwtch, ExitSwtch
<1>6. (\E p \in Procs : SchedulerSwtch(p)) => \E p \in Procs : Swtch(p)
  BY DEF SchedulerSwtch
<1>7. Kernel => Next
  BY DEF Kernel, Next
<1> QED
  BY <1>1, <1>2, <1>3, <1>4, <1>5, <1>6, <1>7 DEF TNext, Next

\* Which activations there are.
LEMMA Activations ==
  ASSUME IInv
  PROVE  /\ thr \in Threads /\ depth[thr] \in Nat /\ Scheduler \in Threads
         /\ \A t \in Threads : depth[t] \in Nat /\ <<t, depth[t]>> \in Acts
         /\ \A t \in Threads, i \in Nat : <<t, i>> \in Acts
         /\ Me \in Acts /\ depth[Scheduler] >= 1
         /\ \A t \in Threads : t # thr => depth[t] >= 1
         /\ \A t \in Threads : Base(t) \in Nat /\ Base(t) \in {0, 1}
<1>1. thr \in Threads /\ depth \in [Threads -> 0 .. MaxDepth] /\ Scheduler \in Threads
  BY DEF IInv, TypeOK, Threads
<1>2. \A t \in Threads : depth[t] \in Nat
  BY <1>1, DepthAssumption
<1> QED
  BY <1>1, <1>2 DEF Acts, Me, Base, IInv, StacksReady

\* The running activation is a trap, unless it is user code or the scheduler.
LEMMA TrappedIff ==
  ASSUME TInv
  PROVE  /\ Trapped <=> depth[thr] > Base(thr)
         /\ Trapped => /\ F \in Frame /\ Len(frames[thr]) \in Nat /\ Len(frames[thr]) >= 1
                       /\ F.ctl = Interrupted
                       /\ Len(frames[thr]) = depth[thr] - Base(thr)
<1>1. /\ frames[thr] \in Seq(Frame) /\ Len(frames[thr]) = depth[thr] - Base(thr)
      /\ depth[thr] \in Nat /\ Base(thr) \in {0, 1} /\ thr \in Threads
  BY Activations DEF TInv, TTypeOK, FramesNest
<1>2. Len(frames[thr]) \in Nat
  BY <1>1
<1>3. Trapped <=> Len(frames[thr]) > 0
  BY <1>1 DEF Trapped
<1>4. ASSUME Trapped
      PROVE  F \in Frame /\ F.ctl = Interrupted
  <2>1. Len(frames[thr]) \in 1 .. Len(frames[thr])
    BY <1>2, <1>3, <1>4
  <2>2. F \in Frame
    BY <1>1, <2>1 DEF F
  <2>3. F.ctl = <<thr, Len(frames[thr]) + Base(thr) - 1>>
    BY <1>1, <2>1 DEF F, TInv, FramesNest, FrameRight
  <2>4. Len(frames[thr]) + Base(thr) - 1 = depth[thr] - 1
    BY <1>1
  <2> QED
    BY <2>2, <2>3, <2>4 DEF Interrupted
<1> QED
  BY <1>1, <1>2, <1>3, <1>4

\* An activation goes on with its registers; the other bank stays.
LEMMA UseRegs ==
  ASSUME NEW r \in Regs, NEW a \in Acts
  PROVE  /\ Use(r, a) \in Regs /\ Use(r, a).rest = a /\ Use(r, a).ctl = r.ctl
         /\ RB(a) = 0 => Use(r, a).bank[0] = a /\ Use(r, a).bank[1] = r.bank[1]
         /\ RB(a) = 1 => Use(r, a).bank[1] = a /\ Use(r, a).bank[0] = r.bank[0]
<1>1. RB(a) \in Bit
  BY DEF RB, Bit
<1> DEFINE b == RB(a)
<1>2. Use(r, a) = [r EXCEPT !.bank[b] = a, !.rest = a]
  BY DEF Use
<1> HIDE DEF b
<1>3. /\ Use(r, a).bank = [r.bank EXCEPT ![b] = a] /\ Use(r, a).rest = a /\ Use(r, a).ctl = r.ctl
      /\ Use(r, a) \in Regs
  BY <1>1, <1>2, Zenon DEF Regs, b
<1> QED
  BY <1>1, <1>3 DEF Regs, Bit, b

\* What the registers hold when a trap pushes its frame.
LEMMA BeforeRegs ==
  ASSUME TInv
  PROVE  /\ Before \in Regs /\ Before.ctl = Me
         /\ Trapped => Before.rest = regs.rest /\ Before.bank[1] = regs.bank[1]
         /\ ~Trapped => Before.rest = Me
         /\ depth[thr] = 0 => Before.bank[0] = Me
         /\ depth[thr] # 0 => Before.bank[0] = regs.bank[0]
<1>1. regs \in Regs /\ Me \in Acts /\ Me[2] = depth[thr] /\ depth[thr] \in Nat
  BY Activations DEF TInv, TTypeOK, Me
<1>2. CASE depth[thr] = 0
  <2>1. RB(Me) = 0 /\ ~Trapped
    BY <1>1, <1>2, TrappedIff, Activations DEF RB, TInv
  <2> DEFINE u == Use(regs, Me)
  <2>2. Before = [u EXCEPT !.ctl = Me]
    BY <1>2 DEF Before
  <2>3. u \in Regs /\ u.rest = Me /\ u.bank[0] = Me
    BY <1>1, <2>1, UseRegs
  <2> HIDE DEF u
  <2> QED
    BY <1>1, <1>2, <2>1, <2>2, <2>3 DEF Regs
<1>3. CASE depth[thr] # 0
  <2>1. Before = [regs EXCEPT !.ctl = Me]
    BY <1>3 DEF Before
  <2>2. ~Trapped => regs.rest = Me
    BY DEF TInv, RegsCurrent
  <2> QED
    BY <1>1, <1>3, <2>1, <2>2 DEF Regs
<1> QED
  BY <1>2, <1>3

\* general_exception, tlb_exception and intr_entry: the frame has what the
\* interrupted code had, or, if that was trapret, was about to have.
LEMMA EnterInv ==
  ASSUME TInv, IInv', ~lost, NEW e \in Exceptions \cup TlbEvents \cup Interrupts,
         Enter(e), PushFrame, torn' = (torn \/ At("ssr")),
         e = "trapa" => thr \in Procs /\ depth[thr] = 0
  PROVE  TInv'
<1> DEFINE s == frames[thr]
           d == depth[thr]
           fr == Trapframe(Before.bank[1], Before.rest, Before.ctl, e)
           new == <<thr, d + 1>>
<1>1. /\ thr \in Threads /\ d \in Nat /\ s \in Seq(Frame) /\ Len(s) \in Nat
      /\ Len(s) = d - Base(thr) /\ Base(thr) \in {0, 1} /\ Me = <<thr, d>> /\ Me \in Acts
      /\ new \in Acts /\ new[2] = d + 1 /\ new[1] = thr
  BY Activations DEF TInv, TTypeOK, FramesNest, Me
<1>2. /\ fr \in Frame /\ fr.low = Before.bank[1] /\ fr.rest = Before.rest /\ fr.ctl = Me
      /\ fr.at = "c" /\ fr.event = e
  BY BeforeRegs DEF Trapframe, Frame, Regs, Bit
<1>3. /\ frames' = [frames EXCEPT ![thr] = Append(s, fr)]
      /\ depth' = [depth EXCEPT ![thr] = d + 1] /\ thr' = thr
      /\ UNCHANGED <<saved, lost>>
      /\ moved' = IF d = 0 THEN [moved EXCEPT ![thr] = FALSE] ELSE moved
  BY DEF Enter, Pushed, PushFrame
<1>4. /\ regs' \in Regs /\ regs'.bank[1] = new /\ regs'.bank[0] = Before.bank[0]
      /\ regs'.rest = new /\ regs'.ctl = Me
  <2>1. new # <<Scheduler, 1>>
    BY <1>1, Activations DEF TInv
  <2>2. RB(new) = 1
    BY <1>1, <2>1 DEF RB
  <2>3. regs' = Use(Before, new) /\ Before \in Regs /\ Before.ctl = Me
    BY BeforeRegs DEF Enter
  <2> HIDE DEF new
  <2> QED
    BY <1>1, <2>2, <2>3, UseRegs
<1> HIDE DEF s, d, fr, new
<1>5. /\ frames'[thr] = Append(s, fr) /\ depth'[thr] = d + 1
      /\ \A t \in Threads : t # thr => frames'[t] = frames[t] /\ depth'[t] = depth[t]
  BY <1>1, <1>3 DEF TInv, TTypeOK, IInv, TypeOK
<1>6. /\ Len(frames'[thr]) = Len(s) + 1 /\ frames'[thr][Len(s) + 1] = fr
      /\ \A i \in 1 .. Len(s) : frames'[thr][i] = s[i]
  BY <1>1, <1>2, <1>5
<1>7. TTypeOK'
  <2>1. frames' \in [Threads -> Seq(Frame)]
    BY <1>1, <1>2, <1>3 DEF TInv, TTypeOK
  <2>2. moved' \in [Threads -> BOOLEAN]
    BY <1>1, <1>3 DEF TInv, TTypeOK
  <2>3. torn' \in BOOLEAN
    BY DEF TInv, TTypeOK
  <2> QED
    BY <1>3, <1>4, <2>1, <2>2, <2>3 DEF TInv, TTypeOK
<1>8. FramesNest'
  <2> SUFFICES ASSUME NEW t \in Threads
               PROVE  /\ Len(frames'[t]) = depth'[t] - Base(t)
                      /\ \A i \in 1 .. Len(frames'[t]) : FrameRight(t, frames'[t], i)
    BY DEF FramesNest, FrameRight, Base
  <2>1. CASE t # thr
    BY <1>5, <2>1 DEF TInv, FramesNest
  <2>2. CASE t = thr
    <3>1. Len(frames'[t]) = depth'[t] - Base(t)
      BY <1>1, <1>5, <1>6, <2>2
    <3>2. ASSUME NEW i \in 1 .. Len(s) PROVE FrameRight(thr, frames'[thr], i)
      <4>1. FrameRight(thr, s, i)
        BY <1>1 DEF TInv, FramesNest, s
      <4>2. frames'[thr][i] = s[i] /\ (i > 1 => frames'[thr][i - 1] = s[i - 1])
        BY <1>1, <1>6
      <4> QED
        BY <4>1, <4>2 DEF FrameRight
    <3>3. ASSUME NEW i, i = Len(s) + 1 PROVE FrameRight(thr, frames'[thr], i)
      <4>1. <<thr, i + Base(thr) - 1>> = Me /\ frames'[thr][i] = fr
        BY <1>1, <1>6, <3>3
      <4>2. Trapped <=> i > 1
        BY <1>1, <3>3, TrappedIff DEF d, s
      <4>3. e = "trapa" => i = 1 /\ thr # Scheduler
        BY <1>1, <3>3, ThreadsAssumption DEF d, Base
      <4>4. i > 1 => frames'[thr][i - 1] = F
        <5>1. i > 1 => i - 1 = Len(s) /\ Len(s) \in 1 .. Len(s)
          BY <1>1, <3>3
        <5> QED
          BY <1>6, <5>1 DEF F, s
      <4>5. i = 1 => fr.rest = Me
        BY <1>2, <4>2, BeforeRegs
      <4>6. i > 1 => fr.rest = regs.rest /\ fr.low = regs.bank[1]
        BY <1>2, <4>2, BeforeRegs
      <4>7. i > 1 /\ F.at = "c" => fr.rest = Me /\ fr.low = Me
        BY <4>2, <4>6 DEF TInv, RegsCurrent, At
      <4>8. i > 1 /\ F.at # "c" => fr.rest = F.rest /\ fr.low = F.low
        BY <4>2, <4>6 DEF TInv, RegsCurrent, At
      <4> QED
        BY <1>2, <4>1, <4>3, <4>4, <4>5, <4>7, <4>8 DEF FrameRight
    <3>4. \A i \in 1 .. Len(frames'[t]) : i \in 1 .. Len(s) \/ i = Len(s) + 1
      BY <1>1, <1>6, <2>2
    <3> QED
      BY <2>2, <3>1, <3>2, <3>3, <3>4
  <2> QED
    BY <2>1, <2>2
<1>9. /\ Trapped' /\ F' = fr /\ At("c")' /\ Me' = new
  BY <1>1, <1>2, <1>3, <1>5, <1>6 DEF Trapped, F, At, Me, new
<1>10. RegsCurrent'
  <2>1. thr = Scheduler => Before.bank[0] = <<Scheduler, 1>>
    BY <1>1, BeforeRegs, Activations DEF TInv, RegsCurrent, d
  <2>2. thr # Scheduler => moved'[thr] \/ Before.bank[0] = <<thr, 0>>
    BY <1>1, <1>3, BeforeRegs DEF TInv, RegsCurrent, TTypeOK, d
  <2> QED
    BY <1>3, <1>4, <1>9, <2>1, <2>2 DEF RegsCurrent
<1>11. SavedReady'
  BY <1>1, <1>3, <1>5 DEF TInv, SavedReady, TTypeOK
<1>12. SpcRight'
  <2> SUFFICES ASSUME ~torn'
               PROVE  /\ ~lost'
                      /\ \A t \in Threads : \A i \in 1 .. Len(frames'[t]) :
                           frames'[t][i].at = "ssr" =>
                             t = thr' /\ i = Len(frames'[t]) /\ regs'.ctl = frames'[t][i].ctl
    BY DEF SpcRight
  <2>1. ~torn /\ ~At("ssr")
    BY Zenon
  <2>2. ASSUME NEW t \in Threads, NEW i \in 1 .. Len(frames'[t]), frames'[t][i].at = "ssr"
        PROVE  FALSE
    <3>1. CASE t # thr
      BY <1>5, <2>1, <2>2, <3>1 DEF TInv, SpcRight
    <3>2. CASE t = thr
      <4>1. i \in 1 .. Len(s) /\ frames[t][i].at = "ssr"
        BY <1>1, <1>2, <1>6, <2>2, <3>2 DEF s
      <4>2. i = Len(s) /\ s # <<>>
        BY <1>1, <2>1, <3>2, <4>1 DEF TInv, SpcRight, s
      <4> QED
        BY <2>1, <3>2, <4>1, <4>2 DEF At, Trapped, F, s
    <3> QED
      BY <3>1, <3>2
  <2> QED
    BY <1>3, <2>2
<1> QED
  BY <1>7, <1>8, <1>10, <1>11, <1>12 DEF TInv

\* trapret goes on: only its own frame says so.
LEMMA GotoFrames ==
  ASSUME TInv, Trapped, NEW st \in {"c", "r14", "ssr"}, Goto(st), UNCHANGED <<thr, depth>>
  PROVE  /\ frames' \in [Threads -> Seq(Frame)] /\ FramesNest'
         /\ Trapped' /\ F' \in Frame /\ F'.at = st /\ Me' = Me
         /\ F'.rest = F.rest /\ F'.low = F.low /\ F'.ctl = F.ctl
         /\ \A t \in Threads : t # thr => frames'[t] = frames[t]
         /\ Len(frames'[thr]) = Len(frames[thr]) /\ F' = frames'[thr][Len(frames[thr])]
         /\ \A i \in 1 .. Len(frames[thr]) : i # Len(frames[thr]) => frames'[thr][i] = frames[thr][i]
<1> DEFINE s == frames[thr]
           n == Len(s)
           f == [F EXCEPT !.at = st]
<1>1. /\ thr \in Threads /\ s \in Seq(Frame) /\ n \in Nat /\ n >= 1 /\ F \in Frame /\ F = s[n]
      /\ frames \in [Threads -> Seq(Frame)]
  BY TrappedIff, Activations DEF TInv, TTypeOK, F
<1>2. frames' = [frames EXCEPT ![thr] = [s EXCEPT ![n] = f]]
  BY <1>1 DEF Goto
<1>3. /\ f \in Frame /\ f.at = st /\ f.rest = F.rest /\ f.low = F.low /\ f.ctl = F.ctl
      /\ f.event = F.event
  <2>1. f \in Frame
    BY <1>1 DEF Frame
  <2>2. F = [low |-> F.low, rest |-> F.rest, ctl |-> F.ctl, at |-> F.at, event |-> F.event]
    BY <1>1 DEF Frame
  <2> QED
    BY <2>1, <2>2
<1> HIDE DEF s, n, f
<1> DEFINE u == [s EXCEPT ![n] = f]
<1>4. u \in Seq(Frame) /\ Len(u) = n /\ u[n] = f /\ \A i \in 1 .. n : i # n => u[i] = s[i]
  <2>1. n = Len(s) /\ n \in 1 .. Len(s)
    BY <1>1 DEF n
  <2> QED
    BY <1>1, <1>3, <2>1
<1>5. frames'[thr] = u /\ \A t \in Threads : t # thr => frames'[t] = frames[t]
  BY <1>1, <1>2
<1>6. frames' \in [Threads -> Seq(Frame)]
  BY <1>1, <1>2, <1>4
<1> HIDE DEF u
<1>7. FramesNest'
  <2> SUFFICES ASSUME NEW t \in Threads
               PROVE  /\ Len(frames'[t]) = depth'[t] - Base(t)
                      /\ \A i \in 1 .. Len(frames'[t]) : FrameRight(t, frames'[t], i)
    BY DEF FramesNest, FrameRight, Base
  <2>1. CASE t # thr
    BY <1>5, <2>1 DEF TInv, FramesNest
  <2>2. CASE t = thr
    <3>1. Len(u) = depth[thr] - Base(thr)
      BY <1>1, <1>4 DEF TInv, FramesNest, n, s
    <3>2. ASSUME NEW i \in 1 .. n PROVE FrameRight(thr, u, i)
      <4>1. FrameRight(thr, s, i)
        BY <1>1 DEF TInv, FramesNest, s, n
      <4>2. /\ u[i].rest = s[i].rest /\ u[i].low = s[i].low
            /\ u[i].ctl = s[i].ctl /\ u[i].event = s[i].event
        BY <1>1, <1>3, <1>4
      <4>3. i > 1 => i - 1 \in 1 .. n /\ i - 1 # n
        BY <1>1
      <4>4. i > 1 => u[i - 1] = s[i - 1]
        BY <1>4, <4>3
      <4> QED
        BY <4>1, <4>2, <4>4 DEF FrameRight
    <3> QED
      BY <1>4, <1>5, <2>2, <3>1, <3>2
  <2> QED
    BY <2>1, <2>2
<1>8. Trapped' /\ F' = f /\ Me' = Me
  BY <1>1, <1>4, <1>5 DEF Trapped, F, Me
<1> QED
  BY <1>3, <1>4, <1>5, <1>6, <1>7, <1>8 DEF n, s

\* The threads that are switched out do not notice what the running one does.
LEMMA OthersReady ==
  ASSUME TInv, thr' = thr, UNCHANGED saved,
         \A t \in Threads \ {thr} : /\ depth'[t] = depth[t] /\ frames'[t] = frames[t]
                                    /\ moved'[t] = moved[t]
  PROVE  SavedReady'
  BY DEF TInv, SavedReady

\* The end of a handler, and trapret up to spc.
LEMMA HandlerReturnsInv ==
  ASSUME TInv, IInv', HandlerReturns
  PROVE  TInv'
<1> DEFINE h == IF F.event = "trapa" THEN DoSyscall ELSE OtherHandler
<1>1. /\ Trapped /\ At("c") /\ Goto("r14") /\ UNCHANGED <<vars, saved, lost, torn>>
      /\ moved' = h.moved
      /\ regs' = [regs EXCEPT !.bank = [b \in Bit |-> IF b = 0 THEN h.bank0 ELSE F.low],
                              !.rest = F.rest]
  BY DEF HandlerReturns, InC
<1>2. /\ F \in Frame /\ thr \in Threads /\ regs \in Regs /\ depth[thr] \in Nat
      /\ Len(frames[thr]) \in Nat /\ Len(frames[thr]) >= 1 /\ UNCHANGED <<thr, depth>>
  BY <1>1, TrappedIff, Activations DEF TInv, TTypeOK, vars
<1>3. F.event = "trapa" => thr # Scheduler /\ Interrupted = <<thr, 0>>
  <2>1. FrameRight(thr, frames[thr], Len(frames[thr])) /\ Len(frames[thr]) = depth[thr] - Base(thr)
    BY <1>2 DEF TInv, FramesNest
  <2> QED
    BY <1>2, <2>1 DEF FrameRight, F, Interrupted, Base
<1>4. /\ h.bank0 \in Acts /\ h.moved \in [Threads -> BOOLEAN]
      /\ \A t \in Threads : t # thr => h.moved[t] = moved[t]
      /\ thr = Scheduler => h.bank0 = <<Scheduler, 1>>
      /\ thr # Scheduler => h.moved[thr] \/ h.bank0 = <<thr, 0>>
  <2>1. CASE F.event = "trapa"
    <3>1. h.bank0 = <<thr, 0>> /\ h.moved = [moved EXCEPT ![thr] = FALSE] /\ thr # Scheduler
      BY <1>3, <2>1 DEF DoSyscall
    <3>2. <<thr, 0>> \in Acts
      BY <1>2 DEF Acts
    <3> HIDE DEF h
    <3> QED
      BY <1>2, <3>1, <3>2 DEF TInv, TTypeOK
  <2>2. CASE F.event # "trapa"
    <3>1. h.bank0 = regs.bank[0] /\ h.moved = moved
      BY <2>2 DEF OtherHandler
    <3> HIDE DEF h
    <3> QED
      BY <1>2, <3>1 DEF TInv, TTypeOK, RegsCurrent, Regs, Bit
  <2> QED
    BY <2>1, <2>2
<1> HIDE DEF h
<1>5. /\ regs' \in Regs /\ regs'.bank[0] = h.bank0 /\ regs'.bank[1] = F.low
      /\ regs'.rest = F.rest /\ regs'.ctl = regs.ctl
  <2> DEFINE bk == [b \in Bit |-> IF b = 0 THEN h.bank0 ELSE F.low]
  <2>1. bk \in [Bit -> Acts] /\ bk[0] = h.bank0 /\ bk[1] = F.low
    BY <1>2, <1>4 DEF Frame, Bit
  <2>2. regs' = [regs EXCEPT !.bank = bk, !.rest = F.rest] /\ F.rest \in Acts
    BY <1>1, <1>2 DEF Frame
  <2> HIDE DEF bk
  <2> QED
    BY <1>2, <2>1, <2>2, Zenon DEF Regs
<1>6. /\ frames' \in [Threads -> Seq(Frame)] /\ FramesNest'
      /\ Trapped' /\ F'.at = "r14" /\ Me' = Me
      /\ F'.rest = F.rest /\ F'.low = F.low /\ F'.ctl = F.ctl
      /\ \A t \in Threads : t # thr => frames'[t] = frames[t]
      /\ Len(frames'[thr]) = Len(frames[thr]) /\ F' = frames'[thr][Len(frames[thr])]
      /\ \A i \in 1 .. Len(frames[thr]) : i # Len(frames[thr]) => frames'[thr][i] = frames[thr][i]
  BY <1>1, <1>2, GotoFrames
<1>7. TTypeOK'
  BY <1>1, <1>4, <1>5, <1>6 DEF TInv, TTypeOK
<1>8. RegsCurrent'
  BY <1>1, <1>2, <1>4, <1>5, <1>6, Zenon DEF RegsCurrent, At
<1>9. SavedReady'
  BY <1>1, <1>2, <1>4, <1>6, OthersReady
<1>10. SpcRight'
  <2> SUFFICES ASSUME ~torn, NEW t \in Threads, NEW i \in 1 .. Len(frames'[t]),
                      frames'[t][i].at = "ssr"
               PROVE  FALSE
    BY <1>1 DEF TInv, SpcRight
  <2>1. i \in 1 .. Len(frames[t]) /\ frames[t][i].at = "ssr" /\ (t = thr => i # Len(frames[thr]))
    BY <1>6
  <2> QED
    BY <2>1 DEF TInv, SpcRight
<1> QED
  BY <1>6, <1>7, <1>8, <1>9, <1>10 DEF TInv

\* trapret loads spc and ssr.
LEMMA LoadSpcInv ==
  ASSUME TInv, IInv', LoadSpc
  PROVE  TInv'
<1>1. /\ Trapped /\ At("r14") /\ Goto("ssr") /\ UNCHANGED <<vars, saved, lost, torn, moved>>
      /\ regs' = [regs EXCEPT !.ctl = F.ctl]
  BY DEF LoadSpc, Loaded, At
<1>2. /\ F \in Frame /\ thr \in Threads /\ regs \in Regs
      /\ Len(frames[thr]) \in Nat /\ Len(frames[thr]) >= 1 /\ UNCHANGED <<thr, depth>>
  BY <1>1, TrappedIff, Activations DEF TInv, TTypeOK, vars
<1>3. /\ regs' \in Regs /\ regs'.bank = regs.bank /\ regs'.rest = regs.rest /\ regs'.ctl = F.ctl
  BY <1>1, <1>2 DEF Regs, Frame
<1>4. /\ frames' \in [Threads -> Seq(Frame)] /\ FramesNest'
      /\ Trapped' /\ F'.at = "ssr" /\ Me' = Me
      /\ F'.rest = F.rest /\ F'.low = F.low /\ F'.ctl = F.ctl
      /\ \A t \in Threads : t # thr => frames'[t] = frames[t]
      /\ Len(frames'[thr]) = Len(frames[thr]) /\ F' = frames'[thr][Len(frames[thr])]
      /\ \A i \in 1 .. Len(frames[thr]) : i # Len(frames[thr]) => frames'[thr][i] = frames[thr][i]
  BY <1>1, <1>2, GotoFrames
<1>5. TTypeOK'
  BY <1>1, <1>3, <1>4 DEF TInv, TTypeOK
<1>6. RegsCurrent'
  BY <1>1, <1>2, <1>3, <1>4 DEF TInv, RegsCurrent, At
<1>7. SavedReady'
  BY <1>1, <1>2, <1>4, OthersReady
<1>8. SpcRight'
  <2> SUFFICES ASSUME ~torn
               PROVE  /\ ~lost
                      /\ \A t \in Threads : \A i \in 1 .. Len(frames'[t]) :
                           frames'[t][i].at = "ssr" =>
                             t = thr /\ i = Len(frames'[t]) /\ regs'.ctl = frames'[t][i].ctl
    BY <1>1, <1>2 DEF SpcRight
  <2>1. ASSUME NEW t \in Threads, NEW i \in 1 .. Len(frames'[t]), frames'[t][i].at = "ssr"
        PROVE  t = thr /\ i = Len(frames'[t])
    <3>1. CASE t = thr /\ i = Len(frames[thr])
      BY <1>4, <3>1
    <3>2. CASE ~(t = thr /\ i = Len(frames[thr]))
      <4>1. i \in 1 .. Len(frames[t]) /\ frames[t][i].at = "ssr"
        BY <1>4, <2>1, <3>2
      <4>2. t = thr /\ i = Len(frames[t])
        BY <4>1 DEF TInv, SpcRight
      <4> QED
        BY <3>2, <4>2
    <3> QED
      BY <3>1, <3>2
  <2> QED
    BY <1>3, <1>4, <2>1 DEF TInv, SpcRight
<1> QED
  BY <1>4, <1>5, <1>6, <1>7, <1>8 DEF TInv

\* rte pops the frame: the registers are again those of the code below.
LEMMA TrapretRteInv ==
  ASSUME TInv, IInv', TrapretRte
  PROVE  TInv'
<1> DEFINE s == frames[thr]
           n == Len(s)
           u == SubSeq(s, 1, n - 1)
<1>1. /\ Trapped /\ At("ssr") /\ Rte /\ UNCHANGED <<regs, saved, torn, moved>> /\ ~lost
      /\ lost' = (regs.ctl # Interrupted) /\ frames' = [frames EXCEPT ![thr] = u]
  BY DEF TrapretRte, At
<1>2. /\ thr \in Threads /\ s \in Seq(Frame) /\ n \in Nat /\ n >= 1 /\ F \in Frame /\ F = s[n]
      /\ frames \in [Threads -> Seq(Frame)] /\ depth[thr] \in Nat /\ Base(thr) \in {0, 1}
      /\ n = depth[thr] - Base(thr) /\ F.ctl = Interrupted /\ regs \in Regs
  BY <1>1, TrappedIff, Activations DEF TInv, TTypeOK, F
<1>3. /\ thr' = thr /\ depth' = [depth EXCEPT ![thr] = @ - 1]
      /\ depth'[thr] = depth[thr] - 1 /\ \A t \in Threads : t # thr => depth'[t] = depth[t]
  BY <1>1, <1>2 DEF Rte, TInv, IInv, TypeOK
<1>4. n = Len(s) /\ frames'[thr] = u /\ \A t \in Threads : t # thr => frames'[t] = frames[t]
  BY <1>1, <1>2
<1>5. u \in Seq(Frame) /\ Len(u) = n - 1 /\ \A i \in 1 .. n - 1 : u[i] = s[i] /\ i \in 1 .. n
  BY <1>2
<1>6. FrameRight(thr, s, n) /\ \A i \in 1 .. n : FrameRight(thr, s, i)
  BY <1>2 DEF TInv, FramesNest
<1>7. frames' \in [Threads -> Seq(Frame)]
  BY <1>1, <1>2, <1>5
<1> HIDE DEF s, n, u
<1>8. TTypeOK'
  BY <1>1, <1>7 DEF TInv, TTypeOK
<1>9. FramesNest'
  <2> SUFFICES ASSUME NEW t \in Threads
               PROVE  /\ Len(frames'[t]) = depth'[t] - Base(t)
                      /\ \A i \in 1 .. Len(frames'[t]) : FrameRight(t, frames'[t], i)
    BY DEF FramesNest, FrameRight, Base
  <2>1. CASE t # thr
    BY <1>3, <1>4, <2>1 DEF TInv, FramesNest
  <2>2. CASE t = thr
    <3>1. Len(u) = depth'[thr] - Base(thr)
      BY <1>2, <1>3, <1>5
    <3>2. ASSUME NEW i \in 1 .. n - 1 PROVE FrameRight(thr, u, i)
      <4>1. FrameRight(thr, s, i) /\ u[i] = s[i]
        BY <1>5, <1>6
      <4>2. i > 1 => i - 1 \in 1 .. n - 1
        BY <1>2
      <4>3. i > 1 => u[i - 1] = s[i - 1]
        BY <1>5, <4>2
      <4> QED
        BY <4>1, <4>3 DEF FrameRight
    <3> QED
      BY <1>4, <1>5, <2>2, <3>1, <3>2
  <2> QED
    BY <2>1, <2>2
<1>10. RegsCurrent'
  <2>1. regs.rest = F.rest /\ regs.bank[1] = F.low
    BY <1>1 DEF TInv, RegsCurrent, At
  <2>2. Me' = Interrupted
    BY <1>3 DEF Me, Interrupted
  <2>3. CASE n = 1
    <3>1. ~Trapped' /\ ~At("c")' /\ F.rest = Interrupted
      <4>1. u = <<>>
        BY <1>2, <1>5, <2>3
      <4>2. F.rest = <<thr, depth[thr] - 1>>
        <5>1. FrameRight(thr, s, 1) /\ F = s[1] /\ 1 + Base(thr) - 1 = depth[thr] - 1
          BY <1>2, <1>6, <2>3
        <5> QED
          BY <5>1 DEF FrameRight
      <4> QED
        BY <1>3, <1>4, <4>1, <4>2 DEF Trapped, At, Interrupted
    <3> QED
      BY <1>1, <1>3, <2>1, <2>2, <3>1 DEF TInv, RegsCurrent
  <2>4. CASE n > 1
    <3>1. Trapped' /\ F' = s[n - 1]
      <4>1. n - 1 \in 1 .. n - 1 /\ Len(u) = n - 1 /\ u # <<>>
        BY <1>2, <1>5, <2>4
      <4>2. u[n - 1] = s[n - 1]
        BY <1>5, <4>1
      <4> QED
        BY <1>3, <1>4, <4>1, <4>2 DEF Trapped, F
    <3>2. <<thr, n + Base(thr) - 1>> = Interrupted
      BY <1>2 DEF Interrupted
    <3>3. /\ s[n - 1].at = "c" => F.rest = Interrupted /\ F.low = Interrupted
          /\ s[n - 1].at # "c" => F.rest = s[n - 1].rest /\ F.low = s[n - 1].low
      BY <1>2, <1>6, <2>4, <3>2, Zenon DEF FrameRight
    <3> QED
      BY <1>1, <1>3, <2>1, <2>2, <3>1, <3>3 DEF TInv, RegsCurrent, At
  <2> QED
    BY <1>2, <2>3, <2>4
<1>11. SavedReady'
  BY <1>1, <1>3, <1>4, OthersReady
<1>12. SpcRight'
  <2> SUFFICES ASSUME ~torn
               PROVE  /\ ~lost'
                      /\ \A t \in Threads : \A i \in 1 .. Len(frames'[t]) : frames'[t][i].at # "ssr"
    BY <1>1 DEF SpcRight
  <2>1. ASSUME NEW t \in Threads, NEW i \in 1 .. Len(frames[t]), frames[t][i].at = "ssr"
        PROVE  t = thr /\ i = Len(frames[t]) /\ regs.ctl = frames[t][i].ctl
    BY <2>1 DEF TInv, SpcRight
  <2>2. regs.ctl = F.ctl
    <3>1. n \in 1 .. Len(frames[thr]) /\ frames[thr][n].at = "ssr"
      BY <1>1, <1>2, <1>4 DEF At, s
    <3>2. regs.ctl = frames[thr][n].ctl
      BY <1>2, <2>1, <3>1
    <3> QED
      BY <1>2, <3>2 DEF s
  <2>3. ASSUME NEW t \in Threads, NEW i \in 1 .. Len(frames'[t]), frames'[t][i].at = "ssr"
        PROVE  FALSE
    <3>1. CASE t # thr
      BY <1>4, <2>1, <2>3, <3>1
    <3>2. CASE t = thr
      <4>1. i \in 1 .. n - 1 /\ i \in 1 .. Len(frames[t]) /\ frames[t][i].at = "ssr"
        BY <1>2, <1>4, <1>5, <2>3, <3>2 DEF s
      <4> QED
        BY <1>2, <1>4, <2>1, <3>2, <4>1 DEF s
    <3> QED
      BY <3>1, <3>2
  <2> QED
    BY <1>1, <1>2, <2>2, <2>3, Zenon
<1> QED
  BY <1>8, <1>9, <1>10, <1>11, <1>12 DEF TInv

\* What swtch loads from a context, and what the resumed code goes on with.
LEMMA ResumeRegs ==
  ASSUME NEW c \in Save, NEW a \in Acts
  PROVE  /\ Resume(c, a) \in Regs /\ Resume(c, a).rest = c.rest /\ Resume(c, a).bank[RB(a)] = a
         /\ RB(Me) = 0 /\ RB(a) = 1 => Resume(c, a).bank[0] = c.low
<1>1. RB(a) \in Bit /\ RB(Me) \in Bit
  BY DEF RB, Bit
<1> DEFINE b == RB(a)
           bk == [j \in Bit |-> IF j = RB(Me) THEN c.low ELSE c.other]
<1>2. bk \in [Bit -> Acts] /\ (RB(Me) = 0 => bk[0] = c.low)
  BY DEF Save, Bit
<1>3. Resume(c, a) = [[bank |-> bk, rest |-> c.rest, ctl |-> c.ctl] EXCEPT !.bank[b] = a]
  BY DEF Resume, Load
<1>4. b \in Bit /\ c.rest \in Acts /\ c.ctl \in Acts
  BY <1>1 DEF Save
<1> HIDE DEF b, bk
<1>5. /\ Resume(c, a) \in Regs /\ Resume(c, a).rest = c.rest
      /\ Resume(c, a).bank = [bk EXCEPT ![b] = a]
  BY <1>2, <1>3, <1>4 DEF Regs
<1> QED
  BY <1>2, <1>4, <1>5 DEF Bit, b

\* sched() and exit(): what the thread that leaves saves.
Leaves(sv) ==
  /\ saved' = [saved EXCEPT ![thr] = sv] /\ sv.rest = <<thr, depth'[thr]>>
  /\ regs' = Resume(saved[Scheduler], <<Scheduler, 1>>)
  /\ moved' \in [Threads -> BOOLEAN] /\ \A t \in Threads : t # thr => moved'[t] = moved[t]
  /\ moved'[thr] \/ sv.low = <<thr, 0>>

\* The kernel stack that it will find: its own, or allocproc's.
LeavesStack ==
  /\ frames' \in [Threads -> Seq(Frame)]
  /\ \A t \in Threads : t # thr => frames'[t] = frames[t]
  /\ frames'[thr] # <<>> /\ Len(frames'[thr]) = depth'[thr]
  /\ frames'[thr][Len(frames'[thr])].at = "c"
  /\ \A i \in 1 .. Len(frames'[thr]) : /\ FrameRight(thr, frames'[thr], i)
                                       /\ frames'[thr][i].at = "ssr" => frames'[thr] = frames[thr]

\* swtch from a process to the scheduler.
LEMMA LeaveInv ==
  ASSUME TInv, IInv', Sched \/ Exit, NEW sv \in Save, Leaves(sv), LeavesStack,
         UNCHANGED <<lost, torn>>
  PROVE  TInv'
<1>1. /\ thr \in Procs /\ thr' = Scheduler /\ thr \in Threads /\ Scheduler \in Threads
      /\ \A t \in Threads : t # thr => depth'[t] = depth[t] /\ depth'[t] \in Nat
      /\ thr # Scheduler /\ Base(thr) = 0 /\ Base(Scheduler) = 1
  <2>1. thr \in Procs /\ thr' = Scheduler
    BY DEF Sched, Exit, LeaveProcess
  <2>2. \A t \in Threads : t # thr => depth'[t] = depth[t]
    BY DEF Sched, Exit, TInv, IInv, TypeOK
  <2> QED
    BY <2>1, <2>2, Activations, ThreadsAssumption, Zenon DEF TInv, Threads, Base
<1>2. depth'[Scheduler] = 1 /\ frames'[Scheduler] = <<>> /\ saved[Scheduler].rest = <<Scheduler, 1>>
  <2>1. depth[Scheduler] = 1
    BY <1>1 DEF TInv, IInv, StacksReady
  <2>2. Len(frames[Scheduler]) = 0 /\ frames[Scheduler] \in Seq(Frame)
    BY <1>1, <2>1 DEF TInv, FramesNest, TTypeOK
  <2>3. saved[Scheduler].rest = <<Scheduler, 1>>
    BY <1>1, <2>1 DEF TInv, SavedReady
  <2> QED
    BY <1>1, <2>1, <2>2, <2>3 DEF LeavesStack
<1>3. regs' \in Regs /\ regs'.rest = <<Scheduler, 1>> /\ regs'.bank[0] = <<Scheduler, 1>>
  <2>1. <<Scheduler, 1>> \in Acts /\ RB(<<Scheduler, 1>>) = 0 /\ saved[Scheduler] \in Save
    BY <1>1 DEF Acts, RB, TInv, TTypeOK
  <2> QED
    <3> DEFINE c == saved[Scheduler]
               a == <<Scheduler, 1>>
    <3>1. c \in Save /\ a \in Acts /\ RB(a) = 0 /\ c.rest = a /\ regs' = Resume(c, a)
      BY <1>2, <2>1 DEF Leaves
    <3> HIDE DEF c, a
    <3>2. regs' \in Regs /\ regs'.rest = a /\ regs'.bank[0] = a
      BY <3>1, ResumeRegs
    <3> QED
      BY <3>2 DEF a
<1>4. TTypeOK'
  BY <1>1, <1>3, Zenon DEF TInv, TTypeOK, Leaves, LeavesStack
<1>5. FramesNest'
  <2>1. ASSUME NEW t \in Threads, t # thr
        PROVE  /\ Len(frames'[t]) = depth'[t] - Base(t)
               /\ \A i \in 1 .. Len(frames'[t]) : FrameRight(t, frames'[t], i)
    BY <1>1, <2>1, Zenon DEF TInv, FramesNest, LeavesStack
  <2>2. Len(frames'[thr]) = depth'[thr] - Base(thr)
    <3>1. Len(frames'[thr]) \in Nat /\ Len(frames'[thr]) = depth'[thr]
      BY <1>1 DEF LeavesStack
    <3> QED
      BY <1>1, <3>1
  <2>3. \A i \in 1 .. Len(frames'[thr]) : FrameRight(thr, frames'[thr], i)
    BY DEF LeavesStack
  <2>4. ASSUME NEW t \in Threads
        PROVE  /\ Len(frames'[t]) = depth'[t] - Base(t)
               /\ \A i \in 1 .. Len(frames'[t]) : FrameRight(t, frames'[t], i)
    BY <2>1, <2>2, <2>3, Zenon
  <2> QED
    BY <2>4 DEF FramesNest, FrameRight, Base
<1>6. RegsCurrent'
  <2>1. ~Trapped' /\ ~At("c")' /\ Me' = <<Scheduler, 1>>
    BY <1>1, <1>2, Zenon DEF Trapped, At, Me
  <2> QED
    BY <1>1, <1>3, <2>1, Zenon DEF RegsCurrent
<1>7. SavedReady'
  <2>1. ASSUME NEW t \in Threads, t # Scheduler
        PROVE  /\ saved'[t].rest = <<t, depth'[t]>>
               /\ frames'[t] # <<>> => frames'[t][Len(frames'[t])].at = "c"
               /\ moved'[t] \/ saved'[t].low = <<t, 0>>
    <3>1. CASE t = thr
      <4>1. saved'[thr] = sv
        BY <1>1 DEF TInv, TTypeOK, Leaves
      <4> QED
        BY <3>1, <4>1 DEF Leaves, LeavesStack
    <3>2. CASE t # thr
      <4>1. saved'[t] = saved[t] /\ frames'[t] = frames[t] /\ moved'[t] = moved[t] /\ depth'[t] = depth[t]
        BY <1>1, <3>2 DEF TInv, TTypeOK, Leaves, LeavesStack
      <4> QED
        BY <2>1, <3>2, <4>1 DEF TInv, SavedReady
    <3> QED
      BY <3>1, <3>2
  <2> QED
    BY <1>1, <2>1, Zenon DEF SavedReady
<1>8. SpcRight'
  <2> SUFFICES ASSUME ~torn, NEW t \in Threads, NEW i \in 1 .. Len(frames'[t]),
                      frames'[t][i].at = "ssr"
               PROVE  FALSE
    BY DEF TInv, SpcRight
  <2>1. frames'[t] = frames[t]
    BY DEF LeavesStack
  <2>2. t = thr /\ i = Len(frames[t])
    BY <2>1 DEF TInv, SpcRight
  <2> QED
    BY <2>1, <2>2 DEF LeavesStack
<1> QED
  BY <1>4, <1>5, <1>6, <1>7, <1>8 DEF TInv

\* yield and sleep leave from C code, with its registers saved.
LEMMA SchedSwtchInv ==
  ASSUME TInv, IInv', SchedSwtch
  PROVE  TInv'
<1>1. /\ InC /\ Sched /\ saved' = [saved EXCEPT ![thr] = Store]
      /\ regs' = Resume(saved[Scheduler], <<Scheduler, 1>>)
      /\ moved' = [moved EXCEPT ![thr] = TRUE] /\ UNCHANGED <<frames, lost, torn>>
  BY DEF SchedSwtch
<1>2. thr \in Threads /\ thr # Scheduler /\ Base(thr) = 0 /\ depth[thr] \in Nat /\ depth' = depth
  BY <1>1, Activations, ThreadsAssumption DEF Sched, Base, TInv
<1>3. /\ Trapped /\ At("c") /\ Len(frames[thr]) = depth[thr] /\ frames[thr] # <<>>
      /\ frames[thr][Len(frames[thr])].at = "c"
  <2>1. depth[thr] > 0
    BY <1>1 DEF Sched, InKernel
  <2>2. Trapped
    BY <1>2, <2>1, TrappedIff
  <2> QED
    BY <1>1, <1>2, <2>2 DEF InC, At, Trapped, F, TInv, FramesNest
<1>4. Store \in Save /\ Store.rest = <<thr, depth[thr]>>
  <2>1. regs \in Regs /\ RB(Me) \in Bit /\ 1 - RB(Me) \in Bit /\ regs.rest = <<thr, depth[thr]>>
    BY <1>3 DEF TInv, TTypeOK, RegsCurrent, RB, Bit, Me
  <2> DEFINE b == RB(Me)
             b1 == 1 - RB(Me)
  <2>2. Store = [low |-> regs.bank[b], other |-> regs.bank[b1], rest |-> regs.rest,
  ctl |-> regs.ctl]
    BY DEF Store
  <2>3. b \in Bit /\ b1 \in Bit
    BY <2>1
  <2> HIDE DEF b, b1
  <2> QED
    BY <2>1, <2>2, <2>3 DEF Save, Regs
<1>5. \A i \in 1 .. Len(frames'[thr]) : /\ FrameRight(thr, frames'[thr], i)
                                        /\ frames'[thr][i].at = "ssr" => frames'[thr] = frames[thr]
  BY <1>1, <1>2 DEF TInv, FramesNest
<1>6. /\ moved' \in [Threads -> BOOLEAN] /\ \A t \in Threads : t # thr => moved'[t] = moved[t]
      /\ moved'[thr] /\ frames' \in [Threads -> Seq(Frame)]
      /\ \A t \in Threads : t # thr => frames'[t] = frames[t]
  BY <1>1, <1>2 DEF TInv, TTypeOK
<1> DEFINE sv == Store
<1>7. sv \in Save /\ sv.rest = <<thr, depth'[thr]>> /\ saved' = [saved EXCEPT ![thr] = sv]
  BY <1>1, <1>2, <1>4
<1> HIDE DEF sv
<1>8. /\ frames'[thr] # <<>> /\ Len(frames'[thr]) = depth'[thr]
      /\ frames'[thr][Len(frames'[thr])].at = "c"
  BY <1>1, <1>2, <1>3
<1> QED
  BY <1>1, <1>5, <1>6, <1>7, <1>8, LeaveInv, Zenon DEF Leaves, LeavesStack

\* exit leaves, and the slot gets the stack that allocproc builds.
LEMMA ExitSwtchInv ==
  ASSUME TInv, IInv', ExitSwtch
  PROVE  TInv'
<1> DEFINE sv == FreshSave(thr)
           fr == FreshFrame(thr)
<1>1. /\ InC /\ Exit /\ saved' = [saved EXCEPT ![thr] = sv]
      /\ frames' = [frames EXCEPT ![thr] = <<fr>>]
      /\ regs' = Resume(saved[Scheduler], <<Scheduler, 1>>)
      /\ moved' = [moved EXCEPT ![thr] = FALSE] /\ UNCHANGED <<lost, torn>>
  BY DEF ExitSwtch
<1>2. thr \in Threads /\ thr # Scheduler /\ Base(thr) = 0 /\ depth'[thr] = 1
  BY <1>1, Activations, ThreadsAssumption DEF Exit, Base, TInv, IInv, TypeOK
<1>3. <<thr, 0>> \in Acts /\ <<thr, 1>> \in Acts
  BY <1>2 DEF Acts
<1>4. sv \in Save /\ sv.rest = <<thr, 1>> /\ sv.low = <<thr, 0>>
  BY <1>3 DEF FreshSave, Save
<1>5. /\ fr \in Frame /\ fr.at = "c" /\ fr.rest = <<thr, 0>> /\ fr.ctl = <<thr, 0>>
  BY <1>3 DEF FreshFrame, Trapframe, Frame, Exceptions
<1> HIDE DEF sv, fr
<1>6. /\ frames'[thr] = <<fr>> /\ frames' \in [Threads -> Seq(Frame)]
      /\ \A t \in Threads : t # thr => frames'[t] = frames[t]
      /\ moved' \in [Threads -> BOOLEAN] /\ \A t \in Threads : t # thr => moved'[t] = moved[t]
  BY <1>1, <1>2, <1>5 DEF TInv, TTypeOK
<1>7. /\ frames'[thr] # <<>> /\ Len(frames'[thr]) = 1 /\ frames'[thr][1] = fr
  BY <1>6
<1>8. \A i \in 1 .. Len(frames'[thr]) : /\ FrameRight(thr, frames'[thr], i)
                                        /\ frames'[thr][i].at = "ssr" => frames'[thr] = frames[thr]
  <2>1. FrameRight(thr, frames'[thr], 1)
    BY <1>2, <1>5, <1>7 DEF FrameRight
  <2> QED
    BY <1>5, <1>7, <2>1
<1>9. /\ sv.rest = <<thr, depth'[thr]>>
      /\ Len(frames'[thr]) = depth'[thr] /\ frames'[thr][Len(frames'[thr])].at = "c"
  BY <1>2, <1>4, <1>5, <1>7
<1> QED
  BY <1>1, <1>4, <1>6, <1>7, <1>8, <1>9, LeaveInv, Zenon DEF Leaves, LeavesStack

\* The scheduler resumes p inside sched, or enters forkret.
LEMMA SchedulerSwtchInv ==
  ASSUME TInv, IInv', NEW p \in Procs, SchedulerSwtch(p)
  PROVE  TInv'
<1>1. /\ InC /\ Swtch(p) /\ saved' = [saved EXCEPT ![Scheduler] = Store, ![p] = FreshSave(p)]
      /\ regs' = Resume(saved[p], <<p, depth[p]>>) /\ UNCHANGED <<frames, lost, torn, moved>>
  BY DEF SchedulerSwtch
<1>2. /\ thr = Scheduler /\ depth[Scheduler] = 1 /\ thr' = p /\ depth' = depth /\ p \in Threads
      /\ p # Scheduler /\ Scheduler \in Threads /\ depth[p] \in Nat /\ depth[p] >= 1
      /\ Base(p) = 0 /\ Me = <<Scheduler, 1>> /\ <<p, depth[p]>> \in Acts
  BY <1>1, Activations, ThreadsAssumption DEF Swtch, Threads, Base, TInv, Me
<1>3. RB(Me) = 0 /\ RB(<<p, depth[p]>>) = 1
  BY <1>2 DEF RB
<1>4. /\ saved[p] \in Save /\ saved[p].rest = <<p, depth[p]>>
      /\ frames[p] # <<>> => frames[p][Len(frames[p])].at = "c"
      /\ moved[p] \/ saved[p].low = <<p, 0>>
  BY <1>2 DEF TInv, TTypeOK, SavedReady
<1>5. /\ regs' \in Regs /\ regs'.rest = <<p, depth[p]>> /\ regs'.bank[1] = <<p, depth[p]>>
      /\ regs'.bank[0] = saved[p].low
  BY <1>1, <1>2, <1>3, <1>4, ResumeRegs, Zenon
<1>6. ~Trapped /\ regs.rest = <<Scheduler, 1>>
  <2>1. ~Trapped
    BY <1>2, TrappedIff DEF Base
  <2> QED
    BY <1>2, <2>1, Zenon DEF TInv, RegsCurrent
<1>7. Store \in Save /\ Store.rest = <<Scheduler, 1>>
  <2>1. regs \in Regs /\ Store = [low |-> regs.bank[0], other |-> regs.bank[1], rest |-> regs.rest,
                                 ctl |-> regs.ctl]
    BY <1>3 DEF TInv, TTypeOK, Store
  <2> QED
    BY <1>6, <2>1 DEF Save, Regs, Bit
<1>8. FreshSave(p) \in Save
  <2>1. <<p, 0>> \in Acts /\ <<p, 1>> \in Acts
    BY <1>2 DEF Acts
  <2> QED
    BY <2>1 DEF FreshSave, Save
<1> DEFINE st == Store
           fs == FreshSave(p)
<1>9. /\ saved' = [saved EXCEPT ![Scheduler] = st, ![p] = fs] /\ st \in Save /\ fs \in Save
      /\ st.rest = <<Scheduler, 1>>
  BY <1>1, <1>7, <1>8
<1> HIDE DEF st, fs
<1>10. /\ saved' \in [Threads -> Save] /\ saved'[Scheduler] = st
       /\ \A t \in Threads : t # Scheduler /\ t # p => saved'[t] = saved[t]
  BY <1>2, <1>9, Zenon DEF TInv, TTypeOK
<1>11. TTypeOK'
  BY <1>1, <1>5, <1>10, Zenon DEF TInv, TTypeOK
<1>12. FramesNest'
  BY <1>1, <1>2, Zenon DEF TInv, FramesNest
<1>13. RegsCurrent'
  <2>1. Me' = <<p, depth[p]>>
    BY <1>2 DEF Me
  <2>2. Trapped' /\ At("c")'
    <3>1. Len(frames[p]) >= 1 /\ frames[p] \in Seq(Frame)
      BY <1>2 DEF TInv, FramesNest, TTypeOK
    <3> QED
      BY <1>1, <1>2, <1>4, <3>1 DEF Trapped, At, F
  <2> QED
    BY <1>1, <1>2, <1>4, <1>5, <2>1, <2>2, Zenon DEF RegsCurrent
<1>14. SavedReady'
  <2> SUFFICES ASSUME NEW t \in Threads, t # p
               PROVE  /\ saved'[t].rest = <<t, depth[t]>>
                      /\ frames[t] # <<>> => frames[t][Len(frames[t])].at = "c"
                      /\ t # Scheduler => moved[t] \/ saved'[t].low = <<t, 0>>
    BY <1>1, <1>2, Zenon DEF SavedReady
  <2>1. CASE t = Scheduler
    BY <1>2, <1>6, <1>9, <1>10, <2>1, Zenon DEF Trapped
  <2>2. CASE t # Scheduler
    BY <1>2, <1>10, <2>2 DEF TInv, SavedReady
  <2> QED
    BY <2>1, <2>2
<1>15. SpcRight'
  <2>1. ~torn => \A t \in Threads : \A i \in 1 .. Len(frames[t]) : frames[t][i].at # "ssr"
    <3> SUFFICES ASSUME ~torn, NEW t \in Threads, NEW i \in 1 .. Len(frames[t]), frames[t][i].at = "ssr"
                 PROVE  FALSE
      OBVIOUS
    <3>1. t = thr
      BY DEF TInv, SpcRight
    <3>2. frames[thr] = <<>>
      BY <1>6 DEF Trapped
    <3> QED
      BY <3>1, <3>2
  <2> QED
    BY <1>1, <2>1, Zenon DEF TInv, SpcRight
<1> QED
  BY <1>11, <1>12, <1>13, <1>14, <1>15 DEF TInv

\* Code that neither traps nor switches leaves it all alone.
LEMMA KernelInv ==
  ASSUME TInv, IInv', UNCHANGED tvars, UNCHANGED <<thr, depth>>
  PROVE  TInv'
<1>0. UNCHANGED <<regs, frames, saved, lost, torn, moved>>
  BY DEF tvars
<1>1. TTypeOK' /\ FramesNest' /\ SpcRight'
  <2>1. TTypeOK'
    BY <1>0, Zenon DEF TInv, TTypeOK
  <2>2. FramesNest'
    BY <1>0, Zenon DEF TInv, FramesNest
  <2>3. SpcRight'
    BY <1>0, Zenon DEF TInv, SpcRight
  <2> QED
    BY <2>1, <2>2, <2>3
<1>2. RegsCurrent' /\ SavedReady'
  BY DEF TInv, tvars, RegsCurrent, SavedReady, Trapped, At, F, Me
<1> QED
  BY <1>1, <1>2 DEF TInv

\* start, and allocproc, set it up.
LEMMA TInitInv == TInit => TInv
<1> SUFFICES ASSUME TInit PROVE TInv
  OBVIOUS
<1>1. /\ IInv /\ thr = Scheduler /\ depth = [t \in Threads |-> 1] /\ Scheduler \in Threads
      /\ \A t \in Threads : <<t, 0>> \in Acts /\ <<t, 1>> \in Acts
  BY InitIInv DEF TInit, Init, Acts, Threads
<1>2. /\ regs \in Regs /\ regs.bank[0] = <<Scheduler, 1>> /\ regs.rest = <<Scheduler, 1>>
  <2>1. regs = [bank |-> [b \in Bit |-> <<Scheduler, 1>>], rest |-> <<Scheduler, 1>>,
                ctl |-> <<Scheduler, 1>>]
    BY DEF TInit
  <2> QED
    BY <1>1, <2>1, Zenon DEF Regs, Bit
<1>3. \A t \in Threads : /\ FreshSave(t) \in Save /\ FreshSave(t).rest = <<t, 1>>
                         /\ FreshSave(t).low = <<t, 0>>
                         /\ FreshFrame(t) \in Frame /\ FreshFrame(t).at = "c"
                         /\ FreshFrame(t).rest = <<t, 0>> /\ FreshFrame(t).ctl = <<t, 0>>
  BY <1>1, Zenon DEF FreshSave, Save, FreshFrame, Trapframe, Frame, Exceptions
<1>4. /\ frames[Scheduler] = <<>>
      /\ frames = [t \in Threads |-> IF t = Scheduler THEN <<>> ELSE <<FreshFrame(t)>>]
      /\ saved = [t \in Threads |-> FreshSave(t)] /\ lost = FALSE /\ torn = FALSE
      /\ moved = [t \in Threads |-> FALSE]
  BY <1>1 DEF TInit
<1>5. \A t \in Threads : t # Scheduler => frames[t] = <<FreshFrame(t)>> /\ Len(frames[t]) = 1
                                          /\ frames[t][1] = FreshFrame(t)
  BY <1>4
<1>6. TTypeOK
  <2>1. frames \in [Threads -> Seq(Frame)]
    <3>1. \A t \in Threads : <<FreshFrame(t)>> \in Seq(Frame) /\ <<>> \in Seq(Frame)
      BY <1>3
    <3> QED
      BY <1>4, <3>1
  <2>2. saved \in [Threads -> Save] /\ moved \in [Threads -> BOOLEAN]
    BY <1>3, <1>4
  <2> QED
    BY <1>2, <1>4, <2>1, <2>2, Zenon DEF TTypeOK
<1>7. FramesNest
  <2> SUFFICES ASSUME NEW t \in Threads
               PROVE  /\ Len(frames[t]) = 1 - Base(t)
                      /\ \A i \in 1 .. Len(frames[t]) : FrameRight(t, frames[t], i)
    BY <1>1 DEF FramesNest
  <2>1. CASE t = Scheduler
    BY <1>4, <2>1 DEF Base
  <2>2. CASE t # Scheduler
    <3>1. FrameRight(t, frames[t], 1)
      BY <1>3, <1>5, <2>2 DEF FrameRight, Base
    <3>2. Len(frames[t]) = 1 /\ Base(t) = 0
      BY <1>5, <2>2 DEF Base
    <3>3. \A i \in 1 .. Len(frames[t]) : i = 1
      BY <3>2
    <3> QED
      BY <3>1, <3>2, <3>3
  <2> QED
    BY <2>1, <2>2
<1>8. RegsCurrent
  BY <1>1, <1>2, <1>4 DEF RegsCurrent, Trapped, At, Me
<1>9. SavedReady
  BY <1>1, <1>3, <1>4, <1>5 DEF SavedReady
<1>10. SpcRight
  <2>1. \A t \in Threads : \A i \in 1 .. Len(frames[t]) : frames[t][i].at = "c"
    BY <1>3, <1>4, <1>5
  <2> QED
    BY <1>4, <2>1 DEF SpcRight
<1> QED
  BY <1>1, <1>6, <1>7, <1>8, <1>9, <1>10 DEF TInv

\* Every step preserves TInv: one lemma above for each kind of step.
LEMMA TNextInv == TInv /\ [TNext]_allvars => TInv'
<1> SUFFICES ASSUME TInv, [TNext]_allvars PROVE TInv'
  OBVIOUS
<1>1. IInv'
  <2>1. [Next]_vars
    BY StepUnder DEF allvars
  <2> QED
    BY <2>1, NextIInv DEF TInv
<1>2. ASSUME NEW e \in Exceptions \cup TlbEvents,
             GeneralException(e) \/ TlbException(e)
      PROVE  TInv'
  <2>1. ~lost /\ Enter(e) /\ PushFrame /\ thr \in Procs /\ depth[thr] = 0 /\ torn' = torn
    BY <1>2 DEF GeneralException, TlbException, UserTrap
  <2>2. ~At("ssr")
    BY <2>1, TrappedIff, ThreadsAssumption DEF At, Base
  <2>3. torn' = (torn \/ At("ssr"))
    BY <2>1, <2>2 DEF TInv, TTypeOK
  <2> QED
    BY <1>1, <2>1, <2>3, EnterInv
<1>3. ASSUME NEW e \in Interrupts, Intr(e) PROVE TInv'
  <2>1. ~lost /\ Enter(e) /\ PushFrame /\ torn' = (torn \/ At("ssr")) /\ e # "trapa"
    BY <1>3 DEF Intr, Interrupt, Interrupts
  <2> QED
    BY <1>1, <2>1, EnterInv
<1>4. ASSUME Kernel PROVE TInv'
  <2>1. UNCHANGED tvars /\ UNCHANGED <<thr, depth>>
    BY <1>4 DEF Kernel, Acquire, Release, Switchuvm, SchedulerSti
  <2> QED
    BY <1>1, <2>1, KernelInv
<1>5. ASSUME UNCHANGED allvars PROVE TInv'
  BY <1>1, <1>5, KernelInv DEF allvars, vars
<1>6. ASSUME Halted PROVE TInv'
  BY <1>5, <1>6 DEF Halted
<1>7. CASE TNext
  BY <1>1, <1>2, <1>3, <1>4, <1>6, <1>7, HandlerReturnsInv, LoadSpcInv, TrapretRteInv,
     SchedSwtchInv, ExitSwtchInv, SchedulerSwtchInv DEF TNext
<1> QED
  BY <1>5, <1>7

\* TInv holds in every reachable state.
THEOREM TrapFrameInvariant == TSpec => []TInv
BY TInitInv, TNextInv, PTL DEF TSpec

\* acquire, release, popcli and sched never panic, and a critical section is
\* neither interrupted nor left behind, with the traps of entry.S on top.
THEOREM TrapFrameLocks == TSpec => [](NoPanic /\ OneCriticalSection)
<1>1. TInv => NoPanic /\ OneCriticalSection
  BY DEF TInv, IInv
<1> QED
  BY <1>1, TrapFrameInvariant, PTL

\* The registers of an activation are its own whenever its C code or user code
\* runs, at any depth of nesting, but for r0-r7 of user code that was
\* switched out in the kernel.
THEOREM TrapFrameRegisters == TSpec => []KeptUnlessSwitched
<1>1. TInv => KeptUnlessSwitched
  <2> SUFFICES ASSUME TInv, InC
               PROVE  /\ regs.rest = Me
                      /\ regs.bank[RB(Me)] = Me \/ (depth[thr] = 0 /\ moved[thr])
    BY DEF KeptUnlessSwitched
  <2>1. IInv /\ Me = <<thr, depth[thr]>>
    BY DEF Me, TInv
  <2>2. /\ thr \in Threads /\ depth[thr] \in Nat /\ Me = <<thr, depth[thr]>> /\ Base(thr) \in {0, 1}
        /\ depth[Scheduler] >= 1
    BY <2>1, Activations
  <2>3. CASE Trapped
    <3>1. At("c") /\ depth[thr] > Base(thr)
      BY <2>3, TrappedIff DEF InC
    <3>2. RB(Me) = 1
      BY <2>2, <3>1 DEF RB, Base
    <3> QED
      BY <3>1, <3>2 DEF TInv, RegsCurrent
  <2>4. CASE ~Trapped
    <3>1. depth[thr] <= Base(thr)
      BY <2>2, <2>4, TrappedIff
    <3>2. thr # Scheduler => depth[thr] = 0 /\ Me = <<thr, 0>>
      BY <2>2, <3>1 DEF Base
    <3>3. thr = Scheduler => Me = <<Scheduler, 1>>
      BY <2>2, <3>1 DEF Base
    <3>4. RB(Me) = 0
      BY <3>2, <3>3 DEF RB
    <3> QED
      BY <2>4, <3>4, <3>2, <3>3 DEF TInv, RegsCurrent
  <2> QED
    BY <2>3, <2>4
<1> QED
  BY <1>1, TrapFrameInvariant, PTL

\* rte leads back to the code that was interrupted, unless an interrupt hit the
\* instructions of trapret after the load of spc.
THEOREM TrapFrameReturns == TSpec => []RteComesBack
<1>1. TInv => RteComesBack
  BY DEF TInv, SpcRight, RteComesBack
<1> QED
  BY <1>1, TrapFrameInvariant, PTL
=============================================================================
