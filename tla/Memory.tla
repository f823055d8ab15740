------------------------------- MODULE Memory -------------------------------
(***************************************************************************)
(* Physical pages and address spaces: kalloc.c, vm.c, and the calls that   *)
(* build and tear down address spaces: fork, exec, sbrk (growproc), exit   *)
(* and wait.  Processes share the free list; a process can be switched     *)
(* away from between two allocations, and allocations fail when others     *)
(* hold the pages.  The TLB is loaded by switchuvm only.                   *)
(*                                                                         *)
(* An address space is its page directory page, its page table pages, the  *)
(* page behind each virtual page and p->sz.  Sizes are in units of which   *)
(* PGSIZE make a page.  The free list is a set, and kalloc takes any page  *)
(* of it rather than the one freed last: pages differ only in who owns     *)
(* them.  kfree of a free page, which corrupts the list unnoticed, is made *)
(* to stop the model.                                                      *)
(***************************************************************************)
EXTENDS Integers

CONSTANTS Procs, InitProc,
          NPages,      \* pages kinit frees
          NPT, NPD,    \* entries of a page table, of a page directory
          PGSIZE,
          NTLB,        \* entries switchuvm fills: 64
          Increments,  \* sbrk grows or shrinks by these
          Images       \* sizes of the programs exec loads

Pages == 1 .. NPages
VPages == 0 .. NPT * NPD - 1
USERTOP == NPT * NPD * PGSIZE

ASSUME MemoryAssumption ==
  /\ NPages \in Nat /\ NPages >= 4               \* or userinit fails
  /\ {NPT, NPD, PGSIZE, NTLB} \subseteq Nat \ {0}
  /\ InitProc \in Procs /\ Increments \subseteq Nat \ {0} /\ Images \subseteq 1 .. USERTOP

VARIABLES free,
          state,       \* state[p]: "unused", "embryo", "live", "zombie"
          vm,          \* vm[p]: kernel stack and address space of p
          job,         \* job[p]: the call p is in, with the space it builds
          cur,         \* the process that runs
          tlb,         \* the virtual pages with a TLB entry, and the page
          unmapped,    \* history: allocuvm or copyuvm lost a page
          emptied,     \* history: growproc returned -1 with all pages gone
          stale,       \* growproc returned -1 and freed pages in the TLB
          panicked

vars == <<free, state, vm, job, cur, tlb, unmapped, emptied, stale, panicked>>
hist == <<unmapped, emptied, stale>>

NoSpace == [pgdir |-> 0, tab |-> [d \in 0 .. NPD - 1 |-> 0], pte |-> [a \in VPages |-> 0]]
NoVm == [kstack |-> 0, sz |-> 0, as |-> NoSpace]
NoJob == [pc |-> "idle", as |-> NoSpace, a |-> 0, last |-> 0, sz |-> 0, child |-> InitProc]

PageUp(sz) == (sz + PGSIZE - 1) \div PGSIZE      \* PGROUNDUP, as a page number
LastPage(sz) == (sz - 1) \div PGSIZE             \* PGROUNDDOWN(sz - 1)

In(p, l) == panicked = "no" /\ cur = p /\ job[p].pc = l
Panic(s) == panicked' = s /\ UNCHANGED <<free, state, vm, job, cur, tlb, hist>>
SetJob(p, r) == job' = [job EXCEPT ![p] = r]

-----------------------------------------------------------------------------
(* Page tables *)

Tab(a) == a \div NPT

\* What kalloc returns, and what it returns the next time.
Kalloc(S) == CHOOSE pg \in S : TRUE
NewPage == Kalloc(free)
NextPage == Kalloc(free \ {NewPage})

\* The pages kfree takes when an address space goes: freevm.
UserPages(as, S) == {as.pte[a] : a \in {v \in S : as.pte[v] # 0}}
AllPages(as) ==
  (UserPages(as, VPages) \cup {as.pgdir} \cup {as.tab[d] : d \in 0 .. NPD - 1}) \ {0}

Freevm(as) == AllPages(as)

\* kalloc and mappages of page a in one loop of allocuvm or copyuvm, when
\* there is a page: a page table is allocated if needed.
Mapped(as, a) ==
  [pgdir |-> as.pgdir, pte |-> [as.pte EXCEPT ![a] = NewPage],
   tab |-> [as.tab EXCEPT ![Tab(a)] = IF @ = 0 THEN NextPage ELSE @]]
Taken(as, a) == IF as.tab[Tab(a)] # 0 THEN {NewPage} ELSE {NewPage, NextPage}

\* kalloc gave the page, but not the page table for it.
NoTable(as, a) == as.tab[Tab(a)] = 0 /\ \E pg \in free : free = {pg}

Unmap(as, S) == [as EXCEPT !.pte = [a \in VPages |-> IF a \in S THEN 0 ELSE @[a]]]

DeallocRange(oldsz, newsz) == PageUp(newsz) .. LastPage(oldsz)

Kfree(S) == free' = free \cup S
DoubleFree(S) == S \cap free # {} /\ Panic("double kfree")

\* switchuvm: entries for the pages up to the first hole, i = (i+1) % 64; and
\* a loop that fills one entry again and again.
BelowHole(as) == {a \in VPages : \A b \in 0 .. a : as.pte[b] # 0}
Entries(as, S, k) == {<<a, as.pte[a]>> : a \in {v \in S : v + k \notin S}}
Load(as) == Entries(as, BelowHole(as), NTLB)

\* The address space of p: a growproc in progress adds to it in place.
Own(p) == IF job[p].pc = "grow" THEN job[p].as ELSE vm[p].as

\* switchuvm(p): the TLB is cleared first, or not, and right again.
SwitchuvmKeep(as) == tlb' = tlb \cup Load(as) /\ stale' = FALSE
Switchuvm(as) == tlb' = Load(as) /\ stale' = FALSE

-----------------------------------------------------------------------------
(* growproc *)

\* sbrk(n) up to the loop of allocuvm.
Grow(p, n) ==
  LET newsz == vm[p].sz + n
  IN  /\ In(p, "idle") /\ newsz <= USERTOP
      /\ SetJob(p, [NoJob EXCEPT !.pc = "grow", !.as = vm[p].as, !.sz = newsz,
                                 !.a = PageUp(vm[p].sz), !.last = LastPage(newsz)])
      /\ UNCHANGED <<free, state, vm, cur, tlb, hist, panicked>>

\* One turn of allocuvm's loop, for growproc and exec.  It does not look at
\* the result of mappages.
AllocPage(p) ==
  LET j == job[p]
  IN  /\ panicked = "no" /\ cur = p /\ j.pc \in {"grow", "load", "stack"}
      /\ j.a <= j.last /\ free # {}
      /\ \/ ~NoTable(j.as, j.a) /\ j.as.pte[j.a] # 0 /\ Panic("remap")
         \/ /\ ~NoTable(j.as, j.a) /\ j.as.pte[j.a] = 0
            /\ free' = free \ Taken(j.as, j.a)
            /\ SetJob(p, [j EXCEPT !.as = Mapped(j.as, j.a), !.a = @ + 1])
            /\ UNCHANGED <<state, vm, cur, tlb, hist, panicked>>
         \/ /\ NoTable(j.as, j.a)
            /\ free' = {} /\ unmapped' = TRUE
            /\ SetJob(p, [j EXCEPT !.a = @ + 1])
            /\ UNCHANGED <<state, vm, cur, tlb, emptied, stale, panicked>>

GrowEnd(p) ==
  /\ In(p, "grow") /\ job[p].a > job[p].last
  /\ vm' = [vm EXCEPT ![p] = [@ EXCEPT !.as = job[p].as, !.sz = job[p].sz]]
  /\ Switchuvm(job[p].as)
  /\ SetJob(p, NoJob)
  /\ UNCHANGED <<free, state, cur, unmapped, emptied, panicked>>

\* allocuvm is out of memory: deallocuvm(newsz, oldsz), return -1.  The TLB
\* may have the pages, if the process was switched away from and back.
GrowFail(p) ==
  LET S == DeallocRange(job[p].sz, vm[p].sz)
      pages == UserPages(job[p].as, S)
  IN  /\ In(p, "grow") /\ job[p].a <= job[p].last /\ free = {}
      /\ Kfree(pages)
      /\ vm' = [vm EXCEPT ![p] = [@ EXCEPT !.as = Unmap(job[p].as, S)]]
      /\ stale' = (stale \/ \E e \in tlb : e[1] \in S)
      /\ SetJob(p, NoJob)
      /\ UNCHANGED <<state, cur, tlb, unmapped, emptied, panicked>>

\* sbrk(-n).  Below 0 the sum wraps round and nothing is freed.  At 0
\* deallocuvm has freed everything and its result, 0, is taken for an error.
Shrink(p, n) ==
  LET newsz == vm[p].sz - n
      S == DeallocRange(vm[p].sz, newsz)
      pages == UserPages(vm[p].as, S)
  IN  /\ In(p, "idle") /\ newsz >= 0
      /\ \/ DoubleFree(pages)
         \/ /\ pages \cap free = {}
            /\ Kfree(pages)
            /\ vm' = [vm EXCEPT ![p] = [@ EXCEPT !.as = Unmap(vm[p].as, S),
                                       !.sz = IF newsz = 0 THEN vm[p].sz ELSE newsz]]
            /\ IF newsz = 0 THEN emptied' = TRUE /\ stale' = TRUE /\ UNCHANGED tlb
               ELSE Switchuvm(Unmap(vm[p].as, S)) /\ UNCHANGED emptied
            /\ UNCHANGED <<state, job, cur, unmapped, panicked>>

-----------------------------------------------------------------------------
(* fork *)

\* allocproc and setupkvm: a kernel stack and a page directory.
Fork(p, q) ==
  /\ In(p, "idle") /\ state[q] = "unused" /\ free # {} /\ free # {NewPage}
  /\ state' = [state EXCEPT ![q] = "embryo"]
  /\ free' = free \ {NewPage, NextPage}
  /\ vm' = [vm EXCEPT ![q] = [NoVm EXCEPT !.kstack = NewPage]]
  /\ SetJob(p, [NoJob EXCEPT !.pc = "copy", !.child = q,
                             !.as = [NoSpace EXCEPT !.pgdir = NextPage]])
  /\ UNCHANGED <<cur, tlb, hist, panicked>>

CopyTo(p) == PageUp(vm[p].sz)

\* One turn of copyuvm's loop.
CopyPage(p) ==
  LET j == job[p]
  IN  /\ In(p, "copy") /\ j.a < CopyTo(p)
      /\ \/ vm[p].as.tab[Tab(j.a)] = 0 /\ Panic("copyuvm: pte should exist")
         \/ /\ vm[p].as.tab[Tab(j.a)] # 0 /\ vm[p].as.pte[j.a] = 0
            /\ Panic("copyuvm: page not present")
         \/ /\ vm[p].as.pte[j.a] # 0 /\ free # {} /\ ~NoTable(j.as, j.a)
            /\ free' = free \ Taken(j.as, j.a)
            /\ SetJob(p, [j EXCEPT !.as = Mapped(j.as, j.a), !.a = @ + 1])
            /\ UNCHANGED <<state, vm, cur, tlb, hist, panicked>>

Kstack(q) == {vm[q].kstack}

\* No page, or no page table for the page, which is lost: freevm, and fork
\* gives the kernel stack back.
CopyFail(p) ==
  LET j == job[p]
  IN  /\ In(p, "copy") /\ j.a < CopyTo(p) /\ vm[p].as.pte[j.a] # 0
      /\ free = {} \/ NoTable(j.as, j.a)
      /\ free' = Freevm(j.as) \cup Kstack(j.child)
      /\ unmapped' = (unmapped \/ free # {})
      /\ state' = [state EXCEPT ![j.child] = "unused"]
      /\ vm' = [vm EXCEPT ![j.child] = NoVm]
      /\ SetJob(p, NoJob)
      /\ UNCHANGED <<cur, tlb, emptied, stale, panicked>>

CopyEnd(p) ==
  LET j == job[p]
  IN  /\ In(p, "copy") /\ j.a >= CopyTo(p)
      /\ state' = [state EXCEPT ![j.child] = "live"]
      /\ vm' = [vm EXCEPT ![j.child] = [@ EXCEPT !.as = j.as, !.sz = vm[p].sz]]
      /\ SetJob(p, NoJob)
      /\ UNCHANGED <<free, cur, tlb, hist, panicked>>

-----------------------------------------------------------------------------
(* exec.  The inode is locked from the start to the end of loading. *)

\* setupkvm, and allocuvm(0, ph.va + ph.memsz) of a one-segment program.
Exec(p, size) ==
  /\ In(p, "idle") /\ free # {}
  /\ free' = free \ {NewPage}
  /\ SetJob(p, [NoJob EXCEPT !.pc = "load", !.as = [NoSpace EXCEPT !.pgdir = NewPage],
                             !.sz = size, !.last = LastPage(size)])
  /\ UNCHANGED <<state, vm, cur, tlb, hist, panicked>>

\* goto bad with the inode locked: out of memory, or the file is too short.
ExecBad(p) ==
  /\ In(p, "load")
  /\ \/ job[p].a <= job[p].last /\ free = {}
     \/ job[p].a > job[p].last
  /\ Kfree(Freevm(job[p].as))
  /\ SetJob(p, NoJob)
  /\ UNCHANGED <<state, vm, cur, tlb, hist, panicked>>

\* loaduvm succeeds; iunlockput; allocuvm of one page for the stack.
ExecLoaded(p) ==
  LET bottom == PageUp(job[p].sz)
  IN  /\ In(p, "load") /\ job[p].a > job[p].last
      /\ \/ /\ \E a \in 0 .. job[p].last : job[p].as.tab[Tab(a)] = 0
            /\ Panic("loaduvm: address should exist")
         \/ /\ \A a \in 0 .. job[p].last : job[p].as.tab[Tab(a)] # 0
            /\ bottom * PGSIZE + PGSIZE <= USERTOP
            /\ SetJob(p, [job[p] EXCEPT !.pc = "stack", !.a = bottom, !.last = bottom,
                                        !.sz = (bottom + 1) * PGSIZE])
            /\ UNCHANGED <<free, state, vm, cur, tlb, hist, panicked>>
         \/ /\ \A a \in 0 .. job[p].last : job[p].as.tab[Tab(a)] # 0
            /\ bottom * PGSIZE + PGSIZE > USERTOP
            /\ Panic("iunlock")

\* goto bad with the inode unlocked already: the second iunlockput.
ExecBadUnlocked(p) ==
  /\ In(p, "stack") /\ job[p].a <= job[p].last /\ free = {}
  /\ Panic("iunlock")

\* Commit to the new image; switchuvm; freevm of the old one.
ExecEnd(p) ==
  LET old == Freevm(vm[p].as)
  IN  /\ In(p, "stack") /\ job[p].a > job[p].last
      /\ \/ DoubleFree(old)
         \/ /\ old \cap free = {}
            /\ vm' = [vm EXCEPT ![p] = [@ EXCEPT !.as = job[p].as, !.sz = job[p].sz]]
            /\ Switchuvm(job[p].as)
            /\ Kfree(old)
            /\ SetJob(p, NoJob)
            /\ UNCHANGED <<state, cur, unmapped, emptied, panicked>>

-----------------------------------------------------------------------------
(* exit, wait and the scheduler *)

Runnable(p) == state[p] = "live"

\* exit: the pages stay until wait; the scheduler runs somebody else.
Exit(p) ==
  /\ In(p, "idle") /\ p # InitProc
  /\ state' = [state EXCEPT ![p] = "zombie"]
  /\ cur' = InitProc /\ Switchuvm(Own(InitProc))
  /\ UNCHANGED <<free, vm, job, unmapped, emptied, panicked>>

Wait(p, q) ==
  LET pages == Freevm(vm[q].as) \cup {vm[q].kstack}
  IN  /\ In(p, "idle") /\ state[q] = "zombie"
      /\ \/ DoubleFree(pages)
         \/ /\ pages \cap free = {}
            /\ Kfree(pages)
            /\ state' = [state EXCEPT ![q] = "unused"]
            /\ vm' = [vm EXCEPT ![q] = NoVm]
            /\ UNCHANGED <<job, cur, tlb, hist, panicked>>

\* A timer interrupt, anywhere in a call or in user code, and switchuvm.
Switch(p) ==
  /\ panicked = "no" /\ Runnable(p) /\ cur # p
  /\ cur' = p /\ Switchuvm(Own(p))
  /\ UNCHANGED <<free, state, vm, job, unmapped, emptied, panicked>>

-----------------------------------------------------------------------------
\* userinit: a kernel stack, a page directory, and inituvm's page and table.
InitVm == [kstack |-> 1, sz |-> PGSIZE,
           as |-> [pgdir |-> 2, tab |-> [NoSpace.tab EXCEPT ![0] = 4],
                   pte |-> [NoSpace.pte EXCEPT ![0] = 3]]]

Init ==
  /\ free = Pages \ (1 .. 4)
  /\ state = [p \in Procs |-> IF p = InitProc THEN "live" ELSE "unused"]
  /\ vm = [p \in Procs |-> IF p = InitProc THEN InitVm ELSE NoVm]
  /\ job = [p \in Procs |-> NoJob]
  /\ cur = InitProc /\ tlb = Load(InitVm.as)
  /\ unmapped = FALSE /\ emptied = FALSE /\ stale = FALSE /\ panicked = "no"

PanicLoop == panicked # "no" /\ UNCHANGED vars

Next ==
  \/ \E p \in Procs :
       \/ \E n \in Increments : Grow(p, n) \/ Shrink(p, n)
       \/ AllocPage(p) \/ GrowEnd(p) \/ GrowFail(p)
       \/ \E q \in Procs : Fork(p, q) \/ Wait(p, q)
       \/ CopyPage(p) \/ CopyFail(p) \/ CopyEnd(p)
       \/ \E size \in Images : Exec(p, size)
       \/ ExecBad(p) \/ ExecLoaded(p) \/ ExecBadUnlocked(p) \/ ExecEnd(p)
       \/ Exit(p) \/ Switch(p)
  \/ PanicLoop

Spec == Init /\ [][Next]_vars

-----------------------------------------------------------------------------
(* Properties *)

Space == [pgdir : Pages \cup {0}, tab : [0 .. NPD - 1 -> Pages \cup {0}],
          pte : [VPages -> Pages \cup {0}]]

Jobs == [pc : {"idle", "grow", "copy", "load", "stack"}, as : Space, a : 0 .. NPT * NPD,
         last : VPages, sz : 0 .. USERTOP, child : Procs]

\* Types, and: the process that runs is one that can.
TypeOK ==
  /\ free \subseteq Pages
  /\ state \in [Procs -> {"unused", "embryo", "live", "zombie"}]
  /\ vm \in [Procs -> [kstack : Pages \cup {0}, sz : 0 .. USERTOP, as : Space]]
  /\ job \in [Procs -> Jobs]
  /\ tlb \subseteq VPages \X Pages
  /\ cur \in Procs /\ Runnable(cur)
  /\ {unmapped, emptied, stale} \subseteq BOOLEAN

\* The uses of a page: kernel stack, page directory, page table or user page
\* of a process, or of the space its exec or fork builds.  (growproc's is the
\* process's own, with the pages added so far.)
Uses == Procs \X {"own", "new"}
        \X ({<<"kstack", 0>>, <<"pgdir", 0>>} \cup {<<"tab", d>> : d \in 0 .. NPD - 1}
            \cup {<<"pte", a>> : a \in VPages})
SpaceOf(p, w) ==
  IF w = "own" THEN Own(p) ELSE IF job[p].pc = "grow" THEN NoSpace ELSE job[p].as
Entry(as, s) ==
  CASE s[1] = "pgdir" -> as.pgdir [] s[1] = "tab" -> as.tab[s[2]] [] s[1] = "pte" -> as.pte[s[2]]

\* The page in a use, 0 if there is none; and the uses that have one.
PageOf(u) == IF u[3][1] # "kstack" THEN Entry(SpaceOf(u[1], u[2]), u[3])
             ELSE IF u[2] = "own" THEN vm[u[1]].kstack ELSE 0
Used == {x \in {<<u, PageOf(u)>> : u \in Uses} : x[2] # 0}



\* Between calls a process has exactly the pages below p->sz mapped: what
\* copyuvm panics about if it is not so.  A growproc that failed has put
\* everything back.
SizeMapped ==
  ~unmapped /\ ~emptied =>
    \A p \in Procs : state[p] = "live" /\ job[p].pc # "grow" =>
      \A a \in VPages : vm[p].as.pte[a] # 0 <=> a < PageUp(vm[p].sz)

\* In user mode no TLB entry leads to a page the process no longer has, except
\* after the two returns of growproc that free pages and skip switchuvm.
TlbCurrent ==
  ~stale /\ job[cur].pc = "idle" => \A e \in tlb : vm[cur].as.pte[e[1]] = e[2]


=============================================================================
