----------------------------- MODULE FileTable -----------------------------
(***************************************************************************)
(* Open files: the table of struct file (file.c), the descriptor tables    *)
(* proc->ofile, and the system calls that move references between them     *)
(* (sysfile.c: open, dup, close, pipe; proc.c: fork, exit).                *)
(*                                                                         *)
(* A section under ftable.lock is one step.  Between sections a process    *)
(* can be preempted with references in its registers; and because do_timer *)
(* calls exit for a killed process wherever it interrupts it, such a       *)
(* process abandons what it was doing, an earlier exit included, and       *)
(* starts exit from the beginning.                                         *)
(*                                                                         *)
(* One inode stands for all: iref is the number of its references that     *)
(* open files, working directories and calls in progress have.  A pipe is  *)
(* the set of its open ends (Pipe models the rest).                        *)
(*                                                                         *)
(* Counts are exact while no exit was started inside the kernel; what      *)
(* survives such exits is PipeOutlivesFiles.  What does not survive them   *)
(* is fileclose's own check: an exit started between fileclose and the     *)
(* clearing of ofile[fd] closes the file a second time.                    *)
(***************************************************************************)
EXTENDS Integers, FiniteSets, FiniteSetsExt

CONSTANTS NPROC, NFILE, NOFILE,
          Pipes,       \* pages kalloc can give pipealloc
          MaxExits,    \* bound on the exits that do_timer starts in the kernel
          MaxIref      \* bound on open, for the references those exits leak

initproc == 1
Procs == 1 .. NPROC
Files == 1 .. NFILE
Fds   == 1 .. NOFILE

ASSUME FileTableAssumption ==
  /\ NPROC \in Nat \ {0} /\ NFILE \in Nat /\ NOFILE \in Nat /\ MaxExits \in Nat /\ MaxIref \in Nat
  /\ "none" \notin Pipes

VARIABLES ref, what,   \* ref[f]; what[f]: f->type with f->pipe and f->writable
          ends,        \* ends[d]: open ends of pipe d, {} when its page is free
          iref,
          ofile,       \* ofile[p][fd]: a file or 0
          cwd,         \* 1 while proc->cwd refers to the inode
          state, pc,
          f0, f1,      \* the files a call has in hand, 0 when none
          ff,          \* fileclose's copy of the file it freed
          np, fd,      \* fork's child; the descriptor fork and exit are at
          ret,         \* where the call to fileclose returns to
          panicked,
          exits        \* counts do_timer's calls of exit

table == <<ref, what>>
regs  == <<f0, f1, ff, np, fd>>
local == <<regs, ret>>
vars  == <<table, ends, iref, ofile, cwd, state, pc, local, panicked, exits>>

None   == [type |-> "NONE",  pipe |-> "none", end |-> "none"]
AnInode == [type |-> "INODE", pipe |-> "none", end |-> "none"]
PipeEnd(d, e) == [type |-> "PIPE", pipe |-> d, end |-> e]

FreeFiles   == {f \in Files : ref[f] = 0}
FreeFds(p)  == {i \in Fds : ofile[p][i] = 0}
OpenFrom(p, i) == {j \in Fds : j >= i /\ ofile[p][j] # 0}

At(p, l) == panicked = "no" /\ state[p] = "run" /\ pc[p] = l
Goto(p, l) == pc' = [pc EXCEPT ![p] = l]

-----------------------------------------------------------------------------
(* file.c *)

\* filealloc from label l: the file is in hand, or there is none.
Filealloc(p, l, reg, ok, full) ==
  /\ At(p, l)
  /\ IF FreeFiles = {} THEN Goto(p, full) /\ UNCHANGED <<ref, reg>>
     ELSE /\ ref' = [ref EXCEPT ![Min(FreeFiles)] = 1]
          /\ reg' = [reg EXCEPT ![p] = Min(FreeFiles)]
          /\ Goto(p, ok)
  /\ UNCHANGED <<what, ends, iref, ofile, cwd, state, ff, np, fd, ret, panicked>>

\* fileclose(f0), to return to label x.
CallClose(p, x) == Goto(p, "fileclose") /\ ret' = [ret EXCEPT ![p] = x]
Return(p) == Goto(p, ret[p]) /\ ret' = [ret EXCEPT ![p] = "user"]

\* f->type = FD_NONE, and one that is left out.
Remembered(f) == what[f]
Forgotten(f) == None

\* The file of f0 loses a reference; the last one frees it, and what it
\* referred to is let go after the lock's release.
Fileclose(p) ==
  LET f == f0[p]
  IN  /\ At(p, "fileclose")
      /\ panicked' = IF ref[f] < 1 THEN "fileclose" ELSE panicked
      /\ ref' = [ref EXCEPT ![f] = IF @ < 1 THEN 0 ELSE @ - 1]
      /\ IF ref[f] > 1
         THEN Return(p) /\ UNCHANGED <<what, ff>>
         ELSE /\ ff' = [ff EXCEPT ![p] = what[f]]
              /\ what' = [what EXCEPT ![f] = Forgotten(f)]
              /\ Goto(p, "drop") /\ UNCHANGED ret
      /\ f0' = [f0 EXCEPT ![p] = 0]
      /\ UNCHANGED <<ends, iref, ofile, cwd, state, f1, np, fd>>

\* pipeclose or iput, with the file that fileclose copied.
Drop(p) ==
  /\ At(p, "drop")
  /\ ends' = IF ff[p].type = "PIPE"
             THEN [ends EXCEPT ![ff[p].pipe] = @ \ {ff[p].end}] ELSE ends
  /\ iref' = IF ff[p].type = "INODE" THEN iref - 1 ELSE iref
  /\ ff' = [ff EXCEPT ![p] = None]
  /\ Return(p)
  /\ UNCHANGED <<table, ofile, cwd, state, f0, f1, np, fd, panicked>>

-----------------------------------------------------------------------------
(* open: namei has a reference to the inode, then filealloc and fdalloc *)

SysOpen(p) ==
  /\ At(p, "user") /\ iref < MaxIref /\ iref' = iref + 1 /\ Goto(p, "open")
  /\ UNCHANGED <<table, ends, ofile, cwd, state, local, panicked>>

OpenFilealloc(p) == Filealloc(p, "open", f0, "fdalloc", "openbad") /\ UNCHANGED f1

OpenFdalloc(p) ==
  /\ At(p, "fdalloc")
  /\ IF FreeFds(p) = {} THEN CallClose(p, "openbad") /\ UNCHANGED ofile
     ELSE /\ ofile' = [ofile EXCEPT ![p][Min(FreeFds(p))] = f0[p]]
          /\ Goto(p, "openset") /\ UNCHANGED ret
  /\ UNCHANGED <<table, ends, iref, cwd, state, regs, panicked>>

OpenSet(p) ==
  /\ At(p, "openset")
  /\ what' = [what EXCEPT ![f0[p]] = AnInode]
  /\ f0' = [f0 EXCEPT ![p] = 0]
  /\ Goto(p, "user")
  /\ UNCHANGED <<ref, ends, iref, ofile, cwd, state, f1, ff, np, fd, ret, panicked>>

\* iunlockput on open's error path.
OpenBad(p) ==
  /\ At(p, "openbad") /\ iref' = iref - 1 /\ Goto(p, "user")
  /\ UNCHANGED <<table, ends, ofile, cwd, state, local, panicked>>

-----------------------------------------------------------------------------
(* dup and close *)

\* argfd and fdalloc; the count follows in filedup.
SysDup(p, i) ==
  /\ At(p, "user") /\ ofile[p][i] # 0 /\ FreeFds(p) # {}
  /\ ofile' = [ofile EXCEPT ![p][Min(FreeFds(p))] = ofile[p][i]]
  /\ f0' = [f0 EXCEPT ![p] = ofile[p][i]]
  /\ Goto(p, "filedup")
  /\ UNCHANGED <<table, ends, iref, cwd, state, f1, ff, np, fd, ret, panicked>>

\* f->ref++, and one that is left out.
NotCounted(f) == ref
Counted(f) == [ref EXCEPT ![f] = @ + 1]

Filedup(p) ==
  /\ At(p, "filedup")
  /\ panicked' = IF ref[f0[p]] < 1 THEN "filedup" ELSE panicked
  /\ ref' = Counted(f0[p])
  /\ f0' = [f0 EXCEPT ![p] = 0]
  /\ Goto(p, "user")
  /\ UNCHANGED <<what, ends, iref, ofile, cwd, state, f1, ff, np, fd, ret>>

SysClose(p, i) ==
  /\ At(p, "user") /\ ofile[p][i] # 0
  /\ f0' = [f0 EXCEPT ![p] = ofile[p][i]]
  /\ ofile' = [ofile EXCEPT ![p][i] = 0]
  /\ CallClose(p, "user")
  /\ UNCHANGED <<table, ends, iref, cwd, state, f1, ff, np, fd, panicked>>

-----------------------------------------------------------------------------
(* pipe: two files, a page, two descriptors; each failure gives back what  *)
(* the earlier steps took                                                  *)

SysPipe(p) ==
  /\ At(p, "user") /\ Goto(p, "pipe0")
  /\ UNCHANGED <<table, ends, iref, ofile, cwd, state, local, panicked>>

PipeFile0(p) == Filealloc(p, "pipe0", f0, "pipe1", "user") /\ UNCHANGED f1

PipeFile1(p) == Filealloc(p, "pipe1", f1, "pipepage", "pipebad") /\ UNCHANGED f0

PipePage(p) ==
  /\ At(p, "pipepage")
  /\ \/ Goto(p, "pipebad") /\ UNCHANGED <<ends, what>>
     \/ \E d \in Pipes :
          /\ ends[d] = {}
          /\ ends' = [ends EXCEPT ![d] = {"read", "write"}]
          /\ what' = [what EXCEPT ![f0[p]] = PipeEnd(d, "read"),
                                  ![f1[p]] = PipeEnd(d, "write")]
          /\ Goto(p, "pipefds")
  /\ UNCHANGED <<ref, iref, ofile, cwd, state, local, panicked>>

PipeFds(p) ==
  LET r == Min(FreeFds(p))
      w == Min(FreeFds(p) \ {r})
  IN  /\ At(p, "pipefds")
      /\ IF Cardinality(FreeFds(p)) < 2
         THEN Goto(p, "pipebad") /\ UNCHANGED <<ofile, f0, f1>>
         ELSE /\ ofile' = [ofile EXCEPT ![p][r] = f0[p], ![p][w] = f1[p]]
              /\ f0' = [f0 EXCEPT ![p] = 0]
              /\ f1' = [f1 EXCEPT ![p] = 0]
              /\ Goto(p, "user")
      /\ UNCHANGED <<table, ends, iref, cwd, state, ff, np, fd, ret, panicked>>

\* fileclose(f0), then fileclose(f1) if there is an f1.
PipeBad(p) ==
  /\ At(p, "pipebad")
  /\ CallClose(p, IF f1[p] = 0 THEN "user" ELSE "second")
  /\ UNCHANGED <<table, ends, iref, ofile, cwd, state, regs, panicked>>

PipeBadSecond(p) ==
  /\ At(p, "second")
  /\ f0' = [f0 EXCEPT ![p] = f1[p]]
  /\ f1' = [f1 EXCEPT ![p] = 0]
  /\ CallClose(p, "user")
  /\ UNCHANGED <<table, ends, iref, ofile, cwd, state, ff, np, fd, panicked>>

-----------------------------------------------------------------------------
(* fork and exit *)

SysFork(p, q) ==
  /\ At(p, "user") /\ state[q] = "unused"
  /\ state' = [state EXCEPT ![q] = "embryo"]
  /\ np' = [np EXCEPT ![p] = q]
  /\ fd' = [fd EXCEPT ![p] = 1]
  /\ Goto(p, "fork")
  /\ UNCHANGED <<table, ends, iref, ofile, cwd, f0, f1, ff, ret, panicked>>

\* filedup for the next open descriptor.
ForkFile(p) ==
  LET i == Min(OpenFrom(p, fd[p]))
      f == ofile[p][i]
  IN  /\ At(p, "fork") /\ OpenFrom(p, fd[p]) # {}
      /\ panicked' = IF ref[f] < 1 THEN "filedup" ELSE panicked
      /\ ref' = Counted(f)
      /\ ofile' = [ofile EXCEPT ![np[p]][i] = f]
      /\ fd' = [fd EXCEPT ![p] = i + 1]
      /\ UNCHANGED <<what, ends, iref, cwd, state, pc, f0, f1, ff, np, ret>>

ForkRun(p) ==
  /\ At(p, "fork") /\ OpenFrom(p, fd[p]) = {}
  /\ iref' = iref + 1
  /\ cwd' = [cwd EXCEPT ![np[p]] = 1]
  /\ state' = [state EXCEPT ![np[p]] = "run"]
  /\ np' = [np EXCEPT ![p] = 0]
  /\ fd' = [fd EXCEPT ![p] = 0]
  /\ Goto(p, "user")
  /\ UNCHANGED <<table, ends, ofile, f0, f1, ff, ret, panicked>>

EnterExit(p) ==
  /\ Goto(p, "exit")
  /\ f0' = [f0 EXCEPT ![p] = 0]
  /\ f1' = [f1 EXCEPT ![p] = 0]
  /\ ff' = [ff EXCEPT ![p] = None]
  /\ np' = [np EXCEPT ![p] = 0]
  /\ fd' = [fd EXCEPT ![p] = 1]
  /\ ret' = [ret EXCEPT ![p] = "user"]
  /\ UNCHANGED <<table, ends, iref, ofile, cwd, state, panicked>>

\* exit, or a trap of a killed process at user level.
SysExit(p) == At(p, "user") /\ p # initproc /\ EnterExit(p) /\ UNCHANGED exits

\* do_timer interrupts a killed process in the kernel.
TimerExit(p) ==
  /\ panicked = "no" /\ state[p] = "run" /\ p # initproc
  /\ exits < MaxExits /\ exits' = exits + 1
  /\ EnterExit(p)

ExitFile(p) ==
  LET i == Min(OpenFrom(p, fd[p]))
  IN  /\ At(p, "exit") /\ OpenFrom(p, fd[p]) # {}
      /\ f0' = [f0 EXCEPT ![p] = ofile[p][i]]
      /\ fd' = [fd EXCEPT ![p] = i]
      /\ CallClose(p, "exitclear")
      /\ UNCHANGED <<table, ends, iref, ofile, cwd, state, f1, ff, np, panicked>>

ExitClear(p) ==
  /\ At(p, "exitclear")
  /\ ofile' = [ofile EXCEPT ![p][fd[p]] = 0]
  /\ Goto(p, "exit")
  /\ UNCHANGED <<table, ends, iref, cwd, state, local, panicked>>

\* iput(proc->cwd), proc->cwd = 0 and the end of exit under ptable.lock; an
\* iput(0) reads through the null pointer, which stops this model.
ExitIput(p) ==
  /\ At(p, "exit") /\ OpenFrom(p, fd[p]) = {}
  /\ panicked' = IF cwd[p] = 0 THEN "iput" ELSE panicked
  /\ iref' = IF cwd[p] = 0 THEN iref ELSE iref - 1
  /\ Goto(p, "exitcwd")
  /\ UNCHANGED <<table, ends, ofile, cwd, state, local>>

ExitCwd(p) ==
  /\ At(p, "exitcwd")
  /\ cwd' = [cwd EXCEPT ![p] = 0]
  /\ Goto(p, "exitsched")
  /\ UNCHANGED <<table, ends, iref, ofile, state, local, panicked>>

\* ZOMBIE; wait in the parent frees the slot and looks at none of the above.
ExitSched(p) ==
  /\ At(p, "exitsched")
  /\ state' = [state EXCEPT ![p] = "unused"]
  /\ Goto(p, "user")
  /\ fd' = [fd EXCEPT ![p] = 0]
  /\ ret' = [ret EXCEPT ![p] = "user"]
  /\ UNCHANGED <<table, ends, iref, ofile, cwd, f0, f1, ff, np, panicked>>

\* init has one inode reference, its working directory (userinit).
Init ==
  /\ ref = [f \in Files |-> 0]
  /\ what = [f \in Files |-> None]
  /\ ends = [d \in Pipes |-> {}]
  /\ iref = 1
  /\ ofile = [p \in Procs |-> [i \in Fds |-> 0]]
  /\ cwd = [p \in Procs |-> IF p = initproc THEN 1 ELSE 0]
  /\ state = [p \in Procs |-> IF p = initproc THEN "run" ELSE "unused"]
  /\ pc = [p \in Procs |-> "user"]
  /\ f0 = [p \in Procs |-> 0] /\ f1 = [p \in Procs |-> 0]
  /\ ff = [p \in Procs |-> None]
  /\ np = [p \in Procs |-> 0] /\ fd = [p \in Procs |-> 0]
  /\ ret = [p \in Procs |-> "user"]
  /\ panicked = "no"
  /\ exits = 0

Call(p) ==
  \/ SysOpen(p) \/ OpenFilealloc(p) \/ OpenFdalloc(p) \/ OpenSet(p) \/ OpenBad(p)
  \/ \E i \in Fds : SysDup(p, i) \/ SysClose(p, i)
  \/ Filedup(p) \/ Fileclose(p) \/ Drop(p)
  \/ SysPipe(p) \/ PipeFile0(p) \/ PipeFile1(p) \/ PipePage(p) \/ PipeFds(p)
  \/ PipeBad(p) \/ PipeBadSecond(p)
  \/ \E q \in Procs : SysFork(p, q)
  \/ ForkFile(p) \/ ForkRun(p)
  \/ ExitFile(p) \/ ExitClear(p) \/ ExitIput(p) \/ ExitCwd(p) \/ ExitSched(p)

Next ==
  \E p \in Procs :
    \/ Call(p) /\ UNCHANGED exits
    \/ SysExit(p)
    \/ TimerExit(p)

Spec == Init /\ [][Next]_vars

-----------------------------------------------------------------------------
(* Safety *)

TypeOK ==
  /\ ref \in [Files -> Nat]
  /\ \A f \in Files : what[f] \in {None, AnInode}
                        \cup {PipeEnd(d, e) : d \in Pipes, e \in {"read", "write"}}
  /\ ends \in [Pipes -> SUBSET {"read", "write"}]
  /\ exits = 0 => iref \in Nat
  /\ ofile \in [Procs -> [Fds -> Files \cup {0}]]
  /\ cwd \in [Procs -> 0 .. 1]
  /\ state \in [Procs -> {"unused", "embryo", "run"}]
  /\ panicked \in {"no", "fileclose", "filedup", "iput"}
  /\ f0 \in [Procs -> Files \cup {0}] /\ f1 \in [Procs -> Files \cup {0}]
  /\ np \in [Procs -> Procs \cup {0}] /\ fd \in [Procs -> 0 .. NOFILE + 1]

\* Descriptors that hold a counted reference to f: not the one dup is about
\* to count, nor the one exit has already given back.
Uncounted(p) ==
  \/ pc[p] = "filedup"
  \/ pc[p] = "exitclear"
  \/ pc[p] = "drop" /\ ret[p] = "exitclear"

Descriptors(f) == {x \in Procs \X Fds : ofile[x[1]][x[2]] = f}

UncountedBy(f) ==
  {p \in Procs : /\ Uncounted(p)
                 /\ IF pc[p] = "filedup" THEN f0[p] = f ELSE ofile[p][fd[p]] = f}

\* References in a call's registers that no descriptor holds.
InHand(f) ==
  {p \in Procs : f0[p] = f /\ (\/ pc[p] \in {"fdalloc", "pipe1", "pipepage", "pipefds", "pipebad"}
                               \/ pc[p] = "fileclose" /\ ret[p] # "exitclear")}

InOtherHand(f) == {p \in Procs : f1[p] = f}

\* f->ref is the number of references there are, at every moment of every
\* call of every process; a file is free exactly when nothing refers to it.
RefCountsReferences ==
  exits = 0 => \A f \in Files :
    ref[f] + Cardinality(UncountedBy(f))
      = Cardinality(Descriptors(f)) + Cardinality(InHand(f)) + Cardinality(InOtherHand(f))

\* A file that is free has no type left, so that a failing open or pipe
\* that closes a fresh file closes nothing else with it.
FreshFilesAreEmpty ==
  exits = 0 => \A f \in Files : ref[f] = 0 => what[f] = None

\* Inode references: open files, fileclose's copies, opens in progress and
\* working directories, none lost and none dropped twice.
InodeRefsMatch ==
  exits = 0 => iref = Cardinality({f \in Files : what[f] = AnInode})
         + Cardinality({p \in Procs : ff[p] = AnInode})
         + Cardinality({p \in Procs : \/ pc[p] \in {"open", "fdalloc", "openset", "openbad"}
                                      \/ ret[p] = "openbad" /\ pc[p] \in {"fileclose", "drop"}})
         + Cardinality({p \in Procs : cwd[p] = 1 /\ pc[p] # "exitcwd"})

\* An end of a pipe is open as long as one file, or fileclose's copy of it,
\* refers to it, and there is only one such file: pipeclose runs once for
\* each end, and the page is freed when the last file is.
PipeEndsMatch ==
  exits = 0 => \A d \in Pipes, e \in {"read", "write"} :
    Cardinality({f \in Files : what[f] = PipeEnd(d, e)})
      + Cardinality({p \in Procs : ff[p] = PipeEnd(d, e)})
      = (IF e \in ends[d] THEN 1 ELSE 0)

\* Even when killed processes exit in the middle of anything, pipeclose is
\* not called for an end that a file still refers to: fileclose forgets the
\* pipe in the section that copies it.
PipeOutlivesFiles ==
  \A f \in Files :
    what[f].type = "PIPE" => what[f].end \in ends[what[f].pipe]

=============================================================================
