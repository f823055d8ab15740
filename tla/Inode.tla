------------------------------- MODULE Inode -------------------------------
(***************************************************************************)
(* Inodes and directories: the inode cache and the path walk of fs.c, and  *)
(* the calls of sysfile.c that change the directory tree (open, mkdir,     *)
(* mknod, link, unlink, chdir), run by several processes.                  *)
(*                                                                         *)
(* A section under icache.lock is one step.  What a process does between   *)
(* ilock and iunlock of one inode is one step too, because everybody else  *)
(* who wants the inode sleeps; where it waits for a second inode, or puts  *)
(* one, with a first one locked, the step ends there and the first stays   *)
(* busy.  Blocks are read and written whole (BlockStore).                  *)
(*                                                                         *)
(* dinode is the inode on disk; ents[i] and dotdot[i] are the contents of  *)
(* directory i: its names, and its "..".  The element "." leads back to    *)
(* the same inode and is left out.                                         *)
(***************************************************************************)
EXTENDS Naturals, Sequences, FiniteSets, FiniteSetsExt, TLC

CONSTANTS Procs,
          NInodes,     \* sb.ninodes - 1: inode numbers 1 .. NInodes
          NINODE,      \* slots of the cache
          Names,
          Calls        \* the system calls the processes make

ROOTINO == 1
Inums == 1 .. NInodes
Slots == 1 .. NINODE

ASSUME InodeAssumption ==
  /\ NInodes \in Nat \ {0} /\ NINODE \in Nat \ {0}
  /\ \A c \in Calls : c.op \in {"open", "create", "mkdir", "mknod", "unlink", "link", "chdir"}

VARIABLES dinode, ents, dotdot,
          ic,          \* ic[s]: the cached inode in slot s
          file, cwd,   \* file[p]: slot of the inode p has open, or 0
          loc,         \* loc[p]: where p is in its call, and its variables
          panicked

disk == <<dinode, ents, dotdot>>
vars == <<disk, ic, file, cwd, loc, panicked>>

Free == [type |-> "free", nlink |-> 0]
Idle == [pc |-> "idle", op |-> "none", rest |-> <<>>, last |-> <<>>,
         ip |-> 0, dp |-> 0, src |-> 0, put |-> 0, ret |-> "idle"]

At(p, l) == panicked = "no" /\ loc[p].pc = l
Set(p, r) == loc' = [loc EXCEPT ![p] = r @@ @]
Panic(s) == panicked' = s /\ UNCHANGED <<disk, ic, file, cwd, loc>>

-----------------------------------------------------------------------------
(* The cache *)

\* The slot iget returns for inode i, in cache c: the one that caches it, or
\* the first empty one; 0 if there is none.
IgetSlot(c, i) ==
  LET cached == {s \in Slots : c[s].ref > 0 /\ c[s].inum = i}
      empty  == {s \in Slots : c[s].ref = 0}
  IN  IF cached # {} THEN Min(cached) ELSE IF empty # {} THEN Min(empty) ELSE 0

Iget(c, i) ==
  LET s == IgetSlot(c, i)
  IN  [c EXCEPT ![s] =
         IF @.ref > 0 THEN [@ EXCEPT !.ref = @ + 1]
         ELSE [inum |-> i, ref |-> 1, busy |-> FALSE, valid |-> FALSE, copy |-> Free]]

\* ilock once I_BUSY is clear: read the inode unless I_VALID is set.
Loaded(s) ==
  IF ic[s].valid THEN ic[s]
  ELSE [ic[s] EXCEPT !.valid = TRUE, !.copy = dinode[ic[s].inum]]

Ilock(s, c) == [c EXCEPT ![s] = [Loaded(s) EXCEPT !.busy = TRUE]]
Iunlock(s, c) == [c EXCEPT ![s].busy = FALSE]
Touch(s, c) == [c EXCEPT ![s] = Loaded(s)]      \* ilock ... iunlock

NoType(s) == ~ic[s].busy /\ Loaded(s).copy.type = "free" /\ Panic("ilock: no type")
CanLock(s) == ~ic[s].busy /\ Loaded(s).copy.type # "free"

\* Change the cached inode of slot s and iupdate.
Update(s, c, d) ==
  /\ ic' = [c EXCEPT ![s].copy = d]
  /\ dinode' = [dinode EXCEPT ![c[s].inum] = d]

Links(s, k) == [Loaded(s).copy EXCEPT !.nlink = k]

\* ref--.  Nothing but ref is read of a slot without references until iget
\* overwrites it, so what it still holds is forgotten here.
Empty == [inum |-> 0, ref |-> 0, busy |-> FALSE, valid |-> FALSE, copy |-> Free]
Unref(s, c) == [c EXCEPT ![s] = IF @.ref = 1 THEN Empty ELSE [@ EXCEPT !.ref = @ - 1]]

\* iput(s), then continue at ret.
CallPut(s, ret) == [pc |-> "iput", put |-> s, ret |-> ret]

\* A call that fails puts the inode, or forgets to.
KeepAndFail(s) == Idle
PutAndFail(s) == CallPut(s, "idle") @@ [ip |-> 0]

Return(p) ==
  IF loc[p].ret = "idle" THEN loc' = [loc EXCEPT ![p] = Idle]
  ELSE Set(p, [pc |-> loc[p].ret, put |-> 0, ret |-> "idle"])

\* Whether iput truncates and frees; a test that does not look at the count
\* of references, and one that never holds.
AnyRef(s) == ic[s].valid /\ ic[s].copy.nlink = 0 /\ ~ic[s].busy
Never(s) == FALSE
LastRef(s) == ic[s].ref = 1 /\ ic[s].valid /\ ic[s].copy.nlink = 0

Iput(p) ==
  LET s == loc[p].put
      last == LastRef(s)
  IN  /\ At(p, "iput")
      /\ \/ last /\ ic[s].busy /\ Panic("iput busy")
         \/ /\ last /\ ~ic[s].busy
            /\ ic' = [ic EXCEPT ![s].busy = TRUE]
            /\ Set(p, [pc |-> "ifree"])
            /\ UNCHANGED <<disk, file, cwd, panicked>>
         \/ /\ ~last
            /\ ic' = Unref(s, ic)
            /\ Return(p)
            /\ UNCHANGED <<disk, file, cwd, panicked>>

\* itrunc; ip->type = 0; iupdate.
IputFree(p) ==
  LET s == loc[p].put
      i == ic[s].inum
  IN  /\ At(p, "ifree")
      /\ Update(s, ic, Free)
      /\ ents' = [ents EXCEPT ![i] = [n \in Names |-> 0]]
      /\ dotdot' = [dotdot EXCEPT ![i] = 0]
      /\ Set(p, [pc |-> "ifreed"])
      /\ UNCHANGED <<file, cwd, panicked>>

FlagsCleared(s) == [ic EXCEPT ![s].busy = FALSE, ![s].valid = FALSE]

\* flags = 0, wakeup, ref--: by now ialloc may have given the inode away.
IputDone(p) ==
  LET s == loc[p].put
  IN  /\ At(p, "ifreed")
      /\ ic' = Unref(s, FlagsCleared(s))
      /\ Return(p)
      /\ UNCHANGED <<disk, file, cwd, panicked>>

-----------------------------------------------------------------------------
(* namex *)

ForParent(op) == op \in {"create", "mkdir", "mknod", "unlink", "link2"}

\* The start of a walk along path, from the root or from proc->cwd.
Walk(p, path, r) ==
  LET s == IF path.abs THEN IgetSlot(ic, ROOTINO) ELSE cwd[p]
  IN  \/ s = 0 /\ Panic("iget: no inodes")
      \/ /\ s # 0
         /\ ic' = IF path.abs THEN Iget(ic, ROOTINO) ELSE [ic EXCEPT ![s].ref = @ + 1]
         /\ Set(p, [pc |-> "namex", ip |-> s, rest |-> path.elems] @@ r)
         /\ UNCHANGED <<disk, file, cwd, panicked>>

Start(p, c) ==
  /\ At(p, "idle")
  /\ c.op \in {"open", "create"} => file[p] = 0
  /\ Walk(p, c.path, [op |-> c.op, last |-> c.path2])

Lookup(i, n) == IF n = ".." THEN dotdot[i] ELSE ents[i][n]

\* Where a failing namex returns to.
Fail(p) == IF loc[p].op = "link2" THEN "linkbad" ELSE "idle"

\* One turn of namex's loop.
Namex(p) ==
  LET s == loc[p].ip
      n == Head(loc[p].rest)
      i == ic[s].inum
      j == Lookup(i, n)
      c == Touch(s, ic)
      t == IgetSlot(c, j)
      parent == ForParent(loc[p].op) /\ Len(loc[p].rest) = 1
  IN  /\ At(p, "namex") /\ loc[p].rest # <<>>
      /\ \/ NoType(s)
         \/ /\ CanLock(s)
            /\ Loaded(s).copy.type # "dir" \/ (~parent /\ j = 0)
            /\ ic' = c
            /\ Set(p, CallPut(s, Fail(p)) @@ [ip |-> 0])
            /\ UNCHANGED <<disk, file, cwd, panicked>>
         \/ /\ CanLock(s) /\ Loaded(s).copy.type = "dir" /\ parent
            /\ ic' = c
            /\ Set(p, [pc |-> loc[p].op, dp |-> s, ip |-> 0])
            /\ UNCHANGED <<disk, file, cwd, panicked>>
         \/ /\ CanLock(s) /\ Loaded(s).copy.type = "dir" /\ ~parent /\ j # 0
            /\ t = 0 /\ Panic("iget: no inodes")
         \/ /\ CanLock(s) /\ Loaded(s).copy.type = "dir" /\ ~parent /\ j # 0
            /\ t # 0
            /\ ic' = Iget(c, j)
            /\ Set(p, CallPut(s, "namex") @@ [ip |-> t, rest |-> Tail(loc[p].rest)])
            /\ UNCHANGED <<disk, file, cwd, panicked>>

\* The path is used up: namei returns the inode, nameiparent fails.
NamexEnd(p) ==
  /\ At(p, "namex") /\ loc[p].rest = <<>>
  /\ Set(p, IF ForParent(loc[p].op) THEN CallPut(loc[p].ip, Fail(p)) @@ [ip |-> 0]
            ELSE [pc |-> loc[p].op])
  /\ UNCHANGED <<disk, ic, file, cwd, panicked>>

-----------------------------------------------------------------------------
(* sys_open without O_CREATE, sys_chdir, sys_close *)

\* open reaches f->ip = ip, or finds no file or descriptor.
Open(p) ==
  LET s == loc[p].ip
  IN  /\ At(p, "open")
      /\ \/ NoType(s)
         \/ /\ CanLock(s)
            /\ ic' = Touch(s, ic)
            /\ \/ file' = [file EXCEPT ![p] = s] /\ loc' = [loc EXCEPT ![p] = Idle]
               \/ UNCHANGED file /\ Set(p, PutAndFail(s))
            /\ UNCHANGED <<disk, cwd, panicked>>

\* fileclose of the last reference.
Close(p) ==
  /\ At(p, "idle") /\ file[p] # 0
  /\ file' = [file EXCEPT ![p] = 0]
  /\ Set(p, CallPut(file[p], "idle"))
  /\ UNCHANGED <<disk, ic, cwd, panicked>>

Chdir(p) ==
  LET s == loc[p].ip
  IN  /\ At(p, "chdir")
      /\ \/ NoType(s)
         \/ /\ CanLock(s)
            /\ ic' = Touch(s, ic)
            /\ Set(p, IF Loaded(s).copy.type = "dir" THEN CallPut(cwd[p], "chdir2")
                      ELSE PutAndFail(s))
            /\ UNCHANGED <<disk, file, cwd, panicked>>

ChdirSet(p) ==
  /\ At(p, "chdir2")
  /\ cwd' = [cwd EXCEPT ![p] = loc[p].ip]
  /\ loc' = [loc EXCEPT ![p] = Idle]
  /\ UNCHANGED <<disk, ic, file, panicked>>

-----------------------------------------------------------------------------
(* create: sys_open with O_CREATE, sys_mkdir, sys_mknod *)

NewType(op) == [create |-> "file", mkdir |-> "dir", mknod |-> "dev"][op]

\* Lock the parent and look the name up.  If it is new, ialloc marks the
\* first free inode on disk and igets it; the parent stays locked.
Create(p) ==
  LET s == loc[p].dp
      j == Lookup(ic[s].inum, Head(loc[p].rest))
      free == {i \in Inums : dinode[i].type = "free"}
      i == Min(free)
      found == Touch(s, ic)
      locked == Ilock(s, ic)
      type == NewType(loc[p].op)
  IN  /\ At(p, loc[p].op) /\ loc[p].op \in {"create", "mkdir", "mknod"}
      /\ \/ NoType(s)
         \/ CanLock(s) /\ j # 0 /\ IgetSlot(found, j) = 0 /\ Panic("iget: no inodes")
         \/ /\ CanLock(s) /\ j # 0 /\ IgetSlot(found, j) # 0
            /\ ic' = Iget(found, j)
            /\ Set(p, CallPut(s, "exists") @@ [ip |-> IgetSlot(found, j), dp |-> 0])
            /\ UNCHANGED <<disk, file, cwd, panicked>>
         \/ CanLock(s) /\ j = 0 /\ free = {} /\ Panic("ialloc: no inodes")
         \/ /\ CanLock(s) /\ j = 0 /\ free # {} /\ IgetSlot(locked, i) = 0
            /\ Panic("iget: no inodes")
         \/ /\ CanLock(s) /\ j = 0 /\ free # {} /\ IgetSlot(locked, i) # 0
            /\ dinode' = [dinode EXCEPT ![i] = [type |-> type, nlink |-> 0]]
            /\ ic' = Iget(locked, i)
            /\ Set(p, [pc |-> "create2", ip |-> IgetSlot(locked, i)])
            /\ UNCHANGED <<ents, dotdot, file, cwd, panicked>>

\* The name exists: only an open of a file gets it.
CreateExists(p) ==
  LET s == loc[p].ip
      ok == loc[p].op = "create" /\ Loaded(s).copy.type = "file"
  IN  /\ At(p, "exists")
      /\ \/ NoType(s)
         \/ /\ CanLock(s)
            /\ ic' = IF ok THEN Ilock(s, ic) ELSE Touch(s, ic)
            /\ Set(p, IF ok THEN [pc |-> "created"] ELSE PutAndFail(s))
            /\ UNCHANGED <<disk, file, cwd, panicked>>

\* A new directory's ".." is a link to its parent, or not counted.
DotdotUncounted(op, d) == d
DotdotCounted(op, d) == IF op = "mkdir" THEN [d EXCEPT !.nlink = @ + 1] ELSE d

\* ilock the new inode, with the parent locked; fill it in, link it and
\* iunlockput the parent.
CreateFill(p) ==
  LET s == loc[p].ip
      d == loc[p].dp
      i == ic[s].inum
      dd == DotdotCounted(loc[p].op, ic[d].copy)
  IN  /\ At(p, "create2")
      /\ \/ NoType(s)
         \/ /\ CanLock(s)
            /\ ic' = Iunlock(d, [Ilock(s, ic) EXCEPT ![s].copy = Links(s, 1), ![d].copy = dd])
            /\ dinode' = [dinode EXCEPT ![i] = Links(s, 1), ![ic[d].inum] = dd]
            /\ dotdot' = IF loc[p].op = "mkdir" THEN [dotdot EXCEPT ![i] = ic[d].inum]
                         ELSE dotdot
            /\ ents' = [ents EXCEPT ![ic[d].inum][Head(loc[p].rest)] = i]
            /\ Set(p, CallPut(d, "created") @@ [dp |-> 0])
            /\ UNCHANGED <<file, cwd, panicked>>

\* create has returned the inode locked: open keeps it, the others put it.
Created(p) ==
  LET s == loc[p].ip
  IN  /\ At(p, "created")
      /\ ic' = Iunlock(s, ic)
      /\ \/ /\ loc[p].op = "create"
            /\ file' = [file EXCEPT ![p] = s]
            /\ loc' = [loc EXCEPT ![p] = Idle]
         \/ UNCHANGED file /\ Set(p, PutAndFail(s))
      /\ UNCHANGED <<disk, cwd, panicked>>

-----------------------------------------------------------------------------
(* sys_unlink *)

\* The names that unlink refuses ("." is no name here), and none at all.
NotRefused(n) == FALSE
Refused(n) == n = ".."

\* Lock the parent and look the name up; if found the parent stays locked.
Unlink(p) ==
  LET s == loc[p].dp
      n == Head(loc[p].rest)
      j == Lookup(ic[s].inum, n)
      locked == Ilock(s, ic)
  IN  /\ At(p, "unlink")
      /\ \/ NoType(s)
         \/ /\ CanLock(s) /\ (Refused(n) \/ j = 0)
            /\ ic' = Touch(s, ic)
            /\ Set(p, CallPut(s, "idle") @@ [dp |-> 0])
            /\ UNCHANGED <<disk, file, cwd, panicked>>
         \/ CanLock(s) /\ ~Refused(n) /\ j # 0 /\ IgetSlot(locked, j) = 0 /\ Panic("iget: no inodes")
         \/ /\ CanLock(s) /\ ~Refused(n) /\ j # 0 /\ IgetSlot(locked, j) # 0
            /\ ic' = Iget(locked, j)
            /\ Set(p, [pc |-> "unlink2", ip |-> IgetSlot(locked, j)])
            /\ UNCHANGED <<disk, file, cwd, panicked>>

IsDirEmpty(i) == \A n \in Names : ents[i][n] = 0

\* Lock the entry's inode too; erase the entry and iunlockput the parent.
UnlinkEntry(p) ==
  LET s == loc[p].ip
      d == loc[p].dp
      isdir == Loaded(s).copy.type = "dir"
      keep == isdir /\ ~IsDirEmpty(ic[s].inum)
      dd == IF isdir THEN [ic[d].copy EXCEPT !.nlink = @ - 1] ELSE ic[d].copy
  IN  /\ At(p, "unlink2")
      /\ \/ NoType(s)
         \/ CanLock(s) /\ Loaded(s).copy.nlink < 1 /\ Panic("unlink: nlink < 1")
         \/ /\ CanLock(s) /\ Loaded(s).copy.nlink >= 1 /\ keep
            /\ ic' = Touch(s, ic)
            /\ Set(p, CallPut(s, "unlockdp") @@ [ip |-> 0])
            /\ UNCHANGED <<disk, file, cwd, panicked>>
         \/ /\ CanLock(s) /\ Loaded(s).copy.nlink >= 1 /\ ~keep
            /\ ic' = Iunlock(d, [Ilock(s, ic) EXCEPT ![d].copy = dd])
            /\ dinode' = [dinode EXCEPT ![ic[d].inum] = dd]
            /\ ents' = [ents EXCEPT ![ic[d].inum][Head(loc[p].rest)] = 0]
            /\ Set(p, CallPut(d, "unlink3") @@ [dp |-> 0])
            /\ UNCHANGED <<dotdot, file, cwd, panicked>>

\* Drop the link, with the inode locked since UnlinkEntry, and iunlockput it.
UnlinkDrop(p) ==
  LET s == loc[p].ip
  IN  /\ At(p, "unlink3")
      /\ Update(s, Iunlock(s, ic), [ic[s].copy EXCEPT !.nlink = @ - 1])
      /\ Set(p, PutAndFail(s))
      /\ UNCHANGED <<ents, dotdot, file, cwd, panicked>>

\* iunlockput(dp) on a failing path of unlink or link.
UnlockDp(p) ==
  LET d == loc[p].dp
  IN  /\ At(p, "unlockdp")
      /\ ic' = Iunlock(d, ic)
      /\ Set(p, CallPut(d, Fail(p)) @@ [dp |-> 0])
      /\ UNCHANGED <<disk, file, cwd, panicked>>

-----------------------------------------------------------------------------
(* sys_link *)

\* Count the link before there is a name for it; then walk to the new name.
Link(p) ==
  LET s == loc[p].ip
  IN  /\ At(p, "link")
      /\ \/ NoType(s)
         \/ /\ CanLock(s) /\ Loaded(s).copy.type = "dir"
            /\ ic' = Touch(s, ic)
            /\ Set(p, PutAndFail(s))
            /\ UNCHANGED <<disk, file, cwd, panicked>>
         \/ /\ CanLock(s) /\ Loaded(s).copy.type # "dir"
            /\ Update(s, Touch(s, ic), Links(s, Loaded(s).copy.nlink + 1))
            /\ Set(p, [pc |-> "link1", ip |-> 0, src |-> s])
            /\ UNCHANGED <<ents, dotdot, file, cwd, panicked>>

LinkWalk(p) ==
  /\ At(p, "link1")
  /\ Walk(p, loc[p].last, [op |-> "link2"])

\* dirlink into the new parent, and iunlockput it; a name that exists is
\* looked up, put again and reported.
LinkEntry(p) ==
  LET s == loc[p].dp
      i == ic[s].inum
      n == Head(loc[p].rest)
      j == Lookup(i, n)
      locked == Ilock(s, ic)
  IN  /\ At(p, "link2")
      /\ \/ NoType(s)
         \/ CanLock(s) /\ j # 0 /\ IgetSlot(locked, j) = 0 /\ Panic("iget: no inodes")
         \/ /\ CanLock(s) /\ j # 0 /\ IgetSlot(locked, j) # 0
            /\ ic' = Iget(locked, j)
            /\ Set(p, CallPut(IgetSlot(locked, j), "unlockdp"))
            /\ UNCHANGED <<disk, file, cwd, panicked>>
         \/ /\ CanLock(s) /\ j = 0
            /\ ic' = Touch(s, ic)
            /\ ents' = [ents EXCEPT ![i][n] = ic[loc[p].src].inum]
            /\ Set(p, CallPut(s, "linkput") @@ [dp |-> 0])
            /\ UNCHANGED <<dinode, dotdot, file, cwd, panicked>>

LinkPut(p) ==
  /\ At(p, "linkput")
  /\ Set(p, CallPut(loc[p].src, "idle") @@ [src |-> 0])
  /\ UNCHANGED <<disk, ic, file, cwd, panicked>>

\* bad: take the link back.
LinkBad(p) ==
  LET s == loc[p].src
  IN  /\ At(p, "linkbad")
      /\ \/ NoType(s)
         \/ /\ CanLock(s)
            /\ Update(s, Touch(s, ic), Links(s, Loaded(s).copy.nlink - 1))
            /\ Set(p, CallPut(s, "idle") @@ [src |-> 0])
            /\ UNCHANGED <<ents, dotdot, file, cwd, panicked>>

-----------------------------------------------------------------------------
\* mkfs and userinit: a root directory that every process has as its cwd.
Init ==
  /\ dinode = [i \in Inums |-> IF i = ROOTINO THEN [type |-> "dir", nlink |-> 1] ELSE Free]
  /\ ents = [i \in Inums |-> [n \in Names |-> 0]]
  /\ dotdot = [i \in Inums |-> IF i = ROOTINO THEN ROOTINO ELSE 0]
  /\ ic = [s \in Slots |->
             IF s = 1 THEN [inum |-> ROOTINO, ref |-> Cardinality(Procs), busy |-> FALSE,
                            valid |-> FALSE, copy |-> Free]
             ELSE Empty]
  /\ file = [p \in Procs |-> 0] /\ cwd = [p \in Procs |-> 1]
  /\ loc = [p \in Procs |-> Idle]
  /\ panicked = "no"

PanicLoop == panicked # "no" /\ UNCHANGED vars

Step(p) ==
  \/ Namex(p) \/ NamexEnd(p) \/ Iput(p) \/ IputFree(p) \/ IputDone(p)
  \/ Open(p) \/ Chdir(p) \/ ChdirSet(p)
  \/ Create(p) \/ CreateExists(p) \/ CreateFill(p) \/ Created(p)
  \/ Unlink(p) \/ UnlinkEntry(p) \/ UnlinkDrop(p) \/ UnlockDp(p)
  \/ Link(p) \/ LinkWalk(p) \/ LinkEntry(p) \/ LinkPut(p) \/ LinkBad(p)

Next ==
  \/ \E p \in Procs : Step(p) \/ Close(p) \/ \E c \in Calls : Start(p, c)
  \/ PanicLoop

Spec == Init /\ [][Next]_vars
-----------------------------------------------------------------------------
(* Properties *)

Inode == [type : {"free", "file", "dir", "dev"}, nlink : Nat]

\* Types, and: only a cached inode is busy, valid or referenced.
TypeOK ==
  /\ dinode \in [Inums -> Inode]
  /\ ents \in [Inums -> [Names -> Inums \cup {0}]]
  /\ dotdot \in [Inums -> Inums \cup {0}]
  /\ ic \in [Slots -> [inum : Inums \cup {0}, ref : Nat, busy : BOOLEAN, valid : BOOLEAN,
                       copy : Inode]]
  /\ file \in [Procs -> Slots \cup {0}] /\ cwd \in [Procs -> Slots]
  /\ \A s \in Slots : ic[s].busy => ic[s].ref > 0

\* The pointers to slot s: open files, current directories, and the local
\* variables of calls in progress (chdir's old cwd is the one it is putting).
Pointers(s) ==
  LET holds(p, f) == loc[p][f] = s
      cwds == {p \in Procs : cwd[p] = s /\ "chdir2" \notin {loc[p].pc, loc[p].ret}}
  IN  Cardinality({p \in Procs : file[p] = s}) + Cardinality(cwds)
      + Cardinality({x \in Procs \X {"ip", "dp", "src", "put"} : holds(x[1], x[2])})

\* "ip->ref counts the number of pointer references to this cached inode":
\* no path of a call, failing ones included, loses or invents a reference.
RefsExact == panicked = "no" => \A s \in Slots : ic[s].ref = Pointers(s)

\* iget gives an inode one slot, so that I_BUSY excludes everybody: also when
\* ialloc hands out an inode whose last iput is still under way.
OneSlotPerInode ==
  \A s, t \in Slots : ic[s].ref > 0 /\ ic[t].ref > 0 /\ ic[s].inum = ic[t].inum => s = t

\* Whoever locks a valid inode finds the copy the disk has: iupdate wrote
\* back every change, and iput dropped the copy of the inode it freed.
CacheCurrent ==
  \A s \in Slots : ic[s].ref > 0 /\ ic[s].valid /\ ~ic[s].busy =>
                     ic[s].copy = dinode[ic[s].inum]

\* The names of inode j.
NamesOf(j) == {x \in Inums \X Names : ents[x[1]][x[2]] = j}

\* nlink covers the names and, for a directory, the subdirectories in it (and
\* mkfs's own count of the root), at every moment of every interleaving of
\* create, link and unlink: no inode is freed while a name leads to it.
LinksCovered ==
  \A j \in Inums :
    LET sub == {n \in Names : ents[j][n] # 0 /\ dinode[ents[j][n]].type = "dir"}
        root == {i \in {j} : i = ROOTINO}
    IN  dinode[j].nlink >= Cardinality(NamesOf(j)) + Cardinality(sub) + Cardinality(root)

\* An inode that has no link left and that no process holds has been freed.
NoLeak ==
  \A j \in Inums : dinode[j].type # "free" /\ dinode[j].nlink = 0 =>
                     \E s \in Slots : ic[s].ref > 0 /\ ic[s].inum = j

\* An open file keeps its inode, whatever is unlinked and created meanwhile:
\* no step frees it or puts another one in its slot.
OpenKeepsInode ==
  [][\A p \in Procs : file[p] # 0 /\ file'[p] = file[p] =>
       /\ ic'[file[p]].inum = ic[file[p]].inum
       /\ dinode'[ic[file[p]].inum].type = dinode[ic[file[p]].inum].type]_vars

\* The slot whose inode p locks in its next step, or 0.
Wanted(p) ==
  LET at(S) == loc[p].pc \in S
  IN  IF at({"open", "chdir", "exists", "create2", "unlink2", "link"}) THEN loc[p].ip
      ELSE IF at({"namex"}) /\ loc[p].rest # <<>> THEN loc[p].ip
      ELSE IF at({"create", "mkdir", "mknod", "unlink", "link2"}) THEN loc[p].dp
      ELSE IF at({"linkbad"}) THEN loc[p].src ELSE 0

\* The slots whose inodes p has locked.
Held(p) ==
  LET in(S) == loc[p].pc \in S \/ loc[p].ret \in S
  IN  {s \in Slots : \/ s = loc[p].dp /\ in({"create2", "unlink2", "unlockdp"})
                     \/ s = loc[p].ip /\ in({"created", "unlink3"})
                     \/ s = loc[p].put /\ loc[p].pc \in {"ifree", "ifreed"}}

\* No call waits for an inode that waits, in turn, for it: create and unlink
\* lock an entry under its directory, and nobody holds one on the way up.  And
\* an inode is busy for one call that has it locked, never for one that ended.
NoWaitCycle ==
  panicked = "no" =>
    /\ \A s \in Slots : Cardinality({p \in Procs : s \in Held(p)}) = IF ic[s].busy THEN 1 ELSE 0
    /\ \A S \in SUBSET Procs \ {{}} : \E p \in S : \A q \in S : Wanted(p) \notin Held(q)

=============================================================================
