----------------------------- MODULE FileBlocks -----------------------------
(***************************************************************************)
(* The contents of files: balloc, bfree, bmap, itrunc, readi, writei and   *)
(* dirlink of fs.c, on the image mkfs.c made, and fileread and filewrite   *)
(* of file.c with the offset that the users of an open file share.         *)
(*                                                                         *)
(* Each inode is being worked on by the one process that has it locked, so *)
(* an inode is also the name of that process; processes meet in the        *)
(* bitmap, in the blocks it hands from one file to another, in the root    *)
(* directory and in the offsets.  0 is the zero byte and "no block" (block *)
(* 0 holds no data).  The bitmap is one block, of which the disk uses the  *)
(* first Size bits.  bread, bwrite and brelse are atomic (BlockStore).     *)
(***************************************************************************)
EXTENDS Mkfs

CONSTANTS Files,       \* entries of the file table
          Programs,    \* what mkfs is given, one after the other
          Sources,     \* what programs write: sequences of positive values
          Counts       \* and how much they read

Inodes == 1 .. Ninodes

ASSUME BlocksAssumption ==
  /\ Size <= BPB /\ Sources \subseteq Seq(Nat \ {0}) /\ Counts \subseteq Nat
  /\ \A progs \in Programs : Len(progs) < Ninodes

VARIABLES bitmap,      \* the blocks marked in use on disk
          blk,         \* blk[b]: the cells of block b
          ino,         \* ino[i]: ip->addrs and ip->size in memory
          dino,        \* dino[i]: the same on disk
          job,         \* job[i]: the call at work on i
          open, off,   \* open[f]: the inode of file f, or 0; f->off
          abs,         \* history: what has been written to i, in order
          moved,       \* history: what was read and written through f
          shared,      \* history: files that others have changed the inode of
          panicked

fds == <<open, off, moved, shared>>
vars == <<bitmap, blk, ino, dino, job, abs, fds, panicked>>

NoJob == [pc |-> "idle", f |-> 0, off |-> 0, src |-> <<>>, n |-> 0, tot |-> 0, todo |-> <<>>]

Working(i, l) == panicked = "no" /\ job[i].pc = l
Panic(s) == panicked' = s /\ UNCHANGED <<bitmap, blk, ino, dino, job, abs, fds>>
Start(i, r) == job' = [job EXCEPT ![i] = r]

-----------------------------------------------------------------------------
(* The bitmap *)

Clear == Blocks \ bitmap

\* balloc marks the first clear bit of the bitmap.  The loop over the bits of
\* a bitmap block does not stop at sb.size: the bit may be past the disk.
Balloc == Min(Clear)

Marked(b) == bitmap \cup {b}

\* The ends of the program that balloc can bring about: its panic, and a
\* block past the end of the disk, where idestart copies other memory.
BallocFails ==
  \/ Clear = {} /\ Panic("balloc: out of blocks")
  \/ Clear # {} /\ Balloc >= Size /\ Panic("past the disk")
BallocOk == Clear # {} /\ Balloc < Size

-----------------------------------------------------------------------------
(* readi, writei and the bmap under them *)

\* n after readi's and writei's clamps.
ReadClamp(i, o, n) == IF o + n > ino[i].size THEN ino[i].size - o ELSE n
Clamp(o, n) == IF o + n > MaxBytes THEN MaxBytes - o ELSE n

\* The calls, up to their loops, for file f or (f = 0) for a directory.
Readi(i, f, l, o, n) ==
  Start(i, [NoJob EXCEPT !.pc = l, !.f = f, !.off = o, !.n = ReadClamp(i, o, n)])
Writei(i, f, o, src) ==
  Start(i, [NoJob EXCEPT !.pc = "write", !.f = f, !.off = o, !.n = Clamp(o, Len(src)),
                         !.src = SubSeq(src, 1, Clamp(o, Len(src)))])

\* The block the loop is at, and one where off does not advance.
HereStuck(i) == job[i].off \div BSIZE
Here(i) == (job[i].off + job[i].tot) \div BSIZE
Looping(i) ==
  panicked = "no" /\ job[i].pc \in {"read", "scan", "write"} /\ job[i].tot < job[i].n

\* bmap allocates for a direct address, for the indirect block, or for an
\* entry of it; what is stored there, and the store left out.
Place(i) ==
  IF Here(i) < NDIRECT THEN Here(i) ELSE IF ino[i].addrs[NDIRECT] = 0 THEN NDIRECT ELSE NDIRECT + 1
Unstored(b, k, v) == blk
Stored(b, k, v) == [blk EXCEPT ![b][k] = v]

Bmap(i) ==
  LET a == ino[i].addrs
  IN  /\ Looping(i) /\ BlockOf(a, blk, Here(i)) = 0
      /\ \/ Here(i) >= MAXFILE /\ Panic("bmap: out of range")
         \/ Here(i) < MAXFILE /\ BallocFails
         \/ /\ Here(i) < MAXFILE /\ BallocOk
            /\ bitmap' = Marked(Balloc)
            /\ IF Place(i) <= NDIRECT
               THEN ino' = [ino EXCEPT ![i].addrs[Place(i)] = Balloc] /\ UNCHANGED blk
               ELSE blk' = Stored(a[NDIRECT], Here(i) - NDIRECT, Balloc) /\ UNCHANGED ino
            /\ UNCHANGED <<dino, job, abs, fds, panicked>>

\* The block is there: copy up to its end, or to the end of the call.
CopyBlock(i) ==
  LET j == job[i]
      b == BlockOf(ino[i].addrs, blk, Here(i))
      at == (j.off + j.tot) % BSIZE
      m == Min({j.n - j.tot, BSIZE - at})
  IN  /\ Looping(i) /\ b # 0
      /\ IF j.pc = "write"
         THEN /\ blk' = [blk EXCEPT ![b] =
                           [c \in Cells |-> IF c \in at .. at + m - 1
                                            THEN j.src[j.tot + c - at + 1] ELSE @[c]]]
              /\ Start(i, [j EXCEPT !.tot = @ + m])
         ELSE /\ Start(i, [j EXCEPT !.tot = @ + m,
                                    !.src = @ \o [c \in 1 .. m |-> blk[b][at + c - 1]]])
              /\ UNCHANGED blk
      /\ UNCHANGED <<bitmap, ino, dino, abs, fds, panicked>>

\* abs after src has been written at o.
Overwrite(s, o, src) ==
  [k \in 1 .. Max({Len(s), o + Len(src)}) |->
     IF k \in o + 1 .. o + Len(src) THEN src[k - o] ELSE s[k]]

\* iupdate, and one that forgets the addresses.
IupdateSize(i, d) == [dino EXCEPT ![i].size = d.size]
Iupdate(i, d) == [dino EXCEPT ![i] = d]

Finished(i, l) == Working(i, l) /\ job[i].tot = job[i].n

Advance(f, r) == IF f = 0 THEN off ELSE [off EXCEPT ![f] = @ + r]
Moved(f, s) == IF f = 0 \/ f \in shared THEN moved ELSE [moved EXCEPT ![f] = @ \o s]

\* The end of writei, with iupdate if the file has grown, and of its caller.
WriteEnd(i) ==
  LET j == job[i]
      grown == [ino[i] EXCEPT !.size = j.off + j.tot]
      grows == j.tot > 0 /\ j.off + j.tot > ino[i].size
      others == {f \in Files : open[f] = i /\ f # j.f}
  IN  /\ Finished(i, "write")
      /\ ino' = IF grows THEN [ino EXCEPT ![i] = grown] ELSE ino
      /\ dino' = IF grows THEN Iupdate(i, grown) ELSE dino
      /\ abs' = [abs EXCEPT ![i] = Overwrite(@, j.off, j.src)]
      /\ off' = Advance(j.f, j.n)
      /\ shared' = shared \cup others
      /\ moved' = [f \in Files |-> IF f \in others THEN <<>> ELSE Moved(j.f, j.src)[f]]
      /\ Start(i, NoJob)
      /\ UNCHANGED <<bitmap, blk, open, panicked>>

ReadEnd(i) ==
  /\ Finished(i, "read")
  /\ off' = Advance(job[i].f, job[i].n)
  /\ moved' = Moved(job[i].f, job[i].src)
  /\ Start(i, NoJob)
  /\ UNCHANGED <<bitmap, blk, ino, dino, abs, open, shared, panicked>>

-----------------------------------------------------------------------------
(* file.c: the offset is read and changed with the inode locked *)

Fileread(f, n) ==
  /\ open[f] # 0 /\ Working(open[f], "idle") /\ off[f] <= ino[open[f]].size
  /\ Readi(open[f], f, "read", off[f], n)
  /\ UNCHANGED <<bitmap, blk, ino, dino, abs, fds, panicked>>

\* A directory cannot be opened for writing.
Filewrite(f, src) ==
  /\ open[f] \notin {0, ROOTINO} /\ Working(open[f], "idle") /\ off[f] <= ino[open[f]].size
  /\ Writei(open[f], f, off[f], src)
  /\ UNCHANGED <<bitmap, blk, ino, dino, abs, fds, panicked>>

-----------------------------------------------------------------------------
(* The root directory *)

\* The cell at offset k of file i; where bmap finds no block, it makes a new
\* one, which is zero.
CellAt(i, k) ==
  LET b == BlockOf(ino[i].addrs, blk, k \div BSIZE) IN IF b = 0 THEN 0 ELSE blk[b][k % BSIZE]
Contents(i) == [k \in 1 .. ino[i].size |-> CellAt(i, k - 1)]
Named(i) == i = ROOTINO \/ \E k \in 3 .. ino[ROOTINO].size : Contents(ROOTINO)[k] = i

\* dirlookup reads every block of the directory; for open, or for dirlink,
\* which goes on in Dirlink.
Dirlookup ==
  /\ Working(ROOTINO, "idle")
  /\ Readi(ROOTINO, 0, "scan", 0, ino[ROOTINO].size)
  /\ UNCHANGED <<bitmap, blk, ino, dino, abs, fds, panicked>>

\* The rest of open: the inode is found.
Open(f, i) ==
  /\ Finished(ROOTINO, "scan") /\ open[f] = 0 /\ Named(i)
  /\ open' = [open EXCEPT ![f] = i] /\ off' = [off EXCEPT ![f] = 0]
  /\ moved' = [moved EXCEPT ![f] = <<>>] /\ shared' = shared \ {f}
  /\ Start(ROOTINO, NoJob)
  /\ UNCHANGED <<bitmap, blk, ino, dino, abs, panicked>>

\* The rest of dirlink for a new inode i: the first empty entry, or one more.
\* A directory of the largest size makes dirlink panic.
Dirlink(i) ==
  LET s == job[ROOTINO].src
      at == Min({k \in 1 .. Len(s) : s[k] = 0} \cup {Len(s) + 1})
  IN  /\ Finished(ROOTINO, "scan") /\ ~Named(i) /\ Working(i, "idle") /\ ino[i] = EmptyFile
      /\ \/ at > MaxBytes /\ Panic("dirlink")
         \/ /\ at <= MaxBytes
            /\ Writei(ROOTINO, 0, at - 1, <<i>>)
            /\ UNCHANGED <<bitmap, blk, ino, dino, abs, fds, panicked>>

\* unlink erases the entry it found.
Unlink(i) ==
  LET at == {k \in 3 .. Len(job[ROOTINO].src) : job[ROOTINO].src[k] = i}
  IN  /\ Finished(ROOTINO, "scan") /\ at # {}
      /\ Writei(ROOTINO, 0, Min(at) - 1, <<0>>)
      /\ UNCHANGED <<bitmap, blk, ino, dino, abs, fds, panicked>>

Close(f) ==
  /\ panicked = "no" /\ open[f] # 0 /\ \A i \in Inodes : job[i].f # f
  /\ open' = [open EXCEPT ![f] = 0] /\ off' = [off EXCEPT ![f] = 0]
  /\ moved' = [moved EXCEPT ![f] = <<>>] /\ shared' = shared \ {f}
  /\ UNCHANGED <<bitmap, blk, ino, dino, job, abs, panicked>>

-----------------------------------------------------------------------------
(* itrunc and bfree *)

\* The addresses itrunc frees, in its order; the indirect block last.
Addresses(i) ==
  LET a == ino[i].addrs
      direct == [k \in 1 .. NDIRECT |-> a[k - 1]]
      inner == IF a[NDIRECT] = 0 THEN <<>> ELSE [k \in 1 .. BSIZE |-> blk[a[NDIRECT]][k - 1]]
      nonzero(b) == b # 0
  IN  SelectSeq(direct \o inner \o <<a[NDIRECT]>>, nonzero)

\* iput found no link and no other reference.
TruncStart(i) ==
  /\ Working(i, "idle") /\ ino[i].size > 0 /\ ~Named(i) /\ \A f \in Files : open[f] # i
  /\ job[ROOTINO].pc # "write"
  /\ job' = [job EXCEPT ![i] = [NoJob EXCEPT !.pc = "bzero", !.todo = Addresses(i)]]
  /\ UNCHANGED <<bitmap, blk, ino, dino, abs, fds, panicked>>

\* bfree: zero the block ...
BfreeZero(i) ==
  /\ Working(i, "bzero") /\ job[i].todo # <<>>
  /\ blk' = [blk EXCEPT ![Head(job[i].todo)] = Zero]
  /\ job' = [job EXCEPT ![i].pc = "bfree"]
  /\ UNCHANGED <<bitmap, ino, dino, abs, fds, panicked>>

\* ... and clear its bit.
Bfree(i) ==
  LET b == Head(job[i].todo)
  IN  /\ Working(i, "bfree")
      /\ \/ b \notin bitmap /\ Panic("freeing free block")
         \/ /\ b \in bitmap
            /\ bitmap' = bitmap \ {b}
            /\ job' = [job EXCEPT ![i].pc = "bzero", ![i].todo = Tail(@)]
            /\ UNCHANGED <<blk, ino, dino, abs, fds, panicked>>

\* addrs are 0, size = 0, iupdate.  (addrs are cleared one by one on the way;
\* nobody looks at them before this.)
TruncEnd(i) ==
  /\ Working(i, "bzero") /\ job[i].todo = <<>>
  /\ ino' = [ino EXCEPT ![i] = EmptyFile]
  /\ dino' = Iupdate(i, EmptyFile)
  /\ abs' = [abs EXCEPT ![i] = <<>>]
  /\ job' = [job EXCEPT ![i] = NoJob]
  /\ UNCHANGED <<bitmap, blk, fds, panicked>>

-----------------------------------------------------------------------------
\* What mkfs put into inode i: programs, and the directory with its entries.
Put(progs, i) ==
  IF i = ROOTINO
  THEN LET n == RoundRoot(Len(progs) + 2)
       IN  [k \in 1 .. n |-> CASE k <= 2 -> ROOTINO [] k <= Len(progs) + 2 -> k - 1 [] OTHER -> 0]
  ELSE IF i - 1 <= Len(progs) THEN progs[i - 1] ELSE <<>>

Init ==
  /\ \E progs \in Programs :
       LET img == Image(progs)
       IN  /\ bitmap = Marks(img) /\ blk = img.blk
           /\ ino = img.dino /\ dino = img.dino
           /\ abs = [i \in Inodes |-> Put(progs, i)]
  /\ job = [i \in Inodes |-> NoJob]
  /\ open = [f \in Files |-> 0] /\ off = [f \in Files |-> 0]
  /\ moved = [f \in Files |-> <<>>] /\ shared = {}
  /\ panicked = "no"

\* A full disk ends the program, by balloc's panic or by a block past the end;
\* "freeing free block" or "bmap: out of range" would show up as a deadlock.
PanicLoop ==
  panicked \in {"balloc: out of blocks", "past the disk", "dirlink"} /\ UNCHANGED vars

Next ==
  \/ \E i \in Inodes :
       \/ Bmap(i) \/ CopyBlock(i) \/ WriteEnd(i) \/ ReadEnd(i)
       \/ Dirlink(i) \/ Unlink(i)
       \/ TruncStart(i) \/ BfreeZero(i) \/ Bfree(i) \/ TruncEnd(i)
       \/ \E f \in Files : Open(f, i)
  \/ \E f \in Files :
       \/ Close(f)
       \/ \E n \in Counts : Fileread(f, n)
       \/ \E src \in Sources : Filewrite(f, src)
  \/ Dirlookup
  \/ PanicLoop

Spec == Init /\ [][Next]_vars

-----------------------------------------------------------------------------
(* Properties *)

\* The blocks of file i; of a file being truncated, those not yet freed.
Holds(i) == ToSet(IF job[i].pc \in {"bzero", "bfree"} THEN job[i].todo ELSE Addresses(i))

\* The bitmap marks exactly the blocks of files and mkfs's own: none is lost,
\* none is handed out twice.
BitmapExact ==
  panicked = "no" => bitmap = (0 .. MetaBlocks - 1) \cup UNION {Holds(i) : i \in Inodes}

\* A free block is all zero, because mkfs and bfree leave it so.  balloc does
\* not clear blocks: bmap relies on this to read a new indirect block as empty.
FreeIsZero == \A b \in Clear : blk[b] = Zero

\* An unlocked file reads back as what was written to it, by mkfs or since;
\* only the block that mkfs adds to the root's size may be missing, so that a
\* read makes bmap allocate.
ReadsBack ==
  \A i \in Inodes : job[i].pc = "idle" =>
    /\ Contents(i) = abs[i]
    /\ \A k \in 0 .. ino[i].size - 1 :
         BlockOf(ino[i].addrs, blk, k \div BSIZE) = 0 => i = ROOTINO /\ k >= ino[i].size - BSIZE


\* writei calls iupdate only when the size grows, and that is enough: an
\* unlocked inode has the same addresses and size on disk as in memory, but
\* for the root once a read has filled the block that mkfs left out.
SavedWhenUnlocked ==
  \A i \in Inodes : job[i].pc = "idle" /\ dino[i] # ino[i] =>
    i = ROOTINO /\ dino[i].size = ino[i].size
=============================================================================
