-------------------------------- MODULE Mkfs --------------------------------
(***************************************************************************)
(* The file system image that mkfs.c writes, as a function of the programs *)
(* it is given: where the regions of the disk are (fs.h), and which blocks *)
(* and inodes the programs and the root directory get.                     *)
(*                                                                         *)
(* A block is BSIZE cells.  A cell holds a value of a file, a directory    *)
(* entry (its inode number, 0 when empty) or, in an indirect block, a      *)
(* block number, so NINDIRECT is BSIZE.  Inodes are kept apart from the    *)
(* blocks that hold them.                                                  *)
(***************************************************************************)
EXTENDS Integers, Sequences, FiniteSets, FiniteSetsExt, SequencesExt

CONSTANTS NDIRECT, BSIZE,
          Size,        \* sb.size
          Ninodes,     \* sb.ninodes
          IPB, BPB     \* inodes, bits of the bitmap, in a block

ASSUME MkfsAssumption ==
  /\ {NDIRECT, Size} \subseteq Nat /\ {BSIZE, Ninodes, IPB, BPB} \subseteq Nat \ {0}

ROOTINO == 1
MAXFILE == NDIRECT + BSIZE
MaxBytes == MAXFILE * BSIZE
Blocks == 0 .. BPB - 1
Cells == 0 .. BSIZE - 1
Zero == [c \in Cells |-> 0]
EmptyFile == [addrs |-> [k \in 0 .. NDIRECT |-> 0], size |-> 0]

\* Block 0 is unused, block 1 the super block; then inodes, bitmap, data.
IBLOCK(i) == i \div IPB + 2
BBLOCK(b) == b \div BPB + Ninodes \div IPB + 3
MetaBlocks == Ninodes \div IPB + 3 + (Size \div BPB + 1)

-----------------------------------------------------------------------------
\* An image in the making: next is freeblock (and usedblocks).
NoImage == [next |-> MetaBlocks, blk |-> [b \in Blocks |-> Zero],
            dino |-> [i \in 1 .. Ninodes |-> EmptyFile]]

\* iappend makes sure that there is a block bn.
WithBlock(img, i, bn) ==
  LET direct == [img EXCEPT !.dino[i].addrs[bn] = img.next, !.next = @ + 1]
      ind == IF img.dino[i].addrs[NDIRECT] # 0 THEN img
             ELSE [img EXCEPT !.dino[i].addrs[NDIRECT] = img.next, !.next = @ + 1]
      at == ind.dino[i].addrs[NDIRECT]
      entry == [ind EXCEPT !.blk[at][bn - NDIRECT] = ind.next, !.next = @ + 1]
  IN  IF bn < NDIRECT
      THEN IF img.dino[i].addrs[bn] = 0 THEN direct ELSE img
      ELSE IF ind.blk[at][bn - NDIRECT] = 0 THEN entry ELSE ind

\* The block of block bn of a file with addresses a, on a disk with blocks k.
BlockOf(a, k, bn) ==
  IF bn < NDIRECT THEN a[bn]
  ELSE IF a[NDIRECT] = 0 \/ bn >= MAXFILE THEN 0 ELSE k[a[NDIRECT]][bn - NDIRECT]

\* iappend: a turn of its loop for every block that the n cells meet.
Iappend(img, i, src) ==
  LET off == img.dino[i].size
      end == off + Len(src)
      turn(m, bn) ==
        LET w == WithBlock(m, i, bn)
            x == BlockOf(w.dino[i].addrs, w.blk, bn)
        IN  [w EXCEPT !.blk[x] =
               [c \in Cells |-> IF bn * BSIZE + c \in off .. end - 1
                                THEN src[bn * BSIZE + c - off + 1] ELSE @[c]]]
      first == off \div BSIZE
      turns == IF src = <<>> THEN 0 ELSE (end - 1) \div BSIZE - first + 1
  IN  [FoldLeft(turn, img, [k \in 1 .. turns |-> first + k - 1]) EXCEPT !.dino[i].size = end]

\* One turn of main's loop: the kth program is inode k + 1; its directory
\* entry, then its contents.
AddProgram(progs, img, k) == Iappend(Iappend(img, ROOTINO, <<k + 1>>), k + 1, progs[k])

\* The end of main makes the root's size a number of whole blocks, one too
\* many when its entries fill theirs.
RoundRoot(off) == (off \div BSIZE + 1) * BSIZE

\* main: "." and "..", the programs, the root's size.
Image(progs) ==
  LET add(img, k) == AddProgram(progs, img, k)
      dots == Iappend(Iappend(NoImage, ROOTINO, <<ROOTINO>>), ROOTINO, <<ROOTINO>>)
  IN  [FoldLeft(add, dots, [k \in 1 .. Len(progs) |-> k])
         EXCEPT !.dino[ROOTINO].size = RoundRoot(@)]

\* balloc marks the first usedblocks blocks.
Marks(img) == 0 .. img.next - 1
=============================================================================
