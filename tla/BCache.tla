------------------------------- MODULE BCache -------------------------------
(***************************************************************************)
(* The buffer cache (bio.c) on the memory-resident disk (ide.c).           *)
(*                                                                         *)
(* A section under bcache.lock or idelock is one step (Spinlock); a        *)
(* process can be preempted between them while it owns B_BUSY buffers, and *)
(* if it is killed the timer makes it exit right there, keeping them.      *)
(*                                                                         *)
(* The client is fs.c: a process reads blocks, changes a buffer only       *)
(* together with bwrite, and holds at most one buffer, or an indirect      *)
(* block (bmap, itrunc) and one more.                                      *)
(***************************************************************************)
EXTENDS Naturals

CONSTANTS Procs, Blocks,
          Indirect,    \* blocks held while another one is read
          Vals,        \* contents of a block
          NBUF,
          NoBlock,     \* dev = -1 in binit
          Nobody,
          Killable     \* processes that other processes kill

ASSUME BCacheAssumption ==
  /\ NBUF \in Nat \ {0}
  /\ Vals # {} /\ Indirect \subseteq Blocks /\ NoBlock \notin Blocks
  /\ Killable \subseteq Procs /\ Nobody \notin Procs

VARIABLES lru,       \* the list from head.next: most recently used first
          sector,    \* b->dev and b->sector
          flags, data,
          disk,      \* the disk image in memory
          pc,        \* pc[p]: "user", "bget", "read", "write" or "dead"
          want,      \* want[p]: the block bget looks for
          cur,       \* cur[p]: the buffer in iderw
          holds,     \* holds[p]: buffers bget gave p, not passed to brelse
          chan,      \* chan[p]: the buffer p sleeps on, or 0
          panicked

cache == <<lru, sector, flags, data>>
vars  == <<cache, disk, pc, want, cur, holds, chan, panicked>>

Bufs == 1 .. NBUF
Flag == {"BUSY", "VALID", "DIRTY"}

Cached(k) == {b \in Bufs : sector[b] = k}
Idle(b)   == "BUSY" \notin flags[b]

-----------------------------------------------------------------------------
\* Buffer b is p's; bread goes on to iderw unless the contents are there.
Take(p, b, fl) ==
  /\ flags' = [flags EXCEPT ![b] = fl]
  /\ holds' = [holds EXCEPT ![p] = @ \cup {b}]
  /\ want' = [want EXCEPT ![p] = NoBlock]
  /\ IF "VALID" \in fl
     THEN pc' = [pc EXCEPT ![p] = "user"] /\ UNCHANGED cur
     ELSE pc' = [pc EXCEPT ![p] = "read"] /\ cur' = [cur EXCEPT ![p] = b]

\* Whether a hit can be handed out, and a test that is left out.
NeverBusy(b) == TRUE
NotBusy(b) == Idle(b)

Hit(p, k) ==
  /\ \E b \in Cached(k) : NotBusy(b) /\ Take(p, b, flags[b] \cup {"BUSY"})
  /\ UNCHANGED <<lru, sector, data, disk, chan, panicked>>

BusyHit(p, k) ==
  /\ \E b \in Cached(k) :
       /\ ~NotBusy(b)
       /\ chan' = [chan EXCEPT ![p] = b]
       /\ pc' = [pc EXCEPT ![p] = "bget"]
       /\ want' = [want EXCEPT ![p] = k]
  /\ UNCHANGED <<cache, disk, cur, holds, panicked>>

\* A miss, and one that is declared without looking at every buffer.
NotFirst(k) == sector[lru[1]] # k
NotCached(k) == Cached(k) = {}

\* The flags of a recycled buffer, and ones that keep B_VALID.
KeptFlags(b) == flags[b] \cup {"BUSY"}
NewFlags(b) == {"BUSY"}

\* The least recently used buffer that is not busy.
Miss(p, k) ==
  /\ NotCached(k)
  /\ \E i \in Bufs :
       /\ Idle(lru[i])
       /\ \A j \in i + 1 .. NBUF : ~Idle(lru[j])
       /\ sector' = [sector EXCEPT ![lru[i]] = k]
       /\ Take(p, lru[i], NewFlags(lru[i]))
  /\ UNCHANGED <<lru, data, disk, chan, panicked>>

\* No buffer to recycle, and a search that gives up at the first busy one.
TailBusy == ~Idle(lru[NBUF])
AllBusy == \A b \in Bufs : ~Idle(b)

NoBuffers(p, k) ==
  /\ NotCached(k)
  /\ AllBusy
  /\ panicked' = TRUE
  /\ UNCHANGED <<cache, disk, pc, want, cur, holds, chan>>

BgetLoop(p, k) == Hit(p, k) \/ BusyHit(p, k) \/ Miss(p, k) \/ NoBuffers(p, k)

\* fs.c calls bread(dev, k).
Bread(p, k) ==
  /\ ~panicked /\ pc[p] = "user"
  /\ \A b \in holds[p] : sector[b] \in Indirect
  /\ holds[p] # {} => k \notin Indirect
  /\ BgetLoop(p, k)

\* goto loop, after the sleep.
BgetRetry(p) ==
  /\ ~panicked /\ pc[p] = "bget" /\ chan[p] = 0
  /\ BgetLoop(p, want[p])

-----------------------------------------------------------------------------
\* iderw: with B_DIRTY the buffer goes to the disk, else the disk's block
\* comes in; then B_VALID.  Both of its panics stop the machine.
Iderw(p) ==
  LET b == cur[p]
  IN  /\ ~panicked /\ pc[p] \in {"read", "write"}
      /\ panicked' = (Idle(b) \/ flags[b] \cap {"VALID", "DIRTY"} = {"VALID"})
      /\ IF "DIRTY" \in flags[b]
         THEN disk' = [disk EXCEPT ![sector[b]] = data[b]] /\ UNCHANGED data
         ELSE data' = [data EXCEPT ![b] = disk[sector[b]]] /\ UNCHANGED disk
      /\ flags' = [flags EXCEPT ![b] = (@ \cup {"VALID"}) \ {"DIRTY"}]
      /\ pc' = [pc EXCEPT ![p] = "user"]
      /\ cur' = [cur EXCEPT ![p] = 0]
      /\ UNCHANGED <<lru, sector, want, holds, chan>>

\* The caller has changed the buffer's contents to v and calls bwrite.
Bwrite(p, b, v) ==
  /\ ~panicked /\ pc[p] = "user" /\ b \in holds[p]
  /\ panicked' = Idle(b)
  /\ data' = [data EXCEPT ![b] = v]
  /\ flags' = [flags EXCEPT ![b] = @ \cup {"DIRTY"}]
  /\ cur' = [cur EXCEPT ![p] = b]
  /\ pc' = [pc EXCEPT ![p] = "write"]
  /\ UNCHANGED <<lru, sector, disk, want, holds, chan>>

\* The list with b unlinked and put at the front.
ToFront(b) ==
  LET at == CHOOSE i \in Bufs : lru[i] = b
  IN  [i \in Bufs |-> IF i = 1 THEN b ELSE IF i <= at THEN lru[i - 1] ELSE lru[i]]

\* To the front of the list, not busy; the wakeup(b) is commented out.
Brelse(p, b) ==
  /\ ~panicked /\ pc[p] = "user" /\ b \in holds[p]
  /\ panicked' = Idle(b)
  /\ lru' = ToFront(b)
  /\ flags' = [flags EXCEPT ![b] = @ \ {"BUSY"}]
  /\ holds' = [holds EXCEPT ![p] = @ \ {b}]
  /\ UNCHANGED <<sector, data, disk, pc, want, cur, chan>>

\* kill ends a sleep; bget does not look at proc->killed and loops.
Kill(p) ==
  /\ ~panicked /\ p \in Killable /\ chan[p] # 0
  /\ chan' = [chan EXCEPT ![p] = 0]
  /\ UNCHANGED <<cache, disk, pc, want, cur, holds, panicked>>

\* The timer interrupts a killed process between two sections; exit does not
\* give its buffers back.
KilledExit(p) ==
  /\ ~panicked /\ p \in Killable /\ pc[p] # "dead" /\ chan[p] = 0
  /\ pc' = [pc EXCEPT ![p] = "dead"]
  /\ UNCHANGED <<cache, disk, want, cur, holds, chan, panicked>>

\* binit
Init ==
  /\ lru = [i \in Bufs |-> NBUF + 1 - i]
  /\ sector = [b \in Bufs |-> NoBlock]
  /\ flags = [b \in Bufs |-> {}]
  /\ disk \in [Blocks -> Vals]
  /\ data = [b \in Bufs |-> CHOOSE v \in Vals : TRUE]
  /\ pc = [p \in Procs |-> "user"]
  /\ want = [p \in Procs |-> NoBlock]
  /\ cur = [p \in Procs |-> 0]
  /\ holds = [p \in Procs |-> {}]
  /\ chan = [p \in Procs |-> 0]
  /\ panicked = FALSE

Next ==
  \E p \in Procs :
    \/ \E k \in Blocks : Bread(p, k)
    \/ BgetRetry(p)
    \/ Iderw(p)
    \/ \E b \in Bufs : Brelse(p, b) \/ \E v \in Vals : Bwrite(p, b, v)
    \/ Kill(p)
    \/ KilledExit(p)

Spec == Init /\ [][Next]_vars

-----------------------------------------------------------------------------
(* Safety *)

TypeOK ==
  /\ lru \in [Bufs -> Bufs]
  /\ sector \in [Bufs -> Blocks \cup {NoBlock}]
  /\ flags \in [Bufs -> SUBSET Flag]
  /\ data \in [Bufs -> Vals]
  /\ disk \in [Blocks -> Vals]
  /\ pc \in [Procs -> {"user", "bget", "read", "write", "dead"}]
  /\ want \in [Procs -> Blocks \cup {NoBlock}]
  /\ cur \in [Procs -> Bufs \cup {0}]
  /\ holds \in [Procs -> SUBSET Bufs]
  /\ chan \in [Procs -> Bufs \cup {0}]
  /\ panicked \in BOOLEAN

\* The list always holds every buffer once: brelse's four pointer updates
\* neither lose nor duplicate one.
LruHoldsAll == \A b \in Bufs : \E i \in Bufs : lru[i] = b

\* A block is cached in at most one buffer, whatever happened between two
\* bget calls for it.
OneBufferPerBlock ==
  \A b, c \in Bufs : sector[b] = sector[c] /\ sector[b] # NoBlock => b = c

\* bio.c:13 "Only one process at a time can use a buffer": B_BUSY means one
\* process, dead or alive, has it.
BusyMeansHeld ==
  \A b \in Bufs :
    /\ ~Idle(b) <=> \E p \in Procs : b \in holds[p]
    /\ \A p, q \in Procs : b \in holds[p] /\ b \in holds[q] => p = q

\* A buffer that is valid and not being written has the disk's contents, so
\* it may be recycled without being written back (bget ignores B_DIRTY).
Coherent ==
  \A b \in Bufs :
    /\ "VALID" \in flags[b] /\ "DIRTY" \notin flags[b] => data[b] = disk[sector[b]]
    /\ Idle(b) => "DIRTY" \notin flags[b]

\* The only panic fs.c's use of the cache can reach is "bget: no buffers",
\* and only with every buffer held at once.
PanicMeansExhausted == panicked => UNION {holds[p] : p \in Procs} = Bufs

\* The cache is a store of blocks with exclusive access.
OwnerOf(k) ==
  LET ps == {p \in Procs : \E b \in holds[p] : sector[b] = k}
  IN  IF ps = {} THEN Nobody ELSE CHOOSE p \in ps : TRUE

ContentsOf(k) ==
  LET bs == {b \in Cached(k) : "DIRTY" \in flags[b]}
  IN  IF bs = {} THEN disk[k] ELSE data[CHOOSE b \in bs : TRUE]

BlkStore == INSTANCE BlockStore WITH
              store <- [k \in Blocks |-> ContentsOf(k)],
              owner <- [k \in Blocks |-> OwnerOf(k)]

ImplementsBlockStore == BlkStore!Spec

-----------------------------------------------------------------------------
(* What the safety properties rest on, checked as parts of IInv *)

\* Who is in iderw holds the buffer, in the state iderw expects.
TransfersHeld ==
  \A p \in Procs :
    /\ pc[p] \in {"read", "write"} => cur[p] \in holds[p]
    /\ pc[p] = "read" => flags[cur[p]] = {"BUSY"}
    /\ pc[p] = "write" => "DIRTY" \in flags[cur[p]]
    /\ \A b \in holds[p] : "DIRTY" \in flags[b] =>
         (pc[p] = "write" /\ cur[p] = b) \/ pc[p] = "dead"

\* A buffer that somebody holds has a block, and whoever waits wants one.
HeldHaveBlocks ==
  /\ \A p \in Procs : \A b \in holds[p] : sector[b] # NoBlock
  /\ \A p \in Procs : pc[p] = "bget" => want[p] # NoBlock
  /\ \A b \in Bufs : "VALID" \in flags[b] => sector[b] # NoBlock

IInv ==
  /\ TypeOK /\ LruHoldsAll
  /\ OneBufferPerBlock /\ BusyMeansHeld /\ Coherent
  /\ TransfersHeld /\ HeldHaveBlocks
  /\ PanicMeansExhausted

-----------------------------------------------------------------------------
(* Liveness *)

\* Every process gets the CPU (Proc), and fs.c passes every buffer it got to
\* brelse.
Fairness ==
  \A p \in Procs :
    /\ WF_vars(BgetRetry(p))
    /\ WF_vars(Iderw(p))
    /\ SF_vars(\E b \in Bufs : Brelse(p, b))

FairSpec == Spec /\ Fairness

\* bio.c:58 "Look through buffer cache for sector on device dev. ... In
\* either case, return locked buffer": bget returns.
BgetReturns ==
  \A p \in Procs : pc[p] = "bget" ~> (pc[p] # "bget" \/ panicked)
=============================================================================
