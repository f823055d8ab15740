---------------------------- MODULE BCacheProofs ----------------------------
(***************************************************************************)
(* Proofs about the buffer cache, for any number of processes, buffers and *)
(* blocks.  The inductive invariant IInv (BCache) says who holds which     *)
(* buffer in which state; from it follow that a block has one buffer, that *)
(* the only panic is the exhaustion of the buffers, and that the cache     *)
(* implements BlockStore.                                                  *)
(***************************************************************************)
EXTENDS BCache, TLAPS

\* A buffer in use has one holder.
LEMMA Held ==
  ASSUME IInv, NEW p \in Procs, NEW b \in holds[p]
  PROVE  /\ b \in Bufs /\ "BUSY" \in flags[b] /\ ~Idle(b) /\ sector[b] \in Blocks
         /\ \A q \in Procs : b \in holds[q] => q = p
  BY DEF IInv, TypeOK, BusyMeansHeld, HeldHaveBlocks, Idle

\* p takes an idle buffer b for block k, with flags fl.
LEMMA TakeInv ==
  ASSUME IInv, ~panicked, NEW p \in Procs, pc[p] \in {"user", "bget"},
         NEW b \in Bufs, Idle(b), NEW k \in Blocks,
         NEW fl, fl = {"BUSY"} \/ (fl = flags[b] \cup {"BUSY"} /\ sector[b] = k),
         \A c \in Bufs : sector[c] = k => c = b,
         sector' = [sector EXCEPT ![b] = k], Take(p, b, fl),
         UNCHANGED <<lru, data, disk, chan, panicked>>
  PROVE  IInv'
<1>1. TypeOK /\ BusyMeansHeld /\ Coherent /\ TransfersHeld /\ HeldHaveBlocks /\ OneBufferPerBlock
  BY DEF IInv
<1>2. fl \in SUBSET Flag /\ "BUSY" \in fl /\ "DIRTY" \notin fl /\ "DIRTY" \notin flags[b]
  BY <1>1 DEF TypeOK, Flag, Coherent, Idle
<1>3. \A q \in Procs : b \notin holds[q]
  BY <1>1 DEF BusyMeansHeld, Idle
<1>4. /\ flags' = [flags EXCEPT ![b] = fl] /\ holds' = [holds EXCEPT ![p] = @ \cup {b}]
      /\ want' = [want EXCEPT ![p] = NoBlock]
      /\ \/ "VALID" \in fl /\ pc' = [pc EXCEPT ![p] = "user"] /\ cur' = cur
         \/ "VALID" \notin fl /\ pc' = [pc EXCEPT ![p] = "read"] /\ cur' = [cur EXCEPT ![p] = b]
  BY DEF Take
<1>5. TypeOK'
  <2>1. pc' \in [Procs -> {"user", "bget", "read", "write", "dead"}] /\ cur' \in [Procs -> Bufs \cup {0}]
    BY <1>1, <1>4 DEF TypeOK
  <2> QED
    BY <1>1, <1>2, <1>4, <2>1 DEF TypeOK
<1>6. LruHoldsAll'
  BY DEF IInv, LruHoldsAll
<1>7. OneBufferPerBlock'
  BY <1>1 DEF TypeOK, OneBufferPerBlock
<1>8. BusyMeansHeld'
  <2>1. \A c \in Bufs : ~Idle(c)' <=> c = b \/ ~Idle(c)
    BY <1>1, <1>2, <1>4 DEF TypeOK, Idle
  <2>2. \A c \in Bufs, q \in Procs : c \in holds'[q] <=> (c \in holds[q] \/ (c = b /\ q = p))
    BY <1>1, <1>4 DEF TypeOK
  <2> QED
    BY <1>1, <1>3, <2>1, <2>2 DEF BusyMeansHeld
<1>9. Coherent'
  <2>1. \A c \in Bufs : c # b => flags'[c] = flags[c] /\ sector'[c] = sector[c]
    BY <1>1, <1>4 DEF TypeOK
  <2>2. flags'[b] = fl /\ sector'[b] = k
    BY <1>1, <1>4 DEF TypeOK
  <2>3. "VALID" \in fl => data[b] = disk[k]
    BY <1>1, <1>2 DEF Coherent, Idle
  <2> QED
    BY <1>1, <1>2, <2>1, <2>2, <2>3 DEF Coherent, Idle
<1>10. TransfersHeld'
  <2> SUFFICES ASSUME NEW q \in Procs
               PROVE  /\ pc'[q] \in {"read", "write"} => cur'[q] \in holds'[q]
                      /\ pc'[q] = "read" => flags'[cur'[q]] = {"BUSY"}
                      /\ pc'[q] = "write" => "DIRTY" \in flags'[cur'[q]]
                      /\ \A c \in holds'[q] : "DIRTY" \in flags'[c] =>
                           (pc'[q] = "write" /\ cur'[q] = c) \/ pc'[q] = "dead"
    BY DEF TransfersHeld
  <2>1. CASE q # p
    <3>1. pc'[q] = pc[q] /\ cur'[q] = cur[q] /\ holds'[q] = holds[q]
      BY <1>1, <1>4, <2>1 DEF TypeOK
    <3>2. \A c \in holds[q] : flags'[c] = flags[c]
      BY <1>1, <1>3, <1>4 DEF TypeOK
    <3> QED
      BY <1>1, <3>1, <3>2 DEF TransfersHeld
  <2>2. CASE q = p
    <3>1. \A c \in holds'[p] : "DIRTY" \notin flags'[c]
      BY <1>1, <1>2, <1>4 DEF TypeOK, TransfersHeld
    <3>2. "VALID" \notin fl => fl = {"BUSY"}
      BY <1>2, Zenon DEF Flag
    <3>3. pc'[p] = "user" \/ (pc'[p] = "read" /\ cur'[p] = b /\ b \in holds'[p] /\ flags'[b] = {"BUSY"})
      BY <1>1, <1>4, <3>2 DEF TypeOK
    <3> QED
      BY <2>2, <3>1, <3>3
  <2> QED
    BY <2>1, <2>2
<1>11. HeldHaveBlocks'
  <2>1. NoBlock # k
    BY BCacheAssumption
  <2>2. \A q \in Procs : \A c \in holds'[q] : sector'[c] # NoBlock
    BY <1>1, <1>4, <2>1 DEF TypeOK, HeldHaveBlocks
  <2>3. \A q \in Procs : pc'[q] = "bget" => want'[q] # NoBlock
    BY <1>1, <1>4 DEF TypeOK, HeldHaveBlocks
  <2>4. \A c \in Bufs : "VALID" \in flags'[c] => sector'[c] # NoBlock
    BY <1>1, <1>4, <2>1 DEF TypeOK, HeldHaveBlocks
  <2> QED
    BY <2>2, <2>3, <2>4 DEF HeldHaveBlocks
<1>12. PanicMeansExhausted'
  BY DEF PanicMeansExhausted
<1> QED
  BY <1>5, <1>6, <1>7, <1>8, <1>9, <1>10, <1>11, <1>12 DEF IInv

\* Most of IInv does not depend on who waits for what.
LEMMA WaitInv ==
  ASSUME IInv, NEW p \in Procs, UNCHANGED <<cache, disk, cur, holds>>,
         want' \in [Procs -> Blocks \cup {NoBlock}], chan' \in [Procs -> Bufs \cup {0}],
         panicked' \in BOOLEAN, PanicMeansExhausted',
         \A q \in Procs : pc'[q] = "bget" => want'[q] # NoBlock,
         \/ pc' = pc
         \/ pc[p] \in {"user", "bget"} /\ pc' = [pc EXCEPT ![p] = "bget"]
         \/ pc' = [pc EXCEPT ![p] = "dead"]
  PROVE  IInv'
<1>1. TypeOK /\ TransfersHeld /\ HeldHaveBlocks
  BY DEF IInv
<1>2. TypeOK'
  BY <1>1 DEF TypeOK, cache
<1>3. LruHoldsAll' /\ OneBufferPerBlock' /\ BusyMeansHeld' /\ Coherent'
  BY DEF IInv, LruHoldsAll, OneBufferPerBlock, BusyMeansHeld, Coherent, Idle, cache
<1>4. TransfersHeld'
  BY <1>1 DEF TypeOK, TransfersHeld, cache
<1>5. HeldHaveBlocks'
  BY <1>1 DEF HeldHaveBlocks, cache
<1> QED
  BY <1>2, <1>3, <1>4, <1>5 DEF IInv

\* One pass of bget's loop for block k: a hit, a wait for a busy buffer, the
\* recycling of the least recently used one, or the panic.
LEMMA BgetLoopInv ==
  ASSUME IInv, ~panicked, NEW p \in Procs, pc[p] \in {"user", "bget"}, NEW k \in Blocks, BgetLoop(p, k)
  PROVE  IInv'
<1>1. TypeOK /\ OneBufferPerBlock /\ BusyMeansHeld /\ HeldHaveBlocks /\ k # NoBlock
  BY BCacheAssumption DEF IInv
<1>2. CASE Hit(p, k)
  <2>1. PICK b \in Cached(k) : Idle(b) /\ Take(p, b, flags[b] \cup {"BUSY"})
    BY <1>2, Zenon DEF Hit, NotBusy
  <2>2. b \in Bufs /\ sector[b] = k /\ \A c \in Bufs : sector[c] = k => c = b
    BY <1>1 DEF Cached, OneBufferPerBlock
  <2>3. sector' = [sector EXCEPT ![b] = k]
    BY <1>1, <1>2, <2>2 DEF Hit, TypeOK
  <2> DEFINE fl == flags[b] \cup {"BUSY"}
  <2>4. fl = flags[b] \cup {"BUSY"} /\ Take(p, b, fl) /\ UNCHANGED <<lru, data, disk, chan, panicked>>
    BY <1>2, <2>1 DEF Hit
  <2> HIDE DEF fl
  <2>5. fl = {"BUSY"} \/ (fl = flags[b] \cup {"BUSY"} /\ sector[b] = k)
    BY <2>2, <2>4
  <2> QED
    <3>1. /\ b \in Bufs /\ Idle(b) /\ sector' = [sector EXCEPT ![b] = k] /\ Take(p, b, fl)
          /\ UNCHANGED <<lru, data, disk, chan, panicked>>
          /\ \A c \in Bufs : sector[c] = k => c = b
      BY <2>1, <2>2, <2>3, <2>4, Zenon
    <3> QED
      BY <2>5, <3>1, TakeInv, Zenon
<1>3. CASE BusyHit(p, k)
  <2>1. want' \in [Procs -> Blocks \cup {NoBlock}] /\ chan' \in [Procs -> Bufs \cup {0}]
    BY <1>1, <1>3 DEF BusyHit, TypeOK, Cached
  <2>2. \A q \in Procs : pc'[q] = "bget" => want'[q] # NoBlock
    BY <1>1, <1>3 DEF BusyHit, TypeOK, HeldHaveBlocks
  <2>3. panicked' \in BOOLEAN /\ PanicMeansExhausted' /\ UNCHANGED <<cache, disk, cur, holds>>
    BY <1>1, <1>3 DEF BusyHit, PanicMeansExhausted, TypeOK
  <2>4. pc[p] \in {"user", "bget"} /\ pc' = [pc EXCEPT ![p] = "bget"]
    BY <1>3 DEF BusyHit
  <2> QED
    BY <2>1, <2>2, <2>3, <2>4, WaitInv, Zenon
<1>4. CASE Miss(p, k)
  <2>1. PICK i \in Bufs : /\ Idle(lru[i]) /\ sector' = [sector EXCEPT ![lru[i]] = k]
                          /\ Take(p, lru[i], {"BUSY"})
    BY <1>4, Zenon DEF Miss, NewFlags
  <2> DEFINE b  == lru[i]
             fl == {"BUSY"}
  <2>2. /\ b \in Bufs /\ Idle(b) /\ \A c \in Bufs : sector[c] = k => c = b
        /\ fl = {"BUSY"} /\ sector' = [sector EXCEPT ![b] = k] /\ Take(p, b, fl)
        /\ UNCHANGED <<lru, data, disk, chan, panicked>>
    BY <1>1, <1>4, <2>1, Zenon DEF TypeOK, Miss, NotCached, Cached
  <2> HIDE DEF b, fl
  <2> QED
    BY <2>2, TakeInv, Zenon
<1>5. CASE NoBuffers(p, k)
  <2>1. panicked' \in BOOLEAN /\ UNCHANGED <<cache, disk, cur, holds, pc, want, chan>>
    BY <1>5 DEF NoBuffers
  <2>2. UNION {holds[q] : q \in Procs} = Bufs
    <3>1. \A b \in Bufs : \E q \in Procs : b \in holds[q]
      BY <1>1, <1>5 DEF NoBuffers, AllBusy, BusyMeansHeld
    <3> QED
      BY <1>1, <3>1 DEF TypeOK
  <2>3. PanicMeansExhausted'
    BY <2>1, <2>2 DEF PanicMeansExhausted
  <2> QED
    BY <1>1, <2>1, <2>3, WaitInv DEF TypeOK, HeldHaveBlocks
<1> QED
  BY <1>2, <1>3, <1>4, <1>5 DEF BgetLoop

\* kill wakes a sleeper; a killed process dies between two sections.
LEMMA KillInv ==
  ASSUME IInv, NEW p \in Procs, Kill(p) \/ KilledExit(p)
  PROVE  IInv'
<1>1. TypeOK /\ HeldHaveBlocks /\ ~panicked
  BY DEF IInv, Kill, KilledExit
<1>2. want' \in [Procs -> Blocks \cup {NoBlock}] /\ chan' \in [Procs -> Bufs \cup {0}]
  BY <1>1 DEF Kill, KilledExit, TypeOK
<1>3. panicked' \in BOOLEAN /\ PanicMeansExhausted' /\ UNCHANGED <<cache, disk, cur, holds, want>>
  BY <1>1 DEF Kill, KilledExit, TypeOK, PanicMeansExhausted
<1>4. pc' = pc \/ pc' = [pc EXCEPT ![p] = "dead"]
  BY DEF Kill, KilledExit
<1>5. \A q \in Procs : pc'[q] = "bget" => want'[q] # NoBlock
  BY <1>1, <1>3, <1>4 DEF TypeOK, HeldHaveBlocks
<1> QED
  BY <1>2, <1>3, <1>4, <1>5, WaitInv

\* iderw transfers the buffer one way or the other and does not panic.
LEMMA IderwInv ==
  ASSUME IInv, NEW p \in Procs, Iderw(p)
  PROVE  IInv' /\ ~panicked'
<1> DEFINE b == cur[p]
           k == sector[b]
<1>1. TypeOK /\ OneBufferPerBlock /\ BusyMeansHeld /\ Coherent /\ TransfersHeld /\ HeldHaveBlocks
  BY DEF IInv
<1>2. pc[p] \in {"read", "write"} /\ b \in holds[p]
  BY <1>1 DEF Iderw, TransfersHeld
<1>3. /\ b \in Bufs /\ "BUSY" \in flags[b] /\ ~Idle(b) /\ k \in Blocks
      /\ \A q \in Procs : b \in holds[q] => q = p
  BY <1>2, Held
<1>4. flags[b] = {"BUSY"} \/ "DIRTY" \in flags[b]
  BY <1>1, <1>2 DEF TransfersHeld
<1>5. ~panicked'
  <2>1. panicked' = (Idle(b) \/ flags[b] \cap {"VALID", "DIRTY"} = {"VALID"})
    BY Zenon DEF Iderw
  <2>2. flags[b] \cap {"VALID", "DIRTY"} # {"VALID"}
    BY <1>4
  <2> QED
    BY <1>3, <2>1, <2>2, Zenon
<1>6. /\ UNCHANGED <<lru, sector, want, holds, chan>>
      /\ flags' = [flags EXCEPT ![b] = (@ \cup {"VALID"}) \ {"DIRTY"}]
      /\ pc' = [pc EXCEPT ![p] = "user"] /\ cur' = [cur EXCEPT ![p] = 0]
      /\ \/ "DIRTY" \in flags[b] /\ disk' = [disk EXCEPT ![k] = data[b]] /\ data' = data
         \/ "DIRTY" \notin flags[b] /\ data' = [data EXCEPT ![b] = disk[k]] /\ disk' = disk
  BY DEF Iderw
<1> HIDE DEF b, k
<1>7. TypeOK'
  <2>1. data' \in [Bufs -> Vals] /\ disk' \in [Blocks -> Vals]
    BY <1>1, <1>3, <1>6 DEF TypeOK
  <2>2. flags' \in [Bufs -> SUBSET Flag]
    <3>1. (flags[b] \cup {"VALID"}) \ {"DIRTY"} \in SUBSET Flag
      BY <1>1, <1>3 DEF TypeOK, Flag
    <3> QED
      BY <1>1, <1>6, <3>1, Zenon DEF TypeOK
  <2>3. panicked' \in BOOLEAN
    BY DEF Iderw, Idle
  <2> QED
    BY <1>1, <1>6, <2>1, <2>2, <2>3 DEF TypeOK
<1>8. LruHoldsAll' /\ OneBufferPerBlock' /\ PanicMeansExhausted'
  BY <1>5, <1>6 DEF IInv, LruHoldsAll, OneBufferPerBlock, PanicMeansExhausted
<1>9. \A c \in Bufs : /\ Idle(c)' <=> Idle(c)
                      /\ c # b => flags'[c] = flags[c] /\ data'[c] = data[c]
  <2>1. \A c \in Bufs : c # b => flags'[c] = flags[c] /\ data'[c] = data[c]
    BY <1>1, <1>3, <1>6 DEF TypeOK
  <2>2. flags'[b] = (flags[b] \cup {"VALID"}) \ {"DIRTY"}
    BY <1>1, <1>3, <1>6 DEF TypeOK
  <2>3. "BUSY" \in flags[b] /\ "BUSY" \in flags'[b]
    BY <1>3, <2>2
  <2> QED
    BY <2>1, <2>3 DEF Idle
<1>10. BusyMeansHeld'
  <2>1. holds' = holds
    BY <1>6
  <2> QED
    BY <1>1, <1>9, <2>1 DEF BusyMeansHeld
<1>11. Coherent'
  <2>1. "DIRTY" \notin flags'[b] /\ "BUSY" \in flags'[b]
    BY <1>1, <1>3, <1>6 DEF TypeOK
  <2>2. data'[b] = disk'[k]
    BY <1>1, <1>3, <1>6 DEF TypeOK
  <2>3. ASSUME NEW c \in Bufs, c # b, "VALID" \in flags[c]
        PROVE  disk'[sector[c]] = disk[sector[c]]
    <3>1. sector[c] # k
      BY <1>1, <1>3, <2>3, BCacheAssumption DEF OneBufferPerBlock, k
    <3>2. sector[c] \in Blocks
      BY <1>1, <2>3 DEF TypeOK, HeldHaveBlocks
    <3> QED
      BY <1>1, <1>6, <3>1, <3>2 DEF TypeOK
  <2> SUFFICES ASSUME NEW c \in Bufs
               PROVE  /\ "VALID" \in flags'[c] /\ "DIRTY" \notin flags'[c]
                          => data'[c] = disk'[sector'[c]]
                      /\ Idle(c)' => "DIRTY" \notin flags'[c]
    BY DEF Coherent
  <2>4. CASE c = b
    BY <1>6, <2>1, <2>2, <2>4 DEF k, Idle
  <2>5. CASE c # b
    <3>1. flags'[c] = flags[c] /\ data'[c] = data[c] /\ sector'[c] = sector[c] /\ (Idle(c)' <=> Idle(c))
      BY <1>6, <1>9, <2>5
    <3> QED
      BY <1>1, <2>3, <2>5, <3>1 DEF Coherent
  <2> QED
    BY <2>4, <2>5
<1>12. TransfersHeld'
  <2>1. \A q \in Procs : q # p => /\ pc'[q] = pc[q] /\ cur'[q] = cur[q] /\ holds'[q] = holds[q]
                                  /\ \A c \in holds[q] : flags'[c] = flags[c]
    BY <1>1, <1>3, <1>6 DEF TypeOK
  <2>2. pc'[p] = "user" /\ holds'[p] = holds[p]
    BY <1>1, <1>6 DEF TypeOK
  <2>3. \A c \in holds[p] : "DIRTY" \notin flags'[c]
    BY <1>1, <1>2, <1>3, <1>6 DEF TypeOK, TransfersHeld, b
  <2> QED
    BY <1>1, <2>1, <2>2, <2>3 DEF TransfersHeld
<1>13. HeldHaveBlocks'
  <2>1. k # NoBlock
    BY <1>3, BCacheAssumption
  <2> QED
    BY <1>1, <1>6, <1>9, <2>1 DEF TypeOK, HeldHaveBlocks, k
<1> QED
  BY <1>5, <1>7, <1>8, <1>10, <1>11, <1>12, <1>13 DEF IInv

\* bwrite: the holder's buffer is dirty until iderw has written it.
LEMMA BwriteInv ==
  ASSUME IInv, NEW p \in Procs, NEW b \in Bufs, NEW v \in Vals, Bwrite(p, b, v)
  PROVE  IInv'
<1>1. TypeOK /\ OneBufferPerBlock /\ BusyMeansHeld /\ Coherent /\ TransfersHeld /\ HeldHaveBlocks
  BY DEF IInv
<1>2. /\ b \in holds[p] /\ pc[p] = "user" /\ UNCHANGED <<lru, sector, disk, want, holds, chan>>
      /\ data' = [data EXCEPT ![b] = v] /\ flags' = [flags EXCEPT ![b] = @ \cup {"DIRTY"}]
      /\ cur' = [cur EXCEPT ![p] = b] /\ pc' = [pc EXCEPT ![p] = "write"]
      /\ panicked' = Idle(b)
  BY DEF Bwrite
<1>3. ~Idle(b) /\ \A q \in Procs : b \in holds[q] => q = p
  BY <1>2, Held
<1>4. ~panicked' /\ panicked' \in BOOLEAN
  BY <1>2, <1>3, Zenon DEF Idle
<1>5. TypeOK'
  BY <1>1, <1>2, <1>4 DEF TypeOK, Flag
<1>6. LruHoldsAll' /\ OneBufferPerBlock' /\ PanicMeansExhausted'
  BY <1>2, <1>4 DEF IInv, LruHoldsAll, OneBufferPerBlock, PanicMeansExhausted
<1>7. /\ \A c \in Bufs : Idle(c)' <=> Idle(c)
      /\ \A c \in Bufs : c # b => flags'[c] = flags[c] /\ data'[c] = data[c]
      /\ flags'[b] = flags[b] \cup {"DIRTY"}
  BY <1>1, <1>2 DEF TypeOK, Idle
<1>8. BusyMeansHeld'
  BY <1>1, <1>2, <1>7 DEF BusyMeansHeld
<1>9. Coherent'
  BY <1>1, <1>2, <1>3, <1>7 DEF Coherent
<1>10. TransfersHeld'
  <2>1. \A q \in Procs : q # p => /\ pc'[q] = pc[q] /\ cur'[q] = cur[q] /\ holds'[q] = holds[q]
                                  /\ \A c \in holds[q] : flags'[c] = flags[c]
    BY <1>1, <1>2, <1>3 DEF TypeOK
  <2>2. pc'[p] = "write" /\ cur'[p] = b /\ holds'[p] = holds[p] /\ "DIRTY" \in flags'[b]
    BY <1>1, <1>2 DEF TypeOK
  <2>3. \A c \in holds[p] : "DIRTY" \in flags'[c] => c = b
    BY <1>1, <1>2, <1>7 DEF TypeOK, TransfersHeld
  <2> QED
    BY <1>1, <1>2, <2>1, <2>2, <2>3 DEF TransfersHeld
<1>11. HeldHaveBlocks'
  BY <1>1, <1>2, <1>7 DEF TypeOK, HeldHaveBlocks
<1> QED
  BY <1>5, <1>6, <1>8, <1>9, <1>10, <1>11 DEF IInv

\* brelse's relinking loses no buffer.
LEMMA ToFrontHoldsAll ==
  ASSUME TypeOK, LruHoldsAll, NEW b \in Bufs
  PROVE  /\ ToFront(b) \in [Bufs -> Bufs]
         /\ \A c \in Bufs : \E i \in Bufs : ToFront(b)[i] = c
<1> DEFINE at == CHOOSE i \in Bufs : lru[i] = b
<1>1. at \in Bufs /\ lru[at] = b
  BY DEF LruHoldsAll
<1> HIDE DEF at
<1>2. ToFront(b) = [i \in Bufs |-> IF i = 1 THEN b ELSE IF i <= at THEN lru[i - 1] ELSE lru[i]]
  BY DEF ToFront, at
<1>3. \A i \in Bufs : i # 1 => i - 1 \in Bufs
  BY BCacheAssumption DEF Bufs
<1>4. ToFront(b) \in [Bufs -> Bufs]
  BY <1>2, <1>3 DEF TypeOK
<1>5. ASSUME NEW c \in Bufs PROVE \E i \in Bufs : ToFront(b)[i] = c
  <2>1. PICK j \in Bufs : lru[j] = c
    BY DEF LruHoldsAll
  <2>2. CASE j > at
    <3>1. ToFront(b)[j] = c
      BY <1>1, <1>2, <2>1, <2>2 DEF Bufs
    <3> QED
      BY <3>1
  <2>3. CASE j < at
    <3>1. j + 1 \in Bufs /\ j + 1 # 1 /\ j + 1 <= at /\ (j + 1) - 1 = j
      BY <1>1, <2>3, BCacheAssumption DEF Bufs
    <3>2. ToFront(b)[j + 1] = c
      BY <1>2, <2>1, <3>1
    <3> QED
      BY <3>1, <3>2
  <2>4. CASE j = at
    <3>1. 1 \in Bufs /\ c = b
      BY <1>1, <2>1, <2>4, BCacheAssumption DEF Bufs
    <3>2. ToFront(b)[1] = c
      BY <1>2, <3>1
    <3> QED
      BY <3>1, <3>2
  <2> QED
    BY <1>1, <2>2, <2>3, <2>4 DEF Bufs
<1> QED
  BY <1>4, <1>5

\* brelse gives the buffer back, clean, at the front of the list.
LEMMA BrelseInv ==
  ASSUME IInv, NEW p \in Procs, NEW b \in Bufs, Brelse(p, b)
  PROVE  IInv'
<1>1. TypeOK /\ OneBufferPerBlock /\ BusyMeansHeld /\ Coherent /\ TransfersHeld /\ HeldHaveBlocks
  BY DEF IInv
<1>2. /\ b \in holds[p] /\ pc[p] = "user" /\ UNCHANGED <<sector, data, disk, pc, want, cur, chan>>
      /\ lru' = ToFront(b) /\ flags' = [flags EXCEPT ![b] = @ \ {"BUSY"}]
      /\ holds' = [holds EXCEPT ![p] = @ \ {b}] /\ panicked' = Idle(b)
  BY DEF Brelse
<1>3. ~Idle(b) /\ \A q \in Procs : b \in holds[q] => q = p
  BY <1>2, Held
<1>4. ~panicked' /\ panicked' \in BOOLEAN
  BY <1>2, <1>3, Zenon DEF Idle
<1>5. lru' \in [Bufs -> Bufs] /\ LruHoldsAll'
  BY <1>1, <1>2, ToFrontHoldsAll, Zenon DEF IInv, LruHoldsAll
<1>6. TypeOK'
  BY <1>1, <1>2, <1>4, <1>5, Zenon DEF TypeOK
<1>7. OneBufferPerBlock' /\ PanicMeansExhausted'
  BY <1>1, <1>2, <1>4 DEF OneBufferPerBlock, PanicMeansExhausted
<1>8. /\ \A c \in Bufs : c # b => flags'[c] = flags[c] /\ (Idle(c)' <=> Idle(c))
      /\ flags'[b] = flags[b] \ {"BUSY"} /\ Idle(b)'
  BY <1>1, <1>2 DEF TypeOK, Idle
<1>9. \A q \in Procs : \A c \in Bufs : c \in holds'[q] <=> c \in holds[q] /\ c # b
  BY <1>1, <1>2, <1>3 DEF TypeOK
<1>10. BusyMeansHeld'
  BY <1>1, <1>8, <1>9 DEF BusyMeansHeld
<1>11. Coherent'
  <2>1. "DIRTY" \notin flags[b]
    BY <1>1, <1>2 DEF TransfersHeld
  <2> QED
    BY <1>1, <1>2, <1>8, <2>1 DEF Coherent
<1>12. TransfersHeld'
  <2>1. \A q \in Procs : holds'[q] \subseteq holds[q] /\ (q # p => holds'[q] = holds[q])
    BY <1>1, <1>2 DEF TypeOK
  <2>2. \A q \in Procs : \A c \in holds[q] : c # b => flags'[c] = flags[c]
    BY <1>1, <1>8 DEF TypeOK
  <2>3. \A q \in Procs : \A c \in holds'[q] : flags'[c] = flags[c]
    BY <1>6, <1>9, <2>1, <2>2 DEF TypeOK
  <2>4. \A q \in Procs : pc[q] \in {"read", "write"} => cur[q] \in holds'[q]
    BY <1>1, <1>2, <2>1 DEF TransfersHeld
  <2> QED
    BY <1>1, <1>2, <2>1, <2>3, <2>4 DEF TransfersHeld
<1>13. HeldHaveBlocks'
  BY <1>1, <1>2, <1>8 DEF TypeOK, HeldHaveBlocks
<1> QED
  BY <1>5, <1>6, <1>7, <1>10, <1>11, <1>12, <1>13 DEF IInv

\* binit's empty cache satisfies IInv.
LEMMA InitInv == Init => IInv
<1> SUFFICES ASSUME Init PROVE IInv
  OBVIOUS
<1>1. NBUF \in Nat \ {0} /\ (CHOOSE v \in Vals : TRUE) \in Vals
  BY BCacheAssumption
<1>2. lru \in [Bufs -> Bufs]
  BY <1>1 DEF Init, Bufs
<1>3. data \in [Bufs -> Vals]
  BY <1>1 DEF Init
<1>4. TypeOK
  BY <1>2, <1>3, Zenon DEF Init, TypeOK
<1>5. LruHoldsAll
  <2> SUFFICES ASSUME NEW b \in Bufs PROVE \E i \in Bufs : lru[i] = b
    BY DEF LruHoldsAll
  <2>1. NBUF + 1 - b \in Bufs /\ NBUF + 1 - (NBUF + 1 - b) = b
    BY <1>1 DEF Bufs
  <2>2. lru[NBUF + 1 - b] = b
    BY <2>1 DEF Init
  <2> QED
    BY <2>1, <2>2
<1>6. OneBufferPerBlock /\ BusyMeansHeld /\ Coherent /\ TransfersHeld /\ HeldHaveBlocks
  BY DEF Init, OneBufferPerBlock, BusyMeansHeld, Coherent, TransfersHeld, HeldHaveBlocks, Idle
<1> QED
  BY <1>4, <1>5, <1>6 DEF Init, IInv, PanicMeansExhausted

\* Every step preserves IInv: one lemma above for each action.
LEMMA NextInv == IInv /\ [Next]_vars => IInv'
<1> SUFFICES ASSUME IInv, [Next]_vars PROVE IInv'
  OBVIOUS
<1>1. ASSUME NEW p \in Procs, NEW k \in Blocks, Bread(p, k) PROVE IInv'
  BY <1>1, BgetLoopInv DEF Bread
<1>2. ASSUME NEW p \in Procs, BgetRetry(p) PROVE IInv'
  <2>1. want[p] \in Blocks /\ pc[p] = "bget" /\ ~panicked /\ BgetLoop(p, want[p])
    BY <1>2 DEF IInv, TypeOK, HeldHaveBlocks, BgetRetry
  <2> QED
    BY <2>1, BgetLoopInv
<1>3. CASE UNCHANGED vars
  BY <1>3 DEF vars, cache, IInv, TypeOK, LruHoldsAll, OneBufferPerBlock, BusyMeansHeld, Coherent,
              TransfersHeld, HeldHaveBlocks, PanicMeansExhausted, Idle
<1> QED
  BY <1>1, <1>2, <1>3, IderwInv, BwriteInv, BrelseInv, KillInv DEF Next

\* IInv holds in every reachable state.
THEOREM BCacheInvariant == Spec => []IInv
  BY InitInv, NextInv, PTL DEF Spec

\* bget never gives a block a second buffer, whatever happened while it slept.
THEOREM BCacheOneBufferPerBlock == Spec => []OneBufferPerBlock
<1>1. IInv => OneBufferPerBlock
  BY DEF IInv
<1> QED
  BY <1>1, BCacheInvariant, PTL

\* Of the panics of bio.c and ide.c only "bget: no buffers" can happen, and only
\* when every buffer is held.
THEOREM BCachePanicMeansExhausted == Spec => []PanicMeansExhausted
<1>1. IInv => PanicMeansExhausted
  BY DEF IInv
<1> QED
  BY <1>1, BCacheInvariant, PTL

\* B_BUSY means one holder, and a buffer that is recycled has nothing to write.
THEOREM BCacheExclusive == Spec => [](BusyMeansHeld /\ Coherent)
<1>1. IInv => BusyMeansHeld /\ Coherent
  BY DEF IInv
<1> QED
  BY <1>1, BCacheInvariant, PTL

-----------------------------------------------------------------------------
(* The store of blocks *)

\* The store as the buffers and the disk show it.
View ==
  \A k \in Blocks :
    /\ \A b \in Bufs : sector[b] = k =>
         /\ Idle(b) => OwnerOf(k) = Nobody
         /\ \A p \in Procs : b \in holds[p] => OwnerOf(k) = p
         /\ ContentsOf(k) = IF "DIRTY" \in flags[b] THEN data[b] ELSE disk[k]
    /\ (\A b \in Bufs : sector[b] # k) => OwnerOf(k) = Nobody /\ ContentsOf(k) = disk[k]

\* A cached block belongs to the holder of its buffer, which has its contents
\* while it is dirty; a block that is not cached belongs to nobody.
LEMMA ViewHolds == IInv => View
<1> SUFFICES ASSUME IInv, NEW k \in Blocks
             PROVE  /\ \A b \in Bufs : sector[b] = k =>
                         /\ Idle(b) => OwnerOf(k) = Nobody
                         /\ \A p \in Procs : b \in holds[p] => OwnerOf(k) = p
                         /\ ContentsOf(k) = IF "DIRTY" \in flags[b] THEN data[b] ELSE disk[k]
                    /\ (\A b \in Bufs : sector[b] # k) => OwnerOf(k) = Nobody /\ ContentsOf(k) = disk[k]
  BY DEF View
<1>1. TypeOK /\ OneBufferPerBlock /\ BusyMeansHeld /\ k # NoBlock
  BY BCacheAssumption DEF IInv
<1> DEFINE ps == {p \in Procs : \E c \in holds[p] : sector[c] = k}
           bs == {c \in Cached(k) : "DIRTY" \in flags[c]}
<1>2. OwnerOf(k) = IF ps = {} THEN Nobody ELSE CHOOSE p \in ps : TRUE
  BY DEF OwnerOf
<1>3. ContentsOf(k) = IF bs = {} THEN disk[k] ELSE data[CHOOSE c \in bs : TRUE]
  BY DEF ContentsOf
<1>4. ASSUME NEW b \in Bufs, sector[b] = k
      PROVE  /\ Idle(b) => ps = {}
             /\ \A p \in Procs : b \in holds[p] => ps = {p}
             /\ bs = IF "DIRTY" \in flags[b] THEN {b} ELSE {}
  <2>1. ps = {p \in Procs : b \in holds[p]}
    BY <1>1, <1>4 DEF TypeOK, OneBufferPerBlock
  <2>2. bs = IF "DIRTY" \in flags[b] THEN {b} ELSE {}
    BY <1>1, <1>4 DEF OneBufferPerBlock, Cached
  <2> QED
    BY <1>1, <2>1, <2>2 DEF BusyMeansHeld
<1>5. (\A b \in Bufs : sector[b] # k) => ps = {} /\ bs = {}
  BY <1>1 DEF TypeOK, Cached
<1> QED
  BY <1>2, <1>3, <1>4, <1>5, Zenon

\* The same for the state after a step.
LEMMA ViewPrime == IInv' => View'
  BY ViewHolds, PTL

\* A block whose buffer a step leaves alone keeps its owner and contents.
LEMMA Kept ==
  ASSUME IInv, IInv', NEW j \in Blocks, NEW c \in Bufs, sector[c] = j, sector'[c] = j,
         flags'[c] = flags[c], data'[c] = data[c], disk'[j] = disk[j],
         \A q \in Procs : c \in holds'[q] <=> c \in holds[q]
  PROVE  OwnerOf(j)' = OwnerOf(j) /\ ContentsOf(j)' = ContentsOf(j)
<1>1. View /\ View' /\ (Idle(c)' <=> Idle(c))
  BY ViewHolds, ViewPrime DEF Idle
<1>2. ContentsOf(j)' = ContentsOf(j)
  BY <1>1 DEF View
<1>3. CASE Idle(c)
  BY <1>1, <1>2, <1>3 DEF View
<1>4. CASE ~Idle(c)
  <2>1. PICK q \in Procs : c \in holds[q]
    BY <1>4 DEF IInv, BusyMeansHeld
  <2> QED
    BY <1>1, <1>2, <2>1 DEF View
<1> QED
  BY <1>3, <1>4

\* So does one that is not cached.
LEMMA KeptUncached ==
  ASSUME IInv, IInv', NEW j \in Blocks, \A c \in Bufs : sector[c] # j,
         \A c \in Bufs : sector'[c] # j, disk'[j] = disk[j]
  PROVE  OwnerOf(j)' = OwnerOf(j) /\ ContentsOf(j)' = ContentsOf(j)
  BY ViewHolds, ViewPrime DEF View

\* A hit or a miss that gets buffer b for block k is a Bread.
LEMMA TakeReads ==
  ASSUME IInv, IInv', NEW p \in Procs, NEW b \in Bufs, Idle(b), NEW k \in Blocks,
         NEW fl, fl = {"BUSY"} \/ (fl = flags[b] \cup {"BUSY"} /\ sector[b] = k),
         \A c \in Bufs : sector[c] = k => c = b,
         sector' = [sector EXCEPT ![b] = k], Take(p, b, fl), UNCHANGED <<data, disk>>
  PROVE  BlkStore!Bread(p, k)
<1>1. TypeOK /\ View /\ View' /\ TypeOK' /\ OneBufferPerBlock
  BY ViewHolds, ViewPrime DEF IInv
<1>2. "DIRTY" \notin flags[b] /\ "DIRTY" \notin fl
  BY DEF IInv, Coherent
<1>3. flags' = [flags EXCEPT ![b] = fl] /\ holds' = [holds EXCEPT ![p] = @ \cup {b}]
  BY DEF Take
<1>4. OwnerOf(k) = Nobody /\ ContentsOf(k) = disk[k]
  BY <1>1, <1>2 DEF View
<1>5. OwnerOf(k)' = p /\ ContentsOf(k)' = disk[k]
  <2>1. sector'[b] = k /\ flags'[b] = fl /\ b \in holds'[p]
    BY <1>1, <1>3 DEF TypeOK
  <2> QED
    BY <1>1, <1>2, <2>1 DEF View
<1>6. ASSUME NEW j \in Blocks, j # k
      PROVE  OwnerOf(j)' = OwnerOf(j) /\ ContentsOf(j)' = ContentsOf(j)
  <2>1. CASE sector[b] = j
    <3>1. OwnerOf(j) = Nobody /\ ContentsOf(j) = disk[j]
      BY <1>1, <1>2, <2>1 DEF View
    <3>2. \A c \in Bufs : sector'[c] # j
      BY <1>1, <1>6, <2>1, BCacheAssumption DEF TypeOK, OneBufferPerBlock
    <3>3. OwnerOf(j)' = Nobody /\ ContentsOf(j)' = disk[j]
      BY <1>1, <3>2 DEF View
    <3> QED
      BY <3>1, <3>3
  <2>2. ASSUME NEW c \in Bufs, sector[c] = j, c # b
        PROVE  OwnerOf(j)' = OwnerOf(j) /\ ContentsOf(j)' = ContentsOf(j)
    <3>1. sector'[c] = j /\ flags'[c] = flags[c] /\ data'[c] = data[c] /\ disk'[j] = disk[j]
      BY <1>1, <1>3, <2>2 DEF TypeOK
    <3>2. \A q \in Procs : c \in holds'[q] <=> c \in holds[q]
      BY <1>1, <1>3, <2>2 DEF TypeOK
    <3> QED
      BY <2>2, <3>1, <3>2, Kept
  <2>3. CASE \A c \in Bufs : sector[c] # j
    <3>1. \A c \in Bufs : sector'[c] # j
      BY <1>1, <1>6, <2>3 DEF TypeOK
    <3> QED
      BY <2>3, <3>1, KeptUncached
  <2> QED
    BY <2>1, <2>2, <2>3
<1> QED
  BY <1>4, <1>5, <1>6, Zenon DEF BlkStore!Bread

\* A step that touches only the buffer b leaves the other blocks alone.
LEMMA OthersKept ==
  ASSUME IInv, IInv', NEW b \in Bufs, sector' = sector,
         \A c \in Bufs : c # b => flags'[c] = flags[c] /\ data'[c] = data[c],
         \A j \in Blocks : j # sector[b] => disk'[j] = disk[j],
         \A c \in Bufs : c # b => \A q \in Procs : c \in holds'[q] <=> c \in holds[q],
         NEW j \in Blocks, j # sector[b]
  PROVE  OwnerOf(j)' = OwnerOf(j) /\ ContentsOf(j)' = ContentsOf(j)
<1>1. ASSUME NEW c \in Bufs, sector[c] = j
      PROVE  OwnerOf(j)' = OwnerOf(j) /\ ContentsOf(j)' = ContentsOf(j)
  <2>1. c # b /\ sector'[c] = j
    BY <1>1
  <2> QED
    BY <1>1, <2>1, Kept
<1> QED
  BY <1>1, KeptUncached

\* iderw is invisible: what it writes to the disk was the block's contents.
LEMMA IderwHidden ==
  ASSUME IInv, IInv', NEW p \in Procs, Iderw(p), NEW j \in Blocks
  PROVE  OwnerOf(j)' = OwnerOf(j) /\ ContentsOf(j)' = ContentsOf(j)
<1> DEFINE b == cur[p]
           k == sector[b]
<1>1. TypeOK /\ View /\ View' /\ b \in holds[p]
  <2>1. TypeOK /\ TransfersHeld
    BY DEF IInv
  <2>2. b \in holds[p]
    BY <2>1 DEF Iderw, TransfersHeld
  <2> QED
    BY <2>1, <2>2, ViewHolds, ViewPrime
<1>2. b \in Bufs /\ k \in Blocks
  BY <1>1, Held
<1>3. /\ UNCHANGED <<sector, holds>> /\ flags' = [flags EXCEPT ![b] = (@ \cup {"VALID"}) \ {"DIRTY"}]
      /\ \/ "DIRTY" \in flags[b] /\ disk' = [disk EXCEPT ![k] = data[b]] /\ data' = data
         \/ "DIRTY" \notin flags[b] /\ data' = [data EXCEPT ![b] = disk[k]] /\ disk' = disk
  BY DEF Iderw
<1> HIDE DEF b
<1>4. CASE j # k
  <2>1. \A c \in Bufs : c # b => flags'[c] = flags[c] /\ data'[c] = data[c]
    BY <1>1, <1>2, <1>3 DEF TypeOK
  <2>2. \A i \in Blocks : i # k => disk'[i] = disk[i]
    BY <1>1, <1>2, <1>3 DEF TypeOK
  <2> QED
    BY <1>2, <1>3, <1>4, <2>1, <2>2, OthersKept
<1>5. CASE j = k
  <2>1. sector'[b] = j /\ "DIRTY" \notin flags'[b]
    BY <1>1, <1>2, <1>3, <1>5 DEF TypeOK
  <2>2. ContentsOf(j)' = disk'[j]
    BY <1>1, <1>2, <2>1 DEF View
  <2>3. ContentsOf(j) = IF "DIRTY" \in flags[b] THEN data[b] ELSE disk[j]
    BY <1>1, <1>2, <1>5 DEF View
  <2>4. disk'[j] = IF "DIRTY" \in flags[b] THEN data[b] ELSE disk[j]
    BY <1>1, <1>2, <1>3, <1>5 DEF TypeOK
  <2>5. OwnerOf(j)' = p /\ OwnerOf(j) = p
    BY <1>1, <1>2, <1>3, <1>5 DEF View
  <2> QED
    BY <2>2, <2>3, <2>4, <2>5
<1> QED
  BY <1>4, <1>5

\* bwrite by the holder of the buffer is a Bwrite by the owner of the block.
LEMMA BwriteWrites ==
  ASSUME IInv, IInv', NEW p \in Procs, NEW b \in Bufs, NEW v \in Vals, Bwrite(p, b, v)
  PROVE  sector[b] \in Blocks /\ BlkStore!Bwrite(p, sector[b], v)
<1>1. TypeOK /\ View /\ View' /\ b \in holds[p]
  BY ViewHolds, ViewPrime, Zenon DEF IInv, Bwrite
<1>2. PICK k \in Blocks : sector[b] = k
  BY <1>1, Held
<1>3. /\ UNCHANGED <<sector, holds, disk>> /\ data' = [data EXCEPT ![b] = v]
      /\ flags' = [flags EXCEPT ![b] = @ \cup {"DIRTY"}]
  BY DEF Bwrite
<1>4. ASSUME NEW j \in Blocks, j # k
      PROVE  OwnerOf(j)' = OwnerOf(j) /\ ContentsOf(j)' = ContentsOf(j)
  <2>1. \A c \in Bufs : c # b => flags'[c] = flags[c] /\ data'[c] = data[c]
    BY <1>1, <1>3 DEF TypeOK
  <2> QED
    BY <1>2, <1>3, <1>4, <2>1, OthersKept, Zenon
<1>5. OwnerOf(k) = p /\ OwnerOf(k)' = p
  BY <1>1, <1>2, <1>3, Zenon DEF View
<1>6. ContentsOf(k)' = v
  <2>1. sector'[b] = k /\ "DIRTY" \in flags'[b] /\ data'[b] = v
    BY <1>1, <1>2, <1>3 DEF TypeOK
  <2> QED
    BY <1>1, <2>1 DEF View
<1>7. BlkStore!Bwrite(p, k, v)
  BY <1>4, <1>5, <1>6, Zenon DEF BlkStore!Bwrite
<1> QED
  BY <1>2, <1>7

\* brelse by the holder of the buffer is a Brelse by the owner of the block.
LEMMA BrelseReleases ==
  ASSUME IInv, IInv', NEW p \in Procs, NEW b \in Bufs, Brelse(p, b)
  PROVE  sector[b] \in Blocks /\ BlkStore!Brelse(p, sector[b])
<1>1. TypeOK /\ View /\ View' /\ b \in holds[p] /\ pc[p] = "user"
  BY ViewHolds, ViewPrime DEF IInv, Brelse
<1>2. PICK k \in Blocks : sector[b] = k
  BY <1>1, Held
<1>3. /\ UNCHANGED <<sector, data, disk>> /\ holds' = [holds EXCEPT ![p] = @ \ {b}]
      /\ flags' = [flags EXCEPT ![b] = @ \ {"BUSY"}]
  BY DEF Brelse
<1>4. ASSUME NEW j \in Blocks, j # k
      PROVE  OwnerOf(j)' = OwnerOf(j) /\ ContentsOf(j)' = ContentsOf(j)
  <2>1. \A c \in Bufs : c # b => flags'[c] = flags[c] /\ data'[c] = data[c]
    BY <1>1, <1>3 DEF TypeOK
  <2>2. \A c \in Bufs : c # b => \A q \in Procs : c \in holds'[q] <=> c \in holds[q]
    BY <1>1, <1>3 DEF TypeOK
  <2> QED
    BY <1>2, <1>3, <1>4, <2>1, <2>2, OthersKept, Zenon
<1>5. OwnerOf(k) = p
  BY <1>1, <1>2 DEF View
<1>6. OwnerOf(k)' = Nobody /\ ContentsOf(k)' = ContentsOf(k)
  <2>1. "DIRTY" \notin flags[b]
    BY <1>1, Zenon DEF IInv, TransfersHeld
  <2>2. sector'[b] = k /\ "DIRTY" \notin flags'[b] /\ Idle(b)'
    BY <1>1, <1>2, <1>3, <2>1 DEF TypeOK, Idle
  <2>3. ContentsOf(k) = disk[k]
    BY <1>1, <1>2, <2>1, Zenon DEF View
  <2> QED
    BY <1>1, <1>3, <2>2, <2>3 DEF View
<1>7. BlkStore!Brelse(p, k)
  BY <1>4, <1>5, <1>6, Zenon DEF BlkStore!Brelse
<1> QED
  BY <1>2, <1>7

\* A pass of bget's loop is a Bread if it gets a buffer, and else invisible.
LEMMA BgetReads ==
  ASSUME IInv, IInv', NEW p \in Procs, NEW k \in Blocks, BgetLoop(p, k)
  PROVE  BlkStore!Bread(p, k) \/ UNCHANGED <<cache, disk, holds>>
<1>1. TypeOK /\ OneBufferPerBlock /\ k # NoBlock
  BY BCacheAssumption DEF IInv
<1>2. CASE Hit(p, k)
  <2>1. PICK b \in Cached(k) : Idle(b) /\ Take(p, b, flags[b] \cup {"BUSY"})
    BY <1>2 DEF Hit, NotBusy
  <2> DEFINE fl == flags[b] \cup {"BUSY"}
  <2>2. /\ b \in Bufs /\ sector[b] = k /\ \A c \in Bufs : sector[c] = k => c = b
        /\ fl = flags[b] \cup {"BUSY"} /\ Take(p, b, fl) /\ UNCHANGED <<sector, data, disk>>
    BY <1>1, <1>2, <2>1 DEF Hit, Cached, OneBufferPerBlock
  <2> HIDE DEF fl
  <2>3. sector' = [sector EXCEPT ![b] = k]
    BY <1>1, <2>2 DEF TypeOK
  <2> QED
    BY <2>1, <2>2, <2>3, TakeReads, Zenon
<1>3. CASE Miss(p, k)
  <2>1. PICK i \in Bufs : /\ Idle(lru[i]) /\ sector' = [sector EXCEPT ![lru[i]] = k]
                          /\ Take(p, lru[i], {"BUSY"})
    BY <1>3, Zenon DEF Miss, NewFlags
  <2> DEFINE b  == lru[i]
             fl == {"BUSY"}
  <2>2. /\ b \in Bufs /\ Idle(b) /\ \A c \in Bufs : sector[c] = k => c = b
        /\ fl = {"BUSY"} /\ sector' = [sector EXCEPT ![b] = k] /\ Take(p, b, fl)
        /\ UNCHANGED <<data, disk>>
    BY <1>1, <1>3, <2>1, Zenon DEF TypeOK, Miss, NotCached, Cached
  <2> HIDE DEF b, fl
  <2> QED
    BY <2>2, TakeReads, Zenon
<1>4. CASE BusyHit(p, k) \/ NoBuffers(p, k)
  BY <1>4 DEF BusyHit, NoBuffers
<1> QED
  BY <1>2, <1>3, <1>4 DEF BgetLoop

\* The cache implements the store of blocks: between bread and brelse a block
\* belongs to one process, and what it reads is what was last written, whether
\* the buffer was recycled in between or not.
THEOREM BCacheImplementsBlockStore == Spec => ImplementsBlockStore
<1> DEFINE store == [k \in Blocks |-> ContentsOf(k)]
           owner == [k \in Blocks |-> OwnerOf(k)]
<1>1. Init => BlkStore!Init
  <2> SUFFICES ASSUME Init PROVE BlkStore!Init
    OBVIOUS
  <2>1. IInv /\ View
    BY InitInv, ViewHolds
  <2>2. \A k \in Blocks : \A b \in Bufs : sector[b] # k
    BY BCacheAssumption DEF Init
  <2>3. \A k \in Blocks : OwnerOf(k) = Nobody /\ ContentsOf(k) = disk[k]
    BY <2>1, <2>2 DEF View
  <2>4. disk \in [Blocks -> Vals]
    BY DEF Init
  <2> QED
    BY <2>3, <2>4 DEF BlkStore!Init
<1>2. IInv /\ IInv' /\ [Next]_vars => [BlkStore!Next]_<<store, owner>>
  <2> SUFFICES ASSUME IInv, IInv', [Next]_vars
               PROVE  BlkStore!Next \/ UNCHANGED <<store, owner>>
    OBVIOUS
  <2>1. UNCHANGED <<cache, disk, holds>> => UNCHANGED <<store, owner>>
    BY DEF cache, ContentsOf, OwnerOf, Cached
  <2>2. ASSUME NEW p \in Procs, NEW k \in Blocks, Bread(p, k)
        PROVE  BlkStore!Next \/ UNCHANGED <<store, owner>>
    BY <2>1, <2>2, BgetReads DEF Bread, BlkStore!Next
  <2>3. ASSUME NEW p \in Procs, BgetRetry(p)
        PROVE  BlkStore!Next \/ UNCHANGED <<store, owner>>
    <3>1. want[p] \in Blocks /\ BgetLoop(p, want[p])
      BY <2>3 DEF IInv, TypeOK, HeldHaveBlocks, BgetRetry
    <3> QED
      BY <2>1, <3>1, BgetReads DEF BlkStore!Next
  <2>4. ASSUME NEW p \in Procs, Iderw(p) PROVE UNCHANGED <<store, owner>>
    BY <2>4, IderwHidden
  <2>5. ASSUME NEW p \in Procs, NEW b \in Bufs, Brelse(p, b) PROVE BlkStore!Next
    BY <2>5, BrelseReleases DEF BlkStore!Next
  <2>6. ASSUME NEW p \in Procs, NEW b \in Bufs, NEW v \in Vals, Bwrite(p, b, v) PROVE BlkStore!Next
    BY <2>6, BwriteWrites DEF BlkStore!Next
  <2>7. ASSUME NEW p \in Procs, Kill(p) \/ KilledExit(p) PROVE UNCHANGED <<store, owner>>
    BY <2>1, <2>7 DEF Kill, KilledExit
  <2>8. CASE UNCHANGED vars
    BY <2>1, <2>8 DEF vars
  <2> HIDE DEF store, owner
  <2> QED
    BY <2>2, <2>3, <2>4, <2>5, <2>6, <2>7, <2>8 DEF Next
<1> QED
  BY <1>1, <1>2, BCacheInvariant, PTL DEF Spec, ImplementsBlockStore, BlkStore!Spec
=============================================================================
