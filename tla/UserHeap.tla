------------------------------ MODULE UserHeap ------------------------------
(***************************************************************************)
(* malloc and free of user programs (umalloc.c) over sbrk.                 *)
(*                                                                         *)
(* Addresses and sizes are in units of a Header.  `base' is at address 0,  *)
(* below the heap, as a program's data is.  A turn of a loop is a step.    *)
(* The program mallocs, frees what it got, and moves the break itself.     *)
(* The memory is its headers: size has those of all blocks and ptr those   *)
(* of the blocks on the list; the rest is data, and reading a header there *)
(* is an error of the model.                                               *)
(***************************************************************************)
EXTENDS Naturals

CONSTANTS HeapTop,     \* sbrk fails above it
          NALLOC,      \* the least that morecore asks for: 4096 in the code
          Requests     \* nunits of the program's requests

VARIABLES brk,
          size, ptr,   \* s.size and s.ptr of the headers
          freep,       \* NULL before the first malloc
          hpc,         \* "user", or where malloc or free is
          nunits, bp, p, prevp,
          given,       \* the blocks the program has, by their header
          core         \* history: the units that morecore got

heapvars == <<brk, size, ptr, freep, hpc, nunits, bp, p, prevp, given, core>>

base == 0
NULL == HeapTop

-----------------------------------------------------------------------------
\* malloc(nbytes), with the list set up at the first call.
Malloc(n) ==
  /\ hpc = "user"
  /\ hpc' = "malloc" /\ nunits' = n
  /\ IF freep = NULL
     THEN /\ freep' = base /\ prevp' = base /\ p' = base
          /\ ptr' = [a \in {base} |-> base] /\ size' = [a \in {base} |-> 0]
     ELSE prevp' = freep /\ p' = ptr[freep] /\ UNCHANGED <<freep, ptr, size>>
  /\ UNCHANGED <<brk, bp, given, core>>

Fits == size[p] >= nunits

With(f, a, v) == [b \in DOMAIN f \cup {a} |-> IF b = a THEN v ELSE f[b]]
Unlinked(f, a) == [b \in DOMAIN f \ {a} |-> f[b]]
Return == hpc' = "user" /\ nunits' = 0 /\ bp' = 0 /\ p' = 0 /\ prevp' = 0

\* Where the tail that is cut off begins.
Cut == p + size[p] - nunits

\* The block fits: unlink it, or cut off its tail.
MallocTake ==
  /\ hpc = "malloc" /\ Fits
  /\ freep' = prevp /\ Return
  /\ IF size[p] = nunits
     THEN /\ ptr' = Unlinked([ptr EXCEPT ![prevp] = ptr[p]], p)
          /\ given' = given \cup {p}
          /\ UNCHANGED size
     ELSE /\ size' = With([size EXCEPT ![p] = @ - nunits], Cut, nunits)
          /\ given' = given \cup {Cut}
          /\ UNCHANGED ptr
  /\ UNCHANGED <<brk, core>>

MallocNext ==
  /\ hpc = "malloc" /\ ~Fits /\ p # freep
  /\ prevp' = p /\ p' = ptr[p]
  /\ UNCHANGED <<brk, size, ptr, freep, hpc, nunits, bp, given, core>>

\* Round the list without a fit: morecore, and malloc fails if sbrk does.
Morecore ==
  LET nu == IF nunits < NALLOC THEN NALLOC ELSE nunits
  IN  /\ hpc = "malloc" /\ ~Fits /\ p = freep
      /\ IF brk + nu > HeapTop
         THEN Return /\ UNCHANGED <<brk, size, core>>
         ELSE /\ brk' = brk + nu
              /\ size' = With(size, brk, nu)
              /\ core' = core \cup (brk .. brk + nu - 1)
              /\ bp' = brk /\ p' = freep /\ hpc' = "core"
              /\ UNCHANGED <<nunits, prevp>>
      /\ UNCHANGED <<ptr, freep, given>>

\* free(ap), of a block that malloc returned.
Free(b) ==
  /\ hpc = "user" /\ b \in given
  /\ given' = given \ {b}
  /\ bp' = b /\ p' = freep /\ hpc' = "free"
  /\ UNCHANGED <<brk, size, ptr, freep, nunits, prevp, core>>

\* Where the search stops: bp lies between p and its successor, or outside the
\* list at its end.
Found == \/ p < bp /\ bp < ptr[p]
         \/ p >= ptr[p] /\ (p < bp \/ bp < ptr[p])

FreeNext ==
  /\ hpc \in {"free", "core"} /\ ~Found
  /\ p' = ptr[p]
  /\ UNCHANGED <<brk, size, ptr, freep, hpc, nunits, bp, prevp, given, core>>

\* Whether bp ends where the next free block begins, and a join that is left out.
JoinsNot(b) == FALSE
JoinsUp(b) == b + size[b] = ptr[p]

\* Link bp in after p, joined with the block above it and the block below it.
FreeLink ==
  LET up   == JoinsUp(bp)
      down == p + size[p] = bp
      n    == IF up THEN size[bp] + size[ptr[p]] ELSE size[bp]
      nx   == IF up THEN ptr[ptr[p]] ELSE ptr[p]
  IN  /\ hpc \in {"free", "core"} /\ Found
      /\ size' = LET f == IF up THEN Unlinked(size, ptr[p]) ELSE size
                 IN  IF down THEN Unlinked([f EXCEPT ![p] = @ + n], bp)
                     ELSE [f EXCEPT ![bp] = n]
      /\ ptr' = LET f == IF up THEN Unlinked(ptr, ptr[p]) ELSE ptr
                IN  IF down THEN [f EXCEPT ![p] = nx]
                    ELSE With([f EXCEPT ![p] = bp], bp, nx)
      /\ freep' = p
      /\ IF hpc = "free" THEN Return
         ELSE /\ hpc' = "malloc" /\ prevp' = p /\ p' = ptr'[p]     \* p = freep, and the next turn
              /\ UNCHANGED <<nunits, bp>>
      /\ UNCHANGED <<brk, given, core>>

\* The program's own sbrk(1).
Sbrk ==
  /\ hpc = "user" /\ brk < HeapTop
  /\ brk' = brk + 1
  /\ UNCHANGED <<size, ptr, freep, hpc, nunits, bp, p, prevp, given, core>>

HeapInit ==
  /\ brk = 1
  /\ size = << >> /\ ptr = << >>
  /\ freep = NULL /\ hpc = "user"
  /\ nunits = 0 /\ bp = 0 /\ p = 0 /\ prevp = 0
  /\ given = {} /\ core = {}

HeapNext ==
  \/ \E n \in Requests : Malloc(n)
  \/ MallocTake \/ MallocNext \/ Morecore
  \/ \E b \in given : Free(b)
  \/ FreeNext \/ FreeLink
  \/ Sbrk

-----------------------------------------------------------------------------
(* Properties *)

Block(a) == a .. a + size[a] - 1

\* Between two calls the memory that sbrk gave is cut up exactly into what the
\* program has and what is on the list: nothing is lost and nothing is given
\* twice.  The list is in the order of addresses, goes round through base, and
\* no two blocks on it touch.
HeapExact ==
  hpc = "user" /\ freep # NULL =>
    LET fb == DOMAIN ptr \ {base}
        all == fb \cup given
    IN  /\ core = UNION {Block(a) : a \in all}
        /\ fb \cap given = {}
        /\ \A a, b \in all : a # b => Block(a) \cap Block(b) = {}
        /\ \A a \in fb \cup {base} :
             LET above == {b \in fb : b > a}
             IN  /\ IF above = {} THEN ptr[a] = base
                    ELSE ptr[a] \in above /\ \A b \in above : ptr[a] <= b
                 /\ a \in fb => a + size[a] \notin fb
        /\ freep \in fb \cup {base}

\* malloc and free return: neither search goes round for ever, also when the
\* block lies outside the list or morecore has just changed it.
HeapCallsReturn == hpc # "user" ~> hpc = "user"
=============================================================================
