-------------------------------- MODULE Heap --------------------------------
(***************************************************************************)
(* The kernel heap of src/cpu/x86/heap.c: a chain of block headers from    *)
(* heap_start to heap_end, best-fit allocation with splitting, and kfree   *)
(* with its walk that merges free neighbours.                              *)
(*                                                                         *)
(* Addresses and block sizes are in granules of HEAP_ALIGNMENT bytes,      *)
(* relative to heap_start.  The checksum of a header is modelled as a copy *)
(* of the fields it was computed from, so a header is intact when its      *)
(* checksum equals its fields; the magic number, which always agrees with  *)
(* the FREE and USED flags, is part of `used'.  Memory that is not a       *)
(* header is Wild.  No interrupt handler uses the heap and no process is   *)
(* preempted in it, so one call runs at a time; the merging walk of kfree  *)
(* takes one step per iteration of its loop and keeps other calls out.     *)
(***************************************************************************)
EXTENDS Naturals, FiniteSets

CONSTANTS
  HEAP_SIZE,      \* granules of the heap
  WORD,           \* 2^64: size_t arithmetic is modulo WORD
  REQUESTS        \* the sizes, in bytes, asked of kmalloc

HEAP_ALIGNMENT == 16
HEADER         == 3      \* sizeof(struct heap_block) is 48 bytes
HEAP_MIN_SIZE  == 1      \* 16 bytes

ASSUME HeapSizeAssumption == HEAP_SIZE \in Nat /\ HEAP_SIZE >= 2 * HEADER + HEAP_MIN_SIZE
ASSUME WordAssumption == WORD \in Nat \ {0}
ASSUME RequestsAssumption == REQUESTS \subseteq Nat

Addr == 0..(HEAP_SIZE - 1)
NULL == HEAP_SIZE
End  == HEAP_SIZE - HEADER    \* block sizes add up to HEAP_SIZE - sizeof(header)

VARIABLES
  blocks,   \* history: the addresses of the headers in the chain
  hdr,      \* the header fields found at an address
  sum,      \* the checksum found there: the fields it was computed from
  cur,      \* the walk of heap_coalesce_free_blocks, NULL outside kfree
  want,     \* history: the bytes the owner of a used block asked for
  freed     \* history: pointers freed whose header is not yet overwritten

vars == <<blocks, hdr, sum, cur, want, freed>>

Header == [size : 0..HEAP_SIZE, used : BOOLEAN, last : BOOLEAN,
           prev : Addr \cup {NULL}, next : Addr \cup {NULL}]
Wild == [size |-> 0, used |-> FALSE, last |-> FALSE, prev |-> NULL, next |-> NULL]

TypeOK ==
  /\ blocks \subseteq Addr
  /\ hdr \in [Addr -> Header] /\ sum \in [Addr -> Header]
  /\ cur \in blocks \cup {NULL}
  /\ want \in [Addr -> Nat]
  /\ freed \subseteq Addr

(* heap_init: one free block spans the heap.                               *)
Init ==
  LET first == [Wild EXCEPT !.size = End, !.last = TRUE] IN
  /\ blocks = {0}
  /\ hdr = [a \in Addr |-> IF a = 0 THEN first ELSE Wild]
  /\ sum = hdr
  /\ cur = NULL
  /\ want = [a \in Addr |-> 0]
  /\ freed = {}

-----------------------------------------------------------------------------
(* heap_validate_block, for an address that may hold a header.             *)
heap_validate_block(b) == sum[b] = hdr[b] /\ hdr[b].size # 0 /\ hdr[b].size <= HEAP_SIZE

Used == {b \in blocks : hdr[b].used}
FreeBlocks == blocks \ Used

(* kmalloc's total_size: room for the header, rounded up to the alignment, *)
(* and at least a minimal block.                                           *)
Total(bytes) ==
  LET n == ((bytes + HEADER * HEAP_ALIGNMENT + HEAP_ALIGNMENT - 1) % WORD) \div HEAP_ALIGNMENT
  IN  IF n < HEADER + HEAP_MIN_SIZE THEN HEADER + HEAP_MIN_SIZE ELSE n

(* heap_find_best_fit: the smallest free block that is large enough, the   *)
(* first of them in the chain.  Mutant of Fits: not a perfect fit.         *)
FitsStrictly(n) == {b \in FreeBlocks : hdr[b].size > n}
Fits(n) == {b \in FreeBlocks : hdr[b].size >= n}
heap_find_best_fit(n) ==
  CHOOSE b \in Fits(n) : \A c \in Fits(n) :
    hdr[b].size < hdr[c].size \/ (hdr[b].size = hdr[c].size /\ b <= c)

Interior(b, n) == (b + 1)..(b + n - 1)

(* Whether kmalloc splits: the surplus must exceed a minimal block.        *)
Splits(b, n) == hdr[b].size > n + HEADER + HEAP_MIN_SIZE

(* Mutant of Patched: the successor's back pointer changes, its checksum   *)
(* does not.                                                               *)
PatchedStale(s, h, nx, p) == s
(* The checksum written when the back pointer of nx is redirected.         *)
Patched(s, h, nx, p) == [s EXCEPT ![nx] = [h[nx] EXCEPT !.prev = p]]

(* kmalloc with its heap_split_block: block b of n granules is handed out  *)
(* and its memory is the owner's; the surplus becomes a free block, whose  *)
(* checksum is computed before heap_split_block sets its LAST flag.        *)
Handed(b, n) == [hdr[b] EXCEPT !.size = n, !.used = TRUE,
                   !.last = IF n = hdr[b].size THEN @ ELSE FALSE,
                   !.next = IF n = hdr[b].size THEN @ ELSE b + n]
Remainder(b, n) == [Wild EXCEPT !.size = hdr[b].size - n, !.prev = b, !.next = hdr[b].next]
kmalloc(bytes) ==
  LET b  == heap_find_best_fit(Total(bytes))
      n  == IF Splits(b, Total(bytes)) THEN Total(bytes) ELSE hdr[b].size
      nx == hdr[b].next
      Write(f, rest, patched) ==
        [a \in Addr |-> IF a = b THEN Handed(b, n)
                        ELSE IF a \in Interior(b, n) THEN Wild
                        ELSE IF n < hdr[b].size /\ a = b + n THEN rest
                        ELSE IF n < hdr[b].size /\ a = nx THEN patched[a]
                        ELSE f[a]]
      rest == Remainder(b, n)
  IN /\ cur = NULL
     /\ bytes # 0
     /\ Fits(Total(bytes)) # {}
     /\ blocks' = IF n < hdr[b].size THEN blocks \cup {b + n} ELSE blocks
     /\ hdr' = Write(hdr, [rest EXCEPT !.last = (nx = NULL)],
                     [a \in Addr |-> [hdr[a] EXCEPT !.prev = b + n]])
     /\ sum' = Write(sum, rest, IF nx = NULL THEN sum ELSE Patched(sum, hdr, nx, b + n))
     /\ want' = [want EXCEPT ![b] = bytes]
     /\ freed' = freed \ (b..(b + n - 1))
     /\ UNCHANGED cur

Unused(b) == [hdr[b] EXCEPT !.used = FALSE]

(* kfree of a live pointer: an invalid header is refused; otherwise the    *)
(* block is freed, its memory is poisoned, and the merging walk starts.    *)
kfree(b) ==
  LET h == Unused(b)
      Write(f) == [a \in Addr |-> IF a = b THEN h
                                  ELSE IF a \in Interior(b, h.size) THEN Wild
                                  ELSE f[a]]
  IN /\ cur = NULL
     /\ b \in Used
     /\ heap_validate_block(b)
     /\ hdr' = Write(hdr) /\ sum' = Write(sum)
     /\ cur' = 0
     /\ want' = [want EXCEPT ![b] = 0]
     /\ freed' = freed \cup {b}
     /\ UNCHANGED blocks

(* Mutant of Mergeable: the walk looks at the successor only.              *)
MergeableAny(c) == hdr[c].next # NULL /\ ~ hdr[hdr[c].next].used
(* Whether heap_coalesce_free_blocks merges block c with its successor.    *)
Mergeable(c) == ~ hdr[c].used /\ hdr[c].next # NULL /\ ~ hdr[hdr[c].next].used

(* After merging, the walk looks at the same block again.                  *)
AfterMerge(c) == c

(* One iteration of heap_coalesce_free_blocks at c: absorb a free          *)
(* successor and stay, or go on to the next block.                         *)
Merge(c) ==
  LET n  == hdr[c].next
      nx == hdr[n].next
      h  == [hdr[c] EXCEPT !.size = @ + hdr[n].size, !.next = nx,
                           !.last = @ \/ nx = NULL]
  IN /\ cur = c
     /\ Mergeable(c)
     /\ hdr' = [a \in Addr |-> IF a = c THEN h
                               ELSE IF a = nx THEN [hdr[a] EXCEPT !.prev = c] ELSE hdr[a]]
     /\ sum' = [a \in Addr |-> IF a = c THEN h
                               ELSE IF a = nx THEN Patched(sum, hdr, nx, c)[a] ELSE sum[a]]
     /\ blocks' = blocks \ {n}
     /\ cur' = AfterMerge(c)
     /\ UNCHANGED <<want, freed>>

Advance(c) ==
  /\ cur = c
  /\ ~ Mergeable(c)
  /\ cur' = hdr[c].next
  /\ UNCHANGED <<blocks, hdr, sum, want, freed>>

heap_coalesce_free_blocks == \E c \in blocks : Merge(c) \/ Advance(c)

Next ==
  \/ \E bytes \in REQUESTS : kmalloc(bytes)
  \/ \E b \in blocks : kfree(b)
  \/ heap_coalesce_free_blocks

Spec == Init /\ [][Next]_vars

-----------------------------------------------------------------------------
(* The chain tiles the heap: each block's successor starts where the block *)
(* ends, back pointers are right, no header lies inside another block.     *)
(* This is what heap_split_block and heap_coalesce_free_blocks must keep.  *)
Tiled ==
  /\ TypeOK
  /\ 0 \in blocks /\ hdr[0].prev = NULL
  /\ \A b \in blocks :
       /\ hdr[b].size >= HEADER + HEAP_MIN_SIZE /\ b + hdr[b].size <= End
       /\ \A c \in blocks : c <= b \/ b + hdr[b].size <= c
       /\ hdr[b].last = (hdr[b].next = NULL)
       /\ IF b + hdr[b].size = End
          THEN hdr[b].next = NULL
          ELSE /\ hdr[b].next = b + hdr[b].size /\ hdr[b].next \in blocks
               /\ hdr[hdr[b].next].prev = b

(* A pointer that kmalloc has handed out is good until it is freed and no  *)
(* longer: its block has at least the bytes asked for ("allocate at least  *)
(* size bytes") and a header that kfree accepts; after that the header a   *)
(* second kfree finds, merged away or not, is never a valid used one       *)
(* ("Guards against double-free").                                         *)
PointersSound ==
  /\ \A b \in Used : /\ heap_validate_block(b)
                     /\ (hdr[b].size - HEADER) * HEAP_ALIGNMENT >= want[b]
  /\ \A b \in freed : ~ (heap_validate_block(b) /\ hdr[b].used)

(* Between any two iterations of kfree's walk, and between calls, the      *)
(* chain tiles the heap and the pointers handed out are good.              *)
HeapSound == Tiled /\ PointersSound

(* kmalloc fails only for want of room: when no free block fits, no        *)
(* stretch of free blocks would do either.                                 *)
FreeStretch(a, n) == a + n <= End /\ \A b \in Used : a + n <= b \/ b + hdr[b].size <= a
RoomIsFound ==
  cur = NULL => \A bytes \in REQUESTS \ {0} :
    Fits(Total(bytes)) = {} => \A a \in Addr : ~ FreeStretch(a, Total(bytes))

(* The heap implements the allocator its callers rely on.                  *)
Extents == {[start |-> b, len |-> hdr[b].size] : b \in Used}
Alloc == INSTANCE Allocator WITH ArenaEnd <- End, extents <- Extents
Implements == Alloc!Spec

=============================================================================
