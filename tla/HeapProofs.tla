----------------------------- MODULE HeapProofs -----------------------------
(***************************************************************************)
(* The heap of src/cpu/x86/heap.c stays tiled, hands out blocks that are   *)
(* large enough, finds room whenever there is some and implements the      *)
(* allocator its callers rely on: for every size of the heap and all       *)
(* requests that leave room in a size_t for the header and the rounding.   *)
(***************************************************************************)
EXTENDS Heap, NaturalFacts

(* The requests whose total size does not wrap around.                     *)
RequestsFit == \A r \in REQUESTS : r + HEADER * HEAP_ALIGNMENT + HEAP_ALIGNMENT - 1 < WORD

(* A used block has an intact header; what is left of merged headers is    *)
(* not marked used; no freed pointer is in use.                            *)
BlocksGood ==
  /\ \A b \in Used : sum[b] = hdr[b]
  /\ \A a \in Addr \ blocks : ~ hdr[a].used
  /\ \A a \in freed : ~ hdr[a].used

(* Every granule below End lies in a block of the chain.                   *)
Covered == \A a \in Addr : a < End => \E b \in blocks : b <= a /\ a < b + hdr[b].size

(* The walk leaves no two free neighbours behind it: outside kfree, where  *)
(* cur is NULL and past every block, there are none.                       *)
MergedBehind == \A b \in blocks : b < cur => ~ Mergeable(b)

(* A used block has room for what its owner asked for.                     *)
WantsMet == \A b \in Used : (hdr[b].size - HEADER) * HEAP_ALIGNMENT >= want[b]

(* What every step of kmalloc and kfree keeps.                             *)
HeapInv == Tiled /\ BlocksGood /\ Covered /\ MergedBehind

-----------------------------------------------------------------------------
(* What Tiled says of one block.                                           *)
LEMMA Constants ==
  /\ HEAP_SIZE \in Nat /\ End \in Nat /\ End = HEAP_SIZE - 3 /\ NULL = HEAP_SIZE /\ End >= 4
  /\ \A a \in Addr : a \in Nat /\ a < NULL
  /\ \A a \in Nat : a < NULL => a \in Addr
  /\ NULL \notin Addr
BY HeapSizeAssumption DEF End, NULL, Addr, HEADER, HEAP_MIN_SIZE

(* The fields of a header.                                                 *)
LEMMA HeaderTypes ==
  ASSUME NEW h \in Header
  PROVE  /\ h.size \in 0..HEAP_SIZE /\ h.size \in Nat /\ h.used \in BOOLEAN /\ h.last \in BOOLEAN
         /\ h.prev \in Addr \cup {NULL} /\ h.next \in Addr \cup {NULL}
BY Constants DEF Header

(* Bytes that are no header read as a free block of no size.               *)
LEMMA WildHeader ==
  /\ Wild \in Header /\ Wild.size = 0 /\ Wild.used = FALSE
BY Constants DEF Header, Wild

(* What the tiling says of one block and its neighbour.                    *)
LEMMA BlockFacts ==
  ASSUME Tiled, NEW b \in blocks
  PROVE  /\ b \in Addr /\ b \in Nat /\ hdr[b] \in Header /\ hdr[b].size \in Nat
         /\ hdr[b].size >= 4 /\ b + hdr[b].size <= End
         /\ \A c \in blocks : c <= b \/ b + hdr[b].size <= c
         /\ hdr[b].next = IF b + hdr[b].size = End THEN NULL ELSE b + hdr[b].size
         /\ hdr[b].next # NULL => /\ hdr[b].next = b + hdr[b].size /\ hdr[b].next \in blocks
                                 /\ hdr[hdr[b].next].prev = b
         /\ hdr[b].last = (hdr[b].next = NULL)
<1>1. b \in Addr /\ hdr[b] \in Header
  BY DEF Tiled, TypeOK
<1>2. b \in Nat /\ hdr[b].size \in Nat
  BY <1>1, Constants, HeaderTypes
<1>3. b + hdr[b].size \in Nat /\ (b + hdr[b].size <= End => b + hdr[b].size # NULL)
  BY <1>2, Constants
<1> QED  BY <1>1, <1>2, <1>3 DEF Tiled, HEADER, HEAP_MIN_SIZE

(* The first of the smallest blocks that fit exists.                       *)
LEMMA BestFit ==
  ASSUME Tiled, NEW n \in Nat, Fits(n) # {}
  PROVE  heap_find_best_fit(n) \in Fits(n)
<1> DEFINE S == {hdr[b].size : b \in Fits(n)}
<1>1. \A b \in Fits(n) : b \in Nat /\ hdr[b].size \in Nat
  BY BlockFacts DEF Fits, FreeBlocks
<1>2. S \in SUBSET Nat /\ S # {}
  BY <1>1
<1>3. PICK z \in S : \A y \in S : z <= y
  BY <1>2, LeastElement, Zenon
<1> DEFINE T == {b \in Fits(n) : hdr[b].size = z}
<1>4. T \in SUBSET Nat /\ T # {}
  BY <1>1, <1>3
<1>5. PICK b \in T : \A c \in T : b <= c
  BY <1>4, LeastElement, Zenon
<1>6. ASSUME NEW c \in Fits(n)
      PROVE  hdr[b].size < hdr[c].size \/ (hdr[b].size = hdr[c].size /\ b <= c)
  <2>1. z <= hdr[c].size /\ z \in Nat /\ hdr[c].size \in Nat
    BY <1>1, <1>3
  <2>2. hdr[b].size = z
    BY <1>5
  <2>3. hdr[c].size = z => b <= c
    BY <1>5
  <2> QED  BY <2>1, <2>2, <2>3
<1>7. b \in Fits(n)
  BY <1>5
<1>8. \E x \in Fits(n) : \A c \in Fits(n) :
         hdr[x].size < hdr[c].size \/ (hdr[x].size = hdr[c].size /\ x <= c)
  BY <1>6, <1>7
<1> HIDE DEF S, T
<1> QED  BY <1>8 DEF heap_find_best_fit

(* kmalloc's total size is never less than a minimal block, and has room   *)
(* for the header and for what was asked.                                  *)
LEMMA TotalMinimal ==
  ASSUME NEW bytes \in REQUESTS
  PROVE  Total(bytes) \in Nat /\ Total(bytes) >= 4
<1> DEFINE x == (bytes + HEADER * HEAP_ALIGNMENT + HEAP_ALIGNMENT - 1) % WORD
<1>1. x \in Nat
  BY RequestsAssumption, WordAssumption DEF HEADER, HEAP_ALIGNMENT
<1>2. Total(bytes) = IF x \div 16 < 4 THEN 4 ELSE x \div 16
  BY DEF Total, HEADER, HEAP_ALIGNMENT, HEAP_MIN_SIZE
<1> HIDE DEF x
<1>3. x \div 16 \in Nat
  BY <1>1
<1> QED  BY <1>2, <1>3

(* The block kmalloc looks for has room for the request, unless the size   *)
(* wraps around.                                                           *)
LEMMA TotalRoom ==
  ASSUME RequestsFit, NEW bytes \in REQUESTS
  PROVE  (Total(bytes) - 3) * 16 >= bytes
<1> DEFINE x == bytes + 63
<1>1. bytes \in Nat /\ x < WORD /\ WORD \in Nat \ {0}
  BY RequestsAssumption, WordAssumption DEF RequestsFit, HEADER, HEAP_ALIGNMENT
<1>2. x \in Nat /\ x % WORD = x
  BY <1>1
<1>3. bytes + HEADER * HEAP_ALIGNMENT + HEAP_ALIGNMENT - 1 = x
  BY <1>1 DEF HEADER, HEAP_ALIGNMENT
<1>4. Total(bytes) = IF x \div 16 < 4 THEN 4 ELSE x \div 16
  BY <1>2, <1>3 DEF Total, HEADER, HEAP_ALIGNMENT, HEAP_MIN_SIZE
<1>5. x \div 16 \in Nat /\ 16 * (x \div 16) >= x - 15
  BY <1>2
<1> QED  BY <1>1, <1>4, <1>5

-----------------------------------------------------------------------------
(* kmalloc turns the free block b into a used one of n granules and, when  *)
(* there is a surplus, a free one behind it.                               *)
Same(h, g) == h.size = g.size /\ h.used = g.used /\ h.last = g.last /\ h.next = g.next

Allocates(b, n, bytes) ==
  LET size == hdr[b].size
      nx   == hdr[b].next IN
  /\ b \in FreeBlocks /\ n \in Nat /\ n >= Total(bytes) /\ n >= 4 /\ n <= size
  /\ n < size => size - n >= 4
  /\ cur = NULL /\ cur' = NULL
  /\ blocks' = IF n < size THEN blocks \cup {b + n} ELSE blocks
  /\ hdr' \in [Addr -> Header] /\ sum' \in [Addr -> Header]
  /\ hdr'[b].size = n /\ hdr'[b].used /\ hdr'[b].prev = hdr[b].prev /\ sum'[b] = hdr'[b]
  /\ n = size => hdr'[b].last = hdr[b].last /\ hdr'[b].next = nx
  /\ n < size => /\ ~ hdr'[b].last /\ hdr'[b].next = b + n /\ b + n \in Addr \ blocks
                 /\ hdr'[b + n].size = size - n /\ ~ hdr'[b + n].used
                 /\ hdr'[b + n].prev = b /\ hdr'[b + n].next = nx
                 /\ hdr'[b + n].last = (nx = NULL)
                 /\ nx # NULL => hdr'[nx].prev = b + n
  /\ \A c \in blocks \ {b} : Same(hdr'[c], hdr[c]) /\ (sum[c] = hdr[c] => sum'[c] = hdr'[c])
  /\ \A c \in blocks \ {b} : n = size \/ c # nx => hdr'[c] = hdr[c]
  /\ \A a \in Addr \ blocks : ~ hdr[a].used => ~ hdr'[a].used
  /\ want' = [want EXCEPT ![b] = bytes] /\ freed' = freed \ (b..(b + n - 1))

(* kmalloc takes one free block and keeps all of it, or splits it.         *)
LEMMA KmallocEffect ==
  ASSUME Tiled, NEW bytes \in REQUESTS, kmalloc(bytes)
  PROVE  \E b \in FreeBlocks, n \in Nat : Allocates(b, n, bytes)
<1> DEFINE t    == Total(bytes)
           b    == heap_find_best_fit(t)
           size == hdr[b].size
           n    == IF Splits(b, t) THEN t ELSE size
           nx   == hdr[b].next
           rest == Remainder(b, n)
           last == [rest EXCEPT !.last = (nx = NULL)]
           h    == Handed(b, n)
           back == [hdr[nx] EXCEPT !.prev = b + n]
           New(f, r, p) == [a \in Addr |-> IF a = b THEN h
                              ELSE IF a \in Interior(b, n) THEN Wild
                              ELSE IF n < size /\ a = b + n THEN r
                              ELSE IF n < size /\ a = nx THEN p
                              ELSE f[a]]
<1>1. t \in Nat /\ t >= 4
  BY TotalMinimal
<1> HIDE DEF t
<1>2. /\ cur = NULL /\ Fits(t) # {} /\ cur' = cur
      /\ blocks' = IF n < size THEN blocks \cup {b + n} ELSE blocks
      /\ want' = [want EXCEPT ![b] = bytes] /\ freed' = freed \ (b..(b + n - 1))
  BY DEF kmalloc, t
<1>3. b \in Fits(t)
  BY <1>1, <1>2, BestFit
<1>4. b \in FreeBlocks /\ b \in blocks /\ size >= t /\ hdr[b].used = FALSE
  BY <1>3, BlockFacts, HeaderTypes DEF Fits, FreeBlocks, Used
<1>5. /\ b \in Addr /\ b \in Nat /\ size \in Nat /\ b + size <= End /\ hdr[b] \in Header
      /\ \A c \in blocks : c <= b \/ b + size <= c
      /\ nx = IF b + size = End THEN NULL ELSE b + size
      /\ nx # NULL => nx \in blocks /\ nx = b + size
  BY <1>4, BlockFacts
<1>6. TypeOK /\ hdr \in [Addr -> Header] /\ sum \in [Addr -> Header] /\ blocks \subseteq Addr
  BY DEF Tiled, TypeOK
<1>7. /\ hdr' = [a \in Addr |-> IF a = b THEN h
                              ELSE IF a \in Interior(b, n) THEN Wild
                              ELSE IF n < size /\ a = b + n THEN last
                              ELSE IF n < size /\ a = nx
                                   THEN [x \in Addr |-> [hdr[x] EXCEPT !.prev = b + n]][a]
                              ELSE hdr[a]]
      /\ sum' = [a \in Addr |-> IF a = b THEN h
                              ELSE IF a \in Interior(b, n) THEN Wild
                              ELSE IF n < size /\ a = b + n THEN rest
                              ELSE IF n < size /\ a = nx
                                   THEN (IF nx = NULL THEN sum ELSE Patched(sum, hdr, nx, b + n))[a]
                              ELSE sum[a]]
  BY DEF kmalloc, t
<1> HIDE DEF b
<1>8. n \in Nat /\ n >= t /\ n <= size /\ (n < size => size - n >= 4) /\ n >= 4
  BY <1>1, <1>4, <1>5 DEF Splits, HEADER, HEAP_MIN_SIZE
<1>9. n < size => b + n \in Addr \ blocks
  BY <1>5, <1>8, Constants
<1> HIDE DEF n, size, nx
<1>10. /\ hdr' = New(hdr, last, back) /\ sum' = New(sum, rest, back)
  <2>1. \A a \in Addr : a = nx =>
          /\ [x \in Addr |-> [hdr[x] EXCEPT !.prev = b + n]][a] = back
          /\ (IF nx = NULL THEN sum ELSE Patched(sum, hdr, nx, b + n))[a] = back
    BY <1>6, Constants DEF Patched
  <2> QED  BY <1>7, <2>1
<1>11. /\ h \in Header /\ h.size = n /\ h.used = TRUE /\ h.prev = hdr[b].prev
       /\ n = size => h.last = hdr[b].last /\ h.next = nx
       /\ n < size => h.last = FALSE /\ h.next = b + n
  <2>1. h = [hdr[b] EXCEPT !.size = n, !.used = TRUE,
                   !.last = IF n = size THEN hdr[b].last ELSE FALSE,
                   !.next = IF n = size THEN nx ELSE b + n]
    BY DEF Handed, size, nx
  <2>2. n \in 0..HEAP_SIZE
    BY <1>5, <1>8, Constants
  <2> HIDE DEF h
  <2>3. PICK g \in Header : g = hdr[b]
    BY <1>5
  <2>4. CASE n = size
    <3>1. PICK l \in BOOLEAN, x \in Addr \cup {NULL} : l = g.last /\ x = nx
      BY <2>3, HeaderTypes DEF nx
    <3>2. h = [g EXCEPT !.size = n, !.used = TRUE, !.last = l, !.next = x]
      BY <2>1, <2>3, <2>4, <3>1
    <3>3. /\ h \in Header /\ h.size = n /\ h.used = TRUE /\ h.prev = g.prev
          /\ h.last = l /\ h.next = x
      BY <2>2, <3>2, Zenon DEF Header
    <3> QED  BY <1>5, <1>8, <2>3, <2>4, <3>1, <3>3
  <2>5. CASE n < size
    <3>1. n # size
      BY <1>5, <1>8, <2>5
    <3>2. PICK x \in Addr \cup {NULL} : x = b + n
      BY <1>9, <2>5
    <3>3. h = [g EXCEPT !.size = n, !.used = TRUE, !.last = FALSE, !.next = x]
      BY <2>1, <2>3, <3>1, <3>2
    <3>4. /\ h \in Header /\ h.size = n /\ h.used = TRUE /\ h.prev = g.prev
          /\ h.last = FALSE /\ h.next = x
      BY <2>2, <3>3, Zenon DEF Header
    <3> QED  BY <2>3, <3>1, <3>2, <3>4
  <2>6. n = size \/ n < size
    BY <1>5, <1>8
  <2> QED  BY <2>4, <2>5, <2>6, Zenon
<1>12. /\ n < size => rest \in Header
       /\ n < size => /\ last \in Header /\ last.size = size - n /\ last.used = FALSE
                      /\ last.prev = b /\ last.next = nx /\ last.last = (nx = NULL)
  <2>1. n < size => size - n \in 0..HEAP_SIZE
    BY <1>5, <1>8, Constants
  <2>2. nx \in Addr \cup {NULL}
    BY <1>5, HeaderTypes DEF nx
  <2>3. rest = [Wild EXCEPT !.size = size - n, !.prev = b, !.next = nx]
    BY DEF Remainder, size, nx
  <2>4. n < size => rest \in Header /\ rest.size = size - n /\ rest.used = FALSE
                    /\ rest.prev = b /\ rest.next = nx
    BY <1>5, <2>1, <2>2, <2>3, WildHeader, Zenon DEF Header
  <2>5. (nx = NULL) \in BOOLEAN
    OBVIOUS
  <2>6. ASSUME NEW g \in Header, NEW x \in BOOLEAN
        PROVE  /\ [g EXCEPT !.last = x] \in Header /\ [g EXCEPT !.last = x].last = x
               /\ [g EXCEPT !.last = x].size = g.size /\ [g EXCEPT !.last = x].used = g.used
               /\ [g EXCEPT !.last = x].prev = g.prev /\ [g EXCEPT !.last = x].next = g.next
    BY DEF Header
  <2> QED  BY <2>4, <2>5, <2>6, Zenon
<1>13. nx # NULL /\ n < size => /\ back \in Header /\ back.prev = b + n /\ Same(back, hdr[nx])
                               /\ nx \in Addr /\ nx \notin b..(b + n) /\ hdr[nx] \in Header
  <2>1. ASSUME nx # NULL, n < size
        PROVE  nx \in Addr /\ hdr[nx] \in Header /\ nx \notin b..(b + n) /\ b + n \in Addr
    BY <1>5, <1>6, <1>8, <1>9, <2>1
  <2>2. ASSUME nx # NULL, n < size
        PROVE  back \in Header /\ back.prev = b + n /\ Same(back, hdr[nx])
    BY <2>1, <2>2 DEF Header, Same
  <2> QED  BY <2>1, <2>2
<1> HIDE DEF h, rest, last, back
<1>14. nx \in Addr => nx # NULL
  BY Constants
<1>15. hdr' \in [Addr -> Header] /\ sum' \in [Addr -> Header]
  <2>1. ASSUME NEW f \in [Addr -> Header], NEW r, n < size => r \in Header
        PROVE  New(f, r, back) \in [Addr -> Header]
    <3>1. ASSUME NEW a \in Addr
          PROVE  (IF a = b THEN h ELSE IF a \in Interior(b, n) THEN Wild
                  ELSE IF n < size /\ a = b + n THEN r
                  ELSE IF n < size /\ a = nx THEN back ELSE f[a]) \in Header
      BY <1>11, <1>13, <1>14, <2>1, WildHeader
    <3> QED  BY <3>1
  <2> QED  BY <1>6, <1>10, <1>12, <2>1
<1>16. /\ hdr'[b] = h /\ sum'[b] = h
  BY <1>5, <1>10
<1>17. n < size => hdr'[b + n] = last
  BY <1>5, <1>8, <1>9, <1>10 DEF Interior
<1>18. nx # NULL /\ n < size => hdr'[nx] = back /\ sum'[nx] = back
  BY <1>5, <1>8, <1>10, <1>13 DEF Interior
<1>19. ASSUME NEW c \in blocks \ {b}, n = size \/ c # nx
       PROVE  hdr'[c] = hdr[c] /\ sum'[c] = sum[c]
  <2>1. c \in Addr /\ c \in Nat /\ (c < b \/ b + size <= c)
    BY <1>5, <1>6, BlockFacts
  <2>2. c \notin Interior(b, n) /\ (n < size => c # b + n)
    BY <1>5, <1>8, <2>1 DEF Interior
  <2>3. ~ (n < size /\ c = nx)
    BY <1>5, <1>8, <1>19
  <2> QED  BY <1>10, <2>1, <2>2, <2>3
<1>20. ASSUME NEW c \in blocks \ {b}
       PROVE  Same(hdr'[c], hdr[c]) /\ (sum[c] = hdr[c] => sum'[c] = hdr'[c])
  <2>1. CASE n = size \/ c # nx
    BY <1>19, <2>1 DEF Same
  <2>2. CASE n < size /\ c = nx
    BY <1>6, <1>13, <1>14, <1>18, <2>2
  <2>3. n = size \/ n < size
    BY <1>5, <1>8
  <2> QED  BY <2>1, <2>2, <2>3
<1>21. ASSUME NEW a \in Addr \ blocks, ~ hdr[a].used
       PROVE  ~ hdr'[a].used
  <2>1. a # b /\ a # nx
    BY <1>4, <1>5, <1>14
  <2>2. hdr'[a] \in {Wild, hdr[a]} \/ (n < size /\ hdr'[a] = last)
    BY <1>10, <2>1
  <2> QED  BY <1>12, <1>21, <2>2, WildHeader
<1>22. Allocates(b, n, bytes)
  <2>1. nx = hdr[b].next /\ size = hdr[b].size /\ cur' = NULL
    BY <1>2 DEF nx, size
  <2>2. n < size =>
          /\ ~ hdr'[b].last /\ hdr'[b].next = b + n /\ b + n \in Addr \ blocks
          /\ hdr'[b + n].size = size - n /\ ~ hdr'[b + n].used
          /\ hdr'[b + n].prev = b /\ hdr'[b + n].next = nx
          /\ hdr'[b + n].last = (nx = NULL)
          /\ nx # NULL => hdr'[nx].prev = b + n
    BY <1>9, <1>11, <1>12, <1>13, <1>16, <1>17, <1>18
  <2>3. /\ hdr'[b].size = n /\ hdr'[b].used /\ hdr'[b].prev = hdr[b].prev /\ sum'[b] = hdr'[b]
        /\ n = size => hdr'[b].last = hdr[b].last /\ hdr'[b].next = nx
    BY <1>11, <1>16
  <2>4. b \in FreeBlocks /\ n \in Nat /\ n >= Total(bytes) /\ n >= 4 /\ n <= size /\ (n < size => size - n >= 4)
    BY <1>4, <1>8 DEF t
  <2>5. \A c \in blocks \ {b} : n = size \/ c # nx => hdr'[c] = hdr[c]
    BY <1>19
  <2> QED  BY <1>2, <1>15, <1>20, <1>21, <2>1, <2>2, <2>3, <2>4, <2>5 DEF Allocates
<1> QED  BY <1>4, <1>8, <1>22

(* Tiled, for one block.                                                   *)
TiledAt(b) ==
  /\ hdr[b].size >= HEADER + HEAP_MIN_SIZE /\ b + hdr[b].size <= End
  /\ \A c \in blocks : c <= b \/ b + hdr[b].size <= c
  /\ hdr[b].last = (hdr[b].next = NULL)
  /\ IF b + hdr[b].size = End
     THEN hdr[b].next = NULL
     ELSE /\ hdr[b].next = b + hdr[b].size /\ hdr[b].next \in blocks
          /\ hdr[hdr[b].next].prev = b

(* The tiling is a fact about each block.                                  *)
LEMMA TiledByBlock ==
  Tiled <=> TypeOK /\ 0 \in blocks /\ hdr[0].prev = NULL /\ \A b \in blocks : TiledAt(b)
BY DEF Tiled, TiledAt

(* kmalloc keeps the chain tiled.                                          *)
LEMMA KmallocTiled ==
  ASSUME Tiled, NEW bytes \in REQUESTS, NEW b \in FreeBlocks, NEW n \in Nat, Allocates(b, n, bytes)
  PROVE  Tiled'
<1> DEFINE size == hdr[b].size
           nx   == hdr[b].next
<1>1. /\ b \in blocks /\ b \in Addr /\ b \in Nat /\ size \in Nat /\ size >= 4 /\ b + size <= End
      /\ \A c \in blocks : c <= b \/ b + size <= c
      /\ nx = IF b + size = End THEN NULL ELSE b + size
      /\ nx # NULL => nx = b + size /\ nx \in blocks
      /\ hdr[b].last = (nx = NULL)
  BY BlockFacts DEF FreeBlocks
<1>2. /\ n >= 4 /\ n <= size /\ (n < size => size - n >= 4)
      /\ cur' = NULL /\ blocks' = IF n < size THEN blocks \cup {b + n} ELSE blocks
      /\ hdr' \in [Addr -> Header] /\ sum' \in [Addr -> Header]
      /\ hdr'[b].size = n /\ hdr'[b].prev = hdr[b].prev
      /\ n = size => hdr'[b].last = hdr[b].last /\ hdr'[b].next = nx
      /\ n < size => /\ ~ hdr'[b].last /\ hdr'[b].next = b + n /\ b + n \in Addr \ blocks
                     /\ hdr'[b + n].size = size - n
                     /\ hdr'[b + n].prev = b /\ hdr'[b + n].next = nx
                     /\ hdr'[b + n].last = (nx = NULL)
                     /\ nx # NULL => hdr'[nx].prev = b + n
      /\ \A c \in blocks \ {b} : Same(hdr'[c], hdr[c])
      /\ \A c \in blocks \ {b} : n = size \/ c # nx => hdr'[c] = hdr[c]
      /\ want' = [want EXCEPT ![b] = bytes] /\ freed' = freed \ (b..(b + n - 1))
  BY DEF Allocates
<1>3. n = size \/ n < size
  BY <1>1, <1>2
<1>4. /\ blocks \subseteq Addr /\ 0 \in blocks /\ hdr[0].prev = NULL
      /\ want \in [Addr -> Nat] /\ freed \subseteq Addr
  BY DEF Tiled, TypeOK
<1> HIDE DEF size, nx
<1>5. TypeOK'
  <2>1. blocks' \subseteq Addr
    BY <1>2, <1>4
  <2>2. want' \in [Addr -> Nat]
    BY <1>1, <1>2, <1>4, RequestsAssumption
  <2> QED  BY <1>2, <1>4, <2>1, <2>2 DEF TypeOK
<1>6. 0 \in blocks' /\ hdr'[0].prev = NULL
  <2>1. n < size /\ nx # NULL => nx # 0
    BY <1>1, <1>2
  <2>2. n < size => nx = NULL \/ nx # 0
    BY <2>1
  <2>3. nx = NULL => 0 # nx
    BY <1>4, Constants
  <2>4. CASE b = 0
    BY <1>2, <1>4, <2>4
  <2>5. CASE b # 0
    BY <1>2, <1>3, <1>4, <2>2, <2>3, <2>5
  <2> QED  BY <2>4, <2>5
<1>7. \A c \in blocks' : c = b \/ (n < size /\ c = b + n) \/ c \in blocks \ {b}
  BY <1>2
<1>8. TiledAt(b)'
  <2>1. \A c \in blocks' : c <= b \/ b + n <= c
    <3>1. \A c \in blocks : c \in Nat
      BY BlockFacts
    <3>2. n \in Nat /\ n <= size
      BY <1>2
    <3>3. ASSUME NEW c \in blocks  PROVE c <= b \/ b + n <= c
      BY <1>1, <3>1, <3>2
    <3>4. b + n <= b + n
      BY <1>1, <3>2
    <3> QED  BY <1>1, <1>7, <3>3, <3>4, Zenon
  <2>2. hdr'[b].size >= HEADER + HEAP_MIN_SIZE /\ b + hdr'[b].size <= End
    BY <1>1, <1>2, Constants DEF HEADER, HEAP_MIN_SIZE
  <2>3. CASE n < size
    <3>1. b + n # End /\ b + n \in blocks' /\ b + n # NULL
      BY <1>1, <1>2, <2>3, Constants
    <3>2. hdr'[b].last \in BOOLEAN
      BY <1>1, <1>2, HeaderTypes
    <3>3. hdr'[b].last = (hdr'[b].next = NULL)
      BY <1>2, <2>3, <3>1, <3>2
    <3>4. /\ hdr'[b].size = n /\ hdr'[b].next = b + hdr'[b].size /\ b + hdr'[b].size # End
          /\ hdr'[b].next \in blocks' /\ hdr'[hdr'[b].next].prev = b
      BY <1>2, <2>3, <3>1
    <3> QED  BY <2>1, <2>2, <3>3, <3>4 DEF TiledAt
  <2>4. CASE n = size
    <3>1. nx # NULL => nx # b /\ nx \in blocks /\ hdr'[nx].prev = hdr[nx].prev /\ hdr[nx].prev = b
      <4>1. nx # NULL => nx # b /\ nx \in blocks
        BY <1>1
      <4>2. nx # NULL => hdr[nx].prev = b
        BY <1>1, BlockFacts DEF nx
      <4> QED  BY <1>2, <2>4, <4>1, <4>2
    <3>2. b + size # End => nx = b + size /\ nx # NULL
      BY <1>1, Constants
    <3>3. hdr'[b].last = (hdr'[b].next = NULL) /\ hdr'[b].next = nx /\ hdr'[b].size = size
      BY <1>1, <1>2, <2>4
    <3>4. ~ (n < size) /\ blocks' = blocks
      BY <1>1, <1>2, <2>4
    <3>5. b + size = End => nx = NULL
      BY <1>1
    <3> QED  BY <2>1, <2>2, <2>4, <3>1, <3>2, <3>3, <3>4, <3>5 DEF TiledAt
  <2> QED  BY <1>3, <2>3, <2>4
<1>9. ASSUME n < size  PROVE TiledAt(b + n)'
  <2>1. (b + n) + (size - n) = b + size
    BY <1>1, <1>2
  <2>2. \A c \in blocks' : c <= b + n \/ b + size <= c
    <3>1. \A c \in blocks : c \in Nat
      BY BlockFacts
    <3> QED  BY <1>1, <1>2, <1>7, <1>9, <3>1
  <2>3. hdr'[b + n].size >= HEADER + HEAP_MIN_SIZE
    BY <1>1, <1>2, <1>9 DEF HEADER, HEAP_MIN_SIZE
  <2>4. b + size # End => nx = b + size /\ nx # NULL /\ nx \in blocks'
    BY <1>1, <1>2, Constants
  <2> QED  BY <1>1, <1>2, <1>9, <2>1, <2>2, <2>3, <2>4 DEF TiledAt
<1>10. ASSUME NEW c \in blocks \ {b}  PROVE TiledAt(c)'
  <2>1. /\ c \in Nat /\ hdr[c].size \in Nat /\ TiledAt(c) /\ c # b
    BY BlockFacts, TiledByBlock
  <2>2. Same(hdr'[c], hdr[c])
    BY <1>2
  <2>3. \A d \in blocks' : d <= c \/ c + hdr[c].size <= d
    <3>1. c <= b \/ b + size <= c
      BY <1>1
    <3>2. c + hdr[c].size <= b \/ b <= c
      BY <1>1, <2>1 DEF TiledAt
    <3>3. n < size => b + n <= c \/ c + hdr[c].size <= b + n
      BY <1>1, <1>2, <2>1, <3>1, <3>2
    <3> QED  BY <1>1, <1>7, <2>1, <3>2, <3>3, Zenon DEF TiledAt
  <2>4. c + hdr[c].size # End => /\ hdr[c].next \in blocks /\ hdr[hdr[c].next].prev = c
                                /\ hdr[c].next = c + hdr[c].size
    BY <2>1 DEF TiledAt
  <2>5. c + hdr[c].size # End => hdr'[hdr[c].next].prev = c
    <3>1. CASE hdr[c].next = b
      BY <1>2, <2>4, <3>1
    <3>2. CASE hdr[c].next = nx /\ nx \in blocks
      <4>1. nx # NULL
        BY <1>4, <3>2, Constants
      <4>2. c + hdr[c].size # End => c = b
        BY <1>1, <2>4, <3>2, <4>1, BlockFacts DEF nx
      <4> QED  BY <2>1, <4>2
    <3>3. CASE hdr[c].next # b /\ hdr[c].next # nx
      BY <1>2, <2>4, <3>3
    <3> QED  BY <2>4, <3>1, <3>2, <3>3
  <2>6. hdr[c].next \in blocks => hdr[c].next \in blocks'
    BY <1>2
  <2> QED  BY <2>1, <2>2, <2>3, <2>4, <2>5, <2>6 DEF TiledAt, Same
<1>11. \A c \in blocks' : TiledAt(c)'
  BY <1>7, <1>8, <1>9, <1>10
<1> QED  BY <1>5, <1>6, <1>11 DEF Tiled, TiledAt

(* What kmalloc changes of the blocks in use.                              *)
LEMMA KmallocUsed ==
  ASSUME Tiled, NEW bytes \in REQUESTS, NEW b \in FreeBlocks, NEW n \in Nat, Allocates(b, n, bytes)
  PROVE  /\ Used' = Used \cup {b} /\ b \notin Used /\ b \in blocks
         /\ \A c \in Used : c # b /\ c \in blocks /\ hdr'[c].size = hdr[c].size
<1>1. b \in blocks /\ b \notin Used
  BY DEF FreeBlocks
<1>2. /\ blocks' = IF n < hdr[b].size THEN blocks \cup {b + n} ELSE blocks
      /\ hdr'[b].used /\ (n < hdr[b].size => ~ hdr'[b + n].used)
      /\ \A c \in blocks \ {b} : Same(hdr'[c], hdr[c])
  BY DEF Allocates
<1>3. \A c \in blocks \ {b} : hdr'[c].used = hdr[c].used /\ hdr'[c].size = hdr[c].size
  BY <1>2 DEF Same
<1>4. \A c : c \in Used' <=> c \in blocks' /\ hdr'[c].used
  BY DEF Used
<1>5. \A c : c \in Used <=> c \in blocks /\ hdr[c].used
  BY DEF Used
<1>6. \A c : c \in Used' <=> c \in Used \/ c = b
  BY <1>1, <1>2, <1>3, <1>4, <1>5
<1> QED  BY <1>1, <1>3, <1>5, <1>6

(* kmalloc keeps the invariant.                                            *)
LEMMA KmallocStep ==
  ASSUME HeapInv, NEW bytes \in REQUESTS, kmalloc(bytes)
  PROVE  HeapInv'
<1>1. Tiled
  BY DEF HeapInv
<1>2. PICK b \in FreeBlocks, n \in Nat : Allocates(b, n, bytes)
  BY <1>1, KmallocEffect
<1> DEFINE size == hdr[b].size
           nx   == hdr[b].next
<1>3. Tiled'
  BY <1>1, <1>2, KmallocTiled
<1>4. /\ Used' = Used \cup {b} /\ b \notin Used /\ b \in blocks
      /\ \A c \in Used : c # b /\ c \in blocks /\ hdr'[c].size = hdr[c].size
  BY <1>1, <1>2, KmallocUsed
<1>5. /\ b \in Addr /\ b \in Nat /\ size \in Nat /\ (nx # NULL => nx \in blocks)
  BY <1>1, <1>4, BlockFacts
<1>6. /\ n >= 4 /\ n <= size /\ (n < size => size - n >= 4)
      /\ cur = NULL /\ cur' = NULL /\ blocks' = IF n < size THEN blocks \cup {b + n} ELSE blocks
      /\ hdr'[b].size = n /\ hdr'[b].used /\ sum'[b] = hdr'[b]
      /\ n < size => /\ hdr'[b + n].size = size - n /\ ~ hdr'[b + n].used
                     /\ hdr'[b + n].next = nx /\ hdr'[b].next = b + n /\ b + n \notin blocks
      /\ \A c \in blocks \ {b} : Same(hdr'[c], hdr[c]) /\ (sum[c] = hdr[c] => sum'[c] = hdr'[c])
      /\ \A a \in Addr \ blocks : ~ hdr[a].used => ~ hdr'[a].used
      /\ freed' = freed \ (b..(b + n - 1))
  BY <1>2 DEF Allocates
<1> HIDE DEF size, nx
<1>7. BlocksGood'
  <2>1. \A c \in Used' : sum'[c] = hdr'[c]
    BY <1>4, <1>6 DEF HeapInv, BlocksGood
  <2>2. \A a \in Addr \ blocks' : ~ hdr'[a].used
    BY <1>6 DEF HeapInv, BlocksGood
  <2>3. ASSUME NEW a \in freed'  PROVE ~ hdr'[a].used
    <3>1. a \in freed /\ a \notin b..(b + n - 1) /\ ~ hdr[a].used /\ a \in Addr
      BY <1>1, <1>6 DEF HeapInv, BlocksGood, Tiled, TypeOK
    <3>2. a # b
      BY <1>5, <1>6, <3>1
    <3> QED  BY <1>6, <3>1, <3>2, SMTT(30) DEF Same
  <2> QED  BY <2>1, <2>2, <2>3 DEF BlocksGood
<1>8. Covered'
  <2> SUFFICES ASSUME NEW a \in Addr, a < End
               PROVE  \E c \in blocks' : c <= a /\ a < c + hdr'[c].size
    BY DEF Covered
  <2>1. PICK c \in blocks : c <= a /\ a < c + hdr[c].size
    BY DEF HeapInv, Covered
  <2>2. CASE c # b
    BY <1>6, <2>1, <2>2 DEF Same
  <2>3. CASE c = b
    <3>1. a \in Nat /\ b <= a /\ a < b + size
      BY <2>1, <2>3, Constants DEF size
    <3>2. CASE a < b + n
      BY <1>4, <1>6, <3>1, <3>2
    <3>3. CASE ~ (a < b + n)
      <4>1. n < size /\ b + n <= a /\ a < (b + n) + (size - n)
        BY <1>5, <1>6, <3>1, <3>3
      <4> QED  BY <1>6, <4>1
    <3> QED  BY <3>2, <3>3
  <2> QED  BY <2>2, <2>3
<1>9. MergedBehind'
  <2>1. \A c \in blocks : ~ Mergeable(c)
    BY <1>1, <1>6, BlockFacts, Constants DEF HeapInv, MergedBehind
  <2>2. hdr[b].used = FALSE
    BY <1>1, <1>4, BlockFacts, HeaderTypes DEF Used
  <2>3. nx # NULL => hdr[nx].used /\ nx # b
    BY <1>4, <2>1, <2>2 DEF Mergeable, nx
  <2>4. ASSUME NEW c \in blocks'  PROVE ~ Mergeable(c)'
    <3>1. CASE c = b
      BY <1>6, <3>1 DEF Mergeable
    <3>2. CASE n < size /\ c = b + n
      <4>1. nx # NULL => hdr'[nx].used
        BY <1>5, <1>6, <2>3 DEF Same
      <4> QED  BY <1>6, <3>2, <4>1 DEF Mergeable
    <3>3. CASE c \in blocks \ {b}
      <4>1. Same(hdr'[c], hdr[c]) /\ ~ Mergeable(c)
        BY <1>6, <2>1, <3>3
      <4>2. hdr[c].next # NULL => hdr[c].next \in blocks
        BY <1>1, <3>3, BlockFacts
      <4>3. hdr[c].next # NULL /\ hdr[hdr[c].next].used => hdr'[hdr[c].next].used
        BY <1>6, <4>2 DEF Same
      <4> QED  BY <4>1, <4>3 DEF Mergeable, Same
    <3> QED  BY <1>6, <3>1, <3>2, <3>3
  <2> QED  BY <2>4 DEF MergedBehind
<1> QED  BY <1>3, <1>7, <1>8, <1>9 DEF HeapInv

-----------------------------------------------------------------------------
(* kfree marks the block free; the other headers of the chain stay.        *)
LEMMA KfreeEffect ==
  ASSUME Tiled, NEW b \in blocks, kfree(b)
  PROVE  /\ b \in Used /\ cur = NULL /\ cur' = 0 /\ blocks' = blocks
         /\ hdr' \in [Addr -> Header] /\ sum' \in [Addr -> Header]
         /\ hdr'[b].used = FALSE /\ hdr'[b].size = hdr[b].size /\ hdr'[b].last = hdr[b].last
         /\ hdr'[b].prev = hdr[b].prev /\ hdr'[b].next = hdr[b].next
         /\ \A c \in blocks \ {b} : hdr'[c] = hdr[c] /\ sum'[c] = sum[c]
         /\ \A a \in Addr \ blocks : ~ hdr[a].used => ~ hdr'[a].used
         /\ want' = [want EXCEPT ![b] = 0] /\ freed' = freed \cup {b}
<1> DEFINE h == Unused(b)
           New(f) == [a \in Addr |-> IF a = b THEN h
                                     ELSE IF a \in Interior(b, h.size) THEN Wild ELSE f[a]]
<1>1. /\ b \in Used /\ cur = NULL /\ cur' = 0 /\ blocks' = blocks
      /\ hdr' = New(hdr) /\ sum' = New(sum)
      /\ want' = [want EXCEPT ![b] = 0] /\ freed' = freed \cup {b}
  BY DEF kfree
<1>2. /\ b \in Addr /\ b \in Nat /\ hdr[b] \in Header /\ hdr[b].size \in Nat
      /\ \A c \in blocks : c <= b \/ b + hdr[b].size <= c
      /\ hdr \in [Addr -> Header] /\ sum \in [Addr -> Header] /\ blocks \subseteq Addr
  BY BlockFacts DEF Tiled, TypeOK
<1>3. /\ h \in Header /\ h.used = FALSE /\ h.size = hdr[b].size /\ h.last = hdr[b].last
      /\ h.prev = hdr[b].prev /\ h.next = hdr[b].next
  <2>1. PICK g \in Header : g = hdr[b]
    BY <1>2
  <2>2. h = [g EXCEPT !.used = FALSE]
    BY <2>1 DEF Unused
  <2> HIDE DEF h
  <2>3. /\ h \in Header /\ h.used = FALSE /\ h.size = g.size /\ h.last = g.last
        /\ h.prev = g.prev /\ h.next = g.next
    BY <2>2, Zenon DEF Header
  <2> QED  BY <2>1, <2>3
<1> HIDE DEF h
<1>4. hdr' \in [Addr -> Header] /\ sum' \in [Addr -> Header] /\ hdr'[b] = h
  BY <1>1, <1>2, <1>3, WildHeader
<1>5. ASSUME NEW c \in blocks \ {b}  PROVE hdr'[c] = hdr[c] /\ sum'[c] = sum[c]
  <2>1. c \in Addr /\ c \in Nat /\ (c <= b \/ b + h.size <= c)
    BY <1>2, <1>3, Constants
  <2>2. c \notin Interior(b, h.size)
    BY <1>2, <1>3, <2>1 DEF Interior
  <2> QED  BY <1>1, <2>1, <2>2
<1>6. ASSUME NEW a \in Addr \ blocks, ~ hdr[a].used  PROVE ~ hdr'[a].used
  <2>1. hdr'[a] \in {Wild, hdr[a]}
    BY <1>1
  <2> QED  BY <1>6, <2>1, WildHeader
<1> QED  BY <1>1, <1>3, <1>4, <1>5, <1>6

(* kfree keeps the invariant and frees one block, before it coalesces.     *)
LEMMA KfreeStep ==
  ASSUME HeapInv, NEW b \in blocks, kfree(b)
  PROVE  HeapInv' /\ Used' = Used \ {b} /\ \A c \in blocks : hdr'[c].size = hdr[c].size
<1>1. Tiled
  BY DEF HeapInv
<1>2. /\ b \in Used /\ cur' = 0 /\ blocks' = blocks
      /\ hdr' \in [Addr -> Header] /\ sum' \in [Addr -> Header]
      /\ hdr'[b].used = FALSE /\ hdr'[b].size = hdr[b].size /\ hdr'[b].last = hdr[b].last
      /\ hdr'[b].prev = hdr[b].prev /\ hdr'[b].next = hdr[b].next
      /\ \A c \in blocks \ {b} : hdr'[c] = hdr[c] /\ sum'[c] = sum[c]
      /\ \A a \in Addr \ blocks : ~ hdr[a].used => ~ hdr'[a].used
      /\ want' = [want EXCEPT ![b] = 0] /\ freed' = freed \cup {b}
  BY <1>1, KfreeEffect, Zenon
<1>3. \A c \in blocks : /\ hdr'[c].size = hdr[c].size /\ hdr'[c].last = hdr[c].last
                        /\ hdr'[c].prev = hdr[c].prev /\ hdr'[c].next = hdr[c].next
  BY <1>2
<1>4. TypeOK' /\ 0 \in blocks
  BY <1>1, <1>2 DEF Tiled, TypeOK
<1>5. Tiled'
  <2>1. \A c \in blocks : TiledAt(c)
    BY <1>1, TiledByBlock, SMTT(30)
  <2>2. ASSUME NEW c \in blocks  PROVE TiledAt(c)'
    <3>1. c + hdr[c].size # End => hdr'[hdr[c].next].prev = hdr[hdr[c].next].prev
      BY <1>3, <2>1 DEF TiledAt
    <3> QED  BY <1>2, <1>3, <2>1, <3>1 DEF TiledAt
  <2>3. hdr'[0].prev = NULL
    BY <1>1, <1>3, <1>4 DEF Tiled
  <2> QED  BY <1>2, <1>4, <2>2, <2>3 DEF Tiled, TiledAt
<1>6. Used' = Used \ {b}
  <2>1. \A c : c \in Used' <=> c \in blocks' /\ hdr'[c].used
    BY DEF Used
  <2>2. \A c : c \in Used <=> c \in blocks /\ hdr[c].used
    BY DEF Used
  <2>3. \A c : c \in Used' <=> c \in Used /\ c # b
    BY <1>2, <2>1, <2>2
  <2> QED  BY <2>3
<1>7. BlocksGood'
  <2>1. \A c \in Used' : sum'[c] = hdr'[c]
    BY <1>2, <1>6 DEF HeapInv, BlocksGood, Used
  <2>2. \A a \in Addr \ blocks' : ~ hdr'[a].used
    BY <1>2 DEF HeapInv, BlocksGood
  <2>3. \A a \in freed' : ~ hdr'[a].used
    BY <1>1, <1>2 DEF HeapInv, BlocksGood, Tiled, TypeOK
  <2> QED  BY <2>1, <2>2, <2>3 DEF BlocksGood
<1>8. Covered'
  BY <1>2, <1>3 DEF HeapInv, Covered
<1>9. MergedBehind'
  <2>1. \A c \in blocks' : ~ (c < cur')
    BY <1>1, <1>2, BlockFacts
  <2> QED  BY <2>1 DEF MergedBehind
<1> QED  BY <1>3, <1>5, <1>6, <1>7, <1>8, <1>9 DEF HeapInv

-----------------------------------------------------------------------------
(* heap_coalesce_free_blocks absorbs the free successor n of c.            *)
LEMMA MergeEffect ==
  ASSUME Tiled, NEW c \in blocks, Merge(c)
  PROVE  LET n  == hdr[c].next
             nx == hdr[n].next IN
         /\ n \in blocks /\ n # c /\ ~ hdr[c].used /\ ~ hdr[n].used /\ nx \notin {c, n}
         /\ blocks' = blocks \ {n} /\ cur = c /\ cur' = c
         /\ hdr' \in [Addr -> Header] /\ sum' \in [Addr -> Header]
         /\ hdr'[c].size = hdr[c].size + hdr[n].size /\ ~ hdr'[c].used /\ hdr'[c].next = nx
         /\ hdr'[c].prev = hdr[c].prev /\ hdr'[c].last = (nx = NULL)
         /\ nx # NULL => /\ hdr'[nx].prev = c /\ Same(hdr'[nx], hdr[nx])
                         /\ sum'[nx] = hdr'[nx] /\ nx \in blocks
         /\ \A a \in Addr \ {c, nx} : hdr'[a] = hdr[a] /\ sum'[a] = sum[a]
         /\ UNCHANGED <<want, freed>>
<1> DEFINE n  == hdr[c].next
           nx == hdr[n].next
           h  == [hdr[c] EXCEPT !.size = @ + hdr[n].size, !.next = nx, !.last = @ \/ nx = NULL]
           back == [hdr[nx] EXCEPT !.prev = c]
<1>1. /\ cur = c /\ Mergeable(c) /\ blocks' = blocks \ {n} /\ cur' = c
      /\ hdr' = [a \in Addr |-> IF a = c THEN h
                               ELSE IF a = nx THEN [hdr[a] EXCEPT !.prev = c] ELSE hdr[a]]
      /\ sum' = [a \in Addr |-> IF a = c THEN h
                               ELSE IF a = nx THEN Patched(sum, hdr, nx, c)[a] ELSE sum[a]]
      /\ UNCHANGED <<want, freed>>
  BY DEF Merge, AfterMerge
<1>2. n # NULL /\ ~ hdr[c].used /\ ~ hdr[n].used
  BY <1>1 DEF Mergeable
<1>3. /\ c \in Addr /\ c \in Nat /\ hdr[c] \in Header /\ hdr[c].size \in Nat /\ hdr[c].size >= 4
      /\ n \in blocks /\ n = c + hdr[c].size /\ hdr[c].last = FALSE
  BY <1>2, BlockFacts, Zenon
<1>4. /\ n \in Addr /\ n \in Nat /\ hdr[n] \in Header /\ hdr[n].size \in Nat /\ hdr[n].size >= 4
      /\ n + hdr[n].size <= End /\ nx \in Addr \cup {NULL}
      /\ nx # NULL => nx \in blocks /\ nx = n + hdr[n].size /\ nx \in Addr /\ hdr[nx] \in Header
  BY <1>3, BlockFacts, HeaderTypes
<1>5. hdr \in [Addr -> Header] /\ sum \in [Addr -> Header] /\ blocks \subseteq Addr
  BY SMTT(30) DEF Tiled, TypeOK
<1>6. n # c /\ nx # c /\ nx # n
  BY <1>3, <1>4, Constants
<1> HIDE DEF nx, n
<1>7. /\ h \in Header /\ h.size = hdr[c].size + hdr[n].size /\ h.used = hdr[c].used
      /\ h.next = nx /\ h.prev = hdr[c].prev /\ h.last = (nx = NULL)
  <2>1. PICK g \in Header : g = hdr[c]
    BY <1>3
  <2>2. PICK z \in 0..HEAP_SIZE : z = g.size + hdr[n].size
    BY <1>3, <1>4, <2>1, Constants
  <2>3. PICK l \in BOOLEAN : l = (nx = NULL)
    BY Zenon
  <2>4. g.last = FALSE
    BY <1>3, <2>1
  <2>5. (g.last \/ nx = NULL) = l
    BY <2>3, <2>4
  <2>6. h = [g EXCEPT !.size = z, !.next = nx, !.last = l]
    BY <2>1, <2>2, <2>5, Zenon
  <2> HIDE DEF h
  <2>7. /\ h \in Header /\ h.size = z /\ h.used = g.used /\ h.next = nx /\ h.prev = g.prev /\ h.last = l
    BY <1>4, <2>6, Zenon DEF Header
  <2> QED  BY <2>1, <2>2, <2>3, <2>7
<1>8. nx # NULL => back \in Header /\ back.prev = c /\ Same(back, hdr[nx])
  <2>1. ASSUME nx # NULL  PROVE back \in Header /\ back.prev = c /\ Same(back, hdr[nx])
    <3>1. PICK g \in Header : g = hdr[nx]
      BY <1>4, <2>1
    <3>2. back = [g EXCEPT !.prev = c]
      BY <3>1
    <3> HIDE DEF back
    <3>3. back \in Header /\ back.prev = c /\ Same(back, g)
      BY <1>3, <3>2 DEF Header, Same
    <3> QED  BY <3>1, <3>3
  <2> QED  BY <2>1
<1>9. /\ hdr' = [a \in Addr |-> IF a = c THEN h ELSE IF a = nx THEN back ELSE hdr[a]]
      /\ sum' = [a \in Addr |-> IF a = c THEN h ELSE IF a = nx THEN back ELSE sum[a]]
  <2>1. \A a \in Addr : a = nx => /\ [hdr[a] EXCEPT !.prev = c] = back
                                 /\ Patched(sum, hdr, nx, c)[a] = back
    BY <1>5 DEF Patched
  <2> QED  BY <1>1, <2>1
<1> HIDE DEF h, back
<1>10. nx \in Addr => nx # NULL
  BY Constants
<1>11. hdr' \in [Addr -> Header] /\ sum' \in [Addr -> Header]
  BY <1>5, <1>7, <1>8, <1>9, <1>10
<1>12. hdr'[c] = h /\ \A a \in Addr \ {c, nx} : hdr'[a] = hdr[a] /\ sum'[a] = sum[a]
  BY <1>3, <1>9
<1>13. nx # NULL => hdr'[nx] = back /\ sum'[nx] = back
  BY <1>4, <1>6, <1>9
<1>14. nx # NULL => /\ hdr'[nx].prev = c /\ Same(hdr'[nx], hdr[nx])
                   /\ sum'[nx] = hdr'[nx] /\ nx \in blocks
  BY <1>4, <1>8, <1>13
<1>15. /\ hdr'[c].size = hdr[c].size + hdr[n].size /\ ~ hdr'[c].used /\ hdr'[c].next = nx
       /\ hdr'[c].prev = hdr[c].prev /\ hdr'[c].last = (nx = NULL)
  BY <1>2, <1>7, <1>12
<1> QED  BY <1>1, <1>2, <1>3, <1>6, <1>11, <1>12, <1>14, <1>15, Zenon DEF n, nx

(* Merging two neighbours keeps the chain tiled.                           *)
LEMMA MergeTiled ==
  ASSUME Tiled, NEW c \in blocks, Merge(c)
  PROVE  Tiled'
<1> DEFINE n  == hdr[c].next
           nx == hdr[n].next
<1>1. /\ n \in blocks /\ n # c /\ nx \notin {c, n}
      /\ blocks' = blocks \ {n} /\ cur' = c
      /\ hdr' \in [Addr -> Header] /\ sum' \in [Addr -> Header]
      /\ hdr'[c].size = hdr[c].size + hdr[n].size /\ hdr'[c].next = nx
      /\ hdr'[c].prev = hdr[c].prev /\ hdr'[c].last = (nx = NULL)
      /\ nx # NULL => hdr'[nx].prev = c /\ Same(hdr'[nx], hdr[nx]) /\ nx \in blocks
      /\ \A a \in Addr \ {c, nx} : hdr'[a] = hdr[a]
      /\ UNCHANGED <<want, freed>>
  BY MergeEffect
<1>2. /\ c \in Nat /\ hdr[c].size \in Nat /\ hdr[c].size >= 4 /\ n = c + hdr[c].size
      /\ \A d \in blocks : d <= c \/ n <= d
  <2>1. n # NULL
    BY <1>1, Constants, SMTT(30) DEF Tiled, TypeOK
  <2> QED  BY <2>1, BlockFacts, SMTT(30)
<1>3. /\ n \in Nat /\ hdr[n].size \in Nat /\ hdr[n].size >= 4 /\ n + hdr[n].size <= End
      /\ \A d \in blocks : d <= n \/ n + hdr[n].size <= d
      /\ nx = IF n + hdr[n].size = End THEN NULL ELSE n + hdr[n].size
  BY <1>1, BlockFacts
<1>4. /\ blocks \subseteq Addr /\ 0 \in blocks /\ hdr[0].prev = NULL
      /\ want \in [Addr -> Nat] /\ freed \subseteq Addr
  BY DEF Tiled, TypeOK
<1>5. \A d \in blocks : d \in Nat
  BY BlockFacts
<1> HIDE DEF n, nx
<1>6. TypeOK'
  BY <1>1, <1>4 DEF TypeOK
<1>7. 0 \in blocks' /\ hdr'[0].prev = NULL
  <2>1. n # 0 /\ (nx # NULL => nx # 0)
    BY <1>2, <1>3
  <2>2. 0 # nx
    BY <1>4, <2>1, Constants
  <2>3. CASE c = 0
    BY <1>1, <1>4, <2>1, <2>3
  <2>4. CASE c # 0
    BY <1>1, <1>4, <2>1, <2>2, <2>4
  <2> QED  BY <2>3, <2>4
<1>8. TiledAt(c)'
  <2>0. hdr'[c].size = hdr[c].size + hdr[n].size
    BY <1>1
  <2>1. c + hdr'[c].size = n + hdr[n].size
    BY <1>2, <1>3, <2>0
  <2>2. \A d \in blocks' : d <= c \/ n + hdr[n].size <= d
    <3>1. ASSUME NEW d \in blocks, d # n  PROVE d <= c \/ n + hdr[n].size <= d
      <4>1. /\ d \in Nat /\ n \in Nat /\ (d <= c \/ n <= d)
            /\ d <= n \/ n + hdr[n].size <= d
        BY <1>2, <1>3, <1>5
      <4>2. d <= n /\ n <= d => d = n
        BY <4>1
      <4> QED  BY <3>1, <4>1, <4>2
    <3> QED  BY <1>1, <3>1
  <2>3. hdr'[c].size >= HEADER + HEAP_MIN_SIZE /\ c + hdr'[c].size <= End
    BY <1>2, <1>3, <2>0, <2>1 DEF HEADER, HEAP_MIN_SIZE
  <2>4. n + hdr[n].size # End => nx = n + hdr[n].size /\ nx # NULL /\ nx \in blocks'
    BY <1>1, <1>3, Constants
  <2>5. n + hdr[n].size = End => nx = NULL
    BY <1>3
  <2> QED  BY <1>1, <2>1, <2>2, <2>3, <2>4, <2>5 DEF TiledAt
<1>9. ASSUME NEW d \in blocks', d # c  PROVE TiledAt(d)'
  <2>1. d \in blocks /\ d # n /\ TiledAt(d) /\ d \in Addr /\ d \in Nat
    BY <1>1, <1>4, <1>5, TiledByBlock
  <2>2. /\ hdr'[d].size = hdr[d].size /\ hdr'[d].next = hdr[d].next /\ hdr'[d].last = hdr[d].last
    <3>1. CASE d = nx
      <4>1. nx # NULL
        BY <2>1, <3>1, Constants
      <4> QED  BY <1>1, <3>1, <4>1 DEF Same
    <3>2. CASE d # nx
      BY <1>1, <1>9, <2>1, <3>2
    <3> QED  BY <3>1, <3>2
  <2>3. d + hdr[d].size # End => /\ hdr[d].next \in blocks /\ hdr[hdr[d].next].prev = d
                                /\ hdr[d].next = d + hdr[d].size /\ hdr[d].next \in Addr
    BY <1>4, <2>1, Zenon DEF TiledAt
  <2>4. d + hdr[d].size # End => hdr[d].next # n
    BY <1>1, <1>9, <2>3, <1>4, BlockFacts, Constants DEF n
  <2>5. d + hdr[d].size # End => hdr'[hdr[d].next].prev = d
    <3>1. CASE hdr[d].next = c
      BY <1>1, <2>3, <3>1
    <3>2. CASE hdr[d].next = nx /\ nx \in blocks
      <4>1. nx # NULL
        BY <1>4, <3>2, Constants, SMTT(30)
      <4>2. hdr[nx].prev = n
        BY <1>1, <4>1, BlockFacts DEF nx
      <4> QED  BY <2>1, <2>3, <3>2, <4>2
    <3>3. CASE hdr[d].next # c /\ hdr[d].next # nx
      BY <1>1, <2>3, <3>3
    <3> QED  BY <2>3, <3>1, <3>2, <3>3
  <2>6. \A e \in blocks' : e <= d \/ d + hdr[d].size <= e
    BY <1>1, <2>1 DEF TiledAt
  <2>7. d + hdr[d].size # End => hdr[d].next \in blocks'
    BY <1>1, <2>3, <2>4
  <2> QED  BY <2>1, <2>2, <2>3, <2>5, <2>6, <2>7 DEF TiledAt
<1>10. \A d \in blocks' : TiledAt(d)'
  BY <1>8, <1>9
<1> QED  BY <1>6, <1>7, <1>10, SMTT(30) DEF Tiled, TiledAt

(* Merging keeps the invariant and touches no block in use.                *)
LEMMA MergeStep ==
  ASSUME HeapInv, NEW c \in blocks, Merge(c)
  PROVE  HeapInv' /\ Used' = Used /\ \A b \in Used : hdr'[b].size = hdr[b].size
<1> DEFINE n  == hdr[c].next
           nx == hdr[n].next
<1>1. Tiled
  BY DEF HeapInv
<1>2. /\ n \in blocks /\ n # c /\ ~ hdr[c].used /\ ~ hdr[n].used /\ nx \notin {c, n}
      /\ blocks' = blocks \ {n} /\ cur = c /\ cur' = c
      /\ hdr'[c].size = hdr[c].size + hdr[n].size /\ ~ hdr'[c].used /\ hdr'[c].next = nx
      /\ nx # NULL => Same(hdr'[nx], hdr[nx]) /\ sum'[nx] = hdr'[nx] /\ nx \in blocks
      /\ \A a \in Addr \ {c, nx} : hdr'[a] = hdr[a] /\ sum'[a] = sum[a]
      /\ UNCHANGED <<want, freed>>
  BY <1>1, MergeEffect, SMTT(30)
<1>3. /\ c \in Nat /\ hdr[c].size \in Nat /\ hdr[c].size >= 4 /\ n = c + hdr[c].size
      /\ n \in Nat /\ hdr[n].size \in Nat
  <2>1. n # NULL
    BY <1>1, <1>2, Constants DEF Tiled, TypeOK
  <2> QED  BY <1>1, <1>2, <2>1, BlockFacts, SMTT(30)
<1>4. Tiled'
  BY <1>1, MergeTiled
<1>5. blocks \subseteq Addr /\ freed \subseteq Addr
  BY <1>1 DEF Tiled, TypeOK
<1>6. nx \in Addr => nx # NULL
  BY Constants
<1> HIDE DEF n, nx
<1>7. \A a \in Addr \ {c} : Same(hdr'[a], hdr[a]) /\ (sum[a] = hdr[a] => sum'[a] = hdr'[a])
  <2>1. ASSUME NEW a \in Addr, a # c, a # nx
        PROVE  Same(hdr'[a], hdr[a]) /\ (sum[a] = hdr[a] => sum'[a] = hdr'[a])
    BY <1>2, <2>1 DEF Same
  <2>2. ASSUME NEW a \in Addr, a = nx
        PROVE  Same(hdr'[a], hdr[a]) /\ (sum[a] = hdr[a] => sum'[a] = hdr'[a])
    BY <1>2, <1>6, <2>2
  <2> QED  BY <2>1, <2>2
<1>8. Used' = Used /\ c \notin Used
  <2>1. \A b : b \in Used' <=> b \in blocks' /\ hdr'[b].used
    BY DEF Used
  <2>2. \A b : b \in Used <=> b \in blocks /\ hdr[b].used
    BY DEF Used
  <2>3. \A b : b \in Used' <=> b \in Used
    BY <1>2, <1>5, <1>7, <2>1, <2>2 DEF Same
  <2> QED  BY <1>2, <2>2, <2>3
<1>9. \A b \in Used : b \in Addr \ {c} /\ hdr'[b].size = hdr[b].size
  BY <1>5, <1>7, <1>8 DEF Used, Same
<1>10. BlocksGood'
  <2>1. \A b \in Used' : sum'[b] = hdr'[b]
    BY <1>7, <1>8, <1>9 DEF HeapInv, BlocksGood
  <2>2. \A a \in Addr \ blocks' : ~ hdr'[a].used
    BY <1>2, <1>7 DEF HeapInv, BlocksGood, Same
  <2>3. \A a \in freed' : ~ hdr'[a].used
    BY <1>2, <1>5, <1>7 DEF HeapInv, BlocksGood, Same
  <2> QED  BY <2>1, <2>2, <2>3 DEF BlocksGood
<1>11. Covered'
  <2> SUFFICES ASSUME NEW a \in Addr, a < End
               PROVE  \E d \in blocks' : d <= a /\ a < d + hdr'[d].size
    BY DEF Covered
  <2>1. PICK d \in blocks : d <= a /\ a < d + hdr[d].size
    BY DEF HeapInv, Covered
  <2>2. a \in Nat
    BY Constants
  <2>3. CASE d = c \/ d = n
    <3>1. c <= a /\ a < c + (hdr[c].size + hdr[n].size)
      <4>1. d = c => c <= a /\ a < c + hdr[c].size
        BY <2>1
      <4>2. d = n => n <= a /\ a < n + hdr[n].size
        BY <2>1
      <4> QED  BY <1>3, <2>2, <2>3, <4>1, <4>2
    <3> QED  BY <1>2, <3>1
  <2>4. CASE d # c /\ d # n
    BY <1>2, <1>5, <1>7, <2>1, <2>4 DEF Same
  <2> QED  BY <2>3, <2>4
<1>12. MergedBehind'
  <2> SUFFICES ASSUME NEW b \in blocks', b < c  PROVE ~ Mergeable(b)'
    BY <1>2, SMTT(30) DEF MergedBehind
  <2>1. b \in blocks /\ b # c /\ b \in Addr /\ b \in Nat /\ ~ Mergeable(b)
    BY <1>1, <1>2, <1>3, <1>5, BlockFacts DEF HeapInv, MergedBehind
  <2>2. Same(hdr'[b], hdr[b])
    BY <1>7, <2>1
  <2>3. hdr[b].next # NULL => hdr[b].next \in Addr
    BY <1>1, <1>5, <2>1, BlockFacts, SMTT(30)
  <2>4. hdr[b].next # NULL => (hdr[hdr[b].next].used => hdr'[hdr[b].next].used)
    BY <1>2, <1>7, <2>3 DEF Same
  <2> QED  BY <2>1, <2>2, <2>4 DEF Mergeable, Same
<1> QED  BY <1>4, <1>8, <1>9, <1>10, <1>11, <1>12, SMTT(30) DEF HeapInv

(* The walk goes on: one more block is known not to be mergeable.          *)
LEMMA AdvanceStep ==
  ASSUME HeapInv, NEW c \in blocks, Advance(c)
  PROVE  HeapInv' /\ Used' = Used /\ hdr' = hdr
<1>1. /\ cur = c /\ ~ Mergeable(c) /\ cur' = hdr[c].next
      /\ UNCHANGED <<blocks, hdr, sum, want, freed>>
  BY DEF Advance
<1>2. Tiled
  BY DEF HeapInv
<1>3. /\ c \in Nat /\ hdr[c].size \in Nat /\ hdr[c].next \in blocks \cup {NULL}
      /\ \A d \in blocks : d \in Nat /\ (d <= c \/ c + hdr[c].size <= d)
      /\ hdr[c].next = IF c + hdr[c].size = End THEN NULL ELSE c + hdr[c].size
  BY <1>2, BlockFacts
<1>4. Tiled'
  BY <1>1, <1>2, <1>3, Zenon DEF Tiled, TypeOK
<1>5. \A d \in blocks : d < hdr[c].next => d <= c
  <2>1. CASE c + hdr[c].size = End
    <3>1. ASSUME NEW d \in blocks  PROVE d <= c
      <4>1. d \in Nat /\ hdr[d].size \in Nat /\ hdr[d].size >= 4 /\ d + hdr[d].size <= End
        BY <1>2, BlockFacts, Zenon
      <4> QED  BY <1>3, <2>1, <4>1, Constants
    <3> QED  BY <3>1
  <2>2. CASE c + hdr[c].size # End
    <3>1. hdr[c].next = c + hdr[c].size
      BY <1>3, <2>2
    <3>2. ASSUME NEW d \in blocks, d < hdr[c].next  PROVE d <= c
      <4>1. c \in Nat /\ hdr[c].size \in Nat /\ d \in Nat /\ (d <= c \/ c + hdr[c].size <= d)
        BY <1>3
      <4> QED  BY <3>1, <3>2, <4>1
    <3> QED  BY <3>2
  <2> QED  BY <2>1, <2>2
<1>6. MergedBehind'
  <2> SUFFICES ASSUME NEW d \in blocks, d < hdr[c].next  PROVE ~ Mergeable(d)
    BY <1>1 DEF MergedBehind, Mergeable
  <2>1. d \in Nat /\ d <= c
    BY <1>3, <1>5
  <2> QED  BY <1>1, <1>3, <2>1 DEF HeapInv, MergedBehind
<1> QED  BY <1>1, <1>4, <1>6 DEF HeapInv, BlocksGood, Covered, Used

-----------------------------------------------------------------------------
(* heap_init establishes the invariant.                                    *)
LEMMA InitInv == Init => HeapInv
<1> SUFFICES ASSUME Init PROVE HeapInv
  OBVIOUS
<1> DEFINE first == [Wild EXCEPT !.size = End, !.last = TRUE]
<1>1. /\ first \in Header /\ first.size = End /\ first.used = FALSE /\ first.last = TRUE
      /\ first.prev = NULL /\ first.next = NULL
  <2>1. Wild = [size |-> 0, used |-> FALSE, last |-> FALSE, prev |-> NULL, next |-> NULL]
    BY DEF Wild
  <2>2. End \in 0..HEAP_SIZE
    BY Constants
  <2>3. first \in Header /\ first.size = End /\ first.used = FALSE /\ first.last = TRUE
    BY <2>2, WildHeader, Zenon DEF Header
  <2>4. first.prev = NULL /\ first.next = NULL
    BY <2>1
  <2> QED  BY <2>3, <2>4
<1>2. /\ blocks = {0} /\ hdr = [a \in Addr |-> IF a = 0 THEN first ELSE Wild] /\ sum = hdr
      /\ cur = NULL /\ want = [a \in Addr |-> 0] /\ freed = {}
  BY DEF Init
<1> HIDE DEF first
<1>3. 0 \in Addr /\ hdr[0] = first /\ hdr \in [Addr -> Header]
  BY <1>1, <1>2, Constants, WildHeader
<1>4. TypeOK
  BY <1>2, <1>3 DEF TypeOK
<1>5. Tiled
  <2>1. /\ hdr[0].size >= HEADER + HEAP_MIN_SIZE /\ 0 + hdr[0].size <= End /\ 0 + hdr[0].size = End
        /\ hdr[0].last = (hdr[0].next = NULL) /\ hdr[0].next = NULL /\ hdr[0].prev = NULL
    <3>1. hdr[0].size = End /\ hdr[0].last = TRUE /\ hdr[0].next = NULL /\ hdr[0].prev = NULL
      BY <1>1, <1>3
    <3>2. hdr[0].last = (hdr[0].next = NULL)
      BY <3>1, Zenon
    <3>3. End \in Nat /\ End >= HEADER + HEAP_MIN_SIZE
      BY Constants DEF HEADER, HEAP_MIN_SIZE
    <3>4. 0 + hdr[0].size = End /\ 0 + hdr[0].size <= End
      BY <3>1, <3>3
    <3> QED  BY <3>1, <3>2, <3>3, <3>4
  <2>2. TiledAt(0)
    <3>1. \A c \in blocks : c <= 0
      BY <1>2
    <3> QED  BY <2>1, <3>1 DEF TiledAt
  <2> QED  BY <1>2, <1>4, <2>1, <2>2, TiledByBlock
<1>6. BlocksGood
  <2>1. \A a \in Addr : ~ hdr[a].used
    BY <1>1, <1>2, WildHeader
  <2> QED  BY <1>2, <2>1 DEF BlocksGood
<1>7. Covered
  BY <1>1, <1>2, <1>3, Constants DEF Covered
<1>8. MergedBehind
  BY <1>1, <1>2, <1>3 DEF MergedBehind, Mergeable
<1> QED  BY <1>5, <1>6, <1>7, <1>8 DEF HeapInv

(* Every step of the heap keeps the invariant.                             *)
LEMMA NextInv == HeapInv /\ [Next]_vars => HeapInv'
<1> SUFFICES ASSUME HeapInv, [Next]_vars PROVE HeapInv'
  OBVIOUS
<1>1. CASE UNCHANGED vars
  <2>1. Tiled' /\ BlocksGood'
    BY <1>1 DEF vars, HeapInv, Tiled, TypeOK, BlocksGood, Used
  <2>2. Covered' /\ MergedBehind'
    BY <1>1 DEF vars, HeapInv, Covered, MergedBehind, Mergeable
  <2> QED  BY <2>1, <2>2 DEF HeapInv
<1>2. CASE \E bytes \in REQUESTS : kmalloc(bytes)
  BY <1>2, KmallocStep
<1>3. CASE \E b \in blocks : kfree(b)
  BY <1>3, KfreeStep
<1>4. CASE heap_coalesce_free_blocks
  BY <1>4, MergeStep, AdvanceStep DEF heap_coalesce_free_blocks
<1> QED  BY <1>1, <1>2, <1>3, <1>4 DEF Next

(* The invariant holds of every heap and every sequence of kmalloc and     *)
(* kfree.                                                                  *)
THEOREM Invariance == Spec => []HeapInv
BY InitInv, NextInv, PTL DEF Spec

(* kmalloc hands out enough, provided that no request wraps around.        *)
LEMMA NextWants == RequestsFit /\ HeapInv /\ WantsMet /\ [Next]_vars => WantsMet'
<1> SUFFICES ASSUME RequestsFit, HeapInv, WantsMet, [Next]_vars PROVE WantsMet'
  BY SMTT(30)
<1>1. Tiled /\ want \in [Addr -> Nat]
  BY DEF HeapInv, Tiled, TypeOK
<1>2. CASE UNCHANGED vars
  BY <1>2 DEF vars, WantsMet, Used
<1>3. ASSUME NEW bytes \in REQUESTS, kmalloc(bytes)  PROVE WantsMet'
  <2>1. PICK b \in FreeBlocks, n \in Nat : Allocates(b, n, bytes)
    BY <1>1, <1>3, KmallocEffect, SMTT(30)
  <2>2. /\ Used' = Used \cup {b} /\ b \in blocks
        /\ \A c \in Used : c # b /\ c \in blocks /\ hdr'[c].size = hdr[c].size
    BY <1>1, <2>1, KmallocUsed, SMTT(30)
  <2>3. n >= Total(bytes) /\ hdr'[b].size = n /\ want' = [want EXCEPT ![b] = bytes]
    BY <2>1 DEF Allocates
  <2>4. Total(bytes) \in Nat /\ (Total(bytes) - 3) * 16 >= bytes /\ bytes \in Nat
    BY TotalMinimal, TotalRoom, RequestsAssumption
  <2>5. (n - 3) * 16 >= bytes
    BY <2>3, <2>4
  <2>6. \A c \in blocks : c \in Addr
    BY <1>1 DEF Tiled, TypeOK
  <2>7. want'[b] = bytes /\ \A c \in Used : want'[c] = want[c]
    BY <1>1, <2>2, <2>3, <2>6
  <2> QED  BY <2>2, <2>3, <2>5, <2>7 DEF WantsMet, HEADER, HEAP_ALIGNMENT
<1>4. ASSUME NEW b \in blocks, kfree(b)  PROVE WantsMet'
  <2>1. Used' = Used \ {b} /\ \A c \in blocks : hdr'[c].size = hdr[c].size
    BY <1>4, KfreeStep
  <2>2. want' = [want EXCEPT ![b] = 0]
    BY <1>1, <1>4, KfreeEffect, Zenon
  <2>3. \A c \in Used : c \in blocks /\ c \in Addr
    BY <1>1 DEF Used, Tiled, TypeOK
  <2>4. \A c \in Used' : c \in Used /\ want'[c] = want[c] /\ hdr'[c].size = hdr[c].size
    BY <1>1, <2>1, <2>2, <2>3
  <2> QED  BY <2>4 DEF WantsMet
<1>5. ASSUME NEW c \in blocks, Merge(c)  PROVE WantsMet'
  <2>1. Used' = Used /\ \A b \in Used : hdr'[b].size = hdr[b].size
    BY <1>5, MergeStep
  <2>2. want' = want
    BY <1>5 DEF Merge
  <2> QED  BY <2>1, <2>2 DEF WantsMet
<1>6. ASSUME NEW c \in blocks, Advance(c)  PROVE WantsMet'
  <2>1. Used' = Used /\ hdr' = hdr /\ want' = want
    BY <1>6, AdvanceStep DEF Advance
  <2> QED  BY <2>1 DEF WantsMet
<1> QED  BY <1>2, <1>3, <1>4, <1>5, <1>6 DEF Next, heap_coalesce_free_blocks

(* Between any two iterations of kfree's walk, and between calls, the      *)
(* chain tiles the heap and the pointers handed out are good: a block is   *)
(* large enough, kfree accepts it once and never again.                    *)
THEOREM SoundHeap ==
  ASSUME RequestsFit
  PROVE  Spec => []HeapSound
<1>1. Init => HeapInv /\ WantsMet
  <2>1. Init => Used = {}
    <3> SUFFICES ASSUME Init, NEW b \in Used  PROVE FALSE
      OBVIOUS
    <3>1. b = 0 /\ hdr[b].used
      BY DEF Init, Used
    <3>2. hdr[0].used = FALSE
      BY Constants DEF Init, Wild
    <3> QED  BY <3>1, <3>2
  <2> QED  BY <2>1, InitInv DEF WantsMet
<1>2. (HeapInv /\ WantsMet) /\ [Next]_vars => (HeapInv /\ WantsMet)'
  BY NextInv, NextWants
<1>3. HeapInv /\ WantsMet => HeapSound
  <2> SUFFICES ASSUME HeapInv, WantsMet PROVE HeapSound
    OBVIOUS
  <2>1. Tiled
    BY DEF HeapInv
  <2>2. ASSUME NEW b \in Used
        PROVE  heap_validate_block(b) /\ (hdr[b].size - HEADER) * HEAP_ALIGNMENT >= want[b]
    <3>1. b \in blocks
      BY DEF Used
    <3>2. hdr[b].size >= 4 /\ hdr[b].size \in 0..HEAP_SIZE
      BY <2>1, <3>1, BlockFacts, HeaderTypes
    <3>3. hdr[b].size # 0 /\ hdr[b].size <= HEAP_SIZE
      BY <3>2, Constants
    <3> QED  BY <3>3 DEF HeapInv, BlocksGood, WantsMet, heap_validate_block
  <2>3. \A b \in freed : ~ hdr[b].used
    BY DEF HeapInv, BlocksGood
  <2> QED  BY <2>1, <2>2, <2>3 DEF HeapSound, PointersSound
<1> QED  BY <1>1, <1>2, <1>3, PTL DEF Spec

(* kmalloc fails only for want of room: the merging walk leaves no two     *)
(* free neighbours, so a stretch of free granules lies in one block.       *)
THEOREM RoomFound == Spec => []RoomIsFound
<1>1. HeapInv => RoomIsFound
  <2> SUFFICES ASSUME HeapInv, cur = NULL, NEW bytes \in REQUESTS, Fits(Total(bytes)) = {},
                      NEW a \in Addr, FreeStretch(a, Total(bytes))
               PROVE  FALSE
    BY DEF RoomIsFound
  <2> DEFINE n == Total(bytes)
  <2>1. n \in Nat /\ n >= 4
    BY TotalMinimal
  <2> HIDE DEF n
  <2>2. /\ a + n <= End /\ \A b \in Used : a + n <= b \/ b + hdr[b].size <= a
        /\ \A b \in FreeBlocks : ~ (hdr[b].size >= n)
    BY DEF FreeStretch, Fits, n
  <2>3. Tiled /\ a \in Nat
    BY Constants DEF HeapInv
  <2>4. PICK b \in blocks : b <= a /\ a < b + hdr[b].size
    BY <2>1, <2>2, <2>3, Constants DEF HeapInv, Covered
  <2>5. b \in Nat /\ hdr[b].size \in Nat /\ b + hdr[b].size <= End
    BY <2>3, BlockFacts
  <2>6. b \notin Used
    BY <2>1, <2>2, <2>3, <2>4, <2>5
  <2>7. hdr[b].size < n
    BY <2>1, <2>2, <2>5, <2>6 DEF FreeBlocks
  <2> DEFINE d == b + hdr[b].size
  <2>8. d < a + n /\ d # End
    BY <2>1, <2>2, <2>3, <2>4, <2>5, <2>7, Constants
  <2>9. hdr[b].next = d /\ d # NULL /\ d \in blocks
    BY <2>3, <2>5, <2>8, BlockFacts, Constants, SMTT(30)
  <2>10. d \in Nat /\ hdr[d].size \in Nat /\ hdr[d].size >= 4
    BY <2>3, <2>9, BlockFacts
  <2>11. d \notin Used
    BY <2>1, <2>2, <2>3, <2>4, <2>8, <2>10, SMTT(30)
  <2>12. Mergeable(b)
    BY <2>6, <2>9, <2>11, SMTT(30) DEF Mergeable, Used
  <2> QED  BY <2>3, <2>12, BlockFacts, Constants DEF HeapInv, MergedBehind
<1> QED  BY <1>1, Invariance, PTL

-----------------------------------------------------------------------------
(* Every step of the heap is a step of the allocator, or none: kmalloc     *)
(* hands out an extent that overlaps no other, kfree takes one back, and   *)
(* the walk that merges free blocks is not visible.                        *)
LEMMA NextAllocates == HeapInv /\ [Next]_vars => [Alloc!Next]_Extents
<1> SUFFICES ASSUME HeapInv, [Next]_vars PROVE [Alloc!Next]_Extents
  OBVIOUS
<1>1. Tiled
  BY DEF HeapInv
<1>2. /\ \A e : e \in Extents <=> \E b \in Used : e = [start |-> b, len |-> hdr[b].size]
      /\ \A e : e \in Extents' <=> \E b \in Used' : e = [start |-> b, len |-> hdr'[b].size]
  BY DEF Extents
<1>3. ASSUME Used' = Used, \A b \in Used : hdr'[b].size = hdr[b].size  PROVE Extents' = Extents
  <2>1. \A e : e \in Extents' <=> e \in Extents
    BY <1>2, <1>3
  <2> QED  BY <2>1 DEF Extents
<1>4. CASE UNCHANGED vars
  BY <1>3, <1>4 DEF vars, Used
<1>5. ASSUME NEW bytes \in REQUESTS, kmalloc(bytes)  PROVE Alloc!Malloc
  <2>1. PICK b \in FreeBlocks, n \in Nat : Allocates(b, n, bytes)
    BY <1>1, <1>5, KmallocEffect
  <2>2. /\ Used' = Used \cup {b} /\ b \in blocks
        /\ \A c \in Used : c # b /\ c \in blocks /\ hdr'[c].size = hdr[c].size
    BY <1>1, <2>1, KmallocUsed, SMTT(30)
  <2>3. hdr'[b].size = n /\ n >= 4 /\ n <= hdr[b].size
    BY <2>1, SMTT(30) DEF Allocates
  <2>4. /\ b \in Nat /\ hdr[b].size \in Nat /\ b + hdr[b].size <= End
        /\ \A c \in blocks : c <= b \/ b + hdr[b].size <= c
    BY <1>1, <2>2, BlockFacts
  <2>5. b \in 0..End /\ n \in 0..End /\ n > 0 /\ b + n <= End
    BY <2>3, <2>4, Constants
  <2>6. ASSUME NEW e \in Extents  PROVE b + n <= e.start \/ e.start + e.len <= b
    <3>1. PICK c \in Used : e = [start |-> c, len |-> hdr[c].size]
      BY <1>2, SMTT(30)
    <3>2. /\ c \in Nat /\ hdr[c].size \in Nat /\ c # b /\ (b <= c \/ c + hdr[c].size <= b)
          /\ c <= b \/ b + hdr[b].size <= c
      BY <1>1, <2>2, <2>4, BlockFacts
    <3>3. e.start = c /\ e.len = hdr[c].size
      BY <3>1
    <3> QED  BY <2>3, <2>4, <3>2, <3>3
  <2>7. Extents' = Extents \cup {[start |-> b, len |-> n]}
    <3>1. \A e : e \in Extents' <=> e \in Extents \/ e = [start |-> b, len |-> n]
      BY <1>2, <2>2, <2>3
    <3> QED  BY <3>1
  <2> QED  BY <2>5, <2>6, <2>7 DEF Alloc!Malloc
<1>6. ASSUME NEW b \in blocks, kfree(b)  PROVE Alloc!Free
  <2>1. Used' = Used \ {b} /\ \A c \in blocks : hdr'[c].size = hdr[c].size
    BY <1>6, KfreeStep
  <2>2. b \in Used
    BY <1>1, <1>6, KfreeEffect, Zenon
  <2> DEFINE e == [start |-> b, len |-> hdr[b].size]
  <2>3. e \in Extents
    BY <1>2, <2>2
  <2>4. Extents' = Extents \ {e}
    <3>1. \A c \in Used : c \in blocks /\ hdr'[c].size = hdr[c].size
      BY <2>1 DEF Used
    <3>2. \A c \in Used : [start |-> c, len |-> hdr[c].size] = e => c = b
      OBVIOUS
    <3>3. \A f : f \in Extents' <=> f \in Extents /\ f # e
      BY <1>2, <2>1, <3>1, <3>2
    <3> QED  BY <3>3
  <2> QED  BY <2>3, <2>4 DEF Alloc!Free
<1>7. ASSUME NEW c \in blocks, Merge(c) \/ Advance(c)  PROVE Extents' = Extents
  BY <1>3, <1>7, MergeStep, AdvanceStep
<1> QED
  BY <1>4, <1>5, <1>6, <1>7 DEF Next, heap_coalesce_free_blocks, Alloc!Next, vars, Extents, Used

(* kmalloc and kfree, with splitting, merging and a walk that other calls  *)
(* cannot see, are the malloc and free of the allocator.                   *)
THEOREM HeapImplements == Spec => Implements
<1>1. Init => Alloc!Init
  <2> SUFFICES ASSUME Init, NEW b \in Used PROVE FALSE
    BY DEF Alloc!Init, Extents
  <2>1. b = 0 /\ hdr[b].used
    BY DEF Init, Used
  <2>2. hdr[0].used = FALSE
    BY Constants DEF Init, Wild
  <2> QED  BY <2>1, <2>2
<1>2. HeapInv /\ [Next]_vars => [Alloc!Next]_Extents
  BY NextAllocates
<1> QED  BY <1>1, <1>2, Invariance, PTL DEF Spec, Implements, Alloc!Spec
=============================================================================
