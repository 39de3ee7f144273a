------------------------------- MODULE Paging -------------------------------
(***************************************************************************)
(* Page tables and frames (src/cpu/x86/paging.c), as operators on the     *)
(* machine's memory: a C function that changes memory is an operator from *)
(* a memory to a memory and a result.                                     *)
(*                                                                         *)
(* Addresses are page numbers.  A page's number in base ENTRIES gives the *)
(* index at each of the four levels.  The first entry of the first table  *)
(* leads to low memory (identity map, then user space, then devices), the *)
(* last one to the kernel's heap and the network card.                    *)
(*                                                                         *)
(* used_frames is left out: pmm_free_frame only counts, a freed frame is  *)
(* never handed out again.  Entries keep the address and PAGE_USER.       *)
(***************************************************************************)
EXTENDS Integers, SequencesExt, Functions

CONSTANT ENTRIES           \* PAGE_ENTRIES, 512 in the code

ASSUME EntriesAssumption == ENTRIES \in Nat /\ ENTRIES >= 3

Indices == 0..(ENTRIES - 1)
Pages   == 0..(ENTRIES^4 - 1)

\* PML4_INDEX is Index(v, 3), PT_INDEX is Index(v, 0).
Index(v, level) == (v \div ENTRIES^level) % ENTRIES

USER_VIRTUAL_BASE == ENTRIES^2
USER_STACK_TOP    == 2 * ENTRIES^2
UserPages         == USER_VIRTUAL_BASE..(USER_STACK_TOP - 1)
DEVICE_BASE       == USER_STACK_TOP
KERNEL_HEAP_START == ENTRIES^4 - 2 * ENTRIES^2
MMIO_VIRT_BASE    == ENTRIES^4 - ENTRIES^2

(***************************************************************************)
(* A memory: the tables by frame, the bump allocator's next frame and its *)
(* limit, current_pml4, current_cr3, and next_virtual.                     *)
(***************************************************************************)

NotPresent == [to |-> 0, user |-> FALSE]
Entry(f, user) == [to |-> f, user |-> user]
Present(e) == e.to # 0
EmptyTable == [i \in Indices |-> NotPresent]

\* The tables boot.asm builds.  Frames below FIRST_FRAME are the kernel's.
p4_table == 1
p3_table == 2
p2_table == 3
FIRST_FRAME == 4
kernel_cr3 == p4_table

\* 2 MB pages have no table below them.  A device's registers and the
\* framebuffer are not in a frame of RAM: they are named by their page.
HUGE == -1
DeviceFrame(v) == -1 - v

BootMemory(total) ==
  [tab   |-> p4_table :> [EmptyTable EXCEPT ![0] = Entry(p3_table, FALSE)]
          @@ p3_table :> [EmptyTable EXCEPT ![0] = Entry(p2_table, FALSE)]
          @@ p2_table :> [i \in Indices |-> Entry(HUGE, FALSE)],
   next  |-> FIRST_FRAME,
   total |-> total,
   pml4  |-> kernel_cr3,
   cr3   |-> kernel_cr3,
   nextv |-> KERNEL_HEAP_START]

\* paging_set_active_pml4 and paging_switch_to.
SetActive(m, pml4) == [m EXCEPT !.pml4 = pml4]
SwitchTo(m, cr3)   == IF cr3 = 0 THEN m ELSE [m EXCEPT !.cr3 = cr3, !.pml4 = cr3]

\* pmm_alloc_frame; frame 0 stands for failure.
Alloc(m) ==
  IF m.next >= m.total
    THEN [m |-> m, frame |-> 0]
    ELSE [m |-> [m EXCEPT !.next = @ + 1], frame |-> m.next]

(***************************************************************************)
(* The walk.  Table 0 is the NULL of a level that is missing.              *)
(***************************************************************************)

IsUser(v) == v \in UserPages

\* One level of paging_get_page_table.
Descend(w, i, user, create) ==
  LET e == w.m.tab[w.at][i]
      a == Alloc(w.m)
  IN CASE w.at = 0 -> w
       [] w.at # 0 /\ Present(e) ->
            [m |-> [w.m EXCEPT !.tab[w.at][i].user = @ \/ user], at |-> e.to]
       [] w.at # 0 /\ ~Present(e) /\ (~create \/ a.frame = 0) ->
            [w EXCEPT !.at = 0]
       [] OTHER ->
            [m |-> [a.m EXCEPT !.tab = (a.frame :> EmptyTable)
                        @@ [@ EXCEPT ![w.at][i] = Entry(a.frame, user)]],
             at |-> a.frame]

\* paging_get_page_table; walk[l] is the table whose entries Index(v, l - 1)
\* selects.
PageTable(m, v, create) ==
  LET walk[l \in 1..4] == IF l = 4 THEN [m |-> m, at |-> m.pml4]
                          ELSE Descend(walk[l + 1], Index(v, l), IsUser(v), create)
  IN walk[1]

PageEntry(w, v) == IF w.at = 0 THEN NotPresent ELSE w.m.tab[w.at][Index(v, 0)]
WriteEntry(w, v, e) == [w.m EXCEPT !.tab[w.at][Index(v, 0)] = e]

\* paging_map_page: does not replace a page that is there.  The walk of its
\* paging_is_mapped is the first part of the walk that creates tables.
Map(m, v, f, user) ==
  LET w == PageTable(m, v, TRUE)
  IN IF w.at = 0 \/ Present(PageEntry(w, v)) THEN [m |-> w.m, ok |-> FALSE]
     ELSE [m |-> WriteEntry(w, v, Entry(f, user)), ok |-> TRUE]

\* paging_unmap_page.
Unmap(m, v) ==
  LET w == PageTable(m, v, FALSE)
  IN IF Present(PageEntry(w, v)) THEN WriteEntry(w, v, NotPresent) ELSE w.m

\* A new frame for page v, as map_zeroed_user_range, vmm_alloc_pages,
\* allocate_user_stack and the fault handler all get one.  When the mapping
\* fails, pmm_free_frame does not bring the frame back.
MapNew(m, v, user) ==
  LET a == Alloc(m)
  IN IF a.frame = 0 THEN [m |-> m, ok |-> FALSE] ELSE Map(a.m, v, a.frame, user)

PageSeq(from, to) == [i \in 1..(to - from) |-> from + i - 1]

\* Pages from..to-1, in order, until one fails; done is how many were mapped.
MapRange(m, from, to, user) ==
  FoldLeft(LAMBDA r, v :
             LET n == MapNew(r.m, v, user)
             IN IF ~r.ok THEN r
                ELSE [m |-> n.m, ok |-> n.ok, done |-> IF n.ok THEN r.done + 1 ELSE r.done],
           [m |-> m, ok |-> TRUE, done |-> 0], PageSeq(from, to))

UnmapRange(m, from, to) == FoldLeft(Unmap, m, PageSeq(from, to))

(***************************************************************************)
(* Kernel pages, and a new address space.                                  *)
(***************************************************************************)

\* vmm_alloc_pages; what was mapped before a failure is unmapped again.
VmmAlloc(m, n) ==
  LET r == MapRange(m, m.nextv, m.nextv + n, FALSE)
  IN IF r.ok THEN [m |-> [r.m EXCEPT !.nextv = @ + n], ok |-> TRUE]
     ELSE [m |-> UnmapRange(r.m, m.nextv, m.nextv + r.done), ok |-> FALSE]

\* vmm_free_pages.
VmmFree(m, v, n) == UnmapRange(m, v, v + n)

\* The framebuffer, the APIC and the network card map pages of their own.
MapDevice(m, v) == Map(m, v, DeviceFrame(v), FALSE)

\* The two tables of a new space; from is the table that is copied.
NewTables(m, from, upper) ==
  LET a4 == Alloc(m)
      a3 == Alloc(a4.m)
      kernel == m.tab[from]
      t4 == [i \in Indices |-> IF i = 0 THEN Entry(a3.frame, FALSE)
                               ELSE IF i \in upper THEN kernel[i] ELSE NotPresent]
      t3 == IF Present(kernel[0]) THEN m.tab[kernel[0].to] ELSE EmptyTable
  IN IF a4.frame = 0 \/ a3.frame = 0 THEN [m |-> a3.m, cr3 |-> 0]
     ELSE [m |-> [a3.m EXCEPT !.tab = a4.frame :> t4 @@ a3.frame :> t3 @@ @], cr3 |-> a4.frame]

\* paging_create_user_pml4: the upper half of the first table, and all that
\* the kernel's low memory has one level down.
CreateUserPml4(m) == NewTables(m, kernel_cr3, (ENTRIES \div 2)..(ENTRIES - 1))
=============================================================================
