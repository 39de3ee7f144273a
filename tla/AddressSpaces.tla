---------------------------- MODULE AddressSpaces ----------------------------
(***************************************************************************)
(* Address spaces of processes and threads: what sys_exec, the ELF loader, *)
(* sys_thread_create, stack growth and exit do to the page tables.  Each   *)
(* of them runs without giving up the processor, so that it is one action; *)
(* processes take turns between them.  The order in which they run is      *)
(* Scheduler's concern: here any live process may be the next one.         *)
(***************************************************************************)
EXTENDS Paging

CONSTANTS
  MAX_PROCESSES,   \* slots of process_table
  MEMORY,          \* sizes of RAM, in frames
  IMAGES,          \* programs: segments in pages, and the pages TLS takes
  HEAP_PAGES, NET_PAGES

VARIABLES
  mem,       \* Paging's memory
  mode,      \* how far kernel_init is, "run", or "halted"
  space,     \* process_vm_space by cr3, while referenced
  proc,      \* process_table
  current    \* current_proc

vars == <<mem, mode, space, proc, current>>

Slots == 1..MAX_PROCESSES
Idle == 1
Users == Slots \ {Idle}

\* user_stack_bottom and user_tls_bottom; top is the page after the stack,
\* which the code gets back from user_stack_top by rounding up.
\* child is the process that sys_exec or kernel_main waits for.
NoProc == [state |-> "UNUSED", cr3 |-> 0, bottom |-> 0, top |-> 0, tls |-> 0, child |-> 0]

ASSUME SpacesAssumption ==
  /\ MAX_PROCESSES \in Nat /\ MAX_PROCESSES >= 2
  /\ MEMORY \subseteq Nat
  /\ \A img \in IMAGES :
       /\ img.tls \in Nat
       /\ \A i \in DOMAIN img.segs :
            /\ img.segs[i].from \in UserPages
            /\ img.segs[i].to \in img.segs[i].from..USER_STACK_TOP

(***************************************************************************)
(* elf_loader.c                                                            *)
(***************************************************************************)

\* map_segment: a page two segments share is mapped once.
MapSegment(m, seg) ==
  FoldLeft(LAMBDA r, v :
             LET w == PageTable(r.m, v, FALSE)
                 e == PageEntry(w, v)
             IN IF ~r.ok THEN r
                ELSE IF Present(e)
                  THEN [m |-> WriteEntry(w, v, Entry(e.to, TRUE)), ok |-> TRUE]
                  ELSE MapNew(w.m, v, TRUE),
           [m |-> m, ok |-> TRUE], PageSeq(seg.from, seg.to))

\* Segment i may lie past the end of a file that was cut short.
MapSegments(m, segs, cut) ==
  FoldLeftDomain(LAMBDA r, i :
                   IF ~r.ok THEN r
                   ELSE IF i = cut THEN [r EXCEPT !.ok = FALSE]
                   ELSE MapSegment(r.m, segs[i]),
                 [m |-> m, ok |-> TRUE], segs)

\* choose_stack_reserve (the same in scheduler.c).
StackReserve(lower, top) ==
  IF top <= lower THEN 0
  ELSE LET share == (top - lower) \div MAX_PROCESSES IN IF share < 1 THEN 1 ELSE share

\* What can be wrong: no such file or not a program, a segment past its end, a
\* relocation that is refused; kmalloc has no room for the kernel stack, or for
\* the process_vm_space.
Faults == {"none", "header", "cut", "reloc", "stack", "space"}

\* elf_load_from_file and elf_load_from_memory: segments, relocations, then
\* one page of stack.
Load(m, img, fault) ==
  LET seg == MapSegments(m, img.segs, IF fault = "cut" THEN Len(img.segs) ELSE 0)
      base == Min({img.segs[i].from : i \in DOMAIN img.segs})
      end  == Max({img.segs[i].to : i \in DOMAIN img.segs})
      reserve == StackReserve(end, USER_STACK_TOP)
      stack == IF reserve = 0 THEN [m |-> seg.m, ok |-> FALSE]
               ELSE MapRange(seg.m, USER_STACK_TOP - 1, USER_STACK_TOP, TRUE)
      Result(mm, ok) == [m |-> mm, ok |-> ok, base |-> base, end |-> end,
                         bottom |-> USER_STACK_TOP - reserve]
  IN CASE fault = "header" -> Result(m, FALSE)
       [] fault # "header" /\ (~seg.ok \/ fault = "reloc") -> Result(seg.m, FALSE)
       [] OTHER -> Result(stack.m, stack.ok)

\* elf_unload.
Unload(m, base, end, bottom, top) ==
  LET m1 == IF base # 0 THEN UnmapRange(m, base, end) ELSE m
  IN IF bottom # 0 THEN UnmapRange(m1, bottom, top) ELSE m1

(***************************************************************************)
(* scheduler.c: spaces and regions                                         *)
(***************************************************************************)

\* The way all of this code works on another address space: make it active,
\* work, and go back to what was active.
Enter(m, cr3) == SwitchTo(SetActive(m, cr3), cr3)

Return(m, old) == SwitchTo(SetActive(m, old.pml4), old.cr3)

\* Mutant: unloads in whatever space is active.
ReleaseHere(m, cr3, sp) ==
  IF sp.refs > 1 THEN m ELSE Unload(m, sp.base, sp.end, 0, 0)

\* release_vm_space: the last reference unmaps the image.
Release(m, cr3, sp) ==
  LET inside == IF cr3 # m.cr3 THEN Enter(m, cr3) ELSE m
      emptied == Unload(inside, sp.base, sp.end, 0, 0)
  IN IF sp.refs > 1 THEN m
     ELSE IF cr3 # m.cr3 THEN Return(emptied, m) ELSE emptied

Unreferenced(spaces, cr3) ==
  IF spaces[cr3].refs > 1 THEN [spaces EXCEPT ![cr3].refs = @ - 1]
  ELSE [c \in DOMAIN spaces \ {cr3} |-> spaces[c]]

\* map_main_thread_tls, below the main stack.
MainTls(m, img, load) ==
  LET tls == load.bottom - img.tls
      r == MapRange(m, tls, load.bottom, TRUE)
  IN IF img.tls = 0 THEN [m |-> m, ok |-> TRUE, tls |-> load.bottom]
     ELSE IF tls < load.end THEN [m |-> m, ok |-> FALSE, tls |-> load.bottom]
     ELSE [m |-> r.m, ok |-> r.ok, tls |-> tls]

\* process_configure_image.  alloc is whether kzalloc has room for the space;
\* without TLS memory the space is released again.
Configure(m, img, load, cr3, alloc) ==
  LET r == MainTls(Enter(m, cr3), img, load)
      back == Return(r.m, m)
      sp == [refs |-> 1, base |-> load.base, end |-> load.end,
             cursor |-> r.tls, tls |-> img.tls]
  IN IF ~alloc THEN [m |-> m, ok |-> FALSE, sp |-> sp]
     ELSE IF ~r.ok THEN [m |-> Release(back, cr3, sp), ok |-> FALSE, sp |-> sp]
     ELSE [m |-> back, ok |-> TRUE, sp |-> sp]

\* alloc_user_thread_region, and what process_spawn_user_thread does when it
\* fails.  The cursor moves down only.
ThreadRegion(m, sp) ==
  LET top == sp.cursor
      reserve == StackReserve(sp.end, top)
      bottom == top - reserve
      tls == bottom - sp.tls
      stack == MapRange(m, top - 1, top, TRUE)
      area == MapRange(stack.m, tls, bottom, TRUE)
      Failed(mm) == [m |-> mm, ok |-> FALSE, bottom |-> 0, top |-> 0, tls |-> 0]
  IN IF reserve = 0 \/ bottom <= sp.end THEN Failed(m)
     ELSE IF ~stack.ok THEN Failed(stack.m)
     ELSE IF sp.tls # 0 /\ tls <= sp.end THEN Failed(Unload(stack.m, 0, 0, bottom, top))
     ELSE IF ~area.ok THEN Failed(Unload(area.m, 0, 0, bottom, top))
     ELSE [m |-> area.m, ok |-> TRUE, bottom |-> bottom, top |-> top, tls |-> tls]

(***************************************************************************)
(* Boot                                                                    *)
(***************************************************************************)

Init ==
  /\ \E total \in MEMORY : mem = BootMemory(total)
  /\ mode = "heap"
  /\ space = <<>>
  /\ proc = [s \in Slots |-> IF s = Idle THEN [NoProc EXCEPT !.state = "LIVE", !.cr3 = kernel_cr3]
                             ELSE NoProc]
  /\ current = Idle

\* The first kmalloc, in paging_init, calls heap_init, which panics without
\* memory.
heap_init ==
  LET r == VmmAlloc(mem, HEAP_PAGES)
  IN /\ mode = "heap"
     /\ mem' = r.m
     /\ mode' = IF r.ok THEN "display" ELSE "halted"
     /\ UNCHANGED <<space, proc, current>>

\* fb_activate_mapped_mode and apic_init: a mapping that fails is not fatal.
MapDisplay ==
  /\ mode = "display"
  /\ mem' = MapDevice(MapDevice(mem, DEVICE_BASE).m, DEVICE_BASE + 1).m
  /\ mode' = "net"
  /\ UNCHANGED <<space, proc, current>>

\* net_map_mmio and e1000_alloc_dma.  Without a card, or without memory, the
\* system starts all the same.
NetPages(m) == FoldLeft(LAMBDA r, i : VmmAlloc(r, 1).m, m, PageSeq(0, NET_PAGES))

MapNetwork ==
  LET r == MapDevice(mem, MMIO_VIRT_BASE)
  IN /\ mode = "net"
     /\ mem' \in {mem, IF r.ok THEN NetPages(r.m) ELSE r.m}
     /\ mode' = "test"
     /\ UNCHANGED <<space, proc, current>>

\* The page test of run_system_tests.
MemoryTest ==
  LET r == VmmAlloc(mem, 1)
  IN /\ mode = "test"
     /\ mem' = IF r.ok THEN VmmFree(r.m, mem.nextv, 1) ELSE r.m
     /\ mode' = "run"
     /\ UNCHANGED <<space, proc, current>>

(***************************************************************************)
(* Programs                                                                *)
(***************************************************************************)

Free == {s \in Users : proc[s].state = "UNUSED"}
Runs(p) == mode = "run" /\ current = p /\ proc[p].state = "LIVE" /\ proc[p].child = 0

\* alloc_process takes the first free slot; the kernel stack may not fit.
Spawned(fault) == Free # {} /\ fault # "stack"

\* Frames are not reused, so that a table which no process can reach any more
\* plays no part; the model forgets it.
Tables(m, pml4) ==
  LET Below(S) == {e.to : e \in UNION {{m.tab[t][i] : i \in Indices} : t \in S}} \cap DOMAIN m.tab
      t3 == Below({pml4})
      t2 == Below(t3)
  IN {pml4} \cup t3 \cup t2 \cup Below(t2)

Forget(m, processes) ==
  LET roots == {kernel_cr3, m.cr3} \cup ({processes[p].cr3 : p \in Slots} \ {0})
  IN [m EXCEPT !.tab = Restrict(@, UNION {Tables(m, c) : c \in roots})]

\* The part that sys_exec, sys_exec_argv and launch_init_elf share, up to the
\* wait.  cleans: whether a failed process_spawn is followed by an unload.
Exec(p, img, fault, cleans) ==
  \E c \in {CreateUserPml4(mem)} :
  \E load \in {Load(Enter(c.m, c.cr3), img, fault)} :
  \E loaded \in {Return(load.m, c.m)} :
  \E conf \in {Configure(loaded, img, load, c.cr3, fault # "space")} :
    LET Unloaded(m) ==
          Return(Unload(Enter(m, c.cr3), load.base, load.end, load.bottom, USER_STACK_TOP), m)
        s == Min(Free)
    IN IF c.cr3 # 0 /\ load.ok /\ Spawned(fault) /\ conf.ok
       THEN /\ mem' = conf.m
            /\ space' = c.cr3 :> conf.sp @@ space
            /\ proc' = [proc EXCEPT ![p].child = s,
                          ![s] = [NoProc EXCEPT !.state = "LIVE", !.cr3 = c.cr3, !.bottom = load.bottom,
                                                !.top = USER_STACK_TOP, !.tls = conf.sp.cursor]]
       ELSE /\ mem' = Forget(CASE c.cr3 = 0 -> c.m
                               [] c.cr3 # 0 /\ ~load.ok -> loaded
                               [] c.cr3 # 0 /\ load.ok /\ ~Spawned(fault) ->
                                    IF cleans THEN Unloaded(loaded) ELSE loaded
                               [] OTHER -> Unloaded(conf.m),
                             proc)
            /\ UNCHANGED <<space, proc>>

sys_exec(p) ==
  /\ p \in Users /\ Runs(p)
  /\ \E img \in IMAGES, fault \in Faults : Exec(p, img, fault, TRUE)
  /\ UNCHANGED <<mode, current>>

launch_init_elf ==
  /\ Runs(Idle)
  /\ \E img \in IMAGES, fault \in Faults : Exec(Idle, img, fault, FALSE)
  /\ UNCHANGED <<mode, current>>

\* process_spawn_user_thread.
sys_thread_create(p) ==
  /\ p \in Users /\ Runs(p)
  /\ Free # {}
  /\ \E r \in {ThreadRegion(mem, space[proc[p].cr3])} :
       /\ mem' = r.m
       /\ IF r.ok
          THEN /\ space' = [space EXCEPT ![proc[p].cr3].refs = @ + 1, ![proc[p].cr3].cursor = r.tls]
               /\ proc' = [proc EXCEPT ![Min(Free)] = [NoProc EXCEPT !.state = "LIVE",
                             !.cr3 = proc[p].cr3, !.bottom = r.bottom, !.top = r.top, !.tls = r.tls]]
          ELSE UNCHANGED <<space, proc>>
  /\ UNCHANGED <<mode, current>>

\* A page the tables of the active space lead to, and whether user mode may
\* use it: PAGE_USER must be set at every level.
Path(m, pml4, v) ==
  LET e3 == m.tab[pml4][Index(v, 3)]
      e2 == IF Present(e3) THEN m.tab[e3.to][Index(v, 2)] ELSE NotPresent
      e1 == IF Present(e2) THEN m.tab[e2.to][Index(v, 1)] ELSE NotPresent
      e0 == IF e1.to \in {0, HUGE} THEN e1 ELSE m.tab[e1.to][Index(v, 0)]
  IN [to |-> e0.to, user |-> e3.user /\ e2.user /\ e1.user /\ e0.user]

\* A fault in the stack of the current process adds a page
\* (scheduler_handle_user_page_fault); page_fault_handler halts when it
\* cannot.
page_fault_handler(v) ==
  LET p == current
      r == MapNew(mem, v, TRUE)
  IN /\ p \in Users /\ mode = "run" /\ proc[p].state = "LIVE"
     /\ v \in proc[p].bottom..(proc[p].top - 1)
     /\ ~Present(Path(mem, mem.pml4, v))
     /\ mem' = r.m
     /\ mode' = IF r.ok THEN "run" ELSE "halted"
     /\ UNCHANGED <<space, proc, current>>

\* Mutant: unmaps the stack only.
ExitStackOnly(p) ==
  LET cr3 == proc[p].cr3
      m1 == Unload(mem, 0, 0, proc[p].bottom, proc[p].top)
  IN /\ p \in Users /\ Runs(p)
     /\ mem' = Release(m1, cr3, space[cr3])
     /\ space' = Unreferenced(space, cr3)
     /\ proc' = [proc EXCEPT ![p] = [@ EXCEPT !.state = "ZOMBIE", !.bottom = 0, !.top = 0, !.tls = 0]]
     /\ UNCHANGED <<mode, current>>

\* process_mark_zombie of the current process: its region goes in the active
\* space, the image with the last reference.
process_exit(p) ==
  LET cr3 == proc[p].cr3
      m1 == Unload(mem, 0, 0, proc[p].tls, proc[p].top)
  IN /\ p \in Users /\ Runs(p)
     /\ mem' = Release(m1, cr3, space[cr3])
     /\ space' = Unreferenced(space, cr3)
     /\ proc' = [proc EXCEPT ![p] = [@ EXCEPT !.state = "ZOMBIE", !.bottom = 0, !.top = 0, !.tls = 0]]
     /\ UNCHANGED <<mode, current>>

\* schedule.
schedule(next) ==
  /\ mode = "run" /\ next # current /\ proc[next].state = "LIVE"
  /\ current' = next
  /\ mem' = SwitchTo(mem, proc[next].cr3)
  /\ UNCHANGED <<mode, space, proc>>

\* process_reap, of a child that was waited for or by sys_thread_join.
process_reap(z) ==
  /\ mode = "run" /\ proc[current].state = "LIVE" /\ proc[z].state = "ZOMBIE"
  /\ \/ proc[current].child = z
     \/ Runs(current) /\ \A p \in Slots : proc[p].child # z
  /\ proc' = [proc EXCEPT ![z] = NoProc, ![current].child = 0]
  /\ mem' = Forget(mem, proc')
  /\ UNCHANGED <<mode, space, current>>

\* panic and page_fault_handler stop the machine.
Halted == mode = "halted" /\ UNCHANGED vars

Next ==
  \/ heap_init \/ MapDisplay \/ MapNetwork \/ MemoryTest
  \/ launch_init_elf
  \/ \E p \in Slots : sys_exec(p) \/ sys_thread_create(p) \/ process_exit(p)
                     \/ schedule(p) \/ process_reap(p)
  \/ \E v \in UserPages : page_fault_handler(v)
  \/ Halted

Spec == Init /\ [][Next]_vars

(***************************************************************************)
(* Properties                                                              *)
(***************************************************************************)

TypeOK ==
  /\ mode \in {"heap", "display", "net", "test", "run", "halted"}
  /\ current \in Slots
  /\ \A s \in Slots : proc[s].state \in {"UNUSED", "LIVE", "ZOMBIE"} /\ proc[s].child \in 0..MAX_PROCESSES
  /\ DOMAIN space \subseteq DOMAIN mem.tab
  /\ \A f \in DOMAIN mem.tab : \A i \in Indices : mem.tab[f][i].to < mem.next

\* Whoever runs, runs on the tables of its own space, and current_pml4 is
\* what the processor uses: every detour into another space has come back,
\* on the error paths of sys_exec and process_configure_image too.
RunsOnOwnTables ==
  /\ TypeOK
  /\ mem.pml4 = mem.cr3
  /\ proc[current].state = "LIVE" =>
       mem.cr3 = proc[current].cr3 /\ (current \in Users => mem.cr3 \in DOMAIN space)

KernelPages == Pages \ UserPages

MappedUser(c) == {v \in UserPages : Present(Path(mem, c, v))}
FramesOf(c, V) == {Path(mem, c, v).to : v \in V}

\* Every address space has the kernel's memory and devices where the kernel's
\* own tables have them, out of reach of user mode, and the kernel's tables
\* have no user page: interrupts and system calls work in any space, although
\* paging_create_user_pml4 copies tables once.
KernelEverywhere ==
  /\ \A c \in DOMAIN space : \A v \in KernelPages :
       Path(mem, c, v) = [to |-> Path(mem, kernel_cr3, v).to, user |-> FALSE]
  /\ \A v \in UserPages : ~Present(Path(mem, kernel_cr3, v))

\* A frame that one program sees in user space is no other program's, no page
\* of the kernel, and no page table; and the kernel is where it should be in
\* every space (KernelEverywhere).
Isolated ==
  KernelEverywhere /\ \A c \in DOMAIN space :
    LET mine == FramesOf(c, MappedUser(c)) IN
    /\ Cardinality(mine) = Cardinality(MappedUser(c))
    /\ mine \cap (DOMAIN mem.tab \cup FramesOf(kernel_cr3, KernelPages)) = {}
    /\ \A d \in DOMAIN space \ {c} : mine \cap FramesOf(d, MappedUser(d)) = {}

Image(c) == space[c].base..(space[c].end - 1)
Region(p) == proc[p].tls..(proc[p].top - 1)
Threads(c) == {p \in Users : proc[p].state = "LIVE" /\ proc[p].cr3 = c}

\* A live thread has its image, its TLS and the top of its stack, and can use
\* them in user mode; nobody else's exit, failed exec or failed thread takes
\* them.  No two threads share stack or TLS, and none reaches the image.
OwnedMapped ==
  \A c \in DOMAIN space : \A p \in Threads(c) :
    /\ \A v \in Image(c) \cup {proc[p].top - 1} \cup (proc[p].tls..(proc[p].bottom - 1)) :
         Path(mem, c, v).to # 0 /\ Path(mem, c, v).user
    /\ Region(p) \cap Image(c) = {}
    /\ \A q \in Threads(c) \ {p} : Region(p) \cap Region(q) = {}

\* Whoever runs has its own tables and all of its own memory, and nobody
\* else's: the three invariants above.
SpacesSound == RunsOnOwnTables /\ Isolated /\ OwnedMapped

Owned(c) ==
  IF c \notin DOMAIN space THEN {}
  ELSE Image(c) \cup UNION {Region(p) : p \in Threads(c)}

\* While there is memory, a space never keeps a page that is not of its image
\* or of a live thread; in particular nothing is mapped any more when its
\* last thread has gone (process_mark_zombie, release_vm_space).
NothingLeft ==
  [][\A c \in DOMAIN space : mem'.next < mem'.total =>
       \A v \in UserPages : Present(Path(mem', c, v)) => v \in Owned(c)']_vars
=============================================================================
