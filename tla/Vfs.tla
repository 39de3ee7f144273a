-------------------------------- MODULE Vfs --------------------------------
(***************************************************************************)
(* The virtual file system of src/fs/vfs.c over the FAT32 driver, as the   *)
(* file system calls of src/kernel/syscall.c use it.  Its table of open    *)
(* files is shared by all processes, and is the only user of the driver's. *)
(***************************************************************************)
EXTENDS Fat32, Sequences

CONSTANTS
  VFS_MAX_OPEN_FILES,
  Uses                 \* how programs use the file system: the records below

\* A use of the file system is a record:
\*   exclusive   the programs keep away from files that are open
\*   flags       the flag words they pass to open
\*   tags        what they write
\*   counts      how much they read or write at a time
\*   disks       the disks they start from
\*   faults      a disk write may fail
ASSUME VfsAssumption == VFS_MAX_OPEN_FILES \in Nat \ {0}
ASSUME UsesAssumption == \A u \in Uses :
  /\ u.exclusive \in BOOLEAN /\ u.faults \in BOOLEAN
  /\ u.flags \subseteq Flag /\ u.tags \subseteq Tags /\ u.counts \subseteq Nat \ {0}

VARIABLES
  use,                 \* one of Uses, chosen once
  open_files           \* the descriptor behind each slot, NoHandle when free

vvars == <<use, vars, open_files>>

Slots == 0..(VFS_MAX_OPEN_FILES - 1)
NoHandle == -1

VInit ==
  /\ use \in Uses /\ \E d \in use.disks : Mounted(d)
  /\ open_files = [s \in Slots |-> NoHandle]

FreeSlots == {s \in Slots : open_files[s] = NoHandle}
alloc_open_slot == CHOOSE s \in FreeSlots : \A t \in FreeSlots : s <= t

OpenNames == {dir[fd[f].index].name : f \in {f \in Fds : fd[f].in_use}}

vfs_open(n, fl) ==
  /\ use.exclusive => n \notin OpenNames
  /\ fat32_open(n, fl)
  /\ UNCHANGED open_files

\* The driver has opened the file: give it a slot, or close it again.
VfsOpened ==
  /\ op.pc = "done" /\ op.call = "open" /\ op.ret >= 0
  /\ op' = Idle
  /\ IF FreeSlots = {}
     THEN fd' = [fd EXCEPT ![op.ret] = Closed] /\ UNCHANGED open_files
     ELSE open_files' = [open_files EXCEPT ![alloc_open_slot] = op.ret] /\ UNCHANGED fd
  /\ UNCHANGED disk

\* A failed open, and the end of a write, change nothing more.
VfsReturn ==
  /\ op.pc = "done" /\ (op.call = "write" \/ op.ret < 0)
  /\ op' = Idle
  /\ UNCHANGED <<disk, fd, open_files>>

vfs_close(s) ==
  /\ open_files[s] # NoHandle
  /\ fat32_close(open_files[s])
  /\ open_files' = [open_files EXCEPT ![s] = NoHandle]

vfs_read(s, count) ==
  /\ open_files[s] # NoHandle
  /\ fat32_read(open_files[s], count)
  /\ UNCHANGED open_files

vfs_write(s, count, tag) ==
  /\ open_files[s] # NoHandle
  /\ fat32_write(open_files[s], count, tag)
  /\ UNCHANGED open_files

\* The machine stops at any step and starts again: fat32_init
\* and vfs_init clear the tables, the disk is what it was.
Restart ==
  /\ op' = Idle
  /\ fd' = [f \in Fds |-> Closed]
  /\ open_files' = [s \in Slots |-> NoHandle]
  /\ UNCHANGED disk

VNext ==
  /\ UNCHANGED use
  /\ \/ \E n \in Names, fl \in use.flags : vfs_open(n, fl)
     \/ \E s \in Slots : vfs_close(s)
     \/ \E s \in Slots, c \in use.counts : vfs_read(s, c)
     \/ \E s \in Slots, c \in use.counts, t \in use.tags : vfs_write(s, c, t)
     \/ Step /\ UNCHANGED open_files
     \/ use.faults /\ WriteFails /\ UNCHANGED open_files
     \/ VfsOpened
     \/ VfsReturn
     \/ Restart

VSpec == VInit /\ [][VNext]_vvars

-----------------------------------------------------------------------------
(* Properties *)

\* Every variable keeps to its values; in particular no descriptor is used
\* that is not open and no table entry names a cluster that does not exist.
TypeOK ==
  /\ fat \in [1..NUM_FATS -> [Clusters -> {FREE, EOC} \cup Clusters]]
  /\ dir \in [Indices -> [name : Names \cup {"end", "gone"},
                          first : Clusters \cup {0}, size : Nat]]
  /\ data \in [Clusters -> [Offsets -> Tags \cup {0}]]
  /\ fd \in [Fds -> [in_use : BOOLEAN, first : Clusters \cup {0}, size : Nat,
                     position : Nat, capacity : Nat, index : Indices, access : 0..3]]
  /\ op.pc \in WritePlaces \cup {"idle", "slot", "seek", "done"}
  /\ op.pc \in {"data", "size", "link", "seek"} => fd[op.f].in_use
  /\ open_files \in [Slots -> Fds \cup {NoHandle}]

Files == {i \in Live : dir[i].first # 0}

\* A descriptor never believes that its chain is longer than it is.
\* fat32_write goes by the capacity when it decides not to extend.
CapacityHeld ==
  \A f \in Fds : fd[f].in_use =>
    fd[f].capacity <= BYTES_PER_CLUSTER *
      (IF fd[f].first = 0 THEN 0 ELSE ChainLength(fd[f].first))

\* The chain of a file in another copy of the table is a beginning of its
\* chain in the copy that is read: the copies may lag but never contradict.
CopiesLag ==
  \A i \in Files, k \in 1..NUM_FATS : \A c \in Chain(dir[i].first) :
    fat[k][c] \in {FREE, EOC, fat[1][c]}

\* The slots of vfs.c and the descriptors of fat32.c correspond one to one,
\* except for the file that an open has not handed over yet: none is lost
\* when the slots run out, and none is used through two slots.
HandlesAgree ==
  LET handles == {open_files[s] : s \in Slots \ FreeSlots}
      pending == IF op.call = "open" /\ op.pc \in {"trunc", "done"} THEN {op.f} ELSE {}
  IN /\ \A s, t \in Slots \ FreeSlots : s # t => open_files[s] # open_files[t]
     /\ \A h \in handles : fd[h].in_use
     /\ {f \in Fds : fd[f].in_use} \ handles \subseteq pending

\* At every step of every operation, and so after a restart: the chains of
\* the files end, run through no free cluster, and share none, and no name
\* appears twice; and an entry claims no more bytes than its chain holds,
\* whatever the order in which descriptors extend, truncate and rewrite it.
\* No descriptor believes that its chain is longer than it is, and no copy of
\* the table contradicts the one that is read; and every descriptor in use has
\* its slot (HandlesAgree).
ChainsSound ==
  /\ TypeOK /\ CapacityHeld /\ CopiesLag /\ HandlesAgree
  /\ \A i \in Files :
       /\ ChainLength(dir[i].first) <= Cardinality(Clusters)
       /\ \A c \in Chain(dir[i].first) : fat[1][c] # FREE
  /\ \A i, j \in Files : i # j => Chain(dir[i].first) \cap Chain(dir[j].first) = {}
  /\ \A i, j \in Live : i # j => dir[i].name # dir[j].name
  /\ \A i \in Live : dir[i].size <= BYTES_PER_CLUSTER *
                   (IF dir[i].first = 0 THEN 0 ELSE ChainLength(dir[i].first))

\* Programs that do not share an open file, on a disk that works.
Alone == use.exclusive /\ ~use.faults

\* A write that meets no disk error reports all of its bytes, or failure.  For
\* programs that are alone, bytes reported are in the file: the entry on disk
\* reaches to their end and they read back as written; and between calls every
\* descriptor agrees with the directory, so that a read returns the bytes of
\* the file up to its end.
AckedOnDisk ==
  /\ op.pc = "done" /\ op.call = "write" /\ ~op.err => op.ret \in {-1, op.count}
  /\ Alone =>
    /\ op.pc = "done" /\ op.call = "write" /\ op.ret > 0 =>
         LET e == dir[fd[op.f].index]
         IN /\ e.size >= op.pos + op.ret
            /\ \A i \in op.pos..(op.pos + op.ret - 1) : ByteAt(e.first, i) = op.tag
    /\ op.pc = "idle" => \A f \in Fds : fd[f].in_use =>
         /\ fd[f].first = dir[fd[f].index].first
         /\ fd[f].size = dir[fd[f].index].size
         /\ fd[f].position <= fd[f].size

ContentsOf(n) ==
  LET e == dir[find_entry(n)]
  IN IF find_entry(n) = NoEntry THEN [there |-> FALSE, bytes |-> <<>>]
     ELSE [there |-> TRUE, bytes |-> [i \in 1..e.size |-> ByteAt(e.first, i - 1)]]

\* For the other programs nothing is claimed: the mapping stands still.
Nothing == [there |-> FALSE, bytes |-> <<>>]
Store == INSTANCE FileStore WITH
           files <- [n \in Names |-> IF Alone THEN ContentsOf(n) ELSE Nothing]

\* For programs that do not share an open file the disk implements
\* FileStore, at every single disk write and across restarts.
FilesImplemented == Store!Spec
=============================================================================
