------------------------------- MODULE Fat32 -------------------------------
(***************************************************************************)
(* The FAT32 driver of src/fs/fat32.c: one directory, its files, the       *)
(* copies of the allocation table and the table of open files.  System     *)
(* calls run to completion (the scheduler is cooperative and the disk is   *)
(* polled), so one operation is in progress at a time; it is a sequence of *)
(* disk writes, after each of which the machine may stop, and each of      *)
(* which may fail.  A step is one write with the computation before it.    *)
(* Path walking is left out: a name stands for a path that has already     *)
(* led to its directory.  A cluster is one sector long; on a larger one a  *)
(* torn write changes a directory in one sector only, and file data that   *)
(* no completed write has covered.                                         *)
(***************************************************************************)
EXTENDS Integers, FiniteSets

CONSTANTS
  Names,             \* short names of files
  TOTAL_CLUSTERS,    \* g_fs.total_clusters, the directory's own included
  NUM_FATS,          \* g_fs.boot.num_fats
  ENTRIES,           \* directory entries in a cluster
  BYTES_PER_CLUSTER, \* g_fs.bytes_per_cluster
  MAX_OPEN_FILES,
  Tags               \* what a write may fill its bytes with

ASSUME SizesAssumption ==
  /\ TOTAL_CLUSTERS \in Nat \ {0} /\ NUM_FATS \in Nat \ {0}
  /\ ENTRIES \in Nat \ {0} /\ BYTES_PER_CLUSTER \in Nat \ {0}
  /\ MAX_OPEN_FILES \in Nat \ {0}
ASSUME TagsAssumption == Tags \subseteq Nat \ {0}

\* Cluster 2 holds the directory and is never touched as a file.
Clusters == 3..(TOTAL_CLUSTERS + 1)
FREE == 0
EOC == 1
NoEntry == -1

VARIABLES
  fat,     \* the copies of the allocation table; copy 1 is the one read
  dir,     \* the directory cluster
  data,    \* the bytes of the other clusters
  fd,      \* g_fd_table
  op       \* the operation in progress: its place and its locals

disk == <<fat, dir, data>>
vars == <<fat, dir, data, fd, op>>

Indices == 0..(ENTRIES - 1)
Fds == 0..(MAX_OPEN_FILES - 1)
Offsets == 0..(BYTES_PER_CLUSTER - 1)

\* The name is "end" for a first byte of 0x00 and "gone" for 0xE5.
NoFile == [name |-> "end", first |-> 0, size |-> 0]

Closed == [in_use |-> FALSE, first |-> 0, size |-> 0, position |-> 0,
           capacity |-> 0, index |-> 0, access |-> 0]

\* access is the low two bits of the flag word: 1 is RDONLY, 2 WRONLY, 3 RDWR.
Flag == [access : 1..3, creat : BOOLEAN, trunc : BOOLEAN, append : BOOLEAN]
NoFlags == [access |-> 0, creat |-> FALSE, trunc |-> FALSE, append |-> FALSE]

Idle == [pc |-> "idle", call |-> "none", name |-> "end", flags |-> NoFlags,
         index |-> 0, f |-> 0, copy |-> 1, new |-> 0, last |-> 0, add |-> 0,
         cluster |-> 0, pos |-> 0, total |-> 0, count |-> 0, tag |-> 0,
         ret |-> 0, err |-> FALSE]

\* The disk is d, and no file is open.
Mounted(d) ==
  /\ fat = d.fat /\ dir = d.dir /\ data = d.data
  /\ fd = [f \in Fds |-> Closed]
  /\ op = Idle

-----------------------------------------------------------------------------
(* Reading the disk *)

fat32_next_cluster(c) == IF fat[1][c] \in {FREE, EOC} THEN 0 ELSE fat[1][c]

\* The cluster n links after c, 0 beyond the end of the chain.
After(c, n) ==
  LET walk[i \in 0..n] == IF i = 0 THEN c
                          ELSE IF walk[i - 1] = 0 THEN 0
                          ELSE fat32_next_cluster(walk[i - 1])
  IN walk[n]

\* One more index than there are clusters: a cycle shows as a chain too long.
ChainLength(c) == Cardinality({i \in 0..Cardinality(Clusters) : After(c, i) # 0})
Chain(c) == {After(c, i) : i \in 0..Cardinality(Clusters)} \ {0}
fat32_last_cluster(c) == After(c, ChainLength(c) - 1)

\* Mutant: an end-of-chain mark is taken for a free cluster.
FreeOrLast == {c \in Clusters : fat[1][c] \in {FREE, EOC}}

FreeClusters == {c \in Clusters : fat[1][c] = FREE}
fat32_find_free_cluster ==
  IF FreeClusters = {} THEN 0
  ELSE CHOOSE c \in FreeClusters : \A d \in FreeClusters : c <= d

\* Entries past the first 0x00 are not looked at.
Live == {i \in Indices : dir[i].name # "gone" /\ \A j \in 0..i : dir[j].name # "end"}
Matches(n) == {i \in Live : dir[i].name = n}
find_entry(n) == IF Matches(n) = {} THEN NoEntry
                 ELSE CHOOSE i \in Matches(n) : \A j \in Matches(n) : i <= j

UnusedEntries == {i \in Indices : dir[i].name \in {"end", "gone"}}
FreeEntry == IF UnusedEntries = {} THEN NoEntry
             ELSE CHOOSE i \in UnusedEntries : \A j \in UnusedEntries : i <= j

FreeFds == {f \in Fds : ~fd[f].in_use}
FreeFd == CHOOSE f \in FreeFds : \A g \in FreeFds : f <= g

\* Byte i of the chain that starts at c.
ByteAt(c, i) == data[After(c, i \div BYTES_PER_CLUSTER)][i % BYTES_PER_CLUSTER]

-----------------------------------------------------------------------------
(* Leaving an operation, and the steps that operations share *)

Returning(o, r) == [o EXCEPT !.pc = "done", !.ret = r]

\* fat32_write_fat_entry: one copy per step; o is op after the last copy.
WriteFatEntry(c, v, o) ==
  /\ fat' = [fat EXCEPT ![op.copy][c] = v]
  /\ op' = IF op.copy < NUM_FATS THEN [op EXCEPT !.copy = @ + 1]
           ELSE [o EXCEPT !.copy = 1]
  /\ UNCHANGED <<dir, data>>

\* Start on a new cluster, or give up when the disk is full.
Allocating(o) ==
  IF fat32_find_free_cluster = 0 THEN Returning(o, -1)
  ELSE [o EXCEPT !.pc = "alloc", !.new = fat32_find_free_cluster]

-----------------------------------------------------------------------------
(* fat32_open and fat32_create_file *)

fat32_open(n, fl) ==
  /\ op.pc = "idle"
  /\ LET i == find_entry(n)
         o == [Idle EXCEPT !.call = "open", !.name = n, !.flags = fl]
     IN op' = IF i # NoEntry THEN [o EXCEPT !.pc = "slot"]
              ELSE IF fl.creat /\ FreeEntry # NoEntry
              THEN Allocating([o EXCEPT !.index = FreeEntry])
              ELSE Returning(o, -1)
  /\ UNCHANGED <<disk, fd>>

\* fat32_alloc_cluster_raw, which leaves cluster_buffer alone.
AllocCluster ==
  /\ op.pc = "alloc"
  /\ WriteFatEntry(op.new, EOC,
       [op EXCEPT !.pc = IF op.call = "open" THEN "entry" ELSE "zero"])
  /\ UNCHANGED fd

CreateEntry ==
  /\ op.pc = "entry"
  /\ dir' = [dir EXCEPT ![op.index] = [name |-> op.name, first |-> op.new, size |-> 0]]
  /\ op' = [op EXCEPT !.pc = "zero"]
  /\ UNCHANGED <<fat, data, fd>>

fat32_zero_cluster ==
  /\ op.pc = "zero"
  /\ data' = [data EXCEPT ![op.new] = [b \in Offsets |-> 0]]
  /\ op' = [op EXCEPT !.pc = IF op.call = "open" THEN "slot"
                             ELSE IF fd[op.f].first = 0 THEN "first" ELSE "link"]
  /\ UNCHANGED <<fat, dir, fd>>

\* Mutant: appending starts after the last cluster.
OpenedAtCapacity(i, fl) ==
  LET cap == BYTES_PER_CLUSTER *
             (IF dir[i].first = 0 THEN 0 ELSE ChainLength(dir[i].first))
  IN [in_use |-> TRUE, first |-> dir[i].first,
      size |-> IF fl.trunc THEN 0 ELSE dir[i].size,
      position |-> IF fl.append THEN cap ELSE 0,
      capacity |-> cap, index |-> i, access |-> fl.access]

\* The descriptor that open fills in for directory entry i.
Opened(i, fl) ==
  [in_use |-> TRUE, first |-> dir[i].first,
   size |-> IF fl.trunc THEN 0 ELSE dir[i].size,
   position |-> IF fl.append /\ ~fl.trunc THEN dir[i].size ELSE 0,
   capacity |-> BYTES_PER_CLUSTER *
     (IF dir[i].first = 0 THEN 0 ELSE ChainLength(dir[i].first)),
   index |-> i, access |-> fl.access]

OpenSlot ==
  /\ op.pc = "slot"
  /\ LET i == find_entry(op.name) IN
     IF i = NoEntry \/ FreeFds = {}
     THEN op' = Returning(op, -1) /\ UNCHANGED fd
     ELSE /\ fd' = [fd EXCEPT ![FreeFd] = Opened(i, op.flags)]
          /\ op' = IF op.flags.trunc
                   THEN [op EXCEPT !.pc = "trunc", !.f = FreeFd, !.index = i]
                   ELSE Returning([op EXCEPT !.f = FreeFd], FreeFd)
  /\ UNCHANGED disk

\* fat32_update_entry_size(.., 0); open does not look at its result.
OpenTruncate ==
  /\ op.pc = "trunc"
  /\ dir' = [dir EXCEPT ![op.index].size = 0]
  /\ op' = Returning(op, op.f)
  /\ UNCHANGED <<fat, data, fd>>

-----------------------------------------------------------------------------
(* fat32_write *)

AddClusters(o, cap) ==
  (o.pos + o.count - cap + BYTES_PER_CLUSTER - 1) \div BYTES_PER_CLUSTER

\* From the cluster that holds pos, unless the chain ends before it.
Copying(o, first) ==
  LET c == After(first, o.pos \div BYTES_PER_CLUSTER)
  IN IF c = 0 THEN Returning(o, -1) ELSE [o EXCEPT !.pc = "data", !.cluster = c]

\* Lengthen the chain when pos + count lies beyond the capacity.
Extending(o, first, cap) ==
  IF o.pos + o.count <= cap THEN Copying(o, first)
  ELSE Allocating([o EXCEPT !.last = fat32_last_cluster(first),
                            !.add = AddClusters(o, cap)])

\* flags & (WRONLY | RDWR) is flags & 3.
Writable(f) == fd[f].access # 0

fat32_write(f, count, tag) ==
  /\ op.pc = "idle"
  /\ fd[f].in_use /\ Writable(f)
  /\ LET o == [Idle EXCEPT !.call = "write", !.f = f, !.count = count,
                           !.tag = tag, !.pos = fd[f].position]
     IN op' = IF fd[f].first = 0 THEN Allocating(o)
              ELSE Extending(o, fd[f].first, fd[f].capacity)
  /\ UNCHANGED <<disk, fd>>

\* fat32_update_entry_cluster, for a file that had no cluster.
FirstCluster ==
  /\ op.pc = "first"
  /\ dir' = [dir EXCEPT ![fd[op.f].index].first = op.new]
  /\ fd' = [fd EXCEPT ![op.f].first = op.new, ![op.f].capacity = BYTES_PER_CLUSTER]
  /\ op' = Extending(op, op.new, BYTES_PER_CLUSTER)
  /\ UNCHANGED <<fat, data>>

\* The new cluster joins the chain; only the last one raises the capacity.
LinkCluster ==
  /\ op.pc = "link"
  /\ WriteFatEntry(op.last, op.new,
       IF op.add > 1
       THEN Allocating([op EXCEPT !.last = op.new, !.add = @ - 1])
       ELSE [op EXCEPT !.pc = "seek", !.add = 0])
  /\ fd' = IF op.copy = NUM_FATS /\ op.add = 1
           THEN [fd EXCEPT ![op.f].capacity =
                   @ + AddClusters(op, @) * BYTES_PER_CLUSTER]
           ELSE fd

\* The walk to the cluster of pos, on the lengthened chain.
SeekCluster ==
  /\ op.pc = "seek"
  /\ op' = Copying(op, fd[op.f].first)
  /\ UNCHANGED <<disk, fd>>

\* Where byte i of a file lies in its cluster.
OffsetOf(i) == i % BYTES_PER_CLUSTER

\* Mutant: the offset in the first cluster is forgotten.
FilledFromStart(c, from, n, tag) ==
  [b \in Offsets |-> IF b < n THEN tag ELSE data[c][b]]

\* The bytes from..from+n-1 of the file, all in cluster c, become tag.
Filled(c, from, n, tag) ==
  [b \in Offsets |-> IF b \in OffsetOf(from)..(OffsetOf(from) + n - 1)
                     THEN tag ELSE data[c][b]]

\* How much of the bytes from..to-1 lies in the cluster of the first one.
Portion(from, to) ==
  LET room == BYTES_PER_CLUSTER - OffsetOf(from)
  IN IF to - from < room THEN to - from ELSE room

WriteData ==
  /\ op.pc = "data"
  /\ LET from == op.pos + op.total
         n == Portion(from, op.pos + op.count)
         total == op.total + n
         next == fat32_next_cluster(op.cluster)
         o == [op EXCEPT !.total = total, !.cluster = next]
     IN /\ data' = [data EXCEPT ![op.cluster] = Filled(op.cluster, from, n, op.tag)]
        /\ IF total < op.count /\ next # 0
           THEN op' = o /\ UNCHANGED fd
           ELSE /\ fd' = [fd EXCEPT ![op.f].position = op.pos + total]
                /\ op' = IF op.pos + total > fd[op.f].size
                         THEN [o EXCEPT !.pc = "size"] ELSE Returning(o, total)
  /\ UNCHANGED <<fat, dir>>

WriteSize ==
  /\ op.pc = "size"
  /\ dir' = [dir EXCEPT ![fd[op.f].index].size = fd[op.f].position]
  /\ fd' = [fd EXCEPT ![op.f].size = fd[op.f].position]
  /\ op' = Returning(op, op.total)
  /\ UNCHANGED <<fat, data>>

-----------------------------------------------------------------------------
(* fat32_read, fat32_close, failing writes *)

\* What a read of count bytes returns, as offsets in the file.
ReadCount(f, count) ==
  IF fd[f].position >= fd[f].size THEN 0
  ELSE IF count > fd[f].size - fd[f].position THEN fd[f].size - fd[f].position
  ELSE count

\* The chain may end before the size that the descriptor remembers.
ReadEnd(f, count) ==
  LET wanted == fd[f].position + ReadCount(f, count)
      held == IF fd[f].first = 0 THEN 0 ELSE BYTES_PER_CLUSTER * ChainLength(fd[f].first)
  IN IF wanted <= held THEN wanted ELSE held

fat32_read(f, count) ==
  /\ op.pc = "idle"
  /\ fd[f].in_use
  /\ ReadEnd(f, count) > fd[f].position
  /\ fd' = [fd EXCEPT ![f].position = ReadEnd(f, count)]
  /\ UNCHANGED <<disk, op>>

fat32_close(f) ==
  /\ op.pc = "idle"
  /\ fd[f].in_use
  /\ fd' = [fd EXCEPT ![f] = Closed]
  /\ UNCHANGED <<disk, op>>

WritePlaces == {"alloc", "entry", "zero", "trunc", "first", "link", "data", "size"}

\* What the operation returns when the write it is at fails: open ignores a
\* failing truncation, and a write reports the bytes it copied before.
FailedResult ==
  IF op.pc = "trunc" THEN op.f
  ELSE IF op.pc = "data" /\ op.total > 0 THEN op.total ELSE -1

WriteFails ==
  /\ op.pc \in WritePlaces
  /\ op' = [Returning(op, FailedResult) EXCEPT !.err = TRUE]
  /\ UNCHANGED <<disk, fd>>

\* Every step of an operation that is under way, failures apart.
Step ==
  \/ AllocCluster \/ CreateEntry \/ fat32_zero_cluster \/ OpenSlot \/ OpenTruncate
  \/ FirstCluster \/ LinkCluster \/ SeekCluster \/ WriteData \/ WriteSize

=============================================================================
