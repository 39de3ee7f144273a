------------------------------- MODULE MCVfs -------------------------------
EXTENDS Vfs

\* The flag words of the programs: WRONLY|CREAT|TRUNC and WRONLY|CREAT|APPEND
\* (the C library port), RDWR.  RDONLY behaves as RDWR in this driver.
WriteFlags ==
  {[access |-> 2, creat |-> TRUE, trunc |-> TRUE, append |-> FALSE],
   [access |-> 2, creat |-> TRUE, trunc |-> FALSE, append |-> TRUE],
   [access |-> 3, creat |-> FALSE, trunc |-> FALSE, append |-> FALSE]}

Entry(n, c, s) == [name |-> n, first |-> c, size |-> s]
Table(t) == [k \in 1..NUM_FATS |-> [c \in Clusters |-> t[c]]]
Zeros == [c \in Clusters |-> [b \in Offsets |-> 0]]

\* Nothing but an end marker.
EmptyDisk ==
  [fat |-> Table([c \in Clusters |-> FREE]),
   dir |-> [i \in Indices |-> NoFile], data |-> Zeros]

\* A deleted entry, then a file that ends inside its second cluster, at the
\* end of the disk.
UsedDisk ==
  LET n == TOTAL_CLUSTERS IN
  [fat |-> Table([c \in Clusters |-> IF c = n + 1 THEN n ELSE IF c = n THEN EOC ELSE FREE]),
   dir |-> [i \in Indices |-> IF i = 0 THEN Entry("gone", 0, 0)
                              ELSE IF i = 1 THEN Entry("a", n + 1, BYTES_PER_CLUSTER + 1)
                              ELSE NoFile],
   data |-> [c \in Clusters |-> [b \in Offsets |->
               IF c = n + 1 \/ (c = n /\ b = 0) THEN 1 ELSE 0]]]

\* An empty file as other FAT implementations leave it: without a cluster.
HostDisk ==
  [fat |-> Table([c \in Clusters |-> FREE]),
   dir |-> [i \in Indices |-> IF i = 0 THEN Entry("a", 0, 0) ELSE NoFile],
   data |-> Zeros]

OwnDisks == {EmptyDisk, UsedDisk}

\* Programs that keep to themselves, on any disk.
Apart == [exclusive |-> TRUE, flags |-> WriteFlags, tags |-> {1, 2}, counts |-> {3},
          disks |-> OwnDisks \cup {HostDisk}, faults |-> FALSE]

\* Programs that open the same files: short writes, and writes of the whole
\* disk's length on a disk whose writes may fail.
Sharing == [exclusive |-> FALSE, flags |-> WriteFlags, tags |-> {1}, counts |-> {3},
            disks |-> OwnDisks, faults |-> FALSE]
Failing == [Sharing EXCEPT !.counts = {5}, !.faults = TRUE]

AllUses == {Apart, Sharing, Failing}
=============================================================================
