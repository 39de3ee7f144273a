------------------------------- MODULE Install -------------------------------
(***************************************************************************)
(* The installer (user/programs/install.c) on a live system: it reads      *)
(* the files of the running system into memory, then writes a partition    *)
(* table, the boot loader, an empty FAT32 volume and the files to the      *)
(* primary disk through sys_disk_write, one command after the other, while *)
(* the drive fails or stops answering and the power goes.                  *)
(*                                                                         *)
(* world is fixed for a behaviour: the medium's image, the files the live  *)
(* system was built with, what was on the disk and what the drive says of  *)
(* itself.  plan is the rest of the commands of an installation.  source   *)
(* is where the kernel's files are: the live medium's image in memory, or  *)
(* the disk itself.  fs is g_fs, the volume mounted, as a set of at most   *)
(* one.  Sizes are in bytes of SECTOR to a sector.                         *)
(***************************************************************************)
EXTENDS Ata, FatVolume

CONSTANTS
    Worlds,
    SECTOR,               \* BYTES_PER_SECTOR
    SECTORS_PER_CLUSTER,
    RESERVED_SECTORS,
    NUM_FATS,
    FAT_SIZE_SECTORS,
    FAT_ENTS,             \* FAT entries in a sector (128)
    PARTITION_START_LBA,
    FS_TOTAL_SECTORS,
    MAX_STAGE_FILES,
    FILE_POOL_BYTES,
    TRANSFER,             \* ATA_MAX_TRANSFER_SECTORS
    LIST_MAX,             \* entries of install_dir_entries (64)
    INCLUDE_MAX,          \* entries of install_include_entries (16)
    MaxRuns               \* bound: installations started

VARIABLES world, source, fs, pc, staged, plan, runs

installVars == <<world, source, fs, pc, staged, plan, runs>>
vars == <<ataVars, installVars>>

-----------------------------------------------------------------------------
(* Names and directories of the volume.                                    *)

Name(base, n, ext, m) == <<Part(base, n, "upper"), Part(ext, m, "upper")>>
DirName(t, n) == <<Part(t, n, "upper")>>

Directories == <<"include", "bin", "run", "home", "boot", "grub">>
DirectoryName ==
    [init |-> DirName("INIT", 4), include |-> DirName("INCLUDE", 7), bin |-> DirName("BIN", 3),
     run |-> DirName("RUN", 3), home |-> DirName("HOME", 4), boot |-> DirName("BOOT", 4),
     grub |-> DirName("GRUB", 4)]
DirectoryCluster ==
    [root |-> 2, init |-> 3, bin |-> 4, run |-> 5, home |-> 6, include |-> 7, boot |-> 8, grub |-> 9]
ROOT_CLUSTER == DirectoryCluster.root
FIRST_FILE_CLUSTER == 10

DirectoryPath(dir) ==
    Path(TRUE, IF dir = "grub" THEN <<DirectoryName.boot, DirectoryName.grub>>
               ELSE <<DirectoryName[dir]>>)

\* append_path
FilePath(dir, name) == [DirectoryPath(dir) EXCEPT !.comps = Append(@, name)]

ShellElf == Name("SHELL", 5, "ELF", 3)
GrubBoot == Name("GRUBBOOT", 8, "BIN", 3)
GrubCore == Name("GRUBCORE", 8, "BIN", 3)
SyscallsH == Name("SYSCALLS", 8, "H", 1)
BootCfg == Name("BOOT", 4, "CFG", 3)
StatusCfg == Name("STATUS", 6, "CFG", 3)
GrubEnv == DirName("GRUBENV", 7)
GrubCfg == Name("GRUB", 4, "CFG", 3)

Needed ==
    {<<"bin", ShellElf>>, <<"run", GrubBoot>>, <<"run", GrubCore>>, <<"boot", BootCfg>>,
     <<"boot", StatusCfg>>, <<"grub", GrubEnv>>, <<"grub", GrubCfg>>}

-----------------------------------------------------------------------------
(* The disk layout.                                                        *)

BYTES_PER_CLUSTER == SECTOR * SECTORS_PER_CLUSTER
DATA_START_SECTOR == RESERVED_SECTORS + NUM_FATS * FAT_SIZE_SECTORS
TOTAL_CLUSTERS == (FS_TOTAL_SECTORS - DATA_START_SECTOR) \div SECTORS_PER_CLUSTER

Up(n, m) == (n + m - 1) \div m
clusters_for(size) == Up(size, BYTES_PER_CLUSTER)
sectors_for_bytes(size) == Up(size, SECTOR)

ClusterLba(c) == PARTITION_START_LBA + DATA_START_SECTOR + (c - 2) * SECTORS_PER_CLUSTER

Zeros(n) == [i \in 1..(IF n > 0 THEN n ELSE 0) |-> Zero]
Padding(s, n) == s \o Zeros(n - Len(s))

\* The commands that write s from lba on, at most max sectors each.
Chunks(lba, s, max) ==
    [i \in 1..Up(Len(s), max) |->
        [lba |-> lba + (i - 1) * max,
         data |-> SubSeq(s, (i - 1) * max + 1, IF i * max < Len(s) THEN i * max ELSE Len(s))]]

\* assign_clusters, over the files of all directories in their order.
NextCluster(files) == FIRST_FILE_CLUSTER + FoldLeft(LAMBDA n, f : n + clusters_for(f.size), 0, files)
ClusterOf(files, i) ==
    IF clusters_for(files[i].size) = 0 THEN 0 ELSE NextCluster(SubSeq(files, 1, i - 1))

build_fat(files) ==
    LET last == {DirectoryCluster[d] : d \in DOMAIN DirectoryCluster} \cup {0, 1}
                  \cup {ClusterOf(files, i) + clusters_for(files[i].size) - 1 :
                          i \in {j \in DOMAIN files : files[j].size > 0}}
    IN  [c \in 0..(FAT_SIZE_SECTORS * FAT_ENTS - 1) |->
           IF c \in last THEN EOC ELSE IF c < NextCluster(files) THEN c + 1 ELSE FREE]

FatSectors(fat) ==
    [i \in 1..FAT_SIZE_SECTORS |->
        [k |-> "fat", next |-> Restrict(fat, ((i - 1) * FAT_ENTS)..(i * FAT_ENTS - 1))]]

create_directory_entry(short, attr, cluster, size) ==
    [short |-> short, attr |-> attr, lower |-> NoFlags, cluster |-> cluster, size |-> size]

DirSectors(ents) ==
    [i \in 1..SECTORS_PER_CLUSTER |->
        [k |-> "dir", ents |-> SubSeq(ents, (i - 1) * ENTS + 1,
                                      IF i * ENTS < Len(ents) THEN i * ENTS ELSE Len(ents))]]

Short(name) == CHOOSE s \in fat_format_name(name) : TRUE
DirEntry(short, c) == create_directory_entry(short, "dir", c, 0)

build_root_directory ==
    LET dirs == <<"init", "bin", "run", "home", "include", "boot">>
    IN  [i \in DOMAIN dirs |-> DirEntry(Short(DirectoryName[dirs[i]]), DirectoryCluster[dirs[i]])]

\* The files of one directory, as entries.
FileEntries(files, dir) ==
    LET own == SelectSeq([i \in DOMAIN files |-> i], LAMBDA i : files[i].dir = dir)
    IN  [j \in DOMAIN own |->
           create_directory_entry(files[own[j]].short, "file", ClusterOf(files, own[j]), files[own[j]].size)]

build_child_directory(files, dir, parent) ==
    <<DirEntry(Dot, DirectoryCluster[dir]), DirEntry(DotDot, parent)>> \o FileEntries(files, dir)

build_boot_directory(files) ==
    <<DirEntry(Dot, DirectoryCluster.boot), DirEntry(DotDot, ROOT_CLUSTER),
      DirEntry(Short(DirectoryName.grub), DirectoryCluster.grub)>> \o FileEntries(files, "boot")

create_boot_sector ==
    [k |-> "boot", spc |-> SECTORS_PER_CLUSTER, reserved |-> RESERVED_SECTORS, fats |-> NUM_FATS,
     fatsz |-> FAT_SIZE_SECTORS, total |-> FS_TOTAL_SECTORS, root |-> ROOT_CLUSTER, fsinfo |-> 1]

create_fsinfo(files) ==
    [k |-> "fsinfo", free |-> TOTAL_CLUSTERS - (NextCluster(files) - ROOT_CLUSTER),
     next |-> NextCluster(files)]

\* A boot image shorter than a sector is left out.
create_mbr(boot) ==
    [k |-> "mbr", code |-> IF boot.size >= SECTOR THEN boot.data[1] ELSE Zero,
     parts |-> <<[type |-> 12, lba |-> PARTITION_START_LBA, sectors |-> FS_TOTAL_SECTORS]>>]

-----------------------------------------------------------------------------
(* The commands of install_to_primary_disk, in their order.  A directory   *)
(* with too many files ends them early.                                    *)

Staged(files, dir, name) ==
    FirstOf(files, LAMBDA f : f.dir = dir /\ ascii_casecmp(f.name, name))
TheFile(files, dir, name) == CHOOSE f \in Staged(files, dir, name) : TRUE

At(lba, content) == <<[lba |-> lba, data |-> <<content>>]>>

\* Mutant: leaves the gap behind the boot loader as it was.
NoGap(lba, n) == <<>>

disk_write_repeat(lba, n) == Chunks(lba, Zeros(n), TRANSFER)

write_file_sectors(lba, f) == Chunks(lba, f.data, SECTORS_PER_CLUSTER)

LoaderWrites(files) ==
    LET core == TheFile(files, "run", GrubCore)
        n == sectors_for_bytes(core.size)
    IN  At(0, create_mbr(TheFile(files, "run", GrubBoot)))
          \o write_file_sectors(1, core)
          \o disk_write_repeat(1 + n, PARTITION_START_LBA - 1 - n)

ReservedWrites ==
    [j \in 1..(RESERVED_SECTORS - 2) |->
        [lba |-> PARTITION_START_LBA + j + 1,
         data |-> <<IF j + 1 = BACKUP THEN create_boot_sector ELSE Zero>>]]

MetadataWrites(files) ==
    LET fat == FatSectors(build_fat(files))
    IN  At(PARTITION_START_LBA, create_boot_sector)
          \o At(PARTITION_START_LBA + 1, create_fsinfo(files))
          \o ReservedWrites
          \o <<[lba |-> PARTITION_START_LBA + RESERVED_SECTORS, data |-> fat],
               [lba |-> PARTITION_START_LBA + RESERVED_SECTORS + FAT_SIZE_SECTORS, data |-> fat]>>

write_cluster(c, sectors) == [lba |-> ClusterLba(c), data |-> sectors]

\* How many files a directory's cluster holds.
Room(dir) == SECTORS_PER_CLUSTER * ENTS - IF dir = "boot" THEN 3 ELSE 2
DirectoryFits(files, dir) ==
    dir \in {"root", "init"} \/ Len(SelectSeq(files, LAMBDA f : f.dir = dir)) <= Room(dir)

DirectoryWrite(files, dir) ==
    write_cluster(DirectoryCluster[dir],
        CASE dir = "root" -> DirSectors(build_root_directory)
          [] dir = "init" -> Zeros(SECTORS_PER_CLUSTER)
          [] dir = "boot" -> DirSectors(build_boot_directory(files))
          [] dir = "grub" -> DirSectors(build_child_directory(files, dir, DirectoryCluster.boot))
          [] OTHER -> DirSectors(build_child_directory(files, dir, ROOT_CLUSTER)))

DirectoryOrder == <<"root", "init", "bin", "run", "home", "include", "boot", "grub">>

write_padded_payload(f, cluster) ==
    Chunks(ClusterLba(cluster), Padding(f.data, clusters_for(f.size) * SECTORS_PER_CLUSTER), TRANSFER)

\* write_all_files, directory by directory.
FileWrites(files) ==
    FlattenSeq([i \in DOMAIN files |->
        IF clusters_for(files[i].size) = 0 THEN <<>>
        ELSE write_padded_payload(files[i], ClusterOf(files, i))])

Writes(files) ==
    LET over == {i \in DOMAIN DirectoryOrder : ~DirectoryFits(files, DirectoryOrder[i])}
        n == IF over = {} THEN Len(DirectoryOrder) ELSE MinOf(over) - 1
    IN  LoaderWrites(files) \o MetadataWrites(files)
          \o [i \in 1..n |-> DirectoryWrite(files, DirectoryOrder[i])]
          \o IF over = {} THEN FileWrites(files) ELSE <<>>

\* What is known once all commands are through.
AllWritten(files) ==
    /\ \A i \in DOMAIN DirectoryOrder : DirectoryFits(files, DirectoryOrder[i])
    /\ NextCluster(files) <= ROOT_CLUSTER + TOTAL_CLUSTERS

-----------------------------------------------------------------------------
(* Staging.                                                                *)

\* What the kernel reads files from.
View == IF source = "live" THEN world.image ELSE IF dev.st = "dead" THEN <<>> ELSE Current

\* The sectors of a file of that size whose chain starts at c.
Contents(d, g, c, size) ==
    LET chain == Chain(d, g, c, Up(size, SECTOR * g.boot.spc))
        n == sectors_for_bytes(size)
    IN  IF Len(chain) * g.boot.spc < n \/ \E i \in DOMAIN chain : fat32_read_cluster(d, g, chain[i]) = {}
        THEN {}
        ELSE {[i \in 1..n |->
                 (CHOOSE cl \in fat32_read_cluster(d, g, chain[(i - 1) \div g.boot.spc + 1]) : TRUE)
                    [((i - 1) % g.boot.spc) + 1]]}

Pool(files) == FoldLeft(LAMBDA n, f : n + f.size, 0, files)

\* Mutant: does not look at how full the pool is.
LoadUnbounded(d, g, files, path, size) ==
    UNION {Contents(d, g, e.cluster, size) : e \in {f \in find_entry(d, g, path) : f.attr # "dir"}}

load_file_data(d, g, files, path, size) ==
    IF Pool(files) + size > FILE_POOL_BYTES
    THEN {}
    ELSE UNION {Contents(d, g, e.cluster, size) : e \in {f \in find_entry(d, g, path) : f.attr # "dir"}}

\* The files with one more, the same files if the name has no 8.3 form, or
\* nothing.
stage_named_file(d, g, dir, e, files) ==
    IF Len(SelectSeq(files, LAMBDA f : f.dir = dir)) >= MAX_STAGE_FILES
    THEN {}
    ELSE IF fat_format_name(e.name) = {}
    THEN {files}
    ELSE {Append(files, [dir |-> dir, name |-> e.name, short |-> Short(e.name),
                         size |-> e.size, data |-> data]) :
            data \in load_file_data(d, g, files, FilePath(dir, e.name), e.size)}

stage_directory(d, g, dir, list, files) ==
    FoldLeft(LAMBDA fss, e :
                IF e.attr = "dir" THEN fss
                ELSE UNION {stage_named_file(d, g, dir, e, fs0) : fs0 \in fss},
             {files}, list)

\* Of /include only the first SYSCALLS.H is taken, and it must be there.
stage_include(d, g, list, files) ==
    LET hit == FirstOf(list, LAMBDA e : ascii_casecmp(e.name, SyscallsH))
    IN  {fs1 \in UNION {stage_named_file(d, g, "include", e, files) : e \in hit} : fs1 # <<>>}

-----------------------------------------------------------------------------
(* Actions.                                                                *)

Resting == {"idle", "done", "refused", "failed"}

Return(r) == pc' = r
Idle == UNCHANGED ataVars
Closed == io' = NoIo /\ UNCHANGED <<disk, cache, dev, waited, trouble, acked, unread>>

\* "install ata"
install_to_primary_disk ==
    /\ pc \in Resting /\ fs # {} /\ runs < MaxRuns
    /\ runs' = runs + 1
    /\ staged' = <<>> /\ plan' = <<>>
    /\ LET ata == ata_identify(world.ident)
       IN  IF ~ata.exists \/ ata.sectors < PARTITION_START_LBA + FS_TOTAL_SECTORS
           THEN Return("refused")
           ELSE pc' = "include"
    /\ Idle /\ UNCHANGED <<world, source, fs>>

Stage(i) ==
    LET dir == Directories[i]
    IN  /\ pc = dir
        /\ \E d \in {View} : \E g \in fs :
             \E r \in {vfs_listdir(d, g, DirectoryPath(dir), IF dir = "include" THEN INCLUDE_MAX ELSE LIST_MAX)} :
               /\ fs' = {r.g}
               /\ \E now \in {UNION {IF dir = "include" THEN stage_include(d, g, l, staged)
                                      ELSE stage_directory(d, g, dir, l, staged) : l \in r.list}} :
                    IF now = {}
                    THEN Return("refused") /\ UNCHANGED staged
                    ELSE /\ staged' \in now
                         /\ pc' = IF i = Len(Directories) THEN "needed" ELSE Directories[i + 1]
        /\ Idle /\ UNCHANGED <<world, source, plan, runs>>

\* The kernel is out of memory, or cannot read the file.
StageFails ==
    /\ pc \in ToSet(Directories) /\ trouble < MaxTrouble
    /\ trouble' = trouble + 1
    /\ Return("refused")
    /\ UNCHANGED <<disk, cache, dev, io, waited, acked, unread, world, source, fs, staged, plan, runs>>

CheckNeeded ==
    /\ pc = "needed"
    /\ IF /\ \A n \in Needed : Staged(staged, n[1], n[2]) # {}
          /\ sectors_for_bytes(TheFile(staged, "run", GrubCore).size) < PARTITION_START_LBA
       THEN pc' = "write" /\ plan' = Writes(staged)
       ELSE Return("refused") /\ UNCHANGED plan
    /\ Idle /\ UNCHANGED <<world, source, fs, staged, runs>>

\* One command has returned, or none was issued yet: the next, or the end.
WriteNext ==
    /\ pc = "write" /\ io.pc \in {"idle", "done"}
    /\ IF io.rc < 0
       THEN Return("failed") /\ plan' = <<>> /\ Closed
       ELSE IF plan = <<>>
       THEN Return(IF AllWritten(staged) THEN "done" ELSE "failed") /\ Closed /\ UNCHANGED plan
       ELSE /\ ata_write_sectors(ata_identify(world.ident), plan[1].lba, plan[1].data)
            /\ plan' = Tail(plan)
            /\ UNCHANGED pc
    /\ UNCHANGED <<world, source, fs, staged, runs>>

Driver ==
    /\ SelectAndCommand \/ SendSector \/ DrqExpires \/ FlushCommand \/ WriteReturns
    /\ UNCHANGED installVars

Clock == Tick /\ UNCHANGED installVars
Drive == DriveWorks /\ UNCHANGED installVars
DriveFails == (DriveFaults \/ DriveDies) /\ UNCHANGED installVars

Home == DirectoryPath("home")

\* The machine is started again with the live medium.
PowerFails ==
    /\ PowerCut
    /\ pc' = "idle" /\ source' = "live" /\ staged' = <<>> /\ plan' = <<>>
    /\ fs' = fat32_mount(world.image, Home)
    /\ UNCHANGED <<world, runs>>

\* "reboot from the hard disk".  The boot rewrites /boot/status.cfg with
\* what the live system's boot wrote there already.
RebootFromDisk ==
    /\ pc = "done" /\ unread = {} /\ dev.st # "dead"
    /\ source' = "disk" /\ pc' = "idle" /\ staged' = <<>> /\ plan' = <<>>
    /\ fs' = fat32_mount(Current, Home)
    /\ Idle /\ UNCHANGED <<world, runs>>

Init ==
    /\ world \in Worlds
    /\ disk = world.disk /\ cache = <<>> /\ dev = ReadyDrive /\ io = NoIo
    /\ waited = FALSE /\ trouble = world.trouble /\ acked = <<>> /\ unread = {}
    /\ source = "live" /\ fs = fat32_mount(world.image, Home)
    /\ pc = "idle" /\ staged = <<>> /\ plan = <<>> /\ runs = 0

Next ==
    \/ install_to_primary_disk \/ StageFails \/ CheckNeeded \/ WriteNext
    \/ \E i \in DOMAIN Directories : Stage(i)
    \/ Driver \/ Clock \/ Drive \/ DriveFails \/ PowerFails \/ RebootFromDisk

Spec == Init /\ [][Next]_vars

\* The staging program is somewhere else than it was.
Moves == pc \in ToSet(Directories) \cup {"needed"} /\ pc' \in ToSet(Directories) \cup Resting \cup {"needed", "write"}

\* The processor runs the program and the driver, the timer interrupts,
\* and a drive that has not died works.
FairSpec ==
    /\ Spec
    /\ WF_pc(Moves) /\ WF_vars(WriteNext \/ Driver)
    /\ WF_vars(Clock) /\ WF_vars(Drive)

-----------------------------------------------------------------------------
(* Properties.                                                             *)

\* A name that both splits agree on.
OneDot(name) == Len(name) <= 2

\* The files an installation is to copy: the ones whose names have an 8.3
\* form on which both splits agree, and of /include only SYSCALLS.H.
ToInstall ==
    {f \in ToSet(world.files) :
        /\ fat_format_name(f.name) # {} /\ OneDot(f.name)
        /\ f.dir = "include" => ascii_casecmp(f.name, SyscallsH)}

\* When the installer returns 0, and no sector's failure went unread, the
\* kernel mounts the partition the installer made, whatever the disk held
\* before and however often an installation was cut off: it finds every
\* file of the live system under its path, with its size and contents, the
\* boot loader is where the BIOS reads it, the two FATs agree, the free
\* count of the FSInfo sector is the one the FAT gives, and without its
\* first boot sector the volume is found by the second.
InstalledReadsBack ==
    pc = "done" /\ unread = {} =>
        \E d \in {Current} : \E g \in fat32_mount(d, Home) :
            /\ g.part = PARTITION_START_LBA
            /\ g.cwd = DirectoryCluster.home
            /\ d[0].code = TheFile(staged, "run", GrubBoot).data[1]
            /\ \E core \in Staged(staged, "run", GrubCore) :
                 \A i \in DOMAIN core.data : d[i] = core.data[i]
            /\ \A f \in ToInstall :
                 \E s \in find_entry(d, g, FilePath(f.dir, f.name)) :
                    /\ s.attr = "file" /\ s.size = f.size
                    /\ \E c \in Contents(d, g, s.cluster, s.size) :
                         \A i \in DOMAIN c : c[i] = Data(f.id, i)
            /\ \A i \in 0..(FAT_SIZE_SECTORS - 1) :
                 LET lba == PARTITION_START_LBA + RESERVED_SECTORS + i
                 IN  d[lba] = d[lba + FAT_SIZE_SECTORS]
            /\ fat32_get_free_clusters(d, g) = fat32_count_free_clusters(d, g)
            /\ fat32_try_mount_at_lba(Restrict(d, DOMAIN d \ {g.part}), g.part) = {g.boot}

\* Everything a mounted volume that can be read lists is found again by
\* the name it is listed with, by an absolute path and from the current
\* directory, the two walks of a path agree, and the recursive listing of
\* the console is the listings of all directories: on the live medium and,
\* for names with one dot, on the installed disk.
ListedIsFound ==
    pc = "idle" /\ (source = "live" \/ dev.st # "dead") =>
        \A g \in fs : \E d \in {View} :
            \E all \in {fat32_list_directory_recursive(d, g, Root)} :
                /\ fat32_chdir(d, g, Home) = {g.cwd}
                /\ \A e \in all :
                     LET name == Last(e.path)
                         dir == Path(TRUE, Front(e.path))
                         whole == Path(TRUE, e.path)
                     IN  /\ \E l \in vfs_listdir(d, g, dir, Cardinality(all)).list :
                              e.stat \in ToSet(l)
                         /\ (source = "live" \/ OneDot(name)) =>
                              /\ vfs_stat(d, g, whole) = {e.stat}
                              /\ fat32_split_path(d, g, whole)
                                   = {<<c, name>> : c \in fat32_chdir(d, g, dir)}
                              /\ dir = Home => vfs_stat(d, g, Path(FALSE, <<name>>)) = {e.stat}

\* The installer touches no sector outside the volume it makes, and none
\* at all before it has found everything it needs: a refused installation
\* leaves the disk as it was.
OnlyItsSectors ==
    \E d \in {Current} :
        /\ \A s \in DOMAIN d : s >= PARTITION_START_LBA + FS_TOTAL_SECTORS => d[s] = world.disk[s]
        /\ runs = 1 /\ trouble = world.trouble /\ pc \notin {"write", "done", "failed"} /\ source = "live" =>
             d = world.disk

\* An installation that was started ends, also when the drive fails or
\* stops answering.
InstallEnds == (pc \notin Resting) ~> (pc \in Resting)

=============================================================================
