----------------------------- MODULE FatVolume ------------------------------
(***************************************************************************)
(* How the kernel finds a FAT32 volume on a disk and a file on the volume: *)
(* mounting, paths, directory listings and the reading of a chain          *)
(* (src/fs/fat32.c and src/fs/vfs.c).                                      *)
(*                                                                         *)
(* A disk is a function from sector numbers to contents; a sector that is  *)
(* not in its domain cannot be read.  A content is a record with a kind k: *)
(* "zero", "boot" (a boot sector), "mbr", "gpt" (a GPT header), "gptents"  *)
(* (its first sector of entries), "fsinfo", "fat", "dir" or "data".  An    *)
(* operation that fails returns the empty set, one that succeeds the set   *)
(* of its one result.  Nothing else writes the disk during a call, so a    *)
(* call is one step.                                                       *)
(***************************************************************************)
EXTENDS Integers, FiniteSets, Sequences, SequencesExt

CONSTANTS
    BACKUP,        \* sectors from a boot sector to its copy (6)
    ENTS,          \* directory entries in a sector (16)
    BUFFER,        \* sectors the kernel's cluster buffer holds (8)
    LIST_DEPTH     \* FAT32_LIST_MAX_DEPTH

EOC == -1      \* also an unknown count of free clusters
BAD == -2
FREE == 0

Zero == [k |-> "zero"]
Data(file, i) == [k |-> "data", file |-> file, part |-> i]

MinOf(S) == CHOOSE x \in S : \A y \in S : x <= y
\* The first element of s that passes Test, if any.
FirstOf(s, Test(_)) ==
    LET I == {i \in DOMAIN s : Test(s[i])}
    IN  IF I = {} THEN {} ELSE {s[MinOf(I)]}

-----------------------------------------------------------------------------
(* File names and their 8.3 form: the conversions of fat32.c and the one   *)
(* the installer has of its own.                                           *)
(*                                                                         *)
(* A name is the sequence of its parts between dots, so "grub.cfg" has two *)
(* and ".." three empty ones.  A part is its letters without case, how     *)
(* many they are, and their case.  The 8.3 form is a pair of such          *)
(* sequences, the eight bytes before the extension and the three of it;    *)
(* trailing spaces are no part of it.  No name has a space in it.          *)

Part(t, n, c) == [text |-> t, len |-> n, case |-> c]
NoPart == Part("", 0, "none")

\* strlen of parts joined by dots.
Length(parts) ==
    FoldLeft(LAMBDA n, p : n + p.len, 0, parts)
      + IF parts = <<>> THEN 0 ELSE Len(parts) - 1

InCase(parts, c) ==
    [i \in DOMAIN parts |->
        [parts[i] EXCEPT !.case = IF @ = "none" THEN @ ELSE c]]

Upper(parts) == InCase(parts, "upper")

Dot == [base |-> <<NoPart, NoPart>>, ext |-> <<>>]
DotDot == [base |-> <<NoPart, NoPart, NoPart>>, ext |-> <<>>]

\* Bytes that are all spaces, whether a dot was written before them or not.
Padded(parts) == IF parts = <<NoPart>> THEN <<>> ELSE parts

\* strstr finds the first dot: everything behind it is the extension.
BeforeDot(name) == <<Head(name)>>
BehindDot(name) == Tail(name)

-----------------------------------------------------------------------------
(* The kernel.  A conversion that fails is the empty set.                  *)

\* Mutant: leaves the extension in the case it came in.
FormatBaseOnly(name) ==
    IF Length(BeforeDot(name)) > 8 \/ Length(BehindDot(name)) > 3
    THEN {}
    ELSE {[base |-> Upper(BeforeDot(name)), ext |-> Padded(BehindDot(name))]}

fat32_format_name(name) ==
    IF Length(BeforeDot(name)) > 8 \/ Length(BehindDot(name)) > 3
    THEN {}
    ELSE {[base |-> Upper(BeforeDot(name)),
           ext |-> Padded(Upper(BehindDot(name)))]}

fat32_component_has_lowercase(parts) ==
    \E i \in DOMAIN parts : parts[i].case \in {"lower", "mixed"}

fat32_component_has_uppercase(parts) ==
    \E i \in DOMAIN parts : parts[i].case \in {"upper", "mixed"}

fat32_short_name_case_flags(name) ==
    LET AllLower(parts) == /\ fat32_component_has_lowercase(parts)
                           /\ ~fat32_component_has_uppercase(parts)
    IN  [base |-> AllLower(BeforeDot(name)), ext |-> AllLower(BehindDot(name))]

NoFlags == [base |-> FALSE, ext |-> FALSE]

fat32_parse_short_name(short, flags) ==
    LET Shown(parts, low) == IF low THEN InCase(parts, "lower") ELSE parts
    IN  Shown(short.base, flags.base) \o Shown(short.ext, flags.ext)

-----------------------------------------------------------------------------
(* The installer, which splits a name at its last dot.                     *)

fat_format_name(name) ==
    LET base == IF Len(name) = 1 THEN name ELSE Front(name)
        ext == IF Len(name) = 1 THEN <<>> ELSE <<Last(name)>>
    IN  IF Length(base) = 0 \/ Length(base) > 8 \/ Length(ext) > 3
        THEN {}
        ELSE {[base |-> Upper(base), ext |-> Padded(Upper(ext))]}

ascii_casecmp(a, b) == Upper(a) = Upper(b)

-----------------------------------------------------------------------------
(* Finding the volume.                                                     *)

fat32_is_power_of_two(n) == \E i \in 0..7 : n = 2^i

fat32_boot_sector_looks_valid(c) ==
    /\ c.k = "boot"
    /\ fat32_is_power_of_two(c.spc)
    /\ c.reserved # 0
    /\ c.fats # 0
    /\ c.total # 0
    /\ c.fatsz # 0
    /\ c.root >= 2

fat32_try_load_boot_sector(d, lba) ==
    {d[s] : s \in {t \in {lba} \cap DOMAIN d : fat32_boot_sector_looks_valid(d[t])}}

fat32_try_mount_at_lba(d, lba) ==
    LET main == fat32_try_load_boot_sector(d, lba)
    IN  IF main # {} THEN main ELSE fat32_try_load_boot_sector(d, lba + BACKUP)

\* A boot sector carries the signature too, and no partitions.
fat32_probe_mbr_partition_start(d) ==
    IF 0 \notin DOMAIN d \/ d[0].k # "mbr"
    THEN {}
    ELSE {p.lba : p \in FirstOf(d[0].parts, LAMBDA p : p.type # 0 /\ p.lba # 0 /\ p.sectors # 0)}

fat32_probe_gpt_partition_start(d) ==
    IF 1 \notin DOMAIN d \/ d[1].k # "gpt"
    THEN {}
    ELSE LET e == d[1].entries
         IN  IF e = 0 \/ e \notin DOMAIN d \/ d[e].k # "gptents"
             THEN {}
             ELSE {p.lba : p \in FirstOf(d[e].parts, LAMBDA p : p.type # 0 /\ p.lba # 0)}

\* The places fat32_mount tries, in order, with what it finds there.
Volume(d) ==
    LET At(lbas) == {[lba |-> l, boot |-> b] : l \in lbas,
                      b \in UNION {fat32_try_mount_at_lba(d, m) : m \in lbas}}
        whole == At({0})
        mbr == At(fat32_probe_mbr_partition_start(d))
    IN  IF whole # {} THEN whole
        ELSE IF mbr # {} THEN mbr
        ELSE At(fat32_probe_gpt_partition_start(d))

-----------------------------------------------------------------------------
(* Clusters, the FAT and directories of a mounted volume g.                *)

fat32_read_cluster(d, g, c) ==
    LET first == g.part + g.data + (c - 2) * g.boot.spc
    IN  IF c < 2 \/ c >= g.clusters + 2
           \/ \E i \in 0..(g.boot.spc - 1) : first + i \notin DOMAIN d
        THEN {}
        ELSE {[i \in 1..g.boot.spc |-> d[first + i - 1]]}

\* fat32_read_fat_entry, from the first copy.
FatEntry(d, g, c) ==
    LET here == {s \in (g.part + g.boot.reserved)..(g.part + g.boot.reserved + g.boot.fatsz - 1)
                       \cap DOMAIN d :
                    d[s].k = "fat" /\ c \in DOMAIN d[s].next}
    IN  IF c < 2 \/ c >= g.clusters + 2 \/ here = {} THEN BAD
        ELSE d[CHOOSE s \in here : TRUE].next[c]

fat32_count_free_clusters(d, g) ==
    LET all == 2..(g.clusters + 1)
    IN  IF \E c \in all : FatEntry(d, g, c) = BAD THEN EOC
        ELSE Cardinality({c \in all : FatEntry(d, g, c) = FREE})

\* The first n clusters of the chain from c, fewer if it ends before.
Chain(d, g, c, n) ==
    IF n = 0 \/ c < 2
    THEN <<>>
    ELSE FoldLeft(LAMBDA s, i : LET next == FatEntry(d, g, Last(s))
                                IN  IF next >= 2 THEN Append(s, next) ELSE s,
                  <<c>>, [i \in 1..(n - 1) |-> i])

\* A sector of entries that is not full ends the directory.
SectorEntries(s) == IF s.k = "dir" THEN s.ents ELSE <<>>
DirEntries(cluster) ==
    FoldLeft(LAMBDA r, s : IF r.over THEN r
                           ELSE [ents |-> r.ents \o SectorEntries(s),
                                 over |-> Len(SectorEntries(s)) < ENTS],
             [ents |-> <<>>, over |-> FALSE], cluster).ents

Used(e) == e.attr \notin {"deleted", "lfn"}

find_entry_in_cluster(d, g, c, short) ==
    UNION {FirstOf(DirEntries(cl), LAMBDA e : Used(e) /\ e.short = short) :
             cl \in fat32_read_cluster(d, g, c)}

-----------------------------------------------------------------------------
(* Paths.  A path has components, may start at the root and may end with   *)
(* a slash.                                                                *)

Path(abs, comps) == [abs |-> abs, comps |-> comps, slash |-> FALSE]
Root == Path(TRUE, <<>>)

Lookup(d, g, c, name) ==
    UNION {find_entry_in_cluster(d, g, c, s) : s \in fat32_format_name(name)}

Start(g, path) == IF path.abs THEN g.boot.root ELSE g.cwd

\* The directory the components lead to.
Walk(d, g, start, comps) ==
    FoldLeft(LAMBDA cs, name :
                {e.cluster : e \in {f \in UNION {Lookup(d, g, c, name) : c \in cs} :
                                       f.attr = "dir"}},
             {start}, comps)

find_entry(d, g, path) ==
    IF path.comps = <<>> \/ path.slash
    THEN {}
    ELSE UNION {Lookup(d, g, c, Last(path.comps)) :
                  c \in Walk(d, g, Start(g, path), Front(path.comps))}

\* Where fat32_create_file would put the path, and under which name.
fat32_split_path(d, g, path) ==
    IF path.comps = <<>> \/ path.slash
    THEN {}
    ELSE {<<c, Last(path.comps)>> :
            c \in Walk(d, g, Start(g, path), Front(path.comps))}

Stat(e) ==
    [name |-> fat32_parse_short_name(e.short, e.lower),
     size |-> e.size, attr |-> e.attr, cluster |-> e.cluster]

fat32_stat(d, g, path) == {Stat(e) : e \in find_entry(d, g, path)}

fat32_chdir(d, g, path) ==
    IF path = Root
    THEN {g.boot.root}
    ELSE {e.cluster : e \in {f \in find_entry(d, g, path) : f.attr = "dir"}}

\* The entries . and .. are the only ones whose name starts with a dot.
Listed(e) == Used(e) /\ ~(Len(e.short.base) > 1 /\ Head(e.short.base) = NoPart)

fat32_readdir(d, g, max) ==
    {LET all == SelectSeq(DirEntries(cl), Listed)
     IN  [i \in 1..(IF Len(all) < max THEN Len(all) ELSE max) |-> Stat(all[i])] :
       cl \in fat32_read_cluster(d, g, g.cwd)}

-----------------------------------------------------------------------------
(* Mounting.                                                               *)

\* g_fs of a volume that was found.
Layout(v) ==
    LET data == v.boot.reserved + v.boot.fats * v.boot.fatsz
    IN  [part |-> v.lba, boot |-> v.boot, data |-> data,
         clusters |-> (v.boot.total - data) \div v.boot.spc,
         cwd |-> v.boot.root]

\* Every program starts in /home, if there is one.
fat32_mount(d, home) ==
    {LET g == Layout(v)
         dirs == fat32_chdir(d, g, home)
     IN  IF dirs = {} THEN g ELSE [g EXCEPT !.cwd = CHOOSE c \in dirs : TRUE] :
       v \in {w \in Volume(d) : w.boot.spc <= BUFFER}}

\* free_clusters of g_fs, which stays 0 when there is no sector to read.
FreeInFsinfo(d, g) ==
    LET s == g.part + g.boot.fsinfo
    IN  IF g.boot.fsinfo # 0 /\ s \in DOMAIN d /\ d[s].k = "fsinfo" THEN d[s].free ELSE 0

\* The count is recomputed when it is unknown or cannot be right.
fat32_get_free_clusters(d, g) ==
    LET free == FreeInFsinfo(d, g)
    IN  IF free = EOC \/ free > g.clusters THEN fat32_count_free_clusters(d, g) ELSE free

-----------------------------------------------------------------------------
(* The mount table.  A mount point is its components.                      *)

path_prefix_match(point, path) ==
    point = <<>> \/ (path.abs /\ IsPrefix(point, path.comps))

translate_path(point, path) ==
    IF ~path.abs
    THEN path
    ELSE [path EXCEPT !.comps = SubSeq(@, Len(point) + 1, Len(@))]

find_mount_for_path(points, path) ==
    {p \in points : /\ path_prefix_match(p, path)
                    /\ \A q \in points : path_prefix_match(q, path) => Len(q) <= Len(p)}

\* vfs_register_fat32_root: the only mount.
Mounts == {<<>>}

vfs_stat(d, g, path) ==
    UNION {fat32_stat(d, g, translate_path(p, path)) : p \in find_mount_for_path(Mounts, path)}

\* Changes the current directory for the listing, and back: what it leaves
\* behind is in g.
fat32_vfs_listdir(d, g, path, max) ==
    LET here == IF path = Path(FALSE, <<>>) THEN {g.cwd} ELSE fat32_chdir(d, g, path)
        list == UNION {fat32_readdir(d, [g EXCEPT !.cwd = c], max) : c \in here}
    IN  [list |-> list, g |-> g]

vfs_listdir(d, g, path, max) ==
    LET p == CHOOSE q \in find_mount_for_path(Mounts, path) : TRUE
    IN  fat32_vfs_listdir(d, g, translate_path(p, path), max)

-----------------------------------------------------------------------------
(* The listings of the kernel's own console.                               *)

RECURSIVE fat32_list_cluster_recursive(_, _, _, _, _)
\* Everything below a directory, each with its path; a directory that
\* cannot be read shows nothing below it.
fat32_list_cluster_recursive(d, g, c, comps, depth) ==
    IF depth > LIST_DEPTH
    THEN {}
    ELSE LET entries == UNION {ToSet(SelectSeq(DirEntries(cl), Listed)) :
                                 cl \in fat32_read_cluster(d, g, c)}
         IN  UNION {LET below == Append(comps, Stat(e).name)
                    IN  {[path |-> below, stat |-> Stat(e)]}
                          \cup IF e.attr = "dir"
                               THEN fat32_list_cluster_recursive(d, g, e.cluster, below, depth + 1)
                               ELSE {} :
                      e \in entries}

fat32_list_directory_recursive(d, g, path) ==
    UNION {fat32_list_cluster_recursive(d, g, c, path.comps, 1) : c \in fat32_chdir(d, g, path)}

=============================================================================
