------------------------------ MODULE MCInstall ------------------------------
(* Live media, old disks and drives for Install. *)
EXTENDS Install

Low(t, n, e, m) == <<Part(t, n, "lower"), Part(e, m, "lower")>>
File(dir, name, size, id) == [dir |-> dir, name |-> name, size |-> size, id |-> id]

\* What every installation needs, n bytes in each of the small files.
Base(n) == <<
    File("include", SyscallsH, n, "h"),
    File("bin", ShellElf, 5, "shell"),
    File("run", GrubBoot, 2, "mbr"),
    File("run", GrubCore, 2 + n, "core"),
    File("boot", BootCfg, n, "boot"),
    File("boot", StatusCfg, n, "status"),
    File("grub", GrubEnv, n, "env"),
    File("grub", GrubCfg, n, "menu") >>
Core == Base(0)
Filled == Base(1)

Notes == File("home", Low("notes", 5, "txt", 3), 5, "notes")
Empty == File("home", <<Part("Empty", 5, "mixed")>>, 0, "empty")
Hidden == File("home", <<NoPart, Part("rc", 2, "lower")>>, 2, "rc")
Dotted == File("home", <<Part("a", 1, "lower"), Part("b", 1, "lower"), Part("c", 1, "lower")>>, 1, "abc")
Big == File("home", DirName("BIG", 3), 33, "big")

-----------------------------------------------------------------------------
(* A live volume of one sector to a cluster, whose files lie backwards.    *)

LiveDirs == <<"include", "bin", "run", "home", "boot", "grub">>
LiveDir(d) == CHOOSE c \in 3..8 : LiveDirs[c - 2] = d
LiveEnds(files) == [i \in 0..Len(files) |-> 8 + FoldLeft(LAMBDA n, f : n + sectors_for_bytes(f.size), 0, SubSeq(files, 1, i))]
LiveBoot(n) == [k |-> "boot", spc |-> 1, reserved |-> 3, fats |-> 1, fatsz |-> 1,
                total |-> 4 + n, root |-> 2, fsinfo |-> 1]
ShortOf(name) == [base |-> Upper(BeforeDot(name)), ext |-> Padded(Upper(BehindDot(name)))]
LiveFile(files, i, ends) ==
    [short |-> ShortOf(files[i].name), attr |-> "file", lower |-> fat32_short_name_case_flags(files[i].name),
     cluster |-> IF files[i].size = 0 THEN 0 ELSE ends[i], size |-> files[i].size]
LiveDirEntry(d) == DirEntry(ShortOf(DirectoryName[d]), LiveDir(d))
Deleted == [short |-> ShortOf(DirName("OLD", 3)), attr |-> "deleted", lower |-> NoFlags, cluster |-> 9, size |-> 1]

DirOf(files, d, ends) ==
    LET own == SelectSeq([i \in DOMAIN files |-> i], LAMBDA i : files[i].dir = d)
    IN  <<DirEntry(Dot, LiveDir(d)), DirEntry(DotDot, 2)>>
          \o (IF d = "boot" THEN <<LiveDirEntry("grub")>> ELSE <<Deleted>>)
          \o [j \in DOMAIN own |-> LiveFile(files, own[j], ends)]

\* The volume's sectors from sector 0.
LiveVolume(files) ==
    LET ends == LiveEnds(files)
        last == ends[Len(files)]
        Owner(c) == CHOOSE i \in DOMAIN files : ends[i - 1] < c /\ c <= ends[i]
        fat == [c \in 0..(last + 3) |->
                  IF c <= 8 THEN EOC ELSE IF c > last THEN FREE
                  ELSE IF ends[Owner(c) - 1] + 1 = c THEN EOC ELSE c - 1]
        Cluster(c) ==
            IF c = 2 THEN [k |-> "dir", ents |-> [i \in 1..5 |-> LiveDirEntry(LiveDirs[i])]]
            ELSE IF c <= 8 THEN [k |-> "dir", ents |-> DirOf(files, LiveDirs[c - 2], ends)]
            ELSE IF c > last THEN Zero
            ELSE Data(files[Owner(c)].id, ends[Owner(c)] - c + 1)
        boot == LiveBoot(last + 2)
    IN  [s \in 0..(last + 5) |->
           CASE s \in {0, 2} -> boot
             [] s = 1 -> [k |-> "fsinfo", free |-> EOC, next |-> EOC]
             [] s = 3 -> [k |-> "fat", next |-> fat]
             [] OTHER -> Cluster(s - 2)]

Shift(v, n) == [s \in {t + n : t \in DOMAIN v} |-> v[s - n]]
Mbr(type, lba) == [k |-> "mbr", code |-> Zero,
                   parts |-> <<[type |-> 0, lba |-> 0, sectors |-> 0], [type |-> type, lba |-> lba, sectors |-> 9]>>]
Gpt(lba) == (1 :> [k |-> "gpt", entries |-> 2])
              @@ (2 :> [k |-> "gptents", parts |-> <<[type |-> 1, lba |-> lba]>>])

LiveImage(files, kind) ==
    LET v == LiveVolume(files)
    IN  CASE kind = "whole" -> v
          [] kind = "backup" -> (0 :> Zero) @@ v
          [] kind = "mbr" -> (0 :> Mbr(12, 4)) @@ Gpt(4) @@ (3 :> Zero) @@ Shift(v, 4)
          [] kind = "gpt" -> (0 :> Mbr(238, 1)) @@ Gpt(4) @@ (3 :> Zero) @@ Shift(v, 4)

-----------------------------------------------------------------------------
(* Disks of DiskSize sectors.                                              *)

DiskSize == 64
Blank == [s \in 0..(DiskSize - 1) |-> Zero]
\* An old volume over the whole disk, or one that is no FAT32.
Old(fatsz) ==
    LET boot == [k |-> "boot", spc |-> 1, reserved |-> 3, fats |-> 1, fatsz |-> fatsz,
                 total |-> 40, root |-> 2, fsinfo |-> 0]
    IN  (0 :> boot) @@ (2 :> boot) @@ (3 :> boot) @@ (60 :> Data("old", 1)) @@ Blank

Drive48 == [present |-> TRUE, lba48 |-> TRUE, cap48 |-> DiskSize, cap28 |-> 60,
            cylinders |-> 2, heads |-> 2, spt |-> 15]
Drive28 == [Drive48 EXCEPT !.lba48 = FALSE, !.cap28 = DiskSize]
DriveChs == [Drive28 EXCEPT !.cap28 = 0]
Small == [DriveChs EXCEPT !.cylinders = 1]
NoDrive == [Drive48 EXCEPT !.present = FALSE]

\* trouble is the part of MaxTrouble that is used up from the start.
World(files, kind, d, id, t) ==
    [files |-> files, image |-> LiveImage(files, kind), disk |-> d, ident |-> id, trouble |-> t]

MCWorlds == {
    World(Core, "mbr", Old(1), Drive48, 0),
    World(Filled \o <<Notes, Empty>>, "whole", Old(0), Drive28, 0),
    World(Filled \o <<Hidden, Dotted, Notes>>, "gpt", Gpt(4) @@ Blank, DriveChs, 0),
    World(Core \o <<Big>>, "backup", Blank, Drive48, 1),
    World(Tail(Core), "whole", Blank, Drive48, 1),
    World(Front(Core), "whole", Blank, Drive48, 1),
    World(Core, "whole", Blank, Small, 1),
    World(Core, "whole", Blank, NoDrive, 1) }

=============================================================================
