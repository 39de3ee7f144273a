------------------------------- MODULE Numloss -------------------------------
(***************************************************************************)
(* The numloss program (user/programs/numloss/main.c) on a disk, and the   *)
(* two other users of its archives: the image builder, which packs the     *)
(* programs it stages (tools/create_disk.py), and the kernel's loader,     *)
(* which unpacks what it is asked to run (src/kernel/elf_loader.c).        *)
(*                                                                         *)
(* One process runs one command after the other; a step is one system call *)
(* and what follows it up to the next one, since each call may fail.  No   *)
(* call gives up the processor, so others act between two commands only:   *)
(* they may rewrite a source file or change an archive.                    *)
(***************************************************************************)
EXTENDS NumlossFormat

CONSTANTS
  Bases,        \* what a path is without its extension
  Commands,     \* the command lines, as split_args leaves them
  Sources,      \* what a file may hold before it is compressed
  Rewrites,     \* what the other process may write over that
  Programs,     \* the programs the image builder may stage
  Damages,      \* what the other process may write over a cell of an archive
  Changes,      \* bound on how often the other process acts
  Runs          \* bound on the commands run

Codec == INSTANCE NumlossCodec
Kernel == INSTANCE NumlossKernel
Host == INSTANCE NumlossHost

VARIABLES
  disk,     \* the files, by path
  p,        \* the numloss process
  fed,      \* by archive: the bytes encoded into it so far
  marks,    \* by archive: what has happened since it was begun
  changes,  \* how often the other process has acted
  runs      \* how many commands have been run

vars == <<disk, p, fed, marks, changes, runs>>

Paths == [base : Bases, ext : {"", "elf", "nls", "staged"}]
NoFile == <<-1>>                    \* no content of a file
Exists(path) == disk[path] # NoFile

\* whole: nobody else wrote to the archive; done: the command that made it has
\* exited with 0.
Begun == [whole |-> TRUE, done |-> FALSE]
Unbegun == [Begun EXCEPT !.whole = FALSE]

(***************************************************************************)
(* The image builder and the loader.                                       *)
(***************************************************************************)

maybe_pack_record(data, packed) ==
  IF data = <<>> \/ Host!is_archive(data) \/ Len(packed) >= Len(data) THEN data ELSE packed

\* elf_load_from_file up to elf_load_from_memory, on the content of a file.
Unpack(d) == IF d.rc \in {OK, Kernel!OVERRUN} THEN d ELSE Kernel!Fail("ELF_ERR_IO")
elf_load_from_file(data) ==
  IF data \in {NoFile, <<>>} THEN Kernel!Fail("ELF_ERR_IO")
  ELSE IF ~Kernel!numloss_is_archive(data) THEN Kernel!Good(data)
  ELSE IF Kernel!numloss_read_header(data).rc # OK \/ At(data, 3) = 0
    THEN Kernel!Fail("ELF_ERR_IO")
  ELSE Unpack(Kernel!numloss_decode(data, At(data, 3)))

(***************************************************************************)
(* The process: the files it reads and writes, its place in the input, the *)
(* sizes it has noted, the last header, the bytes it read and what they    *)
(* became.                                                                 *)
(***************************************************************************)

Process(pc) ==
  [pc |-> pc, in |-> <<>>, out |-> <<>>, pos |-> 0,
   size |-> 0, total |-> 0, header |-> <<>>, raw |-> <<>>, buf |-> <<>>,
   exit |-> 0]

Init ==
  /\ \E s \in Sources : disk = [f \in Paths |-> IF f.ext = "elf" THEN s ELSE NoFile]
  /\ p = Process("off")
  /\ fed = [f \in Paths |-> <<>>]
  /\ marks = [f \in Paths |-> Unbegun]
  /\ changes = 0
  /\ runs = 0

\* The builder stages a program in the image of a machine that is still off.
Stage(b, s) ==
  LET to == [base |-> b, ext |-> "staged"]
  IN /\ p.pc = "off"
     /\ \E packed \in {Host!encode(s, 0)} :
          disk' = [disk EXCEPT ![to] = maybe_pack_record(s, packed)]
     /\ fed' = [fed EXCEPT ![to] = s]
     /\ marks' = [marks EXCEPT ![to] = [Begun EXCEPT !.done = TRUE]]
     /\ p' = Process("staged")
     /\ UNCHANGED <<changes, runs>>

\* The next build starts from what it is given.
Restage(b) ==
  LET to == [base |-> b, ext |-> "staged"]
  IN /\ p.pc = "staged"
     /\ disk' = [disk EXCEPT ![to] = NoFile]
     /\ fed' = [fed EXCEPT ![to] = <<>>]
     /\ marks' = [marks EXCEPT ![to] = Unbegun]
     /\ p' = Process("off")
     /\ UNCHANGED <<changes, runs>>

Boot ==
  /\ p.pc = "off"
  /\ p' = Process("idle")
  /\ UNCHANGED <<disk, fed, marks, changes, runs>>

(***************************************************************************)
(* Files.                                                                  *)
(***************************************************************************)

\* What sys_read returns for n bytes at the process's place in its input.
Got(n) == Slice(disk[p.in], p.pos, Min({n, Len(disk[p.in]) - p.pos}))

Exited(code) == [Process("exit") EXCEPT !.exit = code, !.in = p.in, !.out = p.out]
Exit(code) == p' = Exited(code)
Goto(q) == p' = q
KeepFiles == UNCHANGED <<disk, fed, marks, changes, runs>>
Fail == Exit(1) /\ KeepFiles

\* sys_open with FAT32_O_TRUNC of the output, begun anew as an archive or not;
\* it may fail, and then nothing has changed.
Truncate(q, archive) ==
  \/ /\ disk' = [disk EXCEPT ![p.out] = <<>>]
     /\ fed' = [fed EXCEPT ![p.out] = <<>>]
     /\ marks' = [marks EXCEPT ![p.out] = [Begun EXCEPT !.whole = archive]]
     /\ Goto(q)
     /\ UNCHANGED <<changes, runs>>
  \/ Fail

\* Mutant: the count sys_write returns is not looked at.
WriteOnce(buf, feeds, then) ==
  /\ \E n \in {0, Len(buf) \div 2, Len(buf)} :
       disk' = [disk EXCEPT ![p.out] = @ \o SubSeq(buf, 1, n)]
  /\ fed' = [fed EXCEPT ![p.out] = @ \o feeds]
  /\ then
  /\ UNCHANGED <<changes, runs>>

\* write_all_fd of buf to the output: all of it, and feeds with it, or a part
\* and then an error; the part is none of it or half.
WriteAll(buf, feeds, then) ==
  /\ \E n \in {0, Len(buf) \div 2, Len(buf)} :
       /\ disk' = [disk EXCEPT ![p.out] = @ \o SubSeq(buf, 1, n)]
       /\ IF n = Len(buf) THEN /\ fed' = [fed EXCEPT ![p.out] = @ \o feeds]
                               /\ then
          ELSE Exit(1) /\ UNCHANGED <<fed, marks>>
  /\ UNCHANGED <<changes, runs>>

\* The exit of a compression that went through.
Finished == Exit(0) /\ marks' = [marks EXCEPT ![p.out].done = TRUE]

(***************************************************************************)
(* main.  An argument is a path: a word such as c or -v is one without an  *)
(* extension.  A LONG base does not fit NUMLOSS_CMDLINE_CAP with more.     *)
(***************************************************************************)

LONG == "long"
Is(arg, words) == arg.ext = "" /\ arg.base \in words
Command(arg) == CASE Is(arg, {"c", "compress"})   -> "compress"
                  [] Is(arg, {"d", "decompress"}) -> "decompress"
                  [] Is(arg, {"i", "info"})       -> "info"
                  [] OTHER                        -> "none"

build_default_compress_path(path) == [path EXCEPT !.ext = "nls"]
build_default_decompress_path(path) == [path EXCEPT !.ext = ""]

cmd_default(path) ==
  CASE path.ext = "nls" /\ path.base # "" ->
         <<"decompress", path, build_default_decompress_path(path)>>
    [] path.ext # "nls" /\ path.base # LONG ->
         <<"compress", path, build_default_compress_path(path)>>
    [] OTHER -> <<"refused">>

\* Which command a command line asks for, with its paths.
main(argv) ==
  LET argc == Len(argv)
  IN IF argc = 0 \/ (argc = 1 /\ Is(argv[1], {"-v", "--version"})) THEN <<"usage">>
     ELSE IF argc = 1 /\ Command(argv[1]) = "none" THEN cmd_default(argv[1])
     ELSE IF argc = (IF Command(argv[1]) = "info" THEN 2 ELSE 3) /\ Command(argv[1]) # "none"
       THEN <<Command(argv[1])>> \o Tail(argv)
     ELSE <<"refused">>

Main(argv) ==
  LET c == main(argv)
      start == [Process(c[1]) EXCEPT !.in = c[2], !.out = c[Len(c)]]
  IN /\ p.pc \in {"idle", "exit"} /\ runs < Runs
     /\ CASE c[1] \in {"usage", "refused"} ->
               p' = [Process("exit") EXCEPT !.exit = IF c[1] = "usage" THEN 0 ELSE 1]
          [] OTHER -> p' = start
     /\ runs' = runs + 1
     /\ UNCHANGED <<disk, fed, marks, changes>>

(***************************************************************************)
(* cmd_compress.                                                           *)
(***************************************************************************)

\* A sys_read that fails ends the command.
Reading == {"scan", "smallRead", "chunkedRead", "decompress", "decPayload", "decChunk",
            "decChunkPayload", "decExtra", "info", "infoCount", "infoChunk", "infoConsume"}
ReadFails ==
  /\ p.pc \in Reading
  /\ Exit(1)
  /\ KeepFiles

\* scan_file_size opens the input.
OpenInput(pc, then) ==
  /\ p.pc = pc
  /\ IF Exists(p.in) THEN Goto([p EXCEPT !.pc = then, !.pos = 0]) ELSE Exit(1)
  /\ KeepFiles

ScanOpen == OpenInput("compress", "scan")

ScanRead ==
  /\ p.pc = "scan"
  /\ LET n == Len(Got(MAX_INPUT))
     IN \/ /\ n > 0
           /\ Goto([p EXCEPT !.pos = @ + n, !.size = @ + n])
        \/ /\ n = 0
           /\ Goto([p EXCEPT !.pc = IF p.size <= MAX_INPUT THEN "small" ELSE "chunked", !.pos = 0])
  /\ KeepFiles

\* cmd_compress_small: read_file, whose cap - total is what is asked for.
SmallOpen == OpenInput("small", "smallRead")

SmallRead ==
  /\ p.pc = "smallRead"
  /\ LET got == Got(MAX_INPUT - Len(p.buf))
         q == [p EXCEPT !.pos = @ + Len(got), !.buf = @ \o got]
     IN Goto([q EXCEPT !.pc = CASE got = <<>> -> "smallEncode"
                                [] got # <<>> /\ Len(q.buf) = MAX_INPUT -> "smallExtra"
                                [] OTHER -> "smallRead"])
  /\ KeepFiles

\* One byte more than the buffer holds is too many; a read that fails finds none.
SmallExtra ==
  /\ p.pc = "smallExtra"
  /\ \E more \in {FALSE, Got(1) # <<>>} :
       p' = IF more THEN Exited(1) ELSE [p EXCEPT !.pc = "smallEncode"]
  /\ KeepFiles

\* numloss_encode of what was read, for either way.
Encode ==
  /\ p.pc \in {"smallEncode", "chunkedEncode"}
  /\ \E e \in {Codec!numloss_encode(p.buf, MAX_ARCHIVE)} :
       IF e.rc # OK THEN Exit(1)
       ELSE Goto([p EXCEPT !.pc = IF @ = "smallEncode" THEN "smallTruncate" ELSE "chunkedWrite",
                           !.raw = p.buf, !.buf = e.out])
  /\ KeepFiles

\* write_file.
SmallTruncate ==
  /\ p.pc = "smallTruncate"
  /\ Truncate([p EXCEPT !.pc = "smallWrite"], TRUE)

SmallWrite ==
  /\ p.pc = "smallWrite"
  /\ WriteAll(p.buf, p.raw, Finished)

\* cmd_compress_chunked.
ChunkedOpen ==
  /\ p.pc = "chunked"
  /\ IF Exists(p.in) THEN Truncate([p EXCEPT !.pc = "chunkedHeader"], TRUE) ELSE Fail

ChunkedHeader ==
  /\ p.pc = "chunkedHeader"
  /\ WriteAll(Header(V2, 0, p.size, MAX_INPUT), <<>>,
              Goto([p EXCEPT !.pc = "chunkedRead"]) /\ UNCHANGED marks)

ChunkedRead ==
  /\ p.pc = "chunkedRead"
  /\ IF Got(MAX_INPUT) = <<>> THEN Finished /\ UNCHANGED <<disk, fed, changes, runs>>
     ELSE /\ Goto([p EXCEPT !.pc = "chunkedEncode", !.pos = @ + Len(Got(MAX_INPUT)),
                            !.buf = Got(MAX_INPUT)])
          /\ KeepFiles

ChunkedWrite ==
  /\ p.pc = "chunkedWrite"
  /\ WriteAll(p.buf, p.raw, /\ Goto([p EXCEPT !.pc = "chunkedRead", !.buf = <<>>, !.raw = <<>>])
                            /\ UNCHANGED marks)

(***************************************************************************)
(* cmd_decompress.  The output is truncated once the header has a version, *)
(* before anything else of the archive is looked at.                       *)
(***************************************************************************)

Single == {V1, V3, V4}

\* Opens the archive and reads its header, here and in cmd_info: where a single
\* archive, a chunked one and one of another version continue.
ReadHeader(single, chunked, other) ==
  LET h == Got(HEADER_SIZE)
      version == Codec!archive_version(h)
      next == CASE version \in Single -> single [] version = V2 -> chunked [] OTHER -> other
  IN IF ~Exists(p.in) THEN Exit(1)
     ELSE IF Len(h) < HEADER_SIZE \/ version = 0 THEN Exit(1)
     ELSE IF next = "bad" THEN Exit(1)
     ELSE Goto([p EXCEPT !.pc = next, !.header = h, !.pos = HEADER_SIZE,
                         !.size = At(h, 3)])

DecOpen ==
  /\ p.pc = "decompress"
  /\ ReadHeader("decTruncate", "decTruncate", "decTruncate")
  /\ KeepFiles

\* The buffers hold what a header announces.
Fits(h) ==
  LET r == Codec!numloss_read_header(h)
  IN r.rc = OK /\ r.original <= MAX_ARCHIVE /\ HEADER_SIZE + r.payload <= MAX_ARCHIVE

DecTruncate ==
  /\ p.pc = "decTruncate"
  /\ LET version == Codec!archive_version(p.header)
     IN Truncate(CASE version \in Single /\ Fits(p.header) -> [p EXCEPT !.pc = "decPayload"]
                   [] version = V2 -> [p EXCEPT !.pc = "decChunk"]
                   [] OTHER -> Exited(1), FALSE)

\* The payload of a single archive or of a chunk, decoded.
DecPayload ==
  /\ p.pc \in {"decPayload", "decChunkPayload"}
  /\ \E payload \in {Got(At(p.header, 4))} :
     \E d \in {Codec!numloss_decode(p.header \o payload, MAX_ARCHIVE)} :
        IF \/ Len(payload) < At(p.header, 4)
           \/ d.rc # OK \/ Len(d.out) # At(p.header, 3)
        THEN Exit(1)
        ELSE Goto([p EXCEPT !.pc = IF @ = "decPayload" THEN "decWrite" ELSE "decChunkWrite",
                            !.pos = @ + Len(payload), !.buf = d.out])
  /\ KeepFiles

DecWrite ==
  /\ p.pc \in {"decWrite", "decChunkWrite"}
  /\ WriteAll(p.buf, <<>>,
              /\ Goto([p EXCEPT !.pc = IF @ = "decWrite" THEN "decExtra" ELSE "decChunk",
                                !.total = @ + Len(p.buf), !.buf = <<>>])
              /\ UNCHANGED marks)

EndOf(good) == Exit(IF good THEN 0 ELSE 1) /\ KeepFiles

DecExtra ==
  /\ p.pc = "decExtra"
  /\ EndOf(Got(1) = <<>>)

DecChunk ==
  /\ p.pc = "decChunk"
  /\ LET h == Got(HEADER_SIZE)
     IN CASE h = <<>> -> EndOf(p.total = p.size)
          [] Codec!archive_version(h) \in Single /\ Fits(h) ->
               /\ Goto([p EXCEPT !.pc = "decChunkPayload", !.header = h, !.pos = @ + HEADER_SIZE])
               /\ KeepFiles
          [] OTHER -> Fail

(***************************************************************************)
(* cmd_info.                                                               *)
(***************************************************************************)

InfoOpen ==
  /\ p.pc = "info"
  /\ ReadHeader("infoCount", "infoChunk", "bad")
  /\ KeepFiles

\* count_remaining_bytes of a single archive.
InfoCount ==
  /\ p.pc = "infoCount"
  /\ LET n == Len(Got(MAX_INPUT))
     IN IF n > 0 THEN Goto([p EXCEPT !.pos = @ + n, !.total = @ + n])
        ELSE Exit(IF p.total = At(p.header, 4) THEN 0 ELSE 1)
  /\ KeepFiles

InfoChunk ==
  /\ p.pc = "infoChunk"
  /\ LET h == Got(HEADER_SIZE)
     IN CASE h = <<>> -> Exit(IF p.total = p.size THEN 0 ELSE 1)
          [] Codec!archive_version(h) \in Single ->
               Goto([p EXCEPT !.pc = "infoConsume", !.header = h, !.pos = @ + HEADER_SIZE])
          [] OTHER -> Exit(1)
  /\ KeepFiles

InfoConsume ==
  /\ p.pc = "infoConsume"
  /\ LET n == At(p.header, 4)
     IN IF Len(Got(n)) < n THEN Exit(1)
        ELSE Goto([p EXCEPT !.pc = "infoChunk", !.pos = @ + n, !.total = @ + At(p.header, 3)])
  /\ KeepFiles

(***************************************************************************)
(* Other programs, between two commands: one rewrites a source; one        *)
(* changes, removes or adds a cell of an archive that has just been made.  *)
(***************************************************************************)

Rewrite(f, s) ==
  /\ changes < Changes /\ p.pc \in {"idle", "exit"}
  /\ f.ext = "elf" /\ s # disk[f]
  /\ disk' = [disk EXCEPT ![f] = s]
  /\ changes' = changes + 1
  /\ UNCHANGED <<p, fed, marks, runs>>

Damage(f, i, v) ==
  /\ changes < Changes /\ p.pc = "exit" /\ p.out = f /\ p.in # f
  /\ f.ext = "nls" /\ Exists(f)
  /\ i \in 1..(Len(disk[f]) + 1)
  /\ disk' = [disk EXCEPT ![f] = SubSeq(@, 1, i - 1) \o v \o SubSeq(@, i + 1, Len(@))]
  /\ disk' # disk
  /\ marks' = [marks EXCEPT ![f] = Unbegun]
  /\ changes' = changes + 1
  /\ UNCHANGED <<p, fed, runs>>

Step == \/ ReadFails \/ ScanOpen \/ ScanRead \/ SmallOpen \/ SmallRead \/ SmallExtra \/ Encode
        \/ SmallTruncate \/ SmallWrite \/ ChunkedOpen \/ ChunkedHeader \/ ChunkedRead \/ ChunkedWrite
        \/ DecOpen \/ DecTruncate \/ DecPayload \/ DecWrite \/ DecExtra \/ DecChunk
        \/ InfoOpen \/ InfoCount \/ InfoChunk \/ InfoConsume

Next == \/ \E b \in Bases, s \in Programs : Stage(b, s)
        \/ \E b \in Bases : Restage(b)
        \/ Boot
        \/ \E argv \in Commands : Main(argv)
        \/ Step
        \/ \E f \in Paths, s \in Rewrites : Rewrite(f, s)
        \/ \E f \in Paths, i \in 1..(2 * MAX_ARCHIVE), v \in Damages : Damage(f, i, v)

Spec == Init /\ [][Next]_vars

-----------------------------------------------------------------------------
(***************************************************************************)
(* Properties.                                                             *)
(***************************************************************************)

Archives == {f \in Paths : f.ext = "nls" /\ Exists(f)}

\* The archive of the command that has just exited; another process may have
\* changed it since.
Made(f) == f \in Archives /\ p.pc = "exit" /\ p.out = f /\ p.in # f

\* A compression has exited with 0, and nobody else has written to the archive.
Kept(f) == marks[f].whole /\ marks[f].done

\* Unpacking an archive nobody else wrote to, be it one a failed write cut short,
\* writes nothing but the bytes that were compressed, from the first on; and when
\* cmd_decompress exits with 0 it has written all of them.
NeverWrong ==
  p.pc \in {"decPayload", "decChunkPayload", "decWrite", "decChunkWrite", "decExtra",
            "decChunk", "exit"}
    /\ p.out # <<>> /\ p.out.ext = "" /\ marks[p.in].whole =>
      /\ p.pc # "exit" => IsPrefix(disk[p.out], fed[p.in])
      /\ p.pc = "exit" /\ p.exit = 0 => disk[p.out] = fed[p.in]

\* numloss_encode writes a run of version 1 with a length numloss_decode_v1 does
\* not read back: an archive that may hold one.
HasRun(data) ==
  \E i \in 1..(Len(data) - RUN_MIN + 1) : \A j \in 1..(RUN_MIN - 1) : data[i + j] = data[i]
MayHoldV1Run(f) == At(disk[f], 1) \in {V1, V2} /\ HasRun(fed[f])

\* An archive that cmd_compress exited with 0 for is unpacked exactly by the kernel's
\* decoder and by the host's, whichever version, transform and dictionary
\* numloss_encode preferred, unless it may hold a run of version 1.
Lossless ==
  \A f \in Archives : Made(f) /\ Kept(f) /\ ~MayHoldV1Run(f) =>
      /\ Kernel!numloss_decode(disk[f], Len(fed[f])) = Kernel!Good(fed[f])
      /\ Host!decode(disk[f]) = Host!Return(fed[f])

\* The kernel's decoder (numloss.c) and the build's (numloss_codec.py) take the same
\* archives and get the same bytes out of them, also when a write was cut short or
\* another process changed a cell of the archive.
DecodersAgree ==
  \A f \in Archives : Made(f) /\ Kernel!numloss_is_archive(disk[f]) =>
      \E k \in {Kernel!numloss_decode(disk[f], At(disk[f], 3))}, h \in {Host!decode(disk[f])} :
        (k.rc = OK) = h.ok /\ k.out = h.out

\* A staged program is what the loader hands to elf_load_from_memory, packed by
\* maybe_pack_record or not.  Only a program of more than MAX_INPUT bytes, which the
\* builder packs as one archive all the same, may be too long for g_visit_bitmap.
PackedRuns ==
  p.pc = "staged" =>
    \A b \in Bases :
      LET f == [base |-> b, ext |-> "staged"]
      IN fed[f] # <<>> => \E r \in {elf_load_from_file(disk[f])} :
           \/ r = Kernel!Good(fed[f])
           \/ r.rc = Kernel!OVERRUN /\ Len(fed[f]) > MAX_INPUT

\* What the build and the programs pack is what the kernel unpacks.
LoaderAgrees == DecodersAgree /\ PackedRuns
=============================================================================
