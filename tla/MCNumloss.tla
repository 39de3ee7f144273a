----------------------------- MODULE MCNumloss -----------------------------
(***************************************************************************)
(* Numloss with bytes of 16 values and chunks of 8 bytes.                  *)
(***************************************************************************)
EXTENDS Numloss

\* Text, and two dictionaries that overlap in their letters.
MCPrintable == 2..7
MCProse == << <<2, 3, 4, 5, 2, 3, 6, 7>>, <<2, 3>> >>
MCCode == << <<6, 6>>, <<4, 6, 5, 3, 7, 2, 5, 6>> >>

File(ext) == [base |-> "a", ext |-> ext]
Arg(word) == [base |-> word, ext |-> ""]

\* Compressing to a given path, unpacking and listing it; the default of a file
\* name; no arguments, and too few.
MCCommands ==
  { <<Arg("c"), File("elf"), File("nls")>>, <<File("nls")>>, <<Arg("i"), File("nls")>>,
    <<File("elf")>>, <<>>, <<Arg("c"), File("elf")>> }

\* Sources for which numloss_encode prefers version 1 with and without a run, a
\* transform of each kind, and either dictionary; and two of several chunks.
Runs6 == <<5, 5, 5, 5, 5, 5>>
Mixed == <<2, 2, 2, 2, 3, 3, 2, 3>>
Prose8 == <<2, 3, 4, 5, 2, 3, 6, 7>>
Code8 == <<4, 6, 5, 3, 7, 2, 5, 6>>
Words == { <<2, 2, 2, 2, 2, 3, 3, 3>>, <<1, 0, 0, 0, 2, 0, 0, 0>>, <<2, 2, 2, 2, 3, 3, 9, 9>>,
           <<1, 1, 2, 1, 3, 1, 4, 1>>, <<2, 3, 4, 5, 6, 7, 8, 9>>, <<1, 3, 0, 1, 2, 6, 0, 2>> }
TwoChunks == <<1, 0, 9, 1, 2, 0, 2, 2, 7, 7>>
ThreeChunks == Prose8 \o <<1, 6, 11, 0, 5, 10, 15, 4>> \o <<0, 15>>

MCSources == Words \cup { <<>>, Runs6, Mixed, Prose8, Code8, TwoChunks, ThreeChunks }
\* Another program lengthens a source past a chunk; the builder also gets short
\* programs of two bytes and some longer than the kernel's buffers.
MCRewrites == { TwoChunks }
MCPrograms == MCSources \cup UNION {[1..n -> {2, 9}] : n \in 1..4} \cup
              { [i \in 1..17 |-> i % 3], [i \in 1..16 |-> IF i % 8 = 0 THEN i ELSE 0],
                [i \in 1..14 |-> 9], [i \in 1..15 |-> i], [i \in 1..18 |-> IF i < 9 THEN 1 ELSE 9] }
\* A cell removed or overwritten.
MCDamages == { <<>>, <<7>> }
=============================================================================
