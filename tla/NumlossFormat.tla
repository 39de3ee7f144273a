--------------------------- MODULE NumlossFormat ---------------------------
(***************************************************************************)
(* The numloss archive format, as the headers of its three                *)
(* implementations give it: the user program's codec                      *)
(* (user/programs/numloss/codec.c), the kernel's decoder                   *)
(* (src/kernel/numloss.c) and the build's tools/numloss_codec.py.          *)
(*                                                                         *)
(* A byte has BYTE values, 256 in the code; every limit of the format is   *)
(* the same fraction of BYTE as there, so a small BYTE brings the limits   *)
(* within reach of small inputs.  In a header the magic and each 32-bit   *)
(* field are one cell, so HEADER_SIZE is 5 cells for the code's 16 bytes.  *)
(***************************************************************************)
EXTENDS Integers, SequencesExt, FiniteSetsExt, Bitwise

CONSTANTS
  BYTE,          \* values of a byte
  PRINTABLE,     \* the bytes looks_text_like counts
  PROSE, CODE,   \* g_text_prose_dict and g_text_code_dict, equal in all three
  HASH_SIZE,     \* NUMLOSS_HASH_SIZE
  HASH_WAYS,     \* NUMLOSS_HASH_WAYS
  MAX_INPUT      \* NUMLOSS_MAX_INPUT_BYTES

ASSUME FormatAssumption ==
  /\ BYTE \in {16, 32, 64, 128, 256}
  /\ PRINTABLE \subseteq 1..(BYTE \div 2 - 1)
  /\ \A d \in {PROSE, CODE} : Len(d) <= BYTE \div 2
  /\ \A d \in {PROSE, CODE} : \A i \in 1..Len(d) :
       d[i] # <<>> /\ ToSet(d[i]) \subseteq PRINTABLE
  /\ HASH_SIZE \in Nat \ {0} /\ HASH_WAYS \in Nat \ {0} /\ MAX_INPUT \in Nat \ {0}

LITERAL_MAX == BYTE \div 4                          \* 64
RUN_BASE    == BYTE \div 4                          \* 0x40
RUN_MIN     == 4
RUN_MIN_V3  == 3
RUN_MAX     == BYTE \div 4 + 2                      \* 66
MATCH_MIN   == 4
MATCH_MAX   == BYTE \div 4 + 2                      \* 66
MATCH_MAX_V3 == BYTE + 2                            \* 258
OFFSET_MAX  == BYTE * BYTE - 1                      \* 65535
SHORT_BASE  == BYTE \div 2                          \* 0x80
SHORT_MIN   == 4
SHORT_MAX   == 7
SHORT_RANGE == (BYTE \div 8) * 3 * (BYTE \div 4)    \* 6144
REPEAT_BASE == 14 * (BYTE \div 16)                  \* 0xe0
REPEAT_MIN  == 3
REPEAT_MAX  == BYTE \div 8 + 1                      \* 33
LONG_MATCH  == BYTE - 1                             \* 0xff
TEXT_ESCAPE == 0
TEXT_BASE   == BYTE \div 2                          \* 0x80

\* NUMLOSS_MAX_ARCHIVE_BYTES.
HEADER_SIZE == 5
ArchiveCap(n) == HEADER_SIZE + n + n \div LITERAL_MAX + LITERAL_MAX
MAX_ARCHIVE == ArchiveCap(MAX_INPUT)

V1 == 1
V2 == 2
V3 == 3
V4 == 4

\* The transforms of byte 5 of the header.
RAW == 0
DELTA8 == 1
XOR8 == 2
DELTA8_DELTA8 == 12
TEXT_PROSE == 13
TEXT_CODE == 14
DELTA32LE == 15
Grouped4 == 3..5
Grouped8 == 6..8
Grouped2 == 9..11
WithDelta == {DELTA8, 4, 7, 10}
WithXor == {XOR8, 5, 8, 11}
WordTransforms == (0..15) \ {TEXT_PROSE, TEXT_CODE}
Width(t) == CASE t \in Grouped2 -> 2
              [] t \in Grouped4 -> 4
              [] t \in Grouped8 -> 8
              [] OTHER -> 1

OK         == "OK"
ERR_INPUT  == "ERR_INPUT"
ERR_OUTPUT == "ERR_OUTPUT"
ERR_FORMAT == "ERR_FORMAT"

MAGIC == BYTE                    \* no byte, so nothing else reads as a header
Header(version, transform, original, payload) ==
  <<MAGIC, version, transform, original, payload>>

\* data[pos], and the bytes from a position on, counted from 0 as in the code.
At(data, pos) == data[pos + 1]
From(data, pos) == SubSeq(data, pos + 1, Len(data))
Slice(data, pos, n) == SubSeq(data, pos + 1, pos + n)

\* read_u32_le and write_u32_le on four bytes of data.
Word(data, pos) == FoldRight(LAMBDA b, w : b + BYTE * w, Slice(data, pos, 4), 0)
WordBytes(w) == [i \in 1..4 |-> (w \div BYTE^(i - 1)) % BYTE]
WORD == BYTE^4

\* len bytes copied from offset back, a byte at a time, so they may overlap.
CopyBack(out, offset, len) ==
  out \o [i \in 1..len |-> out[Len(out) - offset + 1 + ((i - 1) % offset)]]

Repeated(value, len) == [i \in 1..len |-> value]
=============================================================================
