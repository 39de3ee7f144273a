---------------------------- MODULE NumlossKernel ----------------------------
(***************************************************************************)
(* src/kernel/numloss.c: the kernel's decoder.  Its two static buffers,    *)
(* g_transform_buf and g_visit_bitmap, hold MAX_INPUT bytes and bits; a    *)
(* write past the bitmap is the result OVERRUN, and what happens then is   *)
(* not defined.                                                            *)
(***************************************************************************)
EXTENDS NumlossFormat

OVERRUN == "OVERRUN"
Fail(rc) == [rc |-> rc, out |-> <<>>]
Good(out) == [rc |-> OK, out |-> out]

archive_version(input) ==
  IF Len(input) < HEADER_SIZE \/ At(input, 0) # MAGIC THEN 0 ELSE At(input, 1)

archive_transform(input) ==
  IF archive_version(input) \in {V3, V4} THEN At(input, 2) ELSE RAW

numloss_is_archive(input) == archive_version(input) \in {V1, V2, V3, V4}

numloss_read_header(input) ==
  LET rest == Len(input) - HEADER_SIZE
      payload == IF archive_version(input) = V2 THEN rest ELSE At(input, 4)
  IN IF ~numloss_is_archive(input) \/ payload > rest
       THEN [rc |-> ERR_FORMAT, original |-> 0, payload |-> 0]
       ELSE [rc |-> OK, original |-> At(input, 3), payload |-> payload]

\* The texts of the tables do not matter, only that the three pairs are the same.
g_text_prose_dict == PROSE
g_text_code_dict == CODE
TextDictionary(t) ==
  CASE t = TEXT_PROSE -> g_text_prose_dict [] t = TEXT_CODE -> g_text_code_dict [] OTHER -> <<>>

(***************************************************************************)
(* Undoing the transforms, in place.                                       *)
(***************************************************************************)

LastOr0(data) == IF data = <<>> THEN 0 ELSE Last(data)

inverse_delta_in_place(data) ==
  FoldLeft(LAMBDA done, b : Append(done, (LastOr0(done) + b) % BYTE), <<>>, data)

inverse_xor_in_place(data) ==
  FoldLeft(LAMBDA done, b : Append(done, LastOr0(done) ^^ b), <<>>, data)

inverse_delta2_in_place(data) ==
  FoldLeft(LAMBDA s, b : LET delta == (s.delta + b) % BYTE
                             value == (s.value + delta) % BYTE
                         IN [delta |-> delta, value |-> value, out |-> Append(s.out, value)],
           [delta |-> 0, value |-> 0, out |-> <<>>], data).out

inverse_delta32le_in_place(data) ==
  LET words == Len(data) \div 4
      f[w \in 1..words] == ((IF w = 1 THEN 0 ELSE f[w - 1]) + Word(data, 4 * (w - 1))) % WORD
  IN FlattenSeq([w \in 1..words |-> WordBytes(f[w])]) \o From(data, 4 * words)

group_inverse_target(index, words, width) ==
  IF index >= words * width THEN index ELSE (index % words) * width + (index \div words)

\* The cycle of targets that starts at start: temp is the byte in hand.
RECURSIVE FollowCycle(_, _, _, _, _)
FollowCycle(g, cur, start, words, width) ==
  LET next == group_inverse_target(cur, words, width)
      moved == [data |-> [g.data EXCEPT ![next + 1] = g.temp],
                temp |-> At(g.data, next), visited |-> g.visited \cup {cur}]
  IN IF next = start THEN moved ELSE FollowCycle(moved, next, start, words, width)

inverse_group_in_place(data, width) ==
  LET words == Len(data) \div width
      visit(g, start) ==
        IF start \in g.visited THEN g
        ELSE FollowCycle([g EXCEPT !.temp = At(g.data, start)], start, start, words, width)
  IN FoldLeft(visit, [data |-> data, temp |-> 0, visited |-> {}],
              [i \in 1..(words * width) |-> i - 1]).data

\* Bits of g_visit_bitmap.
VISIT_BITMAP == 8 * ((MAX_INPUT + 7) \div 8)

inverse_transform_in_place(data, t) ==
  LET lanes == CASE t \in WithDelta -> inverse_delta_in_place(data)
                 [] t \in WithXor   -> inverse_xor_in_place(data)
                 [] OTHER           -> data
      head == (Len(data) \div Width(t)) * Width(t)
  IN CASE t \notin WordTransforms -> Fail(ERR_FORMAT)
       [] t = DELTA8_DELTA8 -> Good(inverse_delta2_in_place(data))
       [] t = DELTA32LE -> Good(inverse_delta32le_in_place(data))
       [] t \in WordTransforms \ {DELTA8_DELTA8, DELTA32LE} /\ Width(t) = 1 -> Good(lanes)
       [] t \in WordTransforms /\ Width(t) > 1 /\ head > VISIT_BITMAP -> Fail(OVERRUN)
       [] OTHER -> Good(inverse_group_in_place(lanes, Width(t)))

RECURSIVE TextLoop(_, _, _, _)
TextLoop(x, input, dict, cap) ==
  LET token == At(input, x.pos)
      escaped == token = TEXT_ESCAPE
      cut == escaped /\ x.pos + 1 >= Len(input)
      unknown == token >= TEXT_BASE /\ token - TEXT_BASE >= Len(dict)
      bytes == CASE escaped -> <<At(input, x.pos + 1)>>
                 [] ~escaped /\ token < TEXT_BASE -> <<token>>
                 [] OTHER -> dict[token - TEXT_BASE + 1]
  IN CASE x.pos >= Len(input) -> Good(x.out)
       [] x.pos < Len(input) /\ (cut \/ unknown) -> Fail(ERR_FORMAT)
       [] x.pos < Len(input) /\ ~cut /\ ~unknown /\ Len(x.out) + Len(bytes) > cap ->
            Fail(IF escaped THEN ERR_FORMAT ELSE ERR_OUTPUT)
       [] OTHER -> TextLoop([pos |-> x.pos + (IF escaped THEN 2 ELSE 1), out |-> x.out \o bytes],
                            input, dict, cap)

inverse_text_dictionary_transform(input, dict, cap) ==
  TextLoop([pos |-> 0, out |-> <<>>], input, dict, cap)

(***************************************************************************)
(* The token loops.  A decoder d is at byte pos of the payload.            *)
(***************************************************************************)

Start == [pos |-> 0, out |-> <<>>, last |-> 0, rc |-> OK]
Stop(d, rc) == [d EXCEPT !.rc = rc]
\* used bytes of payload gave the bytes of out.
Took(d, used, out) == [d EXCEPT !.pos = @ + used, !.out = out]

\* One token of numloss_decode_v1; in is what is left of the payload.
V1Step(d, in, original) ==
  LET kind == Head(in) \div RUN_BASE
      field == Head(in) % RUN_BASE
      len == IF kind = 0 THEN field + 1 ELSE field + 3
      need == CASE kind = 0 -> len [] kind = 1 -> 1 [] OTHER -> 2
      offset == At(in, 1) + BYTE * At(in, 2)
  IN CASE kind > 2 \/ 1 + need > Len(in) -> Stop(d, ERR_FORMAT)
       [] kind = 2 /\ 1 + need <= Len(in) /\ offset \notin 1..Len(d.out) -> Stop(d, ERR_FORMAT)
       [] OTHER ->
            IF Len(d.out) + len > original THEN Stop(d, ERR_OUTPUT)
            ELSE Took(d, 1 + need, CASE kind = 0 -> d.out \o Slice(in, 1, len)
                                     [] kind = 1 -> d.out \o Repeated(At(in, 1), len)
                                     [] OTHER -> CopyBack(d.out, offset, len))

RECURSIVE V1Loop(_, _, _)
V1Loop(d, payload, original) ==
  IF d.rc # OK \/ d.pos >= Len(payload) THEN d
  ELSE V1Loop(V1Step(d, From(payload, d.pos), original), payload, original)

\* A match of the later versions: copied from offset back when that is in the
\* output and the output has room.
Match(d, used, offset, len, cap) ==
  CASE offset \notin 1..Len(d.out) -> Stop(d, ERR_FORMAT)
    [] offset \in 1..Len(d.out) /\ Len(d.out) + len > cap -> Stop(d, ERR_OUTPUT)
    [] OTHER -> [Took(d, used, CopyBack(d.out, offset, len)) EXCEPT !.last = offset]

\* One token of numloss_decode_match_stream.
StreamStep(d, in, cap) ==
  LET token == Head(in)
      left == Len(in) - 1
      len == IF token < RUN_BASE THEN token + 1 ELSE token - RUN_BASE + RUN_MIN_V3
      code == (token - SHORT_BASE) * BYTE + At(in, 1)
      short == SHORT_MIN + (code \div SHORT_RANGE)
      full == Len(d.out) + len > cap
  IN CASE token < RUN_BASE ->
            IF len > left \/ full THEN Stop(d, ERR_FORMAT)
            ELSE Took(d, 1 + len, d.out \o Slice(in, 1, len))
       [] token \in RUN_BASE..(SHORT_BASE - 1) ->
            IF left < 1 \/ full THEN Stop(d, ERR_FORMAT)
            ELSE Took(d, 2, d.out \o Repeated(At(in, 1), len))
       [] token \in SHORT_BASE..(REPEAT_BASE - 1) ->
            IF left < 1 \/ (left >= 1 /\ short > SHORT_MAX) THEN Stop(d, ERR_FORMAT)
            ELSE Match(d, 2, 1 + (code % SHORT_RANGE), short, cap)
       [] token \in REPEAT_BASE..(LONG_MATCH - 1) ->
            Match(d, 1, d.last, REPEAT_MIN + token - REPEAT_BASE, cap)
       [] OTHER ->
            IF left < 3 THEN Stop(d, ERR_FORMAT)
            ELSE Match(d, 4, At(in, 2) + BYTE * At(in, 3), MATCH_MIN + At(in, 1), cap)

RECURSIVE StreamLoop(_, _, _)
StreamLoop(d, payload, cap) ==
  IF d.rc # OK \/ d.pos >= Len(payload) THEN d
  ELSE StreamLoop(StreamStep(d, From(payload, d.pos), cap), payload, cap)

numloss_decode_match_stream(payload, cap) == StreamLoop(Start, payload, cap)

(***************************************************************************)
(* An archive of one version, and numloss_decode.                           *)
(***************************************************************************)

\* What every version checks before it decodes.
Refused(input, cap) ==
  LET h == numloss_read_header(input)
  IN CASE h.rc # OK -> h.rc
       [] h.rc = OK /\ Len(input) # HEADER_SIZE + h.payload -> ERR_FORMAT
       [] h.rc = OK /\ Len(input) = HEADER_SIZE + h.payload /\ h.original > cap -> ERR_OUTPUT
       [] OTHER -> OK

numloss_decode_v1(input, cap) ==
  LET original == numloss_read_header(input).original
      d == V1Loop(Start, From(input, HEADER_SIZE), original)
  IN CASE Refused(input, cap) # OK -> Fail(Refused(input, cap))
       [] Refused(input, cap) = OK /\ d.rc # OK -> Fail(d.rc)
       [] OTHER -> IF Len(d.out) # original THEN Fail(ERR_FORMAT) ELSE Good(d.out)

\* Mutant: output that falls short of the size in the header is taken.
numloss_decode_v3_short(input, cap) ==
  LET d == numloss_decode_match_stream(From(input, HEADER_SIZE), numloss_read_header(input).original)
  IN IF Refused(input, cap) # OK THEN Fail(Refused(input, cap))
     ELSE IF d.rc # OK THEN Fail(ERR_FORMAT)
     ELSE inverse_transform_in_place(d.out, archive_transform(input))

numloss_decode_v3(input, cap) ==
  LET original == numloss_read_header(input).original
      d == numloss_decode_match_stream(From(input, HEADER_SIZE), original)
  IN IF Refused(input, cap) # OK THEN Fail(Refused(input, cap))
     ELSE IF d.rc # OK \/ Len(d.out) # original THEN Fail(ERR_FORMAT)
     ELSE inverse_transform_in_place(d.out, archive_transform(input))

numloss_decode_v4(input, cap) ==
  LET h == numloss_read_header(input)
      dict == TextDictionary(archive_transform(input))
      transformed == Word(input, HEADER_SIZE)
      d == numloss_decode_match_stream(From(input, HEADER_SIZE + 4), transformed)
      text == inverse_text_dictionary_transform(d.out, dict, cap)
  IN IF h.rc # OK \/ dict = <<>> \/ h.payload < 4 THEN Fail(ERR_FORMAT)
     ELSE IF Refused(input, cap) # OK THEN Fail(Refused(input, cap))
     ELSE IF transformed > MAX_INPUT THEN Fail(ERR_OUTPUT)
     ELSE IF d.rc # OK \/ Len(d.out) # transformed THEN Fail(ERR_FORMAT)
     ELSE IF text.rc # OK \/ Len(text.out) # h.original THEN Fail(ERR_FORMAT)
     ELSE text

DecodeOne(input, cap) ==
  CASE archive_version(input) = V1 -> numloss_decode_v1(input, cap)
    [] archive_version(input) = V3 -> numloss_decode_v3(input, cap)
    [] archive_version(input) = V4 -> numloss_decode_v4(input, cap)
    [] OTHER -> Fail(ERR_FORMAT)

\* The chunks of a version 2 archive, one after the other.
RECURSIVE ChunkLoop(_, _, _, _)
ChunkLoop(in, out, original, cap) ==
  LET h == numloss_read_header(in)
      chunk == DecodeOne(Slice(in, 0, HEADER_SIZE + h.payload), cap - Len(out))
  IN IF in = <<>> THEN IF Len(out) # original THEN Fail(ERR_FORMAT) ELSE Good(out)
     ELSE IF archive_version(in) \notin {V1, V3, V4} \/ h.rc # OK THEN Fail(ERR_FORMAT)
     ELSE IF Len(out) + h.original > original THEN Fail(ERR_OUTPUT)
     ELSE IF chunk.rc # OK THEN chunk
     ELSE ChunkLoop(From(in, HEADER_SIZE + h.payload), out \o chunk.out, original, cap)

numloss_decode(input, cap) ==
  IF archive_version(input) # V2 THEN DecodeOne(input, cap)
  ELSE IF At(input, 3) > cap THEN Fail(ERR_OUTPUT)
  ELSE ChunkLoop(From(input, HEADER_SIZE), <<>>, At(input, 3), cap)
=============================================================================
