----------------------------- MODULE NumlossHost -----------------------------
(***************************************************************************)
(* tools/numloss_codec.py: the encoder and the decoder of the build, its   *)
(* functions without their leading underscore.  A function that may raise  *)
(* returns [ok, out].                                                      *)
(***************************************************************************)
EXTENDS NumlossFormat

Raise == [ok |-> FALSE, out |-> <<>>]
Return(out) == [ok |-> TRUE, out |-> out]

(***************************************************************************)
(* Searching: a history of lists, newest position first.                   *)
(***************************************************************************)

hash4(data, pos) ==
  ((At(data, pos) * BYTE^3 + At(data, pos + 1) * BYTE^2 + At(data, pos + 2) * BYTE
     + At(data, pos + 3)) * 25 % WORD) \div (WORD \div HASH_SIZE)

history_insert(history, data, pos) ==
  IF pos + 3 >= Len(data) THEN history
  ELSE [history EXCEPT ![hash4(data, pos)] =
          LET slot == <<pos>> \o @ IN IF Len(slot) > HASH_WAYS THEN Front(slot) ELSE slot]

\* The longest length up to limit for which the bytes at a and b agree.
Agree(data, a, b, limit) ==
  LET differ == {l \in 0..(limit - 1) : At(data, a + l) # At(data, b + l)}
  IN IF differ = {} THEN limit ELSE Min(differ)

find_run_len(data, pos) ==
  1 + Agree(data, pos, pos + 1, Min({RUN_MAX, Len(data) - pos}) - 1)

\* The best of a slot for find_match_len_v1 and find_match_candidates_v3:
\* a later candidate replaces an earlier one only when it is longer.
Best(history, data, pos, limit, reach, most) ==
  LET longer(best, c) ==
        LET len == Agree(data, c, pos, Min({limit, Len(data) - pos}))
            cut == Min({len, most})
        IN IF pos - c <= reach /\ len >= MATCH_MIN /\ cut > best.len
             THEN [len |-> cut, offset |-> pos - c] ELSE best
  IN IF pos + MATCH_MIN > Len(data) THEN [len |-> 0, offset |-> 0]
     ELSE FoldLeft(longer, [len |-> 0, offset |-> 0], history[hash4(data, pos)])

find_match_len_v1(history, data, pos) ==
  Best(history, data, pos, MATCH_MAX, OFFSET_MAX, MATCH_MAX)
find_match_candidates_v3(history, data, pos) ==
  [long  |-> Best(history, data, pos, MATCH_MAX_V3, OFFSET_MAX, MATCH_MAX_V3),
   short |-> Best(history, data, pos, MATCH_MAX_V3, SHORT_RANGE, SHORT_MAX)]

find_repeat_match_len(data, pos, last) ==
  IF last \notin 1..pos THEN 0
  ELSE Agree(data, pos - last, pos, Min({REPEAT_MAX, Len(data) - pos}))

\* A choice is <<kind, length, offset, cost, gain>>.
pick_better_choice(best, c) ==
  IF \/ c[5] > best[5]
     \/ c[5] = best[5] /\ (c[4] < best[4] \/ (c[4] = best[4] /\ c[2] > best[2]))
    THEN c ELSE best

choose_sequence_v3(history, data, pos, last) ==
  LET run == find_run_len(data, pos)
      m == find_match_candidates_v3(history, data, pos)
      repeat == find_repeat_match_len(data, pos, last)
      b0 == <<"literal", 1, 0, 2, 0>>
      b1 == IF run >= RUN_MIN_V3
              THEN pick_better_choice(b0, <<"run", run, 0, 2, run - 2>>) ELSE b0
      b2 == FoldLeft(LAMBDA b, n :
                       pick_better_choice(b, <<"short", n, m.short.offset, 2, n - 2>>),
                     b1, [i \in 1..Max({0, m.short.len - SHORT_MIN + 1}) |-> SHORT_MIN + i - 1])
      b3 == IF m.long.len >= MATCH_MIN
              THEN pick_better_choice(b2, <<"long", m.long.len, m.long.offset, 4, m.long.len - 4>>)
              ELSE b2
  IN IF repeat >= REPEAT_MIN
       THEN pick_better_choice(b3, <<"repeat", repeat, last, 1, repeat - 1>>) ELSE b3

\* The choice in the loop of encode_v1.
choose_v1(history, data, pos) ==
  LET run == find_run_len(data, pos)
      m == find_match_len_v1(history, data, pos)
  IN IF run >= RUN_MIN /\ run >= m.len + 1 THEN <<"run", run, 0>>
     ELSE IF m.len >= MATCH_MIN THEN <<"match", m.len, m.offset>>
     ELSE <<"literal", 1, 0>>

(***************************************************************************)
(* Encoding.                                                               *)
(***************************************************************************)

emit_literals(data, start, length) ==
  IF length = 0 THEN <<>> ELSE <<length - 1>> \o Slice(data, start, length)
emit_short_match(length, offset) ==
  LET code == (length - SHORT_MIN) * SHORT_RANGE + (offset - 1)
  IN <<SHORT_BASE + (code \div BYTE), code % BYTE>>
emit_repeat_match(length) == <<REPEAT_BASE + (length - REPEAT_MIN)>>
emit_long_match(length, offset) == <<LONG_MATCH, length - MATCH_MIN, offset % BYTE, offset \div BYTE>>

\* Both versions write a run as its length less 3.
Token(c, value) ==
  CASE c[1] = "run"    -> <<RUN_BASE + (c[2] - 3), value>>
    [] c[1] = "match"  -> <<SHORT_BASE + (c[2] - 3), c[3] % BYTE, c[3] \div BYTE>>
    [] c[1] = "short"  -> emit_short_match(c[2], c[3])
    [] c[1] = "repeat" -> emit_repeat_match(c[2])
    [] c[1] = "long"   -> emit_long_match(c[2], c[3])

\* One step of the loop at e.pos: the choice, then the literal, the literals that
\* wait, or the token.
Unchosen == <<"none", 0, 0>>
Decide(e, version, data) ==
  [e EXCEPT !.c = IF version = V1 THEN choose_v1(e.history, data, e.pos)
                  ELSE choose_sequence_v3(e.history, data, e.pos, e.last)]
Emitted(e, data) ==
  [e EXCEPT !.out = @ \o emit_literals(data, e.pos - e.lit, e.lit), !.lit = 0]
Skip(e, data) ==
  LET one == [e EXCEPT !.pos = @ + 1, !.lit = @ + 1, !.c = Unchosen,
                       !.history = history_insert(@, data, e.pos)]
  IN IF one.lit = LITERAL_MAX THEN Emitted(one, data) ELSE one
Take(e, data) ==
  [e EXCEPT !.out = @ \o Token(e.c, At(data, e.pos)), !.pos = @ + e.c[2], !.c = Unchosen,
            !.last = IF e.c[1] \in {"short", "long"} THEN e.c[3] ELSE @,
            !.history = FoldLeft(LAMBDA h, i : history_insert(h, data, e.pos + i - 1),
                                 @, [i \in 1..e.c[2] |-> i])]

RECURSIVE EncodeLoop(_, _, _)
EncodeLoop(e, version, data) ==
  IF e.pos >= Len(data) THEN Emitted(e, data).out
  ELSE EncodeLoop(CASE e.c[1] = "none" -> Decide(e, version, data)
                    [] e.c[1] = "literal" -> Skip(e, data)
                    [] e.c[1] \notin {"none", "literal"} /\ e.lit > 0 -> Emitted(e, data)
                    [] OTHER -> Take(e, data),
                  version, data)

EncodeStart(prefix) ==
  [pos |-> 0, lit |-> 0, last |-> 0, out |-> prefix, c |-> Unchosen,
   history |-> [h \in 0..(HASH_SIZE - 1) |-> <<>>]]

Archive(payload, version, original, transform) ==
  Header(version, transform, original, Len(payload)) \o payload

encode_match_stream(source, version, original, transform, prefix) ==
  Archive(EncodeLoop(EncodeStart(prefix), version, source), version, original, transform)

encode_v1(data) == encode_match_stream(data, V1, Len(data), RAW, <<>>)

(***************************************************************************)
(* The transforms and their inverses.                                      *)
(***************************************************************************)

group_bytes(data, width) ==
  LET words == Len(data) \div width
      lane(l) == [i \in 1..words |-> At(data, (i - 1) * width + l)]
  IN FlattenSeq([l \in 1..width |-> lane(l - 1)]) \o From(data, words * width)

ungroup_bytes(data, width) ==
  LET words == Len(data) \div width
  IN [i \in 1..(words * width) |->
        At(data, ((i - 1) % width) * words + ((i - 1) \div width))]
     \o From(data, words * width)

delta_forward(data) ==
  FoldLeft(LAMBDA s, v : [prev |-> v, out |-> Append(s.out, (v - s.prev) % BYTE)],
           [prev |-> 0, out |-> <<>>], data).out
delta_inverse(data) ==
  FoldLeft(LAMBDA out, v : Append(out, ((IF out = <<>> THEN 0 ELSE Last(out)) + v) % BYTE),
           <<>>, data)
xor_forward(data) ==
  FoldLeft(LAMBDA s, v : [prev |-> v, out |-> Append(s.out, v ^^ s.prev)],
           [prev |-> 0, out |-> <<>>], data).out
xor_inverse(data) ==
  FoldLeft(LAMBDA out, v : Append(out, (IF out = <<>> THEN 0 ELSE Last(out)) ^^ v),
           <<>>, data)

Words(data) == [w \in 1..(Len(data) \div 4) |-> Word(data, 4 * (w - 1))]
Tail4(data) == From(data, 4 * (Len(data) \div 4))
delta32le_forward(data) ==
  FoldLeft(LAMBDA s, w : [prev |-> w, out |-> s.out \o WordBytes((w - s.prev) % WORD)],
           [prev |-> 0, out |-> <<>>], Words(data)).out \o Tail4(data)
delta32le_inverse(data) ==
  FoldLeft(LAMBDA s, w : LET sum == (s.prev + w) % WORD
                         IN [prev |-> sum, out |-> s.out \o WordBytes(sum)],
           [prev |-> 0, out |-> <<>>], Words(data)).out \o Tail4(data)

apply_transform(data, t) ==
  LET g == IF Width(t) = 1 THEN data ELSE group_bytes(data, Width(t))
  IN CASE t = DELTA8_DELTA8 -> delta_forward(delta_forward(data))
       [] t = DELTA32LE -> delta32le_forward(data)
       [] t \in WithDelta -> delta_forward(g)
       [] t \in WithXor -> xor_forward(g)
       [] OTHER -> g

undo_transform(data, t) ==
  LET lanes == CASE t \in WithDelta -> delta_inverse(data)
                 [] t \in WithXor -> xor_inverse(data)
                 [] OTHER -> data
  IN CASE t \notin WordTransforms -> Raise
       [] t = DELTA8_DELTA8 -> Return(delta_inverse(delta_inverse(data)))
       [] t = DELTA32LE -> Return(delta32le_inverse(data))
       [] OTHER -> Return(IF Width(t) = 1 THEN lanes ELSE ungroup_bytes(lanes, Width(t)))

looks_text_like(data) ==
  data # <<>> /\ 8 * Cardinality({i \in DOMAIN data : data[i] \in PRINTABLE}) >= 7 * Len(data)

\* The texts of the tables do not matter, only that the three pairs are the same.
TEXT_PROSE_DICT == PROSE
TEXT_CODE_DICT == CODE

\* text_dictionary_for_transform, and its entries by falling length; equal
\* lengths keep their order.
Dictionary(t) ==
  CASE t = TEXT_PROSE -> TEXT_PROSE_DICT [] t = TEXT_CODE -> TEXT_CODE_DICT [] OTHER -> <<>>
SortedEntries(dict) ==
  SortSeq([i \in 1..Len(dict) |-> i],
          LAMBDA i, j : Len(dict[i]) > Len(dict[j]) \/ (Len(dict[i]) = Len(dict[j]) /\ i < j))

RECURSIVE ApplyText(_, _, _, _)
ApplyText(data, pos, out, dict) ==
  LET fits == SelectSeq(SortedEntries(dict), LAMBDA i : IsPrefix(dict[i], From(data, pos)))
      b == At(data, pos)
      more == CASE fits # <<>> -> <<TEXT_BASE + Head(fits) - 1>>
                [] fits = <<>> /\ (b = 0 \/ b >= TEXT_BASE) -> <<0, b>>
                [] OTHER -> <<b>>
  IN IF pos >= Len(data) THEN Return(out)
     ELSE IF Len(out) + Len(more) > Len(data) THEN Raise
     ELSE ApplyText(data, IF fits # <<>> THEN pos + Len(dict[Head(fits)]) ELSE pos + 1,
                    out \o more, dict)

apply_text_dictionary(data, t) ==
  IF ~looks_text_like(data) THEN Raise ELSE ApplyText(data, 0, <<>>, Dictionary(t))

RECURSIVE UndoText(_, _, _, _)
UndoText(data, out, dict, original) ==
  LET token == Head(data)
      bad == (token = 0 /\ Len(data) = 1) \/ token - TEXT_BASE >= Len(dict)
      more == CASE token = 0 -> <<data[2]>>
                [] token \in 1..(TEXT_BASE - 1) -> <<token>>
                [] OTHER -> dict[token - TEXT_BASE + 1]
  IN IF data = <<>> THEN IF Len(out) # original THEN Raise ELSE Return(out)
     ELSE IF bad THEN Raise
     ELSE IF Len(out) + Len(more) > original THEN Raise
     ELSE UndoText(IF token = 0 THEN From(data, 2) ELSE Tail(data), out \o more, dict, original)

undo_text_dictionary(data, t, original) ==
  IF t \notin {TEXT_PROSE, TEXT_CODE} THEN Raise
  ELSE UndoText(data, <<>>, Dictionary(t), original)

(***************************************************************************)
(* encode.                                                                 *)
(***************************************************************************)

TRANSFORM_CANDIDATES == <<0, 1, 2, 3, 4, 5, 6, 7, 8, 9, 10, 11, DELTA8_DELTA8, DELTA32LE>>

encode_v3_with_transform(data, t) ==
  encode_match_stream(apply_transform(data, t), V3, Len(data), t, <<>>)

encode_v4_text_with_transform(data, t) ==
  LET text == apply_text_dictionary(data, t)
  IN IF ~text.ok THEN Raise
     ELSE Return(encode_match_stream(text.out, V4, Len(data), t, WordBytes(Len(text.out))))

\* The first of the shortest: version 1, the transforms, the dictionaries.
Shortest(all) ==
  LET least == Min({Len(all[i]) : i \in DOMAIN all})
  IN all[Min({i \in DOMAIN all : Len(all[i]) = least})]

Texts(data) ==
  SelectSeq([i \in 1..2 |-> encode_v4_text_with_transform(data, <<TEXT_PROSE, TEXT_CODE>>[i])],
            LAMBDA c : c.ok)
Outs(results) == [i \in DOMAIN results |-> results[i].out]

encode_best(data) ==
  Shortest(<<encode_v1(data)>>
           \o [i \in DOMAIN TRANSFORM_CANDIDATES |->
                 encode_v3_with_transform(data, TRANSFORM_CANDIDATES[i])]
           \o Outs(Texts(data)))

\* chunk = 0 is chunk_size=None.
Chunks(data, chunk) ==
  IF chunk = 0 \/ Len(data) <= chunk THEN <<data>>
  ELSE [i \in 1..((Len(data) + chunk - 1) \div chunk) |->
          SubSeq(data, (i - 1) * chunk + 1, Min({i * chunk, Len(data)}))]
encode(data, chunk) ==
  (IF Len(Chunks(data, chunk)) = 1 THEN <<>> ELSE Header(V2, 0, Len(data), chunk))
  \o FlattenSeq([i \in 1..Len(Chunks(data, chunk)) |-> encode_best(Chunks(data, chunk)[i])])

(***************************************************************************)
(* decode.                                                                 *)
(***************************************************************************)

archive_version(data) ==
  IF Len(data) >= HEADER_SIZE /\ Head(data) = MAGIC THEN data[2] ELSE 0
is_archive(data) == archive_version(data) \in {V1, V2, V3, V4}

Extends(out, len, original) == Len(out) + len <= original

\* data is the payload that is left.
RECURSIVE DecodeV1(_, _, _)
DecodeV1(data, out, original) ==
  LET token == Head(data)
      kind == token \div RUN_BASE
      len == (token % RUN_BASE) + (IF kind = 0 THEN 1 ELSE 3)
      need == CASE kind = 0 -> len [] kind = 1 -> 1 [] OTHER -> 2
      offset == data[2] + BYTE * data[3]
      next(more) == DecodeV1(From(data, 1 + need), more, original)
  IN IF data = <<>> THEN IF Len(out) # original THEN Raise ELSE Return(out)
     ELSE IF kind = 3 \/ Len(data) < 1 + need \/ ~Extends(out, len, original) THEN Raise
     ELSE IF kind = 0 THEN next(out \o Slice(data, 1, len))
     ELSE IF kind = 1 THEN next(out \o Repeated(data[2], len))
     ELSE IF offset \notin 1..Len(out) THEN Raise
     ELSE next(CopyBack(out, offset, len))

RECURSIVE DecodeStream(_, _, _, _)
DecodeStream(data, out, last, size) ==
  LET token == Head(data)
      literal == token < RUN_BASE
      code == (token - SHORT_BASE) * BYTE + data[2]
      kind == CASE token < RUN_BASE -> "literal"
                [] token >= RUN_BASE /\ token < SHORT_BASE -> "run"
                [] token >= SHORT_BASE /\ token < REPEAT_BASE -> "short"
                [] token >= REPEAT_BASE /\ token < LONG_MATCH -> "repeat"
                [] OTHER -> "long"
      need == CASE kind = "literal" -> token + 1 [] kind = "repeat" -> 0
                [] kind = "long" -> 3 [] OTHER -> 1
      len == CASE kind = "literal" -> token + 1
               [] kind = "run" -> token - RUN_BASE + RUN_MIN_V3
               [] kind = "short" -> SHORT_MIN + (code \div SHORT_RANGE)
               [] kind = "repeat" -> REPEAT_MIN + (token - REPEAT_BASE)
               [] OTHER -> MATCH_MIN + data[2]
      offset == CASE kind = "short" -> 1 + (code % SHORT_RANGE)
                  [] kind = "repeat" -> last
                  [] OTHER -> data[3] + BYTE * data[4]
      next(more, l) == DecodeStream(From(data, 1 + need), more, l, size)
  IN IF data = <<>> THEN IF Len(out) # size THEN Raise ELSE Return(out)
     ELSE IF Len(data) < 1 + need THEN Raise
     ELSE IF ~Extends(out, len, size) \/ (kind = "short" /\ len > SHORT_MAX) THEN Raise
     ELSE IF kind = "literal" THEN next(out \o Slice(data, 1, len), last)
     ELSE IF kind = "run" THEN next(out \o Repeated(data[2], len), last)
     ELSE IF offset \notin 1..Len(out) THEN Raise
     ELSE next(CopyBack(out, offset, len), offset)

decode_match_stream(payload, size) == DecodeStream(payload, <<>>, 0, size)

\* read_header, and the size check of decode_v1, decode_v3 and decode_v4.
BadSize(data) == Len(data) # HEADER_SIZE + data[5]

decode_v1(data) ==
  IF BadSize(data) THEN Raise ELSE DecodeV1(From(data, HEADER_SIZE), <<>>, data[4])

decode_v3(data) ==
  LET t == decode_match_stream(From(data, HEADER_SIZE), data[4])
  IN IF BadSize(data) THEN Raise
     ELSE IF ~t.ok THEN Raise
     ELSE undo_transform(t.out, data[3])

decode_v4(data) ==
  LET t == decode_match_stream(From(data, HEADER_SIZE + 4), Word(data, HEADER_SIZE))
  IN IF BadSize(data) \/ data[5] < 4 THEN Raise
     ELSE IF ~t.ok THEN Raise
     ELSE undo_text_dictionary(t.out, data[3], data[4])

DecodeOne(data) ==
  CASE archive_version(data) = V1 -> decode_v1(data)
    [] archive_version(data) = V3 -> decode_v3(data)
    [] archive_version(data) = V4 -> decode_v4(data)
    [] OTHER -> Raise

RECURSIVE DecodeChunks(_, _, _)
DecodeChunks(data, out, original) ==
  LET size == HEADER_SIZE + data[5]
      chunk == DecodeOne(Slice(data, 0, size))
  IN IF data = <<>> THEN IF Len(out) # original THEN Raise ELSE Return(out)
     ELSE IF archive_version(data) \notin {V1, V3, V4} THEN Raise
     ELSE IF size > Len(data) THEN Raise
     ELSE IF ~chunk.ok THEN Raise
     ELSE DecodeChunks(From(data, size), out \o chunk.out, original)

decode(data) ==
  IF archive_version(data) # V2 THEN DecodeOne(data)
  ELSE DecodeChunks(From(data, HEADER_SIZE), <<>>, data[4])
=============================================================================
