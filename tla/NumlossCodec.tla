---------------------------- MODULE NumlossCodec ----------------------------
(***************************************************************************)
(* user/programs/numloss/codec.c: the encoder and the decoder of the       *)
(* numloss program.  A function that fills a buffer is an operator that    *)
(* returns [rc, out].                                                      *)
(***************************************************************************)
EXTENDS NumlossFormat

Fail(rc) == [rc |-> rc, out |-> <<>>]
Good(out) == [rc |-> OK, out |-> out]

\* The texts of the tables do not matter, only that the three pairs are the same.
g_text_prose_dict == PROSE
g_text_code_dict == CODE
TextDictionary(t) ==
  CASE t = TEXT_PROSE -> g_text_prose_dict [] t = TEXT_CODE -> g_text_code_dict [] OTHER -> <<>>

looks_text_like(input) ==
  /\ input # <<>>
  /\ 8 * Len(SelectSeq(input, LAMBDA b : b \in PRINTABLE)) >= 7 * Len(input)

(***************************************************************************)
(* Finding runs and matches.  g_history keeps the last HASH_WAYS positions *)
(* of each hash, newest first.                                             *)
(***************************************************************************)

history_reset == [h \in 0..(HASH_SIZE - 1) |-> <<>>]

\* The multiplier spreads the four bytes; which one it is does not matter.
hash4(data, pos) ==
  ((FoldLeft(LAMBDA v, b : (v * BYTE + b) % WORD, 0, Slice(data, pos, 4)) * 25)
    % WORD) \div (WORD \div HASH_SIZE)

history_insert(history, data, pos) ==
  IF pos + 3 >= Len(data) THEN history
  ELSE [history EXCEPT ![hash4(data, pos)] =
          SubSeq(<<pos>> \o @, 1, Min({HASH_WAYS, Len(@) + 1}))]

InsertAll(history, data, pos, len) ==
  FoldLeft(LAMBDA h, i : history_insert(h, data, pos + i - 1), history, [i \in 1..len |-> i])

\* How far the bytes at a and at b agree, up to limit.
CommonLen(data, a, b, limit) ==
  Max({l \in 0..limit : \A i \in 0..(l - 1) : At(data, a + i) = At(data, b + i)})

find_run_len(data, pos, max) ==
  LET limit == Min({max, Len(data) - pos})
  IN Max({l \in 1..limit : \A i \in 0..(l - 1) : At(data, pos + i) = At(data, pos)})

\* The candidates the loops of find_match_len_v1 and find_match_candidates_v3
\* do not skip, newest first, and the first one that agrees longest.
Candidates(history, data, pos, limit) ==
  IF pos + MATCH_MIN > Len(data) THEN <<>>
  ELSE SelectSeq([i \in 1..Len(history[hash4(data, pos)]) |->
                    LET c == history[hash4(data, pos)][i]
                    IN [offset |-> pos - c,
                        len |-> CommonLen(data, c, pos, Min({limit, Len(data) - pos}))]],
                 LAMBDA m : m.offset \in 1..OFFSET_MAX /\ m.len >= MATCH_MIN)

FirstLongest(matches) ==
  IF matches = <<>> THEN [offset |-> 0, len |-> 0]
  ELSE LET longest == Max({matches[i].len : i \in 1..Len(matches)})
       IN matches[Min({i \in 1..Len(matches) : matches[i].len = longest})]

find_match_len_v1(history, data, pos) == FirstLongest(Candidates(history, data, pos, MATCH_MAX))

\* The long match, and the short one: near enough, and cut to SHORT_MAX.
find_match_candidates_v3(history, data, pos) ==
  LET all == Candidates(history, data, pos, MATCH_MAX_V3)
      near == SelectSeq(all, LAMBDA m : m.offset <= SHORT_RANGE)
  IN [long  |-> FirstLongest(all),
      short |-> FirstLongest([i \in 1..Len(near) |->
                                [near[i] EXCEPT !.len = Min({@, SHORT_MAX})]])]

find_repeat_match_len(data, pos, last) ==
  IF last = 0 \/ last > pos THEN 0
  ELSE CommonLen(data, pos - last, pos, Min({REPEAT_MAX, Len(data) - pos}))

(***************************************************************************)
(* Choosing what to emit at a position.                                    *)
(***************************************************************************)

Choice(kind, len, offset, cost) ==
  [kind |-> kind, len |-> len, offset |-> offset, cost |-> cost, gain |-> len - cost]

Literal == [kind |-> "literal", len |-> 1, offset |-> 0, cost |-> 2, gain |-> 0]

pick_better_choice(best, c) ==
  IF \/ c.gain > best.gain
     \/ c.gain = best.gain /\ c.cost < best.cost
     \/ c.gain = best.gain /\ c.cost = best.cost /\ c.len > best.len
    THEN c ELSE best

choose_sequence_v1(history, data, pos) ==
  LET run == find_run_len(data, pos, RUN_MAX)
      match == find_match_len_v1(history, data, pos)
  IN CASE run >= RUN_MIN /\ run >= match.len + 1 -> Choice("run", run, 0, 2)
       [] ~(run >= RUN_MIN /\ run >= match.len + 1) /\ match.len >= MATCH_MIN ->
            Choice("match", match.len, match.offset, 3)
       [] OTHER -> Literal

choose_sequence_v3(history, data, pos, last) ==
  LET run == find_run_len(data, pos, RUN_MAX)
      m == find_match_candidates_v3(history, data, pos)
      repeat == find_repeat_match_len(data, pos, last)
      runs == IF run >= RUN_MIN_V3 THEN <<Choice("run", run, 0, 2)>> ELSE <<>>
      shorts == [i \in 1..Max({0, m.short.len - SHORT_MIN + 1}) |->
                   Choice("short", SHORT_MIN + i - 1, m.short.offset, 2)]
      longs == IF m.long.len >= MATCH_MIN
                 THEN <<Choice("long", m.long.len, m.long.offset, 4)>> ELSE <<>>
      repeats == IF repeat >= REPEAT_MIN THEN <<Choice("repeat", repeat, last, 1)>> ELSE <<>>
  IN FoldLeft(pick_better_choice, Literal, runs \o shorts \o longs \o repeats)

(***************************************************************************)
(* The token each choice becomes.                                          *)
(***************************************************************************)

emit_literals(data, pos, len) == <<len - 1>> \o Slice(data, pos, len)
emit_run(value, len, min) == <<RUN_BASE + (len - min), value>>
emit_match(offset, len) == <<SHORT_BASE + (len - 3), offset % BYTE, offset \div BYTE>>
emit_short_match_v3(offset, len) ==
  LET code == (len - SHORT_MIN) * SHORT_RANGE + (offset - 1)
  IN <<SHORT_BASE + (code \div BYTE), code % BYTE>>
emit_repeat_match_v3(len) == <<REPEAT_BASE + (len - REPEAT_MIN)>>
emit_long_match_v3(offset, len) == <<LONG_MATCH, len - MATCH_MIN, offset % BYTE, offset \div BYTE>>

Token(version, c, value) ==
  CASE c.kind = "run"    -> emit_run(value, c.len, IF version = V1 THEN RUN_MIN ELSE RUN_MIN_V3)
    [] c.kind = "match"  -> emit_match(c.offset, c.len)
    [] c.kind = "short"  -> emit_short_match_v3(c.offset, c.len)
    [] c.kind = "repeat" -> emit_repeat_match_v3(c.len)
    [] c.kind = "long"   -> emit_long_match_v3(c.offset, c.len)

(***************************************************************************)
(* The loop of numloss_encode_v1 and numloss_encode_match_stream.  lit     *)
(* literals before pos wait to be emitted; every emit checks the capacity. *)
(***************************************************************************)

Emit(e, bytes, cap) ==
  IF Len(e.out) + Len(bytes) > cap THEN [e EXCEPT !.rc = ERR_OUTPUT]
  ELSE [e EXCEPT !.out = @ \o bytes]

Flush(e, data, cap) ==
  IF e.lit = 0 THEN e
  ELSE [Emit(e, emit_literals(data, e.pos - e.lit, e.lit), cap) EXCEPT !.lit = 0]

\* What choose_sequence_v1 or choose_sequence_v3 prefers at pos, then its token.
Unchosen == [Literal EXCEPT !.kind = "none"]
Choose(e, version, data) ==
  [e EXCEPT !.c = IF version = V1 THEN choose_sequence_v1(e.hist, data, e.pos)
                  ELSE choose_sequence_v3(e.hist, data, e.pos, e.last)]

TakeLiteral(e, data, cap) ==
  LET one == [e EXCEPT !.pos = @ + 1, !.lit = @ + 1, !.c = Unchosen,
                       !.hist = history_insert(@, data, e.pos)]
  IN IF one.lit = LITERAL_MAX THEN Flush(one, data, cap) ELSE one

TakeToken(e, version, data, cap) ==
  [Emit(e, Token(version, e.c, At(data, e.pos)), cap) EXCEPT
     !.pos = @ + e.c.len,
     !.last = IF e.c.kind \in {"short", "long"} THEN e.c.offset ELSE @,
     !.hist = InsertAll(@, data, e.pos, e.c.len),
     !.c = Unchosen]

EncodeStep(e, version, data, cap) ==
  CASE e.c.kind = "none" -> Choose(e, version, data)
    [] e.c.kind = "literal" -> TakeLiteral(e, data, cap)
    [] e.c.kind \notin {"none", "literal"} /\ e.lit > 0 -> Flush(e, data, cap)
    [] OTHER -> TakeToken(e, version, data, cap)

\* The header is written when the bytes after it are known.
RECURSIVE EncodeLoop(_, _, _, _, _, _)
EncodeLoop(e, version, transform, data, original, cap) ==
  IF e.rc # OK THEN Fail(e.rc)
  ELSE IF e.pos >= Len(data) /\ e.lit = 0
    THEN Good(Header(version, transform, original, Len(e.out)) \o e.out)
  ELSE EncodeLoop(IF e.pos >= Len(data) THEN Flush(e, data, cap)
                  ELSE EncodeStep(e, version, data, cap),
                  version, transform, data, original, cap)

EncodeStream(data, original, version, transform, prefix, cap) ==
  IF cap < HEADER_SIZE + Len(prefix) THEN Fail(ERR_OUTPUT)
  ELSE EncodeLoop([pos |-> 0, lit |-> 0, last |-> 0, hist |-> history_reset,
                   out |-> prefix, rc |-> OK, c |-> Unchosen],
                  version, transform, data, original, cap - HEADER_SIZE)

numloss_encode_v1(input, cap) == EncodeStream(input, Len(input), V1, RAW, <<>>, cap)

(***************************************************************************)
(* The transforms.                                                         *)
(***************************************************************************)

\* Mutant: the bytes after the last whole word are forgotten.
apply_group_words(input, width) ==
  LET words == Len(input) \div width
  IN [i \in 1..(words * width) |-> At(input, ((i - 1) % words) * width + ((i - 1) \div words))]

apply_group_transform(input, width) ==
  LET words == Len(input) \div width
  IN [i \in 1..(words * width) |->
        At(input, ((i - 1) % words) * width + ((i - 1) \div words))]
     \o From(input, words * width)

Before(input, i) == IF i = 1 THEN 0 ELSE input[i - 1]
apply_delta_transform(input) ==
  [i \in 1..Len(input) |-> (input[i] - Before(input, i)) % BYTE]
apply_xor_transform(input) ==
  [i \in 1..Len(input) |-> input[i] ^^ Before(input, i)]
apply_delta2_transform(input) ==
  LET delta == [i \in 1..Len(input) |-> (input[i] - Before(input, i)) % BYTE]
  IN [i \in 1..Len(input) |-> (delta[i] - Before(delta, i)) % BYTE]
apply_delta32le_transform(input) ==
  LET words == Len(input) \div 4
      delta(w) == (Word(input, 4 * w) - (IF w = 0 THEN 0 ELSE Word(input, 4 * (w - 1)))) % WORD
  IN FlattenSeq([w \in 1..words |-> WordBytes(delta(w - 1))]) \o From(input, 4 * words)

apply_transform(input, t) ==
  LET grouped == IF Width(t) = 1 THEN input ELSE apply_group_transform(input, Width(t))
  IN CASE t = DELTA8_DELTA8 -> apply_delta2_transform(input)
       [] t = DELTA32LE     -> apply_delta32le_transform(input)
       [] t \in WithDelta   -> apply_delta_transform(grouped)
       [] t \in WithXor     -> apply_xor_transform(grouped)
       [] OTHER             -> grouped

\* One entry, escaped byte or byte of apply_text_dictionary_transform: the
\* longest entry of the dictionary, and the first among those.
TextStep(x, input, dict) ==
  LET here == {i \in 1..Len(dict) :
                 /\ x.pos + Len(dict[i]) <= Len(input)
                 /\ Slice(input, x.pos, Len(dict[i])) = dict[i]}
      longest == Max({Len(dict[i]) : i \in here})
      best == Min({i \in here : Len(dict[i]) = longest})
      b == At(input, x.pos)
  IN CASE here # {} -> [pos |-> x.pos + longest, out |-> x.out \o <<TEXT_BASE + best - 1>>]
       [] here = {} /\ (b = TEXT_ESCAPE \/ b >= TEXT_BASE) ->
            [pos |-> x.pos + 1, out |-> x.out \o <<TEXT_ESCAPE, b>>]
       [] OTHER -> [pos |-> x.pos + 1, out |-> x.out \o <<b>>]

RECURSIVE TextLoop(_, _, _)
TextLoop(x, input, dict) ==
  LET y == TextStep(x, input, dict)
  IN CASE x.pos >= Len(input) -> Good(x.out)
       [] x.pos < Len(input) /\ Len(y.out) > Len(input) -> Fail(ERR_OUTPUT)
       [] OTHER -> TextLoop(y, input, dict)

apply_text_dictionary_transform(input, dict) ==
  IF ~looks_text_like(input) THEN Fail(ERR_FORMAT)
  ELSE TextLoop([pos |-> 0, out |-> <<>>], input, dict)

(***************************************************************************)
(* numloss_encode: version 1, then every transform, then both dictionaries; *)
(* a later archive wins only when it is smaller.                            *)
(***************************************************************************)

numloss_encode_v3(input, t, cap) ==
  EncodeStream(apply_transform(input, t), Len(input), V3, t, <<>>, cap)

numloss_encode_v4_text(input, t, cap) ==
  LET text == apply_text_dictionary_transform(input, TextDictionary(t))
  IN IF text.rc # OK THEN text
     ELSE EncodeStream(text.out, Len(input), V4, t, WordBytes(Len(text.out)), cap)

g_transform_candidates == <<0, 1, 2, 3, 4, 5, 6, 7, 8, 9, 10, 11, DELTA8_DELTA8, DELTA32LE>>

\* The archives numloss_encode tries, in its order.
Tries == Len(g_transform_candidates) + 3
Try(input, cap, i) ==
  CASE i = 1 -> numloss_encode_v1(input, cap)
    [] i \in 2..(Tries - 2) -> numloss_encode_v3(input, g_transform_candidates[i - 1], cap)
    [] i = Tries - 1 -> numloss_encode_v4_text(input, TEXT_PROSE, cap)
    [] i = Tries -> numloss_encode_v4_text(input, TEXT_CODE, cap)

FirstSmallest(tries) ==
  LET good == {i \in 1..Len(tries) : tries[i].rc = OK}
      least == Min({Len(tries[i].out) : i \in good})
  IN tries[Min({i \in good : Len(tries[i].out) = least})]

numloss_encode(input, cap) ==
  IF Len(input) > MAX_INPUT THEN Fail(ERR_INPUT)
  ELSE IF numloss_encode_v1(input, cap).rc # OK THEN Fail(ERR_OUTPUT)
  ELSE FirstSmallest([i \in 1..Tries |-> Try(input, cap, i)])

(***************************************************************************)
(* The decoder.  Its functions are the kernel's, statement for statement,  *)
(* except that a bare header may announce a payload that is not there yet. *)
(***************************************************************************)

Kernel == INSTANCE NumlossKernel

archive_version(input) == Kernel!archive_version(input)

numloss_read_header(input) ==
  IF Len(input) = HEADER_SIZE /\ archive_version(input) \in {V1, V3, V4}
    THEN [rc |-> OK, original |-> At(input, 3), payload |-> At(input, 4)]
    ELSE Kernel!numloss_read_header(input)

inverse_delta_in_place(data) == Kernel!inverse_delta_in_place(data)
inverse_delta2_in_place(data) == Kernel!inverse_delta2_in_place(data)
inverse_delta32le_in_place(data) == Kernel!inverse_delta32le_in_place(data)
inverse_group_in_place(data, width) == Kernel!inverse_group_in_place(data, width)
inverse_text_dictionary_transform(input, dict, cap) ==
  Kernel!inverse_text_dictionary_transform(input, dict, cap)
inverse_transform_in_place(data, t) == Kernel!inverse_transform_in_place(data, t)
numloss_decode_v1(input, cap) == Kernel!numloss_decode_v1(input, cap)
numloss_decode_match_stream(payload, cap) == Kernel!numloss_decode_match_stream(payload, cap)
numloss_decode_v3(input, cap) == Kernel!numloss_decode_v3(input, cap)
numloss_decode_v4(input, cap) == Kernel!numloss_decode_v4(input, cap)
numloss_decode(input, cap) == Kernel!numloss_decode(input, cap)
=============================================================================
