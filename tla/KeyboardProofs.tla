--------------------------- MODULE KeyboardProofs ---------------------------
(***************************************************************************)
(* No input is lost or made up, for a ring of any size and any keys and    *)
(* readers, except in the two combinations that the code does not handle.  *)
(***************************************************************************)
EXTENDS Keyboard, NaturalFacts, SequenceTheorems

(* What the driver relies on: a program that waits in                      *)
(* keyboard_getchar_buffered is not used with the keys whose release drops *)
(* characters, and the buffer is not flushed between the two bytes of an   *)
(* extended key.                                                           *)
SessionsSafe == \A x \in SESSIONS :
  /\ ~ ("getchar" \in x.readers /\ "space" \in x.keys)
  /\ ~ ("flush" \in x.readers /\ "up" \in x.keys)

(* The bytes on a wire w, for a driver that is or is not in the middle of  *)
(* an extended key: an arrow key's code comes right behind its prefix, and *)
(* nothing else does.                                                      *)
WireOK(w, ext, keys) ==
  /\ \A i \in 1..Len(w) : w[i].code \in keys \cup {"E0"}
  /\ \A i \in 1..Len(w) : w[i].code = "E0" => i < Len(w) /\ w[i + 1].code = "up"
  /\ \A i \in 2..Len(w) : w[i].code = "up" => w[i - 1].code = "E0"
  /\ Len(w) > 0 => (ext <=> w[1].code = "up")
  /\ ext => Len(w) > 0

(* The last byte of a key on the wire says whether it is among the keys    *)
(* down; without one, the driver's flag does.                              *)
NoneFrom(w, key, n) == \A i \in n..Len(w) : w[i].code # key
Follows(w, key, flag, down) ==
  /\ NoneFrom(w, key, 1) => (flag <=> key \in down)
  /\ \A i \in 1..Len(w) : w[i].code = key /\ NoneFrom(w, key, i + 1)
                            => (w[i].release <=> key \notin down)

(* keyboard_getchar_buffered has seen a character, which stays the oldest. *)
ReaderOK ==
  /\ pc \in {"idle", "test", "hlt", "read", "advance"} /\ c \in Chars /\ iflag \in BOOLEAN
  /\ pc # "idle" => "getchar" \in session.readers
  /\ pc \in {"read", "advance"} => head # tail
  /\ pc = "advance" => c = buffer[tail]

(* The ring holds what a queue would.                                      *)
RingOK ==
  /\ buffer \in [Cells -> Chars] /\ head \in Cells /\ tail \in Cells
  /\ expected \in Seq(Chars) /\ Len(expected) < KEYBOARD_BUFFER_SIZE
  /\ Contents = expected

(* The driver's view of the keys and what is on the wire make up the keys  *)
(* held down.                                                              *)
KeysOK ==
  /\ extended \in BOOLEAN /\ upPressed \in BOOLEAN /\ shift \in BOOLEAN
  /\ session \in SESSIONS /\ held \subseteq session.keys
  /\ wire \in Seq(Byte) /\ Len(wire) <= WIRE
  /\ WireOK(wire, extended, session.keys)
  /\ Follows(wire, "up", upPressed, held) /\ Follows(wire, "shift", shift, held)

(* What every step of handler, readers and keyboard keeps.                 *)
KeyboardInv == RingOK /\ KeysOK /\ ReaderOK

-----------------------------------------------------------------------------
(* The ring.                                                               *)

(* How many characters wait between two places of the ring.                *)
Count(h, t) == IF h >= t THEN h - t ELSE h + KEYBOARD_BUFFER_SIZE - t

(* The cell i places behind t.                                             *)
Cell(t, i) == IF t + i < KEYBOARD_BUFFER_SIZE THEN t + i ELSE t + i - KEYBOARD_BUFFER_SIZE

(* What the remainders of keyboard.c come to, without remainders.          *)
LEMMA RingPlaces ==
  ASSUME NEW h \in Cells, NEW t \in Cells
  PROVE  /\ (h + KEYBOARD_BUFFER_SIZE - t) % KEYBOARD_BUFFER_SIZE = Count(h, t)
         /\ Count(h, t) \in Cells
         /\ \A i \in Cells : (t + i) % KEYBOARD_BUFFER_SIZE = Cell(t, i) /\ Cell(t, i) \in Cells
         /\ \A k \in Cells : Succ(k) = Cell(k, 1) /\ Succ(k) \in Cells
<1>1. /\ h \in Nat /\ t \in Nat /\ h < KEYBOARD_BUFFER_SIZE /\ t < KEYBOARD_BUFFER_SIZE
      /\ KEYBOARD_BUFFER_SIZE \in Nat /\ KEYBOARD_BUFFER_SIZE >= 2
      /\ \A i \in Cells : i \in Nat /\ i < KEYBOARD_BUFFER_SIZE
  BY BufferAssumption DEF Cells
<1>0. KEYBOARD_BUFFER_SIZE \in Nat \ {0}
  BY <1>1
<1>2. (h + KEYBOARD_BUFFER_SIZE - t) % KEYBOARD_BUFFER_SIZE = Count(h, t)
  <2> DEFINE x == h + KEYBOARD_BUFFER_SIZE - t
  <2>1. x \in Nat /\ x < 2 * KEYBOARD_BUFFER_SIZE
    BY <1>1
  <2>2. x % KEYBOARD_BUFFER_SIZE = IF x < KEYBOARD_BUFFER_SIZE THEN x ELSE x - KEYBOARD_BUFFER_SIZE
    <3> HIDE DEF x
    <3> QED  BY <1>0, <2>1, ModuloOnce, Zenon
  <2> QED  BY <1>1, <2>2 DEF Count
<1>3. ASSUME NEW i \in Cells
      PROVE  (t + i) % KEYBOARD_BUFFER_SIZE = Cell(t, i) /\ Cell(t, i) \in Cells
  <2>1. t + i \in Nat /\ t + i < 2 * KEYBOARD_BUFFER_SIZE
    BY <1>1
  <2>2. (t + i) % KEYBOARD_BUFFER_SIZE = Cell(t, i)
    <3> DEFINE x == t + i
    <3>1. x \in Nat /\ x < 2 * KEYBOARD_BUFFER_SIZE
      BY <2>1
    <3> HIDE DEF x
    <3>2. x % KEYBOARD_BUFFER_SIZE = IF x < KEYBOARD_BUFFER_SIZE THEN x ELSE x - KEYBOARD_BUFFER_SIZE
      BY <1>0, <3>1, ModuloOnce, Zenon
    <3> QED  BY <1>1, <3>2 DEF Cell, x
  <2>3. Cell(t, i) \in Cells
    BY <1>1, <2>1 DEF Cell, Cells
  <2> QED  BY <2>2, <2>3
<1>5. Count(h, t) \in Cells
  BY <1>1 DEF Count, Cells
<1>6. ASSUME NEW k \in Cells PROVE Succ(k) = Cell(k, 1) /\ Succ(k) \in Cells
  <2> DEFINE x == k + 1
  <2>1. x \in Nat /\ x < 2 * KEYBOARD_BUFFER_SIZE
    BY <1>1
  <2>2. x % KEYBOARD_BUFFER_SIZE = IF x < KEYBOARD_BUFFER_SIZE THEN x ELSE x - KEYBOARD_BUFFER_SIZE
    <3> HIDE DEF x
    <3> QED  BY <1>0, <2>1, ModuloOnce, Zenon
  <2>3. Succ(k) = Cell(k, 1)
    BY <1>1, <2>2 DEF Cell, Succ
  <2> QED  BY <1>1, <2>1, <2>3 DEF Cell, Cells
<1> QED  BY <1>2, <1>3, <1>5, <1>6

-----------------------------------------------------------------------------
(* The loop of buffer_drop_char.                                           *)

(* It keeps a sequence of the same elements, and no more of them.          *)
LEMMA KeptType ==
  ASSUME NEW S, NEW s \in Seq(S), NEW target
  PROVE  Kept(s, target) \in Seq(S) /\ Len(Kept(s, target)) <= Len(s)
<1> DEFINE Step(f, n) == IF n = 0 THEN <<>>
                         ELSE IF s[n] = target THEN f[n - 1] ELSE Append(f[n - 1], s[n])
           Loop(f, m) == f = [n \in 0..m |-> Step(f, n)]
           N == Len(s)
           M == {m \in Nat : \E f : Loop(f, m)}
           k == CHOOSE f : Loop(f, N)
<1>1. N \in Nat /\ \A n \in 1..N : s[n] \in S
  BY LenProperties, ElementOfSeq
<1>2. 0 \in M
  <2> DEFINE f == [n \in 0..0 |-> <<>>]
  <2>1. f = [n \in 0..0 |-> Step(f, n)]
    OBVIOUS
  <2> QED  BY <2>1, Zenon
<1>3. ASSUME NEW m \in Nat, m \in M  PROVE m + 1 \in M
  <2>1. PICK f : f = [n \in 0..m |-> Step(f, n)]
    BY <1>3, Zenon
  <2> DEFINE g == [n \in 0..(m + 1) |-> IF n <= m THEN f[n] ELSE Step(f, n)]
  <2>2. ASSUME NEW n \in 0..(m + 1)  PROVE g[n] = Step(g, n)
    <3>1. n = 0 \/ (n - 1 \in 0..m /\ g[n - 1] = f[n - 1])
      OBVIOUS
    <3>2. Step(g, n) = Step(f, n)
      BY <3>1
    <3>3. n <= m => f[n] = Step(f, n)
      <4>1. n <= m => n \in 0..m
        OBVIOUS
      <4> HIDE DEF Step
      <4> QED  BY <2>1, <4>1
    <3>4. g[n] = IF n <= m THEN f[n] ELSE Step(f, n)
      OBVIOUS
    <3> HIDE DEF g, Step
    <3> QED  BY <3>2, <3>3, <3>4
  <2>3. g = [n \in 0..(m + 1) |-> Step(g, n)]
    <3>1. g = [n \in 0..(m + 1) |-> g[n]]
      OBVIOUS
    <3> HIDE DEF g, Step
    <3> QED  BY <2>2, <3>1
  <2> HIDE DEF g, Step
  <2> QED  BY <2>3
<1>4. \E f : Loop(f, N)
  <2> HIDE DEF Loop
  <2>1. \A n \in Nat : n \in M
    <3> HIDE DEF M
    <3> QED  BY <1>2, <1>3, SetInduction
  <2> QED  BY <1>1, <2>1
<1>5. k = [n \in 0..N |-> Step(k, n)]
  <2>1. Loop(k, N)
    <3> HIDE DEF Loop
    <3> QED  BY <1>4
  <2> HIDE DEF k
  <2> QED  BY <2>1, Zenon
<1>6. Kept(s, target) = k[N]
  BY DEF Kept
<1> HIDE DEF k
<1> DEFINE I == {n \in Nat : n <= N => k[n] \in Seq(S) /\ Len(k[n]) <= n}
<1>7. 0 \in I
  <2>1. k[0] = <<>>
    BY <1>1, <1>5
  <2>2. <<>> \in Seq(S) /\ Len(<<>>) <= 0
    BY EmptySeq
  <2> QED  BY <2>1, <2>2, Zenon
<1>8. ASSUME NEW n \in Nat, n \in I  PROVE n + 1 \in I
  <2> SUFFICES ASSUME n + 1 <= N  PROVE k[n + 1] \in Seq(S) /\ Len(k[n + 1]) <= n + 1
    OBVIOUS
  <2>1. k[n] \in Seq(S) /\ Len(k[n]) <= n /\ n + 1 \in 0..N /\ n + 1 \in 1..N /\ n + 1 # 0
    BY <1>1, <1>8
  <2>2. k[n + 1] = IF s[n + 1] = target THEN k[n] ELSE Append(k[n], s[n + 1])
    <3>1. k[n + 1] = Step(k, n + 1)
      BY <1>5, <2>1, Zenon
    <3>2. (n + 1) - 1 = n
      OBVIOUS
    <3> QED  BY <2>1, <3>1, <3>2
  <2>3. s[n + 1] \in S
    BY <1>1, <2>1
  <2>4. Append(k[n], s[n + 1]) \in Seq(S) /\ Len(Append(k[n], s[n + 1])) = Len(k[n]) + 1
    BY <2>1, <2>3, AppendProperties
  <2>5. Len(k[n]) \in Nat
    BY <2>1, LenProperties
  <2> QED  BY <2>1, <2>2, <2>4, <2>5
<1>9. N \in I
  <2> HIDE DEF I
  <2> QED  BY <1>1, <1>7, <1>8, SetInduction
<1> QED  BY <1>1, <1>6, <1>9

-----------------------------------------------------------------------------
(* The ring as a queue.                                                    *)
RingOf(b, h, t) ==
  [i \in 1..((h + KEYBOARD_BUFFER_SIZE - t) % KEYBOARD_BUFFER_SIZE) |->
     b[(t + i - 1) % KEYBOARD_BUFFER_SIZE]]

(* The ring holds, from its tail on, the characters of the sequence.       *)
LEMMA RingHolds ==
  ASSUME NEW b \in [Cells -> Chars], NEW h \in Cells, NEW t \in Cells
  PROVE  /\ RingOf(b, h, t) \in Seq(Chars) /\ Len(RingOf(b, h, t)) = Count(h, t)
         /\ \A i \in 1..Count(h, t) : RingOf(b, h, t)[i] = b[Cell(t, i - 1)]
         /\ \A s \in Seq(Chars) :
              Len(s) = Count(h, t) /\ (\A i \in 1..Len(s) : b[Cell(t, i - 1)] = s[i])
                => RingOf(b, h, t) = s
<1> DEFINE n == Count(h, t)
           r == RingOf(b, h, t)
<1>1. /\ n \in Cells /\ n \in Nat /\ n < KEYBOARD_BUFFER_SIZE /\ t \in Nat
      /\ (h + KEYBOARD_BUFFER_SIZE - t) % KEYBOARD_BUFFER_SIZE = n
      /\ \A i \in Cells : (t + i) % KEYBOARD_BUFFER_SIZE = Cell(t, i) /\ Cell(t, i) \in Cells
  <2>1. n \in Cells
    BY RingPlaces
  <2> HIDE DEF n
  <2>2. n \in Nat /\ n < KEYBOARD_BUFFER_SIZE /\ t \in Nat
    BY <2>1, BufferAssumption DEF Cells
  <2> QED  BY <2>1, <2>2, RingPlaces DEF n
<1> HIDE DEF n
<1>2. ASSUME NEW i \in 1..n
      PROVE  (t + i - 1) % KEYBOARD_BUFFER_SIZE = Cell(t, i - 1) /\ b[Cell(t, i - 1)] \in Chars
  <2>1. i - 1 \in Cells /\ t + i - 1 = t + (i - 1)
    BY <1>1, BufferAssumption DEF Cells
  <2> QED  BY <1>1, <2>1, Zenon
<1>3. r = [i \in 1..n |-> b[(t + i - 1) % KEYBOARD_BUFFER_SIZE]]
  BY <1>1 DEF RingOf
<1> HIDE DEF r
<1>4. r \in [1..n -> Chars] /\ \A i \in 1..n : r[i] = b[Cell(t, i - 1)]
  BY <1>2, <1>3
<1>5. r \in Seq(Chars) /\ Len(r) = n
  BY <1>1, <1>4
<1>6. ASSUME NEW s \in Seq(Chars), Len(s) = n, \A i \in 1..Len(s) : b[Cell(t, i - 1)] = s[i]
      PROVE  r = s
  <2>1. \A i \in 1..Len(r) : r[i] = s[i]
    BY <1>4, <1>5, <1>6
  <2> QED  BY <1>5, <1>6, <2>1, SeqEqual
<1> QED  BY <1>4, <1>5, <1>6 DEF r, n

(* What ring and queue that agree are like.                                *)
LEMMA RingFacts ==
  ASSUME RingOK
  PROVE  /\ head \in Nat /\ head < KEYBOARD_BUFFER_SIZE /\ tail \in Nat /\ tail < KEYBOARD_BUFFER_SIZE
         /\ KEYBOARD_BUFFER_SIZE \in Nat /\ KEYBOARD_BUFFER_SIZE >= 2
         /\ Len(expected) = Count(head, tail) /\ Len(expected) \in Nat
         /\ \A i \in 1..Len(expected) : expected[i] = buffer[Cell(tail, i - 1)] /\ expected[i] \in Chars
         /\ Contents' = RingOf(buffer', head', tail')
<1>1. expected = RingOf(buffer, head, tail)
  BY DEF RingOK, RingOf, Contents
<1>2. buffer \in [Cells -> Chars] /\ head \in Cells /\ tail \in Cells /\ expected \in Seq(Chars)
  BY DEF RingOK
<1>3. /\ Len(expected) = Count(head, tail)
      /\ \A i \in 1..Count(head, tail) : expected[i] = buffer[Cell(tail, i - 1)]
  BY <1>1, <1>2, RingHolds
<1>4. Contents' = RingOf(buffer', head', tail')
  BY DEF RingOf, Contents
<1>5. Len(expected) \in Nat /\ \A i \in 1..Len(expected) : expected[i] \in Chars
  BY <1>2, LenProperties, ElementOfSeq
<1>6. /\ head \in Nat /\ head < KEYBOARD_BUFFER_SIZE /\ tail \in Nat /\ tail < KEYBOARD_BUFFER_SIZE
      /\ KEYBOARD_BUFFER_SIZE \in Nat /\ KEYBOARD_BUFFER_SIZE >= 2
  BY <1>2, BufferAssumption DEF Cells
<1> QED  BY <1>3, <1>4, <1>5, <1>6

(* buffer_push appends, unless the ring is full; it leaves the oldest      *)
(* character alone.                                                        *)
LEMMA PushLemma ==
  ASSUME RingOK, NEW ch \in Chars, buffer_push(ch)
  PROVE  /\ RingOK' /\ tail' = tail
         /\ head # tail => head' # tail /\ buffer'[tail] = buffer[tail]
<1> DEFINE n == Len(expected)
<1>1. /\ head \in Nat /\ head < KEYBOARD_BUFFER_SIZE /\ tail \in Nat /\ tail < KEYBOARD_BUFFER_SIZE
      /\ KEYBOARD_BUFFER_SIZE \in Nat /\ KEYBOARD_BUFFER_SIZE >= 2
      /\ n = Count(head, tail) /\ n \in Nat
      /\ \A i \in 1..n : expected[i] = buffer[Cell(tail, i - 1)] /\ expected[i] \in Chars
  BY RingFacts
<1>2. /\ buffer \in [Cells -> Chars] /\ head \in Cells /\ tail \in Cells
      /\ expected \in Seq(Chars) /\ n < KEYBOARD_BUFFER_SIZE
  BY DEF RingOK
<1>3. Succ(head) = Cell(head, 1) /\ Succ(head) \in Cells
  BY <1>2, RingPlaces
<1>4. Full <=> n = KEYBOARD_BUFFER_SIZE - 1
  BY <1>1, <1>3 DEF Full, Cell, Count
<1>5. CASE Full
  <2>1. UNCHANGED <<buffer, head, tail, expected>>
    BY <1>1, <1>4, <1>5 DEF buffer_push, ring
  <2> QED  BY <1>2, <2>1 DEF RingOK, Contents
<1>6. CASE ~ Full
  <2>1. /\ buffer' = [buffer EXCEPT ![head] = ch] /\ head' = Succ(head) /\ tail' = tail
        /\ expected' = Append(expected, ch)
    BY <1>1, <1>2, <1>4, <1>6 DEF buffer_push
  <2>2. /\ expected' \in Seq(Chars) /\ Len(expected') = n + 1
        /\ \A i \in 1..n : expected'[i] = expected[i]
        /\ expected'[n + 1] = ch
    BY <1>2, <2>1, AppendProperties
  <2>3. /\ buffer' \in [Cells -> Chars] /\ head' \in Cells /\ tail' \in Cells
    BY <1>2, <1>3, <2>1
  <2>4. Count(head', tail') = n + 1 /\ n + 1 < KEYBOARD_BUFFER_SIZE
    BY <1>1, <1>2, <1>3, <1>4, <1>6, <2>1 DEF Cell, Count
  <2>5. ASSUME NEW i \in 1..(n + 1)  PROVE buffer'[Cell(tail', i - 1)] = expected'[i]
    <3>1. CASE i = n + 1
      <4>1. Cell(tail, i - 1) = head
        BY <1>1, <3>1 DEF Cell, Count
      <4> QED  BY <1>2, <2>1, <2>2, <3>1, <4>1
    <3>2. CASE i \in 1..n
      <4>1. Cell(tail, i - 1) # head /\ Cell(tail, i - 1) \in Cells
        BY <1>1, <1>2, <3>2 DEF Cell, Count, Cells
      <4>2. expected[i] = buffer[Cell(tail, i - 1)]
        BY <1>1, <3>2
      <4> QED  BY <1>2, <2>1, <2>2, <3>2, <4>1, <4>2
    <3> QED  BY <1>1, <3>1, <3>2
  <2>6. RingOf(buffer', head', tail') = expected'
    <3>1. \A i \in 1..Len(expected') : buffer'[Cell(tail', i - 1)] = expected'[i]
      BY <2>2, <2>5
    <3>2. Len(expected') = Count(head', tail')
      BY <2>2, <2>4
    <3> QED  BY <2>2, <2>3, <3>1, <3>2, RingHolds, Zenon
  <2>7. Contents' = RingOf(buffer', head', tail')
    BY RingFacts
  <2>8. RingOK'
    BY <2>2, <2>3, <2>4, <2>6, <2>7 DEF RingOK
  <2>9. head # tail => head' # tail /\ buffer'[tail] = buffer[tail]
    BY <1>2, <1>6, <2>1 DEF Full
  <2> QED  BY <2>1, <2>8, <2>9
<1> QED  BY <1>5, <1>6

(* Taking the character at the tail takes the oldest one.                  *)
LEMMA PopLemma ==
  ASSUME RingOK, head # tail, tail' = Succ(tail), expected' = Popped, UNCHANGED <<buffer, head>>
  PROVE  RingOK'
<1> DEFINE n == Len(expected)
<1>1. /\ head \in Nat /\ head < KEYBOARD_BUFFER_SIZE /\ tail \in Nat /\ tail < KEYBOARD_BUFFER_SIZE
      /\ KEYBOARD_BUFFER_SIZE \in Nat /\ KEYBOARD_BUFFER_SIZE >= 2
      /\ n = Count(head, tail) /\ n \in Nat
      /\ \A i \in 1..n : expected[i] = buffer[Cell(tail, i - 1)]
  BY RingFacts
<1>2. /\ buffer \in [Cells -> Chars] /\ head \in Cells /\ tail \in Cells
      /\ expected \in Seq(Chars) /\ n < KEYBOARD_BUFFER_SIZE
  BY DEF RingOK
<1>3. tail' = Cell(tail, 1) /\ tail' \in Cells
  BY <1>2, RingPlaces, Zenon
<1>4. n > 0 /\ Count(head', tail') = n - 1
  BY <1>1, <1>3 DEF Cell, Count
<1>5. expected # <<>>
  BY <1>4
<1>6. /\ expected' \in Seq(Chars) /\ Len(expected') = n - 1
      /\ \A i \in 1..(n - 1) : expected'[i] = expected[i + 1]
  <2>1. expected' = Tail(expected)
    BY <1>5 DEF Popped
  <2> QED  BY <1>2, <1>5, <2>1, HeadTailProperties
<1>7. ASSUME NEW i \in 1..(n - 1)  PROVE buffer'[Cell(tail', i - 1)] = expected'[i]
  <2>1. i + 1 \in 1..n /\ (i + 1) - 1 = i
    BY <1>1
  <2>2. Cell(tail', i - 1) = Cell(tail, i)
    BY <1>1, <1>3 DEF Cell, Count
  <2>3. expected[i + 1] = buffer[Cell(tail, i)]
    BY <1>1, <2>1
  <2> QED  BY <1>6, <2>2, <2>3
<1>8. RingOf(buffer', head', tail') = expected'
  <2>1. \A i \in 1..Len(expected') : buffer'[Cell(tail', i - 1)] = expected'[i]
    BY <1>6, <1>7
  <2>2. Len(expected') = Count(head', tail')
    BY <1>4, <1>6
  <2>3. buffer' \in [Cells -> Chars] /\ head' \in Cells
    BY <1>2
  <2>4. \A s \in Seq(Chars) :
          Len(s) = Count(head', tail') /\ (\A i \in 1..Len(s) : buffer'[Cell(tail', i - 1)] = s[i])
            => RingOf(buffer', head', tail') = s
    BY <1>3, <2>3, RingHolds, Zenon
  <2> QED  BY <1>6, <2>1, <2>2, <2>4
<1>9. Contents' = RingOf(buffer', head', tail')
  BY RingFacts
<1> QED  BY <1>1, <1>2, <1>3, <1>6, <1>8, <1>9 DEF RingOK

(* A flush leaves nothing.                                                 *)
LEMMA FlushLemma ==
  ASSUME RingOK, tail' = head, expected' = <<>>, UNCHANGED <<buffer, head>>
  PROVE  RingOK'
<1>1. head \in Nat /\ KEYBOARD_BUFFER_SIZE \in Nat /\ KEYBOARD_BUFFER_SIZE >= 2
  BY RingFacts
<1>2. buffer \in [Cells -> Chars] /\ head \in Cells
  BY DEF RingOK
<1>3. Count(head, head) = 0
  BY <1>1 DEF Count
<1>4. <<>> \in Seq(Chars) /\ Len(<<>>) = 0
  BY EmptySeq
<1>5. RingOf(buffer, head, head) = <<>>
  <2>1. RingOf(buffer, head, head) \in Seq(Chars) /\ Len(RingOf(buffer, head, head)) = 0
    BY <1>2, <1>3, RingHolds
  <2> QED  BY <2>1, EmptySeq
<1>6. Contents' = RingOf(buffer', head', tail')
  BY RingFacts
<1> QED  BY <1>1, <1>2, <1>4, <1>5, <1>6 DEF RingOK

(* buffer_drop_char keeps the others in order.                             *)
LEMMA DropLemma ==
  ASSUME RingOK, NEW target, buffer_drop_char(target)
  PROVE  RingOK'
<1> DEFINE kept == Kept(expected, target)
           n == Len(kept)
<1>1. /\ tail \in Nat /\ tail < KEYBOARD_BUFFER_SIZE
      /\ KEYBOARD_BUFFER_SIZE \in Nat /\ KEYBOARD_BUFFER_SIZE >= 2 /\ Len(expected) \in Nat
  BY RingFacts
<1>2. /\ buffer \in [Cells -> Chars] /\ tail \in Cells
      /\ expected \in Seq(Chars) /\ Len(expected) < KEYBOARD_BUFFER_SIZE /\ Contents = expected
  BY DEF RingOK
<1>3. kept \in Seq(Chars) /\ n <= Len(expected)
  BY <1>2, KeptType
<1>4. /\ buffer' = Compacted(kept) /\ head' = (tail + n) % KEYBOARD_BUFFER_SIZE /\ tail' = tail
      /\ expected' = kept
  BY <1>2 DEF buffer_drop_char
<1> HIDE DEF kept
<1>5. n \in Nat /\ n < KEYBOARD_BUFFER_SIZE /\ n \in Cells /\ \A i \in 1..n : kept[i] \in Chars
  <2>1. n \in Nat /\ \A i \in 1..n : kept[i] \in Chars
    BY <1>3, LenProperties, ElementOfSeq
  <2> HIDE DEF n
  <2> QED  BY <1>1, <1>2, <1>3, <2>1 DEF Cells
<1>6. head' = Cell(tail, n) /\ head' \in Cells
  <2> HIDE DEF n
  <2> QED  BY <1>2, <1>4, <1>5, RingPlaces
<1>7. Count(head', tail') = n
  <2> HIDE DEF n
  <2> QED  BY <1>1, <1>4, <1>5, <1>6 DEF Cell, Count
<1>8. ASSUME NEW i \in Cells
      PROVE  buffer'[i] = IF Count(i, tail) < n THEN kept[Count(i, tail) + 1] ELSE buffer[i]
  <2>1. (i + KEYBOARD_BUFFER_SIZE - tail) % KEYBOARD_BUFFER_SIZE = Count(i, tail)
    BY <1>2, RingPlaces
  <2> QED  BY <1>4, <2>1 DEF Compacted
<1>9. ASSUME NEW i \in Cells
      PROVE  Count(i, tail) \in Nat
  BY <1>1 DEF Count, Cells
<1>10. buffer' \in [Cells -> Chars]
  <2>1. ASSUME NEW i \in Cells  PROVE buffer'[i] \in Chars
    <3>1. Count(i, tail) < n => Count(i, tail) + 1 \in 1..n
      <4> HIDE DEF n
      <4> QED  BY <1>5, <1>9
    <3>2. buffer[i] \in Chars
      BY <1>2
    <3> HIDE DEF n
    <3> QED  BY <1>5, <1>8, <3>1, <3>2, Zenon
  <2>2. buffer' = [i \in Cells |-> buffer'[i]]
    BY <1>4 DEF Compacted
  <2> QED  BY <2>1, <2>2
<1>11. ASSUME NEW i \in 1..n  PROVE buffer'[Cell(tail', i - 1)] = kept[i]
  <2>1. Cell(tail, i - 1) \in Cells /\ Count(Cell(tail, i - 1), tail) = i - 1
    <3> HIDE DEF n
    <3> QED  BY <1>1, <1>5 DEF Cell, Count, Cells
  <2>2. (i - 1) + 1 = i /\ i - 1 < n
    <3> HIDE DEF n
    <3> QED  BY <1>5
  <2> QED  BY <1>4, <1>8, <2>1, <2>2
<1>12. RingOf(buffer', head', tail') = kept
  <2>1. tail' \in Cells
    BY <1>2, <1>4
  <2> QED  BY <1>3, <1>6, <1>7, <1>10, <1>11, <2>1, RingHolds, Zenon
<1>13. Contents' = RingOf(buffer', head', tail')
  BY RingFacts
<1> QED  BY <1>2, <1>3, <1>4, <1>5, <1>6, <1>10, <1>12, <1>13 DEF RingOK

-----------------------------------------------------------------------------
(* The wire.                                                               *)

(* What the handler takes is the first byte; the others move up.           *)
LEMMA TakenByte ==
  ASSUME TypeOK, NEW b, Received(b)
  PROVE  /\ Len(wire) \in Nat /\ Len(wire) > 0 /\ wire[1] = b /\ b \in Byte
         /\ wire' \in Seq(Byte) /\ Len(wire') = Len(wire) - 1 /\ Len(wire') <= WIRE
         /\ \A i \in 1..Len(wire') : wire'[i] = wire[i + 1] /\ i + 1 \in 1..Len(wire)
<1>1. /\ wire \in Seq(Byte) /\ Len(wire) <= WIRE /\ wire # <<>> /\ b = Head(wire)
      /\ wire' = Tail(wire)
  BY DEF TypeOK, Received
<1>2. Len(wire) \in Nat \ {0} /\ wire[1] = b
  BY <1>1, EmptySeq
<1>3. b \in Byte
  BY <1>1, <1>2, ElementOfSeq
<1>4. /\ wire' \in Seq(Byte) /\ Len(wire') = Len(wire) - 1
      /\ \A i \in 1..Len(wire') : wire'[i] = wire[i + 1]
  BY <1>1, HeadTailProperties
<1> QED  BY <1>1, <1>2, <1>3, <1>4, WireAssumption

(* The rest of the wire is as it should be for the state the byte leads to.*)
LEMMA TakenForm ==
  ASSUME TypeOK, NEW b, Received(b), NEW e \in BOOLEAN, NEW keys,
         WireOK(wire, extended, keys), e <=> b.code = "E0"
  PROVE  WireOK(wire', e, keys)
<1> DEFINE n == Len(wire)
           m == Len(wire')
<1>1. /\ n \in Nat /\ n > 0 /\ wire[1] = b /\ m = n - 1
      /\ \A i \in 1..m : wire'[i] = wire[i + 1] /\ i + 1 \in 1..n
  BY TakenByte
<1>2. /\ \A i \in 1..n : wire[i].code \in keys \cup {"E0"}
      /\ \A i \in 1..n : wire[i].code = "E0" => i < n /\ wire[i + 1].code = "up"
      /\ \A i \in 2..n : wire[i].code = "up" => wire[i - 1].code = "E0"
  BY DEF WireOK
<1> HIDE DEF n, m
<1>3. \A i \in 1..m : wire'[i].code \in keys \cup {"E0"}
  BY <1>1, <1>2
<1>4. ASSUME NEW i \in 1..m, wire'[i].code = "E0"  PROVE i < m /\ wire'[i + 1].code = "up"
  <2>1. i + 1 < n /\ wire[(i + 1) + 1].code = "up"
    BY <1>1, <1>2, <1>4
  <2>2. i + 1 \in 1..m
    BY <1>1, <2>1
  <2> QED  BY <1>1, <2>1, <2>2
<1>5. ASSUME NEW i \in 2..m, wire'[i].code = "up"  PROVE wire'[i - 1].code = "E0"
  <2>1. i \in 1..m /\ i - 1 \in 1..m /\ i + 1 \in 2..n /\ (i + 1) - 1 = i /\ (i - 1) + 1 = i
    BY <1>1
  <2>2. wire[i].code = "E0"
    BY <1>1, <1>2, <1>5, <2>1
  <2> QED  BY <1>1, <2>1, <2>2
<1>6. m > 0 => (e <=> wire'[1].code = "up")
  <2>1. ASSUME m > 0  PROVE wire[2].code = "up" <=> wire[1].code = "E0"
    <3>1. 1 \in 1..n /\ 2 \in 2..n /\ 1 + 1 = 2 /\ 2 - 1 = 1
      BY <1>1, <2>1
    <3> QED  BY <1>2, <3>1
  <2>2. m > 0 => wire'[1] = wire[2]
    BY <1>1
  <2> QED  BY <1>1, <2>1, <2>2
<1>7. e => m > 0
  <2>1. e => 1 < n
    BY <1>1, <1>2
  <2> QED  BY <1>1, <2>1
<1> QED  BY <1>3, <1>4, <1>5, <1>6, <1>7 DEF WireOK, m

(* The flag of a key after a byte of that key, or of another one.          *)
LEMMA TakenFollows ==
  ASSUME TypeOK, NEW b, Received(b), NEW key, NEW f \in BOOLEAN, NEW g \in BOOLEAN,
         Follows(wire, key, f, held), g <=> IF b.code = key THEN ~ b.release ELSE f
  PROVE  Follows(wire', key, g, held)
<1> DEFINE n == Len(wire)
           m == Len(wire')
<1>1. /\ n \in Nat /\ n > 0 /\ wire[1] = b /\ b \in Byte /\ m = n - 1
      /\ \A i \in 1..m : wire'[i] = wire[i + 1] /\ i + 1 \in 1..n
  BY TakenByte
<1>2. b.release \in BOOLEAN
  BY <1>1 DEF Byte
<1>3. /\ (\A i \in 1..n : wire[i].code # key) => (f <=> key \in held)
      /\ \A i \in 1..n : wire[i].code = key /\ (\A j \in (i + 1)..n : wire[j].code # key)
                            => (wire[i].release <=> key \notin held)
  BY DEF Follows, NoneFrom
<1> HIDE DEF n, m
<1>4. ASSUME NEW k \in 1..(m + 1), \A i \in k..m : wire'[i].code # key
      PROVE  \A j \in (k + 1)..n : wire[j].code # key
  <2> SUFFICES ASSUME NEW j \in (k + 1)..n  PROVE wire[j].code # key
    OBVIOUS
  <2>1. j - 1 \in k..m /\ j - 1 \in 1..m /\ (j - 1) + 1 = j
    BY <1>1
  <2> QED  BY <1>1, <1>4, <2>1
<1>5. ASSUME \A i \in 1..m : wire'[i].code # key  PROVE g <=> key \in held
  <2>1. \A j \in 2..n : wire[j].code # key
    <3>1. 1 \in 1..(m + 1) /\ 1 + 1 = 2
      BY <1>1
    <3> QED  BY <1>4, <1>5, <3>1
  <2>2. CASE b.code = key
    <3>1. 1 \in 1..n /\ 1 + 1 = 2
      BY <1>1
    <3>2. b.release <=> key \notin held
      BY <1>1, <1>3, <2>1, <2>2, <3>1
    <3> QED  BY <1>2, <2>2, <3>2
  <2>3. CASE b.code # key
    <3>1. \A i \in 1..n : wire[i].code # key
      BY <1>1, <2>1, <2>3
    <3> QED  BY <1>3, <2>3, <3>1
  <2> QED  BY <2>2, <2>3
<1>6. ASSUME NEW i \in 1..m, wire'[i].code = key, \A j \in (i + 1)..m : wire'[j].code # key
      PROVE  wire'[i].release <=> key \notin held
  <2>1. i + 1 \in 1..(m + 1) /\ i + 1 \in 1..n
    BY <1>1
  <2>2. \A j \in ((i + 1) + 1)..n : wire[j].code # key
    BY <1>4, <1>6, <2>1
  <2> QED  BY <1>1, <1>3, <1>6, <2>1, <2>2
<1> QED  BY <1>5, <1>6 DEF Follows, NoneFrom, m

(* A key sends its code last, and an arrow key the prefix before it.       *)
LEMMA SentBytes ==
  ASSUME NEW key \in Keys, NEW release \in BOOLEAN
  PROVE  /\ Sent(key, release) \in Seq(Byte) /\ Len(Sent(key, release)) \in 1..2
         /\ Len(Sent(key, release)) = IF key = "up" THEN 2 ELSE 1
         /\ Sent(key, release)[Len(Sent(key, release))].code = key
         /\ Sent(key, release)[Len(Sent(key, release))].release = release
         /\ key = "up" => Sent(key, release)[1].code = "E0"
<1> DEFINE x == [code |-> "E0", release |-> FALSE]
           y == [code |-> key, release |-> release]
<1>1. x \in Byte /\ y \in Byte /\ x.code = "E0" /\ y.code = key /\ y.release = release
  BY DEF Byte
<1>2. Sent(key, release) = IF key = "up" THEN <<x, y>> ELSE <<y>>
  BY DEF Sent
<1> HIDE DEF x, y
<1> QED  BY <1>1, <1>2

(* What has been sent is on the wire, behind the rest.                     *)
LEMMA SentWire ==
  ASSUME TypeOK, NEW key \in Keys, NEW release \in BOOLEAN, Sends(key, release)
  PROVE  LET n == Len(wire)
             m == Len(wire')
         IN  /\ n \in Nat /\ m \in Nat /\ wire' \in Seq(Byte) /\ m <= WIRE
             /\ m = IF key = "up" THEN n + 2 ELSE n + 1
             /\ \A i \in 1..n : wire'[i] = wire[i]
             /\ wire'[m].code = key /\ wire'[m].release = release
             /\ key = "up" => wire'[n + 1].code = "E0"
<1> DEFINE q == Sent(key, release)
           n == Len(wire)
           m == Len(wire')
<1>1. /\ q \in Seq(Byte) /\ Len(q) \in 1..2 /\ Len(q) = IF key = "up" THEN 2 ELSE 1
      /\ q[Len(q)].code = key /\ q[Len(q)].release = release /\ (key = "up" => q[1].code = "E0")
  BY SentBytes
<1>2. wire \in Seq(Byte) /\ n \in Nat /\ wire' = wire \o q /\ Len(wire') <= WIRE
  BY LenProperties DEF TypeOK, Sends
<1> HIDE DEF q
<1>3. /\ wire' \in Seq(Byte) /\ Len(wire') = n + Len(q)
      /\ \A i \in 1..(n + Len(q)) : wire'[i] = IF i <= n THEN wire[i] ELSE q[i - n]
  BY <1>1, <1>2, ConcatProperties
<1>4. \A i \in 1..n : wire'[i] = wire[i]
  BY <1>1, <1>2, <1>3
<1>5. wire'[n + Len(q)] = q[Len(q)] /\ wire'[n + 1] = q[1]
  BY <1>1, <1>2, <1>3
<1> QED  BY <1>1, <1>2, <1>3, <1>4, <1>5

(* The wire stays as it should be.                                         *)
LEMMA SentForm ==
  ASSUME TypeOK, NEW key \in Keys, NEW release \in BOOLEAN, Sends(key, release),
         NEW keys, key \in keys, WireOK(wire, extended, keys)
  PROVE  WireOK(wire', extended, keys)
<1> DEFINE n == Len(wire)
           m == Len(wire')
<1>1. /\ n \in Nat /\ m \in Nat /\ m = IF key = "up" THEN n + 2 ELSE n + 1
      /\ \A i \in 1..n : wire'[i] = wire[i]
      /\ wire'[m].code = key /\ (key = "up" => wire'[n + 1].code = "E0")
  BY SentWire
<1>2. /\ \A i \in 1..n : wire[i].code \in keys \cup {"E0"}
      /\ \A i \in 1..n : wire[i].code = "E0" => i < n /\ wire[i + 1].code = "up"
      /\ \A i \in 2..n : wire[i].code = "up" => wire[i - 1].code = "E0"
      /\ n > 0 => (extended <=> wire[1].code = "up")
      /\ extended => n > 0
  BY DEF WireOK
<1>3. key # "E0"
  BY DEF Keys
<1> HIDE DEF n, m
<1>4. \A i \in 1..m : i \in 1..n \/ i = m \/ (i = n + 1 /\ i < m /\ m = n + 2 /\ key = "up")
  BY <1>1
<1>5. \A i \in 1..m : wire'[i].code \in keys \cup {"E0"}
  BY <1>1, <1>2, <1>4
<1>6. ASSUME NEW i \in 1..m, wire'[i].code = "E0"  PROVE i < m /\ wire'[i + 1].code = "up"
  <2>1. CASE i \in 1..n
    <3>1. i < n /\ wire[i + 1].code = "up"
      BY <1>1, <1>2, <1>6, <2>1
    <3>2. i + 1 \in 1..n
      BY <1>1, <2>1, <3>1
    <3> QED  BY <1>1, <3>1, <3>2
  <2>2. CASE i = n + 1 /\ m = n + 2 /\ key = "up"
    <3>1. i + 1 = m
      BY <1>1, <2>2
    <3> QED  BY <1>1, <2>2, <3>1
  <2> QED  BY <1>1, <1>3, <1>4, <1>6, <2>1, <2>2
<1>7. ASSUME NEW i \in 2..m, wire'[i].code = "up"  PROVE wire'[i - 1].code = "E0"
  <2>1. CASE i \in 2..n
    <3>1. i \in 1..n /\ i - 1 \in 1..n
      BY <1>1, <2>1
    <3> QED  BY <1>1, <1>2, <1>7, <2>1, <3>1
  <2>2. CASE i = m
    <3>1. key = "up"
      BY <1>1, <1>7, <2>2
    <3>2. i - 1 = n + 1
      BY <1>1, <2>2, <3>1
    <3> QED  BY <1>1, <3>1, <3>2
  <2>3. CASE i = n + 1 /\ key = "up"
    BY <1>1, <1>7, <2>3
  <2> QED  BY <1>1, <1>4, <2>1, <2>2, <2>3
<1>8. m > 0 => (extended <=> wire'[1].code = "up")
  <2>1. CASE n = 0
    <3>1. key = "up" => wire'[1].code = "E0"
      BY <1>1, <2>1
    <3>2. key # "up" => wire'[1].code = key
      BY <1>1, <2>1
    <3> QED  BY <1>2, <2>1, <3>1, <3>2
  <2>2. CASE n > 0
    <3>1. wire'[1] = wire[1]
      BY <1>1, <2>2
    <3> QED  BY <1>2, <2>2, <3>1
  <2> QED  BY <1>1, <2>1, <2>2
<1>9. extended => m > 0
  BY <1>1
<1> QED  BY <1>5, <1>6, <1>7, <1>8, <1>9 DEF WireOK, m

(* The key that was pressed or released is followed by its last byte, the  *)
(* others as before.                                                       *)
LEMMA SentFollows ==
  ASSUME TypeOK, NEW key \in Keys, NEW release \in BOOLEAN, Sends(key, release),
         NEW k, k # "E0", NEW f \in BOOLEAN, Follows(wire, k, f, held),
         key \in held' <=> ~ release,
         k # key => (k \in held' <=> k \in held)
  PROVE  Follows(wire', k, f, held')
<1> DEFINE n == Len(wire)
           m == Len(wire')
<1>1. /\ n \in Nat /\ m \in Nat /\ m = IF key = "up" THEN n + 2 ELSE n + 1
      /\ \A i \in 1..n : wire'[i] = wire[i]
      /\ wire'[m].code = key /\ wire'[m].release = release
      /\ key = "up" => wire'[n + 1].code = "E0"
  BY SentWire
<1>2. /\ (\A i \in 1..n : wire[i].code # k) => (f <=> k \in held)
      /\ \A i \in 1..n : wire[i].code = k /\ (\A j \in (i + 1)..n : wire[j].code # k)
                            => (wire[i].release <=> k \notin held)
  BY DEF Follows, NoneFrom
<1> HIDE DEF n, m
<1>3. m \in 1..m /\ \A i \in 1..m : i \in 1..n \/ i = m \/ (i = n + 1 /\ key = "up")
  BY <1>1
<1>4. CASE k = key
  <2>1. \A i \in 1..m : (\A j \in (i + 1)..m : wire'[j].code # k) => i = m
    <3> SUFFICES ASSUME NEW i \in 1..m, i # m, \A j \in (i + 1)..m : wire'[j].code # k  PROVE FALSE
      OBVIOUS
    <3>1. m \in (i + 1)..m
      BY <1>1
    <3> QED  BY <1>1, <1>4, <3>1
  <2> QED  BY <1>1, <1>3, <1>4, <2>1 DEF Follows, NoneFrom, m
<1>5. CASE k # key
  <2>1. \A i \in 1..m : wire'[i].code = k => i \in 1..n /\ wire[i].code = k
    BY <1>1, <1>3, <1>5
  <2>2. \A i \in 1..n : wire[i].code = k => i \in 1..m /\ wire'[i].code = k
    BY <1>1
  <2>3. ASSUME \A i \in 1..m : wire'[i].code # k  PROVE f <=> k \in held'
    BY <1>2, <1>5, <2>2, <2>3
  <2>4. ASSUME NEW i \in 1..m, wire'[i].code = k, \A j \in (i + 1)..m : wire'[j].code # k
        PROVE  wire'[i].release <=> k \notin held'
    <3>1. i \in 1..n /\ wire[i].code = k
      BY <2>1, <2>4
    <3>2. \A j \in (i + 1)..n : wire[j].code # k
      <4> SUFFICES ASSUME NEW j \in (i + 1)..n  PROVE wire[j].code # k
        OBVIOUS
      <4>1. j \in (i + 1)..m /\ j \in 1..n
        BY <1>1, <3>1
      <4> QED  BY <2>2, <2>4, <4>1
    <3> QED  BY <1>1, <1>2, <1>5, <3>1, <3>2
  <2> QED  BY <2>3, <2>4 DEF Follows, NoneFrom, m
<1> QED  BY <1>4, <1>5

-----------------------------------------------------------------------------
(* The steps.                                                              *)

(* The invariant says no less than the type invariant.                     *)
LEMMA Typed == KeyboardInv => TypeOK
BY DEF KeyboardInv, RingOK, KeysOK, ReaderOK, TypeOK

(* Nothing has been typed at boot.                                         *)
LEMMA InitInv == Init => KeyboardInv
<1> SUFFICES ASSUME Init  PROVE KeyboardInv
  OBVIOUS
<1>1. KEYBOARD_BUFFER_SIZE \in Nat /\ KEYBOARD_BUFFER_SIZE >= 2 /\ WIRE \in Nat
  BY BufferAssumption, WireAssumption
<1>2. 0 \in Cells /\ "none" \in Chars
  BY <1>1 DEF Cells, Chars
<1>3. RingOK
  <2>1. buffer \in [Cells -> Chars] /\ head = 0 /\ tail = 0 /\ expected = <<>>
    BY <1>2 DEF Init
  <2>2. Count(0, 0) = 0 /\ <<>> \in Seq(Chars) /\ Len(<<>>) = 0
    BY <1>1 DEF Count
  <2>3. \A s \in Seq(Chars) :
          Len(s) = Count(0, 0) /\ (\A i \in 1..Len(s) : buffer[Cell(0, i - 1)] = s[i])
            => RingOf(buffer, 0, 0) = s
    BY <1>2, <2>1, RingHolds, Zenon
  <2>4. \A i \in 1..Len(<<>>) : buffer[Cell(0, i - 1)] = <<>>[i]
    BY <2>2
  <2>5. RingOf(buffer, 0, 0) = <<>>
    BY <2>2, <2>3, <2>4, Zenon
  <2>6. Contents = <<>>
    BY <2>1, <2>5 DEF Contents, RingOf
  <2> QED  BY <1>1, <1>2, <2>1, <2>2, <2>6 DEF RingOK
<1>4. KeysOK
  <2>1. /\ wire = <<>> /\ held = {} /\ session \in SESSIONS
        /\ extended = FALSE /\ upPressed = FALSE /\ shift = FALSE
    BY DEF Init
  <2>2. wire \in Seq(Byte) /\ Len(wire) = 0
    BY <2>1
  <2>3. WireOK(wire, extended, session.keys)
    BY <2>1, <2>2 DEF WireOK
  <2>4. Follows(wire, "up", upPressed, held) /\ Follows(wire, "shift", shift, held)
    BY <2>1, <2>2 DEF Follows, NoneFrom
  <2>5. Len(wire) <= WIRE /\ held \subseteq session.keys
    BY <1>1, <2>1, <2>2
  <2>6. extended \in BOOLEAN /\ upPressed \in BOOLEAN /\ shift \in BOOLEAN
    BY <2>1, Zenon
  <2> QED  BY <2>1, <2>2, <2>3, <2>4, <2>5, <2>6, Zenon DEF KeysOK
<1>5. ReaderOK
  BY <1>2 DEF Init, ReaderOK
<1> QED  BY <1>3, <1>4, <1>5 DEF KeyboardInv

(* A byte received changes the flags that it should.                       *)
LEMMA TakenKeys ==
  ASSUME KeyboardInv, NEW b, Received(b), UNCHANGED <<session, held>>,
         extended' \in BOOLEAN, extended' <=> b.code = "E0",
         upPressed' \in BOOLEAN, upPressed' <=> IF b.code = "up" THEN ~ b.release ELSE upPressed,
         shift' \in BOOLEAN, shift' <=> IF b.code = "shift" THEN ~ b.release ELSE shift
  PROVE  KeysOK'
<1>1. TypeOK
  BY Typed
<1>2. /\ upPressed \in BOOLEAN /\ shift \in BOOLEAN
      /\ session \in SESSIONS /\ held \subseteq session.keys
      /\ WireOK(wire, extended, session.keys)
      /\ Follows(wire, "up", upPressed, held) /\ Follows(wire, "shift", shift, held)
  BY DEF KeyboardInv, KeysOK
<1>3. wire' \in Seq(Byte) /\ Len(wire') <= WIRE
  BY <1>1, TakenByte
<1>4. WireOK(wire', extended', session.keys)
  BY <1>1, <1>2, TakenForm
<1>5. Follows(wire', "up", upPressed', held)
  BY <1>1, <1>2, TakenFollows
<1>6. Follows(wire', "shift", shift', held)
  BY <1>1, <1>2, TakenFollows
<1> QED  BY <1>2, <1>3, <1>4, <1>5, <1>6 DEF KeysOK

(* The next byte is the code of an arrow key exactly after its prefix, and *)
(* otherwise one of the keys in use.                                       *)
LEMMA NextByte ==
  ASSUME KeyboardInv, NEW b \in Byte, Received(b)
  PROVE  /\ extended <=> b.code = "up"
         /\ b.code # "E0" => b.code \in session.keys
         /\ b.release \in BOOLEAN
<1>1. TypeOK
  BY Typed
<1>2. Len(wire) \in Nat /\ Len(wire) > 0 /\ wire[1] = b /\ 1 \in 1..Len(wire)
  BY <1>1, TakenByte
<1> QED  BY <1>2 DEF KeyboardInv, KeysOK, WireOK, Byte

(* A character arrives behind the one being read.                          *)
LEMMA PushedReader ==
  ASSUME KeyboardInv, NEW ch \in Chars, buffer_push(ch), UNCHANGED <<session, reader>>
  PROVE  RingOK' /\ ReaderOK'
<1>1. RingOK' /\ tail' = tail /\ (head # tail => head' # tail /\ buffer'[tail] = buffer[tail])
  BY PushLemma DEF KeyboardInv
<1> QED  BY <1>1 DEF KeyboardInv, ReaderOK, reader

(* Nothing happens to the ring and the one reading it.                     *)
LEMMA SameRing ==
  ASSUME KeyboardInv, UNCHANGED <<ring, expected, session, reader>>
  PROVE  RingOK' /\ ReaderOK'
<1>1. RingOK'
  BY DEF KeyboardInv, RingOK, Contents, ring
<1> QED  BY <1>1 DEF KeyboardInv, ReaderOK, reader, ring

(* Nothing happens to the keys.                                            *)
LEMMA SameKeys ==
  ASSUME KeyboardInv, UNCHANGED <<keyState, keyboard, session>>
  PROVE  KeysOK'
BY DEF KeyboardInv, KeysOK, keyState, keyboard

(* Characters are dropped only when no one is reading.                     *)
LEMMA DroppedReader ==
  ASSUME KeyboardInv, NEW target, buffer_drop_char(target), pc = "idle", UNCHANGED <<session, reader>>
  PROVE  RingOK' /\ ReaderOK'
<1>1. RingOK'
  BY DropLemma DEF KeyboardInv
<1> QED  BY <1>1 DEF KeyboardInv, ReaderOK, reader

(* keyboard_handler, path by path.                                         *)
LEMMA HandlerStep ==
  ASSUME KeyboardInv, SessionsSafe, UNCHANGED session, keyboard_handler
  PROVE  KeyboardInv'
<1>1. /\ extended \in BOOLEAN /\ upPressed \in BOOLEAN /\ shift \in BOOLEAN
      /\ session \in SESSIONS
  BY DEF KeyboardInv, KeysOK
<1>2. CASE PrefixByte
  <2>1. PICK b \in Byte : b.code = "E0" /\ Received(b)
    BY <1>2 DEF PrefixByte
  <2>2. extended' = TRUE /\ UNCHANGED <<ring, upPressed, shift, reader, held, expected>>
    BY <1>2 DEF PrefixByte
  <2>3. KeysOK'
    BY <1>1, <2>1, <2>2, TakenKeys
  <2>4. RingOK' /\ ReaderOK'
    BY <2>2, SameRing
  <2> QED  BY <2>3, <2>4 DEF KeyboardInv
<1>3. CASE ExtendedByte
  <2>1. PICK b \in Byte :
          /\ b.code # "E0" /\ extended /\ Received(b) /\ extended' = FALSE
          /\ upPressed' = UpAfter(b)
          /\ IF b.code = "up" /\ ~ b.release /\ ~ upPressed
             THEN buffer_push("UP") ELSE UNCHANGED <<ring, expected>>
          /\ UNCHANGED <<shift, reader, held>>
    BY <1>3 DEF ExtendedByte
  <2>2. b.code = "up" /\ b.release \in BOOLEAN
    BY <2>1, NextByte
  <2>3. upPressed' = ~ b.release
    BY <2>1, <2>2 DEF UpAfter
  <2>4. /\ upPressed' \in BOOLEAN /\ (upPressed' <=> IF b.code = "up" THEN ~ b.release ELSE upPressed)
        /\ shift' \in BOOLEAN /\ (shift' <=> IF b.code = "shift" THEN ~ b.release ELSE shift)
        /\ extended' \in BOOLEAN /\ (extended' <=> b.code = "E0")
    BY <1>1, <2>1, <2>2, <2>3, Zenon
  <2>5. KeysOK'
    BY <2>1, <2>4, TakenKeys
  <2>6. RingOK' /\ ReaderOK'
    <3>1. CASE buffer_push("UP")
      <4>1. "UP" \in Chars
        BY DEF Chars
      <4> QED  BY <2>1, <3>1, <4>1, PushedReader
    <3>2. CASE UNCHANGED <<ring, expected>>
      BY <2>1, <3>2, SameRing
    <3> QED  BY <2>1, <3>1, <3>2
  <2> QED  BY <2>5, <2>6 DEF KeyboardInv
<1>4. CASE ReleaseByte
  <2>1. PICK b \in Byte :
          /\ b.code # "E0" /\ ~ extended /\ b.release /\ Received(b)
          /\ shift' = (shift /\ b.code # "shift")
          /\ IF b.code = "space" THEN buffer_drop_char(" ") ELSE UNCHANGED <<ring, expected>>
          /\ UNCHANGED <<extended, upPressed, reader, held>>
    BY <1>4, Zenon DEF ReleaseByte
  <2>2. b.code # "up" /\ b.code \in session.keys /\ b.release \in BOOLEAN
    BY <2>1, NextByte, Zenon
  <2>3. /\ upPressed' \in BOOLEAN /\ (upPressed' <=> IF b.code = "up" THEN ~ b.release ELSE upPressed)
        /\ shift' \in BOOLEAN /\ (shift' <=> IF b.code = "shift" THEN ~ b.release ELSE shift)
        /\ extended' \in BOOLEAN /\ (extended' <=> b.code = "E0")
    BY <1>1, <2>1, <2>2, Zenon
  <2>4. KeysOK'
    BY <2>1, <2>3, TakenKeys, Zenon
  <2>5. RingOK' /\ ReaderOK'
    <3>1. CASE b.code = "space"
      <4>1. "getchar" \notin session.readers
        BY <1>1, <2>2, <3>1 DEF SessionsSafe
      <4>2. pc = "idle"
        BY <4>1 DEF KeyboardInv, ReaderOK
      <4> QED  BY <2>1, <3>1, <4>2, DroppedReader, Zenon
    <3>2. CASE b.code # "space"
      BY <2>1, <3>2, SameRing
    <3> QED  BY <3>1, <3>2
  <2> QED  BY <2>4, <2>5 DEF KeyboardInv
<1>5. CASE PressByte
  <2>1. PICK b \in Byte :
          /\ b.code # "E0" /\ ~ extended /\ ~ b.release /\ Received(b)
          /\ shift' = (shift \/ b.code = "shift")
          /\ IF Ascii(b.code) # "none" THEN buffer_push(Ascii(b.code)) ELSE UNCHANGED <<ring, expected>>
          /\ UNCHANGED <<extended, upPressed, reader, held>>
    BY <1>5 DEF PressByte
  <2>2. b.code # "up" /\ b.release \in BOOLEAN
    BY <2>1, NextByte
  <2>3. /\ upPressed' \in BOOLEAN /\ (upPressed' <=> IF b.code = "up" THEN ~ b.release ELSE upPressed)
        /\ shift' \in BOOLEAN /\ (shift' <=> IF b.code = "shift" THEN ~ b.release ELSE shift)
        /\ extended' \in BOOLEAN /\ (extended' <=> b.code = "E0")
    BY <1>1, <2>1, <2>2, Zenon
  <2>4. KeysOK'
    BY <2>1, <2>3, TakenKeys
  <2>5. RingOK' /\ ReaderOK'
    <3>1. Ascii(b.code) \in Chars
      BY DEF Ascii, Chars
    <3>2. CASE Ascii(b.code) # "none"
      <4>1. buffer_push(Ascii(b.code))
        BY <2>1, <3>2
      <4> QED  BY <2>1, <3>1, <4>1, PushedReader
    <3>3. CASE Ascii(b.code) = "none"
      BY <2>1, <3>3, SameRing
    <3> QED  BY <3>2, <3>3
  <2> QED  BY <2>4, <2>5 DEF KeyboardInv
<1> QED  BY <1>2, <1>3, <1>4, <1>5 DEF keyboard_handler

(* A character taken from the ring, by whoever reads it.                   *)
LEMMA ReaderStep ==
  ASSUME KeyboardInv, SessionsSafe, UNCHANGED session, Reader
  PROVE  KeyboardInv'
<1>1. RingOK /\ ReaderOK /\ KeysOK
  BY DEF KeyboardInv
<1>2. buffer[tail] \in Chars /\ "none" \in Chars
  BY <1>1, Zenon DEF RingOK, Chars
<1>3. CASE Call \/ TestEmpty \/ Wake \/ TestReady \/ ReadChar
  <2>1. UNCHANGED <<ring, keyState, keyboard, expected>>
    BY <1>3 DEF Call, TestEmpty, Wake, TestReady, ReadChar
  <2>2. KeysOK'
    BY <2>1, SameKeys
  <2>3. RingOK'
    BY <1>1, <2>1 DEF RingOK, Contents, ring
  <2>4. ReaderOK'
    <3>1. UNCHANGED <<buffer, head, tail>>
      BY <2>1 DEF ring
    <3>2. CASE Call
      BY <1>1, <3>1, <3>2 DEF Call, ReaderOK
    <3>3. CASE TestEmpty
      BY <1>1, <3>1, <3>3 DEF TestEmpty, ReaderOK
    <3>4. CASE Wake
      BY <1>1, <3>1, <3>4, Zenon DEF Wake, ReaderOK
    <3>5. CASE TestReady
      BY <1>1, <3>1, <3>5 DEF TestReady, Empty, ReaderOK
    <3>6. CASE ReadChar
      BY <1>1, <1>2, <3>1, <3>6 DEF ReadChar, ReaderOK
    <3> QED  BY <1>3, <3>2, <3>3, <3>4, <3>5, <3>6
  <2> QED  BY <2>2, <2>3, <2>4 DEF KeyboardInv
<1>4. CASE AdvanceTail
  <2>1. /\ pc = "advance" /\ tail' = Succ(tail) /\ pc' = "idle" /\ c' = "none" /\ iflag' = TRUE
        /\ expected' = Popped /\ UNCHANGED <<buffer, head, keyState, keyboard>>
    BY <1>4 DEF AdvanceTail
  <2>2. head # tail
    BY <1>1, <2>1 DEF ReaderOK
  <2>3. RingOK'
    BY <1>1, <2>1, <2>2, PopLemma
  <2>4. KeysOK'
    BY <2>1, SameKeys
  <2>5. ReaderOK'
    BY <1>2, <2>1 DEF ReaderOK
  <2> QED  BY <2>3, <2>4, <2>5 DEF KeyboardInv
<1>5. CASE keyboard_try_getchar
  <2>1. /\ pc = "idle" /\ head # tail /\ tail' = Succ(tail)
        /\ expected' = Popped /\ UNCHANGED <<buffer, head, keyState, reader, keyboard>>
    BY <1>5 DEF keyboard_try_getchar
  <2>2. RingOK'
    BY <1>1, <2>1, PopLemma
  <2>3. KeysOK'
    BY <2>1, SameKeys
  <2>4. ReaderOK'
    BY <1>1, <2>1 DEF ReaderOK, reader
  <2> QED  BY <2>2, <2>3, <2>4 DEF KeyboardInv
<1>6. CASE keyboard_flush_buffer
  <2>1. /\ "flush" \in session.readers /\ pc = "idle" /\ tail' = head /\ extended' = FALSE
        /\ expected' = <<>> /\ UNCHANGED <<buffer, head, upPressed, shift, reader, keyboard>>
    BY <1>6 DEF keyboard_flush_buffer
  <2>2. RingOK'
    BY <1>1, <2>1, FlushLemma
  <2>3. ReaderOK'
    BY <1>1, <2>1 DEF ReaderOK, reader
  <2>4. "up" \notin session.keys /\ extended \in BOOLEAN
    BY <1>1, <2>1 DEF KeysOK, SessionsSafe
  <2>5. ~ extended
    <3>1. wire \in Seq(Byte) /\ Len(wire) \in Nat /\ WireOK(wire, extended, session.keys)
      BY <1>1 DEF KeysOK
    <3> QED  BY <2>4, <3>1 DEF WireOK
  <2>6. UNCHANGED keyState
    BY <2>1, <2>4, <2>5, Zenon DEF keyState
  <2>7. KeysOK'
    BY <2>1, <2>6, SameKeys
  <2> QED  BY <2>2, <2>3, <2>7 DEF KeyboardInv
<1>7. CASE keyboard_discard_pending
  <2>1. PICK target \in Chars \ {"none"} :
          pc = "idle" /\ buffer_drop_char(target) /\ UNCHANGED <<keyState, reader, keyboard>>
    BY <1>7 DEF keyboard_discard_pending
  <2>2. RingOK' /\ ReaderOK'
    BY <2>1, DroppedReader
  <2>3. KeysOK'
    BY <2>1, SameKeys
  <2> QED  BY <2>2, <2>3 DEF KeyboardInv
<1> QED  BY <1>3, <1>4, <1>5, <1>6, <1>7 DEF Reader, Getchar

(* A key goes down, repeats or goes up.                                    *)
LEMMA KeyStep ==
  ASSUME KeyboardInv, UNCHANGED session, KeyDown \/ KeyUp
  PROVE  KeyboardInv'
<1>1. /\ extended \in BOOLEAN /\ upPressed \in BOOLEAN /\ shift \in BOOLEAN
      /\ session \in SESSIONS /\ held \subseteq session.keys
      /\ WireOK(wire, extended, session.keys)
      /\ Follows(wire, "up", upPressed, held) /\ Follows(wire, "shift", shift, held)
  BY DEF KeyboardInv, KeysOK
<1>2. TypeOK
  BY Typed
<1>3. session.keys \subseteq Keys
  BY <1>1, SessionsAssumption DEF Session
<1>4. PICK key \in session.keys, release \in BOOLEAN :
        /\ Sends(key, release) /\ held' \subseteq session.keys
        /\ key \in held' <=> ~ release
        /\ \A k : k # key => (k \in held' <=> k \in held)
  <2>1. CASE KeyDown
    <3>1. PICK key \in session.keys : held' = held \cup {key} /\ Sends(key, FALSE)
      BY <2>1, Zenon DEF KeyDown
    <3> QED  BY <1>1, <3>1, Zenon
  <2>2. CASE KeyUp
    <3>1. PICK key \in held : held' = held \ {key} /\ Sends(key, TRUE)
      BY <2>2, Zenon DEF KeyUp
    <3> QED  BY <1>1, <3>1, Zenon
  <2> QED  BY <2>1, <2>2
<1>5. key \in Keys
  BY <1>3
<1>6. UNCHANGED <<ring, keyState, reader, expected>>
  BY <1>4 DEF Sends
<1>7. wire' \in Seq(Byte) /\ Len(wire') <= WIRE
  BY <1>2, <1>4, <1>5, SentWire
<1>8. WireOK(wire', extended, session.keys)
  BY <1>1, <1>2, <1>4, <1>5, SentForm
<1>9. Follows(wire', "up", upPressed, held') /\ Follows(wire', "shift", shift, held')
  BY <1>1, <1>2, <1>4, <1>5, SentFollows
<1>10. KeysOK'
  BY <1>1, <1>4, <1>6, <1>7, <1>8, <1>9 DEF KeysOK, keyState
<1>11. RingOK' /\ ReaderOK'
  BY <1>6, SameRing
<1> QED  BY <1>10, <1>11 DEF KeyboardInv

(* What a reader finds is what was typed.                                  *)
LEMMA InvKept ==
  ASSUME KeyboardInv
  PROVE  InputKept
<1>1. TypeOK
  BY Typed
<1>2. RingOK /\ ReaderOK /\ KeysOK
  BY DEF KeyboardInv
<1>3. ASSUME pc = "advance"  PROVE expected # <<>> /\ c = Head(expected)
  <2>1. head # tail /\ c = buffer[tail]
    BY <1>2, <1>3 DEF ReaderOK
  <2>2. /\ head \in Nat /\ head < KEYBOARD_BUFFER_SIZE /\ tail \in Nat /\ tail < KEYBOARD_BUFFER_SIZE
        /\ KEYBOARD_BUFFER_SIZE \in Nat /\ Len(expected) = Count(head, tail) /\ Len(expected) \in Nat
        /\ \A i \in 1..Len(expected) : expected[i] = buffer[Cell(tail, i - 1)]
    BY <1>2, RingFacts
  <2>3. Len(expected) > 0
    BY <2>1, <2>2 DEF Count
  <2>4. expected[1] = buffer[Cell(tail, 0)] /\ Cell(tail, 0) = tail
    BY <2>2, <2>3 DEF Cell
  <2>5. expected \in Seq(Chars)
    BY <1>2 DEF RingOK
  <2> QED  BY <2>1, <2>3, <2>4, <2>5
<1>4. ASSUME wire = <<>>  PROVE upPressed = ("up" \in held) /\ shift = ("shift" \in held)
  <2>1. Len(wire) = 0
    BY <1>4
  <2>2. (upPressed <=> "up" \in held) /\ (shift <=> "shift" \in held)
    BY <1>2, <2>1 DEF KeysOK, Follows, NoneFrom
  <2>3. upPressed \in BOOLEAN /\ shift \in BOOLEAN
    BY <1>2 DEF KeysOK
  <2> QED  BY <2>2, <2>3
<1>5. RingIsQueue
  BY <1>1, <1>2, <1>3 DEF RingIsQueue, RingOK
<1>6. KeysTracked
  BY <1>4 DEF KeysTracked
<1> QED  BY <1>5, <1>6 DEF InputKept

(* However handler, readers and keyboard interleave, no character and no   *)
(* change of a key is lost or made up (keyboard.c, buffer_push to          *)
(* keyboard_discard_pending), for a ring of any size, any keys and any     *)
(* readers other than the two combinations SessionsSafe names.             *)
THEOREM InputIsKept ==
  ASSUME SessionsSafe
  PROVE  Spec => []InputKept
<1>1. Init => KeyboardInv
  BY InitInv
<1>2. KeyboardInv /\ [Next]_vars => KeyboardInv'
  <2> SUFFICES ASSUME KeyboardInv, [Next]_vars  PROVE KeyboardInv'
    OBVIOUS
  <2>1. CASE UNCHANGED session /\ keyboard_handler
    BY <2>1, HandlerStep
  <2>2. CASE UNCHANGED session /\ Reader
    BY <2>2, ReaderStep
  <2>3. CASE UNCHANGED session /\ (KeyDown \/ KeyUp)
    BY <2>3, KeyStep
  <2>4. CASE UNCHANGED vars
    <3>1. UNCHANGED <<ring, expected, session, reader, keyState, keyboard>>
      BY <2>4 DEF vars
    <3>2. RingOK' /\ ReaderOK' /\ KeysOK'
      BY <3>1, SameRing, SameKeys
    <3> QED  BY <3>2 DEF KeyboardInv
  <2> QED  BY <2>1, <2>2, <2>3, <2>4 DEF Next
<1>3. KeyboardInv => InputKept
  BY InvKept
<1> QED  BY <1>1, <1>2, <1>3, PTL DEF Spec
=============================================================================
