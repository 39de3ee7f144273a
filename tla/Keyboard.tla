------------------------------ MODULE Keyboard ------------------------------
(***************************************************************************)
(* The PS/2 keyboard driver of src/drivers/keyboard.c: the interrupt       *)
(* handler that assembles keys and fills the ring buffer, and the readers  *)
(* that empty it.  A reader runs with interrupts on except where the code  *)
(* turns them off; keyboard_getchar_buffered is one action per access to   *)
(* the ring, so the handler can run between them.                          *)
(*                                                                         *)
(* The keys are one arrow key, whose press and release are two bytes each  *)
(* (0xE0 and a code), a letter, the space bar (which stands for backspace  *)
(* too) and shift.  The keyboard repeats a key that is held.               *)
(***************************************************************************)
EXTENDS Naturals, Sequences

CONSTANTS
  KEYBOARD_BUFFER_SIZE,   \* cells of the ring
  SESSIONS,               \* who uses the driver: see Session
  WIRE                    \* bound: bytes sent and not yet received

ASSUME BufferAssumption == KEYBOARD_BUFFER_SIZE \in Nat /\ KEYBOARD_BUFFER_SIZE >= 2
ASSUME WireAssumption == WIRE \in Nat

(* The keys that are typed and the reading functions that are called.      *)
Keys    == {"up", "a", "space", "shift"}
Session == [keys : SUBSET Keys, readers : SUBSET {"getchar", "try", "flush", "discard"}]

ASSUME SessionsAssumption == SESSIONS \subseteq Session

Cells == 0..(KEYBOARD_BUFFER_SIZE - 1)
Chars == {"none", "a", "A", " ", "UP"}

VARIABLES
  buffer, head, tail,   \* keyboard_buffer, buffer_head, buffer_tail
  extended,             \* extended_key_pending
  upPressed,            \* special_up_pressed
  shift,                \* shift_pressed
  pc, c,                \* keyboard_getchar_buffered: its place and local c
  iflag,                \* whether the processor takes interrupts
  session,              \* external: one of SESSIONS, chosen once
  held,                 \* external: the keys held down
  wire,                 \* external: bytes on their way from the keyboard
  expected              \* history: what a queue would hold

ring     == <<buffer, head, tail>>
keyState == <<extended, upPressed, shift>>
reader   == <<pc, c, iflag>>
keyboard == <<held, wire>>
vars     == <<ring, keyState, reader, keyboard, session, expected>>

Byte == [code : Keys \cup {"E0"}, release : BOOLEAN]

TypeOK ==
  /\ buffer \in [Cells -> Chars] /\ head \in Cells /\ tail \in Cells
  /\ extended \in BOOLEAN /\ upPressed \in BOOLEAN /\ shift \in BOOLEAN
  /\ pc \in {"idle", "test", "hlt", "read", "advance"} /\ c \in Chars
  /\ iflag \in BOOLEAN
  /\ session \in SESSIONS /\ held \subseteq session.keys
  /\ wire \in Seq(Byte) /\ Len(wire) <= WIRE
  /\ expected \in Seq(Chars) /\ Len(expected) < KEYBOARD_BUFFER_SIZE

(* keyboard_init.                                                          *)
Init ==
  /\ buffer = [i \in Cells |-> "none"] /\ head = 0 /\ tail = 0
  /\ extended = FALSE /\ upPressed = FALSE /\ shift = FALSE
  /\ pc = "idle" /\ c = "none" /\ iflag = TRUE
  /\ session \in SESSIONS /\ held = {} /\ wire = <<>>
  /\ expected = <<>>

-----------------------------------------------------------------------------
Succ(i) == (i + 1) % KEYBOARD_BUFFER_SIZE

Full == Succ(head) = tail

(* What lies between tail and head.                                        *)
Contents ==
  [i \in 1..((head + KEYBOARD_BUFFER_SIZE - tail) % KEYBOARD_BUFFER_SIZE) |->
     buffer[(tail + i - 1) % KEYBOARD_BUFFER_SIZE]]

buffer_push(ch) ==
  /\ IF Full
     THEN UNCHANGED ring
     ELSE /\ buffer' = [buffer EXCEPT ![head] = ch]
          /\ head' = Succ(head)
          /\ UNCHANGED tail
  /\ expected' = IF Len(expected) < KEYBOARD_BUFFER_SIZE - 1
                 THEN Append(expected, ch) ELSE expected

(* Mutant of Compacted: the characters kept are not moved.                 *)
CompactedNot(kept) == buffer
Compacted(kept) ==
  [i \in Cells |->
     LET offset == (i + KEYBOARD_BUFFER_SIZE - tail) % KEYBOARD_BUFFER_SIZE
     IN  IF offset < Len(kept) THEN kept[offset + 1] ELSE buffer[i]]

(* The characters other than target, in order, as the loop of              *)
(* buffer_drop_char finds them: n have been read.                          *)
Kept(s, target) ==
  LET kept[n \in 0..Len(s)] ==
        IF n = 0 THEN <<>>
        ELSE IF s[n] = target THEN kept[n - 1] ELSE Append(kept[n - 1], s[n])
  IN  kept[Len(s)]

(* buffer_drop_char: the characters kept move down to the tail; cells      *)
(* beyond the new head keep what they held.                                *)
buffer_drop_char(target) ==
  LET kept == Kept(Contents, target)
  IN /\ buffer' = Compacted(kept)
     /\ head' = (tail + Len(kept)) % KEYBOARD_BUFFER_SIZE
     /\ UNCHANGED tail
     /\ expected' = Kept(expected, target)

-----------------------------------------------------------------------------
(* scan_code_to_ascii of a key press: "none" for a key without character.  *)
Ascii(key) == CASE key = "a" -> IF shift THEN "A" ELSE "a"
                [] key = "space" -> " "
                [] OTHER -> "none"

Received(b) == iflag /\ wire # <<>> /\ Head(wire) = b /\ wire' = Tail(wire)

(* keyboard_handler, one action per path.  The 0xE0 prefix:                *)
PrefixByte ==
  /\ \E b \in Byte : b.code = "E0" /\ Received(b)
  /\ extended' = TRUE
  /\ UNCHANGED <<ring, upPressed, shift, reader, held, expected>>

(* special_up_pressed after an extended code.                              *)
UpAfter(b) == IF b.code = "up" THEN ~ b.release ELSE upPressed

(* The code after the prefix: an arrow key is pushed when it goes down,    *)
(* not when it repeats; every other extended key is ignored.               *)
ExtendedByte == \E b \in Byte :
  /\ b.code # "E0" /\ extended
  /\ Received(b)
  /\ extended' = FALSE
  /\ upPressed' = UpAfter(b)
  /\ IF b.code = "up" /\ ~ b.release /\ ~ upPressed
     THEN buffer_push("UP")
     ELSE UNCHANGED <<ring, expected>>
  /\ UNCHANGED <<shift, reader, held>>

(* A release: that of the space bar drops every space still in the ring.   *)
ReleaseByte == \E b \in Byte :
  /\ b.code # "E0" /\ ~ extended /\ b.release
  /\ Received(b)
  /\ shift' = (shift /\ b.code # "shift")
  /\ IF b.code = "space" THEN buffer_drop_char(" ") ELSE UNCHANGED <<ring, expected>>
  /\ UNCHANGED <<extended, upPressed, reader, held>>

(* A press: shift is remembered, a character is pushed.                    *)
PressByte == \E b \in Byte :
  /\ b.code # "E0" /\ ~ extended /\ ~ b.release
  /\ Received(b)
  /\ shift' = (shift \/ b.code = "shift")
  /\ IF Ascii(b.code) # "none" THEN buffer_push(Ascii(b.code)) ELSE UNCHANGED <<ring, expected>>
  /\ UNCHANGED <<extended, upPressed, reader, held>>

keyboard_handler == PrefixByte \/ ExtendedByte \/ ReleaseByte \/ PressByte

-----------------------------------------------------------------------------
(* keyboard_getchar_buffered.  The first test of the loop is made with     *)
(* interrupts as the caller left them: on.                                 *)
Call ==
  /\ "getchar" \in session.readers /\ pc = "idle"
  /\ pc' = "test"
  /\ UNCHANGED <<ring, keyState, c, iflag, keyboard, expected>>

(* Mutant of Empty: the loop goes on with one character waiting.           *)
EmptyButOne == head = tail \/ head = Succ(tail)
Empty == head = tail

(* The test, then "sti; hlt": the wait is made with interrupts on.         *)
TestEmpty ==
  /\ pc = "test" /\ Empty
  /\ pc' = "hlt" /\ iflag' = TRUE
  /\ UNCHANGED <<ring, keyState, c, keyboard, expected>>
(* Any interrupt, the timer's too, ends the hlt; "cli" follows.            *)
Wake ==
  /\ pc = "hlt" /\ iflag
  /\ pc' = "test" /\ iflag' = FALSE
  /\ UNCHANGED <<ring, keyState, c, keyboard, expected>>
TestReady ==
  /\ pc = "test" /\ ~ Empty
  /\ pc' = "read"
  /\ UNCHANGED <<ring, keyState, c, iflag, keyboard, expected>>
ReadChar ==
  /\ pc = "read"
  /\ c' = buffer[tail] /\ pc' = "advance"
  /\ UNCHANGED <<ring, keyState, iflag, keyboard, expected>>
(* The queue without its oldest character.                                *)
Popped == IF expected = <<>> THEN <<>> ELSE Tail(expected)
AdvanceTail ==
  /\ pc = "advance"
  /\ tail' = Succ(tail)
  /\ pc' = "idle" /\ c' = "none" /\ iflag' = TRUE
  /\ expected' = Popped
  /\ UNCHANGED <<buffer, head, keyState, keyboard>>

(* The readers that turn interrupts off around the ring are one step.      *)
keyboard_try_getchar ==
  /\ "try" \in session.readers /\ pc = "idle"
  /\ head # tail
  /\ tail' = Succ(tail)
  /\ expected' = Popped
  /\ UNCHANGED <<buffer, head, keyState, reader, keyboard>>
keyboard_flush_buffer ==
  /\ "flush" \in session.readers /\ pc = "idle"
  /\ tail' = head
  /\ extended' = FALSE
  /\ expected' = <<>>
  /\ UNCHANGED <<buffer, head, upPressed, shift, reader, keyboard>>
keyboard_discard_pending == \E target \in Chars \ {"none"} :
  /\ "discard" \in session.readers /\ pc = "idle"
  /\ buffer_drop_char(target)
  /\ UNCHANGED <<keyState, reader, keyboard>>

Getchar == Call \/ TestEmpty \/ Wake \/ TestReady \/ ReadChar \/ AdvanceTail
Reader == Getchar \/ keyboard_try_getchar \/ keyboard_flush_buffer \/ keyboard_discard_pending

-----------------------------------------------------------------------------
(* The keyboard: a key goes down, or repeats, or goes up.                  *)
Sent(key, release) ==
  IF key = "up" THEN <<[code |-> "E0", release |-> FALSE], [code |-> key, release |-> release]>>
  ELSE <<[code |-> key, release |-> release]>>
Sends(key, release) ==
  /\ wire' = wire \o Sent(key, release) /\ Len(wire') <= WIRE
  /\ UNCHANGED <<ring, keyState, reader, expected>>
KeyDown == \E key \in session.keys : held' = held \cup {key} /\ Sends(key, FALSE)
KeyUp == \E key \in held : held' = held \ {key} /\ Sends(key, TRUE)

Next == UNCHANGED session /\ (keyboard_handler \/ Reader \/ KeyDown \/ KeyUp)

Spec == Init /\ [][Next]_vars

(* A reader goes on, and interrupts keep arriving.                         *)
FairSpec ==
  /\ Spec
  /\ WF_vars(UNCHANGED session /\ Getchar) /\ WF_vars(UNCHANGED session /\ keyboard_handler)

-----------------------------------------------------------------------------
(* The ring is a queue: between tail and head are the characters pushed    *)
(* and neither read nor dropped, in order, and a character is lost only    *)
(* when KEYBOARD_BUFFER_SIZE - 1 are waiting; what                         *)
(* keyboard_getchar_buffered is about to return is the oldest of them.     *)
RingIsQueue ==
  /\ TypeOK
  /\ Contents = expected
  /\ pc = "advance" => expected # <<>> /\ c = Head(expected)

(* Once the bytes sent have been received, the driver knows which keys are *)
(* down: "the correctly assembled virtual key code" needs both halves.     *)
KeysTracked ==
  wire = <<>> => upPressed = ("up" \in held) /\ shift = ("shift" \in held)

(* No character and no change of a key is lost or made up, whatever the    *)
(* order of handler, readers, keyboard_flush and keyboard_clear_buffer.    *)
InputKept == RingIsQueue /\ KeysTracked

(* A reader waiting while characters are there comes back.                 *)
GetcharReturns == (pc \in {"test", "hlt"} /\ head # tail) ~> (pc = "idle")
=============================================================================
