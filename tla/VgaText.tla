------------------------------ MODULE VgaText ------------------------------
(***************************************************************************)
(* The text screen of src/drivers/graphices/vga.c: the characters in video *)
(* memory, the shadow copy of the fast mode, and the ring of rows that     *)
(* have left the screen.  A screen is a record; each operator below is one *)
(* function of vga.c.                                                      *)
(***************************************************************************)
EXTENDS Sheet

CONSTANTS VGA_WIDTH, VGA_HEIGHT

\* Columns that the help line and the line number of scroll mode cover.
HelpCols == 2..VGA_WIDTH
IndicatorCols == {VGA_WIDTH}
Help == <<"help", 0>>
Indicator == <<"line", 0>>

VgaRows == 0..(VGA_HEIGHT - 1)

vga_update_cursor(v) ==
  IF v.updates /\ ~v.fast THEN [v EXCEPT !.hw = <<v.col, v.row>>] ELSE v

vga_flush_row(v, row) ==
  IF ~v.fast \/ row \notin v.dirty THEN v
  ELSE [v EXCEPT !.buf[row + 1] = v.shadow[row + 1], !.dirty = @ \ {row}]

vga_flush_all(v) ==
  IF v.fast THEN [v EXCEPT !.buf = [y \in 1..VGA_HEIGHT |-> IF y - 1 \in v.dirty THEN v.shadow[y] ELSE v.buf[y]],
                           !.dirty = {}]
  ELSE v

vga_write_cell(v, row, col, entry) ==
  IF v.fast THEN [v EXCEPT !.shadow[row + 1][col + 1] = entry, !.dirty = @ \cup {row}]
  ELSE [v EXCEPT !.buf[row + 1][col + 1] = entry]

vga_clear(v) ==
  LET blank == BlankRows(VGA_HEIGHT, VGA_WIDTH, v.color)
      w == IF v.fast THEN vga_flush_all([v EXCEPT !.shadow = blank, !.dirty = VgaRows])
           ELSE [v EXCEPT !.buf = blank]
  IN vga_update_cursor([w EXCEPT !.row = 0, !.col = 0])

vga_init(color) ==
  vga_clear([buf |-> <<>>, shadow |-> BlankRows(VGA_HEIGHT, VGA_WIDTH, color), dirty |-> VgaRows,
             row |-> 0, col |-> 0, color |-> color, fast |-> FALSE, bulk |-> FALSE, updates |-> TRUE,
             ring |-> [i \in 0..(SCROLLBACK_LINES - 1) |-> BlankRow(VGA_WIDTH, color)], saved |-> 0,
             offset |-> 0, scrolling |-> FALSE, hw |-> <<0, 0>>, cursor |-> TRUE])

vga_set_fast_mode(v) == [v EXCEPT !.fast = TRUE, !.shadow = v.buf, !.dirty = {}, !.cursor = FALSE]

\* Mutant: counts the row before it is stored.
SaveAfterCount(v, row) ==
  [v EXCEPT !.ring[(v.saved + 1) % SCROLLBACK_LINES] = v.buf[row + 1], !.saved = @ + 1]

save_line_to_scrollback(v, row) ==
  [v EXCEPT !.ring[v.saved % SCROLLBACK_LINES] = v.buf[row + 1], !.saved = @ + 1]

ShiftUp(rows, color) == Append(Tail(rows), BlankRow(VGA_WIDTH, color))

vga_scroll(v) ==
  IF v.fast THEN vga_flush_all([v EXCEPT !.shadow = ShiftUp(@, v.color), !.dirty = VgaRows])
  ELSE LET w == save_line_to_scrollback(v, 0) IN [w EXCEPT !.buf = ShiftUp(@, v.color)]

vga_newline(v) ==
  LET w == vga_flush_row(v, v.row)
      down == [w EXCEPT !.row = @ + 1, !.col = 0]
  IN vga_update_cursor(IF down.row = VGA_HEIGHT THEN [vga_scroll(down) EXCEPT !.row = VGA_HEIGHT - 1] ELSE down)

vga_putchar_at(v, ch, x, y) ==
  LET w == vga_write_cell(v, y, x, Cell(ch, v.color))
  IN IF v.fast /\ ~v.bulk THEN vga_flush_row(w, y) ELSE w

\* vga_putchar, for what is not a control character.
PutPlain(v, ch) ==
  LET w == [vga_putchar_at(v, ch, v.col, v.row) EXCEPT !.col = @ + 1]
  IN IF w.col = VGA_WIDTH THEN vga_newline(w) ELSE vga_update_cursor(w)

PutBackspace(v) ==
  IF v.col = 0 THEN v
  ELSE LET w == vga_write_cell([v EXCEPT !.col = @ - 1], v.row, v.col - 1, Cell(" ", v.color))
       IN vga_flush_row(vga_update_cursor(w), v.row)

TabSpaces(v) == [i \in 1..(4 - (v.col % 4)) |-> " "]

vga_putchar(v, ch) ==
  CASE ch = NL -> vga_newline(v)
    [] ch = CR -> vga_update_cursor([v EXCEPT !.col = 0])
    [] ch = BS -> PutBackspace(v)
    [] ch = TAB -> FoldLeft(PutPlain, v, TabSpaces(v))
    [] OTHER -> PutPlain(v, ch)

\* What vga_putchar hands on to the output hook.
ToHook(v, ch) ==
  CASE ch = BS -> IF v.col > 0 THEN <<BS>> ELSE <<>>
    [] ch = TAB -> TabSpaces(v)
    [] OTHER -> <<ch>>

\* The end of vga_write: the flags come back, then the cursor and the row.
EndWrite(v) == vga_flush_row(vga_update_cursor([v EXCEPT !.bulk = FALSE, !.updates = TRUE]), v.row)

\* vga_write: the screen, and all that the hook was given.
vga_write(v, text) ==
  LET step(s, ch) == [v |-> vga_putchar(s.v, ch), hook |-> s.hook \o ToHook(s.v, ch)]
      done == FoldLeft(step, [v |-> [v EXCEPT !.bulk = TRUE, !.updates = FALSE], hook |-> <<>>], text)
  IN [done EXCEPT !.v = EndWrite(@)]

\* The rows of the ring from line `from` on.
RingRows(ring, from, height) == [y \in 1..height |-> ring[(from + y - 1) % SCROLLBACK_LINES]]

WithIndicator(row) == [x \in 1..VGA_WIDTH |-> IF x \in IndicatorCols THEN Indicator ELSE row[x]]
WithHelp(row) == [x \in 1..VGA_WIDTH |-> IF x \in HelpCols THEN Help ELSE row[x]]

\* Scroll mode has saved a whole screen: there are always VGA_HEIGHT lines.
vga_redraw_from_scrollback(v) ==
  LET rows == RingRows(v.ring, v.saved - VGA_HEIGHT - v.offset, VGA_HEIGHT)
  IN [v EXCEPT !.buf = IF v.offset > 0 THEN [rows EXCEPT ![1] = WithIndicator(@)] ELSE rows]

vga_scroll_up(v) ==
  IF v.offset < v.saved - VGA_HEIGHT THEN vga_redraw_from_scrollback([v EXCEPT !.offset = @ + 1]) ELSE v

vga_scroll_down(v) ==
  IF v.offset > 0 THEN vga_redraw_from_scrollback([v EXCEPT !.offset = @ - 1]) ELSE v

\* vga_enter_scroll_mode, up to its loop.
vga_enter_scroll_mode(v) ==
  LET kept == FoldLeft(save_line_to_scrollback, v, [y \in 1..VGA_HEIGHT |-> y - 1])
  IN [kept EXCEPT !.offset = 0, !.scrolling = TRUE, !.cursor = FALSE, !.buf[VGA_HEIGHT] = WithHelp(@)]

\* And after it.
vga_leave_scroll_mode(v) ==
  vga_update_cursor([vga_redraw_from_scrollback([v EXCEPT !.offset = 0, !.scrolling = FALSE])
                       EXCEPT !.cursor = TRUE])
=============================================================================
