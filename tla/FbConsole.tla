----------------------------- MODULE FbConsole -----------------------------
(***************************************************************************)
(* The console that src/drivers/framebuffer.c draws: con_screen, the cells *)
(* it remembers; pix, the cells that are on the display; the ring of rows  *)
(* that have left the screen.  A console is a record; each operator is one *)
(* function of framebuffer.c.                                              *)
(***************************************************************************)
EXTENDS Sheet

CONSTANTS con_cols, con_rows

Bar == <<"bar", 0>>
HelpBar == [x \in 1..con_cols |-> Bar]

con_blank_row(c) == BlankRow(con_cols, c.color)

fb_con_clear(c) ==
  LET blank == BlankRows(con_rows, con_cols, c.color)
  IN [c EXCEPT !.screen = blank, !.pix = blank, !.cx = 0, !.cy = 0, !.offset = 0, !.scrolling = FALSE]

fb_con_init(color) ==
  LET blank == BlankRows(con_rows, con_cols, color)
  IN [screen |-> blank, pix |-> blank, cx |-> 0, cy |-> 0, color |-> color,
      ring |-> [i \in 0..(SCROLLBACK_LINES - 1) |-> BlankRow(con_cols, color)], saved |-> 0,
      offset |-> 0, scrolling |-> FALSE]

fb_con_set_color(c, color) == [c EXCEPT !.color = color]

con_save_row_to_scrollback(c, row) ==
  [c EXCEPT !.ring[c.saved % SCROLLBACK_LINES] = c.screen[row + 1], !.saved = @ + 1]

\* con_scroll: the cells move up, and all rows but the last are drawn again.
con_scroll(c) ==
  LET kept == con_save_row_to_scrollback(c, 0)
      up == Append(Tail(c.screen), con_blank_row(c))
  IN [kept EXCEPT !.screen = up, !.pix = up]

\* The test that both ends of fb_con_putchar make.
IntoView(c) == IF c.cy >= con_rows THEN [con_scroll(c) EXCEPT !.cy = con_rows - 1] ELSE c

SetCell(c, x, y, cell) == [c EXCEPT !.screen[y + 1][x + 1] = cell, !.pix[y + 1][x + 1] = cell]

\* fb_con_putchar, for what is not a control character.
DrawChar(c, ch) ==
  LET wrapped == IF c.cx >= con_cols THEN [c EXCEPT !.cx = 0, !.cy = @ + 1] ELSE c
      at == IntoView(wrapped)
  IN IntoView([SetCell(at, at.cx, at.cy, Cell(ch, at.color)) EXCEPT !.cx = @ + 1])

EraseLeft(c) ==
  IF c.cx = 0 THEN c ELSE SetCell([c EXCEPT !.cx = @ - 1], c.cx - 1, c.cy, Cell(" ", c.color))

fb_con_putchar(c, ch) ==
  IF c.scrolling THEN c
  ELSE CASE ch = FF -> fb_con_clear(c)
         [] ch = NL -> IntoView([c EXCEPT !.cx = 0, !.cy = @ + 1])
         [] ch = CR -> [c EXCEPT !.cx = 0]
         [] ch = TAB -> FoldLeft(DrawChar, c, [i \in 1..(4 - (c.cx % 4)) |-> " "])
         [] ch = BS -> EraseLeft(c)
         [] OTHER -> DrawChar(c, ch)

fb_con_write(c, text) == FoldLeft(fb_con_putchar, c, text)

ConMaxScroll(c) == IF c.saved > con_rows THEN c.saved - con_rows ELSE 0

\* con_redraw_from_scrollback: a whole screen has been saved by now.
con_redraw_from_scrollback(c) ==
  LET offset == IF c.offset > ConMaxScroll(c) THEN ConMaxScroll(c) ELSE c.offset
      rows == [y \in 1..con_rows |-> c.ring[(c.saved - con_rows - offset + y - 1) % SCROLLBACK_LINES]]
  IN [c EXCEPT !.offset = offset, !.screen = rows, !.pix = rows]

con_draw_scroll_help_bar(c) == [c EXCEPT !.pix[con_rows] = HelpBar]

con_scroll_up(c) ==
  IF c.offset < ConMaxScroll(c)
  THEN con_draw_scroll_help_bar(con_redraw_from_scrollback([c EXCEPT !.offset = @ + 1])) ELSE c

con_scroll_down(c) ==
  IF c.offset > 0
  THEN con_draw_scroll_help_bar(con_redraw_from_scrollback([c EXCEPT !.offset = @ - 1])) ELSE c

\* fb_con_enter_scroll_mode, up to its loop.
fb_con_enter_scroll_mode(c) ==
  LET kept == FoldLeft(con_save_row_to_scrollback, c, [y \in 1..con_rows |-> y - 1])
  IN con_draw_scroll_help_bar(con_redraw_from_scrollback([kept EXCEPT !.offset = 0, !.scrolling = TRUE]))

\* And after it; live_cx and live_cy are cx and cy, which nothing has moved.
fb_con_leave_scroll_mode(c) ==
  con_redraw_from_scrollback([c EXCEPT !.offset = 0, !.scrolling = FALSE])

=============================================================================
