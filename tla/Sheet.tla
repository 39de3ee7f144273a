------------------------------- MODULE Sheet -------------------------------
(***************************************************************************)
(* What a text console stands for: a writer on an endless sheet of paper.  *)
(* The screen of vga.c and the console of framebuffer.c each show the last *)
(* rows of such a sheet; both scroll, keep the rows that leave the screen  *)
(* in a ring and paint them again from there.  The sheet does none of      *)
(* that, which makes it the reference that the two are compared with.      *)
(***************************************************************************)
EXTENDS Integers, Sequences, SequencesExt

\* The rows that each of the two rings holds.
CONSTANT SCROLLBACK_LINES

NL == "nl"
CR == "cr"
BS == "bs"
TAB == "tab"
FF == "ff"

Cell(ch, color) == <<ch, color>>
BlankRow(width, color) == [x \in 1..width |-> Cell(" ", color)]
BlankRows(height, width, color) == [y \in 1..height |-> BlankRow(width, color)]

\* A sheet whose last `height` rows are empty, with the writer at their start.
Fresh(rows, height, width, color) ==
  [rows |-> rows \o BlankRows(height, width, color), r |-> Len(rows), c |-> 0]

LastRows(sheet, height) == SubSeq(sheet.rows, Len(sheet.rows) - height + 1, Len(sheet.rows))
Above(sheet, height) == SubSeq(sheet.rows, 1, Len(sheet.rows) - height)

\* The writer goes to the next row, which is added when there is none.
Down(sheet, width, color) ==
  [rows |-> IF sheet.r + 1 = Len(sheet.rows) THEN Append(sheet.rows, BlankRow(width, color)) ELSE sheet.rows,
   r |-> sheet.r + 1, c |-> 0]

Ink(sheet, ch, color) ==
  [sheet EXCEPT !.rows[sheet.r + 1][sheet.c + 1] = Cell(ch, color), !.c = @ + 1]

\* One character.  An eager writer goes down when it has filled a row, the
\* other one when it needs the next row.
Plain(sheet, ch, width, color, eager) ==
  LET at == IF sheet.c = width THEN Down(sheet, width, color) ELSE sheet
      done == Ink(at, ch, color)
  IN IF eager /\ done.c = width THEN Down(done, width, color) ELSE done

Write(sheet, ch, height, width, color, eager) ==
  CASE ch = NL -> Down(sheet, width, color)
    [] ch = CR -> [sheet EXCEPT !.c = 0]
    [] ch = BS -> IF sheet.c = 0 THEN sheet
                  ELSE [sheet EXCEPT !.rows[sheet.r + 1][sheet.c] = Cell(" ", color), !.c = @ - 1]
    [] ch = TAB -> FoldLeft(LAMBDA s, i : Plain(s, " ", width, color, eager), sheet,
                            [i \in 1..(4 - (sheet.c % 4)) |-> i])
    [] ch = FF -> Fresh(Above(sheet, height), height, width, color)
    [] OTHER -> Plain(sheet, ch, width, color, eager)

WriteAll(sheet, text, height, width, color, eager) ==
  FoldLeft(LAMBDA s, ch : Write(s, ch, height, width, color, eager), sheet, text)

\* The shown rows are put on the sheet a second time, the writer in them.
Repeat(sheet, height) ==
  [sheet EXCEPT !.rows = @ \o LastRows(sheet, height), !.r = @ + height]
=============================================================================
