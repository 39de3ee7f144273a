------------------------------- MODULE Editor -------------------------------
(***************************************************************************)
(* The editor user/programs/edit.c.  Its state is a record: the lines, the *)
(* cursor, the first line in view, the mode, the command being typed and   *)
(* the settings that bear on the text.  Each operator is one function of   *)
(* edit.c.  Colours and messages are left out; the two bars at the bottom  *)
(* of the screen are rows of their own letter.                             *)
(***************************************************************************)
EXTENDS Integers, Sequences, SequencesExt

CONSTANTS MAX_LINES, LINE_CAP, MAX_FILE_SIZE, GUTTER_WIDTH

LF == "nl"
Blanks == {" ", "\t"}

\* init_screen_size and the initial values, for a display within its limits.
NewEditor(cols, rows) ==
  [SCREEN_COLS |-> cols, EDIT_ROWS |-> rows - 2, lines |-> << <<>> >>, row |-> 0, col |-> 0, top |-> 0, insert |-> TRUE,
   cmd_active |-> FALSE, cmd |-> "",   modified |-> FALSE, drawn |-> FALSE, line_numbers |-> TRUE, auto_indent |-> TRUE, tab_width |-> 4]

LineAt(e, i) == e.lines[i + 1]
CursorLine(e) == LineAt(e, e.row)

\* load_into_lines: what is over a limit is dropped, and so is the line
\* break after the last line that fits.
load_into_lines(e, text) ==
  LET take(ls, ch) ==
        IF ch = LF THEN IF Len(ls) < MAX_LINES THEN Append(ls, <<>>) ELSE ls
        ELSE IF Len(Last(ls)) + 1 < LINE_CAP THEN Append(Front(ls), Append(Last(ls), ch)) ELSE ls
  IN [e EXCEPT !.lines = FoldLeft(take, << <<>> >>, text), !.row = 0, !.col = 0, !.top = 0]

\* What build_file_buf writes, when it fits MAX_FILE_SIZE.
FileText(lines) == FoldLeft(LAMBDA text, ln : text \o <<LF>> \o ln, Head(lines), Tail(lines))

\* A file that load_into_lines takes whole.
Fits(e, text) == FileText(load_into_lines(e, text).lines) = text

Clamp(low, x, high) == IF x < low THEN low ELSE IF x > high THEN high ELSE x

clamp_cursor(e) ==
  LET row == Clamp(0, e.row, Len(e.lines) - 1)
  IN [e EXCEPT !.row = row, !.col = Clamp(0, @, Len(LineAt(e, row)))]

\* Mutant: one row too few.
UpdateScrollShort(e) ==
  LET top == IF e.row < e.top THEN e.row ELSE e.top
  IN [e EXCEPT !.top = IF e.row > top + e.EDIT_ROWS THEN e.row - (e.EDIT_ROWS - 1) ELSE top]

update_scroll(e) ==
  LET top == IF e.row < e.top THEN e.row ELSE e.top
  IN [e EXCEPT !.top = IF e.row >= top + e.EDIT_ROWS THEN e.row - (e.EDIT_ROWS - 1) ELSE top]

TabStop(e, col) == col + e.tab_width - (col % e.tab_width)

\* visual_col stops at the edge of the screen.
visual_col(e, ln, idx) ==
  FoldLeft(LAMBDA col, ch : IF col >= e.SCREEN_COLS THEN col ELSE IF ch = "\t" THEN TabStop(e, col) ELSE col + 1,
           0, SubSeq(ln, 1, idx))

----------------------------------------------------------------------------
(* Rendering *)

Spaces(n) == [i \in 1..n |-> " "]
Padded(text, n) == SubSeq(text \o Spaces(n), 1, n)

\* A line number, right-justified before one space.
Number(n) == <<"1", "2", "3", "4", "5", "6", "7", "8", "9">>[n]

Expanded(e, ln) ==
  FoldLeft(LAMBDA out, ch : IF ch = "\t" THEN out \o Spaces(e.tab_width - (Len(out) % e.tab_width)) ELSE Append(out, ch),
           <<>>, ln)

\* render_line: the text of one row, with its line break.
render_line(e, row_index) ==
  LET file_row == e.top + row_index
      there == file_row < Len(e.lines)
      gutter == IF ~(e.line_numbers /\ e.SCREEN_COLS > GUTTER_WIDTH + 1) THEN <<>>
                ELSE IF there THEN Spaces(GUTTER_WIDTH - 2) \o <<Number(file_row + 1), " ">> ELSE Spaces(GUTTER_WIDTH)
      width == e.SCREEN_COLS - Len(gutter)
      content == Padded(IF there THEN Expanded(e, LineAt(e, file_row)) ELSE <<>>, width)
      vis == visual_col(e, CursorLine(e), e.col)
      marked == IF file_row # e.row THEN content
                ELSE [content EXCEPT ![IF vis >= width THEN width ELSE vis + 1] = "_"]
  IN gutter \o marked \o <<LF>>

\* render_screen, after the clear: the rows, the status bar and, without a
\* line break, the message bar, each in one write.
render_screen(e) ==
  [r \in 1..e.EDIT_ROWS |-> render_line(e, r - 1)]
    \o << [x \in 1..e.SCREEN_COLS |-> "S"] \o <<LF>>, [x \in 1..e.SCREEN_COLS |-> "M"] >>

----------------------------------------------------------------------------
(* Editing *)

SetLine(e, ln) == [e EXCEPT !.lines[e.row + 1] = ln]

\* Mutant: the change is not noted.
InsertUnmarked(e, ch) ==
  IF Len(CursorLine(e)) + 1 >= LINE_CAP THEN e
  ELSE [SetLine(e, InsertAt(CursorLine(e), e.col + 1, ch)) EXCEPT !.col = @ + 1]

insert_char(e, ch) ==
  IF Len(CursorLine(e)) + 1 >= LINE_CAP THEN e
  ELSE [SetLine(e, InsertAt(CursorLine(e), e.col + 1, ch)) EXCEPT !.col = @ + 1, !.modified = TRUE]

delete_char_at_cursor(e) ==
  IF e.col >= Len(CursorLine(e)) THEN e
  ELSE [SetLine(e, RemoveAt(CursorLine(e), e.col + 1)) EXCEPT !.modified = TRUE]

\* Mutant: the cursor stays at the start of the line.
JoinAtStart(e) ==
  LET prev == LineAt(e, e.row - 1) IN
  IF Len(prev) + Len(CursorLine(e)) >= LINE_CAP THEN e
  ELSE [e EXCEPT !.lines = RemoveAt([@ EXCEPT ![e.row] = prev \o CursorLine(e)], e.row + 1),
                 !.row = @ - 1, !.col = 0, !.modified = TRUE]

\* backspace_char at the start of a line: the line joins the one before.
JoinLines(e) ==
  LET prev == LineAt(e, e.row - 1) IN
  IF Len(prev) + Len(CursorLine(e)) >= LINE_CAP THEN e
  ELSE [e EXCEPT !.lines = RemoveAt([@ EXCEPT ![e.row] = prev \o CursorLine(e)], e.row + 1),
                 !.row = @ - 1, !.col = Len(prev), !.modified = TRUE]

backspace_char(e) ==
  IF e.col > 0
  THEN [SetLine(e, RemoveAt(CursorLine(e), e.col)) EXCEPT !.col = @ - 1, !.modified = TRUE]
  ELSE IF e.row = 0 THEN e ELSE JoinLines(e)

LeadingBlanks(ln) ==
  SubSeq(ln, 1, CHOOSE n \in 0..Len(ln) : /\ \A i \in 1..n : ln[i] \in Blanks
                                         /\ n < Len(ln) => ln[n + 1] \notin Blanks)

insert_newline(e) ==
  IF Len(e.lines) + 1 > MAX_LINES THEN e
  ELSE LET ln == CursorLine(e)
           before == SubSeq(ln, 1, e.col)
           after == SubSeq(ln, e.col + 1, Len(ln))
           indent == IF e.auto_indent THEN LeadingBlanks(before) ELSE <<>>
           fits == Len(indent) + Len(after) < LINE_CAP
           new == IF fits THEN indent \o after ELSE after
       IN [e EXCEPT !.lines = InsertAt([@ EXCEPT ![e.row + 1] = before], e.row + 2, new),
                    !.row = @ + 1, !.col = IF fits THEN Len(indent) ELSE 0, !.modified = TRUE]

\* The Tab key: spaces up to the next tab stop.
InsertTab(e) ==
  FoldLeft(insert_char, e, Spaces(e.tab_width - (visual_col(e, CursorLine(e), e.col) % e.tab_width)))

handle_insert_key(e, key) ==
  CASE key = "esc" -> [e EXCEPT !.insert = FALSE]
    [] key = LF -> insert_newline(e)
    [] key = "bs" -> backspace_char(e)
    [] key = "tab" -> InsertTab(e)
    [] OTHER -> insert_char(e, key)

\* handle_command_key, while no command is being typed.
handle_command_key(e, key) ==
  CASE key = "i" -> [e EXCEPT !.insert = TRUE]
    [] key = ":" -> [e EXCEPT !.cmd_active = TRUE, !.cmd = ""]
    [] key = "h" -> IF e.col > 0 THEN [e EXCEPT !.col = @ - 1] ELSE e
    [] key = "l" -> IF e.col < Len(CursorLine(e)) THEN [e EXCEPT !.col = @ + 1] ELSE e
    [] key = "k" -> IF e.row > 0 THEN clamp_cursor([e EXCEPT !.row = @ - 1]) ELSE e
    [] key = "j" -> IF e.row + 1 < Len(e.lines) THEN clamp_cursor([e EXCEPT !.row = @ + 1]) ELSE e
    [] key = "x" -> delete_char_at_cursor(e)
    [] OTHER -> e

\* The same, while one is: Enter is an action of its own.
TypeCommand(e, cmd) == [e EXCEPT !.cmd = cmd]
CancelCommand(e) == [e EXCEPT !.cmd_active = FALSE, !.cmd = ""]

\* The commands that only change how the text is shown or typed.
exec_set_cmd(e, cmd) ==
  CASE cmd = "set linenumbers" -> [e EXCEPT !.line_numbers = ~@]
    [] cmd = "set autoindent" -> [e EXCEPT !.auto_indent = ~@]
    [] cmd = "set tabwidth" -> [e EXCEPT !.tab_width = 2]
    [] OTHER -> e
=============================================================================
