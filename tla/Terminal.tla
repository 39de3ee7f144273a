------------------------------ MODULE Terminal ------------------------------
(***************************************************************************)
(* The display of NumOS and those who write to it: the kernel, through     *)
(* vga.c and the hook that copies its output to the framebuffer console; a *)
(* program, through the system calls, which use the framebuffer console    *)
(* when there is one; the scroll mode of both screens; and the editor.     *)
(* Nothing preempts a task in the kernel, so each write is one step; the   *)
(* keyboard interrupt adds keys between any two steps.                     *)
(***************************************************************************)
EXTENDS VgaText, FbConsole, Editor, FiniteSets

CONSTANTS
  Worlds,       \* the machines and disks that are looked at
  Texts,        \* what the kernel and the programs print
  TypedKeys,    \* keys that are typed in insert mode
  Commands,     \* what is typed after a colon
  KeyLimit      \* keys that wait for scroll mode

VARIABLES
  world,        \* [fast, want, works, file, acts, uses], which never changes
  out,          \* [vga, con, fb, paper, sheet]: the screens and their sheets
  prog,         \* "boot", "idle", "scroll" or "edit"
  scroll,       \* the loop of scroll mode and the keys
  ed,           \* the editor
  disk,         \* the text of the file, or NoFile
  failed,       \* the file may differ: cut short when loaded, or a failed save
  left          \* inputs still to come

vars == <<world, out, prog, scroll, ed, disk, failed, left>>

NoFile == <<"none">>

----------------------------------------------------------------------------
(* Writing *)

OnVga(o, text) == WriteAll(o.paper, text, VGA_HEIGHT, VGA_WIDTH, o.vga.color, TRUE)
OnFb(o, text) == WriteAll(o.sheet, text, con_rows, con_cols, o.con.color, FALSE)

\* vga_write, with the hook that fb_activate_mapped_mode sets.
KernelWrite(o, text) ==
  LET r == vga_write(o.vga, text) IN
  [o EXCEPT !.vga = r.v, !.paper = OnVga(o, text),
            !.con = IF o.fb THEN fb_con_write(@, r.hook) ELSE @,
            !.sheet = IF o.fb THEN OnFb(o, r.hook) ELSE @]

\* vga_clear, with the hook.
KernelClear(o) ==
  [o EXCEPT !.vga = vga_clear(@), !.paper = Write(@, FF, VGA_HEIGHT, VGA_WIDTH, o.vga.color, TRUE),
            !.con = IF o.fb THEN fb_con_putchar(@, FF) ELSE @,
            !.sheet = IF o.fb THEN OnFb(o, <<FF>>) ELSE @]

\* sys_write, sys_puts and sys_fb_write, for the screen.
sys_write(o, text) ==
  IF o.fb THEN [o EXCEPT !.con = fb_con_write(@, text), !.sheet = OnFb(o, text)] ELSE KernelWrite(o, text)

sys_fb_clear(o) ==
  IF o.fb THEN [o EXCEPT !.con = fb_con_clear(@), !.sheet = OnFb(o, <<FF>>)] ELSE KernelClear(o)

sys_fb_setcolor(o, color) == IF o.fb THEN [o EXCEPT !.con = fb_con_set_color(@, color)] ELSE o

----------------------------------------------------------------------------
(* Starting the display *)

\* graphics_activate_auto: the wish, then VGA, which always works.
graphics_activate_auto(want, works) == IF want \in works THEN want ELSE "VGA"

\* fb_activate_mapped_mode: a new console, the hook, two lines about it.
fb_activate_mapped_mode(o) ==
  LET there == [o EXCEPT !.fb = TRUE, !.con = fb_con_clear(fb_con_init(0)),
                         !.sheet = Fresh(<<>>, con_rows, con_cols, 0)]
  IN KernelWrite(KernelWrite(there, <<"m", NL>>), <<"m", NL>>)

NewScreens ==
  [vga |-> vga_init(0), con |-> fb_con_init(0), fb |-> FALSE,
   paper |-> Fresh(<<>>, VGA_HEIGHT, VGA_WIDTH, 0), sheet |-> Fresh(<<>>, con_rows, con_cols, 0)]

NoScroll == [pc |-> "drain", caller |-> "user", keys |-> <<>>, held |-> {}, repeat |-> "none", due |-> TRUE]

Init ==
  /\ world \in Worlds
  /\ out = NewScreens /\ prog = "boot" /\ scroll = NoScroll
  /\ ed = NewEditor(con_cols, con_rows) /\ disk = world.file
  /\ failed = FALSE /\ left = world.acts

\* The part of kernel_main that starts the display.
Boot ==
  /\ prog = "boot" /\ prog' = "idle"
  /\ LET o == IF world.fast THEN [out EXCEPT !.vga = vga_set_fast_mode(@)] ELSE out
         backend == graphics_activate_auto(world.want, world.works)
     IN out' = IF backend \in {"VESA", "BGA"} THEN fb_activate_mapped_mode(o) ELSE [o EXCEPT !.fb = FALSE]
  /\ UNCHANGED <<world, scroll, ed, disk, failed, left>>

\* An input: it is one that this world looks at, and uses up one.
Input(kind) == kind \in world.uses /\ left > 0 /\ left' = left - 1

Show(o) == prog = "idle" /\ out' = o /\ UNCHANGED <<world, prog, scroll, ed, disk, failed>>

KernelPrints == Input("print") /\ \E text \in Texts : Show(KernelWrite(out, text))
KernelClears == Input("clear") /\ Show(KernelClear(out))
KernelColors == Input("color") /\ Show([out EXCEPT !.vga.color = 1 - @])
ProgramPrints == Input("print") /\ \E text \in Texts : Show(sys_write(out, text))
ProgramClears == Input("clear") /\ Show(sys_fb_clear(out))
ProgramColors == Input("color") /\ Show(sys_fb_setcolor(out, 1 - out.con.color))

----------------------------------------------------------------------------
(* Scroll mode *)

\* sys_con_scroll, and the S key of kernel_main with the lines it prints.
\* An arrow key may be down already.
EnterScroll(caller) ==
  /\ Input("scroll") /\ prog = "idle"
  /\ LET o == IF caller = "kernel" THEN KernelWrite(out, <<NL, "e", NL>>) ELSE out IN
     \/ /\ o.fb
        /\ out' = [o EXCEPT !.con = fb_con_enter_scroll_mode(@), !.sheet = Repeat(@, con_rows)]
        /\ prog' = "scroll" /\ \E held \in {{}, {"up"}} : scroll' = [NoScroll EXCEPT !.caller = caller, !.held = held]
     \/ /\ ~o.fb /\ ~o.vga.fast
        /\ out' = [o EXCEPT !.vga = vga_enter_scroll_mode(@), !.paper = Repeat(@, VGA_HEIGHT)]
        /\ prog' = "scroll" /\ \E held \in {{}, {"up"}} : scroll' = [NoScroll EXCEPT !.caller = caller, !.held = held]
     \/ /\ ~o.fb /\ o.vga.fast
        /\ out' = LET told == KernelWrite(o, <<NL, "d", NL>>)
                  IN IF caller = "kernel" THEN KernelWrite(told, <<NL, "p">>) ELSE told
        /\ UNCHANGED <<prog, scroll>>
  /\ UNCHANGED <<world, ed, disk, failed>>

ScrollBy(o, key) ==
  CASE key = "up" -> IF o.fb THEN [o EXCEPT !.con = con_scroll_up(@)] ELSE [o EXCEPT !.vga = vga_scroll_up(@)]
    [] key = "down" -> IF o.fb THEN [o EXCEPT !.con = con_scroll_down(@)] ELSE [o EXCEPT !.vga = vga_scroll_down(@)]
    [] OTHER -> o

\* The keyboard interrupt: an arrow is also held until it is let go.
Press(key) ==
  /\ prog = "scroll" /\ left > 0 /\ left' = left - 1
  /\ Len(scroll.keys) < KeyLimit
  /\ scroll' = [scroll EXCEPT !.keys = Append(@, key), !.held = @ \cup ({key} \cap {"up", "down"})]
  /\ UNCHANGED <<world, out, prog, ed, disk, failed>>

Release(key) ==
  /\ prog = "scroll" /\ key \in scroll.held
  /\ scroll' = [scroll EXCEPT !.held = @ \ {key}]
  /\ UNCHANGED <<world, out, prog, ed, disk, failed, left>>

Elapse ==
  /\ prog = "scroll" /\ ~scroll.due
  /\ scroll' = [scroll EXCEPT !.due = TRUE]
  /\ UNCHANGED <<world, out, prog, ed, disk, failed, left>>

\* One turn of the loop that takes the waiting keys; Q ends scroll mode.
TakeKey ==
  /\ prog = "scroll" /\ scroll.pc = "drain" /\ scroll.keys # <<>> /\ Head(scroll.keys) # "q"
  /\ LET key == Head(scroll.keys) IN
     /\ out' = ScrollBy(out, CASE key = "w" -> "up" [] key = "s" -> "down" [] OTHER -> key)
     /\ scroll' = [scroll EXCEPT !.keys = Tail(@),
                     !.repeat = CASE key \in {"up", "down"} -> key [] key \in {"w", "s"} -> "none" [] OTHER -> @,
                     !.due = IF key \in {"up", "down"} THEN FALSE ELSE @]
  /\ UNCHANGED <<world, prog, ed, disk, failed, left>>

LeaveScroll ==
  /\ prog = "scroll" /\ scroll.pc = "drain" /\ scroll.keys # <<>> /\ Head(scroll.keys) = "q"
  /\ LET back == IF out.fb THEN [out EXCEPT !.con = fb_con_leave_scroll_mode(@)]
                 ELSE [out EXCEPT !.vga = vga_leave_scroll_mode(@)]
     IN out' = IF scroll.caller = "kernel" THEN KernelWrite(back, <<NL, "p">>) ELSE back
  /\ prog' = "idle" /\ scroll' = NoScroll
  /\ UNCHANGED <<world, ed, disk, failed, left>>

NoKeyLeft ==
  /\ prog = "scroll" /\ scroll.pc = "drain" /\ scroll.keys = <<>>
  /\ scroll' = [scroll EXCEPT !.pc = "poll"]
  /\ UNCHANGED <<world, out, prog, ed, disk, failed, left>>

\* The keys that are held: one alone repeats, first after a longer delay.
PollHeld ==
  /\ prog = "scroll" /\ scroll.pc = "poll"
  /\ IF Cardinality(scroll.held) # 1
     THEN /\ scroll' = [scroll EXCEPT !.pc = "drain", !.repeat = "none", !.due = TRUE]
          /\ out' = out
     ELSE LET key == CHOOSE k \in scroll.held : TRUE
              again == scroll.repeat = key /\ scroll.due
          IN /\ out' = IF again THEN ScrollBy(out, key) ELSE out
             /\ scroll' = [scroll EXCEPT !.pc = "drain", !.repeat = key, !.due = FALSE]
  /\ UNCHANGED <<world, prog, ed, disk, failed, left>>

----------------------------------------------------------------------------
(* The editor *)

\* init_screen_size, from what sys_fb_info says of the display.
init_screen_size == IF out.fb THEN NewEditor(con_cols, con_rows) ELSE NewEditor(VGA_WIDTH, VGA_HEIGHT)

\* load_file: all of the file, or less when it does not open or a read fails.
load_file(old) == {SubSeq(old, 1, n) : n \in {0, Len(old) \div 2, Len(old)}}

\* main up to its loop.  Opening an existing file may fail, and then it is
\* taken for a new one; a read that fails counts as the end; the editor
\* does not start with a file that is too large or cannot be created.
EditStart ==
  /\ Input("edit") /\ prog = "idle"
  /\ LET old == IF disk = NoFile THEN <<>> ELSE disk
         new == init_screen_size IN
     \/ /\ Len(old) <= MAX_FILE_SIZE /\ prog' = "edit" /\ UNCHANGED out
        /\ \E text \in load_file(old) :
             ed' = load_into_lines(new, text) /\ failed' = ~(text = old /\ Fits(new, old))
        /\ disk' = old
     \/ /\ out' = sys_write(out, <<"t", NL>>)
        /\ UNCHANGED <<prog, ed, disk, failed>>
  /\ UNCHANGED <<world, scroll>>

RECURSIVE Written(_, _)
\* The screens after a number of writes.
Written(o, texts) ==
  IF texts = <<>> THEN {o} ELSE UNION {Written(p, Tail(texts)) : p \in {sys_write(o, Head(texts))}}

\* The top of the loop, up to sys_input.
EditShow ==
  /\ prog = "edit" /\ ~ed.drawn
  /\ LET e == update_scroll(clamp_cursor(ed))
         cleared == sys_fb_clear(sys_fb_setcolor(out, 1))
     IN ed' = [e EXCEPT !.drawn = TRUE] /\ out' \in Written(cleared, render_screen(e))
  /\ UNCHANGED <<world, prog, scroll, disk, failed, left>>

Edited(e) ==
  /\ prog = "edit" /\ ed.drawn /\ left > 0 /\ left' = left - 1
  /\ ed' = [e EXCEPT !.drawn = FALSE]
  /\ UNCHANGED <<world, out, prog, scroll, disk, failed>>

InsertKey == ed.insert /\ \E key \in TypedKeys : Edited(handle_insert_key(ed, key))
CommandKey ==
  /\ ~ed.insert /\ ~ed.cmd_active
  /\ \E key \in {"i", ":", "h", "l", "k", "j", "x"} : Edited(handle_command_key(ed, key))
TypesCommand == ~ed.insert /\ ed.cmd_active /\ ed.cmd = "" /\ \E cmd \in Commands : Edited(TypeCommand(ed, cmd))
Cancels == ~ed.insert /\ ed.cmd_active /\ Edited(CancelCommand(ed))

\* What save_file leaves: the text; or the old file, when it does not open;
\* or a part of the text, when a write fails.
save_file(text) ==
  {[ok |-> TRUE, disk |-> text], [ok |-> FALSE, disk |-> disk]}
    \cup {[ok |-> FALSE, disk |-> SubSeq(text, 1, n)] : n \in 0..(Len(text) - 1)}

do_save ==
  LET text == FileText(ed.lines)
  IN IF Len(text) > MAX_FILE_SIZE THEN {[ok |-> FALSE, disk |-> disk]} ELSE save_file(text)

Quits ==
  /\ prog' = "idle" /\ out' = sys_fb_clear(out) /\ ed' = init_screen_size

\* The Enter key: exec_command.
RunCommand ==
  /\ prog = "edit" /\ ed.drawn /\ ~ed.insert /\ ed.cmd_active /\ left > 0 /\ left' = left - 1
  /\ LET e == [CancelCommand(ed) EXCEPT !.drawn = FALSE] IN
     \/ /\ ed.cmd \in {"w", "wq"}
        /\ \E s \in do_save :
             LET saved == [e EXCEPT !.modified = @ /\ ~s.ok] IN
             /\ disk' = s.disk /\ failed' = (IF s.ok THEN FALSE ELSE failed \/ s.disk # disk)
             /\ IF ed.cmd = "wq" /\ ~saved.modified THEN Quits ELSE ed' = saved /\ UNCHANGED <<prog, out>>
     \/ /\ ed.cmd = "q!" \/ (ed.cmd = "q" /\ ~ed.modified)
        /\ Quits /\ UNCHANGED <<disk, failed>>
     \/ /\ ed.cmd = "q" => ed.modified
        /\ ed.cmd \notin {"w", "wq", "q!"}
        /\ ed' = exec_set_cmd(e, ed.cmd) /\ UNCHANGED <<prog, out, disk, failed>>
  /\ UNCHANGED <<world, scroll>>

----------------------------------------------------------------------------
Next ==
  \/ Boot \/ KernelPrints \/ KernelClears \/ KernelColors \/ ProgramPrints \/ ProgramClears \/ ProgramColors
  \/ \E caller \in {"kernel", "user"} : EnterScroll(caller)
  \/ \E key \in {"up", "down", "w", "s", "q", "other"} : Press(key)
  \/ \E key \in {"up", "down"} : Release(key)
  \/ Elapse \/ TakeKey \/ LeaveScroll \/ NoKeyLeft \/ PollHeld
  \/ EditStart \/ EditShow \/ InsertKey \/ CommandKey \/ TypesCommand \/ Cancels \/ RunCommand

Spec == Init /\ [][Next]_vars

----------------------------------------------------------------------------
(* Properties *)

\* The last rows that a ring can still hold, of all that were saved.
InRing(line, saved) == line > saved - SCROLLBACK_LINES /\ line <= saved

\* Outside scroll mode both displays show the last rows of what was
\* written, with the cursor at the writer, whatever the order of scrolling,
\* wrapping, saving and restoring; in fast mode no row is left behind in the
\* shadow copy, and the pixels are those that con_screen remembers.
ShowsWhatWasWritten ==
  prog # "scroll" =>
    /\ out.vga.buf = LastRows(out.paper, VGA_HEIGHT)
    /\ Len(out.paper.rows) - VGA_HEIGHT + out.vga.row = out.paper.r /\ out.vga.col = out.paper.c
    /\ IF out.vga.fast THEN out.vga.dirty = {} /\ out.vga.shadow = out.vga.buf
       ELSE out.vga.hw = <<out.vga.col, out.vga.row>> /\ out.vga.cursor
    /\ out.fb => /\ out.con.pix = LastRows(out.sheet, con_rows) /\ out.con.screen = out.con.pix
                 /\ Len(out.sheet.rows) - con_rows + out.con.cy = out.sheet.r /\ out.con.cx = out.sheet.c

\* The view of scroll mode is a window on what was written: as far back as
\* the ring reaches, each row is the row that was written there, apart from
\* the cells that the help line and the line number cover.
ScrollsThroughHistory ==
  prog = "scroll" =>
    IF out.fb
    THEN LET first == out.con.saved - con_rows - out.con.offset IN
         /\ out.con.saved = Len(out.sheet.rows) - con_rows
         /\ \A y \in 1..(con_rows - 1) :
              InRing(first + y, out.con.saved) => out.con.pix[y] = out.sheet.rows[first + y]
         /\ out.con.pix[con_rows] = HelpBar
    ELSE LET first == out.vga.saved - VGA_HEIGHT - out.vga.offset IN
         /\ out.vga.saved = Len(out.paper.rows) - VGA_HEIGHT
         /\ \A y \in 1..VGA_HEIGHT : InRing(first + y, out.vga.saved) =>
              \A x \in 1..VGA_WIDTH : out.vga.buf[y][x] \in {out.paper.rows[first + y][x], Help, Indicator}

\* In and out of scroll mode, the displays show what was written.
DisplaysAgree == ShowsWhatWasWritten /\ ScrollsThroughHistory

\* The column, from 0, at which character i of a line begins.
Begins[ln \in Seq({"a", "b", " ", "\t"}), i \in Nat, width \in Nat] ==
  IF i = 0 THEN 0
  ELSE LET before == Begins[ln, i - 1, width]
       IN IF ln[i] = "\t" THEN before + width - (before % width) ELSE before + 1

\* What the framebuffer shows while the editor waits for a key: line by line
\* the text around the cursor, each character in the column that the tabs
\* before it put it in, and the cursor over its own place, in view.
EditorShows ==
  prog = "edit" /\ ed.drawn /\ out.fb =>
    LET gutter == IF ed.line_numbers /\ con_cols > GUTTER_WIDTH + 1 THEN GUTTER_WIDTH ELSE 0
        at(y, x) == out.con.pix[y][gutter + x][1]
        curcol == Begins[CursorLine(ed), ed.col, ed.tab_width] + 1
    IN /\ ed.row \in ed.top..(ed.top + ed.EDIT_ROWS - 1)
       /\ Cardinality({<<y, x>> \in (1..con_rows) \X (1..(con_cols - gutter)) : at(y, x) = "_"}) = 1
       /\ curcol + gutter <= con_cols => at(ed.row - ed.top + 1, curcol) = "_"
       /\ \A y \in 1..ed.EDIT_ROWS : ed.top + y <= Len(ed.lines) =>
            LET ln == ed.lines[ed.top + y] IN
            \A i \in 1..Len(ln) :
              LET x == Begins[ln, i - 1, ed.tab_width] + 1
              IN x + gutter <= con_cols /\ ln[i] # "\t" => at(y, x) \in {ln[i], "_"}

\* A buffer that is not marked modified is the file on the disk, so that :q
\* may leave without a warning.  Two cases are left out: a file that was not
\* loaded whole, and a failed save since the last one that succeeded.
UnmodifiedIsSaved ==
  prog = "edit" /\ ~failed /\ ~ed.modified => disk = FileText(ed.lines)

Text == INSTANCE TextBuffer WITH
  open <- prog = "edit",
  text <- IF prog = "edit" THEN FileText(ed.lines) ELSE <<>>,
  pos <- IF prog = "edit" THEN Len(FileText(SubSeq(ed.lines, 1, ed.row) \o <<SubSeq(CursorLine(ed), 1, ed.col)>>)) ELSE 0

\* The editor is an editor of one text with a place in it: no key does more
\* than type, remove one character or move, across lines, tabs, indentation
\* and the limits.
TextImplemented == Text!Spec
=============================================================================
