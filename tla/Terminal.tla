------------------------------ MODULE Terminal ------------------------------
(***************************************************************************)
(* The VGA terminal of kernel/src/main.c: a scrollback buffer, the text    *)
(* memory that shows a window of it, the cursor, and how far the user has  *)
(* scrolled back.  Output goes to the buffer and, through fast paths, to   *)
(* the text memory, which is redrawn from the buffer only when it has to   *)
(* be.  All output comes from the kernel context: what commands print, and *)
(* the echo of the line that the shell reads.  Colours, the hardware       *)
(* cursor and the copy of the output on the serial line are left out.      *)
(***************************************************************************)
EXTENDS Integers

CONSTANTS
  VGA_WIDTH, VGA_HEIGHT, SCROLLBACK_LINES,
  Glyphs,        \* printable characters
  Steps,         \* how many lines a scroll key moves the view
  SHELL_BUFFER_SIZE

ASSUME TerminalAssumption ==
  /\ VGA_WIDTH \in Nat \ {0}
  /\ VGA_HEIGHT \in Nat \ {0}
  /\ SCROLLBACK_LINES \in Nat /\ SCROLLBACK_LINES >= VGA_HEIGHT
  /\ Steps \subseteq Nat
  /\ SHELL_BUFFER_SIZE \in Nat \ {0}

VARIABLES
  scroll_buffer,    \* lines of cells
  vga,              \* VGA_MEMORY
  terminal_row,     \* row of the cursor in scroll_buffer
  terminal_column,
  scroll_offset,    \* lines scrolled back, 0 in the live view
  pos,              \* shell_run: characters of the line being read
  slipped           \* history: since the last redraw, a '\b' over a line end
                    \* has changed which lines are in view

vars == <<scroll_buffer, vga, terminal_row, terminal_column, scroll_offset, pos, slipped>>

Blank == " "
Columns == 0 .. VGA_WIDTH - 1
Lines == 0 .. SCROLLBACK_LINES - 1
Rows == 0 .. VGA_HEIGHT - 1

Line == [Columns -> Glyphs \cup {Blank}]
BlankLine == [x \in Columns |-> Blank]

(* The first buffer line of the live view when the cursor is on line row.  *)
display_start(row) == IF row >= VGA_HEIGHT THEN row - VGA_HEIGHT + 1 ELSE 0

(* terminal_refresh_display: the text memory redrawn from the buffer.      *)
refresh_NoOffset(buffer, row, offset) ==   \* mutant: forgets the offset
  [y \in Rows |-> buffer[display_start(row) + y]]

refresh(buffer, row, offset) ==
  LET ds == display_start(row)
      top == IF ds >= offset THEN ds - offset ELSE 0
  IN  [y \in Rows |-> buffer[top + y]]

(* What output finds on the screen: it snaps back to the live view.        *)
Snapped_Stale ==   \* mutant: forgets to redraw
  vga

Snapped ==
  IF scroll_offset # 0 THEN refresh(scroll_buffer, terminal_row, 0) ELSE vga

terminal_scroll_buffer_NoBlank(buffer) ==   \* mutant: keeps the last line
  [y \in Lines |-> IF y < SCROLLBACK_LINES - 1 THEN buffer[y + 1] ELSE buffer[y]]

terminal_scroll_buffer(buffer) ==
  [y \in Lines |-> IF y < SCROLLBACK_LINES - 1 THEN buffer[y + 1] ELSE BlankLine]

vga_scroll(screen) ==
  [y \in Rows |-> IF y < VGA_HEIGHT - 1 THEN screen[y + 1] ELSE BlankLine]

(* terminal_putchar_at in the live view, with the cursor on line row.      *)
Draw(screen, glyph, x, row) ==
  [screen EXCEPT ![row - display_start(row)][x] = glyph]

(* Whether the view has slipped, after snapping back.                      *)
StillSlipped == slipped /\ scroll_offset = 0

(* The cursor moves to the start of the next line.                         *)
NextLine(buffer, screen) ==
  LET row == terminal_row + 1
  IN  /\ terminal_column' = 0
      /\ scroll_offset' = 0
      /\ slipped' = (StillSlipped /\ row # SCROLLBACK_LINES)
      /\ IF row = SCROLLBACK_LINES
           THEN /\ scroll_buffer' = terminal_scroll_buffer(buffer)
                /\ terminal_row' = SCROLLBACK_LINES - 1
                /\ vga' = refresh(scroll_buffer', SCROLLBACK_LINES - 1, 0)
           ELSE /\ terminal_row' = row
                /\ scroll_buffer' = buffer
                /\ vga' = IF display_start(row) # display_start(terminal_row)
                            THEN vga_scroll(screen) ELSE screen

----------------------------------------------------------------------------

(* terminal_initialize: at boot, before the shell, and for "clear".        *)
Cleared ==
  [buffer |-> [y \in Lines |-> BlankLine], screen |-> [y \in Rows |-> BlankLine]]

Init ==
  /\ scroll_buffer = Cleared.buffer
  /\ vga = Cleared.screen
  /\ terminal_row = 0
  /\ terminal_column = 0
  /\ scroll_offset = 0
  /\ pos = 0
  /\ slipped = FALSE

Clear ==
  /\ pos = 0
  /\ scroll_buffer' = Cleared.buffer
  /\ vga' = Cleared.screen
  /\ terminal_row' = 0
  /\ terminal_column' = 0
  /\ scroll_offset' = 0
  /\ slipped' = FALSE
  /\ UNCHANGED pos

(* terminal_putchar of a printable character.                              *)
PutGlyph(glyph) ==
  LET buffer == [scroll_buffer EXCEPT ![terminal_row][terminal_column] = glyph]
      screen == Draw(Snapped, glyph, terminal_column, terminal_row)
  IN  \/ /\ terminal_column + 1 < VGA_WIDTH
         /\ scroll_buffer' = buffer
         /\ vga' = screen
         /\ terminal_column' = terminal_column + 1
         /\ scroll_offset' = 0
         /\ slipped' = StillSlipped
         /\ UNCHANGED terminal_row
      \/ /\ terminal_column + 1 = VGA_WIDTH
         /\ NextLine(buffer, screen)

(* terminal_putchar of '\n'.                                               *)
PutNewline == NextLine(scroll_buffer, Snapped)

(* terminal_putchar of '\b': the cursor moves back, over a line end too,   *)
(* and the cell it moves to is blanked.  (At the first cell it would stay  *)
(* there, but a line being read never starts so far back.)                 *)
EraseAt(x, row) ==
  /\ scroll_buffer' = [scroll_buffer EXCEPT ![row][x] = Blank]
  /\ vga' = Draw(Snapped, Blank, x, row)
  /\ terminal_row' = row
  /\ terminal_column' = x
  /\ scroll_offset' = 0
  /\ slipped' = (StillSlipped \/ display_start(row) # display_start(terminal_row))

PutBackspace ==
  \/ terminal_column > 0 /\ EraseAt(terminal_column - 1, terminal_row)
  \/ /\ terminal_column = 0 /\ terminal_row > 0
     /\ EraseAt(VGA_WIDTH - 1, terminal_row - 1)

(* terminal_write, between two lines of input: the prompt and what a       *)
(* command prints.                                                         *)
Write ==
  /\ pos = 0
  /\ PutNewline \/ \E glyph \in Glyphs : PutGlyph(glyph)
  /\ UNCHANGED pos

(* shell_run reading a line: it echoes what it stores, takes back the last *)
(* character for '\b', and ends the line for '\n'.                         *)
Echo ==
  /\ pos < SHELL_BUFFER_SIZE - 1
  /\ \E glyph \in Glyphs : PutGlyph(glyph)
  /\ pos' = pos + 1

Erase ==
  /\ pos > 0
  /\ PutBackspace
  /\ pos' = pos - 1

Enter == PutNewline /\ pos' = 0

(* terminal_scroll_up and terminal_scroll_down, for the scroll keys.       *)
Scroll(offset) ==
  /\ scroll_offset' = offset
  /\ vga' = refresh(scroll_buffer, terminal_row, offset)
  /\ slipped' = FALSE
  /\ UNCHANGED <<scroll_buffer, terminal_row, terminal_column, pos>>

ScrollUp_NoClamp(lines) ==   \* mutant: scrolls past the first line
  Scroll(IF scroll_offset + lines > SCROLLBACK_LINES
           THEN SCROLLBACK_LINES ELSE scroll_offset + lines)

ScrollUp(lines) ==
  LET most == display_start(terminal_row)
  IN  Scroll(IF scroll_offset + lines > most THEN most ELSE scroll_offset + lines)

ScrollDown(lines) ==
  Scroll(IF scroll_offset >= lines THEN scroll_offset - lines ELSE 0)

Next ==
  \/ Clear
  \/ Write
  \/ Echo \/ Erase \/ Enter
  \/ \E lines \in Steps : ScrollUp(lines) \/ ScrollDown(lines)

Spec == Init /\ [][Next]_vars

----------------------------------------------------------------------------
(* Types: the cursor stays inside the buffer and the view never starts     *)
(* before it, so that drawing and redrawing stay inside both arrays.       *)
TypeOK ==
  /\ scroll_buffer \in [Lines -> Line]
  /\ vga \in [Rows -> Line]
  /\ terminal_row \in Lines
  /\ terminal_column \in Columns
  /\ scroll_offset \in 0 .. display_start(terminal_row)
  /\ pos \in 0 .. SHELL_BUFFER_SIZE - 1
  /\ slipped \in BOOLEAN

(* While the user looks back, the screen shows the buffer lines that       *)
(* scroll_offset selects, whatever was written before and in whatever way. *)
ScrolledViewMatches ==
  scroll_offset # 0 => \A y \in Rows :
    vga[y] = scroll_buffer[display_start(terminal_row) - scroll_offset + y]

(* In the live view the screen shows the last lines of the buffer: the     *)
(* fast paths (drawing one cell, moving the screen up by a line) agree     *)
(* with a redraw.  The one exception is a '\b' over a line end with the    *)
(* cursor on the last line of the screen: terminal_putchar then moves the  *)
(* view back by a line and does not redraw, and the screen stays wrong     *)
(* until something redraws it.                                             *)
LiveViewMatches ==
  scroll_offset = 0 /\ ~slipped => vga = refresh(scroll_buffer, terminal_row, 0)

(* The buffer is blank from the cursor on: neither a scrolled buffer nor a *)
(* '\b' over a line end leaves text that the next line would show.         *)
BelowCursorBlank ==
  /\ \A y \in Lines : y > terminal_row => scroll_buffer[y] = BlankLine
  /\ \A x \in Columns : x >= terminal_column => scroll_buffer[terminal_row][x] = Blank
=============================================================================
