--------------------------- MODULE TerminalProofs ---------------------------
(* Theorems about Terminal, for screens and buffers of any size.           *)
EXTENDS Terminal, TLAPS

(* The four invariants are inductive together.                             *)
TerminalInv == TypeOK /\ ScrolledViewMatches /\ LiveViewMatches /\ BelowCursorBlank

----------------------------------------------------------------------------
(* Which buffer lines a screen shows.                                      *)
Buffers == [Lines -> Line]
Screens == [Rows -> Line]

Shows(screen, buffer, top) == \A y \in Rows : screen[y] = buffer[top + y]

LEMMA StartFacts ==
  ASSUME NEW row \in Lines
  PROVE  /\ display_start(row) \in Nat /\ display_start(row) <= row
         /\ row - display_start(row) \in Rows
         /\ \A y \in Rows : display_start(row) + y \in Lines
         /\ display_start(0) = 0
  BY TerminalAssumption DEF display_start, Lines, Rows

LEMMA BlankFacts == BlankLine \in Line /\ \A x \in Columns : BlankLine[x] = Blank
  BY DEF BlankLine, Line

LEMMA RefreshFacts ==
  ASSUME NEW buffer, buffer \in Buffers, NEW row, row \in Lines,
         NEW offset, offset \in 0 .. display_start(row)
  PROVE  /\ refresh(buffer, row, offset) \in Screens
         /\ Shows(refresh(buffer, row, offset), buffer, display_start(row) - offset)
  <1> DEFINE top == display_start(row) - offset
  <1>1. display_start(row) \in Nat /\ \A y \in Rows : display_start(row) + y \in Lines
    BY StartFacts
  <1>2. top \in Nat /\ \A y \in Rows : top + y \in Lines
    BY <1>1, TerminalAssumption DEF Lines, Rows
  <1>3. refresh(buffer, row, offset) = [y \in Rows |-> buffer[top + y]]
    BY <1>1 DEF refresh
  <1>4. \A y \in Rows : buffer[top + y] \in Line
    BY <1>2 DEF Buffers
  <1> HIDE DEF top
  <1> QED BY <1>3, <1>4 DEF Screens, Shows, top

(* A screen that shows the live view is a redraw of it.                    *)
LEMMA RefreshUnique ==
  ASSUME NEW buffer, buffer \in Buffers, NEW row, row \in Lines,
         NEW screen, screen \in Screens, Shows(screen, buffer, display_start(row))
  PROVE  screen = refresh(buffer, row, 0)
  <1>1. 0 \in 0 .. display_start(row) /\ display_start(row) \in Nat
    BY StartFacts
  <1>2. /\ refresh(buffer, row, 0) \in Screens
        /\ Shows(refresh(buffer, row, 0), buffer, display_start(row) - 0)
    BY <1>1, RefreshFacts
  <1>3. \A y \in Rows : screen[y] = refresh(buffer, row, 0)[y]
    BY <1>1, <1>2 DEF Shows
  <1> QED BY <1>2, <1>3 DEF Screens

(* A character put into the buffer, and drawn on a screen that shows it.   *)
Put(buffer, glyph, x, row) == [buffer EXCEPT ![row][x] = glyph]

LEMMA PutFacts ==
  ASSUME NEW buffer, buffer \in Buffers, NEW row, row \in Lines, NEW x, x \in Columns,
         NEW glyph, glyph \in Glyphs \cup {Blank}
  PROVE  /\ Put(buffer, glyph, x, row) \in Buffers
         /\ \A y \in Lines : y # row => Put(buffer, glyph, x, row)[y] = buffer[y]
         /\ Put(buffer, glyph, x, row)[row][x] = glyph
         /\ \A c \in Columns : c # x => Put(buffer, glyph, x, row)[row][c] = buffer[row][c]
  BY DEF Buffers, Line, Put

LEMMA DrawFacts ==
  ASSUME NEW screen, screen \in Screens, NEW row, row \in Lines, NEW x, x \in Columns,
         NEW glyph, glyph \in Glyphs \cup {Blank}
  PROVE  Draw(screen, glyph, x, row) \in Screens
  <1>1. row - display_start(row) \in Rows
    BY StartFacts
  <1> QED BY <1>1 DEF Draw, Screens, Line

LEMMA DrawShows ==
  ASSUME NEW screen, screen \in Screens, NEW buffer, buffer \in Buffers,
         NEW row, row \in Lines, NEW x, x \in Columns,
         NEW glyph, glyph \in Glyphs \cup {Blank},
         Shows(screen, buffer, display_start(row))
  PROVE  Shows(Draw(screen, glyph, x, row), Put(buffer, glyph, x, row), display_start(row))
  <1> DEFINE ds == display_start(row)
  <1>1. ds \in Nat /\ row - ds \in Rows /\ \A y \in Rows : ds + y \in Lines /\ y \in Nat
    BY StartFacts DEF Rows
  <1>2. row \in Nat
    BY DEF Lines
  <1> SUFFICES ASSUME NEW y \in Rows
               PROVE  Draw(screen, glyph, x, row)[y] = Put(buffer, glyph, x, row)[ds + y]
    BY DEF Shows
  <1>3. screen[y] = buffer[ds + y]
    BY DEF Shows
  <1> HIDE DEF ds
  <1>4. CASE y = row - ds
    <2>1. ds + y = row
      BY <1>1, <1>2, <1>4
    <2>2. Draw(screen, glyph, x, row)[y] = [screen[y] EXCEPT ![x] = glyph]
      BY <1>4 DEF Draw, ds, Screens
    <2>3. Put(buffer, glyph, x, row)[row] = [buffer[row] EXCEPT ![x] = glyph]
      BY DEF Put, Buffers
    <2> QED BY <1>3, <2>1, <2>2, <2>3
  <1>5. CASE y # row - ds
    <2>1. ds + y # row
      BY <1>1, <1>2, <1>5
    <2>2. Draw(screen, glyph, x, row)[y] = screen[y]
      BY <1>5 DEF Draw, ds, Screens
    <2>3. Put(buffer, glyph, x, row)[ds + y] = buffer[ds + y]
      BY <1>1, <2>1, PutFacts
    <2> QED BY <1>3, <2>2, <2>3
  <1> QED BY <1>4, <1>5

(* What output finds on the screen.                                        *)
LEMMA SnappedFacts ==
  ASSUME TerminalInv
  PROVE  /\ Snapped \in Screens
         /\ ~StillSlipped => Shows(Snapped, scroll_buffer, display_start(terminal_row))
  <1>1. /\ scroll_buffer \in Buffers /\ terminal_row \in Lines /\ vga \in Screens
        /\ slipped \in BOOLEAN /\ LiveViewMatches
    BY DEF TerminalInv, TypeOK, Buffers, Screens
  <1>2. display_start(terminal_row) \in Nat
    BY <1>1, StartFacts
  <1>3. /\ refresh(scroll_buffer, terminal_row, 0) \in Screens
        /\ Shows(refresh(scroll_buffer, terminal_row, 0), scroll_buffer, display_start(terminal_row))
    <2>1. 0 \in 0 .. display_start(terminal_row) /\ display_start(terminal_row) - 0 = display_start(terminal_row)
      BY <1>2
    <2> QED BY <1>1, <2>1, RefreshFacts
  <1>4. CASE scroll_offset # 0
    BY <1>3, <1>4 DEF Snapped
  <1>5. CASE scroll_offset = 0
    <2>1. Snapped = vga
      BY <1>5 DEF Snapped
    <2>2. ~StillSlipped => vga = refresh(scroll_buffer, terminal_row, 0)
      BY <1>1, <1>5 DEF StillSlipped, LiveViewMatches
    <2> QED BY <1>1, <1>3, <2>1, <2>2
  <1> QED BY <1>4, <1>5

----------------------------------------------------------------------------
(* The steps.  Display is the invariant without the shell's line.          *)
Display ==
  /\ scroll_buffer \in Buffers /\ vga \in Screens
  /\ terminal_row \in Lines /\ terminal_column \in Columns
  /\ scroll_offset \in 0 .. display_start(terminal_row) /\ slipped \in BOOLEAN
  /\ ScrolledViewMatches /\ LiveViewMatches /\ BelowCursorBlank

LEMMA InvParts == TerminalInv <=> Display /\ pos \in 0 .. SHELL_BUFFER_SIZE - 1
  BY DEF TerminalInv, TypeOK, Display, Buffers, Screens

LEMMA InvPartsNext == Display' /\ (pos \in 0 .. SHELL_BUFFER_SIZE - 1)' => TerminalInv'
  BY InvParts, PTL

(* What a step to the live view has to establish.                          *)
LEMMA LiveStep ==
  ASSUME scroll_buffer' \in Buffers, vga' \in Screens,
         terminal_row' \in Lines, terminal_column' \in Columns,
         scroll_offset' = 0, slipped' \in BOOLEAN,
         ~slipped' => Shows(vga', scroll_buffer', display_start(terminal_row')),
         BelowCursorBlank'
  PROVE  Display'
  <1>1. display_start(terminal_row') \in Nat
    BY StartFacts
  <1>2. ~slipped' => vga' = refresh(scroll_buffer', terminal_row', 0)
    BY RefreshUnique
  <1>3. LiveViewMatches' /\ ScrolledViewMatches'
    BY <1>2 DEF LiveViewMatches, ScrolledViewMatches
  <1> QED BY <1>1, <1>3 DEF Display

LEMMA NextLineStep ==
  ASSUME Display, NEW buffer, buffer \in Buffers, NEW screen, screen \in Screens,
         \A y \in Lines : y > terminal_row => buffer[y] = BlankLine,
         ~StillSlipped => Shows(screen, buffer, display_start(terminal_row)),
         NextLine(buffer, screen)
  PROVE  Display'
  <1> DEFINE row == terminal_row + 1
  <1>1. /\ terminal_row \in Lines /\ terminal_row \in Nat /\ SCROLLBACK_LINES \in Nat
        /\ VGA_HEIGHT \in Nat \ {0} /\ VGA_WIDTH \in Nat \ {0}
        /\ SCROLLBACK_LINES >= VGA_HEIGHT
    BY TerminalAssumption DEF Display, Lines
  <1>2. /\ terminal_column' = 0 /\ scroll_offset' = 0 /\ terminal_column' \in Columns
    BY <1>1 DEF NextLine, Columns
  <1>3. slipped' \in BOOLEAN /\ (~slipped' => ~StillSlipped \/ row = SCROLLBACK_LINES)
    BY Zenon DEF NextLine
  <1>4. CASE row = SCROLLBACK_LINES
    <2> DEFINE last == SCROLLBACK_LINES - 1
    <2>1. /\ scroll_buffer' = terminal_scroll_buffer(buffer) /\ terminal_row' = last
          /\ vga' = refresh(scroll_buffer', last, 0)
      BY <1>4 DEF NextLine
    <2>2. last \in Lines /\ last = terminal_row
      BY <1>1, <1>4 DEF Lines
    <2>3. scroll_buffer' \in Buffers /\ scroll_buffer'[last] = BlankLine
      BY <1>1, <2>1, <2>2, BlankFacts DEF terminal_scroll_buffer, Buffers, Lines
    <2>4. display_start(last) \in Nat /\ 0 \in 0 .. display_start(last)
          /\ display_start(last) - 0 = display_start(last)
      BY <2>2, StartFacts
    <2>5. vga' \in Screens /\ Shows(vga', scroll_buffer', display_start(last))
      BY <2>1, <2>2, <2>3, <2>4, RefreshFacts
    <2>6. BelowCursorBlank'
      <3>1. \A y \in Lines : ~(y > last)
        BY <1>1 DEF Lines
      <3> QED BY <2>1, <2>3, <3>1, BlankFacts DEF BelowCursorBlank
    <2> QED BY <1>2, <1>3, <2>1, <2>2, <2>3, <2>5, <2>6, LiveStep
  <1>5. CASE row # SCROLLBACK_LINES
    <2>1. /\ terminal_row' = row /\ scroll_buffer' = buffer
          /\ vga' = IF display_start(row) # display_start(terminal_row)
                      THEN vga_scroll(screen) ELSE screen
      BY <1>5 DEF NextLine
    <2>2. row \in Lines /\ row > terminal_row
      BY <1>1, <1>5 DEF Lines
    <2>3. BelowCursorBlank'
      <3>1. buffer[row] = BlankLine
        BY <2>2
      <3>2. \A y \in Lines : y > row => y > terminal_row
        BY <1>1 DEF Lines
      <3> HIDE DEF row
      <3> QED BY <1>2, <2>1, <3>1, <3>2, BlankFacts DEF BelowCursorBlank
    <2>4. vga' \in Screens
      <3>1. vga_scroll(screen) \in Screens
        BY <1>1, BlankFacts DEF vga_scroll, Screens, Rows
      <3> QED BY <2>1, <3>1
    <2>5. ASSUME ~slipped' PROVE Shows(vga', scroll_buffer', display_start(row))
      <3>1. Shows(screen, buffer, display_start(terminal_row))
        BY <1>3, <1>5, <2>5
      <3>2. CASE display_start(row) = display_start(terminal_row)
        BY <2>1, <3>1, <3>2
      <3>3. CASE display_start(row) # display_start(terminal_row)
        <4>1. /\ display_start(row) = display_start(terminal_row) + 1
              /\ display_start(row) + (VGA_HEIGHT - 1) = row
              /\ display_start(terminal_row) \in Nat
          BY <1>1, <3>3 DEF display_start
        <4>2. ASSUME NEW y \in Rows
              PROVE  vga'[y] = scroll_buffer'[display_start(row) + y]
          <5>1. vga'[y] = IF y < VGA_HEIGHT - 1 THEN screen[y + 1] ELSE BlankLine
            BY <2>1, <3>3 DEF vga_scroll
          <5>2. CASE y < VGA_HEIGHT - 1
            <6>1. y + 1 \in Rows /\ display_start(terminal_row) + (y + 1) = display_start(row) + y
              BY <1>1, <4>1, <5>2 DEF Rows
            <6>2. screen[y + 1] = buffer[display_start(terminal_row) + (y + 1)]
              BY <3>1, <6>1 DEF Shows
            <6> QED BY <2>1, <5>1, <5>2, <6>1, <6>2
          <5>3. CASE ~(y < VGA_HEIGHT - 1)
            <6>1. y = VGA_HEIGHT - 1
              BY <1>1, <5>3 DEF Rows
            <6> QED BY <2>1, <2>2, <4>1, <5>1, <5>3, <6>1
          <5> QED BY <5>2, <5>3
        <4> QED BY <4>2 DEF Shows
      <3> QED BY <3>2, <3>3
    <2> QED BY <1>2, <1>3, <2>1, <2>2, <2>3, <2>4, <2>5, LiveStep DEF Display
  <1> QED BY <1>4, <1>5

LEMMA PutGlyphStep ==
  ASSUME TerminalInv, NEW glyph \in Glyphs, PutGlyph(glyph)
  PROVE  Display'
  <1> DEFINE buffer == Put(scroll_buffer, glyph, terminal_column, terminal_row)
             screen == Draw(Snapped, glyph, terminal_column, terminal_row)
  <1>1. Display /\ VGA_WIDTH \in Nat \ {0} /\ terminal_column \in Nat
    BY InvParts, TerminalAssumption DEF Display, Columns
  <1>2. /\ scroll_buffer \in Buffers /\ terminal_row \in Lines /\ terminal_column \in Columns
        /\ glyph \in Glyphs \cup {Blank} /\ slipped \in BOOLEAN /\ BelowCursorBlank
    BY <1>1 DEF Display
  <1>3. /\ buffer \in Buffers
        /\ \A y \in Lines : y # terminal_row => buffer[y] = scroll_buffer[y]
        /\ \A c \in Columns : c # terminal_column =>
             buffer[terminal_row][c] = scroll_buffer[terminal_row][c]
    BY <1>2, PutFacts
  <1>4. screen \in Screens /\ (~StillSlipped => Shows(screen, buffer, display_start(terminal_row)))
    BY <1>2, SnappedFacts, DrawFacts, DrawShows
  <1>5. terminal_row \in Nat /\ \A y \in Lines : y > terminal_row => buffer[y] = BlankLine
    BY <1>2, <1>3 DEF BelowCursorBlank, Lines
  <1>6. \/ /\ terminal_column + 1 < VGA_WIDTH
           /\ scroll_buffer' = buffer /\ vga' = screen
           /\ terminal_column' = terminal_column + 1
           /\ scroll_offset' = 0 /\ slipped' = StillSlipped /\ UNCHANGED terminal_row
        \/ NextLine(buffer, screen)
    BY DEF PutGlyph, Put
  <1> HIDE DEF buffer, screen
  <1>7. CASE NextLine(buffer, screen)
    BY <1>1, <1>3, <1>4, <1>5, <1>7, NextLineStep
  <1>8. CASE /\ terminal_column + 1 < VGA_WIDTH
             /\ scroll_buffer' = buffer /\ vga' = screen
             /\ terminal_column' = terminal_column + 1
             /\ scroll_offset' = 0 /\ slipped' = StillSlipped /\ UNCHANGED terminal_row
    <2>1. terminal_column' \in Columns
      BY <1>1, <1>8 DEF Columns
    <2>2. slipped' \in BOOLEAN
      BY <1>2, <1>8 DEF StillSlipped
    <2>3. BelowCursorBlank'
      <3>1. \A c \in Columns : c >= terminal_column + 1 => c >= terminal_column /\ c # terminal_column
        BY <1>1 DEF Columns
      <3> QED BY <1>2, <1>3, <1>5, <1>8, <3>1 DEF BelowCursorBlank
    <2>4. ~slipped' => Shows(vga', scroll_buffer', display_start(terminal_row'))
      BY <1>4, <1>8
    <2> QED BY <1>2, <1>3, <1>4, <1>8, <2>1, <2>2, <2>3, <2>4, LiveStep
  <1> QED BY <1>6, <1>7, <1>8

LEMMA PutNewlineStep ==
  ASSUME TerminalInv, PutNewline
  PROVE  Display'
  <1>1. Display
    BY InvParts
  <1>2. scroll_buffer \in Buffers /\ \A y \in Lines : y > terminal_row => scroll_buffer[y] = BlankLine
    BY <1>1 DEF Display, BelowCursorBlank
  <1> QED BY <1>1, <1>2, SnappedFacts, NextLineStep DEF PutNewline

(* A '\b', which blanks the cell that it moves to.                         *)
LEMMA EraseAtStep ==
  ASSUME TerminalInv, NEW x, x \in Columns, NEW row, row \in Lines, EraseAt(x, row),
         \/ row = terminal_row /\ x = terminal_column - 1
         \/ row = terminal_row - 1 /\ x = VGA_WIDTH - 1 /\ terminal_column = 0
  PROVE  Display'
  <1> DEFINE buffer == Put(scroll_buffer, Blank, x, row)
             screen == Draw(Snapped, Blank, x, row)
  <1>1. /\ scroll_buffer \in Buffers /\ terminal_row \in Lines /\ terminal_column \in Columns
        /\ Blank \in Glyphs \cup {Blank} /\ slipped \in BOOLEAN /\ BelowCursorBlank
    BY InvParts DEF Display
  <1>2. /\ scroll_buffer' = buffer /\ vga' = screen /\ terminal_row' = row
        /\ terminal_column' = x /\ scroll_offset' = 0
        /\ slipped' = (StillSlipped \/ display_start(row) # display_start(terminal_row))
    BY DEF EraseAt, Put
  <1>3. /\ buffer \in Buffers
        /\ \A y \in Lines : y # row => buffer[y] = scroll_buffer[y]
        /\ buffer[row][x] = Blank
        /\ \A c \in Columns : c # x => buffer[row][c] = scroll_buffer[row][c]
    BY <1>1, PutFacts
  <1>4. screen \in Screens
    BY <1>1, SnappedFacts, DrawFacts
  <1>5. ~slipped' => Shows(screen, buffer, display_start(row))
    <2> SUFFICES ASSUME ~slipped' PROVE Shows(screen, buffer, display_start(row))
      OBVIOUS
    <2>1. ~StillSlipped /\ display_start(row) = display_start(terminal_row)
      BY <1>2, Zenon
    <2>2. Snapped \in Screens /\ Shows(Snapped, scroll_buffer, display_start(row))
      BY <2>1, SnappedFacts
    <2> QED BY <1>1, <2>2, DrawShows
  <1> HIDE DEF buffer, screen
  <1>6. BelowCursorBlank'
    <2>1. terminal_row \in Nat /\ terminal_column \in Nat /\ row \in Nat /\ VGA_WIDTH \in Nat \ {0}
      BY <1>1, TerminalAssumption DEF Lines, Columns
    <2>2. CASE row = terminal_row /\ x = terminal_column - 1
      <3>1. \A c \in Columns : c >= x => c = x \/ c >= terminal_column
        BY <2>1, <2>2 DEF Columns
      <3>2. \A c \in Columns : c >= x => buffer[row][c] = Blank
        BY <1>1, <1>3, <2>2, <3>1 DEF BelowCursorBlank
      <3>3. \A y \in Lines : y > row => buffer[y] = BlankLine
        BY <1>1, <1>3, <2>1, <2>2 DEF BelowCursorBlank, Lines
      <3> QED BY <1>2, <3>2, <3>3 DEF BelowCursorBlank
    <2>3. CASE row = terminal_row - 1 /\ x = VGA_WIDTH - 1 /\ terminal_column = 0
      <3>1. \A c \in Columns : (c >= x => c = x) /\ c >= 0
        BY <2>1, <2>3 DEF Columns
      <3>2. scroll_buffer[terminal_row] = BlankLine
        <4>1. \A c \in Columns : scroll_buffer[terminal_row][c] = Blank
          BY <1>1, <2>3, <3>1, Zenon DEF BelowCursorBlank
        <4>2. scroll_buffer[terminal_row] \in Line
          BY <1>1 DEF Buffers
        <4> QED BY <4>1, <4>2 DEF Line, BlankLine
      <3>3. \A y \in Lines : y > row => y # row /\ (y = terminal_row \/ y > terminal_row)
        BY <2>1, <2>3 DEF Lines
      <3>4. \A y \in Lines : y > row => buffer[y] = BlankLine
        BY <1>1, <1>3, <3>2, <3>3 DEF BelowCursorBlank
      <3> QED BY <1>2, <1>3, <3>1, <3>4 DEF BelowCursorBlank
    <2> QED BY <2>2, <2>3
  <1>7. slipped' \in BOOLEAN
    BY <1>2
  <1> QED BY <1>2, <1>3, <1>4, <1>5, <1>6, <1>7, LiveStep

LEMMA ScrollStep ==
  ASSUME TerminalInv, NEW offset, offset \in 0 .. display_start(terminal_row), Scroll(offset)
  PROVE  TerminalInv'
  <1>1. Display /\ scroll_buffer \in Buffers /\ terminal_row \in Lines
        /\ display_start(terminal_row) \in Nat
    BY InvParts, StartFacts DEF Display
  <1>2. /\ scroll_offset' = offset /\ slipped' = FALSE
        /\ vga' = refresh(scroll_buffer, terminal_row, offset)
        /\ UNCHANGED <<scroll_buffer, terminal_row, terminal_column, pos>>
    BY DEF Scroll
  <1>3. vga' \in Screens /\ Shows(vga', scroll_buffer, display_start(terminal_row) - offset)
    BY <1>1, <1>2, RefreshFacts
  <1>4. ScrolledViewMatches' /\ LiveViewMatches'
    BY <1>2, <1>3 DEF ScrolledViewMatches, LiveViewMatches, Shows
  <1>5. Display'
    BY <1>1, <1>2, <1>3, <1>4, Zenon DEF Display, BelowCursorBlank
  <1> QED BY <1>2, <1>5, InvParts, InvPartsNext

LEMMA ClearStep ==
  ASSUME scroll_buffer' = Cleared.buffer, vga' = Cleared.screen, terminal_row' = 0,
         terminal_column' = 0, scroll_offset' = 0, slipped' = FALSE
  PROVE  Display'
  <1>1. 0 \in Lines /\ 0 \in Columns
    BY TerminalAssumption DEF Lines, Columns
  <1>2. /\ scroll_buffer' \in Buffers /\ \A y \in Lines : scroll_buffer'[y] = BlankLine
        /\ vga' \in Screens /\ \A y \in Rows : vga'[y] = BlankLine
    BY BlankFacts DEF Cleared, Buffers, Screens
  <1>3. Shows(vga', scroll_buffer', display_start(terminal_row'))
    BY <1>1, <1>2, StartFacts, Zenon DEF Shows
  <1>4. BelowCursorBlank'
    BY <1>1, <1>2, BlankFacts DEF BelowCursorBlank
  <1> QED BY <1>1, <1>2, <1>3, <1>4, LiveStep, Zenon

LEMMA TerminalStart == Init => TerminalInv
  <1> SUFFICES ASSUME Init PROVE TerminalInv
    OBVIOUS
  <1>1. 0 \in Lines /\ 0 \in Columns /\ display_start(0) = 0 /\ pos \in 0 .. SHELL_BUFFER_SIZE - 1
    BY TerminalAssumption DEF Init, Lines, Columns, display_start
  <1>2. /\ scroll_buffer \in Buffers /\ \A y \in Lines : scroll_buffer[y] = BlankLine
        /\ vga \in Screens /\ \A y \in Rows : vga[y] = BlankLine
    BY BlankFacts DEF Init, Cleared, Buffers, Screens
  <1>3. Shows(vga, scroll_buffer, display_start(0))
    BY <1>1, <1>2, StartFacts, Zenon DEF Shows
  <1>4. vga = refresh(scroll_buffer, 0, 0)
    BY <1>1, <1>2, <1>3, RefreshUnique
  <1>5. BelowCursorBlank
    BY <1>1, <1>2, BlankFacts DEF Init, BelowCursorBlank
  <1>6. ScrolledViewMatches /\ LiveViewMatches
    BY <1>4 DEF Init, ScrolledViewMatches, LiveViewMatches
  <1>7. /\ terminal_row \in Lines /\ terminal_column \in Columns /\ slipped \in BOOLEAN
        /\ scroll_offset \in 0 .. display_start(terminal_row)
    <2>1. terminal_row = 0 /\ terminal_column = 0 /\ scroll_offset = 0
      BY DEF Init
    <2>2. slipped \in BOOLEAN
      BY Zenon DEF Init
    <2> QED BY <1>1, <2>1, <2>2
  <1> QED BY <1>1, <1>2, <1>5, <1>6, <1>7, InvParts DEF Display

LEMMA TerminalStep ==
  ASSUME TerminalInv, [Next]_vars
  PROVE  TerminalInv'
  <1> DEFINE P == pos \in 0 .. SHELL_BUFFER_SIZE - 1
  <1>1. P /\ Display /\ SHELL_BUFFER_SIZE \in Nat \ {0}
    BY InvParts, TerminalAssumption
  <1>2. CASE Clear
    <2>1. Display' /\ P'
      BY <1>1, <1>2, ClearStep, Zenon DEF Clear
    <2> QED BY <2>1, InvPartsNext
  <1>3. CASE Write
    <2>1. Display' /\ P'
      BY <1>1, <1>3, PutNewlineStep, PutGlyphStep DEF Write
    <2> QED BY <2>1, InvPartsNext
  <1>4. CASE Echo
    <2>1. Display' /\ P'
      BY <1>1, <1>4, PutGlyphStep DEF Echo
    <2> QED BY <2>1, InvPartsNext
  <1>5. CASE Erase
    <2>1. P'
      BY <1>1, <1>5 DEF Erase
    <2>2. /\ terminal_column \in Columns /\ terminal_row \in Lines
          /\ VGA_WIDTH \in Nat \ {0} /\ SCROLLBACK_LINES \in Nat
      BY <1>1, TerminalAssumption DEF Display
    <2>3. CASE terminal_column > 0 /\ EraseAt(terminal_column - 1, terminal_row)
      <3>1. terminal_column - 1 \in Columns
        BY <2>2, <2>3 DEF Columns
      <3>2. Display'
        BY <2>2, <2>3, <3>1, EraseAtStep
      <3> QED BY <2>1, <3>2, InvPartsNext
    <2>4. CASE /\ terminal_column = 0 /\ terminal_row > 0
               /\ EraseAt(VGA_WIDTH - 1, terminal_row - 1)
      <3>1. VGA_WIDTH - 1 \in Columns /\ terminal_row - 1 \in Lines
        BY <2>2, <2>4 DEF Columns, Lines
      <3>2. Display'
        BY <2>4, <3>1, EraseAtStep
      <3> QED BY <2>1, <3>2, InvPartsNext
    <2> QED BY <1>5, <2>3, <2>4 DEF Erase, PutBackspace
  <1>6. CASE Enter
    <2>1. Display' /\ P'
      BY <1>1, <1>6, PutNewlineStep DEF Enter
    <2> QED BY <2>1, InvPartsNext
  <1>7. ASSUME NEW lines \in Steps, ScrollUp(lines) \/ ScrollDown(lines)
        PROVE  TerminalInv'
    <2>1. /\ lines \in Nat /\ terminal_row \in Lines /\ display_start(terminal_row) \in Nat
          /\ scroll_offset \in 0 .. display_start(terminal_row)
      BY <1>1, TerminalAssumption, StartFacts DEF Display
    <2>2. PICK offset \in 0 .. display_start(terminal_row) : Scroll(offset)
      BY <1>7, <2>1 DEF ScrollUp, ScrollDown
    <2> QED BY <2>2, ScrollStep
  <1>8. CASE UNCHANGED vars
    <2>1. Display' /\ P'
      BY <1>1, <1>8 DEF vars, Display, ScrolledViewMatches, LiveViewMatches, BelowCursorBlank
    <2> QED BY <2>1, InvPartsNext
  <1> QED BY <1>2, <1>3, <1>4, <1>5, <1>6, <1>7, <1>8 DEF Next

----------------------------------------------------------------------------
(* The terminal of main.c, for any screen and scrollback size: the buffer, *)
(* the screen and the cursor stay in step with each other.                 *)
THEOREM TerminalInvariance == Spec => []TerminalInv
  BY TerminalStart, TerminalStep, PTL DEF Spec

(* terminal_putchar, terminal_scroll_up and terminal_refresh_display stay  *)
(* inside scroll_buffer and the text memory.                               *)
THEOREM CursorInside == Spec => []TypeOK
  <1>1. TerminalInv => TypeOK
    BY DEF TerminalInv
  <1> QED BY <1>1, TerminalInvariance, PTL

(* A view scrolled back with terminal_scroll_up or down shows the buffer   *)
(* lines that scroll_offset selects.                                       *)
THEOREM ScrolledViewTrue == Spec => []ScrolledViewMatches
  <1>1. TerminalInv => ScrolledViewMatches
    BY DEF TerminalInv
  <1> QED BY <1>1, TerminalInvariance, PTL

(* The fast paths of terminal_putchar draw what a redraw would, but for a  *)
(* '\b' over a line end that moves the view.                               *)
THEOREM LiveViewTrue == Spec => []LiveViewMatches
  <1>1. TerminalInv => LiveViewMatches
    BY DEF TerminalInv
  <1> QED BY <1>1, TerminalInvariance, PTL

(* terminal_putchar never leaves text after the cursor, on its line or     *)
(* below.                                                                  *)
THEOREM NothingBelow == Spec => []BelowCursorBlank
  <1>1. TerminalInv => BelowCursorBlank
    BY DEF TerminalInv
  <1> QED BY <1>1, TerminalInvariance, PTL
=============================================================================
