---------------------------- MODULE VideoConsole ----------------------------
(***************************************************************************)
(* Stage 2's text console (video.c) on the mode that real mode has set:    *)
(* main clears the screen and prints from then on.  A character is known   *)
(* by its place in all that was printed.                                   *)
(***************************************************************************)
EXTENDS BootProbe

CONSTANTS FontX, FontY,  \* FONT_SIZE_X, FONT_SIZE_Y
          MaxText        \* bound: characters and newlines that are printed

\* Every mode that the BIOS describes has room for a character.
ASSUME FontAssumption ==
  /\ FontX \in Nat \ {0} /\ FontY \in Nat \ {0} /\ MaxText \in Nat
  /\ \A b \in Bios :
       \A m \in Range(b.modes) \cup Range(b.beyond) \cup {b.legacy, b.zero} :
          m.is.width >= FontX /\ m.is.height >= FontY

VARIABLES text,          \* what was printed since the screen was cleared
          text_col, text_row,
          cells,         \* the number of the character that a cell shows
          reach          \* bytes of video memory up to the last one written

consoleVars == <<text, text_col, text_row, cells, reach>>

Cols == rm_data.width \div FontX
Rows == rm_data.height \div FontY

ConsoleInit == /\ Init
               /\ text = <<>> /\ text_col = 0 /\ text_row = 0
               /\ cells = <<>> /\ reach = 0

\* video_init and video_clr: four bytes a pixel, whatever the mode's depth.
ClearScreen == /\ Started /\ reach = 0
               /\ reach' = 4 * rm_data.width * rm_data.height
               /\ UNCHANGED <<text, text_col, text_row, cells>>

\* newline's row: after the last one the first, which is not cleared.
NextRow(row) == IF row + 1 >= Rows THEN 0 ELSE row + 1

NewLine == /\ text_col' = 0
           /\ text_row' = NextRow(text_row)

PrintNewLine == /\ Started /\ reach > 0 /\ Len(text) < MaxText
                /\ NewLine
                /\ text' = Append(text, "newline")
                /\ UNCHANGED <<cells, reach>>

\* The bytes of video memory up to the last pixel of a cell (setpixel).
CellEnd(row, col) ==
  4 * (((row + 1) * FontY - 1) * rm_data.width + (col + 1) * FontX)

\* The glyph of the next character is drawn over what the cell shows.
Draw(cell) ==
  /\ cells' = [c \in DOMAIN cells \cup {cell} |->
                 IF c = cell THEN Len(text) + 1 ELSE cells[c]]
  /\ reach' = Max({reach, CellEnd(cell[1], cell[2])})

\* Slip: the line is left as soon as it is full.
PrintCharEager ==
  /\ Started /\ reach > 0 /\ Len(text) < MaxText
  /\ LET full == text_col + 1 >= Cols
     IN /\ text_col' = IF full THEN 0 ELSE text_col + 1
        /\ text_row' = IF full THEN NextRow(text_row) ELSE text_row
  /\ Draw(<<text_row, text_col>>)
  /\ text' = Append(text, "char")

\* A character at a full line's end starts a new one first (putc).
PrintChar ==
  /\ Started /\ reach > 0 /\ Len(text) < MaxText
  /\ LET full == text_col >= Cols
         col == IF full THEN 0 ELSE text_col
         row == IF full THEN NextRow(text_row) ELSE text_row
     IN /\ Draw(<<row, col>>)
        /\ text_row' = row /\ text_col' = col + 1
  /\ text' = Append(text, "char")

ConsoleNext == \/ Next /\ UNCHANGED consoleVars
               \/ (ClearScreen \/ PrintNewLine \/ PrintChar) /\ UNCHANGED vars

\* Real mode runs to its end; what main prints, and how much, is left open.
ConsoleSpec == /\ ConsoleInit
               /\ [][ConsoleNext]_<<vars, consoleVars>>
               /\ WF_<<vars, consoleVars>>(Next /\ UNCHANGED consoleVars)

-----------------------------------------------------------------------------
(* Properties.                                                             *)

\* Nothing is written beyond the video memory of a mode from the BIOS's list,
\* by the clearing of the screen or by a character on any row: the mode search
\* and the console agree on the four bytes of a pixel. (The legacy mode has
\* three, stub.asm:215, and mode 0 any depth: both are left out, and so is an
\* empty list.)
InVideoMemory ==
  bios.vbe >= 2 /\ Candidates # {} =>
    reach <= rm_data.width * rm_data.height * (rm_data.bpp \div 8)

\* "The function wraps in case of long string" (video.h:47): a line of the
\* text takes the rows its length needs and no more, an empty one or one that
\* just fits takes one, rows are used again from the top, and a cell shows
\* what was printed to it last.
LineStart(k) == Max({0} \cup {j \in 1..(k - 1) : text[j] = "newline"}) + 1
Height(len) == IF len = 0 THEN 1 ELSE (len + Cols - 1) \div Cols

\* The rows of the lines that end in text[1..k].
RowsAbove[k \in 0..Len(text)] ==
  IF k = 0 THEN 0
  ELSE RowsAbove[k - 1]
       + (IF text[k] = "newline" THEN Height(k - LineStart(k)) ELSE 0)

Place(k) == <<(RowsAbove[k - 1] + (k - LineStart(k)) \div Cols) % Rows,
              (k - LineStart(k)) % Cols>>
ScreenShowsText ==
  LET chars == {k \in DOMAIN text : text[k] = "char"} IN
  /\ DOMAIN cells = {Place(k) : k \in chars}
  /\ \A c \in DOMAIN cells : cells[c] = Max({k \in chars : Place(k) = c})
=============================================================================
