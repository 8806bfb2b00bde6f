---- MODULE Console ----
(***************************************************************************)
(* The screen: Lib::putchar with its parser of colour sequences            *)
(* (lib/print.cpp) over the console's cursor (drivers/console.cpp) and the *)
(* pixels of the framebuffer (drivers/framebuffer.cpp).                    *)
(*                                                                         *)
(* A process writes text piece by piece, putchar by putchar; between two   *)
(* of them the keyboard interrupt may echo a character with the same       *)
(* putchar.  Every pixel of a glyph is taken for lit; the colours already  *)
(* on the screen are left out.  A piece is a character, or a sequence with *)
(* the character behind it.                                                *)
(***************************************************************************)
EXTENDS Integers, Sequences, SequencesExt

CONSTANTS Width, Height, GlyphWidth, GlyphHeight,   \* in pixels
          Characters,   \* what a process writes and the keyboard echoes
          Colours,      \* digits of the sequences written
          MaxX          \* bound on the column from which one more tab is written

ASSUME GlyphFits ==
  /\ GlyphWidth \in Nat \ {0} /\ GlyphHeight \in Nat \ {0}
  /\ Width \in Nat /\ GlyphWidth <= Width
  /\ Height \in Nat /\ GlyphHeight <= Height

VARIABLES todo,      \* characters of the write under way
          ansi,      \* the parser's flags and color_ch
          color,     \* a digit
          cursor,    \* cursor_x and cursor_y
          drawn,     \* pixels written by the last step
          wanted,    \* the last colour the process has chosen
          owed,      \* the characters of the piece still to be shown
          wrong,     \* the process saw one it did not write, or in another colour
          echoed,    \* an echo fell into a sequence
          tabbed     \* the line had a tab before the character
consoleVars == <<todo, ansi, color, cursor, drawn, wanted, owed, wrong, echoed, tabbed>>

Digits == {"0", "1", "2", "3", "4", "5", "6", "7"}

\* Text does not hold a sequence in disguise: sequences are written as such.
ASSUME TextAssumption == Colours \subseteq Digits /\ "ESC" \notin Characters

\* color_ch is 0 at first, the number, which is no digit.
NoSequence == [start |-> FALSE, bracket |-> FALSE, color_start |-> FALSE, ended |-> FALSE,
               color_ch |-> "NUL"]

----------------------------------------------------------------------------

\* Mutant of AnsiAfter: the end of a sequence leaves the parser within it.
AnsiNeverEnds(ch) ==
  IF ch = "ESC" THEN [ansi EXCEPT !.start = TRUE]
  ELSE IF ch = "[" /\ ansi.start THEN [ansi EXCEPT !.bracket = TRUE]
  ELSE IF ~ansi.bracket THEN ansi
  ELSE IF ansi.ended THEN [ansi EXCEPT !.bracket = FALSE, !.ended = FALSE]
  ELSE IF ch = "m" /\ ansi.color_start THEN [ansi EXCEPT !.ended = TRUE, !.color_start = FALSE]
  ELSE IF ch = "3" THEN [ansi EXCEPT !.color_start = TRUE]
  ELSE [ansi EXCEPT !.color_ch = ch]

\* processAnsiSequence: a sequence takes effect at the character behind its m.
AnsiAfter(ch) ==
  IF ch = "ESC" THEN [ansi EXCEPT !.start = TRUE]
  ELSE IF ch = "[" /\ ansi.start THEN [ansi EXCEPT !.bracket = TRUE]
  ELSE IF ~ansi.bracket THEN ansi
  ELSE IF ansi.ended THEN [ansi EXCEPT !.bracket = FALSE, !.start = FALSE, !.ended = FALSE]
  ELSE IF ch = "m" /\ ansi.color_start THEN [ansi EXCEPT !.ended = TRUE, !.color_start = FALSE]
  ELSE IF ch = "3" THEN [ansi EXCEPT !.color_start = TRUE]
  ELSE [ansi EXCEPT !.color_ch = ch]

ColorAfter(ch) ==
  IF ansi.bracket /\ ansi.ended /\ ch # "ESC" /\ ~(ch = "[" /\ ansi.start)
     /\ ansi.color_ch \in Digits
  THEN ansi.color_ch ELSE color

\* putchar hands a character on unless it belongs to a sequence.
Prints(ch) == ch # "ESC" /\ ~(AnsiAfter(ch).start /\ ch \in Digits \union {"m", "["})

----------------------------------------------------------------------------

\* Pixels that drawPixel accepts: it compares with > where an index needs >=.
Accepted(x, y) == ~(x > Width \/ y > Height)

\* drawCharAt and drawRectangle.
Pixels(x, y) ==
  {p \in (x..(x + GlyphWidth - 1)) \X (y..(y + GlyphHeight - 1)) : Accepted(p[1], p[2])}

\* Mutant of Moved: the line breaks one glyph too late.
MovedLate(ch) ==
  CASE ch = "CR" -> [cursor EXCEPT !.x = 0]
    [] ch = "NL" -> [x |-> 0, y |-> cursor.y + GlyphHeight]
    [] ch \in {"BS", "DEL"} -> [cursor EXCEPT !.x = IF @ > 0 THEN @ - GlyphWidth ELSE @]
    [] ch = "TAB" -> [cursor EXCEPT !.x = @ + 4 * GlyphWidth]
    [] OTHER -> IF cursor.x + GlyphWidth > Width
                THEN [x |-> 0, y |-> cursor.y + GlyphHeight]
                ELSE [cursor EXCEPT !.x = @ + GlyphWidth]

\* The cursor behind a character; a tab does not break the line.
Moved(ch) ==
  CASE ch = "CR" -> [cursor EXCEPT !.x = 0]
    [] ch = "NL" -> [x |-> 0, y |-> cursor.y + GlyphHeight]
    [] ch \in {"BS", "DEL"} -> [cursor EXCEPT !.x = IF @ > 0 THEN @ - GlyphWidth ELSE @]
    [] ch = "TAB" -> [cursor EXCEPT !.x = @ + 4 * GlyphWidth]
    [] OTHER -> IF cursor.x + 2 * GlyphWidth > Width
                THEN [x |-> 0, y |-> cursor.y + GlyphHeight]
                ELSE [cursor EXCEPT !.x = @ + GlyphWidth]

\* drawChar, and the scroll that keeps the line on the screen.
scroll(c) == IF c.y + GlyphHeight > Height THEN [c EXCEPT !.y = @ - GlyphHeight] ELSE c

drawChar(ch) ==
  /\ drawn' = IF ch = "DEL" /\ cursor.x > 0 THEN Pixels(cursor.x - GlyphWidth, cursor.y)
              ELSE IF ch \in {"CR", "NL", "BS", "TAB", "DEL"} THEN {}
              ELSE Pixels(cursor.x, cursor.y)
  /\ cursor' = scroll(Moved(ch))
  /\ tabbed' = (ch = "TAB" \/ (tabbed /\ cursor.x > 0))

putchar(ch) ==
  /\ ansi' = AnsiAfter(ch)
  /\ color' = ColorAfter(ch)
  /\ IF Prints(ch) THEN drawChar(ch) ELSE drawn' = {} /\ UNCHANGED <<cursor, tabbed>>

----------------------------------------------------------------------------

\* Bound: tabs in a row.
OnPaper(ch) == ch = "TAB" => cursor.x <= MaxX

Plain(ch) == <<ch>>
Coloured(digit, ch) == <<"ESC", "[", "3", digit, "m", ch>>

\* Bound: no bracket follows a sequence at once; the parser would swallow it.
Follows(ch) == ch # "["

\* A process starts to write a piece.  Colour 3 is not one that it can choose:
\* the parser takes its digit for the 3 before it and keeps the last color_ch.
Writes(piece) ==
  /\ todo = <<>> /\ OnPaper(Last(piece))
  /\ todo' = piece /\ owed' = <<Last(piece)>>
  /\ wanted' = IF Len(piece) = 1 \/ piece[4] = "3" THEN wanted ELSE piece[4]
  /\ drawn' = {} /\ UNCHANGED <<ansi, color, cursor, wrong, echoed, tabbed>>

\* One round of the loop of Devfs::File::write.
Puts ==
  /\ todo # <<>> /\ todo' = Tail(todo)
  /\ putchar(Head(todo))
  /\ IF Prints(Head(todo))
     THEN /\ wrong' = (wrong \/ owed # <<Head(todo)>> \/ color' # wanted)
          /\ owed' = <<>>
     ELSE UNCHANGED <<wrong, owed>>
  /\ UNCHANGED <<wanted, echoed>>

\* The keyboard interrupt echoes a character.
Echoes(ch) ==
  /\ OnPaper(ch) /\ putchar(ch)
  /\ echoed' = (echoed \/ ansi.start)
  /\ UNCHANGED <<todo, wanted, owed, wrong>>

ConsoleInit ==
  /\ todo = <<>> /\ ansi = NoSequence /\ color = "7"
  /\ cursor = [x |-> 0, y |-> 0]
  /\ drawn = {} /\ wanted = "7" /\ owed = <<>> /\ wrong = FALSE
  /\ echoed = FALSE /\ tabbed = FALSE

ConsoleNext ==
  \/ Puts
  \/ \E ch \in Characters : Writes(Plain(ch)) \/ Echoes(ch)
  \/ \E ch \in Characters, digit \in Colours : Follows(ch) /\ Writes(Coloured(digit, ch))

----------------------------------------------------------------------------

\* Glyphs are drawn within the framebuffer, and the line of the cursor is on the
\* screen, whatever is written and echoed (console.cpp, framebuffer.cpp).  Only where a
\* tab has carried the cursor beyond the last column, drawPixel lets a pixel pass that
\* lies one to the right of its row.
PixelsInside ==
  /\ cursor.y \in 0..(Height - GlyphHeight)
  /\ drawn \subseteq (0..(IF tabbed THEN Width ELSE Width - 1)) \X (0..(Height - 1))

\* A process sees its characters, and only those, each in the colour of the last
\* sequence before it (print.cpp), whatever is echoed between two pieces.  An echo
\* within a sequence is taken for a part of it, and a sequence for colour 3, yellow,
\* leaves the colour as it is.
TextShown ==
  echoed \/ /\ ~wrong
            /\ todo = <<>> => owed = <<>>
====
