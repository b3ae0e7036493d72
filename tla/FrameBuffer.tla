------------------------------ MODULE FrameBuffer ------------------------------
(***************************************************************************)
(* The console of framebuffer.rs.  Lengths are in units of one character   *)
(* cell at scale 1, so at scale s a character covers s by s units.  A unit *)
(* shows a piece of a character and may carry, at its bottom, a piece of   *)
(* the underline cursor; colours are indices into ANSI_COLORS.  The writer *)
(* is used with its lock held, so an operation is one step.                *)
(***************************************************************************)
EXTENDS Naturals, Sequences, FiniteSetsExt

CONSTANTS
  WIDTH, HEIGHT, \* the screen
  MAX_SCALE,
  CSI_LEN,       \* length of csi_buf
  Bytes          \* bytes that are written

\* A screen is wide enough for a character of the largest scale, and higher than
\* one: scroll_up does nothing on a screen that is one character high.
ASSUME FrameBufferAssumption ==
  /\ MAX_SCALE \in Nat \ {0}
  /\ WIDTH \in Nat /\ HEIGHT \in Nat /\ WIDTH >= MAX_SCALE /\ HEIGHT > MAX_SCALE
  /\ CSI_LEN \in Nat \ {0}

MIN_SCALE == 1
Space == " "
Digits == [d \in {"0", "2", "3", "4", "7"} |->
             CASE d = "0" -> 0 [] d = "2" -> 2 [] d = "3" -> 3 [] d = "4" -> 4 [] d = "7" -> 7]
DefaultFg == 7
DefaultBg == 0

VARIABLE writer \* FrameBufferWriter, with screen and bar for the buffer

Units == (0..WIDTH - 1) \X (0..HEIGHT - 1)
Blank == [u \in Units |-> Space]

\* The units of the cell at (x, y); what falls off the screen is clipped.
Cell(w, x, y) == ((x..x + w.scale - 1) \X (y..y + w.scale - 1)) \cap Units
CursorUnits(w) == ((w.x..w.x + w.scale - 1) \X {w.y + w.scale - 1}) \cap Units

erase_cursor(w) ==
  IF w.cursor_shown THEN [w EXCEPT !.bar = @ \ CursorUnits(w), !.cursor_shown = FALSE] ELSE w

draw_cursor(w) ==
  IF w.cursor_shown THEN w ELSE [w EXCEPT !.bar = @ \cup CursorUnits(w), !.cursor_shown = TRUE]

draw_char(w, x, y, c) ==
  [w EXCEPT !.screen = [u \in Units |-> IF u \in Cell(w, x, y) THEN c ELSE @[u]],
            !.bar = @ \ Cell(w, x, y)]

\* Mutant: one row too few is cleared.
scroll_up_leaves(w) ==
  IF HEIGHT <= w.scale THEN w
  ELSE [w EXCEPT
    !.screen = [u \in Units |-> IF u[2] + w.scale < HEIGHT THEN @[<<u[1], u[2] + w.scale>>]
                                ELSE IF u[2] = HEIGHT - w.scale THEN @[u] ELSE Space],
    !.bar = {u \in Units : <<u[1], u[2] + w.scale>> \in @}]

scroll_up(w) ==
  IF HEIGHT <= w.scale THEN w
  ELSE [w EXCEPT
    !.screen = [u \in Units |->
                  IF u[2] + w.scale < HEIGHT THEN @[<<u[1], u[2] + w.scale>>] ELSE Space],
    !.bar = {u \in Units : <<u[1], u[2] + w.scale>> \in @}]

\* Mutant: the last partial row counts as a row.
new_line_partial(w) ==
  LET y == w.y + w.scale
  IN  IF y >= HEIGHT THEN [scroll_up(w) EXCEPT !.x = 0] ELSE [w EXCEPT !.x = 0, !.y = y]

new_line(w) ==
  LET y == w.y + w.scale
  IN  IF y + w.scale > HEIGHT THEN [scroll_up(w) EXCEPT !.x = 0] ELSE [w EXCEPT !.x = 0, !.y = y]

\* The number before the first ";", 0 when there is none; the 8 digits of csi_buf fit a u32.
Param(buf) ==
  LET n == Min({i \in DOMAIN buf : buf[i] = ";"} \cup {Len(buf) + 1}) - 1
  IN  MapThenSumSet(LAMBDA i : Digits[buf[i]] * 10 ^ (n - i), 1..n)

\* Mutant: only the background is reset.
apply_sgr_keeps_fg(w) ==
  LET param == Param(w.csi_buf)
  IN  CASE param = 0        -> [w EXCEPT !.bg = DefaultBg]
        [] param \in 30..37 -> [w EXCEPT !.fg = param - 30]
        [] param \in 40..47 -> [w EXCEPT !.bg = param - 40]
        [] OTHER            -> w

apply_sgr(w) ==
  LET param == Param(w.csi_buf)
  IN  CASE param = 0        -> [w EXCEPT !.fg = DefaultFg, !.bg = DefaultBg]
        [] param \in 30..37 -> [w EXCEPT !.fg = param - 30]
        [] param \in 40..47 -> [w EXCEPT !.bg = param - 40]
        [] OTHER            -> w

\* The characters that the properties tell apart; all others look alike.
Glyph(b) == IF b \in {Space, "$", "a", "b"} THEN b ELSE "a"

\* Mutant: the cursor stays on the row that is left.
PutNewLineKeepsCursor(w) == draw_cursor(new_line(w))

PutNewLine(w) == draw_cursor(new_line(erase_cursor(w)))

PutBackspace(w) ==
  LET e == erase_cursor(w)
  IN  draw_cursor(IF e.x >= e.scale THEN [e EXCEPT !.x = @ - e.scale] ELSE e)

PutChar(w, b) ==
  LET v == IF w.x + w.scale > WIDTH THEN new_line(erase_cursor(w)) ELSE w
      d == draw_char(v, v.x, v.y, Glyph(b))
  IN  draw_cursor([d EXCEPT !.cursor_shown = FALSE, !.x = @ + w.scale])

CsiByte(b) == b \in DOMAIN Digits \cup {";"}

InCsi(w, b) ==
  CASE CsiByte(b) /\ Len(w.csi_buf) < CSI_LEN -> [w EXCEPT !.csi_buf = Append(@, b)]
    [] b = "m" -> [apply_sgr(w) EXCEPT !.escape_state = "Normal"]
    [] OTHER   -> [w EXCEPT !.escape_state = "Normal"]

write_byte(w, b) ==
  CASE w.escape_state = "Normal" ->
         (CASE b = "esc" -> [w EXCEPT !.escape_state = "SawEsc"]
            [] b = "nl"  -> PutNewLine(w)
            [] b = "bs"  -> PutBackspace(w)
            [] OTHER     -> PutChar(w, b))
    [] w.escape_state = "SawEsc" ->
         [w EXCEPT !.escape_state = IF b = "[" THEN "SawBracket" ELSE "Normal"]
    [] w.escape_state = "SawBracket" ->
         IF CsiByte(b) THEN [w EXCEPT !.escape_state = "InCsi", !.csi_buf = <<b>>]
                       ELSE [w EXCEPT !.escape_state = "Normal"]
    [] w.escape_state = "InCsi" -> InCsi(w, b)

clear_screen(w) ==
  draw_cursor([w EXCEPT !.screen = Blank, !.bar = {}, !.x = 0, !.y = 0, !.cursor_shown = FALSE])

\* The answer of scale_up and scale_down is whether the scale has changed.
scale_up(w) == IF w.scale >= MAX_SCALE THEN w ELSE clear_screen([w EXCEPT !.scale = @ + 1])
scale_down(w) == IF w.scale <= MIN_SCALE THEN w ELSE clear_screen([w EXCEPT !.scale = @ - 1])

New ==
  [screen |-> Blank, bar |-> {}, x |-> 0, y |-> 0, fg |-> DefaultFg, bg |-> DefaultBg,
   scale |-> MIN_SCALE, escape_state |-> "Normal", csi_buf |-> <<>>, cursor_shown |-> FALSE]
-----------------------------------------------------------------------------
Init == writer = clear_screen(New)

Next ==
  \/ \E b \in Bytes : writer' = write_byte(writer, b)
  \/ writer' = clear_screen(writer)
  \/ writer' = scale_up(writer)
  \/ writer' = scale_down(writer)

Spec == Init /\ [][Next]_writer
-----------------------------------------------------------------------------
(* Properties *)

\* There is exactly one cursor on the screen, under the cell that is written
\* next; scrolling, wrapping and scaling leave no copy of it behind and keep it
\* on the grid of the scale, inside the screen.
OneCursor ==
  /\ writer.cursor_shown /\ writer.bar = CursorUnits(writer)
  /\ writer.x % writer.scale = 0 /\ writer.x <= WIDTH
  /\ writer.y % writer.scale = 0 /\ writer.y + writer.scale <= HEIGHT

Size(s) == [rows |-> HEIGHT \div s, cols |-> WIDTH \div s]
Corner(r, c) == <<c * writer.scale, r * writer.scale>>
Page ==
  [rc \in (0..Size(writer.scale).rows - 1) \X (0..Size(writer.scale).cols - 1) |->
     writer.screen[Corner(rc[1], rc[2])]]

\* Every cell shows one whole character, and no character is ever shown in the
\* margins that a scale leaves at the right and at the bottom (the cursor bar of a
\* full row may be).
CellsWhole ==
  \A u \in Units :
    LET rc == <<u[2] \div writer.scale, u[1] \div writer.scale>>
    IN  writer.screen[u] = IF rc \in DOMAIN Page THEN Page[rc] ELSE Space

\* The characters on the screen are those of a page that wraps and scrolls by
\* whole rows, whatever mixture of text, control characters, escape sequences
\* and changes of scale is written.
Text ==
  INSTANCE TextPage WITH
    Sizes <- {Size(s) : s \in MIN_SCALE..MAX_SCALE}, Chars <- {Space, "$", "a", "b"},
    Blank <- Space, size <- Size(writer.scale), page <- Page,
    row <- writer.y \div writer.scale, col <- writer.x \div writer.scale
ImplementsTextPage == Text!Spec
=============================================================================
