--------------------------- MODULE FrameBufferProofs ---------------------------
(***************************************************************************)
(* For every screen, every range of scales and every set of bytes: the     *)
(* console shows one cursor and whole characters, and is a text page that  *)
(* wraps and scrolls by whole rows.                                        *)
(*                                                                         *)
(* The argument goes through what a writer displays: a page of characters, *)
(* and the row and column of its cursor.  Each operation on the pixels is  *)
(* shown to be an operation on the page.                                   *)
(***************************************************************************)
EXTENDS FrameBuffer, TLAPS

-----------------------------------------------------------------------------
(* The grid of a scale *)

LEMMA Divided ==
  ASSUME NEW s \in Nat, s > 0, NEW x \in Nat
  PROVE  /\ x \div s \in Nat
         /\ s * (x \div s) <= x
         /\ x < s * (x \div s) + s
<1>1. x = s * (x \div s) + (x % s)
  OBVIOUS
<1>2. x % s \in 0..s - 1
  OBVIOUS
<1>3. x \div s \in Nat
  OBVIOUS
<1>4. QED
  BY <1>1, <1>2, <1>3

\* A unit is in the cell whose number is its quotient.
LEMMA InCell ==
  ASSUME NEW s \in Nat, s > 0, NEW x \in Nat, NEW k \in Nat
  PROVE  /\ k * s \in Nat
         /\ x \in k * s..k * s + s - 1 <=> x \div s = k
         /\ (k * s) \div s = k
         /\ (k * s) % s = 0
<1>1. k * s \in Nat
  OBVIOUS
<1>2. (k * s) \div s = k
  OBVIOUS
<1>3. (k * s) % s = 0
  OBVIOUS
<1>4. ASSUME x \in k * s..k * s + s - 1 PROVE x \div s = k
  <2>1. x - k * s \in 0..s - 1 /\ x = k * s + (x - k * s)
    BY <1>1, <1>4
  <2>2. \A r \in 0..s - 1 : (k * s + r) \div s = k
    OBVIOUS
  <2>3. QED
    BY <2>1, <2>2
<1>5. ASSUME x \div s = k PROVE x \in k * s..k * s + s - 1
  <2>1. s * k = k * s
    OBVIOUS
  <2>2. QED
    BY <1>1, <1>5, <2>1, Divided
<1>6. QED
  BY <1>1, <1>2, <1>3, <1>4, <1>5

\* As many cells fit as the quotient says.
LEMMA Fits ==
  ASSUME NEW s \in Nat, s > 0, NEW h \in Nat, NEW k \in Nat
  PROVE  /\ k * s <= h <=> k <= h \div s
         /\ (k + 1) * s = k * s + s
         /\ (k + 2) * s = k * s + s + s
OBVIOUS

\* One row further down.
LEMMA NextRow ==
  ASSUME NEW s \in Nat, s > 0, NEW x \in Nat
  PROVE  (x + s) \div s = x \div s + 1
<1>1. x \div s \in Nat /\ s * (x \div s) <= x /\ x < s * (x \div s) + s
  BY Divided
<1> DEFINE k == x \div s
<1>2. (k + 1) * s = k * s + s /\ s * k = k * s /\ k * s \in Nat /\ k + 1 \in Nat
  BY <1>1
<1> HIDE DEF k
<1>3. x + s \in (k + 1) * s..(k + 1) * s + s - 1
  BY <1>1, <1>2 DEF k
<1>4. (x + s) \div s = k + 1
  BY <1>2, <1>3, InCell
<1>5. QED
  BY <1>4 DEF k
-----------------------------------------------------------------------------
(* What a writer displays *)

Chars == {Space, "$", "a", "b"}

Writers ==
  [screen : [Units -> Chars], bar : SUBSET Units, x : Nat, y : Nat, fg : 0..7, bg : 0..7,
   scale : MIN_SCALE..MAX_SCALE,
   escape_state : {"Normal", "SawEsc", "SawBracket", "InCsi"},
   csi_buf : Seq(Bytes), cursor_shown : BOOLEAN]

Rows(s) == HEIGHT \div s
Cols(s) == WIDTH \div s
Cells(s) == (0..Rows(s) - 1) \X (0..Cols(s) - 1)

\* w shows the page f, and writes next at row r and column c.
Displays(w, f, r, c) ==
  /\ w \in Writers
  /\ f \in [Cells(w.scale) -> Chars]
  /\ r \in 0..Rows(w.scale) - 1 /\ w.y = r * w.scale
  /\ c \in 0..Cols(w.scale) /\ w.x = c * w.scale
  /\ \A i \in 0..WIDTH - 1, j \in 0..HEIGHT - 1 :
       w.screen[<<i, j>>] =
         IF j \div w.scale < Rows(w.scale) /\ i \div w.scale < Cols(w.scale)
           THEN f[<<j \div w.scale, i \div w.scale>>] ELSE Space

Cursor(w) == w.cursor_shown /\ w.bar = CursorUnits(w)

LEMMA Dimensions ==
  ASSUME NEW w \in Writers
  PROVE  /\ w.scale \in Nat /\ w.scale > 0 /\ w.scale <= WIDTH /\ w.scale < HEIGHT
         /\ WIDTH \in Nat /\ HEIGHT \in Nat
         /\ Rows(w.scale) \in Nat \ {0} /\ Cols(w.scale) \in Nat \ {0}
<1>1. w.scale \in Nat /\ w.scale > 0 /\ w.scale <= WIDTH /\ w.scale < HEIGHT
      /\ WIDTH \in Nat /\ HEIGHT \in Nat
  BY FrameBufferAssumption DEF Writers, MIN_SCALE
<1> DEFINE s == w.scale
<1> HIDE DEF s
<1>2. 1 * s <= HEIGHT /\ 1 * s <= WIDTH /\ s \in Nat /\ s > 0
  BY <1>1 DEF s
<1>3. 1 <= HEIGHT \div s /\ 1 <= WIDTH \div s
  BY <1>1, <1>2, Fits
<1>4. HEIGHT \div s \in Nat /\ WIDTH \div s \in Nat
  BY <1>1, <1>2, Divided
<1>5. QED
  BY <1>1, <1>3, <1>4 DEF Rows, Cols, s

\* A display depends on the pixels, the scale and the position only.
LEMMA SameDisplay ==
  ASSUME NEW w, NEW v \in Writers, NEW f, NEW r, NEW c, Displays(w, f, r, c),
         v.screen = w.screen, v.x = w.x, v.y = w.y, v.scale = w.scale
  PROVE  Displays(v, f, r, c) /\ CursorUnits(v) = CursorUnits(w)
BY DEF Displays, CursorUnits

\* The page is what the corners of the cells show.
PageOf(w) ==
  [rc \in (0..Size(w.scale).rows - 1) \X (0..Size(w.scale).cols - 1) |->
     w.screen[<<rc[2] * w.scale, rc[1] * w.scale>>]]

LEMMA PageDisplayed ==
  ASSUME NEW w, NEW f, NEW r, NEW c, Displays(w, f, r, c)
  PROVE  PageOf(w) = f /\ w.y \div w.scale = r /\ w.x \div w.scale = c
<1> DEFINE s == w.scale
<1>1. w \in Writers
  BY DEF Displays
<1>2. s \in Nat /\ s > 0 /\ WIDTH \in Nat /\ HEIGHT \in Nat
      /\ Rows(s) \in Nat \ {0} /\ Cols(s) \in Nat \ {0}
  BY <1>1, Dimensions
<1>3. w.y \div s = r /\ w.x \div s = c
  <2>1. r \in Nat /\ c \in Nat /\ w.y = r * s /\ w.x = c * s
    BY <1>2 DEF Displays
  <2>2. QED
    BY <1>2, <2>1, InCell
<1>4. (0..Size(s).rows - 1) \X (0..Size(s).cols - 1) = Cells(s)
  BY DEF Size, Cells, Rows, Cols
<1>5. ASSUME NEW rc \in Cells(s) PROVE w.screen[<<rc[2] * s, rc[1] * s>>] = f[rc]
  <2>1. rc = <<rc[1], rc[2]>> /\ rc[1] \in Nat /\ rc[2] \in Nat
        /\ rc[1] < Rows(s) /\ rc[2] < Cols(s)
    BY <1>2 DEF Cells
  <2> DEFINE i == rc[2] * s
             j == rc[1] * s
  <2>2. i \div s = rc[2] /\ j \div s = rc[1] /\ i \in Nat /\ j \in Nat
    BY <1>2, <2>1, InCell
  <2>3. i < WIDTH /\ j < HEIGHT
    <3>1. (rc[2] + 1) * s <= WIDTH /\ (rc[1] + 1) * s <= HEIGHT
      <4>1. rc[2] + 1 \in Nat /\ rc[2] + 1 <= WIDTH \div s
            /\ rc[1] + 1 \in Nat /\ rc[1] + 1 <= HEIGHT \div s
        BY <1>2, <2>1 DEF Rows, Cols
      <4> HIDE DEF s
      <4>2. QED
        BY <1>2, <4>1, Fits
    <3>2. (rc[2] + 1) * s = i + s /\ (rc[1] + 1) * s = j + s
      BY <1>2, <2>1, Fits
    <3>3. QED
      BY <1>2, <2>2, <3>1, <3>2
  <2>4. i \in 0..WIDTH - 1 /\ j \in 0..HEIGHT - 1
    BY <1>2, <2>2, <2>3
  <2> HIDE DEF i, j
  <2>5. w.screen[<<i, j>>] = f[<<rc[1], rc[2]>>]
    BY <2>1, <2>2, <2>4 DEF Displays
  <2>6. QED
    BY <2>1, <2>5 DEF i, j
<1>6. f \in [Cells(s) -> Chars]
  BY DEF Displays
<1>7. PageOf(w) = [rc \in Cells(s) |-> f[rc]]
  BY <1>4, <1>5 DEF PageOf
<1>8. QED
  BY <1>3, <1>6, <1>7
-----------------------------------------------------------------------------
(* The operations on pixels *)

LEMMA EraseCursor ==
  ASSUME NEW w, NEW f, NEW r, NEW c, Displays(w, f, r, c), Cursor(w)
  PROVE  /\ Displays(erase_cursor(w), f, r, c)
         /\ erase_cursor(w).bar = {} /\ ~erase_cursor(w).cursor_shown
         /\ erase_cursor(w).scale = w.scale
<1> DEFINE v == [w EXCEPT !.bar = w.bar \ CursorUnits(w), !.cursor_shown = FALSE]
<1>1. w \in Writers
  BY DEF Displays
<1>2. erase_cursor(w) = v
  BY DEF erase_cursor, Cursor
<1>3. v \in Writers /\ v.screen = w.screen /\ v.x = w.x /\ v.y = w.y /\ v.scale = w.scale
  BY <1>1, Zenon DEF Writers
<1>4. v.bar = {}
  BY <1>1 DEF Cursor, Writers
<1>5. ~v.cursor_shown
  BY <1>1 DEF Writers
<1> HIDE DEF v
<1>6. QED
  BY <1>2, <1>3, <1>4, <1>5, SameDisplay

LEMMA DrawCursor ==
  ASSUME NEW w, NEW f, NEW r, NEW c, Displays(w, f, r, c), w.bar = {}, ~w.cursor_shown
  PROVE  /\ Displays(draw_cursor(w), f, r, c)
         /\ Cursor(draw_cursor(w))
         /\ draw_cursor(w).scale = w.scale
<1> DEFINE v == [w EXCEPT !.bar = w.bar \cup CursorUnits(w), !.cursor_shown = TRUE]
<1>1. w \in Writers
  BY DEF Displays
<1>2. draw_cursor(w) = v
  BY DEF draw_cursor
<1>3. CursorUnits(w) \subseteq Units
  BY DEF CursorUnits
<1>4. v \in Writers /\ v.screen = w.screen /\ v.x = w.x /\ v.y = w.y /\ v.scale = w.scale
  BY <1>1, <1>3, Zenon DEF Writers
<1>5. v.bar = CursorUnits(w)
  BY <1>1 DEF Writers
<1>6. v.cursor_shown
  BY <1>1 DEF Writers
<1> HIDE DEF v
<1>7. QED
  BY <1>2, <1>4, <1>5, <1>6, SameDisplay DEF Cursor

\* The page one row further up.
ScrolledPage(f, s) ==
  [rc \in Cells(s) |-> IF rc[1] = Rows(s) - 1 THEN Space ELSE f[<<rc[1] + 1, rc[2]>>]]

LEMMA ScrollDisplays ==
  ASSUME NEW w, NEW f, NEW r, NEW c, Displays(w, f, r, c), w.bar = {}
  PROVE  /\ Displays(scroll_up(w), ScrolledPage(f, w.scale), r, c)
         /\ scroll_up(w).bar = {} /\ scroll_up(w).scale = w.scale
         /\ scroll_up(w).cursor_shown = w.cursor_shown
<1> DEFINE s == w.scale
           pixels == [u \in Units |-> IF u[2] + s < HEIGHT THEN w.screen[<<u[1], u[2] + s>>] ELSE Space]
           bars == {u \in Units : <<u[1], u[2] + s>> \in w.bar}
           v == [w EXCEPT !.screen = pixels, !.bar = bars]
           g == ScrolledPage(f, s)
<1>1. w \in Writers /\ f \in [Cells(s) -> Chars] /\ w.screen \in [Units -> Chars]
  BY DEF Displays, Writers
<1>2. s \in Nat /\ s > 0 /\ s < HEIGHT /\ WIDTH \in Nat /\ HEIGHT \in Nat
      /\ Rows(s) \in Nat \ {0} /\ Cols(s) \in Nat \ {0}
  BY <1>1, Dimensions
<1>3. scroll_up(w) = v
  BY <1>2 DEF scroll_up
<1>4. Space \in Chars
  BY DEF Chars
<1>5. pixels \in [Units -> Chars]
  <2>1. ASSUME NEW u \in Units PROVE pixels[u] \in Chars
    <3>1. u[1] \in 0..WIDTH - 1 /\ u[2] \in 0..HEIGHT - 1
      BY DEF Units
    <3>2. u[2] + s < HEIGHT => <<u[1], u[2] + s>> \in Units
      BY <1>2, <3>1 DEF Units
    <3>3. QED
      BY <1>1, <1>4, <3>2
  <2>2. QED
    BY <2>1
<1>6. bars = {}
  OBVIOUS
<1>7. g \in [Cells(s) -> Chars]
  <2>1. ASSUME NEW rc \in Cells(s) PROVE g[rc] \in Chars
    <3>1. rc[1] # Rows(s) - 1 => <<rc[1] + 1, rc[2]>> \in Cells(s)
      BY <1>2 DEF Cells
    <3>2. g[rc] = IF rc[1] = Rows(s) - 1 THEN Space ELSE f[<<rc[1] + 1, rc[2]>>]
      BY DEF ScrolledPage
    <3>3. QED
      BY <1>1, <1>4, <3>1, <3>2
  <2>2. QED
    BY <2>1 DEF ScrolledPage
<1>8. ASSUME NEW i \in 0..WIDTH - 1, NEW j \in 0..HEIGHT - 1
      PROVE  pixels[<<i, j>>] = IF j \div s < Rows(s) /\ i \div s < Cols(s)
                                  THEN g[<<j \div s, i \div s>>] ELSE Space
  <2>1. i \in Nat /\ j \in Nat /\ <<i, j>> \in Units
    BY <1>2 DEF Units
  <2>2. pixels[<<i, j>>] = IF j + s < HEIGHT THEN w.screen[<<i, j + s>>] ELSE Space
    BY <2>1
  <2> DEFINE k == j \div s
             l == i \div s
  <2>3. k \in Nat /\ l \in Nat /\ (j + s) \div s = k + 1 /\ s * k <= j /\ j < s * k + s /\ s * k = k * s
    BY <1>2, <2>1, Divided, NextRow
  <2> HIDE DEF pixels, g
  <2>4. CASE j + s < HEIGHT
    <3>1. j + s \in 0..HEIGHT - 1
      BY <1>2, <2>1, <2>4
    <3>2. w.screen[<<i, j + s>>] = IF k + 1 < Rows(s) /\ l < Cols(s) THEN f[<<k + 1, l>>] ELSE Space
      BY <2>3, <3>1 DEF Displays
    <3>3. CASE k < Rows(s) /\ l < Cols(s)
      <4>1. <<k, l>> \in Cells(s)
        BY <1>2, <2>3, <3>3 DEF Cells
      <4>2. g[<<k, l>>] = IF k = Rows(s) - 1 THEN Space ELSE f[<<k + 1, l>>]
        BY <4>1 DEF g, ScrolledPage
      <4>3. k = Rows(s) - 1 <=> ~(k + 1 < Rows(s))
        BY <1>2, <2>3, <3>3
      <4>4. QED
        BY <2>2, <2>4, <3>2, <3>3, <4>2, <4>3
    <3>4. CASE ~(k < Rows(s) /\ l < Cols(s))
      <4>1. ~(k + 1 < Rows(s) /\ l < Cols(s))
        BY <1>2, <2>3, <3>4
      <4>2. QED
        BY <2>2, <2>4, <3>2, <3>4, <4>1
    <3>5. QED
      BY <3>3, <3>4
  <2>5. CASE ~(j + s < HEIGHT)
    <3>1. ~(k + 1 < Rows(s))
      <4>1. SUFFICES ASSUME k + 1 < Rows(s) PROVE FALSE
        OBVIOUS
      <4>2. k + 2 \in Nat /\ k + 2 <= HEIGHT \div s
        BY <1>2, <2>3, <4>1 DEF Rows
      <4>3. (k + 2) * s <= HEIGHT
        <5> HIDE DEF s, k
        <5>1. QED
          BY <1>2, <4>2, Fits
      <4>4. (k + 2) * s = k * s + s + s
        <5> HIDE DEF s, k
        <5>1. QED
          BY <1>2, <2>3, Fits
      <4>5. QED
        BY <1>2, <2>1, <2>3, <2>5, <4>3, <4>4
    <3>2. CASE k < Rows(s) /\ l < Cols(s)
      <4>1. <<k, l>> \in Cells(s)
        BY <1>2, <2>3, <3>2 DEF Cells
      <4>2. g[<<k, l>>] = IF k = Rows(s) - 1 THEN Space ELSE f[<<k + 1, l>>]
        BY <4>1 DEF g, ScrolledPage
      <4>3. k = Rows(s) - 1
        BY <1>2, <2>3, <3>1, <3>2
      <4>4. QED
        BY <2>2, <2>5, <3>2, <4>2, <4>3
    <3>3. CASE ~(k < Rows(s) /\ l < Cols(s))
      BY <2>2, <2>5, <3>3
    <3>4. QED
      BY <3>2, <3>3
  <2>6. QED
    BY <2>4, <2>5
<1> HIDE DEF pixels, bars, g
<1>9. v \in Writers /\ v.screen = pixels /\ v.bar = {} /\ v.x = w.x /\ v.y = w.y /\ v.scale = s
  BY <1>1, <1>5, <1>6, Zenon DEF Writers
<1>10. v.cursor_shown = w.cursor_shown
  BY <1>1 DEF Writers
<1> HIDE DEF v
<1>11. Displays(v, g, r, c)
  BY <1>7, <1>8, <1>9 DEF Displays
<1>12. QED
  BY <1>3, <1>9, <1>10, <1>11 DEF g

\* The page and the row after moving to a new line.
PageBelow(f, r, s) == IF r = Rows(s) - 1 THEN ScrolledPage(f, s) ELSE f
RowBelow(r, s) == IF r = Rows(s) - 1 THEN r ELSE r + 1

LEMMA NewLineDisplays ==
  ASSUME NEW w, NEW f, NEW r, NEW c, Displays(w, f, r, c), w.bar = {}
  PROVE  /\ Displays(new_line(w), PageBelow(f, r, w.scale), RowBelow(r, w.scale), 0)
         /\ new_line(w).bar = {} /\ new_line(w).scale = w.scale
         /\ new_line(w).cursor_shown = w.cursor_shown
<1> DEFINE s == w.scale
<1>1. w \in Writers /\ r \in 0..Rows(s) - 1 /\ w.y = r * s
  BY DEF Displays
<1>2. s \in Nat /\ s > 0 /\ HEIGHT \in Nat /\ Rows(s) \in Nat \ {0} /\ Cols(s) \in Nat \ {0}
  BY <1>1, Dimensions
<1>3. r \in Nat /\ r * s \in Nat
  BY <1>1, <1>2
<1>4. (r * s + s) + s > HEIGHT <=> r = Rows(s) - 1
  <2> HIDE DEF s
  <2>1. r + 2 \in Nat
    BY <1>3
  <2>2. (r + 2) * s <= HEIGHT <=> r + 2 <= HEIGHT \div s
    BY <1>2, <2>1, Fits
  <2>3. (r + 2) * s = r * s + s + s
    BY <1>2, <1>3, Fits
  <2>4. QED
    BY <1>1, <1>2, <1>3, <2>2, <2>3 DEF Rows
<1>5. 0 = 0 * s /\ 0 \in 0..Cols(s)
  BY <1>2
<1>6. CASE r = Rows(s) - 1
  <2> DEFINE u == scroll_up(w)
             v == [u EXCEPT !.x = 0]
             g == ScrolledPage(f, s)
  <2>1. Displays(u, g, r, c) /\ u.bar = {} /\ u.scale = s /\ u.cursor_shown = w.cursor_shown
    BY ScrollDisplays
  <2>2. new_line(w) = v
    BY <1>1, <1>4, <1>6 DEF new_line
  <2>3. PageBelow(f, r, s) = g /\ RowBelow(r, s) = r
    BY <1>6 DEF PageBelow, RowBelow
  <2> HIDE DEF u, g
  <2>4. u \in Writers
    BY <2>1 DEF Displays
  <2>5. v \in Writers /\ v.screen = u.screen /\ v.bar = u.bar /\ v.x = 0 /\ v.y = u.y /\ v.scale = u.scale
    BY <2>4, Zenon DEF Writers
  <2>6. v.cursor_shown = u.cursor_shown
    BY <2>4 DEF Writers
  <2> HIDE DEF v
  <2>7. Displays(v, g, r, 0)
    BY <1>5, <2>1, <2>5 DEF Displays
  <2>8. QED
    BY <2>1, <2>2, <2>3, <2>5, <2>6, <2>7
<1>7. CASE r # Rows(s) - 1
  <2> DEFINE y == w.y + s
             v == [w EXCEPT !.x = 0, !.y = y]
  <2>1. new_line(w) = v
    BY <1>1, <1>4, <1>7 DEF new_line
  <2>2. y \in Nat
    BY <1>1, <1>2, <1>3
  <2> HIDE DEF y
  <2>3. PageBelow(f, r, s) = f /\ RowBelow(r, s) = r + 1
    BY <1>7 DEF PageBelow, RowBelow
  <2>4. r + 1 \in 0..Rows(s) - 1
    BY <1>1, <1>2, <1>7
  <2>5. v \in Writers /\ v.screen = w.screen /\ v.bar = w.bar /\ v.x = 0 /\ v.y = y /\ v.scale = s
    BY <1>1, <2>2, Zenon DEF Writers
  <2>6. v.cursor_shown = w.cursor_shown
    BY <1>1 DEF Writers
  <2> HIDE DEF v
  <2>7. y = (r + 1) * s
    <3> HIDE DEF s
    <3>1. (r + 1) * s = r * s + s
      BY <1>2, <1>3, Fits
    <3>2. QED
      BY <1>1, <3>1 DEF y
  <2>8. Displays(v, f, r + 1, 0)
    BY <1>5, <2>4, <2>5, <2>7 DEF Displays
  <2>9. QED
    BY <2>1, <2>3, <2>5, <2>6, <2>8
<1>8. QED
  BY <1>6, <1>7

\* A character covers exactly the units of its cell.
LEMMA DrawDisplays ==
  ASSUME NEW w, NEW f, NEW r, NEW c, Displays(w, f, r, c), c < Cols(w.scale), NEW ch \in Chars
  PROVE  /\ Displays(draw_char(w, w.x, w.y, ch), [f EXCEPT ![<<r, c>>] = ch], r, c)
         /\ draw_char(w, w.x, w.y, ch).bar = w.bar \ Cell(w, w.x, w.y)
         /\ draw_char(w, w.x, w.y, ch).scale = w.scale
<1> DEFINE s == w.scale
           cell == Cell(w, w.x, w.y)
           pixels == [u \in Units |-> IF u \in cell THEN ch ELSE w.screen[u]]
           v == [w EXCEPT !.screen = pixels, !.bar = w.bar \ cell]
           g == [f EXCEPT ![<<r, c>>] = ch]
<1>1. w \in Writers /\ f \in [Cells(s) -> Chars] /\ w.screen \in [Units -> Chars]
      /\ r \in 0..Rows(s) - 1 /\ w.y = r * s /\ c \in 0..Cols(s) /\ w.x = c * s
  BY DEF Displays, Writers
<1>2. s \in Nat /\ s > 0 /\ WIDTH \in Nat /\ HEIGHT \in Nat
      /\ Rows(s) \in Nat \ {0} /\ Cols(s) \in Nat \ {0}
  BY <1>1, Dimensions
<1>3. r \in Nat /\ c \in Nat
  BY <1>1, <1>2
<1>4. draw_char(w, w.x, w.y, ch) = v
  BY DEF draw_char
<1>5. pixels \in [Units -> Chars]
  BY <1>1
<1>6. <<r, c>> \in Cells(s) /\ g \in [Cells(s) -> Chars]
  BY <1>1, <1>2, <1>3 DEF Cells
<1>7. ASSUME NEW i \in 0..WIDTH - 1, NEW j \in 0..HEIGHT - 1
      PROVE  pixels[<<i, j>>] = IF j \div s < Rows(s) /\ i \div s < Cols(s)
                                  THEN g[<<j \div s, i \div s>>] ELSE Space
  <2> DEFINE k == j \div s
             l == i \div s
  <2>1. i \in Nat /\ j \in Nat /\ <<i, j>> \in Units
    BY <1>2 DEF Units
  <2>2. k \in Nat /\ l \in Nat
    BY <1>2, <2>1, Divided
  <2>3. i \in c * s..c * s + s - 1 <=> l = c
    BY <1>2, <1>3, <2>1, InCell
  <2>4. j \in r * s..r * s + s - 1 <=> k = r
    BY <1>2, <1>3, <2>1, InCell, Zenon
  <2>5. <<i, j>> \in cell <=> (i \in c * s..c * s + s - 1 /\ j \in r * s..r * s + s - 1)
    BY <1>1, <2>1 DEF Cell
  <2> HIDE DEF cell, k, l
  <2>6. pixels[<<i, j>>] = IF l = c /\ k = r THEN ch ELSE w.screen[<<i, j>>]
    BY <2>1, <2>3, <2>4, <2>5
  <2>7. w.screen[<<i, j>>] = IF k < Rows(s) /\ l < Cols(s) THEN f[<<k, l>>] ELSE Space
    BY DEF Displays, k, l
  <2>8. CASE k < Rows(s) /\ l < Cols(s)
    <3>1. <<k, l>> \in Cells(s)
      BY <1>2, <2>2, <2>8 DEF Cells
    <3>2. g[<<k, l>>] = IF l = c /\ k = r THEN ch ELSE f[<<k, l>>]
      BY <1>1, <1>6, <3>1
    <3>3. QED
      BY <2>6, <2>7, <2>8, <3>2 DEF k, l
  <2>9. CASE ~(k < Rows(s) /\ l < Cols(s))
    <3>1. ~(l = c /\ k = r)
      BY <1>1, <1>2, <2>9
    <3>2. QED
      BY <2>6, <2>7, <2>9, <3>1 DEF k, l
  <2>10. QED
    BY <2>8, <2>9
<1> HIDE DEF pixels, cell, g
<1>8. v \in Writers /\ v.screen = pixels /\ v.bar = w.bar \ cell /\ v.x = w.x /\ v.y = w.y /\ v.scale = s
  BY <1>1, <1>5, Zenon DEF Writers
<1> HIDE DEF v
<1>9. Displays(v, g, r, c)
  BY <1>1, <1>6, <1>7, <1>8 DEF Displays
<1>10. QED
  BY <1>4, <1>8, <1>9 DEF g, cell
-----------------------------------------------------------------------------
(* The bytes *)

LEMMA PutNewLineDisplays ==
  ASSUME NEW w, NEW f, NEW r, NEW c, Displays(w, f, r, c), Cursor(w)
  PROVE  /\ Displays(PutNewLine(w), PageBelow(f, r, w.scale), RowBelow(r, w.scale), 0)
         /\ Cursor(PutNewLine(w)) /\ PutNewLine(w).scale = w.scale
<1> DEFINE e == erase_cursor(w)
           n == new_line(e)
<1>1. Displays(e, f, r, c) /\ e.bar = {} /\ ~e.cursor_shown /\ e.scale = w.scale
  BY EraseCursor
<1> HIDE DEF e
<1>2. Displays(n, PageBelow(f, r, w.scale), RowBelow(r, w.scale), 0)
      /\ n.bar = {} /\ n.scale = w.scale /\ n.cursor_shown = e.cursor_shown
  BY <1>1, NewLineDisplays
<1> HIDE DEF n
<1>3. ~n.cursor_shown
  BY <1>1, <1>2
<1>4. PutNewLine(w) = draw_cursor(n)
  BY DEF PutNewLine, e, n
<1>5. QED
  BY <1>2, <1>3, <1>4, DrawCursor

LEMMA PutBackspaceDisplays ==
  ASSUME NEW w, NEW f, NEW r, NEW c, Displays(w, f, r, c), Cursor(w)
  PROVE  /\ Displays(PutBackspace(w), f, r, IF c > 0 THEN c - 1 ELSE c)
         /\ Cursor(PutBackspace(w)) /\ PutBackspace(w).scale = w.scale
<1> DEFINE e == erase_cursor(w)
           s == w.scale
<1>1. Displays(e, f, r, c) /\ e.bar = {} /\ ~e.cursor_shown /\ e.scale = s
  BY EraseCursor
<1> HIDE DEF e
<1>2. e \in Writers /\ c \in 0..Cols(s) /\ e.x = c * s
  BY <1>1 DEF Displays
<1>3. s \in Nat /\ s > 0 /\ Cols(s) \in Nat \ {0}
  BY <1>1, <1>2, Dimensions
<1>4. CASE c > 0
  <2> DEFINE v == [e EXCEPT !.x = e.x - s]
  <2>1. c - 1 \in Nat /\ c \in Nat /\ c - 1 \in 0..Cols(s) /\ (c - 1) + 1 = c
    BY <1>2, <1>3, <1>4
  <2>2. e.x = (c - 1) * s + s /\ (c - 1) * s \in Nat
    <3> DEFINE d == c - 1
    <3> HIDE DEF s, d
    <3>1. d \in Nat /\ d + 1 = c
      BY <2>1 DEF d
    <3>2. (d + 1) * s = d * s + s /\ d * s \in Nat
      BY <1>3, <3>1
    <3>3. QED
      BY <1>2, <3>1, <3>2 DEF d
  <2>3. e.x >= e.scale /\ e.x - s = (c - 1) * s
    BY <1>1, <1>3, <2>2
  <2>4. PutBackspace(w) = draw_cursor(v)
    BY <1>1, <2>3 DEF PutBackspace, e
  <2>5. v \in Writers /\ v.screen = e.screen /\ v.bar = e.bar /\ v.x = (c - 1) * s /\ v.y = e.y /\ v.scale = e.scale
    BY <1>2, <2>2, <2>3 DEF Writers
  <2>6. v.cursor_shown = e.cursor_shown
    BY <1>2 DEF Writers
  <2> HIDE DEF v
  <2>7. Displays(v, f, r, c - 1)
    BY <1>1, <2>1, <2>5 DEF Displays
  <2>8. v.bar = {} /\ ~v.cursor_shown
    BY <1>1, <2>5, <2>6
  <2>9. QED
    BY <1>1, <1>4, <2>4, <2>5, <2>7, <2>8, DrawCursor
<1>5. CASE ~(c > 0)
  <2>1. c = 0 /\ e.x = 0
    BY <1>2, <1>3, <1>5
  <2>2. ~(e.x >= e.scale)
    BY <1>1, <1>3, <2>1
  <2>3. PutBackspace(w) = draw_cursor(e)
    BY <2>2 DEF PutBackspace, e
  <2>4. QED
    BY <1>1, <1>5, <2>3, DrawCursor
<1>6. QED
  BY <1>4, <1>5

\* Where the next character goes: below when the row is full.
PutPage(f, r, c, s) == IF c = Cols(s) THEN PageBelow(f, r, s) ELSE f
PutRow(r, c, s) == IF c = Cols(s) THEN RowBelow(r, s) ELSE r
PutCol(c, s) == IF c = Cols(s) THEN 0 ELSE c

LEMMA GlyphChars ==
  ASSUME NEW b
  PROVE  Glyph(b) \in Chars
BY DEF Glyph, Chars

LEMMA PutCharDisplays ==
  ASSUME NEW w, NEW f, NEW r, NEW c, Displays(w, f, r, c), Cursor(w), NEW b
  PROVE  /\ Displays(PutChar(w, b),
                     [PutPage(f, r, c, w.scale) EXCEPT
                        ![<<PutRow(r, c, w.scale), PutCol(c, w.scale)>>] = Glyph(b)],
                     PutRow(r, c, w.scale), PutCol(c, w.scale) + 1)
         /\ Cursor(PutChar(w, b)) /\ PutChar(w, b).scale = w.scale
<1> DEFINE s == w.scale
           v == IF w.x + s > WIDTH THEN new_line(erase_cursor(w)) ELSE w
           g == PutPage(f, r, c, s)
           k == PutRow(r, c, s)
           l == PutCol(c, s)
           ch == Glyph(b)
           d == draw_char(v, v.x, v.y, ch)
           x == d.x + s
           n == [d EXCEPT !.cursor_shown = FALSE, !.x = x]
<1>1. w \in Writers /\ c \in 0..Cols(s) /\ w.x = c * s
  BY DEF Displays
<1>2. s \in Nat /\ s > 0 /\ WIDTH \in Nat /\ Cols(s) \in Nat \ {0}
  BY <1>1, Dimensions
<1>3. PutChar(w, b) = draw_cursor(n)
  BY DEF PutChar
<1>4. c \in Nat /\ c * s \in Nat
  BY <1>1, <1>2
<1>5. w.x + s > WIDTH <=> c = Cols(s)
  <2> HIDE DEF s
  <2>1. c + 1 \in Nat
    BY <1>4
  <2>2. (c + 1) * s <= WIDTH <=> c + 1 <= WIDTH \div s
    BY <1>2, <2>1, Fits
  <2>3. (c + 1) * s = c * s + s
    BY <1>2, <1>4, Fits
  <2>4. QED
    BY <1>1, <1>2, <1>4, <2>2, <2>3 DEF Cols
<1>6. ch \in Chars
  BY GlyphChars
<1>7. /\ Displays(v, g, k, l) /\ l < Cols(s) /\ v.scale = s
      /\ v.bar \subseteq Cell(v, v.x, v.y)
  <2>1. CASE c = Cols(s)
    <3> DEFINE e == erase_cursor(w)
    <3>1. Displays(e, f, r, c) /\ e.bar = {} /\ e.scale = s
      BY EraseCursor
    <3> HIDE DEF e
    <3>2. Displays(new_line(e), PageBelow(f, r, s), RowBelow(r, s), 0)
          /\ new_line(e).bar = {} /\ new_line(e).scale = s
      BY <3>1, NewLineDisplays
    <3>3. v = new_line(e)
      BY <1>5, <2>1 DEF e
    <3>4. g = PageBelow(f, r, s) /\ k = RowBelow(r, s) /\ l = 0
      BY <2>1 DEF PutPage, PutRow, PutCol
    <3> HIDE DEF v, g, k, l
    <3>5. QED
      BY <1>2, <3>2, <3>3, <3>4
  <2>2. CASE c # Cols(s)
    <3>1. v = w
      BY <1>5, <2>2
    <3>2. g = f /\ k = r /\ l = c
      BY <2>2 DEF PutPage, PutRow, PutCol
    <3>3. w.bar = CursorUnits(w) /\ w.y \in Nat /\ w.x \in Nat
      BY <1>1 DEF Cursor, Writers
    <3>4. CursorUnits(w) \subseteq Cell(w, w.x, w.y)
      BY <1>2, <3>3 DEF CursorUnits, Cell
    <3> HIDE DEF v, g, k, l
    <3>5. QED
      BY <1>1, <1>2, <2>2, <3>1, <3>2, <3>3, <3>4
  <2>3. QED
    BY <2>1, <2>2
<1> HIDE DEF v, g, k, l, ch
<1>8. /\ Displays(d, [g EXCEPT ![<<k, l>>] = ch], k, l)
      /\ d.bar = v.bar \ Cell(v, v.x, v.y) /\ d.scale = s
  BY <1>6, <1>7, DrawDisplays
<1>9. d.bar = {}
  BY <1>7, <1>8
<1> HIDE DEF d
<1> DEFINE p == [g EXCEPT ![<<k, l>>] = ch]
<1>10. d \in Writers /\ d.x = l * s /\ l \in 0..Cols(s)
  BY <1>8 DEF Displays
<1>11. l \in Nat /\ l + 1 \in 0..Cols(s) /\ x = (l + 1) * s /\ x \in Nat
  <2>1. l \in Nat /\ l + 1 \in 0..Cols(s)
    BY <1>2, <1>7, <1>10
  <2> HIDE DEF s
  <2>2. (l + 1) * s = l * s + s /\ l * s \in Nat
    BY <1>2, <2>1
  <2>3. QED
    BY <1>2, <1>10, <2>1, <2>2
<1> HIDE DEF x, p
<1>12. n \in Writers /\ n.screen = d.screen /\ n.bar = {} /\ n.x = x /\ n.y = d.y /\ n.scale = s
  BY <1>8, <1>9, <1>10, <1>11, Zenon DEF Writers
<1>13. ~n.cursor_shown
  BY <1>10 DEF Writers
<1> HIDE DEF n
<1>14. Displays(n, p, k, l + 1)
  BY <1>8, <1>11, <1>12 DEF Displays, p
<1>15. Displays(draw_cursor(n), p, k, l + 1) /\ Cursor(draw_cursor(n)) /\ draw_cursor(n).scale = s
  BY <1>12, <1>13, <1>14, DrawCursor
<1>16. QED
  BY <1>3, <1>15 DEF p, g, k, l, ch

\* A page with nothing on it.
EmptyPage(s) == [rc \in Cells(s) |-> Space]

LEMMA ClearDisplays ==
  ASSUME NEW w \in Writers
  PROVE  /\ Displays(clear_screen(w), EmptyPage(w.scale), 0, 0)
         /\ Cursor(clear_screen(w)) /\ clear_screen(w).scale = w.scale
<1> DEFINE s == w.scale
           v == [w EXCEPT !.screen = Blank, !.bar = {}, !.x = 0, !.y = 0, !.cursor_shown = FALSE]
           f == EmptyPage(s)
<1>1. s \in Nat /\ s > 0 /\ WIDTH \in Nat /\ HEIGHT \in Nat
      /\ Rows(s) \in Nat \ {0} /\ Cols(s) \in Nat \ {0}
  BY Dimensions
<1>2. clear_screen(w) = draw_cursor(v)
  BY DEF clear_screen
<1>3. Blank \in [Units -> Chars] /\ f \in [Cells(s) -> Chars]
  BY DEF Blank, Chars, EmptyPage
<1>4. v \in Writers /\ v.screen = Blank /\ v.bar = {} /\ v.x = 0 /\ v.y = 0 /\ v.scale = s
  BY <1>3, Zenon DEF Writers
<1>5. ~v.cursor_shown
  BY DEF Writers
<1>6. ASSUME NEW i \in 0..WIDTH - 1, NEW j \in 0..HEIGHT - 1
      PROVE  Blank[<<i, j>>] = IF j \div s < Rows(s) /\ i \div s < Cols(s)
                                 THEN f[<<j \div s, i \div s>>] ELSE Space
  <2>1. <<i, j>> \in Units /\ i \in Nat /\ j \in Nat
    BY <1>1 DEF Units
  <2>2. Blank[<<i, j>>] = Space
    BY <2>1 DEF Blank
  <2>3. j \div s \in Nat /\ i \div s \in Nat
    BY <1>1, <2>1, Divided
  <2>4. j \div s < Rows(s) /\ i \div s < Cols(s) => <<j \div s, i \div s>> \in Cells(s)
    BY <1>1, <2>3 DEF Cells
  <2>5. j \div s < Rows(s) /\ i \div s < Cols(s) => f[<<j \div s, i \div s>>] = Space
    BY <2>4 DEF EmptyPage
  <2>6. QED
    BY <2>2, <2>5
<1>7. 0 = 0 * s /\ 0 \in 0..Rows(s) - 1 /\ 0 \in 0..Cols(s)
  BY <1>1
<1> HIDE DEF f, v
<1>8. Displays(v, f, 0, 0)
  BY <1>3, <1>4, <1>6, <1>7 DEF Displays
<1>9. Displays(draw_cursor(v), f, 0, 0) /\ Cursor(draw_cursor(v)) /\ draw_cursor(v).scale = s
  BY <1>4, <1>5, <1>8, DrawCursor
<1>10. QED
  BY <1>2, <1>9 DEF f

\* The escape sequences change nothing that is displayed.
Unseen(w, v) ==
  /\ v \in Writers /\ v.screen = w.screen /\ v.bar = w.bar /\ v.x = w.x /\ v.y = w.y
  /\ v.scale = w.scale /\ v.cursor_shown = w.cursor_shown

LEMMA UnseenDisplays ==
  ASSUME NEW w, NEW v, NEW f, NEW r, NEW c, Displays(w, f, r, c), Cursor(w), Unseen(w, v)
  PROVE  Displays(v, f, r, c) /\ Cursor(v) /\ v.scale = w.scale
BY SameDisplay DEF Unseen, Cursor

EscapeStates == {"Normal", "SawEsc", "SawBracket", "InCsi"}

LEMMA UnseenState ==
  ASSUME NEW w \in Writers, NEW e \in EscapeStates
  PROVE  Unseen(w, [w EXCEPT !.escape_state = e])
BY DEF Unseen, Writers, EscapeStates

LEMMA UnseenBuf ==
  ASSUME NEW w \in Writers, NEW e \in EscapeStates, NEW buf \in Seq(Bytes)
  PROVE  Unseen(w, [w EXCEPT !.escape_state = e, !.csi_buf = buf])
BY Zenon DEF Unseen, Writers, EscapeStates

LEMMA UnseenSgr ==
  ASSUME NEW w \in Writers
  PROVE  Unseen(w, apply_sgr(w))
<1> DEFINE param == Param(w.csi_buf)
<1> HIDE DEF param
<1>1. ASSUME NEW k \in 0..7, NEW l \in 0..7 PROVE Unseen(w, [w EXCEPT !.fg = k, !.bg = l])
  BY Zenon DEF Unseen, Writers
<1>2. ASSUME NEW k \in 0..7 PROVE Unseen(w, [w EXCEPT !.fg = k])
  BY Zenon DEF Unseen, Writers
<1>3. ASSUME NEW k \in 0..7 PROVE Unseen(w, [w EXCEPT !.bg = k])
  BY Zenon DEF Unseen, Writers
<1>4. Unseen(w, w)
  BY DEF Unseen
<1>5. DefaultFg \in 0..7 /\ DefaultBg \in 0..7
  BY DEF DefaultFg, DefaultBg
<1>6. apply_sgr(w) = CASE param = 0        -> [w EXCEPT !.fg = DefaultFg, !.bg = DefaultBg]
                       [] param \in 30..37 -> [w EXCEPT !.fg = param - 30]
                       [] param \in 40..47 -> [w EXCEPT !.bg = param - 40]
                       [] OTHER            -> w
  BY Zenon DEF apply_sgr, param
<1> HIDE DEF DefaultFg, DefaultBg
<1>7. CASE param = 0
  <2>1. apply_sgr(w) = [w EXCEPT !.fg = DefaultFg, !.bg = DefaultBg]
    BY <1>6, <1>7
  <2>2. QED
    BY <1>1, <1>5, <2>1, Zenon
<1>8. CASE param \in 30..37
  <2>1. apply_sgr(w) = [w EXCEPT !.fg = param - 30] /\ param - 30 \in 0..7
    BY <1>6, <1>8
  <2>2. QED
    BY <1>2, <2>1
<1>9. CASE param \in 40..47
  <2>1. apply_sgr(w) = [w EXCEPT !.bg = param - 40] /\ param - 40 \in 0..7
    BY <1>6, <1>9
  <2>2. QED
    BY <1>3, <2>1
<1>10. CASE ~(param = 0) /\ ~(param \in 30..37) /\ ~(param \in 40..47)
  BY <1>4, <1>6, <1>10
<1>11. QED
  BY <1>7, <1>8, <1>9, <1>10

LEMMA UnseenTwice ==
  ASSUME NEW u, NEW v, NEW w, Unseen(u, v), Unseen(v, w)
  PROVE  Unseen(u, w)
BY DEF Unseen

LEMMA UnseenCsi ==
  ASSUME NEW w \in Writers, NEW b \in Bytes
  PROVE  Unseen(w, InCsi(w, b))
<1>1. "Normal" \in EscapeStates
  BY DEF EscapeStates
<1>2. Unseen(w, [w EXCEPT !.escape_state = "Normal"])
  BY <1>1, UnseenState
<1>3. Unseen(w, [w EXCEPT !.csi_buf = Append(w.csi_buf, b)])
  <2> DEFINE buf == Append(w.csi_buf, b)
  <2>1. buf \in Seq(Bytes)
    BY DEF Writers
  <2> HIDE DEF buf
  <2>2. Unseen(w, [w EXCEPT !.csi_buf = buf])
    BY <2>1, Zenon DEF Unseen, Writers
  <2>3. QED
    BY <2>2 DEF buf
<1> DEFINE v == apply_sgr(w)
<1>4. Unseen(w, v) /\ v \in Writers
  BY UnseenSgr DEF Unseen
<1> HIDE DEF v
<1>5. Unseen(w, [v EXCEPT !.escape_state = "Normal"])
  BY <1>1, <1>4, UnseenState, UnseenTwice
<1>6. \/ InCsi(w, b) = [w EXCEPT !.csi_buf = Append(w.csi_buf, b)]
      \/ InCsi(w, b) = [v EXCEPT !.escape_state = "Normal"]
      \/ InCsi(w, b) = [w EXCEPT !.escape_state = "Normal"]
  <2>1. CASE CsiByte(b) /\ Len(w.csi_buf) < CSI_LEN
    <3>1. b # "m"
      BY <2>1, Zenon DEF CsiByte, Digits
    <3>2. QED
      BY <2>1, <3>1 DEF InCsi
  <2>2. CASE ~(CsiByte(b) /\ Len(w.csi_buf) < CSI_LEN) /\ b = "m"
    BY <2>2 DEF InCsi, v
  <2>3. CASE ~(CsiByte(b) /\ Len(w.csi_buf) < CSI_LEN) /\ b # "m"
    BY <2>3 DEF InCsi
  <2>4. QED
    BY <2>1, <2>2, <2>3
<1>7. QED
  BY <1>2, <1>3, <1>5, <1>6

\* What a byte does to the page.
LEMMA ByteDisplays ==
  ASSUME NEW w, NEW f, NEW r, NEW c, Displays(w, f, r, c), Cursor(w), NEW b \in Bytes
  PROVE  /\ Cursor(write_byte(w, b)) /\ write_byte(w, b).scale = w.scale
         /\ \/ Displays(write_byte(w, b), f, r, c)
            \/ Displays(write_byte(w, b), PageBelow(f, r, w.scale), RowBelow(r, w.scale), 0)
            \/ c > 0 /\ Displays(write_byte(w, b), f, r, c - 1)
            \/ Displays(write_byte(w, b),
                        [PutPage(f, r, c, w.scale) EXCEPT
                           ![<<PutRow(r, c, w.scale), PutCol(c, w.scale)>>] = Glyph(b)],
                        PutRow(r, c, w.scale), PutCol(c, w.scale) + 1)
<1>1. w \in Writers /\ w.escape_state \in EscapeStates
  BY DEF Displays, Writers, EscapeStates
<1>2. ASSUME NEW v, Unseen(w, v), write_byte(w, b) = v
      PROVE  /\ Cursor(write_byte(w, b)) /\ write_byte(w, b).scale = w.scale
             /\ Displays(write_byte(w, b), f, r, c)
  BY <1>2, UnseenDisplays
<1>3. CASE w.escape_state = "Normal"
  <2>1. CASE b = "esc"
    <3>1. write_byte(w, b) = [w EXCEPT !.escape_state = "SawEsc"]
      BY <1>3, <2>1 DEF write_byte
    <3>2. Unseen(w, [w EXCEPT !.escape_state = "SawEsc"])
      BY <1>1, UnseenState, Zenon DEF EscapeStates
    <3>3. QED
      BY <1>2, <3>1, <3>2
  <2>2. CASE b = "nl"
    <3>1. write_byte(w, b) = PutNewLine(w)
      BY <1>3, <2>2 DEF write_byte
    <3>2. QED
      BY <3>1, PutNewLineDisplays
  <2>3. CASE b = "bs"
    <3>1. write_byte(w, b) = PutBackspace(w)
      BY <1>3, <2>3 DEF write_byte
    <3>2. CASE c > 0
      BY <3>1, <3>2, PutBackspaceDisplays
    <3>3. CASE ~(c > 0)
      BY <3>1, <3>3, PutBackspaceDisplays
    <3>4. QED
      BY <3>2, <3>3
  <2>4. CASE b \notin {"esc", "nl", "bs"}
    <3>1. write_byte(w, b) = PutChar(w, b)
      BY <1>3, <2>4 DEF write_byte
    <3>2. QED
      BY <3>1, PutCharDisplays
  <2>5. QED
    BY <2>1, <2>2, <2>3, <2>4
<1>4. CASE w.escape_state = "SawEsc"
  <2> DEFINE e == IF b = "[" THEN "SawBracket" ELSE "Normal"
  <2>1. e \in EscapeStates
    BY DEF EscapeStates
  <2>2. write_byte(w, b) = [w EXCEPT !.escape_state = e]
    BY <1>4 DEF write_byte
  <2> HIDE DEF e
  <2>3. QED
    BY <1>1, <1>2, <2>1, <2>2, UnseenState
<1>5. CASE w.escape_state = "SawBracket"
  <2>1. CASE CsiByte(b)
    <3>1. write_byte(w, b) = [w EXCEPT !.escape_state = "InCsi", !.csi_buf = <<b>>]
      BY <1>5, <2>1 DEF write_byte
    <3>2. <<b>> \in Seq(Bytes) /\ "InCsi" \in EscapeStates
      BY DEF EscapeStates
    <3>3. QED
      BY <1>1, <1>2, <3>1, <3>2, UnseenBuf, Zenon
  <2>2. CASE ~CsiByte(b)
    <3>1. write_byte(w, b) = [w EXCEPT !.escape_state = "Normal"] /\ "Normal" \in EscapeStates
      BY <1>5, <2>2 DEF write_byte, EscapeStates
    <3>2. QED
      BY <1>1, <1>2, <3>1, UnseenState
  <2>3. QED
    BY <2>1, <2>2
<1>6. CASE w.escape_state = "InCsi"
  <2>1. write_byte(w, b) = InCsi(w, b)
    BY <1>6 DEF write_byte
  <2>2. QED
    BY <1>1, <1>2, <2>1, UnseenCsi
<1>7. QED
  BY <1>1, <1>3, <1>4, <1>5, <1>6 DEF EscapeStates

\* Whatever a byte does, a page is displayed.
Shows(w) == \E f, r, c : Displays(w, f, r, c)

LEMMA ByteShows ==
  ASSUME NEW w, NEW f, NEW r, NEW c, Displays(w, f, r, c), Cursor(w), NEW b \in Bytes
  PROVE  Shows(write_byte(w, b))
<1>1. ASSUME NEW v, NEW g, NEW k, NEW l, Displays(v, g, k, l) PROVE Shows(v)
  BY <1>1, Zenon DEF Shows
<1> DEFINE s == w.scale
           v == write_byte(w, b)
           p == [PutPage(f, r, c, s) EXCEPT ![<<PutRow(r, c, s), PutCol(c, s)>>] = Glyph(b)]
<1>2. \/ Displays(v, f, r, c) \/ Displays(v, PageBelow(f, r, s), RowBelow(r, s), 0)
      \/ Displays(v, f, r, c - 1) \/ Displays(v, p, PutRow(r, c, s), PutCol(c, s) + 1)
  BY ByteDisplays
<1> HIDE DEF s, v, p
<1>3. Shows(v)
  BY <1>1, <1>2
<1>4. QED
  BY <1>3 DEF v

\* A change of scale, if any, clears the screen.
LEMMA ScaleDisplays ==
  ASSUME NEW w \in Writers, NEW v, v \in {clear_screen(w), scale_up(w), scale_down(w)}
  PROVE  \/ v = w
         \/ /\ Displays(v, EmptyPage(v.scale), 0, 0) /\ Cursor(v)
            /\ v.scale \in MIN_SCALE..MAX_SCALE
<1>1. ASSUME NEW u \in Writers, v = clear_screen(u)
      PROVE  /\ Displays(v, EmptyPage(v.scale), 0, 0) /\ Cursor(v)
             /\ v.scale \in MIN_SCALE..MAX_SCALE
  BY <1>1, ClearDisplays, Zenon DEF Writers
<1>2. ASSUME NEW k \in MIN_SCALE..MAX_SCALE PROVE [w EXCEPT !.scale = k] \in Writers
  BY Zenon DEF Writers
<1>3. w.scale \in MIN_SCALE..MAX_SCALE /\ MAX_SCALE \in Nat /\ MIN_SCALE = 1
  BY FrameBufferAssumption DEF Writers, MIN_SCALE
<1>4. CASE v = clear_screen(w)
  BY <1>1, <1>4
<1>5. CASE v = scale_up(w) /\ ~(w.scale >= MAX_SCALE)
  <2>1. w.scale + 1 \in MIN_SCALE..MAX_SCALE
    BY <1>3, <1>5
  <2>2. v = clear_screen([w EXCEPT !.scale = w.scale + 1])
    BY <1>5 DEF scale_up
  <2>3. QED
    BY <1>1, <1>2, <2>1, <2>2
<1>6. CASE v = scale_down(w) /\ ~(w.scale <= MIN_SCALE)
  <2>1. w.scale - 1 \in MIN_SCALE..MAX_SCALE
    BY <1>3, <1>6
  <2>2. v = clear_screen([w EXCEPT !.scale = w.scale - 1])
    BY <1>6 DEF scale_down
  <2>3. QED
    BY <1>1, <1>2, <2>1, <2>2
<1>7. QED
  BY <1>4, <1>5, <1>6 DEF scale_up, scale_down
-----------------------------------------------------------------------------
(* The inductive invariant and the theorems *)

FbInv == \E f, r, c : Displays(writer, f, r, c) /\ Cursor(writer)

LEMMA FbInvInit == Init => Displays(writer, EmptyPage(MIN_SCALE), 0, 0) /\ Cursor(writer)
                           /\ writer.scale = MIN_SCALE
<1> SUFFICES ASSUME Init
             PROVE  Displays(writer, EmptyPage(MIN_SCALE), 0, 0) /\ Cursor(writer)
                    /\ writer.scale = MIN_SCALE
  OBVIOUS
<1>1. New \in Writers
  <2>1. Blank \in [Units -> Chars]
    BY DEF Blank, Chars
  <2>2. MIN_SCALE \in MIN_SCALE..MAX_SCALE /\ <<>> \in Seq(Bytes)
    BY FrameBufferAssumption DEF MIN_SCALE
  <2>3. DefaultFg \in 0..7 /\ DefaultBg \in 0..7
    BY DEF DefaultFg, DefaultBg
  <2>4. QED
    BY <2>1, <2>2, <2>3 DEF New, Writers
<1>2. New.scale = MIN_SCALE
  BY DEF New
<1>3. writer = clear_screen(New)
  BY DEF Init
<1>4. QED
  BY <1>1, <1>2, <1>3, ClearDisplays

LEMMA FbInvNext == FbInv /\ [Next]_writer => FbInv'
<1> SUFFICES ASSUME FbInv, [Next]_writer PROVE FbInv'
  OBVIOUS
<1>1. PICK f, r, c : Displays(writer, f, r, c) /\ Cursor(writer)
  BY DEF FbInv
<1>2. writer \in Writers
  BY <1>1 DEF Displays
<1>3. CASE writer' = writer
  BY <1>1, <1>3 DEF FbInv
<1>4. CASE \E b \in Bytes : writer' = write_byte(writer, b)
  <2>1. PICK b \in Bytes : writer' = write_byte(writer, b)
    BY <1>4
  <2>2. Shows(writer')
    BY <1>1, <2>1, ByteShows
  <2>3. Cursor(writer')
    BY <1>1, <2>1, ByteDisplays, Zenon
  <2>4. QED
    BY <2>2, <2>3 DEF FbInv, Shows
<1>5. CASE writer' \in {clear_screen(writer), scale_up(writer), scale_down(writer)}
  <2>1. writer' = writer \/ (Displays(writer', EmptyPage(writer'.scale), 0, 0) /\ Cursor(writer'))
    BY <1>2, <1>5, ScaleDisplays
  <2>2. QED
    BY <1>3, <2>1 DEF FbInv
<1>6. QED
  BY <1>3, <1>4, <1>5 DEF Next

\* The console always displays some page, with one cursor at a cell of its grid.
THEOREM FbInvariant == Spec => []FbInv
<1>1. Init => FbInv
  BY FbInvInit DEF FbInv
<1>2. QED
  BY <1>1, FbInvNext, PTL DEF Spec

\* There is exactly one cursor, under the cell that is written next, on every
\* screen and at every scale: scrolling, wrapping and scaling leave no copy behind.
THEOREM OneCursorAlways == Spec => []OneCursor
<1>1. FbInv => OneCursor
  <2> SUFFICES ASSUME FbInv PROVE OneCursor
    OBVIOUS
  <2> DEFINE s == writer.scale
  <2>1. PICK f, r, c : Displays(writer, f, r, c) /\ Cursor(writer)
    BY DEF FbInv
  <2>2. writer \in Writers /\ r \in 0..Rows(s) - 1 /\ writer.y = r * s
        /\ c \in 0..Cols(s) /\ writer.x = c * s
    BY <2>1 DEF Displays
  <2>3. s \in Nat /\ s > 0 /\ WIDTH \in Nat /\ HEIGHT \in Nat
        /\ Rows(s) \in Nat \ {0} /\ Cols(s) \in Nat \ {0}
    BY <2>2, Dimensions
  <2> HIDE DEF s
  <2>4. r \in Nat /\ c \in Nat /\ r + 1 \in Nat /\ r + 1 <= HEIGHT \div s /\ c <= WIDTH \div s
    BY <2>2, <2>3 DEF Rows, Cols
  <2>5. writer.x % s = 0 /\ writer.y % s = 0
    BY <2>2, <2>3, <2>4, InCell, Zenon
  <2>6. c * s <= WIDTH /\ (r + 1) * s <= HEIGHT
    BY <2>3, <2>4, Fits
  <2>7. (r + 1) * s = r * s + s
    BY <2>3, <2>4, Fits
  <2>8. QED
    BY <2>1, <2>2, <2>5, <2>6, <2>7 DEF OneCursor, Cursor, s
<1>2. QED
  BY <1>1, FbInvariant, PTL

\* Every cell shows one whole character and the margins show none, for every
\* screen and every scale, whether or not the scale divides the screen.
THEOREM CellsAlwaysWhole == Spec => []CellsWhole
<1>1. FbInv => CellsWhole
  <2> SUFFICES ASSUME FbInv, NEW u \in Units
               PROVE  LET rc == <<u[2] \div writer.scale, u[1] \div writer.scale>>
                      IN  writer.screen[u] = IF rc \in DOMAIN Page THEN Page[rc] ELSE Space
    BY DEF CellsWhole
  <2> DEFINE s == writer.scale
             i == u[1]
             j == u[2]
             rc == <<j \div s, i \div s>>
  <2>1. PICK f, r, c : Displays(writer, f, r, c)
    BY DEF FbInv
  <2>2. writer \in Writers /\ f \in [Cells(s) -> Chars]
    BY <2>1 DEF Displays
  <2>3. s \in Nat /\ s > 0 /\ WIDTH \in Nat /\ HEIGHT \in Nat
        /\ Rows(s) \in Nat \ {0} /\ Cols(s) \in Nat \ {0}
    BY <2>2, Dimensions
  <2>4. i \in 0..WIDTH - 1 /\ j \in 0..HEIGHT - 1 /\ u = <<i, j>>
    BY DEF Units
  <2>5. Page = f
    BY <2>1, PageDisplayed, Zenon DEF Page, PageOf, Corner
  <2>6. i \div s \in Nat /\ j \div s \in Nat
    BY <2>3, <2>4, Divided
  <2>7. rc \in Cells(s) <=> j \div s < Rows(s) /\ i \div s < Cols(s)
    BY <2>3, <2>6 DEF Cells
  <2>8. writer.screen[<<i, j>>] = IF j \div s < Rows(s) /\ i \div s < Cols(s) THEN f[rc] ELSE Space
    BY <2>1, <2>4 DEF Displays
  <2>9. DOMAIN f = Cells(s)
    BY <2>2
  <2>10. QED
    BY <2>4, <2>5, <2>7, <2>8, <2>9
<1>2. QED
  BY <1>1, FbInvariant, PTL

\* The console is a text page that fills from the top, wraps before the character
\* that does not fit and scrolls by whole rows, on every screen, whatever mixture of
\* text, control characters, escape sequences and changes of scale is written.
THEOREM ConsoleIsTextPage == Spec => ImplementsTextPage
<1> USE DEF Text!Cells, Text!Empty
<1>1. ASSUME NEW w, NEW f, NEW r, NEW c, Displays(w, f, r, c)
      PROVE  /\ w.scale \in MIN_SCALE..MAX_SCALE
             /\ Size(w.scale) \in {Size(s) : s \in MIN_SCALE..MAX_SCALE}
             /\ Size(w.scale).rows = Rows(w.scale) /\ Size(w.scale).cols = Cols(w.scale)
  BY <1>1 DEF Displays, Writers, Size, Rows, Cols
<1>2. ASSUME NEW f, NEW r, NEW c, Displays(writer, f, r, c)
      PROVE  Page = f /\ writer.y \div writer.scale = r /\ writer.x \div writer.scale = c
  BY <1>2, PageDisplayed, Zenon DEF Page, PageOf, Corner
<1>3. ASSUME NEW f, NEW r, NEW c, Displays(writer', f, r, c)
      PROVE  Page' = f /\ writer'.y \div writer'.scale = r /\ writer'.x \div writer'.scale = c
  BY <1>3, PageDisplayed, Zenon DEF Page, PageOf, Corner
<1>4. Init => Text!Init
  <2> SUFFICES ASSUME Init PROVE Text!Init
    OBVIOUS
  <2>1. Displays(writer, EmptyPage(MIN_SCALE), 0, 0) /\ writer.scale = MIN_SCALE
    BY FbInvInit
  <2>2. Page = EmptyPage(MIN_SCALE) /\ writer.y \div writer.scale = 0 /\ writer.x \div writer.scale = 0
    BY <1>2, <2>1
  <2>3. Page = Text!Empty(Size(writer.scale))
    BY <2>1, <2>2 DEF EmptyPage, Cells, Rows, Cols, Size
  <2>4. QED
    BY <1>1, <2>1, <2>2, <2>3 DEF Text!Init
<1>5. FbInv /\ [Next]_writer => [Text!Next]_(Text!pageVars)
  <2> SUFFICES ASSUME FbInv, [Next]_writer PROVE [Text!Next]_(Text!pageVars)
    OBVIOUS
  <2> DEFINE s == writer.scale
  <2>1. PICK f, r, c : Displays(writer, f, r, c) /\ Cursor(writer)
    BY DEF FbInv
  <2>2. writer \in Writers
    BY <2>1 DEF Displays
  <2>3. Page = f /\ writer.y \div writer.scale = r /\ writer.x \div writer.scale = c
    BY <1>2, <2>1
  <2>4. Size(s).rows = Rows(s) /\ Size(s).cols = Cols(s)
    BY <1>1, <2>1
  <2>5. CASE writer' = writer
    BY <2>5 DEF Text!pageVars, Page, Corner
  <2>6. CASE \E b \in Bytes : writer' = write_byte(writer, b)
    <3>1. PICK b \in Bytes : writer' = write_byte(writer, b)
      BY <2>6
    <3>2. writer'.scale = s
      BY <2>1, <3>1, ByteDisplays, Zenon
    <3>3. Size(writer'.scale) = Size(s)
      BY <3>2
    <3>4. CASE Displays(writer', f, r, c)
      BY <1>3, <2>3, <3>3, <3>4 DEF Text!pageVars
    <3>5. CASE Displays(writer', PageBelow(f, r, s), RowBelow(r, s), 0)
      <4>1. Page' = PageBelow(f, r, s) /\ writer'.y \div writer'.scale = RowBelow(r, s)
            /\ writer'.x \div writer'.scale = 0
        BY <1>3, <3>5
      <4>2. Text!Below.page = PageBelow(f, r, s) /\ Text!Below.row = RowBelow(r, s)
        BY <2>3, <2>4 DEF Text!Below, Text!Scrolled, PageBelow, RowBelow, ScrolledPage, Cells
      <4>3. Text!NewLine
        BY <3>3, <4>1, <4>2 DEF Text!NewLine
      <4>4. QED
        BY <4>3 DEF Text!Next
    <3>6. CASE c > 0 /\ Displays(writer', f, r, c - 1)
      <4>1. Text!Back
        BY <1>3, <2>3, <3>3, <3>6 DEF Text!Back
      <4>2. QED
        BY <4>1 DEF Text!Next
    <3>7. CASE Displays(writer', [PutPage(f, r, c, s) EXCEPT ![<<PutRow(r, c, s), PutCol(c, s)>>] = Glyph(b)],
                        PutRow(r, c, s), PutCol(c, s) + 1)
      <4>1. Page' = [PutPage(f, r, c, s) EXCEPT ![<<PutRow(r, c, s), PutCol(c, s)>>] = Glyph(b)]
            /\ writer'.y \div writer'.scale = PutRow(r, c, s)
            /\ writer'.x \div writer'.scale = PutCol(c, s) + 1
        BY <1>3, <3>7
      <4>2. Text!Below.page = PageBelow(f, r, s) /\ Text!Below.row = RowBelow(r, s)
        BY <2>3, <2>4 DEF Text!Below, Text!Scrolled, PageBelow, RowBelow, ScrolledPage, Cells
      <4>3. Text!Put(Glyph(b))
        <5>1. CASE c = Cols(s)
          BY <2>3, <2>4, <3>3, <4>1, <4>2, <5>1 DEF Text!Put, PutPage, PutRow, PutCol
        <5>2. CASE c # Cols(s)
          BY <2>3, <2>4, <3>3, <4>1, <5>2, Zenon DEF Text!Put, PutPage, PutRow, PutCol
        <5>3. QED
          BY <5>1, <5>2
      <4>4. Glyph(b) \in {Space, "$", "a", "b"}
        BY GlyphChars DEF Chars
      <4>5. QED
        BY <4>3, <4>4 DEF Text!Next
    <3>8. QED
      BY <2>1, <3>1, <3>4, <3>5, <3>6, <3>7, ByteDisplays
  <2>7. CASE writer' \in {clear_screen(writer), scale_up(writer), scale_down(writer)}
    <3>1. SUFFICES ASSUME Displays(writer', EmptyPage(writer'.scale), 0, 0)
                   PROVE  Text!Clear
      BY <2>2, <2>5, <2>7, ScaleDisplays DEF Text!Next
    <3>2. Page' = EmptyPage(writer'.scale) /\ writer'.y \div writer'.scale = 0
          /\ writer'.x \div writer'.scale = 0
      BY <1>3, <3>1
    <3>3. Size(writer'.scale) \in {Size(k) : k \in MIN_SCALE..MAX_SCALE}
      BY <1>1, <3>1
    <3>4. EmptyPage(writer'.scale) = Text!Empty(Size(writer'.scale))
      BY DEF EmptyPage, Cells, Rows, Cols, Size
    <3>5. QED
      BY <3>2, <3>3, <3>4 DEF Text!Clear
  <2>8. QED
    BY <2>5, <2>6, <2>7 DEF Next
<1>6. QED
  BY <1>4, <1>5, FbInvariant, PTL DEF Spec, ImplementsTextPage, Text!Spec
=============================================================================
