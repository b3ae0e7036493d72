------------------------------- MODULE TextPage -------------------------------
(***************************************************************************)
(* What the framebuffer console promises: a page of rows and columns that  *)
(* fills from the top, wraps before the character that does not fit, and   *)
(* scrolls by whole rows.                                                  *)
(***************************************************************************)
EXTENDS Naturals

CONSTANTS
  Sizes, \* possible sizes, [rows, cols], neither of them 0
  Chars, \* what a cell can show
  Blank  \* an empty cell, one of Chars

VARIABLES size, page, row, col

pageVars == <<size, page, row, col>>

Cells(sz) == (0..sz.rows - 1) \X (0..sz.cols - 1)
Empty(sz) == [c \in Cells(sz) |-> Blank]

Init ==
  /\ size \in Sizes
  /\ page = Empty(size)
  /\ row = 0 /\ col = 0

Scrolled ==
  [c \in Cells(size) |-> IF c[1] = size.rows - 1 THEN Blank ELSE page[<<c[1] + 1, c[2]>>]]

\* The page and the row after moving to a new line.
Below == IF row = size.rows - 1 THEN [page |-> Scrolled, row |-> row]
                                ELSE [page |-> page, row |-> row + 1]

NewLine ==
  /\ page' = Below.page
  /\ row' = Below.row
  /\ col' = 0
  /\ UNCHANGED size

Put(ch) ==
  LET at == IF col = size.cols THEN Below ELSE [page |-> page, row |-> row]
      c  == IF col = size.cols THEN 0 ELSE col
  IN  /\ page' = [at.page EXCEPT ![<<at.row, c>>] = ch]
      /\ row' = at.row
      /\ col' = c + 1
      /\ UNCHANGED size

Back ==
  /\ col > 0
  /\ col' = col - 1
  /\ UNCHANGED <<size, page, row>>

Clear ==
  /\ size' \in Sizes
  /\ page' = Empty(size')
  /\ row' = 0 /\ col' = 0

Next == NewLine \/ (\E ch \in Chars : Put(ch)) \/ Back \/ Clear

Spec == Init /\ [][Next]_pageVars
=============================================================================
