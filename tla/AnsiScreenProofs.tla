-------------------------- MODULE AnsiScreenProofs --------------------------
(***************************************************************************)
(* Proofs about AnsiScreen: its types, and that the picture is the stream. *)
(*                                                                         *)
(* Each operation changes the same cells on the screen and on the          *)
(* reference (Shows).  As long as no flush has cut a sequence, the parser  *)
(* is inside of the sequence that the worker writes (InUnit), shows        *)
(* nothing of it before its last byte, and obeys it then, as the reference *)
(* does; Followed is the invariant of the two.                             *)
(***************************************************************************)
EXTENDS AnsiCells

-----------------------------------------------------------------------------
(* The reference has a cell for every character that the screen shows.     *)

Shows(s, g) ==
  /\ s.row = g.row /\ s.col = g.col
  /\ \A r, c \in Nat, d \in Tokens :
       <<r, c, d>> \in g.cells <=> d # Blank /\ Glyph(s, r, c) = d

(* Nothing is the same on both.                                            *)
LEMMA ShowsReset == IsRef(RefReset) /\ Shows(Reset, RefReset)
BY ResetInk DEF RefReset, Shows, IsRef

(* The same cells erased on both.                                          *)
LEMMA ShowsErased ==
  ASSUME NEW s, NEW g, IsRef(g), Shows(s, g),
         NEW t, NEW G, NEW j \in Nat,
         t.row = s.row, t.col = j,
         \A r, c \in Nat : Glyph(t, r, c) =
           IF <<r, c>> \in G THEN Blank ELSE Glyph(s, r, c)
  PROVE  Shows(t, RefAt(Outside(g, G), g.row, j))
<1> DEFINE h == RefAt(Outside(g, G), g.row, j)
<1>1. /\ h.row = g.row /\ h.col = j
      /\ \A r, c \in Nat, d \in Tokens :
           <<r, c, d>> \in h.cells <=> <<r, c>> \notin G /\ <<r, c, d>> \in g.cells
  <2>1. h.cells = Outside(g, G) /\ h.row = g.row /\ h.col = j
    BY RefAtParts
  <2> HIDE DEF h
  <2> QED
    BY <2>1 DEF Outside
<1> HIDE DEF h
<1>2. ASSUME NEW r \in Nat, NEW c \in Nat, NEW d \in Tokens
      PROVE  <<r, c, d>> \in h.cells <=> d # Blank /\ Glyph(t, r, c) = d
  <2>1. <<r, c, d>> \in g.cells <=> d # Blank /\ Glyph(s, r, c) = d
    BY DEF Shows
  <2>2. CASE <<r, c>> \in G
    BY <1>1, <2>2
  <2>3. CASE <<r, c>> \notin G
    BY <1>1, <2>1, <2>3
  <2> QED
    BY <2>2, <2>3
<1>3. t.row = h.row /\ t.col = h.col
  BY <1>1 DEF Shows
<1>4. Shows(t, h)
  BY <1>2, <1>3 DEF Shows
<1> QED
  BY <1>4 DEF h

(* What is left of a reference is one.                                     *)
LEMMA OutsideType ==
  ASSUME NEW g, IsRef(g), NEW G, NEW j \in Nat
  PROVE  IsRef(RefAt(Outside(g, G), g.row, j))
<1>1. Outside(g, G) = {x \in g.cells : <<x[1], x[2]>> \notin G}
  BY DEF Outside
<1> QED
  BY <1>1, CellsGo

(* The cursor moves on both.                                               *)
LEMMA ShowsMoved ==
  ASSUME NEW s, NEW g, IsRef(g), Shows(s, g),
         NEW t, NEW i, NEW j, t.rows = s.rows, t.row = i, t.col = j
  PROVE  Shows(t, RefAt(g.cells, i, j))
<1>1. \A r, c \in Nat : Glyph(t, r, c) = Glyph(s, r, c)
  BY DEF Glyph
<1> QED
  BY <1>1, RefAtParts DEF Shows

(* What a byte of a text does.                                             *)
LEMMA TypeType ==
  ASSUME NEW g, IsRef(g), NEW b \in Tokens,
         b \in {"LF", "CR", "TAB", "BS"} \/ b \notin Controls
  PROVE  IsRef(Type(g, b))
<1>1. /\ g.row \in Nat /\ g.col \in Nat /\ g.row + 1 \in Nat /\ g.col + 4 \in Nat
      /\ Back(g.col, 1) \in Nat /\ 0 \in Nat
      /\ g.cells \in SUBSET (Nat \X Nat \X Tokens)
  BY RefFacts DEF Back
<1>2. CASE b \in {"LF", "CR", "BS"}
  BY <1>1, <1>2, TypeControls, RefAtType
<1>3. CASE b = "TAB"
  BY <1>1, <1>3, TabCells, OutsideType
<1>4. CASE b \notin Controls
  BY <1>4, TypeCells
<1> QED
  BY <1>2, <1>3, <1>4

(* A byte of a text does the same on both.                                 *)
LEMMA TypeShows ==
  ASSUME NEW s, IsScreen(s), NEW g, IsRef(g), Shows(s, g), NEW b \in Tokens,
         b \in {"LF", "CR", "TAB", "BS"} \/ b \notin Controls \cup {Blank}
  PROVE  Shows(Ground(s, b), Type(g, b))
<1> DEFINE t == Ground(s, b)
<1>0. /\ s.row \in Nat /\ s.col \in Nat /\ s.row + 1 \in Nat /\ 0 \in Nat
      /\ Back(s.col, 1) \in Nat /\ s.col + 4 \in Nat
      /\ s.row = g.row /\ s.col = g.col
  BY DEF IsScreen, Back, Shows
<1>1. CASE b = "LF"
  <2>1. t = [s EXCEPT !.row = s.row + 1, !.col = 0]
    BY <1>1, GroundCases
  <2>2. Type(g, b) = RefAt(g.cells, g.row + 1, 0)
    BY <1>1, TypeControls
  <2> HIDE DEF t
  <2>3. t.rows = s.rows /\ t.row = s.row + 1 /\ t.col = 0
    BY <2>1 DEF IsScreen
  <2> QED
    BY <1>0, <2>2, <2>3, ShowsMoved DEF t
<1>2. CASE b = "CR"
  <2>1. t = [s EXCEPT !.col = 0]
    BY <1>2, GroundCases
  <2>2. Type(g, b) = RefAt(g.cells, g.row, 0)
    BY <1>2, TypeControls
  <2> HIDE DEF t
  <2>3. t.rows = s.rows /\ t.row = g.row /\ t.col = 0
    BY <1>0, <2>1, ColumnMoves
  <2> QED
    BY <2>2, <2>3, ShowsMoved DEF t
<1>3. CASE b = "BS"
  <2>1. t = [s EXCEPT !.col = Back(s.col, 1)]
    BY <1>3, GroundCases
  <2>2. Type(g, b) = RefAt(g.cells, g.row, Back(g.col, 1))
    BY <1>3, TypeControls
  <2> HIDE DEF t
  <2>3. t.rows = s.rows /\ t.row = g.row /\ t.col = Back(g.col, 1)
    BY <1>0, <2>1, ColumnMoves
  <2> QED
    BY <2>2, <2>3, ShowsMoved DEF t
<1>4. CASE b = "TAB"
  <2>1. t = Tab(s)
    BY <1>4, GroundCases
  <2>2. Type(g, b) = RefAt(Outside(g, RowPart(g, g.col, 4)), g.row, g.col + 4)
    BY <1>4, TabCells
  <2> HIDE DEF t
  <2>3. /\ t.row = s.row /\ t.col = s.col + 4
        /\ \A r, c \in Nat : Glyph(t, r, c) =
             IF r = s.row /\ c \in s.col .. s.col + 3 THEN Blank ELSE Glyph(s, r, c)
    BY <2>1, TabInk
  <2>4. \A r, c \in Nat : Glyph(t, r, c) =
          IF <<r, c>> \in RowPart(g, g.col, 4) THEN Blank ELSE Glyph(s, r, c)
    BY <1>0, <2>3 DEF RowPart
  <2> QED
    BY <1>0, <2>2, <2>3, <2>4, ShowsErased DEF t
<1>5. CASE b \notin Controls \cup {Blank}
  <2> DEFINE h == Type(g, b)
  <2>1. t = WriteRune(s, b)
    BY <1>5, GroundCases
  <2>2. /\ h.row = g.row /\ h.col = g.col + 1
        /\ \A r, c \in Nat, d \in Tokens : <<r, c, d>> \in h.cells <=>
             IF r = g.row /\ c = g.col THEN d = b ELSE <<r, c, d>> \in g.cells
    BY <1>5, TypeCells
  <2> HIDE DEF t, h
  <2>3. /\ t.row = s.row /\ t.col = s.col + 1
        /\ \A r, c \in Nat : Glyph(t, r, c) =
             IF r = s.row /\ c = s.col THEN b ELSE Glyph(s, r, c)
    BY <2>1, WriteInk
  <2>4. Shows(t, h)
    BY <1>0, <1>5, <2>2, <2>3 DEF Shows
  <2> QED
    BY <2>4 DEF t, h
<1> QED
  BY <1>1, <1>2, <1>3, <1>4, <1>5

(* What a control sequence does.                                           *)
LEMMA MovedShows ==
  ASSUME NEW s, NEW g, IsRef(g), NEW params, NEW final \in Moves
  PROVE  /\ IsRef(Moved(g, params, final))
         /\ IsScreen(s) /\ Shows(s, g) =>
              Shows(Moved(s, params, final), Moved(g, params, final))
<1> DEFINE n == Param(params, 1, 1)
           m == Param(params, 2, 1)
           t == Moved(s, params, final)
           h == Moved(g, params, final)
           Both(i, j, k, l) ==
             h = RefAt(g.cells, i, j) /\ (IsScreen(s) => t.rows = s.rows /\ t.row = k /\ t.col = l)
<1>1. /\ n \in Nat /\ n > 0 /\ m \in Nat /\ m > 0 /\ g.row \in Nat /\ g.col \in Nat
      /\ g.cells \in SUBSET (Nat \X Nat \X Tokens)
  BY ParamType, RefFacts
<1>2. /\ Back(g.row, n) \in Nat /\ Back(g.col, n) \in Nat
      /\ g.row + n \in Nat /\ g.col + n \in Nat /\ n - 1 \in Nat /\ m - 1 \in Nat
  BY <1>1 DEF Back
<1>3. ASSUME NEW x PROVE
      /\ final = "A" => Moved(x, params, final) = [x EXCEPT !.row = Back(x.row, n)]
      /\ final = "B" => Moved(x, params, final) = [x EXCEPT !.row = x.row + n]
      /\ final = "C" => Moved(x, params, final) = [x EXCEPT !.col = x.col + n]
      /\ final = "D" => Moved(x, params, final) = [x EXCEPT !.col = Back(x.col, n)]
      /\ final = "G" => Moved(x, params, final) = [x EXCEPT !.col = n - 1]
      /\ final \in {"H", "f"} => Moved(x, params, final) =
           [x EXCEPT !.row = n - 1, !.col = m - 1]
  BY DEF Moved
<1> HIDE DEF n, m, t, h
<1>4. ASSUME NEW i \in Nat, NEW j \in Nat, NEW k, NEW l, Both(i, j, k, l),
             Shows(s, g) => k = i /\ l = j
      PROVE  IsRef(h) /\ (IsScreen(s) /\ Shows(s, g) => Shows(t, h))
  <2>1. IsRef(h)
    BY <1>1, <1>4, RefAtType
  <2>2. ASSUME IsScreen(s), Shows(s, g) PROVE Shows(t, h)
    BY <1>4, <2>2, ShowsMoved
  <2> QED
    BY <2>1, <2>2
<1> DEFINE Goal == IsRef(h) /\ (IsScreen(s) /\ Shows(s, g) => Shows(t, h))
<1>5. ASSUME final = "A" PROVE Goal
  <2>1. t = [s EXCEPT !.row = Back(s.row, n)] /\ h = [g EXCEPT !.row = Back(g.row, n)]
    BY <1>3, <1>5 DEF t, h
  <2>2. h = RefAt(g.cells, Back(g.row, n), g.col)
    BY <2>1, RefIs
  <2>3. IsScreen(s) => t.rows = s.rows /\ t.row = Back(s.row, n) /\ t.col = s.col
    BY <2>1 DEF IsScreen
  <2>4. Shows(s, g) => Back(s.row, n) = Back(g.row, n) /\ s.col = g.col
    BY DEF Shows
  <2> QED
    BY <1>1, <1>2, <1>4, <2>2, <2>3, <2>4
<1>6. ASSUME final = "B" PROVE Goal
  <2>1. t = [s EXCEPT !.row = s.row + n] /\ h = [g EXCEPT !.row = g.row + n]
    BY <1>3, <1>6 DEF t, h
  <2>2. h = RefAt(g.cells, g.row + n, g.col)
    BY <2>1, RefIs
  <2>3. IsScreen(s) => t.rows = s.rows /\ t.row = s.row + n /\ t.col = s.col
    BY <2>1 DEF IsScreen
  <2>4. Shows(s, g) => s.row + n = g.row + n /\ s.col = g.col
    BY DEF Shows
  <2> QED
    BY <1>1, <1>2, <1>4, <2>2, <2>3, <2>4
<1>7. ASSUME final = "C" PROVE Goal
  <2>1. t = [s EXCEPT !.col = s.col + n] /\ h = [g EXCEPT !.col = g.col + n]
    BY <1>3, <1>7 DEF t, h
  <2>2. h = RefAt(g.cells, g.row, g.col + n)
    BY <2>1, RefIs
  <2>3. IsScreen(s) => t.rows = s.rows /\ t.row = s.row /\ t.col = s.col + n
    BY <2>1 DEF IsScreen
  <2>4. Shows(s, g) => s.row = g.row /\ s.col + n = g.col + n
    BY DEF Shows
  <2> QED
    BY <1>1, <1>2, <1>4, <2>2, <2>3, <2>4
<1>8. ASSUME final = "D" PROVE Goal
  <2>1. t = [s EXCEPT !.col = Back(s.col, n)] /\ h = [g EXCEPT !.col = Back(g.col, n)]
    BY <1>3, <1>8 DEF t, h
  <2>2. h = RefAt(g.cells, g.row, Back(g.col, n))
    BY <2>1, RefIs
  <2>3. IsScreen(s) => t.rows = s.rows /\ t.row = s.row /\ t.col = Back(s.col, n)
    BY <2>1 DEF IsScreen
  <2>4. Shows(s, g) => s.row = g.row /\ Back(s.col, n) = Back(g.col, n)
    BY DEF Shows
  <2> QED
    BY <1>1, <1>2, <1>4, <2>2, <2>3, <2>4
<1>9. ASSUME final = "G" PROVE Goal
  <2>1. t = [s EXCEPT !.col = n - 1] /\ h = [g EXCEPT !.col = n - 1]
    BY <1>3, <1>9 DEF t, h
  <2>2. h = RefAt(g.cells, g.row, n - 1)
    BY <2>1, RefIs
  <2>3. IsScreen(s) => t.rows = s.rows /\ t.row = s.row /\ t.col = n - 1
    BY <2>1 DEF IsScreen
  <2>4. Shows(s, g) => s.row = g.row /\ n - 1 = n - 1
    BY DEF Shows
  <2> QED
    BY <1>1, <1>2, <1>4, <2>2, <2>3, <2>4
<1>10. ASSUME final \in {"H", "f"} PROVE Goal
  <2> DEFINE i == n - 1
             j == m - 1
  <2>0. i \in Nat /\ j \in Nat
    BY <1>2
  <2>1. t = [s EXCEPT !.row = i, !.col = j] /\ h = [g EXCEPT !.row = i, !.col = j]
    BY <1>3, <1>10 DEF t, h
  <2> HIDE DEF i, j
  <2>2. h = RefAt(g.cells, i, j)
    BY <2>1, RefMoves
  <2>3. IsScreen(s) => t.rows = s.rows /\ t.row = i /\ t.col = j
    BY <2>1 DEF IsScreen
  <2> QED
    BY <1>4, <2>0, <2>2, <2>3
<1> QED
  BY <1>5, <1>6, <1>7, <1>8, <1>9, <1>10 DEF Moves, t, h

(* EL erases the same on both.                                             *)
LEMMA LineShows ==
  ASSUME NEW s, NEW g, IsRef(g), NEW u, u[1] = "csi", u[3] = "K",
         Param(u[2], 1, 0) \in {0, 1, 2}
  PROVE  /\ IsRef(Obey(g, u))
         /\ IsScreen(s) /\ Shows(s, g) =>
              Shows(EraseInLine(s, Param(u[2], 1, 0)), Obey(g, u))
<1> DEFINE mode == Param(u[2], 1, 0)
           j == IF mode = 2 THEN 0 ELSE g.col
           t == EraseInLine(s, mode)
           G == LinePart(g, mode)
<1>1. Obey(g, u) = RefAt(Outside(g, G), g.row, j)
  BY LineCells
<1>2. j \in Nat /\ mode \in {0, 1, 2}
  BY RefFacts
<1>3. IsRef(Obey(g, u))
  <2> HIDE DEF j, G
  <2> QED
    BY <1>1, <1>2, OutsideType
<1>4. ASSUME IsScreen(s), Shows(s, g) PROVE Shows(t, Obey(g, u))
  <2> HIDE DEF mode
  <2>0. s.row = g.row /\ s.col = g.col
    BY <1>4 DEF Shows
  <2>1. /\ t.row = s.row /\ t.col = j
        /\ \A r, c \in Nat : Glyph(t, r, c) =
             IF r = s.row /\ InErased(s, mode, c) THEN Blank ELSE Glyph(s, r, c)
    BY <1>4, <2>0, EraseInLineInk
  <2> HIDE DEF t
  <2>2. \A r, c \in Nat : Glyph(t, r, c) =
          IF <<r, c>> \in G THEN Blank ELSE Glyph(s, r, c)
    BY <1>2, <2>0, <2>1 DEF LinePart, InErased
  <2> HIDE DEF j, G
  <2> QED
    BY <1>1, <1>2, <1>4, <2>1, <2>2, ShowsErased
<1> QED
  BY <1>3, <1>4

(* The row of a character that the screen shows below the cursor is reached*)
(* when no row without one is between.                                     *)
LEMMA NoGap ==
  ASSUME NEW s, IsScreen(s), NEW g, IsRef(g), Shows(s, g), ~Gap(g),
         NEW r \in Nat, NEW c \in Nat, r > s.row, Glyph(s, r, c) # Blank
  PROVE  s.row .. r \subseteq DOMAIN s.rows \cup {s.row}
<1> DEFINE d == Glyph(s, r, c)
<1>0. s.row \in Nat /\ s.row = g.row
  BY DEF IsScreen, Shows
<1>1. d \in Tokens
  <2>1. r \in DOMAIN s.rows
    BY DEF Glyph
  <2>2. s.rows[r] \in Seq(Tokens)
    BY <2>1 DEF IsScreen
  <2> QED
    BY <2>1, <2>2, InkIsToken DEF Glyph
<1>2. <<r, c, d>> \in g.cells
  BY <1>1 DEF Shows
<1>3. ASSUME NEW k \in s.row .. r, k # s.row PROVE k \in DOMAIN s.rows
  <2>1. k \in Nat /\ k \in g.row + 1 .. r
    BY <1>0, <1>3
  <2>2. PICK y \in g.cells : y[1] = k
    BY <1>2, <2>1 DEF Gap
  <2>3. y = <<k, y[2], y[3]>> /\ y[2] \in Nat /\ y[3] \in Tokens
    BY <2>2, RefFacts
  <2>4. <<k, y[2], y[3]>> \in g.cells
    BY <2>3
  <2>5. Glyph(s, k, y[2]) # Blank
    BY <2>1, <2>3, <2>4 DEF Shows
  <2> QED
    BY <2>5 DEF Glyph
<1> QED
  BY <1>3

(* So does ED, unless rows without a line end it early.                    *)
LEMMA DisplayShows ==
  ASSUME NEW s, NEW g, IsRef(g), NEW u, u[1] = "csi", u[3] = "J",
         Param(u[2], 1, 0) \in {0, 1}
  PROVE  LET mode == Param(u[2], 1, 0) IN
         /\ IsRef(Obey(g, u))
         /\ IsScreen(s) /\ Shows(s, g) /\ ~(mode = 0 /\ Gap(g)) =>
              Shows(EraseInDisplay(s, mode), Obey(g, u))
<1> DEFINE mode == Param(u[2], 1, 0)
           h == Obey(g, u)
           t == EraseInDisplay(s, mode)
<1>0. g.col \in Nat /\ g.row \in Nat
  BY RefFacts
<1>1. /\ mode = 0 => h = RefAt(Outside(g, BelowPart(g)), g.row, g.col)
      /\ mode = 1 => h = RefAt(Outside(g, AbovePart(g)), g.row, g.col)
  BY DisplayCells
<1>2. mode \in {0, 1}
  OBVIOUS
<1> HIDE DEF mode, h
<1>3. IsRef(h)
  BY <1>0, <1>1, <1>2, OutsideType
<1>4. ASSUME IsScreen(s), Shows(s, g), mode = 0, ~Gap(g) PROVE Shows(t, h)
  <2>0. s.row = g.row /\ s.col = g.col
    BY <1>4 DEF Shows
  <2>1. /\ t.row = s.row /\ t.col = s.col
        /\ \A r, c \in Nat : Glyph(t, r, c) =
             IF \/ r = s.row /\ c >= s.col
                \/ r > s.row /\ s.row .. r \subseteq DOMAIN s.rows \cup {s.row}
             THEN Blank ELSE Glyph(s, r, c)
    BY <1>4, EraseBelowInk
  <2> HIDE DEF t
  <2>2. \A r, c \in Nat : Glyph(t, r, c) =
          IF <<r, c>> \in BelowPart(g) THEN Blank ELSE Glyph(s, r, c)
    <3> TAKE r \in Nat, c \in Nat
    <3>1. <<r, c>> \in BelowPart(g) <=> r > s.row \/ (r = s.row /\ c >= s.col)
      BY <2>0 DEF BelowPart
    <3>2. r > s.row /\ Glyph(s, r, c) # Blank =>
            s.row .. r \subseteq DOMAIN s.rows \cup {s.row}
      BY <1>4, NoGap
    <3> QED
      BY <2>1, <3>1, <3>2
  <2> QED
    BY <1>0, <1>1, <1>4, <2>0, <2>1, <2>2, ShowsErased
<1>5. ASSUME IsScreen(s), Shows(s, g), mode = 1 PROVE Shows(t, h)
  <2>0. s.row = g.row /\ s.col = g.col
    BY <1>5 DEF Shows
  <2>1. /\ t.row = s.row /\ t.col = s.col
        /\ \A r, c \in Nat : Glyph(t, r, c) =
             IF r < s.row \/ (r = s.row /\ c <= s.col) THEN Blank ELSE Glyph(s, r, c)
    BY <1>5, EraseAboveInk
  <2> HIDE DEF t
  <2>2. \A r, c \in Nat : Glyph(t, r, c) =
          IF <<r, c>> \in AbovePart(g) THEN Blank ELSE Glyph(s, r, c)
    BY <2>0, <2>1 DEF AbovePart
  <2> QED
    BY <1>0, <1>1, <1>5, <2>0, <2>1, <2>2, ShowsErased
<1> QED
  BY <1>2, <1>3, <1>4, <1>5 DEF h, mode

(* The end of the row of the cursor, moved.                                *)
LEMMA ShiftCells ==
  ASSUME NEW g, IsRef(g), NEW n \in Int,
         \A x \in g.cells : x[1] = g.row /\ x[2] >= g.col => x[2] + n >= g.col
  PROVE  LET h == Shift(g, g.col, n) IN
         /\ IsRef(h) /\ h.row = g.row /\ h.col = g.col
         /\ \A r, c \in Nat, d \in Tokens :
              <<r, c, d>> \in h.cells <=>
                IF r = g.row /\ c >= g.col
                THEN c - n >= g.col /\ <<r, c - n, d>> \in g.cells
                ELSE <<r, c, d>> \in g.cells
<1> DEFINE Place(x) == IF x[1] = g.row /\ x[2] >= g.col
                       THEN <<x[1], x[2] + n, x[3]>> ELSE x
           C == {Place(x) : x \in g.cells}
           h == Shift(g, g.col, n)
<1>1. /\ g.row \in Nat /\ g.col \in Nat
      /\ \A x \in g.cells : /\ x = <<x[1], x[2], x[3]>>
                            /\ x[1] \in Nat /\ x[2] \in Nat /\ x[3] \in Tokens
  BY RefFacts
<1>2. h = RefAt(C, g.row, g.col)
  <2>1. h = [g EXCEPT !.cells = C]
    BY DEF Shift
  <2> HIDE DEF C, h
  <2> QED
    BY <2>1, RefIs
<1>3. C \in SUBSET (Nat \X Nat \X Tokens)
  <2>1. ASSUME NEW x \in g.cells PROVE Place(x) \in Nat \X Nat \X Tokens
    <3>1. CASE x[1] = g.row /\ x[2] >= g.col
      <4>1. x[2] + n \in Nat
        BY <1>1, <3>1
      <4> QED
        BY <1>1, <3>1, <4>1
    <3>2. CASE ~(x[1] = g.row /\ x[2] >= g.col)
      BY <1>1, <3>2
    <3> QED
      BY <3>1, <3>2
  <2> HIDE DEF Place
  <2> QED
    BY <2>1
<1>4. IsRef(h) /\ h.cells = C /\ h.row = g.row /\ h.col = g.col
  <2> HIDE DEF C, h
  <2> QED
    BY <1>1, <1>2, <1>3, RefAtType, RefAtParts
<1> HIDE DEF h
<1>5. ASSUME NEW r \in Nat, NEW c \in Nat, NEW d \in Tokens
      PROVE  <<r, c, d>> \in C <=>
               IF r = g.row /\ c >= g.col
               THEN c - n >= g.col /\ <<r, c - n, d>> \in g.cells
               ELSE <<r, c, d>> \in g.cells
  <2>1. CASE r = g.row /\ c >= g.col
    <3>1. ASSUME <<r, c, d>> \in C
          PROVE  c - n >= g.col /\ <<r, c - n, d>> \in g.cells
      <4>1. PICK x \in g.cells : <<r, c, d>> = Place(x)
        BY <3>1
      <4>2. CASE x[1] = g.row /\ x[2] >= g.col
        <5>1. r = x[1] /\ c = x[2] + n /\ d = x[3]
          BY <4>1, <4>2
        <5>2. c - n = x[2]
          BY <1>1, <5>1
        <5> QED
          BY <1>1, <4>2, <5>1, <5>2
      <4>3. CASE ~(x[1] = g.row /\ x[2] >= g.col)
        <5>1. x = <<r, c, d>>
          BY <4>1, <4>3
        <5> QED
          BY <2>1, <4>3, <5>1
      <4> QED
        BY <4>2, <4>3
    <3>2. ASSUME c - n >= g.col, <<r, c - n, d>> \in g.cells
          PROVE  <<r, c, d>> \in C
      <4> DEFINE x == <<r, c - n, d>>
      <4>1. x[1] = g.row /\ x[2] >= g.col /\ x[2] + n = c /\ x[1] = r /\ x[3] = d
        BY <1>1, <2>1, <3>2
      <4> HIDE DEF x
      <4>2. Place(x) = <<r, c, d>>
        BY <4>1
      <4> QED
        BY <3>2, <4>2 DEF x
    <3> QED
      BY <2>1, <3>1, <3>2
  <2>2. CASE ~(r = g.row /\ c >= g.col)
    <3>1. ASSUME <<r, c, d>> \in C PROVE <<r, c, d>> \in g.cells
      <4>1. PICK x \in g.cells : <<r, c, d>> = Place(x)
        BY <3>1
      <4>2. ~(x[1] = g.row /\ x[2] >= g.col)
        <5>1. SUFFICES ASSUME x[1] = g.row /\ x[2] >= g.col PROVE FALSE
          OBVIOUS
        <5>2. r = x[1] /\ c = x[2] + n
          BY <4>1, <5>1
        <5>3. x[2] + n >= g.col
          BY <5>1
        <5> QED
          BY <2>2, <5>1, <5>2, <5>3
      <4> QED
        BY <4>1, <4>2
    <3>2. ASSUME <<r, c, d>> \in g.cells PROVE <<r, c, d>> \in C
      <4> DEFINE x == <<r, c, d>>
      <4>1. x[1] = r /\ x[2] = c
        OBVIOUS
      <4> HIDE DEF x
      <4>2. Place(x) = x
        BY <2>2, <4>1
      <4>3. x \in g.cells
        BY <3>2 DEF x
      <4>4. x \in C
        BY <4>2, <4>3
      <4> QED
        BY <4>4 DEF x
    <3> QED
      BY <2>2, <3>1, <3>2
  <2> QED
    BY <2>1, <2>2
<1> HIDE DEF C
<1> QED
  BY <1>4, <1>5 DEF h

(* DCH, ICH and ECH.                                                       *)
LEMMA CharsShow ==
  ASSUME NEW s, NEW g, IsRef(g), NEW u, u[1] = "csi", u[3] \in {"P", "@", "X"}
  PROVE  /\ IsRef(Obey(g, u))
         /\ IsScreen(s) /\ Shows(s, g) =>
              Shows(ApplyCSI(s, u[2], u[3]), Obey(g, u))
<1> DEFINE n == Param(u[2], 1, 1)
           t == ApplyCSI(s, u[2], u[3])
           h == Obey(g, u)
           G == RowPart(g, g.col, n)
           k == RefAt(Outside(g, G), g.row, g.col)
<1>1. n \in Nat /\ g.col \in Nat /\ g.row \in Nat
  BY ParamType, RefFacts
<1>2. /\ u[3] = "P" => t = DeleteChars(s, n)
      /\ u[3] = "@" => t = InsertSpaces(s, n)
      /\ u[3] = "X" => t = EraseChars(s, n)
  BY DEF ApplyCSI, Moves
<1>3. Without(g, LAMBDA r, c : r = g.row /\ c \in g.col .. g.col + n - 1) = k
  BY <1>1, EraseCells
<1>4. /\ u[3] = "P" => h = Shift(k, g.col, 0 - n)
      /\ u[3] = "@" => h = Shift(g, g.col, n)
      /\ u[3] = "X" => h = k
  BY <1>3 DEF Obey, Clears, Moves
<1>5. /\ IsRef(k) /\ k.row = g.row /\ k.col = g.col
      /\ \A r, c \in Nat, d \in Tokens :
           <<r, c, d>> \in k.cells <=> <<r, c>> \notin G /\ <<r, c, d>> \in g.cells
  <2>1. k.cells = Outside(g, G) /\ k.row = g.row /\ k.col = g.col
    BY RefAtParts
  <2>2. IsRef(k)
    BY <1>1, OutsideType
  <2> HIDE DEF G, k
  <2> QED
    BY <2>1, <2>2 DEF Outside
<1>6. \A r, c \in Nat : <<r, c>> \in G <=>
        r = g.row /\ c >= g.col /\ c < g.col + n
  BY DEF RowPart
<1>7. ASSUME Shows(s, g)
      PROVE  s.row = g.row /\ s.col = g.col /\ \A r, c \in Nat, d \in Tokens :
               <<r, c, d>> \in g.cells <=> d # Blank /\ Glyph(s, r, c) = d
  BY <1>7 DEF Shows
<1> HIDE DEF n, t, h, G
<1>8. ASSUME u[3] = "X"
      PROVE  IsRef(h) /\ (IsScreen(s) /\ Shows(s, g) => Shows(t, h))
  <2>1. ASSUME IsScreen(s), Shows(s, g) PROVE Shows(t, k)
    <3>1. t = EraseChars(s, n)
      BY <1>2, <1>8
    <3>2. /\ t.row = s.row /\ t.col = s.col
          /\ \A r, c \in Nat : Glyph(t, r, c) =
               IF r = s.row /\ c >= s.col /\ c < s.col + n THEN Blank
               ELSE Glyph(s, r, c)
      <4> DEFINE x == EraseChars(s, n)
      <4>1. /\ x.row = s.row /\ x.col = s.col
            /\ \A r, c \in Nat : Glyph(x, r, c) =
                 IF r = s.row /\ c >= s.col /\ c < s.col + n THEN Blank
                 ELSE Glyph(s, r, c)
        BY <1>1, <2>1, EraseCharsInk
      <4> HIDE DEF x
      <4>2. t = x
        BY <3>1 DEF x
      <4> QED
        BY <4>1, <4>2
    <3>3. \A r, c \in Nat : Glyph(t, r, c) =
            IF <<r, c>> \in G THEN Blank ELSE Glyph(s, r, c)
      BY <1>6, <1>7, <2>1, <3>2
    <3>4. t.col = g.col
      BY <1>7, <2>1, <3>2
    <3> QED
      BY <1>1, <2>1, <3>2, <3>3, <3>4, ShowsErased
  <2> QED
    BY <1>4, <1>5, <1>8, <2>1
<1> HIDE DEF k
<1>9. ASSUME u[3] = "P"
      PROVE  IsRef(h) /\ (IsScreen(s) /\ Shows(s, g) => Shows(t, h))
  <2>0. h = Shift(k, k.col, 0 - n)
    BY <1>4, <1>5, <1>9
  <2>1. \A x \in k.cells : x[1] = k.row /\ x[2] >= k.col => x[2] + (0 - n) >= k.col
    <3> TAKE x \in k.cells
    <3>1. x = <<x[1], x[2], x[3]>> /\ x[1] \in Nat /\ x[2] \in Nat /\ x[3] \in Tokens
      BY <1>5, RefFacts
    <3>2. <<x[1], x[2]>> \notin G
      BY <1>5, <3>1
    <3> QED
      BY <1>1, <1>5, <1>6, <3>1, <3>2
  <2>2. /\ IsRef(h) /\ h.row = k.row /\ h.col = k.col
        /\ \A r, c \in Nat, d \in Tokens :
             <<r, c, d>> \in h.cells <=>
               IF r = k.row /\ c >= k.col
               THEN c - (0 - n) >= k.col /\ <<r, c - (0 - n), d>> \in k.cells
               ELSE <<r, c, d>> \in k.cells
    <3>1. 0 - n \in Int
      BY <1>1
    <3> QED
      BY <1>5, <2>0, <2>1, <3>1, ShiftCells
  <2>3. ASSUME IsScreen(s), Shows(s, g) PROVE Shows(t, h)
    <3>0. t = DeleteChars(s, n)
      BY <1>2, <1>9
    <3>1. /\ t.row = s.row /\ t.col = s.col
          /\ \A r, c \in Nat : Glyph(t, r, c) =
               IF r = s.row /\ c >= s.col THEN Glyph(s, r, c + n)
               ELSE Glyph(s, r, c)
      <4> DEFINE x == DeleteChars(s, n)
      <4>1. /\ x.row = s.row /\ x.col = s.col
            /\ \A r, c \in Nat : Glyph(x, r, c) =
                 IF r = s.row /\ c >= s.col THEN Glyph(s, r, c + n)
                 ELSE Glyph(s, r, c)
        BY <1>1, <2>3, DeleteInk
      <4> HIDE DEF x
      <4>2. t = x
        BY <3>0 DEF x
      <4> QED
        BY <4>1, <4>2
    <3>2. ASSUME NEW r \in Nat, NEW c \in Nat, NEW d \in Tokens
          PROVE  <<r, c, d>> \in h.cells <=> d # Blank /\ Glyph(t, r, c) = d
      <4>1. CASE r = g.row /\ c >= g.col
        <5>1. c - (0 - n) = c + n /\ c + n \in Nat /\ c + n >= g.col
          BY <1>1, <4>1
        <5>2. <<r, c, d>> \in h.cells <=> <<r, c + n, d>> \in k.cells
          BY <1>5, <2>2, <4>1, <5>1
        <5>3. <<r, c + n>> \notin G
          BY <1>1, <1>6, <4>1, <5>1
        <5>4. <<r, c + n, d>> \in k.cells <=> d # Blank /\ Glyph(s, r, c + n) = d
          BY <1>5, <1>7, <2>3, <5>1, <5>3
        <5> QED
          BY <1>7, <2>3, <3>1, <4>1, <5>2, <5>4
      <4>2. CASE ~(r = g.row /\ c >= g.col)
        <5>1. <<r, c, d>> \in h.cells <=> <<r, c, d>> \in k.cells
          BY <1>5, <2>2, <4>2
        <5>2. <<r, c>> \notin G
          BY <1>6, <4>2
        <5> QED
          BY <1>5, <1>7, <2>3, <3>1, <4>2, <5>1, <5>2
      <4> QED
        BY <4>1, <4>2
    <3> QED
      BY <1>5, <1>7, <2>2, <2>3, <3>1, <3>2 DEF Shows
  <2> QED
    BY <2>2, <2>3
<1>10. ASSUME u[3] = "@"
      PROVE  IsRef(h) /\ (IsScreen(s) /\ Shows(s, g) => Shows(t, h))
  <2>0. h = Shift(g, g.col, n)
    BY <1>4, <1>10
  <2>1. \A x \in g.cells : x[1] = g.row /\ x[2] >= g.col => x[2] + n >= g.col
    <3> TAKE x \in g.cells
    <3>1. x[2] \in Nat
      BY RefFacts
    <3> QED
      BY <1>1, <3>1
  <2>2. /\ IsRef(h) /\ h.row = g.row /\ h.col = g.col
        /\ \A r, c \in Nat, d \in Tokens :
             <<r, c, d>> \in h.cells <=>
               IF r = g.row /\ c >= g.col
               THEN c - n >= g.col /\ <<r, c - n, d>> \in g.cells
               ELSE <<r, c, d>> \in g.cells
    <3>1. n \in Int
      BY <1>1
    <3> QED
      BY <2>0, <2>1, <3>1, ShiftCells
  <2>3. ASSUME IsScreen(s), Shows(s, g) PROVE Shows(t, h)
    <3>0. t = InsertSpaces(s, n)
      BY <1>2, <1>10
    <3>1. /\ t.row = s.row /\ t.col = s.col
          /\ \A r, c \in Nat : Glyph(t, r, c) =
               IF r = s.row /\ c >= s.col
               THEN IF c < s.col + n THEN Blank ELSE Glyph(s, r, c - n)
               ELSE Glyph(s, r, c)
      <4> DEFINE x == InsertSpaces(s, n)
      <4>1. /\ x.row = s.row /\ x.col = s.col
            /\ \A r, c \in Nat : Glyph(x, r, c) =
                 IF r = s.row /\ c >= s.col
                 THEN IF c < s.col + n THEN Blank ELSE Glyph(s, r, c - n)
                 ELSE Glyph(s, r, c)
        BY <1>1, <2>3, InsertInk
      <4> HIDE DEF x
      <4>2. t = x
        BY <3>0 DEF x
      <4> QED
        BY <4>1, <4>2
    <3>2. ASSUME NEW r \in Nat, NEW c \in Nat, NEW d \in Tokens
          PROVE  <<r, c, d>> \in h.cells <=> d # Blank /\ Glyph(t, r, c) = d
      <4>0. /\ s.row = g.row /\ s.col = g.col
            /\ \A i \in Nat : <<r, i, d>> \in g.cells <=> d # Blank /\ Glyph(s, r, i) = d
        BY <1>7, <2>3
      <4>1. CASE r = g.row /\ c >= g.col
        <5>0. <<r, c, d>> \in h.cells <=> c - n >= g.col /\ <<r, c - n, d>> \in g.cells
          BY <2>2, <4>1
        <5>1. CASE c < g.col + n
          <6>1. ~(c - n >= g.col)
            BY <1>1, <5>1
          <6>2. Glyph(t, r, c) = Blank
            BY <3>1, <4>0, <4>1, <5>1
          <6> QED
            BY <5>0, <6>1, <6>2
        <5>2. CASE c >= g.col + n
          <6>1. c - n \in Nat /\ c - n >= g.col /\ ~(c < g.col + n)
            BY <1>1, <5>2
          <6>2. Glyph(t, r, c) = Glyph(s, r, c - n)
            BY <3>1, <4>0, <4>1, <6>1
          <6> QED
            BY <4>0, <5>0, <6>1, <6>2
        <5> QED
          BY <1>1, <5>1, <5>2
      <4>2. CASE ~(r = g.row /\ c >= g.col)
        <5>1. <<r, c, d>> \in h.cells <=> <<r, c, d>> \in g.cells
          BY <2>2, <4>2
        <5>2. Glyph(t, r, c) = Glyph(s, r, c)
          BY <3>1, <4>0, <4>2
        <5> QED
          BY <4>0, <5>1, <5>2
      <4> QED
        BY <4>1, <4>2
    <3> QED
      BY <1>7, <2>2, <2>3, <3>1, <3>2 DEF Shows
  <2> QED
    BY <2>2, <2>3
<1> QED
  BY <1>8, <1>9, <1>10 DEF t, h

-----------------------------------------------------------------------------
(* A unit as a whole.                                                      *)

(* The units, by their forms.                                              *)
LEMMA UnitForms ==
  ASSUME NEW u \in Units
  PROVE  \/ \E x \in {<<"a">>, <<"a", "LF", "LF", "b", "c">>, <<"CR">>, <<"TAB">>,
                      <<"BS">>} : u = Text(x)
         \/ u = <<"rune", <<>>, "e'">>
         \/ u = <<"esc", <<>>, "c">>
         \/ u = <<"osc", <<>>, "BEL">>
         \/ \E x \in {<<>>, <<"2">>, <<"2", "2">>}, f \in Moves \ {"f"} : u = Csi(x, f)
         \/ \E x \in {<<>>, <<"1">>, <<"2">>}, f \in {"K", "J"} : u = Csi(x, f)
         \/ \E f \in {"P", "@", "X"} : u = Csi(<<>>, f)
         \/ u = Csi(<<"?1049">>, "h")
BY DEF Units, Moves

(* What the units that are not texts can be.                               *)
LEMMA UnitKinds ==
  ASSUME NEW u \in Units, u[1] # "text"
  PROVE  \/ u[1] = "rune" /\ u[2] = <<>> /\ u[3] = "e'"
         \/ u[1] = "esc" /\ u[2] = <<>> /\ u[3] = "c"
         \/ u[1] = "osc" /\ u[2] = <<>> /\ u[3] = "BEL"
         \/ u[1] = "csi" /\ u[3] \in Moves
         \/ u[1] = "csi" /\ u[3] \in {"K", "J"} /\ Param(u[2], 1, 0) \in {0, 1, 2}
         \/ u[1] = "csi" /\ u[3] \in {"P", "@", "X"}
         \/ u[1] = "csi" /\ u[3] = "h" /\ AltScreen(u[2])
<1>1. /\ Param(<<>>, 1, 0) = 0
      /\ Param(<<"1">>, 1, 0) = 1
      /\ Param(<<"2">>, 1, 0) = 2
  BY DEF Param, Value, Params
<1>2. AltScreen(<<"?1049">>)
  BY DEF AltScreen
<1>3. /\ \A x : Text(x)[1] = "text"
      /\ \A x, f : Csi(x, f)[1] = "csi" /\ Csi(x, f)[2] = x /\ Csi(x, f)[3] = f
  BY DEF Text, Csi
<1> QED
  BY <1>1, <1>2, <1>3, UnitForms

(* The parts of a unit.                                                    *)
LEMMA UnitShape ==
  ASSUME NEW u \in Units
  PROVE  /\ u[1] \in {"text", "rune", "esc", "osc", "csi"}
         /\ u[1] = "csi" => u[2] \in Seq(Params) /\ u[3] \in Finals
<1>1. /\ \A x : Text(x)[1] = "text"
      /\ \A x, f : Csi(x, f)[1] = "csi" /\ Csi(x, f)[2] = x /\ Csi(x, f)[3] = f
  BY DEF Text, Csi
<1>2. /\ <<>> \in Seq(Params) /\ <<"1">> \in Seq(Params) /\ <<"2">> \in Seq(Params)
      /\ <<"2", "2">> \in Seq(Params) /\ <<"?1049">> \in Seq(Params)
  BY DEF Params
<1>3. /\ Moves \ {"f"} \subseteq Finals
      /\ {"K", "J", "P", "@", "X", "h"} \subseteq Finals
  BY DEF Finals, Moves
<1>4. u[1] \in {"text", "rune", "esc", "osc", "csi"}
  BY <1>1, UnitForms
<1>5. ASSUME u[1] = "csi" PROVE u[2] \in Seq(Params) /\ u[3] \in Finals
  <2>0. ASSUME NEW x \in Seq(Params), NEW f \in Finals, u = Csi(x, f)
        PROVE  u[2] \in Seq(Params) /\ u[3] \in Finals
    <3>1. u[2] = x /\ u[3] = f
      BY <1>1, <2>0
    <3> QED
      BY <3>1
  <2>1. CASE \E x \in {<<>>, <<"2">>, <<"2", "2">>}, f \in Moves \ {"f"} : u = Csi(x, f)
    BY <1>2, <1>3, <2>0, <2>1
  <2>2. CASE \E x \in {<<>>, <<"1">>, <<"2">>}, f \in {"K", "J"} : u = Csi(x, f)
    BY <1>2, <1>3, <2>0, <2>2
  <2>3. CASE \E f \in {"P", "@", "X"} : u = Csi(<<>>, f)
    BY <1>2, <1>3, <2>0, <2>3
  <2>4. CASE u = Csi(<<"?1049">>, "h")
    BY <1>2, <1>3, <2>0, <2>4
  <2>5. \/ \E x \in {<<>>, <<"2">>, <<"2", "2">>}, f \in Moves \ {"f"} : u = Csi(x, f)
        \/ \E x \in {<<>>, <<"1">>, <<"2">>}, f \in {"K", "J"} : u = Csi(x, f)
        \/ \E f \in {"P", "@", "X"} : u = Csi(<<>>, f)
        \/ u = Csi(<<"?1049">>, "h")
    <3>1. ~\E x : u = Text(x)
      BY <1>1, <1>5
    <3>2. /\ u # <<"rune", <<>>, "e'">> /\ u # <<"esc", <<>>, "c">>
          /\ u # <<"osc", <<>>, "BEL">>
      BY <1>5
    <3> QED
      BY <3>1, <3>2, UnitForms
  <2> QED
    BY <2>1, <2>2, <2>3, <2>4, <2>5
<1> QED
  BY <1>4, <1>5

(* The bytes that a text is made of.                                       *)
LEMMA TextBytes ==
  ASSUME NEW u \in Units, u[1] = "text"
  PROVE  /\ Bytes(u) = u[2] /\ u[2] \in Seq(Tokens) /\ Len(u[2]) > 0
         /\ \A i \in 1 .. Len(u[2]) :
              u[2][i] \in {"LF", "CR", "TAB", "BS", "a", "b", "c"}
<1>1. Bytes(u) = u[2]
  BY DEF Bytes
<1>2. PICK x \in {<<"a">>, <<"a", "LF", "LF", "b", "c">>, <<"CR">>, <<"TAB">>,
                  <<"BS">>} : u = Text(x)
  BY UnitForms DEF Csi
<1>3. u[2] = x
  BY <1>2 DEF Text
<1>4. /\ x \in Seq(Tokens) /\ Len(x) > 0
      /\ \A i \in 1 .. Len(x) : x[i] \in {"LF", "CR", "TAB", "BS", "a", "b", "c"}
  <2>1. {"LF", "CR", "TAB", "BS", "a", "b", "c"} \subseteq Tokens
    BY DEF Tokens, Controls, Finals
  <2>2. CASE x = <<"a", "LF", "LF", "b", "c">>
    BY <2>1, <2>2
  <2>3. ASSUME NEW b \in {"a", "CR", "TAB", "BS"}, x = <<b>>
        PROVE  /\ x \in Seq(Tokens) /\ Len(x) > 0
               /\ \A i \in 1 .. Len(x) :
                    x[i] \in {"LF", "CR", "TAB", "BS", "a", "b", "c"}
    BY <2>1, <2>3
  <2> QED
    BY <1>2, <2>2, <2>3
<1> QED
  BY <1>1, <1>3, <1>4

(* The screen after a unit that the parser has seen from its first byte on.*)
After(s, u) ==
  CASE u[1] = "rune" -> WriteRune(s, u[3])
    [] u[1] = "esc" -> Reset
    [] u[1] = "osc" -> s
    [] u[1] = "csi" -> ApplyCSI(s, u[2], u[3])

(* A unit that clears does so whatever was there before.                   *)
LEMMA ClearsBoth ==
  ASSUME NEW s, NEW g, NEW u \in Units, Clears(u)
  PROVE  After(s, u) = Reset /\ Obey(g, u) = RefReset
<1>1. Obey(g, u) = RefReset
  BY DEF Obey
<1>2. CASE u[1] = "esc"
  BY <1>1, <1>2 DEF After
<1>3. CASE u[1] = "csi" /\ u[3] = "J" /\ Param(u[2], 1, 0) \in {2, 3}
  BY <1>1, <1>3 DEF After, ApplyCSI, EraseInDisplay, Moves
<1>4. CASE u[1] = "csi" /\ u[3] \in {"h", "l"} /\ AltScreen(u[2])
  BY <1>1, <1>4 DEF After, ApplyCSI, Moves
<1> QED
  BY <1>2, <1>3, <1>4 DEF Clears

(* The parser and the reference do the same with a unit.                   *)
LEMMA ObeyShows ==
  ASSUME NEW s, NEW g, IsRef(g), NEW u \in Units, u[1] # "text"
  PROVE  /\ IsRef(Obey(g, u))
         /\ IsScreen(s) /\ Shows(s, g) /\ ~(ErasesBelow(u) /\ Gap(g)) =>
              Shows(After(s, u), Obey(g, u))
<1> DEFINE h == Obey(g, u)
           t == After(s, u)
           Goal == /\ IsRef(h)
                   /\ IsScreen(s) /\ Shows(s, g) /\ ~(ErasesBelow(u) /\ Gap(g)) =>
                        Shows(t, h)
<1>1. ASSUME Clears(u)
      PROVE  Goal
  BY <1>1, ClearsBoth, ShowsReset
<1>2. ASSUME ~Clears(u) /\ u[1] = "rune" /\ u[3] = "e'"
      PROVE  Goal
  <2>1. t = WriteRune(s, "e'")
    BY <1>2 DEF After
  <2>2. h = Type(g, "e'")
    BY <1>2 DEF Obey
  <2>3. /\ "e'" \in Tokens /\ "e'" \notin Controls \cup {Blank}
    BY DEF Tokens, Controls, Blank
  <2>4. WriteRune(s, "e'") = Ground(s, "e'")
    BY <2>3, GroundCases
  <2> HIDE DEF t, h
  <2>5. IsRef(h)
    BY <2>2, <2>3, TypeType
  <2>6. ASSUME IsScreen(s), Shows(s, g) PROVE Shows(t, h)
    BY <2>1, <2>2, <2>3, <2>4, <2>6, TypeShows
  <2> QED
    BY <2>5, <2>6
<1>3. ASSUME ~Clears(u) /\ u[1] = "osc"
      PROVE  Goal
  <2>1. t = s /\ h = g
    BY <1>3 DEF After, Obey
  <2> QED
    BY <2>1
<1>4. ASSUME ~Clears(u) /\ u[1] = "csi" /\ u[3] \in Moves
      PROVE  Goal
  <2>1. t = Moved(s, u[2], u[3]) /\ h = Moved(g, u[2], u[3])
    BY <1>4 DEF After, Obey, ApplyCSI, Moves
  <2>2. /\ IsRef(Moved(g, u[2], u[3]))
        /\ IsScreen(s) /\ Shows(s, g) =>
             Shows(Moved(s, u[2], u[3]), Moved(g, u[2], u[3]))
    BY <1>4, MovedShows
  <2> HIDE DEF t, h
  <2> QED
    BY <2>1, <2>2
<1>5. ASSUME ~Clears(u) /\ u[1] = "csi" /\ u[3] = "K" /\ Param(u[2], 1, 0) \in {0, 1, 2}
      PROVE  Goal
  <2>1. t = EraseInLine(s, Param(u[2], 1, 0))
    BY <1>5 DEF After, ApplyCSI, Moves
  <2> QED
    BY <1>5, <2>1, LineShows
<1>6. ASSUME ~Clears(u) /\ u[1] = "csi" /\ u[3] = "J" /\ Param(u[2], 1, 0) \in {0, 1, 2}
      PROVE  Goal
  <2>1. t = EraseInDisplay(s, Param(u[2], 1, 0))
    BY <1>6 DEF After, ApplyCSI, Moves
  <2>2. Param(u[2], 1, 0) \in {0, 1}
    BY <1>6 DEF Clears
  <2>3. Param(u[2], 1, 0) = 0 => ErasesBelow(u)
    BY <1>6 DEF ErasesBelow
  <2> QED
    BY <1>6, <2>1, <2>2, <2>3, DisplayShows
<1>7. ASSUME ~Clears(u) /\ u[1] = "csi" /\ u[3] \in {"P", "@", "X"}
      PROVE  Goal
  <2>1. t = ApplyCSI(s, u[2], u[3])
    BY <1>7 DEF After
  <2> QED
    BY <1>7, <2>1, CharsShow
<1>8. u[1] = "esc" => Clears(u)
  BY UnitKinds DEF Clears
<1>9. u[1] = "csi" /\ u[3] = "h" /\ AltScreen(u[2]) => Clears(u)
  BY DEF Clears
<1> HIDE DEF Goal
<1>10. Goal
  <2>1. CASE Clears(u)
    BY <1>1, <2>1
  <2>2. CASE ~Clears(u)
    BY <1>2, <1>3, <1>4, <1>5, <1>6, <1>7, <1>8, <1>9, <2>2, UnitKinds
  <2> QED
    BY <2>1, <2>2
<1> QED
  BY <1>10 DEF Goal

(* The bytes of a sequence.                                                *)
LEMMA UnitBytes ==
  ASSUME NEW u \in Units, u[1] # "text"
  PROVE  /\ Bytes(u) \in Seq(Tokens) /\ Len(Bytes(u)) \in Nat /\ Len(Bytes(u)) > 1
         /\ \A i \in 2 .. Len(Bytes(u)) : Bytes(u)[i] \notin {"ESC", "hi"}
         /\ u[1] = "rune" => /\ Len(Bytes(u)) = 2 /\ u[3] = "e'"
                             /\ Bytes(u)[1] = "hi" /\ Bytes(u)[2] = "lo"
         /\ u[1] = "esc" => /\ Len(Bytes(u)) = 2
                            /\ Bytes(u)[1] = "ESC" /\ Bytes(u)[2] = "c"
         /\ u[1] = "osc" => /\ Len(Bytes(u)) = 3 /\ Bytes(u)[1] = "ESC"
                            /\ Bytes(u)[2] = "]" /\ Bytes(u)[3] = "BEL"
         /\ u[1] = "csi" =>
              /\ Len(Bytes(u)) = Len(u[2]) + 3
              /\ Bytes(u)[1] = "ESC" /\ Bytes(u)[2] = "["
              /\ \A i \in 1 .. Len(u[2]) :
                   Bytes(u)[i + 2] = u[2][i] /\ u[2][i] \in Params
              /\ Bytes(u)[Len(u[2]) + 3] = u[3] /\ u[3] \in Finals
<1> DEFINE bytes == Bytes(u)
<1>0. /\ {"ESC", "hi", "lo", "c", "]", "[", "BEL", "e'"} \subseteq Tokens
      /\ Params \subseteq Tokens \ {"ESC", "hi"}
      /\ Finals \subseteq Tokens \ {"ESC", "hi"}
  BY DEF Tokens, Controls, Params, Finals
<1>1. CASE u[1] = "rune"
  <2>1. bytes = <<"hi", "lo">> /\ u[3] = "e'"
    BY <1>1, UnitKinds DEF Bytes
  <2> HIDE DEF bytes
  <2>2. bytes \in Seq(Tokens) /\ Len(bytes) = 2 /\ bytes[1] = "hi" /\ bytes[2] = "lo"
    BY <1>0, <2>1
  <2> QED
    BY <1>1, <2>1, <2>2 DEF bytes
<1>2. CASE u[1] = "esc"
  <2>1. bytes = <<"ESC", "c">>
    BY <1>2, UnitKinds DEF Bytes
  <2> HIDE DEF bytes
  <2>2. bytes \in Seq(Tokens) /\ Len(bytes) = 2 /\ bytes[1] = "ESC" /\ bytes[2] = "c"
    BY <1>0, <2>1
  <2> QED
    BY <1>2, <2>2 DEF bytes
<1>3. CASE u[1] = "osc"
  <2>1. bytes = <<"ESC", "]">> \o <<>> \o <<"BEL">>
    BY <1>3, UnitKinds DEF Bytes
  <2> HIDE DEF bytes
  <2>2. <<"ESC", "]">> \o <<>> = <<"ESC", "]">>
    BY <1>0, ConcatEmptySeq
  <2>3. /\ bytes \in Seq(Tokens) /\ Len(bytes) = 3 /\ bytes[1] = "ESC"
        /\ bytes[2] = "]" /\ bytes[3] = "BEL"
    <3> DEFINE a == <<"ESC", "]">>
               f == <<"BEL">>
    <3>1. bytes = a \o f
      BY <2>1, <2>2
    <3>2. /\ a \in Seq(Tokens) /\ Len(a) = 2 /\ a[1] = "ESC" /\ a[2] = "]"
          /\ f \in Seq(Tokens) /\ Len(f) = 1 /\ f[1] = "BEL"
      BY <1>0
    <3> HIDE DEF a, f
    <3>3. /\ bytes \in Seq(Tokens) /\ Len(bytes) = Len(a) + Len(f)
          /\ \A i \in 1 .. Len(a) + Len(f) :
               bytes[i] = IF i <= Len(a) THEN a[i] ELSE f[i - Len(a)]
      BY <3>1, <3>2, ConcatProperties
    <3> QED
      BY <3>2, <3>3
  <2> QED
    BY <1>3, <2>3 DEF bytes
<1>4. CASE u[1] = "csi"
  <2> DEFINE a == <<"ESC", "[">>
             p == u[2]
             f == <<u[3]>>
  <2>1. bytes = a \o p \o f
    BY <1>4 DEF Bytes
  <2>2. /\ p \in Seq(Params) /\ u[3] \in Finals
        /\ p \in Seq(Tokens) /\ Len(p) \in Nat
        /\ \A i \in 1 .. Len(p) : p[i] \in Params
    <3>1. p \in Seq(Params) /\ u[3] \in Finals
      BY <1>4, UnitShape
    <3> HIDE DEF p
    <3>2. Len(p) \in Nat /\ p \in [1 .. Len(p) -> Params]
      BY <3>1, LenProperties
    <3>3. p \in [1 .. Len(p) -> Tokens]
      BY <1>0, <3>2
    <3>4. p \in Seq(Tokens)
      BY <3>2, <3>3, SeqDef
    <3> QED
      BY <3>1, <3>2, <3>4
  <2>3. /\ a \in Seq(Tokens) /\ Len(a) = 2 /\ a[1] = "ESC" /\ a[2] = "["
        /\ f \in Seq(Tokens) /\ Len(f) = 1 /\ f[1] = u[3]
    BY <1>0, <2>2
  <2> HIDE DEF a, p, f, bytes
  <2>4. /\ a \o p \in Seq(Tokens) /\ Len(a \o p) = Len(p) + 2
        /\ (a \o p)[1] = "ESC" /\ (a \o p)[2] = "["
        /\ \A i \in 1 .. Len(p) : (a \o p)[i + 2] = p[i]
    <3> DEFINE b == a \o p
    <3>1. /\ b \in Seq(Tokens) /\ Len(b) = Len(a) + Len(p)
          /\ \A i \in 1 .. Len(a) + Len(p) :
               b[i] = IF i <= Len(a) THEN a[i] ELSE p[i - Len(a)]
      BY <2>2, <2>3, ConcatProperties
    <3> HIDE DEF b
    <3>2. \A i \in 1 .. Len(p) : b[i + 2] = p[i]
      BY <2>2, <2>3, <3>1
    <3> QED
      BY <2>2, <2>3, <3>1, <3>2 DEF b
  <2>5. /\ bytes \in Seq(Tokens) /\ Len(bytes) = Len(p) + 3
        /\ bytes[1] = "ESC" /\ bytes[2] = "["
        /\ \A i \in 1 .. Len(p) : bytes[i + 2] = p[i]
        /\ bytes[Len(p) + 3] = u[3]
    <3> DEFINE b == a \o p
    <3>1. bytes = b \o f
      BY <2>1
    <3> HIDE DEF b
    <3>2. /\ b \in Seq(Tokens) /\ Len(b) = Len(p) + 2
          /\ b[1] = "ESC" /\ b[2] = "[" /\ \A i \in 1 .. Len(p) : b[i + 2] = p[i]
      BY <2>4 DEF b
    <3>3. /\ bytes \in Seq(Tokens) /\ Len(bytes) = Len(b) + Len(f)
          /\ \A i \in 1 .. Len(b) + Len(f) :
               bytes[i] = IF i <= Len(b) THEN b[i] ELSE f[i - Len(b)]
      BY <2>3, <3>1, <3>2, ConcatProperties
    <3> QED
      BY <2>2, <2>3, <3>2, <3>3
  <2>6. \A i \in 2 .. Len(bytes) : bytes[i] \notin {"ESC", "hi"}
    <3> TAKE i \in 2 .. Len(bytes)
    <3>1. CASE i = 2
      BY <2>5, <3>1
    <3>2. CASE i \in 3 .. Len(p) + 2
      <4>1. i - 2 \in 1 .. Len(p) /\ (i - 2) + 2 = i
        BY <2>2, <3>2
      <4> QED
        BY <1>0, <2>2, <2>5, <4>1
    <3>3. CASE i = Len(p) + 3
      BY <1>0, <2>2, <2>5, <3>3
    <3> QED
      BY <2>2, <2>5, <3>1, <3>2, <3>3
  <2> QED
    BY <1>4, <2>2, <2>5, <2>6 DEF bytes, p
<1> QED
  BY <1>1, <1>2, <1>3, <1>4, UnitShape

-----------------------------------------------------------------------------
(* Where the parser is in a unit that it has seen from its first byte on.  *)

InUnit(p, u, k) ==
  IF k = 0 THEN p.mode = "ground"
  ELSE CASE u[1] = "rune" -> p.mode = "rune"
         [] u[1] = "esc" -> p.mode = "esc"
         [] u[1] = "osc" -> p.mode = IF k = 1 THEN "esc" ELSE "osc"
         [] u[1] = "csi" -> IF k = 1 THEN p.mode = "esc"
                            ELSE p.mode = "csi" /\ p.params = SubSeq(u[2], 1, k - 2)

(* The fields of At.                                                       *)
LEMMA AtParts ==
  ASSUME NEW s, NEW m, NEW ps
  PROVE  At(s, m, ps).screen = s /\ At(s, m, ps).mode = m /\ At(s, m, ps).params = ps
BY DEF At

(* A byte that begins nothing, outside of a sequence.                      *)
LEMMA StepGround ==
  ASSUME NEW p, p.mode = "ground", NEW b, b \notin {"ESC", "hi"}
  PROVE  Step(p, b).mode = "ground" /\ Step(p, b).screen = Ground(p.screen, b)
BY AtParts DEF Step, OnGround

(* The parser stays in the unit, and shows nothing of it yet.              *)
LEMMA StepInside ==
  ASSUME NEW p, NEW u \in Units, u[1] # "text", NEW k \in Nat,
         k + 1 < Len(Bytes(u)), InUnit(p, u, k)
  PROVE  LET q == Step(p, Bytes(u)[k + 1]) IN
         InUnit(q, u, k + 1) /\ q.screen = p.screen
<1> DEFINE b == Bytes(u)[k + 1]
           q == Step(p, b)
<1>0. k + 1 # 0
  OBVIOUS
<1>1. CASE k = 0
  <2>1. p.mode = "ground"
    BY <1>1 DEF InUnit
  <2>2. q = OnGround(p.screen, b)
    BY <2>1 DEF Step
  <2>3. b = IF u[1] = "rune" THEN "hi" ELSE "ESC"
    <3>1. b = Bytes(u)[1]
      BY <1>1
    <3> QED
      BY <3>1, UnitBytes, UnitShape
  <2> HIDE DEF q, b
  <2>4. q.screen = p.screen /\ q.mode = IF u[1] = "rune" THEN "rune" ELSE "esc"
    <3>1. b \in {"ESC", "hi"} => Ground(p.screen, b) = p.screen
      BY GroundCases
    <3>2. b = IF u[1] = "rune" THEN "hi" ELSE "ESC"
      BY <2>3
    <3> QED
      BY <2>2, <3>1, <3>2 DEF OnGround, At
  <2>5. InUnit(q, u, 1)
    <3>1. CASE u[1] = "rune"
      BY <2>4, <3>1 DEF InUnit
    <3>2. CASE u[1] # "rune"
      <4>1. u[1] \in {"esc", "osc", "csi"} /\ q.mode = "esc"
        BY <2>4, <3>2, UnitShape
      <4>2. CASE u[1] = "esc"
        BY <4>1, <4>2 DEF InUnit
      <4>3. CASE u[1] = "osc"
        BY <4>1, <4>3 DEF InUnit
      <4>4. CASE u[1] = "csi"
        BY <4>1, <4>4 DEF InUnit
      <4> QED
        BY <4>1, <4>2, <4>3, <4>4
    <3> QED
      BY <3>1, <3>2
  <2> QED
    BY <1>1, <2>4, <2>5 DEF q, b
<1>2. CASE k > 0 /\ u[1] \in {"rune", "esc"}
  BY <1>2, UnitBytes
<1>3. CASE k > 0 /\ u[1] = "osc"
  <2>1. k = 1 /\ b = "]"
    BY <1>3, UnitBytes
  <2>2. p.mode = "esc"
    BY <1>3, <2>1 DEF InUnit
  <2>3. q = At(p.screen, "osc", <<>>)
    BY <2>1, <2>2 DEF Step
  <2> HIDE DEF q, b
  <2>4. q.screen = p.screen /\ q.mode = "osc"
    BY <2>3, AtParts
  <2>5. InUnit(q, u, 2)
    BY <1>3, <2>4 DEF InUnit
  <2> QED
    BY <2>1, <2>4, <2>5 DEF q, b
<1>4. CASE k = 1 /\ u[1] = "csi"
  <2>1. b = "["
    BY <1>4, UnitBytes
  <2>2. p.mode = "esc"
    BY <1>4 DEF InUnit
  <2>3. q = At(p.screen, "csi", <<>>)
    BY <2>1, <2>2 DEF Step
  <2> HIDE DEF q, b
  <2>4. q.screen = p.screen /\ q.mode = "csi" /\ q.params = <<>>
    BY <2>3, AtParts
  <2>5. SubSeq(u[2], 1, 0) = <<>>
    BY <1>4, UnitShape, SubSeqEmpty
  <2>6. InUnit(q, u, 2)
    BY <1>4, <2>4, <2>5 DEF InUnit
  <2> QED
    BY <1>4, <2>4, <2>6 DEF q, b
<1>5. CASE k > 1 /\ u[1] = "csi"
  <2> DEFINE i == k - 1
  <2>1. /\ i \in 1 .. Len(u[2]) /\ i + 2 = k + 1 /\ k - 2 = i - 1
        /\ (k + 1) - 2 = i
    BY <1>5, UnitBytes
  <2>2. b = u[2][i] /\ b \in Params
    BY <1>5, <2>1, UnitBytes
  <2>3. p.mode = "csi" /\ p.params = SubSeq(u[2], 1, i - 1)
    BY <1>5, <2>1 DEF InUnit
  <2>4. q = At(p.screen, "csi", Append(p.params, b))
    BY <2>2, <2>3 DEF Step, NotFinal
  <2> HIDE DEF q, b
  <2>5. q.screen = p.screen /\ q.mode = "csi" /\ q.params = Append(p.params, b)
    BY <2>4 DEF At
  <2>6. Append(SubSeq(u[2], 1, i - 1), u[2][i]) = SubSeq(u[2], 1, i)
    <3> DEFINE s == u[2]
    <3>1. s \in Seq(Params)
      BY <1>5, UnitShape
    <3> HIDE DEF s, i
    <3>2. i \in 1 .. Len(s)
      BY <2>1 DEF s
    <3>3. SubSeq(s, 1, i) = Append(SubSeq(s, 1, i - 1), s[i])
      <4>1. Len(s) \in Nat
        BY <3>1
      <4>2. 1 \in 1 .. Len(s) + 1 /\ i \in 1 - 1 .. Len(s)
        BY <3>2, <4>1
      <4> QED
        BY <3>1, <3>2, <4>1, <4>2
    <3> QED
      BY <3>3 DEF s
  <2>7. InUnit(q, u, k + 1)
    <3>1. k + 1 # 0 /\ k + 1 # 1 /\ (k + 1) - 2 = i /\ u[1] = "csi"
      BY <1>5, <2>1
    <3>2. q.mode = "csi" /\ q.params = SubSeq(u[2], 1, i)
      BY <2>1, <2>2, <2>3, <2>5, <2>6
    <3> QED
      BY <3>1, <3>2 DEF InUnit
  <2> QED
    BY <2>5, <2>7 DEF q, b
<1> QED
  BY <1>1, <1>2, <1>3, <1>4, <1>5, UnitShape

(* Its last byte is obeyed.                                                *)
LEMMA StepLast ==
  ASSUME NEW p, NEW u \in Units, u[1] # "text", NEW k \in Nat,
         k + 1 = Len(Bytes(u)), InUnit(p, u, k)
  PROVE  LET q == Step(p, Bytes(u)[k + 1]) IN
         q.mode = "ground" /\ q.screen = After(p.screen, u)
<1> DEFINE b == Bytes(u)[k + 1]
           q == Step(p, b)
<1>0. k > 0
  BY UnitBytes
<1>1. CASE u[1] = "rune"
  <2>1. b = "lo" /\ p.mode = "rune" /\ u[3] = "e'"
    BY <1>0, <1>1, UnitBytes DEF InUnit
  <2>2. q = At(WriteRune(p.screen, "e'"), "ground", <<>>)
    BY <2>1 DEF Step
  <2>3. After(p.screen, u) = WriteRune(p.screen, "e'")
    BY <1>1, <2>1 DEF After
  <2> QED
    BY <2>2, <2>3, AtParts
<1>2. CASE u[1] = "esc"
  <2>1. b = "c" /\ p.mode = "esc"
    BY <1>0, <1>2, UnitBytes DEF InUnit
  <2>2. q = At(Reset, "ground", <<>>)
    BY <2>1 DEF Step
  <2>3. After(p.screen, u) = Reset
    BY <1>2 DEF After
  <2> QED
    BY <2>2, <2>3, AtParts
<1>3. CASE u[1] = "osc"
  <2>1. b = "BEL" /\ k = 2
    BY <1>3, UnitBytes
  <2>2. p.mode = "osc"
    BY <1>3, <2>1 DEF InUnit
  <2>3. q = At(p.screen, "ground", <<>>)
    BY <2>1, <2>2 DEF Step
  <2>4. After(p.screen, u) = p.screen
    BY <1>3 DEF After
  <2> QED
    BY <2>3, <2>4, AtParts
<1>4. CASE u[1] = "csi"
  <2>1. k = Len(u[2]) + 2 /\ Len(u[2]) \in Nat /\ u[2] \in Seq(Params)
    <3>1. u[2] \in Seq(Params) /\ Len(Bytes(u)) = Len(u[2]) + 3
      BY <1>4, UnitBytes, UnitShape
    <3>2. Len(u[2]) \in Nat
      BY <3>1, LenProperties
    <3> QED
      BY <3>1, <3>2
  <2>2. b = u[3] /\ u[3] \in Finals
    BY <1>4, <2>1, UnitBytes
  <2>3. p.mode = "csi" /\ p.params = SubSeq(u[2], 1, Len(u[2]))
    BY <1>4, <2>1 DEF InUnit
  <2>4. SubSeq(u[2], 1, Len(u[2])) = u[2]
    BY <2>1, SubSeqFull
  <2>5. b \notin NotFinal
    BY <2>2 DEF NotFinal, Finals, Controls, Params
  <2>6. q = At(ApplyCSI(p.screen, u[2], u[3]), "ground", <<>>)
    BY <2>2, <2>3, <2>4, <2>5 DEF Step
  <2>7. After(p.screen, u) = ApplyCSI(p.screen, u[2], u[3])
    BY <1>4 DEF After
  <2> QED
    BY <2>6, <2>7, AtParts
<1> QED
  BY <1>1, <1>2, <1>3, <1>4, UnitShape

-----------------------------------------------------------------------------
(* The steps of the pump.                                                  *)

(* A unit is written in tokens, NoUnit without any.                        *)
LEMMA BytesAreTokens ==
  ASSUME NEW u \in Units \cup {NoUnit}
  PROVE  /\ Bytes(u) \in Seq(Tokens) /\ Len(Bytes(u)) \in Nat
         /\ \A i \in 1 .. Len(Bytes(u)) : Bytes(u)[i] \in Tokens
         /\ u = NoUnit => Len(Bytes(u)) = 0
<1>1. Bytes(NoUnit) = <<>> /\ NoUnit[1] = "text"
  BY DEF Bytes, NoUnit, Text
<1>2. Bytes(u) \in Seq(Tokens)
  <2>1. CASE u = NoUnit
    BY <1>1, <2>1
  <2>2. CASE u \in Units /\ u[1] = "text"
    BY <2>2, TextBytes
  <2>3. CASE u \in Units /\ u[1] # "text"
    BY <2>3, UnitBytes
  <2> QED
    BY <2>1, <2>2, <2>3
<1> QED
  BY <1>1, <1>2, ElementOfSeq, LenProperties

(* What a batch leaves on the screen is what its parser ends with.         *)
LEMMA FeedIsEnd ==
  ASSUME NEW s, NEW bytes
  PROVE  Feed(s, bytes) = End(s, bytes).screen
BY DEF Feed, End

(* The unit, the screen and the reference stay what they are.  The code    *)
(* has no types for them: its bounds checks are what this rests on.        *)
THEOREM ScreenTypes == Spec => []TypeOK
<1>1. Init => TypeOK
  <2> SUFFICES ASSUME Init PROVE TypeOK
    OBVIOUS
  <2>1. IsScreen(Reset) /\ IsRef(RefReset)
    BY ResetInk, ShowsReset
  <2>2. Len(Bytes(NoUnit)) = 0 /\ <<>> \in Seq(Tokens) /\ MaxUnits \in Nat
    BY BytesAreTokens, BoundsAssumption
  <2>3. /\ screen = Reset /\ ref = RefReset /\ unit = NoUnit /\ done = 0
        /\ batch = <<>> /\ kept = 0 /\ due = {} /\ bad = FALSE /\ units = 0
        /\ stream \in {"stdout", "stderr"} /\ Len(batch) = 0
    BY DEF Init
  <2>4. kept \in 0 .. Len(batch) /\ done \in 0 .. Len(Bytes(unit)) /\ units \in 0 .. MaxUnits
    BY <2>2, <2>3
  <2> QED
    BY <2>1, <2>2, <2>3, <2>4 DEF TypeOK
<1>2. TypeOK /\ [Next]_vars => TypeOK'
  <2> SUFFICES ASSUME TypeOK, [Next]_vars PROVE TypeOK'
    OBVIOUS
  <2>0. /\ Bytes(unit) \in Seq(Tokens) /\ Len(Bytes(unit)) \in Nat
        /\ \A i \in 1 .. Len(Bytes(unit)) : Bytes(unit)[i] \in Tokens
        /\ batch \in Seq(Tokens) /\ Len(batch) \in Nat /\ done \in Nat
        /\ kept \in 0 .. Len(batch)
    BY BytesAreTokens DEF TypeOK
  <2>1. ASSUME NEW u \in Units, Write(u) PROVE TypeOK'
    <3>1. units' \in 0 .. MaxUnits
      BY <2>1, BoundsAssumption DEF Write, TypeOK
    <3>2. Len(Bytes(u)) \in Nat
      BY BytesAreTokens
    <3>3. unit' = u /\ done' = 0 /\ done' \in 0 .. Len(Bytes(unit'))
      BY <2>1, <3>2 DEF Write
    <3>4. UNCHANGED <<stream, batch, kept, due, screen, ref, bad>>
      BY <2>1 DEF Write
    <3> QED
      BY <3>1, <3>3, <3>4 DEF TypeOK
  <2>2. ASSUME Read PROVE TypeOK'
    <3> DEFINE byte == Bytes(unit)[done + 1]
    <3>1. done < Len(Bytes(unit)) /\ byte \in Tokens
      BY <2>0, <2>2 DEF Read
    <3>2. /\ batch' = Append(batch, byte) /\ batch' \in Seq(Tokens)
          /\ Len(batch') = Len(batch) + 1 /\ kept' = kept
      BY <2>0, <2>2, <3>1 DEF Read
    <3>3. unit' \in Units \cup {NoUnit} /\ done' \in 0 .. Len(Bytes(unit'))
      <4>1. CASE done + 1 = Len(Bytes(unit))
        <5>1. unit' = NoUnit /\ done' = 0
          BY <2>2, <4>1 DEF Read
        <5>2. Len(Bytes(NoUnit)) \in Nat
          BY BytesAreTokens
        <5> QED
          BY <5>1, <5>2
      <4>2. CASE done + 1 # Len(Bytes(unit))
        <5>1. unit' = unit /\ done' = done + 1
          BY <2>2, <4>2 DEF Read
        <5> QED
          BY <2>0, <3>1, <4>2, <5>1 DEF TypeOK
      <4> QED
        BY <4>1, <4>2
    <3>4. IsRef(ref')
      <4>0. unit \in Units /\ IsRef(ref)
        BY <3>1, BytesAreTokens DEF TypeOK
      <4>1. CASE unit[1] = "text"
        <5>1. ref' = Type(ref, byte)
          BY <2>2, <4>1 DEF Read
        <5>2. byte \in {"LF", "CR", "TAB", "BS"} \/ byte \notin Controls
          <6>1. byte \in {"LF", "CR", "TAB", "BS", "a", "b", "c"}
            BY <2>0, <3>1, <4>0, <4>1, TextBytes
          <6> HIDE DEF byte
          <6> QED
            BY <6>1 DEF Controls
        <5> QED
          BY <3>1, <4>0, <5>1, <5>2, TypeType
      <4>2. CASE unit[1] # "text"
        <5>1. ref' \in {ref, Obey(ref, unit)}
          BY <2>2, <4>2 DEF Read
        <5> QED
          BY <4>0, <4>2, <5>1, ObeyShows
      <4> QED
        BY <4>1, <4>2
    <3>5. due' \subseteq {"idle", "hard"} /\ bad' \in BOOLEAN
      BY <2>2 DEF Read, TypeOK
    <3>6. UNCHANGED <<stream, screen, units>>
      BY <2>2 DEF Read
    <3>7. kept' \in 0 .. Len(batch')
      BY <2>0, <3>2
    <3> QED
      BY <3>2, <3>3, <3>4, <3>5, <3>6, <3>7 DEF TypeOK
  <2>3. ASSUME Flush PROVE TypeOK'
    <3> DEFINE after == Feed(Base, batch)
    <3>1. PICK timer \in due : FlushOf(Base, timer)
      BY <2>3 DEF Flush
    <3>2. IsScreen(after)
      <4>1. IsScreen(Base)
        BY ResetInk DEF Base, TypeOK
      <4> QED
        BY <2>0, <4>1, EndType, FeedIsEnd
    <3>3. screen' \in {screen, after} /\ ref' \in {ref, RefReset}
      BY <3>1 DEF FlushOf
    <3>4. IsScreen(screen') /\ IsRef(ref')
      BY <3>2, <3>3, ShowsReset DEF TypeOK
    <3>5. \/ batch' = batch /\ kept' = Len(batch) /\ due' \subseteq due
          \/ batch' = <<>> /\ kept' = 0 /\ due' = {}
      BY <3>1 DEF FlushOf
    <3>6. /\ batch' \in Seq(Tokens) /\ kept' \in 0 .. Len(batch')
          /\ due' \subseteq {"idle", "hard"}
      <4>1. <<>> \in Seq(Tokens) /\ Len(<<>>) = 0 /\ due \subseteq {"idle", "hard"}
        BY DEF TypeOK
      <4>2. CASE batch' = batch /\ kept' = Len(batch) /\ due' \subseteq due
        BY <2>0, <4>1, <4>2
      <4>3. CASE batch' = <<>> /\ kept' = 0 /\ due' = {}
        BY <4>1, <4>3
      <4> QED
        BY <3>5, <4>2, <4>3
    <3>7. bad' \in BOOLEAN
      BY <3>1 DEF FlushOf, TypeOK, Again, Cut
    <3>8. UNCHANGED <<stream, unit, done, units>>
      BY <3>1 DEF FlushOf
    <3> QED
      BY <3>4, <3>6, <3>7, <3>8 DEF TypeOK
  <2>4. ASSUME UNCHANGED vars PROVE TypeOK'
    BY <2>4 DEF vars, TypeOK
  <2> QED
    BY <2>1, <2>2, <2>3, <2>4 DEF Next
<1> QED
  BY <1>1, <1>2, PTL DEF Spec

-----------------------------------------------------------------------------
(* The inductive invariant.  Whole: what was read of the sequence is still *)
(* in the batch, so that the parser is inside of it.                       *)

Whole == unit[1] # "text" /\ done > 0 /\ Len(batch) >= done

Reader == End(Base, batch)

Unread == unit # NoUnit => done < Len(Bytes(unit))
ReaderInUnit == IF Whole THEN InUnit(Reader, unit, done) ELSE Reader.mode = "ground"
CutIsBad == Cut /\ ~Whole => bad
ReaderShows == bad \/ Again \/ Shows(Reader.screen, ref)

Followed == Unread /\ ReaderInUnit /\ CutIsBad /\ ReaderShows

(* It holds at the start: nothing was read.                                *)
LEMMA StartFollowed == Init => Followed
<1> SUFFICES ASSUME Init PROVE Followed
  OBVIOUS
<1>1. /\ unit = NoUnit /\ unit[1] = "text" /\ batch = <<>> /\ ref = RefReset
      /\ Base = Reset
  BY DEF Init, NoUnit, Text, Base
<1>2. Reader = At(Reset, "ground", <<>>)
  BY <1>1, EndEmpty DEF Reader
<1>3. Reader.mode = "ground" /\ Reader.screen = Reset
  BY <1>2, AtParts
<1>4. Shows(Reader.screen, ref)
  BY <1>1, <1>3, ShowsReset
<1> QED
  BY <1>1, <1>3, <1>4
     DEF Followed, Unread, ReaderInUnit, CutIsBad, ReaderShows, Whole, Cut

(* The worker writes a unit only when all of the last one was read.        *)
LEMMA WriteFollowed ==
  ASSUME TypeOK, Followed, NEW u \in Units, Write(u)
  PROVE  Followed'
<1>1. /\ unit' = u /\ done' = 0 /\ done = Len(Bytes(unit))
      /\ UNCHANGED <<stream, batch, kept, screen, ref, bad>>
  BY DEF Write
<1>2. Reader' = Reader /\ (Again <=> Again')
  BY <1>1 DEF Reader, Base, Again
<1>3. unit = NoUnit /\ unit[1] = "text"
  <2>1. done \in Nat
    BY BytesAreTokens DEF TypeOK
  <2>2. unit = NoUnit
    BY <1>1, <2>1 DEF Followed, Unread
  <2>3. NoUnit[1] = "text"
    BY DEF NoUnit, Text
  <2> QED
    BY <2>2, <2>3
<1>4. Reader.mode = "ground"
  BY <1>3 DEF Followed, ReaderInUnit, Whole
<1>5. 0 < Len(Bytes(u))
  BY TextBytes, UnitBytes
<1> QED
  BY <1>1, <1>2, <1>4, <1>5
     DEF Followed, Unread, ReaderInUnit, CutIsBad, ReaderShows, Whole, Cut

(* A byte read: of a text, inside of a sequence, its last one, or one of a *)
(* sequence whose beginning was flushed.                                   *)
LEMMA ReadFollowed ==
  ASSUME TypeOK, Followed, Read
  PROVE  Followed'
<1> DEFINE byte == Bytes(unit)[done + 1]
           last == done + 1 = Len(Bytes(unit))
           p == Reader
           q == Step(p, byte)
<1>1. /\ batch \in Seq(Tokens) /\ Len(batch) \in Nat /\ done \in Nat
      /\ kept \in 0 .. Len(batch) /\ unit \in Units \cup {NoUnit}
      /\ Len(Bytes(unit)) \in Nat /\ done < Len(Bytes(unit)) /\ byte \in Tokens
  BY BytesAreTokens DEF TypeOK, Read
<1>2. unit \in Units
  BY <1>1, BytesAreTokens
<1>3. /\ batch' = Append(batch, byte) /\ Len(batch') = Len(batch) + 1
      /\ unit' = IF last THEN NoUnit ELSE unit
      /\ done' = IF last THEN 0 ELSE done + 1
      /\ ref' = IF unit[1] = "text" THEN Type(ref, byte)
                ELSE IF last THEN Obey(ref, unit) ELSE ref
      /\ bad' = IF last /\ Clears(unit) /\ Len(batch') > done THEN FALSE
                ELSE bad \/ (last /\ ErasesBelow(unit) /\ Gap(ref))
      /\ UNCHANGED <<stream, kept, screen>>
  BY <1>1 DEF Read
<1>4. Reader' = q
  BY <1>1, <1>3, EndAppend DEF Reader, Base
<1>5. Again <=> Again'
  <2>1. SubSeq(batch', 1, kept') = SubSeq(batch, 1, kept)
    BY <1>1, <1>3
  <2> QED
    BY <1>3, <2>1 DEF Again
<1>6. IsScreen(p.screen) /\ IsRef(ref)
  <2>1. IsScreen(Base)
    BY ResetInk DEF Base, TypeOK
  <2> QED
    BY <1>1, <2>1, EndType DEF Reader, TypeOK
<1>7. Unread'
  BY <1>1, <1>3 DEF Unread
<1>8. /\ Whole => InUnit(p, unit, done)
      /\ ~Whole => p.mode = "ground"
      /\ Cut /\ ~Whole => bad
      /\ bad \/ Again \/ Shows(p.screen, ref)
  BY DEF Followed, ReaderInUnit, CutIsBad, ReaderShows
<1>9. NoUnit[1] = "text"
  BY DEF NoUnit, Text
<1> HIDE DEF p, q, byte
<1>10. ASSUME unit[1] = "text" PROVE Followed'
  <2>1. byte \in {"LF", "CR", "TAB", "BS", "a", "b", "c"}
    BY <1>1, <1>2, <1>10, TextBytes DEF byte
  <2>2. byte \notin {"ESC", "hi"}
    BY <2>1
  <2>3. p.mode = "ground"
    BY <1>8, <1>10 DEF Whole
  <2>4. q.mode = "ground" /\ q.screen = Ground(p.screen, byte)
    BY <2>2, <2>3, StepGround DEF q
  <2>5. bad' = bad /\ ref' = Type(ref, byte)
    <3>1. ~Clears(unit) /\ ~ErasesBelow(unit)
      BY <1>10 DEF Clears, ErasesBelow
    <3>2. bad \in BOOLEAN
      BY DEF TypeOK
    <3> QED
      BY <1>3, <1>10, <3>1, <3>2
  <2>6. ~Whole' /\ ~Cut'
    BY <1>3, <1>9, <1>10 DEF Whole, Cut
  <2>7. Shows(p.screen, ref) => Shows(q.screen, ref')
    <3>1. \/ byte \in {"LF", "CR", "TAB", "BS"}
          \/ byte \notin Controls \cup {Blank}
      BY <2>1 DEF Controls, Blank
    <3> QED
      BY <1>1, <1>6, <2>4, <2>5, <3>1, TypeShows
  <2> QED
    BY <1>4, <1>5, <1>7, <1>8, <2>4, <2>5, <2>6, <2>7
       DEF Followed, ReaderInUnit, CutIsBad, ReaderShows
<1>11. ASSUME unit[1] # "text", InUnit(p, unit, done), ~last, Len(batch) >= done
       PROVE  Followed'
  <2>1. InUnit(q, unit, done + 1) /\ q.screen = p.screen
    <3>1. done + 1 < Len(Bytes(unit))
      BY <1>1, <1>11
    <3> QED
      BY <1>1, <1>2, <1>11, <3>1, StepInside DEF q, byte
  <2>2. unit' = unit /\ done' = done + 1 /\ ref' = ref /\ (bad <=> bad')
    BY <1>3, <1>11
  <2>3. Whole'
    BY <1>1, <1>3, <1>11, <2>2 DEF Whole
  <2> QED
    BY <1>4, <1>5, <1>7, <1>8, <2>1, <2>2, <2>3
       DEF Followed, ReaderInUnit, CutIsBad, ReaderShows
<1>12. ASSUME unit[1] # "text", InUnit(p, unit, done), last, Len(batch) >= done
       PROVE  Followed'
  <2>1. q.mode = "ground" /\ q.screen = After(p.screen, unit)
    BY <1>1, <1>2, <1>12, StepLast DEF q, byte
  <2>2. unit' = NoUnit /\ done' = 0 /\ ref' = Obey(ref, unit)
    BY <1>3, <1>12
  <2>3. ~Whole' /\ ~Cut'
    BY <1>9, <2>2 DEF Whole, Cut
  <2>4. ReaderShows'
    <3>1. CASE Clears(unit)
      <4>1. q.screen = Reset /\ ref' = RefReset
        BY <1>2, <2>1, <2>2, <3>1, ClearsBoth
      <4> QED
        BY <1>4, <4>1, ShowsReset DEF ReaderShows
    <3>2. CASE ~Clears(unit)
      <4>1. bad' <=> bad \/ (ErasesBelow(unit) /\ Gap(ref))
        BY <1>3, <1>12, <3>2
      <4>2. Shows(p.screen, ref) /\ ~(ErasesBelow(unit) /\ Gap(ref)) =>
              Shows(q.screen, ref')
        BY <1>2, <1>6, <1>12, <2>1, <2>2, ObeyShows
      <4> QED
        BY <1>4, <1>5, <1>8, <4>1, <4>2 DEF ReaderShows
    <3> QED
      BY <3>1, <3>2
  <2> QED
    BY <1>4, <1>7, <2>1, <2>3, <2>4 DEF Followed, ReaderInUnit, CutIsBad
<1>13. ASSUME unit[1] # "text", done > 0, ~Whole PROVE Followed'
  <2>1. Len(batch) < done /\ bad
    BY <1>1, <1>8, <1>13 DEF Whole, Cut
  <2>2. byte \notin {"ESC", "hi"}
    <3>1. done + 1 \in 2 .. Len(Bytes(unit))
      BY <1>1, <1>13
    <3> QED
      BY <1>2, <1>13, <3>1, UnitBytes DEF byte
  <2>3. q.mode = "ground"
    BY <1>8, <1>13, <2>2, StepGround DEF q
  <2>4. bad'
    <3>1. ~(Len(batch') > done)
      BY <1>1, <1>3, <2>1
    <3>2. bad' = (bad \/ (last /\ ErasesBelow(unit) /\ Gap(ref)))
      BY <1>3, <3>1
    <3> QED
      BY <2>1, <3>2
  <2>5. ~Whole'
    <3>1. CASE last
      BY <1>3, <1>9, <3>1 DEF Whole
    <3>2. CASE ~last
      BY <1>1, <1>3, <2>1, <3>2 DEF Whole
    <3> QED
      BY <3>1, <3>2
  <2> QED
    BY <1>4, <1>7, <2>3, <2>4, <2>5
       DEF Followed, ReaderInUnit, CutIsBad, ReaderShows
<1>14. ASSUME unit[1] # "text", done = 0
       PROVE  InUnit(p, unit, done) /\ Len(batch) >= done
  BY <1>1, <1>8, <1>14 DEF Whole, InUnit
<1>15. ASSUME Whole PROVE InUnit(p, unit, done) /\ Len(batch) >= done
  BY <1>8, <1>15 DEF Whole
<1> QED
  BY <1>1, <1>10, <1>11, <1>12, <1>13, <1>14, <1>15

(* A flush that keeps the batch, or one that sends it.                     *)
LEMMA FlushFollowed ==
  ASSUME TypeOK, Followed, Flush
  PROVE  Followed'
<1> DEFINE after == Feed(Base, batch)
<1>1. PICK timer \in due : FlushOf(Base, timer)
  BY DEF Flush
<1>2. /\ UNCHANGED <<stream, unit, done>>
      /\ screen' = IF stream = "stdout" THEN after ELSE screen
      /\ after = Reader.screen
  BY <1>1, FeedIsEnd DEF FlushOf, Reader
<1>3. \/ /\ kept' = Len(batch) /\ bad' = (bad \/ Again) /\ UNCHANGED <<batch, ref>>
      \/ /\ batch' = <<>> /\ kept' = 0
         /\ bad' = (Cut \/ (stream = "stdout" /\ (bad \/ Again)))
         /\ ref' = IF stream = "stdout" THEN ref ELSE RefReset
  BY <1>1 DEF FlushOf
<1>4. /\ batch \in Seq(Tokens) /\ Len(batch) \in Nat /\ done \in Nat
      /\ stream \in {"stdout", "stderr"}
  BY BytesAreTokens DEF TypeOK
<1>5. /\ Whole => InUnit(Reader, unit, done)
      /\ ~Whole => Reader.mode = "ground"
      /\ Cut /\ ~Whole => bad
      /\ bad \/ Again \/ Shows(Reader.screen, ref)
  BY DEF Followed, ReaderInUnit, CutIsBad, ReaderShows
<1>6. Unread'
  BY <1>2 DEF Followed, Unread
<1> HIDE DEF after
<1>7. CASE kept' = Len(batch) /\ bad' = (bad \/ Again) /\ UNCHANGED <<batch, ref>>
  <2>1. Reader' = End(Base', batch)
    BY <1>7 DEF Reader
  <2>2. Reader'.mode = Reader.mode /\ Reader'.params = Reader.params
    BY <1>4, <2>1, EndAlone DEF Reader, Same
  <2>3. Whole' <=> Whole
    BY <1>2, <1>7 DEF Whole
  <2>4. ReaderInUnit'
    BY <1>2, <1>5, <2>2, <2>3 DEF ReaderInUnit, InUnit
  <2>5. CutIsBad'
    BY <1>2, <1>5, <1>7, <2>3 DEF CutIsBad, Cut
  <2>6. ASSUME ~bad', ~Again' PROVE Shows(Reader'.screen, ref')
    <3>1. Reader'.screen = Reader.screen
      <4>1. CASE stream = "stdout"
        <5>1. Feed(screen', SubSeq(batch, 1, Len(batch))) = screen'
          BY <1>2, <1>7, <2>6, <4>1 DEF Again
        <5>2. Feed(screen', batch) = screen'
          BY <1>4, <5>1, SubSeqFull
        <5>3. Base' = screen'
          BY <1>2, <4>1 DEF Base
        <5> QED
          BY <1>2, <2>1, <4>1, <5>2, <5>3, FeedIsEnd
      <4>2. CASE stream = "stderr"
        BY <1>2, <2>1, <4>2 DEF Reader, Base
      <4> QED
        BY <1>4, <4>1, <4>2
    <3> QED
      BY <1>5, <1>7, <2>6, <3>1
  <2> QED
    BY <1>6, <2>4, <2>5, <2>6 DEF Followed, ReaderShows
<1>8. CASE /\ batch' = <<>> /\ kept' = 0
           /\ bad' = (Cut \/ (stream = "stdout" /\ (bad \/ Again)))
           /\ ref' = IF stream = "stdout" THEN ref ELSE RefReset
  <2>1. Reader' = At(Base', "ground", <<>>)
    BY <1>8, EndEmpty DEF Reader
  <2>2. Reader'.mode = "ground" /\ Reader'.screen = Base'
    BY <2>1, AtParts
  <2>3. ~Whole'
    <3>1. Len(batch') = 0
      BY <1>8
    <3> QED
      BY <1>2, <1>4, <3>1 DEF Whole
  <2>4. CutIsBad'
    BY <1>2, <1>8 DEF CutIsBad, Cut
  <2>5. ReaderShows'
    <3>1. CASE stream = "stdout"
      <4>1. Base' = Reader.screen
        BY <1>2, <3>1 DEF Base
      <4> QED
        BY <1>5, <1>8, <2>2, <3>1, <4>1 DEF ReaderShows
    <3>2. CASE stream = "stderr"
      <4>1. Base' = Reset /\ ref' = RefReset
        BY <1>2, <1>8, <3>2 DEF Base
      <4> QED
        BY <2>2, <4>1, ShowsReset DEF ReaderShows
    <3> QED
      BY <1>4, <3>1, <3>2
  <2> QED
    BY <1>6, <2>2, <2>3, <2>4, <2>5 DEF Followed, ReaderInUnit
<1> QED
  BY <1>3, <1>7, <1>8

-----------------------------------------------------------------------------
(* From the cells to the lines that are sent.                              *)

(* A set of numbers up to n has a greatest one.                            *)
LEMMA Greatest ==
  ASSUME NEW n \in Nat, NEW S \in SUBSET (1 .. n), S # {}
  PROVE  Max(S) \in S /\ \A y \in S : Max(S) >= y
<1> DEFINE T == {k \in Nat : \A X \in SUBSET (1 .. k) :
                    X # {} => \E m \in X : \A y \in X : m >= y}
<1>1. 0 \in T
  <2>1. 1 .. 0 = {}
    OBVIOUS
  <2>2. \A X \in SUBSET {} : X = {}
    OBVIOUS
  <2> QED
    BY <2>1, <2>2
<1>2. ASSUME NEW k \in T PROVE k + 1 \in T
  <2>1. k \in Nat
    OBVIOUS
  <2>2. ASSUME NEW X \in SUBSET (1 .. k + 1), X # {}
        PROVE  \E m \in X : \A y \in X : m >= y
    <3>1. CASE k + 1 \in X
      BY <2>1, <3>1
    <3>2. CASE k + 1 \notin X
      <4>1. X \in SUBSET (1 .. k)
        BY <2>1, <3>2
      <4> QED
        BY <2>2, <4>1
    <3> QED
      BY <3>1, <3>2
  <2> QED
    BY <2>1, <2>2
<1>3. T \in SUBSET Nat
  OBVIOUS
<1> HIDE DEF T
<1>4. n \in T
  BY <1>1, <1>2, <1>3, NatSetInduction
<1>5. \E m \in S : \A y \in S : m >= y
  BY <1>4 DEF T
<1> QED
  BY <1>5 DEF Max

(* The rows with a character are the same, and so is what is in them.      *)
LEMMA SameLines ==
  ASSUME NEW s, IsScreen(s), NEW g, IsRef(g), Shows(s, g)
  PROVE  Lines(s) = RefLines(g)
<1> DEFINE ink(r) == {i \in DOMAIN s.rows[r] : s.rows[r][i] # Blank}
           in(r) == {x \in g.cells : x[1] = r}
           ch(r, c) == {x[3] : x \in {y \in in(r) : y[2] = c}}
           R == {k \in DOMAIN s.rows : ink(k) # {}}
           cols(r) == {x[2] + 1 : x \in in(r)}
           Cells(r, M) == [i \in 1 .. M |-> IF ch(r, i - 1) = {} THEN Blank
                                            ELSE CHOOSE b \in ch(r, i - 1) : TRUE]
<1>1. Lines(s) = [r \in R |-> SubSeq(s.rows[r], 1, Max(ink(r)))]
  BY DEF Lines
<1>2. RefLines(g) = [r \in {x[1] : x \in g.cells} |-> Cells(r, Max(cols(r)))]
  BY DEF RefLines
<1>3. \A x \in g.cells : /\ x = <<x[1], x[2], x[3]>>
                         /\ x[1] \in Nat /\ x[2] \in Nat /\ x[3] \in Tokens
  BY RefFacts
<1>4. ASSUME NEW r \in DOMAIN s.rows
      PROVE  /\ r \in Nat /\ s.rows[r] \in Seq(Tokens) /\ Len(s.rows[r]) \in Nat
             /\ DOMAIN s.rows[r] = 1 .. Len(s.rows[r])
             /\ \A i \in 1 .. Len(s.rows[r]) : s.rows[r][i] \in Tokens
  <2>1. r \in Nat /\ s.rows[r] \in Seq(Tokens)
    BY DEF IsScreen
  <2> QED
    BY <2>1, ElementOfSeq, LenProperties
<1>5. ASSUME NEW r \in DOMAIN s.rows, NEW i \in DOMAIN s.rows[r], s.rows[r][i] # Blank
      PROVE  <<r, i - 1, s.rows[r][i]>> \in g.cells
  <2>1. /\ r \in Nat /\ i - 1 \in Nat /\ (i - 1) + 1 = i /\ s.rows[r][i] \in Tokens
    BY <1>4
  <2>2. Glyph(s, r, i - 1) = s.rows[r][i]
    BY <2>1 DEF Glyph, Ink
  <2> QED
    BY <1>5, <2>1, <2>2 DEF Shows
<1>6. ASSUME NEW x \in g.cells
      PROVE  /\ x[1] \in DOMAIN s.rows /\ x[2] + 1 \in DOMAIN s.rows[x[1]]
             /\ s.rows[x[1]][x[2] + 1] = x[3] /\ x[3] # Blank
  <2>1. x[3] # Blank /\ Glyph(s, x[1], x[2]) = x[3]
    BY <1>3 DEF Shows
  <2> QED
    BY <2>1 DEF Glyph, Ink
<1>7. R = {x[1] : x \in g.cells}
  <2>1. ASSUME NEW r \in R PROVE r \in {x[1] : x \in g.cells}
    <3>1. PICK i \in DOMAIN s.rows[r] : s.rows[r][i] # Blank
      OBVIOUS
    <3>2. <<r, i - 1, s.rows[r][i]>> \in g.cells
      BY <1>5, <3>1
    <3> QED
      BY <3>2
  <2>2. ASSUME NEW x \in g.cells PROVE x[1] \in R
    BY <1>6
  <2> QED
    BY <2>1, <2>2
<1>8. ASSUME NEW r \in R
      PROVE  SubSeq(s.rows[r], 1, Max(ink(r))) = Cells(r, Max(cols(r)))
  <2> DEFINE row == s.rows[r]
             M == Max(ink(r))
  <2>1. /\ r \in DOMAIN s.rows /\ r \in Nat /\ row \in Seq(Tokens)
        /\ Len(row) \in Nat /\ DOMAIN row = 1 .. Len(row)
        /\ \A i \in 1 .. Len(row) : row[i] \in Tokens
    BY <1>4
  <2>2. cols(r) = ink(r)
    <3>1. ASSUME NEW i \in ink(r) PROVE i \in cols(r)
      <4>1. <<r, i - 1, row[i]>> \in in(r)
        BY <1>5, <2>1
      <4>2. (i - 1) + 1 = i
        BY <2>1
      <4> QED
        BY <4>1, <4>2
    <3>2. ASSUME NEW x \in in(r) PROVE x[2] + 1 \in ink(r)
      BY <1>6
    <3> QED
      BY <3>1, <3>2
  <2>3. M \in ink(r)
    <3>1. ink(r) \in SUBSET (1 .. Len(row)) /\ ink(r) # {}
      BY <2>1
    <3> HIDE DEF ink
    <3> QED
      BY <2>1, <3>1, Greatest
  <2>4. M \in 1 .. Len(row)
    BY <2>1, <2>3
  <2> HIDE DEF M
  <2>5. ASSUME NEW i \in 1 .. M
        PROVE  (IF ch(r, i - 1) = {} THEN Blank
                ELSE CHOOSE b \in ch(r, i - 1) : TRUE) = row[i]
    <3>1. i \in DOMAIN row /\ (i - 1) + 1 = i /\ i \in Nat
      BY <2>1, <2>4
    <3>2. ASSUME NEW b \in ch(r, i - 1) PROVE b = row[i] /\ b # Blank
      <4>1. PICK x \in g.cells : x[1] = r /\ x[2] = i - 1 /\ b = x[3]
        BY <3>2
      <4> QED
        BY <1>6, <3>1, <4>1
    <3>3. CASE row[i] = Blank
      <4>1. ch(r, i - 1) = {}
        BY <3>2, <3>3
      <4> QED
        BY <3>3, <4>1
    <3>4. CASE row[i] # Blank
      <4>1. <<r, i - 1, row[i]>> \in g.cells
        BY <1>5, <2>1, <3>1, <3>4
      <4>2. row[i] \in ch(r, i - 1)
        <5> DEFINE y == <<r, i - 1, row[i]>>
        <5>1. y \in in(r) /\ y[2] = i - 1 /\ y[3] = row[i]
          BY <4>1
        <5> HIDE DEF y, in
        <5> QED
          BY <5>1
      <4>3. ch(r, i - 1) = {row[i]}
        <5> HIDE DEF ch
        <5> QED
          BY <3>2, <4>2
      <4> HIDE DEF ch
      <4> QED
        BY <4>3
    <3> QED
      BY <3>3, <3>4
  <2>6. SubSeq(row, 1, M) = [i \in 1 .. M |-> row[i]]
    <3> DEFINE piece == SubSeq(row, 1, M)
    <3>1. /\ piece \in Seq(Tokens) /\ Len(piece) = M
          /\ \A i \in 1 .. M : piece[i] = row[i]
      <4>1. M \in 0 .. Len(row)
        BY <2>1, <2>4
      <4> QED
        BY <2>1, <4>1, PieceInk
    <3> HIDE DEF piece, row
    <3>2. piece \in [1 .. M -> Tokens]
      BY <3>1, LenProperties
    <3>3. piece = [i \in 1 .. M |-> row[i]]
      BY <3>1, <3>2
    <3> QED
      BY <3>3 DEF piece
  <2> HIDE DEF ch, row, ink, cols
  <2>7. SubSeq(row, 1, M) = Cells(r, M)
    BY <2>5, <2>6
  <2> QED
    BY <2>2, <2>7 DEF M, row
<1> HIDE DEF ink, Cells, cols, R
<1> QED
  BY <1>1, <1>2, <1>7, <1>8

(* Whenever a flush comes, the picture that it sends is what the worker    *)
(* has drawn, each sequence obeyed once, wherever the batches were cut;    *)
(* except after what PictureIsTheStream names.                             *)
THEOREM PictureKept == Spec => []PictureIsTheStream
<1>1. TypeOK /\ Followed /\ [Next]_vars => Followed'
  <2> SUFFICES ASSUME TypeOK, Followed, [Next]_vars PROVE Followed'
    OBVIOUS
  <2>1. ASSUME NEW u \in Units, Write(u) PROVE Followed'
    BY <2>1, WriteFollowed
  <2>2. ASSUME Read PROVE Followed'
    BY <2>2, ReadFollowed
  <2>3. ASSUME Flush PROVE Followed'
    BY <2>3, FlushFollowed
  <2>4. ASSUME UNCHANGED vars PROVE Followed'
    BY <2>4 DEF vars, Followed, Unread, ReaderInUnit, CutIsBad, ReaderShows,
                Whole, Cut, Again, Reader, Base, InUnit
  <2> QED
    BY <2>1, <2>2, <2>3, <2>4 DEF Next
<1>2. TypeOK /\ Followed => PictureIsTheStream
  <2> SUFFICES ASSUME TypeOK, Followed, ~bad, ~Again
               PROVE  Lines(Rendered) = RefLines(ref)
    BY DEF PictureIsTheStream
  <2>1. Rendered = Reader.screen
    BY FeedIsEnd DEF Rendered, Reader
  <2>2. Shows(Rendered, ref)
    BY <2>1 DEF Followed, ReaderShows
  <2>3. IsScreen(Rendered)
    <3>1. IsScreen(Base) /\ batch \in Seq(Tokens)
      BY ResetInk DEF Base, TypeOK
    <3> QED
      BY <2>1, <3>1, EndType DEF Reader
  <2> QED
    BY <2>2, <2>3, SameLines DEF TypeOK
<1> QED
  BY <1>1, <1>2, StartFollowed, ScreenTypes, PTL DEF Spec
=============================================================================
