------------------------------ MODULE AnsiCells ------------------------------
(***************************************************************************)
(* Lemmas about the operators of AnsiScreen.                               *)
(*                                                                         *)
(* The parser reads a byte at a time: a batch read on is the same as a     *)
(* longer batch (EndAppend), and where it is in a sequence does not depend *)
(* on the screen (EndAlone).  Each operation of the screen, and each of    *)
(* the reference, is described by the cells that it changes; the lines of  *)
(* the screen, ragged or missing, do not matter any more after that.       *)
(***************************************************************************)
EXTENDS AnsiScreen, SequenceTheorems, WellFoundedInduction, TLAPS

(* Induction, for a set of numbers: one that holds 0, and with every       *)
(* number the next, holds all; or there were a least one missing.          *)
LEMMA NatSetInduction ==
  ASSUME NEW T \in SUBSET Nat, 0 \in T, \A n \in T : n + 1 \in T
  PROVE  \A n \in Nat : n \in T
<1> DEFINE R == OpToRel(<, Nat)
<1>1. IsWellFoundedOn(R, Nat)
  BY NatLessThanWellFounded
<1>2. \A x, y \in Nat : <<x, y>> \in R <=> x < y
  BY DEF OpToRel
<1> HIDE DEF R
<1>3. SUFFICES ASSUME Nat \ T # {} PROVE FALSE
  OBVIOUS
<1>4. PICK x \in Nat \ T : \A y \in Nat \ T : ~(<<y, x>> \in R)
  BY <1>1, <1>3, WFMin, Zenon
<1>5. x - 1 \in Nat /\ x - 1 < x
  BY <1>4
<1>6. <<x - 1, x>> \in R
  BY <1>2, <1>4, <1>5, Zenon
<1>7. x - 1 \in T
  BY <1>4, <1>5, <1>6, Zenon
<1>8. (x - 1) + 1 \in T
  BY <1>7
<1> QED
  BY <1>4, <1>5, <1>8

-----------------------------------------------------------------------------
(* The parser, byte by byte.                                               *)

(* The first n steps on bytes.                                             *)
Steps(s, bytes, n, p) ==
  p = [k \in 0 .. n |-> IF k = 0 THEN At(s, "ground", <<>>)
                                 ELSE Step(p[k - 1], bytes[k])]

(* They exist for every n.                                                 *)
LEMMA StepsExist ==
  ASSUME NEW s, NEW bytes
  PROVE  \A n \in Nat : \E p : Steps(s, bytes, n, p)
<1> DEFINE T == {n \in Nat : \E p : Steps(s, bytes, n, p)}
<1>1. 0 \in T
  <2> DEFINE p == [k \in 0 .. 0 |-> At(s, "ground", <<>>)]
  <2>1. Steps(s, bytes, 0, p)
    BY DEF Steps
  <2> QED
    BY <2>1
<1>2. ASSUME NEW n \in T PROVE n + 1 \in T
  <2>0. n \in Nat
    BY <1>2
  <2>1. PICK p : Steps(s, bytes, n, p)
    BY <1>2
  <2> DEFINE q == [k \in 0 .. n + 1 |->
                     IF k = n + 1 THEN Step(p[n], bytes[n + 1]) ELSE p[k]]
  <2>2. /\ p[0] = At(s, "ground", <<>>)
        /\ \A k \in 1 .. n : p[k] = Step(p[k - 1], bytes[k])
    BY <2>0, <2>1 DEF Steps
  <2>3. q[0] = At(s, "ground", <<>>)
    BY <2>0, <2>2
  <2>4. \A k \in 1 .. n + 1 : q[k] = Step(q[k - 1], bytes[k])
    <3> TAKE k \in 1 .. n + 1
    <3>1. CASE k = n + 1
      BY <2>0, <3>1
    <3>2. CASE k # n + 1
      <4>1. k \in 1 .. n /\ k - 1 # n + 1 /\ k - 1 \in 0 .. n + 1
        BY <2>0, <3>2
      <4> QED
        BY <2>2, <3>2, <4>1
    <3> QED
      BY <3>1, <3>2
  <2>5. Steps(s, bytes, n + 1, q)
    <3>1. q = [k \in 0 .. n + 1 |-> q[k]]
      BY Zenon
    <3> HIDE DEF q
    <3>2. ASSUME NEW k \in 0 .. n + 1
          PROVE  q[k] = IF k = 0 THEN At(s, "ground", <<>>)
                                 ELSE Step(q[k - 1], bytes[k])
      <4>1. CASE k = 0
        BY <2>3, <4>1
      <4>2. CASE k \in 1 .. n + 1
        BY <2>4, <4>2
      <4> QED
        BY <2>0, <4>1, <4>2
    <3> QED
      BY <3>1, <3>2 DEF Steps
  <2> QED
    BY <2>0, <2>5
<1>3. T \in SUBSET Nat
  OBVIOUS
<1> HIDE DEF T
<1>4. \A n \in Nat : n \in T
  BY <1>1, <1>2, <1>3, NatSetInduction
<1> QED
  BY <1>4 DEF T

(* So Parse is the function its definition asks for.                       *)
LEMMA ParseSteps ==
  ASSUME NEW s, NEW bytes, Len(bytes) \in Nat
  PROVE  /\ Parse(s, bytes)[0] = At(s, "ground", <<>>)
         /\ \A k \in 1 .. Len(bytes) :
              Parse(s, bytes)[k] = Step(Parse(s, bytes)[k - 1], bytes[k])
<1>1. \E p : Steps(s, bytes, Len(bytes), p)
  BY StepsExist
<1>2. Steps(s, bytes, Len(bytes), Parse(s, bytes))
  BY <1>1 DEF Steps, Parse
<1> QED
  BY <1>2 DEF Steps

(* A step leads to a mode, and which one, with which parameters, does not  *)
(* depend on the screen.                                                   *)
Modes == {"ground", "rune", "esc", "csi", "osc"}
Same(p, q) == p.mode \in Modes /\ p.mode = q.mode /\ p.params = q.params

(* Two parsers that are at the same place are so after the same byte.      *)
LEMMA StepAlone ==
  ASSUME NEW p, NEW q, NEW b, Same(p, q)
  PROVE  Same(Step(p, b), Step(q, b))
<1>1. \A s, m, ps : /\ At(s, m, ps).mode = m /\ At(s, m, ps).params = ps
  BY DEF At
<1>2. \A s, t : Same(OnGround(s, b), OnGround(t, b))
  BY <1>1 DEF OnGround, Same, Modes
<1>3. CASE p.mode = "ground"
  BY <1>2, <1>3 DEF Step, Same, Modes
<1>4. CASE p.mode = "rune"
  BY <1>1, <1>2, <1>4 DEF Step, Same, Modes
<1>5. CASE p.mode = "esc"
  BY <1>1, <1>5 DEF Step, Same, Modes
<1>6. CASE p.mode = "csi"
  BY <1>1, <1>6 DEF Step, Same, Modes
<1>7. CASE p.mode = "osc"
  BY <1>1, <1>7 DEF Step, Same, Modes
<1> QED
  BY <1>3, <1>4, <1>5, <1>6, <1>7 DEF Same, Modes

(* So they are all along a batch, whatever their screens.                  *)
LEMMA ParseAlone ==
  ASSUME NEW s, NEW t, NEW bytes, Len(bytes) \in Nat
  PROVE  \A k \in 0 .. Len(bytes) : Same(Parse(s, bytes)[k], Parse(t, bytes)[k])
<1> DEFINE p == Parse(s, bytes)
           q == Parse(t, bytes)
           T == {k \in Nat : k <= Len(bytes) => Same(p[k], q[k])}
<1>1. /\ p[0] = At(s, "ground", <<>>) /\ q[0] = At(t, "ground", <<>>)
      /\ \A k \in 1 .. Len(bytes) : p[k] = Step(p[k - 1], bytes[k])
      /\ \A k \in 1 .. Len(bytes) : q[k] = Step(q[k - 1], bytes[k])
  BY ParseSteps
<1> HIDE DEF p, q
<1>2. 0 \in T
  BY <1>1 DEF At, Same, Modes
<1>3. ASSUME NEW k \in T PROVE k + 1 \in T
  <2>1. k \in Nat /\ (k <= Len(bytes) => Same(p[k], q[k]))
    BY <1>3
  <2>2. SUFFICES ASSUME k + 1 <= Len(bytes) PROVE Same(p[k + 1], q[k + 1])
    BY <2>1
  <2>3. k + 1 \in 1 .. Len(bytes) /\ (k + 1) - 1 = k /\ k <= Len(bytes)
    BY <2>1, <2>2
  <2>4. p[k + 1] = Step(p[k], bytes[k + 1]) /\ q[k + 1] = Step(q[k], bytes[k + 1])
    BY <1>1, <2>3
  <2> QED
    BY <2>1, <2>3, <2>4, StepAlone
<1>4. T \in SUBSET Nat
  OBVIOUS
<1> HIDE DEF T
<1>5. \A k \in Nat : k \in T
  BY <1>2, <1>3, <1>4, NatSetInduction
<1> QED
  BY <1>5 DEF T, p, q

(* The parser after all of the bytes, and after one more.                  *)
End(s, bytes) == Parse(s, bytes)[Len(bytes)]

(* At the end of a batch the parser is in the same place on any screen.    *)
LEMMA EndAlone ==
  ASSUME NEW s, NEW t, NEW bytes \in Seq(Tokens)
  PROVE  Same(End(s, bytes), End(t, bytes))
BY ParseAlone DEF End

(* No bytes, no change.                                                    *)
LEMMA EndEmpty ==
  ASSUME NEW s
  PROVE  End(s, <<>>) = At(s, "ground", <<>>)
BY ParseSteps DEF End

(* A batch that got one byte more is read one step further.                *)
LEMMA EndAppend ==
  ASSUME NEW s, NEW bytes \in Seq(Tokens), NEW b \in Tokens
  PROVE  End(s, Append(bytes, b)) = Step(End(s, bytes), b)
<1> DEFINE n == Len(bytes)
           longer == Append(bytes, b)
           p == Parse(s, bytes)
           q == Parse(s, longer)
           T == {k \in Nat : k <= n => p[k] = q[k]}
<1>0. /\ n \in Nat /\ Len(longer) = n + 1
      /\ longer[n + 1] = b /\ \A k \in 1 .. n : longer[k] = bytes[k]
  OBVIOUS
<1>1. /\ p[0] = At(s, "ground", <<>>) /\ q[0] = At(s, "ground", <<>>)
      /\ \A k \in 1 .. n : p[k] = Step(p[k - 1], bytes[k])
      /\ \A k \in 1 .. n + 1 : q[k] = Step(q[k - 1], longer[k])
  <2>1. Len(longer) \in Nat
    BY <1>0
  <2>2. /\ q[0] = At(s, "ground", <<>>)
        /\ \A k \in 1 .. Len(longer) : q[k] = Step(q[k - 1], longer[k])
    BY <2>1, ParseSteps, ZenonT(30)
  <2>3. /\ p[0] = At(s, "ground", <<>>)
        /\ \A k \in 1 .. n : p[k] = Step(p[k - 1], bytes[k])
    BY <1>0, ParseSteps, ZenonT(30)
  <2> HIDE DEF p, q, n, longer
  <2> QED
    BY <1>0, <2>2, <2>3
<1> HIDE DEF p, q, n, longer
<1>2. 0 \in T
  BY <1>1
<1>3. ASSUME NEW k \in T PROVE k + 1 \in T
  <2>1. k \in Nat /\ (k <= n => p[k] = q[k])
    BY <1>3
  <2>2. SUFFICES ASSUME k + 1 <= n PROVE p[k + 1] = q[k + 1]
    BY <2>1
  <2>3. /\ k + 1 \in 1 .. n /\ k + 1 \in 1 .. n + 1
        /\ (k + 1) - 1 = k /\ k <= n
    BY <1>0, <2>1, <2>2
  <2> QED
    BY <1>0, <1>1, <2>1, <2>3
<1>4. T \in SUBSET Nat
  OBVIOUS
<1> HIDE DEF T
<1>5. n \in T
  BY <1>0, <1>2, <1>3, <1>4, NatSetInduction
<1>6. p[n] = q[n] /\ q[n + 1] = Step(q[n], b)
  BY <1>0, <1>1, <1>5 DEF T
<1> QED
  BY <1>0, <1>6 DEF End, p, q, n, longer

-----------------------------------------------------------------------------
(* The screen, character by character.                                     *)

(* What a line has in column c, and a screen in row r.                     *)
Ink(line, c) == IF c + 1 \in DOMAIN line THEN line[c + 1] ELSE Blank
Glyph(s, r, c) == IF r \in DOMAIN s.rows THEN Ink(s.rows[r], c) ELSE Blank

(* The cursor goes elsewhere, the rows stay.                               *)
LEMMA ColumnMoves ==
  ASSUME NEW s, IsScreen(s), NEW j \in Nat
  PROVE  LET t == [s EXCEPT !.col = j] IN
           IsScreen(t) /\ t.rows = s.rows /\ t.row = s.row /\ t.col = j
BY DEF IsScreen

(* The same for the row.                                                   *)
LEMMA RowMoves ==
  ASSUME NEW s, IsScreen(s), NEW i \in Nat
  PROVE  LET t == [s EXCEPT !.row = i] IN
           IsScreen(t) /\ t.rows = s.rows /\ t.row = i /\ t.col = s.col
BY DEF IsScreen

(* And for both.                                                           *)
LEMMA CursorMoves ==
  ASSUME NEW s, IsScreen(s), NEW i \in Nat, NEW j \in Nat
  PROVE  LET t == [s EXCEPT !.row = i, !.col = j] IN
           IsScreen(t) /\ t.rows = s.rows /\ t.row = i /\ t.col = j
BY DEF IsScreen

(* The rows change, the cursor stays.                                      *)
LEMMA RowsChange ==
  ASSUME NEW s, IsScreen(s), NEW rows, DOMAIN rows \subseteq Nat,
         rows \in [DOMAIN rows -> Seq(Tokens)]
  PROVE  LET t == [s EXCEPT !.rows = rows] IN
           IsScreen(t) /\ t.rows = rows /\ t.row = s.row /\ t.col = s.col
BY DEF IsScreen

(* A function on the first n numbers is a sequence.                        *)
LEMMA IsLine ==
  ASSUME NEW n \in Nat, NEW f \in [1 .. n -> Tokens]
  PROVE  f \in Seq(Tokens) /\ Len(f) = n /\ DOMAIN f = 1 .. n
<1>1. f \in Seq(Tokens)
  BY SeqDef
<1> QED
  BY <1>1, LenProperties

(* A blank can be printed.                                                 *)
LEMMA BlankIsToken == Blank \in Tokens
BY DEF Tokens

(* n blanks are a line of n characters; none when n is negative.           *)
LEMMA BlanksLine ==
  ASSUME NEW n \in Int
  PROVE  /\ Blanks(n) \in Seq(Tokens)
         /\ Len(Blanks(n)) = IF n > 0 THEN n ELSE 0
         /\ \A i \in 1 .. n : Blanks(n)[i] = Blank
<1> DEFINE m == IF n > 0 THEN n ELSE 0
<1>1. m \in Nat /\ 1 .. n = 1 .. m
  OBVIOUS
<1>2. Blanks(n) \in [1 .. m -> Tokens]
  BY <1>1, BlankIsToken DEF Blanks
<1>3. \A i \in 1 .. n : Blanks(n)[i] = Blank
  BY DEF Blanks
<1> QED
  BY <1>1, <1>2, <1>3, IsLine

(* Line has what the screen has in the row of the cursor, and reaches up   *)
(* to the cursor.                                                          *)
LEMMA LineInk ==
  ASSUME NEW s, IsScreen(s)
  PROVE  /\ Line(s) \in Seq(Tokens) /\ Len(Line(s)) >= s.col
         /\ Len(Line(s)) \in Nat /\ DOMAIN Line(s) = 1 .. Len(Line(s))
         /\ \A c \in Nat : Ink(Line(s), c) = Glyph(s, s.row, c)
<1> DEFINE line == IF s.row \in DOMAIN s.rows THEN s.rows[s.row] ELSE <<>>
           n == s.col - Len(line)
<1>1. line \in Seq(Tokens) /\ s.col \in Nat
  <2>1. <<>> \in Seq(Tokens)
    OBVIOUS
  <2> QED
    BY <2>1 DEF IsScreen
<1>2. Len(line) \in Nat /\ n \in Int /\ DOMAIN line = 1 .. Len(line)
  BY <1>1, LenProperties
<1>3. /\ Line(s) \in Seq(Tokens)
      /\ Len(Line(s)) = Len(line) + Len(Blanks(n))
      /\ \A i \in 1 .. Len(line) + Len(Blanks(n)) :
           Line(s)[i] = IF i <= Len(line) THEN line[i] ELSE Blanks(n)[i - Len(line)]
  <2>1. Line(s) = line \o Blanks(n)
    BY DEF Line
  <2>2. Blanks(n) \in Seq(Tokens)
    BY <1>2, BlanksLine
  <2> HIDE DEF line, n
  <2> QED
    BY <1>1, <2>1, <2>2, ConcatProperties, ZenonT(30)
<1>4. /\ Len(Blanks(n)) = IF n > 0 THEN n ELSE 0
      /\ \A i \in 1 .. n : Blanks(n)[i] = Blank
  BY <1>2, BlanksLine
<1>5. DOMAIN Line(s) = 1 .. Len(Line(s)) /\ Len(Line(s)) \in Nat
  BY <1>3, LenProperties
<1>6. \A c \in Nat : Glyph(s, s.row, c) = Ink(line, c)
  BY DEF Glyph, Ink
<1> HIDE DEF line
<1>7. ASSUME NEW c \in Nat PROVE Ink(Line(s), c) = Ink(line, c)
  <2>1. CASE c + 1 <= Len(line)
    BY <1>2, <1>3, <1>4, <1>5, <2>1 DEF Ink
  <2>2. CASE c + 1 > Len(line) /\ c + 1 <= Len(Line(s))
    <3>0. Len(Line(s)) > Len(line) /\ Len(Blanks(n)) = n
      <4>1. Len(Blanks(n)) > 0
        BY <1>2, <1>3, <1>4, <2>2
      <4> QED
        BY <1>2, <1>3, <1>4, <4>1
    <3>1. c + 1 - Len(line) \in 1 .. n /\ c + 1 \in 1 .. Len(line) + Len(Blanks(n))
      BY <1>1, <1>2, <1>3, <2>2, <3>0
    <3>2. Line(s)[c + 1] = Blank
      BY <1>2, <1>3, <1>4, <2>2, <3>1
    <3> QED
      BY <1>2, <1>3, <1>4, <1>5, <2>2, <3>2 DEF Ink
  <2>3. CASE c + 1 > Len(Line(s))
    BY <1>2, <1>3, <1>4, <1>5, <2>3 DEF Ink
  <2> QED
    BY <1>2, <1>5, <2>1, <2>2, <2>3
<1> QED
  BY <1>1, <1>2, <1>3, <1>4, <1>5, <1>6, <1>7

(* SetLine changes the row of the cursor.                                  *)
LEMMA SetLineInk ==
  ASSUME NEW s, IsScreen(s), NEW line \in Seq(Tokens)
  PROVE  /\ IsScreen(SetLine(s, line))
         /\ SetLine(s, line).row = s.row /\ SetLine(s, line).col = s.col
         /\ DOMAIN SetLine(s, line).rows = DOMAIN s.rows \cup {s.row}
         /\ \A r, c \in Nat : Glyph(SetLine(s, line), r, c) =
              IF r = s.row THEN Ink(line, c) ELSE Glyph(s, r, c)
<1> DEFINE rows == [r \in DOMAIN s.rows \cup {s.row} |->
                      IF r = s.row THEN line ELSE s.rows[r]]
<1>1. /\ DOMAIN rows = DOMAIN s.rows \cup {s.row} /\ DOMAIN rows \subseteq Nat
      /\ rows \in [DOMAIN rows -> Seq(Tokens)]
  BY DEF IsScreen
<1>2. \A r \in DOMAIN rows : rows[r] = IF r = s.row THEN line ELSE s.rows[r]
  OBVIOUS
<1>3. SetLine(s, line) = [s EXCEPT !.rows = rows]
  BY DEF SetLine
<1> HIDE DEF rows
<1>4. /\ IsScreen(SetLine(s, line)) /\ SetLine(s, line).rows = rows
      /\ SetLine(s, line).row = s.row /\ SetLine(s, line).col = s.col
  BY <1>1, <1>3, RowsChange
<1> QED
  BY <1>1, <1>2, <1>4 DEF Glyph

-----------------------------------------------------------------------------
(* What the operations do to the lines and to the screen.                  *)

(* The beginning of a line, and the rest from some character on.           *)
LEMMA PieceInk ==
  ASSUME NEW line \in Seq(Tokens), NEW m \in 0 .. Len(line), NEW k \in Nat
  PROVE  /\ SubSeq(line, 1, m) \in Seq(Tokens) /\ Len(SubSeq(line, 1, m)) = m
         /\ \A i \in 1 .. m : SubSeq(line, 1, m)[i] = line[i]
         /\ SubSeq(line, k + 1, Len(line)) \in Seq(Tokens)
         /\ Len(SubSeq(line, k + 1, Len(line))) =
              IF k < Len(line) THEN Len(line) - k ELSE 0
         /\ \A i \in 1 .. Len(line) - k :
              SubSeq(line, k + 1, Len(line))[i] = line[k + i]
<1>1. Len(line) \in Nat /\ \A i \in 1 .. Len(line) : line[i] \in Tokens
  BY ElementOfSeq, LenProperties
<1>2. /\ SubSeq(line, 1, m) \in Seq(Tokens)
      /\ Len(SubSeq(line, 1, m)) = IF 1 <= m THEN m - 1 + 1 ELSE 0
      /\ \A i \in 1 .. m - 1 + 1 : SubSeq(line, 1, m)[i] = line[1 + i - 1]
  <2>1. \A i \in 1 .. m : line[i] \in Tokens
    BY <1>1
  <2>2. 1 \in Int /\ m \in Int
    BY <1>1
  <2> QED
    BY <2>1, <2>2, SubSeqProperties
<1>3. /\ SubSeq(line, k + 1, Len(line)) \in Seq(Tokens)
      /\ Len(SubSeq(line, k + 1, Len(line))) =
           IF k + 1 <= Len(line) THEN Len(line) - (k + 1) + 1 ELSE 0
      /\ \A i \in 1 .. Len(line) - (k + 1) + 1 :
           SubSeq(line, k + 1, Len(line))[i] = line[k + 1 + i - 1]
  <2>1. \A i \in k + 1 .. Len(line) : line[i] \in Tokens
    BY <1>1
  <2>2. k + 1 \in Int /\ Len(line) \in Int
    BY <1>1
  <2> QED
    BY <2>1, <2>2, SubSeqProperties
<1>4. \A i \in 1 .. m : i \in 1 .. m - 1 + 1 /\ 1 + i - 1 = i
  BY <1>1
<1>5. \A i \in 1 .. Len(line) - k :
        i \in 1 .. Len(line) - (k + 1) + 1 /\ k + 1 + i - 1 = k + i
  BY <1>1
<1> QED
  BY <1>1, <1>2, <1>3, <1>4, <1>5

(* A character of a line is a token.                                       *)
LEMMA InkIsToken ==
  ASSUME NEW line \in Seq(Tokens), NEW c \in Nat
  PROVE  Ink(line, c) \in Tokens
BY ElementOfSeq, LenProperties, BlankIsToken DEF Ink

(* WriteRune writes at the cursor and moves it on.                         *)
LEMMA WriteInk ==
  ASSUME NEW s, IsScreen(s), NEW ch \in Tokens
  PROVE  LET t == WriteRune(s, ch) IN
         /\ IsScreen(t) /\ t.row = s.row /\ t.col = s.col + 1
         /\ \A r, c \in Nat : Glyph(t, r, c) =
              IF r = s.row /\ c = s.col THEN ch ELSE Glyph(s, r, c)
<1> DEFINE line == Line(s)
           new == IF s.col < Len(line) THEN [line EXCEPT ![s.col + 1] = ch]
                                       ELSE Append(line, ch)
           u == SetLine(s, new)
           t == WriteRune(s, ch)
<1>1. /\ line \in Seq(Tokens) /\ Len(line) >= s.col /\ Len(line) \in Nat
      /\ DOMAIN line = 1 .. Len(line) /\ s.col \in Nat
      /\ \A c \in Nat : Ink(line, c) = Glyph(s, s.row, c)
  BY LineInk DEF IsScreen
<1>2. t = [u EXCEPT !.col = u.col + 1]
  BY DEF WriteRune
<1> HIDE DEF line
<1>3. new \in Seq(Tokens) /\ \A c \in Nat : Ink(new, c) =
        IF c = s.col THEN ch ELSE Ink(line, c)
  <2>1. CASE s.col < Len(line)
    <3>1. s.col + 1 \in 1 .. Len(line)
      BY <1>1, <2>1
    <3>2. /\ new \in Seq(Tokens) /\ Len(new) = Len(line)
          /\ \A j \in 1 .. Len(line) : new[j] = IF j = s.col + 1 THEN ch ELSE line[j]
      BY <1>1, <2>1, <3>1, ExceptSeq
    <3>3. DOMAIN new = 1 .. Len(line)
      BY <3>2, LenProperties
    <3> HIDE DEF new
    <3> QED
      BY <1>1, <3>1, <3>2, <3>3 DEF Ink
  <2>2. CASE ~(s.col < Len(line))
    <3>1. new = Append(line, ch) /\ s.col = Len(line)
      BY <1>1, <2>2
    <3>2. /\ new \in Seq(Tokens) /\ Len(new) = Len(line) + 1
          /\ \A j \in 1 .. Len(line) : new[j] = line[j]
          /\ new[Len(line) + 1] = ch
      <4>1. /\ Append(line, ch) \in Seq(Tokens)
            /\ Len(Append(line, ch)) = Len(line) + 1
            /\ \A j \in 1 .. Len(line) : Append(line, ch)[j] = line[j]
            /\ Append(line, ch)[Len(line) + 1] = ch
        BY <1>1
      <4> HIDE DEF new
      <4> QED
        BY <3>1, <4>1
    <3>3. DOMAIN new = 1 .. Len(line) + 1
      BY <3>2, LenProperties
    <3> HIDE DEF new
    <3> QED
      BY <1>1, <3>1, <3>2, <3>3 DEF Ink
  <2> QED
    BY <2>1, <2>2
<1> HIDE DEF new
<1>4. /\ IsScreen(u) /\ u.row = s.row /\ u.col = s.col
      /\ \A r, c \in Nat : Glyph(u, r, c) =
           IF r = s.row THEN Ink(new, c) ELSE Glyph(s, r, c)
  BY <1>3, SetLineInk
<1> HIDE DEF u
<1> HIDE DEF t
<1>5. IsScreen(t) /\ t.rows = u.rows /\ t.row = u.row /\ t.col = u.col + 1
  <2>1. u.col + 1 \in Nat
    BY <1>1, <1>4
  <2> QED
    BY <1>2, <1>4, <2>1, ColumnMoves
<1>6. \A r, c \in Nat : Glyph(t, r, c) = Glyph(u, r, c)
  BY <1>5 DEF Glyph
<1>7. \A r, c \in Nat : Glyph(t, r, c) =
        IF r = s.row /\ c = s.col THEN ch ELSE Glyph(s, r, c)
  BY <1>1, <1>3, <1>4, <1>6
<1> QED
  BY <1>1, <1>4, <1>5, <1>7 DEF t

(* A tab writes four blanks.                                               *)
LEMMA TabInk ==
  ASSUME NEW s, IsScreen(s)
  PROVE  LET t == Tab(s) IN
         /\ IsScreen(t) /\ t.row = s.row /\ t.col = s.col + 4
         /\ \A r, c \in Nat : Glyph(t, r, c) =
              IF r = s.row /\ c \in s.col .. s.col + 3 THEN Blank
              ELSE Glyph(s, r, c)
<1> DEFINE Once(t) == WriteRune(t, Blank)
           t1 == Once(s)  t2 == Once(t1)  t3 == Once(t2)  t4 == Once(t3)
           Wrote(t, n) ==
             /\ IsScreen(t) /\ t.row = s.row /\ t.col = s.col + n
             /\ \A r, c \in Nat : Glyph(t, r, c) =
                  IF r = s.row /\ s.col <= c /\ c < s.col + n THEN Blank
                  ELSE Glyph(s, r, c)
<1>0. s.col \in Nat
  BY DEF IsScreen
<1>1. ASSUME NEW t, NEW n \in Nat, Wrote(t, n) PROVE Wrote(Once(t), n + 1)
  <2> DEFINE u == Once(t)
  <2>1. /\ IsScreen(u) /\ u.row = t.row /\ u.col = t.col + 1
        /\ \A r, c \in Nat : Glyph(u, r, c) =
             IF r = t.row /\ c = t.col THEN Blank ELSE Glyph(t, r, c)
    BY <1>1, BlankIsToken, WriteInk
  <2> HIDE DEF u
  <2>2. \A r, c \in Nat : Glyph(u, r, c) =
          IF r = s.row /\ s.col <= c /\ c < s.col + (n + 1) THEN Blank
          ELSE Glyph(s, r, c)
    BY <1>0, <1>1, <2>1
  <2>3. u.row = s.row /\ u.col = s.col + (n + 1)
    BY <1>0, <1>1, <2>1
  <2>4. Wrote(u, n + 1)
    BY <2>1, <2>2, <2>3
  <2> QED
    BY <2>4, Zenon DEF u
<1>2. Wrote(s, 0)
  BY <1>0
<1>3. Tab(s) = t4
  BY DEF Tab
<1> HIDE DEF Once, Wrote
<1>4. Wrote(t1, 1)
  BY <1>1, <1>2
<1>5. Wrote(t2, 2)
  BY <1>1, <1>4
<1>6. Wrote(t3, 3)
  BY <1>1, <1>5
<1>7. Wrote(t4, 4)
  BY <1>1, <1>6
<1> HIDE DEF t1, t2, t3, t4
<1>8. Wrote(Tab(s), 4)
  BY <1>3, <1>7
<1> QED
  BY <1>0, <1>8 DEF Wrote

(* The line of the cursor, in short.                                       *)
LEMMA LineFacts ==
  ASSUME NEW s, IsScreen(s)
  PROVE  /\ s.col \in Nat /\ s.row \in Nat
         /\ Line(s) \in Seq(Tokens) /\ Len(Line(s)) \in Nat
         /\ s.col <= Len(Line(s)) /\ s.col \in 0 .. Len(Line(s))
         /\ DOMAIN Line(s) = 1 .. Len(Line(s))
         /\ \A i \in 1 .. Len(Line(s)) : Line(s)[i] \in Tokens
         /\ \A c \in Nat : Ink(Line(s), c) = Glyph(s, s.row, c)
BY LineInk, ElementOfSeq DEF IsScreen

(* Blanks over some of a line.                                             *)
Blanked(line, I) == [i \in DOMAIN line |-> IF i \in I THEN Blank ELSE line[i]]

(* The characters after that.                                              *)
LEMMA BlankedInk ==
  ASSUME NEW line \in Seq(Tokens), NEW I
  PROVE  /\ Blanked(line, I) \in Seq(Tokens)
         /\ \A c \in Nat : Ink(Blanked(line, I), c) =
              IF c + 1 \in I THEN Blank ELSE Ink(line, c)
<1> DEFINE new == Blanked(line, I)
<1>1. /\ Len(line) \in Nat /\ DOMAIN line = 1 .. Len(line)
      /\ \A i \in 1 .. Len(line) : line[i] \in Tokens
  BY ElementOfSeq, LenProperties
<1>2. new \in [1 .. Len(line) -> Tokens]
  BY <1>1, BlankIsToken DEF Blanked
<1>3. new \in Seq(Tokens) /\ DOMAIN new = 1 .. Len(line)
  BY <1>1, <1>2, IsLine
<1>4. \A c \in Nat : Ink(new, c) = IF c + 1 \in I THEN Blank ELSE Ink(line, c)
  BY <1>1 DEF Ink, Blanked
<1> QED
  BY <1>3, <1>4

(* The part of the line that EraseInLine erases.                           *)
InErased(s, mode, c) ==
  mode \in {0, 1, 2} /\ (mode = 0 => c >= s.col) /\ (mode = 1 => c <= s.col)

(* EraseInLine leaves the rest of the screen alone.                        *)
LEMMA EraseInLineInk ==
  ASSUME NEW s, IsScreen(s), NEW mode
  PROVE  LET t == EraseInLine(s, mode) IN
         /\ IsScreen(t) /\ t.row = s.row
         /\ t.col = IF mode = 2 THEN 0 ELSE s.col
         /\ DOMAIN t.rows = DOMAIN s.rows \cup {s.row}
         /\ \A r, c \in Nat : Glyph(t, r, c) =
              IF r = s.row /\ InErased(s, mode, c) THEN Blank ELSE Glyph(s, r, c)
<1> DEFINE line == Line(s)
           t == EraseInLine(s, mode)
           Set(u, new) ==
             /\ IsScreen(u) /\ u.row = s.row
             /\ DOMAIN u.rows = DOMAIN s.rows \cup {s.row}
             /\ \A r, c \in Nat : Glyph(u, r, c) =
                  IF r = s.row THEN Ink(new, c) ELSE Glyph(s, r, c)
<1>0. ASSUME NEW new \in Seq(Tokens)
      PROVE  Set(SetLine(s, new), new) /\ SetLine(s, new).col = s.col
  BY <1>0, SetLineInk
<1>1. /\ s.col \in Nat /\ line \in Seq(Tokens) /\ Len(line) \in Nat
      /\ s.col \in 0 .. Len(line) /\ DOMAIN line = 1 .. Len(line)
      /\ \A c \in Nat : Ink(line, c) = Glyph(s, s.row, c)
  BY LineFacts
<1> HIDE DEF line, Set
<1>2. CASE mode = 0
  <2> DEFINE new == SubSeq(line, 1, s.col)
  <2>1. t = SetLine(s, new)
    BY <1>2 DEF EraseInLine, line
  <2>2. /\ new \in Seq(Tokens) /\ Len(new) = s.col
        /\ \A i \in 1 .. s.col : new[i] = line[i]
    BY <1>1, PieceInk
  <2>3. DOMAIN new = 1 .. s.col
    BY <2>2, LenProperties
  <2> HIDE DEF new, t
  <2>4. \A c \in Nat : Ink(new, c) = IF c >= s.col THEN Blank ELSE Ink(line, c)
    BY <1>1, <2>2, <2>3 DEF Ink
  <2>5. Set(t, new) /\ t.col = s.col
    BY <1>0, <2>1, <2>2
  <2> QED
    BY <1>1, <1>2, <2>4, <2>5 DEF Set, InErased, t
<1>3. CASE mode = 1
  <2> DEFINE new == Blanked(line, 1 .. s.col + 1)
  <2>1. t = SetLine(s, new)
    <3>1. [i \in DOMAIN line |-> IF i <= s.col + 1 THEN Blank ELSE line[i]] = new
      BY <1>1 DEF Blanked
    <3> QED
      BY <1>3, <3>1 DEF EraseInLine, line
  <2>2. /\ new \in Seq(Tokens)
        /\ \A c \in Nat : Ink(new, c) =
             IF c + 1 \in 1 .. s.col + 1 THEN Blank ELSE Ink(line, c)
    <3> DEFINE I == 1 .. s.col + 1
    <3> HIDE DEF I
    <3>1. /\ Blanked(line, I) \in Seq(Tokens)
          /\ \A c \in Nat : Ink(Blanked(line, I), c) =
               IF c + 1 \in I THEN Blank ELSE Ink(line, c)
      BY <1>1, BlankedInk
    <3> QED
      BY <3>1 DEF I
  <2> HIDE DEF new, t
  <2>3. Set(t, new) /\ t.col = s.col
    BY <1>0, <2>1, <2>2
  <2>4. \A c \in Nat : /\ c + 1 \in 1 .. s.col + 1 <=> c <= s.col
                       /\ InErased(s, mode, c) <=> c <= s.col
    BY <1>1, <1>3 DEF InErased
  <2>5. \A c \in Nat : Ink(new, c) =
          IF InErased(s, mode, c) THEN Blank ELSE Glyph(s, s.row, c)
    BY <1>1, <2>2, <2>4
  <2> QED
    BY <1>1, <1>3, <2>3, <2>5 DEF Set, t
<1>4. CASE mode = 2
  <2> DEFINE u == SetLine(s, <<>>)
  <2>1. t = [u EXCEPT !.col = 0]
    BY <1>4 DEF EraseInLine
  <2>2. Set(u, <<>>)
    <3>1. <<>> \in Seq(Tokens)
      OBVIOUS
    <3> QED
      BY <1>0, <3>1
  <2> HIDE DEF u, t
  <2>3. IsScreen(t) /\ t.rows = u.rows /\ t.row = s.row /\ t.col = 0
    BY <2>1, <2>2, ColumnMoves DEF Set
  <2>4. \A c \in Nat : Ink(<<>>, c) = Blank
    BY DEF Ink
  <2>5. \A r, c \in Nat : Glyph(t, r, c) = Glyph(u, r, c)
    BY <2>3 DEF Glyph
  <2> QED
    BY <1>4, <2>2, <2>3, <2>4, <2>5 DEF Set, InErased, t
<1>5. CASE mode \notin {0, 1, 2}
  <2>1. t = SetLine(s, line)
    BY <1>5 DEF EraseInLine, line
  <2> HIDE DEF t
  <2>2. Set(t, line) /\ t.col = s.col
    BY <1>0, <1>1, <2>1
  <2> QED
    BY <1>1, <1>5, <2>2 DEF Set, InErased, t
<1> QED
  BY <1>2, <1>3, <1>4, <1>5

(* What is left of the rows.                                               *)
LEMMA RowsLeft ==
  ASSUME NEW s, IsScreen(s), NEW K \in SUBSET DOMAIN s.rows
  PROVE  LET t == [s EXCEPT !.rows = [r \in K |-> s.rows[r]]] IN
         /\ IsScreen(t) /\ t.row = s.row /\ t.col = s.col
         /\ \A r, c \in Nat : Glyph(t, r, c) = IF r \in K THEN Glyph(s, r, c) ELSE Blank
<1> DEFINE rows == [r \in K |-> s.rows[r]]
           t == [s EXCEPT !.rows = rows]
<1>1. /\ DOMAIN rows = K /\ DOMAIN rows \subseteq Nat
      /\ rows \in [DOMAIN rows -> Seq(Tokens)]
      /\ \A r \in K : rows[r] = s.rows[r]
  BY DEF IsScreen
<1> HIDE DEF rows
<1>2. IsScreen(t) /\ t.rows = rows /\ t.row = s.row /\ t.col = s.col
  BY <1>1, RowsChange
<1> HIDE DEF t
<1>3. \A r, c \in Nat : Glyph(t, r, c) = IF r \in K THEN Glyph(s, r, c) ELSE Blank
  BY <1>1, <1>2 DEF Glyph
<1> QED
  BY <1>2, <1>3 DEF t, rows

(* The empty screen shows nothing.                                         *)
LEMMA ResetInk ==
  /\ IsScreen(Reset) /\ Reset.row = 0 /\ Reset.col = 0
  /\ \A r, c \in Nat : Glyph(Reset, r, c) = Blank
BY DEF Reset, NoRows, IsScreen, Glyph

(* Erasing below reaches as far as there are rows.                         *)
LEMMA EraseBelowInk ==
  ASSUME NEW s, IsScreen(s)
  PROVE  LET t == EraseInDisplay(s, 0) IN
         /\ IsScreen(t) /\ t.row = s.row /\ t.col = s.col
         /\ \A r, c \in Nat : Glyph(t, r, c) =
              IF \/ r = s.row /\ c >= s.col
                 \/ r > s.row /\ s.row .. r \subseteq DOMAIN s.rows \cup {s.row}
              THEN Blank ELSE Glyph(s, r, c)
<1> DEFINE u == EraseInLine(s, 0)
           K == {k \in DOMAIN u.rows : k > s.row => ~(s.row .. k \subseteq DOMAIN u.rows)}
           t == EraseInDisplay(s, 0)
<1>0. s.row \in Nat
  BY DEF IsScreen
<1>1. /\ IsScreen(u) /\ u.row = s.row /\ u.col = s.col
      /\ DOMAIN u.rows = DOMAIN s.rows \cup {s.row}
      /\ \A r, c \in Nat : Glyph(u, r, c) =
           IF r = s.row /\ InErased(s, 0, c) THEN Blank ELSE Glyph(s, r, c)
  BY EraseInLineInk
<1>2. t = [u EXCEPT !.rows = [r \in K |-> u.rows[r]]]
  BY DEF EraseInDisplay, OnlyRows
<1>3. /\ IsScreen(t) /\ t.row = u.row /\ t.col = u.col
      /\ \A r, c \in Nat : Glyph(t, r, c) = IF r \in K THEN Glyph(u, r, c) ELSE Blank
  <2> HIDE DEF u, t
  <2>1. K \in SUBSET DOMAIN u.rows
    OBVIOUS
  <2> HIDE DEF K
  <2> QED
    BY <1>1, <1>2, <2>1, RowsLeft
<1> HIDE DEF u, t
<1>4. \A r, c \in Nat : r \notin DOMAIN u.rows => Glyph(u, r, c) = Blank
  BY DEF Glyph
<1>5. \A r, c \in Nat : Glyph(t, r, c) =
        IF \/ r = s.row /\ c >= s.col
           \/ r > s.row /\ s.row .. r \subseteq DOMAIN s.rows \cup {s.row}
        THEN Blank ELSE Glyph(s, r, c)
  <2> TAKE r, c \in Nat
  <2>1. CASE r = s.row
    BY <1>0, <1>1, <1>3, <2>1 DEF InErased
  <2>2. CASE r < s.row
    BY <1>0, <1>1, <1>3, <1>4, <2>2
  <2>3. CASE r > s.row
    <3>1. r \in K => ~(s.row .. r \subseteq DOMAIN u.rows)
      BY <2>3
    <3>2. r \in DOMAIN u.rows /\ ~(s.row .. r \subseteq DOMAIN u.rows) => r \in K
      OBVIOUS
    <3>3. r \in K => r \in DOMAIN u.rows
      OBVIOUS
    <3> HIDE DEF K
    <3>4. r # s.row
      BY <1>0, <2>3
    <3> QED
      BY <1>1, <1>3, <1>4, <2>3, <3>1, <3>2, <3>3, <3>4
  <2> QED
    BY <1>0, <2>1, <2>2, <2>3
<1> QED
  BY <1>1, <1>3, <1>5 DEF t

(* Erasing above takes all rows above, with a line or without.             *)
LEMMA EraseAboveInk ==
  ASSUME NEW s, IsScreen(s)
  PROVE  LET t == EraseInDisplay(s, 1) IN
         /\ IsScreen(t) /\ t.row = s.row /\ t.col = s.col
         /\ \A r, c \in Nat : Glyph(t, r, c) =
              IF r < s.row \/ (r = s.row /\ c <= s.col)
              THEN Blank ELSE Glyph(s, r, c)
<1> DEFINE u == EraseInLine(s, 1)
           K == {k \in DOMAIN u.rows : k >= s.row}
           t == EraseInDisplay(s, 1)
<1>0. s.row \in Nat
  BY DEF IsScreen
<1>1. /\ IsScreen(u) /\ u.row = s.row /\ u.col = s.col
      /\ DOMAIN u.rows = DOMAIN s.rows \cup {s.row}
      /\ \A r, c \in Nat : Glyph(u, r, c) =
           IF r = s.row /\ InErased(s, 1, c) THEN Blank ELSE Glyph(s, r, c)
  BY EraseInLineInk
<1>2. t = [u EXCEPT !.rows = [r \in K |-> u.rows[r]]]
  BY DEF EraseInDisplay, OnlyRows
<1>3. /\ IsScreen(t) /\ t.row = u.row /\ t.col = u.col
      /\ \A r, c \in Nat : Glyph(t, r, c) = IF r \in K THEN Glyph(u, r, c) ELSE Blank
  <2> HIDE DEF u, t
  <2>1. K \in SUBSET DOMAIN u.rows
    OBVIOUS
  <2> HIDE DEF K
  <2> QED
    BY <1>1, <1>2, <2>1, RowsLeft
<1> HIDE DEF u, t
<1>4. \A r, c \in Nat : r \notin DOMAIN u.rows => Glyph(u, r, c) = Blank
  BY DEF Glyph
<1>5. \A r, c \in Nat : Glyph(t, r, c) =
        IF r < s.row \/ (r = s.row /\ c <= s.col) THEN Blank ELSE Glyph(s, r, c)
  BY <1>0, <1>1, <1>3, <1>4 DEF InErased
<1> QED
  BY <1>1, <1>3, <1>5 DEF t

(* Lines put together.                                                     *)
LEMMA ConcatInk ==
  ASSUME NEW x \in Seq(Tokens), NEW y \in Seq(Tokens)
  PROVE  /\ x \o y \in Seq(Tokens)
         /\ \A c \in Nat : Ink(x \o y, c) =
              IF c < Len(x) THEN Ink(x, c) ELSE Ink(y, c - Len(x))
<1> DEFINE z == x \o y
<1>1. /\ z \in Seq(Tokens) /\ Len(z) = Len(x) + Len(y)
      /\ \A i \in 1 .. Len(x) + Len(y) : z[i] =
           IF i <= Len(x) THEN x[i] ELSE y[i - Len(x)]
  BY ConcatProperties
<1>2. /\ Len(x) \in Nat /\ Len(y) \in Nat /\ DOMAIN x = 1 .. Len(x)
      /\ DOMAIN y = 1 .. Len(y) /\ DOMAIN z = 1 .. Len(z)
  BY <1>1, LenProperties
<1> HIDE DEF z
<1>3. ASSUME NEW c \in Nat
      PROVE  Ink(z, c) = IF c < Len(x) THEN Ink(x, c) ELSE Ink(y, c - Len(x))
  <2>1. CASE c < Len(x)
    BY <1>1, <1>2, <2>1 DEF Ink
  <2>2. CASE c >= Len(x)
    <3>1. (c - Len(x)) + 1 = (c + 1) - Len(x)
      BY <1>2
    <3> QED
      BY <1>1, <1>2, <2>2, <3>1 DEF Ink
  <2> QED
    BY <1>2, <2>1, <2>2
<1> QED
  BY <1>1, <1>3 DEF z

(* The characters of the two pieces of a line.                             *)
LEMMA CutInk ==
  ASSUME NEW line \in Seq(Tokens), NEW m \in 0 .. Len(line), NEW k \in Nat
  PROVE  /\ \A c \in Nat : Ink(SubSeq(line, 1, m), c) =
              IF c < m THEN Ink(line, c) ELSE Blank
         /\ \A c \in Nat : Ink(SubSeq(line, k + 1, Len(line)), c) = Ink(line, k + c)
<1> DEFINE x == SubSeq(line, 1, m)
           y == SubSeq(line, k + 1, Len(line))
<1>1. /\ x \in Seq(Tokens) /\ Len(x) = m /\ \A i \in 1 .. m : x[i] = line[i]
      /\ y \in Seq(Tokens)
      /\ Len(y) = IF k < Len(line) THEN Len(line) - k ELSE 0
      /\ \A i \in 1 .. Len(line) - k : y[i] = line[k + i]
  BY PieceInk
<1>2. /\ Len(line) \in Nat /\ DOMAIN line = 1 .. Len(line)
      /\ DOMAIN x = 1 .. Len(x) /\ DOMAIN y = 1 .. Len(y)
  BY <1>1, LenProperties
<1> HIDE DEF x, y
<1>3. \A c \in Nat : Ink(x, c) = IF c < m THEN Ink(line, c) ELSE Blank
  <2>0. m \in Nat /\ m <= Len(line)
    BY <1>2
  <2>3. DOMAIN x = 1 .. m /\ DOMAIN line = 1 .. Len(line)
    BY <1>1, <1>2
  <2> TAKE c \in Nat
  <2>1. CASE c < m
    <3>1. c + 1 \in 1 .. m /\ c + 1 \in DOMAIN x /\ c + 1 \in DOMAIN line
      BY <1>2, <2>0, <2>1, <2>3
    <3> QED
      BY <1>1, <2>1, <3>1 DEF Ink
  <2>2. CASE c >= m
    <3>1. c + 1 \notin DOMAIN x /\ ~(c < m)
      BY <2>0, <2>2, <2>3
    <3> QED
      BY <3>1 DEF Ink
  <2> QED
    BY <1>2, <2>1, <2>2
<1>4. ASSUME NEW c \in Nat PROVE Ink(y, c) = Ink(line, k + c)
  <2>1. CASE k + c < Len(line)
    <3>1. c + 1 \in 1 .. Len(line) - k /\ k + (c + 1) = (k + c) + 1
      BY <1>2, <2>1
    <3>2. c + 1 \in DOMAIN y /\ (k + c) + 1 \in DOMAIN line
      <4>1. k < Len(line)
        BY <1>2, <2>1
      <4>2. Len(y) = Len(line) - k
        BY <1>1, <4>1
      <4> QED
        BY <1>2, <2>1, <4>2
    <3>3. Ink(y, c) = y[c + 1] /\ Ink(line, k + c) = line[(k + c) + 1]
      BY <3>2 DEF Ink
    <3>4. y[c + 1] = line[k + (c + 1)]
      BY <1>1, <3>1
    <3> QED
      BY <3>1, <3>3, <3>4
  <2>2. CASE k + c >= Len(line)
    <3>1. c + 1 > Len(y)
      <4>1. CASE k < Len(line)
        BY <1>1, <1>2, <2>2, <4>1
      <4>2. CASE ~(k < Len(line))
        <5>1. Len(y) = 0
          BY <1>1, <4>2
        <5> QED
          BY <5>1
      <4> QED
        BY <4>1, <4>2
    <3>2. c + 1 \notin DOMAIN y /\ (k + c) + 1 \notin DOMAIN line
      BY <1>2, <2>2, <3>1
    <3> QED
      BY <3>2 DEF Ink
  <2> QED
    BY <1>2, <2>1, <2>2
<1> QED
  BY <1>3, <1>4 DEF x, y

(* DeleteChars draws the end of the line to the left.                      *)
LEMMA DeleteInk ==
  ASSUME NEW s, IsScreen(s), NEW n \in Nat
  PROVE  LET t == DeleteChars(s, n) IN
         /\ IsScreen(t) /\ t.row = s.row /\ t.col = s.col
         /\ \A r, c \in Nat : Glyph(t, r, c) =
              IF r = s.row /\ c >= s.col THEN Glyph(s, r, c + n) ELSE Glyph(s, r, c)
<1> DEFINE line == Line(s)
           x == SubSeq(line, 1, s.col)
           y == SubSeq(line, (s.col + n) + 1, Len(line))
           t == DeleteChars(s, n)
<1>1. /\ s.col \in Nat /\ s.row \in Nat /\ line \in Seq(Tokens)
      /\ s.col \in 0 .. Len(line) /\ s.col + n \in Nat
      /\ \A c \in Nat : Ink(line, c) = Glyph(s, s.row, c)
  BY LineFacts
<1>2. t = SetLine(s, x \o y)
  BY DEF DeleteChars
<1> HIDE DEF line
<1>3. x \in Seq(Tokens) /\ Len(x) = s.col /\ y \in Seq(Tokens)
  BY <1>1, PieceInk
<1>4. /\ \A c \in Nat : Ink(x, c) = IF c < s.col THEN Ink(line, c) ELSE Blank
      /\ \A c \in Nat : Ink(y, c) = Ink(line, (s.col + n) + c)
  BY <1>1, CutInk
<1> HIDE DEF x, y
<1>5. /\ x \o y \in Seq(Tokens)
      /\ \A c \in Nat : Ink(x \o y, c) =
           IF c < Len(x) THEN Ink(x, c) ELSE Ink(y, c - Len(x))
  BY <1>3, ConcatInk
<1>6. \A c \in Nat : Ink(x \o y, c) =
        IF c >= s.col THEN Glyph(s, s.row, c + n) ELSE Glyph(s, s.row, c)
  <2> TAKE c \in Nat
  <2>1. CASE c < s.col
    BY <1>1, <1>3, <1>4, <1>5, <2>1
  <2>2. CASE c >= s.col
    <3>1. c - s.col \in Nat /\ (s.col + n) + (c - s.col) = c + n /\ c + n \in Nat
      BY <1>1, <2>2
    <3>2. Ink(x \o y, c) = Ink(line, c + n)
      <4>1. Ink(x \o y, c) = Ink(y, c - s.col)
        BY <1>1, <1>3, <1>5, <2>2
      <4>2. Ink(y, c - s.col) = Ink(line, (s.col + n) + (c - s.col))
        BY <1>4, <3>1
      <4> QED
        BY <3>1, <4>1, <4>2
    <3> QED
      BY <1>1, <2>2, <3>1, <3>2
  <2> QED
    BY <1>1, <2>1, <2>2
<1> DEFINE new == x \o y
<1> HIDE DEF t
<1>7. /\ IsScreen(t) /\ t.row = s.row /\ t.col = s.col
      /\ \A r, c \in Nat : Glyph(t, r, c) =
           IF r = s.row THEN Ink(new, c) ELSE Glyph(s, r, c)
  <2>1. t = SetLine(s, new) /\ new \in Seq(Tokens)
    BY <1>2, <1>5
  <2> HIDE DEF new
  <2> QED
    BY <2>1, SetLineInk
<1>8. \A r, c \in Nat : Glyph(t, r, c) =
        IF r = s.row /\ c >= s.col THEN Glyph(s, r, c + n) ELSE Glyph(s, r, c)
  BY <1>1, <1>6, <1>7
<1> QED
  BY <1>7, <1>8 DEF t

(* InsertSpaces pushes it to the right.                                    *)
LEMMA InsertInk ==
  ASSUME NEW s, IsScreen(s), NEW n \in Nat
  PROVE  LET t == InsertSpaces(s, n) IN
         /\ IsScreen(t) /\ t.row = s.row /\ t.col = s.col
         /\ \A r, c \in Nat : Glyph(t, r, c) =
              IF r = s.row /\ c >= s.col
              THEN IF c < s.col + n THEN Blank ELSE Glyph(s, r, c - n)
              ELSE Glyph(s, r, c)
<1> DEFINE line == Line(s)
           x == SubSeq(line, 1, s.col)
           y == SubSeq(line, s.col + 1, Len(line))
           z == x \o Blanks(n)
           t == InsertSpaces(s, n)
<1>1. /\ s.col \in Nat /\ s.row \in Nat /\ line \in Seq(Tokens)
      /\ s.col \in 0 .. Len(line)
      /\ \A c \in Nat : Ink(line, c) = Glyph(s, s.row, c)
  BY LineFacts
<1>2. t = SetLine(s, z \o y)
  BY DEF InsertSpaces
<1> HIDE DEF line
<1>3. x \in Seq(Tokens) /\ Len(x) = s.col /\ y \in Seq(Tokens)
  BY <1>1, PieceInk
<1>4. /\ \A c \in Nat : Ink(x, c) = IF c < s.col THEN Ink(line, c) ELSE Blank
      /\ \A c \in Nat : Ink(y, c) = Ink(line, s.col + c)
  BY <1>1, CutInk
<1>5. /\ Blanks(n) \in Seq(Tokens) /\ Len(Blanks(n)) = n
      /\ \A c \in Nat : Ink(Blanks(n), c) = Blank
  <2>1. /\ Blanks(n) \in Seq(Tokens) /\ Len(Blanks(n)) = IF n > 0 THEN n ELSE 0
        /\ \A i \in 1 .. n : Blanks(n)[i] = Blank
    BY BlanksLine
  <2>2. DOMAIN Blanks(n) = 1 .. Len(Blanks(n))
    BY <2>1, LenProperties
  <2> QED
    BY <2>1, <2>2 DEF Ink
<1> HIDE DEF x, y
<1>6. /\ z \in Seq(Tokens) /\ Len(z) = s.col + n
      /\ \A c \in Nat : Ink(z, c) =
           IF c < Len(x) THEN Ink(x, c) ELSE Ink(Blanks(n), c - Len(x))
  <2>1. Len(x \o Blanks(n)) = Len(x) + Len(Blanks(n))
    BY <1>3, <1>5, ConcatProperties, Zenon
  <2> QED
    BY <1>3, <1>5, <2>1, ConcatInk
<1> HIDE DEF z
<1>7. /\ z \o y \in Seq(Tokens)
      /\ \A c \in Nat : Ink(z \o y, c) =
           IF c < Len(z) THEN Ink(z, c) ELSE Ink(y, c - Len(z))
  BY <1>3, <1>6, ConcatInk
<1>8. \A c \in Nat : Ink(z \o y, c) =
        IF c >= s.col THEN IF c < s.col + n THEN Blank ELSE Glyph(s, s.row, c - n)
        ELSE Glyph(s, s.row, c)
  <2> TAKE c \in Nat
  <2>1. CASE c < s.col
    <3>1. Ink(z \o y, c) = Ink(z, c)
      BY <1>1, <1>6, <1>7, <2>1
    <3>2. Ink(z, c) = Ink(x, c) /\ Ink(x, c) = Ink(line, c)
      BY <1>1, <1>3, <1>4, <1>6, <2>1
    <3> QED
      BY <1>1, <2>1, <3>1, <3>2
  <2>2. CASE c >= s.col /\ c < s.col + n
    <3>1. c - s.col \in Nat
      BY <1>1, <2>2
    <3> QED
      BY <1>1, <1>3, <1>5, <1>6, <1>7, <2>2, <3>1
  <2>3. CASE c >= s.col + n
    <3>1. /\ c - (s.col + n) \in Nat /\ c - n \in Nat
          /\ s.col + (c - (s.col + n)) = c - n /\ c >= s.col
      BY <1>1, <2>3
    <3>2. Ink(z \o y, c) = Ink(line, c - n)
      <4>1. Ink(z \o y, c) = Ink(y, c - (s.col + n))
        BY <1>1, <1>6, <1>7, <2>3
      <4>2. Ink(y, c - (s.col + n)) = Ink(line, s.col + (c - (s.col + n)))
        BY <1>4, <3>1
      <4> QED
        BY <3>1, <4>1, <4>2
    <3> QED
      BY <1>1, <2>3, <3>1, <3>2
  <2> QED
    BY <1>1, <2>1, <2>2, <2>3
<1> DEFINE new == z \o y
<1> HIDE DEF t
<1>9. /\ IsScreen(t) /\ t.row = s.row /\ t.col = s.col
      /\ \A r, c \in Nat : Glyph(t, r, c) =
           IF r = s.row THEN Ink(new, c) ELSE Glyph(s, r, c)
  <2>1. t = SetLine(s, new) /\ new \in Seq(Tokens)
    BY <1>2, <1>7
  <2> HIDE DEF new
  <2> QED
    BY <2>1, SetLineInk
<1>10. \A r, c \in Nat : Glyph(t, r, c) =
         IF r = s.row /\ c >= s.col
         THEN IF c < s.col + n THEN Blank ELSE Glyph(s, r, c - n)
         ELSE Glyph(s, r, c)
  BY <1>1, <1>8, <1>9
<1> QED
  BY <1>9, <1>10 DEF t

(* EraseChars moves nothing.                                               *)
LEMMA EraseCharsInk ==
  ASSUME NEW s, IsScreen(s), NEW n \in Nat
  PROVE  LET t == EraseChars(s, n) IN
         /\ IsScreen(t) /\ t.row = s.row /\ t.col = s.col
         /\ \A r, c \in Nat : Glyph(t, r, c) =
              IF r = s.row /\ c >= s.col /\ c < s.col + n THEN Blank
              ELSE Glyph(s, r, c)
<1> DEFINE line == Line(s)
           I == s.col + 1 .. s.col + n
           t == EraseChars(s, n)
<1>1. /\ s.col \in Nat /\ s.row \in Nat /\ line \in Seq(Tokens)
      /\ \A c \in Nat : Ink(line, c) = Glyph(s, s.row, c)
  BY LineFacts
<1>2. t = SetLine(s, Blanked(line, I))
  BY DEF EraseChars, Blanked
<1> DEFINE new == Blanked(line, I)
<1> HIDE DEF line, t
<1>3. /\ new \in Seq(Tokens)
      /\ \A c \in Nat : Ink(new, c) =
           IF c + 1 \in I THEN Blank ELSE Ink(line, c)
  BY <1>1, BlankedInk
<1> HIDE DEF new
<1>4. /\ IsScreen(t) /\ t.row = s.row /\ t.col = s.col
      /\ \A r, c \in Nat : Glyph(t, r, c) =
           IF r = s.row THEN Ink(new, c) ELSE Glyph(s, r, c)
  BY <1>2, <1>3, SetLineInk DEF new
<1>5. \A c \in Nat : c + 1 \in I <=> c >= s.col /\ c < s.col + n
  BY <1>1
<1> HIDE DEF I
<1>6. \A r, c \in Nat : Glyph(t, r, c) =
        IF r = s.row /\ c >= s.col /\ c < s.col + n THEN Blank ELSE Glyph(s, r, c)
  <2> TAKE r \in Nat, c \in Nat
  <2>1. CASE r = s.row
    <3>1. Glyph(t, r, c) = Ink(new, c) /\ Ink(line, c) = Glyph(s, r, c)
      BY <1>1, <1>4, <2>1
    <3> QED
      BY <1>3, <1>5, <2>1, <3>1
  <2>2. CASE r # s.row
    BY <1>4, <2>2
  <2> QED
    BY <2>1, <2>2
<1> QED
  BY <1>4, <1>6 DEF t

-----------------------------------------------------------------------------
(* The screen stays a screen, whatever the bytes are.                      *)

(* A parameter is a number, and positive where its default is.             *)
LEMMA ParamType ==
  ASSUME NEW params, NEW k, NEW default \in Nat
  PROVE  /\ Param(params, k, default) \in Nat
         /\ default > 0 => Param(params, k, default) > 0
<1>1. DOMAIN Value = Params /\ \A v \in Params : Value[v] \in Nat /\ Value[v] > 0
  BY DEF Value, Params
<1> QED
  BY <1>1 DEF Param

(* The cursor never leaves the quadrant.                                   *)
LEMMA MovedType ==
  ASSUME NEW s, IsScreen(s), NEW params, NEW final \in Moves
  PROVE  LET t == Moved(s, params, final) IN
         IsScreen(t) /\ t.rows = s.rows
<1> DEFINE n == Param(params, 1, 1)
           m == Param(params, 2, 1)
           t == Moved(s, params, final)
<1>1. n \in Nat /\ n > 0 /\ m \in Nat /\ m > 0 /\ s.row \in Nat /\ s.col \in Nat
  BY ParamType DEF IsScreen
<1>2. /\ Back(s.row, n) \in Nat /\ Back(s.col, n) \in Nat
      /\ s.row + n \in Nat /\ s.col + n \in Nat /\ n - 1 \in Nat /\ m - 1 \in Nat
  BY <1>1 DEF Back
<1>3. /\ final = "A" => t = [s EXCEPT !.row = Back(s.row, n)]
      /\ final = "B" => t = [s EXCEPT !.row = s.row + n]
      /\ final = "C" => t = [s EXCEPT !.col = s.col + n]
      /\ final = "D" => t = [s EXCEPT !.col = Back(s.col, n)]
      /\ final = "G" => t = [s EXCEPT !.col = n - 1]
      /\ final \in {"H", "f"} => t = [s EXCEPT !.row = n - 1, !.col = m - 1]
  BY DEF Moved
<1> HIDE DEF n, m, t
<1>4. ASSUME final = "A" PROVE IsScreen(t) /\ t.rows = s.rows
  <2>1. t = [s EXCEPT !.row = Back(s.row, n)]
    BY <1>3, <1>4
  <2> QED
    BY <1>2, <2>1, RowMoves
<1>5. ASSUME final = "B" PROVE IsScreen(t) /\ t.rows = s.rows
  <2>1. t = [s EXCEPT !.row = s.row + n]
    BY <1>3, <1>5
  <2> QED
    BY <1>2, <2>1, RowMoves
<1>6. ASSUME final = "C" PROVE IsScreen(t) /\ t.rows = s.rows
  <2>1. t = [s EXCEPT !.col = s.col + n]
    BY <1>3, <1>6
  <2> QED
    BY <1>2, <2>1, ColumnMoves
<1>7. ASSUME final = "D" PROVE IsScreen(t) /\ t.rows = s.rows
  <2>1. t = [s EXCEPT !.col = Back(s.col, n)]
    BY <1>3, <1>7
  <2> QED
    BY <1>2, <2>1, ColumnMoves
<1>8. ASSUME final = "G" PROVE IsScreen(t) /\ t.rows = s.rows
  <2>1. t = [s EXCEPT !.col = n - 1]
    BY <1>3, <1>8
  <2> QED
    BY <1>2, <2>1, ColumnMoves
<1>9. ASSUME final \in {"H", "f"} PROVE IsScreen(t) /\ t.rows = s.rows
  <2>1. t = [s EXCEPT !.row = n - 1, !.col = m - 1]
    BY <1>3, <1>9
  <2> QED
    <3> DEFINE i == n - 1
               j == m - 1
    <3>1. i \in Nat /\ j \in Nat /\ t = [s EXCEPT !.row = i, !.col = j]
      BY <1>2, <2>1
    <3> HIDE DEF i, j
    <3> QED
      BY <3>1 DEF IsScreen
<1>10. IsScreen(t) /\ t.rows = s.rows
  BY <1>4, <1>5, <1>6, <1>7, <1>8, <1>9 DEF Moves
<1> QED
  BY <1>10 DEF t

(* Erasing leaves a screen.                                                *)
LEMMA EraseInDisplayType ==
  ASSUME NEW s, IsScreen(s), NEW mode
  PROVE  IsScreen(EraseInDisplay(s, mode))
<1>1. CASE mode = 0
  BY <1>1, EraseBelowInk
<1>2. CASE mode = 1
  BY <1>2, EraseAboveInk
<1>3. CASE mode \notin {0, 1}
  BY <1>3, ResetInk DEF EraseInDisplay
<1> QED
  BY <1>1, <1>2, <1>3

(* So does every sequence, with any parameters.                            *)
LEMMA ApplyCSIType ==
  ASSUME NEW s, IsScreen(s), NEW params, NEW final
  PROVE  IsScreen(ApplyCSI(s, params, final))
<1> DEFINE n == Param(params, 1, 1)
           mode == Param(params, 1, 0)
           t == ApplyCSI(s, params, final)
<1>1. n \in Nat
  BY ParamType
<1>2. final \in Moves => t = Moved(s, params, final)
  BY DEF ApplyCSI, Moves
<1>3. /\ final = "K" => t = EraseInLine(s, mode)
      /\ final = "J" => t = EraseInDisplay(s, mode)
      /\ final = "P" => t = DeleteChars(s, n)
      /\ final = "@" => t = InsertSpaces(s, n)
      /\ final = "X" => t = EraseChars(s, n)
  BY DEF ApplyCSI, Moves
<1>4. final \notin Moves \cup {"K", "J", "P", "@", "X"} => t \in {s, Reset}
  <2> SUFFICES ASSUME final \notin Moves \cup {"K", "J", "P", "@", "X"}
               PROVE  t \in {s, Reset}
    OBVIOUS
  <2>1. CASE final \in {"h", "l"} /\ AltScreen(params)
    BY <2>1 DEF ApplyCSI, Moves
  <2>2. CASE ~(final \in {"h", "l"} /\ AltScreen(params))
    BY <2>2 DEF ApplyCSI
  <2> QED
    BY <2>1, <2>2
<1> HIDE DEF n, mode, t
<1>5. ASSUME final \in Moves PROVE IsScreen(t)
  BY <1>2, <1>5, MovedType
<1>6. ASSUME final = "K" PROVE IsScreen(t)
  BY <1>3, <1>6, EraseInLineInk
<1>7. ASSUME final = "J" PROVE IsScreen(t)
  BY <1>3, <1>7, EraseInDisplayType
<1>8. ASSUME final = "P" PROVE IsScreen(t)
  BY <1>1, <1>3, <1>8, DeleteInk
<1>9. ASSUME final = "@" PROVE IsScreen(t)
  BY <1>1, <1>3, <1>9, InsertInk
<1>10. ASSUME final = "X" PROVE IsScreen(t)
  BY <1>1, <1>3, <1>10, EraseCharsInk
<1>11. ASSUME final \notin Moves \cup {"K", "J", "P", "@", "X"} PROVE IsScreen(t)
  BY <1>4, <1>11, ResetInk
<1>12. IsScreen(t)
  BY <1>5, <1>6, <1>7, <1>8, <1>9, <1>10, <1>11
<1> QED
  BY <1>12 DEF t

(* What a byte does outside of a sequence.                                 *)
LEMMA GroundCases ==
  ASSUME NEW s, NEW b
  PROVE  /\ b = "LF" => Ground(s, b) = [s EXCEPT !.row = s.row + 1, !.col = 0]
         /\ b = "CR" => Ground(s, b) = [s EXCEPT !.col = 0]
         /\ b = "TAB" => Ground(s, b) = Tab(s)
         /\ b = "BS" => Ground(s, b) = [s EXCEPT !.col = Back(s.col, 1)]
         /\ b \in {"ESC", "BEL", "hi", "lo"} => Ground(s, b) = s
         /\ b \notin Controls => Ground(s, b) = WriteRune(s, b)
BY DEF Ground, Newline, Controls

(* So does every byte.                                                     *)
LEMMA GroundType ==
  ASSUME NEW s, IsScreen(s), NEW b \in Tokens
  PROVE  IsScreen(Ground(s, b))
<1> DEFINE t == Ground(s, b)
<1>1. s.row + 1 \in Nat /\ 0 \in Nat /\ Back(s.col, 1) \in Nat
  BY DEF IsScreen, Back
<1>2. CASE b = "LF"
  <2>1. t = [s EXCEPT !.row = s.row + 1, !.col = 0]
    BY <1>2, GroundCases
  <2> HIDE DEF t
  <2>2. IsScreen(t)
    BY <1>1, <2>1, CursorMoves
  <2> QED
    BY <2>2 DEF t
<1>3. CASE b \in {"CR", "BS"}
  <2>1. t = [s EXCEPT !.col = 0] \/ t = [s EXCEPT !.col = Back(s.col, 1)]
    BY <1>3, GroundCases
  <2> HIDE DEF t
  <2>2. IsScreen(t)
    BY <1>1, <2>1, ColumnMoves
  <2> QED
    BY <2>2 DEF t
<1>4. CASE b = "TAB"
  <2>1. t = Tab(s)
    BY <1>4, GroundCases
  <2> QED
    BY <2>1, TabInk
<1>5. CASE b \in {"ESC", "BEL", "hi", "lo"}
  <2>1. t = s
    BY <1>5, GroundCases
  <2> QED
    BY <2>1
<1>6. CASE b \notin Controls
  <2>1. t = WriteRune(s, b)
    BY <1>6, GroundCases
  <2> QED
    BY <2>1, WriteInk
<1> QED
  BY <1>2, <1>3, <1>4, <1>5, <1>6 DEF Controls

(* The screen after a step of the parser.                                  *)
LEMMA StepScreen ==
  ASSUME NEW p, NEW b, p.mode \in Modes
  PROVE  Step(p, b).screen \in
           {p.screen, Ground(p.screen, b), WriteRune(p.screen, "e'"), Reset,
            ApplyCSI(p.screen, p.params, b)}
<1>1. \A s, m, ps : At(s, m, ps).screen = s
  BY DEF At
<1>2. OnGround(p.screen, b).screen = Ground(p.screen, b)
  BY <1>1 DEF OnGround
<1>3. CASE p.mode = "ground"
  BY <1>2, <1>3 DEF Step
<1>4. CASE p.mode = "rune"
  BY <1>1, <1>2, <1>4 DEF Step
<1>5. CASE p.mode = "esc"
  BY <1>1, <1>5 DEF Step
<1>6. CASE p.mode = "csi"
  BY <1>1, <1>6 DEF Step
<1>7. CASE p.mode = "osc"
  BY <1>1, <1>7 DEF Step
<1> QED
  BY <1>3, <1>4, <1>5, <1>6, <1>7 DEF Modes

(* And every step of the parser.                                           *)
LEMMA StepType ==
  ASSUME NEW p, IsScreen(p.screen), p.mode \in Modes, NEW b \in Tokens
  PROVE  IsScreen(Step(p, b).screen) /\ Step(p, b).mode \in Modes
<1>1. Step(p, b).mode \in Modes
  BY StepAlone DEF Same
<1>2. /\ IsScreen(Ground(p.screen, b)) /\ IsScreen(Reset)
      /\ IsScreen(ApplyCSI(p.screen, p.params, b))
  BY GroundType, ResetInk, ApplyCSIType
<1>3. IsScreen(WriteRune(p.screen, "e'"))
  <2>1. "e'" \in Tokens
    BY DEF Tokens
  <2> QED
    BY <2>1, WriteInk
<1> QED
  BY <1>1, <1>2, <1>3, StepScreen

(* A batch leaves a screen, and the parser in one of its modes.            *)
LEMMA EndType ==
  ASSUME NEW s, IsScreen(s), NEW bytes \in Seq(Tokens)
  PROVE  IsScreen(End(s, bytes).screen) /\ End(s, bytes).mode \in Modes
<1> DEFINE n == Len(bytes)
           p == Parse(s, bytes)
           Good(q) == IsScreen(q.screen) /\ q.mode \in Modes
           T == {k \in Nat : k <= n => Good(p[k])}
<1>0. n \in Nat /\ \A k \in 1 .. n : bytes[k] \in Tokens
  BY ElementOfSeq, LenProperties
<1>1. /\ p[0] = At(s, "ground", <<>>)
      /\ \A k \in 1 .. n : p[k] = Step(p[k - 1], bytes[k])
  BY <1>0, ParseSteps
<1> HIDE DEF p, n
<1>2. 0 \in T
  BY <1>1 DEF At, Modes
<1>3. ASSUME NEW k \in T PROVE k + 1 \in T
  <2>1. k \in Nat /\ (k <= n => Good(p[k]))
    BY <1>3
  <2>2. SUFFICES ASSUME k + 1 <= n PROVE Good(p[k + 1])
    BY <2>1
  <2>3. k + 1 \in 1 .. n /\ (k + 1) - 1 = k /\ k <= n
    BY <1>0, <2>1, <2>2
  <2>4. p[k + 1] = Step(p[k], bytes[k + 1]) /\ bytes[k + 1] \in Tokens
    BY <1>0, <1>1, <2>3
  <2> QED
    BY <2>1, <2>3, <2>4, StepType
<1>4. T \in SUBSET Nat
  OBVIOUS
<1> HIDE DEF T
<1>5. n \in T
  BY <1>0, <1>2, <1>3, <1>4, NatSetInduction
<1> QED
  BY <1>0, <1>5 DEF T, End, p, n

-----------------------------------------------------------------------------
(* The reference, cell by cell.                                            *)

(* The parts of a reference.                                               *)
LEMMA RefFacts ==
  ASSUME NEW g, IsRef(g)
  PROVE  /\ g.row \in Nat /\ g.col \in Nat
         /\ g.cells \subseteq Nat \X Nat \X Tokens
         /\ \A x \in g.cells : /\ x = <<x[1], x[2], x[3]>>
                               /\ x[1] \in Nat /\ x[2] \in Nat /\ x[3] \in Tokens
BY DEF IsRef

(* Other cells, another place.                                             *)
RefAt(cells, row, col) == [cells |-> cells, row |-> row, col |-> col]

(* What EXCEPT does to it.                                                 *)
LEMMA RefIs ==
  ASSUME NEW g, IsRef(g), NEW C, NEW i, NEW j
  PROVE  /\ g = RefAt(g.cells, g.row, g.col)
         /\ [g EXCEPT !.cells = C] = RefAt(C, g.row, g.col)
         /\ [g EXCEPT !.row = i] = RefAt(g.cells, i, g.col)
         /\ [g EXCEPT !.col = j] = RefAt(g.cells, g.row, j)
         /\ [g EXCEPT !.cells = C, !.col = j] = RefAt(C, g.row, j)
<1>1. g = RefAt(g.cells, g.row, g.col)
  BY DEF IsRef, RefAt
<1>2. [g EXCEPT !.cells = C] = RefAt(C, g.row, g.col)
  BY DEF IsRef, RefAt
<1>3. [g EXCEPT !.row = i] = RefAt(g.cells, i, g.col)
  BY DEF IsRef, RefAt
<1>4. [g EXCEPT !.col = j] = RefAt(g.cells, g.row, j)
  BY DEF IsRef, RefAt
<1>5. [g EXCEPT !.cells = C, !.col = j] = RefAt(C, g.row, j)
  <2> DEFINE k == [g EXCEPT !.cells = C, !.col = j]
  <2>1. k \in [cells : {C}, row : {g.row}, col : {j}]
    BY DEF IsRef
  <2>2. k.cells = C /\ k.row = g.row /\ k.col = j
    BY DEF IsRef
  <2> HIDE DEF k
  <2>3. k = [cells |-> k.cells, row |-> k.row, col |-> k.col]
    BY <2>1
  <2> QED
    BY <2>2, <2>3 DEF k, RefAt
<1> QED
  BY <1>1, <1>2, <1>3, <1>4, <1>5

(* And to both coordinates at once.                                        *)
LEMMA RefMoves ==
  ASSUME NEW g, IsRef(g), NEW i, NEW j
  PROVE  [g EXCEPT !.row = i, !.col = j] = RefAt(g.cells, i, j)
<1> DEFINE k == [g EXCEPT !.row = i, !.col = j]
<1>1. k \in [cells : {g.cells}, row : {i}, col : {j}]
  BY DEF IsRef
<1>2. k.cells = g.cells /\ k.row = i /\ k.col = j
  BY DEF IsRef
<1> HIDE DEF k
<1>3. k = [cells |-> k.cells, row |-> k.row, col |-> k.col]
  BY <1>1
<1> QED
  BY <1>2, <1>3 DEF k, RefAt

(* It is a reference again.                                                *)
LEMMA RefAtType ==
  ASSUME NEW C \in SUBSET (Nat \X Nat \X Tokens), NEW i \in Nat, NEW j \in Nat
  PROVE  IsRef(RefAt(C, i, j))
BY DEF IsRef, RefAt

(* The fields of RefAt.                                                    *)
LEMMA RefAtParts ==
  ASSUME NEW C, NEW i, NEW j
  PROVE  RefAt(C, i, j).cells = C /\ RefAt(C, i, j).row = i /\ RefAt(C, i, j).col = j
BY DEF RefAt

(* What a character does to the reference.                                 *)
LEMMA TypeCells ==
  ASSUME NEW g, IsRef(g), NEW b \in Tokens \ Controls
  PROVE  LET h == Type(g, b) IN
         /\ IsRef(h) /\ h.row = g.row /\ h.col = g.col + 1
         /\ \A r, c \in Nat, d \in Tokens : <<r, c, d>> \in h.cells <=>
              IF r = g.row /\ c = g.col THEN d = b ELSE <<r, c, d>> \in g.cells
<1> DEFINE C == {x \in g.cells : ~(x[1] = g.row /\ x[2] = g.col)}
                \cup {<<g.row, g.col, b>>}
           h == Type(g, b)
<1>1. /\ g.row \in Nat /\ g.col \in Nat /\ g.col + 1 \in Nat
      /\ g.cells \subseteq Nat \X Nat \X Tokens
  BY RefFacts
<1>2. h = RefAt(C, g.row, g.col + 1)
  <2> DEFINE D == {x \in g.cells : ~(x[1] = g.row /\ x[2] = g.col)}
             k == RefAt(D, g.row, g.col)
  <2>1. Without(g, LAMBDA r, c : r = g.row /\ c = g.col) = k
    BY RefIs DEF Without
  <2>2. h = [k EXCEPT !.cells = k.cells \cup {<<g.row, g.col, b>>},
                      !.col = k.col + 1]
    BY <2>1 DEF Type, Controls
  <2> HIDE DEF h
  <2> QED
    BY <2>2 DEF RefAt
<1>3. IsRef(h)
  <2>1. C \in SUBSET (Nat \X Nat \X Tokens)
    BY <1>1
  <2> HIDE DEF C, h
  <2> QED
    BY <1>1, <1>2, <2>1, RefAtType
<1> HIDE DEF h
<1>4. h.cells = C /\ h.row = g.row /\ h.col = g.col + 1
  <2> HIDE DEF C
  <2> QED
    BY <1>2, RefAtParts
<1>5. \A r, c \in Nat, d \in Tokens : <<r, c, d>> \in h.cells <=>
        IF r = g.row /\ c = g.col THEN d = b ELSE <<r, c, d>> \in g.cells
  BY <1>4
<1> QED
  BY <1>3, <1>4, <1>5 DEF h

(* What a control does to the reference.                                   *)
LEMMA TypeControls ==
  ASSUME NEW g, IsRef(g)
  PROVE  /\ Type(g, "LF") = RefAt(g.cells, g.row + 1, 0)
         /\ Type(g, "CR") = RefAt(g.cells, g.row, 0)
         /\ Type(g, "BS") = RefAt(g.cells, g.row, Back(g.col, 1))
         /\ Type(g, "TAB") =
              RefAt({x \in g.cells : ~(x[1] = g.row /\ x[2] \in g.col .. g.col + 3)},
                    g.row, g.col + 4)
<1> DEFINE D == {x \in g.cells : ~(x[1] = g.row /\ x[2] \in g.col .. g.col + 3)}
           k == RefAt(D, g.row, g.col)
<1>1. Without(g, LAMBDA r, c : r = g.row /\ c \in g.col .. g.col + 3) = k
  BY RefIs DEF Without
<1>2. Type(g, "TAB") = [k EXCEPT !.col = k.col + 4]
  BY <1>1 DEF Type
<1>3. Type(g, "TAB") = RefAt(D, g.row, g.col + 4)
  <2> HIDE DEF D
  <2> QED
    BY <1>2 DEF RefAt
<1>4. /\ Type(g, "LF") = [g EXCEPT !.row = g.row + 1, !.col = 0]
      /\ Type(g, "CR") = [g EXCEPT !.col = 0]
      /\ Type(g, "BS") = [g EXCEPT !.col = Back(g.col, 1)]
  BY DEF Type, Newline
<1>5. [g EXCEPT !.row = g.row + 1, !.col = 0] = RefAt(g.cells, g.row + 1, 0)
  <2> DEFINE i == g.row + 1
             j == 0
  <2> HIDE DEF i, j
  <2>1. [g EXCEPT !.row = i, !.col = j] = RefAt(g.cells, i, j)
    BY RefMoves
  <2> QED
    BY <2>1 DEF i, j
<1>6. [g EXCEPT !.col = 0] = RefAt(g.cells, g.row, 0)
  BY RefIs
<1>7. [g EXCEPT !.col = Back(g.col, 1)] = RefAt(g.cells, g.row, Back(g.col, 1))
  <2> DEFINE j == Back(g.col, 1)
  <2> HIDE DEF j
  <2>1. [g EXCEPT !.col = j] = RefAt(g.cells, g.row, j)
    BY RefIs
  <2> QED
    BY <2>1 DEF j
<1> QED
  BY <1>3, <1>4, <1>5, <1>6, <1>7

(* Some cells go, and the column changes.                                  *)
LEMMA CellsGo ==
  ASSUME NEW g, IsRef(g), NEW C, NEW G, NEW j \in Nat,
         C = {x \in g.cells : <<x[1], x[2]>> \notin G}
  PROVE  LET h == RefAt(C, g.row, j) IN
         /\ IsRef(h) /\ h.row = g.row /\ h.col = j
         /\ \A r, c \in Nat, d \in Tokens :
              <<r, c, d>> \in h.cells <=>
                <<r, c>> \notin G /\ <<r, c, d>> \in g.cells
<1> DEFINE h == RefAt(C, g.row, j)
<1>1. C \in SUBSET (Nat \X Nat \X Tokens) /\ g.row \in Nat
  BY RefFacts
<1>2. IsRef(h)
  BY <1>1, RefAtType
<1>3. h.cells = C /\ h.row = g.row /\ h.col = j
  BY RefAtParts
<1> HIDE DEF h
<1>4. \A r, c \in Nat, d \in Tokens :
        <<r, c, d>> \in h.cells <=> <<r, c>> \notin G /\ <<r, c, d>> \in g.cells
  BY <1>3
<1> QED
  BY <1>2, <1>3, <1>4 DEF h

(* The cells that EL, ED, ECH and a tab erase.                             *)
RowPart(g, lo, n) == {g.row} \X {c \in Nat : lo <= c /\ c < lo + n}
LinePart(g, mode) ==
  {g.row} \X {c \in Nat : (mode = 0 => c >= g.col) /\ (mode = 1 => c <= g.col)}
BelowPart(g) ==
  {x \in Nat \X Nat : x[1] > g.row \/ (x[1] = g.row /\ x[2] >= g.col)}
AbovePart(g) ==
  {x \in Nat \X Nat : x[1] < g.row \/ (x[1] = g.row /\ x[2] <= g.col)}
Outside(g, G) == {x \in g.cells : <<x[1], x[2]>> \notin G}

(* A tab takes four cells.                                                 *)
LEMMA TabCells ==
  ASSUME NEW g, IsRef(g)
  PROVE  Type(g, "TAB") = RefAt(Outside(g, RowPart(g, g.col, 4)), g.row, g.col + 4)
<1>1. Type(g, "TAB") =
        RefAt({x \in g.cells : ~(x[1] = g.row /\ x[2] \in g.col .. g.col + 3)},
              g.row, g.col + 4)
  BY TypeControls
<1>2. {x \in g.cells : ~(x[1] = g.row /\ x[2] \in g.col .. g.col + 3)}
        = Outside(g, RowPart(g, g.col, 4))
  <2>1. ASSUME NEW x \in g.cells
        PROVE  x[1] = g.row /\ x[2] \in g.col .. g.col + 3
                 <=> <<x[1], x[2]>> \in RowPart(g, g.col, 4)
    <3>1. x[1] \in Nat /\ x[2] \in Nat /\ g.col \in Nat
      BY RefFacts
    <3> QED
      BY <3>1 DEF RowPart
  <2> QED
    BY <2>1 DEF Outside
<1> QED
  BY <1>1, <1>2

(* EL takes a part of the row.                                             *)
LEMMA LineCells ==
  ASSUME NEW g, IsRef(g), NEW u, u[1] = "csi", u[3] = "K"
  PROVE  LET mode == Param(u[2], 1, 0) IN
         Obey(g, u) =
           RefAt(Outside(g, LinePart(g, mode)), g.row, IF mode = 2 THEN 0 ELSE g.col)
<1> DEFINE mode == Param(u[2], 1, 0)
           C == {x \in g.cells : ~(/\ x[1] = g.row
                                   /\ mode = 0 => x[2] >= g.col
                                   /\ mode = 1 => x[2] <= g.col)}
           k == RefAt(C, g.row, g.col)
<1>1. Without(g, LAMBDA r, c : /\ r = g.row
                               /\ mode = 0 => c >= g.col
                               /\ mode = 1 => c <= g.col) = k
  BY RefIs DEF Without
<1>2. Obey(g, u) = [k EXCEPT !.col = IF mode = 2 THEN 0 ELSE k.col]
  BY <1>1 DEF Obey, Clears, Moves
<1>3. Obey(g, u) = RefAt(C, g.row, IF mode = 2 THEN 0 ELSE g.col)
  <2> HIDE DEF C, mode
  <2> QED
    BY <1>2 DEF RefAt
<1>4. C = Outside(g, LinePart(g, mode))
  <2> HIDE DEF mode
  <2>1. ASSUME NEW x \in g.cells
        PROVE  (/\ x[1] = g.row
                /\ mode = 0 => x[2] >= g.col
                /\ mode = 1 => x[2] <= g.col)
                 <=> <<x[1], x[2]>> \in LinePart(g, mode)
    <3>1. x[1] \in Nat /\ x[2] \in Nat
      BY RefFacts
    <3> QED
      BY <3>1 DEF LinePart
  <2> QED
    BY <2>1 DEF Outside
<1> QED
  BY <1>3, <1>4

(* ED takes what is below, or what is above.                               *)
LEMMA DisplayCells ==
  ASSUME NEW g, IsRef(g), NEW u, u[1] = "csi", u[3] = "J",
         Param(u[2], 1, 0) \in {0, 1}
  PROVE  /\ Param(u[2], 1, 0) = 0 => Obey(g, u) =
              RefAt(Outside(g, BelowPart(g)), g.row, g.col)
         /\ Param(u[2], 1, 0) = 1 => Obey(g, u) =
              RefAt(Outside(g, AbovePart(g)), g.row, g.col)
<1> DEFINE C == {x \in g.cells : ~(x[1] > g.row \/ (x[1] = g.row /\ x[2] >= g.col))}
           D == {x \in g.cells : ~(x[1] < g.row \/ (x[1] = g.row /\ x[2] <= g.col))}
<1>0. \A x \in g.cells : <<x[1], x[2]>> \in Nat \X Nat
  BY RefFacts
<1>1. C = Outside(g, BelowPart(g)) /\ D = Outside(g, AbovePart(g))
  BY <1>0 DEF Outside, BelowPart, AbovePart
<1>2. ASSUME Param(u[2], 1, 0) = 0
      PROVE  Obey(g, u) = [g EXCEPT !.cells = C]
  BY <1>2 DEF Obey, Clears, Moves, Without
<1>3. ASSUME Param(u[2], 1, 0) = 1
      PROVE  Obey(g, u) = [g EXCEPT !.cells = D]
  BY <1>3 DEF Obey, Clears, Moves, Without
<1> HIDE DEF C, D
<1>4. /\ [g EXCEPT !.cells = C] = RefAt(C, g.row, g.col)
      /\ [g EXCEPT !.cells = D] = RefAt(D, g.row, g.col)
  BY RefIs
<1> QED
  BY <1>1, <1>2, <1>3, <1>4

(* ECH and DCH take n cells.                                               *)
LEMMA EraseCells ==
  ASSUME NEW g, IsRef(g), NEW n \in Nat
  PROVE  Without(g, LAMBDA r, c : r = g.row /\ c \in g.col .. g.col + n - 1) =
           RefAt(Outside(g, RowPart(g, g.col, n)), g.row, g.col)
<1> DEFINE C == {x \in g.cells : ~(x[1] = g.row /\ x[2] \in g.col .. g.col + n - 1)}
<1>1. ASSUME NEW x \in g.cells
      PROVE  x[1] = g.row /\ x[2] \in g.col .. g.col + n - 1
               <=> <<x[1], x[2]>> \in RowPart(g, g.col, n)
  <2>1. x[1] \in Nat /\ x[2] \in Nat /\ g.col \in Nat
    BY RefFacts
  <2> QED
    BY <2>1 DEF RowPart
<1>2. C = Outside(g, RowPart(g, g.col, n))
  BY <1>1 DEF Outside
<1>3. Without(g, LAMBDA r, c : r = g.row /\ c \in g.col .. g.col + n - 1)
        = [g EXCEPT !.cells = C]
  BY DEF Without
<1> HIDE DEF C
<1>4. [g EXCEPT !.cells = C] = RefAt(C, g.row, g.col)
  BY RefIs
<1> QED
  BY <1>2, <1>3, <1>4
=============================================================================
