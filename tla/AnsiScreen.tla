----------------------------- MODULE AnsiScreen -----------------------------
(***************************************************************************)
(* The picture that a pump keeps of a worker's terminal                    *)
(* (internal/bridge/ansi_renderer.go), fed by the batches of pumpOutput.   *)
(* The worker writes whole units, a text or a control sequence; a batch    *)
(* begins and ends anywhere in them.  The screen is a sparse map of ragged *)
(* lines; beside it a reference, a set of cells, takes every unit once and *)
(* as a whole, and what a flush shows is compared with it.                 *)
(*                                                                         *)
(* A byte is a token: a printed character, a control by its name, "hi" and *)
(* "lo" the two bytes of the rune "e'", a parameter of a sequence one      *)
(* token ("?1049"), its separators left out.  Rows and columns are         *)
(* unbounded, as they are in the code.                                     *)
(***************************************************************************)
EXTENDS Integers, Sequences, FiniteSetsExt

CONSTANTS
  MaxBatch,               \* bytes of a batch that shows nothing: 1 MiB
  MaxUnits                \* bound: units the worker writes

ASSUME BoundsAssumption == MaxBatch \in Nat /\ MaxUnits \in Nat

VARIABLES
  stream,                 \* "stdout", whose screen is kept, or "stderr"
  unit, done,             \* the unit being read, how many bytes of it were
  batch,                  \* the bytes the pump has gathered
  kept,                   \* how many of them a flush has applied and kept
  due,                    \* the timers of the pump that run
  screen,                 \* ansiScreen
  ref,                    \* history: the reference, on what was read
  bad,                    \* history: the picture may be wrong, until the
                          \* worker clears it: see PictureIsTheStream
  units                   \* units written

vars == <<stream, unit, done, batch, kept, due, screen, ref, bad, units>>

Blank == " "
Blanks(n) == [i \in 1 .. n |-> Blank]
NoRows == [r \in {} |-> <<>>]
Reset == [rows |-> NoRows, row |-> 0, col |-> 0]
RefReset == [cells |-> {}, row |-> 0, col |-> 0]

-----------------------------------------------------------------------------
(* The bytes, with what may be printed of them, and the units that the     *)
(* worker writes: <<kind, arguments, final byte>>.                         *)

Controls == {"LF", "CR", "TAB", "BS", "BEL", "ESC", "hi", "lo"}
Params == {"1", "2", "?1049"}
Finals == {"A", "B", "C", "D", "G", "H", "K", "J", "P", "@", "X", "h", "c"}
Tokens ==
  Controls \cup Params \cup Finals \cup {Blank, "a", "b", "e'", "[", "]"}

Text(bytes) == <<"text", bytes, "">>
Csi(params, final) == <<"csi", params, final>>

Units ==
  {Text(<<"a">>), Text(<<"a", "LF", "LF", "b", "c">>), Text(<<"CR">>),
   Text(<<"TAB">>), Text(<<"BS">>), <<"rune", <<>>, "e'">>,
   <<"esc", <<>>, "c">>, <<"osc", <<>>, "BEL">>,
   Csi(<<>>, "A"), Csi(<<>>, "B"), Csi(<<>>, "C"), Csi(<<>>, "D"),
   Csi(<<"2">>, "G"), Csi(<<>>, "H"), Csi(<<"2", "2">>, "H"),
   Csi(<<>>, "K"), Csi(<<"1">>, "K"), Csi(<<"2">>, "K"),
   Csi(<<>>, "J"), Csi(<<"1">>, "J"), Csi(<<"2">>, "J"),
   Csi(<<>>, "P"), Csi(<<>>, "@"), Csi(<<>>, "X"),
   Csi(<<"?1049">>, "h")}
NoUnit == Text(<<>>)

Bytes(u) ==
  CASE u[1] = "text" -> u[2]
    [] u[1] = "rune" -> <<"hi", "lo">>
    [] u[1] = "esc" -> <<"ESC", u[3]>>
    [] u[1] = "osc" -> <<"ESC", "]">> \o u[2] \o <<u[3]>>
    [] u[1] = "csi" -> <<"ESC", "[">> \o u[2] \o <<u[3]>>

-----------------------------------------------------------------------------
(* The screen.                                                             *)

(* ensureRowCol: the line of the cursor, filled up to its column.          *)
Line(s) ==
  LET line == IF s.row \in DOMAIN s.rows THEN s.rows[s.row] ELSE <<>>
  IN  line \o Blanks(s.col - Len(line))

SetLine(s, line) ==
  [s EXCEPT !.rows = [r \in DOMAIN s.rows \cup {s.row} |->
                        IF r = s.row THEN line ELSE s.rows[r]]]

WriteRune(s, ch) ==
  LET line == Line(s)
  IN  [SetLine(s, IF s.col < Len(line) THEN [line EXCEPT ![s.col + 1] = ch]
                                       ELSE Append(line, ch))
       EXCEPT !.col = @ + 1]

EraseInLine(s, mode) ==
  LET line == Line(s) IN
  CASE mode = 0 -> SetLine(s, SubSeq(line, 1, s.col))
    [] mode = 1 -> SetLine(s, [i \in DOMAIN line |->
                                 IF i <= s.col + 1 THEN Blank ELSE line[i]])
    [] mode = 2 -> [SetLine(s, <<>>) EXCEPT !.col = 0]
    [] OTHER -> SetLine(s, line)

OnlyRows(s, R(_)) ==
  [s EXCEPT !.rows = [r \in {k \in DOMAIN s.rows : R(k)} |-> s.rows[r]]]

(* Erasing below ends at the first row that is not in the map.             *)
EraseInDisplay(s, mode) ==
  CASE mode \in {2, 3} -> Reset
    [] mode = 0 ->
         LET t == EraseInLine(s, 0)
         IN  OnlyRows(t, LAMBDA r :
               r > s.row => ~(s.row .. r \subseteq DOMAIN t.rows))
    [] mode = 1 -> OnlyRows(EraseInLine(s, 1), LAMBDA r : r >= s.row)
    [] OTHER -> s

DeleteChars(s, n) ==
  LET line == Line(s) IN
  SetLine(s, SubSeq(line, 1, s.col) \o SubSeq(line, s.col + n + 1, Len(line)))

InsertSpaces(s, n) ==
  LET line == Line(s) IN
  SetLine(s, SubSeq(line, 1, s.col) \o Blanks(n)
               \o SubSeq(line, s.col + 1, Len(line)))

EraseChars(s, n) ==
  LET line == Line(s) IN
  SetLine(s, [i \in DOMAIN line |->
                IF i \in s.col + 1 .. s.col + n THEN Blank ELSE line[i]])

Value == [v \in Params |->
            CASE v = "1" -> 1 [] v = "2" -> 2 [] v = "?1049" -> 1049]
Param(params, k, default) ==
  IF k <= Len(params) /\ params[k] \in DOMAIN Value
  THEN Value[params[k]] ELSE default

Back(i, n) == IF i > n THEN i - n ELSE 0

(* Mutant of Moved: the cursor is not held at the left edge.               *)
MovedOff(s, params, final) ==
  IF final = "D" THEN [s EXCEPT !.col = @ - Param(params, 1, 1)] ELSE s

(* The sequences that move the cursor: CUU, CUD, CUF, CUB, CHA and CUP.    *)
Moves == {"A", "B", "C", "D", "G", "H", "f"}
Moved(s, params, final) ==
  LET n == Param(params, 1, 1) IN
  CASE final = "A" -> [s EXCEPT !.row = Back(@, n)]
    [] final = "B" -> [s EXCEPT !.row = @ + n]
    [] final = "C" -> [s EXCEPT !.col = @ + n]
    [] final = "D" -> [s EXCEPT !.col = Back(@, n)]
    [] final = "G" -> [s EXCEPT !.col = n - 1]
    [] final \in {"H", "f"} ->
         [s EXCEPT !.row = n - 1, !.col = Param(params, 2, 1) - 1]

AltScreen(params) == \E k \in DOMAIN params : params[k] = "?1049"

ApplyCSI(s, params, final) ==
  LET n == Param(params, 1, 1)
      mode == Param(params, 1, 0)
  IN  CASE final \in Moves -> Moved(s, params, final)
        [] final = "K" -> EraseInLine(s, mode)
        [] final = "J" -> EraseInDisplay(s, mode)
        [] final = "P" -> DeleteChars(s, n)
        [] final = "@" -> InsertSpaces(s, n)
        [] final = "X" -> EraseChars(s, n)
        [] final \in {"h", "l"} /\ AltScreen(params) -> Reset
        [] OTHER -> s

-----------------------------------------------------------------------------
(* applyANSIToScreen and consumeANSIEscape, byte by byte: a sequence that  *)
(* is not complete at the end of the input is consumed without effect.     *)
(* Left out: the other end of an OSC, ESC \.                               *)

NotFinal == Controls \cup Params
Newline(s) == [s EXCEPT !.row = @ + 1, !.col = 0]
Tab(s) ==
  LET Once(t) == WriteRune(t, Blank) IN Once(Once(Once(Once(s))))

Ground(s, b) ==
  CASE b = "LF" -> Newline(s)
    [] b = "CR" -> [s EXCEPT !.col = 0]
    [] b = "TAB" -> Tab(s)
    [] b = "BS" -> [s EXCEPT !.col = Back(@, 1)]
    [] b \in {"ESC", "BEL", "hi", "lo"} -> s
    [] OTHER -> WriteRune(s, b)

At(s, mode, params) == [screen |-> s, mode |-> mode, params |-> params]

OnGround(s, b) ==
  At(Ground(s, b),
     CASE b = "ESC" -> "esc" [] b = "hi" -> "rune" [] OTHER -> "ground", <<>>)

Step(p, b) ==
  LET s == p.screen IN
  CASE p.mode = "ground" -> OnGround(s, b)
    [] p.mode = "rune" ->
         IF b = "lo" THEN At(WriteRune(s, "e'"), "ground", <<>>)
         ELSE OnGround(s, b)
    [] p.mode = "esc" ->
         At(IF b = "c" THEN Reset ELSE s,
            CASE b = "[" -> "csi" [] b = "]" -> "osc" [] OTHER -> "ground", <<>>)
    [] p.mode = "csi" ->
         IF b \in NotFinal THEN At(s, "csi", Append(p.params, b))
         ELSE At(ApplyCSI(s, p.params, b), "ground", <<>>)
    [] p.mode = "osc" -> At(s, IF b = "BEL" THEN "ground" ELSE "osc", <<>>)

(* The parser before the first byte and after each.                        *)
Parse(s, bytes) ==
  LET p[k \in 0 .. Len(bytes)] ==
        IF k = 0 THEN At(s, "ground", <<>>) ELSE Step(p[k - 1], bytes[k])
  IN  p

Feed(s, bytes) == Parse(s, bytes)[Len(bytes)].screen

(* lines: the rows that are not blank, without the blanks at their end,    *)
(* under the numbers that the code sorts them by.                          *)
Lines(s) ==
  LET ink(r) == {i \in DOMAIN s.rows[r] : s.rows[r][i] # Blank}
  IN  [r \in {k \in DOMAIN s.rows : ink(k) # {}} |->
        SubSeq(s.rows[r], 1, Max(ink(r)))]

-----------------------------------------------------------------------------
(* The reference: a cell <<row, column, character>> for every character.   *)

Without(g, Gone(_, _)) == [g EXCEPT !.cells = {x \in @ : ~Gone(x[1], x[2])}]
Shift(g, from, n) ==
  [g EXCEPT !.cells = {IF x[1] = g.row /\ x[2] >= from
                       THEN <<x[1], x[2] + n, x[3]>> ELSE x : x \in @}]

Type(g, b) ==
  LET here == Without(g, LAMBDA r, c : r = g.row /\ c = g.col) IN
  CASE b = "LF" -> Newline(g)
    [] b = "CR" -> [g EXCEPT !.col = 0]
    [] b = "TAB" ->
         [Without(g, LAMBDA r, c : r = g.row /\ c \in g.col .. g.col + 3)
          EXCEPT !.col = @ + 4]
    [] b = "BS" -> [g EXCEPT !.col = Back(@, 1)]
    [] OTHER ->
         [here EXCEPT !.cells = @ \cup {<<g.row, g.col, b>>}, !.col = @ + 1]

Clears(u) ==
  \/ u[1] = "esc" /\ u[3] = "c"
  \/ u[1] = "csi" /\ u[3] = "J" /\ Param(u[2], 1, 0) \in {2, 3}
  \/ u[1] = "csi" /\ u[3] \in {"h", "l"} /\ AltScreen(u[2])

ErasesBelow(u) == u[1] = "csi" /\ u[3] = "J" /\ Param(u[2], 1, 0) = 0

Obey(g, u) ==
  LET n == Param(u[2], 1, 1)
      mode == Param(u[2], 1, 0)
      erase == Without(g, LAMBDA r, c : r = g.row /\ c \in g.col .. g.col + n - 1)
  IN  IF Clears(u) THEN RefReset ELSE
      CASE u[1] = "rune" -> Type(g, u[3])
        [] u[1] = "csi" /\ u[3] \in Moves -> Moved(g, u[2], u[3])
        [] u[1] = "csi" /\ u[3] = "K" ->
             [Without(g, LAMBDA r, c : /\ r = g.row
                                       /\ mode = 0 => c >= g.col
                                       /\ mode = 1 => c <= g.col)
              EXCEPT !.col = IF mode = 2 THEN 0 ELSE @]
        [] u[1] = "csi" /\ u[3] = "J" ->
             Without(g, LAMBDA r, c :
               IF mode = 0 THEN r > g.row \/ (r = g.row /\ c >= g.col)
                           ELSE r < g.row \/ (r = g.row /\ c <= g.col))
        [] u[1] = "csi" /\ u[3] = "P" -> Shift(erase, g.col, 0 - n)
        [] u[1] = "csi" /\ u[3] = "@" -> Shift(g, g.col, n)
        [] u[1] = "csi" /\ u[3] = "X" -> erase
        [] OTHER -> g

RefLines(g) ==
  LET in(r) == {x \in g.cells : x[1] = r}
      ch(r, c) == {x[3] : x \in {y \in in(r) : y[2] = c}}
  IN  [r \in {x[1] : x \in g.cells} |->
        [i \in 1 .. Max({x[2] + 1 : x \in in(r)}) |->
          IF ch(r, i - 1) = {} THEN Blank ELSE CHOOSE b \in ch(r, i - 1) : TRUE]]

(* A row below the cursor that shows something, after one that does not.   *)
Gap(g) ==
  \E x \in g.cells : \E r \in g.row + 1 .. x[1] : \A y \in g.cells : y[1] # r

-----------------------------------------------------------------------------
Init ==
  /\ stream \in {"stdout", "stderr"}
  /\ unit = NoUnit /\ done = 0
  /\ batch = <<>> /\ kept = 0 /\ due = {}
  /\ screen = Reset /\ ref = RefReset
  /\ bad = FALSE
  /\ units = 0

Write(u) ==
  /\ done = Len(Bytes(unit))
  /\ units < MaxUnits
  /\ units' = units + 1
  /\ unit' = u /\ done' = 0
  /\ UNCHANGED <<stream, batch, kept, due, screen, ref, bad>>

(* The pump takes a chunk; chunks of one byte make every batch possible.   *)
Read ==
  LET byte == Bytes(unit)[done + 1]
      last == done + 1 = Len(Bytes(unit))
  IN  /\ done < Len(Bytes(unit))
      /\ batch' = Append(batch, byte)
      /\ due' = due \cup {"idle"} \cup (IF batch = <<>> THEN {"hard"} ELSE {})
      /\ unit' = IF last THEN NoUnit ELSE unit
      /\ done' = IF last THEN 0 ELSE done + 1
      /\ ref' = IF unit[1] = "text" THEN Type(ref, byte)
                ELSE IF last THEN Obey(ref, unit) ELSE ref
      /\ bad' = IF last /\ Clears(unit) /\ Len(batch') > done THEN FALSE
                ELSE bad \/ (last /\ ErasesBelow(unit) /\ Gap(ref))
      /\ UNCHANGED <<stream, kept, screen, units>>

(* renderBatchToLinesWithState: stderr has no screen and gets a new one.   *)
Base == IF stream = "stdout" THEN screen ELSE Reset
Rendered == Feed(Base, batch)

(* Batches that would not be the same, applied once or applied again.      *)
Again == stream = "stdout" /\ Feed(screen, SubSeq(batch, 1, kept)) # screen
Cut == unit[1] # "text" /\ done > 0

(* flushBatch: a batch that shows nothing is kept, up to MaxBatch bytes;   *)
(* the timer that has not fired may flush it again.                        *)
FlushOf(base, timer) ==
  LET after == Feed(base, batch) IN
  /\ screen' = IF stream = "stdout" THEN after ELSE screen
  /\ IF DOMAIN Lines(after) = {} /\ Len(batch) <= MaxBatch
     THEN /\ kept' = Len(batch)
          /\ due' = due \ {timer}
          /\ bad' = (bad \/ Again)
          /\ UNCHANGED <<batch, ref>>
     ELSE /\ batch' = <<>> /\ kept' = 0 /\ due' = {}
          /\ bad' = (Cut \/ (stream = "stdout" /\ (bad \/ Again)))
          /\ ref' = IF stream = "stdout" THEN ref ELSE RefReset
  /\ UNCHANGED <<stream, unit, done, units>>

(* Mutant of Flush: every batch is drawn on a screen of its own.           *)
FlushAnew == \E timer \in due : FlushOf(Reset, timer)

Flush == \E timer \in due : FlushOf(Base, timer)

Next == Read \/ Flush \/ \E u \in Units : Write(u)

Spec == Init /\ [][Next]_vars

-----------------------------------------------------------------------------
IsScreen(s) ==
  /\ s \in [rows : {s.rows}, row : Nat, col : Nat]
  /\ DOMAIN s.rows \subseteq Nat
  /\ s.rows \in [DOMAIN s.rows -> Seq(Tokens)]

IsRef(g) == g \in [cells : SUBSET (Nat \X Nat \X Tokens), row : Nat, col : Nat]

TypeOK ==
  /\ stream \in {"stdout", "stderr"}
  /\ unit \in Units \cup {NoUnit}
  /\ done \in 0 .. Len(Bytes(unit))
  /\ batch \in Seq(Tokens)
  /\ kept \in 0 .. Len(batch)
  /\ due \subseteq {"idle", "hard"}
  /\ IsScreen(screen)
  /\ IsRef(ref)
  /\ bad \in BOOLEAN
  /\ units \in 0 .. MaxUnits

(* Whenever a flush comes, it shows what the worker has drawn, each        *)
(* control sequence obeyed once, wherever the batches are cut.  Except     *)
(* since the last clear: a batch that was sent ended inside a sequence, a  *)
(* batch that was kept does more when it is applied again, or an erase     *)
(* below met a row without a line.                                         *)
PictureIsTheStream == bad \/ Again \/ Lines(Rendered) = RefLines(ref)
=============================================================================
