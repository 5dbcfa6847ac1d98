------------------------------- MODULE Tables -------------------------------
(***************************************************************************)
(* How a table is laid out in the columns of the screen (htmldoc.c, from   *)
(* DrawTable to draw_splitted_table): the widths of its columns, their     *)
(* reduction, the breaks put in its cells, the views of the lines of each  *)
(* cell with their attributes, and the lines drawn from them.              *)
(*                                                                         *)
(* A table is a sequence of rows and a row a sequence of cells, which are  *)
(* buffers; `span` is a partial function from <<row, column>> to the span  *)
(* read from the page, or to zero for a column covered by another cell.    *)
(***************************************************************************)
EXTENDS DrawBuf

Unfit     == "could not fit table in screen"
ZeroWidth == "error: not expecting zero length cell"
BadMod    == "error: bad text mod displacement"
Narrow    == "error: column length computation failed"

CONSTANT MIN_COL_WIDTH
ASSUME MinColWidthAssumption == MIN_COL_WIDTH \in Nat

Span(span, r, c) == IF <<r, c>> \in DOMAIN span THEN span[<<r, c>>] ELSE 1
Spanning(span)   == {rc \in DOMAIN span : span[rc] > 1}
Columns(table)   == Max({0} \cup {Len(table[r]) : r \in DOMAIN table})
Total(ws)        == FoldSeq(+, 0, ws)
SpanSum(ws, c, s) == Total(SubSeq(ws, c, Min({c + s - 1, Len(ws)})))

\* The widest line of every column, of the cells that span others as well.
UnsplitWidths(table) ==
  [c \in 1..Columns(table) |->
     Max({0} \cup {BufWidth(table[r][c]) : r \in {r \in DOMAIN table : c <= Len(table[r])}})]

----------------------------------------------------------------------------
\* Columns are halved, then cut in three and so on, the widest first, until what
\* exceeds the screen is gone; the last one loses only what is left to lose.

SplitWidth(w) == w.w \div (1 + w.splits)

\* The comparison is of the width with the cuts of the other added.
Widest(ws) ==
  LET key(i) == SplitWidth(ws[i]) - ws[i].splits
  IN  CHOOSE i \in DOMAIN ws : /\ \A j \in DOMAIN ws : key(j) <= key(i)
                               /\ \A j \in 1..i - 1 : key(j) < key(i)

RECURSIVE Shrink(_, _)
Shrink(ws, exceeding) ==
  LET i    == Widest(ws)
      prev == SplitWidth(ws[i])
      cut  == [ws EXCEPT ![i].splits = @ + 1]
      w    == SplitWidth(cut[i])
      lost == prev - w
  IN  IF prev = 0 \/ w <= MIN_COL_WIDTH THEN <<>>
      ELSE IF lost > exceeding
      THEN [ws EXCEPT ![i] = [w |-> prev - exceeding, splits |-> 0]]
      ELSE IF lost = exceeding THEN cut
      ELSE Shrink(cut, exceeding - lost)

\* A break replaces a space, or, where a word is longer than the column, one
\* of its characters.
RECURSIVE BreakFrom(_, _, _, _)
BreakFrom(s, p, e, length) ==
  LET n  == e - p + 1
      nl == {i \in p..Min({e, p + length}) : s[i][1] = "n"}
      sp == {i \in p + 1..p + Min({n, length - 1}) : Space(s[i])}
  IN  IF n <= length THEN [s |-> s, e |-> Ok]
      ELSE IF nl # {} THEN BreakFrom(s, Min(nl) + 1, e, length)
      ELSE IF sp # {}
      THEN BreakFrom([s EXCEPT ![Max(sp)] = <<"n", 0>>], Max(sp) + 1, e, length)
      ELSE IF n <= 3 THEN [s |-> s, e |-> Unfit]
      ELSE BreakFrom([s EXCEPT ![p + length - 1] = <<"n", 0>>], p + length, e, length)

\* The cell at <<r, c>> of the table broken in lines of `length`.
SplitCell(x, r, c, length) ==
  LET cell == x.table[r][c]
      left == cell.trim + LeftSpaces(View(cell))
      done == BreakFrom(cell.s, left + 1, Len(CutRight(cell.s)), length)
  IN  IF x.e # Ok THEN x
      ELSE IF length = 0 THEN [x EXCEPT !.e = ZeroWidth]
      ELSE [table |-> [x.table EXCEPT ![r][c].s = done.s], e |-> done.e]

\* Every cell of a column that was drawn, the rows from the first.
SplitColumn(x, ws, span, c) ==
  LET length(r) == LET k == Span(span, r, c)
                   IN  CASE k = 0 -> Len(ws) [] k = 1 -> ws[c] [] OTHER -> SpanSum(ws, c, k)
      rows      == {r \in DOMAIN x.table : c <= Len(x.table[r]) /\ x.table[r][c].s # <<>>}
  IN  FoldLeft(LAMBDA y, r : SplitCell(y, r, c, length(r)), x, InOrder(Len(x.table), rows))

\* The spanning cells in the order the page has them.
SpanOrder(span) ==
  SetToSortSeq(Spanning(span), LAMBDA a, b : a[1] < b[1] \/ (a[1] = b[1] /\ a[2] < b[2]))

SplitSpans(x, ws, span) ==
  FoldLeft(LAMBDA y, rc : LET length == SpanSum(ws, rc[2], span[rc])
                          IN  IF length = 0 THEN y ELSE SplitCell(y, rc[1], rc[2], length),
           x, SpanOrder(span))

Fit(table, cols, span) ==
  IF cols = <<>> THEN [table |-> table, e |-> Unfit]
  ELSE SplitSpans(FoldLeft(LAMBDA x, c : SplitColumn(x, cols, span, c),
                           [table |-> table, e |-> Ok], [c \in DOMAIN cols |-> c]),
                  cols, span)
Cut(cols) == [c \in DOMAIN cols |-> SplitWidth(cols[c])]

FitWidths(table, ws, ncols, span) ==
  LET total == Total(ws) + Len(ws)
  IN  IF total <= ncols THEN SplitSpans([table |-> table, e |-> Ok], ws, span)
      ELSE Fit(table, Cut(Shrink([c \in DOMAIN ws |-> [w |-> ws[c], splits |-> 0]], total - ncols)),
               span)

FitToScreen(table, ncols, span) == FitWidths(table, UnsplitWidths(table), ncols, span)

----------------------------------------------------------------------------
\* The lines of a cell, each with the attributes in force where it begins, those
\* that fall in it, and a reset at its end.

SinceReset(mods, m) ==          \* the attributes before the m-th, from the last reset
  LET resets == {k \in 2..m - 1 : mods[k][2] = "reset"}
  IN  IF m = 1 THEN <<>>
      ELSE SubSeq(mods, IF resets = {} THEN 1 ELSE Max(resets), m - 1)

NextMod(mods, m, offset) ==     \* the first from the m-th that is past an offset
  CHOOSE k \in m..Len(mods) + 1 : /\ \A i \in m..k - 1 : mods[i][1] <= offset
                                  /\ k <= Len(mods) => mods[k][1] > offset

WithPart(line, before, here, offset, rest) ==
  IF \E i \in DOMAIN here : here[i][1] < offset THEN [rest EXCEPT !.e = BadMod]
  ELSE [rest EXCEPT !.parts =
          << [EmptyBuf EXCEPT
                !.s    = line,
                !.mods = [i \in DOMAIN before |-> <<0, before[i][2]>>]
                         \o Displaced(here, -offset) \o << <<Len(line), "reset">> >>] >> \o @]

RECURSIVE PartsFrom(_, _, _, _)
PartsFrom(lines, mods, m, offset) ==
  IF lines = <<>> THEN [parts |-> <<>>, e |-> Ok, m |-> m, offset |-> offset]
  ELSE LET end  == offset + Len(Head(lines))
           next == NextMod(mods, m, end)
       IN  WithPart(Head(lines), SinceReset(mods, m), SubSeq(mods, m, next - 1), offset,
                    PartsFrom(Tail(lines), mods, next, end + 1))

\* Attributes past the last line go to it.
WithTail(x, left) ==
  IF x.parts = <<>> \/ x.e # Ok THEN x
  ELSE IF \E i \in DOMAIN left : left[i][1] < x.offset THEN [x EXCEPT !.e = BadMod]
  ELSE [x EXCEPT !.parts[Len(x.parts)].mods = @ \o Displaced(left, -x.offset)]

PartsOf(x, mods) == WithTail(x, SubSeq(mods, x.m, Len(mods)))
Parts(cell) ==
  LET text == Trimmed(View(cell))
  IN  PartsOf(PartsFrom(Lines(text), cell.mods, 1, Len(View(cell)) - Len(text)), cell.mods)

----------------------------------------------------------------------------
\* The widths drawn: those of the lines of the cells that span no other, then
\* more for the first column of a spanning cell that does not fit.

PartWidths(view, span) ==
  [c \in 1..Columns(view) |->
     Max({0} \cup UNION {{Len(Trimmed(view[r][c][k].s)) : k \in DOMAIN view[r][c]} :
                         r \in {r \in DOMAIN view : c <= Len(view[r]) /\ Span(span, r, c) <= 1}})]

Grow(x, c, s, w) ==
  LET more == w - SpanSum(x.ws, c, s)
  IN  IF x.e # Ok \/ w <= x.ws[c] \/ more <= 0 THEN x
      ELSE IF more > x.left THEN [x EXCEPT !.e = Unfit]
      ELSE [x EXCEPT !.left = @ - more, !.ws[c] = @ + more]

ExpandForSpans(table, ncols, span, ws) ==
  LET left == ncols - Total(ws) - (Len(ws) - 1)
      x    == [ws |-> ws, left |-> left, e |-> Ok]
  IN  IF ws = <<>> THEN x
      ELSE IF left < 0 THEN [x EXCEPT !.e = Unfit]
      ELSE FoldLeft(LAMBDA y, rc : Grow(y, rc[2], span[rc], BufWidth(table[rc[1]][rc[2]])),
                    x, SpanOrder(span))

(* Mutant: a cell with fewer lines than its row is not padded.             *)
DrawCellPart_short(x, cell, k, c, s, ws) ==
  LET here == SpanSum(ws, c, s)
      last == IF c - 1 + s >= Len(ws) THEN 1 ELSE 0
      part == cell[k]
      pad  == [i \in 1..s - last + here - Len(Trimmed(part.s)) |-> <<"s", 0>>]
  IN  IF x.e # Ok \/ s = 0 \/ k > Len(cell) THEN x
      ELSE IF here < Len(Trimmed(part.s)) THEN [x EXCEPT !.e = Narrow]
      ELSE [x EXCEPT !.b = Write(AppendSub(@, part), pad)]

\* Each row as many times as its tallest cell has lines, cell by cell, padded.
DrawCellPart(x, cell, k, c, s, ws) ==
  LET here == SpanSum(ws, c, s)
      part == IF k <= Len(cell) THEN cell[k] ELSE EmptyBuf
      w    == Len(Trimmed(part.s))
      last == IF c - 1 + s >= Len(ws) THEN 1 ELSE 0
      pad  == [i \in 1..s - last + here - w |-> <<"s", 0>>]
  IN  IF x.e # Ok \/ s = 0 THEN x
      ELSE IF here < w THEN [x EXCEPT !.e = Narrow]
      ELSE [x EXCEPT !.b = Write(IF part.s = <<>> THEN @ ELSE AppendSub(@, part), pad)]

DrawSplit(b, view, ws, span) ==
  LET line(x, r, k) ==
        LET y == FoldLeft(LAMBDA z, c : DrawCellPart(z, view[r][c], k, c, Span(span, r, c), ws),
                          x, [c \in DOMAIN view[r] |-> c])
        IN  IF y.e # Ok THEN y ELSE [y EXCEPT !.b = Write(@, NL)]
      height(r) == Max({0} \cup {Len(view[r][c]) : c \in DOMAIN view[r]})
      row(x, r) == FoldLeft(LAMBDA z, k : line(z, r, k), x, [k \in 1..height(r) |-> k])
  IN  FoldLeft(row, [b |-> b, e |-> Ok], [r \in DOMAIN view |-> r])

\* A table drawn at the end of a buffer, after its caption and what it held
\* that no table can hold.  On an error nothing of it is drawn, but for an error
\* of the last step.
OnNewLine(b)        == IF EndsWithNewline(b) THEN b ELSE Write(b, NL)
AfterAside(b, aside) == OnNewLine(IF Trimmed(View(aside)) = <<>> THEN b ELSE AppendSub(b, aside))
DrawWide(b, head, aside, view, wide, span) ==
  IF wide.e # Ok THEN [b |-> b, e |-> wide.e]
  ELSE DrawSplit(AfterAside(AppendSub(b, Write(head, NL)), aside), view, wide.ws, span)

DrawView(b, head, aside, table, view, ncols, span) ==
  DrawWide(b, head, aside, view, ExpandForSpans(table, ncols, span, PartWidths(view, span)), span)

DrawCells(b, head, aside, table, cells, ncols, span) ==
  IF \E r \in DOMAIN cells : \E c \in DOMAIN cells[r] : cells[r][c].e # Ok
  THEN [b |-> b, e |-> BadMod]
  ELSE DrawView(b, head, aside, table,
                [r \in DOMAIN cells |-> [c \in DOMAIN cells[r] |-> cells[r][c].parts]], ncols, span)

(* Mutant: what the table cannot hold is drawn before the table is known to fit.*)
DrawFit_early(b, head, aside, fit, ncols, span) ==
  IF fit.e # Ok THEN [b |-> AfterAside(b, aside), e |-> fit.e]
  ELSE DrawCells(b, head, aside, fit.table,
                 [r \in DOMAIN fit.table |-> [c \in DOMAIN fit.table[r] |-> Parts(fit.table[r][c])]],
                 ncols, span)

DrawFit(b, head, aside, fit, ncols, span) ==
  IF fit.e # Ok THEN [b |-> b, e |-> fit.e]
  ELSE DrawCells(b, head, aside, fit.table,
                 [r \in DOMAIN fit.table |-> [c \in DOMAIN fit.table[r] |-> Parts(fit.table[r][c])]],
                 ncols, span)

LayOut(b, table, span, head, aside, ncols) ==
  DrawFit(b, head, aside, FitToScreen(table, ncols, span), ncols, span)
=============================================================================
