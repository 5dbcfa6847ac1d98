------------------------------ MODULE TextBuf ------------------------------
(***************************************************************************)
(* The text of a document as it is read line by line (textbuf.c), the      *)
(* attributes that go with it (textmod.h) and how both are fitted to a     *)
(* number of columns and written to the screen.                            *)
(*                                                                         *)
(* A text is a sequence of bytes, offsets begin at 0 and lines at 1.  What *)
(* the code tells apart of a byte is whether it is a space, a newline, the *)
(* end of the text, an escape, or part of a character.                     *)
(***************************************************************************)
EXTENDS Integers, Sequences, FiniteSets, SequencesExt

CONSTANTS
    X, Y,           \* bytes that are characters
    Lead, Cont,     \* the two bytes of one
    Sp, Nl, Esc, Nul

Byte       == {X, Y, Lead, Cont, Sp, Nl, Esc, Nul}
IsSpace(c) == c \in {Sp, Nl}
IsBreak(c) == IsSpace(c) \/ c = Esc

Least(S, else) == Min(S \cup {else})
At(text, off)  == text[off + 1]
From(text, a, b) == SubSeq(text, a + 1, b)     \* offsets a to b, b not included

Utf8Count(s) == Len(SelectSeq(s, LAMBDA c : c # Cont))

(* textbuf_append_line_indexes: the offsets of the newlines.               *)
append_line_indexes(text) ==
    SetToSortSeq({i \in 0..Len(text) - 1 : At(text, i) = Nl}, <)

TextBufOf(text, mods, off) ==
    [buf |-> text, eols |-> append_line_indexes(text), off |-> off,
     mods |-> mods, pattern |-> <<>>, last_range |-> <<0, 0>>]

line_count(tb) == IF tb.buf = <<>> THEN 0 ELSE Len(tb.eols) + 1

(* textbuf_get_line: the offsets of a line, its newline included.          *)
LineBegin(tb, n) == IF n = 1 THEN 0 ELSE tb.eols[n - 1] + 1
LineEnd(tb, n)   == IF n <= Len(tb.eols) THEN tb.eols[n] + 1 ELSE Len(tb.buf)
get_line(tb, n)  == From(tb.buf, LineBegin(tb, n), LineEnd(tb, n))
HasLine(tb, n)   == n \in 1..line_count(tb)

line_of_offset(tb, off) ==
    Least({i \in DOMAIN tb.eols : off <= tb.eols[i]}, Len(tb.eols) + 1)
current_line(tb) == line_of_offset(tb, tb.off)

-----------------------------------------------------------------------------
(* Fitting.  A piece of a line, what remains of it split, and the offsets  *)
(* that follow a newline that took the place of nothing.                   *)

Split(out, ins) == [out |-> out, ins |-> ins]
Shift(ins, n)   == [i \in DOMAIN ins |-> ins[i] + n]

(* Mutant: the byte of the break is dropped, whatever it is.               *)
insert_line_splitting_any(line, maxlen) ==
    LET f[off \in 0..Len(line)] ==
          LET stops == {l \in 1..maxlen : off + l < Len(line) /\ IsBreak(At(line, off + l))}
              n     == IF off + maxlen >= Len(line) THEN Len(line) - off
                       ELSE IF stops = {} THEN maxlen ELSE Max(stops)
              piece == Append(From(line, off, off + n), Nl)
              rest  == f[off + n + 1]
          IN  IF off + n >= Len(line) THEN Split(From(line, off, Len(line)), <<>>)
              ELSE Split(piece \o rest.out, Shift(rest.ins, n + 1))
    IN  f[0]

insert_line_splitting(line, maxlen) ==
    LET f[off \in 0..Len(line)] ==
          LET stops == {l \in 1..maxlen : off + l < Len(line) /\ IsBreak(At(line, off + l))}
              n     == IF off + maxlen >= Len(line) THEN Len(line) - off
                       ELSE IF stops = {} THEN maxlen ELSE Max(stops)
              piece == Append(From(line, off, off + n), Nl)
              drop  == IsSpace(At(line, off + n))
              rest  == f[off + n + (IF drop THEN 1 ELSE 0)]
          IN  IF off + n >= Len(line) THEN Split(From(line, off, Len(line)), <<>>)
              ELSE Split(piece \o rest.out,
                         (IF drop THEN <<>> ELSE <<n + 1>>) \o Shift(rest.ins, n + 1))
    IN  f[0]

(* Lines are told to fit by their characters, and split by their bytes.    *)
FitLine(line, maxlen) ==
    IF line # <<>> /\ Utf8Count(line) <= maxlen THEN Split(line, <<>>)
    ELSE insert_line_splitting(line, maxlen)

insert_missing_newlines(tb, maxlen) ==
    LET f[n \in 1..line_count(tb) + 1] ==
          LET line == FitLine(get_line(tb, n), maxlen)
              rest == f[n + 1]
          IN  IF n > line_count(tb) THEN Split(<<>>, <<>>)
              ELSE Split(line.out \o rest.out, line.ins \o Shift(rest.ins, Len(line.out)))
    IN  f[1]

(* Attributes are moved window by window: k insertions before them move    *)
(* them by k.  mods is the sequence of their offsets, m the first that was *)
(* not passed.                                                             *)
FirstFrom(mods, m, from) == Least({j \in m..Len(mods) : mods[j] >= from}, Len(mods) + 1)

MoveUpTo(st, from, to, k) ==
    LET m == FirstFrom(st.mods, st.m, from - k)
        e == FirstFrom(st.mods, m, to - k)
    IN  [m |-> e, mods |-> [j \in DOMAIN st.mods |-> st.mods[j] + (IF j \in m..e - 1 THEN k ELSE 0)]]

(* Mutant: what is moved by a window is where it was before it.            *)
move_mods_late(mods, ins) ==
    LET n == Len(ins)
        windows == FoldLeft(LAMBDA st, k : MoveUpTo(st, ins[k], ins[k + 1], k),
                            [m |-> 1, mods |-> mods], [k \in 1..n - 1 |-> k])
    IN  IF n = 0 THEN mods
        ELSE [j \in DOMAIN mods |-> windows.mods[j] + (IF j >= windows.m THEN 1 ELSE 0)]

move_mods(mods, ins) ==
    LET n == Len(ins)
        windows == FoldLeft(LAMBDA st, k : MoveUpTo(st, ins[k], ins[k + 1], k),
                            [m |-> 1, mods |-> mods], [k \in 1..n - 1 |-> k])
        m == IF n = 1 THEN FirstFrom(mods, 1, ins[1]) ELSE windows.m
    IN  IF n = 0 THEN mods
        ELSE [j \in DOMAIN mods |-> windows.mods[j] + (IF j >= m THEN n ELSE 0)]

(* Mutant: the lines are where they were.                                  *)
fit_lines_stale(tb, maxlen) ==
    LET fit == insert_missing_newlines(tb, maxlen)
    IN  IF tb.buf = <<>> THEN tb ELSE [tb EXCEPT !.buf = fit.out, !.mods = move_mods(tb.mods, fit.ins)]

(* textbuf_fit_lines: the current offset is left where it was.             *)
fit_lines(tb, maxlen) ==
    LET fit == insert_missing_newlines(tb, maxlen)
    IN  IF tb.buf = <<>> THEN tb
        ELSE [tb EXCEPT !.buf = fit.out, !.eols = append_line_indexes(fit.out),
                        !.mods = move_mods(tb.mods, fit.ins)]

-----------------------------------------------------------------------------
(* write_range_mod: lines with their attributes, each before the byte it   *)
(* is at.  What is written is a sequence of bytes and <<"mod", index>>.    *)

Mod(j) == <<"mod", j>>

(* The bytes from off to the end of a line, and the attributes from the    *)
(* j-th one: those at an offset are written before its byte, and those at  *)
(* the end of the line with it.                                            *)
LineWithMods(tb, begin, end, first) ==
    LET w[s \in (begin..end) \X (first..Len(tb.mods) + 1)] ==
          LET off == s[1]
              j   == s[2]
          IN  IF j <= Len(tb.mods) /\ tb.mods[j] = off THEN <<Mod(j)>> \o w[<<off, j + 1>>]
              ELSE IF off = end THEN <<>>
              ELSE <<At(tb.buf, off)>> \o w[<<off + 1, j>>]
    IN  w[<<begin, first>>]

(* A line whose first byte is the end of the text is not written.          *)
WriteLine(tb, n, it) ==
    LET begin == LineBegin(tb, n)
        end   == LineEnd(tb, n)
        first == FirstFrom(tb.mods, it, begin)
    IN  IF begin = end \/ At(tb.buf, begin) = Nul THEN [out |-> <<>>, it |-> it]
        ELSE [out |-> LineWithMods(tb, begin, end, first), it |-> FirstFrom(tb.mods, first, end + 1)]

(* The last thing written undoes all attributes, unless there are none.    *)
Reset == <<"reset", 0>>

write_range_mod(tb, beg, end, monochrome) ==
    LET step(st, n) == LET w == WriteLine(tb, n, st.it) IN [out |-> st.out \o w.out, it |-> w.it]
        lines == FoldLeft(step, [out |-> <<>>, it |-> 1], [i \in 1..end - beg + 1 |-> beg + i - 1])
        last  == get_line(tb, end)
    IN  lines.out \o (IF monochrome THEN <<>> ELSE <<Reset>>)
                  \o (IF last = <<>> \/ Last(last) = Nl THEN <<>> ELSE <<Nl>>)

(* _textbuf_print_n_: each line after its number.                          *)
Number(n) == <<"number", n>>

print_n(tb, beg, end) ==
    LET numbered(n) == <<Number(n)>> \o (IF get_line(tb, n) = <<>> THEN <<Nl>> ELSE get_line(tb, n))
    IN  FoldLeft(LAMBDA out, n : out \o numbered(n), <<>>, [i \in 1..end - beg + 1 |-> beg + i - 1])
        \o (IF end = line_count(tb) THEN <<Nl>> ELSE <<>>)
=============================================================================
