------------------------------- MODULE Ranges -------------------------------
(***************************************************************************)
(* The range at the beginning of a command: how it is read (range-parse.c) *)
(* and what it is a range of, lines of a text (textbuf.c) or numbered      *)
(* nodes of a document (ranges.h).                                         *)
(*                                                                         *)
(* A line is a sequence of tokens: signs, digits, letters, and one number  *)
(* that is too large for a size.                                           *)
(***************************************************************************)
EXTENDS TextBuf

CONSTANTS
    SizeMod,        \* one more than the largest size: sums of sizes wrap
    IntMod,         \* the values of an int
    DigitOf,        \* the value of a digit
    LetterOf,       \* the value of a letter in base 36
    ByteOf          \* the byte a letter of a pattern stands for

ASSUME RangesAssumption ==
    /\ SizeMod \in Nat /\ IntMod \in Nat /\ IntMod % 2 = 0
    /\ \A n \in DOMAIN DigitOf : DigitOf[n] \in 0..9
    /\ \A l \in DOMAIN LetterOf : LetterOf[l] \in 10..35

TooLarge == "huge"
Digits   == DOMAIN DigitOf \cup {TooLarge}
Letters  == DOMAIN LetterOf

Token(tk, i)     == IF i > Len(tk) THEN "end" ELSE tk[i]
SkipSpace(tk, i) == Least({j \in i..Len(tk) : tk[j] # " "}, Max({i, Len(tk) + 1}))

Addr(tag)     == [tag |-> tag, n |-> 0, s |-> <<>>, delta |-> 0]
NoAddr        == Addr("none")
RangeOf(b, e) == [beg |-> b, end |-> e]

(* What reading gives: an error or what was read, where the rest begins    *)
(* and errno, which only says that a number was too large.                 *)
Read(x, i, errno) == [err |-> "Ok", val |-> x, at |-> i, errno |-> errno]
Fail(err, errno)  == [err |-> err, val |-> NoAddr, at |-> 0, errno |-> errno]

(* strtoull: the number that begins at i, cut at the first size too large. *)
IsDigit(t, base) == t \in Digits \/ (base = 36 /\ t \in Letters)
DigitValue(t)    == IF t \in Letters THEN LetterOf[t] ELSE DigitOf[t]
NumberEnd(tk, i, base) == Least({j \in i..Len(tk) : ~IsDigit(tk[j], base)}, Max({i, Len(tk) + 1}))
NumberAt(tk, i, base)  ==
    FoldLeft(LAMBDA n, t : IF t = TooLarge \/ n = SizeMod THEN SizeMod ELSE Min({SizeMod, n * base + DigitValue(t)}),
             0, SubSeq(tk, i, NumberEnd(tk, i, base) - 1))

(* An int, and what a number is when it is made one: only one that is too  *)
(* large is refused before it, and never one that is too small.            *)
Ints     == -(IntMod \div 2)..IntMod \div 2 - 1
AsInt(n) == ((n + (IntMod \div 2)) % IntMod) - (IntMod \div 2)

(* _parse_range_addr_delta_                                                *)
parse_delta(tk, i, a, errno) ==
    LET j    == SkipSpace(tk, i)
        sign == IF Token(tk, j) = "-" THEN -1 ELSE 1
        n    == NumberAt(tk, j + 1, 10)
    IN  IF Token(tk, j) \notin {"+", "-"} THEN Read(a, j, errno)
        ELSE IF ~IsDigit(Token(tk, j + 1), 10) THEN Read([a EXCEPT !.delta = sign], j + 1, errno)
        ELSE IF n = SizeMod THEN Fail("Numerical result out of range", "ERANGE")
        ELSE IF sign = 1 /\ n \notin Ints THEN Fail("relative range too large", errno)
        ELSE Read([a EXCEPT !.delta = AsInt(sign * n)], NumberEnd(tk, j + 1, 10), errno)

(* parse_size_t_err looks at errno, which nothing clears.                  *)
ParseNumber(tk, i, base, errno) ==
    LET n == NumberAt(tk, i, base)
        e == IF n = SizeMod THEN "ERANGE" ELSE errno
    IN  IF e = "ERANGE" THEN Fail("number too large", e)
        ELSE Read([Addr("num") EXCEPT !.n = n], SkipSpace(tk, NumberEnd(tk, i, base)), e)

(* A sign follows a number at once or after spaces, and is not looked for  *)
(* elsewhere.                                                              *)
WithDelta(tk, p) ==
    IF p.err = "Ok" /\ Token(tk, p.at) \in {"+", "-"} THEN parse_delta(tk, p.at, p.val, p.errno) ELSE p

parse_search(tk, i, errno) ==
    LET close == Least({j \in i..Len(tk) : tk[j] = "/"}, Len(tk) + 1)
        a     == [Addr("search") EXCEPT !.s = SubSeq(tk, i, close - 1)]
    IN  IF close > Len(tk) THEN Read(a, close, errno) ELSE parse_delta(tk, close + 1, a, errno)

parse_range_addr(tk, i, base, errno) ==
    LET t == Token(tk, i)
    IN  CASE t = "/" -> parse_search(tk, i + 1, errno)
          [] t = "." -> WithDelta(tk, Read(Addr("curr"), SkipSpace(tk, i + 1), errno))
          [] t \in {"+", "-", "$"} ->
               parse_delta(tk, IF t = "$" THEN i + 1 ELSE i, Addr(IF t = "$" THEN "end" ELSE "curr"), errno)
          [] IsDigit(t, base) -> WithDelta(tk, ParseNumber(tk, i, base, errno))
          [] OTHER -> Read(NoAddr, i, errno)

EndingAt(beg, p)  == [p EXCEPT !.val = RangeOf(beg, p.val)]
Both(tag, tk, i, errno) == Read(RangeOf(Addr(tag[1]), Addr(tag[2])), SkipSpace(tk, i), errno)

(* After the first address p, which begins at i: another one, or none.     *)
WithEnd(tk, i, c, base, p) ==
    IF p.err = "Ok" /\ p.at # i /\ Token(tk, c) = ","
    THEN EndingAt(p.val, parse_range_addr(tk, c + 1, base, p.errno))
    ELSE IF p.err = "Ok" THEN Read(RangeOf(p.val, NoAddr), p.at, p.errno)
    ELSE p

parse_range(tk, base, errno) ==
    LET i == SkipSpace(tk, 1)
        t == Token(tk, i)
        first(p) == WithEnd(tk, i, SkipSpace(tk, p.at), base, p)
    IN  CASE t = "^" -> Both(<<"prev", "prev">>, tk, i + 1, errno)
          [] t = "%" -> Both(<<"beg", "end">>, tk, i + 1, errno)
          [] t = "," -> EndingAt(Addr("curr"), parse_range_addr(tk, i + 1, base, errno))
          [] OTHER -> first(parse_range_addr(tk, i, base, errno))

range_parse_is_none(rp) == rp.beg.tag = "none" /\ rp.end.tag = "none"

-----------------------------------------------------------------------------
(* Lines.  A search moves the current offset of the text, and a range that *)
(* is refused afterwards leaves it there.                                  *)

Sized(n) == n % SizeMod

(* regex_maybe_find_next: the offset of the end of the next match, in the  *)
(* text to its first end.  A pattern is a letter.                          *)
MatchEnd(tb, pattern, off) ==
    LET nul     == Least({i \in off..Len(tb.buf) - 1 : At(tb.buf, i) = Nul}, Len(tb.buf))
        matches == {i \in off..nul - 1 : At(tb.buf, i) = ByteOf[pattern[1]]}
    IN  IF matches = {} THEN -1 ELSE Min(matches) + 1

(* textbuf_search_pattern and textbuf_repeat_search.                       *)
search_pattern(tb, s) ==
    LET last == IF s = <<>> THEN tb.pattern ELSE s
        m    == IF last = <<>> THEN -1 ELSE MatchEnd(tb, last, tb.off)
    IN  IF last = <<>> THEN [err |-> "expecting non empty pattern", tb |-> tb]
        ELSE IF m = -1 THEN [err |-> "pattern not found", tb |-> [tb EXCEPT !.pattern = last]]
        ELSE [err |-> "Ok", tb |-> [tb EXCEPT !.pattern = last, !.off = m]]

Line(tb, n, matched) == [err |-> "Ok", n |-> Sized(n), tb |-> tb, matched |-> matched]
NoLine(err, tb)      == [err |-> err, n |-> 0, tb |-> tb, matched |-> FALSE]

(* An address: the current line is the one before the range was read, and  *)
(* the delta of a search is not looked at.                                 *)
LineOfAddr(tb, a, current, none, matched) ==
    LET found == search_pattern(tb, a.s)
    IN  CASE a.tag = "beg"  -> Line(tb, 1 + a.delta, matched)
          [] a.tag = "curr" -> Line(tb, current + a.delta, matched)
          [] a.tag = "end"  -> Line(tb, line_count(tb) + a.delta, matched)
          [] a.tag = "num"  -> Line(tb, a.n + a.delta, matched)
          [] a.tag = "none" -> Line(tb, none, matched)
          [] a.tag = "search" /\ found.err = "Ok" -> Line(found.tb, current_line(found.tb), TRUE)
          [] a.tag = "search" /\ found.err # "Ok" -> NoLine(found.err, found.tb)
          [] OTHER -> NoLine("invalid RangeParse tag", tb)

(* _textbuf_range_parse_to_range_.  An empty search is a repetition only   *)
(* at the beginning of the range.                                          *)
ToRange(b, e) == [err |-> IF b.err # "Ok" THEN b.err ELSE e.err, tb |-> e.tb,
                  matched |-> e.matched, range |-> <<b.n, e.n>>]

range_parse_to_range(tb, rp) ==
    LET current == current_line(tb)
        b == IF rp.beg.tag = "none" /\ rp.end.tag # "none" THEN NoLine("unexpected none beg range", tb)
             ELSE LineOfAddr(tb, rp.beg, current, current, FALSE)
        e == IF rp.end.tag = "search" /\ rp.end.s = <<>>
             THEN NoLine("expecting non empty pattern", [b.tb EXCEPT !.pattern = <<>>])
             ELSE LineOfAddr(b.tb, rp.end, current, b.n, b.matched)
    IN  IF rp.beg.tag = "prev"
        THEN [err |-> "Ok", tb |-> tb, matched |-> FALSE, range |-> tb.last_range]
        ELSE ToRange(b, IF b.err = "Ok" THEN e ELSE b)

range_validate(tb, r) ==
    IF r[2] < r[1] THEN "backward range given"
    ELSE IF r[2] = 0 THEN "textbuf ranges (:) start at 1"
    ELSE IF r[2] > line_count(tb) THEN "range end too large"
    ELSE "Ok"

(* The current line is the last of the range, or the one of a search.      *)
(* Mutant: it is the first.                                                *)
MoveTo_first(tb, to, err) ==
    IF err # "Ok" THEN [to EXCEPT !.err = err]
    ELSE IF to.range[1] = 0 \/ (to.matched /\ to.tb.off < Len(tb.buf)) THEN to
    ELSE [to EXCEPT !.tb.off = LineBegin(to.tb, to.range[1])]

MoveTo(tb, to, err) ==
    IF err # "Ok" THEN [to EXCEPT !.err = err]
    ELSE IF to.matched /\ to.tb.off < Len(tb.buf) THEN to
    ELSE [to EXCEPT !.tb.off = LineBegin(to.tb, to.range[2])]

Validated(tb, to) == MoveTo(tb, to, IF to.err = "Ok" THEN range_validate(tb, to.range) ELSE to.err)

(* textbuf_range_from_parsed_range, of a text that is not empty.           *)
range_from_parsed_range(tb, rp) == Validated(tb, range_parse_to_range(tb, rp))

-----------------------------------------------------------------------------
(* Nodes, whose numbers begin at 0.  The delta is not looked at.           *)

SizeOfAddr(a, bound, none) ==
    CASE a.tag = "beg" -> 0
      [] a.tag = "end" -> bound - 1
      [] a.tag = "num" /\ a.n <= bound -> a.n
      [] a.tag = "none" -> none
      [] OTHER -> -1

(* basic_range_from_parse: the nodes from the first to the last, or none.  *)
basic_range_from_parse(rp, bound) ==
    LET beg == SizeOfAddr(rp.beg, bound, -1)
        end == SizeOfAddr(rp.end, bound, beg)
    IN  IF bound = 0 \/ beg = -1 \/ end = -1 \/ beg > end THEN <<>> ELSE <<beg, end + 1>>

(* run_cmd_for_dom_node_range: the nodes the command is run for, up to one *)
(* that does not exist.                                                    *)
NodesOf(r, bound) == {i \in r[1]..r[2] - 1 : i < bound}
=============================================================================
