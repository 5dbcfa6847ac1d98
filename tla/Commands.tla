------------------------------ MODULE Commands ------------------------------
(***************************************************************************)
(* One command after the other on a document that is shown: on the lines   *)
(* of its text (cmd.c, textbuf.c, session.c), on its numbered nodes and on *)
(* the columns it is fitted to.                                            *)
(*                                                                         *)
(* A document is drawn; then a line is read and run, and what it did is    *)
(* kept until the next prompt.  A file is opened to be written over, so    *)
(* what it held before is of no matter.                                    *)
(***************************************************************************)
EXTENDS Dispatch

CONSTANTS
    Documents,      \* texts, their attributes, and the number of their links
    Lines,          \* lines: their tokens, and the range that they ask for
    Widths          \* columns the session begins with

ASSUME CommandsAssumption ==
    /\ \A d \in Documents : d.text \in Seq(Byte) \ {<<>>} /\ d.mods \in Seq(Nat) /\ d.links \in Nat
    /\ Widths \subseteq Nat

VARIABLES
    drawn,          \* the document and the columns it was fitted to
    tb,             \* its TextBuf
    errno,          \* "none", or "ERANGE" that nothing clears
    ncols, monochrome,
    alive,          \* no division by zero
    last            \* the line that was run, and what it did
vars == <<drawn, tb, errno, ncols, monochrome, alive, last>>

(* What a command does: the error, lines for the screen and the message,   *)
(* a file if it opened one, nodes it was run for.                          *)
NoFile == [opened |-> FALSE, text |-> <<>>]
Result == [err |-> "Ok", out |-> <<>>, msg |-> <<>>, file |-> NoFile, nodes |-> {}, range |-> <<0, 0>>]
Failed(err) == [Result EXCEPT !.err = err]
Unasked     == [of |-> "other", n |-> 0, delta |-> 0]
NoLineYet   == [tokens |-> <<>>, beg |-> Unasked, end |-> Unasked]
NothingYet  == [line |-> NoLineYet, cmd |-> Run("none", 0, 0, {}), res |-> Result, from |-> 0]

Init ==
    /\ drawn = [text |-> <<>>, mods |-> <<>>, links |-> 0, fit |-> 1]
    /\ tb = TextBufOf(<<>>, <<>>, 0)
    /\ errno = "none" /\ ncols \in Widths /\ monochrome = FALSE /\ alive = TRUE
    /\ last = NothingYet

Waiting == alive /\ last.line = NoLineYet

(* htmldoc_draw_with_flags, of a text that is rendered: it is fitted to    *)
(* the columns, of which there must be one.                                *)
Draw ==
    /\ Waiting
    /\ \E d \in Documents :
         IF ncols = 0
         THEN alive' = FALSE /\ UNCHANGED <<drawn, tb>>
         ELSE /\ drawn' = [text |-> d.text, mods |-> d.mods, links |-> d.links, fit |-> ncols]
              /\ tb' = fit_lines(TextBufOf(d.text, d.mods, 0), ncols)
              /\ UNCHANGED alive
    /\ UNCHANGED <<errno, ncols, monochrome, last>>

-----------------------------------------------------------------------------
(* Commands on a text.  An offset that was moved stays moved when the      *)
(* command fails afterwards.                                               *)
validate_range(r) ==
    IF r[1] = 0 \/ r[1] > r[2] THEN "error: unexpected bad range" ELSE "Ok"

PrintTo(text, r, out) ==
    IF validate_range(r) # "Ok" THEN Failed(validate_range(r)) ELSE [Result EXCEPT !.out = out, !.range = r]

cmd_textbuf_print(text, r)   == PrintTo(text, r, IF r[1] = 0 THEN <<>> ELSE write_range_mod(text, r[1], r[2], monochrome))
cmd_textbuf_print_n(text, r) == PrintTo(text, r, IF r[1] = 0 THEN <<>> ELSE print_n(text, r[1], r[2]))

(* _cmd_textbuf_write_impl: the file is opened, and emptied, before the    *)
(* lines are looked for.  io is what becomes of the file: it is not        *)
(* opened, or a write or the close fails after some bytes, or neither.     *)
Written(text, io) ==
    CASE io[1] = "open"  -> Failed("could not open file")
      [] io[1] = "write" -> [Failed("fwrite failed") EXCEPT !.file = [opened |-> TRUE, text |-> SubSeq(text, 1, io[2])]]
      [] io[1] = "ok"    -> [Result EXCEPT !.file = [opened |-> TRUE, text |-> text], !.msg = <<"file written">>]

(* Mutant: the last line is not written.                                   *)
write_impl_short(text, r, io) ==
    IF r[1] = 0
    THEN IF io[1] = "open" THEN Written(<<>>, io)
         ELSE [Failed("error: invalid linum") EXCEPT !.file = [opened |-> TRUE, text |-> <<>>]]
    ELSE [Written(From(text.buf, LineBegin(text, r[1]), LineBegin(text, r[2])), io) EXCEPT !.range = r]

write_impl(text, r, io) ==
    IF r[1] = 0
    THEN IF io[1] = "open" THEN Written(<<>>, io)
         ELSE [Failed("error: invalid linum") EXCEPT !.file = [opened |-> TRUE, text |-> <<>>]]
    ELSE [Written(From(text.buf, LineBegin(text, r[1]), LineEnd(text, r[2])), io) EXCEPT !.range = r]

(* textbuf_to_file: all of it, but a byte that ends it.                    *)
to_file(text, io) ==
    Written(IF text.buf # <<>> /\ Last(text.buf) = Nul THEN Front(text.buf) ELSE text.buf, io)

(* textbuf_get_lines_matching_regex: the lines from an offset on that a    *)
(* pattern matches.  After each the next one must exist.                   *)
MatchingLines(text, pattern) ==
    LET f[n \in 1..line_count(text)] ==
          LET m == MatchEnd(text, pattern, LineBegin(text, n))
              l == line_of_offset(text, m)
          IN  IF m = -1 THEN [ok |-> TRUE, lines |-> <<>>, off |-> LineBegin(text, n)]
              ELSE IF l = line_count(text) THEN [ok |-> FALSE, lines |-> <<l>>, off |-> LineBegin(text, n)]
              ELSE [f[l + 1] EXCEPT !.lines = <<l>> \o @]
    IN  f[1]

(* cmd_textbuf_global, whose pattern is after a '/' and is not empty.      *)
Global(text, tk, i) ==
    LET j       == SkipSpace(tk, i)
        close   == Least({k \in j + 1..Len(tk) : tk[k] = "/"}, Len(tk) + 1)
        pattern == SubSeq(tk, j + 1, close - 1)
        found   == MatchingLines(text, pattern)
    IN  IF Token(tk, j) # "/" THEN [text |-> text, res |-> Failed("Could not read pattern")]
        ELSE IF ~Ended(tk, close + 1) THEN [text |-> text, res |-> Failed("expecting end")]
        ELSE [text |-> [text EXCEPT !.off = found.off],
              res  |-> IF ~found.ok THEN Failed("invalid line number (too large)")
                       ELSE IF found.lines = <<>> THEN Failed("pattern not found")
                       ELSE [Result EXCEPT !.msg = found.lines]]

Only(text, res) == [text |-> text, res |-> res]

(* The commands that take a range of lines.                                *)
OnLines(name, to, io) ==
    Only(to.tb, CASE to.err # "Ok" -> Failed(to.err)
                  [] to.err = "Ok" /\ name = "print" -> cmd_textbuf_print(to.tb, to.range)
                  [] to.err = "Ok" /\ name = "n"     -> cmd_textbuf_print_n(to.tb, to.range)
                  [] to.err = "Ok" /\ name = "save"  -> write_impl(to.tb, to.range, io))

TextbufNames == <<"print", "info", "g", "n", "print", "save">>

cmd_textbuf(ran, tk, rp, io) ==
    LET name == TextbufNames[ran.ix]
    IN  CASE ran.do = "help" -> Only(tb, [Result EXCEPT !.msg = <<"help">>])
          [] ran.do \notin {"run", "help"} -> Only(tb, Failed(ran.do))
          [] ran.do = "run" ->
               CASE name = "g" -> Global(tb, tk, ran.at)
                 [] name = "info" /\ range_parse_is_none(rp) /\ Ended(tk, ran.at) ->
                      IF tb.off > Len(tb.buf) THEN Only(tb, Failed("offset out of range"))
                      ELSE Only(tb, [Result EXCEPT !.msg = <<current_line(tb), line_count(tb)>>])
                 [] name = "info" /\ ~(range_parse_is_none(rp) /\ Ended(tk, ran.at)) -> Only(tb, Failed("No range allowed"))
                 [] name = "save" /\ Ended(tk, ran.at) -> Only(tb, Failed("expecting a path"))
                 [] name = "save" /\ ~Ended(tk, ran.at) /\ range_parse_is_none(rp) -> Only(tb, to_file(tb, io))
                 [] OTHER -> OnLines(name, range_from_parsed_range(tb, rp), io)

-----------------------------------------------------------------------------
(* Commands on the links: run for each of a range, with a message for one  *)
(* that does not exist, after those before it.                             *)
cmd_anchor(ran, rp) ==
    LET r     == basic_range_from_parse(rp, drawn.links)
        nodes == NodesOf(r, drawn.links)
    IN  CASE ran.do = "help" -> [Result EXCEPT !.msg = <<"help">>]
          [] ran.do \notin {"run", "help"} -> Failed(ran.do)
          [] ran.do = "run" /\ r = <<>> -> Failed("invalid range")
          [] ran.do = "run" /\ r # <<>> ->
               IF Max({i + 1 : i \in nodes} \cup {r[1]}) = r[2] THEN [Result EXCEPT !.nodes = nodes, !.range = r]
               ELSE [Failed("invalid id") EXCEPT !.nodes = nodes, !.range = r]

(* set: the columns, read as a number with errno as it is, and the colours. *)
cmd_set_session_ncols(tk, i) ==
    LET n == ParseNumber(tk, SkipSpace(tk, i), 10, errno)
    IN  IF ~IsDigit(Token(tk, SkipSpace(tk, i)), 10) THEN [n EXCEPT !.err = "number not given", !.errno = errno]
        ELSE IF n.err = "Ok" /\ ~Ended(tk, n.at) THEN [n EXCEPT !.err = "invalid argument"]
        ELSE n

SetNames == <<"bookmark", "forms", "input", "js", "monochrome", "ncols", "winsz">>

Done(line, ran, res, text) ==
    /\ last' = [line |-> line, cmd |-> ran, res |-> res, from |-> IF tb.buf = <<>> THEN 0 ELSE current_line(tb)]
    /\ tb' = text

SetDone(line, ran, name, opt, n) ==
    LET res == IF ran.do # "run" THEN ran.do
               ELSE IF name = "ncols" THEN n.err
               ELSE IF opt \in {"0", "1"} THEN "Ok" ELSE "option should be '0' or '1'"
    IN  /\ Done(line, ran, [Result EXCEPT !.err = res], tb)
        /\ ncols' = IF name = "ncols" /\ res = "Ok" THEN n.val.n ELSE ncols
        /\ errno' = IF name = "ncols" THEN n.errno ELSE errno
        /\ monochrome' = IF name = "monochrome" /\ res = "Ok" THEN opt = "1" ELSE monochrome

SetNamed(line, tk, ran) ==
    SetDone(line, ran, IF ran.do = "run" THEN SetNames[ran.ix] ELSE "none",
            Token(tk, SkipSpace(tk, ran.at)), cmd_set_session_ncols(tk, ran.at))
cmd_session_set(line, tk) == SetNamed(line, tk, run_cmd(SetTable, tk, 1))

(* The other commands are told, and leave the text as it is.               *)
OtherLine(line, ran) ==
    /\ Done(line, ran, IF ran.do \in {"run", "help"} THEN Result ELSE Failed(ran.do), tb)
    /\ UNCHANGED <<errno, ncols, monochrome>>

(* What becomes of a file, for the command that opens one.                 *)
Outcomes(saves) ==
    {<<"ok", 0>>} \cup (IF saves THEN {<<"open", 0>>} \cup {<<"write", n>> : n \in {0, 1}} ELSE {})

(* process_line, for a line whose command is in the table of the session.  *)
DoneText(line, ran, errno2, did) ==
    Done(line, ran, did.res, did.text) /\ errno' = errno2 /\ UNCHANGED <<ncols, monochrome>>

TextRun(line, tk, on) ==
    \E io \in Outcomes(on.cmd.do = "run" /\ on.cmd.ix = 6) :
        DoneText(line, on.cmd, on.range.errno, cmd_textbuf(on.cmd, tk, on.range.val, io))

TextLine(line, tk) ==
    IF tb.buf = <<>> THEN OtherLine(line, Run("no document", 0, 1, {}))
    ELSE TextRun(line, tk, run_cmd_on_range(TextbufTable, tk, 10, errno))

LinkRun(line, on)    == DoneText(line, on.cmd, on.range.errno, Only(tb, cmd_anchor(on.cmd, on.range.val)))
AnchorLine(line, tk) == LinkRun(line, run_cmd_on_range(AnchorTable, tk, 36, errno))

RunFor(line, ran, name, tk) ==
    CASE name \in {<<":">>, <<"<">>} -> TextLine(line, tk)
      [] name = <<"[">> -> AnchorLine(line, tk)
      [] name = <<"s", "e", "t">> -> cmd_session_set(line, tk)
      [] name = <<".">> -> OtherLine(line, run_cmd(DocTable, tk, 1))
      [] OTHER -> OtherLine(line, ran)

RunNamed(line, ran) ==
    RunFor(line, ran, IF ran.do = "run" THEN SessionTable[ran.ix].name ELSE <<>>, SubSeq(line.tokens, ran.at, Len(line.tokens)))
process_line(line) == RunNamed(line, run_cmd(SessionTable, line.tokens, 1))

RunLine == Waiting /\ (\E line \in Lines : process_line(line)) /\ UNCHANGED <<drawn, alive>>

(* The next prompt.  A call that fails may leave another errno behind.     *)
Prompt ==
    /\ alive /\ last.line # NoLineYet
    /\ last' = NothingYet
    /\ errno' \in {errno, "none"}
    /\ UNCHANGED <<drawn, tb, ncols, monochrome, alive>>

Next == Draw \/ RunLine \/ Prompt
Spec == Init /\ [][Next]_vars

-----------------------------------------------------------------------------
(* The text is held with the offsets of its lines and of its attributes,   *)
(* in order, none beyond its end, and so is the current offset.            *)
Ordered(s) == \A i \in 1..Len(s) - 1 : s[i] <= s[i + 1]

TypeOK ==
    /\ tb.buf \in Seq(Byte) /\ tb.off \in 0..Len(tb.buf)
    /\ Ordered(tb.mods) /\ \A i \in DOMAIN tb.mods : tb.mods[i] \in 0..Len(tb.buf)
    /\ tb.eols = append_line_indexes(tb.buf)
    /\ errno \in {"none", "ERANGE"} /\ ncols \in Nat /\ monochrome \in BOOLEAN
    /\ ~alive => ncols = 0

(* Fitting a text only breaks lines: read along the text it came from, a   *)
(* newline took the place of a space or was put in, and an attribute is    *)
(* where its byte is, or before the newlines put in there.  No line has    *)
(* more characters than there are columns.                                 *)
ReadAlong(s, t) ==
    LET at[i \in 0..Len(t)] ==       \* the offset in s of the byte i of t
          IF i = 0 THEN 0
          ELSE LET j == at[i - 1]
                   kept == j < Len(s) /\ (t[i] = s[j + 1] \/ (t[i] = Nl /\ s[j + 1] = Sp))
               IN  IF kept THEN j + 1 ELSE j
    IN  at

FitKeepsText == Waiting =>
    LET at == ReadAlong(drawn.text, tb.buf)
    IN  /\ at[Len(tb.buf)] = Len(drawn.text)
        /\ \A i \in 1..Len(tb.buf) : at[i] = at[i - 1] => tb.buf[i] = Nl
        /\ \A m \in DOMAIN tb.mods : at[tb.mods[m]] = Min({drawn.mods[m], Len(drawn.text)})
        /\ \A n \in 1..line_count(tb) : Utf8Count(SelectSeq(get_line(tb, n), LAMBDA c : c # Nl)) <= drawn.fit
        /\ \A i \in 1..Len(tb.buf) : at[i] = at[i - 1] =>
             \/ tb.buf[i + 1] = Esc
             \/ i > drawn.fit /\ \A k \in 1..drawn.fit - 1 : ~IsBreak(tb.buf[i - k])

(* A range of lines means what its addresses say: a command that is run    *)
(* for one is run for these lines and leaves its last one current, and one *)
(* that prints is run whenever there are such lines.  A delta that is not  *)
(* an int is excepted: it is refused, or read as another one               *)
(* (range-parse.c:37-41).  And after a number that was too large others    *)
(* may be refused too (utils.c:85).                                        *)
LineAsked(a) ==
    CASE a.of = "line" -> a.n + a.delta
      [] a.of = "current" -> last.from + a.delta
      [] a.of = "last" -> line_count(tb) + a.delta

RangeMeansLines ==
    LET beg == LineAsked(last.line.beg)
        end == LineAsked(last.line.end)
    IN  tb.buf # <<>> /\ last.line.tokens # <<>> /\ last.line.tokens[1] = ":" /\ "other" \notin {last.line.beg.of, last.line.end.of}
        /\ {last.line.beg.delta, last.line.end.delta} \subseteq Ints =>
        /\ last.res.err = "Ok" => last.res.range = <<beg, end>> /\ current_line(tb) = end
        /\ last.cmd.do = "run" /\ TextbufNames[last.cmd.ix] \in {"print", "n"} /\ errno = "none"
           /\ 1 <= beg /\ beg <= end /\ end <= line_count(tb) => last.res.err = "Ok"

(* What is shown of a range is its bytes, each after the attributes that   *)
(* are at its offset, and at its end those of the end.  A last line that   *)
(* is only the end of the text is left out.                                *)
ModsAt(off) == [i \in 1..Cardinality({m \in DOMAIN tb.mods : tb.mods[m] = off}) |->
                   Mod(Cardinality({m \in DOMAIN tb.mods : tb.mods[m] < off}) + i)]
ShownFrom(beg, end) ==
    IF beg = end THEN <<>>
    ELSE FoldLeft(LAMBDA out, off : out \o ModsAt(off) \o (IF off = end THEN <<>> ELSE <<At(tb.buf, off)>>),
                  <<>>, [i \in 1..end - beg + 1 |-> beg + i - 1])

IsText(x) == x \in Byte
ShowsRange(r) ==
    LET beg   == LineBegin(tb, r[1])
        end   == LineEnd(tb, r[2])
        empty == get_line(tb, r[2]) = <<Nul>>
        tail  == (IF monochrome THEN <<>> ELSE <<Reset>>)
                 \o (IF end > beg /\ At(tb.buf, end - 1) # Nl THEN <<Nl>> ELSE <<>>)
    IN  last.res.out = ShownFrom(beg, IF empty THEN end - 1 ELSE end) \o tail

ShowsNumbered(r) ==
    LET bytes == SelectSeq(last.res.out, IsText)
    IN  IsPrefix(From(tb.buf, LineBegin(tb, r[1]), LineEnd(tb, r[2])), bytes)

PrintShowsRange ==
    last.res.out # <<>> =>
        IF TextbufNames[last.cmd.ix] = "n" THEN ShowsNumbered(last.res.range) ELSE ShowsRange(last.res.range)

(* A file that was written holds the lines of the range it was written     *)
(* for, and if it was for none, the text without the byte that ends it.    *)
FileHasRange ==
    last.res.file.opened /\ last.res.err = "Ok" =>
        IF last.res.range = <<0, 0>> THEN last.res.file.text = SelectSeq(tb.buf, LAMBDA c : c # Nul)
        ELSE last.res.file.text = From(tb.buf, LineBegin(tb, last.res.range[1]), LineEnd(tb, last.res.range[2]))

(* The lines shown by g are those with a byte of the pattern, each once    *)
(* and in order.                                                           *)
GlobalFindsLines ==
    last.cmd.do = "run" /\ last.line.tokens # <<>> /\ last.line.tokens[1] = ":" /\ last.res.err = "Ok"
      /\ TextbufNames[last.cmd.ix] = "g" =>
        \E l \in DOMAIN ByteOf :
            /\ l \in Range(last.line.tokens)
            /\ last.res.msg = SetToSortSeq({n \in 1..line_count(tb) : ByteOf[l] \in Range(get_line(tb, n))}, <)

(* What is shown, saved or found is of the lines that were asked for.      *)
OutputRight == PrintShowsRange /\ FileHasRange /\ GlobalFindsLines

(* A command on links is run for those from the first that is asked for to *)
(* the last, and when they are all there, for all of them.  The delta of   *)
(* an address is not looked at, and there is no current link (ranges.h).   *)
LinkAsked(a) == IF a.of = "last" THEN drawn.links - 1 ELSE a.n

NodesInRange ==
    LET asked == LinkAsked(last.line.beg)..LinkAsked(last.line.end)
    IN  last.line.tokens # <<>> /\ last.line.tokens[1] = "[" /\ "other" \notin {last.line.beg.of, last.line.end.of} =>
        /\ last.res.nodes \subseteq asked
        /\ "current" \in {last.line.beg.of, last.line.end.of} => last.res.nodes = {}
        /\ last.cmd.do = "run" /\ "current" \notin {last.line.beg.of, last.line.end.of} /\ errno = "none" /\ asked # {} /\ asked \subseteq 0..drawn.links - 1
             => last.res.nodes = asked /\ last.res.err = "Ok"

(* A range names what it says, of lines and of links.                      *)
RangesNameRight == RangeMeansLines /\ NodesInRange

(* A word runs a command only if it begins the name of no other one of the *)
(* table, and asks about all those it begins when there are several.       *)
TableOf(tokens) ==
    CASE tokens[1] = "." -> DocTable
      [] tokens[1] \in {":", "<"} -> TextbufTable
      [] tokens[1] = "s" -> SetTable
      [] OTHER -> SessionTable

OneCommandPerWord ==
    last.line.tokens # <<>> /\ tb.buf # <<>> =>
        LET table == TableOf(last.line.tokens)
            word  == last.cmd.word
            could == {k \in DOMAIN table : Abbreviates(word, table[k])}
        IN  word # <<>> => could = IF last.cmd.ix # 0 THEN {last.cmd.ix} ELSE last.cmd.asked
=============================================================================
