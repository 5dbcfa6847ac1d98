------------------------------ MODULE Dispatch ------------------------------
(***************************************************************************)
(* How the command of a line is told: the tables of user-interface.c and   *)
(* the walk that looks for a command in one of them (run_cmd__).           *)
(*                                                                         *)
(* A line is a sequence of tokens (module Ranges); a name is written as    *)
(* far as it is typed, the number is the letters that it takes at least.   *)
(***************************************************************************)
EXTENDS Ranges

Word(w, n)  == [name |-> w, match |-> n, flags |-> {}]
Alone(c)  == [c EXCEPT !.flags = {"no_params"}]
Char(c)   == [name |-> <<c>>, match |-> 0, flags |-> {"char"}]
NoWord    == [name |-> <<>>, match |-> 0, flags |-> {"empty"}]
AnyRest   == [name |-> <<>>, match |-> 0, flags |-> {"any"}]

SessionTable ==
    << Char("?"), Word(<<"b", "o", "o">>, 1), Word(<<"c", "u", "r">>, 1), Word(<<"e", "c", "h">>, 1),
       Word(<<"g", "e", "t">>, 1), Word(<<"p", "o", "s">>, 1), Alone(Word(<<"q", "u", "i">>, 1)),
       Word(<<"s", "e", "t">>, 1), Char("$"), Char("|"), Char("."), Char(":"), Char("<"), Char("="),
       Char("["), Char("{"), Char("(") >>

(* Mutant: one letter is enough for every word.                            *)
DocTable_short ==
    << NoWord, Char("+"), Char("\""), Word(<<"c", "o", "n", "s">>, 1), Word(<<"c", "o", "o", "k">>, 1),
       Word(<<"d", "r", "a">>, 1), Word(<<"f", "e", "t">>, 1), Word(<<"j", "s">>, 1),
       Word(<<"p", "a", "r">>, 1), Word(<<"s", "a", "v">>, 1) >>

DocTable ==
    << NoWord, Char("+"), Char("\""), Word(<<"c", "o", "n", "s">>, 3), Word(<<"c", "o", "o", "k">>, 3),
       Word(<<"d", "r", "a">>, 1), Word(<<"f", "e", "t">>, 1), Word(<<"j", "s">>, 1),
       Word(<<"p", "a", "r">>, 1), Word(<<"s", "a", "v">>, 1) >>

TextbufTable ==
    << NoWord, Char("\""), Word(<<"g">>, 1), Alone(Word(<<"n">>, 1)), Alone(Word(<<"p", "r", "i">>, 1)),
       Word(<<"s", "a", "v">>, 1) >>

AnchorTable == << Char("\""), NoWord, Char("*"), Word(<<"s", "a", "v", "e">>, 1) >>
InputTable  == << Char("\""), NoWord, Char("*"), Char("#"), Char("="), Word(<<"s", "a", "v", "e">>, 1) >>
ImageTable  == << Char("\""), Word(<<"s", "a", "v", "e">>, 1) >>
ScriptTable ==
    << NoWord, Char("'"), Char("\""), Word(<<"f", "e", "t">>, 1), Word(<<"l", "o", "c">>, 1),
       Word(<<"s", "a", "v">>, 1) >>
TabsTable      == << Char("-"), AnyRest >>
BookmarksTable == << Char("\""), NoWord, Word(<<"s", "h", "o">>, 1) >>
CurlTable      == << Word(<<"v", "e", "r">>, 1), Word(<<"s", "e", "t">>, 1) >>
SetTable ==
    << Word(<<"b", "o", "o">>, 1), Word(<<"f", "o", "r">>, 1), Word(<<"i", "n", "p">>, 1),
       Word(<<"j", "s">>, 1), Word(<<"m", "o", "n">>, 1), Word(<<"n", "c", "o">>, 1), Word(<<"w", "i", "n">>, 1) >>

-----------------------------------------------------------------------------
Ended(tk, i)   == SkipSpace(tk, i) > Len(tk)
WordEnd(tk, i) == Least({j \in i..Len(tk) : tk[j] \notin Letters}, Max({i, Len(tk) + 1}))
WordAt(tk, i)  == SubSeq(tk, i, WordEnd(tk, i) - 1)

(* cmd_match_prefix: a word that begins as the name does, and has letters  *)
(* enough.  One that has not gets a question: "...console?".               *)
Abbreviates(word, c) == word # <<>> /\ c.flags \cap {"char", "empty", "any"} = {} /\ IsPrefix(word, c.name)
IsCalled(word, c)    == Abbreviates(word, c) /\ Len(word) >= c.match
Asks(word, c)        == Abbreviates(word, c) /\ Len(word) < c.match

Matches(c, tk, i) ==
    \/ "any" \in c.flags
    \/ "char" \in c.flags /\ Token(tk, i) = c.name[1]
    \/ IsCalled(WordAt(tk, i), c)
    \/ "empty" \in c.flags /\ Ended(tk, i)

(* Where the parameters of a command begin.                                *)
ParamsAt(c, tk, i) ==
    IF "char" \in c.flags THEN i + 1 ELSE IF c.flags \subseteq {"no_params"} THEN WordEnd(tk, i) ELSE i

(* _is_help_cmd_end_: a '?' that ends the command asks for its help.       *)
IsHelp(c, tk, i) ==
    LET q == SkipSpace(tk, ParamsAt(c, tk, i))
    IN  c.flags \cap {"any", "empty"} = {} /\ Token(tk, q) = "?" /\ q + 1 > Len(tk)

(* run_cmd__: what is done, the number of the command in the table, where  *)
(* its parameters begin, the commands that were asked about and the word.  *)
Run(do, ix, at, asked) == [do |-> do, ix |-> ix, at |-> at, asked |-> asked, word |-> <<>>]

run_cmd(table, tk, from) ==
    LET i     == SkipSpace(tk, from)
        ix    == Least({k \in DOMAIN table : Matches(table[k], tk, i)}, Len(table) + 1)
        asked == {k \in 1..ix - 1 : Asks(WordAt(tk, i), table[k])}
        at    == ParamsAt(table[ix], tk, i)
        Did(do, k, to) == [Run(do, k, to, asked) EXCEPT !.word = WordAt(tk, i)]
    IN  IF ix > Len(table) THEN Did("invalid command", 0, Len(tk) + 1)
        ELSE IF IsHelp(table[ix], tk, i) THEN Did("help", ix, Len(tk) + 1)
        ELSE IF "no_params" \in table[ix].flags /\ ~Ended(tk, at) THEN Did("unexpected cmd param", ix, at)
        ELSE Did("run", ix, at)

(* run_cmd_on_range__: the range is read before the command is looked for. *)
OnParsed(table, rest, r) ==
    [range |-> r, cmd |-> IF r.err = "Ok" THEN run_cmd(table, rest, r.at) ELSE Run(r.err, 0, 1, {})]
run_cmd_on_range(table, rest, base, errno) == OnParsed(table, rest, parse_range(rest, base, errno))
=============================================================================
