------------------------------ MODULE UserLine ------------------------------
(***************************************************************************)
(* The line of a user and how commands take it apart (user-input.c).       *)
(*                                                                         *)
(* A UserLine is a string and the index of its next character, here a      *)
(* sequence of tokens and a position that starts at 1.  A token is one of  *)
(* the characters the functions look for, or a word: a run of letters.     *)
(* Functions that cut the line write '\0' where they do, so a line that    *)
(* was cut and whose index is put back is not the line it was.             *)
(***************************************************************************)
EXTENDS Naturals, Sequences, FiniteSetsExt

Space == <<"space">>
Semi  == <<"semicolon">>
Gt    == <<"greater">>
Lt    == <<"less">>
Bar   == <<"backslash">>
Nul   == <<"nul">>

Word(w)       == <<"word", w>>
Cmd(kind, i)  == <<"command", kind, i>>

Line(text) == [text |-> text, ix |-> 1]

Exhausted(ul) == ul.ix > Len(ul.text)
At(ul)        == ul.text[ul.ix]
Skip(ul, n)   == [ul EXCEPT !.ix = Min({ul.ix + n, Len(ul.text) + 1})]
SkipAll(ul)   == [ul EXCEPT !.ix = Len(ul.text) + 1]

check_char(ul, c) == ~Exhausted(ul) /\ At(ul) = c
IsAlpha(t)        == Len(t) > 1

(* The first position from the current one whose token P holds of.         *)
FirstFrom(ul, P(_)) ==
    Min({i \in ul.ix..Len(ul.text) : P(ul.text[i])} \cup {Len(ul.text) + 1})

skip_space(ul) == [ul EXCEPT !.ix = FirstFrom(ul, LAMBDA t : t # Space)]

cmd_end(ul) == Exhausted(ul) \/ At(ul) \in {Semi, Gt, Nul}

(* user_line_match_chop_char, once the character has matched.              *)
Chop(ul) == [Skip(ul, 1) EXCEPT !.text[ul.ix] = Nul]

(* What a function that pops leaves: whether it popped, and the line.      *)
Popped(ok, ul) == [ok |-> ok, ul |-> ul]

pop_alpha(ul) ==
    LET ok == ~cmd_end(ul) /\ IsAlpha(At(ul))
    IN  Popped(ok, IF ok THEN Skip(ul, 1) ELSE ul)

(* Everything but a space is visible, separators and '\0' included.        *)
pop_nonspace(ul) ==
    LET ok == ~cmd_end(ul) /\ At(ul) # Space
    IN  Popped(ok, IF ok THEN [ul EXCEPT !.ix = FirstFrom(ul, LAMBDA t : t = Space)] ELSE ul)

(* Mutant: everything up to the end of the line.                           *)
pop_rest_all(ul) == IF cmd_end(ul) THEN Popped(FALSE, ul) ELSE Popped(TRUE, SkipAll(ul))

(* strchr looks for ';' up to the first '\0'.                              *)
pop_rest(ul) ==
    LET end == FirstFrom(ul, LAMBDA t : t \in {Semi, Nul})
        cut == end <= Len(ul.text) /\ ul.text[end] = Semi
    IN  IF cmd_end(ul) THEN Popped(FALSE, ul)
        ELSE Popped(TRUE, IF cut THEN Chop([ul EXCEPT !.ix = end]) ELSE SkipAll(ul))

cut_cmd_no_redirect(ul) ==
    LET s == skip_space(ul)
    IN  Popped(Exhausted(s) \/ At(s) = Semi, IF check_char(s, Semi) THEN Chop(s) ELSE s)

-----------------------------------------------------------------------------
(* Redirections: "> sink", "> sink < source".  A sink is named by a prefix *)
(* of one of four words, and is for both sources if none is named.         *)

Source  == {"std", "msg"}
Sink    == {"screen", "warn", "file", "shell"}
Default == [std |-> "screen", msg |-> "warn"]

SinkOf == [std |-> "screen", msg |-> "warn", file |-> "file", shell |-> "shell"]

Names(t, set) == Len(t) = 2 /\ t[2] \in set

(* What a cut leaves: an Err, the line, and the sinks of CmdOut.           *)
Cut(err, ul, sinks) == [err |-> err, ul |-> ul, sinks |-> sinks]

(* The name of a file or the command of a shell, and the end of the line,  *)
(* of the command, or a source.                                            *)
pop_target(tag, ul) ==
    LET name == IF tag = "file" THEN pop_nonspace(ul) ELSE pop_rest(ul)
        end  == cut_cmd_no_redirect(name.ul)
    IN  IF tag \in {"screen", "warn"} THEN Popped(TRUE, ul)
        ELSE Popped(name.ok /\ (end.ok \/ check_char(end.ul, Lt)), end.ul)

pop_source(ul, tag, sinks) ==
    LET word == pop_alpha(skip_space(ul))
        end  == cut_cmd_no_redirect(word.ul)
        src  == At(skip_space(ul))
    IN  IF ~word.ok \/ ~end.ok THEN Cut("expecting", end.ul, sinks)
        ELSE IF Names(src, Source) THEN Cut("ok", end.ul, [sinks EXCEPT ![src[2]] = tag])
        ELSE Cut("no_parse", end.ul, sinks)

(* The redirection to a sink whose target was popped.                      *)
redirect_to(tag, target, sinks) ==
    LET end == cut_cmd_no_redirect(target.ul)
    IN  IF ~target.ok THEN Cut("expecting", target.ul, sinks)
        ELSE IF end.ok THEN Cut("ok", end.ul, [s \in Source |-> tag])
        ELSE IF check_char(end.ul, Lt) THEN pop_source(Skip(end.ul, 1), tag, sinks)
        ELSE Cut("no_parse", end.ul, sinks)

parse_output_redirect(ul, sinks) ==
    LET word == pop_alpha(ul)
        tag  == SinkOf[At(ul)[2]]
    IN  IF ~word.ok \/ ~Names(At(ul), DOMAIN SinkOf) THEN Cut("expecting", word.ul, sinks)
        ELSE redirect_to(tag, pop_target(tag, skip_space(word.ul)), sinks)

(* A cut that failed puts a character, and the index, back.                *)
PutBack(cut, ix, c) == IF cut.err = "ok" THEN cut ELSE [cut EXCEPT !.ul.text[ix] = c]
Unskip(cut, ix)     == IF cut.err = "ok" THEN cut ELSE [cut EXCEPT !.ul.ix = ix]

(* The end of a command: of the line, a ';', or a redirection up to one.   *)
(* When a redirection is wrong its '>' is put back, and nothing else is.   *)
cut_cmd(ul, sinks) ==
    LET plain == cut_cmd_no_redirect(ul)
        redir == parse_output_redirect(skip_space(Chop(plain.ul)), sinks)
    IN  IF plain.ok THEN Cut("ok", plain.ul, sinks)
        ELSE IF ~check_char(plain.ul, Gt) THEN Cut("no_parse", plain.ul, sinks)
        ELSE Unskip(PutBack(redir, plain.ul.ix, Gt), ul.ix)

(* user_line_pop_last_strview: a last parameter, which was popped from ul, *)
(* and the end of the command; the index is put back if there is no end.   *)
pop_last(word, ul, sinks) ==
    IF word.ok THEN Unskip(cut_cmd(word.ul, sinks), ul.ix) ELSE Cut("no_parse", ul, sinks)

pop_last_nonspace(ul, sinks) == pop_last(pop_nonspace(ul), ul, sinks)
pop_last_alpha(ul, sinks)    == pop_last(pop_alpha(ul), ul, sinks)

(* user_line_chop_and_skip_space *)
chop_and_skip_space(ul) ==
    IF Exhausted(ul) THEN Popped(TRUE, ul)
    ELSE IF At(ul) = Space THEN Popped(TRUE, skip_space(Chop(ul)))
    ELSE Popped(FALSE, ul)
=============================================================================
