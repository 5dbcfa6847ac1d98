--------------------------- MODULE MainLoopProofs ---------------------------
(***************************************************************************)
(* Proofs about MainLoop: its types, and that no command is run, no output *)
(* shown and no line freed twice, for scripts of any length over any       *)
(* commands.  The invariant says what is left of a line: its commands are  *)
(* numbered, and all of them come after the ones that ran; so a command    *)
(* that starts has written nothing yet, and whatever it writes is new.     *)
(* First, what every way of taking a line apart leaves of it: the same     *)
(* line, with a few characters overwritten, and an index that never goes   *)
(* back.  T is a set of tokens.                                            *)
(***************************************************************************)
EXTENDS MainLoop, OrderProofs, SequenceTheorems

Lines(T) == [text : Seq(T), ix : Nat, id : Nat]

(* A line whose index is in it, or at its end.                             *)
Good(T, ul) == ul \in Lines(T) /\ ul.ix \in 1..(Len(ul.text) + 1)

(* What functions write over characters of the line.                       *)
Ends == {Nul, Gt}

(* The line b is what is left of the line a.                               *)
Left(T, a, b) ==
    /\ Good(T, b)
    /\ b.id = a.id
    /\ Len(b.text) = Len(a.text)
    /\ a.ix <= b.ix
    /\ \A k \in 1..Len(a.text) : b.text[k] = a.text[k] \/ b.text[k] \in Ends

(* A cut leaves the line and a sink for each source.                       *)
Sinks == [Source -> Sink]
Cuts(T, a, cut) ==
    /\ cut = Cut(cut.err, cut.ul, cut.sinks)
    /\ Left(T, a, cut.ul)
    /\ cut.sinks \in Sinks

Ended(T) == Ends \subseteq T

(* What a good line is, in parts.                                          *)
LEMMA GoodLine ==
    ASSUME NEW T, NEW ul, Good(T, ul)
    PROVE  /\ ul \in Lines(T) /\ ul.text \in Seq(T) /\ Len(ul.text) \in Nat /\ DOMAIN ul.text = 1..Len(ul.text)
           /\ ul.ix \in Nat /\ ul.id \in Nat /\ ul.ix \in 1..(Len(ul.text) + 1)
           /\ ~Exhausted(ul) => ul.ix \in 1..Len(ul.text)
<1>1. ul.text \in Seq(T) /\ ul.ix \in Nat /\ ul.id \in Nat BY DEF Good, Lines
<1>2. Len(ul.text) \in Nat /\ DOMAIN ul.text = 1..Len(ul.text) BY <1>1, LenProperties
<1>3. ul.ix \in 1..(Len(ul.text) + 1) BY DEF Good
<1>4. ~Exhausted(ul) => ul.ix \in 1..Len(ul.text) BY <1>1, <1>2, <1>3 DEF Exhausted
<1> QED BY <1>1, <1>2, <1>3, <1>4 DEF Good

(* To be left of a line is reflexive ...                                   *)
LEMMA LeftSelf ==
    ASSUME NEW T, NEW ul, Good(T, ul)
    PROVE  Left(T, ul, ul)
BY GoodLine DEF Left

(* ... and transitive.                                                     *)
LEMMA LeftOf ==
    ASSUME NEW T, NEW a, NEW b, NEW c, Good(T, a), Left(T, a, b), Left(T, b, c)
    PROVE  Left(T, a, c)
<1>1. Good(T, b) /\ Good(T, c) BY DEF Left
<1>2. a.ix \in Nat /\ b.ix \in Nat /\ c.ix \in Nat BY <1>1, GoodLine
<1>3. a.ix <= c.ix BY <1>2 DEF Left
<1>4. \A k \in 1..Len(a.text) : c.text[k] = a.text[k] \/ c.text[k] \in Ends BY DEF Left
<1> QED BY <1>1, <1>3, <1>4 DEF Left

(* Moving the index on leaves the line.                                    *)
LEMMA LeftMoved ==
    ASSUME NEW T, NEW ul, Good(T, ul), NEW i \in 1..(Len(ul.text) + 1), ul.ix <= i
    PROVE  /\ Left(T, ul, [ul EXCEPT !.ix = i])
           /\ [ul EXCEPT !.ix = i].ix = i /\ [ul EXCEPT !.ix = i].text = ul.text
<1>1. ul \in Lines(T) /\ Len(ul.text) \in Nat BY GoodLine
<1> DEFINE b == [ul EXCEPT !.ix = i]
<1>2. b.ix = i /\ b.text = ul.text /\ b.id = ul.id /\ b \in Lines(T) BY <1>1 DEF Lines
<1> HIDE DEF b
<1>3. Good(T, b) BY <1>2 DEF Good
<1>4. Left(T, ul, b) BY <1>2, <1>3 DEF Left
<1> QED BY <1>2, <1>4 DEF b

(* user_line_skip stops at the end of the line.                            *)
LEMMA LeftSkip ==
    ASSUME NEW T, NEW ul, Good(T, ul), NEW n \in Nat
    PROVE  Left(T, ul, Skip(ul, n))
<1>1. PICK l \in Nat, i \in Nat : l = Len(ul.text) /\ i = ul.ix /\ i \in 1..l + 1 BY GoodLine
<1>0. PICK x \in Nat, y \in Nat : x = i + n /\ y = l + 1 /\ x >= 1 /\ y >= 1 BY <1>1
<1> DEFINE m == Min({i + n, l + 1})
<1>2. m = (IF i + n <= l + 1 THEN i + n ELSE l + 1)
  <2>1. {x, y} \in SUBSET (1..(x + y))
    <3> HIDE DEF m
    <3>1. x <= x + y /\ y <= x + y BY <1>0
    <3> QED BY <1>0, <3>1
  <2>2. m \in {x, y} /\ m <= x /\ m <= y
    <3>1. m = Min({x, y}) BY <1>0
    <3>2. x + y \in Nat /\ {x, y} # {} OBVIOUS
    <3>3. Min({x, y}) \in {x, y} /\ \A k \in {x, y} : Min({x, y}) <= k BY <2>1, <3>2, MinIn
    <3> HIDE DEF m
    <3> QED BY <3>1, <3>3
  <2> HIDE DEF m
  <2> QED BY <1>0, <2>2
<1> HIDE DEF m
<1>3. m \in 1..(l + 1) /\ i <= m BY <1>1, <1>2
<1>4. Skip(ul, n) = [ul EXCEPT !.ix = m] BY <1>1 DEF Skip, m
<1> QED BY <1>1, <1>3, <1>4, LeftMoved

(* user_line_skip_all.                                                     *)
LEMMA LeftSkipAll ==
    ASSUME NEW T, NEW ul, Good(T, ul)
    PROVE  Left(T, ul, SkipAll(ul))
<1>1. PICK l \in Nat, i \in Nat : l = Len(ul.text) /\ i = ul.ix /\ i \in 1..l + 1 BY GoodLine
<1>2. l + 1 \in 1..(l + 1) /\ i <= l + 1 BY <1>1
<1> QED BY <1>1, <1>2, LeftMoved DEF SkipAll

(* Where a search from the index ends.                                     *)
LEMMA SearchEnds ==
    ASSUME NEW T, NEW ul, Good(T, ul), NEW S \in SUBSET (ul.ix..Len(ul.text))
    PROVE  LET end == Min(S \cup {Len(ul.text) + 1})
           IN  end \in 1..(Len(ul.text) + 1) /\ ul.ix <= end /\ (end <= Len(ul.text) => end \in S)
<1>1. PICK l \in Nat, i \in Nat : l = Len(ul.text) /\ i = ul.ix /\ i \in 1..l + 1 BY GoodLine
<1> DEFINE end == Min(S \cup {l + 1})
<1>2. S \cup {l + 1} \in SUBSET (1..(l + 1)) /\ l + 1 \in Nat
  <2>1. l + 1 \in 1..(l + 1) /\ l + 1 \in Nat BY <1>1
  <2>2. \A x \in S : x \in i..l BY <1>1
  <2>3. \A x \in i..l : x \in 1..(l + 1) BY <1>1
  <2> QED BY <2>1, <2>2, <2>3
<1>3. end \in S \cup {l + 1} BY <1>2, MinIn
<1> HIDE DEF end
<1>4. end \in 1..(l + 1) /\ i <= end /\ (end <= l => end \in S) BY <1>1, <1>2, <1>3
<1> QED BY <1>1, <1>4 DEF end

(* user_line_skip_space.                                                   *)
LEMMA LeftSkipSpace ==
    ASSUME NEW T, NEW ul, Good(T, ul)
    PROVE  Left(T, ul, skip_space(ul))
<1> DEFINE S == {i \in ul.ix..Len(ul.text) : ul.text[i] # Space}
           end == Min(S \cup {Len(ul.text) + 1})
<1>1. end \in 1..(Len(ul.text) + 1) /\ ul.ix <= end BY SearchEnds
<1>2. skip_space(ul) = [ul EXCEPT !.ix = end] BY DEF skip_space, FirstFrom
<1> HIDE DEF end
<1> QED BY <1>1, <1>2, LeftMoved

(* Writing over a character that is in the line.                           *)
LEMMA LeftWritten ==
    ASSUME NEW T, Ended(T), NEW ul, Good(T, ul), NEW k \in 1..Len(ul.text), NEW c \in Ends
    PROVE  Left(T, ul, [ul EXCEPT !.text[k] = c])
<1>1. ul \in Lines(T) /\ ul.text \in Seq(T) /\ Len(ul.text) \in Nat /\ ul.ix \in Nat BY GoodLine
<1> DEFINE t == [ul.text EXCEPT ![k] = c]
           b == [ul EXCEPT !.text[k] = c]
<1>2. c \in T BY DEF Ended
<1>3. t \in Seq(T) /\ Len(t) = Len(ul.text) BY <1>1, <1>2, ExceptSeq
<1>4. \A j \in 1..Len(ul.text) : t[j] = ul.text[j] \/ t[j] \in Ends BY <1>1, LenProperties
<1> HIDE DEF t
<1>5. b = [ul EXCEPT !.text = t] BY <1>1 DEF Lines, t
<1>6. b.text = t /\ b.ix = ul.ix /\ b.id = ul.id /\ b \in Lines(T) BY <1>1, <1>3, <1>5 DEF Lines
<1> HIDE DEF b
<1>7. Good(T, b) BY <1>3, <1>6 DEF Good
<1>8. Left(T, ul, b) BY <1>1, <1>3, <1>4, <1>6, <1>7 DEF Left
<1> QED BY <1>8 DEF b

(* user_line_match_chop_char writes one character and passes it.           *)
LEMMA LeftChop ==
    ASSUME NEW T, Ended(T), NEW ul, Good(T, ul), ~Exhausted(ul)
    PROVE  Left(T, ul, Chop(ul))
<1>1. Left(T, ul, Skip(ul, 1)) BY LeftSkip
<1>2. ul.ix \in 1..Len(Skip(ul, 1).text) BY <1>1, GoodLine DEF Left
<1>3. Left(T, Skip(ul, 1), Chop(ul)) BY <1>1, <1>2, LeftWritten DEF Chop, Left, Ends
<1> QED BY <1>1, <1>3, LeftOf

(* user_line_pop_alpha.                                                    *)
LEMMA LeftPopAlpha ==
    ASSUME NEW T, NEW ul, Good(T, ul)
    PROVE  Left(T, ul, pop_alpha(ul).ul)
<1>1. pop_alpha(ul).ul \in {ul, Skip(ul, 1)} BY DEF pop_alpha, Popped
<1> QED BY <1>1, LeftSkip, LeftSelf

(* user_line_pop_nonspace.                                                 *)
LEMMA LeftPopNonspace ==
    ASSUME NEW T, NEW ul, Good(T, ul)
    PROVE  Left(T, ul, pop_nonspace(ul).ul)
<1> DEFINE S == {i \in ul.ix..Len(ul.text) : ul.text[i] = Space}
           end == Min(S \cup {Len(ul.text) + 1})
<1>1. end \in 1..(Len(ul.text) + 1) /\ ul.ix <= end BY SearchEnds
<1>2. pop_nonspace(ul).ul \in {ul, [ul EXCEPT !.ix = end]} BY DEF pop_nonspace, Popped, FirstFrom
<1> HIDE DEF end
<1> QED BY <1>1, <1>2, LeftMoved, LeftSelf

(* user_line_pop_rest ends the rest with a nul, unless the line does.      *)
LEMMA LeftPopRest ==
    ASSUME NEW T, Ended(T), NEW ul, Good(T, ul)
    PROVE  Left(T, ul, pop_rest(ul).ul)
<1> DEFINE S == {i \in ul.ix..Len(ul.text) : ul.text[i] \in {Semi, Nul}}
           end == Min(S \cup {Len(ul.text) + 1})
           at == [ul EXCEPT !.ix = end]
<1>1. end \in 1..(Len(ul.text) + 1) /\ ul.ix <= end BY SearchEnds
<1>2. FirstFrom(ul, LAMBDA t : t \in {Semi, Nul}) = end BY DEF FirstFrom
<1>3. pop_rest(ul).ul = IF cmd_end(ul) THEN ul
                        ELSE IF end <= Len(ul.text) /\ ul.text[end] = Semi THEN Chop(at) ELSE SkipAll(ul)
  BY <1>2 DEF pop_rest, Popped
<1> HIDE DEF end
<1>4. Left(T, ul, at) /\ at.ix = end /\ at.text = ul.text BY <1>1, LeftMoved
<1>5. end <= Len(ul.text) => ~Exhausted(at) BY <1>1, <1>4, GoodLine DEF Exhausted
<1>6. Good(T, at) BY <1>4 DEF Left
<1> HIDE DEF at
<1>7. end <= Len(ul.text) => Left(T, at, Chop(at)) BY <1>5, <1>6, LeftChop
<1>8. end <= Len(ul.text) => Left(T, ul, Chop(at)) BY <1>4, <1>7, LeftOf
<1> QED BY <1>3, <1>8, LeftSelf, LeftSkipAll

(* user_line_cut_cmd_no_redirect.                                          *)
LEMMA LeftNoRedirect ==
    ASSUME NEW T, Ended(T), NEW ul, Good(T, ul)
    PROVE  Left(T, ul, cut_cmd_no_redirect(ul).ul)
<1> DEFINE s == skip_space(ul)
<1>1. Left(T, ul, s) /\ Good(T, s) BY LeftSkipSpace DEF Left
<1>2. cut_cmd_no_redirect(ul).ul = IF check_char(s, Semi) THEN Chop(s) ELSE s BY DEF cut_cmd_no_redirect, Popped
<1> HIDE DEF s
<1>3. check_char(s, Semi) => Left(T, s, Chop(s)) BY <1>1, LeftChop DEF check_char
<1>4. check_char(s, Semi) => Left(T, ul, Chop(s)) BY <1>1, <1>3, LeftOf
<1> QED BY <1>1, <1>2, <1>4

(* The name after a redirection, and the end of the command after it.      *)
LEMMA LeftPopTarget ==
    ASSUME NEW T, Ended(T), NEW ul, Good(T, ul), NEW tag
    PROVE  Left(T, ul, pop_target(tag, ul).ul)
<1> DEFINE name == IF tag = "file" THEN pop_nonspace(ul) ELSE pop_rest(ul)
           end  == cut_cmd_no_redirect(name.ul)
<1>1. Left(T, ul, name.ul) /\ Good(T, name.ul) BY LeftPopNonspace, LeftPopRest DEF Left
<1>2. pop_target(tag, ul).ul \in {ul, end.ul} BY DEF pop_target, Popped
<1> HIDE DEF name
<1>3. Left(T, name.ul, end.ul) BY <1>1, LeftNoRedirect
<1> HIDE DEF end
<1>4. Left(T, ul, end.ul) BY <1>1, <1>3, LeftOf
<1> QED BY <1>2, <1>4, LeftSelf

(* The source named after a redirection.                                   *)
LEMMA CutsPopSource ==
    ASSUME NEW T, Ended(T), NEW ul, Good(T, ul), NEW tag \in Sink, NEW sinks \in Sinks
    PROVE  Cuts(T, ul, pop_source(ul, tag, sinks))
<1> DEFINE s    == skip_space(ul)
           word == pop_alpha(s)
           end  == cut_cmd_no_redirect(word.ul)
           src  == At(s)
<1>1. Left(T, ul, s) /\ Good(T, s) BY LeftSkipSpace DEF Left
<1>2. /\ pop_source(ul, tag, sinks).ul = end.ul
      /\ pop_source(ul, tag, sinks).sinks
            = IF word.ok /\ end.ok /\ Names(src, Source) THEN [sinks EXCEPT ![src[2]] = tag] ELSE sinks
  BY DEF pop_source, Cut
<1> HIDE DEF s
<1>3. Left(T, s, word.ul) /\ Good(T, word.ul) BY <1>1, LeftPopAlpha DEF Left
<1>4. Left(T, ul, word.ul) BY <1>1, <1>3, LeftOf
<1> HIDE DEF word
<1>5. Left(T, word.ul, end.ul) BY <1>3, LeftNoRedirect
<1> HIDE DEF end
<1>6. Left(T, ul, end.ul) BY <1>3, <1>4, <1>5, LeftOf
<1>7. [sinks EXCEPT ![src[2]] = tag] \in Sinks BY DEF Sinks
<1>8. pop_source(ul, tag, sinks) = Cut(pop_source(ul, tag, sinks).err, pop_source(ul, tag, sinks).ul,
                                       pop_source(ul, tag, sinks).sinks)
  BY DEF pop_source, Cut
<1> HIDE DEF src
<1> QED BY <1>2, <1>6, <1>7, <1>8 DEF Cuts

(* What follows the name of a redirection.                                 *)
LEMMA CutsRedirectTo ==
    ASSUME NEW T, Ended(T), NEW tag \in Sink, NEW target, Good(T, target.ul), NEW sinks \in Sinks
    PROVE  Cuts(T, target.ul, redirect_to(tag, target, sinks))
<1> DEFINE end  == cut_cmd_no_redirect(target.ul)
           next == Skip(end.ul, 1)
<1>1. redirect_to(tag, target, sinks) \in
         {Cut("expecting", target.ul, sinks), Cut("ok", end.ul, [s \in Source |-> tag]),
          pop_source(next, tag, sinks), Cut("no_parse", end.ul, sinks)}
  BY DEF redirect_to
<1>2. Left(T, target.ul, end.ul) /\ Good(T, end.ul) BY LeftNoRedirect DEF Left
<1> HIDE DEF end
<1>3. Left(T, end.ul, next) /\ Good(T, next) BY <1>2, LeftSkip DEF Left
<1> HIDE DEF next
<1>4. Left(T, target.ul, next) BY <1>2, <1>3, LeftOf
<1>5. Cuts(T, next, pop_source(next, tag, sinks)) BY <1>3, CutsPopSource
<1>6. Cuts(T, target.ul, pop_source(next, tag, sinks)) BY <1>3, <1>4, <1>5, LeftOf DEF Cuts
<1>7. [s \in Source |-> tag] \in Sinks BY DEF Sinks
<1>8. Cuts(T, target.ul, Cut("expecting", target.ul, sinks)) BY LeftSelf DEF Cuts, Cut
<1>9. Cuts(T, target.ul, Cut("ok", end.ul, [s \in Source |-> tag])) BY <1>2, <1>7 DEF Cuts, Cut
<1>10. Cuts(T, target.ul, Cut("no_parse", end.ul, sinks)) BY <1>2 DEF Cuts, Cut
<1> QED BY <1>1, <1>6, <1>8, <1>9, <1>10

(* parse_output_redirect.                                                  *)
LEMMA CutsRedirect ==
    ASSUME NEW T, Ended(T), NEW ul, Good(T, ul), NEW sinks \in Sinks
    PROVE  Cuts(T, ul, parse_output_redirect(ul, sinks))
<1> DEFINE word   == pop_alpha(ul)
           tag    == SinkOf[At(ul)[2]]
           s      == skip_space(word.ul)
           target == pop_target(tag, s)
<1>1. Left(T, ul, word.ul) /\ Good(T, word.ul) BY LeftPopAlpha DEF Left
<1>2. parse_output_redirect(ul, sinks) =
         IF ~word.ok \/ ~Names(At(ul), DOMAIN SinkOf) THEN Cut("expecting", word.ul, sinks)
         ELSE redirect_to(tag, target, sinks)
  BY DEF parse_output_redirect
<1>3. Names(At(ul), DOMAIN SinkOf) => tag \in Sink BY DEF Names, SinkOf, Sink
<1> HIDE DEF word, tag
<1>4. Left(T, word.ul, s) /\ Good(T, s) BY <1>1, LeftSkipSpace DEF Left
<1> HIDE DEF s
<1>5. Left(T, s, target.ul) /\ Good(T, target.ul) BY <1>4, LeftPopTarget DEF Left
<1> HIDE DEF target
<1>6. Left(T, ul, s) BY <1>1, <1>4, LeftOf
<1>7. Left(T, ul, target.ul) BY <1>4, <1>5, <1>6, LeftOf
<1>8. tag \in Sink => Cuts(T, target.ul, redirect_to(tag, target, sinks)) BY <1>5, CutsRedirectTo
<1>9. tag \in Sink => Cuts(T, ul, redirect_to(tag, target, sinks)) BY <1>5, <1>7, <1>8, LeftOf DEF Cuts
<1>10. Cuts(T, ul, Cut("expecting", word.ul, sinks)) BY <1>1 DEF Cuts, Cut
<1> QED BY <1>2, <1>3, <1>9, <1>10

(* The index is put back.                                                  *)
LEMMA LeftUnskipped ==
    ASSUME NEW T, NEW a, Good(T, a), NEW b, Left(T, a, b)
    PROVE  Left(T, a, [b EXCEPT !.ix = a.ix])
<1>1. b \in Lines(T) /\ Len(b.text) = Len(a.text) BY GoodLine DEF Left
<1>2. a.ix \in 1..(Len(a.text) + 1) /\ a.ix \in Nat BY GoodLine
<1> DEFINE c == [b EXCEPT !.ix = a.ix]
<1>3. c.ix = a.ix /\ c.text = b.text /\ c.id = b.id /\ c \in Lines(T) BY <1>1, <1>2 DEF Lines
<1> HIDE DEF c
<1>4. Good(T, c) BY <1>1, <1>2, <1>3 DEF Good
<1>5. Left(T, a, c) BY <1>1, <1>2, <1>3, <1>4 DEF Left
<1> QED BY <1>5 DEF c

(* A cut that fails may give the index back ...                            *)
LEMMA CutsUnskipped ==
    ASSUME NEW T, NEW ul, Good(T, ul), NEW cut, Cuts(T, ul, cut)
    PROVE  Cuts(T, ul, Unskip(cut, ul.ix))
<1>1. PICK err, u, sinks : cut = Cut(err, u, sinks) /\ Left(T, ul, u) /\ sinks \in Sinks BY DEF Cuts
<1> DEFINE v == [u EXCEPT !.ix = ul.ix]
<1>2. Left(T, ul, v) BY <1>1, LeftUnskipped
<1>3. Unskip(cut, ul.ix) \in {cut, Cut(err, v, sinks)} BY <1>1 DEF Unskip, Cut
<1> HIDE DEF v
<1>4. Cuts(T, ul, Cut(err, v, sinks)) BY <1>1, <1>2 DEF Cuts, Cut
<1> QED BY <1>3, <1>4

(* ... and the character it wrote over.                                    *)
LEMMA CutsPutBack ==
    ASSUME NEW T, Ended(T), NEW ul, Good(T, ul), NEW cut, Cuts(T, ul, cut), NEW k \in 1..Len(ul.text)
    PROVE  Cuts(T, ul, PutBack(cut, k, Gt))
<1>1. PICK err, u, sinks : cut = Cut(err, u, sinks) /\ Left(T, ul, u) /\ sinks \in Sinks BY DEF Cuts
<1> DEFINE v == [u EXCEPT !.text[k] = Gt]
<1>2. Good(T, u) /\ k \in 1..Len(u.text) BY <1>1 DEF Left
<1>3. Left(T, u, v) BY <1>2, LeftWritten DEF Ends
<1>4. PutBack(cut, k, Gt) \in {cut, Cut(err, v, sinks)} BY <1>1 DEF PutBack, Cut
<1> HIDE DEF v
<1>5. Left(T, ul, v) BY <1>1, <1>2, <1>3, LeftOf
<1>6. Cuts(T, ul, Cut(err, v, sinks)) BY <1>1, <1>5 DEF Cuts, Cut
<1> QED BY <1>4, <1>6

(* What comes after a part of a line that is left is left of the line.     *)
LEMMA CutsAfter ==
    ASSUME NEW T, NEW a, Good(T, a), NEW b, Left(T, a, b), NEW cut, Cuts(T, b, cut)
    PROVE  Cuts(T, a, cut)
BY LeftOf DEF Cuts, Left

(* user_line_cut_cmd: both of its attempts.                                *)
LEMMA CutsCmd ==
    ASSUME NEW T, Ended(T), NEW ul, Good(T, ul), NEW sinks \in Sinks
    PROVE  Cuts(T, ul, cut_cmd(ul, sinks))
<1> DEFINE plain == cut_cmd_no_redirect(ul)
           p     == plain.ul
           c     == Chop(p)
           s     == skip_space(c)
           redir == parse_output_redirect(s, sinks)
<1>1. cut_cmd(ul, sinks) = IF plain.ok THEN Cut("ok", p, sinks)
                           ELSE IF ~check_char(p, Gt) THEN Cut("no_parse", p, sinks)
                           ELSE Unskip(PutBack(redir, p.ix, Gt), ul.ix)
  BY DEF cut_cmd
<1>2. Left(T, ul, p) /\ Good(T, p) BY LeftNoRedirect DEF Left
<1> HIDE DEF plain
<1>3. Cuts(T, ul, Cut("ok", p, sinks)) /\ Cuts(T, ul, Cut("no_parse", p, sinks)) BY <1>2 DEF Cuts, Cut
<1>4. ASSUME check_char(p, Gt) PROVE Cuts(T, ul, Unskip(PutBack(redir, p.ix, Gt), ul.ix))
  <2>1. ~Exhausted(p) BY <1>4 DEF check_char
  <2> HIDE DEF p
  <2>2. Left(T, p, c) /\ Good(T, c) BY <1>2, <2>1, LeftChop DEF Left
  <2> HIDE DEF c
  <2>3. Left(T, c, s) /\ Good(T, s) BY <2>2, LeftSkipSpace DEF Left
  <2> HIDE DEF s
  <2>4. Cuts(T, s, redir) BY <2>3, CutsRedirect
  <2> HIDE DEF redir
  <2>5. Left(T, ul, c) BY <1>2, <2>2, LeftOf
  <2>6. Left(T, ul, s) BY <2>2, <2>3, <2>5, LeftOf
  <2>7. Cuts(T, ul, redir) BY <2>4, <2>6, CutsAfter
  <2>8. p.ix \in 1..Len(ul.text) BY <1>2, <2>1, GoodLine DEF Left
  <2>9. Cuts(T, ul, PutBack(redir, p.ix, Gt)) BY <2>7, <2>8, CutsPutBack
  <2> QED BY <2>9, CutsUnskipped
<1> QED BY <1>1, <1>3, <1>4

(* The words that end a command.                                           *)
LEMMA CutsLast ==
    ASSUME NEW T, Ended(T), NEW ul, Good(T, ul), NEW sinks \in Sinks
    PROVE  Cuts(T, ul, pop_last_nonspace(ul, sinks)) /\ Cuts(T, ul, pop_last_alpha(ul, sinks))
<1>1. ASSUME NEW word, Left(T, ul, word.ul) PROVE Cuts(T, ul, pop_last(word, ul, sinks))
  <2>1. Cuts(T, word.ul, cut_cmd(word.ul, sinks)) BY <1>1, CutsCmd DEF Left
  <2>2. Cuts(T, ul, cut_cmd(word.ul, sinks)) BY <1>1, <2>1, CutsAfter
  <2>3. Cuts(T, ul, Unskip(cut_cmd(word.ul, sinks), ul.ix)) BY <2>2, CutsUnskipped
  <2>4. Cuts(T, ul, Cut("no_parse", ul, sinks)) BY LeftSelf DEF Cuts, Cut
  <2> QED BY <2>3, <2>4 DEF pop_last
<1> QED BY <1>1, LeftPopNonspace, LeftPopAlpha DEF pop_last_nonspace, pop_last_alpha

(* user_line_chop_and_skip_space.                                          *)
LEMMA LeftChopSpace ==
    ASSUME NEW T, Ended(T), NEW ul, Good(T, ul)
    PROVE  Left(T, ul, chop_and_skip_space(ul).ul)
<1> DEFINE c == Chop(ul)
           s == skip_space(c)
<1>1. chop_and_skip_space(ul).ul = IF ~Exhausted(ul) /\ At(ul) = Space THEN s ELSE ul
  BY DEF chop_and_skip_space, Popped
<1>2. ~Exhausted(ul) => Left(T, ul, c) /\ Good(T, c) BY LeftChop DEF Left
<1> HIDE DEF c
<1>3. ~Exhausted(ul) => Left(T, c, s) BY <1>2, LeftSkipSpace
<1> HIDE DEF s
<1>4. ~Exhausted(ul) => Left(T, ul, s) BY <1>2, <1>3, LeftOf
<1> QED BY <1>1, <1>4, LeftSelf

-----------------------------------------------------------------------------
(* The tokens of a script.                                                 *)


(* Tokens: characters, words of redirections and parameters, commands.     *)
Token == {Space, Semi, Gt, Lt, Bar, Nul} \cup {Word(w) : w \in DOMAIN SinkOf \cup {"x"}}
         \cup {Cmd(kind, i) : kind \in Kind, i \in Nat}

IsCmd(t) == t[1] = "command"

(* A text names its commands by numbers up to n, in order.                 *)
Numbered(text, n) ==
    /\ text \in Seq(Token)
    /\ \A k \in 1..Len(text) : IsCmd(text[k]) => text[k][3] \in 1..n
    /\ \A j, k \in 1..Len(text) : j < k /\ IsCmd(text[j]) /\ IsCmd(text[k]) => text[j][3] < text[k][3]

(* A text without commands.                                                *)
Plain(text) == text \in Seq(Token) /\ \A k \in 1..Len(text) : ~IsCmd(text[k])

-----------------------------------------------------------------------------
(* The text of a script.                                                   *)

(* The characters and the words are tokens, and not commands.              *)
LEMMA Characters ==
    /\ Space \in Token /\ Semi \in Token /\ Gt \in Token /\ Lt \in Token /\ Bar \in Token /\ Nul \in Token
    /\ ~IsCmd(Space) /\ ~IsCmd(Semi) /\ ~IsCmd(Gt) /\ ~IsCmd(Lt) /\ ~IsCmd(Bar) /\ ~IsCmd(Nul)
    /\ \A w \in DOMAIN SinkOf \cup {"x"} : Word(w) \in Token /\ ~IsCmd(Word(w))
<1>1. Space \in Token /\ Semi \in Token /\ Gt \in Token /\ Lt \in Token /\ Bar \in Token /\ Nul \in Token
  BY DEF Token
<1>2. ~IsCmd(Space) /\ ~IsCmd(Semi) /\ ~IsCmd(Gt) /\ ~IsCmd(Lt) /\ ~IsCmd(Bar) /\ ~IsCmd(Nul)
  BY DEF IsCmd, Space, Semi, Gt, Lt, Bar, Nul
<1>3. ASSUME NEW w \in DOMAIN SinkOf \cup {"x"} PROVE Word(w) \in Token /\ ~IsCmd(Word(w))
  <2>1. Word(w) \in {Word(v) : v \in DOMAIN SinkOf \cup {"x"}} OBVIOUS
  <2>3. Word(w) \in Token BY <2>1 DEF Token
  <2>2. ~IsCmd(Word(w)) BY DEF IsCmd, Word
  <2> QED BY <2>2, <2>3
<1> QED BY <1>1, <1>2, <1>3

(* A token that is a command has a kind and a number ...                   *)
LEMMA Commands ==
    ASSUME NEW t \in Token, IsCmd(t)
    PROVE  \E kind \in Kind, i \in Nat : t = Cmd(kind, i) /\ t[2] = kind /\ t[3] = i
<1>1. t \in {Cmd(kind, i) : kind \in Kind, i \in Nat} BY Characters DEF Token
<1>2. PICK kind \in Kind, i \in Nat : t = Cmd(kind, i) BY <1>1
<1> QED BY <1>2 DEF Cmd

(* ... and every kind and number make one.                                 *)
LEMMA CommandTokens ==
    ASSUME NEW kind \in Kind, NEW i \in Nat
    PROVE  Cmd(kind, i) \in Token
<1>1. Cmd(kind, i) \in {Cmd(k, j) : k \in Kind, j \in Nat} OBVIOUS
<1> QED BY <1>1 DEF Token

(* Texts without commands: one after another, of one token, of none, of    *)
(* two.                                                                    *)
LEMMA PlainThen ==
    ASSUME NEW s, NEW t, Plain(s), Plain(t)
    PROVE  Plain(s \o t)
<1>1. PICK m \in Nat, n \in Nat : m = Len(s) /\ n = Len(t) BY LenProperties DEF Plain
<1>2. /\ s \o t \in Seq(Token) /\ Len(s \o t) = m + n
      /\ \A i \in 1..(m + n) : (s \o t)[i] = IF i <= m THEN s[i] ELSE t[i - m]
  BY <1>1, ConcatProperties DEF Plain
<1>3. ASSUME NEW i \in 1..(m + n) PROVE ~IsCmd((s \o t)[i])
  <2>1. CASE i <= m
    <3>1. i \in 1..m BY <2>1
    <3> QED BY <1>1, <1>2, <2>1, <3>1 DEF Plain
  <2>2. CASE ~(i <= m)
    <3>1. i - m \in 1..n BY <2>2
    <3> QED BY <1>1, <1>2, <2>2, <3>1 DEF Plain
  <2> QED BY <2>1, <2>2
<1> QED BY <1>2, <1>3 DEF Plain

(* Of one token.                                                           *)
LEMMA PlainOne ==
    ASSUME NEW t \in Token, ~IsCmd(t)
    PROVE  Plain(<<t>>)
BY DEF Plain

(* Of none.                                                                *)
LEMMA PlainNone == Plain(<<>>)
BY DEF Plain

(* Of two.                                                                 *)
LEMMA PlainTwo ==
    ASSUME NEW s \in Token, NEW t \in Token, ~IsCmd(s), ~IsCmd(t)
    PROVE  Plain(<<s, t>>)
BY DEF Plain

(* A redirection is a text without commands.                               *)
LEMMA PlainRedirection ==
    ASSUME NEW to \in To
    PROVE  Plain(Redirection(to))
<1>1. to[1] \in Sink \cup {"none"} /\ to[2] \in {"both", "std", "msg"} BY DEF To
<1> DEFINE w == Word1(to)
<1>2. to[1] # "none" => w \in DOMAIN SinkOf
  <2>1. to[1] # "none" => \E v \in DOMAIN SinkOf : SinkOf[v] = to[1] BY <1>1 DEF SinkOf, Sink
  <2> QED BY <2>1 DEF Word1
<1> DEFINE a == <<Space, Gt, Space, Word(w)>>
           b == IF to[1] \in {"file", "shell"} THEN <<Space, Word("x")>> ELSE <<>>
           c == IF to[2] = "both" THEN <<>> ELSE <<Space, Lt, Space, Word(to[2])>>
<1>3. Redirection(to) = IF to[1] = "none" THEN <<>> ELSE a \o b \o c BY DEF Redirection
<1> HIDE DEF w
<1>4. to[1] # "none" => Plain(a)
  <2>1. ASSUME NEW u \in Token, ~IsCmd(u) PROVE Plain(<<Space, Gt, Space, u>>) BY <2>1, Characters DEF Plain
  <2> QED BY <1>2, <2>1, Characters
<1>5. Plain(b) BY Characters, PlainTwo, PlainNone
<1>6. Plain(c)
  <2>1. ASSUME NEW u \in Token, ~IsCmd(u) PROVE Plain(<<Space, Lt, Space, u>>) BY <2>1, Characters DEF Plain
  <2>2. to[2] # "both" => to[2] \in DOMAIN SinkOf BY <1>1 DEF SinkOf
  <2> QED BY <2>1, <2>2, Characters, PlainNone
<1> HIDE DEF a, b, c
<1>7. to[1] # "none" => Plain(a \o b) BY <1>4, <1>5, PlainThen
<1>8. to[1] # "none" => Plain(a \o b \o c) BY <1>6, <1>7, PlainThen
<1> QED BY <1>3, <1>8, PlainNone

(* What a command of a script adds to the text: its name and plain text.   *)
LEMMA SegmentText ==
    ASSUME NEW scr \in Seq(Seg), NEW i \in 1..Len(scr)
    PROVE  \E t : Plain(t) /\ SegText(scr, i) = <<Cmd(scr[i].kind, i)>> \o t /\ scr[i].kind \in Kind
<1>1. scr[i] \in Seg BY ElementOfSeq
<1>2. scr[i].kind \in Kind /\ scr[i].to \in To /\ scr[i].sep \in {"spaced", "before", "glued"} BY <1>1 DEF Seg
<1> DEFINE a == <<Cmd(scr[i].kind, i)>>
           b == IF scr[i].kind \in {"save", "get", "rest", "all", "input"} THEN <<Space, Word("x")>> ELSE <<>>
           c == Redirection(scr[i].to)
           d == IF i = Len(scr) THEN <<>> ELSE Separator(scr[i].sep)
<1>3. SegText(scr, i) = a \o b \o c \o d BY DEF SegText
<1>4. Plain(b) BY Characters, PlainTwo, PlainNone
<1>5. Plain(c) BY <1>2, PlainRedirection
<1>6. Plain(d)
  <2>1. Plain(<<Space, Semi, Space>>) BY Characters DEF Plain
  <2>2. Plain(<<Space, Semi>>) /\ Plain(<<Semi>>) BY Characters, PlainOne, PlainTwo
  <2>3. Separator(scr[i].sep) \in {<<Space, Semi, Space>>, <<Space, Semi>>, <<Semi>>} BY <1>2 DEF Separator
  <2> QED BY <2>1, <2>2, <2>3, PlainNone
<1>7. a \in Seq(Token)
  <2>1. Cmd(scr[i].kind, i) \in Token
    <3>1. i \in Nat BY LenProperties
    <3> QED BY <1>2, <3>1, CommandTokens
  <2> QED BY <2>1
<1> HIDE DEF a, b, c, d
<1>8. Plain(b \o c) /\ Plain((b \o c) \o d) BY <1>4, <1>5, <1>6, PlainThen
<1>9. a \o b \o c \o d = a \o ((b \o c) \o d)
  <2>1. b \in Seq(Token) /\ c \in Seq(Token) /\ d \in Seq(Token) /\ b \o c \in Seq(Token) BY <1>4, <1>5, <1>6, <1>8 DEF Plain
  <2>4. \A x, y, z \in Seq(Token) : (x \o y) \o z = x \o (y \o z)
    <3> SUFFICES ASSUME NEW x \in Seq(Token), NEW y \in Seq(Token), NEW z \in Seq(Token)
                 PROVE  (x \o y) \o z = x \o (y \o z)
      OBVIOUS
    <3> QED BY ConcatAssociative, SMTT(30)
  <2>2. (a \o b) \o c = a \o (b \o c) BY <1>7, <2>1, <2>4
  <2>3. \A e \in Seq(Token) : (a \o e) \o d = a \o (e \o d) BY <1>7, <2>1, <2>4
  <2> QED BY <2>2, <2>3
<1> QED BY <1>2, <1>3, <1>8, <1>9 DEF a

(* A text and a next command.                                              *)
LEMMA NumberedThen ==
    ASSUME NEW n \in Nat, NEW s, Numbered(s, n), NEW kind \in Kind, NEW t, Plain(t)
    PROVE  Numbered(s \o (<<Cmd(kind, n + 1)>> \o t), n + 1)
<1> DEFINE c == Cmd(kind, n + 1)
           u == <<c>> \o t
<1>1. c \in Token /\ c[3] = n + 1
  <2>1. n + 1 \in Nat OBVIOUS
  <2>2. c \in Token BY <2>1, CommandTokens
  <2> QED BY <2>2 DEF Cmd
<1> HIDE DEF c
<1>2. <<c>> \in Seq(Token) /\ Len(<<c>>) = 1 /\ <<c>>[1] = c BY <1>1
<1>3. PICK l \in Nat, m \in Nat : l = Len(s) /\ m = Len(t) BY LenProperties DEF Plain, Numbered
<1>4. /\ u \in Seq(Token) /\ Len(u) = 1 + m
      /\ \A i \in 1..(1 + m) : u[i] = IF i <= 1 THEN <<c>>[i] ELSE t[i - 1]
  BY <1>2, <1>3, ConcatProperties DEF Plain
<1> HIDE DEF u
<1>5. \A i \in 1..(1 + m) : IsCmd(u[i]) => i = 1
  <2> SUFFICES ASSUME NEW i \in 1..(1 + m), ~(i <= 1) PROVE ~IsCmd(u[i])
    OBVIOUS
  <2>1. i - 1 \in 1..m OBVIOUS
  <2>2. u[i] = t[i - 1] BY <1>4
  <2>3. ~IsCmd(t[i - 1]) BY <1>3, <2>1 DEF Plain
  <2> QED BY <2>2, <2>3
<1>6. u[1] = c BY <1>2, <1>4
<1>15. s \in Seq(Token) BY DEF Numbered
<1>16. /\ s \o u \in Seq(Token) /\ Len(s \o u) = Len(s) + Len(u)
       /\ \A i \in 1..(Len(s) + Len(u)) : (s \o u)[i] = IF i <= Len(s) THEN s[i] ELSE u[i - Len(s)]
  BY <1>4, <1>15, ConcatProperties
<1>7. /\ s \o u \in Seq(Token) /\ Len(s \o u) = l + (1 + m)
      /\ \A i \in 1..(l + (1 + m)) : (s \o u)[i] = IF i <= l THEN s[i] ELSE u[i - l]
  BY <1>3, <1>4, <1>16
<1> DEFINE w == s \o u
<1> HIDE DEF w
<1>8. ASSUME NEW i \in 1..(l + (1 + m)), IsCmd(w[i])
      PROVE  (i <= l /\ w[i] = s[i]) \/ (i = l + 1 /\ w[i] = c)
  <2>1. i <= l => w[i] = s[i] BY <1>7 DEF w
  <2>2. ASSUME ~(i <= l) PROVE i = l + 1 /\ w[i] = c
    <3>1. i - l \in 1..(1 + m) BY <2>2
    <3>2. w[i] = u[i - l] BY <1>7, <2>2 DEF w
    <3>3. i - l = 1 BY <1>5, <1>8, <3>1, <3>2
    <3>4. w[i] = c BY <1>6, <3>2, <3>3
    <3> QED BY <3>3, <3>4
  <2> QED BY <2>1, <2>2
<1>9. \A i \in 1..l : IsCmd(s[i]) => s[i][3] \in 1..n BY <1>3 DEF Numbered
<1>10. ASSUME NEW i \in 1..(l + (1 + m)), IsCmd(w[i]) PROVE w[i][3] \in 1..(n + 1)
  <2>1. CASE i <= l /\ w[i] = s[i]
    <3>1. i \in 1..l BY <2>1
    <3>2. s[i][3] \in 1..n BY <1>9, <1>10, <2>1, <3>1
    <3> QED BY <2>1, <3>2
  <2>2. CASE i = l + 1 /\ w[i] = c BY <1>1, <2>2
  <2> QED BY <1>8, <1>10, <2>1, <2>2
<1>11. ASSUME NEW i \in 1..(l + (1 + m)), NEW j \in 1..(l + (1 + m)), i < j, IsCmd(w[i]), IsCmd(w[j])
       PROVE  w[i][3] < w[j][3]
  <2>1. i <= l /\ w[i] = s[i] /\ i \in 1..l BY <1>8, <1>11
  <2>2. CASE j <= l /\ w[j] = s[j]
    <3>1. j \in 1..l BY <2>2
    <3> QED BY <1>3, <1>11, <2>1, <2>2, <3>1 DEF Numbered
  <2>3. CASE j = l + 1 /\ w[j] = c
    <3>1. w[i][3] \in 1..n BY <1>9, <1>11, <2>1
    <3> QED BY <1>1, <2>3, <3>1
  <2> QED BY <1>8, <1>11, <2>2, <2>3
<1> QED BY <1>7, <1>10, <1>11 DEF Numbered, w, u, c

(* Before the first.                                                       *)
LEMMA PlainBefore ==
    ASSUME NEW n \in Nat, NEW s, Numbered(s, n), NEW p, Plain(p)
    PROVE  Numbered(p \o s, n)
<1>1. p \in Seq(Token) /\ s \in Seq(Token) BY DEF Plain, Numbered
<1>2. /\ p \o s \in Seq(Token) /\ Len(p \o s) = Len(p) + Len(s)
      /\ \A i \in 1..(Len(p) + Len(s)) : (p \o s)[i] = IF i <= Len(p) THEN p[i] ELSE s[i - Len(p)]
  BY <1>1, ConcatProperties
<1>3. PICK l \in Nat, m \in Nat : l = Len(p) /\ m = Len(s) BY <1>1, LenProperties
<1> DEFINE w == p \o s
<1> HIDE DEF w
<1>4. ASSUME NEW i \in 1..(l + m), IsCmd(w[i]) PROVE i - l \in 1..m /\ w[i] = s[i - l]
  <2>1. ~(i <= l)
    <3> SUFFICES ASSUME i <= l PROVE FALSE
      OBVIOUS
    <3>1. i \in 1..l /\ w[i] = p[i] BY <1>2, <1>3 DEF w
    <3> QED BY <1>3, <1>4, <3>1 DEF Plain
  <2> QED BY <1>2, <1>3, <2>1 DEF w
<1>5. ASSUME NEW i \in 1..(l + m), IsCmd(w[i]) PROVE w[i][3] \in 1..n
  BY <1>3, <1>4, <1>5 DEF Numbered
<1>6. ASSUME NEW i \in 1..(l + m), NEW j \in 1..(l + m), i < j, IsCmd(w[i]), IsCmd(w[j])
      PROVE  w[i][3] < w[j][3]
  <2>1. i - l \in 1..m /\ j - l \in 1..m /\ i - l < j - l BY <1>4, <1>6
  <2> QED BY <1>3, <1>4, <1>6, <2>1 DEF Numbered
<1> QED BY <1>2, <1>3, <1>5, <1>6 DEF Numbered, w

(* The sequences are put together from the first on.                       *)
Flat(seqs, k, f) == f = [i \in 1..k |-> IF i = 1 THEN seqs[i] ELSE f[i - 1] \o seqs[i]]

(* FlattenSeq puts sequences together in that way; by induction on their   *)
(* number.                                                                 *)
LEMMA Flattened ==
    ASSUME NEW seqs, Len(seqs) \in Nat \ {0}
    PROVE  \E f : Flat(seqs, Len(seqs), f) /\ FlattenSeq(seqs) = f[Len(seqs)]
<1>1. PICK n \in Nat : n = Len(seqs) /\ n # 0 OBVIOUS
<1> DEFINE S == {k \in 0..n : \E f : Flat(seqs, k, f)}
<1>2. 0 \in S
  <2> DEFINE f == [i \in 1..0 |-> seqs[i]]
  <2>1. Flat(seqs, 0, f) BY DEF Flat
  <2> QED BY <2>1
<1>3. ASSUME NEW k \in 0..n, k \in S, k < n PROVE k + 1 \in S
  <2>1. PICK f : Flat(seqs, k, f) BY <1>3
  <2> DEFINE g == [i \in 1..(k + 1) |-> IF i = 1 THEN seqs[i] ELSE f[i - 1] \o seqs[i]]
  <2>2. \A i \in 1..k : g[i] = f[i]
    <3>1. f = [i \in 1..k |-> IF i = 1 THEN seqs[i] ELSE f[i - 1] \o seqs[i]] BY <2>1 DEF Flat
    <3>2. \A i \in 1..k : i \in 1..(k + 1) BY <1>1, <1>3
    <3> DEFINE h == [i \in 1..k |-> IF i = 1 THEN seqs[i] ELSE f[i - 1] \o seqs[i]]
    <3>3. \A i \in 1..k : g[i] = h[i] BY <3>2
    <3> HIDE DEF g
    <3> QED BY <3>1, <3>3
  <2>3. \A i \in 1..(k + 1) : g[i] = IF i = 1 THEN seqs[i] ELSE g[i - 1] \o seqs[i]
    <3> SUFFICES ASSUME NEW i \in 1..(k + 1), i # 1 PROVE g[i] = g[i - 1] \o seqs[i]
      OBVIOUS
    <3>1. i - 1 \in 1..k OBVIOUS
    <3>2. g[i] = f[i - 1] \o seqs[i] OBVIOUS
    <3>3. g[i - 1] = f[i - 1] BY <2>2, <3>1
    <3> HIDE DEF g
    <3> QED BY <3>2, <3>3
  <2>4. g = [i \in 1..(k + 1) |-> g[i]] OBVIOUS
  <2> HIDE DEF g
  <2>5. Flat(seqs, k + 1, g) BY <2>3, <2>4 DEF Flat
  <2>6. k + 1 \in 0..n BY <1>1, <1>3
  <2> QED BY <2>5, <2>6
<1>4. n \in S
  <2> HIDE DEF S
  <2>1. \A k \in 0..n : k \in S BY <1>2, <1>3, SetInduction
  <2> QED BY <2>1
<1>5. \E f : Flat(seqs, n, f) BY <1>4
<1> DEFINE g == CHOOSE f : Flat(seqs, n, f)
<1>6. Flat(seqs, n, g) BY <1>5
<1>7. FlattenSeq(seqs) = g[n] BY <1>1 DEF FlattenSeq, Flat
<1> QED BY <1>1, <1>6, <1>7

(* The text of a script numbers its commands.                              *)
LEMMA TextNumbered ==
    ASSUME NEW scr \in Seq(Seg)
    PROVE  Numbered(Text(scr), Len(scr))
<1>1. PICK n \in Nat : n = Len(scr) BY LenProperties
<1>2. CASE scr = <<>>
  <2>1. Text(scr) = <<>> BY <1>2 DEF Text
  <2>2. Numbered(<<>>, Len(scr)) BY DEF Numbered
  <2> QED BY <2>1, <2>2
<1>3. CASE scr # <<>>
  <2> DEFINE seqs == [i \in DOMAIN scr |-> SegText(scr, i)]
  <2>1. n # 0 BY <1>1, <1>3, EmptySeq
  <2>2. seqs = [i \in 1..n |-> SegText(scr, i)] BY <1>1, LenProperties
  <2>3. Len(seqs) = n BY <2>2
  <2>4. \A i \in 1..n : seqs[i] = SegText(scr, i) BY <2>2
  <2> HIDE DEF seqs
  <2>5. PICK f : Flat(seqs, n, f) /\ FlattenSeq(seqs) = f[n] BY <2>1, <2>3, Flattened
  <2>6. \A i \in 1..n : f[i] = IF i = 1 THEN seqs[i] ELSE f[i - 1] \o seqs[i] BY <2>5 DEF Flat
  <2> DEFINE S == {k \in 0..n : k = 0 \/ Numbered(f[k], k)}
  <2>7. ASSUME NEW k \in 0..n, k \in S, k < n PROVE k + 1 \in S
    <3>1. k + 1 \in 1..n /\ k + 1 - 1 = k /\ k \in Nat BY <1>1, <2>7
    <3>2. PICK t : Plain(t) /\ SegText(scr, k + 1) = <<Cmd(scr[k + 1].kind, k + 1)>> \o t /\ scr[k + 1].kind \in Kind
      BY <1>1, <3>1, SegmentText
    <3> DEFINE u == <<Cmd(scr[k + 1].kind, k + 1)>> \o t
    <3>3. \A s : Numbered(s, k) => Numbered(s \o u, k + 1) BY <3>1, <3>2, NumberedThen
    <3> HIDE DEF u
    <3>4. CASE k = 0
      <4>1. f[1] = seqs[1] /\ seqs[1] = u BY <2>4, <2>6, <3>1, <3>2, <3>4 DEF u
      <4>2. Numbered(<<>>, 0) BY DEF Numbered
      <4>7. k + 1 = 1 BY <3>4
      <4>3. Numbered(<<>> \o u, 1) BY <3>3, <3>4, <4>2, <4>7
      <4>4. Plain(t) /\ Cmd(scr[k + 1].kind, k + 1) \in Token BY <3>1, <3>2, CommandTokens
      <4>5. u \in Seq(Token) BY <4>4, ConcatProperties DEF u, Plain
      <4>6. <<>> \o u = u BY <4>5, ConcatEmptySeq
      <4> QED BY <3>1, <3>4, <4>1, <4>3, <4>6
    <3>5. CASE k # 0
      <4>1. f[k + 1] = f[k] \o seqs[k + 1]
        <5>1. k + 1 # 1 BY <3>1, <3>5
        <5>2. PICK j \in 1..n : j = k + 1 /\ j - 1 = k /\ j # 1 BY <3>1, <5>1
        <5>3. f[j] = f[j - 1] \o seqs[j] BY <2>6, <5>2
        <5> QED BY <5>2, <5>3
      <4>2. seqs[k + 1] = u BY <2>4, <3>1, <3>2 DEF u
      <4>3. Numbered(f[k], k) BY <2>7, <3>5
      <4>4. Numbered(f[k + 1], k + 1) BY <3>3, <4>1, <4>2, <4>3
      <4>5. k + 1 \in 0..n BY <1>1, <3>1
      <4> QED BY <4>4, <4>5
    <3> QED BY <3>4, <3>5
  <2>8. n \in S
    <3>1. 0 \in S OBVIOUS
    <3> HIDE DEF S
    <3>2. \A k \in 0..n : k \in S BY <2>7, <3>1, SetInduction
    <3> QED BY <3>2
  <2>9. Numbered(f[n], n) BY <2>1, <2>8
  <2>10. Text(scr) = Key \o f[n] BY <1>3, <2>5 DEF Text, seqs
  <2>11. Plain(Key) BY Characters, PlainOne, PlainNone DEF Key
  <2> QED BY <1>1, <2>9, <2>10, <2>11, PlainBefore
<1> QED BY <1>2, <1>3

-----------------------------------------------------------------------------
(* The output: sequences of items, none of them twice.                     *)

CmdItem  == {<<"out", id, i, src>> : id \in Nat, i \in Nat, src \in Source}
NodeItem == {<<tag, id, i, "msg", n>> : tag \in {"out", "err"}, id \in Nat, i \in Nat, n \in Nat}
Item     == {Start} \cup {Log(n) : n \in Nat} \cup CmdItem \cup NodeItem
Shown    == (Sink \cup {"stderr"}) \X Item

Distinct(s)  == \A a, b \in 1..Len(s) : s[a] = s[b] => a = b
Apart(s, t)  == \A a \in 1..Len(s), b \in 1..Len(t) : s[a] # t[b]
Seconds(s)   == [e \in 1..Len(s) |-> s[e][2]]
Within(s, set) == \A a \in 1..Len(s) : s[a] \in set

Once(all, std, msg) ==
    /\ Distinct(all) /\ Distinct(std) /\ Distinct(msg)
    /\ Apart(all, std) /\ Apart(all, msg) /\ Apart(std, msg)

(* Nothing is written twice by an empty sequence.                          *)
LEMMA OfNone ==
    ASSUME NEW s, NEW W
    PROVE  Distinct(<<>>) /\ Within(<<>>, W) /\ Apart(s, <<>>) /\ Apart(<<>>, s)
BY EmptySeq DEF Distinct, Within, Apart

(* An element of two sequences, one after the other, is of one of them.    *)
LEMMA OfBoth ==
    ASSUME NEW S, NEW s \in Seq(S), NEW t \in Seq(S)
    PROVE  /\ \A i \in 1..Len(s \o t) :
                \/ i \in 1..Len(s) /\ (s \o t)[i] = s[i]
                \/ i - Len(s) \in 1..Len(t) /\ (s \o t)[i] = t[i - Len(s)]
           /\ Len(s) \in Nat
<1>1. PICK l \in Nat, m \in Nat : l = Len(s) /\ m = Len(t) BY LenProperties
<1>2. Len(s \o t) = Len(s) + Len(t) /\ \A i \in 1..(Len(s) + Len(t)) : (s \o t)[i] = IF i <= Len(s) THEN s[i] ELSE t[i - Len(s)]
  BY ConcatProperties
<1>3. \A i \in 1..(l + m) : (i <= l => i \in 1..l) /\ (~(i <= l) => i - l \in 1..m) OBVIOUS
<1> QED BY <1>1, <1>2, <1>3

(* So what holds of both holds of them together.                           *)
LEMMA WithinThen ==
    ASSUME NEW S, NEW s \in Seq(S), NEW t \in Seq(S), NEW W, Within(s, W), Within(t, W)
    PROVE  Within(s \o t, W)
<1> SUFFICES ASSUME NEW i \in 1..Len(s \o t) PROVE (s \o t)[i] \in W
  BY DEF Within
<1>1. CASE i \in 1..Len(s) /\ (s \o t)[i] = s[i] BY <1>1 DEF Within
<1>2. CASE i - Len(s) \in 1..Len(t) /\ (s \o t)[i] = t[i - Len(s)] BY <1>2 DEF Within
<1> QED BY <1>1, <1>2, OfBoth

(* Two sequences that share nothing with a third, one after the other.     *)
LEMMA ApartThen ==
    ASSUME NEW S, NEW s \in Seq(S), NEW t \in Seq(S), NEW u, Apart(s, u), Apart(t, u)
    PROVE  Apart(s \o t, u)
<1> SUFFICES ASSUME NEW i \in 1..Len(s \o t), NEW j \in 1..Len(u) PROVE (s \o t)[i] # u[j]
  BY DEF Apart
<1>1. CASE i \in 1..Len(s) /\ (s \o t)[i] = s[i] BY <1>1 DEF Apart
<1>2. CASE i - Len(s) \in 1..Len(t) /\ (s \o t)[i] = t[i - Len(s)] BY <1>2 DEF Apart
<1> QED BY <1>1, <1>2, OfBoth

(* Sharing nothing is mutual.                                              *)
LEMMA ApartSwapped ==
    ASSUME NEW s, NEW t, Apart(s, t)
    PROVE  Apart(t, s)
BY DEF Apart

(* Sequences without repetition that share nothing, one after the other.   *)
LEMMA DistinctThen ==
    ASSUME NEW S, NEW s \in Seq(S), NEW t \in Seq(S), Distinct(s), Distinct(t), Apart(s, t)
    PROVE  Distinct(s \o t)
<1> SUFFICES ASSUME NEW i \in 1..Len(s \o t), NEW j \in 1..Len(s \o t), (s \o t)[i] = (s \o t)[j] PROVE i = j
  BY DEF Distinct
<1>1. Len(s) \in Nat BY OfBoth
<1>2. CASE i \in 1..Len(s) /\ (s \o t)[i] = s[i]
  <2>1. CASE j \in 1..Len(s) /\ (s \o t)[j] = s[j] BY <1>2, <2>1 DEF Distinct
  <2>2. CASE j - Len(s) \in 1..Len(t) /\ (s \o t)[j] = t[j - Len(s)] BY <1>2, <2>2 DEF Apart
  <2> QED BY <2>1, <2>2, OfBoth
<1>3. CASE i - Len(s) \in 1..Len(t) /\ (s \o t)[i] = t[i - Len(s)]
  <2>1. CASE j \in 1..Len(s) /\ (s \o t)[j] = s[j] BY <1>3, <2>1 DEF Apart
  <2>2. CASE j - Len(s) \in 1..Len(t) /\ (s \o t)[j] = t[j - Len(s)]
    <3>1. i - Len(s) = j - Len(s) BY <1>3, <2>2 DEF Distinct
    <3>2. i \in Int /\ j \in Int OBVIOUS
    <3> QED BY <1>1, <3>1, <3>2
  <2> QED BY <2>1, <2>2, OfBoth
<1> QED BY <1>2, <1>3, OfBoth

(* A buffer that is shown, or dropped, is emptied.                         *)
LEMMA OnceMoved ==
    ASSUME NEW S, NEW all \in Seq(S), NEW std \in Seq(S), NEW msg \in Seq(S), Once(all, std, msg)
    PROVE  /\ Once(all \o std, <<>>, msg) /\ Once(all \o msg, std, <<>>)
           /\ Once(all \o (msg \o std), <<>>, <<>>)
           /\ Once(all, <<>>, msg) /\ Once(all, std, <<>>) /\ Once(all, <<>>, <<>>)
<1>1. Once(all \o std, <<>>, msg)
  <2>1. Distinct(all \o std) BY DistinctThen DEF Once
  <2>2. Apart(all \o std, msg) BY ApartThen DEF Once
  <2> QED BY <2>1, <2>2, OfNone DEF Once
<1>2. Once(all \o msg, std, <<>>)
  <2>1. Distinct(all \o msg) BY DistinctThen DEF Once
  <2>2. Apart(all \o msg, std) BY ApartThen, ApartSwapped DEF Once
  <2> QED BY <2>1, <2>2, OfNone DEF Once
<1>3. Once(all \o (msg \o std), <<>>, <<>>)
  <2>1. Apart(msg, std) BY ApartSwapped DEF Once
  <2>2. Distinct(msg \o std) BY <2>1, DistinctThen DEF Once
  <2>3. Apart(msg \o std, all) BY ApartThen, ApartSwapped DEF Once
  <2>4. msg \o std \in Seq(S) BY ConcatProperties
  <2>5. Distinct(all \o (msg \o std)) BY <2>2, <2>3, <2>4, DistinctThen, ApartSwapped DEF Once
  <2> QED BY <2>5, OfNone DEF Once
<1>4. Once(all, <<>>, msg) /\ Once(all, std, <<>>) /\ Once(all, <<>>, <<>>) BY OfNone DEF Once
<1> QED BY <1>1, <1>2, <1>3, <1>4

(* Fresh items are added to the buffers.                                   *)
LEMMA OnceAdded ==
    ASSUME NEW S, NEW all \in Seq(S), NEW std \in Seq(S), NEW msg \in Seq(S), Once(all, std, msg),
           NEW W, Within(all, W), Within(std, W), Within(msg, W),
           NEW s \in Seq(S), NEW m \in Seq(S), Distinct(s), Distinct(m), Apart(s, m),
           \A i \in 1..Len(s) : s[i] \notin W, \A i \in 1..Len(m) : m[i] \notin W
    PROVE  Once(all, std \o s, msg \o m)
<1>1. \A u \in {all, std, msg} : Apart(u, s) /\ Apart(u, m) BY DEF Within, Apart
<1>2. Distinct(std \o s) /\ Distinct(msg \o m) BY <1>1, DistinctThen DEF Once
<1>3. Apart(std \o s, all) /\ Apart(msg \o m, all) BY <1>1, ApartThen, ApartSwapped DEF Once
<1>4. Apart(std \o s, msg) /\ Apart(std \o s, m)
  <2>1. Apart(std, msg) /\ Apart(s, msg) /\ Apart(std, m) BY <1>1, ApartSwapped DEF Once
  <2> QED BY <2>1, ApartThen
<1>5. Apart(msg \o m, std \o s) BY <1>4, ApartThen, ApartSwapped
<1> QED BY <1>2, <1>3, <1>5, ApartSwapped DEF Once

(* What was placed, without the places.                                    *)
LEMMA SecondsThen ==
    ASSUME NEW all \in Seq(Shown), NEW buf \in Seq(Item), NEW place \in Sink \cup {"stderr"}
    PROVE  /\ all \o Placed(place, buf) \in Seq(Shown)
           /\ Seconds(all \o Placed(place, buf)) = Seconds(all) \o buf
           /\ Seconds(all) \in Seq(Item)
<1> DEFINE p == Placed(place, buf)
<1>1. PICK l \in Nat, m \in Nat : l = Len(all) /\ m = Len(buf) BY LenProperties
<1>2. p = [j \in 1..m |-> <<place, buf[j]>>] BY <1>1, LenProperties DEF Placed
<1>3. \A j \in 1..m : buf[j] \in Item BY <1>1, ElementOfSeq
<1>4. p \in Seq(Shown) /\ Len(p) = m
  <2>1. \A j \in 1..m : <<place, buf[j]>> \in Shown BY <1>3 DEF Shown
  <2>2. [j \in 1..m |-> <<place, buf[j]>>] \in [1..m -> Shown] BY <2>1
  <2> HIDE DEF p
  <2> QED BY <1>1, <1>2, <2>2
<1>5. \A j \in 1..m : p[j][2] = buf[j] BY <1>2
<1> HIDE DEF p
<1>6. /\ all \o p \in Seq(Shown) /\ Len(all \o p) = Len(all) + Len(p)
      /\ \A i \in 1..(Len(all) + Len(p)) : (all \o p)[i] = IF i <= Len(all) THEN all[i] ELSE p[i - Len(all)]
  BY <1>4, ConcatProperties
<1>7. Seconds(all) \in Seq(Item) /\ Len(Seconds(all)) = l /\ \A i \in 1..l : Seconds(all)[i] = all[i][2]
  <2>1. \A i \in 1..l : all[i][2] \in Item BY <1>1, ElementOfSeq DEF Shown
  <2>2. Seconds(all) \in [1..l -> Item] BY <1>1, <2>1 DEF Seconds
  <2> QED BY <1>1, <2>2 DEF Seconds
<1>8. /\ Seconds(all) \o buf \in Seq(Item) /\ Len(Seconds(all) \o buf) = Len(Seconds(all)) + Len(buf)
      /\ \A i \in 1..(Len(Seconds(all)) + Len(buf)) :
             (Seconds(all) \o buf)[i] = IF i <= Len(Seconds(all)) THEN Seconds(all)[i] ELSE buf[i - Len(Seconds(all))]
  BY <1>7, ConcatProperties
<1> DEFINE w == all \o p
           v == Seconds(all) \o buf
<1>9. /\ Len(w) = l + m /\ Len(v) = l + m /\ v \in Seq(Item)
      /\ \A i \in 1..(l + m) : w[i] = (IF i <= l THEN all[i] ELSE p[i - l]) /\ v[i] = (IF i <= l THEN Seconds(all)[i] ELSE buf[i - l])
  BY <1>1, <1>4, <1>6, <1>7, <1>8
<1> HIDE DEF w, v
<1>10. ASSUME NEW i \in 1..(l + m) PROVE w[i][2] = v[i]
  <2>1. i <= l => i \in 1..l BY <1>10
  <2>2. ~(i <= l) => i - l \in 1..m BY <1>10
  <2> QED BY <1>5, <1>7, <1>9, <2>1, <2>2
<1>11. Seconds(w) = v
  <2>1. Seconds(w) = [i \in 1..(l + m) |-> w[i][2]] BY <1>9 DEF Seconds
  <2>2. v = [i \in 1..(l + m) |-> v[i]] BY <1>1, <1>9, LenProperties
  <2> QED BY <1>10, <2>1, <2>2
<1> QED BY <1>6, <1>7, <1>11 DEF w, v, p

CmdOut == [std : Seq(Item), msg : Seq(Item), to : [Source -> Sink]]

(* The two buffers and what was shown: items that can have been written.   *)
OutIs(cmd_out, all, W) ==
    /\ cmd_out \in CmdOut
    /\ all \in Seq(Shown)
    /\ Once(Seconds(all), cmd_out.std, cmd_out.msg)
    /\ Within(Seconds(all), W) /\ Within(cmd_out.std, W) /\ Within(cmd_out.msg, W)

(* What cmd_out_clean, a flush of one source or both, and                  *)
(* ui_vi_show_session do to the output: no item is in it twice, and none   *)
(* is new.                                                                 *)
LEMMA GoodClean ==
    ASSUME NEW c, NEW all, NEW W, OutIs(c, all, W)
    PROVE  OutIs(Clean, all, W)
<1>1. Clean \in CmdOut BY EmptySeq DEF Clean, CmdOut, Default, Source, Sink
<1>2. Clean.std = <<>> /\ Clean.msg = <<>> BY DEF Clean
<1>3. Once(Seconds(all), <<>>, <<>>) BY OfNone DEF OutIs, Once
<1> QED BY <1>1, <1>2, <1>3, OfNone DEF OutIs

(* One buffer is written to a sink, and emptied.                           *)
LEMMA GoodPlaced ==
    ASSUME NEW c, NEW all, NEW W, OutIs(c, all, W), NEW place \in Sink \cup {"stderr"}, NEW src \in Source,
           NEW d \in CmdOut, d.std = (IF src = "std" THEN <<>> ELSE c.std), d.msg = (IF src = "msg" THEN <<>> ELSE c.msg)
    PROVE  OutIs(d, all \o Placed(place, c[src]), W)
<1>1. c.std \in Seq(Item) /\ c.msg \in Seq(Item) /\ all \in Seq(Shown) BY DEF OutIs, CmdOut
<1>2. Seconds(all) \in Seq(Item) BY <1>1, SecondsThen
<1>3. Once(Seconds(all) \o c.std, <<>>, c.msg) /\ Once(Seconds(all) \o c.msg, c.std, <<>>)
  BY <1>1, <1>2, OnceMoved DEF OutIs
<1>4. Within(Seconds(all) \o c.std, W) /\ Within(Seconds(all) \o c.msg, W) BY <1>1, <1>2, WithinThen DEF OutIs
<1>5. \A buf \in Seq(Item) : /\ all \o Placed(place, buf) \in Seq(Shown)
                             /\ Seconds(all \o Placed(place, buf)) = Seconds(all) \o buf
  BY <1>1, SecondsThen
<1>6. CASE src = "std" BY <1>1, <1>3, <1>4, <1>5, <1>6, OfNone DEF OutIs
<1>7. CASE src = "msg" BY <1>1, <1>3, <1>4, <1>5, <1>7, OfNone DEF OutIs
<1> QED BY <1>6, <1>7 DEF Source

(* Both are.                                                               *)
LEMMA GoodBothPlaced ==
    ASSUME NEW c, NEW all, NEW W, OutIs(c, all, W)
    PROVE  OutIs(Clean, all \o Placed("file", c.msg \o c.std), W)
<1>1. c.std \in Seq(Item) /\ c.msg \in Seq(Item) /\ all \in Seq(Shown) BY DEF OutIs, CmdOut
<1>2. Seconds(all) \in Seq(Item) BY <1>1, SecondsThen DEF Sink
<1>3. Once(Seconds(all) \o (c.msg \o c.std), <<>>, <<>>) BY <1>1, <1>2, OnceMoved DEF OutIs
<1>4. c.msg \o c.std \in Seq(Item) BY <1>1, ConcatProperties
<1>5. Within(c.msg \o c.std, W) BY <1>1, WithinThen DEF OutIs
<1>6. Within(Seconds(all) \o (c.msg \o c.std), W) BY <1>2, <1>4, <1>5, WithinThen DEF OutIs
<1>7. /\ all \o Placed("file", c.msg \o c.std) \in Seq(Shown)
      /\ Seconds(all \o Placed("file", c.msg \o c.std)) = Seconds(all) \o (c.msg \o c.std)
  BY <1>1, <1>4, SecondsThen DEF Sink
<1>8. Clean \in CmdOut /\ Clean.std = <<>> /\ Clean.msg = <<>> BY GoodClean, EmptySeq DEF Clean, OutIs, CmdOut, Default, Source, Sink
<1> QED BY <1>3, <1>6, <1>7, <1>8, OfNone DEF OutIs

OutOf(o) == o = [cout |-> o.cout, shown |-> o.shown, file |-> o.file, screen |-> o.screen]
GoodOut(o, W) == OutOf(o) /\ OutIs(o.cout, o.shown, W)

(* A flush of one source, whatever its sink.                               *)
LEMMA GoodFlush ==
    ASSUME NEW o, NEW W, GoodOut(o, W), NEW src \in Source
    PROVE  GoodOut(Flush(o, src), W)
<1> DEFINE to == o.cout.to[src]
           d  == [o.cout EXCEPT ![src] = IF to = "shell" THEN @ ELSE <<>>, !.to[src] = Default[src]]
<1>1. o.cout \in CmdOut /\ o.cout.std \in Seq(Item) /\ o.cout.msg \in Seq(Item) BY DEF GoodOut, OutIs, CmdOut
<1>2. to \in Sink BY <1>1 DEF CmdOut
<1>3. /\ OutOf(Flush(o, src))
      /\ Flush(o, src).cout = d
      /\ Flush(o, src).shown = IF to = "shell" THEN o.shown ELSE o.shown \o Placed(to, o.cout[src])
  BY DEF Flush, OutOf
<1>4. Default[src] \in Sink BY DEF Default, Source, Sink
<1>5. /\ d \in CmdOut
      /\ d.std = (IF src = "std" /\ to # "shell" THEN <<>> ELSE o.cout.std)
      /\ d.msg = (IF src = "msg" /\ to # "shell" THEN <<>> ELSE o.cout.msg)
  <2>1. <<>> \in Seq(Item) BY EmptySeq
  <2> DEFINE x == o.cout.to
  <2>2. [x EXCEPT ![src] = Default[src]] \in [Source -> Sink] BY <1>1, <1>4 DEF CmdOut
  <2>3. CASE src = "std" BY <1>1, <2>1, <2>2, <2>3 DEF CmdOut
  <2>4. CASE src = "msg" BY <1>1, <2>1, <2>2, <2>4 DEF CmdOut
  <2> QED BY <2>3, <2>4 DEF Source
<1> HIDE DEF d, to
<1>6. OutIs(o.cout, o.shown, W) BY DEF GoodOut
<1>7. CASE to = "shell"
  <2>1. OutIs(d, o.shown, W) BY <1>5, <1>6, <1>7 DEF OutIs
  <2> QED BY <1>3, <1>7, <2>1 DEF GoodOut
<1>8. CASE to # "shell"
  <2>1. OutIs(d, o.shown \o Placed(to, o.cout[src]), W) BY <1>2, <1>5, <1>6, <1>8, GoodPlaced
  <2> QED BY <1>3, <1>8, <2>1 DEF GoodOut
<1> QED BY <1>7, <1>8

(* A flush of both.                                                        *)
LEMMA GoodFlushBoth ==
    ASSUME NEW o, NEW W, GoodOut(o, W)
    PROVE  GoodOut(FlushBoth(o), W)
<1>1. GoodOut(Flush(o, "msg"), W) BY GoodFlush DEF Source
<1> QED BY <1>1, GoodFlush DEF FlushBoth, Source

(* ui_vi_show_session, with one file for both or not.                      *)
LEMMA GoodSession ==
    ASSUME NEW o, NEW W, GoodOut(o, W)
    PROVE  \A empty \in BOOLEAN : GoodOut(ui_vi_show_session(o, empty), W)
<1> DEFINE cls == [o EXCEPT !.screen = <<>>]
           out == IF SameFile(o) THEN FlushSameFile(cls) ELSE FlushBoth(cls)
<1>1. GoodOut(cls, W) BY DEF GoodOut, OutOf
<1> HIDE DEF cls
<1>2. GoodOut(FlushSameFile(cls), W)
  <2>1. OutOf(FlushSameFile(cls)) /\ FlushSameFile(cls).cout = Clean
        /\ FlushSameFile(cls).shown = cls.shown \o Placed("file", cls.cout.msg \o cls.cout.std)
    <3>1. PICK c, all, f, scr : cls = [cout |-> c, shown |-> all, file |-> f, screen |-> scr] BY <1>1 DEF GoodOut, OutOf
    <3> DEFINE both == c.msg \o c.std
    <3>2. FlushSameFile(cls) = [cls EXCEPT !.cout = Clean, !.shown = @ \o Placed("file", both), !.file = both]
      BY <3>1 DEF FlushSameFile
    <3> HIDE DEF both
    <3> DEFINE new == all \o Placed("file", both)
    <3>3. FlushSameFile(cls) = [cls EXCEPT !.cout = Clean, !.shown = new, !.file = both] BY <3>1, <3>2
    <3>4. cls.cout = c /\ cls.shown = all BY <3>1
    <3> HIDE DEF new
    <3>5. FlushSameFile(cls) = [cout |-> Clean, shown |-> new, file |-> both, screen |-> scr] BY <3>1, <3>3
    <3> QED BY <3>4, <3>5 DEF OutOf, new, both
  <2> QED BY <1>1, <2>1, GoodBothPlaced DEF GoodOut
<1>3. GoodOut(out, W) BY <1>1, <1>2, GoodFlushBoth
<1> HIDE DEF out
<1>4. GoodOut(FlushBoth(out), W) BY <1>3, GoodFlushBoth
<1> DEFINE page == [FlushBoth(out) EXCEPT !.screen = Append(@, Page)]
<1>5. GoodOut(page, W) BY <1>4 DEF GoodOut, OutOf
<1> DEFINE msg  == Flush(out, "msg")
           note == Flush([msg EXCEPT !.screen = <<>>], "std")
<1>6. GoodOut(note, W)
  <2>1. GoodOut(msg, W) BY <1>3, GoodFlush DEF Source
  <2> HIDE DEF msg
  <2>2. GoodOut([msg EXCEPT !.screen = <<>>], W) BY <2>1 DEF GoodOut, OutOf
  <2> QED BY <2>2, GoodFlush DEF Source
<1>7. \A empty \in BOOLEAN : ui_vi_show_session(o, empty) \in {out, page, note}
  BY DEF ui_vi_show_session, out, cls
<1> HIDE DEF page, note
<1> QED BY <1>3, <1>5, <1>6, <1>7

(* What a step that shows the output, or fails to, leaves of it.           *)
Outputs ==
    {Now, Flush(Now, "msg"), FlushBoth(Now)} \cup {ui_vi_show_session(Now, empty) : empty \in BOOLEAN}

(* So much for every way to show the output.                               *)
LEMMA GoodShow ==
    ASSUME NEW W, OutIs(cout, shown, W)
    PROVE  \A out \in Outputs : OutIs(out.cout, out.shown, W)
<1>1. GoodOut(Now, W) BY DEF GoodOut, OutOf, Now
<1>2. \A out \in Outputs : GoodOut(out, W)
  BY <1>1, GoodFlush, GoodFlushBoth, GoodSession DEF Outputs, Source
<1> QED BY <1>2 DEF GoodOut

-----------------------------------------------------------------------------
(* What can have been written when m lines were read: of the last of them, *)
(* what its commands r that ran write, and of the running one what it      *)
(* wrote for the elements before nd.                                       *)

Of(m, r, nd) ==
    {x \in CmdItem \cup NodeItem :
        /\ x[2] = m
        /\ \E a \in 1..Len(r) : x[3] = r[a] /\ (nd > 0 /\ a = Len(r) => x \in NodeItem /\ x[5] < nd)}

Earlier(m) == {x \in CmdItem \cup NodeItem : x[2] < m}

Logged(n) == {Log(k) : k \in 1..n}

Can(p, lg, m, r, nd) ==
    (IF p = "startup" THEN {} ELSE {Start}) \cup Logged(lg) \cup Earlier(m) \cup Of(m, r, nd)

Written == Can(pc, logged, Len(memory), ran, node)

(* The items, in parts: those of commands, of elements, and of the log.    *)
LEMMA ItemParts ==
    /\ \A x \in CmdItem : /\ x[1] = "out" /\ x[2] \in Nat /\ x[3] \in Nat /\ x[4] \in Source
                          /\ x = <<"out", x[2], x[3], x[4]>>
    /\ \A x \in NodeItem : /\ x[1] \in {"out", "err"} /\ x[2] \in Nat /\ x[3] \in Nat /\ x[5] \in Nat
                           /\ x = <<x[1], x[2], x[3], "msg", x[5]>>
    /\ \A x \in CmdItem \cup NodeItem : x # Start /\ \A n : x # Log(n)
    /\ \A n : Log(n) # Start
<1>1. ASSUME NEW x \in CmdItem
      PROVE  x[1] = "out" /\ x[2] \in Nat /\ x[3] \in Nat /\ x[4] \in Source /\ x = <<"out", x[2], x[3], x[4]>>
  <2>1. PICK id \in Nat, i \in Nat, src \in Source : x = <<"out", id, i, src>> BY DEF CmdItem
  <2> QED BY <2>1
<1>2. ASSUME NEW x \in NodeItem
      PROVE  x[1] \in {"out", "err"} /\ x[2] \in Nat /\ x[3] \in Nat /\ x[5] \in Nat /\ x = <<x[1], x[2], x[3], "msg", x[5]>>
  <2>1. PICK tag \in {"out", "err"}, id \in Nat, i \in Nat, n \in Nat : x = <<tag, id, i, "msg", n>> BY DEF NodeItem
  <2> QED BY <2>1
<1>3. \A x \in CmdItem \cup NodeItem : x[1] \in {"out", "err"} BY <1>1, <1>2
<1>4. Start[1] = "start" /\ \A n : Log(n)[1] = "log" BY DEF Start, Log
<1>5. \A x \in CmdItem \cup NodeItem : x # Start /\ \A n : x # Log(n) BY <1>3, <1>4
<1> QED BY <1>1, <1>2, <1>4, <1>5

(* Each line has its own log.                                              *)
LEMMA LogsDiffer ==
    ASSUME NEW m \in Nat, NEW n \in Nat, Log(m) = Log(n)
    PROVE  m = n
BY DEF Log

(* What commands write is an item.                                         *)
LEMMA OutItems ==
    ASSUME NEW id \in Nat, NEW i \in Nat
    PROVE  /\ \A src \in Source : <<"out", id, i, src>> \in CmdItem
           /\ \A tag \in {"out", "err"}, n \in Nat : <<tag, id, i, "msg", n>> \in NodeItem
BY DEF CmdItem, NodeItem

(* An item of a command is not in the log, nor of an earlier line.         *)
LEMMA NotCan ==
    ASSUME NEW x \in CmdItem \cup NodeItem, NEW p, NEW lg, NEW m \in Nat, NEW r, NEW nd,
           x[2] = m, x \notin Of(m, r, nd)
    PROVE  x \notin Can(p, lg, m, r, nd)
<1>1. x \notin Logged(lg) BY ItemParts DEF Logged
<1>2. x \notin Earlier(m) BY DEF Earlier
<1>3. x # Start BY ItemParts
<1> QED BY <1>1, <1>2, <1>3 DEF Can

(* An item of a command that has not started is fresh.                     *)
LEMMA FreshOut ==
    ASSUME NEW p, NEW lg, NEW m \in Nat, NEW r, NEW nd, NEW i \in Nat,
           \A a \in 1..Len(r) : r[a] # i, NEW src \in Source
    PROVE  <<"out", m, i, src>> \notin Can(p, lg, m, r, nd)
<1> DEFINE x == <<"out", m, i, src>>
<1>1. x \in CmdItem BY OutItems
<1>2. x[2] = m /\ x[3] = i OBVIOUS
<1> HIDE DEF x
<1>3. x \notin Of(m, r, nd) BY <1>2 DEF Of
<1> QED BY <1>1, <1>2, <1>3, NotCan DEF x

(* So is an item of the element a command on a range is at ...             *)
LEMMA FreshNode ==
    ASSUME NEW p, NEW lg, NEW m \in Nat, NEW r, NEW nd \in Nat \ {0}, NEW i \in Nat, NEW tag \in {"out", "err"},
           \A a \in 1..Len(r) : r[a] = i => a = Len(r)
    PROVE  <<tag, m, i, "msg", nd>> \notin Can(p, lg, m, r, nd)
<1> DEFINE x == <<tag, m, i, "msg", nd>>
<1>1. x \in NodeItem BY OutItems
<1>2. x[2] = m /\ x[3] = i /\ x[5] = nd OBVIOUS
<1> HIDE DEF x
<1>3. x \notin Of(m, r, nd) BY <1>2 DEF Of
<1> QED BY <1>1, <1>2, <1>3, NotCan DEF x

(* ... and an entry of the fetch history after those logged.               *)
LEMMA FreshLog ==
    ASSUME NEW p, NEW lg \in Nat, NEW m, NEW r, NEW nd, NEW n \in Nat, n > lg
    PROVE  Log(n) \notin Can(p, lg, m, r, nd)
<1>1. Log(n) \notin Logged(lg)
  <2> SUFFICES ASSUME NEW k \in 1..lg, Log(k) = Log(n) PROVE FALSE
    BY DEF Logged
  <2>1. k = n BY LogsDiffer
  <2> QED BY <2>1
<1>2. Log(n) \notin Earlier(m) /\ Log(n) \notin Of(m, r, nd) BY ItemParts DEF Earlier, Of
<1>3. Log(n) # Start BY ItemParts
<1> QED BY <1>1, <1>2, <1>3 DEF Can

(* More can have been written after a step.                                *)
LEMMA CanMore ==
    ASSUME NEW p, NEW q, q = "startup" => p = q,
           NEW lg \in Nat, NEW lh \in Nat, lg <= lh, NEW m, NEW r, NEW s, NEW nd, NEW ne,
           Of(m, r, nd) \subseteq Of(m, s, ne)
    PROVE  Can(p, lg, m, r, nd) \subseteq Can(q, lh, m, s, ne)
<1>1. Logged(lg) \subseteq Logged(lh)
  <2>1. \A k \in 1..lg : k \in 1..lh OBVIOUS
  <2> QED BY <2>1 DEF Logged
<1> QED BY <1>1 DEF Can

(* What the commands that ran can have written grows with the element ...  *)
LEMMA OfNext ==
    ASSUME NEW m, NEW r, NEW nd \in Nat
    PROVE  (nd > 0 => Of(m, r, nd) \subseteq Of(m, r, nd + 1)) /\ Of(m, r, nd) \subseteq Of(m, r, 0)
<1>1. nd + 1 > 0 /\ ~(0 > 0) OBVIOUS
<1>2. ASSUME NEW x \in Of(m, r, nd) PROVE x \in Of(m, r, 0) BY <1>1 DEF Of
<1>3. ASSUME NEW x \in Of(m, r, nd), nd > 0 PROVE x \in Of(m, r, nd + 1)
  <2>1. x \in CmdItem \cup NodeItem /\ x[2] = m BY DEF Of
  <2>2. PICK a \in 1..Len(r) : x[3] = r[a] /\ (nd > 0 /\ a = Len(r) => x \in NodeItem /\ x[5] < nd) BY DEF Of
  <2>3. x \in NodeItem => x[5] \in Nat BY ItemParts
  <2>4. a = Len(r) => x \in NodeItem /\ x[5] < nd + 1 BY <1>3, <2>2, <2>3
  <2> QED BY <2>1, <2>2, <2>4 DEF Of
<1> QED BY <1>2, <1>3

(* ... and with the command that starts.                                   *)
LEMMA OfStarted ==
    ASSUME NEW m, NEW r \in Seq(Nat), NEW i \in Nat
    PROVE  Of(m, r, 0) \subseteq Of(m, Append(r, i), 0) /\ Of(m, r, 0) \subseteq Of(m, Append(r, i), 1)
<1>1. PICK l \in Nat : l = Len(r) BY LenProperties
<1>2. Len(Append(r, i)) = l + 1 /\ \A a \in 1..l : Append(r, i)[a] = r[a] BY <1>1
<1>3. \A a \in 1..l : a \in 1..(l + 1) /\ a # l + 1 OBVIOUS
<1> DEFINE t == Append(r, i)
<1> HIDE DEF t
<1>4. ASSUME NEW x \in Of(m, r, 0), NEW nd PROVE x \in Of(m, t, nd)
  <2>1. x \in CmdItem \cup NodeItem /\ x[2] = m BY DEF Of
  <2>2. PICK a \in 1..l : x[3] = r[a] BY <1>1 DEF Of
  <2>3. a \in 1..Len(t) /\ t[a] = x[3] /\ a # Len(t) BY <1>2, <1>3, <2>2 DEF t
  <2> QED BY <2>1, <2>3 DEF Of
<1> QED BY <1>4 DEF t

(* What a line can have written is earlier than the next line.             *)
LEMMA CanNewLine ==
    ASSUME NEW p, NEW q, q # "startup", NEW lg, NEW m \in Nat, NEW r, NEW nd
    PROVE  Can(p, lg, m, r, nd) \subseteq Can(q, lg, m + 1, <<>>, 0)
<1>1. Earlier(m) \subseteq Earlier(m + 1) BY ItemParts DEF Earlier
<1>2. Of(m, r, nd) \subseteq Earlier(m + 1)
  <2>1. m < m + 1 OBVIOUS
  <2> QED BY <2>1 DEF Of, Earlier
<1> QED BY <1>1, <1>2 DEF Can

(* What the running command writes is of a command that ran.               *)
LEMMA OfOut ==
    ASSUME NEW m \in Nat, NEW r \in Seq(Nat), NEW i \in Nat, NEW src \in Source
    PROVE  <<"out", m, i, src>> \in Of(m, Append(r, i), 0)
<1>1. PICK l \in Nat : l = Len(r) BY LenProperties
<1>2. Len(Append(r, i)) = l + 1 /\ Append(r, i)[l + 1] = i /\ l + 1 \in 1..(l + 1) BY <1>1
<1> DEFINE x == <<"out", m, i, src>>
           t == Append(r, i)
<1>3. x \in CmdItem BY OutItems
<1>4. x[2] = m /\ x[3] = i OBVIOUS
<1> HIDE DEF x, t
<1>5. x \in Of(m, t, 0) BY <1>2, <1>3, <1>4 DEF Of, t
<1> QED BY <1>5 DEF x, t

(* An item of an element is among those up to it.                          *)
LEMMA OfNode ==
    ASSUME NEW m \in Nat, NEW r, NEW i \in Nat, NEW nd \in Nat, NEW tag \in {"out", "err"},
           Len(r) \in Nat \ {0}, r[Len(r)] = i
    PROVE  <<tag, m, i, "msg", nd>> \in Of(m, r, nd + 1) \cap Of(m, r, 0)
<1> DEFINE x == <<tag, m, i, "msg", nd>>
<1>1. x \in NodeItem BY OutItems
<1>2. x[2] = m /\ x[3] = i /\ x[5] < nd + 1 OBVIOUS
<1>3. Len(r) \in 1..Len(r) OBVIOUS
<1> HIDE DEF x
<1>4. x \in Of(m, r, nd + 1) /\ x \in Of(m, r, 0) BY <1>1, <1>2, <1>3 DEF Of
<1> QED BY <1>4 DEF x

(* Both buffers grow by items that were not written before.                *)
LEMMA GoodAdded ==
    ASSUME NEW c, NEW all, NEW W, OutIs(c, all, W), NEW V, W \subseteq V,
           NEW s \in Seq(Item), NEW t \in Seq(Item), Distinct(s), Distinct(t), Apart(s, t), Within(s, V), Within(t, V),
           \A i \in 1..Len(s) : s[i] \notin W, \A i \in 1..Len(t) : t[i] \notin W,
           NEW sinks \in Sinks
    PROVE  OutIs([std |-> c.std \o s, msg |-> c.msg \o t, to |-> sinks], all, V)
<1>1. c.std \in Seq(Item) /\ c.msg \in Seq(Item) /\ all \in Seq(Shown) BY DEF OutIs, CmdOut
<1>2. Seconds(all) \in Seq(Item) BY <1>1, SecondsThen DEF Sink
<1>3. Once(Seconds(all), c.std \o s, c.msg \o t)
  <2>1. Once(Seconds(all), c.std, c.msg) /\ Within(Seconds(all), W) /\ Within(c.std, W) /\ Within(c.msg, W) BY DEF OutIs
  <2> QED BY <1>1, <1>2, <2>1, OnceAdded
<1>4. Within(Seconds(all), V) /\ Within(c.std, V) /\ Within(c.msg, V) BY DEF OutIs, Within
<1>5. Within(c.std \o s, V) /\ Within(c.msg \o t, V) BY <1>1, <1>4, WithinThen
<1>6. c.std \o s \in Seq(Item) /\ c.msg \o t \in Seq(Item) BY <1>1, ConcatProperties
<1> DEFINE d == [std |-> c.std \o s, msg |-> c.msg \o t, to |-> sinks]
<1>7. d.std = c.std \o s /\ d.msg = c.msg \o t OBVIOUS
<1>8. d \in CmdOut BY <1>6 DEF CmdOut, Sinks
<1> HIDE DEF d
<1>9. OutIs(d, all, V) BY <1>1, <1>3, <1>4, <1>5, <1>7, <1>8 DEF OutIs
<1> QED BY <1>9 DEF d

(* The entries of the fetch history that are logged.                       *)
LogsOf(from, to) == [n \in 1..(to - from) |-> Log(from + n)]

(* No entry of the fetch history is logged twice, nor one from before.     *)
LEMMA LogsGood ==
    ASSUME NEW from \in Nat, NEW to \in Nat, from <= to
    PROVE  /\ LogsOf(from, to) \in Seq(Item) /\ Distinct(LogsOf(from, to))
           /\ \A i \in 1..Len(LogsOf(from, to)) : \E n \in 1..to : n > from /\ LogsOf(from, to)[i] = Log(n)
<1> DEFINE s == LogsOf(from, to)
<1>1. PICK l \in Nat : l = to - from OBVIOUS
<1>2. s = [n \in 1..l |-> Log(from + n)] BY <1>1 DEF LogsOf
<1>3. \A n \in 1..l : from + n \in 1..to /\ from + n > from /\ from + n \in Nat BY <1>1
<1>4. \A n \in 1..l : Log(from + n) \in Item
  <2>1. \A n \in Nat : Log(n) \in {Log(k) : k \in Nat} OBVIOUS
  <2> QED BY <1>3, <2>1 DEF Item
<1>5. s \in [1..l -> Item] BY <1>2, <1>4
<1>7. \A n \in 1..l : s[n] = Log(from + n) BY <1>2
<1> HIDE DEF s
<1>6. s \in Seq(Item) /\ Len(s) = l BY <1>1, <1>5
<1>8. Distinct(s)
  <2> SUFFICES ASSUME NEW a \in 1..l, NEW b \in 1..l, s[a] = s[b] PROVE a = b
    BY <1>6 DEF Distinct
  <2>1. from + a = from + b BY <1>3, <1>7, LogsDiffer
  <2> QED BY <1>1, <2>1
<1>9. \A i \in 1..Len(s) : \E n \in 1..to : n > from /\ s[i] = Log(n) BY <1>3, <1>6, <1>7
<1> QED BY <1>6, <1>8, <1>9 DEF s

(* What a command that succeeds leaves in the buffers: what it wrote, and  *)
(* what is logged after it.                                                *)
LEMMA GoodSucceed ==
    ASSUME NEW c, NEW all, NEW p, NEW from \in Nat, NEW to \in Nat, from <= to, NEW m, NEW r, NEW nd,
           OutIs(c, all, Can(p, from, m, r, nd)), NEW V, Can(p, from, m, r, nd) \subseteq V,
           NEW std, NEW msg, std \in Seq(CmdItem \cup NodeItem), msg \in Seq(CmdItem \cup NodeItem),
           Distinct(std), Distinct(msg), Apart(std, msg), Within(std, V), Within(msg, V),
           \A i \in 1..Len(std) : std[i] \notin Can(p, from, m, r, nd),
           \A i \in 1..Len(msg) : msg[i] \notin Can(p, from, m, r, nd),
           NEW logs, logs = <<>> \/ (logs = LogsOf(from, to) /\ Logged(to) \subseteq V),
           NEW sinks \in Sinks
    PROVE  OutIs([std |-> c.std \o std \o logs, msg |-> c.msg \o msg, to |-> sinks], all, V)
<1> DEFINE W == Can(p, from, m, r, nd)
<1> HIDE DEF W
<1>1. std \in Seq(Item) /\ msg \in Seq(Item)
  <2>1. CmdItem \cup NodeItem \subseteq Item BY DEF Item
  <2> QED BY <2>1, SeqMonotonic
<1>2. /\ logs \in Seq(Item) /\ Distinct(logs)
      /\ \A i \in 1..Len(logs) : \E n \in 1..to : n > from /\ logs[i] = Log(n) /\ Log(n) \in V
  <2>1. CASE logs = <<>> BY <2>1, OfNone, EmptySeq
  <2>2. CASE logs = LogsOf(from, to) /\ Logged(to) \subseteq V
    <3>1. \A n \in 1..to : Log(n) \in V BY <2>2 DEF Logged
    <3> QED BY <2>2, <3>1, LogsGood
  <2> QED BY <2>1, <2>2
<1>3. Within(logs, V) BY <1>2 DEF Within
<1>4. \A i \in 1..Len(logs) : logs[i] \notin W
  <2>1. \A n \in 1..to : n > from => Log(n) \notin W BY FreshLog DEF W
  <2> QED BY <1>2, <2>1
<1>5. \A s : s \in Seq(CmdItem \cup NodeItem) => Apart(s, logs)
  <2> SUFFICES ASSUME NEW s, s \in Seq(CmdItem \cup NodeItem), NEW a \in 1..Len(s), NEW b \in 1..Len(logs) PROVE s[a] # logs[b]
    BY DEF Apart
  <2>1. s[a] \in CmdItem \cup NodeItem BY ElementOfSeq
  <2> QED BY <1>2, <2>1, ItemParts
<1> DEFINE s == std \o logs
<1>6. s \in Seq(Item) /\ Distinct(s) /\ Within(s, V)
  <2>1. Apart(std, logs) BY <1>5
  <2> QED BY <1>1, <1>2, <1>3, <2>1, ConcatProperties, DistinctThen, WithinThen
<1>7. Apart(s, msg)
  <2>1. Apart(logs, msg) BY <1>5, ApartSwapped
  <2> QED BY <1>1, <1>2, <2>1, ApartThen
<1>8. \A i \in 1..Len(s) : s[i] \notin W
  <2> SUFFICES ASSUME NEW i \in 1..Len(s) PROVE s[i] \notin W
    OBVIOUS
  <2>1. \/ i \in 1..Len(std) /\ s[i] = std[i]
        \/ i - Len(std) \in 1..Len(logs) /\ s[i] = logs[i - Len(std)]
    BY <1>1, <1>2, OfBoth
  <2>2. \A k \in 1..Len(std) : std[k] \notin W BY DEF W
  <2> HIDE DEF s
  <2> QED BY <1>4, <2>1, <2>2
<1>9. c.std \o std \o logs = c.std \o s
  <2>1. c.std \in Seq(Item) BY DEF OutIs, CmdOut
  <2>2. \A x, y, z \in Seq(Item) : (x \o y) \o z = x \o (y \o z) BY ConcatAssociative
  <2> QED BY <1>1, <1>2, <2>1, <2>2
<1> HIDE DEF s
<1>10. OutIs(c, all, W) /\ W \subseteq V /\ \A i \in 1..Len(msg) : msg[i] \notin W BY DEF W
<1>11. OutIs([std |-> c.std \o s, msg |-> c.msg \o msg, to |-> sinks], all, V)
  BY <1>1, <1>6, <1>7, <1>8, <1>10, GoodAdded
<1> QED BY <1>9, <1>11

-----------------------------------------------------------------------------
(* The invariant.  The states of memory when the line with number id is in *)
(* use: it is held while there is something left of the line.              *)
States == {"held", "empty", "freed"}

Kept(mem, id) ==
    \A i \in 1..Len(mem) : mem[i] # "twice" /\ (mem[i] = "held" => i = id) /\ (i = id => mem[i] # "freed")

(* The line is the one that was read last, and its commands are those of   *)
(* the script.                                                             *)
LineIs(ul, mem, scr) ==
    /\ Good(Token, ul) /\ Numbered(ul.text, Len(scr))
    /\ ul.id \in {0, Len(mem)} /\ (ul.id = 0 => ul = NoLine)
    /\ mem \in Seq(States) /\ Kept(mem, ul.id)

Running == pc \in {"consume", "consume first"}

(* There is a line while commands run, and a line that is used up has no   *)
(* memory when another is read.                                            *)
Held ==
    /\ LineIs(line, memory, script)
    /\ pc \in {"startup", "option"} => line.id = 0
    /\ Running => line.id # 0
    /\ pc \in {"show", "read"} /\ Exhausted(line) /\ line.id # 0 => memory[line.id] # "held"

(* The commands that ran are of the script, and in its order, and those    *)
(* that are left on the line come after them.                              *)
After(ul, r) ==
    \A k \in ul.ix..Len(ul.text) : IsCmd(ul.text[k]) => \A a \in 1..Len(r) : r[a] < ul.text[k][3]

Increasing(r) == \A a, b \in 1..Len(r) : a < b => r[a] < r[b]

Runs(r, n) == r \in Seq(Nat) /\ (\A a \in 1..Len(r) : r[a] \in 1..n) /\ Increasing(r)

Ahead == Runs(ran, Len(script)) /\ After(line, ran) /\ (node > 0 => ran # <<>>)

(* After an error nothing of the line is run.                              *)
Stopped ==
    /\ failed # 0 => Last(ran) = failed
    /\ failed # 0 => pc \in {"error", "exit", "done"} \/ (pc \in {"show", "read"} /\ line = NoLine)

Output == OutIs(cout, shown, Written)

Scalars ==
    /\ pc \in {"startup", "option", "show", "read", "consume", "consume first", "error", "exit", "done"}
    /\ fetched \in Nat /\ logged \in 0..fetched
    /\ node \in 0..Nodes /\ (node > 0 => Running)
    /\ script \in Scripts \cup {<<>>}
    /\ done \subseteq DOMAIN script
    /\ mode \in Mode /\ quit \in BOOLEAN /\ unlucky \in BOOLEAN

IInv == Scalars /\ Held /\ Ahead /\ Stopped /\ Output

-----------------------------------------------------------------------------
(* The line.                                                               *)

(* What is written over the line is a token.                               *)
LEMMA EndsInToken == Ended(Token)
BY Characters DEF Ended, Ends

(* The script that is run is a sequence of commands.                       *)
LEMMA ScriptOfTypeOK ==
    ASSUME MainLoopAssumption, script \in Scripts \cup {<<>>}
    PROVE  script \in Seq(Seg) /\ Len(script) \in Nat /\ DOMAIN script = 1..Len(script)
<1>1. script \in Seq(Seg) BY EmptySeq DEF MainLoopAssumption
<1> QED BY <1>1, LenProperties

(* What is left of a numbered line is numbered.                            *)
LEMMA LeftNumbered ==
    ASSUME NEW a, Good(Token, a), NEW n, Numbered(a.text, n), NEW b, Left(Token, a, b)
    PROVE  /\ Numbered(b.text, n)
           /\ \A k \in 1..Len(b.text) : IsCmd(b.text[k]) => b.text[k] = a.text[k]
<1>1. Len(b.text) = Len(a.text) /\ b.text \in Seq(Token) BY GoodLine DEF Left
<1>2. \A c \in Ends : ~IsCmd(c) BY Characters DEF Ends
<1>3. \A k \in 1..Len(b.text) : IsCmd(b.text[k]) => b.text[k] = a.text[k] BY <1>1, <1>2 DEF Left
<1>4. Numbered(b.text, n) BY <1>1, <1>3 DEF Numbered
<1> QED BY <1>3, <1>4

(* The commands in what is left of a line come after those that ran.       *)
LEMMA LeftAfter ==
    ASSUME NEW a, Good(Token, a), NEW n, Numbered(a.text, n), NEW b, Left(Token, a, b), NEW r, After(a, r)
    PROVE  After(b, r)
<1>1. PICK i \in Nat, j \in Nat, l \in Nat : i = a.ix /\ j = b.ix /\ l = Len(a.text) /\ l = Len(b.text) /\ i <= j
  <2>1. Good(Token, b) BY DEF Left
  <2> QED BY <2>1, GoodLine DEF Left
<1>2. b.ix \in 1..(Len(b.text) + 1) BY DEF Left, Good
<1> SUFFICES ASSUME NEW k \in j..l, IsCmd(b.text[k]), NEW x \in 1..Len(r) PROVE r[x] < b.text[k][3]
  BY <1>1 DEF After
<1>3. k \in 1..l /\ k \in i..l BY <1>1, <1>2
<1>5. \A e \in 1..Len(b.text) : IsCmd(b.text[e]) => b.text[e] = a.text[e] BY LeftNumbered
<1>4. b.text[k] = a.text[k] BY <1>1, <1>3, <1>5
<1> QED BY <1>1, <1>3, <1>4 DEF After

(* Writing back what is left of the line makes it the line.                *)
LEMMA LeftWrittenBack ==
    ASSUME NEW ul, Good(Token, line), Left(Token, line, ul)
    PROVE  [line EXCEPT !.text = ul.text, !.ix = ul.ix] = ul
<1>1. line \in Lines(Token) /\ ul \in Lines(Token) /\ ul.id = line.id BY GoodLine DEF Left
<1> QED BY <1>1 DEF Lines

(* Between two lines there is no text, and no command in it.               *)
LEMMA NoLineGood ==
    /\ Good(Token, NoLine) /\ Exhausted(NoLine) /\ NoLine.id = 0
    /\ \A n : Numbered(NoLine.text, n)
    /\ \A r : After(NoLine, r)
<1>1. NoLine.text = <<>> /\ NoLine.ix = 1 /\ NoLine.id = 0 BY DEF NoLine
<1>2. NoLine \in Lines(Token) BY EmptySeq DEF NoLine, Lines
<1>3. Len(<<>>) = 0 /\ <<>> \in Seq(Token) BY EmptySeq
<1> QED BY <1>1, <1>2, <1>3 DEF Good, Numbered, After, Exhausted

(* Where the next command is, and what is left after its name.             *)
LEMMA NextCommand ==
    ASSUME Good(Token, line)
    PROVE  /\ Left(Token, line, Begin) /\ Good(Token, Begin)
           /\ Left(Token, line, Name) /\ Good(Token, Name)
           /\ Left(Token, Name, Params) /\ Left(Token, line, Params) /\ Good(Token, Params)
<1> DEFINE s == skip_space(line)
<1>1. Left(Token, line, s) /\ Good(Token, s) BY LeftSkipSpace DEF Left
<1>2. Begin \in {s, Skip(s, 1)} BY DEF Begin
<1> HIDE DEF s
<1>3. Left(Token, s, Skip(s, 1)) BY <1>1, LeftSkip
<1>4. Left(Token, line, Skip(s, 1)) BY <1>1, <1>3, LeftOf
<1>5. Left(Token, line, Begin) /\ Good(Token, Begin) BY <1>1, <1>2, <1>4 DEF Left
<1>6. Left(Token, Begin, Name) /\ Good(Token, Name) BY <1>5, LeftSkipSpace DEF Name, Left
<1>7. Left(Token, line, Name) BY <1>5, <1>6, LeftOf
<1>8. Left(Token, Name, Params) /\ Good(Token, Params) BY <1>6, LeftSkip DEF Params, Left
<1>9. Left(Token, line, Params) BY <1>7, <1>8, LeftOf
<1> QED BY <1>5, <1>6, <1>7, <1>8, <1>9

(* The command that is started is one of the script, after those that ran, *)
(* and those that are left come after it.                                  *)
LEMMA Started ==
    ASSUME NEW n \in Nat, Good(Token, line), Numbered(line.text, n), Runs(ran, n), After(line, ran),
           ~Exhausted(Name), At(Name)[1] = "command"
    PROVE  /\ Index \in 1..n
           /\ \A a \in 1..Len(ran) : ran[a] < Index
           /\ Runs(Append(ran, Index), n)
           /\ After(Params, Append(ran, Index))
           /\ Last(Append(ran, Index)) = Index /\ Append(ran, Index) # <<>>
<1>1. Left(Token, line, Name) /\ Good(Token, Name) /\ Left(Token, Name, Params) /\ Good(Token, Params) BY NextCommand
<1>2. Numbered(Name.text, n) /\ After(Name, ran) BY <1>1, LeftNumbered, LeftAfter
<1>3. PICK i \in Nat, l \in Nat : i = Name.ix /\ l = Len(Name.text) /\ i \in 1..l BY <1>1, GoodLine
<1>4. IsCmd(Name.text[i]) /\ Index = Name.text[i][3] BY <1>3 DEF IsCmd, At, Index
<1>5. Index \in 1..n BY <1>2, <1>3, <1>4 DEF Numbered
<1>6. \A a \in 1..Len(ran) : ran[a] < Index
  <2>1. i \in i..l BY <1>3
  <2> QED BY <1>2, <1>3, <1>4, <2>1 DEF After
<1> DEFINE x == Index
           t == Append(ran, x)
<1>7. PICK m \in Nat : m = Len(ran) /\ ran \in Seq(Nat) BY LenProperties DEF Runs
<1>8. \A a \in 1..m : ran[a] \in Nat /\ ran[a] \in 1..n /\ ran[a] < x BY <1>6, <1>7, ElementOfSeq DEF Runs
<1>9. x \in 1..n /\ x \in Nat BY <1>5
<1> HIDE DEF x
<1>10. t \in Seq(Nat) /\ Len(t) = m + 1 /\ t[m + 1] = x /\ \A a \in 1..m : t[a] = ran[a] BY <1>7, <1>9
<1> HIDE DEF t
<1>11. \A a \in 1..(m + 1) : a \in 1..m \/ a = m + 1 OBVIOUS
<1>12. ASSUME NEW a \in 1..Len(t) PROVE t[a] \in 1..n /\ t[a] <= x
  <2>1. CASE a \in 1..m
    <3>1. ran[a] \in Nat /\ ran[a] \in 1..n /\ ran[a] < x BY <1>8, <2>1
    <3>2. ran[a] <= x BY <1>9, <3>1
    <3> QED BY <1>10, <2>1, <3>1, <3>2
  <2>2. CASE a = m + 1 BY <1>9, <1>10, <2>2
  <2> QED BY <1>10, <1>11, <2>1, <2>2
<1>13. Increasing(t)
  <2> SUFFICES ASSUME NEW a \in 1..(m + 1), NEW b \in 1..(m + 1), a < b PROVE t[a] < t[b]
    BY <1>10 DEF Increasing
  <2>1. a \in 1..m OBVIOUS
  <2>2. CASE b \in 1..m BY <1>7, <1>10, <2>1, <2>2 DEF Runs, Increasing
  <2>3. CASE b = m + 1 BY <1>8, <1>10, <2>1, <2>3
  <2> QED BY <1>11, <2>2, <2>3
<1>14. After(Params, t)
  <2>1. Numbered(Params.text, n) /\ \A k \in 1..Len(Params.text) : IsCmd(Params.text[k]) => Params.text[k] = Name.text[k]
    <3>1. Good(Token, Name) /\ Left(Token, Name, Params) /\ Numbered(Name.text, n) BY <1>1, <1>2
    <3> QED BY <3>1, LeftNumbered, ZenonT(40)
  <2>2. Params.ix = i + 1 /\ Len(Params.text) = l
    <3>1. Params.text = Name.text BY <1>1, GoodLine DEF Params, Skip, Lines
    <3>2. Params.ix = Min({i + 1, l + 1}) BY <1>1, <1>3, GoodLine DEF Params, Skip, Lines
    <3>3. Min({i + 1, l + 1}) = i + 1
      <4>1. PICK y \in Nat, z \in Nat : y = i + 1 /\ z = l + 1 /\ y <= z /\ y # 0 BY <1>3
      <4>2. {y, z} \in SUBSET (1..z) BY <4>1
      <4>3. Min({y, z}) \in {y, z} /\ Min({y, z}) <= y BY <4>1, <4>2, MinIn
      <4> QED BY <4>1, <4>3
    <3> QED BY <1>3, <3>1, <3>2, <3>3
  <2> SUFFICES ASSUME NEW k \in (i + 1)..l, IsCmd(Params.text[k]), NEW a \in 1..Len(t) PROVE t[a] < Params.text[k][3]
    BY <2>2 DEF After
  <2>3. k \in 1..l /\ i < k BY <1>3
  <2>4. Params.text[k] = Name.text[k] BY <2>1, <2>2, <2>3
  <2>5. x < Name.text[k][3] BY <1>2, <1>3, <1>4, <2>3, <2>4 DEF Numbered, x
  <2>6. t[a] \in Nat /\ t[a] <= x /\ x \in Nat
    <3>1. t[a] \in 1..n /\ t[a] <= x BY <1>12
    <3> QED BY <1>9, <3>1
  <2>7. Name.text[k][3] \in Nat
    <3>1. IsCmd(Name.text[k]) /\ k \in 1..Len(Name.text) BY <1>3, <2>3, <2>4
    <3>2. Name.text[k][3] \in 1..n BY <1>2, <3>1 DEF Numbered
    <3> QED BY <3>2
  <2> QED BY <2>4, <2>5, <2>6, <2>7
<1>16. Runs(t, n) BY <1>10, <1>12, <1>13 DEF Runs
<1>15. Last(t) = x /\ t # <<>> BY <1>10 DEF Last
<1> QED BY <1>5, <1>6, <1>14, <1>15, <1>16 DEF t, x

-----------------------------------------------------------------------------
(* The memory of lines.                                                    *)

(* Freeing frees the memory of the line, and no other.                     *)
LEMMA FreedGood ==
    ASSUME NEW mem \in Seq(States), NEW id \in 0..Len(mem), id # 0 => mem[id] # "freed"
    PROVE  /\ Freed(mem, id) \in Seq(States) /\ Len(Freed(mem, id)) = Len(mem) /\ DOMAIN Freed(mem, id) = 1..Len(mem)
           /\ \A i \in 1..Len(mem) : Freed(mem, id)[i] = IF i = id THEN "freed" ELSE mem[i]
<1>1. PICK l \in Nat : l = Len(mem) /\ DOMAIN mem = 1..l BY LenProperties
<1> DEFINE f == Freed(mem, id)
<1>2. \A i \in 1..l : mem[i] \in States BY <1>1, ElementOfSeq
<1>3. f = [i \in 1..l |-> IF i = id THEN "freed" ELSE mem[i]] BY <1>1 DEF Freed
<1>4. f \in [1..l -> States] BY <1>2, <1>3 DEF States
<1>5. \A i \in 1..l : f[i] = IF i = id THEN "freed" ELSE mem[i] BY <1>3
<1> HIDE DEF f
<1>6. f \in Seq(States) /\ Len(f) = l /\ DOMAIN f = 1..l BY <1>1, <1>4
<1> QED BY <1>1, <1>5, <1>6 DEF f

(* Freeing the line that is held leaves none that is held.                 *)
LEMMA FreedKept ==
    ASSUME NEW mem \in Seq(States), NEW id \in 0..Len(mem), Kept(mem, id)
    PROVE  /\ Freed(mem, id) \in Seq(States) /\ Len(Freed(mem, id)) = Len(mem) /\ Kept(Freed(mem, id), 0)
<1>1. PICK l \in Nat : l = Len(mem) BY LenProperties
<1>2. id # 0 => mem[id] # "freed" BY <1>1 DEF Kept
<1> DEFINE f == Freed(mem, id)
<1>3. f \in Seq(States) /\ Len(f) = l /\ \A i \in 1..l : f[i] = IF i = id THEN "freed" ELSE mem[i]
  BY <1>1, <1>2, FreedGood
<1> HIDE DEF f
<1>4. Kept(f, 0) BY <1>1, <1>3 DEF Kept
<1> QED BY <1>1, <1>3, <1>4 DEF f

(* Part of NothingTwice is part of the invariant.                          *)
LEMMA LinesFreedKept ==
    ASSUME memory \in Seq(States)
    PROVE  LinesFreed <=> Kept(memory, line.id)
<1>1. DOMAIN memory = 1..Len(memory) BY LenProperties
<1> QED BY <1>1 DEF LinesFreed, Kept

(* session_consume_line: what is left of the line, or none and its memory  *)
(* freed.                                                                  *)
LEMMA ConsumeKeeps ==
    ASSUME LineIs(line, memory, script), line.id # 0, NEW ul, Left(Token, line, ul), Consume(ul)
    PROVE  /\ LineIs(line', memory', script) /\ Len(memory') = Len(memory)
           /\ \A r : After(ul, r) => After(line', r)
           /\ Exhausted(line') => line' = NoLine
<1>1. Good(Token, line) /\ Good(Token, ul) /\ ul.id = line.id BY DEF LineIs, Left
<1>2. [line EXCEPT !.text = ul.text, !.ix = ul.ix] = ul BY <1>1, LeftWrittenBack
<1>3. IF Exhausted(ul) THEN line' = NoLine /\ memory' = Freed(memory, line.id) ELSE line' = ul /\ memory' = memory
  BY <1>2 DEF Consume
<1>4. CASE Exhausted(ul)
  <2>1. memory \in Seq(States) /\ line.id \in 0..Len(memory) /\ Kept(memory, line.id)
    <3>1. Len(memory) \in Nat BY LenProperties DEF LineIs
    <3> QED BY <3>1 DEF LineIs
  <2>2. Freed(memory, line.id) \in Seq(States) /\ Len(Freed(memory, line.id)) = Len(memory) /\ Kept(Freed(memory, line.id), 0)
    BY <2>1, FreedKept
  <2>3. LineIs(NoLine, Freed(memory, line.id), script) BY <2>2, NoLineGood DEF LineIs
  <2> QED BY <1>3, <1>4, <2>2, <2>3, NoLineGood
<1>5. CASE ~Exhausted(ul)
  <2>1. Numbered(ul.text, Len(script)) BY <1>1, LeftNumbered DEF LineIs
  <2>2. LineIs(ul, memory, script) BY <1>1, <2>1 DEF LineIs
  <2> QED BY <1>3, <1>5, <2>2
<1> QED BY <1>4, <1>5

(* A new line takes the place of one that is used up.                      *)
LEMMA NewLine ==
    ASSUME MainLoopAssumption, memory \in Seq(States), Kept(memory, 0), NEW scr \in Scripts \cup {<<>>}, TakeOwnership(scr)
    PROVE  /\ LineIs(line', memory', script') /\ Len(memory') = Len(memory) + 1
           /\ line'.id = Len(memory) + 1 /\ line'.ix = 1
           /\ scr = <<>> => memory'[line'.id] = "empty"
           /\ scr # <<>> => line'.id # 0
           /\ After(line', <<>>) /\ script' = scr
<1>1. scr \in Seq(Seg) BY EmptySeq DEF MainLoopAssumption
<1>2. Numbered(Text(scr), Len(scr)) BY <1>1, TextNumbered
<1>3. PICK l \in Nat : l = Len(memory) BY LenProperties
<1> DEFINE x == IF scr = <<>> THEN "empty" ELSE "held"
           mem == Append(memory, x)
           ul == [text |-> Text(scr), ix |-> 1, id |-> l + 1]
<1>4. memory' = mem /\ line' = ul /\ script' = scr BY <1>3 DEF TakeOwnership
<1>5. x \in States /\ (scr = <<>> => x = "empty") /\ x # "freed" BY DEF States
<1> HIDE DEF x
<1>6. mem \in Seq(States) /\ Len(mem) = l + 1 /\ mem[l + 1] = x /\ \A i \in 1..l : mem[i] = memory[i] BY <1>3, <1>5
<1> HIDE DEF mem
<1>7. Kept(mem, l + 1)
  <2> SUFFICES ASSUME NEW i \in 1..(l + 1)
               PROVE  mem[i] # "twice" /\ (mem[i] = "held" => i = l + 1) /\ (i = l + 1 => mem[i] # "freed")
    BY <1>6 DEF Kept
  <2>1. CASE i \in 1..l BY <1>3, <1>6, <2>1 DEF Kept
  <2>2. CASE i = l + 1 BY <1>5, <1>6, <2>2 DEF States
  <2> QED BY <2>1, <2>2
<1>8. ul.text = Text(scr) /\ ul.ix = 1 /\ ul.id = l + 1 OBVIOUS
<1>9. Good(Token, ul)
  <2>1. Text(scr) \in Seq(Token) BY <1>2 DEF Numbered
  <2>2. Len(Text(scr)) \in Nat BY <2>1, LenProperties
  <2>3. 1 \in 1..(Len(Text(scr)) + 1) BY <2>2
  <2> QED BY <2>1, <2>3 DEF Good, Lines
<1> HIDE DEF ul
<1>10. l + 1 # 0 OBVIOUS
<1>11. LineIs(ul, mem, scr) BY <1>2, <1>6, <1>7, <1>8, <1>9, <1>10 DEF LineIs
<1>12. After(ul, <<>>) BY EmptySeq DEF After
<1> QED BY <1>3, <1>4, <1>5, <1>6, <1>8, <1>10, <1>11, <1>12

-----------------------------------------------------------------------------
(* The steps.  What every command leaves alone, or changes within bounds.  *)

Bounds(r) ==
    /\ script' = script /\ shown' = shown
    /\ fetched' \in Nat /\ fetched <= fetched'
    /\ ran' = r /\ Runs(r, Len(script))
    /\ done' \subseteq DOMAIN script
    /\ mode' \in Mode /\ quit' \in BOOLEAN /\ unlucky' \in BOOLEAN

(* What a command writes is not in W, and is of a command that ran.        *)
Writes(items, W, U) ==
    /\ items \in Seq(CmdItem \cup NodeItem) /\ Distinct(items)
    /\ Within(items, U) /\ \A i \in 1..Len(items) : items[i] \notin W

(* What a command writes: nothing, or one fresh item.                      *)
LEMMA WritesNothing ==
    ASSUME NEW W, NEW U
    PROVE  Writes(<<>>, W, U)
BY OfNone, EmptySeq DEF Writes

(* One item that was not written before.                                   *)
LEMMA WritesOne ==
    ASSUME NEW x \in CmdItem \cup NodeItem, NEW W, NEW U, x \in U, x \notin W
    PROVE  Writes(<<x>>, W, U)
<1>1. <<x>> \in Seq(CmdItem \cup NodeItem) /\ Len(<<x>>) = 1 /\ <<x>>[1] = x OBVIOUS
<1>2. \A i \in 1..1 : i = 1 OBVIOUS
<1> QED BY <1>1, <1>2 DEF Writes, Distinct, Within

(* A command that ends well, whatever it wrote that is fresh.              *)
LEMMA SucceedKeeps ==
    ASSUME MainLoopAssumption, IInv, Running, failed' = failed,
           NEW ul, Left(Token, line, ul), NEW std, NEW msg, NEW sinks \in Sinks, Succeed(ul, std, msg, sinks),
           NEW r, Bounds(r), After(ul, r), Of(Len(memory), ran, node) \subseteq Of(Len(memory), r, 0),
           Writes(std, Written, Of(Len(memory), r, 0)), Writes(msg, Written, Of(Len(memory), r, 0)), Apart(std, msg)
    PROVE  IInv'
<1>1. /\ Consume(ul) /\ node' = 0 /\ pc' \in {"exit", "show"}
      /\ cout' = [std |-> cout.std \o std \o Logs, msg |-> cout.msg \o msg, to |-> sinks]
      /\ logged' = IF mode = "line" THEN fetched' ELSE logged
  BY DEF Succeed
<1>2. Scalars /\ Held /\ Ahead /\ Stopped /\ Output BY DEF IInv
<1>3. /\ LineIs(line', memory', script) /\ Len(memory') = Len(memory)
      /\ After(line', r) /\ (Exhausted(line') => line' = NoLine)
  BY <1>1, <1>2, ConsumeKeeps DEF Held
<1>4. script' = script /\ shown' = shown /\ ran' = r BY DEF Bounds
<1>5. Held'
  <2>1. Exhausted(line') => line'.id = 0 BY <1>3, NoLineGood
  <2>2. LineIs(line', memory', script') BY <1>3, <1>4
  <2> QED BY <1>1, <2>1, <2>2 DEF Held, Running
<1>6. Ahead' BY <1>1, <1>3, <1>4 DEF Ahead, Bounds
<1>7. Stopped'
  <2>1. failed = 0 BY <1>2 DEF Stopped, Running
  <2> QED BY <2>1 DEF Stopped
<1>8. logged \in Nat /\ fetched' \in Nat /\ logged <= fetched' /\ logged' \in 0..fetched'
  <2>1. fetched \in Nat /\ logged \in 0..fetched /\ fetched' \in Nat /\ fetched <= fetched' BY <1>2 DEF Scalars, Bounds
  <2> QED BY <1>1, <2>1
<1>9. Scalars'
  <2>1. pc' \in {"startup", "option", "show", "read", "consume", "consume first", "error", "exit", "done"} BY <1>1
  <2>2. node' \in 0..Nodes /\ ~(node' > 0) BY <1>1 DEF MainLoopAssumption
  <2>3. script' \in Scripts \cup {<<>>} /\ done' \subseteq DOMAIN script' BY <1>2, <1>4 DEF Scalars, Bounds
  <2>4. mode' \in Mode /\ quit' \in BOOLEAN /\ unlucky' \in BOOLEAN /\ fetched' \in Nat BY DEF Bounds
  <2> QED BY <1>8, <2>1, <2>2, <2>3, <2>4 DEF Scalars
<1>10. Output'
  <2> DEFINE m == Len(memory)
             W == Can(pc, logged, m, ran, node)
             V == Can(pc', logged', m, r, 0)
             U == Of(m, r, 0)
  <2>1. OutIs(cout, shown, W) BY <1>2 DEF Output, Written
  <2>2. pc' # "startup" /\ logged' \in Nat /\ logged <= logged' BY <1>1, <1>8
  <2>3. W \subseteq V BY <1>8, <2>2, CanMore
  <2>4. U \subseteq V BY DEF Can
  <2>5. /\ std \in Seq(CmdItem \cup NodeItem) /\ Distinct(std) /\ Within(std, U) /\ \A i \in 1..Len(std) : std[i] \notin W
        /\ msg \in Seq(CmdItem \cup NodeItem) /\ Distinct(msg) /\ Within(msg, U) /\ \A i \in 1..Len(msg) : msg[i] \notin W
    BY DEF Writes, Written
  <2>6. Within(std, V) /\ Within(msg, V) BY <2>4, <2>5 DEF Within
  <2>7. Logs = <<>> \/ (Logs = LogsOf(logged, fetched') /\ Logged(fetched') \subseteq V)
    <3>1. mode # "line" => Logs = <<>> BY DEF Logs
    <3>2. mode = "line" => Logs = LogsOf(logged, fetched') /\ logged' = fetched' BY <1>1 DEF Logs, LogsOf
    <3>3. Logged(logged') \subseteq V BY DEF Can
    <3> QED BY <3>1, <3>2, <3>3
  <2>8. OutIs(cout', shown, V)
    <3> HIDE DEF V, U
    <3> DEFINE logs == Logs
    <3>1. logs = <<>> \/ (logs = LogsOf(logged, fetched') /\ Logged(fetched') \subseteq V) BY <2>7
    <3>2. cout' = [std |-> cout.std \o std \o logs, msg |-> cout.msg \o msg, to |-> sinks] BY <1>1
    <3> HIDE DEF logs
    <3>3. OutIs([std |-> cout.std \o std \o logs, msg |-> cout.msg \o msg, to |-> sinks], shown, V)
      BY <1>8, <2>1, <2>3, <2>5, <2>6, <3>1, GoodSucceed
    <3> QED BY <3>2, <3>3
  <2>9. V = Can(pc', logged', Len(memory'), ran', node') BY <1>1, <1>3, <1>4
  <2> HIDE DEF V
  <2> QED BY <1>4, <2>8, <2>9 DEF Output, Written
<1> QED BY <1>5, <1>6, <1>7, <1>9, <1>10 DEF IInv

(* A command that fails, wherever it stopped reading the line.             *)
LEMMA FailKeeps ==
    ASSUME MainLoopAssumption, IInv, Running,
           NEW ul, Left(Token, line, ul), NEW sinks \in Sinks, Fail(ul, sinks),
           NEW r, Bounds(r), After(ul, r), Of(Len(memory), ran, node) \subseteq Of(Len(memory), r, 0)
    PROVE  IInv'
<1>1. /\ Consume(ul) /\ node' = 0 /\ pc' \in {"exit", "error"}
      /\ cout' = [cout EXCEPT !.to = sinks]
      /\ failed' = (IF ran' = <<>> THEN 0 ELSE Last(ran'))
      /\ logged' = logged
  BY DEF Fail
<1>2. Scalars /\ Held /\ Ahead /\ Stopped /\ Output BY DEF IInv
<1>3. /\ LineIs(line', memory', script) /\ Len(memory') = Len(memory)
      /\ After(line', r) /\ (Exhausted(line') => line' = NoLine)
  BY <1>1, <1>2, ConsumeKeeps DEF Held
<1>4. script' = script /\ shown' = shown /\ ran' = r BY DEF Bounds
<1>5. Held'
  <2>2. LineIs(line', memory', script') BY <1>3, <1>4
  <2> QED BY <1>1, <2>2 DEF Held, Running
<1>6. Ahead' BY <1>1, <1>3, <1>4 DEF Ahead, Bounds
<1>7. Stopped' BY <1>1 DEF Stopped
<1>8. logged \in Nat /\ fetched' \in Nat /\ logged' \in 0..fetched'
  <2>1. fetched \in Nat /\ logged \in 0..fetched /\ fetched' \in Nat /\ fetched <= fetched' BY <1>2 DEF Scalars, Bounds
  <2> QED BY <1>1, <2>1
<1>9. Scalars'
  <2>1. pc' \in {"startup", "option", "show", "read", "consume", "consume first", "error", "exit", "done"} BY <1>1
  <2>2. node' \in 0..Nodes /\ ~(node' > 0) BY <1>1 DEF MainLoopAssumption
  <2>3. script' \in Scripts \cup {<<>>} /\ done' \subseteq DOMAIN script' BY <1>2, <1>4 DEF Scalars, Bounds
  <2>4. mode' \in Mode /\ quit' \in BOOLEAN /\ unlucky' \in BOOLEAN /\ fetched' \in Nat BY DEF Bounds
  <2> QED BY <1>8, <2>1, <2>2, <2>3, <2>4 DEF Scalars
<1>10. Output'
  <2> DEFINE m == Len(memory)
             W == Can(pc, logged, m, ran, node)
             V == Can(pc', logged', m, r, 0)
  <2>1. OutIs(cout, shown, W) BY <1>2 DEF Output, Written
  <2>2. W \subseteq V BY <1>1, <1>8, CanMore
  <2>3. V = Can(pc', logged', Len(memory'), ran', node') BY <1>1, <1>3, <1>4
  <2> HIDE DEF V, W
  <2>4. cout \in CmdOut BY <2>1 DEF OutIs
  <2>5. cout' \in CmdOut /\ cout'.std = cout.std /\ cout'.msg = cout.msg BY <1>1, <2>4 DEF CmdOut, Sinks
  <2>6. OutIs(cout', shown, V) BY <2>1, <2>2, <2>5 DEF OutIs, Within
  <2> QED BY <1>4, <2>3, <2>6 DEF Output, Written
<1> QED BY <1>5, <1>6, <1>7, <1>9, <1>10 DEF IInv

(* The loop goes on, and leaves the line as it is.                         *)
LEMMA PassKeeps ==
    ASSUME MainLoopAssumption, IInv, ~Running,
           line' = line, memory' = memory, ran' = ran, script' = script, done' = done, failed' = failed,
           logged' = logged, node' = node, mode' = mode, quit' = quit, unlucky' \in BOOLEAN,
           fetched' \in Nat, fetched <= fetched',
           pc' \in {"option", "show", "read", "consume", "error", "exit"},
           pc' = "option" => pc = "startup",
           pc' = "consume" => line.id # 0 /\ failed = 0,
           pc' \in {"show", "read"} => pc \in {"option", "show", "read"},
           OutIs(cout', shown', Can(pc', logged, Len(memory), ran, node))
    PROVE  IInv'
<1>1. Scalars /\ Held /\ Ahead /\ Stopped /\ Output BY DEF IInv
<1>2. Scalars'
  <2>1. fetched \in Nat /\ logged \in 0..fetched /\ node \in 0..Nodes /\ ~(node > 0) BY <1>1 DEF Scalars
  <2>2. logged \in 0..fetched' BY <2>1
  <2> QED BY <1>1, <2>1, <2>2 DEF Scalars
<1>3. Held'
  <2>1. pc \in {"startup", "option"} => line.id = 0 BY <1>1 DEF Held
  <2> QED BY <1>1, <2>1 DEF Held, Running
<1>4. Ahead' BY <1>1 DEF Ahead
<1>5. Stopped' BY <1>1 DEF Stopped
<1>6. Output' BY DEF Output, Written
<1> QED BY <1>2, <1>3, <1>4, <1>5, <1>6 DEF IInv

(* The line is dropped.                                                    *)
LEMMA DropKeeps ==
    ASSUME MainLoopAssumption, IInv, ~Running, user_line_cleanup, pc' \in {"show", "done"},
           ran' = ran, script' = script, done' = done, failed' = failed, fetched' = fetched,
           logged' = logged, node' = node, mode' = mode, quit' = quit, unlucky' = unlucky,
           OutIs(cout', shown', Can(pc', logged, Len(memory), ran, node))
    PROVE  IInv'
<1>1. Scalars /\ Held /\ Ahead /\ Stopped /\ Output BY DEF IInv
<1>2. memory \in Seq(States) /\ line.id \in 0..Len(memory) /\ Kept(memory, line.id)
  <2>1. LineIs(line, memory, script) BY <1>1 DEF Held
  <2>2. Len(memory) \in Nat BY <2>1, LenProperties DEF LineIs
  <2> QED BY <2>1, <2>2 DEF LineIs
<1>3. line' = NoLine /\ memory' \in Seq(States) /\ Len(memory') = Len(memory) /\ Kept(memory', 0)
  BY <1>2, FreedKept DEF user_line_cleanup
<1>4. LineIs(line', memory', script') BY <1>3, NoLineGood DEF LineIs
<1>5. Held' BY <1>3, <1>4, NoLineGood DEF Held, Running
<1>6. Scalars' BY <1>1 DEF Scalars
<1>7. Ahead' BY <1>1, <1>3, NoLineGood DEF Ahead
<1>8. Stopped' BY <1>1, <1>3 DEF Stopped
<1>9. Output' BY <1>3 DEF Output, Written
<1> QED BY <1>5, <1>6, <1>7, <1>8, <1>9 DEF IInv

(* A line is read, or nothing is.                                          *)
Goes(scr) ==
    /\ scr \in Scripts \cup {<<>>}
    /\ TakeOwnership(scr)
    /\ (scr = <<>> /\ pc' = "show") \/ (scr # <<>> /\ pc' \in {"consume", "consume first"})
    /\ UNCHANGED <<cout, fetched, logged, quit, node, mode>>

(* A new line takes the place of one that is exhausted.                    *)
LEMMA ReadKeeps ==
    ASSUME MainLoopAssumption, IInv, ~Running, line.id = 0 \/ (pc = "read" /\ Exhausted(line)),
           NEW scr, Goes(scr)
    PROVE  IInv'
<1>1. Scalars /\ Held /\ Ahead /\ Stopped /\ Output BY DEF IInv
<1>2. LineIs(line, memory, script) BY <1>1 DEF Held
<1>3. Kept(memory, 0)
  <2>1. PICK l \in Nat : l = Len(memory) BY <1>2, LenProperties DEF LineIs
  <2>2. line.id # 0 => memory[line.id] # "held" BY <1>1 DEF Held
  <2>3. ASSUME NEW i \in 1..l PROVE memory[i] # "twice" /\ memory[i] # "held" /\ i # 0
    <3>3. Kept(memory, line.id) BY <1>2 DEF LineIs
    <3>1. Kept(memory, line.id) /\ i # 0 BY <2>1, <2>3, <3>3
    <3>2. memory[i] # "twice" /\ (memory[i] = "held" => i = line.id) BY <2>1, <2>3, <3>1 DEF Kept
    <3> QED BY <2>2, <3>1, <3>2
  <2> QED BY <2>1, <2>3 DEF Kept
<1>4. /\ LineIs(line', memory', script') /\ Len(memory') = Len(memory) + 1
      /\ (scr = <<>> => memory'[line'.id] = "empty") /\ (scr # <<>> => line'.id # 0)
      /\ After(line', <<>>) /\ script' = scr
  BY <1>2, <1>3, NewLine DEF LineIs, Goes
<1>5. ran' = <<>> /\ done' = {} /\ unlucky' = FALSE /\ failed' = 0 /\ shown' = <<>> BY DEF TakeOwnership, Goes
<1>12. UNCHANGED <<cout, fetched, logged, quit, node, mode>> BY DEF Goes
<1>6. node = 0 /\ node' = 0 /\ pc' \in {"show", "consume", "consume first"}
  <2>3. node \in 0..Nodes /\ ~(node > 0) BY <1>1 DEF Scalars
  <2>4. Nodes \in Nat BY DEF MainLoopAssumption
  <2>1. node = 0 BY <2>3, <2>4
  <2>2. pc' \in {"show", "consume", "consume first"} BY DEF Goes
  <2> QED BY <1>12, <2>1, <2>2
<1>7. Held'
  <2>1. pc' = "show" => scr = <<>> BY DEF Goes
  <2>2. pc' \in {"consume", "consume first"} => scr # <<>> BY DEF Goes
  <2>3. pc' \notin {"startup", "option", "read"} BY <1>6
  <2>4. pc' = "show" => memory'[line'.id] # "held" BY <1>4, <2>1
  <2> QED BY <1>4, <2>2, <2>3, <2>4 DEF Held, Running
<1>8. Scalars'
  <2>1. scr \in Scripts \cup {<<>>} BY DEF Goes
  <2> QED BY <1>1, <1>4, <1>5, <1>6, <1>12, <2>1 DEF Scalars, Running
<1>9. Ahead'
  <2>2. <<>> \in Seq(Nat) /\ Len(<<>>) = 0 /\ \A a \in 1..0 : FALSE BY EmptySeq
  <2>3. \A n : Runs(<<>>, n) BY <2>2 DEF Runs, Increasing
  <2>1. Runs(<<>>, Len(script')) BY <2>3
  <2>4. Runs(ran', Len(script')) BY <1>5, <2>1
  <2>5. After(line', ran') BY <1>4, <1>5
  <2>7. ~(0 > 0) OBVIOUS
  <2>6. ~(node' > 0) BY <1>6, <2>7, Zenon
  <2> QED BY <2>4, <2>5, <2>6 DEF Ahead
<1>10. Stopped' BY <1>5 DEF Stopped
<1>11. Output'
  <2> DEFINE m == Len(memory)
             W == Can(pc, logged, m, ran, node)
             V == Can(pc', logged, m + 1, <<>>, 0)
  <2>1. OutIs(cout, shown, W) BY <1>1 DEF Output, Written
  <2>2. m \in Nat BY <1>2, LenProperties DEF LineIs
  <2>3. W \subseteq V BY <1>6, <2>2, CanNewLine
  <2>4. V = Can(pc', logged', Len(memory'), ran', node') BY <1>4, <1>5, <1>6, <1>12
  <2> HIDE DEF W, V
  <2>5. OutIs(cout, <<>>, V)
    <3>1. Len(Seconds(<<>>)) = 0 /\ <<>> \in Seq(Shown) BY EmptySeq DEF Seconds
    <3>4. \A t, U : Distinct(Seconds(<<>>)) /\ Apart(Seconds(<<>>), t) /\ Within(Seconds(<<>>), U)
      BY <3>1 DEF Distinct, Apart, Within
    <3>2. Once(Seconds(<<>>), cout.std, cout.msg) BY <2>1, <3>4 DEF OutIs, Once
    <3>3. Within(cout.std, V) /\ Within(cout.msg, V) BY <2>1, <2>3 DEF OutIs, Within
    <3> QED BY <2>1, <3>1, <3>2, <3>3, <3>4 DEF OutIs
  <2> QED BY <1>5, <1>12, <2>4, <2>5 DEF Output, Written
<1> QED BY <1>7, <1>8, <1>9, <1>10, <1>11 DEF IInv

-----------------------------------------------------------------------------
(* Each action keeps the invariant.                                        *)

(* The parameters of the program are fetched.                              *)
LEMMA FetchParamsKeeps ==
    ASSUME MainLoopAssumption, IInv, FetchParams
    PROVE  IInv'
<1>1. Scalars /\ Held /\ Output BY DEF IInv
<1>2. PICK n \in {0, 1}, ok \in BOOLEAN :
        /\ cout' = IF n = 1 THEN [cout EXCEPT !.msg = <<Start>>] ELSE cout
        /\ fetched' = fetched + n
        /\ pc' = IF ok THEN "option" ELSE "exit"
  BY DEF FetchParams
<1>3. /\ pc = "startup" /\ ~Running /\ shown' = shown
      /\ line' = line /\ memory' = memory /\ ran' = ran /\ script' = script /\ done' = done /\ failed' = failed
      /\ logged' = logged /\ node' = node /\ mode' = mode /\ quit' = quit /\ unlucky' = unlucky
  BY DEF FetchParams, Running
<1>4. fetched' \in Nat /\ fetched <= fetched' /\ logged \in Nat
  <2>1. fetched \in Nat /\ logged \in 0..fetched BY <1>1 DEF Scalars
  <2>2. fetched' = fetched + n BY <1>2
  <2> QED BY <2>1, <2>2
<1> DEFINE W == Can("startup", logged, Len(memory), ran, node)
           V == Can(pc', logged, Len(memory), ran, node)
<1>5. OutIs(cout, shown, W) BY <1>1, <1>3 DEF Output, Written
<1>6. Start \notin W BY ItemParts DEF Can, Logged, Earlier, Of
<1>7. W \subseteq V /\ Start \in V BY <1>2 DEF Can
<1> HIDE DEF W, V
<1>8. OutIs(cout, shown, V) BY <1>5, <1>7 DEF OutIs, Within
<1>9. OutIs([cout EXCEPT !.msg = <<Start>>], shown, V)
  <2> DEFINE s == <<Start>>
             d == [cout EXCEPT !.msg = s]
  <2>1. s \in Seq(Item) /\ Len(s) = 1 /\ s[1] = Start BY DEF Item
  <2>2. \A i \in 1..1 : i = 1 OBVIOUS
  <2> HIDE DEF s
  <2>3. Distinct(s) /\ Within(s, V) BY <1>7, <2>1, <2>2 DEF Distinct, Within
  <2>4. \A t : Within(t, W) => Apart(t, s) BY <1>6, <2>1, <2>2 DEF Within, Apart
  <2>5. d \in CmdOut /\ d.std = cout.std /\ d.msg = s BY <1>5, <2>1 DEF OutIs, CmdOut
  <2> HIDE DEF d
  <2>6. Once(Seconds(shown), d.std, d.msg) BY <1>5, <2>3, <2>4, <2>5 DEF OutIs, Once
  <2>7. OutIs(d, shown, V) BY <1>8, <2>3, <2>5, <2>6 DEF OutIs
  <2> QED BY <2>7 DEF d, s
<1>10. OutIs(cout', shown', V) BY <1>2, <1>3, <1>8, <1>9
<1>11. unlucky \in BOOLEAN BY <1>1 DEF Scalars
<1> QED BY <1>2, <1>3, <1>4, <1>10, <1>11, PassKeeps DEF V

(* The output does not depend on where the loop is, once started.          *)
LEMMA PassesOutput ==
    ASSUME IInv, pc # "startup", NEW q, q # "startup"
    PROVE  OutIs(cout, shown, Can(q, logged, Len(memory), ran, node))
<1>1. OutIs(cout, shown, Can(pc, logged, Len(memory), ran, node)) BY DEF IInv, Output, Written
<1>2. Can(pc, logged, Len(memory), ran, node) = Can(q, logged, Len(memory), ran, node) BY DEF Can
<1> QED BY <1>1, <1>2

(* A command line given as an option.                                      *)
LEMMA OptionKeeps ==
    ASSUME MainLoopAssumption, IInv, Option
    PROVE  IInv'
<1>1. Scalars /\ Held /\ pc = "option" /\ ~Running BY DEF IInv, Option, Running
<1>2. line.id = 0 BY <1>1 DEF Held
<1>3. UNCHANGED <<cout, fetched, logged, quit, node, mode>> BY DEF Option
<1>4. CASE pc' = "show" /\ UNCHANGED <<line, memory, script, ran, done, unlucky, failed, shown>>
  <2>1. OutIs(cout, shown, Can("show", logged, Len(memory), ran, node)) BY <1>1, PassesOutput
  <2>2. fetched \in Nat /\ unlucky \in BOOLEAN BY <1>1 DEF Scalars
  <2> QED BY <1>1, <1>3, <1>4, <2>1, <2>2, PassKeeps
<1>5. CASE \E scr \in Scripts : TakeOwnership(scr) /\ pc' = "consume first"
  <2>1. PICK scr \in Scripts : TakeOwnership(scr) /\ pc' = "consume first" BY <1>5
  <2>2. scr # <<>> BY DEF MainLoopAssumption
  <2>3. Goes(scr) BY <1>3, <2>1, <2>2 DEF Goes
  <2> QED BY <1>1, <1>2, <2>3, ReadKeeps
<1> QED BY <1>4, <1>5 DEF Option

(* A line is read.                                                         *)
LEMMA ReadLineKeeps ==
    ASSUME MainLoopAssumption, IInv, Read
    PROVE  IInv'
<1>1. pc = "read" /\ ~Running /\ Exhausted(line) /\ UNCHANGED <<cout, fetched, logged, quit, node, mode>> BY DEF Read, Running
<1>2. PICK scr \in Scripts \cup {<<>>} : TakeOwnership(scr) /\ pc' = IF scr = <<>> THEN "show" ELSE "consume" BY DEF Read
<1>3. Goes(scr) BY <1>1, <1>2 DEF Goes
<1> QED BY <1>1, <1>3, ReadKeeps

(* No line is read, or an error cannot be shown.                           *)
LEMMA ReadNothingKeeps ==
    ASSUME MainLoopAssumption, IInv, ReadNothing \/ ReadFails \/ ErrorNotShown
    PROVE  IInv'
<1>1. Scalars /\ Held /\ Stopped BY DEF IInv
<1>2. /\ UNCHANGED <<line, memory, cout, fetched, logged, quit, node, script, ran, done, unlucky, failed, shown, mode>>
      /\ pc \in {"read", "error"} /\ ~Running
      /\ pc' \in {"consume", "error", "exit"}
      /\ pc' = "consume" => pc = "read" /\ ~Exhausted(line)
  BY DEF ReadNothing, ReadFails, ErrorNotShown, Running
<1>3. ~Exhausted(line) => line # NoLine BY NoLineGood
<1>4. pc' = "consume" => line.id # 0 /\ failed = 0 BY <1>1, <1>2, <1>3 DEF Held, LineIs, Stopped
<1>5. OutIs(cout, shown, Can(pc', logged, Len(memory), ran, node)) BY <1>2, PassesOutput
<1>6. fetched \in Nat /\ unlucky \in BOOLEAN BY <1>1 DEF Scalars
<1> QED BY <1>2, <1>4, <1>5, <1>6, PassKeeps

(* The output is shown.                                                    *)
LEMMA ShowKeeps ==
    ASSUME MainLoopAssumption, IInv, Show \/ ShowFails
    PROVE  IInv'
<1>1. Scalars BY DEF IInv
<1>2. /\ UNCHANGED <<line, memory, fetched, logged, quit, node, script, ran, done, failed, mode>>
      /\ pc = "show" /\ ~Running
      /\ pc' \in {"read", "error"} /\ unlucky' \in {TRUE, unlucky}
      /\ \E out \in Outputs : Showing(out)
  BY DEF Show, ShowFails, Outputs, Running
<1> DEFINE V == Can(pc', logged, Len(memory), ran, node)
<1>3. OutIs(cout, shown, V) BY <1>2, PassesOutput
<1> HIDE DEF V
<1>4. OutIs(cout', shown', V) BY <1>2, <1>3, GoodShow DEF Showing
<1>5. fetched \in Nat /\ unlucky \in BOOLEAN BY <1>1 DEF Scalars
<1>6. fetched' \in Nat /\ fetched <= fetched' BY <1>2, <1>5
<1>7. unlucky' \in BOOLEAN BY <1>2, <1>5
<1>8. pc' # "option" /\ pc' # "consume" BY <1>2
<1> QED BY <1>2, <1>4, <1>6, <1>7, <1>8, PassKeeps DEF V

(* An error is shown, or the loop ends: the line is freed.                 *)
LEMMA ErrorKeeps ==
    ASSUME MainLoopAssumption, IInv, Error \/ Exit
    PROVE  IInv'
<1>1. /\ UNCHANGED <<fetched, logged, quit, node, script, ran, done, failed, mode, unlucky>>
      /\ pc \in {"error", "exit"} /\ ~Running /\ pc' \in {"show", "done"} /\ user_line_cleanup
      /\ cout' = Clean /\ shown' \in {shown, shown \o Placed("stderr", cout.msg)}
  BY DEF Error, Exit, Running
<1> DEFINE V == Can(pc', logged, Len(memory), ran, node)
<1>2. OutIs(cout, shown, V) BY <1>1, PassesOutput
<1> HIDE DEF V
<1>3. OutIs(Clean, shown, V) BY <1>2, GoodClean
<1>4. OutIs(Clean, shown \o Placed("stderr", cout.msg), V)
  <2> DEFINE d == [cout EXCEPT !.msg = <<>>]
  <2>1. cout \in CmdOut BY <1>2 DEF OutIs
  <2>2. d \in CmdOut /\ d.std = cout.std /\ d.msg = <<>> BY <2>1, EmptySeq DEF CmdOut
  <2> HIDE DEF d
  <2>3. OutIs(d, shown \o Placed("stderr", cout["msg"]), V) BY <1>2, <2>2, GoodPlaced DEF Source
  <2> QED BY <2>3, GoodClean
<1> QED BY <1>1, <1>3, <1>4, DropKeeps DEF V

(* What is known while commands run.                                       *)
LEMMA WhileRunning ==
    ASSUME MainLoopAssumption, IInv, Running
    PROVE  /\ script \in Seq(Seg) /\ Len(script) \in Nat /\ DOMAIN script = 1..Len(script)
           /\ Good(Token, line) /\ Numbered(line.text, Len(script)) /\ line.id = Len(memory) /\ Len(memory) \in Nat
           /\ Runs(ran, Len(script)) /\ After(line, ran) /\ ran \in Seq(Nat)
           /\ cout \in CmdOut /\ cout.to \in Sinks
           /\ fetched \in Nat /\ node \in Nat /\ done \subseteq DOMAIN script
           /\ mode \in Mode /\ quit \in BOOLEAN /\ unlucky \in BOOLEAN /\ failed = 0
<1>1. Scalars /\ Held /\ Ahead /\ Stopped /\ Output BY DEF IInv
<1>2. script \in Seq(Seg) /\ Len(script) \in Nat /\ DOMAIN script = 1..Len(script)
  BY <1>1, ScriptOfTypeOK DEF Scalars
<1>3. Good(Token, line) /\ Numbered(line.text, Len(script)) /\ line.id = Len(memory) /\ memory \in Seq(States)
  BY <1>1 DEF Held, LineIs
<1>4. Len(memory) \in Nat BY <1>3, LenProperties
<1>5. Runs(ran, Len(script)) /\ After(line, ran) /\ ran \in Seq(Nat) BY <1>1 DEF Ahead, Runs
<1>6. cout \in CmdOut /\ cout.to \in Sinks
  <2>1. cout \in CmdOut BY <1>1 DEF Output, OutIs
  <2> QED BY <2>1 DEF CmdOut, Sinks
<1>7. fetched \in Nat /\ done \subseteq DOMAIN script /\ mode \in Mode /\ quit \in BOOLEAN /\ unlucky \in BOOLEAN
  BY <1>1 DEF Scalars
<1>8. node \in Nat
  <2>1. Nodes \in Nat BY DEF MainLoopAssumption
  <2>2. node \in 0..Nodes BY <1>1 DEF Scalars
  <2> QED BY <2>1, <2>2
<1>9. failed = 0 BY <1>1 DEF Stopped, Running
<1> QED BY <1>2, <1>3, <1>4, <1>5, <1>6, <1>7, <1>8, <1>9

(* What is known when a command is started.                                *)
LEMMA WhenStarted ==
    ASSUME MainLoopAssumption, IInv, Consuming, ~Exhausted(Name), At(Name)[1] = "command"
    PROVE  /\ Running /\ node = 0
           /\ Left(Token, line, Params) /\ Good(Token, Params) /\ Numbered(Params.text, Len(script))
           /\ Index \in DOMAIN script
           /\ Runs(Append(ran, Index), Len(script)) /\ After(Params, Append(ran, Index))
           /\ Append(ran, Index) # <<>>
           /\ Of(Len(memory), ran, node) \subseteq Of(Len(memory), Append(ran, Index), 0)
           /\ Of(Len(memory), ran, node) \subseteq Of(Len(memory), Append(ran, Index), 1)
           /\ \A src \in Source : Writes(<<Out(Index, src)>>, Written, Of(Len(memory), Append(ran, Index), 0))
<1>1. Running /\ node = 0 BY DEF Consuming, Running
<1>2. /\ DOMAIN script = 1..Len(script) /\ Len(script) \in Nat
      /\ Good(Token, line) /\ Numbered(line.text, Len(script)) /\ line.id = Len(memory) /\ Len(memory) \in Nat
      /\ Runs(ran, Len(script)) /\ After(line, ran) /\ ran \in Seq(Nat)
  BY <1>1, WhileRunning
<1>3. Left(Token, line, Params) /\ Good(Token, Params) BY <1>2, NextCommand
<1>4. Numbered(Params.text, Len(script)) BY <1>2, <1>3, LeftNumbered
<1>5. /\ Index \in 1..Len(script) /\ \A a \in 1..Len(ran) : ran[a] < Index
      /\ Runs(Append(ran, Index), Len(script)) /\ After(Params, Append(ran, Index)) /\ Append(ran, Index) # <<>>
  BY <1>2, Started
<1>6. Index \in Nat BY <1>2, <1>5
<1>7. /\ Of(Len(memory), ran, 0) \subseteq Of(Len(memory), Append(ran, Index), 0)
      /\ Of(Len(memory), ran, 0) \subseteq Of(Len(memory), Append(ran, Index), 1)
  BY <1>2, <1>6, OfStarted
<1>8. ASSUME NEW src \in Source PROVE Writes(<<Out(Index, src)>>, Written, Of(Len(memory), Append(ran, Index), 0))
  <2> DEFINE x == <<"out", Len(memory), Index, src>>
  <2>1. Out(Index, src) = x BY <1>2 DEF Out
  <2>2. x \in CmdItem BY <1>2, <1>6, OutItems
  <2>3. x \in Of(Len(memory), Append(ran, Index), 0) BY <1>2, <1>6, OfOut
  <2>4. \A a \in 1..Len(ran) : ran[a] # Index
    <3>1. \A a \in 1..Len(ran) : ran[a] \in Nat BY <1>2, ElementOfSeq
    <3> QED BY <1>5, <1>6, <3>1
  <2>5. x \notin Written BY <1>2, <1>6, <2>4, FreshOut DEF Written
  <2> HIDE DEF x
  <2> QED BY <2>1, <2>2, <2>3, <2>5, WritesOne
<1> QED BY <1>1, <1>2, <1>3, <1>4, <1>5, <1>7, <1>8

(* A command that cuts the line, however it does.                          *)
LEMMA RunKeeps ==
    ASSUME MainLoopAssumption, IInv, NEW kind, NEW cut, Run(kind, cut), Cuts(Token, Params, cut)
    PROVE  IInv'
<1> DEFINE r == Append(ran, Index)
           U == Of(Len(memory), r, 0)
<1>1. Consuming /\ ~Exhausted(Name) /\ At(Name)[1] = "command" BY DEF Run, Named
<1>2. /\ Running /\ Left(Token, line, Params) /\ Good(Token, Params) /\ Numbered(Params.text, Len(script))
      /\ Index \in DOMAIN script /\ Runs(r, Len(script)) /\ After(Params, r)
      /\ Of(Len(memory), ran, node) \subseteq U
      /\ \A src \in Source : Writes(<<Out(Index, src)>>, Written, U)
  BY <1>1, WhenStarted
<1>3. /\ Good(Token, line) /\ fetched \in Nat /\ done \subseteq DOMAIN script
      /\ mode \in Mode /\ quit \in BOOLEAN /\ unlucky \in BOOLEAN
  BY <1>2, WhileRunning
<1>4. /\ ran' = r /\ quit' = quit /\ script' = script /\ shown' = shown
      /\ fetched' \in IF kind \in {"get", "bare"} THEN {fetched, fetched + 1} ELSE {fetched}
  BY DEF Run
<1>5. Left(Token, Params, cut.ul) /\ cut.sinks \in Sinks BY DEF Cuts
<1>6. Left(Token, line, cut.ul) BY <1>2, <1>3, <1>5, LeftOf
<1>7. After(cut.ul, r) BY <1>2, <1>5, LeftAfter
<1>8. fetched' \in Nat /\ fetched <= fetched' BY <1>3, <1>4
<1> HIDE DEF r, U
<1>9. ASSUME done' \subseteq DOMAIN script, mode' \in Mode, unlucky' \in BOOLEAN PROVE Bounds(r)
  BY <1>2, <1>3, <1>4, <1>8, <1>9 DEF Bounds
<1>10. CASE /\ Succeed(cut.ul, <<Out(Index, "std")>>, <<Out(Index, "msg")>>, cut.sinks)
            /\ done' = done \cup {Index}
            /\ mode' \in IF kind = "input" THEN Mode ELSE {mode}
            /\ UNCHANGED <<unlucky, failed>>
  <2>1. Bounds(r) BY <1>2, <1>3, <1>9, <1>10
  <2> DEFINE s == <<Out(Index, "std")>>
             t == <<Out(Index, "msg")>>
  <2>2. Writes(s, Written, U) /\ Writes(t, Written, U) BY <1>2 DEF Source
  <2>3. Apart(s, t)
    <3>1. \A i \in 1..1 : i = 1 OBVIOUS
    <3>2. Len(s) = 1 /\ Len(t) = 1 /\ s[1] = Out(Index, "std") /\ t[1] = Out(Index, "msg") OBVIOUS
    <3>3. Out(Index, "std") # Out(Index, "msg") BY DEF Out
    <3> HIDE DEF s, t
    <3> QED BY <3>1, <3>2, <3>3 DEF Apart
  <2> HIDE DEF s, t
  <2>4. Succeed(cut.ul, s, t, cut.sinks) BY <1>10 DEF s, t
  <2>5. failed' = failed BY <1>10
  <2> QED BY <1>2, <1>5, <1>6, <1>7, <2>1, <2>2, <2>3, <2>4, <2>5, SucceedKeeps DEF U
<1>11. CASE Fail(cut.ul, cut.sinks) /\ unlucky' \in {TRUE, unlucky} /\ UNCHANGED <<done, mode>>
  <2>1. Bounds(r) BY <1>3, <1>9, <1>11
  <2> QED BY <1>2, <1>5, <1>6, <1>7, <1>11, <2>1, FailKeeps DEF U
<1> QED BY <1>10, <1>11 DEF Run

(* All the ways commands take the line apart are cuts.                     *)
LEMMA CommandsCut ==
    ASSUME NEW ul, Good(Token, ul), NEW sinks \in Sinks
    PROVE  /\ Cuts(Token, ul, cut_cmd(ul, sinks)) /\ Cuts(Token, ul, cmd_draw(ul, sinks))
           /\ Cuts(Token, ul, cmd_save(ul, sinks)) /\ Cuts(Token, ul, cmd_set_session_input(ul, sinks))
           /\ Cuts(Token, ul, request_from_userln(ul, sinks))
           /\ Cuts(Token, ul, cmd_echo(ul, sinks)) /\ Cuts(Token, ul, cmd_console(ul, sinks))
           /\ \A kind : Cuts(Token, ul, cmd_input_default_node(kind, ul, sinks))
<1>0. Ended(Token) BY EndsInToken
<1> DEFINE s == skip_space(ul)
<1>1. Left(Token, ul, s) /\ Good(Token, s) BY LeftSkipSpace DEF Left
<1>2. Cuts(Token, ul, cut_cmd(ul, sinks)) BY <1>0, CutsCmd
<1>3. Cuts(Token, ul, cmd_draw(ul, sinks)) BY LeftSelf DEF cmd_draw, Cuts, Cut
<1> HIDE DEF s
<1>4. Cuts(Token, s, pop_last_nonspace(s, sinks)) /\ Cuts(Token, s, pop_last_alpha(s, sinks)) BY <1>0, <1>1, CutsLast
<1>5. Cuts(Token, ul, pop_last_nonspace(s, sinks)) /\ Cuts(Token, ul, pop_last_alpha(s, sinks)) BY <1>1, <1>4, CutsAfter
<1>6. Cuts(Token, ul, cmd_save(ul, sinks)) /\ Cuts(Token, ul, cmd_set_session_input(ul, sinks))
  BY <1>5 DEF cmd_save, cmd_set_session_input, s
<1>7. Cuts(Token, ul, request_from_userln(ul, sinks))
  <2> DEFINE cut  == pop_last_nonspace(s, sinks)
             next == chop_and_skip_space(cut.ul)
  <2>1. Left(Token, ul, cut.ul) /\ Good(Token, cut.ul) /\ cut.sinks \in Sinks BY <1>5 DEF Cuts, Left
  <2>2. Left(Token, cut.ul, next.ul) BY <1>0, <2>1, LeftChopSpace
  <2>3. Left(Token, ul, next.ul) BY <2>1, <2>2, LeftOf
  <2>4. request_from_userln(ul, sinks)
           = IF cut.err # "ok" THEN cut ELSE Cut(IF next.ok THEN "ok" ELSE "expecting space", next.ul, cut.sinks)
    BY DEF request_from_userln, then_space, s
  <2>5. Cuts(Token, ul, cut) BY <1>5
  <2> HIDE DEF cut, next
  <2>6. \A err : Cuts(Token, ul, Cut(err, next.ul, cut.sinks)) BY <2>1, <2>3 DEF Cuts, Cut
  <2> QED BY <2>4, <2>5, <2>6
<1>8. Cuts(Token, ul, cmd_echo(ul, sinks))
  <2>1. Left(Token, ul, pop_rest(ul).ul) BY <1>0, LeftPopRest
  <2> QED BY <2>1 DEF cmd_echo, Cuts, Cut
<1>9. Cuts(Token, ul, cmd_console(ul, sinks))
  <2>1. Left(Token, ul, SkipAll(ul)) BY LeftSkipAll
  <2> QED BY <2>1 DEF cmd_console, Cuts, Cut
<1>10. Cuts(Token, ul, cut_again(cut_cmd(ul, sinks)))
  <2> DEFINE cut == cut_cmd(ul, sinks)
  <2>1. Left(Token, ul, cut.ul) /\ Good(Token, cut.ul) /\ cut.sinks \in Sinks BY <1>2 DEF Cuts, Left
  <2> HIDE DEF cut
  <2>2. Cuts(Token, cut.ul, cut_cmd(cut.ul, cut.sinks)) BY <1>0, <2>1, CutsCmd
  <2>3. Cuts(Token, ul, cut_cmd(cut.ul, cut.sinks)) BY <2>1, <2>2, CutsAfter
  <2> QED BY <1>2, <2>3 DEF cut_again, cut
<1>11. \A kind : Cuts(Token, ul, cmd_input_default_node(kind, ul, sinks)) BY <1>2, <1>10 DEF cmd_input_default_node
<1> QED BY <1>2, <1>3, <1>6, <1>7, <1>8, <1>9, <1>11

(* Commands that cut the line before they run.                             *)
LEMMA RunsKeep ==
    ASSUME MainLoopAssumption, IInv, RunCut \/ RunBare \/ RunSave \/ RunInput \/ RunGet \/ RunEcho \/ RunAll
    PROVE  IInv'
<1>1. PICK kind, cut :
        /\ Run(kind, cut)
        /\ cut \in {cut_cmd(Params, cout.to), cmd_draw(Params, cout.to), cmd_save(Params, cout.to),
                    cmd_set_session_input(Params, cout.to), request_from_userln(Params, cout.to),
                    cmd_echo(Params, cout.to), cmd_console(Params, cout.to)}
  BY DEF RunCut, RunBare, RunSave, RunInput, RunGet, RunEcho, RunAll
<1>2. Good(Token, Params) /\ Running BY <1>1, WhenStarted DEF Run, Named
<1>3. cout.to \in Sinks BY <1>2, WhileRunning
<1>4. Cuts(Token, Params, cut) BY <1>1, <1>2, <1>3, CommandsCut
<1> QED BY <1>1, <1>4, RunKeeps

(* Nothing shares nothing.                                                 *)
LEMMA ApartNothing == Apart(<<>>, <<>>)
BY OfNone

(* An empty command.                                                       *)
LEMMA NothingKeeps ==
    ASSUME MainLoopAssumption, IInv, Nothing
    PROVE  IInv'
<1>1. Running /\ node = 0 BY DEF Nothing, Consuming, Running
<1>2. /\ Good(Token, line) /\ Numbered(line.text, Len(script)) /\ Runs(ran, Len(script)) /\ After(line, ran)
      /\ cout.to \in Sinks /\ fetched \in Nat /\ done \subseteq DOMAIN script
      /\ mode \in Mode /\ quit \in BOOLEAN /\ unlucky \in BOOLEAN
  BY <1>1, WhileRunning
<1> DEFINE ul == Skip(Begin, 1)
<1>3. Left(Token, line, ul)
  <2>1. Left(Token, line, Begin) /\ Good(Token, Begin) BY <1>2, NextCommand
  <2>2. Left(Token, Begin, ul) BY <2>1, LeftSkip
  <2> QED BY <1>2, <2>1, <2>2, LeftOf
<1>4. Succeed(ul, <<>>, <<>>, cout.to) /\ failed' = failed BY DEF Nothing
<1>5. Bounds(ran) BY <1>2 DEF Nothing, Bounds
<1> HIDE DEF ul
<1>6. After(ul, ran) BY <1>2, <1>3, LeftAfter
<1> QED BY <1>1, <1>2, <1>3, <1>4, <1>5, <1>6, ApartNothing, WritesNothing, SucceedKeeps

(* quit reads no further.                                                  *)
LEMMA RunQuitKeeps ==
    ASSUME MainLoopAssumption, IInv, RunQuit
    PROVE  IInv'
<1> DEFINE r == Append(ran, Index)
           ul == skip_space(Params)
<1>1. Consuming /\ ~Exhausted(Name) /\ At(Name)[1] = "command" BY DEF RunQuit, Named
<1>2. /\ Running /\ Left(Token, line, Params) /\ Good(Token, Params) /\ Numbered(Params.text, Len(script))
      /\ Index \in DOMAIN script /\ Runs(r, Len(script)) /\ After(Params, r)
      /\ Of(Len(memory), ran, node) \subseteq Of(Len(memory), r, 0)
  BY <1>1, WhenStarted
<1>3. /\ Good(Token, line) /\ cout.to \in Sinks /\ fetched \in Nat /\ done \subseteq DOMAIN script
      /\ mode \in Mode /\ quit \in BOOLEAN /\ unlucky \in BOOLEAN
  BY <1>2, WhileRunning
<1>4. Left(Token, Params, ul) BY <1>2, LeftSkipSpace
<1>5. Left(Token, line, ul) BY <1>2, <1>3, <1>4, LeftOf
<1>6. Succeed(ul, <<>>, <<>>, cout.to) /\ failed' = failed BY DEF RunQuit
<1>7. Bounds(r)
  <2>1. /\ ran' = r /\ quit' = TRUE /\ done' = done \cup {Index} /\ fetched' = fetched
        /\ script' = script /\ shown' = shown /\ mode' = mode /\ unlucky' = unlucky
    BY DEF RunQuit
  <2> HIDE DEF r
  <2> QED BY <1>2, <1>3, <2>1 DEF Bounds
<1> HIDE DEF r, ul
<1>8. After(ul, r) BY <1>2, <1>4, LeftAfter
<1> QED BY <1>2, <1>3, <1>5, <1>6, <1>7, <1>8, ApartNothing, WritesNothing, SucceedKeeps

(* A command that is not known fails.                                      *)
LEMMA RunUnknownKeeps ==
    ASSUME MainLoopAssumption, IInv, RunUnknown
    PROVE  IInv'
<1>1. Consuming /\ Running /\ node = 0 BY DEF RunUnknown, Consuming, Running
<1>2. /\ Good(Token, line) /\ Runs(ran, Len(script)) /\ cout.to \in Sinks /\ fetched \in Nat /\ done \subseteq DOMAIN script
      /\ mode \in Mode /\ quit \in BOOLEAN /\ unlucky \in BOOLEAN
  BY <1>1, WhileRunning
<1> DEFINE ul == SkipAll(Name)
           r  == ran'
<1>3. Left(Token, line, ul) /\ ul.ix = Len(ul.text) + 1 /\ Len(ul.text) \in Nat
  <2>1. Left(Token, line, Name) /\ Good(Token, Name) BY <1>2, NextCommand
  <2>2. Left(Token, Name, ul) BY <2>1, LeftSkipAll
  <2>3. Left(Token, line, ul) BY <1>2, <2>1, <2>2, LeftOf
  <2>4. Name \in Lines(Token) /\ Len(Name.text) \in Nat BY <2>1, GoodLine
  <2>5. ul.ix = Len(ul.text) + 1 /\ ul.text = Name.text BY <2>4 DEF SkipAll, Lines
  <2> QED BY <2>3, <2>4, <2>5
<1>4. Fail(ul, cout.to) BY DEF RunUnknown
<1>5. Runs(r, Len(script)) /\ Of(Len(memory), ran, node) \subseteq Of(Len(memory), r, 0)
  <2>1. CASE Exhausted(Name) \/ At(Name)[1] # "command"
    <3>1. r = ran BY <2>1 DEF RunUnknown
    <3> QED BY <1>1, <1>2, <3>1
  <2>2. CASE ~Exhausted(Name) /\ At(Name)[1] = "command"
    <3>1. r = Append(ran, Index) BY <2>2 DEF RunUnknown
    <3> QED BY <1>1, <2>2, <3>1, WhenStarted
  <2> QED BY <2>1, <2>2
<1>6. Bounds(r) BY <1>2, <1>5 DEF RunUnknown, Bounds
<1> HIDE DEF r, ul
<1>7. After(ul, r)
  <2>1. \A k \in ul.ix..Len(ul.text) : FALSE BY <1>3
  <2> QED BY <2>1 DEF After
<1> QED BY <1>1, <1>2, <1>3, <1>4, <1>5, <1>6, <1>7, FailKeeps

(* What keeps the invariant while a command stays the running one.         *)
LEMMA StayKeeps ==
    ASSUME MainLoopAssumption, IInv, Running, pc' = pc, memory' = memory, logged' = logged, failed' = failed,
           Left(Token, line, line'), NEW r, Bounds(r), After(line', r), r # <<>>, node' \in 1..Nodes,
           OutIs(cout', shown, Can(pc, logged, Len(memory), r, node'))
    PROVE  IInv'
<1>1. Scalars /\ Held /\ Ahead /\ Stopped /\ Output BY DEF IInv
<1>2. script' = script /\ shown' = shown /\ ran' = r BY DEF Bounds
<1>3. LineIs(line, memory, script) /\ line.id # 0 /\ line'.id = line.id BY <1>1 DEF Held, Left
<1>4. LineIs(line', memory', script')
  <2>1. Good(Token, line) /\ Good(Token, line') BY <1>3 DEF LineIs, Left
  <2>2. Numbered(line'.text, Len(script)) BY <1>3, <2>1, LeftNumbered DEF LineIs
  <2> QED BY <1>2, <1>3, <2>1, <2>2 DEF LineIs
<1>5. Held' BY <1>3, <1>4 DEF Held, Running
<1>6. Scalars'
  <2>1. fetched \in Nat /\ logged \in 0..fetched /\ fetched' \in Nat /\ fetched <= fetched' BY <1>1 DEF Scalars, Bounds
  <2>2. logged' \in 0..fetched' BY <2>1
  <2>3. node' \in 0..Nodes BY DEF MainLoopAssumption
  <2> QED BY <1>1, <1>2, <2>1, <2>2, <2>3 DEF Scalars, Bounds, Running
<1>7. Ahead' BY <1>2 DEF Ahead, Bounds
<1>8. Stopped'
  <2>1. failed = 0 BY <1>1 DEF Stopped, Running
  <2> QED BY <2>1 DEF Stopped
<1>9. Output' BY <1>2 DEF Output, Written
<1> QED BY <1>5, <1>6, <1>7, <1>8, <1>9 DEF IInv

(* A command on a range starts ...                                         *)
LEMMA RunRangeKeeps ==
    ASSUME MainLoopAssumption, IInv, RunRange
    PROVE  IInv'
<1> DEFINE r == Append(ran, Index)
           ul == skip_space(Params)
<1>1. Consuming /\ ~Exhausted(Name) /\ At(Name)[1] = "command" BY DEF RunRange, Named
<1>2. /\ Running /\ Left(Token, line, Params) /\ Good(Token, Params) /\ Numbered(Params.text, Len(script))
      /\ Index \in DOMAIN script /\ Runs(r, Len(script)) /\ After(Params, r) /\ r # <<>>
      /\ Of(Len(memory), ran, node) \subseteq Of(Len(memory), r, 1)
  BY <1>1, WhenStarted
<1>3. /\ Good(Token, line) /\ fetched \in Nat /\ done \subseteq DOMAIN script
      /\ mode \in Mode /\ quit \in BOOLEAN /\ unlucky \in BOOLEAN
  BY <1>2, WhileRunning
<1>4. Left(Token, Params, ul) BY <1>2, LeftSkipSpace
<1>5. Left(Token, line, ul) BY <1>2, <1>3, <1>4, LeftOf
<1>6. /\ ran' = r /\ done' = done \cup {Index} /\ line' = ul /\ node' = 1
      /\ pc' = pc /\ memory' = memory /\ cout' = cout /\ fetched' = fetched /\ logged' = logged /\ quit' = quit
      /\ script' = script /\ unlucky' = unlucky /\ failed' = failed /\ shown' = shown /\ mode' = mode
  BY DEF RunRange
<1> HIDE DEF r, ul
<1>7. Bounds(r) BY <1>2, <1>3, <1>6 DEF Bounds
<1>8. After(ul, r) BY <1>2, <1>4, LeftAfter
<1>9. OutIs(cout, shown, Can(pc, logged, Len(memory), r, 1))
  <2> DEFINE W == Can(pc, logged, Len(memory), ran, node)
             V == Can(pc, logged, Len(memory), r, 1)
  <2>1. OutIs(cout, shown, W) BY DEF IInv, Output, Written
  <2>2. W \subseteq V BY <1>2 DEF Can
  <2> HIDE DEF W, V
  <2>3. OutIs(cout, shown, V) BY <2>1, <2>2 DEF OutIs, Within
  <2> QED BY <2>3 DEF V
<1>10. 1 \in 1..Nodes BY DEF MainLoopAssumption
<1> QED BY <1>2, <1>5, <1>6, <1>7, <1>8, <1>9, <1>10, StayKeeps

(* What a callback writes for an element is of the running command, and is *)
(* new.                                                                    *)
LEMMA WritesForNode ==
    ASSUME MainLoopAssumption, IInv, node > 0, NEW x \in {NodeOut(Last(ran)), NodeErr(Last(ran))}
    PROVE  /\ Writes(<<x>>, Written, Of(Len(memory), ran, node + 1))
           /\ Writes(<<x>>, Written, Of(Len(memory), ran, 0))
           /\ Len(ran) \in Nat \ {0} /\ ran # <<>>
<1>1. Running /\ ran # <<>> BY DEF IInv, Scalars, Ahead
<1>2. Runs(ran, Len(script)) /\ ran \in Seq(Nat) /\ line.id = Len(memory) /\ Len(memory) \in Nat /\ node \in Nat
  BY <1>1, WhileRunning
<1>3. PICK l \in Nat : l = Len(ran) /\ l # 0 BY <1>1, <1>2, EmptySeq
<1> DEFINE i == Last(ran)
<1>4. i = ran[l] /\ l \in 1..l /\ i \in Nat
  <2>1. l \in 1..l BY <1>3
  <2> QED BY <1>2, <1>3, <2>1, ElementOfSeq DEF Last
<1> HIDE DEF i
<1>5. \A a \in 1..l : ran[a] = i => a = l
  <2> SUFFICES ASSUME NEW a \in 1..l, ran[a] = i, a # l PROVE FALSE
    OBVIOUS
  <2>1. a < l BY <1>3
  <2>2. ran[a] < ran[l] BY <1>2, <1>3, <1>4, <2>1 DEF Runs, Increasing
  <2> QED BY <1>4, <2>2
<1>6. PICK tag \in {"out", "err"} : x = <<tag, Len(memory), i, "msg", node>>
  BY <1>2 DEF NodeOut, NodeErr, i
<1>7. x \in NodeItem BY <1>2, <1>4, <1>6, OutItems
<1>8. node \in Nat \ {0} BY <1>2
<1>9. x \notin Written BY <1>2, <1>3, <1>4, <1>5, <1>6, <1>8, FreshNode DEF Written
<1>10. x \in Of(Len(memory), ran, node + 1) /\ x \in Of(Len(memory), ran, 0)
  BY <1>2, <1>3, <1>4, <1>6, OfNode
<1> QED BY <1>1, <1>3, <1>7, <1>9, <1>10, WritesOne

(* ... goes from element to element ...                                    *)
LEMMA ElementKeeps ==
    ASSUME MainLoopAssumption, IInv, node > 0, NEW cut, Cuts(Token, line, cut), NEW x \in {NodeOut(Last(ran)), NodeErr(Last(ran))},
           Element(cut, <<x>>), Bounds(ran), failed' = failed
    PROVE  IInv'
<1>1. Running /\ ran # <<>> BY DEF IInv, Scalars, Ahead
<1>2. /\ Good(Token, line) /\ Numbered(line.text, Len(script)) /\ After(line, ran) /\ node \in Nat
      /\ cout \in CmdOut
  BY <1>1, WhileRunning
<1>3. Left(Token, line, cut.ul) /\ cut.sinks \in Sinks BY DEF Cuts
<1>4. After(cut.ul, ran) BY <1>2, <1>3, LeftAfter
<1> DEFINE msg == <<x>>
           m == Len(memory)
<1>5. Writes(msg, Written, Of(m, ran, node + 1)) /\ Writes(msg, Written, Of(m, ran, 0)) BY WritesForNode
<1>6. Element(cut, msg) OBVIOUS
<1> HIDE DEF msg
<1>7. CASE node < Nodes
  <2>1. /\ line' = [line EXCEPT !.text = cut.ul.text, !.ix = cut.ul.ix]
        /\ cout' = [cout EXCEPT !.msg = @ \o msg, !.to = cut.sinks]
        /\ node' = node + 1 /\ pc' = pc /\ memory' = memory /\ logged' = logged
    BY <1>6, <1>7 DEF Element
  <2>2. line' = cut.ul BY <1>2, <1>3, <2>1, LeftWrittenBack
  <2>3. node' \in 1..Nodes
    <3>1. Nodes \in Nat BY DEF MainLoopAssumption
    <3> QED BY <1>2, <1>7, <2>1, <3>1
  <2> DEFINE W == Can(pc, logged, m, ran, node)
             V == Can(pc, logged, m, ran, node + 1)
  <2>4. W \subseteq V
    <3>1. Of(m, ran, node) \subseteq Of(m, ran, node + 1) BY <1>2, OfNext
    <3> QED BY <3>1 DEF Can
  <2>5. Of(m, ran, node + 1) \subseteq V BY DEF Can
  <2>6. OutIs(cout, shown, W) BY DEF IInv, Output, Written
  <2>7. /\ msg \in Seq(CmdItem \cup NodeItem) /\ Distinct(msg) /\ Within(msg, V)
        /\ \A i \in 1..Len(msg) : msg[i] \notin W
    BY <1>5, <2>5 DEF Writes, Within, Written
  <2>8. msg \in Seq(Item)
    <3>1. CmdItem \cup NodeItem \subseteq Item BY DEF Item
    <3> QED BY <2>7, <3>1, SeqMonotonic
  <2>9. cout' = [std |-> cout.std \o <<>>, msg |-> cout.msg \o msg, to |-> cut.sinks]
    <3>1. cout.std \o <<>> = cout.std BY <1>2, ConcatEmptySeq DEF CmdOut
    <3>2. cout = [std |-> cout.std, msg |-> cout.msg, to |-> cout.to] BY <1>2 DEF CmdOut
    <3> DEFINE t == cout.msg \o msg
    <3>3. cout' = [cout EXCEPT !.msg = t, !.to = cut.sinks] BY <2>1, <3>2
    <3> HIDE DEF t
    <3>4. cout' = [std |-> cout.std, msg |-> t, to |-> cut.sinks] BY <3>2, <3>3
    <3> QED BY <3>1, <3>4 DEF t
  <2>10. OutIs([std |-> cout.std \o <<>>, msg |-> cout.msg \o msg, to |-> cut.sinks], shown, V)
    <3> HIDE DEF W, V
    <3>1. <<>> \in Seq(Item) /\ \A i \in 1..Len(<<>>) : <<>>[i] \notin W BY EmptySeq
    <3> QED BY <1>3, <2>4, <2>6, <2>7, <2>8, <3>1, OfNone, GoodAdded
  <2>11. OutIs(cout', shown, Can(pc, logged, Len(memory), ran, node')) BY <2>1, <2>9, <2>10
  <2> QED BY <1>1, <1>3, <1>4, <2>1, <2>2, <2>3, <2>11, StayKeeps
<1>8. CASE ~(node < Nodes)
  <2>1. Succeed(cut.ul, <<>>, msg, cut.sinks) BY <1>6, <1>8 DEF Element
  <2>2. Of(m, ran, node) \subseteq Of(m, ran, 0) BY <1>2, OfNext
  <2>3. Apart(<<>>, msg) BY OfNone
  <2> QED BY <1>1, <1>3, <1>4, <1>5, <2>1, <2>2, <2>3, WritesNothing, SucceedKeeps
<1> QED BY <1>7, <1>8

(* ... and ends with the last one, or fails.                               *)
LEMMA RunNodeKeeps ==
    ASSUME MainLoopAssumption, IInv, RunNode
    PROVE  IInv'
<1>1. Running /\ node > 0 BY DEF RunNode, IInv, Scalars
<1>2. /\ Good(Token, line) /\ cout.to \in Sinks /\ Runs(ran, Len(script)) /\ After(line, ran)
      /\ fetched \in Nat /\ node \in Nat /\ done \subseteq DOMAIN script
      /\ mode \in Mode /\ quit \in BOOLEAN /\ unlucky \in BOOLEAN
  BY <1>1, WhileRunning
<1> DEFINE i == Last(ran)
           cut == cmd_input_default_node(script[i].kind, line, cout.to)
<1>3. Cuts(Token, line, cut) BY <1>2, CommandsCut
<1>4. Callback(i, cut) BY DEF RunNode
<1> HIDE DEF cut, i
<1>5. ran' = ran /\ quit' = quit /\ script' = script /\ shown' = shown /\ mode' = mode BY <1>4 DEF Callback
<1>6. ASSUME fetched' \in {fetched, fetched + 1}, done' \in {done, done \ {i}}, unlucky' \in {TRUE, unlucky} PROVE Bounds(ran)
  <2>1. fetched' \in Nat /\ fetched <= fetched' BY <1>2, <1>6
  <2>2. done' \subseteq DOMAIN script /\ unlucky' \in BOOLEAN BY <1>2, <1>6
  <2> QED BY <1>2, <1>5, <2>1, <2>2 DEF Bounds
<1>7. CASE /\ fetched' = fetched + (IF script[i].kind = "submit" THEN 1 ELSE 0)
           /\ Element(cut, <<NodeOut(i)>>) /\ UNCHANGED <<done, unlucky, failed>>
  <2>1. fetched' \in {fetched, fetched + 1} BY <1>2, <1>7
  <2>2. Bounds(ran) BY <1>6, <1>7, <2>1
  <2> QED BY <1>1, <1>3, <1>7, <2>2, ElementKeeps DEF i
<1>8. CASE /\ UNCHANGED <<fetched, failed>> /\ Element(cut, <<NodeErr(i)>>)
           /\ unlucky' \in {TRUE, unlucky} /\ done' = done \ {i}
  <2>1. Bounds(ran) BY <1>6, <1>8
  <2> QED BY <1>1, <1>3, <1>8, <2>1, ElementKeeps DEF i
<1>9. CASE UNCHANGED fetched /\ Fail(line, cout.to) /\ unlucky' = TRUE /\ done' = done \ {i}
  <2>1. Bounds(ran) BY <1>6, <1>9
  <2>2. Of(Len(memory), ran, node) \subseteq Of(Len(memory), ran, 0) BY <1>2, OfNext
  <2>3. Left(Token, line, line) BY <1>2, LeftSelf
  <2> QED BY <1>1, <1>2, <1>9, <2>1, <2>2, <2>3, FailKeeps
<1> QED BY <1>4, <1>7, <1>8, <1>9 DEF Callback

-----------------------------------------------------------------------------
(* The theorems.                                                           *)

(* The invariant holds at first ...                                        *)
LEMMA InitHolds ==
    ASSUME MainLoopAssumption, Init
    PROVE  IInv
<1>1. /\ pc = "startup" /\ line = NoLine /\ memory = <<>> /\ cout = Clean /\ fetched = 0 /\ logged = 0
      /\ quit = FALSE /\ node = 0 /\ script = <<>> /\ ran = <<>> /\ done = {} /\ unlucky = FALSE /\ failed = 0
      /\ shown = <<>> /\ mode \in Mode
  BY DEF Init
<1>2. \A S : <<>> \in Seq(S) /\ Len(<<>>) = 0 BY EmptySeq
<1>3. Scalars
  <2>1. Nodes \in Nat BY DEF MainLoopAssumption
  <2>2. 0 \in Nat /\ 0 \in 0..0 /\ 0 \in 0..Nodes /\ ~(0 > 0) BY <2>1
  <2> QED BY <1>1, <2>2 DEF Scalars
<1>4. Held
  <2>1. Kept(<<>>, 0) BY <1>2 DEF Kept
  <2>2. LineIs(NoLine, <<>>, <<>>) BY <1>2, <2>1, NoLineGood DEF LineIs
  <2> QED BY <1>1, <2>2, NoLineGood DEF Held, Running
<1>5. Ahead
  <2>1. \A a \in 1..0 : FALSE OBVIOUS
  <2>2. Runs(<<>>, Len(script)) BY <1>2, <2>1 DEF Runs, Increasing
  <2>3. ~(0 > 0) OBVIOUS
  <2> QED BY <1>1, <2>2, <2>3, NoLineGood DEF Ahead
<1>6. Stopped BY <1>1 DEF Stopped
<1>7. Output
  <2> DEFINE W == Written
  <2> HIDE DEF W
  <2>1. Len(Seconds(<<>>)) = 0 BY <1>2 DEF Seconds
  <2>2. \A t, U : Distinct(Seconds(<<>>)) /\ Apart(Seconds(<<>>), t) /\ Within(Seconds(<<>>), U)
    BY <2>1 DEF Distinct, Apart, Within
  <2>3. Clean \in CmdOut /\ Clean.std = <<>> /\ Clean.msg = <<>> BY <1>2 DEF Clean, CmdOut, Default, Source, Sink
  <2>4. OutIs(Clean, <<>>, W) BY <1>2, <2>2, <2>3, OfNone DEF OutIs, Once
  <2> QED BY <1>1, <2>4 DEF Output, W
<1> QED BY <1>3, <1>4, <1>5, <1>6, <1>7 DEF IInv

(* ... every step keeps it ...                                             *)
LEMMA NextHolds ==
    ASSUME MainLoopAssumption, IInv, [Next]_vars
    PROVE  IInv'
<1>1. CASE FetchParams BY <1>1, FetchParamsKeeps
<1>2. CASE Option BY <1>2, OptionKeeps
<1>3. CASE ReadNothing \/ ReadFails \/ ErrorNotShown BY <1>3, ReadNothingKeeps
<1>4. CASE Nothing BY <1>4, NothingKeeps
<1>5. CASE RunCut \/ RunBare \/ RunSave \/ RunInput \/ RunGet \/ RunEcho \/ RunAll BY <1>5, RunsKeep
<1>6. CASE RunQuit BY <1>6, RunQuitKeeps
<1>7. CASE RunUnknown BY <1>7, RunUnknownKeeps
<1>8. CASE RunRange BY <1>8, RunRangeKeeps
<1>9. CASE RunNode BY <1>9, RunNodeKeeps
<1>10. CASE Show \/ ShowFails BY <1>10, ShowKeeps
<1>11. CASE Error \/ Exit BY <1>11, ErrorKeeps
<1>12. CASE Read BY <1>12, ReadLineKeeps
<1>13. CASE UNCHANGED vars
  <2>1. /\ pc' = pc /\ line' = line /\ memory' = memory /\ cout' = cout /\ fetched' = fetched /\ logged' = logged
        /\ quit' = quit /\ node' = node /\ script' = script /\ ran' = ran /\ done' = done /\ unlucky' = unlucky
        /\ failed' = failed /\ shown' = shown /\ mode' = mode
    BY <1>13 DEF vars
  <2>2. Scalars /\ Held /\ Ahead /\ Stopped /\ Output BY DEF IInv
  <2>3. Scalars' BY <2>1, <2>2 DEF Scalars, Running
  <2>4. Held' BY <2>1, <2>2 DEF Held, Running
  <2>5. Ahead' /\ Stopped' BY <2>1, <2>2 DEF Ahead, Stopped
  <2>6. Output' BY <2>1, <2>2 DEF Output, Written
  <2> QED BY <2>3, <2>4, <2>5, <2>6 DEF IInv
<1> QED BY <1>1, <1>2, <1>3, <1>4, <1>5, <1>6, <1>7, <1>8, <1>9, <1>10, <1>11, <1>12, <1>13 DEF Next, Step

(* ... so it always holds.                                                 *)
LEMMA Invariance == Spec => []IInv
<1>1. Init => IInv BY MainLoopAssumption, InitHolds
<1>2. IInv /\ [Next]_vars => IInv' BY MainLoopAssumption, NextHolds
<1> QED BY <1>1, <1>2, PTL DEF Spec

(* Every variable of the loop keeps its type: the index of the line is in  *)
(* it or at its end, its memory is in one of three states, a command on a  *)
(* range is at an element only while commands run, and no more of the      *)
(* fetch history is logged than there is.                                  *)
THEOREM TypeCorrect == Spec => []TypeOK
<1>1. ASSUME IInv PROVE TypeOK
  <2>1. Scalars /\ LineIs(line, memory, script) /\ cout \in CmdOut BY <1>1 DEF IInv, Held, Output, OutIs
  <2>2. line.id \in 0..Len(memory)
    <3>1. Len(memory) \in Nat BY <2>1, LenProperties DEF LineIs
    <3> QED BY <2>1, <3>1 DEF LineIs
  <2>3. line.ix \in 1..(Len(line.text) + 1) /\ memory \in Seq(States) BY <2>1 DEF LineIs, Good
  <2>4. cout.to \in [Source -> Sink] BY <2>1 DEF CmdOut
  <2> QED BY <2>1, <2>2, <2>3, <2>4 DEF TypeOK, Scalars, States, Running
<1> QED BY <1>1, Invariance, PTL

(* Whatever failed in between: the commands of a line are started in order *)
(* and none of them twice, nor any after the one that failed; nothing a    *)
(* command wrote is in the output twice, nor an entry of the fetch history *)
(* in the log; and the memory of a line is freed once, and not while the   *)
(* line is still read.                                                     *)
THEOREM NeverTwice == Spec => []NothingTwice
<1>1. ASSUME IInv PROVE NothingTwice
  <2>1. Held /\ Ahead /\ Stopped /\ Output BY <1>1 DEF IInv
  <2>2. InOrder
    <3>1. ran \in Seq(Nat) /\ Increasing(ran) BY <2>1 DEF Ahead, Runs
    <3>2. DOMAIN ran = 1..Len(ran) BY <3>1, LenProperties
    <3> QED BY <2>1, <3>1, <3>2 DEF InOrder, Increasing, Stopped
  <2>3. ShownOnce
    <3>1. /\ shown \in Seq(Shown) /\ cout.std \in Seq(Item) /\ cout.msg \in Seq(Item)
          /\ Once(Seconds(shown), cout.std, cout.msg)
      BY <2>1 DEF Output, OutIs, CmdOut
    <3>2. Seconds(shown) \in Seq(Item) BY <3>1, SecondsThen, EmptySeq DEF Sink
    <3> DEFINE s == Seconds(shown)
               all == s \o cout.std \o cout.msg
    <3>3. [e \in DOMAIN shown |-> shown[e][2]] = s BY <3>1, LenProperties DEF Seconds
    <3> HIDE DEF s
    <3>4. s \o cout.std \in Seq(Item) /\ all \in Seq(Item) BY <3>1, <3>2, ConcatProperties DEF s
    <3>5. Distinct(s \o cout.std) BY <3>1, <3>2, DistinctThen DEF Once, s
    <3>6. Apart(s \o cout.std, cout.msg) BY <3>1, <3>2, ApartThen DEF Once, s
    <3>7. Distinct(all) BY <3>1, <3>4, <3>5, <3>6, DistinctThen DEF Once
    <3>8. DOMAIN all = 1..Len(all) BY <3>4, LenProperties
    <3> HIDE DEF all
    <3>9. \A a, b \in DOMAIN all : all[a] = all[b] => a = b BY <3>7, <3>8 DEF Distinct
    <3> QED BY <3>3, <3>9 DEF ShownOnce, all
  <2>4. LinesFreed
    <3>1. memory \in Seq(States) /\ Kept(memory, line.id) BY <2>1 DEF Held, LineIs
    <3> QED BY <3>1, LinesFreedKept
  <2> QED BY <2>2, <2>3, <2>4 DEF NothingTwice
<1> QED BY <1>1, Invariance, PTL
=============================================================================
