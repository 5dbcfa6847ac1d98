------------------------------ MODULE DrawBuf ------------------------------
(***************************************************************************)
(* The buffer a page is drawn into (htmldoc.c): its text, the changes of   *)
(* attributes with their offsets in it, and what a trim hides on its left. *)
(*                                                                         *)
(* A character is a tuple that begins with its class: ink "w", punctuation *)
(* "p", space "s", newline "n", the mark that ends a form "u", which is    *)
(* none of these to the C library; "on" and "off" are the two drawings of  *)
(* a box, "v" a value shown, and "#" the number of an element, with the    *)
(* list it belongs to.  The tuple ends with the node it was drawn for.     *)
(***************************************************************************)
EXTENDS Integers, Sequences, SequencesExt, FiniteSets, FiniteSetsExt

Ok      == ""                       \* no error
SP      == << <<"s", 0>> >>
NL      == << <<"n", 0>> >>
P(k)    == [i \in 1..k |-> <<"p", 0>>]

Space(ch)   == ch[1] \in {"s", "n"}
Graph(ch)   == ch[1] \notin {"s", "n", "u"}
Punct(ch)   == ch[1] \in {"p", "on", "off"}

\* The members of a set of positions, of those up to n, in order.
InOrder(n, S) == SelectSeq([i \in 1..n |-> i], LAMBDA i : i \in S)

\* The number of leading spaces of a text, and a text without those of its end.
LeftSpaces(s) == CHOOSE k \in 0..Len(s) :
                   /\ \A i \in 1..k : Space(s[i])
                   /\ k < Len(s) => ~Space(s[k + 1])
CutRight(s)   == SubSeq(s, 1, Max({0} \cup {i \in DOMAIN s : ~Space(s[i])}))
Trimmed(s)    == LET r == CutRight(s) IN SubSeq(r, LeftSpaces(r) + 1, Len(r))

\* Spaces collapsed: the words of a text, one space between each two.
Squeeze(s) ==
  LET keep(i) == \/ ~Space(s[i])
                 \/ /\ i > 1
                    /\ ~Space(s[i - 1])
                    /\ \E j \in i + 1..Len(s) : ~Space(s[j])
      kept    == InOrder(Len(s), {i \in DOMAIN s : keep(i)})
  IN  [i \in DOMAIN kept |-> IF Space(s[kept[i]]) THEN <<"s", 0>> ELSE s[kept[i]]]

\* The lines of a text; a newline ends a line, and nothing follows the last.
LineFrom(s, b) ==
  SubSeq(s, b, Min({Len(s)} \cup {i - 1 : i \in {i \in b..Len(s) : s[i][1] = "n"}}))
Lines(s) ==
  LET starts == InOrder(Len(s), {1} \cup {i + 1 : i \in {i \in DOMAIN s : s[i][1] = "n"}})
  IN  [k \in DOMAIN starts |-> LineFrom(s, starts[k])]

Width(s) == Max({0} \cup {Len(Trimmed(line)) : line \in Range(Lines(s))})

----------------------------------------------------------------------------
\* DrawTextBuf: `mods` is a sequence of <<offset, attribute>>; `frag` is the
\* offset of the fragment, zero when there is none.

EmptyBuf == [s |-> <<>>, mods |-> <<>>, frag |-> 0, trim |-> 0]

View(b)     == SubSeq(b.s, b.trim + 1, Len(b.s))
BufWidth(b) == Width(View(b))
Write(b, s) == [b EXCEPT !.s = @ \o s]
Mod(b, off, code) == [b EXCEPT !.mods = Append(@, <<off, code>>)]

Displaced(mods, off) == [i \in DOMAIN mods |-> <<mods[i][1] + off, mods[i][2]>>]

(* Mutant: the attributes are moved by a length that has the part in it.   *)
AppendSub_late(b, sub) ==
  [b EXCEPT !.s    = @ \o View(sub),
            !.mods = @ \o Displaced(sub.mods, Len(b.s \o View(sub))),
            !.frag = IF sub.frag # 0 THEN Len(b.s) + sub.frag ELSE @]

\* A part is appended without what its trim hides; its fragment is not moved.
AppendSub(b, sub) ==
  [b EXCEPT !.s    = @ \o View(sub),
            !.mods = @ \o Displaced(sub.mods, Len(b.s)),
            !.frag = IF sub.frag # 0 THEN Len(b.s) + sub.frag ELSE @]

\* On the left the text stays and is hidden, on the right it is cut; the bound
\* of the attributes is the length of the text with what is hidden.
TrimBuf(b) ==
  LET left == LeftSpaces(b.s)
      s    == CutRight(b.s)
      moved(off) == IF off < left THEN 0 ELSE off - left
  IN  [b EXCEPT !.s    = s,
                !.trim = left,
                !.mods = [i \in DOMAIN b.mods |->
                            <<Min({Len(s), moved(b.mods[i][1])}), b.mods[i][2]>>]]

LastIsGraph(b)   == b.s # <<>> /\ Graph(Last(b.s))
NeedsSpace(b)    == b.s # <<>> /\ ~Space(Last(b.s)) /\ ~Punct(Last(b.s))
EndsWithNewline(b) == View(b) = <<>> \/ Last(View(b))[1] = "n"
=============================================================================
