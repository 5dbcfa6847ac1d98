------------------------------- MODULE Render -------------------------------
(***************************************************************************)
(* The drawing of a page: htmldoc.c from draw_rec to htmldoc_draw, and     *)
(* draw_tag_table.  A page `d` is a function from nodes, numbered in the   *)
(* order of the document, to [tag, kids, text, at]: `at` holds the         *)
(* attributes the node has.                                                *)
(*                                                                         *)
(* The walk takes and returns a state: the page (drawing a form changes    *)
(* it), the settings, the node named by the fragment, the attributes in    *)
(* force, the lists of numbered elements, the boxes ticked, the buffer and *)
(* the error.  `lost` is not in the code: it says that an error was        *)
(* swallowed with the text drawn before it.                                *)
(***************************************************************************)
EXTENDS Tables, Functions, TLC

Unexpected == "unexpected tag in table"
NotACell   == "error: expecting either th or td"
EmptyStack == "error: empty stack"

Attr(d, n, a)  == IF a \in DOMAIN d[n].at THEN d[n].at[a] ELSE ""
Has(d, n, a)   == a \in DOMAIN d[n].at
Elements(d, s) == SelectSeq(s, LAMBDA k : d[k].tag # "#text")
SkipText(d, s) == LET first == {i \in DOMAIN s : d[s[i]].tag # "#text"}
                  IN  IF first = {} THEN <<>> ELSE SubSeq(s, Min(first), Len(s))
Chars(d, n)    == [i \in DOMAIN d[n].text |-> <<d[n].text[i], n>>]

\* The previous sibling of a node, zero if it has none.
Prev(d, n) == LET up == {<<p, i>> \in UNION {{p} \X DOMAIN d[p].kids : p \in DOMAIN d} :
                            d[p].kids[i] = n /\ i > 1}
              IN  IF up = {} THEN 0 ELSE LET pi == CHOOSE pi \in up : TRUE
                                         IN  d[pi[1]].kids[pi[2] - 1]

----------------------------------------------------------------------------
\* What every drawing is made of.  After an error nothing more is written.

Put(x, s)          == IF x.e # Ok THEN x ELSE [x EXCEPT !.b = Write(@, s)]
Lit(x, classes)    == Put(x, [i \in DOMAIN classes |-> <<classes[i], 0>>])
Effect(x, code)    == IF x.e # Ok \/ ~x.conf.color THEN x
                      ELSE [x EXCEPT !.b = Mod(@, Len(@.s), code)]
PushMod(x, code)   == LET y == Effect(x, code)
                      IN  IF x.e # Ok \/ ~x.conf.color THEN x
                          ELSE [y EXCEPT !.stack = Append(@, code)]
(* Mutant: the attribute of the element around is not put back.            *)
ResetMod_alone(x) ==
  LET y == Effect(x, "reset")
  IN  IF x.e # Ok \/ ~x.conf.color THEN x
      ELSE IF x.stack = <<>> THEN [y EXCEPT !.e = EmptyStack]
      ELSE [y EXCEPT !.stack = Front(@)]

ResetMod(x) ==
  LET y == Effect(x, "reset")
  IN  IF x.e # Ok \/ ~x.conf.color THEN x
      ELSE IF x.stack = <<>> THEN [y EXCEPT !.e = EmptyStack]
      ELSE LET z == [y EXCEPT !.stack = Front(@)]
           IN  IF z.stack = <<>> THEN z ELSE Effect(z, Last(z.stack))

\* An element is numbered by the length of its list, before it is there.
Enlist(x, list, n) == [x EXCEPT !.lists[list] = Append(@, n)]
Number(x, list, n) == Put(x, << <<"#", list, Len(x.lists[list]), n>> >>)

SpaceAfterGraph(x, n) == IF Prev(x.d, n) # 0 /\ LastIsGraph(x.b) THEN Put(x, SP) ELSE x

RECURSIVE Draw(_, _)
Kids(n, x) == FoldLeft(LAMBDA y, k : IF y.e # Ok THEN y ELSE Draw(k, y), x, x.d[n].kids)

\* The children drawn in a buffer of their own, and what becomes of it.
Apart(n, x)      == Kids(n, [x EXCEPT !.b = EmptyBuf])
Back(x, y)       == [y EXCEPT !.b = x.b]
Swallow(x, y)    == [y EXCEPT !.b = x.b, !.e = Ok, !.lost = TRUE]
Join(x, y, sub)  == [y EXCEPT !.b = AppendSub(x.b, sub)]

\* A block is drawn between two newlines, or not at all: its error goes no further.
Block(n, x) ==
  LET y == Apart(n, x)
  IN  IF y.e # Ok THEN Swallow(x, y)
      ELSE IF y.b.s = <<>> THEN Back(x, y)
      ELSE Put(Join(Put(x, NL), y, y.b), NL)

----------------------------------------------------------------------------
\* Text: as written in a pre, and elsewhere its words, after a space if the first
\* does not begin with punctuation and follows something visible.

DrawText(n, x) ==
  LET t     == Chars(x.d, n)
      words == Squeeze(t)
      space == ~Punct(words[1]) /\ LastIsGraph(x.b)
  IN  IF x.pre THEN Put(x, t)
      ELSE IF words = <<>> THEN x
      ELSE Put(IF space THEN Put(x, SP) ELSE x, words)

\* Elements that only change the attributes or the spaces around their children.
DrawB(n, x)      == Put(ResetMod(Kids(n, Put(PushMod(SpaceAfterGraph(x, n), "bold"), SP))), SP)
DrawEm(n, x)     == ResetMod(Kids(n, PushMod(SpaceAfterGraph(x, n), "underline")))
DrawI(n, x)      == Put(ResetMod(Kids(n, Put(PushMod(x, "italic"), SP))), SP)
DrawStrong(n, x) == Kids(n, SpaceAfterGraph(x, n))
DrawBr(n, x)     == Kids(n, Put(x, NL))
DrawQuote(n, x)  == Put(Block(n, Put(x, P(2))), P(2))

DrawDiv(n, x) ==
  LET y == Apart(n, x)
  IN  IF y.e # Ok \/ y.b.s = <<>> THEN Back(x, y)
      ELSE Join(IF x.b.s # <<>> THEN Put(x, NL) ELSE x, y, y.b)

DrawLi(n, x) ==
  LET y   == Apart(n, x)
      sub == TrimBuf(y.b)
  IN  IF y.e # Ok THEN Swallow(x, y)
      ELSE IF sub.s = <<>> THEN Back(x, y)
      ELSE Put(Join(Lit(x, <<"s", "p", "s">>), y, sub), NL)

\* The children of a heading are drawn before it is made bold.
DrawH(n, x) ==
  LET y    == Block(n, [x EXCEPT !.b = EmptyBuf])
      sub  == TrimBuf(y.b)
      open == Lit(PushMod(Back(x, y), "bold"), <<"n", "p", "s">>)
  IN  Put(ResetMod(IF sub.s = <<>> THEN open ELSE Join(open, open, sub)), NL)

DrawCode(n, x) ==
  LET y     == Apart(n, x)
      lines == \E i \in DOMAIN y.b.s : y.b.s[i][1] = "n"
      open  == IF lines THEN <<"n", "p", "w", "p", "n">> ELSE <<"s", "p">>
      close == IF lines THEN <<"n", "p", "n">> ELSE <<"p", "s">>
  IN  IF y.e # Ok THEN Back(x, y) ELSE Lit(Join(Lit(x, open), y, y.b), close)

\* A pre inside another one ends both.
DrawPre(n, x) == [Block(n, [x EXCEPT !.pre = TRUE]) EXCEPT !.pre = FALSE]

----------------------------------------------------------------------------
\* Numbered elements.

\* A link is drawn apart with blue in force, and opened when its text is known.
DrawA(n, x) ==
  LET y     == Apart(n, [Enlist(x, "a", n) EXCEPT
                           !.stack = IF x.conf.color THEN Append(@, "blue") ELSE @])
      sub   == TrimBuf(y.b)
      prev  == Prev(x.d, n)
      space == NeedsSpace(x.b) /\ prev # 0 /\ x.d[prev].tag # "li"
      z     == Effect(IF space THEN Put(Back(x, y), SP) ELSE Back(x, y), "blue")
      open  == Put(Put(Put(z, P(1)), << <<"#", "a", Len(x.lists["a"]), n>> >>), P(1))
  IN  IF ~Has(x.d, n, "href") THEN Kids(n, x)
      ELSE IF y.e # Ok THEN Back(x, y)
      ELSE ResetMod(Put(IF sub.s = <<>> THEN open ELSE Join(open, open, sub), P(1)))

DrawImg(n, x) ==
  LET open == Enlist(Put(Number(Put(PushMod(x, "light green"), P(1)), "img", n), P(1)), "img", n)
  IN  ResetMod(Kids(n, Put(open, IF Has(x.d, n, "alt") THEN << <<"w", 0>> >> ELSE <<>>)))

(* Mutant: the number is written once the element is in its list.          *)
OpenInput_late(n, x, sep) ==
  Put(Number(Enlist(Put(PushMod(x, "red"), P(1)), "inp", n), "inp", n), sep)

OpenInput(n, x, sep) ==
  Put(Enlist(Number(Put(PushMod(x, "red"), P(1)), "inp", n), "inp", n), sep)
CloseInput(x) == ResetMod(Put(x, P(1)))

DrawButton(n, x) == CloseInput(Kids(n, OpenInput(n, x, P(1))))

TextLike == {"", "text", "search", "email", "url", "tel"}
Value(d, n) == IF Attr(d, n, "value") = "" THEN <<>> ELSE << <<"v", Attr(d, n, "value"), n>> >>

\* A box is drawn as it was ticked; the first drawing ticks it as the page says.
DrawInput(n, x) ==
  LET type  == Attr(x.d, n, "type")
      boxes == IF n \in DOMAIN x.boxes THEN x.boxes ELSE x.boxes @@ (n :> Has(x.d, n, "checked"))
      mark(on) == << <<IF on THEN "on" ELSE "off", n>> >>
      y     == OpenInput(n, x, <<>>)
  IN  CASE type = "hidden"   -> x
        [] type = "submit"   -> CloseInput(Put(y, (IF Value(x.d, n) = <<>> THEN <<>> ELSE P(1))
                                                  \o Value(x.d, n)))
        [] type \in TextLike -> CloseInput(Put(Put(y, P(1)), Value(x.d, n)))
        [] type = "password" -> CloseInput(Put(y, P(2)))
        [] type = "checkbox" -> CloseInput(Put([y EXCEPT !.boxes = boxes], mark(boxes[n])))
        [] type = "radio"    -> CloseInput(Put(y, mark(Has(x.d, n, "checked"))))
        [] OTHER             -> CloseInput(Lit(y, <<"p", "w", "s", "w", "s", "w", "s", "w", "p">>))

\* The option shown is the first that is selected, or else the first child.
DrawSelect(n, x) ==
  LET kids == x.d[n].kids
      sel  == {i \in DOMAIN kids : x.d[kids[i]].tag = "option" /\ Has(x.d, kids[i], "selected")}
      kid  == kids[IF sel = {} THEN 1 ELSE Min(sel)]
      texts == FlattenSeq([i \in DOMAIN x.d[kid].kids |-> Chars(x.d, x.d[kid].kids[i])])
  IN  IF kids = <<>> THEN x ELSE CloseInput(Put(OpenInput(n, x, P(2)), texts))

----------------------------------------------------------------------------
\* Forms: of the radio buttons with a name only the last ticked stays so.

RECURSIVE Under(_, _)
Under(d, n) == {n} \cup UNION {Under(d, d[n].kids[i]) : i \in DOMAIN d[n].kids}

Radios(d, form) == {n \in Under(d, form) : d[n].tag = "input" /\ Attr(d, n, "type") = "radio"}
Without(d, ns, a) ==
  [n \in DOMAIN d |-> IF n \in ns THEN [d[n] EXCEPT !.at = Restrict(@, DOMAIN @ \ {a})] ELSE d[n]]

check_radio_buttons_in_form(d, form) ==
  LET ticked  == {n \in Radios(d, form) : Has(d, n, "checked")}
      earlier == {n \in ticked : \E k \in ticked : k > n /\ Attr(d, k, "name") = Attr(d, n, "name")}
  IN  Without(d, earlier, "checked")

\* The number of a form is its place counted from one.
DrawForm(n, x) ==
  LET y    == Enlist([x EXCEPT !.d = check_radio_buttons_in_form(x.d, n)], "form", n)
      open == ResetMod(Put(Number(Put(PushMod(y, "purple"), P(1)), "form", n), P(1)))
      z    == Block(n, IF x.conf.forms THEN open ELSE y)
  IN  IF x.conf.forms THEN ResetMod(Lit(PushMod(z, "purple"), <<"u">>)) ELSE z

----------------------------------------------------------------------------
\* Tables are read row by row, every cell drawn in its own buffer.

\* A cell that spans others is followed by empty ones.
ReadCell(t, n) ==
  LET y     == Apart(n, t.x)
      s     == IF Has(t.x.d, n, "colspan") THEN t.x.d[n].at["colspan"] ELSE 0
      r     == Len(t.table) + 1
      c     == Len(t.row) + 1
      spans == IF s <= 1 THEN <<>>
               ELSE [rc \in {r} \X (c..c + s - 1) |-> IF rc[2] = c THEN s ELSE 0]
  IN  [t EXCEPT !.x    = y,
                !.row  = @ \o <<TrimBuf(y.b)>> \o [i \in 1..Max({0, s - 1}) |-> EmptyBuf],
                !.span = @ @@ spans]

Fails(t, e) == [t EXCEPT !.x.e = e]

ReadRow(t, tr) ==
  LET cell(u, n) == IF u.x.e # Ok THEN u
                    ELSE IF t.x.d[n].tag \in {"td", "th"} THEN ReadCell(u, n)
                    ELSE Fails(u, NotACell)
      u == FoldLeft(cell, [t EXCEPT !.row = <<>>], Elements(t.x.d, t.x.d[tr].kids))
  IN  IF t.x.e # Ok THEN t
      ELSE IF t.x.d[tr].tag # "tr" THEN Fails(t, Unexpected)
      ELSE IF u.x.e # Ok THEN u
      ELSE [u EXCEPT !.table = Append(@, u.row)]

ReadPart(t, n) ==
  LET aside == Draw(n, [t.x EXCEPT !.b = t.aside, !.msgs = Append(@, Unexpected)])
  IN  CASE t.x.e # Ok -> t
        [] t.x.d[n].tag \in {"thead", "tbody", "tfoot"} ->
             FoldLeft(ReadRow, t, Elements(t.x.d, t.x.d[n].kids))
        [] t.x.d[n].tag = "colgroup" -> t
        [] OTHER -> [t EXCEPT !.x = aside, !.aside = aside.b]

ReadTable(x, parts) ==
  FoldLeft(ReadPart, [x |-> x, table |-> <<>>, row |-> <<>>, span |-> <<>>, aside |-> EmptyBuf],
           Elements(x.d, parts))

LaidOut(t, laid)         == [t.x EXCEPT !.b = laid.b, !.e = laid.e]
DrawRead(x, caption, t)  ==
  IF t.x.e # Ok THEN Back(x, t.x)
  ELSE LaidOut(t, LayOut(x.b, t.table, t.span, caption, t.aside, x.conf.ncols))
DrawCaptioned(x, y, parts) == DrawRead(x, y.b, ReadTable(y, parts))

draw_tag_table_impl(n, x) ==
  LET kids == SkipText(x.d, x.d[n].kids)
      y    == [x EXCEPT !.b = EmptyBuf]
  IN  IF kids = <<>> THEN x
      ELSE IF x.d[kids[1]].tag = "caption" THEN DrawCaptioned(x, Draw(kids[1], y), Tail(kids))
      ELSE DrawCaptioned(x, y, kids)

\* A table that is not well made or does not fit is drawn again, as its children.
OrAsKids(n, y) ==
  IF y.e \in {Unexpected, Unfit} THEN Kids(n, [y EXCEPT !.e = Ok, !.msgs = Append(@, y.e)]) ELSE y
DrawTable(n, x) == OrAsKids(n, draw_tag_table_impl(n, x))

----------------------------------------------------------------------------
Headings == {"h1", "h2", "h3", "h4", "h5", "h6"}

DrawTag(n, x) ==
  LET tag == x.d[n].tag
  IN  CASE tag = "a"          -> DrawA(n, x)
        [] tag = "b"          -> DrawB(n, x)
        [] tag = "blockquote" -> DrawQuote(n, x)
        [] tag = "br"         -> DrawBr(n, x)
        [] tag = "button"     -> DrawButton(n, x)
        [] tag \in {"code", "tt"} -> DrawCode(n, x)
        [] tag = "div"        -> DrawDiv(n, x)
        [] tag \in {"dl", "dt", "ol", "p", "ul"} -> Block(n, x)
        [] tag = "em"         -> DrawEm(n, x)
        [] tag = "form"       -> DrawForm(n, x)
        [] tag \in Headings   -> DrawH(n, x)
        [] tag = "i"          -> DrawI(n, x)
        [] tag = "input"      -> DrawInput(n, x)
        [] tag \in {"image", "img"} -> DrawImg(n, x)
        [] tag = "li"         -> DrawLi(n, x)
        [] tag \in {"meta", "script", "style", "title"} -> x
        [] tag = "pre"        -> DrawPre(n, x)
        [] tag = "select"     -> DrawSelect(n, x)
        [] tag = "table"      -> DrawTable(n, x)
        [] tag = "tr"         -> Kids(n, Put(x, NL))
        [] tag \in {"time", "samp", "strong", "var"} -> DrawStrong(n, x)
        [] OTHER              -> Kids(n, x)

\* The last element drawn whose id is the fragment says where it is.
Draw(n, x) ==
  IF x.d[n].tag = "#text" THEN DrawText(n, x)
  ELSE DrawTag(n, IF n = x.frag THEN [x EXCEPT !.b.frag = Len(x.b.s)] ELSE x)

NoLists == [list \in {"a", "img", "inp", "form", "script"} |-> <<>>]

\* A page drawn from its root.  On an error the text is the one there was.
Drawn(x, text) ==
  [d    |-> x.d,
   page |-> [lists |-> IF x.e # Ok THEN x.lists
                       ELSE [x.lists EXCEPT !["script"] =
                               @ \o InOrder(Len(x.d), {n \in DOMAIN x.d : x.d[n].tag = "script"})],
             boxes |-> x.boxes, lost |-> x.lost, e |-> x.e, msgs |-> x.msgs,
             text  |-> IF x.e = Ok /\ x.b.s # <<>> THEN x.b ELSE text,
             stack |-> x.stack]]

htmldoc_draw_with_flags(d, conf, frag, page) ==
  Drawn(Draw(1, [d |-> d, conf |-> conf, frag |-> frag, stack |-> <<>>, pre |-> FALSE,
                 lists |-> page.lists, boxes |-> page.boxes, msgs |-> <<>>,
                 b |-> EmptyBuf, lost |-> FALSE, e |-> Ok]),
        page.text)

\* Drawn again: the lists and the text are emptied, the boxes are kept.
htmldoc_reset_draw(page) == [page EXCEPT !.lists = NoLists, !.text = EmptyBuf]
=============================================================================
