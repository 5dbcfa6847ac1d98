----------------------------- MODULE DrawnPage -----------------------------
(***************************************************************************)
(* A page on the screen and the commands on it: the settings that change   *)
(* how it is drawn, `draw`, and the commands on inputs, `{N`, `{N=value`,   *)
(* which change the page and draw it again, or send a form (cmd.c,         *)
(* request.c, dom.c).                                                      *)
(***************************************************************************)
EXTENDS Render

CONSTANTS Documents,    \* the pages that can be fetched: [d, frag, ncols]
          Values,       \* what can be typed as a value
          PrefixOf,     \* the pairs <<line, value>>, a line that begins a value
          Secure,       \* whether the page came by https
          MaxSettings   \* bound: the settings changed after the page is drawn

VARIABLES dom,          \* the page
          frag,         \* the node its url names, zero if none
          conf,         \* the settings of the session that drawing reads
          page,         \* what drawing it left: text, lists, boxes
          sent,         \* what the last command sent: the form, its error, its fields
          told,         \* the error of the last command
          settings      \* the settings changed so far

vars == <<dom, frag, conf, page, sent, told, settings>>

NoPage == [lists |-> NoLists, boxes |-> <<>>, lost |-> FALSE, e |-> "not drawn", msgs |-> <<>>,
           text |-> EmptyBuf, stack |-> <<>>]
NotSent == [form |-> 0, e |-> Ok, fields |-> <<>>]

\* A page that was fetched, and is not drawn yet.
Init ==
  \E doc \in Documents :
    /\ dom = doc.d
    /\ frag = doc.frag
    /\ conf = [color |-> TRUE, forms |-> FALSE, ncols |-> doc.ncols]
    /\ page = NoPage
    /\ sent = NotSent
    /\ told = Ok
    /\ settings = 0

----------------------------------------------------------------------------
\* What a command leaves: the page, its boxes, whether they are to be drawn again,
\* the error and the form sent.
Unchanged     == [d |-> dom, boxes |-> page.boxes, draw |-> FALSE, e |-> Ok, sent |-> NotSent]
Redraw(d, boxes) == [Unchanged EXCEPT !.d = d, !.boxes = boxes, !.draw = TRUE]
Refuse(e)     == [Unchanged EXCEPT !.e = e]

Become(drawn) == dom' = drawn.d /\ page' = drawn.page /\ told' = drawn.page.e
session_doc_draw(d, boxes) ==
  \E drawn \in {htmldoc_draw_with_flags(d, conf, frag,
                                        htmldoc_reset_draw([page EXCEPT !.boxes = boxes]))} :
    Become(drawn)

Leave(o) ==
  /\ sent' = o.sent
  /\ UNCHANGED <<frag, conf, settings>>
  /\ \/ o.draw /\ session_doc_draw(o.d, o.boxes)
     \/ ~o.draw /\ dom' = o.d /\ told' = o.e /\ UNCHANGED page

\* `set monochrome`, `set forms`: nothing is drawn until it is asked for.
cmd_set(field) ==
  /\ settings < MaxSettings
  /\ settings' = settings + 1
  /\ conf' = [conf EXCEPT ![field] = ~@]
  /\ told' = Ok
  /\ sent' = NotSent
  /\ UNCHANGED <<dom, frag, page>>

cmd_doc_draw ==
  session_doc_draw(dom, page.boxes) /\ sent' = NotSent /\ UNCHANGED <<frag, conf, settings>>

ParentForm(n) == LET forms == {f \in DOMAIN dom : dom[f].tag = "form" /\ n \in Under(dom, f)}
                 IN  IF forms = {} THEN 0 ELSE Max(forms)
WithAttr(d, n, a, v) == [d EXCEPT ![n].at = (a :> v) @@ @]

cmd_toggle_checkbox(n) ==
  IF n \notin DOMAIN page.boxes THEN Refuse("error: could not find input checkbox node")
  ELSE Redraw(dom, [page.boxes EXCEPT ![n] = ~@])

mark_radio_button(n) ==
  LET form  == ParentForm(n)
      named == {k \in Radios(dom, form) : Attr(dom, k, "name") = Attr(dom, n, "name")}
  IN  IF form = 0 THEN dom ELSE WithAttr(Without(dom, named, "checked"), n, "checked", "yes")

cmd_change_radio(n) == Redraw(mark_radio_button(n), page.boxes)

\* The value typed, in the line or, if it had none, without showing it.
_cmd_input_text_set_(n, v) == Redraw(WithAttr(dom, n, "value", v), page.boxes)

\* Every option is left unselected before it is known that only one begins so.
_cmd_input_select_set_(n, v) ==
  LET options == {k \in Range(dom[n].kids) : dom[k].tag = "option"}
      matches == {k \in options : Has(dom, k, "value") /\ <<v, Attr(dom, k, "value")>> \in PrefixOf}
      none    == Without(dom, options, "selected")
      fails(e) == [Refuse(e) EXCEPT !.d = none]
  IN  CASE matches = {} -> fails("no matches")
        [] Cardinality(matches) = 1 ->
             Redraw(WithAttr(none, CHOOSE k \in matches : TRUE, "selected", "yes"), page.boxes)
        [] OTHER -> fails("amiguous input")

cmd_input_set_node(n, v) ==
  LET type == Attr(dom, n, "type")
  IN  CASE dom[n].tag = "select" -> _cmd_input_select_set_(n, v)
        [] dom[n].tag # "select" /\ type \in TextLike \cup {"password"} -> _cmd_input_text_set_(n, v)
        [] OTHER -> Refuse("input set not supported for element")

----------------------------------------------------------------------------
\* The fields of a form, in the order of the document.

Field(r, name, value) == [r EXCEPT !.fields = Append(@, <<name, value>>)]
Failed(r, e)          == [r EXCEPT !.e = e]

\* The last option selected is sent, if it has a value.
_request_append_select_(r, n) ==
  LET kids == dom[n].kids
      sel  == {k \in Range(kids) : dom[k].tag = "option" /\ Has(dom, k, "selected")}
      v    == Attr(dom, Max(sel), "value")
  IN  IF Attr(dom, n, "name") = "" \/ sel = {} \/ v = "" THEN r
      ELSE Field(r, Attr(dom, n, "name"), v)

_request_append_name_value_(r, n) ==
  LET name == Attr(dom, n, "name")
      v    == Attr(dom, n, "value")
  IN  IF name = "" \/ v = "" THEN r
      ELSE IF name = "password" /\ r.method # "post" THEN Failed(r, "warn: only use post method")
      ELSE IF name = "password" /\ ~Secure THEN Failed(r, "warn: passwords allowed only under https")
      ELSE Field(r, name, v)

(* Mutant: a box is sent as the page has it.                               *)
AppendCheckbox_page(r, n) ==
  IF ~Has(dom, n, "checked") \/ Attr(dom, n, "name") = "" THEN r
  ELSE Field(r, Attr(dom, n, "name"),
             IF Attr(dom, n, "value") = "" THEN "on" ELSE Attr(dom, n, "value"))

\* A box is sent as it was ticked, not as the page says.
AppendCheckbox(r, n) ==
  LET name == Attr(dom, n, "name")
      v    == Attr(dom, n, "value")
  IN  IF n \notin DOMAIN page.boxes THEN Failed(r, "error: could not find input checkbox node")
      ELSE IF ~page.boxes[n] \/ name = "" THEN r
      ELSE Field(r, name, IF v = "" THEN "on" ELSE v)

RECURSIVE request_from_form_node__rec_(_, _)
request_from_form_node__rec_(r, n) ==
  LET type == Attr(dom, n, "type")
  IN  CASE r.e # Ok \/ dom[n].tag = "form" -> r
        [] dom[n].tag = "select" -> _request_append_select_(r, n)
        [] dom[n].tag = "input" ->
             CASE type = "submit" \/ (type = "radio" /\ ~Has(dom, n, "checked")) -> r
               [] type = "checkbox" -> AppendCheckbox(r, n)
               [] OTHER -> _request_append_name_value_(r, n)
        [] OTHER -> FoldLeft(request_from_form_node__rec_, r, dom[n].kids)

request_from_form_node(form) ==
  LET method == IF Attr(dom, form, "method") = "" THEN "get" ELSE Attr(dom, form, "method")
      r      == [form |-> form, e |-> Ok, fields |-> <<>>, method |-> method]
      filled == IF method \notin {"get", "post"} THEN Failed(r, "unsupported method in form")
                ELSE FoldLeft(request_from_form_node__rec_, r, dom[form].kids)
  IN  [form |-> form, e |-> filled.e, fields |-> IF filled.e = Ok THEN filled.fields ELSE <<>>]

Send(request) == [Refuse(request.e) EXCEPT !.sent = request]
Submit(n)     == IF ParentForm(n) = 0 THEN Refuse("expected form, not found")
                 ELSE Send(request_from_form_node(ParentForm(n)))

----------------------------------------------------------------------------
Submits(n) == Attr(dom, n, "type") = "submit" \/ (dom[n].tag = "button" /\ ~Has(dom, n, "type"))

\* The command of an input alone: what it does depends on the input.
cmd_input_default_node(n) ==
  LET type == Attr(dom, n, "type")
  IN  CASE dom[n].tag \in {"input", "button"} /\ Submits(n) -> Submit(n)
        [] dom[n].tag = "input" /\ type = "checkbox" -> cmd_toggle_checkbox(n)
        [] dom[n].tag = "input" /\ type = "radio"    -> cmd_change_radio(n)
        [] dom[n].tag = "select" -> Refuse(Ok)
        [] OTHER -> Refuse("invalid input node for command")

\* A command is of the node that has its number in the list of the last drawing.
InputCommand ==
  \E n \in Range(page.lists["inp"]) :
    \E o \in {cmd_input_default_node(n)} \cup {cmd_input_set_node(n, v) : v \in Values} : Leave(o)

Next ==
  \/ cmd_doc_draw
  \/ InputCommand
  \/ \E field \in {"color", "forms"} : cmd_set(field)

Spec == Init /\ [][Next]_vars

----------------------------------------------------------------------------
\* What the properties say of the text.

Ink         == {i \in DOMAIN page.text.s : page.text.s[i][1] \in {"w", "p"} /\ page.text.s[i][2] # 0}
NodeOf(i)   == page.text.s[i][2]
Above(n)    == {p \in DOMAIN dom : n \in Under(dom, p)}
InTag(n, tags) == \E p \in Above(n) : dom[p].tag \in tags

\* The pages and their boxes stay what they are, and the lists name their nodes.
TypeOK ==
  /\ \A n \in DOMAIN dom : Range(dom[n].kids) \subseteq DOMAIN dom
  /\ \A list \in DOMAIN page.lists : Range(page.lists[list]) \subseteq DOMAIN dom
  /\ DOMAIN page.boxes \subseteq DOMAIN dom
  /\ \A m \in Range(page.text.mods) : m[1] \in 0..Len(page.text.s)
  /\ settings \in 0..MaxSettings

\* The number drawn beside an element is the one commands name it by: whatever
\* was drawn apart, trimmed, thrown away or drawn twice (htmldoc.c:1351).
NumbersName ==
  \A ch \in Range(page.text.s) :
    ch[1] = "#" /\ ch[2] # "form" =>
      /\ ch[3] < Len(page.lists[ch[2]])
      /\ page.lists[ch[2]][ch[3] + 1] = ch[4]

\* The attribute in force where a character is drawn.
InForce(i) == LET upto == SelectSeq(page.text.mods, LAMBDA m : m[1] < i)
              IN  IF upto = <<>> THEN "reset" ELSE Last(upto)[2]
OwnMod(p) == CASE dom[p].tag = "a" /\ Has(dom, p, "href") -> "blue"
               [] dom[p].tag = "b"                 -> "bold"
               [] dom[p].tag = "em"                -> "underline"
               [] dom[p].tag = "i"                 -> "italic"
               [] dom[p].tag = "img"               -> "light green"
               [] dom[p].tag \in {"button", "select"} -> "red"
               [] OTHER                            -> "reset"
Innermost(n) == LET mods == {p \in Above(n) : OwnMod(p) # "reset"}
                IN  IF mods = {} THEN "reset" ELSE OwnMod(Max(mods))

LosesMod(n) ==
  \/ InTag(n, Headings)
  \/ \E p \in Above(n) : OwnMod(p) # "reset" /\ \E t \in Under(dom, p) : dom[t].tag = "table"

\* Every character of the page has the attribute of the innermost element that
\* gives one, and no other, and at the end none is in force (htmldoc.c:282): but in
\* headings, and in elements that hold a table, each line of which ends them all.
ColourRight ==
  ~page.lost /\ page.e = Ok =>
    /\ page.stack = <<>>
    /\ (\E m \in Range(page.text.mods) : m[2] # "reset") =>
         \A i \in Ink : ~LosesMod(NodeOf(i)) => InForce(i) = Innermost(NodeOf(i))

\* The words of a text that fill more than the narrowest column: where they do.
Inked(n)     == {i \in DOMAIN dom[n].text : dom[n].text[i] \in {"w", "p"}}
LongWords(n) == {i \in Inked(n) : (i - MIN_COL_WIDTH)..i \subseteq Inked(n)}

\* A text of a table may be broken within a word if it has a long one, or is not
\* all there is in its cell.
Alone(n)  == \E c \in Above(n) : dom[c].tag \in {"td", "th"} /\ Under(dom, c) = {c, n}
Breaks(n) == InTag(n, {"table"}) /\ (LongWords(n) # {} \/ ~Alone(n))

\* The text of a page is drawn whole and once: none is left out, and what is drawn
\* a second time, when a table does not fit, was not left there by the first.  But
\* where a word does not fit its column the break takes the place of a character
\* (htmldoc.c:1676): of one in as many as the narrowest column has, and of none
\* where the words are not so long.  Of tables in tables only the once is said.
TextOnce ==
  \A n \in {n \in DOMAIN dom : dom[n].tag = "#text" /\ ~InTag(n, {"script", "title", "select"})} :
    LET times  == Cardinality({i \in Ink : NodeOf(i) = n})
        broken == IF Breaks(n) THEN (Len(dom[n].text) + MIN_COL_WIDTH) \div (MIN_COL_WIDTH + 1) ELSE 0
        tables == {t \in Above(n) : dom[t].tag = "table"}
    IN  /\ times <= Cardinality(Inked(n))
        /\ page.e = Ok /\ ~page.lost /\ Cardinality(tables) <= 1
             => times >= Cardinality(Inked(n)) - broken

----------------------------------------------------------------------------
Shown(n)   == {page.text.s[i] : i \in {i \in DOMAIN page.text.s :
                                         /\ page.text.s[i][1] \in {"on", "v"}
                                         /\ Last(page.text.s[i]) = n}}
Ticked(n)  == <<"on", n>> \in Shown(n)
Named(n)   == Attr(dom, n, "name")
Options(n) == {k \in Range(dom[n].kids) : dom[k].tag = "option"}
Seen(n)    == {k \in Options(n) : \E i \in Ink : NodeOf(i) \in Under(dom, k)}
Selected(n) == {k \in Options(n) : Has(dom, k, "selected")}

\* Of the radio buttons of a form that have a name, only one is drawn ticked,
\* whatever the page said and whichever were chosen since (dom.c:263).
RadiosOnce ==
  \A form \in Range(page.lists["form"]) : \A n, k \in Radios(dom, form) :
    Named(n) = Named(k) /\ Ticked(n) /\ Ticked(k) => n = k

\* What a form sends is what the screen shows: the boxes and the buttons ticked, the
\* values, the option of a select; but for the selects the page or a line that
\* named no option left with no option, or with more, selected (cmd.c:570).
SentAsShown ==
  sent.form # 0 /\ sent.e = Ok =>
    LET fields == Range(sent.fields)
        Sends(n, v) == <<Named(n), v>> \in fields
    IN  \A n \in Range(page.lists["inp"]) \cap Under(dom, sent.form) :
          Named(n) # "" =>
            CASE dom[n].tag = "select" ->
                   Cardinality(Selected(n)) = 1 =>
                     \A k \in Options(n) : Sends(n, Attr(dom, k, "value")) <=> k \in Seen(n)
              [] Attr(dom, n, "type") = "checkbox" ->
                   Sends(n, IF Has(dom, n, "value") THEN Attr(dom, n, "value") ELSE "on") <=> Ticked(n)
              [] Attr(dom, n, "type") = "radio" -> Sends(n, Attr(dom, n, "value")) <=> Ticked(n)
              [] Attr(dom, n, "type") \in TextLike ->
                   \A v \in Values : Sends(n, v) <=> <<"v", v, n>> \in Shown(n)
              [] OTHER -> TRUE

\* A form is drawn in a state it may be in, and sent in the state it is drawn in.
FormsRight == RadiosOnce /\ SentAsShown

----------------------------------------------------------------------------
\* The place of a character on the screen, and of a cell in its table.
Newlines    == {i \in DOMAIN page.text.s : page.text.s[i][1] = "n"}
ColumnOf(i) == i - Max({0} \cup {k \in Newlines : k < i})
SpanOf(n)   == IF Has(dom, n, "colspan") THEN dom[n].at["colspan"] ELSE 1
PlainTable(t) == \A n \in Under(dom, t) : dom[n].tag \in {"table", "tbody", "tr", "td", "#text"}
CellsOf(t)  == {n \in Under(dom, t) : dom[n].tag = "td"}
Before(n)   == LET row == CHOOSE p \in DOMAIN dom : n \in Range(dom[p].kids)
               IN  {k \in Range(dom[row].kids) : k < n /\ dom[k].tag = "td"}
FirstCol(n) == 1 + MapThenSumSet(SpanOf, Before(n))

\* The cells of n's row, up to it, a break of which may be put before a space, in
\* place of the last character of a part of a word: the space is then drawn, but not
\* counted in the width of its line (htmldoc.c:1676, 2114).
Splits(n)  == {k \in Before(n) \cup {n} :
                 \E x \in Range(dom[k].kids) : dom[x].tag = "#text" /\
                   \E i \in LongWords(x), j \in DOMAIN dom[x].text \ Inked(x) : i < j}

\* A table of plain text that was drawn as one fits in the screen, and its columns
\* are columns: what is in a cell is left of what is in any cell that begins after
\* its last column, in whichever rows they are (htmldoc.c:2043).  But what follows a
\* space that was not counted is one column further to the right, and may then be
\* beyond the screen.
TablesGood ==
  page.e = Ok /\ page.msgs = <<>> =>
    \A t \in {t \in DOMAIN dom : dom[t].tag = "table" /\ PlainTable(t)} :
      LET inks(n) == {ColumnOf(i) : i \in {i \in Ink : NodeOf(i) \in Under(dom, n)}}
          right   == [n \in CellsOf(t) |-> Max({0} \cup inks(n))]
          left    == [n \in CellsOf(t) |-> Min({1000} \cup inks(n))]
          first   == [n \in CellsOf(t) |-> FirstCol(n)]
      IN  \A n \in CellsOf(t) :
            /\ right[n] <= conf.ncols + Cardinality(Splits(n))
            /\ \A k \in CellsOf(t) :
                 first[n] + SpanOf(n) <= first[k] => right[n] < left[k] + Cardinality(Splits(n))
=============================================================================
