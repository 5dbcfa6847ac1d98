---------------------------- MODULE MCDrawnPage ----------------------------
(***************************************************************************)
(* Small pages for DrawnPage: every element within every other one, tables *)
(* of plain text on narrow screens, tables that hold what they should not, *)
(* and forms.  A page is written as the sequence of its nodes.             *)
(***************************************************************************)
EXTENDS DrawnPage

E(tag, kids)     == [tag |-> tag, kids |-> kids, text |-> <<>>, at |-> <<>>]
EA(tag, kids, at) == [E(tag, kids) EXCEPT !.at = at]
T(text)          == [E("#text", <<>>) EXCEPT !.text = text]
W(k)             == T([i \in 1..k |-> "w"])
Doc(d, ncols)    == [d |-> d, frag |-> 0, ncols |-> ncols]

\* One element within another, with text in and around them.
At(tag) == CASE tag \in {"a", "img"} -> "href" :> "x" @@ "alt" :> "x"
             [] tag = "input" -> "type" :> "checkbox"
             [] OTHER -> <<>>
Void   == {"br", "img", "input"}
Others == {"a", "b", "blockquote", "button", "code", "div", "em", "form", "h1", "i", "li", "p",
           "pre", "span", "strong"}
Words  == T(<<"w", "s", "n", "w">>)
Nested(e, f) ==
  << E("body", <<2, 3, 8>>), T(<<"w">>), EA(e, <<4, 5, 7>>, At(e)), Words,
     EA(f, <<6>>, At(f)), T(<<"s", "w", "s">>), T(<<"w">>), T(<<"p", "s", "w">>) >>
NestedVoid(e, f) ==
  << E("body", <<2, 3, 7>>), T(<<"w">>), EA(e, <<4, 5, 6>>, At(e)), Words, EA(f, <<>>, At(f)),
     T(<<"s", "w", "s">>), T(<<"p", "s", "w">>) >>
NestedPages == {[Doc(Nested(e, f), 80) EXCEPT !.frag = 5] : e \in Others, f \in Others}
               \cup {Doc(NestedVoid(e, f), 80) : e \in Others, f \in Void}

\* Two rows of plain text: two cells each, or one that spans two columns.
Texts == {T(<<"w", "s", "w">>), W(6), T(<<"w", "w", "s", "w", "w", "w", "s", "w">>)}
Grid(t) == << E("body", <<2>>), E("table", <<3>>), E("tbody", <<4, 9>>),
              E("tr", <<5, 7>>), E("td", <<6>>), t[1], E("td", <<8>>), t[2],
              E("tr", <<10, 12>>), E("td", <<11>>), t[3], E("td", <<13>>), t[4] >>
SpanGrid(t) == << E("body", <<2>>), E("table", <<3>>), E("tbody", <<4, 11>>),
                  E("tr", <<5, 7, 9>>), E("td", <<6>>), t[1], E("td", <<8>>), t[2],
                  E("td", <<10>>), t[1],
                  E("tr", <<12, 14>>), EA("td", <<13>>, "colspan" :> 2), t[3],
                  E("td", <<15>>), t[4] >>
Grids == {Doc(Grid(t), n) : t \in [1..4 -> Texts], n \in {8, 13}}
         \cup {Doc(SpanGrid(t), n) : t \in [1..4 -> Texts], n \in {14, 19}}

\* A row of three cells of long words, and one of short ones.
TwoWords(j, k) == T(W(j).text \o <<"s">> \o W(k).text)
Wide(t) == << E("body", <<2>>), E("table", <<3>>), E("tbody", <<4, 11>>),
              E("tr", <<5, 7, 9>>), E("td", <<6>>), t[1], E("td", <<8>>), t[2], E("td", <<10>>), t[3],
              E("tr", <<12, 14, 16>>), E("td", <<13>>), W(4), E("td", <<15>>), W(4), E("td", <<17>>), W(3) >>
Wides == {Doc(Wide(t), 18) : t \in [1..3 -> {W(3), TwoWords(4, 4), TwoWords(6, 7)}]}

\* A table inside an element, its first cell with an element, its second row odd.
Odd(out, in, row, cell) ==
  << E("body", <<2, 16>>), EA(out, <<3>>, At(out)), E("table", <<4, 13>>), E("tbody", <<5, 10>>),
     E("tr", <<6>>), E("td", <<7, 9>>), EA(in, <<8>>, At(in)), T(<<"w", "s", "w">>), W(6),
     E(row, <<11>>), EA(cell, <<12>>, At(cell)), W(3), E("div", <<14>>), EA("a", <<15>>, At("a")),
     W(2), W(1) >>
OddTables == {Doc(Odd(out, in, row, cell), n) :
                out \in {"b", "div", "li", "a"}, in \in {"b", "a", "li", "p", "span"},
                row \in {"tr", "a"}, cell \in {"td", "a"}, n \in {5, 20}}

\* A form with one input of each kind, in the page or in a table too narrow for it.
\* `on` are the nodes that are checked or selected in the page.
Form(root, on, method) ==
  LET I(type, name, v, n) ==
        EA("input", <<>>, "type" :> type @@ "name" :> name
                          @@ (IF v = "" THEN <<>> ELSE "value" :> v)
                          @@ (IF n \in on THEN "checked" :> "yes" ELSE <<>>))
      O(v, n) == EA("option", <<n + 1>>,
                    "value" :> v @@ (IF n \in on THEN "selected" :> "yes" ELSE <<>>))
  IN  << E("body", <<2>>), E(root[1], <<3>>), E(root[2], <<4>>), E(root[3], <<5>>),
         EA("form", <<6, 7, 8, 9, 10, 15>>, "method" :> method),
         I("text", "t", "", 6), I("checkbox", "c", "", 7), I("radio", "r", "a", 8),
         I("radio", "r", "b", 9), EA("select", <<11, 13>>, "name" :> "s"),
         O("a", 11), W(1), O("aa", 13), W(2), I("submit", "", "aa", 15) >>
Forms == {Doc(Form(root, on, "get"), 12) :
            root \in {<<"div", "p", "span">>, <<"table", "tr", "td">>},
            on \in {{}, {7, 8, 11}, {8, 9, 13}, {7, 11, 13}}}
MCPrefixOf  == {<<"a", "a">>, <<"a", "aa">>, <<"aa", "aa">>}
MCDocuments == NestedPages \cup Grids \cup Wides \cup OddTables \cup Forms
=============================================================================
