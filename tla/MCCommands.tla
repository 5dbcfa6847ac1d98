----------------------------- MODULE MCCommands -----------------------------
(* Texts of up to three pieces, and some with a long word, an escape or    *)
(* without the byte that ends a text that is drawn; lines with all kinds   *)
(* of addresses.                                                           *)
EXTENDS Commands

MCDigitOf  == [d \in {"0", "1", "2", "3"} |-> CASE d = "0" -> 0 [] d = "1" -> 1 [] d = "2" -> 2 [] d = "3" -> 3]
Alphabet   == <<"a", "b", "c", "d", "e", "f", "g", "h", "i", "j", "k", "l", "m",
                "n", "o", "p", "q", "r", "s", "t", "u", "v", "w", "x", "y", "z">>
MCLetterOf == [l \in Range(Alphabet) |-> 9 + CHOOSE i \in DOMAIN Alphabet : Alphabet[i] = l]
MCByteOf   == [l \in {"x"} |-> X]

Pieces == {<<X>>, <<Lead, Cont>>, <<Sp>>, <<Nl>>}
Drawn  == {FlattenSeq(p) \o <<Nul>> : p \in UNION {[1..n -> Pieces] : n \in 1..2} \cup {<<<<X>>, p, q>> : p, q \in {<<X>>, <<Nl>>}}}
Source == {<<X, Nl, Y, Nl, X>>, <<Y, Nl>>}

Special == {<<X, X, X, X, X, Sp, X, Nul>>, <<Y, Esc, Y, Y, X, Nl, Nul>>, <<Sp, Lead, Cont, Lead, Cont, X, Nul>>}
Full(t) == [i \in 1..Len(t) |-> i - 1]
Doc(t, mods) == [text |-> t, mods |-> mods, links |-> Len(t) % 4]
MCDocuments ==
    {Doc(t, <<>>) : t \in Source} \cup {Doc(t, Full(t)) : t \in Drawn \cup Special}
    \cup {Doc(t, m) : t \in {CHOOSE t \in Special : Len(t) = 8}, m \in {<<>>, <<7>>, <<0, 4, 4>>}}

At0(tk, of, n, delta) == [tokens |-> tk, of |-> of, n |-> n, delta |-> delta]
Addresses ==
    {At0(<<"0">>, "line", 0, 0), At0(<<"1">>, "line", 1, 0), At0(<<"2">>, "line", 2, 0), At0(<<"1", " ", "+", "1">>, "line", 1, 1),
     At0(<<"1", "-", "3">>, "line", 1, -3), At0(<<"1", "-", "3", "1">>, "line", 1, -31), At0(<<"1", "+", "3", "1">>, "line", 1, 31),
     At0(<<".">>, "current", 0, 0), At0(<<"+">>, "current", 0, 1),
     At0(<<".", "-", "1">>, "current", 0, -1), At0(<<"$">>, "last", 0, 0), At0(<<"$", "-">>, "last", 0, -1)}

Asked(a)  == [of |-> a.of, n |-> a.n, delta |-> a.delta]
Plain(tk) == [tokens |-> tk, beg |-> Unasked, end |-> Unasked]

Begins == {a \in Addresses : a.tokens \in {<<"0">>, <<"1">>, <<".">>, <<"1", "-", "3">>, <<"$", "-">>}}
Pair(a, b) == [tokens |-> a.tokens \o <<",">> \o b.tokens, beg |-> Asked(a), end |-> Asked(b)]
Pairs == {Pair(a, b) : a \in Begins, b \in {b \in Addresses : b.delta \in Ints}}
Ones  == {[tokens |-> a.tokens, beg |-> Asked(a), end |-> Asked(a)] : a \in Addresses}
LinkPairs ==
    {Pair(a, b) : a \in Begins, b \in {b \in Addresses : b.tokens \in {<<"1">>, <<"1", " ", "+", "1">>, <<".">>, <<"$">>}}}
Before(c, rs, cmd) == {[r EXCEPT !.tokens = <<c>> \o @ \o cmd] : r \in rs}

Some(rs) == {r \in rs : r.beg.of = "line" /\ r.beg.n \in {0, 1} /\ r.beg.delta = 0 /\ r.end.of = "last"}

MCLines ==
    Before(":", Pairs, <<"p">>) \cup Before(":", Ones, <<"n">>) \cup Before(":", Some(Pairs), <<"s", " ", "f">>)
    \cup Before("[", Ones \cup LinkPairs, <<"*">>)
    \cup {Plain(tk) : tk \in
            {<<":", "%", "p">>, <<":", "1", "p">>, <<":", "^", "p">>, <<":", "/", "x", "/", "n">>,
             <<":", "/", "/", "p">>, <<":", "/", "x", "/", ",", "2", "p">>, <<":", "1", ",", "/", "x", "/", "p">>,
             <<":", "s", " ", "f">>, <<":", "%", "s">>, <<":", "g", " ", "/", "x", "/">>, <<":", "g", "/", "x">>, <<":", "\"">>,
             <<":", "p", "?">>, <<":", TooLarge, "p">>, <<":", "1", "p", "r", " ", "x">>, <<":", "z">>,
             <<"[", "1", "s", "a", "v", "e">>, <<"[", "s", " ", "f">>, <<"[", "1">>,
             <<".", "c", "o">>, <<".", "c", "o", "n">>, <<".", "c", "o", "o">>, <<".", "d", "?">>, <<"q">>,
             <<"q", " ", "x">>, <<"s", " ", "n", " ", "0">>, <<"s", " ", "n", " ", "2">>,
             <<"s", "e", "t", " ", "m", " ", "1">>, <<"s", " ", "m", " ", "x">>}}
=============================================================================
