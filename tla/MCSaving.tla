------------------------------ MODULE MCSaving ------------------------------
(* Saving with two sessions: bookmarks are added one after the other and   *)
(* at once, by whole names and by the beginnings of names; files are saved *)
(* with names of their own and with the same; histories are written at     *)
(* once, two entries of two pieces by each session, and a header as long as*)
(* three pieces.                                                           *)
EXTENDS Saving

Bookmark(id, word, prefix) == [kind |-> "bookmark", id |-> id, word |-> word, prefix |-> prefix]
Save(to, urls) == [kind |-> "save", to |-> to, urls |-> urls]
Quit == [kind |-> "quit"]

Words == {<<"a">>, <<"a", "b">>}

MCNameOf == [u \in {"u1", "u2", "u3"} |-> IF u = "u2" THEN "n2" ELSE "n1"]

Adding ==
    {<< <<Bookmark(1, w1, FALSE), Bookmark(2, w2, p2)>>, <<Bookmark(3, <<"a">>, p3)>> >> :
        w1, w2 \in Words, p2, p3 \in BOOLEAN}

(* A third page has markup in its title, or its section in the name: more  *)
(* is added after it, before and behind it in the file.                    *)
MCMarkupIds   == {9}
MCMarkupNames == {<<"<">>}

Marking ==
    {<< <<Bookmark(1, w1, FALSE), Bookmark(2, w2, FALSE), m, Bookmark(4, w4, FALSE)>>, << >> >> :
        w1, w2, w4 \in Words,
        m \in {Bookmark(9, <<"a">>, FALSE), Bookmark(9, <<"a">>, TRUE), Bookmark(3, <<"<">>, FALSE)}}

SavingFiles ==
    { << <<Save("directory", <<"u1", "u2">>), Save("n1", <<"u1">>)>>, << >> >>,
      << <<Save("directory", <<"u1", "u3">>)>>, << >> >>,
      << <<Save("n2", <<"u1">>)>>, <<Save("directory", <<"u1">>)>> >> }

Ending == { << <<Quit>>, <<Quit>> >> }

MCPlans == Adding \cup Marking \cup SavingFiles \cup Ending
=============================================================================
