----------------------------- MODULE MCMainLoop -----------------------------
(* MainLoop for the scripts of up to two commands, and one of three, whose *)
(* lines the program promises to run; only few of them for several lines.  *)
EXTENDS MainLoop

None == <<"none", "both">>

Seg1(kind, to)      == [kind |-> kind, to |-> to, sep |-> "spaced"]
SegSep(kind, sep)   == [kind |-> kind, to |-> None, sep |-> sep]

(* Redirections that may be followed by another command, and that may not. *)
Inner == {None, <<"screen", "both">>, <<"warn", "both">>, <<"screen", "msg">>, <<"warn", "std">>, <<"file", "std">>}
Outer == {<<"file", "both">>, <<"file", "msg">>, <<"shell", "both">>, <<"shell", "std">>}

First == {Seg1("cut", to) : to \in Inner}
         \cup {Seg1("save", None), Seg1("save", <<"warn", "both">>), Seg1("get", None), Seg1("submit", None),
                Seg1("input", <<"screen", "both">>)}
         \cup {SegSep("cut", "glued"), SegSep("bare", "glued"), SegSep("rest", "before"), SegSep("bare", "before")}

Last1 == {Seg1("cut", to) : to \in {None, <<"warn", "both">>, <<"screen", "msg">>} \cup Outer}
         \cup {Seg1("save", <<"file", "both">>), Seg1("get", <<"file", "std">>)}
         \cup {Seg1(kind, None) : kind \in {"bare", "rest", "all", "toggle", "quit"}}

Promised ==
    {<<a>> : a \in First \cup Last1}
    \cup {<<a, b>> : a \in First \ {Seg1("submit", None)}, b \in Last1}
    \cup {<<Seg1("cut", <<"file", "std">>), SegSep("bare", "glued"), Seg1("cut", None)>>}

(* Few lines, to read several of them.                                     *)
Few ==
    {<<Seg1("cut", <<"shell", "both">>)>>,
     <<Seg1("cut", <<"file", "msg">>)>>,
     <<Seg1("get", None), Seg1("cut", <<"file", "both">>)>>,
     <<SegSep("bare", "glued"), Seg1("cut", <<"warn", "both">>)>>,
     <<Seg1("toggle", None)>>,
     <<Seg1("input", None)>>,
     <<Seg1("unknown", None), Seg1("cut", None)>>,
     <<Seg1("cut", None), Seg1("quit", None)>>}

MCScripts == Promised \cup Few

(* One line of any script, or several of the few.                          *)
SeveralAreFew == Len(memory') > Len(memory) /\ memory # <<>> => {script, script'} \subseteq Few
=============================================================================
