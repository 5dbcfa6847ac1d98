--------------------------- MODULE MCScriptFetch ---------------------------
(* ScriptFetch for documents with up to two scripts in each part: all      *)
(* remote, local and remote in both orders, local only, none.              *)
EXTENDS ScriptFetch

Doc(h, b) == [p \in Part |-> IF p = "head" THEN h ELSE b]

MCPages == {
    Doc(<<>>, <<"blank">>),
    Doc(<<"inline">>, <<"ldjson">>),
    Doc(<<"remote", "remote">>, <<"remote">>),
    Doc(<<"remote", "inline">>, <<"remote">>),
    Doc(<<"ldjson">>, <<"remote", "remote">>) }
=============================================================================
