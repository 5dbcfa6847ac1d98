------------------------------ MODULE DocFetch ------------------------------
(***************************************************************************)
(* Fetching a document (htmldoc.c, request.c, cmd.c): who owns a Request   *)
(* while htmldoc_init_move_request copies it into the document it builds,  *)
(* while a script that sets location.href makes it call itself for a       *)
(* second document, and after any of them fails.                           *)
(*                                                                         *)
(* A Request is a struct of pointers: to copy it makes a second reference  *)
(* to the same strings, url and handle, here its body.  A body is released *)
(* by request_clean, and a document by htmldoc_destroy, which cleans the   *)
(* request it holds.                                                       *)
(***************************************************************************)
EXTENDS Naturals, Sequences

CONSTANTS
    Url,            \* where documents come from
    Body,           \* the bodies of requests that may be in use at once
    Ptr,            \* the places in memory for an HtmlDoc
    Nil,            \* a zeroed request, the null pointer, free memory
    MaxPages,       \* bound: how many documents a session keeps
    MaxRedirects    \* bound: how many redirections by scripts follow each other

ASSUME BoundAssumption == MaxPages \in Nat /\ MaxRedirects \in Nat

VARIABLES
    bodies,     \* bodies[b]: the body of a request, Nil when it is not in use
    docs,       \* docs[p]: the HtmlDoc at p, Nil when it is not in use
    tabs,       \* the documents in the tabs, in the order they were opened
    r,          \* the request that is a local variable of the running command
    calls,      \* the calls of htmldoc_init_move_request that are running
    asked,      \* the document the running command is for, 0 for none
    js          \* whether scripts are enabled

vars == <<bodies, docs, tabs, r, calls, asked, js>>

Request == [method : {"get", "post"}, data : {"none", "fields", "pairs", "both"}, url : Url]

HtmlDoc == [req : Body \cup {Nil}, shows : Url \cup {Nil}, post : {"none", "same", "replace"}]

ASSUME NilAssumption == Nil \notin Url \cup Body \cup Ptr \cup Request \cup HtmlDoc

Stage == {"fetch", "scripts", "draw", "post", "replaced", "unreplaced", "failed"}

(* entry: whether the pointer to the entry of the fetch history is good;   *)
(* replace: the local req_replace.                                         *)
Call == [doc : Ptr, at : Stage, entry : BOOLEAN, replace : Body \cup {Nil}]

TypeOK ==
    /\ bodies \in [Body -> Request \cup {Nil}]
    /\ docs \in [Ptr -> HtmlDoc \cup {Nil}]
    /\ tabs \in Seq(Ptr) /\ Len(tabs) <= MaxPages
    /\ r \in Body \cup {Nil}
    /\ calls \in Seq(Call) /\ Len(calls) <= MaxRedirects + 1
    /\ asked \in 0..MaxPages
    /\ js \in BOOLEAN

-----------------------------------------------------------------------------

Init ==
    /\ bodies = [b \in Body |-> Nil]
    /\ docs   = [p \in Ptr |-> Nil]
    /\ tabs   = <<>>
    /\ r      = Nil
    /\ calls  = <<>>
    /\ asked  = 0
    /\ js \in BOOLEAN

Refetching == asked \in DOMAIN tabs

depth == Len(calls)

Top == calls[depth]

Doc == docs[Top.doc]

Req == bodies[Doc.req]

request_clean(B, b) == IF b = Nil THEN B ELSE [B EXCEPT ![b] = Nil]

(* The caller's request: of the document in the tab, of the command, or    *)
(* of the call that is being redirected.                                   *)
Caller ==
    IF depth > 1 THEN calls[depth - 1].replace
    ELSE IF Refetching THEN docs[tabs[asked]].req
    ELSE r

(* D with what is written to the caller's request.                         *)
DocsWithCaller(D, b) ==
    IF depth = 1 /\ Refetching THEN [D EXCEPT ![tabs[asked]].req = b] ELSE D

rWithCaller(b) == IF depth = 1 /\ ~Refetching THEN b ELSE r

(* htmldoc_ptr_init_move_request and htmldoc_init_move_request until the   *)
(* fetch: the request is copied, and an entry of the fetch history is      *)
(* appended, which may move the others.                                    *)
NewDoc(b) == [req |-> b, shows |-> Nil, post |-> "none"]

NewCall(p) == [doc |-> p, at |-> "fetch", entry |-> TRUE, replace |-> Nil]

FreePtr(p)  == p \in Ptr /\ docs[p] = Nil
FreeBody(b) == b \in Body /\ bodies[b] = Nil

Advance(at) == calls' = [calls EXCEPT ![depth].at = at]

In(stage) == calls # <<>> /\ Top.at = stage

-----------------------------------------------------------------------------
(* Commands.                                                               *)

(* A url that was typed, a link or a form: a request is made for it.       *)
Open(p, b, request) ==
    /\ asked = 0 /\ Len(tabs) < MaxPages
    /\ FreePtr(p) /\ FreeBody(b)
    /\ bodies' = [bodies EXCEPT ![b] = request]
    /\ r'      = b
    /\ docs'   = [docs EXCEPT ![p] = NewDoc(b)]
    /\ calls'  = <<NewCall(p)>>
    /\ asked'  = Len(tabs) + 1
    /\ UNCHANGED <<tabs, js>>

(* The request of a document in a tab is used again where it is.           *)
cmd_fetch(p, t) ==
    /\ asked = 0 /\ t \in DOMAIN tabs
    /\ FreePtr(p)
    /\ docs'  = [docs EXCEPT ![p] = NewDoc(docs[tabs[t]].req)]
    /\ calls' = <<NewCall(p)>>
    /\ asked' = t
    /\ UNCHANGED <<bodies, tabs, r, js>>

-----------------------------------------------------------------------------
(* The steps of htmldoc_init_move_request.                                 *)

set_post_fields_refuses(q) == q.method = "post" /\ q.data \in {"none", "both"}

(* The pairs of a form are written to the fields, and stay pairs.          *)
set_post_fields(q) ==
    [q EXCEPT !.data = IF q.method = "post" /\ q.data = "pairs" THEN "both" ELSE q.data]

(* The page arrives, maybe from another url than the one asked for.        *)
Fetch(u) ==
    /\ In("fetch") /\ ~set_post_fields_refuses(Req)
    /\ bodies' = [bodies EXCEPT ![Doc.req] = [set_post_fields(Req) EXCEPT !.url = u]]
    /\ docs'   = [docs EXCEPT ![Top.doc].shows = u]
    /\ Advance("scripts")
    /\ UNCHANGED <<tabs, r, asked, js>>

FetchRefused ==
    /\ In("fetch") /\ set_post_fields_refuses(Req)
    /\ Advance("failed")
    /\ UNCHANGED <<bodies, docs, tabs, r, asked, js>>

(* No answer, or one that cannot be used once its url is known.            *)
FetchFails(u) ==
    /\ In("fetch") /\ ~set_post_fields_refuses(Req)
    /\ bodies' = [bodies EXCEPT ![Doc.req] = [set_post_fields(Req) EXCEPT !.url = u]]
    /\ Advance("failed")
    /\ UNCHANGED <<docs, tabs, r, asked, js>>

(* A script sets location.href, or calls location.replace.  A url curl     *)
(* cannot parse is noticed after the document was told to go there.        *)
replace_doc_url(u, parsed) ==
    /\ In("scripts") /\ js
    /\ docs' = [docs EXCEPT ![Top.doc].post = IF u = Doc.shows THEN "same" ELSE "replace"]
    /\ bodies' = IF u # Doc.shows /\ parsed
                 THEN [bodies EXCEPT ![Doc.req].url = u] ELSE bodies
    /\ UNCHANGED <<tabs, r, calls, asked, js>>

ScriptsEnd ==
    /\ In("scripts")
    /\ Advance("draw")
    /\ UNCHANGED <<bodies, docs, tabs, r, asked, js>>

(* The text is drawn, and the title is written to the entry.               *)
Draw ==
    /\ In("draw")
    /\ Advance("post")
    /\ UNCHANGED <<bodies, docs, tabs, r, asked, js>>

(* Memory, the script engine or the drawing fails.                         *)
StepFails ==
    /\ calls # <<>> /\ Top.at \in {"fetch", "scripts", "draw"}
    /\ Advance("failed")
    /\ UNCHANGED <<bodies, docs, tabs, r, asked, js>>

(* The stages that still write to the entry.                               *)
EntryUsed == {"fetch", "scripts", "draw"}

(* A second request is made, with the method of the first and no data, and *)
(* a document is built for it by the same function.                        *)
Redirect(p, b) ==
    /\ In("post") /\ Doc.post = "replace" /\ depth <= MaxRedirects
    /\ FreePtr(p) /\ FreeBody(b)
    /\ bodies' = [bodies EXCEPT ![b] = [method |-> Req.method, data |-> "none", url |-> Req.url]]
    /\ docs'   = [docs EXCEPT ![p] = NewDoc(b)]
    /\ calls'  = Append([k \in 1..depth |-> [calls[k] EXCEPT !.entry = FALSE,
                            !.replace = IF k = depth THEN b ELSE @]], NewCall(p))
    /\ UNCHANGED <<tabs, r, asked, js>>

(* The message about the location, or the second request, fails.           *)
RedirectFails ==
    /\ In("post") /\ Doc.post # "none"
    /\ Advance("failed")
    /\ UNCHANGED <<bodies, docs, tabs, r, asked, js>>

-----------------------------------------------------------------------------
(* The returns of htmldoc_init_move_request.                               *)

Succeeds == \/ In("post") /\ Doc.post # "replace"
            \/ In("replaced")

Leave == SubSeq(calls, 1, depth - 1)

(* A redirected call gets its second document: the first one is destroyed. *)
ReturnToRedirect ==
    /\ Succeeds /\ depth > 1
    /\ LET first == calls[depth - 1].doc
       IN  /\ bodies' = request_clean(bodies, docs[first].req)
           /\ docs'   = [docs EXCEPT ![first] = Nil]
           /\ calls'  = [Leave EXCEPT ![depth - 1] =
                            [@ EXCEPT !.doc = Top.doc, !.at = "replaced", !.replace = Nil]]
    /\ UNCHANGED <<tabs, r, asked, js>>

(* A new document is put in its tab.                                       *)
ReturnToCommand ==
    /\ Succeeds /\ depth = 1 /\ ~Refetching
    /\ r'    = Nil
    /\ tabs' = Append(tabs, Top.doc)
    /\ calls' = <<>> /\ asked' = 0
    /\ UNCHANGED <<bodies, docs, js>>

(* There is no memory for the new document in the tabs: it is destroyed.   *)
AppendFails ==
    /\ Succeeds /\ depth = 1 /\ ~Refetching
    /\ r'      = Nil
    /\ bodies' = request_clean(bodies, Doc.req)
    /\ docs'   = [docs EXCEPT ![Top.doc] = Nil]
    /\ calls'  = <<>> /\ asked' = 0
    /\ UNCHANGED <<tabs, js>>

(* Mutant: the new document is put in a tab of its own.                    *)
ReturnToRefetch_appending ==
    /\ Succeeds /\ depth = 1 /\ Refetching
    /\ tabs'  = Append(tabs, Top.doc)
    /\ calls' = <<>> /\ asked' = 0
    /\ UNCHANGED <<bodies, docs, r, js>>

(* The old document lost its request; it is destroyed and replaced.        *)
ReturnToRefetch ==
    /\ Succeeds /\ depth = 1 /\ Refetching
    /\ docs'  = [docs EXCEPT ![tabs[asked]] = Nil]
    /\ tabs'  = [tabs EXCEPT ![asked] = Top.doc]
    /\ calls' = <<>> /\ asked' = 0
    /\ UNCHANGED <<bodies, r, js>>

(* Mutant: the document in the tab is blanked when it could not be fetched *)
(* again.                                                                  *)
Fail_blanking ==
    /\ In("failed")
    /\ bodies' = IF depth = 1 /\ ~Refetching THEN request_clean(bodies, Doc.req) ELSE bodies
    /\ docs'   = IF depth = 1 /\ Refetching
                 THEN [docs EXCEPT ![Top.doc] = Nil, ![tabs[asked]].shows = Nil]
                 ELSE [DocsWithCaller(docs, Doc.req) EXCEPT ![Top.doc] = Nil]
    /\ r'      = rWithCaller(Nil)
    /\ calls'  = IF depth = 1 THEN <<>> ELSE [Leave EXCEPT ![depth - 1].at = "unreplaced"]
    /\ asked'  = IF depth = 1 THEN 0 ELSE asked
    /\ UNCHANGED <<tabs, js>>

(* The caller gets its request back, as the document left it, and the      *)
(* document is destroyed.  A command then cleans the request it made.      *)
Fail ==
    /\ In("failed")
    /\ bodies' = IF depth = 1 /\ ~Refetching THEN request_clean(bodies, Doc.req) ELSE bodies
    /\ docs'   = [DocsWithCaller(docs, Doc.req) EXCEPT ![Top.doc] = Nil]
    /\ r'      = rWithCaller(Nil)
    /\ calls'  = IF depth = 1 THEN <<>> ELSE [Leave EXCEPT ![depth - 1].at = "unreplaced"]
    /\ asked'  = IF depth = 1 THEN 0 ELSE asked
    /\ UNCHANGED <<tabs, js>>

(* Mutants: the second request is not cleaned; it is made again.           *)
Fail_Replace_leaking ==
    /\ In("unreplaced")
    /\ calls' = [calls EXCEPT ![depth].at = "failed", ![depth].replace = Nil]
    /\ UNCHANGED <<bodies, docs, tabs, r, asked, js>>

Fail_Replace_retrying ==
    /\ In("unreplaced")
    /\ bodies' = request_clean(bodies, Top.replace)
    /\ calls'  = [calls EXCEPT ![depth].at = "post", ![depth].replace = Nil]
    /\ UNCHANGED <<docs, tabs, r, asked, js>>

(* The second document failed: its request is cleaned, then the first one  *)
(* fails too.                                                              *)
Fail_Replace ==
    /\ In("unreplaced")
    /\ bodies' = request_clean(bodies, Top.replace)
    /\ calls'  = [calls EXCEPT ![depth].at = "failed", ![depth].replace = Nil]
    /\ UNCHANGED <<docs, tabs, r, asked, js>>

-----------------------------------------------------------------------------

NewRequest == [method : {"get"}, data : {"none"}, url : Url]
         \cup [method : {"post"}, data : {"fields", "pairs"}, url : Url]

Command ==
    \E p \in Ptr :
       \/ \E b \in Body, request \in NewRequest : Open(p, b, request)
       \/ \E t \in DOMAIN tabs : cmd_fetch(p, t)

Run ==
    \/ \E u \in Url : Fetch(u) \/ FetchFails(u)
    \/ FetchRefused
    \/ ScriptsEnd
    \/ Draw
    \/ StepFails
    \/ \E p \in Ptr, b \in Body : Redirect(p, b)
    \/ RedirectFails
    \/ ReturnToRedirect
    \/ ReturnToCommand
    \/ AppendFails
    \/ ReturnToRefetch
    \/ Fail
    \/ Fail_Replace

Script == \E u \in Url, parsed \in BOOLEAN : replace_doc_url(u, parsed)

Next == Command \/ Run \/ Script

(* The steps of a command follow each other; a script need not set its     *)
(* location, and is stopped when it runs for too long.                     *)
Spec == Init /\ [][Next]_vars /\ WF_vars(Run)

-----------------------------------------------------------------------------
(* Properties.                                                             *)

(* Who holds a reference to the body b.                                    *)
Holders(b) ==
    {<<"doc", p>> : p \in {q \in Ptr : docs[q] # Nil /\ docs[q].req = b}}
    \cup {<<"replace", k>> : k \in {j \in DOMAIN calls : calls[j].replace = b}}
    \cup {<<"command", 1>> : x \in {r} \cap {b}}

(* The holder whose request the k-th call was given.                       *)
CallerOf(k) ==
    IF k > 1 THEN <<"replace", k - 1>>
    ELSE IF Refetching THEN <<"doc", tabs[asked]>>
    ELSE <<"command", 1>>

(* A request has one owner.  The struct copy of htmldoc_init_move_request  *)
(* gives it a second one, the document, for as long as the call runs; no   *)
(* other copy, and none once a command is over (htmldoc.c:965, 1012-1018). *)
OneOwner ==
    \A b \in Body :
        \/ \A x, y \in Holders(b) : x = y
        \/ \E k \in DOMAIN calls : Holders(b) = {CallerOf(k), <<"doc", calls[k].doc>>}

(* No reference is to a body that was released, but for the caller's       *)
(* between the destruction of the first document and the zeroing of the    *)
(* caller's request when a script redirected the call (htmldoc.c:998-1012).*)
NoDangling ==
    \A b \in Body :
        bodies[b] = Nil =>
            \A x \in Holders(b) :
                \E k \in DOMAIN calls : calls[k].at = "replaced" /\ x = CallerOf(k)

(* Whatever fails, no body and no document is lost: each has an owner, in  *)
(* a tab or in a running call (htmldoc.c:1002-1020, 1039, cmd.c:61-64).    *)
NothingLeaked ==
    /\ \A b \in Body : bodies[b] # Nil => Holders(b) # {}
    /\ \A p \in Ptr : docs[p] # Nil =>
          \/ \E i \in DOMAIN tabs : tabs[i] = p
          \/ \E k \in DOMAIN calls : calls[k].doc = p

(* The title goes to the entry of this fetch: the pointer into the growing *)
(* array of entries is not used once a redirection may have moved it       *)
(* (htmldoc.c:969-977).                                                    *)
EntryOfOwnFetch ==
    \A k \in DOMAIN calls : calls[k].at \in EntryUsed => calls[k].entry

(* Requests and documents change hands once on every path of a fetch, and  *)
(* what a call points to is still there.                                   *)
Ownership == OneOwner /\ NoDangling /\ NothingLeaked /\ EntryOfOwnFetch

P == INSTANCE Pages WITH shown <- [i \in DOMAIN tabs |-> docs[tabs[i]].shows]

(* A command that fails, at whatever step and however many redirections    *)
(* deep, shows what was shown before; one that succeeds changes one page,  *)
(* the one it was for (cmd.c:273-291, tabs.c:7-29).                        *)
ImplementsPages == P!Spec

(* A command ends when its redirections do (htmldoc.c:951-1021).           *)
CommandEnds == asked # 0 ~> asked = 0

(* "cmd_fetch replaces current_doc with refetched one" (cmd.c:270): the    *)
(* request that fetched a document can be sent again.                      *)
RefetchIsSent ==
    Refetching /\ depth = 1 /\ In("fetch") => ~set_post_fields_refuses(Req)

=============================================================================
