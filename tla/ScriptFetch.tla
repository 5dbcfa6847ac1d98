---------------------------- MODULE ScriptFetch ----------------------------
(***************************************************************************)
(* The transfers of a fetch (wrapper-curl.c, url-client.c,                 *)
(* wrapper-lexbor-curl.c): the document first, then all the scripts it     *)
(* names, with one multi handle for the session, a loop that performs and  *)
(* polls, and Ctrl-C, whose handler sets a flag.                           *)
(*                                                                         *)
(* Scripts come in two arrays, of the head and of the body.  The text of   *)
(* an inline script is appended when the document is read, the one of a    *)
(* remote script is written by libcurl, during curl_multi_perform, to the  *)
(* place in the array its easy handle was given the address of.            *)
(***************************************************************************)
EXTENDS Naturals, Sequences, FiniteSets, Functions

CONSTANT Pages  \* documents: the kinds of their script elements, in order

Kind == {"inline", "blank", "ldjson", "remote"}
Part == {"head", "body"}

ASSUME PagesAssumption == Pages \subseteq [Part -> Seq(Kind)]

VARIABLES
    page,       \* the document that is fetched
    at,         \* the next step of the fetch
    phase,      \* which transfers the loop is about
    scripts,    \* the arrays of scripts; a script is the set of its authors
    moved,      \* whether the items of an array were moved since it was split
    easies,     \* the easy handles of the remote scripts, in order
    multi,      \* the state of each transfer attached to the multi handle
    unread,     \* transfers that are over and whose message was not read
    failed,     \* the transfers whose messages tell a failure
    result,     \* the Err of the loop
    flag        \* interrupt_flag__

vars == <<page, at, phase, scripts, moved, easies, multi, unread, failed, result, flag>>

Element == UNION {{<<p, i>> : p \in Part, i \in 1..Len(pg["head"] \o pg["body"])} : pg \in Pages}
Document == <<"document", 0>>
Transfer == Element \cup {Document}

Loop  == {"check", "clear", "cancel", "perform", "poll", "read"}
Step  == Loop \cup {"start", "got", "split", "add_head", "add_body", "report", "remove", "clean"}
State == {"running", "over", "failed"}

(* Where an easy handle writes: a place of an array, and the state of the  *)
(* array's memory when its address was taken.                              *)
Place == [part : Part, ix : Nat, moved : BOOLEAN]
Easy  == [of : Element, to : Place]

TypeOK ==
    /\ page \in Pages
    /\ at \in Step
    /\ phase \in {"document", "scripts"}
    /\ scripts \in [Part -> Seq(SUBSET Element)]
    /\ moved \in [Part -> BOOLEAN]
    /\ easies \in Seq(Easy)
    /\ DOMAIN multi \subseteq Transfer /\ \A t \in DOMAIN multi : multi[t] \in State
    /\ unread \subseteq DOMAIN multi
    /\ failed \subseteq Transfer
    /\ result \in {"ok", "canceled", "error"}
    /\ flag \in BOOLEAN

None == [t \in {} |-> "over"]

Running == {t \in DOMAIN multi : multi[t] = "running"}

-----------------------------------------------------------------------------

Init ==
    /\ page \in Pages
    /\ at        = "start"
    /\ phase     = "document"
    /\ scripts   = [p \in Part |-> <<>>]
    /\ moved     = [p \in Part |-> FALSE]
    /\ easies    = <<>>
    /\ multi     = None
    /\ unread    = {}
    /\ failed    = {}
    /\ result    = "ok"
    /\ flag      = FALSE

(* w_curl_perform_with_cancel attaches the handle of the document.         *)
FetchDocument ==
    /\ at = "start"
    /\ page' \in Pages
    /\ scripts' = [p \in Part |-> <<>>]
    /\ moved'   = [p \in Part |-> FALSE]
    /\ multi'   = [t \in {Document} |-> "running"]
    /\ at' = "check" /\ phase' = "document" /\ result' = "ok"
    /\ UNCHANGED <<easies, unread, failed, flag>>

-----------------------------------------------------------------------------
(* The loop, w_curl_multi_perform_poll.                                    *)

(* Ctrl-C: the handler is installed while the loop runs.                   *)
Interrupt ==
    /\ at \in Loop
    /\ flag' = TRUE
    /\ UNCHANGED <<page, at, phase, scripts, moved, easies, multi, unread, failed, result>>

LeaveLoop(res) ==
    /\ result' = res
    /\ at' = IF phase = "document" THEN "got"
             ELSE IF res = "ok" THEN "report"
             ELSE "clean"

(* Mutant: the flag counts only once a transfer is over.                   *)
Check_over ==
    /\ at = "check"
    /\ at' = IF flag /\ \E t \in DOMAIN multi : multi[t] # "running" THEN "cancel" ELSE "clear"
    /\ UNCHANGED <<page, phase, scripts, moved, easies, multi, unread, failed, result, flag>>

(* interrupt_flag reads the flag, and only then clears it, in a statement  *)
(* of its own: a Ctrl-C between the two is erased.                         *)
Check ==
    /\ at = "check"
    /\ at' = IF flag THEN "cancel" ELSE "clear"
    /\ UNCHANGED <<page, phase, scripts, moved, easies, multi, unread, failed, result, flag>>

(* The flag was not set when it was read: the loop goes on.                *)
Clear ==
    /\ at = "clear"
    /\ flag' = FALSE
    /\ at' = "perform"
    /\ UNCHANGED <<page, phase, scripts, moved, easies, multi, unread, failed, result>>

(* It was set.                                                             *)
Cancel ==
    /\ at = "cancel"
    /\ flag' = FALSE
    /\ LeaveLoop("canceled")
    /\ UNCHANGED <<page, phase, scripts, moved, easies, multi, unread, failed>>

Lands(to) == to.moved = moved[to.part] /\ to.ix \in DOMAIN scripts[to.part]

(* What the transfers in W write lands where their handles say.            *)
Written(W) ==
    [p \in Part |-> [i \in DOMAIN scripts[p] |->
        scripts[p][i] \cup {e.of : e \in {x \in Range(easies) :
            x.of \in W /\ Lands(x.to) /\ x.to.part = p /\ x.to.ix = i}}]]

(* curl_multi_perform: some of the running transfers write, some end.      *)
Perform(W, next) ==
    /\ at = "perform"
    /\ scripts' = Written(W)
    /\ multi'   = [t \in DOMAIN multi |-> IF t \in Running THEN next[t] ELSE multi[t]]
    /\ unread'  = unread \cup {t \in Running : next[t] # "running"}
    /\ at' = "poll"
    /\ UNCHANGED <<page, phase, moved, easies, failed, result, flag>>

(* curl_multi_poll waits for at most 100 ms.                               *)
Poll ==
    /\ at = "poll"
    /\ at' = "read"
    /\ UNCHANGED <<page, phase, scripts, moved, easies, multi, unread, failed, result, flag>>

MultiFails ==
    /\ at \in {"perform", "poll"}
    /\ LeaveLoop("error")
    /\ UNCHANGED <<page, phase, scripts, moved, easies, multi, unread, failed, flag>>

Stays == at' = "check" /\ UNCHANGED result

(* Mutants: one message is read for each turn of the loop; a transfer is   *)
(* removed as soon as its message was read.                                *)
ReadInfo_once ==
    /\ at = "read"
    /\ \E M \in SUBSET unread :
          /\ Cardinality(M) <= 1 /\ (M = {} => unread = {})
          /\ failed' = failed \cup {t \in M : multi[t] = "failed"}
          /\ unread' = unread \ M
    /\ IF Running = {} THEN LeaveLoop("ok") ELSE Stays
    /\ UNCHANGED <<page, phase, scripts, moved, easies, multi, flag>>

(* All the messages are read; the loop ends when nothing is running.       *)
ReadInfo ==
    /\ at = "read"
    /\ failed' = failed \cup {t \in unread : multi[t] = "failed"}
    /\ unread' = {}
    /\ IF Running = {} THEN LeaveLoop("ok") ELSE Stays
    /\ UNCHANGED <<page, phase, scripts, moved, easies, multi, flag>>

-----------------------------------------------------------------------------
(* The document has come, or not.                                          *)

(* Mutant: a message that was not read is left in the queue.               *)
GotDocument_unread ==
    /\ at = "got"
    /\ result' = IF failed # {} THEN "error" ELSE result
    /\ at' = IF result' = "ok" THEN "split" ELSE "start"
    /\ multi' = None /\ failed' = {}
    /\ UNCHANGED <<page, phase, scripts, moved, easies, unread, flag>>

(* The handle is removed, which drops a message that was not read, and the *)
(* list of failures with it.                                               *)
GotDocument ==
    /\ at = "got"
    /\ result' = IF failed # {} THEN "error" ELSE result
    /\ at' = IF result' = "ok" THEN "split" ELSE "start"
    /\ multi' = None /\ unread' = {} /\ failed' = {}
    /\ UNCHANGED <<page, phase, scripts, moved, easies, flag>>

Rank(i, I) == Cardinality({j \in I : j <= i})

(* The elements of a part of the document, in the order they are in it.    *)
InOrder(p, I) == [n \in 1..Cardinality(I) |-> <<p, CHOOSE i \in I : Rank(i, I) = n>>]

(* The script elements of a part of the document that are of a kind.       *)
Elements(p, K) == InOrder(p, {i \in DOMAIN page[p] : page[p][i] \in K})

Urls(p) == Elements(p, {"remote"})

(* The urls curl takes.                                                    *)
Taken(p, refused) ==
    InOrder(p, {i \in DOMAIN page[p] : page[p][i] = "remote" /\ <<p, i>> \notin refused})

(* Inline scripts are copied, and a comment for each ld+json; blank ones   *)
(* are skipped.  Without remote scripts there is nothing to transfer.      *)
_split_remote_local_ ==
    /\ at = "split"
    /\ scripts' = [p \in Part |->
          LET local == Elements(p, {"inline", "ldjson"})
          IN  [i \in DOMAIN local |-> {local[i]}]]
    /\ at' = IF \A p \in Part : Urls(p) = <<>> THEN "start" ELSE "add_head"
    /\ UNCHANGED <<page, phase, moved, easies, multi, unread, failed, result, flag>>

(* The next step: the handles of the body, or the loop.                    *)
AfterAdd == at' = IF at = "add_head" THEN "add_body" ELSE "check"

Adding(p) == at = (IF p = "head" THEN "add_head" ELSE "add_body")

(* Mutants: the array grows with each url; a handle is given the address   *)
(* of the last script before its own is there.                             *)
AddHandles_growing(p, refused) ==
    /\ Adding(p)
    /\ LET urls == Taken(p, refused)
           n    == Len(scripts[p])
           to(i) == [part |-> p, ix |-> n + i, moved |-> i = Len(urls)]
       IN  /\ scripts' = [scripts EXCEPT ![p] = @ \o [i \in DOMAIN urls |-> {}]]
           /\ moved'   = [moved EXCEPT ![p] = urls # <<>>]
           /\ easies'  = easies \o [i \in DOMAIN urls |-> [of |-> urls[i], to |-> to(i)]]
           /\ multi'   = [t \in DOMAIN multi \cup Range(urls) |-> "running"]
    /\ AfterAdd /\ phase' = "scripts"
    /\ UNCHANGED <<page, unread, failed, result, flag>>

(* The array is first made large enough for all the urls, which may move   *)
(* it; then each url that curl takes gets the next place, and an easy      *)
(* handle with its address.  A refused url gives its place back.           *)
url_client_multi_add_handles(p, refused) ==
    /\ Adding(p)
    /\ moved' \in {moved, [moved EXCEPT ![p] = Urls(p) # <<>>]}
    /\ LET urls == Taken(p, refused)
           n    == Len(scripts[p])
           to(i) == [part |-> p, ix |-> n + i, moved |-> moved'[p]]
       IN  /\ scripts' = [scripts EXCEPT ![p] = @ \o [i \in DOMAIN urls |-> {}]]
           /\ easies'  = easies \o [i \in DOMAIN urls |-> [of |-> urls[i], to |-> to(i)]]
           /\ multi'   = [t \in DOMAIN multi \cup Range(urls) |-> "running"]
    /\ AfterAdd /\ phase' = "scripts"
    /\ UNCHANGED <<page, unread, failed, result, flag>>

(* No memory for the places: those that were appended stay, empty.         *)
AddHandlesFails(p, n) ==
    /\ Adding(p)
    /\ n < Len(Urls(p))
    /\ scripts' = [scripts EXCEPT ![p] = @ \o [i \in 1..n |-> {}]]
    /\ AfterAdd /\ phase' = "scripts"
    /\ UNCHANGED <<page, moved, easies, multi, unread, failed, result, flag>>

-----------------------------------------------------------------------------
(* The scripts have come.                                                  *)

(* The indexes, from zero, of the failed transfers among the easy handles. *)
get_failed_indexes == {i - 1 : i \in {j \in DOMAIN easies : easies[j].of \in failed}}

(* The place of the script of an index: those of the head come first.      *)
htmldoc_script_at(ix) ==
    IF ix < Len(scripts["head"]) THEN <<"head", ix + 1>>
    ELSE <<"body", ix - Len(scripts["head"]) + 1>>

clear_scripts_that_failed_to_download ==
    /\ at = "report"
    /\ LET cleared == {htmldoc_script_at(ix) : ix \in get_failed_indexes}
       IN  scripts' = [p \in Part |-> [i \in DOMAIN scripts[p] |->
                          IF <<p, i>> \in cleared THEN {} ELSE scripts[p][i]]]
    /\ at' = "remove"
    /\ UNCHANGED <<page, phase, moved, easies, multi, unread, failed, result, flag>>

w_curl_multi_remove_handles ==
    /\ at = "remove"
    /\ multi' = [t \in DOMAIN multi \ {e.of : e \in Range(easies)} |-> multi[t]]
    /\ unread' = unread \ {e.of : e \in Range(easies)}
    /\ at' = "clean"
    /\ UNCHANGED <<page, phase, scripts, moved, easies, failed, result, flag>>

(* Cleaning an easy handle that is still attached detaches it.             *)
Clean ==
    /\ at = "clean"
    /\ multi' = [t \in DOMAIN multi \ {e.of : e \in Range(easies)} |-> multi[t]]
    /\ unread' = {} /\ failed' = {} /\ easies' = <<>>
    /\ at' = "start"
    /\ UNCHANGED <<page, phase, scripts, moved, result, flag>>

-----------------------------------------------------------------------------

Fetch ==
    \/ Check
    \/ Clear
    \/ Cancel
    \/ \E W \in SUBSET Running, next \in [Running -> State] : Perform(W, next)
    \/ Poll
    \/ MultiFails
    \/ ReadInfo
    \/ GotDocument
    \/ _split_remote_local_
    \/ \E p \in Part : \E refused \in SUBSET Range(Urls(p)) : url_client_multi_add_handles(p, refused)
    \/ \E p \in Part, n \in 0..Len(page["head"] \o page["body"]) : AddHandlesFails(p, n)
    \/ clear_scripts_that_failed_to_download
    \/ w_curl_multi_remove_handles
    \/ Clean

Next == FetchDocument \/ Interrupt \/ Fetch

(* The loop goes on whatever the transfers do, since a poll ends after a   *)
(* while; nothing is assumed of the transfers.                             *)
Spec == Init /\ [][Next]_vars /\ WF_vars(Fetch)

-----------------------------------------------------------------------------
(* Properties.                                                             *)

(* An address given to libcurl is good for as long as libcurl may write:   *)
(* no array moves or shrinks under it (url-client.c:92-97,                 *)
(* wrapper-curl.c:176-182).                                                *)
AddressesGood == \A i \in DOMAIN easies : easies[i].of \in DOMAIN multi => Lands(easies[i].to)

(* No script is mixed of two texts, and no text is in two scripts, however *)
(* the transfers interleave and whichever urls were refused                *)
(* (wrapper-curl.c:176-217, wrapper-lexbor-curl.c:112-147).                *)
ScriptsNotMixed ==
    /\ \A p \in Part : \A i \in DOMAIN scripts[p] : Cardinality(scripts[p][i]) <= 1
    /\ \A p, q \in Part : \A i \in DOMAIN scripts[p], j \in DOMAIN scripts[q] :
          scripts[p][i] \cap scripts[q][j] # {} => p = q /\ i = j

(* What libcurl writes lands in the script it is of, and only there.       *)
WritesLand == AddressesGood /\ ScriptsNotMixed

(* When the loop ends well every transfer is over and the failures are     *)
(* known, all of them: no message is left unread (wrapper-curl.c:112-125). *)
FailuresKnown ==
    at \in {"report", "remove"} =>
        /\ Running = {}
        /\ failed = {t \in DOMAIN multi : multi[t] = "failed"}

(* A failure is told by a pointer to a message that lives in the easy      *)
(* handle: it is read before the handle is removed                         *)
(* (wrapper-curl.c:273-280, wrapper-lexbor-curl.c:237-248).                *)
MessagesAlive == at \in Loop \cup {"got", "report"} => failed \subseteq DOMAIN multi

(* Between fetches no transfer is attached to the multi handle of the      *)
(* session, on any path (wrapper-curl.c:278, wrapper-lexbor-curl.c:247).   *)
NoTransferLeft == at = "start" => multi = None /\ easies = <<>>

(* What is to be evaluated: the failed scripts were emptied, the others    *)
(* were not.                                                               *)
FailedEmptied ==
    \A p \in Part : \A i \in DOMAIN scripts[p] : scripts[p][i] \cap failed = {}

LocalKept ==
    \A p \in Part : \A i \in DOMAIN page[p] :
        page[p][i] \in {"inline", "ldjson"} =>
            \E j \in DOMAIN scripts[p] : scripts[p][j] = {<<p, i>>}

AllRemote == \A p \in Part : \A i \in DOMAIN page[p] : page[p][i] = "remote"

NoneMissing == Cardinality(DOMAIN multi) = Len(scripts["head"] \o scripts["body"])

(* A document whose scripts are all remote, and all had a place, evaluates *)
(* none that failed (wrapper-lexbor-curl.c:150-189).                       *)
FailedEmptiedIfAllRemote ==
    at = "remove" /\ AllRemote /\ NoneMissing => FailedEmptied

(* Every failure is known and told, the script it is of is emptied, and    *)
(* nothing of it is left for the next fetch.                               *)
FailuresSettled == FailuresKnown /\ MessagesAlive /\ NoTransferLeft /\ FailedEmptiedIfAllRemote

(* Ctrl-C ends a fetch, whatever its transfers are waiting for: the flag,  *)
(* once set, is seen by the next turn of the loop (wrapper-curl.c:94-125). *)
(* The one exception is a Ctrl-C that comes after the flag was read and    *)
(* before it is cleared (sys.c:180-181): that one is erased, the loop goes *)
(* on, and it takes another one (TODO:18 lists the race).                  *)
InterruptEndsLoop == at \in Loop \ {"clear"} /\ flag ~> at \notin Loop

(* "I can assume indexes will match" (wrapper-lexbor-curl.c:180-181): the  *)
(* scripts that are emptied are those that failed.                         *)
IndexesMatch == at = "remove" => FailedEmptied /\ LocalKept

=============================================================================
