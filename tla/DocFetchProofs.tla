--------------------------- MODULE DocFetchProofs ---------------------------
(***************************************************************************)
(* Proofs about DocFetch, for any urls, any memory, any number of pages    *)
(* and any number of redirections.                                         *)
(***************************************************************************)
EXTENDS DocFetch, SequenceTheorems, TLAPS

(* The invariant.  How far each call is: all but the last wait for the     *)
(* second document of a redirection, to which they gave req_replace.       *)
Staged ==
    /\ asked = 0 <=> calls = <<>>
    /\ asked <= Len(tabs) + 1
    /\ r # Nil <=> calls # <<>> /\ ~Refetching
    /\ \A k \in DOMAIN calls :
          /\ k < depth => calls[k].at = "post"
          /\ calls[k].replace # Nil <=> k < depth \/ calls[k].at = "unreplaced"
          /\ calls[k].at \in EntryUsed => calls[k].entry

(* Every document in use is in one tab or in one call.                     *)
Placed ==
    /\ \A i, j \in DOMAIN tabs : tabs[i] = tabs[j] => i = j
    /\ \A j, k \in DOMAIN calls : calls[j].doc = calls[k].doc => j = k
    /\ \A i \in DOMAIN tabs, k \in DOMAIN calls : tabs[i] # calls[k].doc
    /\ \A p \in Ptr : docs[p] # Nil <=> (\E i \in DOMAIN tabs : tabs[i] = p) \/ (\E k \in DOMAIN calls : calls[k].doc = p)

(* The request of a tab, of the command or of a redirection has one name.  *)
Named ==
    /\ \A i \in DOMAIN tabs : docs[tabs[i]].req \in Body /\ docs[tabs[i]].req # r
    /\ \A i, j \in DOMAIN tabs : docs[tabs[i]].req = docs[tabs[j]].req => i = j
    /\ \A i \in DOMAIN tabs, k \in DOMAIN calls : docs[tabs[i]].req # calls[k].replace
    /\ \A k \in DOMAIN calls : calls[k].replace # Nil => calls[k].replace # r
    /\ \A j, k \in DOMAIN calls : calls[j].replace = calls[k].replace /\ calls[j].replace # Nil => j = k

Owned(b) ==
    \/ \E i \in DOMAIN tabs : docs[tabs[i]].req = b
    \/ b = r
    \/ \E k \in DOMAIN calls : calls[k].replace = b

(* The request the k-th call was given.                                    *)
Given(k) ==
    IF k > 1 THEN calls[k - 1].replace
    ELSE IF Refetching THEN docs[tabs[asked]].req
    ELSE r

(* A call works on the request it was given; once it was redirected that   *)
(* one was released, and it has the document of the second one.            *)
Handed ==
    \A k \in DOMAIN calls :
        IF calls[k].at = "replaced" THEN docs[calls[k].doc].req \in Body /\ ~Owned(docs[calls[k].doc].req)
        ELSE docs[calls[k].doc].req = Given(k)

(* What is released is what nobody owns, but for the request of a call     *)
(* that was redirected.                                                    *)
Alive ==
    \A b \in Body :
        bodies[b] # Nil <=>
            IF In("replaced") THEN b = Doc.req \/ (Owned(b) /\ b # Given(depth)) ELSE Owned(b)

Fetched ==
    /\ \A i \in DOMAIN tabs : docs[tabs[i]].shows \in Url
    /\ \A k \in DOMAIN calls :
          calls[k].at \in {"scripts", "draw", "post", "replaced"} => docs[calls[k].doc].shows \in Url

IInv == TypeOK /\ Staged /\ Placed /\ Named /\ Handed /\ Alive /\ Fetched

(* What the invariant says of the call that runs.                          *)
LEMMA Running ==
    ASSUME IInv, calls # <<>>
    PROVE  /\ depth \in Nat \ {0} /\ DOMAIN calls = 1..depth /\ depth \in DOMAIN calls
           /\ Top \in Call /\ Doc \in HtmlDoc /\ Doc # Nil
           /\ Top.at # "replaced" => /\ Doc.req = Given(depth) /\ Doc.req \in Body
                                     /\ Owned(Doc.req) /\ Req \in Request
<1>1. depth \in Nat \ {0} /\ DOMAIN calls = 1..depth /\ depth \in DOMAIN calls
  BY EmptySeq, LenProperties DEF IInv, TypeOK, depth
<1>2. Top \in Call /\ Top.doc \in Ptr
  <2>1. calls[depth] \in Call BY <1>1 DEF IInv, TypeOK
  <2> QED BY <2>1 DEF Top, Call
<1>3. Doc # Nil BY <1>1, <1>2 DEF IInv, Placed, Doc, Top
<1>4. Doc \in HtmlDoc BY <1>2, <1>3 DEF IInv, TypeOK, Doc
<1>5. ASSUME Top.at # "replaced"
      PROVE  Doc.req = Given(depth) /\ Doc.req \in Body /\ Owned(Doc.req) /\ Req \in Request
  <2>1. Doc.req = Given(depth) BY <1>1, <1>5 DEF IInv, Handed, Doc, Top
  <2>2. Given(depth) # Nil /\ Owned(Given(depth))
    <3>1. CASE depth > 1
      <4>1. depth - 1 \in DOMAIN calls /\ depth - 1 < depth BY <1>1, <3>1
      <4> QED BY <4>1, <3>1 DEF IInv, Staged, Given, Owned
    <3>2. CASE depth = 1 /\ Refetching
      <4>1. docs[tabs[asked]].req \in Body BY <3>2 DEF IInv, Named, Refetching
      <4> QED BY <3>2, <4>1, NilAssumption DEF Given, Owned, Refetching
    <3>3. CASE depth = 1 /\ ~Refetching BY <3>3 DEF IInv, Staged, Given, Owned
    <3> QED BY <1>1, <3>1, <3>2, <3>3
  <2>3. Doc.req \in Body BY <1>4, <2>1, <2>2 DEF HtmlDoc
  <2>4. ~In("replaced") BY <1>5 DEF In
  <2>5. Req # Nil BY <2>1, <2>2, <2>3, <2>4 DEF IInv, Alive, Req
  <2> QED BY <2>1, <2>2, <2>3, <2>5 DEF IInv, TypeOK, Req
<1> QED BY <1>1, <1>2, <1>3, <1>4, <1>5

(* A step of the running call that neither ends it nor starts another one. *)
LEMMA WorkStep ==
    ASSUME IInv, calls # <<>>,
           NEW stage \in {"scripts", "draw", "post", "failed"}, NEW d \in HtmlDoc, NEW q \in Request,
           Top.at \in EntryUsed \cup {"post"}, stage \in EntryUsed => Top.at \in EntryUsed,
           stage \in {"scripts", "draw", "post"} => d.shows \in Url,
           calls' = [calls EXCEPT ![depth].at = stage],
           docs' = [docs EXCEPT ![Top.doc] = d], d.req = Doc.req,
           bodies' = [bodies EXCEPT ![Doc.req] = q],
           UNCHANGED <<tabs, r, asked, js>>
    PROVE  IInv'
<1>1. /\ depth \in Nat \ {0} /\ DOMAIN calls = 1..depth /\ depth \in DOMAIN calls
      /\ Top \in Call /\ Doc \in HtmlDoc /\ Doc # Nil
      /\ Doc.req = Given(depth) /\ Doc.req \in Body /\ Owned(Doc.req) /\ Req \in Request
  BY Running DEF EntryUsed
<1>2. /\ calls' \in Seq(Call) /\ Len(calls') = depth /\ DOMAIN calls' = 1..depth
      /\ \A k \in 1..depth : /\ calls'[k].doc = calls[k].doc /\ calls'[k].entry = calls[k].entry
                             /\ calls'[k].replace = calls[k].replace
                             /\ calls'[k].at = IF k = depth THEN stage ELSE calls[k].at
  <2>1. calls \in Seq(Call) /\ depth = Len(calls) BY DEF IInv, TypeOK, depth
  <2>2. [calls[depth] EXCEPT !.at = stage] \in Call BY <1>1 DEF Top, Call, Stage
  <2>3. calls' = [calls EXCEPT ![depth] = [calls[depth] EXCEPT !.at = stage]] BY <1>1
  <2> QED BY <1>1, <2>1, <2>2, <2>3, ExceptSeq, LenProperties DEF Call
<1>3. \A p \in Ptr : docs'[p] = IF p = Top.doc THEN d ELSE docs[p]
  BY DEF IInv, TypeOK
<1>4. \A i \in DOMAIN tabs : tabs[i] # Top.doc /\ docs'[tabs[i]] = docs[tabs[i]]
  BY <1>1, <1>3 DEF IInv, Placed, Top, TypeOK
<1>5. \A k \in DOMAIN calls : docs'[calls[k].doc].req = docs[calls[k].doc].req
  BY <1>1, <1>3 DEF IInv, TypeOK, Call, Doc
<1>6. TypeOK'
  BY <1>1, <1>2, <1>3 DEF IInv, TypeOK, depth
<1>7. Staged'
  BY <1>1, <1>2 DEF IInv, Staged, Refetching, depth, Top, EntryUsed
<1>8. Placed'
  <2>1. d # Nil BY NilAssumption
  <2> QED BY <1>1, <1>2, <1>3, <2>1 DEF IInv, Placed, Doc, Top
<1>9. Named'
  BY <1>1, <1>2, <1>4 DEF IInv, Named
<1>10. \A b \in Body : Owned(b)' <=> Owned(b)
  BY <1>1, <1>2, <1>4 DEF Owned
<1>11. \A k \in DOMAIN calls : Given(k)' = Given(k)
  BY <1>1, <1>2, <1>4 DEF Given, Refetching
<1>12. Handed'
  BY <1>1, <1>2, <1>5, <1>10, <1>11 DEF IInv, Handed, EntryUsed, Top
<1>13. Alive'
  BY <1>1, <1>2, <1>10, NilAssumption DEF IInv, Alive, In, EntryUsed, Top, depth, TypeOK
<1>14. Fetched'
  <2>1. ASSUME NEW k \in 1..depth, calls'[k].at \in {"scripts", "draw", "post", "replaced"}
        PROVE  docs'[calls'[k].doc].shows \in Url
    <3>0. calls[k] \in Call BY <1>1 DEF IInv, TypeOK
    <3>1. calls[k].doc \in Ptr /\ calls'[k].doc = calls[k].doc BY <1>2, <3>0 DEF Call
    <3>2. k = depth => calls[k].doc = Top.doc BY DEF Top
    <3>3. k # depth => docs'[calls[k].doc] = docs[calls[k].doc]
      BY <1>1, <1>3, <3>1 DEF IInv, Placed, Top
    <3> QED BY <1>1, <1>2, <1>3, <2>1, <3>1, <3>2, <3>3 DEF IInv, Fetched
  <2> QED BY <1>2, <1>4, <2>1 DEF IInv, Fetched
<1> QED BY <1>6, <1>7, <1>8, <1>9, <1>12, <1>13, <1>14 DEF IInv

(* Between commands nothing but the tabs owns anything.                    *)
LEMMA Idle ==
    ASSUME IInv, asked = 0
    PROVE  /\ calls = <<>> /\ DOMAIN calls = {} /\ r = Nil /\ ~In("replaced")
           /\ tabs \in Seq(Ptr) /\ Len(tabs) \in Nat /\ DOMAIN tabs = 1..Len(tabs)
           /\ \A i \in DOMAIN tabs : tabs[i] \in Ptr
           /\ \A b \in Body : Owned(b) <=> \E i \in DOMAIN tabs : docs[tabs[i]].req = b
<1>1. calls = <<>> BY DEF IInv, Staged
<1>2. DOMAIN calls = {} BY <1>1
<1>3. r = Nil BY <1>1 DEF IInv, Staged
<1>4. tabs \in Seq(Ptr) BY DEF IInv, TypeOK
<1>5. Len(tabs) \in Nat /\ DOMAIN tabs = 1..Len(tabs) /\ \A i \in DOMAIN tabs : tabs[i] \in Ptr
  BY <1>4, LenProperties
<1>6. \A b \in Body : Owned(b) <=> \E i \in DOMAIN tabs : docs[tabs[i]].req = b
  BY <1>2, <1>3, NilAssumption DEF Owned
<1> QED BY <1>1, <1>2, <1>3, <1>4, <1>5, <1>6 DEF In

(* The stack of a command that starts has one call.                        *)
LEMMA OneCall ==
    ASSUME NEW p \in Ptr
    PROVE  /\ <<NewCall(p)>> \in Seq(Call) /\ Len(<<NewCall(p)>>) = 1 /\ DOMAIN <<NewCall(p)>> = {1}
           /\ <<NewCall(p)>>[1].doc = p /\ <<NewCall(p)>>[1].at = "fetch"
           /\ <<NewCall(p)>>[1].entry = TRUE /\ <<NewCall(p)>>[1].replace = Nil
           /\ <<NewCall(p)>> # <<>>
<1>1. NewCall(p) \in Call BY DEF NewCall, Call, Stage
<1> QED BY <1>1 DEF NewCall

(* A command on a new page starts.                                         *)
LEMMA OpenInv ==
    ASSUME IInv, NEW p \in Ptr, NEW b \in Body, NEW request \in NewRequest, Open(p, b, request)
    PROVE  IInv'
<1>1. /\ calls = <<>> /\ DOMAIN calls = {} /\ r = Nil /\ ~In("replaced")
      /\ tabs \in Seq(Ptr) /\ Len(tabs) \in Nat /\ DOMAIN tabs = 1..Len(tabs)
      /\ \A i \in DOMAIN tabs : tabs[i] \in Ptr
      /\ \A x \in Body : Owned(x) <=> \E i \in DOMAIN tabs : docs[tabs[i]].req = x
  BY Idle DEF Open
<1>2. /\ calls' \in Seq(Call) /\ Len(calls') = 1 /\ DOMAIN calls' = {1} /\ calls' # <<>>
      /\ calls'[1].doc = p /\ calls'[1].at = "fetch" /\ calls'[1].entry = TRUE /\ calls'[1].replace = Nil
  BY OneCall DEF Open
<1>3. request \in Request BY DEF NewRequest, Request
<1>4. NewDoc(b) \in HtmlDoc /\ NewDoc(b) # Nil /\ NewDoc(b).req = b
  BY NilAssumption DEF NewDoc, HtmlDoc
<1>5. /\ \A x \in Ptr : docs'[x] = IF x = p THEN NewDoc(b) ELSE docs[x]
      /\ \A x \in Body : bodies'[x] = IF x = b THEN request ELSE bodies[x]
      /\ docs[p] = Nil /\ bodies[b] = Nil /\ tabs' = tabs /\ r' = b /\ asked' = Len(tabs) + 1
  BY DEF Open, IInv, TypeOK, FreePtr, FreeBody
<1>6. \A i \in DOMAIN tabs : tabs[i] # p /\ docs'[tabs[i]] = docs[tabs[i]] /\ docs[tabs[i]].req # b
  <2>1. \A i \in DOMAIN tabs : docs[tabs[i]] # Nil BY <1>1 DEF IInv, Placed
  <2>2. ~Owned(b) BY <1>1, <1>5 DEF IInv, Alive
  <2> QED BY <1>1, <1>5, <2>1, <2>2
<1>7. TypeOK'
  BY <1>2, <1>3, <1>4, BoundAssumption DEF IInv, TypeOK, Open
<1>8. Staged'
  BY <1>1, <1>2, <1>5, NilAssumption DEF IInv, Staged, Refetching, depth, EntryUsed
<1>9. Placed'
  BY <1>1, <1>2, <1>4, <1>5, <1>6 DEF IInv, Placed
<1>10. Named'
  BY <1>1, <1>2, <1>5, <1>6, NilAssumption DEF IInv, Named
<1>11. \A x \in Body : Owned(x)' <=> Owned(x) \/ x = b
  BY <1>1, <1>2, <1>5, <1>6, NilAssumption DEF Owned
<1>12. Handed'
  BY <1>1, <1>2, <1>4, <1>5 DEF Handed, Given, Refetching
<1>13. Alive'
  BY <1>1, <1>2, <1>3, <1>5, <1>11, NilAssumption DEF IInv, Alive, In, Top, depth
<1>14. Fetched'
  BY <1>1, <1>2, <1>5, <1>6 DEF IInv, Fetched
<1> QED BY <1>7, <1>8, <1>9, <1>10, <1>12, <1>13, <1>14 DEF IInv

(* A refetch starts, with the request of its tab.                          *)
LEMMA RefetchInv ==
    ASSUME IInv, NEW p \in Ptr, NEW t \in DOMAIN tabs, cmd_fetch(p, t)
    PROVE  IInv'
<1>1. /\ calls = <<>> /\ DOMAIN calls = {} /\ r = Nil /\ ~In("replaced")
      /\ tabs \in Seq(Ptr) /\ Len(tabs) \in Nat /\ DOMAIN tabs = 1..Len(tabs)
      /\ \A i \in DOMAIN tabs : tabs[i] \in Ptr
      /\ \A x \in Body : Owned(x) <=> \E i \in DOMAIN tabs : docs[tabs[i]].req = x
  BY Idle DEF cmd_fetch
<1>2. /\ calls' \in Seq(Call) /\ Len(calls') = 1 /\ DOMAIN calls' = {1} /\ calls' # <<>>
      /\ calls'[1].doc = p /\ calls'[1].at = "fetch" /\ calls'[1].entry = TRUE /\ calls'[1].replace = Nil
  BY OneCall DEF cmd_fetch
<1>3. docs[tabs[t]].req \in Body BY DEF IInv, Named
<1>4. NewDoc(docs[tabs[t]].req) \in HtmlDoc /\ NewDoc(docs[tabs[t]].req) # Nil /\ NewDoc(docs[tabs[t]].req).req = docs[tabs[t]].req
  BY <1>3, NilAssumption DEF NewDoc, HtmlDoc
<1>5. /\ \A x \in Ptr : docs'[x] = IF x = p THEN NewDoc(docs[tabs[t]].req) ELSE docs[x]
      /\ docs[p] = Nil /\ bodies' = bodies /\ tabs' = tabs /\ r' = Nil /\ asked' = t
  BY <1>1 DEF cmd_fetch, IInv, TypeOK, FreePtr
<1>6. \A i \in DOMAIN tabs : tabs[i] # p /\ docs'[tabs[i]] = docs[tabs[i]]
  <2>1. \A i \in DOMAIN tabs : docs[tabs[i]] # Nil BY <1>1 DEF IInv, Placed
  <2> QED BY <1>1, <1>5, <2>1
<1>7. TypeOK'
  BY <1>1, <1>2, <1>4, BoundAssumption DEF IInv, TypeOK, cmd_fetch
<1>8. Staged'
  BY <1>1, <1>2, <1>5 DEF IInv, Staged, Refetching, depth, EntryUsed
<1>9. Placed'
  BY <1>1, <1>2, <1>4, <1>5, <1>6 DEF IInv, Placed
<1>10. Named'
  BY <1>1, <1>2, <1>5, <1>6, NilAssumption DEF IInv, Named
<1>11. \A x \in Body : Owned(x)' <=> Owned(x)
  BY <1>1, <1>2, <1>5, <1>6, NilAssumption DEF Owned
<1>12. Handed'
  BY <1>1, <1>2, <1>4, <1>5, <1>6 DEF Handed, Given, Refetching
<1>13. Alive'
  BY <1>1, <1>2, <1>5, <1>11 DEF IInv, Alive, In, Top, depth
<1>14. Fetched'
  BY <1>1, <1>2, <1>5, <1>6 DEF IInv, Fetched
<1> QED BY <1>7, <1>8, <1>9, <1>10, <1>12, <1>13, <1>14 DEF IInv

(* Two calls work on two requests, and each has an owner.                  *)
LEMMA GivenFacts ==
    ASSUME IInv, calls # <<>>
    PROVE  /\ \A k \in DOMAIN calls : Given(k) \in Body /\ Owned(Given(k))
           /\ \A j, k \in DOMAIN calls : Given(j) = Given(k) => j = k
<1>1. depth \in Nat \ {0} /\ DOMAIN calls = 1..depth BY Running
<1>2. \A k \in 1..depth : k > 1 => k - 1 \in 1..depth /\ calls[k - 1].replace # Nil /\ calls[k - 1].replace \in Body
  <2> SUFFICES ASSUME NEW k \in 1..depth, k > 1
               PROVE  k - 1 \in 1..depth /\ calls[k - 1].replace # Nil /\ calls[k - 1].replace \in Body
    OBVIOUS
  <2>1. k - 1 \in 1..depth /\ k - 1 < depth BY <1>1
  <2>2. calls[k - 1] \in Call BY <1>1, <2>1 DEF IInv, TypeOK
  <2> QED BY <1>1, <2>1, <2>2 DEF IInv, Staged, Call
<1>3. Given(1) \in Body /\ Owned(Given(1))
  <2>1. CASE Refetching BY <2>1 DEF IInv, Named, Given, Owned, Refetching
  <2>2. CASE ~Refetching
    <3>1. r # Nil /\ r \in Body BY <2>2 DEF IInv, Staged, TypeOK
    <3> QED BY <2>2, <3>1 DEF Given, Owned
  <2> QED BY <2>1, <2>2
<1>4. \A k \in 1..depth : k > 1 => Given(k) = calls[k - 1].replace /\ Given(k) \in Body /\ Owned(Given(k))
  BY <1>1, <1>2 DEF Given, Owned
<1>5. \A k \in 1..depth : k > 1 => Given(k) # Given(1)
  <2> SUFFICES ASSUME NEW k \in 1..depth, k > 1 PROVE Given(k) # Given(1)
    OBVIOUS
  <2>1. k - 1 \in DOMAIN calls /\ Given(k) = calls[k - 1].replace /\ Given(k) # Nil
    BY <1>1, <1>2, <1>4
  <2>2. CASE Refetching BY <2>1, <2>2 DEF IInv, Named, Given, Refetching
  <2>3. CASE ~Refetching BY <2>1, <2>3 DEF IInv, Named, Given
  <2> QED BY <2>2, <2>3
<1>6. \A j, k \in 1..depth : j > 1 /\ k > 1 /\ Given(j) = Given(k) => j = k
  <2> SUFFICES ASSUME NEW j \in 1..depth, NEW k \in 1..depth, j > 1, k > 1, Given(j) = Given(k) PROVE j = k
    OBVIOUS
  <2>1. /\ j - 1 \in DOMAIN calls /\ k - 1 \in DOMAIN calls
        /\ calls[j - 1].replace = calls[k - 1].replace /\ calls[j - 1].replace # Nil
    BY <1>1, <1>2, <1>4
  <2>2. j - 1 = k - 1 BY <2>1 DEF IInv, Named
  <2> QED BY <2>2
<1> QED BY <1>1, <1>3, <1>4, <1>5, <1>6

(* A call that is not the first one: the one that waits for it.            *)
LEMMA Waiting ==
    ASSUME IInv, calls # <<>>, depth > 1
    PROVE  /\ depth - 1 \in DOMAIN calls /\ depth - 1 \in Nat \ {0} /\ depth - 1 < depth
           /\ Leave \in Seq(Call) /\ Len(Leave) = depth - 1
           /\ \A k \in 1..depth - 1 : Leave[k] = calls[k] /\ calls[k] \in Call /\ calls[k].at = "post"
           /\ Given(depth) = calls[depth - 1].replace
<1>1. depth \in Nat \ {0} /\ DOMAIN calls = 1..depth BY Running
<1>2. calls \in Seq(Call) /\ \A k \in 1..depth : calls[k] \in Call BY <1>1 DEF IInv, TypeOK
<1>3. Leave \in Seq(Call) /\ Len(Leave) = depth - 1 /\ \A k \in 1..depth - 1 : Leave[k] = calls[k]
  BY <1>1, <1>2, SubSeqProperties DEF Leave
<1>4. \A k \in 1..depth - 1 : calls[k].at = "post" BY <1>1 DEF IInv, Staged
<1> QED BY <1>1, <1>2, <1>3, <1>4 DEF Given

(* A script sent its document elsewhere: one more call, a new body.        *)
LEMMA RedirectInv ==
    ASSUME IInv, NEW p \in Ptr, NEW b \in Body, Redirect(p, b)
    PROVE  IInv'
<1>0. calls # <<>> /\ Top.at = "post" /\ depth <= MaxRedirects BY DEF Redirect, In
<1>1. /\ calls # <<>> /\ depth \in Nat \ {0} /\ DOMAIN calls = 1..depth /\ Top.at = "post"
      /\ Req \in Request /\ Top.replace = Nil
  <2>1. depth \in Nat \ {0} /\ DOMAIN calls = 1..depth /\ Req \in Request BY <1>0, Running
  <2>2. Top.replace = Nil BY <1>0, <2>1 DEF IInv, Staged, Top
  <2> QED BY <1>0, <2>1, <2>2
<1>2. \A k \in 1..depth : calls[k] \in Call BY <1>1 DEF IInv, TypeOK
<1>3. /\ calls' \in Seq(Call) /\ Len(calls') = depth + 1 /\ DOMAIN calls' = 1..depth + 1 /\ calls' # <<>>
      /\ \A k \in 1..depth : /\ calls'[k].doc = calls[k].doc /\ calls'[k].entry = FALSE
                             /\ calls'[k].at = "post"
                             /\ calls'[k].replace = IF k = depth THEN b ELSE calls[k].replace
      /\ calls'[depth + 1].doc = p /\ calls'[depth + 1].at = "fetch"
      /\ calls'[depth + 1].entry = TRUE /\ calls'[depth + 1].replace = Nil
  <2> DEFINE Waits(k) == [calls[k] EXCEPT !.entry = FALSE, !.replace = IF k = depth THEN b ELSE @]
  <2>1. \A k \in 1..depth : Waits(k) \in Call /\ Waits(k).doc = calls[k].doc /\ Waits(k).entry = FALSE
                            /\ Waits(k).at = calls[k].at
                            /\ Waits(k).replace = IF k = depth THEN b ELSE calls[k].replace
    BY <1>2 DEF Call
  <2>2. \A k \in 1..depth : calls[k].at = "post" BY <1>1 DEF IInv, Staged, Top
  <2>3. NewCall(p) \in Call BY DEF NewCall, Call, Stage
  <2>4. calls' = Append([k \in 1..depth |-> Waits(k)], NewCall(p)) BY DEF Redirect
  <2> HIDE DEF Waits
  <2>5. [k \in 1..depth |-> Waits(k)] \in Seq(Call) /\ Len([k \in 1..depth |-> Waits(k)]) = depth
    BY <1>1, <2>1
  <2>6. /\ calls' \in Seq(Call) /\ Len(calls') = depth + 1
        /\ \A k \in 1..depth : calls'[k] = Waits(k)
        /\ calls'[depth + 1] = NewCall(p)
    BY <1>1, <2>3, <2>4, <2>5, AppendProperties
  <2>7. DOMAIN calls' = 1..depth + 1 /\ calls' # <<>> BY <1>1, <2>6
  <2> QED BY <1>1, <2>1, <2>2, <2>6, <2>7 DEF NewCall
<1>n. PICK n \in Nat : n = depth + 1 /\ n \in 1..n /\ n - 1 = depth /\ n > 1 /\ \A k \in 1..n : k # n => k \in 1..depth /\ k - 1 # depth BY <1>1
<1>4. /\ NewDoc(b) \in HtmlDoc /\ NewDoc(b) # Nil /\ NewDoc(b).req = b
      /\ [method |-> Req.method, data |-> "none", url |-> Req.url] \in Request
      /\ [method |-> Req.method, data |-> "none", url |-> Req.url] # Nil
  BY <1>1, NilAssumption DEF NewDoc, HtmlDoc, Request
<1>5. /\ \A x \in Ptr : docs'[x] = IF x = p THEN NewDoc(b) ELSE docs[x]
      /\ \A x \in Body : x # b => bodies'[x] = bodies[x]
      /\ bodies'[b] # Nil
      /\ docs[p] = Nil /\ bodies[b] = Nil /\ tabs' = tabs /\ r' = r /\ asked' = asked
  BY <1>4 DEF Redirect, IInv, TypeOK, FreePtr, FreeBody
<1>6. ~Owned(b) BY <1>1, <1>5 DEF IInv, Alive, In
<1>7. /\ \A i \in DOMAIN tabs : tabs[i] \in Ptr /\ tabs[i] # p /\ docs'[tabs[i]] = docs[tabs[i]]
      /\ \A k \in 1..depth : calls[k].doc \in Ptr /\ calls[k].doc # p /\ docs'[calls[k].doc] = docs[calls[k].doc]
  <2>1. \A i \in DOMAIN tabs : tabs[i] \in Ptr /\ docs[tabs[i]] # Nil BY DEF IInv, Placed, TypeOK
  <2>2. \A k \in 1..depth : calls[k].doc \in Ptr BY <1>2 DEF Call
  <2>3. \A k \in 1..depth : docs[calls[k].doc] # Nil BY <1>1, <2>2 DEF IInv, Placed
  <2> QED BY <1>5, <2>1, <2>2, <2>3
<1>8. TypeOK'
  <2>1. calls' \in Seq(Call) /\ Len(calls') <= MaxRedirects + 1
    BY <1>0, <1>1, <1>3, BoundAssumption
  <2>2. docs' \in [Ptr -> HtmlDoc \cup {Nil}] /\ bodies' \in [Body -> Request \cup {Nil}]
    BY <1>4 DEF Redirect, IInv, TypeOK
  <2> QED BY <1>5, <2>1, <2>2 DEF IInv, TypeOK, Redirect
<1>9. Staged'
  <2>1. Refetching' = Refetching BY <1>5 DEF Refetching
  <2>2. \A k \in 1..depth : calls[k].replace # Nil <=> k < depth
    BY <1>1 DEF IInv, Staged, Top
  <2>3. \A k \in 1..n : /\ k < n => calls'[k].at = "post"
                        /\ calls'[k].replace # Nil <=> k < n \/ calls'[k].at = "unreplaced"
                        /\ calls'[k].at \in EntryUsed => calls'[k].entry
    BY <1>1, <1>n, <1>3, <2>2, NilAssumption DEF EntryUsed
  <2>4. asked # 0 /\ (r # Nil <=> ~Refetching) /\ asked <= Len(tabs) + 1 BY <1>1 DEF IInv, Staged
  <2>5. DOMAIN calls' = 1..n /\ depth' = n /\ calls' # <<>> BY <1>n, <1>3 DEF depth
  <2>6. (asked = 0 <=> calls = <<>>)' /\ (asked <= Len(tabs) + 1)' /\ (r # Nil <=> calls # <<>> /\ ~Refetching)'
    BY <1>5, <2>1, <2>4, <2>5
  <2> QED BY <2>3, <2>5, <2>6 DEF Staged
<1>10. Placed'
  <2>1. \A k \in 1..n : calls'[k].doc = IF k = n THEN p ELSE calls[k].doc BY <1>1, <1>n, <1>3
  <2>2. \A j, k \in 1..n : calls'[j].doc = calls'[k].doc => j = k
    BY <1>1, <1>n, <1>7, <2>1 DEF IInv, Placed
  <2>3. \A i \in DOMAIN tabs, k \in 1..n : tabs[i] # calls'[k].doc
    BY <1>1, <1>n, <1>7, <2>1 DEF IInv, Placed
  <2>4. \A x \in Ptr : (\E k \in 1..n : calls'[k].doc = x) <=> x = p \/ \E k \in DOMAIN calls : calls[k].doc = x
    BY <1>1, <1>n, <2>1
  <2>5. \A x \in Ptr : docs'[x] # Nil <=> (\E i \in DOMAIN tabs : tabs[i] = x) \/ (\E k \in 1..n : calls'[k].doc = x)
    BY <1>4, <1>5, <2>4 DEF IInv, Placed
  <2> QED BY <1>n, <1>3, <1>5, <2>2, <2>3, <2>5 DEF IInv, Placed
<1>11. Named'
  <2>1. \A k \in 1..depth + 1 : calls'[k].replace = IF k = depth THEN b ELSE IF k = depth + 1 THEN Nil ELSE calls[k].replace
    BY <1>1, <1>3
  <2>2. \A k \in 1..depth + 1 : k # depth + 1 => k \in 1..depth BY <1>1
  <2>3. \A i \in DOMAIN tabs : docs'[tabs[i]].req = docs[tabs[i]].req /\ docs[tabs[i]].req \in Body /\ docs[tabs[i]].req # b
    BY <1>6, <1>7 DEF IInv, Named, Owned
  <2>4. \A k \in 1..depth : calls[k].replace # b BY <1>1, <1>6 DEF Owned
  <2>5. b # r /\ b # Nil /\ \A x \in Body : x # Nil BY <1>6, NilAssumption DEF Owned
  <2>6. (\A i \in DOMAIN tabs : docs[tabs[i]].req \in Body /\ docs[tabs[i]].req # r)'
    BY <1>5, <2>3 DEF IInv, Named
  <2>7. (\A i, j \in DOMAIN tabs : docs[tabs[i]].req = docs[tabs[j]].req => i = j)'
    BY <1>5, <2>3 DEF IInv, Named
  <2>8. (\A i \in DOMAIN tabs, k \in DOMAIN calls : docs[tabs[i]].req # calls[k].replace)'
    BY <1>1, <1>3, <1>5, <2>1, <2>2, <2>3, <2>5 DEF IInv, Named
  <2>9. (\A k \in DOMAIN calls : calls[k].replace # Nil => calls[k].replace # r)'
    BY <1>1, <1>3, <1>5, <2>1, <2>2, <2>5 DEF IInv, Named
  <2>10. (\A j, k \in DOMAIN calls : calls[j].replace = calls[k].replace /\ calls[j].replace # Nil => j = k)'
    BY <1>1, <1>3, <2>1, <2>2, <2>4 DEF IInv, Named
  <2> QED BY <2>6, <2>7, <2>8, <2>9, <2>10 DEF Named
<1>12. \A x \in Body : Owned(x)' <=> Owned(x) \/ x = b
  <2>1. \A x \in Body : (\E k \in 1..n : calls'[k].replace = x) <=> x = b \/ \E k \in DOMAIN calls : calls[k].replace = x
    <3>1. depth \in 1..n /\ \A k \in 1..depth : k \in 1..n BY <1>1, <1>n
    <3> QED BY <1>1, <1>n, <1>3, <3>1, NilAssumption DEF Top
  <2>2. \A x \in Body : (\E i \in DOMAIN tabs' : docs'[tabs'[i]].req = x) <=> \E i \in DOMAIN tabs : docs[tabs[i]].req = x
    BY <1>5, <1>7
  <2>3. DOMAIN calls' = 1..n BY <1>n, <1>3
  <2> QED BY <1>5, <2>1, <2>2, <2>3 DEF Owned
<1>13. Handed'
  <2>1. \A k \in 1..depth : Given(k)' = Given(k)
    BY <1>1, <1>3, <1>5, <1>7 DEF Given, Refetching
  <2>2. Given(n)' = b
    <3>1. Given(n)' = calls'[n - 1].replace BY <1>n DEF Given
    <3> QED BY <1>1, <1>n, <1>3, <3>1
  <2>3. \A k \in 1..depth : docs[calls[k].doc].req = Given(k)
    BY <1>1 DEF IInv, Handed, Staged, Top
  <2>4. \A k \in 1..n : calls'[k].at # "replaced" /\ docs'[calls'[k].doc].req = Given(k)'
    BY <1>1, <1>n, <1>3, <1>4, <1>5, <1>7, <2>1, <2>2, <2>3
  <2> QED BY <1>n, <1>3, <2>4 DEF Handed
<1>14. Alive'
  <2>1. ~In("replaced")' BY <1>1, <1>3 DEF In, Top, depth
  <2>2. ~In("replaced") BY <1>1 DEF In
  <2> QED BY <1>5, <1>12, <2>1, <2>2 DEF IInv, Alive
<1>15. Fetched'
  <2>1. \A k \in 1..depth : calls[k].at = "post" BY <1>1 DEF IInv, Staged, Top
  <2> QED BY <1>1, <1>n, <1>3, <1>5, <1>7, <2>1 DEF IInv, Fetched
<1> QED BY <1>8, <1>9, <1>10, <1>11, <1>13, <1>14, <1>15 DEF IInv

(* The steps that neither end the running call nor start another one.      *)
LEMMA AdvanceInv ==
    ASSUME IInv, calls # <<>>, Top.at \in EntryUsed \cup {"post"},
           NEW stage \in {"draw", "post", "failed"},
           stage # "failed" => Top.at \in {"scripts", "draw"},
           Advance(stage), UNCHANGED <<bodies, docs, tabs, r, asked, js>>
    PROVE  IInv'
<1>1. /\ Top \in Call /\ Doc \in HtmlDoc /\ Req \in Request /\ Top.doc \in Ptr /\ Doc.req \in Body
      /\ depth \in DOMAIN calls
  BY Running DEF Call, EntryUsed
<1>2. docs' = [docs EXCEPT ![Top.doc] = Doc] BY <1>1 DEF IInv, TypeOK, Doc
<1>3. bodies' = [bodies EXCEPT ![Doc.req] = Req] BY <1>1 DEF IInv, TypeOK, Req
<1>4. stage \in {"draw", "post"} => Doc.shows \in Url BY <1>1 DEF IInv, Fetched, Doc, Top
<1> QED BY <1>1, <1>2, <1>3, <1>4, WorkStep DEF Advance, EntryUsed

(* A transfer ends, well or not.                                           *)
LEMMA FetchInv ==
    ASSUME IInv, NEW u \in Url, Fetch(u) \/ FetchFails(u) \/ FetchRefused
    PROVE  IInv'
<1>1. calls # <<>> /\ Top.at = "fetch" BY DEF Fetch, FetchFails, FetchRefused, In
<1>2. Doc \in HtmlDoc /\ Req \in Request /\ Top.doc \in Ptr /\ depth \in DOMAIN calls
  BY <1>1, Running DEF Call
<1>3. [set_post_fields(Req) EXCEPT !.url = u] \in Request
  BY <1>2 DEF set_post_fields, Request
<1>4. [Doc EXCEPT !.shows = u] \in HtmlDoc /\ [Doc EXCEPT !.shows = u].req = Doc.req /\ [Doc EXCEPT !.shows = u].shows = u
  BY <1>2 DEF HtmlDoc
<1>5. CASE Fetch(u)
  <2>1. docs' = [docs EXCEPT ![Top.doc] = [Doc EXCEPT !.shows = u]] BY <1>5 DEF Fetch, Doc
  <2>2. /\ bodies' = [bodies EXCEPT ![Doc.req] = [set_post_fields(Req) EXCEPT !.url = u]]
        /\ calls' = [calls EXCEPT ![depth].at = "scripts"] /\ UNCHANGED <<tabs, r, asked, js>>
    BY <1>5 DEF Fetch, Advance
  <2> QED BY <1>1, <1>3, <1>4, <2>1, <2>2, WorkStep DEF EntryUsed
<1>6. CASE FetchFails(u)
  <2>1. docs' = [docs EXCEPT ![Top.doc] = Doc] BY <1>2, <1>6 DEF FetchFails, Doc, IInv, TypeOK
  <2>2. /\ bodies' = [bodies EXCEPT ![Doc.req] = [set_post_fields(Req) EXCEPT !.url = u]]
        /\ calls' = [calls EXCEPT ![depth].at = "failed"] /\ UNCHANGED <<tabs, r, asked, js>>
    BY <1>6 DEF FetchFails, Advance
  <2> QED BY <1>1, <1>2, <1>3, <2>1, <2>2, WorkStep DEF EntryUsed
<1>7. CASE FetchRefused BY <1>1, <1>7, AdvanceInv DEF FetchRefused, EntryUsed
<1> QED BY <1>5, <1>6, <1>7

(* The other stages of a call.                                             *)
LEMMA StepInv ==
    ASSUME IInv, ScriptsEnd \/ Draw \/ StepFails \/ RedirectFails
    PROVE  IInv'
<1>1. CASE ScriptsEnd BY <1>1, AdvanceInv DEF ScriptsEnd, In, EntryUsed
<1>2. CASE Draw BY <1>2, AdvanceInv DEF Draw, In, EntryUsed
<1>3. CASE StepFails BY <1>3, AdvanceInv DEF StepFails, EntryUsed
<1>4. CASE RedirectFails BY <1>4, AdvanceInv DEF RedirectFails, In, EntryUsed
<1> QED BY <1>1, <1>2, <1>3, <1>4

(* A script that sets its location changes the request and the document it *)
(* runs in, and nothing of who owns them.                                  *)
LEMMA ScriptInv ==
    ASSUME IInv, NEW u \in Url, NEW parsed \in BOOLEAN, replace_doc_url(u, parsed)
    PROVE  IInv'
<1>1. calls # <<>> /\ Top.at = "scripts" BY DEF replace_doc_url, In
<1>2. /\ Top \in Call /\ Doc \in HtmlDoc /\ Req \in Request /\ Top.doc \in Ptr /\ Doc.req \in Body
      /\ depth \in DOMAIN calls
  BY <1>1, Running DEF Call
<1> DEFINE post == IF u = Doc.shows THEN "same" ELSE "replace"
           q == IF u # Doc.shows /\ parsed THEN [Req EXCEPT !.url = u] ELSE Req
<1>3. docs' = [docs EXCEPT ![Top.doc] = [Doc EXCEPT !.post = post]] BY DEF replace_doc_url, Doc
<1>4. [Doc EXCEPT !.post = post] \in HtmlDoc /\ [Doc EXCEPT !.post = post].req = Doc.req /\ [Doc EXCEPT !.post = post].shows = Doc.shows
  BY <1>2 DEF HtmlDoc
<1>5. bodies' = [bodies EXCEPT ![Doc.req] = q] BY <1>2 DEF replace_doc_url, Req, IInv, TypeOK
<1>6. q \in Request BY <1>2 DEF Request
<1>7. calls' = [calls EXCEPT ![depth].at = "scripts"]
  <2>1. calls \in Seq(Call) /\ calls[depth] = Top BY DEF IInv, TypeOK, Top
  <2>2. [Top EXCEPT !.at = "scripts"] = Top BY <1>1, <1>2 DEF Call
  <2>3. [calls EXCEPT ![depth] = Top] = calls BY <1>2, <2>1
  <2> QED BY <2>1, <2>2, <2>3 DEF replace_doc_url
<1>8. Doc.shows \in Url BY <1>1, <1>2 DEF IInv, Fetched, Doc, Top
<1>9. UNCHANGED <<tabs, r, asked, js>> BY DEF replace_doc_url
<1> HIDE DEF post, q
<1> QED BY <1>1, <1>3, <1>4, <1>5, <1>6, <1>7, <1>8, <1>9, WorkStep DEF EntryUsed

(* A call that succeeds has its document.  The request it was given is no  *)
(* longer used, unless it is the one of that document.                     *)
LEMMA Success ==
    ASSUME IInv, Succeeds
    PROVE  /\ depth \in Nat \ {0} /\ DOMAIN calls = 1..depth /\ depth \in DOMAIN calls
           /\ Top \in Call /\ Top.doc \in Ptr /\ Doc \in HtmlDoc /\ Doc # Nil
           /\ Doc.req \in Body /\ Doc.shows \in Url /\ Top.replace = Nil
           /\ Doc.req = Given(depth) \/ ~Owned(Doc.req)
           /\ \A b \in Body : bodies[b] # Nil <=> b = Doc.req \/ (Owned(b) /\ b # Given(depth))
<1>1. calls # <<>> /\ Top.at \in {"post", "replaced"} BY DEF Succeeds, In
<1>2. /\ depth \in Nat \ {0} /\ DOMAIN calls = 1..depth /\ depth \in DOMAIN calls
      /\ Top \in Call /\ Top.doc \in Ptr /\ Doc \in HtmlDoc /\ Doc # Nil
  BY <1>1, Running DEF Call
<1>3. Doc.shows \in Url BY <1>1, <1>2 DEF IInv, Fetched, Doc, Top
<1>4. Top.replace = Nil BY <1>1, <1>2 DEF IInv, Staged, Top
<1>5. CASE Top.at = "post"
  <2>1. Doc.req = Given(depth) /\ Doc.req \in Body /\ Owned(Doc.req) BY <1>1, <1>5, Running
  <2>2. ~In("replaced") BY <1>5 DEF In
  <2>3. \A b \in Body : bodies[b] # Nil <=> b = Doc.req \/ (Owned(b) /\ b # Given(depth))
    BY <2>1, <2>2 DEF IInv, Alive
  <2> QED BY <1>2, <1>3, <1>4, <2>1, <2>3
<1>6. CASE Top.at = "replaced"
  <2>1. Doc.req \in Body /\ ~Owned(Doc.req) BY <1>2, <1>6 DEF IInv, Handed, Doc, Top
  <2>2. In("replaced") BY <1>1, <1>6 DEF In
  <2>3. \A b \in Body : bodies[b] # Nil <=> b = Doc.req \/ (Owned(b) /\ b # Given(depth))
    BY <2>2 DEF IInv, Alive
  <2> QED BY <1>2, <1>3, <1>4, <2>1, <2>3
<1> QED BY <1>1, <1>5, <1>6

(* The same of the only call, the one of the command.                      *)
LEMMA Finished ==
    ASSUME IInv, Succeeds, depth = 1
    PROVE  /\ DOMAIN calls = {1} /\ Top = calls[1] /\ Top.doc \in Ptr /\ Doc \in HtmlDoc /\ Doc # Nil
           /\ Doc.req \in Body /\ Doc.shows \in Url /\ Top.replace = Nil
           /\ \A b \in Body : bodies[b] # Nil <=> b = Doc.req \/ (Owned(b) /\ b # Given(1))
           /\ \A i \in DOMAIN tabs : docs[tabs[i]].req = Doc.req => Refetching /\ i = asked
<1>1. DOMAIN calls = {1} /\ Top = calls[1] BY Success DEF Top
<1>2. Given(1) = IF Refetching THEN docs[tabs[asked]].req ELSE r BY DEF Given
<1>3. \A i \in DOMAIN tabs : docs[tabs[i]].req = Doc.req => Refetching /\ i = asked
  <2>1. CASE Doc.req = Given(1) BY <1>2, <2>1 DEF IInv, Named, Refetching
  <2>2. CASE ~Owned(Doc.req) BY <2>2 DEF Owned
  <2> QED BY <2>1, <2>2, Success
<1> QED BY <1>1, <1>3, Success

(* No call runs after the steps that end a command.                        *)
LEMMA ReturnToCommandInv ==
    ASSUME IInv, ReturnToCommand
    PROVE  IInv'
<1>1. /\ DOMAIN calls = {1} /\ Top = calls[1] /\ Top.doc \in Ptr /\ Doc \in HtmlDoc /\ Doc # Nil
      /\ Doc.req \in Body /\ Doc.shows \in Url /\ Top.replace = Nil
      /\ \A b \in Body : bodies[b] # Nil <=> b = Doc.req \/ (Owned(b) /\ b # Given(1))
      /\ \A i \in DOMAIN tabs : docs[tabs[i]].req # Doc.req
  BY Finished DEF ReturnToCommand
<1>2. ~Refetching /\ r' = Nil /\ asked' = 0 /\ calls' = <<>> /\ DOMAIN calls' = {} /\ UNCHANGED <<bodies, docs, js>>
  BY DEF ReturnToCommand
<1>3. PICK n \in Nat : n = Len(tabs) + 1 /\ tabs \in Seq(Ptr) /\ DOMAIN tabs = 1..n - 1
  BY LenProperties DEF IInv, TypeOK
<1>4. /\ tabs' \in Seq(Ptr) /\ Len(tabs') = n /\ DOMAIN tabs' = 1..n /\ n \in 1..n /\ tabs'[n] = Top.doc
      /\ \A i \in 1..n : i # n => i \in DOMAIN tabs /\ tabs'[i] = tabs[i]
  <2>1. tabs' = Append(tabs, Top.doc) BY DEF ReturnToCommand
  <2>2. /\ tabs' \in Seq(Ptr) /\ Len(tabs') = n /\ tabs'[n] = Top.doc
        /\ \A i \in 1..n - 1 : tabs'[i] = tabs[i]
    BY <1>1, <1>3, <2>1, AppendProperties
  <2>3. n \in 1..n /\ \A i \in 1..n : i # n => i \in 1..n - 1 BY <1>3
  <2> QED BY <1>3, <2>2, <2>3
<1>5. \A i \in DOMAIN tabs : i \in 1..n /\ tabs[i] # Top.doc /\ tabs'[i] = tabs[i] /\ tabs[i] \in Ptr /\ docs[tabs[i]].req # r
  <2>1. \A i \in DOMAIN tabs : i \in 1..n /\ i # n BY <1>3
  <2> QED BY <1>1, <1>3, <1>4, <2>1 DEF IInv, Placed, Named
<1>6. asked \in Nat \ {0} /\ asked <= n /\ asked \notin DOMAIN tabs /\ n <= MaxPages
  <2>1. asked # 0 /\ asked <= Len(tabs) + 1 /\ asked \in 0..MaxPages
    BY DEF ReturnToCommand, Succeeds, In, IInv, Staged, TypeOK
  <2>2. asked = n BY <1>2, <1>3, <2>1, BoundAssumption DEF Refetching
  <2> QED BY <1>2, <1>3, <2>1, <2>2, BoundAssumption DEF Refetching
<1>7. TypeOK'
  <2>1. <<>> \in Seq(Call) /\ Len(<<>>) = 0 /\ 0 <= MaxRedirects + 1 /\ 0 \in 0..MaxPages BY BoundAssumption
  <2> QED BY <1>2, <1>4, <1>6, <2>1 DEF IInv, TypeOK
<1>8. Staged' BY <1>2, <1>3, <1>4 DEF Staged
<1>9. Placed'
  <2>1. \A i, j \in 1..n : tabs'[i] = tabs'[j] => i = j BY <1>4, <1>5 DEF IInv, Placed
  <2>2. \A p \in Ptr : (\E i \in 1..n : tabs'[i] = p) <=> p = Top.doc \/ \E i \in DOMAIN tabs : tabs[i] = p
    BY <1>4, <1>5
  <2>3. \A p \in Ptr : docs[p] # Nil <=> p = Top.doc \/ \E i \in DOMAIN tabs : tabs[i] = p
    BY <1>1 DEF IInv, Placed
  <2> QED BY <1>2, <1>4, <2>1, <2>2, <2>3 DEF Placed
<1>10. \A i \in 1..n : docs[tabs'[i]].req = IF i = n THEN Doc.req ELSE docs[tabs[i]].req BY <1>4 DEF Doc
<1>11. Named'
  <2>1. \A i \in 1..n : docs[tabs'[i]].req \in Body
    BY <1>1, <1>4, <1>10 DEF IInv, Named
  <2>2. \A i, j \in 1..n : docs[tabs'[i]].req = docs[tabs'[j]].req => i = j
    BY <1>1, <1>4, <1>10 DEF IInv, Named
  <2> QED BY <1>2, <1>4, <2>1, <2>2, NilAssumption DEF Named
<1>12. Handed' BY <1>2 DEF Handed
<1>13. Alive'
  <2>1. \A b \in Body : Owned(b)' <=> \E i \in 1..n : docs[tabs'[i]].req = b
    BY <1>2, <1>4, NilAssumption DEF Owned
  <2>2. \A b \in Body : (\E i \in 1..n : docs[tabs'[i]].req = b) <=> b = Doc.req \/ \E i \in DOMAIN tabs : docs[tabs[i]].req = b
    BY <1>4, <1>5, <1>10
  <2>3. \A b \in Body : Owned(b) /\ b # Given(1) <=> \E i \in DOMAIN tabs : docs[tabs[i]].req = b
    BY <1>1, <1>2, <1>5, NilAssumption DEF Owned, Given
  <2>4. ~In("replaced")' BY <1>2 DEF In
  <2> QED BY <1>1, <1>2, <2>1, <2>2, <2>3, <2>4 DEF Alive
<1>14. Fetched'
  BY <1>1, <1>2, <1>4 DEF IInv, Fetched, Doc
<1> QED BY <1>7, <1>8, <1>9, <1>11, <1>12, <1>13, <1>14 DEF IInv

(* A command gives up: its document is destroyed, and what is left is what *)
(* the tabs own.                                                           *)
LEMMA GiveUp ==
    ASSUME IInv, calls # <<>>, depth = 1,
           docs' = [docs EXCEPT ![Top.doc] = Nil],
           bodies' \in [Body -> Request \cup {Nil}],
           \A b \in Body : bodies'[b] # Nil <=> \E i \in DOMAIN tabs : docs[tabs[i]].req = b,
           r' = Nil, asked' = 0, calls' = <<>>, UNCHANGED <<tabs, js>>
    PROVE  IInv'
<1>1. DOMAIN calls = {1} /\ Top = calls[1] /\ Top.doc \in Ptr /\ DOMAIN calls' = {}
  BY Running DEF Top, Call
<1>2. \A p \in Ptr : docs'[p] = IF p = Top.doc THEN Nil ELSE docs[p]
  BY <1>1 DEF IInv, TypeOK
<1>3. \A i \in DOMAIN tabs : tabs[i] # Top.doc /\ docs'[tabs[i]] = docs[tabs[i]]
  BY <1>1, <1>2 DEF IInv, Placed, TypeOK
<1>4. TypeOK'
  <2>1. <<>> \in Seq(Call) /\ Len(<<>>) = 0 /\ 0 <= MaxRedirects + 1 /\ 0 \in 0..MaxPages BY BoundAssumption
  <2>2. docs' \in [Ptr -> HtmlDoc \cup {Nil}] BY DEF IInv, TypeOK
  <2> QED BY <2>1, <2>2 DEF IInv, TypeOK
<1>5. Staged' BY LenProperties DEF Staged, IInv, TypeOK
<1>6. Placed' BY <1>1, <1>2, <1>3 DEF IInv, Placed
<1>7. Named' BY <1>1, <1>3, NilAssumption DEF IInv, Named
<1>8. Handed' BY <1>1 DEF Handed
<1>9. Alive'
  <2>1. \A b \in Body : Owned(b)' <=> \E i \in DOMAIN tabs : docs[tabs[i]].req = b
    BY <1>1, <1>3, NilAssumption DEF Owned
  <2>2. ~In("replaced")' BY DEF In
  <2> QED BY <2>1, <2>2 DEF Alive
<1>10. Fetched' BY <1>1, <1>3 DEF IInv, Fetched
<1> QED BY <1>4, <1>5, <1>6, <1>7, <1>8, <1>9, <1>10 DEF IInv

(* The page is fetched and the tab cannot be appended.                     *)
LEMMA AppendFailsInv ==
    ASSUME IInv, AppendFails
    PROVE  IInv'
<1>1. /\ DOMAIN calls = {1} /\ Top.doc \in Ptr /\ Doc.req \in Body /\ Top = calls[1] /\ Top.replace = Nil
      /\ \A b \in Body : bodies[b] # Nil <=> b = Doc.req \/ (Owned(b) /\ b # Given(1))
      /\ \A i \in DOMAIN tabs : docs[tabs[i]].req # Doc.req
  BY Finished DEF AppendFails
<1>2. ~Refetching /\ depth = 1 /\ calls # <<>> BY DEF AppendFails, Succeeds, In
<1>3. bodies' = [bodies EXCEPT ![Doc.req] = Nil] BY <1>1, NilAssumption DEF AppendFails, request_clean
<1>4. bodies' \in [Body -> Request \cup {Nil}] BY <1>3 DEF IInv, TypeOK
<1>5. \A b \in Body : Owned(b) /\ b # Given(1) <=> \E i \in DOMAIN tabs : docs[tabs[i]].req = b
  BY <1>1, <1>2, NilAssumption DEF Owned, Given, IInv, Named
<1>6. \A b \in Body : bodies'[b] # Nil <=> \E i \in DOMAIN tabs : docs[tabs[i]].req = b
  BY <1>1, <1>3, <1>5 DEF IInv, TypeOK
<1>7. docs' = [docs EXCEPT ![Top.doc] = Nil] /\ r' = Nil /\ asked' = 0 /\ calls' = <<>> /\ UNCHANGED <<tabs, js>>
  BY DEF AppendFails
<1> QED BY <1>2, <1>4, <1>6, <1>7, GiveUp

(* The new document takes the place of the old one.                        *)
LEMMA ReturnToRefetchInv ==
    ASSUME IInv, ReturnToRefetch
    PROVE  IInv'
<1>1. /\ DOMAIN calls = {1} /\ Top = calls[1] /\ Top.doc \in Ptr /\ Doc \in HtmlDoc /\ Doc # Nil
      /\ Doc.req \in Body /\ Doc.shows \in Url /\ Top.replace = Nil
      /\ \A b \in Body : bodies[b] # Nil <=> b = Doc.req \/ (Owned(b) /\ b # Given(1))
      /\ \A i \in DOMAIN tabs : docs[tabs[i]].req = Doc.req => i = asked
  BY Finished DEF ReturnToRefetch
<1>2. asked \in DOMAIN tabs /\ asked' = 0 /\ calls' = <<>> /\ DOMAIN calls' = {} /\ r = Nil /\ r' = Nil /\ UNCHANGED <<bodies, js>>
  BY DEF ReturnToRefetch, Refetching, IInv, Staged
<1>3. tabs \in Seq(Ptr) /\ \A i \in DOMAIN tabs : tabs[i] \in Ptr BY DEF IInv, TypeOK
<1>4. /\ tabs' \in Seq(Ptr) /\ Len(tabs') = Len(tabs) /\ DOMAIN tabs' = DOMAIN tabs
      /\ \A i \in DOMAIN tabs : tabs'[i] = IF i = asked THEN Top.doc ELSE tabs[i]
  <2>1. tabs' = [tabs EXCEPT ![asked] = Top.doc] BY DEF ReturnToRefetch
  <2> QED BY <1>1, <1>2, <1>3, <2>1, ExceptSeq, LenProperties
<1>5. \A p \in Ptr : docs'[p] = IF p = tabs[asked] THEN Nil ELSE docs[p]
  BY <1>2, <1>3 DEF ReturnToRefetch, IInv, TypeOK
<1>6. \A i \in DOMAIN tabs : docs'[tabs'[i]] = IF i = asked THEN Doc ELSE docs[tabs[i]]
  <2>1. \A i \in DOMAIN tabs : i # asked => tabs[i] # tabs[asked] BY <1>2 DEF IInv, Placed
  <2>2. Top.doc # tabs[asked] BY <1>1, <1>2 DEF IInv, Placed
  <2> QED BY <1>1, <1>3, <1>4, <1>5, <2>1, <2>2 DEF Doc
<1>7. TypeOK'
  <2>1. <<>> \in Seq(Call) /\ Len(<<>>) = 0 /\ 0 <= MaxRedirects + 1 /\ 0 \in 0..MaxPages BY BoundAssumption
  <2>2. docs' \in [Ptr -> HtmlDoc \cup {Nil}] BY DEF ReturnToRefetch, IInv, TypeOK
  <2> QED BY <1>2, <1>4, <2>1, <2>2 DEF IInv, TypeOK
<1>8. Staged' BY <1>2, <1>3, <1>4, LenProperties DEF Staged
<1>9. Placed'
  <2>1. \A i, j \in DOMAIN tabs : tabs'[i] = tabs'[j] => i = j BY <1>1, <1>2, <1>4 DEF IInv, Placed
  <2>2. \A p \in Ptr : (\E i \in DOMAIN tabs : tabs'[i] = p) <=> p = Top.doc \/ (p # tabs[asked] /\ \E i \in DOMAIN tabs : tabs[i] = p)
    BY <1>1, <1>2, <1>4 DEF IInv, Placed
  <2>3. \A p \in Ptr : docs'[p] # Nil <=> p # tabs[asked] /\ (p = Top.doc \/ \E i \in DOMAIN tabs : tabs[i] = p)
    BY <1>1, <1>5 DEF IInv, Placed
  <2>4. Top.doc # tabs[asked] BY <1>1, <1>2 DEF IInv, Placed
  <2> QED BY <1>2, <1>4, <2>1, <2>2, <2>3, <2>4 DEF Placed
<1>10. Named'
  <2>1. \A i, j \in DOMAIN tabs : docs'[tabs'[i]].req = docs'[tabs'[j]].req => i = j
    BY <1>1, <1>2, <1>6 DEF IInv, Named
  <2>2. \A i \in DOMAIN tabs : docs'[tabs'[i]].req \in Body BY <1>1, <1>6 DEF IInv, Named
  <2> QED BY <1>2, <1>4, <2>1, <2>2, NilAssumption DEF Named
<1>11. Handed' BY <1>2 DEF Handed
<1>12. Alive'
  <2>1. \A b \in Body : Owned(b)' <=> \E i \in DOMAIN tabs : docs'[tabs'[i]].req = b
    BY <1>2, <1>4, NilAssumption DEF Owned
  <2>2. \A b \in Body : (\E i \in DOMAIN tabs : docs'[tabs'[i]].req = b) <=> b = Doc.req \/ \E i \in DOMAIN tabs : i # asked /\ docs[tabs[i]].req = b
    BY <1>2, <1>6
  <2>3. \A b \in Body : Owned(b) /\ b # Given(1) <=> \E i \in DOMAIN tabs : i # asked /\ docs[tabs[i]].req = b
    BY <1>1, <1>2, NilAssumption DEF Owned, Given, Refetching, IInv, Named
  <2>4. ~In("replaced")' BY <1>2 DEF In
  <2> QED BY <1>1, <1>2, <2>1, <2>2, <2>3, <2>4 DEF Alive
<1>13. Fetched' BY <1>1, <1>2, <1>4, <1>6 DEF IInv, Fetched
<1> QED BY <1>7, <1>8, <1>9, <1>10, <1>11, <1>12, <1>13 DEF IInv

(* The request a call gives back when it fails is the one it was given.    *)
LEMMA GivesBack ==
    ASSUME IInv, calls # <<>>, Top.at # "replaced"
    PROVE  DocsWithCaller(docs, Doc.req) = docs
<1>1. CASE depth = 1 /\ Refetching
  <2>1. Doc.req = docs[tabs[asked]].req BY <1>1, Running DEF Given
  <2>2. tabs[asked] \in Ptr /\ docs[tabs[asked]] # Nil BY <1>1 DEF Refetching, IInv, Placed, TypeOK
  <2>3. docs[tabs[asked]] \in HtmlDoc BY <2>2 DEF IInv, TypeOK
  <2>4. [docs[tabs[asked]] EXCEPT !.req = Doc.req] = docs[tabs[asked]] BY <2>1, <2>3 DEF HtmlDoc
  <2>5. [docs EXCEPT ![tabs[asked]] = docs[tabs[asked]]] = docs BY <2>2 DEF IInv, TypeOK
  <2>6. DocsWithCaller(docs, Doc.req) = [docs EXCEPT ![tabs[asked]] = [docs[tabs[asked]] EXCEPT !.req = Doc.req]]
    BY <1>1, <2>2 DEF DocsWithCaller, IInv, TypeOK
  <2> QED BY <2>4, <2>5, <2>6
<1>2. CASE ~(depth = 1 /\ Refetching) BY <1>2 DEF DocsWithCaller
<1> QED BY <1>1, <1>2

(* What fails gives its request back; the call it was redirected from then *)
(* fails too.                                                              *)
LEMMA FailInv ==
    ASSUME IInv, Fail
    PROVE  IInv'
<1>1. /\ calls # <<>> /\ Top.at = "failed" /\ depth \in Nat \ {0} /\ DOMAIN calls = 1..depth /\ depth \in DOMAIN calls
      /\ Top \in Call /\ Top.doc \in Ptr /\ Doc # Nil /\ Doc.req = Given(depth) /\ Doc.req \in Body /\ Owned(Doc.req)
  BY Running DEF Fail, In, Call
<1>2. ~In("replaced") /\ Top.replace = Nil
  BY <1>1 DEF In, IInv, Staged, Top
<1>3. \A i \in DOMAIN tabs : tabs[i] \in Ptr BY DEF IInv, TypeOK
<1>4. DocsWithCaller(docs, Doc.req) = docs BY <1>1, GivesBack
<1>5. docs' = [docs EXCEPT ![Top.doc] = Nil] /\ UNCHANGED <<tabs, js>> BY <1>4 DEF Fail
<1>6. CASE depth = 1
  <2>1. DOMAIN calls = {1} /\ Top = calls[1] BY <1>1, <1>6 DEF Top
  <2>2. r' = Nil /\ asked' = 0 /\ calls' = <<>> BY <1>1, <1>6 DEF Fail, rWithCaller, IInv, Staged
  <2>3. bodies' = IF Refetching THEN bodies ELSE [bodies EXCEPT ![Doc.req] = Nil]
    BY <1>1, <1>6, NilAssumption DEF Fail, request_clean
  <2>4. bodies' \in [Body -> Request \cup {Nil}] BY <2>3 DEF IInv, TypeOK
  <2>5. CASE Refetching
    <3>1. \A b \in Body : Owned(b) <=> \E i \in DOMAIN tabs : docs[tabs[i]].req = b
      BY <1>1, <1>2, <2>1, <2>5, NilAssumption DEF Owned, IInv, Staged
    <3>2. \A b \in Body : bodies'[b] # Nil <=> \E i \in DOMAIN tabs : docs[tabs[i]].req = b
      BY <1>2, <2>3, <2>5, <3>1 DEF IInv, Alive
    <3> QED BY <1>1, <1>5, <1>6, <2>2, <2>4, <3>2, GiveUp
  <2>6. CASE ~Refetching
    <3>1. Doc.req = r BY <1>1, <1>6, <2>6 DEF Given
    <3>2. \A b \in Body : Owned(b) /\ b # Doc.req <=> \E i \in DOMAIN tabs : docs[tabs[i]].req = b
      BY <1>2, <2>1, <3>1, NilAssumption DEF Owned, IInv, Named
    <3>3. \A b \in Body : bodies'[b] # Nil <=> \E i \in DOMAIN tabs : docs[tabs[i]].req = b
      BY <1>2, <2>3, <2>6, <3>2 DEF IInv, Alive, TypeOK
    <3> QED BY <1>1, <1>5, <1>6, <2>2, <2>4, <3>3, GiveUp
  <2> QED BY <2>5, <2>6
<1>7. CASE depth > 1
  <2>1. PICK n \in Nat \ {0} : n = depth - 1 /\ n < depth /\ n \in 1..n /\ depth = n + 1
                           /\ \A k \in 1..depth : k # depth => k \in 1..n
    BY <1>1, <1>7
  <2>2. /\ Leave \in Seq(Call) /\ Len(Leave) = n /\ n \in DOMAIN calls
        /\ \A k \in 1..n : Leave[k] = calls[k] /\ calls[k] \in Call /\ calls[k].at = "post"
    BY <1>1, <1>7, <2>1, Waiting
  <2>3. PICK c \in Call : /\ c = [calls[n] EXCEPT !.at = "unreplaced"] /\ c.at = "unreplaced"
                         /\ c.doc = calls[n].doc /\ c.replace = calls[n].replace
                         /\ calls' = [Leave EXCEPT ![n] = c]
    <3>1. [calls[n] EXCEPT !.at = "unreplaced"] \in Call BY <2>1, <2>2 DEF Call, Stage
    <3>2. /\ [calls[n] EXCEPT !.at = "unreplaced"].doc = calls[n].doc
          /\ [calls[n] EXCEPT !.at = "unreplaced"].at = "unreplaced"
          /\ [calls[n] EXCEPT !.at = "unreplaced"].replace = calls[n].replace
      BY <2>1, <2>2 DEF Call
    <3>3. calls' = [Leave EXCEPT ![depth - 1].at = "unreplaced"] BY <1>1, <1>7 DEF Fail
    <3>4. calls' = [Leave EXCEPT ![n] = [Leave[n] EXCEPT !.at = "unreplaced"]]
      <4>1. depth - 1 = n /\ n \in DOMAIN Leave BY <2>1, <2>2, LenProperties
      <4> QED BY <3>3, <4>1
    <3> QED BY <2>1, <2>2, <3>1, <3>2, <3>4
  <2>4. /\ calls' \in Seq(Call) /\ Len(calls') = n /\ DOMAIN calls' = 1..n
        /\ \A k \in 1..n : /\ calls'[k].doc = calls[k].doc /\ calls'[k].replace = calls[k].replace
                           /\ calls'[k].at = IF k = n THEN "unreplaced" ELSE "post"
    <3>1. /\ calls' \in Seq(Call) /\ Len(calls') = n
          /\ \A k \in 1..n : calls'[k] = IF k = n THEN c ELSE calls[k]
      <4>1. DOMAIN Leave = 1..n BY <2>2, LenProperties
      <4>2. [Leave EXCEPT ![n] = c] \in Seq(Call) /\ Len([Leave EXCEPT ![n] = c]) = n
        BY <2>1, <2>2, ExceptSeq
      <4> QED BY <2>1, <2>2, <2>3, <4>1, <4>2
    <3>2. DOMAIN calls' = 1..n BY <3>1, LenProperties
    <3> QED BY <2>1, <2>2, <2>3, <3>1, <3>2
  <2>5. /\ \A p \in Ptr : docs'[p] = IF p = Top.doc THEN Nil ELSE docs[p]
        /\ UNCHANGED <<bodies, tabs, r, asked, js>>
    BY <1>1, <1>5, <1>7 DEF Fail, rWithCaller, IInv, TypeOK
  <2>6. /\ \A i \in DOMAIN tabs : tabs[i] # Top.doc /\ docs'[tabs[i]] = docs[tabs[i]]
        /\ \A k \in 1..n : k \in DOMAIN calls /\ calls[k].doc \in Ptr /\ calls[k].doc # Top.doc /\ docs'[calls[k].doc] = docs[calls[k].doc]
    <3>1. \A k \in 1..n : k \in DOMAIN calls /\ k # depth BY <1>1, <2>1
    <3>2. \A k \in 1..n : calls[k].doc \in Ptr BY <2>2 DEF Call
    <3> QED BY <1>1, <1>3, <2>5, <3>1, <3>2 DEF IInv, Placed, Top
  <2>7. TypeOK'
    <3>1. n <= MaxRedirects + 1 BY <1>1, <2>1, BoundAssumption DEF IInv, TypeOK, depth
    <3>2. docs' \in [Ptr -> HtmlDoc \cup {Nil}] BY <1>5 DEF IInv, TypeOK
    <3> QED BY <2>4, <2>5, <3>1, <3>2 DEF IInv, TypeOK
  <2>8. Staged'
    <3>1. Refetching' = Refetching BY <2>5 DEF Refetching
    <3>2. \A k \in 1..n : calls'[k].replace # Nil BY <1>1, <2>1, <2>4, <2>6 DEF IInv, Staged
    <3>3. DOMAIN calls' = 1..n /\ depth' = n /\ calls' # <<>> BY <2>1, <2>4 DEF depth
    <3>4. \A k \in 1..n : /\ k < n => calls'[k].at = "post"
                          /\ calls'[k].replace # Nil <=> k < n \/ calls'[k].at = "unreplaced"
                          /\ calls'[k].at \notin EntryUsed
      BY <2>1, <2>4, <3>2 DEF EntryUsed
    <3>5. asked # 0 /\ (r # Nil <=> ~Refetching) /\ asked <= Len(tabs) + 1 BY <1>1 DEF IInv, Staged
    <3>6. (asked = 0 <=> calls = <<>>)' /\ (asked <= Len(tabs) + 1)' /\ (r # Nil <=> calls # <<>> /\ ~Refetching)'
      BY <2>5, <3>1, <3>3, <3>5
    <3> QED BY <3>3, <3>4, <3>6 DEF Staged
  <2>9. Placed'
    <3>1. \A p \in Ptr : (\E k \in DOMAIN calls : calls[k].doc = p) <=> p = Top.doc \/ \E k \in 1..n : calls[k].doc = p
      BY <1>1, <2>1, <2>6 DEF Top
    <3>2. \A p \in Ptr : docs'[p] # Nil <=> (\E i \in DOMAIN tabs : tabs[i] = p) \/ \E k \in 1..n : calls[k].doc = p
      BY <2>5, <2>6, <3>1 DEF IInv, Placed
    <3>3. \A p \in Ptr : docs'[p] # Nil <=> (\E i \in DOMAIN tabs : tabs[i] = p) \/ \E k \in 1..n : calls'[k].doc = p
      BY <2>4, <3>2
    <3>4. \A j, k \in 1..n : calls'[j].doc = calls'[k].doc => j = k BY <2>4, <2>6 DEF IInv, Placed
    <3>5. \A i \in DOMAIN tabs, k \in 1..n : tabs[i] # calls'[k].doc BY <2>4, <2>6 DEF IInv, Placed
    <3> QED BY <2>4, <2>5, <3>3, <3>4, <3>5 DEF IInv, Placed
  <2>10. Named' BY <2>4, <2>5, <2>6 DEF IInv, Named
  <2>11. \A b \in Body : Owned(b)' <=> Owned(b)
    <3>1. \A b \in Body : (\E k \in DOMAIN calls : calls[k].replace = b) <=> \E k \in 1..n : calls[k].replace = b
      BY <1>1, <1>2, <2>1, <2>6, NilAssumption DEF Top
    <3> QED BY <2>4, <2>5, <2>6, <3>1 DEF Owned
  <2>12. \A k \in 1..n : Given(k)' = Given(k)
    <3>1. \A k \in 1..n : k > 1 => k - 1 \in 1..n BY <2>1
    <3> QED BY <2>4, <2>5, <2>6, <3>1 DEF Given, Refetching
  <2>13. Handed'
    <3>1. \A k \in 1..n : docs[calls[k].doc].req = Given(k)
      BY <2>2, <2>6 DEF IInv, Handed
    <3>2. \A k \in 1..n : calls'[k].at # "replaced" /\ docs'[calls'[k].doc].req = Given(k)'
      BY <2>4, <2>6, <2>12, <3>1
    <3> QED BY <2>4, <3>2 DEF Handed
  <2>14. Alive'
    <3>1. ~In("replaced")' BY <2>1, <2>4 DEF In, Top, depth
    <3> QED BY <1>2, <2>5, <2>11, <3>1 DEF IInv, Alive
  <2>15. Fetched'
    <3>1. \A k \in 1..n : docs[calls[k].doc].shows \in Url BY <2>2, <2>6 DEF IInv, Fetched
    <3> QED BY <2>4, <2>5, <2>6, <3>1 DEF IInv, Fetched
  <2> QED BY <2>7, <2>8, <2>9, <2>10, <2>13, <2>14, <2>15 DEF IInv
<1> QED BY <1>1, <1>6, <1>7

(* The first document goes with the request it was given, and the call it  *)
(* was for now has the second document, which nobody else owns.            *)
LEMMA ReturnToRedirectInv ==
    ASSUME IInv, ReturnToRedirect
    PROVE  IInv'
<1>1. /\ depth \in Nat \ {0} /\ DOMAIN calls = 1..depth /\ depth \in DOMAIN calls /\ depth > 1 /\ calls # <<>>
      /\ Top \in Call /\ Top.doc \in Ptr /\ Doc \in HtmlDoc /\ Doc # Nil
      /\ Doc.req \in Body /\ Doc.shows \in Url /\ Top.replace = Nil
      /\ Doc.req = Given(depth) \/ ~Owned(Doc.req)
      /\ \A b \in Body : bodies[b] # Nil <=> b = Doc.req \/ (Owned(b) /\ b # Given(depth))
  BY Success DEF ReturnToRedirect, Succeeds, In
<1>2. PICK n \in Nat \ {0} : n = depth - 1 /\ n < depth /\ n \in 1..n /\ depth = n + 1
                         /\ \A k \in 1..depth : k # depth => k \in 1..n
  BY <1>1
<1>3. /\ Leave \in Seq(Call) /\ Len(Leave) = n /\ n \in DOMAIN calls
      /\ \A k \in 1..n : Leave[k] = calls[k] /\ calls[k] \in Call /\ calls[k].at = "post"
      /\ Given(depth) = calls[n].replace
  BY <1>1, <1>2, Waiting
<1>4. PICK c \in Call : /\ c.at = "replaced" /\ c.doc = Top.doc /\ c.replace = Nil
                        /\ calls' = [Leave EXCEPT ![n] = c]
  <2> DEFINE d == [calls[n] EXCEPT !.doc = Top.doc, !.at = "replaced", !.replace = Nil]
  <2>0. calls[n] \in Call /\ Top.doc \in Ptr BY <1>1, <1>2, <1>3
  <2>1. d \in Call BY <2>0 DEF Call, Stage
  <2>2. d.doc = Top.doc /\ d.at = "replaced" /\ d.replace = Nil BY <2>0 DEF Call
  <2>3. calls' = [Leave EXCEPT ![depth - 1] = [Leave[depth - 1] EXCEPT !.doc = Top.doc, !.at = "replaced", !.replace = Nil]]
    BY DEF ReturnToRedirect
  <2>4. depth - 1 = n /\ Leave[n] = calls[n] BY <1>2, <1>3
  <2> QED BY <2>1, <2>2, <2>3, <2>4
<1>5. /\ calls' \in Seq(Call) /\ Len(calls') = n /\ DOMAIN calls' = 1..n /\ calls' # <<>>
      /\ \A k \in 1..n : calls'[k] = IF k = n THEN c ELSE calls[k]
  <2>1. [Leave EXCEPT ![n] = c] \in Seq(Call) /\ Len([Leave EXCEPT ![n] = c]) = n
    BY <1>2, <1>3, ExceptSeq
  <2>2. DOMAIN Leave = 1..n BY <1>3, LenProperties
  <2>3. DOMAIN calls' = 1..n BY <1>4, <2>2
  <2> QED BY <1>2, <1>3, <1>4, <2>1, <2>2, <2>3
<1>6. PICK first \in Ptr : first = calls[n].doc /\ docs[first].req = Given(n) /\ first # Top.doc
  <2>1. calls[n].doc \in Ptr BY <1>2, <1>3 DEF Call
  <2>2. calls[n].doc # Top.doc BY <1>1, <1>2, <1>3 DEF IInv, Placed, Top
  <2>3. docs[calls[n].doc].req = Given(n) BY <1>2, <1>3 DEF IInv, Handed
  <2> QED BY <2>1, <2>2, <2>3
<1>7. Given(n) \in Body /\ Owned(Given(n)) /\ Given(n) # Given(depth) BY <1>1, <1>2, <1>3, GivenFacts
<1>8. Doc.req # Given(n) BY <1>1, <1>7
<1>9. /\ \A p \in Ptr : docs'[p] = IF p = first THEN Nil ELSE docs[p]
      /\ \A b \in Body : bodies'[b] = IF b = Given(n) THEN Nil ELSE bodies[b]
      /\ UNCHANGED <<tabs, r, asked, js>>
  <2>1. docs' = [docs EXCEPT ![first] = Nil] BY <1>2, <1>6 DEF ReturnToRedirect
  <2>2. bodies' = request_clean(bodies, Given(n)) BY <1>2, <1>6 DEF ReturnToRedirect
  <2>3. bodies' = [bodies EXCEPT ![Given(n)] = Nil] BY <1>7, <2>2, NilAssumption DEF request_clean
  <2> QED BY <1>7, <2>1, <2>3 DEF ReturnToRedirect, IInv, TypeOK
<1>10. /\ \A i \in DOMAIN tabs : tabs[i] # first /\ tabs[i] # Top.doc /\ docs'[tabs[i]] = docs[tabs[i]]
       /\ \A k \in 1..n : /\ k \in DOMAIN calls /\ calls[k].doc \in Ptr /\ calls[k].doc # Top.doc
                          /\ k # n => calls[k].doc # first /\ docs'[calls[k].doc] = docs[calls[k].doc]
       /\ docs'[Top.doc] = Doc
  <2>1. \A i \in DOMAIN tabs : tabs[i] \in Ptr BY DEF IInv, TypeOK
  <2>2. \A k \in 1..n : k \in DOMAIN calls /\ k # depth BY <1>1, <1>2
  <2>3. \A k \in 1..n : calls[k].doc \in Ptr BY <1>3 DEF Call
  <2>4. \A k \in 1..n : calls[k].doc # Top.doc BY <1>1, <2>2 DEF IInv, Placed, Top
  <2>5. \A k \in 1..n : k # n => calls[k].doc # first BY <1>3, <1>6, <2>2 DEF IInv, Placed
  <2>6. \A i \in DOMAIN tabs : tabs[i] # first /\ tabs[i] # Top.doc
    BY <1>1, <1>3, <1>6 DEF IInv, Placed, Top
  <2>7. docs'[Top.doc] = Doc BY <1>1, <1>6, <1>9 DEF Doc
  <2> QED BY <1>9, <2>1, <2>2, <2>3, <2>4, <2>5, <2>6, <2>7
<1>11. TypeOK'
  <2>0. depth <= MaxRedirects + 1 BY DEF IInv, TypeOK, depth
  <2>1. n <= MaxRedirects + 1 BY <1>1, <1>2, <2>0, BoundAssumption
  <2>2. docs' \in [Ptr -> HtmlDoc \cup {Nil}] BY DEF ReturnToRedirect, IInv, TypeOK
  <2>3. bodies' \in [Body -> Request \cup {Nil}] BY DEF ReturnToRedirect, request_clean, IInv, TypeOK
  <2> QED BY <1>5, <1>9, <2>1, <2>2, <2>3 DEF IInv, TypeOK
<1>12. Staged'
  <2>1. Refetching' = Refetching BY <1>9 DEF Refetching
  <2>2. \A k \in 1..n : calls[k].replace # Nil BY <1>1, <1>2, <1>10 DEF IInv, Staged
  <2>3. DOMAIN calls' = 1..n /\ depth' = n /\ calls' # <<>> BY <1>2, <1>5 DEF depth
  <2>4. \A k \in 1..n : /\ k < n => calls'[k].at = "post"
                        /\ calls'[k].replace # Nil <=> k < n \/ calls'[k].at = "unreplaced"
                        /\ calls'[k].at \notin EntryUsed
    BY <1>2, <1>3, <1>4, <1>5, <2>2 DEF EntryUsed
  <2>5. asked # 0 /\ (r # Nil <=> ~Refetching) /\ asked <= Len(tabs) + 1 BY <1>1 DEF IInv, Staged
  <2>6. (asked = 0 <=> calls = <<>>)' /\ (asked <= Len(tabs) + 1)' /\ (r # Nil <=> calls # <<>> /\ ~Refetching)'
    BY <1>9, <2>1, <2>3, <2>5
  <2> QED BY <2>3, <2>4, <2>6 DEF Staged
<1>13. Placed'
  <2>1. \A k \in 1..n : calls'[k].doc = IF k = n THEN Top.doc ELSE calls[k].doc BY <1>4, <1>5
  <2>2. \A j, k \in 1..n : calls'[j].doc = calls'[k].doc => j = k BY <1>10, <2>1 DEF IInv, Placed
  <2>3. \A i \in DOMAIN tabs, k \in 1..n : tabs[i] # calls'[k].doc BY <1>10, <2>1 DEF IInv, Placed
  <2>4. \A p \in Ptr : (\E k \in DOMAIN calls : calls[k].doc = p) <=> p = Top.doc \/ p = first \/ \E k \in 1..n : k # n /\ calls[k].doc = p
    BY <1>1, <1>2, <1>6, <1>10 DEF Top
  <2>5. \A p \in Ptr : (\E k \in 1..n : calls'[k].doc = p) <=> p = Top.doc \/ \E k \in 1..n : k # n /\ calls[k].doc = p
    BY <1>2, <2>1
  <2>6. \A p \in Ptr : docs[p] # Nil <=> (\E i \in DOMAIN tabs : tabs[i] = p) \/ (\E k \in DOMAIN calls : calls[k].doc = p)
    BY DEF IInv, Placed
  <2>7. \A p \in Ptr : docs'[p] # Nil <=> (\E i \in DOMAIN tabs : tabs[i] = p) \/ (\E k \in 1..n : calls'[k].doc = p)
    <3>1. ~\E k \in 1..n : k # n /\ calls[k].doc = first BY <1>10
    <3>2. ~\E i \in DOMAIN tabs : tabs[i] = first BY <1>10
    <3> QED BY <1>6, <1>9, <2>4, <2>5, <2>6, <3>1, <3>2
  <2>8. \A i, j \in DOMAIN tabs : tabs[i] = tabs[j] => i = j BY DEF IInv, Placed
  <2> QED BY <1>5, <1>9, <2>2, <2>3, <2>7, <2>8 DEF Placed
<1>14. \A k \in 1..n : k \in DOMAIN calls /\ calls'[k].replace = IF k = n THEN Nil ELSE calls[k].replace
  BY <1>4, <1>5, <1>10
<1>15. Named' BY <1>5, <1>9, <1>10, <1>14, NilAssumption DEF IInv, Named
<1>16. \A b \in Body : Owned(b)' <=> Owned(b) /\ b # Given(depth)
  <2>1. \A b \in Body : (\E k \in DOMAIN calls : calls[k].replace = b) <=> b = Given(depth) \/ \E k \in 1..n : k # n /\ calls[k].replace = b
    BY <1>1, <1>2, <1>3, <1>10, NilAssumption DEF Top
  <2>2. \A b \in Body : (\E k \in 1..n : calls'[k].replace = b) <=> \E k \in 1..n : k # n /\ calls[k].replace = b
    BY <1>14, NilAssumption
  <2>3. calls[n].replace # Nil BY <1>1, <1>2, <1>3 DEF IInv, Staged
  <2>4. /\ \A i \in DOMAIN tabs : docs[tabs[i]].req # Given(depth)
        /\ r # Given(depth)
        /\ \A k \in 1..n : k # n => calls[k].replace # Given(depth)
    BY <1>3, <1>10, <2>3 DEF IInv, Named
  <2> QED BY <1>5, <1>9, <1>10, <2>1, <2>2, <2>4 DEF Owned
<1>17. \A k \in 1..n : Given(k)' = Given(k)
  <2>1. \A k \in 1..n : k > 1 => k - 1 \in 1..n /\ k - 1 # n BY <1>2
  <2> QED BY <1>9, <1>10, <1>14, <2>1 DEF Given, Refetching
<1>18. Handed'
  <2>1. \A k \in 1..n : k # n => calls'[k].at # "replaced" /\ docs'[calls'[k].doc].req = Given(k)'
    BY <1>3, <1>5, <1>10, <1>17 DEF IInv, Handed
  <2>2. calls'[n].at = "replaced" /\ docs'[calls'[n].doc].req = Doc.req BY <1>2, <1>4, <1>5, <1>10
  <2>3. PICK q \in Body : q = Doc.req BY <1>1
  <2>4. ~Owned(q)' BY <1>1, <1>16, <2>3
  <2>5. docs'[calls'[n].doc].req = q BY <2>2, <2>3
  <2> QED BY <1>5, <2>1, <2>2, <2>4, <2>5 DEF Handed
<1>19. Alive'
  <2>1. In("replaced")' /\ Doc' = Doc /\ depth' = n BY <1>2, <1>4, <1>5, <1>10 DEF In, Top, depth, Doc
  <2>2. Given(depth)' = Given(n) BY <1>2, <1>17, <2>1 DEF Given
  <2>3. \A b \in Body : bodies'[b] # Nil <=> b = Doc.req \/ (Owned(b)' /\ b # Given(n))
    BY <1>1, <1>8, <1>9, <1>16
  <2> QED BY <2>1, <2>2, <2>3 DEF Alive
<1>20. Fetched'
  <2>1. \A k \in 1..n : k # n => docs'[calls'[k].doc].shows \in Url BY <1>3, <1>5, <1>10 DEF IInv, Fetched
  <2>2. docs'[calls'[n].doc].shows \in Url BY <1>1, <1>2, <1>4, <1>5, <1>10
  <2>3. \A i \in DOMAIN tabs : docs'[tabs[i]].shows \in Url BY <1>10 DEF IInv, Fetched
  <2> QED BY <1>5, <1>9, <2>1, <2>2, <2>3 DEF Fetched
<1> QED BY <1>11, <1>12, <1>13, <1>15, <1>18, <1>19, <1>20 DEF IInv

(* The second document failed: its request goes, and with it the only      *)
(* thing the call still owned.                                             *)
LEMMA FailReplaceInv ==
    ASSUME IInv, Fail_Replace
    PROVE  IInv'
<1>1. /\ calls # <<>> /\ Top.at = "unreplaced" /\ depth \in Nat \ {0} /\ DOMAIN calls = 1..depth /\ depth \in DOMAIN calls
      /\ Top \in Call /\ Top.doc \in Ptr
  BY Running DEF Fail_Replace, In, Call
<1>2. Top.replace # Nil /\ Top.replace \in Body /\ ~In("replaced")
  BY <1>1 DEF IInv, Staged, Top, Call, In
<1>3. PICK c \in Call : /\ c.at = "failed" /\ c.doc = Top.doc /\ c.replace = Nil
                        /\ calls' = [calls EXCEPT ![depth] = c]
  <2> DEFINE d == [Top EXCEPT !.at = "failed", !.replace = Nil]
  <2>1. d \in Call BY <1>1 DEF Call, Stage
  <2>2. d.doc = Top.doc /\ d.at = "failed" /\ d.replace = Nil BY <1>1 DEF Call
  <2>3. calls' = [calls EXCEPT ![depth] = d] BY <1>1 DEF Fail_Replace, Top, Call
  <2> QED BY <2>1, <2>2, <2>3
<1>4. /\ calls' \in Seq(Call) /\ Len(calls') = depth /\ DOMAIN calls' = 1..depth
      /\ \A k \in 1..depth : calls'[k] = IF k = depth THEN c ELSE calls[k]
  <2>1. calls \in Seq(Call) /\ depth = Len(calls) BY DEF IInv, TypeOK, depth
  <2> QED BY <1>1, <1>3, <2>1, ExceptSeq, LenProperties
<1>5. /\ \A b \in Body : bodies'[b] = IF b = Top.replace THEN Nil ELSE bodies[b]
      /\ UNCHANGED <<docs, tabs, r, asked, js>>
  BY <1>2 DEF Fail_Replace, request_clean, IInv, TypeOK
<1>6. \A k \in 1..depth : calls'[k].doc = calls[k].doc /\ calls'[k].replace = IF k = depth THEN Nil ELSE calls[k].replace
  BY <1>3, <1>4 DEF Top
<1>7. TypeOK'
  <2>1. bodies' \in [Body -> Request \cup {Nil}] BY DEF Fail_Replace, request_clean, IInv, TypeOK
  <2> QED BY <1>4, <1>5, <2>1 DEF IInv, TypeOK, depth
<1>8. Staged'
  <2>1. Refetching' = Refetching /\ depth' = depth BY <1>4, <1>5 DEF Refetching, depth
  <2>2. \A k \in 1..depth : /\ k < depth => calls'[k].at = "post"
                            /\ calls'[k].replace # Nil <=> k < depth \/ calls'[k].at = "unreplaced"
                            /\ calls'[k].at \notin EntryUsed
    BY <1>1, <1>3, <1>4 DEF IInv, Staged, EntryUsed
  <2>3. calls' # <<>> /\ asked # 0 /\ (r # Nil <=> ~Refetching) /\ asked <= Len(tabs) + 1
    BY <1>1, <1>4 DEF IInv, Staged
  <2> QED BY <1>4, <1>5, <2>1, <2>2, <2>3 DEF Staged
<1>9. Placed' BY <1>1, <1>4, <1>5, <1>6 DEF IInv, Placed
<1>10. Named' BY <1>1, <1>4, <1>5, <1>6, NilAssumption DEF IInv, Named
<1>11. \A b \in Body : Owned(b)' <=> Owned(b) /\ b # Top.replace
  <2>1. /\ \A i \in DOMAIN tabs : docs[tabs[i]].req # Top.replace
        /\ r # Top.replace
        /\ \A k \in 1..depth : k # depth => calls[k].replace # Top.replace
    BY <1>1, <1>2 DEF IInv, Named, Top
  <2>2. \A b \in Body : (\E k \in 1..depth : calls[k].replace = b) <=> b = Top.replace \/ \E k \in 1..depth : k # depth /\ calls[k].replace = b
    BY <1>1 DEF Top
  <2>3. \A b \in Body : (\E k \in 1..depth : calls'[k].replace = b) <=> \E k \in 1..depth : k # depth /\ calls[k].replace = b
    BY <1>6, NilAssumption
  <2> QED BY <1>1, <1>4, <1>5, <2>1, <2>2, <2>3 DEF Owned
<1>12. \A k \in 1..depth : Given(k)' = Given(k)
  <2>1. \A k \in 1..depth : k > 1 => k - 1 \in 1..depth /\ k - 1 # depth BY <1>1
  <2> QED BY <1>5, <1>6, <2>1 DEF Given, Refetching
<1>13. Handed'
  <2>1. \A k \in 1..depth : calls[k].at # "replaced" /\ docs[calls[k].doc].req = Given(k)
    BY <1>1 DEF IInv, Handed, Staged, Top
  <2>2. \A k \in 1..depth : calls'[k].at # "replaced" BY <1>3, <1>4, <2>1
  <2> QED BY <1>4, <1>5, <1>6, <1>12, <2>1, <2>2 DEF Handed
<1>14. Alive'
  <2>1. ~In("replaced")' BY <1>1, <1>3, <1>4 DEF In, Top, depth
  <2> QED BY <1>2, <1>5, <1>11, <2>1 DEF IInv, Alive
<1>15. Fetched' BY <1>1, <1>3, <1>4, <1>5 DEF IInv, Fetched
<1> QED BY <1>7, <1>8, <1>9, <1>10, <1>13, <1>14, <1>15 DEF IInv

(* At first nothing is owned.                                              *)
LEMMA InitInv ==
    ASSUME Init
    PROVE  IInv
<1>1. /\ bodies \in [Body -> Request \cup {Nil}] /\ docs \in [Ptr -> HtmlDoc \cup {Nil}]
      /\ tabs = <<>> /\ r = Nil /\ calls = <<>> /\ asked = 0 /\ js \in BOOLEAN
      /\ \A b \in Body : bodies[b] = Nil
      /\ \A p \in Ptr : docs[p] = Nil
  BY DEF Init
<1>2. /\ tabs \in Seq(Ptr) /\ Len(tabs) = 0 /\ DOMAIN tabs = {} /\ 0 <= MaxPages /\ 0 \in 0..MaxPages
      /\ calls \in Seq(Call) /\ Len(calls) = 0 /\ DOMAIN calls = {} /\ 0 <= MaxRedirects + 1
  BY <1>1, BoundAssumption
<1>3. TypeOK BY <1>1, <1>2 DEF TypeOK
<1>4. Staged BY <1>1, <1>2 DEF Staged
<1>5. Placed BY <1>1, <1>2 DEF Placed
<1>6. Named BY <1>2 DEF Named
<1>7. Handed BY <1>2 DEF Handed
<1>8. Alive BY <1>1, <1>2, NilAssumption DEF Alive, In, Owned
<1>9. Fetched BY <1>2 DEF Fetched
<1> QED BY <1>3, <1>4, <1>5, <1>6, <1>7, <1>8, <1>9 DEF IInv

(* Every step keeps the invariant.                                         *)
LEMMA NextInv ==
    ASSUME IInv, [Next]_vars
    PROVE  IInv'
<1>1. ASSUME NEW p \in Ptr, NEW b \in Body, NEW request \in NewRequest, Open(p, b, request) PROVE IInv'
  BY <1>1, OpenInv
<1>2. ASSUME NEW p \in Ptr, NEW t \in DOMAIN tabs, cmd_fetch(p, t) PROVE IInv' BY <1>2, RefetchInv
<1>3. ASSUME NEW u \in Url, Fetch(u) \/ FetchFails(u) PROVE IInv' BY <1>3, FetchInv
<1>4. CASE FetchRefused
  <2>1. Req.url \in Url BY <1>4, Running DEF FetchRefused, In, Request
  <2> QED BY <1>4, <2>1, FetchInv
<1>5. CASE ScriptsEnd \/ Draw \/ StepFails \/ RedirectFails BY <1>5, StepInv
<1>6. ASSUME NEW p \in Ptr, NEW b \in Body, Redirect(p, b) PROVE IInv' BY <1>6, RedirectInv
<1>7. CASE ReturnToRedirect BY <1>7, ReturnToRedirectInv
<1>8. CASE ReturnToCommand BY <1>8, ReturnToCommandInv
<1>9. CASE AppendFails BY <1>9, AppendFailsInv
<1>10. CASE ReturnToRefetch BY <1>10, ReturnToRefetchInv
<1>11. CASE Fail BY <1>11, FailInv
<1>12. CASE Fail_Replace BY <1>12, FailReplaceInv
<1>13. ASSUME NEW u \in Url, NEW parsed \in BOOLEAN, replace_doc_url(u, parsed) PROVE IInv' BY <1>13, ScriptInv
<1>14. CASE UNCHANGED vars
  BY <1>14 DEF vars, IInv, TypeOK, Staged, Placed, Named, Handed, Alive, Fetched, Owned, Given, Refetching, depth, Top, Doc, In
<1> QED BY <1>1, <1>2, <1>3, <1>4, <1>5, <1>6, <1>7, <1>8, <1>9, <1>10, <1>11, <1>12, <1>13, <1>14
        DEF Next, Command, Run, Script

(* The invariant holds in every state of the fetching of documents.        *)
THEOREM Inductive == Spec => []IInv
<1>1. Init => IInv BY InitInv
<1>2. IInv /\ [Next]_vars => IInv' BY NextInv
<1> QED BY <1>1, <1>2, PTL DEF Spec

(* Whatever is fetched, redirected or fails, the state has its types: no   *)
(* more documents than were asked for, and no more calls than redirections *)
(* (htmldoc.c:936-1043).                                                   *)
THEOREM TypeCorrect == Spec => []TypeOK
<1>1. IInv => TypeOK BY DEF IInv
<1> QED BY <1>1, Inductive, PTL

(* The holders of a request, without the copies of the running calls.      *)
Owns(x, b) ==
    \/ \E i \in DOMAIN tabs : x = <<"doc", tabs[i]>> /\ docs[tabs[i]].req = b
    \/ \E k \in DOMAIN calls : x = <<"replace", k>> /\ calls[k].replace = b
    \/ x = <<"command", 1>> /\ r = b

(* The owners, and the document of a call that is lent its request.        *)
LEMMA Owners ==
    ASSUME IInv, NEW b \in Body
    PROVE  /\ \A x : x \in Holders(b) <=> Owns(x, b) \/ \E k \in DOMAIN calls : x = <<"doc", calls[k].doc>> /\ docs[calls[k].doc].req = b
           /\ \A x, y : Owns(x, b) /\ Owns(y, b) => x = y
           /\ \A k \in DOMAIN calls : Given(k) = b => Owns(CallerOf(k), b)
           /\ Owned(b) <=> \E x : Owns(x, b)
<1>1. ASSUME NEW x
      PROVE  x \in Holders(b) <=> Owns(x, b) \/ \E k \in DOMAIN calls : x = <<"doc", calls[k].doc>> /\ docs[calls[k].doc].req = b
  <2>1. x \in Holders(b) <=> \/ \E p \in Ptr : x = <<"doc", p>> /\ docs[p] # Nil /\ docs[p].req = b
                             \/ \E k \in DOMAIN calls : x = <<"replace", k>> /\ calls[k].replace = b
                             \/ x = <<"command", 1>> /\ r = b
    BY DEF Holders
  <2>2. /\ \A i \in DOMAIN tabs : tabs[i] \in Ptr /\ docs[tabs[i]] # Nil
        /\ \A k \in DOMAIN calls : calls[k].doc \in Ptr /\ docs[calls[k].doc] # Nil
    <3>1. \A i \in DOMAIN tabs : tabs[i] \in Ptr BY DEF IInv, TypeOK
    <3>2. \A k \in DOMAIN calls : calls[k] \in Call BY DEF IInv, TypeOK
    <3>3. \A k \in DOMAIN calls : calls[k].doc \in Ptr BY <3>2 DEF Call
    <3> QED BY <3>1, <3>3 DEF IInv, Placed
  <2>3. \A p \in Ptr : docs[p] # Nil <=> (\E i \in DOMAIN tabs : tabs[i] = p) \/ (\E k \in DOMAIN calls : calls[k].doc = p)
    BY DEF IInv, Placed
  <2>4. (\E p \in Ptr : x = <<"doc", p>> /\ docs[p] # Nil /\ docs[p].req = b)
          <=> \/ \E i \in DOMAIN tabs : x = <<"doc", tabs[i]>> /\ docs[tabs[i]].req = b
              \/ \E k \in DOMAIN calls : x = <<"doc", calls[k].doc>> /\ docs[calls[k].doc].req = b
    BY <2>2, <2>3
  <2> QED BY <2>1, <2>4 DEF Owns
<1>2. ASSUME NEW x, NEW y, Owns(x, b), Owns(y, b) PROVE x = y
  BY <1>2, NilAssumption DEF Owns, IInv, Named
<1>3. ASSUME NEW k \in DOMAIN calls, Given(k) = b PROVE Owns(CallerOf(k), b)
  <2>1. DOMAIN calls = 1..Len(calls) /\ Len(calls) \in Nat BY LenProperties DEF IInv, TypeOK
  <2>2. k > 1 => k - 1 \in DOMAIN calls BY <2>1
  <2> QED BY <1>3, <2>2 DEF Owns, CallerOf, Given, Refetching
<1>4. Owned(b) <=> \E x : Owns(x, b) BY DEF Owned, Owns
<1> QED BY <1>1, <1>2, <1>3, <1>4

(* Ownership is what the invariant says of these.                          *)
LEMMA OwnershipHolds ==
    ASSUME IInv
    PROVE  Ownership
<1>1. OneOwner
  <2> SUFFICES ASSUME NEW b \in Body
               PROVE  \/ \A x, y \in Holders(b) : x = y
                      \/ \E k \in DOMAIN calls : Holders(b) = {CallerOf(k), <<"doc", calls[k].doc>>}
    BY DEF OneOwner
  <2>1. CASE \E k \in DOMAIN calls : calls[k].at # "replaced" /\ Given(k) = b
    <3>1. PICK k \in DOMAIN calls : calls[k].at # "replaced" /\ Given(k) = b BY <2>1
    <3>2. docs[calls[k].doc].req = b BY <3>1 DEF IInv, Handed
    <3>3. Owns(CallerOf(k), b) /\ Owned(b) BY <3>1, Owners
    <3>4. calls # <<>> BY <3>1
    <3>5. \A j \in DOMAIN calls : docs[calls[j].doc].req = b => j = k
      BY <3>1, <3>3, <3>4, GivenFacts DEF IInv, Handed
    <3>6. \A x : x \in Holders(b) <=> x = CallerOf(k) \/ x = <<"doc", calls[k].doc>>
      BY <3>2, <3>3, <3>5, Owners
    <3>7. Holders(b) = {CallerOf(k), <<"doc", calls[k].doc>>} BY <3>6
    <3> QED BY <3>7
  <2>2. CASE \A k \in DOMAIN calls : calls[k].at = "replaced" \/ Given(k) # b
    <3>1. \A k \in DOMAIN calls : docs[calls[k].doc].req = b => calls[k].at = "replaced" /\ ~Owned(b)
      BY <2>2 DEF IInv, Handed
    <3>2. DOMAIN calls = 1..depth /\ depth \in Nat BY LenProperties DEF IInv, TypeOK, depth
    <3>3. \A j, k \in DOMAIN calls : calls[j].at = "replaced" /\ calls[k].at = "replaced" => j = k
      <4>1. \A k \in DOMAIN calls : calls[k].at = "replaced" => k = depth BY <3>2 DEF IInv, Staged
      <4> QED BY <4>1
    <3>4. \A x, y \in Holders(b) : x = y BY <3>1, <3>3, Owners
    <3> QED BY <3>4
  <2> QED BY <2>1, <2>2
<1>2. NoDangling
  <2> SUFFICES ASSUME NEW b \in Body, bodies[b] = Nil, NEW x \in Holders(b)
               PROVE  \E k \in DOMAIN calls : calls[k].at = "replaced" /\ x = CallerOf(k)
    BY DEF NoDangling
  <2>1. CASE In("replaced")
    <3>1. calls # <<>> /\ Top.at = "replaced" BY <2>1 DEF In
    <3>2. depth \in Nat \ {0} /\ DOMAIN calls = 1..depth /\ depth \in DOMAIN calls BY <3>1, Running
    <3>3. b # Doc.req /\ (Owned(b) => b = Given(depth)) BY <2>1 DEF IInv, Alive
    <3>4. \A k \in DOMAIN calls : docs[calls[k].doc].req # b
      <4> SUFFICES ASSUME NEW k \in DOMAIN calls, docs[calls[k].doc].req = b PROVE FALSE
        OBVIOUS
      <4>1. k # depth BY <3>3 DEF Doc, Top
      <4>2. calls[k].at = "post" BY <3>2, <4>1 DEF IInv, Staged
      <4>3. Given(k) = b BY <4>2 DEF IInv, Handed
      <4> QED BY <3>1, <3>2, <3>3, <4>1, <4>3, GivenFacts
    <3>5. Owns(x, b) BY <3>4, Owners
    <3>6. b = Given(depth) BY <3>3, <3>5, Owners
    <3>7. x = CallerOf(depth) BY <3>2, <3>5, <3>6, Owners
    <3> QED BY <3>1, <3>2, <3>7 DEF Top
  <2>2. CASE ~In("replaced")
    <3>1. ~Owned(b) BY <2>2 DEF IInv, Alive
    <3>2. PICK k \in DOMAIN calls : docs[calls[k].doc].req = b BY <3>1, Owners
    <3>3. calls # <<>> /\ DOMAIN calls = 1..depth BY <3>2, LenProperties DEF IInv, TypeOK, depth
    <3>4. calls[k].at # "replaced"
      <4>1. depth \in Nat \ {0} BY <3>3, Running
      <4>2. k # depth => calls[k].at = "post" BY <3>3, <4>1 DEF IInv, Staged
      <4> QED BY <2>2, <3>3, <4>2 DEF In, Top
    <3>5. Given(k) = b BY <3>2, <3>4 DEF IInv, Handed
    <3> QED BY <3>1, <3>3, <3>5, GivenFacts
  <2> QED BY <2>1, <2>2
<1>3. NothingLeaked
  <2>1. ASSUME NEW b \in Body, bodies[b] # Nil PROVE Holders(b) # {}
    <3>1. CASE Owned(b) BY <3>1, Owners
    <3>2. CASE In("replaced") /\ b = Doc.req
      <4>1. depth \in DOMAIN calls BY <3>2, Running DEF In
      <4>2. <<"doc", Top.doc>> \in Holders(b) BY <3>2, <4>1, Owners DEF Top, Doc
      <4> QED BY <4>2
    <3> QED BY <2>1, <3>1, <3>2 DEF IInv, Alive
  <2> QED BY <2>1 DEF NothingLeaked, IInv, Placed
<1>4. EntryOfOwnFetch BY DEF EntryOfOwnFetch, IInv, Staged
<1> QED BY <1>1, <1>2, <1>3, <1>4 DEF Ownership

(* Requests and documents change hands once on every path of a fetch,      *)
(* however many redirections deep and wherever it fails, for any memory    *)
(* and any number of pages (htmldoc.c:951-1039, cmd.c:261-291).            *)
THEOREM OwnershipKept == Spec => []Ownership
<1>1. IInv => Ownership BY OwnershipHolds
<1> QED BY <1>1, Inductive, PTL

(* The pages the session shows.                                            *)
Shown == [i \in DOMAIN tabs |-> docs[tabs[i]].shows]

(* What happens to a document that is in no tab is not seen.               *)
LEMMA Unseen ==
    ASSUME IInv, NEW p, NEW d, UNCHANGED tabs, docs' = [docs EXCEPT ![p] = d],
           p \in Ptr /\ (docs[p] = Nil \/ \E k \in DOMAIN calls : p = calls[k].doc)
    PROVE  Shown' = Shown
<1>1. \A i \in DOMAIN tabs : tabs[i] \in Ptr /\ docs[tabs[i]] # Nil BY DEF IInv, Placed, TypeOK
<1>2. \A i \in DOMAIN tabs : tabs[i] # p BY <1>1 DEF IInv, Placed
<1>3. \A i \in DOMAIN tabs : docs'[tabs[i]] = docs[tabs[i]] BY <1>1, <1>2 DEF IInv, TypeOK
<1> QED BY <1>3 DEF Shown

(* The pages are a sequence, one for each tab.                             *)
LEMMA ShownSeq ==
    ASSUME IInv
    PROVE  /\ Len(tabs) \in Nat /\ DOMAIN tabs = 1..Len(tabs) /\ tabs \in Seq(Ptr)
           /\ Shown \in Seq(Url) /\ Len(Shown) = Len(tabs) /\ DOMAIN Shown = DOMAIN tabs
           /\ \A i \in DOMAIN tabs : Shown[i] = docs[tabs[i]].shows
<1>1. Len(tabs) \in Nat /\ DOMAIN tabs = 1..Len(tabs) /\ tabs \in Seq(Ptr) BY LenProperties DEF IInv, TypeOK
<1>2. \A i \in DOMAIN tabs : docs[tabs[i]].shows \in Url BY DEF IInv, Fetched
<1> QED BY <1>1, <1>2 DEF Shown

(* Which step of Pages each step is: the two that start a command ask, the *)
(* return to it answers, giving up refuses, and nothing else is seen.      *)
LEMMA AskStep ==
    ASSUME IInv, NEW p \in Ptr,
           \/ \E b \in Body, request \in NewRequest : Open(p, b, request)
           \/ \E t \in DOMAIN tabs : cmd_fetch(p, t)
    PROVE  \E place \in 1..Len(Shown) + 1 : asked = 0 /\ asked' = place /\ Shown' = Shown
<1>1. /\ Len(tabs) \in Nat /\ DOMAIN tabs = 1..Len(tabs) /\ Len(Shown) = Len(tabs) BY ShownSeq
<1>2. ASSUME NEW b \in Body, NEW request \in NewRequest, Open(p, b, request)
      PROVE  asked = 0 /\ asked' = Len(tabs) + 1 /\ Shown' = Shown
  <2>1. docs[p] = Nil /\ docs' = [docs EXCEPT ![p] = NewDoc(b)] /\ UNCHANGED tabs BY <1>2 DEF Open, FreePtr
  <2>2. Shown' = Shown BY <2>1, Unseen
  <2> QED BY <1>2, <2>2 DEF Open
<1>3. ASSUME NEW t \in DOMAIN tabs, cmd_fetch(p, t)
      PROVE  asked = 0 /\ asked' = t /\ Shown' = Shown
  <2>1. docs[p] = Nil /\ docs' = [docs EXCEPT ![p] = NewDoc(docs[tabs[t]].req)] /\ UNCHANGED tabs
    BY <1>3 DEF cmd_fetch, FreePtr
  <2>2. Shown' = Shown BY <2>1, Unseen
  <2> QED BY <1>3, <2>2 DEF cmd_fetch
<1> QED BY <1>1, <1>2, <1>3

(* A command that succeeds shows its page in its place.                    *)
LEMMA AnswerStep ==
    ASSUME IInv, ReturnToCommand \/ ReturnToRefetch
    PROVE  \E u \in Url : /\ asked # 0 /\ asked' = 0
                          /\ Shown' = IF asked > Len(Shown) THEN Append(Shown, u) ELSE [Shown EXCEPT ![asked] = u]
<1>1. /\ Len(tabs) \in Nat /\ DOMAIN tabs = 1..Len(tabs) /\ tabs \in Seq(Ptr)
      /\ Shown \in Seq(Url) /\ Len(Shown) = Len(tabs) /\ DOMAIN Shown = DOMAIN tabs
      /\ \A i \in DOMAIN tabs : Shown[i] = docs[tabs[i]].shows
  BY ShownSeq
<1>2. Succeeds /\ calls # <<>> /\ depth = 1 BY DEF ReturnToCommand, ReturnToRefetch, Succeeds, In
<1>3. Doc.shows \in Url /\ Top.doc \in Ptr /\ \A i \in DOMAIN tabs : tabs[i] # Top.doc
  BY <1>2, Finished DEF IInv, Placed
<1>4. asked \in Nat /\ asked # 0 /\ asked <= Len(tabs) + 1
  BY <1>2, BoundAssumption DEF IInv, Staged, TypeOK
<1>5. asked' = 0 BY DEF ReturnToCommand, ReturnToRefetch
<1>6. IInv' BY ReturnToCommandInv, ReturnToRefetchInv
<1>7. CASE ReturnToCommand
  <2>1. asked = Len(tabs) + 1 /\ tabs' = Append(tabs, Top.doc) /\ docs' = docs
    BY <1>1, <1>4, <1>7 DEF ReturnToCommand, Refetching
  <2>2. PICK n \in Nat : n = Len(tabs) + 1 BY <1>1
  <2>3. /\ Len(tabs') = n /\ DOMAIN tabs' = 1..n /\ tabs'[n] = Top.doc
        /\ \A i \in 1..n : i # n => i \in DOMAIN tabs /\ tabs'[i] = tabs[i]
    <3>1. /\ tabs' \in Seq(Ptr) /\ Len(tabs') = n /\ tabs'[n] = Top.doc
          /\ \A i \in 1..Len(tabs) : tabs'[i] = tabs[i]
      BY <1>1, <1>3, <2>1, <2>2, AppendProperties
    <3>2. \A i \in 1..n : i # n => i \in 1..Len(tabs) BY <1>1, <2>2
    <3> QED BY <1>1, <3>1, <3>2, LenProperties
  <2>4. Shown' = [i \in 1..n |-> docs[tabs'[i]].shows] BY <2>1, <2>3 DEF Shown
  <2>5. Shown' = [i \in 1..n |-> IF i = n THEN Doc.shows ELSE Shown[i]]
    BY <1>1, <2>3, <2>4 DEF Doc
  <2>6. Append(Shown, Doc.shows) = [i \in 1..n |-> IF i = n THEN Doc.shows ELSE Shown[i]]
    BY <1>1, <1>3, <2>2
  <2>7. asked > Len(Shown) BY <1>1, <2>1
  <2> QED BY <1>3, <1>4, <1>5, <2>5, <2>6, <2>7
<1>8. CASE ReturnToRefetch
  <2>1. /\ asked \in DOMAIN tabs /\ tabs' = [tabs EXCEPT ![asked] = Top.doc]
        /\ docs' = [docs EXCEPT ![tabs[asked]] = Nil]
    BY <1>8 DEF ReturnToRefetch, Refetching
  <2>2. DOMAIN tabs' = DOMAIN tabs /\ \A i \in DOMAIN tabs : tabs'[i] = IF i = asked THEN Top.doc ELSE tabs[i]
    BY <1>1, <2>1
  <2>3. \A i \in DOMAIN tabs : docs'[tabs'[i]] = IF i = asked THEN Doc ELSE docs[tabs[i]]
    <3>1. \A i \in DOMAIN tabs : tabs[i] \in Ptr BY <1>1
    <3>2. \A i \in DOMAIN tabs : i # asked => tabs[i] # tabs[asked] BY <2>1 DEF IInv, Placed
    <3> QED BY <1>3, <2>1, <2>2, <3>1, <3>2 DEF Doc, IInv, TypeOK
  <2>4. Shown' = [i \in DOMAIN tabs |-> IF i = asked THEN Doc.shows ELSE Shown[i]]
    BY <1>1, <2>2, <2>3 DEF Shown
  <2>5. [Shown EXCEPT ![asked] = Doc.shows] = [i \in DOMAIN tabs |-> IF i = asked THEN Doc.shows ELSE Shown[i]]
    BY <1>1, <2>1
  <2>6. ~(asked > Len(Shown)) BY <1>1, <2>1
  <2> QED BY <1>3, <1>4, <1>5, <2>4, <2>5, <2>6
<1> QED BY <1>7, <1>8

(* A command that fails shows nothing else.                                *)
LEMMA RefuseStep ==
    ASSUME IInv, AppendFails \/ Fail
    PROVE  asked # 0 /\ asked' \in {0, asked} /\ Shown' = Shown
<1>1. calls # <<>> BY DEF AppendFails, Fail, Succeeds, In
<1>2. depth \in DOMAIN calls /\ Top.doc \in Ptr BY <1>1, Running DEF Call
<1>3. docs' = [docs EXCEPT ![Top.doc] = Nil] /\ UNCHANGED tabs
  BY <1>1, GivesBack DEF AppendFails, Fail, In
<1>4. Shown' = Shown BY <1>2, <1>3, Unseen DEF Top
<1> QED BY <1>1, <1>4 DEF AppendFails, Fail, IInv, Staged

(* No other step is seen.                                                  *)
LEMMA HiddenStep ==
    ASSUME IInv,
           \/ \E u \in Url : Fetch(u) \/ FetchFails(u)
           \/ FetchRefused \/ ScriptsEnd \/ Draw \/ StepFails \/ RedirectFails
           \/ \E p \in Ptr, b \in Body : Redirect(p, b)
           \/ ReturnToRedirect \/ Fail_Replace
           \/ Script
    PROVE  asked' = asked /\ Shown' = Shown
<1>1. /\ calls # <<>> /\ UNCHANGED <<tabs, asked>>
  BY DEF Fetch, FetchFails, FetchRefused, ScriptsEnd, Draw, StepFails, RedirectFails, Redirect,
         ReturnToRedirect, Fail_Replace, Script, replace_doc_url, Succeeds, In
<1>2. depth \in Nat \ {0} /\ DOMAIN calls = 1..depth /\ depth \in DOMAIN calls /\ Top.doc \in Ptr BY <1>1, Running DEF Call
<1>3. ASSUME NEW u \in Url, Fetch(u) PROVE Shown' = Shown
  <2>1. docs' = [docs EXCEPT ![Top.doc] = [docs[Top.doc] EXCEPT !.shows = u]] BY <1>3 DEF Fetch
  <2> QED BY <1>1, <1>2, <2>1, Unseen DEF Top
<1>4. CASE docs' = docs BY <1>1, <1>4 DEF Shown
<1>5. ASSUME NEW p \in Ptr, NEW b \in Body, Redirect(p, b) PROVE Shown' = Shown
  BY <1>1, <1>5, Unseen DEF Redirect, FreePtr
<1>6. CASE ReturnToRedirect
  <2>1. depth - 1 \in DOMAIN calls BY <1>2, <1>6 DEF ReturnToRedirect
  <2>2. calls[depth - 1] \in Call BY <2>1 DEF IInv, TypeOK
  <2>3. calls[depth - 1].doc \in Ptr BY <2>2 DEF Call
  <2>4. docs' = [docs EXCEPT ![calls[depth - 1].doc] = Nil] BY <1>6 DEF ReturnToRedirect
  <2> QED BY <1>1, <2>1, <2>3, <2>4, Unseen
<1>7. ASSUME NEW u \in Url, NEW parsed \in BOOLEAN, replace_doc_url(u, parsed) PROVE Shown' = Shown
  <2>1. docs' = [docs EXCEPT ![Top.doc] = [docs[Top.doc] EXCEPT !.post = IF u = Doc.shows THEN "same" ELSE "replace"]]
    BY <1>7 DEF replace_doc_url
  <2> QED BY <1>1, <1>2, <2>1, Unseen DEF Top
<1> QED BY <1>1, <1>3, <1>4, <1>5, <1>6, <1>7
        DEF FetchFails, FetchRefused, ScriptsEnd, Draw, StepFails, RedirectFails, Fail_Replace, Script

(* A command that fails, at whatever step and however many redirections    *)
(* deep, shows what was shown before; one that succeeds changes one page,  *)
(* the one it was for: DocFetch implements Pages (cmd.c:261-291,           *)
(* tabs.c:7-29).                                                           *)
THEOREM PagesImplemented == Spec => ImplementsPages
<1>1. Init => P!Init
  <2> SUFFICES ASSUME Init PROVE Shown = <<>> /\ asked = 0
    BY DEF P!Init, Shown
  <2>1. tabs = <<>> /\ asked = 0 BY DEF Init
  <2> QED BY <2>1 DEF Shown
<1>2. IInv /\ [Next]_vars => [P!Next]_(P!vars)
  <2> SUFFICES ASSUME IInv, [Next]_vars PROVE [P!Next]_(P!vars)
    OBVIOUS
  <2>1. ASSUME NEW place \in 1..Len(Shown) + 1, asked = 0, asked' = place, Shown' = Shown PROVE P!Next
    BY <2>1 DEF P!Next, P!Ask, Shown
  <2>2. ASSUME NEW u \in Url, asked # 0, asked' = 0,
               Shown' = IF asked > Len(Shown) THEN Append(Shown, u) ELSE [Shown EXCEPT ![asked] = u]
        PROVE P!Next
    BY <2>2 DEF P!Next, P!Answer, Shown
  <2>3. ASSUME asked # 0, asked' = 0, Shown' = Shown PROVE P!Next
    BY <2>3 DEF P!Next, P!Refuse, Shown
  <2>4. ASSUME asked' = asked, Shown' = Shown PROVE UNCHANGED P!vars
    BY <2>4 DEF P!vars, Shown
  <2>5. CASE Command BY <2>1, <2>5, AskStep DEF Command
  <2>6. CASE ReturnToCommand \/ ReturnToRefetch BY <2>2, <2>6, AnswerStep
  <2>7. CASE AppendFails \/ Fail BY <2>3, <2>4, <2>7, RefuseStep
  <2>8. CASE UNCHANGED vars BY <2>4, <2>8 DEF vars, Shown
  <2>9. CASE (Run \/ Script) /\ ~(ReturnToCommand \/ ReturnToRefetch \/ AppendFails \/ Fail)
    BY <2>4, <2>9, HiddenStep DEF Run
  <2> QED BY <2>5, <2>6, <2>7, <2>8, <2>9 DEF Next
<1> QED BY <1>1, <1>2, Inductive, PTL DEF Spec, ImplementsPages, P!Spec
=============================================================================
