-------------------------- MODULE ScriptFetchProofs --------------------------
(***************************************************************************)
(* Proofs about ScriptFetch, for documents with any scripts in any order.  *)
(***************************************************************************)
EXTENDS ScriptFetch, OrderProofs, SequenceTheorems

Ofs == {e.of : e \in Range(easies)}

Remote(p) == {<<p, i>> : i \in {j \in DOMAIN page[p] : page[p][j] = "remote"}}
Local(p)  == {<<p, i>> : i \in {j \in DOMAIN page[p] : page[p][j] \in {"inline", "ldjson"}}}

(* The invariant.  Which handles are attached, at each step of a fetch.    *)
Attached ==
    /\ at \in {"start", "split", "add_head"} => multi = None /\ easies = <<>> /\ unread = {}
    /\ at = "got" => phase = "document"
    /\ at \in {"add_body", "report", "remove", "clean"} => phase = "scripts"
    /\ at \in Loop \cup {"got"} /\ phase = "document" => DOMAIN multi = {Document} /\ easies = <<>>
    /\ at \in Loop \cup {"add_body", "report", "remove"} /\ phase = "scripts" => DOMAIN multi = Ofs
    /\ at = "add_body" => unread = {}
    /\ at = "clean" => DOMAIN multi \subseteq Ofs

(* The failures are those of the messages that were read.                  *)
Read ==
    /\ at # "clean" => failed = {t \in DOMAIN multi : multi[t] = "failed" /\ t \notin unread}
    /\ \A t \in unread : multi[t] # "running"
    /\ at = "add_body" => \A t \in DOMAIN multi : multi[t] = "running"
    /\ at \in {"report", "remove"} => unread = {} /\ Running = {}

(* Each handle is of a remote script, and has a place of its own.          *)
Handles ==
    /\ \A k \in DOMAIN easies : /\ easies[k].of \in Remote(easies[k].to.part)
                                /\ Lands(easies[k].to)
                                /\ at = "add_body" => easies[k].to.part = "head"
    /\ \A j, k \in DOMAIN easies : easies[j].of = easies[k].of => j = k
    /\ \A j, k \in DOMAIN easies : easies[j].to.part = easies[k].to.part /\ easies[j].to.ix = easies[k].to.ix => j = k

(* Who wrote each script.                                                  *)
Authors ==
    /\ at \in {"add_head", "add_body"} => \A p \in Part : \A i \in DOMAIN scripts[p] : scripts[p][i] \subseteq Local(p)
    /\ \A p \in Part : \A i \in DOMAIN scripts[p] : \A x, y \in scripts[p][i] : x = y
    /\ \A p, q \in Part : \A i \in DOMAIN scripts[p], j \in DOMAIN scripts[q] :
          \A x \in scripts[p][i] : x \in scripts[q][j] => p = q /\ i = j
    /\ \A k \in DOMAIN easies : \A p \in Part : \A i \in DOMAIN scripts[p] :
          IF easies[k].to.part = p /\ easies[k].to.ix = i THEN scripts[p][i] \subseteq {easies[k].of}
          ELSE easies[k].of \notin scripts[p][i]

(* In a document without local scripts the k-th handle has the k-th place, *)
(* unless some place has no handle: h of them are of the head.             *)
Matched(h) ==
    /\ h <= Len(scripts["head"])
    /\ Len(easies) <= h + Len(scripts["body"])
    /\ \A k \in DOMAIN easies :
          /\ easies[k].to.part = IF k <= h THEN "head" ELSE "body"
          /\ easies[k].to.ix = IF k <= h THEN k ELSE k - h

Ordered ==
    AllRemote =>
        /\ at = "add_head" => \A p \in Part : scripts[p] = <<>>
        /\ at = "add_body" => scripts["body"] = <<>> /\ Matched(Len(easies))
        /\ at \in Loop \cup {"report"} /\ phase = "scripts" => \E h \in 0..Len(easies) : Matched(h)
        /\ at = "remove" /\ NoneMissing => FailedEmptied

IInv == TypeOK /\ Attached /\ Read /\ Handles /\ Authors /\ Ordered

(* The contents of the arrays.                                             *)
LEMMA Types ==
    ASSUME TypeOK
    PROVE  /\ \A p \in Part : /\ page[p] \in Seq(Kind) /\ Len(page[p]) \in Nat /\ DOMAIN page[p] = 1..Len(page[p])
                              /\ scripts[p] \in Seq(SUBSET Element) /\ Len(scripts[p]) \in Nat
                              /\ DOMAIN scripts[p] = 1..Len(scripts[p])
           /\ Len(easies) \in Nat /\ DOMAIN easies = 1..Len(easies)
           /\ \A k \in DOMAIN easies : easies[k] \in Easy /\ easies[k].to \in Place /\ easies[k].of \in Element
                                       /\ easies[k].to.part \in Part /\ easies[k].to.ix \in Nat
<1>1. page \in [Part -> Seq(Kind)] BY PagesAssumption DEF TypeOK
<1>2. \A p \in Part : page[p] \in Seq(Kind) /\ scripts[p] \in Seq(SUBSET Element) BY <1>1 DEF TypeOK
<1>3. easies \in Seq(Easy) BY DEF TypeOK
<1>4. Len(easies) \in Nat /\ DOMAIN easies = 1..Len(easies) /\ \A k \in DOMAIN easies : easies[k] \in Easy
  BY <1>3, LenProperties
<1>5. \A e \in Easy : e.to \in Place /\ e.of \in Element BY DEF Easy
<1>6. \A to \in Place : to.part \in Part /\ to.ix \in Nat BY DEF Place
<1> QED BY <1>2, <1>4, <1>5, <1>6, LenProperties

(* The elements in I are numbered, each in its own place.                  *)
LEMMA InOrderFacts ==
    ASSUME NEW n \in Nat, NEW I \in SUBSET (1..n), NEW p
    PROVE  /\ Cardinality(I) \in Nat
           /\ DOMAIN InOrder(p, I) = 1..Cardinality(I) /\ Len(InOrder(p, I)) = Cardinality(I)
           /\ \A k \in 1..Cardinality(I) : \E i \in I : InOrder(p, I)[k] = <<p, i>>
           /\ \A j, k \in 1..Cardinality(I) : InOrder(p, I)[j] = InOrder(p, I)[k] => j = k
           /\ I = {} => InOrder(p, I) = <<>>
<1> DEFINE m == Cardinality(I)
           at_(k) == CHOOSE i \in I : Rank(i, I) = k
<1>1. m \in Nat /\ \A k \in 1..m : \E i \in I : Rank(i, I) = k BY RankOnto DEF Rank, UpTo
<1>2. \A k \in 1..m : at_(k) \in I /\ Rank(at_(k), I) = k BY <1>1
<1>3. InOrder(p, I) = [k \in 1..m |-> <<p, at_(k)>>] BY DEF InOrder
<1> HIDE DEF at_, m
<1>4. DOMAIN InOrder(p, I) = 1..m /\ \A k \in 1..m : InOrder(p, I)[k] = <<p, at_(k)>> BY <1>3
<1>5. Len(InOrder(p, I)) = m BY <1>1, <1>3
<1>6. \A j, k \in 1..m : <<p, at_(j)>> = <<p, at_(k)>> => j = k
  <2> SUFFICES ASSUME NEW j \in 1..m, NEW k \in 1..m, <<p, at_(j)>> = <<p, at_(k)>> PROVE j = k
    OBVIOUS
  <2>1. at_(j) = at_(k) OBVIOUS
  <2> QED BY <1>2, <2>1
<1>7. ASSUME I = {} PROVE InOrder(p, I) = <<>>
  <2>1. m = 0 BY <1>7, FS_EmptySet DEF m
  <2> QED BY <1>3, <2>1
<1> QED BY <1>1, <1>2, <1>4, <1>5, <1>6, <1>7 DEF m

(* An element of a part is an element of the documents.                    *)
LEMMA InElement ==
    ASSUME TypeOK, NEW p \in Part, NEW i \in DOMAIN page[p]
    PROVE  <<p, i>> \in Element
<1> DEFINE total(pg) == Len(pg["head"] \o pg["body"])
<1>1. Element = UNION {{<<q, j>> : q \in Part, j \in 1..total(pg)} : pg \in Pages} BY DEF Element
<1>2. \E h, b \in Nat : h = Len(page["head"]) /\ b = Len(page["body"]) /\ total(page) = h + b
  <2>1. page["head"] \in Seq(Kind) /\ page["body"] \in Seq(Kind) BY Types DEF Part
  <2>2. total(page) = Len(page["head"]) + Len(page["body"]) BY <2>1, ConcatProperties
  <2>3. Len(page["head"]) \in Nat /\ Len(page["body"]) \in Nat BY <2>1, LenProperties
  <2> HIDE DEF total
  <2> QED BY <2>2, <2>3
<1> HIDE DEF total
<1>3. PICK h \in Nat, b \in Nat : h = Len(page["head"]) /\ b = Len(page["body"]) /\ total(page) = h + b
  BY <1>2
<1>4. i \in 1..total(page)
  <2>1. i \in 1..h \/ i \in 1..b BY <1>3, Types DEF Part
  <2>2. total(page) = h + b BY <1>3
  <2> QED BY <2>1, <2>2
<1>5. page \in Pages BY DEF TypeOK
<1>6. <<p, i>> \in {<<q, j>> : q \in Part, j \in 1..total(page)} BY <1>4
<1> QED BY <1>1, <1>5, <1>6

(* What none of the steps of the loop touches.                             *)
LEMMA Untouched ==
    ASSUME IInv, UNCHANGED <<page, scripts, moved, easies>>, at' \notin {"add_head", "add_body"}
    PROVE  Handles' /\ Authors'
<1>1. Handles' BY DEF IInv, Handles, Remote, Lands
<1>2. Authors' BY DEF IInv, Authors
<1> QED BY <1>1, <1>2

(* A fetch begins: the handle of its document is attached.                 *)
LEMMA StartInv ==
    ASSUME IInv, FetchDocument
    PROVE  IInv'
<1>1. /\ at = "start" /\ at' = "check" /\ phase' = "document" /\ page' \in Pages
      /\ scripts' = [p \in Part |-> <<>>] /\ easies' = <<>> /\ DOMAIN multi' = {Document}
      /\ multi'[Document] = "running" /\ unread' = {} /\ failed' = {}
  BY DEF FetchDocument, IInv, Attached, Read, None
<1>2. TypeOK'
  <2>1. multi' = [t \in {Document} |-> "running"] BY DEF FetchDocument
  <2>2. \A p \in Part : scripts'[p] = <<>> BY <1>1
  <2>3. scripts' \in [Part -> Seq(SUBSET Element)] BY <1>1
  <2> QED BY <1>1, <2>1, <2>3 DEF IInv, TypeOK, FetchDocument, Step, Loop, State, Transfer
<1>3. Attached' BY <1>1 DEF Attached, Loop
<1>4. Read' BY <1>1 DEF Read, Running
<1>5. Handles' BY <1>1 DEF Handles
<1>6. Authors' BY <1>1 DEF Authors
<1>7. Ordered' BY <1>1 DEF Ordered, Loop
<1> QED BY <1>2, <1>3, <1>4, <1>5, <1>6, <1>7 DEF IInv

(* Steps of the loop that only decide what is next.                        *)
LEMMA LoopInv ==
    ASSUME IInv, Interrupt \/ Check \/ Clear \/ Cancel \/ Poll \/ MultiFails
    PROVE  IInv'
<1>1. /\ at \in Loop
      /\ \/ at' \in Loop
         \/ phase = "document" /\ at' = "got"
         \/ phase = "scripts" /\ at' = "clean"
      /\ UNCHANGED <<page, phase, scripts, moved, easies, multi, unread, failed>>
      /\ result' \in {"ok", "canceled", "error"} /\ flag' \in BOOLEAN
  <2>1. phase \in {"document", "scripts"} BY DEF IInv, TypeOK
  <2>2. CASE Interrupt BY <2>2 DEF Interrupt, IInv, TypeOK
  <2>3. CASE Check BY <2>3 DEF Check, Loop, IInv, TypeOK
  <2>6. CASE Clear BY <2>6 DEF Clear, Loop, IInv, TypeOK
  <2>7. CASE Cancel BY <2>1, <2>7 DEF Cancel, LeaveLoop, Loop, IInv, TypeOK
  <2>4. CASE Poll BY <2>4 DEF Poll, Loop, IInv, TypeOK
  <2>5. CASE MultiFails BY <2>1, <2>5 DEF MultiFails, LeaveLoop, Loop, IInv, TypeOK
  <2> QED BY <2>2, <2>3, <2>4, <2>5, <2>6, <2>7
<1>2. at' \in Loop \cup {"got", "clean"} BY <1>1
<1>3. TypeOK' BY <1>1, <1>2 DEF IInv, TypeOK, Step, Loop
<1>4. Attached' BY <1>1 DEF IInv, Attached, Loop, Ofs
<1>5. Read' BY <1>1 DEF IInv, Read, Loop, Running
<1>6. Handles' /\ Authors' BY <1>1, <1>2, Untouched DEF Loop
<1>7. Ordered' BY <1>1 DEF IInv, Ordered, Matched, AllRemote, Loop
<1> QED BY <1>3, <1>4, <1>5, <1>6, <1>7 DEF IInv

(* All the messages are read, so the failures are those of all the         *)
(* transfers that are over.                                                *)
LEMMA ReadInfoInv ==
    ASSUME IInv, ReadInfo
    PROVE  IInv'
<1>1. /\ at \in Loop /\ unread' = {} /\ failed' = failed \cup {t \in unread : multi[t] = "failed"}
      /\ \/ at' = "check"
         \/ phase = "document" /\ at' = "got"
         \/ phase = "scripts" /\ at' = "report" /\ Running = {}
      /\ UNCHANGED <<page, phase, scripts, moved, easies, multi, flag>> /\ result' \in {"ok", "canceled", "error"}
  BY DEF ReadInfo, LeaveLoop, Stays, Loop, IInv, TypeOK
<1>2. TypeOK' BY <1>1 DEF IInv, TypeOK, Step, Loop
<1>3. Attached' BY <1>1 DEF IInv, Attached, Loop, Ofs
<1>4. Read'
  <2>1. failed' = {t \in DOMAIN multi : multi[t] = "failed"} BY <1>1 DEF IInv, Read, Loop, TypeOK
  <2> QED BY <1>1, <2>1 DEF Read, Running
<1>5. Handles' /\ Authors' BY <1>1, Untouched DEF Loop
<1>6. Ordered' BY <1>1 DEF IInv, Ordered, Matched, AllRemote, Loop
<1> QED BY <1>2, <1>3, <1>4, <1>5, <1>6 DEF IInv

(* The handle of the document is removed.                                  *)
LEMMA GotInv ==
    ASSUME IInv, GotDocument
    PROVE  IInv'
<1>1. /\ at = "got" /\ phase = "document" /\ easies = <<>> /\ at' \in {"start", "split"}
      /\ multi' = None /\ unread' = {} /\ failed' = {} /\ result' \in {"ok", "canceled", "error"}
      /\ UNCHANGED <<page, phase, scripts, moved, easies, flag>>
  BY DEF GotDocument, IInv, TypeOK, Attached
<1>2. DOMAIN multi' = {} BY <1>1 DEF None
<1>3. TypeOK' BY <1>1, <1>2 DEF IInv, TypeOK, Step
<1>4. Attached' BY <1>1 DEF Attached, Loop
<1>5. Read' BY <1>1, <1>2 DEF Read
<1>6. Handles' /\ Authors' BY <1>1, Untouched
<1>7. Ordered' BY <1>1 DEF Ordered, Loop
<1> QED BY <1>3, <1>4, <1>5, <1>6, <1>7 DEF IInv

(* What libcurl writes makes each script the one of its handle, or leaves  *)
(* it as it was.                                                           *)
LEMMA PerformInv ==
    ASSUME IInv, NEW W \in SUBSET Running, NEW next \in [Running -> State], Perform(W, next)
    PROVE  IInv'
<1>1. /\ at = "perform" /\ at' = "poll" /\ scripts' = Written(W)
      /\ multi' = [t \in DOMAIN multi |-> IF t \in Running THEN next[t] ELSE multi[t]]
      /\ unread' = unread \cup {t \in Running : next[t] # "running"}
      /\ UNCHANGED <<page, phase, moved, easies, failed, result, flag>>
  BY DEF Perform
<1>2. \A p \in Part : DOMAIN scripts'[p] = DOMAIN scripts[p] BY <1>1 DEF Written
<1>3. ASSUME NEW p \in Part, NEW i \in DOMAIN scripts[p]
      PROVE  scripts'[p][i] = scripts[p][i] \cup {easies[k].of : k \in {j \in DOMAIN easies :
                 easies[j].of \in W /\ easies[j].to.part = p /\ easies[j].to.ix = i}}
  <2>1. scripts'[p][i] = scripts[p][i] \cup {e.of : e \in {x \in Range(easies) :
            x.of \in W /\ Lands(x.to) /\ x.to.part = p /\ x.to.ix = i}}
    BY <1>1 DEF Written
  <2>2. \A e : e \in Range(easies) <=> \E k \in DOMAIN easies : e = easies[k] BY DEF Range
  <2>3. \A k \in DOMAIN easies : Lands(easies[k].to) BY DEF IInv, Handles
  <2> QED BY <2>1, <2>2, <2>3
<1>4. ASSUME NEW p \in Part, NEW i \in DOMAIN scripts[p], NEW x
      PROVE  x \in scripts'[p][i] <=> \/ x \in scripts[p][i]
                                      \/ \E k \in DOMAIN easies : /\ x = easies[k].of /\ easies[k].of \in W
                                                                  /\ easies[k].to.part = p /\ easies[k].to.ix = i
  BY <1>3
<1>5. \A p \in Part : scripts[p] \in Seq(SUBSET Element) /\ Len(scripts[p]) \in Nat /\ DOMAIN scripts[p] = 1..Len(scripts[p])
  BY Types DEF IInv
<1>6. TypeOK'
  <2>1. ASSUME NEW p \in Part PROVE scripts'[p] \in Seq(SUBSET Element)
    <3>1. \A k \in DOMAIN easies : easies[k].of \in Element BY Types DEF IInv
    <3>2. \A i \in DOMAIN scripts[p] : scripts'[p][i] \in SUBSET Element BY <1>3, <1>5, <3>1
    <3>3. scripts'[p] = [i \in 1..Len(scripts[p]) |-> scripts'[p][i]] BY <1>1, <1>2, <1>5 DEF Written
    <3> QED BY <1>5, <3>2, <3>3, IsASeq
  <2>2. scripts' \in [Part -> Seq(SUBSET Element)] BY <1>1, <2>1 DEF Written
  <2>3. DOMAIN multi' = DOMAIN multi /\ \A t \in DOMAIN multi' : multi'[t] \in State
    BY <1>1 DEF IInv, TypeOK
  <2>4. unread' \subseteq DOMAIN multi' BY <1>1, <2>3 DEF IInv, TypeOK, Running
  <2> QED BY <1>1, <2>2, <2>3, <2>4 DEF IInv, TypeOK, Step, Loop
<1>7. Attached' BY <1>1 DEF IInv, Attached, Loop, Ofs
<1>8. Read'
  <2>1. failed = {t \in DOMAIN multi : multi[t] = "failed" /\ t \notin unread} /\ \A t \in unread : multi[t] # "running"
    BY <1>1 DEF IInv, Read
  <2>2. DOMAIN multi' = DOMAIN multi /\ unread \subseteq DOMAIN multi /\ Running \subseteq DOMAIN multi
    BY <1>1 DEF IInv, TypeOK, Running
  <2>3. \A t \in DOMAIN multi : t \notin Running => multi'[t] = multi[t] /\ (t \in unread' <=> t \in unread)
    BY <1>1
  <2>4. \A t \in Running : multi[t] = "running" /\ (t \in unread' <=> multi'[t] # "running")
    BY <1>1, <2>1, <2>2 DEF Running
  <2>5. failed = {t \in DOMAIN multi : multi'[t] = "failed" /\ t \notin unread'} BY <2>1, <2>3, <2>4
  <2>6. \A t \in unread' : t \in DOMAIN multi /\ multi'[t] # "running" BY <1>1, <2>1, <2>2, <2>3, <2>4
  <2> QED BY <1>1, <2>2, <2>5, <2>6 DEF Read
<1>9. Handles' BY <1>1, <1>2, Types DEF IInv, Handles, Lands, Remote
<1>10. Authors'
  <2>1. ASSUME NEW k \in DOMAIN easies, NEW p \in Part, NEW i \in DOMAIN scripts[p]
        PROVE  IF easies[k].to.part = p /\ easies[k].to.ix = i THEN scripts'[p][i] \subseteq {easies[k].of}
               ELSE easies[k].of \notin scripts'[p][i]
    <3>1. CASE easies[k].to.part = p /\ easies[k].to.ix = i
      <4>1. scripts[p][i] \subseteq {easies[k].of} BY <3>1 DEF IInv, Authors
      <4>2. \A j \in DOMAIN easies : easies[j].to.part = p /\ easies[j].to.ix = i => j = k
        BY <3>1 DEF IInv, Handles
      <4> QED BY <1>4, <3>1, <4>1, <4>2
    <3>2. CASE ~(easies[k].to.part = p /\ easies[k].to.ix = i)
      <4>1. easies[k].of \notin scripts[p][i] BY <3>2 DEF IInv, Authors
      <4>2. \A j \in DOMAIN easies : easies[j].of = easies[k].of => j = k BY DEF IInv, Handles
      <4> QED BY <1>4, <3>2, <4>1, <4>2
    <3> QED BY <3>1, <3>2
  <2>2. ASSUME NEW p \in Part, NEW i \in DOMAIN scripts[p], NEW x \in scripts'[p][i], NEW y \in scripts'[p][i] PROVE x = y
    <3>1. CASE x \in scripts[p][i] /\ y \in scripts[p][i] BY <3>1 DEF IInv, Authors
    <3>2. CASE \E k \in DOMAIN easies : easies[k].to.part = p /\ easies[k].to.ix = i BY <2>1, <3>2
    <3> QED BY <1>4, <3>1, <3>2
  <2>3. ASSUME NEW p \in Part, NEW q \in Part, NEW i \in DOMAIN scripts[p], NEW j \in DOMAIN scripts[q],
               NEW x \in scripts'[p][i], x \in scripts'[q][j]
        PROVE  p = q /\ i = j
    <3>1. CASE x \in scripts[p][i] /\ x \in scripts[q][j] BY <3>1 DEF IInv, Authors
    <3>2. CASE \E k \in DOMAIN easies : x = easies[k].of BY <2>1, <2>3, <3>2
    <3> QED BY <1>4, <2>3, <3>1, <3>2
  <2> QED BY <1>1, <1>2, <2>1, <2>2, <2>3 DEF Authors
<1>11. Ordered'
  <2>1. \A p \in Part : Len(scripts'[p]) = Len(scripts[p])
    <3>1. \A p \in Part : scripts'[p] \in Seq(SUBSET Element) BY <1>6 DEF TypeOK
    <3>2. \A p \in Part : Len(scripts'[p]) \in Nat /\ DOMAIN scripts'[p] = 1..Len(scripts'[p]) BY <3>1, LenProperties
    <3> QED BY <1>2, <1>5, <3>2
  <2> QED BY <1>1, <2>1 DEF IInv, Ordered, Matched, AllRemote, Loop, Part
<1> QED BY <1>6, <1>7, <1>8, <1>9, <1>10, <1>11 DEF IInv

(* The local scripts come first, each of one author.                       *)
LEMMA SplitInv ==
    ASSUME IInv, _split_remote_local_
    PROVE  IInv'
<1>1. /\ at = "split" /\ at' \in {"start", "add_head"} /\ multi = None /\ easies = <<>> /\ unread = {}
      /\ DOMAIN easies = {} /\ DOMAIN multi = {}
      /\ UNCHANGED <<page, phase, moved, easies, multi, unread, failed, result, flag>>
  BY DEF _split_remote_local_, IInv, Attached, None
<1> DEFINE local(p) == Elements(p, {"inline", "ldjson"})
<1>2. ASSUME NEW p \in Part
      PROVE  /\ Len(local(p)) \in Nat /\ DOMAIN local(p) = 1..Len(local(p))
             /\ \A i \in DOMAIN local(p) : local(p)[i] \in Local(p) /\ local(p)[i] \in Element /\ local(p)[i][1] = p
             /\ \A i, j \in DOMAIN local(p) : local(p)[i] = local(p)[j] => i = j
             /\ (\A i \in DOMAIN page[p] : page[p][i] = "remote") => local(p) = <<>>
  <2> DEFINE I == {i \in DOMAIN page[p] : page[p][i] \in {"inline", "ldjson"}}
  <2>1. local(p) = InOrder(p, I) BY DEF Elements
  <2>2. PICK n \in Nat : DOMAIN page[p] = 1..n BY Types DEF IInv
  <2>3. I \in SUBSET (1..n) BY <2>2
  <2>4. \A i \in I : <<p, i>> \in Local(p) /\ <<p, i>> \in Element BY InElement DEF IInv, Local
  <2>5. (\A i \in DOMAIN page[p] : page[p][i] = "remote") => I = {} OBVIOUS
  <2> HIDE DEF I, local
  <2>m. PICK m \in Nat : /\ DOMAIN local(p) = 1..m /\ Len(local(p)) = m
                         /\ \A k \in 1..m : \E i \in I : local(p)[k] = <<p, i>>
                         /\ \A j, k \in 1..m : local(p)[j] = local(p)[k] => j = k
                         /\ I = {} => local(p) = <<>>
    <3>1. /\ Cardinality(I) \in Nat
          /\ DOMAIN InOrder(p, I) = 1..Cardinality(I) /\ Len(InOrder(p, I)) = Cardinality(I)
          /\ \A k \in 1..Cardinality(I) : \E i \in I : InOrder(p, I)[k] = <<p, i>>
          /\ \A j, k \in 1..Cardinality(I) : InOrder(p, I)[j] = InOrder(p, I)[k] => j = k
          /\ I = {} => InOrder(p, I) = <<>>
      BY <2>3, InOrderFacts
    <3> QED BY <2>1, <3>1
  <2>6. \A i \in DOMAIN local(p) : \E j \in I : local(p)[i] = <<p, j>> BY <2>m
  <2>7. \A i \in DOMAIN local(p) : local(p)[i] \in Local(p) /\ local(p)[i] \in Element /\ local(p)[i][1] = p
    BY <2>4, <2>6
  <2> QED BY <2>m, <2>5, <2>7
<1>3. scripts' = [p \in Part |-> [i \in DOMAIN local(p) |-> {local(p)[i]}]] BY DEF _split_remote_local_
<1> HIDE DEF local
<1>4. \A p \in Part : DOMAIN scripts'[p] = DOMAIN local(p) /\ \A i \in DOMAIN local(p) : scripts'[p][i] = {local(p)[i]}
  BY <1>3
<1>5. TypeOK'
  <2>1. ASSUME NEW p \in Part PROVE scripts'[p] \in Seq(SUBSET Element)
    <3>1. scripts'[p] = [i \in 1..Len(local(p)) |-> {local(p)[i]}] BY <1>2, <1>3
    <3>2. \A i \in 1..Len(local(p)) : {local(p)[i]} \in SUBSET Element BY <1>2
    <3> QED BY <1>2, <3>1, <3>2, IsASeq
  <2>2. scripts' \in [Part -> Seq(SUBSET Element)] BY <1>3, <2>1
  <2> QED BY <1>1, <2>2 DEF IInv, TypeOK, Step
<1>6. Attached' BY <1>1 DEF Attached, Loop
<1>7. Read' BY <1>1 DEF IInv, Read
<1>8. Handles' BY <1>1 DEF Handles
<1>9. Authors'
  <2>1. \A p \in Part : \A i \in DOMAIN scripts'[p] : scripts'[p][i] \subseteq Local(p)'
    BY <1>1, <1>2, <1>4 DEF Local
  <2>2. \A p \in Part : \A i \in DOMAIN scripts'[p] : \A x, y \in scripts'[p][i] : x = y BY <1>4
  <2>3. ASSUME NEW p \in Part, NEW q \in Part, NEW i \in DOMAIN scripts'[p], NEW j \in DOMAIN scripts'[q],
               NEW x \in scripts'[p][i], x \in scripts'[q][j]
        PROVE  p = q /\ i = j
    <3>1. x = local(p)[i] /\ x = local(q)[j] /\ i \in DOMAIN local(p) /\ j \in DOMAIN local(q) BY <1>4, <2>3
    <3>2. local(p)[i][1] = p BY <1>2, <3>1
    <3>3. local(q)[j][1] = q BY <1>2, <3>1
    <3>4. p = q BY <3>1, <3>2, <3>3
    <3> QED BY <1>2, <3>1, <3>4
  <2> QED BY <1>1, <2>1, <2>2, <2>3 DEF Authors
<1>10. Ordered'
  <2>1. ASSUME AllRemote, NEW p \in Part PROVE scripts'[p] = <<>>
    <3>1. local(p) = <<>> BY <1>2, <2>1 DEF AllRemote
    <3> QED BY <1>3, <3>1
  <2>2. AllRemote' <=> AllRemote BY <1>1 DEF AllRemote
  <2> QED BY <1>1, <2>1, <2>2 DEF Ordered, Loop
<1> QED BY <1>5, <1>6, <1>7, <1>8, <1>9, <1>10 DEF IInv

(* Before the handles of a part are added nothing was written, and no      *)
(* handle is of that part.                                                 *)
LEMMA AddingFacts ==
    ASSUME IInv, NEW p \in Part, Adding(p)
    PROVE  /\ (p = "head" /\ at = "add_head" /\ easies = <<>>) \/ (p = "body" /\ at = "add_body")
           /\ unread = {} /\ failed = {} /\ DOMAIN multi = Ofs /\ \A t \in DOMAIN multi : multi[t] = "running"
           /\ \A k \in DOMAIN easies : easies[k].to.part # p
           /\ \A q \in Part : \A i \in DOMAIN scripts[q] : scripts[q][i] \subseteq Local(q)
<1>1. CASE at = "add_head"
  <2>1. p = "head" /\ multi = None /\ easies = <<>> /\ unread = {} BY <1>1 DEF Adding, Part, IInv, Attached
  <2>2. DOMAIN multi = {} /\ Ofs = {} /\ DOMAIN easies = {} BY <2>1 DEF None, Ofs, Range
  <2>3. failed = {} BY <1>1, <2>2 DEF IInv, Read
  <2> QED BY <1>1, <2>1, <2>2, <2>3 DEF IInv, Authors
<1>2. CASE at = "add_body"
  <2>1. p = "body" /\ phase = "scripts" /\ unread = {} BY <1>2 DEF Adding, Part, IInv, Attached
  <2>2. DOMAIN multi = Ofs /\ \A t \in DOMAIN multi : multi[t] = "running" BY <1>2, <2>1 DEF IInv, Attached, Read
  <2>3. failed = {} BY <1>2, <2>2 DEF IInv, Read
  <2>4. \A k \in DOMAIN easies : easies[k].to.part # p BY <1>2, <2>1 DEF IInv, Handles
  <2> QED BY <1>2, <2>1, <2>2, <2>3, <2>4 DEF IInv, Authors
<1> QED BY <1>1, <1>2 DEF Adding, Part

(* Places are appended to a part, and the first of them are given handles. *)
Appended(p, g, m, urls) ==
    /\ DOMAIN urls = 1..m
    /\ \A i \in 1..m : urls[i] \in Remote(p) /\ urls[i] \in Element
    /\ \A i, j \in 1..m : urls[i] = urls[j] => i = j
    /\ moved' \in [Part -> BOOLEAN] /\ \A q \in Part : q # p => moved'[q] = moved[q]
    /\ scripts' = [scripts EXCEPT ![p] = @ \o [i \in 1..g |-> {}]]
    /\ easies' = easies \o [i \in 1..m |-> [of |-> urls[i],
                     to |-> [part |-> p, ix |-> Len(scripts[p]) + i, moved |-> moved'[p]]]]
    /\ DOMAIN multi' = DOMAIN multi \cup Range(urls)
    /\ \A t \in DOMAIN multi' : multi'[t] = "running"

(* The handles of a part of the document are attached.                     *)
LEMMA AddInv ==
    ASSUME IInv, NEW p \in Part, Adding(p), AfterAdd, phase' = "scripts",
           UNCHANGED <<page, unread, failed, result, flag>>,
           NEW g \in Nat, NEW m \in 0..g, NEW urls, Appended(p, g, m, urls)
    PROVE  IInv'
<1>1. /\ (p = "head" /\ at = "add_head" /\ easies = <<>>) \/ (p = "body" /\ at = "add_body")
      /\ unread = {} /\ failed = {} /\ DOMAIN multi = Ofs
      /\ \A k \in DOMAIN easies : easies[k].to.part # p
      /\ \A q \in Part : \A i \in DOMAIN scripts[q] : scripts[q][i] \subseteq Local(q)
  BY AddingFacts
<1>2. at' \in {"add_body", "check"} /\ (p = "head" <=> at' = "add_body") BY <1>1 DEF AfterAdd
<1>3. PICK n \in Nat, c \in Nat : /\ n = Len(scripts[p]) /\ c = Len(easies)
                                  /\ DOMAIN scripts[p] = 1..n /\ DOMAIN easies = 1..c
  BY Types DEF IInv
<1>4. /\ DOMAIN urls = 1..m
      /\ \A i \in 1..m : urls[i] \in Remote(p) /\ urls[i] \in Element
      /\ \A i, j \in 1..m : urls[i] = urls[j] => i = j
      /\ moved' \in [Part -> BOOLEAN] /\ moved'[p] \in BOOLEAN
      /\ \A q \in Part : q # p => moved'[q] = moved[q]
      /\ DOMAIN multi' = DOMAIN multi \cup Range(urls)
      /\ \A t \in DOMAIN multi' : multi'[t] = "running"
  BY DEF Appended
<1>5. m \in Nat /\ m <= g OBVIOUS
<1>6. PICK N \in Nat, M \in Nat : N = n + g /\ M = c + m BY <1>5
<1>7. /\ \A i \in 1..n : i \in 1..N /\ i <= n
      /\ \A i \in 1..N : i \in 1..n \/ (~(i <= n) /\ i - n \in 1..g)
      /\ \A i \in 1..m : n + i \in 1..N /\ n + i \in Nat /\ n + i \notin 1..n
      /\ \A i, j \in 1..m : n + i = n + j => i = j
  BY <1>5, <1>6
<1>8. /\ \A k \in 1..c : k \in 1..M /\ k <= c
      /\ \A i \in 1..m : c + i \in 1..M /\ ~(c + i <= c) /\ c + i - c = i
  BY <1>5, <1>6
<1>9. \A k \in 1..M : k \in 1..c \/ \E i \in 1..m : k = c + i
  <2> SUFFICES ASSUME NEW k \in 1..M, k \notin 1..c PROVE \E i \in 1..m : k = c + i
    OBVIOUS
  <2>1. k - c \in 1..m /\ k = c + (k - c) BY <1>5, <1>6
  <2> QED BY <2>1
<1>10. /\ \A q \in Part : q # p => scripts'[q] = scripts[q]
       /\ scripts'[p] \in Seq(SUBSET Element) /\ Len(scripts'[p]) = N /\ DOMAIN scripts'[p] = 1..N
       /\ \A i \in 1..n : scripts'[p][i] = scripts[p][i]
       /\ \A i \in 1..N : i \notin 1..n => scripts'[p][i] = {}
  <2> DEFINE e == [i \in 1..g |-> {}]
  <2>1. e \in Seq(SUBSET Element)
    <3>1. \A i \in 1..g : {} \in SUBSET Element OBVIOUS
    <3> QED BY <3>1, IsASeq
  <2>2. Len(e) = g /\ \A i \in 1..g : e[i] = {} OBVIOUS
  <2>3. scripts[p] \in Seq(SUBSET Element) BY Types DEF IInv
  <2>4. scripts' = [scripts EXCEPT ![p] = scripts[p] \o e] BY DEF Appended
  <2>5. scripts \in [Part -> Seq(SUBSET Element)] BY DEF IInv, TypeOK
  <2> HIDE DEF e
  <2>6. scripts'[p] = scripts[p] \o e /\ \A q \in Part : q # p => scripts'[q] = scripts[q]
    BY <2>4, <2>5
  <2>7. /\ scripts[p] \o e \in Seq(SUBSET Element) /\ Len(scripts[p] \o e) = N
        /\ \A i \in 1..N : (scripts[p] \o e)[i] = IF i <= n THEN scripts[p][i] ELSE e[i - n]
    <3>1. scripts[p] \o e \in Seq(SUBSET Element) BY <2>1, <2>3, ConcatProperties
    <3>2. Len(scripts[p] \o e) = Len(scripts[p]) + Len(e) BY <2>1, <2>3, ConcatProperties
    <3>3. \A i \in 1..Len(scripts[p]) + Len(e) :
             (scripts[p] \o e)[i] = IF i <= Len(scripts[p]) THEN scripts[p][i] ELSE e[i - Len(scripts[p])]
      BY <2>1, <2>3, ConcatProperties
    <3>4. Len(scripts[p]) + Len(e) = N BY <1>3, <1>6, <2>2
    <3> QED BY <1>3, <3>1, <3>2, <3>3, <3>4
  <2>8. DOMAIN scripts'[p] = 1..N BY <2>6, <2>7, LenProperties
  <2>9. \A i \in 1..n : scripts'[p][i] = scripts[p][i] BY <1>7, <2>6, <2>7
  <2>10. \A i \in 1..N : i \notin 1..n => scripts'[p][i] = {} BY <1>7, <2>2, <2>6, <2>7
  <2> QED BY <2>6, <2>7, <2>8, <2>9, <2>10
<1> DEFINE New(k, i) == /\ k = c + i /\ easies'[k].of = urls[i] /\ easies'[k].to.part = p
                        /\ easies'[k].to.ix = n + i /\ easies'[k].to.moved = moved'[p]
<1>11. /\ easies' \in Seq(Easy) /\ Len(easies') = M /\ DOMAIN easies' = 1..M
       /\ \A k \in 1..c : easies'[k] = easies[k]
       /\ \A k \in 1..M : k \in 1..c \/ \E i \in 1..m : New(k, i)
  <2> DEFINE h(i) == [of |-> urls[i], to |-> [part |-> p, ix |-> n + i, moved |-> moved'[p]]]
             e == [i \in 1..m |-> h(i)]
  <2>1. \A i \in 1..m : /\ h(i).of = urls[i] /\ h(i).to.part = p
                        /\ h(i).to.ix = n + i /\ h(i).to.moved = moved'[p]
    OBVIOUS
  <2>2. \A i \in 1..m : h(i) \in Easy
    <3> QED BY <1>7, <1>4 DEF Easy, Place
  <2>3. easies' = easies \o e BY <1>3 DEF Appended
  <2> HIDE DEF h
  <2>4. Len(e) = m /\ \A i \in 1..m : e[i] = h(i) BY <1>5
  <2>5. e \in Seq(Easy) BY <1>5, <2>2, IsASeq
  <2>6. easies \in Seq(Easy) BY DEF IInv, TypeOK
  <2> HIDE DEF e
  <2>7. /\ easies \o e \in Seq(Easy) /\ Len(easies \o e) = M
        /\ \A k \in 1..M : (easies \o e)[k] = IF k <= c THEN easies[k] ELSE e[k - c]
    <3>1. easies \o e \in Seq(Easy) BY <2>5, <2>6, ConcatProperties
    <3>2. Len(easies \o e) = Len(easies) + Len(e) BY <2>5, <2>6, ConcatProperties
    <3>3. \A k \in 1..Len(easies) + Len(e) :
             (easies \o e)[k] = IF k <= Len(easies) THEN easies[k] ELSE e[k - Len(easies)]
      BY <2>5, <2>6, ConcatProperties
    <3>4. Len(easies) + Len(e) = M BY <1>3, <1>6, <2>4
    <3> QED BY <1>3, <3>1, <3>2, <3>3, <3>4
  <2>8. DOMAIN easies' = 1..M BY <2>3, <2>7, LenProperties
  <2>9. \A k \in 1..c : easies'[k] = easies[k] BY <1>8, <2>3, <2>7
  <2>10. ASSUME NEW k \in 1..M, k \notin 1..c PROVE \E i \in 1..m : New(k, i)
    <3>1. PICK i \in 1..m : k = c + i BY <1>9, <2>10
    <3>2. ~(k <= c) /\ k - c = i BY <1>8, <3>1
    <3>3. easies'[k] = e[i] BY <2>3, <2>7, <3>2
    <3>4. easies'[k] = h(i) BY <2>4, <3>3
    <3>5. New(k, i) BY <2>1, <3>1, <3>4
    <3> QED BY <3>5
  <2> HIDE DEF New
  <2> QED BY <2>3, <2>7, <2>8, <2>9, <2>10
<1>12. TypeOK'
  <2>1. \A q \in Part : scripts'[q] \in Seq(SUBSET Element) BY <1>10, Types DEF IInv
  <2>2. scripts' \in [Part -> Seq(SUBSET Element)]
    <3>1. scripts \in [Part -> Seq(SUBSET Element)] BY DEF IInv, TypeOK
    <3>2. scripts' = [scripts EXCEPT ![p] = scripts'[p]] BY <3>1 DEF Appended
    <3> QED BY <1>10, <3>1, <3>2
  <2>3. Range(urls) \subseteq Element BY <1>4 DEF Range
  <2>4. DOMAIN multi' \subseteq Transfer BY <1>4, <2>3 DEF IInv, TypeOK, Transfer
  <2> QED BY <1>1, <1>2, <1>11, <1>4, <2>2, <2>4 DEF IInv, TypeOK, Step, State, Loop
<1> DEFINE Old(k) == /\ easies'[k] = easies[k] /\ easies[k].to.part \in Part /\ easies[k].to.part # p
                     /\ easies[k].of \in Remote(easies[k].to.part) /\ Lands(easies[k].to)
<1>13. \A k \in 1..c : k \in 1..M /\ Old(k)
  BY <1>1, <1>3, <1>11, <1>8, Types DEF IInv, Handles
<1>14. \A k \in 1..M : (k \in 1..c /\ Old(k)) \/ \E i \in 1..m : New(k, i) BY <1>11, <1>13
<1>15. \A i \in 1..m : \E k \in 1..M : New(k, i)
  <2> SUFFICES ASSUME NEW i \in 1..m PROVE \E k \in 1..M : New(k, i)
    OBVIOUS
  <2>1. PICK k \in 1..M : k = c + i /\ ~(k <= c)
    <3>1. c + i \in 1..M /\ ~(c + i <= c) BY <1>8
    <3> QED BY <3>1
  <2>2. PICK j \in 1..m : New(k, j) BY <1>11, <2>1
  <2>3. j = i BY <2>1, <2>2
  <2> QED BY <2>2, <2>3
<1>16. DOMAIN multi' = Ofs'
  <2>1. \A x : x \in Ofs <=> \E k \in 1..c : x = easies[k].of
    <3>1. \A x : x \in Range(easies) <=> \E k \in 1..c : x = easies[k] BY <1>3 DEF Range
    <3> QED BY <3>1 DEF Ofs
  <2>2. \A x : x \in Ofs' <=> \E k \in 1..M : x = easies'[k].of
    <3>1. \A x : x \in Range(easies') <=> \E k \in 1..M : x = easies'[k] BY <1>11 DEF Range
    <3> QED BY <3>1 DEF Ofs
  <2>3. \A x : x \in Range(urls) <=> \E i \in 1..m : x = urls[i] BY <1>4 DEF Range
  <2>4. \A x : x \in Ofs' => x \in Ofs \/ x \in Range(urls) BY <1>14, <2>1, <2>2, <2>3
  <2>5. \A x : x \in Ofs => x \in Ofs' BY <1>13, <2>1, <2>2
  <2>6. \A x : x \in Range(urls) => x \in Ofs' BY <1>15, <2>2, <2>3
  <2> HIDE DEF Old, New
  <2> QED BY <1>1, <1>4, <2>4, <2>5, <2>6
<1>17. Attached' BY <1>1, <1>2, <1>16 DEF Attached, Loop
<1>18. Read' BY <1>1, <1>2, <1>4 DEF Read, Loop
<1>19. \A q \in Part : Remote(q)' = Remote(q) /\ Local(q)' = Local(q) BY DEF Remote, Local
<1>20. ASSUME NEW q \in Part, NEW s \in Part, NEW x \in Remote(q), x \in Remote(s) PROVE q = s
  <2>1. x[1] = q BY DEF Remote
  <2>2. x[1] = s BY <1>20 DEF Remote
  <2> QED BY <2>1, <2>2
<1>21. \A k \in 1..M : \E q \in Part : /\ q = easies'[k].to.part /\ easies'[k].of \in Remote(q)
                                      /\ easies'[k].to.moved = moved'[q] /\ easies'[k].to.ix \in DOMAIN scripts'[q]
  <2> SUFFICES ASSUME NEW k \in 1..M
               PROVE  \E q \in Part : /\ q = easies'[k].to.part /\ easies'[k].of \in Remote(q)
                                      /\ easies'[k].to.moved = moved'[q] /\ easies'[k].to.ix \in DOMAIN scripts'[q]
    OBVIOUS
  <2>1. CASE k \in 1..c /\ Old(k)
    <3>1. PICK q \in Part : q = easies[k].to.part /\ q # p BY <2>1
    <3>2. easies[k].to.moved = moved[q] /\ easies[k].to.ix \in DOMAIN scripts[q] BY <2>1, <3>1 DEF Lands
    <3>3. moved'[q] = moved[q] /\ scripts'[q] = scripts[q] BY <1>10, <1>4, <3>1
    <3> QED BY <2>1, <3>1, <3>2, <3>3
  <2>2. CASE \E i \in 1..m : New(k, i)
    <3>1. PICK i \in 1..m : New(k, i) BY <2>2
    <3>2. n + i \in DOMAIN scripts'[p] BY <1>10, <1>7
    <3> QED BY <1>4, <3>1, <3>2
  <2> QED BY <1>14, <2>1, <2>2
<1>22. Handles'
  <2>1. \A k \in 1..M : \E j \in DOMAIN page'[easies'[k].to.part] :
           page'[easies'[k].to.part][j] = "remote" /\ easies'[k].of = <<easies'[k].to.part, j>>
    <3>1. \A q \in Part : \A x \in Remote(q) : \E j \in DOMAIN page[q] : page[q][j] = "remote" /\ x = <<q, j>>
      BY DEF Remote
    <3> QED BY <1>21, <3>1
  <2>2. ASSUME NEW k \in DOMAIN easies' PROVE (easies[k].of \in Remote(easies[k].to.part))'
    <3>1. PICK j \in DOMAIN page'[easies'[k].to.part] :
             page'[easies'[k].to.part][j] = "remote" /\ easies'[k].of = <<easies'[k].to.part, j>>
      BY <1>11, <2>1
    <3> QED BY <3>1 DEF Remote
  <2>3. \A k \in DOMAIN easies' : Lands(easies[k].to)' BY <1>11, <1>21 DEF Lands
  <2>4. at' = "add_body" => \A k \in 1..M : easies'[k].to.part = "head"
    <3>1. at' = "add_body" => p = "head" /\ 1..c = {} BY <1>1, <1>2, <1>3
    <3> QED BY <1>14, <3>1
  <2>5. ASSUME NEW j \in 1..M, NEW k \in 1..M, easies'[j].of = easies'[k].of PROVE j = k
    <3>1. \A a, b \in 1..c : easies[a].of = easies[b].of => a = b BY <1>3 DEF IInv, Handles
    <3>2. \A a \in 1..c, i \in 1..m : Old(a) => easies[a].of # urls[i] BY <1>20, <1>4
    <3>3. CASE j \in 1..c /\ k \in 1..c BY <1>13, <2>5, <3>1, <3>3
    <3>4. CASE j \in 1..c /\ \E i \in 1..m : New(k, i) BY <1>13, <2>5, <3>2, <3>4
    <3>5. CASE k \in 1..c /\ \E i \in 1..m : New(j, i) BY <1>13, <2>5, <3>2, <3>5
    <3>6. CASE (\E i \in 1..m : New(j, i)) /\ \E i \in 1..m : New(k, i) BY <1>4, <2>5, <3>6
    <3> HIDE DEF Old, New
    <3> QED BY <1>14, <3>3, <3>4, <3>5, <3>6
  <2>6. ASSUME NEW j \in 1..M, NEW k \in 1..M, easies'[j].to.part = easies'[k].to.part,
               easies'[j].to.ix = easies'[k].to.ix
        PROVE  j = k
    <3>1. \A a, b \in 1..c : easies[a].to.part = easies[b].to.part /\ easies[a].to.ix = easies[b].to.ix => a = b
      BY <1>3 DEF IInv, Handles
    <3>3. CASE j \in 1..c /\ k \in 1..c BY <1>13, <2>6, <3>1, <3>3
    <3>4. CASE j \in 1..c /\ \E i \in 1..m : New(k, i) BY <1>13, <2>6, <3>4
    <3>5. CASE k \in 1..c /\ \E i \in 1..m : New(j, i) BY <1>13, <2>6, <3>5
    <3>6. CASE (\E i \in 1..m : New(j, i)) /\ \E i \in 1..m : New(k, i)
      <4>1. PICK a \in 1..m, b \in 1..m : New(j, a) /\ New(k, b) BY <3>6
      <4>2. a = b BY <1>7, <2>6, <4>1
      <4> QED BY <4>1, <4>2
    <3> HIDE DEF Old, New
    <3> QED BY <1>14, <3>3, <3>4, <3>5, <3>6
  <2> HIDE DEF Old, New
  <2> QED BY <1>11, <2>2, <2>3, <2>4, <2>5, <2>6 DEF Handles
<1>23. \A q \in Part : \A i \in DOMAIN scripts'[q] :
         (i \in DOMAIN scripts[q] /\ scripts'[q][i] = scripts[q][i]) \/ scripts'[q][i] = {}
  BY <1>3, <1>10
<1>24. Authors'
  <2>1. \A q \in Part : \A i \in DOMAIN scripts'[q] : scripts'[q][i] \subseteq Local(q)' BY <1>1, <1>19, <1>23
  <2>2. \A q \in Part : \A i \in DOMAIN scripts'[q] : \A x, y \in scripts'[q][i] : x = y
    BY <1>23 DEF IInv, Authors
  <2>3. \A q, s \in Part : \A i \in DOMAIN scripts'[q], j \in DOMAIN scripts'[s] :
           \A x \in scripts'[q][i] : x \in scripts'[s][j] => q = s /\ i = j
    BY <1>23 DEF IInv, Authors
  <2>4. ASSUME NEW k \in 1..M, NEW q \in Part, NEW i \in DOMAIN scripts'[q]
        PROVE  IF easies'[k].to.part = q /\ easies'[k].to.ix = i THEN scripts'[q][i] \subseteq {easies'[k].of}
               ELSE easies'[k].of \notin scripts'[q][i]
    <3>1. \A s \in Part, x \in Local(q) : x \notin Remote(s)
      <4> SUFFICES ASSUME NEW s \in Part, NEW x \in Local(q), x \in Remote(s) PROVE FALSE
        OBVIOUS
      <4>1. PICK j \in DOMAIN page[q] : x = <<q, j>> /\ page[q][j] \in {"inline", "ldjson"} BY DEF Local
      <4>2. PICK l \in DOMAIN page[s] : x = <<s, l>> /\ page[s][l] = "remote" BY DEF Remote
      <4> QED BY <4>1, <4>2
    <3>3. easies'[k].of \notin scripts'[q][i]
      <4>1. PICK s \in Part : easies'[k].of \in Remote(s) BY <1>21
      <4>2. scripts'[q][i] \subseteq Local(q) BY <1>19, <2>1
      <4> HIDE DEF Old, New
      <4> QED BY <3>1, <4>1, <4>2
    <3>4. ASSUME easies'[k].to.part = q, easies'[k].to.ix = i PROVE scripts'[q][i] \subseteq {easies'[k].of}
      <4>1. CASE k \in 1..c /\ Old(k)
        <5>1. q # p /\ scripts'[q] = scripts[q] /\ easies[k].to.part = q /\ easies[k].to.ix = i
          BY <1>10, <3>4, <4>1
        <5>2. scripts[q][i] \subseteq {easies[k].of} BY <1>3, <4>1, <5>1 DEF IInv, Authors
        <5> QED BY <4>1, <5>1, <5>2
      <4>2. CASE \E j \in 1..m : New(k, j)
        <5>1. PICK j \in 1..m : q = p /\ i = n + j BY <3>4, <4>2
        <5>2. i \in 1..N /\ i \notin 1..n BY <1>7, <5>1
        <5>3. scripts'[q][i] = {} BY <1>10, <5>1, <5>2
        <5> QED BY <5>3
      <4> HIDE DEF Old, New
      <4> QED BY <1>14, <4>1, <4>2
    <3> QED BY <3>3, <3>4
  <2> QED BY <1>11, <2>1, <2>2, <2>3, <2>4 DEF Authors
<1>25. Ordered'
  <2> SUFFICES ASSUME AllRemote'
               PROVE  /\ (at' = "add_body" => scripts'["body"] = <<>> /\ Matched(Len(easies))')
                      /\ (at' = "check" => \E h \in 0..Len(easies') : Matched(h)')
    BY <1>2 DEF Ordered, Loop
  <2>0. AllRemote BY DEF AllRemote
  <2>1. CASE p = "head"
    <3>1. scripts["head"] = <<>> /\ scripts["body"] = <<>> /\ easies = <<>> /\ at = "add_head"
      BY <1>1, <2>0, <2>1 DEF IInv, Ordered, Part
    <3>2. n = 0 /\ c = 0 BY <1>3, <2>1, <3>1
    <3>3. scripts'["body"] = <<>> BY <1>10, <2>1, <3>1 DEF Part
    <3>4. N = g /\ M = m /\ 1..c = {} BY <1>5, <1>6, <3>2
    <3>5. Len(scripts'["head"]) = g BY <1>10, <2>1, <3>4
    <3>6. \A k \in 1..M : easies'[k].to.part = "head" /\ easies'[k].to.ix = k BY <1>14, <2>1, <3>2, <3>4
    <3>7. Matched(Len(easies))'
      <4>1. M <= Len(scripts'["head"]) BY <1>5, <3>4, <3>5
      <4>2. Len(scripts'["body"]) = 0 BY <3>3
      <4>3. M <= M + 0 /\ \A k \in 1..M : k <= M OBVIOUS
      <4> HIDE DEF Old, New
      <4> QED BY <1>11, <3>6, <4>1, <4>2, <4>3 DEF Matched
    <3> QED BY <1>2, <2>1, <3>3, <3>7
  <2>2. CASE p = "body"
    <3>1. scripts["body"] = <<>> /\ Matched(c) /\ at = "add_body"
      BY <1>1, <1>3, <2>0, <2>2 DEF IInv, Ordered
    <3>2. n = 0 BY <1>3, <2>2, <3>1
    <3>3. N = g BY <1>6, <3>2
    <3>4. Len(scripts'["body"]) = g /\ scripts'["head"] = scripts["head"]
      BY <1>10, <2>2, <3>3 DEF Part
    <3>5. \A k \in 1..M : /\ easies'[k].to.part = IF k <= c THEN "head" ELSE "body"
                          /\ easies'[k].to.ix = IF k <= c THEN k ELSE k - c
      <4> SUFFICES ASSUME NEW k \in 1..M
                   PROVE  /\ easies'[k].to.part = IF k <= c THEN "head" ELSE "body"
                          /\ easies'[k].to.ix = IF k <= c THEN k ELSE k - c
        OBVIOUS
      <4>1. CASE k \in 1..c /\ Old(k)
        <5>1. k <= c /\ easies[k].to.part = "head" /\ easies[k].to.ix = k BY <1>3, <1>8, <3>1, <4>1 DEF Matched
        <5> QED BY <4>1, <5>1
      <4>2. CASE \E i \in 1..m : New(k, i)
        <5>1. PICK i \in 1..m : New(k, i) BY <4>2
        <5>2. ~(k <= c) /\ k - c = i BY <1>8, <5>1
        <5>3. n + i = i BY <3>2
        <5> QED BY <2>2, <5>1, <5>2, <5>3
      <4> HIDE DEF Old, New
      <4> QED BY <1>14, <4>1, <4>2
    <3>6. c <= Len(scripts'["head"]) BY <1>3, <3>1, <3>4 DEF Matched
    <3>7. M <= c + Len(scripts'["body"]) /\ c \in 0..M BY <1>5, <1>6, <3>4
    <3>8. Matched(c)' BY <1>11, <3>5, <3>6, <3>7 DEF Matched
    <3>9. c \in 0..Len(easies') BY <1>11, <3>7
    <3> HIDE DEF Old, New
    <3> QED BY <1>2, <2>2, <3>8, <3>9
  <2> QED BY <2>1, <2>2 DEF Part
<1> QED BY <1>12, <1>17, <1>18, <1>22, <1>24, <1>25 DEF IInv

(* Each url that curl takes gets the next place; a refused one gets none.  *)
LEMMA AddHandlesInv ==
    ASSUME IInv, NEW p \in Part, NEW refused, url_client_multi_add_handles(p, refused)
    PROVE  IInv'
<1> DEFINE I == {i \in DOMAIN page[p] : page[p][i] = "remote" /\ <<p, i>> \notin refused}
           urls == InOrder(p, I)
<1>1. PICK n \in Nat : n = Len(page[p]) /\ DOMAIN page[p] = 1..n BY Types DEF IInv
<1>2. I \in SUBSET (1..n) BY <1>1
<1>3. \A i \in I : <<p, i>> \in Remote(p) /\ <<p, i>> \in Element BY InElement DEF IInv, Remote
<1> HIDE DEF I
<1>4. PICK m \in Nat : m = Cardinality(I) BY <1>2, InOrderFacts
<1>5. DOMAIN urls = 1..m /\ \A i \in 1..m : \E k \in I : urls[i] = <<p, k>> BY <1>2, <1>4, InOrderFacts
<1>6. \A i, j \in 1..m : urls[i] = urls[j] => i = j
  <2>1. \A j, k \in 1..Cardinality(I) : InOrder(p, I)[j] = InOrder(p, I)[k] => j = k BY <1>2, InOrderFacts
  <2> QED BY <1>4, <2>1
<1>7. \A i \in 1..m : urls[i] \in Remote(p) /\ urls[i] \in Element BY <1>3, <1>5
<1>8. urls = Taken(p, refused) BY DEF Taken, I
<1> HIDE DEF urls
<1>9. moved' \in [Part -> BOOLEAN] /\ \A q \in Part : q # p => moved'[q] = moved[q]
  <2>1. moved \in [Part -> BOOLEAN] BY DEF IInv, TypeOK
  <2>2. (Urls(p) # <<>>) \in BOOLEAN OBVIOUS
  <2>3. moved' = moved \/ moved' = [moved EXCEPT ![p] = Urls(p) # <<>>] BY DEF url_client_multi_add_handles
  <2> QED BY <2>1, <2>2, <2>3
<1>10. /\ scripts' = [scripts EXCEPT ![p] = @ \o [i \in 1..m |-> {}]]
       /\ easies' = easies \o [i \in 1..m |-> [of |-> urls[i],
                        to |-> [part |-> p, ix |-> Len(scripts[p]) + i, moved |-> moved'[p]]]]
       /\ multi' = [t \in DOMAIN multi \cup Range(urls) |-> "running"]
  BY <1>5, <1>8 DEF url_client_multi_add_handles
<1>11. DOMAIN multi' = DOMAIN multi \cup Range(urls) /\ \A t \in DOMAIN multi' : multi'[t] = "running" BY <1>10
<1>12. Appended(p, m, m, urls) BY <1>5, <1>6, <1>7, <1>9, <1>10, <1>11 DEF Appended
<1>13. Adding(p) /\ AfterAdd /\ phase' = "scripts" /\ UNCHANGED <<page, unread, failed, result, flag>>
  BY DEF url_client_multi_add_handles
<1>14. m \in 0..m OBVIOUS
<1> QED BY <1>12, <1>13, <1>14, AddInv

(* No memory: the places that were appended stay and have no handle.       *)
LEMMA AddHandlesFailsInv ==
    ASSUME IInv, NEW p \in Part, NEW n \in Nat, AddHandlesFails(p, n)
    PROVE  IInv'
<1>1. /\ Adding(p) /\ AfterAdd /\ phase' = "scripts"
      /\ UNCHANGED <<page, moved, easies, multi, unread, failed, result, flag>>
      /\ scripts' = [scripts EXCEPT ![p] = @ \o [i \in 1..n |-> {}]]
  BY DEF AddHandlesFails
<1> DEFINE urls == <<>>
           e == [i \in 1..0 |-> [of |-> urls[i],
                    to |-> [part |-> p, ix |-> Len(scripts[p]) + i, moved |-> moved'[p]]]]
<1>2. e = <<>> OBVIOUS
<1>3. easies' = easies \o e
  <2>1. easies \in Seq(Easy) BY DEF IInv, TypeOK
  <2> HIDE DEF e
  <2> QED BY <1>1, <1>2, <2>1, ConcatEmptySeq
<1>4. DOMAIN urls = 1..0 /\ Range(urls) = {} BY DEF Range
<1>5. \A t \in DOMAIN multi : multi[t] = "running" BY <1>1, AddingFacts
<1>6. DOMAIN multi' = DOMAIN multi \cup Range(urls) /\ \A t \in DOMAIN multi' : multi'[t] = "running"
  BY <1>1, <1>4, <1>5
<1>7. moved' \in [Part -> BOOLEAN] /\ \A q \in Part : moved'[q] = moved[q] BY <1>1 DEF IInv, TypeOK
<1>8. \A i \in 1..0 : FALSE OBVIOUS
<1>9. Appended(p, n, 0, urls)
  <2> HIDE DEF urls
  <2> QED BY <1>1, <1>3, <1>4, <1>6, <1>7, <1>8 DEF Appended
<1>10. 0 \in 0..n OBVIOUS
<1> HIDE DEF urls, e
<1> QED BY <1>1, <1>9, <1>10, AddInv

(* Each handle is of another script.                                       *)
LEMMA CountHandles ==
    ASSUME IInv
    PROVE  Cardinality(Ofs) = Len(easies)
<1> DEFINE f == [k \in DOMAIN easies |-> easies[k].of]
<1>1. PICK c \in Nat : c = Len(easies) /\ DOMAIN easies = 1..c BY Types DEF IInv
<1>2. f \in Bijection(1..c, Ofs)
  <2>1. \A x : x \in Ofs <=> \E k \in 1..c : x = f[k]
    <3>1. \A x : x \in Range(easies) <=> \E k \in 1..c : x = easies[k] BY <1>1 DEF Range
    <3> QED BY <1>1, <3>1 DEF Ofs
  <2>2. f \in [1..c -> Ofs] BY <1>1, <2>1
  <2>3. \A j, k \in 1..c : f[j] = f[k] => j = k BY <1>1 DEF IInv, Handles
  <2> HIDE DEF f
  <2> QED BY <2>1, <2>2, <2>3 DEF Bijection, Injection, IsInjective, Surjection
<1>3. IsFiniteSet(1..c) /\ Cardinality(1..c) = c BY FS_Interval
<1> HIDE DEF f
<1>4. ExistsBijection(1..c, Ofs) BY <1>2 DEF ExistsBijection
<1> QED BY <1>1, <1>3, <1>4, FS_Bijection

(* When every script is remote and has a handle, the one of an index is    *)
(* the one of the handle.                                                  *)
LEMMA IndexMatches ==
    ASSUME IInv, NEW h \in 0..Len(easies), Matched(h), NoneMissing, DOMAIN multi = Ofs, NEW k \in DOMAIN easies
    PROVE  htmldoc_script_at(k - 1) = <<easies[k].to.part, easies[k].to.ix>>
<1>1. PICK c \in Nat : c = Len(easies) /\ DOMAIN easies = 1..c BY Types DEF IInv
<1>2. PICK H \in Nat, B \in Nat : H = Len(scripts["head"]) /\ B = Len(scripts["body"]) BY Types DEF IInv, Part
<1>3. Cardinality(DOMAIN multi) = c BY <1>1, CountHandles
<1>4. Len(scripts["head"] \o scripts["body"]) = H + B
  <2>1. scripts["head"] \in Seq(SUBSET Element) /\ scripts["body"] \in Seq(SUBSET Element) BY Types DEF IInv, Part
  <2> QED BY <1>2, <2>1, ConcatProperties
<1>5. c = H + B BY <1>3, <1>4 DEF NoneMissing
<1>6. h <= H /\ c <= h + B BY <1>1, <1>2 DEF Matched
<1>7. h \in Nat /\ k \in 1..c BY <1>1
<1>8. h = H BY <1>5, <1>6, <1>7
<1>9. easies[k].to.part = (IF k <= h THEN "head" ELSE "body") /\ easies[k].to.ix = (IF k <= h THEN k ELSE k - h)
  BY DEF Matched
<1>10. k - 1 < H <=> k <= H BY <1>7
<1>11. k - 1 + 1 = k /\ k - 1 - H + 1 = k - H BY <1>7
<1> QED BY <1>2, <1>8, <1>9, <1>10, <1>11 DEF htmldoc_script_at

(* The scripts of the failed transfers are emptied.                        *)
LEMMA ClearInv ==
    ASSUME IInv, clear_scripts_that_failed_to_download
    PROVE  IInv'
<1> DEFINE cleared == {htmldoc_script_at(ix) : ix \in get_failed_indexes}
<1>1. /\ at = "report" /\ at' = "remove" /\ UNCHANGED <<page, phase, moved, easies>>
      /\ UNCHANGED <<multi, unread, failed, result, flag>>
      /\ scripts' = [p \in Part |-> [i \in DOMAIN scripts[p] |-> IF <<p, i>> \in cleared THEN {} ELSE scripts[p][i]]]
  BY DEF clear_scripts_that_failed_to_download
<1>2. phase = "scripts" /\ DOMAIN multi = Ofs /\ unread = {} /\ Running = {}
      /\ failed = {t \in DOMAIN multi : multi[t] = "failed" /\ t \notin unread}
  BY <1>1 DEF IInv, Attached, Read
<1> HIDE DEF cleared
<1>3. \A p \in Part : DOMAIN scripts'[p] = DOMAIN scripts[p] BY <1>1
<1>4. \A p \in Part : \A i \in DOMAIN scripts[p] :
         scripts'[p][i] = {} \/ (<<p, i>> \notin cleared /\ scripts'[p][i] = scripts[p][i])
  BY <1>1
<1>5. TypeOK'
  <2>1. ASSUME NEW p \in Part PROVE scripts'[p] \in Seq(SUBSET Element)
    <3>1. PICK n \in Nat : DOMAIN scripts[p] = 1..n /\ scripts[p] \in Seq(SUBSET Element) BY Types DEF IInv
    <3>2. \A i \in 1..n : scripts[p][i] \in SUBSET Element BY <3>1
    <3>3. scripts'[p] = [i \in 1..n |-> IF <<p, i>> \in cleared THEN {} ELSE scripts[p][i]] BY <1>1, <3>1
    <3>4. \A i \in 1..n : (IF <<p, i>> \in cleared THEN {} ELSE scripts[p][i]) \in SUBSET Element BY <3>2
    <3> QED BY <3>3, <3>4, IsASeq
  <2>2. scripts' \in [Part -> Seq(SUBSET Element)] BY <1>1, <2>1
  <2> QED BY <1>1, <2>2 DEF IInv, TypeOK, Step
<1>6. Attached' BY <1>1, <1>2 DEF Attached, Loop, Ofs
<1>7. Read' BY <1>1, <1>2 DEF Read, Running
<1>8. Handles'
  <2>1. \A k \in DOMAIN easies : /\ easies[k].of \in Remote(easies[k].to.part) /\ Lands(easies[k].to)
                                 /\ easies[k].to.part \in Part
    BY Types DEF IInv, Handles
  <2>2. \A k \in DOMAIN easies' : (easies[k].of \in Remote(easies[k].to.part))' BY <1>1, <2>1 DEF Remote
  <2>3. \A k \in DOMAIN easies' : Lands(easies[k].to)' BY <1>1, <1>3, <2>1 DEF Lands
  <2>4. /\ \A j, k \in DOMAIN easies' : easies'[j].of = easies'[k].of => j = k
        /\ \A j, k \in DOMAIN easies' :
              easies'[j].to.part = easies'[k].to.part /\ easies'[j].to.ix = easies'[k].to.ix => j = k
    BY <1>1 DEF IInv, Handles
  <2> QED BY <1>1, <2>2, <2>3, <2>4 DEF Handles
<1>9. Authors'
  <2>e. easies' = easies BY <1>1
  <2>0. \A p \in Part : \A i \in DOMAIN scripts'[p] : i \in DOMAIN scripts[p] /\ scripts'[p][i] \subseteq scripts[p][i]
    BY <1>3, <1>4
  <2>1. \A p \in Part : \A i \in DOMAIN scripts'[p] : \A x, y \in scripts'[p][i] : x = y
    <3> SUFFICES ASSUME NEW p \in Part, NEW i \in DOMAIN scripts'[p], NEW x \in scripts'[p][i], NEW y \in scripts'[p][i]
                 PROVE  x = y
      OBVIOUS
    <3>1. i \in DOMAIN scripts[p] /\ x \in scripts[p][i] /\ y \in scripts[p][i] BY <2>0
    <3> QED BY <3>1 DEF IInv, Authors
  <2>2. \A p, q \in Part : \A i \in DOMAIN scripts'[p], j \in DOMAIN scripts'[q] :
          \A x \in scripts'[p][i] : x \in scripts'[q][j] => p = q /\ i = j
    <3> SUFFICES ASSUME NEW p \in Part, NEW q \in Part, NEW i \in DOMAIN scripts'[p], NEW j \in DOMAIN scripts'[q],
                        NEW x \in scripts'[p][i], x \in scripts'[q][j]
                 PROVE  p = q /\ i = j
      OBVIOUS
    <3>1. i \in DOMAIN scripts[p] /\ j \in DOMAIN scripts[q] /\ x \in scripts[p][i] /\ x \in scripts[q][j] BY <2>0
    <3> QED BY <3>1 DEF IInv, Authors
  <2>3. \A k \in DOMAIN easies' : \A p \in Part : \A i \in DOMAIN scripts'[p] :
          IF easies'[k].to.part = p /\ easies'[k].to.ix = i THEN scripts'[p][i] \subseteq {easies'[k].of}
          ELSE easies'[k].of \notin scripts'[p][i]
    <3> SUFFICES ASSUME NEW k \in DOMAIN easies, NEW p \in Part, NEW i \in DOMAIN scripts'[p]
                 PROVE  IF easies[k].to.part = p /\ easies[k].to.ix = i THEN scripts'[p][i] \subseteq {easies[k].of}
                        ELSE easies[k].of \notin scripts'[p][i]
      BY <2>e
    <3>1. i \in DOMAIN scripts[p] /\ scripts'[p][i] \subseteq scripts[p][i] BY <2>0
    <3>2. IF easies[k].to.part = p /\ easies[k].to.ix = i THEN scripts[p][i] \subseteq {easies[k].of}
          ELSE easies[k].of \notin scripts[p][i]
      BY <3>1 DEF IInv, Authors
    <3> QED BY <3>1, <3>2
  <2> QED BY <1>1, <2>1, <2>2, <2>3 DEF Authors
<1>10. Ordered'
  <2> SUFFICES ASSUME AllRemote', NoneMissing' PROVE FailedEmptied'
    BY <1>1 DEF Ordered, Loop
  <2>1. AllRemote BY <1>1 DEF AllRemote
  <2>2. NoneMissing
    <3>1. \A p \in Part : Len(scripts'[p]) = Len(scripts[p])
      <4>1. \A p \in Part : Len(scripts'[p]) \in Nat /\ DOMAIN scripts'[p] = 1..Len(scripts'[p])
        BY <1>5, LenProperties DEF TypeOK
      <4>2. \A p \in Part : Len(scripts[p]) \in Nat /\ DOMAIN scripts[p] = 1..Len(scripts[p]) BY Types DEF IInv
      <4>3. \A a, b \in Nat : 1..a = 1..b => a = b OBVIOUS
      <4> QED BY <1>3, <4>1, <4>2, <4>3
    <3>2. /\ scripts["head"] \in Seq(SUBSET Element) /\ scripts["body"] \in Seq(SUBSET Element)
          /\ scripts'["head"] \in Seq(SUBSET Element) /\ scripts'["body"] \in Seq(SUBSET Element)
      BY <1>5 DEF IInv, TypeOK, Part
    <3>3. Len(scripts["head"] \o scripts["body"]) = Len(scripts["head"]) + Len(scripts["body"]) BY <3>2, ConcatProperties
    <3>4. Len(scripts'["head"] \o scripts'["body"]) = Len(scripts'["head"]) + Len(scripts'["body"]) BY <3>2, ConcatProperties
    <3> QED BY <1>1, <3>1, <3>3, <3>4 DEF NoneMissing, Part
  <2>3. PICK h \in 0..Len(easies) : Matched(h) BY <1>1, <1>2, <2>1 DEF IInv, Ordered
  <2>4. ASSUME NEW p \in Part, NEW i \in DOMAIN scripts[p], NEW x \in scripts'[p][i], x \in failed PROVE FALSE
    <3>1. x \in scripts[p][i] /\ <<p, i>> \notin cleared BY <1>4, <2>4
    <3>2. x \in Ofs BY <1>2, <2>4
    <3>3. PICK k \in DOMAIN easies : x = easies[k].of BY <3>2 DEF Ofs, Range
    <3>4. easies[k].to.part = p /\ easies[k].to.ix = i BY <3>1, <3>3 DEF IInv, Authors
    <3>5. htmldoc_script_at(k - 1) = <<p, i>> BY <1>2, <2>2, <2>3, <3>4, IndexMatches
    <3>6. k - 1 \in get_failed_indexes BY <2>4, <3>3 DEF get_failed_indexes
    <3> QED BY <3>1, <3>5, <3>6 DEF cleared
  <2> QED BY <1>1, <1>3, <2>4 DEF FailedEmptied
<1> QED BY <1>5, <1>6, <1>7, <1>8, <1>9, <1>10 DEF IInv

(* The handles that were all over are removed.                             *)
LEMMA RemoveInv ==
    ASSUME IInv, w_curl_multi_remove_handles
    PROVE  IInv'
<1>1. /\ at = "remove" /\ at' = "clean" /\ UNCHANGED <<page, phase, scripts, moved, easies, failed, result, flag>>
      /\ multi' = [t \in DOMAIN multi \ Ofs |-> multi[t]] /\ unread' = unread \ Ofs
  BY DEF w_curl_multi_remove_handles, Ofs
<1>2. phase = "scripts" /\ DOMAIN multi = Ofs /\ unread = {} BY <1>1 DEF IInv, Attached, Read
<1>3. DOMAIN multi' = {} /\ unread' = {} BY <1>1, <1>2
<1>4. TypeOK' BY <1>1, <1>3 DEF IInv, TypeOK, Step
<1>5. Attached' BY <1>1, <1>2, <1>3 DEF Attached, Loop
<1>6. Read' BY <1>1, <1>3 DEF Read
<1>7. Handles' /\ Authors' BY <1>1, Untouched
<1>8. Ordered' BY <1>1 DEF Ordered, Loop
<1> QED BY <1>4, <1>5, <1>6, <1>7, <1>8 DEF IInv

(* Whatever was left attached is detached.                                 *)
LEMMA CleanInv ==
    ASSUME IInv, Clean
    PROVE  IInv'
<1>1. /\ at = "clean" /\ at' = "start" /\ UNCHANGED <<page, phase, scripts, moved, result, flag>>
      /\ multi' = [t \in DOMAIN multi \ Ofs |-> multi[t]] /\ unread' = {} /\ failed' = {} /\ easies' = <<>>
  BY DEF Clean, Ofs
<1>2. DOMAIN multi \ Ofs = {} BY <1>1 DEF IInv, Attached
<1>3. multi' = None
  <2>1. multi' = [t \in {} |-> multi[t]] BY <1>1, <1>2
  <2>2. [t \in {} |-> multi[t]] = [t \in {} |-> "over"] OBVIOUS
  <2> QED BY <2>1, <2>2 DEF None
<1>4. DOMAIN multi' = {} /\ DOMAIN easies' = {} BY <1>1, <1>2
<1>5. TypeOK' BY <1>1, <1>4 DEF IInv, TypeOK, Step
<1>6. Attached' BY <1>1, <1>3 DEF Attached, Loop
<1>7. Read' BY <1>1, <1>4 DEF Read
<1>8. Handles' BY <1>4 DEF Handles
<1>9. Authors' BY <1>1, <1>4 DEF IInv, Authors
<1>10. Ordered' BY <1>1 DEF Ordered, Loop
<1> QED BY <1>5, <1>6, <1>7, <1>8, <1>9, <1>10 DEF IInv

(* The first state.                                                        *)
LEMMA InitInv ==
    ASSUME Init
    PROVE  IInv
<1>1. /\ page \in Pages /\ at = "start" /\ phase = "document" /\ scripts = [p \in Part |-> <<>>]
      /\ moved = [p \in Part |-> FALSE] /\ easies = <<>> /\ multi = None /\ unread = {} /\ failed = {}
      /\ result = "ok" /\ flag = FALSE
  BY DEF Init
<1>2. DOMAIN multi = {} /\ DOMAIN easies = {} BY <1>1 DEF None
<1>3. \A p \in Part : scripts[p] = <<>> /\ DOMAIN scripts[p] = {} BY <1>1
<1>4. TypeOK
  <2>1. scripts \in [Part -> Seq(SUBSET Element)] BY <1>1
  <2>2. moved \in [Part -> BOOLEAN] BY <1>1
  <2>3. easies \in Seq(Easy) BY <1>1
  <2> QED BY <1>1, <1>2, <2>1, <2>2, <2>3 DEF TypeOK, Step
<1>5. Attached BY <1>1 DEF Attached, Loop
<1>6. Read BY <1>1, <1>2 DEF Read
<1>7. Handles BY <1>2 DEF Handles
<1>8. Authors BY <1>2, <1>3 DEF Authors
<1>9. Ordered BY <1>1 DEF Ordered, Loop
<1> QED BY <1>4, <1>5, <1>6, <1>7, <1>8, <1>9 DEF IInv

(* Every step keeps the invariant.                                         *)
LEMMA NextInv ==
    ASSUME IInv, [Next]_vars
    PROVE  IInv'
<1>1. CASE FetchDocument BY <1>1, StartInv
<1>2. CASE Interrupt \/ Check \/ Clear \/ Cancel \/ Poll \/ MultiFails BY <1>2, LoopInv
<1>3. CASE \E W \in SUBSET Running, next \in [Running -> State] : Perform(W, next) BY <1>3, PerformInv
<1>4. CASE ReadInfo BY <1>4, ReadInfoInv
<1>5. CASE GotDocument BY <1>5, GotInv
<1>6. CASE _split_remote_local_ BY <1>6, SplitInv
<1>7. CASE \E p \in Part : \E refused \in SUBSET Range(Urls(p)) : url_client_multi_add_handles(p, refused)
  BY <1>7, AddHandlesInv
<1>8. CASE \E p \in Part, n \in 0..Len(page["head"] \o page["body"]) : AddHandlesFails(p, n)
  <2>1. PICK p \in Part, n \in 0..Len(page["head"] \o page["body"]) : AddHandlesFails(p, n) BY <1>8
  <2>2. n \in Nat OBVIOUS
  <2> QED BY <2>1, <2>2, AddHandlesFailsInv
<1>9. CASE clear_scripts_that_failed_to_download BY <1>9, ClearInv
<1>10. CASE w_curl_multi_remove_handles BY <1>10, RemoveInv
<1>11. CASE Clean BY <1>11, CleanInv
<1>12. CASE UNCHANGED vars
  <2>1. /\ UNCHANGED <<page, at, phase, scripts, moved, easies>>
        /\ UNCHANGED <<multi, unread, failed, result, flag>>
    BY <1>12 DEF vars
  <2>2. TypeOK' BY <2>1 DEF IInv, TypeOK
  <2>3. Attached' BY <2>1 DEF IInv, Attached, Ofs
  <2>4. Read' BY <2>1 DEF IInv, Read, Running
  <2>5. Handles' BY <2>1 DEF IInv, Handles, Remote, Lands
  <2>6. Authors' BY <2>1 DEF IInv, Authors, Local
  <2>7. Ordered' BY <2>1 DEF IInv, Ordered, Matched, AllRemote, NoneMissing, FailedEmptied
  <2> QED BY <2>2, <2>3, <2>4, <2>5, <2>6, <2>7 DEF IInv
<1> QED BY <1>1, <1>2, <1>3, <1>4, <1>5, <1>6, <1>7, <1>8, <1>9, <1>10, <1>11, <1>12 DEF Next, Fetch

(* The invariant holds in every state.                                     *)
LEMMA Inductive == Spec => []IInv
<1>1. Init => IInv BY InitInv
<1>2. IInv /\ [Next]_vars => IInv' BY NextInv
<1> QED BY <1>1, <1>2, PTL DEF Spec

(* The types of the transfers' state (wrapper-curl.c, url-client.c).       *)
THEOREM TypeCorrect == Spec => []TypeOK
<1>1. IInv => TypeOK BY DEF IInv
<1> QED BY <1>1, Inductive, PTL

(* What libcurl writes lands in the script it is of, and only there,       *)
(* however many scripts, transfers and refusals there are                  *)
(* (wrapper-curl.c:176-217, url-client.c:92-97).                           *)
THEOREM WritesAlwaysLand == Spec => []WritesLand
<1>1. IInv => AddressesGood BY DEF IInv, Handles, AddressesGood
<1>2. IInv => ScriptsNotMixed
  <2> SUFFICES ASSUME IInv PROVE ScriptsNotMixed
    OBVIOUS
  <2>1. ASSUME NEW p \in Part, NEW i \in DOMAIN scripts[p] PROVE Cardinality(scripts[p][i]) <= 1
    <3>1. CASE scripts[p][i] = {} BY <3>1, FS_EmptySet
    <3>2. CASE scripts[p][i] # {}
      <4>1. PICK x : x \in scripts[p][i] BY <3>2
      <4>2. scripts[p][i] = {x} BY <4>1 DEF IInv, Authors
      <4> QED BY <4>2, FS_Singleton
    <3> QED BY <3>1, <3>2
  <2>2. ASSUME NEW p \in Part, NEW q \in Part, NEW i \in DOMAIN scripts[p], NEW j \in DOMAIN scripts[q],
               scripts[p][i] \cap scripts[q][j] # {}
        PROVE  p = q /\ i = j
    <3>1. PICK x : x \in scripts[p][i] /\ x \in scripts[q][j] BY <2>2
    <3> QED BY <3>1 DEF IInv, Authors
  <2> QED BY <2>1, <2>2 DEF ScriptsNotMixed
<1>3. IInv => WritesLand BY <1>1, <1>2 DEF WritesLand
<1> QED BY <1>3, Inductive, PTL

(* Every failure is known and told while its message lives, no transfer is *)
(* left for the next fetch, and among remote scripts that all have a place *)
(* those that failed are emptied (wrapper-curl.c:112-125 and 273-280,      *)
(* wrapper-lexbor-curl.c:150-189 and 237-248).                             *)
THEOREM FailuresAlwaysSettled == Spec => []FailuresSettled
<1>1. IInv => FailuresKnown BY DEF IInv, Read, FailuresKnown
<1>2. IInv => MessagesAlive BY DEF IInv, Read, MessagesAlive, Loop
<1>3. IInv => NoTransferLeft BY DEF IInv, Attached, NoTransferLeft
<1>4. IInv => FailedEmptiedIfAllRemote BY DEF IInv, Ordered, FailedEmptiedIfAllRemote
<1>5. IInv => FailuresSettled BY <1>1, <1>2, <1>3, <1>4 DEF FailuresSettled
<1> QED BY <1>5, Inductive, PTL
=============================================================================
