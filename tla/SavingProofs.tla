---------------------------- MODULE SavingProofs ----------------------------
(***************************************************************************)
(* Proofs about Saving: its types, that what sessions enter in the         *)
(* histories is kept, that files are saved as the user is told, and that   *)
(* bookmarks are where they were asked for, for any number of sessions and *)
(* whatever else they do to the disk.  The first invariant follows each    *)
(* session up to its end: which file it writes to, what it entered and what*)
(* is still to be entered, in a log which the fetch history is but for its *)
(* header.  The second one, FiledInv, follows the file of each transfer;   *)
(* the third one, BookmarksInv, the page of bookmarks, in the file or in   *)
(* the memory of the session that changes it.                              *)
(***************************************************************************)
EXTENDS Saving, OrderProofs, SequenceTheorems

-----------------------------------------------------------------------------
(* Disks.                                                                  *)

(* A sequence, of whatever it has.                                         *)
IsList(q) == q \in Seq({q[i] : i \in DOMAIN q})

DiskOK(d) ==
    /\ d = [dir |-> d.dir, data |-> d.data]
    /\ IsList(d.data)
    /\ d.dir \in [Path -> 0..Len(d.data)]
    /\ \A p, q \in Path : d.dir[p] = d.dir[q] => p = q \/ d.dir[p] = 0

(* From d to e, the files of some names stay what they are: one that was   *)
(* not there may have been made.                                           *)
Grows(d, e, names) ==
    /\ DiskOK(e)
    /\ Len(d.data) <= Len(e.data)
    /\ \A p \in names : e.dir[p] = d.dir[p] \/ (d.dir[p] = 0 /\ e.dir[p] > Len(d.data))

(* And so does what is in them.                                            *)
Keeps(d, e, names) == Grows(d, e, names) /\ \A p \in names : File(e, p) = File(d, p)

Histories == {"inputs", "fetches"}

(* A disk with one file rewritten.                                         *)
Rewritten(d, ino, x) == [d EXCEPT !.data[ino] = x]

-----------------------------------------------------------------------------
(* The invariant.                                                          *)

Step == {"resolve", "create", "fill", "read", "save", "write", "open", "perform", "report", "close",
         "inputs", "enter inputs", "fetches", "header", "append", "enter fetches", "idle", "over", "dead"}

TransferOK(e, d) ==
    /\ e = [url |-> e.url, path |-> e.path, fp |-> e.fp, got |-> e.got, buf |-> e.buf, state |-> e.state]
    /\ e.path \in Name
    /\ e.fp \in 1..Len(d.data)
    /\ e.got \in 0..2
    /\ e.state \in {"running", "done", "failed"}
    /\ e.state = "running" => e.got < 2

Scalars ==
    /\ plan \in [Session -> Seq(Jobs)]
    /\ at \in [Session -> Step]
    /\ fp \in [Session -> 0..Len(disk.data)]
    /\ DOMAIN out = Session /\ out = [s \in Session |-> out[s]]
    /\ DOMAIN easies = Session /\ easies = [s \in Session |-> easies[s]]
    /\ saved \in [Session -> Nat]
    /\ closed \in [Histories -> SUBSET Session]

Jobbed(s) ==
    /\ AtBookmarks(s) => plan[s] # <<>> /\ Job(s).kind = "bookmark"
    /\ AtTransfers(s) => plan[s] # <<>> /\ Job(s).kind = "save"

Transfers(s) ==
    /\ IsList(easies[s]) /\ saved[s] <= Len(easies[s])
    /\ \A i \in DOMAIN easies[s] : TransferOK(easies[s][i], disk)

TypeInv == DiskOK(disk) /\ Scalars /\ \A s \in Session : Jobbed(s) /\ Transfers(s)

(* Who has a history open, and that nobody else writes to it.              *)
Apart(s) ==
    /\ Writing(s) => fp[s] # 0 /\ \A h \in Histories : fp[s] # disk.dir[h]
    /\ \A i \in DOMAIN easies[s], h \in Histories : easies[s][i].fp # disk.dir[h]
    /\ at[s] = "enter inputs" => fp[s] # 0 /\ fp[s] = disk.dir["inputs"]
    /\ at[s] \in {"header", "enter fetches"} => fp[s] # 0 /\ fp[s] = disk.dir["fetches"]

Entry == {<<"entry", s, k>> : s \in Session, k \in 1..Pieces}

(* How much of its pieces a session has entered in a history, while it     *)
(* does, and that the rest is still to be written.                         *)
Left(s) == Pieces - Len(out[s])
Remains(s) ==
    /\ out[s] \in Seq(Entry) /\ Len(out[s]) \in 0..Pieces
    /\ \A j \in 1..Len(out[s]) : out[s][j] = <<"entry", s, Left(s) + j>>

Past(s) == at[s] \in {"fetches", "header", "append", "enter fetches", "over", "dead"}

InputsInv ==
    LET inputs == File(disk, "inputs")
    IN  /\ inputs \in Seq(Entry)
        /\ \A s \in Session : ~Past(s) /\ at[s] # "enter inputs" => Of(s, inputs) = {}
        /\ \A s \in Session : at[s] = "enter inputs" => Remains(s) /\ Has(s, inputs, 1, Left(s))
        /\ \A s \in closed["inputs"] : Past(s) /\ Has(s, inputs, 1, Pieces)

Entering(s) == at[s] = "enter fetches" \/ s \in closed["fetches"]

(* A history that is what was entered, or has its header over the start of *)
(* that.                                                                   *)
Under(file, over, log) ==
    \/ over = <<>> /\ file = log
    \/ \E rest \in Seq(Entry) : file = Header \o rest /\ log = over \o rest

Logged(log) ==
    /\ \A s \in Session : at[s] \notin {"enter fetches", "over", "dead"} => Of(s, log) = {}
    /\ \A s \in Session : Entering(s) => Has(s, log, 1, Left(s))

FetchesInv ==
    /\ covered \in Seq(Entry) /\ Len(covered) <= HeaderLen
    /\ \E log \in Seq(Entry) : Under(File(disk, "fetches"), covered, log) /\ Logged(log)
    /\ \A s \in Session : at[s] = "enter fetches" => Remains(s)
    /\ \A s \in closed["fetches"] : at[s] = "over" /\ out[s] = <<>>

(* One session makes the fetch history; until it is past the header, there *)
(* is none.                                                                *)
HeaderInv ==
    /\ \A s, t \in Session : at[s] = "header" /\ at[t] = "header" => s = t
    /\ \A s \in Session : at[s] = "header" => File(disk, "fetches") \in Seq(Entry)

HistoryInv == InputsInv /\ FetchesInv /\ HeaderInv

IInv == TypeInv /\ (\A s \in Session : Apart(s)) /\ HistoryInv

-----------------------------------------------------------------------------
(* What opening, writing and removing files leaves of a disk.              *)

(* A sequence is a list of what it has, ...                                *)
LEMMA ListOf ==
    ASSUME NEW S, NEW q \in Seq(S)
    PROVE  IsList(q)
<1>1. Len(q) \in Nat /\ DOMAIN q = 1..Len(q) /\ q \in [1..Len(q) -> S] BY LenProperties
<1> DEFINE T == {q[i] : i \in DOMAIN q}
<1>2. q \in [1..Len(q) -> T] BY <1>1
<1> HIDE DEF T
<1>3. q \in Seq(T) BY <1>1, <1>2
<1> QED BY <1>3 DEF IsList, T

(* ... as one is with another element, or with one more.                   *)
LEMMA ListChanged ==
    ASSUME NEW q, IsList(q), NEW i \in DOMAIN q, NEW x
    PROVE  /\ IsList([q EXCEPT ![i] = x])
           /\ Len([q EXCEPT ![i] = x]) = Len(q)
<1> DEFINE S == {q[k] : k \in DOMAIN q} \cup {x}
<1>1. DOMAIN q = 1..Len(q) /\ Len(q) \in Nat BY LenProperties DEF IsList
<1>2. q \in Seq(S)
  <2>1. q \in [1..Len(q) -> S] BY <1>1, LenProperties DEF IsList
  <2> QED BY <1>1, <2>1
<1>3. x \in S OBVIOUS
<1> HIDE DEF S
<1> QED BY <1>1, <1>2, <1>3, ExceptSeq, ListOf

LEMMA ListLonger ==
    ASSUME NEW q, IsList(q), NEW x
    PROVE  /\ IsList(Append(q, x))
           /\ Len(Append(q, x)) = Len(q) + 1
           /\ \A k \in 1..Len(q) : Append(q, x)[k] = q[k]
           /\ Append(q, x)[Len(q) + 1] = x
<1> DEFINE S == {q[k] : k \in DOMAIN q} \cup {x}
<1>1. DOMAIN q = 1..Len(q) /\ Len(q) \in Nat BY LenProperties DEF IsList
<1>2. q \in Seq(S)
  <2>1. q \in [1..Len(q) -> S] BY <1>1, LenProperties DEF IsList
  <2> QED BY <1>1, <2>1
<1>3. x \in S OBVIOUS
<1> HIDE DEF S
<1>4. Append(q, x) \in Seq(S) /\ Len(Append(q, x)) = Len(q) + 1 BY <1>2, <1>3, AppendProperties
<1>5. \A k \in 1..Len(q) : Append(q, x)[k] = q[k] BY <1>1, <1>2, <1>3, AppendProperties
<1>6. Append(q, x)[Len(q) + 1] = x BY <1>1, <1>2, <1>3, AppendProperties
<1> QED BY <1>4, <1>5, <1>6, ListOf

(* The data of a disk.                                                     *)
LEMMA DiskData ==
    ASSUME NEW d, DiskOK(d)
    PROVE  Len(d.data) \in Nat /\ DOMAIN d.data = 1..Len(d.data)
BY LenProperties DEF DiskOK, IsList

(* Writing to an open file changes no name, and no other file.             *)
LEMMA Rewriting ==
    ASSUME NEW d, DiskOK(d), NEW ino \in 1..Len(d.data), NEW x,
           NEW e, e = Rewritten(d, ino, x)
    PROVE  /\ DiskOK(e) /\ e.dir = d.dir /\ Len(e.data) = Len(d.data)
           /\ e.data[ino] = x
           /\ \A names \in SUBSET Path : (\A p \in names : d.dir[p] # ino) => Keeps(d, e, names)
<1>1. Len(d.data) \in Nat /\ DOMAIN d.data = 1..Len(d.data) BY DiskData
<1>2. e = [dir |-> d.dir, data |-> [d.data EXCEPT ![ino] = x]] BY DEF DiskOK, Rewritten
<1>3. IsList(e.data) /\ Len(e.data) = Len(d.data) BY <1>1, <1>2, ListChanged DEF DiskOK
<1>4. e.dir = d.dir BY <1>2
<1>5. DiskOK(e) BY <1>2, <1>3, <1>4 DEF DiskOK
<1>6. \A i \in 1..Len(d.data) : e.data[i] = IF i = ino THEN x ELSE d.data[i] BY <1>1, <1>2
<1>7. ASSUME NEW names \in SUBSET Path, \A p \in names : d.dir[p] # ino PROVE Keeps(d, e, names)
  <2>1. ASSUME NEW p \in names PROVE File(e, p) = File(d, p)
    <3>1. d.dir[p] \in 0..Len(d.data) BY DEF DiskOK
    <3> QED BY <1>1, <1>4, <1>6, <1>7, <3>1 DEF File, Exists
  <2>2. \A p \in names : e.dir[p] = d.dir[p] BY <1>4
  <2>3. Len(d.data) <= Len(e.data) BY <1>1, <1>3
  <2> QED BY <1>5, <2>1, <2>2, <2>3 DEF Keeps, Grows
<1>8. e.data[ino] = x BY <1>6
<1> QED BY <1>3, <1>4, <1>5, <1>7, <1>8

(* Making a file keeps all others.                                         *)
LEMMA Making ==
    ASSUME NEW d, DiskOK(d), NEW path \in Path, NEW e, e = Made(d, path)
    PROVE  /\ Keeps(d, e, Path)
           /\ e.dir[path] \in 1..Len(e.data)
<1>1. Len(d.data) \in Nat /\ DOMAIN d.data = 1..Len(d.data) BY DiskData
<1>2. CASE Exists(d, path)
  <2>1. e = d BY <1>2 DEF Made
  <2>2. d.dir[path] \in 1..Len(d.data) BY <1>1, <1>2 DEF Exists, DiskOK
  <2> QED BY <1>1, <2>1, <2>2 DEF Keeps, Grows
<1>3. CASE ~Exists(d, path)
  <2>1. e = [dir |-> [d.dir EXCEPT ![path] = Len(d.data) + 1], data |-> Append(d.data, <<>>)]
    BY <1>3 DEF Made
  <2>2. /\ IsList(e.data) /\ Len(e.data) = Len(d.data) + 1
        /\ \A k \in 1..Len(d.data) : e.data[k] = d.data[k]
        /\ e.data[Len(d.data) + 1] = <<>>
    BY <2>1, ListLonger DEF DiskOK
  <2>3. d.dir[path] = 0 BY <1>3 DEF Exists
  <2>4. \A p \in Path : e.dir[p] = IF p = path THEN Len(d.data) + 1 ELSE d.dir[p] BY <2>1 DEF DiskOK
  <2>5. \A p \in Path : d.dir[p] \in 0..Len(d.data) BY DEF DiskOK
  <2>6. e.dir \in [Path -> 0..Len(e.data)] BY <1>1, <2>1, <2>2 DEF DiskOK
  <2>7. DiskOK(e)
    <3>1. ASSUME NEW p \in Path, NEW q \in Path, e.dir[p] = e.dir[q] PROVE p = q \/ e.dir[p] = 0
      <4>1. d.dir[p] = d.dir[q] => p = q \/ d.dir[p] = 0 BY DEF DiskOK
      <4> QED BY <1>1, <2>4, <2>5, <3>1, <4>1
    <3> QED BY <2>1, <2>2, <2>6, <3>1 DEF DiskOK
  <2>8. ASSUME NEW p \in Path PROVE File(e, p) = File(d, p)
    <3>1. CASE p = path BY <1>1, <1>3, <2>2, <2>4, <3>1 DEF File, Exists
    <3>2. CASE p # path
      <4>1. e.dir[p] = d.dir[p] BY <2>4, <3>2
      <4>2. d.dir[p] = 0 \/ e.data[d.dir[p]] = d.data[d.dir[p]] BY <1>1, <2>2, <2>5
      <4> QED BY <4>1, <4>2 DEF File, Exists
    <3> QED BY <3>1, <3>2
  <2>9. \A p \in Path : e.dir[p] = d.dir[p] \/ (d.dir[p] = 0 /\ e.dir[p] > Len(d.data)) BY <1>1, <2>3, <2>4
  <2>10. Len(d.data) <= Len(e.data) /\ e.dir[path] \in 1..Len(e.data) BY <1>1, <2>2, <2>4
  <2> QED BY <2>7, <2>8, <2>9, <2>10 DEF Keeps, Grows
<1> QED BY <1>2, <1>3

(* Opening a file to write empties it, and keeps the others.               *)
LEMMA Emptying ==
    ASSUME NEW d, DiskOK(d), NEW path \in Path, NEW e, e = OpenToWrite(d, path)
    PROVE  /\ Keeps(d, e, Path \ {path})
           /\ e.dir[path] \in 1..Len(e.data)
           /\ e.dir[path] = d.dir[path] \/ (d.dir[path] = 0 /\ e.dir[path] > Len(d.data))
           /\ File(e, path) = <<>>
<1> DEFINE m == Made(d, path)
           none == <<>>
           ino == m.dir[path]
<1>1. Keeps(d, m, Path) /\ m.dir[path] \in 1..Len(m.data) BY Making
<1>2. e = Rewritten(m, ino, none) /\ ino \in 1..Len(m.data) BY <1>1 DEF OpenToWrite, Rewritten
<1>3. DiskOK(m) BY <1>1 DEF Keeps, Grows
<1> HIDE DEF m, none, ino
<1>4. /\ DiskOK(e) /\ e.dir = m.dir /\ Len(e.data) = Len(m.data) /\ e.data[ino] = none
      /\ \A names \in SUBSET Path : (\A p \in names : m.dir[p] # ino) => Keeps(m, e, names)
  BY <1>2, <1>3, Rewriting
<1>5. \A p \in Path \ {path} : m.dir[p] # m.dir[path] BY <1>1, <1>3 DEF DiskOK
<1>6. Keeps(m, e, Path \ {path}) BY <1>4, <1>5 DEF ino
<1>7. Keeps(d, e, Path \ {path})
  <2>1. \A p \in Path \ {path} : File(e, p) = File(d, p) BY <1>1, <1>6 DEF Keeps, Grows
  <2>2. Len(d.data) <= Len(e.data) BY <1>1, <1>4 DEF Keeps, Grows
  <2> QED BY <1>1, <1>4, <2>1, <2>2 DEF Keeps, Grows
<1>8. e.dir[path] \in 1..Len(e.data) BY <1>1, <1>4
<1>9. e.dir[path] = d.dir[path] \/ (d.dir[path] = 0 /\ e.dir[path] > Len(d.data)) BY <1>1, <1>4 DEF Keeps, Grows
<1>10. File(e, path) = <<>> BY <1>4, <1>8 DEF File, Exists, ino, none
<1> QED BY <1>7, <1>8, <1>9, <1>10

(* Removing files keeps the others.                                        *)
LEMMA Removing ==
    ASSUME NEW d, DiskOK(d), NEW paths, NEW e, e = Removed(d, paths)
    PROVE  Keeps(d, e, Path \ paths)
<1>1. Len(d.data) \in Nat /\ DOMAIN d.data = 1..Len(d.data) BY DiskData
<1>2. e = [dir |-> [p \in Path |-> IF p \in paths THEN 0 ELSE d.dir[p]], data |-> d.data]
  BY DEF Removed, DiskOK
<1>3. DiskOK(e) BY <1>1, <1>2 DEF DiskOK
<1> QED BY <1>1, <1>2, <1>3 DEF Keeps, Grows, File, Exists

(* The disk after each of the first n files was closed.                    *)
Closings(d, q, W, n, f) ==
    f = [k \in 0..n |->
           IF k = 0 THEN d
           ELSE IF k \in W THEN Appended(f[k - 1], q[k].fp, q[k].buf)
           ELSE f[k - 1]]

LEMMA ClosingsExist ==
    ASSUME NEW d, NEW q, NEW W, NEW n \in Nat
    PROVE  \E f : Closings(d, q, W, n, f)
<1> DEFINE S == {k \in 0..n : \E f : Closings(d, q, W, k, f)}
<1>1. 0 \in S
  <2> DEFINE f == [k \in 0..0 |-> d]
  <2>1. f = [k \in 0..0 |->
              IF k = 0 THEN d
              ELSE IF k \in W THEN Appended(f[k - 1], q[k].fp, q[k].buf)
              ELSE f[k - 1]]
    <3>1. \A k \in 0..0 : k = 0 OBVIOUS
    <3> QED BY <3>1
  <2>2. Closings(d, q, W, 0, f) BY <2>1 DEF Closings
  <2> QED BY <2>2
<1>2. ASSUME NEW k \in 0..n, k \in S, k < n PROVE k + 1 \in S
  <2>1. PICK f : Closings(d, q, W, k, f) BY <1>2
  <2> DEFINE x == IF k + 1 \in W THEN Appended(f[k], q[k + 1].fp, q[k + 1].buf) ELSE f[k]
             g == [i \in 0..(k + 1) |-> IF i = k + 1 THEN x ELSE f[i]]
  <2>2. ASSUME NEW i \in 0..(k + 1)
        PROVE  g[i] = IF i = 0 THEN d
                      ELSE IF i \in W THEN Appended(g[i - 1], q[i].fp, q[i].buf)
                      ELSE g[i - 1]
    <3>1. CASE i = k + 1
      <4>1. i - 1 = k /\ i - 1 \in 0..(k + 1) /\ i - 1 # k + 1 /\ i # 0 BY <1>2, <3>1
      <4>2. g[i - 1] = f[k] /\ g[i] = x BY <3>1, <4>1
      <4> HIDE DEF g
      <4> QED BY <3>1, <4>1, <4>2
    <3>2. CASE i # k + 1
      <4>1. i \in 0..k BY <1>2, <3>2
      <4>2. f[i] = IF i = 0 THEN d ELSE IF i \in W THEN Appended(f[i - 1], q[i].fp, q[i].buf) ELSE f[i - 1]
        BY <2>1, <4>1 DEF Closings
      <4>3. g[i] = f[i] BY <3>2
      <4>4. i # 0 => g[i - 1] = f[i - 1]
        <5>1. i # 0 => i - 1 \in 0..(k + 1) /\ i - 1 # k + 1 BY <4>1
        <5> QED BY <5>1
      <4> HIDE DEF g
      <4> QED BY <4>2, <4>3, <4>4
    <3> QED BY <3>1, <3>2
  <2>3. g = [i \in 0..(k + 1) |-> g[i]] OBVIOUS
  <2> HIDE DEF g
  <2>4. Closings(d, q, W, k + 1, g) BY <2>2, <2>3, Zenon DEF Closings
  <2>5. k + 1 \in 0..n BY <1>2
  <2> QED BY <2>4, <2>5
<1> HIDE DEF S
<1>3. \A k \in 0..n : k \in S BY <1>1, <1>2, SetInduction
<1> QED BY <1>3 DEF S

(* Closing files changes no name, and no file but those that are closed.   *)
LEMMA Flushing ==
    ASSUME NEW d, DiskOK(d), NEW q, IsList(q), \A k \in DOMAIN q : q[k].fp \in 1..Len(d.data),
           NEW W, NEW e, e = Flushed(d, q, W)
    PROVE  /\ DiskOK(e) /\ e.dir = d.dir /\ Len(e.data) = Len(d.data)
           /\ \A names \in SUBSET Path :
                 (\A p \in names, k \in DOMAIN q : d.dir[p] # q[k].fp) => Keeps(d, e, names)
<1> DEFINE n == Len(q)
<1>1. n \in Nat /\ DOMAIN q = 1..n BY LenProperties DEF IsList
<1>2. PICK f : Closings(d, q, W, n, f) /\ e = f[n]
  <2> DEFINE g == CHOOSE h : Closings(d, q, W, n, h)
  <2>1. Closings(d, q, W, n, g) BY <1>1, ClosingsExist
  <2>2. e = g[n] BY DEF Flushed, Closings
  <2> QED BY <2>1, <2>2
<1> HIDE DEF n
<1>3. ASSUME NEW names \in SUBSET Path, \A p \in names, k \in DOMAIN q : d.dir[p] # q[k].fp
      PROVE  e.dir = d.dir /\ Len(e.data) = Len(d.data) /\ Keeps(d, e, names)
  <2> DEFINE S == {k \in 0..n : f[k].dir = d.dir /\ Len(f[k].data) = Len(d.data) /\ Keeps(d, f[k], names)}
  <2>1. 0 \in S
    <3>1. f[0] = d BY <1>1, <1>2 DEF Closings
    <3>2. Len(d.data) <= Len(d.data) BY DiskData
    <3>3. Keeps(d, d, names) BY <3>2 DEF Keeps, Grows
    <3> QED BY <1>1, <3>1, <3>3
  <2>2. ASSUME NEW k \in 0..n, k \in S, k < n PROVE k + 1 \in S
    <3>1. k + 1 \in 0..n /\ k + 1 # 0 /\ (k + 1) - 1 = k /\ k + 1 \in DOMAIN q BY <1>1, <2>2
    <3>2. f[k + 1] = IF k + 1 \in W THEN Appended(f[k], q[k + 1].fp, q[k + 1].buf) ELSE f[k]
      BY <1>2, <3>1 DEF Closings
    <3>3. DiskOK(f[k]) BY <2>2 DEF Keeps, Grows
    <3>4. CASE k + 1 \notin W BY <2>2, <3>1, <3>2, <3>4
    <3>5. CASE k + 1 \in W
      <4> DEFINE a == f[k]
                 b == f[k + 1]
                 ino == q[k + 1].fp
                 x == a.data[ino] \o q[k + 1].buf
      <4>1. b = Rewritten(a, ino, x) BY <3>2, <3>5 DEF Rewritten, Appended
      <4>2. ino \in 1..Len(a.data) BY <2>2, <3>1
      <4> HIDE DEF a, b, ino, x
      <4>3. DiskOK(a) BY <3>3 DEF a
      <4>4. /\ DiskOK(b) /\ b.dir = a.dir /\ Len(b.data) = Len(a.data)
            /\ \A ns \in SUBSET Path : (\A p \in ns : a.dir[p] # ino) => Keeps(a, b, ns)
        BY <4>1, <4>2, <4>3, Rewriting
      <4>5. a.dir = d.dir /\ Len(a.data) = Len(d.data) /\ Keeps(d, a, names) BY <2>2 DEF a
      <4>6. \A p \in names : a.dir[p] # ino BY <1>3, <3>1, <4>5 DEF ino
      <4>7. Keeps(a, b, names) BY <4>4, <4>6
      <4>8. Keeps(d, b, names) BY <4>4, <4>5, <4>7 DEF Keeps, Grows
      <4> QED BY <3>1, <4>4, <4>5, <4>8 DEF b
    <3> QED BY <3>4, <3>5
  <2> HIDE DEF S
  <2>3. \A k \in 0..n : k \in S BY <1>1, <2>1, <2>2, SetInduction
  <2>4. n \in S
    <3>1. n \in 0..n BY <1>1
    <3> QED BY <2>3, <3>1
  <2> QED BY <1>2, <2>4 DEF S
<1>4. e.dir = d.dir /\ Len(e.data) = Len(d.data) /\ Keeps(d, e, {})
  <2>1. {} \in SUBSET Path OBVIOUS
  <2> QED BY <1>3, <2>1
<1> QED BY <1>3, <1>4 DEF Keeps, Grows

-----------------------------------------------------------------------------
(* Types.                                                                  *)

(* A step of a session leaves what others have as it is.                   *)
Only(s) ==
    /\ plan' = [plan EXCEPT ![s] = plan'[s]]
    /\ at' = [at EXCEPT ![s] = at'[s]]
    /\ fp' = [fp EXCEPT ![s] = fp'[s]]
    /\ out' = [out EXCEPT ![s] = out'[s]]
    /\ easies' = [easies EXCEPT ![s] = easies'[s]]
    /\ saved' = [saved EXCEPT ![s] = saved'[s]]
    /\ at[s] # "header" => covered' = covered

Acts(s) == Bookmarking(s) \/ Downloading(s) \/ Closing(s) \/ Killed(s)

LEMMA OnlyBookmarking ==
    ASSUME Scalars, NEW s \in Session, Bookmarking(s)
    PROVE  Only(s)
<1> USE DEF Scalars, Only, ghosts, Asked, Goes, CommandOver, Opens, Reaches
<1>1. CASE bookmark_add_to_section(s) BY <1>1 DEF bookmark_add_to_section
<1>2. CASE resolve_bookmarks_file(s) BY <1>2 DEF resolve_bookmarks_file
<1>3. CASE CreateBookmarks(s) BY <1>3 DEF CreateBookmarks
<1>4. CASE FillBookmarks(s) BY <1>4 DEF FillBookmarks
<1>5. CASE get_bookmarks_doc(s) BY <1>5 DEF get_bookmarks_doc
<1>6. CASE BookmarkFails(s) BY <1>6 DEF BookmarkFails
<1>7. CASE bookmarks_save_to_disc(s) BY <1>7 DEF bookmarks_save_to_disc
<1>8. CASE BookmarkAdded(s) BY <1>8 DEF BookmarkAdded
<1>9. CASE \E n \in 0..Len(out[s]) : BookmarkTorn(s, n) BY <1>9 DEF BookmarkTorn
<1> QED BY <1>1, <1>2, <1>3, <1>4, <1>5, <1>6, <1>7, <1>8, <1>9 DEF Bookmarking

LEMMA OnlyDownloading ==
    ASSUME Scalars, NEW s \in Session, Downloading(s)
    PROVE  Only(s)
<1> USE DEF Scalars, Only, ghosts, Asked, Goes, CommandOver, NextUrl
<1>1. CASE cmd_anchor_save_range(s) BY <1>1 DEF cmd_anchor_save_range
<1>2. CASE request_to_handle(s) BY <1>2 DEF request_to_handle
<1>3. CASE OpenFails(s) BY <1>3 DEF OpenFails
<1>4. CASE AllAdded(s) BY <1>4 DEF AllAdded
<1>5. CASE \E i \in DOMAIN easies[s], full \in BOOLEAN : Arrives(s, i, full)
  <2>1. PICK i \in DOMAIN easies[s], full \in BOOLEAN : Arrives(s, i, full) BY <1>5
  <2>2. PICK x : easies' = [easies EXCEPT ![s] = x] BY <2>1 DEF Arrives
  <2>3. UNCHANGED <<plan, at, fp, out, saved, covered>> BY <2>1 DEF Arrives
  <2>4. easies' = [easies EXCEPT ![s] = easies'[s]] BY <2>2
  <2> QED BY <2>3, <2>4
<1>6. CASE \E i \in DOMAIN easies[s] : TransferFails(s, i) BY <1>6 DEF TransferFails
<1>7. CASE \E canceled \in BOOLEAN : PerformEnds(s, canceled) BY <1>7 DEF PerformEnds
<1>8. CASE Report(s) BY <1>8 DEF Report
<1>9. CASE \E W \in SUBSET DOMAIN easies[s] : CloseFiles(s, W) BY <1>9 DEF CloseFiles
<1> QED BY <1>1, <1>2, <1>3, <1>4, <1>5, <1>6, <1>7, <1>8, <1>9 DEF Downloading

LEMMA OnlyClosing ==
    ASSUME Scalars, NEW s \in Session, Closing(s) \/ Killed(s)
    PROVE  Only(s)
<1> USE DEF Scalars, Only, ghosts, Asked, Goes, CommandOver, Opens
<1>1. CASE session_close(s) BY <1>1 DEF session_close
<1>2. CASE session_write_input_history(s) BY <1>2 DEF session_write_input_history, OpenHistory
<1>3. CASE EnterInputs(s) BY <1>3 DEF EnterInputs, Enter
<1>4. CASE FetchHistory(s)
  <2>1. UNCHANGED <<plan, out, easies, saved, covered>> BY <1>4 DEF FetchHistory
  <2>2. at' = [at EXCEPT ![s] = at'[s]] BY <1>4 DEF FetchHistory
  <2>3. fp' = [fp EXCEPT ![s] = fp'[s]] BY <1>4 DEF FetchHistory
  <2> QED BY <2>1, <2>2, <2>3
<1>5. CASE WriteHeader(s) BY <1>5 DEF WriteHeader
<1>6. CASE AppendFetches(s) BY <1>6 DEF AppendFetches, OpenHistory
<1>7. CASE EnterFetches(s) BY <1>7 DEF EnterFetches, Enter
<1>8. CASE Killed(s) BY <1>8 DEF Killed
<1> QED BY <1>1, <1>2, <1>3, <1>4, <1>5, <1>6, <1>7, <1>8 DEF Closing

(* A step that leaves the transfers alone.                                 *)
LEMMA TransfersStay ==
    ASSUME TypeInv, NEW s \in Session, DiskOK(disk'), Len(disk.data) <= Len(disk'.data),
           easies'[s] = easies[s], saved'[s] = saved[s]
    PROVE  Transfers(s)'
<1>1. Len(disk.data) \in Nat /\ Len(disk'.data) \in Nat BY DiskData DEF TypeInv
<1> QED BY <1>1 DEF TypeInv, Transfers, TransferOK

(* What is left to show of a step: the disk, and what its session has.     *)
LEMMA TypeStep ==
    ASSUME TypeInv, NEW s \in Session, Only(s),
           DiskOK(disk'), Len(disk.data) <= Len(disk'.data),
           plan'[s] \in Seq(Jobs), at'[s] \in Step, fp'[s] \in 0..Len(disk'.data), saved'[s] \in Nat,
           closed' \in [Histories -> SUBSET Session],
           Jobbed(s)', Transfers(s)'
    PROVE  TypeInv'
<1>1. Len(disk.data) \in Nat /\ Len(disk'.data) \in Nat BY DiskData DEF TypeInv
<1>2. Scalars'
  <2>1. plan' \in [Session -> Seq(Jobs)] BY DEF TypeInv, Scalars, Only
  <2>2. at' \in [Session -> Step] BY DEF TypeInv, Scalars, Only
  <2>3. fp' \in [Session -> 0..Len(disk'.data)] BY <1>1 DEF TypeInv, Scalars, Only
  <2>4. DOMAIN out' = Session /\ out' = [t \in Session |-> out'[t]] BY DEF TypeInv, Scalars, Only
  <2>5. DOMAIN easies' = Session /\ easies' = [t \in Session |-> easies'[t]] BY DEF TypeInv, Scalars, Only
  <2>6. saved' \in [Session -> Nat] BY DEF TypeInv, Scalars, Only
  <2> QED BY <2>1, <2>2, <2>3, <2>4, <2>5, <2>6 DEF Scalars
<1>3. ASSUME NEW t \in Session, t # s PROVE Jobbed(t)' /\ Transfers(t)'
  <2>1. plan'[t] = plan[t] /\ at'[t] = at[t] /\ easies'[t] = easies[t] /\ saved'[t] = saved[t]
    BY <1>3 DEF TypeInv, Scalars, Only
  <2>2. Jobbed(t)' BY <2>1 DEF TypeInv, Jobbed, AtBookmarks, AtTransfers, Job
  <2>3. Transfers(t)' BY <2>1, TransfersStay
  <2> QED BY <2>2, <2>3
<1> QED BY <1>2, <1>3 DEF TypeInv

(* A step that leaves the transfers alone, and at most ends a command.     *)
LEMMA PlainStep ==
    ASSUME TypeInv, NEW s \in Session, Only(s),
           DiskOK(disk'), Len(disk.data) <= Len(disk'.data),
           UNCHANGED <<easies, saved>>, closed' \in [Histories -> SUBSET Session],
           at'[s] \in Step, fp'[s] \in 0..Len(disk'.data),
           \/ plan' = plan /\ (AtBookmarks(s)' => AtBookmarks(s) \/ Asked(s, "bookmark"))
                           /\ (AtTransfers(s)' => AtTransfers(s))
           \/ plan[s] # <<>> /\ CommandOver(s)
    PROVE  TypeInv'
<1>1. plan'[s] \in Seq(Jobs) /\ Jobbed(s)'
  <2>1. plan[s] \in Seq(Jobs) BY DEF TypeInv, Scalars
  <2>2. CASE plan' = plan /\ (AtBookmarks(s)' => AtBookmarks(s) \/ Asked(s, "bookmark"))
                          /\ (AtTransfers(s)' => AtTransfers(s))
    <3>1. Jobbed(s) BY DEF TypeInv
    <3>2. plan'[s] = plan[s] BY <2>2
    <3> QED BY <2>1, <2>2, <3>1, <3>2 DEF Jobbed, Asked, Job
  <2>3. CASE plan[s] # <<>> /\ CommandOver(s)
    <3>1. plan'[s] = Tail(plan[s]) /\ at'[s] = "idle" BY <2>3 DEF CommandOver, Goes, TypeInv, Scalars
    <3>2. Tail(plan[s]) \in Seq(Jobs) BY <2>1, <2>3, HeadTailProperties
    <3> QED BY <3>1, <3>2 DEF Jobbed, AtBookmarks, AtTransfers
  <2> QED BY <2>2, <2>3
<1>2. Transfers(s)' BY TransfersStay
<1>3. saved'[s] \in Nat BY DEF TypeInv, Scalars
<1> QED BY <1>1, <1>2, <1>3, TypeStep

(* The disk is as it was, or a file was opened.                            *)
LEMMA DiskStays ==
    ASSUME TypeInv, NEW s \in Session, UNCHANGED <<disk, fp>>
    PROVE  /\ DiskOK(disk') /\ Len(disk.data) <= Len(disk'.data) /\ fp'[s] \in 0..Len(disk'.data)
           /\ Keeps(disk, disk', Path)
<1>1. Len(disk.data) \in Nat BY DiskData DEF TypeInv
<1> QED BY <1>1 DEF TypeInv, Scalars, Keeps, Grows

LEMMA DiskOpened ==
    ASSUME TypeInv, NEW s \in Session, NEW path \in Path, NEW d,
           d = OpenToAppend(disk, path) \/ d = OpenToWrite(disk, path), Opens(s, path, d)
    PROVE  /\ DiskOK(disk') /\ Len(disk.data) <= Len(disk'.data)
           /\ fp'[s] \in 1..Len(disk'.data) /\ fp'[s] = disk'.dir[path]
           /\ Keeps(disk, disk', Path \ {path})
           /\ d = OpenToAppend(disk, path) => Keeps(disk, disk', Path)
           /\ d = OpenToWrite(disk, path) => File(disk', path) = <<>>
           /\ disk'.dir[path] = disk.dir[path]
              \/ (disk.dir[path] = 0 /\ disk'.dir[path] > Len(disk.data))
<1>1. disk' = d /\ fp'[s] = d.dir[path] BY DEF Opens, TypeInv, Scalars
<1>2. DiskOK(disk) BY DEF TypeInv
<1>3. CASE d = OpenToAppend(disk, path)
  <2>1. Keeps(disk, d, Path) /\ d.dir[path] \in 1..Len(d.data) BY <1>2, <1>3, Making DEF OpenToAppend
  <2>2. d = OpenToWrite(disk, path) => File(d, path) = <<>> BY <1>2, Emptying
  <2> QED BY <1>1, <2>1, <2>2 DEF Keeps, Grows
<1>4. CASE d = OpenToWrite(disk, path)
  <2>1. /\ Keeps(disk, d, Path \ {path}) /\ d.dir[path] \in 1..Len(d.data) /\ File(d, path) = <<>>
        /\ d.dir[path] = disk.dir[path] \/ (disk.dir[path] = 0 /\ d.dir[path] > Len(disk.data))
    BY <1>2, <1>4, Emptying
  <2>2. d = OpenToAppend(disk, path) => Keeps(disk, d, Path) BY <1>2, Making DEF OpenToAppend
  <2> QED BY <1>1, <2>1, <2>2 DEF Keeps, Grows
<1> QED BY <1>3, <1>4

(* What is written to the file that is open.                               *)
LEMMA DiskWritten ==
    ASSUME TypeInv, NEW s \in Session, fp[s] # 0, NEW x,
           disk' = Appended(disk, fp[s], x) \/ disk' = Written(disk, fp[s], x)
    PROVE  /\ DiskOK(disk') /\ disk'.dir = disk.dir /\ Len(disk'.data) = Len(disk.data)
           /\ disk' = Appended(disk, fp[s], x) => disk'.data[fp[s]] = disk.data[fp[s]] \o x
           /\ disk' = Written(disk, fp[s], x) =>
                 disk'.data[fp[s]] = x \o SubSeq(disk.data[fp[s]], Len(x) + 1, Len(disk.data[fp[s]]))
           /\ \A names \in SUBSET Path : (\A p \in names : disk.dir[p] # fp[s]) => Keeps(disk, disk', names)
<1> DEFINE ino == fp[s]
           y == disk.data[ino] \o x
           z == x \o SubSeq(disk.data[ino], Len(x) + 1, Len(disk.data[ino]))
<1>1. DiskOK(disk) /\ ino \in 1..Len(disk.data)
  <2>1. Len(disk.data) \in Nat BY DiskData DEF TypeInv
  <2> QED BY <2>1 DEF TypeInv, Scalars
<1> DEFINE Same == /\ DiskOK(disk') /\ disk'.dir = disk.dir /\ Len(disk'.data) = Len(disk.data)
                   /\ \A names \in SUBSET Path : (\A p \in names : disk.dir[p] # ino) => Keeps(disk, disk', names)
<1>2. ASSUME disk' = Appended(disk, ino, x) PROVE Same /\ disk'.data[ino] = y
  <2>1. disk' = Rewritten(disk, ino, y) BY <1>2 DEF Appended, Rewritten
  <2> HIDE DEF y
  <2>2. /\ DiskOK(disk') /\ disk'.dir = disk.dir /\ Len(disk'.data) = Len(disk.data) /\ disk'.data[ino] = y
        /\ \A names \in SUBSET Path : (\A p \in names : disk.dir[p] # ino) => Keeps(disk, disk', names)
    BY <1>1, <2>1, Rewriting
  <2> QED BY <2>2 DEF y
<1>3. ASSUME disk' = Written(disk, ino, x) PROVE Same /\ disk'.data[ino] = z
  <2>1. disk' = Rewritten(disk, ino, z) BY <1>3 DEF Written, Rewritten
  <2> HIDE DEF z
  <2>2. /\ DiskOK(disk') /\ disk'.dir = disk.dir /\ Len(disk'.data) = Len(disk.data) /\ disk'.data[ino] = z
        /\ \A names \in SUBSET Path : (\A p \in names : disk.dir[p] # ino) => Keeps(disk, disk', names)
    BY <1>1, <2>1, Rewriting
  <2> QED BY <2>2 DEF z
<1> QED BY <1>2, <1>3

(* A file that is no history does not come to be one.                      *)
LEMMA NoHistory ==
    ASSUME TypeInv, Grows(disk, disk', Histories), NEW h \in Histories,
           NEW ino \in 1..Len(disk.data), ino # disk.dir[h]
    PROVE  ino # disk'.dir[h]
<1>1. Len(disk.data) \in Nat BY DiskData DEF TypeInv
<1>2. disk'.dir[h] = disk.dir[h] \/ disk'.dir[h] > Len(disk.data) BY DEF Grows
<1>3. Len(disk'.data) \in Nat /\ DiskOK(disk') BY DiskData DEF Grows
<1>4. h \in Path BY DEF Histories, Path, Own
<1>5. disk'.dir[h] \in 0..Len(disk'.data) BY <1>3, <1>4 DEF DiskOK
<1> QED BY <1>1, <1>2, <1>3, <1>5

(* Who has which file open is as it was, for a session that does nothing...*)
LEMMA ApartOther ==
    ASSUME TypeInv, NEW t \in Session, Apart(t), Grows(disk, disk', Histories),
           at'[t] = at[t], fp'[t] = fp[t], easies'[t] = easies[t]
    PROVE  Apart(t)'
<1>1. Len(disk.data) \in Nat BY DiskData DEF TypeInv
<1>2. fp[t] \in 0..Len(disk.data) BY DEF TypeInv, Scalars
<1>3. \A i \in DOMAIN easies[t] : easies[t][i].fp \in 1..Len(disk.data) BY DEF TypeInv, Transfers, TransferOK
<1>4. \A h \in Histories : disk'.dir[h] = disk.dir[h] \/ disk.dir[h] = 0 BY DEF Grows
<1>5. ASSUME Writing(t)' PROVE fp'[t] # 0 /\ \A h \in Histories : fp'[t] # disk'.dir[h]
  <2>1. Writing(t) BY <1>5 DEF Writing
  <2>2. fp[t] # 0 /\ \A h \in Histories : fp[t] # disk.dir[h] BY <2>1 DEF Apart
  <2>3. fp[t] \in 1..Len(disk.data) BY <1>1, <1>2, <2>2
  <2> QED BY <2>2, <2>3, NoHistory
<1>6. \A i \in DOMAIN easies[t], h \in Histories : easies[t][i].fp # disk.dir[h] BY DEF Apart
<1>7. \A i \in DOMAIN easies'[t], h \in Histories : easies'[t][i].fp # disk'.dir[h] BY <1>3, <1>6, NoHistory
<1>8. "inputs" \in Histories /\ "fetches" \in Histories BY DEF Histories
<1>9. at'[t] = "enter inputs" => fp'[t] # 0 /\ fp'[t] = disk'.dir["inputs"] BY <1>4, <1>8 DEF Apart
<1>10. at'[t] \in {"header", "enter fetches"} => fp'[t] # 0 /\ fp'[t] = disk'.dir["fetches"]
  BY <1>4, <1>8 DEF Apart
<1> QED BY <1>5, <1>7, <1>9, <1>10 DEF Apart

(* ... and for one that does not come to write a file.                     *)
LEMMA ApartStep ==
    ASSUME TypeInv, NEW s \in Session, Apart(s), Grows(disk, disk', Histories), easies'[s] = easies[s],
           Writing(s)' => fp'[s] # 0 /\ \A h \in Histories : fp'[s] # disk'.dir[h],
           at'[s] = "enter inputs" => fp'[s] # 0 /\ fp'[s] = disk'.dir["inputs"],
           at'[s] \in {"header", "enter fetches"} => fp'[s] # 0 /\ fp'[s] = disk'.dir["fetches"]
    PROVE  Apart(s)'
<1>1. \A i \in DOMAIN easies[s] : easies[s][i].fp \in 1..Len(disk.data) BY DEF TypeInv, Transfers, TransferOK
<1>2. \A i \in DOMAIN easies[s], h \in Histories : easies[s][i].fp # disk.dir[h] BY DEF Apart
<1>3. \A i \in DOMAIN easies'[s], h \in Histories : easies'[s][i].fp # disk'.dir[h] BY <1>1, <1>2, NoHistory
<1> QED BY <1>3 DEF Apart

Untouched(s) == TypeInv' /\ Keeps(disk, disk', Histories) /\ Apart(s)'

(* A step that opens or writes no file.                                    *)
LEMMA StepInPlace ==
    ASSUME TypeInv, NEW s \in Session, Apart(s), Only(s),
           UNCHANGED <<disk, fp, easies, saved, closed>>,
           at'[s] \in Step, ~Writing(s)', at'[s] \notin {"enter inputs", "header", "enter fetches"},
           \/ plan' = plan /\ (AtBookmarks(s)' => AtBookmarks(s) \/ Asked(s, "bookmark"))
                           /\ (AtTransfers(s)' => AtTransfers(s))
           \/ plan[s] # <<>> /\ CommandOver(s)
    PROVE  Untouched(s)
<1>1. /\ DiskOK(disk') /\ Len(disk.data) <= Len(disk'.data) /\ fp'[s] \in 0..Len(disk'.data)
      /\ Keeps(disk, disk', Path)
  BY DiskStays
<1>2. closed' \in [Histories -> SUBSET Session] BY DEF TypeInv, Scalars
<1>3. TypeInv' BY <1>1, <1>2, PlainStep
<1>4. Keeps(disk, disk', Histories) BY <1>1 DEF Keeps, Grows, Histories, Path, Own
<1>5. Apart(s)' BY <1>4, ApartStep DEF Keeps
<1> QED BY <1>3, <1>4, <1>5 DEF Untouched

(* Bookmarks go to their own file.                                         *)
LEMMA OpenBookmarks ==
    ASSUME TypeInv, NEW s \in Session, Apart(s), Only(s), AtBookmarks(s),
           Opens(s, "bookmarks", OpenToWrite(disk, "bookmarks")),
           UNCHANGED <<plan, easies, saved, closed>>,
           Writing(s)'
    PROVE  Untouched(s)
<1>1. "bookmarks" \in Path BY DEF Path, Own
<1>2. /\ DiskOK(disk') /\ Len(disk.data) <= Len(disk'.data)
      /\ fp'[s] \in 1..Len(disk'.data) /\ fp'[s] = disk'.dir["bookmarks"]
      /\ Keeps(disk, disk', Path \ {"bookmarks"})
  BY <1>1, DiskOpened
<1>3. closed' \in [Histories -> SUBSET Session] BY DEF TypeInv, Scalars
<1>4. Len(disk'.data) \in Nat BY <1>2, DiskData
<1>5. at'[s] \in Step /\ AtBookmarks(s)' /\ ~AtTransfers(s)'
  BY DEF Writing, Step, AtBookmarks, AtTransfers
<1>6. fp'[s] \in 0..Len(disk'.data) /\ fp'[s] # 0 BY <1>2, <1>4
<1>7. TypeInv' BY <1>2, <1>3, <1>5, <1>6, PlainStep
<1>8. Keeps(disk, disk', Histories) BY <1>2 DEF Keeps, Grows, Histories, Path, Own
<1>9. \A h \in Histories : fp'[s] # disk'.dir[h] BY <1>2, <1>6 DEF DiskOK, Histories, Path, Own
<1>10. at'[s] \notin {"enter inputs", "header", "enter fetches"} BY DEF Writing
<1>11. Apart(s)' BY <1>6, <1>8, <1>9, <1>10, ApartStep DEF Keeps
<1> QED BY <1>7, <1>8, <1>11 DEF Untouched

LEMMA WriteBookmarks ==
    ASSUME TypeInv, NEW s \in Session, Apart(s), Only(s), Writing(s), NEW n, Reaches(s, n),
           UNCHANGED <<fp, easies, saved, closed>>,
           \/ plan' = plan /\ at'[s] \in {"read", "dead"}
           \/ CommandOver(s)
    PROVE  Untouched(s)
<1>1. fp[s] # 0 /\ \A h \in Histories : disk.dir[h] # fp[s] BY DEF Apart
<1> DEFINE x == SubSeq(out[s], 1, n)
<1>2. disk' = Written(disk, fp[s], x) BY DEF Reaches
<1> HIDE DEF x
<1>3. Histories \in SUBSET Path BY DEF Histories, Path, Own
<1>4. /\ DiskOK(disk') /\ disk'.dir = disk.dir /\ Len(disk'.data) = Len(disk.data)
      /\ Keeps(disk, disk', Histories)
  BY <1>1, <1>2, <1>3, DiskWritten
<1>5. Len(disk.data) \in Nat BY DiskData DEF TypeInv
<1>6. fp'[s] \in 0..Len(disk'.data) BY <1>4 DEF TypeInv, Scalars
<1>7. closed' \in [Histories -> SUBSET Session] BY DEF TypeInv, Scalars
<1>8. AtBookmarks(s) /\ plan[s] # <<>> BY DEF Writing, AtBookmarks, TypeInv, Jobbed
<1>9. at'[s] \in {"read", "dead", "idle"} BY DEF CommandOver, Goes, TypeInv, Scalars
<1>10. at'[s] \in Step /\ ~AtTransfers(s)' /\ ~Writing(s)' BY <1>9 DEF Step, AtTransfers, Writing
<1>11. Len(disk.data) <= Len(disk'.data) BY <1>4, <1>5
<1>12. TypeInv' BY <1>4, <1>6, <1>7, <1>8, <1>10, <1>11, PlainStep
<1>13. Apart(s)' BY <1>4, <1>9, <1>10, ApartStep DEF Keeps
<1> QED BY <1>4, <1>12, <1>13 DEF Untouched

LEMMA BookmarkingApart ==
    ASSUME TypeInv, NEW s \in Session, Apart(s), Bookmarking(s)
    PROVE  Untouched(s) /\ closed' = closed
<1>0. Only(s) BY OnlyBookmarking DEF TypeInv
<1> USE DEF TypeInv, Scalars, Goes, Step, AtBookmarks, AtTransfers, Writing, ghosts
<1>1. CASE bookmark_add_to_section(s)
  <2>1. /\ UNCHANGED <<disk, fp, easies, saved, closed, plan>>
        /\ at'[s] = "resolve" /\ Asked(s, "bookmark")
    BY <1>1 DEF bookmark_add_to_section
  <2> QED BY <1>0, <2>1, StepInPlace
<1>2. CASE resolve_bookmarks_file(s)
  <2>1. /\ UNCHANGED <<disk, fp, easies, saved, closed, plan>>
        /\ at'[s] \in {"read", "create"} /\ at[s] = "resolve"
    BY <1>2 DEF resolve_bookmarks_file
  <2> QED BY <1>0, <2>1, StepInPlace
<1>3. CASE CreateBookmarks(s)
  <2>1. /\ Opens(s, "bookmarks", OpenToWrite(disk, "bookmarks"))
        /\ UNCHANGED <<plan, easies, saved, closed>> /\ at[s] = "create" /\ at'[s] = "fill"
    BY <1>3 DEF CreateBookmarks
  <2> QED BY <1>0, <2>1, OpenBookmarks
<1>4. CASE FillBookmarks(s)
  <2>1. /\ Reaches(s, Len(out[s])) /\ at[s] = "fill" /\ at'[s] = "read"
        /\ UNCHANGED <<plan, fp, easies, saved, closed>>
    BY <1>4 DEF FillBookmarks
  <2> QED BY <1>0, <2>1, WriteBookmarks
<1>5. CASE get_bookmarks_doc(s)
  <2>1. /\ UNCHANGED <<disk, fp, easies, saved, closed, plan>>
        /\ at'[s] = "save" /\ at[s] = "read"
    BY <1>5 DEF get_bookmarks_doc
  <2> QED BY <1>0, <2>1, StepInPlace
<1>6. CASE BookmarkFails(s)
  <2>1. /\ UNCHANGED <<disk, fp, easies, saved, closed>>
        /\ CommandOver(s) /\ at[s] \in {"resolve", "create", "read", "save"}
    BY <1>6 DEF BookmarkFails
  <2>2. at'[s] = "idle" BY <2>1 DEF CommandOver
  <2>3. plan[s] # <<>> BY <2>1 DEF Jobbed
  <2> QED BY <1>0, <2>1, <2>2, <2>3, StepInPlace
<1>7. CASE bookmarks_save_to_disc(s)
  <2>1. /\ Opens(s, "bookmarks", OpenToWrite(disk, "bookmarks"))
        /\ UNCHANGED <<plan, easies, saved, closed>> /\ at[s] = "save" /\ at'[s] = "write"
    BY <1>7 DEF bookmarks_save_to_disc
  <2> QED BY <1>0, <2>1, OpenBookmarks
<1>8. CASE BookmarkAdded(s)
  <2>1. /\ Reaches(s, Len(out[s])) /\ at[s] = "write" /\ CommandOver(s)
        /\ UNCHANGED <<fp, easies, saved, closed>>
    BY <1>8 DEF BookmarkAdded
  <2> QED BY <1>0, <2>1, WriteBookmarks
<1>9. CASE \E n \in 0..Len(out[s]) : BookmarkTorn(s, n)
  <2>1. PICK n : BookmarkTorn(s, n) BY <1>9
  <2>2. /\ Reaches(s, n) /\ at[s] \in {"fill", "write"}
        /\ CommandOver(s) \/ (plan' = plan /\ at'[s] = "dead")
        /\ UNCHANGED <<fp, easies, saved, closed>>
    BY <2>1 DEF BookmarkTorn
  <2> QED BY <1>0, <2>2, WriteBookmarks
<1>10. closed' = closed
  BY DEF Bookmarking, bookmark_add_to_section, resolve_bookmarks_file, CreateBookmarks, FillBookmarks,
         get_bookmarks_doc, BookmarkFails, bookmarks_save_to_disc, BookmarkAdded, BookmarkTorn
<1> QED BY <1>1, <1>2, <1>3, <1>4, <1>5, <1>6, <1>7, <1>8, <1>9, <1>10 DEF Bookmarking

-----------------------------------------------------------------------------
(* Files that are saved.                                                   *)

(* The job of saving, and what is left of it after a url.                  *)
LEMMA SavingJob ==
    ASSUME TypeInv, NEW s \in Session, at[s] = "open", Job(s).urls # <<>>
    PROVE  /\ Head(Job(s).urls) \in Url
           /\ Actual(s, Head(Job(s).urls)) \in Name
           /\ NextUrl(s) => /\ plan'[s] \in Seq(Jobs)
                            /\ plan'[s] # <<>> /\ Head(plan'[s]).kind = "save"
<1> DEFINE j == Job(s)
           k == [j EXCEPT !.urls = Tail(@)]
<1>1. plan[s] \in Seq(Jobs) /\ plan[s] # <<>> /\ j.kind = "save"
  BY DEF TypeInv, Scalars, Jobbed, AtTransfers
<1>2. j \in Jobs BY <1>1, HeadTailProperties DEF Job
<1>3. j \in [kind : {"save"}, to : Name \cup {"directory"}, urls : Seq(Url)]
  BY <1>1, <1>2 DEF Jobs
<1>4. Head(j.urls) \in Url /\ Tail(j.urls) \in Seq(Url)
  <2>1. j.urls \in Seq(Url) BY <1>3
  <2> QED BY <2>1, HeadTailProperties
<1>5. Actual(s, Head(Job(s).urls)) \in Name BY <1>3, <1>4 DEF Actual, Name
<1>6. ASSUME NextUrl(s)
      PROVE  plan'[s] \in Seq(Jobs) /\ plan'[s] # <<>> /\ Head(plan'[s]).kind = "save"
  <2>1. Len(plan[s]) \in Nat /\ Len(plan[s]) >= 1 BY <1>1, LenProperties, EmptySeq
  <2>2. plan'[s] = [plan[s] EXCEPT ![1] = k] BY <1>6, <2>1 DEF NextUrl, Job, TypeInv, Scalars
  <2>3. k \in Jobs /\ k.kind = "save" BY <1>3, <1>4 DEF Jobs
  <2>4. 1 \in 1..Len(plan[s]) BY <2>1
  <2> HIDE DEF k
  <2>5. /\ plan'[s] \in Seq(Jobs) /\ Len(plan'[s]) = Len(plan[s])
        /\ \A i \in 1..Len(plan[s]) : plan'[s][i] = IF i = 1 THEN k ELSE plan[s][i]
    BY <1>1, <2>2, <2>3, <2>4, ExceptSeq
  <2>6. plan'[s] # <<>> BY <2>1, <2>5, EmptySeq
  <2>7. Head(plan'[s]) = plan'[s][1] BY <2>5, <2>6
  <2> QED BY <2>3, <2>4, <2>5, <2>6, <2>7
<1> QED BY <1>4, <1>5, <1>6

LEMMA RequestApart ==
    ASSUME TypeInv, NEW s \in Session, Apart(s), request_to_handle(s)
    PROVE  Untouched(s)
<1> DEFINE u == Head(Job(s).urls)
           path == Actual(s, u)
           d == OpenToAppend(disk, path)
           new == Transfer(u, path, d.dir[path])
<1>1. /\ at[s] = "open" /\ Job(s).urls # <<>> /\ disk' = d
      /\ easies' = [easies EXCEPT ![s] = Append(easies[s], new)] /\ NextUrl(s)
      /\ UNCHANGED <<at, fp, out, saved, closed>>
  BY DEF request_to_handle
<1>2. u \in Url /\ path \in Name /\ plan'[s] \in Seq(Jobs) /\ plan'[s] # <<>> /\ Head(plan'[s]).kind = "save"
  BY <1>1, SavingJob
<1>3. path \in Path /\ path \notin Own BY <1>2, NamesAssumption DEF Path
<1>4. Keeps(disk, disk', Path) /\ disk'.dir[path] \in 1..Len(disk'.data)
  BY <1>1, <1>3, Making DEF TypeInv, OpenToAppend
<1>5. DiskOK(disk') /\ Len(disk.data) <= Len(disk'.data) /\ Len(disk.data) \in Nat /\ Len(disk'.data) \in Nat
  BY <1>4, DiskData DEF Keeps, Grows, TypeInv
<1>6. easies'[s] = Append(easies[s], new) BY <1>1 DEF TypeInv, Scalars
<1>7. TransferOK(new, disk') BY <1>1, <1>2, <1>4 DEF TransferOK, Transfer
<1>8. \A h \in Histories : new.fp # disk'.dir[h]
  <2>1. new.fp = disk'.dir[path] BY <1>1 DEF Transfer
  <2>2. disk'.dir[path] # 0 BY <1>4, <1>5
  <2>3. \A h \in Histories : h \in Path /\ h # path BY <1>3 DEF Histories, Path, Own
  <2> QED BY <1>3, <1>5, <2>1, <2>2, <2>3 DEF DiskOK
<1>9. IsList(easies[s]) /\ saved[s] <= Len(easies[s]) /\ saved[s] \in Nat
      /\ \A i \in DOMAIN easies[s] : TransferOK(easies[s][i], disk)
  BY DEF TypeInv, Scalars, Transfers
<1>10. Len(easies[s]) \in Nat /\ DOMAIN easies[s] = 1..Len(easies[s]) BY <1>9, LenProperties DEF IsList
<1> HIDE DEF new
<1>11. /\ IsList(easies'[s]) /\ Len(easies'[s]) = Len(easies[s]) + 1
       /\ \A i \in 1..Len(easies[s]) : easies'[s][i] = easies[s][i]
       /\ easies'[s][Len(easies[s]) + 1] = new
  BY <1>6, <1>9, ListLonger
<1>12. DOMAIN easies'[s] = 1..(Len(easies[s]) + 1) BY <1>11, LenProperties DEF IsList
<1>13. ASSUME NEW i \in DOMAIN easies'[s]
       PROVE  TransferOK(easies'[s][i], disk') /\ \A h \in Histories : easies'[s][i].fp # disk'.dir[h]
  <2>1. CASE i = Len(easies[s]) + 1 BY <1>7, <1>8, <1>11, <2>1
  <2>2. CASE i # Len(easies[s]) + 1
    <3>1. i \in 1..Len(easies[s]) BY <1>10, <1>12, <2>2
    <3>2. easies'[s][i] = easies[s][i] /\ TransferOK(easies[s][i], disk) BY <1>9, <1>10, <1>11, <3>1
    <3>3. TransferOK(easies'[s][i], disk') BY <1>5, <3>2 DEF TransferOK
    <3>4. easies[s][i].fp \in 1..Len(disk.data) BY <3>2 DEF TransferOK
    <3>5. \A h \in Histories : easies[s][i].fp # disk.dir[h] BY <1>10, <3>1 DEF Apart
    <3>6. Keeps(disk, disk', Histories) BY <1>4 DEF Keeps, Grows, Histories, Path, Own
    <3> QED BY <3>2, <3>3, <3>4, <3>5, <3>6, NoHistory DEF Keeps
  <2> QED BY <2>1, <2>2
<1>14. Transfers(s)'
  <2>1. saved'[s] <= Len(easies'[s]) BY <1>1, <1>9, <1>10, <1>11
  <2> QED BY <1>11, <1>13, <2>1 DEF Transfers
<1>15. Jobbed(s)' BY <1>1, <1>2 DEF Jobbed, AtBookmarks, AtTransfers, Job
<1>16. Only(s) BY OnlyDownloading DEF Downloading, TypeInv
<1>17. TypeInv'
  <2>1. /\ at'[s] \in Step /\ fp'[s] \in 0..Len(disk'.data) /\ saved'[s] \in Nat
        /\ closed' \in [Histories -> SUBSET Session]
    BY <1>1, <1>5 DEF TypeInv, Scalars
  <2> QED BY <1>2, <1>5, <1>14, <1>15, <1>16, <2>1, TypeStep
<1>18. Keeps(disk, disk', Histories) BY <1>4 DEF Keeps, Grows, Histories, Path, Own
<1>19. Apart(s)'
  <2>1. at'[s] = "open" BY <1>1
  <2> QED BY <1>13, <2>1 DEF Apart, Writing
<1> QED BY <1>17, <1>18, <1>19 DEF Untouched

(* A transfer is as good when there are more files.                        *)
LEMMA TransferLonger ==
    ASSUME NEW e, NEW d, NEW f, TransferOK(e, d), Len(d.data) \in Nat, Len(f.data) \in Nat,
           Len(d.data) <= Len(f.data)
    PROVE  TransferOK(e, f)
BY DEF TransferOK

(* A step of one transfer, which keeps its file.                           *)
LEMMA OneTransfer ==
    ASSUME TypeInv, NEW s \in Session, Apart(s), Only(s), at[s] = "perform",
           UNCHANGED <<plan, at, fp, saved, closed>>,
           Keeps(disk, disk', Histories),
           NEW i \in DOMAIN easies[s], NEW e, easies'[s] = [easies[s] EXCEPT ![i] = e],
           TransferOK(e, disk'), e.fp = easies[s][i].fp
    PROVE  Untouched(s)
<1>1. DiskOK(disk') /\ Len(disk.data) <= Len(disk'.data) /\ Len(disk.data) \in Nat /\ Len(disk'.data) \in Nat
  BY DiskData DEF Keeps, Grows, TypeInv
<1>2. /\ IsList(easies[s]) /\ saved[s] <= Len(easies[s])
      /\ \A k \in DOMAIN easies[s] : TransferOK(easies[s][k], disk)
  BY DEF TypeInv, Transfers
<1>3. IsList(easies'[s]) /\ Len(easies'[s]) = Len(easies[s]) BY <1>2, ListChanged
<1>4. ASSUME NEW k \in DOMAIN easies'[s]
      PROVE  TransferOK(easies'[s][k], disk') /\ \A h \in Histories : easies'[s][k].fp # disk'.dir[h]
  <2>1. k \in DOMAIN easies[s] OBVIOUS
  <2>2. easies'[s][k].fp = easies[s][k].fp BY <2>1
  <2>3. easies[s][k].fp \in 1..Len(disk.data) BY <1>2, <2>1 DEF TransferOK
  <2>4. \A h \in Histories : easies[s][k].fp # disk.dir[h] BY <2>1 DEF Apart
  <2>5. \A h \in Histories : easies'[s][k].fp # disk'.dir[h] BY <2>2, <2>3, <2>4, NoHistory DEF Keeps
  <2>6. CASE k = i BY <2>1, <2>5, <2>6
  <2>7. CASE k # i
    <3>1. easies'[s][k] = easies[s][k] BY <2>1, <2>7
    <3>2. TransferOK(easies[s][k], disk) BY <1>2, <2>1
    <3>3. TransferOK(easies[s][k], disk') BY <1>1, <3>2, TransferLonger
    <3> QED BY <2>5, <3>1, <3>3
  <2> QED BY <2>6, <2>7
<1>5. Transfers(s)' BY <1>2, <1>3, <1>4 DEF Transfers
<1>6. Jobbed(s)' BY DEF TypeInv, Jobbed, AtBookmarks, AtTransfers, Job
<1>7. TypeInv'
  <2>1. /\ at'[s] \in Step /\ fp'[s] \in 0..Len(disk'.data) /\ saved'[s] \in Nat
        /\ closed' \in [Histories -> SUBSET Session] /\ plan'[s] \in Seq(Jobs)
    BY <1>1 DEF TypeInv, Scalars
  <2> QED BY <1>1, <1>5, <1>6, <2>1, TypeStep
<1>8. Apart(s)'
  <2>1. at'[s] = "perform" OBVIOUS
  <2> QED BY <1>4, <2>1 DEF Apart, Writing
<1> QED BY <1>7, <1>8 DEF Untouched

LEMMA ArrivesApart ==
    ASSUME TypeInv, NEW s \in Session, Apart(s), NEW i \in DOMAIN easies[s], NEW full, Arrives(s, i, full)
    PROVE  Untouched(s)
<1> DEFINE e == easies[s][i]
           text == Append(e.buf, Parts(e.url)[e.got + 1])
           ino == e.fp
           x == disk.data[ino] \o text
           rest == IF full THEN <<>> ELSE text
           end == IF e.got + 1 = 2 THEN "done" ELSE e.state
           new == [e EXCEPT !.got = e.got + 1, !.buf = rest, !.state = end]
<1>1. /\ at[s] = "perform" /\ e.state = "running"
      /\ disk' = IF full THEN Appended(disk, ino, text) ELSE disk
      /\ easies' = [easies EXCEPT ![s] = [easies[s] EXCEPT ![i] = new]]
      /\ UNCHANGED <<plan, at, fp, saved, closed>>
  BY DEF Arrives, In, ghosts
<1>2. TransferOK(e, disk) BY DEF TypeInv, Transfers
<1>3. Only(s) BY OnlyDownloading DEF Downloading, TypeInv, Arrives, In
<1>4. Histories \in SUBSET Path /\ \A h \in Histories : disk.dir[h] # ino BY DEF Histories, Path, Own, Apart
<1>5. Keeps(disk, disk', Histories) /\ Len(disk'.data) = Len(disk.data)
  <2>1. CASE full
    <3>1. disk' = Rewritten(disk, ino, x) BY <1>1, <2>1 DEF Appended, Rewritten
    <3>2. DiskOK(disk) /\ ino \in 1..Len(disk.data) BY <1>2 DEF TypeInv, TransferOK
    <3> HIDE DEF x, ino
    <3> QED BY <1>4, <3>1, <3>2, Rewriting
  <2>2. CASE ~full
    <3>1. disk' = disk BY <1>1, <2>2
    <3>2. Len(disk.data) <= Len(disk.data) BY DiskData DEF TypeInv
    <3> QED BY <3>1, <3>2 DEF Keeps, Grows, TypeInv
  <2> QED BY <2>1, <2>2
<1>6. TransferOK(new, disk') /\ new.fp = ino
  <2> HIDE DEF rest
  <2>0. e = [url |-> e.url, path |-> e.path, fp |-> e.fp, got |-> e.got, buf |-> e.buf, state |-> e.state]
    BY <1>2 DEF TransferOK
  <2>1. new = [url |-> e.url, path |-> e.path, fp |-> e.fp, got |-> e.got + 1, buf |-> rest, state |-> end]
    <3> DEFINE g == e.got + 1
               e1 == [e EXCEPT !.got = g]
               e2 == [e1 EXCEPT !.buf = rest]
    <3> HIDE DEF e, end, g
    <3>1. e1 = [url |-> e.url, path |-> e.path, fp |-> e.fp, got |-> g, buf |-> e.buf, state |-> e.state]
      BY <2>0
    <3>2. e2 = [url |-> e.url, path |-> e.path, fp |-> e.fp, got |-> g, buf |-> rest, state |-> e.state]
      <4> HIDE DEF e1
      <4> QED BY <3>1
    <3>3. new = [e2 EXCEPT !.state = end] BY DEF g
    <3> HIDE DEF e2, new
    <3> QED BY <3>2, <3>3 DEF g
  <2>2. e.got \in 0..1 BY <1>1, <1>2 DEF TransferOK
  <2>3. end \in {"running", "done"} /\ (end = "running" => e.got = 0) BY <1>1, <2>2
  <2> HIDE DEF new, end, e
  <2>4. /\ new.path \in Name /\ new.fp \in 1..Len(disk'.data) /\ new.got \in 0..2
        /\ new.state \in {"running", "done", "failed"} /\ (new.state = "running" => new.got < 2)
    BY <1>2, <1>5, <2>1, <2>2, <2>3 DEF TransferOK
  <2>5. new = [url |-> new.url, path |-> new.path, fp |-> new.fp, got |-> new.got, buf |-> new.buf,
               state |-> new.state]
    BY <2>1
  <2>6. TransferOK(new, disk') BY <2>4, <2>5 DEF TransferOK
  <2> QED BY <2>1, <2>6
<1>7. easies'[s] = [easies[s] EXCEPT ![i] = new] BY <1>1 DEF TypeInv, Scalars
<1> HIDE DEF new
<1> QED BY <1>1, <1>3, <1>5, <1>6, <1>7, OneTransfer

LEMMA FailsApart ==
    ASSUME TypeInv, NEW s \in Session, Apart(s), NEW i \in DOMAIN easies[s], TransferFails(s, i)
    PROVE  Untouched(s)
<1> DEFINE e == easies[s][i]
           new == [e EXCEPT !.state = "failed"]
<1>1. /\ at[s] = "perform" /\ disk' = disk
      /\ easies' = [easies EXCEPT ![s] = [easies[s] EXCEPT ![i] = new]]
      /\ UNCHANGED <<plan, at, fp, saved, closed>>
  BY DEF TransferFails, ghosts
<1>2. TransferOK(e, disk) BY DEF TypeInv, Transfers
<1>3. Only(s) BY OnlyDownloading DEF Downloading, TypeInv
<1>4. Keeps(disk, disk', Histories)
  <2>1. Len(disk.data) <= Len(disk.data) BY DiskData DEF TypeInv
  <2> QED BY <1>1, <2>1 DEF Keeps, Grows, TypeInv
<1>5. TransferOK(new, disk') /\ new.fp = e.fp BY <1>1, <1>2 DEF TransferOK
<1>6. easies'[s] = [easies[s] EXCEPT ![i] = new] BY <1>1 DEF TypeInv, Scalars
<1> HIDE DEF new
<1> QED BY <1>1, <1>3, <1>4, <1>5, <1>6, OneTransfer

(* As many failed as there are at most.                                    *)
LEMMA FailedCount ==
    ASSUME TypeInv, NEW s \in Session
    PROVE  /\ Len(easies[s]) \in Nat /\ Cardinality(In(s, "failed")) \in Nat
           /\ Cardinality(In(s, "failed")) <= Len(easies[s])
<1>1. Len(easies[s]) \in Nat /\ DOMAIN easies[s] = 1..Len(easies[s])
  BY LenProperties DEF TypeInv, Transfers, IsList
<1>2. IsFiniteSet(1..Len(easies[s])) /\ Cardinality(1..Len(easies[s])) = Len(easies[s]) BY <1>1, FS_Interval
<1>3. In(s, "failed") \in SUBSET (1..Len(easies[s])) BY <1>1 DEF In
<1> QED BY <1>1, <1>2, <1>3, FS_Subset, FS_CardinalityType

LEMMA ReportApart ==
    ASSUME TypeInv, NEW s \in Session, Apart(s), Report(s)
    PROVE  Untouched(s)
<1> DEFINE paths == {easies[s][i].path : i \in In(s, "failed")}
<1>1. /\ at[s] = "report" /\ at'[s] = "close" /\ disk' = Removed(disk, paths)
      /\ saved'[s] = Len(easies[s]) - Cardinality(In(s, "failed"))
      /\ UNCHANGED <<plan, fp, easies, closed>>
  BY DEF Report, Goes, ghosts, TypeInv, Scalars
<1>2. paths \in SUBSET Name BY DEF TypeInv, Transfers, TransferOK, In
<1>3. Keeps(disk, disk', Path \ paths) BY <1>1, Removing DEF TypeInv
<1>4. Keeps(disk, disk', Histories)
  <2>1. \A h \in Histories : h \in Path \ paths BY <1>2, NamesAssumption DEF Histories, Path, Own
  <2> QED BY <1>3, <2>1 DEF Keeps, Grows
<1> HIDE DEF paths
<1>5. DiskOK(disk') /\ Len(disk.data) <= Len(disk'.data) /\ Len(disk.data) \in Nat /\ Len(disk'.data) \in Nat
  BY <1>3, DiskData DEF Keeps, Grows, TypeInv
<1>6. saved'[s] \in Nat /\ saved'[s] <= Len(easies'[s]) BY <1>1, FailedCount
<1>7. Transfers(s)'
  <2>1. IsList(easies[s]) /\ \A k \in DOMAIN easies[s] : TransferOK(easies[s][k], disk) BY DEF TypeInv, Transfers
  <2>2. \A k \in DOMAIN easies[s] : TransferOK(easies[s][k], disk') BY <1>5, <2>1, TransferLonger
  <2> QED BY <1>1, <1>6, <2>1, <2>2 DEF Transfers
<1>8. Jobbed(s)' BY <1>1 DEF TypeInv, Jobbed, AtBookmarks, AtTransfers, Job
<1>9. Only(s) BY OnlyDownloading DEF Downloading, TypeInv
<1>10. TypeInv'
  <2>1. at'[s] \in Step BY <1>1 DEF Step
  <2>2. fp'[s] \in 0..Len(disk'.data) BY <1>1, <1>5 DEF TypeInv, Scalars
  <2>3. closed' \in [Histories -> SUBSET Session] /\ plan'[s] \in Seq(Jobs) BY <1>1 DEF TypeInv, Scalars
  <2> QED BY <1>5, <1>6, <1>7, <1>8, <1>9, <2>1, <2>2, <2>3, TypeStep
<1>11. Apart(s)'
  <2>1. ~Writing(s)' /\ at'[s] \notin {"enter inputs", "header", "enter fetches"} BY <1>1 DEF Writing
  <2> QED BY <1>1, <1>4, <2>1, ApartStep DEF Keeps
<1> QED BY <1>4, <1>10, <1>11 DEF Untouched

LEMMA CloseApart ==
    ASSUME TypeInv, NEW s \in Session, Apart(s), NEW W, CloseFiles(s, W)
    PROVE  Untouched(s)
<1>1. /\ at[s] = "close" /\ disk' = Flushed(disk, easies[s], W) /\ CommandOver(s)
      /\ UNCHANGED <<fp, easies, saved, closed>>
  BY DEF CloseFiles, ghosts
<1>2. IsList(easies[s]) /\ \A k \in DOMAIN easies[s] : easies[s][k].fp \in 1..Len(disk.data)
  BY DEF TypeInv, Transfers, TransferOK
<1>3. /\ DiskOK(disk') /\ Len(disk'.data) = Len(disk.data)
      /\ \A names \in SUBSET Path :
            (\A p \in names, k \in DOMAIN easies[s] : disk.dir[p] # easies[s][k].fp) => Keeps(disk, disk', names)
  BY <1>1, <1>2, Flushing DEF TypeInv
<1>4. Keeps(disk, disk', Histories)
  <2>1. Histories \in SUBSET Path BY DEF Histories, Path, Own
  <2>2. \A h \in Histories, k \in DOMAIN easies[s] : disk.dir[h] # easies[s][k].fp BY DEF Apart
  <2> QED BY <1>3, <2>1, <2>2
<1>5. Len(disk.data) \in Nat /\ Len(disk.data) <= Len(disk'.data) BY <1>3, DiskData DEF TypeInv
<1>6. Only(s)
  <2>1. UNCHANGED <<out, covered>> BY DEF CloseFiles, ghosts
  <2> QED BY <1>1, <2>1 DEF Only, CommandOver, Goes, TypeInv, Scalars
<1>7. plan[s] # <<>> BY <1>1 DEF TypeInv, Jobbed, AtTransfers
<1>8. at'[s] = "idle" BY <1>1 DEF CommandOver, Goes, TypeInv, Scalars
<1>9. /\ at'[s] \in Step /\ fp'[s] \in 0..Len(disk'.data) /\ closed' \in [Histories -> SUBSET Session]
  BY <1>1, <1>3, <1>8 DEF TypeInv, Scalars, Step
<1>10. TypeInv' BY <1>1, <1>3, <1>5, <1>6, <1>7, <1>9, PlainStep
<1>11. Apart(s)'
  <2>1. ~Writing(s)' /\ at'[s] \notin {"enter inputs", "header", "enter fetches"} BY <1>8 DEF Writing
  <2> QED BY <1>1, <1>4, <2>1, ApartStep DEF Keeps
<1> QED BY <1>4, <1>10, <1>11 DEF Untouched

LEMMA DownloadingApart ==
    ASSUME TypeInv, NEW s \in Session, Apart(s), Downloading(s)
    PROVE  Untouched(s) /\ closed' = closed
<1>0. Only(s) BY OnlyDownloading DEF TypeInv
<1>9. closed' = closed
  BY DEF Downloading, cmd_anchor_save_range, request_to_handle, OpenFails, AllAdded, Arrives, TransferFails,
         PerformEnds, Report, CloseFiles, ghosts
<1> SUFFICES Untouched(s)
  BY <1>9
<1>1. CASE cmd_anchor_save_range(s)
  <2>1. /\ Asked(s, "save") /\ at'[s] = "open" /\ easies'[s] = <<>> /\ saved'[s] = 0
        /\ UNCHANGED <<plan, disk, fp, closed>>
    BY <1>1 DEF cmd_anchor_save_range, Goes, ghosts, TypeInv, Scalars
  <2>2. /\ DiskOK(disk') /\ Len(disk.data) <= Len(disk'.data) /\ fp'[s] \in 0..Len(disk'.data)
        /\ Keeps(disk, disk', Path)
    BY <2>1, DiskStays
  <2>3. IsList(easies'[s]) /\ Len(easies'[s]) = 0 /\ DOMAIN easies'[s] = {}
    <3>1. <<>> \in Seq({}) /\ Len(<<>>) = 0 BY EmptySeq
    <3>2. IsList(<<>>) BY <3>1, ListOf
    <3>3. DOMAIN <<>> = {} OBVIOUS
    <3> QED BY <2>1, <3>1, <3>2, <3>3
  <2>4. Transfers(s)' BY <2>1, <2>3 DEF Transfers
  <2>5. Jobbed(s)' BY <2>1 DEF Asked, Jobbed, AtBookmarks, AtTransfers, Job
  <2>6. TypeInv'
    <3>1. at'[s] \in Step BY <2>1 DEF Step
    <3>2. saved'[s] \in Nat BY <2>1
    <3>3. plan'[s] \in Seq(Jobs) /\ closed' \in [Histories -> SUBSET Session] BY <2>1 DEF TypeInv, Scalars
    <3> QED BY <1>0, <2>2, <2>4, <2>5, <3>1, <3>2, <3>3, TypeStep
  <2>7. Keeps(disk, disk', Histories) BY <2>2 DEF Keeps, Grows, Histories, Path, Own
  <2>8. Apart(s)' BY <2>1, <2>3 DEF Apart, Writing
  <2> QED BY <2>6, <2>7, <2>8 DEF Untouched
<1>2. CASE request_to_handle(s) BY <1>2, RequestApart
<1>3. CASE OpenFails(s)
  <2>1. /\ at[s] = "open" /\ Job(s).urls # <<>> /\ NextUrl(s)
        /\ UNCHANGED <<at, disk, fp, easies, saved, closed>>
    BY <1>3 DEF OpenFails, ghosts
  <2>2. plan'[s] \in Seq(Jobs) /\ plan'[s] # <<>> /\ Head(plan'[s]).kind = "save" BY <2>1, SavingJob
  <2>3. /\ DiskOK(disk') /\ Len(disk.data) <= Len(disk'.data) /\ fp'[s] \in 0..Len(disk'.data)
        /\ Keeps(disk, disk', Path)
    BY <2>1, DiskStays
  <2>4. Transfers(s)' BY <2>1, <2>3, TransfersStay
  <2>5. Jobbed(s)' BY <2>1, <2>2 DEF Jobbed, AtBookmarks, AtTransfers, Job
  <2>6. TypeInv'
    <3>1. at'[s] \in Step /\ saved'[s] \in Nat /\ closed' \in [Histories -> SUBSET Session]
      BY <2>1 DEF TypeInv, Scalars
    <3> QED BY <1>0, <2>2, <2>3, <2>4, <2>5, <3>1, TypeStep
  <2>7. Keeps(disk, disk', Histories) BY <2>3 DEF Keeps, Grows, Histories, Path, Own
  <2>8. Apart(s)' BY <2>1, <2>7, ApartOther DEF Keeps
  <2> QED BY <2>6, <2>7, <2>8 DEF Untouched
<1>4. CASE AllAdded(s) \/ \E canceled \in BOOLEAN : PerformEnds(s, canceled)
  <2>1. /\ at[s] \in {"open", "perform"} /\ at'[s] \in {"perform", "report"}
        /\ UNCHANGED <<plan, disk, fp, easies, saved, closed>>
    BY <1>4 DEF AllAdded, PerformEnds, Goes, ghosts, TypeInv, Scalars
  <2>2. /\ at'[s] \in Step /\ ~Writing(s)' /\ at'[s] \notin {"enter inputs", "header", "enter fetches"}
        /\ ~AtBookmarks(s)' /\ AtTransfers(s)
    BY <2>1 DEF Step, Writing, AtBookmarks, AtTransfers
  <2> QED BY <1>0, <2>1, <2>2, StepInPlace
<1>5. CASE \E i \in DOMAIN easies[s], full \in BOOLEAN : Arrives(s, i, full) BY <1>5, ArrivesApart
<1>6. CASE \E i \in DOMAIN easies[s] : TransferFails(s, i) BY <1>6, FailsApart
<1>7. CASE Report(s) BY <1>7, ReportApart
<1>8. CASE \E W \in SUBSET DOMAIN easies[s] : CloseFiles(s, W) BY <1>8, CloseApart
<1> QED BY <1>1, <1>2, <1>3, <1>4, <1>5, <1>6, <1>7, <1>8 DEF Downloading

-----------------------------------------------------------------------------
(* Histories.                                                              *)

(* A step that enters nothing: what is in the histories, and what others   *)
(* have still to enter, is as it was.                                      *)
LEMMA InputsQuiet ==
    ASSUME TypeInv, InputsInv, NEW s \in Session, Only(s),
           File(disk', "inputs") = File(disk, "inputs"), closed'["inputs"] = closed["inputs"],
           at'[s] # "enter inputs",
           ~Past(s)' => ~Past(s) /\ at[s] # "enter inputs",
           Past(s) => Past(s)'
    PROVE  InputsInv'
<1> DEFINE I == File(disk, "inputs")
<1>1. File(disk', "inputs") = I OBVIOUS
<1>2. \A t \in Session : t # s => at'[t] = at[t] /\ out'[t] = out[t] BY DEF Only, TypeInv, Scalars
<1>3. closed["inputs"] \in SUBSET Session BY DEF TypeInv, Scalars, Histories
<1>4. \A t \in Session : t # s => (Past(t)' <=> Past(t)) /\ Left(t)' = Left(t) /\ (Remains(t)' <=> Remains(t))
  BY <1>2 DEF Past, Left, Remains
<1> HIDE DEF I
<1>5. I \in Seq(Entry) BY DEF InputsInv, I
<1>6. ASSUME NEW t \in Session, ~Past(t)', at'[t] # "enter inputs" PROVE Of(t, I) = {}
  BY <1>2, <1>4, <1>6 DEF InputsInv, I
<1>7. ASSUME NEW t \in Session, at'[t] = "enter inputs" PROVE Remains(t)' /\ Has(t, I, 1, Left(t)')
  BY <1>2, <1>4, <1>7 DEF InputsInv, I
<1>8. ASSUME NEW t \in closed["inputs"] PROVE Past(t)' /\ Has(t, I, 1, Pieces)
  BY <1>3, <1>4, <1>8 DEF InputsInv, I
<1> QED BY <1>1, <1>5, <1>6, <1>7, <1>8 DEF InputsInv

LEMMA FetchesLogged ==
    ASSUME TypeInv, FetchesInv, NEW s \in Session, Only(s),
           File(disk', "fetches") = File(disk, "fetches"), closed'["fetches"] = closed["fetches"],
           covered' = covered,
           at[s] # "over", at'[s] # "enter fetches",
           at[s] \in {"enter fetches", "dead"} => at'[s] \in {"over", "dead"}
    PROVE  FetchesInv'
<1>2. \A t \in Session : t # s => at'[t] = at[t] /\ out'[t] = out[t] BY DEF Only, TypeInv, Scalars
<1>3. closed["fetches"] \in SUBSET Session BY DEF TypeInv, Scalars, Histories
<1>4. \A t \in Session : t # s => Left(t)' = Left(t) /\ (Remains(t)' <=> Remains(t)) /\ (Entering(t)' <=> Entering(t))
  BY <1>2 DEF Left, Remains, Entering
<1>5. s \notin closed["fetches"] BY DEF FetchesInv
<1>6. ~Entering(s)' BY <1>5 DEF Entering
<1>7. PICK log \in Seq(Entry) : Under(File(disk, "fetches"), covered, log) /\ Logged(log) BY DEF FetchesInv
<1>8. Under(File(disk', "fetches"), covered', log) BY <1>7 DEF Under
<1>9. Logged(log)'
  <2>1. ASSUME NEW t \in Session, at'[t] \notin {"enter fetches", "over", "dead"} PROVE Of(t, log) = {}
    BY <1>2, <1>7, <2>1 DEF Logged
  <2>2. ASSUME NEW t \in Session, Entering(t)' PROVE Has(t, log, 1, Left(t)')
    BY <1>4, <1>6, <1>7, <2>2 DEF Logged
  <2> QED BY <2>1, <2>2 DEF Logged
<1>10. ASSUME NEW t \in Session, at'[t] = "enter fetches" PROVE Remains(t)'
  BY <1>2, <1>4, <1>10 DEF FetchesInv
<1>11. ASSUME NEW t \in closed["fetches"] PROVE at'[t] = "over" /\ out'[t] = <<>>
  BY <1>2, <1>3, <1>5, <1>11 DEF FetchesInv
<1> QED BY <1>7, <1>8, <1>9, <1>10, <1>11 DEF FetchesInv

LEMMA FetchesQuiet ==
    ASSUME TypeInv, FetchesInv, HeaderInv, NEW s \in Session, Only(s),
           File(disk', "fetches") = File(disk, "fetches"), closed'["fetches"] = closed["fetches"],
           covered' = covered,
           at[s] # "over", at'[s] \notin {"enter fetches", "header"},
           at[s] \in {"enter fetches", "dead"} => at'[s] \in {"over", "dead"}
    PROVE  FetchesInv' /\ HeaderInv'
<1>1. FetchesInv' BY FetchesLogged
<1>2. \A t \in Session : t # s => at'[t] = at[t] BY DEF Only, TypeInv, Scalars
<1>3. \A t \in Session : at'[t] = "header" => at[t] = "header" BY <1>2
<1>5. HeaderInv' BY <1>3 DEF HeaderInv
<1> QED BY <1>1, <1>5

LEMMA QuietStep ==
    ASSUME TypeInv, HistoryInv, NEW s \in Session, Only(s), Keeps(disk, disk', Histories), closed' = closed,
           covered' = covered,
           at[s] \notin {"over", "dead"},
           at'[s] \notin {"enter inputs", "enter fetches", "header"},
           ~Past(s)' => ~Past(s) /\ at[s] # "enter inputs",
           Past(s) => Past(s)',
           at[s] = "enter fetches" => at'[s] \in {"over", "dead"}
    PROVE  HistoryInv'
<1>1. File(disk', "inputs") = File(disk, "inputs") /\ File(disk', "fetches") = File(disk, "fetches")
  BY DEF Keeps, Histories
<1> QED BY <1>1, InputsQuiet, FetchesQuiet DEF HistoryInv

(* What is done before a session ends.                                     *)
Early(step) == step \notin {"inputs", "enter inputs", "fetches", "header", "append", "enter fetches", "over", "dead"}

LEMMA EarlySteps ==
    ASSUME Scalars, NEW s \in Session, Bookmarking(s) \/ Downloading(s)
    PROVE  Early(at[s]) /\ (Early(at'[s]) \/ at'[s] = "dead")
<1> USE DEF Scalars, Early, Goes, Asked, CommandOver, ghosts
<1>1. CASE bookmark_add_to_section(s) BY <1>1 DEF bookmark_add_to_section
<1>2. CASE resolve_bookmarks_file(s) BY <1>2 DEF resolve_bookmarks_file
<1>3. CASE CreateBookmarks(s) BY <1>3 DEF CreateBookmarks
<1>4. CASE FillBookmarks(s) BY <1>4 DEF FillBookmarks
<1>5. CASE get_bookmarks_doc(s) BY <1>5 DEF get_bookmarks_doc
<1>6. CASE BookmarkFails(s) BY <1>6 DEF BookmarkFails
<1>7. CASE bookmarks_save_to_disc(s) BY <1>7 DEF bookmarks_save_to_disc
<1>8. CASE BookmarkAdded(s) BY <1>8 DEF BookmarkAdded
<1>9. CASE \E n \in 0..Len(out[s]) : BookmarkTorn(s, n) BY <1>9 DEF BookmarkTorn
<1>10. CASE cmd_anchor_save_range(s) BY <1>10 DEF cmd_anchor_save_range
<1>11. CASE request_to_handle(s) BY <1>11 DEF request_to_handle
<1>12. CASE OpenFails(s) BY <1>12 DEF OpenFails
<1>13. CASE AllAdded(s) BY <1>13 DEF AllAdded
<1>14. CASE \E i \in DOMAIN easies[s], full \in BOOLEAN : Arrives(s, i, full) BY <1>14 DEF Arrives
<1>15. CASE \E i \in DOMAIN easies[s] : TransferFails(s, i) BY <1>15 DEF TransferFails
<1>16. CASE \E canceled \in BOOLEAN : PerformEnds(s, canceled) BY <1>16 DEF PerformEnds
<1>17. CASE Report(s) BY <1>17 DEF Report
<1>18. CASE \E W \in SUBSET DOMAIN easies[s] : CloseFiles(s, W) BY <1>18 DEF CloseFiles
<1>19. CASE Bookmarking(s)
  BY <1>1, <1>2, <1>3, <1>4, <1>5, <1>6, <1>7, <1>8, <1>9, <1>19 DEF Bookmarking
<1>20. CASE Downloading(s)
  BY <1>10, <1>11, <1>12, <1>13, <1>14, <1>15, <1>16, <1>17, <1>18, <1>20 DEF Downloading
<1> QED BY <1>19, <1>20

LEMMA EarlyInv ==
    ASSUME IInv, NEW s \in Session, Bookmarking(s) \/ Downloading(s)
    PROVE  TypeInv' /\ Apart(s)' /\ Keeps(disk, disk', Histories) /\ HistoryInv'
<1>1. Untouched(s) /\ closed' = closed BY BookmarkingApart, DownloadingApart DEF IInv
<1>2. Only(s) BY OnlyBookmarking, OnlyDownloading DEF IInv, TypeInv
<1>3. Early(at[s]) /\ (Early(at'[s]) \/ at'[s] = "dead") BY EarlySteps DEF IInv, TypeInv
<1>4. /\ at[s] \notin {"over", "dead"} /\ at'[s] \notin {"enter inputs", "enter fetches", "header"}
      /\ ~Past(s) /\ at[s] # "enter inputs" /\ at[s] # "enter fetches" /\ at[s] # "header"
  BY <1>3 DEF Early, Past
<1>5. HistoryInv' BY <1>1, <1>2, <1>4, QuietStep DEF IInv, Untouched, Only
<1> QED BY <1>1, <1>5 DEF Untouched

-----------------------------------------------------------------------------
(* Entering.                                                               *)

(* Entries tell whose they are.                                            *)
LEMMA EntriesTell ==
    /\ \A x \in Entry : x[1] = "entry" /\ x[2] \in Session /\ x[3] \in 1..Pieces
    /\ \A s \in Session, k \in 1..Pieces : <<"entry", s, k>> \in Entry
BY DEF Entry

(* The entries of a session in a file that is the same where they are.     *)
LEMMA HasSame ==
    ASSUME NEW s, NEW F, NEW G, Of(s, G) = Of(s, F), \A i \in Of(s, F) : G[i] = F[i], NEW a, NEW b
    PROVE  Has(s, G, a, b) <=> Has(s, F, a, b)
<1>1. {G[i][3] : i \in Of(s, G)} = {F[i][3] : i \in Of(s, F)} OBVIOUS
<1>2. (\A i, j \in Of(s, G) : i < j => G[i][3] < G[j][3]) <=> (\A i, j \in Of(s, F) : i < j => F[i][3] < F[j][3])
  OBVIOUS
<1> QED BY <1>1, <1>2 DEF Has

(* The next n pieces of a session, ...                                     *)
NextEntries(t, m, E, n) ==
    /\ m \in 0..Pieces /\ n \in 0..Pieces /\ m + n <= Pieces
    /\ E \in Seq(Entry) /\ Len(E) = n
    /\ \A j \in 1..n : E[j] = <<"entry", t, m + j>>

(* ... and what was entered with them at its end.                          *)
Entered(F, G, t, m, n) ==
    /\ G \in Seq(Entry)
    /\ \A s \in Session : s # t =>
          Of(s, G) = Of(s, F) /\ \A a, b : Has(s, G, a, b) <=> Has(s, F, a, b)
    /\ Has(t, F, 1, m) => Has(t, G, 1, m + n)

LEMMA AppendingEntries ==
    ASSUME NEW F \in Seq(Entry), NEW t \in Session, NEW m, NEW n, NEW E, NextEntries(t, m, E, n),
           NEW G, G = F \o E
    PROVE  Entered(F, G, t, m, n)
<1>0. /\ m \in 0..Pieces /\ n \in 0..Pieces /\ m + n <= Pieces /\ Pieces \in Nat
      /\ E \in Seq(Entry) /\ Len(E) = n
      /\ \A j \in 1..n : E[j] = <<"entry", t, m + j>>
  BY PiecesAssumption DEF NextEntries
<1>2. Len(F) \in Nat /\ DOMAIN F = 1..Len(F) BY LenProperties
<1>3. /\ G \in Seq(Entry) /\ Len(G) = Len(F) + n
      /\ \A i \in 1..(Len(F) + n) : G[i] = IF i <= Len(F) THEN F[i] ELSE E[i - Len(F)]
  BY <1>0, ConcatProperties
<1>4. DOMAIN G = 1..(Len(F) + n) BY <1>0, <1>2, <1>3, LenProperties
<1>5. ASSUME NEW i \in DOMAIN G, i > Len(F)
      PROVE  /\ i - Len(F) \in 1..n /\ G[i] = <<"entry", t, m + (i - Len(F))>>
             /\ G[i][1] = "entry" /\ G[i][2] = t /\ G[i][3] = m + (i - Len(F))
  <2>1. i - Len(F) \in 1..n BY <1>0, <1>2, <1>4, <1>5
  <2>2. i \in 1..(Len(F) + n) /\ ~(i <= Len(F)) BY <1>2, <1>4, <1>5
  <2>3. G[i] = E[i - Len(F)] BY <1>3, <2>2
  <2>4. G[i] = <<"entry", t, m + (i - Len(F))>> BY <1>0, <2>1, <2>3
  <2> QED BY <1>0, <2>1, <2>4
<1>6. \A i \in DOMAIN F : i \in DOMAIN G /\ G[i] = F[i] BY <1>0, <1>2, <1>3, <1>4
<1>6a. \A i \in DOMAIN G : i > Len(F) \/ i \in DOMAIN F BY <1>0, <1>2, <1>4
<1>9. ASSUME NEW s \in Session, s # t
      PROVE  Of(s, G) = Of(s, F) /\ \A a, b : Has(s, G, a, b) <=> Has(s, F, a, b)
  <2>1. Of(s, G) = Of(s, F)
    <3>1. \A i \in DOMAIN G : i \in DOMAIN F \/ (i > Len(F) /\ G[i][2] = t) BY <1>5, <1>6a
    <3> QED BY <1>6, <1>9, <3>1 DEF Of
  <2>2. \A i \in Of(s, F) : G[i] = F[i] BY <1>6 DEF Of
  <2> QED BY <2>1, <2>2, HasSame
<1>10. ASSUME Has(t, F, 1, m) PROVE Has(t, G, 1, m + n)
  <2> DEFINE a == 1
  <2>0. a \in Int /\ m \in Int /\ n \in Int /\ a <= m + 1 /\ 0 <= n /\ Len(F) \in Int BY <1>0, <1>2
  <2>1. Of(t, G) = Of(t, F) \cup {i \in DOMAIN G : i > Len(F)}
    <3>1. \A i \in DOMAIN G : i \in DOMAIN F \/ i > Len(F) BY <1>2, <1>4
    <3>2. \A i \in DOMAIN G : i > Len(F) => i \notin DOMAIN F /\ i \in Of(t, G) BY <1>2, <1>5 DEF Of
    <3>3. \A i \in DOMAIN F : i \in Of(t, G) <=> i \in Of(t, F) BY <1>6 DEF Of
    <3>4. Of(t, G) \subseteq DOMAIN G /\ Of(t, F) \subseteq DOMAIN F BY DEF Of
    <3> QED BY <1>6, <3>1, <3>2, <3>3, <3>4
  <2>2. \A i \in Of(t, F) : i \in 1..Len(F) /\ G[i] = F[i] /\ F[i][3] \in a..m
    <3>1. \A i \in Of(t, F) : F[i][3] \in {F[k][3] : k \in Of(t, F)} OBVIOUS
    <3> QED BY <1>2, <1>6, <1>10, <3>1 DEF Has, Of
  <2>3. {G[i][3] : i \in Of(t, G)} = a..(m + n)
    <3>1. ASSUME NEW i \in Of(t, G) PROVE G[i][3] \in a..(m + n)
      <4>1. CASE i \in Of(t, F)
        <5>1. F[i][3] \in a..m /\ G[i][3] = F[i][3] BY <2>2, <4>1
        <5> QED BY <2>0, <5>1
      <4>2. CASE i \in DOMAIN G /\ i > Len(F)
        <5>1. i - Len(F) \in 1..n /\ G[i][3] = m + (i - Len(F)) BY <1>5, <4>2
        <5> DEFINE k == i - Len(F)
        <5>2. k \in 1..n /\ G[i][3] = m + k BY <5>1
        <5> HIDE DEF k
        <5> QED BY <2>0, <5>2
      <4> QED BY <2>1, <4>1, <4>2
    <3>2. ASSUME NEW k \in a..(m + n) PROVE \E i \in Of(t, G) : G[i][3] = k
      <4>1. CASE k <= m
        <5>0. k \in a..m BY <2>0, <4>1
        <5>1. k \in {F[i][3] : i \in Of(t, F)} BY <1>10, <5>0 DEF Has
        <5>2. PICK i \in Of(t, F) : F[i][3] = k BY <5>1
        <5> QED BY <2>1, <2>2, <5>2
      <4>2. CASE k > m
        <5> DEFINE i == Len(F) + (k - m)
        <5>1. i \in DOMAIN G /\ i > Len(F) /\ m + (i - Len(F)) = k BY <1>2, <1>4, <2>0, <4>2
        <5>2. G[i][3] = k BY <1>5, <5>1
        <5>3. i \in Of(t, G) BY <2>1, <5>1
        <5> HIDE DEF i
        <5> QED BY <5>2, <5>3
      <4>3. k <= m \/ k > m BY <2>0
      <4> QED BY <4>1, <4>2, <4>3
    <3>3. {G[i][3] : i \in Of(t, G)} \subseteq a..(m + n) BY <3>1
    <3>4. a..(m + n) \subseteq {G[i][3] : i \in Of(t, G)} BY <3>2
    <3> QED BY <3>3, <3>4
  <2>4. ASSUME NEW i \in Of(t, G), NEW j \in Of(t, G), i < j PROVE G[i][3] < G[j][3]
    <3>1. CASE i \in Of(t, F) /\ j \in Of(t, F) BY <1>10, <2>2, <2>4, <3>1 DEF Has
    <3>2. CASE i \in Of(t, F) /\ j \notin Of(t, F)
      <4>1. j \in DOMAIN G /\ j > Len(F) BY <2>1, <3>2
      <4>2. G[j][3] = m + (j - Len(F)) /\ j - Len(F) \in 1..n BY <1>5, <4>1
      <4>3. G[i][3] \in a..m BY <2>2, <3>2
      <4> DEFINE k == j - Len(F)
      <4>4. k \in 1..n /\ G[j][3] = m + k BY <4>2
      <4> DEFINE g == G[i][3]
      <4>5. g \in a..m BY <4>3
      <4> HIDE DEF k, g
      <4>6. g < m + k BY <2>0, <4>4, <4>5
      <4> QED BY <4>4, <4>6 DEF g
    <3>3. CASE i \notin Of(t, F)
      <4>1. i \in DOMAIN G /\ i > Len(F) BY <2>1, <3>3
      <4>2. j \in DOMAIN G /\ j > Len(F)
        <5>1. j \in Of(t, F) => j <= Len(F) BY <1>2, <2>2
        <5>2. j \in DOMAIN G BY DEF Of
        <5> QED BY <1>2, <1>4, <2>4, <4>1, <5>2
      <4>3. G[i][3] = m + (i - Len(F)) /\ G[j][3] = m + (j - Len(F)) BY <1>5, <4>1, <4>2
      <4>4. i \in Int /\ j \in Int BY <1>4, <4>1, <4>2
      <4>5. m + (i - Len(F)) < m + (j - Len(F)) BY <2>0, <2>4, <4>4
      <4> QED BY <4>3, <4>5
    <3> QED BY <3>1, <3>2, <3>3
  <2> QED BY <2>3, <2>4 DEF Has
<1> QED BY <1>3, <1>9, <1>10 DEF Entered

(* A header, and what has one.                                             *)
LEMMA HeaderItems ==
    ASSUME NEW S, \A i \in 1..HeaderLen : <<"header", 0, i>> \in S
    PROVE  Header \in Seq(S) /\ Len(Header) = HeaderLen /\ Header # <<>>
           /\ \A i \in 1..HeaderLen : Header[i] = <<"header", 0, i>>
BY PiecesAssumption DEF Header

Item == Entry \cup {<<"header", 0, i>> : i \in 1..HeaderLen}

LEMMA Headers ==
    /\ Header \in Seq(Item) /\ Len(Header) = HeaderLen /\ HeaderLen \in Nat \ {0}
    /\ \A i \in 1..HeaderLen : Header[i] = <<"header", 0, i>> /\ Header[i][1] = "header"
    /\ \A q \in Seq(Entry) : q \in Seq(Item) /\ \A i \in DOMAIN q : q[i][1] = "entry"
<1>1. Entry \subseteq Item /\ \A i \in 1..HeaderLen : <<"header", 0, i>> \in Item BY DEF Item
<1>2. ASSUME NEW q \in Seq(Entry) PROVE q \in Seq(Item) /\ \A i \in DOMAIN q : q[i][1] = "entry"
  <2>1. DOMAIN q = 1..Len(q) BY LenProperties
  <2>2. \A i \in DOMAIN q : q[i] \in Entry BY <2>1, ElementOfSeq
  <2> QED BY <1>1, <2>2, SeqMonotonic, EntriesTell
<1> QED BY <1>1, <1>2, HeaderItems, PiecesAssumption

(* A history that starts with the header: its pieces are in their places.  *)
LEMMA HeaderFirst ==
    ASSUME NEW rest \in Seq(Entry), NEW F, F = Header \o rest
    PROVE  /\ F \in Seq(Item) /\ Len(F) = HeaderLen + Len(rest) /\ Len(rest) \in Nat
           /\ DOMAIN F = 1..(HeaderLen + Len(rest)) /\ F # <<>> /\ Headed(F)
           /\ \A i \in DOMAIN F : i <= HeaderLen => F[i] = <<"header", 0, i>>
           /\ \A i \in DOMAIN F : i > HeaderLen => F[i][1] = "entry"
           /\ SubSeq(F, HeaderLen + 1, Len(F)) = rest
           /\ IsPrefix(Header, F)
<1>1. Len(rest) \in Nat /\ DOMAIN rest = 1..Len(rest) BY LenProperties
<1>2. rest \in Seq(Item) /\ \A i \in 1..Len(rest) : rest[i][1] = "entry" BY <1>1, Headers
<1>3. /\ F \in Seq(Item) /\ Len(F) = HeaderLen + Len(rest)
      /\ \A i \in 1..(HeaderLen + Len(rest)) : F[i] = IF i <= HeaderLen THEN Header[i] ELSE rest[i - HeaderLen]
  <2>1. Header \in Seq(Item) /\ rest \in Seq(Item) /\ Len(Header) = HeaderLen BY <1>2, Headers
  <2> QED BY <2>1, ConcatProperties
<1>4. DOMAIN F = 1..(HeaderLen + Len(rest)) BY <1>3, LenProperties
<1>5. HeaderLen \in Nat \ {0} BY Headers
<1>6. ASSUME NEW i \in DOMAIN F, i <= HeaderLen PROVE F[i] = <<"header", 0, i>>
  <2>1. i \in 1..HeaderLen BY <1>1, <1>4, <1>5, <1>6
  <2> QED BY <1>3, <1>4, <1>6, <2>1, Headers
<1>7. ASSUME NEW i \in DOMAIN F, i > HeaderLen PROVE F[i][1] = "entry"
  <2>1. i - HeaderLen \in 1..Len(rest) /\ ~(i <= HeaderLen) BY <1>1, <1>4, <1>5, <1>7
  <2>2. F[i] = rest[i - HeaderLen] BY <1>3, <1>4, <2>1
  <2> QED BY <1>2, <2>1, <2>2
<1>8. F # <<>> /\ Headed(F)
  <2>1. 1 \in DOMAIN F /\ 1 <= HeaderLen BY <1>1, <1>4, <1>5
  <2>2. F[1][1] = "header" BY <1>6, <2>1
  <2>3. F # <<>>
    <3>1. DOMAIN <<>> = {} OBVIOUS
    <3> QED BY <2>1, <3>1
  <2> QED BY <2>2, <2>3 DEF Headed
<1>9. SubSeq(F, HeaderLen + 1, Len(F)) = rest
  <2>1. CASE Len(rest) = 0
    <3>1. rest = <<>> BY <2>1, EmptySeq
    <3>2. Len(F) < HeaderLen + 1 BY <1>3, <1>5, <2>1
    <3> QED BY <1>3, <1>5, <2>1, <3>1, <3>2, SubSeqEmpty
  <2>2. CASE Len(rest) # 0
    <3>1. HeaderLen + 1 \in HeaderLen + 1..HeaderLen + Len(rest) /\ Len(F) \in HeaderLen + 1..HeaderLen + Len(rest)
      BY <1>1, <1>3, <1>5, <2>2
    <3>2. SubSeq(Header \o rest, HeaderLen + 1, Len(F)) = SubSeq(rest, (HeaderLen + 1) - HeaderLen, Len(F) - HeaderLen)
      BY <1>2, <3>1, Headers, SubSeqOfConcat2
    <3>3. (HeaderLen + 1) - HeaderLen = 1 /\ Len(F) - HeaderLen = Len(rest) BY <1>1, <1>3, <1>5
    <3> QED BY <3>2, <3>3, SubSeqFull
  <2> QED BY <2>1, <2>2
<1>10. IsPrefix(Header, F)
  <2>1. Len(Header) = HeaderLen /\ Len(Header) <= Len(F) BY <1>1, <1>3, <1>5, Headers
  <2>2. 1 \in 1..Len(Header) /\ Len(Header) \in 1..Len(Header) BY <1>5, <2>1
  <2>3. SubSeq(Header \o rest, 1, Len(Header)) = SubSeq(Header, 1, Len(Header))
    BY <1>2, <2>2, Headers, SubSeqOfConcat1
  <2> QED BY <2>1, <2>3 DEF IsPrefix
<1> QED BY <1>1, <1>3, <1>4, <1>6, <1>7, <1>8, <1>9, <1>10

(* A history without a header is what was entered, ...                     *)
LEMMA NoHeader ==
    ASSUME NEW F \in Seq(Entry), NEW over, NEW log, Under(F, over, log)
    PROVE  over = <<>> /\ log = F /\ ~Headed(F)
<1>1. ~Headed(F)
  <2>1. F # <<>> => 1 \in DOMAIN F
    <3>1. DOMAIN F = 1..Len(F) /\ (F # <<>> => Len(F) \in Nat \ {0}) BY LenProperties, EmptySeq
    <3> QED BY <3>1
  <2> QED BY <2>1, Headers DEF Headed
<1>2. \A rest \in Seq(Entry) : F # Header \o rest BY <1>1, HeaderFirst
<1> QED BY <1>1, <1>2 DEF Under

(* ... and one to which is added has its log added to.                     *)
LEMMA LogLonger ==
    ASSUME NEW F, NEW over \in Seq(Entry), NEW log \in Seq(Entry), Under(F, over, log), NEW E \in Seq(Entry)
    PROVE  Under(F \o E, over, log \o E)
<1>1. CASE over = <<>> /\ F = log BY <1>1 DEF Under
<1>2. CASE \E rest \in Seq(Entry) : F = Header \o rest /\ log = over \o rest
  <2>1. PICK rest \in Seq(Entry) : F = Header \o rest /\ log = over \o rest BY <1>2
  <2>2. rest \o E \in Seq(Entry) BY ConcatProperties
  <2>3. F \o E = Header \o (rest \o E)
    <3>1. Header \in Seq(Item) /\ rest \in Seq(Item) /\ E \in Seq(Item) BY Headers
    <3> QED BY <2>1, <3>1, ConcatAssociative
  <2>4. log \o E = over \o (rest \o E) BY <2>1, ConcatAssociative
  <2> QED BY <2>2, <2>3, <2>4 DEF Under
<1> QED BY <1>1, <1>2 DEF Under

(* The header is written: what was entered is under it and after it.       *)
LEMMA WritingHeader ==
    ASSUME NEW F \in Seq(Entry), NEW G, G = Header \o SubSeq(F, Len(Header) + 1, Len(F)),
           NEW over, over = Beginning(F)
    PROVE  over \in Seq(Entry) /\ Len(over) <= HeaderLen /\ Under(G, over, F)
<1> DEFINE h == HeaderLen
           l == Len(F)
           k == IF h <= l THEN h ELSE l
           rest == SubSeq(F, h + 1, l)
<1>1. h \in Nat \ {0} /\ l \in Nat /\ Len(Header) = h BY LenProperties, Headers
<1>2. k \in 0..l /\ k <= h BY <1>1
<1>3. over = SubSeq(F, 1, k) BY DEF Beginning
<1>4. G = Header \o rest BY <1>1
<1>5. \A i \in 1..l : F[i] \in Entry BY ElementOfSeq
<1>6. over \in Seq(Entry) /\ Len(over) = k
  <2>1. \A i \in 1..k : F[i] \in Entry BY <1>1, <1>2, <1>5
  <2>2. 1 \in Int /\ k \in Int BY <1>1
  <2>3. SubSeq(F, 1, k) \in Seq(Entry) /\ Len(SubSeq(F, 1, k)) = (IF 1 <= k THEN k - 1 + 1 ELSE 0)
    BY <2>1, <2>2, SubSeqProperties
  <2> HIDE DEF k
  <2> QED BY <1>2, <1>3, <2>3
<1>7. rest \in Seq(Entry)
  <2>1. \A i \in (h + 1)..l : F[i] \in Entry BY <1>1, <1>5
  <2>2. h + 1 \in Int /\ l \in Int BY <1>1
  <2> QED BY <2>1, <2>2, SubSeqProperties
<1>8. F = over \o rest
  <2>1. rest = SubSeq(F, k + 1, l)
    <3>1. CASE h <= l BY <3>1
    <3>2. CASE ~(h <= l)
      <4>1. k = l /\ l < h + 1 /\ l < k + 1 /\ h + 1 \in Int /\ k + 1 \in Int BY <1>1, <3>2
      <4>2. \A i \in Int : l < i => SubSeq(F, i, l) = <<>> BY <1>1, SubSeqEmpty
      <4>3. rest = <<>> /\ SubSeq(F, k + 1, l) = <<>> BY <4>1, <4>2
      <4> QED BY <4>3
    <3> QED BY <3>1, <3>2
  <2> HIDE DEF k, rest
  <2>2. 1 \in 1..l + 1 /\ k \in 1 - 1..l /\ l \in k..l BY <1>1, <1>2
  <2>3. SubSeq(F, 1, k) \o SubSeq(F, k + 1, l) = SubSeq(F, 1, l) BY <2>2, ConcatAdjacentSubSeq
  <2> QED BY <1>3, <2>1, <2>3, SubSeqFull
<1> HIDE DEF k, rest
<1> QED BY <1>2, <1>4, <1>6, <1>7, <1>8 DEF Under

(* What is entered is what the history has, but for the header.            *)
LEMMA LogIs ==
    ASSUME NEW F, NEW log \in Seq(Entry), covered \in Seq(Entry), Len(covered) <= HeaderLen, Under(F, covered, log)
    PROVE  /\ Log(F) = log
           /\ \A i \in DOMAIN F : F[i][1] = "header" => F[i] = <<"header", 0, i>>
           /\ Headed(F) => IsPrefix(Header, F)
           /\ Len(covered) <= IF Headed(F) THEN HeaderLen ELSE 0
<1>1. CASE covered = <<>> /\ F = log
  <2>1. ~Headed(F) BY <1>1, NoHeader
  <2>2. SubSeq(F, 1, Len(F)) = F /\ <<>> \o F = F BY <1>1, SubSeqFull, ConcatEmptySeq
  <2>3. Log(F) = log BY <1>1, <2>1, <2>2 DEF Log
  <2>4. \A i \in DOMAIN F : F[i][1] = "entry" BY <1>1, Headers
  <2>5. Len(covered) = 0 BY <1>1, EmptySeq
  <2> QED BY <2>1, <2>3, <2>4, <2>5
<1>2. CASE \E rest \in Seq(Entry) : F = Header \o rest /\ log = covered \o rest
  <2>1. PICK rest \in Seq(Entry) : F = Header \o rest /\ log = covered \o rest BY <1>2
  <2>2. /\ DOMAIN F = 1..(HeaderLen + Len(rest)) /\ Headed(F) /\ Len(rest) \in Nat
        /\ \A i \in DOMAIN F : i <= HeaderLen => F[i] = <<"header", 0, i>>
        /\ \A i \in DOMAIN F : i > HeaderLen => F[i][1] = "entry"
        /\ SubSeq(F, HeaderLen + 1, Len(F)) = rest
        /\ IsPrefix(Header, F)
    BY <2>1, HeaderFirst
  <2>3. Log(F) = log BY <2>1, <2>2 DEF Log
  <2>4. \A i \in DOMAIN F : i <= HeaderLen \/ i > HeaderLen BY <2>2, Headers
  <2> QED BY <2>2, <2>3, <2>4
<1> QED BY <1>1, <1>2 DEF Under

-----------------------------------------------------------------------------
(* The end of a session.                                                   *)

(* What a session has to enter at first, and after some of it was written. *)
LEMMA FirstItems ==
    ASSUME TypeInv, NEW s \in Session, out'[s] = Items(s)
    PROVE  Remains(s)' /\ Left(s)' = 0
<1>1. Pieces \in Nat BY PiecesAssumption
<1>2. \A i \in 1..Pieces : <<"entry", s, i>> \in Entry BY EntriesTell
<1>3. Items(s) \in Seq(Entry) /\ Len(Items(s)) = Pieces BY <1>1, <1>2 DEF Items
<1>4. \A j \in 1..Pieces : Items(s)[j] = <<"entry", s, 0 + j>> BY <1>1 DEF Items
<1>5. Left(s)' = 0 BY <1>1, <1>3 DEF Left
<1>7. Len(out'[s]) \in 0..Pieces BY <1>1, <1>3
<1> QED BY <1>3, <1>4, <1>5, <1>7 DEF Remains

LEMMA NextItems ==
    ASSUME TypeInv, NEW s \in Session, Remains(s), NEW n \in 1..Len(out[s]),
           out'[s] = SubSeq(out[s], n + 1, Len(out[s]))
    PROVE  /\ NextEntries(s, Left(s), SubSeq(out[s], 1, n), n)
           /\ Remains(s)' /\ Left(s)' = Left(s) + n
<1> DEFINE q == out[s]
           l == Len(q)
           m == Left(s)
           r == SubSeq(q, n + 1, l)
<1>1. q \in Seq(Entry) /\ Pieces \in Nat /\ l \in 0..Pieces /\ m = Pieces - l /\ \A j \in 1..l : q[j] = <<"entry", s, m + j>>
  BY PiecesAssumption DEF Remains, Left
<1>2. n \in 1..l OBVIOUS
<1> HIDE DEF m, l, q
<1>3. \A j \in 1..l : q[j] \in Entry BY <1>1, ElementOfSeq DEF l
<1>4. n \in Int /\ l \in Int /\ 1 <= n /\ n <= l /\ n + 1 \in Int BY <1>1, <1>2
<1>5. /\ SubSeq(q, 1, n) \in Seq(Entry) /\ Len(SubSeq(q, 1, n)) = n
      /\ \A j \in 1..n : SubSeq(q, 1, n)[j] = q[j]
  <2>1. \A j \in 1..n : q[j] \in Entry BY <1>3, <1>4
  <2>2. /\ SubSeq(q, 1, n) \in Seq(Entry)
        /\ Len(SubSeq(q, 1, n)) = (IF 1 <= n THEN n - 1 + 1 ELSE 0)
        /\ \A j \in 1..(n - 1 + 1) : SubSeq(q, 1, n)[j] = q[1 + j - 1]
    BY <1>4, <2>1, SubSeqProperties
  <2> QED BY <1>4, <2>2
<1>6. \A j \in 1..n : SubSeq(q, 1, n)[j] = <<"entry", s, m + j>> BY <1>1, <1>4, <1>5
<1>7. /\ r \in Seq(Entry) /\ Len(r) = l - n
      /\ \A j \in 1..(l - n) : r[j] = q[n + j]
  <2>1. \A j \in (n + 1)..l : q[j] \in Entry BY <1>3, <1>4
  <2>2. /\ r \in Seq(Entry)
        /\ Len(r) = (IF n + 1 <= l THEN l - (n + 1) + 1 ELSE 0)
        /\ \A j \in 1..(l - (n + 1) + 1) : r[j] = q[(n + 1) + j - 1]
    BY <1>4, <2>1, SubSeqProperties
  <2> QED BY <1>4, <2>2
<1>8. out'[s] = r BY DEF q, l, r
<1> HIDE DEF r
<1>9. Left(s)' = m + n
  <2>1. Left(s)' = Pieces - Len(r) BY <1>8 DEF Left
  <2> QED BY <1>1, <1>4, <1>7, <2>1
<1>10. \A j \in 1..(l - n) : r[j] = <<"entry", s, (m + n) + j>>
  <2>1. \A j \in 1..(l - n) : n + j \in 1..l /\ m + (n + j) = (m + n) + j BY <1>1, <1>4
  <2> QED BY <1>1, <1>7, <2>1
<1>11. Remains(s)'
  <2>1. out'[s] \in Seq(Entry) /\ Len(out'[s]) = l - n /\ l - n \in 0..Pieces
    <3>1. l - n \in 0..Pieces BY <1>1, <1>4
    <3> QED BY <1>7, <1>8, <3>1
  <2>2. \A j \in 1..Len(out'[s]) : out'[s][j] = <<"entry", s, Left(s)' + j>> BY <1>8, <1>9, <1>10, <2>1
  <2>3. Entry' = Entry BY DEF Entry
  <2> QED BY <2>1, <2>2 DEF Remains
<1>12. m \in 0..Pieces /\ n \in 0..Pieces /\ m + n <= Pieces BY <1>1, <1>4
<1>13. NextEntries(s, m, SubSeq(q, 1, n), n) BY <1>5, <1>6, <1>12 DEF NextEntries
<1> QED BY <1>9, <1>11, <1>13 DEF q, m

LEMMA NoEntries ==
    ASSUME NEW s, NEW F, Of(s, F) = {}
    PROVE  Has(s, F, 1, 0)
BY DEF Has

(* Where histories are named.                                              *)
LEMMA HistoryPaths ==
    /\ "inputs" \in Histories /\ "fetches" \in Histories /\ Histories \in SUBSET Path
    /\ "inputs" \in Path /\ "fetches" \in Path
BY DEF Histories, Path, Own

Closes(s) == TypeInv' /\ Apart(s)' /\ Grows(disk, disk', Histories) /\ HistoryInv'

(* A step that opens or writes no file, and enters nothing.                *)
LEMMA ClosingInPlace ==
    ASSUME IInv, NEW s \in Session, Only(s), UNCHANGED <<plan, disk, fp, easies, saved, covered, closed>>,
           at[s] \notin {"over", "dead"}, at'[s] \in {"inputs", "fetches", "append", "over", "dead"},
           ~Past(s)' => ~Past(s) /\ at[s] # "enter inputs",
           at[s] = "enter fetches" => at'[s] \in {"over", "dead"},
           Past(s) => at'[s] # "inputs"
    PROVE  Closes(s)
<1>1. /\ at'[s] \in Step /\ ~Writing(s)' /\ at'[s] \notin {"enter inputs", "header", "enter fetches"}
      /\ ~AtBookmarks(s)' /\ ~AtTransfers(s)'
  BY DEF Step, Writing, AtBookmarks, AtTransfers
<1>2. Untouched(s) BY <1>1, StepInPlace DEF IInv
<1>3. Past(s) => Past(s)' BY DEF Past
<1>4. HistoryInv' BY <1>1, <1>2, <1>3, QuietStep DEF IInv, Untouched
<1> QED BY <1>2, <1>4 DEF Untouched, Keeps, Closes

(* Numbers of files.                                                       *)
LEMMA FileNumbers ==
    /\ \A l \in Nat : \A f \in 1..l : f # 0 /\ f \in 0..l
    /\ \A k \in Nat : k <= k
OBVIOUS

(* A history is opened.                                                    *)
LEMMA HistoryOpened ==
    ASSUME IInv, NEW s \in Session, Only(s), NEW path \in Histories, NEW d,
           d = OpenToAppend(disk, path) \/ (d = OpenToWrite(disk, path) /\ ~Exists(disk, path)),
           Opens(s, path, d), UNCHANGED <<plan, easies, saved, closed>>,
           at'[s] = "enter inputs" => path = "inputs",
           at'[s] \in {"header", "enter fetches"} => path = "fetches",
           at'[s] \in {"enter inputs", "header", "enter fetches"}
    PROVE  TypeInv' /\ Apart(s)' /\ Keeps(disk, disk', Histories)
<1>1. path \in Path BY HistoryPaths
<1>2. /\ DiskOK(disk') /\ Len(disk.data) <= Len(disk'.data)
      /\ fp'[s] \in 1..Len(disk'.data) /\ fp'[s] = disk'.dir[path]
      /\ Keeps(disk, disk', Path \ {path})
      /\ d = OpenToAppend(disk, path) => Keeps(disk, disk', Path)
      /\ d = OpenToWrite(disk, path) => File(disk', path) = <<>>
      /\ disk'.dir[path] = disk.dir[path] \/ (disk.dir[path] = 0 /\ disk'.dir[path] > Len(disk.data))
  BY <1>1, DiskOpened DEF IInv
<1>3. File(disk', path) = File(disk, path)
  <2>1. ~Exists(disk, path) => File(disk, path) = <<>> BY DEF File
  <2> QED BY <1>1, <1>2, <2>1 DEF Keeps
<1>4. Keeps(disk, disk', Histories)
  <2>1. \A h \in Histories : h \in Path /\ (h = path \/ h \in Path \ {path}) BY HistoryPaths
  <2>2. \A h \in Histories : File(disk', h) = File(disk, h) BY <1>2, <1>3, <2>1 DEF Keeps
  <2>3. \A h \in Histories : disk'.dir[h] = disk.dir[h] \/ (disk.dir[h] = 0 /\ disk'.dir[h] > Len(disk.data))
    BY <1>2, <2>1 DEF Keeps, Grows
  <2> QED BY <1>2, <2>2, <2>3 DEF Keeps, Grows
<1>5. Len(disk'.data) \in Nat BY <1>2, DiskData
<1>6. fp'[s] # 0 /\ fp'[s] \in 0..Len(disk'.data)
  <2> DEFINE l == Len(disk'.data)
             f == fp'[s]
  <2>1. f \in 1..l /\ l \in Nat BY <1>2, <1>5
  <2> HIDE DEF l, f
  <2>2. f # 0 /\ f \in 0..l BY <2>1, FileNumbers, Zenon
  <2> QED BY <2>2 DEF l, f
<1>7. at'[s] \in Step /\ ~Writing(s)' /\ ~AtBookmarks(s)' /\ ~AtTransfers(s)'
  BY DEF Step, Writing, AtBookmarks, AtTransfers
<1>8. closed' \in [Histories -> SUBSET Session] BY DEF IInv, TypeInv, Scalars
<1>9. TypeInv' BY <1>2, <1>6, <1>7, <1>8, PlainStep DEF IInv
<1>10. Apart(s)' BY <1>2, <1>4, <1>6, <1>7, ApartStep DEF IInv, Keeps
<1> QED BY <1>4, <1>9, <1>10

(* A history is written.                                                   *)
LEMMA HistoryWritten ==
    ASSUME IInv, NEW s \in Session, Only(s), NEW path \in Histories, fp[s] = disk.dir[path], fp[s] # 0, NEW x,
           disk' = Appended(disk, fp[s], x) \/ disk' = Written(disk, fp[s], x),
           UNCHANGED <<plan, fp, easies, saved, closed>>,
           at'[s] \in {"append", "enter inputs", "enter fetches"},
           at'[s] = "enter inputs" => path = "inputs",
           at'[s] = "enter fetches" => path = "fetches"
    PROVE  /\ TypeInv' /\ Apart(s)' /\ Grows(disk, disk', Histories)
           /\ \A h \in Histories : h # path => File(disk', h) = File(disk, h)
           /\ disk' = Appended(disk, fp[s], x) => File(disk', path) = File(disk, path) \o x
           /\ disk' = Written(disk, fp[s], x) =>
                 File(disk', path) = x \o SubSeq(File(disk, path), Len(x) + 1, Len(File(disk, path)))
<1>1. /\ DiskOK(disk') /\ disk'.dir = disk.dir /\ Len(disk'.data) = Len(disk.data)
      /\ disk' = Appended(disk, fp[s], x) => disk'.data[fp[s]] = disk.data[fp[s]] \o x
      /\ disk' = Written(disk, fp[s], x) =>
            disk'.data[fp[s]] = x \o SubSeq(disk.data[fp[s]], Len(x) + 1, Len(disk.data[fp[s]]))
      /\ \A names \in SUBSET Path : (\A p \in names : disk.dir[p] # fp[s]) => Keeps(disk, disk', names)
  BY DiskWritten DEF IInv
<1>2. Len(disk.data) <= Len(disk'.data)
  <2> DEFINE k == Len(disk.data)
             l == Len(disk'.data)
  <2>1. k \in Nat BY DiskData DEF IInv, TypeInv
  <2>2. l = k BY <1>1
  <2> HIDE DEF k, l
  <2>3. k <= l BY <2>1, <2>2, FileNumbers, Zenon
  <2> QED BY <2>3 DEF k, l
<1>3. Grows(disk, disk', Histories)
  <2>1. DiskOK(disk') /\ disk'.dir = disk.dir BY <1>1
  <2> QED BY <1>2, <2>1 DEF Grows
<1>4. ASSUME NEW h \in Histories, h # path PROVE File(disk', h) = File(disk, h)
  <2>1. h \in Path /\ path \in Path BY HistoryPaths
  <2>2. disk.dir[h] # fp[s] BY <1>4, <2>1 DEF IInv, TypeInv, DiskOK
  <2>3. {h} \in SUBSET Path /\ \A p \in {h} : disk.dir[p] # fp[s] BY <2>1, <2>2
  <2>4. Keeps(disk, disk', {h}) BY <1>1, <2>3
  <2> QED BY <2>4 DEF Keeps
<1>5. File(disk, path) = disk.data[fp[s]] /\ File(disk', path) = disk'.data[fp[s]]
  BY <1>1 DEF File, Exists
<1>6. at'[s] \in Step /\ ~Writing(s)' /\ ~AtBookmarks(s)' /\ ~AtTransfers(s)' /\ at'[s] # "header"
  BY DEF Step, Writing, AtBookmarks, AtTransfers
<1>7. closed' \in [Histories -> SUBSET Session] /\ fp'[s] \in 0..Len(disk'.data)
  BY <1>1 DEF IInv, TypeInv, Scalars
<1>9. TypeInv' BY <1>1, <1>2, <1>6, <1>7, PlainStep DEF IInv
<1>10. Apart(s)' BY <1>1, <1>3, <1>6, ApartStep DEF IInv
<1> QED BY <1>1, <1>3, <1>4, <1>5, <1>9, <1>10

(* What was typed.                                                         *)
LEMMA InputsOpened ==
    ASSUME IInv, NEW s \in Session, session_write_input_history(s)
    PROVE  Closes(s)
<1>1. Only(s) BY OnlyClosing DEF Closing, IInv, TypeInv
<1>2. /\ at[s] = "inputs" /\ UNCHANGED <<plan, easies, saved, covered, closed>>
      /\ \/ /\ Opens(s, "inputs", OpenToAppend(disk, "inputs")) /\ out'[s] = Items(s)
            /\ at'[s] = "enter inputs"
         \/ at'[s] = "fetches" /\ UNCHANGED <<disk, fp>>
  BY DEF session_write_input_history, OpenHistory, Goes, ghosts, IInv, TypeInv, Scalars
<1>3. CASE at'[s] = "fetches" /\ UNCHANGED <<disk, fp>>
  BY <1>1, <1>2, <1>3, ClosingInPlace DEF Past
<1>4. CASE /\ Opens(s, "inputs", OpenToAppend(disk, "inputs")) /\ out'[s] = Items(s)
           /\ at'[s] = "enter inputs"
  <2>1. TypeInv' /\ Apart(s)' /\ Keeps(disk, disk', Histories)
    BY <1>1, <1>2, <1>4, HistoryPaths, HistoryOpened
  <2> DEFINE I == File(disk, "inputs")
  <2>2. File(disk', "inputs") = I /\ File(disk', "fetches") = File(disk, "fetches")
    BY <2>1 DEF Keeps, Histories
  <2>3. FetchesInv' /\ HeaderInv' BY <1>1, <1>2, <1>4, <2>2, FetchesQuiet DEF IInv, HistoryInv
  <2>4. \A t \in Session : t # s => at'[t] = at[t] /\ out'[t] = out[t]
    BY <1>1 DEF Only, IInv, TypeInv, Scalars
  <2>5. Remains(s)' /\ Left(s)' = 0 BY <1>4, FirstItems DEF IInv
  <2>6. Of(s, I) = {} BY <1>2 DEF IInv, HistoryInv, InputsInv, Past
  <2>7. closed["inputs"] \in SUBSET Session BY DEF IInv, TypeInv, Scalars, Histories
  <2>8. I \in Seq(Entry) BY DEF IInv, HistoryInv, InputsInv
  <2> HIDE DEF I
  <2>9. ASSUME NEW t \in Session, ~Past(t)', at'[t] # "enter inputs" PROVE Of(t, I) = {}
    BY <1>4, <2>4, <2>9 DEF IInv, HistoryInv, InputsInv, Past, I
  <2>10. ASSUME NEW t \in Session, at'[t] = "enter inputs" PROVE Remains(t)' /\ Has(t, I, 1, Left(t)')
    <3>1. CASE t = s BY <2>5, <2>6, <3>1, NoEntries
    <3>2. CASE t # s
      <4>1. Remains(t) /\ Has(t, I, 1, Left(t)) BY <2>4, <2>10, <3>2 DEF IInv, HistoryInv, InputsInv, I
      <4> QED BY <2>4, <3>2, <4>1 DEF Remains, Left
    <3> QED BY <3>1, <3>2
  <2>11. ASSUME NEW t \in closed["inputs"] PROVE Past(t)' /\ Has(t, I, 1, Pieces)
    <3>1. Past(t) /\ Has(t, I, 1, Pieces) BY <2>11 DEF IInv, HistoryInv, InputsInv, I
    <3>2. t \in Session /\ t # s BY <1>2, <2>7, <3>1 DEF Past
    <3> QED BY <2>4, <3>1, <3>2 DEF Past
  <2>12. InputsInv' BY <1>2, <2>2, <2>8, <2>9, <2>10, <2>11 DEF InputsInv
  <2> QED BY <2>1, <2>3, <2>12 DEF Closes, HistoryInv, Keeps
<1> QED BY <1>2, <1>3, <1>4

LEMMA InputsEntered ==
    ASSUME IInv, NEW s \in Session, EnterInputs(s)
    PROVE  Closes(s)
<1>1. Only(s) BY OnlyClosing DEF Closing, IInv, TypeInv
<1>2. at[s] = "enter inputs" /\ UNCHANGED <<plan, fp, easies, saved, covered>> BY DEF EnterInputs, Enter
<1> DEFINE I == File(disk, "inputs")
<1>3. fp[s] # 0 /\ fp[s] = disk.dir["inputs"] BY <1>2 DEF IInv, Apart
<1>4. Remains(s) /\ Has(s, I, 1, Left(s)) BY <1>2 DEF IInv, HistoryInv, InputsInv
<1>5. I \in Seq(Entry) BY DEF IInv, HistoryInv, InputsInv
<1>6. \A t \in Session : t # s => at'[t] = at[t] /\ out'[t] = out[t]
  BY <1>1 DEF Only, IInv, TypeInv, Scalars
<1>7. closed["inputs"] \in SUBSET Session /\ closed["fetches"] \in SUBSET Session
  BY DEF IInv, TypeInv, Scalars, Histories
<1>8. CASE \E n \in 1..Len(out[s]) :
              /\ disk' = Appended(disk, fp[s], SubSeq(out[s], 1, n))
              /\ out' = [out EXCEPT ![s] = SubSeq(@, n + 1, Len(@))]
              /\ UNCHANGED <<at, closed>>
  <2>1. PICK n \in 1..Len(out[s]) :
              /\ disk' = Appended(disk, fp[s], SubSeq(out[s], 1, n))
              /\ out' = [out EXCEPT ![s] = SubSeq(@, n + 1, Len(@))]
              /\ UNCHANGED <<at, closed>>
    BY <1>8
  <2> DEFINE E == SubSeq(out[s], 1, n)
             m == Left(s)
             G == File(disk', "inputs")
  <2>2. out'[s] = SubSeq(out[s], n + 1, Len(out[s])) BY <2>1 DEF IInv, TypeInv, Scalars
  <2>3. NextEntries(s, m, E, n) /\ Remains(s)' /\ Left(s)' = m + n
    BY <1>4, <2>2, NextItems DEF IInv
  <2>4. at'[s] = "enter inputs" /\ closed' = closed BY <1>2, <2>1
  <2>5. disk' = Appended(disk, fp[s], E) BY <2>1
  <2> HIDE DEF E, m
  <2>6. /\ TypeInv' /\ Apart(s)' /\ Grows(disk, disk', Histories)
        /\ File(disk', "fetches") = File(disk, "fetches") /\ G = I \o E
    BY <1>1, <1>2, <1>3, <2>4, <2>5, HistoryPaths, HistoryWritten
  <2> HIDE DEF G, I
  <2>8. Entered(I, G, s, m, n) BY <1>5, <2>3, <2>6, AppendingEntries
  <2>9. FetchesInv' /\ HeaderInv' BY <1>1, <1>2, <2>4, <2>6, FetchesQuiet DEF IInv, HistoryInv
  <2>10. ASSUME NEW t \in Session, ~Past(t)', at'[t] # "enter inputs" PROVE Of(t, G) = {}
    <3>1. t # s BY <2>4, <2>10
    <3>2. Of(t, I) = {} BY <1>6, <2>10, <3>1 DEF IInv, HistoryInv, InputsInv, Past, I
    <3> QED BY <2>8, <3>1, <3>2 DEF Entered
  <2>11. ASSUME NEW t \in Session, at'[t] = "enter inputs" PROVE Remains(t)' /\ Has(t, G, 1, Left(t)')
    <3>1. CASE t = s
      <4>2. Has(s, I, 1, m) BY <1>4 DEF m
      <4> QED BY <2>3, <2>8, <3>1, <4>2 DEF Entered
    <3>2. CASE t # s
      <4>1. Remains(t) /\ Has(t, I, 1, Left(t)) BY <1>6, <2>11, <3>2 DEF IInv, HistoryInv, InputsInv, I
      <4> QED BY <1>6, <2>8, <3>2, <4>1 DEF Remains, Left, Entered
    <3> QED BY <3>1, <3>2
  <2>12. ASSUME NEW t \in closed["inputs"] PROVE Past(t)' /\ Has(t, G, 1, Pieces)
    <3>1. Past(t) /\ Has(t, I, 1, Pieces) BY <2>12 DEF IInv, HistoryInv, InputsInv, I
    <3>2. t \in Session /\ t # s BY <1>2, <1>7, <3>1 DEF Past
    <3> QED BY <1>6, <2>8, <3>1, <3>2 DEF Past, Entered
  <2>13. InputsInv' BY <1>5, <2>4, <2>8, <2>10, <2>11, <2>12 DEF InputsInv, Entered, G
  <2> QED BY <2>6, <2>9, <2>13 DEF Closes, HistoryInv
<1>9. CASE /\ Goes(s, "fetches")
           /\ closed' = IF out[s] = <<>> THEN [closed EXCEPT !["inputs"] = @ \cup {s}] ELSE closed
           /\ UNCHANGED <<disk, out>>
  <2>1. at'[s] = "fetches" /\ UNCHANGED <<plan, disk, fp, easies, saved, out>>
    BY <1>2, <1>9 DEF Goes, IInv, TypeInv, Scalars
  <2>2. /\ closed' \in [Histories -> SUBSET Session] /\ closed'["fetches"] = closed["fetches"]
        /\ closed'["inputs"] = IF out[s] = <<>> THEN closed["inputs"] \cup {s} ELSE closed["inputs"]
    BY <1>9 DEF IInv, TypeInv, Scalars, Histories
  <2>3. /\ DiskOK(disk') /\ Len(disk.data) <= Len(disk'.data) /\ fp'[s] \in 0..Len(disk'.data)
        /\ Keeps(disk, disk', Path)
    BY <2>1, DiskStays DEF IInv
  <2>4. at'[s] \in Step /\ ~Writing(s)' /\ ~AtBookmarks(s)' /\ ~AtTransfers(s)'
        /\ at'[s] \notin {"enter inputs", "header", "enter fetches"}
    BY <2>1 DEF Step, Writing, AtBookmarks, AtTransfers
  <2>5. TypeInv' BY <1>1, <2>1, <2>2, <2>3, <2>4, PlainStep DEF IInv
  <2>6. Grows(disk, disk', Histories) BY <2>3, HistoryPaths DEF Keeps, Grows
  <2>7. Apart(s)' BY <2>1, <2>4, <2>6, ApartStep DEF IInv
  <2>8. FetchesInv' /\ HeaderInv' BY <1>1, <1>2, <2>1, <2>2, FetchesQuiet DEF IInv, HistoryInv
  <2>9. File(disk', "inputs") = I BY <2>1
  <2> HIDE DEF I
  <2>10. ASSUME NEW t \in Session, ~Past(t)', at'[t] # "enter inputs" PROVE Of(t, I) = {}
    <3>1. t # s BY <2>1, <2>10 DEF Past
    <3> QED BY <1>6, <2>10, <3>1 DEF IInv, HistoryInv, InputsInv, Past, I
  <2>11. ASSUME NEW t \in Session, at'[t] = "enter inputs" PROVE Remains(t)' /\ Has(t, I, 1, Left(t)')
    <3>1. t # s BY <2>1, <2>11
    <3>2. Remains(t) /\ Has(t, I, 1, Left(t)) BY <1>6, <2>11, <3>1 DEF IInv, HistoryInv, InputsInv, I
    <3> QED BY <1>6, <3>1, <3>2 DEF Remains, Left
  <2>12. ASSUME NEW t \in closed'["inputs"] PROVE Past(t)' /\ Has(t, I, 1, Pieces)
    <3>1. CASE t \in closed["inputs"]
      <4>1. Past(t) /\ Has(t, I, 1, Pieces) BY <3>1 DEF IInv, HistoryInv, InputsInv, I
      <4>2. t \in Session /\ t # s BY <1>2, <1>7, <3>1, <4>1 DEF Past
      <4> QED BY <1>6, <4>1, <4>2 DEF Past
    <3>2. CASE t = s /\ out[s] = <<>>
      <4>1. Left(s) = Pieces BY <3>2, PiecesAssumption DEF Left
      <4> QED BY <1>4, <2>1, <3>2, <4>1 DEF Past, I
    <3> QED BY <2>2, <2>12, <3>1, <3>2
  <2>13. InputsInv' BY <1>5, <2>9, <2>10, <2>11, <2>12 DEF InputsInv
  <2> QED BY <2>5, <2>6, <2>7, <2>8, <2>13 DEF Closes, HistoryInv
<1> QED BY <1>8, <1>9 DEF EnterInputs, Enter

(* What was fetched: its file may have to be made, ...                     *)
LEMMA FetchHistoryCloses ==
    ASSUME IInv, NEW s \in Session, FetchHistory(s)
    PROVE  Closes(s)
<1>1. Only(s) BY OnlyClosing DEF Closing, IInv, TypeInv
<1>2. at[s] = "fetches" /\ UNCHANGED <<plan, out, easies, saved, covered, closed>> BY DEF FetchHistory, ghosts
<1>3. CASE at'[s] \in {"append", "over"} /\ UNCHANGED <<disk, fp>>
  BY <1>1, <1>2, <1>3, ClosingInPlace DEF Past
<1>4. CASE /\ ~Exists(disk, "fetches") /\ Opens(s, "fetches", OpenToWrite(disk, "fetches"))
           /\ at'[s] = "header"
  <2>1. TypeInv' /\ Apart(s)' /\ Keeps(disk, disk', Histories)
    BY <1>1, <1>2, <1>4, HistoryPaths, HistoryOpened
  <2>2. InputsInv'
    <3>1. File(disk', "inputs") = File(disk, "inputs") BY <2>1 DEF Keeps, Histories
    <3> QED BY <1>1, <1>2, <1>4, <3>1, InputsQuiet DEF IInv, HistoryInv, Past
  <2>3. File(disk, "fetches") = <<>> /\ File(disk', "fetches") = <<>>
    BY <1>4, <2>1 DEF File, Keeps, Histories
  <2>4. FetchesInv' BY <1>1, <1>2, <1>4, <2>3, FetchesLogged DEF IInv, HistoryInv
  <2>5. HeaderInv'
    <3>1. \A t \in Session : at[t] # "header" BY <1>4 DEF IInv, Apart, Exists
    <3>2. \A t \in Session : t # s => at'[t] = at[t] BY <1>1 DEF Only, IInv, TypeInv, Scalars
    <3>3. \A t \in Session : at'[t] = "header" => t = s BY <3>1, <3>2
    <3>4. <<>> \in Seq(Entry') OBVIOUS
    <3> QED BY <2>3, <3>3, <3>4 DEF HeaderInv
  <2> QED BY <2>1, <2>2, <2>4, <2>5 DEF Closes, HistoryInv, Keeps
<1> QED BY <1>3, <1>4 DEF FetchHistory, Goes, IInv, TypeInv, Scalars

(* ... the header be written, ...                                          *)
LEMMA HeaderCloses ==
    ASSUME IInv, NEW s \in Session, WriteHeader(s)
    PROVE  Closes(s)
<1>1. Only(s) BY OnlyClosing DEF Closing, IInv, TypeInv
<1>2. at[s] = "header" /\ at'[s] = "append" /\ UNCHANGED <<plan, fp, out, easies, saved, closed>>
  BY DEF WriteHeader, Goes, IInv, TypeInv, Scalars
<1>3. CASE UNCHANGED <<disk, covered>>
  BY <1>1, <1>2, <1>3, ClosingInPlace DEF Past
<1>4. CASE disk' = Written(disk, fp[s], Header) /\ covered' = Beginning(disk.data[fp[s]])
  <2> DEFINE F == File(disk, "fetches")
             G == File(disk', "fetches")
             over == covered'
  <2>1. fp[s] # 0 /\ fp[s] = disk.dir["fetches"] BY <1>2 DEF IInv, Apart
  <2>2. F = disk.data[fp[s]] BY <2>1 DEF File, Exists
  <2>3. over = Beginning(F) BY <1>4, <2>2
  <2>4. F \in Seq(Entry) BY <1>2 DEF IInv, HistoryInv, HeaderInv
  <2>5. PICK log \in Seq(Entry) : Under(F, covered, log) /\ Logged(log) BY DEF IInv, HistoryInv, FetchesInv
  <2> HIDE DEF over
  <2>6. /\ TypeInv' /\ Apart(s)' /\ Grows(disk, disk', Histories)
        /\ File(disk', "inputs") = File(disk, "inputs")
        /\ G = Header \o SubSeq(F, Len(Header) + 1, Len(F))
    BY <1>1, <1>2, <1>4, <2>1, HistoryPaths, HistoryWritten
  <2> HIDE DEF F, G
  <2>7. log = F BY <2>4, <2>5, NoHeader
  <2>8. over \in Seq(Entry) /\ Len(over) <= HeaderLen /\ Under(G, over, F)
    BY <2>3, <2>4, <2>6, WritingHeader
  <2>9. InputsInv' BY <1>1, <1>2, <2>6, InputsQuiet DEF IInv, HistoryInv, Past
  <2>10. \A t \in Session : t # s => at'[t] = at[t] BY <1>1 DEF Only, IInv, TypeInv, Scalars
  <2>11. FetchesInv'
    <3>1. ASSUME NEW t \in Session, at'[t] \notin {"enter fetches", "over", "dead"} PROVE Of(t, F) = {}
      <4>1. at[t] \notin {"enter fetches", "over", "dead"} BY <1>2, <2>10, <3>1
      <4> QED BY <2>5, <2>7, <4>1 DEF Logged
    <3>2. ASSUME NEW t \in Session, Entering(t)' PROVE Has(t, F, 1, Left(t)')
      <4>1. Entering(t) /\ Left(t)' = Left(t) BY <1>2, <2>10, <3>2 DEF Entering, Left
      <4> QED BY <2>5, <2>7, <4>1 DEF Logged
    <3>3. ASSUME NEW t \in Session, at'[t] = "enter fetches" PROVE Remains(t)'
      <4>1. at[t] = "enter fetches" BY <1>2, <2>10, <3>3
      <4>2. Remains(t) BY <4>1 DEF IInv, HistoryInv, FetchesInv
      <4>3. out'[t] = out[t] BY <1>2
      <4> QED BY <4>2, <4>3 DEF Remains, Left
    <3>4. ASSUME NEW t \in closed'["fetches"] PROVE at'[t] = "over" /\ out'[t] = <<>>
      <4>1. at[t] = "over" /\ out[t] = <<>> /\ t \in Session
        BY <1>2, <3>4 DEF IInv, HistoryInv, FetchesInv, TypeInv, Scalars, Histories
      <4> QED BY <1>2, <2>10, <4>1
    <3>5. Logged(log)' BY <2>7, <3>1, <3>2 DEF Logged
    <3>6. Under(File(disk', "fetches"), covered', log) BY <2>7, <2>8 DEF G, over
    <3>7. covered' \in Seq(Entry) /\ Len(covered') <= HeaderLen BY <2>8 DEF over
    <3> QED BY <2>5, <3>3, <3>4, <3>5, <3>6, <3>7 DEF FetchesInv
  <2>12. HeaderInv'
    <3>1. \A t \in Session : at'[t] # "header" BY <1>2, <2>10 DEF IInv, HistoryInv, HeaderInv
    <3> QED BY <3>1 DEF HeaderInv
  <2> QED BY <2>6, <2>9, <2>11, <2>12 DEF Closes, HistoryInv
<1> QED BY <1>3, <1>4 DEF WriteHeader

(* ... and what was fetched appended.                                      *)
LEMMA FetchesOpened ==
    ASSUME IInv, NEW s \in Session, AppendFetches(s)
    PROVE  Closes(s)
<1>1. Only(s) BY OnlyClosing DEF Closing, IInv, TypeInv
<1>2. /\ at[s] = "append" /\ UNCHANGED <<plan, easies, saved, covered, closed>>
      /\ \/ /\ Opens(s, "fetches", OpenToAppend(disk, "fetches")) /\ out'[s] = Items(s)
            /\ at'[s] = "enter fetches"
         \/ at'[s] = "over" /\ UNCHANGED <<disk, fp>>
  BY DEF AppendFetches, OpenHistory, Goes, ghosts, IInv, TypeInv, Scalars
<1>3. CASE at'[s] = "over" /\ UNCHANGED <<disk, fp>>
  BY <1>1, <1>2, <1>3, ClosingInPlace DEF Past
<1>4. CASE /\ Opens(s, "fetches", OpenToAppend(disk, "fetches")) /\ out'[s] = Items(s)
           /\ at'[s] = "enter fetches"
  <2>1. TypeInv' /\ Apart(s)' /\ Keeps(disk, disk', Histories)
    BY <1>1, <1>2, <1>4, HistoryPaths, HistoryOpened
  <2>2. File(disk', "fetches") = File(disk, "fetches") /\ File(disk', "inputs") = File(disk, "inputs")
    BY <2>1 DEF Keeps, Histories
  <2>3. InputsInv' BY <1>1, <1>2, <1>4, <2>2, InputsQuiet DEF IInv, HistoryInv, Past
  <2>4. \A t \in Session : t # s => at'[t] = at[t] /\ out'[t] = out[t]
    BY <1>1 DEF Only, IInv, TypeInv, Scalars
  <2>5. Remains(s)' /\ Left(s)' = 0 BY <1>4, FirstItems DEF IInv
  <2>6. PICK log \in Seq(Entry) : Under(File(disk, "fetches"), covered, log) /\ Logged(log)
    BY DEF IInv, HistoryInv, FetchesInv
  <2>7. Has(s, log, 1, 0)
    <3>1. Of(s, log) = {} BY <1>2, <2>6 DEF Logged
    <3> QED BY <3>1, NoEntries
  <2>8. closed["fetches"] \in SUBSET Session BY DEF IInv, TypeInv, Scalars, Histories
  <2>9. Logged(log)'
    <3>1. ASSUME NEW t \in Session, at'[t] \notin {"enter fetches", "over", "dead"} PROVE Of(t, log) = {}
      <4>1. t # s BY <1>4, <3>1
      <4> QED BY <2>4, <2>6, <3>1, <4>1 DEF Logged
    <3>2. ASSUME NEW t \in Session, Entering(t)' PROVE Has(t, log, 1, Left(t)')
      <4>1. CASE t = s BY <2>5, <2>7, <4>1
      <4>2. CASE t # s
        <5>1. Entering(t) /\ Left(t)' = Left(t) BY <1>2, <2>4, <3>2, <4>2 DEF Entering, Left
        <5> QED BY <2>6, <5>1 DEF Logged
      <4> QED BY <4>1, <4>2
    <3> QED BY <3>1, <3>2 DEF Logged
  <2>10. FetchesInv'
    <3>1. ASSUME NEW t \in Session, at'[t] = "enter fetches" PROVE Remains(t)'
      <4>1. CASE t = s BY <2>5, <4>1
      <4>2. CASE t # s
        <5>1. Remains(t) BY <2>4, <3>1, <4>2 DEF IInv, HistoryInv, FetchesInv
        <5>2. out'[t] = out[t] BY <2>4, <4>2
        <5> QED BY <5>1, <5>2 DEF Remains, Left
      <4> QED BY <4>1, <4>2
    <3>2. ASSUME NEW t \in closed'["fetches"] PROVE at'[t] = "over" /\ out'[t] = <<>>
      <4>1. at[t] = "over" /\ out[t] = <<>> /\ t \in Session
        BY <1>2, <2>8, <3>2 DEF IInv, HistoryInv, FetchesInv
      <4> QED BY <1>2, <2>4, <4>1
    <3>4. Under(File(disk', "fetches"), covered', log) BY <1>2, <2>2, <2>6 DEF Under
    <3>5. covered' \in Seq(Entry) /\ Len(covered') <= HeaderLen BY <1>2 DEF IInv, HistoryInv, FetchesInv
    <3> QED BY <2>6, <2>9, <3>1, <3>2, <3>4, <3>5 DEF FetchesInv
  <2>11. HeaderInv'
    <3>1. \A t \in Session : at'[t] = "header" => at[t] = "header" BY <1>4, <2>4
    <3> QED BY <2>2, <3>1 DEF IInv, HistoryInv, HeaderInv
  <2> QED BY <2>1, <2>3, <2>10, <2>11 DEF Closes, HistoryInv, Keeps
<1> QED BY <1>2, <1>3, <1>4

LEMMA FetchesEntered ==
    ASSUME IInv, NEW s \in Session, EnterFetches(s)
    PROVE  Closes(s)
<1>1. Only(s) BY OnlyClosing DEF Closing, IInv, TypeInv
<1>2. at[s] = "enter fetches" /\ UNCHANGED <<plan, fp, easies, saved, covered>> BY DEF EnterFetches, Enter
<1> DEFINE F == File(disk, "fetches")
<1>3. fp[s] # 0 /\ fp[s] = disk.dir["fetches"] BY <1>2 DEF IInv, Apart
<1>4. Remains(s) BY <1>2 DEF IInv, HistoryInv, FetchesInv
<1>5. PICK log \in Seq(Entry) : Under(F, covered, log) /\ Logged(log) BY DEF IInv, HistoryInv, FetchesInv
<1>6. \A t \in Session : t # s => at'[t] = at[t] /\ out'[t] = out[t]
  BY <1>1 DEF Only, IInv, TypeInv, Scalars
<1>7. closed["inputs"] \in SUBSET Session /\ closed["fetches"] \in SUBSET Session
  BY DEF IInv, TypeInv, Scalars, Histories
<1>8. covered \in Seq(Entry) /\ Len(covered) <= HeaderLen BY DEF IInv, HistoryInv, FetchesInv
<1>10. CASE \E n \in 1..Len(out[s]) :
              /\ disk' = Appended(disk, fp[s], SubSeq(out[s], 1, n))
              /\ out' = [out EXCEPT ![s] = SubSeq(@, n + 1, Len(@))]
              /\ UNCHANGED <<at, closed>>
  <2>1. PICK n \in 1..Len(out[s]) :
              /\ disk' = Appended(disk, fp[s], SubSeq(out[s], 1, n))
              /\ out' = [out EXCEPT ![s] = SubSeq(@, n + 1, Len(@))]
              /\ UNCHANGED <<at, closed>>
    BY <1>10
  <2> DEFINE E == SubSeq(out[s], 1, n)
             m == Left(s)
             G == File(disk', "fetches")
  <2>2. out'[s] = SubSeq(out[s], n + 1, Len(out[s])) BY <2>1 DEF IInv, TypeInv, Scalars
  <2>3. NextEntries(s, m, E, n) /\ Remains(s)' /\ Left(s)' = m + n
    BY <1>4, <2>2, NextItems DEF IInv
  <2>4. at'[s] = "enter fetches" /\ closed' = closed /\ at' = at BY <1>2, <2>1
  <2>5. disk' = Appended(disk, fp[s], E) BY <2>1
  <2> HIDE DEF E, m
  <2>6. /\ TypeInv' /\ Apart(s)' /\ Grows(disk, disk', Histories)
        /\ File(disk', "inputs") = File(disk, "inputs") /\ G = F \o E
    BY <1>1, <1>2, <1>3, <2>4, <2>5, HistoryPaths, HistoryWritten
  <2> HIDE DEF G, F
  <2>0. E \in Seq(Entry) BY <2>3 DEF NextEntries
  <2>6a. PICK more \in Seq(Entry) : more = log \o E BY <2>0, ConcatProperties
  <2>7. Entered(log, more, s, m, n) BY <2>3, <2>6a, AppendingEntries
  <2>8. Under(G, covered, more) BY <1>5, <1>8, <2>0, <2>6, <2>6a, LogLonger
  <2>9. InputsInv' BY <1>1, <1>2, <2>4, <2>6, InputsQuiet DEF IInv, HistoryInv, Past
  <2>10. Logged(more)'
    <3>1. ASSUME NEW t \in Session, at'[t] \notin {"enter fetches", "over", "dead"} PROVE Of(t, more) = {}
      <4>1. t # s BY <2>4, <3>1
      <4>2. Of(t, log) = {} BY <1>5, <2>4, <3>1 DEF Logged
      <4> QED BY <2>7, <4>1, <4>2 DEF Entered
    <3>2. ASSUME NEW t \in Session, Entering(t)' PROVE Has(t, more, 1, Left(t)')
      <4>1. CASE t = s
        <5>1. Has(s, log, 1, m) BY <1>2, <1>5 DEF Logged, Entering, m
        <5> QED BY <2>3, <2>7, <4>1, <5>1 DEF Entered
      <4>2. CASE t # s
        <5>1. Entering(t) /\ Left(t)' = Left(t) BY <1>6, <2>4, <3>2, <4>2 DEF Entering, Left
        <5>2. Has(t, log, 1, Left(t)) BY <1>5, <5>1 DEF Logged
        <5> QED BY <2>7, <4>2, <5>1, <5>2 DEF Entered
      <4> QED BY <4>1, <4>2
    <3> QED BY <3>1, <3>2 DEF Logged
  <2>11. FetchesInv'
    <3>1. ASSUME NEW t \in Session, at'[t] = "enter fetches" PROVE Remains(t)'
      <4>1. CASE t = s BY <2>3, <4>1
      <4>2. CASE t # s
        <5>1. Remains(t) BY <2>4, <3>1 DEF IInv, HistoryInv, FetchesInv
        <5>2. out'[t] = out[t] BY <1>6, <4>2
        <5> QED BY <5>1, <5>2 DEF Remains, Left
      <4> QED BY <4>1, <4>2
    <3>2. ASSUME NEW t \in closed'["fetches"] PROVE at'[t] = "over" /\ out'[t] = <<>>
      <4>1. at[t] = "over" /\ out[t] = <<>> /\ t \in Session
        BY <1>7, <2>4, <3>2 DEF IInv, HistoryInv, FetchesInv
      <4> QED BY <1>2, <1>6, <4>1
    <3>3. Under(File(disk', "fetches"), covered', more) BY <1>2, <2>8 DEF G
    <3>4. covered' \in Seq(Entry) /\ Len(covered') <= HeaderLen BY <1>2, <1>8
    <3> QED BY <2>6a, <2>10, <3>1, <3>2, <3>3, <3>4 DEF FetchesInv
  <2>12. HeaderInv'
    <3>1. ASSUME NEW t \in Session, at'[t] = "header" PROVE G \in Seq(Entry)
      <4>1. F \in Seq(Entry) BY <2>4, <3>1 DEF IInv, HistoryInv, HeaderInv, F
      <4>2. E \in Seq(Entry) BY <2>3 DEF NextEntries
      <4> QED BY <2>6, <4>1, <4>2, ConcatProperties
    <3> QED BY <2>4, <3>1 DEF IInv, HistoryInv, HeaderInv, G
  <2> QED BY <2>6, <2>9, <2>11, <2>12 DEF Closes, HistoryInv
<1>11. CASE /\ Goes(s, "over")
            /\ closed' = IF out[s] = <<>> THEN [closed EXCEPT !["fetches"] = @ \cup {s}] ELSE closed
            /\ UNCHANGED <<disk, out>>
  <2>1. at'[s] = "over" /\ UNCHANGED <<plan, disk, fp, easies, saved, out>>
    BY <1>2, <1>11 DEF Goes, IInv, TypeInv, Scalars
  <2>2. /\ closed' \in [Histories -> SUBSET Session] /\ closed'["inputs"] = closed["inputs"]
        /\ closed'["fetches"] = IF out[s] = <<>> THEN closed["fetches"] \cup {s} ELSE closed["fetches"]
    BY <1>11 DEF IInv, TypeInv, Scalars, Histories
  <2>3. /\ DiskOK(disk') /\ Len(disk.data) <= Len(disk'.data) /\ fp'[s] \in 0..Len(disk'.data)
        /\ Keeps(disk, disk', Path)
    BY <2>1, DiskStays DEF IInv
  <2>4. at'[s] \in Step /\ ~Writing(s)' /\ ~AtBookmarks(s)' /\ ~AtTransfers(s)'
        /\ at'[s] \notin {"enter inputs", "header", "enter fetches"}
    BY <2>1 DEF Step, Writing, AtBookmarks, AtTransfers
  <2>5. TypeInv' BY <1>1, <2>1, <2>2, <2>3, <2>4, PlainStep DEF IInv
  <2>6. Grows(disk, disk', Histories) BY <2>3, HistoryPaths DEF Keeps, Grows
  <2>7. Apart(s)' BY <2>1, <2>4, <2>6, ApartStep DEF IInv
  <2>8. InputsInv' BY <1>1, <1>2, <2>1, <2>2, InputsQuiet DEF IInv, HistoryInv, Past
  <2> HIDE DEF F
  <2>9. Logged(log)'
    <3>1. ASSUME NEW t \in Session, at'[t] \notin {"enter fetches", "over", "dead"} PROVE Of(t, log) = {}
      <4>1. t # s BY <2>1, <3>1
      <4> QED BY <1>5, <1>6, <3>1, <4>1 DEF Logged
    <3>2. ASSUME NEW t \in Session, Entering(t)' PROVE Has(t, log, 1, Left(t)')
      <4>1. Left(t)' = Left(t) BY <2>1 DEF Left
      <4>2. Entering(t)
        <5>1. CASE t = s BY <1>2, <5>1 DEF Entering
        <5>2. CASE t # s BY <1>6, <2>2, <3>2, <5>2 DEF Entering
        <5> QED BY <5>1, <5>2
      <4> QED BY <1>5, <4>1, <4>2 DEF Logged
    <3> QED BY <3>1, <3>2 DEF Logged
  <2>10. FetchesInv'
    <3>1. ASSUME NEW t \in Session, at'[t] = "enter fetches" PROVE Remains(t)'
      <4>1. t # s BY <2>1, <3>1
      <4>2. Remains(t) BY <1>6, <3>1, <4>1 DEF IInv, HistoryInv, FetchesInv
      <4>3. out'[t] = out[t] BY <1>6, <4>1
      <4> QED BY <4>2, <4>3 DEF Remains, Left
    <3>2. ASSUME NEW t \in closed'["fetches"] PROVE at'[t] = "over" /\ out'[t] = <<>>
      <4>1. CASE t \in closed["fetches"]
        <5>1. at[t] = "over" /\ out[t] = <<>> /\ t \in Session
          BY <1>7, <4>1 DEF IInv, HistoryInv, FetchesInv
        <5> QED BY <1>2, <1>6, <5>1
      <4>2. CASE t = s /\ out[s] = <<>> BY <2>1, <4>2
      <4> QED BY <2>2, <3>2, <4>1, <4>2
    <3>3. Under(File(disk', "fetches"), covered', log) BY <1>2, <1>5, <2>1 DEF F
    <3>4. covered' \in Seq(Entry) /\ Len(covered') <= HeaderLen BY <1>2, <1>8
    <3> QED BY <1>5, <2>9, <3>1, <3>2, <3>3, <3>4 DEF FetchesInv
  <2>11. HeaderInv'
    <3>1. ASSUME NEW t \in Session, at'[t] = "header" PROVE at[t] = "header" BY <1>6, <2>1, <3>1
    <3> QED BY <2>1, <3>1 DEF IInv, HistoryInv, HeaderInv
  <2> QED BY <2>5, <2>6, <2>7, <2>8, <2>10, <2>11 DEF Closes, HistoryInv
<1> QED BY <1>10, <1>11 DEF EnterFetches, Enter

(* Closing a session, and being killed.                                    *)
LEMMA ClosingInv ==
    ASSUME IInv, NEW s \in Session, Closing(s) \/ Killed(s)
    PROVE  Closes(s)
<1>1. CASE session_close(s)
  <2>1. /\ Only(s) /\ UNCHANGED <<plan, disk, fp, easies, saved, covered, closed>>
        /\ at[s] = "idle" /\ at'[s] = "inputs"
    BY <1>1, OnlyClosing DEF session_close, Asked, Goes, ghosts, Closing, IInv, TypeInv, Scalars
  <2> QED BY <2>1, ClosingInPlace DEF Past
<1>2. CASE session_write_input_history(s) BY <1>2, InputsOpened
<1>3. CASE EnterInputs(s) BY <1>3, InputsEntered
<1>4. CASE FetchHistory(s) BY <1>4, FetchHistoryCloses
<1>5. CASE WriteHeader(s) BY <1>5, HeaderCloses
<1>6. CASE AppendFetches(s) BY <1>6, FetchesOpened
<1>7. CASE EnterFetches(s) BY <1>7, FetchesEntered
<1>8. CASE Killed(s)
  <2>1. /\ Only(s) /\ UNCHANGED <<plan, disk, fp, easies, saved, covered, closed>>
        /\ at[s] \notin {"over", "dead"} /\ at'[s] = "dead"
    BY <1>8, OnlyClosing
    DEF Killed, AtBookmarks, AtTransfers, AtHistories, Goes, ghosts, IInv, TypeInv, Scalars
  <2> QED BY <2>1, ClosingInPlace DEF Past
<1> QED BY <1>1, <1>2, <1>3, <1>4, <1>5, <1>6, <1>7, <1>8 DEF Closing

-----------------------------------------------------------------------------
(* The theorems.                                                           *)

LEMMA InitInv ==
    ASSUME Init
    PROVE  IInv
<1>1. /\ plan \in [Session -> Seq(Jobs)]
      /\ disk = [dir |-> [p \in Path |-> 0], data |-> <<>>]
      /\ at = [s \in Session |-> "idle"]
      /\ fp = [s \in Session |-> 0]
      /\ out = [s \in Session |-> <<>>]
      /\ easies = [s \in Session |-> <<>>]
      /\ saved = [s \in Session |-> 0]
      /\ closed = [h \in Histories |-> {}]
  BY PlansAssumption DEF Init, Blank, Histories
<1>2. IsList(<<>>) BY ListOf DEF IsList
<1>3. Len(disk.data) = 0 /\ disk.data = <<>> /\ disk.dir = [p \in Path |-> 0] BY <1>1
<1>4. DiskOK(disk) BY <1>1, <1>2, <1>3 DEF DiskOK
<1>5. Scalars BY <1>1, <1>3 DEF Scalars, Step
<1>6. ASSUME NEW s \in Session PROVE Jobbed(s) /\ Transfers(s) /\ Apart(s)
  BY <1>1, <1>2 DEF Jobbed, Transfers, Apart, AtBookmarks, AtTransfers, Writing
<1>7. \A h \in Histories : File(disk, h) = <<>> BY <1>3, HistoryPaths DEF File, Exists
<1>8. \A s : Of(s, <<>>) = {} BY DEF Of
<1>9. InputsInv
  <2>1. File(disk, "inputs") = <<>> /\ closed["inputs"] = {} BY <1>1, <1>7 DEF Histories
  <2>2. <<>> \in Seq(Entry) OBVIOUS
  <2> QED BY <1>1, <1>8, <2>1, <2>2 DEF InputsInv
<1>10. FetchesInv /\ HeaderInv
  <2>1. File(disk, "fetches") = <<>> /\ closed["fetches"] = {} /\ covered = <<>>
    BY <1>1, <1>7 DEF Histories, Init
  <2>2. <<>> \in Seq(Entry) /\ Len(<<>>) <= HeaderLen BY EmptySeq, PiecesAssumption
  <2>3. \A s \in Session : at[s] = "idle" /\ ~Entering(s) BY <1>1, <2>1 DEF Entering
  <2>4. Logged(<<>>) BY <1>8, <2>3 DEF Logged
  <2>5. Under(<<>>, <<>>, <<>>) BY DEF Under
  <2> QED BY <2>1, <2>2, <2>3, <2>4, <2>5 DEF FetchesInv, HeaderInv
<1> QED BY <1>4, <1>5, <1>6, <1>9, <1>10 DEF IInv, TypeInv, HistoryInv

LEMMA NextInv ==
    ASSUME IInv, [Next]_vars
    PROVE  IInv'
<1>1. ASSUME NEW s \in Session, Bookmarking(s) \/ Downloading(s) \/ Closing(s) \/ Killed(s)
      PROVE  IInv'
  <2>1. Closes(s)
    BY <1>1, EarlyInv, ClosingInv DEF Closes, Keeps
  <2>2. Only(s) BY <1>1, OnlyBookmarking, OnlyDownloading, OnlyClosing DEF IInv, TypeInv
  <2>3. ASSUME NEW t \in Session, t # s PROVE Apart(t)'
    <3>1. at'[t] = at[t] /\ fp'[t] = fp[t] /\ easies'[t] = easies[t]
      BY <2>2, <2>3 DEF Only, IInv, TypeInv, Scalars
    <3> QED BY <2>1, <3>1, ApartOther DEF IInv, Closes
  <2> QED BY <2>1, <2>3 DEF Closes, IInv
<1>2. ASSUME UNCHANGED vars PROVE IInv'
  <2> USE <1>2 DEF vars
  <2>1. TypeInv' BY DEF IInv, TypeInv, Scalars, Jobbed, Transfers, AtBookmarks, AtTransfers, Job
  <2>2. \A s \in Session : Apart(s)' BY DEF IInv, Apart, Writing
  <2>3. InputsInv' BY DEF IInv, HistoryInv, InputsInv, Remains, Left, Past
  <2>4. FetchesInv'
    <3>1. PICK log \in Seq(Entry) : Under(File(disk, "fetches"), covered, log) /\ Logged(log)
      BY DEF IInv, HistoryInv, FetchesInv
    <3>2. Under(File(disk', "fetches"), covered', log) /\ Logged(log)'
      BY <3>1 DEF Under, Logged, Entering, Left
    <3> QED BY <3>1, <3>2 DEF IInv, HistoryInv, FetchesInv, Remains, Left
  <2>5. HeaderInv' BY DEF IInv, HistoryInv, HeaderInv
  <2> QED BY <2>1, <2>2, <2>3, <2>4, <2>5 DEF IInv, HistoryInv
<1> QED BY <1>1, <1>2 DEF Next

(* The invariant holds in every state.                                     *)
LEMMA Inductive == Spec => []IInv
<1>1. Init => IInv BY InitInv
<1>2. IInv /\ [Next]_vars => IInv' BY NextInv
<1> QED BY <1>1, <1>2, PTL DEF Spec

(* The files, the places of the sessions and their transfers are what the  *)
(* code takes them to be: two names are never one file, a command goes on  *)
(* with what was asked of it, and no more is said to be saved than there   *)
(* were transfers (bookmark.c:398-462, user-interface.c:163-284).          *)
THEOREM TypeCorrect == Spec => []TypeOK
<1>1. IInv => TypeOK
  <2> SUFFICES ASSUME IInv PROVE TypeOK
    OBVIOUS
  <2>1. /\ disk.dir \in [Path -> 0..Len(disk.data)]
        /\ \A p, q \in Path : disk.dir[p] = disk.dir[q] => p = q \/ disk.dir[p] = 0
    BY DEF IInv, TypeInv, DiskOK
  <2>2. closed \in [{"inputs", "fetches"} -> SUBSET Session] BY DEF IInv, TypeInv, Scalars, Histories
  <2>3. ASSUME NEW s \in Session
        PROVE  /\ AtBookmarks(s) \/ AtTransfers(s) \/ AtHistories(s) \/ at[s] \in {"idle", "over", "dead"}
               /\ fp[s] \in 0..Len(disk.data) /\ saved[s] \in 0..Len(easies[s])
               /\ AtBookmarks(s) => Job(s).kind = "bookmark"
               /\ AtTransfers(s) => Job(s).kind = "save"
               /\ \A i \in DOMAIN easies[s] : easies[s][i].fp \in DOMAIN disk.data /\ easies[s][i].got \in 0..2
    <3>1. AtBookmarks(s) \/ AtTransfers(s) \/ AtHistories(s) \/ at[s] \in {"idle", "over", "dead"}
      BY DEF IInv, TypeInv, Scalars, Step, AtBookmarks, AtTransfers, AtHistories
    <3>2. fp[s] \in 0..Len(disk.data) BY DEF IInv, TypeInv, Scalars
    <3>3. saved[s] \in 0..Len(easies[s])
      <4>1. saved[s] \in Nat /\ saved[s] <= Len(easies[s]) /\ Len(easies[s]) \in Nat
        BY LenProperties DEF IInv, TypeInv, Scalars, Transfers, IsList
      <4> QED BY <4>1
    <3>4. DOMAIN disk.data = 1..Len(disk.data) BY DiskData DEF IInv, TypeInv
    <3>5. \A i \in DOMAIN easies[s] : easies[s][i].fp \in DOMAIN disk.data /\ easies[s][i].got \in 0..2
      BY <3>4 DEF IInv, TypeInv, Transfers, TransferOK
    <3> QED BY <3>1, <3>2, <3>3, <3>5 DEF IInv, TypeInv, Jobbed
  <2> QED BY <2>1, <2>2, <2>3 DEF TypeOK
<1> QED BY <1>1, Inductive, PTL

(* However many sessions end at once, and wherever one is killed, each that*)
(* wrote a history to its end finds each piece of it there, once and in    *)
(* order; but for what the header of the fetch history was written over,   *)
(* which is no more than the header is long: that is there once at most,   *)
(* first and whole (session.c:122-182).                                    *)
THEOREM HistoriesKept == Spec => []HistoryKept
<1>1. IInv => HistoryKept
  <2> SUFFICES ASSUME IInv PROVE HistoryKept
    OBVIOUS
  <2>1. \A s \in closed["inputs"] : Has(s, File(disk, "inputs"), 1, Pieces)
    BY DEF IInv, HistoryInv, InputsInv
  <2> DEFINE F == File(disk, "fetches")
  <2>2. PICK log \in Seq(Entry) : Under(F, covered, log) /\ Logged(log) BY DEF IInv, HistoryInv, FetchesInv
  <2>3. covered \in Seq(Entry) /\ Len(covered) <= HeaderLen BY DEF IInv, HistoryInv, FetchesInv
  <2> HIDE DEF F
  <2>4. /\ Log(F) = log
        /\ \A i \in DOMAIN F : F[i][1] = "header" => F[i] = <<"header", 0, i>>
        /\ Headed(F) => IsPrefix(Header, F)
        /\ Len(covered) <= IF Headed(F) THEN HeaderLen ELSE 0
    BY <2>2, <2>3, LogIs
  <2>5. closed["fetches"] \in SUBSET Session BY DEF IInv, TypeInv, Scalars, Histories
  <2>6. ASSUME NEW s \in closed["fetches"] PROVE Has(s, Log(F), 1, Pieces)
    <3>1. out[s] = <<>> BY DEF IInv, HistoryInv, FetchesInv
    <3>2. Left(s) = Pieces BY <3>1, PiecesAssumption DEF Left
    <3> QED BY <2>2, <2>4, <2>5, <3>2 DEF Logged, Entering
  <2> QED BY <2>1, <2>4, <2>6 DEF HistoryKept, F
<1> QED BY <1>1, Inductive, PTL

-----------------------------------------------------------------------------
(* Files that were said to be saved.                                       *)

Ends(x, y) == Len(x) <= Len(y) /\ \A j \in 1..Len(x) : y[Len(y) - Len(x) + j] = x[j]

(* A transfer that failed and whose file was removed.                      *)
Gone(s, i) == at[s] = "close" /\ easies[s][i].state = "failed"

(* What was sent is at the end of the file, or on its way there.           *)
Sent(e, d) == IsList(e.buf) /\ Ends(SubSeq(Parts(e.url), 1, e.got), File(d, e.path) \o e.buf)

Kept(s, i) ==
    LET e == easies[s][i]
    IN  /\ \A p \in Path : disk.dir[p] = e.fp => p = e.path
        /\ e.state = "done" => e.got = 2
        /\ Gone(s, i) => disk.dir[e.path] = 0
        /\ ~Gone(s, i) => disk.dir[e.path] = e.fp /\ Sent(e, disk)

Alone ==
    \A s, t \in Session : AtTransfers(s) /\ AtTransfers(t) =>
        \A i \in DOMAIN easies[s], j \in DOMAIN easies[t] :
            easies[s][i].path = easies[t][j].path \/ easies[s][i].fp = easies[t][j].fp => s = t /\ i = j

Counted(s) == at[s] = "close" => saved[s] = Len(easies[s]) - Cardinality(In(s, "failed"))

(* As long as no two transfers shared a file.                              *)
Filed ==
    /\ \A p \in Name : IsList(File(disk, p))
    /\ \A s \in Session : Writing(s) => fp[s] = disk.dir["bookmarks"]
    /\ \A s \in Session : AtTransfers(s) => Counted(s) /\ \A i \in DOMAIN easies[s] : Kept(s, i)
    /\ Alone

FiledInv == ~shared => Filed

(* Lists that are joined.                                                  *)
LEMMA ListsJoined ==
    ASSUME NEW x, IsList(x), NEW y, IsList(y), NEW a
    PROVE  /\ IsList(x \o y) /\ Len(x \o y) = Len(x) + Len(y)
           /\ x \o Append(y, a) = Append(x \o y, a)
           /\ x \o <<>> = x
<1> DEFINE S == {x[i] : i \in DOMAIN x} \cup {y[i] : i \in DOMAIN y} \cup {a}
<1>1. x \in Seq(S)
  <2>1. Len(x) \in Nat /\ DOMAIN x = 1..Len(x) /\ x \in [1..Len(x) -> {x[i] : i \in DOMAIN x}]
    BY LenProperties DEF IsList
  <2>2. x \in [1..Len(x) -> S] BY <2>1
  <2> QED BY <2>1, <2>2
<1>2. y \in Seq(S)
  <2>1. Len(y) \in Nat /\ DOMAIN y = 1..Len(y) /\ y \in [1..Len(y) -> {y[i] : i \in DOMAIN y}]
    BY LenProperties DEF IsList
  <2>2. y \in [1..Len(y) -> S] BY <2>1
  <2> QED BY <2>1, <2>2
<1>3. a \in S OBVIOUS
<1> HIDE DEF S
<1>4. x \o y \in Seq(S) /\ Len(x \o y) = Len(x) + Len(y) BY <1>1, <1>2, ConcatProperties
<1>5. IsList(x \o y) BY <1>4, ListOf
<1>6. x \o Append(y, a) = Append(x \o y, a)
  <2> DEFINE one == <<a>>
  <2>1. Append(y, a) = y \o one /\ Append(x \o y, a) = (x \o y) \o one BY <1>2, <1>3, <1>4, AppendIsConcat
  <2>2. one \in Seq(S) BY <1>3
  <2> HIDE DEF one
  <2>3. (x \o y) \o one = x \o (y \o one) BY <1>1, <1>2, <2>2, ConcatAssociative
  <2> QED BY <2>1, <2>3
<1>7. x \o <<>> = x BY <1>1, ConcatEmptySeq
<1> QED BY <1>4, <1>5, <1>6, <1>7

(* What was sent so far, ...                                               *)
LEMMA SentParts ==
    ASSUME NEW u
    PROVE  /\ Len(Parts(u)) = 2 /\ SubSeq(Parts(u), 1, 0) = <<>> /\ SubSeq(Parts(u), 1, 2) = Parts(u)
           /\ \A g \in 0..2 : /\ Len(SubSeq(Parts(u), 1, g)) = g
                              /\ \A j \in 1..g : SubSeq(Parts(u), 1, g)[j] = Parts(u)[j]
<1> DEFINE P == Parts(u)
           S == {P[1], P[2]}
<1>1. P \in Seq(S) /\ Len(P) = 2 BY DEF Parts
<1>2. \A j \in 1..2 : P[j] \in S
  <2>1. \A j \in 1..2 : j = 1 \/ j = 2 OBVIOUS
  <2> QED BY <2>1
<1> HIDE DEF P, S
<1>3. SubSeq(P, 1, 0) = <<>> BY SubSeqEmpty
<1>4. SubSeq(P, 1, 2) = P BY <1>1, SubSeqFull
<1>5. ASSUME NEW g \in 0..2
      PROVE  Len(SubSeq(P, 1, g)) = g /\ \A j \in 1..g : SubSeq(P, 1, g)[j] = P[j]
  <2>1. \A j \in 1..g : P[j] \in S BY <1>2
  <2>2. /\ Len(SubSeq(P, 1, g)) = (IF 1 <= g THEN g - 1 + 1 ELSE 0)
        /\ \A j \in 1..(g - 1 + 1) : SubSeq(P, 1, g)[j] = P[1 + j - 1]
    BY <2>1, SubSeqProperties
  <2> QED BY <2>2
<1> QED BY <1>1, <1>3, <1>4, <1>5 DEF P

(* ... and one part more.                                                  *)
LEMMA SentNext ==
    ASSUME NEW u, NEW g \in 0..1, NEW x, IsList(x), Ends(SubSeq(Parts(u), 1, g), x)
    PROVE  Ends(SubSeq(Parts(u), 1, g + 1), Append(x, Parts(u)[g + 1]))
<1> DEFINE P == Parts(u)
           p == SubSeq(P, 1, g)
           q == SubSeq(P, 1, g + 1)
           y == Append(x, P[g + 1])
           n == Len(x)
<1>1. /\ Len(p) = g /\ \A j \in 1..g : p[j] = P[j]
      /\ Len(q) = g + 1 /\ \A j \in 1..(g + 1) : q[j] = P[j]
  BY SentParts
<1>2. n \in Nat /\ Len(y) = n + 1 /\ \A k \in 1..n : y[k] = x[k]
  BY ListLonger, LenProperties DEF IsList
<1>3. y[n + 1] = P[g + 1] BY ListLonger
<1>4. g <= n /\ \A j \in 1..g : x[n - g + j] = p[j] BY <1>1 DEF Ends
<1> HIDE DEF P, p, q, y, n
<1>5. ASSUME NEW j \in 1..(g + 1) PROVE y[(n + 1) - (g + 1) + j] = q[j]
  <2>1. CASE j = g + 1
    <3>1. (n + 1) - (g + 1) + j = n + 1 BY <1>2, <2>1
    <3> QED BY <1>1, <1>3, <2>1, <3>1
  <2>2. CASE j # g + 1
    <3>1. j \in 1..g /\ (n + 1) - (g + 1) + j = n - g + j /\ n - g + j \in 1..n BY <1>2, <1>4, <2>2
    <3> QED BY <1>1, <1>2, <1>4, <3>1
  <2> QED BY <2>1, <2>2
<1>6. Ends(q, y) BY <1>1, <1>2, <1>4, <1>5 DEF Ends
<1> QED BY <1>6 DEF P, q, y

(* A file that ends with what a url sent is whole, and none is not.        *)
LEMMA EndsWhole ==
    ASSUME NEW u, NEW y, IsList(y)
    PROVE  /\ Ends(Parts(u), y) => IsSuffix(Parts(u), y)
           /\ y = <<>> => ~IsSuffix(Parts(u), y)
<1> DEFINE P == Parts(u)
           n == Len(y)
           R == Reverse(P)
           Q == Reverse(y)
<1>1. Len(P) = 2 BY SentParts
<1>2. n \in Nat BY LenProperties DEF IsList
<1>3. R = [i \in 1..2 |-> P[(2 - i) + 1]] BY <1>1 DEF Reverse
<1>4. Q = [i \in 1..n |-> y[(n - i) + 1]] BY DEF Reverse
<1> HIDE DEF P, n, R, Q
<1>5. Len(R) = 2
  <2>1. R \in [1..2 -> {P[(2 - i) + 1] : i \in 1..2}] BY <1>3
  <2> QED BY <2>1
<1>6. Len(Q) = n
  <2>1. Q \in [1..n -> {y[(n - i) + 1] : i \in 1..n}] BY <1>4
  <2> QED BY <1>2, <2>1
<1>7. ASSUME Ends(P, y) PROVE IsPrefix(R, Q)
  <2>1. 2 <= n /\ \A j \in 1..2 : y[n - 2 + j] = P[j] BY <1>1, <1>7 DEF Ends, n
  <2>2. \A i \in 1..2 : R[i] = Q[i]
    <3>1. ASSUME NEW i \in 1..2 PROVE R[i] = Q[i]
      <4>1. (2 - i) + 1 \in 1..2 /\ n - 2 + ((2 - i) + 1) = (n - i) + 1 /\ i \in 1..n BY <1>2, <2>1
      <4> QED BY <1>3, <1>4, <2>1, <4>1
    <3> QED BY <3>1
  <2>3. SubSeq(R, 1, 2) = SubSeq(Q, 1, 2)
    <3> DEFINE S == {R[i] : i \in 1..2}
    <3>1. \A i \in 1..2 : R[i] \in S /\ Q[i] \in S BY <2>2
    <3> HIDE DEF S
    <3>2. /\ SubSeq(R, 1, 2) \in Seq(S) /\ Len(SubSeq(R, 1, 2)) = 2
          /\ \A i \in 1..2 : SubSeq(R, 1, 2)[i] = R[i]
      <4>1. /\ SubSeq(R, 1, 2) \in Seq(S)
            /\ Len(SubSeq(R, 1, 2)) = (IF 1 <= 2 THEN 2 - 1 + 1 ELSE 0)
            /\ \A i \in 1..(2 - 1 + 1) : SubSeq(R, 1, 2)[i] = R[1 + i - 1]
        BY <3>1, SubSeqProperties
      <4> QED BY <4>1
    <3>3. /\ SubSeq(Q, 1, 2) \in Seq(S) /\ Len(SubSeq(Q, 1, 2)) = 2
          /\ \A i \in 1..2 : SubSeq(Q, 1, 2)[i] = Q[i]
      <4>1. /\ SubSeq(Q, 1, 2) \in Seq(S)
            /\ Len(SubSeq(Q, 1, 2)) = (IF 1 <= 2 THEN 2 - 1 + 1 ELSE 0)
            /\ \A i \in 1..(2 - 1 + 1) : SubSeq(Q, 1, 2)[i] = Q[1 + i - 1]
        BY <3>1, SubSeqProperties
      <4> QED BY <4>1
    <3> QED BY <2>2, <3>2, <3>3, SeqEqual
  <2> QED BY <1>5, <1>6, <2>1, <2>3 DEF IsPrefix
<1>8. ASSUME y = <<>> PROVE ~IsPrefix(R, Q)
  <2>1. n = 0 BY <1>8 DEF n
  <2> QED BY <1>5, <1>6, <2>1 DEF IsPrefix
<1> QED BY <1>7, <1>8 DEF IsSuffix, P, R, Q

-----------------------------------------------------------------------------
(* What becomes of the files with other names.                             *)

Leaves(d, e, names) == \A p \in names : e.dir[p] = d.dir[p] /\ File(e, p) = File(d, p)

(* A file that was not there has a new number; no other gets a name.       *)
Moves(d, e) == \A p \in Path : e.dir[p] = d.dir[p] \/ e.dir[p] = 0 \/ e.dir[p] > Len(d.data)

(* The files of the program stay where they are, once they are.            *)
Stays(d, e) == \A p \in Own : d.dir[p] # 0 => e.dir[p] = d.dir[p]

LEMMA OpeningLeaves ==
    ASSUME NEW d, DiskOK(d), NEW path \in Path, NEW e, e = OpenToAppend(d, path) \/ e = OpenToWrite(d, path)
    PROVE  /\ Leaves(d, e, Path \ {path}) /\ Moves(d, e) /\ Stays(d, e)
           /\ e.dir[path] # 0
<1> DEFINE m == Made(d, path)
<1>1. Keeps(d, m, Path) /\ m.dir[path] \in 1..Len(m.data) BY Making
<1>2. \A p \in Path \ {path} : m.dir[p] = d.dir[p] BY DEF Made, DiskOK
<1>3. m.dir[path] = d.dir[path] \/ (d.dir[path] = 0 /\ m.dir[path] > Len(d.data)) BY <1>1 DEF Keeps, Grows
<1>4. Keeps(d, e, Path \ {path})
  <2>1. CASE e = OpenToAppend(d, path) BY <1>1, <2>1 DEF OpenToAppend, Keeps, Grows
  <2>2. CASE e = OpenToWrite(d, path) BY <2>2, Emptying
  <2> QED BY <2>1, <2>2
<1>5. e.dir = m.dir
  <2>1. m = [dir |-> m.dir, data |-> m.data] BY <1>1 DEF Keeps, Grows, DiskOK
  <2> QED BY <2>1 DEF OpenToAppend, OpenToWrite
<1> HIDE DEF m
<1>6. Leaves(d, e, Path \ {path}) BY <1>2, <1>4, <1>5 DEF Leaves, Keeps
<1>7. Moves(d, e) BY <1>2, <1>3, <1>5 DEF Moves
<1>8. Stays(d, e)
  <2>1. Own \subseteq Path BY DEF Path
  <2> QED BY <1>2, <1>3, <1>5, <2>1 DEF Stays
<1>9. Len(m.data) \in Nat BY <1>1, DiskData DEF Keeps, Grows
<1>10. m.dir[path] # 0
  <2> DEFINE l == Len(m.data)
             f == m.dir[path]
  <2>1. l \in Nat /\ f \in 1..l BY <1>1, <1>9
  <2> HIDE DEF l, f
  <2>2. f # 0 BY <2>1, FileNumbers, Zenon
  <2> QED BY <2>2 DEF f
<1> QED BY <1>5, <1>6, <1>7, <1>8, <1>10

(* A step that leaves the names as they are, and what the files have.      *)
LEMMA NamesLeft ==
    ASSUME NEW d, NEW e, e.dir = d.dir, NEW names \in SUBSET Path,
           \A p \in names : File(e, p) = File(d, p)
    PROVE  Leaves(d, e, names) /\ Moves(d, e) /\ Stays(d, e)
BY DEF Leaves, Moves, Stays

(* Names of files that are saved are not those of the program.             *)
LEMMA NamesApart ==
    ASSUME NEW p \in Own
    PROVE  p \in Path /\ p \notin Name /\ Name \subseteq Path \ {p} /\ Name \in SUBSET Path
BY NamesAssumption DEF Path

(* Writing a file of the program.                                          *)
LEMMA OwnWritten ==
    ASSUME TypeInv, NEW s \in Session, NEW p \in Own, fp[s] # 0, fp[s] = disk.dir[p], NEW x,
           disk' = Appended(disk, fp[s], x) \/ disk' = Written(disk, fp[s], x)
    PROVE  Leaves(disk, disk', Name) /\ Moves(disk, disk') /\ Stays(disk, disk') /\ disk'.dir = disk.dir
<1>1. /\ disk'.dir = disk.dir
      /\ \A names \in SUBSET Path : (\A q \in names : disk.dir[q] # fp[s]) => Keeps(disk, disk', names)
  BY DiskWritten
<1>2. p \in Path /\ p \notin Name /\ Name \in SUBSET Path BY NamesApart
<1>3. \A q \in Name : disk.dir[q] # fp[s] BY <1>2 DEF TypeInv, DiskOK
<1>4. Keeps(disk, disk', Name) BY <1>1, <1>2, <1>3
<1> QED BY <1>1, <1>2, <1>4, NamesLeft DEF Keeps

Elsewhere(s) ==
    /\ Leaves(disk, disk', Name) /\ Moves(disk, disk') /\ Stays(disk, disk')
    /\ Writing(s)' => fp'[s] = disk'.dir["bookmarks"]
    /\ UNCHANGED <<easies, saved, shared>>
    /\ ~AtTransfers(s)'

LEMMA OwnOpened ==
    ASSUME TypeInv, NEW s \in Session, NEW p \in Own, NEW d, d = OpenToAppend(disk, p) \/ d = OpenToWrite(disk, p),
           Opens(s, p, d)
    PROVE  /\ Leaves(disk, disk', Name) /\ Moves(disk, disk') /\ Stays(disk, disk')
           /\ fp'[s] = disk'.dir[p]
<1>1. disk' = d /\ fp'[s] = disk'.dir[p] BY DEF Opens, TypeInv, Scalars
<1>2. p \in Path /\ Name \subseteq Path \ {p} BY NamesApart
<1>3. Leaves(disk, disk', Path \ {p}) /\ Moves(disk, disk') /\ Stays(disk, disk')
  BY <1>1, <1>2, OpeningLeaves DEF TypeInv
<1> QED BY <1>1, <1>2, <1>3 DEF Leaves

LEMMA BookmarksElsewhere ==
    ASSUME TypeInv, NEW s \in Session, Apart(s), Writing(s) => fp[s] = disk.dir["bookmarks"], Bookmarking(s)
    PROVE  Elsewhere(s)
<1>0. "bookmarks" \in Own /\ Name \in SUBSET Path BY NamesApart DEF Own
<1> USE DEF TypeInv, Scalars, Goes, AtTransfers, Writing, ghosts
<1>1. disk' = disk => Leaves(disk, disk', Name) /\ Moves(disk, disk') /\ Stays(disk, disk')
  BY <1>0, NamesLeft
<1>2. CASE /\ UNCHANGED <<disk, easies, saved, shared>>
           /\ at'[s] \in {"resolve", "create", "read", "save", "idle", "dead"}
  BY <1>1, <1>2 DEF Elsewhere
<1>3. CASE /\ Opens(s, "bookmarks", OpenToWrite(disk, "bookmarks")) /\ at'[s] \in {"fill", "write"}
           /\ UNCHANGED <<easies, saved, shared>>
  <2>1. /\ Leaves(disk, disk', Name) /\ Moves(disk, disk') /\ Stays(disk, disk')
        /\ fp'[s] = disk'.dir["bookmarks"]
    BY <1>0, <1>3, OwnOpened
  <2> QED BY <1>3, <2>1 DEF Elsewhere
<1>4. CASE /\ Writing(s) /\ (\E n : Reaches(s, n)) /\ at'[s] \in {"read", "idle", "dead"}
           /\ UNCHANGED <<easies, saved, shared>>
  <2>1. PICK n : Reaches(s, n) BY <1>4
  <2> DEFINE x == SubSeq(out[s], 1, n)
  <2>2. disk' = Written(disk, fp[s], x) BY <2>1 DEF Reaches
  <2> HIDE DEF x
  <2>3. fp[s] # 0 BY <1>4 DEF Apart
  <2>4. Leaves(disk, disk', Name) /\ Moves(disk, disk') /\ Stays(disk, disk')
    BY <1>0, <1>4, <2>2, <2>3, OwnWritten
  <2> QED BY <1>4, <2>4 DEF Elsewhere
<1>5. CASE bookmark_add_to_section(s) BY <1>2, <1>5 DEF bookmark_add_to_section
<1>6. CASE resolve_bookmarks_file(s) BY <1>2, <1>6 DEF resolve_bookmarks_file
<1>7. CASE CreateBookmarks(s) BY <1>3, <1>7 DEF CreateBookmarks
<1>8. CASE FillBookmarks(s) BY <1>4, <1>8 DEF FillBookmarks
<1>9. CASE get_bookmarks_doc(s) BY <1>2, <1>9 DEF get_bookmarks_doc
<1>10. CASE BookmarkFails(s) BY <1>2, <1>10 DEF BookmarkFails, CommandOver
<1>11. CASE bookmarks_save_to_disc(s) BY <1>3, <1>11 DEF bookmarks_save_to_disc
<1>12. CASE BookmarkAdded(s) BY <1>4, <1>12 DEF BookmarkAdded, CommandOver
<1>13. CASE \E n \in 0..Len(out[s]) : BookmarkTorn(s, n) BY <1>4, <1>13 DEF BookmarkTorn, CommandOver
<1> QED BY <1>5, <1>6, <1>7, <1>8, <1>9, <1>10, <1>11, <1>12, <1>13 DEF Bookmarking

LEMMA ClosingElsewhere ==
    ASSUME TypeInv, NEW s \in Session, Apart(s), Closing(s) \/ Killed(s)
    PROVE  Elsewhere(s)
<1>0. "inputs" \in Own /\ "fetches" \in Own /\ Name \in SUBSET Path
  <2>1. "inputs" \in Own /\ "fetches" \in Own BY DEF Own
  <2> QED BY <2>1, NamesApart
<1> USE DEF TypeInv, Scalars, Goes, AtTransfers, Writing, ghosts
<1>1. disk' = disk => Leaves(disk, disk', Name) /\ Moves(disk, disk') /\ Stays(disk, disk')
  BY <1>0, NamesLeft
<1> DEFINE Ends3 == {"inputs", "enter inputs", "fetches", "header", "append", "enter fetches", "over", "dead"}
<1>2. CASE UNCHANGED <<disk, easies, saved, shared>> /\ at'[s] \in Ends3
  BY <1>1, <1>2 DEF Elsewhere
<1>3. CASE /\ at'[s] \in Ends3 /\ UNCHANGED <<easies, saved, shared>>
           /\ \E p \in Own : Opens(s, p, OpenToAppend(disk, p)) \/ Opens(s, p, OpenToWrite(disk, p))
  <2>1. PICK p \in Own : Opens(s, p, OpenToAppend(disk, p)) \/ Opens(s, p, OpenToWrite(disk, p)) BY <1>3
  <2>2. Leaves(disk, disk', Name) /\ Moves(disk, disk') /\ Stays(disk, disk') BY <2>1, OwnOpened
  <2> QED BY <1>3, <2>2 DEF Elsewhere
<1>4. CASE /\ at'[s] \in Ends3 /\ UNCHANGED <<easies, saved, shared>>
           /\ at[s] \in {"header", "enter inputs", "enter fetches"}
           /\ \E x : disk' \in {disk, Written(disk, fp[s], x), Appended(disk, fp[s], x)}
  <2>1. PICK x : disk' \in {disk, Written(disk, fp[s], x), Appended(disk, fp[s], x)} BY <1>4
  <2>2. fp[s] # 0 /\ (fp[s] = disk.dir["inputs"] \/ fp[s] = disk.dir["fetches"]) BY <1>4 DEF Apart
  <2>3. Leaves(disk, disk', Name) /\ Moves(disk, disk') /\ Stays(disk, disk')
    BY <1>0, <1>1, <2>1, <2>2, OwnWritten
  <2> QED BY <1>4, <2>3 DEF Elsewhere
<1>5. CASE session_close(s) BY <1>2, <1>5 DEF session_close
<1>6. CASE session_write_input_history(s)
  BY <1>0, <1>2, <1>3, <1>6 DEF session_write_input_history, OpenHistory
<1>7. CASE EnterInputs(s)
  BY <1>2, <1>4, <1>7 DEF EnterInputs, Enter
<1>8. CASE FetchHistory(s) BY <1>0, <1>2, <1>3, <1>8 DEF FetchHistory
<1>9. CASE WriteHeader(s) BY <1>4, <1>9 DEF WriteHeader
<1>10. CASE AppendFetches(s) BY <1>0, <1>2, <1>3, <1>10 DEF AppendFetches, OpenHistory
<1>11. CASE EnterFetches(s) BY <1>2, <1>4, <1>11 DEF EnterFetches, Enter
<1>12. CASE Killed(s) BY <1>2, <1>12 DEF Killed
<1> QED BY <1>5, <1>6, <1>7, <1>8, <1>9, <1>10, <1>11, <1>12 DEF Closing

-----------------------------------------------------------------------------
(* Transfers whose files a step leaves.                                    *)

LEMMA KeptStays ==
    ASSUME TypeInv, NEW t \in Session, NEW j \in DOMAIN easies[t], Kept(t, j),
           NEW k, easies'[t][k] = easies[t][j], Gone(t, k)' = Gone(t, j),
           Leaves(disk, disk', {easies[t][j].path}), Moves(disk, disk')
    PROVE  Kept(t, k)'
<1> DEFINE e == easies[t][j]
<1>1. e.fp \in 1..Len(disk.data) /\ Len(disk.data) \in Nat BY DiskData DEF TypeInv, Transfers, TransferOK
<1>2. \A p \in Path : disk'.dir[p] = e.fp => disk.dir[p] = e.fp BY <1>1 DEF Moves
<1>3. disk'.dir[e.path] = disk.dir[e.path] /\ File(disk', e.path) = File(disk, e.path) BY DEF Leaves
<1>4. Sent(e, disk) => Sent(e, disk') BY <1>3 DEF Sent
<1> QED BY <1>2, <1>3, <1>4 DEF Kept

(* What is left to show of a step of a session: the files of others, that  *)
(* its own are as they should, and that no two have one.                   *)
LEMMA FiledStep ==
    ASSUME TypeInv, Filed, NEW s \in Session, \A t \in Session : Apart(t), Only(s),
           Moves(disk, disk'), Stays(disk, disk'),
           \A p \in Name : IsList(File(disk', p)),
           Writing(s)' => fp'[s] = disk'.dir["bookmarks"],
           \A t \in Session \ {s} : AtTransfers(t) =>
               \A j \in DOMAIN easies[t] : Leaves(disk, disk', {easies[t][j].path}),
           AtTransfers(s)' => Counted(s)' /\ \A i \in DOMAIN easies'[s] : Kept(s, i)',
           Alone'
    PROVE  Filed'
<1>1. ASSUME NEW t \in Session, t # s
      PROVE  at'[t] = at[t] /\ fp'[t] = fp[t] /\ easies'[t] = easies[t] /\ saved'[t] = saved[t]
  BY <1>1 DEF Only, TypeInv, Scalars
<1>2. ASSUME NEW t \in Session, Writing(t)' PROVE fp'[t] = disk'.dir["bookmarks"]
  <2>1. CASE t = s BY <1>2, <2>1
  <2>2. CASE t # s
    <3>1. Writing(t) /\ fp'[t] = fp[t] BY <1>1, <1>2, <2>2 DEF Writing
    <3>2. fp[t] = disk.dir["bookmarks"] /\ fp[t] # 0 BY <3>1 DEF Filed, Apart
    <3>3. "bookmarks" \in Own BY DEF Own
    <3> QED BY <3>1, <3>2, <3>3 DEF Stays
  <2> QED BY <2>1, <2>2
<1>3. ASSUME NEW t \in Session, AtTransfers(t)' PROVE Counted(t)' /\ \A j \in DOMAIN easies'[t] : Kept(t, j)'
  <2>1. CASE t = s BY <1>3, <2>1
  <2>2. CASE t # s
    <3>1. AtTransfers(t) /\ DOMAIN easies'[t] = DOMAIN easies[t] BY <1>1, <1>3, <2>2 DEF AtTransfers
    <3>2. Counted(t)' BY <1>1, <2>2, <3>1 DEF Filed, Counted, In
    <3>3. ASSUME NEW j \in DOMAIN easies[t] PROVE Kept(t, j)'
      <4>1. Gone(t, j)' = Gone(t, j) BY <1>1, <2>2 DEF Gone
      <4>2. Kept(t, j) BY <3>1 DEF Filed
      <4>3. Leaves(disk, disk', {easies[t][j].path}) BY <2>2, <3>1
      <4>4. easies'[t][j] = easies[t][j] BY <1>1, <2>2
      <4> QED BY <4>1, <4>2, <4>3, <4>4, KeptStays
    <3> QED BY <3>1, <3>2, <3>3
  <2> QED BY <2>1, <2>2
<1> QED BY <1>2, <1>3 DEF Filed

LEMMA AloneStays ==
    ASSUME TypeInv, Alone, NEW s \in Session, Only(s),
           AtTransfers(s)' =>
               \A i \in DOMAIN easies'[s] :
                   /\ AtTransfers(s) /\ i \in DOMAIN easies[s]
                   /\ easies'[s][i].path = easies[s][i].path /\ easies'[s][i].fp = easies[s][i].fp
    PROVE  Alone'
<1>1. ASSUME NEW t \in Session, AtTransfers(t)', NEW j \in DOMAIN easies'[t]
      PROVE  /\ AtTransfers(t) /\ j \in DOMAIN easies[t]
             /\ easies'[t][j].path = easies[t][j].path /\ easies'[t][j].fp = easies[t][j].fp
  <2>1. CASE t = s BY <1>1, <2>1
  <2>2. CASE t # s
    <3>1. at'[t] = at[t] /\ easies'[t] = easies[t] BY <2>2 DEF Only, TypeInv, Scalars
    <3> QED BY <1>1, <3>1 DEF AtTransfers
  <2> QED BY <2>1, <2>2
<1> QED BY <1>1 DEF Alone

(* A step that is about no transfer.                                       *)
LEMMA ElsewhereFiled ==
    ASSUME TypeInv, Filed, NEW s \in Session, \A t \in Session : Apart(t), Only(s), Elsewhere(s)
    PROVE  Filed'
<1>1. \A p \in Name : IsList(File(disk', p)) BY DEF Filed, Elsewhere, Leaves
<1>2. ASSUME NEW t \in Session, NEW j \in DOMAIN easies[t] PROVE Leaves(disk, disk', {easies[t][j].path})
  <2>1. easies[t][j].path \in Name BY DEF TypeInv, Transfers, TransferOK
  <2> QED BY <2>1 DEF Elsewhere, Leaves
<1>3. Alone'
  <2>1. ~AtTransfers(s)' BY DEF Elsewhere
  <2> QED BY <2>1, AloneStays DEF Filed
<1> QED BY <1>1, <1>2, <1>3, FiledStep DEF Elsewhere

(* A step of a download that leaves the files.                             *)
LEMMA InPlaceFiled ==
    ASSUME TypeInv, Filed, NEW s \in Session, \A t \in Session : Apart(t), Only(s),
           disk' = disk, ~Writing(s)', Alone',
           AtTransfers(s)' => Counted(s)' /\ \A i \in DOMAIN easies'[s] : Kept(s, i)'
    PROVE  Filed'
<1>1. \A names \in SUBSET Path : Leaves(disk, disk', names) /\ Moves(disk, disk') /\ Stays(disk, disk')
  BY NamesLeft
<1>2. ASSUME NEW t \in Session, NEW j \in DOMAIN easies[t] PROVE Leaves(disk, disk', {easies[t][j].path})
  <2>1. easies[t][j].path \in Path BY DEF TypeInv, Transfers, TransferOK, Path
  <2> QED BY <1>1, <2>1
<1>3. Moves(disk, disk') /\ Stays(disk, disk')
  <2>1. {} \in SUBSET Path OBVIOUS
  <2> QED BY <1>1, <2>1
<1>4. \A p \in Name : IsList(File(disk', p)) BY DEF Filed
<1> QED BY <1>2, <1>3, <1>4, FiledStep

(* Between the steps of a download.                                        *)
LEMMA GoingFiled ==
    ASSUME TypeInv, Filed, NEW s \in Session, \A t \in Session : Apart(t),
           cmd_anchor_save_range(s) \/ OpenFails(s) \/ AllAdded(s)
           \/ \E canceled \in BOOLEAN : PerformEnds(s, canceled)
    PROVE  Filed'
<1>1. Only(s) BY OnlyDownloading DEF Downloading, TypeInv
<1>2. CASE cmd_anchor_save_range(s)
  <2>1. disk' = disk /\ at'[s] = "open" /\ easies'[s] = <<>>
    BY <1>2 DEF cmd_anchor_save_range, Goes, TypeInv, Scalars
  <2>2. DOMAIN easies'[s] = {} BY <2>1
  <2>3. Alone' BY <1>1, <2>2, AloneStays DEF Filed
  <2>4. Counted(s)' /\ ~Writing(s)' BY <2>1 DEF Counted, Writing
  <2> QED BY <1>1, <2>1, <2>2, <2>3, <2>4, InPlaceFiled
<1>3. CASE OpenFails(s) \/ AllAdded(s) \/ \E canceled \in BOOLEAN : PerformEnds(s, canceled)
  <2>1. /\ disk' = disk /\ at[s] \in {"open", "perform"} /\ at'[s] \in {"open", "perform", "report"}
        /\ easies' = easies
    BY <1>3 DEF OpenFails, AllAdded, PerformEnds, Goes, TypeInv, Scalars
  <2>2. AtTransfers(s) /\ ~Writing(s)' /\ Counted(s)' BY <2>1 DEF AtTransfers, Writing, Counted
  <2>3. Alone' BY <1>1, <2>1, <2>2, AloneStays DEF Filed
  <2>4. ASSUME NEW i \in DOMAIN easies[s] PROVE Kept(s, i)'
    <3>1. Gone(s, i)' = Gone(s, i) BY <2>1 DEF Gone
    <3>2. easies[s][i].path \in Path BY DEF TypeInv, Transfers, TransferOK, Path
    <3>3. Leaves(disk, disk', {easies[s][i].path}) /\ Moves(disk, disk') BY <2>1, <3>2, NamesLeft
    <3>4. Kept(s, i) /\ easies'[s][i] = easies[s][i] BY <2>1, <2>2 DEF Filed
    <3> QED BY <3>1, <3>3, <3>4, KeptStays
  <2> QED BY <1>1, <2>1, <2>2, <2>3, <2>4, InPlaceFiled
<1> QED BY <1>2, <1>3

(* A transfer that changes, and keeps its file.                            *)
LEMMA ChangedFiled ==
    ASSUME TypeInv, Filed, NEW s \in Session, \A t \in Session : Apart(t), Only(s),
           at[s] = "perform", at'[s] = "perform",
           NEW i \in DOMAIN easies[s], NEW e, easies'[s] = [easies[s] EXCEPT ![i] = e],
           e.path = easies[s][i].path, e.fp = easies[s][i].fp,
           e.state = "done" => e.got = 2,
           disk'.dir = disk.dir, Leaves(disk, disk', Path \ {e.path}),
           Sent(e, disk'), IsList(File(disk', e.path))
    PROVE  Filed'
<1>1. AtTransfers(s) /\ ~Writing(s)' /\ Counted(s)' BY DEF AtTransfers, Writing, Counted
<1>2. DOMAIN easies'[s] = DOMAIN easies[s] OBVIOUS
<1>3. \A k \in DOMAIN easies[s] : k # i => easies'[s][k] = easies[s][k] OBVIOUS
<1>4. easies'[s][i] = e OBVIOUS
<1>5. Moves(disk, disk') /\ Stays(disk, disk') BY DEF Moves, Stays
<1>6. \A p \in Name : IsList(File(disk', p))
  <2>1. Name \subseteq Path BY DEF Path
  <2> QED BY <2>1 DEF Filed, Leaves
<1>7. ASSUME NEW t \in Session, AtTransfers(t), NEW j \in DOMAIN easies[t], t # s \/ j # i
      PROVE  Leaves(disk, disk', {easies[t][j].path})
  <2>1. easies[t][j].path \in Path BY DEF TypeInv, Transfers, TransferOK, Path
  <2>2. easies[t][j].path # e.path BY <1>1, <1>7 DEF Filed, Alone
  <2> QED BY <2>1, <2>2 DEF Leaves
<1>8. ASSUME NEW k \in DOMAIN easies[s] PROVE Kept(s, k)'
  <2>1. Kept(s, k) BY <1>1 DEF Filed
  <2>2. CASE k # i
    <3>1. Gone(s, k)' = Gone(s, k) BY DEF Gone
    <3> QED BY <1>1, <1>3, <1>5, <1>7, <2>1, <2>2, <3>1, KeptStays
  <2>3. CASE k = i
    <3>1. ~Gone(s, i) /\ ~Gone(s, i)' BY DEF Gone
    <3>2. /\ \A p \in Path : disk.dir[p] = e.fp => p = e.path
          /\ disk.dir[e.path] = e.fp
      BY <2>1, <2>3, <3>1 DEF Kept
    <3> QED BY <1>4, <2>3, <3>1, <3>2 DEF Kept
  <2> QED BY <2>2, <2>3
<1>9. Alone'
  <2>1. \A k \in DOMAIN easies[s] : easies'[s][k].path = easies[s][k].path /\ easies'[s][k].fp = easies[s][k].fp
    BY <1>3, <1>4
  <2> QED BY <1>1, <1>2, <2>1, AloneStays DEF Filed
<1>10. \A t \in Session \ {s} : AtTransfers(t) =>
           \A j \in DOMAIN easies[t] : Leaves(disk, disk', {easies[t][j].path})
  BY <1>7
<1> QED BY <1>1, <1>2, <1>5, <1>6, <1>8, <1>9, <1>10, FiledStep

LEMMA FailsFiled ==
    ASSUME TypeInv, Filed, NEW s \in Session, \A t \in Session : Apart(t),
           NEW i \in DOMAIN easies[s], TransferFails(s, i)
    PROVE  Filed'
<1> DEFINE e == easies[s][i]
           new == [e EXCEPT !.state = "failed"]
<1>1. Only(s) BY OnlyDownloading DEF Downloading, TypeInv
<1>2. /\ disk' = disk /\ at[s] = "perform" /\ at'[s] = "perform"
      /\ easies'[s] = [easies[s] EXCEPT ![i] = new]
  BY DEF TransferFails, TypeInv, Scalars
<1>3. TransferOK(e, disk) BY DEF TypeInv, Transfers
<1>4. new.path = e.path /\ new.fp = e.fp /\ new.url = e.url /\ new.got = e.got /\ new.buf = e.buf
      /\ new.state = "failed" /\ e.path \in Name
  BY <1>3 DEF TransferOK
<1>5. Sent(e, disk)
  <2>1. AtTransfers(s) /\ ~Gone(s, i) BY <1>2 DEF AtTransfers, Gone
  <2> QED BY <2>1 DEF Filed, Kept
<1> HIDE DEF new
<1>6. Sent(new, disk') BY <1>2, <1>4, <1>5 DEF Sent
<1>7. Leaves(disk, disk', Path \ {new.path}) BY <1>2, NamesLeft
<1>8. IsList(File(disk', new.path)) BY <1>2, <1>4 DEF Filed
<1> QED BY <1>1, <1>2, <1>4, <1>6, <1>7, <1>8, ChangedFiled

LEMMA ArrivesFiled ==
    ASSUME TypeInv, Filed, NEW s \in Session, \A t \in Session : Apart(t),
           NEW i \in DOMAIN easies[s], NEW full, Arrives(s, i, full)
    PROVE  Filed'
<1> DEFINE e == easies[s][i]
           part == Parts(e.url)[e.got + 1]
           text == Append(e.buf, part)
           ino == e.fp
           F == File(disk, e.path)
           x == disk.data[ino] \o text
           y == F \o e.buf
           rest == IF full THEN <<>> ELSE text
           end == IF e.got + 1 = 2 THEN "done" ELSE e.state
           new == [e EXCEPT !.got = e.got + 1, !.buf = rest, !.state = end]
<1>1. /\ at[s] = "perform" /\ at'[s] = "perform" /\ e.state = "running"
      /\ disk' = IF full THEN Appended(disk, ino, text) ELSE disk
      /\ easies' = [easies EXCEPT ![s] = [easies[s] EXCEPT ![i] = new]]
  BY DEF Arrives, In
<1>2. TransferOK(e, disk) BY DEF TypeInv, Transfers
<1>3. Only(s) BY OnlyDownloading DEF Downloading, TypeInv, Arrives, In
<1>4. /\ \A p \in Path : disk.dir[p] = ino => p = e.path
      /\ disk.dir[e.path] = ino /\ Sent(e, disk)
  <2>1. AtTransfers(s) /\ ~Gone(s, i) BY <1>1 DEF AtTransfers, Gone
  <2> QED BY <2>1 DEF Filed, Kept
<1>5. e.got \in 0..1 /\ e.path \in Name /\ e.path \in Path /\ ino \in 1..Len(disk.data)
  BY <1>1, <1>2 DEF TransferOK, Path
<1>6. /\ new.path = e.path /\ new.fp = ino /\ new.url = e.url /\ new.got = e.got + 1 /\ new.buf = rest
      /\ new.state = end
  <2> DEFINE g == e.got + 1
             e1 == [e EXCEPT !.got = g]
             e2 == [e1 EXCEPT !.buf = rest]
  <2>0. e = [url |-> e.url, path |-> e.path, fp |-> e.fp, got |-> e.got, buf |-> e.buf, state |-> e.state]
    BY <1>2 DEF TransferOK
  <2> HIDE DEF e, end, g, rest
  <2>1. e1 = [url |-> e.url, path |-> e.path, fp |-> e.fp, got |-> g, buf |-> e.buf, state |-> e.state]
    BY <2>0
  <2>2. e2 = [url |-> e.url, path |-> e.path, fp |-> e.fp, got |-> g, buf |-> rest, state |-> e.state]
    <3> HIDE DEF e1
    <3> QED BY <2>1
  <2>3. new = [e2 EXCEPT !.state = end] BY DEF g
  <2> HIDE DEF e2, new
  <2> QED BY <2>2, <2>3 DEF g
<1>7. end = "done" => new.got = 2 BY <1>1, <1>5, <1>6
<1>8. IsList(e.buf) /\ IsList(F) /\ Ends(SubSeq(Parts(e.url), 1, e.got), y)
  <2>1. IsList(F) BY <1>5 DEF Filed
  <2>2. IsList(e.buf) /\ Ends(SubSeq(Parts(e.url), 1, e.got), y) BY <1>4 DEF Sent
  <2> QED BY <2>1, <2>2
<1>9. F = disk.data[ino]
  <2>1. disk.dir[e.path] # 0 BY <1>4, <1>5
  <2> QED BY <1>4, <2>1 DEF File, Exists
<1>10. easies'[s] = [easies[s] EXCEPT ![i] = new] BY <1>1 DEF TypeInv, Scalars
<1> HIDE DEF new, end, F, ino
<1>11. IsList(y) /\ F \o text = Append(y, part)
  <2> DEFINE b == e.buf
  <2>1. IsList(b) /\ IsList(F) BY <1>8
  <2> HIDE DEF b, part
  <2>2. IsList(F \o b) /\ F \o Append(b, part) = Append(F \o b, part) BY <2>1, ListsJoined
  <2> QED BY <2>2 DEF b
<1>12. IsList(text) /\ IsList(Append(y, part)) /\ IsList(e.buf) BY <1>8, <1>11, ListLonger
<1>13. Ends(SubSeq(Parts(e.url), 1, e.got + 1), Append(y, part)) BY <1>5, <1>8, <1>11, SentNext
<1> HIDE DEF y, text, part
<1>14. CASE full
  <2>1. disk' = Rewritten(disk, ino, x) BY <1>1, <1>14 DEF Appended, Rewritten
  <2> HIDE DEF x
  <2>2. /\ disk'.dir = disk.dir /\ disk'.data[ino] = x
        /\ \A names \in SUBSET Path : (\A p \in names : disk.dir[p] # ino) => Keeps(disk, disk', names)
    BY <1>5, <2>1, Rewriting DEF TypeInv
  <2>3. Leaves(disk, disk', Path \ {new.path})
    <3>1. \A p \in Path \ {e.path} : disk.dir[p] # ino BY <1>4
    <3>2. Keeps(disk, disk', Path \ {e.path}) BY <2>2, <3>1
    <3> QED BY <1>6, <2>2, <3>2 DEF Keeps, Leaves
  <2>4. File(disk', e.path) = Append(y, part)
    <3>1. disk'.dir[e.path] = ino /\ ino # 0 BY <1>4, <1>5, <2>2
    <3> QED BY <1>9, <1>11, <2>2, <3>1 DEF File, Exists, x
  <2>5. rest = <<>> /\ IsList(rest)
    <3>1. <<>> \in Seq({}) BY EmptySeq
    <3> QED BY <1>14, <3>1, ListOf
  <2> HIDE DEF rest
  <2>6. Append(y, part) \o rest = Append(y, part) BY <1>12, <2>5, ListsJoined
  <2>7. Sent(new, disk') BY <1>6, <1>13, <2>4, <2>5, <2>6 DEF Sent
  <2>8. IsList(File(disk', new.path)) BY <1>6, <1>12, <2>4
  <2>9. new.state = "done" => new.got = 2 BY <1>6, <1>7
  <2> QED BY <1>1, <1>3, <1>6, <1>10, <2>2, <2>3, <2>7, <2>8, <2>9, ChangedFiled DEF ino
<1>15. CASE ~full
  <2>1. disk' = disk /\ rest = text BY <1>1, <1>15
  <2> HIDE DEF rest
  <2>2. Leaves(disk, disk', Path \ {new.path}) BY <2>1, NamesLeft
  <2>3. Sent(new, disk') BY <1>6, <1>11, <1>12, <1>13, <2>1 DEF Sent, F
  <2>4. IsList(File(disk', new.path)) BY <1>6, <1>8, <2>1 DEF F
  <2>5. new.state = "done" => new.got = 2 BY <1>6, <1>7
  <2> QED BY <1>1, <1>3, <1>6, <1>10, <2>1, <2>2, <2>3, <2>4, <2>5, ChangedFiled DEF ino
<1> QED BY <1>14, <1>15

(* The files of the transfers that failed are removed.                     *)
LEMMA ReportFiled ==
    ASSUME TypeInv, Filed, NEW s \in Session, \A t \in Session : Apart(t), Report(s)
    PROVE  Filed'
<1> DEFINE paths == {easies[s][i].path : i \in In(s, "failed")}
<1>1. /\ at[s] = "report" /\ at'[s] = "close" /\ disk' = Removed(disk, paths)
      /\ saved'[s] = Len(easies[s]) - Cardinality(In(s, "failed"))
      /\ UNCHANGED easies
  BY DEF Report, Goes, TypeInv, Scalars
<1>2. Only(s) BY OnlyDownloading DEF Downloading, TypeInv
<1>3. AtTransfers(s) /\ ~Writing(s)' BY <1>1 DEF AtTransfers, Writing
<1>4. Counted(s)' BY <1>1 DEF Counted, In
<1>5. paths \in SUBSET Name BY DEF TypeInv, Transfers, TransferOK, In
<1>6. /\ disk'.dir = [p \in Path |-> IF p \in paths THEN 0 ELSE disk.dir[p]]
      /\ disk'.data = disk.data
  <2> HIDE DEF paths
  <2>1. disk = [dir |-> disk.dir, data |-> disk.data] /\ DOMAIN disk.dir = Path BY DEF TypeInv, DiskOK
  <2> QED BY <1>1, <2>1 DEF Removed
<1> HIDE DEF paths
<1>7. Moves(disk, disk') BY <1>6 DEF Moves
<1>8. Stays(disk, disk')
  <2>1. \A p \in Own : p \in Path /\ p \notin paths BY <1>5, NamesApart
  <2> QED BY <1>6, <2>1 DEF Stays
<1>9. Leaves(disk, disk', Path \ paths) BY <1>6 DEF Leaves, File, Exists
<1>10. \A p \in Name : IsList(File(disk', p))
  <2>1. ASSUME NEW p \in Name PROVE IsList(File(disk', p))
    <3>1. p \in Path BY DEF Path
    <3>2. CASE p \in paths
      <4>1. File(disk', p) = <<>> BY <1>6, <3>1, <3>2 DEF File, Exists
      <4>2. <<>> \in Seq({}) BY EmptySeq
      <4> QED BY <4>1, <4>2, ListOf
    <3>3. CASE p \notin paths BY <1>9, <3>1, <3>3 DEF Leaves, Filed
    <3> QED BY <3>2, <3>3
  <2> QED BY <2>1
<1>11. ASSUME NEW t \in Session, AtTransfers(t), NEW j \in DOMAIN easies[t], t # s \/ j \notin In(s, "failed")
       PROVE  Leaves(disk, disk', {easies[t][j].path})
  <2>1. easies[t][j].path \in Path BY DEF TypeInv, Transfers, TransferOK, Path
  <2>2. easies[t][j].path \notin paths
    <3>1. \A i \in In(s, "failed") : easies[t][j].path # easies[s][i].path
      BY <1>3, <1>11 DEF Filed, Alone, In
    <3> QED BY <3>1 DEF paths
  <2> QED BY <1>9, <2>1, <2>2 DEF Leaves
<1>12. ASSUME NEW k \in DOMAIN easies[s] PROVE Kept(s, k)'
  <2>1. Kept(s, k) /\ ~Gone(s, k) /\ easies'[s][k] = easies[s][k] BY <1>1, <1>3 DEF Filed, Gone
  <2>2. CASE k \notin In(s, "failed")
    <3>1. Gone(s, k)' = Gone(s, k) BY <1>1, <2>1, <2>2 DEF Gone, In
    <3> QED BY <1>3, <1>7, <1>11, <2>1, <2>2, <3>1, KeptStays
  <2>3. CASE k \in In(s, "failed")
    <3> DEFINE e == easies[s][k]
    <3>1. Gone(s, k)' BY <1>1, <2>3 DEF Gone, In
    <3>2. e.path \in Path /\ e.path \in paths BY <2>3 DEF paths, TypeInv, Transfers, TransferOK, Path
    <3>3. disk'.dir[e.path] = 0 BY <1>6, <3>2
    <3>4. e.fp \in 1..Len(disk.data) /\ Len(disk.data) \in Nat
      BY DiskData DEF TypeInv, Transfers, TransferOK
    <3>5. \A p \in Path : disk'.dir[p] = e.fp => disk.dir[p] = e.fp BY <1>6, <3>4
    <3>6. /\ \A p \in Path : disk.dir[p] = e.fp => p = e.path
          /\ e.state = "done" => e.got = 2
      BY <2>1 DEF Kept
    <3> QED BY <2>1, <3>1, <3>3, <3>5, <3>6 DEF Kept
  <2> QED BY <2>2, <2>3
<1>13. Alone' BY <1>1, <1>2, <1>3, AloneStays DEF Filed
<1>14. \A t \in Session \ {s} : AtTransfers(t) =>
           \A j \in DOMAIN easies[t] : Leaves(disk, disk', {easies[t][j].path})
  BY <1>11
<1> QED BY <1>1, <1>2, <1>3, <1>4, <1>7, <1>8, <1>10, <1>12, <1>13, <1>14, FiledStep

(* A file is opened that no transfer has.                                  *)
LEMMA RequestFiled ==
    ASSUME TypeInv, Filed, NEW s \in Session, \A t \in Session : Apart(t), request_to_handle(s), ~shared'
    PROVE  Filed'
<1> DEFINE u == Head(Job(s).urls)
           path == Actual(s, u)
           d == OpenToAppend(disk, path)
           ino == d.dir[path]
           none == <<>>
           new == Transfer(u, path, ino)
<1>1. /\ at[s] = "open" /\ at'[s] = "open" /\ Job(s).urls # <<>> /\ disk' = d
      /\ easies' = [easies EXCEPT ![s] = Append(easies[s], new)]
      /\ ~BeingSaved(path)
  BY DEF request_to_handle
<1>2. Only(s) BY OnlyDownloading DEF Downloading, TypeInv
<1>3. AtTransfers(s) /\ ~Writing(s)' /\ Counted(s)' BY <1>1 DEF AtTransfers, Writing, Counted
<1>4. path \in Name /\ path \in Path BY <1>1, SavingJob DEF Path
<1>5. Leaves(disk, disk', Path \ {path}) /\ Moves(disk, disk') /\ Stays(disk, disk') /\ ino # 0
  BY <1>1, <1>4, OpeningLeaves DEF TypeInv
<1>6. Keeps(disk, disk', Path) /\ ino = disk'.dir[path]
  BY <1>1, <1>4, Making DEF TypeInv, OpenToAppend
<1>7. easies'[s] = Append(easies[s], new) BY <1>1 DEF TypeInv, Scalars
<1>8. /\ new.path = path /\ new.fp = ino /\ new.url = u /\ new.got = 0 /\ new.buf = none
      /\ new.state = "running"
  BY DEF Transfer
<1>9. PICK n \in Nat : Len(easies[s]) = n /\ DOMAIN easies[s] = 1..n /\ IsList(easies[s])
  BY LenProperties DEF TypeInv, Transfers, IsList
<1>10. \A t \in Session : AtTransfers(t) => \A j \in DOMAIN easies[t] : easies[t][j].path # path
  BY <1>1 DEF BeingSaved
<1> HIDE DEF path, new, ino, u, none
<1>11. /\ IsList(easies'[s]) /\ Len(easies'[s]) = n + 1
       /\ \A i \in 1..n : easies'[s][i] = easies[s][i]
       /\ easies'[s][n + 1] = new
  BY <1>7, <1>9, ListLonger
<1>12. DOMAIN easies'[s] = 1..(n + 1) BY <1>11, LenProperties DEF IsList
<1>13. \A p \in Name : IsList(File(disk', p)) BY <1>6 DEF Filed, Keeps, Path
<1>14. ASSUME NEW t \in Session, AtTransfers(t), NEW j \in DOMAIN easies[t]
       PROVE  Leaves(disk, disk', {easies[t][j].path}) /\ easies[t][j].fp # ino
  <2>1. easies[t][j].path \in Path /\ easies[t][j].fp \in 1..Len(disk.data)
    BY <1>14 DEF TypeInv, Transfers, TransferOK, Path
  <2>2. easies[t][j].path # path BY <1>10, <1>14
  <2>3. disk.dir[path] # easies[t][j].fp BY <1>4, <1>14, <2>2 DEF Filed, Kept
  <2>4. Len(disk.data) \in Nat BY DiskData DEF TypeInv
  <2>5. ino = disk.dir[path] \/ ino = 0 \/ ino > Len(disk.data) BY <1>4, <1>5, <1>6 DEF Moves
  <2>6. ino > Len(disk.data) => easies[t][j].fp # ino BY <2>1, <2>4
  <2>7. easies[t][j].fp # ino BY <1>5, <2>3, <2>5, <2>6
  <2> QED BY <1>5, <2>1, <2>2, <2>7 DEF Leaves
<1>15. Kept(s, n + 1)'
  <2>1. ~Gone(s, n + 1)' BY <1>1 DEF Gone
  <2>2. \A p \in Path : disk'.dir[p] = ino => p = path BY <1>4, <1>5, <1>6 DEF Keeps, Grows, DiskOK
  <2>3. Sent(new, disk')
    <3>1. IsList(none)
      <4>1. <<>> \in Seq({}) BY EmptySeq
      <4> QED BY <4>1, ListOf DEF none
    <3>2. SubSeq(Parts(u), 1, 0) = none BY SentParts DEF none
    <3> DEFINE y == File(disk', path) \o none
    <3>3. IsList(y) BY <1>4, <1>13, <3>1, ListsJoined
    <3>4. Len(y) \in Nat BY <3>3, LenProperties DEF IsList
    <3>5. Len(none) = 0 BY DEF none
    <3> HIDE DEF y
    <3>6. Ends(none, y) BY <3>4, <3>5 DEF Ends
    <3> QED BY <1>8, <3>1, <3>2, <3>6 DEF Sent, y
  <2> QED BY <1>6, <1>8, <1>11, <2>1, <2>2, <2>3 DEF Kept
<1>16. ASSUME NEW k \in DOMAIN easies'[s] PROVE Kept(s, k)'
  <2>1. CASE k = n + 1 BY <1>15, <2>1
  <2>2. CASE k # n + 1
    <3>1. k \in 1..n BY <1>9, <1>12, <2>2
    <3>2. k \in DOMAIN easies[s] /\ easies'[s][k] = easies[s][k] BY <1>9, <1>11, <3>1
    <3>3. Gone(s, k)' = Gone(s, k) BY <1>1 DEF Gone
    <3>4. Kept(s, k) BY <1>3, <3>2 DEF Filed
    <3> QED BY <1>3, <1>5, <1>14, <3>2, <3>3, <3>4, KeptStays
  <2> QED BY <2>1, <2>2
<1>17. ASSUME NEW t \in Session, AtTransfers(t)', NEW j \in DOMAIN easies'[t]
       PROVE  \/ t = s /\ j = n + 1 /\ easies'[t][j] = new
              \/ AtTransfers(t) /\ j \in DOMAIN easies[t] /\ easies'[t][j] = easies[t][j]
  <2>1. CASE t # s
    <3>1. at'[t] = at[t] /\ easies'[t] = easies[t] BY <1>2, <2>1 DEF Only, TypeInv, Scalars
    <3> QED BY <1>17, <3>1 DEF AtTransfers
  <2>2. CASE t = s
    <3>1. CASE j = n + 1 BY <1>11, <2>2, <3>1
    <3>2. CASE j # n + 1
      <4>1. j \in 1..n BY <1>9, <1>12, <1>17, <2>2, <3>2
      <4> QED BY <1>3, <1>9, <1>11, <2>2, <4>1
    <3> QED BY <3>1, <3>2
  <2> QED BY <2>1, <2>2
<1>18. Alone'
  <2>1. ASSUME NEW t \in Session, NEW v \in Session, AtTransfers(t)', AtTransfers(v)',
               NEW i \in DOMAIN easies'[t], NEW j \in DOMAIN easies'[v],
               easies'[t][i].path = easies'[v][j].path \/ easies'[t][i].fp = easies'[v][j].fp
        PROVE  t = v /\ i = j
    <3>1. CASE t = s /\ i = n + 1 /\ easies'[t][i] = new
      <4>1. CASE v = s /\ j = n + 1 BY <3>1, <4>1
      <4>2. CASE AtTransfers(v) /\ j \in DOMAIN easies[v] /\ easies'[v][j] = easies[v][j]
        BY <1>8, <1>10, <1>14, <2>1, <3>1, <4>2
      <4> QED BY <1>17, <2>1, <4>1, <4>2
    <3>2. CASE AtTransfers(t) /\ i \in DOMAIN easies[t] /\ easies'[t][i] = easies[t][i]
      <4>1. CASE v = s /\ j = n + 1 /\ easies'[v][j] = new
        BY <1>8, <1>10, <1>14, <2>1, <3>2, <4>1
      <4>2. CASE AtTransfers(v) /\ j \in DOMAIN easies[v] /\ easies'[v][j] = easies[v][j]
        BY <2>1, <3>2, <4>2 DEF Filed, Alone
      <4> QED BY <1>17, <2>1, <4>1, <4>2
    <3> QED BY <1>17, <2>1, <3>1, <3>2
  <2> QED BY <2>1 DEF Alone
<1>19. \A t \in Session \ {s} : AtTransfers(t) =>
           \A j \in DOMAIN easies[t] : Leaves(disk, disk', {easies[t][j].path})
  BY <1>14
<1> QED BY <1>2, <1>3, <1>5, <1>13, <1>16, <1>18, <1>19, FiledStep

(* What a file has once it was closed, if no other transfer had it.        *)
Closable(d, q, i) ==
    /\ IsList(q) /\ i \in DOMAIN q
    /\ \A k \in DOMAIN q : q[k].fp \in 1..Len(d.data)
    /\ \A k \in DOMAIN q : q[k].fp = q[i].fp => k = i

Closed(d, q, W, e, i) ==
    /\ i \in W => e.data[q[i].fp] = d.data[q[i].fp] \o q[i].buf
    /\ i \notin W => e.data[q[i].fp] = d.data[q[i].fp]

LEMMA ClosedFile ==
    ASSUME NEW d, DiskOK(d), NEW q, NEW W, NEW e, e = Flushed(d, q, W), NEW i, Closable(d, q, i)
    PROVE  Closed(d, q, W, e, i)
<1> USE DEF Closable
<1> DEFINE n == Len(q)
           ino == q[i].fp
           old == d.data[ino]
           new == old \o q[i].buf
<1>1. n \in Nat /\ DOMAIN q = 1..n BY LenProperties DEF IsList
<1>2. PICK f : Closings(d, q, W, n, f) /\ e = f[n]
  <2> DEFINE g == CHOOSE h : Closings(d, q, W, n, h)
  <2>1. Closings(d, q, W, n, g) BY <1>1, ClosingsExist
  <2>2. e = g[n] BY DEF Flushed, Closings
  <2> QED BY <2>1, <2>2
<1>3. i \in 1..n /\ ino \in 1..Len(d.data) BY <1>1
<1> HIDE DEF n, ino, old, new
<1> DEFINE Good(k) == /\ DiskOK(f[k]) /\ Len(f[k].data) = Len(d.data)
                      /\ i <= k /\ i \in W => f[k].data[ino] = new
                      /\ ~(i <= k /\ i \in W) => f[k].data[ino] = old
           S == {k \in 0..n : Good(k)}
<1>4. 0 \in S
  <2>1. f[0] = d BY <1>1, <1>2 DEF Closings
  <2>2. ~(i <= 0) /\ 0 \in 0..n BY <1>1, <1>3
  <2> QED BY <2>1, <2>2 DEF old
<1>5. ASSUME NEW k \in 0..n, k \in S, k < n PROVE k + 1 \in S
  <2>0. Good(k) BY <1>5
  <2> SUFFICES Good(k + 1)
    BY <1>1, <1>5
  <2> HIDE DEF S
  <2>1. k + 1 \in 0..n /\ k + 1 # 0 /\ (k + 1) - 1 = k /\ k + 1 \in DOMAIN q BY <1>1, <1>5
  <2>2. f[k + 1] = IF k + 1 \in W THEN Appended(f[k], q[k + 1].fp, q[k + 1].buf) ELSE f[k]
    BY <1>2, <2>1 DEF Closings
  <2>3. (i <= k + 1 <=> i <= k \/ i = k + 1) /\ ~(k + 1 <= k) BY <1>1, <1>3, <1>5
  <2>4. CASE k + 1 \notin W
    <3>1. f[k + 1] = f[k] BY <2>2, <2>4
    <3>2. i <= k + 1 /\ i \in W <=> i <= k /\ i \in W BY <2>3, <2>4
    <3> QED BY <2>0, <3>1, <3>2
  <2>5. CASE k + 1 \in W
    <3> DEFINE a == f[k]
               b == f[k + 1]
               here == q[k + 1].fp
               x == a.data[here] \o q[k + 1].buf
    <3>1. b = Rewritten(a, here, x) BY <2>2, <2>5 DEF Rewritten, Appended
    <3>2. here \in 1..Len(a.data) BY <2>0, <2>1
    <3>3. DiskOK(a) BY <2>0
    <3>4. /\ i <= k /\ i \in W => a.data[ino] = new
          /\ ~(i <= k /\ i \in W) => a.data[ino] = old
          /\ Len(a.data) = Len(d.data)
      BY <2>0
    <3>5. k + 1 # i => here # ino BY <2>1 DEF ino
    <3>6. k + 1 = i => here = ino /\ x = a.data[ino] \o q[i].buf BY DEF ino
    <3> HIDE DEF a, b, here, x
    <3>7. DiskOK(b) /\ Len(b.data) = Len(a.data) /\ b.data[here] = x BY <3>1, <3>2, <3>3, Rewriting
    <3>8. ino # here => b.data[ino] = a.data[ino]
      <4>1. a = [dir |-> a.dir, data |-> a.data] BY <3>3 DEF DiskOK
      <4>2. b.data = [a.data EXCEPT ![here] = x] BY <3>1, <4>1 DEF Rewritten
      <4>3. ino \in DOMAIN a.data BY <1>3, <3>3, <3>4, DiskData
      <4> QED BY <4>2, <4>3
    <3>9. CASE i = k + 1
      <4>1. ~(i <= k) /\ i <= k + 1 /\ i \in W BY <2>3, <2>5, <3>9
      <4>2. a.data[ino] = old BY <3>4, <4>1
      <4>3. b.data[ino] = new BY <3>6, <3>7, <3>9, <4>2 DEF new
      <4> QED BY <3>4, <3>7, <4>1, <4>3 DEF b
    <3>10. CASE i # k + 1
      <4>1. b.data[ino] = a.data[ino] BY <3>5, <3>8, <3>10
      <4>2. i <= k + 1 <=> i <= k BY <2>3, <3>10
      <4> QED BY <3>4, <3>7, <4>1, <4>2 DEF b
    <3> QED BY <3>9, <3>10
  <2> QED BY <2>4, <2>5
<1> HIDE DEF S
<1>6. \A k \in 0..n : k \in S BY <1>1, <1>4, <1>5, SetInduction
<1>7. n \in S /\ i <= n
  <2>1. n \in 0..n BY <1>1
  <2> QED BY <1>3, <1>6, <2>1
<1>8. Good(n) BY <1>7 DEF S
<1> QED BY <1>2, <1>7, <1>8 DEF ino, old, new, Closed

(* What closing the files of a session leaves in them, and in the others.  *)
LEMMA FilesClosed ==
    ASSUME TypeInv, Filed, NEW s \in Session, NEW W, CloseFiles(s, W)
    PROVE  /\ disk'.dir = disk.dir
           /\ \A p \in Path : (\A k \in DOMAIN easies[s] : disk.dir[p] # easies[s][k].fp) =>
                 File(disk', p) = File(disk, p)
           /\ \A k \in DOMAIN easies[s] : easies[s][k].state # "failed" =>
                 /\ Sent(easies[s][k], disk) /\ disk.dir[easies[s][k].path] = easies[s][k].fp
                 /\ k \in W => File(disk', easies[s][k].path) = File(disk, easies[s][k].path) \o easies[s][k].buf
                 /\ k \notin W => File(disk', easies[s][k].path) = File(disk, easies[s][k].path)
<1>1. at[s] = "close" /\ disk' = Flushed(disk, easies[s], W) BY DEF CloseFiles
<1>2. IsList(easies[s]) /\ \A k \in DOMAIN easies[s] : easies[s][k].fp \in 1..Len(disk.data)
  BY DEF TypeInv, Transfers, TransferOK
<1>3. /\ disk'.dir = disk.dir
      /\ \A names \in SUBSET Path :
            (\A p \in names, k \in DOMAIN easies[s] : disk.dir[p] # easies[s][k].fp) => Keeps(disk, disk', names)
  BY <1>1, <1>2, Flushing DEF TypeInv
<1>4. ASSUME NEW p \in Path, \A k \in DOMAIN easies[s] : disk.dir[p] # easies[s][k].fp
      PROVE  File(disk', p) = File(disk, p)
  <2>1. Keeps(disk, disk', {p}) BY <1>3, <1>4
  <2> QED BY <2>1 DEF Keeps
<1>5. AtTransfers(s) BY <1>1 DEF AtTransfers
<1>6. ASSUME NEW k \in DOMAIN easies[s], easies[s][k].state # "failed"
      PROVE  /\ Sent(easies[s][k], disk) /\ disk.dir[easies[s][k].path] = easies[s][k].fp
             /\ k \in W => File(disk', easies[s][k].path) = File(disk, easies[s][k].path) \o easies[s][k].buf
             /\ k \notin W => File(disk', easies[s][k].path) = File(disk, easies[s][k].path)
  <2> DEFINE e == easies[s][k]
  <2>1. Sent(e, disk) /\ disk.dir[e.path] = e.fp BY <1>5, <1>6 DEF Filed, Kept, Gone
  <2>2. \A j \in DOMAIN easies[s] : easies[s][j].fp = e.fp => j = k BY <1>5 DEF Filed, Alone
  <2>3. /\ k \in W => disk'.data[e.fp] = disk.data[e.fp] \o e.buf
        /\ k \notin W => disk'.data[e.fp] = disk.data[e.fp]
    <3> DEFINE q == easies[s]
               d == disk'
    <3>1. DiskOK(disk) BY DEF TypeInv
    <3>2. Closable(disk, q, k) BY <1>2, <2>2 DEF Closable
    <3>3. d = Flushed(disk, q, W) BY <1>1
    <3> HIDE DEF q, d
    <3>4. Closed(disk, q, W, d, k) BY <3>1, <3>2, <3>3, ClosedFile
    <3> QED BY <3>4 DEF q, d, Closed
  <2>4. e.fp # 0
    <3>1. e.fp \in 1..Len(disk.data) /\ Len(disk.data) \in Nat BY <1>2, DiskData DEF TypeInv
    <3> QED BY <3>1
  <2>5. File(disk, e.path) = disk.data[e.fp] /\ File(disk', e.path) = disk'.data[e.fp]
    BY <1>3, <2>1, <2>4 DEF File, Exists
  <2> QED BY <2>1, <2>3, <2>5
<1> QED BY <1>3, <1>4, <1>6

LEMMA CloseFiled ==
    ASSUME TypeInv, Filed, NEW s \in Session, \A t \in Session : Apart(t), NEW W, CloseFiles(s, W)
    PROVE  Filed'
<1>1. at[s] = "close" /\ at'[s] = "idle" /\ easies' = easies
  BY DEF CloseFiles, CommandOver, Goes, TypeInv, Scalars
<1>2. Only(s) BY DEF CloseFiles, ghosts, Only, CommandOver, Goes, TypeInv, Scalars
<1>3. AtTransfers(s) /\ ~AtTransfers(s)' /\ ~Writing(s)' BY <1>1 DEF AtTransfers, Writing
<1>4. /\ disk'.dir = disk.dir
      /\ \A p \in Path : (\A k \in DOMAIN easies[s] : disk.dir[p] # easies[s][k].fp) =>
            File(disk', p) = File(disk, p)
      /\ \A k \in DOMAIN easies[s] : easies[s][k].state # "failed" =>
            /\ Sent(easies[s][k], disk)
            /\ \/ File(disk', easies[s][k].path) = File(disk, easies[s][k].path) \o easies[s][k].buf
               \/ File(disk', easies[s][k].path) = File(disk, easies[s][k].path)
  BY FilesClosed
<1>5. Moves(disk, disk') /\ Stays(disk, disk') BY <1>4 DEF Moves, Stays
<1>6. ASSUME NEW p \in Name PROVE IsList(File(disk', p))
  <2>1. p \in Path /\ IsList(File(disk, p)) BY DEF Path, Filed
  <2>2. CASE \A k \in DOMAIN easies[s] : disk.dir[p] # easies[s][k].fp BY <1>4, <2>1, <2>2
  <2>3. CASE \E k \in DOMAIN easies[s] : disk.dir[p] = easies[s][k].fp
    <3>1. PICK k \in DOMAIN easies[s] : disk.dir[p] = easies[s][k].fp BY <2>3
    <3> DEFINE e == easies[s][k]
    <3>2. Kept(s, k) BY <1>3 DEF Filed
    <3>3. p = e.path BY <2>1, <3>1, <3>2 DEF Kept
    <3>4. disk.dir[e.path] # 0
      <4>1. e.fp \in 1..Len(disk.data) /\ Len(disk.data) \in Nat BY DiskData DEF TypeInv, Transfers, TransferOK
      <4> QED BY <3>1, <3>3, <4>1
    <3>5. e.state # "failed" BY <1>1, <3>2, <3>4 DEF Kept, Gone
    <3>6. /\ Sent(e, disk)
          /\ File(disk', p) = File(disk, p) \o e.buf \/ File(disk', p) = File(disk, p)
      BY <1>4, <3>3, <3>5
    <3>7. IsList(e.buf) BY <3>6 DEF Sent
    <3>8. IsList(File(disk, p) \o e.buf) BY <2>1, <3>7, ListsJoined
    <3> QED BY <2>1, <3>6, <3>8
  <2> QED BY <2>2, <2>3
<1>7. ASSUME NEW t \in Session \ {s}, AtTransfers(t), NEW j \in DOMAIN easies[t]
      PROVE  Leaves(disk, disk', {easies[t][j].path})
  <2> DEFINE p == easies[t][j].path
  <2>1. p \in Path BY DEF TypeInv, Transfers, TransferOK, Path
  <2>2. ASSUME NEW k \in DOMAIN easies[s] PROVE disk.dir[p] # easies[s][k].fp
    <3>1. Kept(s, k) BY <1>3 DEF Filed
    <3>2. p # easies[s][k].path BY <1>3, <1>7 DEF Filed, Alone
    <3> QED BY <2>1, <3>1, <3>2 DEF Kept
  <2>3. File(disk', p) = File(disk, p) BY <1>4, <2>1, <2>2
  <2> QED BY <1>4, <2>3 DEF Leaves
<1>8. Alone' BY <1>2, <1>3, AloneStays DEF Filed
<1> QED BY <1>2, <1>3, <1>5, <1>6, <1>7, <1>8, FiledStep

-----------------------------------------------------------------------------
(* The invariant of the files, and what was said of them.                  *)

LEMMA FiledNext ==
    ASSUME IInv, FiledInv, [Next]_vars
    PROVE  FiledInv'
<1> SUFFICES ASSUME ~shared' PROVE Filed'
  BY DEF FiledInv
<1>1. TypeInv /\ \A t \in Session : Apart(t) BY DEF IInv
<1>2. ASSUME NEW s \in Session, Bookmarking(s) \/ Downloading(s) \/ Closing(s) \/ Killed(s)
      PROVE  Filed'
  <2>1. ~shared
    BY <1>2 DEF Bookmarking, Downloading, Closing, bookmark_add_to_section, resolve_bookmarks_file,
       CreateBookmarks, FillBookmarks, get_bookmarks_doc, BookmarkFails, bookmarks_save_to_disc, BookmarkAdded,
       BookmarkTorn, cmd_anchor_save_range, request_to_handle, OpenFails, AllAdded, Arrives, TransferFails,
       PerformEnds, Report, CloseFiles, session_close, session_write_input_history, OpenHistory, EnterInputs,
       Enter, FetchHistory, WriteHeader, AppendFetches, EnterFetches, Killed, ghosts
  <2>2. Filed BY <2>1 DEF FiledInv
  <2>3. Only(s) BY <1>1, <1>2, OnlyBookmarking, OnlyDownloading, OnlyClosing DEF TypeInv
  <2>4. CASE Bookmarking(s)
    <3>1. Elsewhere(s) BY <1>1, <2>2, <2>4, BookmarksElsewhere DEF Filed
    <3> QED BY <1>1, <2>2, <2>3, <3>1, ElsewhereFiled
  <2>5. CASE Closing(s) \/ Killed(s)
    <3>1. Elsewhere(s) BY <1>1, <2>5, ClosingElsewhere
    <3> QED BY <1>1, <2>2, <2>3, <3>1, ElsewhereFiled
  <2>6. CASE Downloading(s)
    <3> USE <1>1, <2>2
    <3>1. CASE \/ cmd_anchor_save_range(s) \/ OpenFails(s) \/ AllAdded(s)
               \/ \E canceled \in BOOLEAN : PerformEnds(s, canceled)
      BY <3>1, GoingFiled
    <3>2. CASE request_to_handle(s) BY <3>2, RequestFiled
    <3>3. CASE \E i \in DOMAIN easies[s], full \in BOOLEAN : Arrives(s, i, full) BY <3>3, ArrivesFiled
    <3>4. CASE \E i \in DOMAIN easies[s] : TransferFails(s, i) BY <3>4, FailsFiled
    <3>5. CASE Report(s) BY <3>5, ReportFiled
    <3>6. CASE \E W \in SUBSET DOMAIN easies[s] : CloseFiles(s, W) BY <3>6, CloseFiled
    <3> QED BY <2>6, <3>1, <3>2, <3>3, <3>4, <3>5, <3>6 DEF Downloading
  <2> QED BY <1>2, <2>4, <2>5, <2>6
<1>3. ASSUME UNCHANGED vars PROVE Filed'
  <2> USE <1>3 DEF vars
  <2>1. Filed BY DEF FiledInv
  <2>2. ASSUME NEW s \in Session, AtTransfers(s)' PROVE Counted(s)' /\ \A i \in DOMAIN easies'[s] : Kept(s, i)'
    <3>1. AtTransfers(s) BY <2>2 DEF AtTransfers
    <3>2. Counted(s)' BY <2>1, <3>1 DEF Filed, Counted, In
    <3>3. ASSUME NEW i \in DOMAIN easies[s] PROVE Kept(s, i)'
      <4>1. Kept(s, i) BY <2>1, <3>1 DEF Filed
      <4> QED BY <4>1 DEF Kept, Gone
    <3> QED BY <3>2, <3>3
  <2>3. Alone' BY <2>1 DEF Filed, Alone, AtTransfers
  <2>4. \A s \in Session : Writing(s)' => fp'[s] = disk'.dir["bookmarks"] BY <2>1 DEF Filed, Writing
  <2>5. \A p \in Name : IsList(File(disk', p)) BY <2>1 DEF Filed
  <2> QED BY <2>2, <2>3, <2>4, <2>5 DEF Filed
<1> QED BY <1>2, <1>3 DEF Next

LEMMA FiledInit ==
    ASSUME Init
    PROVE  FiledInv
<1>1. \A s \in Session : ~AtTransfers(s) /\ ~Writing(s) BY DEF Init, AtTransfers, Writing
<1>2. ASSUME NEW p \in Name PROVE IsList(File(disk, p))
  <2>1. File(disk, p) = <<>> BY DEF Init, Blank, File, Exists, Path
  <2>2. <<>> \in Seq({}) BY EmptySeq
  <2> QED BY <2>1, <2>2, ListOf
<1> QED BY <1>1, <1>2 DEF FiledInv, Filed, Alone

LEMMA FilesFiled == Spec => []FiledInv
<1>1. Init => FiledInv BY FiledInit
<1>2. IInv /\ FiledInv /\ [Next]_vars => FiledInv' BY FiledNext
<1> QED BY <1>1, <1>2, Inductive, PTL DEF Spec

(* What is true of the files of a session when it closes them.             *)
LEMMA Told ==
    ASSUME TypeInv, Filed, NEW s \in Session, CloseFiles(s, DOMAIN easies[s]), In(s, "running") = {}
    PROVE  /\ saved[s] = Cardinality({i \in DOMAIN easies[s] : Whole(easies[s][i], disk')})
           /\ \A i \in In(s, "failed") : ~Exists(disk', easies[s][i].path)
<1> DEFINE W == DOMAIN easies[s]
<1>1. at[s] = "close" /\ AtTransfers(s) BY DEF CloseFiles, AtTransfers
<1>2. /\ disk'.dir = disk.dir
      /\ \A k \in DOMAIN easies[s] : easies[s][k].state # "failed" =>
            /\ Sent(easies[s][k], disk)
            /\ File(disk', easies[s][k].path) = File(disk, easies[s][k].path) \o easies[s][k].buf
  <2>1. CloseFiles(s, W) OBVIOUS
  <2> HIDE DEF W
  <2>2. /\ disk'.dir = disk.dir
        /\ \A k \in DOMAIN easies[s] : easies[s][k].state # "failed" =>
              /\ Sent(easies[s][k], disk)
              /\ k \in W => File(disk', easies[s][k].path) = File(disk, easies[s][k].path) \o easies[s][k].buf
    BY <2>1, FilesClosed
  <2> QED BY <2>2 DEF W
<1>3. ASSUME NEW i \in In(s, "failed")
      PROVE  ~Exists(disk', easies[s][i].path) /\ ~Whole(easies[s][i], disk')
  <2> DEFINE e == easies[s][i]
  <2>1. i \in DOMAIN easies[s] /\ Gone(s, i) BY <1>1 DEF In, Gone
  <2>2. disk.dir[e.path] = 0 BY <1>1, <2>1 DEF Filed, Kept
  <2>3. ~Exists(disk', e.path) BY <1>2, <2>2 DEF Exists
  <2>4. File(disk', e.path) = <<>> BY <2>3 DEF File
  <2>5. IsList(<<>>)
    <3>1. <<>> \in Seq({}) BY EmptySeq
    <3> QED BY <3>1, ListOf
  <2> QED BY <2>3, <2>4, <2>5, EndsWhole DEF Whole
<1>4. ASSUME NEW i \in DOMAIN easies[s] \ In(s, "failed") PROVE Whole(easies[s][i], disk')
  <2> DEFINE e == easies[s][i]
             y == File(disk, e.path) \o e.buf
  <2>1. TransferOK(e, disk) /\ Kept(s, i) BY <1>1 DEF TypeInv, Transfers, Filed
  <2>2. e.state # "failed" /\ e.state # "running" BY DEF In
  <2>3. e.got = 2 /\ e.path \in Name BY <2>1, <2>2 DEF TransferOK, Kept
  <2>4. Sent(e, disk) /\ File(disk', e.path) = y BY <1>2, <2>2
  <2>5. IsList(y)
    <3>1. IsList(File(disk, e.path)) /\ IsList(e.buf) BY <2>3, <2>4 DEF Filed, Sent
    <3> QED BY <3>1, ListsJoined
  <2>6. Ends(Parts(e.url), y) BY <2>3, <2>4, SentParts DEF Sent
  <2> QED BY <2>4, <2>5, <2>6, EndsWhole DEF Whole
<1>5. {i \in DOMAIN easies[s] : Whole(easies[s][i], disk')} = DOMAIN easies[s] \ In(s, "failed")
  BY <1>3, <1>4
<1>6. saved[s] = Len(easies[s]) - Cardinality(In(s, "failed")) BY <1>1 DEF Filed, Counted
<1>7. Cardinality(DOMAIN easies[s] \ In(s, "failed")) = Len(easies[s]) - Cardinality(In(s, "failed"))
  <2>1. Len(easies[s]) \in Nat /\ DOMAIN easies[s] = 1..Len(easies[s])
    BY LenProperties DEF TypeInv, Transfers, IsList
  <2>2. IsFiniteSet(1..Len(easies[s])) /\ Cardinality(1..Len(easies[s])) = Len(easies[s]) BY <2>1, FS_Interval
  <2>3. (1..Len(easies[s])) \cap In(s, "failed") = In(s, "failed") BY <2>1 DEF In
  <2>4. Cardinality((1..Len(easies[s])) \ In(s, "failed"))
        = Cardinality(1..Len(easies[s])) - Cardinality((1..Len(easies[s])) \cap In(s, "failed"))
    BY <2>2, FS_Difference
  <2> QED BY <2>1, <2>2, <2>3, <2>4
<1> QED BY <1>3, <1>5, <1>6, <1>7

(* When the transfers of a session ended by themselves and its files were  *)
(* closed without an error, as many as it said were saved end with what    *)
(* their urls sent, and the files of those that failed are gone, whatever  *)
(* other sessions save, add and enter meanwhile; as long as no file was    *)
(* opened for two transfers at once (user-interface.c:245-271).            *)
THEOREM FilesSavedAsTold == Spec => SavedAsTold
<1>1. ASSUME IInv, FiledInv, [Next]_vars
      PROVE  [\A s \in Session :
                CloseFiles(s, DOMAIN easies[s]) /\ In(s, "running") = {} /\ ~shared =>
                    /\ saved[s] = Cardinality({i \in DOMAIN easies[s] : Whole(easies[s][i], disk')})
                    /\ \A i \in In(s, "failed") : ~Exists(disk', easies[s][i].path)]_vars
  <2>1. ASSUME NEW s \in Session, CloseFiles(s, DOMAIN easies[s]), In(s, "running") = {}, ~shared
        PROVE  /\ saved[s] = Cardinality({i \in DOMAIN easies[s] : Whole(easies[s][i], disk')})
               /\ \A i \in In(s, "failed") : ~Exists(disk', easies[s][i].path)
    <3>1. TypeInv /\ Filed BY <1>1, <2>1 DEF IInv, FiledInv
    <3> QED BY <2>1, <3>1, Told
  <2> QED BY <2>1
<1> QED BY <1>1, Inductive, FilesFiled, PTL DEF Spec, SavedAsTold

-----------------------------------------------------------------------------
(* Bookmarks.                                                              *)

SectionType == [name : Seq(STRING), ul : BOOLEAN, entries : Seq(Nat)]

(* A page as the program reads and makes it: what comes before the sections*)
(* has neither a name nor a list, and no two sections have one name.       *)
GoodDoc(doc) ==
    /\ doc \in Seq(SectionType) /\ Len(doc) >= 1
    /\ doc[1].name = <<>> /\ doc[1].ul = FALSE
    /\ \A i, j \in Heads(doc) : doc[i].name = doc[j].name => i = j

IdsOf(doc) == UNION {{doc[i].entries[k] : k \in DOMAIN doc[i].entries} : i \in DOMAIN doc}
NamesOf(doc) == {doc[i].name : i \in Heads(doc)}

(* Nothing in the page has markup, nor has anything that was added.        *)
Plain(doc) == IdsOf(doc) \cap MarkupIds = {} /\ NamesOf(doc) \cap MarkupNames = {}
UnmarkedIn(B) == \A b \in B : b.id \notin MarkupIds /\ b.word \notin MarkupNames

(* The bookmarks that are still to be asked for.                           *)
JobAt(p, d) == p[d[1]][d[2]]
Due(p) == {d \in Session \X Nat : d[2] \in DOMAIN p[d[1]] /\ JobAt(p, d).kind = "bookmark"}
IdsDue(p) == {JobAt(p, d).id : d \in Due(p)}

Distinct(p) == \A d, e \in Due(p) : JobAt(p, d).id = JobAt(p, e).id => d = e

(* The page has a bookmark, where it was asked for, and only there.        *)
Placed(b, name) == IF b.prefix THEN IsPrefix(b.word, name) ELSE name = b.word

HasBookmark(doc, b) ==
    \E i \in Heads(doc) :
        /\ Placed(b, doc[i].name)
        /\ Cardinality({k \in DOMAIN doc[i].entries : doc[i].entries[k] = b.id}) = 1
        /\ \A j \in Heads(doc) \ {i} : b.id \notin Range(doc[j].entries)

Holds(doc, p, B) ==
    /\ GoodDoc(doc)
    /\ IdsOf(doc) \cap IdsDue(p) = {}
    /\ \A b \in B : HasBookmark(doc, b)
    /\ UnmarkedIn(B) => Plain(doc)

(* What a session is to write, and the plans once it has.                  *)
Wanted(s) == [id |-> Job(s).id, word |-> Job(s).word, prefix |-> Job(s).prefix]
Without(p, s) == [p EXCEPT ![s] = Tail(@)]
Makes(text, p, B) == \E doc : text = bookmark_to_source(doc) /\ Holds(doc, p, B)

Works(s) ==
    /\ at[s] = "create" => ~Exists(disk, "bookmarks")
    /\ at[s] = "fill" => Makes(out[s], plan, added)
    /\ at[s] \in {"save", "write"} => Makes(out[s], Without(plan, s), added \cup {Wanted(s)})
    /\ Writing(s) => File(disk, "bookmarks") = <<>>

InFile ==
    LET doc == Parsed(File(disk, "bookmarks"))
    IN  /\ Holds(doc, plan, added)
        /\ Exists(disk, "bookmarks") => bookmark_to_source(doc) = File(disk, "bookmarks")

(* Nobody else has the file of bookmarks open.                             *)
BookmarksApart(s) ==
    /\ Writing(s) => fp[s] = disk.dir["bookmarks"]
    /\ \A i \in DOMAIN easies[s] : easies[s][i].fp # disk.dir["bookmarks"]

BookmarksGood ==
    /\ \A s, t \in Session : AtBookmarks(s) /\ AtBookmarks(t) => s = t
    /\ \A s \in Session : Works(s)
    /\ (\A s \in Session : ~Writing(s)) => InFile

BookmarksInv ==
    /\ Distinct(plan)
    /\ \A s \in Session : BookmarksApart(s)
    /\ ~torn /\ ~mixed /\ Unmarked => BookmarksGood
-----------------------------------------------------------------------------
(* What the program reads of what it wrote.                                *)

(* A page of which nothing was read.                                       *)
Untitled == <<Section(<<>>)>>

Tag == ({"head", "tail", "ul"} \X {<<>>}) \cup ({"h2"} \X Seq(STRING)) \cup ({"li"} \X Nat)

(* The page after each of the first n tags was read.                       *)
Readings(q, n, f) == f = [k \in 0..n |-> IF k = 0 THEN Untitled ELSE ReadTag(f[k - 1], q[k])]

LEMMA ReadingsExist ==
    ASSUME NEW q, NEW n \in Nat
    PROVE  \E f : Readings(q, n, f)
<1> DEFINE S == {k \in 0..n : \E f : Readings(q, k, f)}
<1>1. 0 \in S
  <2> DEFINE f == [k \in 0..0 |-> Untitled]
  <2>1. f = [k \in 0..0 |-> IF k = 0 THEN Untitled ELSE ReadTag(f[k - 1], q[k])]
    <3>1. \A k \in 0..0 : k = 0 OBVIOUS
    <3> QED BY <3>1
  <2>2. Readings(q, 0, f) BY <2>1 DEF Readings
  <2> QED BY <2>2
<1>2. ASSUME NEW k \in 0..n, k \in S, k < n PROVE k + 1 \in S
  <2>1. PICK f : Readings(q, k, f) BY <1>2
  <2> DEFINE x == ReadTag(f[k], q[k + 1])
             g == [i \in 0..(k + 1) |-> IF i = k + 1 THEN x ELSE f[i]]
  <2>2. ASSUME NEW i \in 0..(k + 1)
        PROVE  g[i] = IF i = 0 THEN Untitled ELSE ReadTag(g[i - 1], q[i])
    <3>1. CASE i = k + 1
      <4>1. i - 1 = k /\ i - 1 \in 0..(k + 1) /\ i - 1 # k + 1 /\ i # 0 BY <1>2, <3>1
      <4>2. g[i - 1] = f[k] /\ g[i] = x BY <3>1, <4>1
      <4> HIDE DEF g
      <4> QED BY <3>1, <4>1, <4>2
    <3>2. CASE i # k + 1
      <4>1. i \in 0..k BY <1>2, <3>2
      <4>2. f[i] = IF i = 0 THEN Untitled ELSE ReadTag(f[i - 1], q[i]) BY <2>1, <4>1 DEF Readings
      <4>3. g[i] = f[i] BY <3>2
      <4>4. i # 0 => g[i - 1] = f[i - 1]
        <5>1. i # 0 => i - 1 \in 0..(k + 1) /\ i - 1 # k + 1 BY <4>1
        <5> QED BY <5>1
      <4> HIDE DEF g
      <4> QED BY <4>2, <4>3, <4>4
    <3> QED BY <3>1, <3>2
  <2>3. g = [i \in 0..(k + 1) |-> g[i]] OBVIOUS
  <2> HIDE DEF g
  <2>4. Readings(q, k + 1, g) BY <2>2, <2>3, Zenon DEF Readings
  <2>5. k + 1 \in 0..n BY <1>2
  <2> QED BY <2>4, <2>5
<1> HIDE DEF S
<1>3. \A k \in 0..n : k \in S BY <1>1, <1>2, SetInduction
<1> QED BY <1>3 DEF S

(* Sources that begin alike are read alike.                                *)
LEMMA ReadingsAgree ==
    ASSUME NEW q, NEW r, NEW m \in Nat, NEW n \in m..m + 1, NEW f, NEW g, Readings(q, m, f), Readings(r, n, g),
           \A k \in 1..m : r[k] = q[k]
    PROVE  f[m] = g[m]
<1> DEFINE S == {k \in 0..m : f[k] = g[k]}
<1>1. 0 \in S BY DEF Readings
<1>2. ASSUME NEW k \in 0..m, k \in S, k < m PROVE k + 1 \in S
  <2>1. k + 1 \in 0..m /\ k + 1 \in 0..n /\ k + 1 \in 1..m /\ k + 1 # 0 /\ (k + 1) - 1 = k BY <1>2
  <2>2. f[k + 1] = ReadTag(f[k], q[k + 1]) BY <2>1 DEF Readings
  <2>3. g[k + 1] = ReadTag(g[k], r[k + 1]) BY <2>1 DEF Readings
  <2> QED BY <1>2, <2>1, <2>2, <2>3
<1> HIDE DEF S
<1>3. \A k \in 0..m : k \in S BY <1>1, <1>2, SetInduction
<1>4. m \in S
  <2>1. m \in 0..m OBVIOUS
  <2> QED BY <1>3, <2>1
<1> QED BY <1>4 DEF S

LEMMA ReadBy ==
    ASSUME NEW q, Len(q) \in Nat, NEW f, Readings(q, Len(q), f)
    PROVE  Read(q) = f[Len(q)]
<1> DEFINE n == Len(q)
           g == CHOOSE h : Readings(q, n, h)
<1>1. Readings(q, n, g) BY ReadingsExist
<1>2. Read(q) = g[n] BY DEF Read, Readings, Untitled
<1>3. n \in Nat /\ n \in n..n + 1 /\ Readings(q, n, f) OBVIOUS
<1>4. \A k \in 1..n : q[k] = q[k] OBVIOUS
<1> HIDE DEF n, g
<1>5. f[n] = g[n] BY <1>1, <1>3, <1>4, ReadingsAgree
<1> QED BY <1>2, <1>5 DEF n

(* Reading one tag more.                                                   *)
LEMMA ReadNext ==
    ASSUME NEW q \in Seq(Tag), NEW tag \in Tag
    PROVE  Read(Append(q, tag)) = ReadTag(Read(q), tag)
<1> DEFINE n == Len(q)
           r == Append(q, tag)
<1>1. n \in Nat /\ Len(r) = n + 1 /\ r[n + 1] = tag /\ \A k \in 1..n : r[k] = q[k]
  BY LenProperties, AppendProperties
<1> HIDE DEF r
<1>2. PICK f : Readings(q, n, f) BY <1>1, ReadingsExist
<1>3. PICK g : Readings(r, n + 1, g)
  <2>1. n + 1 \in Nat BY <1>1
  <2> QED BY <2>1, ReadingsExist
<1>4. f[n] = g[n]
  <2>1. n + 1 \in n..n + 1 BY <1>1
  <2> HIDE DEF n
  <2> QED BY <1>1, <1>2, <1>3, <2>1, ReadingsAgree
<1>5. g[n + 1] = ReadTag(g[n], tag)
  <2>1. n + 1 \in 0..(n + 1) /\ n + 1 # 0 /\ (n + 1) - 1 = n BY <1>1
  <2> QED BY <1>1, <1>3, <2>1 DEF Readings
<1>6. Read(q) = f[n] BY <1>1, <1>2, ReadBy
<1>7. Read(r) = g[n + 1]
  <2>1. Len(r) \in Nat BY <1>1
  <2> QED BY <1>1, <1>3, <2>1, ReadBy
<1> QED BY <1>4, <1>5, <1>6, <1>7 DEF r

LEMMA ReadNone == Read(<<>>) = Untitled
<1> DEFINE none == <<>>
<1>1. Len(none) = 0 OBVIOUS
<1>2. PICK f : Readings(none, 0, f) BY ReadingsExist
<1>3. f[0] = Untitled BY <1>2 DEF Readings
<1> HIDE DEF none
<1>4. Read(none) = f[0] BY <1>1, <1>2, ReadBy
<1> QED BY <1>3, <1>4 DEF none

(* The beginning of a list, and one element more.                          *)
LEMMA FirstMore ==
    ASSUME NEW S, NEW q \in Seq(S), NEW k \in 0..Len(q)
    PROVE  /\ SubSeq(q, 1, k) \in Seq(S) /\ Len(SubSeq(q, 1, k)) = k
           /\ k < Len(q) => SubSeq(q, 1, k + 1) = Append(SubSeq(q, 1, k), q[k + 1]) /\ q[k + 1] \in S
<1>1. Len(q) \in Nat BY LenProperties
<1>2. \A j \in 1..Len(q) : q[j] \in S BY ElementOfSeq
<1>3. SubSeq(q, 1, k) \in Seq(S) /\ Len(SubSeq(q, 1, k)) = k
  <2>1. \A j \in 1..k : q[j] \in S BY <1>1, <1>2
  <2>2. /\ SubSeq(q, 1, k) \in Seq(S)
        /\ Len(SubSeq(q, 1, k)) = IF 1 <= k THEN k - 1 + 1 ELSE 0
    BY <1>1, <2>1, SubSeqProperties
  <2> QED BY <1>1, <2>2
<1>4. ASSUME k < Len(q) PROVE SubSeq(q, 1, k + 1) = Append(SubSeq(q, 1, k), q[k + 1]) /\ q[k + 1] \in S
  <2>1. 1 \in 1..Len(q) /\ k + 1 \in 1..Len(q) /\ (k + 1) - 1 = k BY <1>1, <1>4
  <2>2. SubSeq(q, 1, k + 1) = SubSeq(q, 1, (k + 1) - 1) \o <<q[k + 1]>> BY <2>1, SubSeqRecursiveSecond
  <2>3. q[k + 1] \in S BY <1>2, <2>1
  <2>4. Append(SubSeq(q, 1, k), q[k + 1]) = SubSeq(q, 1, k) \o <<q[k + 1]>> BY <1>3, <2>3, AppendIsConcat
  <2> QED BY <2>1, <2>2, <2>3, <2>4
<1> QED BY <1>3, <1>4

(* A page with another last section, and a section with other entries.     *)
LastIs(doc, section) == [doc EXCEPT ![Len(doc)] = section]
Listing(section, entries) == [name |-> section.name, ul |-> section.ul, entries |-> entries]

LEMMA LastChanged ==
    ASSUME NEW doc \in Seq(SectionType), Len(doc) >= 1, NEW r \in SectionType
    PROVE  /\ LastIs(doc, r) \in Seq(SectionType) /\ Len(LastIs(doc, r)) = Len(doc)
           /\ LastIs(doc, r)[Len(doc)] = r
           /\ \A x \in SectionType : LastIs(LastIs(doc, r), x) = LastIs(doc, x)
           /\ r = doc[Len(doc)] => LastIs(doc, r) = doc
<1> DEFINE n == Len(doc)
           q == LastIs(doc, r)
<1>1. n \in Nat /\ n \in 1..n /\ doc \in [1..n -> SectionType] BY LenProperties
<1>2. q \in Seq(SectionType) /\ Len(q) = n /\ \A j \in 1..n : q[j] = IF j = n THEN r ELSE doc[j]
  BY <1>1, ExceptSeq DEF LastIs
<1>3. q[n] = r BY <1>1, <1>2
<1>4. ASSUME NEW x \in SectionType PROVE LastIs(q, x) = LastIs(doc, x)
  <2>1. LastIs(q, x) = [q EXCEPT ![n] = x] BY <1>2 DEF LastIs
  <2>2. q = [j \in 1..n |-> IF j = n THEN r ELSE doc[j]] BY <1>1 DEF LastIs
  <2>3. LastIs(doc, x) = [j \in 1..n |-> IF j = n THEN x ELSE doc[j]] BY <1>1 DEF LastIs
  <2> HIDE DEF n, q
  <2> QED BY <2>1, <2>2, <2>3
<1>5. ASSUME r = doc[n] PROVE q = doc
  <2>1. q = [j \in 1..n |-> IF j = n THEN r ELSE doc[j]] BY <1>1 DEF LastIs
  <2>2. doc = [j \in 1..n |-> doc[j]] BY <1>1
  <2> HIDE DEF n, q
  <2> QED BY <1>5, <2>1, <2>2
<1> QED BY <1>2, <1>3, <1>4, <1>5

LEMMA SectionChanged ==
    ASSUME NEW a, NEW b, NEW c, NEW r, r = [name |-> a, ul |-> b, entries |-> c], NEW x
    PROVE  /\ [r EXCEPT !.entries = x] = [name |-> a, ul |-> b, entries |-> x]
           /\ [r EXCEPT !.ul = x] = [name |-> a, ul |-> x, entries |-> c]
OBVIOUS

(* Tags that are read in the last section.                                 *)
LEMMA TagsRead ==
    ASSUME NEW doc \in Seq(SectionType), Len(doc) >= 1, NEW r \in SectionType
    PROVE  /\ \A id \in Nat : ReadTag(LastIs(doc, r), <<"li", id>>) = LastIs(doc, Listing(r, Append(r.entries, id)))
           /\ ReadTag(LastIs(doc, r), <<"ul", <<>>>>) = LastIs(doc, [name |-> r.name, ul |-> TRUE, entries |-> r.entries])
<1> DEFINE n == Len(doc)
           q == LastIs(doc, r)
<1>1. /\ q \in Seq(SectionType) /\ Len(q) = n /\ q[n] = r
      /\ \A x \in SectionType : LastIs(q, x) = LastIs(doc, x)
  BY LastChanged
<1>2. n \in Nat /\ n \in 1..n BY LenProperties
<1>3. DOMAIN q = 1..n BY <1>1, LenProperties
<1>4. r = [name |-> r.name, ul |-> r.ul, entries |-> r.entries] /\ r.name \in Seq(STRING)
      /\ r.ul \in BOOLEAN /\ r.entries \in Seq(Nat)
  BY DEF SectionType
<1> HIDE DEF q, n
<1>5. ASSUME NEW x
      PROVE  /\ [r EXCEPT !.entries = x] = [name |-> r.name, ul |-> r.ul, entries |-> x]
             /\ [r EXCEPT !.ul = x] = [name |-> r.name, ul |-> x, entries |-> r.entries]
  <2> DEFINE a == r.name
             b == r.ul
             c == r.entries
  <2>1. r = [name |-> a, ul |-> b, entries |-> c] BY <1>4
  <2> HIDE DEF a, b, c
  <2>2. /\ [r EXCEPT !.entries = x] = [name |-> a, ul |-> b, entries |-> x]
        /\ [r EXCEPT !.ul = x] = [name |-> a, ul |-> x, entries |-> c]
    BY <2>1, SectionChanged
  <2> QED BY <2>2 DEF a, b, c
<1>6. ASSUME NEW id \in Nat PROVE ReadTag(q, <<"li", id>>) = LastIs(doc, Listing(r, Append(r.entries, id)))
  <2> DEFINE x == Listing(r, Append(r.entries, id))
  <2>1. ReadTag(q, <<"li", id>>) = [q EXCEPT ![n].entries = Append(@, id)] BY <1>1 DEF ReadTag
  <2>2. [r EXCEPT !.entries = Append(@, id)] = x
    <3>1. [r EXCEPT !.entries = Append(r.entries, id)]
          = [name |-> r.name, ul |-> r.ul, entries |-> Append(r.entries, id)]
      BY <1>5
    <3> QED BY <3>1 DEF Listing
  <2>3. [q EXCEPT ![n].entries = Append(@, id)] = [q EXCEPT ![n] = x] BY <1>1, <1>2, <1>3, <2>2
  <2>4. Append(r.entries, id) \in Seq(Nat) BY <1>4, AppendProperties
  <2>5. x \in SectionType BY <1>4, <2>4 DEF SectionType, Listing
  <2> QED BY <1>1, <2>1, <2>3, <2>5 DEF LastIs
<1>7. ReadTag(q, <<"ul", <<>>>>) = LastIs(doc, [name |-> r.name, ul |-> TRUE, entries |-> r.entries])
  <2> DEFINE x == [name |-> r.name, ul |-> TRUE, entries |-> r.entries]
  <2>1. ReadTag(q, <<"ul", <<>>>>) = [q EXCEPT ![n].ul = TRUE] BY <1>1 DEF ReadTag
  <2>2. [r EXCEPT !.ul = TRUE] = x BY <1>5
  <2>3. [q EXCEPT ![n].ul = TRUE] = [q EXCEPT ![n] = x] BY <1>1, <1>2, <1>3, <2>2
  <2>4. x \in SectionType BY <1>4 DEF SectionType
  <2> QED BY <1>1, <2>1, <2>3, <2>4 DEF LastIs
<1> QED BY <1>6, <1>7 DEF q

(* The entries of a section are read in the last one.                      *)
LEMMA EntriesRead ==
    ASSUME NEW p \in Seq(Tag), NEW doc \in Seq(SectionType), Len(doc) >= 1, NEW r \in SectionType,
           r.entries = <<>>, Read(p) = LastIs(doc, r), NEW section \in SectionType
    PROVE  /\ p \o Entries(section) \in Seq(Tag)
           /\ Read(p \o Entries(section)) = LastIs(doc, Listing(r, section.entries))
<1> DEFINE ids == section.entries
           n == Len(ids)
           E == Entries(section)
<1>1. ids \in Seq(Nat) BY DEF SectionType
<1>2. n \in Nat /\ DOMAIN ids = 1..n /\ \A k \in 1..n : ids[k] \in Nat BY <1>1, LenProperties, ElementOfSeq
<1>3. E = [k \in 1..n |-> <<"li", ids[k]>>] BY <1>2 DEF Entries
<1>4. \A k \in Nat : <<"li", k>> \in Tag BY DEF Tag
<1> HIDE DEF ids, n, E
<1>5. E \in Seq(Tag) /\ Len(E) = n /\ \A k \in 1..n : E[k] = <<"li", ids[k]>>
  <2>1. E \in [1..n -> Tag] BY <1>2, <1>3, <1>4
  <2>2. E \in Seq(Tag) BY <1>2, <2>1
  <2> QED BY <1>2, <1>3, <2>1, <2>2
<1> DEFINE S == {k \in 0..n : Read(p \o SubSeq(E, 1, k)) = LastIs(doc, Listing(r, SubSeq(ids, 1, k)))}
<1>6. 0 \in S
  <2>1. SubSeq(E, 1, 0) = <<>> /\ SubSeq(ids, 1, 0) = <<>> BY SubSeqEmpty
  <2>2. p \o <<>> = p BY ConcatEmptySeq
  <2>3. Listing(r, <<>>) = r BY DEF Listing, SectionType
  <2>4. Read(p \o SubSeq(E, 1, 0)) = LastIs(doc, Listing(r, SubSeq(ids, 1, 0))) BY <2>1, <2>2, <2>3
  <2>5. 0 \in 0..n BY <1>2
  <2> QED BY <2>4, <2>5
<1>7. ASSUME NEW k \in 0..n, k \in S, k < n PROVE k + 1 \in S
  <2> DEFINE e == SubSeq(E, 1, k)
             i == SubSeq(ids, 1, k)
             x == Listing(r, i)
             tag == <<"li", ids[k + 1]>>
  <2>1. k + 1 \in 1..n /\ k \in 0..Len(E) /\ k \in 0..Len(ids) /\ k < Len(E) /\ k < Len(ids)
    BY <1>2, <1>5, <1>7 DEF n
  <2>2. e \in Seq(Tag) /\ SubSeq(E, 1, k + 1) = Append(e, E[k + 1])
    BY <1>5, <2>1, FirstMore
  <2>3. i \in Seq(Nat) /\ SubSeq(ids, 1, k + 1) = Append(i, ids[k + 1]) /\ ids[k + 1] \in Nat
    BY <1>1, <2>1, FirstMore DEF ids
  <2>4. E[k + 1] = tag /\ tag \in Tag BY <1>4, <1>5, <2>1, <2>3
  <2>5. p \o e \in Seq(Tag) /\ p \o Append(e, tag) = Append(p \o e, tag)
    <3>1. p \o e \in Seq(Tag) BY <2>2, ConcatProperties
    <3>2. IsList(p) /\ IsList(e) BY <2>2, ListOf
    <3> HIDE DEF e, tag
    <3> QED BY <3>1, <3>2, ListsJoined
  <2>6. Read(p \o e) = LastIs(doc, x) BY <1>7
  <2>7. x \in SectionType /\ x.entries = i /\ Listing(x, Append(i, ids[k + 1])) = Listing(r, Append(i, ids[k + 1]))
    BY <2>3 DEF Listing, SectionType
  <2>8. Read(Append(p \o e, tag)) = ReadTag(LastIs(doc, x), tag)
    <3> HIDE DEF e, tag, x
    <3> QED BY <2>4, <2>5, <2>6, ReadNext
  <2>9. ReadTag(LastIs(doc, x), tag) = LastIs(doc, Listing(x, Append(x.entries, ids[k + 1])))
    <3> HIDE DEF x
    <3> QED BY <2>3, <2>7, TagsRead
  <2>10. k + 1 \in 0..n BY <2>1
  <2> HIDE DEF e, i, x, tag
  <2> QED BY <2>2, <2>3, <2>4, <2>5, <2>7, <2>8, <2>9, <2>10
<1> HIDE DEF S
<1>8. \A k \in 0..n : k \in S BY <1>2, <1>6, <1>7, SetInduction
<1>9. n \in S
  <2>1. n \in 0..n BY <1>2
  <2> QED BY <1>8, <2>1
<1>10. SubSeq(E, 1, n) = E /\ SubSeq(ids, 1, n) = ids
  <2>1. SubSeq(E, 1, Len(E)) = E BY <1>5, SubSeqFull
  <2>2. SubSeq(ids, 1, Len(ids)) = ids BY <1>1, SubSeqFull DEF ids
  <2> QED BY <1>5, <2>1, <2>2 DEF n
<1>11. p \o E \in Seq(Tag) BY <1>5, ConcatProperties
<1> QED BY <1>9, <1>10, <1>11 DEF S, E, ids

(* Three lists that are joined.                                            *)
LEMMA ListsOfThree ==
    ASSUME NEW S, NEW x \in Seq(S), NEW y \in Seq(S), NEW z \in Seq(S), NEW a, a = x \o y, NEW b, b = y \o z
    PROVE  a \o z = x \o b
<1> DEFINE v == a \o z
           w == x \o b
           l == Len(x)
           m == Len(y)
           n == Len(z)
<1>1. l \in Nat /\ m \in Nat /\ n \in Nat BY LenProperties
<1>2. a \in Seq(S) /\ Len(a) = l + m /\ \A i \in 1..(l + m) : a[i] = IF i <= l THEN x[i] ELSE y[i - l]
  BY ConcatProperties
<1>3. b \in Seq(S) /\ Len(b) = m + n /\ \A i \in 1..(m + n) : b[i] = IF i <= m THEN y[i] ELSE z[i - m]
  BY ConcatProperties
<1>4. v \in Seq(S) /\ Len(v) = l + m + n
      /\ \A i \in 1..(l + m + n) : v[i] = IF i <= l + m THEN a[i] ELSE z[i - (l + m)]
  BY <1>2, ConcatProperties
<1>5. w \in Seq(S) /\ Len(w) = l + (m + n) /\ \A i \in 1..(l + (m + n)) : w[i] = IF i <= l THEN x[i] ELSE b[i - l]
  BY <1>3, ConcatProperties
<1> HIDE DEF v, w, l, m, n
<1>6. ASSUME NEW i \in 1..Len(v) PROVE v[i] = w[i]
  <2>1. i \in 1..(l + m + n) BY <1>4
  <2>2. CASE i <= l
    <3>1. i \in 1..(l + m) /\ i \in 1..(l + (m + n)) /\ i <= l + m BY ONLY <1>1, <2>1, <2>2
    <3> QED BY <1>2, <1>4, <1>5, <2>1, <2>2, <3>1
  <2>3. CASE l < i /\ i <= l + m
    <3>1. /\ i \in 1..(l + m) /\ i \in 1..(l + (m + n)) /\ ~(i <= l)
          /\ i - l \in 1..(m + n) /\ i - l <= m
      BY ONLY <1>1, <2>1, <2>3
    <3> QED BY <1>2, <1>3, <1>4, <1>5, <2>1, <2>3, <3>1
  <2>4. CASE l + m < i
    <3>1. /\ i \in 1..(l + (m + n)) /\ ~(i <= l) /\ ~(i <= l + m)
          /\ i - l \in 1..(m + n) /\ ~(i - l <= m) /\ i - l - m = i - (l + m)
      BY ONLY <1>1, <2>1, <2>4
    <3> QED BY <1>3, <1>4, <1>5, <2>1, <3>1
  <2>5. i <= l \/ (l < i /\ i <= l + m) \/ l + m < i BY ONLY <1>1, <2>1
  <2> QED BY <2>2, <2>3, <2>4, <2>5
<1>7. Len(v) = Len(w) BY <1>1, <1>4, <1>5
<1>8. v = w BY <1>4, <1>5, <1>6, <1>7, SeqEqual
<1> QED BY <1>8 DEF v, w

LEMMA LastAppended ==
    ASSUME NEW doc \in Seq(SectionType), NEW r \in SectionType, NEW x \in SectionType
    PROVE  LastIs(Append(doc, r), x) = Append(doc, x)
<1> DEFINE n == Len(doc)
           q == Append(doc, r)
           v == LastIs(q, x)
           w == Append(doc, x)
<1>1. n \in Nat BY LenProperties
<1>2. q \in Seq(SectionType) /\ Len(q) = n + 1 /\ \A k \in 1..n : q[k] = doc[k] BY AppendProperties
<1>3. w \in Seq(SectionType) /\ Len(w) = n + 1 /\ w[n + 1] = x /\ \A k \in 1..n : w[k] = doc[k] BY AppendProperties
<1>4. n + 1 \in 1..Len(q) BY <1>1, <1>2
<1>5. v = [q EXCEPT ![n + 1] = x] BY <1>2 DEF LastIs
<1> HIDE DEF n, q, v, w
<1>6. v \in Seq(SectionType) /\ Len(v) = n + 1 /\ \A k \in 1..(n + 1) : v[k] = IF k = n + 1 THEN x ELSE q[k]
  BY <1>2, <1>4, <1>5, ExceptSeq
<1>7. \A k \in 1..Len(v) : v[k] = w[k]
  <2>1. \A k \in 1..(n + 1) : k = n + 1 \/ k \in 1..n BY <1>1
  <2> QED BY <1>2, <1>3, <1>6, <2>1
<1>8. v = w BY <1>3, <1>6, <1>7, SeqEqual
<1> QED BY <1>8 DEF v, w, q

(* A section is read as it was.                                            *)
LEMMA SectionRead ==
    ASSUME NEW p \in Seq(Tag), NEW doc \in Seq(SectionType), Read(p) = doc, NEW section \in SectionType
    PROVE  /\ p \o SectionSource(section) \in Seq(Tag)
           /\ Read(p \o SectionSource(section)) = Append(doc, section)
<1> DEFINE h == <<"h2", section.name>>
           u == <<"ul", <<>>>>
           U == IF section.ul THEN <<u>> ELSE <<>>
           E == Entries(section)
           a == Append(p, h)
           r == Section(section.name)
           q == Append(doc, r)
           t == [name |-> section.name, ul |-> section.ul, entries |-> <<>>]
           b == IF section.ul THEN Append(a, u) ELSE a
<1>1. /\ section.name \in Seq(STRING) /\ section.ul \in BOOLEAN /\ section.entries \in Seq(Nat)
      /\ section = [name |-> section.name, ul |-> section.ul, entries |-> section.entries]
  BY DEF SectionType
<1>2. h \in Tag /\ u \in Tag BY <1>1 DEF Tag
<1>3. r \in SectionType /\ t \in SectionType /\ r.entries = <<>> /\ t.entries = <<>>
  <2>1. <<>> \in Seq(Nat) BY EmptySeq
  <2> QED BY <1>1, <2>1 DEF Section, SectionType
<1>4. a \in Seq(Tag) /\ b \in Seq(Tag) BY <1>2, AppendProperties
<1>5. Read(a) = q
  <2>1. Read(a) = ReadTag(doc, h) BY <1>2, ReadNext
  <2>2. ReadTag(doc, h) = q BY DEF ReadTag
  <2> QED BY <2>1, <2>2
<1>6. q \in Seq(SectionType) /\ Len(q) = Len(doc) + 1 /\ q[Len(doc) + 1] = r BY <1>3, AppendProperties
<1>7. Len(doc) \in Nat /\ Len(q) >= 1 BY <1>6, LenProperties
<1>8. q = LastIs(q, r)
  <2> HIDE DEF q, r
  <2> QED BY <1>3, <1>6, <1>7, LastChanged
<1>9. Read(b) = LastIs(q, t)
  <2>1. CASE section.ul
    <3>1. Read(b) = ReadTag(q, u)
      <4> HIDE DEF a, u, q
      <4> QED BY <1>2, <1>4, <1>5, <2>1, ReadNext
    <3>2. ReadTag(LastIs(q, r), u) = LastIs(q, [name |-> r.name, ul |-> TRUE, entries |-> r.entries])
      <4> HIDE DEF q, r
      <4> QED BY <1>3, <1>6, <1>7, TagsRead
    <3>3. t = [name |-> r.name, ul |-> TRUE, entries |-> r.entries] BY <2>1 DEF Section
    <3> QED BY <1>8, <3>1, <3>2, <3>3
  <2>2. CASE ~section.ul
    <3>1. section.ul = FALSE BY <1>1, <2>2
    <3>2. t = r BY <3>1 DEF Section
    <3> QED BY <1>5, <1>8, <2>2, <3>2
  <2> QED BY <2>1, <2>2
<1>10. /\ b \o E \in Seq(Tag)
       /\ Read(b \o E) = LastIs(q, Listing(t, section.entries))
  <2> HIDE DEF b, E, q, t
  <2> QED BY <1>3, <1>4, <1>6, <1>7, <1>9, EntriesRead DEF E
<1>11. Listing(t, section.entries) = section BY <1>1 DEF Listing
<1>12. LastIs(q, section) = Append(doc, section) BY <1>3, LastAppended
<1>13. p \o SectionSource(section) = b \o E
  <2> DEFINE H == <<h>>
  <2>1. SectionSource(section) = (H \o U) \o E BY DEF SectionSource
  <2>2. H \in Seq(Tag) /\ U \in Seq(Tag)
    <3>1. <<>> \in Seq(Tag) /\ <<u>> \in Seq(Tag) /\ <<h>> \in Seq(Tag)
      <4> HIDE DEF u, h
      <4> QED BY <1>2, EmptySeq
    <3> QED BY <3>1
  <2>3. E \in Seq(Tag)
    <3>1. <<>> \in Seq(Tag) BY EmptySeq
    <3>2. DOMAIN section.entries = 1..Len(section.entries) /\ Len(section.entries) \in Nat
          /\ \A k \in 1..Len(section.entries) : section.entries[k] \in Nat
      BY <1>1, LenProperties, ElementOfSeq
    <3>3. \A k \in 1..Len(section.entries) : <<"li", section.entries[k]>> \in Tag BY <3>2 DEF Tag
    <3> DEFINE l == Len(section.entries)
    <3>4. E \in [1..l -> Tag] /\ l \in Nat BY <3>2, <3>3 DEF Entries
    <3> HIDE DEF l, E
    <3> QED BY ONLY <3>4
  <2>4. p \o H = a BY <1>2, AppendIsConcat
  <2>5. a \o U = b
    <3>1. CASE section.ul
      <4>1. Append(a, u) = a \o <<u>>
        <5> HIDE DEF a, u
        <5> QED BY <1>2, <1>4, AppendIsConcat
      <4> QED BY <3>1, <4>1
    <3>2. CASE ~section.ul
      <4>1. a \o <<>> = a
        <5> HIDE DEF a
        <5> QED BY <1>4, ConcatEmptySeq
      <4> QED BY <3>2, <4>1
    <3> QED BY <3>1, <3>2
  <2> HIDE DEF H, U, E, a, b
  <2> DEFINE v == H \o U
             w == v \o E
  <2>6. v \in Seq(Tag) BY <2>2, ConcatProperties
  <2>7. a \o U = p \o v
    <3>1. p \in Seq(Tag) /\ H \in Seq(Tag) /\ U \in Seq(Tag) BY <2>2
    <3>2. a = p \o H /\ v = H \o U BY <2>4
    <3> HIDE DEF v
    <3> QED BY ONLY <3>1, <3>2, ListsOfThree
  <2>8. b \o E = p \o w
    <3>1. p \in Seq(Tag) /\ b = p \o v /\ w = v \o E BY <2>5, <2>7
    <3> HIDE DEF v, w
    <3> QED BY <2>3, <2>6, <3>1, ListsOfThree
  <2> QED BY <2>1, <2>8 DEF v, w
<1> QED BY <1>10, <1>11, <1>12, <1>13

-----------------------------------------------------------------------------
(* What the program writes, section after section.                         *)
Writings(doc, n, f) ==
    f = [i \in 1..n |-> IF i = 1 THEN <<<<"head", <<>>>>>> \o Entries(doc[1]) ELSE f[i - 1] \o SectionSource(doc[i])]

LEMMA WritingsExist ==
    ASSUME NEW doc, NEW n \in Nat
    PROVE  \E f : Writings(doc, n, f)
<1> DEFINE H == <<<<"head", <<>>>>>> \o Entries(doc[1])
           S == {k \in 0..n : \E f : Writings(doc, k, f)}
<1>1. 0 \in S
  <2> DEFINE f == [i \in 1..0 |-> H]
  <2>1. f = [i \in 1..0 |-> IF i = 1 THEN H ELSE f[i - 1] \o SectionSource(doc[i])]
    <3>1. 1..0 = {} OBVIOUS
    <3> QED BY <3>1
  <2>2. Writings(doc, 0, f) BY <2>1 DEF Writings
  <2> QED BY <2>2
<1>2. ASSUME NEW k \in 0..n, k \in S, k < n PROVE k + 1 \in S
  <2>1. PICK f : Writings(doc, k, f) BY <1>2
  <2> DEFINE x == IF k + 1 = 1 THEN H ELSE f[k] \o SectionSource(doc[k + 1])
             g == [i \in 1..(k + 1) |-> IF i = k + 1 THEN x ELSE f[i]]
  <2>2. ASSUME NEW i \in 1..(k + 1)
        PROVE  g[i] = IF i = 1 THEN H ELSE g[i - 1] \o SectionSource(doc[i])
    <3>1. CASE i = k + 1
      <4>1. g[i] = x BY <3>1
      <4>2. i # 1 => i - 1 = k /\ i - 1 \in 1..(k + 1) /\ i - 1 # k + 1 BY <1>2, <3>1
      <4>3. i # 1 => g[i - 1] = f[k] BY <4>2
      <4> HIDE DEF g, H
      <4> QED BY <3>1, <4>1, <4>2, <4>3
    <3>2. CASE i # k + 1
      <4>1. i \in 1..k BY <1>2, <3>2
      <4>2. f[i] = IF i = 1 THEN H ELSE f[i - 1] \o SectionSource(doc[i]) BY <2>1, <4>1 DEF Writings
      <4>3. g[i] = f[i] BY <3>2
      <4>4. i # 1 => g[i - 1] = f[i - 1]
        <5>1. i # 1 => i - 1 \in 1..(k + 1) /\ i - 1 # k + 1 BY <4>1
        <5> QED BY <5>1
      <4> HIDE DEF g, H
      <4> QED BY <4>2, <4>3, <4>4
    <3> QED BY <3>1, <3>2
  <2>3. g = [i \in 1..(k + 1) |-> g[i]] OBVIOUS
  <2> HIDE DEF g
  <2>4. Writings(doc, k + 1, g) BY <2>2, <2>3, Zenon DEF Writings
  <2>5. k + 1 \in 0..n BY <1>2
  <2> QED BY <2>4, <2>5
<1> HIDE DEF S
<1>3. \A k \in 0..n : k \in S BY <1>1, <1>2, SetInduction
<1> QED BY <1>3 DEF S

LEMMA SourceBy ==
    ASSUME NEW doc, Len(doc) \in Nat
    PROVE  \E f : /\ Writings(doc, Len(doc), f)
                  /\ bookmark_to_source(doc) = Append(f[Len(doc)], <<"tail", <<>>>>)
<1> DEFINE g == CHOOSE h : Writings(doc, Len(doc), h)
<1>1. Writings(doc, Len(doc), g) BY WritingsExist
<1>2. bookmark_to_source(doc) = Append(g[Len(doc)], <<"tail", <<>>>>) BY DEF bookmark_to_source, Writings
<1> QED BY <1>1, <1>2

(* A page that is made a source and read again is what it was.             *)
LEMMA RoundTrip ==
    ASSUME NEW doc, GoodDoc(doc)
    PROVE  bookmark_to_source(doc) \in Seq(Tag) /\ Read(bookmark_to_source(doc)) = doc
<1> DEFINE n == Len(doc)
           head == <<"head", <<>>>>
           tail == <<"tail", <<>>>>
<1>1. doc \in Seq(SectionType) /\ n \in Nat /\ n >= 1 /\ \A i \in 1..n : doc[i] \in SectionType
  BY LenProperties, ElementOfSeq DEF GoodDoc
<1>2. PICK f : Writings(doc, n, f) /\ bookmark_to_source(doc) = Append(f[n], tail) BY <1>1, SourceBy
<1>3. head \in Tag /\ tail \in Tag BY DEF Tag
<1> DEFINE S == {k \in 0..n : k # 0 => f[k] \in Seq(Tag) /\ Read(f[k]) = SubSeq(doc, 1, k)}
<1>4. 0 \in S BY <1>1
<1>5. ASSUME NEW k \in 0..n, k \in S, k < n PROVE k + 1 \in S
  <2>0. k + 1 \in 1..n /\ k + 1 \in 0..n BY <1>1, <1>5
  <2>1. CASE k = 0
    <3> DEFINE r == doc[1]
               none == <<>>
    <3>1. f[1] = <<head>> \o Entries(r) /\ k + 1 = 1 BY <1>2, <2>0, <2>1 DEF Writings
    <3>2. r \in SectionType /\ r.name = none /\ r.ul = FALSE BY <1>1 DEF GoodDoc
    <3>3. none \in Seq(Tag) /\ Append(none, head) = <<head>>
      <4>1. none \in Seq(Tag) BY EmptySeq
      <4> QED BY <4>1
    <3>4. <<head>> \in Seq(Tag) BY <1>3
    <3>5. Read(<<head>>) = Untitled
      <4>1. Read(Append(none, head)) = ReadTag(Read(none), head)
        <5> HIDE DEF none, head
        <5> QED BY <1>3, <3>3, ReadNext
      <4>2. ReadTag(Untitled, head) = Untitled BY DEF ReadTag
      <4> QED BY <3>3, <4>1, <4>2, ReadNone
    <3> DEFINE u == Section(none)
    <3>6. u \in SectionType /\ u.entries = none /\ Listing(u, r.entries) = r
      <4>1. none \in Seq(Nat) /\ none \in Seq(STRING) BY EmptySeq
      <4> QED BY <3>2, <4>1 DEF Section, SectionType, Listing
    <3>7. Untitled \in Seq(SectionType) /\ Len(Untitled) = 1 /\ LastIs(Untitled, u) = Untitled
          /\ LastIs(Untitled, r) = <<r>>
      BY <3>6 DEF Untitled, LastIs
    <3>8. <<head>> \o Entries(r) \in Seq(Tag) /\ Read(<<head>> \o Entries(r)) = LastIs(Untitled, Listing(u, r.entries))
      <4> DEFINE p == <<head>>
      <4>1. p \in Seq(Tag) /\ Read(p) = LastIs(Untitled, u) BY <3>4, <3>5, <3>7
      <4> HIDE DEF p, u, r
      <4>2. u.entries = <<>> BY <3>6
      <4>3. Len(Untitled) >= 1 BY <3>7
      <4>4. p \o Entries(r) \in Seq(Tag) /\ Read(p \o Entries(r)) = LastIs(Untitled, Listing(u, r.entries))
        BY <3>2, <3>6, <3>7, <4>1, <4>2, <4>3, EntriesRead
      <4> QED BY <4>4 DEF p
    <3>9. SubSeq(doc, 1, 1) = <<r>>
      <4>1. 1 \in 1..Len(doc) BY <1>1
      <4>2. SubSeq(doc, 1, 1) = SubSeq(doc, 1, 1 - 1) \o <<doc[1]>> BY <1>1, <4>1, SubSeqRecursiveSecond
      <4>3. SubSeq(doc, 1, 1 - 1) = <<>> BY SubSeqEmpty
      <4>4. <<>> \o <<r>> = <<r>>
        <5>1. <<r>> \in Seq(SectionType) BY <3>2
        <5> QED BY <5>1, ConcatEmptySeq
      <4> QED BY <4>2, <4>3, <4>4
    <3> HIDE DEF r, u
    <3> QED BY <2>0, <3>1, <3>6, <3>7, <3>8, <3>9
  <2>2. CASE k # 0
    <3>1. f[k + 1] = f[k] \o SectionSource(doc[k + 1])
      <4>1. k + 1 # 1 /\ (k + 1) - 1 = k BY <2>2
      <4> QED BY <1>2, <2>0, <4>1 DEF Writings
    <3>2. f[k] \in Seq(Tag) /\ Read(f[k]) = SubSeq(doc, 1, k) BY <1>5, <2>2
    <3>3. SubSeq(doc, 1, k) \in Seq(SectionType)
          /\ SubSeq(doc, 1, k + 1) = Append(SubSeq(doc, 1, k), doc[k + 1])
      BY <1>1, <1>5, FirstMore
    <3>4. doc[k + 1] \in SectionType BY <1>1, <2>0
    <3>5. f[k + 1] \in Seq(Tag) /\ Read(f[k + 1]) = Append(SubSeq(doc, 1, k), doc[k + 1])
      BY <3>1, <3>2, <3>3, <3>4, SectionRead
    <3> QED BY <2>0, <3>3, <3>5
  <2> QED BY <2>1, <2>2
<1> HIDE DEF S
<1>6. \A k \in 0..n : k \in S BY <1>1, <1>4, <1>5, SetInduction
<1>7. f[n] \in Seq(Tag) /\ Read(f[n]) = doc
  <2>1. n \in 0..n /\ n # 0 BY <1>1
  <2>2. SubSeq(doc, 1, n) = doc BY <1>1, SubSeqFull
  <2> QED BY <1>6, <2>1, <2>2 DEF S
<1>8. Append(f[n], tail) \in Seq(Tag) BY <1>3, <1>7, AppendProperties
<1>9. Read(Append(f[n], tail)) = ReadTag(doc, tail)
  <2> HIDE DEF tail
  <2> QED BY <1>3, <1>7, ReadNext
<1>10. ReadTag(doc, tail) = doc BY DEF ReadTag
<1> QED BY <1>2, <1>8, <1>9, <1>10

(* Nothing is swallowed of a source without markup, ...                    *)
PlainTag == {tag \in Tag : ~HasMarkup(tag)}

LEMMA SeenWhole ==
    ASSUME NEW q \in Seq(PlainTag)
    PROVE  Seen(q) = q
<1>1. \A k \in DOMAIN q : q[k] \in PlainTag BY LenProperties, ElementOfSeq
<1>2. {k \in DOMAIN q : HasMarkup(q[k])} = {} BY <1>1 DEF PlainTag
<1> QED BY <1>2 DEF Seen

LEMMA ParsedNone == Parsed(<<>>) = Untitled
<1>1. <<>> \in Seq(PlainTag) BY EmptySeq
<1>2. Seen(<<>>) = <<>> BY <1>1, SeenWhole
<1> QED BY <1>2, ReadNone DEF Parsed

(* ... and that of a page that has none is such a source: its entries, ... *)
LEMMA EntriesPlain ==
    ASSUME NEW section \in SectionType, \A k \in DOMAIN section.entries : section.entries[k] \notin MarkupIds
    PROVE  Entries(section) \in Seq(PlainTag)
<1> DEFINE ids == section.entries
           n == Len(ids)
           E == Entries(section)
<1>1. ids \in Seq(Nat) BY DEF SectionType
<1>2. n \in Nat /\ DOMAIN ids = 1..n /\ \A k \in 1..n : ids[k] \in Nat BY <1>1, LenProperties, ElementOfSeq
<1>3. E = [k \in 1..n |-> <<"li", ids[k]>>] BY <1>2 DEF Entries
<1>4. \A k \in 1..n : <<"li", ids[k]>> \in PlainTag
  <2>1. \A k \in 1..n : <<"li", ids[k]>> \in Tag BY <1>2 DEF Tag
  <2>2. \A k \in 1..n : ~HasMarkup(<<"li", ids[k]>>) BY <1>2 DEF HasMarkup
  <2> QED BY <2>1, <2>2 DEF PlainTag
<1> HIDE DEF ids, n, E
<1>5. E \in [1..n -> PlainTag] BY <1>3, <1>4
<1>6. E \in Seq(PlainTag) BY <1>2, <1>5
<1> QED BY <1>6 DEF E

(* ... a section, ...                                                      *)
LEMMA SectionPlain ==
    ASSUME NEW section \in SectionType, \A k \in DOMAIN section.entries : section.entries[k] \notin MarkupIds,
           section.name \notin MarkupNames
    PROVE  SectionSource(section) \in Seq(PlainTag)
<1> DEFINE h == <<"h2", section.name>>
           u == <<"ul", <<>>>>
           H == <<h>>
           U == IF section.ul THEN <<u>> ELSE <<>>
           E == Entries(section)
<1>1. h \in PlainTag /\ u \in PlainTag
  <2>1. section.name \in Seq(STRING) BY DEF SectionType
  <2>2. h \in Tag /\ u \in Tag BY <2>1 DEF Tag
  <2>3. ~HasMarkup(h) /\ ~HasMarkup(u) BY DEF HasMarkup
  <2> QED BY <2>2, <2>3 DEF PlainTag
<1>2. H \in Seq(PlainTag) /\ U \in Seq(PlainTag)
  <2>1. <<>> \in Seq(PlainTag) BY EmptySeq
  <2> HIDE DEF h, u
  <2>2. <<h>> \in Seq(PlainTag) /\ <<u>> \in Seq(PlainTag) BY <1>1
  <2> QED BY <2>1, <2>2
<1>3. E \in Seq(PlainTag) BY EntriesPlain
<1>4. SectionSource(section) = (H \o U) \o E BY DEF SectionSource
<1> HIDE DEF H, U, E
<1>5. H \o U \in Seq(PlainTag) BY <1>2, ConcatProperties
<1>6. (H \o U) \o E \in Seq(PlainTag) BY <1>3, <1>5, ConcatProperties
<1> QED BY <1>4, <1>6

(* ... and all of it: so it is read back as what it was.                   *)
LEMMA PlainRead ==
    ASSUME NEW doc, GoodDoc(doc), Plain(doc)
    PROVE  Parsed(bookmark_to_source(doc)) = doc
<1> DEFINE n == Len(doc)
           head == <<"head", <<>>>>
           tail == <<"tail", <<>>>>
<1>1. doc \in Seq(SectionType) /\ n \in Nat /\ n >= 1 /\ DOMAIN doc = 1..n /\ \A i \in 1..n : doc[i] \in SectionType
  BY LenProperties, ElementOfSeq DEF GoodDoc
<1>2. PICK f : Writings(doc, n, f) /\ bookmark_to_source(doc) = Append(f[n], tail) BY <1>1, SourceBy
<1>3. head \in PlainTag /\ tail \in PlainTag BY DEF Tag, PlainTag, HasMarkup
<1>4. \A i \in 1..n : \A k \in DOMAIN doc[i].entries : doc[i].entries[k] \notin MarkupIds
  BY <1>1 DEF Plain, IdsOf
<1>5. \A i \in 2..n : doc[i].name \notin MarkupNames BY DEF Plain, NamesOf, Heads
<1> DEFINE S == {k \in 0..n : k # 0 => f[k] \in Seq(PlainTag)}
<1>6. 0 \in S BY <1>1
<1>7. ASSUME NEW k \in 0..n, k \in S, k < n PROVE k + 1 \in S
  <2>0. k + 1 \in 1..n /\ k + 1 \in 0..n BY <1>1, <1>7
  <2>1. CASE k = 0
    <3>1. f[1] = <<head>> \o Entries(doc[1]) /\ k + 1 = 1 BY <1>2, <2>0, <2>1 DEF Writings
    <3>2. Entries(doc[1]) \in Seq(PlainTag)
      <4>1. 1 \in 1..n BY <1>1
      <4> QED BY <1>1, <1>4, <4>1, EntriesPlain
    <3>3. <<head>> \in Seq(PlainTag)
      <4> HIDE DEF head
      <4> QED BY <1>3
    <3>4. <<head>> \o Entries(doc[1]) \in Seq(PlainTag) BY <3>2, <3>3, ConcatProperties
    <3> QED BY <2>0, <3>1, <3>4
  <2>2. CASE k # 0
    <3>1. f[k + 1] = f[k] \o SectionSource(doc[k + 1])
      <4>1. k + 1 # 1 /\ (k + 1) - 1 = k BY <2>2
      <4> QED BY <1>2, <2>0, <4>1 DEF Writings
    <3>2. f[k] \in Seq(PlainTag) BY <1>7, <2>2
    <3>3. k + 1 \in 2..n BY <1>7, <2>2, <2>0
    <3>4. SectionSource(doc[k + 1]) \in Seq(PlainTag) BY <1>1, <1>4, <1>5, <2>0, <3>3, SectionPlain
    <3>5. f[k] \o SectionSource(doc[k + 1]) \in Seq(PlainTag) BY <3>2, <3>4, ConcatProperties
    <3> QED BY <2>0, <3>1, <3>5
  <2> QED BY <2>1, <2>2
<1> HIDE DEF S
<1>8. \A k \in 0..n : k \in S BY <1>1, <1>6, <1>7, SetInduction
<1>9. f[n] \in Seq(PlainTag)
  <2>1. n \in 0..n /\ n # 0 BY <1>1
  <2> QED BY <1>8, <2>1 DEF S
<1>10. bookmark_to_source(doc) \in Seq(PlainTag) BY <1>2, <1>3, <1>9, AppendProperties
<1>11. Seen(bookmark_to_source(doc)) = bookmark_to_source(doc) BY <1>10, SeenWhole
<1> QED BY <1>11, RoundTrip DEF Parsed

-----------------------------------------------------------------------------
(* A page with one entry more.                                             *)

(* A list of two.                                                          *)
LEMMA OneAndOne ==
    ASSUME NEW S, NEW x \in Seq(S), NEW b \in S, Len(x) = 1
    PROVE  Append(x, b) \in Seq(S) /\ Len(Append(x, b)) = 2 /\ Append(x, b)[1] = x[1] /\ Append(x, b)[2] = b
<1> DEFINE y == Append(x, b)
           l == Len(x)
<1>1. y \in Seq(S) /\ Len(y) = l + 1 /\ (\A i \in 1..l : y[i] = x[i]) /\ y[l + 1] = b
  BY AppendProperties
<1>2. l = 1 /\ l + 1 = 2 /\ 1 \in 1..l OBVIOUS
<1> HIDE DEF y, l
<1> QED BY <1>1, <1>2 DEF y

LEMMA TwoItems ==
    ASSUME NEW a, NEW b
    PROVE  Append(<<a>>, b) = <<a, b>>
<1> DEFINE S == {a, b}
           x == <<a>>
           w == <<a, b>>
<1>1. x \in Seq(S) /\ Len(x) = 1 /\ x[1] = a OBVIOUS
<1>2. w \in Seq(S) /\ Len(w) = 2 /\ w[1] = a /\ w[2] = b OBVIOUS
<1>3. b \in S OBVIOUS
<1> HIDE DEF S, x, w
<1>4. Append(x, b) \in Seq(S) /\ Len(Append(x, b)) = 2 /\ Append(x, b)[1] = x[1] /\ Append(x, b)[2] = b BY <1>1, <1>3, OneAndOne
<1>5. \A i \in 1..Len(w) : Append(x, b)[i] = w[i]
  <2>1. \A i \in 1..2 : i = 1 \/ i = 2 OBVIOUS
  <2> QED BY <1>1, <1>2, <1>4, <2>1
<1>6. Append(x, b) = w BY <1>2, <1>4, <1>5, SeqEqual
<1> QED BY <1>6 DEF x, w

(* The file when it is made.                                               *)
LEMMA UntitledGood ==
    /\ GoodDoc(Untitled) /\ Heads(Untitled) = {} /\ IdsOf(Untitled) = {} /\ Plain(Untitled)
    /\ bookmark_to_source(Untitled) = EmptyBookmark
<1> DEFINE none == <<>>
           head == <<"head", <<>>>>
           tail == <<"tail", <<>>>>
<1>1. none \in Seq(Nat) /\ none \in Seq(STRING) BY EmptySeq
<1>2. Section(none) \in SectionType BY <1>1 DEF Section, SectionType
<1>3. Untitled \in Seq(SectionType) /\ Len(Untitled) = 1 /\ Untitled[1] = Section(none)
  BY <1>2 DEF Untitled
<1>4. Heads(Untitled) = {} BY <1>3 DEF Heads
<1>5. IdsOf(Untitled) = {}
  <2>1. DOMAIN Untitled = {1} /\ DOMAIN Section(none).entries = {} BY DEF Untitled, Section
  <2> QED BY <1>3, <2>1 DEF IdsOf
<1>6. GoodDoc(Untitled) BY <1>3, <1>4 DEF GoodDoc, Section
<1>7. bookmark_to_source(Untitled) = EmptyBookmark
  <2>1. PICK f : Writings(Untitled, 1, f) /\ bookmark_to_source(Untitled) = Append(f[1], tail)
    <3> DEFINE u == Untitled
    <3>1. Len(u) = 1 BY <1>3
    <3> HIDE DEF u
    <3>2. Len(u) \in Nat BY <3>1
    <3>3. \E f : Writings(u, Len(u), f) /\ bookmark_to_source(u) = Append(f[Len(u)], <<"tail", <<>>>>)
      BY <3>2, SourceBy
    <3> QED BY <3>1, <3>3 DEF u
  <2>2. f[1] = <<head>> \o Entries(Section(none)) BY <1>3, <2>1 DEF Writings
  <2>3. Entries(Section(none)) = <<>> BY DEF Entries, Section
  <2>4. <<head>> \o <<>> = <<head>>
    <3>1. <<head>> \in Seq({head}) OBVIOUS
    <3> QED BY <3>1, ConcatEmptySeq
  <2>5. Append(<<head>>, tail) = <<head, tail>> BY TwoItems
  <2> QED BY <2>1, <2>2, <2>3, <2>4, <2>5 DEF EmptyBookmark
<1>8. Plain(Untitled) BY <1>4, <1>5 DEF Plain, NamesOf
<1> QED BY <1>4, <1>5, <1>6, <1>7, <1>8

LEMMA EntryMore ==
    ASSUME NEW e \in Seq(Nat), NEW id \in Nat
    PROVE  /\ Append(e, id) \in Seq(Nat)
           /\ Range(Append(e, id)) = Range(e) \cup {id}
           /\ id \notin Range(e) => Cardinality({k \in DOMAIN Append(e, id) : Append(e, id)[k] = id}) = 1
           /\ \A x : x # id => {k \in DOMAIN Append(e, id) : Append(e, id)[k] = x} = {k \in DOMAIN e : e[k] = x}
<1> DEFINE n == Len(e)
           q == Append(e, id)
<1>1. n \in Nat /\ DOMAIN e = 1..n BY LenProperties
<1>2. q \in Seq(Nat) /\ Len(q) = n + 1 /\ q[n + 1] = id /\ \A k \in 1..n : q[k] = e[k] BY AppendProperties
<1>3. DOMAIN q = 1..(n + 1) BY <1>2, LenProperties
<1> HIDE DEF n, q
<1>4. \A k \in 1..(n + 1) : k \in 1..n \/ k = n + 1 BY <1>1
<1>5. n + 1 \in 1..(n + 1) /\ n + 1 \notin 1..n /\ \A k \in 1..n : k \in 1..(n + 1) BY <1>1
<1>6. Range(q) = Range(e) \cup {id} BY <1>1, <1>2, <1>3, <1>4, <1>5 DEF Range
<1>7. ASSUME id \notin Range(e) PROVE Cardinality({k \in DOMAIN q : q[k] = id}) = 1
  <2>1. {k \in DOMAIN q : q[k] = id} = {n + 1} BY <1>1, <1>2, <1>3, <1>4, <1>5, <1>7 DEF Range
  <2> QED BY <2>1, FS_Singleton
<1>8. ASSUME NEW x, x # id PROVE {k \in DOMAIN q : q[k] = x} = {k \in DOMAIN e : e[k] = x}
  BY <1>1, <1>2, <1>3, <1>4, <1>5, <1>8
<1> QED BY <1>2, <1>6, <1>7, <1>8 DEF q

(* From doc to page, one section has an entry more, or is new.             *)
Longer(doc, page, i, e, id) ==
    /\ i \in Heads(page) /\ Heads(page) = Heads(doc) \cup {i}
    /\ \A j \in Heads(doc) \ {i} : page[j] = doc[j]
    /\ e \in Seq(Nat) /\ page[i].entries = Append(e, id)
    /\ IF i \in Heads(doc) THEN e = doc[i].entries /\ page[i].name = doc[i].name ELSE e = <<>>

LEMMA IdsInHeads ==
    ASSUME NEW doc, GoodDoc(doc)
    PROVE  /\ \A i \in Heads(doc) : i \in DOMAIN doc /\ doc[i] \in SectionType /\ Range(doc[i].entries) \subseteq IdsOf(doc)
           /\ \A c : HasBookmark(doc, c) => c.id \in IdsOf(doc)
<1>1. Len(doc) \in Nat /\ DOMAIN doc = 1..Len(doc) /\ \A i \in 1..Len(doc) : doc[i] \in SectionType
  BY LenProperties, ElementOfSeq DEF GoodDoc
<1>2. ASSUME NEW i \in Heads(doc)
      PROVE  i \in DOMAIN doc /\ doc[i] \in SectionType /\ Range(doc[i].entries) \subseteq IdsOf(doc)
  <2>1. i \in DOMAIN doc BY <1>1 DEF Heads
  <2> QED BY <1>1, <2>1 DEF Range, IdsOf
<1>3. ASSUME NEW c, HasBookmark(doc, c) PROVE c.id \in IdsOf(doc)
  <2>1. PICK i \in Heads(doc) : Cardinality({k \in DOMAIN doc[i].entries : doc[i].entries[k] = c.id}) = 1
    BY <1>3 DEF HasBookmark
  <2>2. {k \in DOMAIN doc[i].entries : doc[i].entries[k] = c.id} # {} BY <2>1, FS_EmptySet
  <2>3. c.id \in Range(doc[i].entries) BY <2>2 DEF Range
  <2> QED BY <1>2, <2>3
<1> QED BY <1>2, <1>3

LEMMA LongerHas ==
    ASSUME NEW doc, GoodDoc(doc), NEW page, NEW i, NEW e, NEW id \in Nat, Longer(doc, page, i, e, id),
           id \notin IdsOf(doc), NEW b, b.id = id, Placed(b, page[i].name)
    PROVE  /\ HasBookmark(page, b)
           /\ \A c : HasBookmark(doc, c) => HasBookmark(page, c)
<1>1. /\ i \in Heads(page) /\ Heads(page) = Heads(doc) \cup {i}
      /\ \A j \in Heads(doc) \ {i} : page[j] = doc[j]
      /\ e \in Seq(Nat) /\ page[i].entries = Append(e, id)
  BY DEF Longer
<1>2. /\ \A j \in Heads(doc) : Range(doc[j].entries) \subseteq IdsOf(doc)
      /\ \A c : HasBookmark(doc, c) => c.id \in IdsOf(doc)
  BY IdsInHeads
<1>3. Range(e) \subseteq IdsOf(doc) /\ (i \notin Heads(doc) => Range(e) = {})
  <2>1. Range(<<>>) = {} BY DEF Range
  <2> QED BY <1>2, <2>1 DEF Longer
<1>4. /\ Range(Append(e, id)) = Range(e) \cup {id}
      /\ Cardinality({k \in DOMAIN Append(e, id) : Append(e, id)[k] = id}) = 1
      /\ \A x : x # id => {k \in DOMAIN Append(e, id) : Append(e, id)[k] = x} = {k \in DOMAIN e : e[k] = x}
  BY <1>1, <1>3, EntryMore
<1>5. HasBookmark(page, b)
  <2>1. \A j \in Heads(page) \ {i} : b.id \notin Range(page[j].entries) BY <1>1, <1>2
  <2>2. Cardinality({k \in DOMAIN page[i].entries : page[i].entries[k] = b.id}) = 1 BY <1>1, <1>4
  <2> QED BY <1>1, <2>1, <2>2 DEF HasBookmark
<1>6. ASSUME NEW c, HasBookmark(doc, c) PROVE HasBookmark(page, c)
  <2>1. c.id # id BY <1>2, <1>6
  <2>2. PICK j \in Heads(doc) :
            /\ Placed(c, doc[j].name)
            /\ Cardinality({k \in DOMAIN doc[j].entries : doc[j].entries[k] = c.id}) = 1
            /\ \A m \in Heads(doc) \ {j} : c.id \notin Range(doc[m].entries)
    BY <1>6 DEF HasBookmark
  <2>3. c.id \in Range(page[i].entries) <=> c.id \in Range(e) BY <1>1, <1>4, <2>1
  <2>4. \A m \in Heads(page) \ {j} : c.id \notin Range(page[m].entries)
    <3>1. \A m \in Heads(page) \ {j} : m # i => c.id \notin Range(page[m].entries) BY <1>1, <2>2
    <3>2. j # i => c.id \notin Range(e)
      <4>1. i \in Heads(doc) => e = doc[i].entries BY DEF Longer
      <4> QED BY <1>3, <2>2, <4>1
    <3> QED BY <2>3, <3>1, <3>2
  <2>5. Placed(c, page[j].name) BY <1>1, <2>2 DEF Longer
  <2>6. Cardinality({k \in DOMAIN page[j].entries : page[j].entries[k] = c.id}) = 1
    <3>1. CASE j = i
      <4>1. e = doc[i].entries BY <3>1 DEF Longer
      <4>2. {k \in DOMAIN page[i].entries : page[i].entries[k] = c.id}
            = {k \in DOMAIN e : e[k] = c.id}
        BY <1>1, <1>4, <2>1
      <4>3. Cardinality({k \in DOMAIN e : e[k] = c.id}) = 1 BY <2>2, <3>1, <4>1
      <4> QED BY <3>1, <4>2, <4>3
    <3>2. CASE j # i BY <1>1, <2>2, <3>2
    <3> QED BY <3>1, <3>2
  <2> QED BY <1>1, <2>4, <2>5, <2>6 DEF HasBookmark
<1> QED BY <1>5, <1>6

(* Where an entry is added.                                                *)
LEMMA EntryPlaced ==
    ASSUME NEW doc, GoodDoc(doc), NEW word \in Seq(STRING), NEW prefix \in BOOLEAN, NEW id \in Nat,
           NEW place, place = bookmark_section_ul_get(doc, word, prefix), place # Nowhere,
           NEW page, page = EntryAdded(doc, word, place, id), NEW b, b = [id |-> id, word |-> word, prefix |-> prefix]
    PROVE  /\ GoodDoc(page)
           /\ IdsOf(page) \subseteq IdsOf(doc) \cup {id} /\ NamesOf(page) \subseteq NamesOf(doc) \cup {word}
           /\ Placed(b, page[place].name)
           /\ \E e : Longer(doc, page, place, e, id)
<1> DEFINE n == Len(doc)
           found == Matches(doc, word, prefix)
           none == <<>>
<1>1. doc \in Seq(SectionType) /\ n \in Nat /\ n >= 1 /\ DOMAIN doc = 1..n /\ \A i \in 1..n : doc[i] \in SectionType
  BY LenProperties, ElementOfSeq DEF GoodDoc
<1>2. /\ doc[1].name = <<>> /\ doc[1].ul = FALSE
      /\ \A i, j \in Heads(doc) : doc[i].name = doc[j].name => i = j
  BY DEF GoodDoc
<1>3. none \in Seq(Nat) /\ <<id>> = Append(none, id)
  <2>1. none \in Seq(Nat) BY EmptySeq
  <2> QED BY <2>1
<1>4. \A i \in found : i \in Heads(doc) /\ Placed(b, doc[i].name) BY DEF Matches, Placed
<1>5. found = {} => \A i \in Heads(doc) : ~Placed(b, doc[i].name) BY DEF Matches, Placed
<1>6. CASE found = {}
  <2> DEFINE x == [name |-> word, ul |-> TRUE, entries |-> Append(none, id)]
  <2>1. prefix = FALSE /\ place = n + 1
    BY <1>6 DEF bookmark_section_ul_get, Anew, Nowhere
  <2>2. x \in SectionType
    <3>1. Append(none, id) \in Seq(Nat) BY <1>3, AppendProperties
    <3> QED BY <3>1 DEF SectionType
  <2>3. page = Append(doc, x) BY <1>3, <2>1 DEF EntryAdded, Anew, bookmark_section_insert
  <2>4. x.name = word /\ x.entries = Append(none, id) OBVIOUS
  <2> HIDE DEF x, found, n, none
  <2>5. page \in Seq(SectionType) /\ Len(page) = n + 1 /\ page[n + 1] = x /\ \A k \in 1..n : page[k] = doc[k]
    BY <1>1, <2>2, <2>3, AppendProperties DEF n
  <2>6. DOMAIN page = 1..(n + 1) BY <2>5, LenProperties
  <2>7. Heads(doc) = 2..n /\ Heads(page) = 2..(n + 1) BY <2>5 DEF Heads, n
  <2>8. \A i \in 2..(n + 1) : i = n + 1 \/ (i \in 2..n /\ i \in 1..n) BY <1>1
  <2>9. \A i \in 2..n : i \in 2..(n + 1) /\ i # n + 1 /\ i \in 1..n BY <1>1
  <2>10. n + 1 \in 2..(n + 1) /\ 1 \in 1..n BY <1>1
  <2>11. \A i \in Heads(doc) : doc[i].name # word BY <1>5, <1>6, <2>1 DEF Placed
  <2>12. GoodDoc(page)
    <3>1. page[1] = doc[1] BY <2>5, <2>10
    <3>2. \A i, j \in Heads(page) : page[i].name = page[j].name => i = j
      BY <1>2, <2>4, <2>5, <2>7, <2>8, <2>9, <2>11
    <3>3. Len(page) >= 1 BY <1>1, <2>5
    <3> QED BY <1>2, <2>5, <3>1, <3>2, <3>3 DEF GoodDoc
  <2>13. IdsOf(page) \subseteq IdsOf(doc) \cup {id}
    <3>1. \A k \in DOMAIN x.entries : x.entries[k] = id
      BY <1>3, <2>4
    <3>2. \A i \in 1..(n + 1) : i = n + 1 \/ i \in 1..n BY <1>1
    <3> QED BY <1>1, <2>5, <2>6, <3>1, <3>2 DEF IdsOf
  <2>14. Placed(b, page[place].name) BY <2>1, <2>4, <2>5 DEF Placed
  <2>15. Longer(doc, page, n + 1, none, id)
    <3>1. Heads(page) = Heads(doc) \cup {n + 1} /\ n + 1 \notin Heads(doc) BY <2>7, <2>8, <2>9, <2>10
    <3>2. \A j \in Heads(doc) : page[j] = doc[j] BY <2>5, <2>7, <2>9
    <3> QED BY <1>3, <2>4, <2>5, <3>1, <3>2 DEF Longer, none
  <2>16. NamesOf(page) \subseteq NamesOf(doc) \cup {word} BY <2>4, <2>5, <2>7, <2>8 DEF NamesOf
  <2> QED BY <2>1, <2>12, <2>13, <2>14, <2>15, <2>16
<1>7. CASE found # {}
  <2>1. place \in found
    <3>1. PICK i \in found : TRUE BY <1>7
    <3>2. (CHOOSE j \in found : TRUE) \in found BY <3>1
    <3> QED BY <1>7, <3>2 DEF bookmark_section_ul_get, Nowhere
  <2>2. place \in Heads(doc) /\ Placed(b, doc[place].name) BY <1>4, <2>1
  <2> DEFINE s == doc[place]
             e == s.entries
             x == [name |-> s.name, ul |-> s.ul, entries |-> Append(e, id)]
  <2>3. place \in 1..n /\ place # 1 /\ place # n + 1 /\ place \in Int BY <1>1, <2>2 DEF Heads
  <2>4. s \in SectionType BY <1>1, <2>3
  <2>5. /\ s.name \in Seq(STRING) /\ s.ul \in BOOLEAN /\ e \in Seq(Nat)
        /\ s = [name |-> s.name, ul |-> s.ul, entries |-> e]
    BY <2>4 DEF SectionType
  <2>6. [s EXCEPT !.entries = Append(e, id)] = x
    <3> DEFINE c == s.name
               d == s.ul
               y == Append(e, id)
    <3>1. s = [name |-> c, ul |-> d, entries |-> e] BY <2>5
    <3> HIDE DEF c, d, e, s, x, y
    <3>2. [s EXCEPT !.entries = y] = [name |-> c, ul |-> d, entries |-> y]
      BY ONLY <3>1, SectionChanged
    <3> QED BY <3>2 DEF c, d, e, s, x, y
  <2>7. page = [doc EXCEPT ![place] = x]
    <3>1. page = [doc EXCEPT ![place].entries = Append(@, id)] BY <2>3 DEF EntryAdded, Anew
    <3> QED BY <1>1, <2>3, <2>6, <3>1
  <2>8. x \in SectionType /\ x.name = s.name /\ x.entries = Append(e, id)
    <3>1. Append(e, id) \in Seq(Nat) BY <2>5, AppendProperties
    <3> QED BY <2>5, <3>1 DEF SectionType
  <2> HIDE DEF x, found, n, none
  <2>9. page \in Seq(SectionType) /\ Len(page) = n /\ \A k \in 1..n : page[k] = IF k = place THEN x ELSE doc[k]
    BY <1>1, <2>3, <2>7, <2>8, ExceptSeq DEF n
  <2>10. DOMAIN page = 1..n /\ page[place] = x /\ \A k \in 1..n : k # place => page[k] = doc[k]
    BY <2>3, <2>9, LenProperties
  <2>11. Heads(page) = Heads(doc) /\ \A i \in Heads(doc) : i \in 1..n BY <1>1, <2>9 DEF Heads, n
  <2>12. \A k \in 1..n : page[k].name = doc[k].name BY <2>8, <2>10
  <2>13. GoodDoc(page)
    <3>1. page[1] = doc[1]
      <4>1. 1 \in 1..n BY <1>1
      <4> QED BY <2>3, <2>10, <4>1
    <3>2. \A i, j \in Heads(page) : page[i].name = page[j].name => i = j BY <1>2, <2>11, <2>12
    <3>3. Len(page) >= 1 BY <1>1, <2>9
    <3> QED BY <1>2, <2>9, <3>1, <3>2, <3>3 DEF GoodDoc
  <2>14. IdsOf(page) \subseteq IdsOf(doc) \cup {id}
    <3>1. ASSUME NEW k \in DOMAIN x.entries PROVE x.entries[k] \in IdsOf(doc) \cup {id}
      <4>1. Range(Append(e, id)) = Range(e) \cup {id} BY <2>5, EntryMore
      <4>2. x.entries[k] \in Range(e) \cup {id} BY <2>8, <3>1, <4>1 DEF Range
      <4>3. Range(e) \subseteq IdsOf(doc) BY <2>2, IdsInHeads
      <4> QED BY <4>2, <4>3
    <3>2. ASSUME NEW i \in 1..n, NEW k \in DOMAIN page[i].entries PROVE page[i].entries[k] \in IdsOf(doc) \cup {id}
      <4>1. CASE i = place BY <2>10, <3>1, <3>2, <4>1
      <4>2. CASE i # place
        <5>1. page[i] = doc[i] BY <2>10, <4>2
        <5> QED BY <1>1, <3>2, <5>1 DEF IdsOf
      <4> QED BY <4>1, <4>2
    <3> QED BY <2>10, <3>2 DEF IdsOf
  <2>15. Placed(b, page[place].name) BY <2>2, <2>8, <2>10
  <2>16. Longer(doc, page, place, e, id)
    <3>1. \A j \in Heads(doc) \ {place} : page[j] = doc[j] BY <2>10, <2>11
    <3>2. Heads(page) = Heads(doc) \cup {place} /\ place \in Heads(page) BY <2>2, <2>11
    <3> QED BY <2>2, <2>5, <2>8, <2>10, <3>1, <3>2 DEF Longer
  <2>17. NamesOf(page) \subseteq NamesOf(doc) BY <2>11, <2>12 DEF NamesOf
  <2> QED BY <2>13, <2>14, <2>15, <2>16, <2>17
<1> QED BY <1>6, <1>7

-----------------------------------------------------------------------------
(* What is still to be asked for.                                          *)

(* The bookmarks of the plan q are among those of p: what was done is gone *)
(* from the front.                                                         *)
Shifted(x, y, n) == \A i \in DOMAIN y : y[i].kind = "bookmark" => i + n \in DOMAIN x /\ x[i + n] = y[i]
Fewer(p, q) == \A s \in Session : \E n \in {0, 1} : Shifted(p[s], q[s], n)

LEMMA FewerDue ==
    ASSUME NEW p, NEW q \in [Session -> Seq(Jobs)], Fewer(p, q)
    PROVE  /\ IdsDue(q) \subseteq IdsDue(p)
           /\ Distinct(p) => Distinct(q)
<1> DEFINE n(s) == CHOOSE k \in {0, 1} : Shifted(p[s], q[s], k)
           e(d) == <<d[1], d[2] + n(d[1])>>
<1>1. \A s \in Session : n(s) \in {0, 1} /\ Shifted(p[s], q[s], n(s)) BY DEF Fewer
<1> HIDE DEF n
<1>2. ASSUME NEW d \in Due(q)
      PROVE  /\ d[1] \in Session /\ d[2] \in Nat /\ d = <<d[1], d[2]>>
             /\ e(d) \in Due(p) /\ JobAt(p, e(d)) = JobAt(q, d)
  <2> DEFINE s == d[1]
             i == d[2]
             m == n(s)
  <2>1. s \in Session /\ i \in Nat /\ d = <<s, i>> /\ i \in DOMAIN q[s] /\ q[s][i].kind = "bookmark"
    BY DEF Due, JobAt
  <2>2. m \in {0, 1} /\ Shifted(p[s], q[s], m) BY <1>1, <2>1
  <2> HIDE DEF s, i, m
  <2>3. i + m \in DOMAIN p[s] /\ p[s][i + m] = q[s][i] BY <2>1, <2>2 DEF Shifted
  <2>4. i + m \in Nat BY <2>1, <2>2
  <2>5. <<s, i + m>> \in Due(p) /\ JobAt(p, <<s, i + m>>) = JobAt(q, d) BY <2>1, <2>3, <2>4 DEF Due, JobAt
  <2>6. e(d) = <<s, i + m>> BY DEF s, i, m
  <2> QED BY <2>1, <2>5, <2>6 DEF s, i
<1>3. IdsDue(q) \subseteq IdsDue(p) BY <1>2 DEF IdsDue
<1>4. ASSUME Distinct(p), NEW d \in Due(q), NEW c \in Due(q), JobAt(q, d).id = JobAt(q, c).id
      PROVE  d = c
  <2>1. e(d) = e(c)
    <3> DEFINE x == e(d)
               y == e(c)
    <3>1. x \in Due(p) /\ y \in Due(p) /\ JobAt(p, x) = JobAt(q, d) /\ JobAt(p, y) = JobAt(q, c) BY <1>2
    <3> HIDE DEF x, y, e
    <3>2. x = y BY <1>4, <3>1 DEF Distinct
    <3> QED BY <3>2 DEF x, y
  <2>2. d[1] = c[1] /\ d[2] + n(d[1]) = c[2] + n(c[1]) BY <2>1
  <2>3. d[2] = c[2]
    <3> DEFINE i == d[2]
               j == c[2]
               k == n(d[1])
    <3>1. i \in Nat /\ j \in Nat /\ k \in {0, 1} /\ i + k = j + k BY <1>1, <1>2, <2>2
    <3> HIDE DEF i, j, k
    <3>2. i = j BY <3>1
    <3> QED BY <3>2 DEF i, j
  <2>4. d = <<d[1], d[2]>> /\ c = <<c[1], c[2]>> BY <1>2
  <2> QED BY <2>2, <2>3, <2>4
<1> QED BY <1>3, <1>4 DEF Distinct

(* A plan without its first job; ...                                       *)
LEMMA FewerWithout ==
    ASSUME NEW p \in [Session -> Seq(Jobs)], NEW s \in Session, p[s] # <<>>
    PROVE  /\ Without(p, s) \in [Session -> Seq(Jobs)]
           /\ Fewer(p, Without(p, s))
           /\ Head(p[s]).kind = "bookmark" =>
                 /\ Head(p[s]).id \in IdsDue(p)
                 /\ Distinct(p) => Head(p[s]).id \notin IdsDue(Without(p, s))
<1> DEFINE x == p[s]
           y == Tail(x)
           q == Without(p, s)
<1>1. x \in Seq(Jobs) /\ y \in Seq(Jobs) /\ Len(x) \in Nat /\ Len(x) >= 1 /\ Len(y) = Len(x) - 1
      /\ \A i \in 1..Len(y) : y[i] = x[i + 1]
  <2>1. x \in Seq(Jobs) OBVIOUS
  <2>2. Len(x) \in Nat /\ Len(x) >= 1 BY <2>1, LenProperties, EmptySeq
  <2> QED BY <2>1, <2>2, HeadTailProperties
<1>2. DOMAIN x = 1..Len(x) /\ DOMAIN y = 1..Len(y) BY <1>1, LenProperties
<1>3. q \in [Session -> Seq(Jobs)] /\ q[s] = y /\ \A t \in Session : t # s => q[t] = p[t] BY <1>1 DEF Without
<1>4. Head(x) = x[1] BY <1>1
<1> HIDE DEF x, y, q
<1>5. Shifted(x, y, 1)
  <2>1. \A i \in DOMAIN y : i + 1 \in DOMAIN x /\ x[i + 1] = y[i] BY <1>1, <1>2
  <2> QED BY <2>1 DEF Shifted
<1>6. ASSUME NEW t \in Session, t # s PROVE Shifted(p[t], q[t], 0)
  <2>1. \A i \in DOMAIN p[t] : i + 0 = i
    <3>1. p[t] \in Seq(Jobs) OBVIOUS
    <3>2. DOMAIN p[t] = 1..Len(p[t]) /\ Len(p[t]) \in Nat BY <3>1, LenProperties
    <3> QED BY <3>2
  <2> QED BY <1>3, <1>6, <2>1 DEF Shifted
<1>7. Fewer(p, q)
  <2>1. ASSUME NEW t \in Session PROVE \E n \in {0, 1} : Shifted(p[t], q[t], n)
    <3>1. CASE t = s BY <1>3, <1>5, <3>1 DEF x
    <3>2. CASE t # s BY <1>6, <3>2
    <3> QED BY <3>1, <3>2
  <2> QED BY <2>1 DEF Fewer
<1>8. ASSUME Head(x).kind = "bookmark"
      PROVE  Head(x).id \in IdsDue(p) /\ (Distinct(p) => Head(x).id \notin IdsDue(q))
  <2> DEFINE first == <<s, 1>>
  <2>1. first \in Due(p) /\ JobAt(p, first) = Head(x)
    <3>1. 1 \in 1..Len(x) /\ 1 \in Nat BY <1>1
    <3> QED BY <1>2, <1>4, <1>8, <3>1 DEF Due, JobAt, x
  <2>2. Head(x).id \in IdsDue(p) BY <2>1 DEF IdsDue
  <2>3. ASSUME Distinct(p), NEW d \in Due(q), JobAt(q, d).id = Head(x).id PROVE FALSE
    <3>1. d[1] \in Session /\ d[2] \in Nat /\ d = <<d[1], d[2]>> /\ d[2] \in DOMAIN q[d[1]]
          /\ JobAt(q, d).kind = "bookmark" /\ JobAt(q, d) = q[d[1]][d[2]]
      BY DEF Due, JobAt
    <3>2. CASE d[1] = s
      <4> DEFINE i == d[2]
                 e == <<s, i + 1>>
      <4>1. i \in 1..Len(y) BY <1>2, <1>3, <3>1, <3>2
      <4>2. i + 1 \in DOMAIN x /\ x[i + 1] = y[i] /\ i + 1 \in Nat /\ i + 1 # 1 BY <1>1, <1>2, <4>1
      <4>3. JobAt(q, d) = y[i] BY <1>3, <3>1, <3>2
      <4>4. e \in Due(p) /\ JobAt(p, e) = y[i] BY <3>1, <4>2, <4>3 DEF Due, JobAt, x
      <4>5. e = first BY <2>1, <2>3, <4>3, <4>4 DEF Distinct
      <4> QED BY <4>2, <4>5
    <3>3. CASE d[1] # s
      <4>1. q[d[1]] = p[d[1]] BY <1>3, <3>1, <3>3
      <4>2. d \in Due(p) /\ JobAt(p, d) = JobAt(q, d) BY <3>1, <4>1 DEF Due, JobAt
      <4>3. d = first BY <2>1, <2>3, <4>2 DEF Distinct
      <4> QED BY <3>3, <4>3
    <3> QED BY <3>2, <3>3
  <2> QED BY <2>2, <2>3 DEF IdsDue
<1> QED BY <1>3, <1>7, <1>8 DEF x, q

(* ... one that is left as it is; ...                                      *)
LEMMA FewerSame ==
    ASSUME NEW p \in [Session -> Seq(Jobs)]
    PROVE  /\ Fewer(p, p)
           /\ \A s \in Session : Shifted(p[s], p[s], 0)
<1>1. ASSUME NEW s \in Session PROVE Shifted(p[s], p[s], 0)
  <2>1. p[s] \in Seq(Jobs) OBVIOUS
  <2>2. DOMAIN p[s] = 1..Len(p[s]) /\ Len(p[s]) \in Nat BY <2>1, LenProperties
  <2>3. \A i \in DOMAIN p[s] : i + 0 = i BY <2>2
  <2> QED BY <2>3 DEF Shifted
<1> QED BY <1>1 DEF Fewer

(* ... and one in which the session in hand has one url less to save.      *)
LEMMA FewerUrls ==
    ASSUME NEW p \in [Session -> Seq(Jobs)], NEW s \in Session, NEW job, job.kind = "save",
           p[s] # <<>>, p[s][1].kind = "save", NEW q, q = [p EXCEPT ![s] = [p[s] EXCEPT ![1] = job]]
    PROVE  Fewer(p, q)
<1> DEFINE x == p[s]
           y == [x EXCEPT ![1] = job]
<1>1. x \in Seq(Jobs) OBVIOUS
<1>2. DOMAIN x = 1..Len(x) /\ Len(x) \in Nat BY <1>1, LenProperties
<1>3. q[s] = y /\ \A t \in Session : t # s => q[t] = p[t] OBVIOUS
<1>4. DOMAIN y = 1..Len(x) /\ \A i \in 1..Len(x) : y[i] = IF i = 1 THEN job ELSE x[i] BY <1>2
<1> HIDE DEF x, y
<1>5. Shifted(x, y, 0)
  <2>1. \A i \in DOMAIN y : i + 0 = i /\ i \in DOMAIN x BY <1>2, <1>4
  <2>2. \A i \in DOMAIN y : y[i].kind = "bookmark" => y[i] = x[i] BY <1>4
  <2> QED BY <2>1, <2>2 DEF Shifted
<1>6. ASSUME NEW t \in Session PROVE \E n \in {0, 1} : Shifted(p[t], q[t], n)
  <2>1. CASE t = s BY <1>3, <1>5, <2>1 DEF x
  <2>2. CASE t # s BY <1>3, <2>2, FewerSame
  <2> QED BY <2>1, <2>2
<1> QED BY <1>6 DEF Fewer

(* Whoever did nothing has as many fewer without the first.                *)
LEMMA FewerBoth ==
    ASSUME NEW p \in [Session -> Seq(Jobs)], NEW q \in [Session -> Seq(Jobs)], Fewer(p, q),
           NEW t \in Session, q[t] = p[t], p[t] # <<>>
    PROVE  Fewer(Without(p, t), Without(q, t)) /\ Without(q, t) \in [Session -> Seq(Jobs)]
<1>1. Without(p, t) \in [Session -> Seq(Jobs)] /\ Without(q, t) \in [Session -> Seq(Jobs)] BY FewerWithout
<1>2. Without(q, t)[t] = Without(p, t)[t] BY DEF Without
<1>3. \A u \in Session : u # t => Without(p, t)[u] = p[u] /\ Without(q, t)[u] = q[u] BY DEF Without
<1>4. ASSUME NEW u \in Session PROVE \E n \in {0, 1} : Shifted(Without(p, t)[u], Without(q, t)[u], n)
  <2>1. CASE u = t BY <1>1, <1>2, <2>1, FewerSame
  <2>2. CASE u # t BY <1>3, <2>2 DEF Fewer
  <2> QED BY <2>1, <2>2
<1> QED BY <1>1, <1>4 DEF Fewer

LEMMA HoldsFewer ==
    ASSUME NEW p, NEW q \in [Session -> Seq(Jobs)], Fewer(p, q), NEW B
    PROVE  /\ \A doc : Holds(doc, p, B) => Holds(doc, q, B)
           /\ \A text : Makes(text, p, B) => Makes(text, q, B)
<1>1. IdsDue(q) \subseteq IdsDue(p) BY FewerDue
<1>2. \A doc : Holds(doc, p, B) => Holds(doc, q, B) BY <1>1 DEF Holds
<1> QED BY <1>2 DEF Makes

-----------------------------------------------------------------------------
(* Who leaves the file of bookmarks alone.                                 *)

Aside == Leaves(disk, disk', {"bookmarks"})

(* The file is where it was, if it was anywhere.                           *)
Settled == disk'.dir["bookmarks"] = disk.dir["bookmarks"]
           \/ (disk.dir["bookmarks"] = 0 /\ disk'.dir["bookmarks"] > Len(disk.data))

LEMMA BookmarksPath ==
    /\ "bookmarks" \in Own /\ "bookmarks" \in Path /\ "bookmarks" \notin Name
    /\ {"bookmarks"} \in SUBSET Path
<1>1. "bookmarks" \in Own BY DEF Own
<1> QED BY <1>1, NamesApart

LEMMA ClosingAside ==
    ASSUME TypeInv, NEW s \in Session, Apart(s), Closing(s) \/ Killed(s)
    PROVE  Aside
<1>0. /\ "inputs" \in Path /\ "fetches" \in Path /\ "bookmarks" \in Path
      /\ "inputs" # "bookmarks" /\ "fetches" # "bookmarks"
  BY BookmarksPath, HistoryPaths
<1> USE DEF TypeInv, Scalars, Goes, ghosts
<1>1. CASE disk' = disk BY <1>1 DEF Aside, Leaves
<1>2. CASE \E p \in Path \ {"bookmarks"} : Opens(s, p, OpenToAppend(disk, p)) \/ Opens(s, p, OpenToWrite(disk, p))
  <2>1. PICK p \in Path \ {"bookmarks"} : disk' = OpenToAppend(disk, p) \/ disk' = OpenToWrite(disk, p)
    BY <1>2 DEF Opens
  <2>2. Leaves(disk, disk', Path \ {p}) BY <2>1, OpeningLeaves
  <2> QED BY <1>0, <2>2 DEF Aside, Leaves
<1>3. CASE /\ at[s] \in {"header", "enter inputs", "enter fetches"}
           /\ \E x : disk' = Written(disk, fp[s], x) \/ disk' = Appended(disk, fp[s], x)
  <2>1. PICK x : disk' = Written(disk, fp[s], x) \/ disk' = Appended(disk, fp[s], x) BY <1>3
  <2>2. fp[s] # 0 /\ (fp[s] = disk.dir["inputs"] \/ fp[s] = disk.dir["fetches"]) BY <1>3 DEF Apart
  <2>3. disk.dir["bookmarks"] # fp[s] BY <1>0, <2>2 DEF DiskOK
  <2>4. /\ disk'.dir = disk.dir
        /\ \A names \in SUBSET Path : (\A p \in names : disk.dir[p] # fp[s]) => Keeps(disk, disk', names)
    BY <2>1, <2>2, DiskWritten
  <2>5. Keeps(disk, disk', {"bookmarks"}) BY <2>3, <2>4, BookmarksPath
  <2> QED BY <2>4, <2>5 DEF Aside, Leaves, Keeps
<1>5. CASE session_close(s) BY <1>1, <1>5 DEF session_close
<1>6. CASE session_write_input_history(s) BY <1>0, <1>1, <1>2, <1>6 DEF session_write_input_history, OpenHistory
<1>7. CASE EnterInputs(s) BY <1>1, <1>3, <1>7 DEF EnterInputs, Enter
<1>8. CASE FetchHistory(s) BY <1>0, <1>1, <1>2, <1>8 DEF FetchHistory
<1>9. CASE WriteHeader(s) BY <1>1, <1>3, <1>9 DEF WriteHeader
<1>10. CASE AppendFetches(s) BY <1>0, <1>1, <1>2, <1>10 DEF AppendFetches, OpenHistory
<1>11. CASE EnterFetches(s) BY <1>1, <1>3, <1>11 DEF EnterFetches, Enter
<1>12. CASE Killed(s) BY <1>1, <1>12 DEF Killed
<1> QED BY <1>5, <1>6, <1>7, <1>8, <1>9, <1>10, <1>11, <1>12 DEF Closing

(* A session that saves has no transfer to that file.                      *)
OtherFiles(s) == Aside /\ \A i \in DOMAIN easies'[s] : easies'[s][i].fp # disk'.dir["bookmarks"]

LEMMA RequestAside ==
    ASSUME TypeInv, NEW s \in Session, BookmarksApart(s), request_to_handle(s)
    PROVE  OtherFiles(s)
<1> DEFINE u == Head(Job(s).urls)
           path == Actual(s, u)
           d == OpenToAppend(disk, path)
           new == Transfer(u, path, d.dir[path])
<1>1. /\ at[s] = "open" /\ Job(s).urls # <<>> /\ disk' = d
      /\ easies' = [easies EXCEPT ![s] = Append(easies[s], new)] /\ NextUrl(s)
  BY DEF request_to_handle
<1>2. path \in Name BY <1>1, SavingJob
<1>3. path \in Path /\ path # "bookmarks" /\ "bookmarks" \in Path BY <1>2, BookmarksPath DEF Path
<1>4. Leaves(disk, disk', Path \ {path}) /\ disk'.dir[path] # 0 BY <1>1, <1>3, OpeningLeaves DEF TypeInv
<1>5. Aside BY <1>3, <1>4 DEF Aside, Leaves
<1>6. DiskOK(disk') BY <1>1, <1>3, Making DEF TypeInv, OpenToAppend, Keeps, Grows
<1>7. new.fp # disk'.dir["bookmarks"]
  <2>1. new.fp = disk'.dir[path] BY <1>1 DEF Transfer
  <2> QED BY <1>3, <1>4, <1>6, <2>1 DEF DiskOK
<1>8. easies'[s] = Append(easies[s], new) /\ IsList(easies[s]) BY <1>1 DEF TypeInv, Scalars, Transfers
<1>9. DOMAIN easies[s] = 1..Len(easies[s]) /\ Len(easies[s]) \in Nat BY <1>8, LenProperties DEF IsList
<1> HIDE DEF new, d, path
<1>10. /\ IsList(easies'[s]) /\ Len(easies'[s]) = Len(easies[s]) + 1
       /\ \A i \in 1..Len(easies[s]) : easies'[s][i] = easies[s][i]
       /\ easies'[s][Len(easies[s]) + 1] = new
  BY <1>8, ListLonger
<1>11. DOMAIN easies'[s] = 1..(Len(easies[s]) + 1) BY <1>10, LenProperties DEF IsList
<1>12. \A i \in DOMAIN easies[s] : easies[s][i].fp # disk'.dir["bookmarks"]
  BY <1>5 DEF BookmarksApart, Aside, Leaves
<1>13. ASSUME NEW i \in DOMAIN easies'[s] PROVE easies'[s][i].fp # disk'.dir["bookmarks"]
  <2>1. CASE i = Len(easies[s]) + 1 BY <1>7, <1>10, <2>1
  <2>2. CASE i # Len(easies[s]) + 1
    <3>1. i \in 1..Len(easies[s]) BY <1>9, <1>11, <2>2
    <3> QED BY <1>9, <1>10, <1>12, <3>1
  <2> QED BY <2>1, <2>2
<1> QED BY <1>5, <1>13 DEF OtherFiles

LEMMA DownloadingAside ==
    ASSUME TypeInv, NEW s \in Session, BookmarksApart(s), Downloading(s)
    PROVE  OtherFiles(s)
<1> USE DEF ghosts
<1>0. \A i \in DOMAIN easies[s] : easies[s][i].fp # disk.dir["bookmarks"] BY DEF BookmarksApart
<1>1. CASE cmd_anchor_save_range(s)
  <2>1. easies'[s] = <<>> /\ disk' = disk BY <1>1 DEF cmd_anchor_save_range, TypeInv, Scalars
  <2>2. DOMAIN easies'[s] = {} BY <2>1
  <2> QED BY <2>1, <2>2 DEF OtherFiles, Aside, Leaves
<1>2. CASE request_to_handle(s) BY <1>2, RequestAside
<1>3. CASE OpenFails(s) \/ AllAdded(s) \/ \E canceled \in BOOLEAN : PerformEnds(s, canceled)
  <2>1. disk' = disk /\ easies' = easies BY <1>3 DEF OpenFails, AllAdded, PerformEnds
  <2> QED BY <1>0, <2>1 DEF OtherFiles, Aside, Leaves
<1>4. CASE \E i \in DOMAIN easies[s], full \in BOOLEAN : Arrives(s, i, full)
  <2>1. PICK i \in DOMAIN easies[s], full \in BOOLEAN : Arrives(s, i, full) BY <1>4
  <2> DEFINE e == easies[s][i]
             text == Append(e.buf, Parts(e.url)[e.got + 1])
             ino == e.fp
             x == disk.data[ino] \o text
             rest == IF full THEN <<>> ELSE text
             end == IF e.got + 1 = 2 THEN "done" ELSE e.state
             new == [e EXCEPT !.got = e.got + 1, !.buf = rest, !.state = end]
  <2>2. /\ disk' = IF full THEN Appended(disk, ino, text) ELSE disk
        /\ easies' = [easies EXCEPT ![s] = [easies[s] EXCEPT ![i] = new]]
    BY <2>1 DEF Arrives
  <2>3. TransferOK(e, disk) BY DEF TypeInv, Transfers
  <2>4. ino \in 1..Len(disk.data) /\ ino # disk.dir["bookmarks"] BY <1>0, <2>3 DEF TransferOK
  <2>5. Aside
    <3>1. CASE full
      <4>1. disk' = Rewritten(disk, ino, x) BY <2>2, <3>1 DEF Appended, Rewritten
      <4>2. DiskOK(disk) BY DEF TypeInv
      <4> HIDE DEF x, ino
      <4>3. /\ disk'.dir = disk.dir
            /\ \A names \in SUBSET Path : (\A p \in names : disk.dir[p] # ino) => Keeps(disk, disk', names)
        BY <2>4, <4>1, <4>2, Rewriting
      <4>4. Keeps(disk, disk', {"bookmarks"}) BY <2>4, <4>3, BookmarksPath
      <4> QED BY <4>3, <4>4 DEF Aside, Leaves, Keeps
    <3>2. CASE ~full BY <2>2, <3>2 DEF Aside, Leaves
    <3> QED BY <3>1, <3>2
  <2>6. new.fp = ino
    <3> HIDE DEF rest, end
    <3>1. e = [url |-> e.url, path |-> e.path, fp |-> e.fp, got |-> e.got, buf |-> e.buf, state |-> e.state]
      BY <2>3 DEF TransferOK
    <3> DEFINE g == e.got + 1
    <3>2. new = [e EXCEPT !.got = g, !.buf = rest, !.state = end] OBVIOUS
    <3> HIDE DEF e, g, new
    <3>3. new.fp = e.fp BY <3>1, <3>2
    <3> QED BY <3>3
  <2>7. easies'[s] = [easies[s] EXCEPT ![i] = new] BY <2>2 DEF TypeInv, Scalars
  <2> HIDE DEF new
  <2>8. \A k \in DOMAIN easies'[s] : k \in DOMAIN easies[s] /\ easies'[s][k].fp = easies[s][k].fp BY <2>6, <2>7
  <2> QED BY <1>0, <2>5, <2>8 DEF OtherFiles, Aside, Leaves
<1>5. CASE \E i \in DOMAIN easies[s] : TransferFails(s, i)
  <2>1. PICK i \in DOMAIN easies[s] : TransferFails(s, i) BY <1>5
  <2> DEFINE e == easies[s][i]
             new == [e EXCEPT !.state = "failed"]
  <2>2. disk' = disk /\ easies' = [easies EXCEPT ![s] = [easies[s] EXCEPT ![i] = new]]
    BY <2>1 DEF TransferFails
  <2>3. TransferOK(e, disk) BY DEF TypeInv, Transfers
  <2>4. new.fp = e.fp BY <2>3 DEF TransferOK
  <2>5. easies'[s] = [easies[s] EXCEPT ![i] = new] BY <2>2 DEF TypeInv, Scalars
  <2> HIDE DEF new
  <2>6. \A k \in DOMAIN easies'[s] : k \in DOMAIN easies[s] /\ easies'[s][k].fp = easies[s][k].fp BY <2>4, <2>5
  <2> QED BY <1>0, <2>2, <2>6 DEF OtherFiles, Aside, Leaves
<1>6. CASE Report(s)
  <2> DEFINE paths == {easies[s][i].path : i \in In(s, "failed")}
  <2>1. disk' = Removed(disk, paths) /\ easies' = easies BY <1>6 DEF Report
  <2>2. paths \in SUBSET Name BY DEF TypeInv, Transfers, TransferOK, In
  <2> HIDE DEF paths
  <2>3. Keeps(disk, disk', Path \ paths) BY <2>1, Removing DEF TypeInv
  <2>4. "bookmarks" \in Path \ paths BY <2>2, BookmarksPath
  <2>5. disk'.dir["bookmarks"] = disk.dir["bookmarks"] BY <2>1, <2>4 DEF Removed, TypeInv, DiskOK
  <2>6. Aside BY <2>3, <2>4, <2>5 DEF Aside, Leaves, Keeps
  <2> QED BY <1>0, <2>1, <2>5, <2>6 DEF OtherFiles
<1>7. CASE \E W \in SUBSET DOMAIN easies[s] : CloseFiles(s, W)
  <2>1. PICK W : CloseFiles(s, W) BY <1>7
  <2>2. disk' = Flushed(disk, easies[s], W) /\ easies' = easies BY <2>1 DEF CloseFiles
  <2>3. IsList(easies[s]) /\ \A k \in DOMAIN easies[s] : easies[s][k].fp \in 1..Len(disk.data)
    BY DEF TypeInv, Transfers, TransferOK
  <2>4. /\ disk'.dir = disk.dir
        /\ \A names \in SUBSET Path :
              (\A p \in names, k \in DOMAIN easies[s] : disk.dir[p] # easies[s][k].fp) => Keeps(disk, disk', names)
    BY <2>2, <2>3, Flushing DEF TypeInv
  <2>5. Keeps(disk, disk', {"bookmarks"}) BY <1>0, <2>4, BookmarksPath
  <2> QED BY <1>0, <2>2, <2>4, <2>5 DEF OtherFiles, Aside, Leaves, Keeps
<1> QED BY <1>1, <1>2, <1>3, <1>4, <1>5, <1>6, <1>7 DEF Downloading

(* Whatever is done, nobody else comes to have the file open.              *)
LEMMA ApartOnes ==
    ASSUME TypeInv, NEW s \in Session, Only(s), \A t \in Session : BookmarksApart(t) /\ Apart(t), Settled,
           Writing(s)' => fp'[s] = disk'.dir["bookmarks"],
           easies'[s] = easies[s] \/ \A i \in DOMAIN easies'[s] : easies'[s][i].fp # disk'.dir["bookmarks"]
    PROVE  \A t \in Session : BookmarksApart(t)'
<1> SUFFICES ASSUME NEW t \in Session PROVE BookmarksApart(t)'
  OBVIOUS
<1>1. Len(disk.data) \in Nat BY DiskData DEF TypeInv
<1>2. \A i \in DOMAIN easies[t] : easies[t][i].fp \in 1..Len(disk.data) BY DEF TypeInv, Transfers, TransferOK
<1>3. ASSUME easies'[t] = easies[t], NEW i \in DOMAIN easies'[t] PROVE easies'[t][i].fp # disk'.dir["bookmarks"]
  <2>1. easies'[t][i].fp = easies[t][i].fp /\ easies[t][i].fp \in 1..Len(disk.data)
        /\ easies[t][i].fp # disk.dir["bookmarks"]
    BY <1>2, <1>3 DEF BookmarksApart
  <2> DEFINE f == easies[t][i].fp
             g == disk'.dir["bookmarks"]
             l == Len(disk.data)
  <2>2. f \in 1..l /\ l \in Nat /\ (g > l \/ g = disk.dir["bookmarks"]) /\ f # disk.dir["bookmarks"]
    BY <1>1, <2>1 DEF Settled
  <2> HIDE DEF f, g, l
  <2>3. f # g BY <2>2
  <2> QED BY <2>1, <2>3 DEF f, g
<1>4. CASE t = s BY <1>3, <1>4 DEF BookmarksApart
<1>5. CASE t # s
  <2>1. at'[t] = at[t] /\ fp'[t] = fp[t] /\ easies'[t] = easies[t] BY <1>5 DEF Only, TypeInv, Scalars
  <2>2. ASSUME Writing(t)' PROVE fp'[t] = disk'.dir["bookmarks"]
    <3>1. Writing(t) BY <2>1, <2>2 DEF Writing
    <3>2. fp[t] # 0 /\ fp[t] = disk.dir["bookmarks"] BY <3>1 DEF Apart, BookmarksApart
    <3> QED BY <2>1, <3>2 DEF Settled
  <2> QED BY <1>3, <2>1, <2>2 DEF BookmarksApart
<1> QED BY <1>4, <1>5

LEMMA ApartNext ==
    ASSUME TypeInv, \A t \in Session : BookmarksApart(t) /\ Apart(t), NEW s \in Session, Acts(s)
    PROVE  \A t \in Session : BookmarksApart(t)'
<1>1. Only(s) BY OnlyBookmarking, OnlyDownloading, OnlyClosing DEF Acts, TypeInv
<1>2. CASE Elsewhere(s)
  <2>1. Settled BY <1>2, BookmarksPath DEF Elsewhere, Moves, Stays, Settled
  <2> QED BY <1>1, <1>2, <2>1, ApartOnes DEF Elsewhere
<1>3. CASE Downloading(s)
  <2>1. OtherFiles(s) BY <1>3, DownloadingAside
  <2>2. Settled BY <2>1 DEF OtherFiles, Aside, Leaves, Settled
  <2>3. ~Writing(s)'
    BY <1>3 DEF Downloading, cmd_anchor_save_range, request_to_handle, OpenFails, AllAdded, Arrives, TransferFails,
       PerformEnds, Report, CloseFiles, CommandOver, Goes, Writing, ghosts, TypeInv, Scalars
  <2> QED BY <1>1, <2>1, <2>2, <2>3, ApartOnes DEF OtherFiles
<1>4. Bookmarking(s) => Elsewhere(s) BY BookmarksElsewhere DEF BookmarksApart
<1>5. Closing(s) \/ Killed(s) => Elsewhere(s) BY ClosingElsewhere
<1> QED BY <1>2, <1>3, <1>4, <1>5 DEF Acts

-----------------------------------------------------------------------------
(* What a step makes of the bookmarks.                                     *)

(* A step of a session that is not at the bookmarks after it, nor writes   *)
(* them before.                                                            *)
LEMMA QuietGood ==
    ASSUME TypeInv, TypeInv', BookmarksGood, NEW s \in Session, Only(s), added' = added, Aside,
           ~AtBookmarks(s)', ~Writing(s), Fewer(plan, plan')
    PROVE  BookmarksGood'
<1> USE DEF Writing, AtBookmarks
<1>1. \A t \in Session : t # s => at'[t] = at[t] /\ out'[t] = out[t] /\ plan'[t] = plan[t]
  BY DEF Only, TypeInv, Scalars
<1>2. \A t, u \in Session : AtBookmarks(t)' /\ AtBookmarks(u)' => t = u BY <1>1 DEF BookmarksGood
<1>3. plan \in [Session -> Seq(Jobs)] /\ plan' \in [Session -> Seq(Jobs)] BY DEF TypeInv, Scalars
<1>4. File(disk', "bookmarks") = File(disk, "bookmarks") /\ (Exists(disk', "bookmarks") <=> Exists(disk, "bookmarks"))
  BY DEF Aside, Leaves, Exists
<1>5. ASSUME NEW t \in Session PROVE Works(t)'
  <2>1. CASE t = s BY <2>1 DEF Works
  <2>2. CASE t # s
    <3>1. Works(t) /\ at'[t] = at[t] /\ out'[t] = out[t] /\ plan'[t] = plan[t] BY <1>1, <2>2 DEF BookmarksGood
    <3>2. at'[t] = "create" => ~Exists(disk', "bookmarks") BY <1>4, <3>1 DEF Works
    <3>3. ASSUME at'[t] = "fill" PROVE Makes(out'[t], plan', added')
      <4>1. Makes(out[t], plan, added) BY <3>1, <3>3 DEF Works
      <4> QED BY <1>3, <3>1, <4>1, HoldsFewer
    <3>4. ASSUME at'[t] \in {"save", "write"} PROVE Makes(out'[t], Without(plan', t), added' \cup {Wanted(t)'})
      <4>1. Makes(out[t], Without(plan, t), added \cup {Wanted(t)}) BY <3>1, <3>4 DEF Works
      <4>2. Wanted(t)' = Wanted(t) BY <3>1 DEF Wanted, Job
      <4>3. plan[t] # <<>> BY <3>1, <3>4 DEF TypeInv, Jobbed
      <4> DEFINE p == Without(plan, t)
                 q == Without(plan', t)
                 B == added \cup {Wanted(t)}
      <4>4. Fewer(p, q) /\ q \in [Session -> Seq(Jobs)] BY <1>3, <3>1, <4>3, FewerBoth
      <4> HIDE DEF p, q, B
      <4>5. Makes(out[t], q, B) BY <4>1, <4>4, HoldsFewer DEF p, B
      <4> QED BY <3>1, <4>2, <4>5 DEF q, B
    <3>5. Writing(t)' => File(disk', "bookmarks") = <<>> BY <1>4, <3>1 DEF Works
    <3> QED BY <3>2, <3>3, <3>4, <3>5 DEF Works
  <2> QED BY <2>1, <2>2
<1>6. ASSUME \A t \in Session : ~Writing(t)' PROVE InFile'
  <2>1. \A t \in Session : ~Writing(t) BY <1>1, <1>6
  <2>2. InFile BY <2>1 DEF BookmarksGood
  <2> DEFINE doc == Parsed(File(disk, "bookmarks"))
  <2>3. Holds(doc, plan, added) BY <2>2 DEF InFile
  <2> HIDE DEF doc
  <2>4. Holds(doc, plan', added) BY <1>3, <2>3, HoldsFewer
  <2> QED BY <1>4, <2>2, <2>4 DEF InFile, doc
<1> QED BY <1>2, <1>5, <1>6 DEF BookmarksGood

(* A step of the one session that is at the bookmarks.                     *)
LEMMA AloneGood ==
    ASSUME TypeInv, BookmarksGood, NEW s \in Session, Only(s), AtBookmarks(s),
           Works(s)', ~Writing(s)' => InFile'
    PROVE  BookmarksGood'
<1>1. \A t \in Session : t # s => at'[t] = at[t] /\ ~AtBookmarks(t)
  BY DEF Only, TypeInv, Scalars, BookmarksGood
<1>2. \A t \in Session : t # s => ~AtBookmarks(t)' BY <1>1 DEF AtBookmarks
<1>3. \A t, u \in Session : AtBookmarks(t)' /\ AtBookmarks(u)' => t = u BY <1>2
<1>4. ASSUME NEW t \in Session, t # s PROVE Works(t)'
  <2>1. at'[t] \notin {"create", "fill", "save", "write"} BY <1>2, <1>4 DEF AtBookmarks
  <2> QED BY <2>1 DEF Works, Writing
<1> QED BY <1>3, <1>4 DEF BookmarksGood

(* While nobody writes them, they are in the file.                         *)
LEMMA InFileNow ==
    ASSUME BookmarksGood, NEW s \in Session, AtBookmarks(s), ~Writing(s)
    PROVE  InFile
<1>1. \A t \in Session : ~Writing(t)
  <2>1. \A t \in Session : Writing(t) => AtBookmarks(t) BY DEF Writing, AtBookmarks
  <2> QED BY <2>1 DEF BookmarksGood
<1> QED BY <1>1 DEF BookmarksGood

(* Writing the whole of a page to the file that was emptied.               *)
LEMMA WholeWritten ==
    ASSUME TypeInv, NEW s \in Session, Apart(s), BookmarksApart(s), Writing(s), File(disk, "bookmarks") = <<>>,
           out[s] \in Seq(Tag), Reaches(s, Len(out[s]))
    PROVE  File(disk', "bookmarks") = out[s]
<1> DEFINE x == SubSeq(out[s], 1, Len(out[s]))
           ino == fp[s]
           none == <<>>
<1>1. x = out[s] BY SubSeqFull
<1>2. disk' = Written(disk, ino, x) BY DEF Reaches
<1>3. ino # 0 /\ ino = disk.dir["bookmarks"] BY DEF Apart, BookmarksApart
<1>4. disk.data[ino] = none BY <1>3 DEF File, Exists
<1> HIDE DEF x, none
<1>5. /\ disk'.dir = disk.dir
      /\ disk'.data[ino] = x \o SubSeq(disk.data[ino], Len(x) + 1, Len(disk.data[ino]))
  BY <1>2, <1>3, DiskWritten
<1>6. SubSeq(none, Len(x) + 1, Len(none)) = <<>>
  <2>1. Len(x) \in Nat BY <1>1, LenProperties
  <2>2. Len(none) = 0 BY DEF none
  <2>3. Len(x) + 1 > Len(none) BY <2>1, <2>2
  <2>4. none \in Seq(Tag) BY EmptySeq DEF none
  <2> QED BY <2>1, <2>2, <2>3, <2>4, SubSeqEmpty
<1>7. x \o <<>> = x
  <2>1. x \in Seq(Tag) BY <1>1
  <2> QED BY <2>1, ConcatEmptySeq
<1>8. disk'.data[ino] = x BY <1>4, <1>5, <1>6, <1>7
<1> QED BY <1>1, <1>3, <1>5, <1>8 DEF File, Exists

(* What is asked for is not in the file yet, and is asked for once.        *)
LEMMA WantedFresh ==
    ASSUME TypeInv, Distinct(plan), NEW s \in Session, AtBookmarks(s)
    PROVE  /\ plan[s] # <<>> /\ Job(s).id \in Nat /\ Job(s).word \in Seq(STRING) /\ Job(s).prefix \in BOOLEAN
           /\ Job(s).id \in IdsDue(plan) /\ Job(s).id \notin IdsDue(Without(plan, s))
           /\ Fewer(plan, Without(plan, s)) /\ Without(plan, s) \in [Session -> Seq(Jobs)]
<1>1. plan \in [Session -> Seq(Jobs)] /\ plan[s] # <<>> /\ Job(s).kind = "bookmark"
  BY DEF TypeInv, Scalars, Jobbed
<1>2. Job(s) \in Jobs
  <2>1. plan[s] \in Seq(Jobs) BY <1>1
  <2> QED BY <1>1, <2>1, HeadTailProperties DEF Job
<1>3. Job(s).id \in Nat /\ Job(s).word \in Seq(STRING) /\ Job(s).prefix \in BOOLEAN BY <1>1, <1>2 DEF Jobs
<1> QED BY <1>1, <1>3, FewerWithout DEF Job

(* The page that is made has what was asked for.                           *)
LEMMA PageMade ==
    ASSUME TypeInv, Distinct(plan), InFile, NEW s \in Session, get_bookmarks_doc(s)
    PROVE  Makes(out'[s], Without(plan, s), added \cup {Wanted(s)})
<1> DEFINE doc == Parsed(File(disk, "bookmarks"))
           place == Place(s, doc)
           id == Job(s).id
           word == Job(s).word
           prefix == Job(s).prefix
           page == EntryAdded(doc, word, place, id)
           b == Wanted(s)
           p == Without(plan, s)
<1>1. AtBookmarks(s) /\ place # Nowhere /\ out'[s] = bookmark_to_source(page)
  BY DEF get_bookmarks_doc, AtBookmarks, TypeInv, Scalars
<1>2. /\ id \in Nat /\ word \in Seq(STRING) /\ prefix \in BOOLEAN /\ id \in IdsDue(plan) /\ id \notin IdsDue(p)
      /\ Fewer(plan, p) /\ p \in [Session -> Seq(Jobs)]
  BY <1>1, WantedFresh
<1>3. Holds(doc, plan, added) BY DEF InFile
<1>4. b = [id |-> id, word |-> word, prefix |-> prefix] BY DEF Wanted
<1>5. place = bookmark_section_ul_get(doc, word, prefix) BY DEF Place
<1>6. page = EntryAdded(doc, word, place, id) OBVIOUS
<1> HIDE DEF doc, place, id, word, prefix, page, b, p
<1>7. GoodDoc(doc) /\ IdsOf(doc) \cap IdsDue(plan) = {} /\ \A c \in added : HasBookmark(doc, c) BY <1>3 DEF Holds
<1>8. /\ GoodDoc(page) /\ IdsOf(page) \subseteq IdsOf(doc) \cup {id} /\ Placed(b, page[place].name)
      /\ NamesOf(page) \subseteq NamesOf(doc) \cup {word}
      /\ \E e : Longer(doc, page, place, e, id)
  BY <1>1, <1>2, <1>4, <1>5, <1>6, <1>7, EntryPlaced
<1>9. PICK e : Longer(doc, page, place, e, id) BY <1>8
<1>10. id \notin IdsOf(doc) /\ b.id = id BY <1>2, <1>4, <1>7
<1>11. HasBookmark(page, b) /\ \A c : HasBookmark(doc, c) => HasBookmark(page, c)
  BY <1>2, <1>7, <1>8, <1>9, <1>10, LongerHas
<1>12. IdsDue(p) \subseteq IdsDue(plan) BY <1>2, FewerDue
<1>13. IdsOf(page) \cap IdsDue(p) = {} BY <1>2, <1>7, <1>8, <1>12
<1>14. ASSUME UnmarkedIn(added \cup {b}) PROVE Plain(page)
  <2>1. UnmarkedIn(added) /\ id \notin MarkupIds /\ word \notin MarkupNames
    BY <1>4, <1>14 DEF UnmarkedIn
  <2>2. Plain(doc) BY <1>3, <2>1 DEF Holds
  <2> QED BY <1>8, <2>1, <2>2 DEF Plain
<1>15. Holds(page, p, added \cup {b}) BY <1>7, <1>8, <1>11, <1>13, <1>14 DEF Holds
<1> QED BY <1>1, <1>15 DEF Makes, b, p

(* The steps of adding a bookmark.                                         *)
LEMMA BookmarkingGood ==
    ASSUME IInv, TypeInv', BookmarksInv, NEW s \in Session, Bookmarking(s), ~torn', ~mixed', Unmarked'
    PROVE  BookmarksGood'
<1>0. TypeInv /\ Apart(s) /\ BookmarksApart(s) /\ Distinct(plan) BY DEF IInv, BookmarksInv
<1>1. ~torn /\ ~mixed
  <2>1. CASE bookmark_add_to_section(s) BY <2>1, Zenon DEF bookmark_add_to_section
  <2>2. CASE \/ resolve_bookmarks_file(s) \/ CreateBookmarks(s) \/ FillBookmarks(s) \/ get_bookmarks_doc(s)
             \/ BookmarkFails(s) \/ bookmarks_save_to_disc(s) \/ BookmarkAdded(s)
    <3>1. torn' = torn /\ mixed' = mixed
      BY <2>2 DEF resolve_bookmarks_file, CreateBookmarks, FillBookmarks, get_bookmarks_doc, BookmarkFails,
         bookmarks_save_to_disc, BookmarkAdded, ghosts
    <3> QED BY <3>1
  <2>3. CASE \E n \in 0..Len(out[s]) : BookmarkTorn(s, n) BY <2>3 DEF BookmarkTorn
  <2> QED BY <2>1, <2>2, <2>3 DEF Bookmarking
<1>2. BookmarksGood
  <2>1. added \subseteq added'
    BY DEF Bookmarking, bookmark_add_to_section, resolve_bookmarks_file, CreateBookmarks, FillBookmarks,
       get_bookmarks_doc, BookmarkFails, bookmarks_save_to_disc, BookmarkAdded, BookmarkTorn, ghosts
  <2>2. Unmarked BY <2>1 DEF Unmarked
  <2> QED BY <1>1, <2>2 DEF BookmarksInv
<1>3. Only(s) BY <1>0, OnlyBookmarking DEF TypeInv
<1>4. plan \in [Session -> Seq(Jobs)] /\ "bookmarks" \in Path BY <1>0, BookmarksPath DEF TypeInv, Scalars
<1>5. CASE bookmark_add_to_section(s)
  <2>1. /\ at'[s] = "resolve" /\ UNCHANGED <<plan, disk, out, added>>
        /\ \A t \in Session : ~AtBookmarks(t)
    BY <1>0, <1>5 DEF bookmark_add_to_section, Goes, TypeInv, Scalars
  <2>2. \A t \in Session : t # s => at'[t] = at[t] BY <1>0, <1>3 DEF Only, TypeInv, Scalars
  <2>3. \A t \in Session : t # s => ~AtBookmarks(t)' BY <2>1, <2>2 DEF AtBookmarks
  <2>4. \A t, u \in Session : AtBookmarks(t)' /\ AtBookmarks(u)' => t = u BY <2>3
  <2>5. \A t \in Session : at'[t] \notin {"create", "fill", "save", "write"} BY <2>1, <2>3 DEF AtBookmarks
  <2>6. \A t \in Session : Works(t)' BY <2>5 DEF Works, Writing
  <2>7. InFile' BY <1>2, <2>1 DEF BookmarksGood, InFile, AtBookmarks, Writing
  <2> QED BY <2>4, <2>6, <2>7 DEF BookmarksGood
<1>6. CASE resolve_bookmarks_file(s)
  <2>1. /\ at[s] = "resolve" /\ at'[s] \in {"read", "create"}
        /\ at'[s] = "create" => ~Exists(disk, "bookmarks")
        /\ UNCHANGED <<plan, disk, added>>
    BY <1>0, <1>6 DEF resolve_bookmarks_file, Goes, TypeInv, Scalars, ghosts
  <2>2. AtBookmarks(s) /\ ~Writing(s) BY <2>1 DEF AtBookmarks, Writing
  <2>3. InFile BY <1>2, <2>2, InFileNow
  <2>4. InFile' BY <2>1, <2>3 DEF InFile
  <2>5. Works(s)' BY <2>1 DEF Works, Writing
  <2> QED BY <1>0, <1>2, <1>3, <2>2, <2>4, <2>5, AloneGood
<1>7. CASE CreateBookmarks(s)
  <2>1. /\ at[s] = "create" /\ at'[s] = "fill" /\ Opens(s, "bookmarks", OpenToWrite(disk, "bookmarks"))
        /\ out'[s] = EmptyBookmark /\ UNCHANGED <<plan, added>>
    BY <1>0, <1>7 DEF CreateBookmarks, Goes, TypeInv, Scalars, ghosts
  <2>2. AtBookmarks(s) /\ ~Writing(s) BY <2>1 DEF AtBookmarks, Writing
  <2>3. InFile BY <1>2, <2>2, InFileNow
  <2>4. File(disk, "bookmarks") = <<>> BY <1>2, <2>1 DEF BookmarksGood, Works, File
  <2>5. Holds(Untitled, plan, added) BY <2>3, <2>4, ParsedNone DEF InFile
  <2>6. Makes(out'[s], plan', added') BY <2>1, <2>5, UntitledGood DEF Makes
  <2>7. File(disk', "bookmarks") = <<>> BY <1>0, <1>4, <2>1, DiskOpened
  <2>8. Works(s)' /\ Writing(s)' BY <2>1, <2>6, <2>7 DEF Works, Writing
  <2> QED BY <1>0, <1>2, <1>3, <2>2, <2>8, AloneGood
<1>8. CASE FillBookmarks(s)
  <2>1. at[s] = "fill" /\ at'[s] = "read" /\ Reaches(s, Len(out[s])) /\ UNCHANGED <<plan, added>>
    BY <1>0, <1>8 DEF FillBookmarks, Goes, TypeInv, Scalars, ghosts
  <2>2. AtBookmarks(s) /\ Writing(s) BY <2>1 DEF AtBookmarks, Writing
  <2>3. Makes(out[s], plan, added) /\ File(disk, "bookmarks") = <<>> BY <1>2, <2>1, <2>2 DEF BookmarksGood, Works
  <2>4. PICK doc : out[s] = bookmark_to_source(doc) /\ Holds(doc, plan, added) BY <2>3 DEF Makes
  <2>5. out[s] \in Seq(Tag) /\ Parsed(out[s]) = doc
    <3>1. Plain(doc) BY <2>1, <2>4 DEF Holds, Unmarked, UnmarkedIn
    <3> QED BY <2>4, <3>1, RoundTrip, PlainRead DEF Holds
  <2>6. File(disk', "bookmarks") = out[s] BY <1>0, <2>1, <2>2, <2>3, <2>5, WholeWritten
  <2>7. InFile' BY <2>1, <2>4, <2>5, <2>6 DEF InFile
  <2>8. Works(s)' BY <2>1 DEF Works, Writing
  <2> QED BY <1>0, <1>2, <1>3, <2>2, <2>7, <2>8, AloneGood
<1>9. CASE get_bookmarks_doc(s)
  <2>1. at[s] = "read" /\ at'[s] = "save" /\ UNCHANGED <<plan, disk, added>>
    BY <1>0, <1>9 DEF get_bookmarks_doc, Goes, TypeInv, Scalars, ghosts
  <2>2. AtBookmarks(s) /\ ~Writing(s) BY <2>1 DEF AtBookmarks, Writing
  <2>3. InFile BY <1>2, <2>2, InFileNow
  <2>4. Makes(out'[s], Without(plan, s), added \cup {Wanted(s)}) BY <1>0, <1>9, <2>3, PageMade
  <2>5. Makes(out'[s], Without(plan', s), added' \cup {Wanted(s)'}) BY <2>1, <2>4 DEF Wanted, Job
  <2>6. Works(s)' BY <2>1, <2>5 DEF Works, Writing
  <2>7. InFile' BY <2>1, <2>3 DEF InFile
  <2> QED BY <1>0, <1>2, <1>3, <2>2, <2>6, <2>7, AloneGood
<1>10. CASE BookmarkFails(s)
  <2>1. /\ at[s] \in {"resolve", "create", "read", "save"} /\ at'[s] = "idle"
        /\ plan' = Without(plan, s) /\ UNCHANGED <<disk, added>>
    BY <1>0, <1>10 DEF BookmarkFails, CommandOver, Goes, TypeInv, Scalars, ghosts, Without
  <2>2. AtBookmarks(s) /\ ~Writing(s) BY <2>1 DEF AtBookmarks, Writing
  <2>3. Fewer(plan, plan') BY <1>0, <2>1, <2>2, WantedFresh
  <2>4. ~AtBookmarks(s)' BY <2>1 DEF AtBookmarks
  <2>5. Aside BY <2>1 DEF Aside, Leaves
  <2> QED BY <1>0, <1>2, <1>3, <2>1, <2>2, <2>3, <2>4, <2>5, QuietGood
<1>11. CASE bookmarks_save_to_disc(s)
  <2>1. /\ at[s] = "save" /\ at'[s] = "write" /\ Opens(s, "bookmarks", OpenToWrite(disk, "bookmarks"))
        /\ UNCHANGED <<plan, out, added>>
    BY <1>0, <1>11 DEF bookmarks_save_to_disc, Goes, TypeInv, Scalars, ghosts
  <2>2. AtBookmarks(s) BY <2>1 DEF AtBookmarks
  <2>3. Makes(out[s], Without(plan, s), added \cup {Wanted(s)}) BY <1>2, <2>1 DEF BookmarksGood, Works
  <2>4. Makes(out'[s], Without(plan', s), added' \cup {Wanted(s)'}) BY <2>1, <2>3 DEF Wanted, Job
  <2>5. File(disk', "bookmarks") = <<>> BY <1>0, <1>4, <2>1, DiskOpened
  <2>6. Works(s)' /\ Writing(s)' BY <2>1, <2>4, <2>5 DEF Works, Writing
  <2> QED BY <1>0, <1>2, <1>3, <2>2, <2>6, AloneGood
<1>12. CASE BookmarkAdded(s)
  <2>1. /\ at[s] = "write" /\ at'[s] = "idle" /\ Reaches(s, Len(out[s]))
        /\ plan' = Without(plan, s) /\ added' = added \cup {Wanted(s)}
    BY <1>0, <1>12 DEF BookmarkAdded, CommandOver, Goes, TypeInv, Scalars, Without, Wanted
  <2>2. AtBookmarks(s) /\ Writing(s) BY <2>1 DEF AtBookmarks, Writing
  <2>3. Makes(out[s], plan', added') /\ File(disk, "bookmarks") = <<>>
    BY <1>2, <2>1, <2>2 DEF BookmarksGood, Works
  <2>4. PICK doc : out[s] = bookmark_to_source(doc) /\ Holds(doc, plan', added') BY <2>3 DEF Makes
  <2>5. out[s] \in Seq(Tag) /\ Parsed(out[s]) = doc
    <3>1. Plain(doc) BY <2>1, <2>4 DEF Holds, Unmarked, UnmarkedIn
    <3> QED BY <2>4, <3>1, RoundTrip, PlainRead DEF Holds
  <2>6. File(disk', "bookmarks") = out[s] BY <1>0, <2>1, <2>2, <2>3, <2>5, WholeWritten
  <2>7. InFile' BY <2>4, <2>5, <2>6 DEF InFile
  <2>8. Works(s)' BY <2>1 DEF Works, Writing
  <2> QED BY <1>0, <1>2, <1>3, <2>2, <2>7, <2>8, AloneGood
<1>13. CASE \E n \in 0..Len(out[s]) : BookmarkTorn(s, n) BY <1>13 DEF BookmarkTorn
<1> QED BY <1>5, <1>6, <1>7, <1>8, <1>9, <1>10, <1>11, <1>12, <1>13 DEF Bookmarking

(* What is done of a plan in any step.                                     *)
LEMMA PlanNext ==
    ASSUME TypeInv, NEW s \in Session, Acts(s)
    PROVE  Fewer(plan, plan')
<1>1. plan \in [Session -> Seq(Jobs)] /\ Jobbed(s) BY DEF TypeInv, Scalars
<1>2. CASE plan' = plan BY <1>1, <1>2, FewerSame
<1>3. CASE (AtBookmarks(s) \/ AtTransfers(s)) /\ CommandOver(s)
  <2>1. plan[s] # <<>> BY <1>1, <1>3 DEF Jobbed
  <2>2. plan' = Without(plan, s) BY <1>3 DEF CommandOver, Without
  <2> QED BY <1>1, <2>1, <2>2, FewerWithout
<1>4. CASE at[s] = "open" /\ NextUrl(s)
  <2> DEFINE job == [Job(s) EXCEPT !.urls = Tail(@)]
  <2>1. plan[s] # <<>> /\ Job(s).kind = "save" /\ plan[s] \in Seq(Jobs) BY <1>1, <1>4 DEF Jobbed, AtTransfers
  <2>2. Len(plan[s]) \in Nat /\ Len(plan[s]) >= 1 BY <2>1, LenProperties, EmptySeq
  <2>3. plan[s][1] = Job(s) BY <2>1, <2>2 DEF Job
  <2>4. plan' = [plan EXCEPT ![s] = [plan[s] EXCEPT ![1] = job]] BY <1>1, <1>4, <2>2, <2>3 DEF NextUrl
  <2>5. Job(s) \in [kind : {"save"}, to : Name \cup {"directory"}, urls : Seq(Url)]
    <3>1. Job(s) \in Jobs BY <2>1, HeadTailProperties DEF Job
    <3> QED BY <2>1, <3>1 DEF Jobs
  <2>6. job.kind = "save" BY <2>5
  <2> HIDE DEF job
  <2> QED BY <1>1, <2>1, <2>3, <2>4, <2>6, FewerUrls
<1> USE DEF ghosts, AtBookmarks, AtTransfers
<1>5. CASE Bookmarking(s)
  BY <1>2, <1>3, <1>5 DEF Bookmarking, bookmark_add_to_section, resolve_bookmarks_file, CreateBookmarks, FillBookmarks,
     get_bookmarks_doc, BookmarkFails, bookmarks_save_to_disc, BookmarkAdded, BookmarkTorn
<1>6. CASE Downloading(s)
  BY <1>2, <1>3, <1>4, <1>6 DEF Downloading, cmd_anchor_save_range, request_to_handle, OpenFails, AllAdded, Arrives,
     TransferFails, PerformEnds, Report, CloseFiles
<1>7. CASE Closing(s) \/ Killed(s)
  BY <1>2, <1>7 DEF Closing, session_close, session_write_input_history, OpenHistory, EnterInputs, Enter, FetchHistory,
     WriteHeader, AppendFetches, EnterFetches, Killed
<1> QED BY <1>5, <1>6, <1>7 DEF Acts

(* The steps that have nothing to do with bookmarks, or end them.          *)
LEMMA OtherGood ==
    ASSUME IInv, TypeInv', BookmarksInv, NEW s \in Session, Downloading(s) \/ Closing(s) \/ Killed(s), ~torn', ~mixed', Unmarked'
    PROVE  BookmarksGood'
<1>0. TypeInv /\ Apart(s) /\ BookmarksApart(s) BY DEF IInv, BookmarksInv
<1>1. UNCHANGED <<torn, mixed, added>>
  BY DEF Downloading, cmd_anchor_save_range, request_to_handle, OpenFails, AllAdded, Arrives,
     TransferFails, PerformEnds, Report, CloseFiles, Closing, session_close, session_write_input_history,
     OpenHistory, EnterInputs, Enter, FetchHistory, WriteHeader, AppendFetches, EnterFetches, Killed, ghosts
<1>2. BookmarksGood BY <1>1 DEF BookmarksInv, Unmarked
<1>3. Only(s) BY <1>0, OnlyDownloading, OnlyClosing DEF TypeInv
<1>4. Aside
  <2>1. Downloading(s) => Aside BY <1>0, DownloadingAside DEF OtherFiles
  <2>2. Closing(s) \/ Killed(s) => Aside BY <1>0, ClosingAside
  <2> QED BY <2>1, <2>2
<1>5. Fewer(plan, plan') BY <1>0, PlanNext DEF Acts
<1>6. ~Writing(s) /\ ~AtBookmarks(s)'
  <2> USE <1>0 DEF Writing, AtBookmarks, AtTransfers, AtHistories, Goes, CommandOver, ghosts, TypeInv, Scalars, Asked
  <2>1. CASE Downloading(s)
    BY <2>1 DEF Downloading, cmd_anchor_save_range, request_to_handle, OpenFails, AllAdded, Arrives,
       TransferFails, PerformEnds, Report, CloseFiles
  <2>2. CASE Closing(s)
    BY <2>2 DEF Closing, session_close, session_write_input_history, OpenHistory, EnterInputs, Enter, FetchHistory,
       WriteHeader, AppendFetches, EnterFetches
  <2>3. CASE Killed(s) BY <2>3 DEF Killed
  <2> QED BY <2>1, <2>2, <2>3
<1> QED BY <1>0, <1>1, <1>2, <1>3, <1>4, <1>5, <1>6, QuietGood

LEMMA BookmarksNext ==
    ASSUME IInv, IInv', BookmarksInv, [Next]_vars
    PROVE  BookmarksInv'
<1>1. TypeInv /\ TypeInv' /\ \A t \in Session : BookmarksApart(t) /\ Apart(t) BY DEF IInv, BookmarksInv
<1>2. ASSUME NEW s \in Session, Acts(s) PROVE BookmarksInv'
  <2>1. Fewer(plan, plan') BY <1>1, <1>2, PlanNext
  <2>2. Distinct(plan')
    <3>1. plan' \in [Session -> Seq(Jobs)] /\ Distinct(plan) BY <1>1 DEF TypeInv, Scalars, BookmarksInv
    <3> QED BY <2>1, <3>1, FewerDue
  <2>3. \A t \in Session : BookmarksApart(t)' BY <1>1, <1>2, ApartNext
  <2>4. ASSUME ~torn', ~mixed', Unmarked' PROVE BookmarksGood'
    BY <1>1, <1>2, <2>4, BookmarkingGood, OtherGood DEF Acts
  <2> QED BY <2>2, <2>3, <2>4 DEF BookmarksInv
<1>3. CASE UNCHANGED vars
  <2> USE <1>3 DEF vars
  <2>1. Distinct(plan') BY DEF BookmarksInv
  <2>2. \A t \in Session : BookmarksApart(t)' BY DEF BookmarksInv, BookmarksApart, Writing
  <2>3. ASSUME ~torn', ~mixed', Unmarked' PROVE BookmarksGood'
    <3>1. BookmarksGood BY <2>3 DEF BookmarksInv, Unmarked
    <3>2. \A t \in Session : Works(t)' BY <3>1 DEF BookmarksGood, Works, Writing, Wanted, Job
    <3>3. InFile => InFile' BY DEF InFile
    <3> QED BY <3>1, <3>2, <3>3 DEF BookmarksGood, AtBookmarks, Writing
  <2> QED BY <2>1, <2>2, <2>3 DEF BookmarksInv
<1>4. ASSUME Next PROVE \E s \in Session : Acts(s) BY <1>4 DEF Next, Acts
<1> QED BY <1>2, <1>3, <1>4

LEMMA BookmarksInit ==
    ASSUME Init
    PROVE  BookmarksInv
<1>1. plan \in Plans /\ plan \in [Session -> Seq(Jobs)] BY PlansAssumption DEF Init
<1>2. Distinct(plan)
  <2>1. ASSUME NEW d \in Due(plan), NEW e \in Due(plan), JobAt(plan, d).id = JobAt(plan, e).id PROVE d = e
    <3>1. /\ d[1] \in Session /\ d[2] \in DOMAIN plan[d[1]] /\ d = <<d[1], d[2]>>
          /\ plan[d[1]][d[2]].kind = "bookmark"
      BY DEF Due, JobAt
    <3>2. /\ e[1] \in Session /\ e[2] \in DOMAIN plan[e[1]] /\ e = <<e[1], e[2]>>
          /\ plan[e[1]][e[2]].kind = "bookmark"
      BY DEF Due, JobAt
    <3>3. plan[d[1]][d[2]].id = plan[e[1]][e[2]].id BY <2>1 DEF JobAt
    <3>4. d[1] = e[1] /\ d[2] = e[2] BY <1>1, <3>1, <3>2, <3>3, IdsAssumption
    <3> QED BY <3>1, <3>2, <3>4
  <2> QED BY <2>1 DEF Distinct
<1>3. \A s \in Session : ~AtBookmarks(s) /\ ~Writing(s) /\ easies[s] = <<>> /\ at[s] = "idle"
  BY DEF Init, AtBookmarks, Writing
<1>4. \A s \in Session : BookmarksApart(s)
  <2>1. \A s \in Session : DOMAIN easies[s] = {} BY <1>3
  <2> QED BY <1>3, <2>1 DEF BookmarksApart
<1>5. \A s \in Session : Works(s) BY <1>3 DEF Works
<1>6. InFile
  <2>1. ~Exists(disk, "bookmarks") /\ File(disk, "bookmarks") = <<>>
    BY BookmarksPath DEF Init, Blank, Exists, File
  <2>2. added = {} BY DEF Init
  <2>3. Holds(Untitled, plan, added) BY <2>2, UntitledGood DEF Holds
  <2> QED BY <2>1, <2>3, ParsedNone DEF InFile
<1> QED BY <1>2, <1>3, <1>4, <1>5, <1>6 DEF BookmarksInv, BookmarksGood

(* As long as no session was stopped while it wrote the bookmarks, no two  *)
(* sessions were at them at once, and nothing was added whose title, url or*)
(* section name has markup, each bookmark that was said to be added is in  *)
(* the file whenever nobody writes it: once, in the one section that was   *)
(* asked for; the sections have different names, and the file reads and    *)
(* writes back as itself, however many bookmarks are added, by however many*)
(* sessions, and whatever these save and enter meanwhile.  Titles, links   *)
(* and names are written unescaped: the last of these exceptions is what   *)
(* the code loses by it (bookmark.c:295-315, 358-361, 375-396, 399-470).   *)
THEOREM BookmarksHeld == Spec => []BookmarksKept
<1>1. Init => BookmarksInv BY BookmarksInit
<1>2. IInv /\ IInv' /\ BookmarksInv /\ [Next]_vars => BookmarksInv' BY BookmarksNext
<1>3. BookmarksInv => BookmarksKept
  <2>1. SUFFICES ASSUME BookmarksInv, ~torn, ~mixed, Unmarked, \A s \in Session : ~Writing(s)
        PROVE  InFile => BookmarksKept
    BY DEF BookmarksInv, BookmarksGood, BookmarksKept
  <2> QED BY DEF InFile, Holds, GoodDoc, HasBookmark, Placed, BookmarksKept
<1> QED BY <1>1, <1>2, <1>3, Inductive, PTL DEF Spec
=============================================================================
