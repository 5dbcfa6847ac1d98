------------------------------- MODULE Saving -------------------------------
(* What sessions of the program, running at once or one after the other,   *)
(* write to the files they share: the bookmarks (bookmark.c, config.c), the*)
(* links and images that are saved (user-interface.c, url.c), and both     *)
(* histories, when a session is closed (session.c).  Each step is what one *)
(* session does between two moments at which another may see the files, or *)
(* at which it may be killed.                                              *)
EXTENDS Bookmarks, FiniteSets

CONSTANTS
    Session,
    Url,
    NameOf,     \* the file name made of a url: '/' becomes '_', so two may have the same
    Pieces,     \* how many pieces of text a session has for a history, several for each entry
    HeaderLen,  \* the length of the header, in pieces: it need not end where an entry does
    Plans       \* what the user asks of each session, in order

Name == {NameOf[u] : u \in Url}
Own  == {"bookmarks", "inputs", "fetches"}
Path == Own \cup Name

Jobs ==
    [kind : {"bookmark"}, id : Nat, word : Seq(STRING), prefix : BOOLEAN]
    \cup [kind : {"save"}, to : Name \cup {"directory"}, urls : Seq(Url)]
    \cup [kind : {"quit"}]

(* What is saved is in a directory of the user's, and the files of the     *)
(* program in its own.                                                     *)
ASSUME NamesAssumption == NameOf \in [Url -> STRING] /\ Name \cap Own = {}

ASSUME PlansAssumption == Plans # {} /\ Plans \subseteq [Session -> Seq(Jobs)]

(* The id of a bookmark stands for the one time it was asked for: the same *)
(* page may be added again, as another entry.                              *)
ASSUME IdsAssumption ==
    \A p \in Plans, s, t \in Session : \A i \in DOMAIN p[s], j \in DOMAIN p[t] :
        p[s][i].kind = "bookmark" /\ p[t][j].kind = "bookmark" /\ p[s][i].id = p[t][j].id => s = t /\ i = j

ASSUME PiecesAssumption == Pieces \in Nat /\ HeaderLen \in Nat \ {0}

VARIABLES
    plan,       \* what each session has still to do
    disk,
    at,         \* where each session is
    fp,         \* the file a session has open
    out,        \* what is still to be written to it
    easies,     \* the transfers of a session, each with its FILE
    saved,      \* how many files a session said were saved
    added,      \* ghost: the bookmarks that were said to be added
    torn,       \* ghost: a session emptied the bookmarks and did not write them all
    mixed,      \* ghost: two sessions were at the bookmarks at once
    shared,     \* ghost: a file was opened for two transfers at once
    covered,    \* ghost: what the header of the fetch history was written over
    closed      \* ghost: the sessions that wrote each history well

vars == <<plan, disk, at, fp, out, easies, saved, added, torn, mixed, shared, covered, closed>>

ghosts == <<added, torn, mixed, shared, covered, closed>>

AtBookmarks(s) == at[s] \in {"resolve", "create", "fill", "read", "save", "write"}
AtTransfers(s) == at[s] \in {"open", "perform", "report", "close"}
AtHistories(s) == at[s] \in {"inputs", "enter inputs", "fetches", "header", "append", "enter fetches"}

Init ==
    /\ plan \in Plans
    /\ disk = Blank(Path)
    /\ at = [s \in Session |-> "idle"]
    /\ fp = [s \in Session |-> 0]
    /\ out = [s \in Session |-> <<>>]
    /\ easies = [s \in Session |-> <<>>]
    /\ saved = [s \in Session |-> 0]
    /\ added = {} /\ torn = FALSE /\ mixed = FALSE /\ shared = FALSE
    /\ covered = <<>>
    /\ closed = [h \in {"inputs", "fetches"} |-> {}]

Job(s) == Head(plan[s])

Asked(s, kind) == at[s] = "idle" /\ plan[s] # <<>> /\ Job(s).kind = kind

Goes(s, place) == at' = [at EXCEPT ![s] = place]

(* A command is over, in success or with an error.                         *)
CommandOver(s) == Goes(s, "idle") /\ plan' = [plan EXCEPT ![s] = Tail(@)]

Opens(s, path, d) ==
    /\ disk' = d
    /\ fp' = [fp EXCEPT ![s] = d.dir[path]]

-----------------------------------------------------------------------------
(* Adding the current page to the bookmarks.                               *)

bookmark_add_to_section(s) ==
    /\ Asked(s, "bookmark")
    /\ Goes(s, "resolve")
    /\ mixed' = (mixed \/ \E t \in Session : AtBookmarks(t))
    /\ UNCHANGED <<plan, disk, fp, out, easies, saved, added, torn, shared, covered, closed>>

(* The file is made if there is none: realpath, then fopen.                *)
resolve_bookmarks_file(s) ==
    /\ at[s] = "resolve"
    /\ Goes(s, IF Exists(disk, "bookmarks") THEN "read" ELSE "create")
    /\ UNCHANGED <<plan, disk, fp, out, easies, saved, ghosts>>

CreateBookmarks(s) ==
    /\ at[s] = "create"
    /\ Opens(s, "bookmarks", OpenToWrite(disk, "bookmarks"))
    /\ out' = [out EXCEPT ![s] = EmptyBookmark]
    /\ Goes(s, "fill")
    /\ UNCHANGED <<plan, easies, saved, ghosts>>

(* What reaches the disk of what was to be written there: all, or a part   *)
(* when writing or closing fails, or the program is killed.                *)
Reaches(s, n) == disk' = Written(disk, fp[s], SubSeq(out[s], 1, n))

FillBookmarks(s) ==
    /\ at[s] = "fill"
    /\ Reaches(s, Len(out[s]))
    /\ Goes(s, "read")
    /\ UNCHANGED <<plan, fp, out, easies, saved, ghosts>>

(* The page is read into a document, changed, and made a source again, in  *)
(* memory.                                                                 *)
Place(s, doc) == bookmark_section_ul_get(doc, Job(s).word, Job(s).prefix)

get_bookmarks_doc(s) ==
    /\ at[s] = "read"
    /\ LET doc   == Parsed(File(disk, "bookmarks"))
           place == Place(s, doc)
       IN  /\ place # Nowhere
           /\ out' = [out EXCEPT ![s] =
                        bookmark_to_source(EntryAdded(doc, Job(s).word, place, Job(s).id))]
    /\ Goes(s, "save")
    /\ UNCHANGED <<plan, disk, fp, easies, saved, ghosts>>

(* No section, more than one, or a file that could not be opened.          *)
BookmarkFails(s) ==
    /\ at[s] \in {"resolve", "create", "read", "save"}
    /\ CommandOver(s)
    /\ UNCHANGED <<disk, fp, out, easies, saved, ghosts>>

(* The file is emptied.                                                    *)
bookmarks_save_to_disc(s) ==
    /\ at[s] = "save"
    /\ Opens(s, "bookmarks", OpenToWrite(disk, "bookmarks"))
    /\ Goes(s, "write")
    /\ UNCHANGED <<plan, out, easies, saved, ghosts>>

(* "bookmark added" is said once the file was closed without an error.     *)
BookmarkAdded(s) ==
    /\ at[s] = "write"
    /\ Reaches(s, Len(out[s]))
    /\ added' = added \cup {[id |-> Job(s).id, word |-> Job(s).word, prefix |-> Job(s).prefix]}
    /\ CommandOver(s)
    /\ UNCHANGED <<fp, out, easies, saved, torn, mixed, shared, covered, closed>>

BookmarkTorn(s, n) ==
    /\ at[s] \in {"fill", "write"} /\ n < Len(out[s])
    /\ Reaches(s, n)
    /\ torn' = TRUE
    /\ \/ CommandOver(s)
       \/ Goes(s, "dead") /\ UNCHANGED plan
    /\ UNCHANGED <<fp, out, easies, saved, added, mixed, shared, covered, closed>>

-----------------------------------------------------------------------------
(* Saving links or images, to a directory or to one file.                  *)

(* Mutant: the count of files is left from the last command.               *)
cmd_anchor_save_range_counting(s) ==
    /\ Asked(s, "save")
    /\ Goes(s, "open")
    /\ easies' = [easies EXCEPT ![s] = <<>>]
    /\ UNCHANGED <<plan, disk, fp, out, saved, ghosts>>

cmd_anchor_save_range(s) ==
    /\ Asked(s, "save")
    /\ Goes(s, "open")
    /\ easies' = [easies EXCEPT ![s] = <<>>]
    /\ saved' = [saved EXCEPT ![s] = 0]
    /\ UNCHANGED <<plan, disk, fp, out, ghosts>>

Actual(s, u) == IF Job(s).to = "directory" THEN NameOf[u] ELSE Job(s).to

BeingSaved(path) ==
    \E t \in Session : AtTransfers(t) /\ \E i \in DOMAIN easies[t] : easies[t][i].path = path

Transfer(u, path, ino) == [url |-> u, path |-> path, fp |-> ino, got |-> 0, buf |-> <<>>, state |-> "running"]

NextUrl(s) == plan' = [plan EXCEPT ![s][1].urls = Tail(@)]

(* The file is opened before the transfer starts.                          *)
request_to_handle(s) ==
    /\ at[s] = "open" /\ Job(s).urls # <<>>
    /\ LET u    == Head(Job(s).urls)
           path == Actual(s, u)
           d    == OpenToAppend(disk, path)
       IN  /\ disk' = d
           /\ easies' = [easies EXCEPT ![s] = Append(@, Transfer(u, path, d.dir[path]))]
           /\ shared' = (shared \/ BeingSaved(path))
    /\ NextUrl(s)
    /\ UNCHANGED <<at, fp, out, saved, added, torn, mixed, covered, closed>>

(* A url whose file cannot be opened is told of, and gives its place back. *)
OpenFails(s) ==
    /\ at[s] = "open" /\ Job(s).urls # <<>>
    /\ NextUrl(s)
    /\ UNCHANGED <<disk, at, fp, out, easies, saved, ghosts>>

AllAdded(s) ==
    /\ at[s] = "open" /\ Job(s).urls = <<>>
    /\ Goes(s, "perform")
    /\ UNCHANGED <<plan, disk, fp, out, easies, saved, ghosts>>

In(s, state) == {i \in DOMAIN easies[s] : easies[s][i].state = state}

(* What a url sends is in two parts.  fwrite, which libcurl is given as it *)
(* is, keeps what arrives in the buffer of the FILE until that is full.    *)
Parts(u) == <<<<u, 1>>, <<u, 2>>>>

Arrives(s, i, full) ==
    /\ at[s] = "perform" /\ i \in In(s, "running")
    /\ LET e    == easies[s][i]
           text == Append(e.buf, Parts(e.url)[e.got + 1])
       IN  /\ disk' = IF full THEN Appended(disk, e.fp, text) ELSE disk
           /\ easies' = [easies EXCEPT ![s][i] =
                 [e EXCEPT !.got = @ + 1,
                           !.buf = IF full THEN <<>> ELSE text,
                           !.state = IF e.got + 1 = 2 THEN "done" ELSE @]]
    /\ UNCHANGED <<plan, at, fp, out, saved, ghosts>>

TransferFails(s, i) ==
    /\ at[s] = "perform" /\ i \in In(s, "running")
    /\ easies' = [easies EXCEPT ![s][i].state = "failed"]
    /\ UNCHANGED <<plan, disk, at, fp, out, saved, ghosts>>

(* The loop ends when all transfers have, or by Ctrl-C.                    *)
PerformEnds(s, canceled) ==
    /\ at[s] = "perform" /\ (canceled \/ In(s, "running") = {})
    /\ Goes(s, "report")
    /\ UNCHANGED <<plan, disk, fp, out, easies, saved, ghosts>>

(* Mutant: the files are removed by the order of the failures.             *)
Report_by_order(s) ==
    /\ at[s] = "report"
    /\ disk' = Removed(disk, {easies[s][i].path : i \in 1..Cardinality(In(s, "failed"))})
    /\ saved' = [saved EXCEPT ![s] = Len(easies[s]) - Cardinality(In(s, "failed"))]
    /\ Goes(s, "close")
    /\ UNCHANGED <<plan, fp, out, easies, ghosts>>

(* The files of those that failed are removed, and the others counted as   *)
(* saved, those that were canceled too.                                    *)
Report(s) ==
    /\ at[s] = "report"
    /\ disk' = Removed(disk, {easies[s][i].path : i \in In(s, "failed")})
    /\ saved' = [saved EXCEPT ![s] = Len(easies[s]) - Cardinality(In(s, "failed"))]
    /\ Goes(s, "close")
    /\ UNCHANGED <<plan, fp, out, easies, ghosts>>

(* Files that are closed one after the other.                              *)
Flushed(d, transfers, W) ==
    LET after[k \in 0..Len(transfers)] ==
          IF k = 0 THEN d
          ELSE IF k \in W THEN Appended(after[k - 1], transfers[k].fp, transfers[k].buf)
          ELSE after[k - 1]
    IN  after[Len(transfers)]

(* The files are closed last, and what closing them answers is not looked  *)
(* at: W are those whose buffers reach the disk.                           *)
CloseFiles(s, W) ==
    /\ at[s] = "close"
    /\ disk' = Flushed(disk, easies[s], W)
    /\ CommandOver(s)
    /\ UNCHANGED <<fp, out, easies, saved, ghosts>>

(* The program is killed: what is in its buffers is lost.                  *)
Killed(s) ==
    /\ \/ AtBookmarks(s) /\ at[s] \notin {"fill", "write"}
       \/ AtTransfers(s)
       \/ AtHistories(s)
    /\ Goes(s, "dead")
    /\ UNCHANGED <<plan, disk, fp, out, easies, saved, ghosts>>

-----------------------------------------------------------------------------
(* Closing a session: what was typed, then what was fetched, is added to   *)
(* the histories.  An error in one of them is dropped.                     *)

session_close(s) ==
    /\ Asked(s, "quit")
    /\ Goes(s, "inputs")
    /\ UNCHANGED <<plan, disk, fp, out, easies, saved, ghosts>>

(* What a session writes, in the pieces at which the buffer of a FILE may  *)
(* be full: anywhere in an entry.                                          *)
Items(s) == [i \in 1..Pieces |-> <<"entry", s, i>>]

(* A history is opened, or is given up.                                    *)
OpenHistory(s, here, path, open, entering, next) ==
    /\ at[s] = here
    /\ \/ /\ Opens(s, path, open)
          /\ out' = [out EXCEPT ![s] = Items(s)]
          /\ Goes(s, entering)
       \/ Goes(s, next) /\ UNCHANGED <<disk, fp, out>>
    /\ UNCHANGED <<plan, easies, saved, ghosts>>

session_write_input_history(s) ==
    OpenHistory(s, "inputs", "inputs", OpenToAppend(disk, "inputs"), "enter inputs", "fetches")

(* open with O_EXCL: who makes the file writes the header; or a directory  *)
(* is missing.                                                             *)
FetchHistory(s) ==
    /\ at[s] = "fetches"
    /\ IF Exists(disk, "fetches") THEN Goes(s, "append") /\ UNCHANGED <<disk, fp>>
       ELSE \/ Opens(s, "fetches", OpenToWrite(disk, "fetches")) /\ Goes(s, "header")
            \/ Goes(s, "over") /\ UNCHANGED <<disk, fp>>
    /\ UNCHANGED <<plan, out, easies, saved, ghosts>>

Header == [i \in 1..HeaderLen |-> <<"header", 0, i>>]

(* The header is written from the start of the file, over what others may  *)
(* have entered since it was made; that it was not goes unnoticed, as the  *)
(* result of write is compared before it is stored.                        *)
Beginning(file) == SubSeq(file, 1, IF HeaderLen <= Len(file) THEN HeaderLen ELSE Len(file))

WriteHeader(s) ==
    /\ at[s] = "header"
    /\ \/ UNCHANGED <<disk, covered>>
       \/ /\ disk' = Written(disk, fp[s], Header)
          /\ covered' = Beginning(disk.data[fp[s]])
    /\ Goes(s, "append")
    /\ UNCHANGED <<plan, fp, out, easies, saved, added, torn, mixed, shared, closed>>

(* Mutant: the history is opened to be written.                            *)
AppendFetches_anew(s) ==
    OpenHistory(s, "append", "fetches", OpenToWrite(disk, "fetches"), "enter fetches", "over")

AppendFetches(s) ==
    OpenHistory(s, "append", "fetches", OpenToAppend(disk, "fetches"), "enter fetches", "over")

(* Pieces go from the buffer to the end of the file some at a time, so that*)
(* those of another session may come inside an entry; or an error stops    *)
(* them.                                                                   *)
Enter(s, here, history, next) ==
    /\ at[s] = here
    /\ \/ \E n \in 1..Len(out[s]) :
             /\ disk' = Appended(disk, fp[s], SubSeq(out[s], 1, n))
             /\ out' = [out EXCEPT ![s] = SubSeq(@, n + 1, Len(@))]
             /\ UNCHANGED <<at, closed>>
       \/ /\ Goes(s, next)
          /\ closed' = IF out[s] = <<>> THEN [closed EXCEPT ![history] = @ \cup {s}] ELSE closed
          /\ UNCHANGED <<disk, out>>
    /\ UNCHANGED <<plan, fp, easies, saved, added, torn, mixed, shared, covered>>

EnterInputs(s)  == Enter(s, "enter inputs", "inputs", "fetches")
EnterFetches(s) == Enter(s, "enter fetches", "fetches", "over")

-----------------------------------------------------------------------------

Bookmarking(s) ==
    \/ bookmark_add_to_section(s) \/ resolve_bookmarks_file(s) \/ CreateBookmarks(s) \/ FillBookmarks(s)
    \/ get_bookmarks_doc(s) \/ BookmarkFails(s) \/ bookmarks_save_to_disc(s) \/ BookmarkAdded(s)
    \/ \E n \in 0..Len(out[s]) : BookmarkTorn(s, n)

Downloading(s) ==
    \/ cmd_anchor_save_range(s) \/ request_to_handle(s) \/ OpenFails(s) \/ AllAdded(s)
    \/ \E i \in DOMAIN easies[s], full \in BOOLEAN : Arrives(s, i, full)
    \/ \E i \in DOMAIN easies[s] : TransferFails(s, i)
    \/ \E canceled \in BOOLEAN : PerformEnds(s, canceled)
    \/ Report(s)
    \/ \E W \in SUBSET DOMAIN easies[s] : CloseFiles(s, W)

Closing(s) ==
    \/ session_close(s) \/ session_write_input_history(s) \/ EnterInputs(s)
    \/ FetchHistory(s) \/ WriteHeader(s) \/ AppendFetches(s) \/ EnterFetches(s)

Next == \E s \in Session : Bookmarking(s) \/ Downloading(s) \/ Closing(s) \/ Killed(s)

Spec == Init /\ [][Next]_vars

-----------------------------------------------------------------------------
(* Properties.                                                             *)

TypeOK ==
    /\ disk.dir \in [Path -> 0..Len(disk.data)]
    /\ \A p, q \in Path : disk.dir[p] = disk.dir[q] => p = q \/ disk.dir[p] = 0
    /\ \A s \in Session :
          /\ AtBookmarks(s) \/ AtTransfers(s) \/ AtHistories(s) \/ at[s] \in {"idle", "over", "dead"}
          /\ fp[s] \in 0..Len(disk.data) /\ saved[s] \in 0..Len(easies[s])
          /\ AtBookmarks(s) => Job(s).kind = "bookmark"
          /\ AtTransfers(s) => Job(s).kind = "save"
          /\ \A i \in DOMAIN easies[s] : easies[s][i].fp \in DOMAIN disk.data /\ easies[s][i].got \in 0..2
    /\ closed \in [{"inputs", "fetches"} -> SUBSET Session]

Unmarked == \A b \in added : b.id \notin MarkupIds /\ b.word \notin MarkupNames

Writing(s) == at[s] \in {"fill", "write"}

(* A bookmark that was said to be added is in the file, once, in the one   *)
(* section that was asked for, whatever was added, refused or failed since.*)
(* Nothing is promised once a session was stopped while it wrote, or two   *)
(* sessions were at the file at once; nor once a page was added whose title*)
(* or url has markup, or a section whose name has: the file does not read  *)
(* back as it was written, the next bookmark makes what is read of it the  *)
(* file, all that came after is gone, and it is said to be added all the   *)
(* same (bookmark.c:295-315, 358-361, 375-396, 399-470).                   *)
BookmarksKept ==
    ~torn /\ ~mixed /\ Unmarked /\ (\A s \in Session : ~Writing(s)) =>
        LET doc == Parsed(File(disk, "bookmarks"))
        IN  /\ Exists(disk, "bookmarks") => bookmark_to_source(doc) = File(disk, "bookmarks")
            /\ \A i, j \in Heads(doc) : doc[i].name = doc[j].name => i = j
            /\ \A b \in added :
                  \E i \in Heads(doc) :
                      /\ IF b.prefix THEN IsPrefix(b.word, doc[i].name) ELSE doc[i].name = b.word
                      /\ Cardinality({k \in DOMAIN doc[i].entries : doc[i].entries[k] = b.id}) = 1
                      /\ \A j \in Heads(doc) \ {i} : b.id \notin Range(doc[j].entries)

Whole(e, d) == IsSuffix(Parts(e.url), File(d, e.path))

(* As many files as were said to be saved end with what their urls sent,   *)
(* and those that failed are gone, if every url has a file of its own and  *)
(* nothing was canceled or lost when the files were closed                 *)
(* (user-interface.c:245-271).                                             *)
SavedAsTold ==
    [][\A s \in Session :
          CloseFiles(s, DOMAIN easies[s]) /\ In(s, "running") = {} /\ ~shared =>
              /\ saved[s] = Cardinality({i \in DOMAIN easies[s] : Whole(easies[s][i], disk')})
              /\ \A i \in In(s, "failed") : ~Exists(disk', easies[s][i].path)]_vars

Of(s, file) == {i \in DOMAIN file : file[i][1] = "entry" /\ file[i][2] = s}

(* The pieces of a session that a file has, each once and in order.        *)
Has(s, file, first, last) ==
    /\ {file[i][3] : i \in Of(s, file)} = first..last
    /\ \A i, j \in Of(s, file) : i < j => file[i][3] < file[j][3]

(* The fetch history as it is without its header: what that was written    *)
(* over, and what comes after it.                                          *)
Headed(file) == file # <<>> /\ file[1][1] = "header"

Log(file) == covered \o SubSeq(file, IF Headed(file) THEN HeaderLen + 1 ELSE 1, Len(file))

(* Each session that wrote all it had to a history finds it there, each    *)
(* piece once and in order, however many sessions end at once; but of the  *)
(* fetch history no more is lost than what the header takes, which is      *)
(* written once, whole and first, though it may be late: then it covers    *)
(* what was entered at the start of the file, be that several entries, a   *)
(* part of one, or of several sessions.  Nothing is said of what comes     *)
(* between two pieces: sessions that end at once may tear the entries of   *)
(* each other (session.c:122-182).                                         *)
HistoryKept ==
    /\ \A s \in closed["inputs"] : Has(s, File(disk, "inputs"), 1, Pieces)
    /\ LET fetches == File(disk, "fetches")
       IN  /\ \A i \in DOMAIN fetches : fetches[i][1] = "header" => fetches[i] = <<"header", 0, i>>
           /\ Headed(fetches) => IsPrefix(Header, fetches)
           /\ Len(covered) <= IF Headed(fetches) THEN HeaderLen ELSE 0
           /\ \A s \in closed["fetches"] : Has(s, Log(fetches), 1, Pieces)
=============================================================================
