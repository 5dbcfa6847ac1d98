# A verification of ahre

ahre (`src/`) is a text browser with an `ed`-like command language, written in
C: one process, one thread, and a loop that reads a line, runs its commands and
shows what they wrote. This directory holds TLA+ modules that model it, the TLC
configurations that check them on small instances, and theorems that TLAPS
proves for instances of any size. Paths below are relative to `src/`; "guide" is
`doc/quick-reference-guide.md`.

## The system

| Part | Code | State | Operations | What makes it correct |
|---|---|---|---|---|
| Tabs and history | `src/tab-node.*`, `src/tabs.*` | a growable array of root `TabNode`s, each a tree of nodes held by value in arrays of childs, parent pointers, `current_ix`, `current_tab` | open a URL, follow a link, submit a form, go back, move to a node or path, list | parents point to parents however often arrays move; one node per document; what a tab shows is what its history says; listed numbers and paths find what they were listed for |
| Documents and fetching | `src/htmldoc.*`, `src/request.*`, `src/cmd.c` (`cmd_fetch`, `cmd_fetch_request_`) | a `Request` that is owned by the caller or by the document, the history entries of the session | fetch, follow `location.href` of scripts, refetch | a request is owned exactly once on every path, errors included |
| Transfers | `src/url-client.*`, `src/wrapper-curl.*`, `src/wrapper-lexbor-curl.*` | an easy handle, a multi handle and the easy handles attached to it, one buffer for each script or file | fetch one, fetch all the scripts of a document, save several files, cancel | each result goes to the script it is of; handles are detached before they are freed |
| Command line | `src/user-input.*`, `src/cmd-params.*`, `src/user-interface.c`, `ahre.c`, `src/session.h` | a line, the index of the next character, the sinks of its output | read a line, run its next command, cut a command, redirect its output | each command of a line runs once, in order; an error drops the rest; a redirection is for its own command |
| Output | `src/cmd-out.*`, `src/user-out.*`, `src/writer.*` | the standard and the message buffer and their sinks | write to the screen, to a file, page | what commands wrote reaches their sink, once, in order |
| Line editor | `src/reditline.*` | the line in its memory, the cursor, the history and its index | insert, delete, move, walk the history | the memory is the line; the terminal shows it; walking the history loses nothing |
| Pager and visual mode | `src/user-input.c`, `src/user-out.c` | the pages of a message, the rows of the window, the current line | turn pages, scroll, resize | a page fits; pages follow one another; scrolling skips no line |
| Text buffers and ranges | `src/textbuf.*`, `src/textmod.h`, `src/ranges.h`, `src/range-parse.c`, `src/re.*` | the text, the offsets of its line ends, its modifications, the current offset | append, fit to the screen, find a line, resolve a range, search, print, save | fitting keeps the text; modifications stay at the text they are about; a range is what its addresses say |
| Tables of commands | `src/user-interface.c`, `src/cmd-params.*` | | find the command of a line, its range, help | a word runs a command only if it begins the name of no other |
| Rendering | `src/htmldoc.c` (draw), `src/textmod.h` | the buffer under construction, the stack of attributes, the lists of links, images and inputs | draw, lay tables out | the numbers drawn are those of the elements; attributes end where their element does; no text is lost or drawn twice; columns are columns |
| Forms | `src/cmd.c`, `src/dom.*`, `src/request.c` | the boxes ticked, attributes of inputs | tick, choose, fill, select, submit | what is sent is what the screen shows |
| Bookmarks | `src/bookmark.*`, `src/config.c` | a bookmark file | add a bookmark, list sections | what was said to be added is there |
| Files of links and images | `src/user-interface.c`, `src/url.c` | open files, one transfer for each | save a range | a file that was said to be saved holds what its url sent |
| Session | `src/session.*`, `src/session-conf.*`, `src/config.*`, `src/sys.*` | the tabs, the histories, settings | init, close, set options | histories are written once and keep what others wrote |
| JavaScript | `src/js-engine.*` | a quickjs runtime for each document | run scripts, events, consoles | |
| Libraries | `hotl`, `quickjs`, `isocline`, libcurl, lexbor | | | not ours |

The parts call each other on one stack: the loop of `ahre.c` reads a line into a
`UserLine`, `process_line` runs its next command, a command works on the current
document of the current tab, fetches through the url client, and writes to a
`CmdOut` that the loop shows before the next command. There is no concurrency
within a session but the transfers libcurl runs for one `multi` handle, and the
signal handler of Ctrl-C, which sets a flag; but sessions share the bookmarks,
the histories and the directories they save to. What is hard here is memory that
moves under pointers, ownership on error paths, commands that share a line,
results that come in another order than requests, offsets in a text that is cut
and joined, state that a callback changes under the loop that calls it, and files
that two sessions write.

## The modules

### Tabs: `History`, `TabTree`, `TabNumbering`, `TabTreeProofs`, `TabHistoryProofs`

`TabTree` is the heap of `TabNode`s. A `TabNode` is a record (`doc`, `parent`,
`childs`, `current_ix`) that lies by value in a block of `heap`; `tabs` is the
block of the array of roots, `current_tab` the index of `tablist_current_tab`.
`ArlAppend` is the `append` of hotl: the items stay where they are or move to
any free block, which may be one that an old pointer still names.
`arl_of_tab_node_append` is that and the correction of parents that
`tab-node.c:115` makes after a move. Actions are the commands: `OpenUrl`,
`FollowLink`, `tablist_back`, `MoveTo`, `SelectTab`; a command on a range is
`StartRange` and one step for each element (`FollowRangeLink`,
`SubmitRangeInput`, `RangeElementFails`, `RangeStops`), since each callback works
on the tree the previous one left.

`History` is what the guide promises, without memory: the documents of each tab
as a tree, and the one each tab shows. `CommandsKeepPromises` is the refinement
(`ImplementsHistory`) together with which step of it each command takes.

`TabNumbering` adds how `|` finds nodes: the recursive count of `tabs.c:31`, the
paths of `tab-node.h:112`, the listings in both forms and their marks.
`NumberedNext` replaces the choice of a node in `MoveTo` by what a number or a
path finds; `NumberSelectsListed` says that every step is still one of `TabTree`,
and selects the tab of the node that was listed with that number.

### Documents: `Pages`, `DocFetch`, `DocFetchProofs`

A `Request` is a struct of pointers that is copied by assignment. Its strings,
`CURLU` and handle are a *body*: `bodies` has those in use, and every
field or local variable that holds a `Request` (`docs[p].req`, `r`,
`calls[k].replace`) names one. `calls` is the stack of
`htmldoc_init_move_request`, which calls itself when a script set
`location.href`; `at` is the stage a call is in. Actions are the stages and their
failures (`Fetch`, `FetchRefused`, `FetchFails`, `ScriptsEnd`, `Draw`,
`StepFails`, `Redirect`, `RedirectFails`), the returns to a redirected call, to
the command and to a refetch, and the labels `Fail` and `Fail_Replace` of the
code. `replace_doc_url` is a script. `Pages` is the promise: a command changes
the page it is for, or none.

### Transfers: `ScriptFetch`, `ScriptFetchProofs`

`at` is the step of `curl_lexbor_fetch_document` and of the loop of
`w_curl_multi_perform_poll`; `scripts` holds, for each place of the arrays of the
head and the body, the set of scripts that were written to it; `easies` are the
easy handles in order with the address libcurl writes to (a place, and whether
the array has moved since); `multi` is the state of each attached transfer, and
`unread` the messages that wait. `Perform` is libcurl: any running transfers
write, any end, well or not. `Interrupt` is the handler of Ctrl-C, which may come
at any point of the loop; `flag` is `interrupt_flag__`, which `Check` reads and,
in a statement of its own, `Clear` or `Cancel` clears (`sys.c:180-181`).

### Lines: `UserLine`, `MainLoop`, `MainLoopProofs`

`UserLine` has the functions of `user-input.c` as operators on a line: tokens and
the index of the next one. They write `\0` where the code does, because a line
that was cut and put back is not the line it was.

`MainLoop` is `_loop_` and `main_ahre` (`ahre.c`): `pc` is the next call, `line`
the `UserLine`, `memory` the state of the memory of every line that was read,
`cout` the two buffers and their sinks. Commands come in *kinds*, by what their
function does with the line; the comment at `Kind` names them. A command of a
kind cuts the line (`cut_cmd`, `pop_last_nonspace`, `pop_rest`, ...), writes to
both outputs and may fail after that for a reason of its own; a command on a
range is `RunRange` and one `RunNode` for each element. `Show` is
`session_show_output` in both interfaces, for a page with a text and for one
without, of which a message says so; `mode` is the interface, which `set session
input` changes at run time. What the user types is a *script*, a
sequence of commands with their redirections, which `Text` writes down; ghost
variables (`ran`, `done`, `failed`, `unlucky`, `shown`, `told`) relate what the
loop did to it.

### Keys: `Zipper`, `LineEditor`, `Pager`, `ViMode`, `ViModeProofs`

`LineEditor` is `reditline.c` key by key. `items`, `capacity`, `len` and `pos` are
the fields of `RLBuf`, with memory that was never written holding `Junk`; `row`
and `col` are the terminal, which the code only ever writes to, by escape codes
whose numbers `snprintf` cuts to two digits (`Columns`, `IsCut`) and which are
refused above 999 (`MaxMove`, `MoveRefused`). A terminal has `Cols` columns, and what
it does with a line that is wider is not followed: `lost` says why `row` and `col`
say nothing for now. `Zipper` is the
editor that a user thinks of: what is before the cursor, what is after it, and
the lines that were entered. `ActsAsZipper` is the refinement.

`Pager` has the pages of a message (`_get_next_page_`, with `size_t` modulo
`Size`) and the range of lines that a window shows; `ViMode` composes both with
the keys that scroll, windows that are resized and commands that leave messages.

### Texts and commands: `TextBuf`, `Ranges`, `Dispatch`, `Commands`

`TextBuf` fits a text to a number of columns as the code does: breaks are put in a
line at a time, then the modifications are moved window by window. Bytes are those
the code tells apart (a character of one byte, the two bytes of one of two, space,
newline, escape, the final `\0`). `Ranges` reads the addresses of a range and
resolves them, with sizes that wrap at `SizeMod`, deltas that are made ints of
`IntMod` values (`AsInt`), and `errno` as a variable that outlives the call.
`Dispatch` has the tables of `user-interface.c` and the walk that finds a command in
them. `Commands` draws a document, reads a line, runs it and keeps what it did
(`last`) until the next prompt.

### Pages: `DrawBuf`, `Tables`, `Render`, `DrawnPage`

`Render` is the walk of the tree, one operator for each kind of element, with the
state of `DrawCtx`: lists of numbered elements, stack of attributes, buffer and
error. `DrawBuf` is the buffer with its modifications, how a buffer is appended to
another and trimmed. `Tables` is the layout: widths, columns that are shrunk, cells
that are broken, the lines drawn from their parts. `DrawnPage` has a page on the
screen and the commands that change it and draw it again, or send a form. Each
character remembers the node it was drawn for, which is what the properties need
and the code does not have.

### Files: `Disk`, `Bookmarks`, `Saving`, `SavingProofs`

`Disk` is the file system with names and what open files refer to apart, so that a
removed file can still be written. `Bookmarks` reads a file into sections, adds an
entry and writes it back. Titles, urls and names of sections are written as they
are, so that what is read is what the parser sees (`Seen`): markup in one of them
(`MarkupIds`, `MarkupNames`) takes all that follows it in the file. It stands for
the opening of an element of raw text, as `<script>`, which loses most. `Saving` has
sessions that do this, save links and images, and write their histories, in steps
between which another session may see the files or this one may be killed. A history
is written in `Pieces`, several for an entry, as the buffer of a `FILE` is flushed
where it is full; the header of the fetch history is `HeaderLen` pieces, and need
not end where an entry does.

## The runs

| Run | Question | Bounds |
|---|---|---|
| `tab_tree` | do parent pointers, blocks and indexes stay valid, is no document lost, and does the tree implement the history? | 4 documents, 5 blocks, ranges of 2 |
| `tab_numbering` | do listings, numbers, paths and marks agree, before and after every command? | 4 documents, 5 blocks, ranges of 1 |
| `doc_fetch` | who owns a request and a document on every path, refetches among several tabs included, and which page does a command change? | 2 tabs, 1 redirection, 2 urls |
| `doc_fetch_ends` | does a command end, through a chain of redirections? | 1 tab, 2 redirections |
| `script_fetch` | do results land where they belong, are failures known, does Ctrl-C end the loop? | 5 documents, up to 2 scripts in a part and 3 in all |
| `main_loop` | is each command of a line run, once, with its own sinks? | every promised line of 1 or 2 commands, one of 3; up to 3 lines out of 8; ranges of 2 |
| `vi_mode` | is the line in memory the line that was typed, do pages and windows show everything? | lines of 6 characters until the history is full, then of 4 (`LongWithFewLines`), a terminal of 6 columns for them, moves of up to 4, 2 entries of history, messages of 5 characters, windows of 3 to 5 rows and pages of 2 columns, texts of 6 lines |
| `commands` | does a line run the command it names on the lines it names? | texts of 3 pieces and a few longer ones, width 3, every kind of address and pairs of those that differ, for texts and for links, deltas within and, of single addresses, beyond an int of 32 values |
| `drawn_page` | do numbers, attributes, tables and forms of a drawn page say what the page says? | every element in every other one, tables of 2 by 2 cells of 3 texts, with a span, with odd rows and cells, of 3 columns of one or two long words on 18 columns, forms in the page and in a table; 1 setting changed, any commands on inputs |
| `saving` | is what a session was told is saved there when several write? | 2 sessions, 3 urls of which 2 have one name, up to 3 bookmarks, or 4 of which one has markup; 4 pieces in a history, 3 in its header |
| `refetch_post`, `script_indexes` | see "Where the code and its texts disagree" | |

What the properties say, beside the type invariants:

* **TabTree.** `ParentsValid`: each node points to the node whose array holds it,
  however often arrays moved. `BlocksOwned`: a block has one array, and an array in
  use a block. `CurrentIndexValid`: `current_ix` is an index, or the count of
  childs. `DocumentsKept`: each fetched document is in one node, and a range stays
  on the document it is about. `CommandsKeepPromises`: the refinement of `History`,
  and which of its steps each command takes.
* **TabNumbering.** `NumbersAgree`: what both listings show, what the search finds
  and what is marked is the same. `NumberSelectsListed`: the node that was listed
  is the one a number selects, and listings keep their order.
* **DocFetch.** `Ownership`: each request has one owner, no pointer dangles,
  nothing leaks when the command is over, and a fetch writes to its own history
  entry. `ImplementsPages`: a command that fails shows what was shown.
  `CommandEnds`.
* **ScriptFetch.** `WritesLand`: libcurl writes to the script the url is of.
  `FailuresSettled`: each failure is known, its message read while its handle is
  alive, the handles detached, and, when no script is local, the script that failed
  emptied. `InterruptEndsLoop`: Ctrl-C does, unless it comes between the statements
  that read the flag and clear it.
* **MainLoop.** `EachDone`: the commands of a line all do what they are for, unless
  one fails. `NothingTwice`: they run in order, what is shown is shown once, and
  every line is freed once. `OutputsArrive`: what a command wrote is where its own
  redirection says, whole, and on the screen until it was seen; the screen is blank
  only after the message that a document has no text.
* **ViMode.** `RowShowsLine`: the terminal shows the line and the cursor, as long as
  no line was as wide as it and no move was cut. `ActsAsZipper`: the refinement.
  `PagesGood`: pages fit the window, follow one another, and the hints below them
  are true. `ScrollReaches`: no line is skipped.
* **Commands.** `FitKeepsText`: fitting changes breaks only, and attributes stay at
  their text. `RangesNameRight`, `OutputRight`: a range names the lines or links it
  says, and those are printed, saved or found. Of lines this is for deltas that are
  ints; of links the delta is ignored, and there is no current one.
  `OneCommandPerWord`: a word runs a command only if it begins no other one's name.
* **DrawnPage.** `NumbersName`: the number drawn at an element is the one commands
  name it by. `ColourRight`: a character has the attribute of its innermost element
  that gives one. `TextOnce`: no text is drawn twice, and none is lost but, in a
  table, one character for each break that may be within a word; of a table in a
  table only the first half is said. `FormsRight`: one radio button at most, and a
  form sends what the screen shows. `TablesGood`: a table fits, and its columns are
  columns, up to one column for each cell before whose break may leave a space that
  is drawn and not counted.
* **Saving.** `BookmarksKept`: a bookmark that was said to be added is in its
  section, once, if nothing that was added has markup. `HistoryKept`: what a session
  wrote is there, each piece once and in order, but for what the one header of the
  fetch history was written over, which is no more than its length.
  `SavedAsTold`: as many files are whole as was said, and failed ones are gone.

Distinct states: `tab_tree` 943, `tab_numbering` 550 and `doc_fetch` 32 thousand
under symmetry of blocks, bodies and pointers; `doc_fetch_ends` 684 thousand
without it, as it checks liveness; `script_fetch` 45 thousand, `main_loop` 222
thousand, `vi_mode` 924 thousand, `commands` 453 thousand, `drawn_page` 12
thousand, `saving` 2.5 million.

**Why the bounds are enough.** A stale parent needs a node with a grandchild in an
array that moves: three documents; with four there is also a sibling, or a second
tab, that must not be touched. A block that is released and handed out again needs
one block more than arrays. A request is shared by at most the caller and the
document of each call on the stack, so a chain of two redirections has a call that
is both redirected and a redirection. Failures by index need two scripts in one part
and one in the other. What a command leaves on the line concerns the next one only;
what an error leaves concerns the next line, and two errors in a row need three
(`SeveralAreFew` takes those from the lines that leave something). A line of the
editor needs a character before, at and after the cursor, and memory that grows: 5
characters with `Grow` 2; two entries have a way through the history and back; moves
of four columns and more are cut with `Radix` 2 as those of a hundred are by the
code. Five characters on pages of two columns and one row or more make up to five
pages with lines that fit, that are split, and that end the message; sizes wrap at
16. A line of six characters reaches the last of six columns, needs a move of more
than `MaxMove` from its first to its end, and may be opened, given up and typed
again on a screen that was not cleared. With two entries in the history lines stay
shorter than that, which is what `LongWithFewLines` says: a wide line is not about
the history. A text of three pieces with a width of three breaks in the middle of a
character of two bytes, of a word and at a space; the longer ones break twice.
Deltas of 31 are no ints of 32 values: one to the right is refused, one to the left
becomes a step to the right. Elements lose attributes when they are two deep with
text before, between and after them; a table needs two rows to have columns and two
columns to have spans; three columns of long words are the fewest that put the last
one beyond the screen, as each may be a space too wide. Two sessions are the fewest
that can interfere, and the third bookmark comes after both have written; with
markup the page has something before and after it, in its section and in another,
and a bookmark is added to what is left. A header of three pieces over entries of
two covers one and a half, and, if both sessions have begun, pieces of both.

`CHECK_DEADLOCK FALSE` stands only where the system stops or its input ends: the
loop has read its lines or quits (`main_loop`), `quit` was run or the program died
of a division by zero (`commands`), the sessions are over (`saving`).

**Fairness.** `DocFetch` has weak fairness of `Run`: the steps of one call follow
each other on one stack, and a transfer or a script that takes too long fails
(the handler in `js-engine.c` stops it, and Ctrl-C a transfer). Nothing is assumed
of `Command` and `Script`. `CommandEnds` holds up to `MaxRedirects`, a bound the
code does not have: two pages that redirect to each other are fetched for ever.
`ScriptFetch` has weak fairness of `Fetch`, because the poll returns after 100 ms
whatever happens; no transfer is assumed to end, so Ctrl-C must do it. No fairness
saves the one that comes after the flag was read and before it is cleared: it is
erased, and `InterruptEndsLoop` is of all the others. The other
modules have none: they state what a step may do, and wait for a user.

### Where the code and its texts disagree

Two runs find a counterexample to a sentence of the repository:

* `refetch_post`: "we reuse the request" (`cmd.c:278`); the answer to a form sent
  by post cannot be fetched again, as the first fetch left it with fields *and*
  pairs.
* `script_indexes`: "I can assume indexes will match"
  (`wrapper-lexbor-curl.c:180`); with a local script in the head they do not, and
  another script is emptied than the one that failed.

What follows was met while modelling. The models behave like the code, no run is
spent on these, and where a property would be false because of one its comment or
its definition makes the exception.

*Tabs and fetching.*

* `|2` "switchs to third tab" (guide:113); the number counts nodes of the listing
  (`cmd.c:190`). `|0.1.2.` (guide:114) is refused: a path is only taken after `|.`.
* A refetch that fails leaves its document with another url when the server or a
  script had sent it elsewhere, because both documents share one `CURLU`
  (`htmldoc.c:1017`).
* A Ctrl-C during the last turn of the loop cancels the next fetch (`sys.c:179`), and
  one between the statements that read and clear the flag is erased (`sys.c:180-181`;
  TODO:18 has "clean Ctrl-c when race condition").
* `get u ;x`: the `;` was cut off when `chop_and_skip_space` asks for a space
  (`request.c:86`), and both commands are dropped. guide:38-40 has `go` for `get`.

*Lines and output.* `EachDone` and `OutputsArrive` are about the lines `Promised`
and the kinds of commands that cut their line because of these.

* The redirection of a command to a file is refused when another command follows
  (`user-input.c:478`, against the comment at 447).
* Toggling a checkbox cuts twice (`cmd.c:439` after `cmd.c:509`), so that the next
  command is taken for the rest of this one.
* Commands that never cut the line (`draw`, `js`, `[`) ignore a redirection, and
  the sink is then read as a command (`cmd.c:167`).
* In line mode a file that both outputs go to is opened twice with `"w"`, and has
  only the second (`user-out.c:131`).
* A redirection in `-c` also takes the messages of the urls fetched before it
  (`ahre.c:91`).
* At the end of the input the test for a missing line is of a pointer that is
  never null (`user-interface.c:767`).

* In visual mode a document without a text has the message "Buffer is empty" or
  "content was not parsed" in place of a page (`user-out.c:198-201`); the screen is
  cleared when it was read (309-311), and stays blank until a key is pressed.

*Keys.*

* A last line without a newline that does not fit the page gives "error paginating
  msg, rewind too large! :(" (`user-input.c:159`); a line that is split loses a
  character; a window of one row makes empty pages; no columns is a division by
  zero (151); `wait_for_char('q')` (246) never returns at the end of the input.
* Moves of a hundred columns or more are cut to two digits (`reditline.c:155`), and
  moves of more than 999 are an error (153), for which the line is given up (446-450).
* A line that is wider than the terminal wraps, but the codes erase one row and move
  within one (`reditline.c:121`, 342, `escape-codes.h:27-30`): what is shown from then
  on is not the line.
* Walking the history drops the line that was being typed (`reditline.c:212-230`).

*Texts and commands.*

* Whether a delta is too large is asked for positive ones only, before it is made an
  int (`range-parse.c:37-41`): `1-4294967295` is line 2. Deltas of links, and of all
  that is not a text, are read and ignored (`ranges.h:42-66`).
* A number that is too large leaves `errno`, and good ones are refused after it
  (`utils.c:85`, guide:84).
* The offset after a search is ignored, `^` never works as no last range is stored
  (guide:85), `/pat/,N` leaves the line at the match (guide:71-73), and a search
  moves the offset even if its command fails.
* `0,N` with `save` truncates the file ("textbuf ranges (:) start at 1",
  `textbuf.c:397`). `:%save` writes the final `\0`, `:save` does not. guide:75 has
  `:write`, the command is `save`.
* `g` fails when the last line matches or the pattern is empty, and ignores its
  range. Numbers to base 36 take letters of the command: `[1save x`.
* `set ncols 0` and a drawing divide by zero.

*Drawing.*

* Numbers of forms are drawn from 1 and typed from 0 (`htmldoc.c:583`).
* Bold is lost in a heading after an inner element with an attribute (754), and an
  element that holds a table loses its own after each line of the table; the redraw
  of a table that does not fit still adds resets without colours.
* Errors in `li`, blocks and headings are swallowed; a row with another child than
  `td` or `th` fails the drawing; a table drawn again lists its elements twice
  (2224), the first numbers naming nothing on the screen.
* `split_cell` writes over a character of a long word (1676), or breaks before a
  space; spaces at the ends of a line of a cell are drawn and not counted (2114), so
  that a table of three columns of long words may end beyond the screen; the widths
  of columns that were not split are not what the comment at 1596 says.
* The offset of a fragment is not moved when text before it is trimmed.
* Ticked boxes are kept by nodes; `select` unsets every option before it knows
  that one matches (`cmd.c:564-594`); a request sends the last option that is
  selected (`request.c:29`), the screen shows the first (`htmldoc.c:542`).

*Files.*

* Saving appends, against "open it in write mode" (`url.c:45`); urls whose names
  collide (`/` becomes `_`) share a file, and one that fails removes it. "files
  saved" counts those that Ctrl-C stopped, and the errors of `fclose` come after
  it. Saving an image always succeeds, and an error in saving scripts is replaced
  by "script(s) saved" (`user-interface.c:459`).
* Bookmarks: a write that stops leaves a torn file; two sessions lose updates.
  Titles, urls and names are neither escaped nor quoted (`bookmark.c:295-315`,
  358-361): after a page that is called `<script>` was added, the rest of the file is
  its text, and the next bookmark makes what is left the file, without the sections
  that came after, or is refused; it is said to be added all the same.
* The result of writing the header of the fetch history is compared before it is
  stored (`session.c:131`). A late header is written over what was entered at the
  start of the file, 238 bytes (`fetch-history.h:46-64`), which are an entry or two,
  or a part of one, of any sessions; a session that is killed before it leaves none.
* Buffers of a history are flushed where they are full, so that the entries of two
  sessions that end at once may be inside each other. When the line with the date of
  the history of inputs cannot be written, its file is closed twice (168-179).

## The proofs

### Tabs

`TabTreeProofs` proves for any set of blocks, any number of documents and any
ranges that `TabTree` keeps its types (`TypeCorrect`), that every parent pointer
is the address of the parent (`ParentsStayValid`), that no block is shared,
dangling or lost (`BlocksStayOwned`), and that `current_ix` is an index or the
count of childs (`IndexStaysValid`).

None of these is inductive. The invariant is

    IInv == HeapInv(heap, tabs, fetched) /\ TabIn(heap, tabs, current_tab)
            /\ fetched \in 0..MaxDocs /\ CmdTyped /\ Running

and `HeapInv` is `Typed /\ Owned /\ Linked /\ Ordered /\ Indexed`. `Linked` needs
`Owned`: when an array moves, `_fix_childs_parents_` finds the childs of its items
by their block, which is right only if no other node has that block. `Owned`
needs `Ordered`, that a child was fetched after its parent: without it a node
could be in its own array of childs, and moving the array would take away the
place that is about to be written. `TabIn` is what makes `CurrentNode` a node.

The argument follows the code: `AppendMoves` says what `arl_of_tab_node_append`
does to any pointer (`Moved`), `GrownInv` that a heap that grew this way by one
leaf keeps `HeapInv`, `RootAppend` and `ChildAppend` that the two callers are such,
`SetCurrent` and `GoBack` the same for `tab_node_set_as_current` and
`tablist_back`; `NextInv` has one step for each action. Assumed are
`BlockAssumption` (the null pointer is no block and no address) and
`BoundAssumption` (the bounds are numbers).

`TabHistoryProofs` proves that no document is lost (`DocumentsAreKept`) and that
the heap behaves as `History`, each command as the guide says of it
(`PromisesKept`). Where a node is found by following pointers, `TabTree` makes as
many steps as documents were fetched: down the current childs
(`tab_node_current_node`), up the parents (`Chain`), over the childs (`Tree`). The
proofs take those apart as functions of the steps (`Down`, `Up`, `Below`), show
that they exist, and that they have ended by then, because a child was fetched
after its parent (`Ordered`): `DownStops`, `ChainFacts`. The invariant is

    DInv == IInv /\ OnePerDoc(heap, fetched) /\ OnDocument

where `OnePerDoc` names a node by its document, which is what makes `NodeOf` a
name at all, and `OnDocument` is what a range of links needs: between two of its
elements the session shows the document it started from. That the session comes
back is the one hard case (`BackShows`): going back after a link follows a
parent pointer that the append may just have moved.

The refinement is then one lemma for each command (`OpenUrlStep`, `OpenStep`,
`RangeStep`, `BackStep`, `SelectStep`, `MoveStep`): what the arrays hold and what is
shown afterwards (`OpenedHistory`, `RangedHistory`, `TabHistory`, `ChosenHistory`), and
that it is what the action of `History` makes of them. `MoveStep` also shows that
a node found in the tree of a tab has its document in the tree that `History`
computes without pointers.

### Documents

`DocFetchProofs` proves for any urls, any memory, any number of pages and of
redirections in a row that `DocFetch` keeps its types (`TypeCorrect`), that a
request has one owner on every path (`OwnershipKept`), and that a command changes
the page it is for or none (`PagesImplemented`). Ownership is about what the
owners hold now; why it survives a return is a matter of the whole stack of calls:

* `Staged`: all calls but the last wait for the second document of a redirection;
* `Placed` and `Named`: a document is in one tab or one call, and no two tabs or
  calls or the command have the same request;
* `Handed`: a call works on the request its caller has, until it was redirected;
  then it has the document of the other call, and a request no one else has;
* `Alive`: a body is in use if and only if someone owns it, with the one exception
  of a redirected call, whose first request was released while the caller still
  names it;
* `Fetched`: what a tab shows was fetched.

`IInv` is these and the types, and has one lemma for each action. Most actions
touch the last call only, which `WorkStep` says once; `Redirect` and the returns
are those that move a request between calls. The refinement sorts the actions:
a command asks (`AskStep`), a return answers (`AnswerStep`), a failure refuses
(`RefuseStep`), and no other step is seen (`HiddenStep`). Assumed are
`NilAssumption` (null is no url, address or record) and `BoundAssumption`.

### Transfers

`ScriptFetchProofs` proves for documents with any scripts in any order that
libcurl never writes to the place of another script or to an array that has moved
(`WritesAlwaysLand`), and that failures are known and settled
(`FailuresAlwaysSettled`). The invariant has five parts: which handles are
attached at each step of the loop (`Attached`), that the failures are those of the
messages that were read (`Read`), that each handle is of a remote script of its
part and has a place of its own (`Handles`), who wrote what (`Authors`), and, for a
document with no local script, that the k-th handle has the k-th place of the head,
or of the body after those of the head (`Ordered`): the comment "I can assume
indexes will match" is true of just those, when no script lacks a handle.
The step that attaches a part (`AddInv`) takes the most care, as an append may
move the array that the handles of the same part already point into.
`PagesAssumption` says that documents are sequences of kinds of scripts.

### The line and the main loop

`MainLoopProofs` begins with every function that takes a command off the line, for
any set of tokens: what is left is the line with a few of its characters
overwritten, with an index that did not go back (`Cuts`).

It proves `NothingTwice` (`NeverTwice`) for any set of scripts, any
number of lines and any length of ranges: the commands run in the order they were
typed and none runs twice, no item of output is shown twice, and each line is freed
at most once. The invariant is

    IInv == Scalars /\ Held /\ Ahead /\ Stopped /\ Output

`Held` says whose memory the loop has and that the rest is freed, in any order of
lines, errors and ends. `Ahead` is why no command runs twice: whatever was
overwritten, the numbers of the commands from the index on are increasing and
all greater than those that ran; `Stopped` adds that after an error nothing of the
line is left. That the text of a script is numbered so is an induction over its
commands. `Output` is why nothing is shown twice: what is in
the buffers and what was shown are disjoint and without repetition, and both are
among what can have been written by now, so an item that is written next is
new. A flush moves items between the two and loses or doubles none, in each
interface and with one file for both outputs or two (`GoodFlush`, `GoodSession`).
`MainLoopAssumption` says that scripts are sequences of commands and that there
are lines and elements.

`OrderProofs` has what these proofs need of order: the ends of a set of
numbers, and induction up to a number (`SetInduction`), which is derived from the
finiteness of intervals and stated for sets, as the provers cannot instantiate the
library's theorem. `StepsExist` and `NatSets` of `TabHistoryProofs` do the same for
functions that are defined step by step. This covers the inductions above, where
what is counted is at hand.

### The line editor and the window

`ViModeProofs` proves, for any alphabet, any lengths of lines, histories and
texts, any windows and any messages:

* `RowInvariant`: the terminal shows the line, if no line was as wide as it since the
  screen was cleared and no move was cut since the line was drawn;
* `ZipperRefined`: the line in its memory, with `memmove`, a cursor and a history
  index, is the `Zipper`: a key takes from the line what it is for and nothing else,
  and the walk through the history brings back what was entered;
* `ScrollingSkipsNothing`: what is shown next touches what was shown before;
* `MessagesRead`: a message is shown page by page, as `PagesGood` says;
* `TypeCorrect`: the fields of `RLBuf`, the pages and the rows stay in bounds.

The invariant of the editor, `EdInv`, is its type invariant with a history of
lines of *characters*: what is recalled from the history is put in the line, so a
line that kept memory never written would come back as one. `CutOut` says
what every key that deletes does to the memory, and `MovedMemory` what `memmove`
does; with them each key is a case of `NextInv` (the invariant), `NextRow` (the
terminal) and of the step to `Zipper`, whose two halves of the line are
`Line(items, pos)` and `Rest(items, pos, len)`. `EditorOnly` is what makes these
hold in visual mode: each of its steps is one of the editor or leaves it.

`ScrollReaches` is about two steps of a window. Its invariant, `ScrollInv`,
relates the range that is shown, the current line, the count of lines and the mode:
a range that is shown is in the text, and the line a scroll leaves is in it or no
more than its height away. It was checked as an invariant of `vi_mode` before it was proved.

`PagesGood` is about a function of pages, each cut from a later one, and about the
pages that were turned. Of the function: it is defined on what it is called with
(`CutsExist`), which needs that a line that fits leaves rows (`AfterLine`); and each
page it returns is a `GoodPage`, from the end of the message back (`CutsGood`). That
a page has no more rows than it may is counted line by line: the rows of a line are
among the multiples of the width (`StartsInLine`, `FewInLine`), and the lines of a
page have no row in common (`LinePage`). In a session of no rows the rows of the
pager wrap around; `HasRoom` says that there are then more than a message needs, so
that no line is split (`RoomEnough`, `RoomAfter`). Of the pages that were turned,
`TurnedOK` says that they are those that `get_next_page` takes one after another for
the message and the rows that are shown; it was checked as an invariant of `vi_mode`
before it was proved.

Assumed are `EditorAssumption` (characters are not `Nul` or `Junk`; memory grows;
the columns and the longest move are numbers),
`ViAssumption` (sizes are numbers, and one of the windows is the largest) and
`PagesAssumption` (a terminal has columns, its characters are counted by a `size_t`,
and so is a message times one more than the columns: rows and columns come as
`unsigned short`, and a message is in memory).

### Files

`SavingProofs` proves for any sessions with any plans, urls and names that
`Saving` keeps its types (`TypeCorrect`), that the histories keep what was
entered in them (`HistoriesKept`), that files are saved as the user is told
(`FilesSavedAsTold`), and that a bookmark that was said to be added is where it was
asked for, once (`BookmarksHeld`). Of the histories: each session that wrote a history
to its end has there all it wrote, each piece once and in order, whoever else was
writing and wherever anyone was killed; of the fetch history this is so but for what
the header covers, which is as much as it is long, once, of whatever entries the
file began with. That an entry is in one place is not promised: the pieces of another
session may come between. The invariant is

    IInv == TypeInv /\ (\A s \in Session : Apart(s)) /\ InputsInv /\ FetchesInv /\ HeaderInv

`Apart` says which file each session has open: a history is written by who is
closing, and no file of a bookmark or a transfer is a history, which has to be
said of files and not of names, as a transfer goes on writing to a file that was
removed. `InputsInv` and `FetchesInv` relate what a session has still to write
(`Remains`) to what of it is in the file (`Has`), from its first step to the end of
its closing. `FetchesInv` says it of the log that the file would be without its header
(`Under`): the file is the log, or the header and what of the log comes after
`covered`, whose length is that of the header at most. What is appended to the file is
appended to the log, and the header, which takes the start of the file, moves that
to `covered` and leaves the log as it was (`WritingHeader`). `HeaderInv` is why that
happens once: one session makes the file, and until it is past the header there is
none.

That files are saved as told is an action property, of the step that closes them:
it follows from `IInv` and

    FiledInv == ~shared => Filed

`Filed` says of each transfer that what was sent so far ends its file, together with
what is still in the buffer of the `FILE` (`Sent`); that the file is still the one of
that name, or was removed after the transfer failed (`Kept`); that a file no name
refers to is written in vain, as no other name comes to refer to it (`Moves`); and
that no two transfers, of one session or of two, have one file (`Alone`). All of it
may break once a file was opened for two transfers, which the ghost `shared`
remembers, and nothing is said from then on. That every session that writes the
bookmarks has the file the name refers to is part of it: the bookmarks are never
removed, so that what is written to them is in no file that is saved. There is a
lemma for each step (`RequestFiled`, `ArrivesFiled`, `ReportFiled`, `CloseFiled`,
...), and `ElsewhereFiled` for all steps of bookmarks and histories.

That bookmarks are held follows from `IInv` and

    BookmarksInv == Distinct(plan) /\ (\A s \in Session : BookmarksApart(s))
                                   /\ (~torn /\ ~mixed /\ Unmarked => BookmarksGood)

The page of bookmarks is in the file, or on its way there: `BookmarksGood` says that
one session at most is at it (`mixed` remembers if ever two were, `torn` if one was
killed while it wrote), that what this session has made of the page is good
(`Works`), and that so is the file when nobody writes it (`InFile`). A page is good
(`Holds`) if no two of its sections have one name, it has every bookmark that was
added, once and in the section that was asked for, and none that is still to be
asked for; and, if nothing that was added has markup, it has none (`Plain`). The part
before is what makes it inductive: an entry that is added must not
be there yet, for which `Distinct` says that no two bookmarks still to be asked for
are one. `BookmarksApart` says that who writes has the file that the name refers to,
and that no transfer has it open.

The session reads the page that another one wrote, as tags. That is the page that was
written only if the parser sees all of them: of tags without markup it does
(`SeenWhole`), and the source of a plain page has none (`PlainRead`). With markup the
page that is read is another one, and `BookmarksHeld` says nothing from then on, as
the code keeps nothing. `RoundTrip` says that the tags, all seen, make the page that
was written, for every page: by induction over its sections,
and for each over its entries, of what is read of the tags so far. As the library's
induction is out of reach, it is made of a set of numbers that has 0 and the next of
each of its members (`SetInduction`), and `bookmark_to_source` and `Read` are
written as recursive functions, which `WritingsExist` and `ReadingsExist` define.
What adding a bookmark makes of a page, in a section that is there or in a new one,
is then a matter of pages and not of files.

What opening, writing, removing and closing files leaves of a disk is said once,
for any disk (`Rewriting`, `Making`, `Emptying`, `Removing`, `Flushing`), and what
appending does to who has what by `AppendingEntries` and `WritingHeader`. A session
that adds bookmarks or saves files leaves the histories as they are
(`BookmarkingApart`, `DownloadingApart`, `EarlyInv`); closing has a lemma for each
step. Assumed are `NamesAssumption`, that what is saved is not saved over a file
of the program itself (the user chooses the directory, and the code does not
check), `PlansAssumption`, that plans are sequences of commands, and `IdsAssumption`,
that the id of a bookmark stands for the one time it was asked for: a page that is
added twice has two entries in the code too, and the ids tell them apart; and
`PiecesAssumption`, that pieces are counted and a header is not empty.

### What is only checked

* `EachDone` and `OutputsArrive` of `MainLoop`, which say what is done and not only
  what is never done again: they hold for the lines that are `Promised`, and need
  what each command was meant to do, for each kind of command.
* All of `TabNumbering`, `Commands` and `DrawnPage`. What their recursive definitions
  compute for every input (the searches of `TabNumbering`, the fitting of `TextBuf`,
  the walks of `Render` and `Tables`) is out of reach: a module that declares a
  recursive operator has no arithmetic in the provers. What was done for a page of
  bookmarks, a sequence, by writing its recursion as functions, would need here an
  induction over trees, of which only `TabNumbering` has small enough ones.
* Liveness (`CommandEnds`, `InterruptEndsLoop`): the provers have no fairness here.

## What is not modelled

* What a title, a message, a url or a page says beyond what a property tells apart.
* **JavaScript**, beyond what a script may do to the location of its document: the
  bindings have as many behaviours as scripts. `js-engine.c` is the longest file
  no module maps.
* **Strings, memory and errors** (`str.c`, `error.h`, `mem.*`), which are libraries
  of the program. `append` and `malloc` fail in `DocFetch` and `ScriptFetch`, where
  the error paths have something to undo, and not in `TabTree`, where the document
  is destroyed and the tree left.
* `readpass.c`; options of the command line; settings that are assignments; the
  commands that only print; saving and running scripts.
* Regular expressions: a pattern is one character, as the rest is the C library's.
* hotl, isocline, quickjs (submodules that are not in the repository), libcurl and
  lexbor: `ArlAppend`, `Perform`, `Poll`, `Written` and the operators marked external
  are what the code relies on.

## The plan

Done: **tabs**, **keys**, **documents**, **transfers** and **lines** with the theorems
above, **texts and commands**, **drawing**, **files**. Left:

1. Theorems: of `OutputsArrive` the half that holds for any line; `TabNumbering`, with
   its searches as functions.
2. The commands that save scripts and run them, and the queue of timers of
   `js-engine.c`, as a module below `DocFetch`.
3. Larger pages: a table within a table, and columns that are shrunk more than once.
