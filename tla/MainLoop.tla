------------------------------ MODULE MainLoop ------------------------------
(***************************************************************************)
(* The loop of ahre.c: show what commands wrote, read a line unless one is *)
(* left, run its next command (process_line), and on an error drop the     *)
(* line and the output.                                                    *)
(*                                                                         *)
(* What the user means is a script: commands with their redirections.      *)
(* Lines are scripts written down, and the properties relate what the loop *)
(* did to the script.  Commands come in kinds, by what their function does *)
(* with the line; what else they do is writing to both outputs.            *)
(***************************************************************************)
EXTENDS UserLine, SequencesExt

CONSTANTS
    Scripts,   \* the scripts that are typed
    MaxLines,  \* bound: lines that are typed
    Nodes      \* elements in the range of a command that takes one

(* cut:    cut_cmd first (print, info, tabs...)                            *)
(* bare:   the line is left where it is (draw, js, curl version, [...)     *)
(* save:   a path, pop_last_nonspace                                       *)
(* get:    as save, and chop_and_skip_space (request_from_userln)          *)
(* rest:   pop_rest (echo)                                                 *)
(* all:    the rest of the line, separators included (.console)            *)
(* submit: for each element, cut_cmd (cmd_input_default_node)              *)
(* toggle: for each element, cut_cmd, and again (cmd_toggle_checkbox)      *)
(* input:  as save, with a name, and another mode (cmd_set_session_input)  *)
(* unknown: no such command                                                *)
Kind == {"cut", "bare", "save", "get", "rest", "all", "submit", "toggle", "input", "quit", "unknown"}
Mode == {"line", "vi"}
To   == (Sink \cup {"none"}) \X {"both", "std", "msg"}
Seg  == [kind : Kind, to : To, sep : {"spaced", "before", "glued"}]

ASSUME MainLoopAssumption ==
    /\ Scripts \subseteq Seq(Seg) \ {<<>>}
    /\ MaxLines \in Nat \ {0}
    /\ Nodes \in Nat \ {0}

VARIABLES
    pc,       \* the next step of the loop
    line,     \* the UserLine, with the number of its memory, 0 for none
    memory,   \* the state of the memory of each line that was read
    cout,     \* CmdOut: its two buffers and their sinks
    fetched,  \* entries in the fetch history
    logged,   \* logged_fetch_history, how many of them were shown
    quit,     \* session_quit
    node,     \* the element the running command is at, 0 if it takes no range
    script,   \* ghost: what was typed
    ran,      \* ghost: the commands of it that were started
    done,     \* ghost: the commands of it that did what they are for
    unlucky,  \* ghost: something failed that is not the reading of the line
    failed,   \* ghost: the command that ended the line with an error, 0 if none
    shown,    \* ghost: what commands got out since the line was read, and where
    file,     \* the file commands write to
    screen,   \* what is on the screen, in vi mode
    told,     \* whether the user was told that there is no page to show
    mode      \* the interface: "line" (fgets, isocline) or "vi"

vars == <<pc, line, memory, cout, fetched, logged, quit, node, script, ran, done, unlucky, failed, shown, file, screen, told, mode>>

NoLine  == [text |-> <<>>, ix |-> 1, id |-> 0]
Clean   == [std |-> <<>>, msg |-> <<>>, to |-> Default]
Start   == <<"start">>
Page    == <<"page">>
Log(n)  == <<"log", n>>
Out(i, src) == <<"out", line.id, i, src>>
NodeOut(i)  == <<"out", line.id, i, "msg", node>>
NodeErr(i)  == <<"err", line.id, i, "msg", node>>

-----------------------------------------------------------------------------
(* A script written down.                                                  *)

Word1(to) == CHOOSE w \in DOMAIN SinkOf : SinkOf[w] = to[1]

Redirection(to) ==
    IF to[1] = "none" THEN <<>>
    ELSE <<Space, Gt, Space, Word(Word1(to))>>
      \o (IF to[1] \in {"file", "shell"} THEN <<Space, Word("x")>> ELSE <<>>)
      \o (IF to[2] = "both" THEN <<>> ELSE <<Space, Lt, Space, Word(to[2])>>)

Separator(sep) == CASE sep = "spaced" -> <<Space, Semi, Space>>
                    [] sep = "before" -> <<Space, Semi>>
                    [] sep = "glued"  -> <<Semi>>

SegText(scr, i) ==
      <<Cmd(scr[i].kind, i)>>
   \o (IF scr[i].kind \in {"save", "get", "rest", "all", "input"} THEN <<Space, Word("x")>> ELSE <<>>)
   \o Redirection(scr[i].to)
   \o (IF i = Len(scr) THEN <<>> ELSE Separator(scr[i].sep))

(* The key that opens the line in vi mode is in it.                        *)
Key == IF mode = "vi" /\ pc = "read" THEN <<Bar>> ELSE <<>>

Text(scr) == IF scr = <<>> THEN <<>> ELSE Key \o FlattenSeq([i \in DOMAIN scr |-> SegText(scr, i)])

(* Where a command is asked to write.                                      *)
Asked(seg) == [src \in Source |->
    IF seg.to[1] = "none" \/ seg.to[2] \notin {"both", src} THEN Default[src] ELSE seg.to[1]]

-----------------------------------------------------------------------------

Init ==
    /\ pc = "startup" /\ line = NoLine /\ memory = <<>>
    /\ cout = Clean /\ fetched = 0 /\ logged = 0 /\ quit = FALSE /\ node = 0
    /\ script = <<>> /\ ran = <<>> /\ done = {} /\ unlucky = FALSE /\ failed = 0
    /\ shown = <<>> /\ file = <<>> /\ screen = <<>> /\ told = FALSE /\ mode \in Mode

(* user_line_init_take_ownership and user_line_cleanup.                    *)
TakeOwnership(scr) ==
    /\ memory' = Append(memory, IF scr = <<>> THEN "empty" ELSE "held")
    /\ line' = [text |-> Text(scr), ix |-> 1, id |-> Len(memory) + 1]
    /\ script' = scr /\ ran' = <<>> /\ done' = {} /\ unlucky' = FALSE
    /\ failed' = 0 /\ shown' = <<>>

Freed(mem, id) ==
    [i \in DOMAIN mem |-> IF i # id THEN mem[i]
                          ELSE IF mem[i] = "freed" THEN "twice" ELSE "freed"]

(* session_consume_line, after process_line left the line as ul: it is     *)
(* freed when nothing is left of it.                                       *)
Consume(ul) ==
    LET l == [line EXCEPT !.text = ul.text, !.ix = ul.ix]
    IN  IF Exhausted(l) THEN line' = NoLine /\ memory' = Freed(memory, line.id)
        ELSE line' = l /\ UNCHANGED memory

(* fetch_params: the urls of the command line.                             *)
FetchParams ==
    /\ pc = "startup"
    /\ \E n \in {0, 1}, ok \in BOOLEAN :
         /\ n = 0 => ok
         /\ cout' = IF n = 1 THEN [cout EXCEPT !.msg = <<Start>>] ELSE cout
         /\ fetched' = fetched + n
         /\ pc' = IF ok THEN "option" ELSE "exit"
    /\ UNCHANGED <<line, memory, logged, quit, node, script, ran, done, unlucky, failed, shown, file, screen, told, mode>>

(* The line of the option -c, if there is one.                             *)
Option ==
    /\ pc = "option"
    /\ \/ pc' = "show" /\ UNCHANGED <<line, memory, script, ran, done, unlucky, failed, shown>>
       \/ \E scr \in Scripts : TakeOwnership(scr) /\ pc' = "consume first"
    /\ UNCHANGED <<cout, fetched, logged, quit, node, file, screen, told, mode>>

(* session_read_user_input: the user types a line, or none.                *)
Read ==
    /\ pc = "read" /\ Exhausted(line) /\ Len(memory) < MaxLines
    /\ \E scr \in Scripts \cup {<<>>} :
         /\ TakeOwnership(scr)
         /\ pc' = IF scr = <<>> THEN "show" ELSE "consume"
    /\ UNCHANGED <<cout, fetched, logged, quit, node, file, screen, told, mode>>

ReadNothing ==
    /\ pc = "read" /\ ~Exhausted(line)
    /\ pc' = "consume"
    /\ UNCHANGED <<line, memory, cout, fetched, logged, quit, node, script, ran, done, unlucky, failed, shown, file, screen, told, mode>>

ReadFails ==
    /\ pc = "read" /\ Exhausted(line)
    /\ Len(memory) < MaxLines
    /\ pc' = "error"
    /\ UNCHANGED <<line, memory, cout, fetched, logged, quit, node, script, ran, done, unlucky, failed, shown, file, screen, told, mode>>

-----------------------------------------------------------------------------
(* process_line: the commands.                                             *)

Consuming == pc \in {"consume", "consume first"} /\ node = 0

(* Where process_line looks for the end of a command, and for its name.    *)
Begin == LET s == skip_space(line) IN IF check_char(s, Bar) THEN Skip(s, 1) ELSE s
Name  == skip_space(Begin)

Named(kind) == Consuming /\ ~cmd_end(Begin) /\ ~Exhausted(Name) /\ At(Name)[1] = "command" /\ At(Name)[2] = kind
Index       == At(Name)[3]
Params      == Skip(Name, 1)

(* process_line_line_mode logs what was fetched since the last time.       *)
Logs == IF mode = "line" THEN [n \in 1..(fetched' - logged) |-> Log(logged + n)] ELSE <<>>

(* Mutant: an entry is counted as logged for each command.                 *)
Succeed_counting(ul, std, msg, sinks) ==
    /\ Consume(ul)
    /\ cout' = [std |-> cout.std \o std \o Logs, msg |-> cout.msg \o msg, to |-> sinks]
    /\ logged' = IF mode = "line" THEN logged + 1 ELSE logged
    /\ pc' = IF quit' THEN "exit" ELSE "show"
    /\ node' = 0

(* The end of a command that returns Ok, and of one that does not.         *)
Succeed(ul, std, msg, sinks) ==
    /\ Consume(ul)
    /\ cout' = [std |-> cout.std \o std \o Logs, msg |-> cout.msg \o msg, to |-> sinks]
    /\ logged' = IF mode = "line" THEN fetched' ELSE logged
    /\ pc' = IF quit' THEN "exit" ELSE "show"
    /\ node' = 0

Fail(ul, sinks) ==
    /\ Consume(ul)
    /\ cout' = [cout EXCEPT !.to = sinks]
    /\ failed' = IF ran' = <<>> THEN 0 ELSE Last(ran')
    /\ pc' = IF pc = "consume first" THEN "exit" ELSE "error"
    /\ node' = 0
    /\ UNCHANGED logged

(* A ';' that was left, an empty command.                                  *)
Nothing ==
    /\ Consuming /\ cmd_end(Begin)
    /\ UNCHANGED <<fetched, quit>>
    /\ Succeed(Skip(Begin, 1), <<>>, <<>>, cout.to)
    /\ UNCHANGED <<script, ran, done, unlucky, failed, shown, file, screen, told, mode>>

(* A command that takes the line apart, as cut says, and then works.       *)
Run(kind, cut) ==
    /\ Named(kind)
    /\ ran' = Append(ran, Index)
    /\ fetched' \in IF kind \in {"get", "bare"} THEN {fetched, fetched + 1} ELSE {fetched}
    /\ UNCHANGED <<quit, script, shown, file, screen, told>>
    /\ \/ /\ cut.err = "ok"
          /\ Succeed(cut.ul, <<Out(Index, "std")>>, <<Out(Index, "msg")>>, cut.sinks)
          /\ done' = done \cup {Index}
          /\ mode' \in IF kind = "input" THEN Mode ELSE {mode}
          /\ UNCHANGED <<unlucky, failed>>
       \/ /\ cut.err = "ok"
          /\ Fail(cut.ul, cut.sinks)
          /\ unlucky' = TRUE
          /\ UNCHANGED <<done, mode>>
       \/ /\ cut.err # "ok" /\ fetched' = fetched
          /\ Fail(cut.ul, cut.sinks)
          /\ UNCHANGED <<done, unlucky, mode>>

(* A space, or the end of the line, has to follow.                         *)
then_space(cut) ==
    LET next == chop_and_skip_space(cut.ul)
    IN  IF cut.err # "ok" THEN cut
        ELSE Cut(IF next.ok THEN "ok" ELSE "expecting space", next.ul, cut.sinks)

request_from_userln(ul, sinks) == then_space(pop_last_nonspace(skip_space(ul), sinks))

cmd_echo(ul, sinks) == LET rest == pop_rest(ul) IN Cut(IF rest.ok THEN "ok" ELSE "no_parse", rest.ul, sinks)

cmd_save(ul, sinks)    == pop_last_nonspace(skip_space(ul), sinks)
cmd_set_session_input(ul, sinks) == pop_last_alpha(skip_space(ul), sinks)
cmd_draw(ul, sinks)    == Cut("ok", ul, sinks)
cmd_console(ul, sinks) == Cut("ok", SkipAll(ul), sinks)

RunCut  == Run("cut", cut_cmd(Params, cout.to))
RunBare == Run("bare", cmd_draw(Params, cout.to))
RunSave == Run("save", cmd_save(Params, cout.to))
RunInput == Run("input", cmd_set_session_input(Params, cout.to))
RunGet  == Run("get", request_from_userln(Params, cout.to))
RunEcho == Run("rest", cmd_echo(Params, cout.to))
RunAll  == Run("all", cmd_console(Params, cout.to))

RunQuit ==
    /\ Named("quit")
    /\ ran' = Append(ran, Index) /\ done' = done \cup {Index}
    /\ quit' = TRUE
    /\ UNCHANGED fetched
    /\ Succeed(skip_space(Params), <<>>, <<>>, cout.to)
    /\ UNCHANGED <<script, unlucky, failed, shown, file, screen, told, mode>>

(* run_cmd__, when no name matches.                                        *)
RunUnknown ==
    /\ Consuming /\ ~cmd_end(Begin)
    /\ Exhausted(Name) \/ At(Name)[1] # "command" \/ At(Name)[2] = "unknown"
    /\ ran' = IF Exhausted(Name) \/ At(Name)[1] # "command" THEN ran ELSE Append(ran, Index)
    /\ Fail(SkipAll(Name), cout.to)
    /\ UNCHANGED <<fetched, quit, script, done, unlucky, shown, file, screen, told, mode>>

(* A command on a range: the callback runs for each element, and its       *)
(* errors are messages (run_cmd_for_dom_node_range).                       *)
RunRange ==
    /\ Named("submit") \/ Named("toggle")
    /\ ran' = Append(ran, Index) /\ done' = done \cup {Index}
    /\ line' = skip_space(Params)
    /\ node' = 1
    /\ UNCHANGED <<pc, memory, cout, fetched, logged, quit, script, unlucky, failed, shown, file, screen, told, mode>>

(* What a callback cuts off; that of a checkbox cuts once more.            *)
cut_again(cut) == IF cut.err = "ok" THEN cut_cmd(cut.ul, cut.sinks) ELSE cut

cmd_input_default_node(kind, ul, sinks) ==
    IF kind = "toggle" THEN cut_again(cut_cmd(ul, sinks)) ELSE cut_cmd(ul, sinks)

(* What the callback leaves: the next element, or the end of the command.  *)
Element(cut, msg) ==
    IF node < Nodes
    THEN /\ line' = [line EXCEPT !.text = cut.ul.text, !.ix = cut.ul.ix]
         /\ cout' = [cout EXCEPT !.msg = @ \o msg, !.to = cut.sinks]
         /\ node' = node + 1
         /\ UNCHANGED <<pc, memory, logged>>
    ELSE Succeed(cut.ul, <<>>, msg, cut.sinks)

(* The callback for an element of the i-th command.                        *)
Callback(i, cut) ==
    /\ UNCHANGED <<ran, quit, script, shown, file, screen, told, mode>>
    /\ \/ /\ cut.err = "ok"
          /\ fetched' = fetched + (IF script[i].kind = "submit" THEN 1 ELSE 0)
          /\ Element(cut, <<NodeOut(i)>>)
          /\ UNCHANGED <<done, unlucky, failed>>
       \/ /\ cut.err = "ok"  \* the submit fails
          /\ UNCHANGED <<fetched, failed>>
          /\ Element(cut, <<NodeErr(i)>>)
          /\ unlucky' = TRUE /\ done' = done \ {i}
       \/ /\ cut.err # "ok"
          /\ UNCHANGED <<fetched, failed, unlucky>>
          /\ Element(cut, <<NodeErr(i)>>)
          /\ done' = done \ {i}
       \/ /\ node > 1       \* the document changed, invalid id
          /\ UNCHANGED fetched
          /\ Fail(line, cout.to)
          /\ unlucky' = TRUE /\ done' = done \ {i}

RunNode ==
    /\ node > 0
    /\ Callback(Last(ran), cmd_input_default_node(script[Last(ran)].kind, line, cout.to))

-----------------------------------------------------------------------------
(* The output.                                                             *)

Now == [cout |-> cout, shown |-> shown, file |-> file, screen |-> screen]

Placed(place, items) == [j \in DOMAIN items |-> <<place, items[j]>>]

(* Mutant: the sink stays for the next command.                           *)
Flush_sink_kept(o, src) ==
    LET buf == o.cout[src]
        to  == o.cout.to[src]
    IN  [cout   |-> [o.cout EXCEPT ![src] = <<>>],
         shown  |-> o.shown \o Placed(to, buf),
         file   |-> IF to = "file" THEN buf ELSE o.file,
         screen |-> o.screen]

(* One buffer to its sink.  Nothing is written to a shell yet, and the     *)
(* buffer stays.  A file is opened with "w".  In vi mode a warning waits   *)
(* for a key and then the screen is cleared.                               *)
Flush(o, src) ==
    LET buf == o.cout[src]
        to  == o.cout.to[src]
        vi  == mode = "vi" /\ buf # <<>>
    IN  [cout   |-> [o.cout EXCEPT ![src] = IF to = "shell" THEN @ ELSE <<>>, !.to[src] = Default[src]],
         shown  |-> IF to = "shell" THEN o.shown ELSE o.shown \o Placed(to, buf),
         file   |-> IF to = "file" /\ buf # <<>> THEN buf ELSE o.file,
         screen |-> IF vi /\ to = "screen" THEN o.screen \o buf
                    ELSE IF vi /\ to \in {"warn", "shell"} THEN <<>> ELSE o.screen]

FlushBoth(o) == Flush(Flush(o, "msg"), "std")

(* Both buffers to one file, only in vi mode.                              *)
SameFile(o) ==
    /\ o.cout.to = [src \in Source |-> "file"]
    /\ o.cout.std # <<>> \/ o.cout.msg # <<>>

FlushSameFile(o) ==
    [o EXCEPT !.cout  = Clean,
              !.shown = @ \o Placed("file", o.cout.msg \o o.cout.std),
              !.file  = o.cout.msg \o o.cout.std]

WillTouchScreen(o) == \E src \in Source : o.cout.to[src] = "screen" /\ o.cout[src] # <<>>

(* The page of the current document is shown when nothing else is: it is   *)
(* the last of the output when both buffers are flushed again.  A document *)
(* with no text has a message instead ("Buffer is empty", "content was not *)
(* parsed"), which waits for a key and clears the screen like any other.   *)
ui_vi_show_session(o, empty) ==
    LET cls  == [o EXCEPT !.screen = <<>>]
        out  == IF SameFile(o) THEN FlushSameFile(cls) ELSE FlushBoth(cls)
        note == Flush([Flush(out, "msg") EXCEPT !.screen = <<>>], "std")
    IN  IF WillTouchScreen(o) THEN out
        ELSE IF empty THEN note
        ELSE [FlushBoth(out) EXCEPT !.screen = Append(@, Page)]

Showing(out) == cout' = out.cout /\ shown' = out.shown /\ file' = out.file /\ screen' = out.screen

Show ==
    /\ pc = "show"
    /\ \E empty \in BOOLEAN :
          /\ empty => mode = "vi" /\ fetched > 0
          /\ Showing(IF mode = "vi" THEN ui_vi_show_session(Now, empty) ELSE FlushBoth(Now))
          /\ told' = (empty /\ ~WillTouchScreen(Now))
    /\ pc' = "read"
    /\ UNCHANGED <<line, memory, fetched, logged, quit, node, script, ran, done, unlucky, failed, mode>>

(* A file or the terminal fails, before the messages are out or after.     *)
ShowFails ==
    /\ pc = "show"
    /\ \E out \in {Now, Flush(Now, "msg")} : Showing(out)
    /\ unlucky' = TRUE
    /\ pc' = "error"
    /\ UNCHANGED <<line, memory, fetched, logged, quit, node, script, ran, done, failed, told, mode>>

Error_going_on ==
    /\ pc = "error"
    /\ pc' = "show"
    /\ cout' = Clean
    /\ UNCHANGED <<line, memory, fetched, logged, quit, node, script, ran, done, unlucky, failed, shown, file, screen, told, mode>>

(* user_line_cleanup and cmd_out_clean: nothing of the line is left.       *)
user_line_cleanup ==
    /\ line' = NoLine
    /\ memory' = Freed(memory, line.id)

Error ==
    /\ pc = "error"
    /\ pc' = "show"
    /\ user_line_cleanup
    /\ cout' = Clean
    /\ UNCHANGED <<fetched, logged, quit, node, script, ran, done, unlucky, failed, shown, file, screen, told, mode>>

ErrorNotShown ==
    /\ pc = "error"
    /\ pc' = "exit"
    /\ UNCHANGED <<line, memory, cout, fetched, logged, quit, node, script, ran, done, unlucky, failed, shown, file, screen, told, mode>>

(* The end of main_ahre: messages that are left go to stderr.              *)
Exit ==
    /\ pc = "exit"
    /\ pc' = "done"
    /\ user_line_cleanup
    /\ shown' = shown \o Placed("stderr", cout.msg)
    /\ cout' = Clean
    /\ UNCHANGED <<fetched, logged, quit, node, script, ran, done, unlucky, failed, file, screen, told, mode>>

Step ==
    \/ FetchParams \/ Option \/ ReadNothing
    \/ Nothing \/ RunCut \/ RunBare \/ RunSave \/ RunInput \/ RunGet \/ RunEcho \/ RunAll
    \/ RunQuit \/ RunUnknown \/ RunRange \/ RunNode
    \/ Show \/ ShowFails \/ Error \/ ErrorNotShown \/ Exit

Next == Step \/ Read \/ ReadFails

Spec == Init /\ [][Next]_vars

-----------------------------------------------------------------------------
(* Properties.                                                             *)

TypeOK ==
    /\ pc \in {"startup", "option", "show", "read", "consume", "consume first", "error", "exit", "done"}
    /\ line.id \in 0..Len(memory) /\ line.ix \in 1..(Len(line.text) + 1)
    /\ memory \in Seq({"held", "empty", "freed"})
    /\ cout.to \in [Source -> Sink]
    /\ logged \in 0..fetched
    /\ node \in 0..Nodes /\ (node > 0 => pc \in {"consume", "consume first"})
    /\ script \in Scripts \cup {<<>>}
    /\ done \subseteq DOMAIN script
    /\ mode \in Mode /\ quit \in BOOLEAN /\ unlucky \in BOOLEAN

(* The commands of a line start in order, none of them twice, and none     *)
(* after one that failed: process_line writes back how far it got, and the *)
(* loop drops the line on an error.                                        *)
InOrder ==
    /\ \A a, b \in DOMAIN ran : a < b => ran[a] < ran[b]
    /\ failed # 0 => Last(ran) = failed

(* When a line was read to its end and nothing else failed, all its        *)
(* commands, if they exist, did what they are for: cutting one command     *)
(* never damages the next.                                                 *)
EachDone ==
    /\ pc = "read" /\ Exhausted(line) /\ ~unlucky
    /\ \A i \in DOMAIN script : script[i].kind # "unknown"
    => done = DOMAIN script

(* What a command that cuts the line wrote goes where its redirection      *)
(* says, whatever those before it asked for, or to stderr if the program   *)
(* ends.  A shell is not implemented.                                      *)
OwnSink ==
    \A e \in DOMAIN shown :
        LET place == shown[e][1]
            item  == shown[e][2]
        IN  item[1] = "out" /\ item[2] = Len(memory) /\ script[item[3]].kind \in {"cut", "save", "get", "input"} =>
                \/ place \in {Asked(script[item[3]])[item[4]], "stderr"}
                \/ Asked(script[item[3]])[item[4]] = "shell"

(* Nothing is shown twice: a buffer that was shown is emptied, and an      *)
(* entry of the fetch history is logged once.                              *)
ShownOnce ==
    LET all == [e \in DOMAIN shown |-> shown[e][2]] \o cout.std \o cout.msg
    IN  \A a, b \in DOMAIN all : all[a] = all[b] => a = b

(* The memory of a line is freed once, by whoever uses up the line, and    *)
(* not while it is still read; an empty line need not be freed.            *)
LinesFreed ==
    \A i \in DOMAIN memory :
        /\ memory[i] # "twice"
        /\ memory[i] = "held" => i = line.id
        /\ i = line.id => memory[i] # "freed"

(* Nothing is run, shown or freed twice, whatever failed in between.       *)
NothingTwice == InOrder /\ ShownOnce /\ LinesFreed

(* In vi mode a command that redirects both outputs to a file has both in  *)
(* it.                                                                     *)
FileHasBoth ==
    mode = "vi" /\ pc = "read" /\ ~unlucky /\ ran # <<>> =>
        LET i == Last(ran)
        IN  i \in done /\ script[i].kind \in {"cut", "save"} /\ Asked(script[i]) = [src \in Source |-> "file"] =>
                \A src \in Source : <<"out", Len(memory), i, src>> \in ToSet(file)

(* In vi mode the screen is left blank in one case only: what commands     *)
(* wrote to it, or else the page, is there after the messages were read,   *)
(* unless the last of them said that the document has no text              *)
(* (user-out.c:198-201): the screen is cleared after it, and nothing is    *)
(* drawn (user-out.c:309-311).                                             *)
ScreenNotBlank == mode = "vi" /\ pc = "read" /\ ~told => screen # <<>>

(* What a command wrote is where it was sent, and is still there when the  *)
(* next line is read.                                                      *)
OutputsArrive == OwnSink /\ FileHasBoth /\ ScreenNotBlank

=============================================================================
