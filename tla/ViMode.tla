------------------------------- MODULE ViMode -------------------------------
(***************************************************************************)
(* The visual mode: keys that scroll the buffer or open a line, the line   *)
(* that is edited, and what is shown after it: errors and messages, page   *)
(* by page, then the lines of the buffer that fit in the window.  Which    *)
(* command the line was is not told: it leaves a message, a buffer, a      *)
(* current line, or the size of the window.                                *)
(***************************************************************************)
EXTENDS LineEditor, Pager

CONSTANTS
    Windows,    \* bound: rows that the window of the terminal may have
    Width,      \* the columns of a page
    MaxText,    \* bound: lines of a buffer
    Msgs        \* bound: messages of commands

ASSUME ViAssumption ==
    /\ Size \in Nat /\ Size > 1 /\ MaxText \in Nat \ {0}
    /\ Windows \subseteq 0..Size - 1
    /\ \E w \in Windows : \A v \in Windows : v <= w

VARIABLES
    setup,      \* bound: lines are edited, or lines of one key change the rest
    mode,       \* what is being read, or done
    window, nrows,
    count, line,        \* lines of the buffer, and the current one
    msg, ps, pagenum,   \* the message that is shown, and its pages
    scroll, shown       \* the last key that scrolled, and the lines shown

winVars  == <<window, nrows>>
textVars == <<count, line, scroll, shown>>
msgVars  == <<msg, ps, pagenum>>
viVars   == <<setup, mode, winVars, textVars, msgVars>>
vars     == <<edVars, viVars>>

NoMsg    == <<>>
NotShown == <<1, 0>>
EmptyBufferMsg == <<FALSE, TRUE>>

(* size_t has 64 bits: the rows and columns of a terminal have 16 each, and *)
(* what is in memory is so short that size_t counts it as many times as a  *)
(* terminal has columns, and once more.                                    *)
ASSUME PagesAssumption ==
    /\ Width \in Nat \ {0}
    /\ \A w \in Windows : w * Width < Size
    /\ \A m \in Msgs \cup {EmptyBufferMsg} : m \in Seq(BOOLEAN) /\ Len(m) * (Width + 1) <= Size

ViInit ==
    /\ Init
    /\ setup \in {"lines", "screens"} /\ mode = "show"
    /\ window = (CHOOSE w \in Windows : \A v \in Windows : v <= w) /\ nrows = window
    /\ count \in (IF setup = "screens" THEN 0..MaxText ELSE {0}) /\ line = 1
    /\ scroll = "none" /\ shown = NotShown
    /\ msg = NoMsg /\ ps = <<>> /\ pagenum = 0

Goto(m) == mode' = m
EditorIdle == ~open /\ UNCHANGED edVars

-----------------------------------------------------------------------------
(* Keys read when no line is edited.  What scrolling cannot do is ignored. *)

Scrolled(how, to) ==
    /\ mode = "keys" /\ EditorIdle
    /\ line' = (IF count = 0 THEN line ELSE to) /\ scroll' = how
    /\ Goto("show")
    /\ UNCHANGED <<setup, winVars, count, shown, msgVars>>

KeyCtrl_F == Scrolled("forward", keystroke_ctrl_f(nrows, count, line))
KeyCtrl_B == Scrolled("back", keystroke_ctrl_b(nrows, line))
KeyEnter  == Scrolled("none", line)

(* A line is edited until it is given up, and keys are read, or entered.   *)
EditLine ==
    /\ mode = "keys"
    /\ (\E c \in Char : Start(c)) \/ StartLast \/ Edit
    /\ setup = "screens" => len' = 1 /\ items'[0] \notin Blanks
    /\ UNCHANGED viVars

(* A line that cannot be edited further is an error, and is lost.          *)
LineFails ==
    /\ mode = "keys" /\ MoveRefused /\ Goto("error")
    /\ UNCHANGED <<setup, winVars, textVars, msgVars>>

EnterLine ==
    /\ mode = "keys" /\ Enter /\ Goto("run")
    /\ scroll' = "none" /\ shown' = NotShown
    /\ UNCHANGED <<setup, winVars, count, line, msgVars>>

Resize ==
    /\ setup = "screens" /\ mode \in {"keys", "error"} /\ EditorIdle
    /\ window' \in Windows \ {window}
    /\ UNCHANGED <<setup, mode, nrows, textVars, msgVars>>

-----------------------------------------------------------------------------
(* What a command may leave.                                               *)

RunLine ==
    /\ mode = "run" /\ EditorIdle /\ Goto("show")
    /\ UNCHANGED <<setup, window, scroll, shown, ps, pagenum>>
    /\ \/ UNCHANGED <<nrows, count, line, msg>>
       \/ setup = "screens" /\ nrows' = window /\ UNCHANGED <<count, line, msg>>
       \/ setup = "screens" /\ msg' \in Msgs /\ UNCHANGED <<nrows, count, line>>
       \/ setup = "screens" /\ count' \in 0..MaxText /\ line' = 1 /\ UNCHANGED <<nrows, msg>>
       \/ setup = "screens" /\ line' \in 1..count /\ UNCHANGED <<nrows, count, msg>>

-----------------------------------------------------------------------------
(* Showing.                                                                *)

PageRows == (nrows + Size - 1) % Size
LastPage == ps[Len(ps)]
Left     == Len(msg) + 1 - LastPage.next

OpenPager(m, how) ==
    /\ Goto(how) /\ msg' = m
    /\ ps' = <<get_next_page((nrows' + Size - 1) % Size, Width, m, 1)>>
    /\ pagenum' = 0

(* ui_vi_show_session: the size is stored before it is found too small.    *)
ui_vi_show_session ==
    /\ mode = "show"
    /\ nrows' = UpdatedRows(nrows, window)
    /\ IF window <= 3 THEN EditorIdle /\ Goto("error") /\ UNCHANGED msgVars
       ELSE /\ ClsScr
            /\ IF msg # NoMsg THEN OpenPager(msg, "msg") ELSE Goto("default") /\ UNCHANGED msgVars
    /\ UNCHANGED <<setup, window, textVars>>

ui_vi_show_session_default ==
    /\ mode = "default" /\ EditorIdle
    /\ UNCHANGED <<setup, winVars, count, scroll>>
    /\ LET range == show_range(nrows, count, line)
       IN  IF count = 0
           THEN OpenPager(EmptyBufferMsg, "notice") /\ UNCHANGED <<line, shown>>
           ELSE /\ shown' = <<range.beg, range.end>> /\ line' = range.line
                /\ Goto("keys") /\ UNCHANGED msgVars

(* wait_for_char: errors are left with 'q', and so is what was said; then  *)
(* the loop begins again.                                                  *)
ShowError ==
    /\ mode = "error" /\ ClsScr /\ Goto("show")
    /\ msg' = NoMsg /\ shown' = NotShown
    /\ UNCHANGED <<setup, winVars, count, line, scroll, ps, pagenum>>

Paging == /\ mode \in {"msg", "notice"} /\ EditorIdle
          /\ UNCHANGED <<setup, winVars, textVars>>

NextPage ==
    /\ Paging /\ UNCHANGED <<mode, msg>>
    /\ SpaceTurns(Len(ps), pagenum, Left)
    /\ pagenum' = pagenum + 1
    /\ Len(ps) < Size       \* bound: pages
    /\ ps' = IF Len(ps) = pagenum' THEN Append(ps, get_next_page(PageRows, Width, msg, LastPage.next)) ELSE ps

PrevPage ==
    /\ Paging /\ UNCHANGED <<mode, msg, ps>>
    /\ pagenum > 0 /\ pagenum' = pagenum - 1

QuitPager ==
    /\ Paging
    /\ Goto(IF mode = "msg" THEN "default" ELSE "keys")
    /\ msg' = NoMsg /\ ps' = <<>> /\ pagenum' = 0

Next ==
    \/ KeyCtrl_F \/ KeyCtrl_B \/ KeyEnter \/ EditLine \/ LineFails \/ EnterLine \/ Resize \/ RunLine
    \/ ui_vi_show_session \/ ui_vi_show_session_default \/ ShowError
    \/ NextPage \/ PrevPage \/ QuitPager

Spec == ViInit /\ [][Next]_vars

-----------------------------------------------------------------------------
(* Properties.                                                             *)

(* The line of the editor, its cursor, and the place in the history        *)
(* (RLBuf), with the sizes and places of what is shown.                    *)
TypeOK ==
    /\ EditOK
    /\ history \in Seq(Seq(Char))
    /\ window \in Windows /\ nrows \in 0..Size - 1
    /\ count \in 0..MaxText /\ line \in 1..MaxText
    /\ count > 0 => line <= count
    /\ mode \in {"msg", "notice"} => pagenum \in 0..Len(ps) - 1

Shows(page) == page.from..page.from + page.len - 1

(* A page fits above its last row.  It shows something, unless the session *)
(* has one row, and the pager none.  It says that it cannot be shown only  *)
(* where a line without newline at its end does not fit (_get_next_page_). *)
PagesFit ==
    mode \in {"msg", "notice"} =>
        \A k \in DOMAIN ps :
            LET from   == ps[k].from
                Begin(p) == Max({from} \cup {q \in from + 1..p : msg[q - 1]})
                starts == {p \in Shows(ps[k]) \cap DOMAIN msg :
                              p = Begin(p) \/ (~msg[p] /\ (p - Begin(p)) % Width = 0)}
            IN  /\ Cardinality(starts) <= PageRows
                /\ nrows # 1 => ps[k].len > 0 \/ ps[k].failed
                /\ ps[k].failed => ~msg[Len(msg)]

(* Pages follow one another: nothing is shown twice, and nothing is left   *)
(* out but one character where a line is split (strview_split_line leaves  *)
(* the view after the newline).                                            *)
PagesFollow ==
    mode \in {"msg", "notice"} =>
        \A k \in 1..Len(ps) - 1 :
            LET end == ps[k].from + ps[k].len
            IN  ps[k + 1].from = end \/ (ps[k].len > 0 /\ ps[k + 1].from = end + 1 /\ ~msg[end - 1])

(* The keys that the last row names are those that turn pages.             *)
HintsHold ==
    mode \in {"msg", "notice"} =>
        LET hint == Hint(Len(ps), pagenum, Left)
        IN  /\ "space" \in hint <=> SpaceTurns(Len(ps), pagenum, Left)
            /\ "backspace" \in hint <=> pagenum > 0

(* The three together: a message can be read page by page.                 *)
PagesGood == PagesFit /\ PagesFollow /\ HintsHold

(* Scrolling skips no line: the lines shown next reach those shown before, *)
(* as long as the window keeps its size (ctrl-f and ctrl-b go as far as    *)
(* the window shows, and a window near the end is moved back).             *)
ScrollReaches ==
    [][shown # NotShown /\ shown' # shown /\ scroll # "none" /\ nrows = shown[2] - shown[1] /\ shown'[2] - shown'[1] = nrows =>
        /\ scroll = "forward" => shown'[1] \in shown[1]..shown[2] + 1
        /\ scroll = "back" => shown'[2] \in shown[1] - 1..shown[2]]_shown
=============================================================================
