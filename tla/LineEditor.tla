----------------------------- MODULE LineEditor -----------------------------
(***************************************************************************)
(* The editor of a line in raw mode (reditline.c), key by key: the memory  *)
(* of the line, as RLBuf keeps it, the index in the history, and the row   *)
(* of the terminal, which is drawn with escape codes that are never read   *)
(* back, and that erase and move within one row: a line that reaches the   *)
(* last column is not followed from there on.  Memory that was not written *)
(* holds Junk.                                                             *)
(*                                                                         *)
(* What cannot fail short of memory and of the terminal does not fail.     *)
(***************************************************************************)
EXTENDS Naturals, Sequences

CONSTANTS
    Char,       \* the printable characters
    Blanks,     \* those of them that are spaces
    Nul,        \* '\0'
    Junk,       \* memory that was not written
    Grow,       \* RL_DEFAULT_LINE_CAPACITY
    Radix,      \* of the numbers in escape codes, of which two digits fit
    MaxMove,    \* the longest move that is not refused (rl_move_cursor)
    Cols,       \* the columns of the terminal that a line has
    MaxLine,    \* bound: characters of a line that is typed
    MaxEntry,   \* bound: characters of a line that is entered
    MaxHistory  \* bound: lines that are kept

ASSUME EditorAssumption ==
    /\ Blanks \subseteq Char /\ Nul \notin Char /\ Junk \notin Char \cup {Nul}
    /\ Grow \in Nat /\ Grow > 1 /\ Radix \in Nat /\ MaxMove \in Nat /\ Cols \in Nat
    /\ MaxLine \in Nat /\ MaxEntry \in Nat /\ MaxHistory \in Nat

VARIABLES
    open,       \* a line is being edited
    items, capacity, len, pos,
    history, history_ix,
    row,        \* what the terminal shows after the saved cursor
    col,        \* and where its cursor is
    lost        \* why row and col are not followed: "no", they are; "cut", a
                \* move was written with digits missing, until the line is
                \* drawn again; "wide", the line reached the last column and
                \* the next row, until the screen is cleared

lineVars == <<items, capacity, len, pos>>
rowVars  == <<row, col, lost>>
edVars   == <<open, lineVars, history, history_ix, rowVars>>

Larger(a, b) == IF a > b THEN a ELSE b

(* rlbuf_ensure_extra_capacity_: the capacity, and memory of a capacity.   *)
Ensured(used, size) ==
    IF capacity < used + size THEN capacity + Larger(size, Grow) ELSE capacity
Cell(i) == IF i < capacity THEN items[i] ELSE Junk

(* Bytes written to the terminal.                                          *)
Erased        == <<>>
Written(r, s) == r \o s
Line(mem, n)  == [i \in 1..n |-> mem[i - 1]]

(* rl_move_cursor: the columns of a move of n, two digits of which fit.    *)
Columns(n) == IF n < Radix * Radix THEN n ELSE n \div Radix
IsCut(n)   == n >= Radix * Radix
Backward(c, n) == IF n > c THEN 0 ELSE c - n

Shown(r, c, k) ==
    /\ lost' = IF lost = "wide" \/ len' >= Cols THEN "wide" ELSE IF k THEN "cut" ELSE "no"
    /\ row' = (IF lost' = "no" THEN r ELSE <<>>)
    /\ col' = (IF lost' = "no" THEN c ELSE 0)

(* putchar: what was under the cursor is replaced.                         *)
Put(c) == [i \in 1..Larger(Len(row), col + 1) |->
              IF i = col + 1 THEN c ELSE IF i <= Len(row) THEN row[i] ELSE Junk]

(* rl_redraw_line, of the line as the step leaves it.                      *)
Redraw ==
    LET back == len' - pos'
    IN  /\ back <= MaxMove
        /\ Shown(Written(Erased, Line(items', len')), Backward(len', Columns(back)), IsCut(back))

(* It is drawn, but the cursor stays at its end: the move is refused.      *)
RedrawUnmoved == len' - pos' > MaxMove /\ Shown(<<>>, 0, TRUE)

(* memmove(items + to, items + from, n), and the rest as it was.           *)
Moved(to, from, n) ==
    [i \in 0..capacity - 1 |-> IF i \in to..to + n - 1 THEN items[i - to + from] ELSE items[i]]

Init ==
    /\ open = FALSE /\ items = <<>> /\ capacity = 0 /\ len = 0 /\ pos = 0
    /\ history = <<>> /\ history_ix = 0
    /\ row = <<>> /\ col = 0 /\ lost = "no"

-----------------------------------------------------------------------------
(* Opening: the key is the first character of the line, or asks for the    *)
(* last line of the history.                                               *)

Start(c) ==
    /\ ~open /\ open' = TRUE
    /\ items' = [i \in 0..Grow - 1 |-> IF i = 0 THEN c ELSE Junk]
    /\ capacity' = Grow /\ len' = 1 /\ pos' = 1
    /\ history_ix' = 0 /\ UNCHANGED history
    /\ Shown(<<c>>, 1, FALSE)

(* A line of the history over the one that is edited.                      *)
Loaded(entry, room) ==
    /\ len' = Len(entry) /\ pos' = len'
    /\ capacity' = room
    /\ items' = [i \in 0..room - 1 |-> IF i < Len(entry) THEN entry[i + 1] ELSE Cell(i)]

StartLast ==
    /\ ~open /\ open' = TRUE /\ UNCHANGED history
    /\ IF history = <<>>
       THEN /\ history_ix' = 0 /\ capacity' = Grow /\ len' = 0 /\ pos' = 0
            /\ items' = [i \in 0..Grow - 1 |-> Junk]
       ELSE LET entry == history[Len(history)]
                room  == IF Len(entry) > Grow THEN Grow + Larger(Len(entry), Grow) ELSE Grow
            IN  /\ history_ix' = 1 /\ capacity' = room
                /\ len' = Len(entry) /\ pos' = len'
                /\ items' = [i \in 0..room - 1 |-> IF i < Len(entry) THEN entry[i + 1] ELSE Junk]
    /\ Redraw

-----------------------------------------------------------------------------
(* Keys.                                                                   *)

Editing == open /\ UNCHANGED <<open, history>>
Same    == UNCHANGED <<lineVars, history_ix, rowVars>>

rl_insert_char(c) ==
    LET room == Ensured(len, 2)
    IN  /\ Editing /\ UNCHANGED history_ix
        /\ len < MaxLine
        /\ capacity' = room
        /\ items' = [i \in 0..room - 1 |-> IF i = len + 1 THEN Nul
                                           ELSE IF i = pos THEN c
                                           ELSE IF i \in pos + 1..len THEN items[i - 1]
                                           ELSE Cell(i)]
        /\ len' = len + 1 /\ pos' = pos + 1
        /\ IF pos < len THEN Redraw
           ELSE Shown(Put(c), col + 1, lost # "no")

(* The entry is counted from the end, and the index is changed first.      *)
rl_buf_from_history(ix) ==
    LET entry == history[Len(history) - ix + 1]
    IN  history_ix' = ix /\ Loaded(entry, Ensured(0, Len(entry)))

rl_history_prev ==
    /\ Editing
    /\ IF Len(history) > history_ix THEN rl_buf_from_history(history_ix + 1)
       ELSE UNCHANGED <<lineVars, history_ix>>
    /\ Redraw

rl_history_next ==
    /\ Editing
    /\ IF history_ix > 1 THEN rl_buf_from_history(history_ix - 1)
       ELSE UNCHANGED <<lineVars, history_ix>>
    /\ Redraw

(* Mutant: the first character may go.                                     *)
rl_delete_char_back_first ==
    /\ Editing /\ len > 1
    /\ IF pos = 0 THEN Same
       ELSE /\ pos' = pos - 1 /\ len' = len - 1
            /\ items' = IF pos' < len' THEN Moved(pos', pos, len - pos) ELSE items
            /\ UNCHANGED <<capacity, history_ix>>
            /\ Redraw

(* Backspace gives a line of one character up.                             *)
rl_delete_char_back ==
    /\ Editing /\ len > 1
    /\ IF pos <= 1 THEN Same
       ELSE /\ pos' = pos - 1 /\ len' = len - 1
            /\ items' = IF pos' < len' THEN Moved(pos', pos, len - pos) ELSE items
            /\ UNCHANGED <<capacity, history_ix>>
            /\ Redraw

(* Mutant: one character less is moved.                                    *)
rl_delete_char_forward_short ==
    /\ Editing
    /\ IF len = pos THEN Same
       ELSE /\ len' = len - 1
            /\ items' = IF len' = pos THEN items ELSE Moved(pos, pos + 1, len' - pos - 1)
            /\ UNCHANGED <<pos, capacity, history_ix>>
            /\ Redraw

rl_delete_char_forward ==
    /\ Editing
    /\ IF len = pos THEN Same
       ELSE /\ len' = len - 1
            /\ items' = Moved(pos, pos + 1, len' - pos)
            /\ UNCHANGED <<pos, capacity, history_ix>>
            /\ Redraw

(* A loop that goes back from p over the characters of S stops at q.       *)
StopsAt(q, p, S) ==
    /\ q > 1 => items[q - 1] \notin S
    /\ \A i \in q..p - 1 : items[i] \in S

(* Whether the line was drawn is not looked at.                            *)
rl_delete_word_back ==
    /\ Editing
    /\ IF pos <= 1 THEN Same
       ELSE \E m \in 1..pos : \E n \in 1..m :
            /\ StopsAt(m, pos, Blanks) /\ StopsAt(n, m, Char \ Blanks)
            /\ pos' = n /\ len' = len - (pos - n)
            /\ items' = IF pos' < len' THEN Moved(n, pos, len - pos) ELSE items
            /\ UNCHANGED <<capacity, history_ix>>
            /\ IF pos > n THEN Redraw \/ RedrawUnmoved ELSE UNCHANGED rowVars

MoveTo(p, c, n) ==
    /\ n <= MaxMove
    /\ pos' = p
    /\ UNCHANGED <<items, capacity, len, history_ix>>
    /\ Shown(row, c, lost # "no" \/ IsCut(n))

(* Mutant: the cursor of the terminal stays one column short.              *)
rl_move_end_short == Editing /\ IF pos < len THEN MoveTo(len, col + Columns(len - pos) - 1, len - pos) ELSE Same

rl_move_right1 == Editing /\ IF pos < len THEN MoveTo(pos + 1, col + 1, 1) ELSE Same
rl_move_left1  == Editing /\ IF pos > 1 THEN MoveTo(pos - 1, Backward(col, 1), 0) ELSE Same
rl_move_beg    == Editing /\ IF pos > 1 THEN MoveTo(1, Backward(col, Columns(pos - 1)), pos - 1) ELSE Same
rl_move_end    == Editing /\ IF pos < len THEN MoveTo(len, col + Columns(len - pos), len - pos) ELSE Same

-----------------------------------------------------------------------------
(* Ends.  The memory is freed, or given to the one who asked for the line, *)
(* who adds it to the history, up to its first '\0'.                       *)

Closed ==
    /\ open /\ open' = FALSE
    /\ items' = <<>> /\ capacity' = 0 /\ len' = 0 /\ pos' = 0 /\ history_ix' = 0
    /\ row' = <<>> /\ col' = 0 /\ lost' = IF lost = "wide" THEN "wide" ELSE "no"

GiveUp == Closed /\ UNCHANGED history

(* Ctrl-C and the end of the input, at any time, and backspace at the end. *)
rl_erase_and_cleanup == GiveUp

(* A move that has to go too far, of a key that moves or of one that draws *)
(* a line again, is an error, for which the line is given up (reditline).  *)
MoveRefused == (pos > MaxMove + 1 \/ len > pos + MaxMove) /\ GiveUp

CString(mem, size) ==
    LET end == CHOOSE n \in 0..size - 1 : mem[n] = Nul /\ \A i \in 0..n - 1 : mem[i] # Nul
    IN  Line(mem, end)

Entered ==
    LET room == Ensured(len, 1)
        mem  == [i \in 0..room - 1 |-> IF i = len THEN Nul ELSE Cell(i)]
    IN  CString(mem, room)

Enter ==
    /\ Closed
    /\ Len(history) < MaxHistory /\ len <= MaxEntry
    /\ history' = Append(history, Entered)

Edit ==
    \/ \E c \in Char : rl_insert_char(c)
    \/ rl_history_prev \/ rl_history_next
    \/ rl_delete_char_back \/ rl_delete_char_forward \/ rl_delete_word_back
    \/ rl_move_right1 \/ rl_move_left1 \/ rl_move_beg \/ rl_move_end
    \/ rl_erase_and_cleanup

(* The screen is cleared, and lines are on one row again.                  *)
ClsScr ==
    /\ ~open /\ lost' = "no"
    /\ UNCHANGED <<open, lineVars, history, history_ix, row, col>>

EdNext == (\E c \in Char : Start(c)) \/ StartLast \/ Edit \/ MoveRefused \/ Enter \/ ClsScr

EdSpec == Init /\ [][EdNext]_edVars

-----------------------------------------------------------------------------
(* Types, and the cursor: it is in the line, and before its first          *)
(* character only when the line has none.                                  *)
EditOK ==
    /\ open \in BOOLEAN /\ capacity \in Nat /\ len \in 0..capacity /\ pos \in 0..len
    /\ items \in [0..capacity - 1 -> Char \cup {Nul, Junk}]
    /\ \A i \in 0..len - 1 : items[i] \in Char
    /\ pos = 0 <=> len = 0
    /\ history_ix \in 0..Len(history)
    /\ ~open => capacity = 0 /\ history_ix = 0

(* The terminal shows the line, and its cursor is where the next character *)
(* goes, with two exceptions.  A move of more than two digits is written   *)
(* short (rl_move_cursor): the cursor is right again when the line is      *)
(* redrawn.  And the codes erase one row and move within one row           *)
(* (rl_redraw_line, escape-codes.h:27-30): once a line was as wide as the  *)
(* terminal, nothing is said of what is shown until the screen is cleared. *)
RowShowsLine == open /\ lost = "no" => row = Line(items, len) /\ col = pos

(* The memory of the line, moved about by memmove, is the line of an       *)
(* editor that knows only what is before its cursor and what is after it.  *)
Promise == INSTANCE Zipper WITH
    before <- [i \in 1..pos |-> items[i - 1]],
    after  <- [i \in 1..len - pos |-> items[pos + i - 1]],
    lines  <- history, back <- history_ix
ActsAsZipper == Promise!Spec
=============================================================================
