------------------------------- MODULE Pager -------------------------------
(***************************************************************************)
(* Messages longer than the screen, page by page (user-input.c), and the   *)
(* lines of a buffer that a window shows (user-out.c).                     *)
(*                                                                         *)
(* A message is a sequence of booleans: whether a character is a newline.  *)
(* The view that pages are cut from is the position it begins at: it ends  *)
(* where the message does.                                                 *)
(***************************************************************************)
EXTENDS Naturals, Sequences, FiniteSets, FiniteSetsExt

CONSTANT Size     \* size_t counts modulo this number

LineEnd(msg, at)    == Min({i \in at..Len(msg) : msg[i]} \cup {Len(msg) + 1})
Terminated(msg, at) == LineEnd(msg, at) <= Len(msg)
After(msg, at)      == Min({LineEnd(msg, at) + 1, Len(msg) + 1})

RowsOf(n, ncols) == 1 + n \div ncols - (IF n > 0 /\ n % ncols = 0 THEN 1 ELSE 0)

Page(from, n, next, failed) == [from |-> from, len |-> n, next |-> next, failed |-> failed]

(* Mutant: nothing is given back.                                          *)
SplitLine_kept(msg, at, available) == Page(at, available, After(msg, at), FALSE)

(* A line that does not fit is given back to the view but for what fits.   *)
(* The view was left after its newline, or nowhere if it has none.         *)
SplitLine(msg, at, available) ==
    IF Terminated(msg, at)
    THEN Page(at, available, After(msg, at) - (LineEnd(msg, at) - at - available), FALSE)
    ELSE Page(at, 0, Len(msg) + 1, TRUE)

get_next_page(nrows, ncols, msg, from) ==
    LET take[s \in (0..Size - 1) \X (1..Len(msg) + 1)] ==
          LET rows == s[1]
              at   == s[2]
              n    == LineEnd(msg, at) - at
              rest == take[<<rows - RowsOf(n, ncols), After(msg, at)>>]
          IN  IF at > Len(msg) \/ rows = 0 THEN Page(at, 0, at, FALSE)
              ELSE IF n > (rows * ncols) % Size THEN SplitLine(msg, at, (rows * ncols) % Size)
              ELSE [rest EXCEPT !.len = n + 1 + @]
        page == take[<<nrows, from>>]
    IN  [page EXCEPT !.from = from]

(* What the last row of a page tells to type.                              *)
Hint(pages, pagenum, left) ==
    IF pages = 1 /\ left = 0 THEN {"q"}
    ELSE IF left = 0 /\ pagenum + 1 = pages THEN {"backspace", "q"}
    ELSE IF pagenum = 0 THEN {"space", "q"}
    ELSE {"space", "backspace", "q"}

SpaceTurns(pages, pagenum, left) == (pagenum < pages /\ left > 0) \/ pagenum + 1 < pages

-----------------------------------------------------------------------------
(* The lines that a window shows of a buffer, and the current line then.   *)

show_range(nrows, count, line) ==
    IF count <= nrows THEN [beg |-> 1, end |-> count, line |-> line]
    ELSE IF count - line >= nrows THEN [beg |-> line, end |-> line + nrows, line |-> line]
    ELSE [beg |-> count - nrows, end |-> count, line |-> count - nrows]

(* Mutant: a window and a line further.                                    *)
keystroke_ctrl_f_over(nrows, count, line) == Min({line + nrows + 2, count})

keystroke_ctrl_f(nrows, count, line) == Min({line + nrows, count})
keystroke_ctrl_b(nrows, line) == IF line > nrows THEN line - nrows ELSE 1

(* _update_if_smaller_, of what a window of some rows leaves.              *)
UpdatedRows(nrows, window) == Min({nrows, (window + Size - 2) % Size})
=============================================================================
