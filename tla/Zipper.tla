------------------------------- MODULE Zipper -------------------------------
(***************************************************************************)
(* What a line editor promises: a line is what is before the cursor and    *)
(* what is after it, and the cursor never goes before the key that opened  *)
(* the line.  A line that is entered is the last of the lines that can be  *)
(* recalled.  How a line is kept in memory and drawn is not told.          *)
(***************************************************************************)
EXTENDS Naturals, Sequences

CONSTANTS Char, Blanks

VARIABLES open, before, after, lines, back

vars == <<open, before, after, lines, back>>

Init == /\ open = FALSE /\ before = <<>> /\ after = <<>> /\ back = 0
        /\ lines = <<>>

Editing == open /\ UNCHANGED <<open, lines>>
At(b, a) == before' = b /\ after' = a

Begin(c) == /\ ~open /\ open' = TRUE /\ At(<<c>>, <<>>) /\ back' = 0 /\ UNCHANGED lines

(* A line may be begun by asking for the last one.                         *)
BeginLast ==
    /\ ~open /\ open' = TRUE /\ UNCHANGED lines
    /\ IF lines = <<>> THEN back' = 0 /\ At(<<>>, <<>>)
                       ELSE back' = 1 /\ At(lines[Len(lines)], <<>>)

Type(c) == Editing /\ At(Append(before, c), after) /\ UNCHANGED back

(* Keys that move leave the line, and stay after its first character.      *)
Move == /\ Editing /\ UNCHANGED back
        /\ before' \o after' = before \o after
        /\ Len(before') >= 1 /\ Len(before) >= 1

Rubout == /\ Editing /\ UNCHANGED back
          /\ Len(before) > 1
          /\ At(SubSeq(before, 1, Len(before) - 1), after)

Delete == /\ Editing /\ UNCHANGED back
          /\ after # <<>>
          /\ At(before, Tail(after))

(* The blanks before the cursor go, and the word before them, up to the    *)
(* first character.                                                        *)
RuboutWord ==
    /\ Editing /\ UNCHANGED back
    /\ \E m \in 1..Len(before) : \E n \in 1..m :
          /\ \A i \in m + 1..Len(before) : before[i] \in Blanks
          /\ m > 1 => before[m] \notin Blanks
          /\ \A i \in n + 1..m : before[i] \notin Blanks
          /\ n > 1 => before[n] \in Blanks
          /\ At(SubSeq(before, 1, n), after)

Recall == /\ Editing
          /\ back' \in 1..Len(lines)
          /\ back' \in {back - 1, back + 1}
          /\ At(lines[Len(lines) + 1 - back'], <<>>)

Abandon == /\ open /\ open' = FALSE /\ At(<<>>, <<>>) /\ back' = 0 /\ UNCHANGED lines

Enter == /\ open /\ open' = FALSE /\ At(<<>>, <<>>) /\ back' = 0
         /\ lines' = Append(lines, before \o after)

Next == \/ \E c \in Char : Begin(c) \/ Type(c)
        \/ BeginLast \/ Move \/ Rubout \/ Delete \/ RuboutWord \/ Recall
        \/ Abandon \/ Enter

Spec == Init /\ [][Next]_vars
=============================================================================
