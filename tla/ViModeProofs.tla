---------------------------- MODULE ViModeProofs ----------------------------
(***************************************************************************)
(* Proofs about the visual mode, for every size of window, buffer, line    *)
(* and history: the types, what the terminal shows of the line that is     *)
(* edited, that its memory implements the abstract editor of Zipper, that  *)
(* scrolling skips no line, and that messages are read page by page.       *)
(*                                                                         *)
(* What the editor keeps does not depend on the rest of the visual mode,   *)
(* and is proved of the editor alone (EdSpec) first.                       *)
(***************************************************************************)
EXTENDS ViMode, OrderProofs, SequenceTheorems

(* The types of the editor are inductive with those of its history: a line *)
(* that is recalled has characters only, as the one that is edited must.   *)
EdInv == EditOK /\ history \in Seq(Seq(Char))

Memory == Char \cup {Nul, Junk}

(* Before a line is opened its memory has no cell.                         *)
LEMMA EmptyMemory == \A S : <<>> \in [0..-1 -> S]
<1> TAKE S
<1>1. <<>> \in Seq(S) /\ Len(<<>>) = 0  BY EmptySeq
<1>2. <<>> \in [1..0 -> S]              BY <1>1, LenProperties
<1>3. 1..0 = {} /\ 0..-1 = {}           OBVIOUS
<1> QED BY <1>2, <1>3

(* The line is a sequence of the characters that its memory holds.         *)
LEMMA LineIsSeq ==
    ASSUME NEW mem, NEW n \in Nat, \A i \in 0..n - 1 : mem[i] \in Char
    PROVE  /\ Line(mem, n) \in Seq(Char)
           /\ Len(Line(mem, n)) = n
           /\ \A i \in 1..n : Line(mem, n)[i] = mem[i - 1]
<1>1. \A i \in 1..n : mem[i - 1] \in Char OBVIOUS
<1>2. Line(mem, n) \in [1..n -> Char] BY <1>1 DEF Line
<1>3. Line(mem, n) \in Seq(Char) BY <1>2, SeqDef
<1>4. Len(Line(mem, n)) = n BY <1>2, <1>3, LenProperties
<1> QED BY <1>3, <1>4 DEF Line

(* No line is open at first (rl_init is not called yet).                   *)
LEMMA InitInv == Init => EdInv
<1> SUFFICES ASSUME Init PROVE EdInv OBVIOUS
<1> USE DEF Init
<1>1. items \in [0..capacity - 1 -> Memory] BY EmptyMemory
<1>2. history \in Seq(Seq(Char)) /\ Len(history) = 0 BY EmptySeq
<1>3. open \in BOOLEAN /\ capacity = 0 /\ len = 0 /\ pos = 0 /\ history_ix = 0 OBVIOUS
<1>4. EditOK BY <1>1, <1>2, <1>3, 0 \in 0..0, \A i \in 0..-1 : FALSE DEF EditOK, Memory
<1> QED BY <1>2, <1>4 DEF EdInv

(* A line of the history has characters only.                              *)
LEMMA EntryIsLine ==
    ASSUME EdInv, NEW k \in 1..Len(history)
    PROVE  /\ history[k] \in Seq(Char) /\ Len(history[k]) \in Nat
           /\ \A i \in 0..Len(history[k]) - 1 : history[k][i + 1] \in Char
<1>1. history[k] \in Seq(Char) BY ElementOfSeq DEF EdInv
<1>2. Len(history[k]) \in Nat BY <1>1, LenProperties
<1>3. \A i \in 1..Len(history[k]) : history[k][i] \in Char BY <1>1, ElementOfSeq
<1> QED BY <1>1, <1>2, <1>3

(* A line is opened with the character of its key (rl_init).               *)
LEMMA StartInv == ASSUME EdInv, NEW c \in Char, Start(c) PROVE EdInv'
<1> USE EditorAssumption DEF EdInv, EditOK, Start
<1>1. Grow \in Nat /\ Grow > 1 OBVIOUS
<1>2. items' \in [0..Grow - 1 -> Memory] BY DEF Memory
<1>3. \A i \in 0..0 : items'[i] \in Char BY <1>1
<1>4. Len(history) \in Nat BY LenProperties
<1> QED BY <1>1, <1>2, <1>3, <1>4 DEF Memory

(* The memory that is ensured holds what is to be added                    *)
(* (rlbuf_ensure_extra_capacity_).                                         *)
LEMMA RoomFor ==
    ASSUME EdInv, NEW used \in 0..capacity, NEW size \in Nat
    PROVE  Ensured(used, size) \in Nat /\ Ensured(used, size) >= used + size /\ Ensured(used, size) >= capacity
BY EditorAssumption DEF EdInv, EditOK, Ensured, Larger

(* What a cell holds, written or not.                                      *)
LEMMA CellIsMemory == ASSUME EdInv, NEW i \in Nat PROVE Cell(i) \in Memory
BY DEF EdInv, EditOK, Cell, Memory

(* A line of the history fits in the memory it is copied to                *)
(* (rlbuf_append).                                                         *)
LEMMA LoadedInv ==
    ASSUME EdInv, NEW entry \in Seq(Char), NEW room \in Nat, room >= Len(entry),
           \A i \in 0..Len(entry) - 1 : entry[i + 1] \in Char,
           Loaded(entry, room)
    PROVE  /\ capacity' \in Nat /\ len' \in 0..capacity' /\ pos' \in 0..len'
           /\ items' \in [0..capacity' - 1 -> Memory]
           /\ \A i \in 0..len' - 1 : items'[i] = entry[i + 1]
           /\ pos' = len' /\ len' = Len(entry)
<1>1. Len(entry) \in Nat BY LenProperties
<1>2. capacity' = room /\ len' = Len(entry) /\ pos' = len' BY DEF Loaded
<1>3. ASSUME NEW i \in 0..room - 1
      PROVE  (IF i < Len(entry) THEN entry[i + 1] ELSE Cell(i)) \in Memory
  <2>1. i \in Nat /\ Cell(i) \in Memory BY CellIsMemory
  <2> QED BY <1>1, <2>1 DEF Memory
<1>4. items' \in [0..room - 1 -> Memory] BY <1>3 DEF Loaded
<1> QED BY <1>1, <1>2, <1>4 DEF Loaded

(* A line is opened with the last one of the history, or with none         *)
(* (reditline).                                                            *)
LEMMA StartLastInv == ASSUME EdInv, StartLast PROVE EdInv'
<1> USE EditorAssumption
<1>1. Len(history) \in Nat /\ history' = history /\ open' = TRUE BY LenProperties DEF EdInv, StartLast
<1>2. CASE history = <<>>
  <2>1. capacity' = Grow /\ len' = 0 /\ pos' = 0 /\ history_ix' = 0 BY <1>2 DEF StartLast
  <2>2. items' \in [0..Grow - 1 -> Memory] BY <1>2 DEF StartLast, Memory
  <2> QED BY <1>1, <2>1, <2>2 DEF EdInv, EditOK, Memory
<1>3. CASE history # <<>>
  <2> DEFINE entry == history[Len(history)]
             room  == IF Len(entry) > Grow THEN Grow + Larger(Len(entry), Grow) ELSE Grow
  <2>1. Len(history) \in 1..Len(history) BY <1>1, <1>3, EmptySeq DEF EdInv
  <2>2. entry \in Seq(Char) /\ Len(entry) \in Nat /\ \A i \in 0..Len(entry) - 1 : entry[i + 1] \in Char
        BY <2>1, EntryIsLine
  <2>3. room \in Nat /\ room >= Len(entry) BY <2>2 DEF Larger
  <2>4. history_ix' = 1 /\ capacity' = room /\ len' = Len(entry) /\ pos' = Len(entry)
        /\ items' = [i \in 0..room - 1 |-> IF i < Len(entry) THEN entry[i + 1] ELSE Junk]
        BY <1>3 DEF StartLast
  <2> HIDE DEF entry, room
  <2>5. items' \in [0..room - 1 -> Memory] BY <2>2, <2>4 DEF Memory
  <2>6. \A i \in 0..Len(entry) - 1 : items'[i] \in Char BY <2>2, <2>3, <2>4
  <2> QED BY <1>1, <2>1, <2>2, <2>3, <2>4, <2>5, <2>6 DEF EdInv, EditOK, Memory
<1> QED BY <1>2, <1>3

(* A character is inserted within the memory of the line (rl_insert_char). *)
LEMMA InsertInv == ASSUME EdInv, NEW c \in Char, rl_insert_char(c) PROVE EdInv'
<1> DEFINE room == Ensured(len, 2)
<1>1. len \in Nat /\ len \in 0..capacity /\ pos \in 0..len /\ capacity \in Nat
      /\ (\A i \in 0..len - 1 : items[i] \in Char)
      BY DEF EdInv, EditOK
<1>2. room \in Nat /\ room >= len + 2 /\ room >= capacity BY <1>1, RoomFor
<1>3. capacity' = room /\ len' = len + 1 /\ pos' = pos + 1 /\ open' = open /\ open
      /\ history' = history /\ history_ix' = history_ix
      BY DEF rl_insert_char, Editing
<1> HIDE DEF room
<1>4. ASSUME NEW i \in 0..room - 1
      PROVE  (IF i = len + 1 THEN Nul
              ELSE IF i = pos THEN c
              ELSE IF i \in pos + 1..len THEN items[i - 1]
              ELSE Cell(i)) \in Memory
  <2>1. i \in Nat /\ Cell(i) \in Memory BY <1>2, CellIsMemory
  <2>2. i \in pos + 1..len => i - 1 \in 0..len - 1 BY <1>1, <2>1
  <2> QED BY <1>1, <2>1, <2>2 DEF Memory
<1>5. items' = [i \in 0..room - 1 |-> IF i = len + 1 THEN Nul
                                      ELSE IF i = pos THEN c
                                      ELSE IF i \in pos + 1..len THEN items[i - 1]
                                      ELSE Cell(i)]
      BY DEF rl_insert_char, room
<1>6. items' \in [0..room - 1 -> Memory] BY <1>4, <1>5
<1>7. ASSUME NEW i \in 0..len PROVE items'[i] \in Char
  <2>1. i \in 0..room - 1 BY <1>1, <1>2
  <2>2. CASE i = pos BY <1>1, <1>5, <2>1, <2>2
  <2>3. CASE i \in pos + 1..len BY <1>1, <1>5, <2>1, <2>3
  <2>4. CASE i \in 0..pos - 1
    <3>1. Cell(i) = items[i] BY <1>1, <2>4 DEF Cell
    <3>2. items'[i] = Cell(i) BY <1>1, <1>5, <2>1, <2>4
    <3> QED BY <1>1, <2>4, <3>1, <3>2
  <2> QED BY <1>1, <2>2, <2>3, <2>4
<1>8. history_ix \in 0..Len(history) BY DEF EdInv, EditOK
<1> QED BY <1>1, <1>2, <1>3, <1>6, <1>7, <1>8 DEF EdInv, EditOK, Memory

(* What memmove does to characters that move towards the beginning.        *)
LEMMA MovedMemory ==
    ASSUME EdInv, NEW to \in Nat, NEW from \in Nat, NEW n \in Nat, to <= from, from + n <= capacity
    PROVE  /\ Moved(to, from, n) \in [0..capacity - 1 -> Memory]
           /\ \A i \in 0..to - 1 : Moved(to, from, n)[i] = items[i]
           /\ \A i \in to..to + n - 1 : Moved(to, from, n)[i] = items[i - to + from]
<1>1. capacity \in Nat /\ items \in [0..capacity - 1 -> Memory] BY DEF EdInv, EditOK, Memory
<1>2. \A i \in to..to + n - 1 : i \in 0..capacity - 1 /\ i - to + from \in 0..capacity - 1 BY <1>1
<1>4. Moved(to, from, n) \in [0..capacity - 1 -> Memory] BY <1>1, <1>2 DEF Moved
<1>5. \A i \in to..to + n - 1 : Moved(to, from, n)[i] = items[i - to + from] BY <1>2 DEF Moved
<1>6. ASSUME NEW i \in 0..to - 1 PROVE Moved(to, from, n)[i] = items[i]
  <2>1. i \in 0..capacity - 1 /\ i \notin to..to + n - 1 BY <1>1
  <2> QED BY <2>1 DEF Moved
<1> QED BY <1>4, <1>5, <1>6

(* What every key that deletes does to the line.                           *)
CutOut(b, a) ==
    /\ Editing /\ UNCHANGED <<capacity, history_ix>>
    /\ pos' = b /\ len' = len - (a - b)
    /\ \A i \in 0..b - 1 : items'[i] = items[i]
    /\ \A i \in b..len' - 1 : items'[i] = items[i + (a - b)]
    /\ items' \in [0..capacity - 1 -> Memory]

(* A deletion leaves a line with its cursor in it.                         *)
LEMMA CutOutInv ==
    ASSUME EdInv, NEW b \in Nat, NEW a \in Nat, 1 <= b, b <= a, a <= len, CutOut(b, a)
    PROVE  EdInv'
<1>1. len \in 0..capacity /\ capacity \in Nat /\ (\A i \in 0..len - 1 : items[i] \in Char)
      /\ history_ix \in 0..Len(history) /\ history \in Seq(Seq(Char))
      BY DEF EdInv, EditOK
<1>2. open' /\ open' = open /\ history' = history /\ history_ix' = history_ix /\ capacity' = capacity
      /\ pos' = b /\ len' = len - (a - b) /\ open \in BOOLEAN
      BY DEF CutOut, Editing, EdInv, EditOK
<1>3. ASSUME NEW i \in 0..len' - 1 PROVE items'[i] \in Char
  <2>1. CASE i \in 0..b - 1 BY <1>1, <1>2, <2>1 DEF CutOut
  <2>2. CASE i \in b..len' - 1
    <3>1. i + (a - b) \in 0..len - 1 BY <1>1, <1>2, <2>2
    <3> QED BY <1>1, <2>2, <3>1 DEF CutOut
  <2> QED BY <1>2, <2>1, <2>2
<1>4. items' \in [0..capacity' - 1 -> Char \cup {Nul, Junk}] BY <1>2 DEF CutOut, Memory
<1> QED BY <1>1, <1>2, <1>3, <1>4 DEF EdInv, EditOK

(* Deletions before the cursor move its rest over what goes                *)
(* (rl_delete_char_back, rl_delete_word_back).                             *)
LEMMA BackIsCutOut ==
    ASSUME EdInv, NEW n \in 1..pos, Editing, UNCHANGED <<capacity, history_ix>>,
           pos' = n, len' = len - (pos - n),
           items' = IF pos' < len' THEN Moved(n, pos, len - pos) ELSE items
    PROVE  CutOut(n, pos)
<1>1. len \in 0..capacity /\ pos \in 0..len /\ capacity \in Nat /\ items \in [0..capacity - 1 -> Memory]
      BY DEF EdInv, EditOK, Memory
<1>2. n \in Nat /\ pos \in Nat /\ len - pos \in Nat /\ n <= pos /\ pos + (len - pos) <= capacity BY <1>1
<1>3. Moved(n, pos, len - pos) \in [0..capacity - 1 -> Memory]
      /\ (\A i \in 0..n - 1 : Moved(n, pos, len - pos)[i] = items[i])
      /\ (\A i \in n..n + (len - pos) - 1 : Moved(n, pos, len - pos)[i] = items[i - n + pos])
  <2> DEFINE l == len - pos
  <2>1. n \in Nat /\ pos \in Nat /\ l \in Nat /\ n <= pos /\ pos + l <= capacity BY <1>2
  <2> HIDE DEF l, Memory
  <2> QED BY <2>1, MovedMemory DEF l
<1>4. items' \in [0..capacity - 1 -> Memory] BY <1>1, <1>3
<1>5. \A i \in 0..n - 1 : items'[i] = items[i] BY <1>3
<1>6. ASSUME NEW i \in n..len' - 1 PROVE items'[i] = items[i + (pos - n)]
  <2>1. n < len' /\ i \in n..n + (len - pos) - 1 /\ i - n + pos = i + (pos - n) BY <1>1, <1>2
  <2> QED BY <1>3, <2>1
<1> QED BY <1>4, <1>5, <1>6 DEF CutOut

(* The character before the cursor goes, or nothing (rl_delete_char_back). *)
LEMMA DeleteBack ==
    ASSUME EdInv, rl_delete_char_back
    PROVE  \/ Editing /\ Same
           \/ pos > 1 /\ CutOut(pos - 1, pos) /\ Redraw
<1>1. CASE pos <= 1 BY <1>1 DEF rl_delete_char_back
<1>2. CASE pos > 1
  <2>1. pos \in Nat /\ len \in Nat BY DEF EdInv, EditOK
  <2>2. pos - 1 \in 1..pos /\ len - (pos - (pos - 1)) = len - 1 BY <1>2, <2>1
  <2>3. Editing /\ UNCHANGED <<capacity, history_ix>> /\ pos' = pos - 1 /\ len' = len - 1
        /\ items' = (IF pos' < len' THEN Moved(pos', pos, len - pos) ELSE items) /\ Redraw
        BY <1>2, <2>1 DEF rl_delete_char_back
  <2> QED BY <1>2, <2>2, <2>3, BackIsCutOut
<1> QED BY <1>1, <1>2 DEF EdInv, EditOK

(* The line is drawn again if the cursor went back to n.                   *)
DrawnFrom(n) == IF pos > n THEN Redraw \/ RedrawUnmoved ELSE UNCHANGED rowVars

(* The word before the cursor goes, or nothing (rl_delete_word_back).      *)
LEMMA DeleteWordBack ==
    ASSUME EdInv, rl_delete_word_back
    PROVE  \/ Editing /\ Same
           \/ \E m \in 1..pos : \E n \in 1..m :
                 /\ StopsAt(m, pos, Blanks) /\ StopsAt(n, m, Char \ Blanks)
                 /\ CutOut(n, pos) /\ DrawnFrom(n)
<1>1. CASE pos <= 1 BY <1>1 DEF rl_delete_word_back
<1>2. CASE pos > 1
  <2>0. pos \in Nat /\ ~(pos <= 1) BY <1>2 DEF EdInv, EditOK
  <2>1. PICK m \in 1..pos : \E n \in 1..m :
            /\ StopsAt(m, pos, Blanks) /\ StopsAt(n, m, Char \ Blanks)
            /\ pos' = n /\ len' = len - (pos - n)
            /\ items' = IF pos' < len' THEN Moved(n, pos, len - pos) ELSE items
            /\ UNCHANGED <<capacity, history_ix>>
            /\ IF pos > n THEN Redraw \/ RedrawUnmoved ELSE UNCHANGED rowVars
        BY <1>2, <2>0 DEF rl_delete_word_back
  <2>2. PICK n \in 1..m :
            /\ StopsAt(m, pos, Blanks) /\ StopsAt(n, m, Char \ Blanks)
            /\ pos' = n /\ len' = len - (pos - n)
            /\ items' = IF pos' < len' THEN Moved(n, pos, len - pos) ELSE items
            /\ UNCHANGED <<capacity, history_ix>>
            /\ IF pos > n THEN Redraw \/ RedrawUnmoved ELSE UNCHANGED rowVars
        BY <2>1
  <2>3. n \in 1..pos /\ Editing BY <2>1, <2>2 DEF rl_delete_word_back, EdInv, EditOK
  <2>4. CutOut(n, pos) BY <2>2, <2>3, BackIsCutOut
  <2> QED BY <2>2, <2>4 DEF DrawnFrom
<1> QED BY <1>1, <1>2 DEF EdInv, EditOK

(* The character under the cursor goes: nothing before it does.            *)
LEMMA DeleteForward ==
    ASSUME EdInv, rl_delete_char_forward
    PROVE  \/ Editing /\ Same
           \/ /\ Editing /\ Redraw /\ UNCHANGED <<pos, capacity, history_ix>>
              /\ pos >= 1 /\ pos < len /\ len' = len - 1
              /\ items' \in [0..capacity - 1 -> Memory]
              /\ \A i \in 0..pos - 1 : items'[i] = items[i]
              /\ \A i \in pos..len' - 1 : items'[i] = items[i + 1]
<1>1. CASE len = pos BY <1>1 DEF rl_delete_char_forward
<1>2. CASE len # pos
  <2>1. capacity \in Nat /\ len \in 0..capacity /\ pos \in 0..len /\ pos # 0 BY <1>2 DEF EdInv, EditOK
  <2>2. Editing /\ Redraw /\ UNCHANGED <<pos, capacity, history_ix>> /\ len' = len - 1
        /\ items' = Moved(pos, pos + 1, len' - pos)
        BY <1>2 DEF rl_delete_char_forward
  <2> DEFINE n == len - 1 - pos
  <2>3. pos \in Nat /\ pos + 1 \in Nat /\ n \in Nat /\ pos + 1 + n <= capacity /\ pos <= pos + 1 /\ items' = Moved(pos, pos + 1, n)
        BY <1>2, <2>1, <2>2
  <2> HIDE DEF n
  <2>4. items' \in [0..capacity - 1 -> Memory]
        /\ (\A i \in 0..pos - 1 : items'[i] = items[i])
        /\ (\A i \in pos..pos + n - 1 : items'[i] = items[i - pos + (pos + 1)])
        BY <2>3, MovedMemory
  <2>5. \A i \in pos..len' - 1 : items'[i] = items[i + 1] BY <2>1, <2>2, <2>4 DEF n
  <2> QED BY <1>2, <2>1, <2>2, <2>4, <2>5
<1> QED BY <1>1, <1>2

(* So the line is a line after it.                                         *)
LEMMA DeleteForwardInv == ASSUME EdInv, rl_delete_char_forward PROVE EdInv'
<1>1. capacity \in Nat /\ len \in 0..capacity /\ pos \in 0..len /\ history_ix \in 0..Len(history)
      /\ (\A i \in 0..len - 1 : items[i] \in Char) /\ history \in Seq(Seq(Char)) /\ open \in BOOLEAN
      BY DEF EdInv, EditOK
<1>2. CASE Editing /\ Same BY <1>2 DEF Editing, Same, lineVars, EdInv, EditOK
<1>3. CASE /\ Editing /\ UNCHANGED <<pos, capacity, history_ix>>
           /\ pos >= 1 /\ pos < len /\ len' = len - 1
           /\ items' \in [0..capacity - 1 -> Memory]
           /\ \A i \in 0..pos - 1 : items'[i] = items[i]
           /\ \A i \in pos..len' - 1 : items'[i] = items[i + 1]
  <2>1. open' /\ open' = open /\ history' = history BY <1>3 DEF Editing
  <2>2. ASSUME NEW i \in 0..len' - 1 PROVE items'[i] \in Char
    <3>1. CASE i \in 0..pos - 1
      <4>1. i \in 0..len - 1 BY <1>1, <1>3, <3>1
      <4> QED BY <1>1, <1>3, <3>1, <4>1
    <3>2. CASE i \in pos..len' - 1
      <4>1. i + 1 \in 0..len - 1 BY <1>1, <1>3, <3>2
      <4> QED BY <1>1, <1>3, <3>2, <4>1
    <3> QED BY <1>1, <1>3, <3>1, <3>2
  <2>3. items' \in [0..capacity' - 1 -> Char \cup {Nul, Junk}] BY <1>3 DEF Memory
  <2> QED BY <1>1, <1>3, <2>1, <2>2, <2>3 DEF EdInv, EditOK
<1> QED BY <1>2, <1>3, DeleteForward

(* Keys that are ignored leave a line.                                     *)
LEMMA SameInv == ASSUME EdInv, Editing, Same PROVE EdInv'
BY DEF Editing, Same, lineVars, EdInv, EditOK

(* So the line is a line after it, with a character before its cursor.     *)
LEMMA DeleteBackInv == ASSUME EdInv, rl_delete_char_back PROVE EdInv'
<1>1. pos \in Nat /\ len \in Nat /\ pos <= len BY DEF EdInv, EditOK
<1>2. CASE Editing /\ Same BY <1>2, SameInv
<1>3. CASE pos > 1 /\ CutOut(pos - 1, pos)
  <2>1. pos - 1 \in Nat /\ 1 <= pos - 1 /\ pos - 1 <= pos BY <1>1, <1>3
  <2> QED BY <1>1, <1>3, <2>1, CutOutInv
<1> QED BY <1>2, <1>3, DeleteBack

(* And so it is when a word goes.                                          *)
LEMMA DeleteWordBackInv == ASSUME EdInv, rl_delete_word_back PROVE EdInv'
<1>1. pos \in Nat /\ len \in Nat /\ pos <= len BY DEF EdInv, EditOK
<1>2. CASE Editing /\ Same BY <1>2, SameInv
<1>3. CASE \E m \in 1..pos : \E n \in 1..m : CutOut(n, pos)
  <2>1. PICK m \in 1..pos : \E n \in 1..m : CutOut(n, pos) BY <1>3
  <2>2. PICK n \in 1..m : CutOut(n, pos) BY <2>1
  <2>3. n \in Nat /\ 1 <= n /\ n <= pos BY <1>1, <2>1, <2>2
  <2> QED BY <1>1, <2>2, <2>3, CutOutInv
<1> QED BY <1>2, <1>3, DeleteWordBack

(* The line of the history that a key of the history loads.                *)
LEMMA RecallInv ==
    ASSUME EdInv, NEW k \in 1..Len(history), Editing, rl_buf_from_history(k)
    PROVE  /\ EdInv'
           /\ history_ix' = k /\ pos' = len' /\ len' = Len(history[Len(history) - k + 1])
           /\ \A i \in 0..len' - 1 : items'[i] = history[Len(history) - k + 1][i + 1]
<1> DEFINE entry == history[Len(history) - k + 1]
           room  == Ensured(0, Len(entry))
<1>1. Len(history) \in Nat /\ Len(history) - k + 1 \in 1..Len(history)
      BY LenProperties DEF EdInv
<1>2. entry \in Seq(Char) /\ Len(entry) \in Nat /\ \A i \in 0..Len(entry) - 1 : entry[i + 1] \in Char
      BY <1>1, EntryIsLine
<1>3. 0 \in 0..capacity BY DEF EdInv, EditOK
<1>5. history_ix' = k /\ Loaded(entry, room) BY DEF rl_buf_from_history
<1> HIDE DEF entry
<1>4. room \in Nat /\ room >= 0 + Len(entry) BY <1>2, <1>3, RoomFor
<1> HIDE DEF room
<1>6. /\ capacity' \in Nat /\ len' \in 0..capacity' /\ pos' \in 0..len'
      /\ items' \in [0..capacity' - 1 -> Memory]
      /\ \A i \in 0..len' - 1 : items'[i] = entry[i + 1]
      /\ pos' = len' /\ len' = Len(entry)
      BY <1>2, <1>4, <1>5, LoadedInv
<1>7. open' /\ open' = open /\ history' = history BY DEF Editing
<1>8. (\A i \in 0..len' - 1 : items'[i] \in Char) /\ (pos' = 0 <=> len' = 0) BY <1>2, <1>6
<1>9. history_ix' \in 0..Len(history') BY <1>1, <1>5, <1>7
<1>10. open' \in BOOLEAN /\ history' \in Seq(Seq(Char)) BY <1>7 DEF EdInv, EditOK
<1>11. EdInv' BY <1>6, <1>7, <1>8, <1>9, <1>10 DEF EdInv, EditOK, Memory
<1> QED BY <1>5, <1>6, <1>11 DEF entry

(* The index in the history goes up while there is an older line           *)
(* (rl_history_prev).                                                      *)
LEMMA HistoryPrev ==
    ASSUME EdInv, rl_history_prev
    PROVE  /\ Editing /\ Redraw
           /\ \/ UNCHANGED <<lineVars, history_ix>>
              \/ history_ix + 1 \in 1..Len(history) /\ rl_buf_from_history(history_ix + 1)
<1>1. Len(history) \in Nat /\ history_ix \in Nat BY LenProperties DEF EdInv, EditOK
<1> QED BY <1>1 DEF rl_history_prev

(* And down to the last line (rl_history_next).                            *)
LEMMA HistoryNext ==
    ASSUME EdInv, rl_history_next
    PROVE  /\ Editing /\ Redraw
           /\ \/ UNCHANGED <<lineVars, history_ix>>
              \/ history_ix - 1 \in 1..Len(history) /\ rl_buf_from_history(history_ix - 1)
<1>1. Len(history) \in Nat /\ history_ix \in 0..Len(history) BY LenProperties DEF EdInv, EditOK
<1> QED BY <1>1 DEF rl_history_next

(* Redrawing leaves a line.                                                *)
LEMMA UntouchedInv == ASSUME EdInv, Editing, UNCHANGED <<lineVars, history_ix>> PROVE EdInv'
BY DEF Editing, lineVars, EdInv, EditOK

(* The keys of the history leave a line.                                   *)
LEMMA HistoryInv == ASSUME EdInv, rl_history_prev \/ rl_history_next PROVE EdInv'
<1>1. Editing BY DEF rl_history_prev, rl_history_next
<1>2. CASE UNCHANGED <<lineVars, history_ix>> BY <1>1, <1>2, UntouchedInv
<1>3. CASE history_ix + 1 \in 1..Len(history) /\ rl_buf_from_history(history_ix + 1)
      BY <1>1, <1>3, RecallInv
<1>4. CASE history_ix - 1 \in 1..Len(history) /\ rl_buf_from_history(history_ix - 1)
      BY <1>1, <1>4, RecallInv
<1> QED BY <1>2, <1>3, <1>4, HistoryPrev, HistoryNext

Moves == rl_move_right1 \/ rl_move_left1 \/ rl_move_beg \/ rl_move_end

(* The keys that move change the cursor only, and leave it in the line.    *)
LEMMA MovesInv ==
    ASSUME EdInv, Moves
    PROVE  /\ EdInv' /\ Editing
           /\ UNCHANGED <<items, capacity, len, history_ix>>
           /\ pos' \in 0..len /\ (pos # 0 => pos' # 0)
<1>1. len \in Nat /\ pos \in 0..len /\ (pos = 0 <=> len = 0) BY DEF EdInv, EditOK
<1>2. Editing /\ UNCHANGED <<items, capacity, len, history_ix>>
      BY DEF Moves, rl_move_right1, rl_move_left1, rl_move_beg, rl_move_end, MoveTo, Same, lineVars
<1>3. pos' \in {pos, pos + 1, pos - 1, 1, len} /\ (pos' = pos + 1 => pos < len)
      /\ (pos' # pos /\ pos' # pos + 1 /\ pos' # len => pos > 1)
      BY <1>1 DEF Moves, rl_move_right1, rl_move_left1, rl_move_beg, rl_move_end, MoveTo, Same, lineVars
<1>4. pos' \in 0..len /\ (pos' = 0 <=> len = 0) BY <1>1, <1>3
<1>5. EdInv' BY <1>1, <1>2, <1>4 DEF EdInv, EditOK, Editing
<1> QED BY <1>1, <1>2, <1>4, <1>5

(* The string that is entered ends where the line does: no '\0' is in it   *)
(* (rl_edit).                                                              *)
LEMMA EnteredIsLine == ASSUME EdInv PROVE Entered = Line(items, len)
<1> DEFINE room == Ensured(len, 1)
           mem  == [i \in 0..room - 1 |-> IF i = len THEN Nul ELSE Cell(i)]
<1>1. len \in 0..capacity /\ capacity \in Nat /\ \A i \in 0..len - 1 : items[i] \in Char
      BY DEF EdInv, EditOK
<1>2. room \in Nat /\ room >= len + 1 BY <1>1, RoomFor
<1>3. Nul \notin Char BY EditorAssumption
<1>4. Entered = CString(mem, room) BY DEF Entered
<1>5. mem[len] = Nul BY <1>1, <1>2
<1>6. \A i \in 0..len - 1 : mem[i] = items[i] BY <1>1, <1>2 DEF Cell
<1> HIDE DEF mem, room
<1>7. \A i \in 0..len - 1 : mem[i] # Nul BY <1>1, <1>3, <1>6
<1>8. len \in 0..room - 1 BY <1>1, <1>2
<1>9. \A n \in 0..room - 1 : (mem[n] = Nul /\ \A i \in 0..n - 1 : mem[i] # Nul) => n = len
      BY <1>1, <1>2, <1>5, <1>7
<1>10. (CHOOSE n \in 0..room - 1 : mem[n] = Nul /\ \A i \in 0..n - 1 : mem[i] # Nul) = len
      BY <1>5, <1>7, <1>8, <1>9
<1>11. Entered = Line(mem, len) BY <1>4, <1>10 DEF CString
<1>12. \A i \in 1..len : mem[i - 1] = items[i - 1] BY <1>1, <1>6
<1> QED BY <1>11, <1>12 DEF Line

(* A line that is closed leaves no memory (rl_cleanup).                    *)
LEMMA ClosedInv ==
    ASSUME EdInv, Closed, history' \in Seq(Seq(Char))
    PROVE  EdInv'
<1>1. items' \in [0..capacity' - 1 -> Memory] BY EmptyMemory DEF Closed
<1>2. Len(history') \in Nat BY LenProperties
<1>3. open' \in BOOLEAN /\ capacity' = 0 /\ len' = 0 /\ pos' = 0 /\ history_ix' = 0 BY DEF Closed
<1> QED BY <1>1, <1>2, <1>3 DEF EdInv, EditOK, Memory

(* What is added to the history has characters only (redit_history_add).   *)
LEMMA EnterInv == ASSUME EdInv, Enter PROVE EdInv'
<1>1. len \in Nat /\ \A i \in 0..len - 1 : items[i] \in Char BY DEF EdInv, EditOK
<1>2. Entered \in Seq(Char) BY <1>1, EnteredIsLine, LineIsSeq
<1>3. history' \in Seq(Seq(Char)) BY <1>2, AppendProperties DEF EdInv, Enter
<1> QED BY <1>3, ClosedInv DEF Enter

(* Giving a line up leaves the history (rl_erase_and_cleanup).             *)
LEMMA GiveUpInv == ASSUME EdInv, rl_erase_and_cleanup PROVE EdInv'
<1>1. history' \in Seq(Seq(Char)) BY DEF EdInv, rl_erase_and_cleanup, GiveUp
<1> QED BY <1>1, ClosedInv DEF rl_erase_and_cleanup, GiveUp

(* The invariant of the editor: every step leaves a line.                  *)
LEMMA NextInv == EdInv /\ [EdNext]_edVars => EdInv'
<1> SUFFICES ASSUME EdInv, [EdNext]_edVars PROVE EdInv' OBVIOUS
<1>1. CASE \E c \in Char : Start(c) BY <1>1, StartInv
<1>2. CASE StartLast BY <1>2, StartLastInv
<1>3. CASE Edit
  <2>1. CASE \E c \in Char : rl_insert_char(c) BY <2>1, InsertInv
  <2>2. CASE rl_history_prev \/ rl_history_next BY <2>2, HistoryInv
  <2>3. CASE rl_delete_char_back BY <2>3, DeleteBackInv
  <2>4. CASE rl_delete_char_forward BY <2>4, DeleteForwardInv
  <2>5. CASE rl_delete_word_back BY <2>5, DeleteWordBackInv
  <2>6. CASE Moves BY <2>6, MovesInv
  <2>7. CASE rl_erase_and_cleanup BY <2>7, GiveUpInv
  <2> QED BY <1>3, <2>1, <2>2, <2>3, <2>4, <2>5, <2>6, <2>7 DEF Edit, Moves
<1>4. CASE Enter BY <1>4, EnterInv
<1>5. CASE MoveRefused BY <1>5, GiveUpInv DEF MoveRefused, rl_erase_and_cleanup
<1>6. CASE ClsScr BY <1>6 DEF ClsScr, lineVars, EdInv, EditOK
<1>7. CASE UNCHANGED edVars BY <1>7 DEF edVars, lineVars, rowVars, EdInv, EditOK
<1> QED BY <1>1, <1>2, <1>3, <1>4, <1>5, <1>6, <1>7 DEF EdNext

-----------------------------------------------------------------------------
(* The row.                                                                *)

(* Two memories with the same characters have the same line.               *)
LEMMA LineAgain ==
    ASSUME NEW mem, NEW mem2, NEW n \in Nat, \A i \in 0..n - 1 : mem2[i] = mem[i]
    PROVE  Line(mem2, n) = Line(mem, n)
<1>1. \A i \in 1..n : mem2[i - 1] = mem[i - 1] OBVIOUS
<1> QED BY <1>1 DEF Line

(* A move that is not cut is written whole (rl_move_cursor).               *)
LEMMA NotCut ==
    ASSUME NEW n \in Nat
    PROVE  /\ IsCut(n) \in BOOLEAN
           /\ ~IsCut(n) => Columns(n) = n
<1> DEFINE most == Radix * Radix
<1>1. most \in Nat BY EditorAssumption
<1>2. (IsCut(n) <=> n >= most) /\ IsCut(n) \in BOOLEAN BY DEF IsCut
<1>3. Columns(n) = IF n < most THEN n ELSE n \div Radix BY DEF Columns
<1> HIDE DEF most
<1>4. n >= most \/ n < most BY <1>1
<1> QED BY <1>2, <1>3, <1>4

(* Going back from the end of the line by what is after the cursor ends at *)
(* the cursor.                                                             *)
LEMMA BackToCursor == \A l \in Nat : \A p \in 0..l : l - p \in Nat /\ Backward(l, l - p) = p
BY DEF Backward

(* A line that was redrawn is shown (rl_redraw_line).                      *)
LEMMA RedrawnRow == ASSUME EdInv', Redraw PROVE RowShowsLine'
<1> SUFFICES ASSUME lost' = "no" PROVE row' = Line(items', len') /\ col' = pos' BY DEF RowShowsLine
<1>1. capacity' \in Nat /\ len' \in 0..capacity' /\ pos' \in 0..len' /\ \A i \in 0..len' - 1 : items'[i] \in Char
      BY DEF EdInv, EditOK
<1>2. len' \in Nat BY <1>1
<1>3. len' - pos' \in Nat /\ Backward(len', len' - pos') = pos' BY <1>1, <1>2, BackToCursor
<1>4. /\ ~IsCut(len' - pos')
      /\ row' = Written(Erased, Line(items', len'))
      /\ col' = Backward(len', Columns(len' - pos'))
      BY DEF Redraw, Shown
<1>5. Columns(len' - pos') = len' - pos' /\ ~IsCut(len' - pos') BY <1>3, <1>4, NotCut
<1>6. col' = pos' /\ row' = <<>> \o Line(items', len') BY <1>3, <1>4, <1>5 DEF Written, Erased
<1>7. Line(items', len') \in Seq(Char) BY <1>1, <1>2, LineIsSeq
<1>8. row' = Line(items', len') BY <1>6, <1>7, ConcatEmptySeq
<1> QED BY <1>6, <1>8

(* Where the cursor was not taken back, nothing is said.                   *)
LEMMA UnmovedRow == ASSUME RedrawUnmoved PROVE RowShowsLine'
BY DEF RedrawUnmoved, Shown, RowShowsLine

(* Keys that are ignored leave it shown.                                   *)
LEMMA SameRow == ASSUME RowShowsLine, Editing, Same PROVE RowShowsLine'
BY DEF RowShowsLine, Editing, Same, lineVars, rowVars

(* A line of one character.                                                *)
LEMMA OneCharLine == ASSUME NEW mem, NEW c \in Char, mem[0] = c PROVE Line(mem, 1) = <<c>>
<1>1. 1 \in Nat /\ \A i \in 0..1 - 1 : mem[i] \in Char OBVIOUS
<1>2. Line(mem, 1) \in Seq(Char) /\ Len(Line(mem, 1)) = 1 BY <1>1, LineIsSeq
<1>4. 1 \in 1..1 /\ mem[1 - 1] = mem[0] OBVIOUS
<1>5. Line(mem, 1)[1] = c BY <1>4 DEF Line
<1>3. <<c>> \in Seq(Char) /\ Len(<<c>>) = 1 /\ <<c>>[1] = c OBVIOUS
<1> QED BY <1>2, <1>3, <1>5, SeqEqual

(* The first character is written (rl_init).                               *)
LEMMA StartRow == ASSUME NEW c \in Char, Start(c) PROVE RowShowsLine'
<1> SUFFICES ASSUME lost' = "no" PROVE row' = Line(items', len') /\ col' = pos' BY DEF RowShowsLine
<1>1. row' = <<c>> /\ col' = 1 /\ len' = 1 /\ pos' = 1 /\ items'[0] = c
      BY EditorAssumption DEF Start, Shown
<1>2. Line(items', 1) = <<c>> BY <1>1, OneCharLine
<1> QED BY <1>1, <1>2

(* A character typed at the end of the line is written, and the rest of    *)
(* the row left.                                                           *)
LEMMA InsertRow == ASSUME EdInv, RowShowsLine, NEW c \in Char, rl_insert_char(c) PROVE RowShowsLine'
<1>1. EdInv' BY InsertInv
<1>2. CASE pos < len BY <1>1, <1>2, RedrawnRow DEF rl_insert_char
<1>3. CASE ~(pos < len)
  <2> SUFFICES ASSUME lost' = "no" PROVE row' = Line(items', len') /\ col' = pos' BY DEF RowShowsLine
  <2>1. len \in 0..capacity /\ capacity \in Nat /\ pos = len /\ (\A i \in 0..len - 1 : items[i] \in Char)
        BY <1>3 DEF EdInv, EditOK
  <2>2. open /\ len' = len + 1 /\ pos' = pos + 1 /\ lost = "no"
        /\ row' = Put(c) /\ col' = col + 1
        BY <1>3 DEF rl_insert_char, Editing, Shown
  <2>3. row = Line(items, len) /\ col = len BY <2>1, <2>2 DEF RowShowsLine
  <2>4. Len(row) = len /\ \A i \in 1..len : row[i] = items[i - 1] BY <2>1, <2>3, LineIsSeq
  <2>5. row' = [i \in 1..len + 1 |-> IF i = len + 1 THEN c ELSE row[i]]
    <3>1. Larger(Len(row), col + 1) = len + 1 BY <2>1, <2>3, <2>4 DEF Larger
    <3>2. \A i \in 1..len + 1 : i # len + 1 => i <= Len(row) BY <2>1, <2>4
    <3> QED BY <2>2, <2>3, <3>1, <3>2 DEF Put
  <2>6. \A i \in 0..len : items'[i] = IF i = len THEN c ELSE items[i]
    <3> DEFINE room == Ensured(len, 2)
    <3>1. room \in Nat /\ room >= len + 2 BY <2>1, RoomFor
    <3>2. items' = [i \in 0..room - 1 |-> IF i = len + 1 THEN Nul
                                          ELSE IF i = pos THEN c
                                          ELSE IF i \in pos + 1..len THEN items[i - 1]
                                          ELSE Cell(i)]
          BY DEF rl_insert_char
    <3> HIDE DEF room
    <3>3. \A i \in 0..len - 1 : Cell(i) = items[i] BY <2>1 DEF Cell
    <3> QED BY <2>1, <3>1, <3>2, <3>3
  <2>7. \A i \in 1..len + 1 : items'[i - 1] = IF i = len + 1 THEN c ELSE row[i]
    <3> TAKE i \in 1..len + 1
    <3>1. i - 1 \in 0..len /\ (i - 1 = len <=> i = len + 1) BY <2>1
    <3>2. i # len + 1 => row[i] = items[i - 1] BY <2>1, <2>4
    <3> QED BY <2>6, <3>1, <3>2
  <2>8. row' = Line(items', len + 1) BY <2>5, <2>7 DEF Line
  <2> QED BY <2>1, <2>2, <2>3, <2>8
<1> QED BY <1>2, <1>3

(* Keys that delete redraw the line, or leave it.                          *)
LEMMA DeleteRow ==
    ASSUME EdInv, RowShowsLine, rl_delete_char_back \/ rl_delete_char_forward \/ rl_delete_word_back
    PROVE  RowShowsLine'
<1>1. EdInv' BY DeleteBackInv, DeleteForwardInv, DeleteWordBackInv
<1>2. CASE Editing /\ Same BY <1>2, SameRow
<1>3. CASE Redraw BY <1>1, <1>3, RedrawnRow
<1>4. CASE \E n \in 1..pos : CutOut(n, pos) /\ DrawnFrom(n)
  <2>1. PICK n \in 1..pos : CutOut(n, pos) /\ DrawnFrom(n) BY <1>4
  <2>2. CASE pos > n BY <1>1, <2>1, <2>2, RedrawnRow, UnmovedRow DEF DrawnFrom
  <2>3. CASE ~(pos > n)
    <3>1. pos \in Nat /\ len \in Nat /\ pos <= len /\ n = pos BY <2>3 DEF EdInv, EditOK
    <3>2. open /\ open' = open /\ pos' = pos /\ len' = len /\ UNCHANGED rowVars
          BY <2>1, <2>3, <3>1 DEF CutOut, Editing, DrawnFrom
    <3>3. (\A i \in 0..pos - 1 : items'[i] = items[i]) /\ (\A i \in pos..len - 1 : items'[i] = items[i + (pos - pos)])
          BY <2>1, <3>1, <3>2 DEF CutOut
    <3>4. \A i \in 0..len - 1 : items'[i] = items[i]
      <4> TAKE i \in 0..len - 1
      <4>1. CASE i \in 0..pos - 1 BY <3>3, <4>1
      <4>2. CASE i \in pos..len - 1
        <5>1. i + (pos - pos) = i BY <3>1
        <5> QED BY <3>3, <4>2, <5>1
      <4> QED BY <3>1, <4>1, <4>2
    <3>5. Line(items', len) = Line(items, len) BY <3>1, <3>4, LineAgain
    <3> QED BY <3>2, <3>5 DEF RowShowsLine, rowVars
  <2> QED BY <2>2, <2>3
<1>5. rl_delete_word_back => (Editing /\ Same) \/ \E n \in 1..pos : CutOut(n, pos) /\ DrawnFrom(n)
  <2>1. \A m \in 1..pos : \A n \in 1..m : n \in 1..pos BY DEF EdInv, EditOK
  <2> QED BY <2>1, DeleteWordBack
<1> QED BY <1>2, <1>3, <1>4, <1>5, DeleteBack, DeleteForward

(* Keys that move take the cursor of the terminal along, unless the move   *)
(* is cut or the line is too wide.                                         *)
LEMMA MovesRow == ASSUME EdInv, RowShowsLine, Moves PROVE RowShowsLine'
<1>1. len \in Nat /\ pos \in 0..len BY DEF EdInv, EditOK
<1>2. CASE Editing /\ Same BY <1>2, SameRow
<1>3. ASSUME NEW p, NEW c, NEW n, Editing, MoveTo(p, c, n), lost = "no" /\ ~IsCut(n) => c = p
      PROVE  RowShowsLine'
  <2> SUFFICES ASSUME lost' = "no" PROVE row' = Line(items', len') /\ col' = pos' BY DEF RowShowsLine
  <2>1. lost = "no" /\ ~IsCut(n) /\ row' = row /\ col' = c /\ pos' = p /\ items' = items /\ len' = len /\ open
        BY <1>3 DEF MoveTo, Shown, Editing
  <2> QED BY <1>3, <2>1 DEF RowShowsLine
<1>4. lost = "no" /\ open => col = pos BY DEF RowShowsLine
<1>5. CASE rl_move_right1
  <2>1. CASE pos < len
    <3>1. Editing /\ MoveTo(pos + 1, col + 1, 1) /\ open BY <1>5, <2>1 DEF rl_move_right1, Editing
    <3> QED BY <1>3, <1>4, <3>1
  <2> QED BY <1>2, <1>5, <2>1 DEF rl_move_right1
<1>6. CASE rl_move_left1
  <2>1. CASE pos > 1
    <3>1. Editing /\ MoveTo(pos - 1, Backward(col, 1), 0) /\ open BY <1>6, <2>1 DEF rl_move_left1, Editing
    <3>2. Backward(pos, 1) = pos - 1 BY <1>1, <2>1 DEF Backward
    <3> QED BY <1>3, <1>4, <3>1, <3>2
  <2> QED BY <1>2, <1>6, <2>1 DEF rl_move_left1
<1>7. CASE rl_move_beg
  <2>1. CASE pos > 1
    <3>1. Editing /\ MoveTo(1, Backward(col, Columns(pos - 1)), pos - 1) /\ open BY <1>7, <2>1 DEF rl_move_beg, Editing
    <3>2. pos - 1 \in Nat /\ Backward(pos, pos - 1) = 1 BY <1>1, <2>1 DEF Backward
    <3>3. ~IsCut(pos - 1) => Columns(pos - 1) = pos - 1 BY <3>2, NotCut
    <3> QED BY <1>3, <1>4, <3>1, <3>2, <3>3
  <2> QED BY <1>2, <1>7, <2>1 DEF rl_move_beg
<1>8. CASE rl_move_end
  <2>1. CASE pos < len
    <3>1. Editing /\ MoveTo(len, col + Columns(len - pos), len - pos) /\ open BY <1>8, <2>1 DEF rl_move_end, Editing
    <3>2. len - pos \in Nat /\ pos + (len - pos) = len BY <1>1, <2>1
    <3>3. ~IsCut(len - pos) => Columns(len - pos) = len - pos BY <3>2, NotCut
    <3> QED BY <1>3, <1>4, <3>1, <3>2, <3>3
  <2> QED BY <1>2, <1>8, <2>1 DEF rl_move_end
<1> QED BY <1>5, <1>6, <1>7, <1>8 DEF Moves

(* Every step leaves the line shown.                                       *)
LEMMA NextRow == EdInv /\ RowShowsLine /\ [EdNext]_edVars => RowShowsLine'
<1> SUFFICES ASSUME EdInv, RowShowsLine, [EdNext]_edVars PROVE RowShowsLine' OBVIOUS
<1>1. EdInv' BY NextInv
<1>2. CASE \E c \in Char : Start(c) BY <1>2, StartRow
<1>3. CASE StartLast BY <1>1, <1>3, RedrawnRow DEF StartLast
<1>4. CASE Edit
  <2>1. CASE \E c \in Char : rl_insert_char(c) BY <2>1, InsertRow
  <2>2. CASE rl_history_prev \/ rl_history_next BY <1>1, <2>2, RedrawnRow DEF rl_history_prev, rl_history_next
  <2>3. CASE rl_delete_char_back \/ rl_delete_char_forward \/ rl_delete_word_back BY <2>3, DeleteRow
  <2>4. CASE Moves BY <2>4, MovesRow
  <2>5. CASE rl_erase_and_cleanup BY <2>5 DEF rl_erase_and_cleanup, GiveUp, Closed, RowShowsLine
  <2> QED BY <1>4, <2>1, <2>2, <2>3, <2>4, <2>5 DEF Edit, Moves
<1>5. CASE Enter \/ MoveRefused BY <1>5 DEF Enter, MoveRefused, GiveUp, Closed, RowShowsLine
<1>6. CASE ClsScr BY <1>6 DEF ClsScr, RowShowsLine
<1>7. CASE UNCHANGED edVars BY <1>7 DEF edVars, lineVars, rowVars, RowShowsLine
<1> QED BY <1>2, <1>3, <1>4, <1>5, <1>6, <1>7 DEF EdNext

-----------------------------------------------------------------------------
(* The line as the abstract editor knows it: before the cursor is          *)
(* Line(items, pos), and after it                                          *)
Rest(mem, p, n) == [i \in 1..n - p |-> mem[p + i - 1]]

(* What is after the cursor is a sequence of characters.                   *)
LEMMA RestIsSeq ==
    ASSUME NEW mem, NEW n \in Nat, NEW p \in 0..n, \A i \in 0..n - 1 : mem[i] \in Char
    PROVE  /\ Rest(mem, p, n) \in Seq(Char)
           /\ Len(Rest(mem, p, n)) = n - p
           /\ \A i \in 1..n - p : Rest(mem, p, n)[i] = mem[p + i - 1]
<1>1. \A i \in 1..n - p : mem[p + i - 1] \in Char
  <2> TAKE i \in 1..n - p
  <2>1. p + i - 1 \in 0..n - 1 OBVIOUS
  <2> QED BY <2>1
<1>2. Rest(mem, p, n) \in [1..n - p -> Char] BY <1>1 DEF Rest
<1>3. n - p \in Nat OBVIOUS
<1>4. Rest(mem, p, n) \in Seq(Char) BY <1>2, <1>3, SeqDef
<1>5. Len(Rest(mem, p, n)) = n - p BY <1>2, <1>3, <1>4, LenProperties
<1> QED BY <1>4, <1>5 DEF Rest

(* What is before the cursor and what is after it are the line.            *)
LEMMA SidesJoined ==
    ASSUME NEW mem, NEW n \in Nat, NEW p \in 0..n, \A i \in 0..n - 1 : mem[i] \in Char
    PROVE  Line(mem, p) \o Rest(mem, p, n) = Line(mem, n)
<1> DEFINE b == Line(mem, p)
           a == Rest(mem, p, n)
           l == Line(mem, n)
<1>0. p \in Nat /\ \A i \in 0..p - 1 : mem[i] \in Char OBVIOUS
<1>1. b \in Seq(Char) /\ Len(b) = p /\ \A i \in 1..p : b[i] = mem[i - 1] BY <1>0, LineIsSeq
<1>2. a \in Seq(Char) /\ Len(a) = n - p /\ \A i \in 1..n - p : a[i] = mem[p + i - 1] BY RestIsSeq
<1>3. l \in Seq(Char) /\ Len(l) = n /\ \A i \in 1..n : l[i] = mem[i - 1] BY LineIsSeq
<1> HIDE DEF a, b, l
<1>4. b \o a \in Seq(Char) /\ Len(b \o a) = Len(b) + Len(a)
      /\ \A i \in 1..Len(b) + Len(a) : (b \o a)[i] = IF i <= Len(b) THEN b[i] ELSE a[i - Len(b)]
      BY <1>1, <1>2, ConcatProperties
<1>5. Len(b) + Len(a) = n BY <1>0, <1>1, <1>2
<1>6. ASSUME NEW i \in 1..n PROVE (b \o a)[i] = mem[i - 1]
  <2>1. CASE i <= p
    <3>1. i \in 1..p BY <1>0, <2>1
    <3> QED BY <1>1, <1>4, <1>5, <2>1, <3>1
  <2>2. CASE ~(i <= p)
    <3>1. i - p \in 1..n - p /\ p + (i - p) - 1 = i - 1 BY <1>0, <2>2
    <3> QED BY <1>1, <1>2, <1>4, <1>5, <2>2, <3>1
  <2> QED BY <2>1, <2>2
<1>7. b \o a = l BY <1>3, <1>4, <1>5, <1>6, SeqEqual
<1> QED BY <1>7 DEF a, b, l

(* A function without arguments is the empty sequence.                     *)
LEMMA NoSide == \A f, S : f \in [1..0 -> S] => f = <<>>
<1> TAKE f, S
<1> HAVE f \in [1..0 -> S]
<1>1. f \in Seq(S) BY SeqDef
<1>2. <<>> \in Seq(S) /\ Len(<<>>) = 0 BY EmptySeq
<1>3. Len(f) = 0 BY <1>1, LenProperties
<1> QED BY <1>1, <1>2, <1>3, SeqEqual

(* Nothing is before the beginning of a line, and nothing after its end.   *)
LEMMA AtEdges == \A mem : Line(mem, 0) = <<>> /\ \A n \in Nat : Rest(mem, n, n) = <<>>
<1> TAKE mem
<1>1. Line(mem, 0) \in [1..0 -> {}] BY DEF Line
<1>2. ASSUME NEW n \in Nat PROVE Rest(mem, n, n) \in [1..0 -> {}]
  <2>1. n - n = 0 OBVIOUS
  <2> QED BY <2>1 DEF Rest
<1> QED BY <1>1, <1>2, NoSide

(* What an editor has of a line, and of its steps, in the abstract one.    *)
LEMMA LineFacts ==
    EdInv => /\ len \in Nat /\ pos \in 0..len /\ pos \in Nat
             /\ \A i \in 0..len - 1 : items[i] \in Char
             /\ \A i \in 0..pos - 1 : items[i] \in Char
BY DEF EdInv, EditOK

USE DEF Promise!At, Promise!Editing

(* Opening a line begins one (Start, Begin).                               *)
LEMMA BeginStep == ASSUME EdInv, NEW c \in Char, Start(c) PROVE Promise!Begin(c)
<1>1. ~open /\ open' = TRUE /\ history' = history /\ history_ix' = 0
      /\ pos' = 1 /\ len' = 1 /\ items'[0] = c
      BY EditorAssumption DEF Start
<1>2. Rest(items', 1, 1) = <<>> BY AtEdges
<1>3. Line(items', 1) = <<c>> BY <1>1, OneCharLine
<1> QED BY <1>1, <1>2, <1>3 DEF Promise!Begin, Line, Rest

(* A line of the history is all before the cursor.                         *)
LEMMA LoadedSides ==
    ASSUME NEW mem, NEW entry \in Seq(Char), \A i \in 0..Len(entry) - 1 : mem[i] = entry[i + 1]
    PROVE  Line(mem, Len(entry)) = entry /\ Rest(mem, Len(entry), Len(entry)) = <<>>
<1>1. Len(entry) \in Nat /\ entry \in [1..Len(entry) -> Char] BY LenProperties
<1>2. ASSUME NEW i \in 1..Len(entry) PROVE mem[i - 1] = entry[i]
  <2>1. i - 1 \in 0..Len(entry) - 1 /\ (i - 1) + 1 = i BY <1>1
  <2> QED BY <2>1
<1>3. Line(mem, Len(entry)) = [i \in 1..Len(entry) |-> entry[i]] BY <1>2 DEF Line
<1> QED BY <1>1, <1>3, AtEdges

(* Opening a line with the last one begins with it (StartLast, BeginLast). *)
LEMMA BeginLastStep == ASSUME EdInv, StartLast PROVE Promise!BeginLast
<1>1. ~open /\ open' = TRUE /\ history' = history BY DEF StartLast
<1>2. CASE history = <<>>
  <2>1. history_ix' = 0 /\ len' = 0 /\ pos' = 0 BY <1>2 DEF StartLast
  <2>2. Line(items', 0) = <<>> /\ Rest(items', 0, 0) = <<>> BY AtEdges
  <2> QED BY <1>1, <1>2, <2>1, <2>2 DEF Promise!BeginLast, Line, Rest
<1>3. CASE history # <<>>
  <2> DEFINE entry == history[Len(history)]
  <2>1. Len(history) \in 1..Len(history) BY <1>3, EmptySeq DEF EdInv
  <2>2. entry \in Seq(Char) /\ Len(entry) \in Nat BY <2>1, EntryIsLine
  <2>3. history_ix' = 1 /\ len' = Len(entry) /\ pos' = Len(entry) BY <1>3 DEF StartLast
  <2>4. \A i \in 0..Len(entry) - 1 : items'[i] = entry[i + 1]
    <3> DEFINE room == IF Len(entry) > Grow THEN Grow + Larger(Len(entry), Grow) ELSE Grow
    <3>1. room \in Nat /\ room >= Len(entry) BY <2>2, EditorAssumption DEF Larger
    <3>2. items' = [i \in 0..room - 1 |-> IF i < Len(entry) THEN entry[i + 1] ELSE Junk]
          BY <1>3 DEF StartLast
    <3> HIDE DEF room, entry
    <3> QED BY <2>2, <3>1, <3>2
  <2> HIDE DEF entry
  <2>5. Line(items', Len(entry)) = entry /\ Rest(items', Len(entry), Len(entry)) = <<>>
        BY <2>2, <2>4, LoadedSides
  <2>6. Line(items', pos') = entry /\ Rest(items', pos', len') = <<>> BY <2>3, <2>5
  <2> QED BY <1>1, <1>3, <2>3, <2>6 DEF Promise!BeginLast, Line, Rest, entry
<1> QED BY <1>2, <1>3

(* A key of the history recalls the line next to the one it recalled       *)
(* before.                                                                 *)
LEMMA RecallStep ==
    ASSUME EdInv, Editing, NEW k \in 1..Len(history), k \in {history_ix - 1, history_ix + 1}, rl_buf_from_history(k)
    PROVE  Promise!Recall
<1> DEFINE entry == history[Len(history) - k + 1]
<1>1. Len(history) \in Nat BY LenProperties DEF EdInv
<1>2. Len(history) - k + 1 \in 1..Len(history) /\ Len(history) - k + 1 = Len(history) + 1 - k BY <1>1
<1>3. entry \in Seq(Char) BY <1>2, EntryIsLine
<1>4. history_ix' = k /\ pos' = len' /\ len' = Len(entry)
      /\ \A i \in 0..len' - 1 : items'[i] = entry[i + 1]
      BY RecallInv
<1> HIDE DEF entry
<1>5. Line(items', pos') = entry /\ Rest(items', pos', len') = <<>> BY <1>3, <1>4, LoadedSides
<1>6. entry = history[Len(history) + 1 - k] BY <1>2 DEF entry
<1>7. open /\ open' = open /\ history' = history BY DEF Editing
<1> QED BY <1>4, <1>5, <1>6, <1>7 DEF Promise!Recall, Line, Rest

(* What keeps the memory of the line is no step of the abstract editor.    *)
LEMMA StutterStep == ASSUME Editing, UNCHANGED <<lineVars, history_ix>> PROVE UNCHANGED Promise!vars
BY DEF Promise!vars, Editing, lineVars

(* The keys of the history recall a line, or do nothing.                   *)
LEMMA HistoryStep ==
    ASSUME EdInv, rl_history_prev \/ rl_history_next
    PROVE  [Promise!Next]_Promise!vars
<1>1. Editing BY DEF rl_history_prev, rl_history_next
<1>2. CASE UNCHANGED <<lineVars, history_ix>> BY <1>1, <1>2, StutterStep
<1>3. CASE history_ix + 1 \in 1..Len(history) /\ rl_buf_from_history(history_ix + 1)
  <2>1. Promise!Recall BY <1>1, <1>3, RecallStep
  <2> QED BY <2>1 DEF Promise!Next
<1>4. CASE history_ix - 1 \in 1..Len(history) /\ rl_buf_from_history(history_ix - 1)
  <2>1. Promise!Recall BY <1>1, <1>4, RecallStep
  <2> QED BY <2>1 DEF Promise!Next
<1> QED BY <1>2, <1>3, <1>4, HistoryPrev, HistoryNext

(* A character after a line appends to it.                                 *)
LEMMA AppendedLine ==
    ASSUME NEW mem, NEW mem2, NEW n \in Nat, NEW c \in Char, \A i \in 0..n - 1 : mem[i] \in Char,
           \A i \in 0..n - 1 : mem2[i] = mem[i], mem2[n] = c
    PROVE  Line(mem2, n + 1) = Append(Line(mem, n), c)
<1> DEFINE l == Line(mem, n)
           k == Line(mem2, n + 1)
<1>1. l \in Seq(Char) /\ Len(l) = n /\ \A i \in 1..n : l[i] = mem[i - 1] BY LineIsSeq
<1>2. \A i \in 0..(n + 1) - 1 : mem2[i] \in Char OBVIOUS
<1>3. n + 1 \in Nat OBVIOUS
<1>4. k \in Seq(Char) /\ Len(k) = n + 1 /\ \A i \in 1..n + 1 : k[i] = mem2[i - 1] BY <1>2, <1>3, LineIsSeq
<1> HIDE DEF l, k
<1>5. /\ Append(l, c) \in Seq(Char) /\ Len(Append(l, c)) = n + 1
      /\ \A i \in 1..n : Append(l, c)[i] = l[i]
      /\ Append(l, c)[n + 1] = c
      BY <1>1, AppendProperties
<1>6. ASSUME NEW i \in 1..n + 1 PROVE k[i] = Append(l, c)[i]
  <2>1. CASE i = n + 1
    <3>1. i - 1 = n BY <2>1
    <3> QED BY <1>4, <1>5, <2>1, <3>1
  <2>2. CASE i \in 1..n
    <3>1. i - 1 \in 0..n - 1 BY <2>2
    <3> QED BY <1>1, <1>4, <1>5, <2>2, <3>1
  <2>3. i = n + 1 \/ i \in 1..n OBVIOUS
  <2> QED BY <2>1, <2>2, <2>3
<1>7. k = Append(l, c) BY <1>4, <1>5, <1>6, SeqEqual
<1> QED BY <1>7 DEF l, k

(* The line up to a place is a prefix of it.                               *)
LEMMA PrefixOfLine ==
    ASSUME NEW mem, NEW mem2, NEW n \in Nat, NEW k \in 0..n, \A i \in 0..n - 1 : mem[i] \in Char,
           \A i \in 0..k - 1 : mem2[i] = mem[i]
    PROVE  Line(mem2, k) = SubSeq(Line(mem, n), 1, k)
<1> DEFINE l == Line(mem, n)
           s == Line(mem2, k)
<1>1. l \in Seq(Char) /\ Len(l) = n /\ \A i \in 1..n : l[i] = mem[i - 1] BY LineIsSeq
<1>2. k \in Nat /\ \A i \in 0..k - 1 : mem2[i] \in Char OBVIOUS
<1>3. s \in Seq(Char) /\ Len(s) = k /\ \A i \in 1..k : s[i] = mem2[i - 1] BY <1>2, LineIsSeq
<1> HIDE DEF l, s
<1>4. \A i \in 1..k : l[i] \in Char
  <2> TAKE i \in 1..k
  <2>1. i \in 1..Len(l) BY <1>1
  <2> QED BY <1>1, <2>1, ElementOfSeq
<1>5. 1 \in Int /\ k \in Int OBVIOUS
<1>6. /\ SubSeq(l, 1, k) \in Seq(Char)
      /\ Len(SubSeq(l, 1, k)) = IF 1 <= k THEN k - 1 + 1 ELSE 0
      /\ \A i \in 1..k - 1 + 1 : SubSeq(l, 1, k)[i] = l[1 + i - 1]
      BY <1>4, <1>5, SubSeqProperties
<1>7. Len(SubSeq(l, 1, k)) = k BY <1>2, <1>6
<1>8. ASSUME NEW i \in 1..k PROVE s[i] = SubSeq(l, 1, k)[i]
  <2>1. i \in 1..k - 1 + 1 /\ 1 + i - 1 = i /\ i \in 1..n /\ i - 1 \in 0..k - 1 OBVIOUS
  <2>2. SubSeq(l, 1, k)[i] = l[i] BY <1>6, <2>1
  <2> QED BY <1>1, <1>3, <2>1, <2>2
<1>9. s = SubSeq(l, 1, k) BY <1>3, <1>6, <1>7, <1>8, SeqEqual
<1> QED BY <1>9 DEF l, s

(* Moving what follows one place back drops the first character of it.     *)
LEMMA TailOfRest ==
    ASSUME NEW mem, NEW mem2, NEW n \in Nat, NEW p \in 0..n - 1, \A i \in 0..n - 1 : mem[i] \in Char,
           \A i \in p..n - 2 : mem2[i] = mem[i + 1]
    PROVE  Rest(mem, p, n) # <<>> /\ Rest(mem2, p, n - 1) = Tail(Rest(mem, p, n))
<1> DEFINE r == Rest(mem, p, n)
           s == Rest(mem2, p, n - 1)
<1>1. p \in 0..n OBVIOUS
<1>2. r \in Seq(Char) /\ Len(r) = n - p /\ \A i \in 1..n - p : r[i] = mem[p + i - 1] BY <1>1, RestIsSeq
<1> HIDE DEF r
<1>3. r # <<>> BY <1>2, EmptySeq
<1>4. Tail(r) \in Seq(Char) /\ Len(Tail(r)) = Len(r) - 1 /\ \A i \in 1..Len(Tail(r)) : Tail(r)[i] = r[i + 1]
      BY <1>2, <1>3, HeadTailProperties
<1>5. Len(Tail(r)) = n - 1 - p BY <1>2, <1>4
<1>6. ASSUME NEW i \in 1..n - 1 - p PROVE mem2[p + i - 1] = Tail(r)[i]
  <2>1. p + i - 1 \in p..n - 2 /\ (p + i - 1) + 1 = p + (i + 1) - 1 /\ i + 1 \in 1..n - p OBVIOUS
  <2>2. mem2[p + i - 1] = mem[p + (i + 1) - 1] BY <2>1
  <2> QED BY <1>2, <1>4, <1>5, <2>1, <2>2
<1>7. Tail(r) = [i \in 1..n - 1 - p |-> Tail(r)[i]] BY <1>4, <1>5, LenProperties
<1>8. s = Tail(r) BY <1>6, <1>7 DEF Rest
<1> QED BY <1>3, <1>8 DEF r, s

(* Inserting a character types it (rl_insert_char, Type).                  *)
LEMMA TypeStep == ASSUME EdInv, NEW c \in Char, rl_insert_char(c) PROVE Promise!Type(c)
<1>1. len \in Nat /\ pos \in 0..len /\ pos \in Nat /\ (\A i \in 0..pos - 1 : items[i] \in Char) BY LineFacts
<1>2. open /\ open' = open /\ history' = history /\ history_ix' = history_ix
      /\ len' = len + 1 /\ pos' = pos + 1
      BY DEF rl_insert_char, Editing
<1> DEFINE room == Ensured(len, 2)
<1>3. room \in Nat /\ room >= len + 2 /\ len <= capacity
  <2>1. len \in 0..capacity /\ capacity \in Nat BY DEF EdInv, EditOK
  <2> QED BY <2>1, RoomFor
<1>4. items' = [i \in 0..room - 1 |-> IF i = len + 1 THEN Nul
                                      ELSE IF i = pos THEN c
                                      ELSE IF i \in pos + 1..len THEN items[i - 1]
                                      ELSE Cell(i)]
      BY DEF rl_insert_char
<1> HIDE DEF room
<1>5. items'[pos] = c BY <1>1, <1>3, <1>4
<1>6. ASSUME NEW i \in 0..pos - 1 PROVE items'[i] = items[i]
  <2>1. capacity \in Nat BY DEF EdInv, EditOK
  <2>2. Cell(i) = items[i] BY <1>1, <1>3, <2>1 DEF Cell
  <2> QED BY <1>1, <1>3, <1>4, <2>2
<1>7. ASSUME NEW i \in 1..len - pos PROVE items'[(pos + 1) + i - 1] = items[pos + i - 1]
  <2> DEFINE j == (pos + 1) + i - 1
  <2>1. j \in pos + 1..len /\ j \in 0..room - 1 /\ j - 1 = pos + i - 1 /\ j # len + 1 /\ j # pos
        BY <1>1, <1>3
  <2> HIDE DEF j
  <2>2. items'[j] = items[j - 1] BY <1>4, <2>1
  <2> QED BY <2>1, <2>2 DEF j
<1>8. Line(items', pos + 1) = Append(Line(items, pos), c) BY <1>1, <1>5, <1>6, AppendedLine
<1>9. Rest(items', pos + 1, len + 1) = Rest(items, pos, len)
  <2>1. (len + 1) - (pos + 1) = len - pos BY <1>1
  <2> QED BY <1>7, <2>1 DEF Rest
<1> QED BY <1>2, <1>8, <1>9 DEF Promise!Type, Line, Rest

(* What is cut out is the end of what is before the cursor.                *)
LEMMA CutOutSides ==
    ASSUME EdInv, NEW b \in 1..pos, CutOut(b, pos)
    PROVE  /\ open /\ open' = open /\ history' = history /\ history_ix' = history_ix
           /\ Line(items', pos') = SubSeq(Line(items, pos), 1, b)
           /\ Rest(items', pos', len') = Rest(items, pos, len)
<1>1. len \in Nat /\ pos \in 0..len /\ pos \in Nat /\ (\A i \in 0..pos - 1 : items[i] \in Char) BY LineFacts
<1>2. open /\ open' = open /\ history' = history /\ history_ix' = history_ix
      /\ pos' = b /\ len' = len - (pos - b)
      /\ (\A i \in 0..b - 1 : items'[i] = items[i])
      /\ (\A i \in b..len' - 1 : items'[i] = items[i + (pos - b)])
      BY DEF CutOut, Editing
<1>3. b \in 0..pos BY <1>1
<1>4. Line(items', b) = SubSeq(Line(items, pos), 1, b) BY <1>1, <1>2, <1>3, PrefixOfLine
<1>5. len' - b = len - pos BY <1>1, <1>2
<1>6. ASSUME NEW i \in 1..len - pos PROVE items'[b + i - 1] = items[pos + i - 1]
  <2>1. b + i - 1 \in b..len' - 1 /\ (b + i - 1) + (pos - b) = pos + i - 1 BY <1>1, <1>2
  <2> QED BY <1>2, <2>1
<1>7. Rest(items', b, len') = Rest(items, pos, len) BY <1>5, <1>6 DEF Rest
<1> QED BY <1>2, <1>4, <1>7

(* Deleting back rubs a character out (rl_delete_char_back, Rubout).       *)
LEMMA RuboutStep == ASSUME EdInv, pos > 1, CutOut(pos - 1, pos) PROVE Promise!Rubout
<1>1. pos \in Nat /\ (\A i \in 0..pos - 1 : items[i] \in Char) BY LineFacts
<1>2. Len(Line(items, pos)) = pos BY <1>1, LineIsSeq
<1>3. pos - 1 \in 1..pos BY <1>1
<1>4. /\ open /\ open' = open /\ history' = history /\ history_ix' = history_ix
      /\ Line(items', pos') = SubSeq(Line(items, pos), 1, pos - 1)
      /\ Rest(items', pos', len') = Rest(items, pos, len)
      BY <1>3, CutOutSides
<1>5. Line(items', pos') = SubSeq(Line(items, pos), 1, Len(Line(items, pos)) - 1) /\ Len(Line(items, pos)) > 1
      BY <1>2, <1>4
<1> QED BY <1>4, <1>5 DEF Promise!Rubout, Line, Rest

(* Deleting a word rubs it out (rl_delete_word_back, RuboutWord).          *)
LEMMA RuboutWordStep ==
    ASSUME EdInv, NEW m \in 1..pos, NEW n \in 1..m,
           StopsAt(m, pos, Blanks), StopsAt(n, m, Char \ Blanks), CutOut(n, pos)
    PROVE  Promise!RuboutWord
<1> DEFINE b == Line(items, pos)
<1>1. pos \in Nat /\ (\A i \in 0..pos - 1 : items[i] \in Char) BY LineFacts
<1>2. Len(b) = pos /\ \A i \in 1..pos : b[i] = items[i - 1] BY <1>1, LineIsSeq
<1>3. n \in 1..pos BY <1>1
<1>4. /\ open /\ open' = open /\ history' = history /\ history_ix' = history_ix
      /\ Line(items', pos') = SubSeq(b, 1, n)
      /\ Rest(items', pos', len') = Rest(items, pos, len)
      BY <1>3, CutOutSides
<1> HIDE DEF b
<1>5. ASSUME NEW i \in m + 1..Len(b) PROVE b[i] \in Blanks
  <2>1. i \in 1..pos /\ i - 1 \in m..pos - 1 BY <1>1, <1>2
  <2> QED BY <1>2, <2>1 DEF StopsAt
<1>6. m > 1 => b[m] \notin Blanks BY <1>2 DEF StopsAt
<1>7. ASSUME NEW i \in n + 1..m PROVE b[i] \notin Blanks
  <2>1. i \in 1..pos /\ i - 1 \in n..m - 1 BY <1>1
  <2> QED BY <1>2, <2>1 DEF StopsAt
<1>8. n > 1 => b[n] \in Blanks
  <2>1. n - 1 \in 0..pos - 1 BY <1>1
  <2> QED BY <1>1, <1>2, <1>3, <2>1 DEF StopsAt
<1>9. m \in 1..Len(b) BY <1>2
<1> QED BY <1>4, <1>5, <1>6, <1>7, <1>8, <1>9 DEF Promise!RuboutWord, Line, Rest, b

(* Deleting forward deletes what is after the cursor                       *)
(* (rl_delete_char_forward, Delete).                                       *)
LEMMA DeleteStep ==
    ASSUME EdInv, Editing, UNCHANGED <<pos, history_ix>>, pos < len, len' = len - 1,
           \A i \in 0..pos - 1 : items'[i] = items[i],
           \A i \in pos..len' - 1 : items'[i] = items[i + 1]
    PROVE  Promise!Delete
<1>1. len \in Nat /\ pos \in 0..len /\ pos \in Nat /\ (\A i \in 0..len - 1 : items[i] \in Char) BY LineFacts
<1>2. Line(items', pos) = Line(items, pos) BY <1>1, LineAgain
<1>3. pos \in 0..len - 1 /\ \A i \in pos..len - 2 : items'[i] = items[i + 1]
  <2>1. len' - 1 = len - 2 BY <1>1
  <2> QED BY <1>1, <2>1
<1>4. Rest(items, pos, len) # <<>> /\ Rest(items', pos, len - 1) = Tail(Rest(items, pos, len))
      BY <1>1, <1>3, TailOfRest
<1>5. open /\ open' = open /\ history' = history /\ history_ix' = history_ix /\ pos' = pos /\ len' = len - 1 BY DEF Editing
<1> QED BY <1>2, <1>4, <1>5 DEF Promise!Delete, Line, Rest

(* What is before a place in a line is in the line.                        *)
LEMMA FirstOfLine == \A n \in Nat : \A p \in 0..n : p \in Nat /\ \A i \in 0..p - 1 : i \in 0..n - 1
OBVIOUS

(* Keys that move keep what is before the cursor and after it, joined.     *)
LEMMA MoveStep == ASSUME EdInv, Moves PROVE [Promise!Next]_Promise!vars
<1>1. len \in Nat /\ pos \in 0..len /\ pos \in Nat /\ (\A i \in 0..len - 1 : items[i] \in Char)
      /\ (pos = 0 <=> len = 0)
      BY LineFacts DEF EdInv, EditOK
<1>2. Editing /\ UNCHANGED <<items, len, history_ix>> /\ pos' \in 0..len /\ (pos # 0 => pos' # 0) BY MovesInv
<1>3. CASE pos = 0
  <2>1. pos' = pos BY <1>1, <1>2, <1>3
  <2> QED BY <1>2, <2>1 DEF Promise!vars, Editing
<1>4. CASE pos # 0
  <2>1. Line(items, pos) \o Rest(items, pos, len) = Line(items, len) BY <1>1, SidesJoined
  <2>2. Line(items, pos') \o Rest(items, pos', len) = Line(items, len) BY <1>1, <1>2, SidesJoined
  <2>0. len \in Nat /\ pos' \in 0..len BY <1>1, <1>2
  <2>9. pos' \in Nat /\ \A i \in 0..pos' - 1 : i \in 0..len - 1 BY <2>0, FirstOfLine
  <2>3. \A i \in 0..pos' - 1 : items[i] \in Char BY <1>1, <2>9
  <2>4. Len(Line(items, pos)) = pos BY <1>1, LineIsSeq
  <2>5. Len(Line(items, pos')) = pos' BY <2>3, <2>9, LineIsSeq
  <2>6. Len(Line(items, pos)) >= 1 /\ Len(Line(items, pos')) >= 1 BY <1>1, <1>2, <1>4, <2>4, <2>5, <2>9
  <2>7. items' = items /\ len' = len /\ open /\ open' = open /\ history' = history /\ history_ix' = history_ix
        BY <1>2 DEF Editing
  <2>8. Promise!Move BY <2>1, <2>2, <2>6, <2>7 DEF Promise!Move, Line, Rest
  <2> QED BY <2>8 DEF Promise!Next
<1> QED BY <1>3, <1>4

(* Giving a line up abandons it; entering it adds it to the lines.         *)
LEMMA ClosedStep ==
    ASSUME EdInv, Closed
    PROVE  /\ UNCHANGED history => Promise!Abandon
           /\ history' = Append(history, Entered) => Promise!Enter
<1>1. open /\ open' = FALSE /\ history_ix' = 0 /\ pos' = 0 /\ len' = 0 BY DEF Closed
<1>2. Line(items', 0) = <<>> /\ Rest(items', 0, 0) = <<>> BY AtEdges
<1>3. Promise!At(<<>>, <<>>) BY <1>1, <1>2 DEF Line, Rest
<1>4. len \in Nat /\ pos \in 0..len /\ (\A i \in 0..len - 1 : items[i] \in Char) BY LineFacts
<1>5. Entered = Line(items, pos) \o Rest(items, pos, len) BY <1>4, EnteredIsLine, SidesJoined
<1>6. UNCHANGED history => Promise!Abandon BY <1>1, <1>3 DEF Promise!Abandon
<1>7. history' = Append(history, Entered) => Promise!Enter BY <1>1, <1>3, <1>5 DEF Promise!Enter, Line, Rest
<1> QED BY <1>6, <1>7

(* Every step of the editor is one of the abstract editor, or none.        *)
LEMMA EdStep == EdInv /\ [EdNext]_edVars => [Promise!Next]_Promise!vars
<1> SUFFICES ASSUME EdInv, [EdNext]_edVars PROVE [Promise!Next]_Promise!vars OBVIOUS
<1>1. CASE \E c \in Char : Start(c)
  <2>1. \E c \in Char : Promise!Begin(c) BY <1>1, BeginStep
  <2> QED BY <2>1 DEF Promise!Next
<1>2. CASE StartLast
  <2>1. Promise!BeginLast BY <1>2, BeginLastStep
  <2> QED BY <2>1 DEF Promise!Next
<1>3. CASE Enter
  <2>1. Promise!Enter BY <1>3, ClosedStep DEF Enter
  <2> QED BY <2>1 DEF Promise!Next
<1>4. CASE ClsScr \/ UNCHANGED edVars BY <1>4 DEF ClsScr, edVars, lineVars, Promise!vars
<1>7. CASE MoveRefused
  <2>1. Promise!Abandon BY <1>7, ClosedStep DEF MoveRefused, GiveUp
  <2> QED BY <2>1 DEF Promise!Next
<1>5. ASSUME Editing, Same PROVE UNCHANGED Promise!vars BY <1>5, StutterStep DEF Same
<1>6. CASE Edit
  <2>1. CASE \E c \in Char : rl_insert_char(c)
    <3>1. \E c \in Char : Promise!Type(c) BY <2>1, TypeStep
    <3> QED BY <3>1 DEF Promise!Next
  <2>2. CASE rl_history_prev \/ rl_history_next BY <2>2, HistoryStep
  <2>3. CASE rl_delete_char_back
    <3>1. CASE pos > 1 /\ CutOut(pos - 1, pos)
      <4>1. Promise!Rubout BY <3>1, RuboutStep
      <4> QED BY <4>1 DEF Promise!Next
    <3> QED BY <1>5, <2>3, <3>1, DeleteBack
  <2>4. CASE rl_delete_char_forward
    <3>1. CASE /\ Editing /\ UNCHANGED <<pos, history_ix>> /\ pos < len /\ len' = len - 1
               /\ \A i \in 0..pos - 1 : items'[i] = items[i]
               /\ \A i \in pos..len' - 1 : items'[i] = items[i + 1]
      <4>1. Promise!Delete BY <3>1, DeleteStep
      <4> QED BY <4>1 DEF Promise!Next
    <3> QED BY <1>5, <2>4, <3>1, DeleteForward
  <2>5. CASE rl_delete_word_back
    <3>1. CASE \E m \in 1..pos : \E n \in 1..m :
                  StopsAt(m, pos, Blanks) /\ StopsAt(n, m, Char \ Blanks) /\ CutOut(n, pos)
      <4>1. Promise!RuboutWord BY <3>1, RuboutWordStep
      <4> QED BY <4>1 DEF Promise!Next
    <3> QED BY <1>5, <2>5, <3>1, DeleteWordBack
  <2>6. CASE Moves BY <2>6, MoveStep
  <2>7. CASE rl_erase_and_cleanup
    <3>1. Promise!Abandon BY <2>7, ClosedStep DEF rl_erase_and_cleanup, GiveUp
    <3> QED BY <3>1 DEF Promise!Next
  <2> QED BY <1>6, <2>1, <2>2, <2>3, <2>4, <2>5, <2>6, <2>7 DEF Edit, Moves
<1> QED BY <1>1, <1>2, <1>3, <1>4, <1>6, <1>7 DEF EdNext

-----------------------------------------------------------------------------
(* The visual mode: a step of it is one of the editor, or leaves it.       *)

(* Nothing else in the visual mode changes the editor.                     *)
LEMMA EditorOnly == [Next]_vars => [EdNext]_edVars
<1> SUFFICES ASSUME [Next]_vars PROVE [EdNext]_edVars OBVIOUS
<1>1. CASE EditLine \/ LineFails BY <1>1 DEF EditLine, LineFails, EdNext
<1>2. CASE EnterLine BY <1>2 DEF EnterLine, EdNext
<1>3. CASE UNCHANGED vars BY <1>3 DEF vars
<1>4. CASE KeyCtrl_F \/ KeyCtrl_B \/ KeyEnter BY <1>4 DEF KeyCtrl_F, KeyCtrl_B, KeyEnter, Scrolled, EditorIdle
<1>5. CASE Resize \/ RunLine BY <1>5 DEF Resize, RunLine, EditorIdle
<1>6. CASE ui_vi_show_session \/ ui_vi_show_session_default \/ ShowError
      BY <1>6 DEF ui_vi_show_session, ui_vi_show_session_default, ShowError, EditorIdle, EdNext
<1>7. CASE NextPage \/ PrevPage \/ QuitPager BY <1>7 DEF NextPage, PrevPage, QuitPager, Paging, EditorIdle
<1> QED BY <1>1, <1>2, <1>3, <1>4, <1>5, <1>6, <1>7 DEF Next

(* So the visual mode has an editor in it.                                 *)
LEMMA EditorSpec == Spec => EdSpec
<1>1. ViInit => Init BY DEF ViInit
<1> QED BY <1>1, EditorOnly, PTL DEF Spec, EdSpec

(* Memory: every character of the line was typed or recalled, and the      *)
(* cursor and the place in the history are in what they index.             *)
THEOREM EditorInvariant == EdSpec => []EdInv
<1> QED BY InitInv, NextInv, PTL DEF EdSpec

(* The terminal shows the line that is edited, and its cursor at its       *)
(* cursor, for every terminal, line and sequence of keys: as long as no    *)
(* line reached the last column since the screen was cleared, and no move  *)
(* was cut since the line was drawn (rl_redraw_line, rl_move_cursor).      *)
THEOREM RowInvariant == Spec => []RowShowsLine
<1>1. Init => RowShowsLine BY DEF Init, RowShowsLine
<1> QED BY <1>1, NextRow, EditorSpec, EditorInvariant, PTL DEF EdSpec

(* The memory of the line, moved about by memmove, is an editor of what is *)
(* before the cursor and what is after it (reditline.c).                   *)
THEOREM ZipperRefined == Spec => ActsAsZipper
<1>1. Init => Promise!Init
  <2> SUFFICES ASSUME Init PROVE Promise!Init OBVIOUS
  <2>1. pos = 0 /\ len = 0 /\ history = <<>> /\ history_ix = 0 /\ open = FALSE BY DEF Init
  <2>2. Line(items, 0) = <<>> /\ Rest(items, 0, 0) = <<>> BY AtEdges
  <2> QED BY <2>1, <2>2 DEF Promise!Init, Line, Rest
<1> QED BY <1>1, EdStep, EditorSpec, EditorInvariant, PTL DEF EdSpec, ActsAsZipper, Promise!Spec

-----------------------------------------------------------------------------
(* What the window shows.                                                  *)

(* The three cases of the lines that a window shows                        *)
(* (show_session_get_show_range).                                          *)
LEMMA ShowRange ==
    ASSUME NEW n \in Nat, NEW c \in Nat, NEW l \in 1..c
    PROVE  LET r == show_range(n, c, l)
           IN  \/ c <= n /\ r.beg = 1 /\ r.end = c /\ r.line = l
               \/ c > n /\ c - l >= n /\ r.beg = l /\ r.end = l + n /\ r.line = l
               \/ c > n /\ c - l < n /\ r.beg = c - n /\ r.end = c /\ r.line = c - n
BY DEF show_range

(* The smaller of two numbers.                                             *)
LEMMA MinOfTwo == \A a, b \in Nat : Min({a, b}) = IF a <= b THEN a ELSE b
<1> TAKE a, b \in Nat
<1> DEFINE m == IF a <= b THEN a ELSE b
<1>1. m \in {a, b} /\ \A y \in {a, b} : m <= y OBVIOUS
<1>2. \A x \in {a, b} : (\A y \in {a, b} : x <= y) => x = m OBVIOUS
<1> HIDE DEF m
<1>3. (CHOOSE x \in {a, b} : \A y \in {a, b} : x <= y) = m BY <1>1, <1>2
<1> QED BY <1>3 DEF Min, m

(* The rows that are stored are never more than there were, and stay       *)
(* numbers of rows.                                                        *)
LEMMA Rows ==
    /\ \A n \in 0..Size - 1, w \in Windows : UpdatedRows(n, w) \in 0..n
    /\ \A w \in Windows : w \in 0..Size - 1
<1>1. \A w \in Windows : w \in 0..Size - 1 BY ViAssumption
<1>2. ASSUME NEW n \in 0..Size - 1, NEW w \in Windows PROVE UpdatedRows(n, w) \in 0..n
  <2> DEFINE left == (w + Size - 2) % Size
  <2>1. w + Size - 2 \in Nat /\ Size \in Nat \ {0} BY <1>1, ViAssumption
  <2>2. left \in Nat BY <2>1
  <2> HIDE DEF left
  <2>3. Min({n, left}) = IF n <= left THEN n ELSE left BY <2>2, MinOfTwo, ViAssumption
  <2> QED BY <2>2, <2>3 DEF UpdatedRows, left
<1> QED BY <1>1, <1>2

TextOK ==
    /\ window \in Windows /\ nrows \in 0..Size - 1
    /\ count \in 0..MaxText /\ line \in 1..MaxText
    /\ count > 0 => line <= count

PagesOK ==
    /\ \E S : ps \in Seq(S)
    /\ mode \in {"msg", "notice"} => pagenum \in 0..Len(ps) - 1

(* A key that scrolls leaves a current line.                               *)
LEMMA ScrolledLine ==
    ASSUME TextOK, NEW how, NEW to, Scrolled(how, to), count > 0 => to \in 1..count
    PROVE  TextOK'
<1>1. window' = window /\ nrows' = nrows /\ count' = count /\ line' = IF count = 0 THEN line ELSE to
      BY DEF Scrolled, winVars
<1>2. count \in 0..MaxText /\ MaxText \in Nat BY ViAssumption DEF TextOK
<1>3. CASE count = 0 BY <1>1, <1>3 DEF TextOK
<1>4. CASE count # 0
  <2>1. count > 0 /\ line' = to BY <1>1, <1>2, <1>4
  <2>2. line' \in 1..MaxText /\ line' <= count BY <1>2, <2>1
  <2> QED BY <1>1, <2>2 DEF TextOK
<1> QED BY <1>3, <1>4

(* Where keys that scroll go: at most a window away, and not out of the    *)
(* buffer.                                                                 *)
LEMMA KeysInText ==
    ASSUME TextOK, count > 0
    PROVE  /\ keystroke_ctrl_f(nrows, count, line) \in line..count
           /\ keystroke_ctrl_f(nrows, count, line) <= line + nrows
           /\ keystroke_ctrl_b(nrows, line) \in 1..line
           /\ keystroke_ctrl_b(nrows, line) >= line - nrows
<1>1. nrows \in Nat /\ count \in Nat /\ line \in 1..count BY ViAssumption DEF TextOK
<1>2. keystroke_ctrl_f(nrows, count, line) = IF line + nrows <= count THEN line + nrows ELSE count
      BY <1>1, MinOfTwo DEF keystroke_ctrl_f
<1> QED BY <1>1, <1>2 DEF keystroke_ctrl_b

(* The current line stays in the buffer, whatever the window is resized    *)
(* to.                                                                     *)
LEMMA TextInv == ASSUME TextOK, [Next]_vars PROVE TextOK'
<1>1. nrows \in Nat /\ count \in Nat /\ MaxText \in Nat /\ 1 \in 1..MaxText BY ViAssumption DEF TextOK
<1>2. CASE KeyCtrl_F \/ KeyCtrl_B
  <2>1. count > 0 => /\ keystroke_ctrl_f(nrows, count, line) \in 1..count
                     /\ keystroke_ctrl_b(nrows, line) \in 1..count
    <3> HAVE count > 0
    <3>1. line \in 1..count BY DEF TextOK
    <3> QED BY <1>1, <3>1, KeysInText
  <2> QED BY <1>2, <2>1, ScrolledLine DEF KeyCtrl_F, KeyCtrl_B
<1>3. CASE KeyEnter
  <2>1. count > 0 => line \in 1..count BY DEF TextOK
  <2> QED BY <1>3, <2>1, ScrolledLine DEF KeyEnter
<1>4. CASE EditLine \/ LineFails \/ EnterLine BY <1>4 DEF EditLine, LineFails, EnterLine, viVars, winVars, textVars, TextOK
<1>5. CASE Resize BY <1>5 DEF Resize, textVars, TextOK
<1>6. CASE RunLine
  <2>1. window' = window /\ nrows' \in 0..Size - 1 BY <1>6, Rows DEF RunLine, TextOK
  <2>2. count' \in 0..MaxText /\ line' \in 1..MaxText /\ (count' > 0 => line' <= count')
        BY <1>1, <1>6 DEF RunLine, TextOK
  <2> QED BY <2>1, <2>2 DEF TextOK
<1>7. CASE ui_vi_show_session
  <2>1. nrows' = UpdatedRows(nrows, window) /\ window' = window /\ count' = count /\ line' = line
        BY <1>7 DEF ui_vi_show_session, textVars
  <2>2. nrows' \in 0..nrows BY <2>1, Rows DEF TextOK
  <2>3. nrows' \in 0..Size - 1 BY <2>2, ViAssumption DEF TextOK
  <2> QED BY <2>1, <2>3 DEF TextOK
<1>8. CASE ui_vi_show_session_default
  <2>1. window' = window /\ nrows' = nrows /\ count' = count
        BY <1>8 DEF ui_vi_show_session_default, winVars
  <2>2. CASE count = 0 BY <1>8, <2>1, <2>2 DEF ui_vi_show_session_default, TextOK
  <2>3. CASE count # 0
    <3>1. line \in 1..count BY <1>1, <2>3 DEF TextOK
    <3>2. line' = show_range(nrows, count, line).line BY <1>8, <2>3 DEF ui_vi_show_session_default
    <3>3. line' \in 1..count BY <1>1, <3>1, <3>2, ShowRange
    <3> QED BY <1>1, <2>1, <3>3 DEF TextOK
  <2> QED BY <2>2, <2>3
<1>9. CASE ShowError BY <1>9 DEF ShowError, winVars, TextOK
<1>10. CASE NextPage \/ PrevPage \/ QuitPager
       BY <1>10 DEF NextPage, PrevPage, QuitPager, Paging, winVars, textVars, TextOK
<1>11. CASE UNCHANGED vars BY <1>11 DEF vars, viVars, winVars, textVars, TextOK
<1> QED BY <1>2, <1>3, <1>4, <1>5, <1>6, <1>7, <1>8, <1>9, <1>10, <1>11 DEF Next

(* A page more.                                                            *)
LEMMA PageAdded ==
    ASSUME NEW page, \E S : ps \in Seq(S)
    PROVE  /\ Len(ps) \in Nat
           /\ Len(Append(ps, page)) = Len(ps) + 1
           /\ \E S : Append(ps, page) \in Seq(S)
<1>1. PICK S : ps \in Seq(S) BY ONLY \E S : ps \in Seq(S)
<1>2. ps \in Seq(S \cup {page}) BY <1>1, SeqMonotonic
<1>3. page \in S \cup {page} OBVIOUS
<1> QED BY <1>2, <1>3, AppendProperties, LenProperties

(* The pager is opened with one page (ui_vi_flush_msg_read_input).         *)
LEMMA OnePage == \A m, how : OpenPager(m, how) => (\E S : ps' \in Seq(S)) /\ Len(ps') = 1 /\ pagenum' = 0
<1> TAKE m, how
<1> HAVE OpenPager(m, how)
<1> DEFINE page == get_next_page((nrows' + Size - 1) % Size, Width, m, 1)
<1>1. ps' = <<page>> /\ pagenum' = 0 BY DEF OpenPager
<1> HIDE DEF page
<1>2. <<page>> \in Seq({page}) /\ Len(<<page>>) = 1 OBVIOUS
<1> QED BY <1>1, <1>2

(* The page that is shown is one of the pages.                             *)
LEMMA PagesInv == ASSUME PagesOK, [Next]_vars PROVE PagesOK'
<1>1. CASE UNCHANGED <<ps, pagenum>> /\ (mode' = mode \/ mode' \notin {"msg", "notice"}) BY <1>1 DEF PagesOK
<1>2. CASE \E m, how : OpenPager(m, how)
  <2>1. (\E S : ps' \in Seq(S)) /\ Len(ps') = 1 /\ pagenum' = 0 BY <1>2, OnePage
  <2>2. pagenum' \in 0..Len(ps') - 1 BY <2>1
  <2> QED BY <2>1, <2>2 DEF PagesOK
<1>3. CASE NextPage
  <2> DEFINE page == get_next_page(PageRows, Width, msg, LastPage.next)
  <2>1. pagenum' = pagenum + 1 /\ ps' = (IF Len(ps) = pagenum' THEN Append(ps, page) ELSE ps)
        /\ SpaceTurns(Len(ps), pagenum, Left) /\ mode \in {"msg", "notice"}
        BY <1>3 DEF NextPage, Paging
  <2> HIDE DEF page
  <2>2. Len(ps) \in Nat /\ Len(Append(ps, page)) = Len(ps) + 1 /\ (\E S : Append(ps, page) \in Seq(S))
        BY PageAdded DEF PagesOK
  <2>3. pagenum \in 0..Len(ps) - 1 BY <2>1 DEF PagesOK
  <2>4. \E S : ps' \in Seq(S) BY <2>1, <2>2 DEF PagesOK
  <2>5. pagenum' \in 0..Len(ps') - 1
    <3>1. CASE Len(ps) = pagenum'
      <4>1. Len(ps') = Len(ps) + 1 BY <2>1, <2>2, <3>1
      <4> QED BY <2>1, <2>2, <2>3, <3>1, <4>1
    <3>2. CASE Len(ps) # pagenum'
      <4>1. ps' = ps BY <2>1, <3>2
      <4> QED BY <2>1, <2>2, <2>3, <3>2, <4>1
    <3> QED BY <3>1, <3>2
  <2> QED BY <2>4, <2>5 DEF PagesOK
<1>4. CASE PrevPage
  <2>1. pagenum > 0 /\ pagenum' = pagenum - 1 /\ ps' = ps /\ mode' = mode BY <1>4 DEF PrevPage
  <2>2. mode \in {"msg", "notice"} => pagenum' \in 0..Len(ps) - 1 BY <2>1 DEF PagesOK
  <2> QED BY <2>1, <2>2 DEF PagesOK
<1>5. CASE QuitPager
  <2>1. ps' = <<>> /\ mode' \notin {"msg", "notice"} BY <1>5 DEF QuitPager, Goto
  <2>2. <<>> \in Seq({}) BY EmptySeq
  <2> QED BY <2>1, <2>2 DEF PagesOK
<1>6. CASE KeyCtrl_F \/ KeyCtrl_B \/ KeyEnter
      BY <1>1, <1>6 DEF KeyCtrl_F, KeyCtrl_B, KeyEnter, Scrolled, Goto, msgVars
<1>7. CASE EditLine \/ LineFails \/ EnterLine \/ Resize \/ RunLine
      BY <1>1, <1>7 DEF EditLine, LineFails, EnterLine, Resize, RunLine, Goto, viVars, msgVars
<1>8. CASE ui_vi_show_session \/ ui_vi_show_session_default
  <2>1. (\E m, how : OpenPager(m, how)) \/ (UNCHANGED <<ps, pagenum>> /\ mode' \notin {"msg", "notice"})
        BY <1>8 DEF ui_vi_show_session, ui_vi_show_session_default, Goto, msgVars
  <2> QED BY <1>1, <1>2, <2>1
<1>9. CASE ShowError BY <1>1, <1>9 DEF ShowError, Goto
<1>10. CASE UNCHANGED vars BY <1>1, <1>10 DEF vars, viVars, msgVars
<1> QED BY <1>3, <1>4, <1>5, <1>6, <1>7, <1>8, <1>9, <1>10 DEF Next

(* The first line is the current one at first.                             *)
LEMMA StartsInText == ViInit => TextOK
<1> SUFFICES ASSUME ViInit PROVE TextOK OBVIOUS
<1>1. window \in Windows /\ nrows = window BY ViAssumption DEF ViInit
<1>2. nrows \in 0..Size - 1 BY <1>1, Rows
<1>3. count \in 0..MaxText /\ line = 1 /\ 1 \in 1..MaxText BY ViAssumption DEF ViInit
<1> QED BY <1>1, <1>2, <1>3, ViAssumption DEF TextOK

(* Every state is of its type: cursors, indexes, current line, rows and    *)
(* page are in what they index.                                            *)
THEOREM TypeCorrect == Spec => []TypeOK
<1>1. ViInit => PagesOK
  <2> SUFFICES ASSUME ViInit PROVE PagesOK OBVIOUS
  <2>1. ps \in Seq({}) /\ mode = "show" BY EmptySeq DEF ViInit
  <2> QED BY <2>1 DEF PagesOK
<1>2. EdInv /\ TextOK /\ PagesOK => TypeOK BY DEF EdInv, TextOK, PagesOK, TypeOK
<1> QED BY <1>1, <1>2, StartsInText, TextInv, PagesInv, EditorSpec, EditorInvariant, PTL DEF Spec

-----------------------------------------------------------------------------
(* Scrolling.  What a window shows is told by the current line, until keys *)
(* move it; and what is shown is forgotten where anything else may change  *)
(* the buffer, the size of the window or what is on it.                    *)

Whole(s)   == s[1] = 1 /\ s[2] = count
InRange(s) == 1 <= s[1] /\ s[1] <= s[2] /\ s[2] <= count
Span(s)    == s[2] - s[1]

ScrollInv ==
    /\ mode \in {"keys", "default"} => msg = NoMsg
    /\ mode \in {"run", "msg", "notice"} \/ msg # NoMsg => shown = NotShown
    /\ shown \in (Nat \X Nat)
    /\ shown # NotShown =>
          /\ InRange(shown)
          /\ mode = "keys" => Whole(shown) \/ (line = shown[1] /\ Span(shown) = nrows)
          /\ mode \in {"show", "default"} /\ scroll = "forward" => line \in shown[1]..shown[2]
          /\ mode \in {"show", "default"} /\ scroll = "back" =>
                Whole(shown) \/ (line <= shown[1] /\ line >= shown[1] - Span(shown))

(* What nothing shown is.                                                  *)
LEMMA NothingShown == NotShown \in Nat \X Nat /\ Span(NotShown) = -1
BY DEF NotShown, Span

(* Where nothing is shown there is nothing to keep.                        *)
LEMMA Forgotten ==
    ASSUME shown' = NotShown, mode' \in {"keys", "default"} => msg' = NoMsg
    PROVE  ScrollInv'
BY NothingShown DEF ScrollInv

(* The keys that scroll go to a line that what is shown reaches.           *)
LEMMA KeyScrolls ==
    ASSUME TextOK, ScrollInv, KeyCtrl_F \/ KeyCtrl_B \/ KeyEnter
    PROVE  ScrollInv'
<1>1. mode = "keys" /\ mode' = "show" /\ msg' = msg /\ msg = NoMsg
      /\ shown' = shown /\ count' = count /\ nrows' = nrows
      BY DEF KeyCtrl_F, KeyCtrl_B, KeyEnter, Scrolled, Goto, msgVars, winVars, ScrollInv
<1>2. CASE shown = NotShown BY <1>1, <1>2, Forgotten
<1>3. CASE shown # NotShown
  <2>1. shown \in Nat \X Nat /\ InRange(shown) /\ (Whole(shown) \/ (line = shown[1] /\ Span(shown) = nrows))
        BY <1>1, <1>3 DEF ScrollInv
  <2>2. shown[1] \in Nat /\ shown[2] \in Nat /\ nrows \in Nat BY <2>1, ViAssumption DEF TextOK
  <2>3. count \in Nat /\ count > 0 /\ line \in 1..count
    <3>1. count \in Nat BY ViAssumption DEF TextOK
    <3>2. count > 0 BY <2>1, <2>2, <3>1 DEF InRange
    <3> QED BY <3>1, <3>2 DEF TextOK
  <2>4. CASE KeyCtrl_F
    <3>1. line' = keystroke_ctrl_f(nrows, count, line) /\ scroll' = "forward"
          BY <2>3, <2>4 DEF KeyCtrl_F, Scrolled
    <3>2. line' \in line..count /\ line' <= line + nrows BY <2>3, <3>1, KeysInText
    <3>3. line' \in shown[1]..shown[2] BY <2>1, <2>2, <2>3, <3>2 DEF Whole, Span
    <3> QED BY <1>1, <2>1, <3>1, <3>3 DEF ScrollInv, InRange
  <2>5. CASE KeyCtrl_B
    <3>1. line' = keystroke_ctrl_b(nrows, line) /\ scroll' = "back"
          BY <2>3, <2>5 DEF KeyCtrl_B, Scrolled
    <3>2. line' \in 1..line /\ line' >= line - nrows BY <2>3, <3>1, KeysInText
    <3>3. Whole(shown) \/ (line' <= shown[1] /\ line' >= shown[1] - Span(shown))
          BY <2>1, <2>2, <2>3, <3>2
    <3> QED BY <1>1, <2>1, <3>1, <3>3 DEF ScrollInv, InRange, Whole
  <2>6. CASE KeyEnter
    <3>1. scroll' = "none" BY <2>6 DEF KeyEnter, Scrolled
    <3> QED BY <1>1, <2>1, <3>1 DEF ScrollInv, InRange
  <2> QED BY <2>4, <2>5, <2>6
<1> QED BY <1>2, <1>3

(* The lines that are shown, and the current one.                          *)
LEMMA Displayed ==
    ASSUME TextOK, ui_vi_show_session_default, count # 0
    PROVE  LET r == show_range(nrows, count, line)
           IN  /\ count \in Nat /\ nrows \in Nat /\ line \in 1..count
               /\ shown' = <<r.beg, r.end>> /\ line' = r.line /\ mode' = "keys"
               /\ UNCHANGED <<nrows, count, msg, scroll>>
               /\ r.beg \in Nat /\ r.end \in Nat /\ 1 <= r.beg /\ r.beg <= r.end /\ r.end <= count
               /\ \/ count <= nrows /\ r.beg = 1 /\ r.end = count
                  \/ count > nrows /\ r.beg = line /\ r.end = line + nrows /\ r.line = r.beg
                  \/ count - line < nrows /\ count > nrows /\ r.beg = count - nrows /\ r.end = count /\ r.line = r.beg
<1> DEFINE r == show_range(nrows, count, line)
<1>1. count \in Nat /\ nrows \in Nat BY ViAssumption DEF TextOK
<1>2. line \in 1..count BY <1>1 DEF TextOK
<1>3. shown' = <<r.beg, r.end>> /\ line' = r.line /\ mode' = "keys" /\ UNCHANGED <<nrows, count, msg, scroll>>
      BY DEF ui_vi_show_session_default, Goto, winVars, msgVars
<1>4. \/ count <= nrows /\ r.beg = 1 /\ r.end = count /\ r.line = line
      \/ count > nrows /\ count - line >= nrows /\ r.beg = line /\ r.end = line + nrows /\ r.line = line
      \/ count > nrows /\ count - line < nrows /\ r.beg = count - nrows /\ r.end = count /\ r.line = count - nrows
      BY <1>1, <1>2, ShowRange
<1> HIDE DEF r
<1>5. r.beg \in Nat /\ r.end \in Nat /\ 1 <= r.beg /\ r.beg <= r.end /\ r.end <= count
      BY <1>1, <1>2, <1>4
<1>6. \/ count <= nrows /\ r.beg = 1 /\ r.end = count
      \/ count > nrows /\ r.beg = line /\ r.end = line + nrows /\ r.line = r.beg
      \/ count - line < nrows /\ count > nrows /\ r.beg = count - nrows /\ r.end = count /\ r.line = r.beg
      BY <1>4
<1> QED BY <1>1, <1>2, <1>3, <1>5, <1>6 DEF r

(* Showing lines makes the first of them the current line, or shows all.   *)
LEMMA DisplayedInv == ASSUME TextOK, ScrollInv, ui_vi_show_session_default, count # 0 PROVE ScrollInv'
<1> DEFINE r == show_range(nrows, count, line)
<1>1. /\ count \in Nat /\ nrows \in Nat /\ line \in 1..count
      /\ shown' = <<r.beg, r.end>> /\ line' = r.line /\ mode' = "keys"
      /\ UNCHANGED <<nrows, count, msg, scroll>>
      /\ r.beg \in Nat /\ r.end \in Nat /\ 1 <= r.beg /\ r.beg <= r.end /\ r.end <= count
      /\ \/ count <= nrows /\ r.beg = 1 /\ r.end = count
         \/ count > nrows /\ r.beg = line /\ r.end = line + nrows /\ r.line = r.beg
         \/ count - line < nrows /\ count > nrows /\ r.beg = count - nrows /\ r.end = count /\ r.line = r.beg
      BY Displayed
<1> HIDE DEF r
<1>2. msg' = NoMsg BY <1>1 DEF ScrollInv, ui_vi_show_session_default
<1>3. shown'[1] = r.beg /\ shown'[2] = r.end /\ shown' \in Nat \X Nat BY <1>1
<1>4. InRange(shown)' BY <1>1, <1>3 DEF InRange
<1>5. (Whole(shown) \/ (line = shown[1] /\ Span(shown) = nrows))' BY <1>1, <1>3 DEF Whole, Span
<1> QED BY <1>1, <1>2, <1>3, <1>4, <1>5 DEF ScrollInv

(* Every step keeps what is shown and the current line together.           *)
LEMMA ScrollNext == ASSUME TextOK, ScrollInv, [Next]_vars PROVE ScrollInv'
<1>1. CASE KeyCtrl_F \/ KeyCtrl_B \/ KeyEnter BY <1>1, KeyScrolls
<1>2. CASE EditLine \/ UNCHANGED vars
      BY <1>2 DEF EditLine, vars, viVars, winVars, textVars, msgVars, ScrollInv, InRange, Whole, Span
<1>3. CASE EnterLine BY <1>3, Forgotten DEF EnterLine, Goto
<1>4. CASE Resize BY <1>4 DEF Resize, textVars, msgVars, ScrollInv, InRange, Whole, Span
<1>5. CASE RunLine
  <2>1. shown' = NotShown /\ mode' = "show" BY <1>5 DEF RunLine, ScrollInv, Goto
  <2> QED BY <2>1, Forgotten
<1>6. CASE ui_vi_show_session
  <2>1. mode = "show" /\ shown' = shown /\ count' = count /\ line' = line /\ scroll' = scroll
        BY <1>6 DEF ui_vi_show_session, textVars
  <2>2. \/ mode' = "error" /\ msg' = msg
        \/ mode' = "msg" /\ msg' = msg /\ msg # NoMsg
        \/ mode' = "default" /\ msg' = msg /\ msg = NoMsg
        BY <1>6 DEF ui_vi_show_session, OpenPager, Goto, msgVars
  <2>3. CASE shown = NotShown BY <2>1, <2>2, <2>3, Forgotten
  <2>4. CASE shown # NotShown BY <2>1, <2>2, <2>4 DEF ScrollInv, InRange, Whole, Span
  <2> QED BY <2>3, <2>4
<1>7. CASE ui_vi_show_session_default
  <2>1. CASE count # 0 BY <1>7, <2>1, DisplayedInv
  <2>2. CASE count = 0
    <3>1. shown = NotShown
      <4> SUFFICES ASSUME shown # NotShown PROVE FALSE OBVIOUS
      <4>1. shown \in Nat \X Nat /\ InRange(shown) BY DEF ScrollInv
      <4> QED BY <2>2, <4>1 DEF InRange
    <3>2. shown' = shown /\ mode' = "notice" BY <1>7, <2>2 DEF ui_vi_show_session_default, OpenPager, Goto
    <3> QED BY <3>1, <3>2, Forgotten
  <2> QED BY <2>1, <2>2
<1>8. CASE ShowError BY <1>8, Forgotten DEF ShowError, Goto
<1>11. CASE LineFails
  <2>1. /\ mode = "keys" /\ mode' = "error" /\ shown' = shown
        /\ msg' = msg /\ count' = count /\ nrows' = nrows
        BY <1>11 DEF LineFails, Goto, textVars, winVars, msgVars
  <2> QED BY <2>1 DEF ScrollInv, InRange, Whole, Span
<1>9. CASE NextPage \/ PrevPage
  <2>1. mode \in {"msg", "notice"} /\ mode' = mode /\ shown' = shown
        BY <1>9 DEF NextPage, PrevPage, Paging, textVars
  <2> QED BY <2>1, Forgotten DEF ScrollInv
<1>10. CASE QuitPager
  <2>1. mode \in {"msg", "notice"} /\ msg' = NoMsg /\ shown' = shown BY <1>10 DEF QuitPager, Paging, textVars
  <2> QED BY <2>1, Forgotten DEF ScrollInv
<1> QED BY <1>1, <1>2, <1>3, <1>4, <1>5, <1>6, <1>7, <1>8, <1>9, <1>10, <1>11 DEF Next

(* The lines shown after a key that scrolls reach those shown before.      *)
LEMMA ScrollStep ==
    ASSUME TextOK, ScrollInv, [Next]_vars,
           shown # NotShown, shown' # shown, scroll # "none",
           nrows = shown[2] - shown[1], shown'[2] - shown'[1] = nrows
    PROVE  /\ scroll = "forward" => shown'[1] \in shown[1]..shown[2] + 1
           /\ scroll = "back" => shown'[2] \in shown[1] - 1..shown[2]
<1>1. nrows \in Nat BY ViAssumption DEF TextOK
<1>2. shown' # NotShown BY <1>1, NothingShown DEF Span
<1>3. ui_vi_show_session_default /\ count # 0 /\ mode = "default"
  <2>1. ~(KeyCtrl_F \/ KeyCtrl_B \/ KeyEnter)
        BY DEF KeyCtrl_F, KeyCtrl_B, KeyEnter, Scrolled
  <2>2. ~(EditLine \/ LineFails \/ Resize \/ RunLine \/ ui_vi_show_session \/ UNCHANGED vars)
        BY DEF EditLine, LineFails, Resize, RunLine, ui_vi_show_session, vars, viVars, textVars
  <2>3. ~(EnterLine \/ ShowError) BY <1>2 DEF EnterLine, ShowError
  <2>4. ~(NextPage \/ PrevPage \/ QuitPager) BY DEF NextPage, PrevPage, QuitPager, Paging, textVars
  <2>5. ui_vi_show_session_default BY <2>1, <2>2, <2>3, <2>4 DEF Next
  <2> QED BY <2>5 DEF ui_vi_show_session_default
<1> DEFINE r == show_range(nrows, count, line)
<1>4. /\ count \in Nat /\ line \in 1..count
      /\ shown' = <<r.beg, r.end>>
      /\ r.beg \in Nat /\ r.end \in Nat
      /\ \/ count <= nrows /\ r.beg = 1 /\ r.end = count
         \/ count > nrows /\ r.beg = line /\ r.end = line + nrows
         \/ count - line < nrows /\ count > nrows /\ r.beg = count - nrows /\ r.end = count
      BY <1>3, Displayed
<1> HIDE DEF r
<1>5. shown'[1] = r.beg /\ shown'[2] = r.end BY <1>4
<1>6. /\ shown[1] \in Nat /\ shown[2] \in Nat
      /\ 1 <= shown[1] /\ shown[1] <= shown[2] /\ shown[2] <= count
      /\ scroll = "forward" => line \in shown[1]..shown[2]
      /\ scroll = "back" => \/ shown[1] = 1 /\ shown[2] = count
                            \/ line <= shown[1] /\ line >= shown[1] - (shown[2] - shown[1])
      BY <1>3 DEF ScrollInv, InRange, Whole, Span
<1>7. \/ r.beg = line /\ r.end = line + nrows /\ count > nrows
      \/ count - line < nrows /\ count > nrows /\ r.beg = count - nrows /\ r.end = count
      BY <1>1, <1>4, <1>5
<1>8. r.end <= count BY <1>3, Displayed DEF r
<1>9. ASSUME scroll = "forward" PROVE r.beg \in shown[1]..shown[2] + 1
      BY <1>1, <1>4, <1>6, <1>7, <1>9
<1>10. ASSUME scroll = "back" PROVE r.end \in shown[1] - 1..shown[2]
      BY <1>1, <1>4, <1>6, <1>7, <1>8, <1>10
<1> QED BY <1>5, <1>9, <1>10

(* Scrolling skips no line of the buffer, for every buffer, every size of  *)
(* window and every place in it, as long as the window keeps its size      *)
(* (_ui_keystroke_ctrl_f_, _ui_keystroke_ctrl_b_,                          *)
(* show_session_get_show_range).                                           *)
THEOREM ScrollingSkipsNothing == Spec => ScrollReaches
<1>1. ViInit => TextOK /\ ScrollInv
  <2> SUFFICES ASSUME ViInit PROVE TextOK /\ ScrollInv OBVIOUS
  <2>1. TextOK BY StartsInText
  <2>2. mode = "show" /\ msg = NoMsg /\ shown = NotShown BY DEF ViInit
  <2> QED BY <2>1, <2>2, NothingShown DEF ScrollInv
<1>2. TextOK /\ ScrollInv /\ [Next]_vars =>
          [shown # NotShown /\ shown' # shown /\ scroll # "none" /\ nrows = shown[2] - shown[1] /\ shown'[2] - shown'[1] = nrows =>
              /\ scroll = "forward" => shown'[1] \in shown[1]..shown[2] + 1
              /\ scroll = "back" => shown'[2] \in shown[1] - 1..shown[2]]_shown
      BY ScrollStep
<1> QED BY <1>1, <1>2, TextInv, ScrollNext, PTL DEF Spec, ScrollReaches

-----------------------------------------------------------------------------
(* Numbers that are multiplied and divided.                                *)
LEMMA Multiplied ==
    /\ \A a, b \in Nat : a * b \in Nat
    /\ \A a, b, w \in Nat : a <= b => a * w <= b * w
    /\ \A a, b, w \in Nat : a * w < b * w => a < b
OBVIOUS

LEMMA Divided ==
    ASSUME NEW n \in Nat, NEW w \in Nat \ {0}
    PROVE  /\ n \div w \in Nat /\ (n % w) \in 0..w - 1
           /\ n = (n \div w) * w + (n % w)
OBVIOUS

LEMMA Remainder ==
    ASSUME NEW a \in Nat, NEW s \in Nat \ {0}, NEW b \in 0..s - 1
    PROVE  (a * s + b) % s = b
OBVIOUS

(* Only a multiple leaves nothing.                                         *)
LEMMA IsMultiple ==
    ASSUME NEW n \in Nat, NEW w \in Nat \ {0}, n % w = 0
    PROVE  \E j \in Nat : n = j * w
<1>1. n \div w \in Nat /\ n = (n \div w) * w + (n % w) BY Divided
<1> DEFINE d == n \div w
<1> HIDE DEF d
<1>2. d \in Nat /\ d * w \in Nat /\ n = d * w + 0 BY <1>1, Multiplied DEF d
<1> QED BY <1>2

(* Where a line of a message ends: at its first newline, or after the end. *)
LEMMA LineEnds ==
    ASSUME NEW m, NEW at \in 1..Len(m) + 1, Len(m) \in Nat
    PROVE  /\ LineEnd(m, at) \in at..Len(m) + 1
           /\ \A i \in at..LineEnd(m, at) - 1 : ~m[i]
           /\ LineEnd(m, at) <= Len(m) => m[LineEnd(m, at)]
           /\ Terminated(m, at) = (LineEnd(m, at) <= Len(m))
           /\ After(m, at) = IF LineEnd(m, at) <= Len(m) THEN LineEnd(m, at) + 1 ELSE Len(m) + 1
<1> DEFINE n == Len(m) + 1
           S == {i \in at..Len(m) : m[i]} \cup {n}
           e == Min(S)
<1>1. n \in Nat /\ S \in SUBSET (1..n) /\ S # {} OBVIOUS
<1> HIDE DEF S
<1>2. e \in S /\ \A x \in S : e <= x BY <1>1, MinIn
<1>3. LineEnd(m, at) = e BY DEF LineEnd, S
<1> HIDE DEF e
<1>4. e \in at..n BY <1>2 DEF S
<1>5. e <= Len(m) => m[e] BY <1>2 DEF S
<1>6. ASSUME NEW i \in at..e - 1 PROVE ~m[i]
  <2>1. i \in at..Len(m) /\ ~(e <= i) BY <1>4
  <2> QED BY <1>2, <2>1 DEF S
<1>7. Terminated(m, at) = (e <= Len(m)) BY <1>3 DEF Terminated
<1>8. After(m, at) = IF e + 1 <= n THEN e + 1 ELSE n BY <1>3, <1>4, MinOfTwo DEF After
<1>9. (e + 1 <= n) = (e <= Len(m)) BY <1>4
<1> QED BY <1>3, <1>4, <1>5, <1>6, <1>7, <1>8, <1>9

(* The rows of a line of n characters: as many as the multiples of the     *)
(* width below n, and one if it is empty.                                  *)
LEMMA RowsOfLine ==
    ASSUME NEW n \in Nat, NEW w \in Nat \ {0}
    PROVE  /\ RowsOf(n, w) \in Nat \ {0}
           /\ n = 0 => RowsOf(n, w) = 1
           /\ n > 0 => (RowsOf(n, w) - 1) * w < n
           /\ n <= RowsOf(n, w) * w
<1> DEFINE d == n \div w
           r == n % w
           R == RowsOf(n, w)
<1>1. d \in Nat /\ r \in 0..w - 1 /\ n = d * w + r BY Divided
<1>2. R = 1 + d - (IF n > 0 /\ r = 0 THEN 1 ELSE 0) BY DEF RowsOf
<1> HIDE DEF d, r, R
<1>3. CASE n > 0 /\ r = 0
  <2>1. R = d /\ n = d * w BY <1>1, <1>2, <1>3
  <2>2. d # 0
    <3> SUFFICES ASSUME d = 0 PROVE FALSE OBVIOUS
    <3>1. d * w = 0 OBVIOUS
    <3> QED BY <1>3, <2>1, <3>1
  <2>3. (d - 1) * w = d * w - w BY <1>1
  <2> QED BY <1>1, <1>3, <2>1, <2>2, <2>3 DEF R
<1>4. CASE n > 0 /\ r # 0
  <2>1. R = d + 1 BY <1>1, <1>2, <1>4
  <2>2. (d + 1) * w = d * w + w BY <1>1
  <2> QED BY <1>1, <1>4, <2>1, <2>2 DEF R
<1>5. CASE n = 0
  <2>1. d = 0
    <3> SUFFICES ASSUME d # 0 PROVE FALSE OBVIOUS
    <3>1. d * w >= w BY <1>1
    <3> QED BY <1>1, <1>5, <3>1
  <2>2. R = 1 BY <1>2, <1>5, <2>1
  <2> QED BY <1>5, <2>2 DEF R
<1> QED BY <1>3, <1>4, <1>5

(* A line that fits in some rows has no more rows than those, nor than its *)
(* characters.                                                             *)
LEMMA RowsFit ==
    ASSUME NEW n \in Nat, NEW w \in Nat \ {0}, NEW rows \in Nat \ {0}, n <= rows * w
    PROVE  RowsOf(n, w) \in 1..rows /\ (n > 0 => RowsOf(n, w) <= n)
<1> DEFINE R == RowsOf(n, w)
<1>1. R \in Nat \ {0} /\ (n = 0 => R = 1) /\ (n > 0 => (R - 1) * w < n) BY RowsOfLine
<1> HIDE DEF R
<1>2. ASSUME n > 0 PROVE R <= rows /\ R <= n
  <2>1. R - 1 \in Nat /\ (R - 1) * w < rows * w
    <3>1. (R - 1) * w \in Int /\ rows * w \in Nat BY <1>1
    <3> QED BY <1>1, <1>2, <3>1
  <2>2. R - 1 < rows BY <2>1, Multiplied
  <2>3. (R - 1) * w >= R - 1 BY <2>1
  <2>4. R - 1 < n BY <1>1, <1>2, <2>1, <2>3
  <2> QED BY <1>1, <2>2, <2>4
<1> QED BY <1>1, <1>2 DEF R

-----------------------------------------------------------------------------
(* The rows of a page.                                                     *)

LineBegin(m, at, p) == Max({at} \cup {q \in at + 1..p : m[q - 1]})

(* The characters of a page that a row begins with.                        *)
Starts(m, at, n) ==
    {p \in (at..at + n - 1) \cap DOMAIN m :
        p = LineBegin(m, at, p) \/ (~m[p] /\ (p - LineBegin(m, at, p)) % Width = 0)}

(* A line begins where the page does, up to its first newline.             *)
LEMMA FirstLine ==
    ASSUME NEW m, NEW at \in Nat \ {0}, NEW p \in Nat, at <= p, \A i \in at..p - 1 : ~m[i]
    PROVE  LineBegin(m, at, p) = at
<1> DEFINE S == {at} \cup {q \in at + 1..p : m[q - 1]}
<1>1. S = {at} OBVIOUS
<1>2. S \in SUBSET (1..at) /\ S # {} BY <1>1
<1>3. Max(S) \in S BY <1>2, MaxIn
<1> QED BY <1>1, <1>3 DEF LineBegin

(* It begins at the same place after a newline, wherever the page began.   *)
LEMMA LaterLine ==
    ASSUME NEW m, NEW at \in Nat \ {0}, NEW b \in Nat, at < b, m[b - 1], NEW p \in Nat, b <= p
    PROVE  LineBegin(m, at, p) = LineBegin(m, b, p)
<1> DEFINE S == {at} \cup {q \in at + 1..p : m[q - 1]}
           T == {b} \cup {q \in b + 1..p : m[q - 1]}
<1>1. S \in SUBSET (1..p) /\ S # {} /\ T \in SUBSET (1..p) /\ T # {} OBVIOUS
<1>2. T \in SUBSET S OBVIOUS
<1>3. \A q \in S : q \in T \/ q < b OBVIOUS
<1>4. b \in T OBVIOUS
<1> HIDE DEF S, T
<1>5. Max(S) \in S /\ \A x \in S : Max(S) >= x BY <1>1, MaxIn
<1>6. Max(T) \in T /\ \A x \in T : Max(T) >= x BY <1>1, MaxIn
<1>7. Max(S) >= Max(T) /\ Max(T) >= b /\ Max(S) \in Nat /\ Max(T) \in Nat
  <2>1. Max(T) \in S BY <1>2, <1>6
  <2>2. Max(S) \in 1..p /\ Max(T) \in 1..p BY <1>1, <1>5, <1>6
  <2> QED BY <1>4, <1>5, <1>6, <2>1, <2>2
<1>8. Max(S) \in T BY <1>3, <1>5, <1>7
<1>9. Max(T) >= Max(S) BY <1>6, <1>8
<1> QED BY <1>7, <1>9 DEF LineBegin, S, T

(* The places at which some rows begin.                                    *)
RowPlaces(at, rows) == {at + j * Width : j \in 0..rows - 1}

LEMMA RowPlacesCount ==
    ASSUME NEW at \in Nat, NEW rows \in Nat
    PROVE  IsFiniteSet(RowPlaces(at, rows)) /\ Cardinality(RowPlaces(at, rows)) \in 0..rows
<1> DEFINE f == [j \in 0..rows - 1 |-> at + j * Width]
           T == RowPlaces(at, rows)
<1>1. f \in Surjection(0..rows - 1, T) BY DEF Surjection, RowPlaces
<1>2. IsFiniteSet(0..rows - 1) /\ Cardinality(0..rows - 1) = rows
  <2>1. IsFiniteSet(0..rows - 1) /\ Cardinality(0..rows - 1) = IF 0 > rows - 1 THEN 0 ELSE rows - 1 - 0 + 1
        BY FS_Interval
  <2> QED BY <2>1
<1> HIDE DEF f, T
<1>3. IsFiniteSet(T) /\ Cardinality(T) <= rows BY <1>1, <1>2, FS_Surjection
<1> QED BY <1>3, FS_CardinalityType DEF T

(* In a line of a message, rows begin after one another.                   *)
LEMMA StartsInLine ==
    ASSUME NEW m, NEW at \in Nat \ {0}, NEW n \in Nat, NEW p \in Starts(m, at, n),
           \A i \in at..p - 1 : ~m[i]
    PROVE  \E j \in Nat : p = at + j * Width /\ (j = 0 \/ ~m[p])
<1>1. p \in at..at + n - 1 BY DEF Starts
<1>2. LineBegin(m, at, p) = at BY <1>1, FirstLine
<1>3. p = at \/ (~m[p] /\ (p - at) % Width = 0) BY <1>2 DEF Starts
<1>4. CASE p = at
  <2>1. p = at + 0 * Width /\ 0 \in Nat BY <1>4, PagesAssumption
  <2> QED BY <2>1
<1>5. CASE ~m[p] /\ (p - at) % Width = 0
  <2>1. p - at \in Nat BY <1>1
  <2>2. PICK j \in Nat : p - at = j * Width BY <1>5, <2>1, IsMultiple, PagesAssumption
  <2>3. p = at + j * Width BY <1>1, <2>2, Multiplied, PagesAssumption
  <2> QED BY <1>5, <2>3
<1> QED BY <1>3, <1>4, <1>5

-----------------------------------------------------------------------------
(* The pages that get_next_page takes.                                     *)

LineLen(m, at)   == LineEnd(m, at) - at
RoomOf(rows)    == (rows * Width) % Size

(* A page that begins at some place, from the one that begins after its    *)
(* first line.                                                             *)
Cut(m, rows, at, rest) ==
    IF at > Len(m) \/ rows = 0 THEN Page(at, 0, at, FALSE)
    ELSE IF LineLen(m, at) > RoomOf(rows) THEN SplitLine(m, at, RoomOf(rows))
    ELSE [rest EXCEPT !.len = LineLen(m, at) + 1 + @]

Behind(m, s) == <<s[1] - RowsOf(LineLen(m, s[2]), Width), After(m, s[2])>>

Places(m, low) == (0..Size - 1) \X (low..Len(m) + 1)

Cuts(m, low, f) == f = [s \in Places(m, low) |-> Cut(m, s[1], s[2], f[Behind(m, s)])]

(* The characters that some rows hold, in a number that wraps around.      *)
LEMMA RoomOfRows ==
    ASSUME NEW rows \in 0..Size - 1
    PROVE  /\ rows \in Nat /\ rows * Width \in Nat
           /\ RoomOf(rows) \in Nat /\ RoomOf(rows) <= rows * Width
           /\ rows * Width < Size => RoomOf(rows) = rows * Width
<1> DEFINE x == rows * Width
<1>1. rows \in Nat /\ x \in Nat BY Multiplied, PagesAssumption, ViAssumption
<1> HIDE DEF x
<1>2. x % Size \in Nat /\ x % Size <= x /\ (x < Size => x % Size = x) BY <1>1, ViAssumption
<1> QED BY <1>1, <1>2 DEF RoomOf, x

(* After a line that fits there are rows left, and less of the message.    *)
LEMMA AfterLine ==
    ASSUME NEW m, Len(m) \in Nat, NEW at \in 1..Len(m), NEW rows \in 0..Size - 1, rows # 0,
           LineLen(m, at) <= RoomOf(rows)
    PROVE  /\ LineLen(m, at) \in Nat
           /\ RowsOf(LineLen(m, at), Width) \in 1..rows
           /\ LineLen(m, at) > 0 => RowsOf(LineLen(m, at), Width) <= LineLen(m, at)
           /\ After(m, at) \in at + 1..Len(m) + 1
<1>1. at \in 1..Len(m) + 1 OBVIOUS
<1>2. LineEnd(m, at) \in at..Len(m) + 1
      /\ After(m, at) = IF LineEnd(m, at) <= Len(m) THEN LineEnd(m, at) + 1 ELSE Len(m) + 1
      BY <1>1, LineEnds
<1>3. LineLen(m, at) \in Nat /\ After(m, at) \in at + 1..Len(m) + 1 BY <1>2 DEF LineLen
<1>4. rows * Width \in Nat /\ RoomOf(rows) <= rows * Width /\ RoomOf(rows) \in Nat /\ rows \in Nat \ {0}
      BY RoomOfRows
<1> DEFINE n == LineLen(m, at)
           x == rows * Width
<1>5. n <= x
  <2> HIDE DEF n, x
  <2> QED BY <1>3, <1>4 DEF n, x
<1>6. RowsOf(n, Width) \in 1..rows /\ (n > 0 => RowsOf(n, Width) <= n)
  <2> HIDE DEF n
  <2> QED BY <1>3, <1>4, <1>5, RowsFit, PagesAssumption DEF n
<1> QED BY <1>3, <1>6

(* The pages are well defined: each one from a later one.                  *)
LEMMA CutsExist ==
    ASSUME NEW m, Len(m) \in Nat
    PROVE  \E f : Cuts(m, 1, f)
<1> DEFINE n == Len(m)
           S == {k \in 0..n : \E f : Cuts(m, n + 1 - k, f)}
<1>1. 0 \in S
  <2> DEFINE f == [s \in Places(m, n + 1) |-> Page(s[2], 0, s[2], FALSE)]
  <2>1. \A s \in Places(m, n + 1) : s[2] > Len(m) BY DEF Places
  <2>2. \A s \in Places(m, n + 1) : f[s] = Cut(m, s[1], s[2], f[Behind(m, s)]) BY <2>1 DEF Cut
  <2>3. f = [s \in Places(m, n + 1) |-> f[s]] OBVIOUS
  <2> HIDE DEF f
  <2>4. Cuts(m, n + 1, f) BY <2>2, <2>3, Zenon DEF Cuts
  <2>5. n + 1 - 0 = n + 1 OBVIOUS
  <2> QED BY <2>4, <2>5
<1>2. ASSUME NEW k \in 0..n, k \in S, k < n PROVE k + 1 \in S
  <2> DEFINE low == n - k
  <2>1. n + 1 - k = low + 1 /\ n + 1 - (k + 1) = low /\ low \in 1..n BY <1>2
  <2> HIDE DEF low
  <2>2. PICK f : Cuts(m, low + 1, f) BY <1>2, <2>1
  <2> DEFINE g == [s \in Places(m, low) |-> IF s[2] = low THEN Cut(m, s[1], s[2], f[Behind(m, s)]) ELSE f[s]]
  <2>3. ASSUME NEW s \in Places(m, low) PROVE g[s] = Cut(m, s[1], s[2], g[Behind(m, s)])
    <3>1. s[1] \in 0..Size - 1 /\ s[2] \in low..n + 1 /\ s = <<s[1], s[2]>> BY DEF Places
    <3>2. g[s] = Cut(m, s[1], s[2], f[Behind(m, s)])
      <4>1. CASE s[2] = low BY <4>1
      <4>2. CASE s[2] # low
        <5>1. s \in Places(m, low + 1) BY <2>1, <3>1, <4>2 DEF Places
        <5>2. f[s] = Cut(m, s[1], s[2], f[Behind(m, s)]) BY <2>2, <5>1 DEF Cuts
        <5> QED BY <4>2, <5>2
      <4> QED BY <4>1, <4>2
    <3>3. CASE s[2] > Len(m) \/ s[1] = 0 \/ LineLen(m, s[2]) > RoomOf(s[1])
      <4> HIDE DEF g
      <4> QED BY <3>2, <3>3 DEF Cut
    <3>4. CASE ~(s[2] > Len(m) \/ s[1] = 0 \/ LineLen(m, s[2]) > RoomOf(s[1]))
      <4>1. s[2] \in 1..Len(m) BY <2>1, <3>1, <3>4
      <4>2. LineLen(m, s[2]) \in Nat /\ RoomOf(s[1]) \in Nat
        <5>1. LineEnd(m, s[2]) \in s[2]..Len(m) + 1 BY <2>1, <3>1, LineEnds
        <5> QED BY <3>1, <5>1, RoomOfRows DEF LineLen
      <4>3. LineLen(m, s[2]) <= RoomOf(s[1]) /\ s[1] # 0 BY <3>4, <4>2
      <4>4. RowsOf(LineLen(m, s[2]), Width) \in 1..s[1] /\ After(m, s[2]) \in s[2] + 1..Len(m) + 1
            BY <3>1, <4>1, <4>3, AfterLine
      <4>5. s[1] - RowsOf(LineLen(m, s[2]), Width) \in 0..Size - 1
        <5> DEFINE r == RowsOf(LineLen(m, s[2]), Width)
        <5>1. r \in 1..s[1] /\ s[1] \in 0..Size - 1 /\ Size \in Nat BY <3>1, <4>4, ViAssumption
        <5> HIDE DEF r
        <5>2. s[1] - r \in 0..Size - 1 BY ONLY <5>1
        <5> QED BY <5>2 DEF r
      <4>6. After(m, s[2]) \in low + 1..Len(m) + 1 BY <2>1, <3>1, <4>4
      <4>7. Behind(m, s) \in Places(m, low) /\ Behind(m, s)[2] # low
            BY <2>1, <4>5, <4>6 DEF Behind, Places
      <4>8. g[Behind(m, s)] = f[Behind(m, s)] BY <4>7
      <4> HIDE DEF g
      <4> QED BY <3>2, <4>8
    <3> QED BY <3>3, <3>4
  <2>4. g = [s \in Places(m, low) |-> g[s]] OBVIOUS
  <2> HIDE DEF g
  <2>5. Cuts(m, low, g) BY <2>3, <2>4, Zenon DEF Cuts
  <2> QED BY <1>2, <2>1, <2>5
<1> HIDE DEF S
<1>3. \A k \in 0..n : k \in S BY <1>1, <1>2, SetInduction
<1>4. n \in S /\ n + 1 - n = 1 BY <1>3
<1> QED BY <1>4 DEF S

(* get_next_page takes the pages that are cut.                             *)
LEMMA NextPageIsCut ==
    ASSUME NEW m, Len(m) \in Nat, NEW rows, NEW at
    PROVE  \E f : Cuts(m, 1, f) /\ get_next_page(rows, Width, m, at) = [f[<<rows, at>>] EXCEPT !.from = at]
<1> DEFINE g == CHOOSE f : Cuts(m, 1, f)
<1>1. Cuts(m, 1, g) BY CutsExist
<1>2. get_next_page(rows, Width, m, at) = [g[<<rows, at>>] EXCEPT !.from = at]
      BY DEF get_next_page, Cuts, Cut, Behind, Places, LineLen, RoomOf
<1> QED BY <1>1, <1>2

-----------------------------------------------------------------------------
(* What a page is, that begins at some place and may have some rows: the   *)
(* next one begins where it ends, or after the character that is dropped   *)
(* where a line is split.                                                  *)

Message(m) == Len(m) \in Nat /\ DOMAIN m = 1..Len(m) /\ Len(m) * (Width + 1) <= Size

(* The rows of a session of no rows wrap around, and are more than a       *)
(* message needs.                                                          *)
HasRoom(rows, at) == rows \in 0..Size - 1 /\ (rows * Width < Size \/ rows + at >= Size)

Few(m, rows, at, n) == IsFiniteSet(Starts(m, at, n)) /\ Cardinality(Starts(m, at, n)) \in 0..rows

GoodPage(m, rows, at, page) ==
    /\ page \in [from : Nat, len : Nat, next : at..Len(m) + 1, failed : BOOLEAN]
    /\ page.failed => ~m[Len(m)]
    /\ rows # 0 /\ at <= Len(m) => page.len > 0 \/ page.failed
    /\ page.next <= Len(m) =>
          \/ page.next = at + page.len
          \/ page.len > 0 /\ page.next = at + page.len + 1 /\ ~m[at + page.len - 1]
    /\ Few(m, rows, at, page.len)

(* There is room for a row, and for a line where the rows wrapped around.  *)
LEMMA RoomEnough ==
    ASSUME NEW m, Message(m), NEW at \in 1..Len(m), NEW rows, HasRoom(rows, at), rows # 0
    PROVE  \/ rows * Width < Size /\ RoomOf(rows) = rows * Width /\ RoomOf(rows) > 0
           \/ rows + at >= Size /\ LineLen(m, at) <= RoomOf(rows)
<1>1. rows \in 0..Size - 1 /\ rows \in Nat \ {0} /\ rows * Width \in Nat /\ Size \in Nat \ {0}
      BY RoomOfRows, ViAssumption DEF HasRoom
<1>2. CASE rows * Width < Size
  <2>1. RoomOf(rows) = rows * Width BY <1>1, <1>2, RoomOfRows
  <2>2. rows * Width > 0 BY <1>1, PagesAssumption
  <2> QED BY <1>2, <2>1, <2>2
<1>3. CASE ~(rows * Width < Size)
  <2> DEFINE c == Size - rows
             n == Len(m)
             b == Size - c * Width
  <2>1. rows + at >= Size BY <1>3 DEF HasRoom
  <2>2. c \in 1..at /\ n \in Nat /\ at <= n /\ rows = Size - c BY <1>1, <2>1 DEF Message
  <2>3. n * Width + n <= Size BY <2>2, PagesAssumption DEF Message
  <2> HIDE DEF c, n
  <2>4. c * Width \in Nat /\ n * Width \in Nat /\ c * Width <= n * Width /\ c * Width > 0
    <3>1. c * Width \in Nat /\ n * Width \in Nat BY <2>2, Multiplied, PagesAssumption
    <3>2. c \in Nat /\ c <= n BY <2>2
    <3>3. c * Width <= n * Width BY <2>2, <3>2, Multiplied, PagesAssumption
    <3>4. c * Width > 0 BY <2>2, PagesAssumption
    <3> QED BY <3>1, <3>3, <3>4
  <2>5. b \in 0..Size - 1 /\ b >= n BY <1>1, <2>2, <2>3, <2>4
  <2>6. rows * Width = (Width - 1) * Size + b
    <3>1. rows * Width = Size * Width - c * Width BY <1>1, <2>2, PagesAssumption
    <3>2. (Width - 1) * Size = Size * Width - Size BY <1>1, PagesAssumption
    <3> QED BY <1>1, <2>4, <3>1, <3>2, Multiplied, PagesAssumption
  <2> HIDE DEF b
  <2>7. RoomOf(rows) = b
    <3>1. Width - 1 \in Nat BY PagesAssumption
    <3> QED BY <1>1, <2>5, <2>6, <3>1, Remainder DEF RoomOf
  <2>8. LineLen(m, at) <= n
    <3>1. LineEnd(m, at) \in at..n + 1 BY <2>2, LineEnds DEF n
    <3>2. at >= 1 OBVIOUS
    <3> QED BY <2>2, <3>1, <3>2 DEF LineLen
  <2>9. LineLen(m, at) \in Int
    <3>1. LineEnd(m, at) \in at..n + 1 BY <2>2, LineEnds DEF n
    <3> QED BY <2>2, <3>1 DEF LineLen
  <2> QED BY <2>1, <2>2, <2>5, <2>7, <2>8, <2>9
<1> QED BY <1>2, <1>3

(* A page of nothing.                                                      *)
LEMMA EmptyPage ==
    ASSUME NEW m, Message(m), NEW at \in 1..Len(m) + 1, NEW rows \in Nat, rows = 0 \/ at > Len(m)
    PROVE  GoodPage(m, rows, at, Page(at, 0, at, FALSE))
<1>1. at \in Nat OBVIOUS
<1>2. Len(m) \in Nat BY DEF Message
<1>3. Starts(m, at, 0) = {}
  <2>1. at..at + 0 - 1 = {} BY <1>1
  <2> QED BY <2>1 DEF Starts
<1>4. Few(m, rows, at, 0)
  <2>1. IsFiniteSet({}) /\ Cardinality({}) = 0 /\ 0 \in 0..rows BY FS_EmptySet
  <2> HIDE DEF Starts
  <2> QED BY <1>3, <2>1 DEF Few
<1> DEFINE page == Page(at, 0, at, FALSE)
<1>5. page \in [from : Nat, len : Nat, next : at..Len(m) + 1, failed : BOOLEAN] /\ page.len = 0 /\ page.next = at
      /\ page.failed = FALSE
  <2> DEFINE hi == Len(m) + 1
  <2>1. at \in at..hi /\ at \in Nat /\ hi \in Nat /\ FALSE \in BOOLEAN /\ 0 \in Nat BY <1>2
  <2> HIDE DEF hi
  <2>2. /\ page \in [from : Nat, len : Nat, next : at..hi, failed : BOOLEAN]
        /\ page.len = 0 /\ page.next = at /\ page.failed = FALSE
    BY <2>1 DEF Page
  <2> QED BY <2>2 DEF hi
<1> HIDE DEF page
<1>6. GoodPage(m, rows, at, page) BY <1>2, <1>4, <1>5 DEF GoodPage
<1> QED BY <1>6 DEF page

(* Rows that begin in the first line of a page, before some place, are few.*)
LEMMA FewInLine ==
    ASSUME NEW m, NEW at \in Nat \ {0}, NEW S, NEW rows \in Nat,
           \A p \in S : \E j \in 0..rows - 1 : p = at + j * Width
    PROVE  IsFiniteSet(S) /\ Cardinality(S) \in 0..rows
<1>1. IsFiniteSet(RowPlaces(at, rows)) /\ Cardinality(RowPlaces(at, rows)) \in 0..rows BY RowPlacesCount
<1>2. S \in SUBSET RowPlaces(at, rows) BY DEF RowPlaces
<1>3. IsFiniteSet(S) /\ Cardinality(S) <= Cardinality(RowPlaces(at, rows)) BY <1>1, <1>2, FS_Subset
<1>4. Cardinality(S) \in Nat BY <1>3, FS_CardinalityType
<1> QED BY <1>1, <1>3, <1>4

(* A page that a line is split for, or that has room for no line.          *)
LEMMA SplitPage ==
    ASSUME NEW m, Message(m), NEW at \in 1..Len(m), NEW rows \in Nat \ {0},
           rows * Width > 0, LineLen(m, at) > rows * Width
    PROVE  GoodPage(m, rows, at, SplitLine(m, at, rows * Width))
<1> DEFINE n == rows * Width
           e == LineEnd(m, at)
           l == Len(m)
           page == SplitLine(m, at, n)
<1>1. l \in Nat /\ at \in 1..l /\ n \in Nat \ {0} BY Multiplied, PagesAssumption DEF Message
<1>2. /\ e \in at..l + 1 /\ (\A i \in at..e - 1 : ~m[i])
      /\ Terminated(m, at) = (e <= l)
      /\ After(m, at) = IF e <= l THEN e + 1 ELSE l + 1
      BY <1>1, LineEnds
<1>3. e - at > n BY DEF LineLen
<1> HIDE DEF n, e, l
<1>4. CASE e <= l
  <2> DEFINE x == After(m, at) - (e - at - n)
  <2>1. x = at + n + 1 /\ x \in at..l + 1 BY <1>1, <1>2, <1>3, <1>4
  <2> HIDE DEF x
  <2>2. page = Page(at, n, x, FALSE) BY <1>2, <1>4 DEF SplitLine, e, x
  <2>3. at \in Nat /\ l + 1 \in Nat /\ n \in Nat /\ FALSE \in BOOLEAN BY <1>1
  <2>4. page \in [from : Nat, len : Nat, next : at..l + 1, failed : BOOLEAN]
        /\ page.len = n /\ page.next = x /\ page.failed = FALSE
        BY <2>1, <2>2, <2>3 DEF Page
  <2>5. ~m[at + n - 1] BY <1>1, <1>2, <1>3
  <2>6. ASSUME NEW p \in Starts(m, at, n) PROVE \E j \in 0..rows - 1 : p = at + j * Width
    <3>1. p \in at..at + n - 1 BY DEF Starts
    <3>2. \A i \in at..p - 1 : ~m[i] BY <1>1, <1>2, <1>3, <3>1
    <3>3. PICK j \in Nat : p = at + j * Width BY <1>1, <3>2, StartsInLine
    <3>4. j * Width \in Nat /\ j * Width < rows * Width BY <1>1, <3>1, <3>3, Multiplied, PagesAssumption DEF n
    <3>5. j < rows BY <3>4, Multiplied, PagesAssumption
    <3> QED BY <3>3, <3>5
  <2>7. Few(m, rows, at, n)
    <3> DEFINE S == Starts(m, at, n)
    <3>1. \A p \in S : \E j \in 0..rows - 1 : p = at + j * Width BY <2>6
    <3>2. at \in Nat \ {0} /\ rows \in Nat BY <1>1
    <3> HIDE DEF S
    <3>3. IsFiniteSet(S) /\ Cardinality(S) \in 0..rows BY <3>1, <3>2, FewInLine
    <3> QED BY <3>3 DEF Few, S
  <2> HIDE DEF page
  <2> QED BY <1>1, <2>1, <2>4, <2>5, <2>7 DEF GoodPage, l, n, page
<1>5. CASE ~(e <= l)
  <2>1. page = Page(at, 0, l + 1, TRUE) BY <1>2, <1>5 DEF SplitLine, l
  <2>2. at \in Nat /\ l + 1 \in Nat /\ l + 1 \in at..l + 1 /\ 0 \in Nat /\ TRUE \in BOOLEAN BY <1>1
  <2>3. page \in [from : Nat, len : Nat, next : at..l + 1, failed : BOOLEAN]
        /\ page.len = 0 /\ page.next = l + 1 /\ page.failed = TRUE
        BY <2>1, <2>2 DEF Page
  <2>4. ~m[l] BY <1>1, <1>2, <1>5
  <2>5. Few(m, rows, at, 0)
    <3>1. Starts(m, at, 0) = {}
      <4>1. at..at + 0 - 1 = {} BY <1>1
      <4> QED BY <4>1 DEF Starts
    <3> QED BY <1>1, <3>1, FewInLine DEF Few
  <2>6. ~(page.next <= l) BY <1>1, <2>3
  <2> HIDE DEF page
  <2> QED BY <2>3, <2>4, <2>5, <2>6 DEF GoodPage, l, n, page
<1> QED BY <1>4, <1>5

(* A page whose first line fits, from the page after it.                   *)
LEMMA LinePage ==
    ASSUME NEW m, Message(m), NEW at \in 1..Len(m), NEW rows \in 0..Size - 1, rows # 0,
           LineLen(m, at) <= RoomOf(rows), NEW rest,
           GoodPage(m, rows - RowsOf(LineLen(m, at), Width), After(m, at), rest)
    PROVE  GoodPage(m, rows, at, [rest EXCEPT !.len = LineLen(m, at) + 1 + @])
<1> DEFINE n == LineLen(m, at)
           e == LineEnd(m, at)
           l == Len(m)
           R == RowsOf(n, Width)
           b == After(m, at)
           page == [rest EXCEPT !.len = n + 1 + @]
<1>1. l \in Nat /\ at \in 1..l /\ at \in 1..l + 1 /\ DOMAIN m = 1..l BY DEF Message
<1>2. /\ e \in at..l + 1 /\ (\A i \in at..e - 1 : ~m[i])
      /\ (e <= l => m[e])
      /\ b = IF e <= l THEN e + 1 ELSE l + 1
      BY <1>1, LineEnds
<1>3. n = e - at /\ n \in Nat BY <1>1, <1>2 DEF LineLen
<1>4. R \in 1..rows /\ b \in at + 1..l + 1 /\ rows \in Nat BY <1>1, AfterLine, ViAssumption
<1>5. R \in Nat \ {0} /\ n <= R * Width BY <1>3, RowsOfLine, PagesAssumption
<1>6. GoodPage(m, rows - R, b, rest) OBVIOUS
<1> HIDE DEF n, e, l, R, b
<1>7. rest \in [from : Nat, len : Nat, next : b..l + 1, failed : BOOLEAN] BY <1>6 DEF GoodPage, l
<1>8. page \in [from : Nat, len : Nat, next : at..l + 1, failed : BOOLEAN]
      /\ page.len = n + 1 + rest.len /\ page.next = rest.next /\ page.failed = rest.failed
      /\ rest.len \in Nat /\ rest.next \in b..l + 1
  <2>1. rest.len \in Nat /\ rest.next \in b..l + 1 /\ rest.failed \in BOOLEAN /\ rest.from \in Nat BY <1>7
  <2>2. n + 1 + rest.len \in Nat /\ rest.next \in at..l + 1 BY <1>1, <1>3, <1>4, <2>1
  <2> DEFINE from == rest.from
             len1 == n + 1 + rest.len
             next == rest.next
             failed == rest.failed
  <2>3. page = [from |-> from, len |-> len1, next |-> next, failed |-> failed] BY <1>7
  <2>4. from \in Nat /\ len1 \in Nat /\ next \in at..l + 1 /\ failed \in BOOLEAN BY <2>1, <2>2
  <2> HIDE DEF page, from, len1, next, failed
  <2>5. page \in [from : Nat, len : Nat, next : at..l + 1, failed : BOOLEAN] BY ONLY <2>3, <2>4
  <2>6. page.len = len1 /\ page.next = next /\ page.failed = failed BY ONLY <2>3
  <2> QED BY <2>1, <2>5, <2>6 DEF len1, next, failed
<1> HIDE DEF page
<1>9. page.failed => ~m[l] BY <1>6, <1>8 DEF GoodPage, l
<1>10. page.len > 0 BY <1>3, <1>8
<1>11. page.next <= l =>
          \/ page.next = at + page.len
          \/ page.len > 0 /\ page.next = at + page.len + 1 /\ ~m[at + page.len - 1]
  <2> HAVE page.next <= l
  <2>1. e <= l /\ b = e + 1 BY <1>1, <1>2, <1>8
  <2>2. at + page.len = b + rest.len
    <3>1. page.len = n + 1 + rest.len /\ rest.len \in Nat /\ n = e - at /\ e \in Nat /\ at \in Nat /\ b = e + 1
          BY <1>1, <1>2, <1>3, <1>8, <2>1
    <3> QED BY ONLY <3>1
  <2>3. \/ rest.next = b + rest.len
        \/ rest.len > 0 /\ rest.next = b + rest.len + 1 /\ ~m[b + rest.len - 1]
        BY <1>6, <1>8 DEF GoodPage, l
  <2>4. CASE rest.next = b + rest.len BY <1>8, <2>2, <2>4
  <2>5. CASE rest.len > 0 /\ rest.next = b + rest.len + 1 /\ ~m[b + rest.len - 1]
    <3>1. page.next = at + page.len + 1 BY <1>8, <2>2, <2>5
    <3>2. ~m[at + page.len - 1]
      <4> DEFINE x == page.len
                 y == rest.len
      <4>1. at + x = b + y /\ at \in Nat /\ b \in Nat /\ x \in Nat /\ y \in Nat BY <1>1, <1>3, <1>4, <1>8, <2>2
      <4> HIDE DEF x, y
      <4>2. at + x - 1 = b + y - 1 BY <4>1
      <4>3. at + page.len - 1 = b + rest.len - 1 BY <4>2 DEF x, y
      <4>4. ~m[b + rest.len - 1] BY <2>5
      <4> QED BY ONLY <4>3, <4>4
    <3> QED BY <1>10, <3>1, <3>2
  <2> QED BY <2>3, <2>4, <2>5
<1> DEFINE k == page.len
           S == Starts(m, at, k)
           S1 == {p \in S : p <= e}
           S2 == {p \in S : p > e}
<1>12. k \in Nat BY <1>3, <1>8
<1> HIDE DEF k
<1>13. ASSUME NEW p \in S1 PROVE \E j \in 0..R - 1 : p = at + j * Width
  <2>1. p \in at..at + k - 1 /\ p \in DOMAIN m /\ p <= e BY DEF Starts
  <2>2. \A i \in at..p - 1 : ~m[i] BY <1>1, <1>2, <2>1
  <2>3. PICK j \in Nat : p = at + j * Width /\ (j = 0 \/ ~m[p]) BY <1>1, <1>12, <2>2, StartsInLine
  <2>4. j < R
    <3>1. CASE j = 0 BY <1>5, <3>1
    <3>2. CASE ~m[p]
      <4>1. p < e BY <1>1, <1>2, <2>1, <3>2
      <4>2. j * Width \in Nat /\ R * Width \in Nat BY <1>5, Multiplied, PagesAssumption
      <4> DEFINE before == j * Width
                 all    == R * Width
      <4> HIDE DEF before, all
      <4>3. before < all
        <5>1. p = at + before /\ n <= all /\ before \in Nat /\ all \in Nat BY <1>5, <2>3, <4>2 DEF before, all
        <5>2. n = e - at /\ p < e /\ at \in Nat /\ e \in Nat BY <1>1, <1>2, <1>3, <4>1
        <5> QED BY <5>1, <5>2
      <4>4. j * Width < R * Width BY <4>3 DEF before, all
      <4> QED BY <1>5, <4>4, Multiplied, PagesAssumption
    <3> QED BY <2>3, <3>1, <3>2
  <2>5. j \in 0..R - 1 BY <1>5, <2>4
  <2> QED BY <2>3, <2>5
<1>14. IsFiniteSet(S1) /\ Cardinality(S1) \in 0..R
  <2>1. \A p \in S1 : \E j \in 0..R - 1 : p = at + j * Width BY <1>13
  <2>2. at \in Nat \ {0} /\ R \in Nat BY <1>1, <1>5
  <2> HIDE DEF S1
  <2> QED BY <2>1, <2>2, FewInLine
<1>15. S2 \in SUBSET Starts(m, b, rest.len)
  <2> SUFFICES ASSUME NEW p \in S2 PROVE p \in Starts(m, b, rest.len) OBVIOUS
  <2>1. p \in at..at + k - 1 /\ p \in 1..l /\ p > e BY <1>1 DEF Starts
  <2>2. e <= l /\ b = e + 1 /\ m[b - 1] BY <1>1, <1>2, <2>1
  <2>3. p \in b..b + rest.len - 1
    <3>1. k = n + 1 + rest.len /\ rest.len \in Nat /\ n = e - at BY <1>3, <1>8 DEF k
    <3>2. e \in Nat /\ at \in Nat /\ p \in Nat /\ p > e /\ p <= at + k - 1 /\ b = e + 1
      <4>1. e \in at..l + 1 /\ at \in 1..l /\ l \in Nat BY <1>1, <1>2
      <4> QED BY ONLY <1>12, <2>1, <2>2, <4>1
    <3> DEFINE x == rest.len
    <3>3. k = n + 1 + x /\ x \in Nat /\ n = e - at BY <3>1
    <3> HIDE DEF x
    <3>4. p >= b /\ p <= b + x - 1 /\ b \in Nat BY ONLY <3>2, <3>3
    <3>5. p \in b..b + x - 1 BY ONLY <3>2, <3>3, <3>4
    <3> QED BY <3>5 DEF x
  <2>4. LineBegin(m, at, p) = LineBegin(m, b, p)
    <3>1. at \in Nat \ {0} /\ b \in Nat /\ at < b /\ p \in Nat /\ b <= p BY <1>1, <1>4, <2>1, <2>3
    <3> QED BY <2>2, <3>1, LaterLine
  <2>5. p = LineBegin(m, at, p) \/ (~m[p] /\ (p - LineBegin(m, at, p)) % Width = 0) BY DEF Starts
  <2> QED BY <1>1, <2>1, <2>3, <2>4, <2>5 DEF Starts
<1>16. Few(m, rows - R, b, rest.len) BY <1>6 DEF GoodPage
<1>17. IsFiniteSet(S2) /\ Cardinality(S2) \in 0..rows - R
  <2>1. IsFiniteSet(S2) /\ Cardinality(S2) <= Cardinality(Starts(m, b, rest.len)) BY <1>15, <1>16, FS_Subset DEF Few
  <2>2. Cardinality(S2) \in Nat BY <2>1, FS_CardinalityType
  <2> HIDE DEF S2
  <2> QED BY <1>4, <1>16, <2>1, <2>2 DEF Few
<1>18. S = S1 \cup S2
  <2>1. \A p \in S : p <= e \/ p > e
    <3>1. \A p \in S : p \in Int BY DEF Starts
    <3> QED BY <1>1, <1>2, <3>1
  <2> QED BY <2>1
<1>19. S1 \cap S2 = {}
  <2>1. \A p \in S : ~(p <= e /\ p > e)
    <3>1. \A p \in S : p \in Int BY DEF Starts
    <3> QED BY <1>1, <1>2, <3>1
  <2> QED BY <2>1
<1> HIDE DEF S, S1, S2
<1>20. IsFiniteSet(S) /\ Cardinality(S) = Cardinality(S1) + Cardinality(S2)
  <2>1. IsFiniteSet(S) /\ Cardinality(S) = Cardinality(S1) + Cardinality(S2) - Cardinality(S1 \cap S2)
        BY <1>14, <1>17, <1>18, FS_Union
  <2>2. Cardinality(S1 \cap S2) = 0 BY <1>19, FS_EmptySet
  <2> QED BY <1>14, <1>17, <2>1, <2>2
<1>21. Few(m, rows, at, page.len)
  <2>1. Cardinality(S) \in 0..rows BY <1>4, <1>14, <1>17, <1>20
  <2> QED BY <1>20, <2>1 DEF Few, S, k
<1>22. GoodPage(m, rows, at, page) BY <1>8, <1>9, <1>10, <1>11, <1>21 DEF GoodPage, l
<1> QED BY <1>22 DEF page, n

(* Rows are left after a line as they were before it: the rows that        *)
(* wrapped around are more than the characters left.                       *)
LEMMA RoomAfter ==
    ASSUME NEW m, Message(m), NEW at \in 1..Len(m), NEW rows, HasRoom(rows, at), rows # 0,
           LineLen(m, at) <= RoomOf(rows)
    PROVE  HasRoom(rows - RowsOf(LineLen(m, at), Width), After(m, at))
<1> DEFINE n == LineLen(m, at)
           e == LineEnd(m, at)
           R == RowsOf(n, Width)
           b == After(m, at)
           l == Len(m)
<1>1. l \in Nat /\ rows \in 0..Size - 1 /\ at \in 1..l /\ at \in 1..l + 1 /\ Size \in Nat
      BY ViAssumption DEF Message, HasRoom
<1>2. R \in 1..rows /\ (n > 0 => R <= n) /\ n \in Nat BY <1>1, AfterLine
<1>3. n = e - at /\ e \in at..l + 1 /\ b = IF e <= l THEN e + 1 ELSE l + 1 BY <1>1, LineEnds DEF LineLen
<1>4. rows * Width < Size \/ rows + at >= Size BY DEF HasRoom
<1> HIDE DEF n, e, R, b, l
<1>5. rows - R \in 0..Size - 1 BY <1>1, <1>2
<1>6. ASSUME rows * Width < Size PROVE (rows - R) * Width < Size
  <2>1. rows - R \in Nat /\ rows \in Nat /\ rows - R <= rows BY <1>1, <1>2
  <2>2. (rows - R) * Width <= rows * Width BY <2>1, Multiplied, PagesAssumption
  <2>3. (rows - R) * Width \in Nat /\ rows * Width \in Nat BY <2>1, Multiplied, PagesAssumption
  <2> QED BY <1>1, <1>6, <2>2, <2>3
<1>7. ASSUME rows + at >= Size PROVE (rows - R) + b >= Size
  <2>1. CASE e <= l
    <3>1. b = at + n + 1 BY <1>1, <1>3, <2>1
    <3>2. R <= n + 1
      <4>1. CASE n > 0 BY <1>2, <4>1
      <4>2. CASE n = 0
        <5>1. R = 1 BY <4>2, RowsOfLine, PagesAssumption, 0 \in Nat DEF R
        <5> QED BY <4>2, <5>1
      <4> QED BY <1>2, <4>1, <4>2
    <3> QED BY <1>1, <1>2, <1>7, <3>1, <3>2
  <2>2. CASE ~(e <= l)
    <3>1. e = l + 1 /\ b = at + n /\ n > 0 BY <1>1, <1>3, <2>2
    <3> QED BY <1>1, <1>2, <1>7, <3>1
  <2> QED BY <2>1, <2>2
<1>8. HasRoom(rows - R, b) BY <1>4, <1>5, <1>6, <1>7 DEF HasRoom
<1> QED BY <1>8 DEF R, b, n

(* All pages are good, from the last one back.                             *)
LEMMA CutsGood ==
    ASSUME NEW m, Message(m), NEW f, Cuts(m, 1, f)
    PROVE  \A at \in 1..Len(m) + 1, rows \in 0..Size - 1 :
               HasRoom(rows, at) => GoodPage(m, rows, at, f[<<rows, at>>])
<1> DEFINE n == Len(m)
           Good(at) == \A rows \in 0..Size - 1 : HasRoom(rows, at) => GoodPage(m, rows, at, f[<<rows, at>>])
           S == {k \in 0..n : \A at \in n + 1 - k..n + 1 : Good(at)}
<1>1. n \in Nat BY DEF Message
<1>2. ASSUME NEW at \in 1..n + 1, NEW rows \in 0..Size - 1
      PROVE  f[<<rows, at>>] = Cut(m, rows, at, f[<<rows - RowsOf(LineLen(m, at), Width), After(m, at)>>])
  <2>1. <<rows, at>> \in Places(m, 1) BY DEF Places
  <2> QED BY <2>1 DEF Cuts, Behind
<1>3. ASSUME NEW at \in 1..n + 1, \A b \in at + 1..n + 1 : Good(b) PROVE Good(at)
  <2> SUFFICES ASSUME NEW rows \in 0..Size - 1, HasRoom(rows, at) PROVE GoodPage(m, rows, at, f[<<rows, at>>])
    OBVIOUS
  <2> DEFINE left == rows - RowsOf(LineLen(m, at), Width)
             b    == After(m, at)
             rest == f[<<left, b>>]
  <2>1. f[<<rows, at>>] = Cut(m, rows, at, rest) BY <1>2
  <2> HIDE DEF Good
  <2>2. CASE rows = 0 \/ at > n
    <3>1. f[<<rows, at>>] = Page(at, 0, at, FALSE) BY <2>1, <2>2 DEF Cut
    <3>2. rows \in Nat /\ (rows = 0 \/ at > Len(m)) BY <2>2, ViAssumption
    <3>3. GoodPage(m, rows, at, Page(at, 0, at, FALSE)) BY <3>2, EmptyPage
    <3> QED BY <3>1, <3>3
  <2>3. CASE ~(rows = 0 \/ at > n) /\ LineLen(m, at) > RoomOf(rows)
    <3>1. at \in 1..n /\ rows \in Nat \ {0} /\ rows # 0 BY <1>1, <2>3, ViAssumption
    <3>2. f[<<rows, at>>] = SplitLine(m, at, RoomOf(rows)) BY <2>1, <2>3 DEF Cut
    <3>3. RoomOf(rows) = rows * Width /\ RoomOf(rows) > 0
      <4>1. LineLen(m, at) \in Int /\ RoomOf(rows) \in Nat
        <5>1. LineEnd(m, at) \in at..n + 1 BY <1>1, LineEnds
        <5> QED BY <1>1, <5>1, RoomOfRows DEF LineLen
      <4>2. ~(LineLen(m, at) <= RoomOf(rows)) BY <2>3, <4>1
      <4> QED BY <3>1, <4>2, RoomEnough
    <3>4. GoodPage(m, rows, at, SplitLine(m, at, rows * Width)) BY <2>3, <3>1, <3>3, SplitPage
    <3> QED BY <3>2, <3>3, <3>4
  <2>4. CASE ~(rows = 0 \/ at > n) /\ ~(LineLen(m, at) > RoomOf(rows))
    <3>1. at \in 1..n /\ rows # 0 BY <1>1, <2>4
    <3>2. LineLen(m, at) <= RoomOf(rows)
      <4>1. LineEnd(m, at) \in at..n + 1 BY <1>1, LineEnds
      <4>2. LineLen(m, at) \in Int /\ RoomOf(rows) \in Nat BY <1>1, <4>1, RoomOfRows DEF LineLen
      <4> QED BY <2>4, <4>2
    <3>3. f[<<rows, at>>] = [rest EXCEPT !.len = LineLen(m, at) + 1 + @] BY <2>1, <2>4 DEF Cut
    <3>4. HasRoom(left, b) BY <3>1, <3>2, RoomAfter
    <3>5. b \in at + 1..n + 1 /\ left \in 0..Size - 1
      <4>1. b \in at + 1..n + 1 BY <1>1, <3>1, <3>2, AfterLine
      <4> QED BY <3>4, <4>1 DEF HasRoom
    <3>6. Good(b) BY <1>3, <3>5
    <3>7. GoodPage(m, left, b, rest)
      <4> HIDE DEF left, b
      <4> QED BY <3>4, <3>5, <3>6 DEF Good
    <3>8. GoodPage(m, rows, at, [rest EXCEPT !.len = LineLen(m, at) + 1 + @])
      <4> HIDE DEF rest
      <4> QED BY <3>1, <3>2, <3>7, LinePage
    <3> QED BY <3>3, <3>8
  <2> QED BY <2>2, <2>3, <2>4
<1> HIDE DEF Good
<1>4. 0 \in S
  <2>1. \A b \in n + 1 + 1..n + 1 : Good(b) BY <1>1
  <2>2. n + 1 \in 1..n + 1 BY <1>1
  <2>3. Good(n + 1) BY <1>3, <2>1, <2>2
  <2>4. \A at \in n + 1 - 0..n + 1 : at = n + 1 BY <1>1
  <2> QED BY <1>1, <2>3, <2>4
<1>5. ASSUME NEW k \in 0..n, k \in S, k < n PROVE k + 1 \in S
  <2> DEFINE a == n - k
  <2>1. a \in 1..n + 1 /\ n + 1 - k = a + 1 /\ n + 1 - (k + 1) = a /\ k + 1 \in 0..n BY <1>1, <1>5
  <2> HIDE DEF a
  <2>2. \A b \in a + 1..n + 1 : Good(b) BY <1>5, <2>1
  <2>3. Good(a) BY <1>3, <2>1, <2>2
  <2>4. \A at \in a..n + 1 : at = a \/ at \in a + 1..n + 1 BY <1>1, <2>1
  <2>5. \A at \in a..n + 1 : Good(at) BY <2>2, <2>3, <2>4
  <2> QED BY <2>1, <2>5
<1> HIDE DEF S
<1>6. \A k \in 0..n : k \in S BY <1>1, <1>4, <1>5, SetInduction
<1>7. ASSUME NEW at \in 1..n + 1 PROVE Good(at)
  <2>1. n \in S BY <1>1, <1>6
  <2>2. at \in n + 1 - n..n + 1 BY <1>1
  <2> QED BY <2>1, <2>2 DEF S
<1> QED BY <1>7 DEF Good

(* The next page is a good one (_get_next_page_).                          *)
LEMMA NextPageGood ==
    ASSUME NEW m, Message(m), NEW rows, NEW at \in 1..Len(m), HasRoom(rows, at)
    PROVE  /\ GoodPage(m, rows, at, get_next_page(rows, Width, m, at))
           /\ get_next_page(rows, Width, m, at).from = at
<1>1. Len(m) \in Nat /\ rows \in 0..Size - 1 /\ at \in 1..Len(m) + 1 BY DEF Message, HasRoom
<1> DEFINE page == get_next_page(rows, Width, m, at)
<1>2. PICK f : Cuts(m, 1, f) /\ page = [f[<<rows, at>>] EXCEPT !.from = at] BY <1>1, NextPageIsCut
<1> DEFINE p == f[<<rows, at>>]
<1>3. GoodPage(m, rows, at, p) BY <1>1, <1>2, CutsGood
<1> HIDE DEF p, page
<1>4. p \in [from : Nat, len : Nat, next : at..Len(m) + 1, failed : BOOLEAN] BY <1>3 DEF GoodPage
<1>5. page = [p EXCEPT !.from = at] BY <1>2 DEF p
<1>6. /\ page \in [from : Nat, len : Nat, next : at..Len(m) + 1, failed : BOOLEAN]
      /\ page.len = p.len /\ page.next = p.next /\ page.failed = p.failed /\ page.from = at
      BY <1>1, <1>4, <1>5
<1>7. GoodPage(m, rows, at, page) BY <1>3, <1>6 DEF GoodPage
<1> QED BY <1>6, <1>7 DEF page

-----------------------------------------------------------------------------
(* The pages that are turned.                                              *)

(* The pages are those that get_next_page takes one after another, for the *)
(* message that is shown and the rows of the session, which no window had  *)
(* too many of.                                                            *)
TurnedOK ==
    /\ \E w \in Windows : nrows <= w
    /\ msg \in Msgs \cup {NoMsg, EmptyBufferMsg}
    /\ mode \in {"msg", "notice"} =>
          /\ msg # NoMsg
          /\ \A k \in 1..Len(ps) : /\ ps[k].from \in 1..Len(msg)
                                   /\ ps[k] = get_next_page(PageRows, Width, msg, ps[k].from)
          /\ \A k \in 1..Len(ps) - 1 : ps[k + 1].from = ps[k].next

(* A message that is shown has characters, and is in memory.               *)
LEMMA ShownMessage ==
    ASSUME NEW m \in Msgs \cup {EmptyBufferMsg}
    PROVE  Message(m) /\ (m # NoMsg => 1 \in 1..Len(m))
<1>1. m \in Seq(BOOLEAN) /\ Len(m) * (Width + 1) <= Size BY PagesAssumption
<1>2. Len(m) \in Nat /\ DOMAIN m = 1..Len(m) BY <1>1, LenProperties
<1>3. Len(m) = 0 => m = <<>> BY <1>1, EmptySeq
<1> QED BY <1>1, <1>2, <1>3 DEF Message, NoMsg

(* The pager has one row less than the session.                            *)
LEMMA RowsOfPager ==
    ASSUME NEW n \in 0..Size - 1, NEW w \in Windows, n <= w, NEW at \in Nat \ {0}
    PROVE  /\ HasRoom((n + Size - 1) % Size, at)
           /\ (n + Size - 1) % Size \in Nat
           /\ n # 1 => (n + Size - 1) % Size # 0
<1> DEFINE rows == (n + Size - 1) % Size
<1>1. Size \in Nat /\ Size > 1 /\ n \in 0..Size - 1 /\ w \in Nat /\ w * Width < Size
      BY ViAssumption, PagesAssumption
<1>2. rows = IF n = 0 THEN Size - 1 ELSE n - 1
  <2>1. CASE n = 0
    <3>1. n + Size - 1 = Size - 1 /\ Size - 1 \in 0..Size - 1 BY <1>1, <2>1
    <3> QED BY <1>1, <2>1, <3>1
  <2>2. CASE n # 0
    <3>1. n + Size - 1 = 1 * Size + (n - 1) /\ n - 1 \in 0..Size - 1 /\ 1 \in Nat BY <1>1, <2>2
    <3> QED BY <1>1, <2>2, <3>1, Remainder
  <2> QED BY <2>1, <2>2
<1> HIDE DEF rows
<1>3. rows \in 0..Size - 1 BY <1>1, <1>2
<1>4. n # 0 => rows * Width < Size
  <2> HAVE n # 0
  <2>1. rows \in Nat /\ rows <= w BY <1>1, <1>2
  <2>2. rows * Width <= w * Width /\ rows * Width \in Nat /\ w * Width \in Nat
        BY <1>1, <2>1, Multiplied, PagesAssumption
  <2> QED BY <1>1, <2>2
<1>5. n = 0 => rows + at >= Size BY <1>1, <1>2
<1> QED BY <1>1, <1>2, <1>3, <1>4, <1>5 DEF rows, HasRoom

(* Each page is a good one.                                                *)
LEMMA PagesTaken ==
    ASSUME TextOK, TurnedOK, mode \in {"msg", "notice"}, NEW k \in 1..Len(ps)
    PROVE  /\ Message(msg) /\ ps[k].from \in 1..Len(msg)
           /\ GoodPage(msg, PageRows, ps[k].from, ps[k])
           /\ PageRows \in Nat /\ (nrows # 1 => PageRows # 0)
<1>1. msg \in Msgs \cup {EmptyBufferMsg} /\ msg # NoMsg BY DEF TurnedOK
<1>2. Message(msg) BY <1>1, ShownMessage
<1>3. ps[k].from \in 1..Len(msg) /\ ps[k] = get_next_page(PageRows, Width, msg, ps[k].from) BY DEF TurnedOK
<1>4. PICK w \in Windows : nrows <= w BY DEF TurnedOK
<1>5. nrows \in 0..Size - 1 BY DEF TextOK
<1>6. ps[k].from \in Nat \ {0} BY <1>3
<1>7. HasRoom(PageRows, ps[k].from) /\ PageRows \in Nat /\ (nrows # 1 => PageRows # 0)
      BY <1>4, <1>5, <1>6, RowsOfPager DEF PageRows
<1>8. GoodPage(msg, PageRows, ps[k].from, get_next_page(PageRows, Width, msg, ps[k].from))
      BY <1>2, <1>3, <1>7, NextPageGood
<1> QED BY <1>2, <1>3, <1>7, <1>8

(* The pager is opened with a good page.                                   *)
LEMMA OpenedTurned ==
    ASSUME TextOK', \E w \in Windows : nrows' <= w,
           NEW m \in Msgs \cup {EmptyBufferMsg}, m # NoMsg, NEW how, OpenPager(m, how)
    PROVE  TurnedOK'
<1> DEFINE rows == (nrows' + Size - 1) % Size
           page == get_next_page(rows, Width, m, 1)
<1>1. ps' = <<page>> /\ msg' = m /\ rows = PageRows' BY DEF OpenPager, PageRows
<1>2. Message(m) /\ 1 \in 1..Len(m) BY ShownMessage
<1>3. PICK w \in Windows : nrows' <= w OBVIOUS
<1>4. nrows' \in 0..Size - 1 BY DEF TextOK
<1>5. HasRoom(rows, 1) BY <1>3, <1>4, RowsOfPager
<1> HIDE DEF rows
<1>6. page.from = 1 BY <1>2, <1>5, NextPageGood
<1> HIDE DEF page
<1>7. Len(ps') = 1 /\ ps'[1] = page BY <1>1
<1>8. \A k \in 1..Len(ps') : k = 1 BY <1>7
<1>9. page = get_next_page(rows, Width, m, page.from) BY <1>6 DEF page
<1>10. \A k \in 1..Len(ps') : ps'[k].from \in 1..Len(m) /\ ps'[k] = get_next_page(rows, Width, m, ps'[k].from)
       BY <1>2, <1>6, <1>7, <1>8, <1>9
<1>11. 1..Len(ps') - 1 = {} BY <1>7
<1> QED BY <1>1, <1>3, <1>10, <1>11 DEF TurnedOK

(* A page is added only where the last one left something.                 *)
LEMMA NextTurned == ASSUME TextOK, PagesOK, TurnedOK, NextPage PROVE TurnedOK'
<1>1. /\ mode \in {"msg", "notice"} /\ mode' = mode /\ msg' = msg /\ nrows' = nrows /\ PageRows' = PageRows
      /\ SpaceTurns(Len(ps), pagenum, Left) /\ pagenum' = pagenum + 1
      BY DEF NextPage, Paging, PageRows, winVars
<1>2. Len(ps) \in Nat /\ Len(ps) > 0 /\ pagenum \in 0..Len(ps) - 1
  <2>1. Len(ps) \in Nat BY PageAdded DEF PagesOK
  <2>2. pagenum \in 0..Len(ps) - 1 BY <1>1 DEF PagesOK
  <2> QED BY <2>1, <2>2
<1>3. CASE Len(ps) # pagenum'
  <2>1. ps' = ps BY <1>3 DEF NextPage
  <2> QED BY <1>1, <2>1 DEF TurnedOK
<1>4. CASE Len(ps) = pagenum'
  <2> DEFINE n    == Len(ps)
             from == LastPage.next
             page == get_next_page(PageRows, Width, msg, from)
  <2>1. ps' = Append(ps, page) BY <1>4 DEF NextPage
  <2>2. n \in 1..n /\ LastPage = ps[n] BY <1>2 DEF LastPage
  <2>3. Message(msg) /\ ps[n].from \in 1..Len(msg) /\ GoodPage(msg, PageRows, ps[n].from, ps[n])
        BY <1>1, <2>2, PagesTaken
  <2>4. from \in ps[n].from..Len(msg) + 1 /\ Len(msg) \in Nat
    <3>1. ps[n] \in [from : Nat, len : Nat, next : ps[n].from..Len(msg) + 1, failed : BOOLEAN] BY <2>3 DEF GoodPage
    <3> QED BY <2>2, <2>3, <3>1 DEF Message
  <2>5. Left > 0
    <3>1. (pagenum < n /\ Left > 0) \/ pagenum + 1 < n BY <1>1 DEF SpaceTurns
    <3>2. ~(pagenum + 1 < n) BY <1>1, <1>2, <1>4
    <3> QED BY <3>1, <3>2
  <2>6. from \in 1..Len(msg)
    <3>1. Left = Len(msg) + 1 - from BY DEF Left
    <3> HIDE DEF from
    <3> QED BY <2>3, <2>4, <2>5, <3>1
  <2>7. PICK w \in Windows : nrows <= w BY DEF TurnedOK
  <2>8. HasRoom(PageRows, from)
    <3>1. nrows \in 0..Size - 1 /\ from \in Nat \ {0} BY <2>6 DEF TextOK
    <3> HIDE DEF from
    <3> QED BY <2>7, <3>1, RowsOfPager DEF PageRows
  <2>9. page.from = from
    <3> HIDE DEF from
    <3> QED BY <2>3, <2>6, <2>8, NextPageGood
  <2>10. page = get_next_page(PageRows, Width, msg, page.from) /\ page.from \in 1..Len(msg)
    <3>1. page = get_next_page(PageRows, Width, msg, from) OBVIOUS
    <3> HIDE DEF page, from
    <3> QED BY <2>6, <2>9, <3>1
  <2> HIDE DEF page
  <2>11. Len(ps') = n + 1 /\ ps'[n + 1] = page /\ \A k \in 1..n : ps'[k] = ps[k]
    <3>1. PICK S : ps \in Seq(S) BY DEF PagesOK
    <3>2. ps \in Seq(S \cup {page}) /\ page \in S \cup {page} BY <3>1, SeqMonotonic
    <3> HIDE DEF from
    <3> QED BY <2>1, <3>2, AppendProperties
  <2>12. ASSUME NEW k \in 1..Len(ps')
         PROVE  ps'[k].from \in 1..Len(msg) /\ ps'[k] = get_next_page(PageRows, Width, msg, ps'[k].from)
    <3>1. CASE k = n + 1 BY <2>10, <2>11, <3>1
    <3>2. CASE k # n + 1
      <4>1. k \in 1..n BY <1>2, <2>11, <3>2
      <4> QED BY <1>1, <2>11, <4>1 DEF TurnedOK
    <3> QED BY <3>1, <3>2
  <2>13. ASSUME NEW k \in 1..Len(ps') - 1 PROVE ps'[k + 1].from = ps'[k].next
    <3>1. k \in 1..n BY <1>2, <2>11
    <3>2. CASE k = n BY <2>2, <2>9, <2>11, <3>1, <3>2
    <3>3. CASE k # n
      <4>1. k \in 1..n - 1 /\ k + 1 \in 1..n BY <1>2, <3>1, <3>3
      <4>2. ps[k + 1].from = ps[k].next BY <1>1, <4>1 DEF TurnedOK
      <4> QED BY <2>11, <3>1, <4>1, <4>2
    <3> QED BY <3>2, <3>3
  <2> HIDE DEF from, n
  <2>14. msg # NoMsg /\ msg \in Msgs \cup {NoMsg, EmptyBufferMsg} BY <1>1 DEF TurnedOK
  <2> QED BY <1>1, <2>7, <2>12, <2>13, <2>14 DEF TurnedOK
<1> QED BY <1>3, <1>4

(* Every step keeps the pages those of the message.                        *)
LEMMA TurnedInv == ASSUME TextOK, TextOK', PagesOK, TurnedOK, [Next]_vars PROVE TurnedOK'
<1>1. /\ \E w \in Windows : nrows <= w
      /\ msg \in Msgs \cup {NoMsg, EmptyBufferMsg}
      BY DEF TurnedOK
<1>2. ASSUME mode' \notin {"msg", "notice"}, msg' = msg \/ msg' = NoMsg, nrows' = nrows PROVE TurnedOK'
      BY <1>1, <1>2 DEF TurnedOK
<1>3. ASSUME mode' = mode, msg' = msg, nrows' = nrows, ps' = ps PROVE TurnedOK'
  <2>1. PageRows' = PageRows BY <1>3 DEF PageRows
  <2> QED BY <1>3, <2>1 DEF TurnedOK
<1>4. CASE KeyCtrl_F \/ KeyCtrl_B \/ KeyEnter
      BY <1>2, <1>4 DEF KeyCtrl_F, KeyCtrl_B, KeyEnter, Scrolled, Goto, winVars, msgVars
<1>5. CASE EditLine BY <1>3, <1>5 DEF EditLine, viVars, winVars, msgVars
<1>6. CASE LineFails \/ EnterLine BY <1>2, <1>6 DEF LineFails, EnterLine, Goto, winVars, msgVars
<1>7. CASE Resize BY <1>3, <1>7 DEF Resize, msgVars
<1>8. CASE RunLine
  <2>1. mode' = "show" /\ (msg' = msg \/ msg' \in Msgs) BY <1>8 DEF RunLine, Goto
  <2>2. nrows' = nrows \/ nrows' = window BY <1>8 DEF RunLine
  <2>3. \E w \in Windows : nrows' <= w
    <3>1. CASE nrows' = nrows BY <1>1, <3>1
    <3>2. CASE nrows' = window
      <4>1. window \in Windows /\ window \in Nat BY ViAssumption DEF TextOK
      <4> QED BY <3>2, <4>1
    <3> QED BY <2>2, <3>1, <3>2
  <2> QED BY <1>1, <2>1, <2>3 DEF TurnedOK
<1>9. CASE ui_vi_show_session
  <2>1. nrows' = UpdatedRows(nrows, window) BY <1>9 DEF ui_vi_show_session
  <2>2. nrows \in 0..Size - 1 /\ window \in Windows BY DEF TextOK
  <2>3. nrows' \in 0..nrows BY <2>1, <2>2, Rows
  <2>4. \E w \in Windows : nrows' <= w
    <3>1. PICK w \in Windows : nrows <= w BY <1>1
    <3>2. w \in Nat /\ nrows \in Nat /\ nrows' \in Nat BY <2>2, <2>3, ViAssumption
    <3>3. nrows' <= w BY <2>3, <3>1, <3>2
    <3> QED BY <3>3
  <2>5. CASE window > 3 /\ msg # NoMsg
    <3>1. OpenPager(msg, "msg") BY <1>9, <2>2, <2>5, ViAssumption DEF ui_vi_show_session
    <3>2. msg \in Msgs \cup {EmptyBufferMsg} BY <1>1, <2>5
    <3> QED BY <2>4, <2>5, <3>1, <3>2, OpenedTurned
  <2>6. CASE ~(window > 3 /\ msg # NoMsg)
    <3>1. mode' \in {"error", "default"} /\ msg' = msg
          BY <1>9, <2>2, <2>6, ViAssumption DEF ui_vi_show_session, Goto, msgVars
    <3> QED BY <1>1, <2>4, <3>1 DEF TurnedOK
  <2> QED BY <2>5, <2>6
<1>10. CASE ui_vi_show_session_default
  <2>1. nrows' = nrows BY <1>10 DEF ui_vi_show_session_default, winVars
  <2>2. CASE count = 0
    <3>1. OpenPager(EmptyBufferMsg, "notice") BY <1>10, <2>2 DEF ui_vi_show_session_default
    <3>2. EmptyBufferMsg # NoMsg /\ EmptyBufferMsg \in Msgs \cup {EmptyBufferMsg}
      <4>1. Len(<<FALSE, TRUE>>) = 2 /\ Len(<<>>) = 0 OBVIOUS
      <4> QED BY <4>1 DEF EmptyBufferMsg, NoMsg
    <3> QED BY <1>1, <2>1, <3>1, <3>2, OpenedTurned
  <2>3. CASE count # 0
    <3>1. mode' = "keys" /\ msg' = msg BY <1>10, <2>3 DEF ui_vi_show_session_default, Goto, msgVars
    <3> QED BY <1>2, <2>1, <3>1
  <2> QED BY <2>2, <2>3
<1>11. CASE ShowError BY <1>2, <1>11 DEF ShowError, Goto, winVars
<1>12. CASE NextPage BY <1>12, NextTurned
<1>13. CASE PrevPage BY <1>3, <1>13 DEF PrevPage, Paging, winVars
<1>14. CASE QuitPager BY <1>2, <1>14 DEF QuitPager, Paging, Goto, winVars
<1>15. CASE UNCHANGED vars BY <1>3, <1>15 DEF vars, viVars, winVars, msgVars
<1> QED BY <1>4, <1>5, <1>6, <1>7, <1>8, <1>9, <1>10, <1>11, <1>12, <1>13, <1>14, <1>15 DEF Next

(* A page that is taken fits, and says when it cannot be shown.            *)
LEMMA Fit == ASSUME TextOK, PagesOK, TurnedOK PROVE PagesFit
<1> SUFFICES ASSUME mode \in {"msg", "notice"}, NEW k \in DOMAIN ps
             PROVE  /\ Cardinality(Starts(msg, ps[k].from, ps[k].len)) <= PageRows
                    /\ nrows # 1 => ps[k].len > 0 \/ ps[k].failed
                    /\ ps[k].failed => ~msg[Len(msg)]
    BY DEF PagesFit, Starts, Shows, LineBegin
<1>1. k \in 1..Len(ps) BY LenProperties DEF PagesOK
<1>2. /\ Message(msg) /\ ps[k].from \in 1..Len(msg)
      /\ GoodPage(msg, PageRows, ps[k].from, ps[k])
      /\ PageRows \in Nat /\ (nrows # 1 => PageRows # 0)
      BY <1>1, PagesTaken
<1>3. Few(msg, PageRows, ps[k].from, ps[k].len) BY <1>2 DEF GoodPage
<1>4. nrows # 1 => ps[k].len > 0 \/ ps[k].failed BY <1>2 DEF GoodPage
<1>5. ps[k].failed => ~msg[Len(msg)] BY <1>2 DEF GoodPage
<1> QED BY <1>2, <1>3, <1>4, <1>5 DEF Few

(* What a page leaves is what the next one shows.                          *)
LEMMA Follow == ASSUME TextOK, PagesOK, TurnedOK PROVE PagesFollow
<1> SUFFICES ASSUME mode \in {"msg", "notice"}, NEW k \in 1..Len(ps) - 1
             PROVE  LET end == ps[k].from + ps[k].len
                    IN  ps[k + 1].from = end \/ (ps[k].len > 0 /\ ps[k + 1].from = end + 1 /\ ~msg[end - 1])
    BY DEF PagesFollow
<1>1. Len(ps) \in Nat BY LenProperties DEF PagesOK
<1>2. k \in 1..Len(ps) /\ k + 1 \in 1..Len(ps) BY <1>1
<1>3. ps[k + 1].from = ps[k].next /\ ps[k + 1].from \in 1..Len(msg) BY <1>2 DEF TurnedOK
<1>4. Message(msg) /\ GoodPage(msg, PageRows, ps[k].from, ps[k]) BY <1>2, PagesTaken
<1>5. ps[k].next <= Len(msg) BY <1>3, <1>4 DEF Message
<1> QED BY <1>3, <1>4, <1>5 DEF GoodPage

(* The last row names the keys that turn pages (ui_vi_flush_msg_read_input,*)
(* as the hint is chosen before the key is read).                          *)
LEMMA Hinted == ASSUME TextOK, PagesOK, TurnedOK PROVE HintsHold
<1> SUFFICES ASSUME mode \in {"msg", "notice"} PROVE HintsHold BY DEF HintsHold
<1> DEFINE n    == Len(ps)
           left == Left
           hint == Hint(n, pagenum, left)
<1>1. n \in Nat /\ pagenum \in 0..n - 1 BY LenProperties DEF PagesOK
<1>2. left \in Nat
  <2>1. n \in 1..n BY <1>1
  <2>2. Message(msg) /\ ps[n].from \in 1..Len(msg) /\ GoodPage(msg, PageRows, ps[n].from, ps[n]) BY <2>1, PagesTaken
  <2>3. ps[n] \in [from : Nat, len : Nat, next : ps[n].from..Len(msg) + 1, failed : BOOLEAN] BY <2>2 DEF GoodPage
  <2>4. ps[n].next \in ps[n].from..Len(msg) + 1 /\ Len(msg) \in Nat BY <2>2, <2>3 DEF Message
  <2> HIDE DEF n
  <2> QED BY <2>2, <2>4 DEF Left, LastPage, n
<1> HIDE DEF n, left
<1>3. /\ "space" \in hint <=> SpaceTurns(n, pagenum, left)
      /\ "backspace" \in hint <=> pagenum > 0
  <2>1. CASE n = 1 /\ left = 0 BY <1>1, <2>1 DEF Hint, SpaceTurns
  <2>2. CASE ~(n = 1 /\ left = 0) /\ left = 0 /\ pagenum + 1 = n
    <3>1. hint = {"backspace", "q"} BY <2>2 DEF Hint
    <3>2. pagenum > 0 /\ ~SpaceTurns(n, pagenum, left) BY <1>1, <2>2 DEF SpaceTurns
    <3> HIDE DEF hint
    <3> QED BY <3>1, <3>2
  <2>3. CASE ~(left = 0 /\ pagenum + 1 = n) /\ pagenum = 0
    <3>1. hint = {"space", "q"} BY <1>1, <2>3 DEF Hint
    <3>2. SpaceTurns(n, pagenum, left) BY <1>1, <1>2, <2>3 DEF SpaceTurns
    <3> HIDE DEF hint
    <3> QED BY <1>1, <2>3, <3>1, <3>2
  <2>4. CASE ~(left = 0 /\ pagenum + 1 = n) /\ pagenum # 0
    <3>1. hint = {"space", "backspace", "q"} BY <1>1, <2>4 DEF Hint
    <3>2. SpaceTurns(n, pagenum, left) BY <1>1, <1>2, <2>4 DEF SpaceTurns
    <3> HIDE DEF hint
    <3> QED BY <1>1, <2>4, <3>1, <3>2
  <2> QED BY <1>1, <2>1, <2>2, <2>3, <2>4
<1> QED BY <1>3 DEF HintsHold, n, left

(* A message can be read page by page, for every message, window and width *)
(* of it: a page has no more rows than it may, it shows something or says  *)
(* that it cannot, the next one begins where it ends but for a character   *)
(* where a line is split, and the keys that turn pages are those that the  *)
(* last row names (_get_next_page_, ui_vi_flush_msg_read_input).           *)
THEOREM MessagesRead == Spec => []PagesGood
<1>1. ViInit => PagesOK /\ TurnedOK
  <2> SUFFICES ASSUME ViInit PROVE PagesOK /\ TurnedOK OBVIOUS
  <2>1. ps \in Seq({}) /\ mode = "show" BY EmptySeq DEF ViInit
  <2>2. nrows = window /\ window \in Windows /\ msg = NoMsg BY ViAssumption DEF ViInit
  <2>3. \E w \in Windows : nrows <= w
    <3>1. window \in Nat BY <2>2, ViAssumption
    <3> QED BY <2>2, <3>1
  <2> QED BY <2>1, <2>2, <2>3 DEF PagesOK, TurnedOK
<1>2. TextOK /\ PagesOK /\ TurnedOK => PagesGood BY Fit, Follow, Hinted DEF PagesGood
<1> QED BY <1>1, <1>2, StartsInText, TextInv, PagesInv, TurnedInv, PTL DEF Spec
=============================================================================
