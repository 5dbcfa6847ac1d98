-------------------------------- MODULE Disk --------------------------------
(* Files by name, and by what an open FILE or descriptor refers to: a file *)
(* that is removed while it is open goes on being written, and is lost.    *)
(* What is written is a sequence of items, as small as the properties tell *)
(* apart.  A disk is a value: the actions of Saving say what becomes of it.*)
EXTENDS Naturals, Sequences, SequencesExt

Blank(paths) == [dir |-> [p \in paths |-> 0], data |-> <<>>]

Exists(d, path) == d.dir[path] # 0

File(d, path) == IF Exists(d, path) THEN d.data[d.dir[path]] ELSE <<>>

Made(d, path) ==
    IF Exists(d, path) THEN d
    ELSE [dir |-> [d.dir EXCEPT ![path] = Len(d.data) + 1], data |-> Append(d.data, <<>>)]

(* fopen with mode "a", and with mode "w".                                 *)
OpenToAppend(d, path) == Made(d, path)
OpenToWrite(d, path)  == [Made(d, path) EXCEPT !.data[Made(d, path).dir[path]] = <<>>]

(* A stream that was opened to append, and one that writes from the start  *)
(* of the file, over what another may have written there.                  *)
Appended(d, ino, items) == [d EXCEPT !.data[ino] = @ \o items]

Written(d, ino, items) ==
    [d EXCEPT !.data[ino] = items \o SubSeq(@, Len(items) + 1, Len(@))]

(* remove(3): the open streams go on writing to what no name refers to.    *)
Removed(d, paths) == [d EXCEPT !.dir = [p \in DOMAIN @ |-> IF p \in paths THEN 0 ELSE @[p]]]
=============================================================================
