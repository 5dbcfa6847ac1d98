----------------------------- MODULE Bookmarks -----------------------------
(* The file of bookmarks as the program reads, changes and writes it       *)
(* (bookmark.c).  The source is a sequence of the tags that matter; a page *)
(* is a sequence of sections, each with its name, the entries in its list, *)
(* and whether it has a list, as a file that was cut short may not.  The   *)
(* first section is what comes before any <h2>.  Names are sequences, as   *)
(* they are looked for by their beginning.                                 *)
EXTENDS Disk

CONSTANTS
    MarkupIds,      \* the entries whose title or url has markup
    MarkupNames     \* the names of sections that have

Section(name) == [name |-> name, ul |-> FALSE, entries |-> <<>>]

(* The html parser, which takes what it is given: a file that is empty or  *)
(* cut short has a body all the same.                                      *)
ReadTag(doc, tag) ==
    LET last == Len(doc)
    IN  CASE tag[1] = "h2" -> Append(doc, Section(tag[2]))
          [] tag[1] = "ul" -> [doc EXCEPT ![last].ul = TRUE]
          [] tag[1] = "li" -> [doc EXCEPT ![last].entries = Append(@, tag[2])]
          [] OTHER -> doc

Read(source) ==
    LET read[k \in 0..Len(source)] ==
          IF k = 0 THEN <<Section(<<>>)>> ELSE ReadTag(read[k - 1], source[k])
    IN  read[Len(source)]

(* Text and links are written as they are, neither escaped nor quoted.     *)
(* What stands for markup is the opening of an element of raw text, as     *)
(* <script>: it takes all that follows, to the end of the file, for its    *)
(* own, and the tag that it is in keeps none of it.  Other markup loses    *)
(* less.                                                                   *)
HasMarkup(tag) ==
    \/ tag[1] = "li" /\ tag[2] \in MarkupIds
    \/ tag[1] = "h2" /\ tag[2] \in MarkupNames

BareTag(tag) == IF tag[1] = "li" THEN <<"li", 0>> ELSE <<"h2", <<>>>>

Seen(source) ==
    LET marked == {k \in DOMAIN source : HasMarkup(source[k])}
        first  == CHOOSE k \in marked : \A j \in marked : k <= j
    IN  IF marked = {} THEN source
        ELSE Append(SubSeq(source, 1, first - 1), BareTag(source[first]))

Parsed(source) == Read(Seen(source))

Heads(doc) == 2..Len(doc)

(* Mutant: a name is always looked for by its beginning.                   *)
Matches_prefix(doc, word, prefix) == {i \in Heads(doc) : IsPrefix(word, doc[i].name)}

(* strncmp up to the length of the word, or of the name.                   *)
Matches(doc, word, prefix) ==
    {i \in Heads(doc) : IF prefix THEN IsPrefix(word, doc[i].name) ELSE word = doc[i].name}

(* Where the entry goes: the list of the one section that matches, a new   *)
(* section, or an error.                                                   *)
Nowhere == 0
Anew(doc) == Len(doc) + 1

bookmark_section_ul_get(doc, word, prefix) ==
    LET found == Matches(doc, word, prefix)
    IN  IF found = {} THEN IF prefix THEN Nowhere ELSE Anew(doc)
        ELSE IF \E i, j \in found : i # j THEN Nowhere
        ELSE LET i == CHOOSE i \in found : TRUE IN IF doc[i].ul THEN i ELSE Nowhere

bookmark_section_insert(doc, word, id) ==
    Append(doc, [name |-> word, ul |-> TRUE, entries |-> <<id>>])

EntryAdded(doc, word, place, id) ==
    IF place = Anew(doc) THEN bookmark_section_insert(doc, word, id)
    ELSE [doc EXCEPT ![place].entries = Append(@, id)]

(* What is written: no text but that of titles and links.                  *)
Entries(section) == [k \in DOMAIN section.entries |-> <<"li", section.entries[k]>>]

SectionSource(section) ==
    <<<<"h2", section.name>>>> \o (IF section.ul THEN <<<<"ul", <<>>>>>> ELSE <<>>) \o Entries(section)

bookmark_to_source(doc) ==
    LET upto[i \in 1..Len(doc)] ==
          IF i = 1 THEN <<<<"head", <<>>>>>> \o Entries(doc[1])
          ELSE upto[i - 1] \o SectionSource(doc[i])
    IN  Append(upto[Len(doc)], <<"tail", <<>>>>)

EmptyBookmark == <<<<"head", <<>>>>, <<"tail", <<>>>>>>
=============================================================================
