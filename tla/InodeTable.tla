----------------------------- MODULE InodeTable -----------------------------
(***************************************************************************)
(* The two lists the file system keeps as text in memcached, seen as       *)
(* sequences: the global inode table ("path\nino\npath\nino\n...") as a    *)
(* sequence of entries, and a directory's links ("name\nname\n...") as a   *)
(* sequence of names.  Both are searched with strstr, so an operation may  *)
(* hit a longer text that merely contains the one it looks for; the text   *)
(* that results no longer has the line structure above, and is Garbled.    *)
(***************************************************************************)
EXTENDS Integers, Sequences, SequencesExt

CONSTANTS
  Names,            \* the file names in use
  Paths,            \* the paths in use: sequences of names, the root is <<>>
  StartsWith,       \* <<n, m>>: the text of name m starts with the text of n
  TextWithin,         \* <<n, m>>: the text of name n occurs in the text of m
  StackNewline,     \* the values "c is already a newline" may have before the
                    \* loop of data_parser.c:248, where c is uninitialized
  Absent,           \* what memcached_get returns for a key that is not there
  Garbled           \* a list whose text lost its line structure

Root == <<>>

ASSUME PathsAssumption ==
  /\ Paths \subseteq Seq(Names) /\ Root \in Paths
  /\ \A p \in Paths : p # Root => SubSeq(p, 1, Len(p) - 1) \in Paths

ASSUME TextAssumption ==
  /\ StartsWith \subseteq TextWithin /\ TextWithin \subseteq Names \X Names
  /\ \A n \in Names : <<n, n>> \in StartsWith
  /\ StackNewline \subseteq BOOLEAN /\ StackNewline # {}
  /\ Absent # Garbled /\ {Absent, Garbled} \cap Seq(Names) = {}

get_parent_directory(p) == SubSeq(p, 1, Len(p) - 1)

get_name_from_path(p) == p[Len(p)]

Entry == [path : Paths, ino : Nat]

\* No value of a key looks like a key that is not there, no list like a garbled
\* text.
ASSUME AbsentAssumption ==
  /\ Absent \notin Nat /\ Absent \notin Seq(Entry) /\ Garbled \notin Seq(Entry)
  /\ \A ps \in SUBSET Paths : Absent \notin [ps -> Nat]

EntryPaths(tbl) == {tbl[j].path : j \in DOMAIN tbl}

EntryInos(tbl) == {tbl[j].ino : j \in DOMAIN tbl}

\* A text that was read back is a list only if it is there and has lines.
IsList(text) == text \notin {Absent, Garbled}

(***************************************************************************)
(* strstr(table, p) hits the entry of q: a path starts with '/' and names  *)
(* have none, so all names but the last match whole and the last one of p  *)
(* may be the beginning of a longer name.                                  *)
(***************************************************************************)
OccursIn(p, q) ==
  \E k \in 0..(Len(q) - Len(p)) :
    /\ \A i \in 1..(Len(p) - 1) : q[k + i] = p[i]
    /\ <<p[Len(p)], q[k + Len(p)]>> \in StartsWith

add_inode_to_table(tbl, p, i) ==
  IF tbl = Garbled THEN Garbled ELSE Append(tbl, [path |-> p, ino |-> i])

\* The entry of p itself is the first one strstr finds.
IsFirstHit(j, tbl, p) ==
  /\ tbl[j].path = p
  /\ \A k \in 1..(j - 1) : ~ OccursIn(p, tbl[k].path)

\* Mutant: what follows the entry is forgotten.
remove_inode_from_table_M(tbl, p, newline) ==
  IF tbl = Garbled THEN Garbled
  ELSE IF \A j \in DOMAIN tbl : ~ OccursIn(p, tbl[j].path) THEN Absent
  ELSE IF \E j \in DOMAIN tbl : IsFirstHit(j, tbl, p) /\ ~ newline
       THEN SubSeq(tbl, 1, (CHOOSE j \in DOMAIN tbl : IsFirstHit(j, tbl, p)) - 1)
       ELSE Garbled

\* NULL when p does not occur.  newline is what c holds before the loop: when
\* it is a newline already, the digits of the entry are left behind.
remove_inode_from_table(tbl, p, newline) ==
  IF tbl = Garbled THEN Garbled
  ELSE IF \A j \in DOMAIN tbl : ~ OccursIn(p, tbl[j].path) THEN Absent
  ELSE IF \E j \in DOMAIN tbl : IsFirstHit(j, tbl, p) /\ ~ newline
       THEN RemoveAt(tbl, CHOOSE j \in DOMAIN tbl : IsFirstHit(j, tbl, p))
       ELSE Garbled

\* The hash table built from the text: of two entries for one path uthash
\* finds the one added last.
hashtable_string_to_table(tbl) ==
  [p \in EntryPaths(tbl) |->
     tbl[CHOOSE j \in DOMAIN tbl :
           /\ tbl[j].path = p
           /\ \A k \in (j + 1)..Len(tbl) : tbl[k].path # p].ino]

add_link(lnks, n) ==
  IF lnks = Garbled THEN Garbled
  ELSE IF lnks = Absent THEN <<n>>
  ELSE Append(lnks, n)

IsFirstLink(j, lnks, n) ==
  /\ lnks[j] = n
  /\ \A k \in 1..(j - 1) : <<n, lnks[k]>> \notin TextWithin

\* Absent stands for strstr returning NULL.
remove_link(lnks, n) ==
  IF lnks = Garbled THEN Garbled
  ELSE IF \A j \in DOMAIN lnks : <<n, lnks[j]>> \notin TextWithin THEN Absent
  ELSE IF \E j \in DOMAIN lnks : IsFirstLink(j, lnks, n)
       THEN RemoveAt(lnks, CHOOSE j \in DOMAIN lnks : IsFirstLink(j, lnks, n))
       ELSE Garbled
=============================================================================
