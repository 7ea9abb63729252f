----------------------------- MODULE Attributes -----------------------------
(***************************************************************************)
(* The text of one inode, under its key in memcached: lines of names and   *)
(* values, first the attributes st_ino to st_blocks, then st_content of a  *)
(* symlink, then the extended attributes in the order they were added.     *)
(* data_parser.c finds a name with strstr, so in the first line that       *)
(* contains it.  The names "st_..." come first and are always found where  *)
(* they are (the names of extended attributes have a dot, numbers do not), *)
(* so those lines are kept as a record; the lines after them stay lines.   *)
(*                                                                         *)
(* Every handler that changes the inode gets the whole text, changes one   *)
(* attribute of it and sets the whole text.  The kernel keeps two such     *)
(* handlers apart on one path, but takes two hard links to a file for two  *)
(* files.                                                                  *)
(***************************************************************************)
EXTENDS Integers, Sequences, FiniteSets, SequencesExt

CONSTANTS
  Threads,          \* the worker threads of fuse_main
  Aliases,          \* the paths that are hard links to the inode
  XNames,           \* the names of extended attributes in use
  XValues,          \* the values in use: sequences of lines
  Target,           \* the lines st_content of a symlink adds, <<>> for a file
  Starts, Ends,     \* <<n, l>>: name n is first found in line l at its start; at
  Occurs,           \* its end; anywhere
  Ops,              \* the calls that are made
  MaxLinks,         \* bound on the names of the inode
  MaxLines          \* bound on the lines after st_blocks

ASSUME AttributesAssumption ==
  /\ Threads # {} /\ Aliases # {} /\ MaxLinks \in Nat /\ MaxLines \in Nat
  /\ Starts \cup Ends \subseteq Occurs
  /\ \A n \in XNames : <<n, n>> \in Starts \cap Ends
  /\ \A v \in XValues : Len(v) > 0

VARIABLES
  attr,             \* memcached: the attributes up to st_blocks
  lines,            \* memcached: the lines after them, or Garbled
  thread            \* what each thread is doing

vars == <<attr, lines, thread>>

Empty == ""                     \* an empty line

NULL == <<"NULL">>              \* no line

Torn == <<"torn">>              \* part of a line, or foreign memory

Garbled == <<"garbled">>        \* lines that run into each other

NewAttr == [st_mode |-> 0, st_uid |-> 0, st_gid |-> 0, st_nlink |-> 1,
            st_size |-> 0, st_blocks |-> 0]

\* Names and values alternate.
NamesOf(ls) == {ls[j] : j \in {k \in DOMAIN ls : k % 2 = 1}}

ValueOf(ls, n) == <<ls[1 + CHOOSE j \in DOMAIN ls : j % 2 = 1 /\ ls[j] = n]>>

Store ==
  INSTANCE AttrStore WITH
    Callers <- Threads, Names <- XNames, Values <- XValues,
    Initial <- NewAttr, Missing <- NULL,
    xattr <- [n \in NamesOf(lines) |-> ValueOf(lines, n)],
    answer <- [t \in Threads |-> thread[t].answer]

\* answer is history: the last call that returned.
Idle == [pc |-> "idle", alias |-> CHOOSE a \in Aliases : TRUE,
         call |-> [op |-> "none"], attr |-> NewAttr, lines |-> <<>>,
         answer |-> [op |-> "none"]]

Init ==
  /\ attr = NewAttr
  /\ lines = Target
  /\ thread = [t \in Threads |-> Idle]

-----------------------------------------------------------------------------
(* data_parser.c on the lines after st_blocks.                             *)

Hits(ls, n) == {j \in DOMAIN ls : <<n, ls[j]>> \in Occurs}

FirstHit(ls, n) == CHOOSE j \in Hits(ls, n) : \A k \in Hits(ls, n) : j <= k

\* One line, the one after the name.  Where text follows the name in its line, all
\* of it but one character.
get_attr_value_str(ls, n) ==
  LET j == FirstHit(ls, n)
  IN  IF Hits(ls, n) = {} THEN NULL
      ELSE IF <<n, ls[j]>> \in Ends /\ j < Len(ls) THEN <<ls[j + 1]>>
      ELSE Torn

\* Mutant: the line before goes as well.
Splice_M(ls, j, m, new) == SubSeq(ls, 1, j - 2) \o new \o SubSeq(ls, j + m, Len(ls))

\* m lines from the j-th on are replaced.
Splice(ls, j, m, new) == SubSeq(ls, 1, j - 1) \o new \o SubSeq(ls, j + m, Len(ls))

\* The name, and all from the second character after it to the next line end, is
\* replaced: two lines when the name ends its line, of which what is before the
\* name stays, and only the one line when text follows the name.
modify_attr_str(ls, n, v) ==
  LET j == FirstHit(ls, n)
  IN  IF Hits(ls, n) = {} THEN Garbled
      ELSE IF <<n, ls[j]>> \in Ends /\ j < Len(ls) THEN Splice(ls, j, 2, <<ls[j]>> \o v)
      ELSE IF <<n, ls[j]>> \in Starts \ Ends THEN Splice(ls, j, 1, <<n>> \o v)
      ELSE Garbled

add_attr(ls, n, v) == ls \o <<n>> \o v

\* Mutant: the value stays.
remove_extended_attr_M(ls, n) ==
  LET j == FirstHit(ls, n)
  IN  IF Hits(ls, n) = {} THEN NULL ELSE Splice(ls, j, 1, <<>>)

\* The line from the name on goes, and the next one.
remove_extended_attr(ls, n) ==
  LET j == FirstHit(ls, n)
  IN  IF Hits(ls, n) = {} THEN NULL
      ELSE IF <<n, ls[j]>> \in Starts /\ j < Len(ls) THEN Splice(ls, j, 2, <<>>)
      ELSE Garbled

\* strtok passes over empty lines; of the others every other one is taken for a
\* name.
get_extended_attrs_list(ls) ==
  LET Tokens == {j \in DOMAIN ls : ls[j] # Empty}
      Number(j) == Cardinality({k \in Tokens : k <= j})
  IN  {ls[j] : j \in {k \in Tokens : Number(k) % 2 = 1}}

-----------------------------------------------------------------------------
(* The handlers.                                                           *)

Changes == {x \in Store!Calls : x.op \in Ops}

\* The kernel keeps changes through one path apart.
Busy(alias) ==
  \E t \in Threads : thread[t].pc = "set" /\ thread[t].alias = alias

IsInBounds(x) ==
  /\ x.op = "link" => attr.st_nlink < MaxLinks
  /\ x.op = "setxattr" => Len(lines) + Len(x.value) < MaxLines

\* The get that a handler starts with.  delete_inode sets the inode only when it
\* has another name; the last one is the subject of Namespace.
GetForChange(t) ==
  /\ thread[t].pc = "idle" /\ lines # Garbled
  /\ \E x \in Changes, alias \in Aliases :
       /\ ~ Busy(alias) /\ IsInBounds(x)
       /\ x.op = "unlink" => attr.st_nlink > 1
       /\ thread' = [thread EXCEPT ![t] = [@ EXCEPT !.pc = "set", !.alias = alias,
                                     !.call = x, !.attr = attr, !.lines = lines]]
  /\ UNCHANGED <<attr, lines>>

Look(t, answer) ==
  /\ thread[t].pc = "idle" /\ lines # Garbled /\ answer.op \in Ops
  /\ thread' = [thread EXCEPT ![t].answer = answer]
  /\ UNCHANGED <<attr, lines>>

memcached_getattr(t) == Look(t, [op |-> "getattr", found |-> attr])

\* The size of the caller's buffer only cuts the copy.
memcached_getxattr(t, n) ==
  Look(t, [op |-> "getxattr", name |-> n, found |-> get_attr_value_str(lines, n)])

\* The target is copied into the buffer of libfuse without an end: the caller gets
\* the target, or the target and more, as the buffer has it.
memcached_readlink(t) ==
  /\ Target # <<>>
  /\ \E found \in {get_attr_value_str(lines, "st_content"), Torn} :
       Look(t, [op |-> "readlink", found |-> found])

memcached_listxattr(t) ==
  Look(t, [op |-> "listxattr", found |-> get_extended_attrs_list(lines)])

\* Mutant: the group is changed in the text that was read, not in the one with
\* the new owner.
NewAttributes_M(x, a) ==
  CASE x.op = "chmod" -> [a EXCEPT !.st_mode = x.mode]
    [] x.op = "chown" -> IF x.gid # -1 THEN [a EXCEPT !.st_gid = x.gid]
                         ELSE [a EXCEPT !.st_uid = x.uid]
    [] x.op = "write" -> [a EXCEPT !.st_blocks = x.blocks,
                                   !.st_size = IF x.end > @ THEN x.end ELSE @]
    [] x.op = "link" -> [a EXCEPT !.st_nlink = @ + 1]
    [] x.op = "unlink" -> [a EXCEPT !.st_nlink = @ - 1]
    [] OTHER -> a

\* The attributes in the text that is set.
NewAttributes(x, a) ==
  CASE x.op = "chmod" -> [a EXCEPT !.st_mode = x.mode]
    [] x.op = "chown" -> [a EXCEPT !.st_uid = IF x.uid # -1 THEN x.uid ELSE @,
                                   !.st_gid = IF x.gid # -1 THEN x.gid ELSE @]
    [] x.op = "write" -> [a EXCEPT !.st_blocks = x.blocks,
                                   !.st_size = IF x.end > @ THEN x.end ELSE @]
    [] x.op = "link" -> [a EXCEPT !.st_nlink = @ + 1]
    [] x.op = "unlink" -> [a EXCEPT !.st_nlink = @ - 1]
    [] OTHER -> a

memcached_setxattr(ls, n, v) ==
  IF get_attr_value_str(ls, n) = NULL THEN add_attr(ls, n, v)
  ELSE modify_attr_str(ls, n, v)

NewLines(x, ls) ==
  CASE x.op = "setxattr" -> memcached_setxattr(ls, x.name, x.value)
    [] x.op = "removexattr" -> remove_extended_attr(ls, x.name)
    [] OTHER -> ls

\* The set of the whole text, unless removexattr found nothing to remove.
Set(t) ==
  LET x == thread[t].call
      new == NewLines(x, thread[t].lines)
  IN  /\ thread[t].pc = "set"
      /\ IF new = NULL
         THEN UNCHANGED <<attr, lines>>
         ELSE attr' = NewAttributes(x, thread[t].attr) /\ lines' = new
      /\ thread' = [thread EXCEPT ![t] = [Idle EXCEPT !.answer = x]]

Next ==
  \E t \in Threads :
    \/ GetForChange(t) \/ Set(t)
    \/ memcached_getattr(t) \/ memcached_readlink(t) \/ memcached_listxattr(t)
    \/ \E n \in XNames : memcached_getxattr(t, n)

Spec == Init /\ [][Next]_vars

-----------------------------------------------------------------------------
(* Properties.                                                             *)

\* As long as no line contains the name of an extended attribute but that name
\* itself, and one thread changes the inode at a time, it keeps the promise of
\* AttrStore: no change disturbs what it does not name.
ImplementsAttrStore == Store!Spec

\* As long as no line contains the name of an extended attribute but that name
\* itself: whatever updates threads lose by setting the text they read before, the
\* lines after those of a symlink's target are names of extended attributes with
\* one value each, no name twice.
LinesArePairs ==
  /\ lines # Garbled /\ Len(lines) % 2 = 0
  /\ \A j, k \in DOMAIN lines :
       /\ j % 2 = 1 /\ j > Len(Target) => lines[j] \in XNames
       /\ j % 2 = 1 /\ k % 2 = 1 /\ lines[j] = lines[k] => j = k

\* As long as no line contains the name of an extended attribute but that name
\* itself: the text of a symlink begins with st_content and its target, whatever
\* threads set and remove behind them.  What readlink makes of the stored target is
\* another matter.
SymlinkKeepsTarget == IsPrefix(Target, lines)
=============================================================================
