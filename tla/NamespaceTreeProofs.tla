------------------------ MODULE NamespaceTreeProofs ------------------------
(***************************************************************************)
(* Proofs about the tree that Namespace keeps, for one thread: each path   *)
(* of the inode table has its inode, and the number of links of a file     *)
(* counts its paths.                                                       *)
(***************************************************************************)
EXTENDS NamespaceProofs, FiniteSetTheorems

\* The user makes hard links to regular files only: delete_inode looks at the
\* number of links of no other kind.
OneThread == SingleThreaded /\ LinkKinds \subseteq {"reg"}

-----------------------------------------------------------------------------
(* The names of an inode in a hash table h, and the number it may have.    *)

NamesOf(h, i) == {p \in DOMAIN h : h[p] = i}

Count(h, i) == Cardinality(NamesOf(h, i))

\* A regular file has as many names as links counted, anything else one name.
Cap(attr) == IF attr.kind = "reg" THEN attr.nlink ELSE 1

\* A kill may leave an inode with fewer names, or with none.
Counted(attr, n) ==
  /\ n <= Cap(attr)
  /\ crashes = 0 => n = Cap(attr) /\ n >= 1

(***************************************************************************)
(* Every path of h has its inode, and every inode its names, but for those *)
(* in gone, which have lost their last name and not yet their key, and     *)
(* those in more, which count a name that is not in h.                     *)
(***************************************************************************)
Named(h, gone, more) ==
  /\ \A p \in DOMAIN h : h[p] \in DOMAIN inodes
  /\ more \subseteq DOMAIN inodes
  /\ \A i \in DOMAIN inodes :
       IF i \in gone THEN NamesOf(h, i) = {} /\ Cap(inodes[i]) >= 0
       ELSE Counted(inodes[i], Count(h, i) + (IF i \in more THEN 1 ELSE 0))

\* The paths of the persisted table, as Persisted, for a thread in state th.
PersistedBy(th) ==
  IF th.pc \in {"set_table", "remove_entry"} THEN Without(hash, th.path) ELSE hash

Gone(th) == IF th.pc \in {"delete_blocks", "delete_inode"} THEN {th.ino} ELSE {}

More(th) ==
  IF th.pc \in {"set_inode_value", "add_entry", "set_table", "decrement_nlink"}
  THEN {th.ino}
  ELSE IF th.pc = "remove_entry" THEN {hash[th.path]} ELSE {}

\* The file that a handler works on.
OnFile(th) ==
  /\ th.pc \in {"get_table", "set_shorter_table", "remove_entry"} =>
       th.path \in DOMAIN hash
  /\ th.pc = "get_link_target" =>
       /\ th.old \in DOMAIN hash /\ hash[th.old] \in DOMAIN inodes
       /\ inodes[hash[th.old]].kind = "reg"
  /\ th.pc \in {"increment_nlink", "decrement_nlink"} =>
       th.ino \in DOMAIN inodes /\ th.attr = inodes[th.ino] /\ th.attr.kind = "reg"
  /\ th.pc = "decrement_nlink" => th.attr.nlink > 1
  /\ th.pc # "skip_inode_value"

NamedInv ==
  /\ IsFiniteSet(DOMAIN hash)
  /\ faults = 0 =>
       /\ phase = "down" /\ IsList(table) =>
            Named(hashtable_string_to_table(table), {}, {})
       /\ phase # "down" =>
            \A t \in Threads :
              /\ Named(PersistedBy(thread[t]), Gone(thread[t]), More(thread[t]))
              /\ OnFile(thread[t])

-----------------------------------------------------------------------------
(* Counting names.                                                         *)

\* The paths of an inode can be counted.
LEMMA CountIsNat ==
  ASSUME NEW h, IsFiniteSet(DOMAIN h), NEW i
  PROVE  /\ IsFiniteSet(NamesOf(h, i)) /\ Count(h, i) \in Nat
         /\ Count(h, i) = 0 <=> NamesOf(h, i) = {}
<1>1. NamesOf(h, i) \subseteq DOMAIN h
  BY DEF NamesOf
<1>. QED
  BY <1>1, FS_Subset, FS_CardinalityType, FS_EmptySet DEF Count

\* A path counts for the inode it names.
LEMMA CountWithout ==
  ASSUME NEW h, IsFiniteSet(DOMAIN h), NEW p \in DOMAIN h, NEW i
  PROVE  /\ i = h[p] => Count(h, i) = Count(Without(h, p), i) + 1
         /\ i # h[p] => Count(h, i) = Count(Without(h, p), i)
<1>. DEFINE rest == NamesOf(Without(h, p), i)
<1>1. IsFiniteSet(NamesOf(h, i)) /\ Count(h, i) \in Nat
  BY CountIsNat
<1>w. /\ DOMAIN Without(h, p) = DOMAIN h \ {p}
      /\ \A q \in DOMAIN h \ {p} : Without(h, p)[q] = h[q]
  BY WithoutProperties
<1>2. rest = NamesOf(h, i) \ {p}
  BY <1>w DEF NamesOf
<1>3. CASE i = h[p]
  <2>1. p \in NamesOf(h, i)
    BY <1>3 DEF NamesOf
  <2>2. Cardinality(rest) = Cardinality(NamesOf(h, i)) - 1
    BY <1>1, <1>2, <2>1, FS_RemoveElement
  <2>3. Count(h, i) = Count(Without(h, p), i) + 1
    BY <1>1, <2>2 DEF Count
  <2>. QED
    BY <1>3, <2>3
<1>4. CASE i # h[p]
  <2>1. rest = NamesOf(h, i)
    BY <1>2, <1>4 DEF NamesOf
  <2>. QED
    BY <1>4, <2>1 DEF Count
<1>. QED
  BY <1>3, <1>4

\* A hash table without a path is finite,
LEMMA WithoutIsFinite ==
  ASSUME NEW h, IsFiniteSet(DOMAIN h), NEW p
  PROVE  IsFiniteSet(DOMAIN Without(h, p))
<1>1. DOMAIN Without(h, p) = DOMAIN h \ {p}
  BY WithoutProperties
<1>. QED
  BY <1>1, FS_RemoveElement

\* Two hash tables hold the same.
SameNames(h, g) == DOMAIN h = DOMAIN g /\ \A p \in DOMAIN h : h[p] = g[p]

\* one with the same names has the same counts,
LEMMA SameNamesCount ==
  ASSUME NEW h, NEW g, SameNames(h, g), NEW i
  PROVE  NamesOf(h, i) = NamesOf(g, i) /\ Count(h, i) = Count(g, i)
  BY DEF SameNames, NamesOf, Count

\* and what holds of the names of one holds of the other.
LEMMA NamedSame ==
  ASSUME NEW h, NEW g, SameNames(h, g), NEW gone, NEW more, Named(h, gone, more)
  PROVE  Named(g, gone, more)
<1>1. \A i : NamesOf(h, i) = NamesOf(g, i) /\ Count(h, i) = Count(g, i)
  BY SameNamesCount
<1>2. \A p \in DOMAIN g : g[p] \in DOMAIN inodes
  BY DEF SameNames, Named
<1>. QED
  BY <1>1, <1>2 DEF Named

\* A path that is new, or on its way out, stands for the name not in the table.
LEMMA SameWithoutNew ==
  ASSUME NEW h, NEW p, NEW i, p \notin DOMAIN h
  PROVE  SameNames(h, Without(memcached_set(h, p, i), p))
<1>. DEFINE new == memcached_set(h, p, i)
<1>1. DOMAIN new = DOMAIN h \cup {p} /\ \A q \in DOMAIN h : new[q] = h[q]
  BY DEF memcached_set
<1>w. /\ DOMAIN Without(new, p) = DOMAIN new \ {p}
      /\ \A q \in DOMAIN new \ {p} : Without(new, p)[q] = new[q]
  BY WithoutProperties
<1>. HIDE DEF new
<1>2. SameNames(h, Without(new, p))
  BY <1>1, <1>w DEF SameNames
<1>. QED
  BY <1>2 DEF new

\* The number of paths an inode may have is an integer,
LEMMA CapIsInt ==
  ASSUME MemoryOK, NEW i \in DOMAIN inodes
  PROVE  Cap(inodes[i]) \in Int
  BY DEF MemoryOK, Inode, Cap

\* and never below zero while a path is counted.
LEMMA CountedOneMore ==
  ASSUME NEW attr, NEW n \in Nat, Counted(attr, n), Cap(attr) \in Int
  PROVE  Cap(attr) >= 0
  BY DEF Counted

-----------------------------------------------------------------------------
(* What the steps do to the count.                                         *)

\* Nothing happened to the inodes.
LEMMA NamedStays ==
  ASSUME NEW h, NEW gone, NEW more, Named(h, gone, more),
         inodes' = inodes, crashes' = crashes
  PROVE  Named(h, gone, more)'
  BY DEF Named, Counted

\* A kill: what was under way is not finished, and counts too much.
LEMMA NamedAfterKill ==
  ASSUME NEW h, IsFiniteSet(DOMAIN h), NEW gone, NEW more, Named(h, gone, more),
         MemoryOK, inodes' = inodes, crashes' = crashes + 1
  PROVE  Named(h, {}, {})'
<1>1. crashes' # 0
  BY DEF MemoryOK
<1>2. ASSUME NEW i \in DOMAIN inodes
      PROVE  Count(h, i) <= Cap(inodes[i])
  <2>1. Count(h, i) \in Nat /\ Cap(inodes[i]) \in Int
        /\ (Count(h, i) = 0 <=> NamesOf(h, i) = {})
    BY CountIsNat, CapIsInt
  <2>2. CASE i \in gone
    BY <2>1, <2>2 DEF Named
  <2>3. CASE i \notin gone
    <3>1. Count(h, i) + (IF i \in more THEN 1 ELSE 0) <= Cap(inodes[i])
      BY <2>3 DEF Named, Counted
    <3>. QED
      BY <2>1, <3>1
  <2>. QED
    BY <2>2, <2>3
<1>3. \A i \in DOMAIN inodes : Count(h, i) + 0 <= Cap(inodes[i])
  <2>. TAKE i \in DOMAIN inodes
  <2>1. Count(h, i) \in Nat
    BY CountIsNat
  <2>. QED
    BY <1>2, <2>1
<1>4. \A p \in DOMAIN h : h[p] \in DOMAIN inodes
  BY DEF Named
<1>. QED
  BY <1>1, <1>3, <1>4 DEF Named, Counted

\* A new inode, without a name yet.
LEMMA NamedNewInode ==
  ASSUME NEW h, IsFiniteSet(DOMAIN h), Named(h, {}, {}), MemoryOK,
         NEW i, NEW kind, NamesOf(h, i) = {},
         inodes' = memcached_set(inodes, i, NewInode(kind)), crashes' = crashes
  PROVE  Named(h, {}, {i})'
<1>1. DOMAIN inodes' = DOMAIN inodes \cup {i} /\ inodes'[i] = NewInode(kind)
      /\ \A j \in DOMAIN inodes : j # i => inodes'[j] = inodes[j]
  BY DEF memcached_set
<1>2. Cap(NewInode(kind)) = 1 /\ Count(h, i) = 0
  BY CountIsNat DEF Cap, NewInode
<1>3. Counted(inodes[i], Count(h, i) + 1)'
  BY <1>1, <1>2 DEF Counted
<1>4. ASSUME NEW j \in DOMAIN inodes', j # i
      PROVE  Counted(inodes[j], Count(h, j) + 0)'
  <2>1. Counted(inodes[j], Count(h, j) + 0)
    BY <1>1, <1>4 DEF Named
  <2>. QED
    BY <1>1, <1>4, <2>1 DEF Counted
<1>. QED
  BY <1>1, <1>3, <1>4 DEF Named

\* The name under way gets its entry.
LEMMA NamedAddName ==
  ASSUME NEW h, IsFiniteSet(DOMAIN h), NEW p \in DOMAIN h,
         Named(Without(h, p), {}, {h[p]})
  PROVE  Named(h, {}, {})
<1>1. \A q \in DOMAIN h : h[q] \in DOMAIN inodes
  BY WithoutProperties DEF Named
<1>2. ASSUME NEW i \in DOMAIN inodes
      PROVE  Counted(inodes[i], Count(h, i) + 0)
  <2>1. Counted(inodes[i], Count(Without(h, p), i) + (IF i = h[p] THEN 1 ELSE 0))
    BY DEF Named
  <2>2. Count(h, i) + 0 = Count(Without(h, p), i) + (IF i = h[p] THEN 1 ELSE 0)
    BY CountWithout, CountIsNat, WithoutIsFinite
  <2>. QED
    BY <2>1, <2>2
<1>. QED
  BY <1>1, <1>2 DEF Named

\* An entry goes: its name is counted and no longer there.
LEMMA NamedRemoveName ==
  ASSUME NEW h, IsFiniteSet(DOMAIN h), NEW p \in DOMAIN h, Named(h, {}, {})
  PROVE  Named(Without(h, p), {}, {h[p]})
<1>w. /\ DOMAIN Without(h, p) = DOMAIN h \ {p}
      /\ \A q \in DOMAIN h \ {p} : Without(h, p)[q] = h[q]
  BY WithoutProperties
<1>1. \A q \in DOMAIN Without(h, p) : Without(h, p)[q] \in DOMAIN inodes
  BY <1>w DEF Named
<1>2. h[p] \in DOMAIN inodes
  BY DEF Named
<1>3. ASSUME NEW i \in DOMAIN inodes
      PROVE  Counted(inodes[i], Count(Without(h, p), i) + (IF i = h[p] THEN 1 ELSE 0))
  <2>1. Counted(inodes[i], Count(h, i) + 0)
    BY DEF Named
  <2>2. Count(h, i) + 0 = Count(Without(h, p), i) + (IF i = h[p] THEN 1 ELSE 0)
    BY CountWithout, CountIsNat, WithoutIsFinite
  <2>. QED
    BY <2>1, <2>2
<1>. QED
  BY <1>1, <1>2, <1>3 DEF Named

\* The attributes of one inode are stored.
LEMMA NamedSetAttr ==
  ASSUME NEW h, NEW i \in DOMAIN inodes, NEW attr, NEW more, NEW extra,
         more \subseteq {i}, extra \subseteq {i}, Named(h, {}, more),
         inodes' = memcached_set(inodes, i, attr), crashes' = crashes,
         Counted(attr, Count(h, i) + (IF i \in extra THEN 1 ELSE 0))
  PROVE  Named(h, {}, extra)'
<1>1. DOMAIN inodes' = DOMAIN inodes /\ inodes'[i] = attr
      /\ \A j \in DOMAIN inodes : j # i => inodes'[j] = inodes[j]
  BY DEF memcached_set
<1>2. Counted(inodes[i], Count(h, i) + (IF i \in extra THEN 1 ELSE 0))'
  BY <1>1 DEF Counted
<1>3. ASSUME NEW j \in DOMAIN inodes', j # i
      PROVE  Counted(inodes[j], Count(h, j) + (IF j \in extra THEN 1 ELSE 0))'
  <2>1. Counted(inodes[j], Count(h, j) + (IF j \in more THEN 1 ELSE 0))
    BY <1>1, <1>3 DEF Named
  <2>2. j \notin more /\ j \notin extra
    BY <1>3
  <2>. QED
    BY <1>1, <1>3, <2>1, <2>2 DEF Counted
<1>. QED
  BY <1>1, <1>2, <1>3 DEF Named

\* One name of several is not counted any more.
LEMMA NamedDecrement ==
  ASSUME NEW h, IsFiniteSet(DOMAIN h), MemoryOK, NEW i \in DOMAIN inodes,
         Named(h, {}, {i}), inodes[i].kind = "reg", inodes[i].nlink > 1,
         inodes' = memcached_set(inodes, i, [inodes[i] EXCEPT !.nlink = @ - 1]),
         crashes' = crashes
  PROVE  Named(h, {}, {})'
<1>1. PICK attr : attr = [inodes[i] EXCEPT !.nlink = @ - 1]
  OBVIOUS
<1>2. inodes[i] \in Inode
  BY DEF MemoryOK
<1>3. attr.kind = "reg" /\ attr.nlink = inodes[i].nlink - 1 /\ inodes[i].nlink \in Int
  BY <1>1, <1>2 DEF Inode
<1>4. Counted(inodes[i], Count(h, i) + 1)
  BY DEF Named
<1>5. Counted(attr, Count(h, i) + 0)
  BY <1>3, <1>4, CountIsNat DEF Counted, Cap
<1>. QED
  BY <1>1, <1>5, NamedSetAttr

\* A name is counted before it is there.
LEMMA NamedIncrement ==
  ASSUME NEW h, IsFiniteSet(DOMAIN h), MemoryOK, NEW i \in DOMAIN inodes,
         Named(h, {}, {}), inodes[i].kind = "reg",
         inodes' = memcached_set(inodes, i, [inodes[i] EXCEPT !.nlink = @ + 1]),
         crashes' = crashes
  PROVE  Named(h, {}, {i})'
<1>1. PICK attr : attr = [inodes[i] EXCEPT !.nlink = @ + 1]
  OBVIOUS
<1>2. inodes[i] \in Inode
  BY DEF MemoryOK
<1>3. attr.kind = "reg" /\ attr.nlink = inodes[i].nlink + 1 /\ inodes[i].nlink \in Int
  BY <1>1, <1>2 DEF Inode
<1>4. Counted(inodes[i], Count(h, i) + 0)
  BY DEF Named
<1>5. Counted(attr, Count(h, i) + 1)
  BY <1>3, <1>4, CountIsNat DEF Counted, Cap
<1>. QED
  BY <1>1, <1>5, NamedSetAttr

\* CountLink raises st_blocks and nothing that is counted.
LEMMA NamedBlocks ==
  ASSUME NEW h, MemoryOK, NEW i \in DOMAIN inodes, Named(h, {}, {}),
         inodes' = [inodes EXCEPT ![i].blocks = TRUE], crashes' = crashes
  PROVE  Named(h, {}, {})'
<1>1. ASSUME NEW j \in DOMAIN inodes
      PROVE  inodes'[j].kind = inodes[j].kind /\ inodes'[j].nlink = inodes[j].nlink
  <2>1. inodes[j] \in Inode
    BY DEF MemoryOK
  <2>2. CASE j = i
    <3>1. inodes'[j] = [inodes[i] EXCEPT !.blocks = TRUE]
      BY <2>2
    <3>. QED
      BY <2>1, <2>2, <3>1 DEF Inode
  <2>3. CASE j # i
    BY <2>3
  <2>. QED
    BY <2>2, <2>3
<1>2. DOMAIN inodes' = DOMAIN inodes
  OBVIOUS
<1>. QED
  BY <1>1, <1>2 DEF Named, Counted, Cap

\* The last name of an inode is on its way out.
LEMMA NamedLastName ==
  ASSUME NEW h, IsFiniteSet(DOMAIN h), MemoryOK, NEW i \in DOMAIN inodes,
         Named(h, {}, {i}), ~ (inodes[i].kind = "reg" /\ inodes[i].nlink > 1)
  PROVE  Named(h, {i}, {})
<1>1. Counted(inodes[i], Count(h, i) + 1)
  BY DEF Named
<1>2. Count(h, i) \in Nat /\ Cap(inodes[i]) \in Int
      /\ (Count(h, i) = 0 <=> NamesOf(h, i) = {})
  BY CountIsNat, CapIsInt
<1>3. inodes[i].nlink \in Int
  BY DEF MemoryOK, Inode
<1>4. Cap(inodes[i]) <= 1
  BY <1>3 DEF Cap
<1>5. Count(h, i) = 0 /\ Cap(inodes[i]) >= 0
  BY <1>1, <1>2, <1>4 DEF Counted
<1>6. \A j \in DOMAIN inodes : j # i => Counted(inodes[j], Count(h, j) + 0)
  <2>. TAKE j \in DOMAIN inodes
  <2>. HAVE j # i
  <2>1. Counted(inodes[j], Count(h, j) + (IF j \in {i} THEN 1 ELSE 0))
    BY DEF Named
  <2>. QED
    BY <2>1
<1>. QED
  BY <1>2, <1>5, <1>6 DEF Named

\* An inode without a name goes.
LEMMA NamedDelete ==
  ASSUME NEW h, NEW i, Named(h, {i}, {}),
         inodes' = memcached_delete(inodes, i), crashes' = crashes,
         NamesOf(h, i) = {}
  PROVE  Named(h, {}, {})'
<1>1. DOMAIN inodes' = DOMAIN inodes \ {i}
      /\ \A j \in DOMAIN inodes' : inodes'[j] = inodes[j]
  BY DEF memcached_delete, Restrict
<1>2. \A p \in DOMAIN h : h[p] \in DOMAIN inodes'
  BY <1>1 DEF Named, NamesOf
<1>3. \A j \in DOMAIN inodes' : Counted(inodes[j], Count(h, j) + 0)'
  BY <1>1 DEF Named, Counted
<1>. QED
  BY <1>2, <1>3 DEF Named

-----------------------------------------------------------------------------
(* How a thread and the process move.                                      *)

NamesInv == IInv /\ NamedInv

\* Going on to the next step keeps what the handler works on;
LEMMA GotoFields ==
  ASSUME TypeInv, NEW t \in Threads, NEW pc, Goto(t, pc)
  PROVE  /\ thread'[t].pc = pc
         /\ thread'[t].path = thread[t].path /\ thread'[t].old = thread[t].old
         /\ thread'[t].ino = thread[t].ino /\ thread'[t].attr = thread[t].attr
<1>1. thread[t] \in Thread /\ t \in DOMAIN thread
  BY TypeInvParts
<1>2. thread'[t] = [thread[t] EXCEPT !.pc = pc]
  BY <1>1 DEF Goto
<1>. QED
  BY <1>1, <1>2 DEF Thread

\* a handler that returns is done.
LEMMA ReturnFields ==
  ASSUME TypeInv, NEW t \in Threads, Return(t)
  PROVE  thread'[t].pc = "idle"
  BY TypeInvParts DEF Return, Idle

\* Where the paths, the inodes and the table say the same.
Plain(th) ==
  th.pc \notin {"set_inode_value", "add_entry", "set_table", "remove_entry",
                "decrement_nlink", "delete_blocks", "delete_inode"}

\* A thread that changes no name has the names of the hash table stored.
LEMMA PlainParts ==
  ASSUME NEW th, Plain(th)
  PROVE  PersistedBy(th) = hash /\ Gone(th) = {} /\ More(th) = {}
  BY DEF Plain, PersistedBy, Gone, More

\* A path that resolves is in the hash table.
LEMMA PathExists ==
  ASSUME NEW p \in Paths, Exists(p)
  PROVE  p \in DOMAIN hash
<1>1. p \in Seq(Names) /\ Len(p) \in 0..Len(p)
  BY PathsAssumption
<1>2. SubSeq(p, 1, Len(p)) = p
  BY <1>1
<1>. QED
  BY <1>1, <1>2 DEF Exists

\* A list has finitely many paths.
LEMMA EntryPathsFinite ==
  ASSUME NEW tbl \in Seq(Entry)
  PROVE  IsFiniteSet(EntryPaths(tbl)) /\ IsFiniteSet(DOMAIN tbl)
<1>1. DOMAIN tbl = 1..Len(tbl) /\ Len(tbl) \in Nat
  OBVIOUS
<1>2. IsFiniteSet(DOMAIN tbl)
  BY <1>1, FS_Interval
<1>3. PICK f : f = [j \in DOMAIN tbl |-> tbl[j].path]
  OBVIOUS
<1>4. f \in Surjection(DOMAIN tbl, EntryPaths(tbl))
  BY <1>3 DEF Surjection, EntryPaths
<1>. QED
  BY <1>2, <1>4, FS_Surjection

\* The table in memcached holds what its hash table does.
LEMMA TableHolds ==
  ASSUME NEW tbl \in Seq(Entry), NEW h, Agree(tbl, h)
  PROVE  SameNames(h, hashtable_string_to_table(tbl))
<1>. DEFINE m == hashtable_string_to_table(tbl)
<1>1. Agree(tbl, m)
  BY AgreeMounted DEF Agree
<1>. HIDE DEF m
<1>2. DOMAIN h = EntryPaths(tbl) /\ DOMAIN m = EntryPaths(tbl)
  BY <1>1 DEF Agree
<1>3. \A p \in EntryPaths(tbl) : h[p] = m[p]
  BY <1>1 DEF Agree, EntryPaths
<1>. QED
  BY <1>2, <1>3 DEF SameNames, m

\* The process dies; what it leaves in memcached is counted as it was.
LEMMA NamedDie ==
  ASSUME IInv, phase # "down", NEW t \in Threads, Die, UNCHANGED server,
         NEW h, h = PersistedBy(thread[t]),
         faults' = 0 /\ IsList(table) => Named(h, {}, {})'
  PROVE  NamedInv'
<1>1. hash' = NoFunction /\ phase' = "down" /\ table' = table
  BY DEF Die, server
<1>2. IsFiniteSet(DOMAIN hash')
  BY <1>1, FS_EmptySet DEF NoFunction
<1>3. ASSUME faults' = 0, IsList(table)
      PROVE  Named(hashtable_string_to_table(table), {}, {})'
  <2>1. PICK m : m = hashtable_string_to_table(table)
    OBVIOUS
  <2>2. Agree(table, h)
    BY <1>3 DEF IInv, SyncInv, SyncAt, Persisted, PersistedBy
  <2>3. table \in Seq(Entry)
    BY <1>3, TypeInvParts DEF IInv, MemoryOK, IsList
  <2>4. SameNames(h, m)
    BY <2>1, <2>2, <2>3, TableHolds
  <2>5. Named(h, {}, {})'
    BY <1>3
  <2>6. Named(m, {}, {})'
    <3>1. \A i : NamesOf(h, i) = NamesOf(m, i) /\ Count(h, i) = Count(m, i)
      BY <2>4, SameNamesCount
    <3>. QED
      BY <2>4, <2>5, <3>1 DEF Named, SameNames, Counted
  <2>. QED
    BY <1>1, <2>1, <2>6
<1>. QED
  BY <1>1, <1>2, <1>3 DEF NamedInv, IsList

\* The one thread goes to the state th.
LEMMA NamedMove ==
  ASSUME OneThread, NEW t \in Threads, NEW th, thread'[t] = th, phase' # "down",
         NEW h, NEW more, IsFiniteSet(DOMAIN hash'),
         faults' = 0 => /\ h = PersistedBy(th)' /\ more = More(th)'
                        /\ Named(h, Gone(th), more)' /\ OnFile(th)'
  PROVE  NamedInv'
<1>1. \A u \in Threads : thread'[u] = th
  BY DEF OneThread, SingleThreaded
<1>2. ASSUME faults' = 0, NEW u \in Threads
      PROVE  /\ Named(PersistedBy(thread[u]), Gone(thread[u]), More(thread[u]))'
             /\ OnFile(thread[u])'
  <2>1. thread'[u] = th
    BY <1>1
  <2>2. PICK gone : gone = Gone(th)
    OBVIOUS
  <2>3. h = PersistedBy(thread[u])' /\ gone = Gone(thread[u])'
        /\ more = More(thread[u])'
    BY <1>2, <2>1, <2>2 DEF PersistedBy, Gone, More
  <2>4. Named(h, gone, more)'
    BY <1>2, <2>2
  <2>5. Named(PersistedBy(thread[u]), Gone(thread[u]), More(thread[u]))'
    BY <2>3, <2>4 DEF Named
  <2>6. OnFile(thread[u])'
    BY <1>2, <2>1 DEF OnFile
  <2>. QED
    BY <2>5, <2>6
<1>. QED
  BY <1>2 DEF NamedInv

\* What the invariant says of the thread.
LEMMA NamedHere ==
  ASSUME NamesInv, NEW t \in Threads, thread[t].pc # "idle" \/ phase # "down"
  PROVE  /\ phase # "down" /\ MemoryOK /\ TypeInv /\ IsFiniteSet(DOMAIN hash)
         /\ thread[t] \in Thread /\ t \in DOMAIN thread /\ SyncAt(t)
         /\ faults = 0 =>
              /\ Named(PersistedBy(thread[t]), Gone(thread[t]), More(thread[t]))
              /\ OnFile(thread[t])
<1>1. phase # "down"
  BY DEF NamesInv, IInv, SyncInv, DownInv
<1>. QED
  BY <1>1, TypeInvParts DEF NamesInv, IInv, NamedInv, SyncInv

\* A step between states where paths, inodes and table say the same.
LEMMA NamedPlainStep ==
  ASSUME OneThread, NamesInv, NEW t \in Threads, NEW th, thread'[t] = th,
         thread[t].pc # "idle" \/ phase # "down", phase' # "down",
         Plain(thread[t]), Plain(th),
         UNCHANGED <<hash, inodes, crashes, faults>>, faults = 0 => OnFile(th)'
  PROVE  NamedInv'
<1>1. PICK h, more : h = hash /\ more = {}
  OBVIOUS
<1>2. PersistedBy(th)' = hash' /\ Gone(th) = {} /\ More(th)' = {}
  BY DEF Plain, PersistedBy, Gone, More
<1>3. IsFiniteSet(DOMAIN hash) /\ (faults = 0 => Named(h, {}, {}))
  BY <1>1, NamedHere, PlainParts
<1>4. faults = 0 => Named(h, {}, {})'
  BY <1>3, NamedStays
<1>. QED
  BY <1>1, <1>2, <1>3, <1>4, NamedMove

\* A thread dies at a NULL pointer only where paths and inodes say the same.
LEMMA NamedSegfault ==
  ASSUME NamesInv, NEW t \in Threads, thread[t].pc # "idle", Segfault,
         faults = 0 /\ IsList(table) => Plain(thread[t])
  PROVE  NamedInv'
<1>1. UNCHANGED server /\ Die /\ faults' = faults /\ crashes' = crashes
      /\ inodes' = inodes
  BY DEF Segfault, bounds, server
<1>2. PICK h : h = PersistedBy(thread[t])
  OBVIOUS
<1>3. faults = 0 /\ IsList(table) => Named(h, {}, {})
  BY <1>2, NamedHere, PlainParts
<1>4. faults = 0 /\ IsList(table) => Named(h, {}, {})'
  BY <1>1, <1>3, NamedStays
<1>. QED
  BY <1>1, <1>2, <1>4, NamedHere, NamedDie DEF NamesInv

-----------------------------------------------------------------------------
(* The steps of create_inode and of memcached_link.                        *)

\* The first keys of memcached_init, and the id that create_inode takes.
LEMMA NamedFirstKeys ==
  ASSUME OneThread, NamesInv, NEW t \in Threads,
         SetEmptyTable(t) \/ SetFirstValue(t)
  PROVE  NamedInv'
<1>1. PICK th : th = thread'[t]
  OBVIOUS
<1>2. thread[t].pc \in {"set_empty_table", "set_first_value"}
      /\ UNCHANGED <<hash, inodes, crashes, faults, phase>>
  BY DEF SetEmptyTable, SetFirstValue, At, bounds
<1>3. th.pc \in {"set_first_value", "get_inode_value"}
  BY <1>1, <1>2, NamedHere, GotoFields DEF SetEmptyTable, SetFirstValue
<1>4. Plain(thread[t]) /\ Plain(th) /\ OnFile(th)'
  BY <1>2, <1>3 DEF Plain, OnFile
<1>. QED
  BY <1>1, <1>2, <1>4, NamedHere, NamedPlainStep

\* Reading the next id changes no name.
LEMMA NamedGetInodeValue ==
  ASSUME OneThread, NamesInv, NEW t \in Threads, GetInodeValue(t)
  PROVE  NamedInv'
<1>0. thread[t].pc = "get_inode_value" /\ Plain(thread[t])
  BY DEF GetInodeValue, At, Plain
<1>1. CASE Segfault
  BY <1>0, <1>1, NamedSegfault
<1>2. CASE /\ thread' = [thread EXCEPT ![t].pc = "set_inode", ![t].ino = inode_value]
           /\ UNCHANGED <<server, hash, phase, bounds>>
  <2>1. PICK th : th = thread'[t]
    OBVIOUS
  <2>2. th.pc = "set_inode"
    BY <1>0, <1>2, <2>1, NamedHere DEF Thread
  <2>3. Plain(th) /\ OnFile(th)' /\ UNCHANGED <<hash, inodes, crashes, faults, phase>>
    BY <1>2, <2>2 DEF Plain, OnFile, server, bounds
  <2>. QED
    BY <1>0, <2>1, <2>3, NamedHere, NamedPlainStep
<1>. QED
  BY <1>1, <1>2 DEF GetInodeValue

\* The inode is stored before any path leads to it.
LEMMA NamedSetInode ==
  ASSUME OneThread, NamesInv, NEW t \in Threads, SetInode(t)
  PROVE  NamedInv'
<1>1. PICK th, i, h, more : th = thread'[t] /\ i = thread[t].ino /\ h = hash /\ more = {i}
  OBVIOUS
<1>2. thread[t].pc = "set_inode" /\ UNCHANGED <<hash, phase, crashes>>
  BY DEF SetInode, At
<1>h. /\ phase # "down" /\ MemoryOK /\ TypeInv /\ IsFiniteSet(DOMAIN hash)
      /\ thread[t] \in Thread
      /\ faults = 0 =>
           /\ Named(PersistedBy(thread[t]), Gone(thread[t]), More(thread[t]))
           /\ OnFile(thread[t])
  BY <1>2, NamedHere
<1>3. CASE /\ inodes' = memcached_set(inodes, thread[t].ino, NewInode(thread[t].kind))
           /\ Goto(t, "set_inode_value")
           /\ UNCHANGED faults
  <2>1. th.pc = "set_inode_value" /\ th.ino = i
    BY <1>1, <1>h, <1>3, GotoFields
  <2>2. NamesOf(h, i) = {}
    <3>1. IdsBelow(i)
      BY <1>1, <1>2 DEF NamesInv, IInv, InoInv, FreshPcs
    <3>2. i \in Nat /\ \A p \in DOMAIN hash : hash[p] \in Nat
      BY <1>1, <1>h DEF MemoryOK, Thread
    <3>. QED
      BY <1>1, <3>1, <3>2 DEF IdsBelow, NamesOf
  <2>3. faults = 0 => Named(h, {}, {})
    BY <1>1, <1>2, <1>h, PlainParts DEF Plain
  <2>4. PICK kind : kind = thread[t].kind
    OBVIOUS
  <2>5. faults = 0 => Named(h, {}, {i})'
    BY <1>1, <1>2, <1>h, <1>3, <2>2, <2>3, <2>4, NamedNewInode
  <2>6. h = PersistedBy(th)' /\ more = More(th)' /\ Gone(th) = {} /\ OnFile(th)'
    BY <1>1, <1>2, <2>1 DEF PersistedBy, More, Gone, OnFile
  <2>. QED
    BY <1>1, <1>2, <1>h, <1>3, <2>5, <2>6, NamedMove
<1>4. CASE faults' = faults + 1 /\ Goto(t, "skip_inode_value")
  <2>1. faults' # 0
    BY <1>h, <1>4 DEF MemoryOK
  <2>. QED
    BY <1>1, <1>2, <1>h, <2>1, NamedMove
<1>. QED
  BY <1>3, <1>4 DEF SetInode

\* Storing the next id changes no name.
LEMMA NamedSetInodeValue ==
  ASSUME OneThread, NamesInv, NEW t \in Threads, SetInodeValue(t)
  PROVE  NamedInv'
<1>1. PICK th, i, h, more : th = thread'[t] /\ i = thread[t].ino /\ h = hash /\ more = {i}
  OBVIOUS
<1>2. thread[t].pc \in {"set_inode_value", "skip_inode_value"}
      /\ UNCHANGED <<hash, inodes, crashes, faults>>
  BY DEF SetInodeValue, At, bounds
<1>h. /\ phase # "down" /\ MemoryOK /\ TypeInv /\ IsFiniteSet(DOMAIN hash)
      /\ thread[t] \in Thread
      /\ faults = 0 =>
           /\ Named(PersistedBy(thread[t]), Gone(thread[t]), More(thread[t]))
           /\ OnFile(thread[t])
  BY <1>2, NamedHere
<1>p. phase' # "down"
  BY <1>h DEF SetInodeValue
<1>3. CASE thread[t].pc = "set_inode_value"
  <2>1. th.pc = "add_entry" /\ th.ino = i
    BY <1>1, <1>h, <1>3, GotoFields DEF SetInodeValue, At
  <2>2. faults = 0 => Named(h, {}, {i})
    BY <1>1, <1>3, <1>h DEF PersistedBy, Gone, More
  <2>3. faults = 0 => Named(h, {}, {i})'
    BY <1>2, <2>2, NamedStays
  <2>4. h = PersistedBy(th)' /\ more = More(th)' /\ Gone(th) = {} /\ OnFile(th)'
    BY <1>1, <1>2, <2>1 DEF PersistedBy, More, Gone, OnFile
  <2>. QED
    BY <1>1, <1>2, <1>h, <1>p, <2>3, <2>4, NamedMove
<1>4. CASE thread[t].pc = "skip_inode_value"
  <2>1. faults' # 0
    BY <1>2, <1>4, <1>h DEF OnFile
  <2>. QED
    BY <1>1, <1>2, <1>h, <1>p, <2>1, NamedMove
<1>. QED
  BY <1>2, <1>3, <1>4

\* The path enters the hash table; the table in memcached does not have it yet.
LEMMA NamedAddEntry ==
  ASSUME OneThread, NamesInv, NEW t \in Threads, AddEntry(t)
  PROVE  NamedInv'
<1>0. thread[t].pc = "add_entry"
  BY DEF AddEntry, At
<1>1. CASE table = Absent
  <2>1. Segfault /\ ~ IsList(table)
    BY <1>1 DEF AddEntry, IsList
  <2>. QED
    BY <1>0, <2>1, NamedSegfault
<1>2. CASE table # Absent
  <2>1. PICK th, i, p, h, g, more :
          /\ th = thread'[t] /\ i = thread[t].ino /\ p = thread[t].path /\ h = hash
          /\ g = Without(memcached_set(h, p, i), p) /\ more = {i}
    OBVIOUS
  <2>2. /\ hash' = memcached_set(h, p, i)
        /\ thread' = [thread EXCEPT ![t].pc = "set_table", ![t].tbl = table]
        /\ UNCHANGED <<server, phase, bounds>>
    BY <1>2, <2>1 DEF AddEntry
  <2>h. /\ phase # "down" /\ MemoryOK /\ TypeInv /\ IsFiniteSet(DOMAIN hash)
        /\ thread[t] \in Thread /\ t \in DOMAIN thread /\ SyncAt(t)
        /\ faults = 0 =>
             Named(PersistedBy(thread[t]), Gone(thread[t]), More(thread[t]))
    BY <1>0, NamedHere
  <2>3. th.pc = "set_table" /\ th.ino = i /\ th.path = p
    BY <2>1, <2>2, <2>h DEF Thread
  <2>4. p \notin DOMAIN h /\ DOMAIN hash' = DOMAIN h \cup {p}
    BY <1>0, <2>1, <2>2, <2>h DEF SyncAt, NewPathPcs, memcached_set
  <2>5. UNCHANGED <<inodes, crashes, faults>>
    BY <2>2 DEF server, bounds
  <2>6. faults = 0 => Named(h, {}, {i})
    BY <1>0, <2>1, <2>h DEF PersistedBy, Gone, More
  <2>7. faults = 0 => Named(g, {}, {i})
    BY <2>1, <2>4, <2>6, SameWithoutNew, NamedSame
  <2>8. faults = 0 => Named(g, {}, {i})'
    BY <2>5, <2>7, NamedStays
  <2>9. IsFiniteSet(DOMAIN hash')
    BY <2>1, <2>4, <2>h, FS_AddElement
  <2>10. g = PersistedBy(th)' /\ more = More(th)' /\ Gone(th) = {} /\ OnFile(th)'
    BY <2>1, <2>2, <2>3 DEF PersistedBy, More, Gone, OnFile
  <2>p. phase' # "down"
    BY <2>2, <2>h
  <2>. QED
    BY <2>1, <2>5, <2>p, <2>8, <2>9, <2>10, NamedMove
<1>. QED
  BY <1>1, <1>2

\* The table in memcached gets the path that the hash table has.
LEMMA NamedSetTable ==
  ASSUME OneThread, NamesInv, NEW t \in Threads, SetTable(t)
  PROVE  NamedInv'
<1>0. thread[t].pc = "set_table" /\ UNCHANGED <<hash, inodes, crashes, faults>>
  BY DEF SetTable, At, bounds
<1>1. PICK th, i, p, h, more :
        /\ th = thread'[t] /\ i = thread[t].ino /\ p = thread[t].path /\ h = hash
        /\ more = {}
  OBVIOUS
<1>h. /\ phase # "down" /\ MemoryOK /\ TypeInv /\ IsFiniteSet(DOMAIN hash)
      /\ SyncAt(t)
      /\ faults = 0 =>
           Named(PersistedBy(thread[t]), Gone(thread[t]), More(thread[t]))
  BY <1>0, NamedHere
<1>2. phase' # "down" /\ th.pc \in {"idle", "add_link"}
  BY <1>1, <1>h, GotoFields, ReturnFields DEF SetTable
<1>3. p \in DOMAIN h /\ h[p] = i
  BY <1>0, <1>1, <1>h DEF SyncAt
<1>4. faults = 0 => Named(Without(h, p), {}, {h[p]})
  BY <1>0, <1>1, <1>h, <1>3 DEF PersistedBy, Gone, More
<1>5. faults = 0 => Named(h, {}, {})
  BY <1>1, <1>h, <1>3, <1>4, NamedAddName
<1>6. faults = 0 => Named(h, {}, {})'
  BY <1>0, <1>5, NamedStays
<1>7. h = PersistedBy(th)' /\ more = More(th)' /\ Gone(th) = {} /\ OnFile(th)'
  BY <1>0, <1>1, <1>2 DEF PersistedBy, More, Gone, OnFile
<1>. QED
  BY <1>0, <1>1, <1>2, <1>h, <1>6, <1>7, NamedMove

\* The links of the parent, and the links a handler takes a name from.
LEMMA NamedAddLink ==
  ASSUME OneThread, NamesInv, NEW t \in Threads, AddLink(t)
  PROVE  NamedInv'
<1>1. PICK th : th = thread'[t]
  OBVIOUS
<1>2. thread[t].pc = "add_link" /\ UNCHANGED <<hash, inodes, crashes, faults, phase>>
  BY DEF AddLink, At, bounds
<1>3. th.pc = "count_link"
  BY <1>1, <1>2, NamedHere, GotoFields DEF AddLink
<1>4. Plain(thread[t]) /\ Plain(th) /\ OnFile(th)'
  BY <1>2, <1>3 DEF Plain, OnFile
<1>. QED
  BY <1>1, <1>2, <1>4, NamedHere, NamedPlainStep

\* Marking the parent changes no name.
LEMMA NamedCountLink ==
  ASSUME OneThread, NamesInv, NEW t \in Threads, CountLink(t)
  PROVE  NamedInv'
<1>1. PICK th, d, h, more :
        /\ th = thread'[t] /\ h = hash /\ more = {}
        /\ d = hashable_get_entry(get_parent_directory(thread[t].path))
  OBVIOUS
<1>0. thread[t].pc = "count_link" /\ Plain(thread[t])
  BY DEF CountLink, At, Plain
<1>h. /\ phase # "down" /\ MemoryOK /\ TypeInv /\ IsFiniteSet(DOMAIN hash)
      /\ faults = 0 =>
           Named(PersistedBy(thread[t]), Gone(thread[t]), More(thread[t]))
  BY <1>0, NamedHere
<1>2. CASE d \notin DOMAIN inodes
  <2>1. Segfault
    BY <1>1, <1>2 DEF CountLink
  <2>. QED
    BY <1>0, <2>1, NamedSegfault
<1>3. CASE d \in DOMAIN inodes
  <2>1. /\ inodes' = [inodes EXCEPT ![d].blocks = TRUE] /\ Return(t)
        /\ UNCHANGED <<table, inode_value, links, hash, phase, bounds>>
    BY <1>1, <1>3 DEF CountLink
  <2>2. th.pc = "idle" /\ UNCHANGED <<hash, phase, crashes, faults>>
    BY <1>1, <1>h, <2>1, ReturnFields DEF bounds
  <2>3. faults = 0 => Named(h, {}, {})
    BY <1>0, <1>1, <1>h, PlainParts
  <2>4. faults = 0 => Named(h, {}, {})'
    BY <1>3, <1>h, <2>1, <2>2, <2>3, NamedBlocks
  <2>5. h = PersistedBy(th)' /\ more = More(th)' /\ Gone(th) = {} /\ OnFile(th)'
    BY <1>1, <2>2 DEF PersistedBy, More, Gone, OnFile
  <2>. QED
    BY <1>1, <1>h, <2>2, <2>4, <2>5, NamedMove
<1>. QED
  BY <1>2, <1>3

\* The count that is read covers the names there are.
LEMMA NamedGetLinkTarget ==
  ASSUME OneThread, NamesInv, NEW t \in Threads, GetLinkTarget(t)
  PROVE  NamedInv'
<1>1. PICK th, i, attr :
        /\ th = thread'[t] /\ i = hashable_get_entry(thread[t].old)
        /\ attr = inodes[i]
  OBVIOUS
<1>0. thread[t].pc = "get_link_target" /\ Plain(thread[t])
  BY DEF GetLinkTarget, At, Plain
<1>h. /\ phase # "down" /\ thread[t] \in Thread /\ t \in DOMAIN thread
      /\ faults = 0 => OnFile(thread[t])
  BY <1>0, NamedHere
<1>2. CASE i \notin DOMAIN inodes
  <2>1. Segfault
    BY <1>1, <1>2 DEF GetLinkTarget
  <2>. QED
    BY <1>0, <2>1, NamedSegfault
<1>3. CASE i \in DOMAIN inodes
  <2>1. /\ thread' = [thread EXCEPT ![t].pc = "increment_nlink", ![t].ino = i,
                                    ![t].attr = attr]
        /\ UNCHANGED <<server, hash, phase, bounds>>
    BY <1>1, <1>3 DEF GetLinkTarget
  <2>2. th.pc = "increment_nlink" /\ th.ino = i /\ th.attr = attr
    BY <1>1, <1>h, <2>1 DEF Thread
  <2>3. UNCHANGED <<hash, inodes, crashes, faults, phase>> /\ Plain(th)
    BY <2>1, <2>2 DEF server, bounds, Plain
  <2>4. faults = 0 => attr.kind = "reg"
    BY <1>0, <1>1, <1>h DEF OnFile, hashable_get_entry
  <2>5. faults = 0 => OnFile(th)'
    BY <1>1, <1>3, <2>2, <2>3, <2>4 DEF OnFile
  <2>. QED
    BY <1>0, <1>1, <1>h, <2>3, <2>5, NamedPlainStep
<1>. QED
  BY <1>2, <1>3

\* The link is counted before the path is anywhere.
LEMMA NamedIncrementNlink ==
  ASSUME OneThread, NamesInv, NEW t \in Threads, IncrementNlink(t)
  PROVE  NamedInv'
<1>1. PICK th, i, h, more : th = thread'[t] /\ i = thread[t].ino /\ h = hash /\ more = {i}
  OBVIOUS
<1>0. thread[t].pc = "increment_nlink" /\ Plain(thread[t])
      /\ UNCHANGED <<hash, crashes, faults, phase>>
  BY DEF IncrementNlink, At, Plain, bounds
<1>h. /\ phase # "down" /\ MemoryOK /\ TypeInv /\ IsFiniteSet(DOMAIN hash)
      /\ faults = 0 =>
           /\ Named(PersistedBy(thread[t]), Gone(thread[t]), More(thread[t]))
           /\ OnFile(thread[t])
  BY <1>0, NamedHere
<1>2. th.pc = "add_entry" /\ th.ino = i
  BY <1>1, <1>h, GotoFields DEF IncrementNlink
<1>3. faults = 0 => Named(h, {}, {})
  BY <1>0, <1>1, <1>h, PlainParts
<1>4. faults = 0 => /\ i \in DOMAIN inodes /\ thread[t].attr = inodes[i]
                    /\ inodes[i].kind = "reg"
  BY <1>0, <1>1, <1>h DEF OnFile
<1>5. faults = 0 =>
        inodes' = memcached_set(inodes, i, [inodes[i] EXCEPT !.nlink = @ + 1])
  BY <1>1, <1>4 DEF IncrementNlink
<1>6. faults = 0 => Named(h, {}, {i})'
  BY <1>0, <1>1, <1>h, <1>3, <1>4, <1>5, NamedIncrement
<1>7. h = PersistedBy(th)' /\ more = More(th)' /\ Gone(th) = {} /\ OnFile(th)'
  BY <1>0, <1>1, <1>2 DEF PersistedBy, More, Gone, OnFile
<1>. QED
  BY <1>0, <1>1, <1>h, <1>6, <1>7, NamedMove

-----------------------------------------------------------------------------
(* The steps of delete_inode.                                              *)

\* Reading the table changes no name.
LEMMA NamedGetTable ==
  ASSUME OneThread, NamesInv, NEW t \in Threads, GetTable(t)
  PROVE  NamedInv'
<1>0. thread[t].pc = "get_table" /\ Plain(thread[t])
  BY DEF GetTable, At, Plain
<1>h. /\ phase # "down" /\ thread[t] \in Thread /\ t \in DOMAIN thread
      /\ faults = 0 => OnFile(thread[t])
  BY <1>0, NamedHere
<1>1. CASE Segfault
  BY <1>0, <1>1, NamedSegfault
<1>2. CASE /\ thread' = [thread EXCEPT ![t].pc = "set_shorter_table", ![t].tbl = table]
           /\ UNCHANGED <<server, hash, phase, bounds>>
  <2>1. PICK th : th = thread'[t]
    OBVIOUS
  <2>2. th.pc = "set_shorter_table" /\ th.path = thread[t].path
    BY <1>h, <1>2, <2>1 DEF Thread
  <2>3. Plain(th) /\ UNCHANGED <<hash, inodes, crashes, faults, phase>>
    BY <1>2, <2>2 DEF Plain, server, bounds
  <2>4. faults = 0 => OnFile(th)'
    BY <1>0, <1>h, <2>2, <2>3 DEF OnFile
  <2>. QED
    BY <1>0, <1>h, <2>1, <2>3, <2>4, NamedPlainStep
<1>. QED
  BY <1>1, <1>2 DEF GetTable

\* The table in memcached loses the path first.
LEMMA NamedSetShorterTable ==
  ASSUME OneThread, NamesInv, NEW t \in Threads, SetShorterTable(t)
  PROVE  NamedInv'
<1>0. thread[t].pc = "set_shorter_table" /\ Plain(thread[t])
  BY DEF SetShorterTable, At, Plain
<1>h. /\ phase # "down" /\ TypeInv /\ IsFiniteSet(DOMAIN hash)
      /\ faults = 0 =>
           /\ Named(PersistedBy(thread[t]), Gone(thread[t]), More(thread[t]))
           /\ OnFile(thread[t])
  BY <1>0, NamedHere
<1>1. CASE Segfault
  BY <1>0, <1>1, NamedSegfault
<1>2. CASE /\ Goto(t, "remove_entry")
           /\ UNCHANGED <<inode_value, inodes, links, hash, phase, bounds>>
  <2>1. PICK th, p, h, g, more :
          /\ th = thread'[t] /\ p = thread[t].path /\ h = hash /\ g = Without(h, p)
          /\ more = {h[p]}
    OBVIOUS
  <2>2. th.pc = "remove_entry" /\ th.path = p
    BY <1>h, <1>2, <2>1, GotoFields
  <2>3. UNCHANGED <<hash, inodes, crashes, faults, phase>>
    BY <1>2 DEF bounds
  <2>4. faults = 0 => Named(h, {}, {}) /\ p \in DOMAIN h
    BY <1>0, <1>h, <2>1, PlainParts DEF OnFile
  <2>5. faults = 0 => Named(g, {}, {h[p]})
    BY <1>h, <2>1, <2>4, NamedRemoveName
  <2>6. faults = 0 => Named(g, {}, more)'
    BY <2>1, <2>3, <2>5, NamedStays
  <2>7. /\ g = PersistedBy(th)' /\ more = More(th)' /\ Gone(th) = {}
        /\ faults = 0 => OnFile(th)'
    BY <2>1, <2>2, <2>3, <2>4 DEF PersistedBy, More, Gone, OnFile
  <2>. QED
    BY <1>h, <2>1, <2>3, <2>6, <2>7, NamedMove
<1>. QED
  BY <1>1, <1>2 DEF SetShorterTable

\* The hash table follows, and the number of links decides what comes next.
LEMMA NamedRemoveEntry ==
  ASSUME OneThread, NamesInv, NEW t \in Threads, RemoveEntry(t)
  PROVE  NamedInv'
<1>1. PICK th, p, h, g, i, attr :
        /\ th = thread'[t] /\ p = thread[t].path /\ h = hash /\ g = Without(h, p)
        /\ i = hashable_get_entry(p) /\ attr = inodes[i]
  OBVIOUS
<1>0. thread[t].pc = "remove_entry"
  BY DEF RemoveEntry, At
<1>h. /\ phase # "down" /\ MemoryOK /\ IsFiniteSet(DOMAIN hash)
      /\ thread[t] \in Thread /\ t \in DOMAIN thread
      /\ faults = 0 =>
           /\ Named(PersistedBy(thread[t]), Gone(thread[t]), More(thread[t]))
           /\ OnFile(thread[t])
  BY <1>0, NamedHere
<1>2. faults = 0 => p \in DOMAIN h /\ i = h[p] /\ Named(g, {}, {i})
  <2>. SUFFICES ASSUME faults = 0
                PROVE  p \in DOMAIN h /\ i = h[p] /\ Named(g, {}, {i})
    OBVIOUS
  <2>1. p \in DOMAIN h
    BY <1>0, <1>1, <1>h DEF OnFile
  <2>2. i = h[p]
    BY <1>1, <2>1 DEF hashable_get_entry
  <2>3. PersistedBy(thread[t]) = g /\ Gone(thread[t]) = {} /\ More(thread[t]) = {i}
    BY <1>0, <1>1, <2>2 DEF PersistedBy, Gone, More
  <2>. QED
    BY <1>h, <2>1, <2>2, <2>3
<1>3. CASE i \notin DOMAIN inodes
  <2>1. Segfault
    BY <1>1, <1>3 DEF RemoveEntry
  <2>2. faults # 0
    BY <1>2, <1>3 DEF Named
  <2>. QED
    BY <1>0, <2>1, <2>2, NamedSegfault
<1>4. CASE i \in DOMAIN inodes
  <2>. DEFINE next == IF attr.kind = "reg" /\ attr.nlink > 1
                      THEN "decrement_nlink" ELSE "delete_blocks"
  <2>1. /\ hash' = memcached_delete(hash, p)
        /\ thread' = [thread EXCEPT ![t].pc = next, ![t].ino = i, ![t].attr = attr]
        /\ UNCHANGED <<server, phase, bounds>>
    BY <1>1, <1>4 DEF RemoveEntry
  <2>2. th.pc = next /\ th.ino = i /\ th.attr = attr
    BY <1>1, <1>h, <2>1 DEF Thread
  <2>3. UNCHANGED <<inodes, crashes, faults, phase>>
    BY <2>1 DEF server, bounds
  <2>4. hash' = g /\ IsFiniteSet(DOMAIN hash')
    BY <1>1, <1>h, <2>1, WithoutIsFinite DEF Without, memcached_delete
  <2>g. IsFiniteSet(DOMAIN g)
    BY <2>4
  <2>5. CASE attr.kind = "reg" /\ attr.nlink > 1
    <3>1. th.pc = "decrement_nlink"
      BY <2>2, <2>5
    <3>2. PICK more : more = {i}
      OBVIOUS
    <3>3. g = PersistedBy(th)' /\ more = More(th)' /\ Gone(th) = {}
      BY <2>2, <2>4, <3>1, <3>2 DEF PersistedBy, More, Gone
    <3>4. faults = 0 => Named(g, {}, more)'
      BY <1>2, <2>3, <3>2, NamedStays
    <3>5. OnFile(th)'
      BY <1>1, <1>4, <2>2, <2>3, <2>5, <3>1 DEF OnFile
    <3>. QED
      BY <1>1, <1>h, <2>3, <2>4, <3>3, <3>4, <3>5, NamedMove
  <2>6. CASE ~ (attr.kind = "reg" /\ attr.nlink > 1)
    <3>1. th.pc = "delete_blocks"
      BY <2>2, <2>6
    <3>2. PICK more : more = {}
      OBVIOUS
    <3>3. g = PersistedBy(th)' /\ more = More(th)' /\ Gone(th) = {i}
      BY <2>2, <2>4, <3>1, <3>2 DEF PersistedBy, More, Gone
    <3>4. faults = 0 => Named(g, {i}, {})
      BY <1>1, <1>2, <1>4, <1>h, <2>6, <2>g, NamedLastName
    <3>5. faults = 0 => Named(g, {i}, more)'
      BY <2>3, <3>2, <3>4, NamedStays
    <3>6. OnFile(th)'
      BY <3>1 DEF OnFile
    <3>. QED
      BY <1>1, <1>h, <2>3, <2>4, <3>3, <3>5, <3>6, NamedMove
  <2>. QED
    BY <2>5, <2>6
<1>. QED
  BY <1>3, <1>4

\* One of several names is gone; its link is not counted any more.
LEMMA NamedDecrementNlink ==
  ASSUME OneThread, NamesInv, NEW t \in Threads, DecrementNlink(t)
  PROVE  NamedInv'
<1>1. PICK th, i, h, more : th = thread'[t] /\ i = thread[t].ino /\ h = hash /\ more = {}
  OBVIOUS
<1>0. thread[t].pc = "decrement_nlink" /\ UNCHANGED <<hash, crashes, faults, phase>>
  BY DEF DecrementNlink, At, bounds
<1>h. /\ phase # "down" /\ MemoryOK /\ TypeInv /\ IsFiniteSet(DOMAIN hash)
      /\ faults = 0 =>
           /\ Named(PersistedBy(thread[t]), Gone(thread[t]), More(thread[t]))
           /\ OnFile(thread[t])
  BY <1>0, NamedHere
<1>2. th.pc = "remove_link"
  BY <1>1, <1>h, GotoFields DEF DecrementNlink
<1>3. faults = 0 => Named(h, {}, {i})
  BY <1>0, <1>1, <1>h DEF PersistedBy, Gone, More
<1>4. faults = 0 => /\ i \in DOMAIN inodes /\ thread[t].attr = inodes[i]
                    /\ inodes[i].kind = "reg" /\ inodes[i].nlink > 1
  BY <1>0, <1>1, <1>h DEF OnFile
<1>5. faults = 0 =>
        inodes' = memcached_set(inodes, i, [inodes[i] EXCEPT !.nlink = @ - 1])
  BY <1>1, <1>4 DEF DecrementNlink
<1>6. faults = 0 => Named(h, {}, {})'
  BY <1>0, <1>1, <1>h, <1>3, <1>4, <1>5, NamedDecrement
<1>7. h = PersistedBy(th)' /\ more = More(th)' /\ Gone(th) = {} /\ OnFile(th)'
  BY <1>0, <1>1, <1>2 DEF PersistedBy, More, Gone, OnFile
<1>. QED
  BY <1>0, <1>1, <1>h, <1>6, <1>7, NamedMove

\* The last name is gone: the blocks go, then the inode.
LEMMA NamedDeleteBlocks ==
  ASSUME OneThread, NamesInv, NEW t \in Threads, DeleteBlocks(t)
  PROVE  NamedInv'
<1>1. PICK th, i, h, more : th = thread'[t] /\ i = thread[t].ino /\ h = hash /\ more = {}
  OBVIOUS
<1>0. thread[t].pc = "delete_blocks"
      /\ UNCHANGED <<hash, inodes, crashes, faults, phase>>
  BY DEF DeleteBlocks, At, bounds
<1>h. /\ phase # "down" /\ TypeInv /\ IsFiniteSet(DOMAIN hash)
      /\ faults = 0 =>
           Named(PersistedBy(thread[t]), Gone(thread[t]), More(thread[t]))
  BY <1>0, NamedHere
<1>2. th.pc = "delete_inode" /\ th.ino = i
  BY <1>1, <1>h, GotoFields DEF DeleteBlocks
<1>3. faults = 0 => Named(h, {i}, {})
  BY <1>0, <1>1, <1>h DEF PersistedBy, Gone, More
<1>4. faults = 0 => Named(h, {i}, {})'
  BY <1>0, <1>3, NamedStays
<1>5. h = PersistedBy(th)' /\ more = More(th)' /\ Gone(th) = {i} /\ OnFile(th)'
  BY <1>0, <1>1, <1>2 DEF PersistedBy, More, Gone, OnFile
<1>. QED
  BY <1>0, <1>1, <1>h, <1>4, <1>5, NamedMove

\* The inode that is deleted has no name.
LEMMA NamedDeleteInode ==
  ASSUME OneThread, NamesInv, NEW t \in Threads, DeleteInode(t)
  PROVE  NamedInv'
<1>1. PICK th, i, h, more : th = thread'[t] /\ i = thread[t].ino /\ h = hash /\ more = {}
  OBVIOUS
<1>0. thread[t].pc = "delete_inode"
      /\ UNCHANGED <<hash, crashes, faults, phase>>
      /\ inodes' = memcached_delete(inodes, thread[t].ino)
  BY DEF DeleteInode, At, bounds
<1>h. /\ phase # "down" /\ TypeInv /\ IsFiniteSet(DOMAIN hash)
      /\ faults = 0 =>
           Named(PersistedBy(thread[t]), Gone(thread[t]), More(thread[t]))
  BY <1>0, NamedHere
<1>2. th.pc = "remove_link"
  BY <1>1, <1>h, GotoFields DEF DeleteInode
<1>3. faults = 0 => Named(h, {i}, {})
  BY <1>0, <1>1, <1>h DEF PersistedBy, Gone, More
<1>4. faults = 0 => NamesOf(h, i) = {}
  BY <1>3 DEF Named, NamesOf
<1>5. faults = 0 => Named(h, {}, {})'
  BY <1>0, <1>1, <1>3, <1>4, NamedDelete
<1>6. h = PersistedBy(th)' /\ more = More(th)' /\ Gone(th) = {} /\ OnFile(th)'
  BY <1>0, <1>1, <1>2 DEF PersistedBy, More, Gone, OnFile
<1>. QED
  BY <1>0, <1>1, <1>h, <1>5, <1>6, NamedMove

\* Removing the link of a directory changes no name.
LEMMA NamedRemoveLink ==
  ASSUME OneThread, NamesInv, NEW t \in Threads, RemoveLink(t)
  PROVE  NamedInv'
<1>0. thread[t].pc = "remove_link" /\ Plain(thread[t])
  BY DEF RemoveLink, At, Plain
<1>h. phase # "down" /\ TypeInv
  BY <1>0, NamedHere
<1>1. CASE Segfault
  BY <1>0, <1>1, NamedSegfault
<1>2. CASE Return(t) /\ UNCHANGED <<hash, inodes, phase, bounds>>
  <2>1. PICK th : th = thread'[t]
    OBVIOUS
  <2>2. th.pc = "idle" /\ Plain(th) /\ OnFile(th)'
    BY <1>h, <1>2, <2>1, ReturnFields DEF Plain, OnFile
  <2>. QED
    BY <1>0, <1>h, <1>2, <2>1, <2>2, NamedPlainStep DEF bounds
<1>. QED
  BY <1>1, <1>2 DEF RemoveLink, server

-----------------------------------------------------------------------------
(* Handlers, the process and memcached.                                    *)

\* A handler starts with a file it may work on.
LEMMA NamedEnter ==
  ASSUME OneThread, NamesInv, NEW t \in Threads, NEW th, Enter(t, th),
         th.pc \in {"get_inode_value", "get_link_target", "get_table"},
         faults = 0 => OnFile(th)
  PROVE  NamedInv'
<1>1. /\ phase = "up" /\ thread[t].pc = "idle" /\ thread \in [Threads -> Thread]
      /\ thread' = [thread EXCEPT ![t] = th] /\ UNCHANGED <<server, hash, phase, bounds>>
  BY TypeInvParts DEF Enter, At, NamesInv, IInv
<1>2. thread'[t] = th /\ phase' # "down" /\ UNCHANGED <<hash, inodes, crashes, faults>>
  BY <1>1 DEF server, bounds
<1>3. Plain(thread[t]) /\ Plain(th)
  BY <1>1 DEF Plain
<1>4. faults = 0 => OnFile(th)'
  BY <1>2 DEF OnFile
<1>. QED
  BY <1>1, <1>2, <1>3, <1>4, NamedPlainStep

\* Entering a handler changes no name.
LEMMA NamedHandler ==
  ASSUME OneThread, NamesInv, NEW t \in Threads, Handler(t)
  PROVE  NamedInv'
<1>1. ASSUME NEW p \in Paths, NEW kind \in Kinds, EnterCreate(t, p, kind)
      PROVE  NamedInv'
  <2>1. PICK th : th = [Idle EXCEPT !.pc = "get_inode_value", !.path = p, !.old = p,
                                    !.kind = kind]
    OBVIOUS
  <2>2. Enter(t, th) /\ th.pc = "get_inode_value"
    BY <1>1, <2>1 DEF EnterCreate, Idle
  <2>3. OnFile(th)
    BY <2>2 DEF OnFile
  <2>. QED
    BY <2>2, <2>3, NamedEnter
<1>2. ASSUME NEW p \in Paths, Exists(p), EnterDelete(t, p)
      PROVE  NamedInv'
  <2>1. PICK th : th = [Idle EXCEPT !.pc = "get_table", !.path = p, !.old = p]
    OBVIOUS
  <2>2. Enter(t, th) /\ th.pc = "get_table" /\ th.path = p
    BY <1>2, <2>1 DEF EnterDelete, Idle
  <2>3. p \in DOMAIN hash
    BY <1>2, PathExists
  <2>4. OnFile(th)
    BY <2>2, <2>3 DEF OnFile
  <2>. QED
    BY <2>2, <2>4, NamedEnter
<1>3. ASSUME NEW old \in Paths, NEW new \in Paths, memcached_link(t, old, new)
      PROVE  NamedInv'
  <2>1. PICK th : th = [Idle EXCEPT !.pc = "get_link_target", !.path = new, !.old = old]
    OBVIOUS
  <2>2. Enter(t, th) /\ th.pc = "get_link_target" /\ th.old = old
    BY <1>3, <2>1 DEF memcached_link, Idle
  <2>3. old \in DOMAIN hash /\ HasKind(old, {"reg"})
    BY <1>3, PathExists DEF memcached_link, HasKind, OneThread
  <2>4. faults = 0 => hash[old] \in DOMAIN inodes
    <3>1. phase # "down" /\ thread[t].pc = "idle"
      BY <2>2 DEF Enter, At
    <3>2. Plain(thread[t])
      BY <3>1 DEF Plain
    <3>3. faults = 0 => Named(hash, {}, {})
      BY <3>1, <3>2, PlainParts, NamedHere
    <3>. QED
      BY <2>3, <3>3 DEF Named
  <2>5. faults = 0 => OnFile(th)
    BY <2>2, <2>3, <2>4 DEF OnFile, HasKind
  <2>. QED
    BY <2>2, <2>5, NamedEnter
<1>. QED
  BY <1>1, <1>2, <1>3 DEF Handler, memcached_mkdir, memcached_create,
     memcached_symlink, memcached_unlink, memcached_rmdir, Kinds

\* The mount takes every name from the table, or starts with nothing at all.
LEMMA NamedMount ==
  ASSUME OneThread, NamesInv, NEW t \in Threads, memcached_init(t)
  PROVE  NamedInv'
<1>1. /\ phase = "down" /\ thread[t].pc = "idle" /\ MemoryOK
      /\ thread \in [Threads -> Thread]
      /\ crashes' = crashes /\ faults' = faults
  BY TypeInvParts DEF memcached_init, NamesInv, IInv, SyncInv, DownInv, bounds
<1>2. CASE table = Absent
  <2>1. PICK th, h, more : th = thread'[t] /\ h = NoFunction /\ more = {}
    OBVIOUS
  <2>2. /\ inodes' = NoFunction /\ hash' = h /\ phase' = "init"
        /\ th = [Idle EXCEPT !.pc = "set_empty_table", !.kind = "dir"]
    BY <1>1, <1>2, <2>1 DEF memcached_init
  <2>3. th.pc = "set_empty_table"
    BY <2>2 DEF Idle
  <2>4. h = PersistedBy(th)' /\ more = More(th)' /\ Gone(th) = {} /\ OnFile(th)'
    BY <2>1, <2>2, <2>3 DEF PersistedBy, More, Gone, OnFile
  <2>5. DOMAIN h = {} /\ DOMAIN inodes' = {}
    BY <2>1, <2>2 DEF NoFunction
  <2>6. Named(h, {}, more)'
    BY <2>1, <2>5 DEF Named
  <2>7. IsFiniteSet(DOMAIN hash') /\ phase' # "down"
    BY <2>2, <2>5, FS_EmptySet
  <2>. QED
    BY <2>1, <2>4, <2>6, <2>7, NamedMove
<1>3. CASE table # Absent
  <2>1. PICK th, h, more : /\ th = thread'[t] /\ more = {}
                           /\ h = hashtable_string_to_table(table)
    OBVIOUS
  <2>2. /\ hash' = h /\ phase' = "up" /\ UNCHANGED <<server, thread>>
        /\ IsList(table) /\ table \in Seq(Entry)
    BY <1>1, <1>3, <2>1 DEF memcached_init, IsList, MemoryOK
  <2>3. th.pc = "idle" /\ inodes' = inodes
    BY <1>1, <2>1, <2>2 DEF server
  <2>4. h = PersistedBy(th)' /\ more = More(th)' /\ Gone(th) = {} /\ OnFile(th)'
    BY <2>1, <2>2, <2>3 DEF PersistedBy, More, Gone, OnFile
  <2>5. faults = 0 => Named(h, {}, {})
    BY <1>1, <2>1, <2>2 DEF NamesInv, NamedInv
  <2>6. faults = 0 => Named(h, {}, more)'
    BY <1>1, <2>1, <2>3, <2>5, NamedStays
  <2>7. IsFiniteSet(DOMAIN hash')
    BY <2>1, <2>2, StringToTableType, EntryPathsFinite
  <2>. QED
    BY <1>1, <2>1, <2>2, <2>4, <2>6, <2>7, NamedMove
<1>. QED
  BY <1>2, <1>3

\* A clean unmount forgets the hash table; the table in memcached has it all.
LEMMA NamedDestroy ==
  ASSUME OneThread, NamesInv, memcached_destroy
  PROVE  NamedInv'
<1>1. PICK t : t \in Threads
  BY NamespaceAssumption
<1>2. /\ phase # "down" /\ thread[t].pc = "idle" /\ Die /\ UNCHANGED server
      /\ inodes' = inodes /\ crashes' = crashes /\ faults' = faults
  BY <1>1 DEF memcached_destroy, At, server, bounds
<1>3. PICK h : h = PersistedBy(thread[t])
  OBVIOUS
<1>4. Plain(thread[t])
  BY <1>2 DEF Plain
<1>5. faults = 0 => Named(h, {}, {})
  BY <1>1, <1>2, <1>3, <1>4, NamedHere, PlainParts
<1>6. faults = 0 => Named(h, {}, {})'
  BY <1>2, <1>5, NamedStays
<1>. QED
  BY <1>1, <1>2, <1>3, <1>6, NamedDie DEF NamesInv

\* A kill leaves in memcached at most what the attributes count.
LEMMA NamedCrash ==
  ASSUME OneThread, NamesInv, Crash
  PROVE  NamedInv'
<1>1. PICK t : t \in Threads
  BY NamespaceAssumption
<1>2. /\ phase # "down" /\ Die /\ UNCHANGED server
      /\ inodes' = inodes /\ crashes' = crashes + 1 /\ faults' = faults
  BY DEF Crash, server
<1>3. PICK h, gone, more : /\ h = PersistedBy(thread[t]) /\ gone = Gone(thread[t])
                           /\ more = More(thread[t])
  OBVIOUS
<1>4. /\ MemoryOK /\ IsFiniteSet(DOMAIN hash)
      /\ faults = 0 => Named(h, gone, more)
  BY <1>1, <1>2, <1>3, NamedHere
<1>5. IsFiniteSet(DOMAIN h)
  BY <1>3, <1>4, WithoutIsFinite DEF PersistedBy
<1>6. faults = 0 => Named(h, {}, {})'
  BY <1>2, <1>4, <1>5, NamedAfterKill
<1>. QED
  BY <1>1, <1>2, <1>3, <1>6, NamedDie DEF NamesInv

\* After a dropped key nothing is promised.
LEMMA NamedEvict ==
  ASSUME NamesInv, Evict
  PROVE  NamedInv'
<1>1. faults' # 0 /\ hash' = hash
  BY TypeInvParts DEF Evict, MemoryOK, NamesInv, IInv, process
<1>. QED
  BY <1>1 DEF NamesInv, NamedInv

\* A step that changes nothing.
LEMMA NamedStutter ==
  ASSUME NamesInv, UNCHANGED vars
  PROVE  NamedInv'
  BY DEF NamesInv, NamedInv, vars, server, process, bounds, Named, Counted,
     PersistedBy, Gone, More, OnFile, IsList

\* The invariant of the names holds at the beginning.
LEMMA NamesInit == Init => NamesInv
<1>. SUFFICES ASSUME Init PROVE NamesInv
  OBVIOUS
<1>1. IInv
  BY IInvInit
<1>2. NamedInv
  BY FS_EmptySet, TextAssumption DEF Init, NamedInv, NoFunction, IsList
<1>. QED
  BY <1>1, <1>2 DEF NamesInv

\* Every step keeps every path with its inode and its links counted.
LEMMA NamesStep == OneThread => (NamesInv /\ [Next]_vars => NamesInv')
<1>. SUFFICES ASSUME OneThread, NamesInv, [Next]_vars
              PROVE  NamesInv'
  OBVIOUS
<1>1. IInv'
  BY IInvStep DEF NamesInv, OneThread
<1>2. ASSUME NEW t \in Threads, Step(t)
      PROVE  NamedInv'
  BY <1>2, NamedFirstKeys, NamedGetInodeValue, NamedSetInode, NamedSetInodeValue,
     NamedAddEntry, NamedSetTable, NamedAddLink, NamedCountLink, NamedGetTable,
     NamedSetShorterTable, NamedRemoveEntry, NamedDecrementNlink, NamedDeleteBlocks,
     NamedDeleteInode, NamedRemoveLink, NamedGetLinkTarget, NamedIncrementNlink
  DEF Step
<1>3. NamedInv'
  BY <1>2, NamedMount, NamedHandler, NamedDestroy, NamedCrash, NamedEvict, NamedStutter
  DEF Next
<1>. QED
  BY <1>1, <1>3 DEF NamesInv

-----------------------------------------------------------------------------
(* The persisted table and the attributes.                                 *)

\* A list counts as many entries for an inode as its hash table names.
LEMMA EntriesAreNames ==
  ASSUME table \in Seq(Entry), NEW h, Agree(table, h), NEW i
  PROVE  Cardinality(EntriesOf(i)) = Count(h, i)
<1>1. PICK f : f = [j \in EntriesOf(i) |-> table[j].path]
  OBVIOUS
<1>2. f \in [EntriesOf(i) -> NamesOf(h, i)]
  BY <1>1 DEF EntriesOf, NamesOf, Agree, EntryPaths
<1>3. ASSUME NEW p \in NamesOf(h, i)
      PROVE  \E j \in EntriesOf(i) : f[j] = p
  <2>1. PICK j \in DOMAIN table : table[j].path = p
    BY DEF NamesOf, Agree, EntryPaths
  <2>2. table[j].ino = i
    BY <2>1 DEF NamesOf, Agree
  <2>. QED
    BY <1>1, <2>1, <2>2 DEF EntriesOf
<1>4. \A j, k \in EntriesOf(i) : f[j] = f[k] => j = k
  BY <1>1 DEF EntriesOf, Agree
<1>5. f \in Bijection(EntriesOf(i), NamesOf(h, i))
  BY <1>2, <1>3, <1>4 DEF Bijection, Injection, Surjection, IsInjective
<1>6. IsFiniteSet(EntriesOf(i))
  BY EntryPathsFinite, FS_Subset DEF EntriesOf
<1>. QED
  BY <1>5, <1>6, FS_Bijection DEF ExistsBijection, Count

\* Up or down, the persisted table agrees with paths that are counted.
LEMMA PersistedNames ==
  ASSUME NamesInv, faults = 0, IsList(table)
  PROVE  \E h, gone, more : /\ Agree(table, h) /\ IsFiniteSet(DOMAIN h)
                            /\ Named(h, gone, more)
<1>1. table \in Seq(Entry)
  BY TypeInvParts DEF NamesInv, IInv, MemoryOK, IsList
<1>2. CASE phase = "down"
  <2>1. PICK h : h = hashtable_string_to_table(table)
    OBVIOUS
  <2>2. Agree(table, h)
    BY <1>1, <1>2, <2>1, AgreeMounted DEF NamesInv, IInv, SyncInv, DownInv
  <2>3. IsFiniteSet(DOMAIN h) /\ Named(h, {}, {})
    BY <1>1, <1>2, <2>1, StringToTableType, EntryPathsFinite DEF NamesInv, NamedInv
  <2>. QED
    BY <2>2, <2>3
<1>3. CASE phase # "down"
  <2>1. PICK t : t \in Threads
    BY NamespaceAssumption
  <2>2. PICK h : h = PersistedBy(thread[t])
    OBVIOUS
  <2>3. Agree(table, h)
    BY <1>3, <2>1, <2>2 DEF NamesInv, IInv, SyncInv, SyncAt, Persisted, PersistedBy
  <2>4. IsFiniteSet(DOMAIN hash) /\ Named(h, Gone(thread[t]), More(thread[t]))
    BY <1>3, <2>1, <2>2, NamedHere
  <2>5. IsFiniteSet(DOMAIN h)
    BY <2>2, <2>4, WithoutIsFinite DEF PersistedBy
  <2>. QED
    BY <2>3, <2>4, <2>5
<1>. QED
  BY <1>2, <1>3

\* With one worker thread and no dropped key each path of the persisted table
\* has its inode, at every step of every handler, so also after any kill.
THEOREM NoPathDangles ==
  ASSUME OneThread
  PROVE  Spec => []NoDanglingPath
<1>1. NamesInv => NoDanglingPath
  <2>. SUFFICES ASSUME NamesInv, faults = 0, IsList(table), NEW j \in DOMAIN table
                PROVE  table[j].ino \in DOMAIN inodes
    BY DEF NoDanglingPath, EntryInos
  <2>1. PICK h, gone, more : Agree(table, h) /\ Named(h, gone, more)
    BY PersistedNames
  <2>2. table[j].path \in DOMAIN h /\ h[table[j].path] = table[j].ino
    BY <2>1 DEF Agree, EntryPaths
  <2>. QED
    BY <2>1, <2>2 DEF Named
<1>. QED
  BY <1>1, NamesInit, NamesStep, PTL DEF Spec

\* With one worker thread and no dropped key a file never has more paths in the
\* persisted table than links counted, whatever the moment of a kill, so that
\* delete_inode frees no inode that another path still names.
THEOREM LinksCoverPaths ==
  ASSUME OneThread
  PROVE  Spec => []LinkCountCoversEntries
<1>1. NamesInv => LinkCountCoversEntries
  <2>. SUFFICES ASSUME NamesInv, faults = 0, IsList(table),
                       NEW i \in DOMAIN inodes, inodes[i].kind = "reg"
                PROVE  Cardinality(EntriesOf(i)) <= inodes[i].nlink
    BY DEF LinkCountCoversEntries
  <2>1. PICK h, gone, more : Agree(table, h) /\ IsFiniteSet(DOMAIN h)
                             /\ Named(h, gone, more)
    BY PersistedNames
  <2>2. table \in Seq(Entry) /\ MemoryOK
    BY TypeInvParts DEF NamesInv, IInv, MemoryOK, IsList
  <2>3. Cardinality(EntriesOf(i)) = Count(h, i)
    BY <2>1, <2>2, EntriesAreNames
  <2>4. Count(h, i) \in Nat /\ (NamesOf(h, i) = {} => Count(h, i) = 0)
    BY <2>1, CountIsNat
  <2>5. inodes[i].nlink \in Int /\ Cap(inodes[i]) = inodes[i].nlink
    BY <2>2 DEF MemoryOK, Inode, Cap
  <2>6. CASE i \in gone
    BY <2>1, <2>3, <2>4, <2>5, <2>6 DEF Named
  <2>7. CASE i \notin gone
    <3>1. Count(h, i) + (IF i \in more THEN 1 ELSE 0) <= inodes[i].nlink
      BY <2>1, <2>5, <2>7 DEF Named, Counted
    <3>. QED
      BY <2>3, <2>4, <2>5, <3>1
  <2>. QED
    BY <2>6, <2>7
<1>. QED
  BY <1>1, NamesInit, NamesStep, PTL DEF Spec

\* With one worker thread, until a kill or a dropped key, the number of links of
\* a file is the number of its paths in the persisted table between handlers.
THEOREM LinksCountPaths ==
  ASSUME OneThread
  PROVE  Spec => []LinkCountIsExact
<1>1. NamesInv => LinkCountIsExact
  <2>. SUFFICES ASSUME NamesInv, Quiet, IsList(table), NoMishap,
                       NEW i \in DOMAIN inodes, inodes[i].kind = "reg"
                PROVE  Cardinality(EntriesOf(i)) = inodes[i].nlink
    BY DEF LinkCountIsExact
  <2>1. PICK t : t \in Threads
    BY NamespaceAssumption
  <2>2. phase # "down" /\ thread[t].pc = "idle" /\ Plain(thread[t])
        /\ faults = 0 /\ crashes = 0
    BY <2>1 DEF Quiet, At, Plain, NoMishap
  <2>3. IsFiniteSet(DOMAIN hash) /\ Named(hash, {}, {}) /\ SyncAt(t)
    BY <2>1, <2>2, NamedHere, PlainParts
  <2>4. Agree(table, hash) /\ table \in Seq(Entry) /\ MemoryOK
    BY <2>2, <2>3, TypeInvParts
    DEF SyncAt, Persisted, NamesInv, IInv, MemoryOK, IsList
  <2>5. Cardinality(EntriesOf(i)) = Count(hash, i)
    BY <2>4, EntriesAreNames
  <2>6. Count(hash, i) \in Nat /\ Count(hash, i) + 0 = inodes[i].nlink
    BY <2>2, <2>3, CountIsNat DEF Named, Counted, Cap
  <2>. QED
    BY <2>5, <2>6
<1>. QED
  BY <1>1, NamesInit, NamesStep, PTL DEF Spec
=============================================================================
