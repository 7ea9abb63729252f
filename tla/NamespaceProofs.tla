--------------------------- MODULE NamespaceProofs ---------------------------
(***************************************************************************)
(* Proofs about module Namespace.                                          *)
(***************************************************************************)
EXTENDS Namespace, SequenceTheorems, WellFoundedInduction, TLAPS

-----------------------------------------------------------------------------
(* Lemmas on the operators of the model.                                   *)

\* Taking one element out of a sequence keeps the others, in their order.
LEMMA RemoveAtProperties ==
  ASSUME NEW S, NEW s \in Seq(S), NEW i \in 1..Len(s)
  PROVE  /\ RemoveAt(s, i) \in Seq(S)
         /\ Len(RemoveAt(s, i)) = Len(s) - 1
         /\ \A j \in 1..(Len(s) - 1) :
              RemoveAt(s, i)[j] = IF j < i THEN s[j] ELSE s[j + 1]
<1>0. Len(s) \in Nat /\ \A j \in 1..Len(s) : s[j] \in S
  OBVIOUS
<1>1. /\ SubSeq(s, 1, i - 1) \in Seq(S)
      /\ Len(SubSeq(s, 1, i - 1)) = i - 1
      /\ \A j \in 1..(i - 1) : SubSeq(s, 1, i - 1)[j] = s[j]
  BY <1>0, SubSeqProperties
<1>2. /\ SubSeq(s, i + 1, Len(s)) \in Seq(S)
      /\ Len(SubSeq(s, i + 1, Len(s))) = Len(s) - i
      /\ \A j \in 1..(Len(s) - i) : SubSeq(s, i + 1, Len(s))[j] = s[i + j]
  BY <1>0, SubSeqProperties
<1>3. ASSUME NEW a \in Seq(S), NEW b \in Seq(S), Len(a) = i - 1,
             Len(b) = Len(s) - i,
             \A j \in 1..(i - 1) : a[j] = s[j],
             \A j \in 1..(Len(s) - i) : b[j] = s[i + j]
      PROVE  /\ a \o b \in Seq(S) /\ Len(a \o b) = Len(s) - 1
             /\ \A j \in 1..(Len(s) - 1) :
                  (a \o b)[j] = IF j < i THEN s[j] ELSE s[j + 1]
  <2>1. /\ a \o b \in Seq(S) /\ Len(a \o b) = Len(s) - 1
        /\ \A j \in 1..(Len(s) - 1) :
             (a \o b)[j] = IF j <= i - 1 THEN a[j] ELSE b[j - (i - 1)]
    <3>1. /\ a \o b \in Seq(S) /\ Len(a \o b) = Len(a) + Len(b)
          /\ \A j \in 1..(Len(a) + Len(b)) :
               (a \o b)[j] = IF j <= Len(a) THEN a[j] ELSE b[j - Len(a)]
      BY <1>3, ConcatProperties
    <3>2. Len(a) + Len(b) = Len(s) - 1
      BY <1>0, <1>3
    <3>. QED
      BY <1>3, <3>1, <3>2
  <2>2. ASSUME NEW j \in 1..(Len(s) - 1)
        PROVE  (a \o b)[j] = IF j < i THEN s[j] ELSE s[j + 1]
    <3>1. CASE j < i
      BY <1>0, <1>3, <2>1, <3>1
    <3>2. CASE ~ (j < i)
      <4>1. j - (i - 1) \in 1..(Len(s) - i) /\ i + (j - (i - 1)) = j + 1
        BY <1>0, <3>2
      <4>. QED
        BY <1>0, <1>3, <2>1, <3>2, <4>1
    <3>. QED
      BY <3>1, <3>2
  <2>. QED
    BY <2>1, <2>2
<1>. QED
  BY <1>1, <1>2, <1>3 DEF RemoveAt

\* A name taken from a path is a name, and its directory is a path.
LEMMA PathParts ==
  ASSUME NEW p \in Paths, p # Root
  PROVE  get_name_from_path(p) \in Names /\ get_parent_directory(p) \in Paths
<1>1. p \in Seq(Names) /\ Len(p) # 0
  BY PathsAssumption, EmptySeq DEF Root
<1>. QED
  BY <1>1, PathsAssumption DEF get_name_from_path, get_parent_directory

\* An entry added to a list leaves a list.
LEMMA AddEntryType ==
  ASSUME NEW tbl \in Seq(Entry) \cup {Garbled}, NEW p \in Paths, NEW i \in Nat
  PROVE  add_inode_to_table(tbl, p, i) \in Seq(Entry) \cup {Garbled}
  BY DEF add_inode_to_table, Entry

\* An entry removed from a list leaves a list, no list, or NULL.
LEMMA RemoveEntryType ==
  ASSUME NEW tbl \in Seq(Entry) \cup {Garbled}, NEW p \in Paths, NEW b
  PROVE  remove_inode_from_table(tbl, p, b) \in Seq(Entry) \cup {Absent, Garbled}
<1>1. CASE \E j \in DOMAIN tbl : IsFirstHit(j, tbl, p)
  <2>1. CASE tbl \in Seq(Entry)
    <3>. DEFINE j == CHOOSE j \in DOMAIN tbl : IsFirstHit(j, tbl, p)
    <3>1. j \in 1..Len(tbl)
      BY <1>1, <2>1
    <3>2. RemoveAt(tbl, j) \in Seq(Entry)
      BY <2>1, <3>1, RemoveAtProperties
    <3>. QED
      BY <3>2 DEF remove_inode_from_table
  <2>. QED
    BY <2>1 DEF remove_inode_from_table
<1>. QED
  BY <1>1 DEF remove_inode_from_table

\* A set of naturals that is not empty has a largest element below a bound.
LEMMA LargestBelow ==
  ASSUME NEW n \in Nat, NEW T \in SUBSET (1..n), T # {}
  PROVE  \E x \in T : \A y \in T : y <= x
<1>. DEFINE D == {d \in Nat : n - d \in T}
<1>1. \A y \in T : n - y \in D
  BY Z3
<1>2. D # {}
  BY <1>1
<1>3. PICK d \in D : \A e \in D : ~ (<<e, d>> \in OpToRel(<, Nat))
  <2>. HIDE DEF D
  <2>1. D \subseteq Nat
    BY DEF D
  <2>. QED
    BY <1>2, <2>1, NatLessThanWellFounded, WFMin
<1>4. \A e \in D : ~ (e < d)
  BY <1>3 DEF OpToRel
<1>5. \A y \in T : y <= n - d
  BY <1>1, <1>4
<1>. QED
  BY <1>5

\* The hash table made from a list has one of the list's ids for each path.
LEMMA StringToTableType ==
  ASSUME NEW tbl \in Seq(Entry)
  PROVE  /\ DOMAIN hashtable_string_to_table(tbl) = EntryPaths(tbl)
         /\ \A p \in EntryPaths(tbl) :
              \E j \in DOMAIN tbl :
                /\ tbl[j].path = p
                /\ hashtable_string_to_table(tbl)[p] = tbl[j].ino
<1>1. ASSUME NEW p \in EntryPaths(tbl)
      PROVE  \E j \in DOMAIN tbl :
               /\ tbl[j].path = p
               /\ \A k \in (j + 1)..Len(tbl) : tbl[k].path # p
  <2>. DEFINE T == {j \in DOMAIN tbl : tbl[j].path = p}
  <2>1. T # {} /\ T \in SUBSET (1..Len(tbl)) /\ Len(tbl) \in Nat
    BY DEF EntryPaths
  <2>2. PICK j \in T : \A k \in T : k <= j
    BY <2>1, LargestBelow
  <2>. QED
    BY <2>1, <2>2
<1>. QED
  BY <1>1 DEF hashtable_string_to_table

\* A name added to the links of a directory leaves links.
LEMMA AddLinkType ==
  ASSUME NEW lnks \in Seq(Names) \cup {Absent, Garbled}, NEW n \in Names
  PROVE  add_link(lnks, n) \in Seq(Names) \cup {Garbled}
  BY DEF add_link

\* A name removed from the links of a directory leaves links or NULL.
LEMMA RemoveLinkType ==
  ASSUME NEW lnks \in Seq(Names) \cup {Garbled}, NEW n \in Names
  PROVE  remove_link(lnks, n) \in Seq(Names) \cup {Absent, Garbled}
<1>1. CASE lnks \in Seq(Names) /\ \E j \in DOMAIN lnks : IsFirstLink(j, lnks, n)
  <2>. DEFINE j == CHOOSE j \in DOMAIN lnks : IsFirstLink(j, lnks, n)
  <2>1. j \in 1..Len(lnks)
    BY <1>1
  <2>2. RemoveAt(lnks, j) \in Seq(Names)
    BY <1>1, <2>1, RemoveAtProperties
  <2>. QED
    BY <2>2 DEF remove_link
<1>. QED
  BY <1>1 DEF remove_link

-----------------------------------------------------------------------------
(* Type correctness, for any number of threads.                            *)

\* The steps that name an entry of a parent directory are not for the root,
\* and those that compute a new inode table have one to start from.
WellFormed(th) ==
  /\ th.pc \in {"add_link", "count_link", "get_table", "set_shorter_table",
               "remove_entry", "decrement_nlink", "delete_blocks",
               "delete_inode", "remove_link"} => th.path # Root
  /\ th.pc \in {"set_table", "set_shorter_table"} => th.tbl # Absent

ShapeInv == \A t \in Threads : WellFormed(thread[t])

TypeInv == TypeOK /\ ShapeInv

\* The part of TypeOK that is not about the threads.
MemoryOK ==
  /\ table \in Seq(Entry) \cup {Absent, Garbled}
  /\ inode_value \in Nat \cup {Absent}
  /\ DOMAIN inodes \subseteq Nat
  /\ \A i \in DOMAIN inodes : inodes[i] \in Inode
  /\ DOMAIN links \subseteq Int
  /\ \A i \in DOMAIN links : links[i] \in Seq(Names) \cup {Garbled}
  /\ DOMAIN hash \subseteq Paths
  /\ \A p \in DOMAIN hash : hash[p] \in Nat
  /\ phase \in {"down", "init", "up"}
  /\ crashes \in 0..MaxCrashes /\ faults \in 0..MaxFaults

\* The invariant, as what memcached and the process hold and one part per thread.
LEMMA TypeInvParts ==
  TypeInv <=> /\ MemoryOK
              /\ thread \in [Threads -> Thread]
              /\ \A t \in Threads : WellFormed(thread[t])
  BY DEF TypeInv, TypeOK, MemoryOK, ShapeInv

\* A thread between two handlers is well formed.
LEMMA IdleType == Idle \in Thread /\ WellFormed(Idle)
<1>1. Root \in Paths
  BY PathsAssumption
<1>. QED
  BY <1>1 DEF Idle, Thread, Pcs, NoAttr, Inode, Kinds, WellFormed

\* The type invariant holds before the first mount.
LEMMA TypeInit == Init => TypeInv
<1>. SUFFICES ASSUME Init PROVE TypeInv
  OBVIOUS
<1>1. MemoryOK
  BY NamespaceAssumption DEF Init, MemoryOK, NoFunction
<1>. QED
  BY <1>1, IdleType, TypeInvParts DEF Init

\* A process that dies leaves the memory of the server alone.
LEMMA TypeDie ==
  ASSUME TypeInv, Die, UNCHANGED server,
         crashes' \in 0..MaxCrashes, faults' \in 0..MaxFaults
  PROVE  TypeInv'
  BY IdleType DEF TypeInv, TypeOK, ShapeInv, Die, NoFunction, server

\* The death of the process keeps the types.
LEMMA TypeSegfault == TypeInv /\ Segfault => TypeInv'
  BY TypeDie DEF Segfault, bounds, TypeInv, TypeOK

\* One thread moves on, and memory stays typed.
LEMMA TypeMove ==
  ASSUME TypeInv, NEW t \in Threads, NEW th \in Thread, WellFormed(th),
         thread' = [thread EXCEPT ![t] = th], MemoryOK'
  PROVE  TypeInv'
  BY DEF TypeInv, TypeOK, ShapeInv, MemoryOK

\* A thread that goes on to its next step keeps the types.
LEMMA TypeGoto ==
  ASSUME TypeInv, NEW t \in Threads, NEW pc \in Pcs, Goto(t, pc), MemoryOK',
         WellFormed([thread[t] EXCEPT !.pc = pc])
  PROVE  TypeInv'
<1>. DEFINE th == [thread[t] EXCEPT !.pc = pc]
<1>1. th \in Thread /\ thread' = [thread EXCEPT ![t] = th]
  BY TypeInvParts DEF Thread, Goto
<1>. HIDE DEF th
<1>2. WellFormed(th)
  BY DEF th
<1>. QED
  BY <1>1, <1>2, TypeMove

\* A thread that ends its handler keeps the types.
LEMMA TypeReturn ==
  ASSUME TypeInv, NEW t \in Threads, Return(t), MemoryOK'
  PROVE  TypeInv'
  BY IdleType, TypeMove DEF Return

\* A thread that enters a handler with well formed arguments keeps the types.
LEMMA TypeEnter ==
  ASSUME TypeInv, NEW t \in Threads, NEW th \in Thread, WellFormed(th),
         Enter(t, th)
  PROVE  TypeInv'
<1>1. MemoryOK'
  BY TypeInvParts DEF Enter, server, bounds, MemoryOK
<1>. QED
  BY <1>1, TypeMove DEF Enter

\* memcached_init keeps the types: it leaves an empty store or a hash table made
\* from the list.
LEMMA TypeMount ==
  ASSUME TypeInv, NEW t \in Threads, memcached_init(t)
  PROVE  TypeInv'
<1>1. CASE table = Absent
  <2>. DEFINE th == [Idle EXCEPT !.pc = "set_empty_table", !.kind = "dir"]
  <2>1. th \in Thread /\ WellFormed(th)
    BY IdleType DEF Thread, Pcs, Kinds, WellFormed, Idle
  <2>2. thread' = [thread EXCEPT ![t] = th]
    BY <1>1 DEF memcached_init
  <2>3. MemoryOK'
    BY <1>1, TypeInvParts DEF memcached_init, MemoryOK, NoFunction, bounds
  <2>. HIDE DEF th
  <2>. QED
    BY <2>1, <2>2, <2>3, TypeMove
<1>2. CASE table # Absent
  <2>1. table \in Seq(Entry)
    BY <1>2 DEF memcached_init, TypeInv, TypeOK
  <2>2. /\ DOMAIN hashtable_string_to_table(table) \subseteq Paths
        /\ \A p \in DOMAIN hashtable_string_to_table(table) :
             hashtable_string_to_table(table)[p] \in Nat
    <3>1. \A j \in DOMAIN table : table[j] \in Entry
      BY <2>1
    <3>2. \A j \in DOMAIN table : table[j].path \in Paths /\ table[j].ino \in Nat
      BY <3>1 DEF Entry
    <3>3. EntryPaths(table) \subseteq Paths
      BY <3>2 DEF EntryPaths
    <3>. QED
      BY <2>1, <3>2, <3>3, StringToTableType
  <2>3. MemoryOK'
    BY <1>2, <2>2, TypeInvParts DEF memcached_init, MemoryOK, server, bounds
  <2>4. thread' = thread
    BY <1>2 DEF memcached_init
  <2>. QED
    BY <2>3, <2>4 DEF TypeInv, TypeOK, ShapeInv, MemoryOK
<1>. QED
  BY <1>1, <1>2

\* Every handler of main.c is entered with arguments of the right types.
LEMMA TypeHandler ==
  ASSUME TypeInv, NEW t \in Threads, Handler(t)
  PROVE  TypeInv'
<1>1. ASSUME NEW p \in Paths, NEW kind \in Kinds, EnterCreate(t, p, kind)
      PROVE  TypeInv'
  <2>. DEFINE th == [Idle EXCEPT !.pc = "get_inode_value", !.path = p, !.old = p,
                                 !.kind = kind]
  <2>1. th \in Thread /\ WellFormed(th)
    BY IdleType DEF Thread, Pcs, Idle, WellFormed
  <2>. QED
    BY <1>1, <2>1, TypeEnter DEF EnterCreate
<1>2. ASSUME NEW p \in Paths, p # Root, EnterDelete(t, p)
      PROVE  TypeInv'
  <2>. DEFINE th == [Idle EXCEPT !.pc = "get_table", !.path = p, !.old = p]
  <2>1. th \in Thread /\ WellFormed(th)
    BY <1>2, IdleType DEF Thread, Pcs, Idle, WellFormed
  <2>. QED
    BY <1>2, <2>1, TypeEnter DEF EnterDelete
<1>3. ASSUME NEW old \in Paths, NEW new \in Paths, memcached_link(t, old, new)
      PROVE  TypeInv'
  <2>. DEFINE th == [Idle EXCEPT !.pc = "get_link_target", !.path = new,
                                 !.old = old]
  <2>1. th \in Thread /\ WellFormed(th)
    BY IdleType DEF Thread, Pcs, Idle, WellFormed
  <2>. QED
    BY <1>3, <2>1, TypeEnter DEF memcached_link
<1>. QED
  BY <1>1, <1>2, <1>3 DEF Handler, memcached_mkdir, memcached_create,
     memcached_symlink, memcached_unlink, memcached_rmdir, Kinds

\* Each step of create_inode, delete_inode and memcached_link keeps the types.
LEMMA TypeMemory ==
  ASSUME TypeInv, NEW t \in Threads, Step(t)
  PROVE  TypeInv'
<1>. USE DEF At, server, process, bounds
<1>0. thread \in [Threads -> Thread] /\ thread[t] \in Thread
      /\ WellFormed(thread[t]) /\ MemoryOK
  BY TypeInvParts
<1>1. CASE SetEmptyTable(t)
  <2>1. MemoryOK'
    BY <1>0, <1>1 DEF SetEmptyTable, MemoryOK
  <2>2. WellFormed([thread[t] EXCEPT !.pc = "set_first_value"])
    BY <1>0 DEF WellFormed, Thread
  <2>. QED
    BY <1>1, <2>1, <2>2, TypeGoto DEF SetEmptyTable, Pcs
<1>2. CASE SetFirstValue(t)
  <2>1. MemoryOK'
    BY <1>0, <1>2 DEF SetFirstValue, MemoryOK
  <2>2. WellFormed([thread[t] EXCEPT !.pc = "get_inode_value"])
    BY <1>0 DEF WellFormed, Thread
  <2>. QED
    BY <1>2, <2>1, <2>2, TypeGoto DEF SetFirstValue, Pcs
<1>3. CASE GetInodeValue(t)
  <2>1. CASE inode_value = Absent
    BY <1>3, <2>1, TypeSegfault DEF GetInodeValue
  <2>2. CASE inode_value # Absent
    <3>. DEFINE th == [thread[t] EXCEPT !.pc = "set_inode", !.ino = inode_value]
    <3>1. th \in Thread /\ WellFormed(th)
      BY <1>0, <2>2 DEF Thread, Pcs, WellFormed, MemoryOK
    <3>2. thread' = [thread EXCEPT ![t] = th]
      BY <1>0, <1>3, <2>2 DEF GetInodeValue
    <3>3. MemoryOK'
      BY <1>0, <1>3, <2>2 DEF GetInodeValue, MemoryOK
    <3>. HIDE DEF th
    <3>. QED
      BY <3>1, <3>2, <3>3, TypeMove
  <2>. QED
    BY <2>1, <2>2
<1>4. CASE SetInode(t)
  <2>1. MemoryOK'
    <3>1. NewInode(thread[t].kind) \in Inode /\ thread[t].ino \in Nat
      BY <1>0 DEF NewInode, Inode, Thread
    <3>. DEFINE new == memcached_set(inodes, thread[t].ino, NewInode(thread[t].kind))
                none == memcached_delete(inodes, thread[t].ino)
    <3>2. /\ DOMAIN new \subseteq Nat /\ \A i \in DOMAIN new : new[i] \in Inode
          /\ DOMAIN none \subseteq Nat /\ \A i \in DOMAIN none : none[i] \in Inode
      BY <1>0, <3>1 DEF MemoryOK, memcached_set, memcached_delete, Restrict
    <3>. HIDE DEF new, none
    <3>3. inodes' = new \/ inodes' = none
      BY <1>4 DEF SetInode, new, none
    <3>. QED
      BY <1>0, <1>4, <3>2, <3>3, NamespaceAssumption DEF SetInode, MemoryOK
  <2>2. \A pc \in {"set_inode_value", "skip_inode_value"} :
          WellFormed([thread[t] EXCEPT !.pc = pc])
    BY <1>0 DEF WellFormed, Thread
  <2>. QED
    BY <1>4, <2>1, <2>2, TypeGoto DEF SetInode, Pcs
<1>5. CASE SetInodeValue(t)
  <2>1. MemoryOK'
    BY <1>0, <1>5 DEF SetInodeValue, MemoryOK, Thread
  <2>2. WellFormed([thread[t] EXCEPT !.pc = "add_entry"])
    BY <1>0 DEF WellFormed, Thread
  <2>. QED
    BY <1>5, <2>1, <2>2, TypeGoto, TypeReturn DEF SetInodeValue, Pcs
<1>6. CASE AddEntry(t)
  <2>1. CASE table = Absent
    BY <1>6, <2>1, TypeSegfault DEF AddEntry
  <2>2. CASE table # Absent
    <3>. DEFINE th == [thread[t] EXCEPT !.pc = "set_table", !.tbl = table]
    <3>1. th \in Thread /\ WellFormed(th)
      BY <1>0, <2>2 DEF Thread, Pcs, WellFormed, MemoryOK
    <3>2. thread' = [thread EXCEPT ![t] = th]
      BY <1>0, <1>6, <2>2 DEF AddEntry
    <3>3. thread[t].path \in Paths /\ thread[t].ino \in Nat
      BY <1>0 DEF Thread
    <3>4. MemoryOK'
      BY <1>0, <1>6, <2>2, <3>3 DEF AddEntry, MemoryOK, memcached_set
    <3>. HIDE DEF th
    <3>. QED
      BY <3>1, <3>2, <3>4, TypeMove
  <2>. QED
    BY <2>1, <2>2
<1>7. CASE SetTable(t)
  <2>1. table' \in Seq(Entry) \cup {Garbled}
    <3>1. /\ thread[t].tbl \in Seq(Entry) \cup {Garbled}
          /\ thread[t].path \in Paths /\ thread[t].ino \in Nat
      BY <1>0, <1>7 DEF SetTable, Thread, WellFormed
    <3>. QED
      BY <1>7, <3>1, AddEntryType DEF SetTable
  <2>2. MemoryOK'
    BY <1>0, <1>7, <2>1 DEF SetTable, MemoryOK
  <2>3. CASE thread[t].path = Root
    BY <1>7, <2>2, <2>3, TypeReturn DEF SetTable
  <2>4. CASE thread[t].path # Root
    <3>1. WellFormed([thread[t] EXCEPT !.pc = "add_link"])
      BY <1>0, <2>4 DEF WellFormed, Thread
    <3>. QED
      BY <1>7, <2>2, <2>4, <3>1, TypeGoto DEF SetTable, Pcs
  <2>. QED
    BY <2>3, <2>4
<1>8. CASE AddLink(t)
  <2>. DEFINE p == get_parent_directory(thread[t].path)
              d == hashable_get_entry(p)
              lnks == IF d \in DOMAIN links THEN links[d] ELSE Absent
              n == get_name_from_path(thread[t].path)
  <2>1. d \in Int /\ n \in Names
    <3>1. thread[t].path \in Paths /\ thread[t].path # Root
      BY <1>0, <1>8 DEF AddLink, Thread, WellFormed
    <3>. QED
      BY <1>0, <3>1, PathParts DEF hashable_get_entry, MemoryOK
  <2>2. add_link(lnks, n) \in Seq(Names) \cup {Garbled}
    <3>1. lnks \in Seq(Names) \cup {Absent, Garbled}
      BY <1>0 DEF MemoryOK
    <3>. QED
      BY <2>1, <3>1, AddLinkType
  <2>3. links' = memcached_set(links, d, add_link(lnks, n))
    BY <1>8 DEF AddLink
  <2>. HIDE DEF d, lnks, n
  <2>4. MemoryOK'
    BY <1>0, <1>8, <2>1, <2>2, <2>3 DEF AddLink, MemoryOK, memcached_set
  <2>5. WellFormed([thread[t] EXCEPT !.pc = "count_link"])
    BY <1>0, <1>8 DEF AddLink, WellFormed, Thread
  <2>. QED
    BY <1>8, <2>4, <2>5, TypeGoto DEF AddLink, Pcs
<1>9. CASE CountLink(t)
  <2>. DEFINE d == hashable_get_entry(get_parent_directory(thread[t].path))
  <2>1. CASE d \notin DOMAIN inodes
    BY <1>9, <2>1, TypeSegfault DEF CountLink
  <2>2. CASE d \in DOMAIN inodes
    <3>. HIDE DEF d
    <3>1. inodes' = [inodes EXCEPT ![d].blocks = TRUE]
      BY <1>9, <2>2 DEF CountLink, d
    <3>2. MemoryOK'
      BY <1>0, <1>9, <2>2, <3>1 DEF CountLink, MemoryOK, Inode, d
    <3>. QED
      BY <1>9, <2>2, <3>2, TypeReturn DEF CountLink, d
  <2>. QED
    BY <2>1, <2>2
<1>10. CASE GetTable(t)
  <2>1. CASE table = Absent
    BY <1>10, <2>1, TypeSegfault DEF GetTable
  <2>2. CASE table # Absent
    <3>. DEFINE th == [thread[t] EXCEPT !.pc = "set_shorter_table", !.tbl = table]
    <3>1. th \in Thread /\ WellFormed(th)
      BY <1>0, <1>10, <2>2 DEF GetTable, Thread, Pcs, WellFormed, MemoryOK
    <3>2. thread' = [thread EXCEPT ![t] = th]
      BY <1>0, <1>10, <2>2 DEF GetTable
    <3>3. MemoryOK'
      BY <1>0, <1>10, <2>2 DEF GetTable, MemoryOK
    <3>. HIDE DEF th
    <3>. QED
      BY <3>1, <3>2, <3>3, TypeMove
  <2>. QED
    BY <2>1, <2>2
<1>11. CASE SetShorterTable(t)
  <2>1. PICK newline \in StackNewline :
          LET new == remove_inode_from_table(thread[t].tbl, thread[t].path, newline)
          IN  IF new = Absent
              THEN Segfault
              ELSE /\ table' = new
                   /\ Goto(t, "remove_entry")
                   /\ UNCHANGED <<inode_value, inodes, links, hash, phase, bounds>>
    BY <1>11 DEF SetShorterTable
  <2>. DEFINE new == remove_inode_from_table(thread[t].tbl, thread[t].path, newline)
  <2>2. CASE new = Absent
    BY <2>1, <2>2, TypeSegfault
  <2>3. CASE new # Absent
    <3>1. /\ thread[t].tbl \in Seq(Entry) \cup {Garbled}
          /\ thread[t].path \in Paths
      BY <1>0, <1>11 DEF SetShorterTable, Thread, WellFormed
    <3>2. new \in Seq(Entry) \cup {Absent, Garbled}
      BY <3>1, RemoveEntryType
    <3>. HIDE DEF new
    <3>3. MemoryOK'
      BY <1>0, <2>1, <2>3, <3>2 DEF new, MemoryOK
    <3>4. WellFormed([thread[t] EXCEPT !.pc = "remove_entry"])
      BY <1>0, <1>11 DEF SetShorterTable, WellFormed, Thread
    <3>. QED
      BY <2>1, <2>3, <3>3, <3>4, TypeGoto DEF new, Pcs
  <2>. QED
    BY <2>2, <2>3
<1>12. CASE RemoveEntry(t)
  <2>. DEFINE i == hashable_get_entry(thread[t].path)
  <2>1. CASE i \notin DOMAIN inodes
    BY <1>12, <2>1, TypeSegfault DEF RemoveEntry
  <2>2. CASE i \in DOMAIN inodes
    <3>. DEFINE next == IF inodes[i].kind = "reg" /\ inodes[i].nlink > 1
                        THEN "decrement_nlink" ELSE "delete_blocks"
                th == [thread[t] EXCEPT !.pc = next, !.ino = i, !.attr = inodes[i]]
    <3>1. i \in Nat /\ inodes[i] \in Inode
      BY <1>0, <2>2 DEF MemoryOK
    <3>2. thread' = [thread EXCEPT ![t] = th]
      BY <1>0, <1>12, <2>2 DEF RemoveEntry
    <3>3. MemoryOK'
      BY <1>0, <1>12, <2>2 DEF RemoveEntry, MemoryOK, memcached_delete, Restrict
    <3>4. thread[t].path # Root
      BY <1>0, <1>12 DEF RemoveEntry, WellFormed
    <3>. HIDE DEF i
    <3>5. th \in Thread /\ WellFormed(th)
      BY <1>0, <3>1, <3>4 DEF Thread, Pcs, WellFormed
    <3>. HIDE DEF th
    <3>. QED
      BY <3>2, <3>3, <3>5, TypeMove
  <2>. QED
    BY <2>1, <2>2
<1>13. CASE DecrementNlink(t)
  <2>. DEFINE a == [thread[t].attr EXCEPT !.nlink = @ - 1]
  <2>1. a \in Inode /\ thread[t].ino \in Nat
    <3>1. thread[t].attr \in Inode /\ thread[t].ino \in Nat
      BY <1>0 DEF Thread
    <3>. QED
      BY <3>1 DEF Inode
  <2>2. inodes' = memcached_set(inodes, thread[t].ino, a)
    BY <1>13 DEF DecrementNlink
  <2>. HIDE DEF a
  <2>3. MemoryOK'
    BY <1>0, <1>13, <2>1, <2>2 DEF DecrementNlink, MemoryOK, memcached_set
  <2>4. WellFormed([thread[t] EXCEPT !.pc = "remove_link"])
    BY <1>0, <1>13 DEF DecrementNlink, WellFormed, Thread
  <2>. QED
    BY <1>13, <2>3, <2>4, TypeGoto DEF DecrementNlink, Pcs
<1>14. CASE DeleteBlocks(t)
  <2>1. MemoryOK'
    BY <1>0, <1>14 DEF DeleteBlocks, MemoryOK, memcached_delete, Restrict
  <2>2. WellFormed([thread[t] EXCEPT !.pc = "delete_inode"])
    BY <1>0, <1>14 DEF DeleteBlocks, WellFormed, Thread
  <2>. QED
    BY <1>14, <2>1, <2>2, TypeGoto DEF DeleteBlocks, Pcs
<1>15. CASE DeleteInode(t)
  <2>1. MemoryOK'
    BY <1>0, <1>15 DEF DeleteInode, MemoryOK, memcached_delete, Restrict
  <2>2. WellFormed([thread[t] EXCEPT !.pc = "remove_link"])
    BY <1>0, <1>15 DEF DeleteInode, WellFormed, Thread
  <2>. QED
    BY <1>15, <2>1, <2>2, TypeGoto DEF DeleteInode, Pcs
<1>16. CASE RemoveLink(t)
  <2>. DEFINE d == hashable_get_entry(get_parent_directory(thread[t].path))
              n == get_name_from_path(thread[t].path)
              new == remove_link(links[d], n)
  <2>1. CASE d \notin DOMAIN links
    <3>1. MemoryOK'
      BY <1>0, <1>16, <2>1 DEF RemoveLink, MemoryOK
    <3>. QED
      BY <1>16, <2>1, <3>1, TypeReturn DEF RemoveLink
  <2>2. CASE d \in DOMAIN links /\ new = Absent
    BY <1>16, <2>2, TypeSegfault DEF RemoveLink
  <2>3. CASE d \in DOMAIN links /\ new # Absent
    <3>1. n \in Names
      BY <1>0, <1>16, PathParts DEF RemoveLink, Thread, WellFormed
    <3>2. d \in Int /\ links[d] \in Seq(Names) \cup {Garbled}
      BY <1>0, <2>3 DEF MemoryOK
    <3>3. new \in Seq(Names) \cup {Garbled}
      BY <2>3, <3>1, <3>2, RemoveLinkType
    <3>4. links' = memcached_set(links, d, new) /\ Return(t)
          /\ UNCHANGED <<table, inode_value, inodes, hash, phase, bounds>>
      BY <1>16, <2>3 DEF RemoveLink
    <3>. HIDE DEF d, n, new
    <3>5. MemoryOK'
      BY <1>0, <3>2, <3>3, <3>4 DEF MemoryOK, memcached_set
    <3>. QED
      BY <3>4, <3>5, TypeReturn
  <2>. QED
    BY <2>1, <2>2, <2>3
<1>17. CASE GetLinkTarget(t)
  <2>. DEFINE i == hashable_get_entry(thread[t].old)
  <2>1. CASE i \notin DOMAIN inodes
    BY <1>17, <2>1, TypeSegfault DEF GetLinkTarget
  <2>2. CASE i \in DOMAIN inodes
    <3>. DEFINE th == [thread[t] EXCEPT !.pc = "increment_nlink", !.ino = i,
                                        !.attr = inodes[i]]
    <3>1. i \in Nat /\ inodes[i] \in Inode
      BY <1>0, <2>2 DEF MemoryOK
    <3>2. thread' = [thread EXCEPT ![t] = th]
      BY <1>0, <1>17, <2>2 DEF GetLinkTarget
    <3>3. MemoryOK'
      BY <1>0, <1>17, <2>2 DEF GetLinkTarget, MemoryOK
    <3>. HIDE DEF i
    <3>4. th \in Thread /\ WellFormed(th)
      BY <1>0, <3>1 DEF Thread, Pcs, WellFormed
    <3>. HIDE DEF th
    <3>. QED
      BY <3>2, <3>3, <3>4, TypeMove
  <2>. QED
    BY <2>1, <2>2
<1>18. CASE IncrementNlink(t)
  <2>. DEFINE a == [thread[t].attr EXCEPT !.nlink = @ + 1]
  <2>1. a \in Inode /\ thread[t].ino \in Nat
    <3>1. thread[t].attr \in Inode /\ thread[t].ino \in Nat
      BY <1>0 DEF Thread
    <3>. QED
      BY <3>1 DEF Inode
  <2>2. inodes' = memcached_set(inodes, thread[t].ino, a)
    BY <1>18 DEF IncrementNlink
  <2>. HIDE DEF a
  <2>3. MemoryOK'
    BY <1>0, <1>18, <2>1, <2>2 DEF IncrementNlink, MemoryOK, memcached_set
  <2>4. WellFormed([thread[t] EXCEPT !.pc = "add_entry"])
    BY <1>0 DEF WellFormed, Thread
  <2>. QED
    BY <1>18, <2>3, <2>4, TypeGoto DEF IncrementNlink, Pcs
<1>. QED
  BY <1>1, <1>2, <1>3, <1>4, <1>5, <1>6, <1>7, <1>8, <1>9, <1>10, <1>11,
     <1>12, <1>13, <1>14, <1>15, <1>16, <1>17, <1>18 DEF Step

\* Every step of the system keeps the type invariant.
LEMMA TypeStep == TypeInv /\ [Next]_vars => TypeInv'
<1>. SUFFICES ASSUME TypeInv, [Next]_vars
              PROVE  TypeInv'
  OBVIOUS
<1>1. CASE memcached_destroy
  BY <1>1, TypeDie DEF memcached_destroy, server, bounds, TypeInv, TypeOK
<1>2. CASE Crash
  BY <1>2, TypeDie, NamespaceAssumption DEF Crash, server, TypeInv, TypeOK
<1>3. CASE Evict
  <2>0. MemoryOK
    BY TypeInvParts
  <2>1. ASSUME UNCHANGED <<inodes, links>>,
               table' \in {table, Absent}, inode_value' \in {inode_value, Absent}
        PROVE  MemoryOK'
    BY <1>3, <2>0, <2>1, NamespaceAssumption DEF Evict, MemoryOK, process
  <2>2. ASSUME NEW i, inodes' = memcached_delete(inodes, i),
               UNCHANGED <<table, inode_value, links>>
        PROVE  MemoryOK'
    BY <1>3, <2>0, <2>2, NamespaceAssumption
    DEF Evict, MemoryOK, process, memcached_delete, Restrict
  <2>3. ASSUME NEW i, links' = memcached_delete(links, i),
               UNCHANGED <<table, inode_value, inodes>>
        PROVE  MemoryOK'
    BY <1>3, <2>0, <2>3, NamespaceAssumption
    DEF Evict, MemoryOK, process, memcached_delete, Restrict
  <2>4. MemoryOK'
    BY <1>3, <2>1, <2>2, <2>3 DEF Evict
  <2>. QED
    BY <1>3, <2>4 DEF Evict, process, TypeInv, TypeOK, ShapeInv, MemoryOK
<1>4. CASE UNCHANGED vars
  BY <1>4 DEF vars, server, process, bounds, TypeInv, TypeOK, ShapeInv
<1>. QED
  BY <1>1, <1>2, <1>3, <1>4, TypeMount, TypeHandler, TypeMemory DEF Next

\* Every variable always has the type its declaration promises, however many
\* threads run and whatever memcached drops.
THEOREM TypeCorrect == Spec => []TypeOK
<1>. TypeInv => TypeOK
  BY DEF TypeInv
<1>. QED
  BY TypeInit, TypeStep, PTL DEF Spec

-----------------------------------------------------------------------------
(* The inductive invariant for one thread.                                 *)

SingleThreaded == \A t, u \in Threads : t = u

Without(h, p) == Restrict(h, DOMAIN h \ {p})

\* Every id in use is below n.
IdsBelow(n) ==
  /\ \A p \in DOMAIN hash : hash[p] < n
  /\ IsList(table) => \A j \in DOMAIN table : table[j].ino < n

\* Where in create_inode the id was read and is not yet in use.
FreshPcs == {"set_inode", "set_inode_value", "skip_inode_value"}

\* Where the path of the handler is not in the hash table yet.
NewPathPcs == {"get_inode_value", "add_entry", "get_link_target",
               "increment_nlink"} \cup FreshPcs

InoInv ==
  /\ inode_value # Absent => IdsBelow(inode_value)
  /\ \A t \in Threads :
       /\ thread[t].pc \in FreshPcs => IdsBelow(thread[t].ino)
       /\ thread[t].pc \in {"add_entry", "increment_nlink"} =>
            (inode_value # Absent => thread[t].ino < inode_value)

\* What the persisted table must agree with: the hash table, but for the path
\* that is in only one of them between the two updates.
Persisted(t) ==
  IF thread[t].pc \in {"set_table", "remove_entry"}
  THEN Without(hash, thread[t].path) ELSE hash

\* The process is down: nothing is in its memory.
DownInv ==
  /\ hash = NoFunction
  /\ \A t \in Threads : thread[t].pc = "idle"
  /\ IsList(table) => \A j, k \in DOMAIN table :
                        table[j].path = table[k].path => j = k

\* How the table in memcached, the copy handler t took of it and the hash
\* table of the process relate at each step.
SyncAt(t) ==
  /\ IsList(table) => Agree(table, Persisted(t))
  /\ thread[t].pc \in NewPathPcs => thread[t].path \notin DOMAIN hash
  /\ thread[t].pc = "set_table" =>
       /\ thread[t].path \in DOMAIN hash
       /\ hash[thread[t].path] = thread[t].ino
       /\ IsList(thread[t].tbl) => Agree(thread[t].tbl, Persisted(t))
  /\ thread[t].pc = "set_shorter_table" =>
       (IsList(thread[t].tbl) => Agree(thread[t].tbl, hash))
  /\ thread[t].pc \in {"set_empty_table", "set_first_value"} =>
       hash = NoFunction

SyncInv ==
  /\ phase = "down" => DownInv
  /\ phase # "down" => \A t \in Threads : SyncAt(t)

IInv == TypeInv /\ InoInv /\ SyncInv

\* Taking a path out of the hash table leaves the others as they were.
LEMMA WithoutProperties ==
  ASSUME NEW h, NEW p
  PROVE  /\ DOMAIN Without(h, p) = DOMAIN h \ {p}
         /\ \A q \in DOMAIN h \ {p} : Without(h, p)[q] = h[q]
  BY DEF Without, Restrict

\* A list of distinct paths agrees with the hash table made from it.
LEMMA AgreeMounted ==
  ASSUME NEW tbl \in Seq(Entry),
         \A j, k \in DOMAIN tbl : tbl[j].path = tbl[k].path => j = k
  PROVE  Agree(tbl, hashtable_string_to_table(tbl))
<1>1. \A j \in DOMAIN tbl : tbl[j].path \in EntryPaths(tbl)
  BY DEF EntryPaths
<1>. QED
  BY <1>1, StringToTableType DEF Agree

\* Adding the entry of a path the list lacks.
LEMMA AgreeAdd ==
  ASSUME NEW tbl \in Seq(Entry), NEW p \in Paths, NEW h, p \in DOMAIN h,
         Agree(tbl, Without(h, p)), tbl # Garbled
  PROVE  Agree(add_inode_to_table(tbl, p, h[p]), h)
<1>w. /\ DOMAIN Without(h, p) = DOMAIN h \ {p}
      /\ \A q \in DOMAIN h \ {p} : Without(h, p)[q] = h[q]
  BY WithoutProperties
<1>. DEFINE e == [path |-> p, ino |-> h[p]]
            new == add_inode_to_table(tbl, p, h[p])
<1>1. new = Append(tbl, e) /\ Len(tbl) \in Nat
  BY DEF add_inode_to_table
<1>2. /\ DOMAIN new = 1..(Len(tbl) + 1) /\ DOMAIN tbl = 1..Len(tbl)
      /\ \A j \in 1..Len(tbl) : new[j] = tbl[j]
      /\ new[Len(tbl) + 1] = e
  BY <1>1
<1>3. \A j \in DOMAIN tbl : tbl[j].path # p /\ tbl[j].path \in DOMAIN h
                            /\ tbl[j].ino = h[tbl[j].path]
  <2>. SUFFICES ASSUME NEW j \in DOMAIN tbl
                PROVE  /\ tbl[j].path # p /\ tbl[j].path \in DOMAIN h
                       /\ tbl[j].ino = h[tbl[j].path]
    OBVIOUS
  <2>1. tbl[j].path \in DOMAIN Without(h, p)
    BY DEF Agree, EntryPaths
  <2>. QED
    BY <1>w, <2>1 DEF Agree
<1>4. e.path = p /\ e.ino = h[p]
  OBVIOUS
<1>. HIDE DEF e, new
<1>5. EntryPaths(new) = EntryPaths(tbl) \cup {p}
  BY <1>1, <1>2, <1>4 DEF EntryPaths
<1>6. EntryPaths(new) = DOMAIN h
  BY <1>w, <1>5 DEF Agree
<1>7. \A j \in DOMAIN new : h[new[j].path] = new[j].ino
  BY <1>1, <1>2, <1>3, <1>4
<1>8. \A j, k \in DOMAIN new : new[j].path = new[k].path => j = k
  BY <1>1, <1>2, <1>3, <1>4 DEF Agree
<1>. QED
  BY <1>6, <1>7, <1>8 DEF Agree, new

\* Removing the entry of a path: the list that results lacks just that path.
LEMMA AgreeRemove ==
  ASSUME NEW tbl \in Seq(Entry), NEW p \in Paths, NEW h, NEW newline,
         Agree(tbl, h), tbl # Garbled,
         IsList(remove_inode_from_table(tbl, p, newline))
  PROVE  Agree(remove_inode_from_table(tbl, p, newline), Without(h, p))
<1>w. /\ DOMAIN Without(h, p) = DOMAIN h \ {p}
      /\ \A q \in DOMAIN h \ {p} : Without(h, p)[q] = h[q]
  BY WithoutProperties
<1>. DEFINE i == CHOOSE j \in DOMAIN tbl : IsFirstHit(j, tbl, p)
            new == remove_inode_from_table(tbl, p, newline)
<1>1. (\E j \in DOMAIN tbl : IsFirstHit(j, tbl, p)) /\ new = RemoveAt(tbl, i)
  BY DEF remove_inode_from_table, IsList
<1>2. i \in 1..Len(tbl) /\ tbl[i].path = p /\ Len(tbl) \in Nat
  BY <1>1 DEF IsFirstHit
<1>. HIDE DEF i, new
<1>3. /\ DOMAIN new = 1..(Len(tbl) - 1) /\ DOMAIN tbl = 1..Len(tbl)
      /\ \A j \in 1..(Len(tbl) - 1) : new[j] = IF j < i THEN tbl[j] ELSE tbl[j + 1]
  <2>1. /\ new \in Seq(Entry) /\ Len(new) = Len(tbl) - 1
        /\ \A j \in 1..(Len(tbl) - 1) :
             new[j] = IF j < i THEN tbl[j] ELSE tbl[j + 1]
    BY <1>1, <1>2, RemoveAtProperties
  <2>. QED
    BY <2>1
<1>4. \A j \in DOMAIN new : \E k \in DOMAIN tbl :
        new[j] = tbl[k] /\ k # i /\ (j < i => k = j) /\ (j >= i => k = j + 1)
  BY <1>2, <1>3
<1>5. \A k \in DOMAIN tbl : k # i => \E j \in DOMAIN new : new[j] = tbl[k]
  <2>. SUFFICES ASSUME NEW k \in DOMAIN tbl, k # i
                PROVE  \E j \in DOMAIN new : new[j] = tbl[k]
    OBVIOUS
  <2>1. CASE k < i
    BY <1>2, <1>3, <2>1
  <2>2. CASE ~ (k < i)
    <3>1. k - 1 \in 1..(Len(tbl) - 1) /\ ~ (k - 1 < i) /\ (k - 1) + 1 = k
      BY <1>2, <1>3, <2>2
    <3>. QED
      BY <1>3, <3>1
  <2>. QED
    BY <2>1, <2>2
<1>6. \A k \in DOMAIN tbl : k # i => tbl[k].path # p
  BY <1>2, <1>3 DEF Agree
<1>7. EntryPaths(new) = DOMAIN h \ {p}
  BY <1>2, <1>3, <1>4, <1>5, <1>6 DEF Agree, EntryPaths
<1>8. \A j \in DOMAIN new : Without(h, p)[new[j].path] = new[j].ino
  <2>. SUFFICES ASSUME NEW j \in DOMAIN new
                PROVE  Without(h, p)[new[j].path] = new[j].ino
    OBVIOUS
  <2>1. PICK k \in DOMAIN tbl : new[j] = tbl[k] /\ k # i
    BY <1>4
  <2>2. tbl[k].path \in DOMAIN h \ {p}
    BY <1>6, <2>1 DEF Agree, EntryPaths
  <2>. QED
    BY <1>w, <2>1, <2>2 DEF Agree
<1>9. \A j, k \in DOMAIN new : new[j].path = new[k].path => j = k
  <2>. SUFFICES ASSUME NEW j \in DOMAIN new, NEW k \in DOMAIN new,
                       new[j].path = new[k].path
                PROVE  j = k
    OBVIOUS
  <2>1. PICK l \in DOMAIN tbl :
          new[j] = tbl[l] /\ (j < i => l = j) /\ (j >= i => l = j + 1)
    BY <1>4
  <2>2. PICK m \in DOMAIN tbl :
          new[k] = tbl[m] /\ (k < i => m = k) /\ (k >= i => m = k + 1)
    BY <1>4
  <2>3. l = m
    BY <2>1, <2>2 DEF Agree
  <2>4. j \in Int /\ k \in Int /\ i \in Int
    BY <1>2, <1>3
  <2>. QED
    BY <2>1, <2>2, <2>3, <2>4
<1>. QED
  BY <1>w, <1>7, <1>8, <1>9 DEF Agree, new

\* A process that dies forgets its hash table; the persisted list keeps the
\* property a remount needs.
LEMMA SyncDie ==
  ASSUME IInv, Die, UNCHANGED server
  PROVE  InoInv' /\ SyncInv'
<1>. USE DEF IInv, Die, server, IsList
<1>1. \A t \in Threads : thread'[t].pc = "idle"
  BY DEF Idle
<1>2. hash' = NoFunction /\ DOMAIN hash' = {}
  BY DEF NoFunction
<1>3. InoInv'
  BY <1>1, <1>2 DEF InoInv, IdsBelow, FreshPcs
<1>4. ASSUME IsList(table)
      PROVE  \A j, k \in DOMAIN table : table[j].path = table[k].path => j = k
  BY <1>4, NamespaceAssumption DEF SyncInv, DownInv, SyncAt, Agree
<1>. QED
  BY <1>1, <1>2, <1>3, <1>4 DEF SyncInv, DownInv

\* The death of the process keeps the invariant: the list has every path once.
LEMMA SyncSegfault == IInv /\ Segfault => InoInv' /\ SyncInv'
  BY SyncDie DEF Segfault

\* memcached_init makes the hash table agree with the list it read.
LEMMA SyncMount ==
  ASSUME SingleThreaded, IInv, NEW t \in Threads, memcached_init(t)
  PROVE  InoInv' /\ SyncInv'
<1>0. /\ \A u \in Threads : u = t
      /\ thread \in [Threads -> Thread]
      /\ DownInv /\ InoInv
  BY DEF SingleThreaded, memcached_init, IInv, SyncInv, TypeInv, TypeOK
<1>1. CASE table = Absent
  <2>1. /\ table' = Absent /\ inode_value' = Absent /\ hash' = NoFunction
        /\ phase' = "init" /\ thread'[t].pc = "set_empty_table"
    BY <1>0, <1>1 DEF memcached_init, Idle, Thread
  <2>2. InoInv'
    BY <1>0, <2>1 DEF InoInv, FreshPcs
  <2>3. SyncAt(t)'
    BY <2>1 DEF SyncAt, NewPathPcs, FreshPcs, IsList
  <2>. QED
    BY <1>0, <2>1, <2>2, <2>3 DEF SyncInv
<1>2. CASE table # Absent
  <2>1. /\ table \in Seq(Entry) /\ IsList(table)
        /\ UNCHANGED <<table, inode_value, inodes, links, thread>> /\ phase' = "up"
        /\ hash' = hashtable_string_to_table(table)
    BY <1>2 DEF memcached_init, server, IInv, TypeInv, TypeOK, IsList
  <2>2. Agree(table, hash')
    BY <1>0, <2>1, AgreeMounted DEF DownInv
  <2>3. InoInv'
    BY <1>0, <2>1, <2>2 DEF InoInv, DownInv, IdsBelow, FreshPcs, Agree, EntryPaths
  <2>4. SyncAt(t)'
    BY <1>0, <2>1, <2>2 DEF SyncAt, DownInv, Persisted, NewPathPcs, FreshPcs
  <2>. QED
    BY <1>0, <2>1, <2>3, <2>4 DEF SyncInv
<1>. QED
  BY <1>1, <1>2

\* Entering a handler changes nothing the table and the hash table hold.
LEMMA SyncEnter ==
  ASSUME SingleThreaded, IInv, NEW t \in Threads, NEW th \in Thread, Enter(t, th),
         th.pc \in {"get_inode_value", "get_link_target", "get_table"},
         th.pc # "get_table" => th.path \notin DOMAIN hash
  PROVE  InoInv' /\ SyncInv'
<1>0. /\ \A u \in Threads : u = t
      /\ thread \in [Threads -> Thread]
      /\ thread[t].pc = "idle" /\ thread'[t] = th /\ SyncAt(t)
      /\ UNCHANGED <<table, inode_value, hash, phase>>
      /\ phase = "up" /\ InoInv
  BY DEF SingleThreaded, Enter, At, server, IInv, SyncInv, TypeInv, TypeOK
<1>1. InoInv'
  BY <1>0 DEF InoInv, IdsBelow, FreshPcs
<1>2. SyncAt(t)'
  BY <1>0 DEF SyncAt, Persisted, NewPathPcs, FreshPcs
<1>. QED
  BY <1>0, <1>1, <1>2 DEF SyncInv

\* Every handler is entered with a path that is free if it is to be created.
LEMMA SyncHandler ==
  ASSUME SingleThreaded, IInv, NEW t \in Threads, Handler(t)
  PROVE  InoInv' /\ SyncInv'
<1>1. ASSUME NEW p \in Paths, NEW kind \in Kinds, EnterCreate(t, p, kind)
      PROVE  InoInv' /\ SyncInv'
  <2>. DEFINE th == [Idle EXCEPT !.pc = "get_inode_value", !.path = p, !.old = p,
                                 !.kind = kind]
  <2>1. th \in Thread /\ th.pc = "get_inode_value" /\ th.path = p
    BY IdleType DEF Thread, Pcs, Idle
  <2>2. Enter(t, th) /\ p \notin DOMAIN hash
    BY <1>1 DEF EnterCreate, IsFree
  <2>. HIDE DEF th
  <2>. QED
    BY <2>1, <2>2, SyncEnter
<1>2. ASSUME NEW p \in Paths, EnterDelete(t, p)
      PROVE  InoInv' /\ SyncInv'
  <2>. DEFINE th == [Idle EXCEPT !.pc = "get_table", !.path = p, !.old = p]
  <2>1. th \in Thread /\ th.pc = "get_table"
    BY IdleType DEF Thread, Pcs, Idle
  <2>2. Enter(t, th)
    BY <1>2 DEF EnterDelete
  <2>. HIDE DEF th
  <2>. QED
    BY <2>1, <2>2, SyncEnter
<1>3. ASSUME NEW old \in Paths, NEW new \in Paths, memcached_link(t, old, new)
      PROVE  InoInv' /\ SyncInv'
  <2>. DEFINE th == [Idle EXCEPT !.pc = "get_link_target", !.path = new,
                                 !.old = old]
  <2>1. th \in Thread /\ th.pc = "get_link_target" /\ th.path = new
    BY IdleType DEF Thread, Pcs, Idle
  <2>2. Enter(t, th) /\ new \notin DOMAIN hash
    BY <1>3 DEF memcached_link, IsFree
  <2>. HIDE DEF th
  <2>. QED
    BY <2>1, <2>2, SyncEnter
<1>. QED
  BY <1>1, <1>2, <1>3 DEF Handler, memcached_mkdir, memcached_create,
     memcached_symlink, memcached_unlink, memcached_rmdir, Kinds

\* The steps of the one thread, each with the invariant of that thread.
LEMMA SyncStep ==
  ASSUME SingleThreaded, IInv, NEW t \in Threads, Step(t)
  PROVE  InoInv' /\ SyncInv'
<1>0. /\ \A u \in Threads : u = t
      /\ thread \in [Threads -> Thread] /\ thread[t] \in Thread
      /\ WellFormed(thread[t]) /\ MemoryOK
  BY TypeInvParts DEF SingleThreaded, IInv
<1>1. phase # "down" /\ SyncAt(t)
  <2>1. thread[t].pc # "idle"
    BY DEF Step, At, SetEmptyTable, SetFirstValue, GetInodeValue, SetInode,
       SetInodeValue, AddEntry, SetTable, AddLink, CountLink, GetTable,
       SetShorterTable, RemoveEntry, DecrementNlink, DeleteBlocks, DeleteInode,
       RemoveLink, GetLinkTarget, IncrementNlink
  <2>. QED
    BY <2>1 DEF IInv, SyncInv, DownInv
<1>2. /\ inode_value # Absent => IdsBelow(inode_value)
      /\ thread[t].pc \in FreshPcs => IdsBelow(thread[t].ino)
      /\ thread[t].pc \in {"add_entry", "increment_nlink"} =>
           (inode_value # Absent => thread[t].ino < inode_value)
  BY DEF IInv, InoInv
<1>3. SUFFICES ASSUME ~ Segfault
               PROVE  InoInv' /\ SyncInv'
  BY SyncSegfault
<1>4. SUFFICES /\ phase' # "down" /\ SyncAt(t)'
               /\ inode_value' # Absent => IdsBelow(inode_value)'
               /\ thread'[t].pc \in FreshPcs => IdsBelow(thread[t].ino)'
               /\ thread'[t].pc \in {"add_entry", "increment_nlink"} =>
                    (inode_value' # Absent => thread'[t].ino < inode_value')
  BY <1>0 DEF InoInv, SyncInv
<1>5. CASE SetEmptyTable(t)
  <2>1. /\ thread[t].pc = "set_empty_table" /\ thread'[t].pc = "set_first_value"
        /\ hash' = hash /\ phase' = phase /\ inode_value' = inode_value
        /\ table' = <<>> /\ hash = NoFunction
    BY <1>0, <1>1, <1>5 DEF SetEmptyTable, At, Goto, SyncAt, Thread
  <2>2. Agree(<<>>, NoFunction)
    BY DEF Agree, NoFunction, EntryPaths
  <2>. QED
    BY <1>1, <1>2, <2>1, <2>2 DEF SyncAt, Persisted, NewPathPcs, FreshPcs, IdsBelow, NoFunction
<1>6. CASE SetFirstValue(t)
  <2>1. /\ thread[t].pc = "set_first_value" /\ thread'[t].pc = "get_inode_value"
        /\ thread'[t].path = thread[t].path
        /\ hash' = hash /\ phase' = phase /\ table' = table /\ inode_value' = 0
        /\ hash = NoFunction
    BY <1>0, <1>1, <1>6 DEF SetFirstValue, At, Goto, SyncAt, Thread
  <2>2. IsList(table) => Agree(table, hash) /\ DOMAIN table = {}
    <3>1. IsList(table) => Agree(table, hash) /\ EntryPaths(table) = {}
      BY <1>1, <2>1 DEF SyncAt, Persisted, Agree, NoFunction
    <3>. QED
      BY <3>1 DEF EntryPaths
  <2>. QED
    BY <1>1, <1>2, <2>1, <2>2
    DEF SyncAt, Persisted, NewPathPcs, FreshPcs, IdsBelow, NoFunction
<1>7. CASE GetInodeValue(t)
  <2>1. /\ thread[t].pc = "get_inode_value" /\ thread'[t].pc = "set_inode"
        /\ thread'[t].path = thread[t].path /\ thread'[t].ino = inode_value
        /\ UNCHANGED <<hash, phase, table, inode_value>> /\ inode_value # Absent
    BY <1>0, <1>3, <1>7 DEF GetInodeValue, At, Thread, server
  <2>. QED
    BY <1>1, <1>2, <2>1 DEF SyncAt, Persisted, NewPathPcs, FreshPcs, IdsBelow
<1>8. CASE SetInode(t)
  <2>1. /\ thread[t].pc = "set_inode"
        /\ thread'[t].pc \in {"set_inode_value", "skip_inode_value"}
        /\ thread'[t].path = thread[t].path /\ thread'[t].ino = thread[t].ino
        /\ UNCHANGED <<hash, phase, table, inode_value>>
    BY <1>0, <1>8 DEF SetInode, At, Goto, Thread
  <2>. QED
    BY <1>1, <1>2, <2>1 DEF SyncAt, Persisted, NewPathPcs, FreshPcs, IdsBelow
<1>9. CASE SetInodeValue(t)
  <2>1. /\ thread[t].pc \in {"set_inode_value", "skip_inode_value"}
        /\ \/ /\ thread'[t].pc = "add_entry" /\ phase' = phase
              /\ thread'[t].path = thread[t].path /\ thread'[t].ino = thread[t].ino
           \/ thread'[t].pc = "idle" /\ phase' = "up"
        /\ UNCHANGED <<hash, table>> /\ inode_value' = thread[t].ino + 1
        /\ thread[t].ino \in Nat
    BY <1>0, <1>9 DEF SetInodeValue, At, Goto, Return, Thread, Idle
  <2>2. IdsBelow(thread[t].ino)
    BY <1>2, <2>1 DEF FreshPcs
  <2>3. IdsBelow(inode_value)'
    <3>1. \A p \in DOMAIN hash : hash[p] < thread[t].ino + 1
      BY <1>0, <2>1, <2>2 DEF IdsBelow, MemoryOK
    <3>2. ASSUME IsList(table), NEW j \in DOMAIN table
          PROVE  table[j].ino < thread[t].ino + 1
      <4>1. table[j] \in Entry
        BY <1>0, <3>2 DEF MemoryOK, IsList
      <4>. QED
        BY <2>1, <2>2, <3>2, <4>1 DEF IdsBelow, Entry
    <3>. QED
      BY <2>1, <3>1, <3>2 DEF IdsBelow
  <2>4. SyncAt(t)'
    BY <1>1, <2>1 DEF SyncAt, Persisted, NewPathPcs, FreshPcs
  <2>. QED
    BY <1>1, <2>1, <2>3, <2>4 DEF FreshPcs
<1>10. CASE AddEntry(t)
  <2>1. /\ thread[t].pc = "add_entry" /\ thread'[t].pc = "set_table"
        /\ thread'[t].path = thread[t].path /\ thread'[t].ino = thread[t].ino
        /\ thread'[t].tbl = table
        /\ UNCHANGED <<phase, table, inode_value>>
        /\ hash' = memcached_set(hash, thread[t].path, thread[t].ino)
    BY <1>0, <1>3, <1>10 DEF AddEntry, At, Thread, server
  <2>2. /\ thread[t].path \notin DOMAIN hash
        /\ IsList(table) => Agree(table, hash)
    BY <1>1, <2>1 DEF SyncAt, NewPathPcs, Persisted
  <2>3. /\ DOMAIN hash' = DOMAIN hash \cup {thread[t].path}
        /\ hash'[thread[t].path] = thread[t].ino
        /\ \A p \in DOMAIN hash : hash'[p] = hash[p]
    BY <2>1, <2>2 DEF memcached_set
  <2>4. ASSUME IsList(table)
        PROVE  Agree(table, Without(hash', thread[t].path))
    <3>1. Agree(table, hash)
      BY <2>2, <2>4
    <3>2. /\ DOMAIN Without(hash', thread[t].path) = DOMAIN hash
          /\ \A p \in DOMAIN hash : Without(hash', thread[t].path)[p] = hash[p]
      BY <2>2, <2>3 DEF Without, Restrict
    <3>. QED
      BY <3>1, <3>2 DEF Agree, EntryPaths
  <2>5. inode_value # Absent => IdsBelow(inode_value)'
    BY <1>2, <2>1, <2>3 DEF IdsBelow
  <2>6. SyncAt(t)'
    BY <2>1, <2>3, <2>4 DEF SyncAt, Persisted, NewPathPcs, FreshPcs
  <2>. QED
    BY <1>1, <2>1, <2>5, <2>6 DEF FreshPcs
<1>11. CASE SetTable(t)
  <2>. DEFINE p == thread[t].path
  <2>1. /\ thread[t].pc = "set_table" /\ thread'[t].pc \in {"idle", "add_link"}
        /\ UNCHANGED <<hash, inode_value>>
        /\ phase' # "down"
        /\ table' = add_inode_to_table(thread[t].tbl, p, thread[t].ino)
        /\ p \in Paths /\ thread[t].tbl \in Seq(Entry) \cup {Garbled}
    BY <1>0, <1>1, <1>11
    DEF SetTable, At, Goto, Return, Thread, Idle, WellFormed
  <2>2. /\ p \in DOMAIN hash /\ hash[p] = thread[t].ino
        /\ IsList(thread[t].tbl) => Agree(thread[t].tbl, Without(hash, p))
    BY <1>1, <2>1 DEF SyncAt, Persisted
  <2>3. ASSUME IsList(table')
        PROVE  Agree(table', hash)
    <3>1. thread[t].tbl # Garbled /\ thread[t].tbl # Absent
      BY <1>0, <2>1, <2>3 DEF add_inode_to_table, IsList, WellFormed
    <3>. QED
      BY <2>1, <2>2, <3>1, AgreeAdd DEF IsList
  <2>4. inode_value # Absent => IdsBelow(inode_value)'
    BY <1>2, <2>1, <2>3 DEF IdsBelow, Agree, EntryPaths
  <2>. QED
    BY <2>1, <2>3, <2>4 DEF SyncAt, Persisted, NewPathPcs, FreshPcs
<1>12. CASE AddLink(t) \/ CountLink(t)
  <2>1. /\ thread[t].pc \in {"add_link", "count_link"}
        /\ thread'[t].pc \in {"count_link", "idle"}
        /\ UNCHANGED <<hash, phase, table, inode_value>>
    BY <1>0, <1>3, <1>12 DEF AddLink, CountLink, At, Goto, Return, Idle, Thread
  <2>. QED
    BY <1>1, <1>2, <2>1 DEF SyncAt, Persisted, NewPathPcs, FreshPcs, IdsBelow
<1>13. CASE GetTable(t)
  <2>1. /\ thread[t].pc = "get_table" /\ thread'[t].pc = "set_shorter_table"
        /\ thread'[t].tbl = table
        /\ UNCHANGED <<hash, phase, table, inode_value>>
    BY <1>0, <1>3, <1>13 DEF GetTable, At, Thread, server
  <2>. QED
    BY <1>1, <1>2, <2>1 DEF SyncAt, Persisted, NewPathPcs, FreshPcs, IdsBelow
<1>14. CASE SetShorterTable(t)
  <2>. DEFINE p == thread[t].path
  <2>1. PICK newline \in StackNewline :
          /\ table' = remove_inode_from_table(thread[t].tbl, p, newline)
          /\ Goto(t, "remove_entry")
          /\ UNCHANGED <<inode_value, inodes, links, hash, phase, bounds>>
    BY <1>3, <1>14 DEF SetShorterTable
  <2>2. /\ thread[t].pc = "set_shorter_table" /\ thread'[t].pc = "remove_entry"
        /\ thread'[t].path = p
        /\ p \in Paths /\ thread[t].tbl \in Seq(Entry) \cup {Garbled}
        /\ thread[t].tbl # Absent
    BY <1>0, <1>14, <2>1 DEF SetShorterTable, At, Goto, Thread, WellFormed
  <2>3. ASSUME IsList(table')
        PROVE  Agree(table', Without(hash, p))
    <3>1. thread[t].tbl # Garbled
      BY <2>1, <2>3 DEF remove_inode_from_table, IsList
    <3>2. Agree(thread[t].tbl, hash)
      BY <1>1, <2>2, <3>1 DEF SyncAt, IsList
    <3>. QED
      BY <2>1, <2>2, <2>3, <3>1, <3>2, AgreeRemove
  <2>4. inode_value # Absent => IdsBelow(inode_value)'
    <3>1. ASSUME IsList(table'), inode_value # Absent, NEW j \in DOMAIN table'
          PROVE  table'[j].ino < inode_value
      <4>1. /\ table'[j].path \in DOMAIN Without(hash, p)
            /\ Without(hash, p)[table'[j].path] = table'[j].ino
        BY <2>3, <3>1 DEF Agree, EntryPaths
      <4>. QED
        BY <1>2, <3>1, <4>1 DEF IdsBelow, Without, Restrict
    <3>. QED
      BY <1>2, <2>1, <3>1 DEF IdsBelow
  <2>. QED
    BY <1>1, <2>1, <2>2, <2>3, <2>4 DEF SyncAt, Persisted, NewPathPcs, FreshPcs
<1>15. CASE RemoveEntry(t)
  <2>. DEFINE p == thread[t].path
  <2>1. /\ thread[t].pc = "remove_entry"
        /\ thread'[t].pc \in {"decrement_nlink", "delete_blocks"}
        /\ hash' = Without(hash, p)
        /\ UNCHANGED <<phase, table, inode_value>>
    BY <1>0, <1>3, <1>15
    DEF RemoveEntry, At, Thread, server, memcached_delete, Without
  <2>2. inode_value # Absent => IdsBelow(inode_value)'
    BY <1>2, <2>1 DEF IdsBelow, Without, Restrict
  <2>. QED
    BY <1>1, <2>1, <2>2 DEF SyncAt, Persisted, NewPathPcs, FreshPcs
<1>16. CASE DecrementNlink(t) \/ DeleteBlocks(t) \/ DeleteInode(t) \/ RemoveLink(t)
  <2>1. /\ thread[t].pc \in {"decrement_nlink", "delete_blocks", "delete_inode",
                             "remove_link"}
        /\ thread'[t].pc \in {"delete_inode", "remove_link", "idle"}
        /\ UNCHANGED <<hash, phase, table, inode_value>>
    BY <1>0, <1>3, <1>16 DEF DecrementNlink, DeleteBlocks, DeleteInode, RemoveLink,
       At, Goto, Return, Idle, Thread, server
  <2>. QED
    BY <1>1, <1>2, <2>1 DEF SyncAt, Persisted, NewPathPcs, FreshPcs, IdsBelow
<1>17. CASE GetLinkTarget(t)
  <2>. DEFINE i == hashable_get_entry(thread[t].old)
  <2>1. /\ thread[t].pc = "get_link_target" /\ thread'[t].pc = "increment_nlink"
        /\ thread'[t].path = thread[t].path /\ thread'[t].ino = i
        /\ UNCHANGED <<hash, phase, table, inode_value>>
        /\ i \in DOMAIN inodes
    BY <1>0, <1>3, <1>17 DEF GetLinkTarget, At, Thread, server
  <2>2. thread[t].old \in DOMAIN hash /\ i = hash[thread[t].old]
    BY <1>0, <2>1 DEF hashable_get_entry, MemoryOK
  <2>. HIDE DEF i
  <2>. QED
    BY <1>1, <1>2, <2>1, <2>2 DEF SyncAt, Persisted, NewPathPcs, FreshPcs, IdsBelow
<1>18. CASE IncrementNlink(t)
  <2>1. /\ thread[t].pc = "increment_nlink" /\ thread'[t].pc = "add_entry"
        /\ thread'[t].path = thread[t].path /\ thread'[t].ino = thread[t].ino
        /\ UNCHANGED <<hash, phase, table, inode_value>>
    BY <1>0, <1>18 DEF IncrementNlink, At, Goto, Thread
  <2>. QED
    BY <1>1, <1>2, <2>1 DEF SyncAt, Persisted, NewPathPcs, FreshPcs, IdsBelow
<1>. QED
  BY <1>5, <1>6, <1>7, <1>8, <1>9, <1>10, <1>11, <1>12, <1>13, <1>14, <1>15,
     <1>16, <1>17, <1>18 DEF Step

\* Dropping a key takes away what the invariant speaks of, or nothing of it.
LEMMA SyncEvict ==
  ASSUME IInv, Evict
  PROVE  InoInv' /\ SyncInv'
<1>1. /\ UNCHANGED <<hash, phase, thread>>
      /\ table' \in {table, Absent} /\ inode_value' \in {inode_value, Absent}
  BY DEF Evict, process
<1>3. InoInv'
  BY <1>1 DEF IInv, InoInv, IdsBelow, IsList, FreshPcs
<1>4. SyncInv'
  BY <1>1 DEF IInv, SyncInv, DownInv, SyncAt, Persisted, IsList, NewPathPcs, FreshPcs
<1>. QED
  BY <1>3, <1>4

\* The inductive invariant holds before the first mount.
LEMMA IInvInit == Init => IInv
<1>. SUFFICES ASSUME Init PROVE IInv
  OBVIOUS
<1>1. InoInv
  BY DEF Init, InoInv, Idle, FreshPcs
<1>2. SyncInv
  BY DEF Init, SyncInv, DownInv, Idle, IsList
<1>. QED
  BY <1>1, <1>2, TypeInit DEF IInv

\* With one thread, every step of the system keeps the inductive invariant.
LEMMA IInvStep ==
  ASSUME SingleThreaded
  PROVE  IInv /\ [Next]_vars => IInv'
<1>. SUFFICES ASSUME IInv, [Next]_vars
              PROVE  InoInv' /\ SyncInv'
  BY TypeStep DEF IInv
<1>1. CASE memcached_destroy
  BY <1>1, SyncDie DEF memcached_destroy
<1>2. CASE Crash
  BY <1>2, SyncDie DEF Crash
<1>3. CASE UNCHANGED vars
  BY <1>3 DEF IInv, InoInv, SyncInv, DownInv, SyncAt, Persisted, IdsBelow,
     NewPathPcs, FreshPcs, vars, server, process
<1>. QED
  BY <1>1, <1>2, <1>3, SyncMount, SyncHandler, SyncStep, SyncEvict DEF Next

\* With one worker thread an id is never given out twice, whatever sequence of
\* operations, kills, remounts and dropped keys comes before.
THEOREM FreshInos ==
  ASSUME SingleThreaded
  PROVE  Spec => []InosAreFresh
<1>1. IInv => InosAreFresh
  <2>. SUFFICES ASSUME IInv, NEW t \in Threads, thread[t].pc = "set_inode"
                PROVE  /\ \A p \in DOMAIN hash : hash[p] # thread[t].ino
                       /\ IsList(table) => thread[t].ino \notin EntryInos(table)
    BY DEF InosAreFresh, At
  <2>1. IdsBelow(thread[t].ino) /\ thread[t] \in Thread /\ MemoryOK
    BY TypeInvParts DEF IInv, InoInv, FreshPcs
  <2>2. thread[t].ino \in Nat
    BY <2>1 DEF Thread
  <2>3. \A p \in DOMAIN hash : hash[p] # thread[t].ino
    BY <2>1, <2>2 DEF IdsBelow, MemoryOK
  <2>4. ASSUME IsList(table), NEW j \in DOMAIN table
        PROVE  table[j].ino # thread[t].ino
    <3>1. table[j] \in Entry
      BY <2>1, <2>4 DEF MemoryOK, IsList
    <3>. QED
      BY <2>1, <2>2, <2>4, <3>1 DEF IdsBelow, Entry
  <2>. QED
    BY <2>3, <2>4 DEF EntryInos
<1>. QED
  BY <1>1, IInvInit, IInvStep, PTL DEF Spec

\* With one worker thread the persisted list and the hash table agree whenever
\* no handler is running.
THEOREM HashAgrees ==
  ASSUME SingleThreaded
  PROVE  Spec => []HashMatchesTable
<1>1. IInv => HashMatchesTable
  BY NamespaceAssumption DEF IInv, SyncInv, SyncAt, Persisted, HashMatchesTable, Quiet, At
<1>. QED
  BY <1>1, IInvInit, IInvStep, PTL DEF Spec

\* No step of the one thread that leaves a list drops the entry of a path it is
\* not deleting.
LEMMA StepKeepsEntries ==
  ASSUME SingleThreaded, IInv, NEW t \in Threads, Step(t), IsList(table),
         IsList(table'), NEW p \in EntryPaths(table) \ EntryPaths(table')
  PROVE  At(t, "set_shorter_table") /\ thread[t].path = p
<1>. USE DEF At
<1>0. /\ thread \in [Threads -> Thread] /\ thread[t] \in Thread
      /\ WellFormed(thread[t]) /\ MemoryOK /\ table # table'
  BY TypeInvParts DEF IInv
<1>1. phase # "down" => SyncAt(t)
  BY DEF IInv, SyncInv
<1>2. phase = "down" => thread[t].pc = "idle"
  BY DEF IInv, SyncInv, DownInv
<1>3. CASE SetEmptyTable(t)
  <2>1. Agree(table, hash) /\ hash = NoFunction
    BY <1>1, <1>2, <1>3 DEF SetEmptyTable, SyncAt, Persisted
  <2>. QED
    BY <2>1 DEF Agree, NoFunction
<1>4. CASE SetTable(t)
  <2>1. /\ Agree(table, Without(hash, thread[t].path))
        /\ IsList(thread[t].tbl) => Agree(thread[t].tbl, Without(hash, thread[t].path))
        /\ thread[t].path \in DOMAIN hash /\ hash[thread[t].path] = thread[t].ino
    BY <1>1, <1>2, <1>4 DEF SetTable, SyncAt, Persisted
  <2>2. /\ thread[t].tbl \in Seq(Entry) /\ thread[t].tbl # Garbled
        /\ IsList(thread[t].tbl) /\ thread[t].path \in Paths
        /\ table' = add_inode_to_table(thread[t].tbl, thread[t].path, thread[t].ino)
    BY <1>0, <1>4 DEF SetTable, Thread, WellFormed, add_inode_to_table, IsList
  <2>3. Agree(table', hash)
    BY <2>1, <2>2, AgreeAdd
  <2>. QED
    BY <2>1, <2>3 DEF Agree, Without, Restrict
<1>5. CASE SetShorterTable(t)
  <2>1. CASE Segfault
    BY <1>0, <2>1 DEF Segfault, server
  <2>2. CASE ~ Segfault
    <3>. DEFINE q == thread[t].path
    <3>1. PICK newline \in StackNewline :
            table' = remove_inode_from_table(thread[t].tbl, q, newline)
      BY <1>5, <2>2 DEF SetShorterTable
    <3>2. /\ thread[t].tbl \in Seq(Entry) /\ thread[t].tbl # Garbled
          /\ IsList(thread[t].tbl) /\ q \in Paths
      BY <1>0, <1>5, <3>1
      DEF SetShorterTable, Thread, WellFormed, remove_inode_from_table, IsList
    <3>3. Agree(table, hash) /\ Agree(thread[t].tbl, hash)
      BY <1>1, <1>2, <1>5, <3>2 DEF SetShorterTable, SyncAt, Persisted
    <3>4. Agree(table', Without(hash, q))
      BY <3>1, <3>2, <3>3, AgreeRemove
    <3>5. EntryPaths(table) = DOMAIN hash /\ EntryPaths(table') = DOMAIN hash \ {q}
      BY <3>3, <3>4 DEF Agree, Without, Restrict
    <3>. QED
      BY <1>5, <3>5 DEF SetShorterTable
  <2>. QED
    BY <2>1, <2>2
<1>. QED
  BY <1>0, <1>3, <1>4, <1>5 DEF Step, SetFirstValue, GetInodeValue, SetInode,
     SetInodeValue, AddEntry, AddLink, CountLink, GetTable, RemoveEntry,
     DecrementNlink, DeleteBlocks, DeleteInode, RemoveLink, GetLinkTarget,
     IncrementNlink, Segfault, server
=============================================================================
