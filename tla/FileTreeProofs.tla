--------------------------- MODULE FileTreeProofs ---------------------------
(***************************************************************************)
(* Proofs about the tree of directories that Namespace keeps, for one      *)
(* thread.  Without a kill, and as long as memcached drops nothing, the    *)
(* links of each directory are its children and every key belongs to a     *)
(* path.  Wherever the process is killed, every handler changes the        *)
(* persisted tree in one step: it keeps the promise of FileTree.           *)
(***************************************************************************)
EXTENDS NamespaceTreeProofs

IsChild(p, d) == p # Root /\ get_parent_directory(p) = d

IsDir(h, d) ==
  d \in DOMAIN h /\ h[d] \in DOMAIN inodes /\ inodes[h[d]].kind = "dir"

\* The links of a directory d of the hash table h.
LinksIn(h, d) == IF h[d] \in DOMAIN links THEN links[h[d]] ELSE <<>>

\* Each directory lists the paths of listed that are its children, each once.
Lists(h, listed) ==
  \A d \in DOMAIN h : LinksIn(h, d) # Garbled =>
    /\ ToSet(LinksIn(h, d)) = {get_name_from_path(p) : p \in {q \in listed : IsChild(q, d)}}
    /\ IsInjective(LinksIn(h, d))

\* Every path lies in a directory.
Parents(h) == \A p \in DOMAIN h : p # Root => IsDir(h, get_parent_directory(p))

\* Every block of links is that of a directory, which knows that it has one,
\* but for those in uncounted; those in freed have lost their directory.
Keys(h, uncounted, freed) ==
  \A i \in DOMAIN links \ freed :
    \E d \in DOMAIN h :
      IsDir(h, d) /\ h[d] = i /\ (d \in uncounted \/ inodes[i].blocks)

Linked(h, listed, uncounted, freed) ==
  Lists(h, listed) /\ Parents(h) /\ Keys(h, uncounted, freed)

\* What the links list while a thread in state th is at work.
Listed(th) ==
  IF th.pc \in {"set_table", "add_link"} THEN DOMAIN hash \ {th.path}
  ELSE IF th.pc \in {"decrement_nlink", "delete_blocks", "delete_inode", "remove_link"}
  THEN DOMAIN hash \cup {th.path} ELSE DOMAIN hash

Uncounted(th) ==
  IF th.pc = "count_link" THEN {get_parent_directory(th.path)} ELSE {}

Freed(th) == IF th.pc = "delete_blocks" /\ th.attr.blocks THEN {th.ino} ELSE {}

IsLeaf(p) == \A q \in DOMAIN hash : ~ IsChild(q, p)

\* Where a handler is to make a path.
CreatePcs == NewPathPcs \cup {"set_empty_table", "set_first_value"}

\* The directory that a handler works in.
InDir(th) ==
  /\ th.pc \in CreatePcs /\ th.path # Root =>
       IsDir(hash, get_parent_directory(th.path))
  /\ th.pc \in {"add_link", "count_link"} => th.path \in DOMAIN hash
  /\ th.pc \in {"get_table", "set_shorter_table", "remove_entry"} => IsLeaf(th.path)
  /\ th.pc \in {"decrement_nlink", "delete_blocks", "delete_inode", "remove_link"} =>
       /\ th.path \notin DOMAIN hash /\ IsLeaf(th.path)
       /\ IsDir(hash, get_parent_directory(th.path))

LinkedInv ==
  NoMishap =>
    /\ phase = "down" /\ IsList(table) =>
         Linked(hashtable_string_to_table(table), EntryPaths(table), {}, {})
    /\ phase # "down" =>
         \A t \in Threads :
           /\ Linked(hash, Listed(thread[t]), Uncounted(thread[t]), Freed(thread[t]))
           /\ InDir(thread[t])

TreeInv == NamesInv /\ LinkedInv

-----------------------------------------------------------------------------
(* Names, paths and links.                                                 *)

\* A path is known by its directory and its name.
LEMMA PathIsParentAndName ==
  ASSUME NEW p \in Paths, NEW q \in Paths, p # Root, q # Root,
         get_parent_directory(p) = get_parent_directory(q),
         get_name_from_path(p) = get_name_from_path(q)
  PROVE  p = q
<1>1. p \in Seq(Names) /\ q \in Seq(Names) /\ Len(p) # 0 /\ Len(q) # 0
  BY PathsAssumption DEF Root
<1>2. Len(p) = Len(q)
  BY <1>1 DEF get_parent_directory
<1>3. ASSUME NEW j \in 1..Len(p)
      PROVE  p[j] = q[j]
  <2>1. CASE j = Len(p)
    BY <1>2, <2>1 DEF get_name_from_path
  <2>2. CASE j # Len(p)
    <3>1. j \in 1..(Len(p) - 1)
      BY <1>1, <2>2
    <3>2. SubSeq(p, 1, Len(p) - 1)[j] = p[j] /\ SubSeq(q, 1, Len(q) - 1)[j] = q[j]
      BY <1>1, <1>2, <3>1
    <3>. QED
      BY <3>2 DEF get_parent_directory
  <2>. QED
    BY <2>1, <2>2
<1>. QED
  BY <1>1, <1>2, <1>3

\* The beginning of a path is as long as it should be,
LEMMA BeginningLen ==
  ASSUME NEW p \in Seq(Names), NEW n \in Nat, n <= Len(p)
  PROVE  Len(SubSeq(p, 1, n)) = n
<1>1. Len(p) \in Nat /\ \A j \in 1..n : p[j] \in Names
  OBVIOUS
<1>. QED
  BY <1>1, SubSeqProperties

\* and a path is one name longer than its parent.
LEMMA SubSeqLen ==
  ASSUME NEW p \in Seq(Names), Len(p) # 0
  PROVE  Len(SubSeq(p, 1, Len(p) - 1)) = Len(p) - 1
<1>1. PICK n : n = Len(p) - 1
  OBVIOUS
<1>2. n \in Nat /\ n <= Len(p)
  BY <1>1
<1>3. Len(SubSeq(p, 1, n)) = n
  BY <1>2, BeginningLen
<1>. QED
  BY <1>1, <1>3

\* A path is not its own directory, nor is its child.
LEMMA ChildIsLonger ==
  ASSUME NEW p \in Paths, NEW d, IsChild(p, d)
  PROVE  d \in Paths /\ d # p /\ ~ IsChild(d, p)
<1>1. p \in Seq(Names) /\ Len(p) # 0 /\ Len(p) \in Nat
  BY PathsAssumption, EmptySeq DEF IsChild, Root
<1>2. d = SubSeq(p, 1, Len(p) - 1) /\ d \in Paths
  BY PathsAssumption DEF IsChild, get_parent_directory
<1>3. d \in Seq(Names)
  BY <1>2, PathsAssumption
<1>4. Len(d) = Len(p) - 1
  BY <1>1, <1>2, SubSeqLen
<1>5. d # p
  BY <1>1, <1>4
<1>6. ASSUME IsChild(d, p) PROVE FALSE
  <2>1. p = SubSeq(d, 1, Len(d) - 1) /\ Len(d) # 0 /\ Len(d) \in Nat
    BY <1>3, <1>6, EmptySeq DEF IsChild, get_parent_directory, Root
  <2>2. Len(p) = Len(d) - 1
    BY <1>3, <2>1, SubSeqLen
  <2>. QED
    BY <1>1, <1>4, <2>2
<1>. QED
  BY <1>2, <1>5, <1>6

\* The first link of a directory.
LEMMA FirstLink ==
  ASSUME NEW n \in Names
  PROVE  Append(<<>>, n) = <<n>>
<1>1. /\ <<n>> \in Seq(Names) /\ Append(<<>>, n) \in Seq(Names)
      /\ Len(Append(<<>>, n)) = 1 /\ Len(<<n>>) = 1
  OBVIOUS
<1>2. Append(<<>>, n)[1] = n /\ <<n>>[1] = n
  OBVIOUS
<1>3. \A j \in 1..1 : Append(<<>>, n)[j] = <<n>>[j]
  BY <1>2
<1>. QED
  BY <1>1, <1>3, SeqEqual

\* add_link puts a name behind the others.
LEMMA LinkAdded ==
  ASSUME NEW lnks \in Seq(Names) \cup {Absent, Garbled}, NEW n \in Names,
         NEW old, old = (IF lnks = Absent THEN <<>> ELSE lnks),
         old # Garbled => n \notin ToSet(old) /\ IsInjective(old),
         add_link(lnks, n) # Garbled
  PROVE  /\ old # Garbled
         /\ ToSet(add_link(lnks, n)) = ToSet(old) \cup {n}
         /\ IsInjective(add_link(lnks, n))
<1>t. Absent # Garbled /\ Garbled \notin Seq(Names) /\ <<>> \in Seq(Names)
  BY TextAssumption
<1>0. lnks # Garbled
  BY DEF add_link
<1>1. add_link(lnks, n) = Append(old, n) /\ old \in Seq(Names) /\ old # Garbled
  <2>1. CASE lnks = Absent
    <3>1. add_link(lnks, n) = <<n>> /\ old = <<>>
      BY <1>t, <2>1 DEF add_link
    <3>. QED
      BY <1>t, <3>1, FirstLink
  <2>2. CASE lnks # Absent
    BY <1>t, <1>0, <2>2 DEF add_link
  <2>. QED
    BY <2>1, <2>2
<1>2. PICK new : new = Append(old, n)
  OBVIOUS
<1>3. /\ DOMAIN new = 1..(Len(old) + 1) /\ DOMAIN old = 1..Len(old) /\ Len(old) \in Nat
      /\ \A j \in 1..Len(old) : new[j] = old[j]
      /\ new[Len(old) + 1] = n
  BY <1>1, <1>2
<1>4. ToSet(new) = ToSet(old) \cup {n}
  BY <1>3 DEF ToSet
<1>5. \A j \in DOMAIN old : old[j] # n
  BY <1>1 DEF ToSet
<1>6. ASSUME NEW j \in DOMAIN new, NEW k \in DOMAIN new, new[j] = new[k]
      PROVE  j = k
  <2>1. CASE j \in DOMAIN old /\ k \in DOMAIN old
    BY <1>1, <1>3, <1>6, <2>1 DEF IsInjective
  <2>2. CASE j \notin DOMAIN old
    BY <1>3, <1>5, <1>6, <2>2
  <2>3. CASE k \notin DOMAIN old
    BY <1>3, <1>5, <1>6, <2>3
  <2>. QED
    BY <2>1, <2>2, <2>3
<1>. QED
  BY <1>1, <1>2, <1>4, <1>6 DEF IsInjective

\* remove_link finds a name that is there and takes it out, or garbles.
LEMMA LinkRemoved ==
  ASSUME NEW lnks \in Seq(Names) \cup {Garbled}, NEW n \in Names,
         lnks # Garbled => n \in ToSet(lnks) /\ IsInjective(lnks)
  PROVE  /\ remove_link(lnks, n) # Absent
         /\ remove_link(lnks, n) # Garbled =>
              /\ lnks # Garbled
              /\ ToSet(remove_link(lnks, n)) = ToSet(lnks) \ {n}
              /\ IsInjective(remove_link(lnks, n))
<1>1. CASE lnks = Garbled
  BY <1>1, TextAssumption DEF remove_link
<1>2. CASE lnks # Garbled
  <2>1. PICK m \in DOMAIN lnks : lnks[m] = n
    BY <1>2 DEF ToSet
  <2>2. <<n, lnks[m]>> \in TextWithin
    BY <2>1, TextAssumption
  <2>3. CASE \E j \in DOMAIN lnks : IsFirstLink(j, lnks, n)
    <3>1. PICK i, new : /\ i = CHOOSE j \in DOMAIN lnks : IsFirstLink(j, lnks, n)
                        /\ new = RemoveAt(lnks, i)
      OBVIOUS
    <3>2. i \in DOMAIN lnks /\ lnks[i] = n
      BY <2>3, <3>1 DEF IsFirstLink
    <3>3. remove_link(lnks, n) = new
      BY <1>2, <2>1, <2>2, <2>3, <3>1 DEF remove_link
    <3>4. lnks \in Seq(Names) /\ i \in 1..Len(lnks) /\ Len(lnks) \in Nat
          /\ DOMAIN lnks = 1..Len(lnks)
      BY <1>2, <3>2
    <3>5. /\ new \in Seq(Names) /\ Len(new) = Len(lnks) - 1
          /\ \A j \in 1..(Len(lnks) - 1) :
               new[j] = IF j < i THEN lnks[j] ELSE lnks[j + 1]
      BY <3>1, <3>4, RemoveAtProperties
    <3>6. DOMAIN new = 1..(Len(lnks) - 1)
      BY <3>5
    <3>7. \A j \in DOMAIN new : \E k \in DOMAIN lnks :
            new[j] = lnks[k] /\ k # i /\ (j < i => k = j) /\ (j >= i => k = j + 1)
      BY SMTT(30), <3>4, <3>5, <3>6
    <3>8. \A k \in DOMAIN lnks : k # i => \E j \in DOMAIN new : new[j] = lnks[k]
      <4>. SUFFICES ASSUME NEW k \in DOMAIN lnks, k # i
                    PROVE  \E j \in DOMAIN new : new[j] = lnks[k]
        OBVIOUS
      <4>1. CASE k < i
        BY <3>4, <3>5, <3>6, <4>1
      <4>2. CASE k > i
        <5>1. k - 1 \in DOMAIN new /\ ~ (k - 1 < i) /\ (k - 1) + 1 = k
          BY <3>4, <3>6, <4>2
        <5>2. new[k - 1] = lnks[k]
          BY <3>5, <3>6, <5>1
        <5>. QED
          BY <5>1, <5>2
      <4>. QED
        BY <3>4, <4>1, <4>2
    <3>9. \A k \in DOMAIN lnks : k # i => lnks[k] # n
      BY <1>2, <3>2 DEF IsInjective
    <3>10. ToSet(new) = ToSet(lnks) \ {n}
      BY <3>2, <3>7, <3>8, <3>9 DEF ToSet
    <3>11. ASSUME NEW j \in DOMAIN new, NEW k \in DOMAIN new, new[j] = new[k]
           PROVE  j = k
      <4>1. PICK l \in DOMAIN lnks :
              new[j] = lnks[l] /\ (j < i => l = j) /\ (j >= i => l = j + 1)
        BY <3>7
      <4>2. PICK m2 \in DOMAIN lnks :
              new[k] = lnks[m2] /\ (k < i => m2 = k) /\ (k >= i => m2 = k + 1)
        BY <3>7
      <4>3. l = m2
        BY <1>2, <3>11, <4>1, <4>2 DEF IsInjective
      <4>. QED
        BY <3>4, <3>6, <4>1, <4>2, <4>3
    <3>12. new # Absent
      BY <3>5, TextAssumption
    <3>. QED
      BY <1>2, <3>3, <3>10, <3>11, <3>12 DEF IsInjective
  <2>4. CASE ~ \E j \in DOMAIN lnks : IsFirstLink(j, lnks, n)
    BY <1>2, <2>1, <2>2, <2>4, TextAssumption DEF remove_link
  <2>. QED
    BY <2>3, <2>4
<1>. QED
  BY <1>1, <1>2

-----------------------------------------------------------------------------
(* What the steps do to the links.                                         *)

\* The directories stay, and so do the links.
LEMMA LinkedDirsStay ==
  ASSUME NEW h, NEW listed, NEW uncounted, NEW freed,
         Linked(h, listed, uncounted, freed), links' = links,
         \A d \in DOMAIN h : IsDir(h, d) =>
           IsDir(h, d)' /\ (inodes[h[d]].blocks => inodes'[h[d]].blocks)
  PROVE  Linked(h, listed, uncounted, freed)'
<1>1. Lists(h, listed)'
  BY DEF Linked, Lists, LinksIn
<1>2. Parents(h)'
  BY DEF Linked, Parents, IsDir
<1>3. Keys(h, uncounted, freed)'
  BY DEF Linked, Keys
<1>. QED
  BY <1>1, <1>2, <1>3 DEF Linked

\* What is linked stays so while links and inodes do,
LEMMA LinkedStays ==
  ASSUME NEW h, NEW listed, NEW uncounted, NEW freed,
         Linked(h, listed, uncounted, freed), links' = links, inodes' = inodes
  PROVE  Linked(h, listed, uncounted, freed)'
  BY LinkedDirsStay DEF IsDir

\* and does not depend on the ids the hash table has.
LEMMA LinkedSame ==
  ASSUME NEW h, NEW g, SameNames(h, g), NEW listed, NEW uncounted, NEW freed,
         Linked(h, listed, uncounted, freed)
  PROVE  Linked(g, listed, uncounted, freed)
<1>1. \A d \in DOMAIN h : LinksIn(h, d) = LinksIn(g, d)
  BY DEF SameNames, LinksIn
<1>2. \A d : IsDir(h, d) <=> IsDir(g, d)
  BY DEF SameNames, IsDir
<1>3. Lists(g, listed)
  BY <1>1 DEF Linked, Lists, SameNames
<1>4. Parents(g)
  BY <1>2 DEF Linked, Parents, SameNames
<1>5. Keys(g, uncounted, freed)
  BY <1>2 DEF Linked, Keys, SameNames
<1>. QED
  BY <1>3, <1>4, <1>5 DEF Linked

\* A directory has one path, until a kill.
LEMMA DirHasOnePath ==
  ASSUME NEW h, IsFiniteSet(DOMAIN h), NEW gone, NEW more, Named(h, gone, more),
         crashes = 0, NEW d, IsDir(h, d), NEW e \in DOMAIN h, h[e] = h[d]
  PROVE  e = d
<1>1. PICK i : i = h[d]
  OBVIOUS
<1>2. i \in DOMAIN inodes /\ Cap(inodes[i]) = 1 /\ d \in NamesOf(h, i) /\ e \in NamesOf(h, i)
  BY <1>1 DEF IsDir, Cap, NamesOf
<1>3. Counted(inodes[i], Count(h, i) + (IF i \in more THEN 1 ELSE 0))
  BY <1>2 DEF Named
<1>4. Count(h, i) \in Nat /\ Count(h, i) # 0 /\ IsFiniteSet(NamesOf(h, i))
  BY <1>2, CountIsNat
<1>5. Cardinality(NamesOf(h, i)) = 1
  BY <1>2, <1>3, <1>4 DEF Counted, Count
<1>6. \E x : NamesOf(h, i) = {x}
  BY <1>4, <1>5, FS_Singleton
<1>. QED
  BY <1>2, <1>6

\* The inode that gets a name has no links: no directory has it yet.
LEMMA NewNameHasNoLinks ==
  ASSUME NEW h, IsFiniteSet(DOMAIN h), NEW i, Named(h, {}, {i}), crashes = 0,
         NEW listed, NEW uncounted, Linked(h, listed, uncounted, {})
  PROVE  i \notin DOMAIN links
<1>. SUFFICES ASSUME i \in DOMAIN links PROVE FALSE
  OBVIOUS
<1>1. PICK d \in DOMAIN h : IsDir(h, d) /\ h[d] = i
  BY DEF Linked, Keys
<1>2. i \in DOMAIN inodes /\ Cap(inodes[i]) = 1 /\ d \in NamesOf(h, i)
  BY <1>1 DEF IsDir, Cap, NamesOf
<1>3. Counted(inodes[i], Count(h, i) + 1)
  BY <1>2 DEF Named
<1>4. Count(h, i) \in Nat /\ Count(h, i) # 0
  BY <1>2, CountIsNat
<1>. QED
  BY <1>2, <1>3, <1>4 DEF Counted

\* A new path is in no links yet, and has none.
LEMMA LinkedAddPath ==
  ASSUME NEW h, DOMAIN h \subseteq Paths, NEW p \in Paths, p \notin DOMAIN h,
         NEW i, i \notin DOMAIN links, Linked(h, DOMAIN h, {}, {}),
         p # Root => IsDir(h, get_parent_directory(p)),
         NEW g, g = memcached_set(h, p, i)
  PROVE  Linked(g, DOMAIN g \ {p}, {}, {})
<1>1. /\ DOMAIN g = DOMAIN h \cup {p} /\ DOMAIN g \ {p} = DOMAIN h /\ g[p] = i
      /\ \A q \in DOMAIN h : g[q] = h[q]
  BY DEF memcached_set
<1>2. \A d \in DOMAIN h : LinksIn(g, d) = LinksIn(h, d) /\ (IsDir(h, d) => IsDir(g, d))
  BY <1>1 DEF LinksIn, IsDir
<1>3. LinksIn(g, p) = <<>> /\ ToSet(<<>>) = {} /\ IsInjective(<<>>)
  BY <1>1 DEF LinksIn, ToSet, IsInjective
<1>4. {q \in DOMAIN h : IsChild(q, p)} = {}
  BY DEF Linked, Parents, IsChild, IsDir
<1>5. Lists(g, DOMAIN h)
  BY <1>1, <1>2, <1>3, <1>4 DEF Linked, Lists
<1>6. Parents(g)
  <2>. SUFFICES ASSUME NEW q \in DOMAIN g, q # Root
                PROVE  IsDir(g, get_parent_directory(q))
    BY DEF Parents
  <2>1. IsDir(h, get_parent_directory(q))
    BY <1>1 DEF Linked, Parents
  <2>. QED
    BY <1>2, <2>1 DEF IsDir
<1>7. Keys(g, {}, {})
  <2>. SUFFICES ASSUME NEW j \in DOMAIN links
                PROVE  \E d \in DOMAIN g : IsDir(g, d) /\ g[d] = j /\ inodes[j].blocks
    BY DEF Keys
  <2>1. PICK d \in DOMAIN h : IsDir(h, d) /\ h[d] = j /\ inodes[j].blocks
    BY DEF Linked, Keys
  <2>. QED
    BY <1>1, <1>2, <2>1
<1>. QED
  BY <1>1, <1>5, <1>6, <1>7 DEF Linked

\* The root is in no links.
LEMMA LinkedRoot ==
  ASSUME NEW h, NEW listed, NEW uncounted, NEW freed,
         Linked(h, listed \ {Root}, uncounted, freed)
  PROVE  Linked(h, listed, uncounted, freed)
<1>1. \A d : {q \in listed \ {Root} : IsChild(q, d)} = {q \in listed : IsChild(q, d)}
  BY DEF IsChild
<1>. QED
  BY <1>1 DEF Linked, Lists

\* The new path enters the links of its directory.
LEMMA LinkedAddName ==
  ASSUME NEW h, DOMAIN h \subseteq Paths, NEW p \in DOMAIN h, p # Root, MemoryOK,
         Linked(h, DOMAIN h \ {p}, {}, {}),
         NEW d, d = get_parent_directory(p), \A e \in DOMAIN h : h[e] = h[d] => e = d,
         NEW lnks, lnks = (IF h[d] \in DOMAIN links THEN links[h[d]] ELSE Absent),
         links' = memcached_set(links, h[d], add_link(lnks, get_name_from_path(p))),
         inodes' = inodes
  PROVE  Linked(h, DOMAIN h, {d}, {})'
<1>1. PICK n, new : n = get_name_from_path(p) /\ new = add_link(lnks, n)
  OBVIOUS
<1>2. n \in Names /\ d \in DOMAIN h /\ IsDir(h, d) /\ IsChild(p, d)
  BY <1>1, PathParts DEF Linked, Parents, IsDir, IsChild
<1>3. /\ DOMAIN links' = DOMAIN links \cup {h[d]} /\ links'[h[d]] = new
      /\ \A i \in DOMAIN links : i # h[d] => links'[i] = links[i]
  BY <1>1 DEF memcached_set
<1>4. PICK old : old = LinksIn(h, d)
  OBVIOUS
<1>5. old = (IF lnks = Absent THEN <<>> ELSE lnks) /\ lnks \in Seq(Names) \cup {Absent, Garbled}
  <2>1. CASE h[d] \in DOMAIN links
    <3>1. lnks \in Seq(Names) \cup {Garbled} /\ lnks = links[h[d]]
      BY <2>1 DEF MemoryOK
    <3>2. lnks # Absent
      BY <3>1, TextAssumption
    <3>. QED
      BY <1>4, <2>1, <3>1, <3>2 DEF LinksIn
  <2>2. CASE h[d] \notin DOMAIN links
    BY <1>4, <2>2 DEF LinksIn
  <2>. QED
    BY <2>1, <2>2
<1>6. PICK children : children = {q \in DOMAIN h \ {p} : IsChild(q, d)}
  OBVIOUS
<1>7. old # Garbled => /\ ToSet(old) = {get_name_from_path(q) : q \in children}
                       /\ IsInjective(old)
  BY <1>2, <1>4, <1>6 DEF Linked, Lists
<1>8. \A q \in children : get_name_from_path(q) # n
  BY <1>1, <1>2, <1>6, PathIsParentAndName DEF IsChild
<1>9. old # Garbled => n \notin ToSet(old)
  BY <1>7, <1>8
<1>10. new # Garbled => /\ old # Garbled /\ ToSet(new) = ToSet(old) \cup {n}
                        /\ IsInjective(new)
  BY <1>1, <1>2, <1>5, <1>7, <1>9, LinkAdded
<1>11. {q \in DOMAIN h : IsChild(q, d)} = children \cup {p}
  BY <1>2, <1>6
<1>12. new # Garbled => ToSet(new) = {get_name_from_path(q) : q \in children \cup {p}}
  BY <1>1, <1>7, <1>10
<1>13. LinksIn(h, d)' = new
  BY <1>3 DEF LinksIn
<1>14. ASSUME NEW e \in DOMAIN h, e # d
       PROVE  /\ LinksIn(h, e)' = LinksIn(h, e)
              /\ {q \in DOMAIN h : IsChild(q, e)} = {q \in DOMAIN h \ {p} : IsChild(q, e)}
  <2>1. h[e] # h[d]
    BY <1>14
  <2>. QED
    BY <1>2, <1>3, <1>14, <2>1 DEF LinksIn, IsChild
<1>15. Lists(h, DOMAIN h)'
  <2>. SUFFICES ASSUME NEW e \in DOMAIN h, LinksIn(h, e)' # Garbled
                PROVE  /\ ToSet(LinksIn(h, e)') =
                            {get_name_from_path(q) : q \in {r \in DOMAIN h : IsChild(r, e)}}
                       /\ IsInjective(LinksIn(h, e)')
    BY DEF Lists
  <2>1. CASE e = d
    BY <1>10, <1>11, <1>12, <1>13, <2>1
  <2>2. CASE e # d
    BY <1>14, <2>2 DEF Linked, Lists
  <2>. QED
    BY <2>1, <2>2
<1>16. Parents(h)'
  BY DEF Linked, Parents, IsDir
<1>17. Keys(h, {d}, {})'
  BY <1>2, <1>3 DEF Linked, Keys, IsDir
<1>. QED
  BY <1>15, <1>16, <1>17 DEF Linked

\* The directory learns that it has links.
LEMMA LinkedCounted ==
  ASSUME NEW h, MemoryOK, NEW d, IsDir(h, d), Linked(h, DOMAIN h, {d}, {}),
         inodes' = [inodes EXCEPT ![h[d]].blocks = TRUE], links' = links
  PROVE  Linked(h, DOMAIN h, {}, {})'
<1>1. ASSUME NEW i \in DOMAIN inodes
      PROVE  /\ inodes'[i].kind = inodes[i].kind
             /\ inodes[i].blocks \/ i = h[d] => inodes'[i].blocks
  <2>1. inodes[i] \in Inode
    BY DEF MemoryOK
  <2>2. CASE i = h[d]
    <3>1. inodes'[i] = [inodes[i] EXCEPT !.blocks = TRUE]
      BY <2>2
    <3>. QED
      BY <2>1, <3>1 DEF Inode
  <2>3. CASE i # h[d]
    BY <2>3
  <2>. QED
    BY <2>2, <2>3
<1>2. DOMAIN inodes' = DOMAIN inodes
  OBVIOUS
<1>3. \A e \in DOMAIN h : IsDir(h, e) => IsDir(h, e)'
  BY <1>1, <1>2 DEF IsDir
<1>4. Linked(h, DOMAIN h, {d}, {})'
  <2>1. \A e \in DOMAIN h : IsDir(h, e) =>
          IsDir(h, e)' /\ (inodes[h[e]].blocks => inodes'[h[e]].blocks)
    BY <1>1, <1>3 DEF IsDir
  <2>. QED
    BY <2>1, LinkedDirsStay
<1>5. Keys(h, {}, {})'
  <2>. SUFFICES ASSUME NEW i \in DOMAIN links
                PROVE  \E e \in DOMAIN h : IsDir(h, e)' /\ h[e] = i /\ inodes'[i].blocks
    BY DEF Keys
  <2>1. PICK e \in DOMAIN h : IsDir(h, e) /\ h[e] = i /\ (e \in {d} \/ inodes[i].blocks)
    BY DEF Linked, Keys
  <2>2. i \in DOMAIN inodes
    BY <2>1 DEF IsDir
  <2>. QED
    BY <1>1, <1>3, <2>1, <2>2
<1>. QED
  BY <1>4, <1>5 DEF Linked

\* A path without children leaves the hash table; it is still listed, and the
\* links it had itself have lost their directory.
LEMMA LinkedRemovePath ==
  ASSUME NEW h, NEW p \in DOMAIN h, \A q \in DOMAIN h : ~ IsChild(q, p),
         Linked(h, DOMAIN h, {}, {}),
         NEW g, g = Without(h, p),
         NEW freed, freed \subseteq {h[p]},
         IsDir(h, p) /\ inodes[h[p]].blocks => freed = {h[p]}
  PROVE  Linked(g, DOMAIN g \cup {p}, {}, freed)
<1>v. DOMAIN g = DOMAIN h \ {p} /\ \A q \in DOMAIN h \ {p} : g[q] = h[q]
  BY WithoutProperties
<1>w. /\ DOMAIN g = DOMAIN h \ {p} /\ DOMAIN g \cup {p} = DOMAIN h
      /\ \A q \in DOMAIN h \ {p} : g[q] = h[q]
  BY <1>v
<1>1. \A d \in DOMAIN g : LinksIn(g, d) = LinksIn(h, d)
  BY <1>w DEF LinksIn
<1>2. \A d \in DOMAIN h \ {p} : IsDir(h, d) => IsDir(g, d)
  BY <1>w DEF IsDir
<1>3. Lists(g, DOMAIN h)
  BY <1>w, <1>1 DEF Linked, Lists
<1>4. Parents(g)
  <2>. SUFFICES ASSUME NEW q \in DOMAIN g, q # Root
                PROVE  IsDir(g, get_parent_directory(q))
    BY DEF Parents
  <2>1. IsDir(h, get_parent_directory(q)) /\ get_parent_directory(q) # p
    BY <1>w DEF Linked, Parents, IsChild
  <2>. QED
    BY <1>2, <2>1 DEF IsDir
<1>5. Keys(g, {}, freed)
  <2>. SUFFICES ASSUME NEW i \in DOMAIN links \ freed
                PROVE  \E d \in DOMAIN g : IsDir(g, d) /\ g[d] = i /\ inodes[i].blocks
    BY DEF Keys
  <2>1. PICK d \in DOMAIN h : IsDir(h, d) /\ h[d] = i /\ inodes[i].blocks
    BY DEF Linked, Keys
  <2>2. d # p
    BY <2>1
  <2>. QED
    BY <1>w, <1>2, <2>1, <2>2
<1>. QED
  BY <1>w, <1>3, <1>4, <1>5 DEF Linked

\* The links of a directory that is gone go with it.
LEMMA LinkedFree ==
  ASSUME NEW h, NEW listed, NEW i, NamesOf(h, i) = {}, Linked(h, listed, {}, {i}),
         links' = memcached_delete(links, i), inodes' = inodes
  PROVE  Linked(h, listed, {}, {})'
<1>1. /\ DOMAIN links' = DOMAIN links \ {i}
      /\ \A j \in DOMAIN links' : links'[j] = links[j]
  BY DEF memcached_delete, Restrict
<1>2. \A d \in DOMAIN h : h[d] # i
  BY DEF NamesOf
<1>3. \A d \in DOMAIN h : LinksIn(h, d)' = LinksIn(h, d)
  BY <1>1, <1>2 DEF LinksIn
<1>4. Lists(h, listed)'
  BY <1>3 DEF Linked, Lists
<1>5. Parents(h)'
  BY DEF Linked, Parents, IsDir
<1>6. Keys(h, {}, {})'
  BY <1>1 DEF Linked, Keys, IsDir
<1>. QED
  BY <1>4, <1>5, <1>6 DEF Linked

\* The directory has links, and lists the name that is to go.
LEMMA LinkIsThere ==
  ASSUME NEW h, NEW p \in Paths, p # Root, MemoryOK,
         Linked(h, DOMAIN h \cup {p}, {}, {}),
         NEW d, d = get_parent_directory(p), d \in DOMAIN h
  PROVE  /\ h[d] \in DOMAIN links
         /\ links[h[d]] \in Seq(Names) \cup {Garbled}
         /\ links[h[d]] # Garbled =>
              /\ IsInjective(links[h[d]])
              /\ ToSet(links[h[d]]) =
                   {get_name_from_path(q) : q \in {r \in DOMAIN h \cup {p} : IsChild(r, d)}}
              /\ get_name_from_path(p) \in ToSet(links[h[d]])
<1>1. IsChild(p, d)
  BY DEF IsChild
<1>2. LinksIn(h, d) # Garbled =>
        /\ ToSet(LinksIn(h, d)) =
             {get_name_from_path(q) : q \in {r \in DOMAIN h \cup {p} : IsChild(r, d)}}
        /\ IsInjective(LinksIn(h, d))
  BY DEF Linked, Lists
<1>3. LinksIn(h, d) # Garbled => get_name_from_path(p) \in ToSet(LinksIn(h, d))
  BY <1>1, <1>2
<1>4. LinksIn(h, d) # <<>>
  <2>e. <<>> \in Seq(Names)
    OBVIOUS
  <2>1. Garbled # <<>>
    BY <2>e, TextAssumption
  <2>2. ToSet(<<>>) = {}
    BY DEF ToSet
  <2>. QED
    BY <1>3, <2>1, <2>2
<1>5. h[d] \in DOMAIN links /\ LinksIn(h, d) = links[h[d]]
  BY <1>4 DEF LinksIn
<1>6. links[h[d]] \in Seq(Names) \cup {Garbled}
  BY <1>5 DEF MemoryOK
<1>. QED
  BY <1>2, <1>3, <1>5, <1>6

\* The name of the path that is gone leaves the links of its directory.
LEMMA LinkedRemoveName ==
  ASSUME NEW h, DOMAIN h \subseteq Paths, NEW p \in Paths, p \notin DOMAIN h,
         p # Root, MemoryOK, Linked(h, DOMAIN h \cup {p}, {}, {}),
         NEW d, d = get_parent_directory(p), IsDir(h, d),
         \A e \in DOMAIN h : h[e] = h[d] => e = d,
         NEW new, new = remove_link(links[h[d]], get_name_from_path(p))
  PROVE  /\ h[d] \in DOMAIN links /\ new # Absent
         /\ links' = memcached_set(links, h[d], new) /\ inodes' = inodes =>
              Linked(h, DOMAIN h, {}, {})'
<1>1. PICK n, old : n = get_name_from_path(p) /\ old = links[h[d]]
  OBVIOUS
<1>2. n \in Names /\ d \in DOMAIN h /\ IsChild(p, d)
  BY <1>1, PathParts DEF IsDir, IsChild
<1>3. /\ h[d] \in DOMAIN links /\ old \in Seq(Names) \cup {Garbled}
      /\ old # Garbled =>
           /\ IsInjective(old)
           /\ ToSet(old) =
                {get_name_from_path(q) : q \in {r \in DOMAIN h \cup {p} : IsChild(r, d)}}
           /\ n \in ToSet(old)
  BY SMTT(30), <1>1, <1>2, LinkIsThere
<1>4. /\ new # Absent
      /\ new # Garbled => /\ old # Garbled /\ ToSet(new) = ToSet(old) \ {n}
                          /\ IsInjective(new)
  BY <1>1, <1>2, <1>3, LinkRemoved
<1>5. ASSUME links' = memcached_set(links, h[d], new), inodes' = inodes
      PROVE  Linked(h, DOMAIN h, {}, {})'
  <2>1. /\ DOMAIN links' = DOMAIN links /\ links'[h[d]] = new
        /\ \A i \in DOMAIN links : i # h[d] => links'[i] = links[i]
    BY <1>3, <1>5 DEF memcached_set
  <2>2. PICK children : children = {q \in DOMAIN h : IsChild(q, d)}
    OBVIOUS
  <2>3. {r \in DOMAIN h \cup {p} : IsChild(r, d)} = children \cup {p}
    BY <1>2, <2>2
  <2>4. \A q \in children : get_name_from_path(q) # n
    BY <1>1, <1>2, <2>2, PathIsParentAndName DEF IsChild
  <2>5. new # Garbled => ToSet(new) = {get_name_from_path(q) : q \in children}
    BY <1>1, <1>3, <1>4, <2>3, <2>4
  <2>6. LinksIn(h, d)' = new
    BY <1>3, <2>1 DEF LinksIn
  <2>7. ASSUME NEW e \in DOMAIN h, e # d
        PROVE  /\ LinksIn(h, e)' = LinksIn(h, e)
               /\ {q \in DOMAIN h : IsChild(q, e)}
                    = {q \in DOMAIN h \cup {p} : IsChild(q, e)}
    <3>1. h[e] # h[d]
      BY <2>7
    <3>. QED
      BY <1>2, <2>1, <2>7, <3>1 DEF LinksIn, IsChild
  <2>8. Lists(h, DOMAIN h)'
    <3>. SUFFICES ASSUME NEW e \in DOMAIN h, LinksIn(h, e)' # Garbled
                  PROVE  /\ ToSet(LinksIn(h, e)') =
                              {get_name_from_path(q) : q \in {r \in DOMAIN h : IsChild(r, e)}}
                         /\ IsInjective(LinksIn(h, e)')
      BY DEF Lists
    <3>1. CASE e = d
      BY <1>4, <2>2, <2>5, <2>6, <3>1
    <3>2. CASE e # d
      BY <2>7, <3>2 DEF Linked, Lists
    <3>. QED
      BY <3>1, <3>2
  <2>9. Parents(h)'
    BY <1>5 DEF Linked, Parents, IsDir
  <2>10. Keys(h, {}, {})'
    BY <1>5, <2>1 DEF Linked, Keys, IsDir
  <2>. QED
    BY <2>8, <2>9, <2>10 DEF Linked
<1>. QED
  BY <1>3, <1>4, <1>5

-----------------------------------------------------------------------------
(* How a thread and the process move.                                      *)

\* The one thread goes to the state th.
LEMMA LinkedMove ==
  ASSUME OneThread, NEW t \in Threads, NEW th, thread'[t] = th, phase' # "down",
         NEW h, NEW listed, NEW uncounted, NEW freed,
         NoMishap' => /\ h = hash' /\ listed = Listed(th)' /\ uncounted = Uncounted(th)
                      /\ freed = Freed(th)
                      /\ Linked(h, listed, uncounted, freed)' /\ InDir(th)'
  PROVE  LinkedInv'
<1>1. \A u \in Threads : thread'[u] = th
  BY DEF OneThread, SingleThreaded
<1>2. ASSUME NoMishap', NEW u \in Threads
      PROVE  /\ Linked(hash, Listed(thread[u]), Uncounted(thread[u]), Freed(thread[u]))'
             /\ InDir(thread[u])'
  <2>1. thread'[u] = th
    BY <1>1
  <2>2. h = hash' /\ listed = Listed(thread[u])' /\ uncounted = Uncounted(thread[u])'
        /\ freed = Freed(thread[u])'
    BY <1>2, <2>1 DEF Listed, Uncounted, Freed
  <2>3. Linked(h, listed, uncounted, freed)'
    BY <1>2
  <2>4. Linked(hash, Listed(thread[u]), Uncounted(thread[u]), Freed(thread[u]))'
    BY <2>2, <2>3 DEF Linked, Lists, LinksIn, Parents, Keys, IsDir
  <2>5. InDir(thread[u])'
    BY <1>2, <2>1 DEF InDir
  <2>. QED
    BY <2>4, <2>5
<1>. QED
  BY <1>2 DEF LinkedInv

\* What the invariant says of the thread.
LEMMA LinkedHere ==
  ASSUME TreeInv, NEW t \in Threads, thread[t].pc # "idle" \/ phase # "down"
  PROVE  /\ phase # "down" /\ MemoryOK /\ TypeInv /\ IsFiniteSet(DOMAIN hash)
         /\ DOMAIN hash \subseteq Paths
         /\ thread[t] \in Thread /\ t \in DOMAIN thread
         /\ SyncAt(t) /\ WellFormed(thread[t])
         /\ NoMishap =>
              /\ crashes = 0
              /\ Named(PersistedBy(thread[t]), Gone(thread[t]), More(thread[t]))
              /\ OnFile(thread[t])
              /\ Linked(hash, Listed(thread[t]), Uncounted(thread[t]), Freed(thread[t]))
              /\ InDir(thread[t])
<1>1. phase # "down" /\ NamesInv
  BY DEF TreeInv, NamesInv, IInv, SyncInv, DownInv
<1>2. /\ MemoryOK /\ TypeInv /\ IsFiniteSet(DOMAIN hash) /\ DOMAIN hash \subseteq Paths
      /\ thread[t] \in Thread /\ t \in DOMAIN thread
      /\ SyncAt(t) /\ WellFormed(thread[t])
  BY <1>1, NamedHere, TypeInvParts DEF NamesInv, IInv, MemoryOK
<1>3. faults = 0 => /\ Named(PersistedBy(thread[t]), Gone(thread[t]), More(thread[t]))
                    /\ OnFile(thread[t])
  BY <1>1, NamedHere
<1>4. NoMishap =>
        /\ Linked(hash, Listed(thread[t]), Uncounted(thread[t]), Freed(thread[t]))
        /\ InDir(thread[t])
  BY <1>1 DEF TreeInv, LinkedInv
<1>. QED
  BY <1>1, <1>2, <1>3, <1>4 DEF NoMishap

\* Where the links list just the paths of the hash table.
Still(th) ==
  th.pc \notin {"set_table", "add_link", "count_link", "decrement_nlink",
                "delete_blocks", "delete_inode", "remove_link"}

\* A thread that changes no tree has all paths listed and counted.
LEMMA StillParts ==
  ASSUME NEW th, Still(th)
  PROVE  Listed(th) = DOMAIN hash /\ Uncounted(th) = {} /\ Freed(th) = {}
  BY DEF Still, Listed, Uncounted, Freed

\* No directory of h changes its kind, and none forgets that it has links.
DirsStay(h) ==
  \A d \in DOMAIN h : IsDir(h, d) =>
    /\ h[d] \in DOMAIN inodes' /\ inodes'[h[d]].kind = "dir"
    /\ inodes[h[d]].blocks => inodes'[h[d]].blocks

\* A step between states where the links list the paths of the hash table.
LEMMA LinkedStillStep ==
  ASSUME OneThread, TreeInv, NEW t \in Threads, NEW th, thread'[t] = th,
         thread[t].pc # "idle" \/ phase # "down", phase' # "down",
         Still(thread[t]), Still(th), UNCHANGED <<hash, links>>,
         NoMishap' => NoMishap /\ DirsStay(hash) /\ InDir(th)'
  PROVE  LinkedInv'
<1>1. PICK h, listed, none : h = hash /\ listed = DOMAIN hash /\ none = {}
  OBVIOUS
<1>2. /\ Listed(th)' = DOMAIN hash' /\ Uncounted(th) = {} /\ Freed(th) = {}
      /\ NoMishap => Linked(h, listed, none, none)
  BY <1>1, LinkedHere, StillParts DEF Still, Listed, Uncounted, Freed
<1>3. NoMishap' => Linked(h, listed, none, none)'
  <2>. SUFFICES ASSUME NoMishap'
                PROVE  Linked(h, listed, none, none)'
    OBVIOUS
  <2>1. \A d \in DOMAIN h : IsDir(h, d) =>
           IsDir(h, d)' /\ (inodes[h[d]].blocks => inodes'[h[d]].blocks)
    BY <1>1 DEF DirsStay, IsDir
  <2>. QED
    BY <1>2, <2>1, LinkedDirsStay
<1>. QED
  BY <1>1, <1>2, <1>3, LinkedMove

\* A step of a handler that has still to make its path.
LEMMA LinkedCreateStep ==
  ASSUME OneThread, TreeInv, NEW t \in Threads, NEW th, thread'[t] = th,
         thread[t].pc \in CreatePcs, th.pc \in CreatePcs, th.path = thread[t].path,
         phase' # "down", UNCHANGED <<hash, links>>,
         NoMishap' => NoMishap /\ DirsStay(hash)
  PROVE  LinkedInv'
<1>1. thread[t].pc # "idle" /\ Still(thread[t]) /\ Still(th)
  BY DEF CreatePcs, NewPathPcs, FreshPcs, Still
<1>2. NoMishap' => InDir(th)'
  <2>. SUFFICES ASSUME NoMishap', th.path # Root
                PROVE  IsDir(hash, get_parent_directory(th.path))'
    BY DEF InDir, CreatePcs, NewPathPcs, FreshPcs
  <2>1. IsDir(hash, get_parent_directory(th.path))
    BY <1>1, LinkedHere DEF InDir
  <2>. QED
    BY <2>1 DEF DirsStay, IsDir
<1>. QED
  BY <1>1, <1>2, LinkedStillStep

\* The process dies; the links list what a mount finds.
LEMMA LinkedDie ==
  ASSUME TreeInv, NEW t \in Threads, phase # "down", Die, UNCHANGED <<server, bounds>>,
         NoMishap /\ IsList(table) => Still(thread[t]) /\ thread[t].pc # "remove_entry"
  PROVE  LinkedInv'
<1>1. phase' = "down" /\ UNCHANGED <<table, links, inodes, crashes, faults>>
  BY DEF Die, server, bounds
<1>2. ASSUME NoMishap, IsList(table)
      PROVE  Linked(hashtable_string_to_table(table), EntryPaths(table), {}, {})'
  <2>1. PICK h, m, listed : /\ h = hash /\ m = hashtable_string_to_table(table)
                            /\ listed = EntryPaths(table)
    OBVIOUS
  <2>2. Agree(table, h)
    BY <1>2, <2>1, LinkedHere DEF SyncAt, Persisted, Still
  <2>3. table \in Seq(Entry)
    BY <1>2, LinkedHere DEF MemoryOK, IsList
  <2>4. SameNames(h, m) /\ listed = DOMAIN h
    BY <2>1, <2>2, <2>3, TableHolds DEF Agree
  <2>5. Linked(h, listed, {}, {})
    BY <1>2, <2>1, <2>4, LinkedHere, StillParts
  <2>6. Linked(m, listed, {}, {})
    BY <2>4, <2>5, LinkedSame
  <2>7. Linked(m, listed, {}, {})'
    BY <1>1, <2>6, LinkedStays
  <2>. QED
    BY <1>1, <2>1, <2>7
<1>. QED
  BY <1>1, <1>2 DEF LinkedInv, NoMishap, IsList

\* A process that dies without a mishap was not at a change of the tree.
LEMMA LinkedSegfault ==
  ASSUME TreeInv, NEW t \in Threads, thread[t].pc # "idle", Segfault,
         NoMishap /\ IsList(table) => Still(thread[t]) /\ thread[t].pc # "remove_entry"
  PROVE  LinkedInv'
  BY LinkedHere, LinkedDie DEF Segfault

-----------------------------------------------------------------------------
(* The steps of create_inode and of memcached_link.                        *)

\* While no inode changes, directories stay directories.
LEMMA DirsStayAsIs ==
  ASSUME NEW h, inodes' = inodes
  PROVE  DirsStay(h)
  BY DEF DirsStay, IsDir

\* The first mount: there are no links yet.
LEMMA LinkedFirstKeys ==
  ASSUME OneThread, TreeInv, NEW t \in Threads,
         SetEmptyTable(t) \/ SetFirstValue(t)
  PROVE  LinkedInv'
<1>1. PICK th : th = thread'[t]
  OBVIOUS
<1>2. thread[t].pc \in {"set_empty_table", "set_first_value"}
      /\ UNCHANGED <<hash, inodes, links, crashes, faults, phase>>
  BY DEF SetEmptyTable, SetFirstValue, At, bounds
<1>3. th.pc \in {"set_first_value", "get_inode_value"} /\ th.path = thread[t].path
  BY <1>1, <1>2, LinkedHere, GotoFields DEF SetEmptyTable, SetFirstValue
<1>4. thread[t].pc \in CreatePcs /\ th.pc \in CreatePcs
  BY <1>2, <1>3 DEF CreatePcs, NewPathPcs
<1>5. phase' # "down" /\ (NoMishap' => NoMishap) /\ DirsStay(hash)
  BY <1>2, LinkedHere, DirsStayAsIs DEF NoMishap
<1>. QED
  BY <1>1, <1>2, <1>3, <1>4, <1>5, LinkedCreateStep

\* Reading the next id changes no tree.
LEMMA LinkedGetInodeValue ==
  ASSUME OneThread, TreeInv, NEW t \in Threads, GetInodeValue(t)
  PROVE  LinkedInv'
<1>0. thread[t].pc = "get_inode_value"
  BY DEF GetInodeValue, At
<1>1. CASE Segfault
  BY <1>0, <1>1, LinkedSegfault DEF Still
<1>2. CASE /\ thread' = [thread EXCEPT ![t].pc = "set_inode", ![t].ino = inode_value]
           /\ UNCHANGED <<server, hash, phase, bounds>>
  <2>1. PICK th : th = thread'[t]
    OBVIOUS
  <2>2. th.pc = "set_inode" /\ th.path = thread[t].path
    BY <1>0, <1>2, <2>1, LinkedHere DEF Thread
  <2>3. UNCHANGED <<hash, inodes, links, crashes, faults, phase>>
    BY <1>2 DEF server, bounds
  <2>4. thread[t].pc \in CreatePcs /\ th.pc \in CreatePcs
    BY <1>0, <2>2 DEF CreatePcs, NewPathPcs, FreshPcs
  <2>5. phase' # "down" /\ (NoMishap' => NoMishap) /\ DirsStay(hash)
    BY <1>0, <2>3, LinkedHere, DirsStayAsIs DEF NoMishap
  <2>. QED
    BY <2>1, <2>2, <2>3, <2>4, <2>5, LinkedCreateStep
<1>. QED
  BY <1>1, <1>2 DEF GetInodeValue

\* A new inode is that of no directory with paths.
LEMMA LinkedSetInode ==
  ASSUME OneThread, TreeInv, NEW t \in Threads, SetInode(t)
  PROVE  LinkedInv'
<1>0. thread[t].pc = "set_inode" /\ UNCHANGED <<hash, links, phase, crashes>>
  BY DEF SetInode, At
<1>1. PICK th, i : th = thread'[t] /\ i = thread[t].ino
  OBVIOUS
<1>h. phase # "down" /\ TypeInv /\ MemoryOK /\ thread[t] \in Thread
  BY <1>0, LinkedHere
<1>2. th.pc \in {"set_inode_value", "skip_inode_value"} /\ th.path = thread[t].path
  BY <1>1, <1>h, GotoFields DEF SetInode
<1>3. thread[t].pc \in CreatePcs /\ th.pc \in CreatePcs
  BY <1>0, <1>2 DEF CreatePcs, NewPathPcs, FreshPcs
<1>4. \A d \in DOMAIN hash : hash[d] # i
  <2>1. IdsBelow(i)
    BY <1>0, <1>1 DEF TreeInv, NamesInv, IInv, InoInv, FreshPcs
  <2>2. i \in Nat /\ \A d \in DOMAIN hash : hash[d] \in Nat
    BY <1>1, <1>h DEF MemoryOK, Thread
  <2>. QED
    BY <2>1, <2>2 DEF IdsBelow
<1>5. \A j \in DOMAIN inodes : j # i => j \in DOMAIN inodes' /\ inodes'[j] = inodes[j]
  BY <1>1 DEF SetInode, memcached_set, memcached_delete, Restrict
<1>6. DirsStay(hash)
  BY <1>4, <1>5 DEF DirsStay, IsDir
<1>7. NoMishap' => NoMishap
  BY <1>h DEF SetInode, NoMishap, MemoryOK
<1>. QED
  BY <1>0, <1>1, <1>2, <1>3, <1>6, <1>7, <1>h, LinkedCreateStep

\* Storing the next id changes no tree.
LEMMA LinkedSetInodeValue ==
  ASSUME OneThread, TreeInv, NEW t \in Threads, SetInodeValue(t)
  PROVE  LinkedInv'
<1>0. /\ thread[t].pc \in {"set_inode_value", "skip_inode_value"}
      /\ UNCHANGED <<hash, inodes, links, crashes, faults>>
  BY DEF SetInodeValue, At, bounds
<1>1. PICK th : th = thread'[t]
  OBVIOUS
<1>h. phase # "down" /\ TypeInv /\ thread[t] \in Thread
      /\ (NoMishap => OnFile(thread[t]))
  BY <1>0, LinkedHere
<1>2. phase' # "down" /\ (NoMishap' => NoMishap) /\ DirsStay(hash)
  BY <1>0, <1>h, DirsStayAsIs DEF SetInodeValue, NoMishap
<1>3. CASE thread[t].pc = "set_inode_value"
  <2>1. th.pc = "add_entry" /\ th.path = thread[t].path
    BY <1>1, <1>3, <1>h, GotoFields DEF SetInodeValue, At
  <2>2. thread[t].pc \in CreatePcs /\ th.pc \in CreatePcs
    BY <1>3, <2>1 DEF CreatePcs, NewPathPcs, FreshPcs
  <2>. QED
    BY <1>0, <1>1, <1>2, <2>1, <2>2, LinkedCreateStep
<1>4. CASE thread[t].pc = "skip_inode_value"
  <2>1. ~ NoMishap'
    BY <1>2, <1>4, <1>h DEF OnFile
  <2>. QED
    BY <1>1, <1>2, <2>1, LinkedMove
<1>. QED
  BY <1>0, <1>3, <1>4

\* Reading the inode to be linked changes no tree.
LEMMA LinkedGetLinkTarget ==
  ASSUME OneThread, TreeInv, NEW t \in Threads, GetLinkTarget(t)
  PROVE  LinkedInv'
<1>0. thread[t].pc = "get_link_target"
  BY DEF GetLinkTarget, At
<1>1. CASE Segfault
  BY <1>0, <1>1, LinkedSegfault DEF Still
<1>2. CASE ~ Segfault
  <2>1. PICK th, i, attr : th = thread'[t] /\ i = hashable_get_entry(thread[t].old)
                           /\ attr = inodes[i]
    OBVIOUS
  <2>2. /\ thread' = [thread EXCEPT ![t].pc = "increment_nlink", ![t].ino = i,
                                    ![t].attr = attr]
        /\ UNCHANGED <<server, hash, phase, bounds>>
    BY <1>2, <2>1 DEF GetLinkTarget
  <2>3. th.pc = "increment_nlink" /\ th.path = thread[t].path
    BY <1>0, <2>1, <2>2, LinkedHere DEF Thread
  <2>4. UNCHANGED <<hash, inodes, links, crashes, faults, phase>>
    BY <2>2 DEF server, bounds
  <2>5. thread[t].pc \in CreatePcs /\ th.pc \in CreatePcs
    BY <1>0, <2>3 DEF CreatePcs, NewPathPcs
  <2>6. phase' # "down" /\ (NoMishap' => NoMishap) /\ DirsStay(hash)
    BY <1>0, <2>4, LinkedHere, DirsStayAsIs DEF NoMishap
  <2>. QED
    BY <2>1, <2>3, <2>4, <2>5, <2>6, LinkedCreateStep
<1>. QED
  BY <1>1, <1>2

\* The number of links of a regular file is stored: no directory is touched.
LEMMA DirsStayOverReg ==
  ASSUME NEW h, NEW i \in DOMAIN inodes, inodes[i].kind = "reg", NEW attr,
         inodes' = memcached_set(inodes, i, attr)
  PROVE  DirsStay(h)
<1>1. /\ DOMAIN inodes' = DOMAIN inodes
      /\ \A j \in DOMAIN inodes : j # i => inodes'[j] = inodes[j]
  BY DEF memcached_set
<1>. QED
  BY <1>1 DEF DirsStay, IsDir

\* A higher link count changes no tree.
LEMMA LinkedIncrementNlink ==
  ASSUME OneThread, TreeInv, NEW t \in Threads, IncrementNlink(t)
  PROVE  LinkedInv'
<1>0. thread[t].pc = "increment_nlink" /\ UNCHANGED <<hash, links, crashes, faults, phase>>
  BY DEF IncrementNlink, At, bounds
<1>1. PICK th, i, attr : /\ th = thread'[t] /\ i = thread[t].ino
                         /\ attr = [thread[t].attr EXCEPT !.nlink = @ + 1]
  OBVIOUS
<1>h. phase # "down" /\ TypeInv /\ (NoMishap => OnFile(thread[t]))
  BY <1>0, LinkedHere
<1>2. th.pc = "add_entry" /\ th.path = thread[t].path
  BY <1>1, <1>h, GotoFields DEF IncrementNlink
<1>3. thread[t].pc \in CreatePcs /\ th.pc \in CreatePcs
  BY <1>0, <1>2 DEF CreatePcs, NewPathPcs
<1>4. inodes' = memcached_set(inodes, i, attr)
  BY <1>1 DEF IncrementNlink
<1>5. NoMishap => i \in DOMAIN inodes /\ inodes[i].kind = "reg"
  BY <1>0, <1>1, <1>h DEF OnFile
<1>6. NoMishap => DirsStay(hash)
  BY <1>4, <1>5, DirsStayOverReg
<1>7. NoMishap' => NoMishap
  BY <1>0 DEF NoMishap
<1>. QED
  BY <1>0, <1>1, <1>2, <1>3, <1>6, <1>7, <1>h, LinkedCreateStep

\* The path is there, and not listed yet.
LEMMA LinkedAddEntry ==
  ASSUME OneThread, TreeInv, NEW t \in Threads, AddEntry(t)
  PROVE  LinkedInv'
<1>0. thread[t].pc = "add_entry"
  BY DEF AddEntry, At
<1>1. CASE table = Absent
  <2>1. Segfault
    BY <1>1 DEF AddEntry
  <2>. QED
    BY <1>0, <2>1, LinkedSegfault DEF Still
<1>2. CASE table # Absent
  <2>1. PICK th, i, p, h, g, listed, none :
          /\ th = thread'[t] /\ i = thread[t].ino /\ p = thread[t].path /\ h = hash
          /\ g = memcached_set(h, p, i) /\ listed = DOMAIN g \ {p} /\ none = {}
    OBVIOUS
  <2>2. /\ hash' = g
        /\ thread' = [thread EXCEPT ![t].pc = "set_table", ![t].tbl = table]
        /\ UNCHANGED <<server, phase, bounds>>
    BY <1>2, <2>1 DEF AddEntry
  <2>h. /\ phase # "down" /\ MemoryOK /\ IsFiniteSet(DOMAIN hash)
        /\ DOMAIN hash \subseteq Paths
        /\ thread[t] \in Thread /\ t \in DOMAIN thread /\ SyncAt(t)
        /\ NoMishap =>
             /\ crashes = 0
             /\ Named(PersistedBy(thread[t]), Gone(thread[t]), More(thread[t]))
             /\ Linked(hash, Listed(thread[t]), Uncounted(thread[t]), Freed(thread[t]))
             /\ InDir(thread[t])
    BY <1>0, LinkedHere
  <2>3. th.pc = "set_table" /\ th.path = p /\ p \in Paths
    BY <2>1, <2>2, <2>h DEF Thread
  <2>4. p \notin DOMAIN h
    BY <1>0, <2>1, <2>h DEF SyncAt, NewPathPcs
  <2>5. UNCHANGED <<inodes, links, crashes, faults>> /\ phase' # "down"
    BY <2>2, <2>h DEF server, bounds
  <2>6. NoMishap => Named(h, {}, {i}) /\ Linked(h, DOMAIN h, {}, {})
    BY <1>0, <2>1, <2>h DEF PersistedBy, Gone, More, Listed, Uncounted, Freed
  <2>7. NoMishap => i \notin DOMAIN links
    BY <2>1, <2>6, <2>h, NewNameHasNoLinks
  <2>8. NoMishap => (p # Root => IsDir(h, get_parent_directory(p)))
    BY <1>0, <2>1, <2>h DEF InDir, CreatePcs, NewPathPcs
  <2>9. NoMishap => Linked(g, listed, {}, {})
    BY <2>1, <2>3, <2>4, <2>6, <2>7, <2>8, <2>h, LinkedAddPath
  <2>10. NoMishap => Linked(g, listed, none, none)'
    BY <2>1, <2>5, <2>9, LinkedStays
  <2>11. listed = Listed(th)' /\ none = Uncounted(th) /\ none = Freed(th) /\ InDir(th)'
    BY <2>1, <2>2, <2>3 DEF Listed, Uncounted, Freed, InDir, CreatePcs, NewPathPcs, FreshPcs
  <2>12. NoMishap' => NoMishap
    BY <2>5 DEF NoMishap
  <2>. QED
    BY <2>1, <2>2, <2>5, <2>10, <2>11, <2>12, LinkedMove
<1>. QED
  BY <1>1, <1>2

\* A path in the table still has to be listed by its directory.
LEMMA LinkedSetTable ==
  ASSUME OneThread, TreeInv, NEW t \in Threads, SetTable(t)
  PROVE  LinkedInv'
<1>0. thread[t].pc = "set_table" /\ UNCHANGED <<hash, inodes, links, crashes, faults>>
  BY DEF SetTable, At, bounds
<1>1. PICK th, p, h, listed, none :
        /\ th = thread'[t] /\ p = thread[t].path /\ h = hash /\ none = {}
        /\ listed = Listed(th)'
  OBVIOUS
<1>h. /\ phase # "down" /\ TypeInv /\ SyncAt(t)
      /\ NoMishap =>
           Linked(hash, Listed(thread[t]), Uncounted(thread[t]), Freed(thread[t]))
  BY <1>0, LinkedHere
<1>2. NoMishap => Linked(h, DOMAIN h \ {p}, {}, {})
  BY <1>0, <1>1, <1>h DEF Listed, Uncounted, Freed
<1>p. p \in DOMAIN h
  BY <1>0, <1>1, <1>h DEF SyncAt
<1>3. CASE p = Root
  <2>1. th.pc = "idle" /\ phase' # "down"
    BY <1>1, <1>3, <1>h, ReturnFields DEF SetTable
  <2>2. listed = DOMAIN h /\ none = Uncounted(th) /\ none = Freed(th) /\ InDir(th)'
    BY <1>0, <1>1, <2>1 DEF Listed, Uncounted, Freed, InDir, CreatePcs, NewPathPcs, FreshPcs
  <2>3. NoMishap => Linked(h, listed, {}, {})
    BY <1>2, <1>3, <2>2, LinkedRoot
  <2>4. NoMishap => Linked(h, listed, none, none)'
    BY <1>0, <1>1, <2>3, LinkedStays
  <2>5. NoMishap' => NoMishap
    BY <1>0 DEF NoMishap
  <2>. QED
    BY <1>0, <1>1, <2>1, <2>2, <2>4, <2>5, LinkedMove
<1>4. CASE p # Root
  <2>1. th.pc = "add_link" /\ th.path = p /\ phase' # "down"
    BY <1>1, <1>4, <1>h, GotoFields DEF SetTable
  <2>2. listed = DOMAIN h \ {p} /\ none = Uncounted(th) /\ none = Freed(th)
    BY <1>0, <1>1, <2>1 DEF Listed, Uncounted, Freed
  <2>3. InDir(th)'
    BY <1>0, <1>1, <1>p, <2>1 DEF InDir, CreatePcs, NewPathPcs, FreshPcs
  <2>4. NoMishap => Linked(h, listed, none, none)'
    BY <1>0, <1>1, <1>2, <2>2, LinkedStays
  <2>5. NoMishap' => NoMishap
    BY <1>0 DEF NoMishap
  <2>. QED
    BY <1>0, <1>1, <2>1, <2>2, <2>3, <2>4, <2>5, LinkedMove
<1>. QED
  BY <1>3, <1>4

\* The directory lists its new child.
LEMMA LinkedAddLink ==
  ASSUME OneThread, TreeInv, NEW t \in Threads, AddLink(t)
  PROVE  LinkedInv'
<1>0. thread[t].pc = "add_link" /\ UNCHANGED <<hash, inodes, crashes, faults, phase>>
  BY DEF AddLink, At, bounds
<1>1. PICK th, p, h, d, lnks, listed, uncounted, none :
        /\ th = thread'[t] /\ p = thread[t].path /\ h = hash
        /\ d = get_parent_directory(p)
        /\ lnks = (IF h[d] \in DOMAIN links THEN links[h[d]] ELSE Absent)
        /\ listed = DOMAIN h /\ uncounted = {d} /\ none = {}
  OBVIOUS
<1>h. /\ phase # "down" /\ MemoryOK /\ TypeInv /\ IsFiniteSet(DOMAIN hash)
      /\ DOMAIN hash \subseteq Paths /\ WellFormed(thread[t])
      /\ NoMishap =>
           /\ crashes = 0
           /\ Named(PersistedBy(thread[t]), Gone(thread[t]), More(thread[t]))
           /\ Linked(hash, Listed(thread[t]), Uncounted(thread[t]), Freed(thread[t]))
           /\ InDir(thread[t])
  BY <1>0, LinkedHere
<1>2. th.pc = "count_link" /\ th.path = p
  BY <1>1, <1>h, GotoFields DEF AddLink
<1>3. NoMishap => /\ p \in DOMAIN h /\ Named(h, {}, {})
                  /\ Linked(h, DOMAIN h \ {p}, {}, {})
  BY <1>0, <1>1, <1>h
  DEF InDir, PersistedBy, Gone, More, Listed, Uncounted, Freed
<1>4. p # Root
  BY <1>0, <1>1, <1>h DEF WellFormed
<1>5. NoMishap => IsDir(h, d)
  BY <1>1, <1>3, <1>4 DEF Linked, Parents
<1>6. NoMishap => \A e \in DOMAIN h : h[e] = h[d] => e = d
  BY <1>1, <1>3, <1>5, <1>h, DirHasOnePath
<1>7. NoMishap => links' = memcached_set(links, h[d], add_link(lnks, get_name_from_path(p)))
  BY <1>1, <1>5 DEF AddLink, hashable_get_entry, IsDir
<1>8. NoMishap => Linked(h, DOMAIN h, {d}, {})'
  BY <1>0, <1>1, <1>3, <1>4, <1>6, <1>7, <1>h, LinkedAddName
<1>9. NoMishap => Linked(h, listed, uncounted, none)'
  BY <1>1, <1>8
<1>10. listed = Listed(th)' /\ uncounted = Uncounted(th) /\ none = Freed(th)
  BY <1>0, <1>1, <1>2 DEF Listed, Uncounted, Freed
<1>11. NoMishap => InDir(th)'
  BY <1>0, <1>1, <1>2, <1>3 DEF InDir, CreatePcs, NewPathPcs, FreshPcs
<1>12. NoMishap' => NoMishap
  BY <1>0 DEF NoMishap
<1>. QED
  BY <1>0, <1>1, <1>h, <1>9, <1>10, <1>11, <1>12, LinkedMove

\* After it the directory knows that it has links.
LEMMA LinkedCountLink ==
  ASSUME OneThread, TreeInv, NEW t \in Threads, CountLink(t)
  PROVE  LinkedInv'
<1>0. thread[t].pc = "count_link"
  BY DEF CountLink, At
<1>1. PICK th, p, h, d, listed, none :
        /\ th = thread'[t] /\ p = thread[t].path /\ h = hash
        /\ d = get_parent_directory(p) /\ listed = DOMAIN h /\ none = {}
  OBVIOUS
<1>h. /\ phase # "down" /\ MemoryOK /\ TypeInv /\ WellFormed(thread[t])
      /\ NoMishap =>
           /\ Linked(hash, Listed(thread[t]), Uncounted(thread[t]), Freed(thread[t]))
           /\ InDir(thread[t])
  BY <1>0, LinkedHere
<1>2. NoMishap => /\ p \in DOMAIN h /\ Linked(h, DOMAIN h, {d}, {})
  BY <1>0, <1>1, <1>h DEF InDir, Listed, Uncounted, Freed
<1>3. p # Root
  BY <1>0, <1>1, <1>h DEF WellFormed
<1>4. NoMishap => IsDir(h, d) /\ hashable_get_entry(d) = h[d]
  BY <1>1, <1>2, <1>3 DEF Linked, Parents, IsDir, hashable_get_entry
<1>5. CASE Segfault
  <2>1. CASE NoMishap
    <3>1. /\ h[d] \in DOMAIN inodes /\ phase' = "down"
      BY <1>4, <1>5, <2>1 DEF IsDir, Segfault, Die
    <3>2. phase' = phase
      BY <1>1, <1>4, <2>1, <3>1 DEF CountLink
    <3>. QED
      BY <1>h, <3>1, <3>2
  <2>2. CASE ~ NoMishap
    BY <1>0, <1>5, <2>2, LinkedSegfault
  <2>. QED
    BY <2>1, <2>2
<1>6. CASE ~ Segfault
  <2>1. /\ inodes' = [inodes EXCEPT ![hashable_get_entry(d)].blocks = TRUE] /\ Return(t)
        /\ UNCHANGED <<table, inode_value, links, hash, phase, bounds>>
    BY <1>1, <1>6 DEF CountLink
  <2>2. th.pc = "idle" /\ UNCHANGED <<hash, links, phase, crashes, faults>>
    BY <1>1, <1>h, <2>1, ReturnFields DEF bounds
  <2>3. NoMishap => Linked(h, DOMAIN h, {}, {})'
    BY <1>2, <1>4, <1>h, <2>1, LinkedCounted
  <2>4. NoMishap => Linked(h, listed, none, none)'
    BY <1>1, <2>3
  <2>5. listed = Listed(th)' /\ none = Uncounted(th) /\ none = Freed(th) /\ InDir(th)'
    BY <1>1, <2>2
    DEF Listed, Uncounted, Freed, InDir, CreatePcs, NewPathPcs, FreshPcs
  <2>6. NoMishap' => NoMishap
    BY <2>2 DEF NoMishap
  <2>. QED
    BY <1>1, <1>h, <2>2, <2>4, <2>5, <2>6, LinkedMove
<1>. QED
  BY <1>5, <1>6

-----------------------------------------------------------------------------
(* The steps of delete_inode.                                              *)

\* Reading the table changes no tree.
LEMMA LinkedGetTable ==
  ASSUME OneThread, TreeInv, NEW t \in Threads, GetTable(t)
  PROVE  LinkedInv'
<1>0. thread[t].pc = "get_table" /\ Still(thread[t])
  BY DEF GetTable, At, Still
<1>h. /\ phase # "down" /\ thread[t] \in Thread /\ t \in DOMAIN thread
      /\ NoMishap => InDir(thread[t])
  BY <1>0, LinkedHere
<1>1. CASE Segfault
  BY <1>0, <1>1, LinkedSegfault
<1>2. CASE /\ thread' = [thread EXCEPT ![t].pc = "set_shorter_table", ![t].tbl = table]
           /\ UNCHANGED <<server, hash, phase, bounds>>
  <2>1. PICK th : th = thread'[t]
    OBVIOUS
  <2>2. th.pc = "set_shorter_table" /\ th.path = thread[t].path
    BY <1>h, <1>2, <2>1 DEF Thread
  <2>3. UNCHANGED <<hash, inodes, links, crashes, faults, phase>> /\ Still(th)
    BY <1>2, <2>2 DEF server, bounds, Still
  <2>4. NoMishap => InDir(th)'
    BY <1>0, <1>h, <2>2, <2>3 DEF InDir, IsLeaf, CreatePcs, NewPathPcs, FreshPcs
  <2>5. DirsStay(hash) /\ (NoMishap' => NoMishap)
    BY <2>3, DirsStayAsIs DEF NoMishap
  <2>. QED
    BY <1>0, <1>h, <2>1, <2>3, <2>4, <2>5, LinkedStillStep
<1>. QED
  BY <1>1, <1>2 DEF GetTable

\* A path cut from the table is still listed by its directory.
LEMMA LinkedSetShorterTable ==
  ASSUME OneThread, TreeInv, NEW t \in Threads, SetShorterTable(t)
  PROVE  LinkedInv'
<1>0. thread[t].pc = "set_shorter_table" /\ Still(thread[t])
  BY DEF SetShorterTable, At, Still
<1>h. /\ phase # "down" /\ TypeInv /\ (NoMishap => InDir(thread[t]))
  BY <1>0, LinkedHere
<1>1. CASE Segfault
  BY <1>0, <1>1, LinkedSegfault
<1>2. CASE /\ Goto(t, "remove_entry")
           /\ UNCHANGED <<inode_value, inodes, links, hash, phase, bounds>>
  <2>1. PICK th : th = thread'[t]
    OBVIOUS
  <2>2. th.pc = "remove_entry" /\ th.path = thread[t].path
    BY <1>h, <1>2, <2>1, GotoFields
  <2>3. UNCHANGED <<hash, inodes, links, crashes, faults, phase>> /\ Still(th)
    BY <1>2, <2>2 DEF bounds, Still
  <2>4. NoMishap => InDir(th)'
    BY <1>0, <1>h, <2>2, <2>3 DEF InDir, IsLeaf, CreatePcs, NewPathPcs, FreshPcs
  <2>5. DirsStay(hash) /\ (NoMishap' => NoMishap)
    BY <2>3, DirsStayAsIs DEF NoMishap
  <2>. QED
    BY <1>0, <1>h, <2>1, <2>3, <2>4, <2>5, LinkedStillStep
<1>. QED
  BY <1>1, <1>2 DEF SetShorterTable

\* The path is gone, and still listed.
LEMMA LinkedRemoveEntry ==
  ASSUME OneThread, TreeInv, NEW t \in Threads, RemoveEntry(t)
  PROVE  LinkedInv'
<1>0. thread[t].pc = "remove_entry"
  BY DEF RemoveEntry, At
<1>1. PICK th, p, h, d, g, i, attr, listed, none :
        /\ th = thread'[t] /\ p = thread[t].path /\ h = hash
        /\ d = get_parent_directory(p) /\ g = Without(h, p)
        /\ i = hashable_get_entry(p) /\ attr = inodes[i]
        /\ listed = DOMAIN g \cup {p} /\ none = {}
  OBVIOUS
<1>h. /\ phase # "down" /\ MemoryOK /\ WellFormed(thread[t])
      /\ thread[t] \in Thread /\ t \in DOMAIN thread /\ DOMAIN hash \subseteq Paths
      /\ NoMishap =>
           /\ Named(PersistedBy(thread[t]), Gone(thread[t]), More(thread[t]))
           /\ OnFile(thread[t])
           /\ Linked(hash, Listed(thread[t]), Uncounted(thread[t]), Freed(thread[t]))
           /\ InDir(thread[t])
  BY <1>0, LinkedHere
<1>2. NoMishap => /\ p \in DOMAIN h /\ i = h[p]
                  /\ \A q \in DOMAIN h : ~ IsChild(q, p)
                  /\ Linked(h, DOMAIN h, {}, {})
  BY <1>0, <1>1, <1>h
  DEF OnFile, InDir, IsLeaf, Listed, Uncounted, Freed, hashable_get_entry
<1>3. NoMishap => i \in DOMAIN inodes
  BY <1>0, <1>1, <1>2, <1>h DEF Named, More
<1>p. p \in Paths /\ p # Root
  BY <1>0, <1>1, <1>h DEF Thread, WellFormed
<1>4. CASE i \notin DOMAIN inodes
  <2>1. Segfault
    BY <1>1, <1>4 DEF RemoveEntry
  <2>. QED
    BY <1>0, <1>3, <1>4, <2>1, LinkedSegfault
<1>5. CASE i \in DOMAIN inodes
  <2>. DEFINE next == IF attr.kind = "reg" /\ attr.nlink > 1
                      THEN "decrement_nlink" ELSE "delete_blocks"
  <2>1. /\ hash' = memcached_delete(hash, p)
        /\ thread' = [thread EXCEPT ![t].pc = next, ![t].ino = i, ![t].attr = attr]
        /\ UNCHANGED <<server, phase, bounds>>
    BY <1>1, <1>5 DEF RemoveEntry
  <2>2. th.pc = next /\ th.ino = i /\ th.attr = attr /\ th.path = p
    BY <1>1, <1>h, <2>1 DEF Thread
  <2>3. UNCHANGED <<inodes, links, crashes, faults, phase>>
    BY <2>1 DEF server, bounds
  <2>4. hash' = g
    BY <1>1, <2>1 DEF Without, memcached_delete
  <2>5. PICK freed : freed = Freed(th)
    OBVIOUS
  <2>6. /\ freed \subseteq {i}
        /\ IsDir(h, p) /\ inodes[i].blocks /\ i = h[p] => freed = {i}
    BY <1>1, <2>2, <2>5 DEF Freed, IsDir
  <2>7. NoMishap => Linked(g, listed, {}, freed)
    BY <1>1, <1>2, <2>6, LinkedRemovePath
  <2>8. NoMishap => Linked(g, listed, none, freed)'
    BY <1>1, <2>3, <2>7, LinkedStays
  <2>9. listed = Listed(th)' /\ none = Uncounted(th)
    BY <1>1, <2>2, <2>4 DEF Listed, Uncounted
  <2>w. DOMAIN g = DOMAIN h \ {p} /\ \A q \in DOMAIN h \ {p} : g[q] = h[q]
    <3>1. /\ DOMAIN Without(h, p) = DOMAIN h \ {p}
          /\ \A q \in DOMAIN h \ {p} : Without(h, p)[q] = h[q]
      BY WithoutProperties
    <3>2. g = Without(h, p)
      BY <1>1
    <3>. QED
      BY <3>1, <3>2
  <2>10. NoMishap => IsDir(h, d) /\ d # p
    BY <1>1, <1>2, <1>p, ChildIsLonger DEF Linked, Parents, IsChild
  <2>11. NoMishap => InDir(th)'
    <3>. SUFFICES ASSUME NoMishap PROVE InDir(th)'
      OBVIOUS
    <3>1. p \notin DOMAIN hash' /\ IsLeaf(p)'
      BY <1>2, <2>4, <2>w DEF IsLeaf
    <3>2. IsDir(hash, d)'
      BY <2>3, <2>4, <2>w, <2>10 DEF IsDir
    <3>3. th.pc \in {"decrement_nlink", "delete_blocks"}
      BY <2>2
    <3>. QED
      BY <1>1, <2>2, <3>1, <3>2, <3>3 DEF InDir, CreatePcs, NewPathPcs, FreshPcs
  <2>12. (NoMishap' => NoMishap) /\ phase' # "down"
    BY <1>h, <2>3 DEF NoMishap
  <2>. HIDE DEF next
  <2>. QED
    BY <1>1, <2>4, <2>5, <2>8, <2>9, <2>11, <2>12, LinkedMove
<1>. QED
  BY <1>4, <1>5

\* A step of delete_inode after the path is gone, with the links as they are.
LEMMA LinkedDeleteStep ==
  ASSUME OneThread, TreeInv, NEW t \in Threads, NEW th, thread'[t] = th,
         thread[t].pc \in {"decrement_nlink", "delete_blocks", "delete_inode"},
         th.pc \in {"delete_inode", "remove_link"}, th.path = thread[t].path,
         UNCHANGED <<hash, phase>>, NEW h, h = hash, NEW listed,
         listed = DOMAIN hash \cup {th.path},
         NoMishap' => NoMishap /\ DirsStay(hash) /\ Linked(h, listed, {}, {})'
  PROVE  LinkedInv'
<1>1. PICK none : none = {}
  OBVIOUS
<1>2. listed = Listed(th)' /\ none = Uncounted(th) /\ none = Freed(th)
  BY <1>1 DEF Listed, Uncounted, Freed
<1>3. NoMishap' => InDir(th)'
  <2>. SUFFICES ASSUME NoMishap' PROVE InDir(th)'
    OBVIOUS
  <2>1. /\ th.path \notin DOMAIN hash /\ IsLeaf(th.path)
        /\ IsDir(hash, get_parent_directory(th.path))
    BY LinkedHere DEF InDir
  <2>2. IsDir(hash, get_parent_directory(th.path))' /\ IsLeaf(th.path)'
    BY <2>1 DEF DirsStay, IsDir, IsLeaf
  <2>. QED
    BY <2>1, <2>2 DEF InDir, CreatePcs, NewPathPcs, FreshPcs
<1>4. phase' # "down"
  BY LinkedHere
<1>. QED
  BY <1>1, <1>2, <1>3, <1>4, LinkedMove

\* A lower link count changes no tree.
LEMMA LinkedDecrementNlink ==
  ASSUME OneThread, TreeInv, NEW t \in Threads, DecrementNlink(t)
  PROVE  LinkedInv'
<1>0. thread[t].pc = "decrement_nlink" /\ UNCHANGED <<hash, links, crashes, faults, phase>>
  BY DEF DecrementNlink, At, bounds
<1>1. PICK th, h, i, attr, listed :
        /\ th = thread'[t] /\ h = hash /\ i = thread[t].ino
        /\ attr = [thread[t].attr EXCEPT !.nlink = @ - 1]
        /\ listed = DOMAIN hash \cup {thread[t].path}
  OBVIOUS
<1>h. /\ TypeInv
      /\ NoMishap =>
           /\ OnFile(thread[t])
           /\ Linked(hash, Listed(thread[t]), Uncounted(thread[t]), Freed(thread[t]))
  BY <1>0, LinkedHere
<1>2. th.pc = "remove_link" /\ th.path = thread[t].path
  BY <1>1, <1>h, GotoFields DEF DecrementNlink
<1>3. inodes' = memcached_set(inodes, i, attr)
  BY <1>1 DEF DecrementNlink
<1>4. NoMishap => i \in DOMAIN inodes /\ inodes[i].kind = "reg"
  BY <1>0, <1>1, <1>h DEF OnFile
<1>5. NoMishap => DirsStay(hash) /\ DirsStay(h)
  BY <1>3, <1>4, DirsStayOverReg
<1>6. NoMishap => Linked(h, listed, {}, {})
  BY <1>0, <1>1, <1>h DEF Listed, Uncounted, Freed
<1>7. NoMishap => Linked(h, listed, {}, {})'
  <2>. SUFFICES ASSUME NoMishap PROVE Linked(h, listed, {}, {})'
    OBVIOUS
  <2>1. \A e \in DOMAIN h : IsDir(h, e) =>
          IsDir(h, e)' /\ (inodes[h[e]].blocks => inodes'[h[e]].blocks)
    BY <1>5 DEF DirsStay, IsDir
  <2>. QED
    BY <1>0, <1>6, <2>1, LinkedDirsStay
<1>8. NoMishap' => NoMishap
  BY <1>0 DEF NoMishap
<1>. QED
  BY <1>0, <1>1, <1>2, <1>5, <1>7, <1>8, LinkedDeleteStep

\* The links that lost their directory are deleted.
LEMMA LinkedDeleteBlocks ==
  ASSUME OneThread, TreeInv, NEW t \in Threads, DeleteBlocks(t)
  PROVE  LinkedInv'
<1>0. thread[t].pc = "delete_blocks" /\ UNCHANGED <<hash, inodes, crashes, faults, phase>>
  BY DEF DeleteBlocks, At, bounds
<1>1. PICK th, h, i, listed :
        /\ th = thread'[t] /\ h = hash /\ i = thread[t].ino
        /\ listed = DOMAIN hash \cup {thread[t].path}
  OBVIOUS
<1>h. /\ TypeInv
      /\ NoMishap =>
           /\ Named(PersistedBy(thread[t]), Gone(thread[t]), More(thread[t]))
           /\ Linked(hash, Listed(thread[t]), Uncounted(thread[t]), Freed(thread[t]))
  BY <1>0, LinkedHere
<1>2. th.pc = "delete_inode" /\ th.path = thread[t].path
  BY <1>1, <1>h, GotoFields DEF DeleteBlocks
<1>3. NoMishap => NamesOf(h, i) = {}
  BY <1>0, <1>1, <1>h DEF PersistedBy, Gone, More, Named, NamesOf
<1>4. NoMishap => Linked(h, listed, {}, {})'
  <2>. SUFFICES ASSUME NoMishap PROVE Linked(h, listed, {}, {})'
    OBVIOUS
  <2>1. CASE thread[t].attr.blocks
    <3>1. Linked(h, listed, {}, {i}) /\ links' = memcached_delete(links, i)
      BY <1>0, <1>1, <1>h, <2>1 DEF Listed, Uncounted, Freed, DeleteBlocks
    <3>. QED
      BY <1>0, <1>3, <3>1, LinkedFree
  <2>2. CASE ~ thread[t].attr.blocks
    <3>1. Linked(h, listed, {}, {}) /\ links' = links
      BY <1>0, <1>1, <1>h, <2>2 DEF Listed, Uncounted, Freed, DeleteBlocks
    <3>. QED
      BY <1>0, <3>1, LinkedStays
  <2>. QED
    BY <2>1, <2>2
<1>5. DirsStay(hash) /\ (NoMishap' => NoMishap)
  BY <1>0, DirsStayAsIs DEF NoMishap
<1>. QED
  BY <1>0, <1>1, <1>2, <1>4, <1>5, LinkedDeleteStep

\* The inode that is deleted has no path.
LEMMA LinkedDeleteInode ==
  ASSUME OneThread, TreeInv, NEW t \in Threads, DeleteInode(t)
  PROVE  LinkedInv'
<1>0. thread[t].pc = "delete_inode" /\ UNCHANGED <<hash, links, crashes, faults, phase>>
  BY DEF DeleteInode, At, bounds
<1>1. PICK th, h, i, listed :
        /\ th = thread'[t] /\ h = hash /\ i = thread[t].ino
        /\ listed = DOMAIN hash \cup {thread[t].path}
  OBVIOUS
<1>h. /\ TypeInv
      /\ NoMishap =>
           /\ Named(PersistedBy(thread[t]), Gone(thread[t]), More(thread[t]))
           /\ Linked(hash, Listed(thread[t]), Uncounted(thread[t]), Freed(thread[t]))
  BY <1>0, LinkedHere
<1>2. th.pc = "remove_link" /\ th.path = thread[t].path
  BY <1>1, <1>h, GotoFields DEF DeleteInode
<1>3. NoMishap => \A e \in DOMAIN h : h[e] # i
  BY <1>0, <1>1, <1>h DEF PersistedBy, Gone, More, Named, NamesOf
<1>4. \A j \in DOMAIN inodes : j # i => j \in DOMAIN inodes' /\ inodes'[j] = inodes[j]
  BY <1>1 DEF DeleteInode, memcached_delete, Restrict
<1>5. NoMishap => DirsStay(hash) /\ DirsStay(h)
  BY <1>1, <1>3, <1>4 DEF DirsStay, IsDir
<1>6. NoMishap => Linked(h, listed, {}, {})
  BY <1>0, <1>1, <1>h DEF Listed, Uncounted, Freed
<1>7. NoMishap => Linked(h, listed, {}, {})'
  <2>. SUFFICES ASSUME NoMishap PROVE Linked(h, listed, {}, {})'
    OBVIOUS
  <2>1. \A e \in DOMAIN h : IsDir(h, e) =>
          IsDir(h, e)' /\ (inodes[h[e]].blocks => inodes'[h[e]].blocks)
    BY <1>5 DEF DirsStay, IsDir
  <2>. QED
    BY <1>0, <1>6, <2>1, LinkedDirsStay
<1>8. NoMishap' => NoMishap
  BY <1>0 DEF NoMishap
<1>. QED
  BY <1>0, <1>1, <1>2, <1>5, <1>7, <1>8, LinkedDeleteStep

\* The directory no longer lists the path; the name is always found.
LEMMA LinkedRemoveLink ==
  ASSUME OneThread, TreeInv, NEW t \in Threads, RemoveLink(t)
  PROVE  LinkedInv'
<1>0. thread[t].pc = "remove_link"
  BY DEF RemoveLink, At
<1>1. PICK th, p, h, d, new, listed, none :
        /\ th = thread'[t] /\ p = thread[t].path /\ h = hash
        /\ d = get_parent_directory(p)
        /\ new = remove_link(links[h[d]], get_name_from_path(p))
        /\ listed = DOMAIN h /\ none = {}
  OBVIOUS
<1>h. /\ phase # "down" /\ MemoryOK /\ TypeInv /\ IsFiniteSet(DOMAIN hash)
      /\ WellFormed(thread[t]) /\ thread[t] \in Thread /\ DOMAIN hash \subseteq Paths
      /\ NoMishap =>
           /\ crashes = 0
           /\ Named(PersistedBy(thread[t]), Gone(thread[t]), More(thread[t]))
           /\ Linked(hash, Listed(thread[t]), Uncounted(thread[t]), Freed(thread[t]))
           /\ InDir(thread[t])
  BY <1>0, LinkedHere
<1>p. p \in Paths /\ p # Root
  BY <1>0, <1>1, <1>h DEF Thread, WellFormed
<1>2. NoMishap => /\ p \notin DOMAIN h /\ IsDir(h, d) /\ Named(h, {}, {})
                  /\ Linked(h, DOMAIN h \cup {p}, {}, {})
  BY <1>0, <1>1, <1>h
  DEF InDir, PersistedBy, Gone, More, Listed, Uncounted, Freed
<1>3. NoMishap => \A e \in DOMAIN h : h[e] = h[d] => e = d
  BY <1>1, <1>2, <1>h, DirHasOnePath
<1>4. NoMishap => hashable_get_entry(d) = h[d]
  BY <1>1, <1>2 DEF hashable_get_entry, IsDir
<1>5. NoMishap =>
        /\ h[d] \in DOMAIN links /\ new # Absent
        /\ links' = memcached_set(links, h[d], new) /\ inodes' = inodes =>
             Linked(h, DOMAIN h, {}, {})'
  BY <1>1, <1>2, <1>3, <1>h, <1>p, LinkedRemoveName
<1>6. CASE ~ NoMishap
  <2>1. CASE Segfault
    BY <1>0, <1>6, <2>1, LinkedSegfault
  <2>2. CASE Return(t) /\ UNCHANGED <<inodes, hash, phase, bounds>>
    BY <1>1, <1>6, <1>h, <2>2, LinkedMove DEF bounds, NoMishap
  <2>. QED
    BY <2>1, <2>2 DEF RemoveLink, server
<1>7. CASE NoMishap
  <2>1. /\ links' = memcached_set(links, h[d], new) /\ Return(t)
        /\ UNCHANGED <<table, inode_value, inodes, hash, phase, bounds>>
    BY <1>1, <1>4, <1>5, <1>7 DEF RemoveLink
  <2>2. th.pc = "idle"
    BY <1>1, <1>h, <2>1, ReturnFields
  <2>3. Linked(h, listed, none, none)'
    BY <1>1, <1>5, <1>7, <2>1
  <2>4. listed = Listed(th)' /\ none = Uncounted(th) /\ none = Freed(th) /\ InDir(th)'
    BY <1>1, <2>1, <2>2
    DEF Listed, Uncounted, Freed, InDir, CreatePcs, NewPathPcs, FreshPcs
  <2>5. phase' # "down" /\ h = hash'
    BY <1>1, <1>h, <2>1
  <2>. QED
    BY <1>1, <2>3, <2>4, <2>5, LinkedMove
<1>. QED
  BY <1>6, <1>7

-----------------------------------------------------------------------------
(* The entry of a handler, the mount and the ends of the process.          *)

\* Entering a handler changes no tree,
LEMMA LinkedEnter ==
  ASSUME OneThread, TreeInv, NEW t \in Threads, NEW th, Enter(t, th),
         th.pc \in {"get_inode_value", "get_link_target", "get_table"},
         NoMishap => InDir(th)
  PROVE  LinkedInv'
<1>1. /\ phase = "up" /\ thread[t].pc = "idle" /\ thread \in [Threads -> Thread]
      /\ thread' = [thread EXCEPT ![t] = th] /\ UNCHANGED <<server, hash, phase, bounds>>
  BY TypeInvParts DEF Enter, At, TreeInv, NamesInv, IInv
<1>2. /\ thread'[t] = th /\ phase' # "down"
      /\ UNCHANGED <<hash, inodes, links, crashes, faults>>
  BY <1>1 DEF server, bounds
<1>3. Still(thread[t]) /\ Still(th)
  BY <1>1 DEF Still
<1>4. (NoMishap' => NoMishap) /\ DirsStay(hash)
  BY <1>2, DirsStayAsIs DEF NoMishap
<1>5. NoMishap => InDir(th)'
  BY <1>2 DEF InDir, IsLeaf, IsDir
<1>. QED
  BY <1>1, <1>2, <1>3, <1>4, <1>5, LinkedStillStep

\* What holds of the paths when a handler may enter.
LEMMA LinkedAtEntry ==
  ASSUME TreeInv, NEW t \in Threads, NEW th, Enter(t, th), NoMishap
  PROVE  /\ Linked(hash, DOMAIN hash, {}, {}) /\ DOMAIN hash \subseteq Paths
         /\ \A p \in DOMAIN hash : hash[p] \in DOMAIN inodes
<1>1. phase # "down" /\ thread[t].pc = "idle"
  BY DEF Enter, At
<1>2. Still(thread[t]) /\ Plain(thread[t])
  BY <1>1 DEF Still, Plain
<1>3. Linked(hash, DOMAIN hash, {}, {}) /\ DOMAIN hash \subseteq Paths
  BY <1>1, <1>2, LinkedHere, StillParts
<1>4. Named(hash, {}, {})
  BY <1>1, <1>2, LinkedHere, PlainParts
<1>. QED
  BY <1>3, <1>4 DEF Named

\* A path that is free lies in a directory.
LEMMA FreePathInDir ==
  ASSUME NEW p \in Paths, IsFree(p), \A q \in DOMAIN hash : hash[q] \in DOMAIN inodes,
         p # Root
  PROVE  IsDir(hash, get_parent_directory(p))
<1>1. get_parent_directory(p) \in DOMAIN hash
  BY PathParts, PathExists DEF IsFree
<1>. QED
  BY <1>1 DEF IsFree, HasKind, IsDir

\* whichever handler it is.
LEMMA LinkedHandler ==
  ASSUME OneThread, TreeInv, NEW t \in Threads, Handler(t)
  PROVE  LinkedInv'
<1>1. ASSUME NEW p \in Paths, NEW kind \in Kinds, EnterCreate(t, p, kind)
      PROVE  LinkedInv'
  <2>1. PICK th : th = [Idle EXCEPT !.pc = "get_inode_value", !.path = p, !.old = p,
                                    !.kind = kind]
    OBVIOUS
  <2>2. Enter(t, th) /\ th.pc = "get_inode_value" /\ th.path = p
    BY <1>1, <2>1 DEF EnterCreate, Idle
  <2>3. NoMishap => InDir(th)
    <3>1. NoMishap /\ p # Root => IsDir(hash, get_parent_directory(p))
      BY <1>1, <2>2, LinkedAtEntry, FreePathInDir DEF EnterCreate
    <3>. QED
      BY <2>2, <3>1 DEF InDir, CreatePcs, NewPathPcs
  <2>. QED
    BY <2>2, <2>3, LinkedEnter
<1>2. ASSUME NEW p \in Paths, EnterDelete(t, p), NoMishap => IsLeaf(p)
      PROVE  LinkedInv'
  <2>1. PICK th : th = [Idle EXCEPT !.pc = "get_table", !.path = p, !.old = p]
    OBVIOUS
  <2>2. Enter(t, th) /\ th.pc = "get_table" /\ th.path = p
    BY <1>2, <2>1 DEF EnterDelete, Idle
  <2>3. NoMishap => InDir(th)
    BY <1>2, <2>2 DEF InDir, CreatePcs, NewPathPcs, FreshPcs
  <2>. QED
    BY <2>2, <2>3, LinkedEnter
<1>3. ASSUME NEW p \in Paths, memcached_unlink(t, p)
      PROVE  LinkedInv'
  <2>1. ASSUME NoMishap, NEW q \in DOMAIN hash, IsChild(q, p)
        PROVE  FALSE
    <3>1. IsDir(hash, p)
      BY <1>3, <2>1, LinkedAtEntry
      DEF memcached_unlink, EnterDelete, Linked, Parents, IsChild
    <3>. QED
      BY <1>3, <3>1 DEF memcached_unlink, HasKind, IsDir
  <2>. QED
    BY <1>2, <1>3, <2>1 DEF memcached_unlink, IsLeaf
<1>4. ASSUME NEW p \in Paths, memcached_rmdir(t, p)
      PROVE  LinkedInv'
  <2>1. ASSUME NoMishap, NEW q \in DOMAIN hash, IsChild(q, p)
        PROVE  FALSE
    <3>1. Lists(hash, DOMAIN hash)
      BY <1>4, <2>1, LinkedAtEntry DEF memcached_rmdir, EnterDelete, Linked
    <3>2. p \in DOMAIN hash /\ LinksIn(hash, p) = <<>>
      BY <1>4, PathExists DEF memcached_rmdir, LinksIn
    <3>3. <<>> \in Seq(Names)
      OBVIOUS
    <3>4. <<>> # Garbled
      BY <3>3, TextAssumption
    <3>5. ToSet(<<>>) = {}
      BY DEF ToSet
    <3>. QED
      BY <2>1, <3>1, <3>2, <3>4, <3>5 DEF Lists
  <2>. QED
    BY <1>2, <1>4, <2>1 DEF memcached_rmdir, IsLeaf
<1>5. ASSUME NEW old \in Paths, NEW new \in Paths, memcached_link(t, old, new)
      PROVE  LinkedInv'
  <2>1. PICK th : th = [Idle EXCEPT !.pc = "get_link_target", !.path = new, !.old = old]
    OBVIOUS
  <2>2. Enter(t, th) /\ th.pc = "get_link_target" /\ th.path = new
    BY <1>5, <2>1 DEF memcached_link, Idle
  <2>3. NoMishap => InDir(th)
    <3>1. NoMishap /\ new # Root => IsDir(hash, get_parent_directory(new))
      BY <1>5, <2>2, LinkedAtEntry, FreePathInDir DEF memcached_link
    <3>. QED
      BY <2>2, <3>1 DEF InDir, CreatePcs, NewPathPcs
  <2>. QED
    BY <2>2, <2>3, LinkedEnter
<1>. QED
  BY <1>1, <1>3, <1>4, <1>5
  DEF Handler, memcached_mkdir, memcached_create, memcached_symlink, Kinds

\* The mount finds the directories that the links were written for, or none.
LEMMA LinkedMount ==
  ASSUME OneThread, TreeInv, NEW t \in Threads, memcached_init(t)
  PROVE  LinkedInv'
<1>1. /\ phase = "down" /\ thread[t].pc = "idle" /\ MemoryOK
      /\ thread \in [Threads -> Thread]
      /\ crashes' = crashes /\ faults' = faults
  BY TypeInvParts
  DEF memcached_init, TreeInv, NamesInv, IInv, SyncInv, DownInv, bounds
<1>2. CASE table = Absent
  <2>1. PICK th, h, none : th = thread'[t] /\ h = NoFunction /\ none = {}
    OBVIOUS
  <2>2. /\ inodes' = NoFunction /\ links' = NoFunction /\ hash' = h /\ phase' = "init"
        /\ th = [Idle EXCEPT !.pc = "set_empty_table", !.kind = "dir"]
    BY <1>1, <1>2, <2>1 DEF memcached_init
  <2>3. th.pc = "set_empty_table" /\ th.path = Root
    BY <2>2 DEF Idle
  <2>4. DOMAIN h = {} /\ DOMAIN links' = {}
    BY <2>1, <2>2 DEF NoFunction
  <2>5. none = Listed(th)' /\ none = Uncounted(th) /\ none = Freed(th) /\ InDir(th)'
    BY <2>1, <2>2, <2>3, <2>4
    DEF Listed, Uncounted, Freed, InDir, CreatePcs, NewPathPcs, FreshPcs
  <2>6. Linked(h, none, none, none)'
    BY <2>1, <2>4 DEF Linked, Lists, Parents, Keys
  <2>. QED
    BY <2>1, <2>2, <2>5, <2>6, LinkedMove
<1>3. CASE table # Absent
  <2>1. PICK th, h, listed, none :
          /\ th = thread'[t] /\ none = {} /\ listed = EntryPaths(table)
          /\ h = hashtable_string_to_table(table)
    OBVIOUS
  <2>2. /\ hash' = h /\ phase' = "up" /\ UNCHANGED <<server, thread>>
        /\ IsList(table) /\ table \in Seq(Entry)
    BY <1>1, <1>3, <2>1 DEF memcached_init, IsList, MemoryOK
  <2>3. th.pc = "idle" /\ inodes' = inodes /\ links' = links
    BY <1>1, <2>1, <2>2 DEF server
  <2>4. DOMAIN h = listed
    BY <2>1, <2>2, StringToTableType
  <2>5. listed = Listed(th)' /\ none = Uncounted(th) /\ none = Freed(th) /\ InDir(th)'
    BY <2>1, <2>2, <2>3, <2>4
    DEF Listed, Uncounted, Freed, InDir, CreatePcs, NewPathPcs, FreshPcs
  <2>6. NoMishap => Linked(h, listed, none, none)
    BY <1>1, <2>1, <2>2 DEF TreeInv, LinkedInv
  <2>7. NoMishap => Linked(h, listed, none, none)'
    BY <2>3, <2>6, LinkedStays
  <2>8. NoMishap' => NoMishap
    BY <1>1 DEF NoMishap
  <2>. QED
    BY <2>1, <2>2, <2>5, <2>7, <2>8, LinkedMove
<1>. QED
  BY <1>2, <1>3

\* A clean unmount forgets what the table and the links have as well.
LEMMA LinkedDestroy ==
  ASSUME OneThread, TreeInv, memcached_destroy
  PROVE  LinkedInv'
<1>1. PICK t : t \in Threads
  BY NamespaceAssumption
<1>2. phase # "down" /\ thread[t].pc = "idle" /\ Die /\ UNCHANGED <<server, bounds>>
  BY <1>1 DEF memcached_destroy, At
<1>. QED
  BY <1>1, <1>2, LinkedDie DEF Still

\* A kill or a dropped key is a mishap.
LEMMA LinkedMishap ==
  ASSUME TreeInv, Crash \/ Evict
  PROVE  LinkedInv'
<1>1. crashes \in 0..MaxCrashes /\ faults \in 0..MaxFaults
  BY DEF TreeInv, NamesInv, IInv, TypeInv, TypeOK
<1>2. ~ NoMishap'
  BY <1>1, NamespaceAssumption DEF Crash, Evict, NoMishap
<1>. QED
  BY <1>2 DEF LinkedInv

\* A step that changes nothing.
LEMMA LinkedStutter ==
  ASSUME TreeInv, UNCHANGED vars
  PROVE  LinkedInv'
<1>1. UNCHANGED <<table, inodes, links, hash, phase, thread, crashes, faults>>
  BY DEF vars, server, process, bounds
<1>2. NoMishap' => NoMishap
  BY <1>1 DEF NoMishap
<1>3. ASSUME NoMishap, phase = "down", IsList(table)
      PROVE  Linked(hashtable_string_to_table(table), EntryPaths(table), {}, {})'
  <2>1. PICK h, listed, none : /\ h = hashtable_string_to_table(table)
                               /\ listed = EntryPaths(table) /\ none = {}
    OBVIOUS
  <2>2. Linked(h, listed, none, none)'
    BY <1>1, <1>3, <2>1, LinkedStays DEF TreeInv, LinkedInv
  <2>. QED
    BY <1>1, <2>1, <2>2
<1>4. ASSUME NoMishap, phase # "down", NEW t \in Threads
      PROVE  /\ Linked(hash, Listed(thread[t]), Uncounted(thread[t]), Freed(thread[t]))'
             /\ InDir(thread[t])'
  <2>1. PICK th, h, listed, uncounted, freed :
          /\ th = thread[t] /\ h = hash /\ listed = Listed(th)
          /\ uncounted = Uncounted(th) /\ freed = Freed(th)
    OBVIOUS
  <2>2. Linked(h, listed, uncounted, freed)' /\ InDir(th)
    BY <1>1, <1>4, <2>1, LinkedStays DEF TreeInv, LinkedInv
  <2>3. /\ h = hash' /\ listed = Listed(thread[t])' /\ uncounted = Uncounted(thread[t])'
        /\ freed = Freed(thread[t])'
    BY <1>1, <2>1 DEF Listed, Uncounted, Freed
  <2>4. Linked(hash, Listed(thread[t]), Uncounted(thread[t]), Freed(thread[t]))'
    BY <2>2, <2>3 DEF Linked, Lists, LinksIn, Parents, Keys, IsDir
  <2>5. InDir(thread[t])'
    BY <1>1, <2>1, <2>2 DEF InDir, IsLeaf, IsDir
  <2>. QED
    BY <2>4, <2>5
<1>. QED
  BY <1>1, <1>2, <1>3, <1>4 DEF LinkedInv, IsList

\* The invariant of the tree holds at the beginning,
LEMMA TreeInit == Init => TreeInv
<1>. SUFFICES ASSUME Init PROVE TreeInv
  OBVIOUS
<1>1. NamesInv
  BY NamesInit
<1>2. LinkedInv
  BY DEF Init, LinkedInv, IsList
<1>. QED
  BY <1>1, <1>2 DEF TreeInv

\* and after any step.
LEMMA TreeStep == OneThread => (TreeInv /\ [Next]_vars => TreeInv')
<1>. SUFFICES ASSUME OneThread, TreeInv, [Next]_vars
              PROVE  TreeInv'
  OBVIOUS
<1>1. NamesInv'
  BY NamesStep DEF TreeInv
<1>2. ASSUME NEW t \in Threads, Step(t)
      PROVE  LinkedInv'
  BY <1>2, LinkedFirstKeys, LinkedGetInodeValue, LinkedSetInode, LinkedSetInodeValue,
     LinkedAddEntry, LinkedSetTable, LinkedAddLink, LinkedCountLink, LinkedGetTable,
     LinkedSetShorterTable, LinkedRemoveEntry, LinkedDecrementNlink,
     LinkedDeleteBlocks, LinkedDeleteInode, LinkedRemoveLink, LinkedGetLinkTarget,
     LinkedIncrementNlink
  DEF Step
<1>3. LinkedInv'
  BY <1>2, LinkedHandler, LinkedMount, LinkedDestroy, LinkedMishap, LinkedStutter
  DEF Next
<1>. QED
  BY <1>1, <1>3 DEF TreeInv

-----------------------------------------------------------------------------
(* What the invariant says of the name space.                              *)

\* With one worker thread, until a kill or a dropped key, every path lies in a
\* path that exists: memcached_rmdir, which trusts the links of a directory to
\* know whether it is empty, never takes a directory from under its files.
THEOREM NoPathIsOrphan ==
  ASSUME OneThread
  PROVE  Spec => []NoOrphanPath
<1>1. TreeInv => NoOrphanPath
  <2>. SUFFICES ASSUME TreeInv, NoMishap, NEW p \in DOMAIN hash
                PROVE  get_parent_directory(p) \in DOMAIN hash
    BY DEF NoOrphanPath
  <2>1. PICK t : t \in Threads
    BY NamespaceAssumption
  <2>2. CASE phase = "down"
    BY <2>2 DEF TreeInv, NamesInv, IInv, SyncInv, DownInv, NoFunction
  <2>3. CASE phase # "down" /\ p # Root
    BY <2>1, <2>3, LinkedHere DEF Linked, Parents, IsDir
  <2>4. CASE p = Root
    <3>1. get_parent_directory(Root) = Root
      BY DEF get_parent_directory, Root
    <3>. QED
      BY <2>4, <3>1
  <2>. QED
    BY <2>2, <2>3, <2>4
<1>. QED
  BY <1>1, TreeInit, TreeStep, PTL DEF Spec

\* With one worker thread, until a kill or a dropped key, readdir between two
\* handlers lists each child of a directory once and nothing else, unless a
\* removal garbled the text of its links.
THEOREM LinksAreChildren ==
  ASSUME OneThread
  PROVE  Spec => []DirectoriesListChildren
<1>1. TreeInv => DirectoriesListChildren
  <2>. SUFFICES ASSUME TreeInv, Quiet, NoMishap, NEW d \in DOMAIN hash,
                       LinksOf(d) # Garbled
                PROVE  /\ ToSet(LinksOf(d)) = {get_name_from_path(p) : p \in Children(d)}
                       /\ IsInjective(LinksOf(d))
    BY DEF DirectoriesListChildren
  <2>1. PICK t : t \in Threads
    BY NamespaceAssumption
  <2>2. phase # "down" /\ Still(thread[t])
    BY <2>1 DEF Quiet, At, Still
  <2>3. Lists(hash, DOMAIN hash)
    BY <2>1, <2>2, LinkedHere, StillParts DEF Linked
  <2>4. LinksOf(d) = LinksIn(hash, d)
        /\ Children(d) = {q \in DOMAIN hash : IsChild(q, d)}
    BY DEF LinksOf, LinksIn, Children, IsChild
  <2>. QED
    BY <2>3, <2>4 DEF Lists
<1>. QED
  BY <1>1, TreeInit, TreeStep, PTL DEF Spec

\* With one worker thread, until a kill or a dropped key, whoever removes a name
\* from its directory finds the directory's links: the test of main.c:168 that
\* "should always be true" is.
THEOREM LinksAreFound ==
  ASSUME OneThread
  PROVE  Spec => []LinksAreThere
<1>1. TreeInv => LinksAreThere
  <2>. SUFFICES ASSUME TreeInv, NoMishap, NEW t \in Threads, At(t, "remove_link")
                PROVE  hashable_get_entry(get_parent_directory(thread[t].path))
                         \in DOMAIN links
    BY DEF LinksAreThere
  <2>1. PICK p, d : p = thread[t].path /\ d = get_parent_directory(p)
    OBVIOUS
  <2>2. /\ MemoryOK /\ thread[t] \in Thread /\ WellFormed(thread[t])
        /\ Linked(hash, DOMAIN hash \cup {p}, {}, {}) /\ IsDir(hash, d)
    BY <2>1, LinkedHere DEF At, Listed, Uncounted, Freed, InDir
  <2>3. p \in Paths /\ p # Root
    BY <2>1, <2>2 DEF At, Thread, WellFormed
  <2>4. d \in DOMAIN hash
    BY <2>2 DEF IsDir
  <2>5. PICK h : h = hash
    OBVIOUS
  <2>6. Linked(h, DOMAIN h \cup {p}, {}, {}) /\ d \in DOMAIN h
    BY <2>2, <2>4, <2>5
  <2>7. h[d] \in DOMAIN links
    BY <2>1, <2>2, <2>3, <2>6, LinkIsThere
  <2>. QED
    BY <2>1, <2>4, <2>5, <2>7 DEF hashable_get_entry
<1>. QED
  BY <1>1, TreeInit, TreeStep, PTL DEF Spec

\* With one worker thread, until a kill or a dropped key, every key that a file
\* or a directory has in memcached belongs to a path: delete_inode leaves none.
THEOREM NoKeyLeaks ==
  ASSUME OneThread
  PROVE  Spec => []NoLeakedKey
<1>1. TreeInv => NoLeakedKey
  <2>. SUFFICES ASSUME TreeInv, Quiet, NoMishap, NEW i \in DOMAIN inodes \cup DOMAIN links
                PROVE  \E p \in DOMAIN hash : hash[p] = i
    BY DEF NoLeakedKey
  <2>1. PICK t : t \in Threads
    BY NamespaceAssumption
  <2>2. phase # "down" /\ Still(thread[t]) /\ Plain(thread[t])
    BY <2>1 DEF Quiet, At, Still, Plain
  <2>3. /\ IsFiniteSet(DOMAIN hash) /\ Named(hash, {}, {}) /\ crashes = 0
        /\ Keys(hash, {}, {})
    BY <2>1, <2>2, LinkedHere, StillParts, PlainParts DEF Linked
  <2>4. CASE i \in DOMAIN links
    BY <2>3, <2>4 DEF Keys
  <2>5. CASE i \in DOMAIN inodes
    <3>1. Count(hash, i) \in Nat /\ (NamesOf(hash, i) = {} => Count(hash, i) = 0)
      BY <2>3, CountIsNat
    <3>2. Count(hash, i) + 0 >= 1
      BY <2>3, <2>5 DEF Named, Counted
    <3>. QED
      BY <3>1, <3>2 DEF NamesOf
  <2>. QED
    BY <2>4, <2>5
<1>. QED
  BY <1>1, TreeInit, TreeStep, PTL DEF Spec

-----------------------------------------------------------------------------
(* The promise of FileTree.                                                *)

\* A path that a list resolves.
Reached(tbl, p) == \A k \in 0..Len(p) : SubSeq(p, 1, k) \in EntryPaths(tbl)

\* Where a handler makes an inode, and where it links to one.
CreateInodePcs == {"get_inode_value", "set_inode", "set_inode_value", "skip_inode_value"}

LinkPcs == {"get_link_target", "increment_nlink"}

(***************************************************************************)
(* What a thread in state th knows of the persisted tree, from its entry   *)
(* to the step that changes the tree.                                      *)
(***************************************************************************)
Planned(th) ==
  /\ th.path \notin EntryPaths(table)
  /\ phase = "init" => EntryPaths(table) = {} /\ th.path = Root
  /\ phase # "init" => Reached(table, get_parent_directory(th.path))

OldFile(th) ==
  /\ th.old \in Paths /\ Reached(table, th.old)
  /\ th.pc # "get_link_target" => hashtable_string_to_table(table)[th.old] = th.ino

NewFile(th) ==
  /\ th.ino + 1 = inode_value
  /\ IsList(table) => \A j \in DOMAIN table : table[j].ino < th.ino

Work(th) ==
  /\ th.pc = "set_empty_table" => table = Absent
  /\ th.pc = "set_first_value" => table = <<>> /\ inode_value = Absent
  /\ th.pc \in {"set_empty_table", "set_first_value"} =>
       phase = "init" /\ th.path = Root /\ th.old = Root
  /\ th.pc \in CreateInodePcs => th.old = th.path
  /\ phase = "init" /\ th.pc \in {"add_entry", "set_table"} => th.old = th.path
  /\ th.pc \in LinkPcs => th.old # th.path /\ phase = "up"
  /\ th.pc \in {"get_table", "set_shorter_table"} => phase = "up"
  /\ th.pc \in {"set_inode", "set_inode_value"} => th.ino = inode_value
  /\ th.pc \in {"set_table", "set_shorter_table"} => th.tbl = table
  /\ th.pc \in {"add_entry", "set_table"} /\ th.old = th.path => NewFile(th)
  /\ IsList(table) =>
       /\ th.pc \in NewPathPcs \cup {"set_table"} => Planned(th)
       /\ th.pc \in LinkPcs \cup {"add_entry", "set_table"} /\ th.old # th.path => OldFile(th)
       /\ th.pc \in {"get_table", "set_shorter_table"} => Reached(table, th.path)

WorkInv ==
  faults = 0 =>
    /\ table = Absent => inode_value = Absent
    /\ phase # "down" =>
         \A t \in Threads :
           /\ Work(thread[t])
           /\ table = Absent => thread[t].pc = "set_empty_table"

MountInv == TreeInv /\ WorkInv

Simulates == [Tree!Next]_(Tree!vars)

-----------------------------------------------------------------------------
(* The lists, seen as trees.                                               *)

\* An empty table is the tree without a root.
LEMMA EmptyTree ==
  /\ <<>> \in Seq(Entry) /\ EntryPaths(<<>>) = {}
  /\ hashtable_string_to_table(<<>>) = Tree!Bare
<1>1. <<>> \in Seq(Entry) /\ EntryPaths(<<>>) = {}
  BY DEF EntryPaths
<1>2. PICK m : m = hashtable_string_to_table(<<>>)
  OBVIOUS
<1>3. m = [p \in DOMAIN m |-> m[p]]
  BY <1>2 DEF hashtable_string_to_table
<1>4. DOMAIN m = {}
  BY <1>1, <1>2, StringToTableType
<1>5. m = [p \in {} |-> 0]
  BY <1>3, <1>4
<1>. QED
  BY <1>1, <1>2, <1>5 DEF Tree!Bare

\* Without paths there is the empty tree.
LEMMA BareTree ==
  ASSUME NEW tbl \in Seq(Entry), EntryPaths(tbl) = {}
  PROVE  hashtable_string_to_table(tbl) = Tree!Bare
<1>1. PICK m : m = hashtable_string_to_table(tbl)
  OBVIOUS
<1>2. m = [p \in DOMAIN m |-> m[p]]
  BY <1>1 DEF hashtable_string_to_table
<1>3. DOMAIN m = {}
  BY <1>1, StringToTableType
<1>4. m = [p \in {} |-> 0]
  BY <1>2, <1>3
<1>. QED
  BY <1>1, <1>4 DEF Tree!Bare

\* A list that agrees with a function is the tree of that function.
LEMMA AgreeIsTree ==
  ASSUME NEW tbl \in Seq(Entry), NEW h, Agree(tbl, h), h = [p \in DOMAIN h |-> h[p]]
  PROVE  hashtable_string_to_table(tbl) = h
<1>1. PICK m : m = hashtable_string_to_table(tbl)
  OBVIOUS
<1>2. m = [p \in DOMAIN m |-> m[p]]
  BY <1>1 DEF hashtable_string_to_table
<1>3. SameNames(h, m)
  BY <1>1, TableHolds
<1>. QED
  BY <1>1, <1>2, <1>3 DEF SameNames

\* The tree of a table that agrees with the hash table has its paths and ids.
LEMMA TreeIsAgreed ==
  ASSUME NEW tbl \in Seq(Entry), NEW h, Agree(tbl, h)
  PROVE  /\ Agree(tbl, hashtable_string_to_table(tbl))
         /\ DOMAIN hashtable_string_to_table(tbl) = EntryPaths(tbl)
         /\ EntryPaths(tbl) = DOMAIN h
         /\ \A p \in DOMAIN h : hashtable_string_to_table(tbl)[p] = h[p]
  BY TableHolds, AgreeMounted DEF Agree, SameNames

\* A tree is no key that is not there.
LEMMA TreeIsThere ==
  ASSUME NEW tbl \in Seq(Entry)
  PROVE  hashtable_string_to_table(tbl) # Absent
<1>1. PICK m, ps : m = hashtable_string_to_table(tbl) /\ ps = EntryPaths(tbl)
  OBVIOUS
<1>2. m = [p \in DOMAIN m |-> m[p]]
  BY <1>1 DEF hashtable_string_to_table
<1>e. \A j \in DOMAIN tbl : tbl[j] \in Entry
  OBVIOUS
<1>3. \A j \in DOMAIN tbl : tbl[j].path \in Paths /\ tbl[j].ino \in Nat
  BY <1>e DEF Entry
<1>4. DOMAIN m = ps /\ \A p \in ps : m[p] \in Nat
  BY <1>1, <1>3, StringToTableType
<1>5. ps \in SUBSET Paths
  BY <1>1, <1>3 DEF EntryPaths
<1>6. m \in [ps -> Nat]
  BY <1>2, <1>4
<1>. QED
  BY <1>1, <1>5, <1>6, AbsentAssumption

\* The entry of a new path added to a list adds the path to the tree.
LEMMA TreeAdd ==
  ASSUME NEW tbl \in Seq(Entry), tbl # Garbled, NEW h, Agree(tbl, h),
         NEW p \in Paths, p \notin EntryPaths(tbl), NEW i \in Nat
  PROVE  /\ add_inode_to_table(tbl, p, i) \in Seq(Entry)
         /\ hashtable_string_to_table(add_inode_to_table(tbl, p, i))
              = Tree!With(hashtable_string_to_table(tbl), p, i)
<1>1. PICK m, g, new : /\ m = hashtable_string_to_table(tbl)
                       /\ g = memcached_set(m, p, i)
                       /\ new = add_inode_to_table(tbl, p, i)
  OBVIOUS
<1>2. Agree(tbl, m) /\ DOMAIN m = EntryPaths(tbl)
  BY <1>1, TreeIsAgreed
<1>3. DOMAIN g = DOMAIN m \cup {p} /\ g[p] = i /\ g = [q \in DOMAIN g |-> g[q]]
  BY <1>1 DEF memcached_set
<1>4. SameNames(m, Without(g, p))
  BY <1>1, <1>2, SameWithoutNew
<1>5. Agree(tbl, Without(g, p))
  BY <1>2, <1>4 DEF Agree, SameNames, EntryPaths
<1>6. Agree(new, g)
  BY <1>1, <1>3, <1>5, AgreeAdd
<1>7. new \in Seq(Entry)
  BY <1>1 DEF add_inode_to_table, Entry
<1>8. hashtable_string_to_table(new) = g
  BY <1>3, <1>6, <1>7, AgreeIsTree
<1>9. g = Tree!With(m, p, i)
  BY <1>1 DEF memcached_set, Tree!With
<1>. QED
  BY <1>1, <1>7, <1>8, <1>9

\* The entry of a path taken from a list takes the path from the tree.
LEMMA TreeRemove ==
  ASSUME NEW tbl \in Seq(Entry), tbl # Garbled, NEW h, Agree(tbl, h),
         NEW p \in Paths, NEW newline, NEW new,
         new = remove_inode_from_table(tbl, p, newline), IsList(new), new \in Seq(Entry)
  PROVE  hashtable_string_to_table(new) = Tree!Without(hashtable_string_to_table(tbl), p)
<1>1. PICK m, g : m = hashtable_string_to_table(tbl) /\ g = Tree!Without(m, p)
  OBVIOUS
<1>2. Agree(tbl, m)
  BY <1>1, TreeIsAgreed
<1>3. Agree(new, Without(m, p))
  BY <1>2, AgreeRemove
<1>4. /\ DOMAIN g = DOMAIN m \ {p} /\ g = [q \in DOMAIN g |-> g[q]]
      /\ \A q \in DOMAIN m \ {p} : g[q] = m[q]
  BY <1>1 DEF Tree!Without
<1>5. /\ DOMAIN Without(m, p) = DOMAIN m \ {p}
      /\ \A q \in DOMAIN m \ {p} : Without(m, p)[q] = m[q]
  BY WithoutProperties
<1>6. Agree(new, g)
  BY <1>3, <1>4, <1>5 DEF Agree, EntryPaths
<1>7. hashtable_string_to_table(new) = g
  BY <1>4, <1>6, AgreeIsTree
<1>. QED
  BY <1>1, <1>7

-----------------------------------------------------------------------------
(* What does nothing to the tree, or everything.                           *)

\* While table, next id and mount stay, the tree does.
LEMMA SimulatesSame ==
  ASSUME UNCHANGED <<table, inode_value, phase, crashes, faults>>
  PROVE  Simulates
  BY DEF Simulates, Tree!vars, PersistedTree, NextIno, IsList

\* FileTree promises nothing of a table that is dropped or garbled.
LEMMA SimulatesLost ==
  ASSUME faults' # 0 \/ table' = Garbled
  PROVE  Simulates
  BY DEF Simulates, Tree!Next, Tree!Lose

\* The process ends: the file system is no longer mounted.
LEMMA SimulatesDie ==
  ASSUME phase' = "down", UNCHANGED <<server, bounds>>
  PROVE  Simulates
<1>1. UNCHANGED <<PersistedTree, NextIno, table, crashes, faults>>
  BY DEF server, bounds, PersistedTree, NextIno, IsList
<1>2. CASE phase = "up"
  <2>1. Tree!Unmount
    BY <1>1, <1>2 DEF Tree!Unmount
  <2>. QED
    BY <2>1 DEF Simulates, Tree!Next
<1>3. CASE phase # "up"
  BY <1>1, <1>3 DEF Simulates, Tree!vars
<1>. QED
  BY <1>2, <1>3

\* A kill leaves the tree as it is.
LEMMA SimulatesKill ==
  ASSUME TreeInv, Crash
  PROVE  Simulates
<1>1. /\ UNCHANGED <<PersistedTree, NextIno, table, faults>>
      /\ phase' = "down" /\ crashes' = crashes + 1 /\ crashes \in 0..MaxCrashes
  BY DEF Crash, Die, server, PersistedTree, NextIno, IsList, TreeInv, NamesInv, IInv,
     TypeInv, TypeOK
<1>2. crashes' # 0
  BY <1>1, NamespaceAssumption
<1>3. Tree!Kill
  BY <1>1, <1>2 DEF Tree!Kill
<1>. QED
  BY <1>3 DEF Simulates, Tree!Next

-----------------------------------------------------------------------------
(* How the invariant moves.                                                *)

\* What the invariants say of the thread.
LEMMA WorkHere ==
  ASSUME MountInv, NEW t \in Threads, thread[t].pc # "idle" \/ phase # "down"
  PROVE  /\ phase \in {"init", "up"} /\ MemoryOK /\ TypeInv
         /\ thread[t] \in Thread /\ t \in DOMAIN thread
         /\ SyncAt(t) /\ WellFormed(thread[t])
         /\ thread[t].pc \in FreshPcs => IdsBelow(thread[t].ino)
         /\ faults = 0 =>
              /\ Work(thread[t]) /\ OnFile(thread[t])
              /\ table = Absent => inode_value = Absent /\ thread[t].pc = "set_empty_table"
<1>1. /\ phase # "down" /\ MemoryOK /\ TypeInv /\ thread[t] \in Thread
      /\ t \in DOMAIN thread /\ SyncAt(t) /\ WellFormed(thread[t])
  BY LinkedHere DEF MountInv
<1>2. phase \in {"init", "up"}
  BY <1>1 DEF TypeInv, TypeOK
<1>3. thread[t].pc \in FreshPcs => IdsBelow(thread[t].ino)
  BY DEF MountInv, TreeInv, NamesInv, IInv, InoInv
<1>4. faults = 0 => OnFile(thread[t])
  BY <1>1, NamedHere DEF MountInv, TreeInv
<1>5. faults = 0 =>
        /\ Work(thread[t])
        /\ table = Absent => inode_value = Absent /\ thread[t].pc = "set_empty_table"
  BY <1>1 DEF MountInv, WorkInv
<1>. QED
  BY <1>1, <1>2, <1>3, <1>4, <1>5

\* The one thread goes to the state th.
LEMMA WorkMove ==
  ASSUME OneThread, NEW t \in Threads, NEW th, thread'[t] = th,
         faults' = 0 =>
           /\ table' = Absent => inode_value' = Absent /\ th.pc = "set_empty_table"
           /\ phase' # "down" => Work(th)'
  PROVE  WorkInv'
<1>1. \A u \in Threads : thread'[u] = th
  BY DEF OneThread, SingleThreaded
<1>2. ASSUME faults' = 0, phase' # "down", NEW u \in Threads
      PROVE  /\ Work(thread[u])'
             /\ table' = Absent => thread'[u].pc = "set_empty_table"
  <2>1. thread'[u] = th
    BY <1>1
  <2>2. Work(th)'
    BY <1>2
  <2>3. Work(thread[u])'
    BY <2>1, <2>2 DEF Work, Planned, OldFile, NewFile
  <2>. QED
    BY <1>2, <2>1, <2>3
<1>. QED
  BY <1>2 DEF WorkInv

\* Where the invariant asks nothing of a thread.
FreePcs == {"idle", "add_link", "count_link", "remove_entry", "decrement_nlink",
            "delete_blocks", "delete_inode", "remove_link"}

\* A thread between its changes has nothing left to promise.
LEMMA WorkFree ==
  ASSUME NEW th, th.pc \in FreePcs
  PROVE  Work(th)
  BY DEF Work, FreePcs, CreateInodePcs, LinkPcs, NewPathPcs, FreshPcs

\* A step that leaves the keys of the tree alone.
LEMMA PlainWork ==
  ASSUME OneThread, MountInv, NEW t \in Threads, NEW th, thread'[t] = th,
         thread[t].pc \notin {"idle", "set_empty_table"},
         UNCHANGED <<table, inode_value, phase, crashes, faults>>,
         faults = 0 => Work(th)
  PROVE  WorkInv' /\ Simulates
<1>1. faults' = 0 =>
        /\ table' = Absent => inode_value' = Absent /\ th.pc = "set_empty_table"
        /\ phase' # "down" => Work(th)'
  BY WorkHere DEF Work, Planned, OldFile, NewFile, Reached, IsList
<1>. QED
  BY <1>1, WorkMove, SimulatesSame

\* The process dies, and memcached stays.
LEMMA WorkDie ==
  ASSUME WorkInv, Die, UNCHANGED server, faults' = faults
  PROVE  WorkInv'
  BY DEF WorkInv, Die, server

\* A process that dies leaves the tree as it is.
LEMMA SegfaultWork ==
  ASSUME MountInv, Segfault
  PROVE  WorkInv' /\ Simulates
<1>1. Die /\ phase' = "down" /\ UNCHANGED <<server, bounds>> /\ faults' = faults
  BY DEF Segfault, Die, bounds
<1>. QED
  BY <1>1, WorkDie, SimulatesDie DEF MountInv

-----------------------------------------------------------------------------
(* The steps that leave the keys of the tree alone.                        *)

\* The directory of the path gets its link, or loses it.
LEMMA FreeWork ==
  ASSUME OneThread, MountInv, NEW t \in Threads,
         \/ AddLink(t) \/ CountLink(t) \/ RemoveEntry(t) \/ DecrementNlink(t)
         \/ DeleteBlocks(t) \/ DeleteInode(t) \/ RemoveLink(t)
  PROVE  WorkInv' /\ Simulates
<1>1. thread[t].pc \in FreePcs \ {"idle"}
  BY DEF AddLink, CountLink, RemoveEntry, DecrementNlink, DeleteBlocks, DeleteInode,
     RemoveLink, At, FreePcs
<1>2. thread[t] \in Thread /\ t \in DOMAIN thread
  BY <1>1, WorkHere DEF FreePcs
<1>3. CASE Segfault
  BY <1>3, SegfaultWork
<1>4. CASE ~ Segfault
  <2>1. PICK th : th = thread'[t]
    OBVIOUS
  <2>2. UNCHANGED <<table, inode_value, phase, crashes, faults>>
    BY <1>4 DEF AddLink, CountLink, RemoveEntry, DecrementNlink, DeleteBlocks,
       DeleteInode, RemoveLink, server, bounds
  <2>3. th.pc \in FreePcs
    <3>1. CASE Return(t)
      BY <1>2, <2>1, <3>1 DEF Return, Idle, FreePcs
    <3>2. CASE ~ Return(t)
      BY <1>2, <1>4, <2>1, <3>2 DEF AddLink, CountLink, RemoveEntry, DecrementNlink,
         DeleteBlocks, DeleteInode, RemoveLink, Goto, Thread, FreePcs
    <3>. QED
      BY <3>1, <3>2
  <2>. QED
    BY <1>1, <2>1, <2>2, <2>3, WorkFree, PlainWork DEF FreePcs
<1>. QED
  BY <1>3, <1>4

\* Reading the next id is no step of the tree.
LEMMA GetInodeValueWork ==
  ASSUME OneThread, MountInv, NEW t \in Threads, GetInodeValue(t)
  PROVE  WorkInv' /\ Simulates
<1>1. thread[t].pc = "get_inode_value" /\ thread[t] \in Thread /\ t \in DOMAIN thread
  BY WorkHere DEF GetInodeValue, At
<1>2. CASE inode_value = Absent
  BY <1>2, SegfaultWork DEF GetInodeValue
<1>3. CASE inode_value # Absent
  <2>1. PICK th : th = [thread[t] EXCEPT !.pc = "set_inode", !.ino = inode_value]
    OBVIOUS
  <2>2. /\ th.pc = "set_inode" /\ th.ino = inode_value
        /\ th.path = thread[t].path /\ th.old = thread[t].old
    BY <1>1, <2>1 DEF Thread
  <2>3. /\ thread'[t] = th
        /\ UNCHANGED <<table, inode_value, phase, crashes, faults>>
    BY <1>1, <1>3, <2>1 DEF GetInodeValue, server, bounds
  <2>4. faults = 0 => Work(th)
    BY <1>1, <2>2, WorkHere
       DEF Work, Planned, CreateInodePcs, LinkPcs, NewPathPcs, FreshPcs
  <2>. QED
    BY <1>1, <2>3, <2>4, PlainWork
<1>. QED
  BY <1>2, <1>3

\* A new inode without a path is no step of the tree.
LEMMA SetInodeWork ==
  ASSUME OneThread, MountInv, NEW t \in Threads, SetInode(t)
  PROVE  WorkInv' /\ Simulates
<1>1. thread[t].pc = "set_inode" /\ thread[t] \in Thread /\ t \in DOMAIN thread
  BY WorkHere DEF SetInode, At
<1>2. CASE Goto(t, "set_inode_value") /\ UNCHANGED faults
  <2>1. PICK th : th = [thread[t] EXCEPT !.pc = "set_inode_value"]
    OBVIOUS
  <2>2. /\ th.pc = "set_inode_value" /\ th.ino = thread[t].ino
        /\ th.path = thread[t].path /\ th.old = thread[t].old
    BY <1>1, <2>1 DEF Thread
  <2>3. /\ thread'[t] = th
        /\ UNCHANGED <<table, inode_value, phase, crashes, faults>>
    BY <1>1, <1>2, <2>1 DEF SetInode, Goto
  <2>4. faults = 0 => Work(th)
    BY <1>1, <2>2, WorkHere
       DEF Work, Planned, CreateInodePcs, LinkPcs, NewPathPcs, FreshPcs
  <2>. QED
    BY <1>1, <2>3, <2>4, PlainWork
<1>3. CASE faults' = faults + 1
  <2>1. faults' # 0
    BY <1>1, <1>3, WorkHere DEF MemoryOK
  <2>. QED
    BY <2>1, SimulatesLost DEF WorkInv
<1>. QED
  BY <1>2, <1>3 DEF SetInode

\* A path in the hash table alone is no step of the tree.
LEMMA AddEntryWork ==
  ASSUME OneThread, MountInv, NEW t \in Threads, AddEntry(t)
  PROVE  WorkInv' /\ Simulates
<1>1. thread[t].pc = "add_entry" /\ thread[t] \in Thread /\ t \in DOMAIN thread
  BY WorkHere DEF AddEntry, At
<1>2. CASE table = Absent
  BY <1>2, SegfaultWork DEF AddEntry
<1>3. CASE table # Absent
  <2>1. PICK th : th = [thread[t] EXCEPT !.pc = "set_table", !.tbl = table]
    OBVIOUS
  <2>2. /\ th.pc = "set_table" /\ th.ino = thread[t].ino /\ th.tbl = table
        /\ th.path = thread[t].path /\ th.old = thread[t].old
    BY <1>1, <2>1 DEF Thread
  <2>3. /\ thread'[t] = th
        /\ UNCHANGED <<table, inode_value, phase, crashes, faults>>
    BY <1>1, <1>3, <2>1 DEF AddEntry, server, bounds
  <2>4. faults = 0 => Work(th)
    BY <1>1, <2>2, WorkHere
       DEF Work, Planned, NewFile, OldFile, CreateInodePcs, LinkPcs, NewPathPcs, FreshPcs
  <2>. QED
    BY <1>1, <2>3, <2>4, PlainWork
<1>. QED
  BY <1>2, <1>3

\* Reading the table is no step of the tree.
LEMMA GetTableWork ==
  ASSUME OneThread, MountInv, NEW t \in Threads, GetTable(t)
  PROVE  WorkInv' /\ Simulates
<1>1. thread[t].pc = "get_table" /\ thread[t] \in Thread /\ t \in DOMAIN thread
  BY WorkHere DEF GetTable, At
<1>2. CASE table = Absent
  BY <1>2, SegfaultWork DEF GetTable
<1>3. CASE table # Absent
  <2>1. PICK th : th = [thread[t] EXCEPT !.pc = "set_shorter_table", !.tbl = table]
    OBVIOUS
  <2>2. th.pc = "set_shorter_table" /\ th.tbl = table /\ th.path = thread[t].path
    BY <1>1, <2>1 DEF Thread
  <2>3. /\ thread'[t] = th
        /\ UNCHANGED <<table, inode_value, phase, crashes, faults>>
    BY <1>1, <1>3, <2>1 DEF GetTable, server, bounds
  <2>4. faults = 0 => Work(th)
    BY <1>1, <2>2, WorkHere DEF Work, CreateInodePcs, LinkPcs, NewPathPcs, FreshPcs
  <2>. QED
    BY <1>1, <2>3, <2>4, PlainWork
<1>. QED
  BY <1>2, <1>3

\* Reading the inode to be linked is no step of the tree.
LEMMA GetLinkTargetWork ==
  ASSUME OneThread, MountInv, NEW t \in Threads, GetLinkTarget(t)
  PROVE  WorkInv' /\ Simulates
<1>1. thread[t].pc = "get_link_target" /\ thread[t] \in Thread /\ t \in DOMAIN thread
  BY WorkHere DEF GetLinkTarget, At
<1>2. PICK i : i = hashable_get_entry(thread[t].old)
  OBVIOUS
<1>3. CASE i \notin DOMAIN inodes
  BY <1>2, <1>3, SegfaultWork DEF GetLinkTarget
<1>4. CASE i \in DOMAIN inodes
  <2>1. PICK th : th = [thread[t] EXCEPT !.pc = "increment_nlink", !.ino = i,
                                         !.attr = inodes[i]]
    OBVIOUS
  <2>2. /\ th.pc = "increment_nlink" /\ th.ino = i
        /\ th.path = thread[t].path /\ th.old = thread[t].old
    BY <1>1, <2>1 DEF Thread
  <2>3. /\ thread'[t] = th
        /\ UNCHANGED <<table, inode_value, phase, crashes, faults>>
    BY <1>1, <1>2, <1>4, <2>1 DEF GetLinkTarget, server, bounds
  <2>4. ASSUME faults = 0, IsList(table)
        PROVE  OldFile(th) /\ Planned(th)
    <3>1. OldFile(thread[t]) /\ Planned(thread[t])
      BY <1>1, <2>4, WorkHere DEF Work, LinkPcs, NewPathPcs
    <3>2. PICK h : h = hash
      OBVIOUS
    <3>3. Agree(table, h) /\ table \in Seq(Entry)
      BY <1>1, <2>4, <3>2, WorkHere DEF SyncAt, Persisted, MemoryOK, IsList
    <3>4. th.old \in DOMAIN h /\ h[th.old] = i
      BY <1>1, <1>2, <2>2, <2>4, <3>2, WorkHere DEF OnFile, hashable_get_entry
    <3>5. hashtable_string_to_table(table)[th.old] = i
      BY <3>3, <3>4, TreeIsAgreed
    <3>. QED
      BY <2>2, <3>1, <3>5 DEF OldFile, Planned
  <2>5. faults = 0 => Work(th)
    BY <1>1, <2>2, <2>4, WorkHere
       DEF Work, CreateInodePcs, LinkPcs, NewPathPcs, FreshPcs
  <2>. QED
    BY <1>1, <2>3, <2>5, PlainWork
<1>. QED
  BY <1>3, <1>4

\* Counting a name to come is no step of the tree.
LEMMA IncrementNlinkWork ==
  ASSUME OneThread, MountInv, NEW t \in Threads, IncrementNlink(t)
  PROVE  WorkInv' /\ Simulates
<1>1. thread[t].pc = "increment_nlink" /\ thread[t] \in Thread /\ t \in DOMAIN thread
  BY WorkHere DEF IncrementNlink, At
<1>2. PICK th : th = [thread[t] EXCEPT !.pc = "add_entry"]
  OBVIOUS
<1>3. /\ th.pc = "add_entry" /\ th.ino = thread[t].ino
      /\ th.path = thread[t].path /\ th.old = thread[t].old
  BY <1>1, <1>2 DEF Thread
<1>4. thread'[t] = th /\ UNCHANGED <<table, inode_value, phase, crashes, faults>>
  BY <1>1, <1>2 DEF IncrementNlink, Goto, bounds
<1>5. faults = 0 => Work(th)
  BY <1>1, <1>3, WorkHere
     DEF Work, Planned, OldFile, CreateInodePcs, LinkPcs, NewPathPcs, FreshPcs
<1>. QED
  BY <1>1, <1>4, <1>5, PlainWork

-----------------------------------------------------------------------------
(* The steps that change the tree, or reserve an id.                       *)

\* The first mount: an empty list is the empty tree.
LEMMA SetEmptyTableWork ==
  ASSUME OneThread, MountInv, NEW t \in Threads, SetEmptyTable(t)
  PROVE  WorkInv' /\ Simulates
<1>1. thread[t].pc = "set_empty_table" /\ thread[t] \in Thread /\ t \in DOMAIN thread
  BY WorkHere DEF SetEmptyTable, At
<1>2. PICK th : th = [thread[t] EXCEPT !.pc = "set_first_value"]
  OBVIOUS
<1>3. th.pc = "set_first_value" /\ th.path = thread[t].path /\ th.old = thread[t].old
  BY <1>1, <1>2 DEF Thread
<1>4. /\ thread'[t] = th /\ table' = <<>>
      /\ UNCHANGED <<inode_value, phase, crashes, faults>>
  BY <1>1, <1>2 DEF SetEmptyTable, Goto, bounds
<1>5. CASE faults # 0
  BY <1>4, <1>5, SimulatesLost DEF WorkInv
<1>6. CASE faults = 0
  <2>1. /\ table = Absent /\ inode_value = Absent
        /\ phase = "init" /\ th.path = Root /\ th.old = Root
    BY <1>1, <1>3, <1>6, WorkHere DEF Work
  <2>2. <<>> \in Seq(Entry) /\ <<>> \in Seq(Names)
    OBVIOUS
  <2>3. table' # Absent /\ table' # Garbled
    BY <1>4, <2>2, AbsentAssumption, TextAssumption
  <2>4. Work(th)'
    BY <1>3, <1>4, <2>1 DEF Work, CreateInodePcs, LinkPcs, NewPathPcs, FreshPcs
  <2>5. WorkInv'
    BY <1>4, <2>3, <2>4, WorkMove
  <2>6. PersistedTree = Absent
    BY <2>1 DEF PersistedTree, IsList
  <2>7. PersistedTree' = Tree!Bare
    BY <1>4, <2>3, EmptyTree DEF PersistedTree, IsList
  <2>8. NextIno' = NextIno /\ phase # "up" /\ phase' = phase
    BY <1>4, <2>1 DEF NextIno
  <2>9. Tree!Format
    BY <1>4, <1>6, <2>1, <2>3, <2>6, <2>7, <2>8, TextAssumption DEF Tree!Format
  <2>. QED
    BY <2>5, <2>9 DEF Simulates, Tree!Next
<1>. QED
  BY <1>5, <1>6

\* The first id: nothing was reserved yet.
LEMMA SetFirstValueWork ==
  ASSUME OneThread, MountInv, NEW t \in Threads, SetFirstValue(t)
  PROVE  WorkInv' /\ Simulates
<1>1. thread[t].pc = "set_first_value" /\ thread[t] \in Thread /\ t \in DOMAIN thread
  BY WorkHere DEF SetFirstValue, At
<1>2. PICK th : th = [thread[t] EXCEPT !.pc = "get_inode_value"]
  OBVIOUS
<1>3. th.pc = "get_inode_value" /\ th.path = thread[t].path /\ th.old = thread[t].old
  BY <1>1, <1>2 DEF Thread
<1>4. /\ thread'[t] = th /\ inode_value' = 0
      /\ UNCHANGED <<table, phase, crashes, faults>>
  BY <1>1, <1>2 DEF SetFirstValue, Goto, bounds
<1>5. CASE faults # 0
  BY <1>4, <1>5, SimulatesLost DEF WorkInv
<1>6. CASE faults = 0
  <2>1. /\ table = <<>> /\ inode_value = Absent
        /\ phase = "init" /\ th.path = Root /\ th.old = Root
    BY <1>1, <1>3, <1>6, WorkHere DEF Work
  <2>2. table # Absent /\ EntryPaths(table) = {}
    BY <2>1, EmptyTree, AbsentAssumption
  <2>3. Planned(th)'
    BY <1>4, <2>1, <2>2 DEF Planned
  <2>4. Work(th)'
    BY <1>3, <1>4, <2>1, <2>3 DEF Work, CreateInodePcs, LinkPcs
  <2>5. WorkInv'
    BY <1>4, <2>2, <2>4, WorkMove
  <2>6. NextIno' = 0 /\ NextIno = 0
    BY <1>4, <2>1, AbsentAssumption DEF NextIno
  <2>7. PersistedTree' = PersistedTree
    BY <1>4 DEF PersistedTree, IsList
  <2>. QED
    BY <1>4, <2>5, <2>6, <2>7 DEF Simulates, Tree!vars
<1>. QED
  BY <1>5, <1>6

\* An id is reserved.
LEMMA SetInodeValueWork ==
  ASSUME OneThread, MountInv, NEW t \in Threads, SetInodeValue(t)
  PROVE  WorkInv' /\ Simulates
<1>1. /\ thread[t].pc \in {"set_inode_value", "skip_inode_value"}
      /\ thread[t] \in Thread /\ t \in DOMAIN thread
  BY WorkHere DEF SetInodeValue, At
<1>2. inode_value' = thread[t].ino + 1 /\ UNCHANGED <<table, crashes, faults>>
  BY DEF SetInodeValue, bounds
<1>3. CASE faults # 0
  BY <1>2, <1>3, SimulatesLost DEF WorkInv
<1>4. CASE table = Garbled /\ faults = 0
  <2>1. Simulates
    BY <1>2, <1>4, SimulatesLost
  <2>2. thread[t].pc = "set_inode_value"
    BY <1>1, <1>4, WorkHere DEF OnFile
  <2>3. PICK th : th = [thread[t] EXCEPT !.pc = "add_entry"]
    OBVIOUS
  <2>4. /\ th.pc = "add_entry" /\ th.ino = thread[t].ino
        /\ th.path = thread[t].path /\ th.old = thread[t].old
    BY <1>1, <2>3 DEF Thread
  <2>5. thread'[t] = th /\ phase' = phase
    BY <1>1, <2>2, <2>3 DEF SetInodeValue, Goto, At
  <2>6. th.old = th.path
    BY <1>4, <2>2, <2>4, WorkHere DEF Work, CreateInodePcs
  <2>7. Work(th)'
    BY <1>2, <1>4, <2>4, <2>6
       DEF Work, NewFile, IsList, CreateInodePcs, LinkPcs
  <2>8. WorkInv'
    BY <1>2, <1>4, <2>5, <2>7, TextAssumption, WorkMove
  <2>. QED
    BY <2>1, <2>8
<1>5. CASE table # Garbled /\ faults = 0
  <2>1. thread[t].pc = "set_inode_value" /\ table # Absent
    BY <1>1, <1>5, WorkHere DEF OnFile
  <2>2. PICK th : th = [thread[t] EXCEPT !.pc = "add_entry"]
    OBVIOUS
  <2>3. /\ th.pc = "add_entry" /\ th.ino = thread[t].ino /\ th.ino \in Nat
        /\ th.path = thread[t].path /\ th.old = thread[t].old
    BY <1>1, <2>2 DEF Thread
  <2>4. thread'[t] = th /\ phase' = phase
    BY <1>1, <2>1, <2>2 DEF SetInodeValue, Goto, At
  <2>5. /\ th.old = th.path /\ th.ino = inode_value
        /\ IsList(table) /\ table \in Seq(Entry) /\ Planned(thread[t])
        /\ IdsBelow(th.ino) /\ phase \in {"init", "up"}
    BY <1>5, <2>1, <2>3, WorkHere
       DEF Work, CreateInodePcs, NewPathPcs, FreshPcs, MemoryOK, IsList
  <2>6. Planned(th)' /\ NewFile(th)'
    BY <1>2, <2>3, <2>4, <2>5 DEF Planned, Reached, NewFile, IdsBelow
  <2>7. Work(th)'
    BY <2>3, <2>5, <2>6 DEF Work, CreateInodePcs, LinkPcs
  <2>8. WorkInv'
    BY <1>2, <2>1, <2>4, <2>7, WorkMove
  <2>9. PersistedTree' = PersistedTree
    BY <1>2 DEF PersistedTree, IsList
  <2>10. NextIno' = NextIno + 1
    BY <1>2, <2>3, <2>5, AbsentAssumption DEF NextIno
  <2>11. phase = "up" \/ PersistedTree = Tree!Bare
    BY <2>5, BareTree DEF Planned, PersistedTree
  <2>12. Tree!Reserve
    BY <1>2, <1>5, <2>4, <2>9, <2>10, <2>11 DEF Tree!Reserve
  <2>. QED
    BY <2>8, <2>12 DEF Simulates, Tree!Next
<1>. QED
  BY <1>3, <1>4, <1>5

\* A path made in a tree that has its directory is a new one.
LEMMA PlannedIsNew ==
  ASSUME NEW tbl \in Seq(Entry), NEW p \in Paths, NEW tr,
         DOMAIN tr = EntryPaths(tbl), p \notin EntryPaths(tbl),
         Reached(tbl, get_parent_directory(p))
  PROVE  /\ p # Root
         /\ p \in Paths \ DOMAIN tr
         /\ \A k \in 0..Len(Tree!Parent(p)) : SubSeq(Tree!Parent(p), 1, k) \in DOMAIN tr
<1>1. PICK d : d = get_parent_directory(p) /\ d = Tree!Parent(p)
  BY DEF get_parent_directory, Tree!Parent
<1>2. p \in Seq(Names)
  BY PathsAssumption
<1>3. ASSUME p = Root PROVE FALSE
  <2>1. d = <<>>
    BY <1>1, <1>3 DEF get_parent_directory, Root
  <2>2. 0 \in 0..Len(d) /\ SubSeq(d, 1, 0) = <<>>
    BY <2>1
  <2>3. <<>> \in EntryPaths(tbl)
    BY <1>1, <2>2 DEF Reached
  <2>. QED
    BY <1>3, <2>3 DEF Root
<1>. QED
  BY <1>1, <1>3 DEF Reached

\* The entry of a path is stored: the root, a new file or a new name.
LEMMA SetTableWork ==
  ASSUME OneThread, MountInv, NEW t \in Threads, SetTable(t)
  PROVE  WorkInv' /\ Simulates
<1>1. /\ thread[t].pc = "set_table" /\ thread[t] \in Thread /\ t \in DOMAIN thread
      /\ phase \in {"init", "up"}
  BY WorkHere DEF SetTable, At
<1>2. PICK p, i, tbl : p = thread[t].path /\ i = thread[t].ino /\ tbl = thread[t].tbl
  OBVIOUS
<1>3. /\ p \in Paths /\ i \in Nat /\ tbl \in Seq(Entry) \cup {Garbled}
      /\ table' = add_inode_to_table(tbl, p, i)
      /\ UNCHANGED <<inode_value, crashes, faults>>
  BY <1>1, <1>2, WorkHere DEF Thread, WellFormed, SetTable, bounds
<1>4. PICK th : th = thread'[t]
  OBVIOUS
<1>5. th.pc \in FreePcs
  BY <1>1, <1>4 DEF SetTable, Return, Goto, Idle, Thread, FreePcs
<1>6. table' # Absent
  BY <1>3, AddEntryType, AbsentAssumption, TextAssumption
<1>7. WorkInv'
  <2>1. faults' = 0 => (phase' # "down" => Work(th)')
    BY <1>5 DEF Work, FreePcs, CreateInodePcs, LinkPcs, NewPathPcs, FreshPcs
  <2>. QED
    BY <1>4, <1>6, <2>1, WorkMove
<1>8. CASE faults # 0 \/ tbl = Garbled \/ table' = Garbled
  BY <1>3, <1>7, <1>8, SimulatesLost DEF add_inode_to_table
<1>9. CASE faults = 0 /\ tbl # Garbled /\ table' # Garbled
  <2>1. /\ tbl = table /\ tbl \in Seq(Entry) /\ IsList(tbl)
        /\ Planned(thread[t]) /\ Work(thread[t])
    BY <1>1, <1>2, <1>3, <1>9, WorkHere, AbsentAssumption DEF Work, IsList
  <2>2. PICK h : h = Persisted(t)
    OBVIOUS
  <2>3. Agree(tbl, h)
    BY <1>1, <2>1, <2>2, WorkHere DEF SyncAt
  <2>4. PICK tr : tr = hashtable_string_to_table(tbl)
    OBVIOUS
  <2>5. DOMAIN tr = EntryPaths(tbl)
    BY <2>1, <2>4, StringToTableType
  <2>6. /\ p \notin EntryPaths(tbl)
        /\ phase = "init" => EntryPaths(tbl) = {} /\ p = Root
        /\ phase = "up" => Reached(tbl, get_parent_directory(p))
    BY <1>2, <2>1 DEF Planned
  <2>7. /\ table' \in Seq(Entry)
        /\ hashtable_string_to_table(table') = Tree!With(tr, p, i)
    BY <1>3, <1>9, <2>1, <2>3, <2>4, <2>6, TreeAdd
  <2>9. PersistedTree = tr /\ PersistedTree' = Tree!With(tr, p, i)
    BY <1>6, <1>9, <2>1, <2>4, <2>7 DEF PersistedTree, IsList
  <2>10. /\ NextIno' = NextIno /\ UNCHANGED crashes
         /\ (faults = 0 /\ table # Garbled) = (faults = 0 /\ table # Garbled)'
    BY <1>3, <1>9, <2>1 DEF NextIno
  <2>11. thread[t].old = p => NextIno - 1 = i /\ NextIno > 0
    BY <1>1, <1>2, <1>3, <2>1, AbsentAssumption, WorkHere
       DEF Work, NewFile, NextIno, MemoryOK
  <2>12. CASE phase = "init"
    <3>1. thread[t].old = p /\ p = Root /\ EntryPaths(tbl) = {}
      BY <1>1, <1>2, <2>1, <2>6, <2>12 DEF Work
    <3>2. phase' = "up"
      BY <1>2, <3>1 DEF SetTable
    <3>3. tr = Tree!Bare
      BY <2>1, <2>4, <3>1, BareTree
    <3>4. Tree!Root = Root
      BY DEF Tree!Root, Root
    <3>5. Tree!MakeRoot
      BY <2>9, <2>10, <2>11, <2>12, <3>1, <3>2, <3>3, <3>4 DEF Tree!MakeRoot
    <3>. QED
      BY <1>7, <3>5 DEF Simulates, Tree!Next
  <2>13. CASE phase = "up"
    <3>1. /\ p # Root /\ p \in Paths \ DOMAIN tr
          /\ \A k \in 0..Len(Tree!Parent(p)) : SubSeq(Tree!Parent(p), 1, k) \in DOMAIN tr
      BY <1>3, <2>1, <2>5, <2>6, <2>13, PlannedIsNew
    <3>2. phase' = "up"
      BY <1>2, <2>13, <3>1 DEF SetTable
    <3>3. Tree!IsNew(p)
      BY <2>9, <3>1 DEF Tree!IsNew, Tree!IsReached
    <3>4. CASE thread[t].old = p
      <4>1. \A j \in DOMAIN tbl : tbl[j].ino < i
        BY <1>1, <1>2, <2>1, <3>4 DEF Work, NewFile
      <4>2. \A q \in DOMAIN tr : tr[q] < NextIno - 1
        BY <2>1, <2>4, <2>5, <2>11, <3>4, <4>1, StringToTableType
      <4>3. Tree!Create(p)
        BY <2>9, <2>10, <2>11, <2>13, <3>2, <3>3, <3>4, <4>2 DEF Tree!Create
      <4>. QED
        BY <1>3, <1>7, <4>3 DEF Simulates, Tree!Next
    <3>5. CASE thread[t].old # p
      <4>1. PICK o : o = thread[t].old
        OBVIOUS
      <4>2. o \in Paths /\ Reached(tbl, o) /\ tr[o] = i
        BY <1>1, <1>2, <2>1, <2>4, <3>5, <4>1 DEF Work, OldFile, LinkPcs
      <4>3. Tree!IsReached(o)
        BY <2>5, <2>9, <4>2 DEF Tree!IsReached, Reached
      <4>4. Tree!Link(o, p)
        BY <2>9, <2>10, <2>13, <3>2, <3>3, <4>2, <4>3 DEF Tree!Link
      <4>. QED
        BY <1>3, <1>7, <4>2, <4>4 DEF Simulates, Tree!Next
    <3>. QED
      BY <3>4, <3>5
  <2>. QED
    BY <1>1, <2>12, <2>13
<1>. QED
  BY <1>8, <1>9

\* The entry of a path is gone.
LEMMA SetShorterTableWork ==
  ASSUME OneThread, MountInv, NEW t \in Threads, SetShorterTable(t)
  PROVE  WorkInv' /\ Simulates
<1>1. thread[t].pc = "set_shorter_table" /\ thread[t] \in Thread /\ t \in DOMAIN thread
  BY WorkHere DEF SetShorterTable, At
<1>2. PICK p, tbl : p = thread[t].path /\ tbl = thread[t].tbl
  OBVIOUS
<1>3. p \in Paths /\ p # Root /\ tbl \in Seq(Entry) \cup {Garbled}
  BY <1>1, <1>2, WorkHere DEF Thread, WellFormed
<1>4. PICK newline \in StackNewline :
        LET new == remove_inode_from_table(tbl, p, newline)
        IN  IF new = Absent THEN Segfault
            ELSE /\ table' = new
                 /\ Goto(t, "remove_entry")
                 /\ UNCHANGED <<inode_value, inodes, links, hash, phase, bounds>>
  BY <1>2 DEF SetShorterTable
<1>5. PICK new : new = remove_inode_from_table(tbl, p, newline)
  OBVIOUS
<1>6. CASE new = Absent
  BY <1>4, <1>5, <1>6, SegfaultWork
<1>7. CASE new # Absent
  <2>1. /\ table' = new /\ Goto(t, "remove_entry")
        /\ UNCHANGED <<inode_value, phase, crashes, faults>>
    BY <1>4, <1>5, <1>7 DEF bounds
  <2>2. PICK th : th = [thread[t] EXCEPT !.pc = "remove_entry"]
    OBVIOUS
  <2>3. th.pc = "remove_entry" /\ thread'[t] = th
    BY <1>1, <2>1, <2>2 DEF Goto, Thread
  <2>4. faults' = 0 => (phase' # "down" => Work(th)')
    BY <2>3 DEF Work, CreateInodePcs, LinkPcs, NewPathPcs, FreshPcs
  <2>5. WorkInv'
    BY <1>7, <2>1, <2>3, <2>4, WorkMove
  <2>6. CASE faults # 0 \/ tbl = Garbled \/ new = Garbled
    BY <1>5, <2>1, <2>5, <2>6, SimulatesLost DEF remove_inode_from_table
  <2>7. CASE faults = 0 /\ tbl # Garbled /\ new # Garbled
    <3>1. /\ tbl = table /\ tbl \in Seq(Entry) /\ IsList(tbl)
          /\ phase = "up" /\ Reached(tbl, p)
      BY <1>1, <1>2, <1>3, <2>7, WorkHere, AbsentAssumption DEF Work, IsList
    <3>2. PICK h : h = hash
      OBVIOUS
    <3>3. Agree(tbl, h) /\ EntryPaths(tbl) = DOMAIN h
      BY <1>1, <3>1, <3>2, WorkHere DEF SyncAt, Persisted, Agree
    <3>4. PICK tr : tr = hashtable_string_to_table(tbl)
      OBVIOUS
    <3>5. DOMAIN tr = EntryPaths(tbl)
      BY <3>1, <3>4, StringToTableType
    <3>6. new \in Seq(Entry)
      BY <1>3, <1>5, <1>7, <2>7, RemoveEntryType
    <3>7. hashtable_string_to_table(new) = Tree!Without(tr, p)
      BY <1>3, <1>5, <1>7, <2>7, <3>1, <3>3, <3>4, <3>6, TreeRemove DEF IsList
    <3>8. PersistedTree = tr /\ PersistedTree' = Tree!Without(tr, p)
      BY <1>7, <2>1, <2>7, <3>1, <3>4, <3>7 DEF PersistedTree, IsList
    <3>9. Tree!IsReached(p)
      BY <3>1, <3>5, <3>8 DEF Tree!IsReached, Reached
    <3>10. ASSUME crashes = 0, NEW q \in DOMAIN tr, q # Root, Tree!Parent(q) = p
           PROVE  FALSE
      <4>1. IsLeaf(p)
        BY <1>1, <1>2, <2>7, <3>10, LinkedHere DEF InDir, NoMishap, MountInv
      <4>2. q \in DOMAIN hash
        BY <3>2, <3>3, <3>5, <3>10
      <4>. QED
        BY <3>10, <4>1, <4>2 DEF IsLeaf, IsChild, get_parent_directory, Tree!Parent
    <3>11. NextIno' = NextIno /\ Tree!Root = Root
      BY <2>1 DEF NextIno, Tree!Root, Root
    <3>12. Tree!Remove(p)
      BY <1>3, <2>1, <2>7, <3>1, <3>8, <3>9, <3>10, <3>11 DEF Tree!Remove
    <3>. QED
      BY <1>3, <2>5, <3>12 DEF Simulates, Tree!Next
  <2>. QED
    BY <2>6, <2>7
<1>. QED
  BY <1>6, <1>7

\* Every step of a handler.
LEMMA StepWork ==
  ASSUME OneThread, MountInv, NEW t \in Threads, Step(t)
  PROVE  WorkInv' /\ Simulates
  BY SetEmptyTableWork, SetFirstValueWork, GetInodeValueWork, SetInodeWork,
     SetInodeValueWork, AddEntryWork, SetTableWork, FreeWork, GetTableWork,
     SetShorterTableWork, GetLinkTargetWork, IncrementNlinkWork DEF Step

-----------------------------------------------------------------------------
(* Handlers, mounts, and what happens to the process.                      *)

\* A handler entered with what its thread is to know.
LEMMA EnterWork ==
  ASSUME OneThread, MountInv, NEW t \in Threads, NEW th, Enter(t, th),
         faults = 0 => Work(th)
  PROVE  WorkInv' /\ Simulates
<1>1. phase = "up" /\ thread[t].pc = "idle"
  BY DEF Enter, At
<1>2. t \in DOMAIN thread
  BY <1>1, WorkHere
<1>3. thread'[t] = th /\ UNCHANGED <<table, inode_value, phase, crashes, faults>>
  BY <1>2 DEF Enter, server, bounds
<1>4. faults' = 0 =>
        /\ table' = Absent => inode_value' = Absent /\ th.pc = "set_empty_table"
        /\ phase' # "down" => Work(th)'
  BY <1>1, <1>3, WorkHere DEF Work, Planned, OldFile, NewFile, Reached, IsList
<1>. QED
  BY <1>3, <1>4, WorkMove, SimulatesSame

\* The paths the kernel resolves are those the list resolves.
LEMMA ResolvedPaths ==
  ASSUME MountInv, NEW t \in Threads, phase = "up", At(t, "idle"), IsList(table)
  PROVE  /\ EntryPaths(table) = DOMAIN hash
         /\ \A p : Exists(p) => Reached(table, p)
<1>1. Agree(table, hash)
  BY WorkHere DEF SyncAt, Persisted, At
<1>. QED
  BY <1>1 DEF Agree, Exists, Reached

\* Entering a handler is no step of the tree.
LEMMA HandlerWork ==
  ASSUME OneThread, MountInv, NEW t \in Threads, Handler(t)
  PROVE  WorkInv' /\ Simulates
<1>1. ASSUME NEW p \in Paths, NEW kind, EnterCreate(t, p, kind)
      PROVE  WorkInv' /\ Simulates
  <2>1. PICK th : th = [Idle EXCEPT !.pc = "get_inode_value", !.path = p, !.old = p,
                                    !.kind = kind]
    OBVIOUS
  <2>2. th.pc = "get_inode_value" /\ th.path = p /\ th.old = p
    BY <2>1 DEF Idle
  <2>3. Enter(t, th) /\ phase = "up" /\ At(t, "idle")
    BY <1>1, <2>1 DEF EnterCreate, Enter
  <2>4. p \notin DOMAIN hash /\ Exists(get_parent_directory(p))
    BY <1>1 DEF EnterCreate, IsFree
  <2>5. IsList(table) => Planned(th)
    BY <2>2, <2>3, <2>4, ResolvedPaths DEF Planned
  <2>6. Work(th)
    BY <2>2, <2>5 DEF Work, CreateInodePcs, LinkPcs
  <2>. QED
    BY <2>3, <2>6, EnterWork
<1>2. ASSUME NEW p \in Paths, Exists(p), EnterDelete(t, p)
      PROVE  WorkInv' /\ Simulates
  <2>1. PICK th : th = [Idle EXCEPT !.pc = "get_table", !.path = p, !.old = p]
    OBVIOUS
  <2>2. th.pc = "get_table" /\ th.path = p
    BY <2>1 DEF Idle
  <2>3. Enter(t, th) /\ phase = "up" /\ At(t, "idle")
    BY <1>2, <2>1 DEF EnterDelete, Enter
  <2>4. IsList(table) => Reached(table, th.path)
    BY <1>2, <2>2, <2>3, ResolvedPaths
  <2>5. Work(th)
    BY <2>2, <2>3, <2>4 DEF Work, CreateInodePcs, LinkPcs, NewPathPcs, FreshPcs
  <2>. QED
    BY <2>3, <2>5, EnterWork
<1>3. ASSUME NEW old \in Paths, NEW new \in Paths, memcached_link(t, old, new)
      PROVE  WorkInv' /\ Simulates
  <2>1. PICK th : th = [Idle EXCEPT !.pc = "get_link_target", !.path = new, !.old = old]
    OBVIOUS
  <2>2. th.pc = "get_link_target" /\ th.path = new /\ th.old = old
    BY <2>1 DEF Idle
  <2>3. /\ Enter(t, th) /\ phase = "up" /\ At(t, "idle")
        /\ new \notin DOMAIN hash /\ Exists(get_parent_directory(new)) /\ Exists(old)
    BY <1>3, <2>1 DEF memcached_link, Enter, IsFree
  <2>4. old # new
    BY <2>3, PathExists
  <2>5. IsList(table) => Planned(th) /\ OldFile(th)
    BY <1>3, <2>2, <2>3, ResolvedPaths DEF Planned, OldFile
  <2>6. Work(th)
    BY <2>2, <2>3, <2>4, <2>5 DEF Work, CreateInodePcs, LinkPcs, NewPathPcs, FreshPcs
  <2>. QED
    BY <2>3, <2>6, EnterWork
<1>. QED
  BY <1>1, <1>2, <1>3 DEF Handler, memcached_mkdir, memcached_create,
     memcached_symlink, memcached_unlink, memcached_rmdir

\* A mount begins the first one, or finds the tree there is.
LEMMA MountWork ==
  ASSUME OneThread, MountInv, NEW t \in Threads, memcached_init(t)
  PROVE  WorkInv' /\ Simulates
<1>1. /\ phase = "down" /\ UNCHANGED <<crashes, faults>>
      /\ TypeInv /\ MemoryOK /\ DownInv /\ t \in DOMAIN thread
  BY TypeInvParts DEF memcached_init, bounds, MountInv, TreeInv, NamesInv, IInv, SyncInv
<1>2. CASE faults # 0
  BY <1>1, <1>2, SimulatesLost DEF WorkInv
<1>3. CASE faults = 0 /\ table = Absent
  <2>1. PICK th : th = [Idle EXCEPT !.pc = "set_empty_table", !.kind = "dir"]
    OBVIOUS
  <2>2. th.pc = "set_empty_table" /\ th.path = Root /\ th.old = Root
    BY <2>1 DEF Idle
  <2>3. /\ table' = Absent /\ inode_value' = Absent /\ phase' = "init"
        /\ thread'[t] = th
    BY <1>1, <1>3, <2>1 DEF memcached_init
  <2>4. Work(th)'
    BY <2>2, <2>3
       DEF Work, IsList, CreateInodePcs, LinkPcs, NewPathPcs, FreshPcs
  <2>5. WorkInv'
    BY <2>2, <2>3, <2>4, WorkMove
  <2>6. inode_value = Absent
    BY <1>3 DEF MountInv, WorkInv
  <2>7. UNCHANGED <<PersistedTree, NextIno, table>> /\ phase # "up" /\ phase' # "up"
    BY <1>1, <1>3, <2>3, <2>6 DEF PersistedTree, NextIno, IsList
  <2>. QED
    BY <1>1, <2>5, <2>7 DEF Simulates, Tree!vars
<1>4. CASE faults = 0 /\ table # Absent
  <2>1. /\ phase' = "up" /\ UNCHANGED <<table, inode_value, thread>>
        /\ table # Garbled /\ table \in Seq(Entry)
    BY <1>1, <1>4 DEF memcached_init, server, MemoryOK
  <2>2. PICK th : th = thread[t]
    OBVIOUS
  <2>3. th.pc = "idle" /\ thread'[t] = th
    BY <1>1, <2>1, <2>2 DEF DownInv
  <2>4. Work(th)'
    BY <2>3 DEF Work, CreateInodePcs, LinkPcs, NewPathPcs, FreshPcs
  <2>5. WorkInv'
    BY <1>4, <2>1, <2>3, <2>4, WorkMove
  <2>6. UNCHANGED <<PersistedTree, NextIno, table>>
    BY <2>1 DEF PersistedTree, NextIno, IsList
  <2>7. PersistedTree # Absent
    BY <1>4, <2>1, TreeIsThere DEF PersistedTree, IsList
  <2>8. Tree!Mount
    BY <1>1, <2>1, <2>6, <2>7 DEF Tree!Mount
  <2>. QED
    BY <2>5, <2>8 DEF Simulates, Tree!Next
<1>. QED
  BY <1>2, <1>3, <1>4

\* Unmounting is that of FileTree.
LEMMA DestroyWork ==
  ASSUME MountInv, memcached_destroy
  PROVE  WorkInv' /\ Simulates
<1>1. Die /\ phase' = "down" /\ UNCHANGED <<server, bounds>> /\ faults' = faults
  BY DEF memcached_destroy, Die, bounds
<1>. QED
  BY <1>1, WorkDie, SimulatesDie DEF MountInv

\* So is a kill,
LEMMA CrashWork ==
  ASSUME MountInv, Crash
  PROVE  WorkInv' /\ Simulates
  BY WorkDie, SimulatesKill DEF MountInv, Crash

\* and a key that memcached drops.
LEMMA EvictWork ==
  ASSUME MountInv, Evict
  PROVE  WorkInv' /\ Simulates
<1>1. faults \in Nat /\ faults' = faults + 1
  BY TypeInvParts DEF Evict, MountInv, TreeInv, NamesInv, IInv, MemoryOK
<1>2. faults' # 0
  BY <1>1
<1>. QED
  BY <1>2, SimulatesLost DEF WorkInv

\* A step that changes nothing.
LEMMA StutterWork ==
  ASSUME MountInv, UNCHANGED vars
  PROVE  WorkInv' /\ Simulates
<1>1. UNCHANGED <<table, inode_value, phase, thread, crashes, faults>>
  BY DEF vars, server, process, bounds
<1>2. WorkInv'
  BY <1>1 DEF MountInv, WorkInv, Work, Planned, OldFile, NewFile, Reached, IsList
<1>. QED
  BY <1>1, <1>2, SimulatesSame

-----------------------------------------------------------------------------
(* The refinement.                                                         *)

\* The invariant of the refinement holds at the beginning,
LEMMA MountInit == Init => MountInv
<1>. SUFFICES ASSUME Init PROVE MountInv
  OBVIOUS
<1>1. WorkInv
  BY DEF Init, WorkInv
<1>. QED
  BY <1>1, TreeInit DEF MountInv

\* where the tree is that of an empty memcached,
LEMMA TreeStarts == Init => Tree!Init
  BY TextAssumption DEF Init, Tree!Init, PersistedTree, NextIno, IsList

\* and every step keeps it and is a step of FileTree or none.
LEMMA MountStep == OneThread => (MountInv /\ [Next]_vars => MountInv' /\ Simulates)
<1>. SUFFICES ASSUME OneThread, MountInv, [Next]_vars
              PROVE  MountInv' /\ Simulates
  OBVIOUS
<1>1. TreeInv'
  BY TreeStep DEF MountInv
<1>2. WorkInv' /\ Simulates
  BY MountWork, HandlerWork, StepWork, DestroyWork, CrashWork, EvictWork, StutterWork
     DEF Next
<1>. QED
  BY <1>1, <1>2 DEF MountInv

(***************************************************************************)
(* The inode table that main.c and data_parser.c keep in memcached is a    *)
(* tree of paths: each handler changes it in one step, a new file gets an  *)
(* id that no file ever had, a kill at any point leaves the tree before or *)
(* after that step, and memcached_init brings it back unchanged.  Until    *)
(* memcached drops a key or the text is garbled.                           *)
(***************************************************************************)
THEOREM TableIsFileTree ==
  ASSUME OneThread
  PROVE  Spec => ImplementsFileTree
<1>1. MountInv /\ [Next]_vars => MountInv' /\ [Tree!Next]_(Tree!vars)
  BY MountStep DEF Simulates
<1>. QED
  BY <1>1, MountInit, TreeStarts, PTL DEF Spec, ImplementsFileTree, Tree!Spec

-----------------------------------------------------------------------------
(* What remove_inode_from_table cuts.                                      *)

(***************************************************************************)
(* The text of a path is found in that of no other one but of those below  *)
(* it, and c holds no newline at data_parser.c:248.                        *)
(***************************************************************************)
PathsStandAlone ==
  /\ StackNewline = {FALSE}
  /\ \A p, q \in Paths : p # Root /\ OccursIn(p, q) => \E k \in 0..Len(q) : p = SubSeq(q, 1, k)

\* The copy of the table that a thread in state th is about to change.
IsCopy(th) ==
  th.pc \in {"set_table", "set_shorter_table"} /\ IsList(table) => th.tbl = table

\* The path that it is about to take out.
IsListed(th) == th.pc \in {"get_table", "set_shorter_table"} => th.path \in DOMAIN hash

CopyInv == \A t \in Threads : IsCopy(thread[t]) /\ IsListed(thread[t])

OrderInv == NoMishap /\ IsList(table) => AncestorsFirst(table)

CutInv == MountInv /\ CopyInv /\ OrderInv

\* The one thread goes to a state that knows what it must.
LEMMA CopyMove ==
  ASSUME OneThread, NEW t \in Threads, NEW th, thread'[t] = th,
         IsCopy(th)', IsListed(th)'
  PROVE  CopyInv'
  BY DEF OneThread, SingleThreaded, CopyInv, IsCopy, IsListed

\* A process that is gone has no copies.
LEMMA CopyDie == Die => CopyInv'
  BY DEF Die, CopyInv, IsCopy, IsListed, Idle

\* Every step of a handler leaves the thread with a fresh copy or none.
LEMMA CopyStep ==
  ASSUME OneThread, MountInv, CopyInv, NEW t \in Threads, Step(t)
  PROVE  CopyInv'
<1>1. thread[t].pc # "idle"
  BY DEF Step, At, SetEmptyTable, SetFirstValue, GetInodeValue, SetInode,
     SetInodeValue, AddEntry, SetTable, AddLink, CountLink, GetTable,
     SetShorterTable, RemoveEntry, DecrementNlink, DeleteBlocks, DeleteInode,
     RemoveLink, GetLinkTarget, IncrementNlink
<1>2. thread[t] \in Thread /\ t \in DOMAIN thread
  BY <1>1, WorkHere
<1>3. CASE Segfault
  BY <1>3, CopyDie DEF Segfault
<1>4. CASE ~ Segfault
  <2>1. PICK th : th = thread'[t]
    OBVIOUS
  <2>2. CASE AddEntry(t)
    <3>1. th = [thread[t] EXCEPT !.pc = "set_table", !.tbl = table] /\ table' = table
      BY <1>2, <1>4, <2>1, <2>2 DEF AddEntry, server
    <3>2. th.pc = "set_table" /\ th.tbl = table
      BY <1>2, <3>1 DEF Thread
    <3>. QED
      BY <2>1, <3>1, <3>2, CopyMove DEF IsCopy, IsListed
  <2>3. CASE GetTable(t)
    <3>1. /\ th = [thread[t] EXCEPT !.pc = "set_shorter_table", !.tbl = table]
          /\ table' = table /\ hash' = hash /\ thread[t].pc = "get_table"
      BY <1>2, <1>4, <2>1, <2>3 DEF GetTable, server, At
    <3>2. th.pc = "set_shorter_table" /\ th.tbl = table /\ th.path = thread[t].path
      BY <1>2, <3>1 DEF Thread
    <3>3. thread[t].path \in DOMAIN hash
      BY <3>1 DEF CopyInv, IsListed
    <3>4. IsCopy(th)' /\ IsListed(th)'
      BY <3>1, <3>2, <3>3 DEF IsCopy, IsListed
    <3>. QED
      BY <2>1, <3>4, CopyMove
  <2>4. CASE ~ AddEntry(t) /\ ~ GetTable(t)
    <3>1. th.pc \notin {"set_table", "get_table", "set_shorter_table"}
      <4>1. CASE Return(t)
        BY <1>2, <2>1, <4>1 DEF Return, Idle
      <4>2. CASE ~ Return(t)
        BY <1>2, <1>4, <2>1, <2>4, <4>2 DEF Step, SetEmptyTable, SetFirstValue,
           GetInodeValue, SetInode, SetInodeValue, SetTable, AddLink, CountLink,
           SetShorterTable, RemoveEntry, DecrementNlink, DeleteBlocks, DeleteInode,
           RemoveLink, GetLinkTarget, IncrementNlink, Goto, Thread
      <4>. QED
        BY <4>1, <4>2
    <3>. QED
      BY <2>1, <3>1, CopyMove DEF IsCopy, IsListed
  <2>. QED
    BY <2>2, <2>3, <2>4
<1>. QED
  BY <1>3, <1>4

\* A handler that deletes a path has found it in the hash table.
LEMMA CopyHandler ==
  ASSUME OneThread, MountInv, NEW t \in Threads, Handler(t)
  PROVE  CopyInv'
<1>1. ASSUME NEW th, Enter(t, th), th.pc \in {"get_inode_value", "get_link_target", "get_table"},
             th.pc = "get_table" => th.path \in DOMAIN hash
      PROVE  CopyInv'
  <2>1. thread[t].pc = "idle" /\ phase # "down"
    BY <1>1 DEF Enter, At
  <2>2. t \in DOMAIN thread
    BY <2>1, WorkHere
  <2>3. thread'[t] = th /\ hash' = hash
    BY <1>1, <2>2 DEF Enter
  <2>. QED
    BY <1>1, <2>3, CopyMove DEF IsCopy, IsListed
<1>2. ASSUME NEW p \in Paths, NEW kind, EnterCreate(t, p, kind)
      PROVE  CopyInv'
  <2>1. PICK th : th = [Idle EXCEPT !.pc = "get_inode_value", !.path = p, !.old = p,
                                    !.kind = kind]
    OBVIOUS
  <2>2. th.pc = "get_inode_value" /\ Enter(t, th)
    BY <1>2, <2>1 DEF Idle, EnterCreate
  <2>. QED
    BY <1>1, <2>2
<1>3. ASSUME NEW p \in Paths, Exists(p), EnterDelete(t, p)
      PROVE  CopyInv'
  <2>1. PICK th : th = [Idle EXCEPT !.pc = "get_table", !.path = p, !.old = p]
    OBVIOUS
  <2>2. th.pc = "get_table" /\ th.path = p /\ Enter(t, th)
    BY <1>3, <2>1 DEF Idle, EnterDelete
  <2>3. p \in DOMAIN hash
    BY <1>3, PathExists
  <2>. QED
    BY <1>1, <2>2, <2>3
<1>4. ASSUME NEW old \in Paths, NEW new \in Paths, memcached_link(t, old, new)
      PROVE  CopyInv'
  <2>1. PICK th : th = [Idle EXCEPT !.pc = "get_link_target", !.path = new, !.old = old]
    OBVIOUS
  <2>2. th.pc = "get_link_target" /\ Enter(t, th)
    BY <1>4, <2>1 DEF Idle, memcached_link
  <2>. QED
    BY <1>1, <2>2
<1>. QED
  BY <1>2, <1>3, <1>4 DEF Handler, memcached_mkdir, memcached_create,
     memcached_symlink, memcached_unlink, memcached_rmdir

\* A mount has no copy yet.
LEMMA CopyMount ==
  ASSUME OneThread, MountInv, NEW t \in Threads, memcached_init(t)
  PROVE  CopyInv'
<1>1. /\ phase = "down" /\ DownInv /\ t \in DOMAIN thread
  BY TypeInvParts DEF memcached_init, MountInv, TreeInv, NamesInv, IInv, SyncInv
<1>2. PICK th : th = thread'[t]
  OBVIOUS
<1>3. th.pc \in {"idle", "set_empty_table"}
  BY <1>1, <1>2 DEF memcached_init, DownInv, Idle
<1>. QED
  BY <1>2, <1>3, CopyMove DEF IsCopy, IsListed

\* With that the copies stay what they are.
LEMMA CopyNext ==
  ASSUME OneThread, MountInv, CopyInv, [Next]_vars
  PROVE  CopyInv'
<1>1. CASE memcached_destroy \/ Crash
  BY <1>1, CopyDie DEF memcached_destroy, Crash
<1>2. CASE Evict
  <2>1. UNCHANGED <<hash, thread>> /\ (table' = table \/ table' = Absent)
    BY <1>2 DEF Evict, process
  <2>. QED
    BY <2>1 DEF CopyInv, IsCopy, IsListed, IsList
<1>3. CASE UNCHANGED vars
  BY <1>3 DEF vars, server, process, CopyInv, IsCopy, IsListed, IsList
<1>. QED
  BY <1>1, <1>2, <1>3, CopyMount, CopyHandler, CopyStep DEF Next

\* A beginning of a beginning of a path is one of the path.
LEMMA BeginningOfBeginning ==
  ASSUME NEW q \in Seq(Names), NEW n \in 0..Len(q), NEW k \in 0..n
  PROVE  /\ SubSeq(q, 1, n) \in Seq(Names) /\ Len(SubSeq(q, 1, n)) = n
         /\ SubSeq(SubSeq(q, 1, n), 1, k) = SubSeq(q, 1, k)
<1>1. Len(q) \in Nat /\ \A j \in 1..Len(q) : q[j] \in Names
  OBVIOUS
<1>2. PICK s, r : s = SubSeq(q, 1, n) /\ r = SubSeq(q, 1, k)
  OBVIOUS
<1>3. s \in Seq(Names) /\ Len(s) = n /\ \A j \in 1..n : s[j] = q[j]
  BY <1>1, <1>2, SubSeqProperties
<1>4. r \in Seq(Names) /\ Len(r) = k /\ \A j \in 1..k : r[j] = q[j]
  BY <1>1, <1>2, SubSeqProperties
<1>5. PICK u : u = SubSeq(s, 1, k)
  OBVIOUS
<1>6. u \in Seq(Names) /\ Len(u) = k /\ \A j \in 1..k : u[j] = s[j]
  BY <1>3, <1>5, SubSeqProperties
<1>7. \A j \in 1..k : u[j] = r[j]
  BY <1>3, <1>4, <1>6
<1>8. u = r
  BY <1>4, <1>6, <1>7
<1>. QED
  BY <1>2, <1>3, <1>5, <1>8

\* strstr finds the entry of a path first when the paths below it come later.
LEMMA EntryIsFirstHit ==
  ASSUME PathsStandAlone, NEW tbl \in Seq(Entry), AncestorsFirst(tbl),
         \A j, k \in DOMAIN tbl : tbl[j].path = tbl[k].path => j = k,
         NEW p \in EntryPaths(tbl), p # Root
  PROVE  \E j \in DOMAIN tbl : IsFirstHit(j, tbl, p)
<1>1. PICK j \in DOMAIN tbl : tbl[j].path = p
  BY DEF EntryPaths
<1>2. /\ DOMAIN tbl = 1..Len(tbl) /\ Len(tbl) \in Nat
      /\ \A k \in DOMAIN tbl : tbl[k].path \in Paths
  <2>1. \A k \in DOMAIN tbl : tbl[k] \in Entry
    OBVIOUS
  <2>. QED
    BY <2>1 DEF Entry
<1>3. ASSUME NEW k \in 1..(j - 1), OccursIn(p, tbl[k].path)
      PROVE  FALSE
  <2>1. k \in DOMAIN tbl /\ k < j
    BY <1>1, <1>2
  <2>2. PICK q : q = tbl[k].path
    OBVIOUS
  <2>3. q \in Paths /\ q \in Seq(Names) /\ p \in Paths
    BY <1>1, <1>2, <2>1, <2>2, PathsAssumption
  <2>4. PICK m \in 0..Len(q) : p = SubSeq(q, 1, m)
    BY <1>3, <2>2, <2>3 DEF PathsStandAlone
  <2>5. CASE m = Len(q)
    <3>1. p = q
      BY <2>3, <2>4, <2>5
    <3>. QED
      BY <1>1, <2>1, <2>2, <3>1
  <2>6. CASE m # Len(q)
    <3>1. m \in 0..(Len(tbl[k].path) - 1)
      BY <2>2, <2>3, <2>4, <2>6
    <3>2. PICK i \in 1..(k - 1) : tbl[i].path = SubSeq(tbl[k].path, 1, m)
      BY <2>1, <3>1 DEF AncestorsFirst
    <3>3. i \in DOMAIN tbl /\ i < j /\ tbl[i].path = tbl[j].path
      BY <1>1, <1>2, <2>1, <2>2, <2>4, <3>2
    <3>. QED
      BY <1>1, <3>3
  <2>. QED
    BY <2>5, <2>6
<1>. QED
  BY <1>1, <1>3 DEF IsFirstHit

\* A path added last comes after the directories that are there.
LEMMA OrderAdd ==
  ASSUME NEW tbl \in Seq(Entry), tbl # Garbled, AncestorsFirst(tbl), NEW p \in Paths,
         \A k \in 0..(Len(p) - 1) : SubSeq(p, 1, k) \in EntryPaths(tbl), NEW i
  PROVE  AncestorsFirst(add_inode_to_table(tbl, p, i))
<1>1. PICK new, e : /\ new = add_inode_to_table(tbl, p, i) /\ e = [path |-> p, ino |-> i]
                    /\ new = Append(tbl, e)
  BY DEF add_inode_to_table
<1>2. /\ Len(tbl) \in Nat /\ DOMAIN tbl = 1..Len(tbl) /\ DOMAIN new = 1..(Len(tbl) + 1)
      /\ \A j \in 1..Len(tbl) : new[j] = tbl[j]
      /\ new[Len(tbl) + 1] = e /\ e.path = p
  BY <1>1
<1>3. ASSUME NEW j \in DOMAIN new, NEW k \in 0..(Len(new[j].path) - 1)
      PROVE  \E m \in 1..(j - 1) : new[m].path = SubSeq(new[j].path, 1, k)
  <2>1. CASE j = Len(tbl) + 1
    <3>1. SubSeq(p, 1, k) \in EntryPaths(tbl)
      BY <1>2, <1>3, <2>1
    <3>2. PICK m \in DOMAIN tbl : tbl[m].path = SubSeq(p, 1, k)
      BY <3>1 DEF EntryPaths
    <3>. QED
      BY <1>2, <2>1, <3>2
  <2>2. CASE j # Len(tbl) + 1
    <3>1. j \in DOMAIN tbl /\ new[j] = tbl[j]
      BY <1>2, <2>2
    <3>2. PICK m \in 1..(j - 1) : tbl[m].path = SubSeq(tbl[j].path, 1, k)
      BY <1>3, <3>1 DEF AncestorsFirst
    <3>. QED
      BY <1>2, <3>1, <3>2
  <2>. QED
    BY <2>1, <2>2
<1>. QED
  BY <1>1, <1>3 DEF AncestorsFirst

\* Taking out a path without paths below it leaves the others in order.
LEMMA OrderRemove ==
  ASSUME NEW tbl \in Seq(Entry), AncestorsFirst(tbl), NEW i \in 1..Len(tbl),
         \A q \in EntryPaths(tbl) : \A k \in 0..(Len(q) - 1) : SubSeq(q, 1, k) # tbl[i].path
  PROVE  AncestorsFirst(RemoveAt(tbl, i))
<1>1. PICK new : new = RemoveAt(tbl, i)
  OBVIOUS
<1>2. /\ Len(tbl) \in Nat /\ DOMAIN tbl = 1..Len(tbl) /\ DOMAIN new = 1..(Len(tbl) - 1)
      /\ \A j \in 1..(Len(tbl) - 1) : new[j] = IF j < i THEN tbl[j] ELSE tbl[j + 1]
  <2>1. /\ new \in Seq(Entry) /\ Len(new) = Len(tbl) - 1
        /\ \A j \in 1..(Len(tbl) - 1) : new[j] = IF j < i THEN tbl[j] ELSE tbl[j + 1]
    BY <1>1, RemoveAtProperties
  <2>. QED
    BY <2>1
<1>3. ASSUME NEW j \in DOMAIN new, NEW k \in 0..(Len(new[j].path) - 1)
      PROVE  \E m \in 1..(j - 1) : new[m].path = SubSeq(new[j].path, 1, k)
  <2>1. PICK o \in DOMAIN tbl : new[j] = tbl[o] /\ o = IF j < i THEN j ELSE j + 1
    BY <1>2
  <2>2. PICK n \in 1..(o - 1) : tbl[n].path = SubSeq(tbl[o].path, 1, k)
    BY <1>3, <2>1 DEF AncestorsFirst
  <2>3. n # i
    BY <1>3, <2>1, <2>2 DEF EntryPaths
  <2>4. PICK m : m = IF n < i THEN n ELSE n - 1
    OBVIOUS
  <2>5. m \in 1..(j - 1) /\ m \in 1..(Len(tbl) - 1) /\ (IF m < i THEN m ELSE m + 1) = n
    BY <1>2, <2>1, <2>2, <2>3, <2>4
  <2>6. new[m] = tbl[n]
    BY <1>2, <2>5
  <2>. QED
    BY <2>1, <2>2, <2>5, <2>6
<1>. QED
  BY <1>1, <1>3 DEF AncestorsFirst

\* Below a path without children there is none, in a list of ancestors first.
LEMMA LeafIsLast ==
  ASSUME NEW tbl \in Seq(Entry), AncestorsFirst(tbl), EntryPaths(tbl) = DOMAIN hash,
         NEW p \in Paths, IsLeaf(p)
  PROVE  \A q \in EntryPaths(tbl) : \A k \in 0..(Len(q) - 1) : SubSeq(q, 1, k) # p
<1>. SUFFICES ASSUME NEW q \in EntryPaths(tbl), NEW k \in 0..(Len(q) - 1),
                     SubSeq(q, 1, k) = p
              PROVE  FALSE
  OBVIOUS
<1>1. PICK j \in DOMAIN tbl : tbl[j].path = q
  BY DEF EntryPaths
<1>2. tbl[j] \in Entry /\ DOMAIN tbl = 1..Len(tbl) /\ Len(tbl) \in Nat
  OBVIOUS
<1>3. q \in Paths /\ q \in Seq(Names) /\ Len(q) \in Nat
  BY <1>1, <1>2, PathsAssumption DEF Entry
<1>4. k + 1 \in 0..Len(q) /\ k \in 0..(k + 1)
  BY <1>3
<1>5. PICK c : c = SubSeq(q, 1, k + 1)
  OBVIOUS
<1>6. c \in Seq(Names) /\ Len(c) = k + 1 /\ SubSeq(c, 1, k) = p
  BY <1>3, <1>4, <1>5, BeginningOfBeginning
<1>7. IsChild(c, p)
  <2>1. c # <<>>
    <3>1. Len(c) # 0
      BY <1>4, <1>6
    <3>. QED
      BY <3>1
  <2>2. SubSeq(c, 1, Len(c) - 1) = p
    <3>1. Len(c) - 1 = k
      BY <1>4, <1>6
    <3>. QED
      BY <1>6, <3>1
  <2>. QED
    BY <1>6, <2>1, <2>2 DEF IsChild, get_parent_directory, Root
<1>8. c \in EntryPaths(tbl)
  <2>1. CASE k + 1 = Len(q)
    <3>1. SubSeq(q, 1, Len(q)) = q
      BY <1>3
    <3>2. c = q
      BY <1>5, <2>1, <3>1
    <3>. QED
      BY <3>2
  <2>2. CASE k + 1 # Len(q)
    <3>1. k + 1 \in 0..(Len(tbl[j].path) - 1)
      BY <1>1, <1>3, <2>2
    <3>2. PICK i \in 1..(j - 1) : tbl[i].path = SubSeq(tbl[j].path, 1, k + 1)
      BY <3>1 DEF AncestorsFirst
    <3>3. i \in DOMAIN tbl /\ tbl[i].path = c
      BY <1>1, <1>2, <1>5, <3>2
    <3>. QED
      BY <3>3 DEF EntryPaths
  <2>. QED
    BY <2>1, <2>2
<1>. QED
  BY <1>7, <1>8 DEF IsLeaf

\* The list stays in order when a handler stores it.
LEMMA OrderStep ==
  ASSUME OneThread, CutInv, NEW t \in Threads, SetTable(t) \/ SetShorterTable(t),
         crashes' = 0, faults' = 0, IsList(table')
  PROVE  AncestorsFirst(table')
<1>1. PICK p, tbl : p = thread[t].path /\ tbl = thread[t].tbl
  OBVIOUS
<1>2. /\ thread[t].pc \in {"set_table", "set_shorter_table"} /\ thread[t] \in Thread
      /\ t \in DOMAIN thread /\ WellFormed(thread[t]) /\ SyncAt(t) /\ MemoryOK
  BY WorkHere DEF SetTable, SetShorterTable, At, CutInv
<1>3. p \in Paths /\ tbl \in Seq(Entry) \cup {Garbled} /\ crashes = 0 /\ faults = 0
  BY <1>1, <1>2 DEF Thread, WellFormed, SetTable, SetShorterTable, Segfault, bounds
<1>4. NoMishap /\ Work(thread[t]) /\ table # Absent
  BY <1>2, <1>3, WorkHere DEF NoMishap, CutInv
<1>5. tbl = table
  BY <1>1, <1>2, <1>4 DEF Work
<1>6. CASE SetTable(t)
  <2>1. table' = add_inode_to_table(tbl, p, thread[t].ino) /\ thread[t].pc = "set_table"
    BY <1>1, <1>6 DEF SetTable, At
  <2>2. tbl # Garbled /\ IsList(tbl) /\ tbl \in Seq(Entry)
    BY <1>3, <1>4, <1>5, <2>1 DEF IsList, add_inode_to_table
  <2>3. AncestorsFirst(tbl)
    BY <1>4, <1>5, <2>2 DEF CutInv, OrderInv
  <2>4. Planned(thread[t])
    BY <1>4, <1>5, <2>1, <2>2 DEF Work
  <2>5. p \in Seq(Names) /\ Len(p) \in Nat
    BY <1>3, PathsAssumption
  <2>6. ASSUME NEW k \in 0..(Len(p) - 1)
        PROVE  SubSeq(p, 1, k) \in EntryPaths(tbl)
    <3>1. phase # "init"
      <4>1. p # Root
        BY <2>5, <2>6 DEF Root
      <4>. QED
        BY <1>1, <2>4, <4>1 DEF Planned
    <3>2. PICK d : d = get_parent_directory(p)
      OBVIOUS
    <3>3. Reached(tbl, d)
      BY <1>1, <1>5, <2>4, <3>1, <3>2 DEF Planned
    <3>4. PICK n : n = Len(p) - 1
      OBVIOUS
    <3>5. n \in 0..Len(p) /\ k \in 0..n /\ d = SubSeq(p, 1, n)
      BY <2>5, <2>6, <3>2, <3>4 DEF get_parent_directory
    <3>6. Len(d) = n /\ SubSeq(d, 1, k) = SubSeq(p, 1, k)
      BY <2>5, <3>5, BeginningOfBeginning
    <3>. QED
      BY <3>3, <3>5, <3>6 DEF Reached
  <2>. QED
    BY <1>3, <2>1, <2>2, <2>3, <2>6, OrderAdd
<1>7. CASE SetShorterTable(t)
  <2>1. PICK newline \in StackNewline :
          table' = remove_inode_from_table(tbl, p, newline) \/ table' = table
    BY <1>1, <1>7 DEF SetShorterTable, Segfault, server
  <2>2. thread[t].pc = "set_shorter_table"
    BY <1>7 DEF SetShorterTable, At
  <2>3. tbl # Garbled /\ IsList(tbl) /\ tbl \in Seq(Entry)
    BY <1>3, <1>4, <1>5, <2>1 DEF IsList, remove_inode_from_table
  <2>4. AncestorsFirst(tbl)
    BY <1>4, <1>5, <2>3 DEF CutInv, OrderInv
  <2>5. CASE table' = table
    BY <1>5, <2>4, <2>5
  <2>6. CASE table' = remove_inode_from_table(tbl, p, newline)
    <3>1. PICK i : i = CHOOSE j \in DOMAIN tbl : IsFirstHit(j, tbl, p)
      OBVIOUS
    <3>2. table' = RemoveAt(tbl, i) /\ \E j \in DOMAIN tbl : IsFirstHit(j, tbl, p)
      BY <2>3, <2>6, <3>1 DEF remove_inode_from_table, IsList
    <3>3. i \in 1..Len(tbl) /\ tbl[i].path = p
      BY <2>3, <3>1, <3>2 DEF IsFirstHit
    <3>4. EntryPaths(tbl) = DOMAIN hash
      BY <1>2, <1>5, <2>2, <2>3 DEF SyncAt, Persisted, Agree
    <3>5. IsLeaf(p)
      BY <1>1, <1>2, <1>4, <2>2, LinkedHere DEF InDir, CutInv, MountInv
    <3>. QED
      BY <1>3, <2>3, <2>4, <3>2, <3>3, <3>4, <3>5, LeafIsLast, OrderRemove
  <2>. QED
    BY <2>1, <2>5, <2>6
<1>. QED
  BY <1>6, <1>7

\* A garbled text is not a key that is not there, nor an empty list.
LEMMA GarbledIsThere == Garbled # Absent /\ Garbled # <<>>
<1>1. <<>> \in Seq(Names)
  OBVIOUS
<1>. QED
  BY <1>1, TextAssumption

\* To enter a handler changes nothing yet.
LEMMA HandlersOnlyEnter ==
  ASSUME NEW t \in Threads, Handler(t)
  PROVE  UNCHANGED <<server, bounds>>
<1>1. ASSUME NEW p, NEW kind, EnterCreate(t, p, kind)
      PROVE  UNCHANGED <<server, bounds>>
  BY <1>1 DEF EnterCreate, Enter
<1>2. ASSUME NEW p, EnterDelete(t, p)
      PROVE  UNCHANGED <<server, bounds>>
  BY <1>2 DEF EnterDelete, Enter
<1>3. ASSUME NEW old, NEW new, memcached_link(t, old, new)
      PROVE  UNCHANGED <<server, bounds>>
  BY <1>3 DEF memcached_link, Enter
<1>. QED
  BY <1>1, <1>2, <1>3 DEF Handler, memcached_mkdir, memcached_create,
     memcached_symlink, memcached_unlink, memcached_rmdir

\* Only a handler at work changes the table, unless memcached drops it.
LEMMA TableSteps ==
  ASSUME [Next]_vars, table' # Absent, table' # table
  PROVE  \E t \in Threads : Step(t)
<1>1. ASSUME NEW t \in Threads, memcached_init(t)
      PROVE  FALSE
  <2>1. table' = Absent \/ table' = table
    BY <1>1 DEF memcached_init, server
  <2>. QED
    BY <2>1
<1>2. ASSUME NEW t \in Threads, Handler(t)
      PROVE  FALSE
  BY <1>2, HandlersOnlyEnter DEF server
<1>3. CASE memcached_destroy \/ Crash \/ Evict \/ UNCHANGED vars
  BY <1>3 DEF memcached_destroy, Crash, Evict, vars, server
<1>. QED
  BY <1>1, <1>2, <1>3 DEF Next

\* And after the first step of a mount only at the set of a new table.
LEMMA SetSteps ==
  ASSUME [Next]_vars, table' # Absent, table' # table, table' # <<>>
  PROVE  \E t \in Threads : SetTable(t) \/ SetShorterTable(t)
<1>1. PICK t \in Threads : Step(t)
  BY TableSteps
<1>2. SetTable(t) \/ SetShorterTable(t)
  BY <1>1 DEF Step, SetEmptyTable, SetFirstValue, GetInodeValue, SetInode,
     SetInodeValue, AddEntry, AddLink, CountLink, GetTable, RemoveEntry,
     DecrementNlink, DeleteBlocks, DeleteInode, RemoveLink, GetLinkTarget,
     IncrementNlink, Segfault, server
<1>. QED
  BY <1>2

\* A step without mishap, after none.
LEMMA StillNoMishap ==
  ASSUME MountInv, [Next]_vars, NoMishap'
  PROVE  NoMishap
<1>1. crashes \in Nat /\ faults \in Nat
  BY TypeInvParts DEF MountInv, TreeInv, NamesInv, IInv, MemoryOK
<1>2. crashes' \in {crashes, crashes + 1} /\ faults' \in {faults, faults + 1}
  <2>1. ASSUME NEW t \in Threads, memcached_init(t) \/ Handler(t)
        PROVE  UNCHANGED <<crashes, faults>>
    <3>1. CASE Handler(t)
      BY <3>1, HandlersOnlyEnter DEF bounds
    <3>2. CASE memcached_init(t)
      BY <3>2 DEF memcached_init, bounds
    <3>. QED
      BY <2>1, <3>1, <3>2
  <2>2. CASE memcached_destroy \/ Crash \/ Evict \/ UNCHANGED vars
    BY <2>2 DEF memcached_destroy, Crash, Evict, vars, bounds
  <2>3. ASSUME NEW t \in Threads, Step(t)
        PROVE  crashes' = crashes /\ faults' \in {faults, faults + 1}
    BY <2>3 DEF Step, SetEmptyTable, SetFirstValue, GetInodeValue, SetInode,
       SetInodeValue, AddEntry, SetTable, AddLink, CountLink, GetTable,
       SetShorterTable, RemoveEntry, DecrementNlink, DeleteBlocks, DeleteInode,
       RemoveLink, GetLinkTarget, IncrementNlink, Segfault, bounds
  <2>. QED
    BY <2>1, <2>2, <2>3 DEF Next
<1>. QED
  BY <1>1, <1>2 DEF NoMishap

\* The invariant holds at the beginning and is kept.
LEMMA CutInit == Init => CutInv
<1>. SUFFICES ASSUME Init PROVE CutInv
  OBVIOUS
<1>1. CopyInv
  BY DEF Init, CopyInv, IsCopy, IsListed, Idle
<1>2. OrderInv
  BY DEF Init, OrderInv, IsList
<1>. QED
  BY <1>1, <1>2, MountInit DEF CutInv

\* The invariant of the cuts after any step.
LEMMA CutStep == OneThread => (CutInv /\ [Next]_vars => CutInv')
<1>. SUFFICES ASSUME OneThread, CutInv, [Next]_vars
              PROVE  CutInv'
  OBVIOUS
<1>1. MountInv' /\ CopyInv'
  BY MountStep, CopyNext DEF CutInv
<1>2. ASSUME NoMishap', IsList(table')
      PROVE  AncestorsFirst(table')
  <2>1. NoMishap
    BY <1>2, StillNoMishap DEF CutInv
  <2>2. CASE table' = table
    BY <1>2, <2>1, <2>2 DEF CutInv, OrderInv
  <2>3. CASE table' = <<>>
    BY <2>3 DEF AncestorsFirst
  <2>4. CASE table' # table /\ table' # <<>>
    BY <1>2, <2>4, SetSteps, OrderStep DEF NoMishap, IsList
  <2>. QED
    BY <2>2, <2>3, <2>4
<1>3. OrderInv'
  BY <1>2 DEF OrderInv, NoMishap, IsList, AncestorsFirst
<1>. QED
  BY <1>1, <1>3 DEF CutInv

\* A list in order stays one: the entry that is looked for is the one that is cut.
LEMMA StepKeepsList ==
  ASSUME OneThread, PathsStandAlone, CutInv, NEW t \in Threads,
         SetTable(t) \/ SetShorterTable(t), IsList(table), AncestorsFirst(table)
  PROVE  table' # Garbled
<1>1. PICK p, tbl : p = thread[t].path /\ tbl = thread[t].tbl
  OBVIOUS
<1>2. /\ thread[t].pc \in {"set_table", "set_shorter_table"} /\ thread[t] \in Thread
      /\ WellFormed(thread[t]) /\ SyncAt(t) /\ MemoryOK
  BY WorkHere DEF SetTable, SetShorterTable, At, CutInv
<1>3. tbl = table /\ tbl \in Seq(Entry) /\ tbl # Garbled
  BY <1>1, <1>2 DEF CutInv, CopyInv, IsCopy, MemoryOK, IsList
<1>4. CASE SetTable(t)
  <2>1. table' = add_inode_to_table(tbl, p, thread[t].ino) /\ p \in Paths /\ thread[t].ino \in Nat
    BY <1>1, <1>2, <1>4 DEF SetTable, Thread
  <2>2. table' = Append(tbl, [path |-> p, ino |-> thread[t].ino])
    BY <1>3, <2>1 DEF add_inode_to_table
  <2>3. table' \in Seq(Entry)
    BY <1>3, <2>1, <2>2 DEF Entry
  <2>. QED
    BY <2>3, AbsentAssumption
<1>5. CASE SetShorterTable(t)
  <2>1. PICK newline \in StackNewline :
          table' = remove_inode_from_table(tbl, p, newline) \/ table' = table
    BY <1>1, <1>5 DEF SetShorterTable, Segfault, server
  <2>2. thread[t].pc = "set_shorter_table" /\ newline = FALSE
    BY <1>5, <2>1 DEF SetShorterTable, At, PathsStandAlone
  <2>3. Agree(tbl, hash) /\ p \in DOMAIN hash /\ p # Root
    BY <1>1, <1>2, <1>3, <2>2
       DEF SyncAt, Persisted, CutInv, CopyInv, IsListed, WellFormed
  <2>4. PICK i : i = CHOOSE j \in DOMAIN tbl : IsFirstHit(j, tbl, p)
    OBVIOUS
  <2>5. \E j \in DOMAIN tbl : IsFirstHit(j, tbl, p)
    BY <1>3, <2>3, EntryIsFirstHit DEF Agree
  <2>6. i \in 1..Len(tbl)
    BY <1>3, <2>4, <2>5
  <2>7. remove_inode_from_table(tbl, p, newline) \in {Absent, RemoveAt(tbl, i)}
    BY <1>3, <2>2, <2>4, <2>5 DEF remove_inode_from_table
  <2>8. RemoveAt(tbl, i) \in Seq(Entry)
    BY <1>3, <2>6, RemoveAtProperties
  <2>. QED
    BY <1>3, <2>1, <2>7, <2>8, AbsentAssumption, TextAssumption
<1>. QED
  BY <1>4, <1>5

(***************************************************************************)
(* With one worker thread, paths that occur in no others but those below   *)
(* them, and no newline in c at data_parser.c:248, whatever is killed,     *)
(* dropped or refused: as long as each directory is listed before what     *)
(* lies in it, as it is until a kill or a fault, remove_inode_from_table   *)
(* leaves a list that lacks the path to be deleted and no other.           *)
(***************************************************************************)
THEOREM DurableEntries ==
  ASSUME OneThread, PathsStandAlone
  PROVE  Spec => EntriesAreDurable
<1>1. CutInv /\ [Next]_vars => [KeepsEntries]_table
  <2>. SUFFICES ASSUME CutInv, [Next]_vars, table' # table, IsList(table), table' # Absent
                PROVE  KeepsEntries
    BY DEF KeepsEntries
  <2>1. ASSUME NoMishap \/ AncestorsFirst(table), table' = Garbled
        PROVE  FALSE
    <3>1. AncestorsFirst(table)
      BY <2>1 DEF CutInv, OrderInv
    <3>. QED
      BY <2>1, <3>1, SetSteps, StepKeepsList, GarbledIsThere
  <2>2. ASSUME IsList(table'), NEW p \in EntryPaths(table) \ EntryPaths(table')
        PROVE  \E t \in Threads : At(t, "set_shorter_table") /\ thread[t].path = p
    <3>1. \E t \in Threads : Step(t)
      BY <2>2, TableSteps
    <3>. QED
      BY <2>2, <3>1, StepKeepsEntries
         DEF CutInv, MountInv, TreeInv, NamesInv, OneThread
  <2>. QED
    BY <2>1, <2>2 DEF KeepsEntries
<1>. QED
  BY <1>1, CutInit, CutStep, PTL DEF Spec, EntriesAreDurable
=============================================================================
