------------------------------ MODULE FileTree ------------------------------
(***************************************************************************)
(* What the name space promises: a tree of paths, each standing for one    *)
(* inode.  Every operation changes the tree in a single step, so a process *)
(* that dies has either done it or left no trace of it; a mount brings     *)
(* back exactly the tree there was.  Ids are reserved one after the other, *)
(* and only the last one reserved is given to a new file: no id is used    *)
(* twice, whether or not its first file still exists.  The promise ends    *)
(* when memcached loses a key or the text that keeps the tree is damaged.  *)
(***************************************************************************)
EXTENDS Integers, Sequences

CONSTANTS
  Paths,            \* sequences of names; the root is <<>>
  NoTree            \* memcached holds no file system yet

VARIABLES
  tree,             \* path -> inode id, NoTree before the first mount
  next,             \* the next id to reserve
  up,               \* is the file system mounted?
  tidy,             \* was no process killed so far?
  intact            \* is everything that was stored still there?

vars == <<tree, next, up, tidy, intact>>

Root == <<>>

Parent(p) == SubSeq(p, 1, Len(p) - 1)

Bare == [p \in {} |-> 0]

With(f, p, i) == [q \in DOMAIN f \cup {p} |-> IF q = p THEN i ELSE f[q]]

Without(f, p) == [q \in DOMAIN f \ {p} |-> f[q]]

IsReached(p) == \A k \in 0..Len(p) : SubSeq(p, 1, k) \in DOMAIN tree

Init ==
  /\ tree = NoTree /\ next = 0
  /\ up = FALSE /\ tidy = TRUE /\ intact = TRUE

-----------------------------------------------------------------------------
(* The first mount makes an empty tree, then its root.  Killed in between  *)
(* it leaves a tree that no later mount gives a root.                      *)

Format ==
  /\ ~ up /\ tree = NoTree
  /\ tree' = Bare
  /\ UNCHANGED <<next, up, tidy, intact>>

Reserve ==
  /\ up \/ tree = Bare
  /\ next' = next + 1
  /\ UNCHANGED <<tree, up, tidy, intact>>

MakeRoot ==
  /\ ~ up /\ tree = Bare /\ next > 0
  /\ tree' = With(tree, Root, next - 1)
  /\ up' = TRUE
  /\ UNCHANGED <<next, tidy, intact>>

Mount ==
  /\ ~ up /\ tree # NoTree
  /\ up' = TRUE
  /\ UNCHANGED <<tree, next, tidy, intact>>

Unmount ==
  /\ up /\ up' = FALSE
  /\ UNCHANGED <<tree, next, tidy, intact>>

Kill ==
  /\ up' = FALSE /\ tidy' = FALSE
  /\ UNCHANGED <<tree, next, intact>>

-----------------------------------------------------------------------------

IsNew(p) == p \in Paths \ DOMAIN tree /\ IsReached(Parent(p))

Create(p) ==
  /\ up /\ IsNew(p)
  /\ \A q \in DOMAIN tree : tree[q] < next - 1
  /\ tree' = With(tree, p, next - 1)
  /\ UNCHANGED <<next, up, tidy, intact>>

Link(old, new) ==
  /\ up /\ IsReached(old) /\ IsNew(new)
  /\ tree' = With(tree, new, tree[old])
  /\ UNCHANGED <<next, up, tidy, intact>>

\* After a kill the directory that p names may list less than it has.
Remove(p) ==
  /\ up /\ p # Root /\ IsReached(p)
  /\ tidy => \A q \in DOMAIN tree : q # Root => Parent(q) # p
  /\ tree' = Without(tree, p)
  /\ UNCHANGED <<next, up, tidy, intact>>

Lose == ~ intact'

Next ==
  \/ Format \/ Reserve \/ MakeRoot \/ Mount \/ Unmount \/ Kill \/ Lose
  \/ \E p \in Paths : Create(p) \/ Remove(p)
  \/ \E old, new \in Paths : Link(old, new)

Spec == Init /\ [][Next]_vars
=============================================================================
