----------------------------- MODULE Hashtable -----------------------------
(***************************************************************************)
(* The process-wide inode_table of hashtable.c, with the macros of uthash  *)
(* it expands to: entries in a doubly linked list in the order of their    *)
(* insertion, and in one doubly linked chain per bucket.                   *)
(*                                                                         *)
(* An entry is known by its path: two entries never have the same path,    *)
(* because the kernel looks a name up under the lock of its directory      *)
(* before it creates it.  inode_value is set before an entry is in the     *)
(* table and never changed, so it is left out.  Nothing here is locked:    *)
(* handlers of different directories run between each other's steps.      *)
(***************************************************************************)
EXTENDS Integers, FiniteSets, SequencesExt

CONSTANTS
  Threads,
  Paths, Root,
  Null,
  Hash,             \* path -> hash value, as far as bucket numbers need it
  InitialBuckets,   \* HASH_INITIAL_NUM_BUCKETS
  Capacity,         \* HASH_BKT_CAPACITY_THRESH
  MaxBuckets        \* bound on the number of buckets

ASSUME HashAssumption ==
  /\ Root \in Paths /\ Null \notin Paths /\ IsFiniteSet(Paths)
  /\ Hash \in [Paths -> Nat]
  /\ InitialBuckets \in Nat \ {0} /\ Capacity \in Nat \ {0}
  /\ MaxBuckets \in Nat

VARIABLES
  node,       \* path -> the links of its UT_hash_handle
  head,       \* inode_table: the first entry, or Null
  tbl,        \* the UT_hash_table of the entries, when there is one
  thread,     \* where each thread is
  entries     \* history: the paths that were added and not removed

vars == <<node, head, tbl, thread, entries>>

Loose == [prev |-> Null, next |-> Null, hh_prev |-> Null, hh_next |-> Null]

EmptyBucket == [hh_head |-> Null, count |-> 0, expand_mult |-> 0]

NewTable ==
  [buckets |-> [b \in 0..(InitialBuckets - 1) |-> EmptyBucket], num_items |-> 0,
   tail |-> Null, ineff_expands |-> 0, noexpand |-> FALSE]

Idle == [pc |-> "idle", op |-> "none", path |-> Null, out |-> Null, size |-> 0]

Init ==
  /\ node = [p \in Paths |-> Loose]
  /\ head = Null /\ tbl = NewTable
  /\ thread = [t \in Threads |-> Idle]
  /\ entries = {}

-----------------------------------------------------------------------------
(* The structure.                                                          *)

\* The entries met from start on.  A list with a cycle gives too many.
Walk(next, start) ==
  LET at[k \in 1..(Cardinality(Paths) + 1)] ==
        IF k = 1 THEN start ELSE IF at[k - 1] = Null THEN Null ELSE next[at[k - 1]]
  IN  [k \in 1..Cardinality({j \in DOMAIN at : at[j] # Null}) |-> at[k]]

Chain(nodes, buckets, b) ==
  Walk([p \in Paths |-> nodes[p].hh_next], buckets[b].hh_head)

Size(buckets) == Cardinality(DOMAIN buckets)

Bucket(p, size) == Hash[p] % size

\* The entry before place k, and the first and the last one at the places ks.
Before(list, k) == IF k = 1 THEN Null ELSE list[k - 1]
FirstAt(list, ks) == IF ks = {} THEN Null ELSE list[Min(ks)]
LastAt(list, ks) == IF ks = {} THEN Null ELSE list[Max(ks)]

\* The delay that HASH_EXPAND_BUCKETS gives a bucket while it fills it.
ExpandMult(count, ideal) ==
  LET mult[c \in 0..count] ==
        IF c <= ideal THEN 0
        ELSE mult[c - 1] + (IF c > mult[c - 1] * ideal THEN 1 ELSE 0)
  IN  mult[count]

IsFull(bucket) == bucket.count >= (bucket.expand_mult + 1) * Capacity

\* The places of a chain whose entries go to bucket b of n.
Part(chain, b, n) == {k \in DOMAIN chain : Bucket(chain[k], n) = b}

\* The handle of the k-th entry of a chain after twice size buckets are filled:
\* each entry goes before those of its part that came earlier.
Moved(nodes, size, chain, k) ==
  LET part == Part(chain, Bucket(chain[k], 2 * size), 2 * size)
  IN  [nodes[chain[k]] EXCEPT !.hh_next = LastAt(chain, {j \in part : j < k}),
                              !.hh_prev = FirstAt(chain, {j \in part : j > k})]

\* All entries in the new chains.
Relinked(nodes, buckets) ==
  [p \in Paths |->
     LET chain == Chain(nodes, buckets, Bucket(p, Size(buckets)))
     IN  IF \E k \in DOMAIN chain : chain[k] = p
         THEN Moved(nodes, Size(buckets), chain, CHOOSE k \in DOMAIN chain : chain[k] = p)
         ELSE nodes[p]]

\* Bucket b of n, which gets its part of an old chain.
NewBucket(chain, b, n, ideal) ==
  LET part == Part(chain, b, n)
  IN  [hh_head |-> LastAt(chain, part), count |-> Cardinality(part),
       expand_mult |-> ExpandMult(Cardinality(part), ideal)]

\* HASH_EXPAND_BUCKETS: twice the buckets, each old chain parted in two and turned
\* round, and no more expansions after two in a row that leave over half of the
\* entries behind an ideal chain.  The new nodes and the new table.
Expand(nodes, t) ==
  LET size == Size(t.buckets)
      n == 2 * size
      ideal == (t.num_items + n - 1) \div n
      buckets == [b \in 0..(n - 1) |->
                    NewBucket(Chain(nodes, t.buckets, b % size), b, n, ideal)]
      nonideal == Cardinality(UNION {{b} \X ((ideal + 1)..buckets[b].count) :
                                       b \in DOMAIN buckets})
      ineff == IF nonideal > t.num_items \div 2 THEN t.ineff_expands + 1 ELSE 0
  IN  [nodes |-> Relinked(nodes, t.buckets),
       tbl |-> [t EXCEPT !.buckets = buckets, !.ineff_expands = ineff,
                         !.noexpand = @ \/ ineff > 1]]

-----------------------------------------------------------------------------
(* Handlers.                                                               *)

At(t, pc) == thread[t].pc = pc

IsAlone == \A t \in Threads : At(t, "idle")

\* memcached_init adds the root and memcached_destroy frees the table while no
\* handler runs; the kernel keeps a path that comes or goes from the others.
IsFree(t, p) ==
  /\ At(t, "idle")
  /\ \A u \in Threads :
       /\ thread[u].op # "free" /\ (thread[u].op = "add" => thread[u].path # Root)
       /\ thread[u].path # p \/ thread[u].op = "get"

Return(t) == thread' = [thread EXCEPT ![t] = Idle]

\* HASH_APPEND_LIST.
Appended(p) ==
  [node EXCEPT ![p].prev = tbl.tail, ![tbl.tail].next = p]

\* Mutant: the entries of the table are not counted.
Counted_M(table, p, b) == [table EXCEPT !.tail = p, !.buckets[b].count = @ + 1]

\* The table with p at its end and in bucket b.
Counted(table, p, b) ==
  [table EXCEPT !.tail = p, !.num_items = @ + 1, !.buckets[b].count = @ + 1]

\* hashtable_add_entry: the entry goes to the end of the list, is counted and
\* gets the head of its chain as its successor.  The root is the first entry.
hashtable_add_entry(t, p) ==
  LET table == IF head = Null THEN NewTable ELSE tbl
      size == Size(table.buckets)
      b == Bucket(p, size)
  IN  /\ size < MaxBuckets \/ table.noexpand
      /\ p \notin entries /\ IsFree(t, p) /\ \A u \in Threads : thread[u].path # p
      /\ IF p = Root THEN IsAlone ELSE Root \in entries
      /\ head' = IF head = Null THEN p ELSE head
      /\ node' = [(IF head = Null THEN node ELSE Appended(p)) EXCEPT
                    ![p].hh_next = table.buckets[b].hh_head]
      /\ tbl' = Counted(table, p, b)
      /\ thread' = [thread EXCEPT ![t] =
                      [Idle EXCEPT !.pc = "link", !.op = "add", !.path = p, !.size = size]]
      /\ UNCHANGED entries

\* HASH_ADD_TO_BKT: the entry becomes the head of its chain, which may be one
\* too many.  Buckets that another thread has replaced are freed memory.
LinkEntry(t) ==
  LET p == thread[t].path
      b == Bucket(p, thread[t].size)
      first == tbl.buckets[b].hh_head
      nodes == [q \in Paths |-> IF q = first THEN [node[q] EXCEPT !.hh_prev = p]
                                ELSE node[q]]
      linked == [tbl EXCEPT !.buckets[b].hh_head = p]
  IN  /\ At(t, "link")
      /\ IF thread[t].size # Size(tbl.buckets)
         THEN UNCHANGED <<node, tbl>>
         ELSE IF IsFull(linked.buckets[b]) /\ ~ tbl.noexpand
         THEN LET new == Expand(nodes, linked)
              IN  node' = new.nodes /\ tbl' = new.tbl
         ELSE node' = nodes /\ tbl' = linked
      /\ entries' = entries \cup {p}
      /\ Return(t)
      /\ UNCHANGED head

\* HASH_FIND, in hashable_get_entry and hashtable_remove_entry.  The root is
\* never removed.
Find(t, op, p) ==
  /\ thread' = [thread EXCEPT ![t] =
       [pc |-> "compare", op |-> op, path |-> p, size |-> 0,
        out |-> IF head = Null THEN Null
                ELSE tbl.buckets[Bucket(p, Size(tbl.buckets))].hh_head]]
  /\ UNCHANGED <<node, head, tbl>>

hashable_get_entry(t, p) ==
  /\ IsFree(t, p) /\ Find(t, "get", p)
  /\ UNCHANGED entries

hashtable_remove_entry(t, p) ==
  /\ p \in entries \ {Root} /\ IsFree(t, p) /\ Find(t, "remove", p)
  /\ entries' = entries \ {p}

\* HASH_FIND_IN_BKT looks at the next entry of the chain.
Compare(t) ==
  LET out == thread[t].out
      next == IF out = Null THEN Null ELSE node[out].hh_next
  IN  /\ At(t, "compare") /\ out # Null /\ out # thread[t].path
      /\ thread' = [thread EXCEPT ![t].out = next]
      /\ UNCHANGED <<node, head, tbl, entries>>

Found(t) == At(t, "compare") /\ thread[t].out = thread[t].path

NotFound(t) == At(t, "compare") /\ thread[t].out = Null

\* hashable_get_entry returns the value of the entry, or -1.
ReturnGet(t) ==
  /\ thread[t].op = "get" /\ (Found(t) \/ NotFound(t))
  /\ Return(t)
  /\ UNCHANGED <<node, head, tbl, entries>>

\* Mutant: only the successor in the chain is told.
ChainWithout_M(p) == [q \in Paths |->
  IF q = node[p].hh_next THEN [node[q] EXCEPT !.hh_prev = node[p].hh_prev]
  ELSE node[q]]

\* HASH_DEL_IN_BKT: the neighbours of p in its chain.
ChainWithout(p) == [q \in Paths |->
  IF q = node[p].hh_prev THEN [node[q] EXCEPT !.hh_next = node[p].hh_next]
  ELSE IF q = node[p].hh_next THEN [node[q] EXCEPT !.hh_prev = node[p].hh_prev]
  ELSE node[q]]

\* HASH_DELETE, then the entry is freed.
Delete(p) ==
  LET n == node[p]
      b == Bucket(p, Size(tbl.buckets))
      bucket == tbl.buckets[b]
      chained == ChainWithout(p)
  IN  IF n.prev = Null /\ n.next = Null
      THEN head' = Null /\ tbl' = NewTable /\ node' = [node EXCEPT ![p] = Loose]
      ELSE /\ head' = IF n.prev = Null THEN n.next ELSE head
           /\ tbl' = [tbl EXCEPT
                !.tail = IF @ = p THEN n.prev ELSE @, !.num_items = @ - 1,
                !.buckets[b] = [bucket EXCEPT !.count = @ - 1,
                                              !.hh_head = IF @ = p THEN n.hh_next ELSE @]]
           /\ node' = [q \in Paths |->
                IF q = p THEN Loose
                ELSE [chained[q] EXCEPT !.next = IF q = n.prev THEN n.next ELSE @,
                                        !.prev = IF q = n.next THEN n.prev ELSE @]]

Die ==
  /\ node' = [p \in Paths |-> Loose] /\ head' = Null /\ tbl' = NewTable
  /\ thread' = [t \in Threads |-> Idle] /\ entries' = {}

\* Nothing found is dereferenced: the process dies with its table.
DeleteEntry(t) ==
  /\ thread[t].op = "remove" /\ (Found(t) \/ NotFound(t))
  /\ IF NotFound(t) THEN Die
     ELSE Delete(thread[t].path) /\ Return(t) /\ UNCHANGED entries

\* Mutant: the iterator follows the entry after it is freed.
Successor_M(p) == Null

\* HASH_ITER saves the next entry before the loop frees this one.
Successor(p) == node[p].next

\* hashtable_free, from memcached_destroy: no handler runs any more.
hashtable_free(t) ==
  /\ IsAlone /\ head # Null
  /\ thread' = [thread EXCEPT ![t] = [Idle EXCEPT !.pc = "free", !.op = "free", !.out = head]]
  /\ UNCHANGED <<node, head, tbl, entries>>

FreeEntry(t) ==
  LET p == thread[t].out
  IN  /\ At(t, "free")
      /\ Delete(p)
      /\ IF Successor(p) = Null
         THEN Return(t) /\ entries' = {}
         ELSE thread' = [thread EXCEPT ![t].out = Successor(p)] /\ UNCHANGED entries

Next ==
  \E t \in Threads :
    \/ \E p \in Paths :
         hashtable_add_entry(t, p) \/ hashable_get_entry(t, p) \/ hashtable_remove_entry(t, p)
    \/ LinkEntry(t) \/ Compare(t) \/ ReturnGet(t) \/ DeleteEntry(t)
    \/ hashtable_free(t) \/ FreeEntry(t)

Spec == Init /\ [][Next]_vars

-----------------------------------------------------------------------------
(* Properties.                                                             *)

ChainOf(b) == Chain(node, tbl.buckets, b)

Order == Walk([p \in Paths |-> node[p].next], head)

TypeOK ==
  /\ node \in [Paths -> [prev : Paths \cup {Null}, next : Paths \cup {Null},
                         hh_prev : Paths \cup {Null}, hh_next : Paths \cup {Null}]]
  /\ head \in Paths \cup {Null} /\ entries \subseteq Paths
  /\ DOMAIN tbl.buckets = 0..(Size(tbl.buckets) - 1)
  /\ \A b \in DOMAIN tbl.buckets :
       /\ tbl.buckets[b].hh_head \in Paths \cup {Null}
       /\ tbl.buckets[b].count \in Nat /\ tbl.buckets[b].expand_mult \in Nat
  /\ tbl.num_items \in Nat /\ tbl.tail \in Paths \cup {Null}
  /\ tbl.ineff_expands \in 0..2 /\ tbl.noexpand \in BOOLEAN
  /\ \A t \in Threads : thread[t].pc \in {"idle", "link", "compare", "free"}

\* The links prev of the entries of a list lead back.
LeadBack(list, prev) == \A k \in DOMAIN list : prev[list[k]] = Before(list, k)

\* Outside an insertion the structure is sound: what HASH_FSCK tests under
\* HASH_DEBUG, and that the tail is the last entry.
HASH_FSCK ==
  head # Null /\ (\A t \in Threads : ~ At(t, "link")) =>
    /\ \A b \in DOMAIN tbl.buckets :
         /\ LeadBack(ChainOf(b), [p \in Paths |-> node[p].hh_prev])
         /\ Len(ChainOf(b)) = tbl.buckets[b].count
    /\ tbl.num_items =
         Cardinality(UNION {{b} \X DOMAIN ChainOf(b) : b \in DOMAIN tbl.buckets})
    /\ LeadBack(Order, [p \in Paths |-> node[p].prev])
    /\ Len(Order) = tbl.num_items
    /\ Last(Order) = tbl.tail

\* Between handlers a lookup would find just the paths that were added and not
\* removed since, however often the buckets were doubled, and freeing the table
\* leaves none.
EntriesAreFound ==
  IsAlone =>
    /\ entries = {} <=> head = Null
    /\ \A p \in Paths :
         p \in entries <=> p \in ToSet(ChainOf(Bucket(p, Size(tbl.buckets))))
=============================================================================
