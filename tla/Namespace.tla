------------------------------ MODULE Namespace ------------------------------
(***************************************************************************)
(* The name space of the file system: which paths exist, which inode each  *)
(* one names and what the directories list.  The persistent half lives in  *)
(* memcached (the keys inode_table, inode_value, "<ino>" and "<ino>_b_0"), *)
(* the volatile half in the FUSE process (the uthash table of paths).      *)
(*                                                                         *)
(* A handler of main.c is a sequence of steps of one FUSE thread, one step *)
(* per memcached command; code that touches only the process's memory is   *)
(* part of the step of the command it stands next to.  A get and a set of  *)
(* the same key are one step where the kernel's directory locks keep every *)
(* other operation away from that key in between.  Between two steps other *)
(* threads run, the process may be killed, and memcached may drop a key.   *)
(* A NULL that the code dereferences ends the process as a kill does.      *)
(***************************************************************************)
EXTENDS InodeTable, FiniteSets

CONSTANTS
  Threads,          \* the worker threads of fuse_main; one under "-s"
  LinkKinds,        \* the kinds of file the user makes hard links to
  Evictable,        \* the kinds of key memcached may drop
  MaxIno,           \* bound: no new file once inode_value is above it
  MaxCrashes,       \* bound on kills of the FUSE process
  MaxFaults         \* bound on dropped keys and on sets that are not STORED

ASSUME NamespaceAssumption ==
  /\ Threads # {}
  /\ LinkKinds \subseteq {"reg", "lnk"}
  /\ Evictable \subseteq {"inode_table", "inode_value", "inode", "block"}
  /\ MaxIno \in Nat /\ MaxCrashes \in Nat /\ MaxFaults \in Nat

VARIABLES
  table,            \* memcached: the value of inode_table
  inode_value,      \* memcached: the next free inode id
  inodes,           \* memcached: inode id -> attributes, for the keys present
  links,            \* memcached: inode id -> links of block 0 of a directory
  hash,             \* process: path -> inode id, for the paths present
  phase,            \* process: "down", "init" (in memcached_init) or "up"
  thread,           \* process: what each worker thread is doing
  crashes, faults   \* how much of the bounds is used

server == <<table, inode_value, inodes, links>>
process == <<hash, phase, thread>>
bounds == <<crashes, faults>>
vars == <<server, process, bounds>>

Kinds == {"dir", "reg", "lnk"}

(***************************************************************************)
(* Attributes.  Of st_blocks only "is it above 0" is kept: a directory has *)
(* one block, and delete_inode deletes it when st_blocks was ever raised.  *)
(***************************************************************************)
Inode == [kind : Kinds, nlink : Int, blocks : BOOLEAN]

NoFunction == [x \in {} |-> x]

memcached_set(f, key, value) ==
  [k \in DOMAIN f \cup {key} |-> IF k = key THEN value ELSE f[k]]

\* Mutant: an empty value is stored instead.
memcached_delete_M(f, key) ==
  [k \in DOMAIN f |-> IF k = key THEN Absent ELSE f[k]]

memcached_delete(f, key) == Restrict(f, DOMAIN f \ {key})

Pcs == {"idle", "set_empty_table", "set_first_value",
        "get_inode_value", "set_inode", "set_inode_value",
        "skip_inode_value", "add_entry", "set_table", "add_link", "count_link",
        "get_table", "set_shorter_table", "remove_entry", "decrement_nlink",
        "delete_blocks", "delete_inode", "remove_link",
        "get_link_target", "increment_nlink"}

\* pc, the arguments of the handler, and the C variables it still needs:
\* ino, the inode table it read (tbl) and the attributes it read (attr).
Thread ==
  [pc : Pcs, path : Paths, old : Paths, kind : Kinds, ino : Nat,
   tbl : Seq(Entry) \cup {Absent, Garbled}, attr : Inode]

NoAttr == [kind |-> "reg", nlink |-> 0, blocks |-> FALSE]

Idle == [pc |-> "idle", path |-> Root, old |-> Root, kind |-> "reg", ino |-> 0,
         tbl |-> Absent, attr |-> NoAttr]

Init ==
  /\ table = Absent /\ inode_value = Absent
  /\ inodes = NoFunction /\ links = NoFunction
  /\ hash = NoFunction
  /\ phase = "down"
  /\ thread = [t \in Threads |-> Idle]
  /\ crashes = 0 /\ faults = 0

-----------------------------------------------------------------------------
(* Steps and ends of a thread.                                             *)

hashable_get_entry(p) == IF p \in DOMAIN hash THEN hash[p] ELSE -1

At(t, pc) == thread[t].pc = pc

Goto(t, pc) == thread' = [thread EXCEPT ![t].pc = pc]

Return(t) == thread' = [thread EXCEPT ![t] = Idle]

\* The process is gone: its hash table and threads with it, memcached stays.
Die ==
  /\ hash' = NoFunction
  /\ phase' = "down"
  /\ thread' = [t \in Threads |-> Idle]

\* A NULL pointer is dereferenced.
Segfault == Die /\ UNCHANGED <<server, bounds>>

-----------------------------------------------------------------------------
(* What reaches a handler.  The kernel resolves a path with getattr on     *)
(* each component, holds the lock of the parent directory of the name that *)
(* changes and the lock of the file itself, and checks the kinds.  It      *)
(* knows hard links as unrelated files.                                    *)

Exists(p) == \A k \in 0..Len(p) : SubSeq(p, 1, k) \in DOMAIN hash

\* With the inode gone the kernel still has the attributes it cached.
HasKind(p, kinds) ==
  hash[p] \in DOMAIN inodes => inodes[hash[p]].kind \in kinds

Locks(th) ==
  IF th.pc = "idle" THEN {} ELSE {th.path, th.old, get_parent_directory(th.path)}

Enter(t, th) ==
  /\ phase = "up" /\ At(t, "idle")
  /\ \A u \in Threads : Locks(thread[u]) \cap Locks(th) = {}
  /\ thread' = [thread EXCEPT ![t] = th]
  /\ UNCHANGED <<server, hash, phase, bounds>>

IsFree(p) ==
  /\ p \notin DOMAIN hash
  /\ Exists(get_parent_directory(p)) /\ HasKind(get_parent_directory(p), {"dir"})

InoBound ==
  inode_value # Absent => inode_value + Cardinality(Threads) <= MaxIno + 1

EnterCreate(t, p, kind) ==
  /\ IsFree(p) /\ InoBound
  /\ Enter(t, [Idle EXCEPT !.pc = "get_inode_value", !.path = p, !.old = p,
                           !.kind = kind])

memcached_mkdir(t, p) == EnterCreate(t, p, "dir")

memcached_create(t, p) == EnterCreate(t, p, "reg")

memcached_symlink(t, p) == EnterCreate(t, p, "lnk")

EnterDelete(t, p) ==
  Enter(t, [Idle EXCEPT !.pc = "get_table", !.path = p, !.old = p])

memcached_unlink(t, p) ==
  /\ p # Root /\ Exists(p) /\ HasKind(p, {"reg", "lnk"})
  /\ EnterDelete(t, p)

\* Mutant: a directory need not be empty.
memcached_rmdir_M(t, p) ==
  /\ p # Root /\ Exists(p) /\ HasKind(p, {"dir"})
  /\ EnterDelete(t, p)

\* Otherwise -ENOTEMPTY, and nothing changes.
memcached_rmdir(t, p) ==
  /\ p # Root /\ Exists(p) /\ HasKind(p, {"dir"})
  /\ hash[p] \in DOMAIN links => links[hash[p]] = <<>>
  /\ EnterDelete(t, p)

memcached_link(t, old, new) ==
  /\ IsFree(new) /\ Exists(old) /\ HasKind(old, LinkKinds) /\ old # Root
  /\ Enter(t, [Idle EXCEPT !.pc = "get_link_target", !.path = new, !.old = old])

-----------------------------------------------------------------------------
(* memcached_init, on one thread before any other handler runs.            *)

memcached_init(t) ==
  /\ phase = "down"
  /\ IF table = Absent
     THEN /\ table' = Absent /\ inode_value' = Absent      \* flush_all
          /\ inodes' = NoFunction /\ links' = NoFunction
          /\ hash' = NoFunction                            \* hashtable_init
          /\ phase' = "init"
          /\ thread' = [thread EXCEPT ![t] =
                          [Idle EXCEPT !.pc = "set_empty_table", !.kind = "dir"]]
     ELSE /\ table # Garbled       \* what a garbled text mounts as is left out
          /\ hash' = hashtable_string_to_table(table)
          /\ phase' = "up"
          /\ UNCHANGED <<server, thread>>
  /\ UNCHANGED bounds

SetEmptyTable(t) ==
  /\ At(t, "set_empty_table")
  /\ table' = <<>>
  /\ Goto(t, "set_first_value")
  /\ UNCHANGED <<inode_value, inodes, links, hash, phase, bounds>>

SetFirstValue(t) ==
  /\ At(t, "set_first_value")
  /\ inode_value' = 0
  /\ Goto(t, "get_inode_value")
  /\ UNCHANGED <<table, inodes, links, hash, phase, bounds>>

-----------------------------------------------------------------------------
(* create_inode, for mkdir, create, symlink and the root.                  *)

GetInodeValue(t) ==
  /\ At(t, "get_inode_value")
  /\ IF inode_value = Absent
     THEN Segfault
     ELSE /\ thread' = [thread EXCEPT ![t].pc = "set_inode",
                                      ![t].ino = inode_value]
          /\ UNCHANGED <<server, hash, phase, bounds>>

NewInode(kind) ==
  [kind |-> kind, nlink |-> IF kind = "dir" THEN 2 ELSE 1, blocks |-> FALSE]

\* A set that memcached refuses leaves the key without a value.
SetInode(t) ==
  /\ At(t, "set_inode")
  /\ \/ /\ inodes' = memcached_set(inodes, thread[t].ino, NewInode(thread[t].kind))
        /\ Goto(t, "set_inode_value")
        /\ UNCHANGED faults
     \/ /\ "inode" \in Evictable /\ faults < MaxFaults
        /\ faults' = faults + 1
        /\ inodes' = memcached_delete(inodes, thread[t].ino)
        /\ Goto(t, "skip_inode_value")
  /\ UNCHANGED <<table, inode_value, links, hash, phase, crashes>>

\* Mutant: the id just taken is stored again.
SetInodeValue_M(t) ==
  /\ At(t, "set_inode_value") \/ At(t, "skip_inode_value")
  /\ inode_value' = thread[t].ino
  /\ IF At(t, "set_inode_value")
     THEN Goto(t, "add_entry") /\ UNCHANGED phase
     ELSE Return(t) /\ phase' = "up"
  /\ UNCHANGED <<table, inodes, links, hash, bounds>>

\* The next id is stored either way; the handlers ignore the -1 of a failure.
SetInodeValue(t) ==
  /\ At(t, "set_inode_value") \/ At(t, "skip_inode_value")
  /\ inode_value' = thread[t].ino + 1
  /\ IF At(t, "set_inode_value")
     THEN Goto(t, "add_entry") /\ UNCHANGED phase
     ELSE Return(t) /\ phase' = "up"
  /\ UNCHANGED <<table, inodes, links, hash, bounds>>

\* hashtable_add_entry, then get inode_table; also the middle of link.
AddEntry(t) ==
  /\ At(t, "add_entry")
  /\ IF table = Absent
     THEN Segfault
     ELSE /\ hash' = memcached_set(hash, thread[t].path, thread[t].ino)
          /\ thread' = [thread EXCEPT ![t].pc = "set_table", ![t].tbl = table]
          /\ UNCHANGED <<server, phase, bounds>>

\* The root has no parent to be listed in, and init returns.
SetTable(t) ==
  /\ At(t, "set_table")
  /\ table' = add_inode_to_table(thread[t].tbl, thread[t].path, thread[t].ino)
  /\ IF thread[t].path = Root
     THEN Return(t) /\ phase' = "up"
     ELSE Goto(t, "add_link") /\ UNCHANGED phase
  /\ UNCHANGED <<inode_value, inodes, links, hash, bounds>>

\* Mutant: the block is set only when it was there.
AddLink_M(t) ==
  LET d == hashable_get_entry(get_parent_directory(thread[t].path))
  IN  /\ At(t, "add_link")
      /\ links' = IF d \in DOMAIN links
                  THEN memcached_set(links, d,
                         add_link(links[d], get_name_from_path(thread[t].path)))
                  ELSE links
      /\ Goto(t, "count_link")
      /\ UNCHANGED <<table, inode_value, inodes, hash, phase, bounds>>

\* add_link_to_parent_dir: first the block, then st_blocks of the parent.
AddLink(t) ==
  LET d == hashable_get_entry(get_parent_directory(thread[t].path))
      lnks == IF d \in DOMAIN links THEN links[d] ELSE Absent
  IN  /\ At(t, "add_link")
      /\ links' = memcached_set(links, d,
                    add_link(lnks, get_name_from_path(thread[t].path)))
      /\ Goto(t, "count_link")
      /\ UNCHANGED <<table, inode_value, inodes, hash, phase, bounds>>

CountLink(t) ==
  LET d == hashable_get_entry(get_parent_directory(thread[t].path))
  IN  /\ At(t, "count_link")
      /\ IF d \notin DOMAIN inodes
         THEN Segfault
         ELSE /\ inodes' = [inodes EXCEPT ![d].blocks = TRUE]
              /\ Return(t)
              /\ UNCHANGED <<table, inode_value, links, hash, phase, bounds>>

-----------------------------------------------------------------------------
(* delete_inode, for unlink and rmdir.                                     *)

GetTable(t) ==
  /\ At(t, "get_table")
  /\ IF table = Absent
     THEN Segfault
     ELSE /\ thread' = [thread EXCEPT ![t].pc = "set_shorter_table",
                                      ![t].tbl = table]
          /\ UNCHANGED <<server, hash, phase, bounds>>

\* The set passes the length of the old text: what follows the NUL of the new
\* one is never read back.
SetShorterTable(t) ==
  /\ At(t, "set_shorter_table")
  /\ \E newline \in StackNewline :
       LET new == remove_inode_from_table(thread[t].tbl, thread[t].path, newline)
       IN  IF new = Absent
           THEN Segfault
           ELSE /\ table' = new
                /\ Goto(t, "remove_entry")
                /\ UNCHANGED <<inode_value, inodes, links, hash, phase, bounds>>

\* hashtable_remove_entry, get the attributes, and the choice they make.
RemoveEntry(t) ==
  LET i == hashable_get_entry(thread[t].path)
      attr == inodes[i]
  IN  /\ At(t, "remove_entry")
      /\ IF i \notin DOMAIN inodes
         THEN Segfault
         ELSE /\ hash' = memcached_delete(hash, thread[t].path)
              /\ thread' = [thread EXCEPT
                   ![t].pc = IF attr.kind = "reg" /\ attr.nlink > 1
                             THEN "decrement_nlink" ELSE "delete_blocks",
                   ![t].ino = i, ![t].attr = attr]
              /\ UNCHANGED <<server, phase, bounds>>

DecrementNlink(t) ==
  /\ At(t, "decrement_nlink")
  /\ inodes' = memcached_set(inodes, thread[t].ino,
                             [thread[t].attr EXCEPT !.nlink = @ - 1])
  /\ Goto(t, "remove_link")
  /\ UNCHANGED <<table, inode_value, links, hash, phase, bounds>>

\* Mutant: the links of a directory stay.
DeleteBlocks_M(t) ==
  /\ At(t, "delete_blocks")
  /\ Goto(t, "delete_inode")
  /\ UNCHANGED <<server, hash, phase, bounds>>

DeleteBlocks(t) ==
  /\ At(t, "delete_blocks")
  /\ links' = IF thread[t].attr.blocks
              THEN memcached_delete(links, thread[t].ino) ELSE links
  /\ Goto(t, "delete_inode")
  /\ UNCHANGED <<table, inode_value, inodes, hash, phase, bounds>>

DeleteInode(t) ==
  /\ At(t, "delete_inode")
  /\ inodes' = memcached_delete(inodes, thread[t].ino)
  /\ Goto(t, "remove_link")
  /\ UNCHANGED <<table, inode_value, links, hash, phase, bounds>>

\* remove_link_from_parent_dir: without the name strstr gives NULL, the copy
\* gets a negative length and the process dies.  st_blocks stays as it is.
RemoveLink(t) ==
  LET d == hashable_get_entry(get_parent_directory(thread[t].path))
      new == remove_link(links[d], get_name_from_path(thread[t].path))
  IN  /\ At(t, "remove_link")
      /\ IF d \notin DOMAIN links
         THEN Return(t) /\ UNCHANGED <<server, hash, phase, bounds>>
         ELSE IF new = Absent
         THEN Segfault
         ELSE /\ links' = memcached_set(links, d, new)
              /\ Return(t)
              /\ UNCHANGED <<table, inode_value, inodes, hash, phase, bounds>>

-----------------------------------------------------------------------------
(* The first half of memcached_link; the rest is AddEntry to CountLink.    *)

\* Mutant: the new name is not counted.
GetLinkTarget_M(t) ==
  LET i == hashable_get_entry(thread[t].old)
  IN  /\ At(t, "get_link_target")
      /\ IF i \notin DOMAIN inodes
         THEN Segfault
         ELSE /\ thread' = [thread EXCEPT ![t].pc = "add_entry",
                              ![t].ino = i, ![t].attr = inodes[i]]
              /\ UNCHANGED <<server, hash, phase, bounds>>

GetLinkTarget(t) ==
  LET i == hashable_get_entry(thread[t].old)
  IN  /\ At(t, "get_link_target")
      /\ IF i \notin DOMAIN inodes
         THEN Segfault
         ELSE /\ thread' = [thread EXCEPT ![t].pc = "increment_nlink",
                              ![t].ino = i, ![t].attr = inodes[i]]
              /\ UNCHANGED <<server, hash, phase, bounds>>

IncrementNlink(t) ==
  /\ At(t, "increment_nlink")
  /\ inodes' = memcached_set(inodes, thread[t].ino,
                             [thread[t].attr EXCEPT !.nlink = @ + 1])
  /\ Goto(t, "add_entry")
  /\ UNCHANGED <<table, inode_value, links, hash, phase, bounds>>

-----------------------------------------------------------------------------
(* What happens to the process and to memcached.                           *)

\* The process is killed between two steps.
Crash ==
  /\ phase # "down" /\ crashes < MaxCrashes
  /\ crashes' = crashes + 1
  /\ Die
  /\ UNCHANGED <<server, faults>>

\* A clean unmount: fuse_main destroys only when every handler has returned.
memcached_destroy ==
  /\ phase = "up"
  /\ \A t \in Threads : At(t, "idle")
  /\ Die
  /\ UNCHANGED <<server, bounds>>

\* memcached is a cache: short of memory it drops a key.
Evict ==
  /\ faults < MaxFaults
  /\ faults' = faults + 1
  /\ \/ /\ "inode_table" \in Evictable /\ table # Absent
        /\ table' = Absent
        /\ UNCHANGED <<inode_value, inodes, links>>
     \/ /\ "inode_value" \in Evictable /\ inode_value # Absent
        /\ inode_value' = Absent
        /\ UNCHANGED <<table, inodes, links>>
     \/ /\ "inode" \in Evictable
        /\ \E i \in DOMAIN inodes : inodes' = memcached_delete(inodes, i)
        /\ UNCHANGED <<table, inode_value, links>>
     \/ /\ "block" \in Evictable
        /\ \E i \in DOMAIN links : links' = memcached_delete(links, i)
        /\ UNCHANGED <<table, inode_value, inodes>>
  /\ UNCHANGED <<process, crashes>>

Step(t) ==
  \/ SetEmptyTable(t) \/ SetFirstValue(t)
  \/ GetInodeValue(t) \/ SetInode(t) \/ SetInodeValue(t)
  \/ AddEntry(t) \/ SetTable(t) \/ AddLink(t) \/ CountLink(t)
  \/ GetTable(t) \/ SetShorterTable(t) \/ RemoveEntry(t) \/ DecrementNlink(t)
  \/ DeleteBlocks(t) \/ DeleteInode(t) \/ RemoveLink(t)
  \/ GetLinkTarget(t) \/ IncrementNlink(t)

Handler(t) ==
  \/ \E p \in Paths : \/ memcached_mkdir(t, p) \/ memcached_create(t, p)
                      \/ memcached_symlink(t, p)
                      \/ memcached_unlink(t, p) \/ memcached_rmdir(t, p)
  \/ \E old, new \in Paths : memcached_link(t, old, new)

Next ==
  \/ \E t \in Threads : memcached_init(t) \/ Handler(t) \/ Step(t)
  \/ memcached_destroy \/ Crash \/ Evict

Spec == Init /\ [][Next]_vars

-----------------------------------------------------------------------------
(* Properties.                                                             *)

TypeOK ==
  /\ table \in Seq(Entry) \cup {Absent, Garbled}
  /\ inode_value \in Nat \cup {Absent}
  /\ DOMAIN inodes \subseteq Nat
  /\ \A i \in DOMAIN inodes : inodes[i] \in Inode
  /\ DOMAIN links \subseteq Int            \* "-1_b_0": no parent was found
  /\ \A i \in DOMAIN links : links[i] \in Seq(Names) \cup {Garbled}
  /\ DOMAIN hash \subseteq Paths
  /\ \A p \in DOMAIN hash : hash[p] \in Nat
  /\ phase \in {"down", "init", "up"}
  /\ thread \in [Threads -> Thread]
  /\ crashes \in 0..MaxCrashes /\ faults \in 0..MaxFaults

Quiet == phase = "up" /\ \A t \in Threads : At(t, "idle")

NoMishap == crashes = 0 /\ faults = 0

\* create_inode never takes an id that a path, in the process or in memcached,
\* already stands for: the st_ino uniqueness inode_value is there to ensure.
InosAreFresh ==
  \A t \in Threads : At(t, "set_inode") =>
    /\ \A p \in DOMAIN hash : hash[p] # thread[t].ino
    /\ IsList(table) => thread[t].ino \notin EntryInos(table)

\* The list and the hash table hold the same paths with the same ids, each once.
Agree(tbl, h) ==
  /\ EntryPaths(tbl) = DOMAIN h
  /\ \A j \in DOMAIN tbl : h[tbl[j].path] = tbl[j].ino
  /\ \A j, k \in DOMAIN tbl : tbl[j].path = tbl[k].path => j = k

\* Between handlers the inode table in memcached and the process's hash table
\* agree, so a remount restores exactly the names there were.
HashMatchesTable == Quiet /\ IsList(table) => Agree(table, hash)

\* At every moment, so also at any a crash can preserve, each path of the
\* persisted table has its inode: create_inode stores the inode before the
\* entry, delete_inode and link the other way round.
NoDanglingPath ==
  faults = 0 /\ IsList(table) => EntryInos(table) \subseteq DOMAIN inodes

EntriesOf(i) == {j \in DOMAIN table : table[j].ino = i}

\* A file has at least as many links counted as paths persisted, whatever the
\* moment of a crash: delete_inode can then never free an inode still named.
LinkCountCoversEntries ==
  faults = 0 /\ IsList(table) =>
    \A i \in DOMAIN inodes :
      inodes[i].kind = "reg" => Cardinality(EntriesOf(i)) <= inodes[i].nlink

\* Without a kill or a fault the st_nlink of a regular file is the number of its
\* paths, hard links among them; of a symlink the code keeps no such count.
LinkCountIsExact ==
  Quiet /\ IsList(table) /\ NoMishap =>
    \A i \in DOMAIN inodes :
      inodes[i].kind = "reg" => Cardinality(EntriesOf(i)) = inodes[i].nlink

Children(d) == {p \in DOMAIN hash : p # Root /\ get_parent_directory(p) = d}

LinksOf(d) == IF hash[d] \in DOMAIN links THEN links[hash[d]] ELSE <<>>

\* Without a kill or a fault readdir lists, between handlers, each child of a
\* directory once and nothing else, as long as the list is no garbled text.
DirectoriesListChildren ==
  Quiet /\ NoMishap =>
    \A d \in DOMAIN hash : LinksOf(d) # Garbled =>
      /\ ToSet(LinksOf(d)) = {get_name_from_path(p) : p \in Children(d)}
      /\ IsInjective(LinksOf(d))

\* Without a kill or a fault no path outlives its parent directory: rmdir trusts
\* the links of the directory to know whether it is empty.
NoOrphanPath ==
  NoMishap => \A p \in DOMAIN hash : get_parent_directory(p) \in DOMAIN hash

\* Without a kill or a fault each inode in memcached, and each block of links of
\* a directory, belongs to a path.  The blocks of files are in FileIO.
NoLeakedKey ==
  Quiet /\ NoMishap => \A i \in DOMAIN inodes \cup DOMAIN links :
                          \E p \in DOMAIN hash : hash[p] = i

\* Each path of the list comes after the directories it lies in.
AncestorsFirst(tbl) ==
  \A j \in DOMAIN tbl : \A k \in 0..(Len(tbl[j].path) - 1) :
    \E i \in 1..(j - 1) : tbl[i].path = SubSeq(tbl[j].path, 1, k)

KeepsEntries ==
  IsList(table) /\ table' # Absent =>
    /\ NoMishap \/ AncestorsFirst(table) => table' # Garbled
    /\ IsList(table') =>
         \A p \in EntryPaths(table) \ EntryPaths(table') :
           \E t \in Threads : At(t, "set_shorter_table") /\ thread[t].path = p

\* Unless memcached drops the whole table, a path leaves it only in the deletion
\* of that very path: remove_inode_from_table cuts one entry and leaves a list.
\* A path the table lists before its directory, as it may once a kill or a
\* dropped key made it an orphan, is excused: rmdir of the directory cuts it.
EntriesAreDurable == [][KeepsEntries]_table

PersistedTree == IF IsList(table) THEN hashtable_string_to_table(table) ELSE table

NextIno == IF inode_value = Absent THEN 0 ELSE inode_value

\* The persisted table keeps the promise of FileTree, until its text is garbled.
Tree ==
  INSTANCE FileTree WITH
    NoTree <- Absent,
    tree <- PersistedTree,
    next <- NextIno,
    up <- phase = "up",
    tidy <- crashes = 0,
    intact <- faults = 0 /\ table # Garbled

\* Each handler changes the persisted tree in one step, with an id no file ever
\* had, wherever the process is killed; a mount changes nothing of it.
ImplementsFileTree == Tree!Spec

\* The inode table and the links of the directories keep the line structure
\* that README.md gives them.
ListsKeepTheirStructure ==
  table # Garbled /\ \A d \in DOMAIN links : links[d] # Garbled

\* Without a kill or a fault, who removes a name from a directory finds the
\* directory's links: the test main.c:168 says should always be true.
LinksAreThere ==
  NoMishap =>
    \A t \in Threads : At(t, "remove_link") =>
      hashable_get_entry(get_parent_directory(thread[t].path)) \in DOMAIN links
=============================================================================
