# Memcache-fs in TLA+

Memcache-fs is a FUSE file system that keeps everything it stores in one memcached server: a single
process, several worker threads, one TCP socket, no lock. This directory models it in TLA+, checks
the models with TLC and proves what matters most with TLAPS. Every definition is translated from the
C source under `src/`; `PROJECT.json` maps each one to its lines.

    cd tla
    tlc -workers 2 -config ns_core.cfg MCNamespace     # any run of PROJECT.json
    tlapm FileTreeProofs.tla          # any module *Proofs.tla

## Inventory

### State

| Where | What | In the models |
|---|---|---|
| memcached, `inode_table` | text `path\nino\n...`, one entry per path | `table`, a sequence of entries, or `Absent`, or `Garbled` |
| memcached, `inode_value` | the next inode id | `inode_value` |
| memcached, `<ino>` | text of names and values: `st_ino` to `st_blocks`, `st_content`, extended attributes | `inodes` (Namespace), `attr` and `lines` (Attributes), `attr` (FileIO) |
| memcached, `<ino>_b_<n>` | block n of a file (1024 bytes), or block 0 of a directory: its links `name\n...` | `blocks` (FileIO), `links` (Namespace) |
| process | uthash table path -> ino | `hash` (Namespace); entry by entry `node`, `head`, `tbl` (Hashtable) |
| process | the socket to memcached, shared by all threads | `wire`, `stream`, `peer` |
| process | local variables of each handler | `thread[t]`, `reader` |

### Components, and what makes each of them correct

* **Text lists** (`data_parser.c`, parts of `main.c` and `hashtable.c`): add, remove and parse the
  inode table and the links of a directory. Correct when removing an entry removes that entry and no
  other. Hard: `strstr` finds a name inside a longer one, and `remove_inode_from_table` reads an
  uninitialized variable.
* **Name space** (`main.c`: `memcached_init`, `mkdir`, `create`, `symlink`, `link`, `unlink`,
  `rmdir`, `destroy`, `create_inode`, `delete_inode` and the two parent-link helpers). Every handler
  is a sequence of memcached commands with no transaction around them. Correct when the table, the
  inodes, the links and the hash table describe one tree between handlers; when a kill at any step
  leaves no path without its inode; when ids are never reused; when no inode and no
  links block is left without a path. Hard: kills,
  keys that memcached drops, threads, hard links.
* **Path hash table** (`hashtable.c`, with the macros of the vendored `uthash.h` it expands to).
  Correct when a lookup finds exactly the paths that were added and not removed. Hard: doubling the
  buckets and giving it up, freeing what an iteration stands on, no lock.
* **Block arithmetic** (`random_access.c`): correct when the chunks of a request are the request. Hard:
  sizes and offsets at block boundaries, an `int` product that overflows from 2 GiB on.
* **File contents** (`memcached_read`, `memcached_write`, the block loop of `delete_inode`, and what
  `link` and `unlink` do to the inode): correct when a file is an array of bytes with a length. Hard: a
  reader or a second writer between two blocks of a write, a kill there, a dropped block, a
  link count stored from a stale text, blocks that `unlink` does not count.
* **memcached client** (`memcached_client.c`): correct when a call is one atomic operation of a
  key/value store and returns. Hard: one unlocked socket, a fixed buffer, an in-band sentinel, a
  memcached that restarts.
* **Attributes** (`getattr`, `readlink`, `chmod`, `chown`, the xattr handlers, and the updates that
  write, link and unlink make to the inode text): correct when a change touches what it names and
  nothing else. Hard: whole-text updates through two hard links; names inside names; a symlink's target
  kept where the extended attributes are; empty values.
* **No effect**: `flush`, `fsync`, `fsyncdir`, `release`, `releasedir`, `utimens`, `statfs` return 0;
  `open` and `opendir` only look the path up. Not modelled.
* **Formatting** (`int_to_string`, `get_attr_pair`, `construct_path`): not modelled.

### How they interact

The kernel calls the handlers, several at a time. It resolves paths with `getattr`, holds the lock
of a directory while a name in it changes and the lock of a file while it is written, and sees two
hard links to a file as two files. A handler calls `memcached_client.c` for every piece of state and
passes the text through `data_parser.c`; the hash table is filled by `memcached_init` from the
persisted table and kept in step by create, link and delete. memcached may drop any key at any
time, and outlives the FUSE process or is restarted beside it.

The full list of what is hard to test, each item at its line with the properties that cover it, is
`hazards` in `PROJECT.json`.

## Modules

| Module | Models |
|---|---|
| `FileTree` | abstract: paths with kinds and ids, each operation one step, what a kill may leave |
| `InodeTable` | the two text lists as sequences of lines, with every case of `strstr` hitting a longer line |
| `Namespace` | the name space handlers, mount and unmount on any number of threads, kills, dropped keys, refused sets |
| `NamespaceProofs` | its theorems about types, ids and the hash table |
| `NamespaceTreeProofs` | its theorems about paths, inodes and link counts |
| `FileTreeProofs` | its theorems about directories, and that it implements `FileTree` |
| `Hashtable` | the hash table: the list of entries, the chains of the buckets, their expansion |
| `HashtableProofs` | the theorems about it |
| `RandomAccess` | `get_file_blocks_info` with its conversions to `int`, and how the loops of read and write follow it |
| `ByteFile` | abstract: an array of bytes with a length |
| `FileIO` | the blocks and attributes of one file with several names: a writer per name, a reader, link, unlink, kills, dropped keys |
| `FileIOProofs` | the theorems about block arithmetic, types, places and gaps |
| `ByteFileProofs` | the theorems about writes, reads and names, and that it implements `ByteFile` |
| `KVStore` | abstract: an atomic, forgetful key/value store from which a restart cuts the client off |
| `MemcachedClient` | the socket, the client functions on any number of threads, memcached executing commands |
| `MemcachedClientProofs` | the theorems about it, and that it implements `KVStore` |
| `AttrStore` | abstract: attributes and a map of extended attributes |
| `Attributes` | the inode text of a file or symlink and the handlers that change it |
| `AttributesProofs` | the theorems about it, and that it implements `AttrStore` |
| `MC...` | the constants of the runs |

How they compose: `Namespace` and `FileIO` take one call of the client as one step; that is the
promise `KVStore`, and `MemcachedClient` is shown to keep it for one thread. `Namespace` takes the hash
table as a function from paths to ids; `Hashtable` shows that for one thread a lookup sees that function.
`FileIO` extends `RandomAccess`. `Namespace` keeps of the attributes only kind, link count and whether
`st_blocks` was raised; `Attributes` shows what the text operations do to the rest, and `FileIO` what two
handlers do to size and link count through two names. Four refinements tie the detailed modules to the
abstract ones: `Namespace` to `FileTree`, `FileIO` to `ByteFile`, `MemcachedClient` to `KVStore`,
`Attributes` to `AttrStore`.

### Steps

A step of `Namespace` is one memcached command together with the code around it that touches only
the process's memory. `create_inode`, for instance, is `GetInodeValue`, `SetInode`, `SetInodeValue`,
`AddEntry` (hash table, get of the table), `SetTable`, `AddLink`, `CountLink`. A get followed by a
set of the same key is one step only where the kernel's locks keep everyone else away from the key:
the links block and `st_blocks` of the parent, and the blocks of the file being written. The get and
set of `inode_value`, `inode_table` and of an inode that has several names are separate steps. When
the code dereferences the NULL of a missing key, the process dies (`Segfault`), as in a crash.

In `FileIO` byte k of the w-th write is the pair `<<w, p>>` of that write and its position, so no two
bytes can be confused. Uninitialized memory is `Garbage`. A chunk that overruns its buffer by more than
the spare byte may be stored cut, or end the process. Each get, set and delete of a block or of the inode is
a step, since the kernel takes the names of a file for different files and locks each on its own.
`overtaken` is history: it tells whether a link counted its name while another thread stood between its get
and its set of the inode.

In `Hashtable` an insertion takes two steps (the entry is appended and counted; its chain gets it and may
be too long, which doubles the buckets), a lookup one per entry it compares, a removal a lookup and the
unlinking, `hashtable_free` one per entry.

In `MemcachedClient` a reply is a sequence of pieces; `Read` takes up to `BufferSize` of them,
whoever they are for, as `send_to_server` does. The field `answer` is history. After `Restart` the
process has a dead socket for the rest of its life: writes fail, reads return nothing, and each function
returns what it makes of that.

In `Attributes` the lines after `st_blocks` are a sequence; a value may be several lines or an empty
one. `Starts`, `Ends` and `Occurs` say which lines contain which names, and where; a hit elsewhere than at
the name itself has the effect the character loops have. `Target` holds the two lines of a symlink.
`readlink` answers them alone or with what the buffer held behind them.

## Runs

Passing runs:

| Run | Checks | Instance |
|---|---|---|
| `ns_core` | `TypeOK`; the tree between handlers: `LinkCountIsExact`, `DirectoriesListChildren`, `NoOrphanPath`, `NoLeakedKey`, `LinksAreThere`; what a kill leaves: `NoDanglingPath`, `LinkCountCoversEntries`, `EntriesAreDurable`; ids and the hash table: `InosAreFresh`, `HashMatchesTable`; the refinement `ImplementsFileTree` | 1 thread, `/ /d /d/f /g`, 3 ids, 1 kill anywhere, 1 dropped key or refused inode, no newline in the uninitialized variable |
| `file_write` | `TypeOK`, `ZeroBeyondEnd`, `WrittenIfCovered`, the refinement `ImplementsByteFile` | 1 name, block size 3, an `int` below 9, a file of 11 bytes, every request of up to 8, 2 writes, 1 kill |
| `file_threads` | `ReadsWhatWasThere`, `BytesAreInPlace`, `FileStaysUnlessOvertaken` | 3 names, a link count up to 3, block size 2, a file of 3 bytes, 2 writes, a reader, 1 dropped key |
| `client_single` | `TypeOK`, `RepliesAreInStep`, the refinement `ImplementsKVStore`, `EveryCallReturns` | 1 thread, 2 keys, 2 values, drops, refusals, kills, restarts |
| `client_pair` | `QuietSocketIsEmpty` | 2 threads, drops and restarts |
| `attr_single` | the refinement `ImplementsAttrStore` | 1 thread, 2 names, 2 values, every operation |
| `attr_threads` | `LinesArePairs`, `SymlinkKeepsTarget` | 2 threads on 2 hard links of a symlink, a value that is empty |
| `hash` | `TypeOK`, `HASH_FSCK`, `EntriesAreFound` | 1 thread, 6 paths with 2 hash values, 1 bucket at first, chains of 2, up to 16 buckets |

Runs that show a disagreement between the code and what its README or a comment says (`findings`
has the quotations):

| Run | Shows |
|---|---|
| `ns_race_ino` | two threads take one inode id |
| `ns_names` | removing `f` cuts the line of `ff` |
| `file_unlink` | `unlink` deletes as many blocks as the last write touched, from block 0 on; here the last write touched block 1 alone, and that block survives |
| `file_overtaken` | with three names, stale link counts free a file that has a name |

### What the passing runs leave out on purpose

These disagreements are in the models and no run shows them; each appears when constants of a passing
run, or the condition of a property, are changed:

* A whole number of blocks written from inside a block loses its end. `WrittenIfCovered` says which
  writes do, and `CoveredIffCut` that these are all; in `ByteFile` they are not `IsStoredWhole`.
* After a kill between `SetTable` and `AddLink` the new path is an orphan, which its directory does not
  list. The directory can be removed and made again, and then the table has the path before its
  directory: removing the directory once more cuts the orphan's line. `EntriesAreDurable` has the condition
  `AncestorsFirst` for this case alone, and holds of every other step after a kill or a dropped key.
* A kill between `SetEmptyTable` and the root's `SetTable` leaves a table without a root that every
  later mount accepts; `FileTree` has that state, and no step out of it but the loss of the table.
* `TwinPaths` and two threads in `ns_core` violate `HashMatchesTable`: an update of the inode table is lost
  that the hash table has.
* A newline in the uninitialized variable (`StackNewline = {TRUE, FALSE}`) leaves the id of a removed path in
  the table, which violates `EntriesAreDurable` and `ListsKeepTheirStructure`.
* Hard links to symlinks (`LinkKinds = {"reg", "lnk"}`) violate `NoDanglingPath`: unlinking one of the names
  frees the inode of the other.
* After a kill a path can be removed from a directory without links, of which main.c:168 says that it always
  has them; `LinksAreThere` is about processes that were not killed.
* Two threads in `hash` violate `EntriesAreFound` (an insertion is lost), `HASH_FSCK` and, once counts go below
  zero, `TypeOK`.
* Two threads in `client_single` read each other's replies, a `BufferSize` of 5 cuts the long value and
  takes its rest for the next reply, `NOVALUE` among `Values` is sent as a set without data: each
  violates `ImplementsKVStore`, and two threads `EveryCallReturns` as well.
* Two threads and two aliases in `attr_single`: one sets the text it read before the other's change, which is
  lost: `ImplementsAttrStore`.
* A name at the end of another (`Ends`, `Occurs`) in `attr_single`: `setxattr` of `user.a` changes the value of
  `trusted.user.a`, against `ImplementsAttrStore`. Text behind a name in its line (`Starts`): `setxattr` spoils
  the lines, as `removexattr` does with a name inside a line.
* `listxattr` of a symlink lists `st_content`, the name of the line above its target, and lists a value where
  an empty value stands before it. No property is about either.

### Why the bounds are enough

* Paths: `/`, a directory with a file, and a file beside it, give every relation two paths can have
  (parent, sibling, unrelated), hard links inside and across directories, and a non-empty rmdir.
  `TwinPaths` adds a second directory, since two threads only run side by side in different ones;
  `PrefixPaths` has a name that begins another.
* `MaxIno` only bounds how many files a behaviour creates: with 3, the root and two more, an id is
  created, deleted and created again at every path, beside hard links and a directory.
  `MaxCrashes = 1`: recovery has no state but memcached's, so a second kill starts from a state the
  first could have left. `MaxFaults = 1` meets every key at every step.
* Blocks of 3 bytes and a file of 11 have requests inside a block and across up to four, aligned and
  not, and a gap; a chunk that overruns its buffer occurs as well. With `IntLimit = 9` the fourth block
  begins where the product of block number and block size overflows. Two writes overlap in every way.
* In `ns_core` the uninitialized variable of `remove_inode_from_table` holds no newline; with one, the first
  removal garbles the table, and little is left to check.
* In `file_threads` three names are what it takes to free a named file, as `file_overtaken` shows; `MaxNlink`
  only cuts off counts that are too high, which free nothing. Both writes have two blocks and one of them is
  cut wrongly; reads are those of the page cache, from the start of a block.
* The paths of `hash` fill one bucket and split it; three of them stay together, so that two doublings
  in vain follow and expansion is given up, with insertions and removals at any point.
* The client's values have one and three pieces; the buffer holds any
  reply whole in both runs, but not two: with two threads a read may take a reply and a part of the
  next. No bound on the number of calls is needed.

Deadlock is checked except where the system really stops: a garbled table is not mounted and faults may
leave no step with the bound of ids used up (`ns_core`), and a file's life ends with its unlink
(`file_*`).

### Fairness

Only `MemcachedClient` has liveness. `WF(Serve)`: as long as it runs, memcached goes on executing
commands it received. `WF(Read(t))`: a thread whose `read` can return is scheduled; after a restart it
can, since the socket is at its end. Calls are not forced to happen, nor restarts to stay away.

## Proofs

Every theorem holds for all values of the constants that satisfy the named assumptions and the
hypothesis it states. A hypothesis says what a run assumes as well (one thread, one name, names that do
not contain one another), and the runs or the list above show what goes wrong without it. `NoMishap` and
`faults = 0` are conditions of the properties: no kill and no dropped or refused key, or no such key.

### Name space (`NamespaceProofs`, `NamespaceTreeProofs`, `FileTreeProofs`)

* `TypeCorrect` (`Spec => []TypeOK`), for any number of threads. `TypeOK` is not inductive: a thread
  at `set_table` must have read a table, one at `get_inode_value` must have a path below the root or
  be in `memcached_init`. `TypeInv` adds `ShapeInv`, which says this of each program counter.
* `FreshInos`, `HashAgrees`, for one thread (`SingleThreaded`); `ns_race_ino` shows
  that the assumption is needed. The inductive invariant is
  `IInv == TypeInv /\ InoInv /\ SyncInv`. `InoInv`: while `inode_value` is there, every id in the hash
  table, in the table and in the hands of the thread is below it; when it is dropped the next create
  dies before it takes an id. `SyncInv`: at each step the persisted table is the hash table, but for the
  path that is in one of the two at that step, and the copy the thread read is the persisted table.
  The proof needs, of the text operations, that adding and removing an entry changes that entry
  only (`AgreeAdd`, `AgreeRemove`) and that loading a table in which no path occurs twice restores it
  (`StringToTableType` and the lemmas after it). None of it depends on which keys are dropped, on which
  sets are refused or on where the process is killed.
* `NoPathDangles`, `LinksCoverPaths`, `LinksCountPaths`, for one thread and hard links to regular files
  (`OneThread`). `NamesInv == IInv /\ NamedInv`, where `NamedInv` relates, for every inode, the number of
  its paths to its link count, at every step of a handler: `More` are the inodes that count a name
  which is not in the table yet or any more, `Gone` the one without a name whose key is still there.
  After a kill the count may be too high, never too low. When the process is down the same is said of
  the table that the next mount reads. Counting is by cardinalities (`CountIsNat` and the lemmas
  after it), carried to the entries of the table by the agreement of table and hash table.
* `NoPathIsOrphan`, `LinksAreChildren`, `LinksAreFound`, `NoKeyLeaks`, for one thread.
  `TreeInv == NamesInv /\ LinkedInv`. `LinkedInv`: each directory lists its children, each once
  (`Lists`), but for the path between its entry in the table and its link (`Listed`); each path lies
  in a directory (`Parents`); each block of links is that of a directory that knows about it (`Keys`),
  but for the directory just listed in and the one just removed (`Uncounted`, `Freed`).
* `DurableEntries` (`Spec => EntriesAreDurable`), for one thread, paths that occur in the text of no others but
  those below them, and no newline in the uninitialized variable (`PathsStandAlone`); `ns_names` shows
  what happens to other paths. Then `remove_inode_from_table` garbles a list only if it finds the path in the
  line of one below it, that stands before it. `CutInv` has the copy the thread read (`CopyInv`) and that,
  without a mishap, each directory is listed before what lies in it (`OrderInv`): entries are appended, and
  a directory is there when something is made in it.
* `TableIsFileTree` (`Spec => ImplementsFileTree`), for one thread, wherever the process is killed;
  the promise of `FileTree` ends when a key is dropped or a set refused.
  `MountInv == TreeInv /\ WorkInv`; `WorkInv` says of each program counter what of
  the operation is already decided: a new path is still free and its parent is there (`Planned`), the id
  to be taken is the last one reserved and above all others (`NewFile`), the one of a link is that of the
  old path (`OldFile`), a path to be removed is in the table with all its ancestors (`Reached`). Most
  steps stutter: `SetTable` and `SetShorterTable` change the tree, and so do the first keys of a mount.

### Files (`FileIOProofs`, `ByteFileProofs`)

* `CoveredIffCut`: for every block size and every request whose block numbers are ints, the loops of
  read and write copy the request exactly if and only if it starts at a block or is no whole number of
  blocks. First: the overflow of `start_block * block_size` is undone by the conversion of the
  difference to `int`, because both are congruent modulo 2^32 and the true difference fits (`ToIntUndoes`,
  `ToIntIsCongruent`, `BytesLeft`). Then by division with remainder, a case for requests inside one block
  and one for each parity of the size. `IsCovered` is that condition; `CoveredIsWritten` carries it
  to the bytes. `ChunkIsInRequest` is what holds of every request: a turn
  copies bytes of the request, from or to the place they are for.
* `FileIOProofs!TypeCorrect` and `BytesStayInPlace` (`Spec => []BytesAreInPlace`), for any number of
  names and with every fault: a byte of the file is zero or was written for its position. The inductive
  invariant says so of each block (`BlocksInv`) and of the copy that a write holds between its get and
  its set, which is stale by then; `StoredIsPlaced`, from `ChunkIsInRequest`, is the step that stores it.
* `GapsAreZero` (`Spec => []ZeroBeyondEnd`), for a file with one name. `ZeroBeyondEnd` speaks of a file
  at rest; `GapInv` adds that during a write the file is zero beyond its end and the end of the write,
  and that so are the copy of the block and, once read, the attributes that will be stored.
* `CoveredIsWritten` and `FileIsByteFile` (`Spec => ImplementsByteFile`), for a file with one name of
  which nothing is dropped (`OneNameNoFaults`), wherever the process is killed. `FileInv` adds
  `WriterInv` to `EndInv`, the invariant of `GapsAreZero`: of the request of a write exactly the bytes in
  the blocks before the next one are stored, no byte is of a later write, and the copies that the write
  holds are what is stored. Each `SetBlock` is then one `Put` of `ByteFile`.
* `PageReadsAreSeen` (`Spec => []ReadsWhatWasThere`), for any number of names, writers and faults and
  reads that start at a block, as those of the page cache do (`ReadsArePages`). `SharedInv`: of the
  positions before its next block a read holds only bytes that the file had since it began.
* `NamesKeepTheFile` (`Spec => []FileStaysUnlessOvertaken`), for any number of names, threads and kills:
  `file_overtaken` shows that links have to be excused which overtake a thread. The invariant: until then every
  count that is stored, or that a thread has read and will store, is enough for the names there are.

### Client (`MemcachedClientProofs`)

* `ClientTypesAreCorrect` (`Spec => []TypeOK`), for any threads, buffer and faults: also replies cut in
  pieces and mixed up stay sequences of pieces, and what a function reads in them is a result or torn.
* `QuietSocketStaysEmpty` (`Spec => []QuietSocketIsEmpty`), for any number of threads, if the buffer
  holds any reply (`WholeReplies`). `SocketInv`: there are no more commands on the wire than
  threads that wait, and no more text in the socket than the other waiting threads take with one read each.
* `RepliesStayInStep` and `ClientIsKVStore` (`Spec => ImplementsKVStore`), for one thread, whole replies
  and values other than the sentinel (`OneThread`). `CallInv`: all that is under way is the command of the
  thread or, once executed, the reply that means its answer (`Parse`); it is lost just when memcached was
  restarted. `Serve` is then the step at which the store executes the call.

### Attributes (`AttributesProofs`)

* `LinesStayPairs` and `TargetStays`, for any number of threads, files and symlinks, empty values or not,
  if no line contains the name of an extended attribute but that name and values have one line
  (`NamesStandAlone`). `PairsInv`: the text, and each text that a thread read
  and will change, are names and values in turn, after the target. `TargetStays` is about the stored text, not
  about what `readlink` puts into its buffer.
* `TextIsAttrStore` (`Spec => ImplementsAttrStore`), for one thread, a file that is no symlink and no
  empty text (`OneCaller`). `StoreInv` adds that what the thread read is what is stored;
  `SetXattrInStore` and `RemoveXattrInStore` say what the character loops do to the map.

### Hash table (`HashtableProofs`)

`TypesAreCorrect`, `TableIsSound` (`Spec => []HASH_FSCK`) and `LookupsAreRight`
(`Spec => []EntriesAreFound`), for one thread (`OneThread`) and any paths, hash values, number of buckets
at first, length of a full chain and number of doublings. With two threads none of the three holds.

* A list is a set with a rank for each entry: `IsList` says that the first entry has the lowest
  rank and that the links of each entry lead to those with the next higher and the next lower one.
  `ListAppend`, `ListPush`, `ListDrop` and `PartIsList` are what the macros do to such a list: an entry
  after the last one or before the first one, an entry taken out, a part of it turned round with ranks
  negated. They need no induction.
* `WalkLists` leads back to the walks of the properties: from the first entry on, following the links
  gives all entries of the set in the order of the ranks, each once. It is by induction over numbers, as a
  fact about sets (`Induction`: a set of naturals that is not empty has a least element); `PlacesExist`
  shows by the same induction that the recursive function of `Walk` exists, and `MultsExist` that of
  `ExpandMult` does.
* `IInv` states that there are ranks for the list and for all chains (`Sound`), and of a
  thread under way what it relies on (`ThreadInv`). The properties alone are not inductive: they say
  nothing while an entry is in the list and counted but not in its chain (`Linking`), nor that a lookup
  stands at or before the entry it is for (`Comparing`), without which a removal would not find it.
* `ExpandKeepsSound`: each new chain is the part of one old chain with one of two remainders
  (`BucketOfHalf`), turned round; so every entry stays reachable whether or not a doubling helps.
  `DeleteKeepsSound` serves removal and `hashtable_free` alike.

### What the proofs rest on

Assumed of the constants: `PathsAssumption` (paths are closed under parent), `TextAssumption`,
`AbsentAssumption` (the marks of a missing key and of a garbled text are none of the values), `NamespaceAssumption`,
`BlockSizeAssumption`, `IntAssumption`, `FileAssumption`, `HashAssumption`, `ClientAssumption` and
`ResultAssumption` (the marks of a call without an answer are no results), `AttributesAssumption`; TLC
evaluates each of them in a run. `PairsInv`, `StoreInv`, `WorkInv` and the invariant of
`HashtableProofs`, with its ranks read off the walks, were checked by TLC on the instances of the runs
before they were proved.

Only model-checked: `EveryCallReturns`, since liveness is out of the provers' reach.

## Not modelled, and why

* Paths of 250 bytes and more; the byte behind the read buffer: the data is abstract.
* What a garbled table mounts as: the text is not kept. Mounting it is not a step of the model.
* Of uthash: hash functions, Bloom filter, sorted insertion, selection, and running out of memory; the
  program uses none of them, or ends. The table of attributes in `hashtable.h` is never filled.
* What follows the target in the buffer of `readlink`, which stores no terminator; buffer sizes in `getxattr` and `listxattr`: the latter only
  cut a copy.
* `fsync` and `utimens`, which promise what they do not do.
* Assumed: a reply arrives whole once it arrives; what a killed process wrote to its socket is executed
  before it is mounted again; the `path != "/"` of `create_inode` compares equal literals, which the
  compiler merges.

## Plan

1. (done) The name space and its proofs; block arithmetic and its proof; file contents; client;
   attributes.
2. (done) `FileTree` and the refinement; hard links, eviction and several writers in `FileIO`; the
   `int` arithmetic; restarts of memcached; the hash table; symlinks and empty values in `Attributes`;
   the proofs about `FileIO`.
3. (done) The proofs of every other invariant of `Namespace`, `FileIO`, `MemcachedClient` and
   `Attributes`, and of the four refinements.
4. (done) The proofs about `Hashtable`.
5. Left: the refinement of `AttrStore` for a symlink; the hash table with several threads that only look
   up; weaker hypotheses where the model allows them.
