------------------------------- MODULE FileIO -------------------------------
(***************************************************************************)
(* The contents of one regular file: its blocks ("<ino>_b_<n>") and of its *)
(* attributes st_size, st_blocks and st_nlink, all in memcached, and the   *)
(* handlers that read, write, link and unlink it through its names.        *)
(*                                                                         *)
(* The kernel lets one handler that changes the file run per name: it      *)
(* holds the lock of the file it knows under that name, and it knows hard  *)
(* links as unrelated files.  So handlers that come through two names, in  *)
(* directories of their own, and a read through any name interleave        *)
(* between any two memcached commands.  The kernel does not let an open    *)
(* file be unlinked: libfuse would have to rename it, which main.c does    *)
(* not provide.                                                            *)
(***************************************************************************)
EXTENDS RandomAccess, Sequences, FiniteSets

CONSTANTS
  Names,            \* the names of the file
  Writes, Reads,    \* the requests <<offset, size>> the kernel sends
  MaxLength,        \* bound on the end of a write
  MaxWrites,        \* bound on the number of writes
  MaxNlink,         \* bound on st_nlink, which links raise
  MaxCrashes,       \* bound on kills of the process and heap overruns
  MaxFaults         \* bound on keys that memcached drops

ASSUME FileAssumption ==
  /\ Names # {} /\ IsFiniteSet(Names)
  /\ MaxLength \in Nat /\ MaxWrites \in Nat /\ MaxNlink \in Nat
  /\ MaxCrashes \in Nat /\ MaxFaults \in Nat
  /\ Writes \subseteq (Nat \X (Nat \ {0})) /\ Reads \subseteq (Nat \X (Nat \ {0}))
  /\ \A w \in Writes : w[1] + w[2] <= MaxLength
  /\ \A r \in Writes \cup Reads : IsInRange(r[1], r[2])

VARIABLES
  blocks,           \* memcached: number -> contents, for the blocks present
  attr,             \* memcached: the attributes, NoAttr when not there
  names,            \* memcached and process: the names the file has now
  up,               \* is the process running?
  thread,           \* name -> the thread that changes the file through it
  reader,           \* the thread in memcached_read
  seen,             \* history: position -> what the file held there since the
                    \* read in progress began
  torn,             \* history: did the process die in a write?
  overtaken,        \* history: did a link count its name while another thread
                    \* stood between its get and its set of the inode?
  writes, crashes, faults       \* how much of the bounds is used

store == <<blocks, attr, names>>
bounds == <<writes, crashes, faults>>
vars == <<store, up, thread, reader, seen, torn, overtaken, bounds>>

(***************************************************************************)
(* The byte that the w-th write brings for position p is <<w, p>>, so that *)
(* no two bytes are mistaken for each other.                               *)
(***************************************************************************)
Zero == <<0, 0>>

Positions == 0..(MaxLength - 1)

Byte == {Zero} \cup ((1..MaxWrites) \X Positions)

Garbage == <<-1, -1>>           \* what uninitialized or foreign memory holds

NoAttr == [st_size |-> -1, st_blocks |-> 0, st_nlink |-> 0]

Idle == [pc |-> "idle", w |-> 0, offset |-> 0, size |-> 1, i |-> 0,
         data |-> <<>>, attr |-> NoAttr, old |-> {}]

IdleReader == [pc |-> "idle", name |-> {}, offset |-> 0, size |-> 1, i |-> 0,
               buf |-> <<>>]

Nothing == [p \in Positions |-> {}]

Init ==
  /\ blocks = [b \in {} |-> <<>>]
  /\ attr = [st_size |-> 0, st_blocks |-> 0, st_nlink |-> Cardinality(Names)]
  /\ names = Names
  /\ up = FALSE
  /\ thread = [n \in Names |-> Idle] /\ reader = IdleReader
  /\ seen = Nothing /\ torn = FALSE /\ overtaken = FALSE
  /\ writes = 0 /\ crashes = 0 /\ faults = 0

-----------------------------------------------------------------------------
(* Blocks.                                                                 *)

\* Mutant: malloc without memset.
NewBlock_M == [k \in 1..BlockSize |-> Garbage]

\* The buffer of a block that does not exist.
NewBlock == [k \in 1..BlockSize |-> Zero]

memcached_get(b) == IF b \in DOMAIN blocks THEN blocks[b] ELSE NewBlock

memcached_set(b, data) ==
  blocks' = [c \in DOMAIN blocks \cup {b} |-> IF c = b THEN data ELSE blocks[c]]

\* The file as a whole, one byte per position.
Contents(blks) ==
  [p \in Positions |->
     LET b == p \div BlockSize
     IN  IF b \in DOMAIN blks THEN blks[b][(p % BlockSize) + 1] ELSE Zero]

Look ==
  seen' = IF reader.pc = "idle" THEN Nothing
          ELSE [p \in Positions |-> seen[p] \cup {Contents(blocks')[p]}]

Info(th) == get_file_blocks_info(th.offset, th.size)

\* Mutant: every turn of the loop takes the first block.
BlockOf_M(th) == Info(th).start_block

\* The block of this turn of the loop.
BlockOf(th) == Info(th).start_block + th.i

\* This turn copies these bytes of the block, numbered from 1.
Chunk(th) ==
  LET from == ChunkOffset(Info(th), th.i)
  IN  (from + 1)..(from + ChunkSize(Info(th), th.i, th.size))

\* Where in the buffer byte k of the block goes to or comes from.
InBuffer(th, k) ==
  BytesBefore(Info(th), th.i) + k - ChunkOffset(Info(th), th.i)

IsLastTurn(th) == th.i = Info(th).num_blocks - 1

Buffer(th) == [k \in 1..th.size |-> <<th.w, th.offset + k - 1>>]

-----------------------------------------------------------------------------
(* Threads.                                                                *)

At(n, pc) == thread[n].pc = pc

WritePcs == {"get_block", "set_block", "get_attr", "set_attr"}

IsWriting(n) == thread[n].pc \in WritePcs

\* A link holds the lock of the name it starts from as well.
IsFree(n) == At(n, "idle") /\ \A m \in Names : n \notin thread[m].old

Goto(n, pc) == thread' = [thread EXCEPT ![n].pc = pc]

Return(n) == thread' = [thread EXCEPT ![n] = Idle]

Die ==
  /\ up' = FALSE
  /\ thread' = [n \in Names |-> Idle]
  /\ reader' = IdleReader /\ seen' = Nothing
  /\ torn' = (torn \/ \E n \in Names : IsWriting(n))
  /\ UNCHANGED overtaken

\* A NULL pointer is dereferenced.
Segfault == Die /\ UNCHANGED <<store, bounds>>

-----------------------------------------------------------------------------
(* memcached_write.                                                        *)

memcached_write(n) ==
  /\ up /\ n \in names /\ IsFree(n) /\ writes < MaxWrites
  /\ \E w \in Writes :
       thread' = [thread EXCEPT ![n] =
         [Idle EXCEPT !.pc = "get_block", !.w = writes + 1,
                      !.offset = w[1], !.size = w[2]]]
  /\ writes' = writes + 1
  /\ UNCHANGED <<store, up, reader, seen, torn, overtaken, crashes, faults>>

GetBlock(n) ==
  /\ At(n, "get_block")
  /\ thread' = [thread EXCEPT ![n].pc = "set_block",
                              ![n].data = memcached_get(BlockOf(thread[n]))]
  /\ UNCHANGED <<store, up, reader, seen, torn, overtaken, bounds>>

\* Only the first BlockSize bytes of data are stored.
SetBlock(n) ==
  LET th == thread[n]
  IN  /\ At(n, "set_block")
      /\ memcached_set(BlockOf(th),
           [k \in 1..BlockSize |-> IF k \in Chunk(th)
                                   THEN Buffer(th)[InBuffer(th, k)]
                                   ELSE th.data[k]])
      /\ thread' = [thread EXCEPT ![n] =
           IF IsLastTurn(th) THEN [th EXCEPT !.pc = "get_attr", !.data = <<>>]
           ELSE [th EXCEPT !.pc = "get_block", !.data = <<>>, !.i = @ + 1]]
      /\ Look
      /\ UNCHANGED <<attr, names, up, reader, torn, overtaken, bounds>>

\* A chunk that goes past the one byte more that data has overruns the heap.
OverrunHeap(n) ==
  /\ At(n, "set_block") /\ crashes < MaxCrashes
  /\ \E k \in Chunk(thread[n]) : k > BlockSize + 1
  /\ crashes' = crashes + 1
  /\ Die
  /\ UNCHANGED <<store, writes, faults>>

GetAttr(n) ==
  /\ At(n, "get_attr")
  /\ IF attr = NoAttr THEN Segfault
     ELSE /\ thread' = [thread EXCEPT ![n].pc = "set_attr", ![n].attr = attr]
          /\ UNCHANGED <<store, up, reader, seen, torn, overtaken, bounds>>

\* st_blocks and st_size, in one set; then the handler returns.
SetAttr(n) ==
  LET th == thread[n]
      end == th.offset + th.size
  IN  /\ At(n, "set_attr")
      /\ attr' = [th.attr EXCEPT !.st_blocks = Info(th).num_blocks,
                                 !.st_size = IF end > @ THEN end ELSE @]
      /\ Return(n)
      /\ UNCHANGED <<blocks, names, up, reader, seen, torn, overtaken, bounds>>

-----------------------------------------------------------------------------
(* memcached_read.                                                         *)

memcached_read(n) ==
  /\ up /\ reader.pc = "idle"
  /\ n \in names
  /\ At(n, "idle") \/ IsWriting(n)
  /\ \E r \in Reads :
       reader' = [IdleReader EXCEPT !.pc = "get_attr", !.name = {n},
                                    !.offset = r[1], !.size = r[2]]
  /\ seen' = [p \in Positions |-> {Contents(blocks)[p]}]
  /\ UNCHANGED <<store, up, thread, torn, overtaken, bounds>>

\* At or beyond the end nothing is read; otherwise the size is cut to fit.
ReadAttr ==
  LET rest == attr.st_size - reader.offset
      size == IF reader.size > rest THEN rest ELSE reader.size
  IN  /\ reader.pc = "get_attr"
      /\ IF attr = NoAttr THEN Segfault
         ELSE /\ IF rest <= 0
                 THEN reader' = IdleReader /\ seen' = Nothing
                 ELSE /\ reader' = [reader EXCEPT
                           !.pc = "get_block", !.size = size,
                           !.buf = [k \in 1..size |-> Garbage]]
                      /\ UNCHANGED seen
              /\ UNCHANGED <<store, up, thread, torn, overtaken, bounds>>

\* One turn of the loop.
ReadBlock ==
  LET data == memcached_get(BlockOf(reader))
      from(j) == {k \in Chunk(reader) : InBuffer(reader, k) = j}
      buf == [j \in 1..reader.size |->
                IF from(j) = {} THEN reader.buf[j]
                ELSE LET k == CHOOSE k \in from(j) : TRUE
                     IN  IF k \in DOMAIN data THEN data[k] ELSE Garbage]
  IN  /\ reader.pc = "get_block"
      /\ reader' = IF IsLastTurn(reader)
                   THEN [reader EXCEPT !.pc = "return", !.buf = buf]
                   ELSE [reader EXCEPT !.i = @ + 1, !.buf = buf]
      /\ UNCHANGED <<store, up, thread, seen, torn, overtaken, bounds>>

ReturnRead ==
  /\ reader.pc = "return"
  /\ reader' = IdleReader /\ seen' = Nothing
  /\ UNCHANGED <<store, up, thread, torn, overtaken, bounds>>

-----------------------------------------------------------------------------
(* memcached_unlink and memcached_link.                                    *)

\* Mutant: two names are taken for the last one.
HasOtherName_M(a) == a.st_nlink > 2

HasOtherName(a) == a.st_nlink > 1

\* The name goes first; then delete_inode reads the attributes.
memcached_unlink(n) ==
  /\ up /\ n \in names /\ IsFree(n) /\ n \notin reader.name
  /\ names' = names \ {n}
  /\ IF attr = NoAttr
     THEN Die
     ELSE /\ thread' = [thread EXCEPT ![n] = [Idle EXCEPT !.attr = attr,
                !.pc = IF HasOtherName(attr) THEN "set_nlink" ELSE "delete"]]
          /\ UNCHANGED <<up, reader, seen, torn, overtaken>>
  /\ UNCHANGED <<blocks, attr, bounds>>

\* The first st_blocks blocks, one command each.
DeleteBlock(n) ==
  LET th == thread[n]
  IN  /\ At(n, "delete") /\ th.i < th.attr.st_blocks
      /\ blocks' = [b \in DOMAIN blocks \ {th.i} |-> blocks[b]]
      /\ thread' = [thread EXCEPT ![n].i = @ + 1]
      /\ Look
      /\ UNCHANGED <<attr, names, up, reader, torn, overtaken, bounds>>

\* Then the inode.
DeleteInode(n) ==
  /\ At(n, "delete") /\ thread[n].i >= thread[n].attr.st_blocks
  /\ attr' = NoAttr
  /\ Return(n)
  /\ UNCHANGED <<blocks, names, up, reader, seen, torn, overtaken, bounds>>

memcached_link(old, n) ==
  /\ up /\ old \in names /\ n \notin names /\ IsFree(old) /\ IsFree(n)
  /\ attr.st_nlink < MaxNlink
  /\ IF attr = NoAttr
     THEN Segfault
     ELSE /\ thread' = [thread EXCEPT ![n] =
               [Idle EXCEPT !.pc = "set_nlink", !.old = {old}, !.attr = attr]]
          /\ UNCHANGED <<store, up, reader, seen, torn, overtaken, bounds>>

\* Between the get and the set of the inode: what is held goes stale unseen.
HoldsInode(n) == thread[n].pc \in {"set_attr", "set_nlink"}

\* One name less, or one more, which is stored after that.
SetNlink(n) ==
  LET th == thread[n]
  IN  /\ At(n, "set_nlink")
      /\ attr' = [th.attr EXCEPT !.st_nlink = IF th.old = {} THEN @ - 1 ELSE @ + 1]
      /\ IF th.old = {} THEN Return(n) ELSE Goto(n, "add_name")
      /\ overtaken' = (overtaken \/ (/\ th.old # {}
                                    /\ \E m \in Names \ {n} : HoldsInode(m)))
      /\ UNCHANGED <<blocks, names, up, reader, seen, torn, bounds>>

AddName(n) ==
  /\ At(n, "add_name")
  /\ names' = names \cup {n}
  /\ Return(n)
  /\ UNCHANGED <<blocks, attr, up, reader, seen, torn, overtaken, bounds>>

-----------------------------------------------------------------------------
(* The life of the process, and memcached.                                 *)

memcached_init ==
  /\ ~ up /\ up' = TRUE
  /\ UNCHANGED <<store, thread, reader, seen, torn, overtaken, bounds>>

Crash ==
  /\ up /\ crashes < MaxCrashes
  /\ crashes' = crashes + 1
  /\ Die
  /\ UNCHANGED <<store, writes, faults>>

\* memcached is a cache: short of memory it drops a key.
Evict ==
  /\ faults < MaxFaults
  /\ faults' = faults + 1
  /\ \/ /\ attr # NoAttr /\ attr' = NoAttr
        /\ UNCHANGED blocks
     \/ /\ \E b \in DOMAIN blocks :
             blocks' = [c \in DOMAIN blocks \ {b} |-> blocks[c]]
        /\ UNCHANGED attr
  /\ Look
  /\ UNCHANGED <<names, up, thread, reader, torn, overtaken, writes, crashes>>

Next ==
  \/ \E n \in Names :
       \/ memcached_write(n) \/ GetBlock(n) \/ SetBlock(n) \/ OverrunHeap(n)
       \/ GetAttr(n) \/ SetAttr(n)
       \/ memcached_read(n)
       \/ memcached_unlink(n) \/ DeleteBlock(n) \/ DeleteInode(n)
       \/ SetNlink(n) \/ AddName(n)
       \/ \E old \in Names : memcached_link(old, n)
  \/ ReadAttr \/ ReadBlock \/ ReturnRead
  \/ memcached_init \/ Crash \/ Evict

Spec == Init /\ [][Next]_vars

-----------------------------------------------------------------------------
(* Properties.                                                             *)

Attr == [st_size : 0..MaxLength, st_blocks : Nat, st_nlink : Nat]

Block == [1..BlockSize -> Byte]

Thread == [pc : WritePcs \cup {"idle", "set_nlink", "add_name", "delete"},
           w : 0..MaxWrites, offset : Nat, size : Nat, i : Nat,
           data : Block \cup {<<>>}, attr : Attr \cup {NoAttr}, old : SUBSET Names]

TypeOK ==
  /\ \A b \in DOMAIN blocks : b \in Nat /\ blocks[b] \in Block
  /\ attr \in Attr \cup {NoAttr}
  /\ names \subseteq Names
  /\ up \in BOOLEAN /\ torn \in BOOLEAN /\ overtaken \in BOOLEAN
  /\ thread \in [Names -> Thread]
  /\ reader.pc \in {"idle", "get_attr", "get_block", "return"}
  /\ writes \in 0..MaxWrites /\ crashes \in 0..MaxCrashes /\ faults \in 0..MaxFaults

\* The file as its users see it: without a name it is empty.
FileBytes == IF names = {} THEN [p \in Positions |-> Zero] ELSE Contents(blocks)

FileLength == IF names = {} THEN 0 ELSE attr.st_size

WriteRequest(th) ==
  IF th.pc \in WritePcs THEN [offset |-> th.offset, buf |-> Buffer(th)]
  ELSE [offset |-> 0, buf |-> <<>>]

Abstract ==
  INSTANCE ByteFile WITH
    bytes <- FileBytes,
    length <- FileLength,
    request <- WriteRequest(thread[CHOOSE n \in Names : TRUE]),
    alive <- up,
    IsStoredWhole <- IsCovered

\* With one name and one thread, the file keeps the promise of ByteFile.
ImplementsByteFile == Abstract!Spec

\* Until a process died in a write, the file is zero beyond its end: a write
\* that starts there leaves a gap of zeros.
ZeroBeyondEnd ==
  ~ torn /\ names # {} /\ attr # NoAttr /\ (\A n \in Names : ~ IsWriting(n)) =>
    \A p \in attr.st_size..(MaxLength - 1) : Contents(blocks)[p] = Zero

IsWritten(th) ==
  \A k \in 1..th.size : Contents(blocks)[th.offset + k - 1] = Buffer(th)[k]

\* The bytes a write was given are all in the file at its end, but for a whole
\* number of blocks that starts inside a block: those always lose their end.
WrittenIfCovered ==
  \A n \in Names : At(n, "set_attr") =>
    (IsWritten(thread[n]) <=> IsCovered(thread[n].offset, thread[n].size))

\* A deleted file leaves no block behind in memcached.
BlocksAreDeleted == attr = NoAttr => DOMAIN blocks = {}

\* A read returns, for each byte, one the file held there since the read began,
\* however many steps of writes and unlinks came in between and whichever block
\* memcached dropped, and never foreign memory.
ReadsWhatWasThere ==
  reader.pc = "return" =>
    \A k \in 1..reader.size : reader.buf[k] \in seen[reader.offset + k - 1]

\* Two writes at once, a dropped block or a kill may lose bytes of the file, but
\* each byte it has is zero or one that a write brought for that position.
BytesAreInPlace ==
  \A p \in Positions : Contents(blocks)[p] = Zero \/ Contents(blocks)[p][2] = p

\* While the file has a name it keeps its inode, as README.md:32-35 has it that
\* the inode of every path can be pulled from memcached.
NamedFileStays == faults = 0 /\ names # {} => attr # NoAttr

\* Of the stale texts that a write, a link or an unlink through another name
\* stores, only those that a link overtook can free a named file: until then the
\* count is only ever too high, however many names and threads there are.
FileStaysUnlessOvertaken ==
  ~ overtaken /\ faults = 0 /\ names # {} =>
    attr # NoAttr /\ Cardinality(names) <= attr.st_nlink
=============================================================================
