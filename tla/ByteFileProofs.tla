---------------------------- MODULE ByteFileProofs ----------------------------
(***************************************************************************)
(* What a file holds, for every block size and all requests.  A file with  *)
(* one name, of which memcached drops nothing, keeps the promise of        *)
(* ByteFile, wherever the process is killed; and a read returns, of a file *)
(* that several threads use at once through any number of names, what the  *)
(* file held while the read went on; and a name keeps its inode, unless a  *)
(* link overtook what another thread held of it.                           *)
(***************************************************************************)
EXTENDS FileIOProofs

(***************************************************************************)
(* What a write has done: of the positions of its request, those in the    *)
(* blocks before NextBlock hold its bytes and the others do not.           *)
(***************************************************************************)
Fits(th) ==
  /\ th.offset \in Nat /\ th.size \in Nat \ {0} /\ th.offset + th.size <= MaxLength
  /\ IsInRange(th.offset, th.size)

InRequest(th, p) == p \in th.offset..(th.offset + th.size - 1)

NextBlock(th) ==
  Info(th).start_block +
    (IF th.pc \in {"get_block", "set_block"} THEN th.i ELSE Info(th).num_blocks)

Holds(th, p) == Contents(blocks)[p] = <<th.w, p>>

Progress(th) ==
  /\ th.pc # "idle" => up
  /\ th.pc \in WritePcs =>
       /\ names # {} /\ th.w = writes
       /\ \A p \in Positions :
            InRequest(th, p) => (Holds(th, p) <=> p \div BlockSize < NextBlock(th))
  /\ th.pc = "set_block" => th.data = memcached_get(BlockOf(th))
  /\ th.pc = "set_attr" => th.attr = attr

\* That no byte of the write is there at its beginning needs that every byte is
\* of a write before it.
AgeInv == \A p \in Positions : Contents(blocks)[p][1] <= writes

WriterInv ==
  /\ \A n \in Names : Progress(thread[n])
  /\ AgeInv
  /\ names # {} => attr \in Attr
  /\ reader.pc # "idle" => up

FileInv == EndInv /\ WriterInv

OneNameNoFaults == SingleName /\ MaxFaults = 0

-----------------------------------------------------------------------------
(* Blocks and positions.                                                   *)

\* A position before the end of block m - 1 is in one of the blocks before m.
LEMMA BlocksBefore ==
  ASSUME NEW p \in Positions, NEW m \in Nat
  PROVE  m * BlockSize \in Nat /\ (p \div BlockSize < m <=> p < m * BlockSize)
  <1> DEFINE b == p \div BlockSize
             k == (p % BlockSize) + 1
  <1>1. /\ p \in Nat /\ b \in Nat /\ k \in 1..BlockSize
        /\ b * BlockSize \in Nat /\ b * BlockSize + k - 1 = p
    BY PlaceInBlock
  <1> HIDE DEF b, k
  <1>2. m * BlockSize \in Nat
    BY BlockSizeAssumption
  <1>3. ASSUME b < m PROVE p < m * BlockSize
    <2>1. b * BlockSize + BlockSize <= m * BlockSize
      BY <1>1, <1>3, BlocksAreOrdered
    <2> DEFINE bB == b * BlockSize
               mB == m * BlockSize
    <2>2. bB \in Nat /\ mB \in Nat /\ bB + BlockSize <= mB /\ bB + k - 1 = p
      BY <1>1, <1>2, <2>1
    <2> HIDE DEF bB, mB
    <2>3. p < mB
      BY <1>1, <2>2, BlockSizeAssumption
    <2> QED BY <2>3 DEF mB
  <1>4. ASSUME m <= b PROVE m * BlockSize <= p
    <2>1. m * BlockSize <= b * BlockSize
      <3>1. CASE m = b
        BY <3>1, <1>1
      <3>2. CASE m < b
        <4>1. m * BlockSize + BlockSize <= b * BlockSize
          BY <1>1, <3>2, BlocksAreOrdered
        <4> DEFINE bB == b * BlockSize
                   mB == m * BlockSize
        <4>2. bB \in Nat /\ mB \in Nat /\ mB + BlockSize <= bB
          BY <1>1, <1>2, <4>1
        <4> HIDE DEF bB, mB
        <4>3. mB <= bB
          BY <4>2, BlockSizeAssumption
        <4> QED BY <4>3 DEF bB, mB
      <3> QED BY <1>1, <1>4, <3>1, <3>2
    <2> DEFINE bB == b * BlockSize
               mB == m * BlockSize
    <2>2. bB \in Nat /\ mB \in Nat /\ mB <= bB /\ bB + k - 1 = p
      BY <1>1, <1>2, <2>1
    <2> HIDE DEF bB, mB
    <2>3. mB <= p
      BY <1>1, <2>2, BlockSizeAssumption
    <2> QED BY <2>3 DEF mB
  <1>5. b < m <=> p < m * BlockSize
    <2> DEFINE mB == m * BlockSize
    <2>1. mB \in Nat /\ (b < m => p < mB) /\ (m <= b => mB <= p)
      BY <1>2, <1>3, <1>4
    <2> HIDE DEF mB
    <2>2. b < m <=> p < mB
      BY <1>1, <2>1
    <2> QED BY <2>2 DEF mB
  <1> QED BY <1>2, <1>5 DEF b

\* In the block of its turn a request takes its own positions and no others.
LEMMA ChunkIsRequest ==
  ASSUME NEW th, Fits(th), IsAtTurn(th), NEW p \in Positions,
         p \div BlockSize = BlockOf(th)
  PROVE  /\ (p % BlockSize) + 1 \in Chunk(th) <=> InRequest(th, p)
         /\ InRequest(th, p) => InBuffer(th, (p % BlockSize) + 1) = p - th.offset + 1
  <1> DEFINE info == Info(th)
             from == ChunkOffset(info, th.i)
             before == BytesBefore(info, th.i)
             len == ChunkSize(info, th.i, th.size)
             b == BlockOf(th)
             k == (p % BlockSize) + 1
             bB == b * BlockSize
  <1>1. /\ th.offset \in Nat /\ th.size \in Nat \ {0}
        /\ th.offset + th.size <= MaxLength /\ IsInRange(th.offset, th.size)
    BY DEF Fits
  <1>2. /\ from \in Nat /\ len \in Nat /\ before \in Nat /\ before + len <= th.size
        /\ bB + from = th.offset + before
    BY <1>1, ChunkIsInRequest DEF Info, IsAtTurn, BlockOf
  <1>3. k \in 1..BlockSize /\ bB \in Nat /\ bB + k - 1 = p /\ p \in Nat
    BY PlaceInBlock
  <1>4. ASSUME InRequest(th, p) PROVE k \in Chunk(th)
    <2>1. (info.start_block + th.i) * BlockSize + k - 1 \in th.offset..(th.offset + th.size - 1)
      BY <1>3, <1>4 DEF InRequest, BlockOf
    <2> HIDE DEF k
    <2> QED BY <1>1, <1>3, <2>1, ChunkIsPartInBlock DEF Info, IsAtTurn, Chunk
  <1>5. ASSUME k \in Chunk(th)
        PROVE  InRequest(th, p) /\ InBuffer(th, k) = p - th.offset + 1
    <2>1. k \in (from + 1)..(from + len)
      BY <1>5 DEF Chunk
    <2>2. InBuffer(th, k) = before + k - from
      BY DEF InBuffer
    <2> HIDE DEF from, before, len, b, k, bB
    <2>3. /\ before + k - from \in 1..th.size
          /\ th.offset + (before + k - from) - 1 = p
      BY <1>1, <1>2, <1>3, <2>1
    <2>4. before + k - from = p - th.offset + 1
      BY <1>1, <1>2, <1>3, <2>1
    <2>5. InRequest(th, p)
      BY <1>1, <2>3 DEF InRequest
    <2> QED BY <2>2, <2>4, <2>5
  <1> QED BY <1>4, <1>5

\* The turns end where the request has nothing more to do, if it is covered.
LEMMA AllTurnsDone ==
  ASSUME NEW th, Fits(th)
  PROVE  IsCovered(th.offset, th.size) <=>
           \A p \in Positions : InRequest(th, p) =>
             p \div BlockSize < Info(th).start_block + Info(th).num_blocks
  <1> DEFINE end == Info(th).start_block + Info(th).num_blocks
             eB == end * BlockSize
             last == th.offset + th.size - 1
  <1>1. /\ th.offset \in Nat /\ th.size \in Nat \ {0}
        /\ th.offset + th.size <= MaxLength /\ IsInRange(th.offset, th.size)
    BY DEF Fits
  <1>2. end \in Nat /\ eB \in Nat
    BY <1>1, InfoTypes, BlockSizeAssumption DEF Info
  <1>3. IsCovered(th.offset, th.size) <=> th.offset + th.size <= eB
    BY <1>1, TurnsEndBehindRequest DEF Info
  <1> HIDE DEF end
  <1>4. \A p \in Positions : p \div BlockSize < end <=> p < eB
    BY <1>2, BlocksBefore
  <1>5. last \in Positions /\ InRequest(th, last)
    BY <1>1, FileAssumption DEF Positions, InRequest
  <1>6. (\A p \in Positions : InRequest(th, p) => p < eB) <=> last < eB
    <2> HIDE DEF eB
    <2>1. ASSUME last < eB, NEW p \in Positions, InRequest(th, p) PROVE p < eB
      BY <1>1, <1>2, <2>1 DEF InRequest
    <2> QED BY <1>5, <2>1
  <1>7. last < eB <=> th.offset + th.size <= eB
    <2> HIDE DEF eB
    <2> QED BY <1>1, <1>2
  <1> HIDE DEF eB, last
  <1> QED BY <1>3, <1>4, <1>6, <1>7 DEF end

\* Nothing of a request lies before its first block.
LEMMA NoneBefore ==
  ASSUME NEW th, Fits(th), NEW p \in Positions, InRequest(th, p)
  PROVE  ~ (p \div BlockSize < Info(th).start_block)
  <1> DEFINE start == Info(th).start_block
             sB == start * BlockSize
             from == ChunkOffset(Info(th), 0)
  <1>1. /\ th.offset \in Nat /\ th.size \in Nat \ {0} /\ IsInRange(th.offset, th.size)
        /\ start \in Nat /\ 0 \in Turns(Info(th)) /\ sB \in Nat
    <2>1. /\ th.offset \in Nat /\ th.size \in Nat \ {0} /\ IsInRange(th.offset, th.size)
      BY DEF Fits
    <2>2. start \in Nat /\ Info(th).num_blocks \in Nat \ {0}
      BY <2>1, InfoTypes DEF Info
    <2> QED BY <2>1, <2>2, BlockSizeAssumption DEF Turns
  <1>2. from \in 0..(BlockSize - 1) /\ sB + from = th.offset
    <2>1. /\ from \in 0..(BlockSize - 1)
          /\ (start + 0) * BlockSize + from = th.offset + BytesBefore(Info(th), 0)
      BY <1>1, ChunkIsInRequest DEF Info
    <2>2. BytesBefore(Info(th), 0) = 0
      BY DEF BytesBefore
    <2>3. start + 0 = start /\ th.offset + 0 = th.offset
      BY <1>1
    <2> QED BY <2>1, <2>2, <2>3
  <1>3. p \in Nat /\ p >= th.offset
    BY <1>1, PlaceInBlock DEF InRequest
  <1>4. ~ (p < sB)
    <2> HIDE DEF sB, from
    <2> QED BY <1>1, <1>2, <1>3
  <1> QED BY <1>1, <1>4, BlocksBefore

\* What a turn does to the file.
LEMMA TurnStores ==
  ASSUME FileInv, NEW n \in Names, SetBlock(n), NEW p \in Positions
  PROVE  Contents(blocks')[p] =
           IF p \div BlockSize = BlockOf(thread[n]) /\ InRequest(thread[n], p)
           THEN <<thread[n].w, p>> ELSE Contents(blocks)[p]
  <1> DEFINE th == thread[n]
             b == BlockOf(th)
             k == (p % BlockSize) + 1
             data == [j \in 1..BlockSize |-> IF j \in Chunk(th)
                                             THEN Buffer(th)[InBuffer(th, j)]
                                             ELSE th.data[j]]
  <1>1. Fits(th) /\ IsAtTurn(th) /\ th.data = memcached_get(b)
    BY ThreadFacts, RequestIsInRange
    DEF Fits, SetBlock, At, FileInv, EndInv, WriterInv, Progress, ThreadInv, WritePcs
  <1>2. blocks' = [c \in DOMAIN blocks \cup {b} |-> IF c = b THEN data ELSE blocks[c]]
    BY DEF SetBlock, memcached_set
  <1>3. k \in 1..BlockSize
    BY PlaceInBlock
  <1>4. CASE p \div BlockSize = b
    <2>1. Contents(blocks')[p] = data[k]
      <3> HIDE DEF data, b, k
      <3>1. blocks'[b] = data /\ b \in DOMAIN blocks'
        BY <1>2
      <3> QED BY <1>4, <3>1, PlaceInBlock DEF k
    <2>2. th.data[k] = Contents(blocks)[p]
      <3>1. CASE b \in DOMAIN blocks
        BY <1>1, <1>4, <3>1, PlaceInBlock DEF memcached_get
      <3>2. CASE b \notin DOMAIN blocks
        BY <1>1, <1>3, <1>4, <3>2, PlaceInBlock DEF memcached_get, NewBlock
      <3> QED BY <3>1, <3>2
    <2>3. data[k] = IF k \in Chunk(th) THEN Buffer(th)[InBuffer(th, k)] ELSE th.data[k]
      BY <1>3
    <2>4. /\ k \in Chunk(th) <=> InRequest(th, p)
          /\ InRequest(th, p) => InBuffer(th, k) = p - th.offset + 1
      BY <1>1, <1>4, ChunkIsRequest
    <2>5. InRequest(th, p) => Buffer(th)[p - th.offset + 1] = <<th.w, p>>
      <3>1. InRequest(th, p) => /\ p - th.offset + 1 \in 1..th.size
                                /\ th.offset + (p - th.offset + 1) - 1 = p
        BY <1>1, PlaceInBlock DEF InRequest, Fits
      <3> QED BY <3>1 DEF Buffer
    <2>6. Contents(blocks')[p] = IF InRequest(th, p) THEN <<th.w, p>> ELSE Contents(blocks)[p]
      <3> HIDE DEF data, k, b, th
      <3> QED BY <2>1, <2>2, <2>3, <2>4, <2>5
    <2> QED BY <1>4, <2>6
  <1>5. CASE p \div BlockSize # b
    <2> HIDE DEF data, b
    <2>1. Contents(blocks')[p] = Contents(blocks)[p]
      BY <1>2, <1>5, PlaceInBlock
    <2> QED BY <1>5, <2>1 DEF b
  <1> QED BY <1>4, <1>5

-----------------------------------------------------------------------------
(* The invariant.                                                          *)

\* Where the blocks stay as they are so does what the file holds.
LEMMA SameBlocks ==
  ASSUME AgeInv, UNCHANGED blocks, writes' >= writes, writes \in Nat, writes' \in Nat,
         \A p \in Positions : Contents(blocks)[p][1] \in Nat
  PROVE  AgeInv'
  BY DEF AgeInv

\* Blocks of bytes make a file of bytes.
LEMMA ContentsAreBytes ==
  ASSUME NEW blks, \A b \in DOMAIN blks : blks[b] \in Block, NEW p \in Positions
  PROVE  Contents(blks)[p] \in Byte
  <1> DEFINE b == p \div BlockSize
             k == (p % BlockSize) + 1
  <1>1. k \in 1..BlockSize /\ Contents(blks)[p] = IF b \in DOMAIN blks THEN blks[b][k] ELSE Zero
    BY PlaceInBlock
  <1> HIDE DEF b, k
  <1> QED BY <1>1, ZeroIsByte DEF Block

\* The bytes of the file have an age.
LEMMA BytesHaveAge ==
  ASSUME IInv
  PROVE  /\ writes \in Nat
         /\ \A p \in Positions : Contents(blocks)[p] \in Byte /\ Contents(blocks)[p][1] \in Nat
  <1>1. writes \in Nat
    BY FileAssumption DEF IInv, TypeOK
  <1>2. ASSUME NEW p \in Positions PROVE Contents(blocks)[p] \in Byte
    BY ContentsAreBytes DEF IInv, TypeOK
  <1>3. \A x \in Byte : x[1] \in Nat
    BY FileAssumption DEF Byte, Zero
  <1> QED BY <1>1, <1>2, <1>3

\* The only thread moves and its new state fits the new state of the file.
LEMMA WriterMoves ==
  ASSUME SingleName, IInv, NEW n \in Names, NEW th,
         thread' = [thread EXCEPT ![n] = th], Progress(th)', AgeInv',
         names' # {} => attr' \in Attr, reader'.pc # "idle" => up'
  PROVE  WriterInv'
  <1>1. \A m \in Names : thread'[m] = th
    BY DEF SingleName, IInv, TypeOK
  <1> QED BY <1>1 DEF WriterInv, Progress, InRequest, Holds, NextBlock, Info, BlockOf,
                      memcached_get

\* The process dies.
LEMMA DieWriter ==
  ASSUME FileInv, Die, UNCHANGED <<store, writes>>
  PROVE  WriterInv'
  <1>1. \A n \in Names : thread'[n].pc = "idle"
    BY DEF Die, Idle
  <1>2. reader'.pc = "idle"
    BY DEF Die, IdleReader
  <1>3. AgeInv' /\ (names' # {} => attr' \in Attr)
    BY DEF FileInv, EndInv, WriterInv, AgeInv, store
  <1> QED BY <1>1, <1>2, <1>3 DEF WriterInv, Progress, WritePcs

\* At the beginning nothing is written.
LEMMA InitWriter == Init => WriterInv
  <1> SUFFICES ASSUME Init PROVE WriterInv
    OBVIOUS
  <1>1. \A p \in Positions : Contents(blocks)[p] = Zero
    BY PlaceInBlock DEF Init
  <1>2. AgeInv
    BY <1>1 DEF AgeInv, Init, Zero
  <1>3. attr \in Attr
    <2>1. Cardinality(Names) \in Nat
      BY FileAssumption, FS_CardinalityType
    <2> QED BY <2>1, FileAssumption DEF Init, Attr
  <1>4. reader.pc = "idle" /\ \A n \in Names : thread[n].pc = "idle"
    BY DEF Init, IdleReader, Idle
  <1> QED BY <1>2, <1>3, <1>4 DEF WriterInv, Progress, WritePcs

\* A write begins: none of its bytes is there.
LEMMA WriteWriter ==
  ASSUME SingleName, FileInv, NEW n \in Names, memcached_write(n)
  PROVE  WriterInv'
  <1>1. PICK w \in Writes :
          thread' = [thread EXCEPT ![n] =
            [Idle EXCEPT !.pc = "get_block", !.w = writes + 1,
                         !.offset = w[1], !.size = w[2]]]
    BY DEF memcached_write
  <1>2. PICK th : th = [Idle EXCEPT !.pc = "get_block", !.w = writes + 1,
                                    !.offset = w[1], !.size = w[2]]
    OBVIOUS
  <1>3. /\ th.pc = "get_block" /\ th.w = writes + 1 /\ th.i = 0
        /\ th.offset = w[1] /\ th.size = w[2]
    BY <1>2 DEF Idle
  <1>4. /\ writes \in Nat /\ writes + 1 \in 1..MaxWrites /\ writes' = writes + 1
        /\ up /\ names # {}
        /\ UNCHANGED <<blocks, attr, names, up, reader>>
    BY FileAssumption DEF memcached_write, FileInv, EndInv, IInv, TypeOK, store
  <1>5. IsRequest(th)
    BY <1>3, <1>4, FileAssumption DEF IsRequest
  <1>6. ASSUME NEW p \in Positions, InRequest(th, p)
        PROVE  ~ Holds(th, p)' /\ ~ (p \div BlockSize < Info(th).start_block)
    <2>1. Contents(blocks)[p][1] < writes + 1
      BY <1>4, BytesHaveAge DEF FileInv, EndInv, WriterInv, AgeInv
    <2>2. Contents(blocks)[p] # <<writes + 1, p>>
      BY <1>4, <2>1, BytesHaveAge DEF FileInv, EndInv
    <2>3. ~ Holds(th, p)'
      BY <1>3, <1>4, <2>2 DEF Holds
    <2>4. Fits(th)
      BY <1>5, RequestIsInRange DEF Fits
    <2> QED BY <1>6, <2>3, <2>4, NoneBefore
  <1>7. NextBlock(th) = Info(th).start_block
    <2>1. Info(th).start_block + 0 = Info(th).start_block
      BY <1>5, InfoOfRequest
    <2> QED BY <1>3, <2>1 DEF NextBlock
  <1>8. Progress(th)'
    BY <1>3, <1>4, <1>6, <1>7 DEF Progress
  <1>9. AgeInv'
    BY <1>4, BytesHaveAge, SameBlocks DEF FileInv, EndInv, WriterInv
  <1> QED BY <1>1, <1>2, <1>4, <1>8, <1>9, WriterMoves DEF FileInv, EndInv, WriterInv

\* The block of the turn is read.
LEMMA GetBlockWriter ==
  ASSUME SingleName, FileInv, NEW n \in Names, GetBlock(n)
  PROVE  WriterInv'
  <1>1. PICK old : old = thread[n]
    OBVIOUS
  <1>2. PICK data : data = memcached_get(BlockOf(old))
    OBVIOUS
  <1>3. PICK th : th = [old EXCEPT !.pc = "set_block", !.data = data]
    OBVIOUS
  <1>4. /\ old \in Thread /\ old.pc = "get_block" /\ Progress(old)
        /\ UNCHANGED <<blocks, attr, names, writes, up, reader>>
    BY <1>1, ThreadFacts DEF GetBlock, At, FileInv, EndInv, WriterInv, store, bounds
  <1>5. thread' = [thread EXCEPT ![n] = th]
    BY <1>1, <1>2, <1>3 DEF GetBlock
  <1>6. /\ th.pc = "set_block" /\ th.data = data /\ th.w = old.w
        /\ th.offset = old.offset /\ th.size = old.size /\ th.i = old.i
    BY <1>3, <1>4 DEF Thread
  <1>7. /\ Info(th) = Info(old) /\ BlockOf(th) = BlockOf(old)
        /\ NextBlock(th) = NextBlock(old)
    BY <1>4, <1>6 DEF Info, BlockOf, NextBlock
  <1>8. ASSUME NEW p \in Positions
        PROVE  (InRequest(th, p) <=> InRequest(old, p)) /\ (Holds(th, p)' <=> Holds(old, p))
    BY <1>4, <1>6 DEF InRequest, Holds
  <1>9. memcached_get(BlockOf(th))' = data
    BY <1>2, <1>4, <1>7 DEF memcached_get
  <1>10. Progress(th)'
    BY <1>4, <1>6, <1>7, <1>8, <1>9 DEF Progress, WritePcs
  <1>11. AgeInv'
    BY <1>4 DEF FileInv, EndInv, WriterInv, AgeInv
  <1> QED BY <1>4, <1>5, <1>10, <1>11, WriterMoves DEF FileInv, EndInv, WriterInv

\* The block of the turn is stored: one block more holds the bytes of the write.
LEMMA SetBlockWriter ==
  ASSUME SingleName, FileInv, NEW n \in Names, SetBlock(n)
  PROVE  WriterInv'
  <1>1. PICK old : old = thread[n]
    OBVIOUS
  <1>2. PICK th : th = IF IsLastTurn(old) THEN [old EXCEPT !.pc = "get_attr", !.data = <<>>]
                       ELSE [old EXCEPT !.pc = "get_block", !.data = <<>>, !.i = @ + 1]
    OBVIOUS
  <1>3. /\ old \in Thread /\ old.pc = "set_block" /\ Progress(old)
        /\ IsRequest(old) /\ IsAtTurn(old)
        /\ UNCHANGED <<attr, names, writes, up, reader>>
    BY <1>1, ThreadFacts DEF SetBlock, At, FileInv, EndInv, WriterInv, bounds, ThreadInv, WritePcs
  <1>4. thread' = [thread EXCEPT ![n] = th]
    BY <1>1, <1>2 DEF SetBlock
  <1>5. /\ th.w = old.w /\ th.offset = old.offset /\ th.size = old.size
        /\ \/ th.pc = "get_attr" /\ IsLastTurn(old)
           \/ th.pc = "get_block" /\ th.i = old.i + 1
    BY <1>2, <1>3 DEF Thread
  <1>6. Info(th) = Info(old)
    BY <1>5 DEF Info
  <1>7. BlockOf(old) \in Nat /\ NextBlock(old) = BlockOf(old) /\ NextBlock(th) = BlockOf(old) + 1
    <2>1. /\ Info(old).num_blocks \in Nat \ {0} /\ Info(old).start_block \in Nat
          /\ old.i \in Nat /\ BlockOf(old) \in Nat
      BY <1>3, InfoOfRequest
    <2> QED BY <1>3, <1>5, <1>6, <2>1 DEF NextBlock, BlockOf, IsLastTurn
  <1>8. ASSUME NEW p \in Positions
        PROVE  Contents(blocks')[p] =
                 IF p \div BlockSize = BlockOf(old) /\ InRequest(old, p)
                 THEN <<old.w, p>> ELSE Contents(blocks)[p]
    BY <1>1, TurnStores
  <1>9. ASSUME NEW p \in Positions, InRequest(th, p)
        PROVE  Holds(th, p)' <=> p \div BlockSize < NextBlock(th)
    <2>1. InRequest(old, p) /\ p \div BlockSize \in Nat
      BY <1>5, <1>9, PlaceInBlock DEF InRequest
    <2>2. CASE p \div BlockSize = BlockOf(old)
      <3>1. Holds(th, p)'
        BY <1>5, <1>8, <2>1, <2>2 DEF Holds
      <3>2. p \div BlockSize < NextBlock(th)
        <4> DEFINE b == p \div BlockSize
        <4> HIDE DEF b
        <4>1. b = BlockOf(old)
          BY <2>2 DEF b
        <4>2. b < NextBlock(th)
          BY <1>7, <4>1
        <4> QED BY <4>2 DEF b
      <3> QED BY <3>1, <3>2
    <2>3. CASE p \div BlockSize # BlockOf(old)
      <3>1. Holds(th, p)' <=> p \div BlockSize < BlockOf(old)
        BY <1>3, <1>5, <1>7, <1>8, <2>1, <2>3 DEF Holds, Progress, WritePcs
      <3> QED BY <1>7, <2>1, <2>3, <3>1
    <2> QED BY <2>2, <2>3
  <1>10. Progress(th)'
    BY <1>3, <1>5, <1>9 DEF Progress, WritePcs
  <1>11. AgeInv'
    <2>1. writes \in Nat /\ old.w = writes
      BY <1>3, BytesHaveAge DEF FileInv, EndInv, Progress, WritePcs
    <2>2. ASSUME NEW p \in Positions PROVE Contents(blocks')[p][1] <= writes
      <3>1. Contents(blocks')[p] = <<old.w, p>> \/ Contents(blocks')[p] = Contents(blocks)[p]
        BY <1>8
      <3> QED BY <2>1, <3>1 DEF FileInv, EndInv, WriterInv, AgeInv
    <2> QED BY <1>3, <2>2 DEF AgeInv
  <1> QED BY <1>3, <1>4, <1>10, <1>11, WriterMoves DEF FileInv, EndInv, WriterInv

\* The attributes are read; a file with a name has them.
LEMMA GetAttrWriter ==
  ASSUME SingleName, FileInv, NEW n \in Names, GetAttr(n)
  PROVE  WriterInv' /\ attr # NoAttr
  <1>1. PICK old : old = thread[n]
    OBVIOUS
  <1>2. PICK th : th = [old EXCEPT !.pc = "set_attr", !.attr = attr]
    OBVIOUS
  <1>3. old \in Thread /\ old.pc = "get_attr" /\ Progress(old)
    BY <1>1, ThreadFacts DEF GetAttr, At, FileInv, EndInv, WriterInv
  <1>4. attr # NoAttr
    BY <1>3, IdleIsThread DEF Progress, WritePcs, FileInv, EndInv, WriterInv
  <1>5. /\ UNCHANGED <<blocks, attr, names, writes, up, reader>>
        /\ thread' = [thread EXCEPT ![n] = th]
    BY <1>1, <1>2, <1>4 DEF GetAttr, store, bounds
  <1>6. /\ th.pc = "set_attr" /\ th.attr = attr /\ th.w = old.w
        /\ th.offset = old.offset /\ th.size = old.size
    BY <1>2, <1>3 DEF Thread
  <1>7. NextBlock(th) = NextBlock(old)
    BY <1>3, <1>6 DEF Info, NextBlock
  <1>8. ASSUME NEW p \in Positions
        PROVE  (InRequest(th, p) <=> InRequest(old, p)) /\ (Holds(th, p)' <=> Holds(old, p))
    BY <1>5, <1>6 DEF InRequest, Holds
  <1>9. Progress(th)'
    BY <1>3, <1>5, <1>6, <1>7, <1>8 DEF Progress, WritePcs
  <1>10. AgeInv'
    BY <1>5 DEF FileInv, EndInv, WriterInv, AgeInv
  <1> QED BY <1>4, <1>5, <1>9, <1>10, WriterMoves DEF FileInv, EndInv, WriterInv

\* The new end is stored, and the write returns.
LEMMA SetAttrWriter ==
  ASSUME SingleName, FileInv, NEW n \in Names, SetAttr(n)
  PROVE  WriterInv'
  <1>1. /\ thread' = [thread EXCEPT ![n] = Idle]
        /\ UNCHANGED <<blocks, names, writes, up, reader>>
    BY DEF SetAttr, Return, bounds
  <1>2. attr' \in Attr
    <2> DEFINE old == thread[n]
    <2>1. old.attr \in Attr /\ IsRequest(old)
      BY ThreadFacts DEF SetAttr, At, FileInv, EndInv, ThreadInv, WritePcs
    <2>2. /\ Info(old).num_blocks \in Nat /\ old.offset + old.size \in 0..MaxLength
          /\ old.attr.st_size \in 0..MaxLength
      BY <2>1, RequestIsInRange, InfoOfRequest, FileAssumption DEF Attr
    <2> QED BY <2>1, <2>2 DEF SetAttr, Attr
  <1>3. Progress(Idle)'
    BY DEF Progress, Idle, WritePcs
  <1>4. AgeInv'
    BY <1>1 DEF FileInv, EndInv, WriterInv, AgeInv
  <1> QED BY <1>1, <1>2, <1>3, <1>4, WriterMoves DEF FileInv, EndInv, WriterInv

\* The only name goes with an unlink and never comes back.
LEMMA NamesWriter ==
  ASSUME SingleName, FileInv, NEW n \in Names,
         \/ memcached_unlink(n) \/ DeleteBlock(n) \/ DeleteInode(n)
         \/ SetNlink(n) \/ AddName(n)
         \/ \E old \in Names : memcached_link(old, n)
  PROVE  WriterInv'
  <1>1. \A m \in Names : m = n
    BY DEF SingleName
  <1>2. /\ thread \in [Names -> Thread] /\ ~ At(n, "add_name") /\ thread[n].old = {}
        /\ thread[n].pc \in {"set_nlink", "delete"} => names = {}
    BY ThreadFacts DEF FileInv, EndInv, LifeInv, At
  <1>3. CASE memcached_unlink(n)
    <2>1. attr # NoAttr
      BY <1>3, IdleIsThread DEF memcached_unlink, FileInv, EndInv, WriterInv
    <2>2. PICK pc \in {"set_nlink", "delete"} :
            thread' = [thread EXCEPT ![n] = [Idle EXCEPT !.attr = attr, !.pc = pc]]
      BY <1>3, <2>1 DEF memcached_unlink
    <2>3. PICK th : th = [Idle EXCEPT !.attr = attr, !.pc = pc]
      OBVIOUS
    <2>4. th.pc = pc
      BY <2>3 DEF Idle
    <2>5. /\ names' = {} /\ up'
          /\ UNCHANGED <<blocks, attr, reader, writes, up>>
      BY <1>1, <1>3, <2>1 DEF memcached_unlink, FileInv, EndInv, IInv, TypeOK, bounds
    <2>6. Progress(th)'
      BY <2>4, <2>5 DEF Progress, WritePcs
    <2>7. AgeInv'
      BY <2>5 DEF FileInv, WriterInv, AgeInv
    <2> QED BY <2>2, <2>3, <2>5, <2>6, <2>7, WriterMoves DEF FileInv, EndInv, WriterInv
  <1>4. CASE DeleteBlock(n) \/ DeleteInode(n) \/ SetNlink(n)
    <2>1. PICK th : th = thread'[n]
      OBVIOUS
    <2>2. /\ names' = {} /\ thread' = [thread EXCEPT ![n] = th]
          /\ UNCHANGED <<writes, up, reader>> /\ Progress(th)'
      <3>1. CASE DeleteBlock(n)
        <4>1. th.pc = "delete" /\ up
          BY <1>2, <2>1, <3>1 DEF DeleteBlock, At, Thread, FileInv, WriterInv, Progress
        <4>2. up = TRUE
          BY <4>1 DEF FileInv, EndInv, IInv, TypeOK
        <4>3. UNCHANGED <<writes, up, reader>> /\ names' = {}
          BY <1>2, <3>1 DEF DeleteBlock, At, bounds
        <4>4. Progress(th)'
          BY <4>1, <4>2, <4>3 DEF Progress, WritePcs
        <4> QED BY <1>2, <2>1, <3>1, <4>3, <4>4 DEF DeleteBlock
      <3>2. CASE DeleteInode(n) \/ SetNlink(n)
        <4>1. /\ names' = {} /\ th = Idle /\ thread' = [thread EXCEPT ![n] = th]
              /\ UNCHANGED <<writes, up, reader>>
          BY <1>2, <2>1, <3>2 DEF DeleteInode, SetNlink, At, Return, bounds
        <4>2. Progress(Idle)'
          BY DEF Progress, Idle, WritePcs
        <4> QED BY <4>1, <4>2
      <3> QED BY <1>4, <3>1, <3>2
    <2>3. ASSUME NEW p \in Positions
          PROVE  Contents(blocks')[p] = Contents(blocks)[p] \/ Contents(blocks')[p] = Zero
      <3>1. \A b \in DOMAIN blocks' : b \in DOMAIN blocks /\ blocks'[b] = blocks[b]
        BY <1>4 DEF DeleteBlock, DeleteInode, SetNlink
      <3> QED BY <3>1, PlaceInBlock
    <2>4. AgeInv'
      <3>1. Zero[1] = 0 /\ writes \in Nat
        BY BytesHaveAge DEF Zero, FileInv, EndInv
      <3>2. ASSUME NEW p \in Positions PROVE Contents(blocks')[p][1] <= writes
        BY <2>3, <3>1 DEF FileInv, WriterInv, AgeInv
      <3> QED BY <2>2, <3>2 DEF AgeInv
    <2> QED BY <2>2, <2>4, WriterMoves DEF FileInv, EndInv, WriterInv
  <1>5. ~ AddName(n)
    BY <1>2 DEF AddName
  <1>6. \A old \in Names : ~ memcached_link(old, n)
    BY <1>1 DEF memcached_link
  <1> QED BY <1>3, <1>4, <1>5, <1>6

\* The reader, the mount and a kill; memcached drops nothing.
LEMMA WorldWriter ==
  ASSUME OneNameNoFaults, FileInv,
         \/ \E n \in Names : memcached_read(n) \/ OverrunHeap(n)
         \/ ReadAttr \/ ReadBlock \/ ReturnRead
         \/ memcached_init \/ Crash \/ Evict
  PROVE  WriterInv' /\ ~ Evict
  <1>1. ~ Evict
    BY DEF Evict, OneNameNoFaults, FileInv, EndInv, IInv, TypeOK
  <1>2. CASE Die /\ UNCHANGED <<store, writes>>
    BY <1>1, <1>2, DieWriter
  <1>3. CASE /\ UNCHANGED <<store, writes, thread>> /\ (up => up')
             /\ reader'.pc # "idle" => up'
    <2>1. \A th : Progress(th) => Progress(th)'
      BY <1>3 DEF Progress, Holds, memcached_get, store
    <2> QED BY <1>1, <1>3, <2>1 DEF FileInv, WriterInv, AgeInv, store
  <1>4. \/ Die /\ UNCHANGED <<store, writes>>
        \/ /\ UNCHANGED <<store, writes, thread>> /\ (up => up')
           /\ reader'.pc # "idle" => up'
    <2>1. CASE \E n \in Names : memcached_read(n)
      <3>1. UNCHANGED <<store, writes, thread, up>> /\ up
        BY <2>1 DEF memcached_read, bounds
      <3>2. up = TRUE
        BY <3>1 DEF FileInv, EndInv, IInv, TypeOK
      <3>3. up' = TRUE
        BY <3>1, <3>2
      <3> QED BY <3>1, <3>3
    <2>2. CASE \/ \E n \in Names : OverrunHeap(n)
               \/ Crash
      BY <2>2 DEF OverrunHeap, Crash
    <2>3. CASE ReadAttr \/ ReadBlock \/ ReturnRead
      BY <2>3 DEF ReadAttr, ReadBlock, ReturnRead, Segfault, bounds, IdleReader,
                  FileInv, WriterInv
    <2>4. CASE memcached_init
      BY <2>4 DEF memcached_init, bounds
    <2> QED BY <1>1, <2>1, <2>2, <2>3, <2>4
  <1> QED BY <1>2, <1>3, <1>4

\* The invariant of a file with one name is inductive,
LEMMA NextFile ==
  ASSUME OneNameNoFaults, FileInv, [Next]_vars
  PROVE  FileInv'
  <1>1. EndInv'
    BY NextEnd DEF FileInv, OneNameNoFaults
  <1>2. CASE UNCHANGED vars
    <2>1. \A th : Progress(th) => Progress(th)'
      BY <1>2 DEF vars, store, bounds, Progress, Holds, memcached_get
    <2> QED BY <1>1, <1>2, <2>1 DEF vars, store, bounds, FileInv, WriterInv, AgeInv
  <1>3. ASSUME NEW n \in Names, OverrunHeap(n) \/ memcached_read(n) PROVE WriterInv'
    BY <1>3, WorldWriter
  <1>4. ASSUME NEW n \in Names,
               \/ memcached_write(n) \/ GetBlock(n) \/ SetBlock(n)
               \/ GetAttr(n) \/ SetAttr(n)
               \/ memcached_unlink(n) \/ DeleteBlock(n) \/ DeleteInode(n)
               \/ SetNlink(n) \/ AddName(n)
               \/ \E old \in Names : memcached_link(old, n)
        PROVE  WriterInv'
    BY <1>4, WriteWriter, GetBlockWriter, SetBlockWriter, GetAttrWriter, SetAttrWriter,
       NamesWriter DEF OneNameNoFaults
  <1>5. CASE Next
    BY <1>1, <1>3, <1>4, <1>5, WorldWriter DEF Next, FileInv
  <1> QED BY <1>2, <1>5

\* and so holds always.
LEMMA FileInvariant ==
  ASSUME OneNameNoFaults
  PROVE  Spec => []FileInv
  <1>1. Init => FileInv
    BY InitInv, InitEnd, InitWriter DEF FileInv, EndInv
  <1>2. FileInv /\ [Next]_vars => FileInv'
    BY NextFile
  <1> QED BY <1>1, <1>2, PTL DEF Spec

\* What a write has done when its turns are over.
LEMMA WrittenAtEnd == FileInv => WrittenIfCovered
  <1> SUFFICES ASSUME FileInv, NEW n \in Names, At(n, "set_attr")
               PROVE  IsWritten(thread[n]) <=> IsCovered(thread[n].offset, thread[n].size)
    BY DEF WrittenIfCovered
  <1>1. PICK th : th = thread[n]
    OBVIOUS
  <1>2. th.pc = "set_attr" /\ IsRequest(th) /\ Progress(th)
    BY <1>1, ThreadFacts DEF At, FileInv, EndInv, WriterInv, ThreadInv, WritePcs
  <1>3. /\ th.offset \in Nat /\ th.size \in Nat \ {0} /\ th.offset + th.size <= MaxLength
    BY <1>2, RequestIsInRange
  <1>4. IsWritten(th) <=> \A p \in Positions : InRequest(th, p) => Holds(th, p)
    <2>1. ASSUME IsWritten(th), NEW p \in Positions, InRequest(th, p)
          PROVE  Holds(th, p)
      <3>1. p - th.offset + 1 \in 1..th.size /\ th.offset + (p - th.offset + 1) - 1 = p
        BY <1>3, <2>1, PlaceInBlock DEF InRequest
      <3> QED BY <2>1, <3>1 DEF IsWritten, Buffer, Holds
    <2>2. ASSUME \A p \in Positions : InRequest(th, p) => Holds(th, p),
                 NEW k \in 1..th.size
          PROVE  Contents(blocks)[th.offset + k - 1] = Buffer(th)[k]
      <3>1. th.offset + k - 1 \in Positions /\ InRequest(th, th.offset + k - 1)
        BY <1>3, FileAssumption DEF Positions, InRequest
      <3> QED BY <2>2, <3>1 DEF Buffer, Holds
    <2> QED BY <2>1, <2>2 DEF IsWritten
  <1>5. NextBlock(th) = Info(th).start_block + Info(th).num_blocks
    BY <1>2 DEF NextBlock
  <1>6. \A p \in Positions :
          InRequest(th, p) => (Holds(th, p) <=> p \div BlockSize < NextBlock(th))
    BY <1>2 DEF Progress, WritePcs
  <1>7. Fits(th)
    BY <1>2, RequestIsInRange DEF Fits
  <1> QED BY <1>1, <1>4, <1>5, <1>6, <1>7, AllTurnsDone

\* For a file with one name, of which memcached drops nothing, and every request:
\* when a write is about to store the attributes, all its bytes are in the file
\* if and only if the arithmetic of random_access.c covers the request.
THEOREM CoveredIsWritten ==
  ASSUME OneNameNoFaults
  PROVE  Spec => []WrittenIfCovered
  BY WrittenAtEnd, FileInvariant, PTL

-----------------------------------------------------------------------------
(* The refinement.                                                         *)

Request == WriteRequest(thread[CHOOSE n \in Names : TRUE])

\* The request in the refinement is that of the only name.
LEMMA TheRequest ==
  ASSUME SingleName, NEW n \in Names
  PROVE  /\ Request = WriteRequest(thread[n])
         /\ Request' = WriteRequest(thread'[n])
  <1>1. (CHOOSE m \in Names : TRUE) = n
    BY DEF SingleName
  <1> QED BY <1>1 DEF Request

\* Nothing changes for the users of the file.
LEMMA Stutter ==
  ASSUME UNCHANGED <<blocks, attr, names, up>>, Request' = Request
  PROVE  UNCHANGED Abstract!vars
  BY DEF Abstract!vars, FileBytes, FileLength, Request

\* What ByteFile is to write are the bytes of the request.
LEMMA BufferIsRequest ==
  ASSUME NEW th, IsRequest(th)
  PROVE  /\ th.offset \in Positions /\ Buffer(th) \in Seq(Byte) /\ Buffer(th) # <<>>
         /\ Len(Buffer(th)) = th.size
  <1>1. /\ th.offset \in Nat /\ th.size \in Nat \ {0}
        /\ th.offset + th.size <= MaxLength /\ th.w \in 1..MaxWrites
    BY RequestIsInRange DEF IsRequest
  <1>2. ASSUME NEW k \in 1..th.size PROVE <<th.w, th.offset + k - 1>> \in Byte
    <2>1. th.offset + k - 1 \in Positions
      BY <1>1, FileAssumption DEF Positions
    <2> QED BY <1>1, <2>1 DEF Byte
  <1>3. Buffer(th) \in [1..th.size -> Byte]
    BY <1>2 DEF Buffer
  <1>4. Buffer(th) \in Seq(Byte) /\ Len(Buffer(th)) = th.size
    BY <1>1, <1>3
  <1> QED BY <1>1, <1>4, FileAssumption DEF Positions

\* A write that runs is a request, and nothing else is.
LEMMA RequestOfWrite ==
  ASSUME SingleName, FileInv, NEW n \in Names
  PROVE  /\ ~ IsWriting(n) => Request = Abstract!NoRequest
         /\ IsWriting(n) =>
              /\ Request = [offset |-> thread[n].offset, buf |-> Buffer(thread[n])]
              /\ Request # Abstract!NoRequest
              /\ IsRequest(thread[n]) /\ up /\ names # {}
  <1>1. ASSUME ~ IsWriting(n) PROVE Request = Abstract!NoRequest
    BY <1>1, TheRequest DEF IsWriting, WriteRequest, Abstract!NoRequest
  <1>2. ASSUME IsWriting(n)
        PROVE  /\ Request = [offset |-> thread[n].offset, buf |-> Buffer(thread[n])]
               /\ Request # Abstract!NoRequest
               /\ IsRequest(thread[n]) /\ up /\ names # {}
    <2>1. IsRequest(thread[n]) /\ up /\ names # {}
      BY <1>2, ThreadFacts
      DEF IsWriting, WritePcs, ThreadInv, FileInv, EndInv, WriterInv, Progress
    <2>2. Request = [offset |-> thread[n].offset, buf |-> Buffer(thread[n])]
      BY <1>2, TheRequest DEF IsWriting, WriteRequest
    <2> QED BY <2>1, <2>2, BufferIsRequest DEF Abstract!NoRequest
  <1> QED BY <1>1, <1>2

\* A thread outside memcached_write has no request.
LEMMA IdleRequest == WriteRequest(Idle) = Abstract!NoRequest
  BY DEF WriteRequest, Idle, WritePcs, Abstract!NoRequest

\* A thread goes on: its new state gives the new request.
LEMMA RequestMoves ==
  ASSUME SingleName, FileInv, NEW n \in Names, NEW th, thread' = [thread EXCEPT ![n] = th]
  PROVE  Request' = WriteRequest(th)
  BY TheRequest, ThreadFacts DEF FileInv, EndInv

\* The first state of the file is the first of ByteFile.
LEMMA InitIsInit ==
  ASSUME SingleName
  PROVE  Init => Abstract!Init
  <1> SUFFICES ASSUME Init PROVE Abstract!Init
    OBVIOUS
  <1>1. \A p \in Positions : Contents(blocks)[p] = Zero
    BY PlaceInBlock DEF Init
  <1>2. FileBytes = [p \in Positions |-> Zero]
    BY <1>1 DEF FileBytes, Contents
  <1>3. FileLength = 0
    BY DEF FileLength, Init
  <1>4. Request = Abstract!NoRequest
    <2>1. PICK n \in Names : TRUE
      BY FileAssumption
    <2>2. thread[n].pc = "idle"
      BY DEF Init, Idle
    <2> QED BY <2>1, <2>2, TheRequest DEF WriteRequest, WritePcs, Abstract!NoRequest
  <1>5. up = FALSE
    BY DEF Init
  <1> QED BY <1>2, <1>3, <1>4, <1>5 DEF Abstract!Init, Abstract!Positions, Positions, Request

\* A call of memcached_write hands its request to ByteFile.
LEMMA WriteIsWrite ==
  ASSUME SingleName, FileInv, NEW n \in Names, memcached_write(n)
  PROVE  Abstract!Write
  <1>1. PICK w \in Writes :
          thread' = [thread EXCEPT ![n] =
            [Idle EXCEPT !.pc = "get_block", !.w = writes + 1,
                         !.offset = w[1], !.size = w[2]]]
    BY DEF memcached_write
  <1>2. PICK th : th = [Idle EXCEPT !.pc = "get_block", !.w = writes + 1,
                                    !.offset = w[1], !.size = w[2]]
    OBVIOUS
  <1>3. /\ th.pc = "get_block" /\ th.w = writes + 1
        /\ th.offset = w[1] /\ th.size = w[2]
    BY <1>2 DEF Idle
  <1>4. IsRequest(th)
    <2>1. writes + 1 \in 1..MaxWrites
      BY FileAssumption DEF memcached_write, FileInv, EndInv, IInv, TypeOK
    <2> QED BY <1>3, <2>1, FileAssumption DEF IsRequest
  <1>5. Request = Abstract!NoRequest
    BY RequestOfWrite DEF memcached_write, IsFree, At, IsWriting, WritePcs
  <1>6. Request' = [offset |-> th.offset, buf |-> Buffer(th)]
    BY <1>1, <1>2, <1>3, RequestMoves DEF WriteRequest, WritePcs
  <1>7. Request' \in [offset : Positions, buf : Seq(Byte) \ {<<>>}]
    BY <1>4, <1>6, BufferIsRequest
  <1>8. up /\ UNCHANGED <<FileBytes, FileLength, up>>
    BY DEF memcached_write, store, FileBytes, FileLength
  <1> QED BY <1>5, <1>7, <1>8 DEF Abstract!Write, Abstract!Positions, Positions, Request

\* A step of a write that changes no byte.
LEMMA QuietWriteStep ==
  ASSUME SingleName, FileInv, NEW n \in Names, GetBlock(n) \/ GetAttr(n)
  PROVE  UNCHANGED Abstract!vars
  <1>1. PICK old : old = thread[n]
    OBVIOUS
  <1>2. old \in Thread /\ old.pc \in {"get_block", "get_attr"}
    BY <1>1, ThreadFacts DEF GetBlock, GetAttr, At, FileInv, EndInv
  <1>3. PICK th : /\ thread' = [thread EXCEPT ![n] = th]
                  /\ th.pc \in {"set_block", "set_attr"} /\ th.w = old.w
                  /\ th.offset = old.offset /\ th.size = old.size
    <2>1. CASE GetBlock(n)
      <3> DEFINE th == [old EXCEPT !.pc = "set_block", !.data = memcached_get(BlockOf(old))]
      <3>1. thread' = [thread EXCEPT ![n] = th]
        BY <1>1, <2>1 DEF GetBlock
      <3>2. /\ th.pc = "set_block" /\ th.w = old.w
            /\ th.offset = old.offset /\ th.size = old.size
        BY <1>2 DEF Thread
      <3> HIDE DEF th
      <3> QED BY <3>1, <3>2
    <2>2. CASE GetAttr(n)
      <3> DEFINE th == [old EXCEPT !.pc = "set_attr", !.attr = attr]
      <3>1. attr # NoAttr
        BY <2>2, GetAttrWriter
      <3>2. thread' = [thread EXCEPT ![n] = th]
        BY <1>1, <2>2, <3>1 DEF GetAttr
      <3>3. /\ th.pc = "set_attr" /\ th.w = old.w
            /\ th.offset = old.offset /\ th.size = old.size
        BY <1>2 DEF Thread
      <3> HIDE DEF th
      <3> QED BY <3>2, <3>3
    <2> QED BY <2>1, <2>2
  <1>4. Request' = Request
    <2>1. Buffer(th) = Buffer(old)
      BY <1>3 DEF Buffer
    <2> QED BY <1>1, <1>2, <1>3, <2>1, RequestMoves, TheRequest DEF WriteRequest, WritePcs
  <1>5. UNCHANGED <<blocks, attr, names, up>>
    <2>1. GetAttr(n) => attr # NoAttr
      BY GetAttrWriter
    <2> QED BY <2>1 DEF GetBlock, GetAttr, store
  <1> QED BY <1>4, <1>5, Stutter

\* Each block that is stored puts its part of the request in place.
LEMMA SetBlockIsPut ==
  ASSUME SingleName, FileInv, IInv', NEW n \in Names, SetBlock(n)
  PROVE  Abstract!Put
  <1>1. PICK old : old = thread[n]
    OBVIOUS
  <1>2. PICK th : th = IF IsLastTurn(old) THEN [old EXCEPT !.pc = "get_attr", !.data = <<>>]
                       ELSE [old EXCEPT !.pc = "get_block", !.data = <<>>, !.i = @ + 1]
    OBVIOUS
  <1>3. /\ old \in Thread /\ old.pc = "set_block" /\ thread' = [thread EXCEPT ![n] = th]
        /\ UNCHANGED <<attr, names, up>>
    BY <1>1, <1>2, ThreadFacts DEF SetBlock, At, FileInv, EndInv
  <1>4. /\ th.w = old.w /\ th.offset = old.offset /\ th.size = old.size
        /\ th.pc \in WritePcs
    BY <1>2, <1>3 DEF Thread, WritePcs
  <1>5. /\ Request = [offset |-> old.offset, buf |-> Buffer(old)]
        /\ Request # Abstract!NoRequest /\ IsRequest(old) /\ up /\ names # {}
    BY <1>1, <1>3, RequestOfWrite DEF IsWriting, WritePcs
  <1>6. Request' = Request
    <2>1. Buffer(th) = Buffer(old)
      BY <1>4 DEF Buffer
    <2> QED BY <1>3, <1>4, <1>5, <2>1, RequestMoves DEF WriteRequest
  <1>7. FileBytes = Contents(blocks) /\ FileBytes' = Contents(blocks')
    BY <1>3, <1>5 DEF FileBytes
  <1>8. FileBytes' \in [Positions -> Byte]
    <2>1. \A p \in Positions : Contents(blocks')[p] \in Byte
      BY ContentsAreBytes DEF IInv, TypeOK
    <2> QED BY <1>7, <2>1 DEF Contents
  <1>9. ASSUME NEW p \in Positions, FileBytes'[p] # FileBytes[p]
        PROVE  p \in Abstract!Range(Request) /\ FileBytes'[p] = Abstract!Wanted(Request, p)
    <2>1. InRequest(old, p) /\ FileBytes'[p] = <<old.w, p>>
      BY <1>1, <1>7, <1>9, TurnStores
    <2>2. /\ old.offset \in Nat /\ old.size \in Nat \ {0} /\ p \in Nat
          /\ Len(Buffer(old)) = old.size
      BY <1>5, RequestIsInRange, BufferIsRequest, PlaceInBlock
    <2>3. /\ p - old.offset + 1 \in 1..old.size
          /\ old.offset + (p - old.offset + 1) - 1 = p
      BY <2>1, <2>2 DEF InRequest
    <2>4. Abstract!Wanted(Request, p) = <<old.w, p>>
      BY <1>5, <2>3 DEF Abstract!Wanted, Buffer
    <2>5. p \in Abstract!Range(Request)
      BY <1>5, <2>1, <2>2 DEF Abstract!Range, Abstract!End, InRequest
    <2> QED BY <2>1, <2>4, <2>5
  <1>10. UNCHANGED <<FileLength, up>>
    BY <1>3 DEF FileLength
  <1> QED BY <1>5, <1>6, <1>8, <1>9, <1>10
          DEF Abstract!Put, Abstract!Positions, Positions, Request

\* Storing the attributes ends the write.
LEMMA SetAttrIsReturn ==
  ASSUME SingleName, FileInv, NEW n \in Names, SetAttr(n)
  PROVE  Abstract!Return
  <1>1. PICK old : old = thread[n]
    OBVIOUS
  <1>2. PICK end : end = old.offset + old.size
    OBVIOUS
  <1>3. /\ old \in Thread /\ old.pc = "set_attr" /\ old.attr = attr /\ attr \in Attr
        /\ UNCHANGED <<blocks, names, up>>
        /\ thread' = [thread EXCEPT ![n] = Idle]
    BY <1>1, ThreadFacts
    DEF SetAttr, At, Return, FileInv, EndInv, WriterInv, Progress, ThreadInv
  <1>4. /\ Request = [offset |-> old.offset, buf |-> Buffer(old)]
        /\ Request # Abstract!NoRequest /\ IsRequest(old) /\ up /\ names # {}
    BY <1>1, <1>3, RequestOfWrite DEF IsWriting, WritePcs
  <1>5. Request' = Abstract!NoRequest
    BY <1>3, RequestMoves, IdleRequest
  <1>6. /\ old.offset \in Nat /\ old.size \in Nat \ {0} /\ old.offset + old.size <= MaxLength
        /\ Len(Buffer(old)) = old.size
    BY <1>4, RequestIsInRange, BufferIsRequest
  <1>7. FileBytes = Contents(blocks) /\ FileBytes' = FileBytes
    BY <1>3, <1>4 DEF FileBytes
  <1>8. ASSUME IsCovered(old.offset, old.size), NEW p \in Abstract!Range(Request)
        PROVE  FileBytes[p] = Abstract!Wanted(Request, p)
    <2>1. p \in old.offset..(old.offset + old.size - 1)
      BY <1>4, <1>6 DEF Abstract!Range, Abstract!End
    <2>2. p - old.offset + 1 \in 1..old.size /\ old.offset + (p - old.offset + 1) - 1 = p
      BY <1>6, <2>1
    <2>3. IsWritten(old)
      BY <1>1, <1>3, <1>8, WrittenAtEnd DEF WrittenIfCovered, At
    <2> QED BY <1>4, <1>7, <2>2, <2>3 DEF IsWritten, Abstract!Wanted
  <1>9. FileLength' = IF end > FileLength THEN end ELSE FileLength
    <2>1. attr' = [attr EXCEPT !.st_blocks = Info(old).num_blocks,
                               !.st_size = IF end > @ THEN end ELSE @]
      BY <1>1, <1>2, <1>3 DEF SetAttr
    <2> QED BY <1>3, <1>4, <2>1 DEF FileLength, Attr
  <1>10. Abstract!End(Request) = end
    BY <1>2, <1>4, <1>6 DEF Abstract!End
  <1>11. Len(Request.buf) = old.size /\ Request.offset = old.offset
    BY <1>4, <1>6
  <1> QED BY <1>3, <1>4, <1>5, <1>7, <1>8, <1>9, <1>10, <1>11 DEF Abstract!Return, Request

\* With one name unlink removes the file, and link is never called.
LEMMA NamesAreRemoved ==
  ASSUME SingleName, FileInv, NEW n \in Names,
         \/ memcached_unlink(n) \/ DeleteBlock(n) \/ DeleteInode(n)
         \/ SetNlink(n) \/ AddName(n)
         \/ \E old \in Names : memcached_link(old, n)
  PROVE  Abstract!Remove \/ UNCHANGED Abstract!vars
  <1>1. \A m \in Names : m = n
    BY DEF SingleName
  <1>2. /\ thread \in [Names -> Thread] /\ ~ At(n, "add_name") /\ thread[n].old = {}
        /\ thread[n].pc \in {"set_nlink", "delete"} => names = {}
    BY ThreadFacts DEF FileInv, EndInv, LifeInv, At
  <1>3. CASE memcached_unlink(n)
    <2>1. attr # NoAttr
      BY <1>3, IdleIsThread DEF memcached_unlink, FileInv, EndInv, WriterInv
    <2>2. PICK pc \in {"set_nlink", "delete"} :
            thread' = [thread EXCEPT ![n] = [Idle EXCEPT !.attr = attr, !.pc = pc]]
      BY <1>3, <2>1 DEF memcached_unlink
    <2>3. names' = {} /\ up /\ up' = up
      BY <1>1, <1>3, <2>1 DEF memcached_unlink, FileInv, EndInv, IInv, TypeOK
    <2>4. Request = Abstract!NoRequest
      BY <1>3, RequestOfWrite DEF memcached_unlink, IsFree, At, IsWriting, WritePcs
    <2>5. Request' = Abstract!NoRequest
      <3>1. PICK th : th = [Idle EXCEPT !.attr = attr, !.pc = pc]
        OBVIOUS
      <3>2. th.pc = pc
        BY <3>1 DEF Idle
      <3> QED BY <2>2, <3>1, <3>2, RequestMoves DEF WriteRequest, WritePcs, Abstract!NoRequest
    <2>6. FileBytes' = [p \in Positions |-> Zero] /\ FileLength' = 0
      BY <2>3 DEF FileBytes, FileLength
    <2> QED BY <2>3, <2>4, <2>5, <2>6
            DEF Abstract!Remove, Abstract!Positions, Positions, Request
  <1>4. CASE DeleteBlock(n) \/ DeleteInode(n) \/ SetNlink(n)
    <2>1. /\ names = {} /\ names' = {}
          /\ thread[n].pc \in {"set_nlink", "delete"} /\ up' = up
      BY <1>2, <1>4 DEF DeleteBlock, DeleteInode, SetNlink, At
    <2>2. Request' = Request
      <3>1. CASE DeleteBlock(n)
        <4>1. PICK th : th = thread'[n]
          OBVIOUS
        <4>2. thread' = [thread EXCEPT ![n] = th] /\ th.pc = "delete"
          BY <1>2, <2>1, <3>1, <4>1 DEF DeleteBlock, At, Thread
        <4>3. Request' = Abstract!NoRequest
          BY <4>2, RequestMoves DEF WriteRequest, WritePcs, Abstract!NoRequest
        <4> QED BY <2>1, <4>3, RequestOfWrite DEF IsWriting, WritePcs
      <3>2. CASE DeleteInode(n) \/ SetNlink(n)
        <4>1. thread' = [thread EXCEPT ![n] = Idle]
          BY <1>2, <3>2 DEF DeleteInode, SetNlink, Return
        <4>2. Request' = Abstract!NoRequest
          BY <4>1, RequestMoves, IdleRequest
        <4> QED BY <2>1, <4>2, RequestOfWrite DEF IsWriting, WritePcs
      <3> QED BY <1>4, <3>1, <3>2
    <2>3. FileBytes' = FileBytes /\ FileLength' = FileLength
      BY <2>1 DEF FileBytes, FileLength
    <2> QED BY <2>1, <2>2, <2>3 DEF Abstract!vars, Request
  <1>5. ~ AddName(n)
    BY <1>2 DEF AddName
  <1>6. \A old \in Names : ~ memcached_link(old, n)
    BY <1>1 DEF memcached_link
  <1> QED BY <1>3, <1>4, <1>5, <1>6

\* Reads change nothing; a kill and a mount are those of ByteFile.
LEMMA WorldIsLifeOrQuiet ==
  ASSUME OneNameNoFaults, FileInv,
         \/ \E n \in Names : memcached_read(n) \/ OverrunHeap(n)
         \/ ReadAttr \/ ReadBlock \/ ReturnRead
         \/ memcached_init \/ Crash \/ Evict
  PROVE  Abstract!Die \/ Abstract!Restart \/ UNCHANGED Abstract!vars
  <1>1. ~ Evict
    BY WorldWriter
  <1>2. PICK n \in Names : TRUE
    BY FileAssumption
  <1>3. ASSUME thread' = thread
        PROVE  Request' = Request
    BY <1>3 DEF Request
  <1>4. CASE Die /\ up /\ UNCHANGED store
    <2>1. thread'[n].pc = "idle"
      BY <1>4 DEF Die, Idle
    <2>2. Request' = Abstract!NoRequest
      BY <2>1, TheRequest DEF WriteRequest, WritePcs, Abstract!NoRequest, OneNameNoFaults
    <2>3. UNCHANGED <<FileBytes, FileLength>> /\ up' = FALSE
      BY <1>4 DEF FileBytes, FileLength, store, Die
    <2> QED BY <1>4, <2>2, <2>3 DEF Abstract!Die, Request
  <1>5. CASE UNCHANGED <<blocks, attr, names, up, thread>>
    BY <1>3, <1>5, Stutter
  <1>6. CASE memcached_init
    BY <1>3, <1>6 DEF memcached_init, store, FileBytes, FileLength, Abstract!Restart, Request
  <1>7. \/ Die /\ up /\ UNCHANGED store
        \/ UNCHANGED <<blocks, attr, names, up, thread>>
        \/ memcached_init
    <2>1. CASE \E m \in Names : memcached_read(m)
      BY <2>1 DEF memcached_read, store
    <2>2. ASSUME NEW m \in Names, OverrunHeap(m)
          PROVE  Die /\ up /\ UNCHANGED store
      BY <2>2 DEF OverrunHeap, At, FileInv, WriterInv, Progress, store
    <2>3. CASE ReadAttr \/ ReadBlock \/ ReturnRead
      BY <2>3 DEF ReadAttr, ReadBlock, ReturnRead, Segfault, store, FileInv, WriterInv
    <2>4. CASE Crash
      BY <2>4 DEF Crash
    <2> QED BY <1>1, <2>1, <2>2, <2>3, <2>4
  <1> QED BY <1>4, <1>5, <1>6, <1>7

\* Every step of the file is a step of ByteFile or none.
LEMMA NextIsNext ==
  ASSUME OneNameNoFaults, FileInv, [Next]_vars
  PROVE  [Abstract!Next]_(Abstract!vars)
  <1>1. CASE UNCHANGED vars
    BY <1>1, Stutter DEF vars, store, Request
  <1>2. ASSUME NEW n \in Names,
               \/ memcached_write(n) \/ GetBlock(n) \/ SetBlock(n)
               \/ GetAttr(n) \/ SetAttr(n)
               \/ memcached_unlink(n) \/ DeleteBlock(n) \/ DeleteInode(n)
               \/ SetNlink(n) \/ AddName(n)
               \/ \E old \in Names : memcached_link(old, n)
        PROVE  [Abstract!Next]_(Abstract!vars)
    <2>1. IInv'
      BY NextInv DEF FileInv, EndInv
    <2> QED BY <1>2, <2>1, WriteIsWrite, QuietWriteStep, SetBlockIsPut, SetAttrIsReturn,
               NamesAreRemoved DEF Abstract!Next, OneNameNoFaults
  <1>3. ASSUME \/ \E n \in Names : memcached_read(n) \/ OverrunHeap(n)
               \/ ReadAttr \/ ReadBlock \/ ReturnRead
               \/ memcached_init \/ Crash \/ Evict
        PROVE  [Abstract!Next]_(Abstract!vars)
    BY <1>3, WorldIsLifeOrQuiet DEF Abstract!Next
  <1>4. CASE Next
    BY <1>2, <1>3, <1>4 DEF Next
  <1> QED BY <1>1, <1>4

\* A file with one name, of which memcached drops nothing, is an array of bytes
\* and a length: for every block size, every request and wherever the process is
\* killed, a write changes no byte outside its range, and has stored all of them
\* when it returns if the arithmetic of random_access.c covers it.
THEOREM FileIsByteFile ==
  ASSUME OneNameNoFaults
  PROVE  Spec => ImplementsByteFile
  <1>1. Init => Abstract!Init
    BY InitIsInit DEF OneNameNoFaults
  <1>2. FileInv /\ [Next]_vars => [Abstract!Next]_(Abstract!vars)
    BY NextIsNext
  <1> QED BY <1>1, <1>2, FileInvariant, PTL DEF Spec, ImplementsByteFile, Abstract!Spec

-----------------------------------------------------------------------------
(* A file that several threads use at once, through any number of names.   *)

(***************************************************************************)
(* The reads of the page cache start at the beginning of a page, and a     *)
(* page is a whole number of blocks.                                       *)
(***************************************************************************)
ReadsArePages == \A r \in Reads : r[1] % BlockSize = 0

(***************************************************************************)
(* A read in progress has, of the positions in the blocks before the one   *)
(* it is at, bytes that the file held since the read began; what the file  *)
(* holds now is among them too.                                            *)
(***************************************************************************)
HasRead(rd, p) == rd.buf[p - rd.offset + 1] \in seen[p]

ReadInv(rd) ==
  /\ rd.pc # "idle" =>
       /\ rd.offset \in Nat /\ rd.size \in Nat \ {0} /\ IsInRange(rd.offset, rd.size)
       /\ rd.offset % BlockSize = 0
       /\ rd.pc = "get_attr" => rd.i = 0
       /\ \A p \in Positions : Contents(blocks)[p] \in seen[p]
  /\ rd.pc = "get_block" =>
       /\ Fits(rd) /\ IsAtTurn(rd)
       /\ \A p \in Positions :
            InRequest(rd, p) /\ p \div BlockSize < BlockOf(rd) => HasRead(rd, p)
  /\ rd.pc = "return" =>
       Fits(rd) /\ \A p \in Positions : InRequest(rd, p) => HasRead(rd, p)

SharedInv == IInv /\ ReadInv(reader)

-----------------------------------------------------------------------------
(* A turn of the read.                                                     *)

\* The block a position is in is given by any way of writing it.
LEMMA BlockOfPlace ==
  ASSUME NEW b \in Nat, NEW k \in 1..BlockSize, NEW p \in Nat,
         p = b * BlockSize + k - 1
  PROVE  p \div BlockSize = b
  <1> DEFINE q == p \div BlockSize
             r == p % BlockSize
             bB == b * BlockSize
             qB == q * BlockSize
  <1>1. q \in Nat /\ r \in 0..(BlockSize - 1) /\ p = qB + r
    BY Division
  <1>2. bB \in Nat /\ qB \in Nat /\ p = bB + (k - 1) /\ k - 1 \in 0..(BlockSize - 1)
    BY <1>1, BlockSizeAssumption
  <1> HIDE DEF q, r
  <1>3. ASSUME q < b PROVE FALSE
    <2>1. qB + BlockSize <= bB
      BY <1>1, <1>3, BlocksAreOrdered
    <2> HIDE DEF bB, qB
    <2> QED BY <1>1, <1>2, <2>1, BlockSizeAssumption
  <1>4. ASSUME b < q PROVE FALSE
    <2>1. bB + BlockSize <= qB
      BY <1>1, <1>4, BlocksAreOrdered
    <2> HIDE DEF bB, qB
    <2> QED BY <1>1, <1>2, <2>1, BlockSizeAssumption
  <1>5. q = b
    BY <1>1, <1>3, <1>4
  <1> QED BY <1>5 DEF q

\* A request that starts with a block takes no byte beyond the block of its turn.
LEMMA AlignedChunk ==
  ASSUME NEW th, Fits(th), IsAtTurn(th), th.offset % BlockSize = 0,
         NEW k \in Chunk(th)
  PROVE  /\ k \in 1..BlockSize
         /\ th.offset + InBuffer(th, k) - 1 \in Positions
         /\ (th.offset + InBuffer(th, k) - 1) \div BlockSize = BlockOf(th)
  <1> DEFINE info == Info(th)
             from == ChunkOffset(info, th.i)
             before == BytesBefore(info, th.i)
             len == ChunkSize(info, th.i, th.size)
             b == BlockOf(th)
             bB == b * BlockSize
             p == th.offset + InBuffer(th, k) - 1
  <1>1. /\ th.offset \in Nat /\ th.size \in Nat \ {0}
        /\ th.offset + th.size <= MaxLength /\ IsInRange(th.offset, th.size)
    BY DEF Fits
  <1>2. /\ from \in Nat /\ len \in Nat /\ before \in Nat /\ before + len <= th.size
        /\ bB + from = th.offset + before
    BY <1>1, ChunkIsInRequest DEF Info, IsAtTurn, BlockOf
  <1>3. b \in Nat /\ bB \in Nat
    <2>1. info.start_block \in Nat /\ info.num_blocks \in Nat \ {0}
      BY <1>1, InfoTypes DEF Info
    <2>2. th.i \in Nat
      BY <2>1 DEF IsAtTurn, Turns
    <2> QED BY <2>1, <2>2, BlockSizeAssumption DEF BlockOf
  <1>4. from + len <= BlockSize
    <2>1. CoversRequest(th.offset, th.size)
      BY <1>1, CoveredIffCut DEF IsCovered
    <2> QED BY <2>1 DEF CoversRequest, IsAtTurn, Info
  <1>5. k \in (from + 1)..(from + len)
    BY DEF Chunk
  <1>6. InBuffer(th, k) = before + k - from
    BY DEF InBuffer
  <1> HIDE DEF from, before, len, bB, b
  <1>7. /\ k \in 1..BlockSize
        /\ p = bB + k - 1 /\ p \in Nat /\ p < th.offset + th.size
    <2>1. k \in 1..BlockSize
      BY <1>2, <1>4, <1>5, BlockSizeAssumption
    <2>2. InBuffer(th, k) \in 1..th.size
      BY <1>1, <1>2, <1>5, <1>6
    <2>3. p = bB + k - 1
      BY <1>1, <1>2, <1>3, <1>6, <2>1
    <2>4. p \in Nat /\ p < th.offset + th.size
      BY <1>1, <2>2
    <2> QED BY <2>1, <2>3, <2>4
  <1>8. p \in Positions
    BY <1>1, <1>7, FileAssumption DEF Positions
  <1> HIDE DEF p
  <1>9. p \div BlockSize = b
    BY <1>3, <1>7, BlockOfPlace DEF bB
  <1> QED BY <1>7, <1>8, <1>9 DEF p, b

\* What the buffer holds after a turn, of the positions up to the block of the turn.
LEMMA TurnReads ==
  ASSUME SharedInv, reader.pc = "get_block", NEW p \in Positions, InRequest(reader, p),
         p \div BlockSize <= BlockOf(reader)
  PROVE  LET data == memcached_get(BlockOf(reader))
             j == p - reader.offset + 1
             from == {k \in Chunk(reader) : InBuffer(reader, k) = j}
             k == CHOOSE k \in from : TRUE
         IN  (IF from = {} THEN reader.buf[j]
              ELSE IF k \in DOMAIN data THEN data[k] ELSE Garbage) \in seen[p]
  <1> DEFINE b == BlockOf(reader)
             data == memcached_get(b)
             j == p - reader.offset + 1
             from == {k \in Chunk(reader) : InBuffer(reader, k) = j}
             kp == (p % BlockSize) + 1
  <1>1. /\ Fits(reader) /\ IsAtTurn(reader) /\ reader.offset % BlockSize = 0
        /\ Contents(blocks)[p] \in seen[p]
        /\ p \div BlockSize < b => reader.buf[j] \in seen[p]
    BY DEF SharedInv, ReadInv, HasRead
  <1>2. b \in Nat
    <2>1. Info(reader).start_block \in Nat /\ Info(reader).num_blocks \in Nat \ {0}
      BY <1>1, InfoTypes DEF Fits, Info
    <2>2. reader.i \in Nat
      BY <1>1, <2>1 DEF IsAtTurn, Turns
    <2> QED BY <2>1, <2>2 DEF BlockOf
  <1>3. p \in Nat /\ reader.offset \in Nat /\ reader.offset + j - 1 = p /\ p \div BlockSize \in Nat
    BY <1>1, PlaceInBlock DEF Fits
  <1>4. ASSUME NEW k \in from PROVE p \div BlockSize = b /\ k \in 1..BlockSize
    <2>1. k \in Chunk(reader) /\ InBuffer(reader, k) = j
      BY <1>4
    <2> HIDE DEF j, from, b
    <2>2. /\ k \in 1..BlockSize
          /\ (reader.offset + InBuffer(reader, k) - 1) \div BlockSize = BlockOf(reader)
      BY <1>1, <2>1, AlignedChunk
    <2> QED BY <1>3, <2>1, <2>2 DEF b
  <1>5. CASE p \div BlockSize = b
    <2>1. kp \in Chunk(reader) /\ InBuffer(reader, kp) = j
      BY <1>1, <1>5, ChunkIsRequest
    <2>2. ASSUME NEW k \in from PROVE k = kp
      <3>1. k \in Chunk(reader) /\ InBuffer(reader, k) = InBuffer(reader, kp)
        BY <2>1, <2>2
      <3> DEFINE m == BytesBefore(Info(reader), reader.i)
                 o == ChunkOffset(Info(reader), reader.i)
      <3>2. m \in Nat /\ o \in Nat
        <4>1. /\ reader.offset \in Nat /\ reader.size \in Nat \ {0}
              /\ IsInRange(reader.offset, reader.size)
          BY <1>1 DEF Fits
        <4> QED BY <1>1, <4>1, ChunkIsInRequest DEF Info, IsAtTurn
      <3>3. k \in Nat /\ kp \in Nat
        BY <1>4, <2>2, PlaceInBlock
      <3>4. m + k - o = m + kp - o
        BY <3>1 DEF InBuffer
      <3> HIDE DEF m, o, kp
      <3> QED BY <3>2, <3>3, <3>4
    <2>3. kp \in from
      BY <2>1
    <2>4. data[kp] = Contents(blocks)[p] /\ kp \in DOMAIN data
      <3>1. kp \in 1..BlockSize
        BY PlaceInBlock
      <3>2. CASE b \in DOMAIN blocks
        <4>1. blocks[b] \in Block /\ data = blocks[b]
          BY <3>2 DEF SharedInv, IInv, TypeOK, memcached_get
        <4>2. DOMAIN data = 1..BlockSize
          BY <4>1 DEF Block
        <4> QED BY ZenonT(60), <1>5, <3>1, <3>2, <4>1, <4>2, PlaceInBlock
      <3>3. CASE b \notin DOMAIN blocks
        BY <1>5, <3>1, <3>3, PlaceInBlock DEF memcached_get, NewBlock
      <3> QED BY <3>2, <3>3
    <2> HIDE DEF from, data, kp, j
    <2>5. (CHOOSE k \in from : TRUE) = kp /\ from # {}
      BY <2>2, <2>3
    <2>6. (IF from = {} THEN reader.buf[j]
           ELSE IF (CHOOSE k \in from : TRUE) \in DOMAIN data
                THEN data[CHOOSE k \in from : TRUE] ELSE Garbage) \in seen[p]
      BY <1>1, <2>4, <2>5
    <2> QED BY <2>6 DEF from, data, j
  <1>6. CASE p \div BlockSize # b
    <2>1. from = {}
      BY <1>4, <1>6
    <2>2. reader.buf[j] \in seen[p]
      <3> DEFINE q == p \div BlockSize
      <3>1. q < b
        <4>1. q <= b /\ q # b /\ q \in Nat
          BY <1>3, <1>6
        <4> HIDE DEF q, b
        <4> QED BY <1>2, <4>1
      <3> QED BY <1>1, <3>1
    <2> QED BY <2>1, <2>2
  <1> QED BY <1>5, <1>6

\* The invariant for the new reader is the new invariant.
LEMMA ReadMoves ==
  ASSUME NEW rd, rd = reader', ReadInv(rd)'
  PROVE  ReadInv(reader)'
  BY DEF ReadInv, HasRead

\* A turn of the read goes on to the next block or ends the read.
LEMMA ReadBlockShared ==
  ASSUME SharedInv, ReadBlock
  PROVE  ReadInv(reader)'
  <1>1. PICK old : old = reader
    OBVIOUS
  <1>2. PICK buf :
          /\ reader' = IF IsLastTurn(old) THEN [old EXCEPT !.pc = "return", !.buf = buf]
                       ELSE [old EXCEPT !.i = @ + 1, !.buf = buf]
          /\ \A p \in Positions : InRequest(old, p) /\ p \div BlockSize <= BlockOf(old) =>
               buf[p - old.offset + 1] \in seen[p]
    <2> DEFINE data == memcached_get(BlockOf(reader))
               from(j) == {k \in Chunk(reader) : InBuffer(reader, k) = j}
               buf == [j \in 1..reader.size |->
                         IF from(j) = {} THEN reader.buf[j]
                         ELSE LET k == CHOOSE k \in from(j) : TRUE
                              IN  IF k \in DOMAIN data THEN data[k] ELSE Garbage]
    <2>1. reader' = IF IsLastTurn(old) THEN [old EXCEPT !.pc = "return", !.buf = buf]
                    ELSE [old EXCEPT !.i = @ + 1, !.buf = buf]
      BY <1>1 DEF ReadBlock
    <2>2. ASSUME NEW p \in Positions, InRequest(reader, p), p \div BlockSize <= BlockOf(reader)
          PROVE  buf[p - reader.offset + 1] \in seen[p]
      <3>1. p - reader.offset + 1 \in 1..reader.size
        <4>1. Fits(reader)
          BY DEF SharedInv, ReadInv, ReadBlock
        <4> QED BY <2>2, <4>1, PlaceInBlock DEF InRequest, Fits
      <3> QED BY <2>2, <3>1, TurnReads DEF ReadBlock
    <2> HIDE DEF buf
    <2> QED BY <1>1, <2>1, <2>2
  <1>3. /\ old.pc = "get_block" /\ ReadInv(old) /\ DOMAIN old = DOMAIN IdleReader
        /\ UNCHANGED <<blocks, seen>>
    BY <1>1 DEF ReadBlock, SharedInv, IInv, store
  <1>4. PICK rd : rd = reader'
    OBVIOUS
  <1>5. /\ rd.offset = old.offset /\ rd.size = old.size /\ rd.buf = buf
        /\ \/ rd.pc = "return" /\ IsLastTurn(old)
           \/ rd.pc = "get_block" /\ rd.i = old.i + 1 /\ ~ IsLastTurn(old)
    BY <1>2, <1>3, <1>4 DEF IdleReader
  <1>6. Info(rd) = Info(old) /\ Fits(rd)
    BY <1>3, <1>5 DEF Info, Fits, ReadInv
  <1>7. /\ Info(old).start_block \in Nat /\ Info(old).num_blocks \in Nat \ {0}
        /\ old.i \in Nat /\ BlockOf(old) \in Nat
    <2>1. Info(old).start_block \in Nat /\ Info(old).num_blocks \in Nat \ {0}
      BY <1>3, InfoTypes DEF Fits, Info, ReadInv
    <2>2. old.i \in Nat
      BY <1>3, <2>1 DEF IsAtTurn, Turns, ReadInv
    <2> QED BY <2>1, <2>2 DEF BlockOf
  <1>8. \A p \in Positions : InRequest(rd, p) <=> InRequest(old, p)
    BY <1>5 DEF InRequest
  <1>9. /\ \A p \in Positions : Contents(blocks')[p] \in seen'[p]
        /\ rd.offset \in Nat /\ rd.size \in Nat \ {0} /\ IsInRange(rd.offset, rd.size)
        /\ rd.offset % BlockSize = 0
    BY <1>3, <1>5 DEF ReadInv
  <1>10. ASSUME rd.pc = "return" /\ IsLastTurn(old) PROVE ReadInv(rd)'
    <2>1. BlockOf(old) + 1 = Info(old).start_block + Info(old).num_blocks
      BY <1>7, <1>10 DEF IsLastTurn, BlockOf
    <2>2. IsCovered(old.offset, old.size)
      BY <1>3 DEF IsCovered, ReadInv
    <2>3. ASSUME NEW p \in Positions, InRequest(rd, p) PROVE HasRead(rd, p)'
      <3>1. p \div BlockSize < BlockOf(old) + 1
        BY <1>3, <1>8, <2>1, <2>2, <2>3, AllTurnsDone DEF ReadInv
      <3>2. p \div BlockSize <= BlockOf(old)
        <4> DEFINE q == p \div BlockSize
        <4>1. q \in Nat /\ q < BlockOf(old) + 1
          BY <3>1, PlaceInBlock
        <4> HIDE DEF q
        <4>2. q <= BlockOf(old)
          BY <1>7, <4>1
        <4> QED BY <4>2 DEF q
      <3>3. buf[p - old.offset + 1] \in seen[p]
        BY <1>2, <1>8, <2>3, <3>2
      <3> QED BY <1>3, <1>5, <3>3 DEF HasRead
    <2> QED BY <1>6, <1>9, <1>10, <2>3 DEF ReadInv
  <1>11. ASSUME rd.pc = "get_block" /\ rd.i = old.i + 1 /\ ~ IsLastTurn(old)
         PROVE  ReadInv(rd)'
    <2>1. IsAtTurn(rd)
      BY <1>3, <1>6, <1>7, <1>11 DEF IsAtTurn, Turns, IsLastTurn, ReadInv
    <2>2. BlockOf(rd) = BlockOf(old) + 1
      BY <1>6, <1>7, <1>11 DEF BlockOf
    <2>3. ASSUME NEW p \in Positions, InRequest(rd, p), p \div BlockSize < BlockOf(rd)
          PROVE  HasRead(rd, p)'
      <3>1. p \div BlockSize <= BlockOf(old)
        <4> DEFINE q == p \div BlockSize
        <4>1. q \in Nat /\ q < BlockOf(old) + 1
          BY <2>2, <2>3, PlaceInBlock
        <4> HIDE DEF q
        <4>2. q <= BlockOf(old)
          BY <1>7, <4>1
        <4> QED BY <4>2 DEF q
      <3>3. buf[p - old.offset + 1] \in seen[p]
        BY <1>2, <1>8, <2>3, <3>1
      <3> QED BY <1>3, <1>5, <3>3 DEF HasRead
    <2> QED BY <1>6, <1>9, <1>11, <2>1, <2>3 DEF ReadInv
  <1> QED BY <1>4, <1>5, <1>10, <1>11, ReadMoves

-----------------------------------------------------------------------------
(* The other steps.                                                        *)

\* No read is in progress, or what the file holds is noted.
LEMMA NotedShared ==
  ASSUME SharedInv,
         \/ reader' = IdleReader
         \/ UNCHANGED <<blocks, seen, reader>>
         \/ UNCHANGED reader /\ Look
  PROVE  ReadInv(reader)'
  <1>1. CASE reader' = IdleReader
    BY <1>1 DEF ReadInv, IdleReader
  <1>2. CASE UNCHANGED <<blocks, seen, reader>>
    BY <1>2 DEF SharedInv, ReadInv, HasRead
  <1>3. CASE UNCHANGED reader /\ Look
    <2>1. PICK rd : rd = reader
      OBVIOUS
    <2>2. CASE rd.pc = "idle"
      <3>1. ReadInv(rd)'
        BY <2>2 DEF ReadInv
      <3> QED BY <1>3, <2>1, <3>1, ReadMoves
    <2>3. CASE rd.pc # "idle"
      <3>1. \A p \in Positions : seen'[p] = seen[p] \cup {Contents(blocks')[p]}
        BY <1>3, <2>1, <2>3 DEF Look
      <3>2. ReadInv(rd)
        BY <2>1 DEF SharedInv
      <3>3. \A p \in Positions : HasRead(rd, p) => HasRead(rd, p)'
        BY <3>1 DEF HasRead
      <3>4. ReadInv(rd)'
        BY <2>3, <3>1, <3>2, <3>3 DEF ReadInv
      <3> QED BY <1>3, <2>1, <3>4, ReadMoves
    <2> QED BY <2>2, <2>3
  <1> QED BY <1>1, <1>2, <1>3

\* A read begins.
LEMMA ReadShared ==
  ASSUME ReadsArePages, SharedInv, NEW n \in Names, memcached_read(n)
  PROVE  ReadInv(reader)'
  <1>1. PICK r \in Reads :
          reader' = [IdleReader EXCEPT !.pc = "get_attr", !.name = {n},
                                       !.offset = r[1], !.size = r[2]]
    BY DEF memcached_read
  <1>2. PICK rd : rd = reader'
    OBVIOUS
  <1>3. rd.pc = "get_attr" /\ rd.offset = r[1] /\ rd.size = r[2] /\ rd.i = 0
    BY <1>1, <1>2 DEF IdleReader
  <1>4. /\ r[1] \in Nat /\ r[2] \in Nat \ {0} /\ IsInRange(r[1], r[2])
        /\ r[1] % BlockSize = 0
    BY FileAssumption DEF ReadsArePages
  <1>5. \A p \in Positions : Contents(blocks')[p] \in seen'[p]
    BY DEF memcached_read, store
  <1>6. ReadInv(rd)'
    BY <1>3, <1>4, <1>5 DEF ReadInv
  <1> QED BY <1>2, <1>6, ReadMoves

\* The end of the file cuts the read, which is still a request in range.
LEMMA ReadAttrShared ==
  ASSUME SharedInv, ReadAttr
  PROVE  ReadInv(reader)'
  <1>1. PICK old : old = reader
    OBVIOUS
  <1>2. PICK rest : rest = attr.st_size - old.offset
    OBVIOUS
  <1>3. PICK size : size = IF old.size > rest THEN rest ELSE old.size
    OBVIOUS
  <1>4. CASE attr = NoAttr \/ rest <= 0
    <2>1. reader' = IdleReader
      BY <1>1, <1>2, <1>4 DEF ReadAttr, Segfault, Die
    <2> QED BY <2>1, NotedShared
  <1>5. CASE attr # NoAttr /\ ~ (rest <= 0)
    <2>1. /\ reader' = [old EXCEPT !.pc = "get_block", !.size = size,
                                   !.buf = [k \in 1..size |-> Garbage]]
          /\ UNCHANGED <<blocks, seen>> /\ old.pc = "get_attr"
      BY <1>1, <1>2, <1>3, <1>5 DEF ReadAttr, store
    <2>2. PICK rd : rd = reader'
      OBVIOUS
    <2>3. /\ rd.pc = "get_block" /\ rd.size = size /\ rd.offset = old.offset
          /\ rd.i = old.i
      <3>1. DOMAIN old = DOMAIN IdleReader
        BY <1>1 DEF SharedInv, IInv
      <3> QED BY <2>1, <2>2, <3>1 DEF IdleReader
    <2>4. /\ old.offset \in Nat /\ old.size \in Nat \ {0} /\ IsInRange(old.offset, old.size)
          /\ old.offset % BlockSize = 0 /\ old.i = 0
          /\ \A p \in Positions : Contents(blocks)[p] \in seen[p]
      BY <1>1, <2>1 DEF SharedInv, ReadInv
    <2>5. attr.st_size \in 0..MaxLength
      BY <1>5 DEF SharedInv, IInv, TypeOK, Attr
    <2>6. /\ size \in Nat \ {0} /\ size <= old.size /\ old.offset + size <= MaxLength
      BY <1>2, <1>3, <1>5, <2>4, <2>5, FileAssumption
    <2>7. Fits(rd)
      <3>1. IsInRange(old.offset, size)
        BY <2>4, <2>6, IntAssumption DEF IsInRange
      <3> QED BY <2>3, <2>4, <2>6, <3>1 DEF Fits
    <2>8. Info(rd).start_block \in Nat /\ Info(rd).num_blocks \in Nat \ {0}
      BY <2>7, InfoTypes DEF Fits, Info
    <2>9. IsAtTurn(rd) /\ BlockOf(rd) = Info(rd).start_block
      BY <2>3, <2>4, <2>8 DEF IsAtTurn, Turns, BlockOf
    <2>10. ReadInv(rd)'
      <3>1. \A p \in Positions : InRequest(rd, p) => ~ (p \div BlockSize < BlockOf(rd))
        BY <2>7, <2>9, NoneBefore
      <3>2. /\ rd.offset \in Nat /\ rd.size \in Nat \ {0} /\ IsInRange(rd.offset, rd.size)
            /\ rd.offset % BlockSize = 0
        BY <2>3, <2>4, <2>7 DEF Fits
      <3> QED BY <2>1, <2>3, <2>4, <2>7, <2>9, <3>1, <3>2 DEF ReadInv
    <2> QED BY <2>2, <2>10, ReadMoves
  <1> QED BY <1>4, <1>5

\* What a read has and may see is kept by all threads.
LEMMA NextShared ==
  ASSUME ReadsArePages, SharedInv, [Next]_vars
  PROVE  SharedInv'
  <1>1. IInv'
    BY NextInv DEF SharedInv
  <1>2. CASE UNCHANGED vars
    BY <1>1, <1>2, NotedShared DEF vars, store, SharedInv
  <1>3. ASSUME NEW n \in Names,
               \/ memcached_write(n) \/ GetBlock(n) \/ SetAttr(n)
               \/ DeleteInode(n) \/ SetNlink(n) \/ AddName(n)
        PROVE  ReadInv(reader)'
    BY <1>3, NotedShared
    DEF memcached_write, GetBlock, SetAttr, DeleteInode, SetNlink, AddName, store
  <1>4. ASSUME NEW n \in Names, SetBlock(n) \/ DeleteBlock(n)
        PROVE  ReadInv(reader)'
    BY <1>4, NotedShared DEF SetBlock, DeleteBlock
  <1>5. ASSUME NEW n \in Names,
               \/ GetAttr(n) \/ OverrunHeap(n) \/ memcached_unlink(n)
               \/ \E old \in Names : memcached_link(old, n)
        PROVE  ReadInv(reader)'
    <2>1. reader' = IdleReader \/ UNCHANGED <<blocks, seen, reader>>
      BY <1>5 DEF GetAttr, OverrunHeap, memcached_unlink, memcached_link, Segfault, Die, store
    <2> QED BY <2>1, NotedShared
  <1>6. CASE ReturnRead \/ Crash
    BY <1>1, <1>6, NotedShared DEF ReturnRead, Crash, Die, SharedInv
  <1>7. CASE memcached_init \/ Evict
    BY <1>1, <1>7, NotedShared DEF memcached_init, Evict, SharedInv, store
  <1>8. CASE Next
    BY <1>1, <1>3, <1>4, <1>5, <1>6, <1>7, <1>8, ReadShared, ReadAttrShared, ReadBlockShared
    DEF Next, SharedInv
  <1> QED BY <1>2, <1>8

\* For any number of names and threads, every request, wherever the process is
\* killed and whatever memcached drops: a read of pages returns, for each byte,
\* one the file held there since the read began, and never foreign memory.
THEOREM PageReadsAreSeen ==
  ASSUME ReadsArePages
  PROVE  Spec => []ReadsWhatWasThere
  <1>1. Init => SharedInv
    BY InitInv DEF Init, SharedInv, ReadInv, IdleReader
  <1>2. SharedInv /\ [Next]_vars => SharedInv'
    BY NextShared
  <1>3. SharedInv => ReadsWhatWasThere
    <2> SUFFICES ASSUME SharedInv, reader.pc = "return", NEW k \in 1..reader.size
                 PROVE  reader.buf[k] \in seen[reader.offset + k - 1]
      BY DEF ReadsWhatWasThere
    <2>1. PICK rd : rd = reader
      OBVIOUS
    <2>2. PICK p : p = rd.offset + k - 1
      OBVIOUS
    <2>3. Fits(rd) /\ \A q \in Positions : InRequest(rd, q) => HasRead(rd, q)
      BY <2>1 DEF SharedInv, ReadInv
    <2>4. p \in Positions /\ InRequest(rd, p) /\ p - rd.offset + 1 = k
      BY <2>1, <2>2, <2>3, FileAssumption DEF Fits, Positions, InRequest
    <2> QED BY <2>1, <2>2, <2>3, <2>4 DEF HasRead
  <1> QED BY <1>1, <1>2, <1>3, PTL DEF Spec

-----------------------------------------------------------------------------
(***************************************************************************)
(* The inode of a file with a name, for any number of names.  A link       *)
(* counts its name before it stores it: Counted is the number of names     *)
(* there are and of those that are counted and not yet stored.  Of the     *)
(* steps of all handlers only the set of a link raises it.  Unless another *)
(* thread holds an inode it read before that set, every count that is      *)
(* stored, or will be, therefore stays enough for the names there are.     *)
(***************************************************************************)
Promised == {n \in Names : thread[n].pc = "add_name"}

Counted == Cardinality(names \cup Promised)

CountOf(n, th, nms, c) ==
  /\ th.pc = "set_attr" => th.attr.st_nlink >= c
  /\ th.pc = "set_nlink" =>
       IF th.old = {} THEN th.attr.st_nlink - 1 >= c ELSE th.attr.st_nlink >= c
  /\ th.pc = "delete" => nms = {}
  /\ th.pc = "add_name" => th.old # {}
  /\ th.old # {} =>
       th.pc \in {"set_nlink", "add_name"} /\ th.old \subseteq nms /\ n \notin nms

CountInv ==
  ~ overtaken /\ faults = 0 =>
    /\ names # {} => attr # NoAttr
    /\ attr.st_nlink >= Counted
    /\ \A n \in Names : CountOf(n, thread[n], names, Counted)

NamedInv == IInv /\ CountInv

Undisturbed == NamedInv /\ ~ overtaken /\ faults = 0

\* Names are counted by numbers.
LEMMA CountedIsNat ==
  ASSUME NEW nms, nms \subseteq Names
  PROVE  IsFiniteSet(nms) /\ Cardinality(nms) \in Nat
  BY FileAssumption, FS_Subset, FS_CardinalityType

\* Fewer names have no higher count.
LEMMA FewerNames ==
  ASSUME NEW nms, nms \subseteq Names, NEW less, less \subseteq nms
  PROVE  Cardinality(less) <= Cardinality(nms)
  BY CountedIsNat, FS_Subset

\* What holds of the file while nothing was overtaken or dropped.
LEMMA CountFacts ==
  ASSUME Undisturbed
  PROVE  /\ thread \in [Names -> Thread] /\ names \subseteq Names /\ attr \in Attr \cup {NoAttr}
         /\ names # {} => attr \in Attr
         /\ attr.st_nlink \in Nat /\ attr.st_nlink >= Counted /\ Counted \in Nat
         /\ \A n \in Names : ThreadInv(thread[n]) /\ CountOf(n, thread[n], names, Counted)
  <1>1. /\ thread \in [Names -> Thread] /\ names \subseteq Names /\ attr \in Attr \cup {NoAttr}
        /\ \A n \in Names : ThreadInv(thread[n])
    BY ThreadFacts DEF Undisturbed, NamedInv, IInv, TypeOK
  <1>2. Counted \in Nat
    BY <1>1, CountedIsNat DEF Counted, Promised
  <1>3. attr.st_nlink \in Nat
    BY <1>1 DEF Attr, NoAttr
  <1> QED BY <1>1, <1>2, <1>3 DEF Undisturbed, NamedInv, CountInv

\* A thread moves, and the others find the names they rely on.
LEMMA CountMoves ==
  ASSUME Undisturbed, NEW n \in Names, NEW th, thread' = [thread EXCEPT ![n] = th],
         names' # {} => attr' # NoAttr, attr'.st_nlink >= Counted',
         CountOf(n, th, names', Counted'),
         \A m \in Names \ {n} : CountOf(m, thread[m], names', Counted')
  PROVE  CountInv'
  BY CountFacts DEF CountInv

\* A thread moves and the names stay.
LEMMA SameCount ==
  ASSUME Undisturbed, NEW n \in Names, NEW th, thread' = [thread EXCEPT ![n] = th],
         thread[n].pc # "add_name", th.pc # "add_name", names' = names,
         names # {} => attr' # NoAttr, attr'.st_nlink >= Counted,
         CountOf(n, th, names, Counted)
  PROVE  CountInv'
  <1>1. Promised' = Promised
    BY CountFacts DEF Promised
  <1>2. Counted' = Counted
    BY <1>1 DEF Counted
  <1> QED BY <1>2, CountFacts, CountMoves

\* The process dies, or nothing moves that the counts depend on.
LEMMA CountStays ==
  ASSUME NamedInv, \/ Die /\ UNCHANGED <<store, faults>>
                   \/ UNCHANGED <<attr, names, thread, overtaken, faults>>
                   \/ faults' # 0
                   \/ overtaken'
  PROVE  CountInv'
  <1>1. CASE (~ overtaken' /\ faults' = 0) /\ Die /\ UNCHANGED <<store, faults>>
    <2>1. Undisturbed
      BY <1>1 DEF Die, Undisturbed
    <2>2. Promised' = {}
      BY <1>1 DEF Die, Idle, Promised
    <2>3. names \cup Promised \subseteq Names /\ names' = names /\ attr' = attr
      BY <1>1, <2>1, CountFacts DEF store, Promised
    <2>4. Counted' <= Counted /\ Counted' \in Nat
      BY <2>2, <2>3, FewerNames, CountedIsNat DEF Counted
    <2>5. \A n \in Names : CountOf(n, Idle, names', Counted')
      BY DEF CountOf, Idle
    <2>6. \A n \in Names : thread'[n] = Idle
      BY <1>1 DEF Die
    <2>7. (names' # {} => attr' # NoAttr) /\ attr'.st_nlink >= Counted'
      BY <2>1, <2>3, <2>4, CountFacts, IdleIsThread
    <2> QED BY <2>5, <2>6, <2>7 DEF CountInv
  <1>2. CASE UNCHANGED <<attr, names, thread, overtaken, faults>>
    <2>1. Counted' = Counted
      BY <1>2 DEF Counted, Promised
    <2> QED BY <1>2, <2>1 DEF NamedInv, CountInv
  <1>3. CASE faults' # 0 \/ overtaken'
    BY <1>3 DEF CountInv
  <1> QED BY <1>1, <1>2, <1>3

\* Every file starts with a count that is right.
LEMMA InitCount == Init => CountInv
  <1> SUFFICES ASSUME Init PROVE CountInv
    OBVIOUS
  <1>1. Promised = {} /\ names = Names /\ attr.st_nlink = Cardinality(Names)
        /\ attr.st_size = 0
    BY DEF Init, Promised, Idle
  <1>2. Counted = attr.st_nlink /\ Counted \in Nat
    BY <1>1, CountedIsNat DEF Counted
  <1>3. attr # NoAttr
    BY <1>1 DEF NoAttr
  <1>4. \A n \in Names : CountOf(n, thread[n], names, Counted)
    BY DEF Init, CountOf, Idle
  <1> QED BY <1>2, <1>3, <1>4 DEF CountInv

\* The steps of a write, but its last.
LEMMA WriteCount ==
  ASSUME Undisturbed, NEW n \in Names,
         memcached_write(n) \/ GetBlock(n) \/ SetBlock(n) \/ GetAttr(n)
  PROVE  CountInv'
  <1>1. PICK old : old = thread[n]
    OBVIOUS
  <1>2. old \in Thread /\ CountOf(n, old, names, Counted)
    BY <1>1, CountFacts
  <1>3. PICK th : th = thread'[n]
    OBVIOUS
  <1>4. CASE memcached_write(n)
    <2>1. old.pc = "idle" /\ thread' = [thread EXCEPT ![n] = th] /\ UNCHANGED <<attr, names>>
      BY <1>1, <1>3, <1>4, CountFacts DEF memcached_write, IsFree, At, store
    <2>2. th.pc = "get_block" /\ th.old = {}
      BY <1>3, <1>4, CountFacts DEF memcached_write, Idle
    <2>3. CountOf(n, th, names, Counted)
      BY <2>2 DEF CountOf
    <2> QED BY <1>1, <2>1, <2>2, <2>3, SameCount, CountFacts, IdleIsThread
  <1>5. CASE GetBlock(n)
    <2>1. /\ old.pc = "get_block" /\ thread' = [thread EXCEPT ![n] = th]
          /\ UNCHANGED <<attr, names>>
      BY <1>1, <1>3, <1>5, CountFacts DEF GetBlock, At, store
    <2>2. PICK data : th = [old EXCEPT !.pc = "set_block", !.data = data]
      BY <1>1, <1>3, <1>5, CountFacts DEF GetBlock
    <2>3. th.pc = "set_block" /\ th.old = {}
      BY <1>2, <2>1, <2>2 DEF Thread, CountOf
    <2>4. CountOf(n, th, names, Counted)
      BY <2>3 DEF CountOf
    <2> QED BY <1>1, <2>1, <2>3, <2>4, SameCount, CountFacts, IdleIsThread
  <1>6. CASE SetBlock(n)
    <2>1. /\ old.pc = "set_block" /\ thread' = [thread EXCEPT ![n] = th]
          /\ UNCHANGED <<attr, names>>
      BY <1>1, <1>3, <1>6, CountFacts DEF SetBlock, At
    <2>2. th = IF IsLastTurn(old) THEN [old EXCEPT !.pc = "get_attr", !.data = <<>>]
               ELSE [old EXCEPT !.pc = "get_block", !.data = <<>>, !.i = @ + 1]
      BY <1>1, <1>3, <1>6, CountFacts DEF SetBlock
    <2>3. th.pc \in {"get_block", "get_attr"} /\ th.old = {}
      BY <1>2, <2>1, <2>2 DEF Thread, CountOf
    <2>4. CountOf(n, th, names, Counted)
      BY <2>3 DEF CountOf
    <2> QED BY <1>1, <2>1, <2>3, <2>4, SameCount, CountFacts, IdleIsThread
  <1>7. CASE GetAttr(n) /\ attr = NoAttr
    BY <1>7, CountStays DEF GetAttr, Segfault, bounds, Undisturbed
  <1>8. CASE GetAttr(n) /\ attr # NoAttr
    <2>1. /\ old.pc = "get_attr" /\ thread' = [thread EXCEPT ![n] = th]
          /\ UNCHANGED <<attr, names>>
      BY <1>1, <1>3, <1>8, CountFacts DEF GetAttr, At, store
    <2>2. th = [old EXCEPT !.pc = "set_attr", !.attr = attr]
      BY <1>1, <1>3, <1>8, CountFacts DEF GetAttr
    <2>3. th.pc = "set_attr" /\ th.old = {} /\ th.attr = attr
      BY <1>2, <2>1, <2>2 DEF Thread, CountOf
    <2>4. CountOf(n, th, names, Counted)
      BY <2>3, CountFacts DEF CountOf
    <2> QED BY <1>1, <2>1, <2>3, <2>4, SameCount, CountFacts, IdleIsThread
  <1> QED BY <1>4, <1>5, <1>6, <1>7, <1>8

\* The last step of a write and the steps of an unlink that store or delete the
\* inode: what the thread held was enough.
LEMMA StoreCount ==
  ASSUME Undisturbed, NEW n \in Names,
         SetAttr(n) \/ DeleteBlock(n) \/ DeleteInode(n) \/ (SetNlink(n) /\ thread[n].old = {})
  PROVE  CountInv'
  <1>1. PICK old : old = thread[n]
    OBVIOUS
  <1>2. old \in Thread /\ ThreadInv(old) /\ CountOf(n, old, names, Counted)
    BY <1>1, CountFacts
  <1>3. Idle.pc # "add_name" /\ CountOf(n, Idle, names, Counted)
    BY DEF CountOf, Idle
  <1>4. CASE SetAttr(n)
    <2>1. old.pc = "set_attr" /\ thread' = [thread EXCEPT ![n] = Idle] /\ UNCHANGED names
      BY <1>1, <1>4 DEF SetAttr, At, Return
    <2>2. old.attr \in Attr /\ IsRequest(old)
      BY <1>2, <2>1 DEF ThreadInv, WritePcs
    <2>3. attr'.st_nlink = old.attr.st_nlink /\ attr'.st_size \in Nat
      <3>1. old.offset + old.size \in Nat /\ old.attr.st_size \in Nat
        BY <2>2, RequestIsInRange, FileAssumption DEF Attr
      <3> QED BY <1>1, <1>4, <2>2, <3>1 DEF SetAttr, Attr
    <2>4. attr' # NoAttr
      BY <2>3 DEF NoAttr
    <2>5. attr'.st_nlink >= Counted
      BY <1>2, <2>1, <2>3 DEF CountOf
    <2> QED BY <1>1, <1>3, <2>1, <2>4, <2>5, SameCount
  <1>5. CASE DeleteBlock(n)
    <2>1. PICK th : th = [old EXCEPT !.i = @ + 1]
      OBVIOUS
    <2>2. old.pc = "delete" /\ thread' = [thread EXCEPT ![n] = th] /\ UNCHANGED <<attr, names>>
      BY <1>1, <1>2, <1>5, <2>1, CountFacts DEF DeleteBlock, At, Thread
    <2>3. th.pc = "delete" /\ th.old = old.old
      BY <1>2, <2>1, <2>2 DEF Thread
    <2>4. CountOf(n, th, names, Counted)
      BY <1>2, <2>2, <2>3 DEF CountOf
    <2> QED BY <1>1, <2>2, <2>3, <2>4, SameCount, CountFacts, IdleIsThread
  <1>6. CASE DeleteInode(n)
    <2>1. /\ old.pc = "delete" /\ thread' = [thread EXCEPT ![n] = Idle] /\ UNCHANGED names
          /\ attr' = NoAttr
      BY <1>1, <1>6 DEF DeleteInode, At, Return
    <2>2. names = {}
      BY <1>2, <2>1 DEF CountOf
    <2>3. Promised = {}
      BY <2>2, CountFacts DEF Promised, CountOf
    <2>4. Counted = 0
      BY <2>2, <2>3, FS_EmptySet DEF Counted
    <2>5. attr'.st_nlink >= Counted
      BY <2>1, <2>4 DEF NoAttr
    <2> QED BY <1>1, <1>3, <2>1, <2>2, <2>5, SameCount
  <1>7. CASE SetNlink(n) /\ thread[n].old = {}
    <2>1. old.pc = "set_nlink" /\ thread' = [thread EXCEPT ![n] = Idle] /\ UNCHANGED names
      BY <1>1, <1>7 DEF SetNlink, At, Return
    <2>2. old.attr \in Attr /\ old.old = {}
      BY <1>1, <1>2, <1>7, <2>1 DEF ThreadInv
    <2>3. attr'.st_nlink = old.attr.st_nlink - 1 /\ attr'.st_size \in Nat
      BY <1>1, <1>7, <2>2, FileAssumption DEF SetNlink, Attr
    <2>4. attr' # NoAttr
      BY <2>3 DEF NoAttr
    <2>5. attr'.st_nlink >= Counted
      BY <1>2, <2>1, <2>2, <2>3 DEF CountOf
    <2> QED BY <1>1, <1>3, <2>1, <2>4, <2>5, SameCount
  <1> QED BY <1>4, <1>5, <1>6, <1>7

\* A name goes: one is to be counted less.
LEMMA UnlinkCount ==
  ASSUME Undisturbed, NEW n \in Names, memcached_unlink(n)
  PROVE  CountInv'
  <1>1. /\ n \in names /\ thread[n].pc = "idle" /\ names' = names \ {n} /\ attr' = attr
        /\ \A m \in Names : n \notin thread[m].old
    BY DEF memcached_unlink, IsFree, At
  <1>2. attr \in Attr /\ attr # NoAttr
    BY <1>1, CountFacts, IdleIsThread
  <1>3. PICK pc : pc = IF HasOtherName(attr) THEN "set_nlink" ELSE "delete"
    OBVIOUS
  <1>4. PICK th : th = [Idle EXCEPT !.attr = attr, !.pc = pc]
    OBVIOUS
  <1>5. thread' = [thread EXCEPT ![n] = th]
    BY <1>2, <1>3, <1>4 DEF memcached_unlink
  <1>6. th.pc = pc /\ th.old = {} /\ th.attr = attr
    BY <1>4 DEF Idle
  <1>7. Promised' = Promised /\ n \notin Promised /\ Promised \subseteq Names
    BY <1>1, <1>3, <1>5, <1>6, CountFacts DEF Promised
  <1>8. Counted' = Counted - 1
    <2>1. /\ names' \cup Promised' = (names \cup Promised) \ {n}
          /\ n \in names \cup Promised /\ names \cup Promised \subseteq Names
      BY <1>1, <1>7, CountFacts
    <2> QED BY <2>1, CountedIsNat, FS_RemoveElement DEF Counted
  <1>9. ASSUME pc = "delete" PROVE names' = {}
    <2>1. Counted' \in Nat /\ Counted' = 0
      <3>1. attr.st_nlink <= 1
        BY <1>3, <1>9, CountFacts DEF HasOtherName
      <3>2. Counted' \in Nat
        BY <1>1, <1>7, CountFacts, CountedIsNat DEF Counted
      <3> QED BY <1>8, <3>1, <3>2, CountFacts
    <2>2. names' \cup Promised' \subseteq Names
      BY <1>1, <1>7, CountFacts
    <2>3. names' \cup Promised' = {}
      BY <2>1, <2>2, CountedIsNat, FS_EmptySet DEF Counted
    <2> QED BY <2>3
  <1>10. CountOf(n, th, names', Counted')
    BY <1>3, <1>6, <1>8, <1>9, CountFacts DEF CountOf, HasOtherName
  <1>11. ASSUME NEW m \in Names \ {n}
         PROVE  CountOf(m, thread[m], names', Counted')
    <2>1. PICK u : u = thread[m]
      OBVIOUS
    <2>2. u \in Thread /\ ThreadInv(u) /\ CountOf(m, u, names, Counted) /\ n \notin u.old
      BY <1>1, <2>1, CountFacts
    <2>3. u.pc \in {"set_attr", "set_nlink"} => u.attr.st_nlink \in Nat
      BY <2>2 DEF ThreadInv, Attr
    <2>4. Counted' <= Counted /\ Counted \in Nat /\ Counted' = Counted - 1
      BY <1>8, CountFacts
    <2>5. CountOf(m, u, names', Counted')
      BY <1>1, <2>2, <2>3, <2>4 DEF CountOf
    <2> QED BY <2>1, <2>5
  <1>12. attr'.st_nlink >= Counted'
    BY <1>1, <1>8, CountFacts
  <1> QED BY <1>1, <1>2, <1>5, <1>10, <1>11, <1>12, CountMoves

\* A link counts its name and, when no other thread holds an inode that it read
\* before, all counts are enough for one more.
LEMMA LinkCount ==
  ASSUME Undisturbed, NEW n \in Names, ~ overtaken',
         SetNlink(n), thread[n].old # {}
  PROVE  CountInv'
  <1>1. PICK old : old = thread[n]
    OBVIOUS
  <1>2. /\ old \in Thread /\ ThreadInv(old) /\ CountOf(n, old, names, Counted)
        /\ old.pc = "set_nlink" /\ old.old # {}
    BY <1>1, CountFacts DEF SetNlink, At
  <1>3. \A m \in Names \ {n} : thread[m].pc \notin {"set_attr", "set_nlink"}
    BY DEF SetNlink, HoldsInode
  <1>4. PICK th : th = [old EXCEPT !.pc = "add_name"]
    OBVIOUS
  <1>5. thread' = [thread EXCEPT ![n] = th] /\ names' = names
    BY <1>1, <1>2, <1>4, CountFacts DEF SetNlink, Goto
  <1>6. th.pc = "add_name" /\ th.old = old.old
    BY <1>2, <1>4 DEF Thread
  <1>7. Promised' = Promised \cup {n}
    BY <1>1, <1>2, <1>5, <1>6, CountFacts DEF Promised
  <1>8. Counted' = Counted + 1
    <2>1. n \notin names \cup Promised /\ names \cup Promised \subseteq Names
      BY <1>1, <1>2, CountFacts DEF CountOf, Promised
    <2>2. names' \cup Promised' = (names \cup Promised) \cup {n}
      BY <1>5, <1>7
    <2> QED BY <2>1, <2>2, CountedIsNat, FS_AddElement DEF Counted
  <1>9. /\ attr'.st_nlink = old.attr.st_nlink + 1 /\ attr'.st_size \in Nat
        /\ old.attr.st_nlink \in Nat
    <2>1. old.attr \in Attr
      BY <1>2 DEF ThreadInv
    <2> QED BY <1>1, <1>2, <2>1, FileAssumption DEF SetNlink, Attr
  <1>10. attr' # NoAttr /\ attr'.st_nlink >= Counted'
    <2>1. attr' # NoAttr
      BY <1>9 DEF NoAttr
    <2>2. old.attr.st_nlink >= Counted
      BY <1>2 DEF CountOf
    <2> QED BY <1>8, <1>9, <2>1, <2>2, CountFacts
  <1>11. CountOf(n, th, names', Counted')
    BY <1>2, <1>5, <1>6 DEF CountOf
  <1>12. ASSUME NEW m \in Names \ {n}
         PROVE  CountOf(m, thread[m], names', Counted')
    <2>1. PICK u : u = thread[m]
      OBVIOUS
    <2>2. CountOf(m, u, names, Counted) /\ u.pc \notin {"set_attr", "set_nlink"}
      BY <1>3, <2>1, CountFacts
    <2>3. CountOf(m, u, names', Counted')
      BY <1>5, <2>2 DEF CountOf
    <2> QED BY <2>1, <2>3
  <1> QED BY <1>5, <1>10, <1>11, <1>12, CountMoves

\* A link begins with the inode of a file that has a name, and ends with the name
\* it counted.
LEMMA NameCount ==
  ASSUME Undisturbed, NEW n \in Names,
         AddName(n) \/ \E old \in Names : memcached_link(old, n)
  PROVE  CountInv'
  <1>1. CASE AddName(n)
    <2>1. /\ thread' = [thread EXCEPT ![n] = Idle] /\ names' = names \cup {n}
          /\ attr' = attr /\ thread[n].pc = "add_name"
      BY <1>1 DEF AddName, At, Return
    <2>2. names # {} /\ n \notin names
      BY <2>1, CountFacts DEF CountOf
    <2>3. Promised' = Promised \ {n} /\ n \in Promised
      BY <2>1, CountFacts DEF Promised, Idle
    <2>4. Counted' = Counted
      <3>1. names' \cup Promised' = names \cup Promised
        BY <2>1, <2>3
      <3> QED BY <3>1 DEF Counted
    <2>5. CountOf(n, Idle, names', Counted')
      BY DEF CountOf, Idle
    <2>6. ASSUME NEW m \in Names \ {n}
          PROVE  CountOf(m, thread[m], names', Counted')
      <3>1. PICK u : u = thread[m]
        OBVIOUS
      <3>2. CountOf(m, u, names, Counted)
        BY <3>1, CountFacts
      <3>3. CountOf(m, u, names', Counted')
        BY <2>1, <2>2, <2>4, <3>2 DEF CountOf
      <3> QED BY <3>1, <3>3
    <2> QED BY <2>1, <2>2, <2>4, <2>5, <2>6, CountFacts, IdleIsThread, CountMoves
  <1>2. ASSUME NEW o \in Names, memcached_link(o, n), attr = NoAttr PROVE CountInv'
    BY <1>2, CountStays DEF memcached_link, Segfault, bounds, Undisturbed
  <1>3. ASSUME NEW o \in Names, memcached_link(o, n), attr # NoAttr PROVE CountInv'
    <2>1. PICK th : th = [Idle EXCEPT !.pc = "set_nlink", !.old = {o}, !.attr = attr]
      OBVIOUS
    <2>2. /\ thread' = [thread EXCEPT ![n] = th] /\ UNCHANGED <<attr, names>>
          /\ o \in names /\ n \notin names /\ thread[n].pc = "idle"
      BY <1>3, <2>1 DEF memcached_link, IsFree, At, store
    <2>3. th.pc = "set_nlink" /\ th.old = {o} /\ th.attr = attr
      BY <2>1 DEF Idle
    <2>4. CountOf(n, th, names, Counted)
      BY <2>2, <2>3, CountFacts DEF CountOf
    <2> QED BY <1>3, <2>2, <2>3, <2>4, SameCount, CountFacts
  <1> QED BY <1>1, <1>2, <1>3

\* A step drops no key or one, and what was overtaken once stays so.
LEMMA HistoryGrows ==
  ASSUME IInv, [Next]_vars
  PROVE  faults' \in {faults, faults + 1} /\ (overtaken => overtaken')
  <1>1. CASE UNCHANGED vars
    BY <1>1 DEF vars, bounds
  <1>2. ASSUME NEW n \in Names,
               \/ memcached_write(n) \/ GetBlock(n) \/ SetBlock(n) \/ OverrunHeap(n)
               \/ GetAttr(n) \/ SetAttr(n) \/ memcached_read(n)
        PROVE  faults' = faults /\ overtaken' = overtaken
    <2>1. CASE memcached_write(n) \/ GetBlock(n) \/ memcached_read(n)
      BY <2>1 DEF memcached_write, GetBlock, memcached_read, bounds
    <2>2. CASE SetBlock(n) \/ OverrunHeap(n)
      BY <2>2 DEF SetBlock, OverrunHeap, Die, bounds
    <2>3. CASE GetAttr(n) \/ SetAttr(n)
      BY <2>3 DEF GetAttr, SetAttr, Segfault, Die, bounds
    <2> QED BY <1>2, <2>1, <2>2, <2>3
  <1>3. ASSUME NEW n \in Names,
               \/ memcached_unlink(n) \/ DeleteBlock(n) \/ DeleteInode(n) \/ AddName(n)
               \/ \E old \in Names : memcached_link(old, n)
        PROVE  faults' = faults /\ overtaken' = overtaken
    BY <1>3 DEF memcached_unlink, DeleteBlock, DeleteInode, AddName, memcached_link,
                Segfault, Die, bounds
  <1>4. ASSUME NEW n \in Names, SetNlink(n)
        PROVE  faults' = faults /\ (overtaken => overtaken')
    BY <1>4 DEF SetNlink, bounds
  <1>5. ASSUME ReadAttr \/ ReadBlock \/ ReturnRead \/ memcached_init \/ Crash \/ Evict
        PROVE  faults' \in {faults, faults + 1} /\ overtaken' = overtaken
    BY <1>5 DEF ReadAttr, ReadBlock, ReturnRead, memcached_init, Crash, Evict, Segfault,
                Die, bounds
  <1> QED BY <1>1, <1>2, <1>3, <1>4, <1>5 DEF Next

\* The counts stay enough in every step that overtakes nothing.
LEMMA NextNamed ==
  ASSUME NamedInv, [Next]_vars
  PROVE  NamedInv'
  <1>1. IInv' /\ faults \in Nat
    BY NextInv, FileAssumption DEF NamedInv, IInv, TypeOK
  <1>2. CASE overtaken' \/ faults' # 0
    BY <1>1, <1>2, CountStays DEF NamedInv
  <1>3. CASE UNCHANGED vars
    BY <1>1, <1>3, CountStays DEF vars, store, bounds, NamedInv
  <1>4. CASE ~ overtaken' /\ faults' = 0 /\ Next
    <2>1. Undisturbed
      BY <1>1, <1>4, HistoryGrows DEF Undisturbed, NamedInv
    <2>2. ASSUME NEW n \in Names,
                 \/ memcached_write(n) \/ GetBlock(n) \/ SetBlock(n) \/ GetAttr(n) \/ SetAttr(n)
                 \/ memcached_unlink(n) \/ DeleteBlock(n) \/ DeleteInode(n)
                 \/ SetNlink(n) \/ AddName(n)
                 \/ \E old \in Names : memcached_link(old, n)
          PROVE  CountInv'
      BY <1>4, <2>1, <2>2, WriteCount, StoreCount, UnlinkCount, LinkCount, NameCount
    <2>3. ASSUME \/ \E n \in Names : memcached_read(n) \/ OverrunHeap(n)
                 \/ ReadAttr \/ ReadBlock \/ ReturnRead
                 \/ memcached_init \/ Crash
          PROVE  CountInv'
      <3>1. \/ Die /\ UNCHANGED <<store, faults>>
            \/ UNCHANGED <<attr, names, thread, overtaken, faults>>
        <4>1. CASE \E n \in Names : memcached_read(n) \/ OverrunHeap(n)
          BY <4>1 DEF memcached_read, OverrunHeap, store, bounds
        <4>2. CASE ReadAttr
          BY <4>2 DEF ReadAttr, Segfault, store, bounds
        <4>3. CASE ReadBlock \/ ReturnRead
          BY <4>3 DEF ReadBlock, ReturnRead, store, bounds
        <4>4. CASE memcached_init \/ Crash
          BY <4>4 DEF memcached_init, Crash, store, bounds
        <4> QED BY <2>3, <4>1, <4>2, <4>3, <4>4
      <3> QED BY <3>1, CountStays DEF NamedInv
    <2>4. ~ Evict
      BY <1>1, <1>4, <2>1 DEF Evict, Undisturbed
    <2> QED BY <1>1, <1>4, <2>2, <2>3, <2>4 DEF Next, NamedInv
  <1> QED BY <1>2, <1>3, <1>4

\* However many names a file has and whatever threads write, link and unlink it,
\* wherever the process is killed: as long as memcached drops nothing and no link
\* counts its name between the get and the set of another handler, a file that
\* has a name keeps its inode, with a count no lower than the number of names.
THEOREM NamesKeepTheFile == Spec => []FileStaysUnlessOvertaken
  <1>1. Init => NamedInv
    BY InitInv, InitCount DEF NamedInv
  <1>2. NamedInv /\ [Next]_vars => NamedInv'
    BY NextNamed
  <1>3. NamedInv => FileStaysUnlessOvertaken
    <2> SUFFICES ASSUME NamedInv, ~ overtaken, faults = 0, names # {}
                 PROVE  attr # NoAttr /\ Cardinality(names) <= attr.st_nlink
      BY DEF FileStaysUnlessOvertaken
    <2>1. Undisturbed
      BY DEF Undisturbed
    <2>2. names \subseteq Names /\ names \cup Promised \subseteq Names
      BY <2>1, CountFacts DEF Promised
    <2>3. Cardinality(names) <= Counted /\ Cardinality(names) \in Nat
      BY <2>2, FewerNames, CountedIsNat DEF Counted
    <2> QED BY <2>1, <2>3, CountFacts, IdleIsThread
  <1> QED BY <1>1, <1>2, <1>3, PTL DEF Spec
=============================================================================
