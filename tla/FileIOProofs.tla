---------------------------- MODULE FileIOProofs ----------------------------
(***************************************************************************)
(* For every block size and every request whose first block has an int for *)
(* its number: random_access.c cuts the request correctly exactly when it  *)
(* starts at a block or is no whole number of blocks long, also where the  *)
(* product of two ints overflows.  For any number of names, any requests   *)
(* in range and any kills and dropped blocks: the variables of FileIO have *)
(* their types, and no byte ever is in another place of the file than the  *)
(* one it was written for.                                                 *)
(***************************************************************************)
EXTENDS FileIO, FiniteSetTheorems, TLAPS

-----------------------------------------------------------------------------
(* Block arithmetic.                                                       *)

\* Division with remainder by the block size.
LEMMA Division ==
  ASSUME NEW a \in Nat
  PROVE  /\ a \div BlockSize \in Nat /\ a % BlockSize \in 0..(BlockSize - 1)
         /\ a = (a \div BlockSize) * BlockSize + (a % BlockSize)
  BY BlockSizeAssumption

\* Quotient and remainder are unique.
LEMMA DivisionIsUnique ==
  ASSUME NEW q \in Int, NEW r \in 0..(BlockSize - 1), q * BlockSize + r \in Nat
  PROVE  (q * BlockSize + r) % BlockSize = r
  BY BlockSizeAssumption

\* An int is converted to itself, also after a multiple of the modulus was added.
LEMMA ToIntUndoes ==
  ASSUME NEW x \in Int, NEW k \in Int, - IntLimit <= x, x < IntLimit
  PROVE  ToInt(x + k * (2 * IntLimit)) = x
  <1> DEFINE m == 2 * IntLimit
             y == x + IntLimit
  <1>1. m \in Nat \ {0} /\ y \in 0..(m - 1)
    BY BlockSizeAssumption, IntAssumption
  <1> HIDE DEF m, y
  <1>2. (k * m + y) % m = y
    BY <1>1
  <1>3. k * m + y = (x + k * m) + IntLimit /\ y - IntLimit = x
    <2>1. k * m \in Int
      BY <1>1
    <2> HIDE DEF m
    <2> QED BY <2>1, IntAssumption DEF y
  <1>4. (((x + k * m) + IntLimit) % m) - IntLimit = x
    BY <1>2, <1>3
  <1> QED BY <1>4 DEF ToInt, m

\* What fits an int is kept.
LEMMA ToIntIsInt ==
  ASSUME NEW x \in Nat, x < IntLimit
  PROVE  ToInt(x) = x
  <1>1. x \in Int /\ 0 \in Int /\ - IntLimit <= x
    BY IntAssumption
  <1>2. ToInt(x + 0 * (2 * IntLimit)) = x
    BY <1>1, ToIntUndoes
  <1>3. x + 0 * (2 * IntLimit) = x
    BY IntAssumption
  <1> QED BY <1>2, <1>3

\* What is converted keeps its remainder.
LEMMA ToIntIsCongruent ==
  ASSUME NEW x \in Int
  PROVE  \E k \in Int : ToInt(x) = x + k * (2 * IntLimit)
  <1> DEFINE m == 2 * IntLimit
             y == x + IntLimit
  <1>1. m \in Nat \ {0} /\ y \in Int
    BY BlockSizeAssumption, IntAssumption
  <1> HIDE DEF m, y
  <1>2. y \div m \in Int /\ y % m \in Int /\ y = (y \div m) * m + (y % m)
    BY <1>1
  <1>3. (y \div m) * m \in Int /\ (- (y \div m)) * m = - ((y \div m) * m)
    BY <1>1, <1>2
  <1>4. (y % m) - IntLimit = x + (- (y \div m)) * m
    BY <1>2, <1>3, IntAssumption DEF y
  <1>5. ToInt(x) = x + (- (y \div m)) * m /\ - (y \div m) \in Int
    BY <1>2, <1>4 DEF ToInt, m, y
  <1> QED BY <1>5 DEF m

\* The overflow of the product does not reach the bytes left in the first block.
LEMMA BytesLeft ==
  ASSUME NEW off \in Nat, off \div BlockSize < IntLimit
  PROVE  LET start == ToInt(off \div BlockSize)
         IN  /\ start = off \div BlockSize
             /\ ToInt(BlockSize - (off - ToInt(start * BlockSize))) =
                  BlockSize - (off % BlockSize)
  <1> DEFINE q == off \div BlockSize
             r == off % BlockSize
             p == q * BlockSize
  <1>1. q \in Nat /\ r \in 0..(BlockSize - 1) /\ off = p + r /\ p \in Nat
    BY Division, BlockSizeAssumption
  <1>2. ToInt(q) = q
    BY <1>1, ToIntIsInt
  <1>3. PICK k \in Int : ToInt(p) = p + k * (2 * IntLimit)
    BY <1>1, ToIntIsCongruent
  <1> DEFINE z == k * (2 * IntLimit)
  <1> HIDE DEF p
  <1>4. z \in Int
    BY <1>3, IntAssumption
  <1>5. BlockSize - (off - ToInt(p)) = (BlockSize - r) + z
    <2>1. BlockSize - (off - (p + z)) = (BlockSize - r) + z
      <3> HIDE DEF z, q, r
      <3> QED BY <1>1, <1>4, BlockSizeAssumption
    <2> QED BY <2>1, <1>3
  <1>6. /\ BlockSize - r \in Int
        /\ - IntLimit <= BlockSize - r /\ BlockSize - r < IntLimit
    BY <1>1, BlockSizeAssumption, IntAssumption
  <1>7. ToInt(BlockSize - (off - ToInt(p))) = BlockSize - r
    BY <1>3, <1>5, <1>6, ToIntUndoes
  <1> QED BY <1>2, <1>7 DEF p

\* A request that fits into its first block is copied in one turn.
LEMMA FitsInBlock ==
  ASSUME NEW off \in Nat, NEW sz \in Nat \ {0},
         IsInRange(off, sz), sz <= BlockSize - (off % BlockSize)
  PROVE  CoversRequest(off, sz) /\ IsCovered(off, sz)
  <1> DEFINE q == off \div BlockSize
             r == off % BlockSize
             info == get_file_blocks_info(off, sz)
  <1>1. q \in Nat /\ r \in 0..(BlockSize - 1) /\ off = q * BlockSize + r
    BY Division
  <1>2. /\ ToInt(q) = q
        /\ ToInt(BlockSize - (off - ToInt(q * BlockSize))) = BlockSize - r
    BY BytesLeft DEF IsInRange
  <1>3. /\ info.start_block = q /\ info.offset_in_start_block = r
        /\ info.num_blocks = 1
    BY <1>2 DEF get_file_blocks_info
  <1>4. Turns(info) = {0}
    BY <1>3 DEF Turns
  <1>5. ChunkOffset(info, 0) = r /\ ChunkSize(info, 0, sz) = sz /\ BytesBefore(info, 0) = 0
    BY <1>3 DEF ChunkOffset, ChunkSize, BytesBefore
  <1>6. r + sz <= BlockSize /\ (q + 0) * BlockSize + r = off + 0
    BY <1>1, BlockSizeAssumption
  <1>7. CoversRequest(off, sz)
    BY <1>3, <1>4, <1>5, <1>6 DEF CoversRequest
  <1>8. IsCovered(off, sz)
    <2>1. CASE r = 0
      BY <2>1 DEF IsCovered
    <2>2. CASE r # 0
      <3>1. sz \in 0..(BlockSize - 1) /\ 0 * BlockSize + sz = sz
        BY <2>2, <1>1, BlockSizeAssumption
      <3>2. sz % BlockSize = sz
        BY <3>1, DivisionIsUnique
      <3> QED BY <3>2 DEF IsCovered
    <2> QED BY <2>1, <2>2
  <1> QED BY <1>7, <1>8

\* A longer request: what the block info and the turns are made of.
LEMMA LongRequest ==
  ASSUME NEW off \in Nat, NEW sz \in Nat \ {0},
         IsInRange(off, sz), sz > BlockSize - (off % BlockSize)
  PROVE  LET r == off % BlockSize
             s == sz - (BlockSize - r)
             info == get_file_blocks_info(off, sz)
         IN  /\ s \in Nat \ {0}
             /\ info.start_block = off \div BlockSize
             /\ info.offset_in_start_block = r
             /\ sz % BlockSize = 0 =>
                  /\ info.num_blocks = 1 + (s \div BlockSize)
                  /\ info.bytes_in_end_block = BlockSize
             /\ sz % BlockSize # 0 =>
                  /\ info.num_blocks = 2 + (s \div BlockSize)
                  /\ info.bytes_in_end_block = s % BlockSize
  <1> DEFINE q == off \div BlockSize
             r == off % BlockSize
  <1>1. q \in Nat /\ r \in 0..(BlockSize - 1) /\ off = q * BlockSize + r
    BY Division
  <1>2. /\ ToInt(q) = q
        /\ ToInt(BlockSize - (off - ToInt(q * BlockSize))) = BlockSize - r
    BY BytesLeft DEF IsInRange
  <1>3. sz - (BlockSize - r) \in Nat \ {0} /\ ~ (sz <= BlockSize - r)
    BY <1>1, BlockSizeAssumption
  <1>4. ToInt(sz - (BlockSize - r)) = sz - (BlockSize - r)
    <2>1. sz - (BlockSize - r) < IntLimit
      BY <1>1, BlockSizeAssumption, IntAssumption DEF IsInRange
    <2> QED BY <2>1, <1>3, ToIntIsInt
  <1> QED BY <1>2, <1>3, <1>4 DEF get_file_blocks_info

\* The turns of a longer request, when its last one has a positive number.
LEMMA TurnsAreInPlace ==
  ASSUME NEW off \in Nat, NEW info, NEW sz \in Nat,
         info.start_block = off \div BlockSize,
         info.offset_in_start_block = off % BlockSize,
         info.num_blocks \in Nat, info.num_blocks > 1,
         info.bytes_in_end_block \in 0..BlockSize
  PROVE  \A i \in Turns(info) :
           /\ ChunkOffset(info, i) + ChunkSize(info, i, sz) <= BlockSize
           /\ (info.start_block + i) * BlockSize + ChunkOffset(info, i) =
                off + BytesBefore(info, i)
  <1> DEFINE q == off \div BlockSize
             r == off % BlockSize
  <1>1. q \in Nat /\ r \in 0..(BlockSize - 1) /\ off = q * BlockSize + r
    BY Division
  <1> SUFFICES ASSUME NEW i \in Turns(info)
               PROVE  /\ ChunkOffset(info, i) + ChunkSize(info, i, sz) <= BlockSize
                      /\ (q + i) * BlockSize + ChunkOffset(info, i) =
                           off + BytesBefore(info, i)
    OBVIOUS
  <1>2. i \in Nat
    BY DEF Turns
  <1>3. CASE i = 0
    BY <1>1, <1>3, BlockSizeAssumption DEF ChunkOffset, ChunkSize, BytesBefore
  <1>4. CASE i # 0
    <2>1. ChunkOffset(info, i) = 0 /\ BytesBefore(info, i) = i * BlockSize - r
      BY <1>4 DEF ChunkOffset, BytesBefore
    <2>2. ChunkSize(info, i, sz) \in 0..BlockSize
      BY <1>4, BlockSizeAssumption DEF ChunkSize
    <2>3. (q + i) * BlockSize = q * BlockSize + i * BlockSize
      BY <1>1, <1>2, BlockSizeAssumption
    <2>4. q * BlockSize \in Nat /\ i * BlockSize \in Nat
      BY <1>1, <1>2, BlockSizeAssumption
    <2> QED BY <1>1, <2>1, <2>2, <2>3, <2>4, BlockSizeAssumption
  <1> QED BY <1>3, <1>4

\* Of a longer request exactly the covered ones are copied correctly.
LEMMA SpansBlocks ==
  ASSUME NEW off \in Nat, NEW sz \in Nat \ {0},
         IsInRange(off, sz), sz > BlockSize - (off % BlockSize)
  PROVE  CoversRequest(off, sz) <=> IsCovered(off, sz)
  <1> DEFINE r == off % BlockSize
             s == sz - (BlockSize - r)
             d == s \div BlockSize
             info == get_file_blocks_info(off, sz)
             last == info.num_blocks - 1
             end == BytesBefore(info, last) + ChunkSize(info, last, sz)
  <1>1. /\ s \in Nat \ {0}
        /\ info.start_block = off \div BlockSize /\ info.offset_in_start_block = r
    BY LongRequest
  <1>2. sz % BlockSize = 0 => info.num_blocks = 1 + d /\ info.bytes_in_end_block = BlockSize
    BY LongRequest
  <1>3. sz % BlockSize # 0 =>
          info.num_blocks = 2 + d /\ info.bytes_in_end_block = s % BlockSize
    BY LongRequest
  <1>4. /\ r \in 0..(BlockSize - 1) /\ d \in Nat /\ s % BlockSize \in 0..(BlockSize - 1)
        /\ s = d * BlockSize + (s % BlockSize) /\ d * BlockSize \in Nat
    BY <1>1, Division, BlockSizeAssumption
  <1>5. sz = s + BlockSize - r
    BY <1>4, BlockSizeAssumption
  <1> HIDE DEF r, s, d, info
  <1>6. CASE sz % BlockSize # 0
    <2>1. info.num_blocks \in Nat /\ info.num_blocks > 1 /\ last = 1 + d
      BY <1>3, <1>4, <1>6
    <2>2. info.bytes_in_end_block \in 0..BlockSize
      BY <1>3, <1>4, <1>6, BlockSizeAssumption
    <2>3. BytesBefore(info, last) = (1 + d) * BlockSize - r
      BY <1>1, <1>4, <2>1 DEF BytesBefore
    <2>4. ChunkSize(info, last, sz) = s % BlockSize
      BY <1>3, <1>4, <1>6, <2>1 DEF ChunkSize
    <2>5. (1 + d) * BlockSize = BlockSize + d * BlockSize
      BY <1>4, BlockSizeAssumption
    <2>6. end = sz
      BY <1>4, <1>5, <2>3, <2>4, <2>5, BlockSizeAssumption
    <2>7. CoversRequest(off, sz)
      BY <1>1, <2>1, <2>2, <2>6, TurnsAreInPlace DEF CoversRequest, info, r
    <2> QED BY <2>7, <1>6 DEF IsCovered
  <1>7. CASE sz % BlockSize = 0 /\ d = 0
    \* One block is not enough: the chunk does not fit.
    <2>1. info.num_blocks = 1 /\ last = 0 /\ 0 \in Turns(info)
      BY <1>2, <1>7 DEF Turns
    <2>2. ChunkOffset(info, 0) = r /\ ChunkSize(info, 0, sz) = sz
      BY <1>1, <2>1 DEF ChunkOffset, ChunkSize
    <2>3. ~ (r + sz <= BlockSize)
      BY <1>1, <1>4, <1>5, BlockSizeAssumption
    <2>4. ~ CoversRequest(off, sz)
      BY <2>1, <2>2, <2>3 DEF CoversRequest, info
    <2>5. r # 0
      <3> SUFFICES ASSUME r = 0 PROVE FALSE
        OBVIOUS
      <3>1. s \in 0..(BlockSize - 1) /\ 1 * BlockSize + s = sz
        BY <1>1, <1>4, <1>5, <1>7, BlockSizeAssumption
      <3>2. sz % BlockSize = s
        BY <3>1, DivisionIsUnique
      <3> QED BY <3>2, <1>1, <1>7
    <2> QED BY <2>4, <2>5, <1>7 DEF IsCovered, r
  <1>8. CASE sz % BlockSize = 0 /\ d # 0
    <2>1. info.num_blocks \in Nat /\ info.num_blocks > 1 /\ last = d
      BY <1>2, <1>4, <1>8
    <2>2. BytesBefore(info, last) = d * BlockSize - r /\ ChunkSize(info, last, sz) = BlockSize
      BY <1>1, <1>2, <1>8, <2>1 DEF BytesBefore, ChunkSize
    <2>3. end = sz <=> s % BlockSize = 0
      BY <1>1, <1>4, <1>5, <2>2, BlockSizeAssumption
    <2>4. s % BlockSize = r
      <3>1. \E k \in Nat : sz = k * BlockSize
        <4>1. /\ sz \div BlockSize \in Nat
              /\ sz = (sz \div BlockSize) * BlockSize + (sz % BlockSize)
          BY Division
        <4>2. (sz \div BlockSize) * BlockSize \in Nat
          BY <4>1, BlockSizeAssumption
        <4>3. sz = (sz \div BlockSize) * BlockSize
          BY <1>8, <4>1, <4>2
        <4> QED BY <4>1, <4>3
      <3>2. PICK k \in Nat : sz = k * BlockSize
        BY <3>1
      <3>3. (k - 1) * BlockSize = k * BlockSize - BlockSize
        BY BlockSizeAssumption
      <3>4. (k - 1) * BlockSize + r = s
        BY <1>1, <1>4, <1>5, <3>2, <3>3, BlockSizeAssumption
      <3> QED BY <1>1, <1>4, <3>4, DivisionIsUnique
    <2>5. info.bytes_in_end_block \in 0..BlockSize
      BY <1>2, <1>8, BlockSizeAssumption
    <2>6. CoversRequest(off, sz) <=> end = sz
      BY <1>1, <2>1, <2>5, TurnsAreInPlace DEF CoversRequest, info, r
    <2> QED BY <2>3, <2>4, <2>6, <1>8 DEF IsCovered, r
  <1> QED BY <1>4, <1>6, <1>7, <1>8

\* For every request of at least one byte in range, the loops of read and write
\* copy it exactly if it is covered, and only then; the overflow of start_block *
\* block_size does no harm.
THEOREM CoveredIffCut ==
  ASSUME NEW off \in Nat, NEW sz \in Nat \ {0}, IsInRange(off, sz)
  PROVE  CoversRequest(off, sz) <=> IsCovered(off, sz)
  <1>1. off % BlockSize \in 0..(BlockSize - 1)
    BY Division
  <1>2. CASE sz <= BlockSize - (off % BlockSize)
    BY <1>2, FitsInBlock
  <1>3. CASE sz > BlockSize - (off % BlockSize)
    BY <1>3, SpansBlocks
  <1> QED BY <1>1, <1>2, <1>3, BlockSizeAssumption

\* Multiplication by the block size is monotonic.
LEMMA BlocksAreOrdered ==
  ASSUME NEW i \in Nat, NEW j \in Nat, i < j
  PROVE  /\ i * BlockSize \in Nat /\ j * BlockSize \in Nat
         /\ i * BlockSize + BlockSize <= j * BlockSize
  <1>1. j - (i + 1) \in Nat /\ (j - (i + 1)) * BlockSize \in Nat
    BY BlockSizeAssumption
  <1>2. j * BlockSize = (j - (i + 1)) * BlockSize + i * BlockSize + BlockSize
    BY BlockSizeAssumption
  <1>3. i * BlockSize \in Nat
    BY BlockSizeAssumption
  <1> QED BY <1>1, <1>2, <1>3, BlockSizeAssumption

\* The number of the first block and the number of blocks.
LEMMA InfoTypes ==
  ASSUME NEW off \in Nat, NEW sz \in Nat \ {0}, IsInRange(off, sz)
  PROVE  LET info == get_file_blocks_info(off, sz)
         IN  info.start_block \in Nat /\ info.num_blocks \in Nat \ {0}
  <1> DEFINE q == off \div BlockSize
             r == off % BlockSize
             s == sz - (BlockSize - r)
             info == get_file_blocks_info(off, sz)
  <1> SUFFICES info.start_block \in Nat /\ info.num_blocks \in Nat \ {0}
    OBVIOUS
  <1>1. q \in Nat /\ r \in 0..(BlockSize - 1)
    BY Division
  <1>2. CASE sz > BlockSize - r
    <2>1. /\ s \in Nat \ {0} /\ info.start_block = q
          /\ sz % BlockSize = 0 => info.num_blocks = 1 + (s \div BlockSize)
          /\ sz % BlockSize # 0 => info.num_blocks = 2 + (s \div BlockSize)
      BY <1>2, LongRequest
    <2>2. s \div BlockSize \in Nat
      BY <2>1, Division
    <2> HIDE DEF info, s, q, r
    <2> QED BY <1>1, <2>1, <2>2
  <1>3. CASE ~ (sz > BlockSize - r)
    <2>1. sz <= BlockSize - r
      <3> HIDE DEF r
      <3> QED BY <1>1, <1>3, BlockSizeAssumption
    <2>2. /\ ToInt(q) = q
          /\ ToInt(BlockSize - (off - ToInt(ToInt(q) * BlockSize))) = BlockSize - r
      BY BytesLeft DEF IsInRange
    <2>3. info.start_block = q /\ info.num_blocks = 1
      BY <2>1, <2>2 DEF get_file_blocks_info
    <2> HIDE DEF info, q
    <2> QED BY <1>1, <2>3
  <1> QED BY <1>2, <1>3

\* Each turn, also of a request that is not covered, copies bytes of the request
\* to or from the place in the file that they are for.
LEMMA ChunkIsInRequest ==
  ASSUME NEW off \in Nat, NEW sz \in Nat \ {0}, IsInRange(off, sz),
         NEW i \in Turns(get_file_blocks_info(off, sz))
  PROVE  LET info == get_file_blocks_info(off, sz)
         IN  /\ i \in Nat /\ info.start_block \in Nat
             /\ ChunkOffset(info, i) \in 0..(BlockSize - 1)
             /\ ChunkSize(info, i, sz) \in Nat /\ BytesBefore(info, i) \in Nat
             /\ BytesBefore(info, i) + ChunkSize(info, i, sz) <= sz
             /\ (info.start_block + i) * BlockSize + ChunkOffset(info, i) =
                  off + BytesBefore(info, i)
  <1> DEFINE q == off \div BlockSize
             r == off % BlockSize
             s == sz - (BlockSize - r)
             d == s \div BlockSize
             info == get_file_blocks_info(off, sz)
             last == info.num_blocks - 1
             Goal == /\ i \in Nat /\ info.start_block \in Nat
                     /\ ChunkOffset(info, i) \in 0..(BlockSize - 1)
                     /\ ChunkSize(info, i, sz) \in Nat /\ BytesBefore(info, i) \in Nat
                     /\ BytesBefore(info, i) + ChunkSize(info, i, sz) <= sz
                     /\ (info.start_block + i) * BlockSize + ChunkOffset(info, i) =
                          off + BytesBefore(info, i)
  <1> SUFFICES Goal
    OBVIOUS
  <1>1. q \in Nat /\ r \in 0..(BlockSize - 1) /\ off = q * BlockSize + r
    BY Division
  <1>2. info.start_block = q /\ info.offset_in_start_block = r
    <2>1. ToInt(q) = q
      BY BytesLeft DEF IsInRange
    <2> QED BY <2>1 DEF get_file_blocks_info
  <1>3. i \in Turns(info) /\ i \in Nat
    BY DEF Turns
  <1>4. CASE info.num_blocks = 1
    <2>1. i = 0
      BY <1>4 DEF Turns
    <2>2. ChunkOffset(info, i) = r /\ ChunkSize(info, i, sz) = sz /\ BytesBefore(info, i) = 0
      BY <1>2, <1>4, <2>1 DEF ChunkOffset, ChunkSize, BytesBefore
    <2>3. (q + i) * BlockSize + r = off + 0
      BY <1>1, <2>1, BlockSizeAssumption
    <2> HIDE DEF info, q, r
    <2> QED BY <1>1, <1>2, <1>4, <2>1, <2>2, <2>3
  <1>5. CASE info.num_blocks # 1
    <2>1. sz > BlockSize - r
      <3>1. ToInt(BlockSize - (off - ToInt(ToInt(q) * BlockSize))) = BlockSize - r
        BY BytesLeft DEF IsInRange
      <3>2. sz <= BlockSize - r => info.num_blocks = 1
        BY <3>1 DEF get_file_blocks_info
      <3> HIDE DEF info, r
      <3> QED BY <1>1, <1>5, <3>2, BlockSizeAssumption
    <2>2. /\ s \in Nat \ {0}
          /\ sz % BlockSize = 0 =>
               info.num_blocks = 1 + d /\ info.bytes_in_end_block = BlockSize
          /\ sz % BlockSize # 0 =>
               info.num_blocks = 2 + d /\ info.bytes_in_end_block = s % BlockSize
      BY <2>1, LongRequest
    <2>3. /\ d \in Nat /\ s % BlockSize \in 0..(BlockSize - 1) /\ d * BlockSize \in Nat
          /\ s = d * BlockSize + (s % BlockSize)
      BY <2>2, Division, BlockSizeAssumption
    <2>4. sz = s + BlockSize - r
      BY <1>1, BlockSizeAssumption
    <2> HIDE DEF info, s, d, q, r
    <2>5. info.num_blocks \in Nat /\ info.num_blocks > 1 /\ last \in Nat \ {0}
      BY <2>2, <2>3, <1>5
    <2>6. info.bytes_in_end_block \in 0..BlockSize
      BY <2>2, <2>3, BlockSizeAssumption
    <2>7. /\ ChunkOffset(info, i) + ChunkSize(info, i, sz) <= BlockSize
          /\ (info.start_block + i) * BlockSize + ChunkOffset(info, i) =
               off + BytesBefore(info, i)
      BY <1>2, <1>3, <2>5, <2>6, TurnsAreInPlace DEF q, r
    <2>8. /\ last * BlockSize \in Nat
          /\ last * BlockSize - r + info.bytes_in_end_block <= sz
      <3>1. CASE sz % BlockSize = 0
        <4>1. last = d /\ info.bytes_in_end_block = BlockSize
          BY <2>2, <2>3, <3>1
        <4> QED BY <4>1, <1>1, <2>3, <2>4, BlockSizeAssumption
      <3>2. CASE sz % BlockSize # 0
        <4>1. last = 1 + d /\ info.bytes_in_end_block = s % BlockSize
          BY <2>2, <2>3, <3>2
        <4>2. (1 + d) * BlockSize = BlockSize + d * BlockSize
          BY <2>3, BlockSizeAssumption
        <4> QED BY <4>1, <4>2, <1>1, <2>3, <2>4, BlockSizeAssumption
      <3> QED BY <3>1, <3>2
    <2>9. CASE i = 0
      <3>1. /\ ChunkOffset(info, i) = r /\ BytesBefore(info, i) = 0
            /\ ChunkSize(info, i, sz) = BlockSize - r
        BY <1>2, <2>5, <2>9 DEF ChunkOffset, ChunkSize, BytesBefore
      <3>2. sz > BlockSize - r
        BY <2>1
      <3> QED BY <3>1, <3>2, <1>1, <1>2, <1>3, <2>5, <2>7, BlockSizeAssumption
    <2>10. CASE i # 0
      <3>1. ChunkOffset(info, i) = 0 /\ BytesBefore(info, i) = i * BlockSize - r
        BY <1>2, <2>10 DEF ChunkOffset, BytesBefore
      <3>2. i * BlockSize \in Nat /\ BlockSize <= i * BlockSize
        <4>1. 0 * BlockSize + BlockSize <= i * BlockSize /\ i * BlockSize \in Nat
          BY <1>3, <2>10, BlocksAreOrdered
        <4> QED BY <4>1, BlockSizeAssumption
      <3>3. i * BlockSize - r \in Nat
        BY <3>2, <1>1, BlockSizeAssumption
      <3>4. /\ ChunkSize(info, i, sz) \in Nat
            /\ i * BlockSize - r + ChunkSize(info, i, sz) <= sz
        <4>1. CASE i = last
          <5>1. ChunkSize(info, i, sz) = info.bytes_in_end_block
            BY <2>5, <2>10, <4>1 DEF ChunkSize
          <5> QED BY <5>1, <4>1, <2>6, <2>8
        <4>2. CASE i # last
          <5>1. ChunkSize(info, i, sz) = BlockSize
            BY <2>5, <2>10, <4>2 DEF ChunkSize
          <5>2. i < last
            BY <1>3, <2>5, <4>2 DEF Turns
          <5>3. i * BlockSize + BlockSize <= last * BlockSize
            BY <5>2, <1>3, <2>5, BlocksAreOrdered
          <5> HIDE DEF last
          <5> QED BY <5>1, <5>3, <3>2, <2>6, <2>8, <1>1, BlockSizeAssumption
        <4> QED BY <4>1, <4>2
      <3> QED BY <3>1, <3>3, <3>4, <1>1, <1>2, <1>3, <2>5, <2>7, BlockSizeAssumption
    <2> QED BY <2>9, <2>10
  <1> QED BY <1>4, <1>5

-----------------------------------------------------------------------------
(* Turns and positions of the file.                                        *)

\* A longer request ends s bytes after its first block.
LEMMA EndOfLongRequest ==
  ASSUME NEW off \in Nat, NEW sz \in Nat \ {0},
         IsInRange(off, sz), sz > BlockSize - (off % BlockSize)
  PROVE  LET s == sz - (BlockSize - (off % BlockSize))
             d == s \div BlockSize
             start == get_file_blocks_info(off, sz).start_block
         IN  /\ d \in Nat /\ s % BlockSize \in 0..(BlockSize - 1)
             /\ start \in Nat /\ (start + 1 + d) * BlockSize \in Nat
             /\ off + sz = (start + 1 + d) * BlockSize + (s % BlockSize)
             /\ sz % BlockSize = 0 => s % BlockSize = off % BlockSize
  <1> DEFINE q == off \div BlockSize
             r == off % BlockSize
             s == sz - (BlockSize - r)
             d == s \div BlockSize
             start == get_file_blocks_info(off, sz).start_block
  <1>1. q \in Nat /\ r \in 0..(BlockSize - 1) /\ off = q * BlockSize + r
    BY Division
  <1>2. s \in Nat /\ start = q
    BY LongRequest
  <1>3. /\ d \in Nat /\ s % BlockSize \in 0..(BlockSize - 1)
        /\ s = d * BlockSize + (s % BlockSize)
    BY <1>2, Division
  <1>4. /\ (q + 1 + d) * BlockSize = q * BlockSize + BlockSize + d * BlockSize
        /\ (q + 1 + d) * BlockSize \in Nat
    BY <1>1, <1>3, BlockSizeAssumption
  <1>5. off + sz = (q + 1 + d) * BlockSize + (s % BlockSize)
    <2> DEFINE qB == q * BlockSize
               dB == d * BlockSize
               m == s % BlockSize
               sum == (q + 1 + d) * BlockSize
    <2>1. sum = qB + BlockSize + dB /\ off = qB + r /\ s = dB + m /\ sz = s + BlockSize - r
      BY <1>1, <1>3, <1>4, BlockSizeAssumption
    <2>2. qB \in Nat /\ dB \in Nat /\ m \in Nat
      BY <1>1, <1>3, BlockSizeAssumption
    <2> HIDE DEF qB, dB, m, sum, s, d, q, r
    <2>3. off + sz = sum + m
      BY <1>1, <2>1, <2>2, BlockSizeAssumption
    <2> QED BY <2>3 DEF sum, m
  <1>6. ASSUME sz % BlockSize = 0
        PROVE  s % BlockSize = r
    <2> DEFINE t == sz \div BlockSize
    <2>1. t \in Nat /\ sz = t * BlockSize
      BY <1>6, Division, BlockSizeAssumption
    <2>2. (t - 1) * BlockSize = t * BlockSize - BlockSize /\ t - 1 \in Int
      BY <2>1, BlockSizeAssumption
    <2>3. s = (t - 1) * BlockSize + r
      <3> DEFINE tB == t * BlockSize
                 uB == (t - 1) * BlockSize
      <3>1. sz = tB /\ uB = tB - BlockSize /\ tB \in Nat
        BY <2>1, <2>2, BlockSizeAssumption
      <3> HIDE DEF tB, uB, t, r
      <3>2. s = uB + r
        BY <3>1, <1>1, BlockSizeAssumption
      <3> QED BY <3>2 DEF uB
    <2> HIDE DEF t, r, s
    <2> QED BY <1>1, <1>2, <2>2, <2>3, DivisionIsUnique
  <1> HIDE DEF q, s, d, r, start
  <1>7. start \in Nat /\ (start + 1 + d) * BlockSize \in Nat
        /\ off + sz = (start + 1 + d) * BlockSize + (s % BlockSize)
    BY <1>1, <1>2, <1>4, <1>5
  <1> QED BY <1>3, <1>6, <1>7 DEF s, d, r, start, q

\* The turns end behind the request exactly if it is covered.
LEMMA TurnsEndBehindRequest ==
  ASSUME NEW off \in Nat, NEW sz \in Nat \ {0}, IsInRange(off, sz)
  PROVE  LET info == get_file_blocks_info(off, sz)
         IN  IsCovered(off, sz) <=>
               off + sz <= (info.start_block + info.num_blocks) * BlockSize
  <1> DEFINE q == off \div BlockSize
             r == off % BlockSize
             info == get_file_blocks_info(off, sz)
             start == info.start_block
             num == info.num_blocks
  <1>1. q \in Nat /\ r \in 0..(BlockSize - 1) /\ off = q * BlockSize + r
    BY Division
  <1>2. CASE sz <= BlockSize - r
    <2>1. IsCovered(off, sz)
      BY <1>2, FitsInBlock
    <2>2. start = q /\ num = 1
      <3>1. /\ ToInt(q) = q
            /\ ToInt(BlockSize - (off - ToInt(q * BlockSize))) = BlockSize - r
        BY BytesLeft DEF IsInRange
      <3> QED BY <1>2, <3>1 DEF get_file_blocks_info
    <2>3. (q + 1) * BlockSize = q * BlockSize + BlockSize
      BY <1>1, BlockSizeAssumption
    <2>4. off + sz <= (q + 1) * BlockSize
      <3> DEFINE qB == q * BlockSize
                 uB == (q + 1) * BlockSize
      <3>1. uB = qB + BlockSize /\ off = qB + r /\ qB \in Nat
        BY <1>1, <2>3, BlockSizeAssumption
      <3> HIDE DEF qB, uB, r, q
      <3>2. off + sz <= uB
        BY <1>1, <1>2, <3>1, BlockSizeAssumption
      <3> QED BY <3>2 DEF uB, q
    <2>5. off + sz <= (start + num) * BlockSize
      <3> HIDE DEF start, num, q
      <3> QED BY <2>2, <2>4
    <2> QED BY <2>1, <2>5
  <1>3. CASE ~ (sz <= BlockSize - r)
    <2> DEFINE s == sz - (BlockSize - r)
               d == s \div BlockSize
               m == s % BlockSize
               uB == (start + 1 + d) * BlockSize
    <2>1. sz > BlockSize - r
      <3> HIDE DEF r
      <3> QED BY <1>1, <1>3, BlockSizeAssumption
    <2>2. /\ d \in Nat /\ m \in 0..(BlockSize - 1) /\ start \in Nat /\ uB \in Nat
          /\ off + sz = uB + m
          /\ sz % BlockSize = 0 => m = r
      BY <2>1, EndOfLongRequest
    <2>3. /\ sz % BlockSize = 0 => num = 1 + d
          /\ sz % BlockSize # 0 => num = 2 + d
      BY <2>1, LongRequest
    <2>4. CASE sz % BlockSize = 0
      <3>1. IsCovered(off, sz) <=> m = 0
        BY <2>2, <2>4 DEF IsCovered
      <3>2. start + num = start + 1 + d
        BY <2>2, <2>3, <2>4
      <3>3. (start + num) * BlockSize = uB
        BY <3>2
      <3> HIDE DEF info, start, num, d, m, uB
      <3>4. off + sz <= uB <=> m = 0
        BY <2>2, BlockSizeAssumption
      <3> QED BY <3>1, <3>3, <3>4 DEF start, num, info
    <2>5. CASE sz % BlockSize # 0
      <3>1. IsCovered(off, sz)
        BY <2>5 DEF IsCovered
      <3>2. (start + num) * BlockSize = uB + BlockSize
        <4>1. start + num = (start + 1 + d) + 1
          BY <2>2, <2>3, <2>5
        <4>2. ((start + 1 + d) + 1) * BlockSize = (start + 1 + d) * BlockSize + BlockSize
          BY <2>2, BlockSizeAssumption
        <4> QED BY <4>1, <4>2
      <3> HIDE DEF info, start, num, d, m, uB
      <3>3. off + sz <= (start + num) * BlockSize
        BY <2>2, <3>2, BlockSizeAssumption
      <3> QED BY <3>1, <3>3 DEF start, num, info
    <2> QED BY <2>4, <2>5
  <1> QED BY <1>2, <1>3

\* In its block a turn copies the whole part of the request that lies there.
LEMMA ChunkIsPartInBlock ==
  ASSUME NEW off \in Nat, NEW sz \in Nat \ {0}, IsInRange(off, sz),
         NEW i \in Turns(get_file_blocks_info(off, sz)), NEW k \in 1..BlockSize,
         (get_file_blocks_info(off, sz).start_block + i) * BlockSize + k - 1
           \in off..(off + sz - 1)
  PROVE  LET info == get_file_blocks_info(off, sz)
             from == ChunkOffset(info, i)
         IN  k \in (from + 1)..(from + ChunkSize(info, i, sz))
  <1> DEFINE q == off \div BlockSize
             r == off % BlockSize
             info == get_file_blocks_info(off, sz)
             num == info.num_blocks
             from == ChunkOffset(info, i)
             len == ChunkSize(info, i, sz)
             before == BytesBefore(info, i)
             bB == (info.start_block + i) * BlockSize
  <1>1. r \in 0..(BlockSize - 1)
    BY Division
  <1>2. /\ i \in Nat /\ from \in 0..(BlockSize - 1) /\ len \in Nat /\ before \in Nat
        /\ bB + from = off + before
    BY ChunkIsInRequest
  <1>3. bB \in Nat /\ bB + k - 1 >= off /\ bB + k - 1 < off + sz
    <2>1. info.start_block \in Nat
      BY InfoTypes
    <2>2. bB \in Nat
      BY <1>2, <2>1, BlockSizeAssumption
    <2> HIDE DEF bB
    <2> QED BY <2>2 DEF bB
  <1>4. info.offset_in_start_block = r
    BY DEF get_file_blocks_info
  <1>5. CASE i = 0
    <2>1. from = r /\ before = 0
      BY <1>4, <1>5 DEF ChunkOffset, BytesBefore
    <2>2. len = sz \/ len = BlockSize - r
      BY <1>4, <1>5 DEF ChunkSize
    <2> HIDE DEF bB, from, before, len, info, r
    <2>3. k \in (from + 1)..(from + len)
      BY <1>1, <1>2, <1>3, <2>1, <2>2, BlockSizeAssumption
    <2> QED BY <2>3 DEF from, len, info
  <1>6. CASE i # 0
    <2>1. from = 0
      BY <1>6 DEF ChunkOffset
    <2>2. num # 1 /\ num \in Nat \ {0}
      BY <1>6, InfoTypes DEF Turns
    <2>3. CASE i = num - 1
      <3> DEFINE s == sz - (BlockSize - r)
                 d == s \div BlockSize
                 m == s % BlockSize
                 uB == (info.start_block + 1 + d) * BlockSize
      <3>1. sz > BlockSize - r
        <4>1. ToInt(BlockSize - (off - ToInt(ToInt(q) * BlockSize))) = BlockSize - r
          BY BytesLeft DEF IsInRange
        <4>2. sz <= BlockSize - r => num = 1
          BY <4>1 DEF get_file_blocks_info
        <4> HIDE DEF num, r
        <4> QED BY <1>1, <2>2, <4>2, BlockSizeAssumption
      <3>2. len = info.bytes_in_end_block
        BY <1>6, <2>2, <2>3 DEF ChunkSize
      <3>3. CASE sz % BlockSize = 0
        <4>1. len = BlockSize
          BY <3>1, <3>2, <3>3, LongRequest
        <4> HIDE DEF len, from
        <4>2. k \in (from + 1)..(from + len)
          BY <2>1, <4>1, BlockSizeAssumption
        <4> QED BY <4>2 DEF from, len
      <3>4. CASE sz % BlockSize # 0
        <4>1. len = m /\ num = 2 + d
          BY <3>1, <3>2, <3>4, LongRequest
        <4>2. /\ d \in Nat /\ m \in 0..(BlockSize - 1) /\ uB \in Nat
              /\ off + sz = uB + m
          BY <3>1, EndOfLongRequest
        <4>3. bB = uB
          <5>1. info.start_block + i = info.start_block + 1 + d
            <6>1. info.start_block \in Nat
              BY InfoTypes
            <6> HIDE DEF d, num, info
            <6>2. i = 1 + d
              BY <2>3, <4>1, <4>2
            <6> QED BY <4>2, <6>1, <6>2
          <5> QED BY <5>1
        <4> HIDE DEF bB, uB, from, len, m, num
        <4>4. k \in (from + 1)..(from + len)
          BY <1>3, <2>1, <4>1, <4>2, <4>3, BlockSizeAssumption
        <4> QED BY <4>4 DEF from, len
      <3> QED BY <3>3, <3>4
    <2>4. CASE i # num - 1
      <3>1. len = BlockSize
        BY <1>6, <2>2, <2>4 DEF ChunkSize
      <3> HIDE DEF from, len
      <3>2. k \in (from + 1)..(from + len)
        BY <2>1, <3>1, BlockSizeAssumption
      <3> QED BY <3>2 DEF from, len
    <2> QED BY <2>3, <2>4
  <1> QED BY <1>5, <1>6

-----------------------------------------------------------------------------
(* The invariant of FileIO.                                                *)

(***************************************************************************)
(* TypeOK is not inductive: that a write stores blocks of bytes of its own *)
(* depends on the request it was given and on the turn it is at, and that  *)
(* st_nlink stays a number on what an unlink has read.                     *)
(***************************************************************************)
IsRequest(th) == <<th.offset, th.size>> \in Writes /\ th.w \in 1..MaxWrites

IsAtTurn(th) == th.i \in Turns(Info(th))

\* The bytes of block b are zero or were written for their position.
Placed(data, b) ==
  \A k \in 1..BlockSize : data[k] = Zero \/ data[k][2] = b * BlockSize + k - 1

ThreadInv(th) ==
  /\ th.pc \in WritePcs => IsRequest(th)
  /\ th.pc \in {"get_block", "set_block"} => IsAtTurn(th)
  /\ th.pc = "set_block" => th.data \in Block /\ Placed(th.data, BlockOf(th))
  /\ th.pc \in {"set_attr", "set_nlink", "delete"} => th.attr \in Attr
  /\ th.pc = "set_nlink" /\ th.old = {} => th.attr.st_nlink > 1

BlocksInv == \A b \in DOMAIN blocks : Placed(blocks[b], b)

IInv ==
  /\ TypeOK
  /\ DOMAIN reader = DOMAIN IdleReader
  /\ \A n \in Names : ThreadInv(thread[n])
  /\ BlocksInv

-----------------------------------------------------------------------------
(* Constants and requests.                                                 *)

\* The bytes a new block and a file without blocks hold.
LEMMA ZeroIsByte == Zero \in Byte /\ NewBlock \in Block
  BY DEF Zero, Byte, NewBlock, Block

\* The file starts without attributes being looked at.
LEMMA IdleIsThread ==
  /\ Idle \in Thread /\ ThreadInv(Idle) /\ Idle.pc = "idle"
  /\ NoAttr \notin Attr
  BY FileAssumption
  DEF Idle, Thread, ThreadInv, WritePcs, NoAttr, Attr

\* What the kernel asks to write.
LEMMA RequestIsInRange ==
  ASSUME NEW th, IsRequest(th)
  PROVE  /\ th.offset \in Nat /\ th.size \in Nat \ {0}
         /\ th.offset + th.size <= MaxLength
         /\ IsInRange(th.offset, th.size)
  BY FileAssumption DEF IsRequest

\* The block info of a write, and the block of its turn.
LEMMA InfoOfRequest ==
  ASSUME NEW th, IsRequest(th)
  PROVE  /\ Info(th).num_blocks \in Nat \ {0} /\ Info(th).start_block \in Nat
         /\ 0 \in Turns(Info(th))
         /\ IsAtTurn(th) => th.i \in Nat /\ BlockOf(th) \in Nat
  <1>1. /\ th.offset \in Nat /\ th.size \in Nat \ {0}
        /\ IsInRange(th.offset, th.size)
    BY RequestIsInRange
  <1>2. Info(th).num_blocks \in Nat \ {0} /\ Info(th).start_block \in Nat
    BY <1>1, InfoTypes DEF Info
  <1> QED BY <1>2 DEF Turns, IsAtTurn, BlockOf

\* What a turn of the loop stores: bytes, each in its place.
LEMMA StoredIsPlaced ==
  ASSUME NEW th, IsRequest(th), IsAtTurn(th), th.data \in Block,
         Placed(th.data, BlockOf(th))
  PROVE  LET data == [k \in 1..BlockSize |->
                        IF k \in Chunk(th) THEN Buffer(th)[InBuffer(th, k)]
                        ELSE th.data[k]]
         IN  data \in Block /\ Placed(data, BlockOf(th))
  <1> DEFINE info == Info(th)
             from == ChunkOffset(info, th.i)
             before == BytesBefore(info, th.i)
             len == ChunkSize(info, th.i, th.size)
             b == BlockOf(th)
             data == [k \in 1..BlockSize |->
                        IF k \in Chunk(th) THEN Buffer(th)[InBuffer(th, k)]
                        ELSE th.data[k]]
  <1>1. /\ th.offset \in Nat /\ th.size \in Nat \ {0}
        /\ th.offset + th.size <= MaxLength /\ IsInRange(th.offset, th.size)
        /\ th.w \in 1..MaxWrites
    BY RequestIsInRange DEF IsRequest
  <1>2. /\ from \in Nat /\ len \in Nat /\ before \in Nat /\ before + len <= th.size
        /\ b * BlockSize + from = th.offset + before
    BY <1>1, ChunkIsInRequest DEF Info, IsAtTurn, BlockOf
  <1>3. b \in Nat /\ b * BlockSize \in Nat
    BY InfoOfRequest, BlockSizeAssumption
  <1>4. ASSUME NEW k \in 1..BlockSize, k \in Chunk(th)
        PROVE  /\ data[k] = <<th.w, b * BlockSize + k - 1>>
               /\ b * BlockSize + k - 1 \in Positions
    <2>1. k \in (from + 1)..(from + len)
      BY <1>4 DEF Chunk
    <2>2. InBuffer(th, k) = before + k - from
      BY DEF InBuffer
    <2> HIDE DEF from, before, len, b, data
    <2>3. /\ before + k - from \in 1..th.size
          /\ th.offset + (before + k - from) - 1 = b * BlockSize + k - 1
      BY <1>1, <1>2, <1>3, <2>1
    <2>4. Buffer(th)[InBuffer(th, k)] = <<th.w, b * BlockSize + k - 1>>
      BY <2>2, <2>3 DEF Buffer
    <2>5. data[k] = Buffer(th)[InBuffer(th, k)]
      BY <1>4 DEF data
    <2>6. b * BlockSize + k - 1 \in 0..(MaxLength - 1)
      BY <1>1, <1>2, <1>3, <2>3, FileAssumption
    <2> QED BY <2>4, <2>5, <2>6 DEF Positions
  <1>5. ASSUME NEW k \in 1..BlockSize
        PROVE  /\ data[k] \in Byte
               /\ data[k] = Zero \/ data[k][2] = b * BlockSize + k - 1
    <2>1. CASE k \in Chunk(th)
      <3> DEFINE pos == b * BlockSize + k - 1
      <3>1. data[k] = <<th.w, pos>> /\ pos \in Positions
        BY <1>4, <2>1
      <3> HIDE DEF data, pos
      <3>2. data[k] \in Byte /\ data[k][2] = pos
        BY <1>1, <3>1 DEF Byte
      <3> QED BY <3>2 DEF pos
    <2>2. CASE k \notin Chunk(th)
      <3>1. data[k] = th.data[k]
        BY <2>2
      <3>2. th.data[k] \in Byte
        BY DEF Block
      <3> QED BY <3>1, <3>2 DEF Placed
    <2> QED BY <2>1, <2>2
  <1> QED BY <1>5 DEF Block, Placed

-----------------------------------------------------------------------------
(* The invariant.                                                          *)

\* One thread goes on, the others stay where they are.
LEMMA OneThreadMoves ==
  ASSUME TypeOK, \A m \in Names : ThreadInv(thread[m]),
         NEW n \in Names, NEW th \in Thread, ThreadInv(th),
         thread' = [thread EXCEPT ![n] = th]
  PROVE  thread' \in [Names -> Thread] /\ \A m \in Names : ThreadInv(thread'[m])
  BY DEF TypeOK

\* The process ends, in whatever state memcached is.
LEMMA DieInv ==
  ASSUME IInv, Die, UNCHANGED <<store, writes, faults>>, crashes' \in 0..MaxCrashes
  PROVE  IInv'
  <1>1. /\ thread' \in [Names -> Thread] /\ \A n \in Names : ThreadInv(thread'[n])
        /\ reader' = IdleReader /\ reader'.pc = "idle"
        /\ up' \in BOOLEAN /\ torn' \in BOOLEAN /\ overtaken' \in BOOLEAN
    BY IdleIsThread DEF Die, IInv, TypeOK, IdleReader
  <1> QED BY <1>1 DEF IInv, TypeOK, BlocksInv, store

\* At the beginning the file is empty and nobody is at work.
LEMMA InitInv == Init => IInv
  <1> SUFFICES ASSUME Init PROVE IInv
    OBVIOUS
  <1>1. /\ attr \in Attr
        /\ writes \in 0..MaxWrites /\ crashes \in 0..MaxCrashes /\ faults \in 0..MaxFaults
    <2>1. Cardinality(Names) \in Nat
      BY FileAssumption, FS_CardinalityType
    <2> QED BY <2>1, FileAssumption DEF Init, Attr
  <1>2. thread \in [Names -> Thread] /\ \A n \in Names : ThreadInv(thread[n])
    BY IdleIsThread DEF Init
  <1>3. reader = IdleReader /\ reader.pc = "idle" /\ DOMAIN blocks = {}
    BY DEF Init, IdleReader
  <1> QED BY <1>1, <1>2, <1>3 DEF Init, IInv, TypeOK, BlocksInv

\* memcached_write gets its request.
LEMMA WriteInv ==
  ASSUME IInv, NEW n \in Names, memcached_write(n)
  PROVE  IInv'
  <1>1. PICK w \in Writes :
          thread' = [thread EXCEPT ![n] =
            [Idle EXCEPT !.pc = "get_block", !.w = writes + 1,
                         !.offset = w[1], !.size = w[2]]]
    BY DEF memcached_write
  <1> DEFINE th == [Idle EXCEPT !.pc = "get_block", !.w = writes + 1,
                                !.offset = w[1], !.size = w[2]]
  <1>2. /\ w = <<w[1], w[2]>> /\ w[1] \in Nat /\ w[2] \in Nat
        /\ writes + 1 \in 1..MaxWrites /\ writes' = writes + 1
    BY FileAssumption DEF memcached_write, IInv, TypeOK
  <1>3. /\ th.pc = "get_block" /\ th.w = writes + 1 /\ th.offset = w[1]
        /\ th.size = w[2] /\ th.i = 0 /\ th \in Thread
    <2>1. Idle \in Thread /\ Idle.i = 0
      BY IdleIsThread DEF Idle
    <2>2. writes + 1 \in 0..MaxWrites
      BY <1>2, FileAssumption
    <2> QED BY <1>2, <2>1, <2>2 DEF Thread, WritePcs
  <1>4. IsRequest(th)
    BY <1>2, <1>3 DEF IsRequest
  <1>5. ThreadInv(th)
    <2> HIDE DEF th
    <2>1. IsAtTurn(th)
      BY <1>3, <1>4, InfoOfRequest DEF IsAtTurn
    <2> QED BY <1>3, <1>4, <2>1 DEF ThreadInv
  <1>6. thread' \in [Names -> Thread] /\ \A m \in Names : ThreadInv(thread'[m])
    <2> HIDE DEF th
    <2> QED BY <1>1, <1>3, <1>5, OneThreadMoves DEF IInv, th
  <1>7. UNCHANGED <<blocks, attr, names, up, reader, torn, overtaken, crashes, faults>>
    BY DEF memcached_write, store
  <1>8. writes' \in 0..MaxWrites
    BY <1>2, FileAssumption
  <1> QED BY <1>6, <1>7, <1>8 DEF IInv, TypeOK, BlocksInv

\* What a write or an unlink keeps is the request and the turn.
LEMMA ThreadFacts ==
  ASSUME IInv, NEW n \in Names
  PROVE  /\ thread \in [Names -> Thread] /\ thread[n] \in Thread
         /\ ThreadInv(thread[n])
         /\ \A m \in Names : ThreadInv(thread[m])
         /\ attr \in Attr \cup {NoAttr}
         /\ \A b \in DOMAIN blocks : b \in Nat /\ blocks[b] \in Block /\ Placed(blocks[b], b)
  BY DEF IInv, TypeOK, BlocksInv

\* The block of the turn is read, or zeros for one that is not there.
LEMMA GetBlockInv ==
  ASSUME IInv, NEW n \in Names, GetBlock(n)
  PROVE  IInv'
  <1> DEFINE old == thread[n]
             data == memcached_get(BlockOf(old))
             th == [old EXCEPT !.pc = "set_block", !.data = data]
  <1>1. old \in Thread /\ ThreadInv(old) /\ old.pc = "get_block"
    BY ThreadFacts DEF GetBlock, At
  <1>2. IsRequest(old) /\ IsAtTurn(old)
    BY <1>1 DEF ThreadInv, WritePcs
  <1>3. data \in Block /\ Placed(data, BlockOf(old))
    <2>1. CASE BlockOf(old) \in DOMAIN blocks
      BY <2>1, ThreadFacts DEF memcached_get
    <2>2. CASE BlockOf(old) \notin DOMAIN blocks
      <3>1. data = NewBlock
        BY <2>2 DEF memcached_get
      <3>2. Placed(NewBlock, BlockOf(old))
        BY DEF Placed, NewBlock
      <3> QED BY <3>1, <3>2, ZeroIsByte
    <2> QED BY <2>1, <2>2
  <1> HIDE DEF data
  <1>4. /\ th \in Thread /\ th.pc = "set_block" /\ th.data = data
        /\ th.offset = old.offset /\ th.size = old.size /\ th.w = old.w /\ th.i = old.i
    BY <1>1, <1>3 DEF Thread, WritePcs
  <1>5. thread' = [thread EXCEPT ![n] = th]
    BY ThreadFacts DEF GetBlock, data
  <1> HIDE DEF th
  <1>6. ThreadInv(th)
    <2>1. Info(th) = Info(old) /\ BlockOf(th) = BlockOf(old)
      BY <1>4 DEF Info, BlockOf
    <2>2. IsRequest(th) /\ IsAtTurn(th)
      BY <1>2, <1>4, <2>1 DEF IsRequest, IsAtTurn
    <2> QED BY <1>3, <1>4, <2>1, <2>2 DEF ThreadInv
  <1>7. thread' \in [Names -> Thread] /\ \A m \in Names : ThreadInv(thread'[m])
    BY <1>4, <1>5, <1>6, OneThreadMoves DEF IInv
  <1> QED BY <1>7 DEF GetBlock, IInv, TypeOK, BlocksInv, store, bounds

\* The block of the turn is stored.
LEMMA SetBlockInv ==
  ASSUME IInv, NEW n \in Names, SetBlock(n)
  PROVE  IInv'
  <1> DEFINE old == thread[n]
             b == BlockOf(old)
             data == [k \in 1..BlockSize |-> IF k \in Chunk(old)
                                             THEN Buffer(old)[InBuffer(old, k)]
                                             ELSE old.data[k]]
             th == IF IsLastTurn(old) THEN [old EXCEPT !.pc = "get_attr", !.data = <<>>]
                   ELSE [old EXCEPT !.pc = "get_block", !.data = <<>>, !.i = @ + 1]
  <1>1. old \in Thread /\ ThreadInv(old) /\ old.pc = "set_block"
    BY ThreadFacts DEF SetBlock, At
  <1>2. /\ IsRequest(old) /\ IsAtTurn(old)
        /\ old.data \in Block /\ Placed(old.data, b)
    BY <1>1 DEF ThreadInv, WritePcs
  <1>3. data \in Block /\ Placed(data, b)
    BY <1>2, StoredIsPlaced
  <1>4. b \in Nat /\ old.i \in Nat /\ Info(old).num_blocks \in Nat
    BY <1>2, InfoOfRequest
  <1>5. /\ blocks' = [c \in DOMAIN blocks \cup {b} |-> IF c = b THEN data ELSE blocks[c]]
        /\ thread' = [thread EXCEPT ![n] = th]
    BY DEF SetBlock, memcached_set
  <1> HIDE DEF data
  <1>6. \A c \in DOMAIN blocks' :
          c \in Nat /\ blocks'[c] \in Block /\ Placed(blocks'[c], c)
    <2> HIDE DEF b
    <2> QED BY <1>3, <1>4, <1>5, ThreadFacts
  <1>7. th \in Thread /\ ThreadInv(th)
    <2>1. CASE IsLastTurn(old)
      <3>1. /\ th \in Thread /\ th.pc = "get_attr"
            /\ th.offset = old.offset /\ th.size = old.size /\ th.w = old.w
        BY <1>1, <2>1 DEF Thread, WritePcs
      <3> HIDE DEF th
      <3>2. IsRequest(th)
        BY <1>2, <3>1 DEF IsRequest
      <3> QED BY <3>1, <3>2 DEF ThreadInv
    <2>2. CASE ~ IsLastTurn(old)
      <3> DEFINE next == old.i + 1
      <3>1. th = [old EXCEPT !.pc = "get_block", !.data = <<>>, !.i = next] /\ next \in Nat
        BY <1>4, <2>2
      <3> HIDE DEF th, old, next
      <3>2. /\ th \in Thread /\ th.pc = "get_block" /\ th.i = next
            /\ th.offset = old.offset /\ th.size = old.size /\ th.w = old.w
        BY <1>1, <3>1 DEF Thread, WritePcs
      <3>3. IsRequest(th) /\ Info(th) = Info(old)
        BY <1>2, <3>2 DEF IsRequest, Info
      <3>4. next \in Turns(Info(old))
        BY <1>2, <1>4, <2>2 DEF IsLastTurn, IsAtTurn, Turns, next
      <3>5. IsAtTurn(th)
        BY <3>2, <3>3, <3>4 DEF IsAtTurn
      <3> QED BY <3>2, <3>3, <3>5 DEF ThreadInv
    <2> QED BY <2>1, <2>2
  <1> HIDE DEF th
  <1>8. thread' \in [Names -> Thread] /\ \A m \in Names : ThreadInv(thread'[m])
    BY <1>5, <1>7, OneThreadMoves DEF IInv
  <1>9. UNCHANGED <<attr, names, up, reader, torn, overtaken, writes, crashes, faults>>
    BY DEF SetBlock, bounds
  <1> QED BY <1>6, <1>8, <1>9 DEF IInv, TypeOK, BlocksInv

\* A NULL pointer ends the process.
LEMMA SegfaultInv ==
  ASSUME IInv, Segfault
  PROVE  IInv'
  <1>1. Die /\ UNCHANGED <<store, writes, faults>> /\ crashes' \in 0..MaxCrashes
    BY DEF Segfault, bounds, IInv, TypeOK
  <1> QED BY <1>1, DieInv

\* A thread goes on with a step that leaves memcached as it is.
LEMMA ThreadStepInv ==
  ASSUME IInv, NEW n \in Names, NEW th \in Thread, ThreadInv(th),
         thread' = [thread EXCEPT ![n] = th],
         names' \subseteq Names, attr' \in Attr \cup {NoAttr},
         UNCHANGED <<blocks, up, reader, torn, bounds>>, overtaken' \in BOOLEAN
  PROVE  IInv'
  <1>1. thread' \in [Names -> Thread] /\ \A m \in Names : ThreadInv(thread'[m])
    BY OneThreadMoves DEF IInv
  <1> QED BY <1>1 DEF IInv, TypeOK, BlocksInv, bounds

\* A handler that returns.
LEMMA ReturnInv ==
  ASSUME IInv, NEW n \in Names, Return(n),
         names' \subseteq Names, attr' \in Attr \cup {NoAttr},
         UNCHANGED <<blocks, up, reader, torn, bounds>>, overtaken' \in BOOLEAN
  PROVE  IInv'
  BY IdleIsThread, ThreadStepInv DEF Return

\* The end of a write: the attributes are read.
LEMMA GetAttrInv ==
  ASSUME IInv, NEW n \in Names, GetAttr(n)
  PROVE  IInv'
  <1> DEFINE old == thread[n]
             th == [old EXCEPT !.pc = "set_attr", !.attr = attr]
  <1>1. old \in Thread /\ ThreadInv(old) /\ old.pc = "get_attr"
    BY ThreadFacts DEF GetAttr, At
  <1>2. CASE attr = NoAttr
    BY <1>2, SegfaultInv DEF GetAttr
  <1>3. CASE attr # NoAttr
    <2>1. attr \in Attr
      BY <1>3, ThreadFacts
    <2>2. /\ th \in Thread /\ th.pc = "set_attr" /\ th.attr = attr
          /\ th.offset = old.offset /\ th.size = old.size /\ th.w = old.w
      BY <1>1, <2>1 DEF Thread, WritePcs
    <2>3. /\ thread' = [thread EXCEPT ![n] = th]
          /\ UNCHANGED <<store, up, reader, seen, torn, overtaken, bounds>>
      BY <1>3, ThreadFacts DEF GetAttr
    <2>4. IsRequest(old)
      BY <1>1 DEF ThreadInv, WritePcs
    <2> HIDE DEF th
    <2>5. ThreadInv(th)
      BY <2>1, <2>2, <2>4 DEF ThreadInv, IsRequest
    <2> QED BY <2>2, <2>3, <2>5, ThreadStepInv DEF store, IInv, TypeOK
  <1> QED BY <1>2, <1>3

\* The end of a write: the attributes are stored.
LEMMA SetAttrInv ==
  ASSUME IInv, NEW n \in Names, SetAttr(n)
  PROVE  IInv'
  <1> DEFINE th == thread[n]
             end == th.offset + th.size
             num == Info(th).num_blocks
  <1>1. th.attr \in Attr /\ IsRequest(th)
    BY ThreadFacts DEF SetAttr, At, ThreadInv, WritePcs
  <1>2. num \in Nat /\ end \in 0..MaxLength
    BY <1>1, InfoOfRequest, RequestIsInRange, FileAssumption
  <1>3. attr' = [th.attr EXCEPT !.st_blocks = num,
                                !.st_size = IF end > @ THEN end ELSE @]
    BY DEF SetAttr
  <1> HIDE DEF num, end, th
  <1>4. attr' \in Attr
    BY <1>1, <1>2, <1>3 DEF Attr
  <1> QED BY <1>4, ReturnInv DEF SetAttr, IInv, TypeOK

\* An unlink takes its name off and reads the attributes.
LEMMA UnlinkInv ==
  ASSUME IInv, NEW n \in Names, memcached_unlink(n)
  PROVE  IInv'
  <1>1. names' \subseteq Names /\ UNCHANGED <<blocks, attr, bounds>>
    BY DEF memcached_unlink, IInv, TypeOK
  <1>2. CASE attr = NoAttr
    <2>1. /\ Die /\ writes' \in 0..MaxWrites
          /\ crashes' \in 0..MaxCrashes /\ faults' \in 0..MaxFaults
      BY <1>1, <1>2 DEF memcached_unlink, bounds, IInv, TypeOK
    <2>2. /\ thread' \in [Names -> Thread] /\ \A m \in Names : ThreadInv(thread'[m])
          /\ reader' = IdleReader /\ reader'.pc = "idle"
          /\ up' \in BOOLEAN /\ torn' \in BOOLEAN /\ overtaken' \in BOOLEAN
      BY <2>1, IdleIsThread DEF Die, IInv, TypeOK, IdleReader
    <2> QED BY <1>1, <2>1, <2>2 DEF IInv, TypeOK, BlocksInv
  <1>3. CASE attr # NoAttr
    <2> DEFINE pc == IF HasOtherName(attr) THEN "set_nlink" ELSE "delete"
               th == [Idle EXCEPT !.attr = attr, !.pc = pc]
    <2>1. attr \in Attr /\ Idle \in Thread
      BY <1>3, ThreadFacts, IdleIsThread
    <2>2. pc \in {"set_nlink", "delete"} /\ (pc = "set_nlink" => attr.st_nlink > 1)
      BY DEF HasOtherName
    <2>3. /\ thread' = [thread EXCEPT ![n] = th]
          /\ UNCHANGED <<up, reader, seen, torn, overtaken>>
      BY <1>3 DEF memcached_unlink
    <2> HIDE DEF pc
    <2>4. th \in Thread /\ th.pc = pc /\ th.attr = attr
      BY <2>1, <2>2 DEF Thread
    <2> HIDE DEF th
    <2>5. ThreadInv(th)
      BY <2>1, <2>2, <2>4 DEF ThreadInv, WritePcs
    <2> QED BY <1>1, <2>3, <2>4, <2>5, ThreadStepInv DEF IInv, TypeOK
  <1> QED BY <1>2, <1>3

\* The blocks of the last write go, then the inode.
LEMMA DeleteInv ==
  ASSUME IInv, NEW n \in Names, DeleteBlock(n) \/ DeleteInode(n)
  PROVE  IInv'
  <1>1. CASE DeleteBlock(n)
    <2>1. \A b \in DOMAIN blocks' :
            b \in Nat /\ blocks'[b] \in Block /\ Placed(blocks'[b], b)
      BY <1>1, ThreadFacts DEF DeleteBlock
    <2>2. PICK old : old = thread[n]
      OBVIOUS
    <2>3. PICK th : th = [old EXCEPT !.i = @ + 1]
      OBVIOUS
    <2>4. old \in Thread /\ old.pc = "delete" /\ old.attr \in Attr
      BY <1>1, <2>2, ThreadFacts DEF DeleteBlock, At, ThreadInv
    <2>5. thread' = [thread EXCEPT ![n] = th]
      BY <1>1, <2>2, <2>3, <2>4 DEF DeleteBlock, Thread, IInv, TypeOK
    <2>6. th \in Thread /\ th.pc = "delete" /\ th.attr = old.attr
      BY <2>3, <2>4 DEF Thread
    <2>7. ThreadInv(th)
      BY <2>4, <2>6 DEF ThreadInv, WritePcs
    <2>8. thread' \in [Names -> Thread] /\ \A m \in Names : ThreadInv(thread'[m])
      BY <2>5, <2>6, <2>7, OneThreadMoves DEF IInv
    <2> QED BY <1>1, <2>1, <2>8 DEF DeleteBlock, IInv, TypeOK, BlocksInv, bounds
  <1>2. CASE DeleteInode(n)
    BY <1>2, ReturnInv DEF DeleteInode, IInv, TypeOK
  <1> QED BY <1>1, <1>2

\* A link reads the attributes through the name it starts from.
LEMMA LinkInv ==
  ASSUME IInv, NEW n \in Names, NEW old \in Names, memcached_link(old, n)
  PROVE  IInv'
  <1> DEFINE th == [Idle EXCEPT !.pc = "set_nlink", !.old = {old}, !.attr = attr]
  <1>1. CASE attr = NoAttr
    BY <1>1, SegfaultInv DEF memcached_link
  <1>2. CASE attr # NoAttr
    <2>1. attr \in Attr /\ Idle \in Thread
      BY <1>2, ThreadFacts, IdleIsThread
    <2>2. /\ thread' = [thread EXCEPT ![n] = th]
          /\ UNCHANGED <<store, up, reader, seen, torn, overtaken, bounds>>
      BY <1>2 DEF memcached_link
    <2>3. th \in Thread /\ th.pc = "set_nlink" /\ th.attr = attr /\ th.old = {old}
      BY <2>1 DEF Thread
    <2> HIDE DEF th
    <2>4. ThreadInv(th)
      BY <2>1, <2>3 DEF ThreadInv, WritePcs
    <2> QED BY <2>2, <2>3, <2>4, ThreadStepInv DEF store, IInv, TypeOK
  <1> QED BY <1>1, <1>2

\* The changed link count is stored.
LEMMA SetNlinkInv ==
  ASSUME IInv, NEW n \in Names, SetNlink(n)
  PROVE  IInv'
  <1> DEFINE old == thread[n]
             count == IF old.old = {} THEN old.attr.st_nlink - 1 ELSE old.attr.st_nlink + 1
  <1>1. old \in Thread /\ old.attr \in Attr /\ (old.old = {} => old.attr.st_nlink > 1)
    BY ThreadFacts DEF SetNlink, At, ThreadInv
  <1>2. attr' = [old.attr EXCEPT !.st_nlink = count]
    BY <1>1 DEF SetNlink, Attr
  <1>3. count \in Nat
    BY <1>1 DEF Attr
  <1>4. attr' \in Attr
    <2> HIDE DEF count, old
    <2> QED BY <1>1, <1>2, <1>3 DEF Attr
  <1>5. UNCHANGED <<blocks, names, up, reader, torn, bounds>> /\ overtaken' \in BOOLEAN
    BY DEF SetNlink
  <1>6. CASE old.old = {}
    BY <1>4, <1>5, <1>6, ReturnInv DEF SetNlink, IInv, TypeOK
  <1>7. CASE old.old # {}
    <2> DEFINE th == [old EXCEPT !.pc = "add_name"]
    <2>1. th \in Thread /\ th.pc = "add_name"
      BY <1>1 DEF Thread
    <2>2. thread' = [thread EXCEPT ![n] = th]
      BY <1>7, ThreadFacts DEF SetNlink, Goto
    <2> HIDE DEF th
    <2>3. ThreadInv(th)
      BY <2>1 DEF ThreadInv, WritePcs
    <2> QED BY <1>4, <1>5, <2>1, <2>2, <2>3, ThreadStepInv DEF IInv, TypeOK
  <1> QED BY <1>6, <1>7

\* The new name is stored.
LEMMA AddNameInv ==
  ASSUME IInv, NEW n \in Names, AddName(n)
  PROVE  IInv'
  BY ReturnInv DEF AddName, IInv, TypeOK

\* A read changes nothing but where it is.
LEMMA ReaderInv ==
  ASSUME IInv,
         \/ \E n \in Names : memcached_read(n)
         \/ ReadAttr \/ ReadBlock \/ ReturnRead
  PROVE  IInv'
  <1> DEFINE Pcs == {"idle", "get_attr", "get_block", "return"}
             IsReader(r) == DOMAIN r = DOMAIN IdleReader /\ r.pc \in Pcs
  <1> SUFFICES ASSUME ~ Segfault
               PROVE  IInv'
    BY SegfaultInv
  <1>1. IsReader(reader) /\ "pc" \in DOMAIN reader
    BY DEF IInv, TypeOK, IdleReader
  <1>2. IsReader(IdleReader)
    BY DEF IdleReader
  <1>3. IsReader(reader') /\ UNCHANGED <<store, up, thread, torn, overtaken, bounds>>
    <2>1. CASE \E n \in Names : memcached_read(n)
      BY <2>1 DEF memcached_read, IdleReader
    <2>2. CASE ReadAttr
      BY <1>1, <1>2, <2>2 DEF ReadAttr
    <2>3. CASE ReadBlock
      BY <1>1, <2>3 DEF ReadBlock
    <2>4. CASE ReturnRead
      BY <1>2, <2>4 DEF ReturnRead
    <2> QED BY <2>1, <2>2, <2>3, <2>4
  <1> QED BY <1>3 DEF IInv, TypeOK, BlocksInv, store, bounds

\* A mount, a kill, and a key that memcached drops.
LEMMA WorldInv ==
  ASSUME IInv,
         \/ memcached_init \/ Crash \/ Evict
         \/ \E n \in Names : OverrunHeap(n)
  PROVE  IInv'
  <1>1. CASE memcached_init
    BY <1>1 DEF memcached_init, IInv, TypeOK, BlocksInv, store, bounds
  <1>2. CASE Crash \/ \E n \in Names : OverrunHeap(n)
    <2>1. Die /\ UNCHANGED <<store, writes, faults>> /\ crashes' \in 0..MaxCrashes
      BY <1>2, FileAssumption DEF Crash, OverrunHeap, IInv, TypeOK
    <2> QED BY <2>1, DieInv
  <1>3. CASE Evict
    <2>1. \A b \in DOMAIN blocks' :
            b \in Nat /\ blocks'[b] \in Block /\ Placed(blocks'[b], b)
      BY <1>3, ThreadFacts DEF Evict, IInv, TypeOK, BlocksInv
    <2>2. attr' \in Attr \cup {NoAttr} /\ faults' \in 0..MaxFaults
      BY <1>3, FileAssumption DEF Evict, IInv, TypeOK
    <2> QED BY <1>3, <2>1, <2>2 DEF Evict, IInv, TypeOK, BlocksInv
  <1> QED BY <1>1, <1>2, <1>3

\* Every step keeps the invariant.
LEMMA NextInv ==
  ASSUME IInv, [Next]_vars
  PROVE  IInv'
  <1>1. CASE UNCHANGED vars
    BY <1>1 DEF vars, store, bounds, IInv, TypeOK, BlocksInv
  <1>2. ASSUME NEW n \in Names,
               \/ memcached_write(n) \/ GetBlock(n) \/ SetBlock(n)
               \/ GetAttr(n) \/ SetAttr(n)
        PROVE  IInv'
    BY <1>2, WriteInv, GetBlockInv, SetBlockInv, GetAttrInv, SetAttrInv
  <1>3. ASSUME NEW n \in Names,
               \/ memcached_unlink(n) \/ DeleteBlock(n) \/ DeleteInode(n)
               \/ SetNlink(n) \/ AddName(n)
               \/ \E old \in Names : memcached_link(old, n)
        PROVE  IInv'
    BY <1>3, UnlinkInv, DeleteInv, SetNlinkInv, AddNameInv, LinkInv
  <1> QED BY <1>1, <1>2, <1>3, ReaderInv, WorldInv DEF Next

-----------------------------------------------------------------------------
(* The results.                                                            *)

\* The inductive invariant holds in every state.
LEMMA InductiveInvariant == Spec => []IInv
  <1>1. Init => IInv
    BY InitInv
  <1>2. IInv /\ [Next]_vars => IInv'
    BY NextInv
  <1> QED BY <1>1, <1>2, PTL DEF Spec

\* The attributes, the blocks and the threads have their types: an unlink never
\* makes a link count negative and the file never gets longer than a write ends.
THEOREM TypeCorrect == Spec => []TypeOK
  <1>1. IInv => TypeOK
    BY DEF IInv
  <1> QED BY <1>1, InductiveInvariant, PTL

\* Any number of writers at once, dropped blocks and kills may lose bytes, but
\* each byte of the file is zero or was written for its position, also beyond
\* the offset from which start_block * block_size overflows.
THEOREM BytesStayInPlace == Spec => []BytesAreInPlace
  <1>1. IInv => BytesAreInPlace
    <2> SUFFICES ASSUME IInv, NEW p \in Positions
                 PROVE  Contents(blocks)[p] = Zero \/ Contents(blocks)[p][2] = p
      BY DEF BytesAreInPlace
    <2> DEFINE b == p \div BlockSize
               k == (p % BlockSize) + 1
    <2>1. p \in Nat
      BY FileAssumption DEF Positions
    <2>2. /\ k \in 1..BlockSize /\ b \in Nat /\ b * BlockSize \in Nat
          /\ b * BlockSize + k - 1 = p
      BY <2>1, Division, BlockSizeAssumption
    <2>3. Contents(blocks)[p] = IF b \in DOMAIN blocks THEN blocks[b][k] ELSE Zero
      BY DEF Contents
    <2> HIDE DEF b, k
    <2>4. b \in DOMAIN blocks => Placed(blocks[b], b)
      BY DEF IInv, BlocksInv
    <2> QED BY <2>2, <2>3, <2>4 DEF Placed
  <1> QED BY <1>1, InductiveInvariant, PTL

-----------------------------------------------------------------------------
(* What lies beyond the end of a file with one name.                       *)

SingleName == \A m, n \in Names : m = n

\* Without a second name there is nothing to link, and an unlink deletes.
LifeInv ==
  \A n \in Names :
    /\ thread[n].pc # "add_name" /\ thread[n].old = {}
    /\ thread[n].pc \in {"set_nlink", "delete"} => names = {}

\* Position p is beyond the end that attributes a give, and beyond the write.
IsBeyond(a, n, p) ==
  /\ a # NoAttr /\ p >= a.st_size
  /\ IsWriting(n) => p >= thread[n].offset + thread[n].size

ZeroAt(p) == Contents(blocks)[p] = Zero

(***************************************************************************)
(* ZeroBeyondEnd is not inductive: it says nothing while a write runs.     *)
(* Until then the file is zero beyond its end and the end of the write; so *)
(* are the block the write has read and, once the attributes are read, the *)
(* file beyond the end that they will be stored with.                      *)
(***************************************************************************)
GapInv ==
  names # {} /\ ~ torn =>
    \A n \in Names, p \in Positions :
      /\ IsBeyond(attr, n, p) => ZeroAt(p)
      /\ At(n, "set_block") /\ IsBeyond(attr, n, p) /\ p \div BlockSize = BlockOf(thread[n]) =>
           thread[n].data[(p % BlockSize) + 1] = Zero
      /\ At(n, "set_attr") /\ IsBeyond(thread[n].attr, n, p) => ZeroAt(p)

EndInv == IInv /\ LifeInv /\ GapInv

\* Where a position is in its block.
LEMMA PlaceInBlock ==
  ASSUME NEW p \in Positions
  PROVE  LET b == p \div BlockSize
             k == (p % BlockSize) + 1
         IN  /\ p \in Nat /\ b \in Nat /\ k \in 1..BlockSize
             /\ b * BlockSize \in Nat /\ b * BlockSize + k - 1 = p
             /\ \A blks : Contents(blks)[p] = IF b \in DOMAIN blks THEN blks[b][k] ELSE Zero
  <1>1. p \in Nat
    BY FileAssumption DEF Positions
  <1>2. /\ p \div BlockSize \in Nat /\ p % BlockSize \in 0..(BlockSize - 1)
        /\ p = (p \div BlockSize) * BlockSize + (p % BlockSize)
    BY <1>1, Division
  <1>3. (p \div BlockSize) * BlockSize \in Nat
    BY <1>2, BlockSizeAssumption
  <1>4. \A blks : Contents(blks)[p] =
          IF p \div BlockSize \in DOMAIN blks
          THEN blks[p \div BlockSize][(p % BlockSize) + 1] ELSE Zero
    BY DEF Contents
  <1>5. /\ (p % BlockSize) + 1 \in 1..BlockSize
        /\ (p \div BlockSize) * BlockSize + ((p % BlockSize) + 1) - 1 = p
    <2> DEFINE q == (p \div BlockSize) * BlockSize
               r == p % BlockSize
    <2>1. q \in Nat /\ r \in 0..(BlockSize - 1) /\ p = q + r
      BY <1>2, <1>3
    <2> HIDE DEF q, r
    <2>2. r + 1 \in 1..BlockSize /\ q + (r + 1) - 1 = p
      BY <1>1, <2>1, BlockSizeAssumption
    <2> QED BY <2>2 DEF q, r
  <1> QED BY <1>1, <1>2, <1>3, <1>4, <1>5, Zenon

\* What a turn stores beyond the end of its write is what it read there.
LEMMA ChunkEndsWithWrite ==
  ASSUME NEW th, IsRequest(th), IsAtTurn(th), NEW p \in Positions,
         p \div BlockSize = BlockOf(th), p >= th.offset + th.size
  PROVE  (p % BlockSize) + 1 \notin Chunk(th)
  <1> DEFINE info == Info(th)
             from == ChunkOffset(info, th.i)
             before == BytesBefore(info, th.i)
             len == ChunkSize(info, th.i, th.size)
             b == BlockOf(th)
             k == (p % BlockSize) + 1
  <1>1. /\ th.offset \in Nat /\ th.size \in Nat \ {0} /\ IsInRange(th.offset, th.size)
    BY RequestIsInRange
  <1>2. /\ from \in Nat /\ len \in Nat /\ before \in Nat /\ before + len <= th.size
        /\ b * BlockSize + from = th.offset + before
    BY <1>1, ChunkIsInRequest DEF Info, IsAtTurn, BlockOf
  <1>3. k \in 1..BlockSize /\ b * BlockSize \in Nat /\ b * BlockSize + k - 1 = p
    BY PlaceInBlock
  <1>4. ~ (k \in (from + 1)..(from + len))
    <2> HIDE DEF from, before, len, b, k
    <2> QED BY <1>1, <1>2, <1>3
  <1> QED BY <1>4 DEF Chunk

\* At the beginning there is no gap.
LEMMA InitEnd == Init => LifeInv /\ GapInv
  <1>1. Init => LifeInv
    BY DEF Init, LifeInv, Idle
  <1>2. ASSUME Init PROVE \A p \in Positions : ZeroAt(p)
    BY <1>2, PlaceInBlock DEF Init, ZeroAt
  <1>3. Init => \A n \in Names : thread[n].pc = "idle"
    BY DEF Init, Idle
  <1>4. Init => GapInv
    BY <1>2, <1>3 DEF GapInv, At
  <1> QED BY <1>1, <1>4

\* A process that did not die in a write leaves the file as it was between writes.
LEMMA DieEnd ==
  ASSUME EndInv, Die, UNCHANGED store
  PROVE  LifeInv' /\ GapInv'
  <1>1. /\ \A n \in Names : thread'[n] = Idle
        /\ ~ torn' => ~ torn /\ \A n \in Names : ~ IsWriting(n)
        /\ UNCHANGED <<blocks, attr, names>>
    BY DEF Die, store, EndInv, IInv, TypeOK
  <1>2. LifeInv'
    BY <1>1 DEF LifeInv, Idle
  <1>3. GapInv'
    BY <1>1 DEF EndInv, GapInv, IsBeyond, ZeroAt, At, Idle, IsWriting
  <1> QED BY <1>2, <1>3

\* The steps that write no block.
LEMMA WriteEnd ==
  ASSUME SingleName, EndInv, NEW n \in Names, memcached_write(n)
  PROVE  LifeInv' /\ GapInv'
  <1>1. PICK th \in Thread :
          /\ th.pc = "get_block" /\ th.old = {}
          /\ thread' = [thread EXCEPT ![n] = th]
    <2>1. PICK w \in Writes :
            thread' = [thread EXCEPT ![n] =
              [Idle EXCEPT !.pc = "get_block", !.w = writes + 1,
                           !.offset = w[1], !.size = w[2]]]
      BY DEF memcached_write
    <2>2. /\ Idle \in Thread /\ Idle.old = {} /\ w[1] \in Nat /\ w[2] \in Nat
          /\ writes + 1 \in 0..MaxWrites
      BY FileAssumption, IdleIsThread DEF Idle, memcached_write, EndInv, IInv, TypeOK
    <2> DEFINE th == [Idle EXCEPT !.pc = "get_block", !.w = writes + 1,
                                  !.offset = w[1], !.size = w[2]]
    <2>3. th \in Thread /\ th.pc = "get_block" /\ th.old = {}
      BY <2>2 DEF Thread, WritePcs
    <2> QED BY <2>1, <2>3
  <1>2. thread'[n] = th /\ thread[n].pc = "idle" /\ \A m \in Names : m = n
    BY <1>1 DEF memcached_write, IsFree, At, SingleName, EndInv, IInv, TypeOK
  <1>3. UNCHANGED <<blocks, attr, names, torn, overtaken>>
    BY DEF memcached_write, store
  <1>4. LifeInv'
    BY <1>1, <1>2 DEF LifeInv
  <1>5. GapInv'
    BY <1>1, <1>2, <1>3 DEF EndInv, GapInv, IsBeyond, ZeroAt, At, IsWriting, WritePcs
  <1> QED BY <1>4, <1>5

\* A copy of a block has the zeros of the block.
LEMMA GetBlockEnd ==
  ASSUME SingleName, EndInv, NEW n \in Names, GetBlock(n)
  PROVE  LifeInv' /\ GapInv'
  <1> DEFINE old == thread[n]
             data == memcached_get(BlockOf(old))
  <1>1. old \in Thread /\ thread \in [Names -> Thread] /\ old.pc = "get_block"
    BY ThreadFacts DEF GetBlock, At, EndInv
  <1>2. /\ thread'[n].pc = "set_block" /\ thread'[n].data = data /\ thread'[n].old = old.old
        /\ thread'[n].offset = old.offset /\ thread'[n].size = old.size /\ thread'[n].i = old.i
        /\ \A m \in Names : m = n
    BY <1>1 DEF GetBlock, Thread, SingleName
  <1>3. UNCHANGED <<blocks, attr, names, torn, overtaken>>
    BY DEF GetBlock, store
  <1>4. ASSUME NEW p \in Positions, p \div BlockSize = BlockOf(old), ZeroAt(p)
        PROVE  data[(p % BlockSize) + 1] = Zero
    <2>1. (p % BlockSize) + 1 \in 1..BlockSize
      BY PlaceInBlock
    <2>2. CASE BlockOf(old) \in DOMAIN blocks
      BY <1>4, <2>2, PlaceInBlock DEF ZeroAt, memcached_get
    <2>3. CASE BlockOf(old) \notin DOMAIN blocks
      BY <2>1, <2>3 DEF memcached_get, NewBlock
    <2> QED BY <2>2, <2>3
  <1>5. LifeInv'
    BY <1>1, <1>2 DEF LifeInv, EndInv
  <1>6. BlockOf(thread'[n]) = BlockOf(old)
    BY <1>2 DEF BlockOf, Info
  <1> HIDE DEF data
  <1>7. ASSUME names # {}, ~ torn, NEW p \in Positions, IsBeyond(attr, n, p)'
        PROVE  IsBeyond(attr, n, p) /\ ZeroAt(p)
    <2>1. IsBeyond(attr, n, p)
      BY <1>1, <1>2, <1>3, <1>7 DEF IsBeyond, IsWriting, WritePcs
    <2> QED BY <1>7, <2>1 DEF EndInv, GapInv
  <1>8. \A p : ZeroAt(p)' <=> ZeroAt(p)
    BY <1>3 DEF ZeroAt
  <1>9. ~ At(n, "set_attr")'
    BY <1>2 DEF At
  <1>10. GapInv'
    BY <1>2, <1>3, <1>4, <1>6, <1>7, <1>8, <1>9 DEF GapInv
  <1> QED BY <1>5, <1>10

\* Beyond the end of the write a turn stores what was there.
LEMMA SetBlockEnd ==
  ASSUME SingleName, EndInv, NEW n \in Names, SetBlock(n)
  PROVE  LifeInv' /\ GapInv'
  <1> DEFINE old == thread[n]
             b == BlockOf(old)
             data == [k \in 1..BlockSize |-> IF k \in Chunk(old)
                                             THEN Buffer(old)[InBuffer(old, k)]
                                             ELSE old.data[k]]
  <1>1. /\ old \in Thread /\ thread \in [Names -> Thread] /\ old.pc = "set_block"
        /\ IsRequest(old) /\ IsAtTurn(old)
    BY ThreadFacts DEF SetBlock, At, EndInv, ThreadInv, WritePcs
  <1>2. /\ thread'[n].pc \in {"get_attr", "get_block"} /\ thread'[n].old = old.old
        /\ thread'[n].offset = old.offset /\ thread'[n].size = old.size
        /\ \A m \in Names : m = n
    BY <1>1 DEF SetBlock, Thread, SingleName
  <1>3. /\ UNCHANGED <<attr, names, torn, overtaken>>
        /\ blocks' = [c \in DOMAIN blocks \cup {b} |-> IF c = b THEN data ELSE blocks[c]]
    BY DEF SetBlock, memcached_set
  <1>4. LifeInv'
    BY <1>1, <1>2 DEF LifeInv, EndInv
  <1>5. ASSUME names # {}, ~ torn, NEW p \in Positions, IsBeyond(attr, n, p)
        PROVE  Contents(blocks')[p] = Zero
    <2>1. CASE p \div BlockSize = b
      <3> DEFINE k == (p % BlockSize) + 1
      <3>1. old.data[k] = Zero
        BY <1>1, <1>5, <2>1 DEF EndInv, GapInv, At
      <3>2. k \in 1..BlockSize /\ k \notin Chunk(old)
        <4>1. p >= old.offset + old.size
          BY <1>1, <1>5 DEF IsBeyond, IsWriting, WritePcs
        <4> QED BY <1>1, <2>1, <4>1, PlaceInBlock, ChunkEndsWithWrite
      <3>3. data[k] = Zero
        BY <3>1, <3>2
      <3> HIDE DEF data, b, k
      <3>4. blocks'[b] = data /\ b \in DOMAIN blocks'
        BY <1>3
      <3> QED BY <2>1, <3>3, <3>4, PlaceInBlock DEF k
    <2>2. CASE p \div BlockSize # b
      <3>1. Contents(blocks)[p] = Zero
        BY <1>5 DEF EndInv, GapInv, ZeroAt
      <3> HIDE DEF data, b
      <3> QED BY <1>3, <2>2, <3>1, PlaceInBlock
    <2> QED BY <2>1, <2>2
  <1>6. ASSUME NEW p \in Positions, IsBeyond(attr, n, p)'
        PROVE  IsBeyond(attr, n, p)
    BY <1>1, <1>2, <1>3, <1>6 DEF IsBeyond, IsWriting, WritePcs
  <1>7. ~ At(n, "set_attr")' /\ ~ At(n, "set_block")'
    BY <1>2 DEF At
  <1> HIDE DEF data, b, old
  <1>8. GapInv'
    BY <1>2, <1>3, <1>5, <1>6, <1>7 DEF GapInv, ZeroAt
  <1> QED BY <1>4, <1>8

\* The attributes that are read are those the file has.
LEMMA GetAttrEnd ==
  ASSUME SingleName, EndInv, NEW n \in Names, GetAttr(n)
  PROVE  LifeInv' /\ GapInv'
  <1> DEFINE old == thread[n]
  <1>1. old \in Thread /\ thread \in [Names -> Thread] /\ old.pc = "get_attr"
    BY ThreadFacts DEF GetAttr, At, EndInv
  <1>2. CASE attr = NoAttr
    BY <1>2, DieEnd DEF GetAttr, Segfault
  <1>3. CASE attr # NoAttr
    <2>1. /\ thread'[n].pc = "set_attr" /\ thread'[n].attr = attr
          /\ thread'[n].old = old.old
          /\ thread'[n].offset = old.offset /\ thread'[n].size = old.size
          /\ \A m \in Names : m = n
      BY <1>1, <1>3 DEF GetAttr, Thread, SingleName
    <2>2. UNCHANGED <<blocks, attr, names, torn, overtaken>>
      BY <1>3 DEF GetAttr, store
    <2>3. LifeInv'
      BY <1>1, <2>1 DEF LifeInv, EndInv
    <2>4. ASSUME names # {}, ~ torn, NEW p \in Positions, IsBeyond(attr, n, p)'
          PROVE  ZeroAt(p)'
      <3>1. IsBeyond(attr, n, p)
        BY <1>1, <2>1, <2>2, <2>4 DEF IsBeyond, IsWriting, WritePcs
      <3> QED BY <2>2, <2>4, <3>1 DEF EndInv, GapInv, ZeroAt
    <2>5. ~ At(n, "set_block")'
      BY <2>1 DEF At
    <2>6. GapInv'
      BY <2>1, <2>2, <2>4, <2>5 DEF GapInv, IsBeyond, IsWriting
    <2> QED BY <2>3, <2>6
  <1> QED BY <1>2, <1>3

\* The end that is stored is at or after the one read and the end of the write.
LEMMA SetAttrEnd ==
  ASSUME SingleName, EndInv, NEW n \in Names, SetAttr(n)
  PROVE  LifeInv' /\ GapInv'
  <1> DEFINE old == thread[n]
             end == old.offset + old.size
             num == Info(old).num_blocks
  <1>1. /\ thread \in [Names -> Thread] /\ At(n, "set_attr") /\ old.pc = "set_attr"
        /\ old.attr \in Attr /\ IsRequest(old)
    BY ThreadFacts DEF SetAttr, At, EndInv, ThreadInv, WritePcs
  <1>2. /\ thread'[n] = Idle /\ \A m \in Names : m = n
        /\ UNCHANGED <<blocks, names, torn, overtaken>>
    BY <1>1 DEF SetAttr, Return, SingleName
  <1>3. attr' = [old.attr EXCEPT !.st_blocks = num,
                                 !.st_size = IF end > @ THEN end ELSE @]
    BY DEF SetAttr
  <1>4. end \in Nat /\ old.attr.st_size \in Nat /\ old.attr # NoAttr
    BY <1>1, RequestIsInRange, IdleIsThread, FileAssumption DEF Attr
  <1>5. ASSUME NEW p \in Positions, p >= attr'.st_size
        PROVE  p >= old.attr.st_size /\ p >= end
    <2>1. attr'.st_size = IF end > old.attr.st_size THEN end ELSE old.attr.st_size
      BY <1>1, <1>3 DEF Attr
    <2>2. p \in Nat
      BY PlaceInBlock
    <2> HIDE DEF end, old
    <2> QED BY <1>4, <1>5, <2>1, <2>2
  <1>6. LifeInv'
    BY <1>2 DEF LifeInv, Idle
  <1>7. ASSUME names # {}, ~ torn, NEW p \in Positions, IsBeyond(attr, n, p)'
        PROVE  ZeroAt(p)'
    <2>1. IsBeyond(old.attr, n, p)
      BY <1>4, <1>5, <1>7 DEF IsBeyond
    <2> QED BY <1>1, <1>2, <1>7, <2>1 DEF EndInv, GapInv, ZeroAt
  <1>8. ~ At(n, "set_attr")' /\ ~ At(n, "set_block")'
    BY <1>2 DEF At, Idle
  <1>9. GapInv'
    BY <1>2, <1>7, <1>8 DEF GapInv
  <1> QED BY <1>6, <1>9

\* The only name goes with an unlink and never comes back.
LEMMA NamesEnd ==
  ASSUME SingleName, EndInv, NEW n \in Names,
         \/ memcached_unlink(n) \/ DeleteBlock(n) \/ DeleteInode(n)
         \/ SetNlink(n) \/ AddName(n)
         \/ \E old \in Names : memcached_link(old, n)
  PROVE  LifeInv' /\ GapInv'
  <1>1. \A m \in Names : m = n
    BY DEF SingleName
  <1>2. thread \in [Names -> Thread] /\ ~ At(n, "add_name") /\ thread[n].old = {}
    BY ThreadFacts DEF EndInv, LifeInv, At
  <1>3. CASE memcached_unlink(n)
    <2>1. names' = {}
      BY <1>1, <1>3 DEF memcached_unlink, EndInv, IInv, TypeOK
    <2>2. thread'[n].pc \in {"idle", "set_nlink", "delete"} /\ thread'[n].old = {}
      <3>1. CASE attr = NoAttr
        BY <1>3, <3>1 DEF memcached_unlink, Die, Idle
      <3>2. CASE attr # NoAttr
        <4> DEFINE pc == IF HasOtherName(attr) THEN "set_nlink" ELSE "delete"
                   th == [Idle EXCEPT !.attr = attr, !.pc = pc]
        <4>1. thread' = [thread EXCEPT ![n] = th]
          BY <1>3, <3>2 DEF memcached_unlink
        <4>2. pc \in {"set_nlink", "delete"}
          OBVIOUS
        <4> HIDE DEF pc
        <4>3. th.pc = pc /\ th.old = {}
          BY DEF Idle
        <4> HIDE DEF th
        <4> QED BY <1>2, <4>1, <4>2, <4>3
      <3> QED BY <3>1, <3>2
    <2> QED BY <1>1, <2>1, <2>2 DEF LifeInv, GapInv
  <1>4. CASE DeleteBlock(n) \/ DeleteInode(n) \/ SetNlink(n)
    <2>1. names = {} /\ names' = {}
      BY <1>4 DEF DeleteBlock, DeleteInode, SetNlink, At, EndInv, LifeInv
    <2>2. CASE DeleteBlock(n)
      <3>1. thread'[n].pc = "delete" /\ thread'[n].old = {}
        BY <1>2, <2>2 DEF DeleteBlock, At, Thread
      <3> QED BY <1>1, <2>1, <3>1 DEF LifeInv, GapInv
    <2>3. CASE DeleteInode(n) \/ SetNlink(n)
      <3>1. thread'[n] = Idle
        BY <1>2, <2>3 DEF DeleteInode, SetNlink, Return
      <3> QED BY <1>1, <2>1, <3>1 DEF LifeInv, GapInv, Idle
    <2> QED BY <1>4, <2>2, <2>3
  <1>5. ~ AddName(n)
    BY <1>2 DEF AddName
  <1>6. \A old \in Names : ~ memcached_link(old, n)
    BY <1>1 DEF memcached_link
  <1> QED BY <1>3, <1>4, <1>5, <1>6

\* The reader, the mount, a kill, and a key that memcached drops.
LEMMA WorldEnd ==
  ASSUME SingleName, EndInv,
         \/ \E n \in Names : memcached_read(n) \/ OverrunHeap(n)
         \/ ReadAttr \/ ReadBlock \/ ReturnRead
         \/ memcached_init \/ Crash \/ Evict
  PROVE  LifeInv' /\ GapInv'
  <1>1. CASE Die /\ UNCHANGED store
    BY <1>1, DieEnd
  <1>2. CASE UNCHANGED <<blocks, attr, names, thread, torn, overtaken>>
    BY <1>2 DEF EndInv, LifeInv, GapInv, IsBeyond, ZeroAt, At, IsWriting
  <1>3. CASE Evict
    <2>1. /\ UNCHANGED <<names, thread, torn, overtaken>>
          /\ attr' = NoAttr \/ attr' = attr
      BY <1>3 DEF Evict
    <2>2. ASSUME NEW p \in Positions, ZeroAt(p)
          PROVE  ZeroAt(p)'
      <3>1. \A b \in DOMAIN blocks' : b \in DOMAIN blocks /\ blocks'[b] = blocks[b]
        BY <1>3 DEF Evict
      <3> QED BY <2>2, <3>1, PlaceInBlock DEF ZeroAt
    <2> QED BY <2>1, <2>2 DEF EndInv, LifeInv, GapInv, IsBeyond, At, IsWriting
  <1>4. \/ Die /\ UNCHANGED store
        \/ UNCHANGED <<blocks, attr, names, thread, torn, overtaken>>
        \/ Evict
    BY DEF memcached_read, OverrunHeap, ReadAttr, ReadBlock, ReturnRead, Segfault,
           memcached_init, Crash, store
  <1> QED BY <1>1, <1>2, <1>3, <1>4

\* The gap stays zero after any step but a kill.
LEMMA NextEnd ==
  ASSUME SingleName, EndInv, [Next]_vars
  PROVE  EndInv'
  <1>1. IInv'
    BY NextInv DEF EndInv
  <1>2. CASE UNCHANGED vars
    BY <1>1, <1>2 DEF vars, store, EndInv, LifeInv, GapInv, IsBeyond, ZeroAt, At, IsWriting
  <1>3. ASSUME NEW n \in Names,
               \/ memcached_write(n) \/ GetBlock(n) \/ SetBlock(n)
               \/ GetAttr(n) \/ SetAttr(n)
        PROVE  LifeInv' /\ GapInv'
    BY <1>3, WriteEnd, GetBlockEnd, SetBlockEnd, GetAttrEnd, SetAttrEnd
  <1>4. CASE Next
    BY <1>1, <1>3, <1>4, NamesEnd, WorldEnd DEF Next, EndInv
  <1> QED BY <1>2, <1>4

\* For a file with one name and whatever blocks memcached drops: as long as no
\* process died in a write, what lies beyond the end of the file is zero, so a
\* write that starts there leaves a gap of zeros.
THEOREM GapsAreZero ==
  ASSUME SingleName
  PROVE  Spec => []ZeroBeyondEnd
  <1>1. Init => EndInv
    BY InitInv, InitEnd DEF EndInv
  <1>2. EndInv /\ [Next]_vars => EndInv'
    BY NextEnd
  <1>3. EndInv => ZeroBeyondEnd
    <2> SUFFICES ASSUME EndInv, ~ torn, names # {}, attr # NoAttr,
                        \A n \in Names : ~ IsWriting(n),
                        NEW p \in attr.st_size..(MaxLength - 1)
                 PROVE  Contents(blocks)[p] = Zero
      BY DEF ZeroBeyondEnd
    <2>1. attr.st_size \in Nat
      BY FileAssumption DEF EndInv, IInv, TypeOK, Attr
    <2>2. p \in Positions /\ p >= attr.st_size
      BY <2>1, FileAssumption DEF Positions
    <2>3. PICK n \in Names : ~ IsWriting(n)
      BY FileAssumption
    <2> QED BY <2>2, <2>3 DEF EndInv, GapInv, IsBeyond, ZeroAt
  <1> QED BY <1>1, <1>2, <1>3, PTL DEF Spec
=============================================================================
