---------------------------- MODULE RandomAccess ----------------------------
(***************************************************************************)
(* random_access.c: which blocks a request of size bytes at offset spans,  *)
(* and how the loops of memcached_read and memcached_write cut the request *)
(* along them.  Offsets and sizes have 64 bits; what the code keeps in an  *)
(* int is taken modulo 2 * IntLimit.  A request has at least one byte.     *)
(***************************************************************************)
EXTENDS Integers

CONSTANTS
  BlockSize,                    \* FILE_BLOCK_SIZE
  IntLimit                      \* 2^31: an int is below it

ASSUME BlockSizeAssumption == BlockSize \in Nat \ {0}

ASSUME IntAssumption == IntLimit \in Nat /\ BlockSize < IntLimit

\* The int that is congruent to x.  The product of two ints may overflow, which
\* the C standard leaves open: the build takes it modulo 2 * IntLimit too, or
\* keeps the exact value, and the next conversion to int makes these the same.
ToInt(x) == ((x + IntLimit) % (2 * IntLimit)) - IntLimit

\* The number of a block is an int, and so is the size of what the kernel sends.
IsInRange(offset, size) == offset \div BlockSize < IntLimit /\ size < IntLimit

\* Mutant: the last block is forgotten unless it is a full one.
get_file_blocks_info_M(offset, size) ==
  LET start == ToInt(offset \div BlockSize)
      left == ToInt(BlockSize - (offset - ToInt(start * BlockSize)))
      s == ToInt(size - left)
  IN  [start_block |-> start,
       offset_in_start_block |-> offset % BlockSize,
       num_blocks |-> IF size <= left THEN 1 ELSE 1 + s \div BlockSize,
       bytes_in_end_block |->
         IF size <= left THEN size
         ELSE IF size % BlockSize = 0 THEN BlockSize ELSE s % BlockSize]

get_file_blocks_info(offset, size) ==
  LET start == ToInt(offset \div BlockSize)
      left == ToInt(BlockSize - (offset - ToInt(start * BlockSize)))
      s == ToInt(size - left)
  IN  [start_block |-> start,
       offset_in_start_block |-> offset % BlockSize,
       num_blocks |->
         IF size <= left THEN 1
         ELSE IF size % BlockSize = 0 THEN 1 + s \div BlockSize
         ELSE 2 + s \div BlockSize,
       bytes_in_end_block |->
         IF size <= left THEN size
         ELSE IF size % BlockSize = 0 THEN BlockSize
         ELSE s % BlockSize]

(***************************************************************************)
(* The i-th turn of the loop, i from 0, copies ChunkSize bytes between     *)
(* the buffer from BytesBefore on and the block from ChunkOffset on.       *)
(***************************************************************************)
ChunkOffset(info, i) == IF i = 0 THEN info.offset_in_start_block ELSE 0

ChunkSize(info, i, size) ==
  IF info.num_blocks = 1 THEN size
  ELSE IF i = 0 THEN BlockSize - info.offset_in_start_block
  ELSE IF i = info.num_blocks - 1 THEN info.bytes_in_end_block
  ELSE BlockSize

BytesBefore(info, i) ==
  IF i = 0 THEN 0 ELSE i * BlockSize - info.offset_in_start_block

-----------------------------------------------------------------------------
(* What the loops rely on.                                                 *)

Turns(info) == 0..(info.num_blocks - 1)

\* Each chunk lies in its block, holds the bytes of the request that belong
\* there, and together they are the whole request.
CoversRequest(offset, size) ==
  LET info == get_file_blocks_info(offset, size)
      last == info.num_blocks - 1
  IN  /\ \A i \in Turns(info) :
           /\ ChunkOffset(info, i) + ChunkSize(info, i, size) <= BlockSize
           /\ (info.start_block + i) * BlockSize + ChunkOffset(info, i) =
                offset + BytesBefore(info, i)
      /\ BytesBefore(info, last) + ChunkSize(info, last, size) = size

\* The requests the arithmetic is right for.
IsCovered(offset, size) == offset % BlockSize = 0 \/ size % BlockSize # 0
=============================================================================
