------------------------------ MODULE MCFileIO ------------------------------
(***************************************************************************)
(* Instances of FileIO for TLC.                                            *)
(***************************************************************************)
EXTENDS FileIO, TLC

Requests ==
  {r \in Positions \X (1..MaxLength) :
     r[1] + r[2] <= MaxLength /\ IsInRange(r[1], r[2])}

\* The writes that random_access.c cuts correctly.
CoveredWrites == {w \in Requests : IsCovered(w[1], w[2])}

\* Two blocks of a file of two; one of them is not covered.
SomeWrites == {<<0, 3>>, <<1, 2>>}

\* A read of the page cache: the kernel reads from the start of a page, and
\* a page is a whole number of blocks.  The end of the file cuts it.
PageReads == {<<0, 4>>}

\* One block is enough where only the inode matters.
OneBlock == {<<0, 2>>}

NameSymmetry == Permutations(Names)

NoReads == {}
=============================================================================
