---------------------------- MODULE MCHashtable ----------------------------
(***************************************************************************)
(* Instances of Hashtable for TLC.                                         *)
(***************************************************************************)
EXTENDS Hashtable, TLC

CONSTANTS pathA, pathB, pathC, pathX, pathY

\* Two groups of paths with one hash value each: doubling the buckets parts the
\* groups once and then fails twice in a row.
SixPaths ==
  Root :> 0 @@ pathA :> 0 @@ pathB :> 0 @@ pathC :> 0 @@ pathX :> 1 @@ pathY :> 1

Colliding == Permutations({pathA, pathB, pathC})
=============================================================================
