------------------------- MODULE MCMemcachedClient -------------------------
(***************************************************************************)
(* Instances of MemcachedClient for TLC: a value of one piece, and one of  *)
(* three.                                                                  *)
(***************************************************************************)
EXTENDS MemcachedClient

CONSTANTS Short, Long

Sizes == [v \in Values |-> IF v = Long THEN 3 ELSE 1]

BothValues == {Short, Long}
=============================================================================
