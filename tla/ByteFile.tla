------------------------------ MODULE ByteFile ------------------------------
(***************************************************************************)
(* What a file promises who writes it: an array of bytes and a length.  A  *)
(* write may take effect byte by byte in any order, but touches no byte    *)
(* outside its range, and makes the file longer only when it returns, with *)
(* all its bytes in place if it is of the requests that are stored whole.  *)
(* When the process dies the write it was executing stops where it is.     *)
(***************************************************************************)
EXTENDS Integers, Sequences

CONSTANTS
  Byte,             \* the values of a byte
  Zero,             \* the value of a byte never written
  MaxLength,        \* bound on the length of the file
  IsStoredWhole(_, _)   \* is a request at offset of size bytes stored whole?

VARIABLES
  bytes,            \* the array; beyond length it holds what was left there
  length,           \* the length of the file
  request,          \* the write being executed, or NoRequest
  alive             \* is the process there to execute it?

vars == <<bytes, length, request, alive>>

NoRequest == [offset |-> 0, buf |-> <<>>]

Positions == 0..(MaxLength - 1)

End(r) == r.offset + Len(r.buf)

Range(r) == r.offset..(End(r) - 1)

Wanted(r, p) == r.buf[p - r.offset + 1]

Init ==
  /\ bytes = [p \in Positions |-> Zero]
  /\ length = 0
  /\ request = NoRequest
  /\ alive = FALSE

Write ==
  /\ alive /\ request = NoRequest
  /\ request' \in [offset : Positions, buf : Seq(Byte) \ {<<>>}]
  /\ UNCHANGED <<bytes, length, alive>>

Put ==
  /\ alive /\ request # NoRequest
  /\ bytes' \in [Positions -> Byte]
  /\ \A p \in Positions :
       \/ bytes'[p] = bytes[p]
       \/ p \in Range(request) /\ bytes'[p] = Wanted(request, p)
  /\ UNCHANGED <<length, request, alive>>

Return ==
  /\ alive /\ request # NoRequest
  /\ IsStoredWhole(request.offset, Len(request.buf)) =>
       \A p \in Range(request) : bytes[p] = Wanted(request, p)
  /\ length' = IF End(request) > length THEN End(request) ELSE length
  /\ request' = NoRequest
  /\ UNCHANGED <<bytes, alive>>

Remove ==
  /\ alive /\ request = NoRequest
  /\ bytes' = [p \in Positions |-> Zero] /\ length' = 0
  /\ UNCHANGED <<request, alive>>

Die ==
  /\ alive /\ alive' = FALSE
  /\ request' = NoRequest
  /\ UNCHANGED <<bytes, length>>

Restart == ~ alive /\ alive' = TRUE /\ UNCHANGED <<bytes, length, request>>

Next == Write \/ Put \/ Return \/ Remove \/ Die \/ Restart

Spec == Init /\ [][Next]_vars
=============================================================================
