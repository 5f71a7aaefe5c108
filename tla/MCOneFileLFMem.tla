--------------------------- MODULE MCOneFileLFMem ---------------------------
(***************************************************************************)
(* Instances of OneFileLFMem for TLC: one root r, and one node x linked    *)
(* to it before the first transaction or two that are free.                *)
(***************************************************************************)
EXTENDS OneFileLFMemInv

CONSTANTS r, x, y

EmptyList == [w \in Words |-> Null]
OneNode == [w \in Words |-> IF w = r THEN x ELSE Null]

TwoForZero == [t \in Threads |-> IF t = 0 THEN 2 ELSE 1]
FourForZero == [t \in Threads |-> IF t = 0 THEN 4 ELSE 1]

\* Load, unlink and delete take three operations, one more stores into the
\* node first; it is freed by the next transaction but one, and the address is
\* used again.  Thread 1 reads or helps.
DeleterAndOther == [t \in Threads |-> IF t = 0 THEN <<4, 1, 1, 2>> ELSE <<2>>]
OneOp == [t \in Threads |-> [k \in 1 .. MaxTx[t] |-> 1]]
=============================================================================
