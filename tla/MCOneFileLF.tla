---------------------------- MODULE MCOneFileLF ----------------------------
(***************************************************************************)
(* Instances of OneFileLF for TLC: how many transactions each thread calls *)
(* and how long they are.                                                  *)
(***************************************************************************)
EXTENDS OneFileLFRefinement, OneFileLFInv

CONSTANTS a, b

AllZero == [w \in Words |-> 0]

OneEach == [t \in Threads |-> 1]

\* Operations per attempt.
TwoOps == [t \in Threads |-> [k \in 1 .. MaxTx[t] |-> 2]]
=============================================================================
