---------------------------- MODULE MCOneFileWF ----------------------------
(***************************************************************************)
(* Instances of OneFileWF for TLC.                                         *)
(***************************************************************************)
EXTENDS OneFileWF

CONSTANT obj

\* A result, or the object.
ObjectVals == Nat \cup Seq(Threads \X Nat)

\* Thread 1 publishes four transactions during one call of thread 0, and then
\* reads.
OneAndFive == [t \in Threads |->
  IF t = 0 THEN <<"write">>
           ELSE <<"write", "write", "write", "write", "read">>]
=============================================================================
