--------------------------- MODULE MCWriteSetHash ---------------------------
(***************************************************************************)
(* Instances of WriteSetHash for TLC: two words that share a bucket and    *)
(* one that does not.                                                      *)
(***************************************************************************)
EXTENDS WriteSetHash

CONSTANTS w1, w2, w3

HashOf == [w \in Words |-> IF w = w3 THEN 1 ELSE 0]

\* Of a log that links w1 to w3 in the same place of another log, of one that
\* leads back to the copy's own first entry, and an entry nobody has filled in.
Leftovers ==
  {[addr |-> w1, val |-> 1, next |-> Foreign],
   [addr |-> w3, val |-> 0, next |-> 0],
   [addr |-> NoWord, val |-> 0, next |-> Null]}
=============================================================================
