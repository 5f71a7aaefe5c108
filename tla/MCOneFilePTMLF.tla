--------------------------- MODULE MCOneFilePTMLF ---------------------------
(***************************************************************************)
(* Instances of OneFilePTMLF for TLC: two words.                           *)
(***************************************************************************)
EXTENDS OneFilePTMLFInv

CONSTANTS a, b

TwoEach == [t \in Threads |-> 2]
=============================================================================
