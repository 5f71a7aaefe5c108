---------------------------- MODULE MCRomulusLog ----------------------------
(***************************************************************************)
(* Instances of RomulusLog for TLC: calls that store two of three words.   *)
(* Run together, those of threads 0 and 1 overflow a log of two words.  b  *)
(* is in the tail of its line, c at the head of the next one, and a at the *)
(* head of a line elsewhere.                                               *)
(***************************************************************************)
EXTENDS RomulusLogInv

CONSTANTS a, b, c

Program == <<  <<{a, b}, {b}>>, <<{b, c}>>, <<{}>> >>
ThreePrograms == [t \in Threads |-> Program[t + 1]]

Displaced == [w \in Words |-> IF w = a THEN {a}
                              ELSE IF w = b THEN {} ELSE {b, c}]
=============================================================================
