---------------------------- MODULE MCRomulusLR ----------------------------
(***************************************************************************)
(* An instance of RomulusLR for TLC.  Thread 0 reads before it writes, so  *)
(* it may come to the lock from the right side; the calls of threads 0 and *)
(* 1 run together store b twice, and overflow the log.  b is in the tail   *)
(* of its line, a at the head of the next one.                             *)
(***************************************************************************)
EXTENDS RomulusLRInv

CONSTANTS a, b

Program == << <<{}, {a, b}, {b}>>, <<{b}>>, <<{}>> >>
ThreePrograms == [t \in Threads |-> Program[t + 1]]

Displaced == [w \in Words |-> IF w = a THEN {a, b} ELSE {}]
=============================================================================
