--------------------------- MODULE ThreadRegistry ---------------------------
(***************************************************************************)
(* The registry that gives each thread an identifier of its own, class     *)
(* ThreadRegistry of common/ThreadRegistry.hpp and of every OneFile        *)
(* header: a thread takes the first identifier it finds free, raises       *)
(* maxTid above it, and gives it back when it ends.                        *)
(***************************************************************************)
EXTENDS Integers, FiniteSets

CONSTANTS
  Procs,       \* the threads the system runs at a time
  MaxThreads,  \* REGISTRY_MAX_THREADS
  Lives,       \* how many threads follow one another in a member of Procs
  Fair         \* those that are never descheduled for ever

ASSUME RegistryAssumption ==
  /\ MaxThreads \in Nat \ {0}
  /\ Lives \in Nat
  /\ IsFiniteSet(Procs) /\ Cardinality(Procs) <= MaxThreads
  /\ Fair \subseteq Procs

VARIABLES
  usedTID,  \* which identifiers are taken
  maxTid,   \* above every identifier that is in use
  pc,       \* the step a thread is about to take
  tid,      \* the identifier it looks at or has
  curMax,   \* the maxTid it has read
  lives     \* threads to come after it, and itself

vars == <<usedTID, maxTid, pc, tid, curMax, lives>>

Tids == 0 .. MaxThreads - 1

Init ==
  /\ usedTID = [i \in Tids |-> FALSE]
  /\ maxTid = -1
  /\ pc = [p \in Procs |-> "start"]
  /\ tid = [p \in Procs |-> 0]
  /\ curMax = [p \in Procs |-> -1]
  /\ lives = [p \in Procs |-> Lives]

Step(p, from, to) ==
  /\ pc[p] = from
  /\ pc' = [pc EXCEPT ![p] = to]

\* The first call of getTID.
Start(p) ==
  /\ lives[p] > 0
  /\ Step(p, "start", "load")
  /\ UNCHANGED <<usedTID, maxTid, tid, curMax, lives>>

\* Mutant: the loop stops short of the last identifier.
NextTidButLast(p, from) ==
  /\ Step(p, from, IF tid[p] + 2 < MaxThreads THEN "load" ELSE "full")
  /\ tid' = [tid EXCEPT ![p] = @ + 1]
  /\ UNCHANGED <<usedTID, maxTid, curMax, lives>>

\* The loop goes on to the next identifier, if there is one.
NextTid(p, from) ==
  /\ Step(p, from, IF tid[p] + 1 < MaxThreads THEN "load" ELSE "full")
  /\ tid' = [tid EXCEPT ![p] = @ + 1]
  /\ UNCHANGED <<usedTID, maxTid, curMax, lives>>

LoadUsed(p) ==
  \/ pc[p] = "load" /\ usedTID[tid[p]] /\ NextTid(p, "load")
  \/ /\ pc[p] = "load" /\ ~usedTID[tid[p]]
     /\ Step(p, "load", "cas")
     /\ UNCHANGED <<usedTID, maxTid, tid, curMax, lives>>

\* Mutant: a store in the place of the compare-and-swap.
StoreUsed(p) ==
  /\ Step(p, "cas", "loadMax")
  /\ usedTID' = [usedTID EXCEPT ![tid[p]] = TRUE]
  /\ UNCHANGED <<maxTid, tid, curMax, lives>>

CasUsed(p) ==
  \/ pc[p] = "cas" /\ usedTID[tid[p]] /\ NextTid(p, "cas")
  \/ /\ pc[p] = "cas" /\ ~usedTID[tid[p]]
     /\ Step(p, "cas", "loadMax")
     /\ usedTID' = [usedTID EXCEPT ![tid[p]] = TRUE]
     /\ UNCHANGED <<maxTid, tid, curMax, lives>>

\* Mutant: maxTid taken for the highest identifier instead of the one above.
BelowTid(p) == maxTid < tid[p]

NotCovered(p) == maxTid <= tid[p]

LoadMax(p) ==
  /\ Step(p, "loadMax", IF NotCovered(p) THEN "casMax" ELSE "registered")
  /\ curMax' = [curMax EXCEPT ![p] = IF NotCovered(p) THEN maxTid ELSE -1]
  /\ UNCHANGED <<usedTID, maxTid, tid, lives>>

\* Mutant: off by one.
CasMaxToTid(p) ==
  /\ Step(p, "casMax", "loadMax")
  /\ maxTid' = IF maxTid = curMax[p] THEN tid[p] ELSE maxTid
  /\ UNCHANGED <<usedTID, tid, curMax, lives>>

CasMax(p) ==
  /\ Step(p, "casMax", "loadMax")
  /\ maxTid' = IF maxTid = curMax[p] THEN tid[p] + 1 ELSE maxTid
  /\ UNCHANGED <<usedTID, tid, curMax, lives>>

\* The thread ends: deregister_thread.  Another may be started.
Deregister(p) ==
  /\ Step(p, "registered", "start")
  /\ usedTID' = [usedTID EXCEPT ![tid[p]] = FALSE]
  /\ tid' = [tid EXCEPT ![p] = 0]
  /\ lives' = [lives EXCEPT ![p] = @ - 1]
  /\ UNCHANGED <<maxTid, curMax>>

Register(p) == LoadUsed(p) \/ CasUsed(p) \/ LoadMax(p) \/ CasMax(p)

Finished ==
  /\ \A p \in Procs : pc[p] = "start" /\ lives[p] = 0
  /\ UNCHANGED vars

Next ==
  (\E p \in Procs : Start(p) \/ Register(p) \/ Deregister(p)) \/ Finished

Spec == Init /\ [][Next]_vars
\* A thread of Fair runs until it is registered; how long it lives, and what
\* all others do, is left open.
FairSpec == Spec /\ \A p \in Fair : WF_vars(Register(p))

(***************************************************************************)
(* Properties.                                                             *)
(***************************************************************************)

Owns(p) == pc[p] \in {"loadMax", "casMax", "registered"}

\* Every variable has its type.
TypeOK ==
  /\ usedTID \in [Tids -> BOOLEAN]
  /\ maxTid \in {-1} \cup 1 .. MaxThreads
  /\ pc \in [Procs -> {"start", "load", "cas", "loadMax", "casMax",
                       "registered", "full"}]
  /\ tid \in [Procs -> 0 .. MaxThreads]
  /\ curMax \in [Procs -> {-1} \cup 1 .. MaxThreads]
  /\ lives \in [Procs -> Int]

\* No identifier, and with it no write-set, operation or hazard era, belongs
\* to two threads at a time (ThreadRegistry.hpp:62-64).
TidsAreUnique ==
  \A p, q \in Procs : Owns(p) /\ Owns(q) /\ p # q => tid[p] # tid[q]

\* A scan of the threads below maxTid, as the memory reclamation makes it,
\* passes over no thread that has begun to use its identifier
\* (ThreadRegistry.hpp:65-70).
RegisteredIsCovered ==
  \A p \in Procs : pc[p] = "registered" => tid[p] < maxTid

\* Although a thread looks at the identifiers one after the other while others
\* take and leave them, it finds one, if there are never more threads than
\* identifiers (ThreadRegistry.hpp:61-75).
NeverFull == \A p \in Procs : pc[p] # "full"

\* Registration ends whatever the other threads do ("wait-free bounded",
\* ThreadRegistry.hpp:58).
FairThreadsRegister ==
  \A p \in Fair : pc[p] = "load" ~> pc[p] = "registered"
(***************************************************************************)
(* The inductive invariant.                                                *)
(***************************************************************************)

\* Where in the registry a thread is.
Positions ==
  \A p \in Procs :
    /\ pc[p] = "start" => tid[p] = 0
    /\ pc[p] = "full" => tid[p] = MaxThreads
    /\ pc[p] # "full" => tid[p] \in Tids
    /\ pc[p] = "casMax" => curMax[p] <= tid[p]

\* An identifier is taken exactly while it has an owner.
UsedIsOwned ==
  \A i \in Tids : usedTID[i] <=> \E p \in Procs : Owns(p) /\ tid[p] = i

\* The threads that have got as far as the k-th identifier.
From(k) == {p \in Procs : tid[p] >= k}

\* There is always room for them: who passes an identifier leaves its owner
\* behind.
RoomAhead == \A k \in 0 .. MaxThreads : Cardinality(From(k)) <= MaxThreads - k

Inv ==
  /\ TypeOK
  /\ Positions
  /\ UsedIsOwned
  /\ TidsAreUnique
  /\ RegisteredIsCovered
  /\ RoomAhead
=============================================================================
