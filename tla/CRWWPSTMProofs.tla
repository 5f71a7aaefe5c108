--------------------------- MODULE CRWWPSTMProofs ---------------------------
(***************************************************************************)
(* Proofs of the safety properties of ThreadRegistry, for any number of    *)
(* identifiers, any set of at most as many threads, and any number of      *)
(* threads that follow them; and that the functions of CRWWPSTM exclude    *)
(* each other and are those of calls that wait for them, for any number of *)
(* threads that register, call, and leave their identifiers to others.     *)
(* What is proved of the registry alone holds in the composition.          *)
(***************************************************************************)
EXTENDS CRWWPSTMRefinement, FiniteSetTheorems, TLAPS

USE RegistryAssumption

(***************************************************************************)
(* The registry alone.                                                     *)
(***************************************************************************)

\* A set of threads is finite.
LEMMA FiniteProcs ==
  ASSUME NEW S \in SUBSET Procs
  PROVE  IsFiniteSet(S) /\ Cardinality(S) \in Nat
<1>1. IsFiniteSet(S)
  BY FS_Subset
<1>2. QED
  BY <1>1, FS_CardinalityType

\* A bound on the size of a set holds for its subsets.
LEMMA SubsetBound ==
  ASSUME NEW T \in SUBSET Procs, NEW S \in SUBSET T, NEW n \in Int,
         Cardinality(T) <= n
  PROVE  Cardinality(S) <= n
<1>1. /\ Cardinality(S) <= Cardinality(T)
      /\ Cardinality(S) \in Nat
      /\ Cardinality(T) \in Nat
  BY FiniteProcs, FS_Subset
<1>2. QED
  BY <1>1

LEMMA InitInv == Init => Inv
<1> SUFFICES ASSUME Init
             PROVE  Inv
  OBVIOUS
<1> USE DEF Init
<1>1. TypeOK
  BY DEF TypeOK, Tids
<1>2. Positions
  BY DEF Positions, Tids
<1>3. UsedIsOwned /\ TidsAreUnique /\ RegisteredIsCovered
  BY DEF UsedIsOwned, TidsAreUnique, RegisteredIsCovered, Owns
<1>4. RoomAhead
  <2> SUFFICES ASSUME NEW k \in 0 .. MaxThreads
               PROVE  Cardinality(From(k)) <= MaxThreads - k
    BY DEF RoomAhead
  <2>1. CASE k = 0
    <3>1. From(k) = Procs
      BY <2>1 DEF From
    <3>2. Cardinality(Procs) \in Nat
      BY FiniteProcs
    <3>3. QED
      BY <2>1, <3>1, <3>2
  <2>2. CASE k > 0
    <3>1. From(k) = {}
      BY <2>2 DEF From
    <3>2. QED
      BY <3>1, FS_EmptySet
  <2>3. QED
    BY <2>1, <2>2
<1>5. QED
  BY <1>1, <1>2, <1>3, <1>4 DEF Inv

\* A step that takes no thread further leaves room where it was.
LEMMA RoomKept ==
  ASSUME RoomAhead, \A k \in 0 .. MaxThreads : From(k)' \subseteq From(k)
  PROVE  RoomAhead'
<1> SUFFICES ASSUME NEW k \in 0 .. MaxThreads
             PROVE  Cardinality(From(k)') <= MaxThreads - k
  BY DEF RoomAhead
<1>1. /\ Cardinality(From(k)) <= MaxThreads - k
      /\ From(k) \in SUBSET Procs
      /\ From(k)' \in SUBSET From(k)
      /\ MaxThreads - k \in Int
  BY DEF RoomAhead, From
<1>2. QED
  BY <1>1, SubsetBound

\* A thread that passes an identifier in use leaves its owner behind.
LEMMA RoomPassed ==
  ASSUME Inv, NEW p \in Procs, pc[p] \in {"load", "cas"}, usedTID[tid[p]],
         tid' = [tid EXCEPT ![p] = @ + 1]
  PROVE  RoomAhead'
<1> DEFINE i == tid[p]
<1>1. i \in Tids /\ i \in Nat /\ i + 1 <= MaxThreads
  BY DEF Inv, Positions, Tids
<1>2. PICK q \in Procs : Owns(q) /\ tid[q] = i
  BY <1>1 DEF Inv, UsedIsOwned
<1>3. q # p
  BY <1>2 DEF Owns
<1>4. \A r \in Procs : tid'[r] = IF r = p THEN i + 1 ELSE tid[r]
  BY DEF Inv, TypeOK
<1>5. \A r \in Procs : tid[r] \in Int
  BY DEF Inv, TypeOK
<1> HIDE DEF i
<1>6. SUFFICES ASSUME NEW k \in 0 .. MaxThreads
               PROVE  Cardinality(From(k)') <= MaxThreads - k
  BY DEF RoomAhead
<1>7. \A j \in 0 .. MaxThreads : Cardinality(From(j)) <= MaxThreads - j
  BY DEF Inv, RoomAhead
<1>8. CASE k # i + 1
  <2>1. From(k)' = From(k)
    BY <1>1, <1>4, <1>5, <1>8 DEF From, i
  <2>2. QED
    BY <1>7, <2>1
<1>9. CASE k = i + 1
  <2>1. q \in From(i) /\ From(i) \in SUBSET Procs /\ i \in 0 .. MaxThreads
    BY <1>1, <1>2, <1>5 DEF From
  <2>2. From(k)' \in SUBSET (From(i) \ {q})
    BY <1>1, <1>2, <1>3, <1>4, <1>5, <1>9 DEF From, i
  <2>3. IsFiniteSet(From(i)) /\ Cardinality(From(i)) \in Nat
    BY <2>1, FiniteProcs
  <2>4. Cardinality(From(i) \ {q}) = Cardinality(From(i)) - 1
    BY <2>1, <2>3, FS_RemoveElement
  <2>5. Cardinality(From(i) \ {q}) <= MaxThreads - k
    BY <1>1, <1>7, <1>9, <2>1, <2>3, <2>4
  <2>6. From(i) \ {q} \in SUBSET Procs /\ MaxThreads - k \in Int
    BY <2>1
  <2>7. QED
    BY <2>2, <2>5, <2>6, SubsetBound
<1>10. QED
  BY <1>8, <1>9

LEMMA StartInv ==
  ASSUME Inv, NEW p \in Procs, Start(p)
  PROVE  Inv'
<1> USE DEF Start, Step
<1>1. TypeOK'
  BY DEF Inv, TypeOK
<1>2. \A q \in Procs : Owns(q)' <=> Owns(q)
  BY DEF Inv, TypeOK, Owns
<1>3. Positions'
  BY DEF Inv, TypeOK, Positions, Tids
<1>4. UsedIsOwned' /\ TidsAreUnique'
  BY <1>2 DEF Inv, UsedIsOwned, TidsAreUnique
<1>5. RegisteredIsCovered'
  BY DEF Inv, TypeOK, RegisteredIsCovered
<1>6. RoomAhead'
  BY RoomKept DEF Inv, From
<1>7. QED
  BY <1>1, <1>3, <1>4, <1>5, <1>6 DEF Inv

LEMMA NextTidInv ==
  ASSUME Inv, NEW p \in Procs, NEW from \in {"load", "cas"},
         usedTID[tid[p]], NextTid(p, from)
  PROVE  Inv'
<1> USE DEF NextTid, Step
<1>1. tid[p] \in 0 .. MaxThreads - 1
  BY DEF Inv, Positions, Tids
<1>2. \A q \in Procs : /\ pc'[q] = IF q # p THEN pc[q]
                                   ELSE IF tid[p] + 1 < MaxThreads THEN "load"
                                   ELSE "full"
                       /\ tid'[q] = IF q = p THEN tid[p] + 1 ELSE tid[q]
  BY DEF Inv, TypeOK
<1>3. TypeOK'
  BY <1>1 DEF Inv, TypeOK
<1>4. \A q \in Procs : Owns(q)' <=> Owns(q)
  BY <1>2 DEF Owns
<1>5. Positions'
  BY <1>1, <1>2 DEF Inv, Positions, Tids
<1>6. \A q \in Procs : Owns(q) => tid'[q] = tid[q]
  BY <1>2 DEF Owns
<1>7. UsedIsOwned' /\ TidsAreUnique'
  BY <1>4, <1>6 DEF Inv, UsedIsOwned, TidsAreUnique
<1>8. RegisteredIsCovered'
  BY <1>2 DEF Inv, RegisteredIsCovered
<1>9. RoomAhead'
  BY RoomPassed
<1>10. QED
  BY <1>3, <1>5, <1>7, <1>8, <1>9 DEF Inv

LEMMA LoadUsedInv ==
  ASSUME Inv, NEW p \in Procs, LoadUsed(p)
  PROVE  Inv'
<1>1. CASE usedTID[tid[p]] /\ NextTid(p, "load")
  BY <1>1, NextTidInv
<1>2. CASE /\ Step(p, "load", "cas")
           /\ UNCHANGED <<usedTID, maxTid, tid, curMax, lives>>
  <2> USE <1>2 DEF Step
  <2>1. TypeOK'
    BY DEF Inv, TypeOK
  <2>2. \A q \in Procs : pc'[q] = IF q = p THEN "cas" ELSE pc[q]
    BY DEF Inv, TypeOK
  <2>3. \A q \in Procs : Owns(q)' <=> Owns(q)
    BY <2>2 DEF Owns
  <2>4. Positions'
    BY <2>2 DEF Inv, Positions
  <2>5. UsedIsOwned' /\ TidsAreUnique'
    BY <2>3 DEF Inv, UsedIsOwned, TidsAreUnique
  <2>6. RegisteredIsCovered'
    BY <2>2 DEF Inv, RegisteredIsCovered
  <2>7. RoomAhead'
    BY RoomKept DEF Inv, From
  <2>8. QED
    BY <2>1, <2>4, <2>5, <2>6, <2>7 DEF Inv
<1>3. QED
  BY <1>1, <1>2 DEF LoadUsed

\* The compare-and-swap makes its thread the one owner of an identifier.
LEMMA CasUsedInv ==
  ASSUME Inv, NEW p \in Procs, CasUsed(p)
  PROVE  Inv'
<1>1. CASE usedTID[tid[p]] /\ NextTid(p, "cas")
  BY <1>1, NextTidInv
<1>2. CASE /\ ~usedTID[tid[p]]
           /\ Step(p, "cas", "loadMax")
           /\ usedTID' = [usedTID EXCEPT ![tid[p]] = TRUE]
           /\ UNCHANGED <<maxTid, tid, curMax, lives>>
  <2> USE <1>2 DEF Step
  <2>1. tid[p] \in Tids
    BY DEF Inv, Positions
  <2>2. TypeOK'
    BY DEF Inv, TypeOK
  <2>3. \A q \in Procs : pc'[q] = IF q = p THEN "loadMax" ELSE pc[q]
    BY DEF Inv, TypeOK
  <2>4. Owns(p)' /\ \A q \in Procs : q # p => (Owns(q)' <=> Owns(q))
    BY <2>3 DEF Owns
  <2>5. \A i \in Tids : usedTID'[i] <=> usedTID[i] \/ i = tid[p]
    BY <2>1 DEF Inv, TypeOK
  <2>6. \A q \in Procs : Owns(q) => tid[q] # tid[p]
    BY <2>1 DEF Inv, UsedIsOwned
  <2>7. Positions'
    BY <2>3 DEF Inv, Positions
  <2>8. UsedIsOwned'
    <3>1. ~Owns(p)
      BY DEF Owns
    <3>2. QED
      BY <2>4, <2>5, <3>1 DEF Inv, UsedIsOwned
  <2>9. TidsAreUnique'
    BY <2>4, <2>6 DEF Inv, TidsAreUnique
  <2>10. RegisteredIsCovered'
    BY <2>3 DEF Inv, RegisteredIsCovered
  <2>11. RoomAhead'
    BY RoomKept DEF Inv, From
  <2>12. QED
    BY <2>2, <2>7, <2>8, <2>9, <2>10, <2>11 DEF Inv
<1>3. QED
  BY <1>1, <1>2 DEF CasUsed

\* A thread is registered only when maxTid is above its identifier.
LEMMA LoadMaxInv ==
  ASSUME Inv, NEW p \in Procs, LoadMax(p)
  PROVE  Inv'
<1> USE DEF LoadMax, Step
<1>1. \A q \in Procs : pc'[q] = IF q # p THEN pc[q]
                                ELSE IF NotCovered(p) THEN "casMax"
                                ELSE "registered"
  BY DEF Inv, TypeOK
<1>2. TypeOK'
  BY DEF Inv, TypeOK
<1>3. \A q \in Procs : Owns(q)' <=> Owns(q)
  BY <1>1 DEF Owns
<1>4. Positions'
  BY <1>1 DEF Inv, TypeOK, Positions, NotCovered
<1>5. UsedIsOwned' /\ TidsAreUnique'
  BY <1>3 DEF Inv, UsedIsOwned, TidsAreUnique
<1>6. RegisteredIsCovered'
  <2>1. ~NotCovered(p) => tid[p] < maxTid
    BY DEF NotCovered, Inv, TypeOK
  <2>2. QED
    BY <1>1, <2>1 DEF Inv, RegisteredIsCovered
<1>7. RoomAhead'
  BY RoomKept DEF Inv, From
<1>8. QED
  BY <1>2, <1>4, <1>5, <1>6, <1>7 DEF Inv

\* The compare-and-swap on maxTid never lowers it.
LEMMA CasMaxInv ==
  ASSUME Inv, NEW p \in Procs, CasMax(p)
  PROVE  Inv'
<1> USE DEF CasMax, Step
<1>1. tid[p] \in 0 .. MaxThreads - 1 /\ curMax[p] <= tid[p]
  BY DEF Inv, Positions, Tids
<1>2. \A q \in Procs : pc'[q] = IF q = p THEN "loadMax" ELSE pc[q]
  BY DEF Inv, TypeOK
<1>3. TypeOK'
  BY <1>1 DEF Inv, TypeOK
<1>4. maxTid <= maxTid'
  BY <1>1 DEF Inv, TypeOK
<1>5. \A q \in Procs : Owns(q)' <=> Owns(q)
  BY <1>2 DEF Owns
<1>6. Positions'
  BY <1>2 DEF Inv, Positions
<1>7. UsedIsOwned' /\ TidsAreUnique'
  BY <1>5 DEF Inv, UsedIsOwned, TidsAreUnique
<1>8. RegisteredIsCovered'
  <2>1. \A q \in Procs : pc'[q] = "registered" => tid[q] < maxTid
    BY <1>2 DEF Inv, RegisteredIsCovered
  <2>2. \A q \in Procs : tid[q] \in Int
    BY DEF Inv, TypeOK
  <2>3. maxTid \in Int /\ maxTid' \in Int
    BY <1>3 DEF Inv, TypeOK
  <2>4. QED
    BY <1>4, <2>1, <2>2, <2>3 DEF RegisteredIsCovered
<1>9. RoomAhead'
  BY RoomKept DEF Inv, From
<1>10. QED
  BY <1>3, <1>6, <1>7, <1>8, <1>9 DEF Inv

LEMMA DeregisterInv ==
  ASSUME Inv, NEW p \in Procs, Deregister(p)
  PROVE  Inv'
<1> USE DEF Deregister, Step
<1>1. tid[p] \in Tids /\ Owns(p)
  BY DEF Inv, Positions, Owns
<1>2. \A q \in Procs : /\ pc'[q] = IF q = p THEN "start" ELSE pc[q]
                       /\ tid'[q] = IF q = p THEN 0 ELSE tid[q]
  BY DEF Inv, TypeOK
<1>3. TypeOK'
  BY <1>1 DEF Inv, TypeOK
<1>4. ~Owns(p)' /\ \A q \in Procs : q # p => (Owns(q)' <=> Owns(q))
  BY <1>2 DEF Owns
<1>5. \A i \in Tids : usedTID'[i] <=> usedTID[i] /\ i # tid[p]
  BY <1>1 DEF Inv, TypeOK
<1>6. \A q \in Procs : Owns(q) /\ q # p => tid[q] # tid[p]
  BY <1>1 DEF Inv, TidsAreUnique
<1>7. Positions'
  BY <1>2 DEF Inv, Positions, Tids
<1>8. UsedIsOwned'
  BY <1>2, <1>4, <1>5, <1>6 DEF Inv, UsedIsOwned
<1>9. TidsAreUnique'
  BY <1>2, <1>4 DEF Inv, TidsAreUnique
<1>10. RegisteredIsCovered'
  BY <1>2 DEF Inv, RegisteredIsCovered
<1>11. RoomAhead'
  <2>1. \A q \in Procs : tid[q] \in Nat /\ tid'[q] <= tid[q]
    BY <1>2 DEF Inv, TypeOK
  <2>2. \A q \in Procs : tid'[q] \in Nat
    BY <1>3 DEF TypeOK
  <2>3. \A k \in 0 .. MaxThreads : From(k)' \subseteq From(k)
    BY <2>1, <2>2 DEF From
  <2>4. QED
    BY <2>3, RoomKept DEF Inv
<1>12. QED
  BY <1>3, <1>7, <1>8, <1>9, <1>10, <1>11 DEF Inv

LEMMA NextInv == Inv /\ [Next]_vars => Inv'
<1> SUFFICES ASSUME Inv, [Next]_vars
             PROVE  Inv'
  OBVIOUS
<1>1. ASSUME NEW p \in Procs, Start(p) \/ Register(p) \/ Deregister(p)
      PROVE  Inv'
  BY <1>1, StartInv, LoadUsedInv, CasUsedInv, LoadMaxInv, CasMaxInv,
     DeregisterInv DEF Register
<1>2. CASE UNCHANGED vars
  BY <1>2 DEF vars, Inv, TypeOK, Positions, UsedIsOwned, TidsAreUnique,
     RegisteredIsCovered, RoomAhead, From, Owns
<1>3. QED
  BY <1>1, <1>2 DEF Next, Finished

\* In every reachable state identifiers are owned by one thread, covered by
\* maxTid, and there is room for the threads that still look for one.
THEOREM Invariance == Spec => []Inv
<1>1. QED
  BY InitInv, NextInv, PTL DEF Spec

\* No identifier belongs to two threads at a time.
THEOREM IdentifiersAreUnique == Spec => []TidsAreUnique
<1>1. Inv => TidsAreUnique
  BY DEF Inv
<1>2. QED
  BY <1>1, Invariance, PTL

\* A scan up to maxTid misses no registered thread.
THEOREM ScansMissNobody == Spec => []RegisteredIsCovered
<1>1. Inv => RegisteredIsCovered
  BY DEF Inv
<1>2. QED
  BY <1>1, Invariance, PTL

\* A thread always finds an identifier.
THEOREM AlwaysRoom == Spec => []NeverFull
<1>1. ASSUME Inv
      PROVE  NeverFull
  <2> SUFFICES ASSUME NEW p \in Procs, pc[p] = "full"
               PROVE  FALSE
    BY DEF NeverFull
  <2>1. p \in From(MaxThreads)
    BY <1>1 DEF Inv, Positions, From
  <2>2. Cardinality(From(MaxThreads)) <= 0
    BY <1>1 DEF Inv, RoomAhead
  <2>3. From(MaxThreads) \in SUBSET Procs
    BY DEF From
  <2>4. From(MaxThreads) = {}
    BY <2>2, <2>3, FiniteProcs, FS_EmptySet
  <2>5. QED
    BY <2>1, <2>4
<1>2. QED
  BY <1>1, Invariance, PTL

(***************************************************************************)
(* CRWWPSTM.                                                               *)
(***************************************************************************)

\* A thread is a natural number, and not UNLOCKED.
LEMMA ProcsAreNumbers == \A p \in Procs : p \in Nat /\ p # UNLOCKED
<1>1. Cardinality(Procs) \in Nat
  BY FiniteProcs
<1>2. QED
  BY <1>1, CallsAssumption DEF UNLOCKED

(***************************************************************************)
(* The registry in the composition.                                        *)
(***************************************************************************)

LEMMA RegistryRefined == [StmNext]_<<vars, stmVars>> => [Next]_vars
BY DEF StmNext, RegistryStep, Next, Finished

\* The threads of CRWWPSTM register and deregister as those of the registry
\* alone, so that what is proved of it is true of them.
THEOREM ImplementsRegistry == StmSpec => Spec
<1>1. StmInit => Init
  BY DEF StmInit
<1>2. QED
  BY <1>1, RegistryRefined, PTL DEF StmSpec, Spec

LEMMA RegistryInvariance == StmSpec => []Inv
BY ImplementsRegistry, Invariance, PTL

(***************************************************************************)
(* The lock and the slots.                                                 *)
(***************************************************************************)

LEMMA StmInitInv == StmInit => StmInv
<1> SUFFICES ASSUME StmInit
             PROVE  StmInv
  OBVIOUS
<1> USE DEF StmInit, Local
<1>1. StmTypeOK
  BY DEF StmTypeOK, Calling, Locals, Steps
<1>2. \A p \in Procs : st[p].pc = "idle" /\ st[p].i = 0
  OBVIOUS
<1>3. Callers /\ ReadersShow /\ ReadersStopWriters /\ LoopsCoverOwner
  BY <1>2 DEF Callers, ReadersShow, ReadersStopWriters, LoopsCoverOwner,
     Held, Combining, Arrived, Inside
<1>4. SlotsAreCalls
  BY DEF SlotsAreCalls
<1>5. QED
  BY <1>1, <1>3, <1>4 DEF StmInv

\* A step changes the local state of its thread only.
LEMMA GoStep ==
  ASSUME st \in [Procs -> Locals], NEW p \in Procs, NEW from,
         NEW to \in Steps, NEW new \in Locals, Go(p, from, to, new)
  PROVE  /\ st' \in [Procs -> Locals]
         /\ st[p].pc = from /\ st'[p].pc = to
         /\ st'[p].k = new.k /\ st'[p].announced = new.announced
         /\ st'[p].i = new.i /\ st'[p].max = new.max
         /\ st'[p].some = new.some /\ st'[p].fn = new.fn
BY DEF Go, Locals

LEMMA ReturnStep ==
  ASSUME st \in [Procs -> Locals], NEW p \in Procs, NEW from,
         NEW result \in Int, Return(p, from, result)
  PROVE  /\ st' \in [Procs -> Locals]
         /\ st[p].pc = from
         /\ st' = [st EXCEPT ![p] =
                   [Local EXCEPT !.k = st[p].k + 1, !.ret = result]]
<1>1. st[p].k + 1 \in Int
  BY DEF Locals
<1>2. Local \in Locals
  BY DEF Local, Locals, Steps, Calling
<1>3. [Local EXCEPT !.k = st[p].k + 1, !.ret = result] \in Locals
  BY <1>1, <1>2 DEF Locals
<1>4. QED
  BY <1>3 DEF Return, Local, Locals

\* What the steps write to the local state of a thread has its type.
LEMMA Updates ==
  ASSUME NEW s \in Locals, NEW n \in Nat, NEW m \in Int, NEW b \in BOOLEAN,
         NEW f \in Calling
  PROVE  /\ [s EXCEPT !.i = n] \in Locals
         /\ [s EXCEPT !.max = m, !.i = n] \in Locals
         /\ [s EXCEPT !.some = b, !.i = n] \in Locals
         /\ [s EXCEPT !.fn = f] \in Locals
         /\ [s EXCEPT !.fn = f, !.i = n] \in Locals
         /\ [s EXCEPT !.announced = b] \in Locals
         /\ [s EXCEPT !.res = m] \in Locals
BY DEF Locals

LEMMA Fields ==
  ASSUME NEW s \in Locals
  PROVE  /\ s.pc \in Steps /\ s.k \in Int /\ s.announced \in BOOLEAN
         /\ s.i \in Nat /\ s.i + 1 \in Nat /\ s.max \in Int
         /\ s.some \in BOOLEAN /\ s.fn \in Calling /\ s.res \in Int
         /\ \A q \in Procs : <<q, s.k>> \in Calling
         /\ NoCall \in Calling
BY DEF Locals, Calling

\* Who takes a step of a call has an identifier below maxTid.
LEMMA CallerIsRegistered ==
  ASSUME Inv, StmInv, NEW p \in Procs, Writer(p) \/ Reader(p)
  PROVE  /\ pc[p] = "registered"
         /\ tid[p] \in Tids /\ tid[p] < maxTid
         /\ maxTid \in Int /\ maxTid <= MaxThreads
<1>1. pc[p] = "registered"
  <2>1. CASE st[p].pc = "idle"
    BY <2>1 DEF Writer, Reader, UpdateTx, ReadTx, Call, LockCohort, CheckDone,
       IsEmpty, CheckWaiting, ReadMax, Collect, LoadMutation, RunMutation,
       ClearSlot, Unlock, Arrive, IsLocked, Depart, AnnounceRead, Spin,
       CheckRead, ReadFunc, Withdraw, Leave, Goto, Go, Return
  <2>2. CASE st[p].pc # "idle"
    BY <2>2 DEF StmInv, Callers
  <2>3. QED
    BY <2>1, <2>2
<1>2. QED
  BY <1>1 DEF Inv, TypeOK, Positions, RegisteredIsCovered, Tids

LEMMA WriterType ==
  ASSUME Inv, StmInv, NEW p \in Procs, Writer(p), UNCHANGED vars
  PROVE  StmTypeOK'
<1> USE DEF StmInv, StmTypeOK
<1>1. st[p] \in Locals /\ tid[p] \in Tids /\ maxTid \in Int
  BY CallerIsRegistered
<1>2. Result \in Int /\ results[tid[p]] \in Int
  BY <1>1 DEF Result
<1> USE <1>1, <1>2
<1>3. CASE UpdateTx(p)
  <2>1. Goto(p, "idle", "lock") /\ <<p, st[p].k>> \in Calling
    BY <1>3, Fields DEF UpdateTx, Call
  <2>2. st' \in [Procs -> Locals]
    BY <2>1, GoStep DEF Goto, Steps, Held, Combining, Arrived
  <2>3. QED
    BY <1>3, <2>1, <2>2 DEF UpdateTx, Announce
<1>4. CASE LockCohort(p)
  BY <1>4, GoStep, ReturnStep, Updates, Fields
     DEF LockCohort, Goto, Steps, Held, Combining, Arrived
<1>5. CASE CheckDone(p)
  BY <1>5, GoStep, ReturnStep, Updates, Fields
     DEF CheckDone, Goto, Steps, Held, Combining, Arrived
<1>6. CASE IsEmpty(p)
  BY <1>6, GoStep, ReturnStep, Updates, Fields
     DEF IsEmpty, Goto, Steps, Held, Combining, Arrived
<1>7. CASE CheckWaiting(p)
  BY <1>7, GoStep, ReturnStep, Updates, Fields
     DEF CheckWaiting, Goto, Steps, Held, Combining, Arrived
<1>8. CASE ReadMax(p)
  BY <1>8, GoStep, ReturnStep, Updates, Fields
     DEF ReadMax, Goto, Steps, Held, Combining, Arrived
<1>9. CASE Collect(p)
  BY <1>9, GoStep, ReturnStep, Updates, Fields
     DEF Collect, Goto, Steps, Held, Combining, Arrived
<1>10. CASE LoadMutation(p)
  <2>1. st[p].i < st[p].max => fc[st[p].i] \in Calling
    <3>1. st[p].pc = "load"
      BY <1>10 DEF LoadMutation, Go, Goto
    <3>2. st[p].i < st[p].max => st[p].i \in Tids
      BY <3>1, Fields, RegistryAssumption DEF LoopsCoverOwner, Tids
    <3>3. QED
      BY <3>2
  <2>2. st' \in [Procs -> Locals]
    BY <1>10, <2>1, GoStep, Updates, Fields
       DEF LoadMutation, Goto, Steps, Held, Combining
  <2>3. QED
    BY <1>10, <2>2 DEF LoadMutation
<1>11. CASE RunMutation(p)
  <2>1. st' \in [Procs -> Locals]
    BY <1>11, GoStep DEF RunMutation, Goto, Steps, Held, Combining
  <2>2. results' \in [Tids -> Int]
    BY <1>11 DEF RunMutation
  <2>3. object' \in Seq(Calling)
    BY <1>11, Fields DEF RunMutation
  <2>4. QED
    BY <1>11, <2>1, <2>2, <2>3 DEF RunMutation
<1>12. CASE ClearSlot(p)
  BY <1>12, GoStep, ReturnStep, Updates, Fields
     DEF ClearSlot, Goto, Steps, Held, Combining, Arrived
<1>13. CASE Unlock(p)
  BY <1>13, GoStep, ReturnStep, Updates, Fields
     DEF Unlock, Goto, Steps, Held, Combining, Arrived
<1>14. QED
  BY <1>3, <1>4, <1>5, <1>6, <1>7, <1>8, <1>9, <1>10, <1>11, <1>12, <1>13
     DEF Writer

LEMMA ReaderType ==
  ASSUME Inv, StmInv, NEW p \in Procs, Reader(p), UNCHANGED vars
  PROVE  StmTypeOK'
<1> USE DEF StmInv, StmTypeOK
<1>1. st[p] \in Locals /\ tid[p] \in Tids /\ maxTid \in Int
  BY CallerIsRegistered
<1>2. Result \in Int /\ results[tid[p]] \in Int
  BY <1>1 DEF Result
<1> USE <1>1, <1>2
<1>3. CASE ReadTx(p)
  <2>1. Goto(p, "idle", "arrive")
    BY <1>3 DEF ReadTx, Call
  <2>2. st' \in [Procs -> Locals]
    BY <2>1, GoStep DEF Goto, Steps, Held, Combining, Arrived
  <2>3. QED
    BY <1>3, <2>2 DEF ReadTx
<1>4. CASE Arrive(p)
  BY <1>4, GoStep, ReturnStep, Updates, Fields
     DEF Arrive, Goto, Steps, Held, Combining, Arrived
<1>5. CASE IsLocked(p)
  BY <1>5, GoStep, ReturnStep, Updates, Fields
     DEF IsLocked, Goto, Steps, Held, Combining, Arrived
<1>6. CASE Depart(p)
  BY <1>6, GoStep, ReturnStep, Updates, Fields
     DEF Depart, Goto, Steps, Held, Combining, Arrived
<1>7. CASE AnnounceRead(p)
  <2>1. [st[p] EXCEPT !.announced = TRUE] \in Locals
    BY Updates
  <2>2. st' \in [Procs -> Locals]
    BY <1>7, <2>1, GoStep DEF AnnounceRead, Steps
  <2>3. <<p, st[p].k>> \in Calling
    BY Fields
  <2>4. QED
    BY <1>7, <2>2, <2>3 DEF AnnounceRead, Announce
<1>8. CASE Spin(p)
  BY <1>8, GoStep, ReturnStep, Updates, Fields
     DEF Spin, Goto, Steps, Held, Combining, Arrived
<1>9. CASE CheckRead(p)
  BY <1>9, GoStep, ReturnStep, Updates, Fields
     DEF CheckRead, Goto, Steps, Held, Combining, Arrived
<1>10. CASE ReadFunc(p)
  BY <1>10, GoStep, ReturnStep, Updates, Fields
     DEF ReadFunc, Goto, Steps, Held, Combining, Arrived
<1>11. CASE Withdraw(p)
  BY <1>11, GoStep, ReturnStep, Updates, Fields
     DEF Withdraw, Goto, Steps, Held, Combining, Arrived
<1>12. CASE Leave(p)
  BY <1>12, GoStep, ReturnStep, Updates, Fields
     DEF Leave, Goto, Steps, Held, Combining, Arrived
<1>13. QED
  BY <1>3, <1>4, <1>5, <1>6, <1>7, <1>8, <1>9, <1>10, <1>11, <1>12 DEF Reader

LEMMA TypeStep ==
  ASSUME Inv, StmInv, NEW p \in Procs, Writer(p) \/ Reader(p), UNCHANGED vars
  PROVE  StmTypeOK'
BY WriterType, ReaderType

\* A step leaves the local state of other threads alone.
LEMMA OnlyItself ==
  ASSUME Inv, StmInv, NEW p \in Procs, Writer(p) \/ Reader(p)
  PROVE  \A q \in Procs : q # p => st'[q] = st[q]
<1>1. ASSUME Writer(p)
      PROVE  \A q \in Procs : q # p => st'[q] = st[q]
  BY <1>1 DEF Writer, UpdateTx, Call, LockCohort, CheckDone, IsEmpty,
     CheckWaiting, ReadMax, Collect, LoadMutation, RunMutation, ClearSlot,
     Unlock, Goto, Go, Return, StmInv, StmTypeOK
<1>2. ASSUME Reader(p)
      PROVE  \A q \in Procs : q # p => st'[q] = st[q]
  BY <1>2 DEF Reader, ReadTx, Call, Arrive, IsLocked, Depart, AnnounceRead,
     Spin, CheckRead, ReadFunc, Withdraw, Leave, Goto, Go, Return, StmInv,
     StmTypeOK
<1>3. QED
  BY <1>1, <1>2

\* What the steps with several outcomes write.
Same(p) == st'[p].k = st[p].k /\ st'[p].announced = st[p].announced

LEMMA IsEmptyMoves ==
  ASSUME Inv, StmInv, NEW p \in Procs, IsEmpty(p)
  PROVE  /\ st[p].pc = "isEmpty" /\ Same(p)
         /\ UNCHANGED <<fc, reading, cohort>>
         /\ \/ st'[p].pc = "checkWaiting" /\ st'[p].i = 0
            \/ /\ st[p].i < maxTid /\ ~reading[st[p].i]
               /\ st'[p].pc = "isEmpty" /\ st'[p].i = st[p].i + 1
            \/ st[p].i >= maxTid /\ st'[p].pc = "readMax"
<1> USE DEF Goto, Go, StmInv, StmTypeOK, Locals, Same
<1>1. UNCHANGED <<fc, reading, cohort>>
  BY DEF IsEmpty
<1>2. CASE Go(p, "isEmpty", "checkWaiting", [st[p] EXCEPT !.i = 0])
  BY <1>1, <1>2
<1>3. CASE /\ st[p].i < maxTid /\ ~reading[st[p].i]
           /\ Go(p, "isEmpty", "isEmpty", [st[p] EXCEPT !.i = @ + 1])
  BY <1>1, <1>3
<1>4. CASE st[p].i >= maxTid /\ Goto(p, "isEmpty", "readMax")
  BY <1>1, <1>4
<1>5. QED
  BY <1>2, <1>3, <1>4 DEF IsEmpty

LEMMA CollectMoves ==
  ASSUME Inv, StmInv, NEW p \in Procs, Collect(p)
  PROVE  /\ st[p].pc = "collect" /\ Same(p) /\ st'[p].max = st[p].max
         /\ UNCHANGED <<fc, reading, cohort>>
         /\ \/ /\ st'[p].pc = "collect" /\ st'[p].i = st[p].i + 1
               /\ ~st'[p].some => ~st[p].some /\ fc[st[p].i] = NoCall
            \/ /\ st[p].i = st[p].max /\ st'[p].i = 0
               /\ st'[p].pc = IF st[p].some THEN "load" ELSE "unlock"
<1> USE DEF Go, StmInv, StmTypeOK, Locals, Same
<1>1. UNCHANGED <<fc, reading, cohort>>
  BY DEF Collect
<1>2. CASE Go(p, "collect", "collect",
              [st[p] EXCEPT !.some = @ \/ fc[st[p].i] # NoCall, !.i = @ + 1])
  BY <1>1, <1>2
<1>3. CASE /\ st[p].i = st[p].max
           /\ Go(p, "collect", IF st[p].some THEN "load" ELSE "unlock",
                 [st[p] EXCEPT !.i = 0])
  BY <1>1, <1>3
<1>4. QED
  BY <1>2, <1>3 DEF Collect

LEMMA LoadMoves ==
  ASSUME Inv, StmInv, NEW p \in Procs, LoadMutation(p)
  PROVE  /\ st[p].pc = "load" /\ Same(p) /\ st'[p].max = st[p].max
         /\ UNCHANGED <<fc, reading, cohort>>
         /\ \/ /\ fc[st[p].i] = NoCall
               /\ st'[p].pc = "load" /\ st'[p].i = st[p].i + 1
            \/ /\ st[p].i < st[p].max /\ fc[st[p].i] # NoCall
               /\ st'[p].pc = "run" /\ st'[p].i = st[p].i
               /\ st'[p].fn = fc[st[p].i]
            \/ st[p].i = st[p].max /\ st'[p].pc = "unlock"
<1> USE DEF Goto, Go, StmInv, StmTypeOK, Locals, Same
<1>1. UNCHANGED <<fc, reading, cohort>>
  BY DEF LoadMutation
<1>2. CASE /\ fc[st[p].i] = NoCall
           /\ Go(p, "load", "load", [st[p] EXCEPT !.i = @ + 1])
  BY <1>1, <1>2
<1>3. CASE /\ st[p].i < st[p].max /\ fc[st[p].i] # NoCall
           /\ Go(p, "load", "run", [st[p] EXCEPT !.fn = fc[st[p].i]])
  BY <1>1, <1>3
<1>4. CASE st[p].i = st[p].max /\ Goto(p, "load", "unlock")
  BY <1>1, <1>4
<1>5. QED
  BY <1>2, <1>3, <1>4 DEF LoadMutation

LEMMA LockMoves ==
  ASSUME Inv, StmInv, NEW p \in Procs, LockCohort(p)
  PROVE  /\ st[p].pc = "lock" /\ Same(p) /\ st'[p].i = st[p].i
         /\ UNCHANGED <<fc, reading>>
         /\ \/ cohort = UNLOCKED /\ cohort' = p /\ st'[p].pc = "isEmpty"
            \/ cohort' = cohort /\ st'[p].pc = "checkDone"
<1> USE DEF Goto, Go, StmInv, StmTypeOK, Locals, Same
<1>1. UNCHANGED <<fc, reading>>
  BY DEF LockCohort
<1>2. CASE cohort = UNLOCKED /\ cohort' = p /\ Goto(p, "lock", "isEmpty")
  BY <1>1, <1>2
<1>3. CASE cohort' = cohort /\ Goto(p, "lock", "checkDone")
  BY <1>1, <1>3
<1>4. QED
  BY <1>2, <1>3 DEF LockCohort

\* A call returns, or goes on waiting.
LEMMA WaitMoves ==
  ASSUME Inv, StmInv, NEW p \in Procs,
         CheckDone(p) \/ CheckWaiting(p) \/ CheckRead(p)
  PROVE  /\ st[p].pc \in {"checkDone", "checkWaiting", "checkRead"}
         /\ UNCHANGED <<fc, reading>>
         /\ \/ /\ Done(p) /\ st'[p].pc = "idle" /\ st'[p].i = 0
               /\ cohort' = IF st[p].pc = "checkWaiting" THEN UNLOCKED
                            ELSE cohort
            \/ /\ st'[p].i = st[p].i /\ Same(p) /\ cohort' = cohort
               /\ \/ st[p].pc = "checkDone" /\ st'[p].pc = "lock"
                  \/ st[p].pc = "checkWaiting" /\ st'[p].pc = "isEmpty"
                  \/ st[p].pc = "checkRead" /\ st'[p].pc = "spin"
<1> USE DEF StmInv, StmTypeOK
<1>1. ASSUME NEW from, NEW result, Return(p, from, result)
      PROVE  st[p].pc = from /\ st'[p].pc = "idle" /\ st'[p].i = 0
  BY <1>1 DEF Return, Local
<1>2. ASSUME NEW from, NEW to, Goto(p, from, to)
      PROVE  /\ st[p].pc = from /\ st'[p].pc = to
             /\ st'[p].i = st[p].i /\ Same(p)
  BY <1>2 DEF Goto, Go, Locals, Same
<1>3. CASE CheckDone(p)
  BY <1>1, <1>2, <1>3 DEF CheckDone
<1>4. CASE CheckWaiting(p)
  BY <1>1, <1>2, <1>4 DEF CheckWaiting
<1>5. CASE CheckRead(p)
  BY <1>1, <1>2, <1>5 DEF CheckRead
<1>6. QED
  BY <1>3, <1>4, <1>5

\* What the other steps of writers and readers do to shared variables and to
\* what matters of their own.
LEMMA WriterMoves ==
  ASSUME Inv, StmInv, NEW p \in Procs,
         \/ UpdateTx(p) \/ ReadMax(p) \/ RunMutation(p) \/ ClearSlot(p)
         \/ Unlock(p)
  PROVE  /\ reading' = reading
         /\ \/ /\ st[p].pc = "idle" /\ st'[p].pc = "lock" /\ Same(p)
               /\ st'[p].i = st[p].i /\ Announce(p) /\ cohort' = cohort
            \/ /\ st[p].pc = "readMax" /\ st'[p].pc = "collect" /\ Same(p)
               /\ st'[p].i = 0 /\ st'[p].max = maxTid
               /\ fc' = fc /\ cohort' = cohort
            \/ /\ st[p].pc = "run" /\ st'[p].pc = "clear" /\ Same(p)
               /\ st'[p].i = st[p].i /\ st'[p].max = st[p].max
               /\ fc' = fc /\ cohort' = cohort
            \/ /\ st[p].pc = "clear" /\ st'[p].pc = "load" /\ Same(p)
               /\ st'[p].i = st[p].i + 1 /\ st'[p].max = st[p].max
               /\ fc' = [fc EXCEPT ![st[p].i] = NoCall] /\ cohort' = cohort
            \/ /\ st[p].pc = "unlock" /\ st'[p].pc = "idle" /\ st'[p].i = 0
               /\ fc' = fc /\ cohort' = UNLOCKED
<1> USE DEF Goto, Go, StmInv, StmTypeOK, Locals, Same
<1>1. CASE UpdateTx(p)
  BY <1>1 DEF UpdateTx, Call
<1>2. CASE ReadMax(p)
  BY <1>2 DEF ReadMax
<1>3. CASE RunMutation(p)
  BY <1>3 DEF RunMutation
<1>4. CASE ClearSlot(p)
  BY <1>4 DEF ClearSlot
<1>5. CASE Unlock(p)
  BY <1>5 DEF Unlock, Return, Local
<1>6. QED
  BY <1>1, <1>2, <1>3, <1>4, <1>5

LEMMA ReaderMoves ==
  ASSUME Inv, StmInv, NEW p \in Procs, Reader(p), ~CheckRead(p)
  PROVE  /\ cohort' = cohort
         /\ \/ /\ st[p].pc = "idle" /\ st'[p].pc = "arrive" /\ Same(p)
               /\ UNCHANGED <<fc, reading>>
            \/ /\ st[p].pc = "arrive" /\ st'[p].pc = "isLocked" /\ Same(p)
               /\ fc' = fc /\ reading' = [reading EXCEPT ![tid[p]] = TRUE]
            \/ /\ st[p].pc = "isLocked" /\ Same(p)
               /\ \/ cohort = UNLOCKED /\ st'[p].pc = "readFunc"
                  \/ st'[p].pc = "depart"
               /\ UNCHANGED <<fc, reading>>
            \/ /\ st[p].pc = "depart" /\ Same(p)
               /\ st'[p].pc = IF st[p].announced THEN "spin" ELSE "announce"
               /\ fc' = fc /\ reading' = [reading EXCEPT ![tid[p]] = FALSE]
            \/ /\ st[p].pc = "announce" /\ st'[p].pc = "spin"
               /\ st'[p].k = st[p].k /\ st'[p].announced
               /\ Announce(p) /\ reading' = reading
            \/ /\ st[p].pc = "spin" /\ st'[p].pc \in {"arrive", "checkRead"}
               /\ Same(p) /\ UNCHANGED <<fc, reading>>
            \/ /\ st[p].pc = "readFunc" /\ st'[p].pc = "withdraw" /\ Same(p)
               /\ UNCHANGED <<fc, reading>>
            \/ /\ st[p].pc = "withdraw" /\ st'[p].pc = "leave" /\ Same(p)
               /\ fc' = IF st[p].announced THEN [fc EXCEPT ![tid[p]] = NoCall]
                        ELSE fc
               /\ reading' = reading
            \/ /\ st[p].pc = "leave" /\ st'[p].pc = "idle" /\ st'[p].i = 0
               /\ fc' = fc /\ reading' = [reading EXCEPT ![tid[p]] = FALSE]
<1> USE DEF Goto, Go, StmInv, StmTypeOK, Locals, Same
<1>1. CASE ReadTx(p)
  BY <1>1 DEF ReadTx, Call
<1>2. CASE Arrive(p)
  BY <1>2 DEF Arrive
<1>3. CASE IsLocked(p)
  BY <1>3 DEF IsLocked
<1>4. CASE Depart(p)
  BY <1>4 DEF Depart
<1>5. CASE AnnounceRead(p)
  BY <1>5 DEF AnnounceRead
<1>6. CASE Spin(p)
  BY <1>6 DEF Spin
<1>7. CASE ReadFunc(p)
  BY <1>7 DEF ReadFunc
<1>8. CASE Withdraw(p)
  BY <1>8 DEF Withdraw
<1>9. CASE Leave(p)
  BY <1>9 DEF Leave, Return, Local
<1>10. QED
  BY <1>1, <1>2, <1>3, <1>4, <1>5, <1>6, <1>7, <1>8, <1>9 DEF Reader

\* Threads in a call have identifiers of their own, below maxTid.
LEMMA CallersAreCovered ==
  ASSUME Inv, StmInv, NEW q \in Procs, st[q].pc # "idle"
  PROVE  /\ pc[q] = "registered"
         /\ tid[q] \in Tids /\ tid[q] < maxTid
         /\ \A r \in Procs : r # q /\ pc[r] = "registered" => tid[r] # tid[q]
BY DEF StmInv, Callers, Inv, Positions, RegisteredIsCovered, TidsAreUnique,
   Owns

\* The other threads keep what they had, and none of those in a call has the
\* identifier of this one.
LEMMA StepFacts ==
  ASSUME Inv, StmInv, NEW p \in Procs, Writer(p) \/ Reader(p), UNCHANGED vars
  PROVE  /\ \A q \in Procs : q # p => st'[q] = st[q]
         /\ \A q \in Procs : q # p /\ st[q].pc # "idle" => tid[q] # tid[p]
         /\ st[p] \in Locals /\ st'[p] \in Locals
         /\ pc[p] = "registered" /\ tid[p] \in Tids /\ tid[p] < maxTid
         /\ UNCHANGED <<pc, tid, maxTid>>
<1>1. pc[p] = "registered" /\ UNCHANGED <<pc, tid, maxTid>>
  BY CallerIsRegistered DEF vars
<1>2. \A q \in Procs : q # p /\ st[q].pc # "idle" => tid[q] # tid[p]
  BY <1>1, CallersAreCovered
<1>3. QED
  BY <1>1, <1>2, OnlyItself, CallerIsRegistered, TypeStep
     DEF StmInv, StmTypeOK

LEMMA CallersStep ==
  ASSUME Inv, StmInv, NEW p \in Procs, Writer(p) \/ Reader(p), UNCHANGED vars
  PROVE  Callers'
<1> USE DEF Callers, Held, Combining
<1>1. /\ \A q \in Procs : q # p => st'[q] = st[q]
      /\ \A q \in Procs : q # UNLOCKED
      /\ pc[p] = "registered" /\ UNCHANGED pc
      /\ Callers
  BY StepFacts, ProcsAreNumbers DEF StmInv
<1>2. CASE LockCohort(p)
  BY <1>1, <1>2, LockMoves
<1>3. CASE CheckDone(p) \/ CheckWaiting(p) \/ CheckRead(p)
  BY <1>1, <1>3, WaitMoves
<1>4. CASE IsEmpty(p)
  BY <1>1, <1>4, IsEmptyMoves
<1>5. CASE Collect(p)
  BY <1>1, <1>5, CollectMoves
<1>6. CASE LoadMutation(p)
  BY <1>1, <1>6, LoadMoves
<1>7. CASE \/ UpdateTx(p) \/ ReadMax(p) \/ RunMutation(p) \/ ClearSlot(p)
           \/ Unlock(p)
  BY <1>1, <1>7, WriterMoves
<1>8. CASE Reader(p) /\ ~CheckRead(p)
  BY <1>1, <1>8, ReaderMoves
<1>9. QED
  BY <1>2, <1>3, <1>4, <1>5, <1>6, <1>7, <1>8 DEF Writer

LEMMA ReadersShowStep ==
  ASSUME Inv, StmInv, NEW p \in Procs, Writer(p) \/ Reader(p), UNCHANGED vars
  PROVE  ReadersShow'
<1> USE DEF ReadersShow, Arrived
<1>1. /\ \A q \in Procs : q # p => st'[q] = st[q]
      /\ \A q \in Procs : q # p /\ st[q].pc # "idle" => tid[q] # tid[p]
      /\ tid[p] \in Tids /\ UNCHANGED tid
      /\ ReadersShow /\ reading \in [Tids -> BOOLEAN]
  BY StepFacts DEF StmInv, StmTypeOK
<1>2. CASE /\ reading' = reading
           /\ st[p].pc \in Arrived <=> st'[p].pc \in Arrived
  BY <1>1, <1>2
<1>3. CASE /\ Reader(p) /\ ~CheckRead(p)
           /\ st[p].pc \in {"arrive", "depart", "leave"}
  <2>1. CASE st[p].pc = "arrive"
    BY <1>1, <1>3, <2>1, ReaderMoves
  <2>2. CASE st[p].pc \in {"depart", "leave"}
    BY <1>1, <1>3, <2>2, ReaderMoves
  <2>3. QED
    BY <1>3, <2>1, <2>2, ReaderMoves
<1>4. CASE LockCohort(p)
  BY <1>2, <1>4, LockMoves
<1>5. CASE CheckDone(p) \/ CheckWaiting(p) \/ CheckRead(p)
  BY <1>2, <1>5, WaitMoves
<1>6. CASE IsEmpty(p)
  BY <1>2, <1>6, IsEmptyMoves
<1>7. CASE Collect(p)
  BY <1>2, <1>7, CollectMoves
<1>8. CASE LoadMutation(p)
  BY <1>2, <1>8, LoadMoves
<1>9. CASE \/ UpdateTx(p) \/ ReadMax(p) \/ RunMutation(p) \/ ClearSlot(p)
           \/ Unlock(p)
  BY <1>2, <1>9, WriterMoves
<1>10. CASE Reader(p) /\ ~CheckRead(p)
  BY <1>2, <1>3, <1>10, ReaderMoves
<1>11. QED
  BY <1>4, <1>5, <1>6, <1>7, <1>8, <1>9, <1>10 DEF Writer

\* A reader gets inside only while nobody has the lock; after that the scan of
\* isEmpty finds it.
LEMMA ReadersStopWritersStep ==
  ASSUME Inv, StmInv, NEW p \in Procs, Writer(p) \/ Reader(p), UNCHANGED vars
  PROVE  ReadersStopWriters'
<1> USE DEF ReadersStopWriters, Inside, Combining
<1>1. /\ \A q \in Procs : q # p => st'[q] = st[q]
      /\ UNCHANGED tid
      /\ ReadersStopWriters /\ Callers
  BY StepFacts DEF StmInv
<1>2. \A q \in Procs : st[q].i \in Nat /\ tid[q] \in Nat /\ maxTid \in Int
  BY DEF StmInv, StmTypeOK, Locals, Inv, TypeOK
<1>3. CASE LockCohort(p)
  BY <1>1, <1>2, <1>3, LockMoves DEF Callers
<1>4. CASE CheckDone(p) \/ CheckWaiting(p) \/ CheckRead(p)
  BY <1>1, <1>2, <1>4, WaitMoves DEF Callers
<1>5. CASE IsEmpty(p)
  <2>1. ASSUME NEW q \in Procs, st[q].pc \in Inside
        PROVE  reading[tid[q]] /\ tid[q] < maxTid
    BY <2>1, CallersAreCovered DEF StmInv, ReadersShow, Arrived
  <2>2. QED
    BY <1>1, <1>2, <1>5, <2>1, IsEmptyMoves
<1>6. CASE Collect(p)
  BY <1>1, <1>6, CollectMoves
<1>7. CASE LoadMutation(p)
  BY <1>1, <1>7, LoadMoves
<1>8. CASE \/ UpdateTx(p) \/ ReadMax(p) \/ RunMutation(p) \/ ClearSlot(p)
           \/ Unlock(p)
  BY <1>1, <1>8, WriterMoves
<1>9. CASE Reader(p) /\ ~CheckRead(p)
  <2>1. cohort = UNLOCKED => \A q \in Procs : st[q].pc \notin Held
    BY <1>1, ProcsAreNumbers DEF Callers
  <2>2. QED
    BY <1>1, <1>9, <2>1, ReaderMoves DEF Held
<1>10. QED
  BY <1>3, <1>4, <1>5, <1>6, <1>7, <1>8, <1>9 DEF Writer

\* The owner of a slot announces its function, and it or the owner of the
\* lock takes it out before the call returns.
LEMMA SlotsAreCallsStep ==
  ASSUME Inv, StmInv, NEW p \in Procs, Writer(p) \/ Reader(p), UNCHANGED vars
  PROVE  SlotsAreCalls'
<1> USE DEF SlotsAreCalls, Waiting, Held, Combining
<1>1. /\ \A q \in Procs : q # p => st'[q] = st[q]
      /\ \A q \in Procs : q # p /\ st[q].pc # "idle" => tid[q] # tid[p]
      /\ tid[p] \in Tids /\ UNCHANGED tid
      /\ SlotsAreCalls /\ fc \in [Tids -> Calling]
  BY StepFacts DEF StmInv, StmTypeOK
<1>2. ASSUME \A i \in Tids : fc'[i] # NoCall => fc'[i] = fc[i],
             \/ Waiting(p) => Waiting(p)' /\ st'[p].k = st[p].k
             \/ fc'[tid[p]] = NoCall
      PROVE  SlotsAreCalls'
  <2> SUFFICES ASSUME NEW i \in Tids, fc'[i] # NoCall
               PROVE  \E q \in Procs : /\ Waiting(q)' /\ tid[q] = i
                                       /\ fc'[i] = <<q, st'[q].k>>
    BY <1>1
  <2> HIDE DEF Waiting
  <2>1. PICK q \in Procs : Waiting(q) /\ tid[q] = i /\ fc[i] = <<q, st[q].k>>
    BY <1>1, <1>2
  <2>2. CASE q = p
    BY <1>2, <2>1, <2>2
  <2>3. CASE q # p
    BY <1>1, <1>2, <2>1, <2>3 DEF Waiting
  <2>4. QED
    BY <2>2, <2>3
<1>3. CASE LockCohort(p)
  BY <1>2, <1>3, LockMoves DEF Same
<1>4. CASE CheckDone(p) \/ CheckWaiting(p) \/ CheckRead(p)
  BY <1>2, <1>4, WaitMoves DEF Same, Done
<1>5. CASE IsEmpty(p)
  BY <1>2, <1>5, IsEmptyMoves DEF Same
<1>6. CASE Collect(p)
  <2>1. st[p].i = st[p].max /\ ~st[p].some /\ st[p].pc = "collect" =>
          fc[tid[p]] = NoCall
    BY <1>1 DEF StmInv, LoopsCoverOwner, StmTypeOK, Locals
  <2>2. QED
    BY <1>2, <1>6, <2>1, CollectMoves DEF Same
<1>7. CASE LoadMutation(p)
  <2>1. st[p].i = st[p].max /\ st[p].pc = "load" => fc[tid[p]] = NoCall
    BY <1>1 DEF StmInv, LoopsCoverOwner, StmTypeOK, Locals
  <2>2. QED
    BY <1>2, <1>7, <2>1, LoadMoves DEF Same
<1>8. CASE UpdateTx(p) \/ AnnounceRead(p)
  <2>1. /\ fc' = [fc EXCEPT ![tid[p]] = <<p, st[p].k>>]
        /\ st'[p].k = st[p].k /\ Waiting(p)' /\ ~Waiting(p)
    <3>1. CASE UpdateTx(p)
      <4>1. st[p].pc = "idle"
        BY <3>1 DEF UpdateTx, Call, Goto, Go
      <4>2. QED
        BY <3>1, <4>1, WriterMoves DEF Announce, Same
    <3>2. CASE AnnounceRead(p)
      <4>1. st[p].pc = "announce"
        BY <3>2 DEF AnnounceRead, Go
      <4>2. Reader(p) /\ ~CheckRead(p)
        BY <3>2, <4>1 DEF Reader, CheckRead, Return, Goto, Go
      <4>3. QED
        BY <4>1, <4>2, ReaderMoves DEF Announce
    <3>3. QED
      BY <1>8, <3>1, <3>2
  <2> HIDE DEF Waiting
  <2>2. SUFFICES ASSUME NEW i \in Tids, fc'[i] # NoCall
                 PROVE  \E q \in Procs : /\ Waiting(q)' /\ tid[q] = i
                                         /\ fc'[i] = <<q, st'[q].k>>
    BY <1>1
  <2>3. CASE i = tid[p]
    BY <1>1, <2>1, <2>3
  <2>4. CASE i # tid[p]
    <3>1. PICK q \in Procs : Waiting(q) /\ tid[q] = i /\ fc[i] = <<q, st[q].k>>
      BY <1>1, <2>1, <2>2, <2>4
    <3>2. q # p
      BY <2>4, <3>1
    <3>3. QED
      BY <1>1, <2>1, <2>4, <3>1, <3>2 DEF Waiting
  <2>5. QED
    BY <2>3, <2>4
<1>9. CASE ReadMax(p) \/ RunMutation(p) \/ ClearSlot(p) \/ Unlock(p)
  <2>1. st[p].pc # "idle"
    BY <1>9 DEF ReadMax, RunMutation, ClearSlot, Unlock, Goto, Go, Return
  <2>2. \A i \in Tids : fc'[i] # NoCall => fc'[i] = fc[i]
    BY <1>1, <1>9, <2>1, WriterMoves
  <2>3. Waiting(p) => Waiting(p)' /\ st'[p].k = st[p].k
    BY <1>9, <2>1, WriterMoves DEF Same
  <2>4. QED
    BY <1>2, <2>2, <2>3
<1>10. CASE Reader(p) /\ ~CheckRead(p) /\ ~AnnounceRead(p)
  <2>1. st[p].pc # "announce"
    BY <1>10 DEF Reader, ReadTx, Call, Arrive, IsLocked, Depart, Spin,
       ReadFunc, Withdraw, Leave, Goto, Go, Return
  <2>2. \A i \in Tids : fc'[i] # NoCall => fc'[i] = fc[i]
    BY <1>1, <1>10, <2>1, ReaderMoves
  <2>3. \/ Waiting(p) => Waiting(p)' /\ st'[p].k = st[p].k
        \/ fc'[tid[p]] = NoCall
    BY <1>1, <1>10, <2>1, ReaderMoves DEF Same
  <2>4. QED
    BY <1>2, <2>2, <2>3
<1>11. QED
  BY <1>3, <1>4, <1>5, <1>6, <1>7, <1>8, <1>9, <1>10 DEF Writer

\* No function is announced in the slot of a thread that is about to announce
\* one.
LEMMA SlotIsFree ==
  ASSUME Inv, StmInv, NEW p \in Procs, pc[p] = "registered",
         st[p].pc \in {"idle", "announce"}
  PROVE  fc[tid[p]] = NoCall
<1>1. SUFFICES ASSUME fc[tid[p]] # NoCall
               PROVE  FALSE
  OBVIOUS
<1>2. tid[p] \in Tids
  BY DEF Inv, Positions
<1>3. PICK q \in Procs : Waiting(q) /\ tid[q] = tid[p]
  BY <1>1, <1>2 DEF StmInv, SlotsAreCalls
<1>4. q # p /\ st[q].pc # "idle"
  BY <1>3 DEF Waiting, Held, Combining
<1>5. QED
  BY <1>3, <1>4, CallersAreCovered

\* While a thread runs a function, and until it takes it out, the slot changes
\* for no other thread.
LEMMA SlotIsKept ==
  ASSUME Inv, StmInv, NEW p \in Procs, Writer(p) \/ Reader(p), UNCHANGED vars,
         NEW q \in Procs, q # p, st[q].pc \in {"run", "clear"}
  PROVE  fc'[st[q].i] = fc[st[q].i]
<1>1. /\ cohort = q /\ st[p].pc \notin Held /\ st[p].pc \notin Inside
      /\ fc[st[q].i] # NoCall /\ fc \in [Tids -> Calling]
  BY DEF StmInv, StmTypeOK, Callers, Held, Combining, ReadersStopWriters,
     LoopsCoverOwner
<1>2. pc[p] = "registered"
  BY StepFacts
<1>3. CASE st[p].pc \in {"idle", "announce"}
  <2>1. fc' = fc \/ Announce(p)
    BY <1>3, WriterMoves, ReaderMoves, LockMoves, WaitMoves, IsEmptyMoves,
       CollectMoves, LoadMoves DEF Writer
  <2>2. st[q].i # tid[p] /\ st[q].i \in Tids
    <3>1. /\ st[q].i \in Nat /\ st[q].max \in Int /\ MaxThreads \in Nat
          /\ st[q].i < st[q].max /\ st[q].max <= MaxThreads
      BY RegistryAssumption DEF StmInv, StmTypeOK, Locals, LoopsCoverOwner
    <3>2. QED
      BY <1>1, <1>2, <1>3, <3>1, SlotIsFree DEF Tids
  <2>3. QED
    BY <1>1, <2>1, <2>2 DEF Announce
<1>4. CASE st[p].pc \notin {"idle", "announce"}
  <2>1. CASE Reader(p) /\ ~CheckRead(p)
    BY <1>1, <1>4, <2>1, ReaderMoves DEF Inside
  <2>2. CASE CheckDone(p) \/ CheckWaiting(p) \/ CheckRead(p)
    BY <2>2, WaitMoves
  <2>3. CASE LockCohort(p)
    BY <2>3, LockMoves
  <2>4. CASE IsEmpty(p) \/ Collect(p) \/ LoadMutation(p)
    BY <2>4, IsEmptyMoves, CollectMoves, LoadMoves
  <2>5. CASE \/ UpdateTx(p) \/ ReadMax(p) \/ RunMutation(p) \/ ClearSlot(p)
             \/ Unlock(p)
    BY <1>1, <1>4, <2>5, WriterMoves DEF Held, Combining
  <2>6. QED
    BY <2>1, <2>2, <2>3, <2>4, <2>5 DEF Writer
<1>5. QED
  BY <1>3, <1>4

LEMMA LoopsCoverOwnerStep ==
  ASSUME Inv, StmInv, NEW p \in Procs, Writer(p) \/ Reader(p), UNCHANGED vars
  PROVE  LoopsCoverOwner'
<1> USE DEF LoopsCoverOwner
<1>1. /\ \A q \in Procs : q # p => st'[q] = st[q]
      /\ \A q \in Procs : q # p /\ st[q].pc # "idle" => tid[q] # tid[p]
      /\ tid[p] \in Tids /\ tid[p] < maxTid /\ UNCHANGED tid
      /\ LoopsCoverOwner /\ fc \in [Tids -> Calling]
  BY StepFacts DEF StmInv, StmTypeOK
<1>2. /\ \A q \in Procs : tid[q] \in Nat
      /\ maxTid \in Int /\ maxTid <= MaxThreads /\ MaxThreads \in Nat
      /\ st[p].i \in Nat /\ st[p].max \in Int /\ st[p].some \in BOOLEAN
  BY RegistryAssumption DEF Inv, TypeOK, StmInv, StmTypeOK, Locals
<1>3. \A i \in Tids \ {tid[p]} : fc[i] = NoCall => fc'[i] = NoCall
  BY <1>1, LockMoves, WaitMoves, IsEmptyMoves, CollectMoves, LoadMoves,
     WriterMoves, ReaderMoves DEF Writer, Announce
<1> DEFINE Covers(q) ==
      /\ st[q].pc \in {"collect", "load", "run", "clear"} =>
           tid[q] < st[q].max /\ st[q].max <= MaxThreads
      /\ st[q].pc \in {"load", "run", "clear"} /\ st[q].i > tid[q] =>
           fc[tid[q]] = NoCall
      /\ st[q].pc = "collect" /\ st[q].i > tid[q] /\ ~st[q].some =>
           fc[tid[q]] = NoCall
      /\ st[q].pc \in {"run", "clear"} =>
           st[q].i < st[q].max /\ fc[st[q].i] # NoCall
      /\ st[q].pc = "run" => st[q].fn = fc[st[q].i]
<1>4. ASSUME NEW q \in Procs, q # p
      PROVE  Covers(q)'
  <2>1. Covers(q) /\ st'[q] = st[q]
    BY <1>1, <1>4
  <2>2. st[q].pc # "idle" => tid[q] \in Tids \ {tid[p]}
    BY <1>1, <1>4, CallersAreCovered
  <2>3. st[q].pc \in {"run", "clear"} => fc'[st[q].i] = fc[st[q].i]
    BY <1>4, SlotIsKept
  <2>4. QED
    BY <1>1, <1>3, <2>1, <2>2, <2>3
<1>5. Covers(p)'
  <2>1. CASE LockCohort(p)
    BY <2>1, LockMoves
  <2>2. CASE CheckDone(p) \/ CheckWaiting(p) \/ CheckRead(p)
    BY <2>2, WaitMoves
  <2>3. CASE IsEmpty(p)
    BY <2>3, IsEmptyMoves
  <2>4. CASE Collect(p)
    BY <1>1, <1>2, <2>4, CollectMoves
  <2>5. CASE LoadMutation(p)
    BY <1>1, <1>2, <2>5, LoadMoves
  <2>6. CASE \/ UpdateTx(p) \/ ReadMax(p) \/ RunMutation(p) \/ ClearSlot(p)
             \/ Unlock(p)
    BY <1>1, <1>2, <2>6, WriterMoves
  <2>7. CASE Reader(p) /\ ~CheckRead(p)
    BY <2>7, ReaderMoves
  <2>8. QED
    BY <2>1, <2>2, <2>3, <2>4, <2>5, <2>6, <2>7 DEF Writer
<1>6. QED
  BY <1>1, <1>4, <1>5

\* The registry gives and takes identifiers of threads that are in no call.
LEMMA RegistryStepInv ==
  ASSUME Inv, Inv', StmInv, NEW p \in Procs, RegistryStep(p)
  PROVE  StmInv'
<1>1. UNCHANGED stmVars /\ st[p].pc = "idle"
  BY DEF RegistryStep
<1>2. \A q \in Procs : q # p => tid'[q] = tid[q] /\ pc'[q] = pc[q]
  BY DEF RegistryStep, Start, Register, Deregister, LoadUsed, CasUsed, LoadMax,
     CasMax, NextTid, Step, Inv, TypeOK
<1> USE <1>1, <1>2 DEF stmVars, StmInv
<1>3. StmTypeOK'
  BY DEF StmTypeOK
<1>4. Callers'
  BY DEF Callers, Held, Combining
<1>5. ReadersShow'
  BY DEF ReadersShow, Arrived
<1>6. ReadersStopWriters'
  BY DEF ReadersStopWriters, Inside, Combining
<1>7. SlotsAreCalls'
  <2>1. \A q \in Procs : Waiting(q) => q # p
    BY DEF Waiting, Held, Combining
  <2>2. \A q \in Procs : Waiting(q)' <=> Waiting(q)
    BY DEF Waiting
  <2>3. QED
    BY <2>1, <2>2 DEF SlotsAreCalls
<1>8. LoopsCoverOwner'
  BY DEF LoopsCoverOwner
<1>9. QED
  BY <1>3, <1>4, <1>5, <1>6, <1>7, <1>8

LEMMA StmNextInv ==
  Inv /\ Inv' /\ StmInv /\ [StmNext]_<<vars, stmVars>> => StmInv'
<1> SUFFICES ASSUME Inv, Inv', StmInv, [StmNext]_<<vars, stmVars>>
             PROVE  StmInv'
  OBVIOUS
<1>1. ASSUME NEW p \in Procs, Writer(p) \/ Reader(p), UNCHANGED vars
      PROVE  StmInv'
  BY <1>1, TypeStep, CallersStep, ReadersShowStep, ReadersStopWritersStep,
     SlotsAreCallsStep, LoopsCoverOwnerStep DEF StmInv
<1>2. ASSUME NEW p \in Procs, RegistryStep(p)
      PROVE  StmInv'
  BY <1>2, RegistryStepInv
<1>3. CASE UNCHANGED <<vars, stmVars>>
  BY <1>3 DEF vars, stmVars, StmInv, StmTypeOK, Callers, ReadersShow,
     ReadersStopWriters, SlotsAreCalls, LoopsCoverOwner, Waiting
<1>4. QED
  BY <1>1, <1>2, <1>3 DEF StmNext, Finished

\* In every reachable state the read indicator shows who reads, a slot holds
\* the function of the call its owner is in, and whoever combines has seen
\* every reader leave.
THEOREM StmInvariance == StmSpec => []StmInv
<1>1. QED
  BY StmInitInv, StmNextInv, RegistryInvariance, PTL DEF StmSpec

\* No two functions run at a time, in combining writers or readers.
THEOREM FunctionsNeverOverlap == StmSpec => []FunctionsExclude
<1>1. StmInv => FunctionsExclude
  BY DEF StmInv, Callers, Held, Combining, ReadersStopWriters, Inside,
     FunctionsExclude
<1>2. QED
  BY <1>1, StmInvariance, PTL

\* A function that is run is that of a call that waits for it, and an
\* identifier that is given away has no function and no reader in its slot.
THEOREM OnlyLiveFunctionsRun == StmSpec => []RunsLiveFunctions
<1>1. ASSUME Inv, StmInv
      PROVE  RunsLiveFunctions
  <2>1. ASSUME NEW p \in Procs, st[p].pc = "run"
        PROVE  st[st[p].fn[1]].k = st[p].fn[2]
    <3>1. /\ fc[st[p].i] # NoCall /\ st[p].fn = fc[st[p].i]
          /\ st[p].i < st[p].max /\ st[p].max <= MaxThreads
          /\ st[p].i \in Nat /\ st[p].max \in Int /\ MaxThreads \in Nat
      BY <1>1, <2>1, RegistryAssumption
         DEF StmInv, LoopsCoverOwner, StmTypeOK, Locals
    <3>2. st[p].i \in Tids
      BY <3>1 DEF Tids
    <3>3. PICK q \in Procs : st[p].fn = <<q, st[q].k>>
      BY <1>1, <3>1, <3>2 DEF StmInv, SlotsAreCalls
    <3>4. QED
      BY <3>3
  <2>2. ASSUME NEW i \in Tids, ~usedTID[i]
        PROVE  fc[i] = NoCall /\ ~reading[i]
    <3>1. \A q \in Procs : st[q].pc # "idle" => tid[q] # i
      BY <1>1, <2>2, CallersAreCovered DEF Inv, UsedIsOwned, Owns
    <3>2. QED
      BY <1>1, <3>1 DEF StmInv, SlotsAreCalls, ReadersShow, Waiting, Held,
         Combining, Arrived
  <2>3. QED
    BY <2>1, <2>2 DEF RunsLiveFunctions
<1>2. QED
  BY <1>1, StmInvariance, RegistryInvariance, PTL

(***************************************************************************)
(* What the calls return.                                                  *)
(***************************************************************************)

\* A step of a call leaves the object and the results alone, returns, or runs
\* a function.
Continues(p) ==
  /\ UNCHANGED <<object, look, results>>
  /\ st'[p].k = st[p].k /\ st'[p].ret = st[p].ret /\ st'[p].res = st[p].res
  /\ st[p].pc \notin {"run", "readFunc"} /\ st'[p].pc # "idle"
  /\ st[p].pc = "idle" =>
       /\ st[p].k <= Len(Calls[p])
       /\ st'[p].pc \in ReaderSteps => Calls[p][st[p].k] = "read"
       /\ st'[p].pc \in {"lock", "arrive"}

ReturnsResult(p, result) ==
  /\ UNCHANGED <<object, results>>
  /\ look' = [look EXCEPT ![p] = 0]
  /\ st'[p].pc = "idle" /\ ~st'[p].announced
  /\ st'[p].k = st[p].k + 1 /\ st'[p].ret = result

Returns(p) ==
  \/ /\ st[p].pc = "leave" /\ fc' = fc
     /\ ReturnsResult(p, st[p].res)
  \/ /\ \/ st[p].pc \in {"checkDone", "checkWaiting", "checkRead"} /\ Done(p)
        \/ st[p].pc = "unlock"
     /\ fc' = fc
     /\ ReturnsResult(p, results[tid[p]])

LEMMA GoData ==
  ASSUME st \in [Procs -> Locals], NEW p \in Procs, NEW from, NEW to,
         NEW new \in Locals, Go(p, from, to, new)
  PROVE  /\ st[p].pc = from /\ st'[p].pc = to /\ st'[p].k = new.k
         /\ st'[p].ret = new.ret /\ st'[p].res = new.res
BY DEF Go, Locals

LEMMA ReturnData ==
  ASSUME st \in [Procs -> Locals], NEW p \in Procs, NEW from, NEW result,
         Return(p, from, result), UNCHANGED <<object, results>>
  PROVE  st[p].pc = from /\ ReturnsResult(p, result)
BY DEF Return, Local, Locals, ReturnsResult

\* What the steps write to the local state leaves call and results alone.
SameCall(s, new) == new.k = s.k /\ new.ret = s.ret /\ new.res = s.res

LEMMA UpdatesKeepCall ==
  ASSUME NEW s \in Locals, NEW n, NEW m, NEW b, NEW f
  PROVE  /\ SameCall(s, s)
         /\ SameCall(s, [s EXCEPT !.i = n])
         /\ SameCall(s, [s EXCEPT !.max = m, !.i = n])
         /\ SameCall(s, [s EXCEPT !.some = b, !.i = n])
         /\ SameCall(s, [s EXCEPT !.fn = f])
         /\ SameCall(s, [s EXCEPT !.fn = f, !.i = n])
BY DEF Locals, SameCall

LEMMA WriterData ==
  ASSUME Inv, StmInv, NEW p \in Procs, Writer(p)
  PROVE  Continues(p) \/ Returns(p) \/ RunMutation(p)
<1> USE DEF StmInv, StmTypeOK
<1>1. st[p] \in Locals /\ st \in [Procs -> Locals] /\ maxTid \in Int
  BY CallerIsRegistered
<1>2. UpdateTx(p) => Continues(p)
  BY <1>1 DEF UpdateTx, Call, Goto, Go, Locals, Continues, ReaderSteps, Held,
     Combining
<1> DEFINE Steady(from, to) ==
      \E new \in Locals : Go(p, from, to, new) /\ SameCall(st[p], new)
<1>3. ASSUME NEW from \in Steps \ {"idle", "run", "readFunc"}, NEW to,
             to # "idle", Steady(from, to), UNCHANGED <<object, look, results>>
      PROVE  Continues(p)
  BY <1>1, <1>3, GoData DEF Continues, SameCall
<1>4. ASSUME NEW from, NEW to, Goto(p, from, to)
      PROVE  Steady(from, to)
  BY <1>1, <1>4, UpdatesKeepCall DEF Goto
<1>4a. ASSUME NEW from, NEW to, NEW new, Go(p, from, to, new), new \in Locals,
              SameCall(st[p], new)
      PROVE  Steady(from, to)
  BY <1>4a
<1> HIDE DEF Steady
<1>5. LockCohort(p) => Continues(p)
  BY <1>3, <1>4 DEF LockCohort, Steps, Held
<1>6. CheckDone(p) => Continues(p) \/ Returns(p)
  BY <1>1, <1>3, <1>4, ReturnData DEF CheckDone, Steps, Held, Returns
<1>7. CheckWaiting(p) => Continues(p) \/ Returns(p)
  BY <1>1, <1>3, <1>4, ReturnData DEF CheckWaiting, Steps, Held, Returns
<1>8. IsEmpty(p) => Continues(p)
  <2>1. ASSUME NEW n \in Nat, NEW to,
               Go(p, "isEmpty", to, [st[p] EXCEPT !.i = n])
        PROVE  Steady("isEmpty", to)
    <3>1. [st[p] EXCEPT !.i = n] \in Locals
      BY <1>1, <2>1 DEF Locals
    <3>2. SameCall(st[p], [st[p] EXCEPT !.i = n])
      BY <1>1, UpdatesKeepCall
    <3>3. QED
      BY <1>4a, <2>1, <3>1, <3>2
  <2>2. 0 \in Nat /\ st[p].i + 1 \in Nat
    BY <1>1 DEF Locals
  <2>3. QED
    BY <1>3, <1>4, <2>1, <2>2 DEF IsEmpty, Steps, Held
<1>9. ReadMax(p) => Continues(p)
  <2>1. ASSUME ReadMax(p)
        PROVE  Steady("readMax", "collect")
    <3>1. [st[p] EXCEPT !.max = maxTid, !.i = 0] \in Locals
      BY <1>1 DEF Locals
    <3>2. SameCall(st[p], [st[p] EXCEPT !.max = maxTid, !.i = 0])
      BY <1>1, UpdatesKeepCall
    <3>3. QED
      BY <1>4a, <2>1, <3>1, <3>2 DEF ReadMax
  <2>2. QED
    BY <1>3, <2>1 DEF ReadMax, Steps, Held, Combining
<1>10. Collect(p) => Continues(p)
  <2>1. ASSUME NEW to, NEW n \in Nat, NEW b \in BOOLEAN,
               \/ Go(p, "collect", to, [st[p] EXCEPT !.some = b, !.i = n])
               \/ Go(p, "collect", to, [st[p] EXCEPT !.i = n])
        PROVE  Steady("collect", to)
    <3>1. /\ [st[p] EXCEPT !.some = b, !.i = n] \in Locals
          /\ [st[p] EXCEPT !.i = n] \in Locals
      BY <1>1 DEF Locals
    <3>2. /\ SameCall(st[p], [st[p] EXCEPT !.some = b, !.i = n])
          /\ SameCall(st[p], [st[p] EXCEPT !.i = n])
      BY <1>1, UpdatesKeepCall
    <3>3. QED
      BY <1>4a, <2>1, <3>1, <3>2
  <2>2. 0 \in Nat /\ st[p].i + 1 \in Nat /\ st[p].some \in BOOLEAN
    BY <1>1 DEF Locals
  <2>3. QED
    BY <1>3, <2>1, <2>2 DEF Collect, Steps, Held, Combining
<1>11. LoadMutation(p) => Continues(p)
  <2>1. ASSUME Go(p, "load", "load", [st[p] EXCEPT !.i = @ + 1])
        PROVE  Steady("load", "load")
    <3>1. [st[p] EXCEPT !.i = @ + 1] \in Locals
      BY <1>1, Fields DEF Locals
    <3>2. SameCall(st[p], [st[p] EXCEPT !.i = @ + 1])
      BY <1>1 DEF Locals, SameCall
    <3>3. QED
      BY <1>4a, <2>1, <3>1, <3>2
  <2>2. ASSUME st[p].i < st[p].max,
               Go(p, "load", "run", [st[p] EXCEPT !.fn = fc[st[p].i]])
        PROVE  Steady("load", "run")
    <3>1. st[p].pc = "load"
      BY <2>2 DEF Go
    <3>2. fc[st[p].i] \in Calling
      BY <1>1, <2>2, <3>1, Fields, RegistryAssumption DEF LoopsCoverOwner, Tids
    <3>3. [st[p] EXCEPT !.fn = fc[st[p].i]] \in Locals
      BY <1>1, <3>2 DEF Locals
    <3>4. SameCall(st[p], [st[p] EXCEPT !.fn = fc[st[p].i]])
      BY <1>1, UpdatesKeepCall
    <3>5. QED
      BY <1>4a, <2>2, <3>3, <3>4
  <2>3. QED
    BY <1>3, <1>4, <2>1, <2>2 DEF LoadMutation, Steps, Held, Combining
<1>12. ClearSlot(p) => Continues(p)
  <2>1. ASSUME ClearSlot(p)
        PROVE  Steady("clear", "load")
    <3>1. [st[p] EXCEPT !.fn = NoCall, !.i = @ + 1] \in Locals
      BY <1>1, Fields DEF Locals
    <3>2. SameCall(st[p], [st[p] EXCEPT !.fn = NoCall, !.i = @ + 1])
      BY <1>1 DEF Locals, SameCall
    <3>3. QED
      BY <1>4a, <2>1, <3>1, <3>2 DEF ClearSlot
  <2>2. QED
    BY <1>3, <2>1 DEF ClearSlot, Steps, Held, Combining
<1>13. Unlock(p) => Returns(p)
  BY <1>1, ReturnData DEF Unlock, Returns
<1>14. QED
  BY <1>2, <1>5, <1>6, <1>7, <1>8, <1>9, <1>10, <1>11, <1>12, <1>13 DEF Writer

LEMMA ReaderData ==
  ASSUME Inv, StmInv, NEW p \in Procs, Reader(p)
  PROVE  Continues(p) \/ Returns(p) \/ ReadFunc(p)
<1> USE DEF StmInv, StmTypeOK
<1>1. st[p] \in Locals /\ st \in [Procs -> Locals]
  BY CallerIsRegistered
<1>2. ReadTx(p) => Continues(p)
  BY <1>1 DEF ReadTx, Call, Goto, Go, Locals, Continues
<1>3. ASSUME NEW from \in Steps \ {"idle", "run", "readFunc"}, NEW to,
             to # "idle", Goto(p, from, to), UNCHANGED <<object, look, results>>
      PROVE  Continues(p)
  BY <1>1, <1>3, GoData DEF Goto, Continues
<1>4. Arrive(p) \/ IsLocked(p) \/ Depart(p) \/ Spin(p) \/ Withdraw(p) =>
        Continues(p)
  BY <1>3 DEF Arrive, IsLocked, Depart, Spin, Withdraw, Steps, Arrived
<1>5. AnnounceRead(p) => Continues(p)
  BY <1>1 DEF AnnounceRead, Go, Locals, Continues
<1>6. CheckRead(p) => Continues(p) \/ Returns(p)
  BY <1>1, <1>3, ReturnData DEF CheckRead, Steps, Returns
<1>7. Leave(p) => Returns(p)
  BY <1>1, ReturnData DEF Leave, Returns
<1>8. QED
  BY <1>2, <1>4, <1>5, <1>6, <1>7 DEF Reader

\* The owner of the lock empties a slot after it has run what was in it; its
\* owner fills it.
LEMMA RanStep ==
  ASSUME Inv, StmInv, NEW p \in Procs, Writer(p) \/ Reader(p), UNCHANGED vars,
         NEW i \in Tids
  PROVE  \/ Ran(i)' <=> Ran(i)
         \/ i = tid[p] /\ st[p].pc \in {"idle", "announce", "withdraw"}
         \/ i = st[p].i /\ st[p].pc = "run"
<1> USE DEF Ran
<1>1. /\ \A q \in Procs : q # p => st'[q] = st[q]
      /\ fc \in [Tids -> Calling] /\ tid[p] \in Tids
  BY StepFacts DEF StmInv, StmTypeOK
<1>2. CASE fc' = fc /\ st[p].pc # "clear" /\ st'[p].pc # "clear"
  BY <1>1, <1>2
<1>3. CASE LockCohort(p)
  BY <1>2, <1>3, LockMoves
<1>4. CASE CheckDone(p) \/ CheckWaiting(p) \/ CheckRead(p)
  BY <1>2, <1>4, WaitMoves
<1>5. CASE IsEmpty(p) \/ Collect(p) \/ LoadMutation(p)
  BY <1>2, <1>5, IsEmptyMoves, CollectMoves, LoadMoves
<1>6. CASE \/ UpdateTx(p) \/ ReadMax(p) \/ RunMutation(p) \/ ClearSlot(p)
           \/ Unlock(p)
  <2>1. CASE st[p].pc = "idle"
    BY <1>1, <1>6, <2>1, WriterMoves DEF Announce
  <2>2. CASE st[p].pc \in {"readMax", "unlock"}
    BY <1>2, <1>6, <2>2, WriterMoves
  <2>3. CASE st[p].pc = "run"
    BY <1>1, <1>6, <2>3, WriterMoves
  <2>4. CASE st[p].pc = "clear"
    BY <1>1, <1>6, <2>4, WriterMoves
  <2>5. QED
    BY <1>6, <2>1, <2>2, <2>3, <2>4, WriterMoves
<1>7. CASE Reader(p) /\ ~CheckRead(p)
  <2>1. /\ st[p].pc # "clear" /\ st'[p].pc # "clear"
        /\ \/ fc' = fc
           \/ /\ st[p].pc \in {"announce", "withdraw"}
              /\ \A j \in Tids : j # tid[p] => fc'[j] = fc[j]
    BY <1>1, <1>7, ReaderMoves DEF Announce
  <2>2. QED
    BY <1>1, <2>1
<1>8. QED
  BY <1>3, <1>4, <1>5, <1>6, <1>7 DEF Writer

LEMMA AnnouncedIsNew ==
  ASSUME Inv, StmInv, NEW p \in Procs, UpdateTx(p) \/ AnnounceRead(p),
         UNCHANGED vars
  PROVE  ~Ran(tid[p])'
<1>1. Writer(p) \/ Reader(p)
  BY DEF Writer, Reader
<1>2. st[p].pc \in {"idle", "announce"} /\ Announce(p)
  BY DEF UpdateTx, AnnounceRead, Call, Goto, Go
<1>3. /\ \A q \in Procs : q # p => st'[q] = st[q]
      /\ fc \in [Tids -> Calling] /\ tid[p] \in Tids /\ pc[p] = "registered"
      /\ tid' = tid
  BY <1>1, StepFacts DEF StmInv, StmTypeOK
<1>4. st'[p].pc # "clear"
  BY DEF UpdateTx, AnnounceRead, Call, Goto, Go, StmInv, StmTypeOK, Locals
<1>5. \A q \in Procs : st[q].pc = "clear" => st[q].i # tid[p]
  BY <1>2, <1>3, SlotIsFree DEF StmInv, LoopsCoverOwner
<1>6. fc'[tid[p]] = <<p, st[p].k>>
  BY <1>2, <1>3 DEF Announce
<1>7. fc'[tid[p]] # NoCall
  BY <1>6 DEF NoCall
<1>8. QED
  BY <1>3, <1>4, <1>5, <1>7 DEF Ran

\* What is run is the function of a thread that waits outside.
LEMMA RunOwner ==
  ASSUME Inv, StmInv, NEW p \in Procs, st[p].pc = "run"
  PROVE  /\ st[p].i \in Tids /\ ~Ran(st[p].i)
         /\ \E q \in Procs :
              /\ Waiting(q) /\ tid[q] = st[p].i /\ st[p].fn = <<q, st[q].k>>
              /\ st[q].pc \notin Inside \cup {"idle", "unlock"}
<1>1. /\ fc[st[p].i] # NoCall /\ st[p].fn = fc[st[p].i]
      /\ st[p].i < st[p].max /\ st[p].max <= MaxThreads
      /\ st[p].i \in Nat /\ st[p].max \in Int /\ MaxThreads \in Nat
  BY RegistryAssumption DEF StmInv, LoopsCoverOwner, StmTypeOK, Locals
<1>2. st[p].i \in Tids
  BY <1>1 DEF Tids
<1>3. \A c \in Procs : st[c].pc # "clear"
  <2>1. ASSUME NEW c \in Procs, st[c].pc = "clear"
        PROVE  FALSE
    BY <2>1 DEF StmInv, Callers, Held, Combining
  <2>2. QED
    BY <2>1
<1>4. PICK q \in Procs : /\ Waiting(q) /\ tid[q] = st[p].i
                         /\ fc[st[p].i] = <<q, st[q].k>>
  BY <1>1, <1>2 DEF StmInv, SlotsAreCalls
<1>5. st[q].pc \notin Inside \cup {"idle", "unlock"}
  <2>1. st[q].pc \notin Inside
    BY DEF StmInv, ReadersStopWriters, Combining
  <2>2. st[q].pc \notin {"idle", "unlock"}
    BY <1>4 DEF Waiting, Held, Combining
  <2>3. QED
    BY <2>1, <2>2
<1>6. QED
  BY <1>1, <1>2, <1>3, <1>4, <1>5 DEF Ran

LEMMA ResultIsNumber ==
  ASSUME StmInv
  PROVE  Result \in Int /\ Result # 0
<1>1. Len(object) \in Nat
  BY DEF StmInv, StmTypeOK
<1>2. QED
  BY <1>1 DEF Result

AnswersOf(p) ==
  /\ st[p].pc = "idle" => look[p] = 0 /\ ~st[p].announced
  /\ st[p].pc \in ReaderSteps => Calls[p][st[p].k] = "read"
  /\ st[p].pc \in {"spin", "checkRead"} => st[p].announced
  /\ st[p].pc = "unlock" => look[p] # 0 /\ results[tid[p]] = look[p]
  /\ Waiting(p) /\ st[p].pc # "withdraw" /\ Ran(tid[p]) =>
       look[p] # 0 /\ results[tid[p]] = look[p]
  /\ Waiting(p) /\ Calls[p][st[p].k] = "write" /\ ~Ran(tid[p]) =>
       look[p] = 0
  /\ st[p].pc \in {"withdraw", "leave"} =>
       look[p] # 0 /\ st[p].res = look[p]

LEMMA AnswersAll == Answers <=> \A p \in Procs : AnswersOf(p)
BY DEF Answers, AnswersOf

\* A step concerns no other thread's answer, unless it runs that thread's
\* function.
LEMMA OthersAnswers ==
  ASSUME Inv, StmInv, RefInv, NEW p \in Procs, Writer(p) \/ Reader(p),
         UNCHANGED vars, NEW q \in Procs, q # p,
         look'[q] = look[q],
         st[q].pc # "idle" => /\ results'[tid[q]] = results[tid[q]]
                              /\ st[p].pc = "run" => tid[q] # st[p].i
  PROVE  AnswersOf(q)'
<1>1. AnswersOf(q) /\ st'[q] = st[q] /\ tid' = tid
  BY StepFacts, AnswersAll DEF RefInv
<1>2. Waiting(q)' <=> Waiting(q)
  BY <1>1 DEF Waiting
<1>3. CASE st[q].pc = "idle"
  <2>1. ~Waiting(q)
    BY <1>3 DEF Waiting, Held, Combining
  <2>2. QED
    BY <1>1, <1>2, <1>3, <2>1 DEF AnswersOf
<1>4. CASE st[q].pc # "idle"
  <2>1. tid[q] \in Tids /\ tid[q] # tid[p]
    BY <1>4, CallersAreCovered, StepFacts
  <2>2. Ran(tid[q])' <=> Ran(tid[q])
    <3>1. PICK i \in Tids : i = tid[q]
      BY <2>1
    <3>2. Ran(i)' <=> Ran(i)
      BY <1>4, <2>1, <3>1, RanStep
    <3>3. QED
      BY <1>1, <3>1, <3>2 DEF Ran
  <2>3. QED
    BY <1>1, <1>2, <1>4, <2>2 DEF AnswersOf
<1>5. QED
  BY <1>3, <1>4

\* A function is run for the call that waits for its result.
LEMMA RunAnswers ==
  ASSUME Inv, StmInv, RefInv, NEW p \in Procs, RunMutation(p), UNCHANGED vars
  PROVE  Answers'
<1>1. Writer(p) /\ st[p].pc = "run"
  BY DEF Writer, RunMutation, Goto, Go
<1>2. PICK q \in Procs :
        /\ Waiting(q) /\ tid[q] = st[p].i /\ st[p].fn = <<q, st[q].k>>
        /\ st[q].pc \notin Inside \cup {"idle", "unlock"}
  BY <1>1, RunOwner
<1>3. st[p].fn[1] = q
  BY <1>2
<1>4. /\ results' = [results EXCEPT ![st[p].i] = Result]
      /\ look' = [look EXCEPT ![q] = Result]
      /\ results \in [Tids -> Int] /\ look \in [Procs -> Int]
      /\ st[p].i \in Tids /\ Result # 0
      /\ fc' = fc /\ st'[p].pc = "clear" /\ st'[p].i = st[p].i
      /\ st'[p].k = st[p].k /\ st'[p].announced = st[p].announced
  <2>1. st'[p].pc = "clear" /\ st'[p].i = st[p].i /\ Same(p) /\ fc' = fc
    BY <1>1, WriterMoves
  <2>2. QED
    BY <1>1, <1>3, <2>1, RunOwner, ResultIsNumber
       DEF RunMutation, StmInv, StmTypeOK, RefInv, Same
<1>5. /\ \A u \in Procs : u # p => st'[u] = st[u]
      /\ tid' = tid
  BY <1>1, StepFacts
<1>6. AnswersOf(q)'
  <2>1. Ran(tid[q])'
    BY <1>2, <1>4, <1>5 DEF Ran
  <2>2. /\ look'[q] = Result /\ results'[tid[q]] = Result
    BY <1>2, <1>4
  <2>3. /\ st'[q].pc \notin {"idle", "unlock", "withdraw", "leave"}
        /\ st'[q].k = st[q].k
        /\ st'[q].pc \in ReaderSteps => st[q].pc \in ReaderSteps
    BY <1>1, <1>2, <1>4, <1>5 DEF Inside, ReaderSteps, Held, Combining
  <2>4. AnswersOf(q)
    BY AnswersAll DEF RefInv
  <2>5. QED
    BY <1>4, <1>5, <2>1, <2>2, <2>3, <2>4 DEF AnswersOf
<1>7. ASSUME NEW u \in Procs, u # q, u # p
      PROVE  AnswersOf(u)'
  <2>1. look'[u] = look[u]
    BY <1>4, <1>7
  <2>2. st[u].pc # "idle" => tid[u] # st[p].i /\ tid[u] \in Tids
    BY <1>2, <1>7, CallersAreCovered
  <2>3. QED
    BY <1>1, <1>4, <1>7, <2>1, <2>2, OthersAnswers
<1>8. ASSUME p # q
      PROVE  AnswersOf(p)'
  <2>1. tid[p] # st[p].i /\ tid[p] \in Tids
    BY <1>1, <1>2, <1>8, CallersAreCovered
  <2>2. look'[p] = look[p] /\ results'[tid[p]] = results[tid[p]]
    BY <1>4, <1>8, <2>1
  <2>3. Ran(tid[p])' <=> Ran(tid[p])
    BY <1>1, <1>4, <1>5, <2>1 DEF Ran
  <2>4. Waiting(p) /\ Waiting(p)'
    BY <1>1, <1>4 DEF Waiting, Held, Combining
  <2>5. AnswersOf(p)
    BY AnswersAll DEF RefInv
  <2>6. "clear" \notin ReaderSteps
    BY DEF ReaderSteps, Held, Combining
  <2>7. QED
    BY <1>1, <1>4, <1>5, <2>2, <2>3, <2>4, <2>5, <2>6 DEF AnswersOf
<1>9. QED
  BY <1>6, <1>7, <1>8, AnswersAll DEF Answers, AnswersOf

LEMMA ReturnAnswers ==
  ASSUME Inv, StmInv, RefInv, NEW p \in Procs, Writer(p) \/ Reader(p),
         Returns(p), UNCHANGED vars
  PROVE  Answers'
<1>1. /\ st'[p].pc = "idle" /\ ~st'[p].announced
      /\ look' = [look EXCEPT ![p] = 0] /\ results' = results
      /\ st[p].pc # "run"
  BY DEF Returns, ReturnsResult
<1>2. look'[p] = 0 /\ \A q \in Procs : q # p => look'[q] = look[q]
  BY <1>1 DEF RefInv
<1>3. ~Waiting(p)'
  BY <1>1 DEF Waiting, Held, Combining
<1>4. AnswersOf(p)'
  BY <1>1, <1>2, <1>3 DEF AnswersOf, ReaderSteps
<1>5. ASSUME NEW q \in Procs, q # p
      PROVE  AnswersOf(q)'
  BY <1>1, <1>2, <1>5, OthersAnswers
<1>6. QED
  BY <1>4, <1>5, AnswersAll DEF Answers, AnswersOf

LEMMA ReadAnswers ==
  ASSUME Inv, StmInv, RefInv, NEW p \in Procs, ReadFunc(p), UNCHANGED vars
  PROVE  Answers'
<1>1. Reader(p) /\ st[p].pc = "readFunc"
  BY DEF Reader, ReadFunc, Go
<1>2. /\ st'[p].pc = "withdraw" /\ st'[p].k = st[p].k /\ st'[p].res = Result
      /\ look' = [look EXCEPT ![p] = Result] /\ results' = results
  BY DEF ReadFunc, Go, StmInv, StmTypeOK, Locals
<1>3. /\ look'[p] = Result /\ Result # 0
      /\ \A q \in Procs : q # p => look'[q] = look[q]
  BY <1>2, ResultIsNumber DEF RefInv
<1>4. Calls[p][st[p].k] = "read"
  BY <1>1, AnswersAll DEF AnswersOf, RefInv, ReaderSteps, Steps, Arrived, Held,
     Combining
<1>5. AnswersOf(p)'
  BY <1>2, <1>3, <1>4 DEF AnswersOf
<1>6. ASSUME NEW q \in Procs, q # p
      PROVE  AnswersOf(q)'
  BY <1>1, <1>2, <1>3, <1>6, OthersAnswers
<1>7. QED
  BY <1>5, <1>6, AnswersAll DEF Answers, AnswersOf

\* A call goes on as a writer or as a reader, and waits as before, unless it
\* announces itself or has got its answer.
LEMMA ContinuesWaiting ==
  ASSUME Inv, StmInv, RefInv, NEW p \in Procs, Writer(p) \/ Reader(p),
         Continues(p), UNCHANGED vars
  PROVE  \/ /\ st[p].pc = "idle" /\ st'[p].pc = "arrive"
            /\ ~st'[p].announced
         \/ UpdateTx(p) /\ st'[p].pc = "lock"
         \/ /\ AnnounceRead(p) /\ st[p].pc = "announce"
            /\ st'[p].pc = "spin" /\ st'[p].announced
         \/ st[p].pc = "withdraw" /\ st'[p].pc = "leave"
         \/ /\ Waiting(p) /\ fc[tid[p]] = NoCall
            /\ st[p].pc # "withdraw" /\ st'[p].pc = "unlock"
         \/ /\ Waiting(p)' <=> Waiting(p)
            /\ st[p].pc \notin {"idle", "withdraw", "leave", "unlock"}
            /\ st'[p].pc \notin {"idle", "withdraw", "leave", "unlock"}
            /\ st'[p].pc \in ReaderSteps <=> st[p].pc \in ReaderSteps
            /\ st'[p].pc \in {"spin", "checkRead"} => st'[p].announced
<1> USE DEF Waiting, Held, Combining, ReaderSteps
<1>1. st[p].pc \in Steps /\ st'[p].pc \in Steps
  BY StepFacts DEF Locals
<1>2. CASE LockCohort(p)
  BY <1>1, <1>2, LockMoves DEF Same
<1>3. CASE CheckDone(p) \/ CheckWaiting(p) \/ CheckRead(p)
  <2>1. st[p].pc \in {"spin", "checkRead"} => st[p].announced
    BY AnswersAll DEF RefInv, AnswersOf
  <2>2. QED
    BY <1>1, <1>3, <2>1, WaitMoves DEF Same, Continues
<1>4. CASE IsEmpty(p)
  BY <1>1, <1>4, IsEmptyMoves DEF Same
<1>5. CASE Collect(p)
  <2>1. st[p].i = st[p].max /\ ~st[p].some /\ st[p].pc = "collect" =>
          fc[tid[p]] = NoCall
    BY DEF StmInv, LoopsCoverOwner, StmTypeOK, Locals, Inv, TypeOK
  <2>2. QED
    BY <1>1, <1>5, <2>1, CollectMoves DEF Same
<1>6. CASE LoadMutation(p)
  <2>1. st[p].i = st[p].max /\ st[p].pc = "load" => fc[tid[p]] = NoCall
    BY DEF StmInv, LoopsCoverOwner, StmTypeOK, Locals, Inv, TypeOK
  <2>2. QED
    BY <1>1, <1>6, <2>1, LoadMoves DEF Same
<1>7. CASE UpdateTx(p)
  <2>1. st[p].pc = "idle"
    BY <1>7 DEF UpdateTx, Call, Goto, Go
  <2>2. QED
    BY <1>7, <2>1, WriterMoves
<1>8. CASE ReadMax(p) \/ RunMutation(p) \/ ClearSlot(p) \/ Unlock(p)
  <2>1. st[p].pc # "idle"
    BY <1>8 DEF ReadMax, RunMutation, ClearSlot, Unlock, Goto, Go, Return
  <2>2. QED
    BY <1>1, <1>8, <2>1, WriterMoves DEF Same, Continues
<1>9. CASE AnnounceRead(p)
  <2>1. st[p].pc = "announce" /\ st'[p].pc = "spin" /\ st'[p].announced
    BY <1>9 DEF AnnounceRead, Go, StmInv, StmTypeOK, Locals
  <2>2. QED
    BY <1>9, <2>1
<1>10. CASE Reader(p) /\ ~CheckRead(p) /\ ~AnnounceRead(p)
  <2>1. st[p].pc \notin {"announce", "readFunc"} /\ st'[p].pc # "idle"
    BY <1>10 DEF Continues, Reader, ReadTx, Call, Arrive, IsLocked, Depart,
       Spin, ReadFunc, Withdraw, Leave, Goto, Go, Return
  <2>2. /\ st[p].pc = "idle" => ~st[p].announced
        /\ st[p].pc \in {"spin", "checkRead"} => st[p].announced
    BY AnswersAll DEF RefInv, AnswersOf
  <2>3. QED
    BY <1>1, <1>10, <2>1, <2>2, ReaderMoves DEF Same, Steps, Arrived
<1>11. QED
  BY <1>2, <1>3, <1>4, <1>5, <1>6, <1>7, <1>8, <1>9, <1>10 DEF Writer

LEMMA ContinueAnswers ==
  ASSUME Inv, StmInv, RefInv, NEW p \in Procs, Writer(p) \/ Reader(p),
         Continues(p), UNCHANGED vars
  PROVE  Answers'
<1>1. /\ look' = look /\ results' = results /\ tid' = tid
      /\ st'[p].k = st[p].k /\ st'[p].res = st[p].res
      /\ st[p].pc \notin {"run", "readFunc"}
      /\ st[p].pc = "idle" /\ st'[p].pc \in ReaderSteps =>
           Calls[p][st[p].k] = "read"
      /\ tid[p] \in Tids
  BY StepFacts DEF Continues
<1>2. AnswersOf(p)
  BY AnswersAll DEF RefInv
<1>3. AnswersOf(p)'
  <2>1. CASE /\ st[p].pc = "idle" /\ st'[p].pc = "arrive"
             /\ ~st'[p].announced
    BY <1>1, <2>1 DEF AnswersOf, Waiting, Held, Combining, ReaderSteps, Steps
  <2>2. CASE UpdateTx(p) /\ st'[p].pc = "lock"
    <3>1. st[p].pc = "idle" /\ ~Ran(tid[p])'
      BY <2>2, AnnouncedIsNew DEF UpdateTx, Call, Goto, Go
    <3>2. QED
      BY <1>1, <1>2, <2>2, <3>1 DEF AnswersOf, ReaderSteps
  <2>3. CASE /\ AnnounceRead(p) /\ st[p].pc = "announce"
             /\ st'[p].pc = "spin" /\ st'[p].announced
    <3>1. ~Ran(tid[p])'
      BY <2>3, AnnouncedIsNew
    <3>2. QED
      BY <1>1, <1>2, <2>3, <3>1 DEF AnswersOf, ReaderSteps, Steps, Held,
         Combining
  <2>4. CASE st[p].pc = "withdraw" /\ st'[p].pc = "leave"
    <3>1. ~Waiting(p)'
      BY <2>4 DEF Waiting, Held, Combining
    <3>2. QED
      BY <1>1, <1>2, <2>4, <3>1 DEF AnswersOf, ReaderSteps, Steps, Arrived,
         Held, Combining
  <2>5. CASE /\ Waiting(p) /\ fc[tid[p]] = NoCall
             /\ st[p].pc # "withdraw" /\ st'[p].pc = "unlock"
    <3>1. ~Waiting(p)' /\ "unlock" \notin ReaderSteps
      BY <2>5 DEF Waiting, Held, Combining, ReaderSteps
    <3>2. Ran(tid[p])
      BY <2>5 DEF Ran
    <3>3. QED
      BY <1>1, <1>2, <2>5, <3>1, <3>2 DEF AnswersOf
  <2>6. CASE /\ Waiting(p)' <=> Waiting(p)
             /\ st[p].pc \notin {"idle", "withdraw", "leave", "unlock"}
             /\ st'[p].pc \notin {"idle", "withdraw", "leave", "unlock"}
             /\ st'[p].pc \in ReaderSteps <=> st[p].pc \in ReaderSteps
             /\ st'[p].pc \in {"spin", "checkRead"} => st'[p].announced
    <3>1. CASE st[p].pc = "announce"
      <4>1. ~Waiting(p)
        BY <3>1 DEF Waiting, Held, Combining
      <4>2. QED
        BY <1>1, <1>2, <2>6, <4>1 DEF AnswersOf
    <3>2. CASE st[p].pc # "announce"
      <4>1. PICK i \in Tids : i = tid[p]
        BY <1>1
      <4>2. Ran(i)' <=> Ran(i)
        BY <1>1, <2>6, <3>2, <4>1, RanStep
      <4>3. Ran(tid[p])' <=> Ran(tid[p])
        BY <1>1, <4>1, <4>2 DEF Ran
      <4>4. QED
        BY <1>1, <1>2, <2>6, <4>3 DEF AnswersOf
    <3>3. QED
      BY <3>1, <3>2
  <2>7. QED
    BY <2>1, <2>2, <2>3, <2>4, <2>5, <2>6, ContinuesWaiting
<1>4. ASSUME NEW q \in Procs, q # p
      PROVE  AnswersOf(q)'
  BY <1>1, <1>4, OthersAnswers
<1>5. QED
  BY <1>3, <1>4, AnswersAll DEF Answers, AnswersOf

LEMMA CallAnswers ==
  ASSUME Inv, StmInv, RefInv, NEW p \in Procs, Writer(p) \/ Reader(p),
         UNCHANGED vars
  PROVE  RefInv'
<1>1. Answers'
  BY WriterData, ReaderData, ContinueAnswers, ReturnAnswers, RunAnswers,
     ReadAnswers
<1>2. look' \in [Procs -> Int]
  <2>1. \E n \in Int : \E q : look' = look \/ look' = [look EXCEPT ![q] = n]
    <3>1. CASE Continues(p)
      BY <3>1 DEF Continues
    <3>2. CASE Returns(p)
      BY <3>2 DEF Returns, ReturnsResult
    <3>3. CASE RunMutation(p) \/ ReadFunc(p)
      BY <3>3, ResultIsNumber DEF RunMutation, ReadFunc
    <3>4. QED
      BY <3>1, <3>2, <3>3, WriterData, ReaderData
  <2>2. QED
    BY <2>1 DEF RefInv
<1>3. QED
  BY <1>1, <1>2 DEF RefInv

LEMMA RefNextInv ==
  Inv /\ StmInv /\ RefInv /\ [StmNext]_<<vars, stmVars>> => RefInv'
<1> SUFFICES ASSUME Inv, StmInv, RefInv, [StmNext]_<<vars, stmVars>>
             PROVE  RefInv'
  OBVIOUS
<1>1. ASSUME NEW p \in Procs, Writer(p) \/ Reader(p), UNCHANGED vars
      PROVE  RefInv'
  BY <1>1, CallAnswers
<1>2. ASSUME UNCHANGED stmVars,
             \A q \in Procs : st[q].pc # "idle" => tid'[q] = tid[q]
      PROVE  RefInv'
  <2>1. /\ UNCHANGED <<fc, results, st, look>>
    BY <1>2 DEF stmVars
  <2>2. \A q \in Procs : Waiting(q) => st[q].pc # "idle"
    BY DEF Waiting, Held, Combining
  <2>3. \A q \in Procs : Waiting(q)' <=> Waiting(q)
    BY <2>1 DEF Waiting
  <2>4. \A q \in Procs : st[q].pc # "idle" => (Ran(tid[q])' <=> Ran(tid[q]))
    BY <1>2, <2>1 DEF Ran
  <2>5. ASSUME NEW q \in Procs, AnswersOf(q)
        PROVE  AnswersOf(q)'
    BY <1>2, <2>1, <2>2, <2>3, <2>4, <2>5 DEF AnswersOf
  <2>6. Answers'
    BY <2>5, AnswersAll DEF RefInv, Answers, AnswersOf
  <2>7. QED
    BY <2>1, <2>6 DEF RefInv
<1>3. ASSUME NEW p \in Procs, RegistryStep(p)
      PROVE  RefInv'
  <2>1. \A q \in Procs : q # p => tid'[q] = tid[q]
    BY <1>3 DEF RegistryStep, Start, Register, Deregister, LoadUsed, CasUsed,
       LoadMax, CasMax, NextTid, Step, Inv, TypeOK
  <2>2. QED
    BY <1>2, <1>3, <2>1 DEF RegistryStep
<1>4. CASE UNCHANGED <<vars, stmVars>>
  BY <1>2, <1>4 DEF vars
<1>5. QED
  BY <1>1, <1>2, <1>3, <1>4 DEF StmNext, Finished, vars

(***************************************************************************)
(* CRWWPSTM implements WaitFreeObject.                                     *)
(***************************************************************************)

Phases == [p \in Procs |-> PhaseOf(p)]
Ats == [p \in Procs |-> st[p].k]
Rets == [p \in Procs |-> st[p].ret]

LEMMA ThreadsAreProcs == 0 .. Cardinality(Procs) - 1 = Procs
BY CallsAssumption

\* The abstract object counts with its own instance of Cardinality.
LEMMA SameCardinality == \A S : Object!Cardinality(S) = Cardinality(S)
BY DEF Object!Cardinality, Cardinality

LEMMA RefInitInv == StmInit => RefInv
BY DEF StmInit, Local, RefInv, Answers, ReaderSteps, Waiting, Held, Combining

LEMMA ObjectInit == StmInit => Object!Init
BY ThreadsAreProcs DEF StmInit, Local, Object!Init, PhaseOf

\* A step that concerns one thread's call.
LEMMA OnePhase ==
  ASSUME NEW p \in Procs,
         \A q \in Procs : q # p => look'[q] = look[q] /\ st'[q].k = st[q].k
                                   /\ (st'[q].pc = "idle" <=> st[q].pc = "idle")
  PROVE  Phases' = [Phases EXCEPT ![p] = PhaseOf(p)']
<1>1. \A q \in Procs : q # p => PhaseOf(q)' = PhaseOf(q)
  BY DEF PhaseOf
<1>2. QED
  BY <1>1 DEF Phases

LEMMA OneCall ==
  ASSUME NEW p \in Procs,
         \A q \in Procs : q # p => st'[q].k = st[q].k /\ st'[q].ret = st[q].ret
  PROVE  /\ Ats' = [Ats EXCEPT ![p] = st'[p].k]
         /\ Rets' = [Rets EXCEPT ![p] = st'[p].ret]
BY DEF Ats, Rets

LEMMA StepIsCall ==
  ASSUME Inv, StmInv, RefInv, NEW p \in Procs, Writer(p) \/ Reader(p),
         Continues(p), UNCHANGED vars, st[p].pc = "idle"
  PROVE  Object!Call(p)
<1>1. \A q \in Procs : q # p => st'[q] = st[q]
  BY StepFacts
<1>2. /\ UNCHANGED <<object, look>> /\ st[p].k <= Len(Calls[p])
      /\ st'[p].k = st[p].k /\ st'[p].ret = st[p].ret /\ st'[p].pc # "idle"
      /\ look[p] = 0
  BY AnswersAll DEF Continues, RefInv, AnswersOf
<1>3. PhaseOf(p) = "idle" /\ PhaseOf(p)' = "called"
  BY <1>2 DEF PhaseOf
<1>4. Phases' = [Phases EXCEPT ![p] = "called"] /\ Ats' = Ats /\ Rets' = Rets
  BY <1>1, <1>2, <1>3, OnePhase, OneCall DEF Ats, Rets
<1>5. QED
  BY <1>2, <1>3, <1>4 DEF Object!Call, Phases, Ats, Rets

LEMMA StepIsStutter ==
  ASSUME Inv, StmInv, NEW p \in Procs, Writer(p) \/ Reader(p),
         Continues(p), UNCHANGED vars, st[p].pc # "idle"
  PROVE  UNCHANGED Object!avars
<1>1. \A q \in Procs : q # p => st'[q] = st[q]
  BY StepFacts
<1>2. /\ UNCHANGED <<object, look>>
      /\ st'[p].k = st[p].k /\ st'[p].ret = st[p].ret /\ st'[p].pc # "idle"
  BY DEF Continues
<1>3. \A q \in Procs : PhaseOf(q)' = PhaseOf(q)
  BY <1>1, <1>2 DEF PhaseOf
<1>4. Phases' = Phases /\ Ats' = Ats /\ Rets' = Rets
  BY <1>1, <1>2, <1>3 DEF Phases, Ats, Rets
<1>5. QED
  BY <1>2, <1>4 DEF Object!avars, Phases, Ats, Rets

LEMMA StepIsReturn ==
  ASSUME Inv, StmInv, RefInv, NEW p \in Procs, Writer(p) \/ Reader(p),
         Returns(p), UNCHANGED vars
  PROVE  Object!Return(p)
<1>1. \A q \in Procs : q # p => st'[q] = st[q]
  BY StepFacts
<1>2. /\ st[p].pc # "idle" /\ look[p] # 0
      /\ ReturnsResult(p, look[p])
  <2>1. CASE st[p].pc = "leave"
    BY <2>1, AnswersAll DEF Returns, RefInv, AnswersOf
  <2>2. CASE st[p].pc = "unlock"
    BY <2>2, AnswersAll DEF Returns, RefInv, AnswersOf
  <2>3. CASE st[p].pc \in {"checkDone", "checkWaiting", "checkRead"}
    <3>1. Done(p) /\ ReturnsResult(p, results[tid[p]])
      BY <2>3 DEF Returns
    <3>2. Waiting(p) /\ Ran(tid[p])
      BY <2>3, <3>1, AnswersAll
         DEF Done, Ran, Waiting, Held, Combining, RefInv, AnswersOf
    <3>3. QED
      BY <2>3, <3>1, <3>2, AnswersAll DEF RefInv, AnswersOf
  <2>4. QED
    BY <2>1, <2>2, <2>3 DEF Returns
<1>3. /\ look' = [look EXCEPT ![p] = 0] /\ object' = object
      /\ st'[p].pc = "idle" /\ st'[p].k = st[p].k + 1 /\ st'[p].ret = look[p]
  BY <1>2 DEF ReturnsResult
<1>4. PhaseOf(p) \in {"done", "observed"} /\ PhaseOf(p)' = "idle"
  BY <1>2, <1>3 DEF PhaseOf
<1>5. \A q \in Procs : q # p => look'[q] = look[q]
  BY <1>3 DEF RefInv
<1>6. /\ Phases' = [Phases EXCEPT ![p] = "idle"]
      /\ Ats' = [Ats EXCEPT ![p] = st[p].k + 1]
      /\ Rets' = [Rets EXCEPT ![p] = look[p]]
  BY <1>1, <1>3, <1>4, <1>5, OnePhase, OneCall
<1>7. QED
  BY <1>3, <1>4, <1>6 DEF Object!Return, Phases, Ats, Rets

\* The function of a call that only reads looks at the object.
LEMMA LookIsObserve ==
  ASSUME StmInv, RefInv, NEW q \in Procs, NEW p \in Procs,
         st[q].pc # "idle", Calls[q][st[q].k] # "write",
         object' = object, look' = [look EXCEPT ![q] = Result],
         \A u \in Procs : /\ st'[u].k = st[u].k /\ st'[u].ret = st[u].ret
                          /\ st'[u].pc = "idle" <=> st[u].pc = "idle"
  PROVE  Object!Observe(q)
<1>1. look'[q] = Result /\ \A u \in Procs : u # q => look'[u] = look[u]
  BY DEF RefInv
<1>2. PhaseOf(q) \in {"called", "observed"} /\ PhaseOf(q)' = "observed"
  BY <1>1, ResultIsNumber DEF PhaseOf
<1>3. Phases' = [Phases EXCEPT ![q] = "observed"] /\ Ats' = Ats /\ Rets' = Rets
  BY <1>1, <1>2, OnePhase DEF Ats, Rets
<1>4. QED
  BY <1>2, <1>3 DEF Object!Observe, Object!Writes, Result, Phases, Ats, Rets

\* The function of a call that changes the object takes effect.
LEMMA RunIsExecute ==
  ASSUME StmInv, RefInv, NEW q \in Procs,
         st[q].pc # "idle", Calls[q][st[q].k] = "write", look[q] = 0,
         object' = Append(object, <<q, st[q].k>>),
         look' = [look EXCEPT ![q] = Result],
         \A u \in Procs : /\ st'[u].k = st[u].k /\ st'[u].ret = st[u].ret
                          /\ st'[u].pc = "idle" <=> st[u].pc = "idle"
  PROVE  {q} \in SUBSET Object!Open /\ Object!Execute({q})
<1>1. look'[q] = Result /\ \A u \in Procs : u # q => look'[u] = look[u]
  BY DEF RefInv
<1>2. PhaseOf(q) = "called" /\ PhaseOf(q)' = "done"
  BY <1>1, ResultIsNumber DEF PhaseOf
<1>3. Phases' = [Phases EXCEPT ![q] = "done"] /\ Ats' = Ats /\ Rets' = Rets
  BY <1>1, <1>2, OnePhase DEF Ats, Rets
<1>4. {q} \in SUBSET Object!Open
  BY <1>2, ThreadsAreProcs DEF Object!Open
<1>5. {t \in {q} : Object!Writes(t)} = {q}
  BY DEF Object!Writes
<1>6. Cardinality({q}) = 1
  BY FS_Singleton
<1>6a. Object!Cardinality({q}) = 1
  BY <1>6, SameCardinality
<1> DEFINE order == <<q>>
           found == [t \in {q} |-> 0]
<1>7. order \in Object!SetToSeqs({q})
  <2>1. 1 .. Object!Cardinality({q}) = {1}
    BY <1>6a
  <2>2. order \in [{1} -> {q}]
    BY DOMAIN order = {1}, order[1] = q, order = [i \in {1} |-> q]
  <2>3. QED
    BY <2>1, <2>2 DEF Object!SetToSeqs
<1>8. found \in [{q} -> 0 .. Object!Cardinality({q})]
  BY <1>6a
<1>9. \A i \in DOMAIN order : found[order[i]] = i - 1
  OBVIOUS
<1>10. object' = object \o [i \in DOMAIN order |-> <<order[i], Ats[order[i]]>>]
  <2>1. PICK x : x = <<q, st[q].k>>
    OBVIOUS
  <2>2. DOMAIN order = {1} /\ order[1] = q /\ Ats[q] = st[q].k
    BY DEF Ats
  <2>3. [i \in DOMAIN order |-> <<order[i], Ats[order[i]]>>] = [i \in {1} |-> x]
    BY <2>1, <2>2
  <2>4. [i \in {1} |-> x] = <<x>>
    BY DOMAIN <<x>> = {1}, <<x>>[1] = x, <<x>> = [i \in 1 .. 1 |-> x]
  <2>5. object' = Append(object, x) /\ object' = object \o <<x>>
    <3>1. object \in Seq(Calling) /\ st[q] \in Locals
      BY DEF StmInv, StmTypeOK
    <3>2. x \in Calling
      BY <2>1, <3>1 DEF Calling, Locals
    <3>3. Append(object, x) = object \o <<x>>
      BY ONLY <3>1, <3>2
    <3>4. QED
      BY <2>1, <3>3
  <2>6. QED
    BY <2>3, <2>4, <2>5
<1>11. Phases' = [t \in Procs |-> IF t \in {q} THEN "done" ELSE Phases[t]]
  BY <1>3 DEF Phases
<1>12. look' = [t \in Procs |-> IF t \in {q} THEN Len(object) + found[t] + 1
                                ELSE look[t]]
  <2>1. Len(object) \in Nat
    BY DEF StmInv, StmTypeOK
  <2>2. Len(object) + found[q] + 1 = Result
    BY <2>1 DEF Result
  <2>3. look' = [t \in Procs |-> IF t = q THEN Result ELSE look[t]]
    BY DEF RefInv
  <2> HIDE DEF found
  <2>4. QED
    BY <2>2, <2>3
<1>13. UNCHANGED <<Ats, Rets>>
  BY <1>3
<1> DEFINE Writers == {t \in {q} : Object!Writes(t)}
           All == 0 .. Cardinality(Procs) - 1
           TakesEffect(o, f, T) ==
      /\ \A i \in DOMAIN o : f[o[i]] = i - 1
      /\ object' = object \o [i \in DOMAIN o |-> <<o[i], Ats[o[i]]>>]
      /\ Phases' = [t \in T |-> IF t \in {q} THEN "done" ELSE Phases[t]]
      /\ look' = [t \in T |-> IF t \in {q} THEN Len(object) + f[t] + 1
                              ELSE look[t]]
      /\ UNCHANGED <<Ats, Rets>>
<1>14. TakesEffect(order, found, Procs)
  BY <1>9, <1>10, <1>11, <1>12, <1>13
<1>15. Writers = {q} /\ All = Procs
  BY <1>5, ThreadsAreProcs
<1>16. \E o \in Object!SetToSeqs(Writers),
          f \in [{q} -> 0 .. Object!Cardinality(Writers)] :
         TakesEffect(o, f, All)
  <2> HIDE DEF order, found, TakesEffect, Writers, All
  <2>1. QED
    BY <1>7, <1>8, <1>14, <1>15
<1>17. Object!Execute({q})
  <2> HIDE DEF order, found
  <2>1. QED
    BY <1>16 DEF Object!Execute, Phases, Ats, Rets
<1>18. QED
  BY <1>4, <1>17

LEMMA CallRefines ==
  ASSUME Inv, StmInv, RefInv, NEW p \in Procs, Writer(p) \/ Reader(p),
         UNCHANGED vars
  PROVE  [Object!Next]_Object!avars
<1>1. p \in 0 .. Cardinality(Procs) - 1
  BY ThreadsAreProcs
<1>2. CASE Continues(p)
  <2>1. CASE st[p].pc = "idle"
    BY <1>1, <1>2, <2>1, StepIsCall DEF Object!Next
  <2>2. CASE st[p].pc # "idle"
    BY <1>2, <2>2, StepIsStutter
  <2>3. QED
    BY <2>1, <2>2
<1>3. CASE Returns(p)
  BY <1>1, <1>3, StepIsReturn DEF Object!Next
<1>4. CASE ReadFunc(p)
  <2>1. Reader(p) /\ st[p].pc = "readFunc"
    BY <1>4 DEF Reader, ReadFunc, Go
  <2>2. Calls[p][st[p].k] # "write"
    BY <2>1, AnswersAll DEF RefInv, AnswersOf, ReaderSteps, Steps, Arrived,
       Held, Combining
  <2>3. /\ object' = object /\ look' = [look EXCEPT ![p] = Result]
        /\ \A u \in Procs : /\ st'[u].k = st[u].k /\ st'[u].ret = st[u].ret
                            /\ st'[u].pc = "idle" <=> st[u].pc = "idle"
    BY <1>4, <2>1, StepFacts DEF ReadFunc, Go, StmInv, StmTypeOK, Locals
  <2>4. Object!Observe(p)
    BY <2>1, <2>2, <2>3, LookIsObserve
  <2>5. QED
    BY <1>1, <2>4 DEF Object!Next
<1>5. CASE RunMutation(p)
  <2>1. Writer(p) /\ st[p].pc = "run"
    BY <1>5 DEF Writer, RunMutation, Goto, Go
  <2>2. PICK q \in Procs :
          /\ Waiting(q) /\ tid[q] = st[p].i /\ st[p].fn = <<q, st[q].k>>
          /\ st[q].pc \notin Inside \cup {"idle", "unlock"}
    BY <2>1, RunOwner
  <2>3. /\ look' = [look EXCEPT ![q] = Result]
        /\ object' = IF Calls[q][st[q].k] = "write"
                     THEN Append(object, <<q, st[q].k>>) ELSE object
    BY <1>5, <2>2 DEF RunMutation, IsWrite
  <2>4. \A u \in Procs : /\ st'[u].k = st[u].k /\ st'[u].ret = st[u].ret
                         /\ st'[u].pc = "idle" <=> st[u].pc = "idle"
    BY <1>5, <2>1, StepFacts
       DEF RunMutation, Goto, Go, StmInv, StmTypeOK, Locals
  <2>5. q \in 0 .. Cardinality(Procs) - 1 /\ st[q].pc # "idle"
    BY <2>2, ThreadsAreProcs
  <2>6. CASE Calls[q][st[q].k] = "write"
    <3>1. ~Ran(tid[q])
      BY <2>1, <2>2, RunOwner
    <3>2. look[q] = 0
      BY <2>2, <2>6, <3>1, AnswersAll DEF RefInv, AnswersOf
    <3>3. {q} \in SUBSET Object!Open /\ Object!Execute({q})
      BY <2>3, <2>4, <2>5, <2>6, <3>2, RunIsExecute
    <3>4. QED
      BY <3>3 DEF Object!Next
  <2>7. CASE Calls[q][st[q].k] # "write"
    <3>1. Object!Observe(q)
      BY <2>3, <2>4, <2>5, <2>7, LookIsObserve
    <3>2. QED
      BY <2>5, <3>1 DEF Object!Next
  <2>8. QED
    BY <2>6, <2>7
<1>6. QED
  BY <1>2, <1>3, <1>4, <1>5, WriterData, ReaderData

LEMMA StepRefines ==
  Inv /\ StmInv /\ RefInv /\ [StmNext]_<<vars, stmVars>> =>
    [Object!Next]_Object!avars
<1> SUFFICES ASSUME Inv, StmInv, RefInv, [StmNext]_<<vars, stmVars>>
             PROVE  [Object!Next]_Object!avars
  OBVIOUS
<1>1. ASSUME NEW p \in Procs, Writer(p) \/ Reader(p), UNCHANGED vars
      PROVE  [Object!Next]_Object!avars
  BY <1>1, CallRefines
<1>2. CASE UNCHANGED stmVars
  BY <1>2 DEF stmVars, Object!avars, PhaseOf
<1>3. QED
  BY <1>1, <1>2 DEF StmNext, RegistryStep

\* Whoever finds its slot empty finds the result of its own call, and no call
\* that changes the object is run twice.
THEOREM AnswersAreOwn == StmSpec => []RefInv
<1>1. QED
  BY RefInitInv, RefNextInv, StmInvariance, RegistryInvariance, PTL DEF StmSpec

\* Every call takes effect once, in an instant between its call and its return,
\* and returns the result of that instant, whichever thread has run its
\* function, for any number of threads and calls.
THEOREM StmImplementsObject == StmSpec => ImplementsObject
<1>1. QED
  BY ObjectInit, StepRefines, AnswersAreOwn, StmInvariance, RegistryInvariance,
     PTL DEF StmSpec, ImplementsObject, Object!Spec

=============================================================================
