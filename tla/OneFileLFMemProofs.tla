-------------------------- MODULE OneFileLFMemProofs --------------------------
(***************************************************************************)
(* Proofs that the memory reclamation of OneFileLFMem is safe, for every   *)
(* number of threads, every set of roots and objects, every program and    *)
(* every length of the runs: no thread touches an object after it has been *)
(* freed, and no object is freed twice or while it is in use.              *)
(***************************************************************************)
EXTENDS OneFileLFMemInv, OneFileLFProofs

USE OneFileLFAssumption

(***************************************************************************)
(* Reachability.                                                           *)
(***************************************************************************)

\* What can be reached is closed under following pointers ...
LEMMA ReachableClosed ==
  ASSUME NEW f
  PROVE  ClosedIn(f, Reachable(f)) /\ Reachable(f) \subseteq Objs
BY DEF ClosedIn, Reachable

\* ... and nothing smaller is.
LEMMA ReachableLeast ==
  ASSUME NEW f, NEW S \in SUBSET Objs, ClosedIn(f, S)
  PROVE  Reachable(f) \subseteq S
BY DEF Reachable

\* Images that agree on the roots and on a closed set lead to the same objects.
LEMMA ReachableAgree ==
  ASSUME NEW f, NEW g, NEW S \in SUBSET Objs, ClosedIn(f, S),
         \A w \in Roots \cup S : f[w] = g[w]
  PROVE  ClosedIn(g, S) /\ Reachable(g) = Reachable(f) /\ Reachable(f) \subseteq S
<1>1. ClosedIn(g, S)
  BY DEF ClosedIn
<1>2. Reachable(f) \subseteq S /\ Reachable(g) \subseteq S
  BY <1>1, ReachableLeast
<1>3. ClosedIn(g, Reachable(f)) /\ ClosedIn(f, Reachable(g))
  BY <1>2, ReachableClosed DEF ClosedIn
<1>4. Reachable(f) \subseteq Reachable(g) /\ Reachable(g) \subseteq Reachable(f)
  BY <1>3, ReachableClosed, ReachableLeast
<1>5. QED
  BY <1>1, <1>2, <1>4

\* A word that cannot be reached leads nowhere.
LEMMA ReachableExcept ==
  ASSUME NEW f \in [Words -> Vals], NEW o \in Objs, NEW v, o \notin Reachable(f)
  PROVE  Reachable([f EXCEPT ![o] = v]) = Reachable(f)
<1>1. \A w \in Roots \cup Reachable(f) : f[w] = [f EXCEPT ![o] = v][w]
  BY MemAssumption, ReachableClosed
<1>2. QED
  BY <1>1, ReachableClosed, ReachableAgree

(***************************************************************************)
(* Sequences of distinct objects.                                          *)
(***************************************************************************)

\* The list without its i-th element (CleanFree).
Without(s, i) == SubSeq(s, 1, i - 1) \o SubSeq(s, i + 1, Len(s))

LEMMA ElementOf ==
  ASSUME NEW S, NEW s \in Seq(S)
  PROVE  /\ \A i \in 1 .. Len(s) : s[i] \in Elements(s)
         /\ \A o \in Elements(s) : \E i \in 1 .. Len(s) : s[i] = o
         /\ Elements(s) \subseteq S
BY DEF Elements

LEMMA ConcatFacts ==
  ASSUME NEW S, NEW s \in Seq(S), NEW r \in Seq(S)
  PROVE  /\ s \o r \in Seq(S)
         /\ Len(s) \in Nat /\ Len(r) \in Nat
         /\ Len(s \o r) = Len(s) + Len(r)
         /\ DOMAIN s = 1 .. Len(s) /\ DOMAIN r = 1 .. Len(r)
         /\ DOMAIN (s \o r) = 1 .. Len(s) + Len(r)
         /\ \A j \in 1 .. Len(s) + Len(r) :
              (s \o r)[j] = IF j <= Len(s) THEN s[j] ELSE r[j - Len(s)]
OBVIOUS

LEMMA WithoutElements ==
  ASSUME NEW S, NEW s \in Seq(S), Injective(s), NEW i \in DOMAIN s
  PROVE  /\ Without(s, i) \in Seq(S)
         /\ Injective(Without(s, i))
         /\ Elements(Without(s, i)) = Elements(s) \ {s[i]}
<1> DEFINE n == Len(s)
           r == Without(s, i)
<1>1. n \in Nat /\ i \in 1 .. n /\ DOMAIN s = 1 .. n
  OBVIOUS
<1>2. /\ SubSeq(s, 1, i - 1) \in Seq(S)
      /\ Len(SubSeq(s, 1, i - 1)) = i - 1
      /\ \A j \in 1 .. i - 1 : SubSeq(s, 1, i - 1)[j] = s[j]
  BY <1>1
<1>3. /\ SubSeq(s, i + 1, n) \in Seq(S)
      /\ Len(SubSeq(s, i + 1, n)) = n - i
      /\ \A j \in 1 .. n - i : SubSeq(s, i + 1, n)[j] = s[i + j]
  <2>1. CASE i < n
    <3>1. SubSeq(s, i + 1, n) = [j \in 1 .. n - i |-> s[i + j]]
      BY <1>1, <2>1
    <3>2. n - i \in Nat /\ \A j \in 1 .. n - i : s[i + j] \in S
      BY <1>1, <2>1
    <3>3. QED
      BY <3>1, <3>2
  <2>2. CASE i = n
    <3>1. SubSeq(s, i + 1, n) = <<>>
      BY <1>1, <2>2
    <3>2. QED
      BY <1>1, <2>2, <3>1
  <2>3. QED
    BY <1>1, <2>1, <2>2
<1>4. /\ r \in Seq(S)
      /\ Len(r) = n - 1
      /\ \A j \in 1 .. n - 1 : r[j] = IF j < i THEN s[j] ELSE s[j + 1]
  <2>1. PICK p \in Seq(S), q \in Seq(S) :
          p = SubSeq(s, 1, i - 1) /\ q = SubSeq(s, i + 1, n)
    BY <1>2, <1>3
  <2>2. r = p \o q
    BY <2>1 DEF Without
  <2>3. Len(p) = i - 1 /\ Len(q) = n - i
    BY <1>2, <1>3, <2>1
  <2>4. /\ p \o q \in Seq(S) /\ Len(p \o q) = n - 1
        /\ \A j \in 1 .. Len(p) + Len(q) :
             (p \o q)[j] = IF j <= Len(p) THEN p[j] ELSE q[j - Len(p)]
    <3>1. p \o q \in Seq(S)
      OBVIOUS
    <3>2. Len(p \o q) = n - 1
      <4>1. Len(p \o q) = Len(p) + Len(q)
        OBVIOUS
      <4>2. n \in Int /\ i \in Int
        BY <1>1
      <4>3. QED
        BY <2>3, <4>1, <4>2
    <3>3. QED
      BY <3>1, <3>2, ConcatFacts
  <2>5. ASSUME NEW j \in 1 .. n - 1
        PROVE  r[j] = IF j < i THEN s[j] ELSE s[j + 1]
    <3>1. j \in 1 .. Len(p) + Len(q)
      BY <1>1, <2>3
    <3>2. CASE j < i
      <4>1. r[j] = p[j] /\ j \in 1 .. i - 1
        BY <1>1, <2>2, <2>3, <2>4, <3>1, <3>2
      <4>2. p[j] = s[j]
        BY <1>2, <2>1, <4>1
      <4>3. QED
        BY <3>2, <4>1, <4>2
    <3>3. CASE j >= i
      <4>1. r[j] = q[j - (i - 1)] /\ j - (i - 1) \in 1 .. n - i
        <5>1. n \in Int /\ i \in Int /\ j \in Int
          BY <1>1
        <5>2. ~(j <= Len(p)) /\ j - Len(p) = j - (i - 1)
          BY <2>3, <3>3, <5>1
        <5>3. r[j] = q[j - Len(p)]
          BY <2>2, <2>4, <3>1, <5>2
        <5>4. j - (i - 1) \in 1 .. n - i
          BY <3>3, <5>1
        <5>5. QED
          BY <5>2, <5>3, <5>4
      <4>2. q[j - (i - 1)] = s[i + (j - (i - 1))]
        BY <1>3, <2>1, <4>1
      <4>3. QED
        BY <1>1, <3>3, <4>1, <4>2
    <3>4. QED
      BY <1>1, <3>2, <3>3
  <2>6. QED
    BY <2>2, <2>4, <2>5
<1> HIDE DEF n, r
<1>5. DOMAIN r = 1 .. n - 1
  BY <1>1, <1>4
<1>6. \A j, k \in 1 .. n : s[j] = s[k] => j = k
  BY <1>1 DEF Injective
<1>7. ASSUME NEW j \in 1 .. n - 1, NEW k \in 1 .. n - 1, r[j] = r[k]
      PROVE  j = k
  <2>1. PICK a \in 1 .. n, b \in 1 .. n :
          /\ a = (IF j < i THEN j ELSE j + 1) /\ r[j] = s[a]
          /\ b = (IF k < i THEN k ELSE k + 1) /\ r[k] = s[b]
    BY <1>1, <1>4
  <2>2. a = b
    BY <1>6, <1>7, <2>1
  <2>3. QED
    BY <1>1, <2>1, <2>2
<1>8. ASSUME NEW j \in 1 .. n - 1
      PROVE  r[j] \in Elements(s) \ {s[i]}
  <2>1. PICK a \in 1 .. n : a = (IF j < i THEN j ELSE j + 1) /\ r[j] = s[a]
    BY <1>1, <1>4
  <2>2. a # i
    BY <1>1, <2>1
  <2>3. QED
    BY <1>1, <1>6, <2>1, <2>2 DEF Elements
<1>9. ASSUME NEW a \in 1 .. n, s[a] # s[i]
      PROVE  s[a] \in Elements(r)
  <2>1. PICK j \in 1 .. n - 1 : j = (IF a < i THEN a ELSE a - 1)
    BY <1>1, <1>9
  <2>2. r[j] = s[a]
    BY <1>1, <1>4, <1>9, <2>1
  <2>3. QED
    BY <1>5, <2>2 DEF Elements
<1>10. Elements(r) = Elements(s) \ {s[i]}
  BY <1>1, <1>5, <1>8, <1>9 DEF Elements
<1>11. Injective(r)
  BY <1>5, <1>7 DEF Injective
<1>12. QED
  BY <1>4, <1>10, <1>11 DEF r

LEMMA AppendElements ==
  ASSUME NEW S, NEW s \in Seq(S), NEW o \in S
  PROVE  /\ Append(s, o) \in Seq(S)
         /\ Elements(Append(s, o)) = Elements(s) \cup {o}
         /\ Injective(s) /\ o \notin Elements(s) => Injective(Append(s, o))
<1>1. /\ Append(s, o) \in Seq(S) /\ Len(Append(s, o)) = Len(s) + 1
      /\ DOMAIN s = 1 .. Len(s)
      /\ DOMAIN Append(s, o) = 1 .. Len(s) + 1
      /\ Len(s) \in Nat
      /\ Append(s, o)[Len(s) + 1] = o
      /\ \A j \in 1 .. Len(s) : Append(s, o)[j] = s[j]
  OBVIOUS
<1>2. QED
  BY <1>1 DEF Elements, Injective

LEMMA ConcatElements ==
  ASSUME NEW S, NEW s \in Seq(S), NEW r \in Seq(S)
  PROVE  /\ s \o r \in Seq(S)
         /\ Elements(s \o r) = Elements(s) \cup Elements(r)
         /\ Injective(s) /\ Injective(r) /\ Elements(s) \cap Elements(r) = {}
              => Injective(s \o r)
<1> DEFINE n == Len(s)
           m == Len(r)
           q == s \o r
<1>1. /\ q \in Seq(S)
      /\ n \in Nat /\ m \in Nat
      /\ DOMAIN s = 1 .. n /\ DOMAIN r = 1 .. m /\ DOMAIN q = 1 .. n + m
      /\ \A j \in 1 .. n + m : q[j] = IF j <= n THEN s[j] ELSE r[j - n]
  BY ConcatFacts
<1> HIDE DEF q
<1>2. ASSUME NEW j \in 1 .. n + m
      PROVE  q[j] \in Elements(s) \cup Elements(r)
  <2>1. CASE j <= n
    <3>1. j \in 1 .. n /\ q[j] = s[j]
      BY <1>1, <2>1
    <3>2. QED
      BY <3>1, ElementOf
  <2>2. CASE j > n
    <3>1. j - n \in 1 .. m /\ q[j] = r[j - n]
      BY <1>1, <2>2
    <3>2. QED
      BY <3>1, ElementOf
  <2>3. QED
    BY <1>1, <2>1, <2>2
<1>3. ASSUME NEW j \in 1 .. n
      PROVE  s[j] \in Elements(q)
  <2>1. j \in 1 .. n + m /\ q[j] = s[j]
    BY <1>1
  <2>2. QED
    BY <1>1, <2>1 DEF Elements
<1>4. ASSUME NEW j \in 1 .. m
      PROVE  r[j] \in Elements(q)
  <2>1. PICK k \in 1 .. n + m : k = j + n
    BY <1>1
  <2>2. q[k] = r[j] /\ k \in DOMAIN q
    BY <1>1, <2>1
  <2>3. QED
    BY <2>2 DEF Elements
<1>5. Elements(q) = Elements(s) \cup Elements(r)
  BY <1>1, <1>2, <1>3, <1>4 DEF Elements
<1>6. ASSUME Injective(s), Injective(r), Elements(s) \cap Elements(r) = {},
             NEW j \in 1 .. n + m, NEW k \in 1 .. n + m, q[j] = q[k]
      PROVE  j = k
  <2>1. CASE j <= n /\ k <= n
    BY <1>1, <1>6, <2>1 DEF Injective
  <2>2. CASE j > n /\ k > n
    <3>1. j - n \in 1 .. m /\ k - n \in 1 .. m /\ r[j - n] = r[k - n]
      BY <1>1, <1>6, <2>2
    <3>2. j - n = k - n
      BY <1>1, <1>6, <3>1 DEF Injective
    <3>3. QED
      BY <1>1, <3>2
  <2>3. CASE j <= n /\ k > n
    <3>1. j \in 1 .. n /\ k - n \in 1 .. m /\ s[j] = r[k - n]
      BY <1>1, <1>6, <2>3
    <3>2. s[j] \in Elements(s) /\ r[k - n] \in Elements(r)
      BY <3>1, ElementOf
    <3>3. QED
      BY <1>6, <3>1, <3>2
  <2>4. CASE j > n /\ k <= n
    <3>1. k \in 1 .. n /\ j - n \in 1 .. m /\ s[k] = r[j - n]
      BY <1>1, <1>6, <2>4
    <3>2. s[k] \in Elements(s) /\ r[j - n] \in Elements(r)
      BY <3>1, ElementOf
    <3>3. QED
      BY <1>6, <3>1, <3>2
  <2>5. QED
    BY <1>1, <2>1, <2>2, <2>3, <2>4
<1>7. Injective(s) /\ Injective(r) /\ Elements(s) \cap Elements(r) = {}
        => Injective(q)
  BY <1>1, <1>6 DEF Injective
<1>8. QED
  BY <1>1, <1>5, <1>7 DEF q

(***************************************************************************)
(* The steps of OneFileLFMem and those of OneFileLF.                       *)
(***************************************************************************)

\* The program uses words and values.
LEMMA ProgramTypes ==
  ASSUME MemTypeOK, NEW t \in Threads
  PROVE  Roots \cup InUse(t) \subseteq Words /\ Pointers(t) \subseteq Vals
BY MemAssumption DEF MemTypeOK, InUse, Pointers

\* Every step but tmNew is one of the engine, or leaves the engine alone.
LEMMA EngineStep ==
  ASSUME MemTypeOK, NEW t \in Threads, MThreadNext(t)
  PROVE  \/ ThreadNext(t)
         \/ UNCHANGED vars
         \/ \E o \in Objs, v \in Pointers(t) : TmNew(t, o, v)
<1>1. CASE Engine(t)
  BY <1>1, ProgramTypes
     DEF Engine, MStore, ThreadNext, Body, CommitTx
<1>2. CASE \/ Transaction(t) \/ LoadAbort(t) \/ CommitCheckFails(t)
           \/ CommitCasFails(t)
  BY <1>2 DEF ThreadNext, Body, CommitTx
<1>3. CASE MLoadReturn(t)
  BY <1>3 DEF MLoadReturn, ThreadNext, Body
<1>4. ASSUME NEW o \in Objs, TmDelete(t, o)
      PROVE  ThreadNext(t)
  BY <1>4 DEF TmDelete, ThreadNext, Body
<1>5. CASE RetireAll(t) \/ CleanKeepsCurrent(t) \/ CleanScan(t) \/ CleanFree(t)
  BY <1>5 DEF RetireAll, CleanKeepsCurrent, CleanScan, CleanFree
<1>6. CASE CleanDone(t)
  BY <1>6 DEF CleanDone, ThreadNext, CommitTx
<1>7. QED
  BY <1>1, <1>2, <1>3, <1>4, <1>5, <1>6 DEF MThreadNext

\* A step changes the lists of its thread only.
SameLists(u) ==
  /\ alog'[u] = alog[u] /\ rlog'[u] = rlog[u] /\ retired'[u] = retired[u]
  /\ cleanAt'[u] = cleanAt[u] /\ curEra'[u] = curEra[u]
  /\ known'[u] = known[u]

LEMMA OthersKeepLists ==
  ASSUME Core, MemTypeOK, NEW t \in Threads, MThreadNext(t),
         NEW u \in Threads, u # t
  PROVE  SameThread(u) /\ SameLists(u)
<1>1. SameThread(u)
  <2>1. CASE ThreadNext(t)
    BY <2>1, OthersKeep
  <2>2. CASE UNCHANGED vars
    BY <2>2 DEF vars, SameThread
  <2>3. CASE \E o \in Objs, v \in Pointers(t) : TmNew(t, o, v)
    BY <2>3 DEF TmNew, Operate, Step, SameThread, MemTypeOK, TypeOK
  <2>4. QED
    BY <2>1, <2>2, <2>3, EngineStep
<1>2. SameLists(u)
  <2> USE DEF SameLists, MemTypeOK
  <2>1. CASE UNCHANGED memVars
    BY <2>1 DEF memVars
  <2>2. CASE DeleteAllocs(t)
    BY <2>2 DEF DeleteAllocs
  <2>3. CASE MLoadReturn(t)
    BY <2>3 DEF MLoadReturn
  <2>4. ASSUME NEW o \in Objs, NEW v \in Pointers(t),
               TmDelete(t, o) \/ TmNew(t, o, v)
        PROVE  SameLists(u)
    BY <2>4 DEF TmDelete, TmNew
  <2>5. CASE RetireAll(t) \/ CleanKeepsCurrent(t) \/ CleanScan(t)
             \/ CleanFree(t) \/ CleanDone(t)
    BY <2>5 DEF RetireAll, CleanKeepsCurrent, CleanScan, CleanFree, CleanDone,
       NextObject
  <2>6. ASSUME NEW o \in Objs, TmDelete(t, o)
        PROVE  SameLists(u)
    BY <2>6 DEF TmDelete
  <2>7. QED
    BY <2>1, <2>2, <2>3, <2>4, <2>5, <2>6 DEF MThreadNext
<1>3. QED
  BY <1>1, <1>2

(***************************************************************************)
(* tmNew leaves the engine's part of the invariant as it is: nobody that   *)
(* applies a write-set has the new object in it.                           *)
(***************************************************************************)

\* A word of an object that is not allocated is in no log that is applied.
LEMMA NotApplied ==
  ASSUME Core, TouchState, NEW t \in Threads, Applies(t),
         NEW o \in Objs, o \notin allocated
  PROVE  \A i \in DOMAIN log[t] : log[t][i].addr # o
<1>1. ~Attempting(t)
  BY DEF Applies, Owner, InHelp, Applying, Attempting, HelpLabels, ApplyLabels,
     ActiveLabels, LoadLabels
<1>2. Touches(t) = LogAddrs(t) \cap Objs
  BY <1>1 DEF Touches
<1>3. o \notin LogAddrs(t)
  BY <1>2 DEF TouchState
<1>4. QED
  BY <1>3 DEF LogAddrs

LEMMA NewCore ==
  ASSUME Core, TouchState, EraState, NEW t \in Threads, NEW o \in Objs,
         NEW v \in Vals, TmNew(t, o, v)
  PROVE  Core'
<1>1. /\ TypeOK /\ o \in Words /\ o \notin allocated
      /\ UNCHANGED <<curTx, request, log, he, myTx, helpTx, pos, addr, lval,
                     lseq, numRetires, left, pc>>
      /\ mem' = [mem EXCEPT ![o] = [val |-> v, seq |-> 1]]
      /\ cmem' = [cmem EXCEPT ![o] = v]
      /\ snap' = [snap EXCEPT ![t][o] = v]
      /\ ops' = [ops EXCEPT ![t] = @ + 1]
  BY MemAssumption DEF Core, TypeOK, TmNew, Operate, Step
<1>2. curTx.seq >= 1 /\ curTx.seq \in Nat
  BY <1>1, ThreadFacts DEF EraState
<1>3. TypeOK'
  <2>1. (ops \in [Threads -> Nat])'
    BY <1>1, Counters DEF TypeOK
  <2>2. (mem \in [Words -> [val : Vals, seq : Nat]])'
    BY <1>1 DEF TypeOK
  <2>3. (cmem \in [Words -> Vals])' /\ (snap \in [Threads -> [Words -> Vals]])'
    BY <1>1 DEF TypeOK
  <2>4. QED
    BY <1>1, <2>1, <2>2, <2>3 DEF TypeOK
<1>4. \A w \in Words : w # o => mem'[w] = mem[w] /\ cmem'[w] = cmem[w]
  BY <1>1 DEF TypeOK
<1>5. mem'[o] = [val |-> v, seq |-> 1] /\ cmem'[o] = v
  BY <1>1 DEF TypeOK
<1>6. /\ \A u \in Threads : (InHelp(u) <=> InHelp(u)') /\ (Owner(u) <=> Owner(u)')
      /\ \A u \in Threads : (Reading(u) <=> Reading(u)') /\ (Applying(u) <=> Applying(u)')
      /\ IsOpen' <=> IsOpen
  BY <1>1 DEF InHelp, Owner, CalledByCommit, Reading, Applying, IsOpen
<1>7. SeqBound'
  BY <1>1, <1>2, <1>4, <1>5, <1>6 DEF Core, SeqBound
<1>8. PastClosed' /\ OwnSeq' /\ OwnerState' /\ OpenHasOwner'
  <2>1. PastClosed'
    BY <1>1, <1>6 DEF Core, PastClosed
  <2>2. OwnSeq'
    BY <1>1, <1>6 DEF Core, OwnSeq, NotNewer
  <2>3. OwnerState'
    BY <1>1, <1>6 DEF Core, OwnerState, CalledByCommit, Helped, NewTx
  <2>4. OpenHasOwner'
    BY <1>1, <1>6, ThreadFacts DEF Core, OpenHasOwner
  <2>5. QED
    BY <2>1, <2>2, <2>3, <2>4
<1>9. WriteSets' /\ CopyState'
  BY <1>1, <1>6 DEF Core, WriteSets, HasWriteSet, CopyState, ThreadCopy, Copied
<1>10. ApplyState'
  <2> SUFFICES ASSUME NEW u \in Threads
               PROVE  ThreadApply(u)'
    BY DEF ApplyState
  <2>1. ThreadApply(u)
    BY DEF Core, ApplyState
  <2>2. CASE Applying(u) \/ pc[u] = "close"
    <3>1. \A i \in DOMAIN log[u] : log[u][i].addr # o
      BY <1>1, <2>2, NotApplied DEF Applies
    <3>2. AllApplied(u) => AllApplied(u)'
      BY <1>1, <1>4, <3>1 DEF AllApplied
    <3>3. ExactOrApplied(u) => ExactOrApplied(u)'
      BY <1>1, <1>6, <3>2 DEF ExactOrApplied, Current
    <3>4. CASE Applying(u)
      <4>1. /\ \A k \in 0 .. Len(log[u]) - 1 :
                 ApplyIndex(u, k, Len(log[u])) + 1 \in DOMAIN log[u]
            /\ \A i \in DOMAIN log[u] : log[u][i].addr \in Words
            /\ ApplyEntry(u).addr \in Words
            /\ pos[u] \in Nat /\ pos[u] < Len(log[u]) /\ Len(log[u]) \in Nat
        BY <2>1, <3>4, ApplyFacts DEF ThreadApply, Core, TypeOK
      <4>2. ApplyIndex(u, pos[u], Len(log[u])) + 1 \in DOMAIN log[u]
        BY <4>1
      <4>3. ApplyEntry(u).addr # o
        BY <3>1, <4>2 DEF ApplyEntry
      <4>4. mem'[ApplyEntry(u)'.addr] = mem[ApplyEntry(u).addr]
        BY <1>1, <1>4, <4>1, <4>3 DEF ApplyEntry
      <4>5. ASSUME NEW k \in 0 .. pos[u] - 1
            PROVE  EntryApplied(u, k)'
        <5>1. ApplyIndex(u, k, Len(log[u])) + 1 \in DOMAIN log[u]
          BY <4>1
        <5>2. EntryApplied(u, k)
          BY <2>1, <3>4 DEF ThreadApply
        <5>3. QED
          BY <1>1, <1>4, <3>1, <4>1, <5>1, <5>2 DEF EntryApplied
      <4>6. pos'[u] < Len(log'[u]) /\ ExactOrApplied(u)'
        BY <1>1, <2>1, <3>3, <3>4 DEF ThreadApply
      <4>7. ToApply(u)' <=> ToApply(u)
        BY <1>1, <4>4 DEF ToApply
      <4>8. QED
        BY <1>1, <2>1, <3>4, <4>4, <4>5, <4>6, <4>7
           DEF ThreadApply, Applying, ApplyLabels
    <3>5. CASE pc[u] = "close"
      BY <1>1, <2>1, <3>2, <3>3, <3>5 DEF ThreadApply, Applying, ApplyLabels
    <3>6. QED
      BY <2>2, <3>4, <3>5
  <2>3. CASE ~Applying(u) /\ pc[u] # "close"
    BY <1>1, <2>3 DEF ThreadApply, Applying, ApplyLabels
  <2>4. QED
    BY <2>2, <2>3
<1>11. MemoryState'
  <2>1. ASSUME NEW w \in Words
        PROVE  \/ mem'[w].val = cmem'[w]
               \/ /\ IsOpen' /\ Logged(log'[curTx'.idx], w)
                  /\ mem'[w].seq < curTx'.seq
    <3>1. CASE w = o
      BY <1>5, <3>1
    <3>2. CASE w # o
      BY <1>1, <1>4, <1>6, <3>2 DEF Core, MemoryState
    <3>3. QED
      BY <3>1, <3>2
  <2>2. ASSUME IsOpen, NEW i \in DOMAIN log[curTx.idx]
        PROVE  log[curTx.idx][i].val = cmem'[log[curTx.idx][i].addr]
    <3>1. curTx.idx \in Threads /\ Owner(curTx.idx)
      BY <1>1, <2>2, ThreadFacts DEF Core, OpenHasOwner
    <3>2. log[curTx.idx][i].addr # o
      BY <1>1, <2>2, <3>1, NotApplied DEF Applies
    <3>3. log[curTx.idx][i].addr \in Words
      BY <2>2, <3>1 DEF Core, WriteSets, HasWriteSet, IsWriteSet, Entry
    <3>4. QED
      BY <1>4, <2>2, <3>2, <3>3 DEF Core, MemoryState
  <2>3. QED
    BY <1>1, <1>6, <2>1, <2>2 DEF MemoryState
<1>12. QED
  BY <1>3, <1>7, <1>8, <1>9, <1>10, <1>11 DEF Core

(***************************************************************************)
(* What most steps have in common: nothing is allocated, freed, retired or *)
(* committed, and what a thread can newly touch is safe.                   *)
(***************************************************************************)

\* Thread u may start to touch o: it has been there at the era u has published,
\* nobody is about to free it, and nobody has it for himself.
Fresh(o, u) ==
  /\ o \in allocated /\ newEra[o] <= he'[u]
  /\ \A v \in Threads : o \notin Retired(v)
  /\ \A v \in Threads : v # u /\ ~Committed(v) => o \notin alog[v]

KeepsTouching(u) ==
  \A o \in Touches(u)' :
    \/ /\ o \in Touches(u) /\ he'[u] = he[u] /\ alog'[u] = alog[u]
       /\ Attempting(u) => Attempting(u)'
    \/ Fresh(o, u)

CalmThread(u) ==
  /\ Injective(rlog'[u])
  /\ Committed(u)' => Committed(u) /\ rlog'[u] = rlog[u]
  /\ ~Committed(u)' => \/ alog'[u] = {}
                       \/ alog'[u] = alog[u] /\ ~Committed(u)
  /\ KeepsTouching(u)

Calm ==
  /\ UNCHANGED <<allocated, newEra, delEra, curTx, cmem, retired>>
  /\ \A u \in Threads : CalmThread(u)

\* A thread that does not move stays as it is.
LEMMA SameView ==
  ASSUME NEW u \in Threads, SameThread(u), SameLists(u)
  PROVE  /\ (Attempting(u)' <=> Attempting(u)) /\ (Committed(u)' <=> Committed(u))
         /\ (Applies(u)' <=> Applies(u)) /\ (EraPublished(u)' <=> EraPublished(u))
         /\ Touches(u)' = Touches(u) /\ Sees(u)' = Sees(u)
         /\ Doomed(u)' = Doomed(u) /\ Retired(u)' = Retired(u)
         /\ Deleted(u)' = Deleted(u) /\ LogAddrs(u)' = LogAddrs(u)
         /\ (Beginning(u)' <=> Beginning(u))
<1> USE DEF SameThread, SameLists
<1>1. /\ (Attempting(u)' <=> Attempting(u)) /\ (Owner(u)' <=> Owner(u))
      /\ (Applying(u)' <=> Applying(u)) /\ (InHelp(u)' <=> InHelp(u))
  BY DEF Attempting, Owner, InHelp, CalledByCommit, Applying
<1>2. /\ (Applies(u)' <=> Applies(u)) /\ (EraPublished(u)' <=> EraPublished(u))
      /\ (Committed(u)' <=> Committed(u)) /\ (Beginning(u)' <=> Beginning(u))
  BY <1>1 DEF Applies, EraPublished, Committed, Beginning
<1>3. Sees(u)' = Sees(u) /\ LogAddrs(u)' = LogAddrs(u)
  BY DEF Sees, LogAddrs
<1>4. Touches(u)' = Touches(u)
  BY <1>1, <1>2, <1>3 DEF Touches
<1>5. Retired(u)' = Retired(u) /\ Deleted(u)' = Deleted(u)
  BY DEF Retired, Elements, Deleted
<1>6. Doomed(u)' = Doomed(u)
  BY <1>2, <1>5 DEF Doomed
<1>7. QED
  BY <1>1, <1>2, <1>3, <1>4, <1>5, <1>6

LEMMA SameCalm ==
  ASSUME NEW u \in Threads, SameThread(u), SameLists(u), DoomedState
  PROVE  CalmThread(u)
<1>1. Injective(rlog'[u])
  BY DEF DoomedState, SameLists
<1>2. KeepsTouching(u)
  BY SameView DEF KeepsTouching, SameThread, SameLists
<1>3. QED
  BY <1>1, <1>2, SameView DEF CalmThread, SameLists

\* The reader that has its snapshot sees what is committed.
LEMMA RecheckFresh ==
  ASSUME MemInv, NEW t \in Threads, BeginRecheck(t), myTx[t] = curTx,
         alog'[t] = alog[t]
  PROVE  \A o \in Touches(t)' : Fresh(o, t)
<1>1. /\ pc[t] = "recheck" /\ pc'[t] = "body" /\ snap'[t] = cmem /\ he' = he
  BY DEF BeginRecheck, Step, MemInv, Core, TypeOK
<1>2. alog[t] = {}
  BY <1>1 DEF MemInv, BeginState, Beginning
<1>3. Touches(t)' = Reachable(cmem)
  BY <1>1, <1>2 DEF Touches, Attempting, ActiveLabels, Sees
<1>4. he[t] = curTx.seq
  BY <1>1 DEF MemInv, EraState, EraPublished
<1>5. ASSUME NEW o \in Reachable(cmem)
      PROVE  Fresh(o, t)
  <2>1. o \in Objs /\ o \in allocated
    BY ReachableClosed DEF MemInv, PrivateState
  <2>2. newEra[o] <= he'[t]
    BY <1>1, <1>4, <2>1 DEF MemInv, EraState
  <2>3. \A v \in Threads : o \notin Retired(v)
    BY DEF MemInv, DoomedState, Doomed
  <2>4. \A v \in Threads : ~Committed(v) => o \notin alog[v]
    BY DEF MemInv, PrivateState
  <2>5. QED
    BY <2>1, <2>2, <2>3, <2>4 DEF Fresh
<1>6. QED
  BY <1>3, <1>5

\* What a helper that got past its checks applies, the owner touches as well.
LEMMA HelperFresh ==
  ASSUME MemInv, NEW t \in Threads, pc[t] = "rechkRequest",
         request[Helped(t)] = helpTx[t], log' = log, he' = he
  PROVE  \A o \in LogAddrs(t)' \cap Objs : Fresh(o, t)
<1> DEFINE q == curTx.idx
<1>1. InHelp(t) /\ Core
  BY DEF InHelp, HelpLabels, MemInv
<1>2. helpTx[t] = curTx /\ IsOpen
  BY <1>1 DEF Core, PastClosed, Helped, IsOpen
<1>3. q \in Threads /\ Owner(q) /\ helpTx[q] = curTx
  BY <1>1, <1>2, ThreadFacts DEF Core, OpenHasOwner
<1>4. log[t] = log[q]
  <2>1. Copied(t, Len(log[t]))
    BY <1>1 DEF Core, CopyState, ThreadCopy
  <2>2. /\ Len(log[t]) = Len(log[q])
        /\ \A i \in 1 .. Len(log[t]) : log[t][i] = log[q][i]
    BY <1>2, <2>1 DEF Copied
  <2>3. log[t] \in Seq(Entry \cup {Garbage}) /\ log[q] \in Seq(Entry \cup {Garbage})
    BY <1>1, <1>3 DEF Core, TypeOK
  <2>4. QED
    BY <2>2, <2>3, SameEntries
<1>5. ~Owner(t) /\ helpTx[t] = myTx[t]
  BY <1>1 DEF Core, OwnerState, Owner, CalledByCommit, ApplyLabels
<1>6. he[t] = curTx.seq
  BY <1>2, <1>5 DEF MemInv, EraState, EraPublished
<1>7. /\ he[q] = myTx[q].seq /\ curTx.seq = myTx[q].seq + 1
      /\ myTx[q].seq \in Nat
  <2>1. he[q] = myTx[q].seq
    BY <1>3 DEF MemInv, EraState, EraPublished, Applies
  <2>2. curTx = NewTx(q)
    BY <1>1, <1>3 DEF Core, OwnerState
  <2>3. QED
    BY <1>1, <1>3, <2>1, <2>2, ThreadFacts DEF Core, NewTx, Trans
<1>8. Touches(q) = LogAddrs(q) \cap Objs /\ ~Attempting(q) /\ Committed(q)
  BY <1>3 DEF Touches, Applies, Owner, InHelp, Attempting, HelpLabels,
     ApplyLabels, ActiveLabels, LoadLabels, Committed
<1>9. LogAddrs(t)' = LogAddrs(q)
  BY <1>4 DEF LogAddrs
<1> HIDE DEF q
<1>10. ASSUME NEW o \in LogAddrs(q) \cap Objs
       PROVE  Fresh(o, t)
  <2>1. o \in allocated /\ newEra[o] <= he[q]
    BY <1>3, <1>8 DEF MemInv, TouchState
  <2>2. newEra[o] \in Nat
    BY DEF MemInv, MemTypeOK
  <2>3. newEra[o] <= he'[t]
    BY <1>6, <1>7, <2>1, <2>2
  <2>4. \A v \in Threads : o \notin Retired(v)
    BY <1>2 DEF MemInv, OpenLogState, Doomed, q
  <2>5. \A v \in Threads : ~Committed(v) => o \notin alog[v]
    BY <1>3, <1>8 DEF MemInv, PrivateState
  <2>6. QED
    BY <2>1, <2>3, <2>4, <2>5 DEF Fresh
<1>11. QED
  BY <1>9, <1>10

\* The engine commits, and applies what is committed, in these steps only.
LEMMA EngineCommits ==
  ASSUME MemInv, NEW t \in Threads, Engine(t), ~CommitCas(t)
  PROVE  Committed(t)' <=> Committed(t)
<1> USE DEF Committed, Owner, InHelp, CalledByCommit, Step, HelpLabels,
        ApplyLabels, MemInv, Core, TypeOK
<1>1. CASE BeginTx(t)
  BY <1>1 DEF BeginTx, BeginLoadCurTx, BeginReset, BeginSetEra, BeginRecheck
<1>2. CASE \/ HelpCheckRequest(t) \/ HelpCheckCurTx(t) \/ HelpRecheckRequest(t)
           \/ HelpClose(t)
  BY <1>2 DEF HelpCheckRequest, HelpCheckCurTx, HelpRecheckRequest, HelpClose,
     AfterHelp
<1>3. CASE HelpCopyNum(t) \/ HelpCopyEntry(t) \/ HelpSetEra(t)
  BY <1>3 DEF HelpCopyNum, HelpCopyEntry, HelpSetEra
<1>4. CASE ApplyLoadVal(t) \/ ApplyLoadSeq(t) \/ ApplyDcas(t)
  BY <1>4 DEF ApplyLoadVal, ApplyLoadSeq, ApplyDcas, NextEntry
<1>5. CASE \/ \E w \in Roots \cup InUse(t) :
                LoadVal(t, w) \/ \E v \in Pointers(t) : MStore(t, w, v)
           \/ LoadSeq(t)
  BY <1>5 DEF LoadVal, MStore, Store, LoadSeq, Operate
<1>6. CASE CommitReadOnly(t) \/ CommitCheck(t) \/ CommitOpen(t) \/ ClearEra(t)
  BY <1>6 DEF CommitReadOnly, CommitCheck, CommitOpen, ClearEra
<1>7. QED
  BY <1>1, <1>2, <1>3, <1>4, <1>5, <1>6 DEF Engine, HelpApply

LEMMA EngineApplies ==
  ASSUME MemInv, NEW t \in Threads, Engine(t), ~CommitCas(t), Applies(t)'
  PROVE  \/ Applies(t) /\ log'[t] = log[t] /\ he'[t] = he[t]
         \/ /\ pc[t] = "rechkRequest" /\ request[Helped(t)] = helpTx[t]
            /\ log' = log /\ he' = he
<1> USE DEF Applies, Owner, InHelp, CalledByCommit, Applying, Step, HelpLabels,
        ApplyLabels, MemInv, Core, TypeOK
<1>1. CASE BeginTx(t)
  BY <1>1 DEF BeginTx, BeginLoadCurTx, BeginReset, BeginSetEra, BeginRecheck
<1>2. CASE HelpCheckRequest(t)
  <2>1. CASE request[Helped(t)] # helpTx[t]
    BY <1>2, <2>1 DEF HelpCheckRequest, AfterHelp
  <2>2. CASE request[Helped(t)] = helpTx[t] /\ Helped(t) # t
    BY <1>2, <2>2 DEF HelpCheckRequest
  <2>3. CASE request[Helped(t)] = helpTx[t] /\ Helped(t) = t
    <3>1. Owner(t)
      BY <1>2, <2>3 DEF HelpCheckRequest, OwnerState
    <3>2. QED
      BY <1>2, <3>1 DEF HelpCheckRequest
  <2>4. QED
    BY <2>1, <2>2, <2>3
<1>3. CASE HelpCheckCurTx(t) \/ HelpClose(t)
  BY <1>3 DEF HelpCheckCurTx, HelpClose, AfterHelp
<1>4. CASE HelpRecheckRequest(t)
  BY <1>4 DEF HelpRecheckRequest, AfterHelp
<1>5. CASE HelpCopyNum(t) \/ HelpCopyEntry(t) \/ HelpSetEra(t)
  <2>1. ~Owner(t)
    BY <1>5 DEF HelpCopyNum, HelpCopyEntry, HelpSetEra, OwnerState
  <2>2. QED
    BY <1>5, <2>1 DEF HelpCopyNum, HelpCopyEntry, HelpSetEra
<1>6. CASE ApplyLoadVal(t) \/ ApplyLoadSeq(t) \/ ApplyDcas(t)
  BY <1>6 DEF ApplyLoadVal, ApplyLoadSeq, ApplyDcas, NextEntry
<1>7. CASE \/ \E w \in Roots \cup InUse(t) :
                LoadVal(t, w) \/ \E v \in Pointers(t) : MStore(t, w, v)
           \/ LoadSeq(t)
  BY <1>7 DEF LoadVal, MStore, Store, LoadSeq, Operate
<1>8. CASE CommitReadOnly(t) \/ CommitCheck(t) \/ CommitOpen(t) \/ ClearEra(t)
  <2>1. CASE CommitReadOnly(t) \/ CommitCheck(t)
    BY <2>1 DEF CommitReadOnly, CommitCheck
  <2>2. CASE CommitOpen(t) \/ ClearEra(t)
    BY <2>2 DEF CommitOpen, ClearEra
  <2>3. QED
    BY <1>8, <2>1, <2>2
<1>9. QED
  BY <1>1, <1>2, <1>3, <1>4, <1>5, <1>6, <1>7, <1>8 DEF Engine, HelpApply

LEMMA EngineTouches ==
  ASSUME MemInv, NEW t \in Threads, Engine(t), ~CommitCas(t), alog' = alog
  PROVE  KeepsTouching(t)
<1>1. Core /\ MemTypeOK
  BY DEF MemInv
<1>2. CASE Attempting(t)'
  <2>1. ThreadNext(t)
    BY <1>1, ProgramTypes DEF Engine, MStore, ThreadNext, Body, CommitTx
  <2>2. CASE BeginRecheck(t) /\ myTx[t] = curTx
    BY <2>2, RecheckFresh DEF KeepsTouching
  <2>3. CASE AttemptStep(t)
    <3>1. /\ Attempting(t) /\ Attempting(t)'
          /\ UNCHANGED <<curTx, mem, he, myTx, helpTx, cmem, snap>>
      BY <1>1, <2>3, AttemptFrame
    <3>2. Touches(t)' = Touches(t)
      BY <3>1 DEF Touches, Sees
    <3>3. QED
      BY <3>1, <3>2 DEF KeepsTouching
  <2>4. QED
    BY <1>1, <1>2, <2>1, <2>2, <2>3, AttemptSteps
<1>3. CASE ~Attempting(t)' /\ Applies(t)'
  <2>1. Touches(t)' = LogAddrs(t)' \cap Objs
    BY <1>3 DEF Touches
  <2>2. CASE Applies(t) /\ log'[t] = log[t] /\ he'[t] = he[t]
    <3>1. ~Attempting(t)
      BY <2>2 DEF Applies, Owner, InHelp, Applying, Attempting, HelpLabels,
         ApplyLabels, ActiveLabels, LoadLabels
    <3>2. Touches(t)' = Touches(t)
      BY <2>1, <2>2, <3>1 DEF Touches, LogAddrs
    <3>3. QED
      BY <2>2, <3>1, <3>2 DEF KeepsTouching
  <2>3. CASE /\ pc[t] = "rechkRequest" /\ request[Helped(t)] = helpTx[t]
             /\ log' = log /\ he' = he
    BY <2>1, <2>3, HelperFresh DEF KeepsTouching
  <2>4. QED
    BY <1>3, <2>2, <2>3, EngineApplies
<1>4. CASE ~Attempting(t)' /\ ~Applies(t)'
  BY <1>4 DEF Touches, KeepsTouching
<1>5. QED
  BY <1>2, <1>3, <1>4

LEMMA EngineCalm ==
  ASSUME MemInv, NEW t \in Threads, Engine(t), ~CommitCas(t), UNCHANGED memVars
  PROVE  Calm /\ [Next]_vars
<1>1. Core /\ MemTypeOK /\ DoomedState
  BY DEF MemInv
<1>2. MThreadNext(t)
  BY DEF MThreadNext
<1>3. [Next]_vars
  BY <1>1, ProgramTypes DEF Engine, MStore, ThreadNext, Body, CommitTx, Next
<1>4. UNCHANGED <<allocated, newEra, delEra, curTx, cmem, retired>>
  <2>1. UNCHANGED <<curTx, cmem>>
    BY DEF Engine, BeginTx, HelpApply, BeginLoadCurTx, BeginReset, BeginSetEra,
       BeginRecheck, HelpCheckRequest, HelpCopyNum, HelpCopyEntry, HelpSetEra,
       HelpCheckCurTx, HelpRecheckRequest, ApplyLoadVal, ApplyLoadSeq,
       ApplyDcas, HelpClose, LoadSeq, LoadVal, MStore, Store, CommitReadOnly,
       CommitCheck, CommitOpen, ClearEra
  <2>2. QED
    BY <2>1 DEF memVars
<1>5. CalmThread(t)
  <2>1. rlog' = rlog /\ alog' = alog
    BY DEF memVars
  <2>2. Injective(rlog'[t])
    BY <1>1, <2>1 DEF DoomedState
  <2>3. KeepsTouching(t)
    BY <2>1, EngineTouches
  <2>4. QED
    BY <2>1, <2>2, <2>3, EngineCommits DEF CalmThread
<1>6. ASSUME NEW u \in Threads
      PROVE  CalmThread(u)
  BY <1>1, <1>2, <1>5, OthersKeepLists, SameCalm
<1>7. QED
  BY <1>3, <1>4, <1>6 DEF Calm

\* The end of an attempt that has not committed.
Abort(t) ==
  /\ Transaction(t) \/ LoadAbort(t) \/ CommitCheckFails(t) \/ CommitCasFails(t)
  /\ DeleteAllocs(t)

\* The other steps of the program of an attempt, and those of clean.
LEMMA ListsCalm ==
  ASSUME MemInv, NEW t \in Threads,
         \/ MLoadReturn(t)
         \/ \E o \in Objs : TmDelete(t, o)
         \/ CleanKeepsCurrent(t) \/ CleanScan(t) \/ CleanDone(t)
  PROVE  Calm /\ [Next]_vars
<1>1. Core /\ MemTypeOK /\ DoomedState
  BY DEF MemInv
<1>2. MThreadNext(t)
  BY DEF MThreadNext
<1>3. ~\E o \in Objs, v \in Pointers(t) : TmNew(t, o, v)
  <2> SUFFICES ASSUME NEW o \in Objs, NEW v \in Pointers(t), TmNew(t, o, v)
               PROVE  FALSE
    OBVIOUS
  <2>1. o \notin allocated /\ o \in allocated'
    BY DEF TmNew
  <2>2. allocated' = allocated
    BY DEF MLoadReturn, TmDelete, CleanKeepsCurrent, CleanScan, CleanDone
  <2>3. QED
    BY <2>1, <2>2
<1>4. [Next]_vars
  BY <1>1, <1>2, <1>3, EngineStep DEF Next
<1>5. UNCHANGED <<allocated, newEra, delEra, curTx, cmem, retired>>
  BY DEF MLoadReturn, LoadReturn, TmDelete, Delete, CleanKeepsCurrent,
     CleanScan, CleanDone, CommitRetire, vars
<1>6. CalmThread(t)
  <2>1. CASE MLoadReturn(t)
    <3>1. /\ rlog' = rlog /\ alog' = alog /\ he' = he /\ snap' = snap
          /\ Attempting(t) /\ Attempting(t)'
          /\ ~Committed(t) /\ ~Committed(t)'
      BY <1>1, <2>1 DEF MLoadReturn, LoadReturn, Step, Core, TypeOK,
         Attempting, ActiveLabels, LoadLabels, Committed, Owner, InHelp,
         HelpLabels, ApplyLabels
    <3>2. Touches(t)' = Touches(t)
      BY <3>1 DEF Touches, Sees
    <3>3. QED
      BY <1>1, <3>1, <3>2 DEF CalmThread, KeepsTouching, DoomedState
  <2>2. ASSUME NEW o \in Objs, TmDelete(t, o)
        PROVE  CalmThread(t)
    <3>1. /\ rlog' = [rlog EXCEPT ![t] = Append(@, o)]
          /\ alog' = alog /\ he' = he /\ snap' = snap
          /\ Attempting(t) /\ Attempting(t)'
          /\ ~Committed(t) /\ ~Committed(t)'
          /\ o \notin Deleted(t)
      BY <1>1, <2>2 DEF TmDelete, Delete, Operate, Step, Core, TypeOK,
         Attempting, ActiveLabels, LoadLabels, Committed, Owner, InHelp,
         HelpLabels, ApplyLabels, InUse
    <3>2. Touches(t)' = Touches(t)
      BY <3>1 DEF Touches, Sees
    <3>3. rlog[t] \in Seq(Objs) /\ rlog'[t] = Append(rlog[t], o)
      BY <1>1, <3>1 DEF MemTypeOK
    <3>4. Injective(rlog[t]) /\ o \notin Elements(rlog[t])
      BY <1>1, <3>1 DEF DoomedState, Deleted, Elements
    <3>5. Injective(rlog'[t])
      BY <3>3, <3>4, AppendElements
    <3>6. QED
      BY <3>1, <3>2, <3>5 DEF CalmThread, KeepsTouching
  <2>3. CASE CleanKeepsCurrent(t) \/ CleanScan(t)
    <3>1. UNCHANGED <<vars, alog, rlog, retired>>
      BY <2>3 DEF CleanKeepsCurrent, CleanScan
    <3>2. /\ (Committed(t)' <=> Committed(t))
          /\ (Attempting(t)' <=> Attempting(t))
          /\ (Applies(t)' <=> Applies(t))
      BY <3>1 DEF vars, Committed, Owner, InHelp, CalledByCommit, Attempting,
         Applies, Applying
    <3>3. Touches(t)' = Touches(t)
      BY <3>1, <3>2 DEF vars, Touches, Sees, LogAddrs
    <3>4. QED
      BY <1>1, <3>1, <3>2, <3>3 DEF vars, CalmThread, KeepsTouching, DoomedState
  <2>4. CASE CleanDone(t)
    <3>1. rlog' = rlog /\ alog'[t] = {} /\ pc'[t] = "clear"
      BY <1>1, <2>4 DEF CleanDone, CommitRetire, Step, Core, TypeOK, MemTypeOK
    <3>2. ~Committed(t)' /\ ~Attempting(t)' /\ ~Applies(t)'
      BY <3>1 DEF Committed, Applies, Owner, InHelp, Applying, Attempting,
         HelpLabels, ApplyLabels, ActiveLabels, LoadLabels
    <3>3. QED
      BY <1>1, <3>1, <3>2 DEF CalmThread, KeepsTouching, Touches, DoomedState
  <2>5. QED
    BY <2>1, <2>2, <2>3, <2>4
<1>7. ASSUME NEW u \in Threads
      PROVE  CalmThread(u)
  BY <1>1, <1>2, <1>6, OthersKeepLists, SameCalm
<1>8. QED
  BY <1>4, <1>5, <1>7 DEF Calm

\* Every step is calm, or one of five.
LEMMA StepKinds ==
  ASSUME MemInv, [MNext]_allVars
  PROVE  \/ Calm /\ [Next]_vars
         \/ \E t \in Threads :
              \/ Abort(t)
              \/ CommitCas(t) /\ UNCHANGED memVars
              \/ \E o \in Objs, v \in Pointers(t) : TmNew(t, o, v)
              \/ RetireAll(t)
              \/ CleanFree(t)
<1>1. CASE (UNCHANGED allVars) \/ (Finished /\ UNCHANGED memVars)
  <2>1. UNCHANGED vars /\ UNCHANGED memVars
    BY <1>1 DEF allVars, Finished
  <2>2. ASSUME NEW u \in Threads
        PROVE  SameThread(u) /\ SameLists(u)
    BY <2>1 DEF vars, memVars, SameThread, SameLists
  <2>3. QED
    BY <2>1, <2>2, SameCalm DEF Calm, MemInv, vars, memVars
<1>2. ASSUME NEW t \in Threads, MThreadNext(t)
      PROVE  \/ Calm /\ [Next]_vars
             \/ Abort(t)
             \/ CommitCas(t) /\ UNCHANGED memVars
             \/ \E o \in Objs, v \in Pointers(t) : TmNew(t, o, v)
             \/ RetireAll(t)
             \/ CleanFree(t)
  <2>1. CASE Engine(t) /\ UNCHANGED memVars
    BY <2>1, EngineCalm
  <2>2. CASE \/ MLoadReturn(t)
             \/ \E o \in Objs : TmDelete(t, o)
             \/ CleanKeepsCurrent(t) \/ CleanScan(t) \/ CleanDone(t)
    BY <2>2, ListsCalm
  <2>3. QED
    BY <1>2, <2>1, <2>2 DEF MThreadNext, Abort
<1>3. CASE \E t \in Threads : MThreadNext(t)
  <2>1. PICK t \in Threads : MThreadNext(t)
    BY <1>3
  <2>2. QED
    BY <1>2, <2>1
<1>4. QED
  BY <1>1, <1>3 DEF MNext

(***************************************************************************)
(* What the other five do.                                                 *)
(***************************************************************************)

\* The phases of a thread.
LEMMA Phases ==
  ASSUME NEW t \in Threads
  PROVE  /\ Attempting(t) => ~Committed(t) /\ ~Applies(t) /\ Touches(t) = Sees(t)
         /\ Applies(t) => Touches(t) = LogAddrs(t) \cap Objs
         /\ pc[t] \in {"retire", "begin", "idle", "clear"} => Touches(t) = {}
BY DEF Attempting, Committed, Applies, Owner, InHelp, Applying, Touches,
   HelpLabels, ApplyLabels, ActiveLabels, LoadLabels

\* No thread that can touch anything has an era ahead of curTx.
LEMMA TouchEra ==
  ASSUME MemInv, NEW u \in Threads, NEW o \in Touches(u)
  PROVE  /\ o \in Objs /\ he[u] \in Nat /\ curTx.seq \in Nat
         /\ newEra[o] \in Nat
         /\ he[u] <= curTx.seq
<1>1. Core /\ MemTypeOK /\ TypeOK
  BY DEF MemInv, Core
<1>2. Attempting(u) \/ Applies(u)
  BY DEF Touches
<1>3. he[u] = myTx[u].seq
  BY <1>2 DEF MemInv, EraState, EraPublished
<1>4. o \in Objs
  BY <1>1, ReachableClosed DEF MemTypeOK, Touches, Sees
<1>5. myTx[u].seq \in Nat /\ curTx.seq \in Nat
  BY <1>1, ThreadFacts
<1>6. myTx[u].seq <= curTx.seq
  <2>1. CASE Attempting(u)
    <3>1. Reading(u)
      BY <2>1 DEF Attempting, Reading, ReaderLabels
    <3>2. QED
      BY <1>1, <1>5, <3>1 DEF Core, SeqBound
  <2>2. CASE Applies(u)
    <3>1. InHelp(u)
      BY <2>2 DEF Applies, Owner, Applying, InHelp, HelpLabels, ApplyLabels
    <3>2. helpTx[u].seq <= curTx.seq
      <4>1. helpTx[u].seq \in Nat
        BY <1>1, ThreadFacts
      <4>2. QED
        BY <1>1, <1>5, <3>1, <4>1 DEF Core, SeqBound
    <3>3. helpTx[u] = myTx[u] \/ helpTx[u].seq = myTx[u].seq + 1
      <4>1. Owner(u) => helpTx[u] = NewTx(u)
        BY <1>1 DEF Core, OwnerState
      <4>2. QED
        BY <3>1, <4>1 DEF Owner, CalledByCommit, NewTx, Trans
    <3>4. QED
      BY <1>1, <1>5, <3>2, <3>3, ThreadFacts
  <2>3. QED
    BY <1>2, <2>1, <2>2
<1>7. newEra[o] \in Nat
  BY <1>1, <1>4 DEF MemTypeOK
<1>8. QED
  BY <1>3, <1>4, <1>5, <1>6, <1>7

\* What an attempt at the last transaction can touch is not about to be freed.
LEMMA SeesApart ==
  ASSUME MemInv, NEW t \in Threads, Attempting(t), myTx[t] = curTx
  PROVE  /\ Reachable(snap[t]) = Reachable(cmem)
         /\ Sees(t) \subseteq allocated
         /\ \A u \in Threads : Doomed(u) \cap Sees(t) = {}
<1>1. \A w \in Roots \cup Sees(t) : snap[t][w] = cmem[w]
  BY DEF MemInv, SeenState, ThreadRead
<1>2. Reachable(snap[t]) = Reachable(cmem)
  <2>1. ClosedIn(snap[t], Sees(t)) /\ Sees(t) \subseteq Objs
    BY ReachableClosed DEF MemInv, ProgramState, ThreadProgram, Sees, MemTypeOK
  <2>2. QED
    BY <1>1, <2>1, ReachableAgree
<1>3. Sees(t) \subseteq allocated
  BY Phases DEF MemInv, TouchState
<1>4. ~Committed(t)
  BY Phases
<1>5. ASSUME NEW u \in Threads
      PROVE  Doomed(u) \cap Sees(t) = {}
  BY <1>2, <1>4 DEF Sees, MemInv, DoomedState
<1>6. QED
  BY <1>2, <1>3, <1>5

\* A program links nothing that it does not see.
LEMMA OverlayClosed ==
  ASSUME MemTypeOK, NEW t \in Threads, ThreadProgram(t)
  PROVE  /\ Sees(t) \subseteq Objs
         /\ ClosedIn(Overlay(snap[t], log[t]), Sees(t))
         /\ Reachable(Overlay(snap[t], log[t])) \subseteq Sees(t)
<1> DEFINE f == Overlay(snap[t], log[t])
<1>1. Sees(t) \subseteq Objs /\ Roots \subseteq Words /\ Objs \subseteq Words
  BY ReachableClosed, MemAssumption DEF Sees, MemTypeOK
<1>2. ASSUME NEW w \in Roots \cup Sees(t), f[w] \in Objs
      PROVE  f[w] \in Sees(t)
  <2>1. f[w] = LookupAddr(log[t], w, snap[t][w])
    BY <1>1 DEF Overlay
  <2>2. CASE Logged(log[t], w)
    <3>1. PICK i \in DOMAIN log[t] : f[w] = log[t][i].val
      BY <2>1, <2>2, PositionFact DEF LookupAddr
    <3>2. f[w] \in Sees(t) \cup {Null}
      BY <3>1 DEF ThreadProgram
    <3>3. QED
      BY <1>2, <3>2, MemAssumption
  <2>3. CASE ~Logged(log[t], w)
    <3>1. f[w] = snap[t][w]
      BY <2>1, <2>3 DEF LookupAddr
    <3>2. QED
      BY <1>2, <3>1 DEF ThreadProgram, ClosedIn
  <2>4. QED
    BY <2>2, <2>3
<1>3. ClosedIn(f, Sees(t))
  BY <1>2 DEF ClosedIn
<1>4. QED
  BY <1>1, <1>3, ReachableLeast

LEMMA AbortFacts ==
  ASSUME MemInv, NEW t \in Threads, Abort(t)
  PROVE  /\ [Next]_vars
         /\ UNCHANGED <<curTx, cmem, he, log, newEra, delEra, retired, cleanAt>>
         /\ allocated' = allocated \ alog[t]
         /\ alog' = [alog EXCEPT ![t] = {}] /\ alog'[t] = {}
         /\ rlog' = [rlog EXCEPT ![t] = <<>>] /\ rlog'[t] = <<>>
         /\ known'[t] = {}
         /\ pc'[t] = "begin" /\ pc[t] # "retire"
         /\ ~Committed(t) /\ ~Committed(t)'
         /\ ~Attempting(t)' /\ ~EraPublished(t)' /\ Touches(t)' = {}
         /\ \A u \in Threads : u # t => SameThread(u) /\ SameLists(u)
<1>1. Core /\ MemTypeOK /\ TypeOK
  BY DEF MemInv, Core
<1>2. MThreadNext(t)
  BY DEF Abort, MThreadNext
<1>3. [Next]_vars
  BY DEF Abort, Next, ThreadNext, Body, CommitTx
<1>4. /\ UNCHANGED <<curTx, cmem, he, log>>
      /\ pc[t] \in {"idle", "loadSeq", "body", "cas"}
      /\ pc'[t] = "begin"
  BY <1>1 DEF Abort, Transaction, LoadAbort, CommitCheckFails, CommitCasFails,
     Restart, Step, TypeOK
<1>5. /\ UNCHANGED <<newEra, delEra, retired, cleanAt>>
      /\ allocated' = allocated \ alog[t]
      /\ alog' = [alog EXCEPT ![t] = {}] /\ alog'[t] = {}
      /\ rlog' = [rlog EXCEPT ![t] = <<>>] /\ rlog'[t] = <<>>
      /\ known'[t] = {}
  BY <1>1 DEF Abort, DeleteAllocs, MemTypeOK
<1>6. /\ ~Committed(t) /\ ~Committed(t)'
      /\ ~Attempting(t)' /\ ~EraPublished(t)' /\ Touches(t)' = {}
  BY <1>4 DEF Committed, Owner, InHelp, Attempting, Applies, Applying, Touches,
     EraPublished, HelpLabels, ApplyLabels, ActiveLabels, LoadLabels
<1>7. \A u \in Threads : u # t => SameThread(u) /\ SameLists(u)
  BY <1>1, <1>2, OthersKeepLists
<1>8. QED
  BY <1>3, <1>4, <1>5, <1>6, <1>7

LEMMA CommitFacts ==
  ASSUME MemInv, NEW t \in Threads, CommitCas(t), UNCHANGED memVars
  PROVE  /\ [Next]_vars
         /\ UNCHANGED <<he, log, myTx>>
         /\ UNCHANGED <<allocated, newEra, delEra, alog, rlog, retired, cleanAt>>
         /\ curTx = myTx[t] /\ curTx'.idx = t
         /\ Attempting(t) /\ ~Attempting(t)'
         /\ ~Committed(t) /\ Committed(t)' /\ Owner(t)'
         /\ pc[t] # "retire" /\ pc'[t] = "chkRequest"
         /\ Touches(t)' \subseteq Sees(t) /\ Touches(t) = Sees(t)
         /\ LogAddrs(t)' \subseteq Roots \cup Sees(t)
         /\ Deleted(t)' = Deleted(t) /\ Deleted(t) \subseteq Sees(t)
         /\ \A o \in Sees(t) : o \in allocated /\ newEra[o] <= he[t]
         /\ Reachable(cmem') \subseteq Sees(t) \ Deleted(t)
         /\ \A u \in Threads : Doomed(u) \cap Sees(t) = {}
         /\ \A u \in Threads : u # t => SameThread(u) /\ SameLists(u)
<1>1. Core /\ MemTypeOK /\ TypeOK
  BY DEF MemInv, Core
<1>2. MThreadNext(t) /\ [Next]_vars
  BY DEF MThreadNext, Engine, Next, ThreadNext, CommitTx
<1>3. /\ UNCHANGED <<he, log, myTx>>
      /\ curTx = myTx[t] /\ curTx'.idx = t
      /\ pc[t] = "cas" /\ pc'[t] = "chkRequest"
      /\ helpTx'[t] = NewTx(t)
      /\ cmem' = Overlay(cmem, log[t])
  BY <1>1 DEF CommitCas, Step, TypeOK, NewTx, Trans
<1>4. /\ UNCHANGED <<allocated, newEra, delEra, alog, rlog, retired, cleanAt>>
      /\ Deleted(t)' = Deleted(t)
  BY DEF memVars, Deleted
<1>5. Attempting(t) /\ ~Attempting(t)' /\ Touches(t) = Sees(t) /\ ~Committed(t)
  BY <1>3, Phases DEF Attempting, ActiveLabels, LoadLabels
<1>6. Owner(t)' /\ Committed(t)'
  <2>1. helpTx'[t].seq = myTx[t].seq + 1 /\ myTx[t].seq \in Nat
    BY <1>1, <1>3, ThreadFacts DEF NewTx, Trans
  <2>2. helpTx'[t] # myTx'[t]
    BY <1>3, <2>1
  <2>3. QED
    BY <1>3, <2>2 DEF Owner, InHelp, HelpLabels, CalledByCommit, Committed
<1>7. ThreadProgram(t) /\ ThreadRead(t, Roots \cup Sees(t))
  BY <1>5 DEF MemInv, ProgramState, SeenState
<1>8. LogAddrs(t)' \subseteq Roots \cup Sees(t) /\ Touches(t)' \subseteq Sees(t)
  <2>1. LogAddrs(t)' \subseteq Roots \cup Sees(t)
    BY <1>3, <1>7 DEF LogAddrs, ThreadProgram
  <2>2. Applies(t)'
    BY <1>6 DEF Applies
  <2>3. QED
    BY <1>5, <2>1, <2>2, MemAssumption DEF Touches
<1>9. Deleted(t) \subseteq Sees(t)
  BY <1>7 DEF ThreadProgram
<1>10. ASSUME NEW o \in Sees(t)
       PROVE  o \in allocated /\ newEra[o] <= he[t]
  <2>1. o \in Objs /\ o \in allocated
    BY <1>5, TouchEra DEF MemInv, TouchState
  <2>2. he[t] = curTx.seq
    BY <1>3, <1>5 DEF MemInv, EraState, EraPublished
  <2>3. QED
    BY <2>1, <2>2 DEF MemInv, EraState
<1>11. Reachable(cmem') \subseteq Sees(t) \ Deleted(t)
  <2> DEFINE f == Overlay(snap[t], log[t])
  <2>1. \A w \in Words : w \in Roots \cup Sees(t) => cmem'[w] = f[w]
    BY <1>3, <1>7, MemAssumption DEF Overlay, ThreadRead
  <2>2. Sees(t) \subseteq Objs /\ Roots \subseteq Words /\ Objs \subseteq Words
    BY <1>1, <1>7, OverlayClosed, MemAssumption
  <2>3. ClosedIn(f, Sees(t))
    BY <1>1, <1>7, OverlayClosed
  <2>4. Reachable(cmem') = Reachable(f) /\ Reachable(f) \subseteq Sees(t)
    <3> HIDE DEF f
    <3>1. \A w \in Roots \cup Sees(t) : f[w] = cmem'[w]
      BY <2>1, <2>2
    <3>2. PICK g : g = cmem'
      OBVIOUS
    <3>3. Reachable(g) = Reachable(f) /\ Reachable(f) \subseteq Sees(t)
      BY <2>2, <2>3, <3>1, <3>2, ReachableAgree
    <3>4. QED
      BY <3>2, <3>3
  <2>5. QED
    BY <1>7, <2>4 DEF ThreadProgram
<1>12. \A u \in Threads : Doomed(u) \cap Sees(t) = {}
  BY <1>3, <1>5, SeesApart
<1>13. \A u \in Threads : u # t => SameThread(u) /\ SameLists(u)
  BY <1>1, <1>2, OthersKeepLists
<1>14. QED
  BY <1>2, <1>3, <1>4, <1>5, <1>6, <1>8, <1>9, <1>10, <1>11, <1>12, <1>13

LEMMA NewFacts ==
  ASSUME MemInv, NEW t \in Threads, NEW o \in Objs, NEW v \in Pointers(t),
         TmNew(t, o, v)
  PROVE  /\ UNCHANGED <<curTx, request, log, he, myTx, helpTx, pos, addr, lval,
                        pc, rlog, retired, cleanAt, curEra>>
         /\ o \notin allocated /\ allocated' = allocated \cup {o}
         /\ newEra'[o] = curTx.seq
         /\ \A x \in Objs \ {o} : newEra'[x] = newEra[x]
         /\ \A x \in Objs \ {o} : delEra'[x] = delEra[x]
         /\ alog'[t] = alog[t] \cup {o}
         /\ snap'[t] = [snap[t] EXCEPT ![o] = v]
         /\ pc[t] = "body" /\ Attempting(t) /\ Attempting(t)'
         /\ v \in Sees(t) \cup {Null} /\ o \notin Sees(t)
         /\ Sees(t) \subseteq allocated
         /\ Sees(t)' = Sees(t) \cup {o}
         /\ Reachable(cmem') = Reachable(cmem)
         /\ \A u \in Threads : /\ Retired(u)' = Retired(u)
                               /\ Deleted(u)' = Deleted(u)
                               /\ Doomed(u)' = Doomed(u)
                               /\ (Committed(u)' <=> Committed(u))
                               /\ o \notin Doomed(u)
                               /\ ~Committed(u) => o \notin alog[u]
         /\ \A u \in Threads : u # t => SameThread(u) /\ SameLists(u)
<1>1. Core /\ MemTypeOK /\ TypeOK /\ v \in Vals
  BY ProgramTypes DEF MemInv, Core
<1>2. MThreadNext(t)
  BY DEF MThreadNext
<1>3. /\ UNCHANGED <<curTx, request, log, he, myTx, helpTx, pos, addr, lval, pc>>
      /\ UNCHANGED <<rlog, retired, cleanAt, curEra>>
      /\ o \notin allocated /\ allocated' = allocated \cup {o}
      /\ newEra'[o] = curTx.seq
      /\ alog'[t] = alog[t] \cup {o}
      /\ snap'[t] = [snap[t] EXCEPT ![o] = v]
      /\ cmem' = [cmem EXCEPT ![o] = v]
      /\ pc[t] = "body"
  <2>1. /\ UNCHANGED <<curTx, request, log, he, myTx, helpTx, pos, addr, lval>>
        /\ UNCHANGED <<rlog, retired, cleanAt, curEra>>
        /\ o \notin allocated /\ allocated' = allocated \cup {o}
        /\ cmem' = [cmem EXCEPT ![o] = v]
    BY DEF TmNew
  <2>2. pc[t] = "body" /\ pc' = pc
    BY <1>1 DEF TmNew, Operate, Step, TypeOK
  <2>3. newEra'[o] = curTx.seq /\ alog'[t] = alog[t] \cup {o}
    BY <1>1 DEF TmNew, MemTypeOK
  <2>4. snap'[t] = [snap[t] EXCEPT ![o] = v]
    BY <1>1 DEF TmNew, TypeOK
  <2>5. QED
    BY <2>1, <2>2, <2>3, <2>4
<1>4. /\ \A x \in Objs \ {o} : newEra'[x] = newEra[x]
      /\ \A x \in Objs \ {o} : delEra'[x] = delEra[x]
  BY <1>1 DEF TmNew, MemTypeOK
<1>5. Attempting(t) /\ Attempting(t)'
  BY <1>3 DEF Attempting, ActiveLabels
<1>6. Sees(t) \subseteq allocated /\ o \notin Sees(t)
  BY <1>3, <1>5, Phases DEF MemInv, TouchState
<1>7. v \in Sees(t) \cup {Null}
  BY <1>5 DEF Pointers, InUse, MemInv, ProgramState, ThreadProgram
<1>8. Reachable(snap'[t]) = Reachable(snap[t])
  <2>1. snap[t] \in [Words -> Vals] /\ o \notin Reachable(snap[t])
    BY <1>1, <1>6 DEF Sees, TypeOK
  <2>2. Reachable([snap[t] EXCEPT ![o] = v]) = Reachable(snap[t])
    BY <2>1, ReachableExcept
  <2>3. QED
    BY <1>3, <2>2
<1>9. Sees(t)' = Sees(t) \cup {o}
  BY <1>3, <1>8 DEF Sees
<1>10. Reachable(cmem') = Reachable(cmem)
  <2>1. o \notin Reachable(cmem)
    BY <1>3 DEF MemInv, PrivateState
  <2>2. Reachable([cmem EXCEPT ![o] = v]) = Reachable(cmem)
    BY <1>1, <2>1, ReachableExcept DEF TypeOK
  <2>3. QED
    BY <1>3, <2>2
<1>11. ASSUME NEW u \in Threads
       PROVE  /\ Retired(u)' = Retired(u)
              /\ Deleted(u)' = Deleted(u)
              /\ Doomed(u)' = Doomed(u)
              /\ (Committed(u)' <=> Committed(u))
              /\ o \notin Doomed(u)
              /\ ~Committed(u) => o \notin alog[u]
  <2>1. Retired(u)' = Retired(u) /\ Deleted(u)' = Deleted(u)
    BY <1>3 DEF Retired, Deleted, Elements
  <2>2. Committed(u)' <=> Committed(u)
    BY <1>3 DEF Committed, Owner, InHelp, CalledByCommit
  <2>3. Doomed(u)' = Doomed(u)
    BY <2>1, <2>2 DEF Doomed
  <2>4. o \notin Doomed(u) /\ (~Committed(u) => o \notin alog[u])
    BY <1>3 DEF MemInv, DoomedState, PrivateState
  <2>5. QED
    BY <2>1, <2>2, <2>3, <2>4
<1>12. \A u \in Threads : u # t => SameThread(u) /\ SameLists(u)
  BY <1>1, <1>2, OthersKeepLists
<1>13. QED
  BY <1>3, <1>4, <1>5, <1>6, <1>7, <1>9, <1>10, <1>11, <1>12

LEMMA RetireFacts ==
  ASSUME MemInv, NEW t \in Threads, RetireAll(t)
  PROVE  /\ UNCHANGED <<vars, allocated, newEra, alog>>
         /\ pc[t] = "retire" /\ Committed(t)
         /\ Retired(t)' = Retired(t) \cup Deleted(t)
         /\ Injective(retired'[t])
         /\ rlog'[t] = <<>> /\ Deleted(t)' = {} /\ cleanAt'[t] = FirstObject
         /\ \A o \in Deleted(t) \cap Objs : delEra'[o] = curTx.seq
         /\ \A o \in Objs \ Deleted(t) : delEra'[o] = delEra[o]
         /\ \A u \in Threads : /\ Doomed(u)' = Doomed(u)
                               /\ (Committed(u)' <=> Committed(u))
                               /\ (Attempting(u)' <=> Attempting(u))
                               /\ Sees(u)' = Sees(u)
                               /\ Touches(u)' = Touches(u)
         /\ \A u \in Threads : u # t => SameThread(u) /\ SameLists(u)
<1>1. Core /\ MemTypeOK /\ TypeOK
  BY DEF MemInv, Core
<1>2. MThreadNext(t)
  BY DEF MThreadNext
<1>3. /\ UNCHANGED <<vars, allocated, newEra, alog>>
      /\ pc[t] = "retire" /\ Committed(t)
      /\ retired'[t] = retired[t] \o rlog[t]
      /\ rlog'[t] = <<>> /\ cleanAt'[t] = FirstObject
      /\ \A o \in Deleted(t) \cap Objs : delEra'[o] = curTx.seq
      /\ \A o \in Objs \ Deleted(t) : delEra'[o] = delEra[o]
  BY <1>1 DEF RetireAll, MemTypeOK, Committed
<1>4. retired[t] \in Seq(Objs) /\ rlog[t] \in Seq(Objs)
  BY <1>1 DEF MemTypeOK
<1>5. Deleted(t) = Elements(rlog[t]) /\ Deleted(t)' = {}
  BY <1>3 DEF Deleted, Elements
<1>6. Retired(t)' = Retired(t) \cup Deleted(t)
  BY <1>3, <1>4, <1>5, ConcatElements DEF Retired
<1>7. Injective(retired'[t])
  BY <1>3, <1>4, <1>5, ConcatElements DEF MemInv, DoomedState, Retired
<1>8. \A u \in Threads : u # t => SameThread(u) /\ SameLists(u)
  BY <1>1, <1>2, OthersKeepLists
<1>9. ASSUME NEW u \in Threads
      PROVE  /\ (Committed(u)' <=> Committed(u))
             /\ (Attempting(u)' <=> Attempting(u))
             /\ Sees(u)' = Sees(u)
             /\ Touches(u)' = Touches(u)
  BY <1>3 DEF vars, Committed, Owner, InHelp, CalledByCommit, Attempting,
     Applies, Applying, Touches, Sees, LogAddrs
<1>10. ASSUME NEW u \in Threads
       PROVE  Doomed(u)' = Doomed(u)
  <2>1. CASE u # t
    BY <1>8, <2>1, SameView
  <2>2. CASE u = t
    BY <1>3, <1>5, <1>6, <1>9, <2>2 DEF Doomed
  <2>3. QED
    BY <2>1, <2>2
<1>11. QED
  BY <1>3, <1>5, <1>6, <1>7, <1>8, <1>9, <1>10

LEMMA FreeFacts ==
  ASSUME MemInv, NEW t \in Threads, CleanFree(t)
  PROVE  /\ UNCHANGED <<vars, newEra, delEra, alog, rlog>>
         /\ Cleaning(t) /\ pc[t] = "retire" /\ Committed(t)
         /\ rlog[t] = <<>> /\ Deleted(t) = {}
         /\ Candidate(t) \in Retired(t) /\ Candidate(t) \in Objs
         /\ allocated' = allocated \ {Candidate(t)}
         /\ Retired(t)' = Retired(t) \ {Candidate(t)}
         /\ Injective(retired'[t]) /\ retired'[t] \in Seq(Objs)
         /\ cleanAt'[t] = [cleanAt[t] EXCEPT !.it = 0]
         /\ \A u \in Threads : Candidate(t) \notin Touches(u)
         /\ \A u \in Threads : /\ Doomed(u)' = Doomed(u) \ {Candidate(t)}
                               /\ Deleted(u)' = Deleted(u)
                               /\ (Committed(u)' <=> Committed(u))
                               /\ (Attempting(u)' <=> Attempting(u))
                               /\ Sees(u)' = Sees(u)
                               /\ Touches(u)' = Touches(u)
         /\ \A u \in Threads : u # t => SameThread(u) /\ SameLists(u)
<1> DEFINE c == Candidate(t)
           i == cleanAt[t].iret
<1>1. Core /\ MemTypeOK /\ TypeOK
  BY DEF MemInv, Core
<1>2. MThreadNext(t)
  BY DEF MThreadNext
<1>3. /\ UNCHANGED <<vars, newEra, delEra, alog, rlog>>
      /\ Cleaning(t) /\ cleanAt[t].it = N
      /\ allocated' = allocated \ {c}
      /\ retired'[t] = Without(retired[t], i)
      /\ cleanAt'[t] = [cleanAt[t] EXCEPT !.it = 0]
  BY <1>1 DEF CleanFree, MemTypeOK, Without
<1>4. pc[t] = "retire" /\ rlog[t] = <<>> /\ i >= 1 /\ Committed(t)
  BY <1>3 DEF MemInv, ScanState, Cleaning, Committed
<1>5. Deleted(t) = {}
  BY <1>4 DEF Deleted
<1>6. retired[t] \in Seq(Objs) /\ i \in DOMAIN retired[t] /\ c = retired[t][i]
  BY <1>1, <1>3, <1>4 DEF MemTypeOK, Cleaning, Candidate
<1>7. c \in Retired(t) /\ c \in Objs
  BY <1>6, ElementOf DEF Retired, Elements
<1>8. /\ Retired(t)' = Retired(t) \ {c}
      /\ Injective(retired'[t]) /\ retired'[t] \in Seq(Objs)
  <2>1. Injective(retired[t])
    BY DEF MemInv, DoomedState
  <2>2. QED
    BY <1>3, <1>6, <2>1, WithoutElements DEF Retired
<1>9. \A u \in Threads : c \notin Touches(u)
  <2>1. \A u \in Threads : u < cleanAt[t].it
    BY <1>3 DEF Threads
  <2>2. QED
    BY <1>3, <2>1 DEF MemInv, ScanState
<1>10. \A u \in Threads : u # t => SameThread(u) /\ SameLists(u)
  BY <1>1, <1>2, OthersKeepLists
<1>11. ASSUME NEW u \in Threads
       PROVE  /\ (Committed(u)' <=> Committed(u))
              /\ (Attempting(u)' <=> Attempting(u))
              /\ Deleted(u)' = Deleted(u)
              /\ Sees(u)' = Sees(u)
              /\ Touches(u)' = Touches(u)
  BY <1>3 DEF vars, Committed, Owner, InHelp, CalledByCommit, Attempting,
     Applies, Applying, Touches, Sees, LogAddrs, Deleted
<1>12. ASSUME NEW u \in Threads
       PROVE  Doomed(u)' = Doomed(u) \ {c}
  <2>1. CASE u # t
    <3>1. Doomed(u)' = Doomed(u)
      BY <1>10, <2>1, SameView
    <3>2. c \notin Doomed(u)
      BY <1>7, <2>1 DEF MemInv, DoomedState, Doomed
    <3>3. QED
      BY <3>1, <3>2
  <2>2. CASE u = t
    BY <1>5, <1>8, <1>11, <2>2 DEF Doomed
  <2>3. QED
    BY <2>1, <2>2
<1>13. QED
  BY <1>3, <1>4, <1>5, <1>7, <1>8, <1>9, <1>10, <1>11, <1>12

(***************************************************************************)
(* The parts of the invariant, one at a time.                              *)
(***************************************************************************)

LEMMA EraKept ==
  ASSUME Core, NEW t \in Threads, ThreadNext(t), EraPublished(t)'
  PROVE  \/ EraPublished(t) /\ he'[t] = he[t] /\ myTx'[t] = myTx[t]
         \/ he'[t] = myTx'[t].seq
<1> USE DEF EraPublished, Attempting, Applies, Owner, InHelp, CalledByCommit,
        Applying, Step, HelpLabels, ApplyLabels, ActiveLabels, LoadLabels, Core,
        TypeOK
<1>1. CASE BeginTx(t)
  BY <1>1 DEF BeginTx, BeginLoadCurTx, BeginReset, BeginSetEra, BeginRecheck
<1>2. CASE HelpCheckRequest(t)
  <2>1. CASE request[Helped(t)] # helpTx[t]
    BY <1>2, <2>1 DEF HelpCheckRequest, AfterHelp
  <2>2. CASE request[Helped(t)] = helpTx[t] /\ Helped(t) # t
    BY <1>2, <2>2 DEF HelpCheckRequest
  <2>3. CASE request[Helped(t)] = helpTx[t] /\ Helped(t) = t
    <3>1. Owner(t)
      BY <1>2, <2>3 DEF HelpCheckRequest, OwnerState
    <3>2. QED
      BY <1>2, <3>1 DEF HelpCheckRequest
  <2>4. QED
    BY <2>1, <2>2, <2>3
<1>3. CASE HelpCopyNum(t) \/ HelpCopyEntry(t) \/ HelpSetEra(t)
  <2>1. ~Owner(t)
    BY <1>3 DEF HelpCopyNum, HelpCopyEntry, HelpSetEra, OwnerState
  <2>2. CASE HelpCopyNum(t) \/ HelpCopyEntry(t)
    <3>1. CASE HelpCopyNum(t)
      BY <2>1, <3>1 DEF HelpCopyNum
    <3>2. CASE HelpCopyEntry(t)
      BY <2>1, <3>2 DEF HelpCopyEntry
    <3>3. QED
      BY <2>2, <3>1, <3>2
  <2>3. CASE HelpSetEra(t)
    <3>1. helpTx[t] = myTx[t] /\ myTx' = myTx /\ he'[t] = helpTx[t].seq
      BY <2>1, <2>3 DEF HelpSetEra
    <3>2. QED
      BY <3>1
  <2>4. QED
    BY <1>3, <2>2, <2>3
<1>4. CASE \/ HelpCheckCurTx(t) \/ HelpRecheckRequest(t) \/ ApplyLoadVal(t)
           \/ ApplyLoadSeq(t) \/ ApplyDcas(t) \/ HelpClose(t)
  BY <1>4 DEF HelpCheckCurTx, HelpRecheckRequest, ApplyLoadVal, ApplyLoadSeq,
     ApplyDcas, HelpClose, NextEntry
<1>5. CASE Body(t)
  BY <1>5 DEF Body, LoadVal, Store, LoadAbort, LoadSeq, LoadReturn, Delete,
     Operate, Restart
<1>6. CASE CommitTx(t)
  BY <1>6 DEF CommitTx, CommitReadOnly, CommitCheckFails, CommitCheck,
     CommitOpen, CommitCas, CommitCasFails, CommitRetire, Restart
<1>7. CASE Transaction(t) \/ ClearEra(t)
  BY <1>7 DEF Transaction, ClearEra, Restart
<1>8. QED
  BY <1>1, <1>2, <1>3, <1>4, <1>5, <1>6, <1>7 DEF ThreadNext, HelpApply

LEMMA EraStep ==
  ASSUME MemInv, [MNext]_allVars
  PROVE  EraState'
<1>1. Core /\ MemTypeOK /\ TypeOK /\ EraState
  BY DEF MemInv, Core
<1>2. curTx.seq \in Nat
  BY <1>1, ThreadFacts, OneFileLFAssumption DEF TypeOK, TransType
<1>3. ASSUME NEW t \in Threads, NEW o \in Objs, NEW v \in Pointers(t),
             TmNew(t, o, v)
      PROVE  EraState'
  <2>1. /\ UNCHANGED <<curTx, he, myTx>>
        /\ newEra'[o] = curTx.seq
        /\ \A x \in Objs \ {o} : newEra'[x] = newEra[x]
        /\ Attempting(t)
        /\ \A u \in Threads : u # t => SameThread(u) /\ SameLists(u)
    BY <1>3, NewFacts
  <2>2. \A u \in Threads : u # t => (EraPublished(u)' <=> EraPublished(u))
    BY <2>1, SameView
  <2>3. EraPublished(t)
    BY <2>1 DEF EraPublished
  <2>4. QED
    BY <1>1, <1>2, <2>1, <2>2, <2>3 DEF EraState
<1>4. CASE [Next]_vars /\ newEra' = newEra
  <2>1. curTx'.seq >= curTx.seq
    BY <1>1, <1>2, <1>4, AdvanceStep DEF Advances
  <2>2. curTx'.seq \in Nat
    <3>1. TypeOK'
      BY <1>1, <1>4, TypeStep
    <3>2. QED
      BY <3>1 DEF TypeOK, TransType
  <2>3. ASSUME NEW u \in Threads, EraPublished(u)'
        PROVE  he'[u] = myTx'[u].seq
    <3>1. CASE UNCHANGED vars
      <4>1. EraPublished(u)
        BY <2>3, <3>1 DEF vars, EraPublished, Attempting, Applies, Owner,
           Applying, InHelp, CalledByCommit
      <4>2. QED
        BY <1>1, <3>1, <4>1 DEF EraState, vars
    <3>2. ASSUME NEW t \in Threads, ThreadNext(t)
          PROVE  he'[u] = myTx'[u].seq
      <4>1. CASE u = t
        BY <1>1, <2>3, <3>2, <4>1, EraKept DEF EraState
      <4>2. CASE u # t
        <5>1. SameThread(u)
          BY <1>1, <3>2, <4>2, OthersKeep
        <5>2. EraPublished(u)
          BY <2>3, <5>1 DEF SameThread, EraPublished, Attempting, Applies, Owner,
             Applying, InHelp, CalledByCommit
        <5>3. QED
          BY <1>1, <5>1, <5>2 DEF EraState, SameThread
      <4>3. QED
        BY <4>1, <4>2
    <3>3. QED
      BY <1>4, <3>1, <3>2 DEF Next, Finished
  <2>4. ASSUME NEW o \in Objs
        PROVE  1 <= newEra'[o] /\ newEra'[o] <= curTx'.seq
    <3>1. newEra[o] \in Nat /\ 1 <= newEra[o] /\ newEra[o] <= curTx.seq
      BY <1>1 DEF EraState, MemTypeOK
    <3>2. QED
      BY <1>2, <1>4, <2>1, <2>2, <3>1
  <2>5. curTx'.seq >= 1
    BY <1>1, <1>2, <2>1, <2>2 DEF EraState
  <2>6. QED
    BY <2>3, <2>4, <2>5 DEF EraState
<1>5. CASE Calm /\ [Next]_vars
  BY <1>4, <1>5 DEF Calm
<1>6. ASSUME NEW t \in Threads, Abort(t)
      PROVE  EraState'
  BY <1>4, <1>6, AbortFacts
<1>7. ASSUME NEW t \in Threads, CommitCas(t), UNCHANGED memVars
      PROVE  EraState'
  BY <1>4, <1>7, CommitFacts
<1>8. ASSUME NEW t \in Threads, RetireAll(t) \/ CleanFree(t)
      PROVE  EraState'
  <2>1. UNCHANGED vars /\ newEra' = newEra
    BY <1>8 DEF RetireAll, CleanFree
  <2>2. QED
    BY <1>4, <2>1
<1>9. QED
  BY <1>3, <1>5, <1>6, <1>7, <1>8, StepKinds

LEMMA TouchStep ==
  ASSUME MemInv, [MNext]_allVars
  PROVE  TouchState'
<1>1. MemTypeOK /\ TouchState /\ EraState /\ DoomedState /\ PrivateState
  BY DEF MemInv
<1>2. CASE Calm
  <2> SUFFICES ASSUME NEW u \in Threads, NEW o, o \in Touches(u)'
               PROVE  /\ o \in allocated'
                      /\ \/ Attempting(u)' /\ o \in alog'[u]
                         \/ newEra'[o] <= he'[u]
                      /\ \A v \in Threads : o \in Retired(v)' =>
                           newEra'[o] <= he'[u] /\ he'[u] <= delEra'[o]
    BY DEF TouchState
  <2>1. UNCHANGED <<allocated, newEra, delEra, retired>> /\ KeepsTouching(u)
    BY <1>2 DEF Calm, CalmThread
  <2>2. \A v \in Threads : Retired(v)' = Retired(v)
    BY <2>1 DEF Retired, Elements
  <2>3. CASE /\ o \in Touches(u) /\ he'[u] = he[u] /\ alog'[u] = alog[u]
             /\ Attempting(u) => Attempting(u)'
    BY <1>1, <2>1, <2>2, <2>3 DEF TouchState
  <2>4. CASE Fresh(o, u)
    BY <2>1, <2>2, <2>4 DEF Fresh
  <2>5. QED
    BY <2>1, <2>3, <2>4 DEF KeepsTouching
<1>3. ASSUME NEW t \in Threads, Abort(t)
      PROVE  TouchState'
  <2>1. /\ UNCHANGED <<he, newEra, delEra, retired>>
        /\ allocated' = allocated \ alog[t]
        /\ ~Committed(t) /\ Touches(t)' = {}
        /\ \A u \in Threads : u # t => SameThread(u) /\ SameLists(u)
    BY <1>3, AbortFacts
  <2>2. \A v \in Threads : Retired(v)' = Retired(v)
    BY <2>1 DEF Retired, Elements
  <2>3. ASSUME NEW u \in Threads, u # t
        PROVE  /\ Touches(u)' = Touches(u) /\ (Attempting(u)' <=> Attempting(u))
               /\ alog'[u] = alog[u] /\ Touches(u) \cap alog[t] = {}
    BY <1>1, <2>1, <2>3, SameView DEF PrivateState, SameLists
  <2>4. QED
    BY <1>1, <2>1, <2>2, <2>3 DEF TouchState
<1>4. ASSUME NEW t \in Threads, CommitCas(t), UNCHANGED memVars
      PROVE  TouchState'
  <2>1. /\ UNCHANGED <<he, allocated, newEra, delEra, alog, retired>>
        /\ Touches(t)' \subseteq Sees(t) /\ Touches(t) = Sees(t)
        /\ \A o \in Sees(t) : o \in allocated /\ newEra[o] <= he[t]
        /\ \A u \in Threads : u # t => SameThread(u) /\ SameLists(u)
    BY <1>4, CommitFacts
  <2>2. \A v \in Threads : Retired(v)' = Retired(v)
    BY <2>1 DEF Retired, Elements
  <2>3. ASSUME NEW u \in Threads, u # t
        PROVE  Touches(u)' = Touches(u) /\ (Attempting(u)' <=> Attempting(u))
    BY <2>1, <2>3, SameView
  <2>4. QED
    BY <1>1, <2>1, <2>2, <2>3 DEF TouchState
<1>5. ASSUME NEW t \in Threads, NEW o \in Objs, NEW v \in Pointers(t),
             TmNew(t, o, v)
      PROVE  TouchState'
  <2>1. /\ he' = he /\ alog'[t] = alog[t] \cup {o}
        /\ o \notin allocated /\ allocated' = allocated \cup {o}
        /\ \A x \in Objs \ {o} : newEra'[x] = newEra[x]
        /\ \A x \in Objs \ {o} : delEra'[x] = delEra[x]
        /\ Attempting(t) /\ Attempting(t)'
        /\ Sees(t)' = Sees(t) \cup {o}
        /\ \A u \in Threads : Retired(u)' = Retired(u) /\ o \notin Doomed(u)
        /\ \A u \in Threads : u # t => SameThread(u) /\ SameLists(u)
    BY <1>5, NewFacts
  <2>2. \A u \in Threads : o \notin Retired(u)'
    BY <2>1 DEF Doomed
  <2>3. \A u \in Threads : \A x \in Touches(u) : x \in Objs /\ x # o
    BY <1>1, <2>1, TouchEra DEF TouchState
  <2>4. Touches(t)' = Touches(t) \cup {o}
    BY <2>1 DEF Touches
  <2>5. ASSUME NEW u \in Threads, u # t
        PROVE  /\ Touches(u)' = Touches(u) /\ (Attempting(u)' <=> Attempting(u))
               /\ alog'[u] = alog[u]
    BY <2>1, <2>5, SameView DEF SameLists
  <2>6. ASSUME NEW u \in Threads, NEW x, x \in Touches(u)', x # o
        PROVE  /\ x \in allocated'
               /\ \/ Attempting(u)' /\ x \in alog'[u]
                  \/ newEra'[x] <= he'[u]
               /\ \A w \in Threads : x \in Retired(w)' =>
                    newEra'[x] <= he'[u] /\ he'[u] <= delEra'[x]
    <3>1. x \in Touches(u)
      BY <2>4, <2>5, <2>6
    <3>2. Attempting(u) /\ x \in alog[u] => Attempting(u)' /\ x \in alog'[u]
      BY <2>1, <2>5
    <3>3. x \in Objs
      BY <2>3, <3>1
    <3>4. newEra'[x] = newEra[x] /\ delEra'[x] = delEra[x]
      BY <2>1, <2>6, <3>3
    <3>5. QED
      BY <1>1, <2>1, <3>1, <3>2, <3>4 DEF TouchState
  <2>7. ASSUME NEW u \in Threads, o \in Touches(u)'
        PROVE  u = t
    BY <2>3, <2>5, <2>7
  <2>8. QED
    BY <2>1, <2>2, <2>6, <2>7 DEF TouchState
<1>6. ASSUME NEW t \in Threads, RetireAll(t)
      PROVE  TouchState'
  <2>1. /\ UNCHANGED <<vars, allocated, newEra, alog>>
        /\ Committed(t) /\ Retired(t)' = Retired(t) \cup Deleted(t)
        /\ \A o \in Deleted(t) \cap Objs : delEra'[o] = curTx.seq
        /\ \A o \in Objs \ Deleted(t) : delEra'[o] = delEra[o]
        /\ \A u \in Threads : /\ (Attempting(u)' <=> Attempting(u))
                              /\ Touches(u)' = Touches(u)
        /\ \A u \in Threads : u # t => SameThread(u) /\ SameLists(u)
    BY <1>6, RetireFacts
  <2>2. \A u \in Threads : u # t => Retired(u)' = Retired(u)
    BY <2>1, SameView
  <2>3. Doomed(t) = Retired(t) \cup Deleted(t)
    BY <2>1 DEF Doomed
  <2>4. he' = he
    BY <2>1 DEF vars
  <2> SUFFICES ASSUME NEW u \in Threads, NEW o \in Touches(u),
                      NEW w \in Threads, o \in Retired(w)'
               PROVE  newEra[o] <= he[u] /\ he[u] <= delEra'[o]
    BY <1>1, <2>1, <2>4 DEF TouchState
  <2>5. o \in Objs /\ he[u] <= curTx.seq
    BY TouchEra
  <2>6. CASE o \in Deleted(t)
    <3>1. ~(Attempting(u) /\ o \in alog[u])
      BY <1>1, <2>3, <2>6, Phases DEF DoomedState
    <3>2. newEra[o] <= he[u]
      BY <1>1, <3>1 DEF TouchState
    <3>3. QED
      BY <2>1, <2>5, <2>6, <3>2
  <2>7. CASE o \notin Deleted(t)
    <3>1. o \in Retired(w)
      BY <2>1, <2>2, <2>7
    <3>2. newEra[o] <= he[u] /\ he[u] <= delEra[o]
      BY <1>1, <3>1 DEF TouchState
    <3>3. QED
      BY <2>1, <2>5, <2>7, <3>2
  <2>8. QED
    BY <2>6, <2>7
<1>7. ASSUME NEW t \in Threads, CleanFree(t)
      PROVE  TouchState'
  <2>1. /\ UNCHANGED <<vars, newEra, delEra, alog>>
        /\ allocated' = allocated \ {Candidate(t)}
        /\ Retired(t)' = Retired(t) \ {Candidate(t)}
        /\ \A u \in Threads : Candidate(t) \notin Touches(u)
        /\ \A u \in Threads : /\ (Attempting(u)' <=> Attempting(u))
                              /\ Touches(u)' = Touches(u)
        /\ \A u \in Threads : u # t => SameThread(u) /\ SameLists(u)
    BY <1>7, FreeFacts
  <2>2. \A u \in Threads : Retired(u)' \subseteq Retired(u)
    BY <2>1, SameView
  <2>3. he' = he
    BY <2>1 DEF vars
  <2>4. QED
    BY <1>1, <2>1, <2>2, <2>3 DEF TouchState
<1>8. QED
  BY <1>2, <1>3, <1>4, <1>5, <1>6, <1>7, StepKinds

\* While clean runs, its thread does nothing else.
LEMMA CleanStep ==
  ASSUME MemInv, NEW t \in Threads, MThreadNext(t), cleanAt[t] # NotCleaning
  PROVE  CleanKeepsCurrent(t) \/ CleanScan(t) \/ CleanFree(t) \/ CleanDone(t)
<1>1. pc[t] = "retire"
  BY DEF MemInv, ScanState
<1>2. ~Engine(t)
  BY <1>1 DEF Engine, BeginTx, HelpApply, BeginLoadCurTx, BeginReset,
     BeginSetEra, BeginRecheck, HelpCheckRequest, HelpCopyNum, HelpCopyEntry,
     HelpSetEra, HelpCheckCurTx, HelpRecheckRequest, ApplyLoadVal, ApplyLoadSeq,
     ApplyDcas, NextEntry, HelpClose, LoadSeq, LoadVal, MStore, Store,
     CommitReadOnly, CommitCheck, CommitOpen, CommitCas, ClearEra, Operate, Step
<1>3. ~(Transaction(t) \/ LoadAbort(t) \/ CommitCheckFails(t) \/ CommitCasFails(t))
  BY <1>1 DEF Transaction, LoadAbort, CommitCheckFails, CommitCasFails, Restart,
     Step
<1>4. /\ ~MLoadReturn(t)
      /\ \A o \in Objs : ~TmDelete(t, o)
      /\ \A o \in Objs : \A v \in Pointers(t) : ~TmNew(t, o, v)
  BY <1>1 DEF MLoadReturn, LoadReturn, TmDelete, Delete, TmNew, Operate, Step
<1>5. QED
  BY <1>2, <1>3, <1>4 DEF MThreadNext, RetireAll

\* What clean is to do to an object depends on clean's thread only.
LEMMA ScanKept ==
  ASSUME MemInv, NEW u \in Threads, pc'[u] = pc[u], rlog'[u] = rlog[u],
         cleanAt'[u] = cleanAt[u], retired'[u] = retired[u],
         Cleaning(u) => \A t \in Threads :
           Candidate(u) \in Touches(t)' => Candidate(u) \in Touches(t)
  PROVE  /\ cleanAt'[u] # NotCleaning =>
              pc'[u] = "retire" /\ rlog'[u] = <<>> /\ cleanAt'[u].iret >= 1
         /\ Cleaning(u)' => \A t \in Threads :
              t < cleanAt'[u].it => Candidate(u)' \notin Touches(t)'
<1>1. ScanState
  BY DEF MemInv
<1>2. (Cleaning(u)' <=> Cleaning(u)) /\ Candidate(u)' = Candidate(u)
  BY DEF Cleaning, Candidate
<1>3. QED
  BY <1>1, <1>2 DEF ScanState

LEMMA CandidateRetired ==
  ASSUME MemInv, NEW u \in Threads, Cleaning(u)
  PROVE  /\ Candidate(u) \in Retired(u) /\ Candidate(u) \in Objs
         /\ Candidate(u) \in Doomed(u) /\ Candidate(u) \in allocated
         /\ pc[u] = "retire" /\ cleanAt[u].it \in 0 .. N
         /\ cleanAt[u].iret \in Nat /\ cleanAt[u].iret >= 1
<1>1. pc[u] = "retire" /\ cleanAt[u].iret >= 1
  BY DEF MemInv, ScanState, Cleaning
<1>2. /\ cleanAt[u].it \in 0 .. N /\ cleanAt[u].iret \in Nat
      /\ retired[u] \in Seq(Objs)
  BY DEF MemInv, MemTypeOK
<1>3. cleanAt[u].iret \in 1 .. Len(retired[u])
  BY <1>1, <1>2 DEF Cleaning
<1>4. Candidate(u) \in Retired(u) /\ Retired(u) \subseteq Objs
  BY <1>2, <1>3, ElementOf DEF Candidate, Retired
<1>5. Candidate(u) \in Doomed(u)
  BY <1>4 DEF Doomed
<1>6. Candidate(u) \in allocated
  BY <1>5 DEF MemInv, DoomedState
<1>7. QED
  BY <1>1, <1>2, <1>4, <1>5, <1>6

\* A thread that does not protect the candidate cannot touch it.
LEMMA UnprotectedUntouched ==
  ASSUME MemInv, NEW u \in Threads, Cleaning(u), NEW t \in Threads,
         ~Protects(he[t], Candidate(u))
  PROVE  Candidate(u) \notin Touches(t)
<1> DEFINE c == Candidate(u)
<1>1. c \in Retired(u) /\ c \in Objs
  BY CandidateRetired
<1>2. newEra[c] \in Nat /\ newEra[c] >= 1 /\ he[t] \in Nat
  BY <1>1 DEF MemInv, MemTypeOK, TypeOK, EraState
<1> HIDE DEF c
<1>3. ~(newEra[c] <= he[t] /\ he[t] <= delEra[c])
  BY <1>2 DEF Protects, NOERA, c
<1>4. QED
  BY <1>1, <1>3 DEF MemInv, TouchState, c

LEMMA ScanStep ==
  ASSUME MemInv, [MNext]_allVars
  PROVE  ScanState'
<1>1. Core /\ MemTypeOK /\ TypeOK /\ ScanState
  BY DEF MemInv, Core
<1> DEFINE Part(u) ==
      /\ cleanAt'[u] # NotCleaning =>
           pc'[u] = "retire" /\ rlog'[u] = <<>> /\ cleanAt'[u].iret >= 1
      /\ Cleaning(u)' => \A t \in Threads :
           t < cleanAt'[u].it => Candidate(u)' \notin Touches(t)'
    Untouched ==
      \A u \in Threads : Cleaning(u) => \A t \in Threads :
        Candidate(u) \in Touches(t)' => Candidate(u) \in Touches(t)
    Same(u) ==
      /\ pc'[u] = pc[u] /\ rlog'[u] = rlog[u]
      /\ cleanAt'[u] = cleanAt[u] /\ retired'[u] = retired[u]
<1>2. (\A u \in Threads : Part(u)) => ScanState'
  BY DEF ScanState
<1>3. ASSUME Untouched, NEW u \in Threads, Same(u)
      PROVE  Part(u)
  BY <1>3, ScanKept
<1>4. Untouched
  <2> SUFFICES ASSUME NEW u \in Threads, Cleaning(u), NEW w \in Threads,
                      Candidate(u) \in Touches(w)'
               PROVE  Candidate(u) \in Touches(w)
    OBVIOUS
  <2> DEFINE c == Candidate(u)
  <2>1. c \in Retired(u) /\ c \in Objs /\ c \in Doomed(u) /\ c \in allocated
    BY CandidateRetired
  <2> HIDE DEF c
  <2>2. CASE Calm
    BY <2>1, <2>2 DEF Calm, CalmThread, KeepsTouching, Fresh, c
  <2>3. ASSUME NEW t \in Threads, Abort(t)
        PROVE  c \in Touches(w)
    <3>1. Touches(t)' = {} /\ \A v \in Threads : v # t => SameThread(v) /\ SameLists(v)
      BY <2>3, AbortFacts
    <3>2. w # t
      BY <3>1
    <3>3. Touches(w)' = Touches(w)
      BY <3>1, <3>2, SameView
    <3>4. QED
      BY <3>3 DEF c
  <2>4. ASSUME NEW t \in Threads, CommitCas(t), UNCHANGED memVars
        PROVE  c \in Touches(w)
    <3>1. /\ Touches(t)' \subseteq Sees(t) /\ Touches(t) = Sees(t)
          /\ \A v \in Threads : v # t => SameThread(v) /\ SameLists(v)
      BY <2>4, CommitFacts
    <3>2. w # t => Touches(w)' = Touches(w)
      BY <3>1, SameView
    <3>3. QED
      BY <3>1, <3>2 DEF c
  <2>5. ASSUME NEW t \in Threads, NEW o \in Objs, NEW v \in Pointers(t),
               TmNew(t, o, v)
        PROVE  c \in Touches(w)
    <3>1. /\ o \notin allocated /\ Sees(t)' = Sees(t) \cup {o}
          /\ Attempting(t) /\ Attempting(t)'
          /\ \A x \in Threads : x # t => SameThread(x) /\ SameLists(x)
      BY <2>5, NewFacts
    <3>2. w # t => Touches(w)' = Touches(w)
      BY <3>1, SameView
    <3>3. c # o
      BY <2>1, <3>1
    <3>4. Touches(t)' = Touches(t) \cup {o}
      BY <3>1 DEF Touches
    <3>5. QED
      BY <3>2, <3>3, <3>4 DEF c
  <2>6. ASSUME NEW t \in Threads, RetireAll(t)
        PROVE  c \in Touches(w)
    BY <2>6, RetireFacts DEF c
  <2>7. ASSUME NEW t \in Threads, CleanFree(t)
        PROVE  c \in Touches(w)
    BY <2>7, FreeFacts DEF c
  <2>8. QED
    BY <2>2, <2>3, <2>4, <2>5, <2>6, <2>7, StepKinds DEF c
<1>5. ASSUME NEW t \in Threads, MThreadNext(t)
      PROVE  \A u \in Threads : Part(u)
  <2>1. ASSUME NEW u \in Threads, u # t
        PROVE  Part(u)
    <3>1. Same(u)
      BY <1>1, <1>5, <2>1, OthersKeepLists DEF SameThread, SameLists
    <3>2. QED
      BY <1>3, <1>4, <3>1
  <2>2. Part(t)
    <3>1. CASE \/ CleanKeepsCurrent(t)
               \/ CleanScan(t) /\ Protects(he[cleanAt[t].it], Candidate(t))
      <4>1. /\ Cleaning(t) /\ NextObject(t) /\ pc' = pc /\ rlog' = rlog
        BY <3>1 DEF CleanKeepsCurrent, CleanScan, vars
      <4>2. cleanAt'[t] = [iret |-> cleanAt[t].iret + 1, it |-> 0]
        BY <1>1, <4>1 DEF NextObject, MemTypeOK
      <4>3. ~\E w \in Threads : w < 0
        BY DEF Threads
      <4>4. pc[t] = "retire" /\ rlog[t] = <<>> /\ cleanAt[t].iret + 1 >= 1
        BY <1>1, <4>1, CandidateRetired DEF ScanState, Cleaning
      <4>5. cleanAt'[t].it = 0 /\ cleanAt'[t].iret = cleanAt[t].iret + 1
        BY <4>2
      <4>6. QED
        BY <4>1, <4>3, <4>4, <4>5
    <3>2. CASE CleanScan(t) /\ ~Protects(he[cleanAt[t].it], Candidate(t))
      <4>1. /\ Cleaning(t) /\ UNCHANGED vars /\ rlog' = rlog /\ retired' = retired
            /\ cleanAt[t].it < N
            /\ cleanAt' = [cleanAt EXCEPT ![t].it = @ + 1]
        BY <3>2 DEF CleanScan
      <4>2. /\ pc[t] = "retire" /\ rlog[t] = <<>> /\ cleanAt[t].iret >= 1
            /\ cleanAt[t].it \in 0 .. N
        BY <1>1, <4>1, CandidateRetired DEF ScanState, Cleaning
      <4>3. cleanAt'[t].iret = cleanAt[t].iret /\ cleanAt'[t].it = cleanAt[t].it + 1
        BY <1>1, <4>1 DEF MemTypeOK
      <4>4. Candidate(t)' = Candidate(t)
        BY <4>1, <4>3 DEF Candidate
      <4>5. cleanAt[t].it \in Threads
        BY <4>1, <4>2 DEF Threads
      <4>6. Candidate(t) \notin Touches(cleanAt[t].it)
        BY <3>2, <4>1, <4>5, UnprotectedUntouched
      <4>7. ASSUME NEW w \in Threads, w < cleanAt'[t].it
            PROVE  Candidate(t) \notin Touches(w)'
        <5>1. w < cleanAt[t].it \/ w = cleanAt[t].it
          BY <4>2, <4>3, <4>7 DEF Threads
        <5>2. Candidate(t) \notin Touches(w)
          BY <1>1, <4>1, <4>6, <5>1 DEF ScanState
        <5>3. QED
          BY <1>4, <4>1, <5>2
      <4>8. pc' = pc
        BY <4>1 DEF vars
      <4>9. QED
        BY <4>1, <4>2, <4>3, <4>4, <4>7, <4>8
    <3>3. CASE CleanFree(t)
      <4>1. /\ pc[t] = "retire" /\ rlog[t] = <<>> /\ rlog' = rlog /\ pc' = pc
            /\ Cleaning(t)
            /\ cleanAt'[t] = [cleanAt[t] EXCEPT !.it = 0]
        BY <3>3, FreeFacts DEF vars
      <4>2. cleanAt'[t].it = 0 /\ cleanAt'[t].iret = cleanAt[t].iret
        BY <1>1, <4>1 DEF MemTypeOK
      <4>3. ~\E w \in Threads : w < 0
        BY DEF Threads
      <4>4. cleanAt[t].iret >= 1
        BY <4>1, CandidateRetired
      <4>5. QED
        BY <4>1, <4>2, <4>3, <4>4
    <3>4. CASE CleanDone(t)
      <4>1. cleanAt'[t] = NotCleaning
        BY <1>1, <3>4 DEF CleanDone, MemTypeOK
      <4>2. ~Cleaning(t)'
        BY <4>1 DEF Cleaning
      <4>3. QED
        BY <4>1, <4>2
    <3>5. CASE RetireAll(t)
      <4>1. /\ pc[t] = "retire" /\ pc' = pc /\ rlog'[t] = <<>>
            /\ cleanAt'[t] = FirstObject
        BY <3>5, RetireFacts DEF vars
      <4>2. cleanAt'[t].it = 0 /\ cleanAt'[t].iret = 1
        BY <4>1 DEF FirstObject
      <4>3. ~\E w \in Threads : w < 0
        BY DEF Threads
      <4>4. QED
        BY <4>1, <4>2, <4>3
    <3>6. CASE cleanAt[t] = NotCleaning /\ ~RetireAll(t)
      <4>1. ~Cleaning(t) /\ cleanAt'[t] = NotCleaning
        <5>1. cleanAt[t].iret = 0 /\ Len(retired[t]) \in Nat
          BY <1>1, <3>6 DEF NotCleaning, MemTypeOK
        <5>2. /\ ~Cleaning(t)
              /\ ~CleanKeepsCurrent(t) /\ ~CleanScan(t) /\ ~CleanFree(t)
              /\ ~CleanDone(t)
          BY <3>6, <5>1 DEF Cleaning, CleanKeepsCurrent, CleanScan, CleanFree,
             CleanDone
        <5>3. cleanAt' = cleanAt
          BY <1>5, <3>6, <5>2 DEF MThreadNext, memVars, DeleteAllocs, MLoadReturn,
             TmDelete, TmNew
        <5>4. QED
          BY <3>6, <5>2, <5>3
      <4>2. ~Cleaning(t)'
        BY <4>1 DEF Cleaning
      <4>3. QED
        BY <4>1, <4>2
    <3>7. QED
      <4>1. CASE cleanAt[t] # NotCleaning
        <5>1. CleanKeepsCurrent(t) \/ CleanScan(t) \/ CleanFree(t) \/ CleanDone(t)
          BY <1>5, <4>1, CleanStep
        <5> HIDE DEF Part
        <5>2. QED
          BY <3>1, <3>2, <3>3, <3>4, <5>1
      <4>2. CASE cleanAt[t] = NotCleaning
        BY <3>5, <3>6, <4>2
      <4>3. QED
        BY <4>1, <4>2
  <2>3. QED
    BY <2>1, <2>2
<1>6. CASE UNCHANGED <<vars, memVars>>
  <2>1. \A u \in Threads : Same(u)
    BY <1>6 DEF vars, memVars
  <2>2. QED
    BY <1>2, <1>3, <1>4, <2>1
<1>7. CASE \E t \in Threads : MThreadNext(t)
  BY <1>2, <1>5, <1>7
<1>8. QED
  BY <1>6, <1>7 DEF MNext, allVars, Finished

LEMMA CalmDoomed ==
  ASSUME MemInv, Calm, NEW u \in Threads
  PROVE  /\ Retired(u)' = Retired(u) /\ Doomed(u)' \subseteq Doomed(u)
         /\ ~Committed(u)' => \/ alog'[u] = {}
                              \/ alog'[u] = alog[u] /\ ~Committed(u)
<1>1. retired' = retired /\ CalmThread(u)
  BY DEF Calm
<1>2. Retired(u)' = Retired(u)
  BY <1>1 DEF Retired, Elements
<1>3. Committed(u)' => Committed(u) /\ Deleted(u)' = Deleted(u)
  BY <1>1 DEF CalmThread, Deleted
<1>4. QED
  BY <1>1, <1>2, <1>3 DEF CalmThread, Doomed

LEMMA DoomedStep ==
  ASSUME MemInv, [MNext]_allVars
  PROVE  DoomedState'
<1>1. MemTypeOK /\ DoomedState /\ PrivateState
  BY DEF MemInv
<1>2. CASE Calm
  <2>1. /\ UNCHANGED <<allocated, cmem, retired>>
        /\ \A u \in Threads : /\ Injective(rlog'[u])
                              /\ Committed(u)' => Committed(u) /\ rlog'[u] = rlog[u]
    BY <1>2 DEF Calm, CalmThread
  <2>2. \A u \in Threads : Committed(u)' => Deleted(u)' = Deleted(u)
    BY <2>1 DEF Deleted
  <2>3. \A u \in Threads :
          /\ Retired(u)' = Retired(u) /\ Doomed(u)' \subseteq Doomed(u)
          /\ ~Committed(u)' => \/ alog'[u] = {}
                               \/ alog'[u] = alog[u] /\ ~Committed(u)
    BY <1>2, CalmDoomed
  <2>4. \A t \in Threads : Injective(retired'[t]) /\ Injective(rlog'[t])
    BY <1>1, <2>1 DEF DoomedState
  <2>5. \A t \in Threads : Committed(t)' => Retired(t)' \cap Deleted(t)' = {}
    BY <1>1, <2>1, <2>2, <2>3 DEF DoomedState
  <2>6. \A t, u \in Threads : t # u => Doomed(t)' \cap Doomed(u)' = {}
    BY <1>1, <2>3 DEF DoomedState
  <2>7. \A t \in Threads : Doomed(t)' \subseteq allocated' \ Reachable(cmem')
    BY <1>1, <2>1, <2>3 DEF DoomedState
  <2>8. \A t, u \in Threads : ~Committed(u)' => Doomed(t)' \cap alog'[u] = {}
    BY <1>1, <2>3 DEF DoomedState
  <2>9. QED
    BY <2>4, <2>5, <2>6, <2>7, <2>8 DEF DoomedState
<1>3. ASSUME NEW t \in Threads, Abort(t)
      PROVE  DoomedState'
  <2>1. /\ UNCHANGED <<cmem, retired>>
        /\ allocated' = allocated \ alog[t]
        /\ alog'[t] = {} /\ rlog'[t] = <<>>
        /\ ~Committed(t) /\ ~Committed(t)'
        /\ \A u \in Threads : u # t => SameThread(u) /\ SameLists(u)
    BY <1>3, AbortFacts
  <2>2. ASSUME NEW u \in Threads
        PROVE  /\ Injective(retired'[u]) /\ Injective(rlog'[u])
               /\ (Committed(u)' <=> Committed(u))
               /\ Retired(u)' = Retired(u) /\ Doomed(u)' = Doomed(u)
               /\ alog'[u] \subseteq alog[u]
               /\ Committed(u) => Deleted(u)' = Deleted(u)
               /\ Doomed(u) \cap alog[t] = {}
    <3>1. Doomed(u) \cap alog[t] = {}
      BY <1>1, <2>1 DEF DoomedState
    <3>2. CASE u # t
      BY <1>1, <2>1, <3>1, <3>2, SameView DEF SameLists, DoomedState
    <3>3. CASE u = t
      <4>1. Injective(<<>>)
        BY DEF Injective
      <4>2. Retired(t)' = Retired(t)
        BY <2>1 DEF Retired, Elements
      <4>3. Doomed(t)' = Doomed(t)
        BY <2>1, <4>2 DEF Doomed
      <4>4. QED
        BY <1>1, <2>1, <3>1, <3>3, <4>1, <4>2, <4>3 DEF DoomedState
    <3>4. QED
      BY <3>2, <3>3
  <2>3. QED
    BY <1>1, <2>1, <2>2 DEF DoomedState
<1>4. ASSUME NEW t \in Threads, CommitCas(t), UNCHANGED memVars
      PROVE  DoomedState'
  <2>1. /\ UNCHANGED <<allocated, alog, rlog, retired>>
        /\ Attempting(t) /\ ~Committed(t) /\ Committed(t)'
        /\ Touches(t) = Sees(t)
        /\ Deleted(t)' = Deleted(t) /\ Deleted(t) \subseteq Sees(t)
        /\ \A o \in Sees(t) : o \in allocated
        /\ Reachable(cmem') \subseteq Sees(t) \ Deleted(t)
        /\ \A u \in Threads : Doomed(u) \cap Sees(t) = {}
        /\ \A u \in Threads : u # t => SameThread(u) /\ SameLists(u)
    BY <1>4, CommitFacts
  <2>2. ASSUME NEW u \in Threads
        PROVE  /\ Injective(retired'[u]) /\ Injective(rlog'[u])
               /\ Retired(u)' = Retired(u) /\ Deleted(u)' = Deleted(u)
    BY <1>1, <2>1 DEF DoomedState, Retired, Elements, Deleted
  <2>3. Doomed(t)' = Doomed(t) \cup Deleted(t) /\ Doomed(t) = Retired(t)
    BY <2>1, <2>2 DEF Doomed
  <2>4. ASSUME NEW u \in Threads, u # t
        PROVE  /\ Doomed(u)' = Doomed(u) /\ (Committed(u)' <=> Committed(u))
    BY <2>1, <2>4, SameView
  <2>5. \A u \in Threads : Committed(u)' => Retired(u)' \cap Deleted(u)' = {}
    <3>1. Retired(t) \cap Deleted(t) = {}
      BY <2>1, <2>3
    <3>2. QED
      BY <1>1, <2>2, <2>4, <3>1 DEF DoomedState
  <2>6. \A u, w \in Threads : u # w => Doomed(u)' \cap Doomed(w)' = {}
    BY <1>1, <2>1, <2>3, <2>4 DEF DoomedState
  <2>7. \A u \in Threads : Doomed(u)' \subseteq allocated' \ Reachable(cmem')
    BY <1>1, <2>1, <2>3, <2>4 DEF DoomedState
  <2>8. ASSUME NEW u \in Threads, NEW w \in Threads, ~Committed(w)'
        PROVE  Doomed(u)' \cap alog'[w] = {}
    <3>1. w # t /\ ~Committed(w)
      BY <2>1, <2>4, <2>8
    <3>2. Doomed(u) \cap alog[w] = {} /\ Touches(t) \cap alog[w] = {}
      BY <1>1, <3>1 DEF DoomedState, PrivateState
    <3>3. QED
      BY <2>1, <2>3, <2>4, <3>2
  <2>9. QED
    BY <2>2, <2>5, <2>6, <2>7, <2>8 DEF DoomedState
<1>5. ASSUME NEW t \in Threads, NEW o \in Objs, NEW v \in Pointers(t),
             TmNew(t, o, v)
      PROVE  DoomedState'
  <2>1. /\ UNCHANGED <<rlog, retired>>
        /\ allocated' = allocated \cup {o}
        /\ alog'[t] = alog[t] \cup {o}
        /\ Reachable(cmem') = Reachable(cmem)
        /\ \A u \in Threads : u # t => SameThread(u) /\ SameLists(u)
    BY <1>5, NewFacts
  <2>2. \A u \in Threads : /\ Retired(u)' = Retired(u)
                           /\ Deleted(u)' = Deleted(u)
                           /\ Doomed(u)' = Doomed(u)
                           /\ (Committed(u)' <=> Committed(u))
                           /\ o \notin Doomed(u)
    BY <1>5, NewFacts
  <2>3. \A u \in Threads : u # t => alog'[u] = alog[u]
    BY <2>1 DEF SameLists
  <2>4. \A u, w \in Threads : ~Committed(w)' => Doomed(u)' \cap alog'[w] = {}
    BY <1>1, <2>1, <2>2, <2>3 DEF DoomedState
  <2>5. QED
    BY <1>1, <2>1, <2>2, <2>4 DEF DoomedState
<1>6. ASSUME NEW t \in Threads, RetireAll(t)
      PROVE  DoomedState'
  <2>1. /\ UNCHANGED <<vars, allocated, alog>>
        /\ Retired(t)' = Retired(t) \cup Deleted(t)
        /\ Injective(retired'[t]) /\ rlog'[t] = <<>> /\ Deleted(t)' = {}
        /\ \A u \in Threads : /\ Doomed(u)' = Doomed(u)
                              /\ (Committed(u)' <=> Committed(u))
        /\ \A u \in Threads : u # t => SameThread(u) /\ SameLists(u)
    BY <1>6, RetireFacts
  <2>2. ASSUME NEW u \in Threads
        PROVE  /\ Injective(retired'[u]) /\ Injective(rlog'[u])
               /\ Committed(u) => Retired(u)' \cap Deleted(u)' = {}
    <3>1. CASE u # t
      BY <1>1, <2>1, <3>1, SameView DEF SameLists, DoomedState
    <3>2. CASE u = t
      BY <2>1, <3>2 DEF Injective
    <3>3. QED
      BY <3>1, <3>2
  <2>3. cmem' = cmem
    BY <2>1 DEF vars
  <2>4. QED
    BY <1>1, <2>1, <2>2, <2>3 DEF DoomedState
<1>7. ASSUME NEW t \in Threads, CleanFree(t)
      PROVE  DoomedState'
  <2> DEFINE c == Candidate(t)
  <2>1. /\ UNCHANGED <<vars, alog, rlog>>
        /\ Deleted(t) = {}
        /\ allocated' = allocated \ {c}
        /\ Injective(retired'[t])
        /\ \A u \in Threads : /\ Doomed(u)' = Doomed(u) \ {c}
                              /\ Deleted(u)' = Deleted(u)
                              /\ (Committed(u)' <=> Committed(u))
        /\ \A u \in Threads : u # t => SameThread(u) /\ SameLists(u)
    BY <1>7, FreeFacts
  <2> HIDE DEF c
  <2>2. ASSUME NEW u \in Threads
        PROVE  /\ Injective(retired'[u]) /\ Injective(rlog'[u])
               /\ Committed(u) => Retired(u)' \cap Deleted(u)' = {}
    <3>1. CASE u # t
      BY <1>1, <2>1, <3>1, SameView DEF SameLists, DoomedState
    <3>2. CASE u = t
      BY <1>1, <2>1, <3>2 DEF DoomedState
    <3>3. QED
      BY <3>1, <3>2
  <2>3. cmem' = cmem
    BY <2>1 DEF vars
  <2>4. QED
    BY <1>1, <2>1, <2>2, <2>3 DEF DoomedState
<1>8. QED
  BY <1>2, <1>3, <1>4, <1>5, <1>6, <1>7, StepKinds

LEMMA OpenLogStep ==
  ASSUME MemInv, [MNext]_allVars
  PROVE  OpenLogState'
<1>1. Core /\ MemTypeOK /\ TypeOK /\ OpenLogState /\ DoomedState
  BY DEF MemInv, Core
<1>2. ASSUME [Next]_vars, curTx' = curTx,
             \A u \in Threads : /\ Retired(u)' \subseteq Retired(u)
                                /\ Doomed(u)' \subseteq Doomed(u)
      PROVE  OpenLogState'
  <2> SUFFICES ASSUME IsOpen', NEW u \in Threads
               PROVE  LogAddrs(curTx.idx)' \cap
                        (IF u = curTx.idx THEN Retired(u)' ELSE Doomed(u)') = {}
    BY <1>2 DEF OpenLogState
  <2>1. IsOpen /\ log'[curTx.idx] = log[curTx.idx]
    BY <1>1, <1>2, OpenStep DEF OpenKept
  <2>2. LogAddrs(curTx.idx)' = LogAddrs(curTx.idx)
    BY <1>2, <2>1 DEF LogAddrs
  <2>3. QED
    BY <1>1, <1>2, <2>1, <2>2 DEF OpenLogState
<1>3. CASE Calm /\ [Next]_vars
  BY <1>2, <1>3, CalmDoomed DEF Calm
<1>4. ASSUME NEW t \in Threads, Abort(t)
      PROVE  OpenLogState'
  <2>1. /\ [Next]_vars /\ UNCHANGED <<curTx, retired>>
        /\ ~Committed(t) /\ ~Committed(t)'
        /\ \A u \in Threads : u # t => SameThread(u) /\ SameLists(u)
    BY <1>4, AbortFacts
  <2>2. \A u \in Threads : Retired(u)' = Retired(u)
    BY <2>1 DEF Retired, Elements
  <2>3. \A u \in Threads : u # t => Doomed(u)' = Doomed(u)
    BY <2>1, SameView
  <2>4. Doomed(t)' = Doomed(t)
    BY <2>1, <2>2 DEF Doomed
  <2>5. QED
    BY <1>2, <2>1, <2>2, <2>3, <2>4
<1>5. ASSUME NEW t \in Threads, CommitCas(t), UNCHANGED memVars
      PROVE  OpenLogState'
  <2>1. /\ retired' = retired /\ curTx'.idx = t /\ ~Committed(t)
        /\ LogAddrs(t)' \subseteq Roots \cup Sees(t)
        /\ \A u \in Threads : Doomed(u) \cap Sees(t) = {}
        /\ \A u \in Threads : u # t => SameThread(u) /\ SameLists(u)
    BY <1>5, CommitFacts
  <2>2. \A u \in Threads : u # t => Doomed(u)' = Doomed(u)
    BY <2>1, SameView
  <2>3. Retired(t)' = Doomed(t)
    BY <2>1 DEF Retired, Elements, Doomed
  <2>4. \A u \in Threads : Doomed(u) \subseteq Objs
    <3>1. allocated \subseteq Objs
      BY <1>1 DEF MemTypeOK
    <3>2. QED
      BY <1>1, <3>1 DEF DoomedState
  <2>5. \A u \in Threads : Doomed(u) \cap (Roots \cup Sees(t)) = {}
    BY <2>1, <2>4, MemAssumption
  <2>6. QED
    BY <2>1, <2>2, <2>3, <2>5 DEF OpenLogState
<1>6. ASSUME NEW t \in Threads, NEW o \in Objs, NEW v \in Pointers(t),
             TmNew(t, o, v)
      PROVE  OpenLogState'
  <2>1. UNCHANGED <<curTx, request, log>>
    BY <1>6, NewFacts
  <2>2. \A u \in Threads : Retired(u)' = Retired(u) /\ Doomed(u)' = Doomed(u)
    BY <1>6, NewFacts
  <2>3. (IsOpen' <=> IsOpen) /\ LogAddrs(curTx.idx)' = LogAddrs(curTx.idx)
    BY <2>1 DEF IsOpen, LogAddrs
  <2>4. QED
    BY <1>1, <2>1, <2>2, <2>3 DEF OpenLogState
<1>7. ASSUME NEW t \in Threads, RetireAll(t)
      PROVE  OpenLogState'
  <2>1. /\ UNCHANGED vars /\ pc[t] = "retire"
        /\ \A u \in Threads : Doomed(u)' = Doomed(u)
        /\ \A u \in Threads : u # t => SameThread(u) /\ SameLists(u)
    BY <1>7, RetireFacts
  <2>2. \A u \in Threads : u # t => Retired(u)' = Retired(u)
    BY <2>1, SameView
  <2>3. curTx' = curTx /\ (IsOpen' <=> IsOpen)
    BY <2>1 DEF vars, IsOpen
  <2>4. LogAddrs(curTx.idx)' = LogAddrs(curTx.idx)
    BY <2>1 DEF vars, LogAddrs
  <2>5. IsOpen => curTx.idx # t
    BY <1>1, <2>1 DEF Core, OpenHasOwner, Owner, InHelp, HelpLabels, ApplyLabels
  <2>6. QED
    BY <1>1, <2>1, <2>2, <2>3, <2>4, <2>5 DEF OpenLogState
<1>8. ASSUME NEW t \in Threads, CleanFree(t)
      PROVE  OpenLogState'
  <2>1. /\ UNCHANGED vars
        /\ Retired(t)' = Retired(t) \ {Candidate(t)}
        /\ \A u \in Threads : Doomed(u)' = Doomed(u) \ {Candidate(t)}
        /\ \A u \in Threads : u # t => SameThread(u) /\ SameLists(u)
    BY <1>8, FreeFacts
  <2>2. \A u \in Threads : u # t => Retired(u)' = Retired(u)
    BY <2>1, SameView
  <2>3. curTx' = curTx
    BY <2>1 DEF vars
  <2>4. QED
    BY <1>2, <2>1, <2>2, <2>3
<1>9. QED
  BY <1>3, <1>4, <1>5, <1>6, <1>7, <1>8, StepKinds

LEMMA PrivateStep ==
  ASSUME MemInv, [MNext]_allVars
  PROVE  PrivateState'
<1>1. MemTypeOK /\ DoomedState /\ PrivateState /\ TouchState
  BY DEF MemInv
<1> DEFINE Own(t) == ~Committed(t) =>
      /\ alog[t] \subseteq allocated \ Reachable(cmem)
      /\ \A u \in Threads : u # t => Touches(u) \cap alog[t] = {}
      /\ \A u \in Threads : u # t /\ ~Committed(u) => alog[u] \cap alog[t] = {}
<1>2. CASE Calm
  <2>1. /\ UNCHANGED <<allocated, cmem>>
        /\ \A u \in Threads : /\ KeepsTouching(u)
                              /\ ~Committed(u)' =>
                                   \/ alog'[u] = {}
                                   \/ alog'[u] = alog[u] /\ ~Committed(u)
    BY <1>2 DEF Calm, CalmThread
  <2>2. ASSUME NEW t \in Threads, ~Committed(t)', NEW o, o \in alog'[t]
        PROVE  /\ o \in alog[t] /\ ~Committed(t)
               /\ o \in allocated' /\ o \notin Reachable(cmem')
               /\ \A u \in Threads : u # t => o \notin Touches(u)'
               /\ \A u \in Threads : u # t /\ ~Committed(u)' => o \notin alog'[u]
    <3>1. o \in alog[t] /\ ~Committed(t)
      BY <2>1, <2>2
    <3>2. o \in allocated' /\ o \notin Reachable(cmem')
      BY <1>1, <2>1, <3>1 DEF PrivateState
    <3>3. ASSUME NEW u \in Threads, u # t
          PROVE  o \notin Touches(u)'
      <4>1. o \notin Touches(u)
        BY <1>1, <3>1, <3>3 DEF PrivateState
      <4>2. ~Fresh(o, u)
        BY <3>1, <3>3 DEF Fresh
      <4>3. QED
        BY <2>1, <4>1, <4>2 DEF KeepsTouching
    <3>4. ASSUME NEW u \in Threads, u # t, ~Committed(u)'
          PROVE  o \notin alog'[u]
      BY <1>1, <2>1, <3>1, <3>4 DEF PrivateState
    <3>5. QED
      BY <3>1, <3>2, <3>3, <3>4
  <2>3. ASSUME NEW t \in Threads
        PROVE  Own(t)'
    BY <2>2
  <2>4. Reachable(cmem') \subseteq allocated'
    BY <1>1, <2>1 DEF PrivateState
  <2>5. QED
    BY <2>3, <2>4 DEF PrivateState
<1>3. ASSUME NEW t \in Threads, Abort(t)
      PROVE  PrivateState'
  <2>1. /\ cmem' = cmem
        /\ allocated' = allocated \ alog[t]
        /\ alog'[t] = {}
        /\ ~Committed(t) /\ Touches(t)' = {}
        /\ \A u \in Threads : u # t => SameThread(u) /\ SameLists(u)
    BY <1>3, AbortFacts
  <2>2. ASSUME NEW u \in Threads, u # t
        PROVE  /\ Touches(u)' = Touches(u) /\ (Committed(u)' <=> Committed(u))
               /\ alog'[u] = alog[u]
    BY <2>1, <2>2, SameView DEF SameLists
  <2>3. Reachable(cmem') \subseteq allocated'
    BY <1>1, <2>1 DEF PrivateState
  <2>4. ASSUME NEW w \in Threads
        PROVE  Own(w)'
    <3>1. CASE w = t
      BY <2>1, <3>1
    <3>2. CASE w # t
      <4>1. ~Committed(w)' => alog'[w] \subseteq allocated' \ Reachable(cmem')
        BY <1>1, <2>1, <2>2, <3>2 DEF PrivateState
      <4>2. \A u \in Threads : ~Committed(w)' /\ u # w => Touches(u)' \cap alog'[w] = {}
        BY <1>1, <2>1, <2>2, <3>2 DEF PrivateState
      <4>3. \A u \in Threads : ~Committed(w)' /\ u # w /\ ~Committed(u)' =>
              alog'[u] \cap alog'[w] = {}
        BY <1>1, <2>1, <2>2, <3>2 DEF PrivateState
      <4>4. QED
        BY <4>1, <4>2, <4>3
    <3>3. QED
      BY <3>1, <3>2
  <2>5. QED
    BY <2>3, <2>4 DEF PrivateState
<1>4. ASSUME NEW t \in Threads, CommitCas(t), UNCHANGED memVars
      PROVE  PrivateState'
  <2>1. /\ UNCHANGED <<allocated, alog>>
        /\ Committed(t)' /\ ~Committed(t)
        /\ Touches(t)' \subseteq Sees(t) /\ Touches(t) = Sees(t)
        /\ \A o \in Sees(t) : o \in allocated
        /\ Reachable(cmem') \subseteq Sees(t) \ Deleted(t)
        /\ \A u \in Threads : u # t => SameThread(u) /\ SameLists(u)
    BY <1>4, CommitFacts
  <2>2. ASSUME NEW u \in Threads
        PROVE  Touches(u)' \subseteq Touches(u) /\ (~Committed(u)' => ~Committed(u))
    BY <2>1, SameView
  <2>3. Reachable(cmem') \subseteq allocated'
    BY <2>1
  <2>4. ASSUME NEW w \in Threads
        PROVE  Own(w)'
    <3> SUFFICES ASSUME ~Committed(w)'
                 PROVE  Own(w)'
      OBVIOUS
    <3>1. w # t /\ ~Committed(w)
      BY <2>1, <2>2
    <3>2. alog[w] \cap Touches(t) = {}
      BY <1>1, <3>1 DEF PrivateState
    <3>3. alog'[w] \subseteq allocated' \ Reachable(cmem')
      BY <1>1, <2>1, <3>1, <3>2 DEF PrivateState
    <3>4. \A u \in Threads : u # w => Touches(u)' \cap alog'[w] = {}
      BY <1>1, <2>1, <2>2, <3>1 DEF PrivateState
    <3>5. \A u \in Threads : u # w /\ ~Committed(u)' => alog'[u] \cap alog'[w] = {}
      BY <1>1, <2>1, <2>2, <3>1 DEF PrivateState
    <3>6. QED
      BY <3>3, <3>4, <3>5
  <2>5. QED
    BY <2>3, <2>4 DEF PrivateState
<1>5. ASSUME NEW t \in Threads, NEW o \in Objs, NEW v \in Pointers(t),
             TmNew(t, o, v)
      PROVE  PrivateState'
  <2>1. /\ o \notin allocated /\ allocated' = allocated \cup {o}
        /\ alog'[t] = alog[t] \cup {o}
        /\ Attempting(t) /\ Attempting(t)'
        /\ Sees(t)' = Sees(t) \cup {o}
        /\ Reachable(cmem') = Reachable(cmem)
        /\ \A u \in Threads : u # t => SameThread(u) /\ SameLists(u)
    BY <1>5, NewFacts
  <2>2. \A u \in Threads : /\ (Committed(u)' <=> Committed(u))
                           /\ ~Committed(u) => o \notin alog[u]
    BY <1>5, NewFacts
  <2>3. Touches(t)' = Touches(t) \cup {o}
    BY <2>1 DEF Touches
  <2>4. ASSUME NEW u \in Threads, u # t
        PROVE  /\ Touches(u)' = Touches(u) /\ alog'[u] = alog[u]
    BY <2>1, <2>4, SameView DEF SameLists
  <2>5. \A u \in Threads : o \notin Touches(u)
    BY <1>1, <2>1 DEF TouchState
  <2>6. o \notin Reachable(cmem')
    BY <1>1, <2>1 DEF PrivateState
  <2>7. Reachable(cmem') \subseteq allocated'
    BY <1>1, <2>1 DEF PrivateState
  <2>8. ASSUME NEW w \in Threads
        PROVE  Own(w)'
    <3> SUFFICES ASSUME ~Committed(w)'
                 PROVE  Own(w)'
      OBVIOUS
    <3>1. ~Committed(w) /\ o \notin alog[w]
      BY <2>2
    <3>2. CASE w = t
      <4>1. alog'[t] \subseteq allocated' \ Reachable(cmem')
        BY <1>1, <2>1, <2>6, <3>1, <3>2 DEF PrivateState
      <4>2. \A u \in Threads : u # t => Touches(u)' \cap alog'[t] = {}
        BY <1>1, <2>1, <2>4, <2>5, <3>1, <3>2 DEF PrivateState
      <4>3. \A u \in Threads : u # t /\ ~Committed(u)' => alog'[u] \cap alog'[t] = {}
        BY <1>1, <2>1, <2>2, <2>4, <3>1, <3>2 DEF PrivateState
      <4>4. QED
        BY <3>2, <4>1, <4>2, <4>3
    <3>3. CASE w # t
      <4>1. alog'[w] \subseteq allocated' \ Reachable(cmem')
        BY <1>1, <2>1, <2>4, <3>1, <3>3 DEF PrivateState
      <4>2. \A u \in Threads : u # w => Touches(u)' \cap alog'[w] = {}
        BY <1>1, <2>3, <2>4, <3>1, <3>3 DEF PrivateState
      <4>3. \A u \in Threads : u # w /\ ~Committed(u)' => alog'[u] \cap alog'[w] = {}
        BY <1>1, <2>1, <2>2, <2>4, <3>1, <3>3 DEF PrivateState
      <4>4. QED
        BY <4>1, <4>2, <4>3
    <3>4. QED
      BY <3>2, <3>3
  <2>9. QED
    BY <2>7, <2>8 DEF PrivateState
<1>6. ASSUME NEW t \in Threads, RetireAll(t)
      PROVE  PrivateState'
  <2>1. /\ UNCHANGED <<vars, allocated, alog>>
        /\ \A u \in Threads : /\ (Committed(u)' <=> Committed(u))
                              /\ Touches(u)' = Touches(u)
    BY <1>6, RetireFacts
  <2>2. cmem' = cmem
    BY <2>1 DEF vars
  <2>3. QED
    BY <1>1, <2>1, <2>2 DEF PrivateState
<1>7. ASSUME NEW t \in Threads, CleanFree(t)
      PROVE  PrivateState'
  <2> DEFINE c == Candidate(t)
  <2>1. /\ UNCHANGED <<vars, alog>> /\ Cleaning(t)
        /\ allocated' = allocated \ {c}
        /\ \A u \in Threads : /\ (Committed(u)' <=> Committed(u))
                              /\ Touches(u)' = Touches(u)
    BY <1>7, FreeFacts
  <2>2. c \in Doomed(t)
    BY <2>1, CandidateRetired
  <2> HIDE DEF c
  <2>3. cmem' = cmem
    BY <2>1 DEF vars
  <2>4. c \notin Reachable(cmem) /\ \A u \in Threads : ~Committed(u) => c \notin alog[u]
    BY <1>1, <2>2 DEF DoomedState
  <2>5. Reachable(cmem') \subseteq allocated'
    BY <1>1, <2>1, <2>3, <2>4 DEF PrivateState
  <2>6. ASSUME NEW w \in Threads
        PROVE  Own(w)'
    <3>1. ~Committed(w)' => alog'[w] \subseteq allocated' \ Reachable(cmem')
      BY <1>1, <2>1, <2>3, <2>4 DEF PrivateState
    <3>2. ~Committed(w)' => \A u \in Threads : u # w => Touches(u)' \cap alog'[w] = {}
      BY <1>1, <2>1 DEF PrivateState
    <3>3. ~Committed(w)' => \A u \in Threads :
            u # w /\ ~Committed(u)' => alog'[u] \cap alog'[w] = {}
      BY <1>1, <2>1 DEF PrivateState
    <3>4. QED
      BY <3>1, <3>2, <3>3
  <2>7. QED
    BY <2>5, <2>6 DEF PrivateState
<1>8. QED
  BY <1>2, <1>3, <1>4, <1>5, <1>6, <1>7, StepKinds

\* Who is between beginTx and the body keeps off the lists.
LEMMA BeginKept ==
  ASSUME Core, NEW t \in Threads, Engine(t)
  PROVE  /\ Beginning(t)' => Beginning(t)
         /\ pc'[t] \in {"setEra", "recheck"} =>
              log'[t] = <<>> \/ (pc[t] = "setEra" /\ log'[t] = log[t])
<1> USE DEF Beginning, Owner, InHelp, CalledByCommit, Step, HelpLabels,
        ApplyLabels, Core, TypeOK
<1>1. CASE BeginTx(t)
  <2>1. CASE BeginLoadCurTx(t) \/ BeginRecheck(t)
    BY <2>1 DEF BeginLoadCurTx, BeginRecheck
  <2>2. CASE BeginReset(t)
    BY <2>2 DEF BeginReset
  <2>3. CASE BeginSetEra(t)
    BY <2>3 DEF BeginSetEra
  <2>4. QED
    BY <1>1, <2>1, <2>2, <2>3 DEF BeginTx
<1>2. CASE \/ HelpCheckRequest(t) \/ HelpCheckCurTx(t) \/ HelpRecheckRequest(t)
           \/ HelpClose(t)
  BY <1>2 DEF HelpCheckRequest, HelpCheckCurTx, HelpRecheckRequest, HelpClose,
     AfterHelp
<1>3. CASE HelpCopyNum(t) \/ HelpCopyEntry(t) \/ HelpSetEra(t)
  BY <1>3 DEF HelpCopyNum, HelpCopyEntry, HelpSetEra
<1>4. CASE ApplyLoadVal(t) \/ ApplyLoadSeq(t) \/ ApplyDcas(t)
  BY <1>4 DEF ApplyLoadVal, ApplyLoadSeq, ApplyDcas, NextEntry
<1>5. CASE \/ \E w \in Roots \cup InUse(t) :
                LoadVal(t, w) \/ \E v \in Pointers(t) : MStore(t, w, v)
           \/ LoadSeq(t)
  <2>1. pc'[t] \in {"body", "loadSeq", "loaded"}
    BY <1>5 DEF LoadVal, MStore, Store, LoadSeq, Operate
  <2>2. QED
    BY <2>1
<1>6. CASE CommitReadOnly(t) \/ CommitCheck(t) \/ CommitOpen(t) \/ ClearEra(t)
  BY <1>6 DEF CommitReadOnly, CommitCheck, CommitOpen, ClearEra
<1>7. CASE CommitCas(t)
  <2>1. helpTx'[t].seq = myTx'[t].seq + 1 /\ myTx'[t].seq \in Nat
    BY <1>7, ThreadFacts DEF CommitCas, NewTx, Trans
  <2>2. pc'[t] = "chkRequest" /\ CalledByCommit(t)'
    BY <1>7, <2>1 DEF CommitCas
  <2>3. QED
    BY <2>2
<1>8. QED
  BY <1>1, <1>2, <1>3, <1>4, <1>5, <1>6, <1>7 DEF Engine, HelpApply

LEMMA BeginStep ==
  ASSUME MemInv, [MNext]_allVars
  PROVE  BeginState'
<1>1. Core /\ MemTypeOK /\ TypeOK /\ BeginState
  BY DEF MemInv, Core
<1> DEFINE Part(u) ==
      /\ Beginning(u) => alog[u] = {} /\ rlog[u] = <<>> /\ known[u] = {}
      /\ pc[u] \in {"setEra", "recheck"} => log[u] = <<>>
<1>2. \A u \in Threads : Part(u)
  BY <1>1 DEF BeginState
<1>3. ASSUME NEW u \in Threads, SameThread(u), SameLists(u)
      PROVE  Part(u)'
  <2>1. Beginning(u)' <=> Beginning(u)
    BY <1>3, SameView
  <2>2. QED
    BY <1>2, <1>3, <2>1 DEF SameThread, SameLists
<1>4. ASSUME NEW t \in Threads, MThreadNext(t)
      PROVE  Part(t)'
  <2>1. CASE Engine(t) /\ UNCHANGED memVars
    <3>1. /\ Beginning(t)' => Beginning(t)
          /\ pc'[t] \in {"setEra", "recheck"} =>
               log'[t] = <<>> \/ (pc[t] = "setEra" /\ log'[t] = log[t])
      BY <1>1, <2>1, BeginKept
    <3>2. alog' = alog /\ rlog' = rlog /\ known' = known
      BY <2>1 DEF memVars
    <3>3. pc'[t] \in {"setEra", "recheck"} => log'[t] = <<>>
      BY <1>2, <3>1
    <3>4. QED
      BY <1>2, <3>1, <3>2, <3>3
  <2>2. CASE Abort(t)
    BY <2>2, AbortFacts
  <2>3. ASSUME NEW o \in Objs, NEW v \in Pointers(t), TmNew(t, o, v)
        PROVE  Part(t)'
    <3>1. pc'[t] = "body"
      BY <2>3, NewFacts
    <3>2. QED
      BY <3>1 DEF Beginning, InHelp, HelpLabels, ApplyLabels
  <2>4. CASE \/ MLoadReturn(t) \/ (\E o \in Objs : TmDelete(t, o))
             \/ RetireAll(t) \/ CleanKeepsCurrent(t) \/ CleanScan(t)
             \/ CleanFree(t) \/ CleanDone(t)
    <3>1. pc'[t] \in {"body", "retire", "clear"}
      <4>1. CASE MLoadReturn(t) \/ (\E o \in Objs : TmDelete(t, o)) \/ CleanDone(t)
        BY <1>1, <4>1 DEF TypeOK, MLoadReturn, LoadReturn, TmDelete, Delete,
           CleanDone, CommitRetire, Operate, Step
      <4>2. CASE RetireAll(t) \/ CleanFree(t)
        BY <4>2, RetireFacts, FreeFacts DEF vars
      <4>3. CASE CleanKeepsCurrent(t) \/ CleanScan(t)
        BY <4>3, CandidateRetired DEF CleanKeepsCurrent, CleanScan, vars
      <4>4. QED
        BY <2>4, <4>1, <4>2, <4>3
    <3>2. QED
      BY <3>1 DEF Beginning, InHelp, HelpLabels, ApplyLabels
  <2>5. QED
    BY <1>4, <2>1, <2>2, <2>3, <2>4 DEF MThreadNext, Abort
<1>5. ASSUME NEW t \in Threads, MThreadNext(t)
      PROVE  \A u \in Threads : Part(u)'
  BY <1>1, <1>3, <1>4, <1>5, OthersKeepLists
<1>6. CASE UNCHANGED <<vars, memVars>>
  BY <1>3, <1>6 DEF vars, memVars, SameThread, SameLists, BeginState
<1>7. CASE \E t \in Threads : MThreadNext(t)
  BY <1>5, <1>7 DEF BeginState
<1>8. QED
  BY <1>6, <1>7 DEF MNext, allVars, Finished

\* The pointers a program has loaded lead where it sees.
LEMMA LoadedSeen ==
  ASSUME MemInv, NEW t \in Threads, pc[t] = "loaded"
  PROVE  lval[t] \in Objs => lval[t] \in Sees(t)
<1>1. Attempting(t)
  BY DEF Attempting, ActiveLabels, LoadLabels
<1>2. ThreadProgram(t) /\ ThreadRead(t, Roots \cup Sees(t))
  BY <1>1 DEF MemInv, ProgramState, SeenState
<1>3. addr[t] \in Roots \cup Sees(t)
  BY <1>2 DEF ThreadRead, LoadLabels
<1>4. lval[t] = LookupAddr(log[t], addr[t], snap[t][addr[t]])
  BY DEF MemInv, Opacity
<1>5. CASE Logged(log[t], addr[t])
  <2>1. PICK i \in DOMAIN log[t] : lval[t] = log[t][i].val
    BY <1>4, <1>5, PositionFact DEF LookupAddr
  <2>2. QED
    BY <1>2, <2>1, MemAssumption DEF ThreadProgram
<1>6. CASE ~Logged(log[t], addr[t])
  <2>1. lval[t] = snap[t][addr[t]]
    BY <1>4, <1>6 DEF LookupAddr
  <2>2. QED
    BY <1>2, <1>3, <2>1 DEF ThreadProgram, ClosedIn
<1>7. QED
  BY <1>5, <1>6

\* An entry of a log after addOrReplace is an old one or the new one.
LEMMA AddedEntries ==
  ASSUME NEW L \in LogType, NEW w \in Words, NEW v \in Vals,
         NEW i \in DOMAIN AddOrReplace(L, w, v)
  PROVE  \/ i \in DOMAIN L /\ AddOrReplace(L, w, v)[i] = L[i]
         \/ AddOrReplace(L, w, v)[i] = [addr |-> w, val |-> v]
<1> DEFINE e == [addr |-> w, val |-> v]
<1>1. CASE Logged(L, w)
  <2>1. AddOrReplace(L, w, v) = [L EXCEPT ![Position(L, w)] = e]
    BY <1>1 DEF AddOrReplace
  <2>2. QED
    BY <2>1
<1>2. CASE ~Logged(L, w)
  <2>1. AddOrReplace(L, w, v) = Append(L, e)
    BY <1>2 DEF AddOrReplace
  <2>2. L \in Seq(Entry \cup {Garbage}) /\ e \in Entry
    BY DEF LogType, Entry
  <2> HIDE DEF e
  <2>3. /\ DOMAIN Append(L, e) = 1 .. Len(L) + 1 /\ DOMAIN L = 1 .. Len(L)
        /\ Len(L) \in Nat
        /\ \A j \in 1 .. Len(L) : Append(L, e)[j] = L[j]
        /\ Append(L, e)[Len(L) + 1] = e
    BY <2>2
  <2>4. i \in 1 .. Len(L) + 1
    BY <2>1, <2>3
  <2>5. CASE i \in 1 .. Len(L)
    BY <2>1, <2>3, <2>5
  <2>6. CASE i = Len(L) + 1
    BY <2>1, <2>3, <2>6 DEF e
  <2>7. QED
    BY <2>3, <2>4, <2>5, <2>6
<1>3. QED
  BY <1>1, <1>2

\* What the engine does for a program.
LEMMA EngineAttempts ==
  ASSUME Core, NEW t \in Threads, Engine(t), Attempting(t)'
  PROVE  \/ BeginRecheck(t) /\ myTx[t] = curTx
         \/ \E w \in Roots \cup InUse(t) : \E v \in Pointers(t) : MStore(t, w, v)
         \/ Attempting(t) /\ log' = log /\ snap' = snap
<1> USE DEF Attempting, Step, ActiveLabels, LoadLabels, Core, TypeOK
<1>1. CASE BeginTx(t)
  BY <1>1 DEF BeginTx, BeginLoadCurTx, BeginReset, BeginSetEra, BeginRecheck
<1>2. CASE \/ HelpCheckRequest(t) \/ HelpCheckCurTx(t) \/ HelpRecheckRequest(t)
           \/ HelpClose(t)
  <2>1. CASE HelpCheckRequest(t) \/ HelpCheckCurTx(t)
    BY <2>1 DEF HelpCheckRequest, HelpCheckCurTx, AfterHelp
  <2>2. CASE HelpRecheckRequest(t) \/ HelpClose(t)
    BY <2>2 DEF HelpRecheckRequest, HelpClose, AfterHelp
  <2>3. QED
    BY <1>2, <2>1, <2>2
<1>3. CASE HelpCopyNum(t) \/ HelpCopyEntry(t) \/ HelpSetEra(t)
  BY <1>3 DEF HelpCopyNum, HelpCopyEntry, HelpSetEra
<1>4. CASE ApplyLoadVal(t) \/ ApplyLoadSeq(t) \/ ApplyDcas(t)
  BY <1>4 DEF ApplyLoadVal, ApplyLoadSeq, ApplyDcas, NextEntry
<1>5. CASE (\E w \in Roots \cup InUse(t) : LoadVal(t, w)) \/ LoadSeq(t)
  BY <1>5 DEF LoadVal, LoadSeq, Operate
<1>6. CASE \/ CommitReadOnly(t) \/ CommitCheck(t) \/ CommitOpen(t)
           \/ CommitCas(t) \/ ClearEra(t)
  BY <1>6 DEF CommitReadOnly, CommitCheck, CommitOpen, CommitCas, ClearEra
<1>7. QED
  BY <1>1, <1>2, <1>3, <1>4, <1>5, <1>6 DEF Engine, HelpApply

LEMMA SameProgram ==
  ASSUME NEW u \in Threads, ThreadProgram(u), log'[u] = log[u],
         snap'[u] = snap[u], alog'[u] = alog[u], rlog'[u] = rlog[u],
         known'[u] = known[u]
  PROVE  ThreadProgram(u)'
<1>1. Sees(u)' = Sees(u) /\ Deleted(u)' = Deleted(u)
  BY DEF Sees, Deleted
<1>2. Overlay(snap[u], log[u])' = Overlay(snap[u], log[u])
  BY DEF Overlay
<1>3. Reachable(Overlay(snap[u], log[u]))' = Reachable(Overlay(snap[u], log[u]))
  BY <1>2 DEF Reachable, ClosedIn
<1>4. ClosedIn(snap[u], Sees(u))' <=> ClosedIn(snap[u], Sees(u))
  BY <1>1 DEF ClosedIn
<1>5. QED
  BY <1>1, <1>3, <1>4 DEF ThreadProgram

LEMMA ProgramBegins ==
  ASSUME MemInv, NEW t \in Threads, BeginRecheck(t), myTx[t] = curTx,
         UNCHANGED memVars
  PROVE  ThreadProgram(t)'
<1>1. Core /\ TypeOK
  BY DEF MemInv, Core
<1>2. pc[t] = "recheck" /\ snap'[t] = cmem /\ log' = log
  BY <1>1 DEF BeginRecheck, Step, TypeOK
<1>3. /\ alog'[t] = {} /\ rlog'[t] = <<>> /\ known'[t] = {}
      /\ log'[t] = <<>>
  BY <1>2 DEF memVars, MemInv, BeginState, Beginning
<1>4. Sees(t)' = Reachable(cmem) /\ Deleted(t)' = {}
  BY <1>2, <1>3 DEF Sees, Deleted
<1>5. ClosedIn(snap'[t], Reachable(cmem))
  BY <1>2, ReachableClosed
<1>6. QED
  BY <1>3, <1>4, <1>5 DEF ThreadProgram

LEMMA ProgramStores ==
  ASSUME MemInv, NEW t \in Threads, NEW w \in Roots \cup InUse(t),
         NEW v \in Pointers(t), MStore(t, w, v), UNCHANGED memVars
  PROVE  ThreadProgram(t)'
<1>1. Core /\ TypeOK /\ MemTypeOK
  BY DEF MemInv, Core
<1>2. /\ pc[t] = "body" /\ snap' = snap
      /\ log'[t] = AddOrReplace(log[t], w, v)
      /\ Deleted(t) \cap Reachable(Overlay(snap[t], AddOrReplace(log[t], w, v))) = {}
  BY <1>1 DEF MStore, Store, Operate, Step, TypeOK
<1>3. ThreadProgram(t)
  BY <1>2 DEF MemInv, ProgramState, Attempting, ActiveLabels
<1>4. /\ alog' = alog /\ rlog' = rlog /\ known' = known
      /\ Sees(t)' = Sees(t) /\ Deleted(t)' = Deleted(t)
  BY <1>2 DEF memVars, Sees, Deleted
<1>5. w \in Words /\ v \in Vals
  BY <1>1, ProgramTypes
<1>6. w \in Roots \cup Sees(t) /\ v \in Sees(t) \cup {Null}
  BY <1>3 DEF ThreadProgram, Pointers, InUse
<1>7. ASSUME NEW i \in DOMAIN log'[t]
      PROVE  /\ log'[t][i].addr \in Roots \cup Sees(t)
             /\ log'[t][i].val \in Sees(t) \cup {Null}
  <2>1. log[t] \in LogType
    BY <1>1 DEF TypeOK, LogType
  <2>2. \/ i \in DOMAIN log[t] /\ log'[t][i] = log[t][i]
        \/ log'[t][i] = [addr |-> w, val |-> v]
    BY <1>2, <1>5, <2>1, AddedEntries
  <2>3. QED
    BY <1>3, <1>6, <2>2 DEF ThreadProgram
<1>8. Reachable(Overlay(snap[t], log[t]))'
        = Reachable(Overlay(snap[t], AddOrReplace(log[t], w, v)))
  BY <1>2
<1>9. ClosedIn(snap[t], Sees(t))'
  BY <1>2, <1>3, <1>4 DEF ThreadProgram
<1>10. QED
  BY <1>2, <1>3, <1>4, <1>7, <1>8, <1>9 DEF ThreadProgram

LEMMA ProgramLoads ==
  ASSUME MemInv, NEW t \in Threads, MLoadReturn(t)
  PROVE  ThreadProgram(t)'
<1>1. Core /\ TypeOK /\ MemTypeOK
  BY DEF MemInv, Core
<1>2. /\ pc[t] = "loaded" /\ snap' = snap /\ log' = log
      /\ alog' = alog /\ rlog' = rlog
      /\ known'[t] = known[t] \cup ({lval[t]} \cap Objs)
  BY <1>1 DEF MLoadReturn, LoadReturn, Step, TypeOK, MemTypeOK
<1>3. ThreadProgram(t)
  BY <1>2 DEF MemInv, ProgramState, Attempting, ActiveLabels, LoadLabels
<1>4. Sees(t)' = Sees(t) /\ Deleted(t)' = Deleted(t)
  BY <1>2 DEF Sees, Deleted
<1>5. known'[t] \subseteq Sees(t)
  BY <1>2, <1>3, LoadedSeen DEF ThreadProgram
<1>6. Deleted(t) \subseteq known'[t]
  BY <1>2, <1>3 DEF ThreadProgram
<1>7. QED
  BY <1>2, <1>3, <1>4, <1>5, <1>6 DEF ThreadProgram

LEMMA ProgramDeletes ==
  ASSUME MemInv, NEW t \in Threads, NEW o \in Objs, TmDelete(t, o)
  PROVE  ThreadProgram(t)'
<1>1. Core /\ TypeOK /\ MemTypeOK
  BY DEF MemInv, Core
<1>2. /\ pc[t] = "body" /\ snap' = snap /\ log' = log
      /\ alog' = alog /\ known' = known
      /\ rlog'[t] = Append(rlog[t], o)
      /\ o \in InUse(t) \ Reachable(Overlay(snap[t], log[t]))
  BY <1>1 DEF TmDelete, Delete, Operate, Step, TypeOK, MemTypeOK
<1>3. ThreadProgram(t)
  BY <1>2 DEF MemInv, ProgramState, Attempting, ActiveLabels
<1>4. Sees(t)' = Sees(t)
  BY <1>2 DEF Sees
<1>5. Deleted(t)' = Deleted(t) \cup {o}
  <2>1. rlog[t] \in Seq(Objs)
    BY <1>1 DEF MemTypeOK
  <2>2. Elements(Append(rlog[t], o)) = Elements(rlog[t]) \cup {o}
    BY <2>1, AppendElements
  <2>3. QED
    BY <1>2, <2>2 DEF Deleted, Elements
<1>6. o \in known[t]
  BY <1>2 DEF InUse
<1>7. QED
  BY <1>2, <1>3, <1>4, <1>5, <1>6 DEF ThreadProgram

LEMMA ProgramAllocates ==
  ASSUME MemInv, NEW t \in Threads, NEW o \in Objs, NEW v \in Pointers(t),
         TmNew(t, o, v)
  PROVE  ThreadProgram(t)'
<1>1. Core /\ TypeOK /\ MemTypeOK
  BY DEF MemInv, Core
<1>2. /\ log' = log /\ rlog' = rlog
      /\ snap'[t] = [snap[t] EXCEPT ![o] = v]
      /\ v \in Sees(t) \cup {Null} /\ o \notin Sees(t)
      /\ Sees(t)' = Sees(t) \cup {o}
      /\ Attempting(t)
  BY NewFacts
<1>3. ThreadProgram(t)
  BY <1>2 DEF MemInv, ProgramState
<1>4. known'[t] = known[t] \cup {o}
  BY <1>1 DEF TmNew, MemTypeOK
<1>5. snap[t] \in [Words -> Vals] /\ o \in Words /\ v \in Vals
  BY <1>1, MemAssumption, ProgramTypes DEF TypeOK
<1>6. Deleted(t)' = Deleted(t)
  BY <1>2 DEF Deleted
<1>7. known'[t] \subseteq Sees(t)' /\ Deleted(t)' \subseteq known'[t]
  BY <1>2, <1>3, <1>4, <1>6 DEF ThreadProgram
<1>8. ClosedIn(snap'[t], Sees(t)')
  <2> SUFFICES ASSUME NEW w \in Roots \cup Sees(t)', snap'[t][w] \in Objs
               PROVE  snap'[t][w] \in Sees(t)'
    BY DEF ClosedIn
  <2>1. CASE w = o
    <3>1. snap'[t][w] = v
      BY <1>2, <1>5, <2>1
    <3>2. QED
      BY <1>2, <3>1, MemAssumption
  <2>2. CASE w # o
    <3>1. snap'[t][w] = snap[t][w]
      BY <1>2, <1>5, <2>2
    <3>2. w \in Roots \cup Sees(t)
      BY <1>2, <2>2
    <3>3. QED
      BY <1>2, <1>3, <3>1, <3>2 DEF ThreadProgram, ClosedIn
  <2>3. QED
    BY <2>1, <2>2
<1>9. \A i \in DOMAIN log'[t] : /\ log'[t][i].addr \in Roots \cup Sees(t)'
                                /\ log'[t][i].val \in Sees(t)' \cup {Null}
  BY <1>2, <1>3 DEF ThreadProgram
<1>10. Reachable(Overlay(snap'[t], log'[t])) = Reachable(Overlay(snap[t], log[t]))
  <2> DEFINE f == Overlay(snap[t], log[t])
             g == Overlay(snap'[t], log[t])
  <2>1. o \notin Reachable(f) /\ Reachable(f) \subseteq Sees(t)
    BY <1>1, <1>2, <1>3, OverlayClosed
  <2>2. \A w \in Words : w # o => g[w] = f[w]
    BY <1>2, <1>5 DEF Overlay, LookupAddr
  <2>3. Roots \subseteq Words /\ Objs \subseteq Words /\ o \notin Roots
    BY MemAssumption
  <2>4. ClosedIn(f, Reachable(f)) /\ Reachable(f) \subseteq Objs
    BY ReachableClosed
  <2> HIDE DEF f, g
  <2>5. \A w \in Roots \cup Reachable(f) : f[w] = g[w]
    BY <2>1, <2>2, <2>3, <2>4
  <2>6. Reachable(g) = Reachable(f)
    BY <2>4, <2>5, ReachableAgree
  <2>7. QED
    BY <1>2, <2>6 DEF f, g
<1>11. QED
  BY <1>3, <1>6, <1>7, <1>8, <1>9, <1>10 DEF ThreadProgram

LEMMA ProgramStep ==
  ASSUME MemInv, [MNext]_allVars
  PROVE  ProgramState'
<1>1. Core /\ MemTypeOK /\ TypeOK /\ ProgramState
  BY DEF MemInv, Core
<1>2. ASSUME NEW u \in Threads, SameThread(u), SameLists(u), Attempting(u)'
      PROVE  ThreadProgram(u)'
  <2>1. Attempting(u)
    BY <1>2, SameView
  <2>2. QED
    BY <1>1, <1>2, <2>1, SameProgram DEF ProgramState, SameThread, SameLists
<1>3. ASSUME NEW t \in Threads, MThreadNext(t), Attempting(t)'
      PROVE  ThreadProgram(t)'
  <2>1. CASE Engine(t) /\ UNCHANGED memVars
    <3>1. CASE BeginRecheck(t) /\ myTx[t] = curTx
      BY <2>1, <3>1, ProgramBegins
    <3>2. ASSUME NEW w \in Roots \cup InUse(t), NEW v \in Pointers(t),
                 MStore(t, w, v)
          PROVE  ThreadProgram(t)'
      BY <2>1, <3>2, ProgramStores
    <3>3. CASE Attempting(t) /\ log' = log /\ snap' = snap
      <4>1. ThreadProgram(t)
        BY <1>1, <3>3 DEF ProgramState
      <4>2. alog' = alog /\ rlog' = rlog /\ known' = known
        BY <2>1 DEF memVars
      <4>3. QED
        BY <3>3, <4>1, <4>2, SameProgram
    <3>4. QED
      BY <1>1, <1>3, <2>1, <3>1, <3>2, <3>3, EngineAttempts
  <2>2. CASE Abort(t)
    BY <1>3, <2>2, AbortFacts
  <2>3. CASE MLoadReturn(t)
    BY <2>3, ProgramLoads
  <2>4. ASSUME NEW o \in Objs, TmDelete(t, o)
        PROVE  ThreadProgram(t)'
    BY <2>4, ProgramDeletes
  <2>5. ASSUME NEW o \in Objs, NEW v \in Pointers(t), TmNew(t, o, v)
        PROVE  ThreadProgram(t)'
    BY <2>5, ProgramAllocates
  <2>6. CASE RetireAll(t) \/ CleanKeepsCurrent(t) \/ CleanScan(t) \/ CleanFree(t)
    <3>1. pc'[t] = "retire"
      <4>1. CASE RetireAll(t) \/ CleanFree(t)
        BY <4>1, RetireFacts, FreeFacts DEF vars
      <4>2. CASE CleanKeepsCurrent(t) \/ CleanScan(t)
        BY <4>2, CandidateRetired DEF CleanKeepsCurrent, CleanScan, vars
      <4>3. QED
        BY <2>6, <4>1, <4>2
    <3>2. QED
      BY <1>3, <3>1 DEF Attempting, ActiveLabels, LoadLabels
  <2>7. CASE CleanDone(t)
    <3>1. pc'[t] = "clear"
      BY <1>1, <2>7 DEF CleanDone, CommitRetire, Step, TypeOK
    <3>2. QED
      BY <1>3, <3>1 DEF Attempting, ActiveLabels, LoadLabels
  <2>8. QED
    BY <1>3, <2>1, <2>2, <2>3, <2>4, <2>5, <2>6, <2>7 DEF MThreadNext, Abort
<1>4. ASSUME NEW t \in Threads, MThreadNext(t)
      PROVE  ProgramState'
  BY <1>1, <1>2, <1>3, <1>4, OthersKeepLists DEF ProgramState
<1>5. CASE UNCHANGED <<vars, memVars>>
  BY <1>2, <1>5 DEF vars, memVars, SameThread, SameLists, ProgramState
<1>6. CASE \E t \in Threads : MThreadNext(t)
  BY <1>4, <1>6
<1>7. QED
  BY <1>5, <1>6 DEF MNext, allVars, Finished

\* A program loads from the roots and from what it has pointers to.
LEMMA LoadsSeen ==
  ASSUME MemInv, NEW t \in Threads, MThreadNext(t), NEW u \in Threads,
         NEW w \in Words, LoadVal(u, w)
  PROVE  w \in Roots \cup Sees(u)
<1>1. Core /\ MemTypeOK /\ TypeOK
  BY DEF MemInv, Core
<1>2. pc[u] = "body" /\ pc'[u] = "loadSeq" /\ addr'[u] = w
  BY <1>1 DEF LoadVal, Operate, Step, TypeOK
<1>3. u = t
  BY <1>1, <1>2, OthersKeepLists DEF SameThread
<1>4. CASE Engine(t)
  <2>1. ~BeginTx(t) /\ ~HelpApply(t) /\ ~LoadSeq(t) /\ ~CommitCas(t) /\ ~ClearEra(t)
    BY <1>2, <1>3 DEF BeginTx, HelpApply, BeginLoadCurTx, BeginReset,
       BeginSetEra, BeginRecheck, HelpCheckRequest, HelpCopyNum, HelpCopyEntry,
       HelpSetEra, HelpCheckCurTx, HelpRecheckRequest, ApplyLoadVal,
       ApplyLoadSeq, ApplyDcas, NextEntry, HelpClose, LoadSeq, CommitCas,
       ClearEra, Step
  <2>2. ~CommitReadOnly(t) /\ ~CommitCheck(t) /\ ~CommitOpen(t)
    BY <1>1, <1>2, <1>3 DEF CommitReadOnly, CommitCheck, CommitOpen, Step, TypeOK
  <2>3. \A x \in Roots \cup InUse(t) : \A v \in Pointers(t) : ~MStore(t, x, v)
    BY <1>1, <1>2, <1>3 DEF MStore, Store, Operate, Step, TypeOK
  <2>4. PICK x \in Roots \cup InUse(t) : LoadVal(t, x)
    BY <1>4, <2>1, <2>2, <2>3 DEF Engine
  <2>5. w = x
    BY <1>1, <1>2, <1>3, <2>4 DEF LoadVal, TypeOK
  <2>6. InUse(t) \subseteq Sees(t)
    <3>1. Attempting(t)
      BY <1>2, <1>3 DEF Attempting, ActiveLabels
    <3>2. QED
      BY <3>1 DEF MemInv, ProgramState, ThreadProgram, InUse
  <2>7. QED
    BY <1>3, <2>5, <2>6
<1>5. CASE ~Engine(t)
  <2>1. ~CleanKeepsCurrent(t) /\ ~CleanScan(t) /\ ~CleanFree(t)
    BY <1>2, <1>3, CandidateRetired DEF CleanKeepsCurrent, CleanScan, CleanFree
  <2>2. ~RetireAll(t) /\ ~CleanDone(t)
    BY <1>2, <1>3 DEF RetireAll, CleanDone, CommitRetire, Step
  <2>3. ~Abort(t) /\ ~MLoadReturn(t)
    BY <1>2, <1>3, AbortFacts DEF MLoadReturn, LoadReturn, Step
  <2>4. \A o \in Objs : ~TmDelete(t, o) /\ \A v \in Pointers(t) : ~TmNew(t, o, v)
    BY <1>1, <1>2, <1>3 DEF TmDelete, Delete, TmNew, Operate, Step, TypeOK
  <2>5. FALSE
    BY <1>5, <2>1, <2>2, <2>3, <2>4 DEF MThreadNext, Abort
  <2>6. QED
    BY <2>5
<1>6. QED
  BY <1>4, <1>5

\* What an attempt sees changes when it allocates only.
LEMMA SeesKept ==
  ASSUME MemInv, NEW t \in Threads, MThreadNext(t), ThreadNext(t),
         \A o \in Objs : \A v \in Pointers(t) : ~TmNew(t, o, v),
         Attempting(t), Attempting(t)'
  PROVE  Sees(t)' = Sees(t)
<1>1. Core /\ MemTypeOK /\ TypeOK
  BY DEF MemInv, Core
<1>2. AttemptStep(t)
  <2>1. ~BeginRecheck(t)
    BY DEF BeginRecheck, Step, Attempting, ActiveLabels, LoadLabels
  <2>2. QED
    BY <1>1, <2>1, AttemptSteps
<1>3. snap' = snap
  BY <1>1, <1>2, AttemptFrame
<1>4. alog'[t] = alog[t]
  <2>1. ~Abort(t)
    BY AbortFacts
  <2>2. ~CleanDone(t)
    BY DEF CleanDone, CommitRetire, Step, Attempting, ActiveLabels, LoadLabels
  <2>3. QED
    BY <2>1, <2>2 DEF MThreadNext, Abort, memVars, MLoadReturn, TmDelete,
       RetireAll, CleanKeepsCurrent, CleanScan, CleanFree
<1>5. QED
  BY <1>3, <1>4 DEF Sees

\* tmNew writes a word that no program, and nobody who applies, can get to.
LEMMA NewSeen ==
  ASSUME MemInv, NEW t \in Threads, NEW o \in Objs, NEW v \in Pointers(t),
         TmNew(t, o, v), NEW u \in Threads, Attempting(u)'
  PROVE  ThreadRead(u, Roots \cup Sees(u))'
<1>1. Core /\ MemTypeOK /\ TypeOK /\ v \in Vals
  BY ProgramTypes DEF MemInv, Core
<1>2. /\ UNCHANGED <<curTx, log, myTx, addr, lval, pc>>
      /\ o \notin allocated
      /\ snap'[t] = [snap[t] EXCEPT ![o] = v]
      /\ pc[t] = "body"
      /\ Sees(t)' = Sees(t) \cup {o}
      /\ \A x \in Threads : x # t => SameThread(x) /\ SameLists(x)
  BY NewFacts
<1>3. /\ o \in Words /\ Roots \subseteq Words /\ o \notin Roots
      /\ mem' = [mem EXCEPT ![o] = [val |-> v, seq |-> 1]]
      /\ cmem' = [cmem EXCEPT ![o] = v]
  BY MemAssumption DEF TmNew
<1>4. Attempting(u)
  BY <1>2 DEF Attempting
<1>5. ThreadRead(u, Roots \cup Sees(u))
  BY <1>4 DEF MemInv, SeenState
<1>6. Sees(u) \subseteq Words /\ o \notin Sees(u)
  <2>1. Sees(u) \subseteq allocated
    BY <1>4, Phases DEF MemInv, TouchState
  <2>2. allocated \subseteq Words
    BY <1>1, MemAssumption DEF MemTypeOK
  <2>3. QED
    BY <1>2, <2>1, <2>2
<1>7. \A w \in Words : w # o => mem'[w] = mem[w] /\ cmem'[w] = cmem[w]
  BY <1>1, <1>3 DEF TypeOK
<1> DEFINE W == Roots \cup Sees(u)
<1>8. W \subseteq Words /\ o \notin W
  BY <1>3, <1>6
<1> HIDE DEF W
<1>9. \A w \in W : snap'[u][w] = snap[u][w]
  <2>1. CASE u # t
    BY <1>2, <2>1 DEF SameThread
  <2>2. CASE u = t
    BY <1>1, <1>2, <1>8, <2>2 DEF TypeOK
  <2>3. QED
    BY <2>1, <2>2

<1>10. /\ \A w \in W : mem[w].seq <= myTx[u].seq => mem[w].val = snap[u][w]
       /\ myTx[u] = curTx => \A w \in W : snap[u][w] = cmem[w]
       /\ pc[u] \in LoadLabels => addr[u] \in W
       /\ pc[u] = "loadSeq" /\ ~TooNew(u) => lval[u] = mem[addr[u]].val
  BY <1>5 DEF ThreadRead, W
<1>11. pc[u] = "loadSeq" => (TooNew(u)' <=> TooNew(u)) /\ addr[u] \in W
  BY <1>2, <1>7, <1>8, <1>10 DEF TooNew, LoadLabels
<1>12. pc'[u] = "loadSeq" /\ ~TooNew(u)' => lval'[u] = mem'[addr'[u]].val
  BY <1>2, <1>7, <1>8, <1>10, <1>11
<1>13. \A w \in W : /\ mem'[w].seq <= myTx'[u].seq => mem'[w].val = snap'[u][w]
                    /\ myTx'[u] = curTx' => snap'[u][w] = cmem'[w]
  BY <1>2, <1>7, <1>8, <1>9, <1>10
<1>14. CASE u # t
  <2>1. (Roots \cup Sees(u))' = W
    BY <1>2, <1>14, SameView DEF W
  <2>2. pc'[u] \in LoadLabels => addr'[u] \in W
    BY <1>2, <1>10
  <2>3. QED
    BY <1>12, <1>13, <2>1, <2>2 DEF ThreadRead
<1>15. CASE u = t
  <2>1. (Roots \cup Sees(u))' = W \cup {o}
    BY <1>2, <1>15 DEF W
  <2>2. mem'[o].val = v /\ cmem'[o] = v
    BY <1>1, <1>3 DEF TypeOK
  <2>3. snap'[u][o] = v
    BY <1>1, <1>2, <1>3, <1>15 DEF TypeOK
  <2>4. \A w \in W \cup {o} :
          /\ mem'[w].seq <= myTx'[u].seq => mem'[w].val = snap'[u][w]
          /\ myTx'[u] = curTx' => snap'[u][w] = cmem'[w]
    <3> SUFFICES ASSUME NEW w \in W \cup {o}
                 PROVE  /\ mem'[w].seq <= myTx'[u].seq => mem'[w].val = snap'[u][w]
                        /\ myTx'[u] = curTx' => snap'[u][w] = cmem'[w]
      OBVIOUS
    <3>1. CASE w \in W
      BY <1>13, <3>1
    <3>2. CASE w = o
      BY <2>2, <2>3, <3>2
    <3>3. QED
      BY <3>1, <3>2
  <2>5. pc'[u] \notin LoadLabels
    BY <1>2, <1>15 DEF LoadLabels
  <2>6. QED
    BY <1>12, <2>1, <2>4, <2>5 DEF ThreadRead
<1>16. QED
  BY <1>14, <1>15

LEMMA SeenStep ==
  ASSUME MemInv, [MNext]_allVars
  PROVE  SeenState'
<1>1. Core /\ MemTypeOK /\ TypeOK /\ SeenState
  BY DEF MemInv, Core
<1>2. \A u \in Threads : Roots \cup Sees(u) \subseteq Words
  BY <1>1, ReachableClosed, MemAssumption DEF Sees, MemTypeOK
<1>3. ASSUME [Next]_vars, NEW u \in Threads, Attempting(u), Attempting(u)',
             Sees(u)' = Sees(u),
             \A w \in Words : LoadVal(u, w) => w \in Roots \cup Sees(u)
      PROVE  ThreadRead(u, Roots \cup Sees(u))'
  <2>1. PICK W \in SUBSET Words : W = Roots \cup Sees(u)
    BY <1>2
  <2>2. ThreadRead(u, W)
    BY <1>1, <1>3, <2>1 DEF SeenState
  <2>3. ThreadRead(u, W)'
    BY <1>1, <1>3, <2>1, <2>2, ReadStep
  <2>4. (Roots \cup Sees(u))' = W
    BY <1>3, <2>1
  <2>5. QED
    BY <2>3, <2>4 DEF ThreadRead
<1>4. ASSUME NEW t \in Threads, MThreadNext(t), ThreadNext(t),
             \A o \in Objs : \A v \in Pointers(t) : ~TmNew(t, o, v)
      PROVE  SeenState'
  <2> SUFFICES ASSUME NEW u \in Threads, Attempting(u)'
               PROVE  ThreadRead(u, Roots \cup Sees(u))'
    BY DEF SeenState
  <2>1. [Next]_vars
    BY <1>4 DEF Next
  <2>2. CASE Attempting(u)
    <3>1. Sees(u)' = Sees(u)
      <4>1. CASE u = t
        BY <1>4, <2>2, <4>1, SeesKept
      <4>2. CASE u # t
        BY <1>1, <1>4, <4>2, OthersKeepLists, SameView
      <4>3. QED
        BY <4>1, <4>2
    <3>2. \A w \in Words : LoadVal(u, w) => w \in Roots \cup Sees(u)
      BY <1>4, LoadsSeen
    <3>3. QED
      BY <1>3, <2>1, <2>2, <3>1, <3>2
  <2>3. CASE ~Attempting(u)
    <3>1. u = t
      BY <1>1, <1>4, <2>3, OthersKeepLists, SameView
    <3>2. ~AttemptStep(t)
      BY <1>1, <2>3, <3>1, AttemptFrame
    <3>3. BeginRecheck(t) /\ myTx[t] = curTx
      BY <1>1, <1>4, <3>1, <3>2, AttemptSteps
    <3>4. ThreadRead(t, Words)'
      BY <1>1, <3>3, ReadBegins
    <3>5. (Roots \cup Sees(u))' \subseteq Words
      <4>1. alog'[t] \subseteq Objs
        <5>1. pc[t] = "recheck" /\ pc'[t] = "body"
          BY <1>1, <3>3 DEF BeginRecheck, Step, TypeOK
        <5>2. ~Abort(t) /\ ~CleanDone(t)
          BY <5>1, AbortFacts DEF CleanDone, CommitRetire, Step
        <5>3. alog' = alog
          BY <1>4, <5>2 DEF MThreadNext, Abort, memVars, MLoadReturn, TmDelete,
             RetireAll, CleanKeepsCurrent, CleanScan, CleanFree
        <5>4. QED
          BY <1>1, <5>3 DEF MemTypeOK
      <4>2. QED
        BY <3>1, <4>1, ReachableClosed, MemAssumption DEF Sees
    <3>6. pc'[t] \notin LoadLabels
      BY <1>1, <3>3 DEF BeginRecheck, Step, LoadLabels, TypeOK
    <3>7. QED
      BY <3>1, <3>4, <3>5, <3>6 DEF ThreadRead
  <2>4. QED
    BY <2>2, <2>3
<1>5. ASSUME UNCHANGED vars, alog' = alog
      PROVE  SeenState'
  <2> SUFFICES ASSUME NEW u \in Threads, Attempting(u)'
               PROVE  ThreadRead(u, Roots \cup Sees(u))'
    BY DEF SeenState
  <2>1. Attempting(u) /\ Sees(u)' = Sees(u)
    BY <1>5 DEF vars, Attempting, Sees
  <2>2. \A w \in Words : ~LoadVal(u, w)
    BY <1>1, <1>5, <2>1 DEF LoadVal, Operate, Step, vars, TypeOK
  <2>3. QED
    BY <1>3, <1>5, <2>1, <2>2
<1>6. ASSUME NEW t \in Threads, MThreadNext(t)
      PROVE  SeenState'
  <2>1. CASE \E o \in Objs : \E v \in Pointers(t) : TmNew(t, o, v)
    BY <2>1, NewSeen DEF SeenState
  <2>2. CASE /\ ThreadNext(t)
             /\ \A o \in Objs : \A v \in Pointers(t) : ~TmNew(t, o, v)
    BY <1>4, <1>6, <2>2
  <2>3. CASE RetireAll(t) \/ CleanKeepsCurrent(t) \/ CleanScan(t) \/ CleanFree(t)
    BY <1>5, <2>3 DEF RetireAll, CleanKeepsCurrent, CleanScan, CleanFree
  <2>4. QED
    <3>1. CASE Engine(t)
      BY <1>1, <2>1, <2>2, <3>1, ProgramTypes
         DEF Engine, MStore, ThreadNext, Body, CommitTx
    <3>2. CASE Abort(t) \/ MLoadReturn(t) \/ CleanDone(t) \/ \E o \in Objs : TmDelete(t, o)
      BY <2>1, <2>2, <3>2
         DEF Abort, MLoadReturn, TmDelete, CleanDone, ThreadNext, Body, CommitTx
    <3>3. QED
      BY <1>6, <2>1, <2>3, <3>1, <3>2 DEF MThreadNext, Abort
<1>7. CASE UNCHANGED <<vars, memVars>>
  BY <1>5, <1>7 DEF memVars
<1>8. CASE \E t \in Threads : MThreadNext(t)
  BY <1>6, <1>8
<1>9. QED
  BY <1>7, <1>8 DEF MNext, allVars, Finished

LEMMA MemOpacityStep ==
  ASSUME MemInv, [MNext]_allVars
  PROVE  Opacity'
<1>1. Core /\ MemTypeOK /\ TypeOK /\ Opacity /\ SeenState
  BY DEF MemInv, Core
<1>2. CASE [Next]_vars
  <2>1. \A u \in Threads : Roots \cup Sees(u) \in SUBSET Words
    BY <1>1, ReachableClosed, MemAssumption DEF Sees, MemTypeOK
  <2>2. PICK W : W = [u \in Threads |-> Roots \cup Sees(u)]
    OBVIOUS
  <2>3. /\ W \in [Threads -> SUBSET Words]
        /\ \A u \in Threads : Attempting(u) => ThreadRead(u, W[u])
    BY <1>1, <2>1, <2>2 DEF SeenState
  <2>4. QED
    BY <1>1, <1>2, <2>3, OpacityStep
<1>3. ASSUME NEW t \in Threads, NEW o \in Objs, NEW v \in Pointers(t),
             TmNew(t, o, v)
      PROVE  Opacity'
  <2>1. /\ UNCHANGED <<log, addr, lval, pc>>
        /\ pc[t] = "body"
        /\ \A u \in Threads : u # t => SameThread(u) /\ SameLists(u)
    BY <1>3, NewFacts
  <2>2. \A u \in Threads : pc[u] = "loaded" => snap'[u] = snap[u]
    BY <2>1 DEF SameThread
  <2>3. QED
    BY <1>1, <2>1, <2>2 DEF Opacity
<1>4. ASSUME NEW t \in Threads, RetireAll(t) \/ CleanFree(t)
      PROVE  [Next]_vars
  BY <1>4 DEF RetireAll, CleanFree
<1>5. QED
  BY <1>2, <1>3, <1>4, StepKinds, AbortFacts, CommitFacts

LEMMA CoreStep ==
  ASSUME MemInv, [MNext]_allVars
  PROVE  Core'
<1>1. Core /\ MemTypeOK /\ TouchState /\ EraState
  BY DEF MemInv
<1>2. CASE [Next]_vars
  BY <1>1, <1>2, NextCore
<1>3. ASSUME NEW t \in Threads, NEW o \in Objs, NEW v \in Pointers(t),
             TmNew(t, o, v)
      PROVE  Core'
  <2>1. v \in Vals
    BY <1>1, ProgramTypes
  <2>2. QED
    BY <1>1, <1>3, <2>1, NewCore
<1>4. ASSUME NEW t \in Threads, RetireAll(t) \/ CleanFree(t)
      PROVE  [Next]_vars
  BY <1>4 DEF RetireAll, CleanFree
<1>5. QED
  BY <1>2, <1>3, <1>4, StepKinds, AbortFacts, CommitFacts

LEMMA MemTypeStep ==
  ASSUME MemInv, [MNext]_allVars
  PROVE  MemTypeOK'
<1>1. MemTypeOK /\ TypeOK
  BY DEF MemInv, Core
<1>2. TypeOK'
  BY CoreStep DEF Core
<1>3. curTx.seq \in Nat
  BY <1>1 DEF TypeOK, TransType
<1> DEFINE Lists ==
      /\ allocated \subseteq Objs
      /\ newEra \in [Objs -> Nat]
      /\ delEra \in [Objs -> Nat]
      /\ alog \in [Threads -> SUBSET Objs]
      /\ rlog \in [Threads -> Seq(Objs)]
      /\ retired \in [Threads -> Seq(Objs)]
      /\ cleanAt \in [Threads -> [iret : Nat, it : 0 .. N]]
      /\ curEra \in [Threads -> Nat]
      /\ known \in [Threads -> SUBSET Objs]
<1>4. Lists /\ (MemTypeOK' <=> TypeOK' /\ Lists')
  BY <1>1 DEF MemTypeOK
<1>5. ASSUME UNCHANGED memVars
      PROVE  Lists'
  BY <1>4, <1>5 DEF memVars
<1>6. ASSUME NEW t \in Threads, DeleteAllocs(t)
      PROVE  Lists'
  <2>1. /\ allocated' \subseteq Objs
        /\ UNCHANGED <<newEra, delEra, retired, cleanAt, curEra>>
    BY <1>4, <1>6 DEF DeleteAllocs
  <2>2. /\ alog' \in [Threads -> SUBSET Objs]
        /\ rlog' \in [Threads -> Seq(Objs)]
        /\ known' \in [Threads -> SUBSET Objs]
    BY <1>4, <1>6 DEF DeleteAllocs
  <2>3. QED
    BY <1>4, <2>1, <2>2
<1>7. ASSUME NEW t \in Threads, MLoadReturn(t)
      PROVE  Lists'
  BY <1>4, <1>7 DEF MLoadReturn
<1>8. ASSUME NEW t \in Threads, NEW o \in Objs, TmDelete(t, o)
      PROVE  Lists'
  <2>1. rlog' = [rlog EXCEPT ![t] = Append(rlog[t], o)]
    BY <1>8 DEF TmDelete
  <2>2. Append(rlog[t], o) \in Seq(Objs)
    BY <1>4, AppendElements
  <2>3. rlog' \in [Threads -> Seq(Objs)]
    BY <1>4, <2>1, <2>2
  <2>4. QED
    BY <1>4, <1>8, <2>3 DEF TmDelete
<1>9. ASSUME NEW t \in Threads, NEW o \in Objs, NEW v \in Pointers(t),
             TmNew(t, o, v)
      PROVE  Lists'
  BY <1>3, <1>4, <1>9 DEF TmNew
<1>10. ASSUME NEW t \in Threads, RetireAll(t)
       PROVE  Lists'
  <2>1. retired' = [retired EXCEPT ![t] = retired[t] \o rlog[t]]
    BY <1>10 DEF RetireAll
  <2>2. retired[t] \o rlog[t] \in Seq(Objs)
    BY <1>4, ConcatElements
  <2>3. retired' \in [Threads -> Seq(Objs)]
    BY <1>4, <2>1, <2>2
  <2>4. rlog' \in [Threads -> Seq(Objs)]
    BY <1>4, <1>10 DEF RetireAll
  <2>5. cleanAt' \in [Threads -> [iret : Nat, it : 0 .. N]]
    <3>1. FirstObject \in [iret : Nat, it : 0 .. N]
      BY DEF FirstObject
    <3>2. QED
      BY <1>4, <1>10, <3>1 DEF RetireAll
  <2>6. /\ delEra' \in [Objs -> Nat] /\ curEra' \in [Threads -> Nat]
        /\ UNCHANGED <<allocated, newEra, alog, known>>
    BY <1>3, <1>4, <1>10 DEF RetireAll
  <2>7. QED
    BY <1>4, <2>3, <2>4, <2>5, <2>6
<1>11. ASSUME NEW t \in Threads, Cleaning(t), NextObject(t)
       PROVE  cleanAt' \in [Threads -> [iret : Nat, it : 0 .. N]]
  BY <1>4, <1>11 DEF NextObject
<1>12. ASSUME NEW t \in Threads, CleanKeepsCurrent(t)
       PROVE  Lists'
  BY <1>4, <1>11, <1>12 DEF CleanKeepsCurrent
<1>13. ASSUME NEW t \in Threads, CleanScan(t)
       PROVE  Lists'
  <2>1. CASE NextObject(t)
    BY <1>4, <1>11, <1>13, <2>1 DEF CleanScan
  <2>2. CASE cleanAt' = [cleanAt EXCEPT ![t].it = @ + 1]
    <3>1. cleanAt[t].it + 1 \in 0 .. N
      <4>1. cleanAt[t] \in [iret : Nat, it : 0 .. N] /\ cleanAt[t].it < N
        BY <1>4, <1>13 DEF CleanScan
      <4>2. QED
        BY <4>1
    <3>2. cleanAt' \in [Threads -> [iret : Nat, it : 0 .. N]]
      <4>1. PICK c : c = [cleanAt[t] EXCEPT !.it = cleanAt[t].it + 1]
        OBVIOUS
      <4>2. c \in [iret : Nat, it : 0 .. N]
        <5>1. cleanAt[t] \in [iret : Nat, it : 0 .. N]
          BY <1>4
        <5>2. QED
          BY <3>1, <4>1, <5>1
      <4>3. cleanAt' = [cleanAt EXCEPT ![t] = c]
        BY <2>2, <4>1
      <4>4. QED
        BY <1>4, <4>2, <4>3
    <3>3. QED
      BY <1>4, <1>13, <3>2 DEF CleanScan
  <2>3. QED
    BY <1>13, <2>1, <2>2 DEF CleanScan
<1>14. ASSUME NEW t \in Threads, CleanFree(t)
       PROVE  Lists'
  <2>1. retired'[t] \in Seq(Objs) /\ allocated' \subseteq allocated
    BY <1>14, FreeFacts
  <2>2. retired' \in [Threads -> Seq(Objs)]
    <3>1. PICK s : retired' = [retired EXCEPT ![t] = s]
      BY <1>14 DEF CleanFree
    <3>2. s \in Seq(Objs)
      BY <1>4, <2>1, <3>1
    <3>3. QED
      BY <1>4, <3>1, <3>2
  <2>3. cleanAt' \in [Threads -> [iret : Nat, it : 0 .. N]]
    <3>1. cleanAt' = [cleanAt EXCEPT ![t].it = 0]
      BY <1>14 DEF CleanFree
    <3>2. 0 \in 0 .. N
      BY OneFileLFAssumption
    <3>3. PICK c : c = [cleanAt[t] EXCEPT !.it = 0]
      OBVIOUS
    <3>4. c \in [iret : Nat, it : 0 .. N]
      <4>1. cleanAt[t] \in [iret : Nat, it : 0 .. N]
        BY <1>4
      <4>2. QED
        BY <3>2, <3>3, <4>1
    <3>5. cleanAt' = [cleanAt EXCEPT ![t] = c]
      BY <3>1, <3>3
    <3>6. QED
      BY <1>4, <3>4, <3>5
  <2>4. UNCHANGED <<newEra, delEra, alog, rlog, curEra, known>>
    BY <1>14 DEF CleanFree
  <2>5. QED
    BY <1>4, <2>1, <2>2, <2>3, <2>4
<1>15. ASSUME NEW t \in Threads, CleanDone(t)
       PROVE  Lists'
  <2>1. NotCleaning \in [iret : Nat, it : 0 .. N]
    BY DEF NotCleaning
  <2>2. QED
    BY <1>4, <1>15, <2>1 DEF CleanDone
<1>16. Lists'
  <2> HIDE DEF Lists
  <2>1. ASSUME NEW t \in Threads, MThreadNext(t)
        PROVE  Lists'
    <3>1. CASE UNCHANGED memVars
      BY <1>5, <3>1
    <3>2. CASE DeleteAllocs(t)
      BY <1>6, <3>2
    <3>3. QED
      BY <1>7, <1>8, <1>9, <1>10, <1>12, <1>13, <1>14, <1>15, <2>1, <3>1,
         <3>2 DEF MThreadNext
  <2>2. CASE \E t \in Threads : MThreadNext(t)
    BY <2>1, <2>2
  <2>3. QED
    BY <1>5, <2>2 DEF MNext, allVars, memVars, Finished
<1>17. QED
  BY <1>2, <1>4, <1>16

(***************************************************************************)
(* The invariant.                                                          *)
(***************************************************************************)

LEMMA MemInitInv ==
  ASSUME MInit
  PROVE  MemInv
<1> USE DEF MInit
<1>1. Init /\ Core /\ Opacity /\ TypeOK
  BY InitInv DEF Inv, Core
<1>2. MemTypeOK
  <2>1. <<>> \in Seq(Objs) /\ NotCleaning \in [iret : Nat, it : 0 .. N]
    BY DEF NotCleaning
  <2>2. QED
    BY <1>1, <2>1, ReachableClosed DEF MemTypeOK
<1>3. curTx.seq = 1 /\ curTx.idx = 0 /\ cmem = InitImage
  BY <1>1 DEF Init, Trans
<1>4. ~IsOpen
  BY <1>1 DEF Init, IsOpen, Trans, NoTrans, Threads
<1>5. ASSUME NEW t \in Threads
      PROVE  /\ pc[t] = "idle"
             /\ ~Attempting(t) /\ ~Committed(t) /\ ~EraPublished(t)
             /\ ~Beginning(t) /\ ~Cleaning(t)
             /\ Touches(t) = {} /\ Retired(t) = {} /\ Doomed(t) = {}
             /\ Injective(retired[t]) /\ Injective(rlog[t])
  <2>1. pc[t] = "idle"
    BY <1>1 DEF Init
  <2>2. ~InHelp(t) /\ ~Applying(t) /\ ~Attempting(t)
    BY <2>1 DEF InHelp, HelpLabels, ApplyLabels, Applying, Attempting,
       ActiveLabels, LoadLabels
  <2>3. /\ ~Committed(t) /\ ~EraPublished(t) /\ ~Beginning(t)
        /\ Touches(t) = {}
    BY <2>1, <2>2 DEF Committed, Owner, EraPublished, Applies, Beginning, Touches
  <2>4. ~Cleaning(t)
    BY DEF Cleaning
  <2>5. Retired(t) = {} /\ Injective(retired[t]) /\ Injective(rlog[t])
    BY DEF Retired, Elements, Injective
  <2>6. QED
    BY <2>1, <2>2, <2>3, <2>4, <2>5 DEF Doomed
<1>6. EraState
  BY <1>3, <1>5 DEF EraState
<1>7. TouchState /\ ScanState
  BY <1>5 DEF TouchState, ScanState
<1>8. DoomedState /\ OpenLogState
  BY <1>4, <1>5 DEF DoomedState, OpenLogState
<1>9. PrivateState
  BY <1>3, <1>5 DEF PrivateState
<1>10. BeginState /\ ProgramState /\ SeenState
  BY <1>5 DEF BeginState, ProgramState, SeenState
<1>11. QED
  BY <1>1, <1>2, <1>6, <1>7, <1>8, <1>9, <1>10 DEF MemInv

\* The invariant of memory reclamation: who can touch which object, which eras
\* he has published for it, and in which list it waits to be freed, at every
\* step of the engine, of tmNew and tmDelete, and of clean.
THEOREM MemInvariance == MSpec => []MemInv
<1>1. MInit => MemInv
  BY MemInitInv
<1>2. MemInv /\ [MNext]_allVars => MemInv'
  BY CoreStep, MemTypeStep, EraStep, TouchStep, ScanStep, DoomedStep,
     OpenLogStep, PrivateStep, BeginStep, ProgramStep, SeenStep,
     MemOpacityStep DEF MemInv
<1>3. QED
  BY <1>1, <1>2, PTL DEF MSpec

\* The lists of objects, the eras and the loop indices of clean keep their
\* types (and so does the engine).
THEOREM MemTypeCorrect == MSpec => []MemTypeOK
<1>1. MemInv => MemTypeOK
  BY DEF MemInv
<1>2. QED
  BY <1>1, MemInvariance, PTL

\* No attempt, doomed to fail or not, holds a pointer to freed memory.
THEOREM PointersAreLive == MSpec => []ProgramPointersAreLive
<1>1. ASSUME MemInv
      PROVE  ProgramPointersAreLive
  <2> SUFFICES ASSUME NEW t \in Threads, Attempting(t)
               PROVE  known[t] \subseteq allocated
    BY DEF ProgramPointersAreLive, Attempting
  <2>1. known[t] \subseteq Sees(t)
    BY <1>1 DEF MemInv, ProgramState, ThreadProgram
  <2>2. Sees(t) \subseteq allocated
    BY <1>1, Phases DEF MemInv, TouchState
  <2>3. QED
    BY <2>1, <2>2
<1>2. QED
  BY <1>1, MemInvariance, PTL

\* Whoever applies a write-set, however late, writes only roots and memory that
\* has not been freed.
THEOREM AppliesToLiveWords == MSpec => []ApplyTouchesLiveWords
<1>1. ASSUME MemInv
      PROVE  ApplyTouchesLiveWords
  <2> SUFFICES ASSUME NEW t \in Threads, pc[t] \in ApplyLabels,
                      NEW i \in DOMAIN log[t]
               PROVE  log[t][i].addr \in Roots \cup allocated
    BY DEF ApplyTouchesLiveWords
  <2>1. Applying(t) /\ Applies(t)
    BY DEF Applying, Applies
  <2>2. log[t][i].addr \in Words /\ log[t][i].addr \in LogAddrs(t)
    BY <1>1, <2>1, ApplyFacts DEF MemInv, LogAddrs
  <2>3. LogAddrs(t) \cap Objs \subseteq allocated
    BY <1>1, <2>1, Phases DEF MemInv, TouchState
  <2>4. QED
    BY <2>2, <2>3, MemAssumption
<1>2. QED
  BY <1>1, MemInvariance, PTL

\* An object waits to be freed in one place of one retired list, and meanwhile
\* is allocated, cannot be reached, and is in no log of allocations from which
\* an abort would free it a second time.
THEOREM RetiredIsOnce == MSpec => []RetiredOnce
<1>1. ASSUME MemInv
      PROVE  RetiredOnce
  <2> SUFFICES ASSUME NEW t \in Threads, NEW i \in DOMAIN retired[t]
               PROVE  /\ retired[t][i] \in allocated \ Reachable(cmem)
                      /\ \A u \in Threads : \A j \in DOMAIN retired[u] :
                           retired[u][j] = retired[t][i] => u = t /\ j = i
                      /\ \A u \in Threads :
                           ~Published(u) => retired[t][i] \notin alog[u]
    BY DEF RetiredOnce
  <2>1. \A u \in Threads : \A j \in DOMAIN retired[u] :
          retired[u][j] \in Retired(u) /\ retired[u][j] \in Doomed(u)
    BY DEF Doomed, Retired, Elements
  <2>2. \A u \in Threads : ~Published(u) => ~Committed(u)
    BY DEF Published, Committed, Owner, InHelp
  <2>3. retired[t][i] \in allocated \ Reachable(cmem)
    BY <1>1, <2>1 DEF MemInv, DoomedState
  <2>4. \A u \in Threads : \A j \in DOMAIN retired[u] :
          retired[u][j] = retired[t][i] => u = t /\ j = i
    BY <1>1, <2>1 DEF MemInv, DoomedState, Injective
  <2>5. \A u \in Threads : ~Published(u) => retired[t][i] \notin alog[u]
    BY <1>1, <2>1, <2>2 DEF MemInv, DoomedState
  <2>6. QED
    BY <2>3, <2>4, <2>5
<1>2. QED
  BY <1>1, MemInvariance, PTL

\* Opacity holds with objects that come and go as well, although their words
\* are written by tmNew, outside of any write-set.
THEOREM MemLoadsAreOpaque == MSpec => []Opacity
<1>1. MemInv => Opacity
  BY DEF MemInv
<1>2. QED
  BY <1>1, MemInvariance, PTL

\* While objects are allocated, freed and allocated again, too, a copy of a
\* write-set that got past the checks of helpApply is exact, or harmless.
THEOREM MemCopiesAreExact == MSpec => []HelperCopyIsExact
<1>1. MemInv => HelperCopyIsExact
  BY ExactCopies DEF MemInv
<1>2. QED
  BY <1>1, MemInvariance, PTL

\* What an abort would delete is out of everybody's reach but the aborting
\* thread's: the next beginTx may roll every allocation back.
THEOREM AllocationsArePrivate == MSpec => []PrivateState
<1>1. MemInv => PrivateState
  BY DEF MemInv
<1>2. QED
  BY <1>1, MemInvariance, PTL
=============================================================================
