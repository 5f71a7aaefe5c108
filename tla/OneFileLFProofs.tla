--------------------------- MODULE OneFileLFProofs ---------------------------
(***************************************************************************)
(* Proofs of the safety properties of OneFileLF, for every number of       *)
(* threads, every set of words and values, and every length of the runs.   *)
(***************************************************************************)
EXTENDS OneFileLFInv, TLAPS

(***************************************************************************)
(* What the operators on redo logs preserve and return.                    *)
(***************************************************************************)

LogType == Seq(Entry \cup {Garbage})

\* The position of a word that is in the log, as WriteSet finds it.
LEMMA PositionFact ==
  ASSUME NEW redo, NEW w, Logged(redo, w)
  PROVE  Position(redo, w) \in DOMAIN redo /\ redo[Position(redo, w)].addr = w
BY DEF Logged, Position

\* A lookup returns a value if the default is one.
LEMMA LookupType ==
  ASSUME NEW redo \in LogType, NEW w, NEW d \in Vals
  PROVE  LookupAddr(redo, w, d) \in Vals
<1>1. \A i \in DOMAIN redo : redo[i].val \in Vals
  BY RedoLogAssumption DEF LogType, Entry, Garbage
<1>2. QED
  BY <1>1, PositionFact DEF LookupAddr

LEMMA OverlayType ==
  ASSUME NEW redo \in LogType, NEW image \in [Words -> Vals]
  PROVE  Overlay(image, redo) \in [Words -> Vals]
BY LookupType DEF Overlay

LEMMA AddOrReplaceType ==
  ASSUME NEW redo \in LogType, NEW w \in Words, NEW v \in Vals
  PROVE  AddOrReplace(redo, w, v) \in LogType
<1> DEFINE e == [addr |-> w, val |-> v]
<1>1. e \in Entry \cup {Garbage}
  BY DEF Entry
<1>2. CASE Logged(redo, w)
  <2>1. Position(redo, w) \in DOMAIN redo
    BY <1>2, PositionFact
  <2>2. [redo EXCEPT ![Position(redo, w)] = e] \in LogType
    BY <1>1, <2>1 DEF LogType
  <2>3. QED
    BY <1>2, <2>2 DEF AddOrReplace
<1>3. CASE ~Logged(redo, w)
  BY <1>1, <1>3 DEF AddOrReplace, LogType
<1>4. QED
  BY <1>2, <1>3

\* addOrReplace keeps one entry for each word.
LEMMA AddOrReplaceWriteSet ==
  ASSUME NEW redo \in LogType, IsWriteSet(redo), NEW w \in Words, NEW v \in Vals
  PROVE  IsWriteSet(AddOrReplace(redo, w, v))
<1> DEFINE e == [addr |-> w, val |-> v]
           new == AddOrReplace(redo, w, v)
<1>1. e \in Entry /\ e.addr = w
  BY DEF Entry
<1>2. CASE Logged(redo, w)
  <2>1. /\ Position(redo, w) \in DOMAIN redo
        /\ redo[Position(redo, w)].addr = w
    BY <1>2, PositionFact
  <2>2. new = [redo EXCEPT ![Position(redo, w)] = e]
    BY <1>2 DEF AddOrReplace
  <2>3. DOMAIN new = DOMAIN redo
    BY <2>2
  <2>4. \A i \in DOMAIN redo : new[i].addr = redo[i].addr
    BY <1>1, <2>1, <2>2
  <2>5. \A i \in DOMAIN redo : new[i] \in Entry
    BY <1>1, <2>1, <2>2 DEF IsWriteSet
  <2>6. QED
    BY <2>3, <2>4, <2>5 DEF IsWriteSet
<1>3. CASE ~Logged(redo, w)
  <2>1. new = Append(redo, e)
    BY <1>3 DEF AddOrReplace
  <2>2. /\ DOMAIN redo = 1 .. Len(redo)
        /\ DOMAIN new = 1 .. Len(redo) + 1
        /\ \A i \in 1 .. Len(redo) : new[i] = redo[i]
        /\ new[Len(redo) + 1] = e
        /\ Len(redo) \in Nat
    BY <2>1 DEF LogType
  <2>3. \A i \in 1 .. Len(redo) : redo[i].addr # w
    BY <1>3, <2>2 DEF Logged
  <2> HIDE DEF new, e
  <2>4. IsWriteSet(new)
    BY <1>1, <2>2, <2>3 DEF IsWriteSet
  <2>5. QED
    BY <2>4 DEF new
<1>4. QED
  BY <1>2, <1>3

\* In a write-set the entry of a word is unique, so a lookup finds it.
LEMMA LookupEntry ==
  ASSUME NEW redo, IsWriteSet(redo), NEW i \in DOMAIN redo, NEW d
  PROVE  LookupAddr(redo, redo[i].addr, d) = redo[i].val
BY PositionFact DEF LookupAddr, IsWriteSet, Logged

\* After addOrReplace a lookup finds the new value, and every other word's as
\* before.
LEMMA LookupAfterAdd ==
  ASSUME NEW redo \in LogType, IsWriteSet(redo), NEW w \in Words, NEW v \in Vals,
         NEW x \in Words, NEW d
  PROVE  LookupAddr(AddOrReplace(redo, w, v), x, d) =
           IF x = w THEN v ELSE LookupAddr(redo, x, d)
<1> DEFINE e == [addr |-> w, val |-> v]
           new == AddOrReplace(redo, w, v)
<1>1. IsWriteSet(new)
  BY AddOrReplaceWriteSet
<1>2. \E i \in DOMAIN new : new[i] = e
  <2>1. CASE Logged(redo, w)
    BY <2>1, PositionFact DEF AddOrReplace, LogType
  <2>2. CASE ~Logged(redo, w)
    <3>1. new = Append(redo, e)
      BY <2>2 DEF AddOrReplace
    <3>2. Len(redo) + 1 \in DOMAIN new /\ new[Len(redo) + 1] = e
      BY <3>1 DEF LogType
    <3>3. QED
      BY <3>2
  <2>3. QED
    BY <2>1, <2>2
<1>3. ASSUME x # w, NEW i \in DOMAIN redo, redo[i].addr = x
      PROVE  i \in DOMAIN new /\ new[i] = redo[i]
  BY <1>3, PositionFact DEF AddOrReplace, LogType
<1>4. ASSUME x # w, NEW i \in DOMAIN new, new[i].addr = x
      PROVE  i \in DOMAIN redo /\ redo[i] = new[i]
  <2>1. CASE Logged(redo, w)
    BY <1>4, <2>1, PositionFact DEF AddOrReplace, LogType
  <2>2. CASE ~Logged(redo, w)
    <3>1. new = Append(redo, e)
      BY <2>2 DEF AddOrReplace
    <3>2. DOMAIN new = 1 .. Len(redo) + 1 /\ new[Len(redo) + 1] = e
      BY <3>1 DEF LogType
    <3>3. i # Len(redo) + 1
      BY <1>4, <3>2
    <3>4. QED
      BY <3>1, <3>2, <3>3 DEF LogType
  <2>3. QED
    BY <2>1, <2>2
<1> HIDE DEF new
<1>5. CASE x = w
  <2>1. PICK i \in DOMAIN new : new[i] = e
    BY <1>2
  <2>2. LookupAddr(new, new[i].addr, d) = new[i].val
    BY <1>1, <2>1, LookupEntry
  <2>3. QED
    BY <1>5, <2>1, <2>2 DEF new
<1>6. CASE x # w /\ Logged(redo, x)
  <2>1. PICK i \in DOMAIN redo : redo[i].addr = x
    BY <1>6 DEF Logged
  <2>2. i \in DOMAIN new /\ new[i] = redo[i]
    BY <1>3, <1>6, <2>1
  <2>3. LookupAddr(new, new[i].addr, d) = new[i].val
    BY <1>1, <2>2, LookupEntry
  <2>4. LookupAddr(redo, redo[i].addr, d) = redo[i].val
    BY <2>1, LookupEntry
  <2>5. QED
    BY <1>6, <2>1, <2>2, <2>3, <2>4 DEF new
<1>7. CASE x # w /\ ~Logged(redo, x)
  <2>1. ~Logged(new, x)
    BY <1>4, <1>7 DEF Logged
  <2>2. QED
    BY <1>7, <2>1 DEF LookupAddr, new
<1>8. QED
  BY <1>5, <1>6, <1>7

(***************************************************************************)
(* Operators and types of OneFileLF.                                       *)
(***************************************************************************)

USE OneFileLFAssumption

\* The entries of a log of n entries are all visited by the loop of apply.
LEMMA ApplyIndexRange ==
  ASSUME NEW t \in Nat, NEW i \in Nat, NEW n \in Nat, n > 0
  PROVE  ApplyIndex(t, i, n) \in 0 .. n - 1
BY DEF ApplyIndex

LEMMA ModOfSum ==
  ASSUME NEW d \in Nat, NEW n \in Nat, NEW i \in Nat, i < n
  PROVE  (n * d + i) % n = i
OBVIOUS

LEMMA ApplyIndexOnto ==
  ASSUME NEW t \in Nat, NEW n \in Nat, n > 0, NEW i \in 0 .. n - 1
  PROVE  \E k \in 0 .. n - 1 : ApplyIndex(t, k, n) = i
<1> DEFINE m == t * 8
           d == m \div n
           q == m % n
<1>1. m \in Nat /\ d \in Nat /\ q \in 0 .. n - 1 /\ m = n * d + q
  OBVIOUS
<1> HIDE DEF d, q
<1>2. d \in Nat /\ i \in Nat /\ i < n
  BY <1>1
<1>3. CASE i >= q
  <2>1. i - q \in 0 .. n - 1
    BY <1>1, <1>3
  <2>2. m + (i - q) = n * d + i
    BY <1>1
  <2>3. (n * d + i) % n = i
    BY <1>2, ModOfSum
  <2>4. ApplyIndex(t, i - q, n) = i
    BY <2>2, <2>3 DEF ApplyIndex
  <2>5. QED
    BY <2>1, <2>4
<1>4. CASE i < q
  <2>1. i - q + n \in 0 .. n - 1
    BY <1>1, <1>4
  <2>2. m + (i - q + n) = n * (d + 1) + i
    BY <1>1
  <2>3. (n * (d + 1) + i) % n = i
    <3>1. d + 1 \in Nat
      BY <1>2
    <3>2. QED
      BY <1>2, <3>1, ModOfSum
  <2>4. ApplyIndex(t, i - q + n, n) = i
    BY <2>2, <2>3 DEF ApplyIndex
  <2>5. QED
    BY <2>1, <2>4
<1>5. QED
  BY <1>1, <1>3, <1>4

\* Writing one entry of a sequence leaves a sequence.
LEMMA ExceptSeq ==
  ASSUME NEW S, NEW s \in Seq(S), NEW k, NEW e \in S
  PROVE  [s EXCEPT ![k] = e] \in Seq(S)
<1>1. CASE k \in DOMAIN s
  BY <1>1
<1>2. CASE k \notin DOMAIN s
  <2>1. [s EXCEPT ![k] = e] = s
    BY <1>2
  <2>2. QED
    BY <2>1
<1>3. QED
  BY <1>1, <1>2

LEMMA SeqElement ==
  ASSUME NEW S, NEW s \in Seq(S), NEW i \in DOMAIN s
  PROVE  s[i] \in S
OBVIOUS

\* What the types say of the parts of a transaction identifier.
LEMMA ThreadFacts ==
  ASSUME TypeOK, NEW t \in Threads
  PROVE  /\ t \in Nat
         /\ myTx[t].seq \in Nat /\ myTx[t].idx \in Threads
         /\ helpTx[t].seq \in Nat /\ helpTx[t].idx \in Threads
         /\ curTx.seq \in Nat /\ curTx.idx \in Threads
<1>1. t \in Nat
  BY DEF Threads
<1>2. myTx[t] \in TransType /\ helpTx[t] \in TransType /\ curTx \in TransType
  BY DEF TypeOK
<1>3. QED
  BY <1>1, <1>2 DEF TransType

\* The entry a thread is about to apply is a proper one.
LEMMA ApplyFacts ==
  ASSUME Core, NEW t \in Threads, Applying(t)
  PROVE  /\ Len(log[t]) \in Nat \ {0}
         /\ \A k \in 0 .. Len(log[t]) - 1 :
              ApplyIndex(t, k, Len(log[t])) + 1 \in DOMAIN log[t]
         /\ \A i \in DOMAIN log[t] : log[t][i].addr \in Words /\ log[t][i].val \in Vals
         /\ ApplyEntry(t).addr \in Words
         /\ ApplyEntry(t).val \in Vals
<1>1. /\ log[t] \in Seq(Entry \cup {Garbage})
      /\ pos[t] \in Nat
      /\ t \in Nat
  BY ThreadFacts DEF Core, TypeOK
<1>2. pos[t] < Len(log[t]) /\ ExactOrApplied(t)
  BY DEF Core, ApplyState, ThreadApply
<1>3. Len(log[t]) \in Nat \ {0} /\ DOMAIN log[t] = 1 .. Len(log[t])
  BY <1>1, <1>2
<1>4. \A k \in 0 .. Len(log[t]) - 1 :
        ApplyIndex(t, k, Len(log[t])) + 1 \in DOMAIN log[t]
  <2>1. \A k \in 0 .. Len(log[t]) - 1 :
          ApplyIndex(t, k, Len(log[t])) \in 0 .. Len(log[t]) - 1
    <3> TAKE k \in 0 .. Len(log[t]) - 1
    <3>1. k \in Nat
      BY <1>3
    <3>2. Len(log[t]) \in Nat /\ Len(log[t]) > 0
      BY <1>3
    <3>3. QED
      BY ONLY <1>1, <3>1, <3>2, ApplyIndexRange
  <2>2. QED
    BY <1>3, <2>1
<1>5. Current(t) => IsWriteSet(log[t])
  BY <1>2 DEF Core, OpenHasOwner, WriteSets, HasWriteSet, ExactOrApplied, Current,
     TypeOK, TransType
<1>6. \A i \in DOMAIN log[t] : log[t][i].addr \in Words
  BY <1>2, <1>5 DEF ExactOrApplied, AllApplied, IsWriteSet, Entry
<1>7. \A i \in DOMAIN log[t] : log[t][i].val \in Vals
  BY <1>1, RedoLogAssumption DEF Entry, Garbage
<1>8. ApplyIndex(t, pos[t], Len(log[t])) + 1 \in DOMAIN log[t]
  BY <1>1, <1>2, <1>3, <1>4
<1>9. QED
  BY <1>3, <1>4, <1>6, <1>7, <1>8 DEF ApplyEntry

\* Counters of the threads.
LEMMA Counters ==
  ASSUME NEW f \in [Threads -> Nat], NEW t \in Threads, NEW k
  PROVE  /\ [f EXCEPT ![t] = @ + 1] \in [Threads -> Nat]
         /\ [f EXCEPT ![t] = IF @ + 1 = k THEN 0 ELSE @ + 1] \in [Threads -> Nat]
OBVIOUS

\* Identifiers of transactions.
LEMMA TransFacts ==
  /\ NoTrans \in TransType
  /\ \A s \in Nat, i \in Threads : Trans(s, i) \in TransType
BY DEF NoTrans, Trans, TransType, Threads

\* Every variable keeps its type.
LEMMA TypeStep ==
  ASSUME Core, [Next]_vars
  PROVE  TypeOK'
<1>a. TypeOK
  BY DEF Core
<1>b. \A t \in Threads :
        /\ myTx[t].seq + 1 \in Nat
        /\ helpTx[t].seq + 1 \in Nat
        /\ Helped(t) \in Threads
  BY <1>a, ThreadFacts DEF Helped
<1> USE <1>a, TransFacts, RedoLogAssumption DEF TypeOK, Labels, Step
<1>1. ASSUME NEW t \in Threads, Transaction(t)
      PROVE  TypeOK'
  BY <1>1 DEF Transaction, Restart, ForgetAttempt
<1>2. ASSUME NEW t \in Threads, BeginLoadCurTx(t)
      PROVE  TypeOK'
  BY <1>2 DEF BeginLoadCurTx
<1>3. ASSUME NEW t \in Threads, BeginReset(t)
      PROVE  TypeOK'
  <2>1. <<>> \in Seq(Entry \cup {Garbage})
    OBVIOUS
  <2>2. (log \in [Threads -> Seq(Entry \cup {Garbage})])'
    BY <1>3, <2>1 DEF BeginReset
  <2>3. QED
    BY <1>3, <2>1, <2>2 DEF BeginReset
<1>4. ASSUME NEW t \in Threads, BeginSetEra(t)
      PROVE  TypeOK'
  BY <1>4 DEF BeginSetEra, TransType
<1>5. ASSUME NEW t \in Threads, BeginRecheck(t)
      PROVE  TypeOK'
  BY <1>5 DEF BeginRecheck
<1>6. ASSUME NEW t \in Threads, HelpCheckRequest(t)
      PROVE  TypeOK'
  BY <1>6 DEF HelpCheckRequest, AfterHelp
<1>7. ASSUME NEW t \in Threads, HelpCopyNum(t)
      PROVE  TypeOK'
  <2>1. [i \in 1 .. Len(log[Helped(t)]) |-> Garbage]
         \in Seq(Entry \cup {Garbage})
    BY DEF Helped, TransType
  <2>2. (log \in [Threads -> Seq(Entry \cup {Garbage})])'
    BY <1>7, <2>1 DEF HelpCopyNum
  <2>3. QED
    BY <1>7, <2>1, <2>2 DEF HelpCopyNum
<1>8. ASSUME NEW t \in Threads, HelpCopyEntry(t)
      PROVE  TypeOK'
  <2>1. log[Helped(t)] \in Seq(Entry \cup {Garbage})
    BY DEF Helped, TransType
  <2>2. EntryAt(Helped(t), pos[t] + 1) \in Entry \cup {Garbage}
    BY <2>1, SeqElement DEF EntryAt
  <2>3. PICK e \in Entry \cup {Garbage} :
         log' = [log EXCEPT ![t][pos[t] + 1] = e]
    BY <1>8, <2>2 DEF HelpCopyEntry
  <2>4. [log[t] EXCEPT ![pos[t] + 1] = e] \in Seq(Entry \cup {Garbage})
    BY <2>3, ExceptSeq
  <2>5. (log \in [Threads -> Seq(Entry \cup {Garbage})])'
    BY <2>3, <2>4
  <2>6. (pos \in [Threads -> Nat])'
    BY <1>8, Counters DEF HelpCopyEntry
  <2>7. (pc \in [Threads -> Labels])'
    BY <1>8 DEF HelpCopyEntry
  <2>8. QED
    BY <1>8, <2>1, <2>2, <2>3, <2>4, <2>5, <2>6, <2>7 DEF HelpCopyEntry
<1>9. ASSUME NEW t \in Threads, HelpSetEra(t)
      PROVE  TypeOK'
  BY <1>9 DEF HelpSetEra, TransType
<1>10. ASSUME NEW t \in Threads, HelpCheckCurTx(t)
      PROVE  TypeOK'
  BY <1>10 DEF HelpCheckCurTx, AfterHelp
<1>11. ASSUME NEW t \in Threads, HelpRecheckRequest(t)
      PROVE  TypeOK'
  BY <1>11 DEF HelpRecheckRequest, AfterHelp
<1>12. ASSUME NEW t \in Threads, ApplyLoadVal(t)
      PROVE  TypeOK'
  BY <1>12 DEF ApplyLoadVal
<1>13. ASSUME NEW t \in Threads, ApplyLoadSeq(t)
      PROVE  TypeOK'
  <2>1. Applying(t)
    BY <1>13 DEF ApplyLoadSeq, Applying, ApplyLabels
  <2>2. mem[ApplyEntry(t).addr].seq \in Nat
    BY <2>1, ApplyFacts
  <2>3. CASE ToApply(t)
    BY <1>13, <2>1, <2>2, <2>3 DEF ApplyLoadSeq, NextEntry
  <2>4. CASE ~ToApply(t)
    <3>1. NextEntry(t, "applySeq")
      BY <1>13, <2>4 DEF ApplyLoadSeq
    <3>2. (pos \in [Threads -> Nat])'
      BY <3>1, Counters DEF NextEntry
    <3>3. QED
      BY <1>13, <2>4, <3>1, <3>2 DEF ApplyLoadSeq, NextEntry
  <2>5. QED
    BY <2>3, <2>4
<1>14. ASSUME NEW t \in Threads, ApplyDcas(t)
      PROVE  TypeOK'
  <2>1. Applying(t)
    BY <1>14 DEF ApplyDcas, Applying, ApplyLabels, NextEntry
  <2>2. ApplyEntry(t).val \in Vals
    BY <2>1, ApplyFacts
  <2>3. helpTx[t].seq \in Nat
    BY DEF TransType
  <2>4. (mem \in [Words -> [val : Vals, seq : Nat]])'
    BY <1>14, <2>2, <2>3 DEF ApplyDcas
  <2>5. (pos \in [Threads -> Nat])'
    BY <1>14, Counters DEF ApplyDcas, NextEntry
  <2>6. QED
    BY <1>14, <2>1, <2>2, <2>3, <2>4, <2>5 DEF ApplyDcas, NextEntry
<1>15. ASSUME NEW t \in Threads, HelpClose(t)
      PROVE  TypeOK'
  <2>1. helpTx[t].seq + 1 \in Nat /\ Helped(t) \in Threads
    BY <1>b
  <2>2. Trans(helpTx[t].seq + 1, Helped(t)) \in TransType
    BY <2>1
  <2>3. (request \in [Threads -> TransType])'
    BY <1>15, <2>2 DEF HelpClose
  <2>4. (pc \in [Threads -> Labels])'
    BY <1>15 DEF HelpClose, AfterHelp
  <2>5. QED
    BY <1>15, <2>1, <2>2, <2>3, <2>4 DEF HelpClose
<1>16. ASSUME NEW t \in Threads, NEW w \in Words, LoadVal(t, w)
      PROVE  TypeOK'
  <2>1. (ops \in [Threads -> Nat])'
    BY <1>16, Counters DEF LoadVal, Operate
  <2>2. QED
    BY <1>16, <2>1 DEF LoadVal, Operate
<1>17. ASSUME NEW t \in Threads, NEW w \in Words, NEW v \in Vals,
             Store(t, w, v)
      PROVE  TypeOK'
  <2>1. AddOrReplace(log[t], w, v) \in Seq(Entry \cup {Garbage})
    BY AddOrReplaceType DEF LogType
  <2>2. (log \in [Threads -> Seq(Entry \cup {Garbage})])'
    BY <1>17, <2>1 DEF Store
  <2>3. (ops \in [Threads -> Nat])'
    BY <1>17, Counters DEF Store, Operate
  <2>4. QED
    BY <1>17, <2>1, <2>2, <2>3 DEF Store, Operate
<1>18. ASSUME NEW t \in Threads, LoadAbort(t)
      PROVE  TypeOK'
  BY <1>18 DEF LoadAbort, Restart, ForgetAttempt
<1>19. ASSUME NEW t \in Threads, LoadSeq(t)
      PROVE  TypeOK'
  <2>1. LookupAddr(log[t], addr[t], lval[t]) \in Vals
    BY LookupType DEF LogType
  <2>2. (lval \in [Threads -> Vals])'
    BY <1>19, <2>1 DEF LoadSeq
  <2>3. QED
    BY <1>19, <2>1, <2>2 DEF LoadSeq
<1>20. ASSUME NEW t \in Threads, LoadReturn(t)
      PROVE  TypeOK'
  BY <1>20 DEF LoadReturn
<1>21. ASSUME NEW t \in Threads, Delete(t)
      PROVE  TypeOK'
  <2>1. (numRetires \in [Threads -> Nat])'
    BY <1>21, Counters DEF Delete
  <2>2. (ops \in [Threads -> Nat])'
    BY <1>21, Counters DEF Delete, Operate
  <2>3. QED
    BY <1>21, <2>1, <2>2 DEF Delete, Operate
<1>22. ASSUME NEW t \in Threads, CommitReadOnly(t)
      PROVE  TypeOK'
  BY <1>22 DEF CommitReadOnly
<1>23. ASSUME NEW t \in Threads, CommitCheckFails(t)
      PROVE  TypeOK'
  BY <1>23 DEF CommitCheckFails, Restart, ForgetAttempt
<1>24. ASSUME NEW t \in Threads, CommitCheck(t)
      PROVE  TypeOK'
  BY <1>24 DEF CommitCheck
<1>25. ASSUME NEW t \in Threads, CommitOpen(t)
      PROVE  TypeOK'
  <2>1. myTx[t].seq + 1 \in Nat
    BY <1>b
  <2>2. NewTx(t) \in TransType
    BY <2>1 DEF NewTx
  <2>3. QED
    BY <1>25, <2>1, <2>2 DEF CommitOpen
<1>26. ASSUME NEW t \in Threads, CommitCas(t)
      PROVE  TypeOK'
  <2>1. myTx[t].seq + 1 \in Nat
    BY <1>b
  <2>2. NewTx(t) \in TransType
    BY <2>1 DEF NewTx
  <2>3. Overlay(cmem, log[t]) \in [Words -> Vals]
    BY OverlayType DEF LogType
  <2>4. QED
    BY <1>26, <2>1, <2>2, <2>3 DEF CommitCas
<1>27. ASSUME NEW t \in Threads, CommitCasFails(t)
      PROVE  TypeOK'
  BY <1>27 DEF CommitCasFails, Restart, ForgetAttempt
<1>28. ASSUME NEW t \in Threads, CommitRetire(t)
      PROVE  TypeOK'
  BY <1>28 DEF CommitRetire
<1>29. ASSUME NEW t \in Threads, ClearEra(t)
      PROVE  TypeOK'
  <2>1. (left \in [Threads -> Int])'
    BY <1>29 DEF ClearEra
  <2>2. (he \in [Threads -> Nat])'
    BY <1>29 DEF ClearEra, NOERA
  <2>3. QED
    BY <1>29, <2>1, <2>2 DEF ClearEra, ForgetAttempt, NOERA
<1>30. CASE UNCHANGED vars
  BY <1>30 DEF vars
<1>31. QED
  BY <1>1, <1>2, <1>3, <1>4, <1>5, <1>6, <1>7, <1>8, <1>9, <1>10, <1>11, <1>12,
     <1>13, <1>14, <1>15, <1>16, <1>17, <1>18, <1>19, <1>20, <1>21, <1>22,
     <1>23, <1>24, <1>25, <1>26, <1>27, <1>28, <1>29, <1>30
     DEF Next, ThreadNext, BeginTx, HelpApply, Body, CommitTx, Finished

\* Nothing gets ahead of curTx.
LEMMA SeqBoundStep ==
  ASSUME Core, [Next]_vars
  PROVE  SeqBound'
<1>a. /\ curTx.seq \in Nat /\ curTx \in TransType
      /\ mem \in [Words -> [val : Vals, seq : Nat]]
      /\ pc \in [Threads -> Labels]
      /\ myTx \in [Threads -> TransType]
      /\ helpTx \in [Threads -> TransType]
  BY ThreadFacts DEF Core, TypeOK, TransType
<1>b. SeqBound
  BY DEF Core
<1>c. \A t \in Threads : helpTx[t].seq \in Nat
  BY ThreadFacts DEF Core
<1> USE <1>a, <1>b
    DEF SeqBound, Step, InHelp, Reading, HelpLabels, ApplyLabels,
        ReaderLabels, ActiveLabels, LoadLabels, CalledByCommit
<1>1. ASSUME NEW t \in Threads, Transaction(t)
      PROVE  SeqBound'
  BY <1>1 DEF Transaction, Restart, ForgetAttempt
<1>2. ASSUME NEW t \in Threads, BeginLoadCurTx(t)
      PROVE  SeqBound'
  BY <1>2 DEF BeginLoadCurTx
<1>3. ASSUME NEW t \in Threads, BeginReset(t)
      PROVE  SeqBound'
  BY <1>3 DEF BeginReset
<1>4. ASSUME NEW t \in Threads, BeginSetEra(t)
      PROVE  SeqBound'
  BY <1>4 DEF BeginSetEra
<1>5. ASSUME NEW t \in Threads, BeginRecheck(t)
      PROVE  SeqBound'
  BY <1>5 DEF BeginRecheck
<1>6. ASSUME NEW t \in Threads, HelpCheckRequest(t)
      PROVE  SeqBound'
  BY <1>6 DEF HelpCheckRequest, AfterHelp
<1>7. ASSUME NEW t \in Threads, HelpCopyNum(t)
      PROVE  SeqBound'
  BY <1>7 DEF HelpCopyNum
<1>8. ASSUME NEW t \in Threads, HelpCopyEntry(t)
      PROVE  SeqBound'
  BY <1>8 DEF HelpCopyEntry
<1>9. ASSUME NEW t \in Threads, HelpSetEra(t)
      PROVE  SeqBound'
  BY <1>9 DEF HelpSetEra
<1>10. ASSUME NEW t \in Threads, HelpCheckCurTx(t)
      PROVE  SeqBound'
  BY <1>10 DEF HelpCheckCurTx, AfterHelp
<1>11. ASSUME NEW t \in Threads, HelpRecheckRequest(t)
      PROVE  SeqBound'
  BY <1>11 DEF HelpRecheckRequest, AfterHelp
<1>12. ASSUME NEW t \in Threads, ApplyLoadVal(t)
      PROVE  SeqBound'
  BY <1>12 DEF ApplyLoadVal
<1>13. ASSUME NEW t \in Threads, ApplyLoadSeq(t)
      PROVE  SeqBound'
  BY <1>13 DEF ApplyLoadSeq, NextEntry
<1>14. ASSUME NEW t \in Threads, ApplyDcas(t)
      PROVE  SeqBound'
  <2>1. helpTx[t].seq \in Nat /\ helpTx[t].seq <= curTx.seq
    <3>1. InHelp(t)
      BY <1>14 DEF ApplyDcas, NextEntry
    <3>2. helpTx[t] = curTx \/ helpTx[t].seq < curTx.seq
      BY <3>1
    <3>3. QED
      BY <1>c, <3>2
  <2>2. \A w \in Words : mem'[w] = mem[w] \/ mem'[w].seq = helpTx[t].seq
    BY <1>14 DEF ApplyDcas
  <2>3. \A w \in Words : mem'[w].seq <= curTx.seq
    BY <2>1, <2>2
  <2>4. QED
    BY <1>14, <2>3 DEF ApplyDcas, NextEntry
<1>15. ASSUME NEW t \in Threads, HelpClose(t)
      PROVE  SeqBound'
  BY <1>15 DEF HelpClose, AfterHelp
<1>16. ASSUME NEW t \in Threads, NEW w \in Words, LoadVal(t, w)
      PROVE  SeqBound'
  BY <1>16 DEF LoadVal, Operate
<1>17. ASSUME NEW t \in Threads, NEW w \in Words, NEW v \in Vals,
             Store(t, w, v)
      PROVE  SeqBound'
  BY <1>17 DEF Store, Operate
<1>18. ASSUME NEW t \in Threads, LoadAbort(t)
      PROVE  SeqBound'
  BY <1>18 DEF LoadAbort, Restart, ForgetAttempt
<1>19. ASSUME NEW t \in Threads, LoadSeq(t)
      PROVE  SeqBound'
  BY <1>19 DEF LoadSeq
<1>20. ASSUME NEW t \in Threads, LoadReturn(t)
      PROVE  SeqBound'
  BY <1>20 DEF LoadReturn
<1>21. ASSUME NEW t \in Threads, Delete(t)
      PROVE  SeqBound'
  BY <1>21 DEF Delete, Operate
<1>22. ASSUME NEW t \in Threads, CommitReadOnly(t)
      PROVE  SeqBound'
  BY <1>22 DEF CommitReadOnly
<1>23. ASSUME NEW t \in Threads, CommitCheckFails(t)
      PROVE  SeqBound'
  BY <1>23 DEF CommitCheckFails, Restart, ForgetAttempt
<1>24. ASSUME NEW t \in Threads, CommitCheck(t)
      PROVE  SeqBound'
  BY <1>24 DEF CommitCheck
<1>25. ASSUME NEW t \in Threads, CommitOpen(t)
      PROVE  SeqBound'
  BY <1>25 DEF CommitOpen
<1>26. ASSUME NEW t \in Threads, CommitCas(t)
      PROVE  SeqBound'
  <2>1. curTx' = NewTx(t) /\ helpTx' = [helpTx EXCEPT ![t] = curTx']
    BY <1>26 DEF CommitCas
  <2>2. curTx'.seq = curTx.seq + 1
    BY <1>26, <2>1 DEF CommitCas, NewTx, Trans
  <2>3. \A w \in Words : mem[w].seq <= curTx'.seq
    BY <2>2
  <2>4. curTx.seq < curTx'.seq
    BY <2>2
  <2>5. \A u \in Threads : InHelp(u) => helpTx[u].seq < curTx'.seq
    BY <1>c, <2>2
  <2>6. \A u \in Threads : Reading(u) => myTx[u].seq < curTx'.seq
    <3>1. \A u \in Threads : myTx[u].seq \in Nat
      BY ThreadFacts DEF Core
    <3>2. QED
      BY <2>2, <3>1
  <2>7. mem' = mem /\ myTx' = myTx /\ pc' = [pc EXCEPT ![t] = "chkRequest"]
    BY <1>26 DEF CommitCas
  <2>8. QED
    BY <2>1, <2>3, <2>5, <2>6, <2>7
<1>27. ASSUME NEW t \in Threads, CommitCasFails(t)
      PROVE  SeqBound'
  BY <1>27 DEF CommitCasFails, Restart, ForgetAttempt
<1>28. ASSUME NEW t \in Threads, CommitRetire(t)
      PROVE  SeqBound'
  BY <1>28 DEF CommitRetire
<1>29. ASSUME NEW t \in Threads, ClearEra(t)
      PROVE  SeqBound'
  BY <1>29 DEF ClearEra, ForgetAttempt
<1>30. CASE UNCHANGED vars
  BY <1>30 DEF vars
<1>31. QED
  BY <1>1, <1>2, <1>3, <1>4, <1>5, <1>6, <1>7, <1>8, <1>9, <1>10,
     <1>11, <1>12, <1>13, <1>14, <1>15, <1>16, <1>17, <1>18, <1>19, <1>20,
     <1>21, <1>22, <1>23, <1>24, <1>25, <1>26, <1>27, <1>28, <1>29, <1>30
     DEF Next, ThreadNext, BeginTx, HelpApply, Body, CommitTx, Finished

\* What is superseded stays closed.
LEMMA PastClosedStep ==
  ASSUME Core, [Next]_vars
  PROVE  PastClosed'
<1>a. /\ curTx \in TransType
      /\ request \in [Threads -> TransType]
      /\ pc \in [Threads -> Labels]
      /\ myTx \in [Threads -> TransType]
      /\ helpTx \in [Threads -> TransType]
  BY DEF Core, TypeOK
<1>b. PastClosed
  BY DEF Core
<1>c. /\ curTx.idx \in Threads
      /\ \A t \in Threads : myTx[t].idx \in Threads /\ helpTx[t].idx \in Threads
  BY <1>a DEF TransType
<1> USE <1>a, <1>b, <1>c
    DEF PastClosed, Step, InHelp, Reading, HelpLabels, ApplyLabels,
        ReaderLabels, ActiveLabels, LoadLabels, CalledByCommit
<1>1. ASSUME NEW t \in Threads, Transaction(t)
      PROVE  PastClosed'
  BY <1>1 DEF Transaction, Restart, ForgetAttempt
<1>2. ASSUME NEW t \in Threads, BeginLoadCurTx(t)
      PROVE  PastClosed'
  BY <1>2 DEF BeginLoadCurTx
<1>3. ASSUME NEW t \in Threads, BeginReset(t)
      PROVE  PastClosed'
  BY <1>3 DEF BeginReset
<1>4. ASSUME NEW t \in Threads, BeginSetEra(t)
      PROVE  PastClosed'
  BY <1>4 DEF BeginSetEra
<1>5. ASSUME NEW t \in Threads, BeginRecheck(t)
      PROVE  PastClosed'
  BY <1>5 DEF BeginRecheck
<1>6. ASSUME NEW t \in Threads, HelpCheckRequest(t)
      PROVE  PastClosed'
  <2>1. request' = request /\ curTx' = curTx /\ myTx' = myTx /\ helpTx' = helpTx
    BY <1>6 DEF HelpCheckRequest
  <2>2. pc'[t] = "reset" => request[myTx[t].idx] # myTx[t]
    BY <1>6 DEF HelpCheckRequest, AfterHelp, Helped
  <2>3. pc' = [pc EXCEPT ![t] = pc'[t]]
    BY <1>6 DEF HelpCheckRequest, AfterHelp
  <2>4. pc'[t] \in HelpLabels \cup {"reset", "retire"}
    BY <1>6 DEF HelpCheckRequest, AfterHelp
  <2>5. InHelp(t)
    BY <1>6 DEF HelpCheckRequest
  <2>6. QED
    BY <2>1, <2>2, <2>3, <2>4, <2>5
<1>7. ASSUME NEW t \in Threads, HelpCopyNum(t)
      PROVE  PastClosed'
  BY <1>7 DEF HelpCopyNum
<1>8. ASSUME NEW t \in Threads, HelpCopyEntry(t)
      PROVE  PastClosed'
  BY <1>8 DEF HelpCopyEntry
<1>9. ASSUME NEW t \in Threads, HelpSetEra(t)
      PROVE  PastClosed'
  BY <1>9 DEF HelpSetEra
<1>10. ASSUME NEW t \in Threads, HelpCheckCurTx(t)
      PROVE  PastClosed'
  <2>1. request' = request /\ curTx' = curTx /\ myTx' = myTx /\ helpTx' = helpTx
    BY <1>10 DEF HelpCheckCurTx
  <2>2. pc'[t] = "reset" => request[myTx[t].idx] # myTx[t]
    BY <1>10 DEF HelpCheckCurTx, AfterHelp, Helped
  <2>3. pc' = [pc EXCEPT ![t] = pc'[t]]
    BY <1>10 DEF HelpCheckCurTx, AfterHelp
  <2>4. pc'[t] \in HelpLabels \cup {"reset", "retire"}
    BY <1>10 DEF HelpCheckCurTx, AfterHelp
  <2>5. InHelp(t)
    BY <1>10 DEF HelpCheckCurTx
  <2>6. QED
    BY <2>1, <2>2, <2>3, <2>4, <2>5
<1>11. ASSUME NEW t \in Threads, HelpRecheckRequest(t)
      PROVE  PastClosed'
  <2>1. request' = request /\ curTx' = curTx /\ myTx' = myTx /\ helpTx' = helpTx
    BY <1>11 DEF HelpRecheckRequest
  <2>2. pc'[t] = "reset" => request[myTx[t].idx] # myTx[t]
    BY <1>11 DEF HelpRecheckRequest, AfterHelp, Helped
  <2>3. pc' = [pc EXCEPT ![t] = pc'[t]]
    BY <1>11 DEF HelpRecheckRequest, AfterHelp
  <2>4. pc'[t] \in HelpLabels \cup {"reset", "retire"}
    BY <1>11 DEF HelpRecheckRequest, AfterHelp
  <2>5. InHelp(t)
    BY <1>11 DEF HelpRecheckRequest
  <2>6. QED
    BY <2>1, <2>2, <2>3, <2>4, <2>5
<1>12. ASSUME NEW t \in Threads, ApplyLoadVal(t)
      PROVE  PastClosed'
  BY <1>12 DEF ApplyLoadVal
<1>13. ASSUME NEW t \in Threads, ApplyLoadSeq(t)
      PROVE  PastClosed'
  BY <1>13 DEF ApplyLoadSeq, NextEntry
<1>14. ASSUME NEW t \in Threads, ApplyDcas(t)
      PROVE  PastClosed'
  BY <1>14 DEF ApplyDcas, NextEntry
<1>15. ASSUME NEW t \in Threads, HelpClose(t)
      PROVE  PastClosed'
  <2> DEFINE o == Helped(t)
             new == Trans(helpTx[t].seq + 1, o)
  <2>1. o \in Threads /\ InHelp(t)
    BY <1>15 DEF HelpClose, Helped
  <2>2. CASE request' = request
    <3>1. request[o] # helpTx[t]
      BY <1>15, <2>1, <2>2, ThreadFacts DEF HelpClose, Trans, Core
    <3>2. QED
      BY <1>15, <2>1, <2>2, <3>1 DEF HelpClose, AfterHelp, Helped
  <2>3. CASE request' # request
    <3>1. request' = [request EXCEPT ![o] = new]
      BY <1>15, <2>1, <2>3 DEF HelpClose
    <3>2. Owner(o) /\ helpTx[o].seq = helpTx[t].seq
      <4>1. CASE o = t
        BY <1>15, <4>1 DEF HelpClose, Owner, Core, OwnerState
      <4>2. CASE o # t
        <5>1. request[o] = helpTx[t]
          BY <1>15, <2>1, <2>3, <4>2 DEF HelpClose
        <5>2. helpTx[t] = curTx
          BY <2>1, <5>1 DEF Helped
        <5>3. QED
          BY <5>1, <5>2 DEF Core, IsOpen, OpenHasOwner, Helped
      <4>3. QED
        BY <4>1, <4>2
    <3>3. \A u \in Threads : /\ InHelp(u) => helpTx[u] # new
                             /\ Reading(u) => myTx[u] # new
      <4>1. \A u \in Threads :
             /\ InHelp(u) /\ helpTx[u].idx = o => helpTx[u].seq <= helpTx[t].seq
             /\ Reading(u) /\ myTx[u].idx = o => myTx[u].seq <= helpTx[t].seq
        BY <2>1, <3>2 DEF Core, OwnSeq, NotNewer
      <4>2. new.idx = o /\ new.seq = helpTx[t].seq + 1 /\ helpTx[t].seq \in Nat
        BY ThreadFacts DEF Trans, Core
      <4>3. QED
        BY <4>1, <4>2, ThreadFacts DEF Core
    <3>4. new # helpTx[t]
      BY <2>1, <3>3
    <3>5. \A c \in TransType : request[c.idx] # c /\ c # new => request'[c.idx] # c
      BY <3>1
    <3>6. ~CalledByCommit(t) => request'[myTx[t].idx] # myTx[t]
      BY <2>1, <3>1, <3>4 DEF Helped
    <3>7. \A u \in Threads : Reading(u) => request'[myTx[u].idx] # myTx[u]
      BY <3>3, <3>5
    <3>8. \A u \in Threads :
           InHelp(u) /\ helpTx[u] # curTx => request'[helpTx[u].idx] # helpTx[u]
      BY <3>3, <3>5
    <3>9. curTx' = curTx /\ myTx' = myTx /\ helpTx' = helpTx
          /\ pc' = [pc EXCEPT ![t] = IF CalledByCommit(t) THEN "retire" ELSE "reset"]
      BY <1>15 DEF HelpClose, AfterHelp
    <3>10. QED
      BY <3>6, <3>7, <3>8, <3>9
  <2>4. QED
    BY <2>2, <2>3
<1>16. ASSUME NEW t \in Threads, NEW w \in Words, LoadVal(t, w)
      PROVE  PastClosed'
  BY <1>16 DEF LoadVal, Operate
<1>17. ASSUME NEW t \in Threads, NEW w \in Words, NEW v \in Vals,
             Store(t, w, v)
      PROVE  PastClosed'
  BY <1>17 DEF Store, Operate
<1>18. ASSUME NEW t \in Threads, LoadAbort(t)
      PROVE  PastClosed'
  BY <1>18 DEF LoadAbort, Restart, ForgetAttempt
<1>19. ASSUME NEW t \in Threads, LoadSeq(t)
      PROVE  PastClosed'
  BY <1>19 DEF LoadSeq
<1>20. ASSUME NEW t \in Threads, LoadReturn(t)
      PROVE  PastClosed'
  BY <1>20 DEF LoadReturn
<1>21. ASSUME NEW t \in Threads, Delete(t)
      PROVE  PastClosed'
  BY <1>21 DEF Delete, Operate
<1>22. ASSUME NEW t \in Threads, CommitReadOnly(t)
      PROVE  PastClosed'
  BY <1>22 DEF CommitReadOnly
<1>23. ASSUME NEW t \in Threads, CommitCheckFails(t)
      PROVE  PastClosed'
  BY <1>23 DEF CommitCheckFails, Restart, ForgetAttempt
<1>24. ASSUME NEW t \in Threads, CommitCheck(t)
      PROVE  PastClosed'
  BY <1>24 DEF CommitCheck
<1>25. ASSUME NEW t \in Threads, CommitOpen(t)
      PROVE  PastClosed'
  <2>1. myTx[t].seq \in Nat /\ pc[t] = "open"
    BY <1>25, ThreadFacts DEF CommitOpen, Core
  <2>2. NewTx(t).idx = t /\ NewTx(t).seq = myTx[t].seq + 1
    BY DEF NewTx, Trans
  <2>3. \A u \in Threads :
         /\ InHelp(u) /\ helpTx[u].idx = t => helpTx[u].seq <= myTx[t].seq
         /\ Reading(u) /\ myTx[u].idx = t => myTx[u].seq <= myTx[t].seq
    BY <2>1 DEF Core, OwnSeq, NotNewer
  <2>4. \A u \in Threads : /\ InHelp(u) => helpTx[u] # NewTx(t)
                           /\ Reading(u) => myTx[u] # NewTx(t)
    BY <2>1, <2>2, <2>3
  <2>5. \A c \in TransType : request[c.idx] # c /\ c # NewTx(t)
                             => request'[c.idx] # c
    BY <1>25 DEF CommitOpen
  <2>6. curTx' = curTx /\ myTx' = myTx /\ helpTx' = helpTx
        /\ pc' = [pc EXCEPT ![t] = "cas"]
    BY <1>25 DEF CommitOpen
  <2>7. QED
    BY <2>1, <2>4, <2>5, <2>6
<1>26. ASSUME NEW t \in Threads, CommitCas(t)
      PROVE  PastClosed'
  <2>1. /\ request' = request /\ myTx' = myTx
        /\ pc' = [pc EXCEPT ![t] = "chkRequest"]
        /\ helpTx' = [helpTx EXCEPT ![t] = curTx']
    BY <1>26 DEF CommitCas
  <2>2. request[curTx.idx] # curTx
    BY <1>26 DEF CommitCas
  <2>3. QED
    BY <2>1, <2>2
<1>27. ASSUME NEW t \in Threads, CommitCasFails(t)
      PROVE  PastClosed'
  BY <1>27 DEF CommitCasFails, Restart, ForgetAttempt
<1>28. ASSUME NEW t \in Threads, CommitRetire(t)
      PROVE  PastClosed'
  BY <1>28 DEF CommitRetire
<1>29. ASSUME NEW t \in Threads, ClearEra(t)
      PROVE  PastClosed'
  BY <1>29 DEF ClearEra, ForgetAttempt
<1>30. CASE UNCHANGED vars
  BY <1>30 DEF vars
<1>31. QED
  BY <1>1, <1>2, <1>3, <1>4, <1>5, <1>6, <1>7, <1>8, <1>9, <1>10,
     <1>11, <1>12, <1>13, <1>14, <1>15, <1>16, <1>17, <1>18, <1>19, <1>20,
     <1>21, <1>22, <1>23, <1>24, <1>25, <1>26, <1>27, <1>28, <1>29, <1>30
     DEF Next, ThreadNext, BeginTx, HelpApply, Body, CommitTx, Finished

\* The transactions of a thread keep the order in which it publishes them.
LEMMA OwnSeqStep ==
  ASSUME Core, [Next]_vars
  PROVE  OwnSeq'
<1>a. /\ curTx \in TransType
      /\ pc \in [Threads -> Labels]
      /\ myTx \in [Threads -> TransType]
      /\ helpTx \in [Threads -> TransType]
  BY DEF Core, TypeOK
<1>b. OwnSeq
  BY DEF Core
<1> USE <1>a, <1>b
    DEF OwnSeq, NotNewer, Owner, Step, InHelp, Reading, HelpLabels,
        ApplyLabels, ReaderLabels, ActiveLabels, LoadLabels,
        CalledByCommit
<1>1. ASSUME NEW t \in Threads, Transaction(t)
      PROVE  OwnSeq'
  BY <1>1 DEF Transaction, Restart, ForgetAttempt
<1>2. ASSUME NEW t \in Threads, BeginLoadCurTx(t)
      PROVE  OwnSeq'
  BY <1>2 DEF BeginLoadCurTx
<1>3. ASSUME NEW t \in Threads, BeginReset(t)
      PROVE  OwnSeq'
  BY <1>3 DEF BeginReset
<1>4. ASSUME NEW t \in Threads, BeginSetEra(t)
      PROVE  OwnSeq'
  BY <1>4 DEF BeginSetEra
<1>5. ASSUME NEW t \in Threads, BeginRecheck(t)
      PROVE  OwnSeq'
  <2>1. /\ curTx.seq <= curTx.seq
        /\ \A u \in Threads : /\ InHelp(u) => helpTx[u].seq <= curTx.seq
                              /\ Reading(u) => myTx[u].seq <= curTx.seq
    BY ThreadFacts DEF Core, SeqBound
  <2>2. Reading(t) /\ ~InHelp(t)
    BY <1>5 DEF BeginRecheck
  <2>3. QED
    BY <1>5, <2>1, <2>2 DEF BeginRecheck
<1>6. ASSUME NEW t \in Threads, HelpCheckRequest(t)
      PROVE  OwnSeq'
  BY <1>6 DEF HelpCheckRequest, AfterHelp
<1>7. ASSUME NEW t \in Threads, HelpCopyNum(t)
      PROVE  OwnSeq'
  BY <1>7 DEF HelpCopyNum
<1>8. ASSUME NEW t \in Threads, HelpCopyEntry(t)
      PROVE  OwnSeq'
  BY <1>8 DEF HelpCopyEntry
<1>9. ASSUME NEW t \in Threads, HelpSetEra(t)
      PROVE  OwnSeq'
  BY <1>9 DEF HelpSetEra
<1>10. ASSUME NEW t \in Threads, HelpCheckCurTx(t)
      PROVE  OwnSeq'
  BY <1>10 DEF HelpCheckCurTx, AfterHelp
<1>11. ASSUME NEW t \in Threads, HelpRecheckRequest(t)
      PROVE  OwnSeq'
  BY <1>11 DEF HelpRecheckRequest, AfterHelp
<1>12. ASSUME NEW t \in Threads, ApplyLoadVal(t)
      PROVE  OwnSeq'
  BY <1>12 DEF ApplyLoadVal
<1>13. ASSUME NEW t \in Threads, ApplyLoadSeq(t)
      PROVE  OwnSeq'
  BY <1>13 DEF ApplyLoadSeq, NextEntry
<1>14. ASSUME NEW t \in Threads, ApplyDcas(t)
      PROVE  OwnSeq'
  BY <1>14 DEF ApplyDcas, NextEntry
<1>15. ASSUME NEW t \in Threads, HelpClose(t)
      PROVE  OwnSeq'
  BY <1>15 DEF HelpClose, AfterHelp
<1>16. ASSUME NEW t \in Threads, NEW w \in Words, LoadVal(t, w)
      PROVE  OwnSeq'
  BY <1>16 DEF LoadVal, Operate
<1>17. ASSUME NEW t \in Threads, NEW w \in Words, NEW v \in Vals,
             Store(t, w, v)
      PROVE  OwnSeq'
  BY <1>17 DEF Store, Operate
<1>18. ASSUME NEW t \in Threads, LoadAbort(t)
      PROVE  OwnSeq'
  BY <1>18 DEF LoadAbort, Restart, ForgetAttempt
<1>19. ASSUME NEW t \in Threads, LoadSeq(t)
      PROVE  OwnSeq'
  BY <1>19 DEF LoadSeq
<1>20. ASSUME NEW t \in Threads, LoadReturn(t)
      PROVE  OwnSeq'
  BY <1>20 DEF LoadReturn
<1>21. ASSUME NEW t \in Threads, Delete(t)
      PROVE  OwnSeq'
  BY <1>21 DEF Delete, Operate
<1>22. ASSUME NEW t \in Threads, CommitReadOnly(t)
      PROVE  OwnSeq'
  BY <1>22 DEF CommitReadOnly
<1>23. ASSUME NEW t \in Threads, CommitCheckFails(t)
      PROVE  OwnSeq'
  BY <1>23 DEF CommitCheckFails, Restart, ForgetAttempt
<1>24. ASSUME NEW t \in Threads, CommitCheck(t)
      PROVE  OwnSeq'
  BY <1>24 DEF CommitCheck
<1>25. ASSUME NEW t \in Threads, CommitOpen(t)
      PROVE  OwnSeq'
  BY <1>25 DEF CommitOpen
<1>26. ASSUME NEW t \in Threads, CommitCas(t)
      PROVE  OwnSeq'
  <2>1. curTx.seq \in Nat /\ curTx' = NewTx(t)
    BY <1>26, ThreadFacts DEF CommitCas, Core
  <2>2. curTx'.idx = t /\ curTx'.seq = curTx.seq + 1
    BY <1>26, <2>1 DEF NewTx, Trans, CommitCas
  <2>3. \A u \in Threads : /\ InHelp(u) => helpTx[u].seq <= curTx'.seq
                           /\ Reading(u) => myTx[u].seq <= curTx'.seq
    BY <2>1, <2>2, ThreadFacts DEF Core, SeqBound
  <2>4. curTx'.seq <= curTx'.seq
    BY <2>1, <2>2
  <2>5. /\ myTx' = myTx /\ pc' = [pc EXCEPT ![t] = "chkRequest"]
        /\ helpTx' = [helpTx EXCEPT ![t] = curTx']
    BY <1>26, <2>1 DEF CommitCas
  <2>6. helpTx'[t] = curTx' /\ InHelp(t)' /\ pc'[t] = "chkRequest"
    BY <2>5
  <2>7. ASSUME NEW u \in Threads, u # t
        PROVE  /\ InHelp(u)' = InHelp(u) /\ Reading(u)' = Reading(u)
               /\ Owner(u)' = Owner(u) /\ pc'[u] = pc[u]
               /\ helpTx'[u] = helpTx[u]
    BY <2>5, <2>7
  <2>8. \A c : NotNewer(t, c)' <=> (c.idx = t => c.seq <= curTx'.seq)
    <3>1. CalledByCommit(t)'
      BY <1>26, <2>1, <2>2, <2>5 DEF CommitCas
    <3>2. QED
      BY <2>6, <3>1
  <2>9. \A u \in Threads : \A c : u # t => (NotNewer(u, c)' <=> NotNewer(u, c))
    BY <2>5, <2>7
  <2>10. ASSUME NEW u \in Threads
         PROVE  NotNewer(u, curTx)'
    BY <2>2, <2>4, <2>6, <2>8
  <2>11. ASSUME NEW u \in Threads, NEW v \in Threads
         PROVE  /\ InHelp(v)' => NotNewer(u, helpTx[v])'
                /\ Reading(v)' => NotNewer(u, myTx[v])'
    <3>1. CASE v = t
      BY <2>2, <2>4, <2>6, <2>8, <3>1
    <3>2. CASE v # t /\ u = t
      BY <2>3, <2>5, <2>7, <2>8, <3>2
    <3>3. CASE v # t /\ u # t
      <4>1. NotNewer(u, helpTx[v])' <=> NotNewer(u, helpTx[v])
        BY <2>7, <2>9, <3>3
      <4>2. NotNewer(u, myTx[v])' <=> NotNewer(u, myTx[v])
        BY <2>5, <2>7, <2>9, <3>3
      <4>3. QED
        BY <2>7, <3>3, <4>1, <4>2
    <3>4. QED
      BY <3>1, <3>2, <3>3
  <2>12. QED
    BY <2>10, <2>11
<1>27. ASSUME NEW t \in Threads, CommitCasFails(t)
      PROVE  OwnSeq'
  BY <1>27 DEF CommitCasFails, Restart, ForgetAttempt
<1>28. ASSUME NEW t \in Threads, CommitRetire(t)
      PROVE  OwnSeq'
  BY <1>28 DEF CommitRetire
<1>29. ASSUME NEW t \in Threads, ClearEra(t)
      PROVE  OwnSeq'
  BY <1>29 DEF ClearEra, ForgetAttempt
<1>30. CASE UNCHANGED vars
  BY <1>30 DEF vars
<1>31. QED
  BY <1>1, <1>2, <1>3, <1>4, <1>5, <1>6, <1>7, <1>8, <1>9, <1>10,
     <1>11, <1>12, <1>13, <1>14, <1>15, <1>16, <1>17, <1>18, <1>19, <1>20,
     <1>21, <1>22, <1>23, <1>24, <1>25, <1>26, <1>27, <1>28, <1>29, <1>30
     DEF Next, ThreadNext, BeginTx, HelpApply, Body, CommitTx, Finished

\* The owner of a transaction goes from its request to the loop of apply, and
\* its request tells whether somebody has completed it.
LEMMA OwnerStateStep ==
  ASSUME Core, [Next]_vars
  PROVE  OwnerState'
<1>a. /\ curTx \in TransType
      /\ request \in [Threads -> TransType]
      /\ pc \in [Threads -> Labels]
      /\ myTx \in [Threads -> TransType]
      /\ helpTx \in [Threads -> TransType]
  BY DEF Core, TypeOK
<1>b. OwnerState
  BY DEF Core
<1>c. \A t \in Threads : Helped(t) \in Threads
  BY <1>a DEF Helped, TransType
<1> USE <1>a, <1>b, <1>c
    DEF OwnerState, Owner, Step, InHelp, HelpLabels, ApplyLabels,
        CalledByCommit, NewTx, Helped
<1>1. ASSUME NEW t \in Threads, Transaction(t)
      PROVE  OwnerState'
  BY <1>1 DEF Transaction, Restart, ForgetAttempt
<1>2. ASSUME NEW t \in Threads, BeginLoadCurTx(t)
      PROVE  OwnerState'
  <2>1. curTx.idx = t => request[t] # curTx
    BY <1>2 DEF BeginLoadCurTx, Core, OpenHasOwner, IsOpen
  <2>2. QED
    BY <1>2, <2>1 DEF BeginLoadCurTx
<1>3. ASSUME NEW t \in Threads, BeginReset(t)
      PROVE  OwnerState'
  BY <1>3 DEF BeginReset
<1>4. ASSUME NEW t \in Threads, BeginSetEra(t)
      PROVE  OwnerState'
  BY <1>4 DEF BeginSetEra
<1>5. ASSUME NEW t \in Threads, BeginRecheck(t)
      PROVE  OwnerState'
  BY <1>5 DEF BeginRecheck
<1>6. ASSUME NEW t \in Threads, HelpCheckRequest(t)
      PROVE  OwnerState'
  <2>1. /\ request' = request /\ myTx' = myTx /\ helpTx' = helpTx
        /\ pc' = [pc EXCEPT ![t] = pc'[t]] /\ InHelp(t) /\ pc[t] = "chkRequest"
    BY <1>6 DEF HelpCheckRequest, AfterHelp
  <2>2. CASE CalledByCommit(t)
    <3>1. Helped(t) = t
      BY <2>1, <2>2 DEF Trans
    <3>2. pc'[t] \in {"retire", "close", "applyVal"}
      BY <1>6, <2>2, <3>1 DEF HelpCheckRequest, AfterHelp
    <3>3. QED
      BY <2>1, <2>2, <3>2
  <2>3. CASE ~CalledByCommit(t)
    <3>1. Helped(t) = t => pc'[t] = "reset"
      BY <1>6, <2>1, <2>3 DEF HelpCheckRequest, AfterHelp
    <3>2. pc'[t] # "cas"
      BY <1>6, <2>3 DEF HelpCheckRequest, AfterHelp
    <3>3. QED
      BY <2>1, <2>3, <3>1, <3>2
  <2>4. QED
    BY <2>2, <2>3
<1>7. ASSUME NEW t \in Threads, HelpCopyNum(t)
      PROVE  OwnerState'
  BY <1>7 DEF HelpCopyNum
<1>8. ASSUME NEW t \in Threads, HelpCopyEntry(t)
      PROVE  OwnerState'
  BY <1>8 DEF HelpCopyEntry
<1>9. ASSUME NEW t \in Threads, HelpSetEra(t)
      PROVE  OwnerState'
  BY <1>9 DEF HelpSetEra
<1>10. ASSUME NEW t \in Threads, HelpCheckCurTx(t)
      PROVE  OwnerState'
  BY <1>10 DEF HelpCheckCurTx, AfterHelp
<1>11. ASSUME NEW t \in Threads, HelpRecheckRequest(t)
      PROVE  OwnerState'
  BY <1>11 DEF HelpRecheckRequest, AfterHelp
<1>12. ASSUME NEW t \in Threads, ApplyLoadVal(t)
      PROVE  OwnerState'
  BY <1>12 DEF ApplyLoadVal
<1>13. ASSUME NEW t \in Threads, ApplyLoadSeq(t)
      PROVE  OwnerState'
  BY <1>13 DEF ApplyLoadSeq, NextEntry
<1>14. ASSUME NEW t \in Threads, ApplyDcas(t)
      PROVE  OwnerState'
  BY <1>14 DEF ApplyDcas, NextEntry
<1>15. ASSUME NEW t \in Threads, HelpClose(t)
      PROVE  OwnerState'
  <2> DEFINE o == Helped(t)
             new == Trans(helpTx[t].seq + 1, o)
  <2>1. \/ request' = request
        \/ request' = [request EXCEPT ![o] = new] /\ Owner(o)
           /\ helpTx[o].seq = helpTx[t].seq
    <3>1. CASE o = t
      BY <1>15, <3>1 DEF HelpClose
    <3>2. CASE o # t /\ request[o] # helpTx[t]
      BY <1>15, <3>2 DEF HelpClose
    <3>3. CASE o # t /\ request[o] = helpTx[t]
      <4>1. helpTx[t] = curTx
        BY <1>15, <3>3 DEF HelpClose, Core, PastClosed
      <4>2. Owner(o) /\ helpTx[o] = curTx
        BY <3>3, <4>1 DEF Core, OpenHasOwner, IsOpen
      <4>3. QED
        BY <1>15, <3>3, <4>1, <4>2 DEF HelpClose
    <3>4. QED
      BY <3>1, <3>2, <3>3
  <2>2. /\ curTx' = curTx /\ myTx' = myTx /\ helpTx' = helpTx
        /\ pc' = [pc EXCEPT ![t] = IF CalledByCommit(t) THEN "retire" ELSE "reset"]
    BY <1>15 DEF HelpClose, AfterHelp
  <2>3. CASE request' = request
    BY <2>2, <2>3
  <2>4. CASE /\ request' = [request EXCEPT ![o] = new] /\ Owner(o)
             /\ helpTx[o].seq = helpTx[t].seq
    <3>1. \A u \in Threads : u # o => request'[u] = request[u]
      BY <2>4
    <3>2. request'[o] = Trans(helpTx[o].seq + 1, o)
      BY <2>4
    <3>3. \A u \in Threads : Owner(u)' => Owner(u) /\ pc'[u] = pc[u]
      BY <2>2
    <3>4. \A u \in Threads : InHelp(u)' => InHelp(u) /\ pc'[u] = pc[u]
      BY <2>2
    <3>5. pc'[o] # "cas" /\ CalledByCommit(o)
      BY <2>2, <2>4
    <3>6. QED
      BY <2>2, <2>4, <3>1, <3>2, <3>3, <3>4, <3>5
  <2>5. QED
    BY <2>1, <2>3, <2>4
<1>16. ASSUME NEW t \in Threads, NEW w \in Words, LoadVal(t, w)
      PROVE  OwnerState'
  BY <1>16 DEF LoadVal, Operate
<1>17. ASSUME NEW t \in Threads, NEW w \in Words, NEW v \in Vals,
             Store(t, w, v)
      PROVE  OwnerState'
  BY <1>17 DEF Store, Operate
<1>18. ASSUME NEW t \in Threads, LoadAbort(t)
      PROVE  OwnerState'
  BY <1>18 DEF LoadAbort, Restart, ForgetAttempt
<1>19. ASSUME NEW t \in Threads, LoadSeq(t)
      PROVE  OwnerState'
  BY <1>19 DEF LoadSeq
<1>20. ASSUME NEW t \in Threads, LoadReturn(t)
      PROVE  OwnerState'
  BY <1>20 DEF LoadReturn
<1>21. ASSUME NEW t \in Threads, Delete(t)
      PROVE  OwnerState'
  BY <1>21 DEF Delete, Operate
<1>22. ASSUME NEW t \in Threads, CommitReadOnly(t)
      PROVE  OwnerState'
  BY <1>22 DEF CommitReadOnly
<1>23. ASSUME NEW t \in Threads, CommitCheckFails(t)
      PROVE  OwnerState'
  BY <1>23 DEF CommitCheckFails, Restart, ForgetAttempt
<1>24. ASSUME NEW t \in Threads, CommitCheck(t)
      PROVE  OwnerState'
  BY <1>24 DEF CommitCheck
<1>25. ASSUME NEW t \in Threads, CommitOpen(t)
      PROVE  OwnerState'
  BY <1>25 DEF CommitOpen
<1>26. ASSUME NEW t \in Threads, CommitCas(t)
      PROVE  OwnerState'
  <2>1. myTx[t].seq \in Nat
    BY ThreadFacts DEF Core
  <2>2. helpTx' = [helpTx EXCEPT ![t] = NewTx(t)] /\ myTx' = myTx
        /\ pc' = [pc EXCEPT ![t] = "chkRequest"] /\ request' = request
        /\ pc[t] = "cas"
    BY <1>26 DEF CommitCas
  <2>3. NewTx(t) # myTx[t] /\ NewTx(t).idx = t
    BY <2>1 DEF Trans
  <2>4. QED
    BY <2>2, <2>3
<1>27. ASSUME NEW t \in Threads, CommitCasFails(t)
      PROVE  OwnerState'
  BY <1>27 DEF CommitCasFails, Restart, ForgetAttempt
<1>28. ASSUME NEW t \in Threads, CommitRetire(t)
      PROVE  OwnerState'
  BY <1>28 DEF CommitRetire
<1>29. ASSUME NEW t \in Threads, ClearEra(t)
      PROVE  OwnerState'
  BY <1>29 DEF ClearEra, ForgetAttempt
<1>30. CASE UNCHANGED vars
  BY <1>30 DEF vars
<1>31. QED
  BY <1>1, <1>2, <1>3, <1>4, <1>5, <1>6, <1>7, <1>8, <1>9, <1>10,
     <1>11, <1>12, <1>13, <1>14, <1>15, <1>16, <1>17, <1>18, <1>19, <1>20,
     <1>21, <1>22, <1>23, <1>24, <1>25, <1>26, <1>27, <1>28, <1>29, <1>30
     DEF Next, ThreadNext, BeginTx, HelpApply, Body, CommitTx, Finished

\* An open transaction stays with its owner.
LEMMA OpenHasOwnerStep ==
  ASSUME Core, [Next]_vars
  PROVE  OpenHasOwner'
<1>a. /\ curTx \in TransType
      /\ request \in [Threads -> TransType]
      /\ pc \in [Threads -> Labels]
      /\ myTx \in [Threads -> TransType]
      /\ helpTx \in [Threads -> TransType]
  BY DEF Core, TypeOK
<1>b. OpenHasOwner
  BY DEF Core
<1>c. curTx.idx \in Threads /\ \A t \in Threads : Helped(t) \in Threads
  BY <1>a DEF Helped, TransType
<1> USE <1>a, <1>b, <1>c
    DEF OpenHasOwner, IsOpen, Owner, Step, InHelp, HelpLabels,
        ApplyLabels, CalledByCommit
<1>1. ASSUME NEW t \in Threads, Transaction(t)
      PROVE  OpenHasOwner'
  BY <1>1 DEF Transaction, Restart, ForgetAttempt
<1>2. ASSUME NEW t \in Threads, BeginLoadCurTx(t)
      PROVE  OpenHasOwner'
  BY <1>2 DEF BeginLoadCurTx
<1>3. ASSUME NEW t \in Threads, BeginReset(t)
      PROVE  OpenHasOwner'
  BY <1>3 DEF BeginReset
<1>4. ASSUME NEW t \in Threads, BeginSetEra(t)
      PROVE  OpenHasOwner'
  BY <1>4 DEF BeginSetEra
<1>5. ASSUME NEW t \in Threads, BeginRecheck(t)
      PROVE  OpenHasOwner'
  BY <1>5 DEF BeginRecheck
<1>6. ASSUME NEW t \in Threads, HelpCheckRequest(t)
      PROVE  OpenHasOwner'
  <2>1. Owner(t) => Helped(t) = t
    BY DEF Core, OwnerState, NewTx, Trans, Helped
  <2>2. QED
    BY <1>6, <2>1 DEF HelpCheckRequest, AfterHelp, Helped
<1>7. ASSUME NEW t \in Threads, HelpCopyNum(t)
      PROVE  OpenHasOwner'
  BY <1>7 DEF HelpCopyNum
<1>8. ASSUME NEW t \in Threads, HelpCopyEntry(t)
      PROVE  OpenHasOwner'
  BY <1>8 DEF HelpCopyEntry
<1>9. ASSUME NEW t \in Threads, HelpSetEra(t)
      PROVE  OpenHasOwner'
  BY <1>9 DEF HelpSetEra
<1>10. ASSUME NEW t \in Threads, HelpCheckCurTx(t)
      PROVE  OpenHasOwner'
  <2>1. ~Owner(t)
    BY <1>10 DEF HelpCheckCurTx, Core, OwnerState
  <2>2. QED
    BY <1>10, <2>1 DEF HelpCheckCurTx, AfterHelp
<1>11. ASSUME NEW t \in Threads, HelpRecheckRequest(t)
      PROVE  OpenHasOwner'
  <2>1. ~Owner(t)
    BY <1>11 DEF HelpRecheckRequest, Core, OwnerState
  <2>2. QED
    BY <1>11, <2>1 DEF HelpRecheckRequest, AfterHelp
<1>12. ASSUME NEW t \in Threads, ApplyLoadVal(t)
      PROVE  OpenHasOwner'
  BY <1>12 DEF ApplyLoadVal
<1>13. ASSUME NEW t \in Threads, ApplyLoadSeq(t)
      PROVE  OpenHasOwner'
  BY <1>13 DEF ApplyLoadSeq, NextEntry
<1>14. ASSUME NEW t \in Threads, ApplyDcas(t)
      PROVE  OpenHasOwner'
  BY <1>14 DEF ApplyDcas, NextEntry
<1>15. ASSUME NEW t \in Threads, HelpClose(t)
      PROVE  OpenHasOwner'
  <2> DEFINE o == Helped(t)
             new == Trans(helpTx[t].seq + 1, o)
  <2>1. /\ curTx' = curTx /\ myTx' = myTx /\ helpTx' = helpTx
        /\ pc' = [pc EXCEPT ![t] = IF CalledByCommit(t) THEN "retire" ELSE "reset"]
        /\ InHelp(t)
    BY <1>15 DEF HelpClose, AfterHelp
  <2>2. CASE request' = request
    <3>1. request[o] # helpTx[t]
      BY <1>15, <2>2, ThreadFacts DEF HelpClose, Trans, Core
    <3>2. Owner(t) => o = t
      BY DEF Core, OwnerState, NewTx, Trans, Helped
    <3>3. QED
      BY <2>1, <2>2, <3>1, <3>2
  <2>3. CASE request' # request
    <3>1. request' = [request EXCEPT ![o] = new]
      BY <1>15, <2>3 DEF HelpClose
    <3>2. Owner(o) /\ helpTx[o].seq = helpTx[t].seq
      <4>1. CASE o = t
        BY <1>15, <4>1 DEF HelpClose, Core, OwnerState
      <4>2. CASE o # t
        <5>1. request[o] = helpTx[t]
          BY <1>15, <2>3, <4>2 DEF HelpClose
        <5>2. helpTx[t] = curTx
          BY <2>1, <5>1 DEF Helped, Core, PastClosed
        <5>3. QED
          BY <5>1, <5>2 DEF Helped
      <4>3. QED
        BY <4>1, <4>2
    <3>3. curTx.idx = o => curTx.seq <= helpTx[t].seq
      BY <3>2 DEF Core, OwnSeq, NotNewer
    <3>4. curTx # new
      BY <3>3, ThreadFacts DEF Trans, Core
    <3>5. IsOpen' => curTx.idx # o /\ IsOpen
      BY <2>1, <3>1, <3>4
    <3>6. Owner(t) => o = t
      BY DEF Core, OwnerState, NewTx, Trans, Helped
    <3>7. QED
      BY <2>1, <3>5, <3>6
  <2>4. QED
    BY <2>2, <2>3
<1>16. ASSUME NEW t \in Threads, NEW w \in Words, LoadVal(t, w)
      PROVE  OpenHasOwner'
  BY <1>16 DEF LoadVal, Operate
<1>17. ASSUME NEW t \in Threads, NEW w \in Words, NEW v \in Vals,
             Store(t, w, v)
      PROVE  OpenHasOwner'
  BY <1>17 DEF Store, Operate
<1>18. ASSUME NEW t \in Threads, LoadAbort(t)
      PROVE  OpenHasOwner'
  BY <1>18 DEF LoadAbort, Restart, ForgetAttempt
<1>19. ASSUME NEW t \in Threads, LoadSeq(t)
      PROVE  OpenHasOwner'
  BY <1>19 DEF LoadSeq
<1>20. ASSUME NEW t \in Threads, LoadReturn(t)
      PROVE  OpenHasOwner'
  BY <1>20 DEF LoadReturn
<1>21. ASSUME NEW t \in Threads, Delete(t)
      PROVE  OpenHasOwner'
  BY <1>21 DEF Delete, Operate
<1>22. ASSUME NEW t \in Threads, CommitReadOnly(t)
      PROVE  OpenHasOwner'
  BY <1>22 DEF CommitReadOnly
<1>23. ASSUME NEW t \in Threads, CommitCheckFails(t)
      PROVE  OpenHasOwner'
  BY <1>23 DEF CommitCheckFails, Restart, ForgetAttempt
<1>24. ASSUME NEW t \in Threads, CommitCheck(t)
      PROVE  OpenHasOwner'
  BY <1>24 DEF CommitCheck
<1>25. ASSUME NEW t \in Threads, CommitOpen(t)
      PROVE  OpenHasOwner'
  <2>1. curTx.idx = t => curTx.seq <= myTx[t].seq
    BY <1>25 DEF CommitOpen, Core, OwnSeq, NotNewer, ActiveLabels
  <2>2. NewTx(t) # curTx
    BY <2>1, ThreadFacts DEF NewTx, Trans, Core
  <2>3. QED
    BY <1>25, <2>2 DEF CommitOpen
<1>26. ASSUME NEW t \in Threads, CommitCas(t)
      PROVE  OpenHasOwner'
  <2>1. curTx' = NewTx(t) /\ NewTx(t).idx = t /\ NewTx(t) # myTx[t]
    BY <1>26, ThreadFacts DEF CommitCas, NewTx, Trans, Core
  <2>2. QED
    BY <1>26, <2>1 DEF CommitCas
<1>27. ASSUME NEW t \in Threads, CommitCasFails(t)
      PROVE  OpenHasOwner'
  BY <1>27 DEF CommitCasFails, Restart, ForgetAttempt
<1>28. ASSUME NEW t \in Threads, CommitRetire(t)
      PROVE  OpenHasOwner'
  BY <1>28 DEF CommitRetire
<1>29. ASSUME NEW t \in Threads, ClearEra(t)
      PROVE  OpenHasOwner'
  BY <1>29 DEF ClearEra, ForgetAttempt
<1>30. CASE UNCHANGED vars
  BY <1>30 DEF vars
<1>31. QED
  BY <1>1, <1>2, <1>3, <1>4, <1>5, <1>6, <1>7, <1>8, <1>9, <1>10,
     <1>11, <1>12, <1>13, <1>14, <1>15, <1>16, <1>17, <1>18, <1>19, <1>20,
     <1>21, <1>22, <1>23, <1>24, <1>25, <1>26, <1>27, <1>28, <1>29, <1>30
     DEF Next, ThreadNext, BeginTx, HelpApply, Body, CommitTx, Finished

\* An attempt builds a proper write-set and keeps it until it is applied.
LEMMA WriteSetsStep ==
  ASSUME Core, [Next]_vars
  PROVE  WriteSets'
<1>a. /\ log \in [Threads -> Seq(Entry \cup {Garbage})]
      /\ pc \in [Threads -> Labels]
      /\ myTx \in [Threads -> TransType]
      /\ helpTx \in [Threads -> TransType]
  BY DEF Core, TypeOK
<1>b. WriteSets
  BY DEF Core
<1> USE <1>a, <1>b
    DEF WriteSets, HasWriteSet, Owner, Step, InHelp, HelpLabels,
        ApplyLabels, ActiveLabels, LoadLabels, CalledByCommit
<1>1. ASSUME NEW t \in Threads, Transaction(t)
      PROVE  WriteSets'
  BY <1>1 DEF Transaction, Restart, ForgetAttempt
<1>2. ASSUME NEW t \in Threads, BeginLoadCurTx(t)
      PROVE  WriteSets'
  BY <1>2 DEF BeginLoadCurTx
<1>3. ASSUME NEW t \in Threads, BeginReset(t)
      PROVE  WriteSets'
  <2>1. IsWriteSet(<<>>)
    BY DEF IsWriteSet
  <2>2. QED
    BY <1>3, <2>1 DEF BeginReset
<1>4. ASSUME NEW t \in Threads, BeginSetEra(t)
      PROVE  WriteSets'
  BY <1>4 DEF BeginSetEra
<1>5. ASSUME NEW t \in Threads, BeginRecheck(t)
      PROVE  WriteSets'
  BY <1>5 DEF BeginRecheck
<1>6. ASSUME NEW t \in Threads, HelpCheckRequest(t)
      PROVE  WriteSets'
  BY <1>6 DEF HelpCheckRequest, AfterHelp
<1>7. ASSUME NEW t \in Threads, HelpCopyNum(t)
      PROVE  WriteSets'
  <2>1. ~Owner(t)
    BY <1>7 DEF HelpCopyNum, Core, OwnerState
  <2>2. QED
    BY <1>7, <2>1 DEF HelpCopyNum
<1>8. ASSUME NEW t \in Threads, HelpCopyEntry(t)
      PROVE  WriteSets'
  <2>1. ~Owner(t)
    BY <1>8 DEF HelpCopyEntry, Core, OwnerState
  <2>2. QED
    BY <1>8, <2>1 DEF HelpCopyEntry
<1>9. ASSUME NEW t \in Threads, HelpSetEra(t)
      PROVE  WriteSets'
  BY <1>9 DEF HelpSetEra
<1>10. ASSUME NEW t \in Threads, HelpCheckCurTx(t)
      PROVE  WriteSets'
  BY <1>10 DEF HelpCheckCurTx, AfterHelp
<1>11. ASSUME NEW t \in Threads, HelpRecheckRequest(t)
      PROVE  WriteSets'
  BY <1>11 DEF HelpRecheckRequest, AfterHelp
<1>12. ASSUME NEW t \in Threads, ApplyLoadVal(t)
      PROVE  WriteSets'
  BY <1>12 DEF ApplyLoadVal
<1>13. ASSUME NEW t \in Threads, ApplyLoadSeq(t)
      PROVE  WriteSets'
  BY <1>13 DEF ApplyLoadSeq, NextEntry
<1>14. ASSUME NEW t \in Threads, ApplyDcas(t)
      PROVE  WriteSets'
  BY <1>14 DEF ApplyDcas, NextEntry
<1>15. ASSUME NEW t \in Threads, HelpClose(t)
      PROVE  WriteSets'
  BY <1>15 DEF HelpClose, AfterHelp
<1>16. ASSUME NEW t \in Threads, NEW w \in Words, LoadVal(t, w)
      PROVE  WriteSets'
  BY <1>16 DEF LoadVal, Operate
<1>17. ASSUME NEW t \in Threads, NEW w \in Words, NEW v \in Vals,
             Store(t, w, v)
      PROVE  WriteSets'
  <2>1. IsWriteSet(AddOrReplace(log[t], w, v))
    BY <1>17, AddOrReplaceWriteSet DEF Store, Operate, LogType
  <2>2. QED
    BY <1>17, <2>1 DEF Store, Operate
<1>18. ASSUME NEW t \in Threads, LoadAbort(t)
      PROVE  WriteSets'
  BY <1>18 DEF LoadAbort, Restart, ForgetAttempt
<1>19. ASSUME NEW t \in Threads, LoadSeq(t)
      PROVE  WriteSets'
  BY <1>19 DEF LoadSeq
<1>20. ASSUME NEW t \in Threads, LoadReturn(t)
      PROVE  WriteSets'
  BY <1>20 DEF LoadReturn
<1>21. ASSUME NEW t \in Threads, Delete(t)
      PROVE  WriteSets'
  BY <1>21 DEF Delete, Operate
<1>22. ASSUME NEW t \in Threads, CommitReadOnly(t)
      PROVE  WriteSets'
  BY <1>22 DEF CommitReadOnly
<1>23. ASSUME NEW t \in Threads, CommitCheckFails(t)
      PROVE  WriteSets'
  BY <1>23 DEF CommitCheckFails, Restart, ForgetAttempt
<1>24. ASSUME NEW t \in Threads, CommitCheck(t)
      PROVE  WriteSets'
  BY <1>24 DEF CommitCheck
<1>25. ASSUME NEW t \in Threads, CommitOpen(t)
      PROVE  WriteSets'
  BY <1>25 DEF CommitOpen
<1>26. ASSUME NEW t \in Threads, CommitCas(t)
      PROVE  WriteSets'
  BY <1>26 DEF CommitCas
<1>27. ASSUME NEW t \in Threads, CommitCasFails(t)
      PROVE  WriteSets'
  BY <1>27 DEF CommitCasFails, Restart, ForgetAttempt
<1>28. ASSUME NEW t \in Threads, CommitRetire(t)
      PROVE  WriteSets'
  BY <1>28 DEF CommitRetire
<1>29. ASSUME NEW t \in Threads, ClearEra(t)
      PROVE  WriteSets'
  BY <1>29 DEF ClearEra, ForgetAttempt
<1>30. CASE UNCHANGED vars
  BY <1>30 DEF vars
<1>31. QED
  BY <1>1, <1>2, <1>3, <1>4, <1>5, <1>6, <1>7, <1>8, <1>9, <1>10,
     <1>11, <1>12, <1>13, <1>14, <1>15, <1>16, <1>17, <1>18, <1>19, <1>20,
     <1>21, <1>22, <1>23, <1>24, <1>25, <1>26, <1>27, <1>28, <1>29, <1>30
     DEF Next, ThreadNext, BeginTx, HelpApply, Body, CommitTx, Finished

\* The last transaction does not open again, and while it is open its log
\* stays as it is.
OpenKept ==
  curTx' = curTx /\ IsOpen' => IsOpen /\ log'[curTx.idx] = log[curTx.idx]

\* No step opens the last transaction again or changes the log it applies.
LEMMA OpenStep ==
  ASSUME Core, [Next]_vars
  PROVE  OpenKept
<1>a. /\ curTx \in TransType
      /\ request \in [Threads -> TransType]
      /\ log \in [Threads -> Seq(Entry \cup {Garbage})]
      /\ pc \in [Threads -> Labels]
  BY DEF Core, TypeOK
<1>b. curTx.idx \in Threads /\ \A t \in Threads : Helped(t) \in Threads
  BY DEF Core, TypeOK, Helped, TransType
<1> USE <1>a, <1>b
    DEF Step, OpenKept
<1>1. ASSUME NEW t \in Threads, Transaction(t)
      PROVE  OpenKept
  BY <1>1 DEF Transaction, Restart, ForgetAttempt, IsOpen
<1>2. ASSUME NEW t \in Threads, BeginLoadCurTx(t)
      PROVE  OpenKept
  BY <1>2 DEF BeginLoadCurTx, IsOpen
<1>3. ASSUME NEW t \in Threads, BeginReset(t)
      PROVE  OpenKept
  <2>1. CASE IsOpen /\ curTx.idx = t
    BY <1>3, <2>1 DEF BeginReset, Core, OpenHasOwner, OwnerState, Owner, InHelp,
       HelpLabels, ApplyLabels, Operate
  <2>2. CASE ~IsOpen \/ curTx.idx # t
    BY <1>3, <2>2 DEF BeginReset, Operate, IsOpen
  <2>3. QED
    BY <2>1, <2>2
<1>4. ASSUME NEW t \in Threads, BeginSetEra(t)
      PROVE  OpenKept
  BY <1>4 DEF BeginSetEra, IsOpen
<1>5. ASSUME NEW t \in Threads, BeginRecheck(t)
      PROVE  OpenKept
  BY <1>5 DEF BeginRecheck, IsOpen
<1>6. ASSUME NEW t \in Threads, HelpCheckRequest(t)
      PROVE  OpenKept
  BY <1>6 DEF HelpCheckRequest, AfterHelp, IsOpen
<1>7. ASSUME NEW t \in Threads, HelpCopyNum(t)
      PROVE  OpenKept
  <2>1. CASE IsOpen /\ curTx.idx = t
    BY <1>7, <2>1 DEF HelpCopyNum, Core, OpenHasOwner, OwnerState, Owner, InHelp,
       HelpLabels, ApplyLabels, Operate
  <2>2. CASE ~IsOpen \/ curTx.idx # t
    BY <1>7, <2>2 DEF HelpCopyNum, Operate, IsOpen
  <2>3. QED
    BY <2>1, <2>2
<1>8. ASSUME NEW t \in Threads, HelpCopyEntry(t)
      PROVE  OpenKept
  <2>1. CASE IsOpen /\ curTx.idx = t
    BY <1>8, <2>1 DEF HelpCopyEntry, Core, OpenHasOwner, OwnerState, Owner, InHelp,
       HelpLabels, ApplyLabels, Operate
  <2>2. CASE ~IsOpen \/ curTx.idx # t
    BY <1>8, <2>2 DEF HelpCopyEntry, Operate, IsOpen
  <2>3. QED
    BY <2>1, <2>2
<1>9. ASSUME NEW t \in Threads, HelpSetEra(t)
      PROVE  OpenKept
  BY <1>9 DEF HelpSetEra, IsOpen
<1>10. ASSUME NEW t \in Threads, HelpCheckCurTx(t)
      PROVE  OpenKept
  BY <1>10 DEF HelpCheckCurTx, AfterHelp, IsOpen
<1>11. ASSUME NEW t \in Threads, HelpRecheckRequest(t)
      PROVE  OpenKept
  BY <1>11 DEF HelpRecheckRequest, AfterHelp, IsOpen
<1>12. ASSUME NEW t \in Threads, ApplyLoadVal(t)
      PROVE  OpenKept
  BY <1>12 DEF ApplyLoadVal, IsOpen
<1>13. ASSUME NEW t \in Threads, ApplyLoadSeq(t)
      PROVE  OpenKept
  BY <1>13 DEF ApplyLoadSeq, NextEntry, IsOpen
<1>14. ASSUME NEW t \in Threads, ApplyDcas(t)
      PROVE  OpenKept
  BY <1>14 DEF ApplyDcas, NextEntry, IsOpen
<1>15. ASSUME NEW t \in Threads, HelpClose(t)
      PROVE  OpenKept
  <2> DEFINE o == Helped(t)
             new == Trans(helpTx[t].seq + 1, o)
  <2>1. CASE request' = request
    BY <1>15, <2>1 DEF HelpClose, IsOpen
  <2>2. CASE request' # request
    <3>1. request' = [request EXCEPT ![o] = new] /\ InHelp(t)
      BY <1>15, <2>2 DEF HelpClose, InHelp, HelpLabels
    <3>2. Owner(o) /\ helpTx[o].seq = helpTx[t].seq
      <4>1. CASE o = t
        BY <1>15, <3>1, <4>1 DEF HelpClose, Core, OwnerState, Owner
      <4>2. CASE o # t
        <5>1. request[o] = helpTx[t]
          BY <1>15, <2>2, <4>2 DEF HelpClose
        <5>2. helpTx[t] = curTx
          BY <3>1, <5>1 DEF Helped, Core, PastClosed
        <5>3. QED
          BY <5>1, <5>2 DEF Helped, Core, OpenHasOwner, IsOpen
      <4>3. QED
        BY <4>1, <4>2
    <3>3. curTx.idx = o => curTx.seq <= helpTx[t].seq
      BY <3>2 DEF Core, OwnSeq, NotNewer
    <3>4. curTx # new
      BY <3>3, ThreadFacts DEF Trans, Core
    <3>5. QED
      BY <1>15, <3>1, <3>4 DEF HelpClose, IsOpen
  <2>3. QED
    BY <2>1, <2>2
<1>16. ASSUME NEW t \in Threads, NEW w \in Words, LoadVal(t, w)
      PROVE  OpenKept
  BY <1>16 DEF LoadVal, Operate, IsOpen
<1>17. ASSUME NEW t \in Threads, NEW w \in Words, NEW v \in Vals,
             Store(t, w, v)
      PROVE  OpenKept
  <2>1. CASE IsOpen /\ curTx.idx = t
    BY <1>17, <2>1 DEF Store, Core, OpenHasOwner, OwnerState, Owner, InHelp,
       HelpLabels, ApplyLabels, Operate
  <2>2. CASE ~IsOpen \/ curTx.idx # t
    BY <1>17, <2>2 DEF Store, Operate, IsOpen
  <2>3. QED
    BY <2>1, <2>2
<1>18. ASSUME NEW t \in Threads, LoadAbort(t)
      PROVE  OpenKept
  BY <1>18 DEF LoadAbort, Restart, ForgetAttempt, IsOpen
<1>19. ASSUME NEW t \in Threads, LoadSeq(t)
      PROVE  OpenKept
  BY <1>19 DEF LoadSeq, IsOpen
<1>20. ASSUME NEW t \in Threads, LoadReturn(t)
      PROVE  OpenKept
  BY <1>20 DEF LoadReturn, IsOpen
<1>21. ASSUME NEW t \in Threads, Delete(t)
      PROVE  OpenKept
  BY <1>21 DEF Delete, Operate, IsOpen
<1>22. ASSUME NEW t \in Threads, CommitReadOnly(t)
      PROVE  OpenKept
  BY <1>22 DEF CommitReadOnly, IsOpen
<1>23. ASSUME NEW t \in Threads, CommitCheckFails(t)
      PROVE  OpenKept
  BY <1>23 DEF CommitCheckFails, Restart, ForgetAttempt, IsOpen
<1>24. ASSUME NEW t \in Threads, CommitCheck(t)
      PROVE  OpenKept
  BY <1>24 DEF CommitCheck, IsOpen
<1>25. ASSUME NEW t \in Threads, CommitOpen(t)
      PROVE  OpenKept
  <2>1. curTx.idx = t => curTx.seq <= myTx[t].seq
    BY <1>25 DEF CommitOpen, Core, OwnSeq, NotNewer, ActiveLabels
  <2>2. NewTx(t) # curTx
    BY <2>1, ThreadFacts DEF NewTx, Trans, Core
  <2>3. QED
    BY <1>25, <2>2 DEF CommitOpen, IsOpen
<1>26. ASSUME NEW t \in Threads, CommitCas(t)
      PROVE  OpenKept
  <2>1. curTx' = NewTx(t) /\ NewTx(t) # myTx[t]
    BY <1>26, ThreadFacts DEF CommitCas, NewTx, Trans, Core
  <2>2. QED
    BY <1>26, <2>1 DEF CommitCas
<1>27. ASSUME NEW t \in Threads, CommitCasFails(t)
      PROVE  OpenKept
  BY <1>27 DEF CommitCasFails, Restart, ForgetAttempt, IsOpen
<1>28. ASSUME NEW t \in Threads, CommitRetire(t)
      PROVE  OpenKept
  BY <1>28 DEF CommitRetire, IsOpen
<1>29. ASSUME NEW t \in Threads, ClearEra(t)
      PROVE  OpenKept
  BY <1>29 DEF ClearEra, ForgetAttempt, IsOpen
<1>30. CASE UNCHANGED vars
  BY <1>30 DEF vars, IsOpen
<1>31. QED
  BY <1>1, <1>2, <1>3, <1>4, <1>5, <1>6, <1>7, <1>8, <1>9, <1>10,
     <1>11, <1>12, <1>13, <1>14, <1>15, <1>16, <1>17, <1>18, <1>19, <1>20,
     <1>21, <1>22, <1>23, <1>24, <1>25, <1>26, <1>27, <1>28, <1>29, <1>30
     DEF Next, ThreadNext, BeginTx, HelpApply, Body, CommitTx, Finished

\* Entry by entry, the copy of an open write-set is exact.
LEMMA CopyStateStep ==
  ASSUME Core, [Next]_vars
  PROVE  CopyState'
<1>a. /\ log \in [Threads -> Seq(Entry \cup {Garbage})]
      /\ pc \in [Threads -> Labels]
      /\ myTx \in [Threads -> TransType]
      /\ helpTx \in [Threads -> TransType]
      /\ pos \in [Threads -> Nat]
  BY DEF Core, TypeOK
<1>b. OpenKept
  BY OpenStep
<1>c. CopyState
  BY DEF Core
<1>d. ASSUME NEW u \in Threads, curTx' = curTx, helpTx'[u] = helpTx[u],
            log'[u] = log[u], pos'[u] = pos[u], pc'[u] = pc[u]
     PROVE  ThreadCopy(u)'
  BY <1>b, <1>c, <1>d DEF CopyState, ThreadCopy, Copied, Applying, OpenKept
<1> USE <1>a
    DEF CopyState, Step
<1>1. ASSUME NEW t \in Threads, Transaction(t)
      PROVE  CopyState'
  <2>1. ThreadCopy(t)'
    BY <1>1, <1>c DEF Transaction, Restart, ForgetAttempt, ThreadCopy,
       Applying, ApplyLabels
  <2>2. QED
    BY <1>1, <2>1, <1>d DEF Transaction, Restart, ForgetAttempt
<1>2. ASSUME NEW t \in Threads, BeginLoadCurTx(t)
      PROVE  CopyState'
  <2>1. ThreadCopy(t)'
    BY <1>2, <1>c DEF BeginLoadCurTx, ThreadCopy, Applying, ApplyLabels
  <2>2. QED
    BY <1>2, <2>1, <1>d DEF BeginLoadCurTx
<1>3. ASSUME NEW t \in Threads, BeginReset(t)
      PROVE  CopyState'
  <2>1. ThreadCopy(t)'
    BY <1>3, <1>c DEF BeginReset, ThreadCopy, Applying, ApplyLabels
  <2>2. QED
    BY <1>3, <2>1, <1>d DEF BeginReset
<1>4. ASSUME NEW t \in Threads, BeginSetEra(t)
      PROVE  CopyState'
  <2>1. ThreadCopy(t)'
    BY <1>4, <1>c DEF BeginSetEra, ThreadCopy, Applying, ApplyLabels
  <2>2. QED
    BY <1>4, <2>1, <1>d DEF BeginSetEra
<1>5. ASSUME NEW t \in Threads, BeginRecheck(t)
      PROVE  CopyState'
  <2>1. ThreadCopy(t)'
    BY <1>5, <1>c DEF BeginRecheck, ThreadCopy, Applying, ApplyLabels
  <2>2. QED
    BY <1>5, <2>1, <1>d DEF BeginRecheck
<1>6. ASSUME NEW t \in Threads, HelpCheckRequest(t)
      PROVE  CopyState'
  <2>1. ThreadCopy(t)'
    BY <1>6, <1>c DEF HelpCheckRequest, AfterHelp, ThreadCopy,
       Applying, ApplyLabels
  <2>2. QED
    BY <1>6, <2>1, <1>d DEF HelpCheckRequest, AfterHelp
<1>7. ASSUME NEW t \in Threads, HelpCopyNum(t)
      PROVE  CopyState'
  <2>1. Len([i \in 1 .. Len(log[Helped(t)]) |-> Garbage]) = Len(log[Helped(t)])
        /\ Len(log[Helped(t)]) \in Nat
    BY DEF Helped, TransType
  <2>2. log'[t] = [i \in 1 .. Len(log[Helped(t)]) |-> Garbage]
        /\ Len(log'[t]) = Len(log[Helped(t)]) /\ pos'[t] = 0 /\ pos[t] = 0
    BY <1>7, <1>c, <2>1 DEF HelpCopyNum, ThreadCopy, Applying, ApplyLabels
  <2>3. curTx' = curTx /\ helpTx' = helpTx
        /\ pc' = [pc EXCEPT ![t] = IF log[Helped(t)] = <<>> THEN "helpEra"
                                                          ELSE "copyEntry"]
    BY <1>7 DEF HelpCopyNum
  <2>4. log[Helped(t)] # <<>> => Len(log[Helped(t)]) > 0
    BY DEF Helped, TransType
  <2>5. Copied(t, pos[t])'
    BY <1>b, <2>1, <2>2, <2>3 DEF Copied, OpenKept, Helped
  <2>6. log[Helped(t)] = <<>> => Copied(t, Len(log[t]))'
    BY <1>b, <2>1, <2>2, <2>3 DEF Copied, OpenKept, Helped
  <2>7. ThreadCopy(t)'
    BY <2>2, <2>3, <2>4, <2>5, <2>6 DEF ThreadCopy
  <2>8. QED
    BY <1>7, <1>d, <2>7 DEF HelpCopyNum
<1>8. ASSUME NEW t \in Threads, HelpCopyEntry(t)
      PROVE  CopyState'
  <2>1. t \in Threads /\ pc[t] = "copyEntry" /\ Helped(t) \in Threads
        /\ pos[t] < Len(log[t]) /\ Copied(t, pos[t])
    BY <1>8, <1>c DEF HelpCopyEntry, ThreadCopy, Helped, TransType
  <2>2. PICK e : log' = [log EXCEPT ![t][pos[t] + 1] = e]
                 /\ (e = EntryAt(Helped(t), pos[t] + 1)
                     \/ MayBeWriting(Helped(t)))
    BY <1>8 DEF HelpCopyEntry
  <2>3. /\ Len(log'[t]) = Len(log[t]) /\ Len(log[t]) \in Nat
        /\ \A i \in 1 .. Len(log[t]) : i # pos[t] + 1 => log'[t][i] = log[t][i]
        /\ pos[t] + 1 \in 1 .. Len(log[t])
        /\ log'[t][pos[t] + 1] = e
    BY <2>1, <2>2
  <2>4. ASSUME helpTx[t] = curTx, IsOpen'
        PROVE  /\ Len(log'[t]) = Len(log'[curTx.idx])
               /\ \A i \in 1 .. pos[t] + 1 : log'[t][i] = log'[curTx.idx][i]
    <3>1. curTx' = curTx
      BY <1>8 DEF HelpCopyEntry
    <3>2. IsOpen /\ log'[curTx.idx] = log[curTx.idx]
      BY <1>b, <2>4, <3>1 DEF OpenKept
    <3>3. pc[curTx.idx] \in {"chkRequest", "close"} \cup ApplyLabels
      BY <3>2, ThreadFacts DEF Core, OpenHasOwner, OwnerState
    <3>4. ~MayBeWriting(Helped(t)) /\ Helped(t) = curTx.idx
      BY <2>4, <3>3 DEF MayBeWriting, Helped, ApplyLabels
    <3>5. /\ Len(log[t]) = Len(log[curTx.idx])
          /\ \A i \in 1 .. pos[t] : log[t][i] = log[curTx.idx][i]
      BY <2>1, <2>4, <3>2 DEF Copied
    <3>6. e = log[curTx.idx][pos[t] + 1]
      BY <2>2, <2>3, <3>4, <3>5 DEF EntryAt, Helped, TransType
    <3>7. ASSUME NEW i \in 1 .. pos[t] + 1
          PROVE  log'[t][i] = log[curTx.idx][i]
      <4>1. CASE i = pos[t] + 1
        BY <2>3, <3>6, <4>1
      <4>2. CASE i # pos[t] + 1
        <5>1. i \in 1 .. pos[t] /\ i \in 1 .. Len(log[t])
          BY <2>1, <2>3, <4>2
        <5>2. QED
          BY <2>3, <3>5, <4>2, <5>1
      <4>3. QED
        BY <4>1, <4>2
    <3>8. QED
      BY <2>3, <3>2, <3>5, <3>7
  <2>5. /\ helpTx' = helpTx /\ curTx' = curTx
        /\ pos' = [pos EXCEPT ![t] = IF pos[t] + 1 = Len(log[t]) THEN 0 ELSE pos[t] + 1]
        /\ pc' = [pc EXCEPT ![t] =
                   IF pos[t] + 1 = Len(log[t]) THEN "helpEra" ELSE "copyEntry"]
    BY <1>8 DEF HelpCopyEntry
  <2>6. CASE pos[t] + 1 = Len(log[t])
    <3>1. Copied(t, Len(log[t]))'
      BY <2>3, <2>4, <2>5, <2>6 DEF Copied
    <3>2. QED
      BY <1>c, <1>d, <2>2, <2>5, <2>6, <3>1 DEF ThreadCopy
  <2>7. CASE pos[t] + 1 # Len(log[t])
    <3>1. Copied(t, pos[t])'
      BY <2>3, <2>4, <2>5, <2>7 DEF Copied
    <3>2. pos'[t] < Len(log'[t])
      BY <2>1, <2>3, <2>5, <2>7
    <3>3. QED
      BY <1>c, <1>d, <2>2, <2>5, <2>7, <3>1, <3>2 DEF ThreadCopy
  <2>8. QED
    BY <2>6, <2>7
<1>9. ASSUME NEW t \in Threads, HelpSetEra(t)
      PROVE  CopyState'
  <2>1. ThreadCopy(t)'
    BY <1>9, <1>b, <1>c DEF HelpSetEra, ThreadCopy, Copied, OpenKept,
       Applying, ApplyLabels
  <2>2. QED
    BY <1>9, <2>1, <1>d DEF HelpSetEra
<1>10. ASSUME NEW t \in Threads, HelpCheckCurTx(t)
      PROVE  CopyState'
  <2>1. ThreadCopy(t)'
    BY <1>10, <1>b, <1>c DEF HelpCheckCurTx, AfterHelp, ThreadCopy,
       Copied, OpenKept, Applying, ApplyLabels
  <2>2. QED
    BY <1>10, <2>1, <1>d DEF HelpCheckCurTx, AfterHelp
<1>11. ASSUME NEW t \in Threads, HelpRecheckRequest(t)
      PROVE  CopyState'
  <2>1. ThreadCopy(t)'
    BY <1>11, <1>c DEF HelpRecheckRequest, AfterHelp, ThreadCopy,
       Applying, ApplyLabels
  <2>2. QED
    BY <1>11, <2>1, <1>d DEF HelpRecheckRequest, AfterHelp
<1>12. ASSUME NEW t \in Threads, ApplyLoadVal(t)
      PROVE  CopyState'
  <2>1. ThreadCopy(t)'
    BY <1>12, <1>c DEF ApplyLoadVal, ThreadCopy, Applying, ApplyLabels
  <2>2. QED
    BY <1>12, <2>1, <1>d DEF ApplyLoadVal
<1>13. ASSUME NEW t \in Threads, ApplyLoadSeq(t)
      PROVE  CopyState'
  <2>1. ThreadCopy(t)'
    BY <1>13, <1>c DEF ApplyLoadSeq, NextEntry, ThreadCopy, Applying,
       ApplyLabels
  <2>2. QED
    BY <1>13, <2>1, <1>d DEF ApplyLoadSeq, NextEntry
<1>14. ASSUME NEW t \in Threads, ApplyDcas(t)
      PROVE  CopyState'
  <2>1. ThreadCopy(t)'
    BY <1>14, <1>c DEF ApplyDcas, NextEntry, ThreadCopy, Applying,
       ApplyLabels
  <2>2. QED
    BY <1>14, <2>1, <1>d DEF ApplyDcas, NextEntry
<1>15. ASSUME NEW t \in Threads, HelpClose(t)
      PROVE  CopyState'
  <2>1. ThreadCopy(t)'
    BY <1>15, <1>c DEF HelpClose, AfterHelp, ThreadCopy, Applying,
       ApplyLabels
  <2>2. QED
    BY <1>15, <2>1, <1>d DEF HelpClose, AfterHelp
<1>16. ASSUME NEW t \in Threads, NEW w \in Words, LoadVal(t, w)
      PROVE  CopyState'
  <2>1. ThreadCopy(t)'
    BY <1>16, <1>c DEF LoadVal, Operate, ThreadCopy, Applying,
       ApplyLabels
  <2>2. QED
    BY <1>16, <2>1, <1>d DEF LoadVal, Operate
<1>17. ASSUME NEW t \in Threads, NEW w \in Words, NEW v \in Vals,
             Store(t, w, v)
      PROVE  CopyState'
  <2>1. ThreadCopy(t)'
    BY <1>17, <1>c DEF Store, Operate, ThreadCopy, Applying,
       ApplyLabels
  <2>2. QED
    BY <1>17, <2>1, <1>d DEF Store, Operate
<1>18. ASSUME NEW t \in Threads, LoadAbort(t)
      PROVE  CopyState'
  <2>1. ThreadCopy(t)'
    BY <1>18, <1>c DEF LoadAbort, Restart, ForgetAttempt, ThreadCopy,
       Applying, ApplyLabels
  <2>2. QED
    BY <1>18, <2>1, <1>d DEF LoadAbort, Restart, ForgetAttempt
<1>19. ASSUME NEW t \in Threads, LoadSeq(t)
      PROVE  CopyState'
  <2>1. ThreadCopy(t)'
    BY <1>19, <1>c DEF LoadSeq, ThreadCopy, Applying, ApplyLabels
  <2>2. QED
    BY <1>19, <2>1, <1>d DEF LoadSeq
<1>20. ASSUME NEW t \in Threads, LoadReturn(t)
      PROVE  CopyState'
  <2>1. ThreadCopy(t)'
    BY <1>20, <1>c DEF LoadReturn, ThreadCopy, Applying, ApplyLabels
  <2>2. QED
    BY <1>20, <2>1, <1>d DEF LoadReturn
<1>21. ASSUME NEW t \in Threads, Delete(t)
      PROVE  CopyState'
  <2>1. ThreadCopy(t)'
    BY <1>21, <1>c DEF Delete, Operate, ThreadCopy, Applying,
       ApplyLabels
  <2>2. QED
    BY <1>21, <2>1, <1>d DEF Delete, Operate
<1>22. ASSUME NEW t \in Threads, CommitReadOnly(t)
      PROVE  CopyState'
  <2>1. ThreadCopy(t)'
    BY <1>22, <1>c DEF CommitReadOnly, ThreadCopy, Applying,
       ApplyLabels
  <2>2. QED
    BY <1>22, <2>1, <1>d DEF CommitReadOnly
<1>23. ASSUME NEW t \in Threads, CommitCheckFails(t)
      PROVE  CopyState'
  <2>1. ThreadCopy(t)'
    BY <1>23, <1>c DEF CommitCheckFails, Restart, ForgetAttempt,
       ThreadCopy, Applying, ApplyLabels
  <2>2. QED
    BY <1>23, <2>1, <1>d DEF CommitCheckFails, Restart, ForgetAttempt
<1>24. ASSUME NEW t \in Threads, CommitCheck(t)
      PROVE  CopyState'
  <2>1. ThreadCopy(t)'
    BY <1>24, <1>c DEF CommitCheck, ThreadCopy, Applying, ApplyLabels
  <2>2. QED
    BY <1>24, <2>1, <1>d DEF CommitCheck
<1>25. ASSUME NEW t \in Threads, CommitOpen(t)
      PROVE  CopyState'
  <2>1. ThreadCopy(t)'
    BY <1>25, <1>c DEF CommitOpen, ThreadCopy, Applying, ApplyLabels
  <2>2. QED
    BY <1>25, <2>1, <1>d DEF CommitOpen
<1>26. ASSUME NEW t \in Threads, CommitCas(t)
      PROVE  CopyState'
  <2>1. curTx' = NewTx(t) /\ NewTx(t).seq = curTx.seq + 1 /\ curTx.seq \in Nat
    BY <1>26, ThreadFacts DEF CommitCas, NewTx, Trans, Core
  <2>2. ASSUME NEW u \in Threads, InHelp(u)
        PROVE  helpTx[u] # curTx'
    <3>1. helpTx[u] = curTx \/ helpTx[u].seq < curTx.seq
      BY <2>2 DEF Core, SeqBound
    <3>2. helpTx[u].seq \in Nat
      BY ThreadFacts DEF Core
    <3>3. QED
      BY <2>1, <3>1, <3>2
  <2>3. \A u \in Threads : u # t => ThreadCopy(u)'
    BY <1>26, <1>c, <2>2 DEF CommitCas, ThreadCopy, Applying, Copied, InHelp,
       HelpLabels, ApplyLabels
  <2>4. ThreadCopy(t)'
    BY <1>26, <1>c DEF CommitCas, ThreadCopy, Applying, ApplyLabels
  <2>5. QED
    BY <2>3, <2>4
<1>27. ASSUME NEW t \in Threads, CommitCasFails(t)
      PROVE  CopyState'
  <2>1. ThreadCopy(t)'
    BY <1>27, <1>c DEF CommitCasFails, Restart, ForgetAttempt,
       ThreadCopy, Applying, ApplyLabels
  <2>2. QED
    BY <1>27, <2>1, <1>d DEF CommitCasFails, Restart, ForgetAttempt
<1>28. ASSUME NEW t \in Threads, CommitRetire(t)
      PROVE  CopyState'
  <2>1. ThreadCopy(t)'
    BY <1>28, <1>c DEF CommitRetire, ThreadCopy, Applying, ApplyLabels
  <2>2. QED
    BY <1>28, <2>1, <1>d DEF CommitRetire
<1>29. ASSUME NEW t \in Threads, ClearEra(t)
      PROVE  CopyState'
  <2>1. ThreadCopy(t)'
    BY <1>29, <1>c DEF ClearEra, ForgetAttempt, ThreadCopy, Applying,
       ApplyLabels
  <2>2. QED
    BY <1>29, <2>1, <1>d DEF ClearEra, ForgetAttempt
<1>30. CASE UNCHANGED vars
  BY <1>30, <1>d DEF vars
<1>31. QED
  BY <1>1, <1>2, <1>3, <1>4, <1>5, <1>6, <1>7, <1>8, <1>9, <1>10,
     <1>11, <1>12, <1>13, <1>14, <1>15, <1>16, <1>17, <1>18, <1>19, <1>20,
     <1>21, <1>22, <1>23, <1>24, <1>25, <1>26, <1>27, <1>28, <1>29, <1>30
     DEF Next, ThreadNext, BeginTx, HelpApply, Body, CommitTx, Finished

\* A step that writes a word gives it the value that the last transaction,
\* which is open, has logged for it, and the sequence of that transaction.
WritesOpenTransaction ==
  \A w \in Words :
    mem'[w] # mem[w] =>
      /\ IsOpen /\ curTx' = curTx
      /\ Logged(log[curTx.idx], w)
      /\ mem[w].seq < curTx.seq
      /\ mem'[w] = [val |-> cmem[w], seq |-> curTx.seq]

\* Only a thread with an exact copy of an open write-set writes to memory.
LEMMA MemStep ==
  ASSUME Core, [Next]_vars
  PROVE  WritesOpenTransaction
<1> USE DEF WritesOpenTransaction, Step
<1>1. ASSUME NEW t \in Threads, Transaction(t)
      PROVE  WritesOpenTransaction
  BY <1>1 DEF Transaction, Restart, ForgetAttempt
<1>2. ASSUME NEW t \in Threads, BeginLoadCurTx(t)
      PROVE  WritesOpenTransaction
  BY <1>2 DEF BeginLoadCurTx
<1>3. ASSUME NEW t \in Threads, BeginReset(t)
      PROVE  WritesOpenTransaction
  BY <1>3 DEF BeginReset
<1>4. ASSUME NEW t \in Threads, BeginSetEra(t)
      PROVE  WritesOpenTransaction
  BY <1>4 DEF BeginSetEra
<1>5. ASSUME NEW t \in Threads, BeginRecheck(t)
      PROVE  WritesOpenTransaction
  BY <1>5 DEF BeginRecheck
<1>6. ASSUME NEW t \in Threads, HelpCheckRequest(t)
      PROVE  WritesOpenTransaction
  BY <1>6 DEF HelpCheckRequest, AfterHelp
<1>7. ASSUME NEW t \in Threads, HelpCopyNum(t)
      PROVE  WritesOpenTransaction
  BY <1>7 DEF HelpCopyNum
<1>8. ASSUME NEW t \in Threads, HelpCopyEntry(t)
      PROVE  WritesOpenTransaction
  BY <1>8 DEF HelpCopyEntry
<1>9. ASSUME NEW t \in Threads, HelpSetEra(t)
      PROVE  WritesOpenTransaction
  BY <1>9 DEF HelpSetEra
<1>10. ASSUME NEW t \in Threads, HelpCheckCurTx(t)
      PROVE  WritesOpenTransaction
  BY <1>10 DEF HelpCheckCurTx, AfterHelp
<1>11. ASSUME NEW t \in Threads, HelpRecheckRequest(t)
      PROVE  WritesOpenTransaction
  BY <1>11 DEF HelpRecheckRequest, AfterHelp
<1>12. ASSUME NEW t \in Threads, ApplyLoadVal(t)
      PROVE  WritesOpenTransaction
  BY <1>12 DEF ApplyLoadVal
<1>13. ASSUME NEW t \in Threads, ApplyLoadSeq(t)
      PROVE  WritesOpenTransaction
  BY <1>13 DEF ApplyLoadSeq, NextEntry
<1>14. ASSUME NEW t \in Threads, ApplyDcas(t)
      PROVE  WritesOpenTransaction
  <2> DEFINE e == ApplyEntry(t)
  <2>1. Applying(t) /\ pc[t] = "applyDcas"
    BY <1>14 DEF ApplyDcas, NextEntry, Applying, ApplyLabels, Step
  <2>2. e.addr \in Words /\ ThreadApply(t)
    BY <2>1, ApplyFacts DEF Core, ApplyState
  <2>3. CASE mem[e.addr] = [val |-> lval[t], seq |-> lseq[t]]
    <3>1. mem[e.addr].seq < helpTx[t].seq /\ lseq[t] < helpTx[t].seq
      BY <2>1, <2>2, <2>3 DEF ThreadApply
    <3>2. \E i \in DOMAIN log[t] : e = log[t][i]
      <4>1. t \in Nat /\ pos[t] \in Nat /\ Len(log[t]) \in Nat \ {0}
        BY <2>1, ApplyFacts, ThreadFacts DEF Core, TypeOK
      <4>2. pos[t] \in 0 .. Len(log[t]) - 1
        BY <2>1, <2>2, <4>1 DEF ThreadApply
      <4>3. QED
        BY <2>1, <4>2, ApplyFacts DEF ApplyEntry
    <3>3. mem[e.addr].seq \in Nat /\ helpTx[t].seq \in Nat
      BY <2>2, ThreadFacts DEF Core, TypeOK
    <3>4. ~AllApplied(t)
      BY <3>1, <3>2, <3>3 DEF AllApplied
    <3>5. Current(t) /\ log[t] = log[curTx.idx]
      BY <2>1, <2>2, <3>4 DEF ThreadApply, ExactOrApplied
    <3>6. e.val = cmem[e.addr] /\ Logged(log[curTx.idx], e.addr)
      BY <3>2, <3>5 DEF Core, MemoryState, Current, Logged
    <3>7. mem' = [mem EXCEPT ![e.addr] = [val |-> cmem[e.addr], seq |-> curTx.seq]]
          /\ curTx' = curTx /\ mem[e.addr].seq < curTx.seq
      BY <1>14, <2>3, <3>1, <3>5, <3>6 DEF ApplyDcas, Current
    <3>8. QED
      BY <2>2, <3>5, <3>6, <3>7 DEF WritesOpenTransaction, Current, Core, TypeOK
  <2>4. CASE mem[e.addr] # [val |-> lval[t], seq |-> lseq[t]]
    BY <1>14, <2>4 DEF ApplyDcas, WritesOpenTransaction
  <2>5. QED
    BY <2>3, <2>4
<1>15. ASSUME NEW t \in Threads, HelpClose(t)
      PROVE  WritesOpenTransaction
  BY <1>15 DEF HelpClose, AfterHelp
<1>16. ASSUME NEW t \in Threads, NEW w \in Words, LoadVal(t, w)
      PROVE  WritesOpenTransaction
  BY <1>16 DEF LoadVal, Operate
<1>17. ASSUME NEW t \in Threads, NEW w \in Words, NEW v \in Vals,
             Store(t, w, v)
      PROVE  WritesOpenTransaction
  BY <1>17 DEF Store, Operate
<1>18. ASSUME NEW t \in Threads, LoadAbort(t)
      PROVE  WritesOpenTransaction
  BY <1>18 DEF LoadAbort, Restart, ForgetAttempt
<1>19. ASSUME NEW t \in Threads, LoadSeq(t)
      PROVE  WritesOpenTransaction
  BY <1>19 DEF LoadSeq
<1>20. ASSUME NEW t \in Threads, LoadReturn(t)
      PROVE  WritesOpenTransaction
  BY <1>20 DEF LoadReturn
<1>21. ASSUME NEW t \in Threads, Delete(t)
      PROVE  WritesOpenTransaction
  BY <1>21 DEF Delete, Operate
<1>22. ASSUME NEW t \in Threads, CommitReadOnly(t)
      PROVE  WritesOpenTransaction
  BY <1>22 DEF CommitReadOnly
<1>23. ASSUME NEW t \in Threads, CommitCheckFails(t)
      PROVE  WritesOpenTransaction
  BY <1>23 DEF CommitCheckFails, Restart, ForgetAttempt
<1>24. ASSUME NEW t \in Threads, CommitCheck(t)
      PROVE  WritesOpenTransaction
  BY <1>24 DEF CommitCheck
<1>25. ASSUME NEW t \in Threads, CommitOpen(t)
      PROVE  WritesOpenTransaction
  BY <1>25 DEF CommitOpen
<1>26. ASSUME NEW t \in Threads, CommitCas(t)
      PROVE  WritesOpenTransaction
  BY <1>26 DEF CommitCas
<1>27. ASSUME NEW t \in Threads, CommitCasFails(t)
      PROVE  WritesOpenTransaction
  BY <1>27 DEF CommitCasFails, Restart, ForgetAttempt
<1>28. ASSUME NEW t \in Threads, CommitRetire(t)
      PROVE  WritesOpenTransaction
  BY <1>28 DEF CommitRetire
<1>29. ASSUME NEW t \in Threads, ClearEra(t)
      PROVE  WritesOpenTransaction
  BY <1>29 DEF ClearEra, ForgetAttempt
<1>30. CASE UNCHANGED vars
  BY <1>30 DEF vars
<1>31. QED
  BY <1>1, <1>2, <1>3, <1>4, <1>5, <1>6, <1>7, <1>8, <1>9, <1>10,
     <1>11, <1>12, <1>13, <1>14, <1>15, <1>16, <1>17, <1>18, <1>19, <1>20,
     <1>21, <1>22, <1>23, <1>24, <1>25, <1>26, <1>27, <1>28, <1>29, <1>30
     DEF Next, ThreadNext, BeginTx, HelpApply, Body, CommitTx, Finished

\* A step that ends the transaction being open closes its request, and its
\* whole write-set is in memory.
ClosesApplied ==
  IsOpen /\ ~(IsOpen' /\ curTx' = curTx) =>
    /\ curTx' = curTx /\ mem' = mem
    /\ \A i \in DOMAIN log[curTx.idx] :
         LET w == log[curTx.idx][i].addr
         IN  w \in Words /\ mem[w].seq >= curTx.seq

\* Only a thread that has been through the whole write-set closes a request.
LEMMA CloseStep ==
  ASSUME Core, [Next]_vars
  PROVE  ClosesApplied
<1> USE DEF ClosesApplied, Step
<1>1. ASSUME NEW t \in Threads, Transaction(t)
      PROVE  ClosesApplied
  BY <1>1 DEF Transaction, Restart, ForgetAttempt, IsOpen
<1>2. ASSUME NEW t \in Threads, BeginLoadCurTx(t)
      PROVE  ClosesApplied
  BY <1>2 DEF BeginLoadCurTx, IsOpen
<1>3. ASSUME NEW t \in Threads, BeginReset(t)
      PROVE  ClosesApplied
  BY <1>3 DEF BeginReset, IsOpen
<1>4. ASSUME NEW t \in Threads, BeginSetEra(t)
      PROVE  ClosesApplied
  BY <1>4 DEF BeginSetEra, IsOpen
<1>5. ASSUME NEW t \in Threads, BeginRecheck(t)
      PROVE  ClosesApplied
  BY <1>5 DEF BeginRecheck, IsOpen
<1>6. ASSUME NEW t \in Threads, HelpCheckRequest(t)
      PROVE  ClosesApplied
  BY <1>6 DEF HelpCheckRequest, AfterHelp, IsOpen
<1>7. ASSUME NEW t \in Threads, HelpCopyNum(t)
      PROVE  ClosesApplied
  BY <1>7 DEF HelpCopyNum, IsOpen
<1>8. ASSUME NEW t \in Threads, HelpCopyEntry(t)
      PROVE  ClosesApplied
  BY <1>8 DEF HelpCopyEntry, IsOpen
<1>9. ASSUME NEW t \in Threads, HelpSetEra(t)
      PROVE  ClosesApplied
  BY <1>9 DEF HelpSetEra, IsOpen
<1>10. ASSUME NEW t \in Threads, HelpCheckCurTx(t)
      PROVE  ClosesApplied
  BY <1>10 DEF HelpCheckCurTx, AfterHelp, IsOpen
<1>11. ASSUME NEW t \in Threads, HelpRecheckRequest(t)
      PROVE  ClosesApplied
  BY <1>11 DEF HelpRecheckRequest, AfterHelp, IsOpen
<1>12. ASSUME NEW t \in Threads, ApplyLoadVal(t)
      PROVE  ClosesApplied
  BY <1>12 DEF ApplyLoadVal, IsOpen
<1>13. ASSUME NEW t \in Threads, ApplyLoadSeq(t)
      PROVE  ClosesApplied
  BY <1>13 DEF ApplyLoadSeq, NextEntry, IsOpen
<1>14. ASSUME NEW t \in Threads, ApplyDcas(t)
      PROVE  ClosesApplied
  BY <1>14 DEF ApplyDcas, NextEntry, IsOpen
<1>15. ASSUME NEW t \in Threads, HelpClose(t)
      PROVE  ClosesApplied
  <2> DEFINE o == Helped(t)
             new == Trans(helpTx[t].seq + 1, o)
  <2>1. CASE IsOpen /\ request' # request /\ o = curTx.idx
    <3>1. request[o] = curTx /\ InHelp(t) /\ pc[t] = "close"
      BY <1>15, <2>1 DEF HelpClose, IsOpen, InHelp, HelpLabels
    <3>2. helpTx[t] = curTx
      <4>1. CASE o = t
        BY <2>1, <4>1 DEF Core, OpenHasOwner
      <4>2. CASE o # t
        <5>1. request[o] = helpTx[t]
          BY <1>15, <2>1, <4>2 DEF HelpClose, Core, TypeOK
        <5>2. QED
          BY <3>1, <5>1
      <4>3. QED
        BY <4>1, <4>2
    <3>3. AllApplied(t) /\ log[t] = log[curTx.idx]
      BY <2>1, <3>1, <3>2 DEF Core, ApplyState, ThreadApply, ExactOrApplied, Current
    <3>4. QED
      BY <1>15, <3>2, <3>3 DEF HelpClose, AllApplied
  <2>2. CASE ~(request' # request /\ o = curTx.idx)
    <3>1. DOMAIN request = Threads /\ curTx.idx \in Threads
      BY DEF Core, TypeOK, TransType
    <3>2. PICK r : /\ curTx' = curTx
                   /\ request' = [request EXCEPT ![o] = r]
      BY <1>15 DEF HelpClose
    <3>3. request'[curTx.idx] = request[curTx.idx]
      BY <2>2, <3>1, <3>2
    <3>4. QED
      BY <3>2, <3>3 DEF IsOpen
  <2>3. CASE ~IsOpen
    BY <2>3
  <2>4. QED
    BY <2>1, <2>2, <2>3
<1>16. ASSUME NEW t \in Threads, NEW w \in Words, LoadVal(t, w)
      PROVE  ClosesApplied
  BY <1>16 DEF LoadVal, Operate, IsOpen
<1>17. ASSUME NEW t \in Threads, NEW w \in Words, NEW v \in Vals,
             Store(t, w, v)
      PROVE  ClosesApplied
  BY <1>17 DEF Store, Operate, IsOpen
<1>18. ASSUME NEW t \in Threads, LoadAbort(t)
      PROVE  ClosesApplied
  BY <1>18 DEF LoadAbort, Restart, ForgetAttempt, IsOpen
<1>19. ASSUME NEW t \in Threads, LoadSeq(t)
      PROVE  ClosesApplied
  BY <1>19 DEF LoadSeq, IsOpen
<1>20. ASSUME NEW t \in Threads, LoadReturn(t)
      PROVE  ClosesApplied
  BY <1>20 DEF LoadReturn, IsOpen
<1>21. ASSUME NEW t \in Threads, Delete(t)
      PROVE  ClosesApplied
  BY <1>21 DEF Delete, Operate, IsOpen
<1>22. ASSUME NEW t \in Threads, CommitReadOnly(t)
      PROVE  ClosesApplied
  BY <1>22 DEF CommitReadOnly, IsOpen
<1>23. ASSUME NEW t \in Threads, CommitCheckFails(t)
      PROVE  ClosesApplied
  BY <1>23 DEF CommitCheckFails, Restart, ForgetAttempt, IsOpen
<1>24. ASSUME NEW t \in Threads, CommitCheck(t)
      PROVE  ClosesApplied
  BY <1>24 DEF CommitCheck, IsOpen
<1>25. ASSUME NEW t \in Threads, CommitOpen(t)
      PROVE  ClosesApplied
  <2>1. curTx.idx = t /\ IsOpen => pc[t] # "open"
    BY DEF Core, OpenHasOwner, Owner, InHelp, HelpLabels, ApplyLabels
  <2>2. /\ curTx' = curTx
        /\ curTx.idx # t => request'[curTx.idx] = request[curTx.idx]
    <3>1. DOMAIN request = Threads /\ curTx.idx \in Threads
      BY DEF Core, TypeOK, TransType
    <3>2. QED
      BY <1>25, <3>1 DEF CommitOpen
  <2>3. pc[t] = "open"
    BY <1>25 DEF CommitOpen, Step
  <2>4. QED
    BY <2>1, <2>2, <2>3 DEF IsOpen
<1>26. ASSUME NEW t \in Threads, CommitCas(t)
      PROVE  ClosesApplied
  <2>1. Reading(t) /\ curTx = myTx[t]
    BY <1>26 DEF CommitCas, Reading, ReaderLabels, ActiveLabels
  <2>2. QED
    BY <2>1 DEF Core, PastClosed, IsOpen
<1>27. ASSUME NEW t \in Threads, CommitCasFails(t)
      PROVE  ClosesApplied
  BY <1>27 DEF CommitCasFails, Restart, ForgetAttempt, IsOpen
<1>28. ASSUME NEW t \in Threads, CommitRetire(t)
      PROVE  ClosesApplied
  BY <1>28 DEF CommitRetire, IsOpen
<1>29. ASSUME NEW t \in Threads, ClearEra(t)
      PROVE  ClosesApplied
  BY <1>29 DEF ClearEra, ForgetAttempt, IsOpen
<1>30. CASE UNCHANGED vars
  BY <1>30 DEF vars, IsOpen
<1>31. QED
  BY <1>1, <1>2, <1>3, <1>4, <1>5, <1>6, <1>7, <1>8, <1>9, <1>10,
     <1>11, <1>12, <1>13, <1>14, <1>15, <1>16, <1>17, <1>18, <1>19, <1>20,
     <1>21, <1>22, <1>23, <1>24, <1>25, <1>26, <1>27, <1>28, <1>29, <1>30
     DEF Next, ThreadNext, BeginTx, HelpApply, Body, CommitTx, Finished

\* curTx moves on to the next sequence, from a transaction that is closed, and
\* nobody is there before.
Advances ==
  curTx' # curTx =>
    /\ curTx'.seq = curTx.seq + 1
    /\ ~IsOpen
    /\ mem' = mem
    /\ \A t \in Threads : /\ InHelp(t) => helpTx[t] # curTx'
                          /\ Reading(t) => myTx[t] # curTx'

\* Only the compare-and-swap of a commit moves curTx.
LEMMA AdvanceStep ==
  ASSUME Core, [Next]_vars
  PROVE  Advances
<1> USE DEF Advances, Step
<1>1. ASSUME NEW t \in Threads, Transaction(t)
      PROVE  Advances
  BY <1>1 DEF Transaction, Restart, ForgetAttempt
<1>2. ASSUME NEW t \in Threads, BeginLoadCurTx(t)
      PROVE  Advances
  BY <1>2 DEF BeginLoadCurTx
<1>3. ASSUME NEW t \in Threads, BeginReset(t)
      PROVE  Advances
  BY <1>3 DEF BeginReset
<1>4. ASSUME NEW t \in Threads, BeginSetEra(t)
      PROVE  Advances
  BY <1>4 DEF BeginSetEra
<1>5. ASSUME NEW t \in Threads, BeginRecheck(t)
      PROVE  Advances
  BY <1>5 DEF BeginRecheck
<1>6. ASSUME NEW t \in Threads, HelpCheckRequest(t)
      PROVE  Advances
  BY <1>6 DEF HelpCheckRequest, AfterHelp
<1>7. ASSUME NEW t \in Threads, HelpCopyNum(t)
      PROVE  Advances
  BY <1>7 DEF HelpCopyNum
<1>8. ASSUME NEW t \in Threads, HelpCopyEntry(t)
      PROVE  Advances
  BY <1>8 DEF HelpCopyEntry
<1>9. ASSUME NEW t \in Threads, HelpSetEra(t)
      PROVE  Advances
  BY <1>9 DEF HelpSetEra
<1>10. ASSUME NEW t \in Threads, HelpCheckCurTx(t)
      PROVE  Advances
  BY <1>10 DEF HelpCheckCurTx, AfterHelp
<1>11. ASSUME NEW t \in Threads, HelpRecheckRequest(t)
      PROVE  Advances
  BY <1>11 DEF HelpRecheckRequest, AfterHelp
<1>12. ASSUME NEW t \in Threads, ApplyLoadVal(t)
      PROVE  Advances
  BY <1>12 DEF ApplyLoadVal
<1>13. ASSUME NEW t \in Threads, ApplyLoadSeq(t)
      PROVE  Advances
  BY <1>13 DEF ApplyLoadSeq, NextEntry
<1>14. ASSUME NEW t \in Threads, ApplyDcas(t)
      PROVE  Advances
  BY <1>14 DEF ApplyDcas, NextEntry
<1>15. ASSUME NEW t \in Threads, HelpClose(t)
      PROVE  Advances
  BY <1>15 DEF HelpClose, AfterHelp
<1>16. ASSUME NEW t \in Threads, NEW w \in Words, LoadVal(t, w)
      PROVE  Advances
  BY <1>16 DEF LoadVal, Operate
<1>17. ASSUME NEW t \in Threads, NEW w \in Words, NEW v \in Vals,
             Store(t, w, v)
      PROVE  Advances
  BY <1>17 DEF Store, Operate
<1>18. ASSUME NEW t \in Threads, LoadAbort(t)
      PROVE  Advances
  BY <1>18 DEF LoadAbort, Restart, ForgetAttempt
<1>19. ASSUME NEW t \in Threads, LoadSeq(t)
      PROVE  Advances
  BY <1>19 DEF LoadSeq
<1>20. ASSUME NEW t \in Threads, LoadReturn(t)
      PROVE  Advances
  BY <1>20 DEF LoadReturn
<1>21. ASSUME NEW t \in Threads, Delete(t)
      PROVE  Advances
  BY <1>21 DEF Delete, Operate
<1>22. ASSUME NEW t \in Threads, CommitReadOnly(t)
      PROVE  Advances
  BY <1>22 DEF CommitReadOnly
<1>23. ASSUME NEW t \in Threads, CommitCheckFails(t)
      PROVE  Advances
  BY <1>23 DEF CommitCheckFails, Restart, ForgetAttempt
<1>24. ASSUME NEW t \in Threads, CommitCheck(t)
      PROVE  Advances
  BY <1>24 DEF CommitCheck
<1>25. ASSUME NEW t \in Threads, CommitOpen(t)
      PROVE  Advances
  BY <1>25 DEF CommitOpen
<1>26. ASSUME NEW t \in Threads, CommitCas(t)
      PROVE  Advances
  <2>1. curTx' = NewTx(t) /\ curTx = myTx[t]
    BY <1>26 DEF CommitCas
  <2>2. curTx'.seq = curTx.seq + 1
    BY <2>1 DEF NewTx, Trans
  <2>3. ~IsOpen
    BY <1>26, <2>1 DEF CommitCas, Core, PastClosed, Reading, ReaderLabels,
       ActiveLabels, IsOpen
  <2>4. ASSUME NEW u \in Threads, InHelp(u)
        PROVE  helpTx[u] # curTx'
    <3>1. helpTx[u] = curTx \/ helpTx[u].seq < curTx.seq
      BY <2>4 DEF Core, SeqBound
    <3>2. helpTx[u].seq \in Nat /\ curTx.seq \in Nat
      BY ThreadFacts DEF Core
    <3>3. QED
      BY <2>2, <3>1, <3>2
  <2>5. ASSUME NEW u \in Threads, Reading(u)
        PROVE  myTx[u] # curTx'
    <3>1. myTx[u] = curTx \/ myTx[u].seq < curTx.seq
      BY <2>5 DEF Core, SeqBound
    <3>2. myTx[u].seq \in Nat /\ curTx.seq \in Nat
      BY ThreadFacts DEF Core
    <3>3. QED
      BY <2>2, <3>1, <3>2
  <2>6. curTx' # curTx
    BY <2>2, ThreadFacts DEF Core
  <2>7. QED
    BY <1>26, <2>2, <2>3, <2>4, <2>5, <2>6 DEF CommitCas, Advances
<1>27. ASSUME NEW t \in Threads, CommitCasFails(t)
      PROVE  Advances
  BY <1>27 DEF CommitCasFails, Restart, ForgetAttempt
<1>28. ASSUME NEW t \in Threads, CommitRetire(t)
      PROVE  Advances
  BY <1>28 DEF CommitRetire
<1>29. ASSUME NEW t \in Threads, ClearEra(t)
      PROVE  Advances
  BY <1>29 DEF ClearEra, ForgetAttempt
<1>30. CASE UNCHANGED vars
  BY <1>30 DEF vars
<1>31. QED
  BY <1>1, <1>2, <1>3, <1>4, <1>5, <1>6, <1>7, <1>8, <1>9, <1>10,
     <1>11, <1>12, <1>13, <1>14, <1>15, <1>16, <1>17, <1>18, <1>19, <1>20,
     <1>21, <1>22, <1>23, <1>24, <1>25, <1>26, <1>27, <1>28, <1>29, <1>30
     DEF Next, ThreadNext, BeginTx, HelpApply, Body, CommitTx, Finished

\* What the memory says of a transaction in helpApply outlives every step.
LEMMA AppliedKept ==
  ASSUME Core, [Next]_vars, NEW u \in Threads, InHelp(u),
         helpTx'[u] = helpTx[u], log'[u] = log[u]
  PROVE  /\ \A w \in Words : mem'[w] = mem[w] \/ mem'[w].seq >= helpTx[u].seq
         /\ \A w \in Words : mem[w].seq >= helpTx[u].seq
                               => mem'[w].seq >= helpTx[u].seq
         /\ AllApplied(u) => AllApplied(u)'
         /\ ExactOrApplied(u) => ExactOrApplied(u)'
<1>1. WritesOpenTransaction /\ ClosesApplied /\ Advances /\ OpenKept
  BY MemStep, CloseStep, AdvanceStep, OpenStep
<1>2. curTx.seq >= helpTx[u].seq
  <2>1. helpTx[u] = curTx \/ helpTx[u].seq < curTx.seq
    BY DEF Core, SeqBound
  <2>2. helpTx[u].seq \in Nat /\ curTx.seq \in Nat
    BY ThreadFacts DEF Core
  <2>3. QED
    BY <2>1, <2>2
<1>3. \A w \in Words : mem'[w] = mem[w] \/ mem'[w].seq >= helpTx[u].seq
  <2>1. ASSUME NEW w \in Words, mem'[w] # mem[w]
        PROVE  mem'[w].seq = curTx.seq
    <3>1. mem'[w] = [val |-> cmem[w], seq |-> curTx.seq]
      BY <1>1, <2>1 DEF WritesOpenTransaction
    <3>2. QED
      BY <3>1
  <2>2. QED
    BY <1>2, <2>1
<1>4. AllApplied(u) => AllApplied(u)'
  BY <1>3 DEF AllApplied
<1>5. ASSUME ExactOrApplied(u)
      PROVE  ExactOrApplied(u)'
  <2>1. CASE Current(u) /\ Current(u)'
    BY <1>1, <1>5, <2>1 DEF Current, ExactOrApplied, OpenKept
  <2>2. CASE Current(u) /\ ~Current(u)'
    <3>1. AllApplied(u)
      BY <1>1, <1>5, <2>2 DEF Current, ExactOrApplied, ClosesApplied, AllApplied
    <3>2. QED
      BY <1>4, <2>2, <3>1 DEF ExactOrApplied
  <2>3. CASE ~Current(u)
    <3>1. ~Current(u)'
      BY <1>1, <2>3 DEF Current, OpenKept, Advances
    <3>2. QED
      BY <1>4, <1>5, <2>3, <3>1 DEF ExactOrApplied
  <2>4. QED
    BY <2>1, <2>2, <2>3
<1>6. QED
  BY <1>3, <1>4, <1>5

\* A thread that does not move stays as it is, whatever the others do.
LEMMA ApplyFrame ==
  ASSUME Core, [Next]_vars, NEW u \in Threads,
         pc'[u] = pc[u], pos'[u] = pos[u], log'[u] = log[u],
         helpTx'[u] = helpTx[u], lval'[u] = lval[u], lseq'[u] = lseq[u]
  PROVE  ThreadApply(u)'
<1>1. ThreadApply(u)
  BY DEF Core, ApplyState
<1>2. CASE pc[u] = "close"
  <2>1. InHelp(u)
    BY <1>2 DEF InHelp, HelpLabels
  <2>2. AllApplied(u)' /\ ExactOrApplied(u)'
    BY <1>1, <1>2, <2>1, AppliedKept DEF ThreadApply
  <2>3. QED
    BY <1>2, <2>2 DEF ThreadApply, Applying, ApplyLabels
<1>3. CASE Applying(u)
  <2>1. InHelp(u)
    BY <1>3 DEF Applying, InHelp, HelpLabels
  <2>2. ExactOrApplied(u)'
    BY <1>1, <1>3, <2>1, AppliedKept DEF ThreadApply
  <2>3. /\ Len(log[u]) \in Nat \ {0} /\ pos[u] \in Nat /\ u \in Nat
        /\ \A k \in 0 .. Len(log[u]) - 1 :
             log[u][ApplyIndex(u, k, Len(log[u])) + 1].addr \in Words
        /\ ApplyEntry(u).addr \in Words
    BY <1>3, ApplyFacts, ThreadFacts DEF Core, TypeOK
  <2>4. \A w \in Words : /\ mem'[w] = mem[w] \/ mem'[w].seq >= helpTx[u].seq
                         /\ mem[w].seq >= helpTx[u].seq
                            => mem'[w].seq >= helpTx[u].seq
    BY <2>1, AppliedKept
  <2>5. ASSUME NEW k \in 0 .. pos[u] - 1
        PROVE  EntryApplied(u, k)'
    <3>1. k \in 0 .. Len(log[u]) - 1 /\ EntryApplied(u, k)
      BY <1>1, <1>3, <2>3 DEF ThreadApply
    <3>2. QED
      BY <2>3, <2>4, <3>1 DEF EntryApplied
  <2>6. ApplyEntry(u)' = ApplyEntry(u)
    BY DEF ApplyEntry
  <2>7. ToApply(u)' => ToApply(u) /\ mem'[ApplyEntry(u).addr] = mem[ApplyEntry(u).addr]
    <3> DEFINE w == ApplyEntry(u).addr
    <3>1. w \in Words /\ mem'[w].seq \in Nat /\ helpTx[u].seq \in Nat
      BY <2>3, TypeStep, ThreadFacts DEF Core, TypeOK
    <3>2. mem'[w] = mem[w] \/ mem'[w].seq >= helpTx[u].seq
      BY <2>3, <2>4
    <3>3. ToApply(u)' => mem'[w].seq < helpTx[u].seq
      BY <2>6 DEF ToApply
    <3>4. QED
      BY <3>1, <3>2, <3>3 DEF ToApply
  <2>8. QED
    BY <1>1, <1>3, <2>2, <2>5, <2>6, <2>7 DEF ThreadApply, Applying, ApplyLabels
<1>4. CASE pc[u] # "close" /\ ~Applying(u)
  BY <1>4 DEF ThreadApply, Applying, ApplyLabels
<1>5. QED
  BY <1>2, <1>3, <1>4

\* Two logs with the same entries are the same log.
LEMMA SameEntries ==
  ASSUME NEW S, NEW s \in Seq(S), NEW r \in Seq(S), Len(s) = Len(r),
         \A i \in 1 .. Len(s) : s[i] = r[i]
  PROVE  s = r
<1>1. s \in [1 .. Len(s) -> S] /\ r \in [1 .. Len(s) -> S]
  OBVIOUS
<1>2. s = [i \in 1 .. Len(s) |-> s[i]] /\ r = [i \in 1 .. Len(s) |-> r[i]]
  BY <1>1, Zenon
<1>3. [i \in 1 .. Len(s) |-> s[i]] = [i \in 1 .. Len(s) |-> r[i]]
  OBVIOUS
<1>4. QED
  BY <1>2, <1>3, Zenon

\* When the loop of apply moves on, what it leaves behind is in memory.
LEMMA NextEntryApplied ==
  ASSUME Core, [Next]_vars, NEW t \in Threads, Applying(t), NEW from,
         NextEntry(t, from), log' = log, helpTx' = helpTx,
         NEW p, p = pos[t], EntryApplied(t, p)'
  PROVE  ThreadApply(t)'
<1>1. ThreadApply(t) /\ InHelp(t)
  BY DEF Core, ApplyState, InHelp, Applying, HelpLabels
<1>2. /\ Len(log[t]) \in Nat \ {0} /\ pos[t] \in Nat /\ t \in Nat
      /\ pos[t] < Len(log[t])
      /\ DOMAIN log[t] = 1 .. Len(log[t])
      /\ \A k \in 0 .. Len(log[t]) - 1 :
           ApplyIndex(t, k, Len(log[t])) + 1 \in DOMAIN log[t]
      /\ \A i \in DOMAIN log[t] : log[t][i].addr \in Words
  <2>1. log[t] \in Seq(Entry \cup {Garbage}) /\ pos[t] \in Nat /\ t \in Nat
    BY ThreadFacts DEF Core, TypeOK
  <2>2. DOMAIN log[t] = 1 .. Len(log[t])
    BY <2>1
  <2>3. QED
    BY <1>1, <2>1, <2>2, ApplyFacts DEF ThreadApply
<1>3. ExactOrApplied(t)'
  BY <1>1, AppliedKept DEF ThreadApply
<1>4. \A k \in 0 .. p : EntryApplied(t, k)'
  <2>1. \A k \in 0 .. pos[t] - 1 : EntryApplied(t, k)
    BY <1>1 DEF ThreadApply
  <2>2. \A w \in Words : mem[w].seq >= helpTx[t].seq
                         => mem'[w].seq >= helpTx[t].seq
    BY <1>1, AppliedKept
  <2>3. ASSUME NEW k \in 0 .. p - 1
        PROVE  EntryApplied(t, k)'
    <3>1. k \in 0 .. Len(log[t]) - 1 /\ EntryApplied(t, k)
      BY <1>2, <2>1
    <3>2. log[t][ApplyIndex(t, k, Len(log[t])) + 1].addr \in Words
      BY <1>2, <3>1
    <3>3. QED
      BY <2>2, <3>1, <3>2 DEF EntryApplied
  <2>4. QED
    BY <1>2, <2>3
<1>5. CASE pos[t] + 1 = Len(log[t])
  <2>1. pc'[t] = "close"
    BY <1>5 DEF NextEntry, Step, Core, TypeOK
  <2>2. ASSUME NEW i \in DOMAIN log[t]
        PROVE  mem'[log[t][i].addr].seq >= helpTx[t].seq
    <3>1. Len(log[t]) \in Nat /\ Len(log[t]) > 0 /\ i - 1 \in 0 .. Len(log[t]) - 1
      BY <1>2, <2>2
    <3>2. PICK k \in 0 .. Len(log[t]) - 1 : ApplyIndex(t, k, Len(log[t])) = i - 1
      BY ONLY <1>2, <3>1, ApplyIndexOnto
    <3>3. EntryApplied(t, k)' /\ ApplyIndex(t, k, Len(log[t])) + 1 = i
      BY <1>2, <1>4, <1>5, <3>2
    <3>4. QED
      BY <3>3 DEF EntryApplied
  <2>3. AllApplied(t)'
    BY <1>2, <2>2 DEF AllApplied
  <2>4. QED
    BY <1>3, <2>1, <2>3 DEF ThreadApply, Applying, ApplyLabels
<1>6. CASE pos[t] + 1 # Len(log[t])
  <2>1. pc'[t] = "applyVal" /\ pos'[t] = pos[t] + 1
    BY <1>6 DEF NextEntry, Step, Core, TypeOK
  <2>2. pos'[t] < Len(log'[t]) /\ \A k \in 0 .. pos'[t] - 1 : EntryApplied(t, k)'
    BY <1>2, <1>4, <1>6, <2>1
  <2>3. QED
    BY <1>3, <2>1, <2>2 DEF ThreadApply, Applying, ApplyLabels
<1>7. QED
  BY <1>5, <1>6

\* Whoever applies a write-set does so exactly or changes nothing.
LEMMA ApplyStateStep ==
  ASSUME Core, [Next]_vars
  PROVE  ApplyState'
<1>a. /\ pc \in [Threads -> Labels]
      /\ log \in [Threads -> Seq(Entry \cup {Garbage})]
      /\ helpTx \in [Threads -> TransType]
      /\ pos \in [Threads -> Nat]
      /\ lval \in [Threads -> Vals]
      /\ lseq \in [Threads -> Nat]
  BY DEF Core, TypeOK
<1>b. ASSUME NEW u \in Threads, pc'[u] = pc[u], pos'[u] = pos[u],
            log'[u] = log[u], helpTx'[u] = helpTx[u],
            lval'[u] = lval[u], lseq'[u] = lseq[u]
     PROVE  ThreadApply(u)'
  BY <1>b, ApplyFrame
<1>c. \A u \in Threads : ThreadApply(u)
  BY DEF Core, ApplyState
<1> USE <1>a
    DEF ApplyState, Step, Applying, ApplyLabels
<1>1. ASSUME NEW t \in Threads, Transaction(t)
      PROVE  ApplyState'
  <2>1. ThreadApply(t)'
    BY <1>1 DEF Transaction, Restart, ForgetAttempt, ThreadApply
  <2>2. QED
    BY <1>1, <1>b, <2>1 DEF Transaction, Restart, ForgetAttempt
<1>2. ASSUME NEW t \in Threads, BeginLoadCurTx(t)
      PROVE  ApplyState'
  <2>1. ThreadApply(t)'
    BY <1>2 DEF BeginLoadCurTx, ThreadApply
  <2>2. QED
    BY <1>2, <1>b, <2>1 DEF BeginLoadCurTx
<1>3. ASSUME NEW t \in Threads, BeginReset(t)
      PROVE  ApplyState'
  <2>1. ThreadApply(t)'
    BY <1>3 DEF BeginReset, ThreadApply
  <2>2. QED
    BY <1>3, <1>b, <2>1 DEF BeginReset
<1>4. ASSUME NEW t \in Threads, BeginSetEra(t)
      PROVE  ApplyState'
  <2>1. ThreadApply(t)'
    BY <1>4 DEF BeginSetEra, ThreadApply
  <2>2. QED
    BY <1>4, <1>b, <2>1 DEF BeginSetEra
<1>5. ASSUME NEW t \in Threads, BeginRecheck(t)
      PROVE  ApplyState'
  <2>1. ThreadApply(t)'
    BY <1>5 DEF BeginRecheck, ThreadApply
  <2>2. QED
    BY <1>5, <1>b, <2>1 DEF BeginRecheck
<1>6. ASSUME NEW t \in Threads, HelpCheckRequest(t)
      PROVE  ApplyState'
  <2>1. /\ curTx' = curTx /\ request' = request /\ log' = log /\ helpTx' = helpTx
        /\ pos' = pos /\ pos[t] = 0 /\ InHelp(t) /\ mem' = mem
        /\ pc'[t] \in Labels \ ApplyLabels \/ pc'[t] = "applyVal"
        /\ pc'[t] # "applySeq" /\ pc'[t] # "applyDcas"
    BY <1>6 DEF HelpCheckRequest, AfterHelp, InHelp, HelpLabels, Labels, Core,
       CopyState, ThreadCopy, Applying
  <2>2. pc'[t] \in {"close", "applyVal"} => Helped(t) = t /\ request[t] = helpTx[t]
    BY <1>6 DEF HelpCheckRequest, AfterHelp
  <2>3. pc'[t] \in {"close", "applyVal"} => helpTx[t] = curTx /\ curTx.idx = t
    BY <2>1, <2>2 DEF Core, PastClosed, Helped
  <2>4. pc'[t] = "close" => log[t] = <<>>
    BY <1>6 DEF HelpCheckRequest, AfterHelp
  <2>5. pc'[t] = "applyVal" => Len(log[t]) > 0
    BY <1>6 DEF HelpCheckRequest, AfterHelp, Core, TypeOK
  <2>6. pc'[t] \in {"close", "applyVal"} => ExactOrApplied(t)'
    BY <2>1, <2>2, <2>3 DEF ExactOrApplied, Current, IsOpen
  <2>7. pc'[t] = "close" => AllApplied(t)'
    BY <2>1, <2>4 DEF AllApplied
  <2>8. ThreadApply(t)'
    BY <2>1, <2>5, <2>6, <2>7 DEF ThreadApply
  <2>9. QED
    BY <1>6, <1>b, <2>8 DEF HelpCheckRequest
<1>7. ASSUME NEW t \in Threads, HelpCopyNum(t)
      PROVE  ApplyState'
  <2>1. ThreadApply(t)'
    BY <1>7 DEF HelpCopyNum, ThreadApply
  <2>2. QED
    BY <1>7, <1>b, <2>1 DEF HelpCopyNum
<1>8. ASSUME NEW t \in Threads, HelpCopyEntry(t)
      PROVE  ApplyState'
  <2>1. ThreadApply(t)'
    BY <1>8 DEF HelpCopyEntry, ThreadApply
  <2>2. QED
    BY <1>8, <1>b, <2>1 DEF HelpCopyEntry
<1>9. ASSUME NEW t \in Threads, HelpSetEra(t)
      PROVE  ApplyState'
  <2>1. ThreadApply(t)'
    BY <1>9 DEF HelpSetEra, ThreadApply
  <2>2. QED
    BY <1>9, <1>b, <2>1 DEF HelpSetEra
<1>10. ASSUME NEW t \in Threads, HelpCheckCurTx(t)
      PROVE  ApplyState'
  <2>1. ThreadApply(t)'
    BY <1>10 DEF HelpCheckCurTx, AfterHelp, ThreadApply
  <2>2. QED
    BY <1>10, <1>b, <2>1 DEF HelpCheckCurTx, AfterHelp
<1>11. ASSUME NEW t \in Threads, HelpRecheckRequest(t)
      PROVE  ApplyState'
  <2>1. /\ curTx' = curTx /\ request' = request /\ log' = log /\ helpTx' = helpTx
        /\ pos' = pos /\ pos[t] = 0 /\ InHelp(t) /\ mem' = mem
        /\ pc'[t] # "applySeq" /\ pc'[t] # "applyDcas"
    BY <1>11 DEF HelpRecheckRequest, AfterHelp, InHelp, HelpLabels, Core,
       CopyState, ThreadCopy, Applying
  <2>2. ASSUME pc'[t] \in {"close", "applyVal"}
        PROVE  ExactOrApplied(t)'
    <3>1. request[Helped(t)] = helpTx[t] /\ pc[t] = "rechkRequest"
      BY <1>11, <2>2 DEF HelpRecheckRequest, AfterHelp
    <3>2. Current(t)
      BY <2>1, <3>1 DEF Core, PastClosed, Helped, Current, IsOpen
    <3>3. /\ log[t] \in Seq(Entry \cup {Garbage})
          /\ log[curTx.idx] \in Seq(Entry \cup {Garbage})
      BY ThreadFacts DEF Core, TypeOK
    <3>4. log[t] = log[curTx.idx]
      <4>1. Len(log[t]) = Len(log[curTx.idx])
            /\ \A i \in 1 .. Len(log[t]) : log[t][i] = log[curTx.idx][i]
        BY <3>1, <3>2 DEF Core, CopyState, ThreadCopy, Copied, Current
      <4>2. QED
        BY <3>2, <3>3, <4>1, SameEntries DEF Current
    <3>5. QED
      BY <2>1, <3>2, <3>4 DEF ExactOrApplied, Current, IsOpen
  <2>3. pc'[t] = "close" => log[t] = <<>>
    BY <1>11 DEF HelpRecheckRequest, AfterHelp
  <2>4. pc'[t] = "applyVal" => Len(log[t]) > 0
    BY <1>11 DEF HelpRecheckRequest, AfterHelp, Core, TypeOK
  <2>5. pc'[t] = "close" => AllApplied(t)'
    BY <2>1, <2>3 DEF AllApplied
  <2>6. ThreadApply(t)'
    BY <2>1, <2>2, <2>4, <2>5 DEF ThreadApply
  <2>7. QED
    BY <1>11, <1>b, <2>6 DEF HelpRecheckRequest
<1>12. ASSUME NEW t \in Threads, ApplyLoadVal(t)
      PROVE  ApplyState'
  <2>1. Applying(t) /\ pc'[t] = "applySeq" /\ ApplyEntry(t)' = ApplyEntry(t)
    BY <1>12 DEF ApplyLoadVal, ApplyEntry, Applying
  <2>2. lval'[t] = mem'[ApplyEntry(t).addr].val
    BY <1>12 DEF ApplyLoadVal
  <2>3. /\ pos'[t] < Len(log'[t])
        /\ ExactOrApplied(t)'
        /\ \A k \in 0 .. pos'[t] - 1 : EntryApplied(t, k)'
    BY <1>12, <1>c, <2>1 DEF ApplyLoadVal, ThreadApply, ExactOrApplied, AllApplied,
       EntryApplied, Current, IsOpen
  <2>4. ThreadApply(t)'
    BY <2>1, <2>2, <2>3 DEF ThreadApply
  <2>5. QED
    BY <1>12, <1>b, <2>4 DEF ApplyLoadVal
<1>13. ASSUME NEW t \in Threads, ApplyLoadSeq(t)
      PROVE  ApplyState'
  <2>1. Applying(t) /\ pc[t] = "applySeq" /\ ThreadApply(t)
    BY <1>13, <1>c DEF ApplyLoadSeq, Applying
  <2>2. CASE ToApply(t)
    <3>1. /\ curTx' = curTx /\ request' = request /\ log' = log
          /\ helpTx' = helpTx /\ mem' = mem /\ pos' = pos /\ lval' = lval
          /\ pc'[t] = "applyDcas" /\ lseq'[t] = mem[ApplyEntry(t).addr].seq
      BY <1>13, <2>1, <2>2 DEF ApplyLoadSeq
    <3>2. ApplyEntry(t)' = ApplyEntry(t) /\ ApplyEntry(t).addr \in Words
      BY <2>1, <3>1, ApplyFacts DEF ApplyEntry
    <3>3. lval[t] = mem[ApplyEntry(t).addr].val
      BY <2>1, <2>2 DEF ThreadApply
    <3>4. mem'[ApplyEntry(t).addr] = [val |-> lval'[t], seq |-> lseq'[t]]
      BY <3>1, <3>2, <3>3 DEF Core, TypeOK
    <3>5. lseq'[t] < helpTx'[t].seq
      BY <2>2, <3>1 DEF ToApply
    <3>6. /\ pos'[t] < Len(log'[t])
          /\ ExactOrApplied(t)'
          /\ \A k \in 0 .. pos'[t] - 1 : EntryApplied(t, k)'
      BY <2>1, <3>1 DEF ThreadApply, ExactOrApplied, AllApplied, EntryApplied,
         Current, IsOpen
    <3>7. ThreadApply(t)'
      BY <3>1, <3>2, <3>4, <3>5, <3>6 DEF ThreadApply
    <3>8. QED
      BY <1>13, <1>b, <2>2, <3>7 DEF ApplyLoadSeq
  <2>3. CASE ~ToApply(t)
    <3>1. NextEntry(t, "applySeq") /\ log' = log /\ helpTx' = helpTx
      BY <1>13, <2>3 DEF ApplyLoadSeq
    <3>2. ASSUME NEW p, p = pos[t]
          PROVE  EntryApplied(t, p)'
      <4> DEFINE w == ApplyEntry(t).addr
      <4>1. w \in Words /\ mem[w].seq \in Nat /\ helpTx[t].seq \in Nat
        BY <2>1, ApplyFacts, ThreadFacts DEF Core, TypeOK
      <4>2. mem[w].seq >= helpTx[t].seq /\ mem' = mem
        BY <1>13, <2>3, <4>1 DEF ApplyLoadSeq, ToApply
      <4>3. QED
        BY <3>1, <3>2, <4>2 DEF EntryApplied, ApplyEntry
    <3>3. ThreadApply(t)'
      BY <2>1, <3>1, <3>2, NextEntryApplied
    <3>4. QED
      BY <1>13, <1>b, <3>1, <3>3 DEF ApplyLoadSeq, NextEntry
  <2>4. QED
    BY <2>2, <2>3
<1>14. ASSUME NEW t \in Threads, ApplyDcas(t)
      PROVE  ApplyState'
  <2>1. Applying(t) /\ pc[t] = "applyDcas" /\ ThreadApply(t)
    BY <1>14, <1>c DEF ApplyDcas, NextEntry, Applying
  <2>2. NextEntry(t, "applyDcas") /\ log' = log /\ helpTx' = helpTx
    BY <1>14 DEF ApplyDcas
  <2>3. ASSUME NEW p, p = pos[t]
        PROVE  EntryApplied(t, p)'
    <3> DEFINE w == ApplyEntry(t).addr
    <3>1. w \in Words /\ mem[w].seq \in Nat /\ helpTx[t].seq \in Nat
      BY <2>1, ApplyFacts, ThreadFacts DEF Core, TypeOK
    <3>2. mem'[w].seq >= helpTx[t].seq
      <4>1. CASE mem[w] = [val |-> lval[t], seq |-> lseq[t]]
        <5>1. mem' = [mem EXCEPT ![w] = [val |-> ApplyEntry(t).val,
                                         seq |-> helpTx[t].seq]]
          BY <1>14, <4>1 DEF ApplyDcas
        <5>2. QED
          BY <3>1, <5>1 DEF Core, TypeOK
      <4>2. CASE mem[w] # [val |-> lval[t], seq |-> lseq[t]]
        <5>1. mem' = [mem EXCEPT ![w] = mem[w]] /\ ~ToApply(t)
          BY <1>14, <2>1, <4>2 DEF ApplyDcas, ThreadApply
        <5>2. QED
          BY <3>1, <5>1 DEF ToApply, Core, TypeOK
      <4>3. QED
        BY <4>1, <4>2
    <3>3. QED
      BY <2>2, <2>3, <3>2 DEF EntryApplied, ApplyEntry
  <2>4. ThreadApply(t)'
    BY <2>1, <2>2, <2>3, NextEntryApplied
  <2>5. QED
    BY <1>14, <1>b, <2>2, <2>4 DEF ApplyDcas, NextEntry
<1>15. ASSUME NEW t \in Threads, HelpClose(t)
      PROVE  ApplyState'
  <2>1. ThreadApply(t)'
    BY <1>15 DEF HelpClose, AfterHelp, ThreadApply
  <2>2. QED
    BY <1>15, <1>b, <2>1 DEF HelpClose, AfterHelp
<1>16. ASSUME NEW t \in Threads, NEW w \in Words, LoadVal(t, w)
      PROVE  ApplyState'
  <2>1. ThreadApply(t)'
    BY <1>16 DEF LoadVal, Operate, ThreadApply
  <2>2. QED
    BY <1>16, <1>b, <2>1 DEF LoadVal, Operate
<1>17. ASSUME NEW t \in Threads, NEW w \in Words, NEW v \in Vals,
             Store(t, w, v)
      PROVE  ApplyState'
  <2>1. ThreadApply(t)'
    BY <1>17 DEF Store, Operate, ThreadApply
  <2>2. QED
    BY <1>17, <1>b, <2>1 DEF Store, Operate
<1>18. ASSUME NEW t \in Threads, LoadAbort(t)
      PROVE  ApplyState'
  <2>1. ThreadApply(t)'
    BY <1>18 DEF LoadAbort, Restart, ForgetAttempt, ThreadApply
  <2>2. QED
    BY <1>18, <1>b, <2>1 DEF LoadAbort, Restart, ForgetAttempt
<1>19. ASSUME NEW t \in Threads, LoadSeq(t)
      PROVE  ApplyState'
  <2>1. ThreadApply(t)'
    BY <1>19 DEF LoadSeq, ThreadApply
  <2>2. QED
    BY <1>19, <1>b, <2>1 DEF LoadSeq
<1>20. ASSUME NEW t \in Threads, LoadReturn(t)
      PROVE  ApplyState'
  <2>1. ThreadApply(t)'
    BY <1>20 DEF LoadReturn, ThreadApply
  <2>2. QED
    BY <1>20, <1>b, <2>1 DEF LoadReturn
<1>21. ASSUME NEW t \in Threads, Delete(t)
      PROVE  ApplyState'
  <2>1. ThreadApply(t)'
    BY <1>21 DEF Delete, Operate, ThreadApply
  <2>2. QED
    BY <1>21, <1>b, <2>1 DEF Delete, Operate
<1>22. ASSUME NEW t \in Threads, CommitReadOnly(t)
      PROVE  ApplyState'
  <2>1. ThreadApply(t)'
    BY <1>22 DEF CommitReadOnly, ThreadApply
  <2>2. QED
    BY <1>22, <1>b, <2>1 DEF CommitReadOnly
<1>23. ASSUME NEW t \in Threads, CommitCheckFails(t)
      PROVE  ApplyState'
  <2>1. ThreadApply(t)'
    BY <1>23 DEF CommitCheckFails, Restart, ForgetAttempt, ThreadApply
  <2>2. QED
    BY <1>23, <1>b, <2>1 DEF CommitCheckFails, Restart, ForgetAttempt
<1>24. ASSUME NEW t \in Threads, CommitCheck(t)
      PROVE  ApplyState'
  <2>1. ThreadApply(t)'
    BY <1>24 DEF CommitCheck, ThreadApply
  <2>2. QED
    BY <1>24, <1>b, <2>1 DEF CommitCheck
<1>25. ASSUME NEW t \in Threads, CommitOpen(t)
      PROVE  ApplyState'
  <2>1. ThreadApply(t)'
    BY <1>25 DEF CommitOpen, ThreadApply
  <2>2. QED
    BY <1>25, <1>b, <2>1 DEF CommitOpen
<1>26. ASSUME NEW t \in Threads, CommitCas(t)
      PROVE  ApplyState'
  <2>1. ThreadApply(t)'
    BY <1>26 DEF CommitCas, ThreadApply
  <2>2. QED
    BY <1>26, <1>b, <2>1 DEF CommitCas
<1>27. ASSUME NEW t \in Threads, CommitCasFails(t)
      PROVE  ApplyState'
  <2>1. ThreadApply(t)'
    BY <1>27 DEF CommitCasFails, Restart, ForgetAttempt, ThreadApply
  <2>2. QED
    BY <1>27, <1>b, <2>1 DEF CommitCasFails, Restart, ForgetAttempt
<1>28. ASSUME NEW t \in Threads, CommitRetire(t)
      PROVE  ApplyState'
  <2>1. ThreadApply(t)'
    BY <1>28 DEF CommitRetire, ThreadApply
  <2>2. QED
    BY <1>28, <1>b, <2>1 DEF CommitRetire
<1>29. ASSUME NEW t \in Threads, ClearEra(t)
      PROVE  ApplyState'
  <2>1. ThreadApply(t)'
    BY <1>29 DEF ClearEra, ForgetAttempt, ThreadApply
  <2>2. QED
    BY <1>29, <1>b, <2>1 DEF ClearEra, ForgetAttempt
<1>30. CASE UNCHANGED vars
  BY <1>30, <1>b DEF vars
<1>31. QED
  BY <1>1, <1>2, <1>3, <1>4, <1>5, <1>6, <1>7, <1>8, <1>9, <1>10,
     <1>11, <1>12, <1>13, <1>14, <1>15, <1>16, <1>17, <1>18, <1>19, <1>20,
     <1>21, <1>22, <1>23, <1>24, <1>25, <1>26, <1>27, <1>28, <1>29, <1>30
     DEF Next, ThreadNext, BeginTx, HelpApply, Body, CommitTx, Finished

\* The committed memory changes with curTx, in the compare-and-swap of a commit.
LEMMA OnlyCommit ==
  ASSUME [Next]_vars
  PROVE  (\E t \in Threads : CommitCas(t)) \/ UNCHANGED <<curTx, cmem>>
<1>1. ASSUME NEW t \in Threads, Transaction(t) \/ BeginTx(t) \/ ClearEra(t)
      PROVE  UNCHANGED <<curTx, cmem>>
  BY <1>1 DEF BeginTx, Transaction, BeginLoadCurTx, BeginReset, BeginSetEra,
     BeginRecheck, ClearEra
<1>2. ASSUME NEW t \in Threads, HelpApply(t)
      PROVE  UNCHANGED <<curTx, cmem>>
  BY <1>2 DEF HelpApply, HelpCheckRequest, HelpCopyNum, HelpCopyEntry, HelpSetEra,
     HelpCheckCurTx, HelpRecheckRequest, ApplyLoadVal, ApplyLoadSeq, ApplyDcas,
     HelpClose
<1>3. ASSUME NEW t \in Threads, Body(t)
      PROVE  UNCHANGED <<curTx, cmem>>
  BY <1>3 DEF Body, LoadVal, LoadAbort, LoadSeq, LoadReturn, Store, Delete
<1>4. ASSUME NEW t \in Threads, CommitTx(t)
      PROVE  CommitCas(t) \/ UNCHANGED <<curTx, cmem>>
  BY <1>4 DEF CommitTx, CommitReadOnly, CommitCheckFails, CommitCheck, CommitOpen,
     CommitCasFails, CommitRetire
<1>5. CASE UNCHANGED vars
  BY <1>5 DEF vars
<1>6. QED
  BY <1>1, <1>2, <1>3, <1>4, <1>5 DEF Next, Finished, ThreadNext

\* Memory lags behind the committed transactions only by what the open
\* transaction has still to write.
LEMMA MemoryStateStep ==
  ASSUME Core, [Next]_vars
  PROVE  MemoryState'
<1>1. WritesOpenTransaction /\ ClosesApplied /\ OpenKept
  BY MemStep, CloseStep, OpenStep
<1>2. MemoryState
  BY DEF Core
<1>3. CASE UNCHANGED <<curTx, cmem>>
  <2>1. ASSUME NEW w \in Words
        PROVE  \/ mem'[w].val = cmem'[w]
               \/ IsOpen' /\ Logged(log[curTx.idx], w)' /\ mem'[w].seq < curTx'.seq
    <3>1. CASE mem'[w] # mem[w]
      <4>1. mem'[w] = [val |-> cmem[w], seq |-> curTx.seq]
        BY <1>1, <3>1 DEF WritesOpenTransaction
      <4>2. QED
        BY <1>3, <4>1
    <3>2. CASE mem'[w] = mem[w] /\ mem[w].val = cmem[w]
      BY <1>3, <3>2
    <3>3. CASE /\ mem'[w] = mem[w] /\ IsOpen
               /\ Logged(log[curTx.idx], w) /\ mem[w].seq < curTx.seq
      <4>1. CASE IsOpen'
        BY <1>1, <1>3, <3>3, <4>1 DEF OpenKept, Logged
      <4>2. CASE ~IsOpen'
        <5>1. mem[w].seq >= curTx.seq
          BY <1>1, <3>3, <4>2 DEF ClosesApplied, Logged
        <5>2. mem[w].seq \in Nat
          BY DEF Core, TypeOK
        <5>3. curTx.seq \in Nat
          BY DEF Core, TypeOK, TransType
        <5>4. QED
          BY <3>3, <5>1, <5>2, <5>3
      <4>3. QED
        BY <4>1, <4>2
    <3>4. QED
      BY <1>2, <3>1, <3>2, <3>3 DEF MemoryState
  <2>2. IsOpen' => \A i \in DOMAIN log'[curTx'.idx] :
          log'[curTx'.idx][i].val = cmem'[log'[curTx'.idx][i].addr]
    BY <1>1, <1>2, <1>3 DEF OpenKept, MemoryState
  <2>3. QED
    BY <2>1, <2>2 DEF MemoryState
<1>4. ASSUME NEW t \in Threads, CommitCas(t)
      PROVE  MemoryState'
  <2>1. /\ pc[t] = "cas" /\ curTx = myTx[t] /\ curTx' = NewTx(t)
        /\ request' = request /\ mem' = mem /\ log' = log
        /\ cmem' = Overlay(cmem, log[t])
    BY <1>4 DEF CommitCas, Step
  <2>2. curTx'.idx = t /\ curTx'.seq = curTx.seq + 1 /\ curTx.seq \in Nat
    BY <2>1, ThreadFacts DEF NewTx, Trans, Core
  <2>3. ~IsOpen
    BY <2>1 DEF Core, PastClosed, Reading, ReaderLabels, ActiveLabels, IsOpen
  <2>4. IsOpen'
    BY <2>1, <2>2 DEF Core, OwnerState, IsOpen
  <2>5. IsWriteSet(log[t])
    BY <2>1 DEF Core, WriteSets, HasWriteSet, ActiveLabels
  <2>6. ASSUME NEW w \in Words
        PROVE  \/ mem'[w].val = cmem'[w]
               \/ IsOpen' /\ Logged(log[curTx.idx], w)' /\ mem'[w].seq < curTx'.seq
    <3>1. mem[w].val = cmem[w]
      BY <1>2, <2>3 DEF MemoryState
    <3>2. mem[w].seq \in Nat /\ mem[w].seq <= curTx.seq
      BY DEF Core, TypeOK, SeqBound
    <3>3. CASE Logged(log[t], w)
      <4>1. mem'[w].seq < curTx'.seq
        BY <2>1, <2>2, <3>2
      <4>2. Logged(log[curTx.idx], w)'
        BY <2>1, <2>2, <3>3 DEF Logged
      <4>3. QED
        BY <2>4, <4>1, <4>2
    <3>4. CASE ~Logged(log[t], w)
      BY <2>1, <3>1, <3>4 DEF Overlay, LookupAddr
    <3>5. QED
      BY <3>3, <3>4
  <2>7. ASSUME NEW i \in DOMAIN log[t]
        PROVE  log[t][i].val = cmem'[log[t][i].addr]
    <3>1. log[t][i].addr \in Words
      BY <2>5 DEF IsWriteSet, Entry
    <3>2. cmem'[log[t][i].addr]
            = LookupAddr(log[t], log[t][i].addr, cmem[log[t][i].addr])
      BY <2>1, <3>1 DEF Overlay
    <3>3. QED
      BY <2>5, <3>2, LookupEntry
  <2>8. QED
    BY <2>1, <2>2, <2>6, <2>7 DEF MemoryState
<1>5. QED
  BY <1>3, <1>4, OnlyCommit

\* A commit moves curTx.
LEMMA AdvancingCommit ==
  ASSUME Core, NEW t \in Threads, CommitCas(t)
  PROVE  curTx' # curTx
<1>1. curTx' = NewTx(t) /\ curTx = myTx[t]
  BY DEF CommitCas
<1>2. curTx'.seq = curTx.seq + 1 /\ curTx.seq \in Nat
  BY <1>1, ThreadFacts DEF NewTx, Trans, Core
<1>3. QED
  BY <1>2

\* A step changes the locals and the log of its thread only.
SameThread(u) ==
  /\ pc'[u] = pc[u] /\ log'[u] = log[u] /\ snap'[u] = snap[u]
  /\ lval'[u] = lval[u] /\ myTx'[u] = myTx[u] /\ helpTx'[u] = helpTx[u]
  /\ addr'[u] = addr[u] /\ he'[u] = he[u]

LEMMA OthersKeep ==
  ASSUME Core, NEW t \in Threads, ThreadNext(t), NEW u \in Threads, u # t
  PROVE  SameThread(u)
<1>d. /\ DOMAIN pc = Threads /\ DOMAIN log = Threads
      /\ DOMAIN snap = Threads /\ DOMAIN lval = Threads
      /\ DOMAIN myTx = Threads /\ DOMAIN helpTx = Threads
      /\ DOMAIN addr = Threads /\ DOMAIN he = Threads
  BY DEF Core, TypeOK
<1> USE <1>d DEF SameThread, Step
<1>1. CASE Transaction(t) \/ ClearEra(t)
  <2>1. CASE Transaction(t)
    <3>1. Restart(t, "idle") /\ log' = log /\ he' = he
      BY <2>1 DEF Transaction
    <3>2. /\ pc'[u] = pc[u] /\ addr'[u] = addr[u] /\ lval'[u] = lval[u]
          /\ ForgetAttempt(t)
      BY <3>1 DEF Restart
    <3>3. /\ myTx'[u] = myTx[u] /\ helpTx'[u] = helpTx[u]
          /\ snap'[u] = snap[u]
      BY <3>2 DEF ForgetAttempt
    <3>4. QED
      BY <3>1, <3>2, <3>3
  <2>2. CASE ClearEra(t)
    <3>1. /\ pc'[u] = pc[u] /\ he'[u] = he[u] /\ log' = log
          /\ addr' = addr /\ lval' = lval /\ ForgetAttempt(t)
      BY <2>2 DEF ClearEra
    <3>2. /\ myTx'[u] = myTx[u] /\ helpTx'[u] = helpTx[u]
          /\ snap'[u] = snap[u]
      BY <3>1 DEF ForgetAttempt
    <3>3. QED
      BY <3>1, <3>2
  <2>3. QED
    BY <1>1, <2>1, <2>2
<1>2. CASE BeginTx(t)
  BY <1>2 DEF BeginTx, BeginLoadCurTx, BeginReset, BeginSetEra, BeginRecheck
<1>3. CASE HelpCheckRequest(t) \/ HelpCopyNum(t) \/ HelpCopyEntry(t)
  <2>1. CASE HelpCheckRequest(t)
    BY <2>1 DEF HelpCheckRequest
  <2>2. CASE HelpCopyNum(t)
    BY <2>2 DEF HelpCopyNum
  <2>3. CASE HelpCopyEntry(t)
    BY <2>3 DEF HelpCopyEntry
  <2>4. QED
    BY <1>3, <2>1, <2>2, <2>3
<1>4. CASE \/ HelpSetEra(t) \/ HelpCheckCurTx(t) \/ HelpRecheckRequest(t)
           \/ HelpClose(t)
  BY <1>4 DEF HelpSetEra, HelpCheckCurTx, HelpRecheckRequest, HelpClose
<1>5. CASE ApplyLoadVal(t) \/ ApplyLoadSeq(t) \/ ApplyDcas(t)
  BY <1>5 DEF ApplyLoadVal, ApplyLoadSeq, ApplyDcas, NextEntry
<1>6. CASE Body(t)
  <2>1. CASE LoadAbort(t)
    BY <2>1 DEF LoadAbort, Restart, ForgetAttempt
  <2>2. CASE ~LoadAbort(t)
    BY <1>6, <2>2 DEF Body, LoadVal, Store, LoadSeq, LoadReturn, Delete,
       Operate
  <2>3. QED
    BY <2>1, <2>2
<1>7. CASE CommitTx(t)
  BY <1>7 DEF CommitTx, CommitReadOnly, CommitCheckFails, CommitCheck,
     CommitOpen, CommitCas, CommitCasFails, CommitRetire, Restart,
     ForgetAttempt
<1>8. QED
  BY <1>1, <1>2, <1>3, <1>4, <1>5, <1>6, <1>7 DEF ThreadNext, HelpApply

\* The steps of an attempt, from the moment it has its snapshot.
AttemptStep(t) ==
  \/ \E w \in Words : LoadVal(t, w) \/ \E v \in Vals : Store(t, w, v)
  \/ LoadSeq(t) \/ LoadReturn(t) \/ Delete(t)
  \/ CommitCheck(t) \/ CommitOpen(t)

LEMMA AttemptSteps ==
  ASSUME Core, NEW t \in Threads, ThreadNext(t), Attempting(t)'
  PROVE  \/ BeginRecheck(t) /\ myTx[t] = curTx
         \/ AttemptStep(t)
<1> USE DEF Step, Core, TypeOK, Attempting, ActiveLabels, LoadLabels
<1>1. CASE Transaction(t) \/ ClearEra(t)
  BY <1>1 DEF Transaction, Restart, ClearEra
<1>2. CASE BeginTx(t)
  BY <1>2 DEF BeginTx, BeginLoadCurTx, BeginReset, BeginSetEra, BeginRecheck
<1>3. CASE HelpApply(t)
  BY <1>3 DEF HelpApply, HelpCheckRequest, HelpCopyNum, HelpCopyEntry,
     HelpSetEra, HelpCheckCurTx, HelpRecheckRequest, ApplyLoadVal,
     ApplyLoadSeq, ApplyDcas, NextEntry, HelpClose, AfterHelp
<1>4. CASE Body(t)
  BY <1>4 DEF Body, AttemptStep, LoadAbort, Restart
<1>5. CASE CommitTx(t)
  BY <1>5 DEF CommitTx, AttemptStep, CommitReadOnly, CommitCheckFails,
     CommitCas, CommitCasFails, CommitRetire, Restart
<1>6. QED
  BY <1>1, <1>2, <1>3, <1>4, <1>5 DEF ThreadNext

\* They leave the shared memory, the snapshot and the era alone.
LEMMA AttemptFrame ==
  ASSUME Core, NEW t \in Threads, AttemptStep(t)
  PROVE  /\ Attempting(t) /\ Attempting(t)'
         /\ UNCHANGED <<curTx, mem, he, myTx, helpTx, cmem, snap>>
<1> USE DEF Step, Operate, Core, TypeOK, Attempting, ActiveLabels, LoadLabels
<1>1. CASE \E w \in Words : LoadVal(t, w) \/ \E v \in Vals : Store(t, w, v)
  BY <1>1 DEF LoadVal, Store
<1>2. CASE LoadSeq(t) \/ LoadReturn(t) \/ Delete(t)
  BY <1>2 DEF LoadSeq, LoadReturn, Delete
<1>3. CASE CommitCheck(t) \/ CommitOpen(t)
  BY <1>3 DEF CommitCheck, CommitOpen
<1>4. QED
  BY <1>1, <1>2, <1>3 DEF AttemptStep

\* A word that is no newer than an attempt has not been written meanwhile.
LEMMA WordKept ==
  ASSUME Core, [Next]_vars, NEW u \in Threads, Attempting(u),
         NEW w \in Words, mem'[w].seq <= myTx[u].seq
  PROVE  mem'[w] = mem[w]
<1>1. WritesOpenTransaction
  BY MemStep
<1>2. Reading(u)
  BY DEF Attempting, Reading, ReaderLabels
<1>3. IsOpen => myTx[u].seq < curTx.seq
  BY <1>2 DEF Core, PastClosed, SeqBound, IsOpen
<1>4. myTx[u].seq \in Nat /\ curTx.seq \in Nat
  BY ThreadFacts DEF Core
<1>5. SUFFICES ASSUME mem'[w] # mem[w] PROVE FALSE
  OBVIOUS
<1>6. IsOpen /\ mem'[w] = [val |-> cmem[w], seq |-> curTx.seq]
  BY <1>1, <1>5 DEF WritesOpenTransaction
<1>7. mem'[w].seq = curTx.seq
  BY <1>6
<1>8. QED
  BY <1>3, <1>4, <1>6, <1>7

\* What an attempt can still read of some words is its snapshot, whatever the
\* others do, and as long as it loads no other words.
LEMMA ReadStep ==
  ASSUME Core, [Next]_vars, NEW u \in Threads, NEW W \in SUBSET Words,
         Attempting(u), Attempting(u)', ThreadRead(u, W),
         \A w \in Words : LoadVal(u, w) => w \in W
  PROVE  ThreadRead(u, W)'
<1>1. Reading(u) /\ Advances
  BY AdvanceStep DEF Attempting, Reading, ReaderLabels
<1>2. pc[u] # "recheck"
  BY DEF Attempting, ActiveLabels, LoadLabels
<1>3. \/ SameThread(u)
      \/ AttemptStep(u) /\ UNCHANGED <<mem, myTx, snap>>
  <2>1. CASE UNCHANGED vars
    BY <2>1 DEF vars, SameThread
  <2>2. ASSUME NEW t \in Threads, ThreadNext(t)
        PROVE  \/ SameThread(u)
               \/ AttemptStep(u) /\ UNCHANGED <<mem, myTx, snap>>
    <3>1. CASE t # u
      BY <2>2, <3>1, OthersKeep
    <3>2. CASE t = u
      BY <1>2, <2>2, <3>2, AttemptSteps, AttemptFrame DEF BeginRecheck, Step
    <3>3. QED
      BY <3>1, <3>2
  <2>3. QED
    BY <2>1, <2>2 DEF Next, Finished
<1>4. myTx'[u] = myTx[u] /\ snap'[u] = snap[u]
  BY <1>3 DEF SameThread
<1>5. \A w \in W : mem'[w].seq <= myTx[u].seq => mem'[w] = mem[w]
  BY WordKept
<1>6. \A w \in W : mem'[w].seq <= myTx'[u].seq => mem'[w].val = snap'[u][w]
  BY <1>4, <1>5 DEF ThreadRead
<1>7. myTx'[u] = curTx' => \A w \in W : snap'[u][w] = cmem'[w]
  BY <1>1, <1>4, OnlyCommit, AdvancingCommit DEF ThreadRead, Advances
<1>8. /\ pc'[u] \in LoadLabels => addr'[u] \in W
      /\ pc'[u] = "loadSeq" /\ ~TooNew(u)' => lval'[u] = mem'[addr'[u]].val
  <2>1. CASE SameThread(u)
    <3>1. pc[u] \in LoadLabels => addr[u] \in W
      BY DEF ThreadRead
    <3>2. ASSUME pc[u] = "loadSeq", ~TooNew(u)'
          PROVE  lval[u] = mem'[addr[u]].val
      <4>1. addr[u] \in W
        BY <3>1, <3>2 DEF LoadLabels
      <4>2. mem'[addr[u]].seq \in Nat /\ myTx[u].seq \in Nat
        BY <4>1, TypeStep, ThreadFacts DEF TypeOK, Core
      <4>3. mem'[addr[u]] = mem[addr[u]]
        BY <1>4, <1>5, <2>1, <3>2, <4>1, <4>2 DEF TooNew, SameThread
      <4>4. ~TooNew(u)
        BY <1>4, <2>1, <3>2, <4>3 DEF TooNew, SameThread
      <4>5. QED
        BY <3>2, <4>3, <4>4 DEF ThreadRead
    <3>3. QED
      BY <2>1, <3>1, <3>2 DEF SameThread
  <2>2. CASE AttemptStep(u) /\ UNCHANGED <<mem, myTx, snap>>
    <3> USE DEF Step, Operate, LoadLabels, Core, TypeOK
    <3>1. ASSUME NEW w \in Words, LoadVal(u, w)
          PROVE  /\ pc'[u] = "loadSeq" /\ addr'[u] \in W
                 /\ lval'[u] = mem'[addr'[u]].val
      BY <2>2, <3>1 DEF LoadVal
    <3>2. CASE LoadSeq(u)
      BY <3>2 DEF LoadSeq, ThreadRead
    <3>3. ASSUME \/ \E w \in Words, v \in Vals : Store(u, w, v)
                 \/ LoadReturn(u) \/ Delete(u) \/ CommitCheck(u)
                 \/ CommitOpen(u)
          PROVE  pc'[u] \notin LoadLabels
      BY <3>3 DEF Store, LoadReturn, Delete, CommitCheck, CommitOpen
    <3>4. QED
      BY <2>2, <3>1, <3>2, <3>3 DEF AttemptStep
  <2>3. QED
    BY <1>3, <2>1, <2>2
<1>9. QED
  BY <1>6, <1>7, <1>8 DEF ThreadRead

\* When an attempt begins, all words are as its snapshot says.
LEMMA ReadBegins ==
  ASSUME Core, NEW t \in Threads, BeginRecheck(t), myTx[t] = curTx
  PROVE  ThreadRead(t, Words)'
<1>1. ~IsOpen
  BY DEF BeginRecheck, Step, Core, PastClosed, Reading, ReaderLabels, IsOpen
<1>2. \A w \in Words : mem[w].val = cmem[w]
  BY <1>1 DEF Core, MemoryState
<1>3. QED
  BY <1>2 DEF BeginRecheck, Step, Core, TypeOK, ThreadRead, LoadLabels

\* What an attempt can still read is its snapshot.
LEMMA ReadStateStep ==
  ASSUME Inv, [Next]_vars
  PROVE  ReadState'
<1>0. Core /\ ReadState
  BY DEF Inv
<1> SUFFICES ASSUME NEW u \in Threads, Attempting(u)'
             PROVE  ThreadRead(u, Words)'
  BY DEF ReadState
<1>1. CASE Attempting(u)
  BY <1>0, <1>1, ReadStep DEF ReadState
<1>2. CASE ~Attempting(u)
  <2>1. ~UNCHANGED vars
    BY <1>2 DEF vars, Attempting
  <2>2. PICK t \in Threads : ThreadNext(t)
    BY <2>1 DEF Next, Finished
  <2>3. t = u
    BY <1>0, <1>2, <2>2, OthersKeep DEF SameThread, Attempting
  <2>4. BeginRecheck(u) /\ myTx[u] = curTx
    BY <1>0, <1>2, <2>2, <2>3, AttemptSteps, AttemptFrame
  <2>5. QED
    BY <1>0, <2>4, ReadBegins
<1>3. QED
  BY <1>1, <1>2

\* What pload returns comes from the snapshot or from the attempt's own stores.
LEMMA OpacityStep ==
  ASSUME Core, Opacity, [Next]_vars, NEW W \in [Threads -> SUBSET Words],
         \A t \in Threads : Attempting(t) => ThreadRead(t, W[t])
  PROVE  Opacity'
<1>a. /\ pc \in [Threads -> Labels]
      /\ log \in [Threads -> Seq(Entry \cup {Garbage})]
      /\ addr \in [Threads -> Words \cup {NoWord}]
      /\ lval \in [Threads -> Vals]
      /\ snap \in [Threads -> [Words -> Vals]]
  BY DEF Core, TypeOK
<1> USE <1>a
    DEF Opacity, Step
<1>1. ASSUME NEW t \in Threads, Transaction(t)
      PROVE  Opacity'
  BY <1>1 DEF Transaction, Restart, ForgetAttempt
<1>2. ASSUME NEW t \in Threads, BeginLoadCurTx(t)
      PROVE  Opacity'
  BY <1>2 DEF BeginLoadCurTx
<1>3. ASSUME NEW t \in Threads, BeginReset(t)
      PROVE  Opacity'
  BY <1>3 DEF BeginReset
<1>4. ASSUME NEW t \in Threads, BeginSetEra(t)
      PROVE  Opacity'
  BY <1>4 DEF BeginSetEra
<1>5. ASSUME NEW t \in Threads, BeginRecheck(t)
      PROVE  Opacity'
  BY <1>5 DEF BeginRecheck
<1>6. ASSUME NEW t \in Threads, HelpCheckRequest(t)
      PROVE  Opacity'
  BY <1>6 DEF HelpCheckRequest, AfterHelp
<1>7. ASSUME NEW t \in Threads, HelpCopyNum(t)
      PROVE  Opacity'
  BY <1>7 DEF HelpCopyNum
<1>8. ASSUME NEW t \in Threads, HelpCopyEntry(t)
      PROVE  Opacity'
  BY <1>8 DEF HelpCopyEntry
<1>9. ASSUME NEW t \in Threads, HelpSetEra(t)
      PROVE  Opacity'
  BY <1>9 DEF HelpSetEra
<1>10. ASSUME NEW t \in Threads, HelpCheckCurTx(t)
      PROVE  Opacity'
  BY <1>10 DEF HelpCheckCurTx, AfterHelp
<1>11. ASSUME NEW t \in Threads, HelpRecheckRequest(t)
      PROVE  Opacity'
  BY <1>11 DEF HelpRecheckRequest, AfterHelp
<1>12. ASSUME NEW t \in Threads, ApplyLoadVal(t)
      PROVE  Opacity'
  BY <1>12 DEF ApplyLoadVal
<1>13. ASSUME NEW t \in Threads, ApplyLoadSeq(t)
      PROVE  Opacity'
  BY <1>13 DEF ApplyLoadSeq, NextEntry
<1>14. ASSUME NEW t \in Threads, ApplyDcas(t)
      PROVE  Opacity'
  BY <1>14 DEF ApplyDcas, NextEntry
<1>15. ASSUME NEW t \in Threads, HelpClose(t)
      PROVE  Opacity'
  BY <1>15 DEF HelpClose, AfterHelp
<1>16. ASSUME NEW t \in Threads, NEW w \in Words, LoadVal(t, w)
      PROVE  Opacity'
  BY <1>16 DEF LoadVal, Operate
<1>17. ASSUME NEW t \in Threads, NEW w \in Words, NEW v \in Vals,
             Store(t, w, v)
      PROVE  Opacity'
  BY <1>17 DEF Store, Operate
<1>18. ASSUME NEW t \in Threads, LoadAbort(t)
      PROVE  Opacity'
  BY <1>18 DEF LoadAbort, Restart, ForgetAttempt
<1>19. ASSUME NEW t \in Threads, LoadSeq(t)
      PROVE  Opacity'
  <2>1. /\ pc[t] = "loadSeq" /\ ~TooNew(t) /\ ThreadRead(t, W[t])
        /\ addr[t] \in W[t] /\ W[t] \subseteq Words
    BY <1>19 DEF LoadSeq, Attempting, ActiveLabels, ThreadRead, LoadLabels
  <2>2. lval[t] = snap[t][addr[t]]
    <3>1. mem[addr[t]].seq \in Nat /\ myTx[t].seq \in Nat
      BY <2>1, ThreadFacts DEF Core, TypeOK
    <3>2. mem[addr[t]].seq <= myTx[t].seq
      BY <2>1, <3>1 DEF TooNew
    <3>3. QED
      BY <2>1, <3>2 DEF ThreadRead, ActiveLabels, LoadLabels
  <2>3. lval'[t] = LookupAddr(log[t], addr[t], snap[t][addr[t]])
    <3>1. CASE log[t] = <<>>
      BY <1>19, <2>2, <3>1 DEF LoadSeq, IsReadOnly, LookupAddr, Logged
    <3>2. CASE log[t] # <<>>
      BY <1>19, <2>2, <3>2 DEF LoadSeq, IsReadOnly
    <3>3. QED
      BY <3>1, <3>2
  <2>4. QED
    BY <1>19, <2>3 DEF LoadSeq
<1>20. ASSUME NEW t \in Threads, LoadReturn(t)
      PROVE  Opacity'
  BY <1>20 DEF LoadReturn
<1>21. ASSUME NEW t \in Threads, Delete(t)
      PROVE  Opacity'
  BY <1>21 DEF Delete, Operate
<1>22. ASSUME NEW t \in Threads, CommitReadOnly(t)
      PROVE  Opacity'
  BY <1>22 DEF CommitReadOnly
<1>23. ASSUME NEW t \in Threads, CommitCheckFails(t)
      PROVE  Opacity'
  BY <1>23 DEF CommitCheckFails, Restart, ForgetAttempt
<1>24. ASSUME NEW t \in Threads, CommitCheck(t)
      PROVE  Opacity'
  BY <1>24 DEF CommitCheck
<1>25. ASSUME NEW t \in Threads, CommitOpen(t)
      PROVE  Opacity'
  BY <1>25 DEF CommitOpen
<1>26. ASSUME NEW t \in Threads, CommitCas(t)
      PROVE  Opacity'
  BY <1>26 DEF CommitCas
<1>27. ASSUME NEW t \in Threads, CommitCasFails(t)
      PROVE  Opacity'
  BY <1>27 DEF CommitCasFails, Restart, ForgetAttempt
<1>28. ASSUME NEW t \in Threads, CommitRetire(t)
      PROVE  Opacity'
  BY <1>28 DEF CommitRetire
<1>29. ASSUME NEW t \in Threads, ClearEra(t)
      PROVE  Opacity'
  BY <1>29 DEF ClearEra, ForgetAttempt
<1>30. CASE UNCHANGED vars
  BY <1>30 DEF vars
<1>31. QED
  BY <1>1, <1>2, <1>3, <1>4, <1>5, <1>6, <1>7, <1>8, <1>9, <1>10,
     <1>11, <1>12, <1>13, <1>14, <1>15, <1>16, <1>17, <1>18, <1>19, <1>20,
     <1>21, <1>22, <1>23, <1>24, <1>25, <1>26, <1>27, <1>28, <1>29, <1>30
     DEF Next, ThreadNext, BeginTx, HelpApply, Body, CommitTx, Finished

\* The invariant holds of the initial states.
LEMMA InitInv ==
  ASSUME Init
  PROVE  Inv
<1> USE DEF Init
<1>1. 0 \in Threads
  BY DEF Threads
<1>2. TypeOK
  <2>1. <<>> \in Seq(Entry \cup {Garbage})
    OBVIOUS
  <2>2. mem \in [Words -> [val : Vals, seq : Nat]]
    OBVIOUS
  <2>3. left \in [Threads -> Int]
    OBVIOUS
  <2>4. QED
    BY <1>1, <2>1, <2>2, <2>3, RedoLogAssumption
    DEF TypeOK, TransType, Trans, NoTrans, NOERA, Labels
<1>3. ~IsOpen
  BY <1>1 DEF IsOpen, Trans, NoTrans
<1>4. \A t \in Threads : /\ pc[t] = "idle" /\ pos[t] = 0
                         /\ ~InHelp(t) /\ ~Reading(t) /\ ~Applying(t) /\ ~Owner(t)
                         /\ pc[t] \notin ActiveLabels
  BY DEF InHelp, Reading, Applying, Owner, HelpLabels, ReaderLabels, ActiveLabels,
     LoadLabels, ApplyLabels
<1>5. SeqBound /\ PastClosed
  BY <1>4 DEF SeqBound, PastClosed, Trans
<1>6. OwnSeq /\ OwnerState /\ OpenHasOwner
  BY <1>3, <1>4 DEF OwnSeq, NotNewer, OwnerState, OpenHasOwner
<1>7. WriteSets /\ CopyState /\ ApplyState
  BY <1>4 DEF WriteSets, HasWriteSet, CopyState, ThreadCopy, ApplyState, ThreadApply
<1>8. MemoryState
  BY <1>3 DEF MemoryState
<1>9. ReadState /\ Opacity
  BY <1>4 DEF ReadState, Attempting, Opacity, ActiveLabels, LoadLabels
<1>10. QED
  BY <1>2, <1>5, <1>6, <1>7, <1>8, <1>9 DEF Inv, Core

\* Every step preserves the invariant.
LEMMA NextCore ==
  ASSUME Core, [Next]_vars
  PROVE  Core'
BY TypeStep, SeqBoundStep, PastClosedStep, OwnSeqStep, OwnerStateStep,
   OpenHasOwnerStep, WriteSetsStep, CopyStateStep, ApplyStateStep,
   MemoryStateStep DEF Core

LEMMA NextInv ==
  ASSUME Inv, [Next]_vars
  PROVE  Inv'
<1>1. Core /\ Core' /\ ReadState'
  BY NextCore, ReadStateStep DEF Inv
<1>2. Opacity'
  <2>1. PICK W : W = [t \in Threads |-> Words]
    OBVIOUS
  <2>2. /\ W \in [Threads -> SUBSET Words]
        /\ \A t \in Threads : Attempting(t) => ThreadRead(t, W[t])
    BY <2>1 DEF Inv, ReadState
  <2>3. QED
    BY <2>2, OpacityStep DEF Inv
<1>3. QED
  BY <1>1, <1>2 DEF Inv

\* The invariant of the engine: what curTx, the requests, the logs and the
\* words have to do with each other at every step of beginTx, helpApply, the
\* body and commitTx.
THEOREM Invariance == Spec => []Inv
<1>1. Init => Inv
  BY InitInv
<1>2. Inv /\ [Next]_vars => Inv'
  BY NextInv
<1>3. QED
  BY <1>1, <1>2, PTL DEF Spec

\* Every variable of the engine keeps its type; the addresses a thread applies
\* to are words, never an entry nobody filled in.
THEOREM TypeCorrect == Spec => []TypeOK
<1>1. Inv => TypeOK
  BY DEF Inv, Core
<1>2. QED
  BY <1>1, Invariance, PTL

\* pload returns only values of the snapshot of the attempt, or of its own
\* stores, also in attempts that are bound to fail.
THEOREM LoadsAreOpaque == Spec => []Opacity
<1>1. Inv => Opacity
  BY DEF Inv, Core
<1>2. QED
  BY <1>1, Invariance, PTL

\* A transaction that finds the request of the last one closed finds the whole
\* of it in memory.
THEOREM ClosedIsApplied == Spec => []ClosedMeansApplied
<1>1. Inv => ClosedMeansApplied
  BY DEF Inv, Core, MemoryState, ClosedMeansApplied
<1>2. QED
  BY <1>1, Invariance, PTL

LEMMA ExactCopies ==
  ASSUME Core
  PROVE  HelperCopyIsExact
<1> SUFFICES ASSUME NEW t \in Threads, pc[t] \in ApplyLabels \cup {"close"}
             PROVE  \/ log[t] = log[curTx.idx] /\ helpTx[t] = curTx
                    \/ AllApplied(t)
  BY DEF HelperCopyIsExact, AllApplied
<1>1. ExactOrApplied(t)
  BY DEF Core, ApplyState, ThreadApply, Applying
<1>2. QED
  BY <1>1 DEF ExactOrApplied, Current

\* A copy of a write-set that got past the checks of helpApply is exact, or
\* harmless.
THEOREM CopiesAreExact == Spec => []HelperCopyIsExact
<1>1. Inv => HelperCopyIsExact
  BY ExactCopies DEF Inv
<1>2. QED
  BY <1>1, Invariance, PTL

\* However late a helper wakes up, it never writes what an older transaction
\* left, nor writes a word twice for the same one.
THEOREM LateWritesFail == Spec => NoLateWrite
<1>1. ASSUME Inv, [Next]_vars
      PROVE  \A w \in Words : mem'[w] # mem[w] =>
               /\ mem[w].seq < mem'[w].seq
               /\ mem'[w] = [val |-> cmem[w], seq |-> curTx.seq]
  <2>1. WritesOpenTransaction
    BY <1>1, MemStep DEF Inv
  <2>2. ASSUME NEW w \in Words, mem'[w] # mem[w]
        PROVE  /\ mem[w].seq < mem'[w].seq
               /\ mem'[w] = [val |-> cmem[w], seq |-> curTx.seq]
    <3>1. mem[w].seq < curTx.seq /\ mem'[w] = [val |-> cmem[w], seq |-> curTx.seq]
      BY <2>1, <2>2 DEF WritesOpenTransaction
    <3>2. mem'[w].seq = curTx.seq
      BY <3>1
    <3>3. QED
      BY <3>1, <3>2
  <2>3. QED
    BY <2>2
<1>2. Inv /\ [Next]_vars =>
        [\A w \in Words : mem'[w] # mem[w] =>
           /\ mem[w].seq < mem'[w].seq
           /\ mem'[w] = [val |-> cmem[w], seq |-> curTx.seq]]_vars
  BY <1>1
<1>3. QED
  BY <1>2, Invariance, PTL DEF Spec, NoLateWrite

\* Images with the same values are the same.
LEMMA SameImage ==
  ASSUME NEW f \in [Words -> Vals], NEW g \in [Words -> Vals],
         \A w \in Words : f[w] = g[w]
  PROVE  f = g
OBVIOUS

\* A commit that succeeds has worked on the memory it replaces.
THEOREM CommitsOnLatest == Spec => PublishesOnLatest
<1>1. ASSUME Inv, [Next]_vars, curTx' # curTx, NEW u \in Threads, pc'[u] # pc[u]
      PROVE  snap[u] = cmem
  <2>1. PICK t \in Threads : CommitCas(t)
    BY <1>1, OnlyCommit DEF Inv
  <2>2. t = u
    BY <1>1, <2>1 DEF CommitCas, Step, Inv, Core, TypeOK
  <2>3. pc[u] = "cas" /\ myTx[u] = curTx
    BY <2>1, <2>2 DEF CommitCas, Step
  <2>4. QED
    <3>1. ThreadRead(u, Words)
      BY <1>1, <2>3 DEF Inv, ReadState, Attempting, ActiveLabels
    <3>2. \A w \in Words : snap[u][w] = cmem[w]
      BY <2>3, <3>1 DEF ThreadRead
    <3>3. QED
      BY <1>1, <3>2, SameImage DEF Inv, Core, TypeOK
<1>2. Inv /\ [Next]_vars =>
        [\A t \in Threads :
           curTx' # curTx /\ pc'[t] # pc[t] => snap[t] = cmem]_vars
  BY <1>1
<1>3. QED
  BY <1>2, Invariance, PTL DEF Spec, PublishesOnLatest

=============================================================================
