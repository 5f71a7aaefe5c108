------------------------ MODULE OneFilePTMLFProofs ------------------------
(***************************************************************************)
(* Proofs of the safety properties of OneFilePTMLF, for any number of      *)
(* threads, words and transactions, and for threads that end anywhere and  *)
(* are replaced.                                                           *)
(***************************************************************************)
EXTENDS OneFilePTMLFInv, SequenceTheorems, FiniteSetTheorems, TLAPS

USE OneFilePTMLFAssumption

(***************************************************************************)
(* Operators.                                                              *)
(***************************************************************************)

\* A set of naturals has a least element, and a bounded one a greatest.
LEMMA Smallest ==
  ASSUME NEW S, S \subseteq Nat, S # {}
  PROVE  \E x \in S : \A y \in S : x <= y
<1>1. PICK R : R = OpToRel(<, Nat)
  OBVIOUS
<1>2. IsWellFoundedOn(R, Nat)
  BY <1>1, NatLessThanWellFounded
<1>3. \A y, x \in Nat : <<y, x>> \in R <=> y < x
  BY <1>1 DEF OpToRel
<1>4. PICK x \in S : \A y \in S : ~ (<<y, x>> \in R)
  BY <1>2, WFMin
<1>5. ASSUME NEW y \in S
      PROVE  x <= y
  <2>1. x \in Nat /\ y \in Nat /\ ~(y < x)
    BY <1>3, <1>4, <1>5
  <2>2. QED
    BY <2>1
<1>6. QED
  BY <1>5

LEMMA Greatest ==
  ASSUME NEW S, NEW m \in Nat, S \subseteq 0 .. m, S # {}
  PROVE  /\ \E x \in S : \A y \in S : x >= y
         /\ Max(S) \in S /\ \A y \in S : Max(S) >= y
<1>1. PICK T : T = {m - x : x \in S}
  OBVIOUS
<1>2. T \subseteq Nat /\ T # {}
  <2>1. \A x \in S : x \in 0 .. m /\ m - x \in Nat
    OBVIOUS
  <2>2. T \subseteq Nat
    BY <1>1, <2>1, Zenon
  <2>3. PICK x : x \in S
    OBVIOUS
  <2>4. m - x \in T
    BY <1>1, <2>3, Zenon
  <2>5. QED
    BY <2>2, <2>4
<1>3. PICK z \in T : \A y \in T : z <= y
  BY <1>2, Smallest
<1>4. PICK x \in S : z = m - x
  BY <1>1, <1>3
<1>5. ASSUME NEW y \in S
      PROVE  x >= y
  <2>1. x \in 0 .. m /\ y \in 0 .. m /\ m - y \in T
    BY <1>1
  <2>2. m - x <= m - y
    BY <1>3, <1>4, <2>1
  <2>3. QED
    BY <2>1, <2>2
<1>6. \E v \in S : \A y \in S : v >= y
  BY <1>5
<1>7. Max(S) \in S /\ \A y \in S : Max(S) >= y
  BY <1>6, Zenon DEF Max
<1>8. QED
  BY <1>6, <1>7

\* The entries are all visited by the loop of apply.
LEMMA ModOfSum ==
  ASSUME NEW d \in Nat, NEW n \in Nat, NEW i \in Nat, i < n
  PROVE  (n * d + i) % n = i
OBVIOUS

\* The index of entry k of thread t.
ApplyIndex(t, k, n) == (t * 8 + k) % n

LEMMA ApplyIndexOnto ==
  ASSUME NEW t \in Nat, NEW n \in Nat, n > 0, NEW i \in 0 .. n - 1
  PROVE  \E k \in 0 .. n - 1 : ApplyIndex(t, k, n) = i
<1> DEFINE m == t * 8
           d == m \div n
           q == m % n
<1>1. m \in Nat /\ d \in Nat /\ q \in 0 .. n - 1 /\ m = n * d + q
  OBVIOUS
<1> HIDE DEF d, q
<1>2. d \in Nat /\ i \in Nat /\ i < n
  BY <1>1
<1>3. CASE i >= q
  <2>1. i - q \in 0 .. n - 1
    BY <1>1, <1>3
  <2>2. m + (i - q) = n * d + i
    BY <1>1
  <2>3. (n * d + i) % n = i
    BY <1>2, ModOfSum
  <2>4. ApplyIndex(t, i - q, n) = i
    BY <2>2, <2>3 DEF ApplyIndex
  <2>5. QED
    BY <2>1, <2>4
<1>4. CASE i < q
  <2>1. i - q + n \in 0 .. n - 1
    BY <1>1, <1>4
  <2>2. m + (i - q + n) = n * (d + 1) + i
    BY <1>1
  <2>3. (n * (d + 1) + i) % n = i
    <3>1. d + 1 \in Nat
      BY <1>2
    <3>2. QED
      BY <1>2, <3>1, ModOfSum
  <2>4. ApplyIndex(t, i - q + n, n) = i
    BY <2>2, <2>3 DEF ApplyIndex
  <2>5. QED
    BY <2>1, <2>4
<1>5. QED
  BY <1>1, <1>3, <1>4

\* A fence leaves the last content of a line, and some of those before it;
\* none of them if the last was noted.
LEMMA SinceIsSuffix ==
  ASSUME NEW S, NEW s \in Seq(S), s # <<>>, NEW c
  PROVE  \E m \in 1 .. Len(s) :
           Since(s, c) = SubSeq(s, m, Len(s)) /\ (c = s[Len(s)] => m = Len(s))
<1> DEFINE I == {i \in DOMAIN s : s[i] = c}
<1>1. CASE c \notin Range(s)
  <2>1. Since(s, c) = s /\ s = SubSeq(s, 1, Len(s)) /\ 1 \in 1 .. Len(s)
    BY <1>1 DEF Since
  <2>2. c # s[Len(s)]
    BY <1>1 DEF Range
  <2>3. QED
    BY <2>1, <2>2
<1>2. CASE c \in Range(s)
  <2>1. I \subseteq 0 .. Len(s) /\ I # {} /\ Len(s) \in Nat
    BY <1>2 DEF Range
  <2>2. Max(I) \in I /\ \A y \in I : Max(I) >= y
    BY <2>1, Greatest
  <2>3. Since(s, c) = SubSeq(s, Max(I), Len(s))
    BY <1>2 DEF Since
  <2>4. c = s[Len(s)] => Len(s) \in I
    BY DEF Range
  <2>5. /\ Max(I) \in 1 .. Len(s)
        /\ c = s[Len(s)] => Max(I) = Len(s)
    <3>1. PICK x : x = Max(I)
      OBVIOUS
    <3>2. x \in DOMAIN s /\ DOMAIN s = 1 .. Len(s) /\ Len(s) \in Nat
      BY <2>2, <3>1
    <3>3. c = s[Len(s)] => x >= Len(s)
      BY <2>2, <2>4, <3>1
    <3>4. QED
      BY <3>1, <3>2, <3>3
  <2>6. QED
    BY <2>3, <2>5
<1>3. QED
  BY <1>1, <1>2

LEMMA SinceNow ==
  ASSUME NEW S, NEW s \in Seq(S), s # <<>>, NEW c
  PROVE  /\ Since(s, c) \in Seq(S) \ {<<>>}
         /\ Since(s, c)[Len(Since(s, c))] = s[Len(s)]
         /\ ToSet(Since(s, c)) \subseteq ToSet(s)
         /\ c = s[Len(s)] => ToSet(Since(s, c)) = {c}
<1>1. PICK m \in 1 .. Len(s) :
        Since(s, c) = SubSeq(s, m, Len(s)) /\ (c = s[Len(s)] => m = Len(s))
  BY SinceIsSuffix
<1>2. PICK r : r = SubSeq(s, m, Len(s))
  OBVIOUS
<1>3. /\ r \in Seq(S) /\ Len(r) = Len(s) - m + 1
      /\ \A i \in 1 .. Len(r) : r[i] = s[m + i - 1]
  BY <1>2
<1>4. r # <<>> /\ r[Len(r)] = s[Len(s)]
  BY <1>3
<1>5. \A i \in DOMAIN r : r[i] \in ToSet(s)
  <2>1. ASSUME NEW i \in DOMAIN r
        PROVE  r[i] \in ToSet(s)
    <3>1. i \in 1 .. Len(r) /\ DOMAIN s = 1 .. Len(s)
      BY <1>3
    <3>2. PICK j : j = m + i - 1
      OBVIOUS
    <3>3. /\ i \in Nat /\ i >= 1 /\ i <= Len(r) /\ Len(r) = Len(s) - m + 1
          /\ m \in Nat /\ m >= 1 /\ Len(s) \in Nat
      BY <1>3, <3>1
    <3>4. j \in 1 .. Len(s)
      BY <3>2, <3>3
    <3>5. j \in DOMAIN s /\ r[i] = s[j]
      BY <1>3, <3>1, <3>2, <3>4
    <3>6. QED
      BY <3>5 DEF ToSet
  <2>2. QED
    BY <2>1
<1>6. ToSet(r) \subseteq ToSet(s)
  BY <1>5 DEF ToSet
<1>7. ASSUME c = s[Len(s)] PROVE ToSet(r) = {c}
  <2>1. Len(r) = 1 /\ r[1] = c
    BY <1>1, <1>3, <1>4, <1>7
  <2>2. DOMAIN r = {1}
    BY <1>3, <2>1
  <2>3. QED
    BY <2>1, <2>2 DEF ToSet
<1>8. QED
  BY <1>1, <1>2, <1>3, <1>4, <1>6, <1>7

(***************************************************************************)
(* Persistent memory.                                                      *)
(***************************************************************************)

LEMMA LinesDiffer ==
  /\ CurTxLine \in Lines /\ Words \subseteq Lines /\ Threads \subseteq Lines
  /\ CurTxLine \notin Words /\ CurTxLine \notin Threads
  /\ \A t \in Threads : t \notin Words
BY DEF Lines

LEMMA ContentsOf ==
  /\ Contents(CurTxLine) = TransType
  /\ \A t \in Threads : Contents(t) = [request : TransType, plog : LogType]
  /\ \A w \in Words : Contents(w) = [val : Int, seq : Nat]
BY LinesDiffer DEF Contents

LEMMA NowType ==
  ASSUME NEW mem, Memory(mem), NEW l \in Lines
  PROVE  Now(mem, l) \in Contents(l) /\ Now(mem, l) \in ToSet(mem[l])
<1>1. mem[l] \in Seq(Contents(l)) /\ mem[l] # <<>>
  BY DEF Memory
<1>2. Len(mem[l]) \in DOMAIN mem[l]
  BY <1>1
<1>3. QED
  BY <1>1, <1>2 DEF Now, ToSet

\* A fence leaves what the caches have, and of the contents that were noted
\* and are still there nothing else.
LEMMA FencedMemory ==
  ASSUME NEW mem, Memory(mem), NEW noted
  PROVE  /\ Memory(Fenced(mem, noted))
         /\ \A l \in Lines :
              /\ Now(Fenced(mem, noted), l) = Now(mem, l)
              /\ ToSet(Fenced(mem, noted)[l]) \subseteq ToSet(mem[l])
              /\ l \in DOMAIN noted /\ noted[l] = Now(mem, l) =>
                   ToSet(Fenced(mem, noted)[l]) = {Now(mem, l)}
<1>1. PICK f : f = Fenced(mem, noted)
  OBVIOUS
<1>2. ASSUME NEW l \in Lines
      PROVE  /\ f[l] \in Seq(Contents(l)) \ {<<>>}
             /\ Now(f, l) = Now(mem, l)
             /\ ToSet(f[l]) \subseteq ToSet(mem[l])
             /\ l \in DOMAIN noted /\ noted[l] = Now(mem, l) =>
                  ToSet(f[l]) = {Now(mem, l)}
  <2>1. mem[l] \in Seq(Contents(l)) /\ mem[l] # <<>> /\ DOMAIN mem = Lines
    BY DEF Memory
  <2>2. f[l] = IF l \in DOMAIN noted THEN Since(mem[l], noted[l]) ELSE mem[l]
    BY <1>1, <2>1 DEF Fenced
  <2>3. CASE l \notin DOMAIN noted
    BY <2>1, <2>2, <2>3 DEF Now
  <2>4. CASE l \in DOMAIN noted
    <3>1. PICK c, r : c = noted[l] /\ r = Since(mem[l], c)
      OBVIOUS
    <3>2. /\ r \in Seq(Contents(l)) \ {<<>>}
          /\ r[Len(r)] = mem[l][Len(mem[l])]
          /\ ToSet(r) \subseteq ToSet(mem[l])
          /\ c = mem[l][Len(mem[l])] => ToSet(r) = {c}
      BY <2>1, <3>1, SinceNow
    <3>3. f[l] = r
      BY <2>2, <2>4, <3>1
    <3>4. Now(f, l) = Now(mem, l)
      BY <3>2, <3>3 DEF Now
    <3>5. noted[l] = Now(mem, l) => ToSet(f[l]) = {Now(mem, l)}
      BY <3>1, <3>2, <3>3 DEF Now
    <3>6. QED
      BY <3>2, <3>3, <3>4, <3>5
  <2>5. QED
    BY <2>3, <2>4
<1>3. DOMAIN f = Lines
  BY <1>1 DEF Fenced, Memory
<1>4. Memory(f)
  BY <1>2, <1>3 DEF Memory
<1>5. QED
  BY <1>1, <1>2, <1>4

LEMMA StoredMemory ==
  ASSUME NEW mem, Memory(mem), NEW l \in Lines, NEW x \in Contents(l)
  PROVE  /\ Memory(Stored(mem, l, x))
         /\ Now(Stored(mem, l, x), l) = x
         /\ ToSet(Stored(mem, l, x)[l]) \subseteq ToSet(mem[l]) \cup {x}
         /\ \A k \in Lines \ {l} : /\ Stored(mem, l, x)[k] = mem[k]
                                   /\ Now(Stored(mem, l, x), k) = Now(mem, k)
<1>1. mem[l] \in Seq(Contents(l)) /\ mem[l] # <<>> /\ l \in DOMAIN mem
  BY DEF Memory
<1>2. PICK f : f = Stored(mem, l, x)
  OBVIOUS
<1>3. /\ DOMAIN f = DOMAIN mem
      /\ f[l] \in Seq(Contents(l)) \ {<<>>}
      /\ Now(f, l) = x
      /\ f[l] = mem[l] \/ f[l] = Append(mem[l], x)
      /\ \A k \in DOMAIN mem : k # l => f[k] = mem[k]
  BY <1>1, <1>2 DEF Stored, Now
<1>4. ToSet(Append(mem[l], x)) \subseteq ToSet(mem[l]) \cup {x}
  <2>1. PICK s : s = mem[l]
    OBVIOUS
  <2>2. \A i \in DOMAIN Append(s, x) :
          \/ Append(s, x)[i] = x
          \/ i \in DOMAIN s /\ Append(s, x)[i] = s[i]
    BY <1>1, <2>1
  <2>3. QED
    BY <2>1, <2>2 DEF ToSet
<1>5. \A k \in Lines \ {l} : Now(f, k) = Now(mem, k)
  BY <1>3 DEF Now, Memory
<1>6. Memory(f)
  BY <1>3 DEF Memory
<1>7. QED
  BY <1>2, <1>3, <1>4, <1>5, <1>6 DEF Memory

\* What a locked instruction of t does, and what it fences.
LEMMA LockedMemory ==
  ASSUME TypeOK, NEW t \in Threads, NEW l \in Lines, NEW x \in Contents(l),
         Locked(t, l, x)
  PROVE  /\ Memory(nvm')
         /\ Now(nvm', l) = x
         /\ ToSet(nvm'[l]) \subseteq ToSet(nvm[l]) \cup {x}
         /\ \A k \in Lines \ {l} :
              /\ Now(nvm', k) = Now(nvm, k)
              /\ ToSet(nvm'[k]) \subseteq ToSet(nvm[k])
              /\ k \in DOMAIN pwb[t] /\ pwb[t][k] = Now(nvm, k) =>
                   ToSet(nvm'[k]) = {Now(nvm, k)}
         /\ DOMAIN pwb' = Threads
         /\ \A u \in Threads \ {t} : pwb'[u] = pwb[u]
         /\ DOMAIN pwb'[t] = {}
<1>1. PICK f : f = Fenced(nvm, pwb[t])
  OBVIOUS
<1>2. /\ Memory(f)
      /\ \A k \in Lines :
           /\ Now(f, k) = Now(nvm, k)
           /\ ToSet(f[k]) \subseteq ToSet(nvm[k])
           /\ k \in DOMAIN pwb[t] /\ pwb[t][k] = Now(nvm, k) =>
                ToSet(f[k]) = {Now(nvm, k)}
  BY <1>1, FencedMemory DEF TypeOK
<1>3. nvm' = Stored(f, l, x)
  BY <1>1 DEF Locked
<1>4. /\ Memory(nvm')
      /\ Now(nvm', l) = x
      /\ ToSet(nvm'[l]) \subseteq ToSet(f[l]) \cup {x}
      /\ \A k \in Lines \ {l} : nvm'[k] = f[k] /\ Now(nvm', k) = Now(f, k)
  BY <1>2, <1>3, StoredMemory
<1>5. /\ DOMAIN pwb' = Threads
      /\ \A u \in Threads \ {t} : pwb'[u] = pwb[u]
      /\ DOMAIN pwb'[t] = {}
  BY DEF Locked, TypeOK
<1>6. QED
  BY <1>2, <1>4, <1>5

\* A write-back notes what the caches have.
LEMMA WriteBackNotes ==
  ASSUME TypeOK, NEW t \in Threads, NEW L \in SUBSET Lines, Memory(nvm'),
         WriteBack(t, L)
  PROVE  /\ DOMAIN pwb' = Threads
         /\ \A u \in Threads \ {t} : pwb'[u] = pwb[u]
         /\ \A l \in L : l \in DOMAIN pwb'[t] /\ pwb'[t][l] = Now(nvm', l)
         /\ \A l \in DOMAIN pwb'[t] : l \in Lines /\ pwb'[t][l] \in Contents(l)
<1>1. PICK new : new = WrittenBack(pwb[t], nvm', L)
  OBVIOUS
<1>2. /\ DOMAIN pwb' = Threads /\ pwb'[t] = new
      /\ \A u \in Threads \ {t} : pwb'[u] = pwb[u]
  BY <1>1 DEF WriteBack, TypeOK
<1>3. /\ DOMAIN new = L \cup DOMAIN pwb[t]
      /\ \A l \in DOMAIN new :
           new[l] = IF l \in L THEN Now(nvm', l) ELSE pwb[t][l]
  BY <1>1 DEF WrittenBack
<1>4. \A l \in DOMAIN new : l \in Lines /\ new[l] \in Contents(l)
  BY <1>3, NowType DEF TypeOK
<1>5. QED
  BY <1>2, <1>3, <1>4

(***************************************************************************)
(* Write-sets.                                                             *)
(***************************************************************************)

\* Order has every word.
LEMMA OrderIsOnto ==
  /\ Order \in Seq(Words) /\ Len(Order) \in Nat \ {0}
  /\ \A w \in Words : \E i \in 1 .. Len(Order) : Order[i] = w
<1>1. PICK n : n = Cardinality(Words)
  OBVIOUS
<1>2. n \in Nat /\ ExistsBijection(1 .. n, Words)
  BY <1>1, FS_CardinalityType
<1>3. \E f \in [1 .. n -> Words] : IsInjective(f)
  BY <1>2 DEF ExistsBijection, Bijection, Injection
<1>4. Order \in [1 .. n -> Words] /\ IsInjective(Order)
  BY <1>1, <1>3, Zenon DEF Order, SetToSeq
<1>5. Order \in Injection(1 .. n, Words)
  BY <1>4 DEF Injection
<1>6. IsFiniteSet(1 .. n) /\ Cardinality(1 .. n) = n
  BY <1>2, FS_Interval
<1>7. Order \in Surjection(1 .. n, Words)
  BY <1>1, <1>5, <1>6, FS_Injection
<1>8. \A w \in Words : \E i \in 1 .. n : Order[i] = w
  BY <1>7 DEF Surjection
<1>9. n # 0
  BY <1>8
<1>10. Order \in Seq(Words) /\ Len(Order) = n
  BY <1>2, <1>4
<1>11. QED
  BY <1>2, <1>8, <1>9, <1>10

LEMMA FullLogs ==
  ASSUME NEW v
  PROVE  /\ Len(FullLog(v)) = Len(Order) /\ FullLog(v) # <<>>
         /\ DOMAIN FullLog(v) = 1 .. Len(Order)
         /\ \A i \in 1 .. Len(Order) :
              FullLog(v)[i] = [addr |-> Order[i], val |-> v]
         /\ FullLog(v)[1].val = v
         /\ Complete(FullLog(v))
         /\ v \in Int => FullLog(v) \in LogType
<1>1. /\ Order \in Seq(Words) /\ Len(Order) \in Nat \ {0}
      /\ DOMAIN Order = 1 .. Len(Order) /\ 1 \in 1 .. Len(Order)
  BY OrderIsOnto
<1>2. PICK f : f = FullLog(v)
  OBVIOUS
<1>3. /\ f = [i \in 1 .. Len(Order) |-> [addr |-> Order[i], val |-> v]]
      /\ \A i \in 1 .. Len(Order) : f[i] = [addr |-> Order[i], val |-> v]
  BY <1>1, <1>2 DEF FullLog
<1>4. Len(f) = Len(Order) /\ DOMAIN f = 1 .. Len(Order) /\ f # <<>>
  BY <1>1, <1>3
<1>5. f[1].val = v
  BY <1>1, <1>3
<1>6. v \in Int => f \in LogType
  <2>1. \A i \in 1 .. Len(Order) : Order[i] \in Words
    BY <1>1
  <2>2. v \in Int => \A i \in 1 .. Len(Order) :
          [addr |-> Order[i], val |-> v] \in
            [addr : Words \cup {NoWord}, val : Int]
    BY <2>1
  <2>3. QED
    BY <1>1, <1>3, <2>2 DEF LogType
<1>7. Complete(f)
  BY <1>2, <1>4, <1>5 DEF Complete
<1>8. QED
  BY <1>2, <1>3, <1>4, <1>5, <1>6, <1>7

\* The entries of a complete log, in the order of apply.
LEMMA CompleteLogs ==
  ASSUME NEW l \in LogType, Complete(l)
  PROVE  /\ l[1].val \in Int /\ l = FullLog(l[1].val)
         /\ Len(l) = Len(Order) /\ l # <<>>
         /\ \A i \in 1 .. Len(Order) :
              l[i] = [addr |-> Order[i], val |-> l[1].val]
<1>1. PICK v : v = l[1].val
  OBVIOUS
<1>2. l = FullLog(v)
  BY <1>1 DEF Complete
<1>3. /\ Len(l) = Len(Order) /\ l # <<>> /\ 1 \in DOMAIN l
      /\ \A i \in 1 .. Len(Order) : l[i] = [addr |-> Order[i], val |-> v]
  BY <1>2, FullLogs, OrderIsOnto
<1>4. l[1] \in [addr : Words \cup {NoWord}, val : Int]
  <2>1. PICK E : E = [addr : Words \cup {NoWord}, val : Int]
    OBVIOUS
  <2>2. l \in Seq(E)
    BY <2>1 DEF LogType
  <2>3. l[1] \in E
    BY <1>3, <2>2
  <2>4. QED
    BY <2>1, <2>3
<1>5. QED
  BY <1>1, <1>2, <1>3, <1>4

LEMMA EntryWords ==
  ASSUME NEW t \in Threads
  PROVE  /\ \A k \in Nat : EntryWord(t, k) \in Words
         /\ \A w \in Words : \E k \in 0 .. Len(Order) - 1 :
              EntryWord(t, k) = w
<1>1. /\ Order \in Seq(Words) /\ Len(Order) \in Nat \ {0} /\ t \in Nat
      /\ \A w \in Words : \E i \in 1 .. Len(Order) : Order[i] = w
  BY OrderIsOnto DEF Threads
<1>2. PICK n : n = Len(Order)
  OBVIOUS
<1>3. \A k \in Nat : ApplyIndex(t, k, n) \in 0 .. n - 1
  BY <1>1, <1>2 DEF ApplyIndex
<1>4. \A k \in Nat : EntryWord(t, k) = Order[ApplyIndex(t, k, n) + 1]
  BY <1>2 DEF EntryWord, ApplyIndex
<1>5. ASSUME NEW k \in Nat
      PROVE  EntryWord(t, k) \in Words
  <2>1. PICK i : i = ApplyIndex(t, k, n)
    OBVIOUS
  <2>2. i + 1 \in 1 .. n
    <3>1. i \in 0 .. n - 1 /\ n \in Nat
      BY <1>1, <1>2, <1>3, <2>1
    <3>2. QED
      BY <3>1
  <2>3. QED
    BY <1>1, <1>2, <1>4, <2>1, <2>2
<1>6. ASSUME NEW w \in Words
      PROVE  \E k \in 0 .. n - 1 : EntryWord(t, k) = w
  <2>1. PICK i \in 1 .. n : Order[i] = w
    BY <1>1, <1>2
  <2>2. n \in Nat /\ n > 0 /\ i - 1 \in 0 .. n - 1
    BY <1>1, <1>2
  <2>3. PICK k \in 0 .. n - 1 : ApplyIndex(t, k, n) = i - 1
    BY <1>1, <2>2, ApplyIndexOnto
  <2>4. EntryWord(t, k) = Order[(i - 1) + 1]
    BY <1>4, <2>3
  <2>5. QED
    BY <2>1, <2>4
<1>7. QED
  BY <1>2, <1>5, <1>6

\* What apply works on.
LEMMA ApplyEntryIs ==
  ASSUME NEW t \in Threads, log[t] \in LogType, Complete(log[t]),
         th[t].i \in Nat
  PROVE  ApplyEntry(t) = [addr |-> EntryWord(t, th[t].i),
                          val |-> log[t][1].val]
<1>1. PICK k : k = th[t].i
  OBVIOUS
<1>2. /\ Len(Order) \in Nat \ {0} /\ t \in Nat /\ k \in Nat
      /\ Len(log[t]) = Len(Order)
      /\ \A i \in 1 .. Len(Order) :
           log[t][i] = [addr |-> Order[i], val |-> log[t][1].val]
  <2>1. PICK l \in LogType : l = log[t]
    OBVIOUS
  <2>2. /\ Len(l) = Len(Order)
        /\ \A i \in 1 .. Len(Order) :
             l[i] = [addr |-> Order[i], val |-> l[1].val]
    BY <2>1, CompleteLogs
  <2>3. Len(Order) \in Nat \ {0} /\ t \in Nat /\ k \in Nat
    BY <1>1, OrderIsOnto DEF Threads
  <2>4. QED
    BY <2>1, <2>2, <2>3
<1>3. ((t * 8 + k) % Len(Order)) + 1 \in 1 .. Len(Order)
  BY <1>2
<1>4. QED
  BY <1>1, <1>2, <1>3 DEF ApplyEntry, EntryWord

(***************************************************************************)
(* Steps of one thread.                                                    *)
(***************************************************************************)

LEMMA Types ==
  ASSUME TypeOK
  PROVE  /\ curTx \in TransType
         /\ \A t \in Threads :
              /\ th[t] \in LocalType /\ log[t] \in LogType
              /\ Now(nvm, t) \in [request : TransType, plog : LogType]
              /\ request(t) \in TransType
         /\ \A w \in Words : Now(nvm, w) \in [val : Int, seq : Nat]
         /\ commits \in Seq(Int) /\ curTx.seq \in Nat
         /\ curTx.idx \in Threads
<1>1. Memory(nvm)
  BY DEF TypeOK
<1>2. curTx \in TransType
  BY <1>1, LinesDiffer, ContentsOf, NowType DEF curTx
<1>3. \A t \in Threads :
        Now(nvm, t) \in [request : TransType, plog : LogType]
  BY <1>1, LinesDiffer, ContentsOf, NowType
<1>4. \A w \in Words : Now(nvm, w) \in [val : Int, seq : Nat]
  BY <1>1, LinesDiffer, ContentsOf, NowType
<1>5. \A t \in Threads : request(t) \in TransType
  BY <1>3 DEF request
<1>6. QED
  BY <1>2, <1>3, <1>4, <1>5 DEF TypeOK, TransType

TypeFacts ==
  /\ curTx \in TransType
  /\ \A t \in Threads :
       /\ th[t] \in LocalType /\ log[t] \in LogType
       /\ Now(nvm, t) \in [request : TransType, plog : LogType]
       /\ request(t) \in TransType
  /\ \A w \in Words : Now(nvm, w) \in [val : Int, seq : Nat]
  /\ commits \in Seq(Int) /\ curTx.seq \in Nat
  /\ curTx.idx \in Threads

LEMMA TypesAre == TypeOK => TypeFacts
BY Types DEF TypeFacts

LEMMA TypesNext == TypeOK' => TypeFacts'
BY TypesAre, PTL

\* What the threads still have to do with has a type, and the transactions of
\* a thread are among it.
LEMMA KnownIs ==
  ASSUME TypeOK
  PROVE  /\ Known \subseteq TransType
         /\ curTx \in Known
         /\ \A t \in Threads : /\ Serving(t) => Served(t) \in Known
                               /\ Begun(t) => th[t].myTx \in Known
<1>1. ASSUME NEW t \in Threads
      PROVE  th[t].myTx \in TransType /\ Served(t) \in TransType
  <2>1. th[t] \in LocalType
    BY Types
  <2>2. /\ th[t].myTx \in TransType /\ th[t].helpTx \in TransType
    BY <2>1 DEF LocalType
  <2>3. Trans(th[t].myTx.seq + 1, t) \in TransType
    BY <2>2 DEF Trans, TransType
  <2>4. QED
    BY <2>2, <2>3 DEF Served, NewTx
<1>2. QED
  BY <1>1, Types DEF Known

\* What a step of t may do to what the other threads rely on, as long as no
\* transaction is published: write a word of the open transaction, or close
\* that when it is done; or open its own request.
Tame(t) ==
  /\ curTx' = curTx /\ commits' = commits
  /\ \A u \in Threads :
       request(u)' = request(u) \/ request(u)' \notin Known
  /\ \A u \in Threads \ {t} :
       \/ Now(nvm', u) = Now(nvm, u)
       \/ IsOpen /\ u = curTx.idx
  /\ \A w \in Words :
       \/ Now(nvm', w) = Now(nvm, w)
       \/ /\ IsOpen
          /\ Now(nvm, w).seq < curTx.seq
          /\ Now(nvm', w).seq = curTx.seq
          /\ Now(nvm', w).val = Worth
  /\ IsOpen /\ ~IsOpen' =>
       \A w \in Words : /\ Now(nvm, w).seq = curTx.seq
                        /\ \A c \in ToSet(nvm'[w]) : c.val = Worth
  /\ ~IsOpen => \A w \in Words : ToSet(nvm'[w]) \subseteq ToSet(nvm[w])
  /\ IsOpen' => ToSet(nvm'[curTx.idx]) \subseteq ToSet(nvm[curTx.idx])
  /\ \A u \in Threads \ {t} :
       /\ th'[u] = th[u] /\ pwb'[u] = pwb[u]
       /\ \/ log'[u] = log[u]
          \/ At(u, "helpCurTx") /\ ~Current(u)

\* t deals with no other transactions than somebody did before.
DealsWithKnown(t) ==
  /\ Serving(t)' => Served(t)' \in Known
  /\ Begun(t)' => \/ th'[t].myTx = curTx
                  \/ Begun(t) /\ th'[t].myTx = th[t].myTx

LEMMA TameShared ==
  ASSUME PInv, NEW t \in Threads, Tame(t)
  PROVE  /\ Worth' = Worth /\ (IsOpen' => IsOpen)
         /\ \A w \in Words : Now(nvm', w).seq >= Now(nvm, w).seq
         /\ \A w \in Words : Now(nvm, w).seq >= curTx.seq =>
              Now(nvm', w) = Now(nvm, w)
         /\ MemoryState' /\ ClosedIsPersistent' /\ OpenLogIsPersistent'
<1>1. TypeOK /\ MemoryState /\ ClosedIsPersistent /\ OpenLogIsPersistent
  BY DEF PInv
<1>2. /\ curTx' = curTx /\ commits' = commits
      /\ curTx \in Known /\ curTx.seq \in Nat /\ curTx.idx \in Threads
      /\ \A w \in Words : Now(nvm, w).seq \in Nat
  BY <1>1, Types, KnownIs DEF Tame
<1>3. Worth' = Worth
  BY <1>2 DEF Worth
<1>4. IsOpen' => IsOpen
  <2>1. \/ request(curTx.idx)' = request(curTx.idx)
        \/ request(curTx.idx)' \notin Known
    BY <1>2 DEF Tame
  <2>2. IsOpen' <=> request(curTx.idx)' = curTx
    BY <1>2 DEF IsOpen, Closed, request
  <2>3. IsOpen <=> request(curTx.idx) = curTx
    BY DEF IsOpen, Closed
  <2>4. QED
    BY <1>2, <2>1, <2>2, <2>3
<1>5. \A w \in Words :
        \/ Now(nvm', w) = Now(nvm, w)
        \/ /\ IsOpen
           /\ Now(nvm, w).seq < curTx.seq
           /\ Now(nvm', w).seq = curTx.seq
           /\ Now(nvm', w).val = Worth
  BY DEF Tame
<1>6. \A w \in Words : Now(nvm', w).seq >= Now(nvm, w).seq
  BY <1>2, <1>5
<1>7. \A w \in Words : Now(nvm, w).seq >= curTx.seq =>
        Now(nvm', w) = Now(nvm, w)
  BY <1>2, <1>5
<1>8. MemoryState'
  <2>1. \A w \in Words :
          /\ Now(nvm, w).seq <= curTx.seq
          /\ IsOpen /\ Now(nvm, w).seq = curTx.seq => Now(nvm, w).val = Worth
    BY <1>1 DEF MemoryState
  <2>2. \A w \in Words :
          /\ Now(nvm', w).seq <= curTx.seq
          /\ IsOpen' /\ Now(nvm', w).seq = curTx.seq =>
               Now(nvm', w).val = Worth
    BY <1>2, <1>4, <1>5, <2>1
  <2>3. QED
    BY <1>2, <1>3, <2>2 DEF MemoryState
<1>9. ClosedIsPersistent'
  <2>1. SUFFICES ASSUME ~IsOpen', NEW w \in Words, NEW c \in ToSet(nvm'[w])
                 PROVE  c.val = Worth
    BY <1>3 DEF ClosedIsPersistent, IsOpen
  <2>2. CASE IsOpen
    BY <2>1, <2>2 DEF Tame
  <2>3. CASE ~IsOpen
    <3>1. c \in ToSet(nvm[w])
      BY <2>1, <2>3 DEF Tame
    <3>2. QED
      BY <1>1, <2>3, <3>1 DEF ClosedIsPersistent, IsOpen
  <2>4. QED
    BY <2>2, <2>3
<1>10. OpenLogIsPersistent'
  <2>1. SUFFICES ASSUME IsOpen', NEW c \in ToSet(nvm'[curTx.idx])
                 PROVE  c.request = curTx /\ c.plog = FullLog(Worth)
    BY <1>2, <1>3 DEF OpenLogIsPersistent, IsOpen
  <2>2. IsOpen /\ c \in ToSet(nvm[curTx.idx])
    BY <1>4, <2>1 DEF Tame
  <2>3. QED
    BY <1>1, <2>2 DEF OpenLogIsPersistent, IsOpen
<1>11. QED
  BY <1>3, <1>4, <1>6, <1>7, <1>8, <1>9, <1>10

\* A tame step leaves what the others rely on.
LEMMA OthersKeep ==
  ASSUME PInv, NEW t \in Threads, Tame(t), NEW u \in Threads, u # t
  PROVE  ThreadState(u)'
<1>1. /\ th'[u] = th[u] /\ pwb'[u] = pwb[u]
      /\ \/ log'[u] = log[u]
         \/ At(u, "helpCurTx") /\ ~Current(u)
      /\ \/ Now(nvm', u) = Now(nvm, u)
         \/ IsOpen /\ u = curTx.idx
      /\ curTx' = curTx
  BY DEF Tame
<1>2. ThreadState(u) /\ TypeFacts
  BY TypesAre DEF PInv
<1>3. /\ Worth' = Worth /\ (IsOpen' => IsOpen)
      /\ \A w \in Words : Now(nvm', w).seq >= Now(nvm, w).seq
      /\ \A w \in Words : Now(nvm, w).seq >= curTx.seq =>
           Now(nvm', w) = Now(nvm, w)
  BY TameShared
<1>4. /\ Served(u)' = Served(u) /\ Reading(u)' = Reading(u)
      /\ \A l : At(u, l)' = At(u, l)
  BY <1>1 DEF Served, Reading, NewTx, At
<1>5. Current(u)' => Current(u)
  BY <1>1, <1>3, <1>4 DEF Current
<1>6. Reading(u)' /\ th'[u].myTx = curTx' => Closed'
  <2>1. Reading(u) /\ th[u].myTx = curTx => Closed
    BY <1>2 DEF ThreadState
  <2>2. QED
    BY <1>1, <1>3, <1>4, <2>1 DEF IsOpen
<1>7. th'[u].pc \in {"helpCurTx", "helpRequest"} /\ Current(u)' =>
        log'[u] = FullLog(Worth')
  <2>1. th[u].pc \in {"helpCurTx", "helpRequest"} /\ Current(u) =>
          log[u] = FullLog(Worth)
    BY <1>2 DEF ThreadState
  <2>2. QED
    BY <1>1, <1>3, <1>5, <2>1
<1>8. ASSUME th'[u].pc \in {"apply", "dcas", "close"}
      PROVE  ThreadApply(u)'
  <2>1. ThreadApply(u) /\ log'[u] = log[u] /\ Served(u) = th[u].helpTx
    BY <1>1, <1>2, <1>8 DEF ThreadState, At, Served
  <2>2. /\ th[u].helpTx.seq <= curTx.seq /\ th[u].helpTx.seq \in Nat
        /\ th[u].i \in Nat
    <3>1. Served(u) \in Known
      BY <1>1, <1>8, KnownIs DEF Serving, HelpLabels, PInv
    <3>2. Served(u) = curTx \/ Served(u).seq < curTx.seq
      BY <3>1 DEF PInv, PastClosed
    <3>3. th[u].helpTx \in TransType /\ curTx.seq \in Nat /\ th[u].i \in Nat
      BY <1>2 DEF TypeFacts, LocalType
    <3>4. QED
      BY <2>1, <3>2, <3>3 DEF TransType
  <2>3. \A w \in Words : Now(nvm', w).seq \in Nat /\ Now(nvm, w).seq \in Nat
    <3>1. \A w \in Words :
            Now(nvm', w) = Now(nvm, w) \/ Now(nvm', w).seq = curTx.seq
      BY DEF Tame
    <3>2. QED
      BY <1>2, <3>1 DEF TypeFacts
  <2>4. \A w \in Words : Applied(u, w) => Applied(u, w)'
    BY <1>1, <1>3, <2>2, <2>3 DEF Applied
  <2>5. Complete(log'[u])
    BY <2>1 DEF ThreadApply
  <2>6. IF Current(u)' THEN log'[u] = FullLog(Worth')
                       ELSE \A w \in Words : Applied(u, w)'
    <3>1. CASE Current(u)'
      BY <1>3, <1>5, <2>1, <3>1 DEF ThreadApply
    <3>2. CASE ~Current(u)
      BY <1>5, <2>1, <2>4, <3>2 DEF ThreadApply
    <3>3. CASE ~Current(u)' /\ Current(u)
      <4>1. IsOpen /\ ~IsOpen' /\ th[u].helpTx = curTx
        BY <1>1, <1>4, <2>1, <3>3 DEF Current
      <4>2. \A w \in Words : Now(nvm, w).seq = curTx.seq
        BY <4>1 DEF Tame
      <4>3. \A w \in Words : Applied(u, w)
        BY <2>2, <4>1, <4>2 DEF Applied
      <4>4. QED
        BY <2>4, <3>3, <4>3
    <3>4. QED
      BY <3>1, <3>2, <3>3
  <2>7. th'[u].i <= Len(Order)
    BY <1>1, <2>1 DEF ThreadApply
  <2>8. \A k \in 0 .. th'[u].i - 1 : Applied(u, EntryWord(u, k))'
    <3>1. \A k \in 0 .. th[u].i - 1 : Applied(u, EntryWord(u, k))
      BY <2>1 DEF ThreadApply
    <3>2. \A k \in Nat : EntryWord(u, k) \in Words
      BY EntryWords
    <3>3. ASSUME NEW k \in 0 .. th[u].i - 1
          PROVE  Applied(u, EntryWord(u, k))'
      BY <2>2, <2>4, <3>1, <3>2, EntryWord(u, k)' = EntryWord(u, k)
         DEF EntryWord
    <3>4. QED
      BY <1>1, <3>3
  <2>9. At(u, "dcas")' =>
          /\ th'[u].i < Len(Order)
          /\ th'[u].seq < th'[u].helpTx.seq
          /\ \/ Applied(u, EntryWord(u, th[u].i))'
             \/ Now(nvm', EntryWord(u, th[u].i))
                  = [val |-> th[u].val, seq |-> th[u].seq]
    <3>1. SUFFICES ASSUME At(u, "dcas")
                   PROVE  \/ Applied(u, EntryWord(u, th[u].i))'
                          \/ Now(nvm', EntryWord(u, th[u].i))
                               = [val |-> th[u].val, seq |-> th[u].seq]
      BY <1>1, <1>4, <2>1 DEF ThreadApply
    <3>2. PICK w \in Words : w = EntryWord(u, th[u].i)
      BY <2>2, EntryWords
    <3>3. \/ Applied(u, w)
          \/ Now(nvm, w) = [val |-> th[u].val, seq |-> th[u].seq]
      BY <2>1, <3>1, <3>2 DEF ThreadApply
    <3>4. Now(nvm', w) = Now(nvm, w) \/ Now(nvm', w).seq = curTx.seq
      BY DEF Tame
    <3>5. Now(nvm', w).seq = curTx.seq => Applied(u, w)'
      BY <1>1, <2>2 DEF Applied
    <3>6. \/ Applied(u, w)'
          \/ Now(nvm', w) = [val |-> th[u].val, seq |-> th[u].seq]
      BY <2>4, <3>3, <3>4, <3>5
    <3>7. Applied(u, w)' = Applied(u, EntryWord(u, th[u].i))'
      BY <1>1, <3>2 DEF Applied, EntryWord
    <3>8. QED
      BY <3>2, <3>6, <3>7
  <2>10. At(u, "close")' =>
           /\ \A w \in Words : Applied(u, w)'
           /\ Current(u)' => \A w \in Words :
                w \in DOMAIN pwb'[u] /\ pwb'[u][w] = Now(nvm', w)
    <3>1. SUFFICES ASSUME At(u, "close")
                   PROVE  /\ \A w \in Words : Applied(u, w)'
                          /\ Current(u)' => \A w \in Words :
                               /\ w \in DOMAIN pwb'[u]
                               /\ pwb'[u][w] = Now(nvm', w)
      BY <1>4
    <3>2. \A w \in Words : Applied(u, w)
      BY <2>1, <3>1 DEF ThreadApply
    <3>3. ASSUME Current(u)', NEW w \in Words
          PROVE  w \in DOMAIN pwb'[u] /\ pwb'[u][w] = Now(nvm', w)
      <4>1. th[u].helpTx = curTx
        BY <1>5, <2>1, <3>3 DEF Current
      <4>2. Now(nvm', w) = Now(nvm, w)
        BY <1>3, <3>2, <4>1 DEF Applied
      <4>3. w \in DOMAIN pwb[u] /\ pwb[u][w] = Now(nvm, w)
        BY <1>5, <2>1, <3>1, <3>3 DEF ThreadApply
      <4>4. QED
        BY <1>1, <4>2, <4>3
    <3>4. QED
      BY <2>4, <3>2, <3>3
  <2>11. EntryWord(u, th[u].i) = EntryWord(u, th[u].i)'
    BY <1>1 DEF EntryWord
  <2>12. QED
    BY <1>1, <1>3, <2>5, <2>6, <2>7, <2>8, <2>9, <2>10, <2>11
       DEF ThreadApply, EntryWord
<1>9. ThreadCommit(u)'
  <2>1. ThreadCommit(u) /\ ThreadOwns(u)
    BY <1>2 DEF ThreadState
  <2>2. CASE th[u].pc \in LogLabels
    <3>1. ~(IsOpen /\ u = curTx.idx)
      BY <2>1, <2>2 DEF ThreadOwns, LogLabels
    <3>2. Now(nvm', u) = Now(nvm, u) /\ log'[u] = log[u]
      BY <1>1, <2>2, <3>1 DEF LogLabels, At
    <3>3. QED
      BY <1>1, <2>1, <3>2 DEF ThreadCommit, request, NewTx, At
  <2>3. CASE th[u].pc \notin LogLabels
    BY <1>1, <2>3 DEF ThreadCommit, LogLabels, At
  <2>4. QED
    BY <2>2, <2>3
<1>10. ThreadOwns(u)'
  <2>1. ThreadOwns(u)
    BY <1>2 DEF ThreadState
  <2>2. SUFFICES ASSUME IsOpen', curTx'.idx = u
                 PROVE  /\ log'[u] = FullLog(Worth')
                        /\ \/ th'[u].pc \in {"idle", "load"}
                           \/ /\ th'[u].pc \in {"pwbCurTx", "chkRequest",
                                                "apply", "dcas", "close"}
                              /\ Served(u)' = curTx'
    BY DEF ThreadOwns
  <2>3. /\ log[u] = FullLog(Worth)
        /\ \/ th[u].pc \in {"idle", "load"}
           \/ /\ th[u].pc \in {"pwbCurTx", "chkRequest", "apply", "dcas",
                               "close"}
              /\ Served(u) = curTx
    BY <1>1, <1>3, <2>1, <2>2 DEF ThreadOwns
  <2>4. log'[u] = log[u]
    BY <1>1, <2>3 DEF At
  <2>5. QED
    BY <1>1, <1>3, <1>4, <2>3, <2>4
<1>11. /\ th'[u].pc \in HelpLabels =>
            /\ th'[u].back # "idle"
            /\ th'[u].back = "reset" => th'[u].myTx = th'[u].helpTx
       /\ th'[u].pc \notin {"apply", "dcas", "close"} => th'[u].i = 0
  BY <1>1, <1>2 DEF ThreadState
<1>12. QED
  BY <1>6, <1>7, <1>8, <1>9, <1>10, <1>11 DEF ThreadState

\* A tame step of a thread that keeps its part of the invariant keeps it all.
LEMMA TameStep ==
  ASSUME PInv, NEW t \in Threads, Tame(t), DealsWithKnown(t), TypeOK',
         ThreadState(t)'
  PROVE  PInv'
<1>1. /\ Known \subseteq TransType /\ curTx \in Known
      /\ \A u \in Threads : /\ Serving(u) => Served(u) \in Known
                            /\ Begun(u) => th[u].myTx \in Known
  BY KnownIs DEF PInv
<1>2. curTx' = curTx /\ curTx \in TransType /\ TypeFacts
  BY TypesAre DEF Tame, PInv, TypeFacts
<1>3. \A u \in Threads \ {t} :
        /\ th'[u] = th[u]
        /\ Serving(u)' = Serving(u) /\ Served(u)' = Served(u)
        /\ Begun(u)' = Begun(u)
  BY DEF Tame, Serving, Served, Begun, Reading, NewTx, At
<1>4. \A u \in Threads : /\ Serving(u)' => Served(u)' \in Known
                         /\ Begun(u)' => th'[u].myTx \in Known
  <2>1. ASSUME NEW u \in Threads
        PROVE  /\ Serving(u)' => Served(u)' \in Known
               /\ Begun(u)' => th'[u].myTx \in Known
    <3>1. CASE u = t
      BY <1>1, <3>1 DEF DealsWithKnown
    <3>2. CASE u # t
      BY <1>1, <1>3, <3>2
    <3>3. QED
      BY <3>1, <3>2
  <2>2. QED
    BY <2>1
<1>5. Known' \subseteq Known
  <2>1. ASSUME NEW c \in Known'
        PROVE  c \in Known
    <3>1. \/ c = curTx'
          \/ \E u \in Threads : Serving(u)' /\ c = Served(u)'
          \/ \E u \in Threads : Begun(u)' /\ c = th'[u].myTx
      BY DEF Known
    <3>2. QED
      BY <1>1, <1>2, <1>4, <3>1
  <2>2. QED
    BY <2>1
<1>6. PastClosed'
  <2>1. SUFFICES ASSUME NEW c \in Known', c # curTx
                 PROVE  c.seq < curTx.seq /\ request(c.idx)' # c
    BY <1>2 DEF PastClosed, request
  <2>2. c \in Known /\ c.idx \in Threads
    BY <1>1, <1>5 DEF TransType
  <2>3. c.seq < curTx.seq /\ request(c.idx) # c
    BY <2>1, <2>2 DEF PInv, PastClosed
  <2>4. request(c.idx)' = request(c.idx) \/ request(c.idx)' \notin Known
    BY <2>2 DEF Tame
  <2>5. QED
    BY <2>2, <2>3, <2>4
<1>7. OwnSeq'
  <2>1. SUFFICES ASSUME NEW u \in Threads, Begun(u)', NEW c \in Known,
                        c.idx = u
                 PROVE  c.seq <= th'[u].myTx.seq
    BY <1>5 DEF OwnSeq
  <2>2. CASE Begun(u) /\ th'[u].myTx = th[u].myTx
    BY <2>1, <2>2 DEF PInv, OwnSeq
  <2>3. CASE th'[u].myTx = curTx
    <3>1. c = curTx \/ c.seq < curTx.seq
      BY <2>1 DEF PInv, PastClosed
    <3>2. c.seq \in Nat /\ curTx.seq \in Nat
      BY <1>1, <1>2 DEF TransType
    <3>3. QED
      BY <2>3, <3>1, <3>2
  <2>4. QED
    BY <1>3, <2>1, <2>2, <2>3 DEF DealsWithKnown
<1>8. MemoryState' /\ ClosedIsPersistent' /\ OpenLogIsPersistent'
  BY TameShared
<1>9. \A u \in Threads : ThreadState(u)'
  BY OthersKeep
<1>10. QED
  BY <1>6, <1>7, <1>8, <1>9 DEF PInv

(***************************************************************************)
(* Steps that store nothing in persistent memory.                          *)
(***************************************************************************)

SameMemory ==
  /\ curTx' = curTx /\ Worth' = Worth
  /\ (IsOpen' <=> IsOpen) /\ (Closed' <=> Closed)
  /\ \A u : request(u)' = request(u)

LEMMA SameAsItWas ==
  ASSUME nvm' = nvm, commits' = commits
  PROVE  SameMemory
BY DEF SameMemory, curTx, Worth, IsOpen, Closed, request

\* Where a thread gets to.
LEMMA Went ==
  ASSUME TypeOK, NEW t \in Threads, NEW new \in LocalType, NEW to \in Labels,
         NEW from, Go(t, from, to, new)
  PROVE  /\ th[t].pc = from
         /\ th'[t] = [new EXCEPT !.pc = to] /\ th'[t] \in LocalType
         /\ th' \in [Threads -> LocalType]
         /\ \A u \in Threads \ {t} : th'[u] = th[u]
<1>1. th \in [Threads -> LocalType]
  BY DEF TypeOK
<1>2. [new EXCEPT !.pc = to] \in LocalType
  BY DEF LocalType
<1>3. th' = [th EXCEPT ![t] = [new EXCEPT !.pc = to]] /\ th[t].pc = from
  BY DEF Go, At
<1>4. QED
  BY <1>1, <1>2, <1>3

\* The part of the invariant that a step of t has to keep itself.
Keeps(t) == TypeOK' /\ Tame(t) /\ DealsWithKnown(t) /\ ThreadState(t)'

\* A step that stores nothing, and notes nothing to be written back.
LEMMA Quiet ==
  ASSUME PInv, NEW t \in Threads, th' \in [Threads -> LocalType],
         \A u \in Threads \ {t} : th'[u] = th[u],
         UNCHANGED <<nvm, pwb, log, history>>
  PROVE  TypeOK' /\ Tame(t) /\ SameMemory
<1>1. SameMemory
  BY SameAsItWas DEF history
<1>2. TypeOK'
  BY <1>1 DEF PInv, TypeOK, SameMemory, history, Memory
<1>3. Tame(t)
  BY <1>1 DEF Tame, SameMemory, PInv, ClosedIsPersistent, history
<1>4. QED
  BY <1>1, <1>2, <1>3

\* A step that changes the log of t.
LEMMA Logs ==
  ASSUME PInv, NEW t \in Threads, th' \in [Threads -> LocalType],
         \A u \in Threads \ {t} : th'[u] = th[u],
         NEW new \in LogType, WriteLog(t, new),
         th[t].pc \in {"reset", "runSeq", "copy"},
         UNCHANGED <<nvm, pwb, history>>
  PROVE  /\ TypeOK' /\ Tame(t) /\ SameMemory
         /\ log'[t] = new /\ ~(IsOpen /\ curTx.idx = t)
<1>1. SameMemory
  BY SameAsItWas DEF history
<1>2. ~(IsOpen /\ curTx.idx = t)
  BY DEF PInv, ThreadState, ThreadOwns
<1>3. <<Garbage>> \in LogType
  BY DEF Garbage, LogType
<1>4. log' \in [Threads -> LogType] /\ log'[t] = new
  BY <1>3 DEF WriteLog, PInv, TypeOK
<1>5. \A u \in Threads \ {t} :
        \/ log'[u] = log[u]
        \/ At(u, "helpCurTx") /\ ~Current(u)
  BY <1>2 DEF WriteLog, Current, Served, At
<1>6. TypeOK'
  BY <1>1, <1>4 DEF PInv, TypeOK, SameMemory, history, Memory
<1>7. Tame(t)
  BY <1>1, <1>5 DEF Tame, SameMemory, PInv, ClosedIsPersistent, history
<1>8. QED
  BY <1>1, <1>2, <1>4, <1>6, <1>7

(***************************************************************************)
(* The transaction, up to its commit.                                      *)
(***************************************************************************)

LEMMA TransactionKeeps ==
  ASSUME PInv, NEW t \in Threads, Transaction(t)
  PROVE  Keeps(t)
<1>1. /\ th[t].pc = "idle" /\ th'[t] = [th[t] EXCEPT !.pc = "load"]
      /\ th' \in [Threads -> LocalType] /\ th[t] \in LocalType
      /\ \A u \in Threads \ {t} : th'[u] = th[u]
  <2>1. TypeOK /\ th[t] \in LocalType /\ "load" \in Labels
    BY Types DEF PInv, Labels
  <2>2. Go(t, "idle", "load", th[t])
    BY DEF Transaction, Goto
  <2>3. QED
    BY <2>1, <2>2, Went
<1>2. TypeOK' /\ Tame(t) /\ SameMemory
  BY <1>1, Quiet DEF Transaction
<1>3. th'[t].pc = "load" /\ th'[t].i = 0
  BY <1>1 DEF LocalType, PInv, ThreadState
<1>4. DealsWithKnown(t)
  BY <1>3 DEF DealsWithKnown, Serving, Begun, Reading, HelpLabels,
              ReaderLabels, LogLabels
<1>5. ThreadOwns(t)'
  BY <1>1, <1>2, <1>3 DEF PInv, ThreadState, ThreadOwns, SameMemory,
                          Transaction
<1>6. ThreadState(t)'
  BY <1>3, <1>5 DEF ThreadState, Reading, HelpLabels, ReaderLabels, LogLabels,
                    ThreadCommit, At
<1>7. QED
  BY <1>2, <1>4, <1>6 DEF Keeps

LEMMA BeginLoadCurTxKeeps ==
  ASSUME PInv, NEW t \in Threads, BeginLoadCurTx(t)
  PROVE  Keeps(t)
<1> DEFINE new == [th[t] EXCEPT !.myTx = curTx, !.helpTx = curTx,
                                !.back = "reset"]
<1>1. th[t] \in LocalType /\ curTx \in TransType
  BY Types DEF PInv
<1>2. new \in LocalType
  BY <1>1 DEF LocalType
<1>3. /\ th[t].pc = "load" /\ th'[t] = [new EXCEPT !.pc = "chkRequest"]
      /\ th' \in [Threads -> LocalType]
      /\ \A u \in Threads \ {t} : th'[u] = th[u]
  <2>1. TypeOK /\ "chkRequest" \in Labels
    BY DEF PInv, Labels, HelpLabels
  <2>2. Go(t, "load", "chkRequest", new)
    BY DEF BeginLoadCurTx
  <2> HIDE DEF new
  <2>3. QED
    BY <1>2, <2>1, <2>2, Went
<1>4. TypeOK' /\ Tame(t) /\ SameMemory
  BY <1>3, Quiet DEF BeginLoadCurTx
<1>5. /\ th'[t].pc = "chkRequest" /\ th'[t].i = 0 /\ th'[t].back = "reset"
      /\ th'[t].myTx = curTx /\ th'[t].helpTx = curTx
  BY <1>1, <1>3 DEF LocalType, PInv, ThreadState
<1>6. Served(t)' = curTx
  BY <1>5 DEF Served, At
<1>7. DealsWithKnown(t)
  BY <1>5, <1>6, KnownIs DEF DealsWithKnown, PInv
<1>8. ThreadOwns(t)'
  BY <1>3, <1>4, <1>5, <1>6 DEF PInv, ThreadState, ThreadOwns, SameMemory,
                                BeginLoadCurTx
<1>9. ThreadState(t)'
  BY <1>5, <1>8 DEF ThreadState, Reading, ReaderLabels, LogLabels,
                    ThreadCommit, At
<1>10. QED
  BY <1>4, <1>7, <1>9 DEF Keeps

LEMMA BeginResetKeeps ==
  ASSUME PInv, NEW t \in Threads, BeginReset(t)
  PROVE  Keeps(t)
<1>1. /\ th[t].pc = "reset" /\ th'[t] = [th[t] EXCEPT !.pc = "recheck"]
      /\ th' \in [Threads -> LocalType] /\ th[t] \in LocalType
      /\ \A u \in Threads \ {t} : th'[u] = th[u]
  <2>1. TypeOK /\ th[t] \in LocalType /\ "recheck" \in Labels
    BY Types DEF PInv, Labels, ReaderLabels
  <2>2. Go(t, "reset", "recheck", th[t])
    BY DEF BeginReset, Goto
  <2>3. QED
    BY <2>1, <2>2, Went
<1>2. <<>> \in LogType
  BY DEF LogType
<1>3. TypeOK' /\ Tame(t) /\ SameMemory /\ ~(IsOpen /\ curTx.idx = t)
  BY <1>1, <1>2, Logs DEF BeginReset
<1>4. th'[t].pc = "recheck" /\ th'[t].i = 0 /\ th'[t].myTx = th[t].myTx
  BY <1>1 DEF LocalType, PInv, ThreadState
<1>5. DealsWithKnown(t)
  BY <1>1, <1>4 DEF DealsWithKnown, Serving, Begun, Reading, HelpLabels,
                    ReaderLabels
<1>6. ThreadOwns(t)'
  BY <1>3 DEF ThreadOwns, SameMemory
<1>7. th'[t].myTx = curTx' => Closed'
  BY <1>1, <1>3, <1>4 DEF PInv, ThreadState, Reading, ReaderLabels, SameMemory
<1>8. ThreadState(t)'
  BY <1>4, <1>6, <1>7 DEF ThreadState, HelpLabels, LogLabels, ThreadCommit, At
<1>9. QED
  BY <1>3, <1>5, <1>8 DEF Keeps

\* From anywhere before its compare-and-swap a thread starts again.
LEMMA Restarts ==
  ASSUME PInv, NEW t \in Threads, NEW from, Restart(t, from)
  PROVE  /\ th[t].pc = from
         /\ th' \in [Threads -> LocalType]
         /\ \A u \in Threads \ {t} : th'[u] = th[u]
         /\ th'[t].pc = "load" /\ th'[t].i = th[t].i
         /\ DealsWithKnown(t)
<1> DEFINE new == [th[t] EXCEPT !.myTx = NoTrans, !.addr = NoWord, !.val = V0]
<1>1. th[t] \in LocalType /\ NoTrans \in TransType
  BY Types DEF PInv, NoTrans, Trans, TransType, Threads
<1>2. new \in LocalType
  BY <1>1 DEF LocalType
<1>3. /\ th[t].pc = from /\ th'[t] = [new EXCEPT !.pc = "load"]
      /\ th' \in [Threads -> LocalType]
      /\ \A u \in Threads \ {t} : th'[u] = th[u]
  <2>1. TypeOK /\ "load" \in Labels
    BY DEF PInv, Labels
  <2>2. Go(t, from, "load", new)
    BY DEF Restart
  <2> HIDE DEF new
  <2>3. QED
    BY <1>2, <2>1, <2>2, Went
<1>4. th'[t].pc = "load" /\ th'[t].i = th[t].i
  BY <1>1, <1>3 DEF LocalType
<1>5. DealsWithKnown(t)
  BY <1>4 DEF DealsWithKnown, Serving, Begun, Reading, HelpLabels,
              ReaderLabels, LogLabels
<1>6. QED
  BY <1>3, <1>4, <1>5

LEMMA QuietRestart ==
  ASSUME PInv, NEW t \in Threads,
         NEW from \in {"recheck", "runSeq", "commit"}, Restart(t, from),
         UNCHANGED <<nvm, pwb, log, history>>
  PROVE  Keeps(t)
<1>1. /\ th[t].pc = from /\ th' \in [Threads -> LocalType]
      /\ \A u \in Threads \ {t} : th'[u] = th[u]
      /\ th'[t].pc = "load" /\ th'[t].i = th[t].i
      /\ DealsWithKnown(t)
  BY Restarts
<1>2. TypeOK' /\ Tame(t) /\ SameMemory
  BY <1>1, Quiet
<1>3. ThreadState(t)
  BY DEF PInv
<1>4. ~(IsOpen /\ curTx.idx = t) /\ th'[t].i = 0
  BY <1>1, <1>3 DEF ThreadState, ThreadOwns
<1>5. ThreadState(t)'
  BY <1>1, <1>2, <1>4 DEF ThreadState, Reading, HelpLabels, ReaderLabels,
                          LogLabels, ThreadCommit, ThreadOwns, SameMemory, At
<1>6. QED
  BY <1>1, <1>2, <1>5 DEF Keeps

\* On the way from one label to the next nothing else changes.
LEMMA QuietReading ==
  ASSUME PInv, NEW t \in Threads, NEW new \in LocalType,
         new.myTx = th[t].myTx, new.i = th[t].i,
         NEW from \in ReaderLabels, NEW to \in ReaderLabels,
         Go(t, from, to, new), UNCHANGED <<nvm, pwb, log, history>>,
         to \in LogLabels => from \in LogLabels, to \notin {"persist", "cas"}
  PROVE  Keeps(t)
<1>1. /\ th[t].pc = from /\ th'[t] = [new EXCEPT !.pc = to]
      /\ th' \in [Threads -> LocalType] /\ th[t] \in LocalType
      /\ \A u \in Threads \ {t} : th'[u] = th[u]
  <2>1. TypeOK /\ th[t] \in LocalType /\ to \in Labels
    BY Types DEF PInv, Labels
  <2>2. QED
    BY <2>1, Went
<1>2. TypeOK' /\ Tame(t) /\ SameMemory
  BY <1>1, Quiet
<1>3. ThreadState(t)
  BY DEF PInv
<1>4. /\ th[t].pc \in ReaderLabels /\ th'[t].pc \in ReaderLabels
      /\ th'[t].pc = to /\ th'[t].myTx = th[t].myTx
      /\ th'[t].i = 0
  BY <1>1, <1>3 DEF LocalType, ThreadState, ReaderLabels, LogLabels
<1>5. DealsWithKnown(t)
  BY <1>1, <1>4 DEF DealsWithKnown, Serving, Begun, Reading, HelpLabels,
                    ReaderLabels, LogLabels
<1>6. ~(IsOpen /\ curTx.idx = t)
  BY <1>3, <1>4 DEF ThreadState, ThreadOwns, ReaderLabels, LogLabels
<1>7. th'[t].myTx = curTx' => Closed'
  BY <1>2, <1>3, <1>4 DEF ThreadState, Reading, SameMemory
<1>8. ThreadCommit(t)'
  BY <1>1, <1>3, <1>4 DEF ThreadState, ThreadCommit, LogLabels, At
<1>9. ThreadState(t)'
  BY <1>2, <1>4, <1>6, <1>7, <1>8
     DEF ThreadState, HelpLabels, ReaderLabels, LogLabels, ThreadOwns,
         SameMemory
<1>10. QED
  BY <1>2, <1>5, <1>9 DEF Keeps

LEMMA BeginRecheckKeeps ==
  ASSUME PInv, NEW t \in Threads, BeginRecheck(t)
  PROVE  Keeps(t)
<1>1. CASE th[t].myTx = curTx
  <2>1. th[t] \in LocalType
    BY Types DEF PInv
  <2>2. QED
    BY <1>1, <2>1, QuietReading
       DEF BeginRecheck, Goto, ReaderLabels, LogLabels
<1>2. CASE th[t].myTx # curTx
  BY <1>2, QuietRestart DEF BeginRecheck
<1>3. QED
  BY <1>1, <1>2

LEMMA LoadValKeeps ==
  ASSUME PInv, NEW t \in Threads, NEW w \in Words, LoadVal(t, w)
  PROVE  Keeps(t)
<1> DEFINE new == [th[t] EXCEPT !.addr = w, !.val = Now(nvm, w).val]
<1>1. th[t] \in LocalType /\ Now(nvm, w).val \in Int
  BY Types DEF PInv
<1>2. new \in LocalType /\ new.myTx = th[t].myTx /\ new.i = th[t].i
  BY <1>1 DEF LocalType
<1>3. Go(t, "runVal", "runSeq", new)
  BY DEF LoadVal
<1> HIDE DEF new
<1>4. QED
  BY <1>2, <1>3, QuietReading DEF LoadVal, ReaderLabels, LogLabels

LEMMA LoadAbortKeeps ==
  ASSUME PInv, NEW t \in Threads, LoadAbort(t)
  PROVE  Keeps(t)
BY QuietRestart DEF LoadAbort

LEMMA LoadSeqKeeps ==
  ASSUME PInv, NEW t \in Threads, LoadSeq(t)
  PROVE  Keeps(t)
<1> DEFINE new == [th[t] EXCEPT !.addr = NoWord, !.val = V0]
           v == th[t].val + 1
<1>1. th[t] \in LocalType /\ v \in Int
  BY Types DEF PInv, LocalType
<1>2. new \in LocalType
  BY <1>1 DEF LocalType
<1>3. /\ th[t].pc = "runSeq" /\ th'[t] = [new EXCEPT !.pc = "commit"]
      /\ th' \in [Threads -> LocalType]
      /\ \A u \in Threads \ {t} : th'[u] = th[u]
  <2>1. TypeOK /\ "commit" \in Labels
    BY DEF PInv, Labels, ReaderLabels, LogLabels
  <2>2. Go(t, "runSeq", "commit", new)
    BY DEF LoadSeq
  <2> HIDE DEF new
  <2>3. QED
    BY <1>2, <2>1, <2>2, Went
<1>4. FullLog(v) \in LogType /\ Complete(FullLog(v))
  BY <1>1, FullLogs
<1>5. /\ TypeOK' /\ Tame(t) /\ SameMemory
      /\ log'[t] = FullLog(v) /\ ~(IsOpen /\ curTx.idx = t)
  BY <1>3, <1>4, Logs DEF LoadSeq
<1>6. th'[t].pc = "commit" /\ th'[t].i = 0 /\ th'[t].myTx = th[t].myTx
  BY <1>1, <1>3 DEF LocalType, PInv, ThreadState
<1>7. DealsWithKnown(t)
  BY <1>3, <1>6 DEF DealsWithKnown, Serving, Begun, Reading, HelpLabels,
                    ReaderLabels
<1>8. ThreadOwns(t)'
  BY <1>5 DEF ThreadOwns, SameMemory
<1>9. th'[t].myTx = curTx' => Closed'
  BY <1>3, <1>5, <1>6 DEF PInv, ThreadState, Reading, ReaderLabels, SameMemory
<1>10. ThreadCommit(t)'
  <2>1. Complete(log'[t])
    BY <1>4, <1>5
  <2>2. QED
    BY <1>6, <2>1 DEF ThreadCommit, At
<1>11. ThreadState(t)'
  BY <1>6, <1>8, <1>9, <1>10 DEF ThreadState, HelpLabels
<1>12. QED
  BY <1>5, <1>7, <1>11 DEF Keeps

LEMMA CommitCheckKeeps ==
  ASSUME PInv, NEW t \in Threads, CommitCheck(t)
  PROVE  Keeps(t)
<1>1. CASE th[t].myTx = curTx
  <2>1. th[t] \in LocalType
    BY Types DEF PInv
  <2>2. QED
    BY <1>1, <2>1, QuietReading
       DEF CommitCheck, Goto, ReaderLabels, LogLabels
<1>2. CASE th[t].myTx # curTx
  BY <1>2, QuietRestart DEF CommitCheck
<1>3. QED
  BY <1>1, <1>2

(***************************************************************************)
(* The commit, but for its compare-and-swap.                               *)
(***************************************************************************)

\* A store of t into its own request and log, before it publishes.
LEMMA Owns ==
  ASSUME PInv, NEW t \in Threads, th' \in [Threads -> LocalType],
         \A u \in Threads \ {t} : th'[u] = th[u],
         th[t].pc \in {"open", "persist"},
         NEW x \in [request : TransType, plog : LogType],
         x.request = request(t) \/ x.request \notin Known,
         StoreOwn(t, x), UNCHANGED <<log, history>>,
         DOMAIN pwb' = Threads,
         \A u \in Threads \ {t} : pwb'[u] = pwb[u]
  PROVE  /\ Memory(nvm') /\ Tame(t)
         /\ curTx' = curTx /\ (IsOpen' <=> IsOpen)
         /\ Now(nvm', t) = x /\ ~(IsOpen /\ curTx.idx = t)
<1>1. /\ TypeOK /\ Memory(nvm) /\ t \in Lines /\ x \in Contents(t)
      /\ curTx \in Known
  BY LinesDiffer, ContentsOf, KnownIs DEF PInv, TypeOK
<1>2. /\ Memory(nvm') /\ Now(nvm', t) = x
      /\ \A k \in Lines \ {t} :
           nvm'[k] = nvm[k] /\ Now(nvm', k) = Now(nvm, k)
  BY <1>1, StoredMemory DEF StoreOwn
<1>3. curTx' = curTx /\ curTx.idx \in Threads
  BY <1>1, <1>2, Types, LinesDiffer DEF curTx
<1>4. ~(IsOpen /\ curTx.idx = t)
  BY DEF PInv, ThreadState, ThreadOwns
<1>5. \A u \in Threads \ {t} :
        Now(nvm', u) = Now(nvm, u) /\ request(u)' = request(u)
  BY <1>2, LinesDiffer DEF request
<1>6. request(t)' = x.request
  BY <1>2 DEF request
<1>7. \A w \in Words : nvm'[w] = nvm[w] /\ Now(nvm', w) = Now(nvm, w)
  BY <1>2, LinesDiffer
<1>8. IsOpen' <=> IsOpen
  <2>1. IsOpen' <=> Now(nvm', curTx.idx).request = curTx
    BY <1>3 DEF IsOpen, Closed, request
  <2>2. IsOpen <=> Now(nvm, curTx.idx).request = curTx
    BY DEF IsOpen, Closed, request
  <2>3. CASE curTx.idx = t
    BY <1>1, <1>2, <1>4, <2>1, <2>2, <2>3 DEF request
  <2>4. CASE curTx.idx # t
    BY <1>3, <1>5, <2>1, <2>2, <2>4
  <2>5. QED
    BY <2>3, <2>4
<1>9. IsOpen' => nvm'[curTx.idx] = nvm[curTx.idx]
  BY <1>2, <1>3, <1>4, <1>8, LinesDiffer
<1>10. Tame(t)
  BY <1>3, <1>5, <1>6, <1>7, <1>8, <1>9 DEF Tame, history
<1>11. QED
  BY <1>2, <1>3, <1>4, <1>8, <1>10

LEMMA CommitOpenKeeps ==
  ASSUME PInv, NEW t \in Threads, CommitOpen(t)
  PROVE  Keeps(t)
<1>1. /\ th[t].pc = "open" /\ th'[t] = [th[t] EXCEPT !.pc = "persist"]
      /\ th' \in [Threads -> LocalType] /\ th[t] \in LocalType
      /\ \A u \in Threads \ {t} : th'[u] = th[u]
  <2>1. TypeOK /\ th[t] \in LocalType /\ "persist" \in Labels
    BY Types DEF PInv, Labels, ReaderLabels, LogLabels
  <2>2. Go(t, "open", "persist", th[t])
    BY DEF CommitOpen, Goto
  <2>3. QED
    BY <2>1, <2>2, Went
<1>2. ThreadState(t) /\ TypeOK
  BY DEF PInv
<1>3. /\ th'[t].pc = "persist" /\ th'[t].i = 0 /\ th'[t].myTx = th[t].myTx
      /\ th[t].myTx.seq \in Nat
  BY <1>1, <1>2 DEF LocalType, ThreadState, TransType
<1>4. NewTx(t) \in TransType /\ NewTx(t) \notin Known
  <2>1. NewTx(t) \in TransType
    BY <1>3 DEF NewTx, Trans, TransType
  <2>2. Begun(t)
    BY <1>1 DEF Begun, Reading, ReaderLabels, LogLabels
  <2>3. \A c \in Known : c.idx = t => c.seq <= th[t].myTx.seq
    BY <2>2 DEF PInv, OwnSeq
  <2>4. NewTx(t).idx = t /\ NewTx(t).seq = th[t].myTx.seq + 1
    BY DEF NewTx, Trans
  <2>5. QED
    BY <1>3, <2>1, <2>3, <2>4
<1>5. PICK x : x = [Now(nvm, t) EXCEPT !.request = NewTx(t)]
  OBVIOUS
<1>6. /\ x \in [request : TransType, plog : LogType]
      /\ x.request = NewTx(t)
  BY <1>2, <1>4, <1>5, Types
<1>7. StoreOwn(t, x) /\ UNCHANGED <<log, history>> /\ pwb' = pwb
  BY <1>5 DEF CommitOpen
<1>8. DOMAIN pwb' = Threads
  BY <1>2, <1>7 DEF TypeOK
<1>9. /\ Memory(nvm') /\ Tame(t)
      /\ curTx' = curTx /\ (IsOpen' <=> IsOpen)
      /\ Now(nvm', t) = x /\ ~(IsOpen /\ curTx.idx = t)
  BY <1>1, <1>4, <1>6, <1>7, <1>8, Owns
<1>10. TypeOK'
  BY <1>1, <1>2, <1>7, <1>9 DEF TypeOK, history
<1>11. DealsWithKnown(t)
  BY <1>1, <1>3 DEF DealsWithKnown, Serving, Begun, Reading, HelpLabels,
                    ReaderLabels, LogLabels
<1>12. th'[t].myTx = curTx' => Closed'
  BY <1>1, <1>2, <1>3, <1>9 DEF ThreadState, Reading, ReaderLabels, LogLabels,
                                IsOpen
<1>13. ThreadCommit(t)'
  <2>1. request(t)' = NewTx(t)
    BY <1>6, <1>9 DEF request
  <2>2. NewTx(t)' = NewTx(t)
    BY <1>3 DEF NewTx
  <2>3. Complete(log'[t])
    BY <1>1, <1>2, <1>7 DEF ThreadState, ThreadCommit, LogLabels
  <2>4. QED
    BY <1>3, <2>1, <2>2, <2>3 DEF ThreadCommit, At
<1>14. ThreadOwns(t)'
  BY <1>9 DEF ThreadOwns
<1>15. ThreadState(t)'
  BY <1>3, <1>12, <1>13, <1>14 DEF ThreadState, HelpLabels
<1>16. QED
  BY <1>9, <1>10, <1>11, <1>15 DEF Keeps

LEMMA PersistAndFlushLogKeeps ==
  ASSUME PInv, NEW t \in Threads, PersistAndFlushLog(t)
  PROVE  Keeps(t)
<1>1. /\ th[t].pc = "persist" /\ th'[t] = [th[t] EXCEPT !.pc = "cas"]
      /\ th' \in [Threads -> LocalType] /\ th[t] \in LocalType
      /\ \A u \in Threads \ {t} : th'[u] = th[u]
  <2>1. TypeOK /\ th[t] \in LocalType /\ "cas" \in Labels
    BY Types DEF PInv, Labels, ReaderLabels, LogLabels
  <2>2. Go(t, "persist", "cas", th[t])
    BY DEF PersistAndFlushLog, Goto
  <2>3. QED
    BY <2>1, <2>2, Went
<1>2. ThreadState(t) /\ TypeOK /\ Memory(nvm)
  BY DEF PInv, TypeOK
<1>3. th'[t].pc = "cas" /\ th'[t].i = 0 /\ th'[t].myTx = th[t].myTx
  BY <1>1, <1>2 DEF LocalType, ThreadState
<1>4. PICK x : x = [Now(nvm, t) EXCEPT !.plog = log[t]]
  OBVIOUS
<1>5. /\ x \in [request : TransType, plog : LogType]
      /\ x.request = request(t) /\ x.plog = log[t]
  BY <1>2, <1>4, Types DEF request
<1>6. StoreOwn(t, x) /\ UNCHANGED <<log, history>> /\ WriteBack(t, {t})
  BY <1>4 DEF PersistAndFlushLog
<1>7. Memory(nvm')
  <2>1. t \in Lines /\ x \in Contents(t) /\ nvm' = Stored(nvm, t, x)
    BY <1>5, <1>6, LinesDiffer, ContentsOf DEF StoreOwn
  <2>2. QED
    BY <1>2, <2>1, StoredMemory
<1>8. /\ DOMAIN pwb' = Threads
      /\ \A u \in Threads \ {t} : pwb'[u] = pwb[u]
      /\ t \in DOMAIN pwb'[t] /\ pwb'[t][t] = Now(nvm', t)
      /\ \A l \in DOMAIN pwb'[t] : l \in Lines /\ pwb'[t][l] \in Contents(l)
  <2>1. {t} \in SUBSET Lines
    BY LinesDiffer
  <2>2. QED
    BY <1>2, <1>6, <1>7, <2>1, WriteBackNotes
<1>9. /\ Tame(t)
      /\ curTx' = curTx /\ (IsOpen' <=> IsOpen)
      /\ Now(nvm', t) = x /\ ~(IsOpen /\ curTx.idx = t)
  BY <1>1, <1>5, <1>6, <1>8, Owns
<1>10. TypeOK'
  <2>1. \A u \in Threads : \A l \in DOMAIN pwb'[u] :
          l \in Lines /\ pwb'[u][l] \in Contents(l)
    BY <1>2, <1>8 DEF TypeOK
  <2>2. QED
    BY <1>1, <1>2, <1>6, <1>7, <1>8, <1>9, <2>1 DEF TypeOK, history
<1>11. DealsWithKnown(t)
  BY <1>1, <1>3 DEF DealsWithKnown, Serving, Begun, Reading, HelpLabels,
                    ReaderLabels, LogLabels
<1>12. th'[t].myTx = curTx' => Closed'
  BY <1>1, <1>2, <1>3, <1>9 DEF ThreadState, Reading, ReaderLabels, LogLabels,
                                IsOpen
<1>13. ThreadCommit(t)'
  <2>1. request(t)' = NewTx(t)
    BY <1>1, <1>2, <1>5, <1>9 DEF request, ThreadState, ThreadCommit
  <2>2. NewTx(t)' = NewTx(t)
    BY <1>3 DEF NewTx
  <2>3. Complete(log'[t])
    BY <1>1, <1>2, <1>6 DEF ThreadState, ThreadCommit, LogLabels
  <2>4. Now(nvm', t).plog = log'[t]
    BY <1>5, <1>6, <1>9
  <2>5. QED
    BY <1>3, <1>8, <2>1, <2>2, <2>3, <2>4 DEF ThreadCommit
<1>14. ThreadOwns(t)'
  BY <1>9 DEF ThreadOwns
<1>15. ThreadState(t)'
  BY <1>3, <1>12, <1>13, <1>14 DEF ThreadState, HelpLabels
<1>16. QED
  BY <1>9, <1>10, <1>11, <1>15 DEF Keeps

LEMMA CommitCasFailsKeeps ==
  ASSUME PInv, NEW t \in Threads, CommitCasFails(t)
  PROVE  Keeps(t)
<1>1. /\ th[t].pc = "cas" /\ th' \in [Threads -> LocalType]
      /\ \A u \in Threads \ {t} : th'[u] = th[u]
      /\ th'[t].pc = "load" /\ th'[t].i = th[t].i
      /\ DealsWithKnown(t)
  BY Restarts DEF CommitCasFails
<1>2. ThreadState(t) /\ TypeOK /\ curTx \in TransType /\ curTx.idx \in Threads
  BY Types DEF PInv
<1>3. ~(IsOpen /\ curTx.idx = t) /\ th'[t].i = 0
  BY <1>1, <1>2 DEF ThreadState, ThreadOwns
<1>4. /\ Memory(nvm')
      /\ Now(nvm', CurTxLine) = curTx
      /\ \A k \in Lines \ {CurTxLine} :
           /\ Now(nvm', k) = Now(nvm, k)
           /\ ToSet(nvm'[k]) \subseteq ToSet(nvm[k])
      /\ DOMAIN pwb' = Threads
      /\ \A u \in Threads \ {t} : pwb'[u] = pwb[u]
      /\ DOMAIN pwb'[t] = {}
  <2>1. CurTxLine \in Lines /\ curTx \in Contents(CurTxLine)
    BY <1>2, LinesDiffer, ContentsOf
  <2>2. Locked(t, CurTxLine, curTx)
    BY DEF CommitCasFails
  <2>3. QED
    BY <1>2, <2>1, <2>2, LockedMemory
<1>5. UNCHANGED <<log, history>>
  BY DEF CommitCasFails
<1>6. /\ curTx' = curTx
      /\ \A u \in Threads : /\ Now(nvm', u) = Now(nvm, u)
                            /\ request(u)' = request(u)
                            /\ ToSet(nvm'[u]) \subseteq ToSet(nvm[u])
      /\ \A w \in Words : /\ Now(nvm', w) = Now(nvm, w)
                          /\ ToSet(nvm'[w]) \subseteq ToSet(nvm[w])
  BY <1>4, LinesDiffer DEF curTx, request
<1>7. IsOpen' <=> IsOpen
  BY <1>2, <1>6 DEF IsOpen, Closed, request
<1>8. Tame(t)
  BY <1>1, <1>2, <1>4, <1>5, <1>6, <1>7 DEF Tame, history
<1>9. TypeOK'
  <2>1. \A u \in Threads : \A l \in DOMAIN pwb'[u] :
          l \in Lines /\ pwb'[u][l] \in Contents(l)
    BY <1>2, <1>4 DEF TypeOK
  <2>2. QED
    BY <1>1, <1>2, <1>4, <1>5, <1>6, <2>1 DEF TypeOK, history
<1>10. ThreadState(t)'
  BY <1>1, <1>3, <1>6, <1>7 DEF ThreadState, Reading, HelpLabels,
            ReaderLabels, LogLabels, ThreadCommit, ThreadOwns, At
<1>11. QED
  BY <1>1, <1>8, <1>9, <1>10 DEF Keeps

\* A step that only notes lines to be written back.
LEMMA Notes ==
  ASSUME PInv, NEW t \in Threads, th' \in [Threads -> LocalType],
         \A u \in Threads \ {t} : th'[u] = th[u],
         UNCHANGED <<nvm, log, history>>,
         NEW L \in SUBSET Lines, WriteBack(t, L)
  PROVE  /\ TypeOK' /\ Tame(t) /\ SameMemory
         /\ \A l \in L : l \in DOMAIN pwb'[t] /\ pwb'[t][l] = Now(nvm', l)
<1>1. SameMemory
  BY SameAsItWas DEF history
<1>2. TypeOK /\ Memory(nvm')
  BY DEF PInv, TypeOK
<1>3. /\ DOMAIN pwb' = Threads
      /\ \A u \in Threads \ {t} : pwb'[u] = pwb[u]
      /\ \A l \in L : l \in DOMAIN pwb'[t] /\ pwb'[t][l] = Now(nvm', l)
      /\ \A l \in DOMAIN pwb'[t] : l \in Lines /\ pwb'[t][l] \in Contents(l)
  BY <1>2, WriteBackNotes
<1>4. TypeOK'
  <2>1. \A u \in Threads : \A l \in DOMAIN pwb'[u] :
          l \in Lines /\ pwb'[u][l] \in Contents(l)
    BY <1>2, <1>3 DEF TypeOK
  <2>2. QED
    BY <1>1, <1>2, <1>3, <2>1 DEF TypeOK, SameMemory, history
<1>5. Tame(t)
  BY <1>1, <1>3 DEF Tame, SameMemory, history
<1>6. QED
  BY <1>1, <1>3, <1>4, <1>5

LEMMA CommitFlushKeeps ==
  ASSUME PInv, NEW t \in Threads, CommitFlush(t)
  PROVE  Keeps(t)
<1> DEFINE new == [th[t] EXCEPT !.myTx = NoTrans, !.helpTx = NewTx(t),
                                !.back = "return"]
<1>1. /\ th[t] \in LocalType /\ NoTrans \in TransType /\ ThreadState(t)
      /\ TypeOK
  BY Types DEF PInv, NoTrans, Trans, TransType, Threads
<1>2. NewTx(t) \in TransType
  BY <1>1 DEF NewTx, Trans, TransType, LocalType
<1>3. new \in LocalType
  BY <1>1, <1>2 DEF LocalType
<1>4. /\ th[t].pc = "pwbCurTx" /\ th'[t] = [new EXCEPT !.pc = "chkRequest"]
      /\ th' \in [Threads -> LocalType]
      /\ \A u \in Threads \ {t} : th'[u] = th[u]
  <2>1. TypeOK /\ "chkRequest" \in Labels
    BY DEF PInv, Labels, HelpLabels
  <2>2. Go(t, "pwbCurTx", "chkRequest", new)
    BY DEF CommitFlush
  <2> HIDE DEF new
  <2>3. QED
    BY <1>3, <2>1, <2>2, Went
<1>5. TypeOK' /\ Tame(t) /\ SameMemory
  <2>1. {CurTxLine} \in SUBSET Lines
    BY LinesDiffer
  <2>2. UNCHANGED <<nvm, log, history>> /\ WriteBack(t, {CurTxLine})
    BY DEF CommitFlush
  <2>3. QED
    BY <1>4, <2>1, <2>2, Notes
<1>6. /\ th'[t].pc = "chkRequest" /\ th'[t].i = 0 /\ th'[t].back = "return"
      /\ th'[t].helpTx = NewTx(t)
  BY <1>1, <1>4 DEF LocalType, ThreadState
<1>7. Served(t)' = Served(t) /\ Serving(t)
  BY <1>4, <1>6 DEF Served, Serving, At
<1>8. DealsWithKnown(t)
  BY <1>1, <1>6, <1>7, KnownIs
     DEF DealsWithKnown, Begun, Reading, ReaderLabels, LogLabels
<1>9. ThreadOwns(t)'
  BY <1>1, <1>4, <1>5, <1>6, <1>7 DEF ThreadState, ThreadOwns, SameMemory,
                                      CommitFlush
<1>10. ThreadState(t)'
  BY <1>6, <1>9 DEF ThreadState, Reading, ReaderLabels, LogLabels,
                    ThreadCommit, At
<1>11. QED
  BY <1>5, <1>8, <1>10 DEF Keeps

LEMMA ReturnKeeps ==
  ASSUME PInv, NEW t \in Threads, Return(t)
  PROVE  Keeps(t)
<1> DEFINE new == [th[t] EXCEPT !.k = th[t].k + 1]
<1>1. th[t] \in LocalType /\ ThreadState(t)
  BY Types DEF PInv
<1>2. new \in LocalType
  BY <1>1 DEF LocalType
<1>3. /\ th[t].pc = "return" /\ th'[t] = [new EXCEPT !.pc = "idle"]
      /\ th' \in [Threads -> LocalType]
      /\ \A u \in Threads \ {t} : th'[u] = th[u]
  <2>1. TypeOK /\ "idle" \in Labels
    BY DEF PInv, Labels
  <2>2. Go(t, "return", "idle", new)
    BY DEF Return
  <2> HIDE DEF new
  <2>3. QED
    BY <1>2, <2>1, <2>2, Went
<1>4. TypeOK' /\ Tame(t) /\ SameMemory
  BY <1>3, Quiet DEF Return
<1>5. th'[t].pc = "idle" /\ th'[t].i = 0
  BY <1>1, <1>3 DEF LocalType, ThreadState
<1>6. DealsWithKnown(t)
  BY <1>5 DEF DealsWithKnown, Serving, Begun, Reading, HelpLabels,
              ReaderLabels, LogLabels
<1>7. ~(IsOpen /\ curTx.idx = t)
  BY <1>1, <1>3 DEF ThreadState, ThreadOwns
<1>8. ThreadState(t)'
  BY <1>4, <1>5, <1>7 DEF ThreadState, Reading, HelpLabels, ReaderLabels,
                          LogLabels, ThreadCommit, ThreadOwns, SameMemory, At
<1>9. QED
  BY <1>4, <1>6, <1>8 DEF Keeps

LEMMA DieKeeps ==
  ASSUME PInv, NEW t \in Threads, Die(t)
  PROVE  Keeps(t)
<1> DEFINE new == [Local EXCEPT !.k = th[t].k + 1]
<1>1. th[t] \in LocalType /\ ThreadState(t) /\ TypeOK
  BY Types DEF PInv
<1>2. new \in LocalType /\ new.pc = "idle" /\ new.i = 0
  <2>1. NoTrans \in TransType /\ V0 \in Int
    BY DEF NoTrans, Trans, TransType, Threads
  <2>2. QED
    BY <1>1, <2>1 DEF LocalType, Local, Labels
<1>3. /\ th' = [th EXCEPT ![t] = new] /\ pwb' = [pwb EXCEPT ![t] = <<>>]
      /\ UNCHANGED <<nvm, log, history>>
  BY DEF Die
<1> HIDE DEF new
<1>4. /\ th'[t] = new /\ th' \in [Threads -> LocalType]
      /\ \A u \in Threads \ {t} : th'[u] = th[u]
  BY <1>1, <1>2, <1>3 DEF TypeOK
<1>5. SameMemory
  BY <1>3, SameAsItWas DEF history
<1>6. /\ DOMAIN pwb' = Threads
      /\ \A u \in Threads \ {t} : pwb'[u] = pwb[u]
      /\ DOMAIN pwb'[t] = {}
  BY <1>1, <1>3 DEF TypeOK
<1>7. TypeOK'
  <2>1. \A u \in Threads : \A l \in DOMAIN pwb'[u] :
          l \in Lines /\ pwb'[u][l] \in Contents(l)
    BY <1>1, <1>6 DEF TypeOK
  <2>2. QED
    BY <1>1, <1>3, <1>4, <1>5, <1>6, <2>1 DEF TypeOK, SameMemory, history,
                                              Memory
<1>8. Tame(t)
  BY <1>3, <1>4, <1>5, <1>6 DEF Tame, SameMemory, history
<1>9. th'[t].pc = "idle" /\ th'[t].i = 0
  BY <1>2, <1>4
<1>10. DealsWithKnown(t)
  BY <1>9 DEF DealsWithKnown, Serving, Begun, Reading, HelpLabels,
              ReaderLabels, LogLabels
<1>11. ThreadOwns(t)'
  BY <1>1, <1>3, <1>5, <1>9 DEF ThreadState, ThreadOwns, SameMemory
<1>12. ThreadState(t)'
  BY <1>9, <1>11 DEF ThreadState, Reading, HelpLabels, ReaderLabels,
                     LogLabels, ThreadCommit, At
<1>13. QED
  BY <1>7, <1>8, <1>10, <1>12 DEF Keeps

(***************************************************************************)
(* helpApply.                                                              *)
(***************************************************************************)

\* An open request is that of the last transaction.
LEMMA OpenIsLast ==
  ASSUME PInv, NEW t \in Threads, th[t].pc \in HelpLabels,
         request(Helped(t)) = th[t].helpTx
  PROVE  th[t].helpTx = curTx /\ IsOpen /\ Helped(t) = curTx.idx
<1>1. Served(t) = th[t].helpTx /\ Served(t) \in Known
  BY KnownIs DEF PInv, Serving, Served, HelpLabels, At
<1>2. th[t].helpTx = curTx
  BY <1>1 DEF PInv, PastClosed, Helped
<1>3. QED
  BY <1>2 DEF IsOpen, Closed, Helped

\* A thread that is helping deals with the same transactions as long as it
\* keeps its fields, wherever it gets to.
LEMMA StillHelping ==
  ASSUME PInv, NEW t \in Threads, th[t].pc \in HelpLabels,
         th'[t].pc \in HelpLabels,
         th'[t].helpTx = th[t].helpTx, th'[t].myTx = th[t].myTx,
         th'[t].back = th[t].back
  PROVE  DealsWithKnown(t) /\ Served(t)' = Served(t)
<1>1. /\ Served(t)' = Served(t) /\ Serving(t)
      /\ Begun(t)' => Begun(t)
  BY DEF Served, Serving, Begun, Reading, HelpLabels, ReaderLabels, LogLabels,
         At
<1>2. QED
  BY <1>1, KnownIs DEF DealsWithKnown, PInv

\* The end of helpApply, with the transaction closed.
LEMMA Backs ==
  ASSUME PInv, NEW t \in Threads, NEW from \in HelpLabels, Back(t, from)
  PROVE  /\ th[t].pc = from /\ th[t] \in LocalType
         /\ th' \in [Threads -> LocalType]
         /\ \A u \in Threads \ {t} : th'[u] = th[u]
         /\ th'[t].pc = th[t].back /\ th'[t].pc \in {"reset", "return"}
         /\ th'[t].i = 0 /\ th'[t].myTx = th[t].myTx
         /\ th'[t].pc = "reset" => th'[t].myTx = th[t].helpTx
         /\ DealsWithKnown(t)
<1> DEFINE new == [th[t] EXCEPT !.helpTx = NoTrans, !.back = "idle", !.i = 0]
<1>1. th[t] \in LocalType /\ NoTrans \in TransType /\ ThreadState(t)
  BY Types DEF PInv, NoTrans, Trans, TransType, Threads
<1>2. new \in LocalType
  BY <1>1 DEF LocalType
<1>3. th[t].pc = from /\ th[t].back \in {"reset", "return"}
  BY <1>1 DEF Back, Go, At, ThreadState, LocalType
<1>4. /\ th'[t] = [new EXCEPT !.pc = th[t].back]
      /\ th' \in [Threads -> LocalType]
      /\ \A u \in Threads \ {t} : th'[u] = th[u]
  <2>1. TypeOK /\ th[t].back \in Labels
    BY <1>3 DEF PInv, Labels, ReaderLabels
  <2>2. Go(t, from, th[t].back, new)
    BY DEF Back
  <2> HIDE DEF new
  <2>3. QED
    BY <1>2, <2>1, <2>2, Went
<1>5. /\ th'[t].pc = th[t].back /\ th'[t].i = 0
      /\ th'[t].myTx = th[t].myTx
  BY <1>1, <1>4 DEF LocalType
<1>6. th'[t].pc = "reset" => th'[t].myTx = th[t].helpTx
  BY <1>1, <1>3, <1>5 DEF ThreadState
<1>7. DealsWithKnown(t)
  BY <1>3, <1>5 DEF DealsWithKnown, Serving, Begun, Reading, HelpLabels,
                    ReaderLabels, LogLabels
<1>8. QED
  BY <1>1, <1>3, <1>4, <1>5, <1>6, <1>7

LEMMA QuietBack ==
  ASSUME PInv, NEW t \in Threads,
         NEW from \in {"chkRequest", "helpCurTx", "helpRequest", "close"},
         Back(t, from), th[t].helpTx = curTx => Closed,
         UNCHANGED <<nvm, pwb, log, history>>
  PROVE  Keeps(t)
<1>1. /\ th[t].pc = from
      /\ th' \in [Threads -> LocalType]
      /\ \A u \in Threads \ {t} : th'[u] = th[u]
      /\ th'[t].pc \in {"reset", "return"} /\ th'[t].i = 0
      /\ th'[t].pc = "reset" => th'[t].myTx = th[t].helpTx
      /\ DealsWithKnown(t)
  BY Backs DEF HelpLabels
<1>2. TypeOK' /\ Tame(t) /\ SameMemory
  BY <1>1, Quiet
<1>3. ~(IsOpen /\ curTx.idx = t)
  <2>1. SUFFICES ASSUME IsOpen, curTx.idx = t
                 PROVE  FALSE
    OBVIOUS
  <2>2. Served(t) = curTx
    BY <1>1, <2>1 DEF PInv, ThreadState, ThreadOwns
  <2>3. th[t].helpTx = curTx
    BY <1>1, <2>2 DEF Served, At
  <2>4. QED
    BY <2>1, <2>3 DEF IsOpen
<1>4. Reading(t)' /\ th'[t].myTx = curTx' => Closed'
  BY <1>1, <1>2 DEF Reading, ReaderLabels, LogLabels, SameMemory
<1>5. ThreadState(t)'
  BY <1>1, <1>2, <1>3, <1>4
     DEF ThreadState, HelpLabels, LogLabels, ThreadCommit, ThreadOwns,
         SameMemory, At
<1>6. QED
  BY <1>1, <1>2, <1>5 DEF Keeps

\* A thread on its way through helpApply.
LEMMA QuietHelping ==
  ASSUME PInv, NEW t \in Threads, NEW new \in LocalType,
         NEW from \in HelpLabels, NEW to \in HelpLabels,
         Go(t, from, to, new), UNCHANGED <<nvm, pwb, log, history>>,
         new.helpTx = th[t].helpTx, new.myTx = th[t].myTx,
         new.back = th[t].back
  PROVE  /\ th[t].pc = from /\ th'[t] = [new EXCEPT !.pc = to]
         /\ th'[t].pc = to /\ th'[t].i = new.i
         /\ th'[t].val = new.val /\ th'[t].seq = new.seq
         /\ th'[t].helpTx = th[t].helpTx /\ th'[t].myTx = th[t].myTx
         /\ th'[t].back = th[t].back
         /\ TypeOK' /\ Tame(t) /\ SameMemory /\ DealsWithKnown(t)
         /\ Served(t)' = Served(t) /\ (Current(t)' <=> Current(t))
<1>1. TypeOK /\ th[t] \in LocalType /\ to \in Labels
  BY Types DEF PInv, Labels
<1>2. /\ th[t].pc = from /\ th'[t] = [new EXCEPT !.pc = to]
      /\ th' \in [Threads -> LocalType]
      /\ \A u \in Threads \ {t} : th'[u] = th[u]
  BY <1>1, Went
<1>3. /\ th'[t].pc = to /\ th'[t].helpTx = new.helpTx
      /\ th'[t].myTx = new.myTx /\ th'[t].back = new.back
      /\ th'[t].i = new.i /\ th'[t].val = new.val /\ th'[t].seq = new.seq
  BY <1>2 DEF LocalType
<1>4. TypeOK' /\ Tame(t) /\ SameMemory
  BY <1>2, Quiet
<1>5. DealsWithKnown(t) /\ Served(t)' = Served(t)
  BY <1>2, <1>3, StillHelping
<1>6. Current(t)' <=> Current(t)
  BY <1>4, <1>5 DEF Current, SameMemory
<1>7. QED
  BY <1>2, <1>3, <1>4, <1>5, <1>6

\* ... and of a step that changes nothing but the label.
LEMMA GotoHelping ==
  ASSUME PInv, NEW t \in Threads, NEW from \in HelpLabels,
         NEW to \in HelpLabels, Goto(t, from, to),
         UNCHANGED <<nvm, pwb, log, history>>
  PROVE  /\ th[t].pc = from /\ th'[t].pc = to /\ th'[t].i = th[t].i
         /\ th'[t].helpTx = th[t].helpTx /\ th'[t].myTx = th[t].myTx
         /\ th'[t].back = th[t].back
         /\ TypeOK' /\ Tame(t) /\ SameMemory /\ DealsWithKnown(t)
         /\ Served(t)' = Served(t) /\ (Current(t)' <=> Current(t))
<1>1. th[t] \in LocalType
  BY Types DEF PInv
<1>2. /\ th[t].pc = from /\ th'[t] = [th[t] EXCEPT !.pc = to]
      /\ th' \in [Threads -> LocalType]
      /\ \A u \in Threads \ {t} : th'[u] = th[u]
  <2>1. Go(t, from, to, th[t]) /\ TypeOK /\ to \in Labels
    BY DEF Goto, PInv, HelpLabels, Labels
  <2>2. QED
    BY <1>1, <2>1, Went
<1>3. /\ th'[t].pc = to /\ th'[t].i = th[t].i
      /\ th'[t].helpTx = th[t].helpTx /\ th'[t].myTx = th[t].myTx
      /\ th'[t].back = th[t].back
  BY <1>1, <1>2 DEF LocalType
<1>4. TypeOK' /\ Tame(t) /\ SameMemory
  BY <1>2, Quiet
<1>5. DealsWithKnown(t) /\ Served(t)' = Served(t)
  BY <1>2, <1>3, StillHelping
<1>6. Current(t)' <=> Current(t)
  BY <1>4, <1>5 DEF Current, SameMemory
<1>7. QED
  BY <1>2, <1>3, <1>4, <1>5, <1>6

\* Who has the log of the open transaction and is about to apply it.
LEMMA BeginsToApply ==
  ASSUME PInv, NEW t \in Threads,
         NEW from \in {"chkRequest", "helpRequest"},
         Goto(t, from, "apply"), UNCHANGED <<nvm, pwb, log, history>>,
         log[t] = FullLog(Worth), Current(t)
  PROVE  Keeps(t)
<1>1. th[t] \in LocalType /\ ThreadState(t) /\ Go(t, from, "apply", th[t])
  BY Types DEF PInv, Goto
<1>2. /\ th[t].pc = from
      /\ th'[t].pc = "apply" /\ th'[t].i = th[t].i
      /\ th'[t].helpTx = th[t].helpTx /\ th'[t].myTx = th[t].myTx
      /\ th'[t].back = th[t].back
      /\ TypeOK' /\ Tame(t) /\ SameMemory /\ DealsWithKnown(t)
      /\ Served(t)' = Served(t) /\ (Current(t)' <=> Current(t))
  <2>1. from \in HelpLabels /\ "apply" \in HelpLabels
    BY DEF HelpLabels
  <2>2. QED
    BY <2>1, GotoHelping
<1>3. th'[t].i = 0 /\ 0 <= Len(Order)
  BY <1>1, <1>2, OrderIsOnto DEF ThreadState
<1>4. log'[t] = FullLog(Worth') /\ Complete(log'[t])
  BY <1>2, FullLogs DEF SameMemory
<1>5. ThreadApply(t)'
  <2>1. \A k \in 0 .. th'[t].i - 1 : Applied(t, EntryWord(t, k))'
    BY <1>3
  <2>2. QED
    BY <1>2, <1>3, <1>4, <2>1 DEF ThreadApply, At
<1>6. ThreadOwns(t)'
  BY <1>2, <1>4 DEF ThreadOwns, Current, SameMemory
<1>7. ThreadState(t)'
  BY <1>1, <1>2, <1>5, <1>6 DEF ThreadState, Reading, HelpLabels,
                        ReaderLabels, LogLabels, ThreadCommit, At
<1>8. QED
  BY <1>2, <1>7 DEF Keeps

LEMMA HelpCheckRequestKeeps ==
  ASSUME PInv, NEW t \in Threads, HelpCheckRequest(t)
  PROVE  Keeps(t)
<1>1. UNCHANGED <<nvm, pwb, log, history>> /\ At(t, "chkRequest")
  BY DEF HelpCheckRequest
<1>2. /\ ThreadState(t) /\ th[t] \in LocalType
      /\ th[t].pc = "chkRequest" /\ th[t].pc \in HelpLabels
  BY <1>1, Types DEF PInv, At, HelpLabels
<1>3. CASE request(Helped(t)) # th[t].helpTx
  <2>1. th[t].helpTx = curTx => Closed
    BY <1>3 DEF Closed, Helped
  <2>2. Back(t, "chkRequest")
    BY <1>3 DEF HelpCheckRequest
  <2>3. QED
    BY <1>1, <2>1, <2>2, QuietBack
<1>4. CASE request(Helped(t)) = th[t].helpTx
  <2>1. th[t].helpTx = curTx /\ IsOpen /\ Helped(t) = curTx.idx
    BY <1>2, <1>4, OpenIsLast
  <2>2. Served(t) = curTx
    BY <1>2, <2>1 DEF Served, At
  <2>3. CASE Helped(t) = t
    <3>1. Goto(t, "chkRequest", "apply")
      BY <1>4, <2>3 DEF HelpCheckRequest
    <3>2. log[t] = FullLog(Worth)
      BY <1>2, <2>1, <2>3 DEF ThreadState, ThreadOwns
    <3>3. Current(t)
      BY <2>1, <2>2 DEF Current
    <3>4. QED
      BY <1>1, <3>1, <3>2, <3>3, BeginsToApply
  <2>4. CASE Helped(t) # t
    <3>1. Goto(t, "chkRequest", "copy")
      BY <1>4, <2>4 DEF HelpCheckRequest
    <3>2. /\ th'[t].pc = "copy" /\ th'[t].i = th[t].i
          /\ th'[t].helpTx = th[t].helpTx /\ th'[t].myTx = th[t].myTx
          /\ th'[t].back = th[t].back
          /\ TypeOK' /\ Tame(t) /\ SameMemory /\ DealsWithKnown(t)
      <4>1. "chkRequest" \in HelpLabels /\ "copy" \in HelpLabels
        BY DEF HelpLabels
      <4>2. QED
        BY <1>1, <3>1, <4>1, GotoHelping
    <3>3. ThreadOwns(t)'
      BY <2>1, <2>4, <3>2 DEF ThreadOwns, SameMemory
    <3>4. ThreadState(t)'
      BY <1>2, <3>2, <3>3 DEF ThreadState, Reading, HelpLabels, ReaderLabels,
                              LogLabels, ThreadCommit, At
    <3>5. QED
      BY <3>2, <3>4 DEF Keeps
  <2>5. QED
    BY <2>3, <2>4
<1>5. QED
  BY <1>3, <1>4

LEMMA HelpCopyKeeps ==
  ASSUME PInv, NEW t \in Threads, HelpCopy(t)
  PROVE  Keeps(t)
<1>1. /\ TypeOK /\ ThreadState(t) /\ th[t] \in LocalType
      /\ Go(t, "copy", "helpCurTx", th[t])
      /\ UNCHANGED <<nvm, pwb, history>>
  BY Types DEF PInv, HelpCopy, Goto
<1>2. "helpCurTx" \in Labels
  BY DEF Labels, HelpLabels
<1>3. /\ th[t].pc = "copy" /\ th'[t] = [th[t] EXCEPT !.pc = "helpCurTx"]
      /\ th' \in [Threads -> LocalType]
      /\ \A u \in Threads \ {t} : th'[u] = th[u]
  BY <1>1, <1>2, Went
<1>4. Helped(t) \in Threads
  BY <1>1 DEF LocalType, TransType, Helped
<1>5. PICK l \in LogType : l = log[Helped(t)]
  BY <1>1, <1>4, Types
<1>6. WriteLog(t, l)
  BY <1>5 DEF HelpCopy
<1>7. /\ TypeOK' /\ Tame(t) /\ SameMemory
      /\ log'[t] = l /\ ~(IsOpen /\ curTx.idx = t)
  BY <1>1, <1>3, <1>6, Logs
<1>8. /\ th'[t].pc = "helpCurTx" /\ th'[t].i = th[t].i
      /\ th'[t].helpTx = th[t].helpTx /\ th'[t].myTx = th[t].myTx
      /\ th'[t].back = th[t].back
  BY <1>1, <1>3 DEF LocalType
<1>9. DealsWithKnown(t) /\ Served(t)' = Served(t)
  BY <1>3, <1>8, StillHelping DEF HelpLabels
<1>10. Current(t)' => log'[t] = FullLog(Worth')
  <2>1. SUFFICES ASSUME Current(t)'
                 PROVE  log'[t] = FullLog(Worth')
    OBVIOUS
  <2>2. th[t].helpTx = curTx /\ IsOpen
    BY <1>3, <1>7, <1>9, <2>1 DEF Current, Served, SameMemory, At
  <2>3. log[curTx.idx] = FullLog(Worth)
    BY <1>4, <2>2 DEF PInv, ThreadState, ThreadOwns, Helped
  <2>4. QED
    BY <1>5, <1>7, <2>2, <2>3 DEF Helped, SameMemory
<1>11. ThreadState(t)'
  BY <1>1, <1>3, <1>7, <1>8, <1>10
     DEF ThreadState, Reading, HelpLabels, ReaderLabels, LogLabels,
         ThreadCommit, ThreadOwns, SameMemory, At
<1>12. QED
  BY <1>7, <1>9, <1>11 DEF Keeps

LEMMA HelpCheckCurTxKeeps ==
  ASSUME PInv, NEW t \in Threads, HelpCheckCurTx(t)
  PROVE  Keeps(t)
<1>1. UNCHANGED <<nvm, pwb, log, history>>
  BY DEF HelpCheckCurTx
<1>2. ThreadState(t) /\ th[t] \in LocalType
  BY Types DEF PInv
<1>3. CASE th[t].helpTx # curTx
  <2>1. Back(t, "helpCurTx")
    BY <1>3 DEF HelpCheckCurTx
  <2>2. QED
    BY <1>1, <1>3, <2>1, QuietBack
<1>4. CASE th[t].helpTx = curTx
  <2>1. Goto(t, "helpCurTx", "helpRequest")
    BY <1>4 DEF HelpCheckCurTx
  <2>2. /\ th[t].pc = "helpCurTx"
        /\ th'[t].pc = "helpRequest" /\ th'[t].i = th[t].i
        /\ th'[t].helpTx = th[t].helpTx /\ th'[t].myTx = th[t].myTx
        /\ th'[t].back = th[t].back
        /\ TypeOK' /\ Tame(t) /\ SameMemory /\ DealsWithKnown(t)
        /\ (Current(t)' <=> Current(t))
    <3>1. "helpCurTx" \in HelpLabels /\ "helpRequest" \in HelpLabels
      BY DEF HelpLabels
    <3>2. QED
      BY <1>1, <2>1, <3>1, GotoHelping
  <2>3. ThreadOwns(t)'
    BY <1>2, <2>2 DEF ThreadState, ThreadOwns, SameMemory
  <2>4. Current(t)' => log'[t] = FullLog(Worth')
    BY <1>1, <1>2, <2>2 DEF ThreadState, SameMemory
  <2>5. ThreadState(t)'
    BY <1>2, <2>2, <2>3, <2>4
       DEF ThreadState, Reading, HelpLabels, ReaderLabels, LogLabels,
           ThreadCommit, At
  <2>6. QED
    BY <2>2, <2>5 DEF Keeps
<1>5. QED
  BY <1>3, <1>4

LEMMA HelpRecheckRequestKeeps ==
  ASSUME PInv, NEW t \in Threads, HelpRecheckRequest(t)
  PROVE  Keeps(t)
<1>1. UNCHANGED <<nvm, pwb, log, history>>
  BY DEF HelpRecheckRequest
<1>2. ThreadState(t)
  BY DEF PInv
<1>3. CASE request(Helped(t)) # th[t].helpTx
  <2>1. th[t].helpTx = curTx => Closed
    BY <1>3 DEF Closed, Helped
  <2>2. Back(t, "helpRequest")
    BY <1>3 DEF HelpRecheckRequest
  <2>3. QED
    BY <1>1, <2>1, <2>2, QuietBack
<1>4. CASE request(Helped(t)) = th[t].helpTx
  <2>1. Goto(t, "helpRequest", "apply")
    BY <1>4 DEF HelpRecheckRequest
  <2>2. th[t].pc = "helpRequest" /\ th[t].pc \in HelpLabels
    BY <2>1 DEF Goto, Go, At, HelpLabels
  <2>3. th[t].helpTx = curTx /\ IsOpen
    BY <1>4, <2>2, OpenIsLast
  <2>4. Current(t)
    BY <2>2, <2>3 DEF Current, Served, At
  <2>5. log[t] = FullLog(Worth)
    BY <1>2, <2>2, <2>4 DEF ThreadState
  <2>6. QED
    BY <1>1, <2>1, <2>4, <2>5, BeginsToApply
<1>5. QED
  BY <1>3, <1>4

\* What apply does at its next entry.
LEMMA NextEntry ==
  ASSUME PInv, NEW t \in Threads, th[t].pc \in {"apply", "dcas"}
  PROVE  /\ ThreadApply(t) /\ th[t].i \in Nat
         /\ log[t] \in LogType /\ Len(log[t]) = Len(Order)
         /\ EntryWord(t, th[t].i) \in Words
         /\ ApplyEntry(t) = [addr |-> EntryWord(t, th[t].i),
                             val |-> log[t][1].val]
         /\ Current(t) => log[t][1].val = Worth
         /\ th[t].helpTx \in TransType
<1>1. /\ ThreadState(t) /\ log[t] \in LogType
      /\ th[t].i \in Nat /\ th[t].helpTx \in TransType
  BY Types DEF PInv, LocalType
<1>2. ThreadApply(t) /\ Complete(log[t])
  BY <1>1 DEF ThreadState, ThreadApply
<1>3. Len(log[t]) = Len(Order)
  BY <1>1, <1>2, CompleteLogs
<1>4. EntryWord(t, th[t].i) \in Words
  BY <1>1, EntryWords
<1>5. ApplyEntry(t) = [addr |-> EntryWord(t, th[t].i),
                       val |-> log[t][1].val]
  BY <1>1, <1>2, ApplyEntryIs
<1>6. Current(t) => log[t][1].val = Worth
  BY <1>2, FullLogs DEF ThreadApply
<1>7. QED
  BY <1>1, <1>2, <1>3, <1>4, <1>5, <1>6

LEMMA ApplyLoadKeeps ==
  ASSUME PInv, NEW t \in Threads, ApplyLoad(t)
  PROVE  Keeps(t)
<1>1. /\ UNCHANGED <<nvm, pwb, log, history>> /\ th[t].pc = "apply"
      /\ th[t].i < Len(log[t])
  BY DEF ApplyLoad, At
<1>2. ThreadState(t) /\ th[t] \in LocalType
  BY Types DEF PInv
<1>3. PICK i, w : i = th[t].i /\ w = EntryWord(t, i)
  OBVIOUS
<1>4. /\ ThreadApply(t) /\ i \in Nat /\ Len(log[t]) = Len(Order)
      /\ w \in Words /\ ApplyEntry(t).addr = w
      /\ th[t].helpTx \in TransType
  BY <1>1, <1>3, NextEntry
<1>5. Now(nvm, w) \in [val : Int, seq : Nat] /\ Len(Order) \in Nat
  BY <1>4, Types, OrderIsOnto DEF PInv
<1>6. ASSUME NEW new \in LocalType, NEW to \in {"apply", "dcas"},
             Go(t, "apply", to, new),
             new.helpTx = th[t].helpTx, new.myTx = th[t].myTx,
             new.back = th[t].back, new.i \in Nat, new.i <= Len(Order),
             \A k \in 0 .. new.i - 1 : Applied(t, EntryWord(t, k)),
             to = "dcas" =>
               /\ new.i < Len(Order) /\ new.seq < th[t].helpTx.seq
               /\ Now(nvm, EntryWord(t, new.i))
                    = [val |-> new.val, seq |-> new.seq]
      PROVE  Keeps(t)
  <2>1. /\ th'[t].pc = to /\ th'[t].i = new.i
        /\ th'[t].val = new.val /\ th'[t].seq = new.seq
        /\ th'[t].helpTx = th[t].helpTx /\ th'[t].myTx = th[t].myTx
        /\ th'[t].back = th[t].back
        /\ TypeOK' /\ Tame(t) /\ SameMemory /\ DealsWithKnown(t)
        /\ Served(t)' = Served(t) /\ (Current(t)' <=> Current(t))
    <3>1. CASE to = "apply"
      <4>1. Go(t, "apply", "apply", new)
        BY <1>6, <3>1
      <4>2. QED
        BY <1>1, <1>6, <3>1, <4>1, QuietHelping DEF HelpLabels
    <3>2. CASE to = "dcas"
      <4>1. Go(t, "apply", "dcas", new)
        BY <1>6, <3>2
      <4>2. QED
        BY <1>1, <1>6, <3>2, <4>1, QuietHelping DEF HelpLabels
    <3>3. QED
      BY <3>1, <3>2
  <2>2. /\ \A x : Applied(t, x)' <=> Applied(t, x)
        /\ \A k : EntryWord(t, k)' = EntryWord(t, k)
    BY <1>1, <2>1 DEF Applied, EntryWord
  <2>3. ThreadApply(t)'
    <3>1. IF Current(t)' THEN log'[t] = FullLog(Worth')
                         ELSE \A x \in Words : Applied(t, x)'
      BY <1>1, <1>4, <2>1, <2>2 DEF ThreadApply, SameMemory
    <3>2. Complete(log'[t]) /\ th'[t].i <= Len(Order)
      BY <1>1, <1>4, <1>6, <2>1 DEF ThreadApply
    <3>3. \A k \in 0 .. th'[t].i - 1 : Applied(t, EntryWord(t, k))'
      BY <1>1, <1>6, <2>1 DEF Applied, EntryWord
    <3>4. At(t, "dcas")' =>
            /\ th'[t].i < Len(Order)
            /\ th'[t].seq < th'[t].helpTx.seq
            /\ Now(nvm', EntryWord(t, th'[t].i))
                 = [val |-> th'[t].val, seq |-> th'[t].seq]
      BY <1>1, <1>6, <2>1 DEF At
    <3>5. ~At(t, "close")'
      BY <1>6, <2>1 DEF At
    <3>6. QED
      BY <3>1, <3>2, <3>3, <3>4, <3>5 DEF ThreadApply, EntryWord
  <2>4. ThreadOwns(t)'
    BY <1>1, <1>2, <1>6, <2>1 DEF ThreadState, ThreadOwns, SameMemory
  <2>5. th'[t].pc \in HelpLabels =>
          /\ th'[t].back # "idle"
          /\ th'[t].back = "reset" => th'[t].myTx = th'[t].helpTx
    BY <1>1, <1>2, <2>1 DEF ThreadState, HelpLabels
  <2>6. ThreadState(t)'
    BY <1>6, <2>1, <2>3, <2>4, <2>5
       DEF ThreadState, Reading, ReaderLabels, LogLabels, ThreadCommit, At
  <2>7. QED
    BY <2>1, <2>6 DEF Keeps
<1>7. CASE Now(nvm, w).seq < th[t].helpTx.seq
  <2>1. PICK new : new = [th[t] EXCEPT !.val = Now(nvm, w).val,
                                       !.seq = Now(nvm, w).seq]
    OBVIOUS
  <2>2. Go(t, "apply", "dcas", new)
    BY <1>4, <1>7, <2>1 DEF ApplyLoad
  <2>3. /\ new \in LocalType
        /\ new.helpTx = th[t].helpTx /\ new.myTx = th[t].myTx
        /\ new.back = th[t].back /\ new.i = i
        /\ new.val = Now(nvm, w).val /\ new.seq = Now(nvm, w).seq
    BY <1>2, <1>3, <1>5, <2>1 DEF LocalType
  <2>4. /\ i < Len(Order)
        /\ \A k \in 0 .. i - 1 : Applied(t, EntryWord(t, k))
    BY <1>1, <1>3, <1>4 DEF ThreadApply
  <2>5. /\ w = EntryWord(t, new.i)
        /\ Now(nvm, w) = [val |-> new.val, seq |-> new.seq]
    BY <1>3, <1>5, <2>3
  <2>6. /\ new.i \in Nat /\ new.i <= Len(Order) /\ new.i < Len(Order)
        /\ new.seq < th[t].helpTx.seq
    BY <1>4, <1>5, <1>7, <2>3, <2>4
  <2>7. \A k \in 0 .. new.i - 1 : Applied(t, EntryWord(t, k))
    BY <2>3, <2>4
  <2>8. QED
    BY <1>6, <2>2, <2>3, <2>5, <2>6, <2>7, Zenon
<1>8. CASE ~(Now(nvm, w).seq < th[t].helpTx.seq)
  <2>1. PICK new : new = [th[t] EXCEPT !.i = i + 1]
    OBVIOUS
  <2>2. Go(t, "apply", "apply", new)
    BY <1>3, <1>4, <1>8, <2>1 DEF ApplyLoad
  <2>3. /\ new \in LocalType
        /\ new.helpTx = th[t].helpTx /\ new.myTx = th[t].myTx
        /\ new.back = th[t].back /\ new.i = i + 1
    <3>1. th[t] \in LocalType /\ i + 1 \in Nat
      BY <1>2, <1>4
    <3>2. QED
      BY <2>1, <3>1 DEF LocalType
  <2>4. i + 1 <= Len(Order) /\ i + 1 \in Nat
    BY <1>1, <1>3, <1>4, <1>5
  <2>5. Applied(t, w)
    BY <1>4, <1>5, <1>8 DEF Applied, TransType
  <2>6. ASSUME NEW k \in 0 .. i
        PROVE  Applied(t, EntryWord(t, k))
    <3>1. k = i \/ k \in 0 .. i - 1
      BY <1>4
    <3>2. QED
      BY <1>3, <1>4, <2>5, <3>1 DEF ThreadApply
  <2>7. 0 .. new.i - 1 = 0 .. i
    BY <1>4, <2>3
  <2>8. QED
    BY <1>6, <2>2, <2>3, <2>4, <2>6, <2>7
<1>9. QED
  BY <1>7, <1>8

LEMMA ApplyDcasKeeps ==
  ASSUME PInv, NEW t \in Threads, ApplyDcas(t)
  PROVE  Keeps(t)
<1>1. PICK i, w, old : i = th[t].i /\ w = EntryWord(t, i) /\ old = Now(nvm, w)
  OBVIOUS
<1>2. /\ TypeOK /\ ThreadState(t) /\ th[t] \in LocalType
      /\ th[t].pc = "dcas"
  BY Types DEF PInv, ApplyDcas, Go, At
<1>3. /\ ThreadApply(t) /\ i \in Nat /\ log[t] \in LogType
      /\ w \in Words
      /\ ApplyEntry(t) = [addr |-> w, val |-> log[t][1].val]
      /\ Current(t) => log[t][1].val = Worth
      /\ th[t].helpTx \in TransType
  BY <1>1, <1>2, NextEntry
<1>4. PICK e, x : /\ e = log[t][1].val
                  /\ x = IF old = [val |-> th[t].val, seq |-> th[t].seq]
                         THEN [val |-> e, seq |-> th[t].helpTx.seq] ELSE old
  OBVIOUS
<1>5. /\ Locked(t, w, x) /\ UNCHANGED <<log, history>>
      /\ Go(t, "dcas", "apply",
            [th[t] EXCEPT !.i = th[t].i + 1, !.val = V0, !.seq = 0])
  <2>1. ApplyEntry(t).addr = w /\ ApplyEntry(t).val = e
    BY <1>3, <1>4
  <2>2. QED
    BY <1>1, <1>4, <2>1, Zenon DEF ApplyDcas
<1>6. old \in [val : Int, seq : Nat] /\ Len(Order) \in Nat /\ e \in Int
  <2>1. Complete(log[t])
    BY <1>3 DEF ThreadApply
  <2>2. QED
    BY <1>1, <1>2, <1>3, <1>4, <2>1, Types, OrderIsOnto, CompleteLogs
<1>7. x \in [val : Int, seq : Nat]
  BY <1>3, <1>4, <1>6 DEF TransType
<1>8. Served(t) = th[t].helpTx /\ Served(t) \in Known
  BY <1>2, KnownIs DEF Serving, Served, HelpLabels, At
<1>9. \* The word is written for the open transaction, or not at all.
      \/ x = old
      \/ /\ IsOpen /\ old.seq < curTx.seq /\ th[t].helpTx = curTx
         /\ x.val = Worth /\ x.seq = curTx.seq
  <2>1. CASE old = [val |-> th[t].val, seq |-> th[t].seq]
    <3>1. th[t].seq < th[t].helpTx.seq
      BY <1>2, <1>3 DEF ThreadApply, At
    <3>2. ~Applied(t, w)
      BY <1>1, <1>2, <1>3, <2>1, <3>1 DEF Applied, LocalType, TransType
    <3>3. Current(t)
      BY <1>3, <3>2 DEF ThreadApply
    <3>4. th[t].helpTx = curTx /\ IsOpen /\ e = Worth
      BY <1>3, <1>4, <1>8, <3>3 DEF Current
    <3>5. QED
      BY <1>4, <2>1, <3>1, <3>4
  <2>2. CASE old # [val |-> th[t].val, seq |-> th[t].seq]
    BY <1>4, <2>2
  <2>3. QED
    BY <2>1, <2>2
<1>10. x.seq >= th[t].helpTx.seq
  <2>1. CASE old = [val |-> th[t].val, seq |-> th[t].seq]
    BY <1>3, <1>4, <2>1 DEF TransType
  <2>2. CASE old # [val |-> th[t].val, seq |-> th[t].seq]
    BY <1>1, <1>2, <1>3, <1>4, <2>2 DEF ThreadApply, Applied, At
  <2>3. QED
    BY <2>1, <2>2
<1>11. /\ Memory(nvm') /\ Now(nvm', w) = x
       /\ ToSet(nvm'[w]) \subseteq ToSet(nvm[w]) \cup {x}
       /\ \A k \in Lines \ {w} : /\ Now(nvm', k) = Now(nvm, k)
                                 /\ ToSet(nvm'[k]) \subseteq ToSet(nvm[k])
       /\ DOMAIN pwb' = Threads
       /\ \A u \in Threads \ {t} : pwb'[u] = pwb[u]
       /\ DOMAIN pwb'[t] = {}
  <2>1. w \in Lines /\ x \in Contents(w)
    BY <1>3, <1>7, LinesDiffer, ContentsOf
  <2>2. QED
    BY <1>2, <1>5, <2>1, LockedMemory
<1>12. /\ curTx' = curTx /\ curTx.idx \in Threads
       /\ \A u \in Threads : /\ Now(nvm', u) = Now(nvm, u)
                             /\ request(u)' = request(u)
                             /\ ToSet(nvm'[u]) \subseteq ToSet(nvm[u])
       /\ \A v \in Words \ {w} : /\ Now(nvm', v) = Now(nvm, v)
                                 /\ ToSet(nvm'[v]) \subseteq ToSet(nvm[v])
  BY <1>2, <1>3, <1>11, Types, LinesDiffer DEF curTx, request
<1>13. (IsOpen' <=> IsOpen) /\ Worth' = Worth
  BY <1>5, <1>12 DEF IsOpen, Closed, request, Worth, history
<1>14. /\ th' \in [Threads -> LocalType]
       /\ \A u \in Threads \ {t} : th'[u] = th[u]
       /\ th'[t].pc = "apply" /\ th'[t].i = i + 1
       /\ th'[t].helpTx = th[t].helpTx /\ th'[t].myTx = th[t].myTx
       /\ th'[t].back = th[t].back
  <2>1. PICK new : new = [th[t] EXCEPT !.i = th[t].i + 1, !.val = V0,
                                       !.seq = 0]
    OBVIOUS
  <2>2. /\ new \in LocalType /\ new.i = i + 1
        /\ new.helpTx = th[t].helpTx /\ new.myTx = th[t].myTx
        /\ new.back = th[t].back
    <3>1. PICK r \in LocalType : r = th[t]
      BY <1>2
    <3>2. PICK j \in Nat : j = i + 1
      BY <1>3
    <3>3. new = [r EXCEPT !.i = j, !.val = V0, !.seq = 0] /\ V0 \in Int
      BY <1>1, <2>1, <3>1, <3>2
    <3>4. /\ new \in LocalType /\ new.i = j
          /\ new.helpTx = r.helpTx /\ new.myTx = r.myTx
          /\ new.back = r.back
      BY <3>3 DEF LocalType
    <3>5. QED
      BY <3>1, <3>2, <3>4
  <2>3. "apply" \in Labels /\ Go(t, "dcas", "apply", new)
    BY <1>5, <2>1 DEF Labels, HelpLabels
  <2>4. /\ th'[t] = [new EXCEPT !.pc = "apply"]
        /\ th' \in [Threads -> LocalType]
        /\ \A u \in Threads \ {t} : th'[u] = th[u]
    BY <1>2, <2>2, <2>3, Went
  <2>5. QED
    BY <2>2, <2>4 DEF LocalType
<1>15. Tame(t)
  <2>1. \A v \in Words :
          \/ Now(nvm', v) = Now(nvm, v)
          \/ /\ IsOpen
             /\ Now(nvm, v).seq < curTx.seq
             /\ Now(nvm', v).seq = curTx.seq
             /\ Now(nvm', v).val = Worth
    BY <1>1, <1>9, <1>11, <1>12
  <2>2. ~IsOpen => \A v \in Words : ToSet(nvm'[v]) \subseteq ToSet(nvm[v])
    <3>1. old \in ToSet(nvm[w])
      BY <1>1, <1>2, <1>3, NowType, LinesDiffer DEF TypeOK
    <3>2. QED
      BY <1>9, <1>11, <1>12, <3>1
  <2>3. UNCHANGED <<log, commits>>
    BY <1>5 DEF history
  <2>4. QED
    BY <1>11, <1>12, <1>13, <1>14, <2>1, <2>2, <2>3 DEF Tame
<1>16. TypeOK'
  <2>1. \A u \in Threads : \A l \in DOMAIN pwb'[u] :
          l \in Lines /\ pwb'[u][l] \in Contents(l)
    BY <1>2, <1>11 DEF TypeOK
  <2>2. QED
    BY <1>2, <1>5, <1>11, <1>12, <1>14, <2>1 DEF TypeOK, history
<1>17. /\ DealsWithKnown(t) /\ Served(t)' = Served(t)
       /\ Current(t)' <=> Current(t)
  <2>1. DealsWithKnown(t) /\ Served(t)' = Served(t)
    BY <1>2, <1>14, StillHelping DEF HelpLabels
  <2>2. QED
    BY <1>12, <1>13, <2>1 DEF Current
<1>18. ASSUME NEW v \in Words, Applied(t, v) \/ v = w
       PROVE  Applied(t, v)'
  <2>1. CASE v = w
    BY <1>10, <1>11, <1>14, <2>1 DEF Applied
  <2>2. CASE v # w
    BY <1>12, <1>14, <1>18, <2>2 DEF Applied
  <2>3. QED
    BY <2>1, <2>2
<1>19. ThreadApply(t)'
  <2>1. /\ Complete(log[t])
        /\ IF Current(t) THEN log[t] = FullLog(Worth)
                         ELSE \A v \in Words : Applied(t, v)
        /\ i < Len(Order)
        /\ \A k \in 0 .. i - 1 : Applied(t, EntryWord(t, k))
    BY <1>1, <1>2, <1>3 DEF ThreadApply, At
  <2>2. log'[t] = log[t]
    BY <1>5
  <2>3. IF Current(t)' THEN log'[t] = FullLog(Worth')
                       ELSE \A v \in Words : Applied(t, v)'
    BY <1>13, <1>17, <1>18, <2>1, <2>2
  <2>4. th'[t].i <= Len(Order)
    BY <1>3, <1>6, <1>14, <2>1
  <2>5. ASSUME NEW k \in 0 .. th'[t].i - 1
        PROVE  Applied(t, EntryWord(t, k))'
    <3>1. PICK v : v = EntryWord(t, k)
      OBVIOUS
    <3>2. k \in Nat /\ (k = i \/ k \in 0 .. i - 1)
      BY <1>3, <1>14
    <3>3. v \in Words /\ (Applied(t, v) \/ v = w)
      BY <1>1, <2>1, <3>1, <3>2, EntryWords
    <3>4. Applied(t, v)'
      BY <1>18, <3>3
    <3>5. QED
      BY <3>1, <3>4 DEF Applied, EntryWord
  <2>6. QED
    BY <1>14, <2>1, <2>2, <2>3, <2>4, <2>5 DEF ThreadApply, At
<1>20. ThreadOwns(t)'
  BY <1>2, <1>5, <1>12, <1>13, <1>14, <1>17 DEF ThreadState, ThreadOwns
<1>21. th'[t].back # "idle" /\ (th'[t].back = "reset" =>
                                  th'[t].myTx = th'[t].helpTx)
  BY <1>2, <1>14 DEF ThreadState, HelpLabels
<1>22. ThreadState(t)'
  BY <1>14, <1>19, <1>20, <1>21
     DEF ThreadState, Reading, ReaderLabels, LogLabels, ThreadCommit, At
<1>23. QED
  BY <1>15, <1>16, <1>17, <1>22 DEF Keeps

\* When the whole log has been applied, what all words have is noted.
LEMMA FlushModificationsKeeps ==
  ASSUME PInv, NEW t \in Threads, FlushModifications(t)
  PROVE  Keeps(t)
<1>1. /\ TypeOK /\ ThreadState(t) /\ th[t] \in LocalType
      /\ th[t].pc = "apply" /\ th[t].i = Len(log[t])
      /\ Go(t, "apply", "close", th[t])
      /\ UNCHANGED <<nvm, log, history>>
  BY Types DEF PInv, FlushModifications, Goto, At
<1>2. PICK L : L = {log[t][i].addr : i \in DOMAIN log[t]}
  OBVIOUS
<1>3. WriteBack(t, L)
  BY <1>2 DEF FlushModifications
<1>4. /\ ThreadApply(t) /\ log[t] \in LogType /\ Len(log[t]) = Len(Order)
      /\ th[t].i = Len(Order)
  BY <1>1, NextEntry
<1>5. Complete(log[t])
  BY <1>4 DEF ThreadApply
<1>6. L = Words
  <2>1. PICK l \in LogType : l = log[t]
    BY <1>4
  <2>2. /\ DOMAIN l = 1 .. Len(Order)
        /\ \A i \in 1 .. Len(Order) : l[i].addr = Order[i]
    <3>1. PICK v : l = FullLog(v)
      BY <1>5, <2>1 DEF Complete
    <3>2. PICK f : f = FullLog(v)
      OBVIOUS
    <3>3. /\ DOMAIN f = 1 .. Len(Order)
          /\ \A i \in 1 .. Len(Order) : f[i] = [addr |-> Order[i], val |-> v]
      BY <3>2, FullLogs, Zenon
    <3>4. QED
      BY <3>1, <3>2, <3>3
  <2>3. /\ \A i \in 1 .. Len(Order) : Order[i] \in Words
        /\ \A w \in Words : \E i \in 1 .. Len(Order) : Order[i] = w
    BY OrderIsOnto
  <2>4. QED
    BY <1>2, <2>1, <2>2, <2>3
<1>7. \A w \in Words : Applied(t, w)
  <2>1. \A k \in 0 .. Len(Order) - 1 : Applied(t, EntryWord(t, k))
    BY <1>4 DEF ThreadApply
  <2>2. QED
    BY <2>1, EntryWords
<1>8. /\ th' \in [Threads -> LocalType]
      /\ \A u \in Threads \ {t} : th'[u] = th[u]
      /\ th'[t].pc = "close" /\ th'[t].i = th[t].i
      /\ th'[t].helpTx = th[t].helpTx /\ th'[t].myTx = th[t].myTx
      /\ th'[t].back = th[t].back
  <2>1. "close" \in Labels
    BY DEF Labels, HelpLabels
  <2>2. /\ th'[t] = [th[t] EXCEPT !.pc = "close"]
        /\ th' \in [Threads -> LocalType]
        /\ \A u \in Threads \ {t} : th'[u] = th[u]
    BY <1>1, <2>1, Went
  <2>3. QED
    BY <1>1, <2>2 DEF LocalType
<1>9. /\ TypeOK' /\ Tame(t) /\ SameMemory
      /\ \A w \in Words : w \in DOMAIN pwb'[t] /\ pwb'[t][w] = Now(nvm', w)
  BY <1>1, <1>3, <1>6, <1>8, Notes, LinesDiffer
<1>10. /\ DealsWithKnown(t) /\ Served(t)' = Served(t)
       /\ Current(t)' <=> Current(t)
  <2>1. DealsWithKnown(t) /\ Served(t)' = Served(t)
    BY <1>1, <1>8, StillHelping DEF HelpLabels
  <2>2. QED
    BY <1>9, <2>1 DEF Current, SameMemory
<1>11. ThreadApply(t)'
  <2>1. \A w \in Words : Applied(t, w)'
    BY <1>1, <1>7, <1>8 DEF Applied
  <2>2. \A k \in 0 .. th'[t].i - 1 : Applied(t, EntryWord(t, k))'
    BY <1>1, <1>4, <1>8 DEF ThreadApply, Applied, EntryWord
  <2>3. IF Current(t)' THEN log'[t] = FullLog(Worth')
                       ELSE \A w \in Words : Applied(t, w)'
    BY <1>1, <1>4, <1>9, <1>10, <2>1 DEF ThreadApply, SameMemory
  <2>4. Complete(log'[t]) /\ th'[t].i <= Len(Order)
    BY <1>1, <1>4, <1>5, <1>8 DEF ThreadApply
  <2>5. QED
    BY <1>8, <1>9, <2>1, <2>2, <2>3, <2>4 DEF ThreadApply, At
<1>12. ThreadOwns(t)'
  BY <1>1, <1>8, <1>9, <1>10 DEF ThreadState, ThreadOwns, SameMemory
<1>13. th'[t].back # "idle" /\ (th'[t].back = "reset" =>
                                  th'[t].myTx = th'[t].helpTx)
  BY <1>1, <1>8 DEF ThreadState, HelpLabels
<1>14. ThreadState(t)'
  BY <1>8, <1>11, <1>12, <1>13
     DEF ThreadState, Reading, ReaderLabels, LogLabels, ThreadCommit, At
<1>15. QED
  BY <1>9, <1>10, <1>14 DEF Keeps

\* The compare-and-swap that closes a request fences what has been noted: no
\* word has anything left but what the transaction gave it.
LEMMA HelpCloseKeeps ==
  ASSUME PInv, NEW t \in Threads, HelpClose(t)
  PROVE  Keeps(t)
<1>1. Back(t, "close") /\ UNCHANGED <<log, history>> /\ ThreadState(t)
  BY DEF HelpClose, PInv
<1>2. CASE request(Helped(t)) # th[t].helpTx
  <2>1. th[t].helpTx = curTx => Closed
    BY <1>2 DEF Closed, Helped
  <2>2. UNCHANGED <<nvm, pwb>>
    BY <1>2 DEF HelpClose
  <2>3. QED
    BY <1>1, <2>1, <2>2, QuietBack
<1>3. CASE request(Helped(t)) = th[t].helpTx
  <2>1. /\ th[t].pc = "close" /\ th[t] \in LocalType
        /\ th' \in [Threads -> LocalType]
        /\ \A u \in Threads \ {t} : th'[u] = th[u]
        /\ th'[t].pc \in {"reset", "return"} /\ th'[t].i = 0
        /\ th'[t].pc = "reset" => th'[t].myTx = th[t].helpTx
        /\ DealsWithKnown(t)
    BY <1>1, Backs DEF HelpLabels
  <2>2. th[t].helpTx = curTx /\ IsOpen /\ Helped(t) = curTx.idx
    BY <1>3, <2>1, OpenIsLast DEF HelpLabels
  <2>3. Current(t)
    BY <2>1, <2>2 DEF Current, Served, At
  <2>4. PICK o, x : /\ o = curTx.idx
                    /\ x = [Now(nvm, o) EXCEPT
                              !.request = Trans(curTx.seq + 1, o)]
    OBVIOUS
  <2>5. TypeOK /\ TypeFacts /\ o \in Threads /\ o \in Lines
    BY <2>4, TypesAre, LinesDiffer DEF PInv, TypeFacts
  <2>6. x \in Contents(o) /\ x.request = Trans(curTx.seq + 1, o)
    <3>1. Trans(curTx.seq + 1, o) \in TransType
      BY <2>5 DEF Trans, TransType, TypeFacts
    <3>2. QED
      BY <2>4, <2>5, <3>1, ContentsOf DEF TypeFacts
  <2>7. Locked(t, o, x)
    BY <1>3, <2>2, <2>4 DEF HelpClose
  <2>8. /\ Memory(nvm')
        /\ Now(nvm', o) = x
        /\ \A k \in Lines \ {o} :
             /\ Now(nvm', k) = Now(nvm, k)
             /\ ToSet(nvm'[k]) \subseteq ToSet(nvm[k])
             /\ k \in DOMAIN pwb[t] /\ pwb[t][k] = Now(nvm, k) =>
                  ToSet(nvm'[k]) = {Now(nvm, k)}
        /\ DOMAIN pwb' = Threads
        /\ \A u \in Threads \ {t} : pwb'[u] = pwb[u]
        /\ DOMAIN pwb'[t] = {}
    BY <2>5, <2>6, <2>7, LockedMemory
  <2>9. /\ curTx' = curTx
        /\ \A u \in Threads \ {o} : /\ Now(nvm', u) = Now(nvm, u)
                                    /\ request(u)' = request(u)
        /\ \A w \in Words : Now(nvm', w) = Now(nvm, w)
    BY <2>5, <2>8, LinesDiffer DEF curTx, request
  <2>10. request(o)' = Trans(curTx.seq + 1, o)
    BY <2>6, <2>8 DEF request
  <2>11. Trans(curTx.seq + 1, o) \notin Known
    <3>1. SUFFICES ASSUME Trans(curTx.seq + 1, o) \in Known
                   PROVE  FALSE
      OBVIOUS
    <3>2. Trans(curTx.seq + 1, o).seq = curTx.seq + 1
      BY DEF Trans
    <3>3. PICK c \in Known : c.seq = curTx.seq + 1
      BY <3>1, <3>2
    <3>4. c = curTx \/ c.seq < curTx.seq
      BY DEF PInv, PastClosed
    <3>5. QED
      BY <2>5, <3>3, <3>4 DEF TypeFacts
  <2>12. ~IsOpen'
    <3>1. curTx \in Known
      BY <2>5, KnownIs
    <3>2. Now(nvm', o).request # curTx
      BY <2>6, <2>8, <2>11, <3>1
    <3>3. QED
      BY <2>4, <2>9, <3>2 DEF IsOpen, Closed, request
  <2>13. \A w \in Words : /\ Now(nvm, w).seq = curTx.seq
                          /\ \A c \in ToSet(nvm'[w]) : c.val = Worth
    <3>1. ASSUME NEW w \in Words
          PROVE  /\ Now(nvm, w).seq = curTx.seq
                 /\ \A c \in ToSet(nvm'[w]) : c.val = Worth
      <4>1. /\ Applied(t, w) /\ w \in DOMAIN pwb[t]
            /\ pwb[t][w] = Now(nvm, w)
        BY <1>1, <2>1, <2>3 DEF ThreadState, ThreadApply, At
      <4>2. /\ Now(nvm, w).seq >= curTx.seq /\ Now(nvm, w).seq <= curTx.seq
            /\ Now(nvm, w).seq = curTx.seq => Now(nvm, w).val = Worth
        BY <2>2, <4>1 DEF Applied, PInv, MemoryState
      <4>3. Now(nvm, w).seq = curTx.seq /\ Now(nvm, w).val = Worth
        BY <2>5, <4>2 DEF TypeFacts
      <4>4. ToSet(nvm'[w]) = {Now(nvm, w)}
        BY <2>5, <2>8, <4>1, LinesDiffer
      <4>5. QED
        BY <4>3, <4>4
    <3>2. QED
      BY <3>1
  <2>14. Tame(t)
    <3>1. \A u \in Threads :
            request(u)' = request(u) \/ request(u)' \notin Known
      <4>1. ASSUME NEW u \in Threads
            PROVE  request(u)' = request(u) \/ request(u)' \notin Known
        <5>1. CASE u = o
          BY <2>10, <2>11, <5>1 DEF request
        <5>2. CASE u # o
          BY <2>9, <5>2
        <5>3. QED
          BY <5>1, <5>2
      <4>2. QED
        BY <4>1
    <3>2. \A u \in Threads \ {t} :
            Now(nvm', u) = Now(nvm, u) \/ (IsOpen /\ u = curTx.idx)
      BY <2>2, <2>4, <2>9
    <3>3. UNCHANGED <<log, commits>>
      BY <1>1 DEF history
    <3>4. QED
      BY <2>1, <2>2, <2>8, <2>9, <2>12, <2>13, <3>1, <3>2, <3>3 DEF Tame
  <2>15. TypeOK'
    <3>1. \A u \in Threads : \A l \in DOMAIN pwb'[u] :
            l \in Lines /\ pwb'[u][l] \in Contents(l)
      BY <2>5, <2>8 DEF TypeOK
    <3>2. QED
      BY <1>1, <2>1, <2>5, <2>8, <2>9, <3>1 DEF TypeOK, history
  <2>16. ThreadState(t)'
    BY <2>1, <2>12
       DEF ThreadState, Reading, HelpLabels, LogLabels, ThreadCommit,
           ThreadOwns, IsOpen, At
  <2>17. QED
    BY <2>1, <2>14, <2>15, <2>16 DEF Keeps
<1>4. QED
  BY <1>2, <1>3

(***************************************************************************)
(* The compare-and-swap of a commit.                                       *)
(***************************************************************************)

\* Who publishes has a request that is open and a log that is persistent, and
\* finds nobody on the way to a transaction it would get ahead of.
LEMMA CommitCasKeeps ==
  ASSUME PInv, NEW t \in Threads, CommitCas(t)
  PROVE  PInv'
<1>1. /\ TypeOK /\ TypeFacts /\ ThreadState(t) /\ th[t] \in LocalType
      /\ curTx = th[t].myTx
      /\ Go(t, "cas", "pwbCurTx", th[t])
      /\ Locked(t, CurTxLine, NewTx(t))
      /\ commits' = Append(commits, log[t][1].val)
      /\ UNCHANGED <<log, restarts>>
  BY TypesAre DEF PInv, CommitCas, Goto, TypeFacts
<1>2. PICK new : new = NewTx(t)
  OBVIOUS
<1>3. /\ new \in TransType /\ new.idx = t /\ new.seq = curTx.seq + 1
      /\ curTx.seq \in Nat
  <2>1. curTx.seq \in Nat /\ new = [seq |-> curTx.seq + 1, idx |-> t]
    BY <1>1, <1>2 DEF NewTx, Trans, TypeFacts
  <2>2. QED
    BY <2>1 DEF TransType
<1>4. /\ th[t].pc = "cas"
      /\ th' \in [Threads -> LocalType]
      /\ \A u \in Threads \ {t} : th'[u] = th[u]
      /\ th'[t].pc = "pwbCurTx" /\ th'[t].i = th[t].i
      /\ th'[t].myTx = th[t].myTx
  <2>1. "pwbCurTx" \in Labels
    BY DEF Labels
  <2>2. /\ th[t].pc = "cas" /\ th'[t] = [th[t] EXCEPT !.pc = "pwbCurTx"]
        /\ th' \in [Threads -> LocalType]
        /\ \A u \in Threads \ {t} : th'[u] = th[u]
    BY <1>1, <2>1, Went
  <2>3. QED
    BY <1>1, <2>2 DEF LocalType
<1>5. /\ Closed
      /\ Complete(log[t]) /\ request(t) = new
      /\ Now(nvm, t).plog = log[t]
      /\ t \in DOMAIN pwb[t] /\ pwb[t][t] = Now(nvm, t)
      /\ th'[t].i = 0
  BY <1>1, <1>2, <1>4 DEF ThreadState, ThreadCommit, Reading, ReaderLabels,
                          LogLabels, At
<1>6. /\ Memory(nvm') /\ Now(nvm', CurTxLine) = new
      /\ \A k \in Lines \ {CurTxLine} :
           /\ Now(nvm', k) = Now(nvm, k)
           /\ k \in DOMAIN pwb[t] /\ pwb[t][k] = Now(nvm, k) =>
                ToSet(nvm'[k]) = {Now(nvm, k)}
      /\ DOMAIN pwb' = Threads
      /\ \A u \in Threads \ {t} : pwb'[u] = pwb[u]
      /\ DOMAIN pwb'[t] = {}
  <2>1. CurTxLine \in Lines /\ new \in Contents(CurTxLine)
    BY <1>3, LinesDiffer, ContentsOf
  <2>2. Locked(t, CurTxLine, new)
    BY <1>1, <1>2
  <2>3. QED
    BY <1>1, <2>1, <2>2, LockedMemory
<1>7. /\ curTx' = new
      /\ \A u \in Threads : /\ Now(nvm', u) = Now(nvm, u)
                            /\ request(u)' = request(u)
      /\ \A w \in Words : Now(nvm', w) = Now(nvm, w)
      /\ ToSet(nvm'[t]) = {Now(nvm, t)}
  BY <1>5, <1>6, LinesDiffer DEF curTx, request
<1>8. PICK v : v = log[t][1].val
  OBVIOUS
<1>9. v \in Int /\ log[t] = FullLog(v) /\ Worth' = v
  <2>1. PICK l \in LogType : l = log[t]
    BY <1>1 DEF TypeFacts
  <2>2. v \in Int /\ log[t] = FullLog(v)
    BY <1>5, <1>8, <2>1, CompleteLogs
  <2>3. commits \in Seq(Int) /\ Len(commits) = curTx.seq
    BY <1>1 DEF TypeOK
  <2>4. Append(commits, v)[Len(commits) + 1] = v
    BY <2>2, <2>3
  <2>5. Worth' = commits'[new.seq]
    BY <1>7 DEF Worth
  <2>6. QED
    BY <1>1, <1>3, <1>8, <2>2, <2>3, <2>4, <2>5
<1>10. /\ Known \subseteq TransType
       /\ \A u \in Threads : /\ Serving(u) => Served(u) \in Known
                             /\ Begun(u) => th[u].myTx \in Known
       /\ \A c \in Known : /\ c.seq <= curTx.seq /\ request(c.idx) # c
                           /\ c # new
  <2>1. /\ Known \subseteq TransType
        /\ \A u \in Threads : /\ Serving(u) => Served(u) \in Known
                              /\ Begun(u) => th[u].myTx \in Known
    BY <1>1, KnownIs
  <2>2. ASSUME NEW c \in Known
        PROVE  c.seq <= curTx.seq /\ request(c.idx) # c /\ c # new
    <3>1. CASE c = curTx
      BY <1>3, <1>5, <3>1 DEF Closed
    <3>2. CASE c # curTx
      <4>1. c.seq < curTx.seq /\ request(c.idx) # c
        BY <3>2 DEF PInv, PastClosed
      <4>2. c.seq \in Nat
        BY <2>1 DEF TransType
      <4>3. QED
        BY <1>3, <4>1, <4>2
    <3>3. QED
      BY <3>1, <3>2
  <2>3. QED
    BY <2>1, <2>2
<1>11. \A u \in Threads \ {t} :
         /\ Serving(u)' = Serving(u) /\ Served(u)' = Served(u)
         /\ Begun(u)' = Begun(u) /\ Reading(u)' = Reading(u)
         /\ \A l : At(u, l)' = At(u, l)
  BY <1>4 DEF Serving, Served, Begun, Reading, NewTx, At
<1>12. Served(t)' = new /\ ~Begun(t)' /\ ~Reading(t)'
  <2>1. NewTx(t)' = new
    BY <1>2, <1>4 DEF NewTx
  <2>2. QED
    BY <1>4, <2>1 DEF Served, Begun, Reading, HelpLabels, ReaderLabels,
                      LogLabels, At
<1>13. Known' \subseteq Known \cup {new}
  <2>1. ASSUME NEW c \in Known'
        PROVE  c = new \/ c \in Known
    <3>1. \/ c = curTx'
          \/ \E u \in Threads : Serving(u)' /\ c = Served(u)'
          \/ \E u \in Threads : Begun(u)' /\ c = th'[u].myTx
      BY DEF Known
    <3>2. QED
      BY <1>4, <1>7, <1>10, <1>11, <1>12, <3>1
  <2>2. QED
    BY <2>1
<1>14. TypeOK'
  <2>1. \A u \in Threads : \A l \in DOMAIN pwb'[u] :
          l \in Lines /\ pwb'[u][l] \in Contents(l)
    BY <1>1, <1>6 DEF TypeOK
  <2>2. commits' \in Seq(Int) /\ Len(commits') = curTx'.seq
    BY <1>1, <1>3, <1>7, <1>8, <1>9 DEF TypeOK
  <2>3. QED
    BY <1>1, <1>4, <1>6, <2>1, <2>2 DEF TypeOK
<1>15. PastClosed'
  <2>1. SUFFICES ASSUME NEW c \in Known, c # new
                 PROVE  c.seq < new.seq /\ request(c.idx)' # c
    BY <1>7, <1>13 DEF PastClosed, request
  <2>2. c.idx \in Threads /\ c.seq \in Nat
    BY <1>10 DEF TransType
  <2>3. request(c.idx)' = request(c.idx)
    BY <1>7, <2>2
  <2>4. QED
    BY <1>3, <1>10, <2>2, <2>3
<1>16. OwnSeq'
  <2>1. SUFFICES ASSUME NEW u \in Threads, Begun(u)',
                        NEW c \in Known \cup {new}, c.idx = u
                 PROVE  c.seq <= th'[u].myTx.seq
    BY <1>13 DEF OwnSeq
  <2>2. u # t
    BY <1>12, <2>1
  <2>3. c \in Known
    BY <1>3, <2>1, <2>2
  <2>4. QED
    BY <1>4, <1>11, <2>1, <2>2, <2>3 DEF PInv, OwnSeq
<1>17. MemoryState' /\ ClosedIsPersistent' /\ OpenLogIsPersistent'
  <2>1. \A w \in Words : /\ Now(nvm', w).seq <= curTx.seq
                         /\ Now(nvm', w).seq \in Nat
    BY <1>1, <1>7 DEF PInv, MemoryState, TypeFacts
  <2>2. \A w \in Words : /\ Now(nvm', w).seq <= new.seq
                         /\ Now(nvm', w).seq # new.seq
    BY <1>3, <2>1
  <2>3. MemoryState'
    BY <1>7, <2>2 DEF MemoryState
  <2>4. ~Closed'
    BY <1>3, <1>5, <1>7 DEF Closed, request
  <2>5. ClosedIsPersistent'
    BY <2>4 DEF ClosedIsPersistent
  <2>6. Now(nvm, t).request = new /\ Now(nvm, t).plog = FullLog(v)
    BY <1>5, <1>9 DEF request
  <2>7. OpenLogIsPersistent'
    BY <1>3, <1>7, <1>9, <2>6 DEF OpenLogIsPersistent
  <2>8. QED
    BY <2>3, <2>5, <2>7
<1>18. ThreadState(t)'
  <2>1. ThreadOwns(t)'
    BY <1>1, <1>4, <1>7, <1>9, <1>12 DEF ThreadOwns
  <2>2. QED
    BY <1>4, <1>5, <1>12, <2>1
       DEF ThreadState, HelpLabels, LogLabels, ThreadCommit, At
<1>19. ASSUME NEW u \in Threads, u # t
       PROVE  ThreadState(u)'
  <2>1. /\ ThreadState(u) /\ th'[u] = th[u] /\ log'[u] = log[u]
        /\ pwb'[u] = pwb[u] /\ Now(nvm', u) = Now(nvm, u)
    BY <1>1, <1>4, <1>6, <1>7, <1>19 DEF PInv
  <2>2. Serving(u) => ~Current(u)' /\ ~Current(u)
    BY <1>5, <1>7, <1>10, <1>11, <1>19 DEF Current, IsOpen
  <2>3. ~(Reading(u)' /\ th'[u].myTx = curTx')
    BY <1>7, <1>10, <1>11, <1>19, <2>1 DEF Begun
  <2>4. ASSUME th[u].pc \in {"apply", "dcas", "close"}
        PROVE  ThreadApply(u)'
    <3>1. ThreadApply(u)
      BY <2>1, <2>4 DEF ThreadState
    <3>2. ~Current(u)' /\ ~Current(u)
      BY <2>2, <2>4 DEF Serving, HelpLabels
    <3>3. \A w \in Words : Applied(u, w) /\ Applied(u, w)'
      <4>1. \A w \in Words : Applied(u, w)
        BY <3>1, <3>2 DEF ThreadApply
      <4>2. QED
        BY <1>7, <2>1, <4>1 DEF Applied
    <3>4. th[u].i \in Nat /\ \A k \in Nat : EntryWord(u, k) \in Words
      BY <1>1, EntryWords DEF TypeFacts, LocalType
    <3>5. \A k \in 0 .. th'[u].i - 1 : Applied(u, EntryWord(u, k))'
      BY <2>1, <3>3, <3>4 DEF Applied, EntryWord
    <3>6. At(u, "dcas")' =>
            /\ th'[u].i < Len(Order)
            /\ th'[u].seq < th'[u].helpTx.seq
            /\ Applied(u, EntryWord(u, th[u].i))'
      BY <1>11, <1>19, <2>1, <3>1, <3>3, <3>4
         DEF ThreadApply, Applied, EntryWord
    <3>7. EntryWord(u, th[u].i)' = EntryWord(u, th[u].i)
      BY <2>1 DEF EntryWord
    <3>8. QED
      BY <2>1, <3>1, <3>2, <3>3, <3>5, <3>6, <3>7
         DEF ThreadApply, Applied, EntryWord
  <2>5. ThreadCommit(u)'
    BY <2>1 DEF ThreadState, ThreadCommit, request, NewTx, At
  <2>6. ThreadOwns(u)'
    BY <1>3, <1>7, <1>19 DEF ThreadOwns
  <2>7. th'[u].pc \in {"helpCurTx", "helpRequest"} => ~Current(u)'
    BY <2>1, <2>2 DEF Serving, HelpLabels
  <2>8. QED
    BY <2>1, <2>3, <2>4, <2>5, <2>6, <2>7 DEF ThreadState
<1>20. \A u \in Threads : ThreadState(u)'
  BY <1>18, <1>19
<1>21. QED
  BY <1>14, <1>15, <1>16, <1>17, <1>20 DEF PInv

(***************************************************************************)
(* The theorems.                                                           *)
(***************************************************************************)

LEMMA InitPInv ==
  ASSUME Init
  PROVE  PInv
<1>1. \A l \in Lines :
        /\ DOMAIN nvm = Lines
        /\ l = CurTxLine => nvm[l] = <<Trans(1, 0)>>
        /\ l \in Threads => nvm[l] = <<[request |-> NoTrans, plog |-> <<>>]>>
        /\ l \in Words => nvm[l] = <<[val |-> V0, seq |-> 0]>>
  BY LinesDiffer DEF Init
<1>2. /\ Trans(1, 0) \in TransType /\ NoTrans \in TransType /\ 0 \in Threads
      /\ V0 \in Int /\ <<>> \in LogType /\ CurTxLine \in Lines
      /\ DOMAIN nvm = Lines
  BY <1>1, LinesDiffer DEF Trans, NoTrans, TransType, Threads, LogType
<1>3. /\ Now(nvm, CurTxLine) = Trans(1, 0)
      /\ \A t \in Threads :
           Now(nvm, t) = [request |-> NoTrans, plog |-> <<>>]
      /\ \A w \in Words : /\ Now(nvm, w) = [val |-> V0, seq |-> 0]
                          /\ ToSet(nvm[w]) = {[val |-> V0, seq |-> 0]}
  <2>1. ASSUME NEW x
        PROVE  <<x>>[Len(<<x>>)] = x /\ ToSet(<<x>>) = {x}
    <3>1. DOMAIN <<x>> = {1} /\ Len(<<x>>) = 1 /\ <<x>>[1] = x
      OBVIOUS
    <3>2. QED
      BY <3>1 DEF ToSet
  <2>2. \A l \in Lines : \A x :
          nvm[l] = <<x>> => Now(nvm, l) = x /\ ToSet(nvm[l]) = {x}
    BY <2>1 DEF Now
  <2>3. QED
    BY <1>1, <1>2, <2>2, LinesDiffer
<1>4. /\ curTx = Trans(1, 0) /\ curTx.seq = 1 /\ curTx.idx = 0
      /\ \A t \in Threads : request(t) = NoTrans
  BY <1>3 DEF curTx, request, Trans
<1>5. NoTrans # Trans(1, 0)
  BY DEF NoTrans, Trans
<1>6. Closed /\ ~IsOpen
  BY <1>2, <1>4, <1>5 DEF Closed, IsOpen
<1>7. commits = <<V0>> /\ Worth = V0
  BY <1>4 DEF Init, Worth
<1>8. \A t \in Threads : /\ th[t] = Local /\ th[t].pc = "idle"
                         /\ th[t].i = 0
  BY DEF Init, Local
<1>9. \A t \in Threads : ~Serving(t) /\ ~Begun(t)
  BY <1>8 DEF Serving, Begun, Reading, HelpLabels, ReaderLabels, LogLabels
<1>10. Known = {curTx}
  BY <1>9 DEF Known
<1>11. TypeOK
  <2>1. Local \in LocalType
    BY <1>2 DEF Local, LocalType, Labels
  <2>2. th \in [Threads -> LocalType] /\ log \in [Threads -> LogType]
    BY <1>2, <2>1 DEF Init
  <2>3. DOMAIN pwb = Threads /\ \A t \in Threads : DOMAIN pwb[t] = {}
    BY DEF Init
  <2>4. Memory(nvm)
    <3>1. ASSUME NEW l \in Lines
          PROVE  nvm[l] \in Seq(Contents(l)) \ {<<>>}
      <4>1. ASSUME NEW S, NEW x \in S
            PROVE  <<x>> \in Seq(S) \ {<<>>}
        OBVIOUS
      <4>2. \E x \in Contents(l) : nvm[l] = <<x>>
        <5>1. CASE l = CurTxLine
          BY <1>1, <1>2, <5>1, ContentsOf
        <5>2. CASE l \in Threads
          BY <1>1, <1>2, <5>2, ContentsOf
        <5>3. CASE l \in Words
          BY <1>1, <1>2, <5>3, ContentsOf
        <5>4. QED
          BY <5>1, <5>2, <5>3 DEF Lines
      <4>3. QED
        BY <4>1, <4>2
    <3>2. QED
      BY <1>2, <3>1 DEF Memory
  <2>5. commits \in Seq(Int) /\ Len(commits) = curTx.seq /\ restarts \in Nat
    BY <1>2, <1>4, <1>7 DEF Init
  <2>6. QED
    BY <2>2, <2>3, <2>4, <2>5 DEF TypeOK
<1>12. PastClosed /\ OwnSeq
  BY <1>9, <1>10 DEF PastClosed, OwnSeq
<1>13. \A t \in Threads : ThreadState(t)
  BY <1>6, <1>8 DEF ThreadState, Reading, HelpLabels, ReaderLabels,
                    LogLabels, ThreadCommit, ThreadOwns, At
<1>14. MemoryState
  BY <1>3, <1>4, <1>6 DEF MemoryState
<1>15. ClosedIsPersistent /\ OpenLogIsPersistent
  BY <1>3, <1>6, <1>7 DEF ClosedIsPersistent, OpenLogIsPersistent
<1>16. QED
  BY <1>11, <1>12, <1>13, <1>14, <1>15 DEF PInv

LEMMA StepPInv ==
  ASSUME PInv, [Next]_vars
  PROVE  PInv'
<1>1. CASE UNCHANGED vars
  <2>1. TypeOK'
    BY <1>1 DEF vars, PInv, TypeOK, Memory, curTx
  <2>2. PastClosed' /\ OwnSeq'
    BY <1>1 DEF vars, PInv, PastClosed, OwnSeq, Known, Serving, Served, Begun,
       Reading, NewTx, At, curTx, request
  <2>3. MemoryState' /\ ClosedIsPersistent' /\ OpenLogIsPersistent'
    BY <1>1 DEF vars, PInv, MemoryState, ClosedIsPersistent,
       OpenLogIsPersistent, IsOpen, Closed, Worth, curTx, request
  <2>4. ASSUME NEW t \in Threads
        PROVE  ThreadState(t)'
    <3>1. ThreadState(t)
      BY DEF PInv
    <3>2. QED
      BY <1>1, <3>1 DEF vars, ThreadState, ThreadApply, ThreadCommit,
         ThreadOwns, Applied, EntryWord, Current, Served, Reading, NewTx, At,
         IsOpen, Closed, Worth, curTx, request
  <2>5. QED
    BY <2>1, <2>2, <2>3, <2>4 DEF PInv
<1>2. CASE \E t \in Threads : Run(t) \/ Die(t)
  <2>1. PICK t \in Threads : Run(t) \/ Die(t)
    BY <1>2
  <2>2. \/ Transaction(t) \/ BeginLoadCurTx(t) \/ BeginReset(t)
        \/ BeginRecheck(t) \/ (\E w \in Words : LoadVal(t, w))
        \/ LoadAbort(t) \/ LoadSeq(t) \/ CommitCheck(t) \/ CommitOpen(t)
        \/ PersistAndFlushLog(t) \/ CommitCas(t) \/ CommitCasFails(t)
        \/ CommitFlush(t) \/ Return(t) \/ HelpCheckRequest(t)
        \/ HelpCopy(t) \/ HelpCheckCurTx(t) \/ HelpRecheckRequest(t)
        \/ ApplyLoad(t) \/ ApplyDcas(t) \/ FlushModifications(t)
        \/ HelpClose(t) \/ Die(t)
    BY <2>1 DEF Run, BeginTx, Body, CommitTx, HelpApply
  <2>3. CASE CommitCas(t)
    BY <2>3, CommitCasKeeps
  <2>4. CASE ~CommitCas(t)
    <3>1. Keeps(t)
      BY <2>2, <2>4, TransactionKeeps, BeginLoadCurTxKeeps, BeginResetKeeps,
         BeginRecheckKeeps, LoadValKeeps, LoadAbortKeeps, LoadSeqKeeps,
         CommitCheckKeeps, CommitOpenKeeps, PersistAndFlushLogKeeps,
         CommitCasFailsKeeps, CommitFlushKeeps, ReturnKeeps,
         HelpCheckRequestKeeps, HelpCopyKeeps, HelpCheckCurTxKeeps,
         HelpRecheckRequestKeeps, ApplyLoadKeeps, ApplyDcasKeeps,
         FlushModificationsKeeps, HelpCloseKeeps, DieKeeps
    <3>2. QED
      BY <3>1, TameStep DEF Keeps
  <2>5. QED
    BY <2>3, <2>4
<1>3. QED
  BY <1>1, <1>2 DEF Next, Finished

\* The invariant of OneFilePTMLFInv holds in every state of the program,
\* whoever dies and wherever.
THEOREM PInvariance == Spec => []PInv
<1>1. Init => PInv
  BY InitPInv
<1>2. PInv /\ [Next]_vars => PInv'
  BY StepPInv
<1>3. QED
  BY <1>1, <1>2, PTL DEF Spec

\* Every variable has its type.
THEOREM PTypeCorrect == Spec => []TypeOK
<1>1. PInv => TypeOK
  BY DEF PInv
<1>2. QED
  BY <1>1, PInvariance, PTL

\* Whoever closes a request has made everything the transaction stored
\* persistent (helpApply, OneFilePTMLF.hpp:780-799).
THEOREM ClosedPersists == Spec => []ClosedIsPersistent
<1>1. PInv => ClosedIsPersistent
  BY DEF PInv
<1>2. QED
  BY <1>1, PInvariance, PTL

\* A transaction is not visible in curTx before its request and its redo log
\* are persistent (commitTx, OneFilePTMLF.hpp:661-668).
THEOREM OpenLogPersists == Spec => []OpenLogIsPersistent
<1>1. PInv => OpenLogIsPersistent
  BY DEF PInv
<1>2. QED
  BY <1>1, PInvariance, PTL
=============================================================================
