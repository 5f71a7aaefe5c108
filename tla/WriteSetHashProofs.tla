------------------------- MODULE WriteSetHashProofs -------------------------
(***************************************************************************)
(* Proofs that the hash map of the write-set answers as a search of the    *)
(* redo log would, for any number of entries and buckets, any hash and     *)
(* any length of the array search, with and without a check of the hash of *)
(* the first entry in addOrReplace.                                        *)
(***************************************************************************)
EXTENDS WriteSetHash, TLAPS

USE RedoLogAssumption, WriteSetHashAssumption

\* The position of a word that is in a log.
LEMMA PositionFact ==
  ASSUME NEW redo, NEW w, Logged(redo, w)
  PROVE  Position(redo, w) \in DOMAIN redo /\ redo[Position(redo, w)].addr = w
BY DEF Logged, Position

\* Entries of this transaction are in the log.
LEMMA LiveEntries ==
  ASSUME TypeOK
  PROVE  /\ numStores \in Nat /\ numStores < TxMaxStores
         /\ Live \subseteq Positions
         /\ \A i \in Positions :
              i \in Live <=> i < numStores
BY DEF TypeOK, Live, Positions

LEMMA InitInv == Init => Inv
<1> SUFFICES ASSUME Init
             PROVE  Inv
  OBVIOUS
<1> USE DEF Init
<1>1. TypeOK
  BY DEF TypeOK, HashEntry, Links, Positions, NoCall, Null
<1>2. Chains
  BY DEF Chains, Live
<1>3. Search /\ LooksUpLikeRedoLog
  BY DEF Search, LooksUpLikeRedoLog, NoCall
<1>4. QED
  BY <1>1, <1>2, <1>3 DEF Inv

\* A step that leaves the write-set alone and does not copy keeps the chains.
LEMMA ChainsKept ==
  ASSUME Chains, pc \notin {"copy", "copied"}, UNCHANGED writeSet
  PROVE  Chains'
<1>1. Live' = Live /\ \A i : HashAt(i)' = HashAt(i)
  BY DEF Live, HashAt, writeSet
<1>2. \A i : (Chained(i)' <=> Chained(i)) /\ (Headed(i)' <=> Headed(i))
  BY <1>1 DEF Chained, Headed, writeSet
<1>3. QED
  BY <1>1, <1>2 DEF Chains, writeSet

LEMMA CallInv ==
  ASSUME Inv, NEW op \in {"add", "lookup"}, NEW w \in Words, NEW v \in Vals,
         Call(op, w, v)
  PROVE  Inv'
<1> USE DEF Call
<1>1. TypeOK'
  BY DEF Inv, TypeOK, writeSet
<1>2. Chains'
  BY ChainsKept DEF Inv
<1>3. Search' /\ LooksUpLikeRedoLog'
  BY DEF Search, LooksUpLikeRedoLog, writeSet
<1>4. QED
  BY <1>1, <1>2, <1>3 DEF Inv

\* The search of the array finds the entry of the address if there is one.
LEMMA SearchArrayInv ==
  ASSUME Inv, SearchArray
  PROVE  Inv'
<1> USE DEF SearchArray
<1>1. TypeOK'
  BY DEF Inv, TypeOK, writeSet, Live
<1>2. Chains'
  BY ChainsKept DEF Inv
<1>3. Search' /\ LooksUpLikeRedoLog'
  BY DEF Inv, Search, LooksUpLikeRedoLog, writeSet, Live
<1>4. QED
  BY <1>1, <1>2, <1>3 DEF Inv

\* A bucket that may not be used is the bucket of no entry of this transaction.
LEMMA SearchBucketInv ==
  ASSUME Inv, SearchBucket
  PROVE  Inv'
<1> DEFINE b == buckets[Hash[arg.addr]]
<1> USE DEF SearchBucket
<1>1. arg.op \in {"add", "lookup"} /\ arg.addr \in Words
  BY DEF Inv, Search
<1>2. Hash[arg.addr] \in 0 .. HashBuckets - 1
  BY <1>1
<1>3. b \in Positions /\ (b < numStores <=> b \in Live)
  BY <1>2, LiveEntries DEF Inv, TypeOK
<1>4. ASSUME NEW i \in Live, log[i].addr = arg.addr
      PROVE  /\ b \in Live /\ i <= b
             /\ Hash[log[b].addr] = Hash[arg.addr]
  BY <1>4 DEF Inv, Chains, Headed, HashAt
<1>5. TypeOK'
  BY <1>3 DEF Inv, TypeOK, writeSet, Positions
<1>6. Chains'
  BY ChainsKept DEF Inv
<1>7. LooksUpLikeRedoLog'
  BY DEF LooksUpLikeRedoLog
<1>8. Search'
  <2> HIDE DEF b
  <2>1. CASE UsableHead(b) /\ pc' = "walk" /\ be' = b
    <3>1. b \in Live
      BY <1>3, <2>1 DEF UsableHead
    <3>2. QED
      BY <1>1, <1>4, <2>1, <3>1 DEF Inv, Search, writeSet, Live, HashAt
  <2>2. CASE ~UsableHead(b) /\ pc' = "absent"
    <3>1. \A i \in Live : log[i].addr # arg.addr
      BY <1>3, <1>4, <2>2 DEF UsableHead
    <3>2. QED
      BY <1>1, <2>2, <3>1 DEF Inv, Search, writeSet, Live
  <2>3. QED
    BY <2>1, <2>2 DEF b
<1>9. QED
  BY <1>5, <1>6, <1>7, <1>8 DEF Inv

\* The next entry of a chain lies behind no entry that could still be met.
LEMMA WalkInv ==
  ASSUME Inv, Walk
  PROVE  Inv'
<1> USE DEF Walk
<1>1. /\ be \in Live \cup {Null}
      /\ arg.op \in {"add", "lookup"} /\ arg.addr \in Words
      /\ \A i \in Live : log[i].addr = arg.addr =>
           i <= be /\ HashAt(be) = Hash[arg.addr]
  BY DEF Inv, Search
<1>2. Chains'
  BY ChainsKept DEF Inv
<1>3. LooksUpLikeRedoLog'
  BY DEF LooksUpLikeRedoLog
<1>4. CASE be = Null /\ pc' = "absent" /\ UNCHANGED be
  <2>1. TypeOK'
    BY <1>4 DEF Inv, TypeOK, writeSet
  <2>2. Search'
    BY <1>1, <1>4 DEF Inv, Search, writeSet, Live, Null
  <2>3. QED
    BY <1>2, <1>3, <2>1, <2>2 DEF Inv
<1>5. CASE /\ be \in Positions /\ log[be].addr = arg.addr
           /\ pc' = "found" /\ UNCHANGED be
  <2>1. TypeOK'
    BY <1>5 DEF Inv, TypeOK, writeSet
  <2>2. be \in Live
    BY <1>1, <1>5 DEF Positions, Null
  <2>3. Search'
    BY <1>1, <1>5, <2>2 DEF Inv, Search, writeSet, Live
  <2>4. QED
    BY <1>2, <1>3, <2>1, <2>3 DEF Inv
<1>6. CASE /\ be \in Positions /\ log[be].addr # arg.addr
           /\ be' = log[be].next /\ UNCHANGED pc
  <2>1. be \in Live
    BY <1>1, <1>6 DEF Positions, Null
  <2>2. /\ log[be].next < be
        /\ log[be].next # Null =>
             log[be].next \in Live /\ HashAt(log[be].next) = HashAt(be)
        /\ \A j \in Live : log[be].next < j /\ j < be => HashAt(j) # HashAt(be)
    BY <2>1 DEF Inv, Chains, Chained
  <2>3. be' \in Live \cup {Null}
    BY <1>6, <2>2
  <2>4. be \in Int /\ be' \in Int /\ Live \subseteq Nat
    BY <2>1, <2>3 DEF Live, Null
  <2>5. ASSUME NEW i \in Live, log[i].addr = arg.addr
        PROVE  i <= be' /\ HashAt(be') = Hash[arg.addr]
    <3>1. i < be /\ HashAt(be) = Hash[arg.addr] /\ HashAt(i) = HashAt(be)
      BY <1>1, <1>6, <2>4, <2>5 DEF HashAt
    <3>2. i <= be'
      BY <1>6, <2>2, <2>4, <3>1
    <3>3. be' # Null
      BY <2>4, <3>2 DEF Null
    <3>4. QED
      BY <1>6, <2>2, <3>1, <3>2, <3>3
  <2>6. TypeOK'
    BY <1>6, <2>4 DEF Inv, TypeOK, writeSet
  <2>7. Search'
    BY <1>1, <1>6, <2>3, <2>5 DEF Inv, Search, writeSet, Live, HashAt
  <2>8. QED
    BY <1>2, <1>3, <2>6, <2>7 DEF Inv
<1>7. QED
  BY <1>4, <1>5, <1>6

\* addOrReplace changes the value of an entry, no address and no link.
LEMMA ReplaceInv ==
  ASSUME Inv, Replace
  PROVE  Inv'
<1> USE DEF Replace, EndOfCall
<1>1. be \in Live /\ arg.val \in Vals
  BY DEF Inv, Search, TypeOK
<1>2. be \in Positions
  BY <1>1, LiveEntries DEF Inv
<1>3. \A i \in Positions : /\ log[i] \in HashEntry
                           /\ log'[i].addr = log[i].addr
                           /\ log'[i].next = log[i].next
  BY <1>2 DEF Inv, TypeOK, HashEntry
<1>4. TypeOK'
  <2>1. [log[be] EXCEPT !.val = arg.val] \in HashEntry
    BY <1>1, <1>2, <1>3 DEF HashEntry
  <2>2. log' \in [Positions -> HashEntry]
    BY <2>1 DEF Inv, TypeOK
  <2>3. QED
    BY <2>2 DEF Inv, TypeOK, NoCall, Null
<1>5. Live' = Live /\ Live \subseteq Positions
  BY LiveEntries DEF Inv, Live
<1>6. Chains'
  <2>1. \A i \in Live : HashAt(i)' = HashAt(i)
    BY <1>3, <1>5 DEF HashAt
  <2>2. \A i \in Live : Chained(i) /\ Headed(i)
    BY DEF Inv, Chains
  <2>3. \A i \in Live : Chained(i)'
    BY <1>3, <1>5, <2>1, <2>2 DEF Chained
  <2>4. \A i \in Live : Headed(i)'
    BY <1>5, <2>1, <2>2 DEF Headed
  <2>5. \A i, j \in Live : log'[i].addr = log'[j].addr => i = j
    BY <1>3, <1>5 DEF Inv, Chains
  <2>6. QED
    BY <1>5, <2>3, <2>4, <2>5 DEF Chains
<1>7. Search' /\ LooksUpLikeRedoLog'
  BY DEF Search, LooksUpLikeRedoLog, NoCall
<1>8. QED
  BY <1>4, <1>6, <1>7 DEF Inv

\* A new entry is linked to the last one of its hash, and its bucket to it.
LEMMA AppendEntryInv ==
  ASSUME Inv, AppendEntry
  PROVE  Inv'
<1>0. PICK e : e = numStores
  OBVIOUS
<1> DEFINE h == Hash[arg.addr]
           b == buckets[h]
           n == NextOf(e, b)
           new == [addr |-> arg.addr, val |-> arg.val, next |-> n]
<1>1. /\ arg.addr \in Words /\ arg.val \in Vals
      /\ e \in Nat /\ e + 1 < TxMaxStores
      /\ h \in 0 .. HashBuckets - 1
      /\ b \in Positions
      /\ \A i \in Live : log[i].addr # arg.addr
  BY <1>0 DEF Inv, Search, TypeOK, AppendEntry, Positions
<1>2. /\ numStores' = e + 1 /\ pc' = "idle"
      /\ log' = [log EXCEPT ![e] = new]
      /\ buckets' = [buckets EXCEPT ![h] = e]
  BY <1>0 DEF AppendEntry, EndOfCall
<1> HIDE DEF h, b
<1>3. /\ n < e /\ n \in Links
      /\ n # Null => n = b /\ n \in Live /\ HashAt(n) = h
      /\ b \in Live /\ HashAt(b) = h => n = b
  BY <1>0, <1>1 DEF NextOf, Live, Links, Positions, Null, HashAt, h
<1> HIDE DEF n
<1>4. e \in Positions /\ e \notin Live /\ Live \subseteq Positions
  BY <1>0, <1>1, LiveEntries DEF Inv, Live, Positions
<1>5. TypeOK'
  <2>1. new \in HashEntry
    BY <1>1, <1>3 DEF HashEntry
  <2>2. log' \in [Positions -> HashEntry]
    BY <1>2, <2>1 DEF Inv, TypeOK
  <2>3. numStores' \in Positions
    BY <1>1, <1>2 DEF Positions
  <2>4. buckets' \in [0 .. HashBuckets - 1 -> Positions]
    BY <1>2, <1>4 DEF Inv, TypeOK
  <2>5. QED
    BY <2>2, <2>3, <2>4 DEF TypeOK, AppendEntry, EndOfCall, NoCall, Null
<1>6. /\ Live' = Live \cup {e}
      /\ \A i \in Live : log'[i] = log[i] /\ i \in Nat /\ i < e
      /\ log'[e] = new
      /\ \A k \in 0 .. HashBuckets - 1 :
           buckets'[k] = IF k = h THEN e ELSE buckets[k]
  BY <1>0, <1>1, <1>2, <1>4 DEF Inv, TypeOK, Live
<1>7. \A i \in Live : Chained(i) /\ Headed(i) /\ HashAt(i) \in 0 .. HashBuckets - 1
  BY DEF Inv, Chains, Chained, HashAt, AppendEntry
<1>8. /\ \A i \in Live : HashAt(i)' = HashAt(i)
      /\ HashAt(e)' = h
  BY <1>6 DEF HashAt, h
<1>9. ASSUME NEW i \in Live
      PROVE  Chained(i)' /\ Headed(i)'
  <2>1. Chained(i)'
    <3>1. \A j \in Live' : j < i => j \in Live
      BY <1>1, <1>6, <1>9
    <3>2. log[i].addr \in Words /\ log[i].next < i
      BY <1>7 DEF Chained
    <3>3. log[i].next # Null =>
            log[i].next \in Live /\ HashAt(log[i].next) = HashAt(i)
      BY <1>7 DEF Chained
    <3>4. \A j \in Live : log[i].next < j /\ j < i => HashAt(j) # HashAt(i)
      BY <1>7 DEF Chained
    <3>5. QED
      BY <1>6, <1>8, <3>1, <3>2, <3>3, <3>4 DEF Chained
  <2>2. Headed(i)'
    <3>1. /\ buckets[HashAt(i)] \in Live /\ i <= buckets[HashAt(i)]
          /\ HashAt(buckets[HashAt(i)]) = HashAt(i)
      BY <1>7 DEF Headed
    <3>2. CASE HashAt(i) = h
      <4>1. buckets'[HashAt(i)'] = e
        BY <1>6, <1>7, <1>8, <3>2
      <4>2. e \in Live' /\ i <= e /\ HashAt(e)' = HashAt(i)'
        BY <1>1, <1>6, <1>8, <3>2
      <4>3. QED
        BY <4>1, <4>2 DEF Headed
    <3>3. CASE HashAt(i) # h
      BY <1>6, <1>7, <1>8, <3>1, <3>3 DEF Headed
    <3>4. QED
      BY <3>2, <3>3
  <2>3. QED
    BY <2>1, <2>2
<1>10. Chained(e)'
  <2>1. ASSUME NEW j \in Live, n < j
        PROVE  HashAt(j) # h
    <3>1. SUFFICES ASSUME HashAt(j) = h
                   PROVE  FALSE
      OBVIOUS
    <3>2. b \in Live /\ j <= b /\ HashAt(b) = h
      BY <1>7, <3>1 DEF Headed, b
    <3>3. n = b
      BY <1>3, <3>2
    <3>4. j \in Nat /\ b \in Nat
      BY <3>2 DEF Live
    <3>5. QED
      BY <2>1, <3>2, <3>3, <3>4
  <2>2. \A j \in Live' : j < e => j \in Live
    BY <1>1, <1>6
  <2>3. QED
    BY <1>1, <1>3, <1>6, <1>8, <2>1, <2>2 DEF Chained
<1>11. Headed(e)'
  BY <1>1, <1>6, <1>8 DEF Headed
<1>12. \A i, j \in Live' : log'[i].addr = log'[j].addr => i = j
  <2>1. \A i, j \in Live : log[i].addr = log[j].addr => i = j
    BY DEF Inv, Chains, AppendEntry
  <2>2. QED
    BY <1>1, <1>6, <2>1
<1>13. Chains'
  BY <1>6, <1>9, <1>10, <1>11, <1>12 DEF Chains
<1>14. Search' /\ LooksUpLikeRedoLog'
  BY DEF Search, LooksUpLikeRedoLog, AppendEntry, EndOfCall, NoCall
<1>15. QED
  BY <1>5, <1>13, <1>14 DEF Inv

\* What a search has found is what RedoLog's lookup returns.
LEMMA FoundEntry ==
  ASSUME Inv, NEW i \in Live, log[i].addr = arg.addr, pc = "found"
  PROVE  /\ Logged(Entries, arg.addr)
         /\ Position(Entries, arg.addr) = i + 1
<1>1. numStores \in Nat /\ i \in Nat /\ i < numStores
  BY LiveEntries DEF Inv, Live
<1>2. i + 1 \in DOMAIN Entries /\ Entries[i + 1].addr = arg.addr
  BY <1>1 DEF Entries
<1>3. Logged(Entries, arg.addr)
  BY <1>2 DEF Logged
<1>4. \A k \in DOMAIN Entries : Entries[k].addr = arg.addr => k = i + 1
  <2>1. \A j \in Live : log[j].addr = log[i].addr => j = i
    BY DEF Inv, Chains
  <2>2. ASSUME NEW k \in DOMAIN Entries, Entries[k].addr = arg.addr
        PROVE  k = i + 1
    <3>1. k - 1 \in Live /\ log[k-1].addr = arg.addr /\ k \in Nat
      BY <1>1, <2>2 DEF Entries, Live
    <3>2. k - 1 = i
      BY <2>1, <3>1
    <3>3. QED
      BY <1>1, <3>1, <3>2
  <2>3. QED
    BY <2>2
<1>5. QED
  BY <1>3, <1>4, PositionFact

LEMMA NoEntry ==
  ASSUME Inv, pc = "absent"
  PROVE  ~Logged(Entries, arg.addr)
<1>1. \A i \in Live : log[i].addr # arg.addr
  BY DEF Inv, Search
<1>2. numStores \in Nat
  BY LiveEntries DEF Inv
<1>3. \A k \in DOMAIN Entries : k - 1 \in Live /\ Entries[k].addr = log[k-1].addr
  BY <1>2 DEF Entries, Live
<1>4. QED
  BY <1>1, <1>3 DEF Logged

LEMMA LookupEndInv ==
  ASSUME Inv, LookupEnd
  PROVE  Inv'
<1> USE DEF LookupEnd
<1>1. pc = "found" => be \in Live /\ log[be].addr = arg.addr
  BY DEF Inv, Search
<1>2. TypeOK'
  <2>1. pc = "found" => log[be].val \in Vals
    BY <1>1, LiveEntries DEF Inv, TypeOK, HashEntry
  <2>2. arg.val \in Vals
    BY DEF Inv, TypeOK
  <2>3. QED
    BY <2>1, <2>2 DEF Inv, TypeOK, writeSet
<1>3. Chains'
  BY ChainsKept DEF Inv
<1>4. Search'
  BY DEF Inv, Search
<1>5. LooksUpLikeRedoLog'
  <2>1. Entries' = Entries
    BY DEF Entries, writeSet
  <2>2. ret' = LookupAddr(Entries, arg.addr, arg.val)
    <3>1. CASE pc = "found"
      <4>1. Logged(Entries, arg.addr) /\ Position(Entries, arg.addr) = be + 1
        BY <1>1, <3>1, FoundEntry
      <4>2. Entries[be + 1].val = log[be].val
        BY <1>1, <3>1, LiveEntries DEF Inv, Entries, Live
      <4>3. QED
        BY <3>1, <4>1, <4>2 DEF LookupAddr
    <3>2. CASE pc = "absent"
      BY <3>2, NoEntry DEF LookupAddr
    <3>3. QED
      BY <3>1, <3>2
  <2>3. QED
    BY <2>1, <2>2 DEF LooksUpLikeRedoLog
<1>6. QED
  BY <1>2, <1>3, <1>4, <1>5 DEF Inv

LEMMA ReturnInv ==
  ASSUME Inv, Return
  PROVE  Inv'
<1> USE DEF Return, EndOfCall, NoCall
<1>1. TypeOK'
  BY DEF Inv, TypeOK, writeSet, Null
<1>2. Chains'
  BY ChainsKept DEF Inv
<1>3. Search' /\ LooksUpLikeRedoLog'
  BY DEF Search, LooksUpLikeRedoLog
<1>4. QED
  BY <1>1, <1>2, <1>3 DEF Inv

\* A copy may break the chains; no call follows before the log is empty.
LEMMA CopyInv ==
  ASSUME Inv,
         \/ \E n \in Positions : CopyNum(n)
         \/ \E e \in CopiedEntries : CopyEntry(e)
  PROVE  Inv'
<1>1. ASSUME NEW n \in Positions, CopyNum(n)
      PROVE  Inv'
  <2> USE <1>1 DEF CopyNum
  <2>1. TypeOK'
    BY DEF Inv, TypeOK
  <2>2. Chains'
    BY DEF Chains
  <2>3. Search' /\ LooksUpLikeRedoLog'
    BY DEF Inv, Search, LooksUpLikeRedoLog, Live, Positions
  <2>4. QED
    BY <2>1, <2>2, <2>3 DEF Inv
<1>2. ASSUME NEW e \in CopiedEntries, CopyEntry(e)
      PROVE  Inv'
  <2> USE <1>2 DEF CopyEntry
  <2>1. be \in Live /\ numStores \in Nat
    BY LiveEntries DEF Inv, Search
  <2>2. TypeOK'
    <3>1. log' \in [Positions -> HashEntry]
      BY DEF Inv, TypeOK
    <3>2. be' \in Int
      BY <2>1 DEF Live
    <3>3. QED
      BY <3>1, <3>2 DEF Inv, TypeOK
  <2>3. Chains'
    BY DEF Chains
  <2>4. Search' /\ LooksUpLikeRedoLog'
    BY <2>1 DEF Inv, Search, LooksUpLikeRedoLog, Live
  <2>5. QED
    BY <2>2, <2>3, <2>4 DEF Inv
<1>3. QED
  BY <1>1, <1>2

LEMMA ResetInv ==
  ASSUME Inv, Reset
  PROVE  Inv'
<1> USE DEF Reset
<1>1. TypeOK'
  BY DEF Inv, TypeOK, Null, Positions
<1>2. Chains'
  BY DEF Chains, Live
<1>3. Search' /\ LooksUpLikeRedoLog'
  BY DEF Inv, Search, LooksUpLikeRedoLog
<1>4. QED
  BY <1>1, <1>2, <1>3 DEF Inv

LEMMA NextInv == Inv /\ [Next]_vars => Inv'
<1> SUFFICES ASSUME Inv, [Next]_vars
             PROVE  Inv'
  OBVIOUS
<1>1. CASE Answer
  BY <1>1, SearchArrayInv, SearchBucketInv, WalkInv, ReplaceInv,
     AppendEntryInv, LookupEndInv, ReturnInv DEF Answer
<1>2. CASE UNCHANGED vars
  <2>1. TypeOK'
    BY <1>2 DEF vars, Inv, TypeOK
  <2>2. Chains'
    <3>1. CASE pc \in {"copy", "copied"}
      BY <1>2, <3>1 DEF vars, Chains
    <3>2. CASE pc \notin {"copy", "copied"}
      BY <1>2, <3>2, ChainsKept DEF vars, writeSet, Inv
    <3>3. QED
      BY <3>1, <3>2
  <2>3. Search'
    BY <1>2 DEF vars, Inv, Search, HashAt, Live
  <2>4. LooksUpLikeRedoLog'
    BY <1>2 DEF vars, Inv, LooksUpLikeRedoLog, Entries
  <2>5. QED
    BY <2>1, <2>2, <2>3, <2>4 DEF Inv
<1>3. QED
  BY <1>1, <1>2, CallInv, CopyInv, ResetInv DEF Next

\* In every reachable state the chains link the entries of this transaction and
\* a search has excluded what it has passed.
THEOREM Invariance == Spec => []Inv
<1>1. QED
  BY InitInv, NextInv, PTL DEF Spec

\* lookupAddr finds the last store of the transaction to an address, however
\* many transactions and copies the write-set has been through.
THEOREM LookupsAreRight == Spec => []LooksUpLikeRedoLog
<1>1. Inv => LooksUpLikeRedoLog
  BY DEF Inv
<1>2. QED
  BY <1>1, Invariance, PTL

\* No search leaves the entries of the transaction.
THEOREM WalksStayInside == Spec => []WalksOwnEntries
<1>1. Inv => WalksOwnEntries
  BY DEF Inv, Search, WalksOwnEntries
<1>2. QED
  BY <1>1, Invariance, PTL

LEMMA ReplaceAdds ==
  ASSUME Inv, Replace
  PROVE  Entries' = AddOrReplace(Entries, arg.addr, arg.val)
<1> DEFINE new == [addr |-> arg.addr, val |-> arg.val]
<1>1. be \in Live /\ log[be].addr = arg.addr /\ pc = "found"
  BY DEF Inv, Search, Replace
<1>2. Logged(Entries, arg.addr) /\ Position(Entries, arg.addr) = be + 1
  BY <1>1, FoundEntry
<1>3. numStores \in Nat /\ Live \subseteq Positions /\ be \in Nat
  BY <1>1, LiveEntries DEF Inv, Live
<1>4. \A k \in 1 .. numStores : k - 1 \in Positions
  BY <1>3 DEF Live
<1>5. \A i \in Positions : /\ log'[i].addr = log[i].addr
                           /\ log'[i].val = IF i = be THEN arg.val ELSE log[i].val
  BY DEF Replace, Inv, TypeOK, HashEntry
<1>6. numStores' = numStores
  BY DEF Replace
<1>7. Entries' = [k \in 1 .. numStores |->
                    [addr |-> log'[k-1].addr, val |-> log'[k-1].val]]
  BY <1>6 DEF Entries
<1>8. \A k \in 1 .. numStores :
        Entries'[k] = IF k = be + 1 THEN new ELSE Entries[k]
  <2> SUFFICES ASSUME NEW k \in 1 .. numStores
               PROVE  Entries'[k] = IF k = be + 1 THEN new ELSE Entries[k]
    OBVIOUS
  <2>1. k - 1 \in Positions /\ (k = be + 1 <=> k - 1 = be)
    BY <1>3, <1>4
  <2>2. Entries'[k] = [addr |-> log[k-1].addr,
                       val |-> IF k - 1 = be THEN arg.val ELSE log[k-1].val]
    BY <1>5, <1>7, <2>1
  <2>3. Entries[k] = [addr |-> log[k-1].addr, val |-> log[k-1].val]
    BY DEF Entries
  <2>4. QED
    BY <1>1, <2>1, <2>2, <2>3
<1>9. AddOrReplace(Entries, arg.addr, arg.val) = [Entries EXCEPT ![be + 1] = new]
  BY <1>2 DEF AddOrReplace
<1>10. [Entries EXCEPT ![be + 1] = new] =
         [k \in 1 .. numStores |-> IF k = be + 1 THEN new ELSE Entries[k]]
  BY DEF Entries
<1>11. Entries' = [k \in 1 .. numStores |-> IF k = be + 1 THEN new ELSE Entries[k]]
  BY <1>7, <1>8
<1>12. QED
  BY <1>9, <1>10, <1>11

LEMMA AppendAdds ==
  ASSUME Inv, AppendEntry
  PROVE  Entries' = AddOrReplace(Entries, arg.addr, arg.val)
<1> DEFINE new == [addr |-> arg.addr, val |-> arg.val]
<1>1. numStores \in Nat /\ numStores < TxMaxStores /\ numStores' = numStores + 1
  BY LiveEntries DEF Inv, AppendEntry
<1>2. ~Logged(Entries, arg.addr)
  BY NoEntry DEF AppendEntry
<1>3. \A i \in 0 .. numStores - 1 : log'[i] = log[i]
  BY <1>1 DEF AppendEntry, Inv, TypeOK, Positions
<1>4. log'[numStores].addr = arg.addr /\ log'[numStores].val = arg.val
  BY <1>1 DEF AppendEntry, Inv, TypeOK, Positions
<1>5. Entries' = [k \in 1 .. numStores + 1 |->
                    [addr |-> log'[k-1].addr, val |-> log'[k-1].val]]
  BY <1>1 DEF Entries
<1>6. Entries' = [k \in 1 .. numStores + 1 |->
                    IF k = numStores + 1 THEN new ELSE Entries[k]]
  <2>1. \A k \in 1 .. numStores + 1 :
          Entries'[k] = IF k = numStores + 1 THEN new ELSE Entries[k]
    BY <1>1, <1>3, <1>4, <1>5 DEF Entries
  <2>2. QED
    BY <1>5, <2>1
<1>7. AddOrReplace(Entries, arg.addr, arg.val) = Append(Entries, new)
  BY <1>2 DEF AddOrReplace
<1>8. Append(Entries, new) = [k \in 1 .. numStores + 1 |->
                                IF k = numStores + 1 THEN new ELSE Entries[k]]
  <2>1. Entries \in Seq([addr : Words \cup {NoWord}, val : Vals])
    <3>1. \A k \in 1 .. numStores : log[k-1] \in HashEntry
      BY <1>1 DEF Inv, TypeOK, Positions
    <3>2. QED
      BY <1>1, <3>1 DEF Entries, HashEntry
  <2>2. Len(Entries) = numStores
    BY <1>1 DEF Entries
  <2>3. QED
    BY <1>1, <2>1, <2>2
<1>9. QED
  BY <1>6, <1>7, <1>8

\* addOrReplace does to the entries of the transaction what RedoLog's does.
THEOREM AddsAreRight == Spec => AddsLikeRedoLog
<1>1. ASSUME Inv, [Next]_vars, arg.op = "add", pc' = "idle", ~UNCHANGED vars
      PROVE  Entries' = AddOrReplace(Entries, arg.addr, arg.val)
  <2>1. pc \notin {"idle", "copied", "copy", "returned"}
    BY <1>1 DEF Inv, Search
  <2>2. Replace \/ AppendEntry
    BY <1>1, <2>1 DEF Next, Answer, Call, SearchArray, SearchBucket, Walk,
       LookupEnd, Return, CopyNum, CopyEntry, Reset
  <2>3. QED
    BY <1>1, <2>2, ReplaceAdds, AppendAdds
<1>2. Inv /\ [Next]_vars =>
        [arg.op = "add" /\ pc' = "idle" =>
           Entries' = AddOrReplace(Entries, arg.addr, arg.val)]_vars
  BY <1>1
<1>3. QED
  BY <1>2, Invariance, PTL DEF Spec, AddsLikeRedoLog

=============================================================================
