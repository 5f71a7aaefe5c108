---------------------------- MODULE WriteSetHash ----------------------------
(***************************************************************************)
(* struct WriteSet of OneFileLF.hpp and OneFileWF.hpp with the intrusive   *)
(* hash map that addOrReplace and lookupAddr use once the log is long:     *)
(* buckets point to the last entry of their hash, entries to the one       *)
(* before.  Neither is cleared between transactions: numStores = 0 is all  *)
(* that resets a write-set, and a copy of another thread's log overwrites  *)
(* entries, links included, without the buckets.  The loop over a chain is *)
(* taken one entry at a time.                                              *)
(***************************************************************************)
EXTENDS Integers, RedoLog

CONSTANTS
  TxMaxStores,    \* TX_MAX_STORES
  MaxArrayLookup, \* logs shorter than this are searched from the first entry
  HashBuckets,    \* HASH_BUCKETS
  Hash,           \* WriteSet::hash
  ChecksHead,     \* whether addOrReplace compares the hash of the first entry
                  \* with its own, as it does in OneFileWF
  CopiedEntries   \* what the entries of another thread's log may look like

Null == -1        \* nullptr
Foreign == -2     \* a pointer into another thread's log

Positions == 0 .. TxMaxStores - 1
Links == Positions \cup {Null, Foreign}
HashEntry == [addr : Words \cup {NoWord}, val : Vals, next : Links]

ASSUME WriteSetHashAssumption ==
  /\ TxMaxStores \in Nat \ {0}
  /\ MaxArrayLookup \in Nat
  /\ HashBuckets \in Nat \ {0}
  /\ Hash \in [Words -> 0 .. HashBuckets - 1]
  /\ ChecksHead \in BOOLEAN
  /\ CopiedEntries \subseteq HashEntry

VARIABLES
  numStores, log, buckets,  \* the write-set
  pc,   \* "idle", or the step of the call
  arg,  \* the call: its operation, address and value (lval of lookupAddr)
  be,   \* the entry it looks at
  ret   \* what lookupAddr returns

vars == <<numStores, log, buckets, pc, arg, be, ret>>
writeSet == <<numStores, log, buckets>>

NoCall == [op |-> "none", addr |-> NoWord, val |-> V0]

Init ==
  /\ numStores = 0
  /\ log = [i \in Positions |-> [addr |-> NoWord, val |-> V0, next |-> Null]]
  /\ buckets = [h \in 0 .. HashBuckets - 1 |-> TxMaxStores - 1]
  /\ pc = "idle"
  /\ arg = NoCall
  /\ be = Null
  /\ ret = V0

Live == 0 .. numStores - 1

\* An assertion of addOrReplace keeps transactions within the log.
Call(op, w, v) ==
  /\ pc = "idle"
  /\ numStores + 1 < TxMaxStores
  /\ pc' = "search"
  /\ arg' = [op |-> op, addr |-> w, val |-> v]
  /\ UNCHANGED <<writeSet, be, ret>>

SearchArray ==
  /\ pc = "search"
  /\ numStores < MaxArrayLookup
  /\ \/ \E i \in Live :
          /\ log[i].addr = arg.addr
          /\ \A j \in 0 .. i - 1 : log[j].addr # arg.addr
          /\ pc' = "found"
          /\ be' = i
     \/ /\ \A i \in Live : log[i].addr # arg.addr
        /\ pc' = "absent"
        /\ UNCHANGED be
  /\ UNCHANGED <<writeSet, arg, ret>>

\* Mutant: an entry of an earlier transaction will do.
HeadAsItIs(b) == log[b].addr \in Words /\ Hash[log[b].addr] = Hash[arg.addr]

\* Whether the entry a bucket points to is one of this transaction.
UsableHead(b) ==
  /\ b < numStores
  /\ arg.op = "lookup" \/ ChecksHead => Hash[log[b].addr] = Hash[arg.addr]

SearchBucket ==
  /\ pc = "search"
  /\ numStores >= MaxArrayLookup
  /\ LET b == buckets[Hash[arg.addr]]
     IN  IF UsableHead(b) THEN pc' = "walk" /\ be' = b
                          ELSE pc' = "absent" /\ UNCHANGED be
  /\ UNCHANGED <<writeSet, arg, ret>>

Walk ==
  /\ pc = "walk"
  /\ \/ /\ be = Null
        /\ pc' = "absent"
        /\ UNCHANGED be
     \/ /\ be \in Positions
        /\ log[be].addr = arg.addr
        /\ pc' = "found"
        /\ UNCHANGED be
     \/ /\ be \in Positions
        /\ log[be].addr # arg.addr
        /\ be' = log[be].next
        /\ UNCHANGED pc
  /\ UNCHANGED <<writeSet, arg, ret>>

EndOfCall ==
  /\ pc' = "idle"
  /\ arg' = NoCall
  /\ be' = Null
  /\ ret' = V0

Replace ==
  /\ pc = "found"
  /\ arg.op = "add"
  /\ log' = [log EXCEPT ![be].val = arg.val]
  /\ EndOfCall
  /\ UNCHANGED <<numStores, buckets>>

\* Mutant: the new entry is linked to whatever the bucket points to.
LinkAsItIs(e, b) == b

\* Mutant: off by one; the new entry's address is already in its place.
LinkToItself(e, b) ==
  IF b <= e /\ (b < e => Hash[log[b].addr] = Hash[arg.addr]) THEN b ELSE Null

\* The link of a new entry: none if the bucket is from an earlier transaction.
NextOf(e, b) ==
  IF b < e /\ Hash[log[b].addr] = Hash[arg.addr] THEN b ELSE Null

\* Mutant: the bucket goes on pointing to the entry before.
AppendOnly ==
  /\ pc = "absent"
  /\ arg.op = "add"
  /\ numStores' = numStores + 1
  /\ log' = [log EXCEPT ![numStores] =
               [addr |-> arg.addr, val |-> arg.val,
                next |-> NextOf(numStores, buckets[Hash[arg.addr]])]]
  /\ EndOfCall
  /\ UNCHANGED buckets

AppendEntry ==
  /\ pc = "absent"
  /\ arg.op = "add"
  /\ numStores' = numStores + 1
  /\ log' = [log EXCEPT ![numStores] =
               [addr |-> arg.addr, val |-> arg.val,
                next |-> NextOf(numStores, buckets[Hash[arg.addr]])]]
  /\ buckets' = [buckets EXCEPT ![Hash[arg.addr]] = numStores]
  /\ EndOfCall

LookupEnd ==
  /\ pc \in {"found", "absent"}
  /\ arg.op = "lookup"
  /\ pc' = "returned"
  /\ ret' = IF pc = "found" THEN log[be].val ELSE arg.val
  /\ UNCHANGED <<writeSet, arg, be>>

Return ==
  /\ pc = "returned"
  /\ EndOfCall
  /\ UNCHANGED writeSet

\* operator=, in helpApply, which is never followed by a call before a Reset.
CopyNum(n) ==
  /\ pc = "idle"
  /\ n < TxMaxStores
  /\ numStores' = n
  /\ pc' = IF n = 0 THEN "copied" ELSE "copy"
  /\ be' = 0
  /\ UNCHANGED <<log, buckets, arg, ret>>

CopyEntry(e) ==
  /\ pc = "copy"
  /\ log' = [log EXCEPT ![be] = e]
  /\ be' = be + 1
  /\ pc' = IF be + 1 = numStores THEN "copied" ELSE "copy"
  /\ UNCHANGED <<numStores, buckets, arg, ret>>

\* The next transaction: numStores = 0.
Reset ==
  /\ pc \in {"idle", "copied"}
  /\ numStores' = 0
  /\ pc' = "idle"
  /\ be' = Null
  /\ UNCHANGED <<log, buckets, arg, ret>>

Answer ==
  \/ SearchArray \/ SearchBucket \/ Walk \/ Replace \/ AppendEntry
  \/ LookupEnd \/ Return

Next ==
  \/ \E op \in {"add", "lookup"}, w \in Words, v \in Vals : Call(op, w, v)
  \/ Answer
  \/ \E n \in Positions : CopyNum(n)
  \/ \E e \in CopiedEntries : CopyEntry(e)
  \/ Reset

Spec == Init /\ [][Next]_vars
\* A call that has begun goes on.
FairSpec == Spec /\ WF_vars(Answer)

(***************************************************************************)
(* Properties.                                                             *)
(***************************************************************************)

\* Every variable has its type.
TypeOK ==
  /\ numStores \in Positions
  /\ log \in [Positions -> HashEntry]
  /\ buckets \in [0 .. HashBuckets - 1 -> Positions]
  /\ pc \in {"idle", "search", "walk", "found", "absent", "returned", "copy",
             "copied"}
  /\ arg \in [op : {"none", "add", "lookup"}, addr : Words \cup {NoWord},
              val : Vals]
  /\ be \in Int
  /\ ret \in Vals

\* The log as RedoLog has it.
Entries == [i \in 1 .. numStores |->
              [addr |-> log[i-1].addr, val |-> log[i-1].val]]

\* addOrReplace replaces the value of an entry if there is one for the address
\* in this transaction, else it appends one, whatever earlier transactions and
\* copies have left in entries and buckets (OneFileLF.hpp:292-327).
AddsLikeRedoLog ==
  [][arg.op = "add" /\ pc' = "idle" =>
       Entries' = AddOrReplace(Entries, arg.addr, arg.val)]_vars

\* lookupAddr returns the value of the last store of this transaction to the
\* address, or lval (lookupAddr, OneFileLF.hpp:329-350).
LooksUpLikeRedoLog ==
  pc = "returned" => ret = LookupAddr(Entries, arg.addr, arg.val)

\* A search looks only at entries of this transaction, in its own log
\* (OneFileLF.hpp:311-318, 338-346).
WalksOwnEntries == pc = "walk" => be \in Live \cup {Null}

\* Chains have no cycle: every call returns (OneFileLF.hpp:312-318, 341-344).
CallsEnd == pc = "search" ~> pc = "idle"

(***************************************************************************)
(* The inductive invariant.                                                *)
(***************************************************************************)

HashAt(i) == Hash[log[i].addr]

\* Entries of this transaction, one for each address, link to the entry before
\* of the same hash.
Chained(i) ==
  LET n == log[i].next
  IN  /\ log[i].addr \in Words
      /\ n < i
      /\ n # Null => n \in Live /\ HashAt(n) = HashAt(i)
      /\ \A j \in Live : n < j /\ j < i => HashAt(j) # HashAt(i)

\* The bucket of an entry of this transaction points to the last one.
Headed(i) ==
  LET b == buckets[HashAt(i)]
  IN  b \in Live /\ i <= b /\ HashAt(b) = HashAt(i)

Chains ==
  pc \notin {"copy", "copied"} =>
    \A i \in Live :
      /\ Chained(i)
      /\ Headed(i)
      /\ \A j \in Live : log[i].addr = log[j].addr => i = j

\* Where a search is, and what it has excluded.
Search ==
  /\ pc \in {"search", "walk", "found", "absent", "returned"} =>
       arg.op \in {"add", "lookup"} /\ arg.addr \in Words
  /\ pc \in {"search", "walk", "found", "absent"} =>
       numStores + 1 < TxMaxStores
  /\ pc = "copy" => be \in Live
  /\ pc \in {"idle", "copy", "copied"} => arg.op = "none"
  /\ pc = "returned" => arg.op = "lookup"
  /\ pc = "walk" =>
       /\ be \in Live \cup {Null}
       /\ \A i \in Live : log[i].addr = arg.addr =>
            i <= be /\ HashAt(be) = Hash[arg.addr]
  /\ pc = "found" => be \in Live /\ log[be].addr = arg.addr
  /\ pc = "absent" => \A i \in Live : log[i].addr # arg.addr

Inv == TypeOK /\ Chains /\ Search /\ LooksUpLikeRedoLog
=============================================================================
