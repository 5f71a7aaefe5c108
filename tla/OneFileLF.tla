----------------------------- MODULE OneFileLF -----------------------------
(***************************************************************************)
(* The lock-free OneFile STM (stms/OneFileLF.hpp) over a fixed set of      *)
(* words: transaction(), beginTx, commitTx, helpApply, pload and pstore,   *)
(* one action per access to memory that another thread can see.  What is   *)
(* allocated and freed is the business of OneFileLFMem.                    *)
(*                                                                         *)
(* A transaction publishes itself by moving curTx from the transaction it  *)
(* started from to <seq+1, tid>.  From then on its write-set is applied by *)
(* whoever gets there: its owner, and every thread that wants to begin and *)
(* finds its request open.  A word carries the sequence of the transaction *)
(* that last wrote it, and is written by a double-word compare-and-swap of *)
(* value and sequence.                                                     *)
(***************************************************************************)
EXTENDS Integers, Sequences, RedoLog

CONSTANTS
  InitImage, \* what the words hold before the first transaction
  N,       \* number of registered threads; their tids are 0 .. N-1
  MaxTx,   \* MaxTx[t]: how many transactions thread t calls
  MaxOps,  \* MaxOps[t][k]: how many loads, stores, allocations and deletes an
           \* attempt at the k-th transaction of t makes at most
  Fair     \* the threads that are never descheduled for ever

Threads == 0 .. N-1

ASSUME OneFileLFAssumption ==
  /\ N \in Nat \ {0}
  /\ MaxTx \in [Threads -> Nat]
  /\ InitImage \in [Words -> Vals]
  /\ Fair \subseteq Threads

ASSUME MaxOpsAssumption ==
  /\ MaxOps \in [Threads -> Seq(Nat)]
  /\ \A t \in Threads : Len(MaxOps[t]) = MaxTx[t]

VARIABLES
  (* shared *)
  curTx,      \* the last transaction published
  request,    \* OpData::request of each thread
  mem,        \* the words: value and sequence
  log,        \* WriteSet of each thread: log[0 .. numStores-1]
  he,         \* the hazard era each thread has published
  (* local to each thread *)
  pc,         \* the step the thread is about to take
  myTx,       \* OpData::curTx, read in beginTx
  helpTx,     \* the argument lcurTx of helpApply
  pos,        \* the loop index of the copy and of WriteSet::apply
  addr,       \* the word pload is working on
  lval,       \* the value loaded by pload or apply
  lseq,       \* the sequence loaded by apply
  numRetires, \* OpData::numRetires
  ops,        \* operations made by the attempt so far
  left,       \* transactions the thread has still to call
  (* history *)
  cmem,       \* the words as the published transactions leave them
  snap        \* cmem when the attempt of a thread began

shared == <<curTx, request, mem, log, he>>
vars == <<curTx, request, mem, log, he, pc, myTx, helpTx, pos, addr, lval,
          lseq, numRetires, ops, left, cmem, snap>>

\* The pair <seq, idx> that a transaction identifier packs into 64 bits.
Trans(seq, idx) == [seq |-> seq, idx |-> idx]
NoTrans == Trans(0, 0)
NOERA == 0

Init ==
  /\ curTx = Trans(1, 0)
  /\ request = [t \in Threads |-> NoTrans]
  /\ mem = [w \in Words |-> [val |-> InitImage[w], seq |-> 1]]
  /\ log = [t \in Threads |-> <<>>]
  /\ he = [t \in Threads |-> NOERA]
  /\ pc = [t \in Threads |-> "idle"]
  /\ myTx = [t \in Threads |-> NoTrans]
  /\ helpTx = [t \in Threads |-> NoTrans]
  /\ pos = [t \in Threads |-> 0]
  /\ addr = [t \in Threads |-> NoWord]
  /\ lval = [t \in Threads |-> V0]
  /\ lseq = [t \in Threads |-> 0]
  /\ numRetires = [t \in Threads |-> 0]
  /\ ops = [t \in Threads |-> 0]
  /\ left = MaxTx
  /\ cmem = InitImage
  /\ snap = [t \in Threads |-> InitImage]

Step(t, from, to) ==
  /\ pc[t] = from
  /\ pc' = [pc EXCEPT ![t] = to]

(* Definitions whose comment says "Mutant" are no part of the model: they  *)
(* are what the definition after them would be with a plausible mistake in *)
(* the code, and show that a property would catch it.                      *)

(***************************************************************************)
(* transaction() and beginTx.                                              *)
(***************************************************************************)

\* Local variables are cleared when their values are dead.
ForgetAttempt(t) ==
  /\ myTx' = [myTx EXCEPT ![t] = NoTrans]
  /\ helpTx' = [helpTx EXCEPT ![t] = NoTrans]
  /\ numRetires' = [numRetires EXCEPT ![t] = 0]
  /\ ops' = [ops EXCEPT ![t] = 0]
  /\ snap' = [snap EXCEPT ![t] = InitImage]

\* The prologue of beginTx, also run when an attempt has to be repeated.
Restart(t, from) ==
  /\ Step(t, from, "begin")
  /\ ForgetAttempt(t)
  /\ addr' = [addr EXCEPT ![t] = NoWord]
  /\ lval' = [lval EXCEPT ![t] = V0]

Transaction(t) ==
  /\ left[t] > 0
  /\ Restart(t, "idle")
  /\ UNCHANGED <<curTx, request, mem, log, he, pos, lseq, left,
                 cmem>>

\* myopd.curTx = curTx.load(); helpApply(myopd.curTx, tid)
BeginLoadCurTx(t) ==
  /\ Step(t, "begin", "chkRequest")
  /\ myTx' = [myTx EXCEPT ![t] = curTx]
  /\ helpTx' = [helpTx EXCEPT ![t] = curTx]
  /\ UNCHANGED <<curTx, request, mem, log, he, pos, addr, lval, lseq,
                 numRetires, ops, left, cmem, snap>>

\* writeSets[tid].numStores = 0
BeginReset(t) ==
  /\ Step(t, "reset", "setEra")
  /\ log' = [log EXCEPT ![t] = <<>>]
  /\ UNCHANGED <<curTx, request, mem, he, myTx, helpTx, pos, addr, lval, lseq,
                 numRetires, ops, left, cmem, snap>>

BeginSetEra(t) ==
  /\ Step(t, "setEra", "recheck")
  /\ he' = [he EXCEPT ![t] = myTx[t].seq]
  /\ UNCHANGED <<curTx, request, mem, log, myTx, helpTx, pos, addr, lval, lseq,
                 numRetires, ops, left, cmem, snap>>

\* The attempt begins if curTx has not moved while the era was published.
BeginRecheck(t) ==
  /\ Step(t, "recheck", IF myTx[t] = curTx THEN "body" ELSE "begin")
  /\ snap' = [snap EXCEPT ![t] = IF myTx[t] = curTx THEN cmem ELSE @]
  /\ UNCHANGED <<curTx, request, mem, log, he, myTx, helpTx, pos, addr, lval,
                 lseq, numRetires, ops, left, cmem>>

(***************************************************************************)
(* helpApply(helpTx[t], t), called by beginTx for curTx and by commitTx    *)
(* for the transaction t has just published.                               *)
(***************************************************************************)

Helped(t) == helpTx[t].idx
CalledByCommit(t) == helpTx[t] # myTx[t]
AfterHelp(t) == IF CalledByCommit(t) THEN "retire" ELSE "reset"

HelpCheckRequest(t) ==
  /\ Step(t, "chkRequest",
          IF request[Helped(t)] # helpTx[t] THEN AfterHelp(t)
          ELSE IF Helped(t) # t THEN "copyNum"
          ELSE IF log[t] = <<>> THEN "close" ELSE "applyVal")
  /\ UNCHANGED <<curTx, request, mem, log, he, myTx, helpTx, pos, addr, lval,
                 lseq, numRetires, ops, left, cmem, snap>>

\* The copy of the write-set: first numStores, which leaves whatever the log
\* of t held in its first entries ...
HelpCopyNum(t) ==
  /\ Step(t, "copyNum",
          IF log[Helped(t)] = <<>> THEN "helpEra" ELSE "copyEntry")
  /\ log' = [log EXCEPT ![t] = [i \in 1 .. Len(log[Helped(t)]) |-> Garbage]]
  /\ UNCHANGED <<curTx, request, mem, he, myTx, helpTx, pos, addr, lval, lseq,
                 numRetires, ops, left, cmem, snap>>

\* ... then the entries, without synchronization: the thread whose log it is
\* may be in the midst of writing it.
MayBeWriting(o) == pc[o] \in {"copyNum", "copyEntry", "reset", "body"}
EntryAt(o, i) == IF i \in DOMAIN log[o] THEN log[o][i] ELSE Garbage

HelpCopyEntry(t) ==
  /\ Step(t, "copyEntry",
          IF pos[t] + 1 = Len(log[t]) THEN "helpEra" ELSE "copyEntry")
  /\ \E e \in {EntryAt(Helped(t), pos[t] + 1)}
              \cup (IF MayBeWriting(Helped(t)) THEN {Garbage} ELSE {}) :
       log' = [log EXCEPT ![t][pos[t] + 1] = e]
  /\ pos' = [pos EXCEPT ![t] = IF @ + 1 = Len(log[t]) THEN 0 ELSE @ + 1]
  /\ UNCHANGED <<curTx, request, mem, he, myTx, helpTx, addr, lval, lseq,
                 numRetires, ops, left, cmem, snap>>

HelpSetEra(t) ==
  /\ Step(t, "helpEra", "chkCurTx")
  /\ he' = [he EXCEPT ![t] = helpTx[t].seq]
  /\ UNCHANGED <<curTx, request, mem, log, myTx, helpTx, pos, addr, lval, lseq,
                 numRetires, ops, left, cmem, snap>>

HelpCheckCurTx(t) ==
  /\ Step(t, "chkCurTx",
          IF helpTx[t] # curTx THEN AfterHelp(t) ELSE "rechkRequest")
  /\ UNCHANGED <<curTx, request, mem, log, he, myTx, helpTx, pos, addr, lval,
                 lseq, numRetires, ops, left, cmem, snap>>

\* Mutant: the request is not looked at again once the era is published.
HelpRecheckNothing(t) ==
  /\ Step(t, "rechkRequest", IF log[t] = <<>> THEN "close" ELSE "applyVal")
  /\ UNCHANGED <<curTx, request, mem, log, he, myTx, helpTx, pos, addr, lval,
                 lseq, numRetires, ops, left, cmem, snap>>

HelpRecheckRequest(t) ==
  /\ Step(t, "rechkRequest",
          IF request[Helped(t)] # helpTx[t] THEN AfterHelp(t)
          ELSE IF log[t] = <<>> THEN "close" ELSE "applyVal")
  /\ UNCHANGED <<curTx, request, mem, log, he, myTx, helpTx, pos, addr, lval,
                 lseq, numRetires, ops, left, cmem, snap>>

\* Mutant: the loop starts over at the first entry instead of wrapping around.
ApplyIndexNoWrap(t, i, n) == IF t * 8 + i < n THEN t * 8 + i ELSE 0

\* WriteSet::apply: every thread starts at an entry of its own.
ApplyIndex(t, i, n) == (t * 8 + i) % n
ApplyEntry(t) == log[t][ApplyIndex(t, pos[t], Len(log[t])) + 1]

ApplyLoadVal(t) ==
  /\ Step(t, "applyVal", "applySeq")
  /\ ApplyEntry(t).addr \in Words
  /\ lval' = [lval EXCEPT ![t] = mem[ApplyEntry(t).addr].val]
  /\ UNCHANGED <<curTx, request, mem, log, he, myTx, helpTx, pos, addr, lseq,
                 numRetires, ops, left, cmem, snap>>

\* Mutant: the loop ends one entry early.
NextEntryButLast(t, from) ==
  /\ Step(t, from, IF pos[t] + 2 >= Len(log[t]) THEN "close" ELSE "applyVal")
  /\ pos' = [pos EXCEPT ![t] = IF @ + 2 >= Len(log[t]) THEN 0 ELSE @ + 1]
  /\ lval' = [lval EXCEPT ![t] = V0]
  /\ lseq' = [lseq EXCEPT ![t] = 0]

\* The loop of apply moves on to the next entry.
NextEntry(t, from) ==
  /\ Step(t, from, IF pos[t] + 1 = Len(log[t]) THEN "close" ELSE "applyVal")
  /\ pos' = [pos EXCEPT ![t] = IF @ + 1 = Len(log[t]) THEN 0 ELSE @ + 1]
  /\ lval' = [lval EXCEPT ![t] = V0]
  /\ lseq' = [lseq EXCEPT ![t] = 0]

\* Mutants: every word is written; words of the last transaction are not.
ToApplyAlways(t) == mem[ApplyEntry(t).addr].seq >= 0
ToApplyOlder(t) == mem[ApplyEntry(t).addr].seq + 1 < helpTx[t].seq

\* A word that has this transaction's sequence, or a later one, is left alone.
ToApply(t) == mem[ApplyEntry(t).addr].seq < helpTx[t].seq

ApplyLoadSeq(t) ==
  /\ pc[t] = "applySeq"
  /\ \/ /\ ToApply(t)
        /\ Step(t, "applySeq", "applyDcas")
        /\ lseq' = [lseq EXCEPT ![t] = mem[ApplyEntry(t).addr].seq]
        /\ UNCHANGED <<pos, lval>>
     \/ /\ ~ToApply(t)
        /\ NextEntry(t, "applySeq")
  /\ UNCHANGED <<curTx, request, mem, log, he, myTx, helpTx, addr, numRetires,
                 ops, left, cmem, snap>>

ApplyDcas(t) ==
  /\ NextEntry(t, "applyDcas")
  /\ mem' = [mem EXCEPT ![ApplyEntry(t).addr] =
               IF @ = [val |-> lval[t], seq |-> lseq[t]]
               THEN [val |-> ApplyEntry(t).val, seq |-> helpTx[t].seq] ELSE @]
  /\ UNCHANGED <<curTx, request, log, he, myTx, helpTx, addr, numRetires, ops,
                 left, cmem, snap>>

\* The owner stores into its request, a helper compares and swaps.
HelpClose(t) ==
  /\ Step(t, "close", AfterHelp(t))
  /\ request' = [request EXCEPT ![Helped(t)] =
                   IF Helped(t) = t \/ @ = helpTx[t]
                   THEN Trans(helpTx[t].seq + 1, Helped(t)) ELSE @]
  /\ UNCHANGED <<curTx, mem, log, he, myTx, helpTx, pos, addr, lval, lseq,
                 numRetires, ops, left, cmem, snap>>

(***************************************************************************)
(* The body of a transaction: any program of at most MaxOps operations.    *)
(***************************************************************************)

Operate(t, from, to) ==
  /\ Step(t, from, to)
  /\ ops[t] < MaxOps[t][MaxTx[t] - left[t] + 1]
  /\ ops' = [ops EXCEPT ![t] = @ + 1]

\* pload reads the value of the word before its sequence.
LoadVal(t, w) ==
  /\ Operate(t, "body", "loadSeq")
  /\ addr' = [addr EXCEPT ![t] = w]
  /\ lval' = [lval EXCEPT ![t] = mem[w].val]
  /\ UNCHANGED <<curTx, request, mem, log, he, myTx, helpTx, pos, lseq,
                 numRetires, left, cmem, snap>>

\* Mutants: off by one in either direction.
TooNewByTwo(t) == mem[addr[t]].seq > myTx[t].seq + 1
TooNewOrSame(t) == mem[addr[t]].seq >= myTx[t].seq

\* It throws AbortedTx when the word is newer than the snapshot.
TooNew(t) == mem[addr[t]].seq > myTx[t].seq

LoadAbort(t) ==
  /\ pc[t] = "loadSeq"
  /\ TooNew(t)
  /\ Restart(t, "loadSeq")
  /\ UNCHANGED <<curTx, request, mem, log, he, pos, lseq, left,
                 cmem>>

IsReadOnly(t) == log[t] = <<>>   \* tl_is_read_only

LoadSeq(t) ==
  /\ pc[t] = "loadSeq"
  /\ ~TooNew(t)
  /\ Step(t, "loadSeq", "loaded")
  /\ lval' = [lval EXCEPT ![t] =
                IF IsReadOnly(t) THEN @ ELSE LookupAddr(log[t], addr[t], @)]
  /\ UNCHANGED <<curTx, request, mem, log, he, myTx, helpTx, pos, addr, lseq,
                 numRetires, ops, left, cmem, snap>>

\* The program takes the value lval[t] of the word addr[t].
LoadReturn(t) ==
  /\ Step(t, "loaded", "body")
  /\ addr' = [addr EXCEPT ![t] = NoWord]
  /\ lval' = [lval EXCEPT ![t] = V0]
  /\ UNCHANGED <<curTx, request, mem, log, he, myTx, helpTx, pos, lseq,
                 numRetires, ops, left, cmem, snap>>

\* pstore
Store(t, w, v) ==
  /\ Operate(t, "body", "body")
  /\ log' = [log EXCEPT ![t] = AddOrReplace(@, w, v)]
  /\ UNCHANGED <<curTx, request, mem, he, myTx, helpTx, pos, addr, lval, lseq,
                 numRetires, left, cmem, snap>>

\* tmDelete or tmFree, as far as commitTx is concerned.
Delete(t) ==
  /\ Operate(t, "body", "body")
  /\ numRetires' = [numRetires EXCEPT ![t] = @ + 1]
  /\ UNCHANGED <<curTx, request, mem, log, he, myTx, helpTx, pos, addr, lval,
                 lseq, left, cmem, snap>>

(***************************************************************************)
(* commitTx, and the end of transaction().                                 *)
(***************************************************************************)

\* Mutant: the stores are forgotten.
NothingToRetire(t) == numRetires[t] = 0

NothingToCommit(t) == log[t] = <<>> /\ numRetires[t] = 0

CommitReadOnly(t) ==
  /\ NothingToCommit(t)
  /\ Step(t, "body", "clear")
  /\ UNCHANGED <<curTx, request, mem, log, he, myTx, helpTx, pos, addr, lval,
                 lseq, numRetires, ops, left, cmem, snap>>

\* Gives up at once if curTx has moved since the attempt began.
CommitCheckFails(t) ==
  /\ ~NothingToCommit(t)
  /\ myTx[t] # curTx
  /\ Restart(t, "body")
  /\ UNCHANGED <<curTx, request, mem, log, he, pos, lseq, left,
                 cmem>>

CommitCheck(t) ==
  /\ ~NothingToCommit(t)
  /\ myTx[t] = curTx
  /\ Step(t, "body", "open")
  /\ UNCHANGED <<curTx, request, mem, log, he, myTx, helpTx, pos, addr, lval,
                 lseq, numRetires, ops, left, cmem, snap>>

NewTx(t) == Trans(myTx[t].seq + 1, t)

CommitOpen(t) ==
  /\ Step(t, "open", "cas")
  /\ request' = [request EXCEPT ![t] = NewTx(t)]
  /\ UNCHANGED <<curTx, mem, log, he, myTx, helpTx, pos, addr, lval, lseq,
                 numRetires, ops, left, cmem, snap>>

\* Mutant: the commit does not insist on the transaction it started from.
CommitStore(t) ==
  /\ Step(t, "cas", "chkRequest")
  /\ curTx' = NewTx(t)
  /\ helpTx' = [helpTx EXCEPT ![t] = NewTx(t)]
  /\ cmem' = Overlay(cmem, log[t])
  /\ snap' = [snap EXCEPT ![t] = InitImage]
  /\ UNCHANGED <<request, mem, log, he, myTx, pos, addr, lval, lseq,
                 numRetires, ops, left>>

\* The transaction takes effect here.
CommitCas(t) ==
  /\ curTx = myTx[t]
  /\ Step(t, "cas", "chkRequest")
  /\ curTx' = NewTx(t)
  /\ helpTx' = [helpTx EXCEPT ![t] = NewTx(t)]
  /\ cmem' = Overlay(cmem, log[t])
  /\ snap' = [snap EXCEPT ![t] = InitImage]
  /\ UNCHANGED <<request, mem, log, he, myTx, pos, addr, lval, lseq,
                 numRetires, ops, left>>

CommitCasFails(t) ==
  /\ curTx # myTx[t]
  /\ Restart(t, "cas")
  /\ UNCHANGED <<curTx, request, mem, log, he, pos, lseq, left,
                 cmem>>

\* retireRetiresFromLog, as far as the words are concerned.
CommitRetire(t) ==
  /\ Step(t, "retire", "clear")
  /\ numRetires' = [numRetires EXCEPT ![t] = 0]
  /\ UNCHANGED <<curTx, request, mem, log, he, myTx, helpTx, pos, addr, lval,
                 lseq, ops, left, cmem, snap>>

\* he.clear(tid), and transaction() returns.
ClearEra(t) ==
  /\ Step(t, "clear", "idle")
  /\ he' = [he EXCEPT ![t] = NOERA]
  /\ left' = [left EXCEPT ![t] = @ - 1]
  /\ ForgetAttempt(t)
  /\ UNCHANGED <<curTx, request, mem, log, pos, addr, lval, lseq, cmem>>

(***************************************************************************)
(* The specification.                                                      *)
(***************************************************************************)

BeginTx(t) ==
  \/ BeginLoadCurTx(t) \/ BeginReset(t) \/ BeginSetEra(t) \/ BeginRecheck(t)

HelpApply(t) ==
  \/ HelpCheckRequest(t) \/ HelpCopyNum(t) \/ HelpCopyEntry(t)
  \/ HelpSetEra(t) \/ HelpCheckCurTx(t) \/ HelpRecheckRequest(t)
  \/ ApplyLoadVal(t) \/ ApplyLoadSeq(t) \/ ApplyDcas(t) \/ HelpClose(t)

Body(t) ==
  \/ \E w \in Words : LoadVal(t, w) \/ \E v \in Vals : Store(t, w, v)
  \/ LoadAbort(t) \/ LoadSeq(t) \/ LoadReturn(t) \/ Delete(t)

CommitTx(t) ==
  \/ CommitReadOnly(t) \/ CommitCheckFails(t) \/ CommitCheck(t)
  \/ CommitOpen(t) \/ CommitCas(t) \/ CommitCasFails(t) \/ CommitRetire(t)

ThreadNext(t) ==
  Transaction(t) \/ BeginTx(t) \/ HelpApply(t) \/ Body(t) \/ CommitTx(t)
  \/ ClearEra(t)

\* Every thread has made its calls.
Finished ==
  /\ \A t \in Threads : pc[t] = "idle" /\ left[t] = 0
  /\ UNCHANGED vars

Next == (\E t \in Threads : ThreadNext(t)) \/ Finished

Spec == Init /\ [][Next]_vars
\* A thread of Fair keeps running; the others may stop anywhere, for ever.
FairSpec == Spec /\ \A t \in Fair : WF_vars(ThreadNext(t))

(***************************************************************************)
(* Properties.                                                             *)
(***************************************************************************)

Labels == {"idle", "begin", "reset", "setEra", "recheck", "chkRequest",
           "copyNum", "copyEntry", "helpEra", "chkCurTx", "rechkRequest",
           "applyVal", "applySeq", "applyDcas", "close", "body", "loadSeq",
           "loaded", "open", "cas", "retire", "clear"}
LoadLabels == {"loadSeq", "loaded"}
ActiveLabels == LoadLabels \cup {"body", "open", "cas"}
ApplyLabels == {"applyVal", "applySeq", "applyDcas"}

HelpLabels == {"chkRequest", "copyNum", "copyEntry", "helpEra", "chkCurTx",
               "rechkRequest", "close"} \cup ApplyLabels

\* Inside helpApply for its own transaction, or past it.
Published(t) ==
  \/ pc[t] \in {"retire", "clear"}
  \/ pc[t] \in HelpLabels /\ CalledByCommit(t)

TransType == [seq : Nat, idx : Threads]

\* Every variable has its type.
TypeOK ==
  /\ curTx \in TransType
  /\ request \in [Threads -> TransType]
  /\ mem \in [Words -> [val : Vals, seq : Nat]]
  /\ log \in [Threads -> Seq(Entry \cup {Garbage})]
  /\ he \in [Threads -> Nat]
  /\ pc \in [Threads -> Labels]
  /\ myTx \in [Threads -> TransType]
  /\ helpTx \in [Threads -> TransType]
  /\ pos \in [Threads -> Nat]
  /\ addr \in [Threads -> Words \cup {NoWord}]
  /\ lval \in [Threads -> Vals]
  /\ lseq \in [Threads -> Nat]
  /\ numRetires \in [Threads -> Nat]
  /\ ops \in [Threads -> Nat]
  /\ left \in [Threads -> Int]
  /\ cmem \in [Words -> Vals]
  /\ snap \in [Threads -> [Words -> Vals]]

IsOpen == request[curTx.idx] = curTx

\* Every value pload returns to the program, in attempts that commit and in
\* attempts that will not, is the value its word had when the attempt began,
\* or the attempt's own last store to it (pload, OneFileLF.hpp:733-741).
Opacity ==
  \A t \in Threads :
    pc[t] = "loaded" =>
      lval[t] = LookupAddr(log[t], addr[t], snap[t][addr[t]])

\* Once the request of the last published transaction is closed, by its owner
\* or by any helper, its whole write-set is in memory; a transaction that
\* finds it closed may go on and read (helpApply, OneFileLF.hpp:612-613).
ClosedMeansApplied ==
  ~IsOpen => \A w \in Words : mem[w].val = cmem[w]

\* A transaction that publishes itself has worked on the latest memory: what
\* it read was not overwritten meanwhile (commitTx, OneFileLF.hpp:465-473).
PublishesOnLatest ==
  [][\A t \in Threads :
       curTx' # curTx /\ pc'[t] # pc[t] => snap[t] = cmem]_vars

\* A helper that got past its checks applies an exact copy of the write-set,
\* or comes too late to change anything: every word it has copied already
\* carries this sequence or a later one (helpApply, OneFileLF.hpp:614-624).
HelperCopyIsExact ==
  \A t \in Threads :
    pc[t] \in ApplyLabels \cup {"close"} =>
      \/ log[t] = log[curTx.idx] /\ helpTx[t] = curTx
      \/ \A i \in DOMAIN log[t] :
           log[t][i].addr \in Words /\ mem[log[t][i].addr].seq >= helpTx[t].seq

\* No word is written twice by one transaction or by an older one than its
\* last writer, however late a helper wakes up.
NoLateWrite ==
  [][\A w \in Words : mem'[w] # mem[w] =>
       /\ mem[w].seq < mem'[w].seq
       /\ mem'[w] = [val |-> cmem[w], seq |-> curTx.seq]]_vars

\* Threads that keep running complete all their transactions, also when the
\* others stop for ever in the midst of a commit (lock-freedom).
FairThreadsFinish ==
  \A t \in Fair : <>[](pc[t] = "idle" /\ left[t] = 0)
=============================================================================
