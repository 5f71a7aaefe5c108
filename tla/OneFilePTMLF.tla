---------------------------- MODULE OneFilePTMLF ----------------------------
(***************************************************************************)
(* The lock-free persistent OneFile (ptms/OneFilePTMLF.hpp) and its multi- *)
(* process variant (ptms/OneFilePTMLFMultiProcess.hpp).  curTx, the words  *)
(* of the program and, for each thread, a request with a copy of the redo  *)
(* log are in persistent memory.  The two differ in where the write-sets   *)
(* are that helpers copy: in the memory of the process, lost when it ends, *)
(* or in the region, where they outlive it.                                *)
(*                                                                         *)
(* One action per access another thread can see, with the two exceptions   *)
(* of OneFileWF (loads of apply, copies of a write-set); the private log   *)
(* is copied, and the write-backs of a write-set are issued, in one step.  *)
(* Every transaction of the program adds one to all words: it loads one of *)
(* them and stores the rest accordingly, so that a lost or torn one shows. *)
(***************************************************************************)
EXTENDS Integers, SequencesExt, PersistentMemory, RedoLog

CONSTANTS
  N,          \* threads 0 .. N-1
  MaxTx,      \* MaxTx[t]: transactions of thread t and its successors
  CurTxLine,  \* the line of curTx
  Fair        \* threads that are never descheduled for ever, nor die

Threads == 0 .. N-1
Lines == {CurTxLine} \cup Words \cup Threads

ASSUME OneFilePTMLFAssumption ==
  /\ N \in Nat \ {0}
  /\ MaxTx \in [Threads -> Nat]
  /\ CurTxLine \notin Words \cup Threads
  /\ Words \cap Threads = {}
  /\ IsFiniteSet(Words) /\ Words # {}
  /\ V0 \in Int

VARIABLES
  nvm,      \* Lines: curTx, words, and PWriteSet of each thread
  pwb,      \* the contents each thread has written back and not fenced
  log,      \* WriteSet of each thread
  th,       \* the rest of each thread
  commits,  \* history: what the words are worth after transaction seq
  restarts  \* history: how often the machine has been restarted

vars == <<nvm, pwb, log, th, commits, restarts>>

Trans(seq, idx) == [seq |-> seq, idx |-> idx]
NoTrans == Trans(0, 0)

\* k is the number of the thread's transaction; dead fields are as here.
Local == [pc |-> "idle", k |-> 1, myTx |-> NoTrans, helpTx |-> NoTrans,
          back |-> "idle", i |-> 0, addr |-> NoWord, val |-> V0, seq |-> 0]

Init ==
  /\ nvm = [l \in Lines |->
       CASE l = CurTxLine -> <<Trans(1, 0)>>
         [] l \in Threads -> <<[request |-> NoTrans, plog |-> <<>>]>>
         [] OTHER -> <<[val |-> V0, seq |-> 0]>>]
  /\ pwb = [t \in Threads |-> <<>>]
  /\ log = [t \in Threads |-> <<>>]
  /\ th = [t \in Threads |-> Local]
  /\ commits = <<V0>>
  /\ restarts = 0

curTx == Now(nvm, CurTxLine)
request(t) == Now(nvm, t).request

\* A locked instruction of thread t, with or without a new content of a line.
Locked(t, line, new) ==
  /\ nvm' = Stored(Fenced(nvm, pwb[t]), line, new)
  /\ pwb' = [pwb EXCEPT ![t] = <<>>]

\* Stores of thread t into its own PWriteSet.
StoreOwn(t, new) == nvm' = Stored(nvm, t, new)

WriteBack(t, lines) ==
  pwb' = [pwb EXCEPT ![t] = WrittenBack(@, nvm', lines)]

(* Definitions whose comment says "Mutant" are no part of the model.       *)

At(t, label) == th[t].pc = label

Go(t, from, to, new) ==
  /\ At(t, from)
  /\ th' = [th EXCEPT ![t] = [new EXCEPT !.pc = to]]

Goto(t, from, to) == Go(t, from, to, th[t])

WriteLog(t, new) ==
  log' = [u \in Threads |->
            IF u = t THEN new
            ELSE IF At(u, "helpCurTx") /\ th[u].helpTx.idx = t
                 THEN <<Garbage>> ELSE log[u]]

history == <<commits, restarts>>

(***************************************************************************)
(* transaction and beginTx.                                                *)
(***************************************************************************)

Transaction(t) ==
  /\ th[t].k <= MaxTx[t]
  /\ Goto(t, "idle", "load")
  /\ UNCHANGED <<nvm, pwb, log, history>>

BeginLoadCurTx(t) ==
  /\ Go(t, "load", "chkRequest",
        [th[t] EXCEPT !.myTx = curTx, !.helpTx = curTx, !.back = "reset"])
  /\ UNCHANGED <<nvm, pwb, log, history>>

BeginReset(t) ==
  /\ Goto(t, "reset", "recheck")
  /\ WriteLog(t, <<>>)
  /\ UNCHANGED <<nvm, pwb, history>>

Restart(t, from) ==
  Go(t, from, "load",
     [th[t] EXCEPT !.myTx = NoTrans, !.addr = NoWord, !.val = V0])

BeginRecheck(t) ==
  /\ IF th[t].myTx = curTx THEN Goto(t, "recheck", "runVal")
                           ELSE Restart(t, "recheck")
  /\ UNCHANGED <<nvm, pwb, log, history>>

(***************************************************************************)
(* The body: pload of one word, pstore of all.                             *)
(***************************************************************************)

Order == SetToSeq(Words)

\* The write-set of a transaction that stores v into every word.
FullLog(v) == [i \in DOMAIN Order |-> [addr |-> Order[i], val |-> v]]

LoadVal(t, w) ==
  /\ Go(t, "runVal", "runSeq",
        [th[t] EXCEPT !.addr = w, !.val = Now(nvm, w).val])
  /\ UNCHANGED <<nvm, pwb, log, history>>

\* Mutant: words of the last transaction are too new.
TooNewOrSame(t) == Now(nvm, th[t].addr).seq >= th[t].myTx.seq

TooNew(t) == Now(nvm, th[t].addr).seq > th[t].myTx.seq

LoadAbort(t) ==
  /\ At(t, "runSeq") /\ TooNew(t)
  /\ Restart(t, "runSeq")
  /\ UNCHANGED <<nvm, pwb, log, history>>

LoadSeq(t) ==
  /\ At(t, "runSeq") /\ ~TooNew(t)
  /\ Go(t, "runSeq", "commit", [th[t] EXCEPT !.addr = NoWord, !.val = V0])
  /\ WriteLog(t, FullLog(th[t].val + 1))
  /\ UNCHANGED <<nvm, pwb, history>>

(***************************************************************************)
(* commitTx and helpApply.                                                 *)
(***************************************************************************)

NewTx(t) == Trans(th[t].myTx.seq + 1, t)

CommitCheck(t) ==
  /\ IF th[t].myTx = curTx THEN Goto(t, "commit", "open")
                           ELSE Restart(t, "commit")
  /\ UNCHANGED <<nvm, pwb, log, history>>

CommitOpen(t) ==
  /\ Goto(t, "open", "persist")
  /\ StoreOwn(t, [Now(nvm, t) EXCEPT !.request = NewTx(t)])
  /\ UNCHANGED <<pwb, log, history>>

\* Mutant: the log is not flushed.
CopyLog(t) ==
  /\ Goto(t, "persist", "cas")
  /\ StoreOwn(t, [Now(nvm, t) EXCEPT !.plog = log[t]])
  /\ UNCHANGED <<pwb, log, history>>

\* flushFromTo (117-122) aligns its start, and meets every line of the log.
PersistAndFlushLog(t) ==
  /\ Goto(t, "persist", "cas")
  /\ StoreOwn(t, [Now(nvm, t) EXCEPT !.plog = log[t]])
  /\ WriteBack(t, {t})
  /\ UNCHANGED <<log, history>>

CommitCas(t) ==
  /\ curTx = th[t].myTx
  /\ Goto(t, "cas", "pwbCurTx")
  /\ Locked(t, CurTxLine, NewTx(t))
  /\ commits' = Append(commits, log[t][1].val)
  /\ UNCHANGED <<log, restarts>>

CommitCasFails(t) ==
  /\ curTx # th[t].myTx
  /\ Restart(t, "cas")
  /\ Locked(t, CurTxLine, curTx)
  /\ UNCHANGED <<log, history>>

CommitFlush(t) ==
  /\ Go(t, "pwbCurTx", "chkRequest",
        [th[t] EXCEPT !.myTx = NoTrans, !.helpTx = NewTx(t),
                      !.back = "return"])
  /\ UNCHANGED nvm
  /\ WriteBack(t, {CurTxLine})
  /\ UNCHANGED <<log, history>>

Helped(t) == th[t].helpTx.idx

Back(t, from) ==
  Go(t, from, th[t].back,
     [th[t] EXCEPT !.helpTx = NoTrans, !.back = "idle", !.i = 0])

HelpCheckRequest(t) ==
  /\ At(t, "chkRequest")
  /\ IF request(Helped(t)) # th[t].helpTx THEN Back(t, "chkRequest")
     ELSE Goto(t, "chkRequest", IF Helped(t) = t THEN "apply" ELSE "copy")
  /\ UNCHANGED <<nvm, pwb, log, history>>

HelpCopy(t) ==
  /\ Goto(t, "copy", "helpCurTx")
  /\ WriteLog(t, log[Helped(t)])
  /\ UNCHANGED <<nvm, pwb, history>>

HelpCheckCurTx(t) ==
  /\ IF th[t].helpTx = curTx THEN Goto(t, "helpCurTx", "helpRequest")
                             ELSE Back(t, "helpCurTx")
  /\ UNCHANGED <<nvm, pwb, log, history>>

HelpRecheckRequest(t) ==
  /\ IF request(Helped(t)) = th[t].helpTx
     THEN Goto(t, "helpRequest", "apply") ELSE Back(t, "helpRequest")
  /\ UNCHANGED <<nvm, pwb, log, history>>

\* The entry apply has got to; t starts at entry t * 8.
ApplyEntry(t) == log[t][((t * 8 + th[t].i) % Len(log[t])) + 1]

\* Garbage is not a word: a step on it is not enabled.
ApplyLoad(t) ==
  /\ At(t, "apply")
  /\ th[t].i < Len(log[t])
  /\ ApplyEntry(t).addr \in Words
  /\ LET word == Now(nvm, ApplyEntry(t).addr)
     IN IF word.seq < th[t].helpTx.seq
        THEN Go(t, "apply", "dcas",
                [th[t] EXCEPT !.val = word.val, !.seq = word.seq])
        ELSE Go(t, "apply", "apply", [th[t] EXCEPT !.i = th[t].i + 1])
  /\ UNCHANGED <<nvm, pwb, log, history>>

ApplyDcas(t) ==
  LET e == ApplyEntry(t)
      old == Now(nvm, e.addr)
  IN
  /\ Go(t, "dcas", "apply",
        [th[t] EXCEPT !.i = th[t].i + 1, !.val = V0, !.seq = 0])
  /\ Locked(t, e.addr,
            IF old = [val |-> th[t].val, seq |-> th[t].seq]
            THEN [val |-> e.val, seq |-> th[t].helpTx.seq] ELSE old)
  /\ UNCHANGED <<log, history>>

\* Mutant: no write-back of what was applied.
FlushNothing(t) ==
  /\ At(t, "apply")
  /\ th[t].i = Len(log[t])
  /\ Goto(t, "apply", "close")
  /\ UNCHANGED <<nvm, pwb, log, history>>

FlushModifications(t) ==
  /\ At(t, "apply")
  /\ th[t].i = Len(log[t])
  /\ Goto(t, "apply", "close")
  /\ UNCHANGED nvm
  /\ WriteBack(t, {log[t][i].addr : i \in DOMAIN log[t]})
  /\ UNCHANGED <<log, history>>

\* Only a request that is open is compared and swapped.
HelpClose(t) ==
  /\ Back(t, "close")
  /\ IF request(Helped(t)) = th[t].helpTx
     THEN Locked(t, Helped(t), [Now(nvm, Helped(t)) EXCEPT !.request =
                                  Trans(th[t].helpTx.seq + 1, Helped(t))])
     ELSE UNCHANGED <<nvm, pwb>>
  /\ UNCHANGED <<log, history>>

Return(t) ==
  /\ Go(t, "return", "idle", [th[t] EXCEPT !.k = th[t].k + 1])
  /\ UNCHANGED <<nvm, pwb, log, history>>

(***************************************************************************)
(* The end of a process.                                                   *)
(***************************************************************************)

\* Multi-process: thread t ends at any point, and another process takes over
\* its identifier, whose mutex is robust, with the write-set as it was left.
Die(t) ==
  /\ t \notin Fair
  /\ ~At(t, "idle")
  /\ th' = [th EXCEPT ![t] = [Local EXCEPT !.k = th[t].k + 1]]
  /\ pwb' = [pwb EXCEPT ![t] = <<>>]
  /\ UNCHANGED <<nvm, log, history>>

\* One process: it is killed, or the power fails, and it maps the region
\* again.  recover() is not called, and the write-sets are empty.
Crash(kept) ==
  /\ restarts = 0
  /\ nvm' = AfterFailure(nvm, kept)
  /\ pwb' = [t \in Threads |-> <<>>]
  /\ log' = [t \in Threads |-> <<>>]
  /\ th' = [t \in Threads |-> [Local EXCEPT !.k = th[t].k]]
  /\ commits' = SubSeq(commits, 1, nvm[CurTxLine][kept[CurTxLine]].seq)
  /\ restarts' = 1

(***************************************************************************)
(* Specifications.                                                         *)
(***************************************************************************)

BeginTx(t) ==
  Transaction(t) \/ BeginLoadCurTx(t) \/ BeginReset(t) \/ BeginRecheck(t)

Body(t) == (\E w \in Words : LoadVal(t, w)) \/ LoadAbort(t) \/ LoadSeq(t)

CommitTx(t) ==
  \/ CommitCheck(t) \/ CommitOpen(t) \/ PersistAndFlushLog(t) \/ CommitCas(t)
  \/ CommitCasFails(t) \/ CommitFlush(t) \/ Return(t)

HelpApply(t) ==
  \/ HelpCheckRequest(t) \/ HelpCopy(t) \/ HelpCheckCurTx(t)
  \/ HelpRecheckRequest(t) \/ ApplyLoad(t) \/ ApplyDcas(t)
  \/ FlushModifications(t) \/ HelpClose(t)

Run(t) == BeginTx(t) \/ Body(t) \/ CommitTx(t) \/ HelpApply(t)

Finished ==
  /\ \A t \in Threads : At(t, "idle") /\ th[t].k > MaxTx[t]
  /\ UNCHANGED vars

Next == (\E t \in Threads : Run(t) \/ Die(t)) \/ Finished

Spec == Init /\ [][Next]_vars

FairSpec == Spec /\ \A t \in Fair : WF_vars(Run(t))

CrashNext ==
  \/ \E t \in Threads : Run(t)
  \/ \E kept \in Failures(nvm) : Crash(kept)
  \/ Finished

CrashSpec == Init /\ [][CrashNext]_vars

(***************************************************************************)
(* Properties.                                                             *)
(***************************************************************************)

Closed == request(curTx.idx) # curTx
Worth == commits[curTx.seq]

\* When the request of the last transaction is closed, the words have what it
\* left, and a power failure would find it there, whoever applied it and
\* wherever its owner has died: whoever closes a request has stored the whole
\* write-set and fenced its write-backs (OneFilePTMLF.hpp:780-799).
ClosedIsPersistent ==
  Closed => \A w \in Words : \A c \in ToSet(nvm[w]) : c.val = Worth

\* While a transaction is open, a power failure would leave its request and
\* its redo log complete (OneFilePTMLF.hpp:661-668).
OpenLogIsPersistent ==
  ~Closed =>
    \A c \in ToSet(nvm[curTx.idx]) :
      /\ c.request = curTx
      /\ c.plog = FullLog(Worth)

\* A thread that keeps running finishes its transactions although the process
\* of another has ended, or was stopped, in the midst of a commit
\* (OneFilePTMLF.hpp:636-637, 649).
FairThreadsFinish ==
  \A t \in Fair : <>[](At(t, "idle") /\ th[t].k > MaxTx[t])

\* After a restart of the only process, and once the transaction that was open
\* is closed, the words have all or none of its stores: "recover(); // Not
\* needed on x86" (OneFilePTMLF.hpp:623).
RecoverIsNotNeeded ==
  restarts > 0 /\ Closed =>
    \A v, w \in Words : Now(nvm, v).val = Now(nvm, w).val
=============================================================================
