----------------------------- MODULE OneFileWF -----------------------------
(***************************************************************************)
(* The wait-free OneFile STM (stms/OneFileWF.hpp): updateTx announces its  *)
(* function in operations[tid]; every transaction runs all the functions   *)
(* announced and not answered, with their results among its stores; after  *)
(* four rounds of trying, or of seeing others succeed, a thread returns    *)
(* what results[tid] holds.  Functions are objects on the heap, protected  *)
(* by hazard eras while somebody may run them.                             *)
(*                                                                         *)
(* One action per access to memory that another thread can see, with two   *)
(* exceptions: apply loads value and sequence of a word in one step (a     *)
(* pair of two moments is either the later one or makes the compare-and-   *)
(* swap fail, as the earlier one would), and a write-set is copied at once *)
(* but spoilt if its owner writes it before the copier's next step.        *)
(*                                                                         *)
(* The object of the program is one word, Obj, with the sequence of the    *)
(* calls that changed it; the words of results[] are named by their tids.  *)
(***************************************************************************)
EXTENDS Integers, Sequences, SequencesExt, RedoLog

CONSTANTS
  N,            \* registered threads; their tids are 0 .. N-1
  Calls,        \* Calls[t]: the calls of thread t, "write" or "read"
  Obj,          \* the word of the program
  MAX_READ_TRIES  \* 4 in the code; fewer reach the same states sooner

Threads == 0 .. N-1

ASSUME OneFileWFAssumption ==
  /\ N \in Nat \ {0}
  /\ Obj \notin Threads
  /\ Words = Threads \cup {Obj}
  /\ MAX_READ_TRIES \in Nat \ {0}

VARIABLES
  curTx,       \* the last transaction published
  request,     \* OpData::request of each thread
  mem,         \* Obj and results[]: value and sequence
  log,         \* WriteSet of each thread
  he,          \* the hazard era each thread has published
  operations,  \* operations[]: function and sequence, without compare-and-swap
  retired,     \* retiredListTx of each thread
  freed,       \* the functions deleted
  th,          \* the rest of each thread, see Local
  (* history *)
  cmem,        \* the words as the published transactions leave them
  answered     \* threads in a call that a published transaction has run

engine == <<curTx, request, mem, log, he>>
funcs == <<operations, retired, freed>>
history == <<cmem, answered>>
vars == <<engine, funcs, th, history>>

Trans(seq, idx) == [seq |-> seq, idx |-> idx]
NoTrans == Trans(0, 0)
NoFunc == <<0, 0>>
NOERA == 0

\* pc is the step the thread is about to take, k its call, buf how many of
\* the two stores of its announcement others cannot see yet.  Dead fields
\* have the values they have here.
Local == [pc |-> "idle", k |-> 1, buf |-> 0, round |-> 0, firstEra |-> 0,
          opSeq |-> 0, myTx |-> NoTrans, helpTx |-> NoTrans, back |-> "idle",
          i |-> 0, j |-> 0, fn |-> NoFunc, seq |-> 0, val |-> V0,
          snap |-> <<>>, ret |-> 0]

Init ==
  /\ curTx = Trans(1, 0)
  /\ request = [t \in Threads |-> NoTrans]
  /\ mem = [w \in Words |-> [val |-> IF w = Obj THEN <<>> ELSE 0, seq |-> 1]]
  /\ log = [t \in Threads |-> <<>>]
  /\ he = [t \in Threads |-> NOERA]
  /\ operations = [t \in Threads |-> [fn |-> NoFunc, seq |-> 0]]
  /\ retired = [t \in Threads |-> <<>>]
  /\ freed = {}
  /\ th = [t \in Threads |-> Local]
  /\ cmem = [w \in Words |-> mem[w].val]
  /\ answered = {}

At(t, label) == th[t].pc = label

\* Thread t goes from one step to another with some of its fields changed;
\* Goto changes none.
Go(t, from, to, changed) ==
  /\ At(t, from)
  /\ th' = [th EXCEPT ![t] = changed @@ [@ EXCEPT !.pc = to]]

Goto(t, from, to) == Go(t, from, to, <<>>)

Helped(t) == th[t].helpTx.idx

\* A store into t's write-set spoils the copies being made of it.
WriteLog(t, new) ==
  log' = [u \in Threads |->
            IF u = t THEN new
            ELSE IF At(u, "helpEra") /\ Helped(u) = t THEN <<Garbage>>
            ELSE log[u]]

(* Definitions whose comment says "Mutant" are no part of the model.       *)

(***************************************************************************)
(* updateTx, and the announcement at the top of innerUpdateTx.             *)
(***************************************************************************)

MyCall(t) == <<t, th[t].k>>
Kind(call) == Calls[call[1]][call[2]]

UpdateTx(t) ==
  /\ th[t].k <= Len(Calls[t])
  /\ Kind(MyCall(t)) = "write"
  /\ Goto(t, "idle", "firstEra")
  /\ UNCHANGED <<engine, funcs, history>>

FirstEra(t) ==
  /\ Go(t, "firstEra", "announce", [firstEra |-> curTx.seq])
  /\ UNCHANGED <<engine, funcs, history>>

\* Both stores of rawStore go to the store buffer of the processor.
Announce(t) ==
  /\ Go(t, "announce", "iter",
        [opSeq |-> mem[t].seq, buf |-> 2, round |-> 1])
  /\ UNCHANGED <<engine, funcs, history>>

DrainFunc(t) ==
  /\ th[t].buf = 2
  /\ operations' = [operations EXCEPT ![t].fn = MyCall(t)]
  /\ th' = [th EXCEPT ![t].buf = 1]
  /\ UNCHANGED <<engine, retired, freed, history>>

DrainSeq(t) ==
  /\ th[t].buf = 1
  /\ operations' = [operations EXCEPT ![t].seq = th[t].opSeq]
  /\ th' = [th EXCEPT ![t].buf = 0]
  /\ UNCHANGED <<engine, retired, freed, history>>

\* What thread t finds in operations[i]: its own stores at once.
Operation(t, i) ==
  IF i = t THEN [fn |-> MyCall(t), seq |-> th[t].opSeq] ELSE operations[i]

(***************************************************************************)
(* One round of innerUpdateTx.                                             *)
(***************************************************************************)

\* Mutant: one round fewer.
ThreeRounds == 3

Rounds == 4

NextRound(t) ==
  IF th[t].round < Rounds
  THEN [pc |-> "iter", round |-> th[t].round + 1, myTx |-> NoTrans,
        i |-> 0, fn |-> NoFunc, seq |-> 0, val |-> V0]
  ELSE [pc |-> "leave", myTx |-> NoTrans,
        i |-> 0, fn |-> NoFunc, seq |-> 0, val |-> V0]

\* Starts over, or gives up after the last round.
Continue(t, from) ==
  /\ At(t, from)
  /\ th' = [th EXCEPT ![t] = NextRound(t) @@ @]

RoundReset(t) ==
  /\ Goto(t, "iter", "load")
  /\ WriteLog(t, <<>>)
  /\ UNCHANGED <<curTx, request, mem, he, funcs, history>>

LoadCurTx(t) ==
  /\ Go(t, "load", "chkDone", [myTx |-> curTx])
  /\ UNCHANGED <<engine, funcs, history>>

\* If my request is answered, my transaction is committed.
CheckAnswered(t) ==
  /\ At(t, "chkDone")
  /\ IF mem[t].seq > th[t].opSeq
     THEN Go(t, "chkDone", "leave", [myTx |-> NoTrans])
     ELSE Go(t, "chkDone", "chkRequest",
             [helpTx |-> th[t].myTx, back |-> "reset"])
  /\ UNCHANGED <<engine, funcs, history>>

ResetLog(t) ==
  /\ Goto(t, "reset", "setEra")
  /\ WriteLog(t, <<>>)
  /\ UNCHANGED <<curTx, request, mem, he, funcs, history>>

\* he.set is the first locked instruction after the announcement: others see
\* the announcement from here on at the latest.
SetEra(t) ==
  /\ th[t].buf = 0
  /\ Goto(t, "setEra", "recheck")
  /\ he' = [he EXCEPT ![t] = th[t].myTx.seq]
  /\ UNCHANGED <<curTx, request, mem, log, funcs, history>>

Recheck(t) ==
  /\ At(t, "recheck")
  /\ IF th[t].myTx = curTx THEN Goto(t, "recheck", "rawOpSeq")
                           ELSE Continue(t, "recheck")
  /\ UNCHANGED <<engine, funcs, history>>

(***************************************************************************)
(* transformAll: rawLoad of operations[i] and of results[i], and the       *)
(* function of thread i.                                                   *)
(***************************************************************************)

NextThread(t) ==
  IF th[t].i + 1 < N
  THEN [pc |-> "rawOpSeq", i |-> th[t].i + 1, fn |-> NoFunc, seq |-> 0,
        val |-> V0]
  ELSE [pc |-> "commit", i |-> 0, fn |-> NoFunc, seq |-> 0, val |-> V0]

SkipThread(t, from) ==
  /\ At(t, from)
  /\ th' = [th EXCEPT ![t] = NextThread(t) @@ @]

RawOpSeq(t) ==
  /\ Go(t, "rawOpSeq", "rawOpVal", [seq |-> Operation(t, th[t].i).seq])
  /\ UNCHANGED <<engine, funcs, history>>

RawOpVal(t) ==
  /\ Go(t, "rawOpVal", "rawOpChk", [fn |-> Operation(t, th[t].i).fn])
  /\ UNCHANGED <<engine, funcs, history>>

RawOpCheck(t) ==
  /\ At(t, "rawOpChk")
  /\ IF Operation(t, th[t].i).seq = th[t].seq
     THEN Goto(t, "rawOpChk", "rawRes") ELSE SkipThread(t, "rawOpChk")
  /\ UNCHANGED <<engine, funcs, history>>

\* rawLoad of results[i] looks at its sequence twice and its value is not
\* used.  The sequence grows, and past that of the operation when it does, so
\* the second look decides.
RawResult(t) ==
  /\ At(t, "rawRes")
  /\ IF mem[th[t].i].seq <= th[t].seq THEN Goto(t, "rawRes", "chkTx")
                                      ELSE SkipThread(t, "rawRes")
  /\ UNCHANGED <<engine, funcs, history>>

CheckTx(t) ==
  /\ At(t, "chkTx")
  /\ IF th[t].myTx = curTx THEN Go(t, "chkTx", "runVal", [seq |-> 0])
                           ELSE Continue(t, "chkTx")
  /\ UNCHANGED <<engine, funcs, history>>

\* pload of the word by the function, value before sequence.
RunLoadVal(t) ==
  /\ Go(t, "runVal", "runSeq", [val |-> mem[Obj].val])
  /\ UNCHANGED <<engine, funcs, history>>

\* Mutant: a load does not look into the write-set.
SeenInMemory(t) == th[t].val

\* What the pload of the function returns.
Seen(t) == LookupAddr(log[t], Obj, th[t].val)

\* The function appends its call and returns the place; the result is stored
\* into results[i] by the same transaction.
RunFunc(t) ==
  LET seen == Seen(t)
      call == th[t].fn
      stored == IF Kind(call) = "write"
                THEN AddOrReplace(log[t], Obj, Append(seen, call)) ELSE log[t]
  IN
  /\ At(t, "runSeq")
  /\ mem[Obj].seq <= th[t].myTx.seq
  /\ SkipThread(t, "runSeq")
  /\ WriteLog(t, AddOrReplace(stored, th[t].i, Len(seen) + 1))
  /\ UNCHANGED <<curTx, request, mem, he, funcs, history>>

\* AbortedTx
RunAbort(t) ==
  /\ At(t, "runSeq")
  /\ mem[Obj].seq > th[t].myTx.seq
  /\ Continue(t, "runSeq")
  /\ UNCHANGED <<engine, funcs, history>>

(***************************************************************************)
(* commitTx and helpApply.                                                 *)
(***************************************************************************)

NewTx(t) == Trans(th[t].myTx.seq + 1, t)

CommitNothing(t) ==
  /\ log[t] = <<>>
  /\ Go(t, "commit", "leave", [myTx |-> NoTrans])
  /\ UNCHANGED <<engine, funcs, history>>

CommitCheck(t) ==
  /\ At(t, "commit")
  /\ log[t] # <<>>
  /\ IF th[t].myTx = curTx THEN Goto(t, "commit", "open")
                           ELSE Continue(t, "commit")
  /\ UNCHANGED <<engine, funcs, history>>

CommitOpen(t) ==
  /\ Goto(t, "open", "cas")
  /\ request' = [request EXCEPT ![t] = NewTx(t)]
  /\ UNCHANGED <<curTx, mem, log, he, funcs, history>>

\* The functions take effect here.
CommitCas(t) ==
  /\ curTx = th[t].myTx
  /\ Go(t, "cas", "chkRequest",
        [myTx |-> NoTrans, helpTx |-> NewTx(t), back |-> "retire"])
  /\ curTx' = NewTx(t)
  /\ cmem' = Overlay(cmem, log[t])
  /\ answered' = answered \cup {i \in Threads : Logged(log[t], i)}
  /\ UNCHANGED <<request, mem, log, he, funcs>>

CommitCasFails(t) ==
  /\ curTx # th[t].myTx
  /\ Continue(t, "cas")
  /\ UNCHANGED <<engine, funcs, history>>

Back(t, from) ==
  Go(t, from, th[t].back, [helpTx |-> NoTrans, back |-> "idle", i |-> 0])

HelpCheckRequest(t) ==
  /\ At(t, "chkRequest")
  /\ IF request[Helped(t)] # th[t].helpTx THEN Back(t, "chkRequest")
     ELSE Goto(t, "chkRequest", IF Helped(t) = t THEN "apply" ELSE "copy")
  /\ UNCHANGED <<engine, funcs, history>>

\* The copy begins; it ends with the next step of t.
HelpCopy(t) ==
  /\ Goto(t, "copy", "helpEra")
  /\ WriteLog(t, log[Helped(t)])
  /\ UNCHANGED <<curTx, request, mem, he, funcs, history>>

HelpSetEra(t) ==
  /\ th[t].buf = 0
  /\ Goto(t, "helpEra", "helpCurTx")
  /\ he' = [he EXCEPT ![t] = th[t].helpTx.seq]
  /\ UNCHANGED <<curTx, request, mem, log, funcs, history>>

HelpCheckCurTx(t) ==
  /\ IF th[t].helpTx = curTx THEN Goto(t, "helpCurTx", "helpRequest")
                             ELSE Back(t, "helpCurTx")
  /\ UNCHANGED <<engine, funcs, history>>

HelpRecheckRequest(t) ==
  /\ IF request[Helped(t)] = th[t].helpTx
     THEN Goto(t, "helpRequest", "apply") ELSE Back(t, "helpRequest")
  /\ UNCHANGED <<engine, funcs, history>>

\* The entry apply has got to; t starts at entry t * 8.
ApplyEntry(t) == log[t][((t * 8 + th[t].i) % Len(log[t])) + 1]

\* Garbage is not a word: a step on it is not enabled.
ApplyLoad(t) ==
  /\ At(t, "apply")
  /\ th[t].i < Len(log[t])
  /\ ApplyEntry(t).addr \in Words
  /\ LET word == mem[ApplyEntry(t).addr]
     IN IF word.seq < th[t].helpTx.seq
        THEN Go(t, "apply", "dcas", [val |-> word.val, seq |-> word.seq])
        ELSE Go(t, "apply", "apply", [i |-> th[t].i + 1])
  /\ UNCHANGED <<engine, funcs, history>>

ApplyDcas(t) ==
  /\ At(t, "dcas")
  /\ Go(t, "dcas", "apply", [i |-> th[t].i + 1, val |-> V0, seq |-> 0])
  /\ mem' = [mem EXCEPT ![ApplyEntry(t).addr] =
               IF @ = [val |-> th[t].val, seq |-> th[t].seq]
               THEN [val |-> ApplyEntry(t).val, seq |-> th[t].helpTx.seq]
               ELSE @]
  /\ UNCHANGED <<curTx, request, log, he, funcs, history>>

HelpClose(t) ==
  /\ At(t, "apply")
  /\ th[t].i = Len(log[t])
  /\ Back(t, "apply")
  /\ request' = [request EXCEPT ![Helped(t)] =
                   IF Helped(t) = t \/ @ = th[t].helpTx
                   THEN Trans(th[t].helpTx.seq + 1, Helped(t)) ELSE @]
  /\ UNCHANGED <<curTx, mem, log, he, funcs, history>>

(***************************************************************************)
(* retireRetiresFromLog, for functions: HazardErasOF::clean, one era at a  *)
(* time.  j is the thread whose era is next, i the function.               *)
(***************************************************************************)

Retire(t) ==
  /\ Go(t, "retire", "clean", [seq |-> curTx.seq, i |-> 1])
  /\ UNCHANGED <<engine, funcs, history>>

\* Mutant: an era does not protect what was announced in it.
ProtectsOlder(era, f) == era # NOERA /\ era > f.newEra /\ era <= f.delEra

Protects(era, f) == era # NOERA /\ era >= f.newEra /\ era <= f.delEra

CleanScan(t) ==
  LET f == retired[t][th[t].i]
      kept == f.delEra = th[t].seq \/ Protects(he[th[t].j], f)
  IN
  /\ At(t, "clean")
  /\ th[t].i <= Len(retired[t])
  /\ kept \/ th[t].j + 1 < N
  /\ th' = [th EXCEPT ![t].i = IF kept THEN @ + 1 ELSE @,
                      ![t].j = IF kept THEN 0 ELSE @ + 1]
  /\ UNCHANGED <<engine, funcs, history>>

CleanFree(t) ==
  LET f == retired[t][th[t].i]
  IN
  /\ At(t, "clean")
  /\ th[t].i <= Len(retired[t])
  /\ th[t].j + 1 = N
  /\ f.delEra # th[t].seq /\ ~Protects(he[th[t].j], f)
  /\ retired' = [retired EXCEPT ![t] = RemoveAt(@, th[t].i)]
  /\ freed' = freed \cup {f.fn}
  /\ th' = [th EXCEPT ![t].j = 0]
  /\ UNCHANGED <<engine, operations, history>>

CleanDone(t) ==
  /\ At(t, "clean")
  /\ th[t].i > Len(retired[t])
  /\ Go(t, "clean", "leave", [i |-> 0, seq |-> 0])
  /\ UNCHANGED <<engine, funcs, history>>

(***************************************************************************)
(* The end of innerUpdateTx and of updateTx.                               *)
(***************************************************************************)

ClearEra(t) ==
  /\ Go(t, "leave", "retireFn", [round |-> 0])
  /\ he' = [he EXCEPT ![t] = NOERA]
  /\ UNCHANGED <<curTx, request, mem, log, funcs, history>>

RetireMyFunc(t) ==
  /\ Go(t, "retireFn", "answer", [firstEra |-> 0])
  /\ retired' = [retired EXCEPT ![t] =
       Append(@, [fn |-> MyCall(t), newEra |-> th[t].firstEra,
                  delEra |-> curTx.seq + 1])]
  /\ UNCHANGED <<engine, operations, freed, history>>

EndOfCall(t, from, result) ==
  Go(t, from, "idle", [k |-> th[t].k + 1, ret |-> result, opSeq |-> 0,
                       round |-> 0, myTx |-> NoTrans, val |-> V0,
                       snap |-> <<>>])

Answer(t) ==
  /\ EndOfCall(t, "answer", mem[t].val)
  /\ answered' = answered \ {t}
  /\ UNCHANGED <<engine, funcs, cmem>>

(***************************************************************************)
(* readTransaction: some tries on its own, then as an updateTx.            *)
(***************************************************************************)

ReadTx(t) ==
  /\ th[t].k <= Len(Calls[t])
  /\ Kind(MyCall(t)) = "read"
  /\ Go(t, "idle", "rLoad", [round |-> 1])
  /\ WriteLog(t, <<>>)
  /\ UNCHANGED <<curTx, request, mem, he, funcs, history>>

ReadLoadCurTx(t) ==
  /\ Go(t, "rLoad", "chkRequest",
        [myTx |-> curTx, helpTx |-> curTx, back |-> "rEra"])
  /\ UNCHANGED <<engine, funcs, history>>

ReadSetEra(t) ==
  /\ Goto(t, "rEra", "rReset")
  /\ he' = [he EXCEPT ![t] = th[t].myTx.seq]
  /\ UNCHANGED <<curTx, request, mem, log, funcs, history>>

ReadReset(t) ==
  /\ Goto(t, "rReset", "rRecheck")
  /\ WriteLog(t, <<>>)
  /\ UNCHANGED <<curTx, request, mem, he, funcs, history>>

\* A failed try; after the last the thread poses as an updateTx.
ReadAgain(t, from) ==
  Go(t, from, IF th[t].round < MAX_READ_TRIES THEN "rLoad" ELSE "firstEra",
     [round |-> IF th[t].round < MAX_READ_TRIES THEN th[t].round + 1 ELSE 0,
      myTx |-> NoTrans, val |-> V0])

ReadRecheck(t) ==
  /\ IF th[t].myTx = curTx
     THEN Go(t, "rRecheck", "rVal", [snap |-> <<cmem[Obj]>>])
     ELSE ReadAgain(t, "rRecheck")
  /\ UNCHANGED <<engine, funcs, history>>

ReadLoadVal(t) ==
  /\ Go(t, "rVal", "rSeq", [val |-> mem[Obj].val])
  /\ UNCHANGED <<engine, funcs, history>>

ReadLoadSeq(t) ==
  /\ At(t, "rSeq")
  /\ IF mem[Obj].seq > th[t].myTx.seq THEN ReadAgain(t, "rSeq")
                                      ELSE Goto(t, "rSeq", "rClear")
  /\ UNCHANGED <<engine, funcs, history>>

ReadReturn(t) ==
  /\ EndOfCall(t, "rClear", Len(th[t].val) + 1)
  /\ he' = [he EXCEPT ![t] = NOERA]
  /\ UNCHANGED <<curTx, request, mem, log, funcs, history>>

(***************************************************************************)
(* Specification.                                                          *)
(***************************************************************************)

Announcing(t) ==
  UpdateTx(t) \/ FirstEra(t) \/ Announce(t)

InRound(t) ==
  \/ RoundReset(t) \/ LoadCurTx(t) \/ CheckAnswered(t) \/ ResetLog(t)
  \/ SetEra(t) \/ Recheck(t)

TransformAll(t) ==
  \/ RawOpSeq(t) \/ RawOpVal(t) \/ RawOpCheck(t) \/ RawResult(t)
  \/ CheckTx(t) \/ RunLoadVal(t) \/ RunFunc(t)
  \/ RunAbort(t)

CommitTx(t) ==
  \/ CommitNothing(t) \/ CommitCheck(t) \/ CommitOpen(t) \/ CommitCas(t)
  \/ CommitCasFails(t) \/ Retire(t) \/ CleanScan(t) \/ CleanFree(t)
  \/ CleanDone(t)

HelpApply(t) ==
  \/ HelpCheckRequest(t) \/ HelpCopy(t) \/ HelpSetEra(t)
  \/ HelpCheckCurTx(t) \/ HelpRecheckRequest(t) \/ ApplyLoad(t)
  \/ ApplyDcas(t) \/ HelpClose(t)

Leaving(t) == ClearEra(t) \/ RetireMyFunc(t) \/ Answer(t)

Reading(t) ==
  \/ ReadTx(t) \/ ReadLoadCurTx(t) \/ ReadSetEra(t) \/ ReadReset(t)
  \/ ReadRecheck(t) \/ ReadLoadVal(t) \/ ReadLoadSeq(t) \/ ReadReturn(t)

Run(t) ==
  \/ Announcing(t) \/ InRound(t) \/ TransformAll(t) \/ CommitTx(t)
  \/ HelpApply(t) \/ Leaving(t) \/ Reading(t)

Drain(t) == DrainFunc(t) \/ DrainSeq(t)

Finished ==
  /\ \A t \in Threads : At(t, "idle") /\ th[t].k > Len(Calls[t])
  /\ UNCHANGED vars

Next == (\E t \in Threads : Run(t) \/ Drain(t)) \/ Finished

Spec == Init /\ [][Next]_vars

(***************************************************************************)
(* Properties.                                                             *)
(***************************************************************************)

Leaves(t) == th[t].pc \in {"leave", "retireFn", "answer"}

\* However innerUpdateTx leaves its loop, after its own commit, after an
\* early look at its result or after four rounds in which others were faster,
\* its function has been run by a published transaction whose store into
\* results[tid] has been applied (OneFileWF.hpp:587-594, 602-604).
RoundsSuffice ==
  \A t \in Threads :
    Leaves(t) => t \in answered /\ mem[t].seq > th[t].opSeq

\* A function that transformAll runs has not been deleted, although its
\* thread may have seen its result, returned, and cleaned up during a later
\* transaction (OneFileWF.hpp:599-600, 616-618, 822-826, 843).
RunsLiveFunctions ==
  \A t \in Threads : th[t].pc \in {"runVal", "runSeq"} => th[t].fn \notin freed

PhaseOf(t) ==
  CASE At(t, "idle") -> "idle"
    [] t \in answered -> "done"
    [] t \notin answered /\ th[t].snap # <<>> -> "observed"
    [] OTHER -> "called"

ResultOf(t) ==
  CASE PhaseOf(t) = "done" -> cmem[t]
    [] PhaseOf(t) = "observed" -> Len(th[t].snap[1]) + 1
    [] OTHER -> 0

Object == INSTANCE WaitFreeObject WITH
  state <- cmem[Obj],
  phase <- [t \in Threads |-> PhaseOf(t)],
  at <- [t \in Threads |-> th[t].k],
  res <- [t \in Threads |-> ResultOf(t)],
  ret <- [t \in Threads |-> th[t].ret]

\* Every call takes effect once, between its call and its return, in one step
\* with all the calls of its transaction, and returns the result of that step
\* (OneFileWF.hpp:588-594, 641, 831-846).
ImplementsWaitFreeObject == Object!Spec
=============================================================================
