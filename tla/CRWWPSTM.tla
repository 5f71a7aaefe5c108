------------------------------ MODULE CRWWPSTM ------------------------------
(***************************************************************************)
(* CRWWP-STM (stms/CRWWPSTM.hpp): transactions under one reader-writer     *)
(* lock with writer preference (C-RW-WP) and flat combining.  A thread     *)
(* announces its function in its slot of fc; whoever has the lock runs all *)
(* functions it finds, leaves the results, and empties the slots.  Readers *)
(* that are kept waiting announce their functions, too.                    *)
(*                                                                         *)
(* The slots are those of the thread identifiers, so the module is built   *)
(* on ThreadRegistry: threads come, call, and go, the identifier of one is *)
(* given to the next, and maxTid, up to which the slots are looked at,     *)
(* grows meanwhile.  One action per access another thread can see; a       *)
(* function is one step.  The variants that return nothing are the same.   *)
(***************************************************************************)
EXTENDS ThreadRegistry, Sequences

CONSTANT Calls  \* Calls[p]: "write" or "read" for each call of thread p

ASSUME CallsAssumption ==
  /\ Procs = 0 .. Cardinality(Procs) - 1
  /\ \A p \in Procs : Calls[p] \in Seq({"write", "read"})

VARIABLES
  fc,       \* fc[i]: the function announced in slot i, or NoCall
  results,  \* results[i]
  cohort,   \* the owner of the writers' lock, or UNLOCKED
  reading,  \* ri: which slots are READING
  st,       \* the rest of each thread
  object,   \* what the transactions change: those that have changed it
  look      \* history: the result of the last run of each thread's function

stmVars == <<fc, results, cohort, reading, st, object, look>>

UNLOCKED == -1
NoCall == <<>>

\* k is the number of the thread's call, i the slot a loop is at, max the
\* maxTid it has read, fn a function it has loaded, res its own result, ret
\* what its last call returned.
Local == [pc |-> "idle", k |-> 1, announced |-> FALSE, i |-> 0, max |-> 0,
          some |-> FALSE, fn |-> NoCall, res |-> 0, ret |-> 0]

StmInit ==
  /\ Init
  /\ fc = [i \in Tids |-> NoCall]
  /\ results = [i \in Tids |-> 0]
  /\ cohort = UNLOCKED
  /\ reading = [i \in Tids |-> FALSE]
  /\ st = [p \in Procs |-> Local]
  /\ object = <<>>
  /\ look = [p \in Procs |-> 0]

(* Definitions whose comment says "Mutant" are no part of the model.       *)

Go(p, from, to, new) ==
  /\ st[p].pc = from
  /\ st' = [st EXCEPT ![p] = [new EXCEPT !.pc = to]]

Goto(p, from, to) == Go(p, from, to, st[p])

\* A function returns its place in the order of all changes.
Result == Len(object) + 1

Return(p, from, result) ==
  /\ st[p].pc = from
  /\ st' = [st EXCEPT ![p] = [Local EXCEPT !.k = st[p].k + 1, !.ret = result]]
  /\ look' = [look EXCEPT ![p] = 0]

Call(p, kind, to) ==
  /\ pc[p] = "registered"
  /\ st[p].k <= Len(Calls[p]) /\ Calls[p][st[p].k] = kind
  /\ Goto(p, "idle", to)

Announce(p) == fc' = [fc EXCEPT ![tid[p]] = <<p, st[p].k>>]
Done(p) == fc[tid[p]] = NoCall

(***************************************************************************)
(* ns_updateTx.                                                            *)
(***************************************************************************)

UpdateTx(p) ==
  /\ Call(p, "write", "lock")
  /\ Announce(p)
  /\ UNCHANGED <<results, cohort, reading, object, look>>

LockCohort(p) ==
  /\ \/ cohort = UNLOCKED /\ cohort' = p /\ Goto(p, "lock", "isEmpty")
     \/ cohort # UNLOCKED /\ cohort' = cohort /\ Goto(p, "lock", "checkDone")
  /\ UNCHANGED <<fc, results, reading, object, look>>

CheckDone(p) ==
  /\ \/ Done(p) /\ Return(p, "checkDone", results[tid[p]])
     \/ ~Done(p) /\ Goto(p, "checkDone", "lock") /\ look' = look
  /\ UNCHANGED <<fc, results, cohort, reading, object>>

\* One slot of the scan of isEmpty, which reads maxTid for each of them.
IsEmpty(p) ==
  /\ \/ /\ st[p].i < maxTid /\ reading[st[p].i]
        /\ Go(p, "isEmpty", "checkWaiting", [st[p] EXCEPT !.i = 0])
     \/ /\ st[p].i < maxTid /\ ~reading[st[p].i]
        /\ Go(p, "isEmpty", "isEmpty", [st[p] EXCEPT !.i = @ + 1])
     \/ /\ st[p].i >= maxTid
        /\ Goto(p, "isEmpty", "readMax")
  /\ UNCHANGED <<fc, results, cohort, reading, object, look>>

\* Mutant: the early return leaves the lock taken.
CheckWaitingKeepLock(p) ==
  /\ \/ Done(p) /\ Return(p, "checkWaiting", results[tid[p]])
     \/ ~Done(p) /\ Goto(p, "checkWaiting", "isEmpty") /\ look' = look
  /\ UNCHANGED <<fc, results, cohort, reading, object>>

\* The previous owner of the lock may have run the function of this one.
CheckWaiting(p) ==
  /\ \/ /\ Done(p)
        /\ cohort' = UNLOCKED
        /\ Return(p, "checkWaiting", results[tid[p]])
     \/ /\ ~Done(p)
        /\ Goto(p, "checkWaiting", "isEmpty")
        /\ UNCHANGED <<cohort, look>>
  /\ UNCHANGED <<fc, results, reading, object>>

ReadMax(p) ==
  /\ Go(p, "readMax", "collect", [st[p] EXCEPT !.max = maxTid, !.i = 0])
  /\ UNCHANGED <<fc, results, cohort, reading, object, look>>

\* lfc, of which only somethingToDo is used.
Collect(p) ==
  /\ \/ /\ st[p].i < st[p].max
        /\ Go(p, "collect", "collect",
              [st[p] EXCEPT !.some = @ \/ fc[st[p].i] # NoCall, !.i = @ + 1])
     \/ /\ st[p].i = st[p].max
        /\ Go(p, "collect", IF st[p].some THEN "load" ELSE "unlock",
              [st[p] EXCEPT !.i = 0])
  /\ UNCHANGED <<fc, results, cohort, reading, object, look>>

LoadMutation(p) ==
  /\ \/ /\ st[p].i < st[p].max /\ fc[st[p].i] = NoCall
        /\ Go(p, "load", "load", [st[p] EXCEPT !.i = @ + 1])
     \/ /\ st[p].i < st[p].max /\ fc[st[p].i] # NoCall
        /\ Go(p, "load", "run", [st[p] EXCEPT !.fn = fc[st[p].i]])
     \/ st[p].i = st[p].max /\ Goto(p, "load", "unlock")
  /\ UNCHANGED <<fc, results, cohort, reading, object, look>>

IsWrite(fn) == Calls[fn[1]][fn[2]] = "write"

\* Mutant: the result goes to the slot of the thread that runs the function.
RunForItself(p) ==
  /\ Goto(p, "run", "clear")
  /\ results' = [results EXCEPT ![tid[p]] = Result]
  /\ look' = [look EXCEPT ![st[p].fn[1]] = Result]
  /\ object' = IF IsWrite(st[p].fn) THEN Append(object, st[p].fn) ELSE object
  /\ UNCHANGED <<fc, cohort, reading>>

RunMutation(p) ==
  /\ Goto(p, "run", "clear")
  /\ results' = [results EXCEPT ![st[p].i] = Result]
  /\ look' = [look EXCEPT ![st[p].fn[1]] = Result]
  /\ object' = IF IsWrite(st[p].fn) THEN Append(object, st[p].fn) ELSE object
  /\ UNCHANGED <<fc, cohort, reading>>

ClearSlot(p) ==
  /\ Go(p, "clear", "load", [st[p] EXCEPT !.fn = NoCall, !.i = @ + 1])
  /\ fc' = [fc EXCEPT ![st[p].i] = NoCall]
  /\ UNCHANGED <<results, cohort, reading, object, look>>

Unlock(p) ==
  /\ cohort' = UNLOCKED
  /\ Return(p, "unlock", results[tid[p]])
  /\ UNCHANGED <<fc, results, reading, object>>

(***************************************************************************)
(* ns_readTx.                                                              *)
(***************************************************************************)

ReadTx(p) ==
  /\ Call(p, "read", "arrive")
  /\ UNCHANGED <<fc, results, cohort, reading, object, look>>

Arrive(p) ==
  /\ Goto(p, "arrive", "isLocked")
  /\ reading' = [reading EXCEPT ![tid[p]] = TRUE]
  /\ UNCHANGED <<fc, results, cohort, object, look>>

\* Mutant: the reader does not look for a writer again once it has arrived.
IsLockedOnce(p) ==
  /\ Goto(p, "isLocked", IF st[p].announced \/ cohort = UNLOCKED
                         THEN "readFunc" ELSE "depart")
  /\ UNCHANGED <<fc, results, cohort, reading, object, look>>

IsLocked(p) ==
  /\ Goto(p, "isLocked", IF cohort = UNLOCKED THEN "readFunc" ELSE "depart")
  /\ UNCHANGED <<fc, results, cohort, reading, object, look>>

Depart(p) ==
  /\ Goto(p, "depart", IF st[p].announced THEN "spin" ELSE "announce")
  /\ reading' = [reading EXCEPT ![tid[p]] = FALSE]
  /\ UNCHANGED <<fc, results, cohort, object, look>>

AnnounceRead(p) ==
  /\ Go(p, "announce", "spin", [st[p] EXCEPT !.announced = TRUE])
  /\ Announce(p)
  /\ UNCHANGED <<results, cohort, reading, object, look>>

Spin(p) ==
  /\ Goto(p, "spin", IF cohort = UNLOCKED THEN "arrive" ELSE "checkRead")
  /\ UNCHANGED <<fc, results, cohort, reading, object, look>>

CheckRead(p) ==
  /\ \/ Done(p) /\ Return(p, "checkRead", results[tid[p]])
     \/ ~Done(p) /\ Goto(p, "checkRead", "spin") /\ look' = look
  /\ UNCHANGED <<fc, results, cohort, reading, object>>

ReadFunc(p) ==
  /\ Go(p, "readFunc", "withdraw", [st[p] EXCEPT !.res = Result])
  /\ look' = [look EXCEPT ![p] = Result]
  /\ UNCHANGED <<fc, results, cohort, reading, object>>

\* Mutant: the function stays announced.
WithdrawNothing(p) ==
  /\ Goto(p, "withdraw", "leave")
  /\ UNCHANGED <<fc, results, cohort, reading, object, look>>

Withdraw(p) ==
  /\ Goto(p, "withdraw", "leave")
  /\ fc' = IF st[p].announced THEN [fc EXCEPT ![tid[p]] = NoCall] ELSE fc
  /\ UNCHANGED <<results, cohort, reading, object, look>>

Leave(p) ==
  /\ Return(p, "leave", st[p].res)
  /\ reading' = [reading EXCEPT ![tid[p]] = FALSE]
  /\ UNCHANGED <<fc, results, cohort, object>>

(***************************************************************************)
(* The threads, which register before their first call.                    *)
(***************************************************************************)

Writer(p) ==
  \/ UpdateTx(p) \/ LockCohort(p) \/ CheckDone(p) \/ IsEmpty(p)
  \/ CheckWaiting(p) \/ ReadMax(p) \/ Collect(p) \/ LoadMutation(p)
  \/ RunMutation(p) \/ ClearSlot(p) \/ Unlock(p)

Reader(p) ==
  \/ ReadTx(p) \/ Arrive(p) \/ IsLocked(p) \/ Depart(p) \/ AnnounceRead(p)
  \/ Spin(p) \/ CheckRead(p) \/ ReadFunc(p) \/ Withdraw(p) \/ Leave(p)

RegistryStep(p) ==
  /\ st[p].pc = "idle"
  /\ Start(p) \/ Register(p) \/ Deregister(p)
  /\ UNCHANGED stmVars

StmNext ==
  \/ \E p \in Procs : \/ (Writer(p) \/ Reader(p)) /\ UNCHANGED vars
                      \/ RegistryStep(p)
  \/ Finished /\ UNCHANGED stmVars

StmSpec == StmInit /\ [][StmNext]_<<vars, stmVars>>

\* A thread is scheduled while it is in a call.  Those of Fair are scheduled
\* while they register, too.
FairStmSpec ==
  /\ StmSpec
  /\ \A p \in Procs : WF_stmVars(Writer(p) \/ Reader(p))
  /\ \A p \in Fair : WF_vars(Register(p))

(***************************************************************************)
(* Properties.                                                             *)
(***************************************************************************)

\* No function runs while a reader runs its own, and never two at a time
\* (CRWWPSTM.hpp:268-273, 317-332, 411-414).
FunctionsExclude ==
  \A p, q \in Procs :
    st[p].pc = "run" => st[q].pc # "readFunc" /\ (q # p => st[q].pc # "run")

\* A function that is about to be run belongs to a call that has not returned,
\* and a slot that has no owner is empty: functions are on the stack of their
\* callers (CRWWPSTM.hpp:311-314, 349, 409-417, 430).
RunsLiveFunctions ==
  /\ \A p \in Procs : st[p].pc = "run" => st[st[p].fn[1]].k = st[p].fn[2]
  /\ \A i \in Tids : ~usedTID[i] => fc[i] = NoCall /\ ~reading[i]

\* A call that has begun returns ("Blocking (starvation-free)",
\* CRWWPSTM.hpp:308, 405), for a finite number of calls.
CallsReturn ==
  \A p \in Procs : st[p].pc # "idle" ~> st[p].pc = "idle"

(***************************************************************************)
(* The inductive invariant.                                                *)
(***************************************************************************)

\* Past the scan of isEmpty, and with the lock.
Combining == {"readMax", "collect", "load", "run", "clear", "unlock"}
Held == Combining \cup {"isEmpty", "checkWaiting"}

\* A thread shows in its slot of the read indicator while it is a reader at
\* one of these steps, and has seen the lock free at those of Inside.
Arrived == {"isLocked", "depart", "readFunc", "withdraw", "leave"}
Inside == {"readFunc", "withdraw", "leave"}

\* Its function may be announced.
Waiting(q) ==
  \/ st[q].pc \in (Held \ {"unlock"}) \cup {"lock", "checkDone"}
  \/ /\ st[q].announced
     /\ st[q].pc \in {"spin", "checkRead", "arrive", "isLocked", "depart",
                      "readFunc", "withdraw"}

Steps == Held \cup Arrived \cup
         {"idle", "lock", "checkDone", "arrive", "announce", "spin",
          "checkRead"}

\* Every variable of the lock and of the slots has its type.
Calling == {NoCall} \cup (Procs \X Int)

Locals ==
  [pc : Steps, k : Int, announced : BOOLEAN, i : Nat, max : Int,
   some : BOOLEAN, fn : Calling, res : Int, ret : Int]

StmTypeOK ==
  /\ fc \in [Tids -> Calling]
  /\ results \in [Tids -> Int]
  /\ reading \in [Tids -> BOOLEAN]
  /\ st \in [Procs -> Locals]
  /\ object \in Seq(Calling)

\* Only registered threads are in a call, and only the owner of the lock is
\* past LockCohort.
Callers ==
  \A p \in Procs :
    /\ st[p].pc # "idle" => pc[p] = "registered"
    /\ st[p].pc \in Held => cohort = p
    /\ st[p].pc \in {"idle", "lock", "checkDone", "checkWaiting"} =>
         st[p].i = 0

\* The read indicator shows the readers that have arrived, and no others.
ReadersShow ==
  \A i \in Tids : reading[i] <=>
    \E q \in Procs : st[q].pc \in Arrived /\ tid[q] = i

\* Once a reader is inside, no writer gets past its slot.
ReadersStopWriters ==
  \A p, q \in Procs :
    st[q].pc \in Inside =>
      /\ st[p].pc \notin Combining
      /\ st[p].pc = "isEmpty" => st[p].i <= tid[q]

\* What is in a slot is the function of the call its owner is in.
SlotsAreCalls ==
  \A i \in Tids : fc[i] # NoCall =>
    \E q \in Procs : Waiting(q) /\ tid[q] = i /\ fc[i] = <<q, st[q].k>>

\* The loops of the owner of the lock reach its own slot and leave it empty.
LoopsCoverOwner ==
  \A p \in Procs :
    /\ st[p].pc \in {"collect", "load", "run", "clear"} =>
         tid[p] < st[p].max /\ st[p].max <= MaxThreads
    /\ st[p].pc \in {"load", "run", "clear"} /\ st[p].i > tid[p] =>
         fc[tid[p]] = NoCall
    /\ st[p].pc = "collect" /\ st[p].i > tid[p] /\ ~st[p].some =>
         fc[tid[p]] = NoCall
    /\ st[p].pc \in {"run", "clear"} =>
         st[p].i < st[p].max /\ fc[st[p].i] # NoCall
    /\ st[p].pc = "run" => st[p].fn = fc[st[p].i]

StmInv ==
  /\ StmTypeOK
  /\ Callers
  /\ ReadersShow
  /\ ReadersStopWriters
  /\ SlotsAreCalls
  /\ LoopsCoverOwner
=============================================================================
