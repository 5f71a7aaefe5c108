---------------------------- MODULE OneFileLFMem ----------------------------
(***************************************************************************)
(* The lock-free OneFile STM with the objects its transactions allocate    *)
(* and delete: tmNew, tmDelete, the roll-back of allocations, and          *)
(* HazardErasOF, which frees a retired object when no thread can still     *)
(* touch it.  The actions of OneFileLF are conjoined with what they do to  *)
(* objects; the words are some roots and one word (a pointer) in each      *)
(* object.                                                                 *)
(*                                                                         *)
(* The program run by the transactions is any that is correct when run     *)
(* alone: it goes from the roots along the pointers it has loaded, deletes *)
(* only what its transaction has made unreachable, and does not make it    *)
(* reachable again.                                                        *)
(***************************************************************************)
EXTENDS OneFileLF

CONSTANTS
  Roots,   \* words that are not inside an object
  Objs,    \* the addresses malloc can return
  Null

ASSUME MemAssumption ==
  /\ Words = Roots \cup Objs
  /\ Vals = Objs \cup {Null}
  /\ Null \notin Objs
  /\ Roots \cap Objs = {}

VARIABLES
  allocated,  \* objects between malloc and free
  newEra,     \* tmbase::newEra_
  delEra,     \* tmbase::delEra_
  alog,       \* OpData::alog: objects allocated by the transaction
  rlog,       \* OpData::rlog: objects deleted by the transaction
  retired,    \* HazardErasOF::retiredList
  cleanAt,    \* where a thread is in HazardErasOF::clean
  curEra,     \* the argument curEra of clean
  known       \* the objects the program of an attempt has pointers to

memVars == <<allocated, newEra, delEra, alog, rlog, retired, cleanAt, curEra,
             known>>
allVars == <<vars, memVars>>

\* Loop indices of clean: object iret of the retired list, thread it.
NotCleaning == [iret |-> 0, it |-> 0]
FirstObject == [iret |-> 1, it |-> 0]

\* Objects that can be reached from the roots in a memory image.
ClosedIn(image, S) ==
  \A w \in Roots \cup S : image[w] \in Objs => image[w] \in S
Reachable(image) ==
  {o \in Objs : \A S \in SUBSET Objs : ClosedIn(image, S) => o \in S}

MInit ==
  /\ Init
  /\ allocated = Reachable(InitImage)
  /\ newEra = [o \in Objs |-> 1]
  /\ delEra = [o \in Objs |-> 0]
  /\ alog = [t \in Threads |-> {}]
  /\ rlog = [t \in Threads |-> <<>>]
  /\ retired = [t \in Threads |-> <<>>]
  /\ cleanAt = [t \in Threads |-> NotCleaning]
  /\ curEra = [t \in Threads |-> 0]
  /\ known = [t \in Threads |-> {}]

(***************************************************************************)
(* Allocation and deletion inside a transaction.                           *)
(***************************************************************************)

\* Mutant: numRetires is not reset.
DeleteAllocsOnly(t) ==
  /\ allocated' = allocated \ alog[t]
  /\ alog' = [alog EXCEPT ![t] = {}]
  /\ known' = [known EXCEPT ![t] = {}]
  /\ UNCHANGED <<newEra, delEra, rlog, retired, cleanAt, curEra>>

\* The attempt is over: deleteAllocsFromLog, and numRetires = 0.
DeleteAllocs(t) ==
  /\ allocated' = allocated \ alog[t]
  /\ alog' = [alog EXCEPT ![t] = {}]
  /\ rlog' = [rlog EXCEPT ![t] = <<>>]
  /\ known' = [known EXCEPT ![t] = {}]
  /\ UNCHANGED <<newEra, delEra, retired, cleanAt, curEra>>

\* malloc, the constructor, newEra_ from curTx, and the entry in the log of
\* allocations.  A new tmtype has sequence 1.
TmNew(t, o, v) ==
  /\ Operate(t, "body", "body")
  /\ o \notin allocated
  /\ allocated' = allocated \cup {o}
  /\ mem' = [mem EXCEPT ![o] = [val |-> v, seq |-> 1]]
  /\ newEra' = [newEra EXCEPT ![o] = curTx.seq]
  /\ delEra' = [delEra EXCEPT ![o] = 0]
  /\ alog' = [alog EXCEPT ![t] = @ \cup {o}]
  /\ known' = [known EXCEPT ![t] = @ \cup {o}]
  /\ cmem' = [cmem EXCEPT ![o] = v]
  /\ snap' = [snap EXCEPT ![t][o] = v]
  /\ UNCHANGED <<curTx, request, log, he, myTx, helpTx, pos, addr, lval, lseq,
                 numRetires, left, rlog, retired, cleanAt, curEra>>

Deleted(t) == {rlog[t][i] : i \in DOMAIN rlog[t]}
InUse(t) == known[t] \ Deleted(t)
Pointers(t) == InUse(t) \cup {Null}

\* A correct program has unlinked what it deletes.
TmDelete(t, o) ==
  /\ Delete(t)
  /\ o \in InUse(t) \ Reachable(Overlay(snap[t], log[t]))
  /\ rlog' = [rlog EXCEPT ![t] = Append(@, o)]
  /\ UNCHANGED <<allocated, newEra, delEra, alog, retired, cleanAt, curEra,
                 known>>

MLoadReturn(t) ==
  /\ LoadReturn(t)
  /\ known' = [known EXCEPT ![t] = @ \cup ({lval[t]} \cap Objs)]
  /\ UNCHANGED <<allocated, newEra, delEra, alog, rlog, retired, cleanAt,
                 curEra>>

(***************************************************************************)
(* retireRetiresFromLog and HazardErasOF::clean.                           *)
(***************************************************************************)

\* delEra_ is the sequence of curTx by now; all of rlog joins the retired list.
RetireAll(t) ==
  /\ pc[t] = "retire"
  /\ cleanAt[t] = NotCleaning
  /\ delEra' = [o \in Objs |->
                  IF o \in Deleted(t) THEN curTx.seq ELSE delEra[o]]
  /\ retired' = [retired EXCEPT ![t] = @ \o rlog[t]]
  /\ rlog' = [rlog EXCEPT ![t] = <<>>]
  /\ curEra' = [curEra EXCEPT ![t] = curTx.seq]
  /\ cleanAt' = [cleanAt EXCEPT ![t] = FirstObject]
  /\ UNCHANGED <<vars, allocated, newEra, alog, known>>

Cleaning(t) ==
  /\ cleanAt[t] # NotCleaning
  /\ cleanAt[t].iret <= Len(retired[t])

Candidate(t) == retired[t][cleanAt[t].iret]

NextObject(t) ==
  cleanAt' = [cleanAt EXCEPT ![t] = [iret |-> @.iret + 1, it |-> 0]]

\* canDelete: not what the current transaction has retired ...
CleanKeepsCurrent(t) ==
  /\ Cleaning(t)
  /\ cleanAt[t].it = 0
  /\ delEra[Candidate(t)] = curEra[t]
  /\ NextObject(t)
  /\ UNCHANGED <<vars, allocated, newEra, delEra, alog, rlog, retired, curEra,
                 known>>

\* Mutants: one of the bounds is not inclusive, or not there.
ProtectsYounger(era, o) == era # NOERA /\ newEra[o] < era /\ era <= delEra[o]
ProtectsDeleted(era, o) == era # NOERA /\ newEra[o] <= era /\ era < delEra[o]

Protects(era, o) == era # NOERA /\ newEra[o] <= era /\ era <= delEra[o]

\* ... nor what the era of some thread protects; one thread at a time.
CleanScan(t) ==
  /\ Cleaning(t)
  /\ delEra[Candidate(t)] # curEra[t]
  /\ cleanAt[t].it < N
  /\ IF Protects(he[cleanAt[t].it], Candidate(t))
     THEN NextObject(t)
     ELSE cleanAt' = [cleanAt EXCEPT ![t].it = @ + 1]
  /\ UNCHANGED <<vars, allocated, newEra, delEra, alog, rlog, retired, curEra,
                 known>>

CleanFree(t) ==
  /\ Cleaning(t)
  /\ cleanAt[t].it = N
  /\ allocated' = allocated \ {Candidate(t)}
  /\ retired' = [retired EXCEPT ![t] =
                   SubSeq(@, 1, cleanAt[t].iret - 1)
                     \o SubSeq(@, cleanAt[t].iret + 1, Len(@))]
  /\ cleanAt' = [cleanAt EXCEPT ![t].it = 0]
  /\ UNCHANGED <<vars, newEra, delEra, alog, rlog, curEra, known>>

\* Mutant: numAllocs is not reset.
CleanDoneOnly(t) ==
  /\ CommitRetire(t)
  /\ cleanAt[t].iret > Len(retired[t])
  /\ cleanAt' = [cleanAt EXCEPT ![t] = NotCleaning]
  /\ curEra' = [curEra EXCEPT ![t] = 0]
  /\ known' = [known EXCEPT ![t] = {}]
  /\ UNCHANGED <<allocated, newEra, delEra, alog, rlog, retired>>

\* The end of clean; commitTx sets numAllocs = 0.
CleanDone(t) ==
  /\ CommitRetire(t)
  /\ cleanAt[t].iret > Len(retired[t])
  /\ cleanAt' = [cleanAt EXCEPT ![t] = NotCleaning]
  /\ curEra' = [curEra EXCEPT ![t] = 0]
  /\ alog' = [alog EXCEPT ![t] = {}]
  /\ known' = [known EXCEPT ![t] = {}]
  /\ UNCHANGED <<allocated, newEra, delEra, rlog, retired>>

(***************************************************************************)
(* The specification.                                                      *)
(***************************************************************************)

\* A correct program does not link again what it has deleted.
MStore(t, w, v) ==
  /\ Store(t, w, v)
  /\ Deleted(t) \cap Reachable(Overlay(snap[t], AddOrReplace(log[t], w, v))) = {}

\* The actions that do nothing to objects.
Engine(t) ==
  \/ BeginTx(t) \/ HelpApply(t) \/ LoadSeq(t)
  \/ \E w \in Roots \cup InUse(t) :
       LoadVal(t, w) \/ \E v \in Pointers(t) : MStore(t, w, v)
  \/ CommitReadOnly(t) \/ CommitCheck(t) \/ CommitOpen(t) \/ CommitCas(t)
  \/ ClearEra(t)

MThreadNext(t) ==
  \/ Engine(t) /\ UNCHANGED memVars
  \/ /\ Transaction(t) \/ LoadAbort(t) \/ CommitCheckFails(t)
        \/ CommitCasFails(t)
     /\ DeleteAllocs(t)
  \/ MLoadReturn(t)
  \/ \E o \in Objs : TmDelete(t, o) \/ \E v \in Pointers(t) : TmNew(t, o, v)
  \/ RetireAll(t) \/ CleanKeepsCurrent(t) \/ CleanScan(t) \/ CleanFree(t)
  \/ CleanDone(t)

MNext == (\E t \in Threads : MThreadNext(t)) \/ (Finished /\ UNCHANGED memVars)

MSpec == MInit /\ [][MNext]_allVars

(***************************************************************************)
(* Properties.                                                             *)
(***************************************************************************)

\* Every variable has its type.
MemTypeOK ==
  /\ TypeOK
  /\ allocated \subseteq Objs
  /\ newEra \in [Objs -> Nat]
  /\ delEra \in [Objs -> Nat]
  /\ alog \in [Threads -> SUBSET Objs]
  /\ rlog \in [Threads -> Seq(Objs)]
  /\ retired \in [Threads -> Seq(Objs)]
  /\ cleanAt \in [Threads -> [iret : Nat, it : 0 .. N]]
  /\ curEra \in [Threads -> Nat]
  /\ known \in [Threads -> SUBSET Objs]

\* A program never holds a pointer to freed memory: not in an attempt that is
\* going to commit, nor in one that is not (pload, OneFileLF.hpp:735-737).
ProgramPointersAreLive ==
  \A t \in Threads : pc[t] \in ActiveLabels => known[t] \subseteq allocated

\* Nor does a thread that applies a write-set, its own or a copy of another's,
\* touch freed memory, however long ago the transaction was completed by
\* others (helpApply, OneFileLF.hpp:617-621 and 643-647).
ApplyTouchesLiveWords ==
  \A t \in Threads : pc[t] \in ApplyLabels =>
    \A i \in DOMAIN log[t] : log[t][i].addr \in Roots \cup allocated

\* Memory is freed once: an object waits to be freed in one place at most, and
\* while it waits it is allocated and the committed data do not lead to it.
RetiredOnce ==
  \A t \in Threads : \A i \in DOMAIN retired[t] :
    /\ retired[t][i] \in allocated \ Reachable(cmem)
    /\ \A u \in Threads : \A j \in DOMAIN retired[u] :
         retired[u][j] = retired[t][i] => u = t /\ j = i
    /\ \A u \in Threads : ~Published(u) => retired[t][i] \notin alog[u]

\* What a transaction allocated is deleted again only "in the event of a failed
\* commit of the transaction" (OneFileLF.hpp:535-540): the first attempt of a
\* transaction, whose predecessor has committed, frees nothing.
FirstAttemptFreesNothing ==
  [][\A t \in Threads :
       pc[t] = "idle" /\ pc'[t] = "begin" =>
         allocated \subseteq allocated']_allVars
=============================================================================
