----------------------------- MODULE RomulusLR -----------------------------
(***************************************************************************)
(* RomulusLR (ptms/romuluslr): RomulusLog with Left-Right instead of the   *)
(* readers' side of its lock.  While the combiner changes main, readers    *)
(* are on back; while it copies main to back, they are on main.  leftRight *)
(* sends them from one to the other, and a reader that is late is found in *)
(* one of two read indicators, between which versionIndex toggles.  A      *)
(* reader never waits.                                                     *)
(*                                                                         *)
(* What the source repeats from RomulusLog is the action of that module;   *)
(* its variable reading has no use here.  The steps of the combiner are    *)
(*                                                                         *)
(*   SetMutating, SetRight, ReadBack, toggleVersionAndWait, RunFunction,   *)
(*   SetCopying, PSync, ReadMain, toggleVersionAndWait, ClearRight,        *)
(*   Answer, CopyToBack, SetIdle.                                          *)
(***************************************************************************)
EXTENDS RomulusLog

VARIABLES
  leftRight,     \* the side readers are sent to
  versionIndex,  \* the read indicator they arrive at
  ri,            \* ri[v][t]: thread t is READING in the indicator v
  gRight,        \* g_right: somebody may be on the right side
  side,          \* tl_lrromulus of each thread
  localVI,       \* versionIndex as a reader has loaded it
  since          \* history: how many calls a reader must see

sides == <<leftRight, versionIndex, ri, gRight>>
lrVars == <<sides, side, localVI, since>>

TRAVERSE_LEFT == 0
TRAVERSE_RIGHT == 1

LRInit ==
  /\ Init
  /\ leftRight = TRAVERSE_LEFT
  /\ versionIndex = 0
  /\ ri = [v \in {0, 1} |-> [t \in Threads |-> FALSE]]
  /\ gRight = FALSE
  /\ side = [t \in Threads |-> TRAVERSE_LEFT]
  /\ localVI = [t \in Threads |-> 0]
  /\ since = [t \in Threads |-> 0]

PLoad(t, w) ==
  Now(nvm, IF gRight /\ side[t] = TRAVERSE_RIGHT THEN Back(w) ELSE Main(w))

(***************************************************************************)
(* ns_write_transaction.                                                   *)
(***************************************************************************)

LockWriters(t) ==
  /\ \/ WriteTransaction(t) \/ TryExclusiveLock(t) \/ CheckDone(t)
     \/ Collect(t) \/ ExclusiveUnlock(t)
  /\ UNCHANGED lrVars

\* The first step of a transaction, and the last but one.
SetRight(t) ==
  /\ Goto(t, "wait", "right")
  /\ gRight' = TRUE
  /\ UNCHANGED <<memory, fc, lock, reading, history, leftRight, versionIndex,
                 ri, side, localVI, since>>

\* Mutant: a combiner that has read before keeps the side it was sent to.
ReadBackToo(t) ==
  /\ Goto(t, "right", "waitNext")
  /\ leftRight' = TRAVERSE_RIGHT
  /\ UNCHANGED <<memory, fc, lock, reading, history, versionIndex, ri, gRight,
                 side, localVI, since>>

\* Readers are sent to back, and the combiner itself works on main.
ReadBack(t) ==
  /\ Goto(t, "right", "waitNext")
  /\ leftRight' = TRAVERSE_RIGHT
  /\ side' = [side EXCEPT ![t] = TRAVERSE_LEFT]
  /\ UNCHANGED <<memory, fc, lock, reading, history, versionIndex, ri, gRight,
                 localVI, since>>

\* The scan of isEmpty, from the start again when it meets a reader.  Before
\* the toggle and after it the indicator is the one readers do not go to.
Scan(t, from, to) ==
  /\ \/ /\ th[t].i < N
        /\ Go(t, from, from,
              Slot(t, IF ri[1 - versionIndex][th[t].i] THEN 0 ELSE th[t].i + 1))
     \/ th[t].i = N /\ Go(t, from, to, Slot(t, 0))
  /\ UNCHANGED <<memory, fc, lock, reading, history, lrVars>>

\* Mutant: the next version is not waited for.
WaitNextNot(t) ==
  /\ Goto(t, "waitNext", "toggle")
  /\ UNCHANGED <<memory, fc, lock, reading, history, lrVars>>

WaitNext(t) == Scan(t, "waitNext", "toggle")

Toggle(t) ==
  /\ Goto(t, "toggle", "waitPrev")
  /\ versionIndex' = 1 - versionIndex
  /\ UNCHANGED <<memory, fc, lock, reading, history, leftRight, ri, gRight,
                 side, localVI, since>>

WaitPrev(t) ==
  Scan(t, "waitPrev",
       IF leftRight = TRAVERSE_RIGHT THEN "run" ELSE "clearRight")

ToggleVersionAndWait(t) == WaitNext(t) \/ Toggle(t) \/ WaitPrev(t)

\* The functions, their stores, and the fence after them.
Mutate(t) ==
  /\ \/ SetMutating(t) \/ RunFunction(t)
     \/ \E w \in Words : StoreAfter(t, w, PLoad(t, w))
     \/ SetCopying(t)
  /\ UNCHANGED lrVars

\* Mutant: readers see the changes before the state is durable.
ReadMainUnsynced(t) ==
  /\ Goto(t, "psync", "left")
  /\ UNCHANGED <<memory, fc, lock, reading, history, lrVars>>

LRPSync(t) == Synced(t, "left") /\ UNCHANGED lrVars

\* Readers are sent to main.
ReadMain(t) ==
  /\ Goto(t, "left", "waitNext")
  /\ leftRight' = TRAVERSE_LEFT
  /\ UNCHANGED <<memory, fc, lock, reading, history, versionIndex, ri, gRight,
                 side, localVI, since>>

ClearRight(t) ==
  /\ Goto(t, "clearRight", "answer")
  /\ gRight' = FALSE
  /\ UNCHANGED <<memory, fc, lock, reading, history, leftRight, versionIndex,
                 ri, side, localVI, since>>

AnswerAndCopy(t) ==
  /\ Answer(t) \/ CopyToBack(t) \/ SetIdle(t)
  /\ UNCHANGED lrVars

(***************************************************************************)
(* ns_read_transaction.                                                    *)
(***************************************************************************)

\* history: calls whose effect somebody has seen already.
MustSee == Max({0} \cup {n \in DOMAIN ran : ran[n] \in due})

LoadVersion(t) ==
  /\ HasCall(t) /\ Call(t) = {}
  /\ Goto(t, "idle", "arrive")
  /\ localVI' = [localVI EXCEPT ![t] = versionIndex]
  /\ since' = [since EXCEPT ![t] = MustSee]
  /\ UNCHANGED <<memory, fc, lock, reading, history, sides, side>>

ArriveAt(t) ==
  /\ Goto(t, "arrive", "loadSide")
  /\ ri' = [ri EXCEPT ![localVI[t]][t] = TRUE]
  /\ UNCHANGED <<memory, fc, lock, reading, history, leftRight, versionIndex,
                 gRight, side, localVI, since>>

LoadSide(t) ==
  /\ Go(t, "loadSide", "read", [th[t] EXCEPT !.todo = Words])
  /\ side' = [side EXCEPT ![t] = leftRight]
  /\ UNCHANGED <<memory, fc, lock, reading, history, sides, localVI, since>>

ReadSide(t) ==
  /\ th[t].todo # {}
  /\ LET w == CHOOSE w \in th[t].todo : TRUE IN Load(t, w, PLoad(t, w))
  /\ UNCHANGED lrVars

\* Mutant: the reader looks up the version again to depart.
DepartFromCurrent(t) ==
  /\ HasRead(t)
  /\ ri' = [ri EXCEPT ![versionIndex][t] = FALSE]
  /\ localVI' = [localVI EXCEPT ![t] = 0]
  /\ since' = [since EXCEPT ![t] = 0]
  /\ UNCHANGED <<memory, fc, lock, reading, leftRight, versionIndex, gRight,
                 side>>

DepartFrom(t) ==
  /\ HasRead(t)
  /\ ri' = [ri EXCEPT ![localVI[t]][t] = FALSE]
  /\ localVI' = [localVI EXCEPT ![t] = 0]
  /\ since' = [since EXCEPT ![t] = 0]
  /\ UNCHANGED <<memory, fc, lock, reading, leftRight, versionIndex, gRight,
                 side>>

(***************************************************************************)
(* The specification.                                                      *)
(***************************************************************************)

LRUpdate(t) ==
  \/ LockWriters(t) \/ SetRight(t) \/ ReadBack(t) \/ ToggleVersionAndWait(t)
  \/ Mutate(t) \/ LRPSync(t) \/ ReadMain(t) \/ ClearRight(t)
  \/ AnswerAndCopy(t)

LRReads(t) ==
  \/ LoadVersion(t) \/ ArriveAt(t) \/ LoadSide(t) \/ ReadSide(t)
  \/ DepartFrom(t)

LRRun(t) == LRUpdate(t) \/ LRReads(t)

\* A power failure leaves nothing of what is not in persistent memory.
LRPowerFailure ==
  /\ \E kept \in Failures(nvm) : PowerFailure(kept)
  /\ leftRight' = TRAVERSE_LEFT
  /\ versionIndex' = 0
  /\ ri' = [v \in {0, 1} |-> [t \in Threads |-> FALSE]]
  /\ gRight' = FALSE
  /\ side' = [t \in Threads |-> TRAVERSE_LEFT]
  /\ localVI' = [t \in Threads |-> 0]
  /\ since' = [t \in Threads |-> 0]

LRRecover == Recover /\ UNCHANGED lrVars

LRNext ==
  \/ \E t \in Threads : LRRun(t)
  \/ LRPowerFailure
  \/ LRRecover
  \/ Finished /\ UNCHANGED lrVars

LRSpec == LRInit /\ [][LRNext]_<<vars, lrVars>>

\* Threads are scheduled and a restarted program recovers.
LRFairSpec ==
  /\ LRSpec
  /\ WF_<<vars, lrVars>>(LRRecover)
  /\ \A t \in Threads : WF_<<vars, lrVars>>(LRRun(t))

(***************************************************************************)
(* Properties.                                                             *)
(***************************************************************************)

\* The variables of RomulusLog have their types here, too, and back is read
\* while gRight says that it may be.
LRTypeOK ==
  /\ Types(Labels \cup {"right", "waitNext", "toggle", "waitPrev", "left",
                       "clearRight", "loadSide"})
  /\ leftRight \in {TRAVERSE_LEFT, TRAVERSE_RIGHT}
  /\ versionIndex \in {0, 1}
  /\ ri \in [{0, 1} -> [Threads -> BOOLEAN]]
  /\ gRight \in BOOLEAN /\ (leftRight = TRAVERSE_RIGHT => gRight)
  /\ side \in [Threads -> {TRAVERSE_LEFT, TRAVERSE_RIGHT}]
  /\ localVI \in [Threads -> {0, 1}]
  /\ since \in [Threads -> Nat]

\* A read transaction sees all of each call or nothing, the calls in the order
\* in which they were run, and every call that had returned, or been seen by
\* another reader, when it began, on whichever replica it is and however long
\* it pauses between versionIndex, its arrival and leftRight
\* (RomulusLR.hpp:298-310, 619-637, 675-684).  On back this is so while a
\* failure has left no word stale there.
ReadersSeeRecent ==
  \A t \in Threads :
    /\ At(t, "read") /\ th[t].todo = {} /\ ~spoilt
    /\ side[t] = TRAVERSE_RIGHT => stale = {}
    => \E n \in since[t] .. Len(ran) : th[t].seen = Effect(n)

\* Unless spoilt, main has whole calls after a failure, all that a caller was
\* told of or a reader has seen among them, and back the same but for what had
\* not been written back there: "Readers can only see the changes after making
\* sure they are persisted" (RomulusLR.hpp:635, 643-648).
SurvivesFailures == ReplicasAreWhole /\ NothingIsLost
=============================================================================
