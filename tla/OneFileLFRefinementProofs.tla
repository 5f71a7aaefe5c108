---------------------- MODULE OneFileLFRefinementProofs ----------------------
(***************************************************************************)
(* The proof that OneFileLF implements AtomicSTM, for any number of        *)
(* threads, words, values and transactions: every step of a thread is, of  *)
(* the abstract variables of OneFileLFRefinement, one step of that thread  *)
(* or none at all.                                                         *)
(***************************************************************************)
EXTENDS OneFileLFRefinement, OneFileLFProofs

(***************************************************************************)
(* The abstract state of one thread.                                       *)
(***************************************************************************)

\* The phase is that of the label.
LEMMA Phases ==
  ASSUME NEW t \in Threads
  PROVE  /\ pc[t] = "idle" => PhaseOf(t) = "idle"
         /\ Active(t) => PhaseOf(t) = "active"
         /\ Published(t) => PhaseOf(t) = "done"
         /\ pc[t] # "idle" /\ ~Active(t) /\ ~Published(t) =>
              PhaseOf(t) = "starting"
<1> USE DEF PhaseOf
<1>1. pc[t] = "idle" => ~Active(t) /\ ~Published(t)
  BY DEF Active, ActiveLabels, LoadLabels, Published, HelpLabels, ApplyLabels
<1>2. Active(t) => pc[t] # "idle" /\ ~Published(t)
  BY DEF Active, ActiveLabels, LoadLabels, Published, HelpLabels, ApplyLabels
<1>3. QED
  BY <1>1, <1>2

LEMMA PhasesNext ==
  ASSUME NEW t \in Threads
  PROVE  /\ pc'[t] = "idle" => PhaseOf(t)' = "idle"
         /\ Active(t)' => PhaseOf(t)' = "active"
         /\ Published(t)' => PhaseOf(t)' = "done"
         /\ pc'[t] # "idle" /\ ~Active(t)' /\ ~Published(t)' =>
              PhaseOf(t)' = "starting"
<1> USE DEF PhaseOf
<1>1. pc'[t] = "idle" => ~Active(t)' /\ ~Published(t)'
  BY DEF Active, ActiveLabels, LoadLabels, Published, HelpLabels, ApplyLabels
<1>2. Active(t)' => pc'[t] # "idle" /\ ~Published(t)'
  BY DEF Active, ActiveLabels, LoadLabels, Published, HelpLabels, ApplyLabels
<1>3. QED
  BY <1>1, <1>2

\* Outside of its attempts a thread has no snapshot and no stores.
NoAttempt(t) ==
  /\ SnapOf(t) = InitImage /\ SinceOf(t) = 0 /\ RetOf(t) = NoVal
  /\ StoresOf(t) = [w \in Words |-> NoVal]

LEMMA Outside ==
  ASSUME NEW t \in Threads
  PROVE  /\ ~Active(t) => NoAttempt(t)
         /\ ~Active(t)' => NoAttempt(t)'
<1>1. ~Active(t) => pc[t] # "loaded"
  BY DEF Active, ActiveLabels, LoadLabels
<1>2. ~Active(t)' => pc'[t] # "loaded"
  BY DEF Active, ActiveLabels, LoadLabels
<1>3. QED
  BY <1>1, <1>2 DEF NoAttempt, SnapOf, SinceOf, RetOf, StoresOf

LEMMA InitRefined == Init => Abs!Init
<1> SUFFICES ASSUME Init
             PROVE  Abs!Init
  OBVIOUS
<1>1. ASSUME NEW t \in Threads
      PROVE  PhaseOf(t) = "idle" /\ NoAttempt(t)
  <2>1. pc[t] = "idle" /\ ~Active(t)
    BY DEF Init, Active, ActiveLabels, LoadLabels
  <2>2. QED
    BY <2>1, Phases, Outside
<1>2. curTx.seq = 1 /\ cmem = InitImage
  BY DEF Init, Trans
<1>3. QED
  BY <1>1, <1>2 DEF NoAttempt, Abs!Init, Abs!NoStores

(***************************************************************************)
(* What the invariant of OneFileLFInv does not say: an attempt has stored  *)
(* nothing before its body.                                                *)
(***************************************************************************)

EmptyLog == \A t \in Threads : pc[t] \in {"setEra", "recheck"} => log[t] = <<>>

(***************************************************************************)
(* Frames.                                                                 *)
(***************************************************************************)

SameAbstract(u) ==
  /\ PhaseOf(u)' = PhaseOf(u) /\ SnapOf(u)' = SnapOf(u)
  /\ SinceOf(u)' = SinceOf(u) /\ StoresOf(u)' = StoresOf(u)
  /\ RetOf(u)' = RetOf(u)

OthersSame(t) == \A u \in Threads \ {t} : SameAbstract(u)

LEMMA OthersFrame ==
  ASSUME Inv, NEW t \in Threads, ThreadNext(t)
  PROVE  OthersSame(t)
<1> SUFFICES ASSUME NEW u \in Threads \ {t}
             PROVE  SameAbstract(u)
  BY DEF OthersSame
<1>1. SameThread(u)
  BY OthersKeep DEF Inv
<1>2. (Active(u)' <=> Active(u)) /\ (Published(u)' <=> Published(u))
  BY <1>1 DEF SameThread, Active, Published, CalledByCommit
<1>3. PhaseOf(u)' = PhaseOf(u)
  BY <1>1, <1>2, Phases, PhasesNext DEF SameThread
<1>4. StoresOf(u)' = StoresOf(u)
  BY <1>1, <1>2 DEF SameThread, StoresOf
<1>5. QED
  BY <1>1, <1>2, <1>3, <1>4
     DEF SameThread, SameAbstract, SnapOf, SinceOf, RetOf

\* A step that changes nothing of its thread's abstract state is none.
LEMMA Stutters ==
  ASSUME NEW t \in Threads, OthersSame(t), SameAbstract(t), cmem' = cmem,
         curTx' = curTx
  PROVE  UNCHANGED Abs!avars
<1>1. \A u \in Threads : SameAbstract(u)
  BY DEF OthersSame
<1>2. QED
  BY <1>1 DEF SameAbstract, Abs!avars

(***************************************************************************)
(* Steps between attempts.                                                 *)
(***************************************************************************)

\* The labels of a thread that waits for an attempt to begin.
Starting(t) == pc[t] # "idle" /\ ~Active(t) /\ ~Published(t)

\* Labels say which phase a thread is in; inside helpApply it depends on who
\* has called it.
LEMMA LabelFacts ==
  ASSUME NEW t \in Threads
  PROVE  /\ pc[t] \in {"begin", "reset", "setEra", "recheck"} => Starting(t)
         /\ pc'[t] \in {"begin", "reset", "setEra", "recheck"} => Starting(t)'
         /\ pc[t] \in {"retire", "clear"} => Published(t)
         /\ pc'[t] \in {"retire", "clear"} => Published(t)'
         /\ InHelp(t) => IF CalledByCommit(t) THEN Published(t) ELSE Starting(t)
         /\ InHelp(t)' =>
              IF CalledByCommit(t)' THEN Published(t)' ELSE Starting(t)'
         /\ Active(t) => ~Published(t) /\ ~Starting(t)
         /\ Published(t) => ~Active(t) /\ ~Starting(t)
         /\ Published(t)' => ~Active(t)'
BY DEF Starting, Published, Active, ActiveLabels, LoadLabels, InHelp,
   HelpLabels, ApplyLabels

\* A thread that stays in a phase outside of its attempts makes no step.
LEMMA Waits ==
  ASSUME Inv, NEW t \in Threads, ThreadNext(t), cmem' = cmem, curTx' = curTx,
         \/ Starting(t) /\ Starting(t)'
         \/ Published(t) /\ Published(t)'
  PROVE  UNCHANGED Abs!avars
<1>1. ~Active(t) /\ ~Active(t)'
  BY LabelFacts DEF Starting
<1>2. PhaseOf(t)' = PhaseOf(t)
  BY Phases, PhasesNext DEF Starting
<1>3. NoAttempt(t) /\ NoAttempt(t)'
  BY <1>1, Outside
<1>4. SameAbstract(t)
  BY <1>2, <1>3 DEF NoAttempt, SameAbstract
<1>5. QED
  BY <1>4, OthersFrame, Stutters

\* A thread in helpApply stays there, or goes on where it was called.
LEMMA HelpMoves ==
  ASSUME Inv, NEW t \in Threads, HelpApply(t)
  PROVE  /\ cmem' = cmem /\ curTx' = curTx /\ UNCHANGED <<helpTx, myTx>>
         /\ InHelp(t) /\ (InHelp(t)' \/ pc'[t] = AfterHelp(t))
<1> USE DEF Step, Inv, Core, TypeOK, InHelp, HelpLabels, ApplyLabels
<1>1. CASE HelpCheckRequest(t)
  BY <1>1 DEF HelpCheckRequest
<1>2. CASE HelpCopyNum(t)
  BY <1>2 DEF HelpCopyNum
<1>3. CASE HelpCopyEntry(t)
  BY <1>3 DEF HelpCopyEntry
<1>4. CASE HelpSetEra(t)
  BY <1>4 DEF HelpSetEra
<1>5. CASE HelpCheckCurTx(t)
  BY <1>5 DEF HelpCheckCurTx
<1>6. CASE HelpRecheckRequest(t)
  BY <1>6 DEF HelpRecheckRequest
<1>7. CASE ApplyLoadVal(t)
  BY <1>7 DEF ApplyLoadVal
<1>8. CASE ApplyLoadSeq(t)
  BY <1>8 DEF ApplyLoadSeq, NextEntry
<1>9. CASE ApplyDcas(t)
  BY <1>9 DEF ApplyDcas, NextEntry
<1>10. CASE HelpClose(t)
  BY <1>10 DEF HelpClose
<1>11. QED
  BY <1>1, <1>2, <1>3, <1>4, <1>5, <1>6, <1>7, <1>8, <1>9, <1>10
     DEF HelpApply

LEMMA HelpRefined ==
  ASSUME Inv, NEW t \in Threads, HelpApply(t)
  PROVE  UNCHANGED Abs!avars
<1>1. /\ cmem' = cmem /\ curTx' = curTx /\ UNCHANGED <<helpTx, myTx>>
      /\ InHelp(t) /\ (InHelp(t)' \/ pc'[t] = AfterHelp(t))
  BY HelpMoves
<1>2. CalledByCommit(t)' <=> CalledByCommit(t)
  BY <1>1 DEF CalledByCommit
<1>3. \/ Starting(t) /\ Starting(t)'
      \/ Published(t) /\ Published(t)'
  BY <1>1, <1>2, LabelFacts DEF AfterHelp
<1>4. QED
  BY <1>1, <1>3, Waits DEF ThreadNext

\* transaction() is called, looks for a transaction to start from, and begins
\* its attempt at the moment curTx has not moved.
LEMMA BeginRefined ==
  ASSUME Inv, EmptyLog, NEW t \in Threads, Transaction(t) \/ BeginTx(t)
  PROVE  [Abs!Call(t) \/ Abs!Snapshot(t)]_Abs!avars
<1>1. OthersSame(t)
  BY OthersFrame DEF ThreadNext
<1>2. CASE Transaction(t)
  <2>1. /\ pc[t] = "idle" /\ pc'[t] = "begin" /\ cmem' = cmem /\ curTx' = curTx
    BY <1>2 DEF Transaction, Restart, Step, Inv, Core, TypeOK
  <2>2. ~Active(t) /\ Starting(t)'
    BY <2>1, LabelFacts DEF Active, ActiveLabels, LoadLabels
  <2>3. NoAttempt(t) /\ NoAttempt(t)'
    BY <2>2, Outside DEF Starting
  <2>4. PhaseOf(t) = "idle" /\ PhaseOf(t)' = "starting"
    BY <2>1, <2>2, Phases, PhasesNext DEF Starting
  <2>5. Abs!Call(t)
    BY <1>1, <2>1, <2>3, <2>4
       DEF OthersSame, SameAbstract, NoAttempt, Abs!Call
  <2>6. QED
    BY <2>5
<1>3. CASE \/ BeginLoadCurTx(t) \/ BeginReset(t) \/ BeginSetEra(t)
           \/ BeginRecheck(t) /\ myTx[t] # curTx
  <2>1. /\ cmem' = cmem /\ curTx' = curTx
        /\ pc[t] \in {"begin", "reset", "setEra", "recheck"}
        /\ \/ pc'[t] \in {"setEra", "recheck", "begin"}
           \/ pc'[t] = "chkRequest" /\ helpTx'[t] = myTx'[t]
    BY <1>3 DEF BeginLoadCurTx, BeginReset, BeginSetEra, BeginRecheck, Step,
       Inv, Core, TypeOK
  <2>2. Starting(t) /\ Starting(t)'
    BY <2>1, LabelFacts DEF InHelp, HelpLabels, CalledByCommit
  <2>3. QED
    BY <1>3, <2>1, <2>2, Waits DEF ThreadNext, BeginTx
<1>4. CASE BeginRecheck(t) /\ myTx[t] = curTx
  <2>1. /\ pc[t] = "recheck" /\ pc'[t] = "body"
        /\ snap'[t] = cmem /\ UNCHANGED <<cmem, curTx, myTx, log>>
    BY <1>4 DEF BeginRecheck, Step, Inv, Core, TypeOK
  <2>2. Starting(t) /\ Active(t)'
    BY <2>1, LabelFacts DEF Active, ActiveLabels
  <2>3. PhaseOf(t) = "starting" /\ PhaseOf(t)' = "active"
    BY <2>2, Phases, PhasesNext DEF Starting
  <2>4. NoAttempt(t)
    BY <2>2, Outside DEF Starting
  <2>5. SnapOf(t)' = cmem /\ SinceOf(t)' = curTx.seq /\ RetOf(t)' = NoVal
    BY <1>4, <2>1, <2>2 DEF SnapOf, SinceOf, RetOf
  <2>6. StoresOf(t)' = StoresOf(t)
    <3>1. log[t] = <<>>
      BY <2>1 DEF EmptyLog
    <3>2. \A w : ~Logged(log[t], w)
      BY <3>1 DEF Logged
    <3>3. QED
      BY <2>1, <2>2, <2>4, <3>2 DEF StoresOf, NoAttempt, LookupAddr
  <2>7. Abs!Snapshot(t)
    BY <1>1, <2>1, <2>3, <2>4, <2>5, <2>6
       DEF OthersSame, SameAbstract, NoAttempt, Abs!Snapshot
  <2>8. QED
    BY <2>7
<1>5. QED
  BY <1>2, <1>3, <1>4 DEF BeginTx

(***************************************************************************)
(* Steps of attempts.                                                      *)
(***************************************************************************)

\* What an attempt has loaded and stored are values.
LEMMA AttemptFacts ==
  ASSUME Inv, NEW t \in Threads, Active(t)
  PROVE  /\ log[t] \in LogType /\ IsWriteSet(log[t])
         /\ lval[t] \in Vals
         /\ \A w \in Words : Logged(log[t], w) =>
              LookupAddr(log[t], w, NoVal) \in Vals
<1>1. log[t] \in LogType /\ IsWriteSet(log[t]) /\ lval[t] \in Vals
  BY DEF Inv, Core, TypeOK, LogType, WriteSets, HasWriteSet, Active
<1>2. ASSUME NEW w \in Words, Logged(log[t], w)
      PROVE  LookupAddr(log[t], w, NoVal) \in Vals
  BY <1>1, <1>2, PositionFact DEF LookupAddr, IsWriteSet, Entry
<1>3. QED
  BY <1>1, <1>2

\* An attempt that fails leaves nothing, and there is a newer transaction.
LEMMA RetryRefined ==
  ASSUME Inv, NEW t \in Threads,
         LoadAbort(t) \/ CommitCheckFails(t) \/ CommitCasFails(t)
  PROVE  Abs!Retry(t)
<1>1. OthersSame(t)
  BY OthersFrame DEF ThreadNext, Body, CommitTx
<1>2. /\ pc[t] \in {"loadSeq", "body", "cas"} /\ pc'[t] = "begin"
      /\ cmem' = cmem /\ curTx' = curTx
  BY DEF LoadAbort, CommitCheckFails, CommitCasFails, Restart, Step, Inv, Core, TypeOK
<1>3. Active(t) /\ Starting(t)'
  BY <1>2, LabelFacts DEF Active, ActiveLabels, LoadLabels
<1>4. PhaseOf(t) = "active" /\ PhaseOf(t)' = "starting"
  BY <1>3, Phases, PhasesNext DEF Starting
<1>5. NoAttempt(t)'
  BY <1>3, Outside DEF Starting
<1>6. myTx[t].seq # curTx.seq
  <2>1. myTx[t].seq \in Nat /\ curTx.seq \in Nat
    BY ThreadFacts DEF Inv, Core
  <2>2. CASE LoadAbort(t)
    <3>1. pc[t] = "loadSeq" /\ mem[addr[t]].seq > myTx[t].seq
      BY <2>2 DEF LoadAbort, TooNew
    <3>2. addr[t] \in Words
      BY <3>1 DEF Inv, Core, ReadState, ThreadRead, LoadLabels, Attempting,
         ActiveLabels
    <3>3. mem[addr[t]].seq <= curTx.seq /\ mem[addr[t]].seq \in Nat
      BY <3>2 DEF Inv, Core, SeqBound, TypeOK
    <3>4. QED
      BY <2>1, <3>1, <3>3
  <2>3. CASE CommitCheckFails(t) \/ CommitCasFails(t)
    <3>1. myTx[t] # curTx /\ Reading(t)
      BY <1>3, <2>3 DEF CommitCheckFails, CommitCasFails, Reading,
         ReaderLabels, Active
    <3>2. myTx[t].seq < curTx.seq
      BY <3>1 DEF Inv, Core, SeqBound
    <3>3. QED
      BY <2>1, <3>2
  <2>4. QED
    BY <2>2, <2>3
<1>7. SinceOf(t) = myTx[t].seq
  BY <1>3 DEF SinceOf
<1>8. QED
  BY <1>1, <1>2, <1>4, <1>5, <1>6, <1>7
     DEF OthersSame, SameAbstract, NoAttempt, Abs!Retry, Abs!Leave,
         Abs!NoStores

\* The steps of pload, pstore and tmDelete.
LEMMA BodyRefined ==
  ASSUME Inv, Inv', NEW t \in Threads, Body(t), ~LoadAbort(t)
  PROVE  [\/ \E w \in Words : \/ Abs!Load(t, w)
                              \/ \E v \in Vals : Abs!Store(t, w, v)
          \/ Abs!LoadReturn(t)]_Abs!avars
<1>1. OthersSame(t)
  BY OthersFrame DEF ThreadNext
<1> DEFINE Stays == /\ pc[t] \in {"body", "loadSeq", "loaded"}
                    /\ pc'[t] \in {"body", "loadSeq", "loaded"}
                    /\ UNCHANGED <<cmem, curTx, myTx, snap>>
<1>2. Stays
  <2> USE DEF Step, Inv, Core, TypeOK, Operate
  <2>1. ASSUME NEW w \in Words, LoadVal(t, w)
        PROVE  Stays
    BY <2>1 DEF LoadVal
  <2>2. ASSUME NEW w \in Words, NEW v \in Vals, Store(t, w, v)
        PROVE  Stays
    BY <2>2 DEF Store
  <2>3. CASE LoadSeq(t) \/ LoadReturn(t) \/ Delete(t)
    BY <2>3 DEF LoadSeq, LoadReturn, Delete
  <2>4. QED
    BY <2>1, <2>2, <2>3 DEF Body
<1>3. Active(t) /\ Active(t)'
  BY <1>2 DEF Active, ActiveLabels, LoadLabels
<1>4. /\ PhaseOf(t) = "active" /\ PhaseOf(t)' = "active"
      /\ SnapOf(t)' = SnapOf(t) /\ SinceOf(t)' = SinceOf(t)
      /\ SnapOf(t) = snap[t] /\ cmem' = cmem /\ curTx' = curTx
  BY <1>2, <1>3, Phases, PhasesNext DEF SnapOf, SinceOf
<1>5. log'[t] = log[t] => StoresOf(t)' = StoresOf(t)
  BY <1>3 DEF StoresOf
<1>6. ASSUME NEW w \in Words
      PROVE  StoresOf(t)[w] = LookupAddr(log[t], w, NoVal)
  BY <1>3 DEF StoresOf
<1> HIDE DEF Stays
<1>7. CASE Delete(t) \/ \E w \in Words : LoadVal(t, w)
  <2>1. pc[t] = "body" /\ pc'[t] # "loaded" /\ log' = log
    BY <1>7 DEF Delete, LoadVal, Operate, Step, Inv, Core, TypeOK
  <2>2. SameAbstract(t)
    BY <1>4, <1>5, <2>1 DEF SameAbstract, RetOf
  <2>3. QED
    BY <1>1, <1>4, <2>2, Stutters
<1>8. CASE LoadSeq(t)
  <2>1. /\ pc[t] = "loadSeq" /\ pc'[t] = "loaded"
        /\ UNCHANGED <<log, addr, snap>>
    BY <1>2, <1>8 DEF LoadSeq, Step, Inv, Core, TypeOK, Stays
  <2>2. addr[t] \in Words
    BY <2>1 DEF Inv, Core, ReadState, ThreadRead, LoadLabels, Attempting,
         ActiveLabels
  <2>3. RetOf(t) = NoVal /\ RetOf(t)' = lval'[t]
    BY <2>1 DEF RetOf
  <2>4. lval'[t] = LookupAddr(log[t], addr[t], snap[t][addr[t]])
    BY <2>1 DEF Inv, Core, Opacity
  <2>5. Logged(log[t], addr[t]) =>
          StoresOf(t)[addr[t]] \in Vals /\ StoresOf(t)[addr[t]] = lval'[t]
    BY <1>3, <1>6, <2>2, <2>4, AttemptFacts DEF LookupAddr
  <2>6. ~Logged(log[t], addr[t]) =>
          StoresOf(t)[addr[t]] = NoVal /\ SnapOf(t)[addr[t]] = lval'[t]
    BY <1>4, <1>6, <2>2, <2>4 DEF LookupAddr
  <2>7. RetOf(t)' = IF StoresOf(t)[addr[t]] = NoVal THEN SnapOf(t)[addr[t]]
                    ELSE StoresOf(t)[addr[t]]
    BY <2>3, <2>5, <2>6, RefinementAssumption
  <2>8. Abs!Load(t, addr[t])
    BY <1>1, <1>4, <1>5, <2>1, <2>3, <2>7
       DEF OthersSame, SameAbstract, Abs!Load, Abs!View
  <2>9. QED
    BY <2>2, <2>8
<1>9. CASE LoadReturn(t)
  <2>1. pc[t] = "loaded" /\ pc'[t] = "body" /\ log' = log
    BY <1>9 DEF LoadReturn, Step, Inv, Core, TypeOK
  <2>2. RetOf(t) # NoVal /\ RetOf(t)' = NoVal
    BY <1>3, <2>1, AttemptFacts, RefinementAssumption DEF RetOf
  <2>3. Abs!LoadReturn(t)
    BY <1>1, <1>4, <1>5, <2>1, <2>2
       DEF OthersSame, SameAbstract, Abs!LoadReturn
  <2>4. QED
    BY <2>3
<1>10. ASSUME NEW w \in Words, NEW v \in Vals, Store(t, w, v)
       PROVE  Abs!Store(t, w, v)
  <2>1. /\ pc[t] = "body" /\ pc'[t] = "body"
        /\ log'[t] = AddOrReplace(log[t], w, v)
    BY <1>10 DEF Store, Operate, Step, Inv, Core, TypeOK
  <2>2. \A x \in Words : LookupAddr(log'[t], x, NoVal) =
                           IF x = w THEN v ELSE LookupAddr(log[t], x, NoVal)
    BY <1>3, <2>1, AttemptFacts, LookupAfterAdd
  <2>3. StoresOf(t)' = [StoresOf(t) EXCEPT ![w] = v]
    BY <1>3, <2>2 DEF StoresOf
  <2>4. RetOf(t)' = RetOf(t)
    BY <2>1 DEF RetOf
  <2>5. QED
    BY <1>1, <1>4, <2>3, <2>4 DEF OthersSame, SameAbstract, Abs!Store
<1>11. QED
  BY <1>7, <1>8, <1>9, <1>10 DEF Body

\* The steps of commitTx, and the end of transaction(): a transaction takes
\* effect when curTx moves to it.
LEMMA CommitRefined ==
  ASSUME Inv, Inv', NEW t \in Threads, CommitTx(t) \/ ClearEra(t),
         ~CommitCheckFails(t), ~CommitCasFails(t)
  PROVE  [Abs!CommitReadOnly(t) \/ Abs!Commit(t) \/ Abs!Return(t)]_Abs!avars
<1>1. OthersSame(t)
  BY OthersFrame DEF ThreadNext
<1>2. CASE CommitReadOnly(t)
  <2>1. /\ pc[t] = "body" /\ pc'[t] = "clear" /\ cmem' = cmem /\ curTx' = curTx
        /\ log[t] = <<>>
    BY <1>2 DEF CommitReadOnly, NothingToCommit, Step, Inv, Core, TypeOK
  <2>2. Active(t) /\ Published(t)' /\ ~Active(t)'
    BY <2>1, LabelFacts DEF Active, ActiveLabels
  <2>3. PhaseOf(t) = "active" /\ PhaseOf(t)' = "done" /\ NoAttempt(t)'
    BY <2>2, Phases, PhasesNext, Outside
  <2>4. \A w : ~Logged(log[t], w)
    BY <2>1 DEF Logged
  <2>5. StoresOf(t) = [w \in Words |-> NoVal]
    BY <2>2, <2>4 DEF StoresOf, LookupAddr
  <2>6. Abs!CommitReadOnly(t)
    BY <1>1, <2>1, <2>3, <2>5
       DEF OthersSame, SameAbstract, NoAttempt, Abs!CommitReadOnly, Abs!Leave,
           Abs!NoStores
  <2>7. QED
    BY <2>6
<1>3. CASE CommitCheck(t) \/ CommitOpen(t)
  <2>1. /\ pc[t] \in {"body", "open"} /\ pc'[t] \in {"open", "cas"}
        /\ UNCHANGED <<cmem, curTx, log, snap, myTx>>
    BY <1>3 DEF CommitCheck, CommitOpen, Step, Inv, Core, TypeOK
  <2>2. Active(t) /\ Active(t)'
    BY <2>1 DEF Active, ActiveLabels
  <2>3. PhaseOf(t)' = PhaseOf(t)
    BY <2>2, Phases, PhasesNext
  <2>4. SameAbstract(t)
    BY <2>1, <2>2, <2>3 DEF SameAbstract, SnapOf, SinceOf, StoresOf, RetOf
  <2>5. QED
    BY <1>1, <2>1, <2>4, Stutters
<1>4. CASE CommitCas(t)
  <2>1. /\ pc[t] = "cas" /\ pc'[t] = "chkRequest" /\ curTx = myTx[t]
        /\ curTx' = NewTx(t) /\ helpTx'[t] = NewTx(t) /\ myTx' = myTx
        /\ cmem' = Overlay(cmem, log[t])
    BY <1>4 DEF CommitCas, Step, Inv, Core, TypeOK
  <2>2. Active(t) /\ snap[t] = cmem
    <3>1. ThreadRead(t, Words)
      BY <2>1 DEF Inv, ReadState, Attempting, ActiveLabels
    <3>2. \A w \in Words : snap[t][w] = cmem[w]
      BY <2>1, <3>1 DEF ThreadRead
    <3>3. QED
      BY <2>1, <3>2, SameImage DEF Active, ActiveLabels, Inv, Core, TypeOK
  <2>3. curTx'.seq = curTx.seq + 1 /\ NewTx(t) # myTx[t]
    <3>1. NewTx(t).seq = myTx[t].seq + 1 /\ myTx[t].seq \in Nat
      BY ThreadFacts DEF NewTx, Trans, Inv, Core
    <3>2. QED
      BY <2>1, <3>1
  <2>4. Published(t)' /\ ~Active(t)'
    BY <2>1, <2>3, LabelFacts DEF InHelp, HelpLabels, CalledByCommit
  <2>5. PhaseOf(t) = "active" /\ PhaseOf(t)' = "done" /\ NoAttempt(t)'
    BY <2>2, <2>4, Phases, PhasesNext, Outside
  <2>6. SinceOf(t) = curTx.seq /\ SnapOf(t) = cmem
    BY <2>1, <2>2 DEF SinceOf, SnapOf
  <2>7. ASSUME NEW w \in Words
        PROVE  cmem'[w] = IF StoresOf(t)[w] = NoVal THEN SnapOf(t)[w]
                          ELSE StoresOf(t)[w]
    <3>1. cmem'[w] = LookupAddr(log[t], w, cmem[w])
      BY <2>1 DEF Overlay
    <3>2. StoresOf(t)[w] = LookupAddr(log[t], w, NoVal)
      BY <2>2 DEF StoresOf
    <3>3. CASE Logged(log[t], w)
      BY <2>2, <3>1, <3>2, <3>3, AttemptFacts, RefinementAssumption
         DEF LookupAddr
    <3>4. CASE ~Logged(log[t], w)
      BY <2>6, <3>1, <3>2, <3>4 DEF LookupAddr
    <3>5. QED
      BY <3>3, <3>4
  <2>8. cmem' = [w \in Words |-> IF StoresOf(t)[w] = NoVal THEN SnapOf(t)[w]
                                 ELSE StoresOf(t)[w]]
    BY <2>1, <2>7 DEF Overlay
  <2>9. Abs!Commit(t)
    BY <1>1, <2>3, <2>5, <2>6, <2>8
       DEF OthersSame, SameAbstract, NoAttempt, Abs!Commit, Abs!Leave,
           Abs!NoStores, Abs!View
  <2>10. QED
    BY <2>9
<1>5. CASE CommitRetire(t)
  <2>1. /\ cmem' = cmem /\ curTx' = curTx
        /\ pc[t] = "retire" /\ pc'[t] = "clear"
    BY <1>5 DEF CommitRetire, Step, Inv, Core, TypeOK
  <2>2. Published(t) /\ Published(t)'
    BY <2>1, LabelFacts
  <2>3. QED
    BY <1>5, <2>1, <2>2, Waits DEF ThreadNext, CommitTx
<1>6. CASE ClearEra(t)
  <2>1. /\ cmem' = cmem /\ curTx' = curTx
        /\ pc[t] = "clear" /\ pc'[t] = "idle"
    BY <1>6 DEF ClearEra, Step, Inv, Core, TypeOK
  <2>2. Published(t) /\ ~Active(t) /\ ~Active(t)'
    BY <2>1, LabelFacts DEF Active, ActiveLabels, LoadLabels
  <2>3. PhaseOf(t) = "done" /\ PhaseOf(t)' = "idle"
    BY <2>1, <2>2, Phases, PhasesNext
  <2>4. NoAttempt(t) /\ NoAttempt(t)'
    BY <2>2, Outside
  <2>5. Abs!Return(t)
    BY <1>1, <2>1, <2>3, <2>4
       DEF OthersSame, SameAbstract, NoAttempt, Abs!Return
  <2>6. QED
    BY <2>5
<1>7. QED
  BY <1>2, <1>3, <1>4, <1>5, <1>6 DEF CommitTx

(***************************************************************************)
(* The refinement.                                                         *)
(***************************************************************************)

LEMMA EmptyLogStep ==
  ASSUME Inv, EmptyLog, [Next]_vars
  PROVE  EmptyLog'
<1> SUFFICES ASSUME NEW u \in Threads, pc'[u] \in {"setEra", "recheck"}
             PROVE  log'[u] = <<>>
  BY DEF EmptyLog
<1>1. CASE UNCHANGED vars
  BY <1>1 DEF vars, EmptyLog
<1>2. ASSUME NEW t \in Threads, ThreadNext(t), t # u
      PROVE  log'[u] = <<>>
  BY <1>2, OthersKeep DEF Inv, SameThread, EmptyLog
<1>3. ASSUME ThreadNext(u)
      PROVE  log'[u] = <<>>
  <2>1. CASE HelpApply(u)
    <3>1. InHelp(u)' \/ pc'[u] = AfterHelp(u)
      BY <2>1, HelpMoves
    <3>2. FALSE
      BY <3>1 DEF AfterHelp, InHelp, HelpLabels, ApplyLabels
    <3>3. QED
      BY <3>2
  <2>2. CASE BeginReset(u)
    BY <2>2 DEF BeginReset, Inv, Core, TypeOK
  <2>3. CASE BeginSetEra(u)
    BY <2>3 DEF BeginSetEra, Step, EmptyLog
  <2>4. CASE Transaction(u) \/ BeginLoadCurTx(u) \/ BeginRecheck(u)
    BY <2>4 DEF Transaction, BeginLoadCurTx, BeginRecheck, Restart, Step,
       Inv, Core, TypeOK
  <2>5. CASE Body(u)
    BY <2>5 DEF Body, LoadVal, Store, LoadAbort, LoadSeq, LoadReturn, Delete,
       Operate, Restart, Step, Inv, Core, TypeOK
  <2>6. CASE CommitTx(u) \/ ClearEra(u)
    BY <2>6 DEF CommitTx, CommitReadOnly, CommitCheckFails, CommitCheck,
       CommitOpen, CommitCas, CommitCasFails, CommitRetire, ClearEra, Restart,
       Step, Inv, Core, TypeOK
  <2>7. QED
    BY <1>3, <2>1, <2>2, <2>3, <2>4, <2>5, <2>6 DEF ThreadNext, BeginTx
<1>4. QED
  BY <1>1, <1>2, <1>3 DEF Next, Finished

LEMMA StepRefined ==
  ASSUME Inv, Inv', EmptyLog, [Next]_vars
  PROVE  [Abs!Next]_Abs!avars
<1>1. ASSUME NEW t \in Threads, ThreadNext(t)
      PROVE  [Abs!Next]_Abs!avars
  <2>1. CASE Transaction(t) \/ BeginTx(t)
    BY <2>1, BeginRefined DEF Abs!Next
  <2>2. CASE HelpApply(t)
    BY <2>2, HelpRefined
  <2>3. CASE LoadAbort(t) \/ CommitCheckFails(t) \/ CommitCasFails(t)
    BY <2>3, RetryRefined DEF Abs!Next
  <2>4. CASE Body(t) /\ ~LoadAbort(t)
    BY <2>4, BodyRefined DEF Abs!Next
  <2>5. CASE /\ CommitTx(t) \/ ClearEra(t)
             /\ ~CommitCheckFails(t) /\ ~CommitCasFails(t)
    BY <2>5, CommitRefined DEF Abs!Next
  <2>6. QED
    BY <1>1, <2>1, <2>2, <2>3, <2>4, <2>5 DEF ThreadNext
<1>2. CASE UNCHANGED vars
  <2>1. \A u \in Threads : SameAbstract(u)
    BY <1>2 DEF vars, SameAbstract, PhaseOf, SnapOf, SinceOf, StoresOf, RetOf,
       Active, Published, CalledByCommit
  <2>2. QED
    BY <1>2, <2>1 DEF vars, SameAbstract, Abs!avars
<1>3. QED
  BY <1>1, <1>2 DEF Next, Finished

\* The lock-free STM implements the atomic one: a transaction, however its
\* steps and those of its helpers interleave with others, is one step on the
\* committed memory, and is repeated only if another was published meanwhile.
THEOREM Refinement == Spec => ImplementsAtomicSTM
<1>1. Init => EmptyLog
  BY DEF Init, EmptyLog
<1>2. Inv /\ EmptyLog /\ [Next]_vars => EmptyLog'
  BY EmptyLogStep
<1>3. Inv /\ Inv' /\ EmptyLog /\ [Next]_vars => [Abs!Next]_Abs!avars
  BY StepRefined
<1>4. QED
  BY <1>1, <1>2, <1>3, InitRefined, Invariance, PTL
     DEF Spec, ImplementsAtomicSTM, Abs!Spec

=============================================================================
