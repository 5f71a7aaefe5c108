-------------------------- MODULE RomulusLRProofs --------------------------
(***************************************************************************)
(* Proofs of the safety of RomulusLR.  What an update transaction does to  *)
(* the memory is proved for RomulusLog: each step here is a step of that   *)
(* module, or of none, when the threads are seen as its threads.  What is  *)
(* proved here is that Left-Right keeps the readers off the replica that   *)
(* changes, and that nobody is sent back to what others have seen already. *)
(***************************************************************************)
EXTENDS RomulusLRInv, WellFoundedInduction, TLAPS

(***************************************************************************)
(* The instance of RomulusLog.                                             *)
(***************************************************************************)

\* What is assumed there is assumed here.
LEMMA LogAssumption ==
  /\ N \in Nat \ {0}
  /\ \A t \in Log!Threads : Calls[t] \in Seq(SUBSET Words)
  /\ LogLimit \in Nat /\ MaxRestarts \in Nat
  /\ Meets \in [Words -> SUBSET Words]
BY RomulusAssumption DEF Log!Threads, Threads

\* What does not mention the threads is the same there.
LEMMA SameMemory ==
  /\ Log!Threads = Threads /\ Log!Free = Free
  /\ Log!State = State /\ Log!Lines = Lines
  /\ \A w : Log!Main(w) = Main(w) /\ Log!Back(w) = Back(w)
  /\ \A mem, l : Log!Now(mem, l) = Now(mem, l)
BY DEF Log!Threads, Threads, Log!Free, Free, Log!State, State, Log!Lines, Lines,
       Log!Mains, Mains, Log!Backs, Backs, Log!Main, Main, Log!Back, Back,
       Log!Now, Now

LEMMA SameStores ==
  /\ \A mem, l, x : Log!Stored(mem, l, x) = Stored(mem, l, x)
  /\ \A noted, mem, lines :
       Log!WrittenBack(noted, mem, lines) = WrittenBack(noted, mem, lines)
  /\ \A mem, noted : Log!Fenced(mem, noted) = Fenced(mem, noted)
  /\ \A new : Log!StoreAll(new) = StoreAll(new)
<1>1. \A mem, l, x : Log!Stored(mem, l, x) = Stored(mem, l, x)
  BY DEF Log!Stored, Stored, Log!Now, Now
<1>2. \A noted, mem, lines :
        Log!WrittenBack(noted, mem, lines) = WrittenBack(noted, mem, lines)
  BY DEF Log!WrittenBack, WrittenBack, Log!Now, Now
<1>3. \A versions, c : Log!Since(versions, c) = Since(versions, c)
  <2>1. \A S : Log!Max(S) = Max(S)
    BY DEF Log!Max, Max
  <2>2. \A f : Log!Range(f) = Range(f)
    BY DEF Log!Range, Range
  <2>3. QED
    BY <2>1, <2>2 DEF Log!Since, Since
<1>4. \A mem, noted : Log!Fenced(mem, noted) = Fenced(mem, noted)
  BY <1>3 DEF Log!Fenced, Fenced
<1>5. \A new : Log!StoreAll(new) = StoreAll(new)
  BY <1>1 DEF Log!StoreAll, StoreAll
<1>6. QED
  BY <1>1, <1>2, <1>4, <1>5

LEMMA SameEffect ==
  /\ \A n : Log!Effect(n) = Effect(n)
  /\ \A k : Log!Local(k) = Local(k)
  /\ \A seen : Log!Effective(seen) = Effective(seen)
  /\ Log!All = Len(ran)
BY DEF Log!Effect, Effect, Log!Stores, Stores, Log!Local, Local,
       Log!Threads, Threads, Log!Effective, Effective, Log!All

\* Types.
LRLabels == Labels \cup {"right", "waitNext", "toggle", "waitPrev", "left",
                         "clearRight", "loadSide"}
LRLocals == LocalTypes(LRLabels)

SideTypes ==
  /\ leftRight \in {TRAVERSE_LEFT, TRAVERSE_RIGHT}
  /\ versionIndex \in {0, 1}
  /\ ri \in [{0, 1} -> [Threads -> BOOLEAN]]
  /\ gRight \in BOOLEAN /\ (leftRight = TRAVERSE_RIGHT => gRight)
  /\ side \in [Threads -> {TRAVERSE_LEFT, TRAVERSE_RIGHT}]
  /\ localVI \in [Threads -> {0, 1}]
  /\ since \in [Threads -> Nat]

LEMMA TypesAre ==
  /\ LRTypeOK <=>
       Types(LRLabels) /\ SideTypes
  /\ Log!TypeOK /\ th \in [Threads -> LRLocals] => Types(LRLabels)
  /\ Types(LRLabels) => th \in [Threads -> LRLocals]
<1>1. LRTypeOK <=> Types(LRLabels) /\ SideTypes
  BY DEF LRTypeOK, LRLabels, SideTypes
<1>2. Log!TypeOK /\ th \in [Threads -> LRLocals] => Types(LRLabels)
  <2>1. /\ Log!Lines = Lines /\ \A l : Log!Contents(l) = Contents(l)
        /\ Log!Threads = Threads /\ Log!Free = Free
        /\ Log!IsInjective(log) <=> IsInjective(log)
    BY DEF Log!Lines, Lines, Log!Contents, Contents, Log!State, State,
           Log!Stamps, Stamps, Log!Threads, Threads, Log!Free, Free,
           Log!IsInjective, IsInjective, Log!Mains, Mains, Log!Backs, Backs,
           Log!Main, Main, Log!Back, Back
  <2>2. QED
    BY <2>1, Zenon DEF Log!TypeOK, Log!Types, Types, LRLocals
<1>3. Types(LRLabels) => th \in [Threads -> LRLocals]
  BY DEF Types, LRLocals
<1>4. QED
  BY <1>1, <1>2, <1>3

LEMMA TypesAreNext ==
  /\ LRTypeOK' <=> Types(LRLabels)' /\ SideTypes'
  /\ Log!TypeOK' /\ th' \in [Threads -> LRLocals] => Types(LRLabels)'
<1>1. LRTypeOK' <=> Types(LRLabels)' /\ SideTypes'
  BY TypesAre, PTL
<1>2. (th \in [Threads -> LRLocals])' <=> th' \in [Threads -> LRLocals]
  OBVIOUS
<1>3. Log!TypeOK' /\ (th \in [Threads -> LRLocals])' => Types(LRLabels)'
  BY TypesAre, PTL
<1>4. QED
  BY <1>1, <1>2, <1>3

(***************************************************************************)
(* The view of a thread.                                                   *)
(***************************************************************************)

\* Labels of an update transaction that RomulusLog has, too.
Plain == {"idle", "tryLock", "checkDone", "collect", "wait", "run", "store",
          "psync", "answer", "copy", "setIdle", "unlock"}
Starting == {"right"} \cup Toggling
Ending == {"left", "clearRight"} \cup Toggling

\* What a thread is seen as.
LEMMA LogThreadIs ==
  ASSUME th \in [Threads -> LRLocals], NEW t \in Threads
  PROVE  /\ LogThreads[t] = LogThread(t)
         /\ LogThreads[t].k = th[t].k
         /\ th[t].pc \in Plain => LogThreads[t] = th[t]
         /\ th[t].pc \in Starting
              /\ (th[t].pc = "right" \/ leftRight = TRAVERSE_RIGHT) =>
              LogThreads[t] = [th[t] EXCEPT !.pc = "wait", !.i = 0]
         /\ th[t].pc \in Ending
            /\ (\/ th[t].pc \in {"left", "clearRight"}
                \/ leftRight = TRAVERSE_LEFT) =>
              LogThreads[t] = [th[t] EXCEPT !.pc = "answer", !.i = 0]
         /\ th[t].pc \in Reading =>
              LogThreads[t] = [Local(th[t].k) EXCEPT !.pc = "arrive"]

<1>1. LogThreads[t] = LogThread(t)
  BY DEF LogThreads
<1>2. /\ th[t] \in LRLocals /\ th[t].pc \in LRLabels
  BY DEF LRLocals, LocalTypes
<1>3. CASE th[t].pc \in Plain
  BY <1>1, <1>3 DEF LogThread, Plain, Reading, Toggling, Starting, Ending
<1>4. CASE /\ th[t].pc \in Starting
           /\ th[t].pc = "right" \/ leftRight = TRAVERSE_RIGHT
  <2>1. LogThread(t) = [th[t] EXCEPT !.pc = "wait", !.i = 0]
    BY <1>4 DEF LogThread, Reading, Toggling, Starting, TRAVERSE_LEFT,
         TRAVERSE_RIGHT
  <2>2. ~(/\ th[t].pc \in Ending
          /\ th[t].pc \in {"left", "clearRight"} \/ leftRight = TRAVERSE_LEFT)
    BY <1>4 DEF Starting, Ending, Toggling, TRAVERSE_LEFT, TRAVERSE_RIGHT
  <2>3. [th[t] EXCEPT !.pc = "wait", !.i = 0].k = th[t].k
    BY <1>2 DEF LRLocals, LocalTypes
  <2>4. th[t].pc \notin Plain /\ th[t].pc \notin Reading
    BY <1>4 DEF Starting, Toggling, Plain, Reading
  <2>5. QED
    BY <1>1, <2>1, <2>2, <2>3, <2>4
<1>5. CASE /\ th[t].pc \in Ending
           /\ th[t].pc \in {"left", "clearRight"} \/ leftRight = TRAVERSE_LEFT
  <2>1. LogThread(t) = [th[t] EXCEPT !.pc = "answer", !.i = 0]
    BY <1>5 DEF LogThread, Reading, Toggling, Ending, TRAVERSE_LEFT,
         TRAVERSE_RIGHT
  <2>2. ~(/\ th[t].pc \in Starting
          /\ th[t].pc = "right" \/ leftRight = TRAVERSE_RIGHT)
    BY <1>5 DEF Starting, Ending, Toggling, TRAVERSE_LEFT, TRAVERSE_RIGHT
  <2>3. [th[t] EXCEPT !.pc = "answer", !.i = 0].k = th[t].k
    BY <1>2 DEF LRLocals, LocalTypes
  <2>4. th[t].pc \notin Plain /\ th[t].pc \notin Reading
    BY <1>5 DEF Ending, Toggling, Plain, Reading
  <2>5. QED
    BY <1>1, <2>1, <2>2, <2>3, <2>4
<1>6. CASE th[t].pc \in Reading
  <2>1. LogThread(t) = [Local(th[t].k) EXCEPT !.pc = "arrive"]
    BY <1>6 DEF LogThread, Reading, Toggling
  <2>2. th[t].pc \notin Plain /\ th[t].pc \notin Starting
          /\ th[t].pc \notin Ending
    BY <1>6 DEF Starting, Ending, Toggling, Plain, Reading
  <2>3. [Local(th[t].k) EXCEPT !.pc = "arrive"].k = th[t].k
    BY DEF Local
  <2>4. QED
    BY <1>1, <1>6, <2>1, <2>2, <2>3
<1>7. QED
  <2>1. CASE th[t].pc \notin Plain \cup Starting \cup Ending \cup Reading
    <3>1. LogThread(t) = th[t]
      BY <2>1 DEF LogThread, Reading, Starting, Ending, Toggling
    <3>2. QED
      BY <1>1, <2>1, <3>1
  <2>2. CASE /\ th[t].pc \in Starting \cup Ending
             /\ ~(\/ th[t].pc = "right" \/ leftRight = TRAVERSE_RIGHT
                  \/ th[t].pc \in {"left", "clearRight"}
                  \/ leftRight = TRAVERSE_LEFT)
    <3>1. LogThread(t) = th[t]
      BY <2>2 DEF LogThread, Reading, Starting, Ending, Toggling
    <3>2. QED
      BY <1>1, <2>2, <3>1 DEF Plain, Reading, Starting, Ending, Toggling
  <2>3. QED
    BY <1>3, <1>4, <1>5, <1>6, <2>1, <2>2
       DEF Starting, Ending, Toggling

\* The labels of the owner of the lock.
Held == WriterLabels \cup Starting \cup Ending

\* Before the functions run, and after them.
Before(t) == \/ th[t].pc = "right"
             \/ th[t].pc \in Toggling /\ leftRight = TRAVERSE_RIGHT
After(t) == \/ th[t].pc \in {"left", "clearRight"}
            \/ th[t].pc \in Toggling /\ leftRight = TRAVERSE_LEFT

\* The fields of the view.
LEMMA ViewIs ==
  ASSUME LRTypeOK, NEW t \in Threads
  PROVE  /\ th[t].pc \in LRLabels
         /\ th[t].pc \in Plain => LogThreads[t] = th[t]
         /\ th[t].pc \in Reading =>
              /\ LogThreads[t] = [Local(th[t].k) EXCEPT !.pc = "arrive"]
              /\ LogThreads[t].pc = "arrive"
         /\ Before(t) =>
              /\ LogThreads[t] = [th[t] EXCEPT !.pc = "wait", !.i = 0]
              /\ LogThreads[t].pc = "wait"
         /\ After(t) =>
              /\ LogThreads[t] = [th[t] EXCEPT !.pc = "answer", !.i = 0]
              /\ LogThreads[t].pc = "answer"
         /\ th[t].pc \in Starting \cup Ending => Before(t) \/ After(t)
         /\ LogThreads[t].pc \in WriterLabels <=> th[t].pc \in Held
         /\ LogThreads[t].k = th[t].k
         /\ LogThreads[t].pc = "idle" <=> th[t].pc = "idle"
<1>1. /\ th \in [Threads -> LRLocals] /\ SideTypes
  BY TypesAre
<1>2. /\ th[t] \in LRLocals /\ th[t].pc \in LRLabels /\ th[t].k \in Nat
      /\ leftRight \in {TRAVERSE_LEFT, TRAVERSE_RIGHT}
  BY <1>1 DEF LRLocals, LocalTypes, SideTypes
<1>3. /\ LogThreads[t] = LogThread(t) /\ LogThreads[t].k = th[t].k
      /\ th[t].pc \in Plain => LogThreads[t] = th[t]
      /\ Before(t) => LogThreads[t] = [th[t] EXCEPT !.pc = "wait", !.i = 0]
      /\ After(t) => LogThreads[t] = [th[t] EXCEPT !.pc = "answer", !.i = 0]
      /\ th[t].pc \in Reading =>
           LogThreads[t] = [Local(th[t].k) EXCEPT !.pc = "arrive"]
  BY <1>1, LogThreadIs DEF Before, After, Starting, Ending
<1>4. th[t].pc \in Starting \cup Ending => Before(t) \/ After(t)
  BY <1>2 DEF Before, After, Starting, Ending
<1>5. /\ Before(t) => LogThreads[t].pc = "wait"
      /\ After(t) => LogThreads[t].pc = "answer"
  BY <1>2, <1>3 DEF LRLocals, LocalTypes
<1>6. th[t].pc \in Reading => LogThreads[t].pc = "arrive"
  BY <1>3 DEF Local
<1>7. /\ LogThreads[t].pc \in WriterLabels <=> th[t].pc \in Held
      /\ LogThreads[t].pc = "idle" <=> th[t].pc = "idle"
  <2>1. CASE th[t].pc \in Plain
    BY <1>3, <2>1 DEF Plain, WriterLabels, Held, Starting, Ending, Toggling
  <2>2. CASE th[t].pc \in Reading
    BY <1>6, <2>2 DEF Reading, WriterLabels, Held, Starting, Ending, Toggling
  <2>3. CASE th[t].pc \in Starting \cup Ending
    BY <1>4, <1>5, <2>3 DEF WriterLabels, Held, Starting, Ending, Toggling
  <2>4. CASE th[t].pc \notin Plain \cup Reading \cup Starting \cup Ending
    <3>1. LogThread(t) = th[t]
      BY <2>4 DEF LogThread, Reading, Starting, Ending, Toggling
    <3>2. QED
      BY <1>3, <2>4, <3>1 DEF Plain, WriterLabels, Held
  <2>5. QED
    BY <2>1, <2>2, <2>3, <2>4
<1>8. QED
  BY <1>2, <1>3, <1>4, <1>5, <1>6, <1>7

\* What the invariant says at once.
LEMMA Holder ==
  ASSUME LRTypeOK, Log!RInv
  PROVE  /\ \A t \in Threads : /\ th[t].pc \in Held <=> lock = t
                               /\ machine # "up" => th[t].pc = "idle"
         /\ lock \in Threads \cup {Free} /\ Free \notin Threads
         /\ th \in [Threads -> LRLocals] /\ SideTypes
         /\ Log!TypeOK /\ Log!Logic /\ Log!Noted /\ Log!UpState
         /\ Log!Memory(nvm) /\ ran \in Seq(Threads \X Nat) /\ Len(ran) \in Nat
         /\ Threads \subseteq Nat /\ \A t \in Threads : t < N
         /\ N \in Nat
<1>1. /\ Log!TypeOK /\ Log!Noted /\ Log!Logic /\ Log!UpState
  BY LogAssumption, Log!InvIs
<1>2. /\ lock \in Threads \cup {Free} /\ Free \notin Threads
      /\ ran \in Seq(Threads \X Nat) /\ Len(ran) \in Nat
      /\ Threads \subseteq Nat /\ \A t \in Threads : t < N
      /\ N \in Nat
  BY <1>1, RomulusAssumption DEF Log!TypeOK, Log!Types, Log!Threads, Threads,
     Log!Free, Free
<1>3. Log!Memory(nvm)
  BY <1>1, LogAssumption, Log!MemoryTypes
<1>4. ASSUME NEW t \in Threads
      PROVE  /\ th[t].pc \in Held <=> lock = t
             /\ machine # "up" => th[t].pc = "idle"
  <2>1. /\ LogThreads[t].pc \in Log!WriterLabels <=> lock = t
        /\ machine # "up" => LogThreads[t].pc = "idle"
    BY <1>1, <1>4 DEF Log!Logic, Log!LockState, Log!pc, Log!Threads, Threads
  <2>2. Log!WriterLabels = WriterLabels
    BY DEF Log!WriterLabels, WriterLabels
  <2>3. QED
    BY <2>1, <2>2, <1>4, ViewIs
<1>5. th \in [Threads -> LRLocals] /\ SideTypes
  BY TypesAre
<1>6. QED
  BY <1>1, <1>2, <1>3, <1>4, <1>5

\* The step of the combiner, here and there.
LEMMA PhaseIs ==
  ASSUME LRTypeOK, Log!RInv
  PROVE  /\ lock = Free => Step = "free" /\ Log!Phase = "free"
         /\ \A t \in Threads : lock = t =>
              /\ Step = th[t].pc /\ Step \in Held
              /\ Log!Phase = LogThreads[t].pc
         /\ Step \in {"free"} \cup Held
         /\ Step = "free" <=> lock = Free
         /\ Step \in {"free"} \cup WriterLabels => Log!Phase = Step
         /\ \/ Step = "right"
            \/ Step \in Toggling /\ leftRight = TRAVERSE_RIGHT
            => Log!Phase = "wait"
         /\ \/ Step \in {"left", "clearRight"}
            \/ Step \in Toggling /\ leftRight = TRAVERSE_LEFT
            => Log!Phase = "answer"
         /\ Log!Todo = IF Step = "store" THEN th[lock].todo ELSE {}
<1>1. lock = Free => Step = "free" /\ Log!Phase = "free"
  BY DEF Step, Log!Phase, Log!Free, Free
<1>2. /\ lock \in Threads \cup {Free} /\ Free \notin Threads
      /\ \A t \in Threads : th[t].pc \in Held <=> lock = t
  BY Holder
<1>3. ASSUME NEW t \in Threads, lock = t
      PROVE  /\ Step = th[t].pc /\ Step \in Held
             /\ Log!Phase = LogThreads[t].pc
             /\ Log!Todo = IF Log!Phase = "store" THEN LogThreads[t].todo
                                                  ELSE {}
  BY <1>2, <1>3 DEF Step, Log!Phase, Log!Free, Free, Log!pc, Log!Todo
<1>4. Step \in {"free"} \cup Held
  BY <1>1, <1>2, <1>3
<1>5. "free" \notin Held
  BY DEF Held, WriterLabels, Starting, Ending, Toggling
<1>6. ASSUME NEW t \in Threads, lock = t
      PROVE  /\ Step \in {"free"} \cup WriterLabels =>
                  Log!Phase = Step /\ LogThreads[t] = th[t]
             /\ \/ Step = "right"
                \/ Step \in Toggling /\ leftRight = TRAVERSE_RIGHT
                => Log!Phase = "wait"
             /\ \/ Step \in {"left", "clearRight"}
                \/ Step \in Toggling /\ leftRight = TRAVERSE_LEFT
                => Log!Phase = "answer"
             /\ Log!Phase = "store" <=> Step = "store"
  <2>1. Step = th[t].pc /\ Log!Phase = LogThreads[t].pc /\ Step # "free"
    BY <1>3, <1>5, <1>6
  <2>2. WriterLabels \subseteq Plain
    BY DEF WriterLabels, Plain
  <2>3. Step \in WriterLabels => LogThreads[t] = th[t]
    BY <1>6, <2>1, <2>2, ViewIs
  <2>4. /\ Before(t) => Log!Phase = "wait"
        /\ After(t) => Log!Phase = "answer"
    BY <1>6, <2>1, ViewIs
  <2>5. Step \in Starting \cup Ending => Before(t) \/ After(t)
    BY <1>6, <2>1, ViewIs
  <2>6. Step \in WriterLabels \cup Starting \cup Ending
    BY <1>3, <1>6 DEF Held
  <2>7. Step \in Starting \cup Ending => Step \notin WriterLabels
    BY DEF Starting, Ending, WriterLabels, Toggling
  <2>8. "store" \in WriterLabels
    BY DEF WriterLabels
  <2>9. Log!Phase = "store" <=> Step = "store"
    BY <2>1, <2>3, <2>4, <2>5, <2>6, <2>7, <2>8
  <2>10. QED
    BY <2>1, <2>3, <2>4, <2>9 DEF Before, After
<1>7. Log!Todo = IF Step = "store" THEN th[lock].todo ELSE {}
  <2>1. CASE lock = Free
    BY <1>1, <2>1 DEF Log!Todo
  <2>2. CASE lock # Free
    <3>1. PICK t \in Threads : lock = t
      BY <1>2, <2>2
    <3>2. "store" \in WriterLabels
      BY DEF WriterLabels
    <3>3. QED
      BY <1>3, <1>6, <3>1, <3>2
  <2>3. QED
    BY <2>1, <2>2
<1>8. ASSUME lock = Free
      PROVE  /\ Step \notin Toggling
             /\ Step \notin {"right", "left", "clearRight"}
  BY <1>1, <1>8 DEF Toggling
<1>9. Step = "free" <=> lock = Free
  BY <1>1, <1>2, <1>3, <1>5
<1>10. QED
  <2>1. CASE lock = Free
    BY <1>1, <1>2, <1>7, <1>8, <1>9, <2>1
  <2>2. CASE lock # Free
    <3>1. PICK t \in Threads : lock = t
      BY <1>2, <2>2
    <3>2. QED
      BY <1>2, <1>3, <1>4, <1>6, <1>7, <1>9, <3>1
  <2>3. QED
    BY <2>1, <2>2

(***************************************************************************)
(* What a step makes of the threads, and of their view.                    *)
(***************************************************************************)

Moved(t, from, to, local) ==
  /\ machine = "up" /\ machine' = "up"
  /\ th[t].pc = from
  /\ th' = [th EXCEPT ![t] = [local EXCEPT !.pc = to]]
  /\ th' \in [Threads -> LRLocals]
  /\ th'[t] = [local EXCEPT !.pc = to]
  /\ th'[t].pc = to
  /\ th'[t].k = local.k
  /\ th'[t].i = local.i
  /\ th'[t].lfc = local.lfc
  /\ th'[t].todo = local.todo
  /\ th'[t].seen = local.seen
  /\ \A u \in Threads \ {t} : th'[u] = th[u]

LEMMA Moves ==
  ASSUME th \in [Threads -> LRLocals], NEW t \in Threads, NEW from,
         NEW to \in LRLabels, NEW local \in LRLocals, Go(t, from, to, local)
  PROVE  Moved(t, from, to, local)
<1>1. [local EXCEPT !.pc = to] \in LRLocals
  BY DEF LRLocals, LocalTypes
<1>2. /\ [local EXCEPT !.pc = to].pc = to
      /\ [local EXCEPT !.pc = to].k = local.k
      /\ [local EXCEPT !.pc = to].i = local.i
      /\ [local EXCEPT !.pc = to].lfc = local.lfc
      /\ [local EXCEPT !.pc = to].todo = local.todo
      /\ [local EXCEPT !.pc = to].seen = local.seen
  BY DEF LRLocals, LocalTypes
<1>3. th' = [th EXCEPT ![t] = [local EXCEPT !.pc = to]]
  BY DEF Go
<1> DEFINE new == [local EXCEPT !.pc = to]
<1> HIDE DEF new
<1>4. th'[t] = new /\ th' \in [Threads -> LRLocals]
  BY <1>1, <1>3 DEF new
<1>5. \A u \in Threads \ {t} : th'[u] = th[u]
  BY <1>3
<1>6. QED
  BY <1>2, <1>3, <1>4, <1>5 DEF Go, At, new, Moved

LEMMA SlotIs ==
  ASSUME th \in [Threads -> LRLocals], NEW t \in Threads, NEW i \in 0 .. N
  PROVE  /\ Slot(t, i) \in LRLocals
         /\ Slot(t, i).k = th[t].k /\ Slot(t, i).i = i
         /\ Slot(t, i).lfc = th[t].lfc /\ Slot(t, i).todo = th[t].todo
         /\ Slot(t, i).seen = th[t].seen
BY DEF Slot, LRLocals, LocalTypes

LEMMA LocalIs ==
  ASSUME NEW k \in Nat
  PROVE  /\ Local(k + 1) \in LRLocals /\ Local(k + 1).pc = "idle"
         /\ Local(k + 1).k = k + 1 /\ Local(k + 1).i = 0
<1>1. /\ [t \in Threads |-> 0] \in [Threads -> Nat]
      /\ [w \in Words |-> {}] \in [Words -> SUBSET Stamps]
      /\ 0 \in 0 .. N /\ k + 1 \in Nat \ {0}
  BY RomulusAssumption
<1>2. PICK none : none = [t \in Threads |-> 0]
  OBVIOUS
<1>3. PICK unseen : unseen = [w \in Words |-> {}]
  OBVIOUS
<1>4. PICK idle \in LRLabels : idle = "idle"
  BY DEF LRLabels, Labels
<1>5. PICK nothing \in SUBSET Words : nothing = {}
  BY Zenon
<1>6. Local(k + 1) = [pc |-> idle, k |-> k + 1, i |-> 0, lfc |-> none,
                      todo |-> nothing, seen |-> unseen]
  BY <1>2, <1>3, <1>4, <1>5, Zenon DEF Local
<1>7. none \in [Threads -> Nat] /\ unseen \in [Words -> SUBSET Stamps]
      /\ 0 \in 0 .. N /\ k + 1 \in Nat \ {0}
  BY <1>1, <1>2, <1>3
<1>8. Local(k + 1) \in LRLocals
  <2> HIDE <1>2, <1>3, <1>4, <1>5
  <2> QED
    BY <1>6, <1>7 DEF LRLocals, LocalTypes
<1>9. QED
  BY <1>4, <1>6, <1>8

\* The other threads are seen where they were.
LEMMA OthersSeen ==
  ASSUME LRTypeOK, Log!RInv, NEW t \in Threads,
         \A u \in Threads \ {t} : th'[u] = th[u],
         lock = t \/ leftRight' = leftRight
  PROVE  \A u \in Threads \ {t} : LogThreads'[u] = LogThreads[u]
<1>1. SUFFICES ASSUME NEW u \in Threads \ {t}
               PROVE  LogThread(u)' = LogThread(u)
  BY DEF LogThreads
<1>2. CASE leftRight' = leftRight
  BY <1>1, <1>2 DEF LogThread
<1>3. CASE lock = t
  <2>1. th[u].pc \notin Held
    BY <1>1, <1>3, Holder
  <2>2. QED
    BY <1>1, <2>1 DEF LogThread, Held, Starting, Ending, Toggling
<1>4. QED
  BY <1>2, <1>3

LEMMA SeenStep ==
  ASSUME NEW t \in Threads,
           \A u \in Threads \ {t} : LogThreads'[u] = LogThreads[u],
         NEW new, LogThread(t)' = new
  PROVE  LogThreads' = [LogThreads EXCEPT ![t] = new]
BY DEF LogThreads

\* A step between two labels that RomulusLog has, is one of its steps.
PlainGo(t, from, to, local) ==
  /\ Log!Go(t, from, to, local)
  /\ LogThreads[t] = th[t] /\ LogThreads'[t] = th'[t]
  /\ \A u \in Threads \ {t} : LogThreads'[u] = LogThreads[u]
  /\ Moved(t, from, to, local)

LEMMA PlainMoves ==
  ASSUME LRTypeOK, Log!RInv, NEW t \in Threads, NEW from \in Plain,
         NEW to \in Plain, NEW local \in LRLocals, Go(t, from, to, local),
         leftRight' = leftRight
  PROVE  PlainGo(t, from, to, local)
<1>1. th \in [Threads -> LRLocals]
  BY Holder
<1>2. to \in LRLabels
  BY DEF Plain, LRLabels, Labels, UpdateLabels, WriterLabels, ReaderLabels
<1>3. Moved(t, from, to, local)
  BY <1>1, <1>2, Moves
<1>4. LogThreads[t] = th[t]
  BY <1>3, ViewIs DEF Moved
<1>5. LogThread(t)' = th'[t]
  BY <1>3 DEF LogThread, Plain, Reading, Toggling, Moved
<1>6. /\ \A u \in Threads \ {t} : LogThreads'[u] = LogThreads[u]
      /\ LogThreads'[t] = th'[t]
  BY <1>3, <1>5, OthersSeen DEF LogThreads, Moved
<1>7. LogThreads' = [LogThreads EXCEPT ![t] = [local EXCEPT !.pc = to]]
  BY <1>3, <1>5, <1>6, SeenStep DEF Moved
<1>8. Log!Go(t, from, to, local)
  BY <1>3, <1>4, <1>7 DEF Log!Go, Log!At, Moved
<1>9. QED
  BY <1>3, <1>4, <1>6, <1>8 DEF PlainGo

\* A call that returns, and was none of a reader.
PlainBack(t, from, seen) ==
  /\ Log!Return(t, from, seen)
  /\ LogThreads[t] = th[t] /\ LogThreads'[t] = th'[t]
  /\ \A u \in Threads \ {t} : LogThreads'[u] = LogThreads[u]
  /\ th' \in [Threads -> LRLocals]
  /\ th[t].pc = from /\ th'[t].pc = "idle"
  /\ th'[t] = Local(th'[t].k)
  /\ \A u \in Threads \ {t} : th'[u] = th[u]
  /\ machine = "up" /\ machine' = "up"

LEMMA PlainReturn ==
  ASSUME LRTypeOK, Log!RInv, NEW t \in Threads, NEW from \in Plain,
         NEW seen, Return(t, from, seen), leftRight' = leftRight
  PROVE  PlainBack(t, from, seen)
<1>1. th \in [Threads -> LRLocals] /\ th[t].k \in Nat
  BY Holder DEF LRLocals, LocalTypes
<1>2. PICK local : local = Local(th[t].k + 1)
  OBVIOUS
<1>3. /\ local \in LRLocals /\ local = Local(local.k) /\ local.pc = "idle"
  BY <1>1, <1>2, LocalIs
<1>4. th' = [th EXCEPT ![t] = local]
  BY <1>2 DEF Return
<1>5. /\ th' \in [Threads -> LRLocals] /\ th'[t] = local
      /\ \A u \in Threads \ {t} : th'[u] = th[u]
      /\ th[t].pc = from /\ machine = "up" /\ machine' = "up"
  BY <1>1, <1>3, <1>4 DEF Return, At
<1>6. LogThreads[t] = th[t]
  BY <1>5, ViewIs
<1>7. LogThread(t)' = th'[t]
  BY <1>3, <1>5 DEF LogThread, Reading, Toggling
<1>8. /\ \A u \in Threads \ {t} : LogThreads'[u] = LogThreads[u]
      /\ LogThreads'[t] = th'[t]
  BY <1>5, <1>7, OthersSeen DEF LogThreads
<1>9. LogThreads' = [LogThreads EXCEPT ![t] = local]
  BY <1>5, <1>7, <1>8, SeenStep
<1>10. Log!Return(t, from, seen)
  BY <1>2, <1>5, <1>6, <1>9, SameEffect DEF Log!Return, Return, Log!At
<1>11. QED
  BY <1>3, <1>5, <1>6, <1>8, <1>10 DEF PlainBack

\* A step after which the threads are seen where they were.
LEMMA Unseen ==
  ASSUME LRTypeOK, Log!RInv, NEW t \in Threads,
         \A u \in Threads \ {t} : th'[u] = th[u],
         lock = t \/ leftRight' = leftRight,
         LogThread(t)' = LogThread(t), machine' = machine,
         UNCHANGED <<memory, fc, lock, reading, history>>
  PROVE  Log!RInv'
<1>1. LogThreads' = LogThreads
  BY OthersSeen DEF LogThreads
<1>2. UNCHANGED Log!vars
  BY <1>1 DEF Log!vars, Log!memory, Log!history, memory, history
<1>3. QED
  BY <1>2, LogAssumption, Log!StutterInv

(***************************************************************************)
(* The replicas.                                                           *)
(***************************************************************************)

\* Back has the effect of a number of calls that can be read off it, and main
\* that of all of them, unless the combiner is at its stores.
Replicas(n) ==
  /\ n \in 0 .. Len(ran) /\ \A w \in Words : Log!BackHas(w, Effect(n)[w])
  /\ stale = {} =>
       BackIs(n) /\ \A m \in 0 .. Len(ran) : BackIs(m) => m = n
  /\ Log!Phase \notin {"run", "store", "psync", "answer", "copy"} =>
       n = Len(ran)
  /\ Log!Phase \in {"run", "store", "psync"}
       => Log!Settled \subseteq Log!First(n)
  /\ Log!Phase # "store" =>
       \A w \in Words : Now(nvm, Main(w)) = Effect(Len(ran))[w]

LEMMA ReplicasAre ==
  Log!RInv /\ machine = "up" /\ ~spoilt => \E n : Replicas(n)
<1> SUFFICES ASSUME Log!RInv, machine = "up", ~spoilt
             PROVE  \E n : Replicas(n)
  OBVIOUS
<1>1. Log!TypeOK /\ Log!Logic /\ Log!UpState
  BY LogAssumption, Log!InvIs
<1>2. ran \in Seq(Log!Threads \X Nat) /\ Log!All = Len(ran) /\ Len(ran) \in Nat
  BY <1>1 DEF Log!TypeOK, Log!Types, Log!All
<1>3. PICK n \in 0 .. Log!All :
        /\ Log!Volatile(n)
        /\ Log!Phase \in {"run", "store", "psync"} =>
             Log!Settled \subseteq Log!First(n)
  BY <1>1 DEF Log!UpState
<1>4. \A w \in Words :
        /\ Log!BackHas(w, Effect(n)[w])
        /\ w \notin Log!Todo => Now(nvm, Main(w)) = Effect(Len(ran))[w]
  BY <1>2, <1>3, SameMemory, SameEffect DEF Log!Volatile
<1>5. Log!Phase # "store" => Log!Todo = {}
  BY DEF Log!Todo
<1>6. stale = {} => BackIs(n)
  BY <1>4, SameMemory DEF BackIs, Log!BackHas
<1>7. \A m \in 1 .. Log!All : Log!Stores(ran[m]) \cap Words # {}
  <2>1. SUFFICES ASSUME NEW m \in 1 .. Log!All
                 PROVE  Log!Stores(ran[m]) \cap Words # {}
    OBVIOUS
  <2>2. ran[m] \in Log!Range(ran) /\ ran[m] \in Log!Threads \X Nat
    BY <1>2, <2>1 DEF Log!Range
  <2>3. Log!RunOnce(ran[m])
    BY <1>1, <2>2 DEF Log!Logic, Log!RanState
  <2>4. /\ ran[m][2] \in DOMAIN Calls[ran[m][1]] /\ Log!Stores(ran[m]) # {}
        /\ ran[m][1] \in Log!Threads
    BY <2>2, <2>3 DEF Log!RunOnce
  <2>5. Log!Stores(ran[m]) \subseteq Words
    BY <2>4, LogAssumption DEF Log!Stores
  <2>6. QED
    BY <2>4, <2>5
<1>8. ASSUME stale = {}, NEW m \in 0 .. Len(ran), BackIs(m), m # n
      PROVE  FALSE
  <2>1. n \in Int /\ m \in Int
    BY <1>2, <1>3
  <2>2. \A w \in Words : Log!Effect(m)[w] = Log!Effect(n)[w]
    BY <1>6, <1>8, SameEffect DEF BackIs
  <2>3. m < n \/ n < m
    BY <1>8, <2>1
  <2>4. QED
    BY <1>2, <1>3, <1>7, <1>8, <2>2, <2>3, LogAssumption, Log!EffectsDiffer
<1>9. Log!Phase \notin {"run", "store", "psync", "answer", "copy"} =>
        n = Len(ran)
  BY <1>2, <1>3 DEF Log!Volatile
<1>10. Replicas(n)
  BY <1>2, <1>3, <1>4, <1>5, <1>6, <1>8, <1>9 DEF Replicas
<1>11. QED
  BY <1>10

LEMMA ReplicasAreNext ==
  Log!RInv' /\ machine' = "up" /\ ~spoilt' => \E n : Replicas(n)'
<1>1. (Log!RInv /\ machine = "up" /\ ~spoilt => \E n : Replicas(n))'
  BY ReplicasAre, PTL
<1>2. QED
  BY <1>1

(***************************************************************************)
(* Left-Right is left alone by the steps of RomulusLog.                    *)
(***************************************************************************)

\* Such a step of a thread that is no reader: off the lock, or its owner's.
PlainStep(t) ==
  /\ UNCHANGED lrVars
  /\ th' \in [Threads -> LRLocals] /\ \A u \in Threads \ {t} : th'[u] = th[u]
  /\ th[t].pc \in Plain /\ th'[t].pc \in Plain
  /\ th'[t].pc = "idle" => th'[t] = Local(th'[t].k)
  /\ th'[t].pc = "wait" => th'[t].i = 0
  /\ \/ /\ th[t].pc \notin WriterLabels /\ th'[t].pc \notin WriterLabels
        /\ lock' = lock
     \/ /\ lock \in {Free, t} /\ lock' \in {Free, t}
        /\ lock = t <=> th[t].pc \in WriterLabels
        /\ lock' = t <=> th'[t].pc \in WriterLabels
        /\ th[t].pc \in Changing <=> th'[t].pc \in Changing

\* What it makes of the step of the combiner.
LEMMA PlainPhase ==
  ASSUME LRInv, NEW t \in Threads, PlainStep(t)
  PROVE  \/ /\ Step' = Step /\ lock' = lock
            /\ lock \in Threads => th'[lock] = th[lock]
         \/ /\ Step \in {"free"} \cup WriterLabels
            /\ Step' \in {"free"} \cup WriterLabels
            /\ Step \in Changing <=> Step' \in Changing
            /\ Step' \in Changing => lock' = lock
<1>1. /\ lock \in Threads \cup {Free} /\ Free \notin Threads
      /\ th[t].pc \in Held <=> lock = t
  BY Holder DEF LRInv
<1>2. CASE /\ th[t].pc \notin WriterLabels /\ th'[t].pc \notin WriterLabels
           /\ lock' = lock
  <2>1. lock # t
    BY <1>1, <1>2 DEF PlainStep, Plain, Held, WriterLabels, Starting, Ending,
       Toggling
  <2>2. lock \in Threads => th'[lock] = th[lock]
    BY <2>1 DEF PlainStep
  <2>3. Step' = Step
    BY <1>1, <1>2, <2>2 DEF Step
  <2>4. QED
    BY <1>2, <2>2, <2>3
<1>3. CASE /\ lock \in {Free, t} /\ lock' \in {Free, t}
           /\ lock = t <=> th[t].pc \in WriterLabels
           /\ lock' = t <=> th'[t].pc \in WriterLabels
           /\ th[t].pc \in Changing <=> th'[t].pc \in Changing
  <2>1. /\ Step = IF lock = Free THEN "free" ELSE th[t].pc
        /\ Step' = IF lock' = Free THEN "free" ELSE th'[t].pc
    BY <1>3 DEF Step
  <2>2. t # Free
    BY <1>1
  <2>3. th[t].pc \in Changing => th[t].pc \in WriterLabels \cup {"left"}
    BY DEF Changing, WriterLabels
  <2>4. th'[t].pc \in Changing => th'[t].pc \in WriterLabels \cup {"left"}
    BY DEF Changing, WriterLabels
  <2>5. "free" \notin Changing
    BY DEF Changing
  <2>6. th[t].pc # "left" /\ th'[t].pc # "left"
    BY DEF PlainStep, Plain
  <2>7. QED
    BY <1>3, <2>1, <2>2, <2>3, <2>4, <2>5, <2>6
<1>4. QED
  BY <1>2, <1>3 DEF PlainStep

LEMMA PlainControl ==
  ASSUME LRInv, NEW t \in Threads, PlainStep(t)
  PROVE  LocalState' /\ SidesState' /\ IndicatorState' /\ OldReaders'
<1>1. UNCHANGED <<leftRight, versionIndex, ri, gRight, side, localVI, since>>
  BY DEF PlainStep, lrVars, sides
<1>2. LocalState'
  BY DEF PlainStep, LRInv, LocalState, Plain
<1>3. \A u \in Threads : th[u].pc \in Reading \/ th'[u].pc \in Reading =>
                           th'[u] = th[u]
  BY DEF PlainStep, Plain, Reading
<1>4. IndicatorState'
  BY <1>1, <1>3 DEF LRInv, IndicatorState, Reading
<1>5. ({"free"} \cup WriterLabels) \cap
        (Toggling \cup {"right", "clearRight"}) = {}
  BY DEF WriterLabels, Toggling
<1>6. SidesState'
  <2>1. CASE Step' = Step /\ lock' = lock
    BY <1>1, <2>1 DEF LRInv, SidesState
  <2>2. CASE /\ Step \in {"free"} \cup WriterLabels
             /\ Step' \in {"free"} \cup WriterLabels
             /\ Step \in Changing <=> Step' \in Changing
             /\ Step' \in Changing => lock' = lock
    BY <1>1, <1>5, <2>2 DEF LRInv, SidesState
  <2>3. QED
    BY <2>1, <2>2, PlainPhase
<1>7. \A u \in Threads : Old(u)' <=> Old(u)
  BY <1>1, <1>3 DEF Old, Reading
<1>8. OldReaders'
  <2>1. CASE /\ Step' = Step /\ lock' = lock
             /\ lock \in Threads => th'[lock] = th[lock]
    <3>1. Step \in Toggling => lock \in Threads
      BY Holder DEF Step, Toggling, LRInv
    <3>2. QED
      BY <1>1, <1>7, <2>1, <3>1 DEF LRInv, OldReaders, Toggling
  <2>2. CASE /\ Step \in {"free"} \cup WriterLabels
             /\ Step' \in {"free"} \cup WriterLabels
    BY <1>5, <1>7, <2>2 DEF LRInv, OldReaders, Toggling
  <2>3. QED
    BY <2>1, <2>2, PlainPhase
<1>9. QED
  BY <1>2, <1>4, <1>6, <1>8

\* The calls that were run before have the effect they had.
LEMMA EffectKept ==
  ASSUME ran \in Seq(Threads \X Nat),
         ran' = ran \/ \E c : ran' = Append(ran, c)
  PROVE  /\ Len(ran) \in Nat /\ Len(ran') \in {Len(ran), Len(ran) + 1}
         /\ \A n \in 0 .. Len(ran) : Effect(n)' = Effect(n)
<1>1. /\ Len(ran) \in Nat /\ Len(ran') \in {Len(ran), Len(ran) + 1}
      /\ \A m \in 1 .. Len(ran) : ran'[m] = ran[m]
  OBVIOUS
<1>2. (\A n : Log!Effect(n) = Effect(n))'
  BY SameEffect, PTL
<1>3. ASSUME NEW n \in 0 .. Len(ran)
      PROVE  Effect(n)' = Effect(n)
  <2>1. n \in Nat /\ \A m \in 1 .. n : ran'[m] = ran[m]
    BY <1>1
  <2>2. Log!Effect(n)' = Log!Effect(n)
    BY <2>1, LogAssumption, Log!EffectSame
  <2>3. QED
    BY <1>2, <2>2, SameEffect
<1>4. QED
  BY <1>1, <1>3

\* Readers that have loaded a side are on the one they are sent to, but while
\* the combiner waits.
LEMMA ReadersOn ==
  ASSUME LRInv, NEW t \in Threads, th[t].pc = "read"
  PROVE  /\ side[t] \in {TRAVERSE_LEFT, TRAVERSE_RIGHT}
         /\ Step \in Changing => side[t] = TRAVERSE_RIGHT
         /\ Step \notin Toggling \cup Changing => side[t] = TRAVERSE_LEFT
         /\ side[t] = TRAVERSE_RIGHT
              => gRight /\ Step \in Toggling \cup Changing
         /\ side[t] = TRAVERSE_LEFT => Step \notin Changing
<1>1. SideTypes
  BY TypesAre DEF LRInv
<1>2. side[t] # leftRight => Step \in Toggling
  BY DEF LRInv, OldReaders, Old
<1>3. /\ gRight <=> Step \in {"right", "clearRight"} \cup Toggling \cup Changing
      /\ leftRight = TRAVERSE_RIGHT => Step \in Toggling \cup Changing
      /\ Step \in Changing => leftRight = TRAVERSE_RIGHT
  BY DEF LRInv, SidesState
<1>4. Toggling \cap Changing = {}
  BY DEF Toggling, Changing
<1>5. QED
  BY <1>1, <1>2, <1>3, <1>4 DEF SideTypes, TRAVERSE_LEFT, TRAVERSE_RIGHT

LEMMA PlainData ==
  ASSUME LRInv, NEW t \in Threads, PlainStep(t), spoilt' = spoilt,
         stale' = stale \/ Step = "copy",
         \A w \in Words :
           /\ Now(nvm', Back(w)) = Now(nvm, Back(w)) \/ Step = "copy"
           /\ Now(nvm', Main(w)) = Now(nvm, Main(w)) \/ Step = "store",
         ran' = ran \/ \E c : ran' = Append(ran, c)
  PROVE  SeenSide' /\ SinceState'
<1>1. UNCHANGED <<leftRight, side, since>>
  BY DEF PlainStep, lrVars, sides
<1>2. \A u \in Threads : th'[u].pc \in Reading => th'[u] = th[u]
  BY DEF PlainStep, Plain, Reading
<1>3. "store" \in Changing /\ "copy" \notin Toggling \cup Changing
  BY DEF Changing, Toggling
<1>4. ASSUME NEW u \in Threads, th[u].pc = "read", NEW w \in Words
      PROVE  /\ side[u] = TRAVERSE_RIGHT
                  => Now(nvm', Back(w)) = Now(nvm, Back(w))
             /\ side[u] # TRAVERSE_RIGHT
                  => Now(nvm', Main(w)) = Now(nvm, Main(w))
  BY <1>3, <1>4, ReadersOn DEF TRAVERSE_LEFT, TRAVERSE_RIGHT
<1>5. SeenSide'
  <2>1. SUFFICES ASSUME NEW u \in Threads, th'[u].pc = "read",
                        NEW w \in Words \ th'[u].todo
                 PROVE  th'[u].seen[w] =
                          Now(nvm', IF side[u] = TRAVERSE_RIGHT
                                    THEN Back(w) ELSE Main(w))
    BY <1>1 DEF SeenSide, Back, Main
  <2>2. th'[u] = th[u]
    BY <1>2, <2>1 DEF Reading
  <2>3. th[u].seen[w] =
          Now(nvm, IF side[u] = TRAVERSE_RIGHT THEN Back(w) ELSE Main(w))
    BY <2>1, <2>2 DEF LRInv, SeenSide
  <2>4. QED
    BY <1>4, <2>1, <2>2, <2>3
<1>6. SinceState'
  <2>1. SUFFICES ASSUME NEW u \in Threads, th'[u].pc \in Reading, ~spoilt'
                 PROVE  /\ since'[u] <= Len(ran')
                        /\ (/\ stale' = {}
                            /\ \/ Step' \in Changing
                               \/ /\ th'[u].pc = "read"
                                  /\ side'[u] = TRAVERSE_RIGHT)
                           => \A n \in 0 .. Len(ran') :
                                BackIs(n)' => since'[u] <= n
    BY DEF SinceState
  <2>2. th'[u] = th[u] /\ since'[u] = since[u] /\ side'[u] = side[u] /\ ~spoilt
    BY <1>1, <1>2, <2>1
  <2>3. /\ since[u] <= Len(ran)
        /\ (/\ stale = {}
            /\ \/ Step \in Changing
               \/ th[u].pc = "read" /\ side[u] = TRAVERSE_RIGHT)
           => \A n \in 0 .. Len(ran) : BackIs(n) => since[u] <= n
    BY <2>1, <2>2 DEF LRInv, SinceState
  <2>4. since[u] \in Nat
    BY TypesAre DEF LRInv, SideTypes
  <2>5. ran \in Seq(Threads \X Nat)
    BY Holder DEF LRInv
  <2>6. /\ Len(ran) \in Nat /\ Len(ran') \in {Len(ran), Len(ran) + 1}
        /\ \A n \in 0 .. Len(ran) : Effect(n)' = Effect(n)
    BY <2>5, EffectKept
  <2>7. Step' \in Changing <=> Step \in Changing
    <3>1. "free" \notin Changing
      BY DEF Changing
    <3>2. QED
      BY <3>1, PlainPhase
  <2>8. ASSUME stale' = {},
               \/ Step' \in Changing
               \/ th'[u].pc = "read" /\ side'[u] = TRAVERSE_RIGHT,
               NEW n \in 0 .. Len(ran'), BackIs(n)'
        PROVE  since'[u] <= n
    <3>1. Step # "copy"
      BY <1>3, <2>2, <2>7, <2>8, ReadersOn DEF TRAVERSE_LEFT, TRAVERSE_RIGHT
    <3>2. CASE n \in 0 .. Len(ran)
      <4>1. BackIs(n)
        BY <2>6, <2>8, <3>1, <3>2 DEF BackIs, Back
      <4>2. QED
        BY <2>2, <2>3, <2>7, <2>8, <3>1, <3>2, <4>1
    <3>3. CASE n \notin 0 .. Len(ran)
      BY <2>2, <2>3, <2>4, <2>6, <2>8, <3>3
    <3>4. QED
      BY <3>2, <3>3
  <2>9. QED
    BY <2>2, <2>3, <2>4, <2>6, <2>8
<1>7. QED
  BY <1>5, <1>6

\* While functions run and until the memory is synced, that what is settled is
\* in back is part of the invariant of RomulusLog.
LEMMA PhaseIsStep ==
  LRTypeOK /\ Log!RInv =>
    (Step \in {"free"} \cup WriterLabels => Log!Phase = Step)
BY PhaseIs

LEMMA PhaseIsNext ==
  ASSUME LRTypeOK', Log!RInv', Step' \in {"free"} \cup WriterLabels
  PROVE  Log!Phase' = Step'
<1>1. (LRTypeOK /\ Log!RInv =>
         (Step \in {"free"} \cup WriterLabels => Log!Phase = Step))'
  BY PhaseIsStep, PTL
<1>2. QED
  BY <1>1

LEMMA SettledNext ==
  ASSUME LRTypeOK', Log!RInv', machine' = "up",
         Step' \in {"run", "store", "psync"}
  PROVE  SettledState'
<1>1. Log!Phase' = Step'
  BY PhaseIsNext DEF WriterLabels
<1>2. SUFFICES ASSUME ~spoilt', stale' = {}, NEW n \in 0 .. Len(ran'),
                      BackIs(n)'
               PROVE  Log!Settled' \subseteq Log!First(n)'
  BY DEF SettledState
<1>3. PICK m : Replicas(m)'
  BY <1>2, ReplicasAreNext
<1>4. n = m
  BY <1>2, <1>3 DEF Replicas
<1>5. QED
  BY <1>1, <1>3, <1>4 DEF Replicas

\* After that it remains so.
LEMMA SettledStays ==
  ASSUME LRInv, Step = "left", UNCHANGED <<nvm, ran, stale, spoilt>>,
         Log!Settled' \subseteq Log!Settled
  PROVE  SettledState'
<1>1. SUFFICES ASSUME ~spoilt', stale' = {}, NEW n \in 0 .. Len(ran'),
                      BackIs(n)'
               PROVE  Log!Settled' \subseteq Log!First(n)'
  BY DEF SettledState
<1>2. n \in 0 .. Len(ran) /\ BackIs(n)
  BY <1>1 DEF BackIs, Effect, Back
<1>3. Log!Settled \subseteq Log!First(n)
  BY <1>1, <1>2 DEF LRInv, SettledState, Changing
<1>4. Log!First(n)' = Log!First(n)
  BY DEF Log!First
<1>5. QED
  BY <1>3, <1>4

LEMMA PlainInv ==
  ASSUME LRInv, NEW t \in Threads, PlainStep(t), Log!RInv', machine' = "up",
         spoilt' = spoilt, stale' = stale \/ Step = "copy",
         \A w \in Words :
           /\ Now(nvm', Back(w)) = Now(nvm, Back(w)) \/ Step = "copy"
           /\ Now(nvm', Main(w)) = Now(nvm, Main(w)) \/ Step = "store",
         ran' = ran \/ \E c : ran' = Append(ran, c),
         Step = "left" => /\ UNCHANGED <<nvm, ran>>
                          /\ Log!Settled' \subseteq Log!Settled
  PROVE  LRInv'
<1>1. LRTypeOK'
  <2>1. Log!TypeOK'
    BY DEF Log!RInv, Log!Control
  <2>2. SideTypes'
    BY TypesAre DEF LRInv, SideTypes, PlainStep, lrVars, sides
  <2>3. QED
    BY <2>1, <2>2, TypesAreNext DEF PlainStep
<1>2. SettledState'
  <2>1. CASE Step' \in {"run", "store", "psync"}
    BY <1>1, <2>1, SettledNext
  <2>2. CASE Step' = "left"
    <3>1. Step = "left"
      BY <2>2, PlainPhase DEF WriterLabels
    <3>2. QED
      BY <3>1, SettledStays
  <2>3. CASE Step' \notin Changing
    BY <2>3 DEF SettledState
  <2>4. QED
    BY <2>1, <2>2, <2>3 DEF Changing
<1>3. QED
  BY <1>1, <1>2, PlainControl, PlainData DEF LRInv

(***************************************************************************)
(* ns_write_transaction.                                                   *)
(***************************************************************************)

\* A step off the lock settles nothing new.
LEMMA OffLock ==
  ASSUME LRInv, NEW t \in Threads, PlainStep(t), Log!RInv', machine' = "up",
         UNCHANGED <<nvm, ran, stale, spoilt>>,
         Step = "left" => Log!Settled' \subseteq Log!Settled
  PROVE  LRInv'
BY PlainInv

LEMMA SettledPlain ==
  ASSUME LRInv, NEW t \in Threads, PlainStep(t),
         \A u \in Threads \ {t} : LogThreads'[u] = LogThreads[u],
         \A u \in Threads \ {t} : fc'[u] = fc[u],
         due' \subseteq Log!Settled,
         LogThreads'[t] = th'[t], LogThreads[t] = th[t],
         th'[t].pc \in UpdateLabels /\ fc'[t] = 0 =>
           th[t].pc \in UpdateLabels /\ fc[t] = 0 /\ th'[t].k = th[t].k
  PROVE  Log!Settled' \subseteq Log!Settled
<1>1. \/ ~(Log!Updating(t)' /\ fc'[t] = 0)
      \/ Log!Updating(t) /\ fc[t] = 0 /\ LogThreads'[t].k = LogThreads[t].k
  BY DEF Log!Updating, Log!pc, Log!UpdateLabels, UpdateLabels,
         Log!WriterLabels, WriterLabels
<1>2. QED
  BY <1>1, LogAssumption, Log!SettledSame DEF Log!Threads, Threads

LEMMA WriteTransactionLR ==
  ASSUME LRInv, NEW t \in Threads, WriteTransaction(t), UNCHANGED lrVars
  PROVE  LRInv'
<1>1. LRTypeOK /\ Log!RInv /\ th \in [Threads -> LRLocals]
  BY Holder DEF LRInv
<1>2. PICK local \in LRLocals : local = th[t]
  BY <1>1
<1>3. Go(t, "idle", "tryLock", local) /\ leftRight' = leftRight
  BY <1>2 DEF WriteTransaction, Goto, lrVars, sides
<1>4. PlainGo(t, "idle", "tryLock", local)
  <2>1. "idle" \in Plain /\ "tryLock" \in Plain
    BY DEF Plain
  <2>2. QED
    BY <1>1, <1>2, <1>3, <2>1, PlainMoves
<1> USE DEF PlainGo, Moved
<1>5. Log!WriteTransaction(t)
  BY <1>2, <1>4 DEF WriteTransaction, Log!WriteTransaction, Log!Goto,
     HasCall, Log!HasCall, Call, Log!Call, memory, Log!memory, history,
     Log!history
<1>6. Log!RInv'
  BY <1>1, <1>5, LogAssumption, Log!WriteTransactionInv DEF Log!Threads, Threads
<1>7. PlainStep(t)
  BY <1>4 DEF PlainStep, Plain, WriterLabels, WriteTransaction

<1>8. Log!Settled' \subseteq Log!Settled
  <2>1. fc'[t] # 0 /\ \A u \in Threads \ {t} : fc'[u] = fc[u]
    <3>1. th[t].k \in Nat \ {0} /\ fc \in [Threads -> Nat]
      BY <1>1, TypesAre DEF LRInv, LRLocals, LocalTypes, Types
    <3>2. QED
      BY <3>1 DEF WriteTransaction
  <2>2. due' \subseteq Log!Settled
    BY DEF WriteTransaction, history, Log!Settled
  <2>3. QED
    BY <1>4, <1>7, <2>1, <2>2, SettledPlain
<1>9. QED
  BY <1>4, <1>6, <1>7, <1>8, OffLock DEF WriteTransaction, memory, history,
     Goto, Go, At

LEMMA TryExclusiveLockLR ==
  ASSUME LRInv, NEW t \in Threads, TryExclusiveLock(t), UNCHANGED lrVars
  PROVE  LRInv'
<1>1. LRTypeOK /\ Log!RInv /\ th \in [Threads -> LRLocals]
  BY Holder DEF LRInv
<1>2. PICK local \in LRLocals : local = th[t]
  BY <1>1
<1>3. PICK to \in {"collect", "checkDone"} :
        /\ Go(t, "tryLock", to, local)
        /\ \/ lock = Free /\ lock' = t /\ to = "collect"
           \/ lock # Free /\ lock' = lock /\ to = "checkDone"
  BY <1>2 DEF TryExclusiveLock, Goto
<1>4. "tryLock" \in Plain /\ to \in Plain /\ leftRight' = leftRight
  BY DEF Plain, lrVars, sides
<1>5. PlainGo(t, "tryLock", to, local)
  BY <1>1, <1>3, <1>4, PlainMoves
<1> USE DEF PlainGo, Moved
<1>6. Log!TryExclusiveLock(t)
  BY <1>2, <1>3, <1>5 DEF TryExclusiveLock, Log!TryExclusiveLock, Log!Goto,
     Log!At, Free, Log!Free, memory, Log!memory, history, Log!history
<1>7. Log!RInv'
  BY <1>1, <1>6, LogAssumption, Log!TryExclusiveLockInv DEF Log!Threads, Threads
<1>8. UNCHANGED <<nvm, ran, stale, spoilt, due, fc>>
  BY DEF TryExclusiveLock, memory, history
<1>9. PlainStep(t)
  <2>1. lock' = lock \/ lock' = t
    BY <1>3
  <2>2. t # Free /\ (th[t].pc \in Held <=> lock = t)
    BY <1>1, Holder
  <2>3. CASE to = "collect"
    BY <1>3, <1>5, <2>2, <2>3 DEF PlainStep, Plain, WriterLabels, Changing
  <2>4. CASE to = "checkDone"
    BY <1>3, <1>5, <2>4 DEF PlainStep, Plain, WriterLabels
  <2>5. QED
    BY <2>3, <2>4
<1>10. Step = "left" => Log!Settled' \subseteq Log!Settled
  <2>1. due' \subseteq Log!Settled
    BY <1>8 DEF Log!Settled
  <2>2. th[t].pc \in UpdateLabels /\ th'[t].k = th[t].k
    BY <1>2, <1>5 DEF UpdateLabels
  <2>3. QED
    BY <1>5, <1>8, <1>9, <2>1, <2>2, SettledPlain
<1>11. QED
  BY <1>5, <1>7, <1>8, <1>9, <1>10, OffLock

LEMMA CheckDoneLR ==
  ASSUME LRInv, NEW t \in Threads, CheckDone(t), UNCHANGED lrVars
  PROVE  LRInv'
<1>1. LRTypeOK /\ Log!RInv /\ th \in [Threads -> LRLocals]
  BY Holder DEF LRInv
<1>2. leftRight' = leftRight
  BY DEF lrVars, sides
<1>3. /\ "checkDone" \in Plain /\ "tryLock" \in Plain
      /\ "checkDone" \in UpdateLabels /\ "checkDone" \notin WriterLabels
      /\ "tryLock" \notin WriterLabels /\ "idle" \notin UpdateLabels
  BY DEF Plain, UpdateLabels, WriterLabels
<1>4. CASE fc[t] = 0 /\ UNCHANGED <<memory, fc, lock, reading>>
           /\ Return(t, "checkDone", Own(t))
  <2>1. PICK seen : seen = Own(t)
    OBVIOUS
  <2>2. Return(t, "checkDone", seen)
    BY <1>4, <2>1
  <2>3. PlainBack(t, "checkDone", seen)
    BY <1>1, <1>2, <1>3, <2>2, PlainReturn
  <2> USE DEF PlainBack
  <2>4. Log!CheckDone(t)
    BY <1>4, <2>1, <2>3 DEF Log!CheckDone, Log!Own, Own, memory, Log!memory
  <2>5. Log!RInv'
    BY <1>1, <2>4, LogAssumption, Log!CheckDoneInv DEF Log!Threads, Threads
  <2>6. PlainStep(t)
    BY <1>3, <1>4, <2>3 DEF PlainStep, Plain, WriterLabels
  <2>7. due' \subseteq Log!Settled
    <3>1. seen \subseteq {<<u, LogThreads[u].k>> : u \in
             {u \in Log!Threads : Log!Updating(u) /\ fc[u] = 0}}
      BY <1>4, <2>1, <2>3 DEF Log!Updating, Log!pc, Log!UpdateLabels, Own,
         Log!Threads, Threads
    <3>2. due' = due \cup seen
      BY <2>2 DEF Return
    <3>3. QED
      BY <3>1, <3>2 DEF Log!Settled
  <2>8. Log!Settled' \subseteq Log!Settled
    BY <1>3, <1>4, <2>3, <2>6, <2>7, SettledPlain
  <2>9. UNCHANGED <<nvm, ran, stale, spoilt>>
    BY <1>4 DEF memory, Return
  <2>10. QED
    BY <2>3, <2>5, <2>6, <2>8, <2>9, OffLock
<1>5. CASE /\ fc[t] # 0 /\ Goto(t, "checkDone", "tryLock")
           /\ UNCHANGED <<memory, fc, lock, reading, history>>
  <2>1. PICK local \in LRLocals : local = th[t]
    BY <1>1
  <2>2. Go(t, "checkDone", "tryLock", local)
    BY <1>5, <2>1 DEF Goto
  <2>3. PlainGo(t, "checkDone", "tryLock", local)
    BY <1>1, <1>2, <1>3, <2>2, PlainMoves
  <2> USE DEF PlainGo, Moved
  <2>4. Log!CheckDone(t)
    BY <1>5, <2>1, <2>3 DEF Log!CheckDone, Log!Goto, memory, Log!memory,
       history, Log!history
  <2>5. Log!RInv'
    BY <1>1, <2>4, LogAssumption, Log!CheckDoneInv DEF Log!Threads, Threads
  <2>6. PlainStep(t)
    BY <1>3, <1>5, <2>3 DEF PlainStep, Plain, WriterLabels
  <2>7. UNCHANGED <<nvm, ran, stale, spoilt, due, fc>>
    BY <1>5 DEF memory, history
  <2>8. Log!Settled' \subseteq Log!Settled
    <3>1. due' \subseteq Log!Settled
      BY <2>7 DEF Log!Settled
    <3>2. QED
      BY <1>3, <1>5, <2>1, <2>3, <2>6, <2>7, <3>1, SettledPlain
  <2>9. QED
    BY <2>3, <2>5, <2>6, <2>7, <2>8, OffLock
<1>6. QED
  BY <1>4, <1>5 DEF CheckDone

\* The owner of the lock.
LEMMA OwnStep ==
  ASSUME LRInv, NEW t \in Threads, th[t].pc \in WriterLabels
  PROVE  lock = t /\ Step = th[t].pc /\ t # Free
BY Holder, PhaseIs DEF LRInv, Held

LEMMA CollectLR ==
  ASSUME LRInv, NEW t \in Threads, Collect(t), UNCHANGED lrVars
  PROVE  LRInv'
<1>1. LRTypeOK /\ Log!RInv /\ th \in [Threads -> LRLocals]
  BY Holder DEF LRInv
<1>2. PICK local :
        local = [th[t] EXCEPT !.lfc = [@ EXCEPT ![th[t].i] = fc[th[t].i]],
                                         !.i = @ + 1]
  OBVIOUS
<1>3. local \in LRLocals
  <2>1. /\ th[t].lfc \in [Threads -> Nat] /\ th[t].i \in 0 .. N /\ N \in Nat
        /\ fc \in [Threads -> Nat] /\ th[t] \in LRLocals
    BY <1>1, TypesAre, RomulusAssumption DEF LRLocals, LocalTypes, Types
  <2>2. th[t].i < N
    BY DEF Collect
  <2>3. th[t].i \in Threads /\ th[t].i + 1 \in 0 .. N
    <3>1. PICK i \in 0 .. N : i = th[t].i /\ i < N
      BY <2>1, <2>2
    <3>2. i \in 0 .. N - 1 /\ i + 1 \in 0 .. N
      BY <2>1, <3>1
    <3>3. QED
      BY <3>1, <3>2 DEF Threads
  <2>4. PICK lfc \in [Threads -> Nat] :
          lfc = [th[t].lfc EXCEPT ![th[t].i] = fc[th[t].i]]
    BY <2>1, <2>3
  <2>5. local = [th[t] EXCEPT !.lfc = lfc, !.i = th[t].i + 1]
    BY <1>2, <2>1, <2>4 DEF LRLocals, LocalTypes
  <2>6. QED
    BY <2>1, <2>3, <2>5 DEF LRLocals, LocalTypes
<1>4. Go(t, "collect", "collect", local) /\ leftRight' = leftRight
  BY <1>2 DEF Collect, lrVars, sides
<1>5. PlainGo(t, "collect", "collect", local)
  <2>1. "collect" \in Plain
    BY DEF Plain
  <2>2. QED
    BY <1>1, <1>3, <1>4, <2>1, PlainMoves
<1> USE DEF PlainGo, Moved
<1>6. Log!Collect(t)
  BY <1>2, <1>5 DEF Collect, Log!Collect, memory, Log!memory, history,
     Log!history
<1>7. Log!RInv'
  BY <1>1, <1>6, LogAssumption, Log!CollectInv DEF Log!Threads, Threads
<1>8. lock = t /\ Step = "collect" /\ t # Free
  BY <1>5, OwnStep DEF WriterLabels
<1>9. UNCHANGED <<nvm, ran, stale, spoilt, lock>>
  BY DEF Collect, memory, history
<1>10. PlainStep(t)
  BY <1>5, <1>8, <1>9 DEF PlainStep, Plain, WriterLabels, Changing
<1>11. QED
  BY <1>5, <1>7, <1>8, <1>9, <1>10, OffLock

LEMMA ExclusiveUnlockLR ==
  ASSUME LRInv, NEW t \in Threads, ExclusiveUnlock(t), UNCHANGED lrVars
  PROVE  LRInv'
<1>1. LRTypeOK /\ Log!RInv /\ th \in [Threads -> LRLocals]
  BY Holder DEF LRInv
<1>2. PICK from : from = th[t].pc
  OBVIOUS
<1>3. /\ from \in {"unlock", "collect"}
      /\ from \in Plain /\ from \in WriterLabels /\ from \notin Changing
  BY <1>2 DEF ExclusiveUnlock, At, Plain, WriterLabels, Changing
<1>4. PICK seen : seen = Own(t)
  OBVIOUS
<1>5. PlainBack(t, from, seen)
  <2>1. Return(t, from, seen) /\ leftRight' = leftRight
    BY <1>2, <1>4 DEF ExclusiveUnlock, lrVars, sides
  <2>2. QED
    BY <1>1, <1>3, <2>1, PlainReturn
<1> USE DEF PlainBack
<1>6. Log!ExclusiveUnlock(t)
  BY <1>2, <1>4, <1>5 DEF ExclusiveUnlock, Log!ExclusiveUnlock, At, Log!At,
     Collected, Log!Collected, Log!Threads, Threads, Free, Log!Free, Own,
     Log!Own, memory, Log!memory
<1>7. Log!RInv'
  BY <1>1, <1>6, LogAssumption, Log!ExclusiveUnlockInv DEF Log!Threads, Threads
<1>8. lock = t /\ Step = from /\ t # Free /\ lock' = Free
  BY <1>2, <1>3, OwnStep DEF ExclusiveUnlock
<1>9. UNCHANGED <<nvm, ran, stale, spoilt>>
  BY DEF ExclusiveUnlock, memory, Return
<1>10. PlainStep(t)
  BY <1>3, <1>5, <1>8 DEF PlainStep, Plain, WriterLabels, Changing
<1>11. QED
  BY <1>3, <1>5, <1>7, <1>8, <1>9, <1>10, OffLock

LEMMA LockWritersLR ==
  ASSUME LRInv, NEW t \in Threads, LockWriters(t)
  PROVE  LRInv'
BY WriteTransactionLR, TryExclusiveLockLR, CheckDoneLR, CollectLR,
   ExclusiveUnlockLR DEF LockWriters

(***************************************************************************)
(* The combiner in memory.                                                 *)
(***************************************************************************)

LEMMA LineTypes ==
  /\ State \in Lines /\ {"IDLE", "MUTATING", "COPYING"} = Log!Contents(State)
  /\ \A w \in Words : /\ Main(w) \in Lines \ {State}
                      /\ Back(w) \in Lines \ {State}
                      /\ Log!Contents(Main(w)) = SUBSET Stamps
  /\ \A v, w \in Words : Main(v) # Back(w)
BY DEF State, Lines, Mains, Backs, Main, Back, Log!Contents, Log!State,
       Stamps, Log!Stamps, Log!Threads, Threads

\* A store changes one line, and a fence nothing that is seen.
LEMMA Storing ==
  ASSUME NEW mem, Log!Memory(mem), NEW l \in Lines, NEW x \in Log!Contents(l)
  PROVE  /\ Log!Memory(Stored(mem, l, x))
         /\ \A k \in Lines \ {l} : Now(Stored(mem, l, x), k) = Now(mem, k)
         /\ Now(Stored(mem, l, x), l) = x
<1>1. Lines = Log!Lines
  BY SameMemory
<1>2. /\ Log!Memory(Log!Stored(mem, l, x))
      /\ Log!Now(Log!Stored(mem, l, x), l) = x
      /\ \A k \in Lines \ {l} :
           Log!Now(Log!Stored(mem, l, x), k) = Log!Now(mem, k)
  BY <1>1, LogAssumption, Log!StoredMemory
<1>3. QED
  BY <1>2, SameMemory, SameStores

LEMMA Fencing ==
  ASSUME NEW mem, Log!Memory(mem), NEW noted,
         \A l \in DOMAIN noted : noted[l] = Now(mem, l)
  PROVE  /\ Log!Memory(Fenced(mem, noted))
         /\ \A l \in Lines : Now(Fenced(mem, noted), l) = Now(mem, l)
<1>1. Lines = Log!Lines
  BY SameMemory
<1>2. \A l \in DOMAIN noted : noted[l] = Log!Now(mem, l)
  BY SameMemory
<1>3. PICK after : after = Log!Fenced(mem, noted)
  OBVIOUS
<1>4. /\ Log!Memory(Log!Fenced(mem, noted))
      /\ \A l \in Log!Lines :
           /\ Log!Now(Log!Fenced(mem, noted), l) = Log!Now(mem, l)
           /\ Log!Fenced(mem, noted)[l] =
                IF l \in DOMAIN noted THEN <<Log!Now(mem, l)>> ELSE mem[l]
  <2> HIDE <1>1, <1>3
  <2> QED
    BY <1>2, LogAssumption, Log!FencedMemory, SMTT(60)
<1>5. after = Fenced(mem, noted)
  BY <1>3, SameStores
<1>6. QED
  BY <1>1, <1>3, <1>4, <1>5, SameMemory

\* What has been written back is still so.
LEMMA NotedIs ==
  ASSUME LRInv
  PROVE  /\ \A l \in DOMAIN pwb : pwb[l] = Now(nvm, l)
         /\ Log!Memory(nvm)
BY Holder, SameMemory DEF LRInv, Log!Noted

LEMMA SetMutatingLR ==
  ASSUME LRInv, NEW t \in Threads, SetMutating(t), UNCHANGED lrVars
  PROVE  LRInv'
<1>1. LRTypeOK /\ Log!RInv /\ th \in [Threads -> LRLocals] /\ N \in Nat
  BY Holder DEF LRInv
<1>2. PICK local : local = Slot(t, 0)
  OBVIOUS
<1>3. local \in LRLocals /\ local.i = 0
  <2>1. 0 \in 0 .. N
    BY <1>1
  <2>2. QED
    BY <1>1, <1>2, <2>1, SlotIs
<1>4. Go(t, "collect", "wait", local) /\ leftRight' = leftRight
  BY <1>2 DEF SetMutating, lrVars, sides
<1>5. PlainGo(t, "collect", "wait", local)
  <2>1. "collect" \in Plain /\ "wait" \in Plain
    BY DEF Plain
  <2>2. QED
    BY <1>1, <1>3, <1>4, <2>1, PlainMoves
<1> USE DEF PlainGo, Moved
<1>6. Log!SetMutating(t)
  BY <1>2, <1>5, SameStores, SameMemory DEF SetMutating, Log!SetMutating,
     Collected, Log!Collected, Log!Threads, Threads, Slot, Log!Slot, history,
     Log!history
<1>7. Log!RInv'
  BY <1>1, <1>6, LogAssumption, Log!SetMutatingInv DEF Log!Threads, Threads
<1>8. lock = t /\ Step = "collect" /\ t # Free
  BY <1>5, OwnStep DEF WriterLabels
<1>9. UNCHANGED <<ran, stale, spoilt, lock>>
  BY DEF SetMutating, history
<1>10. PlainStep(t)
  BY <1>3, <1>5, <1>8, <1>9 DEF PlainStep, Plain, WriterLabels, Changing
<1>11. ASSUME NEW w \in Words
       PROVE  /\ Now(nvm', Back(w)) = Now(nvm, Back(w))
              /\ Now(nvm', Main(w)) = Now(nvm, Main(w))
  <2>1. PICK stored : stored = Stored(nvm, State, "MUTATING")
    OBVIOUS
  <2>2. PICK noted : noted = WrittenBack(pwb, stored, {State})
    OBVIOUS
  <2>3. nvm' = Fenced(stored, noted)
    BY <2>1, <2>2 DEF SetMutating
  <2>4. /\ Log!Memory(stored)
        /\ \A k \in Lines \ {State} : Now(stored, k) = Now(nvm, k)
    BY <2>1, NotedIs, LineTypes, Storing
  <2>5. DOMAIN pwb \subseteq Lines
    BY <1>1, TypesAre DEF Types
  <2>6. \A l \in DOMAIN noted : noted[l] = Now(stored, l)
    BY <2>2, <2>4, <2>5, NotedIs DEF WrittenBack
  <2>7. \A l \in Lines : Now(nvm', l) = Now(stored, l)
    BY <2>3, <2>4, <2>6, Fencing
  <2>8. QED
    BY <2>4, <2>7, LineTypes
<1>12. QED
  BY <1>5, <1>7, <1>8, <1>9, <1>10, <1>11, PlainInv

\* The function the combiner is to run is one of the program.
LEMMA RunningStores ==
  ASSUME LRInv, NEW t \in Threads, th[t].pc = "run", th[t].i < N,
         th[t].i \in Collected(t)
  PROVE  Stores(Running(t)) \subseteq Words
<1>1. /\ LRTypeOK /\ Log!Logic /\ th \in [Threads -> LRLocals]
      /\ \A u \in Threads : th[u].pc \in Held <=> lock = u
  BY Holder DEF LRInv
<1>2. PICK u \in Threads : u = th[t].i /\ th[t].lfc[u] # 0
  BY DEF Collected
<1>3. LogThreads[t] = th[t] /\ LogThreads[u].k = th[u].k
  BY <1>1, ViewIs DEF Plain
<1>4. fc[u] = th[t].lfc[u]
  BY <1>1, <1>2, <1>3 DEF Log!Logic, Log!CollectState, Log!CollectedFrom,
     Log!Unanswered, Log!pc, Log!Threads, Threads
<1>5. fc[u] = th[u].k /\ th[u].k \in 1 .. Len(Calls[u])
  <2>1. /\ fc[u] # 0 => Log!Updating(u) /\ fc[u] = LogThreads[u].k
        /\ Log!Updating(u) => Log!HasCall(u)
    BY <1>1 DEF Log!Logic, Log!SlotState, Log!Threads, Threads
  <2>2. th[u].k \in Nat \ {0} /\ Len(Calls[u]) \in Nat
    BY <1>1, RomulusAssumption DEF LRLocals, LocalTypes
  <2>3. QED
    BY <1>2, <1>3, <1>4, <2>1, <2>2 DEF Log!HasCall
<1>6. Running(t) = <<u, th[u].k>>
  BY <1>2, <1>4, <1>5 DEF Running
<1>7. Calls[u] \in Seq(SUBSET Words)
  BY RomulusAssumption
<1>8. QED
  BY <1>5, <1>6, <1>7 DEF Stores

LEMMA RunFunctionLR ==
  ASSUME LRInv, NEW t \in Threads, RunFunction(t), UNCHANGED lrVars
  PROVE  LRInv'
<1>1. LRTypeOK /\ Log!RInv /\ th \in [Threads -> LRLocals] /\ N \in Nat
      /\ leftRight' = leftRight
  BY Holder DEF LRInv, lrVars, sides
<1>2. th[t].i \in 0 .. N /\ th[t].pc = "run" /\ th[t].i < N
  BY <1>1 DEF RunFunction, At, LRLocals, LocalTypes
<1>3. "run" \in Plain /\ "store" \in Plain
  BY DEF Plain
<1>4. LogThreads[t] = th[t]
  BY <1>1, <1>2, <1>3, ViewIs
<1>5. PICK to, local :
        /\ PlainGo(t, "run", to, local) /\ to \in {"run", "store"}
        /\ Log!RunFunction(t)
        /\ ran' = ran \/ \E c : ran' = Append(ran, c)
        /\ spoilt' = spoilt /\ stale' = stale
  <2>1. CASE /\ th[t].i \notin Collected(t)
             /\ Go(t, "run", "run", Slot(t, th[t].i + 1))
             /\ UNCHANGED history
    <3>1. PICK local : local = Slot(t, th[t].i + 1)
      OBVIOUS
    <3>2. local \in LRLocals
      <4>1. th[t].i + 1 \in 0 .. N
        BY <1>1, <1>2
      <4>2. QED
        BY <1>1, <3>1, <4>1, SlotIs
    <3>3. PlainGo(t, "run", "run", local)
      <4>1. Go(t, "run", "run", local)
        BY <2>1, <3>1
      <4>2. QED
        BY <1>1, <1>3, <3>2, <4>1, PlainMoves
    <3>4. Log!RunFunction(t)
      BY <1>2, <1>4, <2>1, <3>1, <3>3 DEF RunFunction, Log!RunFunction, PlainGo,
         Moved, Log!At, Collected, Log!Collected, Log!Threads, Threads,
         Slot, Log!Slot, history, Log!history, memory, Log!memory
    <3>5. QED
      BY <2>1, <3>3, <3>4 DEF history
  <2>2. CASE /\ th[t].i \in Collected(t)
             /\ Go(t, "run", "store",
                  [th[t] EXCEPT !.todo = Stores(Running(t))])
             /\ ran' = Append(ran, Running(t))
             /\ UNCHANGED <<due, overflowed, behind, stale, spoilt, restarts>>
    <3>1. PICK local : local = [th[t] EXCEPT !.todo = Stores(Running(t))]
      OBVIOUS
    <3>2. local \in LRLocals
      <4>1. Stores(Running(t)) \in SUBSET Words
        BY <1>2, <2>2, RunningStores
      <4>2. QED
        BY <1>1, <3>1, <4>1 DEF LRLocals, LocalTypes
    <3>3. PlainGo(t, "run", "store", local)
      <4>1. Go(t, "run", "store", local)
        BY <2>2, <3>1
      <4>2. QED
        BY <1>1, <1>3, <3>2, <4>1, PlainMoves
    <3>4. Log!RunFunction(t)
      BY <1>2, <1>4, <2>2, <3>1, <3>3 DEF RunFunction, Log!RunFunction, PlainGo,
         Moved, Log!At, Collected, Log!Collected, Log!Threads, Threads,
         Running, Log!Running, Stores, Log!Stores, memory, Log!memory
    <3>5. QED
      BY <2>2, <3>3, <3>4
  <2>3. QED
    BY <2>1, <2>2 DEF RunFunction
<1>6. Log!RInv'
  BY <1>1, <1>5, LogAssumption, Log!NotCollectedInv, Log!FunctionRunInv
     DEF Log!Threads, Threads
<1>7. lock = t /\ Step = "run" /\ t # Free
  BY <1>2, OwnStep DEF WriterLabels
<1>8. UNCHANGED <<nvm, lock>>
  BY DEF RunFunction, memory
<1>9. PlainStep(t)
  BY <1>5, <1>7, <1>8
       DEF PlainStep, Plain, WriterLabels, Changing, PlainGo, Moved
<1>10. QED
  BY <1>5, <1>6, <1>7, <1>8, <1>9, PlainInv DEF PlainGo, Moved

\* The combiner loads from main.
LEMMA StoreAfterLR ==
  ASSUME LRInv, NEW t \in Threads, NEW w \in Words,
         StoreAfter(t, w, PLoad(t, w)), UNCHANGED lrVars
  PROVE  LRInv'
<1>1. LRTypeOK /\ Log!RInv /\ th \in [Threads -> LRLocals] /\ N \in Nat
      /\ leftRight' = leftRight
  BY Holder DEF LRInv, lrVars, sides
<1>2. th[t].pc = "store" /\ th[t] \in LRLocals
  BY <1>1 DEF StoreAfter, Go, At
<1>3. lock = t /\ Step = "store" /\ t # Free
  BY <1>2, OwnStep DEF WriterLabels
<1>4. side[t] = TRAVERSE_LEFT
  BY <1>3 DEF LRInv, SidesState, Changing
<1>5. PICK loaded : loaded = Now(nvm, Main(w))
  OBVIOUS
<1>6. PLoad(t, w) = loaded
  BY <1>4, <1>5 DEF PLoad, TRAVERSE_LEFT, TRAVERSE_RIGHT
<1>7. StoreAfter(t, w, loaded)
  BY <1>6
<1>8. LogThreads[t] = th[t]
  BY <1>1, <1>2, ViewIs DEF Plain
<1>9. th[t].i \in Threads
  <2>1. Log!StoreState /\ Log!pc(t) = "store"
    BY <1>1, <1>2, <1>8, Holder DEF Log!Logic, Log!pc
  <2>2. LogThreads[t].i \in Log!Collected(t)
    BY <2>1 DEF Log!StoreState, Log!Threads, Threads
  <2>3. QED
    BY <1>8, <2>2 DEF Log!Collected, Log!Threads, Threads
<1>10. PICK to \in {"run", "store"}, local \in LRLocals :
         /\ Go(t, "store", to, local)
         /\ IF th[t].todo \ {w} = {}
            THEN /\ to = "run"
                 /\ local = [th[t] EXCEPT !.todo = th[t].todo \ {w},
                      !.i = @ + 1]
            ELSE to = "store"
              /\ local = [th[t] EXCEPT !.todo = th[t].todo \ {w}]
  <2>1. th[t].i + 1 \in 0 .. N /\ th[t].todo \ {w} \in SUBSET Words
    BY <1>1, <1>2, <1>9 DEF LRLocals, LocalTypes, Threads
  <2>2. PICK rest \in SUBSET Words : rest = th[t].todo \ {w}
    BY <2>1
  <2>3. CASE rest = {}
    <3>1. PICK local : local = [th[t] EXCEPT !.todo = rest, !.i = @ + 1]
      OBVIOUS
    <3>2. local \in LRLocals
      BY <1>2, <2>1, <3>1 DEF LRLocals, LocalTypes
    <3>3. Go(t, "store", "run", local)
      BY <1>7, <2>2, <2>3, <3>1 DEF StoreAfter
    <3>4. QED
      BY <2>2, <2>3, <3>1, <3>2, <3>3
  <2>4. CASE rest # {}
    <3>1. PICK local : local = [th[t] EXCEPT !.todo = rest]
      OBVIOUS
    <3>2. local \in LRLocals
      BY <1>2, <3>1 DEF LRLocals, LocalTypes
    <3>3. Go(t, "store", "store", local)
      BY <1>7, <2>2, <2>4, <3>1 DEF StoreAfter
    <3>4. QED
      BY <2>2, <2>4, <3>1, <3>2, <3>3
  <2>5. QED
    BY <2>3, <2>4
<1>11. PlainGo(t, "store", to, local)
  <2>1. "store" \in Plain /\ to \in Plain
    BY DEF Plain
  <2>2. QED
    BY <1>1, <1>10, <2>1, PlainMoves
<1>12. Log!StoreAfter(t, w, loaded)
  <2>1. /\ w \in LogThreads[t].todo
        /\ IF LogThreads[t].todo \ {w} = {}
           THEN Log!Go(t, "store", "run",
                       [LogThreads[t] EXCEPT !.todo = LogThreads[t].todo \ {w},
                                             !.i = @ + 1])
           ELSE Log!Go(t, "store", "store",
                       [LogThreads[t] EXCEPT !.todo = LogThreads[t].todo \ {w}])
    BY <1>7, <1>8, <1>10, <1>11 DEF StoreAfter, PlainGo
  <2>2. Log!Running(t) = Running(t) /\ Log!Main(w) = Main(w)
    BY <1>8, SameMemory DEF Log!Running, Running
  <2>3. Log!Logged(w) = Logged(w) /\ Log!Skipped = Skipped
    BY DEF Log!Logged, Logged, Log!Skipped, Skipped, Log!Range, Range
  <2>4. QED
    BY <1>7, <2>1, <2>2, <2>3, SameStores DEF StoreAfter, Log!StoreAfter
<1>13. Log!RInv'
  BY <1>1, <1>5, <1>12, LogAssumption, SameMemory, Log!StoreAfterInv
     DEF Log!Threads, Threads
<1>14. UNCHANGED <<ran, stale, spoilt, lock>>
  BY DEF StoreAfter
<1>15. PlainStep(t)
  BY <1>3, <1>11, <1>14 DEF PlainStep, Plain, WriterLabels, Changing, PlainGo,
     Moved
<1>16. ASSUME NEW v \in Words
       PROVE  Now(nvm', Back(v)) = Now(nvm, Back(v))
  <2>1. Back(v) # Main(w)
    BY LineTypes
  <2>2. \E new : nvm' = Stored(nvm, Main(w), new)
    BY DEF StoreAfter
  <2>3. nvm'[Back(v)] = nvm[Back(v)]
    BY <2>1, <2>2 DEF Stored
  <2>4. QED
    BY <2>3 DEF Now
<1>17. QED
  BY <1>3, <1>11, <1>13, <1>14, <1>15, <1>16, PlainInv DEF PlainGo, Moved

LEMMA SetCopyingLR ==
  ASSUME LRInv, NEW t \in Threads, SetCopying(t), UNCHANGED lrVars
  PROVE  LRInv'
<1>1. LRTypeOK /\ Log!RInv /\ th \in [Threads -> LRLocals] /\ N \in Nat
  BY Holder DEF LRInv
<1>2. PICK local : local = Slot(t, 0)
  OBVIOUS
<1>3. local \in LRLocals /\ local.i = 0
  <2>1. 0 \in 0 .. N
    BY <1>1
  <2>2. QED
    BY <1>1, <1>2, <2>1, SlotIs
<1>4. Go(t, "run", "psync", local) /\ leftRight' = leftRight
  BY <1>2 DEF SetCopying, lrVars, sides
<1>5. PlainGo(t, "run", "psync", local)
  <2>1. "run" \in Plain /\ "psync" \in Plain
    BY DEF Plain
  <2>2. QED
    BY <1>1, <1>3, <1>4, <2>1, PlainMoves
<1> USE DEF PlainGo, Moved
<1>6. Log!SetCopying(t)
  <2>1. {Log!Main(w) : w \in Log!Range(log)} = {Main(w) : w \in Range(log)}
    BY SameMemory DEF Log!Range, Range
  <2>2. QED
    BY <1>2, <1>5, <2>1, SameStores, SameMemory DEF SetCopying, Log!SetCopying,
       Slot, Log!Slot, history, Log!history
<1>7. Log!RInv'
  BY <1>1, <1>6, LogAssumption, Log!SetCopyingInv DEF Log!Threads, Threads
<1>8. lock = t /\ Step = "run" /\ t # Free
  BY <1>5, OwnStep DEF WriterLabels
<1>9. UNCHANGED <<ran, stale, spoilt, lock>>
  BY DEF SetCopying, history
<1>10. PlainStep(t)
  BY <1>5, <1>8, <1>9 DEF PlainStep, Plain, WriterLabels, Changing
<1>11. ASSUME NEW w \in Words
       PROVE  /\ Now(nvm', Back(w)) = Now(nvm, Back(w))
              /\ Now(nvm', Main(w)) = Now(nvm, Main(w))
  <2>1. PICK noted : noted = WrittenBack(pwb, nvm, {Main(v) : v \in Range(log)})
    OBVIOUS
  <2>2. PICK mem : mem = Fenced(nvm, noted)
    OBVIOUS
  <2>3. nvm' = Stored(mem, State, "COPYING")
    BY <2>1, <2>2 DEF SetCopying
  <2>4. \A l \in DOMAIN noted : noted[l] = Now(nvm, l)
    BY <2>1, NotedIs DEF WrittenBack
  <2>5. /\ Log!Memory(mem)
        /\ \A l \in Lines : Now(mem, l) = Now(nvm, l)
    BY <2>2, <2>4, NotedIs, Fencing
  <2>6. \A k \in Lines \ {State} : Now(nvm', k) = Now(mem, k)
    BY <2>3, <2>5, LineTypes, Storing
  <2>7. QED
    BY <2>5, <2>6, LineTypes
<1>12. QED
  BY <1>5, <1>7, <1>8, <1>9, <1>10, <1>11, PlainInv

LEMMA MutateLR ==
  ASSUME LRInv, NEW t \in Threads, Mutate(t)
  PROVE  LRInv'
BY SetMutatingLR, RunFunctionLR, StoreAfterLR, SetCopyingLR DEF Mutate

LEMMA AnswerLR ==
  ASSUME LRInv, NEW t \in Threads, Answer(t), UNCHANGED lrVars
  PROVE  LRInv'
<1>1. LRTypeOK /\ Log!RInv /\ th \in [Threads -> LRLocals] /\ N \in Nat
      /\ leftRight' = leftRight
  BY Holder DEF LRInv, lrVars, sides
<1>2. th[t].pc = "answer" /\ th[t].i \in 0 .. N
  BY <1>1 DEF Answer, At, LRLocals, LocalTypes
<1>3. PICK to \in {"answer", "copy"}, i \in 0 .. N :
        /\ Go(t, "answer", to, Slot(t, i))
        /\ \/ th[t].i < N /\ to = "answer" /\ i = th[t].i + 1
           \/ th[t].i = N /\ to = "copy" /\ i = 0
  <2>1. CASE th[t].i < N /\ Go(t, "answer", "answer", Slot(t, th[t].i + 1))
    BY <1>1, <1>2, <2>1
  <2>2. CASE th[t].i = N /\ Go(t, "answer", "copy", Slot(t, 0))
    BY <1>1, <1>2, <2>2
  <2>3. QED
    BY <2>1, <2>2 DEF Answer
<1>4. PICK local \in LRLocals : local = Slot(t, i)
  BY <1>1, SlotIs
<1>5. PlainGo(t, "answer", to, local)
  <2>1. "answer" \in Plain /\ to \in Plain
    BY DEF Plain
  <2>2. QED
    BY <1>1, <1>3, <1>4, <2>1, PlainMoves
<1> USE DEF PlainGo, Moved
<1>6. Log!Answer(t)
  <2>1. Log!Slot(t, i) = local
    BY <1>4, <1>5 DEF Slot, Log!Slot
  <2>2. /\ Log!At(t, "answer")
        /\ \/ LogThreads[t].i < N
              /\ Log!Go(t, "answer", "answer", Log!Slot(t, LogThreads[t].i + 1))
           \/ LogThreads[t].i = N /\ Log!Go(t, "answer", "copy", Log!Slot(t, 0))
    BY <1>3, <1>5, <2>1 DEF Log!At
  <2>3. Log!Collected(t) = Collected(t)
    BY <1>5 DEF Log!Collected, Collected, Log!Threads, Threads
  <2>4. QED
    BY <1>5, <2>2, <2>3 DEF Answer, Log!Answer, memory, Log!memory, history,
       Log!history
<1>7. Log!RInv'
  BY <1>1, <1>6, LogAssumption, Log!AnswerInv DEF Log!Threads, Threads
<1>8. lock = t /\ Step = "answer" /\ t # Free
  BY <1>5, OwnStep DEF WriterLabels
<1>9. UNCHANGED <<nvm, ran, stale, spoilt, lock>>
  BY DEF Answer, memory, history
<1>10. PlainStep(t)
  BY <1>5, <1>8, <1>9 DEF PlainStep, Plain, WriterLabels, Changing
<1>11. QED
  BY <1>5, <1>7, <1>8, <1>9, <1>10, OffLock

LEMMA CopyToBackLR ==
  ASSUME LRInv, NEW t \in Threads, CopyToBack(t), UNCHANGED lrVars
  PROVE  LRInv'
<1>1. LRTypeOK /\ Log!RInv /\ th \in [Threads -> LRLocals] /\ N \in Nat
  BY Holder DEF LRInv
<1>2. PICK local \in LRLocals : local = th[t]
  BY <1>1
<1>3. Go(t, "copy", "setIdle", local) /\ leftRight' = leftRight
  BY <1>2 DEF CopyToBack, Goto, lrVars, sides
<1>4. PlainGo(t, "copy", "setIdle", local)
  <2>1. "copy" \in Plain /\ "setIdle" \in Plain
    BY DEF Plain
  <2>2. QED
    BY <1>1, <1>3, <2>1, PlainMoves
<1> USE DEF PlainGo, Moved
<1>5. Log!CopyToBack(t)
  <2>1. Log!Copied = Copied
    BY DEF Log!Copied, Copied, Log!Range, Range
  <2>2. {Log!Back(w) : w \in Log!Copied} = {Back(w) : w \in Copied}
    BY <2>1, SameMemory
  <2>3. [l \in {Log!Back(w) : w \in Log!Copied} |->
           Log!Now(nvm, Log!Main(l[2]))]
        = [l \in {Back(w) : w \in Copied} |-> Now(nvm, Main(l[2]))]
    BY <2>2, SameMemory
  <2>4. /\ Log!Flushed = Flushed
        /\ {Log!Back(w) : w \in Log!Flushed} = {Back(w) : w \in Flushed}
    <3>1. Log!Range(log) = Range(log)
      BY DEF Log!Range, Range
    <3>2. Log!Flushed = Flushed
      BY <3>1 DEF Log!Flushed, Flushed
    <3>3. QED
      BY <3>2, SameMemory
  <2>5. QED
    BY <1>2, <1>4, <2>1, <2>2, <2>3, <2>4, SameStores DEF CopyToBack,
       Log!CopyToBack, Log!Goto
<1>6. Log!RInv'
  BY <1>1, <1>5, LogAssumption, Log!CopyToBackInv DEF Log!Threads, Threads
<1>7. lock = t /\ Step = "copy" /\ t # Free
  BY <1>4, OwnStep DEF WriterLabels
<1>8. UNCHANGED <<ran, spoilt, lock>>
  BY DEF CopyToBack, history
<1>9. PlainStep(t)
  BY <1>4, <1>7, <1>8 DEF PlainStep, Plain, WriterLabels, Changing
<1>10. ASSUME NEW w \in Words
       PROVE  Now(nvm', Main(w)) = Now(nvm, Main(w))
  <2>1. PICK new : /\ DOMAIN new \subseteq {Back(v) : v \in Copied}
                   /\ nvm' = StoreAll(new)
    <3>1. PICK new :
            new = [l \in {Back(v) : v \in Copied} |-> Now(nvm, Main(l[2]))]
      OBVIOUS
    <3>2. QED
      BY <3>1 DEF CopyToBack
  <2>2. Main(w) \notin DOMAIN new
    BY <2>1 DEF Main, Back
  <2>3. Main(w) \in DOMAIN nvm
    BY NotedIs, LineTypes, SameMemory DEF Log!Memory
  <2>4. nvm'[Main(w)] = nvm[Main(w)]
    BY <2>1, <2>2, <2>3 DEF StoreAll
  <2>5. QED
    BY <2>4 DEF Now
<1>11. QED
  BY <1>4, <1>6, <1>7, <1>8, <1>9, <1>10, PlainInv

LEMMA SetIdleLR ==
  ASSUME LRInv, NEW t \in Threads, SetIdle(t), UNCHANGED lrVars
  PROVE  LRInv'
<1>1. LRTypeOK /\ Log!RInv /\ th \in [Threads -> LRLocals] /\ N \in Nat
  BY Holder DEF LRInv
<1>2. PICK local \in LRLocals : local = th[t]
  BY <1>1
<1>3. Go(t, "setIdle", "unlock", local) /\ leftRight' = leftRight
  BY <1>2 DEF SetIdle, Goto, lrVars, sides
<1>4. PlainGo(t, "setIdle", "unlock", local)
  <2>1. "setIdle" \in Plain /\ "unlock" \in Plain
    BY DEF Plain
  <2>2. QED
    BY <1>1, <1>3, <2>1, PlainMoves
<1> USE DEF PlainGo, Moved
<1>5. Log!SetIdle(t)
  BY <1>2, <1>4, SameStores, SameMemory DEF SetIdle, Log!SetIdle,
     Log!Goto, history, Log!history
<1>6. Log!RInv'
  BY <1>1, <1>5, LogAssumption, Log!SetIdleInv DEF Log!Threads, Threads
<1>7. lock = t /\ Step = "setIdle" /\ t # Free
  BY <1>4, OwnStep DEF WriterLabels
<1>8. UNCHANGED <<ran, stale, spoilt, lock>>
  BY DEF SetIdle, history
<1>9. PlainStep(t)
  BY <1>4, <1>7, <1>8 DEF PlainStep, Plain, WriterLabels, Changing
<1>10. ASSUME NEW w \in Words
       PROVE  /\ Now(nvm', Back(w)) = Now(nvm, Back(w))
              /\ Now(nvm', Main(w)) = Now(nvm, Main(w))
  <2>1. PICK mem : mem = Fenced(nvm, pwb)
    OBVIOUS
  <2>2. nvm' = Stored(mem, State, "IDLE")
    BY <2>1 DEF SetIdle
  <2>3. /\ Log!Memory(mem)
        /\ \A l \in Lines : Now(mem, l) = Now(nvm, l)
    BY <2>1, NotedIs, Fencing
  <2>4. \A k \in Lines \ {State} : Now(nvm', k) = Now(mem, k)
    BY <2>2, <2>3, LineTypes, Storing
  <2>5. QED
    BY <2>3, <2>4, LineTypes
<1>11. QED
  BY <1>4, <1>6, <1>7, <1>8, <1>9, <1>10, PlainInv

LEMMA AnswerAndCopyLR ==
  ASSUME LRInv, NEW t \in Threads, AnswerAndCopy(t)
  PROVE  LRInv'
BY AnswerLR, CopyToBackLR, SetIdleLR DEF AnswerAndCopy

(***************************************************************************)
(* Left-Right: the combiner.                                               *)
(***************************************************************************)

\* A step of the combiner that changes none of the memory.
TurnStep(t) ==
  /\ lock = t
  /\ machine = "up" /\ machine' = "up"
  /\ th' \in [Threads -> LRLocals] /\ \A u \in Threads \ {t} : th'[u] = th[u]
  /\ th[t].pc \in Held /\ th'[t].pc \in Held
  /\ th'[t].pc \in {"wait", "right", "toggle", "left", "clearRight"} =>
       th'[t].i = 0
  /\ UNCHANGED <<memory, fc, lock, reading, history, ri, localVI, since>>
  /\ \A u \in Threads \ {t} : side'[u] = side[u]

LEMMA HeldIs ==
  /\ Held = WriterLabels \cup {"right", "waitNext", "toggle", "waitPrev",
                               "left", "clearRight"}
  /\ "idle" \notin Held /\ Held \cap Reading = {}
BY DEF Held, Starting, Ending, Toggling, WriterLabels, Reading

LEMMA TurnSteps ==
  ASSUME LRInv, NEW t \in Threads, TurnStep(t)
  PROVE  /\ Step = th[t].pc /\ Step' = th'[t].pc /\ lock = t /\ t # Free
         /\ \A u \in Threads : th[u].pc \in Reading \/ th'[u].pc \in Reading =>
              u # t /\ th'[u] = th[u]
<1>1. lock = t /\ t # Free /\ Step = th[t].pc
  BY Holder, PhaseIs DEF LRInv, TurnStep
<1>2. Step' = th'[t].pc
  BY <1>1 DEF Step, TurnStep
<1>3. QED
  BY <1>1, <1>2, HeldIs DEF TurnStep

LEMMA TurnData ==
  ASSUME LRInv, NEW t \in Threads, TurnStep(t),
         Step' \in Changing =>
           \/ Step \in Changing
           \/ Step \in Toggling /\ leftRight = TRAVERSE_RIGHT
  PROVE  LocalState' /\ IndicatorState' /\ SeenSide' /\ SinceState'
<1>1. \A u \in Threads : th[u].pc \in Reading \/ th'[u].pc \in Reading =>
                           u # t /\ th'[u] = th[u]
  BY TurnSteps
<1>2. UNCHANGED <<nvm, ran, stale, spoilt, ri, localVI, since>>
  BY DEF TurnStep, memory, history
<1>3. LocalState'
  BY HeldIs DEF TurnStep, LRInv, LocalState
<1>4. IndicatorState'
  BY <1>1, <1>2 DEF LRInv, IndicatorState, Reading
<1>5. \A u \in Threads : th'[u].pc \in Reading =>
        /\ th[u].pc = th'[u].pc /\ th'[u] = th[u]
        /\ side'[u] = side[u] /\ since'[u] = since[u]
  BY <1>1, <1>2 DEF TurnStep
<1>6. SeenSide'
  <2>1. SUFFICES ASSUME NEW u \in Threads, th'[u].pc = "read",
                        NEW w \in Words \ th'[u].todo
                 PROVE  th'[u].seen[w] =
                          Now(nvm', IF side'[u] = TRAVERSE_RIGHT
                                    THEN Back(w) ELSE Main(w))
    BY DEF SeenSide, Back, Main
  <2>2. th'[u] = th[u] /\ side'[u] = side[u] /\ nvm' = nvm
    BY <1>2, <1>5, <2>1 DEF Reading
  <2>3. QED
    BY <2>1, <2>2 DEF LRInv, SeenSide
<1>7. SinceState'
  <2>1. SUFFICES ASSUME NEW u \in Threads, th'[u].pc \in Reading, ~spoilt'
                 PROVE  /\ since'[u] <= Len(ran')
                        /\ (/\ stale' = {}
                            /\ \/ Step' \in Changing
                               \/ /\ th'[u].pc = "read"
                                  /\ side'[u] = TRAVERSE_RIGHT)
                           => \A n \in 0 .. Len(ran') :
                                BackIs(n)' => since'[u] <= n
    BY DEF SinceState
  <2>2. /\ since[u] <= Len(ran)
        /\ (/\ stale = {}
            /\ \/ Step \in Changing
               \/ th[u].pc = "read" /\ side[u] = TRAVERSE_RIGHT)
           => \A n \in 0 .. Len(ran) : BackIs(n) => since[u] <= n
    BY <1>2, <1>5, <2>1 DEF LRInv, SinceState
  <2>3. ASSUME stale = {}, NEW n \in 0 .. Len(ran), BackIs(n),
               Step \in Toggling /\ leftRight = TRAVERSE_RIGHT
        PROVE  since[u] <= n
    <3>1. PICK m : Replicas(m)
      BY <1>2, <2>1, ReplicasAre DEF LRInv, TurnStep
    <3>2. Log!Phase = "wait"
      BY <2>3, PhaseIs DEF LRInv
    <3>3. n = Len(ran)
      BY <2>3, <3>1, <3>2 DEF Replicas
    <3>4. QED
      BY <2>2, <3>3
  <2>4. \A n : BackIs(n)' <=> BackIs(n)
    BY <1>2 DEF BackIs, Effect, Back
  <2>5. QED
    BY <1>2, <1>5, <2>1, <2>2, <2>3, <2>4
<1>8. QED
  BY <1>3, <1>4, <1>6, <1>7

LEMMA TurnInv ==
  ASSUME LRInv, NEW t \in Threads, TurnStep(t), Log!RInv', SideTypes',
         SidesState', OldReaders',
         \/ Step' \notin Changing
         \/ Step' = "run" /\ Step \in Toggling /\ leftRight = TRAVERSE_RIGHT
  PROVE  LRInv'
<1>1. LRTypeOK'
  <2>1. Log!TypeOK'
    BY DEF Log!RInv, Log!Control
  <2>2. QED
    BY <2>1, TypesAreNext DEF TurnStep
<1>2. SettledState'
  <2>1. CASE Step' = "run"
    BY <1>1, <2>1, SettledNext DEF TurnStep
  <2>2. CASE Step' \notin Changing
    BY <2>2 DEF SettledState
  <2>3. QED
    BY <2>1, <2>2
<1>3. LocalState' /\ IndicatorState' /\ SeenSide' /\ SinceState'
  BY TurnData
<1>4. QED
  BY <1>1, <1>2, <1>3 DEF LRInv

\* Where the combiner is seen before and after the functions.
SeenAs(r, x) == [r EXCEPT !.pc = x, !.i = 0]

LEMMA SeenAsIs ==
  ASSUME NEW r \in LRLocals, NEW x \in {"wait", "answer"}
  PROVE  SeenAs(r, x) = [pc |-> x, k |-> r.k, i |-> 0, lfc |-> r.lfc,
                         todo |-> r.todo, seen |-> r.seen]
<1>1. x \in LRLabels
  BY DEF LRLabels, Labels, UpdateLabels, WriterLabels
<1>2. 0 \in 0 .. N
  BY RomulusAssumption
<1>3. PICK v : v = SeenAs(r, x)
  OBVIOUS
<1>4. /\ v \in LRLocals /\ v.pc = x /\ v.i = 0 /\ v.k = r.k /\ v.lfc = r.lfc
      /\ v.todo = r.todo /\ v.seen = r.seen
  BY <1>1, <1>2, <1>3 DEF SeenAs, LRLocals, LocalTypes
<1>5. v = [pc |-> v.pc, k |-> v.k, i |-> v.i, lfc |-> v.lfc, todo |-> v.todo,
           seen |-> v.seen]
  BY <1>4 DEF LRLocals, LocalTypes
<1>6. QED
  BY <1>3, <1>4, <1>5

LEMMA SameView ==
  ASSUME NEW r \in LRLocals, NEW s \in LRLocals, NEW x \in {"wait", "answer"},
         s.k = r.k, s.lfc = r.lfc, s.todo = r.todo, s.seen = r.seen
  PROVE  /\ SeenAs(s, x) = SeenAs(r, x)
         /\ r.pc = x /\ r.i = 0 => SeenAs(r, x) = r
<1>1. r = [pc |-> r.pc, k |-> r.k, i |-> r.i, lfc |-> r.lfc, todo |-> r.todo,
           seen |-> r.seen]
  BY DEF LRLocals, LocalTypes
<1>2. QED
  BY <1>1, SeenAsIs

SeenAt(t, x) ==
  \/ x = "wait" /\ Before(t)
  \/ x = "answer" /\ After(t)
  \/ th[t].pc = x /\ th[t].i = 0

\* Two places of the combiner that are seen as one.
LEMMA TurnView ==
  ASSUME LRTypeOK, NEW t \in Threads, th' \in [Threads -> LRLocals],
         th'[t].k = th[t].k, th'[t].lfc = th[t].lfc, th'[t].todo = th[t].todo,
         th'[t].seen = th[t].seen,
         NEW x \in {"wait", "answer"}, SeenAt(t, x), SeenAt(t, x)'
  PROVE  LogThread(t)' = LogThread(t)
<1>1. th[t] \in LRLocals /\ th'[t] \in LRLocals
  BY TypesAre
<1>2. LogThread(t) = SeenAs(th[t], x)
  <2>1. CASE x = "wait" /\ Before(t)
    BY <2>1 DEF Before, LogThread, Reading, Toggling,
       TRAVERSE_LEFT, TRAVERSE_RIGHT, SeenAs
  <2>2. CASE x = "answer" /\ After(t)
    BY <2>2 DEF After, LogThread, Reading, Toggling,
       TRAVERSE_LEFT, TRAVERSE_RIGHT, SeenAs
  <2>3. CASE th[t].pc = x /\ th[t].i = 0
    <3>1. LogThread(t) = th[t]
      BY <2>3 DEF LogThread, Reading, Toggling
    <3>2. QED
      BY <1>1, <2>3, <3>1, SameView
  <2>4. QED
    BY <2>1, <2>2, <2>3 DEF SeenAt
<1>3. LogThread(t)' = SeenAs(th'[t], x)
  <2>1. CASE x = "wait" /\ Before(t)'
    BY <2>1 DEF Before, LogThread, Reading, Toggling,
       TRAVERSE_LEFT, TRAVERSE_RIGHT, SeenAs
  <2>2. CASE x = "answer" /\ After(t)'
    BY <2>2 DEF After, LogThread, Reading, Toggling,
       TRAVERSE_LEFT, TRAVERSE_RIGHT, SeenAs
  <2>3. CASE th'[t].pc = x /\ th'[t].i = 0
    <3>1. LogThread(t)' = th'[t]
      BY <2>3 DEF LogThread, Reading, Toggling
    <3>2. SeenAs(th'[t], x) = th'[t]
      <4>1. PICK s \in LRLocals : s = th'[t]
        BY <1>1
      <4>2. SeenAs(s, x) = s
        BY <2>3, <4>1, SameView
      <4>3. QED
        BY <4>1, <4>2
    <3>3. QED
      BY <3>1, <3>2
  <2>4. QED
    BY <2>1, <2>2, <2>3 DEF SeenAt
<1>4. SeenAs(th'[t], x) = SeenAs(th[t], x)
  <2>1. PICK s \in LRLocals : s = th'[t]
    BY <1>1
  <2>2. SeenAs(s, x) = SeenAs(th[t], x)
    BY <1>1, <2>1, SameView
  <2>3. QED
    BY <2>1, <2>2
<1>5. QED
  BY <1>2, <1>3, <1>4

\* What is common to the steps below.
LEMMA Turning ==
  ASSUME LRInv, NEW t \in Threads, NEW from \in Held, NEW to \in Held,
         NEW local \in LRLocals, Go(t, from, to, local),
         local.k = th[t].k, local.lfc = th[t].lfc, local.todo = th[t].todo,
         local.seen = th[t].seen,
         to \in {"wait", "right", "toggle", "left", "clearRight"}
           => local.i = 0,
         UNCHANGED <<memory, fc, lock, reading, history, ri, localVI, since>>,
         \A u \in Threads \ {t} : side'[u] = side[u]
  PROVE  /\ Moved(t, from, to, local) /\ TurnStep(t)
         /\ \A x \in {"wait", "answer"} :
              SeenAt(t, x) /\ SeenAt(t, x)' => Log!RInv'
<1>1. LRTypeOK /\ Log!RInv /\ th \in [Threads -> LRLocals]
  BY Holder DEF LRInv
<1>2. to \in LRLabels
  BY DEF Held, Starting, Ending, Toggling, WriterLabels, LRLabels, Labels,
     UpdateLabels
<1>3. Moved(t, from, to, local)
  BY <1>1, <1>2, Moves
<1>4. lock = t
  BY <1>1, <1>3, Holder DEF Moved
<1>5. TurnStep(t)
  BY <1>3, <1>4 DEF Moved, TurnStep
<1>6. ASSUME NEW x \in {"wait", "answer"}, SeenAt(t, x), SeenAt(t, x)'
      PROVE  Log!RInv'
  <2>1. LogThread(t)' = LogThread(t)
    BY <1>1, <1>3, <1>6, TurnView DEF Moved
  <2>2. QED
    BY <1>1, <1>3, <1>4, <2>1, Unseen DEF Moved
<1>7. QED
  BY <1>3, <1>5, <1>6

\* Between the toggles there is no reader on the wrong side.
LEMMA NobodyOld ==
  ASSUME LRInv, NEW t \in Threads, TurnStep(t), Step \notin Toggling,
         leftRight' = leftRight
  PROVE  OldReaders'
<1>1. ASSUME NEW u \in Threads, Old(u)'
      PROVE  FALSE
  <2>1. u # t /\ th'[u] = th[u]
    BY <1>1, TurnSteps DEF Old, Reading
  <2>2. Old(u)
    BY <1>1, <2>1 DEF Old, TurnStep
  <2>3. QED
    BY <2>2 DEF LRInv, OldReaders
<1>2. QED
  BY <1>1 DEF OldReaders

LEMMA SetRightLR ==
  ASSUME LRInv, NEW t \in Threads, SetRight(t)
  PROVE  LRInv'
<1>1. LRTypeOK /\ Log!RInv /\ th \in [Threads -> LRLocals] /\ SideTypes
  BY Holder DEF LRInv
<1>2. PICK local \in LRLocals : local = th[t]
  BY <1>1
<1>3. Go(t, "wait", "right", local)
  BY <1>2 DEF SetRight, Goto
<1>4. th[t].pc = "wait" /\ th[t].i = 0
  BY <1>3 DEF Go, At, LRInv, LocalState
<1>5. /\ Moved(t, "wait", "right", local) /\ TurnStep(t)
      /\ \A x \in {"wait", "answer"} : SeenAt(t, x) /\ SeenAt(t, x)'
           => Log!RInv'
  <2>1. "wait" \in Held /\ "right" \in Held
    BY HeldIs DEF WriterLabels
  <2>2. /\ UNCHANGED <<memory, fc, lock, reading, history, ri, localVI, since>>
        /\ \A u \in Threads \ {t} : side'[u] = side[u]
    BY DEF SetRight
  <2>3. QED
    BY <1>2, <1>3, <1>4, <2>1, <2>2, Turning
<1>6. Log!RInv'
  BY <1>4, <1>5 DEF SeenAt, Before, Moved
<1>7. Step = "wait" /\ Step' = "right"
  BY <1>4, <1>5, TurnSteps DEF Moved
<1>8. SideTypes'
  BY <1>1 DEF SideTypes, SetRight
<1>9. SidesState'
  BY <1>7 DEF LRInv, SidesState, SetRight, Toggling, Changing
<1>10. OldReaders'
  BY <1>5, <1>7, NobodyOld DEF Toggling, SetRight
<1>11. QED
  BY <1>5, <1>6, <1>7, <1>8, <1>9, <1>10, TurnInv DEF Changing

LEMMA ReadBackLR ==
  ASSUME LRInv, NEW t \in Threads, ReadBack(t)
  PROVE  LRInv'
<1>1. LRTypeOK /\ Log!RInv /\ th \in [Threads -> LRLocals] /\ SideTypes
      /\ Threads \subseteq Nat
  BY Holder DEF LRInv
<1>2. PICK local \in LRLocals : local = th[t]
  BY <1>1
<1>3. Go(t, "right", "waitNext", local)
  BY <1>2 DEF ReadBack, Goto
<1>4. th[t].pc = "right" /\ th[t].i = 0
  BY <1>3 DEF Go, At, LRInv, LocalState
<1>5. /\ Moved(t, "right", "waitNext", local) /\ TurnStep(t)
      /\ \A x \in {"wait", "answer"} : SeenAt(t, x) /\ SeenAt(t, x)'
           => Log!RInv'
  <2>1. "waitNext" \in Held /\ "right" \in Held
    BY HeldIs
  <2>2. /\ UNCHANGED <<memory, fc, lock, reading, history, ri, localVI, since>>
        /\ \A u \in Threads \ {t} : side'[u] = side[u]
    BY <1>1 DEF ReadBack, SideTypes
  <2>3. QED
    BY <1>2, <1>3, <1>4, <2>1, <2>2, Turning
<1>6. Log!RInv'
  <2>1. Before(t) /\ Before(t)'
    BY <1>4, <1>5 DEF Before, Moved, ReadBack, Toggling
  <2>2. QED
    BY <1>5, <2>1 DEF SeenAt
<1>7. Step = "right" /\ Step' = "waitNext" /\ lock = t /\ lock' = t
  BY <1>4, <1>5, TurnSteps DEF Moved, TurnStep
<1>8. SideTypes'
  <2>1. gRight
    BY <1>7 DEF LRInv, SidesState
  <2>2. QED
    BY <1>1, <2>1 DEF SideTypes, ReadBack, TRAVERSE_LEFT, TRAVERSE_RIGHT
<1>9. SidesState'
  <2>1. side'[lock'] = TRAVERSE_LEFT
    BY <1>1, <1>7 DEF ReadBack, SideTypes
  <2>2. QED
    BY <1>7, <2>1 DEF LRInv, SidesState, ReadBack, Toggling, Changing
<1>10. OldReaders'
  <2>1. th'[lock'].i = 0
    BY <1>2, <1>4, <1>5, <1>7 DEF Moved
  <2>2. QED
    BY <1>1, <1>7, <2>1 DEF OldReaders, Toggling
<1>11. QED
  BY <1>5, <1>6, <1>7, <1>8, <1>9, <1>10, TurnInv DEF Changing

LEMMA ReadMainLR ==
  ASSUME LRInv, NEW t \in Threads, ReadMain(t)
  PROVE  LRInv'
<1>1. LRTypeOK /\ Log!RInv /\ th \in [Threads -> LRLocals] /\ SideTypes
      /\ Threads \subseteq Nat
  BY Holder DEF LRInv
<1>2. PICK local \in LRLocals : local = th[t]
  BY <1>1
<1>3. Go(t, "left", "waitNext", local)
  BY <1>2 DEF ReadMain, Goto
<1>4. th[t].pc = "left" /\ th[t].i = 0
  BY <1>3 DEF Go, At, LRInv, LocalState
<1>5. /\ Moved(t, "left", "waitNext", local) /\ TurnStep(t)
      /\ \A x \in {"wait", "answer"} : SeenAt(t, x) /\ SeenAt(t, x)'
           => Log!RInv'
  <2>1. "waitNext" \in Held /\ "left" \in Held
    BY HeldIs
  <2>2. /\ UNCHANGED <<memory, fc, lock, reading, history, ri, localVI, since>>
        /\ \A u \in Threads \ {t} : side'[u] = side[u]
    BY <1>1 DEF ReadMain, SideTypes
  <2>3. QED
    BY <1>2, <1>3, <1>4, <2>1, <2>2, Turning
<1>6. Log!RInv'
  <2>1. After(t) /\ After(t)'
    BY <1>4, <1>5 DEF After, Moved, ReadMain, Toggling
  <2>2. QED
    BY <1>5, <2>1 DEF SeenAt
<1>7. Step = "left" /\ Step' = "waitNext" /\ lock = t /\ lock' = t
  BY <1>4, <1>5, TurnSteps DEF Moved, TurnStep
<1>8. SideTypes'
  BY <1>1 DEF SideTypes, ReadMain, TRAVERSE_LEFT, TRAVERSE_RIGHT
<1>9. SidesState'
  <2>1. side'[lock'] = TRAVERSE_LEFT
    BY <1>7 DEF ReadMain, LRInv, SidesState, Changing
  <2>2. QED
    BY <1>7, <2>1 DEF LRInv, SidesState, ReadMain, Toggling, Changing
<1>10. OldReaders'
  <2>1. th'[lock'].i = 0
    BY <1>2, <1>4, <1>5, <1>7 DEF Moved
  <2>2. QED
    BY <1>1, <1>7, <2>1 DEF OldReaders, Toggling
<1>11. QED
  BY <1>5, <1>6, <1>7, <1>8, <1>9, <1>10, TurnInv DEF Changing

LEMMA ClearRightLR ==
  ASSUME LRInv, NEW t \in Threads, ClearRight(t)
  PROVE  LRInv'
<1>1. LRTypeOK /\ Log!RInv /\ th \in [Threads -> LRLocals] /\ SideTypes
  BY Holder DEF LRInv
<1>2. PICK local \in LRLocals : local = th[t]
  BY <1>1
<1>3. Go(t, "clearRight", "answer", local)
  BY <1>2 DEF ClearRight, Goto
<1>4. th[t].pc = "clearRight" /\ th[t].i = 0
  BY <1>3 DEF Go, At, LRInv, LocalState
<1>5. /\ Moved(t, "clearRight", "answer", local) /\ TurnStep(t)
      /\ \A x \in {"wait", "answer"} : SeenAt(t, x) /\ SeenAt(t, x)'
           => Log!RInv'
  <2>1. "clearRight" \in Held /\ "answer" \in Held
    BY HeldIs DEF WriterLabels
  <2>2. /\ UNCHANGED <<memory, fc, lock, reading, history, ri, localVI, since>>
        /\ \A u \in Threads \ {t} : side'[u] = side[u]
    BY DEF ClearRight
  <2>3. QED
    BY <1>2, <1>3, <1>4, <2>1, <2>2, Turning
<1>6. Log!RInv'
  BY <1>2, <1>4, <1>5 DEF SeenAt, After, Moved
<1>7. Step = "clearRight" /\ Step' = "answer"
  BY <1>4, <1>5, TurnSteps DEF Moved
<1>8. leftRight = TRAVERSE_LEFT
  BY <1>1, <1>7 DEF LRInv, SidesState, SideTypes, Toggling, Changing
<1>9. SideTypes'
  <2>1. leftRight' # TRAVERSE_RIGHT
    BY <1>8 DEF ClearRight, TRAVERSE_LEFT, TRAVERSE_RIGHT
  <2>2. gRight' \in BOOLEAN
    BY Zenon DEF ClearRight
  <2>3. QED
    BY <1>1, <2>1, <2>2 DEF SideTypes, ClearRight
<1>10. SidesState'
  BY <1>7 DEF LRInv, SidesState, ClearRight, Toggling, Changing
<1>11. OldReaders'
  BY <1>5, <1>7, NobodyOld DEF Toggling, ClearRight
<1>12. QED
  BY <1>5, <1>6, <1>7, <1>9, <1>10, <1>11, TurnInv DEF Changing

\* The walk over the indicator readers do not arrive at.
LEMMA Scans ==
  ASSUME LRInv, NEW t \in Threads, NEW from \in {"waitNext", "waitPrev"},
         NEW to \in {"toggle", "run", "clearRight"}, Scan(t, from, to)
  PROVE  \E next \in {from, to}, i \in 0 .. N, local \in LRLocals :
           /\ \/ /\ next = from /\ th[t].i < N
                 /\ i = 0 \/ (i = th[t].i + 1 /\ ~ri[1 - versionIndex][th[t].i])
              \/ next = to /\ th[t].i = N /\ i = 0
           /\ local = Slot(t, i) /\ local.i = i /\ local.k = th[t].k
           /\ Moved(t, from, next, local) /\ TurnStep(t)
           /\ \A x \in {"wait", "answer"} :
                SeenAt(t, x) /\ SeenAt(t, x)' => Log!RInv'
<1>1. th \in [Threads -> LRLocals] /\ N \in Nat
  BY Holder DEF LRInv
<1>2. th[t].i \in 0 .. N
  BY <1>1 DEF LRLocals, LocalTypes
<1>3. PICK next \in {from, to}, i \in 0 .. N :
        /\ Go(t, from, next, Slot(t, i))
        /\ \/ /\ next = from /\ th[t].i < N
              /\ i = 0 \/ (i = th[t].i + 1 /\ ~ri[1 - versionIndex][th[t].i])
           \/ next = to /\ th[t].i = N /\ i = 0
  <2>1. CASE th[t].i < N /\ ri[1 - versionIndex][th[t].i]
             /\ Go(t, from, from, Slot(t, 0))
    BY <1>1, <2>1
  <2>2. CASE th[t].i < N /\ ~ri[1 - versionIndex][th[t].i]
             /\ Go(t, from, from, Slot(t, th[t].i + 1))
    BY <1>1, <1>2, <2>2
  <2>3. CASE th[t].i = N /\ Go(t, from, to, Slot(t, 0))
    BY <1>1, <2>3
  <2>4. QED
    BY <2>1, <2>2, <2>3 DEF Scan
<1>4. PICK local : local = Slot(t, i)
  OBVIOUS
<1>5. /\ local \in LRLocals /\ local.k = th[t].k /\ local.i = i
      /\ local.lfc = th[t].lfc /\ local.todo = th[t].todo
      /\ local.seen = th[t].seen
  BY <1>1, <1>4, SlotIs
<1>6. Go(t, from, next, local)
  BY <1>3, <1>4
<1>7. /\ from \in Held /\ next \in Held
      /\ next \in {"wait", "right", "toggle", "left", "clearRight"}
           => local.i = 0
  BY <1>3, <1>5, HeldIs DEF WriterLabels
<1>8. /\ UNCHANGED <<memory, fc, lock, reading, history, ri, localVI, since>>
      /\ \A u \in Threads \ {t} : side'[u] = side[u]
  BY DEF Scan, lrVars, sides
<1>9. /\ Moved(t, from, next, local) /\ TurnStep(t)
      /\ \A x \in {"wait", "answer"} : SeenAt(t, x) /\ SeenAt(t, x)'
           => Log!RInv'
  BY <1>5, <1>6, <1>7, <1>8, Turning
<1>10. QED
  BY <1>3, <1>4, <1>5, <1>9

\* Who is old remains so, and is where he arrived.
LEMMA OldStays ==
  ASSUME LRInv, NEW t \in Threads, TurnStep(t), leftRight' = leftRight,
         NEW u \in Threads, Old(u)'
  PROVE  /\ Old(u) /\ u \in Nat /\ u < N
         /\ localVI[u] \in {0, 1} /\ versionIndex \in {0, 1}
         /\ \A v \in {0, 1} : ri[v][u] <=> localVI[u] = v
<1>1. th'[u] = th[u] /\ u # t
  BY TurnSteps DEF Old, Reading
<1>2. Old(u)
  BY <1>1 DEF Old, TurnStep
<1>3. u \in Nat /\ u < N
  BY Holder DEF LRInv
<1>4. SideTypes
  BY Holder DEF LRInv
<1>5. QED
  BY <1>2, <1>3, <1>4 DEF LRInv, IndicatorState, Old, SideTypes

LEMMA WaitNextLR ==
  ASSUME LRInv, NEW t \in Threads, WaitNext(t)
  PROVE  LRInv'
<1>1. /\ LRTypeOK /\ Log!RInv /\ SideTypes
      /\ UNCHANGED <<leftRight, versionIndex, ri, gRight, side, localVI, since>>
  BY Holder DEF LRInv, WaitNext, Scan, lrVars, sides
<1>2. PICK next \in {"waitNext", "toggle"}, i \in 0 .. N, local \in LRLocals :
        /\ \/ /\ next = "waitNext" /\ th[t].i < N
              /\ i = 0 \/ (i = th[t].i + 1 /\ ~ri[1 - versionIndex][th[t].i])
           \/ next = "toggle" /\ th[t].i = N /\ i = 0
        /\ local.i = i
        /\ Moved(t, "waitNext", next, local) /\ TurnStep(t)
        /\ \A x \in {"wait", "answer"} : SeenAt(t, x) /\ SeenAt(t, x)'
             => Log!RInv'
  BY Scans DEF WaitNext
<1>3. /\ Step = "waitNext" /\ Step' = next /\ lock = t /\ lock' = t
      /\ th'[t].i = i /\ th[t].pc = "waitNext" /\ th'[t].pc = next
  BY <1>2, TurnSteps DEF Moved, TurnStep
<1>4. Log!RInv'
  <2>1. \/ Before(t) /\ Before(t)'
        \/ After(t) /\ After(t)'
    BY <1>1, <1>3 DEF Before, After, SideTypes, Toggling
  <2>2. QED
    BY <1>2, <2>1 DEF SeenAt
<1>5. SideTypes'
  BY <1>1 DEF SideTypes
<1>6. SidesState'
  BY <1>1, <1>3 DEF LRInv, SidesState, Toggling, Changing
<1>7. OldReaders'
  <2>1. SUFFICES ASSUME NEW u \in Threads, Old(u)'
                 PROVE  /\ next = "waitNext" /\ u < i
                             => localVI[u] = versionIndex
                        /\ next = "toggle" => localVI[u] = versionIndex
    BY <1>1, <1>3 DEF OldReaders, Toggling
  <2>2. /\ Old(u) /\ u \in Nat /\ u < N
        /\ localVI[u] \in {0, 1} /\ versionIndex \in {0, 1}
        /\ \A v \in {0, 1} : ri[v][u] <=> localVI[u] = v
    BY <1>1, <1>2, <2>1, OldStays
  <2>3. u < th[t].i => localVI[u] = versionIndex
    BY <1>3, <2>2 DEF LRInv, OldReaders
  <2>4. ~ri[1 - versionIndex][u] => localVI[u] = versionIndex
    BY <2>2
  <2>5. th[t].i \in Nat /\ N \in Nat
    BY <1>1, Holder DEF LRLocals, LocalTypes
  <2>6. QED
    BY <1>2, <2>2, <2>3, <2>4, <2>5
<1>8. QED
  BY <1>2, <1>3, <1>4, <1>5, <1>6, <1>7, TurnInv DEF Changing

LEMMA ToggleLR ==
  ASSUME LRInv, NEW t \in Threads, Toggle(t)
  PROVE  LRInv'
<1>1. LRTypeOK /\ Log!RInv /\ th \in [Threads -> LRLocals] /\ SideTypes
      /\ Threads \subseteq Nat
  BY Holder DEF LRInv
<1>2. PICK local \in LRLocals : local = th[t]
  BY <1>1
<1>3. Go(t, "toggle", "waitPrev", local)
  BY <1>2 DEF Toggle, Goto
<1>4. th[t].pc = "toggle" /\ th[t].i = 0
  BY <1>3 DEF Go, At, LRInv, LocalState
<1>5. /\ Moved(t, "toggle", "waitPrev", local) /\ TurnStep(t)
      /\ \A x \in {"wait", "answer"} : SeenAt(t, x) /\ SeenAt(t, x)'
           => Log!RInv'
  <2>1. "toggle" \in Held /\ "waitPrev" \in Held
    BY HeldIs
  <2>2. /\ UNCHANGED <<memory, fc, lock, reading, history, ri, localVI, since>>
        /\ \A u \in Threads \ {t} : side'[u] = side[u]
    BY DEF Toggle
  <2>3. QED
    BY <1>2, <1>3, <1>4, <2>1, <2>2, Turning
<1>6. Log!RInv'
  <2>1. \/ Before(t) /\ Before(t)'
        \/ After(t) /\ After(t)'
    BY <1>1, <1>4, <1>5 DEF Before, After, SideTypes, Toggling, Moved, Toggle
  <2>2. QED
    BY <1>5, <2>1 DEF SeenAt
<1>7. Step = "toggle" /\ Step' = "waitPrev" /\ lock = t /\ lock' = t
  BY <1>4, <1>5, TurnSteps DEF Moved, TurnStep
<1>8. SideTypes'
  BY <1>1 DEF SideTypes, Toggle
<1>9. SidesState'
  BY <1>7 DEF LRInv, SidesState, Toggle, Toggling, Changing
<1>10. OldReaders'
  <2>1. th'[lock'].i = 0
    BY <1>2, <1>4, <1>5, <1>7 DEF Moved
  <2>2. SUFFICES ASSUME NEW u \in Threads, Old(u)'
                 PROVE  localVI'[u] # versionIndex' /\ 0 <= u
    BY <1>7, <2>1 DEF OldReaders, Toggling
  <2>3. Old(u) /\ u \in Nat /\ versionIndex \in {0, 1}
    BY <1>5, <2>2, OldStays DEF Toggle
  <2>4. localVI[u] = versionIndex
    BY <1>7, <2>3 DEF LRInv, OldReaders
  <2>5. localVI' = localVI /\ versionIndex' = 1 - versionIndex
    BY DEF Toggle
  <2>6. QED
    BY <2>3, <2>4, <2>5
<1>11. QED
  BY <1>5, <1>6, <1>7, <1>8, <1>9, <1>10, TurnInv DEF Changing

\* Records with the same fields.
LEMMA SameLocal ==
  ASSUME NEW r \in LRLocals, NEW s \in LRLocals, r.pc = s.pc, r.k = s.k,
         r.i = s.i, r.lfc = s.lfc, r.todo = s.todo, r.seen = s.seen
  PROVE  r = s
<1>1. /\ r = [pc |-> r.pc, k |-> r.k, i |-> r.i, lfc |-> r.lfc,
              todo |-> r.todo, seen |-> r.seen]
      /\ s = [pc |-> s.pc, k |-> s.k, i |-> s.i, lfc |-> s.lfc,
              todo |-> s.todo, seen |-> s.seen]
  BY DEF LRLocals, LocalTypes
<1>2. QED
  BY <1>1

\* To RomulusLog it is as if there had been no readers to wait for.
LEMMA NoReaders ==
  ASSUME LRTypeOK, NEW u \in Threads
  PROVE  LogThreads[u].pc # "read"
<1>1. th[u].pc \in LRLabels
  BY ViewIs
<1>2. /\ LogThreads[u] = LogThread(u) /\ th[u] \in LRLocals
  BY TypesAre DEF LogThreads
<1>3. QED
  <2>1. CASE th[u].pc \in Reading
    BY <2>1, ViewIs
  <2>2. CASE th[u].pc \in Starting \cup Ending
    BY <2>2, ViewIs
  <2>3. CASE th[u].pc \notin Reading \cup Starting \cup Ending
    BY <1>2, <2>3 DEF LogThread, Reading, Starting, Ending, Toggling
  <2>4. QED
    BY <2>1, <2>2, <2>3

\* The functions are run when the second walk has found nobody.
LEMMA RunsNext ==
  ASSUME LRInv, NEW t \in Threads, th[t].pc = "waitPrev",
         leftRight = TRAVERSE_RIGHT, NEW local \in LRLocals,
         local = Slot(t, 0), Moved(t, "waitPrev", "run", local),
         UNCHANGED <<memory, fc, lock, reading, history, leftRight>>
  PROVE  Log!RInv'
<1>1. /\ LRTypeOK /\ Log!RInv /\ th \in [Threads -> LRLocals]
      /\ th[t] \in LRLocals /\ N \in Nat
  BY Holder DEF LRInv
<1>2. lock = t
  BY <1>1, Holder, HeldIs
<1>3. /\ LogThreads[t] = SeenAs(th[t], "wait") /\ LogThreads[t].pc = "wait"
  BY <1>1, ViewIs DEF Before, Toggling, SeenAs
<1>4. PICK r \in LRLocals : r = th'[t]
  BY DEF Moved
<1>5. /\ r.pc = "run" /\ r.i = 0 /\ r.k = th[t].k /\ r.lfc = th[t].lfc
      /\ r.todo = th[t].todo /\ r.seen = th[t].seen
  <2>1. 0 \in 0 .. N
    BY <1>1
  <2>2. QED
    BY <1>1, <1>4, <2>1, SlotIs DEF Moved
<1>6. LogThread(t)' = r
  BY <1>4, <1>5 DEF LogThread, Reading, Toggling
<1>7. /\ LogThreads' = [LogThreads EXCEPT ![t] = r]
      /\ \A u \in Threads \ {t} : LogThreads'[u] = LogThreads[u]
  BY <1>1, <1>2, <1>6, OthersSeen, SeenStep DEF Moved
<1>8. PICK seen : seen = Log!Slot(t, 0)
  OBVIOUS
<1>9. [seen EXCEPT !.pc = "run"] = r
  <2>1. PICK s \in LRLocals : s = LogThreads[t]
    <3>1. "wait" \in LRLabels /\ 0 \in 0 .. N
      BY <1>1 DEF LRLabels, Labels, UpdateLabels, WriterLabels
    <3>2. SeenAs(th[t], "wait") \in LRLocals
      BY <1>1, <3>1 DEF SeenAs, LRLocals, LocalTypes
    <3>3. QED
      BY <1>3, <3>2
  <2>2. /\ s.k = th[t].k /\ s.lfc = th[t].lfc /\ s.todo = th[t].todo
        /\ s.seen = th[t].seen
    BY <1>1, <1>3, <2>1 DEF SeenAs, LRLocals, LocalTypes
  <2>3. seen = [s EXCEPT !.i = 0]
    BY <1>8, <2>1 DEF Log!Slot
  <2>4. PICK v : v = [seen EXCEPT !.pc = "run"]
    OBVIOUS
  <2>5. /\ v \in LRLocals /\ v.pc = "run" /\ v.i = 0 /\ v.k = s.k
        /\ v.lfc = s.lfc /\ v.todo = s.todo /\ v.seen = s.seen
    <3>1. "run" \in LRLabels /\ 0 \in 0 .. N
      BY <1>1 DEF LRLabels, Labels, UpdateLabels, WriterLabels
    <3>2. QED
      BY <2>3, <2>4, <3>1 DEF LRLocals, LocalTypes
  <2>6. v = r
    BY <1>5, <2>2, <2>5, SameLocal
  <2>7. QED
    BY <2>4, <2>6
<1>10. Log!Go(t, "wait", "run", seen)
  BY <1>3, <1>7, <1>9 DEF Log!Go, Log!At, Moved
<1>11. Log!LoopStep(t, "wait", "run", 0)
  BY <1>1, NoReaders DEF Log!LoopStep, Log!pc, Log!Threads, Threads
<1>12. /\ UNCHANGED Log!memory /\ UNCHANGED Log!history
       /\ fc' = fc /\ lock' = lock /\ reading' = reading
  BY DEF Log!memory, Log!history, memory, history
<1>13. t \in Log!Threads /\ 0 \in 0 .. N
  BY <1>1 DEF Log!Threads, Threads
<1>14. QED
  BY <1>1, <1>8, <1>10, <1>11, <1>12, <1>13, LogAssumption, Log!LoopInv

LEMMA WaitPrevLR ==
  ASSUME LRInv, NEW t \in Threads, WaitPrev(t)
  PROVE  LRInv'
<1>1. PICK to \in {"toggle", "run", "clearRight"} :
        /\ to = IF leftRight = TRAVERSE_RIGHT THEN "run" ELSE "clearRight"
        /\ Scan(t, "waitPrev", to)
  BY DEF WaitPrev
<1>2. /\ LRTypeOK /\ Log!RInv /\ SideTypes
      /\ UNCHANGED <<memory, fc, lock, reading, history, leftRight,
                     versionIndex, ri, gRight, side, localVI, since>>
  BY <1>1, Holder DEF LRInv, Scan, lrVars, sides
<1>3. PICK next \in {"waitPrev", to}, i \in 0 .. N, local \in LRLocals :
        /\ \/ /\ next = "waitPrev" /\ th[t].i < N
              /\ i = 0 \/ (i = th[t].i + 1 /\ ~ri[1 - versionIndex][th[t].i])
           \/ next = to /\ th[t].i = N /\ i = 0
        /\ local.i = i /\ local = Slot(t, i)
        /\ Moved(t, "waitPrev", next, local) /\ TurnStep(t)
        /\ \A x \in {"wait", "answer"} : SeenAt(t, x) /\ SeenAt(t, x)'
             => Log!RInv'
  <2>1. "waitPrev" \in {"waitNext", "waitPrev"}
    OBVIOUS
  <2>2. QED
    BY <1>1, <2>1, Scans
<1>4. /\ Step = "waitPrev" /\ Step' = next /\ lock = t /\ lock' = t
      /\ th'[t].i = i /\ th[t].pc = "waitPrev" /\ th'[t].pc = next
  BY <1>3, TurnSteps DEF Moved, TurnStep
<1>5. next \in {"waitPrev", "run", "clearRight"}
      /\ (next = "run" => leftRight = TRAVERSE_RIGHT)
      /\ (next = "clearRight" => leftRight = TRAVERSE_LEFT)
  BY <1>1, <1>2, <1>3 DEF SideTypes
<1>6. Log!RInv'
  <2>1. CASE next = "run"
    BY <1>2, <1>3, <1>4, <1>5, <2>1, RunsNext
  <2>2. CASE next # "run"
    <3>1. \/ Before(t) /\ Before(t)'
          \/ After(t) /\ After(t)'
      BY <1>2, <1>4, <1>5, <2>2 DEF Before, After, SideTypes, Toggling
    <3>2. QED
      BY <1>3, <3>1 DEF SeenAt
  <2>3. QED
    BY <2>1, <2>2
<1>7. SideTypes'
  BY <1>2 DEF SideTypes
<1>8. SidesState'
  BY <1>2, <1>4, <1>5 DEF LRInv, SidesState, Toggling, Changing,
     TRAVERSE_LEFT, TRAVERSE_RIGHT
<1>9. OldReaders'
  <2>1. SUFFICES ASSUME NEW u \in Threads, Old(u)'
                 PROVE  /\ next = "waitPrev" /\ localVI[u] # versionIndex
                        /\ i <= u
    BY <1>2, <1>4 DEF OldReaders, Toggling
  <2>2. /\ Old(u) /\ u \in Nat /\ u < N
        /\ localVI[u] \in {0, 1} /\ versionIndex \in {0, 1}
        /\ \A v \in {0, 1} : ri[v][u] <=> localVI[u] = v
    BY <1>2, <1>3, <2>1, OldStays
  <2>3. localVI[u] # versionIndex /\ th[t].i <= u
    BY <1>4, <2>2 DEF LRInv, OldReaders
  <2>4. ri[1 - versionIndex][u]
    BY <2>2, <2>3
  <2>5. th[t].i \in Nat /\ N \in Nat
    BY <1>2, Holder DEF LRLocals, LocalTypes
  <2>6. QED
    BY <1>3, <2>2, <2>3, <2>4, <2>5
<1>10. \/ Step' \notin Changing
       \/ Step' = "run" /\ Step \in Toggling /\ leftRight = TRAVERSE_RIGHT
  BY <1>4, <1>5 DEF Toggling, Changing
<1>11. QED
  BY <1>3, <1>6, <1>7, <1>8, <1>9, <1>10, TurnInv

LEMMA ToggleVersionAndWaitLR ==
  ASSUME LRInv, NEW t \in Threads, ToggleVersionAndWait(t)
  PROVE  LRInv'
BY WaitNextLR, ToggleLR, WaitPrevLR DEF ToggleVersionAndWait

\* The fence, after which readers may be sent to main.
LEMMA SyncedView ==
  ASSUME LRInv, NEW t \in Threads, LRPSync(t)
  PROVE  /\ th' \in [Threads -> LRLocals] /\ machine = "up" /\ machine' = "up"
         /\ \A u \in Threads \ {t} : th'[u] = th[u]
         /\ th[t].pc = "psync" /\ th'[t].pc = "left" /\ th'[t].i = 0
         /\ lock = t /\ Step = "psync" /\ Step' = "left"
         /\ Log!PSync(t) /\ Log!RInv'
         /\ Log!Settled' \subseteq Log!Settled
<1>1. /\ LRTypeOK /\ Log!RInv /\ th \in [Threads -> LRLocals] /\ N \in Nat
      /\ th[t] \in LRLocals /\ Log!Logic
  BY Holder DEF LRInv
<1>2. UNCHANGED <<log, logEnabled, fc, lock, reading, history, leftRight>>
  BY DEF LRPSync, Synced, lrVars, sides
<1>3. PICK local \in LRLocals : local = th[t]
  BY <1>1
<1>4. Moved(t, "psync", "left", local)
  <2>1. "left" \in LRLabels
    BY DEF LRLabels
  <2>2. Go(t, "psync", "left", local)
    BY <1>3 DEF LRPSync, Synced, Goto
  <2>3. QED
    BY <1>1, <2>1, <2>2, Moves
<1> USE DEF Moved
<1>5. LogThreads[t] = th[t] /\ th[t].pc = "psync"
  BY <1>1, <1>4, ViewIs DEF Plain
<1>6. th[t].i = 0
  BY <1>1, <1>5 DEF Log!Logic, Log!LockState, Log!pc, Log!Threads, Threads
<1>7. lock = t
  BY <1>1, <1>5, Holder, HeldIs DEF WriterLabels
<1>8. PICK r \in LRLocals : r = th'[t]
  BY <1>4
<1>9. r.pc = "left" /\ r.i = 0 /\ r.k = th[t].k /\ r.lfc = th[t].lfc
      /\ r.todo = th[t].todo /\ r.seen = th[t].seen
  BY <1>3, <1>4, <1>6, <1>8
<1>10. LogThread(t)' = SeenAs(r, "answer")
  BY <1>8, <1>9 DEF LogThread, Reading, Toggling, SeenAs
<1>11. SeenAs(r, "answer") = [th[t] EXCEPT !.pc = "answer"]
  <2>1. "answer" \in {"wait", "answer"}
    OBVIOUS
  <2>2. SeenAs(r, "answer") = [pc |-> "answer", k |-> r.k, i |-> 0,
          lfc |-> r.lfc, todo |-> r.todo, seen |-> r.seen]
    BY <2>1, SeenAsIs
  <2>3. th[t] = [pc |-> th[t].pc, k |-> th[t].k, i |-> th[t].i,
          lfc |-> th[t].lfc, todo |-> th[t].todo, seen |-> th[t].seen]
    BY <1>1 DEF LRLocals, LocalTypes
  <2>4. [th[t] EXCEPT !.pc = "answer"] = [pc |-> "answer", k |-> th[t].k,
          i |-> th[t].i, lfc |-> th[t].lfc, todo |-> th[t].todo,
          seen |-> th[t].seen]
    BY <2>3
  <2>5. QED
    BY <1>6, <1>9, <2>2, <2>4
<1>12. \A u \in Threads \ {t} : LogThreads'[u] = LogThreads[u]
  BY <1>1, <1>2, <1>4, OthersSeen
<1>13. LogThreads' = [LogThreads EXCEPT ![t] = [th[t] EXCEPT !.pc = "answer"]]
  BY <1>10, <1>11, <1>12, SeenStep
<1>14. Log!PSync(t)
  <2>1. Log!Goto(t, "psync", "answer")
    BY <1>4, <1>5, <1>13 DEF Log!Goto, Log!Go, Log!At
  <2>2. Log!Fenced(nvm, pwb) = Fenced(nvm, pwb)
    BY SameStores
  <2>3. QED
    BY <2>1, <2>2 DEF Log!PSync, Log!Synced, LRPSync, Synced, history,
       Log!history
<1>15. t \in Log!Threads
  BY DEF Log!Threads, Threads
<1>16. Log!RInv'
  BY <1>1, <1>14, <1>15, LogAssumption, Log!PSyncInv
<1>17. Log!Settled' \subseteq Log!Settled
  <2>1. Log!Updating(t) /\ LogThreads'[t].k = LogThreads[t].k
    <3>1. LogThreads'[t] = SeenAs(r, "answer")
      BY <1>10 DEF LogThreads
    <3>2. LogThreads'[t].k = th[t].k
      BY <1>1, <1>11, <3>1 DEF LRLocals, LocalTypes
    <3>3. Log!Updating(t)
      BY <1>5 DEF Log!Updating, Log!pc, Log!UpdateLabels, Log!WriterLabels
    <3>4. QED
      BY <1>5, <3>2, <3>3
  <2>2. due' \subseteq Log!Settled /\ fc' = fc
    BY <1>2 DEF Log!Settled, history
  <2>3. QED
    BY <1>12, <1>15, <2>1, <2>2, LogAssumption, Log!SettledSame
       DEF Log!Threads, Threads
<1>18. Step = "psync" /\ Step' = "left"
  BY <1>1, <1>2, <1>4, <1>7, Holder DEF Step
<1>19. QED
  BY <1>4, <1>5, <1>7, <1>8, <1>9, <1>14, <1>16, <1>17, <1>18

LEMMA LRPSyncLR ==
  ASSUME LRInv, NEW t \in Threads, LRPSync(t)
  PROVE  LRInv'
<1>1. /\ th' \in [Threads -> LRLocals] /\ machine = "up" /\ machine' = "up"
      /\ \A u \in Threads \ {t} : th'[u] = th[u]
      /\ th[t].pc = "psync" /\ th'[t].pc = "left" /\ th'[t].i = 0
      /\ lock = t /\ Step = "psync" /\ Step' = "left"
      /\ Log!RInv' /\ Log!Settled' \subseteq Log!Settled
  BY SyncedView
<1>2. /\ LRTypeOK /\ Log!RInv /\ SideTypes
      /\ UNCHANGED <<lock, ran, stale, spoilt, leftRight, versionIndex, ri,
                     gRight, side, localVI, since>>
  BY Holder DEF LRInv, LRPSync, Synced, lrVars, sides, history
<1>3. \A w \in Words : /\ Now(nvm', Back(w)) = Now(nvm, Back(w))
                       /\ Now(nvm', Main(w)) = Now(nvm, Main(w))
  <2>1. nvm' = Fenced(nvm, pwb)
    BY DEF LRPSync, Synced
  <2>2. \A l \in Lines : Now(Fenced(nvm, pwb), l) = Now(nvm, l)
    BY NotedIs, Fencing
  <2>3. QED
    BY <2>1, <2>2, LineTypes
<1>4. \A n : BackIs(n)' <=> BackIs(n)
  <2>1. SUFFICES ASSUME NEW n
                 PROVE  (\A w \in Words : Now(nvm', Back(w)) = Effect(n)'[w])
                          <=> BackIs(n)
    BY DEF BackIs, Back
  <2>2. Effect(n)' = Effect(n)
    BY <1>2 DEF Effect
  <2>3. QED
    BY <1>3, <2>2 DEF BackIs
<1>5. LRTypeOK'
  <2>1. Log!TypeOK'
    BY <1>1 DEF Log!RInv, Log!Control
  <2>2. SideTypes'
    BY <1>2 DEF SideTypes
  <2>3. QED
    BY <1>1, <2>1, <2>2, TypesAreNext
<1>6. LocalState'
  BY <1>1 DEF LRInv, LocalState
<1>7. \A u \in Threads : th[u].pc \in Reading \/ th'[u].pc \in Reading =>
                           u # t /\ th'[u] = th[u]
  BY <1>1 DEF Reading
<1>8. SidesState'
  BY <1>1, <1>2 DEF LRInv, SidesState, Changing, Toggling
<1>9. IndicatorState'
  BY <1>2, <1>7 DEF LRInv, IndicatorState, Reading
<1>10. OldReaders'
  <2>1. ASSUME NEW u \in Threads, Old(u)'
        PROVE  FALSE
    <3>1. Old(u)
      BY <1>2, <1>7, <2>1 DEF Old, Reading
    <3>2. QED
      BY <1>1, <3>1 DEF LRInv, OldReaders, Toggling
  <2>2. QED
    BY <2>1 DEF OldReaders
<1>11. SeenSide'
  <2>1. SUFFICES ASSUME NEW u \in Threads, th'[u].pc = "read",
                        NEW w \in Words \ th'[u].todo
                 PROVE  th'[u].seen[w] =
                          Now(nvm', IF side[u] = TRAVERSE_RIGHT
                                    THEN Back(w) ELSE Main(w))
    BY <1>2 DEF SeenSide, Back, Main
  <2>2. th'[u] = th[u]
    BY <1>7, <2>1 DEF Reading
  <2>3. QED
    BY <1>3, <2>1, <2>2 DEF LRInv, SeenSide
<1>12. SinceState'
  BY <1>1, <1>2, <1>4, <1>7 DEF LRInv, SinceState, Changing
<1>13. SettledState'
  <2>1. SUFFICES ASSUME ~spoilt', stale' = {}, NEW n \in 0 .. Len(ran'),
                        BackIs(n)'
                 PROVE  Log!Settled' \subseteq Log!First(n)'
    BY DEF SettledState
  <2>2. n \in 0 .. Len(ran) /\ BackIs(n) /\ ~spoilt /\ stale = {}
    BY <1>2, <1>4, <2>1
  <2>3. Log!Settled \subseteq Log!First(n)
    BY <1>1, <2>2 DEF LRInv, SettledState, Changing
  <2>4. Log!First(n)' = Log!First(n)
    BY <1>2 DEF Log!First
  <2>5. QED
    BY <1>1, <2>3, <2>4
<1>14. QED
  BY <1>1, <1>5, <1>6, <1>8, <1>9, <1>10, <1>11, <1>12, <1>13 DEF LRInv

LEMMA LRUpdateLR ==
  ASSUME LRInv, NEW t \in Threads, LRUpdate(t)
  PROVE  LRInv'
<1>1. CASE LockWriters(t)
  BY <1>1, LockWritersLR
<1>2. CASE SetRight(t) \/ ReadBack(t) \/ ReadMain(t) \/ ClearRight(t)
  BY <1>2, SetRightLR, ReadBackLR, ReadMainLR, ClearRightLR
<1>3. CASE ToggleVersionAndWait(t)
  BY <1>3, ToggleVersionAndWaitLR
<1>4. CASE Mutate(t) \/ LRPSync(t) \/ AnswerAndCopy(t)
  BY <1>4, MutateLR, LRPSyncLR, AnswerAndCopyLR
<1>5. QED
  BY <1>1, <1>2, <1>3, <1>4 DEF LRUpdate

(***************************************************************************)
(* ns_read_transaction.                                                    *)
(***************************************************************************)

\* There is a last one among some calls.
LEMMA Smallest ==
  ASSUME NEW S, S \subseteq Nat, S # {}
  PROVE  \E x \in S : \A y \in S : x <= y
<1>1. PICK R : R = OpToRel(<, Nat)
  OBVIOUS
<1>2. IsWellFoundedOn(R, Nat)
  BY <1>1, NatLessThanWellFounded
<1>3. \A y, x \in Nat : <<y, x>> \in R <=> y < x
  BY <1>1 DEF OpToRel
<1>4. PICK x \in S : \A y \in S : ~ (<<y, x>> \in R)
  BY <1>2, WFMin
<1>5. ASSUME NEW y \in S
      PROVE  x <= y
  <2>1. x \in Nat /\ y \in Nat /\ ~(y < x)
    BY <1>3, <1>4, <1>5
  <2>2. QED
    BY <2>1
<1>6. QED
  BY <1>5

LEMMA Greatest ==
  ASSUME NEW S, NEW m \in Nat, S \subseteq 0 .. m, S # {}
  PROVE  /\ \E x \in S : \A y \in S : x >= y
         /\ Max(S) \in S /\ \A y \in S : Max(S) >= y
<1>1. PICK T : T = {m - x : x \in S}
  OBVIOUS
<1>2. T \subseteq Nat /\ T # {}
  <2>1. \A x \in S : x \in 0 .. m /\ m - x \in Nat
    OBVIOUS
  <2>2. QED
    BY <1>1, <2>1
<1>3. PICK z \in T : \A y \in T : z <= y
  BY <1>2, Smallest
<1>4. PICK x \in S : z = m - x
  BY <1>1, <1>3
<1>5. ASSUME NEW y \in S
      PROVE  x >= y
  <2>1. x \in 0 .. m /\ y \in 0 .. m /\ m - y \in T
    BY <1>1
  <2>2. m - x <= m - y
    BY <1>3, <1>4, <2>1
  <2>3. QED
    BY <2>1, <2>2
<1>6. \E v \in S : \A y \in S : v >= y
  BY <1>5
<1>7. Max(S) \in S /\ \A y \in S : Max(S) >= y
  BY <1>6, Zenon DEF Max
<1>8. QED
  BY <1>6, <1>7

LEMMA MustSeeIs ==
  ASSUME ran \in Seq(Threads \X Nat)
  PROVE  /\ MustSee \in 0 .. Len(ran)
         /\ MustSee # 0 => ran[MustSee] \in due
<1>1. PICK S : S = {0} \cup {n \in DOMAIN ran : ran[n] \in due}
  OBVIOUS
<1>2. /\ S \subseteq 0 .. Len(ran) /\ S # {} /\ Len(ran) \in Nat
      /\ \A n \in S : n # 0 => ran[n] \in due
  BY <1>1
<1>3. Max(S) \in S
  BY <1>2, Greatest
<1>4. QED
  BY <1>1, <1>2, <1>3 DEF MustSee

\* A step of a reader, and what it has to keep of its own.
ReaderStep(t) ==
  /\ machine = "up" /\ machine' = "up"
  /\ UNCHANGED <<memory, fc, lock, reading, ran, stale, spoilt, leftRight,
                 versionIndex, gRight>>
  /\ th' \in [Threads -> LRLocals]
  /\ \A u \in Threads \ {t} :
       /\ th'[u] = th[u] /\ localVI'[u] = localVI[u] /\ since'[u] = since[u]
       /\ side'[u] = side[u] /\ \A v \in {0, 1} : ri'[v][u] = ri[v][u]
  /\ th[t].pc \in {"idle"} \cup Reading /\ th'[t].pc \in {"idle"} \cup Reading
  /\ th'[t].pc = "idle" => th'[t] = Local(th'[t].k)

IndicatorOf(t) ==
  \A v \in {0, 1} :
    ri[v][t] <=> th[t].pc \in {"loadSide", "read"} /\ localVI[t] = v

OldOf(t) ==
  Old(t) =>
    /\ Step \in Toggling
    /\ Step = "waitNext" /\ t < th[lock].i => localVI[t] = versionIndex
    /\ Step = "toggle" => localVI[t] = versionIndex
    /\ Step = "waitPrev" => localVI[t] # versionIndex /\ th[lock].i <= t

SeenOf(t) ==
  th[t].pc = "read" =>
    \A w \in Words \ th[t].todo :
      th[t].seen[w] =
        Now(nvm, IF side[t] = TRAVERSE_RIGHT THEN Back(w) ELSE Main(w))

SinceOf(t) ==
  th[t].pc \in Reading /\ ~spoilt =>
    /\ since[t] <= Len(ran)
    /\ /\ stale = {}
       /\ \/ Step \in Changing
          \/ th[t].pc = "read" /\ side[t] = TRAVERSE_RIGHT
       => \A n \in 0 .. Len(ran) : BackIs(n) => since[t] <= n

LEMMA ReaderSteps ==
  ASSUME LRInv, NEW t \in Threads, ReaderStep(t)
  PROVE  /\ lock # t /\ Step' = Step
         /\ lock \in Threads => th'[lock] = th[lock] /\ side'[lock] = side[lock]
         /\ \A n : BackIs(n)' <=> BackIs(n)
<1>1. lock # t /\ lock \in Threads \cup {Free}
  BY Holder, HeldIs DEF LRInv, ReaderStep
<1>2. lock \in Threads => th'[lock] = th[lock] /\ side'[lock] = side[lock]
  BY <1>1 DEF ReaderStep
<1>3. Step' = Step
  BY <1>1, <1>2 DEF Step, ReaderStep
<1>4. \A n : BackIs(n)' <=> BackIs(n)
  BY DEF BackIs, Effect, Back, ReaderStep, memory
<1>5. QED
  BY <1>1, <1>2, <1>3, <1>4

LEMMA ReaderInv ==
  ASSUME LRInv, NEW t \in Threads, ReaderStep(t), Log!RInv', SideTypes',
         IndicatorOf(t)', OldOf(t)', SeenOf(t)', SinceOf(t)', SettledState'
  PROVE  LRInv'
<1>1. /\ lock # t /\ Step' = Step
      /\ lock \in Threads => th'[lock] = th[lock] /\ side'[lock] = side[lock]
      /\ \A n : BackIs(n)' <=> BackIs(n)
  BY ReaderSteps
<1>2. UNCHANGED <<nvm, lock, ran, stale, spoilt, leftRight, versionIndex,
                  gRight>>
  BY DEF ReaderStep, memory
<1>3. LRTypeOK'
  <2>1. Log!TypeOK'
    BY DEF Log!RInv, Log!Control
  <2>2. QED
    BY <2>1, TypesAreNext DEF ReaderStep
<1>4. LocalState'
  BY DEF LRInv, LocalState, ReaderStep, Reading
<1>5. SidesState'
  <2>1. "free" \notin Toggling \cup Changing
    BY DEF Toggling, Changing
  <2>2. Step \in Toggling \cup Changing => lock \in Threads
    BY <2>1, Holder DEF LRInv, Step
  <2>3. QED
    BY <1>1, <1>2, <2>2 DEF LRInv, SidesState
<1>6. IndicatorState'
  <2>1. SUFFICES ASSUME NEW u \in Threads PROVE IndicatorOf(u)'
    BY DEF IndicatorState, IndicatorOf
  <2>2. IndicatorOf(u)
    BY DEF LRInv, IndicatorState, IndicatorOf
  <2>3. QED
    BY <2>2 DEF IndicatorOf, ReaderStep
<1>7. OldReaders'
  <2>1. SUFFICES ASSUME NEW u \in Threads PROVE OldOf(u)'
    BY DEF OldReaders, OldOf
  <2>2. OldOf(u)
    BY DEF LRInv, OldReaders, OldOf
  <2>3. "free" \notin Toggling
    BY DEF Toggling
  <2>4. Step \in Toggling => lock \in Threads
    BY <2>3, Holder DEF LRInv, Step
  <2>5. CASE u # t
    <3>1. Old(u)' <=> Old(u)
      BY <1>2, <2>5 DEF Old, ReaderStep
    <3>2. localVI'[u] = localVI[u]
      BY <2>5 DEF ReaderStep
    <3>3. QED
      BY <1>1, <1>2, <2>2, <2>4, <3>1, <3>2 DEF OldOf
  <2>6. QED
    BY <2>5
<1>8. SeenSide'
  <2>1. SUFFICES ASSUME NEW u \in Threads PROVE SeenOf(u)'
    BY DEF SeenSide, SeenOf
  <2>2. SeenOf(u)
    BY DEF LRInv, SeenSide, SeenOf
  <2>3. QED
    BY <1>2, <2>2 DEF SeenOf, ReaderStep, Back, Main
<1>9. SinceState'
  <2>1. SUFFICES ASSUME NEW u \in Threads PROVE SinceOf(u)'
    BY DEF SinceState, SinceOf
  <2>2. SinceOf(u)
    BY DEF LRInv, SinceState, SinceOf
  <2>3. QED
    BY <1>1, <1>2, <2>2 DEF SinceOf, ReaderStep
<1>10. QED
  BY <1>3, <1>4, <1>5, <1>6, <1>7, <1>8, <1>9 DEF LRInv

\* What was settled is in back, if the calls the reader has seen are.
LEMMA ReaderSettles ==
  ASSUME LRInv, NEW t \in Threads, ReaderStep(t), NEW seen,
         due' \subseteq due \cup seen,
         ~spoilt /\ stale = {} /\ Step \in Changing =>
           \A n \in 0 .. Len(ran) : BackIs(n) => seen \subseteq Log!First(n)
  PROVE  SettledState'
<1>1. /\ Step' = Step /\ \A n : BackIs(n)' <=> BackIs(n)
      /\ UNCHANGED <<fc, ran, stale, spoilt>>
  BY ReaderSteps DEF ReaderStep
<1>2. SUFFICES ASSUME Step \in Changing, ~spoilt, stale = {},
                      NEW n \in 0 .. Len(ran), BackIs(n)
               PROVE  Log!Settled' \subseteq Log!First(n)'
  BY <1>1 DEF SettledState
<1>3. Log!Settled \subseteq Log!First(n) /\ seen \subseteq Log!First(n)
  BY <1>2 DEF LRInv, SettledState
<1>4. Log!First(n)' = Log!First(n)
  BY <1>1 DEF Log!First
<1>5. ASSUME NEW u \in Threads, Log!Updating(u)'
      PROVE  Log!Updating(u) /\ LogThreads'[u].k = LogThreads[u].k
  <2>1. CASE u = t
    <3>1. LogThread(t)'.pc \in {"idle", "arrive"}
      BY DEF LogThread, ReaderStep, Local, Reading, Toggling
    <3>2. QED
      BY <1>5, <2>1, <3>1 DEF Log!Updating, Log!pc, Log!UpdateLabels,
         Log!WriterLabels, LogThreads
  <2>2. CASE u # t
    <3>1. leftRight' = leftRight /\ \A x \in Threads \ {t} : th'[x] = th[x]
      BY DEF ReaderStep
    <3>2. LogThreads'[u] = LogThreads[u]
      BY <2>2, <3>1, OthersSeen DEF LRInv
    <3>3. QED
      BY <1>5, <3>2 DEF Log!Updating, Log!pc, Log!UpdateLabels,
         Log!WriterLabels
  <2>3. QED
    BY <2>1, <2>2
<1>6. Log!Settled' \subseteq Log!Settled \cup seen
  BY <1>1, <1>5 DEF Log!Settled, Log!Threads, Threads
<1>7. QED
  BY <1>3, <1>4, <1>6

LEMMA LoadVersionLR ==
  ASSUME LRInv, NEW t \in Threads, LoadVersion(t)
  PROVE  LRInv'
<1>1. /\ LRTypeOK /\ Log!RInv /\ th \in [Threads -> LRLocals]
      /\ th[t] \in LRLocals /\ SideTypes /\ ran \in Seq(Threads \X Nat)
      /\ Log!UpState
  BY Holder DEF LRInv
<1>2. /\ UNCHANGED <<memory, fc, lock, reading, history, leftRight,
                     versionIndex, ri, gRight, side>>
      /\ localVI' = [localVI EXCEPT ![t] = versionIndex]
      /\ since' = [since EXCEPT ![t] = MustSee]
  BY DEF LoadVersion, sides
<1>3. PICK local \in LRLocals : local = th[t]
  BY <1>1
<1>4. Moved(t, "idle", "arrive", local)
  <2>1. "arrive" \in LRLabels
    BY DEF LRLabels, Labels, ReaderLabels
  <2>2. Go(t, "idle", "arrive", local)
    BY <1>3 DEF LoadVersion, Goto
  <2>3. QED
    BY <1>1, <2>1, <2>2, Moves
<1> USE DEF Moved
<1>5. LogThreads[t] = th[t] /\ th[t] = Local(th[t].k)
  BY <1>1, <1>4, ViewIs DEF Plain, LRInv, LocalState
<1>6. LogThread(t)' = [Local(th'[t].k) EXCEPT !.pc = "arrive"]
  BY <1>4 DEF LogThread, Reading, Toggling
<1>7. Log!RInv'
  <2>1. LogThreads' =
          [LogThreads EXCEPT ![t] = [LogThreads[t] EXCEPT !.pc = "arrive"]]
    <3>1. \A u \in Threads \ {t} : LogThreads'[u] = LogThreads[u]
      BY <1>1, <1>2, <1>4, OthersSeen
    <3>2. LogThread(t)' = [LogThreads[t] EXCEPT !.pc = "arrive"]
      BY <1>3, <1>4, <1>5, <1>6
    <3>3. QED
      BY <3>1, <3>2, SeenStep
  <2>2. Log!Goto(t, "idle", "arrive")
    BY <1>4, <1>5, <2>1 DEF Log!Goto, Log!Go, Log!At
  <2>3. Log!HasCall(t) /\ Log!Call(t) = {}
    BY <1>5 DEF LoadVersion, HasCall, Log!HasCall, Call, Log!Call
  <2>4. Log!ReadTransaction(t)
    BY <1>2, <2>2, <2>3 DEF Log!ReadTransaction, Log!memory, memory,
       Log!history, history
  <2>5. QED
    BY <1>1, <2>4, LogAssumption, Log!ReadTransactionInv
       DEF Log!Threads, Threads
<1>8. /\ MustSee \in 0 .. Len(ran) /\ (MustSee # 0 => ran[MustSee] \in due)
      /\ Len(ran) \in Nat
  BY <1>1, MustSeeIs
<1>9. localVI'[t] = versionIndex /\ since'[t] = MustSee
  BY <1>1, <1>2 DEF SideTypes
<1>10. SideTypes'
  BY <1>1, <1>2, <1>8 DEF SideTypes
<1>11. ReaderStep(t)
  BY <1>1, <1>2, <1>4 DEF ReaderStep, Reading, SideTypes, history
<1>12. IndicatorOf(t)'
  <2>1. \A v \in {0, 1} : ~ri[v][t]
    BY <1>4 DEF LRInv, IndicatorState
  <2>2. QED
    BY <1>2, <1>4, <2>1 DEF IndicatorOf
<1>13. OldOf(t)' /\ SeenOf(t)'
  BY <1>4 DEF OldOf, Old, SeenOf
<1>14. SinceOf(t)'
  <2>1. SUFFICES ASSUME ~spoilt, stale = {}, Step \in Changing,
                        NEW n \in 0 .. Len(ran), BackIs(n)
                 PROVE  MustSee <= n
    <3>1. /\ ran' = ran /\ spoilt' = spoilt /\ stale' = stale
          /\ th'[t].pc # "read"
      BY <1>2, <1>4 DEF history
    <3>2. Step' = Step /\ \A n : BackIs(n)' <=> BackIs(n)
      BY <1>11, ReaderSteps
    <3>3. MustSee <= Len(ran)
      BY <1>8
    <3>4. QED
      BY <1>9, <2>1, <3>1, <3>2, <3>3 DEF SinceOf
  <2>2. Log!Settled \subseteq Log!First(n)
    BY <2>1 DEF LRInv, SettledState
  <2>3. CASE MustSee # 0
    <3>1. ran[MustSee] \in Log!First(n)
      BY <1>8, <2>2, <2>3 DEF Log!Settled
    <3>2. PICK m \in 1 .. n : ran[m] = ran[MustSee]
      BY <3>1 DEF Log!First
    <3>3. Log!IsInjective(ran)
      BY <1>1, LogAssumption, Log!InvIs DEF Log!Logic, Log!RanState
    <3>4. m \in DOMAIN ran /\ MustSee \in DOMAIN ran /\ MustSee \in Nat
      BY <1>1, <1>8, <2>1, <2>3, <3>2
    <3>5. m = MustSee
      BY <3>2, <3>3, <3>4 DEF Log!IsInjective
    <3>6. QED
      BY <3>2, <3>5
  <2>4. CASE MustSee = 0
    BY <2>1, <2>4
  <2>5. QED
    BY <2>3, <2>4
<1>15. SettledState'
  <2>1. PICK seen : seen = {}
    OBVIOUS
  <2>2. due' \subseteq due \cup seen /\ \A n : seen \subseteq Log!First(n)
    BY <1>2, <2>1 DEF history
  <2>3. QED
    BY <1>11, <2>2, ReaderSettles
<1>16. QED
  BY <1>7, <1>10, <1>11, <1>12, <1>13, <1>14, <1>15, ReaderInv

\* The steps of a reader that its view does not show.
LEMMA ReaderUnseen ==
  ASSUME LRInv, NEW t \in Threads, ReaderStep(t), UNCHANGED history,
         th[t].pc \in Reading, th'[t].pc \in Reading, th'[t].k = th[t].k
  PROVE  Log!RInv' /\ SettledState'
<1>1. LogThread(t)' = LogThread(t)
  BY DEF LogThread, Reading, Toggling
<1>2. /\ LRTypeOK /\ Log!RInv /\ machine' = machine
      /\ \A u \in Threads \ {t} : th'[u] = th[u]
      /\ leftRight' = leftRight
      /\ UNCHANGED <<memory, fc, lock, reading, history>>
  BY DEF LRInv, ReaderStep
<1>3. Log!RInv'
  BY <1>1, <1>2, Unseen
<1>4. SettledState'
  <2>1. PICK seen : seen = {}
    OBVIOUS
  <2>2. due' \subseteq due \cup seen /\ \A n : seen \subseteq Log!First(n)
    BY <2>1 DEF history
  <2>3. QED
    BY <2>2, ReaderSettles
<1>5. QED
  BY <1>3, <1>4

LEMMA ArriveAtLR ==
  ASSUME LRInv, NEW t \in Threads, ArriveAt(t)
  PROVE  LRInv'
<1>1. /\ th \in [Threads -> LRLocals] /\ th[t] \in LRLocals /\ SideTypes
  BY Holder DEF LRInv
<1>2. /\ UNCHANGED <<memory, fc, lock, reading, history, leftRight,
                     versionIndex, gRight, side, localVI, since>>
      /\ ri' = [ri EXCEPT ![localVI[t]][t] = TRUE]
  BY DEF ArriveAt
<1>3. PICK local \in LRLocals : local = th[t]
  BY <1>1
<1>4. Moved(t, "arrive", "loadSide", local)
  <2>1. "loadSide" \in LRLabels
    BY DEF LRLabels
  <2>2. Go(t, "arrive", "loadSide", local)
    BY <1>3 DEF ArriveAt, Goto
  <2>3. QED
    BY <1>1, <2>1, <2>2, Moves
<1> USE DEF Moved
<1>5. localVI[t] \in {0, 1}
  BY <1>1 DEF SideTypes
<1>6. /\ ri' \in [{0, 1} -> [Threads -> BOOLEAN]]
      /\ \A v \in {0, 1}, u \in Threads \ {t} : ri'[v][u] = ri[v][u]
      /\ ri'[localVI[t]][t]
      /\ \A v \in {0, 1} : v # localVI[t] => ri'[v][t] = ri[v][t]
  BY <1>1, <1>2, <1>5 DEF SideTypes
<1>7. SideTypes'
  BY <1>1, <1>2, <1>6 DEF SideTypes
<1>8. ReaderStep(t)
  BY <1>1, <1>2, <1>4, <1>6 DEF ReaderStep, Reading, history
<1>9. IndicatorOf(t)'
  <2>1. \A v \in {0, 1} : ~ri[v][t]
    BY <1>4 DEF LRInv, IndicatorState
  <2>2. QED
    BY <1>2, <1>4, <1>6, <2>1 DEF IndicatorOf
<1>10. OldOf(t)' /\ SeenOf(t)'
  BY <1>4 DEF OldOf, Old, SeenOf
<1>11. SinceOf(t)'
  <2>1. SinceOf(t)
    BY DEF LRInv, SinceState, SinceOf
  <2>2. Step' = Step /\ \A n : BackIs(n)' <=> BackIs(n)
    BY <1>8, ReaderSteps
  <2>3. QED
    BY <1>2, <1>4, <2>1, <2>2 DEF SinceOf, Reading, history
<1>12. Log!RInv' /\ SettledState'
  BY <1>2, <1>3, <1>4, <1>8, ReaderUnseen DEF Reading
<1>13. QED
  BY <1>7, <1>8, <1>9, <1>10, <1>11, <1>12, ReaderInv

LEMMA LoadSideLR ==
  ASSUME LRInv, NEW t \in Threads, LoadSide(t)
  PROVE  LRInv'
<1>1. /\ th \in [Threads -> LRLocals] /\ th[t] \in LRLocals /\ SideTypes
      /\ LRTypeOK /\ Log!RInv
  BY Holder DEF LRInv
<1>2. /\ UNCHANGED <<memory, fc, lock, reading, history, leftRight,
                     versionIndex, ri, gRight, localVI, since>>
      /\ side' = [side EXCEPT ![t] = leftRight]
  BY DEF LoadSide, sides
<1>3. PICK local : local = [th[t] EXCEPT !.todo = Words]
  OBVIOUS
<1>4. local \in LRLocals /\ local.k = th[t].k /\ local.todo = Words
  BY <1>1, <1>3 DEF LRLocals, LocalTypes
<1>5. Moved(t, "loadSide", "read", local)
  <2>1. "read" \in LRLabels
    BY DEF LRLabels, Labels, ReaderLabels
  <2>2. Go(t, "loadSide", "read", local)
    BY <1>3 DEF LoadSide
  <2>3. QED
    BY <1>1, <1>4, <2>1, <2>2, Moves
<1> USE DEF Moved
<1>6. side'[t] = leftRight
  BY <1>1, <1>2 DEF SideTypes
<1>7. SideTypes'
  BY <1>1, <1>2 DEF SideTypes
<1>8. ReaderStep(t)
  BY <1>1, <1>2, <1>5 DEF ReaderStep, Reading, history, SideTypes
<1>9. IndicatorOf(t)'
  BY <1>2, <1>5 DEF IndicatorOf, LRInv, IndicatorState
<1>10. OldOf(t)'
  BY <1>2, <1>6 DEF OldOf, Old
<1>11. SeenOf(t)'
  BY <1>4, <1>5 DEF SeenOf
<1>12. SinceOf(t)'
  <2>1. SinceOf(t)
    BY DEF LRInv, SinceState, SinceOf
  <2>2. Step' = Step /\ \A n : BackIs(n)' <=> BackIs(n)
    BY <1>8, ReaderSteps
  <2>3. ASSUME ~spoilt, stale = {}, Step \notin Changing,
               leftRight = TRAVERSE_RIGHT, NEW n \in 0 .. Len(ran), BackIs(n)
        PROVE  since[t] <= n
    <3>1. Step \in Toggling
      BY <2>3 DEF LRInv, SidesState
    <3>2. Log!Phase = "wait"
      BY <1>1, <2>3, <3>1, PhaseIs
    <3>3. PICK m : Replicas(m)
      BY <1>1, <1>5, <2>3, ReplicasAre
    <3>4. n = Len(ran)
      BY <2>3, <3>2, <3>3 DEF Replicas
    <3>5. QED
      BY <1>5, <2>1, <2>3, <3>4 DEF SinceOf, Reading
  <2>4. QED
    BY <1>2, <1>5, <1>6, <2>1, <2>2, <2>3 DEF SinceOf, Reading, history
<1>13. Log!RInv' /\ SettledState'
  BY <1>2, <1>4, <1>5, <1>8, ReaderUnseen DEF Reading
<1>14. QED
  BY <1>7, <1>8, <1>9, <1>10, <1>11, <1>12, <1>13, ReaderInv

LEMMA ReadSideLR ==
  ASSUME LRInv, NEW t \in Threads, ReadSide(t)
  PROVE  LRInv'
<1>1. /\ th \in [Threads -> LRLocals] /\ th[t] \in LRLocals /\ SideTypes
      /\ LRTypeOK /\ Log!RInv /\ Log!Memory(nvm)
  BY Holder DEF LRInv
<1>2. PICK w : Load(t, w, PLoad(t, w))
  BY DEF ReadSide
<1>3. w \in Words /\ w \in th[t].todo
  BY <1>1, <1>2 DEF Load, LRLocals, LocalTypes
<1>4. PICK loaded : loaded = PLoad(t, w)
  OBVIOUS
<1>5. /\ UNCHANGED <<memory, fc, lock, reading, history, leftRight,
                     versionIndex, ri, gRight, side, localVI, since>>
  BY <1>2 DEF ReadSide, Load, lrVars, sides
<1>6. PICK local : local = [th[t] EXCEPT !.todo = @ \ {w},
                                         !.seen = [@ EXCEPT ![w] = loaded]]
  OBVIOUS
<1>7. loaded \in SUBSET Stamps
  <2>1. /\ Now(nvm, Main(w)) \in SUBSET Stamps
        /\ Now(nvm, Back(w)) \in SUBSET Stamps
    <3>1. /\ Log!Now(nvm, Main(w)) \in Log!Contents(Main(w))
          /\ Log!Now(nvm, Back(w)) \in Log!Contents(Back(w))
      BY <1>1, <1>3, LineTypes, SameMemory, LogAssumption, Log!NowType
    <3>2. /\ Log!Contents(Main(w)) = SUBSET Stamps
          /\ Log!Contents(Back(w)) = SUBSET Stamps
      BY DEF Log!Contents, Log!State, Main, Back, Stamps, Log!Stamps,
             Log!Threads, Threads
    <3>3. QED
      BY <3>1, <3>2, SameMemory
  <2>2. QED
    BY <1>4, <2>1 DEF PLoad
<1>8. /\ local \in LRLocals /\ local.k = th[t].k
      /\ local.todo = th[t].todo \ {w}
      /\ local.seen = [th[t].seen EXCEPT ![w] = loaded]
      /\ th[t].seen \in [Words -> SUBSET Stamps]
  BY <1>1, <1>6, <1>7 DEF LRLocals, LocalTypes
<1>9. Moved(t, "read", "read", local)
  <2>1. "read" \in LRLabels
    BY DEF LRLabels, Labels, ReaderLabels
  <2>2. Go(t, "read", "read", local)
    BY <1>2, <1>4, <1>6 DEF Load
  <2>3. QED
    BY <1>1, <1>8, <2>1, <2>2, Moves
<1> USE DEF Moved
<1>10. SideTypes'
  BY <1>1, <1>5 DEF SideTypes
<1>11. ReaderStep(t)
  BY <1>5, <1>9 DEF ReaderStep, Reading, history
<1>12. IndicatorOf(t)'
  BY <1>5, <1>9 DEF IndicatorOf, LRInv, IndicatorState
<1>13. Step' = Step /\ (\A n : BackIs(n)' <=> BackIs(n))
       /\ (lock \in Threads => th'[lock] = th[lock])
  BY <1>11, ReaderSteps
<1>14. OldOf(t)'
  <2>1. OldOf(t)
    BY DEF LRInv, OldReaders, OldOf
  <2>2. "free" \notin Toggling
    BY DEF Toggling
  <2>3. Step \in Toggling => lock \in Threads
    BY <2>2, Holder DEF LRInv, Step
  <2>4. QED
    BY <1>5, <1>9, <1>13, <2>1, <2>3 DEF OldOf, Old
<1>15. SeenOf(t)'
  <2>0. /\ nvm' = nvm /\ side' = side
        /\ th'[t].todo = th[t].todo \ {w}
    BY <1>5, <1>8, <1>9 DEF memory
  <2>1. SUFFICES ASSUME NEW v \in Words \ (th[t].todo \ {w})
                 PROVE  th'[t].seen[v] =
                          Now(nvm, IF side[t] = TRAVERSE_RIGHT
                                   THEN Back(v) ELSE Main(v))
    BY <2>0 DEF SeenOf, Back, Main
  <2>2. SeenOf(t)
    BY DEF LRInv, SeenSide, SeenOf
  <2>3. CASE v = w
    <3>1. side[t] = TRAVERSE_RIGHT => gRight
      BY <1>9, ReadersOn
    <3>2. QED
      BY <1>3, <1>4, <1>8, <1>9, <2>3, <3>1 DEF PLoad
  <2>4. CASE v # w
    BY <1>8, <1>9, <2>1, <2>2, <2>4 DEF SeenOf
  <2>5. QED
    BY <2>3, <2>4
<1>16. SinceOf(t)'
  <2>1. SinceOf(t)
    BY DEF LRInv, SinceState, SinceOf
  <2>2. QED
    BY <1>5, <1>9, <1>13, <2>1 DEF SinceOf, history
<1>17. Log!RInv' /\ SettledState'
  BY <1>5, <1>8, <1>9, <1>11, ReaderUnseen DEF Reading
<1>18. QED
  BY <1>10, <1>11, <1>12, <1>14, <1>15, <1>16, <1>17, ReaderInv

\* A reader on back sees calls that back has only, also in words left old.
LEMMA ReaderSaw ==
  ASSUME LRInv, NEW t \in Threads, th[t].pc = "read", th[t].todo = {},
         side[t] = TRAVERSE_RIGHT,
         NEW n \in Nat, \A w \in Words : Log!BackHas(w, Effect(n)[w])
  PROVE  Effective(th[t].seen) \subseteq Log!First(n)
<1>1. ASSUME NEW w \in Words
      PROVE  th[t].seen[w] \subseteq Effect(n)[w]
  <2>1. th[t].seen[w] = Now(nvm, Back(w))
    BY DEF LRInv, SeenSide
  <2>2. nvm[Back(w)] \in Seq(Log!Contents(Back(w))) \ {<<>>}
    BY Holder, LineTypes, SameMemory DEF LRInv, Log!Memory
  <2>3. Len(nvm[Back(w)]) \in DOMAIN nvm[Back(w)]
    BY <2>2
  <2>4. Now(nvm, Back(w)) \subseteq Effect(n)[w]
    BY <2>3, SameMemory DEF Now, Log!BackHas
  <2>5. QED
    BY <2>1, <2>4
<1>2. Effective(th[t].seen) \subseteq Effective(Effect(n))
  BY <1>1 DEF Effective
<1>3. Effective(Effect(n)) = Log!Effective(Log!Effect(n))
  BY SameEffect
<1>4. Log!Effective(Log!Effect(n)) \subseteq Log!First(n)
  BY LogAssumption, Log!EffectiveFirst
<1>5. QED
  BY <1>2, <1>3, <1>4

\* What a reader has read is the effect of the calls it had to see, unless it
\* is on a back that has been left old.
LEMMA ReaderHas ==
  ASSUME LRInv, NEW t \in Threads, th[t].pc = "read", th[t].todo = {}, ~spoilt
  PROVE  \E n \in 0 .. Len(ran) :
           /\ Effective(th[t].seen) \subseteq Log!First(n)
           /\ (side[t] = TRAVERSE_RIGHT => stale = {}) =>
                th[t].seen = Effect(n) /\ n \in since[t] .. Len(ran)
           /\ Step \in Changing => side[t] = TRAVERSE_RIGHT /\ Replicas(n)
<1>1. /\ LRTypeOK /\ Log!RInv /\ th[t] \in LRLocals /\ SideTypes
      /\ machine = "up" /\ Len(ran) \in Nat
  <2>1. machine \in {"up", "recover", "fence"}
    BY Holder DEF LRInv, Log!TypeOK, Log!Types
  <2>2. QED
    BY <2>1, Holder DEF LRInv
<1>2. PICK m : Replicas(m)
  BY <1>1, ReplicasAre
<1>3. since[t] \in Nat /\ since[t] <= Len(ran)
      /\ (stale = {} /\ side[t] = TRAVERSE_RIGHT =>
            \A n \in 0 .. Len(ran) : BackIs(n) => since[t] <= n)
  BY <1>1 DEF LRInv, SinceState, Reading, SideTypes
<1>4. \A w \in Words :
        th[t].seen[w] =
          Now(nvm, IF side[t] = TRAVERSE_RIGHT THEN Back(w) ELSE Main(w))
  BY DEF LRInv, SeenSide
<1>5. /\ side[t] \in {TRAVERSE_LEFT, TRAVERSE_RIGHT}
      /\ Step \in Changing => side[t] = TRAVERSE_RIGHT
      /\ side[t] = TRAVERSE_LEFT => Step \notin Changing
  BY ReadersOn
<1>6. th[t].seen \in [Words -> SUBSET Stamps]
  BY <1>1 DEF LRLocals, LocalTypes
<1>7. CASE side[t] = TRAVERSE_RIGHT
  <2>1. m \in 0 .. Len(ran) /\ m \in Nat
    BY <1>1, <1>2 DEF Replicas
  <2>2. Effective(th[t].seen) \subseteq Log!First(m)
    BY <1>2, <1>7, <2>1, ReaderSaw DEF Replicas
  <2>3. ASSUME stale = {}
        PROVE  th[t].seen = Effect(m) /\ m \in since[t] .. Len(ran)
    <3>1. BackIs(m)
      BY <1>2, <2>3 DEF Replicas
    <3>2. \A w \in Words : th[t].seen[w] = Effect(m)[w]
      BY <1>4, <1>7, <3>1 DEF BackIs
    <3>3. th[t].seen = Effect(m)
      BY <1>6, <3>2 DEF Effect
    <3>4. QED
      BY <1>1, <1>3, <1>7, <2>1, <2>3, <3>1, <3>3
  <2>4. QED
    BY <1>2, <1>7, <2>1, <2>2, <2>3
<1>8. CASE side[t] = TRAVERSE_LEFT
  <2>1. Log!Phase # "store"
    <3>1. Step \notin {"run", "store", "psync", "left"}
      BY <1>5, <1>8 DEF Changing
    <3>2. \/ Step \in {"free"} \cup WriterLabels
          \/ Step = "right" \/ (Step \in Toggling /\ leftRight = TRAVERSE_RIGHT)
          \/ Step = "clearRight"
          \/ Step \in Toggling /\ leftRight = TRAVERSE_LEFT
      <4>1. Step \in {"free"} \cup Held
        BY <1>1, PhaseIs
      <4>2. QED
        BY <1>1, <3>1, <4>1 DEF Held, Starting, Ending, SideTypes
    <3>3. QED
      BY <1>1, <3>1, <3>2, PhaseIs
  <2>2. \A w \in Words : th[t].seen[w] = Effect(Len(ran))[w]
    BY <1>2, <1>4, <1>8, <2>1 DEF Replicas, TRAVERSE_LEFT, TRAVERSE_RIGHT
  <2>3. th[t].seen = Effect(Len(ran))
    BY <1>6, <2>2 DEF Effect
  <2>4. Len(ran) \in since[t] .. Len(ran) /\ Len(ran) \in 0 .. Len(ran)
    BY <1>1, <1>3
  <2>5. Effective(th[t].seen) \subseteq Log!First(Len(ran))
    <3>1. Effective(th[t].seen) = Log!Effective(Log!Effect(Len(ran)))
      BY <2>3, SameEffect
    <3>2. QED
      BY <1>1, <3>1, LogAssumption, Log!EffectiveFirst
  <2>6. QED
    BY <1>5, <1>8, <2>3, <2>4, <2>5
<1>9. QED
  BY <1>5, <1>7, <1>8

LEMMA DepartFromLR ==
  ASSUME LRInv, NEW t \in Threads, DepartFrom(t)
  PROVE  LRInv'
<1>1. /\ th \in [Threads -> LRLocals] /\ th[t] \in LRLocals /\ SideTypes
      /\ LRTypeOK /\ Log!RInv /\ ran \in Seq(Threads \X Nat)
      /\ Len(ran) \in Nat
  BY Holder DEF LRInv
<1>2. PICK seen : seen = Effective(th[t].seen)
  OBVIOUS
<1>3. /\ th[t].todo = {} /\ Return(t, "read", seen) /\ th[t].pc = "read"
      /\ machine = "up" /\ machine' = "up"
      /\ due' = due \cup seen
      /\ UNCHANGED <<memory, fc, lock, reading, ran, overflowed, behind,
                     stale, spoilt, restarts, leftRight, versionIndex, gRight,
                     side>>
      /\ ri' = [ri EXCEPT ![localVI[t]][t] = FALSE]
      /\ localVI' = [localVI EXCEPT ![t] = 0]
      /\ since' = [since EXCEPT ![t] = 0]
  BY <1>2 DEF DepartFrom, HasRead, Return, At
<1>4. PICK local : local = Local(th[t].k + 1)
  OBVIOUS
<1>5. /\ local \in LRLocals /\ local = Local(local.k) /\ local.pc = "idle"
  BY <1>1, <1>4, LocalIs DEF LRLocals, LocalTypes
<1>6. th' = [th EXCEPT ![t] = local]
  BY <1>3, <1>4 DEF Return
<1>7. /\ th' \in [Threads -> LRLocals] /\ th'[t] = local
      /\ \A u \in Threads \ {t} : th'[u] = th[u]
  BY <1>1, <1>5, <1>6
<1>8. LogThreads[t].pc = "arrive" /\ LogThreads[t].k = th[t].k
  BY <1>1, <1>3, ViewIs DEF Reading
<1>9. LogThreads' = [LogThreads EXCEPT ![t] = local]
  <2>1. \A u \in Threads \ {t} : LogThreads'[u] = LogThreads[u]
    BY <1>1, <1>3, <1>7, OthersSeen
  <2>2. LogThread(t)' = local
    BY <1>5, <1>7 DEF LogThread, Reading, Toggling
  <2>3. QED
    BY <2>1, <2>2, SeenStep
<1>10. Log!Return(t, "arrive", seen)
  BY <1>3, <1>4, <1>8, <1>9, SameEffect DEF Log!Return, Log!At
<1>11. /\ localVI[t] \in {0, 1} /\ localVI'[t] = 0 /\ since'[t] = 0
       /\ ri' \in [{0, 1} -> [Threads -> BOOLEAN]]
       /\ \A v \in {0, 1}, u \in Threads \ {t} : ri'[v][u] = ri[v][u]
       /\ ~ri'[localVI[t]][t]
       /\ \A v \in {0, 1} : v # localVI[t] => ri'[v][t] = ri[v][t]
  BY <1>1, <1>3 DEF SideTypes
<1>12. SideTypes'
  BY <1>1, <1>3, <1>11 DEF SideTypes
<1>13. ReaderStep(t)
  BY <1>1, <1>3, <1>5, <1>7, <1>11 DEF ReaderStep, Reading, SideTypes
<1>14. IndicatorOf(t)'
  <2>1. \A v \in {0, 1} : ~ri'[v][t]
    <3>1. SUFFICES ASSUME NEW v \in {0, 1}, v # localVI[t]
                   PROVE  ~ri[v][t]
      BY <1>11
    <3>2. QED
      BY <3>1 DEF LRInv, IndicatorState
  <2>2. QED
    BY <1>5, <1>7, <2>1 DEF IndicatorOf
<1>15. OldOf(t)' /\ SeenOf(t)' /\ SinceOf(t)'
  BY <1>5, <1>7 DEF OldOf, Old, SeenOf, SinceOf, Reading
<1>16. ASSUME ~spoilt
       PROVE  \E n \in 0 .. Len(ran) :
                /\ seen \subseteq Log!First(n)
                /\ Step \in Changing =>
                     side[t] = TRAVERSE_RIGHT /\ Replicas(n)
  BY <1>2, <1>3, <1>16, ReaderHas
<1>17. ASSUME ~spoilt, stale = {}, NEW n \in 0 .. Len(ran), BackIs(n),
              Step \in Changing
       PROVE  seen \subseteq Log!First(n)
  <2>1. PICK m \in 0 .. Len(ran) : seen \subseteq Log!First(m) /\ Replicas(m)
    BY <1>16, <1>17
  <2>2. m = n
    BY <1>17, <2>1 DEF Replicas
  <2>3. QED
    BY <2>1, <2>2
<1>18. SettledState'
  BY <1>3, <1>13, <1>17, ReaderSettles
<1>19. Log!RInv'
  <2>1. seen \subseteq Log!Threads \X Nat
    <3>1. th[t].seen \in [Words -> SUBSET Stamps]
      BY <1>1 DEF LRLocals, LocalTypes
    <3>2. QED
      BY <1>2, <3>1 DEF Effective, Stamps, Log!Threads, Threads
  <2>2. ~spoilt => seen \subseteq Log!Range(ran)
    <3>1. \A n \in 0 .. Len(ran) : Log!First(n) \subseteq Log!Range(ran)
      BY <1>1 DEF Log!First, Log!Range
    <3>2. QED
      BY <1>16, <3>1
  <2>3. ASSUME ~spoilt, Log!Phase \in {"run", "store", "psync"},
               NEW n \in 0 .. Log!All, Log!Volatile(n)
        PROVE  seen \subseteq Log!First(n)
    <3>1. Step \in Changing
      <4>1. Step \in {"free"} \cup Held
        BY <1>1, PhaseIs
      <4>2. Step \in {"free"} \cup WriterLabels
        BY <1>1, <2>3, <4>1, PhaseIs DEF Held, Starting, Ending, SideTypes
      <4>3. QED
        BY <1>1, <2>3, <4>2, PhaseIs DEF Changing
    <3>2. side[t] = TRAVERSE_RIGHT
      BY <1>16, <2>3, <3>1
    <3>3. n \in Nat /\ \A w \in Words : Log!BackHas(w, Effect(n)[w])
      BY <1>1, <2>3, SameEffect DEF Log!Volatile
    <3>4. QED
      BY <1>2, <1>3, <3>2, <3>3, ReaderSaw
  <2>4. UNCHANGED Log!memory /\ fc' = fc /\ lock' = lock /\ reading' = reading
    BY <1>3 DEF Log!memory, memory
  <2>5. t \in Log!Threads
    BY DEF Log!Threads, Threads
  <2>6. PICK from : from = "arrive"
    OBVIOUS
  <2>7. Log!Return(t, from, seen)
    BY <1>10, <2>6
  <2>8. QED
    BY <1>1, <2>1, <2>2, <2>3, <2>4, <2>5, <2>6, <2>7, LogAssumption,
       Log!ReaderReturnsInv
<1>20. QED
  BY <1>12, <1>13, <1>14, <1>15, <1>18, <1>19, ReaderInv

LEMMA LRReadsLR ==
  ASSUME LRInv, NEW t \in Threads, LRReads(t)
  PROVE  LRInv'
BY LoadVersionLR, ArriveAtLR, LoadSideLR, ReadSideLR, DepartFromLR DEF LRReads

(***************************************************************************)
(* Failures and recovery.                                                  *)
(***************************************************************************)

\* Nobody is in a call.
Resting ==
  /\ \A t \in Threads : th[t] = Local(th[t].k) /\ th[t].pc = "idle"
  /\ lock = Free
  /\ leftRight = TRAVERSE_LEFT /\ ~gRight
  /\ \A v \in {0, 1}, t \in Threads : ~ri[v][t]

LEMMA RestingInv ==
  Resting /\ LRTypeOK /\ Log!RInv => LRInv
<1> SUFFICES ASSUME Resting, LRTypeOK, Log!RInv
             PROVE  LRInv
  OBVIOUS
<1>1. Step = "free" /\ "free" \notin Toggling \cup Changing
  BY DEF Resting, Step, Toggling, Changing
<1>2. LocalState /\ IndicatorState /\ OldReaders /\ SeenSide /\ SinceState
  BY DEF Resting, LocalState, IndicatorState, OldReaders, Old, SeenSide,
     SinceState, Reading
<1>3. SidesState
  BY <1>1 DEF Resting, SidesState, TRAVERSE_LEFT, TRAVERSE_RIGHT
<1>4. SettledState
  BY <1>1 DEF SettledState
<1>5. QED
  BY <1>2, <1>3, <1>4 DEF LRInv

LEMMA RestingNext == Resting' /\ LRTypeOK' /\ Log!RInv' => LRInv'
BY RestingInv, PTL

LEMMA LRPowerFailureLR ==
  ASSUME LRInv, LRPowerFailure
  PROVE  LRInv'
<1>1. /\ th \in [Threads -> LRLocals] /\ LRTypeOK /\ Log!RInv
  BY Holder DEF LRInv
<1>2. PICK kept \in Failures(nvm) : PowerFailure(kept)
  BY DEF LRPowerFailure
<1>3. PICK after : after = [t \in Threads |->
                              IF th[t].pc = "idle" THEN th[t].k
                                                   ELSE th[t].k + 1]
  OBVIOUS
<1>4. \A t \in Threads : /\ after[t] \in Nat \ {0}
                         /\ th'[t] = Local(after[t])
  BY <1>1, <1>2, <1>3 DEF PowerFailure, LRLocals, LocalTypes
<1>5. ASSUME NEW t \in Threads
      PROVE  /\ th'[t] \in LRLocals /\ th'[t].pc = "idle"
             /\ th'[t] = Local(th'[t].k) /\ LogThreads'[t] = th'[t]
             /\ th'[t] = Local(IF LogThreads[t].pc = "idle"
                               THEN LogThreads[t].k ELSE LogThreads[t].k + 1)
  <2>1. PICK k \in Nat : after[t] = k + 1
    <3>1. after[t] - 1 \in Nat /\ after[t] = (after[t] - 1) + 1
      BY <1>4
    <3>2. QED
      BY <3>1
  <2>2. /\ th'[t] \in LRLocals /\ th'[t].pc = "idle" /\ th'[t].k = k + 1
        /\ th'[t] = Local(k + 1)
    BY <1>4, <2>1, LocalIs
  <2>3. LogThreads'[t] = th'[t]
    BY <2>2 DEF LogThreads, LogThread, Reading, Toggling
  <2>4. th'[t] = Local(IF LogThreads[t].pc = "idle"
                       THEN LogThreads[t].k ELSE LogThreads[t].k + 1)
    BY <1>1, <1>3, <1>4, ViewIs
  <2>5. QED
    BY <2>2, <2>3, <2>4
<1>6. th' \in [Threads -> LRLocals]
  <2>1. th' = [t \in Threads |-> th'[t]]
    BY <1>2 DEF PowerFailure
  <2>2. QED
    BY <1>5, <2>1
<1>7. Log!PowerFailure(kept) /\ kept \in Log!Failures(nvm)
  <2>1. kept \in Log!Failures(nvm)
    BY <1>2 DEF Log!Failures, Failures, Log!Max, Max
  <2>2. Log!AfterFailure(nvm, kept) = AfterFailure(nvm, kept)
    BY DEF Log!AfterFailure, AfterFailure
  <2>3. LogThreads' = [t \in Threads |->
                         Local(IF LogThreads[t].pc = "idle"
                               THEN LogThreads[t].k ELSE LogThreads[t].k + 1)]
    <3>1. LogThreads' = [t \in Threads |-> LogThreads'[t]]
      BY DEF LogThreads
    <3>2. QED
      BY <1>5, <3>1
  <2>4. LogThreads' = [t \in Log!Threads |->
                         Log!Local(IF LogThreads[t].pc = "idle"
                                   THEN LogThreads[t].k
                                   ELSE LogThreads[t].k + 1)]
    BY <2>3, SameMemory, SameEffect
  <2>5. QED
    BY <1>2, <2>1, <2>2, <2>4, SameMemory DEF PowerFailure, Log!PowerFailure
<1>8. Log!RInv'
  BY <1>1, <1>7, LogAssumption, Log!PowerFailureInv
<1>9. SideTypes'
  <2>1. gRight' = FALSE /\ gRight' \in BOOLEAN
    BY Zenon DEF LRPowerFailure
  <2>2. QED
    BY <2>1 DEF LRPowerFailure, SideTypes, TRAVERSE_LEFT, TRAVERSE_RIGHT
<1>10. Resting'
  <2>1. lock' = Free
    BY <1>2 DEF PowerFailure
  <2>2. leftRight' = TRAVERSE_LEFT /\ ~gRight'
        /\ \A v \in {0, 1}, t \in Threads : ~ri'[v][t]
    BY DEF LRPowerFailure
  <2>3. QED
    BY <1>5, <2>1, <2>2 DEF Resting
<1>11. LRTypeOK'
  <2>1. Log!TypeOK'
    BY <1>8 DEF Log!RInv, Log!Control
  <2>2. QED
    BY <1>6, <1>9, <2>1, TypesAreNext
<1>12. QED
  BY <1>8, <1>10, <1>11, RestingNext

LEMMA LRRecoverLR ==
  ASSUME LRInv, LRRecover
  PROVE  LRInv'
<1>1. /\ th \in [Threads -> LRLocals] /\ LRTypeOK /\ Log!RInv /\ SideTypes
      /\ lock \in Threads \cup {Free}
  BY Holder DEF LRInv
<1>2. /\ machine # "up" /\ lock' = lock /\ th' = th
      /\ UNCHANGED <<leftRight, versionIndex, ri, gRight, side, localVI, since>>
  BY DEF LRRecover, Recover, RecoverCopy, RecoverNothing, RecoverIdle,
     Recovered, lrVars, sides
<1>3. Resting
  <2>1. \A t \in Threads : th[t].pc = "idle" /\ lock # t
    BY <1>2, Holder, HeldIs DEF LRInv
  <2>2. \A t \in Threads : th[t] = Local(th[t].k)
    BY <2>1 DEF LRInv, LocalState
  <2>3. Step = "free" /\ lock = Free
    BY <1>1, <2>1 DEF Step
  <2>4. leftRight = TRAVERSE_LEFT /\ ~gRight
    BY <1>1, <2>3 DEF LRInv, SidesState, SideTypes, Toggling, Changing
  <2>5. \A v \in {0, 1}, t \in Threads : ~ri[v][t]
    BY <2>1 DEF LRInv, IndicatorState
  <2>6. QED
    BY <2>1, <2>2, <2>3, <2>4, <2>5 DEF Resting
<1>4. Resting'
  BY <1>2, <1>3 DEF Resting
<1>5. LogThreads' = LogThreads
  BY <1>2 DEF LogThreads, LogThread
<1>6. Log!Recover
  <2>1. /\ Log!Mains = Mains /\ Log!Backs = Backs
    BY DEF Log!Mains, Mains, Log!Backs, Backs, Log!Main, Main, Log!Back, Back
  <2>2. Log!Surviving(nvm') = Surviving(nvm')
    BY SameMemory, SameEffect DEF Log!Surviving, Surviving, Log!Whole, Whole
  <2>3. Recovered => Log!Recovered
    BY <1>5, <2>2 DEF Recovered, Log!Recovered
  <2>4. RecoverNothing => Log!RecoverNothing
    BY <2>3, SameMemory DEF RecoverNothing, Log!RecoverNothing
  <2>5. RecoverIdle => Log!RecoverIdle
    BY <2>3, SameMemory, SameStores DEF RecoverIdle, Log!RecoverIdle
  <2>6. RecoverCopy => Log!RecoverCopy
    <3>1. /\ [l \in Log!Backs |-> Log!Now(nvm, Log!Main(l[2]))]
               = [l \in Backs |-> Now(nvm, Main(l[2]))]
          /\ [l \in Log!Mains |-> Log!Now(nvm, Log!Back(l[2]))]
               = [l \in Mains |-> Now(nvm, Back(l[2]))]
      BY <2>1, SameMemory
    <3>2. QED
      BY <1>5, <2>1, <3>1, SameMemory, SameStores DEF RecoverCopy,
         Log!RecoverCopy, history, Log!history
  <2>7. QED
    BY <2>4, <2>5, <2>6 DEF LRRecover, Recover, Log!Recover
<1>7. Log!RInv'
  BY <1>1, <1>6, LogAssumption, Log!RecoverCopyInv, Log!RecoverNothingInv,
     Log!RecoverIdleInv DEF Log!Recover
<1>8. LRTypeOK'
  <2>1. Log!TypeOK'
    BY <1>7 DEF Log!RInv, Log!Control
  <2>2. SideTypes'
    BY <1>1, <1>2 DEF SideTypes
  <2>3. QED
    BY <1>1, <1>2, <2>1, <2>2, TypesAreNext
<1>9. QED
  BY <1>4, <1>7, <1>8, RestingNext

LEMMA LRStutterLR ==
  ASSUME LRInv, UNCHANGED <<vars, lrVars>>
  PROVE  LRInv'
<1>1. /\ UNCHANGED <<memory, fc, lock, reading, th, machine, history>>
      /\ UNCHANGED <<nvm, ran, due, stale, spoilt>>
      /\ UNCHANGED <<leftRight, versionIndex, ri, gRight, side, localVI, since>>
  BY DEF vars, lrVars, sides, memory, history
<1>2. LogThreads' = LogThreads
  BY <1>1 DEF LogThreads, LogThread
<1>3. Log!RInv'
  <2>1. UNCHANGED Log!vars
    BY <1>1, <1>2 DEF Log!vars, Log!memory, Log!history, memory, history
  <2>2. QED
    BY <2>1, LogAssumption, Log!StutterInv DEF LRInv
<1>4. LRTypeOK'
  <2>1. Log!TypeOK'
    BY <1>3 DEF Log!RInv, Log!Control
  <2>2. SideTypes' /\ th' \in [Threads -> LRLocals]
    BY <1>1, Holder DEF LRInv, SideTypes
  <2>3. QED
    BY <2>1, <2>2, TypesAreNext
<1>5. /\ Step' = Step /\ \A n : BackIs(n)' <=> BackIs(n)
      /\ Log!Settled' = Log!Settled /\ \A n : Log!First(n)' = Log!First(n)
  BY <1>1, <1>2 DEF Step, BackIs, Effect, Back, Log!Settled, Log!First,
     Log!Updating, Log!pc
<1>6. LocalState' /\ SidesState' /\ IndicatorState'
  BY <1>1, <1>5 DEF LRInv, LocalState, SidesState, IndicatorState
<1>7. OldReaders' /\ SeenSide'
  BY <1>1, <1>5 DEF LRInv, OldReaders, Old, SeenSide, Back, Main
<1>8. SinceState' /\ SettledState'
  BY <1>1, <1>5 DEF LRInv, SinceState, SettledState
<1>9. QED
  BY <1>3, <1>4, <1>6, <1>7, <1>8 DEF LRInv

LEMMA LRInitLR == LRInit => LRInv
<1> SUFFICES ASSUME LRInit
             PROVE  LRInv
  OBVIOUS
<1>1. PICK k \in Nat : k = 0
  OBVIOUS
<1>2. PICK local \in LRLocals :
        local = Local(1) /\ local.pc = "idle" /\ local = Local(local.k)
  <2>1. Local(k + 1) \in LRLocals /\ Local(k + 1).pc = "idle"
        /\ Local(k + 1).k = k + 1
    BY LocalIs
  <2>2. k + 1 = 1
    BY <1>1
  <2>3. QED
    BY <2>1, <2>2
<1>3. /\ th = [t \in Threads |-> local] /\ th \in [Threads -> LRLocals]
      /\ \A t \in Threads : th[t] = local
  BY <1>2 DEF LRInit, Init
<1>4. LogThreads = th
  BY <1>2, <1>3 DEF LogThreads, LogThread, Reading, Toggling
<1>5. Log!Init
  <2>1. th = [t \in Log!Threads |-> Log!Local(1)]
    BY <1>2, <1>3, SameMemory, SameEffect
  <2>2. QED
    BY <1>4, <2>1, SameMemory DEF LRInit, Init, Log!Init
<1>6. Log!RInv
  BY <1>5, LogAssumption, Log!InitInv
<1>7. SideTypes
  <2>1. gRight = FALSE /\ gRight \in BOOLEAN
    BY Zenon DEF LRInit
  <2>2. QED
    BY <2>1 DEF LRInit, SideTypes, TRAVERSE_LEFT, TRAVERSE_RIGHT
<1>8. LRTypeOK
  <2>1. Log!TypeOK
    BY <1>6 DEF Log!RInv, Log!Control
  <2>2. QED
    BY <1>3, <1>7, <2>1, TypesAre
<1>9. Resting
  BY <1>2, <1>3 DEF LRInit, Init, Resting
<1>10. QED
  BY <1>6, <1>8, <1>9, RestingInv

(***************************************************************************)
(* The theorems.                                                           *)
(***************************************************************************)

\* Update transactions treat the memory as those of RomulusLog do, although
\* readers are not locked out; no replica changes while a reader is on it or
\* may still come to it; and readers are sent to a replica only when it has
\* every call that they, or others before them, were shown.
THEOREM LRInvariance == LRSpec => []LRInv
<1>1. LRInv /\ [LRNext]_<<vars, lrVars>> => LRInv'
  <2> SUFFICES ASSUME LRInv, [LRNext]_<<vars, lrVars>>
               PROVE  LRInv'
    OBVIOUS
  <2>1. CASE \E t \in Threads : LRRun(t)
    BY <2>1, LRUpdateLR, LRReadsLR DEF LRRun
  <2>2. CASE LRPowerFailure
    BY <2>2, LRPowerFailureLR
  <2>3. CASE LRRecover
    BY <2>3, LRRecoverLR
  <2>4. CASE Finished /\ UNCHANGED lrVars
    BY <2>4, LRStutterLR DEF Finished
  <2>5. CASE UNCHANGED <<vars, lrVars>>
    BY <2>5, LRStutterLR
  <2>6. QED
    BY <2>1, <2>2, <2>3, <2>4, <2>5 DEF LRNext
<1>2. QED
  BY <1>1, LRInitLR, PTL DEF LRSpec

\* The memory, the log and the slots stay what the code can read, the read
\* indicators and the sides of the readers too, and g_right is set whenever
\* readers are sent to the right (RomulusLR.hpp:604-621).
THEOREM LRTypeCorrect == LRSpec => []LRTypeOK
<1>1. LRInv => LRTypeOK
  BY DEF LRInv
<1>2. QED
  BY <1>1, LRInvariance, PTL

\* However long a reader pauses between versionIndex, its arrival and
\* leftRight, what it has read when it returns is the effect of the first n
\* calls, each whole, and n is not before any call that had returned, or been
\* seen, when it began (RomulusLR.hpp:298-310, 619-637, 675-684).
THEOREM RecentReaders == LRSpec => []ReadersSeeRecent
<1>1. LRInv => ReadersSeeRecent
  <2> SUFFICES ASSUME LRInv, NEW t \in Threads, At(t, "read"),
                      th[t].todo = {}, ~spoilt,
                      side[t] = TRAVERSE_RIGHT => stale = {}
               PROVE  \E n \in since[t] .. Len(ran) : th[t].seen = Effect(n)
    BY DEF ReadersSeeRecent
  <2>1. QED
    BY ReaderHas DEF At
<1>2. QED
  BY <1>1, LRInvariance, PTL

\* Whenever no update is on its way, and so after every recovery, the replicas
\* have the effect of the same whole calls, but for words of back that a
\* failure has left old, and all calls that a caller was told of or a reader
\* has seen are among them (RomulusLR.hpp:620, 635, 647).
THEOREM FailuresSurvived == LRSpec => []SurvivesFailures
<1>1. LRInv => SurvivesFailures
  <2> SUFFICES ASSUME LRInv
               PROVE  SurvivesFailures
    OBVIOUS
  <2>1. Log!RInv /\ Log!UpState
    BY DEF LRInv, Log!RInv
  <2>2. Log!ReplicasAreWhole
    BY <2>1, LogAssumption, Log!ReplicasWhole
  <2>3. ReplicasAreWhole
    BY <2>2, SameMemory, SameEffect
       DEF ReplicasAreWhole, Log!ReplicasAreWhole, Durable, Log!Durable
  <2>4. NothingIsLost
    BY <2>1 DEF Log!UpState, Log!Range, Range, NothingIsLost
  <2>5. QED
    BY <2>3, <2>4 DEF SurvivesFailures
<1>2. QED
  BY <1>1, LRInvariance, PTL
=============================================================================
