----------------------------- MODULE RomulusLog -----------------------------
(***************************************************************************)
(* RomulusLog (ptms/romuluslog): transactions on persistent memory by two  *)
(* replicas, main and back, and a state that says which of them is whole.  *)
(* Update transactions are announced, and the one thread that has the      *)
(* writer side of a C-RW-WP lock (ptms/rwlocks/CRWWP_SpinLock.hpp) runs    *)
(* all it finds, logs where they store, writes those words back, and       *)
(* copies them from main to back.  Readers read main under the lock.       *)
(*                                                                         *)
(* One action per access another thread can see.  What lies between two    *)
(* fences of the combiner and is seen by no thread is one step, since a    *)
(* power failure after it can leave whatever one in the midst could.       *)
(*                                                                         *)
(* Words are on lines of main of their own, which the log has as entries.  *)
(* Back is displaced against the lines by g_main_size, no multiple of 64,  *)
(* so that an entry is spread over two lines there; and flush_range, which *)
(* goes 64 bytes at a time from the first one, meets the first line only.  *)
(*                                                                         *)
(* Threads are registered; nested transactions and abort_transaction are   *)
(* left out.                                                               *)
(***************************************************************************)
EXTENDS PersistentMemory

CONSTANTS
  N,           \* threads 0 .. N-1, as getMaxThreads counts them
  Words,       \* the words of the program, all below used_size
  Calls,       \* Calls[t]: for each call the words it stores, {} to read
  LogLimit,    \* used_size/4, in words
  Meets,       \* Meets[w]: the words in the line of back in which w's entry
               \* begins: w if it is at the head of its line, and the tail of
               \* the line before
  MaxRestarts  \* bound: power failures

Threads == 0 .. N-1

ASSUME RomulusAssumption ==
  /\ N \in Nat \ {0}
  /\ \A t \in Threads : Calls[t] \in Seq(SUBSET Words)
  /\ LogLimit \in Nat /\ MaxRestarts \in Nat
  /\ Meets \in [Words -> SUBSET Words]

\* The lines of persistent memory.
State == <<"state">>
Main(w) == <<"main", w>>
Back(w) == <<"back", w>>
Mains == {Main(w) : w \in Words}
Backs == {Back(w) : w \in Words}
Lines == {State} \cup Mains \cup Backs

VARIABLES
  nvm,         \* persistent memory
  pwb,         \* what the owner of the lock has written back, not fenced
  fc,          \* fc[t]: the call thread t announces, or 0
  lock,        \* splock: its owner or Free
  reading,     \* ri: which threads are READING
  log,         \* the words logged, in order
  logEnabled,
  th,          \* the rest of each thread
  machine,     \* "up", or where recover() is
  ran,         \* history: the update calls run, in order
  due,         \* history: those whose effect a caller has seen
  overflowed,  \* history: the log has been skipped
  behind,      \* history: words not written back in back when last copied
  stale,       \* history: those that a power failure may have left old
  spoilt,      \* history: a power failure has found main or back unusable
  restarts     \* history: power failures

memory == <<nvm, pwb, log, logEnabled>>
history == <<ran, due, overflowed, behind, stale, spoilt, restarts>>
vars == <<memory, fc, lock, reading, th, machine, history>>

Free == -1

\* k is the number of the thread's call, i the slot a loop is at, lfc the
\* calls collected, todo the words a function has still to store or load, in
\* any order, seen what a reader has read.
Local(k) == [pc |-> "idle", k |-> k, i |-> 0, lfc |-> [t \in Threads |-> 0],
             todo |-> {}, seen |-> [w \in Words |-> {}]]

\* A word is worth the calls that have stored it, with their numbers in ran.
Init ==
  /\ nvm = [l \in Lines |->
              IF l = State THEN <<"IDLE">> ELSE <<{}>>]
  /\ pwb = <<>>
  /\ fc = [t \in Threads |-> 0]
  /\ lock = Free
  /\ reading = [t \in Threads |-> FALSE]
  /\ log = <<>>
  /\ logEnabled = TRUE
  /\ th = [t \in Threads |-> Local(1)]
  /\ machine = "up"
  /\ ran = <<>>
  /\ due = {}
  /\ overflowed = FALSE
  /\ behind = {}
  /\ stale = {}
  /\ spoilt = FALSE
  /\ restarts = 0

(* Definitions whose comment says "Mutant" are no part of the model.       *)

At(t, label) == machine = "up" /\ th[t].pc = label

Go(t, from, to, local) ==
  /\ At(t, from)
  /\ th' = [th EXCEPT ![t] = [local EXCEPT !.pc = to]]
  /\ UNCHANGED machine

Goto(t, from, to) == Go(t, from, to, th[t])

\* A loop begins, or goes on with the next slot.
Slot(t, i) == [th[t] EXCEPT !.i = i]

Call(t) == Calls[t][th[t].k]
HasCall(t) == th[t].k <= Len(Calls[t])

\* The call of a thread returns; what it has done or seen must last.
Return(t, from, seen) ==
  /\ At(t, from)
  /\ th' = [th EXCEPT ![t] = Local(@.k + 1)]
  /\ due' = due \cup seen
  /\ UNCHANGED <<machine, ran, overflowed, behind, stale, spoilt, restarts>>

Own(t) == {<<t, th[t].k>>}

(***************************************************************************)
(* ns_write_transaction: announce, become the combiner or be answered.     *)
(***************************************************************************)

WriteTransaction(t) ==
  /\ HasCall(t) /\ Call(t) # {}
  /\ Goto(t, "idle", "tryLock")
  /\ fc' = [fc EXCEPT ![t] = th[t].k]
  /\ UNCHANGED <<memory, lock, reading, history>>

TryExclusiveLock(t) ==
  /\ At(t, "tryLock")
  /\ \/ lock = Free /\ lock' = t /\ Goto(t, "tryLock", "collect")
     \/ lock # Free /\ lock' = lock /\ Goto(t, "tryLock", "checkDone")
  /\ UNCHANGED <<memory, fc, reading, history>>

CheckDone(t) ==
  \/ /\ fc[t] = 0
     /\ Return(t, "checkDone", Own(t))
     /\ UNCHANGED <<memory, fc, lock, reading>>
  \/ /\ fc[t] # 0
     /\ Goto(t, "checkDone", "tryLock")
     /\ UNCHANGED <<memory, fc, lock, reading, history>>

Collect(t) ==
  /\ th[t].i < N
  /\ Go(t, "collect", "collect",
        [th[t] EXCEPT !.lfc = [@ EXCEPT ![th[t].i] = fc[th[t].i]],
                      !.i = @ + 1])
  /\ UNCHANGED <<memory, fc, lock, reading, history>>

Collected(t) == {u \in Threads : th[t].lfc[u] # 0}

ExclusiveUnlock(t) ==
  /\ \/ At(t, "unlock")
     \/ At(t, "collect") /\ th[t].i = N /\ Collected(t) = {}
  /\ lock' = Free
  /\ Return(t, th[t].pc, Own(t))
  /\ UNCHANGED <<memory, fc, reading>>

(***************************************************************************)
(* The combiner runs what it has collected, with readers kept out.         *)
(***************************************************************************)

\* Stores of the combiner, which then writes some lines back.
StoreAll(new) ==
  [l \in DOMAIN nvm |->
     IF l \in DOMAIN new THEN Stored(nvm, l, new[l])[l] ELSE nvm[l]]

\* Mutant: no fence between the state and the stores of the functions.
StoreMutating(t) ==
  /\ th[t].i = N /\ Collected(t) # {}
  /\ Go(t, "collect", "wait", Slot(t, 0))
  /\ nvm' = Stored(nvm, State, "MUTATING")
  /\ pwb' = WrittenBack(pwb, nvm', {State})
  /\ UNCHANGED <<log, logEnabled, fc, lock, reading, history>>

SetMutating(t) ==
  /\ th[t].i = N /\ Collected(t) # {}
  /\ Go(t, "collect", "wait", Slot(t, 0))
  /\ LET stored == Stored(nvm, State, "MUTATING")
     IN  nvm' = Fenced(stored, WrittenBack(pwb, stored, {State}))
  /\ pwb' = <<>>
  /\ UNCHANGED <<log, logEnabled, fc, lock, reading, history>>

\* Mutant: readers that have arrived are not waited for.
WaitForNobody(t) ==
  /\ Go(t, "wait", "run", Slot(t, 0))
  /\ UNCHANGED <<memory, fc, lock, reading, history>>

\* The scan of isEmpty, from the start again when it meets a reader.
WaitForReaders(t) ==
  /\ At(t, "wait")
  /\ \/ /\ th[t].i < N
        /\ Go(t, "wait", "wait",
              Slot(t, IF reading[th[t].i] THEN 0 ELSE th[t].i + 1))
     \/ th[t].i = N /\ Go(t, "wait", "run", Slot(t, 0))
  /\ UNCHANGED <<memory, fc, lock, reading, history>>

Running(t) == <<th[t].i, th[t].lfc[th[t].i]>>
Stores(call) == Calls[call[1]][call[2]]

RunFunction(t) ==
  /\ At(t, "run")
  /\ th[t].i < N
  /\ \/ /\ th[t].i \notin Collected(t)
        /\ Go(t, "run", "run", Slot(t, th[t].i + 1))
        /\ UNCHANGED history
     \/ /\ th[t].i \in Collected(t)
        /\ Go(t, "run", "store", [th[t] EXCEPT !.todo = Stores(Running(t))])
        /\ ran' = Append(ran, Running(t))
        /\ UNCHANGED <<due, overflowed, behind, stale, spoilt, restarts>>
  /\ UNCHANGED <<memory, fc, lock, reading>>

\* add_to_log.
Skipped == logEnabled /\ Len(log) > LogLimit

\* The code looks for the line among the last 16 entries.
Logged(w) ==
  IF logEnabled /\ ~Skipped /\ w \notin Range(log) THEN Append(log, w) ELSE log

\* pstore of what a load has given, and after the last one the next function.
StoreAfter(t, w, loaded) ==
  /\ w \in th[t].todo
  /\ LET rest == th[t].todo \ {w}
         stored == loaded \cup {<<Len(ran), Running(t)>>}
     IN  /\ IF rest = {}
            THEN Go(t, "store", "run",
                    [th[t] EXCEPT !.todo = rest, !.i = @ + 1])
            ELSE Go(t, "store", "store", [th[t] EXCEPT !.todo = rest])
         /\ nvm' = Stored(nvm, Main(w), stored)
         /\ log' = Logged(w)
  /\ logEnabled' = (logEnabled /\ ~Skipped)
  /\ overflowed' = (overflowed \/ Skipped)
  /\ UNCHANGED <<pwb, fc, lock, reading, ran, due, behind, stale, spoilt,
                 restarts>>

PStore(t) == \E w \in Words : StoreAfter(t, w, Now(nvm, Main(w)))

\* apply_pwb(main_addr); PFENCE; state = COPYING; PWB.
SetCopying(t) ==
  /\ th[t].i = N
  /\ Go(t, "run", "psync", Slot(t, 0))
  /\ LET flushed == WrittenBack(pwb, nvm, {Main(w) : w \in Range(log)})
     IN  nvm' = Stored(Fenced(nvm, flushed), State, "COPYING")
  /\ pwb' = WrittenBack(<<>>, nvm', {State})
  /\ UNCHANGED <<log, logEnabled, fc, lock, reading, history>>

\* Mutant: the callers are answered before the state is durable.
SkipPSync(t) ==
  /\ Goto(t, "psync", "answer")
  /\ UNCHANGED <<memory, fc, lock, reading, history>>

Synced(t, to) ==
  /\ Goto(t, "psync", to)
  /\ nvm' = Fenced(nvm, pwb)
  /\ pwb' = <<>>
  /\ UNCHANGED <<log, logEnabled, fc, lock, reading, history>>

PSync(t) == Synced(t, "answer")

\* Mutant: only the combiner's own entry is taken back.
AnswerSelf(t) ==
  /\ At(t, "answer")
  /\ \/ th[t].i < N /\ Go(t, "answer", "answer", Slot(t, th[t].i + 1))
     \/ th[t].i = N /\ Go(t, "answer", "copy", Slot(t, 0))
  /\ fc' = IF th[t].i = t THEN [fc EXCEPT ![t] = 0] ELSE fc
  /\ UNCHANGED <<memory, lock, reading, history>>

Answer(t) ==
  /\ At(t, "answer")
  /\ \/ th[t].i < N /\ Go(t, "answer", "answer", Slot(t, th[t].i + 1))
     \/ th[t].i = N /\ Go(t, "answer", "copy", Slot(t, 0))
  /\ fc' = IF th[t].i \in Collected(t) THEN [fc EXCEPT ![th[t].i] = 0] ELSE fc
  /\ UNCHANGED <<memory, lock, reading, history>>

Copied == IF logEnabled THEN Range(log) ELSE Words

\* flush_range, of each entry or of all that is used.
Flushed == IF logEnabled THEN UNION {Meets[w] : w \in Range(log)} ELSE Words

\* apply_log and apply_pwb(back_addr), or copyMainToBack; clear_log.
CopyToBack(t) ==
  /\ Goto(t, "copy", "setIdle")
  /\ nvm' = StoreAll([l \in {Back(w) : w \in Copied} |->
                        Now(nvm, Main(l[2]))])
  /\ pwb' = WrittenBack(pwb, nvm', {Back(w) : w \in Flushed})
  /\ log' = <<>>
  /\ logEnabled' = TRUE
  /\ behind' = (behind \ Copied) \cup (Copied \ Flushed)
  /\ stale' = stale \ Copied
  /\ UNCHANGED <<fc, lock, reading, ran, due, overflowed, spoilt, restarts>>

\* Mutant: no fence between the copy and the state.
SetIdleUnfenced(t) ==
  /\ Goto(t, "setIdle", "unlock")
  /\ nvm' = Stored(nvm, State, "IDLE")
  /\ pwb' = <<>>
  /\ UNCHANGED <<log, logEnabled, fc, lock, reading, history>>

\* PFENCE; state = IDLE, not written back.
SetIdle(t) ==
  /\ Goto(t, "setIdle", "unlock")
  /\ nvm' = Stored(Fenced(nvm, pwb), State, "IDLE")
  /\ pwb' = <<>>
  /\ UNCHANGED <<log, logEnabled, fc, lock, reading, history>>

(***************************************************************************)
(* ns_read_transaction, sharedLock and sharedUnlock.                       *)
(***************************************************************************)

ReadTransaction(t) ==
  /\ HasCall(t) /\ Call(t) = {}
  /\ Goto(t, "idle", "arrive")
  /\ UNCHANGED <<memory, fc, lock, reading, history>>

Arrive(t) ==
  /\ Goto(t, "arrive", "isLocked")
  /\ reading' = [reading EXCEPT ![t] = TRUE]
  /\ UNCHANGED <<memory, fc, lock, history>>

IsLocked(t) ==
  /\ At(t, "isLocked")
  /\ \/ lock = Free /\ Go(t, "isLocked", "read",
                            [th[t] EXCEPT !.todo = Words])
     \/ lock # Free /\ Goto(t, "isLocked", "depart")
  /\ UNCHANGED <<memory, fc, lock, reading, history>>

\* Mutant: a reader stays READING while it waits for the lock.
StayReading(t) ==
  /\ Goto(t, "depart", "spin")
  /\ UNCHANGED <<memory, fc, lock, reading, history>>

Depart(t) ==
  /\ Goto(t, "depart", "spin")
  /\ reading' = [reading EXCEPT ![t] = FALSE]
  /\ UNCHANGED <<memory, fc, lock, history>>

Spin(t) ==
  /\ lock = Free
  /\ Goto(t, "spin", "arrive")
  /\ UNCHANGED <<memory, fc, lock, reading, history>>

\* The function of the reader loads a word.
Load(t, w, loaded) ==
  /\ w \in th[t].todo
  /\ Go(t, "read", "read",
        [th[t] EXCEPT !.todo = @ \ {w}, !.seen = [@ EXCEPT ![w] = loaded]])
  /\ UNCHANGED <<memory, fc, lock, reading, history>>

Read(t) == \E w \in Words : Load(t, w, Now(nvm, Main(w)))

Effective(values) == UNION {{c[2] : c \in values[w]} : w \in Words}

HasRead(t) ==
  /\ th[t].todo = {}
  /\ Return(t, "read", Effective(th[t].seen))

SharedUnlock(t) ==
  /\ HasRead(t)
  /\ reading' = [reading EXCEPT ![t] = FALSE]
  /\ UNCHANGED <<memory, fc, lock>>

(***************************************************************************)
(* A power failure, and recover().                                         *)
(***************************************************************************)

\* Whoever is in a call when the power fails, goes on with its next one.
PowerFailure(kept) ==
  /\ restarts < MaxRestarts
  /\ nvm' = AfterFailure(nvm, kept)
  /\ pwb' = <<>>
  /\ fc' = [t \in Threads |-> 0]
  /\ lock' = Free
  /\ reading' = [t \in Threads |-> FALSE]
  /\ log' = <<>>
  /\ logEnabled' = TRUE
  /\ th' = [t \in Threads |->
              Local(IF th[t].pc = "idle" THEN th[t].k ELSE th[t].k + 1)]
  /\ machine' = "recover"
  /\ restarts' = restarts + 1
  /\ stale' = behind
  /\ spoilt' = (\/ spoilt \/ overflowed
                \/ behind # {} /\ Now(nvm', State) = "MUTATING")
  /\ UNCHANGED <<ran, due, overflowed, behind>>

\* history: what the words are worth after the first n calls, and how many of
\* them have survived.
Effect(n) ==
  [w \in Words |->
     {<<m, ran[m]>> : m \in {m \in 1 .. n : w \in Stores(ran[m])}}]

Whole(mem, n) == \A w \in Words : Now(mem, Main(w)) = Effect(n)[w]

Surviving(mem) ==
  IF \E n \in 0 .. Len(ran) : Whole(mem, n)
  THEN SubSeq(ran, 1, CHOOSE n \in 0 .. Len(ran) : Whole(mem, n))
  ELSE <<>>

Recovered ==
  /\ machine' = "up"
  /\ ran' = Surviving(nvm')
  /\ UNCHANGED <<log, logEnabled, fc, lock, reading, th, due, overflowed,
                 behind, stale, spoilt, restarts>>

RecoverCopy ==
  /\ machine = "recover"
  /\ \/ /\ Now(nvm, State) = "COPYING"
        /\ nvm' = StoreAll([l \in Backs |-> Now(nvm, Main(l[2]))])
        /\ pwb' = WrittenBack(pwb, nvm', Backs)
     \/ /\ Now(nvm, State) = "MUTATING"
        /\ nvm' = StoreAll([l \in Mains |-> Now(nvm, Back(l[2]))])
        /\ pwb' = WrittenBack(pwb, nvm', Mains)
  /\ machine' = "fence"
  /\ behind' = {}
  /\ stale' = {}
  /\ UNCHANGED <<log, logEnabled, fc, lock, reading, th, ran, due, overflowed,
                 spoilt, restarts>>

RecoverNothing ==
  /\ machine = "recover" /\ Now(nvm, State) = "IDLE"
  /\ UNCHANGED <<nvm, pwb>>
  /\ Recovered

RecoverIdle ==
  /\ machine = "fence"
  /\ nvm' = Stored(Fenced(nvm, pwb), State, "IDLE")
  /\ pwb' = <<>>
  /\ Recovered

Recover == RecoverCopy \/ RecoverNothing \/ RecoverIdle

Update(t) ==
  \/ WriteTransaction(t) \/ TryExclusiveLock(t) \/ CheckDone(t)
  \/ Collect(t) \/ SetMutating(t) \/ WaitForReaders(t) \/ RunFunction(t)
  \/ PStore(t) \/ SetCopying(t) \/ PSync(t) \/ Answer(t) \/ CopyToBack(t)
  \/ SetIdle(t) \/ ExclusiveUnlock(t)

Reads(t) ==
  \/ ReadTransaction(t) \/ Arrive(t) \/ IsLocked(t) \/ Depart(t) \/ Spin(t)
  \/ Read(t) \/ SharedUnlock(t)

Run(t) == Update(t) \/ Reads(t)

Finished ==
  /\ \A t \in Threads : At(t, "idle") /\ ~HasCall(t)
  /\ UNCHANGED vars

Next ==
  \/ \E t \in Threads : Run(t)
  \/ \E kept \in Failures(nvm) : PowerFailure(kept)
  \/ Recover
  \/ Finished

Spec == Init /\ [][Next]_vars

\* Threads are scheduled and a restarted program recovers.
FairSpec ==
  Spec /\ WF_vars(Recover) /\ \A t \in Threads : WF_vars(Run(t))

(***************************************************************************)
(* Properties.  Those about the memory are void when spoilt: the log had   *)
(* been skipped before a failure (see CopyingMeansPersisted), or a failure *)
(* left the state MUTATING, in which recover() copies back over main, and  *)
(* words of back had not been written back (see AnsweredMeansDurable).     *)
(***************************************************************************)

\* Only one content is possible for a line.
Durable(l) == Len(nvm[l]) = 1

Stamps == Nat \X (Threads \X Nat)
Contents(l) ==
  IF l = State THEN {"IDLE", "MUTATING", "COPYING"} ELSE SUBSET Stamps

LocalTypes(labels) ==
  [pc : labels, k : Nat \ {0}, i : 0 .. N, lfc : [Threads -> Nat],
   todo : SUBSET Words, seen : [Words -> SUBSET Stamps]]

\* The variables, when the threads are at these labels.
Types(labels) ==
  /\ DOMAIN nvm = Lines
  /\ \A l \in Lines : nvm[l] \in Seq(Contents(l)) \ {<<>>}
  /\ DOMAIN pwb \subseteq Lines
  /\ fc \in [Threads -> Nat]
  /\ lock \in Threads \cup {Free}
  /\ reading \in [Threads -> BOOLEAN]
  /\ log \in Seq(Words) /\ IsInjective(log)
  /\ logEnabled \in BOOLEAN
  /\ machine \in {"up", "recover", "fence"}
  /\ th \in [Threads -> LocalTypes(labels)]
  /\ ran \in Seq(Threads \X Nat)
  /\ due \subseteq Threads \X Nat
  /\ overflowed \in BOOLEAN /\ spoilt \in BOOLEAN
  /\ stale \subseteq behind /\ behind \subseteq Words
  /\ restarts \in Nat

WriterLabels == {"collect", "wait", "run", "store", "psync", "answer", "copy",
                 "setIdle", "unlock"}
UpdateLabels == {"tryLock", "checkDone"} \cup WriterLabels
ReaderLabels == {"arrive", "isLocked", "read", "depart", "spin"}
Labels == {"idle"} \cup UpdateLabels \cup ReaderLabels

TypeOK == Types(Labels)

\* Whenever no update transaction is on its way, and so after each recovery,
\* main has the effect of some calls, each of them in all the words it stores
\* and in the same order, and back is the same, but for words that had not been
\* written back when the power failed; and only those of back can be lost yet
\* (RomulusLog.hpp:439-460, RomulusLog.cpp:203-220).
ReplicasAreWhole ==
  machine = "up" /\ lock = Free /\ ~spoilt =>
    \A w \in Words :
      /\ Now(nvm, Main(w)) = Effect(Len(ran))[w]
      /\ w \notin stale => Now(nvm, Back(w)) = Effect(Len(ran))[w]
      /\ ~overflowed /\ w \notin behind => Durable(Back(w))

\* ... and none of the calls that have returned, or that a reader has seen, is
\* missing in it (RomulusLog.hpp:443-449).
NothingIsLost == machine = "up" /\ ~spoilt => due \subseteq Range(ran)

\* A read transaction sees all of each call or nothing, although its arrival
\* and the combiner's look at the readers are apart (CRWWP_SpinLock.hpp:147-162,
\* RomulusLog.hpp:431).
ReadersSeeWhole ==
  \A t \in Threads :
    At(t, "read") /\ th[t].todo = {} /\ ~spoilt => th[t].seen = Effect(Len(ran))

\* The combiner runs a function, which is on the stack of its caller, while
\* that caller waits, and never a second time (RomulusLog.hpp:400-409,
\* 415-418, 435-449).
RunsLiveFunctionsOnce ==
  /\ \A t \in Threads :
       At(t, "store") => Running(t)[2] = th[Running(t)[1]].k
  /\ IsInjective(ran)

\* Every call returns: whoever fails to get the lock is answered or gets it
\* later, and readers are let in ("Blocking (starvation-free)",
\* RomulusLog.hpp:392).
CallsReturn ==
  \A t \in Threads : <>[](At(t, "idle") /\ ~HasCall(t))

\* "After changing changing state to COPYING all applied mutativeFunc are
\* visible and persisted" (RomulusLog.hpp:445).
CopyingMeansPersisted ==
  \A t \in Threads : At(t, "answer") =>
    \A w \in Words : nvm[Main(w)] = <<Effect(Len(ran))[w]>>

\* "PSYNC() here to have ACID Durability on the mutations" before the callers
\* are answered (RomulusLog.hpp:443).
AnsweredMeansDurable == machine = "up" => due \subseteq Range(ran)
=============================================================================
