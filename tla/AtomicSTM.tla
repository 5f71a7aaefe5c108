----------------------------- MODULE AtomicSTM -----------------------------
(***************************************************************************)
(* What OneFile promises its callers, with no word of how: a transaction   *)
(* works on a snapshot of the committed memory taken in one instant after  *)
(* its call began, sees its own stores over it, and either commits in one  *)
(* instant in which nothing else has committed since the snapshot, or      *)
(* starts over; it starts over only because somebody else did commit.      *)
(* Every attempt, also one that is going to start over, reads from one     *)
(* snapshot (opacity).                                                     *)
(***************************************************************************)
EXTENDS Naturals, Sequences

CONSTANTS
  Threads, \* the threads that run transactions
  Words,   \* the transactional words
  Vals,    \* the values a word can hold
  InitImage, \* what the words hold before the first transaction
  NoVal    \* not a value: nothing stored, nothing returned

VARIABLES
  cmem,    \* the committed memory
  version, \* how many transactions have published since the start
  phase,   \* where each thread is in its call of transaction()
  snap,    \* the snapshot of an attempt
  since,   \* the version of that snapshot
  wset,    \* the attempt's own stores, NoVal where there is none
  ret      \* the value a load hands to the program

avars == <<cmem, version, phase, snap, since, wset, ret>>

NoStores == [w \in Words |-> NoVal]

View(t, w) == IF wset[t][w] = NoVal THEN snap[t][w] ELSE wset[t][w]

Init ==
  /\ cmem = InitImage
  /\ version = 1
  /\ phase = [t \in Threads |-> "idle"]
  /\ snap = [t \in Threads |-> InitImage]
  /\ since = [t \in Threads |-> 0]
  /\ wset = [t \in Threads |-> NoStores]
  /\ ret = [t \in Threads |-> NoVal]

\* Forgets the attempt and moves on to the given phase.
Leave(t, next) ==
  /\ phase' = [phase EXCEPT ![t] = next]
  /\ snap' = [snap EXCEPT ![t] = InitImage]
  /\ since' = [since EXCEPT ![t] = 0]
  /\ wset' = [wset EXCEPT ![t] = NoStores]
  /\ ret' = [ret EXCEPT ![t] = NoVal]

Call(t) ==
  /\ phase[t] = "idle"
  /\ phase' = [phase EXCEPT ![t] = "starting"]
  /\ UNCHANGED <<cmem, version, snap, since, wset, ret>>

Snapshot(t) ==
  /\ phase[t] = "starting"
  /\ phase' = [phase EXCEPT ![t] = "active"]
  /\ snap' = [snap EXCEPT ![t] = cmem]
  /\ since' = [since EXCEPT ![t] = version]
  /\ UNCHANGED <<cmem, version, wset, ret>>

Load(t, w) ==
  /\ phase[t] = "active"
  /\ ret[t] = NoVal
  /\ ret' = [ret EXCEPT ![t] = View(t, w)]
  /\ UNCHANGED <<cmem, version, phase, snap, since, wset>>

LoadReturn(t) ==
  /\ ret[t] # NoVal
  /\ ret' = [ret EXCEPT ![t] = NoVal]
  /\ UNCHANGED <<cmem, version, phase, snap, since, wset>>

Store(t, w, v) ==
  /\ phase[t] = "active"
  /\ wset' = [wset EXCEPT ![t][w] = v]
  /\ UNCHANGED <<cmem, version, phase, snap, since, ret>>

\* An attempt gives up only if another transaction has published meanwhile.
Retry(t) ==
  /\ phase[t] = "active"
  /\ since[t] # version
  /\ Leave(t, "starting")
  /\ UNCHANGED <<cmem, version>>

\* A transaction without stores is over whenever it likes.
CommitReadOnly(t) ==
  /\ phase[t] = "active"
  /\ wset[t] = NoStores
  /\ Leave(t, "done")
  /\ UNCHANGED <<cmem, version>>

Commit(t) ==
  /\ phase[t] = "active"
  /\ since[t] = version
  /\ cmem' = [w \in Words |-> View(t, w)]
  /\ version' = version + 1
  /\ Leave(t, "done")

Return(t) ==
  /\ phase[t] = "done"
  /\ phase' = [phase EXCEPT ![t] = "idle"]
  /\ UNCHANGED <<cmem, version, snap, since, wset, ret>>

Next ==
  \E t \in Threads :
    \/ Call(t) \/ Snapshot(t) \/ LoadReturn(t) \/ Retry(t)
    \/ CommitReadOnly(t) \/ Commit(t) \/ Return(t)
    \/ \E w \in Words : Load(t, w) \/ \E v \in Vals : Store(t, w, v)

Spec == Init /\ [][Next]_avars
=============================================================================
