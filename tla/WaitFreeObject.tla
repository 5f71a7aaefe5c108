--------------------------- MODULE WaitFreeObject ---------------------------
(***************************************************************************)
(* What the wait-free OneFile promises its callers: every call of updateTx *)
(* takes effect exactly once, in one instant between its call and its      *)
(* return, and returns the result of that instant.  The calls of several   *)
(* threads may take effect together, one after the other in one step.      *)
(*                                                                         *)
(* The object is the sequence of the calls that have changed it, and a     *)
(* call returns the place it found, so that a call that is lost, repeated, *)
(* seen half done, or answered with another's result shows.                *)
(***************************************************************************)
EXTENDS Naturals, Sequences, SequencesExt, FiniteSets

CONSTANTS
  N,      \* threads 0 .. N-1
  Calls   \* Calls[t]: the calls of thread t in order, "write" or "read"

VARIABLES
  state,  \* the object
  phase,  \* where each thread is in its call
  at,     \* which of its calls that is
  res,    \* the result of a call that has taken effect
  ret     \* what the last call of each thread returned

avars == <<state, phase, at, res, ret>>

Init ==
  /\ state = <<>>
  /\ phase = [t \in 0 .. N-1 |-> "idle"]
  /\ at = [t \in 0 .. N-1 |-> 1]
  /\ res = [t \in 0 .. N-1 |-> 0]
  /\ ret = [t \in 0 .. N-1 |-> 0]

Writes(t) == Calls[t][at[t]] = "write"

Call(t) ==
  /\ phase[t] = "idle"
  /\ at[t] <= Len(Calls[t])
  /\ phase' = [phase EXCEPT ![t] = "called"]
  /\ UNCHANGED <<state, at, res, ret>>

\* A call that only reads may look more than once; its last look counts.
Observe(t) ==
  /\ phase[t] \in {"called", "observed"}
  /\ ~Writes(t)
  /\ phase' = [phase EXCEPT ![t] = "observed"]
  /\ res' = [res EXCEPT ![t] = Len(state) + 1]
  /\ UNCHANGED <<state, at, ret>>

Open == {t \in 0 .. N-1 : phase[t] \in {"called", "observed"}}

\* The calls of the threads in S take effect in one step: those that write in
\* some order, each of the others somewhere between them.  found says how many
\* of the writes a call comes after.
Execute(S) ==
  LET writers == {t \in S : Writes(t)}
  IN  \E order \in SetToSeqs(writers),
         found \in [S -> 0 .. Cardinality(writers)] :
        /\ \A i \in DOMAIN order : found[order[i]] = i - 1
        /\ state' = state \o [i \in DOMAIN order |-> <<order[i], at[order[i]]>>]
        /\ phase' = [t \in 0 .. N-1 |-> IF t \in S THEN "done" ELSE phase[t]]
        /\ res' = [t \in 0 .. N-1 |->
                     IF t \in S THEN Len(state) + found[t] + 1 ELSE res[t]]
        /\ UNCHANGED <<at, ret>>

Return(t) ==
  /\ phase[t] \in {"done", "observed"}
  /\ phase' = [phase EXCEPT ![t] = "idle"]
  /\ at' = [at EXCEPT ![t] = @ + 1]
  /\ ret' = [ret EXCEPT ![t] = res[t]]
  /\ res' = [res EXCEPT ![t] = 0]
  /\ UNCHANGED state

Next ==
  \/ \E t \in 0 .. N-1 : Call(t) \/ Observe(t) \/ Return(t)
  \/ \E S \in SUBSET Open : Execute(S)

Spec == Init /\ [][Next]_avars
=============================================================================
