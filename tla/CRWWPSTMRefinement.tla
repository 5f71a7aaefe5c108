------------------------- MODULE CRWWPSTMRefinement -------------------------
(***************************************************************************)
(* CRWWPSTM implements WaitFreeObject, as far as what its calls do goes: a *)
(* call takes effect when its function runs for the last time, with the    *)
(* writers' lock or as a reader.                                           *)
(***************************************************************************)
EXTENDS CRWWPSTM

PhaseOf(p) ==
  CASE st[p].pc = "idle" -> "idle"
    [] st[p].pc # "idle" /\ look[p] = 0 -> "called"
    [] OTHER -> IF Calls[p][st[p].k] = "write" THEN "done" ELSE "observed"

Object == INSTANCE WaitFreeObject WITH
  N <- Cardinality(Procs),
  state <- object,
  phase <- [p \in Procs |-> PhaseOf(p)],
  at <- [p \in Procs |-> st[p].k],
  res <- look,
  ret <- [p \in Procs |-> st[p].ret]

\* Every call takes effect once, in an instant between its call and its
\* return, and returns the result of that instant, whoever has run it
\* (CRWWPSTM.hpp:333-354, 420-433).
ImplementsObject == Object!Spec

(***************************************************************************)
(* The inductive invariant of the refinement.                              *)
(***************************************************************************)

\* Where only calls that read get to.
ReaderSteps == Steps \ (Held \cup {"idle", "lock", "checkDone"})

\* Nothing waits in slot i, or what does has been run and is about to be taken
\* out.
Ran(i) ==
  fc[i] = NoCall \/ \E c \in Procs : st[c].pc = "clear" /\ st[c].i = i

\* A thread that can find its slot empty finds the result of its own call, and
\* a call that changes the object and still waits has not been run.
Answers ==
  \A p \in Procs :
    /\ st[p].pc = "idle" => look[p] = 0 /\ ~st[p].announced
    /\ st[p].pc \in ReaderSteps => Calls[p][st[p].k] = "read"
    /\ st[p].pc \in {"spin", "checkRead"} => st[p].announced
    /\ st[p].pc = "unlock" => look[p] # 0 /\ results[tid[p]] = look[p]
    /\ Waiting(p) /\ st[p].pc # "withdraw" /\ Ran(tid[p]) =>
         look[p] # 0 /\ results[tid[p]] = look[p]
    /\ Waiting(p) /\ Calls[p][st[p].k] = "write" /\ ~Ran(tid[p]) =>
         look[p] = 0
    /\ st[p].pc \in {"withdraw", "leave"} =>
         look[p] # 0 /\ st[p].res = look[p]

RefInv == look \in [Procs -> Int] /\ Answers
=============================================================================
