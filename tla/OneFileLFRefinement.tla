------------------------- MODULE OneFileLFRefinement -------------------------
(***************************************************************************)
(* OneFileLF implements AtomicSTM.  A transaction takes effect when curTx  *)
(* moves to it; its snapshot is what the transactions up to myopd.curTx    *)
(* left, and holds from the moment beginTx finds curTx unchanged.          *)
(***************************************************************************)
EXTENDS OneFileLF

CONSTANT NoVal
ASSUME RefinementAssumption == NoVal \notin Vals

Active(t) == pc[t] \in ActiveLabels

PhaseOf(t) == CASE pc[t] = "idle" -> "idle"
                [] Active(t) -> "active"
                [] Published(t) -> "done"
                [] OTHER -> "starting"

SnapOf(t) == IF Active(t) THEN snap[t] ELSE InitImage

SinceOf(t) == IF Active(t) THEN myTx[t].seq ELSE 0

StoresOf(t) ==
  [w \in Words |-> IF Active(t) THEN LookupAddr(log[t], w, NoVal) ELSE NoVal]

RetOf(t) == IF pc[t] = "loaded" THEN lval[t] ELSE NoVal

Abs == INSTANCE AtomicSTM WITH
  version <- curTx.seq,
  phase <- [t \in Threads |-> PhaseOf(t)],
  snap <- [t \in Threads |-> SnapOf(t)],
  since <- [t \in Threads |-> SinceOf(t)],
  wset <- [t \in Threads |-> StoresOf(t)],
  ret <- [t \in Threads |-> RetOf(t)]

\* The lock-free STM is an atomic STM: every transaction, however its steps
\* and those of its helpers interleave with others, behaves as one step on the
\* committed memory; an attempt is repeated only if another transaction was
\* published meanwhile (OneFileLF.hpp:438-441, 461-482, 733-741).
ImplementsAtomicSTM == Abs!Spec
=============================================================================
