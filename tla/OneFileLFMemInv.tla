--------------------------- MODULE OneFileLFMemInv ---------------------------
(***************************************************************************)
(* The inductive invariant behind the safety of memory reclamation in      *)
(* OneFileLFMem.  It says of every object who can still touch it, and why  *)
(* the eras that these threads have published keep clean from freeing it.  *)
(***************************************************************************)
EXTENDS OneFileLFMem, OneFileLFInv

\* t's transaction has taken effect, and t is not through with its clean-up:
\* what it allocated is shared, and what it deleted is on its way to be freed.
Committed(t) == Owner(t) \/ pc[t] = "retire"

Elements(s) == {s[i] : i \in DOMAIN s}
Injective(s) == \A i, j \in DOMAIN s : s[i] = s[j] => i = j

\* The objects a program can get a pointer to during its attempt.
Sees(t) == Reachable(snap[t]) \cup alog[t]

Applies(t) == Owner(t) \/ Applying(t) \/ pc[t] = "close"
LogAddrs(t) == {log[t][i].addr : i \in DOMAIN log[t]}

\* The objects t may still load from or store to.
Touches(t) ==
  IF Attempting(t) THEN Sees(t)
  ELSE IF Applies(t) THEN LogAddrs(t) \cap Objs
  ELSE {}

\* The objects that will be freed on behalf of t.
Retired(t) == Elements(retired[t])
Doomed(t) == Retired(t) \cup (IF Committed(t) THEN Deleted(t) ELSE {})

\* Objects are as old as curTx says, and a thread that gets to touch some has
\* published the sequence of the transaction it has seen.
EraPublished(t) ==
  \/ pc[t] \in {"recheck", "chkCurTx", "rechkRequest"}
  \/ Attempting(t) \/ Applies(t)

EraState ==
  /\ curTx.seq >= 1
  /\ \A o \in Objs : 1 <= newEra[o] /\ newEra[o] <= curTx.seq
  /\ \A t \in Threads : EraPublished(t) => he[t] = myTx[t].seq

\* What a thread can touch is allocated; unless the thread allocated it, the
\* thread's era is not before its birth; and if it is waiting to be freed, not
\* after its death either.
TouchState ==
  \A t \in Threads : \A o \in Touches(t) :
    /\ o \in allocated
    /\ (Attempting(t) /\ o \in alog[t]) \/ newEra[o] <= he[t]
    /\ \A u \in Threads :
         o \in Retired(u) => newEra[o] <= he[t] /\ he[t] <= delEra[o]

\* clean has found out that the threads before cleanAt.it cannot touch the
\* object it is looking at.
ScanState ==
  \A u \in Threads :
    /\ cleanAt[u] # NotCleaning =>
         pc[u] = "retire" /\ rlog[u] = <<>> /\ cleanAt[u].iret >= 1
    /\ Cleaning(u) => \A t \in Threads :
                        t < cleanAt[u].it => Candidate(u) \notin Touches(t)

\* An object waits to be freed in one place, allocated and unreachable.
DoomedState ==
  /\ \A t \in Threads : Injective(retired[t]) /\ Injective(rlog[t])
  /\ \A t \in Threads : Committed(t) => Retired(t) \cap Deleted(t) = {}
  /\ \A t, u \in Threads : t # u => Doomed(t) \cap Doomed(u) = {}
  /\ \A t \in Threads : Doomed(t) \subseteq allocated \ Reachable(cmem)
  /\ \A t, u \in Threads : ~Committed(u) => Doomed(t) \cap alog[u] = {}

\* The words an open transaction writes may have been deleted by it, but by no
\* other one, and none of them is retired yet.
OpenLogState ==
  IsOpen => \A u \in Threads :
              LogAddrs(curTx.idx) \cap
                (IF u = curTx.idx THEN Retired(u) ELSE Doomed(u)) = {}

\* What a transaction that has not committed has taken with tmNew
\* (OneFileLF.hpp:544-558) is its own: an abort deletes it while nobody can
\* reach it, an attempt that still runs or helps does not store into it, and
\* no other thread's log of allocations has it (deleteAllocsFromLog, 444).
PrivateState ==
  /\ Reachable(cmem) \subseteq allocated
  /\ \A t \in Threads : ~Committed(t) =>
       /\ alog[t] \subseteq allocated \ Reachable(cmem)
       /\ \A u \in Threads : u # t => Touches(u) \cap alog[t] = {}
       /\ \A u \in Threads : u # t /\ ~Committed(u) => alog[u] \cap alog[t] = {}

\* From beginTx to the body nothing is allocated, deleted or known; the log is
\* empty once it has been reset.
Beginning(t) ==
  \/ pc[t] \in {"begin", "reset", "setEra", "recheck"}
  \/ InHelp(t) /\ ~Owner(t)

BeginState ==
  \A t \in Threads :
    /\ Beginning(t) => alog[t] = {} /\ rlog[t] = <<>> /\ known[t] = {}
    /\ pc[t] \in {"setEra", "recheck"} => log[t] = <<>>

\* A program stays within what it sees, and what it has deleted it has
\* unlinked.
ThreadProgram(t) ==
  /\ known[t] \subseteq Sees(t)
  /\ Deleted(t) \subseteq known[t]
  /\ ClosedIn(snap[t], Sees(t))
  /\ \A i \in DOMAIN log[t] : /\ log[t][i].addr \in Roots \cup Sees(t)
                              /\ log[t][i].val \in Sees(t) \cup {Null}
  /\ Deleted(t) \cap Reachable(Overlay(snap[t], log[t])) = {}

ProgramState == \A t \in Threads : Attempting(t) => ThreadProgram(t)

\* ReadState, for the words the program can get to: the others may be freed,
\* allocated again and written meanwhile.
SeenState ==
  \A t \in Threads : Attempting(t) => ThreadRead(t, Roots \cup Sees(t))

\* Readers may publish an era after the object they will reach by it has been
\* deleted, objects are freed while helpers sleep in helpApply, and addresses
\* are used again at once (OneFileLF.hpp:241-252, 446-455, 616-624): all the
\* same, whatever can be touched is kept.
MemInv ==
  /\ Core
  /\ MemTypeOK
  /\ EraState
  /\ TouchState
  /\ ScanState
  /\ DoomedState
  /\ OpenLogState
  /\ PrivateState
  /\ BeginState
  /\ ProgramState
  /\ SeenState
  /\ Opacity
=============================================================================
