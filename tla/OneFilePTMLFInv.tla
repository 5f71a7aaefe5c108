-------------------------- MODULE OneFilePTMLFInv --------------------------
(***************************************************************************)
(* The inductive invariant behind the safety of OneFilePTMLF: of the       *)
(* engine what remains true when threads end anywhere and are replaced,    *)
(* and of each step of a commit what a failure could leave.                *)
(***************************************************************************)
EXTENDS OneFilePTMLF

HelpLabels ==
  {"chkRequest", "copy", "helpCurTx", "helpRequest", "apply", "dcas", "close"}
LogLabels == {"commit", "open", "persist", "cas"}
ReaderLabels == {"reset", "recheck", "runVal", "runSeq"} \cup LogLabels
Labels == HelpLabels \cup ReaderLabels \cup
            {"idle", "load", "pwbCurTx", "return"}

TransType == [seq : Nat, idx : Threads]
LogType == Seq([addr : Words \cup {NoWord}, val : Int])
LocalType ==
  [pc : Labels, k : Nat, myTx : TransType, helpTx : TransType,
   back : {"idle", "reset", "return"}, i : Nat,
   addr : Words \cup {NoWord}, val : Int, seq : Nat]

\* What a line can hold.
Contents(l) ==
  CASE l = CurTxLine -> TransType
    [] l \in Threads -> [request : TransType, plog : LogType]
    [] OTHER -> [val : Int, seq : Nat]

Memory(mem) ==
  /\ DOMAIN mem = Lines
  /\ \A l \in Lines : mem[l] \in Seq(Contents(l)) \ {<<>>}

\* Every variable has its type.
TypeOK ==
  /\ Memory(nvm)
  /\ DOMAIN pwb = Threads
  /\ \A t \in Threads : \A l \in DOMAIN pwb[t] :
       l \in Lines /\ pwb[t][l] \in Contents(l)
  /\ log \in [Threads -> LogType]
  /\ th \in [Threads -> LocalType]
  /\ commits \in Seq(Int) /\ Len(commits) = curTx.seq
  /\ restarts \in Nat

IsOpen == ~Closed

\* The transaction a thread is in helpApply for, or is about to be.
Serving(t) == th[t].pc \in HelpLabels \cup {"pwbCurTx"}
Served(t) == IF At(t, "pwbCurTx") THEN NewTx(t) ELSE th[t].helpTx

\* From the load of curTx to the compare-and-swap, myTx[t] is what the thread
\* starts from; from its end of helpApply on the thread relies on its being
\* closed.
Reading(t) == th[t].pc \in ReaderLabels
Begun(t) ==
  \/ Reading(t)
  \/ th[t].pc \in HelpLabels /\ th[t].back = "reset"

\* The transactions somebody still has to do with.
Known ==
  {curTx} \cup {Served(t) : t \in {u \in Threads : Serving(u)}}
          \cup {th[t].myTx : t \in {u \in Threads : Begun(u)}}

\* Those that have been superseded are older, and closed.
PastClosed ==
  \A c \in Known \ {curTx} : c.seq < curTx.seq /\ request(c.idx) # c

\* What a thread or a predecessor of it has published is not newer than what
\* the thread starts from: the request it is going to open is a new one.
OwnSeq ==
  \A u \in Threads : Begun(u) =>
    \A c \in Known : c.idx = u => c.seq <= th[u].myTx.seq

\* t helps with the last transaction, which is open.
Current(t) == Served(t) = curTx /\ IsOpen

Applied(t, w) == Now(nvm, w).seq >= th[t].helpTx.seq
EntryWord(t, k) == Order[((t * 8 + k) % Len(Order)) + 1]

\* The write-set of some transaction.
Complete(l) == l # <<>> /\ l = FullLog(l[1].val)

\* Whoever applies a log has that of the open transaction, or nothing to do.
\* When it comes to close the request, it has noted what all words have.
ThreadApply(t) ==
  /\ Complete(log[t])
  /\ IF Current(t) THEN log[t] = FullLog(Worth)
                   ELSE \A w \in Words : Applied(t, w)
  /\ th[t].i <= Len(Order)
  /\ \A k \in 0 .. th[t].i - 1 : Applied(t, EntryWord(t, k))
  /\ At(t, "dcas") =>
       /\ th[t].i < Len(Order)
       /\ th[t].seq < th[t].helpTx.seq
       /\ \/ Applied(t, EntryWord(t, th[t].i))
          \/ Now(nvm, EntryWord(t, th[t].i))
               = [val |-> th[t].val, seq |-> th[t].seq]
  /\ At(t, "close") =>
       /\ \A w \in Words : Applied(t, w)
       /\ Current(t) => \A w \in Words :
            w \in DOMAIN pwb[t] /\ pwb[t][w] = Now(nvm, w)

\* Whoever commits has opened its request, and noted the line of its log,
\* before it publishes.
ThreadCommit(t) ==
  /\ th[t].pc \in LogLabels => Complete(log[t])
  /\ th[t].pc \in {"persist", "cas"} => request(t) = NewTx(t)
  /\ At(t, "cas") => /\ Now(nvm, t).plog = log[t]
                     /\ t \in DOMAIN pwb[t] /\ pwb[t][t] = Now(nvm, t)

\* While the last transaction is open its owner, or who has its identifier
\* now, cannot do anything but close it, and its log is as it was.
ThreadOwns(t) ==
  IsOpen /\ curTx.idx = t =>
    /\ log[t] = FullLog(Worth)
    /\ \/ th[t].pc \in {"idle", "load"}
       \/ /\ th[t].pc \in {"pwbCurTx", "chkRequest", "apply", "dcas", "close"}
          /\ Served(t) = curTx

ThreadState(t) ==
  /\ th[t].pc \in HelpLabels =>
       /\ th[t].back # "idle"
       /\ th[t].back = "reset" => th[t].myTx = th[t].helpTx
  /\ th[t].pc \notin {"apply", "dcas", "close"} => th[t].i = 0
  /\ Reading(t) /\ th[t].myTx = curTx => Closed
  /\ th[t].pc \in {"helpCurTx", "helpRequest"} /\ Current(t) =>
       log[t] = FullLog(Worth)
  /\ th[t].pc \in {"apply", "dcas", "close"} => ThreadApply(t)
  /\ ThreadCommit(t)
  /\ ThreadOwns(t)

\* No word is newer than curTx, and one that is as new has its final value.
MemoryState ==
  \A w \in Words :
    /\ Now(nvm, w).seq <= curTx.seq
    /\ IsOpen /\ Now(nvm, w).seq = curTx.seq => Now(nvm, w).val = Worth

PInv ==
  /\ TypeOK
  /\ PastClosed
  /\ OwnSeq
  /\ \A t \in Threads : ThreadState(t)
  /\ MemoryState
  /\ ClosedIsPersistent
  /\ OpenLogIsPersistent
=============================================================================
