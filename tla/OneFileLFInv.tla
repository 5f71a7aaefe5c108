---------------------------- MODULE OneFileLFInv ----------------------------
(***************************************************************************)
(* The inductive invariant behind the safety properties of OneFileLF.      *)
(***************************************************************************)
EXTENDS OneFileLF

\* Past helpApply of beginTx, up to the compare-and-swap on curTx: these
\* threads rely on the transaction myTx[t] being closed.
ReaderLabels == {"reset", "setEra", "recheck"} \cup ActiveLabels

InHelp(t) == pc[t] \in HelpLabels
Reading(t) == pc[t] \in ReaderLabels
Applying(t) == pc[t] \in ApplyLabels
Attempting(t) == pc[t] \in ActiveLabels

\* In helpApply for the transaction it has published itself.
Owner(t) == InHelp(t) /\ CalledByCommit(t)

\* The shared memory is never ahead of curTx, nor is any thread.
SeqBound ==
  /\ \A w \in Words : mem[w].seq <= curTx.seq
  /\ \A t \in Threads :
       /\ InHelp(t) => helpTx[t] = curTx \/ helpTx[t].seq < curTx.seq
       /\ Reading(t) => myTx[t] = curTx \/ myTx[t].seq < curTx.seq

\* The request of a transaction that has been superseded is closed, and so is
\* that of the transaction a reader starts from.
PastClosed ==
  \A t \in Threads :
    /\ InHelp(t) /\ helpTx[t] # curTx => request[helpTx[t].idx] # helpTx[t]
    /\ Reading(t) => request[myTx[t].idx] # myTx[t]

\* A transaction that u has published is not newer than the one u starts from,
\* nor than the one u is applying.
NotNewer(u, c) ==
  c.idx = u => /\ pc[u] \in ActiveLabels => c.seq <= myTx[u].seq
               /\ Owner(u) => c.seq <= helpTx[u].seq

OwnSeq ==
  \A u \in Threads :
    /\ NotNewer(u, curTx)
    /\ \A t \in Threads : /\ InHelp(t) => NotNewer(u, helpTx[t])
                          /\ Reading(t) => NotNewer(u, myTx[t])

\* What the owner of a transaction does, and what its request says meanwhile.
OwnerState ==
  \A t \in Threads :
    /\ Owner(t) =>
         /\ helpTx[t] = NewTx(t)
         /\ pc[t] \in {"chkRequest", "close"} \cup ApplyLabels
         /\ request[t] \in {helpTx[t], Trans(helpTx[t].seq + 1, t)}
    /\ InHelp(t) /\ ~CalledByCommit(t) /\ Helped(t) = t =>
         pc[t] = "chkRequest" /\ request[t] # helpTx[t]
    /\ pc[t] = "cas" => request[t] = NewTx(t)

\* While the last transaction is open its owner is applying it.
OpenHasOwner ==
  IsOpen => Owner(curTx.idx) /\ helpTx[curTx.idx] = curTx

\* An attempt, and the owner of a published transaction, has a proper
\* write-set.
HasWriteSet(t) == pc[t] \in {"setEra", "recheck"} \cup ActiveLabels \/ Owner(t)

WriteSets == \A t \in Threads : HasWriteSet(t) => IsWriteSet(log[t])

\* A helper's copy, as far as it has got, is exact as long as the transaction
\* is open.
Copied(t, n) ==
  helpTx[t] = curTx /\ IsOpen =>
    /\ Len(log[t]) = Len(log[curTx.idx])
    /\ \A i \in 1 .. n : log[t][i] = log[curTx.idx][i]

ThreadCopy(t) ==
  /\ pc[t] = "copyEntry" => pos[t] < Len(log[t]) /\ Copied(t, pos[t])
  /\ pc[t] \in {"helpEra", "chkCurTx", "rechkRequest"} =>
       Copied(t, Len(log[t]))
  /\ pc[t] # "copyEntry" /\ ~Applying(t) => pos[t] = 0

CopyState == \A t \in Threads : ThreadCopy(t)

\* Every word of the write-set has this sequence or a later one.
AllApplied(t) ==
  \A i \in DOMAIN log[t] :
    log[t][i].addr \in Words /\ mem[log[t][i].addr].seq >= helpTx[t].seq

\* The transaction t applies is the last one, and open.
Current(t) == helpTx[t] = curTx /\ IsOpen

\* A thread that applies has an exact copy of the write-set, or nothing to do.
ExactOrApplied(t) ==
  IF Current(t) THEN log[t] = log[curTx.idx] ELSE AllApplied(t)

EntryApplied(t, k) ==
  mem[log[t][ApplyIndex(t, k, Len(log[t])) + 1].addr].seq >= helpTx[t].seq

ThreadApply(t) ==
  /\ Applying(t) =>
       /\ pos[t] < Len(log[t])
       /\ ExactOrApplied(t)
       /\ \A k \in 0 .. pos[t] - 1 : EntryApplied(t, k)
  /\ pc[t] = "applySeq" /\ ToApply(t) => lval[t] = mem[ApplyEntry(t).addr].val
  /\ pc[t] = "applyDcas" =>
       /\ lseq[t] < helpTx[t].seq
       /\ ToApply(t) =>
            mem[ApplyEntry(t).addr] = [val |-> lval[t], seq |-> lseq[t]]
  /\ pc[t] = "close" => AllApplied(t) /\ ExactOrApplied(t)

ApplyState == \A t \in Threads : ThreadApply(t)

\* A word differs from the committed memory only while the last transaction is
\* open, writes it, and has not got to it yet.
MemoryState ==
  /\ \A w \in Words :
       \/ mem[w].val = cmem[w]
       \/ IsOpen /\ Logged(log[curTx.idx], w) /\ mem[w].seq < curTx.seq
  /\ IsOpen => \A i \in DOMAIN log[curTx.idx] :
                 log[curTx.idx][i].val = cmem[log[curTx.idx][i].addr]

\* Of the words W, those no newer than the attempt have the value of its
\* snapshot; pload works on one of them.
ThreadRead(t, W) ==
  /\ \A w \in W : mem[w].seq <= myTx[t].seq => mem[w].val = snap[t][w]
  /\ myTx[t] = curTx => \A w \in W : snap[t][w] = cmem[w]
  /\ pc[t] \in LoadLabels => addr[t] \in W
  /\ pc[t] = "loadSeq" /\ ~TooNew(t) => lval[t] = mem[addr[t]].val

ReadState == \A t \in Threads : Attempting(t) => ThreadRead(t, Words)

\* What holds of the engine whatever the words hold when they are allocated;
\* OneFileLFMem, where objects come and go, has this part in common.
Core ==
  /\ TypeOK
  /\ SeqBound
  /\ PastClosed
  /\ OwnSeq
  /\ OwnerState
  /\ OpenHasOwner
  /\ WriteSets
  /\ CopyState
  /\ ApplyState
  /\ MemoryState

Inv == Core /\ ReadState /\ Opacity
=============================================================================
