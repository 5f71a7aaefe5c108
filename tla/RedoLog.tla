------------------------------ MODULE RedoLog ------------------------------
(***************************************************************************)
(* The write-set of a transaction, struct WriteSet of OneFileLF.hpp and    *)
(* OneFileWF.hpp, as what it means: a redo log of distinct addresses with  *)
(* the value each will receive.  numStores is Len(log).  (WriteSetHash     *)
(* has the intrusive hash map that speeds its lookups up.)                 *)
(***************************************************************************)
EXTENDS Naturals, Sequences

CONSTANTS
  Words,   \* the transactional words (tmtype instances) a program can touch
  Vals,    \* the values a word can hold
  V0,      \* one of them, the content of a cleared variable
  NoWord   \* the address in a log entry nobody has filled in (nullptr)

ASSUME RedoLogAssumption == V0 \in Vals /\ NoWord \notin Words

\* struct WriteSetEntry; the link of the hash map is left out.
Entry == [addr : Words, val : Vals]

\* An entry beyond numStores, or read while its owner writes it: bytes that
\* mean nothing.
Garbage == [addr |-> NoWord, val |-> V0]

Logged(log, w) == \E i \in DOMAIN log : log[i].addr = w

Position(log, w) == CHOOSE i \in DOMAIN log : log[i].addr = w

\* WriteSet::addOrReplace
AddOrReplace(log, w, v) ==
  IF Logged(log, w)
  THEN [log EXCEPT ![Position(log, w)] = [addr |-> w, val |-> v]]
  ELSE Append(log, [addr |-> w, val |-> v])

\* WriteSet::lookupAddr
LookupAddr(log, w, lval) ==
  IF Logged(log, w) THEN log[Position(log, w)].val ELSE lval

\* A memory image with the log applied to it.
Overlay(image, log) == [w \in Words |-> LookupAddr(log, w, image[w])]

\* A log whose entries are all filled in, one for each word.
IsWriteSet(log) ==
  /\ \A i \in DOMAIN log : log[i] \in Entry
  /\ \A i, j \in DOMAIN log : log[i].addr = log[j].addr => i = j
=============================================================================
