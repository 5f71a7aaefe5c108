-------------------------- MODULE PersistentMemory --------------------------
(***************************************************************************)
(* Persistent memory under the caches, as PWB, PFENCE and PSYNC of         *)
(* common/pfences.h leave it.  A memory is a function from lines to the    *)
(* sequence of the contents that could be found there after a power        *)
(* failure, the last one being what the caches have.  A line can be        *)
(* written back at any time; PWB notes the content a line has, and a fence *)
(* makes sure that what its thread has noted, or something later, is in    *)
(* memory.  Locked instructions fence, too.  A line is smaller here than   *)
(* in a machine, so that more can be lost.                                 *)
(***************************************************************************)
EXTENDS Integers, Sequences, FiniteSetsExt

Now(nvm, line) == nvm[line][Len(nvm[line])]

\* A store into a line, by an instruction or through the caches.
Stored(nvm, line, new) ==
  IF new = Now(nvm, line) THEN nvm ELSE [nvm EXCEPT ![line] = Append(@, new)]

\* PWB of some lines: noted is what the thread has noted before.
WrittenBack(noted, nvm, lines) ==
  [l \in lines \cup DOMAIN noted |->
     IF l \in lines THEN Now(nvm, l) ELSE noted[l]]

\* Nobody gives a line a content again between a write-back and its fence.
Since(versions, c) ==
  IF c \in Range(versions)
  THEN SubSeq(versions, Max({i \in DOMAIN versions : versions[i] = c}),
              Len(versions))
  ELSE versions

\* PFENCE, PSYNC, or a locked instruction.
Fenced(nvm, noted) ==
  [l \in DOMAIN nvm |-> IF l \in DOMAIN noted THEN Since(nvm[l], noted[l])
                                              ELSE nvm[l]]

\* What a power failure can leave: which content of each line.
Failures(nvm) ==
  {kept \in [DOMAIN nvm -> 1 .. Max({Len(nvm[l]) : l \in DOMAIN nvm})] :
     \A l \in DOMAIN nvm : kept[l] \in DOMAIN nvm[l]}

AfterFailure(nvm, kept) == [l \in DOMAIN nvm |-> <<nvm[l][kept[l]]>>]
=============================================================================
