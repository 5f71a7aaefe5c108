---------------------------- MODULE RomulusLRInv ----------------------------
(***************************************************************************)
(* The inductive invariant of RomulusLR.  Update transactions go through   *)
(* the memory as those of RomulusLog do, so its invariant holds here, too, *)
(* when the threads are seen as threads of RomulusLog.  The rest is        *)
(* Left-Right: where readers are, which replica they have read, and which  *)
(* calls they have to see.                                                 *)
(***************************************************************************)
EXTENDS RomulusLR

Toggling == {"waitNext", "toggle", "waitPrev"}
Reading == {"arrive", "loadSide", "read"}

\* A thread of RomulusLog.  The first walk over the read indicators is its wait
\* for readers, the second belongs to the answers; and a reader is never let
\* in.
LogThread(t) ==
  CASE th[t].pc \in Reading -> [Local(th[t].k) EXCEPT !.pc = "arrive"]
    [] \/ th[t].pc = "right"
       \/ th[t].pc \in Toggling /\ leftRight = TRAVERSE_RIGHT ->
         [th[t] EXCEPT !.pc = "wait", !.i = 0]
    [] \/ th[t].pc \in {"left", "clearRight"}
       \/ th[t].pc \in Toggling /\ leftRight = TRAVERSE_LEFT ->
         [th[t] EXCEPT !.pc = "answer", !.i = 0]
    [] OTHER -> th[t]

LogThreads == [t \in Threads |-> LogThread(t)]

Log == INSTANCE RomulusLogProofs WITH th <- LogThreads

\* Where the combiner is.
Step == IF lock = Free THEN "free" ELSE th[lock].pc
Changing == {"run", "store", "psync", "left"}

LocalState ==
  \A t \in Threads :
    /\ th[t].pc = "idle" => th[t] = Local(th[t].k)
    /\ th[t].pc \in {"wait", "right", "toggle", "left", "clearRight"} =>
         th[t].i = 0

\* Readers are sent to back, and may be there, only while a transaction is
\* past its start, which works on main.
SidesState ==
  /\ gRight <=> Step \in {"right", "clearRight"} \cup Toggling \cup Changing
  /\ leftRight = TRAVERSE_RIGHT => Step \in Toggling \cup Changing
  /\ Step \in Changing => leftRight = TRAVERSE_RIGHT
  /\ Step \in Toggling \cup Changing => side[lock] = TRAVERSE_LEFT

IndicatorState ==
  \A t \in Threads : \A v \in {0, 1} :
    ri[v][t] <=> th[t].pc \in {"loadSide", "read"} /\ localVI[t] = v

\* A reader on the side that readers are no longer sent to.
Old(t) == th[t].pc = "read" /\ side[t] # leftRight

\* The walk over the two indicators finds each of them.
OldReaders ==
  \A t \in Threads : Old(t) =>
    /\ Step \in Toggling
    /\ Step = "waitNext" /\ t < th[lock].i => localVI[t] = versionIndex
    /\ Step = "toggle" => localVI[t] = versionIndex
    /\ Step = "waitPrev" => localVI[t] # versionIndex /\ th[lock].i <= t

\* A replica does not change while a reader is on it.
SeenSide ==
  \A t \in Threads : th[t].pc = "read" =>
    \A w \in Words \ th[t].todo :
      th[t].seen[w] =
        Now(nvm, IF side[t] = TRAVERSE_RIGHT THEN Back(w) ELSE Main(w))

BackIs(n) == \A w \in Words : Now(nvm, Back(w)) = Effect(n)[w]

\* Back has every call that a reader on it, or on its way there, has to see.
SinceState ==
  \A t \in Threads : th[t].pc \in Reading /\ ~spoilt =>
    /\ since[t] <= Len(ran)
    /\ /\ stale = {}
       /\ \/ Step \in Changing
          \/ th[t].pc = "read" /\ side[t] = TRAVERSE_RIGHT
       => \A n \in 0 .. Len(ran) : BackIs(n) => since[t] <= n

\* ... as nobody has been told of another one.
SettledState ==
  Step \in Changing /\ ~spoilt /\ stale = {} =>
    \A n \in 0 .. Len(ran) : BackIs(n) => Log!Settled \subseteq Log!First(n)

LRInv ==
  /\ LRTypeOK
  /\ Log!RInv
  /\ LocalState
  /\ SidesState
  /\ IndicatorState
  /\ OldReaders
  /\ SeenSide
  /\ SinceState
  /\ SettledState
=============================================================================
