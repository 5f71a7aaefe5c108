---------------------------- MODULE RomulusLogInv ----------------------------
(***************************************************************************)
(* The inductive invariant of RomulusLog, in two halves.  Control says who *)
(* runs which function when, and that readers and the combiner exclude     *)
(* each other; Memory what the replicas hold, and what a power failure     *)
(* could leave of them.                                                    *)
(***************************************************************************)
EXTENDS RomulusLog

pc(t) == th[t].pc

Updating(t) == pc(t) \in UpdateLabels

(***************************************************************************)
(* Control.                                                                *)
(***************************************************************************)

\* The writers' side of the lock is with the thread inside, the mark of a
\* reader with its slot, and after a failure nobody is anywhere.
LockState ==
  \A t \in Threads :
    /\ pc(t) \in WriterLabels <=> lock = t
    /\ reading[t] <=> pc(t) \in {"isLocked", "read", "depart"}
    /\ machine # "up" => pc(t) = "idle"
    /\ pc(t) \notin {"collect", "wait", "run", "store", "answer"} =>
         th[t].i = 0

\* A combiner that has got past the slot of a reader has found it away, and
\* the reader finds the lock taken since.
ReadersOut ==
  \A t, u \in Threads :
    lock = t /\ pc(u) = "read" =>
      pc(t) = "collect" \/ (pc(t) = "wait" /\ th[t].i <= u)

\* A slot has the call its owner waits in.
SlotState ==
  \A t \in Threads :
    /\ Updating(t) => HasCall(t) /\ Call(t) # {}
    /\ fc[t] # 0 => Updating(t) /\ fc[t] = th[t].k

\* What t has collected is still announced, until t answers it; and its own
\* announcement is among it.
Unanswered(t, u) ==
  \/ pc(t) \in {"collect", "wait", "run", "store", "psync"}
  \/ (pc(t) = "answer" /\ th[t].i <= u)

CollectedFrom(t, u) ==
  /\ lock # t => th[t].lfc[u] = 0
  /\ pc(t) = "collect" /\ th[t].lfc[u] # 0 => u < th[t].i
  /\ Unanswered(t, u) /\ th[t].lfc[u] # 0 => fc[u] = th[t].lfc[u]

CollectState ==
  \A t \in Threads :
    /\ \A u \in Threads : CollectedFrom(t, u)
    /\ Unanswered(t, t) /\ (pc(t) = "collect" => t < th[t].i) =>
         fc[t] = th[t].lfc[t]
    /\ lock = t /\ ~Unanswered(t, t) => fc[t] = 0

\* The combiner has run the function u has announced.
HasRun(t, u) ==
  /\ th[t].lfc[u] # 0
  /\ \/ pc(t) = "run" /\ u < th[t].i
     \/ pc(t) = "store" /\ u <= th[t].i
     \/ pc(t) = "psync"
     \/ (pc(t) = "answer" /\ th[t].i <= u)

\* A call has been run, once, when it is taken back, and between the two only
\* the combiner knows.
RunOnce(c) ==
  /\ c[2] \in DOMAIN Calls[c[1]] /\ Stores(c) # {}
  /\ c[2] <= th[c[1]].k
  /\ c[2] = th[c[1]].k => Updating(c[1])

IsRun(u) ==
  <<u, th[u].k>> \in Range(ran) <=>
    fc[u] = 0 \/ (\E t \in Threads : lock = t /\ HasRun(t, u))

RanState ==
  /\ IsInjective(ran)
  /\ \A c \in Range(ran) : RunOnce(c)
  /\ \A u \in Threads : Updating(u) => IsRun(u)

\* The function that stores is the last one run.
StoreState ==
  \A t \in Threads :
    pc(t) = "store" =>
      /\ th[t].i \in Collected(t)
      /\ th[t].todo # {} /\ th[t].todo \subseteq Stores(Running(t))
      /\ ran # <<>> /\ ran[Len(ran)] = Running(t)

\* No line has been stored into since it was written back, and main and back
\* are stored into when all that was is fenced.
AllFenced == {"wait", "run", "store", "answer", "copy"}

Noted ==
  /\ \A l \in DOMAIN pwb : pwb[l] = Now(nvm, l)
  /\ \A t \in Threads : pc(t) \in AllFenced => DOMAIN pwb = {}

Control ==
  /\ TypeOK
  /\ Noted
  /\ LockState
  /\ ReadersOut
  /\ SlotState
  /\ CollectState
  /\ RanState
  /\ StoreState

(***************************************************************************)
(* Memory.                                                                 *)
(***************************************************************************)

Phase == IF lock = Free THEN "free" ELSE pc(lock)
Todo == IF Phase = "store" THEN th[lock].todo ELSE {}
First(n) == {ran[m] : m \in 1 .. n}
All == Len(ran)

\* A word of back, or, in what a failure could leave, an older effect.
BackHas(w, effect) ==
  /\ w \notin stale => Now(nvm, Back(w)) = effect
  /\ \A i \in DOMAIN nvm[Back(w)] : nvm[Back(w)][i] \subseteq effect

\* Main has the effect of all calls that have been run, but for the stores the
\* last one has still to make; back that of the first n of them, those before
\* this transaction, from which main differs in the words of the log only.
Volatile(n) ==
  /\ \A w \in Words :
       /\ Now(nvm, Main(w)) = Effect(IF w \in Todo THEN All - 1 ELSE All)[w]
       /\ BackHas(w, Effect(n)[w])
       /\ logEnabled /\ w \notin Range(log) \cup stale =>
            Now(nvm, Main(w)) = Now(nvm, Back(w))
  /\ Phase \notin {"run", "store", "psync", "answer", "copy"} =>
       n = All /\ log = <<>> /\ logEnabled

\* As long as the log has every store: what is not in memory yet, and which
\* states a failure could leave.
Durability ==
  /\ logEnabled
  /\ \A w \in Words :
       /\ \/ Durable(Main(w))
          \/ Phase \in {"run", "store"} /\ w \in Range(log)
       /\ \/ w \in behind
          \/ Durable(Back(w))
          \/ Phase = "setIdle" /\ Back(w) \in DOMAIN pwb
  /\ Phase \in {"free", "collect", "unlock"} => Now(nvm, State) = "IDLE"
  /\ Phase \in {"wait", "run", "store"} => nvm[State] = <<"MUTATING">>
  /\ Phase = "psync" => nvm[State] = <<"MUTATING", "COPYING">>
                        /\ State \in DOMAIN pwb
  /\ Phase \in {"answer", "copy", "setIdle"} => nvm[State] = <<"COPYING">>

\* What may not be lost: calls that have returned or been seen, and those that
\* are answered.
Settled ==
  due \cup {<<t, th[t].k>> : t \in {u \in Threads : Updating(u) /\ fc[u] = 0}}

UpState ==
  machine = "up" /\ ~spoilt =>
    /\ due \subseteq Range(ran)
    /\ \E n \in 0 .. All :
         /\ Volatile(n)
         /\ Phase \in {"run", "store", "psync"} =>
              Settled \subseteq First(n)
    /\ ~overflowed => Durability

\* One of the replicas is whole, and the state says which.
DownState ==
  machine # "up" /\ ~spoilt =>
    /\ \A w \in Words :
         IF Now(nvm, State) = "MUTATING" THEN Durable(Back(w))
                                         ELSE Durable(Main(w))
    /\ Durable(State)
    /\ \E n \in 0 .. All :
         /\ due \subseteq First(n)
         /\ \A w \in Words :
              /\ Now(nvm, State) # "MUTATING" \/ machine = "fence" =>
                   Now(nvm, Main(w)) = Effect(n)[w]
              /\ Now(nvm, State) # "COPYING" \/ machine = "fence" =>
                   w \in stale \/ Now(nvm, Back(w)) = Effect(n)[w]
              /\ \A i \in DOMAIN nvm[Back(w)] :
                   nvm[Back(w)][i] \subseteq Effect(n)[w]
    /\ \A l \in Lines : Durable(l) \/ (machine = "fence" /\ l \in DOMAIN pwb)
    /\ machine = "fence" => Now(nvm, State) # "IDLE" /\ behind = {}
    /\ Now(nvm, State) = "MUTATING" => behind = {}
    /\ log = <<>> /\ logEnabled

\* What a reader has read so far is of now.
SeenState ==
  \A t \in Threads :
    pc(t) = "read" /\ ~spoilt =>
      \A w \in Words \ th[t].todo : th[t].seen[w] = Effect(All)[w]

RInv ==
  /\ Control
  /\ UpState
  /\ DownState
  /\ SeenState
=============================================================================
