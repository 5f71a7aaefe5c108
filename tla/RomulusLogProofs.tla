-------------------------- MODULE RomulusLogProofs --------------------------
(***************************************************************************)
(* Proofs of the safety of RomulusLog, for any number of threads, words    *)
(* and calls, with power failures at any point.                            *)
(***************************************************************************)
EXTENDS RomulusLogInv, SequenceTheorems, TLAPS

(***************************************************************************)
(* Persistent memory.                                                      *)
(***************************************************************************)

\* The last entry of a sequence is the one a write-back of now has noted.
LEMMA SinceNow ==
  ASSUME NEW S, NEW s \in Seq(S), s # <<>>
  PROVE  Since(s, s[Len(s)]) = <<s[Len(s)]>>
<1> DEFINE c == s[Len(s)]
           I == {i \in DOMAIN s : s[i] = c}
<1>1. Len(s) \in I /\ \A i \in I : Len(s) >= i
  OBVIOUS
<1>2. Max(I) = Len(s)
  <2>1. \E x \in I : \A y \in I : x >= y
    BY <1>1
  <2>2. Max(I) \in I /\ \A y \in I : Max(I) >= y
    BY <2>1, Zenon DEF Max
  <2>3. /\ Len(s) \in Nat /\ Max(I) \in Nat
        /\ Len(s) >= Max(I) /\ Max(I) >= Len(s)
    BY <1>1, <2>2
  <2>4. QED
    BY <2>3
<1>3. c \in Range(s)
  BY <1>1 DEF Range
<1>4. SubSeq(s, Len(s), Len(s)) = <<c>>
  <2>1. Len(s) \in 1 .. Len(s)
    OBVIOUS
  <2>2. /\ SubSeq(s, Len(s), Len(s)) \in Seq(S) /\ <<c>> \in Seq(S)
        /\ Len(SubSeq(s, Len(s), Len(s))) = 1 /\ Len(<<c>>) = 1
        /\ SubSeq(s, Len(s), Len(s))[1] = c /\ <<c>>[1] = c
    BY <2>1
  <2>3. \A i \in 1 .. 1 : SubSeq(s, Len(s), Len(s))[i] = <<c>>[i]
    BY <2>2
  <2>4. QED
    <3>1. PICK p, q : p = SubSeq(s, Len(s), Len(s)) /\ q = <<c>>
      OBVIOUS
    <3>2. p \in Seq(S) /\ q \in Seq(S) /\ Len(p) = 1 /\ Len(q) = 1
      BY <2>2, <3>1
    <3>3. \A i \in 1 .. Len(p) : p[i] = q[i]
      BY <2>3, <3>1, <3>2
    <3>4. p = q
      BY <3>2, <3>3, SeqEqual
    <3>5. QED
      BY <3>1, <3>4
<1>5. QED
  BY <1>2, <1>3, <1>4 DEF Since

\* A fence, with write-backs that are not out of date.
LEMMA FencedLine ==
  ASSUME NEW mem, NEW noted, NEW l \in DOMAIN mem, NEW S, mem[l] \in Seq(S),
         mem[l] # <<>>, l \in DOMAIN noted => noted[l] = Now(mem, l)
  PROVE  /\ Fenced(mem, noted)[l] =
              IF l \in DOMAIN noted THEN <<Now(mem, l)>> ELSE mem[l]
         /\ Now(Fenced(mem, noted), l) = Now(mem, l)
         /\ Fenced(mem, noted)[l] \in Seq(S) \ {<<>>}
<1> DEFINE f == Fenced(mem, noted)
<1>1. f[l] = IF l \in DOMAIN noted THEN Since(mem[l], noted[l]) ELSE mem[l]
  BY DEF Fenced
<1>2. Since(mem[l], Now(mem, l)) = <<Now(mem, l)>> /\ Now(mem, l) \in S
  BY SinceNow DEF Now
<1>3. f[l] = IF l \in DOMAIN noted THEN <<Now(mem, l)>> ELSE mem[l]
  BY <1>1, <1>2
<1> HIDE DEF f
<1>4. Now(f, l) = Now(mem, l) /\ f[l] \in Seq(S) \ {<<>>}
  BY <1>2, <1>3 DEF Now
<1>5. QED
  BY <1>3, <1>4 DEF f

LEMMA LinesDiffer ==
  /\ \A w \in Words : /\ Main(w) # State /\ Back(w) # State
                      /\ Main(w)[2] = w /\ Back(w)[2] = w
                      /\ Main(w) \in Lines /\ Back(w) \in Lines
  /\ State \in Lines
  /\ \A v, w \in Words : /\ Main(v) # Back(w)
                         /\ v # w => Main(v) # Main(w) /\ Back(v) # Back(w)
<1>1. \A w : Len(Main(w)) = 2 /\ Len(Back(w)) = 2 /\ Len(State) = 1
  BY DEF Main, Back, State
<1>2. \A w : /\ Main(w)[1] = "main" /\ Back(w)[1] = "back"
             /\ Main(w)[2] = w /\ Back(w)[2] = w
  BY DEF Main, Back
<1>3. "main" # "back"
  OBVIOUS
<1>4. \A w \in Words : Main(w) \in Lines /\ Back(w) \in Lines
  BY DEF Lines, Mains, Backs
<1>5. State \in Lines
  BY DEF Lines
<1>6. \A w : Main(w) # State /\ Back(w) # State
  BY <1>1
<1>7. \A v, w : Main(v) # Back(w)
  BY <1>2, <1>3
<1>8. QED
  BY <1>2, <1>4, <1>5, <1>6, <1>7

LEMMA ContentsOf ==
  /\ Contents(State) = {"IDLE", "MUTATING", "COPYING"}
  /\ \A w \in Words : /\ Contents(Main(w)) = SUBSET Stamps
                      /\ Contents(Back(w)) = SUBSET Stamps
BY LinesDiffer DEF Contents

\* A memory as TypeOK has it.
Memory(mem) ==
  /\ DOMAIN mem = Lines
  /\ \A l \in Lines : mem[l] \in Seq(Contents(l)) \ {<<>>}

LEMMA NowType ==
  ASSUME NEW mem, Memory(mem), NEW l \in Lines
  PROVE  Now(mem, l) \in Contents(l)
BY DEF Memory, Now

LEMMA StoredMemory ==
  ASSUME NEW mem, Memory(mem), NEW l \in Lines, NEW x \in Contents(l)
  PROVE  /\ Memory(Stored(mem, l, x))
         /\ Now(Stored(mem, l, x), l) = x
         /\ x = Now(mem, l) => Stored(mem, l, x)[l] = mem[l]
         /\ x # Now(mem, l) => Stored(mem, l, x)[l] = Append(mem[l], x)
         /\ \A k \in Lines \ {l} : /\ Stored(mem, l, x)[k] = mem[k]
                                   /\ Now(Stored(mem, l, x), k) = Now(mem, k)
<1>1. mem[l] \in Seq(Contents(l)) /\ mem[l] # <<>> /\ l \in DOMAIN mem
  BY DEF Memory
<1>2. /\ DOMAIN Stored(mem, l, x) = DOMAIN mem
      /\ Stored(mem, l, x)[l] \in Seq(Contents(l)) \ {<<>>}
      /\ Now(Stored(mem, l, x), l) = x
      /\ x = Now(mem, l) => Stored(mem, l, x)[l] = mem[l]
      /\ x # Now(mem, l) => Stored(mem, l, x)[l] = Append(mem[l], x)
      /\ \A k \in DOMAIN mem : k # l => Stored(mem, l, x)[k] = mem[k]
  BY <1>1 DEF Stored, Now
<1>3. \A k \in Lines \ {l} : Now(Stored(mem, l, x), k) = Now(mem, k)
  BY <1>2 DEF Now, Memory
<1>4. Memory(Stored(mem, l, x))
  BY <1>2 DEF Memory
<1>5. QED
  BY <1>2, <1>3, <1>4 DEF Memory

LEMMA FencedMemory ==
  ASSUME NEW mem, Memory(mem), NEW noted,
         \A l \in DOMAIN noted : noted[l] = Now(mem, l)
  PROVE  /\ Memory(Fenced(mem, noted))
         /\ \A l \in Lines :
              /\ Now(Fenced(mem, noted), l) = Now(mem, l)
              /\ Fenced(mem, noted)[l] =
                   IF l \in DOMAIN noted THEN <<Now(mem, l)>> ELSE mem[l]
<1>1. \A l \in Lines :
        /\ Fenced(mem, noted)[l] =
             IF l \in DOMAIN noted THEN <<Now(mem, l)>> ELSE mem[l]
        /\ Now(Fenced(mem, noted), l) = Now(mem, l)
        /\ Fenced(mem, noted)[l] \in Seq(Contents(l)) \ {<<>>}
  BY FencedLine DEF Memory
<1>2. DOMAIN Fenced(mem, noted) = Lines
  BY DEF Fenced, Memory
<1>3. QED
  BY <1>1, <1>2 DEF Memory

LEMMA StoreAllMemory ==
  ASSUME Memory(nvm), NEW new, DOMAIN new \subseteq Lines,
         \A l \in DOMAIN new : new[l] \in Contents(l)
  PROVE  /\ Memory(StoreAll(new))
         /\ \A l \in Lines :
              /\ l \in DOMAIN new => Now(StoreAll(new), l) = new[l]
              /\ l \notin DOMAIN new => /\ StoreAll(new)[l] = nvm[l]
                                        /\ Now(StoreAll(new), l) = Now(nvm, l)
<1> DEFINE after == StoreAll(new)
<1>1. DOMAIN after = Lines
  BY DEF StoreAll, Memory
<1>2. \A l \in Lines :
        after[l] = IF l \in DOMAIN new THEN Stored(nvm, l, new[l])[l]
                                       ELSE nvm[l]
  BY DEF StoreAll, Memory
<1> HIDE DEF after
<1>3. ASSUME NEW l \in DOMAIN new
      PROVE  after[l] \in Seq(Contents(l)) \ {<<>>} /\ Now(after, l) = new[l]
  <2>1. l \in Lines /\ new[l] \in Contents(l)
    OBVIOUS
  <2>2. /\ Memory(Stored(nvm, l, new[l]))
        /\ Now(Stored(nvm, l, new[l]), l) = new[l]
    BY <2>1, StoredMemory
  <2>3. QED
    BY <2>1, <2>2, <1>2 DEF Memory, Now
<1>4. \A l \in Lines \ DOMAIN new :
        after[l] = nvm[l] /\ Now(after, l) = Now(nvm, l)
  BY <1>2 DEF Now
<1>5. QED
  BY <1>1, <1>3, <1>4 DEF Memory, after

LEMMA WrittenBackNow ==
  ASSUME NEW mem, NEW noted, NEW lines,
         \A l \in DOMAIN noted \ lines : noted[l] = Now(mem, l)
  PROVE  /\ DOMAIN WrittenBack(noted, mem, lines) = lines \cup DOMAIN noted
         /\ \A l \in DOMAIN WrittenBack(noted, mem, lines) :
              WrittenBack(noted, mem, lines)[l] = Now(mem, l)
BY DEF WrittenBack

(***************************************************************************)
(* What the calls that were run have done to the words.                    *)
(***************************************************************************)

LEMMA EffectType ==
  ASSUME ran \in Seq(Threads \X Nat), NEW n \in 0 .. All
  PROVE  Effect(n) \in [Words -> SUBSET Stamps]
<1>1. ASSUME NEW w \in Words
      PROVE  {<<m, ran[m]>> : m \in {m \in 1 .. n : w \in Stores(ran[m])}}
               \in SUBSET Stamps
  <2>1. \A m \in 1 .. n : m \in Nat /\ ran[m] \in Threads \X Nat
    BY DEF All
  <2>2. QED
    BY <2>1 DEF Stamps
<1>2. QED
  BY <1>1 DEF Effect

LEMMA EffectNext ==
  ASSUME NEW n \in Nat \ {0}, NEW w \in Words
  PROVE  Effect(n)[w] = IF w \in Stores(ran[n])
                        THEN Effect(n-1)[w] \cup {<<n, ran[n]>>}
                        ELSE Effect(n-1)[w]
<1>1. 1 .. n = (1 .. (n-1)) \cup {n} /\ n-1 \in Nat
  OBVIOUS
<1>2. {m \in 1 .. n : w \in Stores(ran[m])} =
        {m \in 1 .. (n-1) : w \in Stores(ran[m])} \cup
          (IF w \in Stores(ran[n]) THEN {n} ELSE {})
  BY <1>1
<1>3. /\ Effect(n)[w] = {<<m, ran[m]>> :
                           m \in {m \in 1 .. n : w \in Stores(ran[m])}}
      /\ Effect(n-1)[w] = {<<m, ran[m]>> :
                             m \in {m \in 1 .. (n-1) : w \in Stores(ran[m])}}
  BY DEF Effect
<1>4. QED
  BY <1>2, <1>3

LEMMA EffectGrows ==
  ASSUME NEW m \in Nat, NEW n \in 0 .. m, NEW w \in Words
  PROVE  Effect(n)[w] \subseteq Effect(m)[w]
BY DEF Effect

LEMMA EffectSame ==
  ASSUME NEW n \in Nat, \A m \in 1 .. n : ran'[m] = ran[m]
  PROVE  Effect(n)' = Effect(n)
<1>1. ASSUME NEW w \in Words
      PROVE  {<<m, ran'[m]>> : m \in {m \in 1 .. n : w \in Stores(ran'[m])}} =
             {<<m, ran[m]>> : m \in {m \in 1 .. n : w \in Stores(ran[m])}}
  <2>1. {m \in 1 .. n : w \in Stores(ran'[m])} =
          {m \in 1 .. n : w \in Stores(ran[m])}
    OBVIOUS
  <2>2. QED
    BY <2>1
<1>2. QED
  BY <1>1 DEF Effect

LEMMA EffectiveFirst ==
  ASSUME NEW n \in Nat
  PROVE  Effective(Effect(n)) \subseteq First(n)
<1>1. ASSUME NEW c \in Effective(Effect(n))
      PROVE  c \in First(n)
  <2>1. PICK w \in Words : \E d \in Effect(n)[w] : c = d[2]
    BY DEF Effective
  <2>2. PICK m \in 1 .. n : c = <<m, ran[m]>>[2]
    BY <2>1 DEF Effect
  <2>3. QED
    BY <2>2 DEF First
<1>2. QED
  BY <1>1

\* Every call stores something, so that no two numbers have the same effect.
LEMMA EffectsDiffer ==
  ASSUME ran \in Seq(Threads \X Nat),
         \A m \in 1 .. All : Stores(ran[m]) \cap Words # {},
         NEW i \in 0 .. All, NEW j \in 0 .. All, i < j
  PROVE  \E w \in Words : Effect(i)[w] # Effect(j)[w]
<1>1. j \in 1 .. All /\ j \in Nat \ {0} /\ i \in Nat /\ All \in Nat
  BY DEF All
<1>2. PICK w \in Words : w \in Stores(ran[j])
  BY <1>1
<1>3. <<j, ran[j]>> \in Effect(j)[w]
  BY <1>1, <1>2, EffectNext
<1>4. <<j, ran[j]>> \notin Effect(i)[w]
  <2>1. SUFFICES ASSUME <<j, ran[j]>> \in Effect(i)[w]
                 PROVE  FALSE
    OBVIOUS
  <2>2. PICK m \in 1 .. i : <<j, ran[j]>> = <<m, ran[m]>>
    BY <2>1 DEF Effect
  <2>3. QED
    BY <2>2, <1>1
<1>5. QED
  BY <1>3, <1>4

LEMMA SurvivingIs ==
  ASSUME ran \in Seq(Threads \X Nat),
         \A m \in 1 .. All : Stores(ran[m]) \cap Words # {},
         NEW mem, NEW n \in 0 .. All, Whole(mem, n)
  PROVE  Surviving(mem) = SubSeq(ran, 1, n)
<1> DEFINE chosen == CHOOSE m \in 0 .. Len(ran) : Whole(mem, m)
<1>1. \E m \in 0 .. Len(ran) : Whole(mem, m)
  BY DEF All
<1>2. chosen \in 0 .. Len(ran) /\ Whole(mem, chosen)
  BY <1>1, Zenon
<1>3. Surviving(mem) = SubSeq(ran, 1, chosen)
  BY <1>1 DEF Surviving
<1> HIDE DEF chosen
<1>4. \A w \in Words : Effect(chosen)[w] = Effect(n)[w]
  BY <1>2 DEF Whole
<1>5. ~(chosen < n) /\ ~(n < chosen)
  BY <1>2, <1>4, EffectsDiffer DEF All
<1>6. chosen = n
  BY <1>2, <1>5 DEF All
<1>7. QED
  BY <1>3, <1>6

LEMMA SurvivingPrefix ==
  ASSUME ran \in Seq(Threads \X Nat), NEW mem
  PROVE  \E n \in 0 .. All : Surviving(mem) = SubSeq(ran, 1, n)
<1>1. CASE \E n \in 0 .. Len(ran) : Whole(mem, n)
  <2> DEFINE chosen == CHOOSE m \in 0 .. Len(ran) : Whole(mem, m)
  <2>1. chosen \in 0 .. Len(ran)
    BY <1>1, Zenon
  <2>2. Surviving(mem) = SubSeq(ran, 1, chosen)
    BY <1>1 DEF Surviving
  <2> HIDE DEF chosen
  <2>3. QED
    BY <2>1, <2>2 DEF All
<1>2. CASE ~\E n \in 0 .. Len(ran) : Whole(mem, n)
  <2>1. Surviving(mem) = <<>>
    BY <1>2 DEF Surviving
  <2>2. SubSeq(ran, 1, 0) = <<>> /\ 0 \in 0 .. All
    BY SubSeqEmpty DEF All
  <2>3. QED
    BY <2>1, <2>2
<1>3. QED
  BY <1>1, <1>2

Locals == LocalTypes(Labels)

(***************************************************************************)
(* Control.  First what a step makes of the thread that takes it.          *)
(***************************************************************************)

LEMMA GoState ==
  ASSUME th \in [Threads -> Locals], NEW t \in Threads, NEW from,
         NEW to \in Labels, NEW local \in Locals, Go(t, from, to, local)
  PROVE  /\ machine = "up" /\ machine' = "up"
         /\ th[t].pc = from
         /\ th' \in [Threads -> Locals]
         /\ th'[t].pc = to
         /\ th'[t].k = local.k
         /\ th'[t].i = local.i
         /\ th'[t].lfc = local.lfc
         /\ th'[t].todo = local.todo
         /\ th'[t].seen = local.seen
         /\ \A u \in Threads \ {t} : th'[u] = th[u]
<1>1. [local EXCEPT !.pc = to] \in Locals
  BY DEF Locals, LocalTypes
<1>2. /\ [local EXCEPT !.pc = to].pc = to
      /\ [local EXCEPT !.pc = to].k = local.k
      /\ [local EXCEPT !.pc = to].i = local.i
      /\ [local EXCEPT !.pc = to].lfc = local.lfc
      /\ [local EXCEPT !.pc = to].todo = local.todo
      /\ [local EXCEPT !.pc = to].seen = local.seen
  BY DEF Locals, LocalTypes
<1>3. th' = [th EXCEPT ![t] = [local EXCEPT !.pc = to]]
  BY DEF Go
<1> DEFINE new == [local EXCEPT !.pc = to]
<1> HIDE DEF new
<1>4. th'[t] = new /\ th' \in [Threads -> Locals]
  BY <1>1, <1>3 DEF new
<1>5. \A u \in Threads \ {t} : th'[u] = th[u]
  BY <1>3
<1>6. QED
  BY <1>2, <1>4, <1>5 DEF Go, At, new

LEMMA SlotLocal ==
  ASSUME th \in [Threads -> Locals], NEW t \in Threads, NEW i \in 0 .. N
  PROVE  /\ Slot(t, i) \in Locals
         /\ Slot(t, i).k = th[t].k /\ Slot(t, i).i = i
         /\ Slot(t, i).lfc = th[t].lfc /\ Slot(t, i).todo = th[t].todo
         /\ Slot(t, i).seen = th[t].seen
BY DEF Slot, Locals, LocalTypes

LEMMA GotoMoves ==
  ASSUME th \in [Threads -> Locals], NEW t \in Threads, NEW from,
         NEW to \in Labels, Goto(t, from, to)
  PROVE  /\ machine = "up" /\ machine' = "up"
         /\ th[t].pc = from
         /\ th' \in [Threads -> Locals]
         /\ th'[t].pc = to
         /\ th'[t].k = th[t].k
         /\ th'[t].i = th[t].i
         /\ th'[t].lfc = th[t].lfc
         /\ th'[t].todo = th[t].todo
         /\ th'[t].seen = th[t].seen
         /\ \A u \in Threads \ {t} : th'[u] = th[u]
<1>1. PICK local : local = th[t]
  OBVIOUS
<1>2. Go(t, from, to, local) /\ local \in Locals
  BY <1>1 DEF Goto
<1>3. QED
  BY <1>1, <1>2, GoState

LEMMA LocalType ==
  ASSUME N \in Nat \ {0}, NEW k \in Nat \ {0}
  PROVE  /\ Local(k) \in Locals /\ Local(k).pc = "idle" /\ Local(k).k = k
         /\ Local(k).i = 0 /\ \A u \in Threads : Local(k).lfc[u] = 0
<1>1. /\ [t \in Threads |-> 0] \in [Threads -> Nat]
      /\ [w \in Words |-> {}] \in [Words -> SUBSET Stamps]
      /\ 0 \in 0 .. N
  OBVIOUS
<1>2. PICK none : none = [t \in Threads |-> 0]
  OBVIOUS
<1>3. PICK unseen : unseen = [w \in Words |-> {}]
  OBVIOUS
<1>4. PICK idle \in Labels : idle = "idle"
  BY DEF Labels
<1>5. PICK nothing \in SUBSET Words : nothing = {}
  BY Zenon
<1>6. Local(k) = [pc |-> idle, k |-> k, i |-> 0, lfc |-> none,
                  todo |-> nothing, seen |-> unseen]
  BY <1>2, <1>3, <1>4, <1>5, Zenon DEF Local
<1>7. none \in [Threads -> Nat] /\ unseen \in [Words -> SUBSET Stamps]
  BY <1>1, <1>2, <1>3
<1>8. 0 \in 0 .. N
  BY <1>1
<1>9. Local(k) \in Locals
  <2> HIDE <1>2, <1>3, <1>4, <1>5
  <2> QED
    BY <1>6, <1>7, <1>8 DEF Locals, LocalTypes
<1>10. QED
  BY <1>2, <1>4, <1>6, <1>9

\* A call that returns leaves its thread idle, with its next call.
LEMMA ReturnMoves ==
  ASSUME th \in [Threads -> Locals], NEW t \in Threads, NEW from, NEW seen,
         Return(t, from, seen), N \in Nat \ {0}
  PROVE  /\ machine = "up" /\ machine' = "up"
         /\ th[t].pc = from
         /\ th' \in [Threads -> Locals]
         /\ th'[t].pc = "idle"
         /\ th'[t].k = th[t].k + 1
         /\ th'[t].i = 0
         /\ \A u \in Threads : th'[t].lfc[u] = 0
         /\ \A u \in Threads \ {t} : th'[u] = th[u]
<1>1. PICK local : local = Local(th[t].k + 1)
  OBVIOUS
<1>2. th[t].k + 1 \in Nat \ {0}
  BY DEF Locals, LocalTypes
<1>3. /\ local \in Locals /\ local.pc = "idle" /\ local.k = th[t].k + 1
      /\ local.i = 0 /\ \A u \in Threads : local.lfc[u] = 0
  BY <1>1, <1>2, LocalType
<1>4. th' = [th EXCEPT ![t] = local]
  BY <1>1 DEF Return
<1>5. QED
  BY <1>3, <1>4 DEF Return, At

Logic == /\ LockState
         /\ ReadersOut
         /\ SlotState
         /\ CollectState
         /\ RanState
         /\ StoreState

LEMMA ThreadsAre ==
  /\ N \in Nat \ {0} /\ Threads \subseteq Nat /\ Free \notin Threads
  /\ \A t \in Threads : t < N
  /\ \A i \in 0 .. N : i < N <=> i \in Threads
BY RomulusAssumption DEF Threads, Free

LEMMA LogicTypes ==
  ASSUME TypeOK
  PROVE  /\ th \in [Threads -> Locals]
         /\ fc \in [Threads -> Nat] /\ reading \in [Threads -> BOOLEAN]
         /\ lock \in Threads \cup {Free} /\ Free \notin Threads
         /\ \A t \in Threads : /\ th[t].lfc \in [Threads -> Nat]
                               /\ th[t].i \in 0 .. N
                               /\ th[t].k \in Nat \ {0}
                               /\ th[t].pc \in Labels
         /\ ran \in Seq(Threads \X Nat) /\ Len(ran) \in Nat
         /\ machine \in {"up", "recover", "fence"}
<1>1. th \in [Threads -> Locals]
  BY DEF TypeOK, Types, Locals
<1>2. \A t \in Threads : /\ th[t].lfc \in [Threads -> Nat]
                         /\ th[t].i \in 0 .. N
                         /\ th[t].k \in Nat \ {0}
                         /\ th[t].pc \in Labels
  BY <1>1 DEF Locals, LocalTypes
<1>3. ran \in Seq(Threads \X Nat) /\ Len(ran) \in Nat
  BY DEF TypeOK, Types
<1>4. QED
  BY <1>1, <1>2, <1>3, ThreadsAre DEF TypeOK, Types

\* A step that changes neither calls nor what the combiner knows of them.
LEMMA LightStep ==
  ASSUME TypeOK, Logic, NEW t \in Threads,
         fc' = fc, lock' = lock, ran' = ran,
         \A u \in Threads \ {t} : th'[u] = th[u],
         th'[t].k = th[t].k, th'[t].lfc = th[t].lfc,
         Updating(t)' <=> Updating(t),
         pc(t)' # "collect",
         pc(t) = "collect" => th[t].i = N,
         \A u \in Threads : /\ Unanswered(t, u)' <=> Unanswered(t, u)
                            /\ HasRun(t, u)' <=> HasRun(t, u)
  PROVE  SlotState' /\ CollectState' /\ RanState'
<1>1. /\ \A u \in Threads : th'[u].k = th[u].k /\ th'[u].lfc = th[u].lfc
      /\ \A u \in Threads : Updating(u)' <=> Updating(u)
      /\ \A x, u \in Threads : /\ Unanswered(x, u)' <=> Unanswered(x, u)
                               /\ HasRun(x, u)' <=> HasRun(x, u)
      /\ \A x \in Threads : pc(x)' = "collect" => th'[x] = th[x]
      /\ \A x \in Threads : pc(x) = "collect" /\ pc(x)' # "collect" =>
           th[x].i = N
      /\ \A u \in Threads : u < N
  BY ThreadsAre DEF Updating, Unanswered, HasRun, pc
<1>2. SlotState'
  BY <1>1 DEF Logic, SlotState, HasCall, Call
<1>3. CollectState'
  <2>1. ASSUME NEW x \in Threads, NEW u \in Threads
        PROVE  CollectedFrom(x, u)'
    <3>1. CollectedFrom(x, u)
      BY DEF Logic, CollectState
    <3>2. QED
      BY <1>1, <3>1 DEF CollectedFrom, pc
  <2>2. ASSUME NEW x \in Threads
        PROVE  (/\ Unanswered(x, x) /\ (pc(x) = "collect" => x < th[x].i) =>
                     fc[x] = th[x].lfc[x]
                /\ lock = x /\ ~Unanswered(x, x) => fc[x] = 0)'
    <3>1. /\ Unanswered(x, x) /\ (pc(x) = "collect" => x < th[x].i) =>
               fc[x] = th[x].lfc[x]
          /\ lock = x /\ ~Unanswered(x, x) => fc[x] = 0
      BY DEF Logic, CollectState
    <3>2. QED
      BY <1>1, <3>1 DEF pc
  <2>3. QED
    BY <2>1, <2>2 DEF CollectState
<1>4. RanState'
  <2>1. ASSUME NEW c \in Range(ran) PROVE RunOnce(c)'
    <3>1. RunOnce(c)
      BY DEF Logic, RanState
    <3>2. ran \in Seq(Threads \X Nat)
      BY LogicTypes
    <3>3. c[1] \in Threads
      BY <3>2 DEF Range
    <3>4. QED
      BY <1>1, <3>1, <3>3 DEF RunOnce
  <2>2. ASSUME NEW u \in Threads, Updating(u)'
        PROVE  IsRun(u)'
    <3>1. IsRun(u)
      BY <1>1, <2>2 DEF Logic, RanState
    <3>2. QED
      BY <1>1, <3>1 DEF IsRun
  <2>3. QED
    BY <2>1, <2>2 DEF RanState, Logic
<1>5. QED
  BY <1>2, <1>3, <1>4

\* The steps that only take a thread to the next label.
LEMMA LightGoto ==
  ASSUME TypeOK, Logic, NEW t \in Threads, NEW from, NEW to, Goto(t, from, to),
         fc' = fc, lock' = lock, ran' = ran,
         \/ from = "tryLock" /\ to = "checkDone"
         \/ from = "checkDone" /\ to = "tryLock"
         \/ from = "psync" /\ to = "answer"
         \/ from = "copy" /\ to = "setIdle"
         \/ from = "setIdle" /\ to = "unlock"
         \/ from = "idle" /\ to = "arrive"
         \/ from = "arrive" /\ to = "isLocked"
         \/ from = "isLocked" /\ to = "depart"
         \/ from = "depart" /\ to = "spin"
         \/ from = "spin" /\ to = "arrive",
         reading'[t] <=> to \in {"isLocked", "depart"},
         \A u \in Threads \ {t} : reading'[u] = reading[u]
  PROVE  Logic' /\ th' \in [Threads -> Locals]
<1>1. to \in Labels
  BY DEF Labels, UpdateLabels, WriterLabels, ReaderLabels
<1>2. th \in [Threads -> Locals]
  BY LogicTypes
<1>3. /\ th[t].pc = from /\ th'[t].pc = to /\ machine = "up" /\ machine' = "up"
      /\ th'[t].k = th[t].k /\ th'[t].i = th[t].i /\ th'[t].lfc = th[t].lfc
      /\ \A u \in Threads \ {t} : th'[u] = th[u]
      /\ th' \in [Threads -> Locals]
  BY <1>1, <1>2, GotoMoves
<1>4. from \in {"psync"} => th[t].i = 0
  BY <1>3 DEF Logic, LockState, pc
<1>5. LockState'
  BY <1>3 DEF Logic, LockState, pc, WriterLabels, UpdateLabels, ReaderLabels
<1>6. ReadersOut'
  BY <1>3 DEF Logic, ReadersOut, pc, LockState, WriterLabels
<1>7. StoreState'
  BY <1>3 DEF Logic, StoreState, pc, Collected, Running, Stores
<1>8. SlotState' /\ CollectState' /\ RanState'
  <2>1. \A u \in Threads : u \in Nat
    BY ThreadsAre
  <2>2. \A u \in Threads : /\ Unanswered(t, u)' <=> Unanswered(t, u)
                           /\ HasRun(t, u)' <=> HasRun(t, u)
    BY <1>3, <1>4, <2>1 DEF Unanswered, HasRun, pc
  <2>3. Updating(t)' <=> Updating(t)
    BY <1>3 DEF Updating, UpdateLabels, WriterLabels, pc
  <2>4. pc(t) # "collect" /\ pc(t)' # "collect"
    BY <1>3 DEF pc
  <2>5. QED
    BY <1>3, <2>2, <2>3, <2>4, LightStep
<1>9. QED
  BY <1>3, <1>5, <1>6, <1>7, <1>8 DEF Logic

\* The steps of the combiner that begin a loop, or go on with it.
LoopStep(t, from, to, i) ==
  \/ from = "collect" /\ to = "wait" /\ th[t].i = N /\ i = 0
  \/ /\ from = "wait" /\ to = "wait" /\ th[t].i < N
     /\ \/ i = 0
        \/ ~reading[th[t].i] /\ i = th[t].i + 1
  \/ /\ from = "wait" /\ to = "run" /\ i = 0
     /\ th[t].i = N \/ (\A u \in Threads : pc(u) # "read")
  \/ /\ from = "run" /\ to = "run" /\ th[t].i < N /\ i = th[t].i + 1
     /\ th[t].i \notin Collected(t)
  \/ from = "run" /\ to = "psync" /\ th[t].i = N /\ i = 0
  \/ from = "answer" /\ to = "copy" /\ th[t].i = N /\ i = 0

LEMMA LightSlot ==
  ASSUME TypeOK, Logic, NEW t \in Threads, NEW from, NEW to, NEW i \in 0 .. N,
         NEW local, Go(t, from, to, local), local = Slot(t, i),
         fc' = fc, lock' = lock, ran' = ran, reading' = reading,
         LoopStep(t, from, to, i)
  PROVE  Logic' /\ th' \in [Threads -> Locals]
<1>1. to \in Labels
  BY DEF LoopStep, Labels, UpdateLabels, WriterLabels, ReaderLabels
<1>2. th \in [Threads -> Locals] /\ th[t].i \in 0 .. N
  BY LogicTypes
<1>3. /\ th[t].pc = from /\ th'[t].pc = to /\ machine = "up" /\ machine' = "up"
      /\ th'[t].k = th[t].k /\ th'[t].i = i /\ th'[t].lfc = th[t].lfc
      /\ \A u \in Threads \ {t} : th'[u] = th[u]
      /\ th' \in [Threads -> Locals]
  <2>1. /\ local \in Locals /\ local.k = th[t].k /\ local.i = i
        /\ local.lfc = th[t].lfc
    BY <1>2, SlotLocal
  <2>2. QED
    BY <1>1, <1>2, <2>1, GoState
<1>4. LockState'
  BY <1>3 DEF LoopStep, Logic, LockState, pc, WriterLabels, UpdateLabels,
      ReaderLabels
<1>5. ReadersOut'
  <2>1. lock = t
    BY <1>3 DEF LoopStep, Logic, LockState, pc, WriterLabels
  <2>2. \A u \in Threads : u \in Nat /\ u < N
    BY ThreadsAre
  <2>3. \A u \in Threads : pc(u) = "read" => reading[u] /\ u # t
    BY <1>3 DEF LoopStep, Logic, LockState, pc
  <2>4. \A u \in Threads :
          pc(u) = "read" => from = "collect" \/ (from = "wait" /\ th[t].i <= u)
    BY <1>3, <2>1 DEF LoopStep, Logic, ReadersOut, pc
  <2>5. \A u \in Threads : pc(u) = "read" => to = "wait" /\ i <= u
    BY <1>2, <2>2, <2>3, <2>4 DEF LoopStep
  <2>6. QED
    BY <1>3, <2>1, <2>5 DEF LoopStep, ReadersOut, pc
<1>6. StoreState'
  BY <1>3 DEF LoopStep, Logic, StoreState, pc, Collected, Running, Stores
<1>7. SlotState' /\ CollectState' /\ RanState'
  <2>1. \A u \in Threads : u \in Nat /\ u < N
    BY ThreadsAre
  <2>2. \A u \in Threads : /\ Unanswered(t, u)' <=> Unanswered(t, u)
                           /\ HasRun(t, u)' <=> HasRun(t, u)
    BY <1>2, <1>3, <2>1 DEF LoopStep, Unanswered, HasRun, pc,
         Collected
  <2>3. Updating(t)' <=> Updating(t)
    BY <1>3 DEF LoopStep, Updating, UpdateLabels, WriterLabels, pc
  <2>4. (pc(t) = "collect" => th[t].i = N) /\ pc(t)' # "collect"
    BY <1>3 DEF LoopStep, pc
  <2>5. QED
    BY <1>3, <2>2, <2>3, <2>4, LightStep
<1>8. QED
  BY <1>3, <1>4, <1>5, <1>6, <1>7 DEF Logic

\* A reader that is let in, or loads a word.
LEMMA LightRead ==
  ASSUME TypeOK, Logic, NEW t \in Threads, NEW from, NEW to, NEW local \in Locals,
         Go(t, from, to, local), to = "read", local.k = th[t].k, local.i = th[t].i,
         local.lfc = th[t].lfc,
         fc' = fc, lock' = lock, ran' = ran, reading' = reading,
         from = "read" \/ (from = "isLocked" /\ lock = Free)
  PROVE  Logic' /\ th' \in [Threads -> Locals]
<1>1. to \in Labels
  BY DEF Labels, UpdateLabels, WriterLabels, ReaderLabels
<1>2. th \in [Threads -> Locals] /\ th[t].i \in 0 .. N
  BY LogicTypes
<1>3. /\ th[t].pc = from /\ th'[t].pc = "read"
      /\ machine = "up" /\ machine' = "up"
      /\ th'[t].k = th[t].k /\ th'[t].i = th[t].i /\ th'[t].lfc = th[t].lfc
      /\ \A u \in Threads \ {t} : th'[u] = th[u]
      /\ th' \in [Threads -> Locals]
  <2>1. /\ machine = "up" /\ machine' = "up"
        /\ th[t].pc = from
        /\ th' \in [Threads -> Locals]
        /\ th'[t].pc = to
        /\ th'[t].k = local.k
        /\ th'[t].i = local.i
        /\ th'[t].lfc = local.lfc
        /\ \A u \in Threads \ {t} : th'[u] = th[u]
    BY <1>1, <1>2, GoState
  <2>2. QED
    BY <2>1
<1>4. LockState'
  BY <1>3 DEF Logic, LockState, pc, WriterLabels, UpdateLabels, ReaderLabels
<1>5. ReadersOut'
  <2>1. \A u \in Threads : u # Free
    BY ThreadsAre
  <2>2. lock # t
    BY <1>3 DEF Logic, LockState, pc, WriterLabels
  <2>3. QED
    BY <1>3, <2>1, <2>2 DEF Logic, ReadersOut, pc
<1>6. StoreState'
  BY <1>3 DEF Logic, StoreState, pc, Collected, Running, Stores
<1>7. SlotState' /\ CollectState' /\ RanState'
  <2>1. \A u \in Threads : /\ Unanswered(t, u)' <=> Unanswered(t, u)
                           /\ HasRun(t, u)' <=> HasRun(t, u)
    BY <1>3 DEF Unanswered, HasRun, pc
  <2>2. Updating(t)' <=> Updating(t)
    BY <1>3 DEF Updating, UpdateLabels, WriterLabels, pc
  <2>3. pc(t) # "collect" /\ pc(t)' # "collect"
    BY <1>3 DEF pc
  <2>4. QED
    BY <1>3, <2>1, <2>2, <2>3, LightStep
<1>8. QED
  BY <1>3, <1>4, <1>5, <1>6, <1>7 DEF Logic

\* The function that is running stores a word.
LEMMA StoreLogic ==
  ASSUME TypeOK, Logic, NEW t \in Threads, NEW w, NEW loaded,
         StoreAfter(t, w, loaded)
  PROVE  /\ Logic' /\ th' \in [Threads -> Locals]
         /\ machine = "up" /\ machine' = "up"
         /\ th[t].pc = "store" /\ lock = t /\ lock' = lock
         /\ th'[t].pc = IF th[t].todo = {w} THEN "run" ELSE "store"
         /\ th'[t].todo = th[t].todo \ {w}
         /\ \A u \in Threads \ {t} : th'[u] = th[u]
         /\ th'[t].k = th[t].k
<1>1. "run" \in Labels /\ "store" \in Labels
  BY DEF Labels, UpdateLabels, WriterLabels, ReaderLabels
<1>2. /\ th \in [Threads -> Locals] /\ th[t].i \in 0 .. N
      /\ th[t].todo \subseteq Words
  BY LogicTypes DEF Locals, LocalTypes
<1>3. th[t].pc = "store" /\ w \in th[t].todo
  BY DEF StoreAfter, Go, At
<1>4. /\ th[t].i \in Threads /\ th[t].i < N /\ th[t].i + 1 \in 0 .. N
      /\ th[t].lfc[th[t].i] # 0
  BY <1>2, <1>3, ThreadsAre DEF Logic, StoreState, pc, Collected
<1>5. PICK rest : rest = th[t].todo \ {w}
  OBVIOUS
<1>6. /\ th'[t].pc = IF rest = {} THEN "run" ELSE "store"
      /\ th'[t].i = IF rest = {} THEN th[t].i + 1 ELSE th[t].i
      /\ th'[t].k = th[t].k /\ th'[t].lfc = th[t].lfc
      /\ th'[t].todo = rest
      /\ machine = "up" /\ machine' = "up"
      /\ \A u \in Threads \ {t} : th'[u] = th[u]
      /\ th' \in [Threads -> Locals]
  <2>1. CASE rest = {}
    <3>1. PICK local : local = [th[t] EXCEPT !.todo = rest, !.i = @ + 1]
      OBVIOUS
    <3>2. /\ local \in Locals /\ local.k = th[t].k /\ local.i = th[t].i + 1
          /\ local.lfc = th[t].lfc /\ local.todo = rest
      BY <1>2, <1>4, <1>5, <3>1 DEF Locals, LocalTypes
    <3>3. Go(t, "store", "run", local)
      BY <1>5, <2>1, <3>1 DEF StoreAfter
    <3>4. QED
      BY <1>1, <1>2, <2>1, <3>2, <3>3, GoState
  <2>2. CASE rest # {}
    <3>1. PICK local : local = [th[t] EXCEPT !.todo = rest]
      OBVIOUS
    <3>2. /\ local \in Locals /\ local.k = th[t].k /\ local.i = th[t].i
          /\ local.lfc = th[t].lfc /\ local.todo = rest
      BY <1>2, <1>5, <3>1 DEF Locals, LocalTypes
    <3>3. Go(t, "store", "store", local)
      BY <1>5, <2>2, <3>1 DEF StoreAfter
    <3>4. QED
      BY <1>1, <1>2, <2>2, <3>2, <3>3, GoState
  <2>3. QED
    BY <2>1, <2>2
<1>7. fc' = fc /\ lock' = lock /\ ran' = ran /\ reading' = reading
  BY DEF StoreAfter
<1>8. lock = t
  BY <1>3 DEF Logic, LockState, pc, WriterLabels
<1>9. LockState'
  BY <1>3, <1>6, <1>7 DEF Logic, LockState, pc, WriterLabels, UpdateLabels,
     ReaderLabels
<1>10. ReadersOut'
  BY <1>3, <1>6, <1>7, <1>8 DEF Logic, ReadersOut, pc
<1>11. StoreState'
  BY <1>3, <1>5, <1>6, <1>7 DEF Logic, StoreState, pc, Collected, Running, Stores
<1>12. SlotState' /\ CollectState' /\ RanState'
  <2>1. \A u \in Threads : u \in Nat
    BY ThreadsAre
  <2>2. \A u \in Threads : /\ Unanswered(t, u)' <=> Unanswered(t, u)
                           /\ HasRun(t, u)' <=> HasRun(t, u)
    BY <1>3, <1>4, <1>6, <2>1 DEF Unanswered, HasRun, pc
  <2>3. Updating(t)' <=> Updating(t)
    BY <1>3, <1>6 DEF Updating, UpdateLabels, WriterLabels, pc
  <2>4. pc(t) # "collect" /\ pc(t)' # "collect"
    BY <1>3, <1>6 DEF pc
  <2>5. QED
    BY <1>6, <1>7, <2>2, <2>3, <2>4, LightStep
<1>13. th[t].todo = {w} <=> rest = {}
  BY <1>3, <1>5
<1>14. QED
  BY <1>3, <1>5, <1>6, <1>7, <1>8, <1>9, <1>10, <1>11, <1>12, <1>13 DEF Logic

\* A thread announces its call.
LEMMA WriteTransactionLogic ==
  ASSUME TypeOK, Logic, NEW t \in Threads, WriteTransaction(t)
  PROVE  /\ Logic' /\ th' \in [Threads -> Locals]
         /\ machine = "up" /\ machine' = "up" /\ th[t].pc = "idle"
         /\ th'[t].pc = "tryLock" /\ fc'[t] # 0
         /\ \A u \in Threads \ {t} : th'[u] = th[u] /\ fc'[u] = fc[u]
<1>1. th \in [Threads -> Locals] /\ fc \in [Threads -> Nat]
  BY LogicTypes
<1>2. PICK from, to : /\ Goto(t, from, to)
                      /\ from = "idle" /\ to = "tryLock"
  BY DEF WriteTransaction
<1>3. to \in Labels
  BY <1>2 DEF Labels, UpdateLabels
<1>4. /\ th[t].pc = "idle" /\ th'[t].pc = "tryLock"
      /\ machine = "up" /\ machine' = "up"
      /\ th'[t].k = th[t].k /\ th'[t].i = th[t].i /\ th'[t].lfc = th[t].lfc
      /\ \A u \in Threads \ {t} : th'[u] = th[u]
      /\ th' \in [Threads -> Locals]
  BY <1>1, <1>2, <1>3, GotoMoves
<1>5. /\ fc'[t] = th[t].k /\ \A u \in Threads \ {t} : fc'[u] = fc[u]
      /\ lock' = lock /\ reading' = reading /\ ran' = ran
      /\ HasCall(t) /\ Call(t) # {} /\ th[t].k # 0
  BY <1>1, LogicTypes DEF WriteTransaction, history
<1>6. /\ ~Updating(t) /\ Updating(t)'
      /\ \A u \in Threads \ {t} : Updating(u)' <=> Updating(u)
  BY <1>4 DEF Updating, UpdateLabels, WriterLabels, pc
<1>7. fc[t] = 0
  BY <1>1, <1>6 DEF Logic, SlotState
<1>8. LockState'
  BY <1>4, <1>5 DEF Logic, LockState, pc, WriterLabels, UpdateLabels,
     ReaderLabels
<1>9. ReadersOut'
  BY <1>4, <1>5 DEF Logic, ReadersOut, pc
<1>10. SlotState'
  BY <1>4, <1>5, <1>6 DEF Logic, SlotState, HasCall, Call
<1>11. lock # t
  BY <1>4 DEF Logic, LockState, pc, WriterLabels
<1>12. \A x, u \in Threads : /\ Unanswered(x, u)' <=> Unanswered(x, u)
                             /\ HasRun(x, u)' <=> HasRun(x, u)
  BY <1>4 DEF Unanswered, HasRun, pc
<1>13. CollectState'
  <2>1. ASSUME NEW x \in Threads, NEW u \in Threads
        PROVE  CollectedFrom(x, u)'
    <3>1. CollectedFrom(x, u)
      BY DEF Logic, CollectState
    <3>2. th'[x].lfc = th[x].lfc /\ th'[x].i = th[x].i
      BY <1>4
    <3>3. pc(x)' = "collect" => pc(x) = "collect"
      BY <1>4 DEF pc
    <3>4. Unanswered(x, t) => th[x].lfc[t] = 0
      BY <1>7 DEF Logic, CollectState, CollectedFrom
    <3>5. QED
      BY <1>5, <1>12, <3>1, <3>2, <3>3, <3>4 DEF CollectedFrom
  <2>2. ASSUME NEW x \in Threads
        PROVE  (/\ Unanswered(x, x) /\ (pc(x) = "collect" => x < th[x].i) =>
                     fc[x] = th[x].lfc[x]
                /\ lock = x /\ ~Unanswered(x, x) => fc[x] = 0)'
    <3>1. /\ Unanswered(x, x) /\ (pc(x) = "collect" => x < th[x].i) =>
               fc[x] = th[x].lfc[x]
          /\ lock = x /\ ~Unanswered(x, x) => fc[x] = 0
      BY DEF Logic, CollectState
    <3>2. ~Unanswered(t, t)'
      BY <1>4 DEF Unanswered, pc
    <3>3. QED
      BY <1>4, <1>5, <1>11, <1>12, <3>1, <3>2 DEF pc
  <2>3. QED
    BY <2>1, <2>2 DEF CollectState
<1>14. RanState'
  <2>1. ASSUME NEW c \in Range(ran) PROVE RunOnce(c)'
    <3>1. RunOnce(c) /\ c[1] \in Threads
      BY LogicTypes DEF Logic, RanState, Range
    <3>2. QED
      BY <1>4, <1>6, <3>1 DEF RunOnce
  <2>2. ASSUME NEW u \in Threads, Updating(u)'
        PROVE  IsRun(u)'
    <3>1. CASE u = t
      <4>1. <<t, th[t].k>> \notin Range(ran)
        BY <1>6 DEF Logic, RanState, RunOnce
      <4>2. \A x \in Threads : ~HasRun(x, t)
        <5>1. ASSUME NEW x \in Threads, HasRun(x, t) PROVE FALSE
          <6>1. Unanswered(x, t) /\ th[x].lfc[t] # 0
            BY <5>1 DEF HasRun, Unanswered
          <6>2. QED
            BY <1>7, <6>1 DEF Logic, CollectState, CollectedFrom
        <5>2. QED
          BY <5>1
      <4>3. QED
        BY <1>4, <1>5, <1>12, <3>1, <4>1, <4>2 DEF IsRun
    <3>2. CASE u # t
      <4>1. IsRun(u)
        BY <1>6, <2>2, <3>2 DEF Logic, RanState
      <4>2. QED
        BY <1>4, <1>5, <1>12, <3>2, <4>1 DEF IsRun
    <3>3. QED
      BY <3>1, <3>2
  <2>3. QED
    BY <1>5, <2>1, <2>2 DEF RanState, Logic
<1>15. StoreState'
  BY <1>4, <1>5 DEF Logic, StoreState, pc, Collected, Running, Stores
<1>16. QED
  BY <1>4, <1>5, <1>8, <1>9, <1>10, <1>13, <1>14, <1>15 DEF Logic

\* A thread gets the lock.
LEMMA LockedLogic ==
  ASSUME TypeOK, Logic, NEW t \in Threads, NEW from, NEW to, Goto(t, from, to),
         from = "tryLock", to = "collect", lock = Free, lock' = t,
         fc' = fc, ran' = ran, reading' = reading
  PROVE  Logic' /\ th' \in [Threads -> Locals]
<1>1. th \in [Threads -> Locals] /\ fc \in [Threads -> Nat]
  BY LogicTypes
<1>2. to \in Labels
  BY DEF Labels, UpdateLabels, WriterLabels
<1>3. /\ th[t].pc = "tryLock" /\ th'[t].pc = "collect"
      /\ machine = "up" /\ machine' = "up"
      /\ th'[t].k = th[t].k /\ th'[t].i = th[t].i /\ th'[t].lfc = th[t].lfc
      /\ \A u \in Threads \ {t} : th'[u] = th[u]
      /\ th' \in [Threads -> Locals]
  BY <1>1, <1>2, GotoMoves
<1>4. \A u \in Threads : u # Free /\ u \in Nat
  BY ThreadsAre
<1>5. th[t].i = 0
  BY <1>3 DEF Logic, LockState, pc
<1>6. \A u \in Threads : Updating(u)' <=> Updating(u)
  BY <1>3 DEF Updating, UpdateLabels, WriterLabels, pc
<1>7. LockState'
  BY <1>3, <1>4 DEF Logic, LockState, pc, WriterLabels, UpdateLabels,
     ReaderLabels
<1>8. ReadersOut'
  BY <1>3 DEF Logic, ReadersOut, pc
<1>9. SlotState'
  BY <1>3, <1>6 DEF Logic, SlotState, HasCall, Call
<1>10. \A x, u \in Threads : th'[x].lfc[u] = 0
  BY <1>3, <1>4 DEF Logic, CollectState, CollectedFrom
<1>11. CollectState'
  <2>1. \A x, u \in Threads : CollectedFrom(x, u)'
    BY <1>10 DEF CollectedFrom
  <2>2. ASSUME NEW x \in Threads
        PROVE  (/\ Unanswered(x, x) /\ (pc(x) = "collect" => x < th[x].i) =>
                     fc[x] = th[x].lfc[x]
                /\ lock = x /\ ~Unanswered(x, x) => fc[x] = 0)'
    <3>1. CASE x = t
      BY <1>3, <1>4, <1>5, <3>1 DEF Unanswered, pc
    <3>2. CASE x # t
      <4>1. pc(x) \notin WriterLabels
        BY <1>4 DEF Logic, LockState
      <4>2. ~Unanswered(x, x)'
        BY <1>3, <3>2, <4>1 DEF Unanswered, pc, WriterLabels
      <4>3. QED
        BY <3>2, <4>2
    <3>3. QED
      BY <3>1, <3>2
  <2>3. QED
    BY <2>1, <2>2 DEF CollectState
<1>12. RanState'
  <2>1. ASSUME NEW c \in Range(ran) PROVE RunOnce(c)'
    <3>1. RunOnce(c) /\ c[1] \in Threads
      BY LogicTypes DEF Logic, RanState, Range
    <3>2. QED
      BY <1>3, <1>6, <3>1 DEF RunOnce
  <2>2. ASSUME NEW u \in Threads, Updating(u)'
        PROVE  IsRun(u)'
    <3>1. IsRun(u)
      BY <1>6, <2>2 DEF Logic, RanState
    <3>2. \A x \in Threads : ~HasRun(x, u)'
      BY <1>10 DEF HasRun
    <3>3. QED
      BY <1>3, <1>4, <3>1, <3>2 DEF IsRun
  <2>3. QED
    BY <2>1, <2>2 DEF RanState, Logic
<1>13. StoreState'
  BY <1>3 DEF Logic, StoreState, pc, Collected, Running, Stores
<1>14. QED
  BY <1>3, <1>7, <1>8, <1>9, <1>11, <1>12, <1>13 DEF Logic

\* A call returns.
LEMMA ReturnLogic ==
  ASSUME TypeOK, Logic, NEW t \in Threads, NEW from, NEW seen,
         Return(t, from, seen), fc' = fc,
         \/ from = "checkDone" /\ fc[t] = 0 /\ lock' = lock /\ reading' = reading
         \/ from = "unlock" /\ lock' = Free /\ reading' = reading
         \/ /\ from = "collect" /\ th[t].i = N /\ Collected(t) = {}
            /\ lock' = Free /\ reading' = reading
         \/ from = "read" /\ lock' = lock /\ reading' = [reading EXCEPT ![t] = FALSE]
         \/ from = "arrive" /\ lock' = lock /\ reading' = reading
  PROVE  /\ Logic' /\ th' \in [Threads -> Locals]
         /\ machine = "up" /\ machine' = "up"
         /\ th[t].pc = from /\ th'[t].pc = "idle"
         /\ \A u \in Threads \ {t} : th'[u] = th[u]
         /\ from \notin {"read", "arrive"} =>
              <<t, th[t].k>> \in Range(ran) /\ fc[t] = 0 /\ Updating(t)
<1>1. /\ th \in [Threads -> Locals] /\ fc \in [Threads -> Nat]
      /\ reading \in [Threads -> BOOLEAN]
      /\ th[t].k \in Nat /\ \A u \in Threads : th[u].k \in Nat
  BY LogicTypes
<1>2. /\ th[t].pc = from /\ th'[t].pc = "idle"
      /\ machine = "up" /\ machine' = "up"
      /\ th'[t].k = th[t].k + 1 /\ th'[t].i = 0
      /\ \A u \in Threads : th'[t].lfc[u] = 0
      /\ \A u \in Threads \ {t} : th'[u] = th[u]
      /\ th' \in [Threads -> Locals]
  BY <1>1, ThreadsAre, ReturnMoves
<1>3. ran' = ran
  BY DEF Return
<1>4. \A u \in Threads : u # Free /\ u \in Nat /\ u < N
  BY ThreadsAre
<1>5. /\ ~Updating(t)'
      /\ \A u \in Threads \ {t} : Updating(u)' <=> Updating(u)
      /\ from \notin {"read", "arrive"} => Updating(t)
      /\ from \in {"read", "arrive", "checkDone"} => lock # t /\ lock' = lock
      /\ from \in {"unlock", "collect"} => lock = t /\ lock' = Free
  BY <1>2 DEF Updating, UpdateLabels, WriterLabels, pc, Logic, LockState
<1>6. fc[t] = 0
  <2>1. CASE from = "checkDone"
    BY <2>1
  <2>2. CASE from = "unlock"
    BY <1>2, <1>5, <2>2 DEF Logic, CollectState, Unanswered, pc
  <2>3. CASE from = "collect"
    <3>1. th[t].lfc[t] = 0
      BY <1>2, <2>3 DEF Collected
    <3>2. QED
      BY <1>2, <1>4, <2>3, <3>1 DEF Logic, CollectState, Unanswered, pc
  <2>4. CASE from \in {"read", "arrive"}
    <3>1. ~Updating(t)
      BY <1>2, <2>4 DEF Updating, UpdateLabels, WriterLabels, pc
    <3>2. QED
      BY <3>1 DEF Logic, SlotState
  <2>5. QED
    BY <2>1, <2>2, <2>3, <2>4
<1>7. from \notin {"read", "arrive"} => <<t, th[t].k>> \in Range(ran)
  BY <1>5, <1>6 DEF Logic, RanState, IsRun
<1>8. LockState'
  <2>1. ASSUME NEW u \in Threads \ {t}
        PROVE  (/\ pc(u) \in WriterLabels <=> lock = u
                /\ reading[u] <=> pc(u) \in {"isLocked", "read", "depart"}
                /\ machine # "up" => pc(u) = "idle"
                /\ pc(u) \notin {"collect", "wait", "run", "store", "answer"} =>
                     th[u].i = 0)'
    <3>1. /\ pc(u) \in WriterLabels <=> lock = u
          /\ reading[u] <=> pc(u) \in {"isLocked", "read", "depart"}
          /\ pc(u) \notin {"collect", "wait", "run", "store", "answer"} =>
               th[u].i = 0
      BY DEF Logic, LockState
    <3>2. reading'[u] = reading[u] /\ (lock' = u <=> lock = u)
      BY <1>1, <1>4, <1>5
    <3>3. QED
      BY <1>2, <3>1, <3>2 DEF pc
  <2>2. (/\ pc(t) \in WriterLabels <=> lock = t
         /\ reading[t] <=> pc(t) \in {"isLocked", "read", "depart"}
         /\ machine # "up" => pc(t) = "idle"
         /\ pc(t) \notin {"collect", "wait", "run", "store", "answer"} =>
              th[t].i = 0)'
    <3>1. reading[t] <=> pc(t) \in {"isLocked", "read", "depart"}
      BY DEF Logic, LockState
    <3>2. ~reading'[t]
      BY <1>1, <1>2, <3>1 DEF pc
    <3>3. lock' # t
      BY <1>4, <1>5
    <3>4. QED
      BY <1>2, <3>2, <3>3 DEF pc, WriterLabels
  <2>3. QED
    BY <2>1, <2>2 DEF LockState
<1>9. ReadersOut'
  BY <1>2, <1>4, <1>5 DEF Logic, ReadersOut, pc
<1>10. SlotState'
  <2>1. ASSUME NEW u \in Threads
        PROVE  (/\ Updating(u) => HasCall(u) /\ Call(u) # {}
                /\ fc[u] # 0 => Updating(u) /\ fc[u] = th[u].k)'
    <3>1. CASE u = t
      BY <1>5, <1>6, <3>1
    <3>2. CASE u # t
      BY <1>2, <1>5, <3>2 DEF Logic, SlotState, HasCall, Call
    <3>3. QED
      BY <3>1, <3>2
  <2>2. QED
    BY <2>1 DEF SlotState
<1>11. /\ \A u \in Threads : ~Unanswered(t, u)' /\ ~HasRun(t, u)'
       /\ \A u \in Threads : lock = t => ~HasRun(t, u)
       /\ \A x \in Threads \ {t} : \A u \in Threads :
            (Unanswered(x, u)' <=> Unanswered(x, u)) /\
            (HasRun(x, u)' <=> HasRun(x, u))
  BY <1>2, <1>5 DEF Unanswered, HasRun, pc
<1>12. CollectState'
  <2>1. ASSUME NEW x \in Threads, NEW u \in Threads
        PROVE  CollectedFrom(x, u)'
    <3>1. CASE x = t
      BY <1>2, <1>11, <3>1 DEF CollectedFrom, pc
    <3>2. CASE x # t
      <4>1. CollectedFrom(x, u)
        BY DEF Logic, CollectState
      <4>2. th'[x] = th[x] /\ (lock' = x <=> lock = x)
        BY <1>2, <1>4, <1>5, <3>2
      <4>3. QED
        BY <1>11, <3>2, <4>1, <4>2 DEF CollectedFrom, pc
    <3>3. QED
      BY <3>1, <3>2
  <2>2. ASSUME NEW x \in Threads
        PROVE  (/\ Unanswered(x, x) /\ (pc(x) = "collect" => x < th[x].i) =>
                     fc[x] = th[x].lfc[x]
                /\ lock = x /\ ~Unanswered(x, x) => fc[x] = 0)'
    <3>1. CASE x = t
      BY <1>6, <1>11, <3>1
    <3>2. CASE x # t
      <4>1. /\ Unanswered(x, x) /\ (pc(x) = "collect" => x < th[x].i) =>
                 fc[x] = th[x].lfc[x]
            /\ lock = x /\ ~Unanswered(x, x) => fc[x] = 0
        BY DEF Logic, CollectState
      <4>2. th'[x] = th[x] /\ (lock' = x <=> lock = x)
        BY <1>2, <1>4, <1>5, <3>2
      <4>3. QED
        BY <1>11, <3>2, <4>1, <4>2 DEF pc
    <3>3. QED
      BY <3>1, <3>2
  <2>3. QED
    BY <2>1, <2>2 DEF CollectState
<1>13. RanState'
  <2>1. ASSUME NEW c \in Range(ran) PROVE RunOnce(c)'
    <3>1. RunOnce(c) /\ c[1] \in Threads /\ c[2] \in Nat
      BY LogicTypes DEF Logic, RanState, Range
    <3>2. CASE c[1] = t
      <4>1. c[2] <= th[t].k + 1 /\ c[2] # th[t].k + 1
        BY <1>1, <3>1, <3>2 DEF RunOnce
      <4>2. QED
        BY <1>2, <3>1, <3>2, <4>1 DEF RunOnce
    <3>3. CASE c[1] # t
      BY <1>2, <1>5, <3>1, <3>3 DEF RunOnce
    <3>4. QED
      BY <3>2, <3>3
  <2>2. ASSUME NEW u \in Threads, Updating(u)'
        PROVE  IsRun(u)'
    <3>1. u # t /\ Updating(u)
      BY <1>5, <2>2
    <3>2. IsRun(u)
      BY <3>1 DEF Logic, RanState
    <3>3. (\E x \in Threads : lock' = x /\ HasRun(x, u)') <=>
            (\E x \in Threads : lock = x /\ HasRun(x, u))
      BY <1>4, <1>5, <1>11
    <3>4. QED
      BY <1>2, <1>3, <3>1, <3>2, <3>3 DEF IsRun
  <2>3. QED
    BY <1>3, <2>1, <2>2 DEF RanState, Logic
<1>14. StoreState'
  BY <1>2, <1>3 DEF Logic, StoreState, pc, Collected, Running, Stores
<1>15. QED
  BY <1>2, <1>5, <1>6, <1>7, <1>8, <1>9, <1>10, <1>12, <1>13, <1>14 DEF Logic

\* The combiner collects a call.
LEMMA CollectLogic ==
  ASSUME TypeOK, Logic, NEW t \in Threads, Collect(t)
  PROVE  /\ Logic' /\ th' \in [Threads -> Locals]
         /\ machine = "up" /\ machine' = "up"
         /\ th[t].pc = "collect" /\ th'[t].pc = "collect"
         /\ \A u \in Threads \ {t} : th'[u] = th[u]
         /\ th'[t].k = th[t].k
<1>1. /\ th \in [Threads -> Locals] /\ fc \in [Threads -> Nat]
      /\ th[t].i \in 0 .. N /\ th[t].lfc \in [Threads -> Nat]
  BY LogicTypes
<1>2. "collect" \in Labels
  BY DEF Labels, UpdateLabels, WriterLabels
<1>3. PICK s : s = th[t].i
  OBVIOUS
<1>4. s \in Threads /\ s + 1 \in 0 .. N /\ s \in Nat
  BY <1>1, <1>3, ThreadsAre DEF Collect
<1>5. PICK lfc : lfc = [th[t].lfc EXCEPT ![s] = fc[s]]
  OBVIOUS
<1>6. lfc \in [Threads -> Nat]
  BY <1>1, <1>4, <1>5
<1>7. PICK local : local = [th[t] EXCEPT !.lfc = lfc, !.i = s + 1]
  OBVIOUS
<1>8. local \in Locals /\ local.k = th[t].k /\ local.i = s + 1 /\ local.lfc = lfc
  BY <1>1, <1>4, <1>6, <1>7 DEF Locals, LocalTypes
<1>9. Go(t, "collect", "collect", local)
  BY <1>1, <1>3, <1>5, <1>7 DEF Collect, Locals, LocalTypes
<1>10. /\ th[t].pc = "collect" /\ th'[t].pc = "collect"
       /\ machine = "up" /\ machine' = "up"
       /\ th'[t].k = th[t].k /\ th'[t].i = s + 1 /\ th'[t].lfc = lfc
       /\ \A u \in Threads \ {t} : th'[u] = th[u]
       /\ th' \in [Threads -> Locals]
  BY <1>1, <1>2, <1>8, <1>9, GoState
<1>11. fc' = fc /\ lock' = lock /\ ran' = ran /\ reading' = reading
  BY DEF Collect, history
<1>12. \A u \in Threads : u # Free /\ u \in Nat /\ u < N
  BY ThreadsAre
<1>13. lock = t
  BY <1>10 DEF Logic, LockState, pc, WriterLabels
<1>14. /\ \A u \in Threads : Updating(u)' <=> Updating(u)
       /\ \A u \in Threads : th'[u].k = th[u].k
  BY <1>10 DEF Updating, UpdateLabels, WriterLabels, pc
<1>15. LockState'
  BY <1>10, <1>11, <1>13 DEF Logic, LockState, pc, WriterLabels, UpdateLabels,
     ReaderLabels
<1>16. ReadersOut'
  BY <1>10, <1>11 DEF Logic, ReadersOut, pc
<1>17. SlotState'
  BY <1>11, <1>14 DEF Logic, SlotState, HasCall, Call
<1>18. CollectState'
  <2>1. ASSUME NEW x \in Threads, NEW u \in Threads
        PROVE  CollectedFrom(x, u)'
    <3>0. CollectedFrom(x, u)
      BY DEF Logic, CollectState
    <3>1. CASE x = t
      <4>1. CASE u = s
        BY <1>1, <1>4, <1>5, <1>10, <1>11, <1>13, <3>1, <4>1
           DEF CollectedFrom, pc
      <4>2. CASE u # s
        <5>1. lfc[u] = th[t].lfc[u]
          BY <1>1, <1>5, <4>2
        <5>2. QED
          BY <1>3, <1>4, <1>10, <1>11, <1>12, <1>13, <3>0, <3>1, <5>1
             DEF CollectedFrom, Unanswered, pc
      <4>3. QED
        BY <4>1, <4>2
    <3>2. CASE x # t
      BY <1>10, <1>11, <3>0, <3>2 DEF CollectedFrom, Unanswered, pc
    <3>3. QED
      BY <3>1, <3>2
  <2>2. ASSUME NEW x \in Threads
        PROVE  (/\ Unanswered(x, x) /\ (pc(x) = "collect" => x < th[x].i) =>
                     fc[x] = th[x].lfc[x]
                /\ lock = x /\ ~Unanswered(x, x) => fc[x] = 0)'
    <3>0. /\ Unanswered(x, x) /\ (pc(x) = "collect" => x < th[x].i) =>
               fc[x] = th[x].lfc[x]
          /\ lock = x /\ ~Unanswered(x, x) => fc[x] = 0
      BY DEF Logic, CollectState
    <3>1. CASE x = t
      <4>1. Unanswered(t, t)' /\ Unanswered(t, t)
        BY <1>10 DEF Unanswered, pc
      <4>2. t < s + 1 => t = s \/ t < s
        BY <1>4, <1>12
      <4>3. fc[t] = lfc[t] \/ ~(t < s + 1)
        BY <1>1, <1>3, <1>5, <3>0, <3>1, <4>1, <4>2
      <4>4. QED
        BY <1>10, <1>11, <3>1, <4>1, <4>3 DEF pc
    <3>2. CASE x # t
      BY <1>10, <1>11, <3>0, <3>2 DEF Unanswered, pc
    <3>3. QED
      BY <3>1, <3>2
  <2>3. QED
    BY <2>1, <2>2 DEF CollectState
<1>19. RanState'
  <2>1. ASSUME NEW c \in Range(ran) PROVE RunOnce(c)'
    <3>1. RunOnce(c) /\ c[1] \in Threads
      BY LogicTypes DEF Logic, RanState, Range
    <3>2. QED
      BY <1>14, <3>1 DEF RunOnce
  <2>2. ASSUME NEW u \in Threads, Updating(u)'
        PROVE  IsRun(u)'
    <3>1. IsRun(u)
      BY <1>14, <2>2 DEF Logic, RanState
    <3>2. ~HasRun(t, u)' /\ ~HasRun(t, u)
      BY <1>10 DEF HasRun, pc
    <3>3. QED
      BY <1>11, <1>13, <1>14, <3>1, <3>2 DEF IsRun
  <2>3. QED
    BY <1>11, <2>1, <2>2 DEF RanState, Logic
<1>20. StoreState'
  BY <1>10, <1>11 DEF Logic, StoreState, pc, Collected, Running, Stores
<1>21. QED
  BY <1>10, <1>15, <1>16, <1>17, <1>18, <1>19, <1>20 DEF Logic

\* The combiner runs the function of a call it has collected.
LEMMA RunLogic ==
  ASSUME TypeOK, Logic, NEW t \in Threads, RunFunction(t), ran' # ran
  PROVE  /\ Logic' /\ th' \in [Threads -> Locals]
         /\ machine = "up" /\ machine' = "up" /\ lock = t
         /\ th[t].pc = "run" /\ th'[t].pc = "store"
         /\ th'[t].todo = Stores(Running(t))
         /\ ran' = Append(ran, Running(t))
         /\ Running(t) \in Threads \X Nat
         /\ Stores(Running(t)) \subseteq Words
         /\ th'[t].k = th[t].k
         /\ \A u \in Threads \ {t} : th'[u] = th[u]
<1>1. /\ th \in [Threads -> Locals] /\ fc \in [Threads -> Nat]
      /\ th[t].i \in 0 .. N /\ th[t].lfc \in [Threads -> Nat]
      /\ ran \in Seq(Threads \X Nat)
  BY LogicTypes
<1>0. /\ th[t].i \in Collected(t) /\ ran' = Append(ran, Running(t))
      /\ fc' = fc /\ lock' = lock /\ reading' = reading
      /\ Go(t, "run", "store", [th[t] EXCEPT !.todo = Stores(Running(t))])
  BY DEF RunFunction, history
<1>2. "store" \in Labels /\ th[t].pc = "run"
  BY DEF Labels, UpdateLabels, WriterLabels, RunFunction, At
<1>3. PICK s : s = th[t].i
  OBVIOUS
<1>4. s \in Threads /\ s \in Nat /\ th[t].lfc[s] # 0
  BY <1>0, <1>3, ThreadsAre DEF Collected
<1>5. PICK c : c = Running(t)
  OBVIOUS
<1>6. c = <<s, th[t].lfc[s]>> /\ c[1] = s /\ c[2] = th[t].lfc[s]
  BY <1>3, <1>5 DEF Running
<1>7. fc[s] = c[2] /\ Updating(s) /\ th[s].k = c[2]
  BY <1>2, <1>4, <1>6 DEF Logic, CollectState, CollectedFrom, Unanswered, pc,
     SlotState
<1>8. HasCall(s) /\ Call(s) # {}
  BY <1>4, <1>7 DEF Logic, SlotState
<1>9. c \in Threads \X Nat
  BY <1>1, <1>4, <1>6
<1>10. c[2] \in DOMAIN Calls[c[1]] /\ Stores(c) # {} /\ Stores(c) \subseteq Words
  <2>1. Calls[s] \in Seq(SUBSET Words) /\ th[s].k \in Nat \ {0}
    BY <1>4, RomulusAssumption, LogicTypes
  <2>2. th[s].k \in DOMAIN Calls[s]
    BY <1>8, <2>1 DEF HasCall
  <2>3. Calls[s][th[s].k] \subseteq Words
    BY <2>1, <2>2
  <2>4. QED
    BY <1>6, <1>7, <1>8, <2>2, <2>3 DEF Stores, Call
<1>11. PICK local : local = [th[t] EXCEPT !.todo = Stores(c)]
  OBVIOUS
<1>25. /\ local \in Locals /\ local.k = th[t].k /\ local.i = s
       /\ local.lfc = th[t].lfc /\ local.todo = Stores(c)
  BY <1>1, <1>3, <1>10, <1>11 DEF Locals, LocalTypes
<1>12. /\ th'[t].pc = "store"
       /\ machine = "up" /\ machine' = "up"
       /\ th'[t].k = th[t].k /\ th'[t].i = s /\ th'[t].lfc = th[t].lfc
       /\ th'[t].todo = Stores(c)
       /\ \A u \in Threads \ {t} : th'[u] = th[u]
       /\ th' \in [Threads -> Locals]
  <2>1. Go(t, "run", "store", local)
    BY <1>0, <1>5, <1>11
  <2>2. th \in [Threads -> Locals]
    BY <1>1
  <2>3. /\ machine = "up" /\ machine' = "up"
        /\ th[t].pc = "run"
        /\ th' \in [Threads -> Locals]
        /\ th'[t].pc = "store"
        /\ th'[t].k = local.k
        /\ th'[t].i = local.i
        /\ th'[t].lfc = local.lfc
        /\ th'[t].todo = local.todo
        /\ th'[t].seen = local.seen
        /\ \A u \in Threads \ {t} : th'[u] = th[u]
    BY <1>2, <1>25, <2>1, <2>2, GoState
  <2>4. QED
    BY <1>25, <2>3
<1>13. \A u \in Threads : u # Free /\ u \in Nat
  BY ThreadsAre
<1>14. lock = t
  BY <1>2 DEF Logic, LockState, pc, WriterLabels
<1>15. /\ \A u \in Threads : Updating(u)' <=> Updating(u)
       /\ \A u \in Threads : th'[u].k = th[u].k /\ th'[u].lfc = th[u].lfc
       /\ \A u \in Threads : th'[u].i = th[u].i
       /\ \A x, u \in Threads : Unanswered(x, u)' <=> Unanswered(x, u)
  BY <1>2, <1>3, <1>12 DEF Updating, UpdateLabels, WriterLabels, pc, Unanswered
<1>16. LockState'
  BY <1>0, <1>2, <1>12 DEF Logic, LockState, pc, WriterLabels, UpdateLabels,
     ReaderLabels
<1>17. ReadersOut'
  BY <1>0, <1>2, <1>12, <1>14 DEF Logic, ReadersOut, pc
<1>18. SlotState'
  BY <1>0, <1>15 DEF Logic, SlotState, HasCall, Call
<1>19. CollectState'
  <2>1. ASSUME NEW x \in Threads, NEW u \in Threads
        PROVE  CollectedFrom(x, u)'
    <3>1. CollectedFrom(x, u)
      BY DEF Logic, CollectState
    <3>2. pc(x)' = "collect" => pc(x) = "collect"
      BY <1>12 DEF pc
    <3>3. QED
      BY <1>0, <1>15, <3>1, <3>2 DEF CollectedFrom
  <2>2. ASSUME NEW x \in Threads
        PROVE  (/\ Unanswered(x, x) /\ (pc(x) = "collect" => x < th[x].i) =>
                     fc[x] = th[x].lfc[x]
                /\ lock = x /\ ~Unanswered(x, x) => fc[x] = 0)'
    <3>1. /\ Unanswered(x, x) /\ (pc(x) = "collect" => x < th[x].i) =>
               fc[x] = th[x].lfc[x]
          /\ lock = x /\ ~Unanswered(x, x) => fc[x] = 0
      BY DEF Logic, CollectState
    <3>2. pc(x)' = "collect" <=> pc(x) = "collect"
      BY <1>2, <1>12 DEF pc
    <3>3. QED
      BY <1>0, <1>15, <3>1, <3>2
  <2>3. QED
    BY <2>1, <2>2 DEF CollectState
<1>20. c \notin Range(ran)
  <2>1. ~HasRun(t, s)
    BY <1>2, <1>3, <1>4 DEF HasRun, pc
  <2>2. IsRun(s)
    BY <1>4, <1>7 DEF Logic, RanState
  <2>3. QED
    BY <1>1, <1>4, <1>6, <1>7, <1>14, <2>1, <2>2 DEF IsRun
<1>21. /\ Range(ran') = Range(ran) \cup {c} /\ IsInjective(ran')
       /\ ran' # <<>> /\ ran'[Len(ran')] = c
  <2>1. /\ Len(ran') = Len(ran) + 1 /\ DOMAIN ran' = 1 .. (Len(ran) + 1)
        /\ DOMAIN ran = 1 .. Len(ran) /\ Len(ran) \in Nat
        /\ \A m \in 1 .. Len(ran) : ran'[m] = ran[m]
        /\ ran'[Len(ran) + 1] = c
    BY <1>0, <1>1, <1>5, <1>9
  <2>2. IsInjective(ran)
    BY DEF Logic, RanState
  <2>3. Range(ran') = Range(ran) \cup {c}
    BY <2>1 DEF Range
  <2>4. IsInjective(ran')
    BY <1>20, <2>1, <2>2 DEF IsInjective, Range
  <2>5. QED
    BY <2>1, <2>3, <2>4
<1>22. RanState'
  <2>1. ASSUME NEW d \in Range(ran') PROVE RunOnce(d)'
    <3>1. CASE d = c
      <4>1. Updating(c[1])' /\ c[2] <= th'[c[1]].k
        BY <1>4, <1>6, <1>7, <1>15, LogicTypes
      <4>2. QED
        BY <1>10, <3>1, <4>1 DEF RunOnce, Stores
    <3>2. CASE d \in Range(ran)
      <4>1. RunOnce(d) /\ d[1] \in Threads
        BY <3>2, LogicTypes DEF Logic, RanState, Range
      <4>2. QED
        BY <1>15, <4>1 DEF RunOnce
    <3>3. QED
      BY <1>21, <3>1, <3>2
  <2>2. ASSUME NEW u \in Threads, Updating(u)'
        PROVE  IsRun(u)'
    <3>1. IsRun(u)
      BY <1>15, <2>2 DEF Logic, RanState
    <3>2. CASE u = s
      <4>1. HasRun(t, s)'
        BY <1>4, <1>12 DEF HasRun, pc
      <4>2. <<s, th[s].k>> = c
        BY <1>6, <1>7
      <4>3. QED
        BY <1>0, <1>14, <1>15, <1>21, <3>2, <4>1, <4>2 DEF IsRun
    <3>3. CASE u # s
      <4>1. HasRun(t, u)' <=> HasRun(t, u)
        BY <1>2, <1>3, <1>4, <1>12, <1>13, <3>3 DEF HasRun, pc
      <4>2. <<u, th[u].k>> \in Range(ran') <=> <<u, th[u].k>> \in Range(ran)
        BY <1>6, <1>21, <3>3
      <4>3. /\ fc'[u] = fc[u] /\ th'[u].k = th[u].k
            /\ \A x \in Threads : lock' = x <=> x = t
            /\ \A x \in Threads : lock = x <=> x = t
        BY <1>0, <1>14, <1>15
      <4>4. QED
        BY <3>1, <4>1, <4>2, <4>3 DEF IsRun
    <3>4. QED
      BY <3>2, <3>3
  <2>3. QED
    BY <1>21, <2>1, <2>2 DEF RanState
<1>23. StoreState'
  <2>1. Running(t)' = c /\ s \in Collected(t)'
    BY <1>4, <1>6, <1>12 DEF Running, Collected
  <2>2. \A u \in Threads : pc(u)' = "store" => u = t
    BY <1>12, <1>14 DEF Logic, LockState, pc, WriterLabels
  <2>3. QED
    BY <1>10, <1>12, <1>21, <2>1, <2>2 DEF StoreState, Stores
<1>24. QED
  BY <1>0, <1>2, <1>5, <1>9, <1>10, <1>12, <1>14, <1>16, <1>17, <1>18, <1>19, <1>22,
     <1>23 DEF Logic

\* The combiner answers a call, or none.
LEMMA AnswerLogic ==
  ASSUME TypeOK, Logic, NEW t \in Threads, Answer(t)
  PROVE  /\ Logic' /\ th' \in [Threads -> Locals]
         /\ machine = "up" /\ machine' = "up" /\ lock = t
         /\ th[t].pc = "answer" /\ th'[t].pc \in {"answer", "copy"}
         /\ th'[t].k = th[t].k
         /\ \A u \in Threads \ {t} : th'[u] = th[u]
<1>1. /\ th \in [Threads -> Locals] /\ fc \in [Threads -> Nat]
      /\ th[t].i \in 0 .. N /\ th[t].lfc \in [Threads -> Nat]
  BY LogicTypes
<1>2. "answer" \in Labels /\ "copy" \in Labels /\ th[t].pc = "answer"
  BY DEF Labels, UpdateLabels, WriterLabels, Answer, At
<1>3. \A u \in Threads : u # Free /\ u \in Nat /\ u < N
  BY ThreadsAre
<1>4. lock = t
  BY <1>2 DEF Logic, LockState, pc, WriterLabels
<1>5. lock' = lock /\ ran' = ran /\ reading' = reading
  BY DEF Answer, history
<1>6. CASE th[t].i = N
  <2>1. Collected(t) \subseteq Threads /\ N \notin Threads
    BY <1>3 DEF Collected
  <2>2. fc' = fc
    BY <1>6, <2>1 DEF Answer
  <2>3. PICK from, to, local : /\ Go(t, from, to, local) /\ local = Slot(t, 0)
                               /\ from = "answer" /\ to = "copy"
    BY <1>6, ThreadsAre DEF Answer
  <2>4. PICK zero \in 0 .. N : zero = 0
    BY ThreadsAre
  <2>5. LoopStep(t, from, to, zero)
    BY <1>6, <2>3, <2>4 DEF LoopStep
  <2>6. local = Slot(t, zero)
    BY <2>3, <2>4
  <2>7. Logic' /\ th' \in [Threads -> Locals]
    BY <1>5, <2>2, <2>3, <2>5, <2>6, LightSlot
  <2>8. /\ local \in Locals /\ local.k = th[t].k
    BY <1>1, <2>6, SlotLocal
  <2>9. /\ machine = "up" /\ machine' = "up"
        /\ th[t].pc = from
        /\ th' \in [Threads -> Locals]
        /\ th'[t].pc = to
        /\ th'[t].k = local.k
        /\ \A u \in Threads \ {t} : th'[u] = th[u]
    BY <1>1, <1>2, <2>3, <2>8, GoState
  <2>10. QED
    BY <1>2, <1>4, <2>3, <2>7, <2>8, <2>9
<1>7. CASE th[t].i # N
  <2>1. PICK s : s = th[t].i
    OBVIOUS
  <2>2. s \in Threads /\ s \in Nat /\ s + 1 \in 0 .. N
    BY <1>1, <1>7, <2>1, ThreadsAre
  <2>3. PICK next \in 0 .. N : next = s + 1
    BY <2>2
  <2>4. PICK from, to, local : /\ Go(t, from, to, local)
                               /\ local = Slot(t, next)
                               /\ from = "answer" /\ to = "answer"
    BY <1>7, <2>1, <2>3 DEF Answer
  <2>5. /\ local \in Locals /\ local.k = th[t].k /\ local.i = next
        /\ local.lfc = th[t].lfc
    BY <1>1, <2>4, SlotLocal
  <2>6. /\ machine = "up" /\ machine' = "up"
        /\ th[t].pc = from
        /\ th' \in [Threads -> Locals]
        /\ th'[t].pc = to
        /\ th'[t].k = local.k
        /\ th'[t].i = local.i
        /\ th'[t].lfc = local.lfc
        /\ \A u \in Threads \ {t} : th'[u] = th[u]
    BY <1>1, <1>2, <2>4, <2>5, GoState
  <2>7. /\ th'[t].pc = "answer" /\ th'[t].i = s + 1
        /\ th'[t].k = th[t].k /\ th'[t].lfc = th[t].lfc
    BY <2>3, <2>4, <2>5, <2>6
  <2>8. /\ fc' \in [Threads -> Nat]
        /\ \A u \in Threads \ {s} : fc'[u] = fc[u]
        /\ fc'[s] = IF th[t].lfc[s] # 0 THEN 0 ELSE fc[s]
    BY <1>1, <2>1, <2>2 DEF Answer, Collected
  <2>9. /\ \A u \in Threads : Updating(u)' <=> Updating(u)
        /\ \A u \in Threads : th'[u].k = th[u].k /\ th'[u].lfc = th[u].lfc
    BY <1>2, <2>6, <2>7 DEF Updating, UpdateLabels, WriterLabels, pc
  <2>10. LockState'
    BY <1>2, <1>5, <2>6, <2>7 DEF Logic, LockState, pc, WriterLabels,
       UpdateLabels, ReaderLabels
  <2>11. ReadersOut'
    BY <1>2, <1>4, <1>5, <2>6, <2>7 DEF Logic, ReadersOut, pc
  <2>12. SlotState'
    <3>1. \A u \in Threads : fc'[u] # 0 => fc'[u] = fc[u]
      BY <2>8
    <3>2. QED
      BY <2>9, <3>1 DEF Logic, SlotState, HasCall, Call
  <2>13. \A u \in Threads :
           /\ Unanswered(t, u)' <=> Unanswered(t, u) /\ u # s
           /\ HasRun(t, u)' <=> HasRun(t, u) /\ u # s
    <3>1. \A u \in Threads : s + 1 <= u <=> s <= u /\ u # s
      BY <1>3, <2>2
    <3>2. \A u \in Threads :
            /\ Unanswered(t, u) <=> s <= u
            /\ Unanswered(t, u)' <=> s + 1 <= u
            /\ HasRun(t, u) <=> th[t].lfc[u] # 0 /\ s <= u
            /\ HasRun(t, u)' <=> th[t].lfc[u] # 0 /\ s + 1 <= u
      BY <1>2, <2>1, <2>7 DEF Unanswered, HasRun, pc
    <3>3. QED
      BY <3>1, <3>2
  <2>14. Unanswered(t, s) /\ (HasRun(t, s) <=> th[t].lfc[s] # 0)
    BY <1>2, <2>1, <2>2 DEF Unanswered, HasRun, pc
  <2>15. CollectState'
    <3>1. ASSUME NEW x \in Threads, NEW u \in Threads
          PROVE  CollectedFrom(x, u)'
      <4>1. CollectedFrom(x, u)
        BY DEF Logic, CollectState
      <4>2. CASE x = t
        BY <1>4, <1>5, <2>7, <2>8, <2>13, <4>1, <4>2 DEF CollectedFrom, pc
      <4>3. CASE x # t
        BY <1>4, <1>5, <2>6, <4>1, <4>3 DEF CollectedFrom, Unanswered, pc
      <4>4. QED
        BY <4>2, <4>3
    <3>2. ASSUME NEW x \in Threads
          PROVE  (/\ Unanswered(x, x) /\ (pc(x) = "collect" => x < th[x].i) =>
                       fc[x] = th[x].lfc[x]
                  /\ lock = x /\ ~Unanswered(x, x) => fc[x] = 0)'
      <4>1. /\ Unanswered(x, x) /\ (pc(x) = "collect" => x < th[x].i) =>
                 fc[x] = th[x].lfc[x]
            /\ lock = x /\ ~Unanswered(x, x) => fc[x] = 0
        BY DEF Logic, CollectState
      <4>2. CASE x = t
        <5>1. pc(t) # "collect"
          BY <1>2 DEF pc
        <5>2. CASE t = s
          <6>1. fc[t] = th[t].lfc[t]
            BY <2>14, <4>1, <4>2, <5>1, <5>2
          <6>2. fc'[t] = 0
            BY <2>8, <5>2, <6>1
          <6>3. QED
            BY <2>13, <4>2, <5>2, <6>2
        <5>3. CASE t # s
          BY <1>5, <2>7, <2>8, <2>13, <4>1, <4>2, <5>1, <5>3
        <5>4. QED
          BY <5>2, <5>3
      <4>3. CASE x # t
        <5>1. pc(x) \notin WriterLabels
          BY <1>4, <4>3 DEF Logic, LockState
        <5>2. ~Unanswered(x, x)'
          BY <2>6, <4>3, <5>1 DEF Unanswered, pc, WriterLabels
        <5>3. QED
          BY <1>4, <1>5, <4>3, <5>2
      <4>4. QED
        BY <4>2, <4>3
    <3>3. QED
      BY <3>1, <3>2 DEF CollectState
  <2>16. RanState'
    <3>1. ASSUME NEW c \in Range(ran) PROVE RunOnce(c)'
      <4>1. RunOnce(c) /\ c[1] \in Threads
        BY LogicTypes DEF Logic, RanState, Range
      <4>2. QED
        BY <2>9, <4>1 DEF RunOnce
    <3>2. ASSUME NEW u \in Threads, Updating(u)'
          PROVE  IsRun(u)'
      <4>1. IsRun(u)
        BY <2>9, <3>2 DEF Logic, RanState
      <4>2. (fc'[u] = 0 \/ HasRun(t, u)') <=> (fc[u] = 0 \/ HasRun(t, u))
        BY <2>8, <2>13, <2>14
      <4>3. (\E x \in Threads : lock = x /\ HasRun(x, u)) <=> HasRun(t, u)
        BY <1>4
      <4>4. (\E x \in Threads : lock' = x /\ HasRun(x, u)') <=> HasRun(t, u)'
        BY <1>4, <1>5
      <4>5. QED
        BY <1>5, <2>9, <4>1, <4>2, <4>3, <4>4 DEF IsRun
    <3>3. QED
      BY <1>5, <3>1, <3>2 DEF RanState, Logic
  <2>17. StoreState'
    BY <1>2, <1>5, <2>6, <2>7 DEF Logic, StoreState, pc, Collected, Running,
       Stores
  <2>18. QED
    BY <1>2, <1>4, <2>6, <2>7, <2>10, <2>11, <2>12, <2>15, <2>16, <2>17
       DEF Logic
<1>8. QED
  BY <1>6, <1>7

(***************************************************************************)
(* Control over a power failure.                                           *)
(***************************************************************************)

\* After a failure every thread is idle, and no call that had been run is run
\* again.
LEMMA FailureLogic ==
  ASSUME TypeOK, Logic, NEW kept, PowerFailure(kept)
  PROVE  Logic' /\ th' \in [Threads -> Locals]
<1>1. /\ th \in [Threads -> Locals]
      /\ \A t \in Threads : th[t].k \in Nat \ {0} /\ th[t].k + 1 \in Nat \ {0}
  BY LogicTypes
<1>2. ASSUME NEW t \in Threads
      PROVE  /\ th'[t] \in Locals /\ th'[t].pc = "idle" /\ th'[t].i = 0
             /\ th'[t].k = IF th[t].pc = "idle" THEN th[t].k ELSE th[t].k + 1
             /\ \A u \in Threads : th'[t].lfc[u] = 0
  <2>1. PICK k \in Nat \ {0} :
          k = IF th[t].pc = "idle" THEN th[t].k ELSE th[t].k + 1
    BY <1>1
  <2>2. th'[t] = Local(k)
    BY <2>1 DEF PowerFailure
  <2>3. QED
    BY <2>1, <2>2, LocalType, ThreadsAre
<1>3. th' \in [Threads -> Locals]
  <2>1. th' = [t \in Threads |-> th'[t]]
    BY DEF PowerFailure
  <2>2. QED
    BY <1>2, <2>1
<1>4. /\ \A t \in Threads : fc'[t] = 0 /\ ~reading'[t] /\ t # Free
      /\ lock' = Free /\ ran' = ran /\ machine' = "recover"
  BY ThreadsAre DEF PowerFailure
<1>5. \A t \in Threads : ~Updating(t)'
  BY <1>2 DEF Updating, UpdateLabels, WriterLabels, pc
<1>6. LockState'
  BY <1>2, <1>4 DEF LockState, pc, WriterLabels
<1>7. ReadersOut' /\ StoreState'
  BY <1>2 DEF ReadersOut, StoreState, pc
<1>8. SlotState'
  BY <1>4, <1>5 DEF SlotState
<1>9. CollectState'
  BY <1>2, <1>4 DEF CollectState, CollectedFrom, Unanswered, pc
<1>10. RanState'
  <2>1. ASSUME NEW c \in Range(ran) PROVE RunOnce(c)'
    <3>1. RunOnce(c) /\ c[1] \in Threads /\ c[2] \in Nat
      BY LogicTypes DEF Logic, RanState, Range
    <3>2. th[c[1]].pc = "idle" => ~Updating(c[1])
      BY DEF Updating, UpdateLabels, WriterLabels, pc
    <3>3. c[2] <= th'[c[1]].k /\ c[2] # th'[c[1]].k
      BY <1>1, <1>2, <3>1, <3>2 DEF RunOnce
    <3>4. QED
      BY <3>1, <3>3 DEF RunOnce
  <2>2. QED
    BY <1>4, <1>5, <2>1 DEF Logic, RanState
<1>11. QED
  BY <1>3, <1>6, <1>7, <1>8, <1>9, <1>10 DEF Logic

\* Recovery keeps a prefix of the calls, and nobody is running.
LEMMA RecoverLogic ==
  ASSUME TypeOK, Logic, machine # "up",
         UNCHANGED <<th, fc, lock, reading>>,
         NEW n \in 0 .. All, ran' = SubSeq(ran, 1, n)
  PROVE  Logic' /\ Range(ran') = First(n) /\ Len(ran') = n
<1>1. ran \in Seq(Threads \X Nat) /\ n \in 0 .. Len(ran)
  BY LogicTypes DEF All
<1>2. /\ Len(ran') = n /\ DOMAIN ran' = 1 .. n /\ n \in Nat
      /\ \A m \in 1 .. n : ran'[m] = ran[m] /\ m \in DOMAIN ran
  BY <1>1
<1>3. \A t \in Threads : pc(t) = "idle" /\ pc(t)' = "idle"
  BY DEF Logic, LockState, pc
<1>4. \A t \in Threads : ~Updating(t) /\ ~Updating(t)'
  BY <1>3 DEF Updating, UpdateLabels, WriterLabels
<1>5. LockState'
  BY <1>3 DEF Logic, LockState, pc, WriterLabels
<1>6. ReadersOut' /\ StoreState'
  BY <1>3 DEF ReadersOut, StoreState
<1>7. SlotState'
  BY <1>4 DEF Logic, SlotState
<1>8. CollectState'
  BY DEF Logic, CollectState, CollectedFrom, Unanswered, pc
<1>9. Range(ran') = First(n) /\ First(n) \subseteq Range(ran)
  BY <1>2 DEF Range, First
<1>10. RanState'
  <2>1. IsInjective(ran')
    BY <1>2 DEF Logic, RanState, IsInjective
  <2>2. \A c \in Range(ran') : RunOnce(c)'
    BY <1>4, <1>9 DEF Logic, RanState, RunOnce, Updating, pc
  <2>3. QED
    BY <1>4, <2>1, <2>2 DEF RanState
<1>11. QED
  BY <1>2, <1>5, <1>6, <1>7, <1>8, <1>9, <1>10 DEF Logic

(***************************************************************************)
(* Memory, while the program is up.                                        *)
(***************************************************************************)

LEMMA MemoryTypes ==
  ASSUME TypeOK
  PROVE  /\ Memory(nvm) /\ DOMAIN pwb \subseteq Lines
         /\ log \in Seq(Words) /\ IsInjective(log) /\ logEnabled \in BOOLEAN
         /\ due \subseteq Threads \X Nat
         /\ overflowed \in BOOLEAN /\ spoilt \in BOOLEAN /\ restarts \in Nat
         /\ stale \subseteq behind /\ behind \subseteq Words
BY DEF TypeOK, Types, Memory

LEMMA TypesAre ==
  ASSUME Memory(nvm), DOMAIN pwb \subseteq Lines,
         log \in Seq(Words), IsInjective(log), logEnabled \in BOOLEAN,
         due \subseteq Threads \X Nat,
         overflowed \in BOOLEAN, spoilt \in BOOLEAN, restarts \in Nat,
         stale \subseteq behind, behind \subseteq Words,
         th \in [Threads -> Locals], fc \in [Threads -> Nat],
         lock \in Threads \cup {Free}, reading \in [Threads -> BOOLEAN],
         machine \in {"up", "recover", "fence"}, ran \in Seq(Threads \X Nat)
  PROVE  TypeOK
BY DEF TypeOK, Types, Memory, Locals

LEMMA InvIs == RInv <=> TypeOK /\ Noted /\ Logic /\ UpState /\ DownState /\ SeenState
BY DEF RInv, Control, Logic

LEMMA RangeIsFirst ==
  ASSUME ran \in Seq(Threads \X Nat)
  PROVE  Range(ran) = First(All) /\ All \in Nat
         /\ \A n \in 0 .. All : First(n) \subseteq Range(ran)
BY DEF Range, First, All

\* Whatever has been answered has been run.
LEMMA SettledIsRun ==
  /\ Logic /\ due \subseteq Range(ran) => Settled \subseteq Range(ran)
  /\ Logic' /\ due' \subseteq Range(ran') => Settled' \subseteq Range(ran')
<1>1. ASSUME Logic, due \subseteq Range(ran)
      PROVE  Settled \subseteq Range(ran)
  <2>1. ASSUME NEW u \in Threads, Updating(u), fc[u] = 0
        PROVE  <<u, th[u].k>> \in Range(ran)
    BY <1>1, <2>1 DEF Logic, RanState, IsRun
  <2>2. QED
    BY <1>1, <2>1 DEF Settled
<1>2. ASSUME Logic', due' \subseteq Range(ran')
      PROVE  Settled' \subseteq Range(ran')
  <2>1. ASSUME NEW u \in Threads, Updating(u)', fc'[u] = 0
        PROVE  <<u, th'[u].k>> \in Range(ran')
    BY <1>2, <2>1 DEF Logic, RanState, IsRun
  <2>2. QED
    BY <1>2, <2>1 DEF Settled
<1>3. QED
  BY <1>1, <1>2

LEMMA RanSame ==
  ASSUME ran' = ran
  PROVE  All' = All /\ \A n \in Nat : Effect(n)' = Effect(n) /\ First(n)' = First(n)
BY EffectSame DEF All, First

\* A step that leaves memory as it is, and the combiner where it is, or takes
\* it where nothing else is promised.
QuietPhases(p, q) ==
  \/ p = q
  \/ p = "free" /\ q = "collect"
  \/ p \in {"collect", "unlock"} /\ q = "free"
  \/ p = "wait" /\ q = "run"
  \/ p = "answer" /\ q = "copy"

LEMMA QuietStep ==
  ASSUME TypeOK, Logic, Logic', UpState,
         machine = "up", machine' = "up",
         nvm' = nvm, pwb' = pwb, log' = log, logEnabled' = logEnabled,
         ran' = ran, overflowed' = overflowed, spoilt' = spoilt,
         behind' = behind, stale' = stale,
         ~spoilt => due' \subseteq due \cup Range(ran),
         QuietPhases(Phase, Phase'),
         Todo' = Todo,
         ~spoilt /\ Phase' \in {"run", "store", "psync"} =>
           \/ Phase = "wait" \/ Settled' \subseteq Settled
           \/ \A n \in 0 .. All : Volatile(n) /\ Settled \subseteq First(n) =>
                                  Settled' \subseteq First(n)
  PROVE  UpState'
<1> SUFFICES ASSUME ~spoilt
             PROVE  UpState'
  BY DEF UpState
<1>1. ran \in Seq(Threads \X Nat) /\ All \in Nat
  BY LogicTypes DEF All
<1>2. All' = All /\ \A n \in Nat : Effect(n)' = Effect(n) /\ First(n)' = First(n)
  BY RanSame
<1>3. PICK n \in 0 .. All :
         /\ Volatile(n)
         /\ Phase \in {"run", "store", "psync"} =>
              Settled \subseteq First(n)
  BY DEF UpState
<1>4. due' \subseteq Range(ran)
  BY DEF UpState
<1>5. Volatile(n)'
  <2>1. \A w \in Words :
          /\ Now(nvm, Main(w)) = Effect(IF w \in Todo THEN All - 1 ELSE All)[w]
          /\ BackHas(w, Effect(n)[w])
          /\ logEnabled /\ w \notin Range(log) \cup stale =>
               Now(nvm, Main(w)) = Now(nvm, Back(w))
    BY <1>3 DEF Volatile
  <2>2. \A w \in Todo : All - 1 \in Nat
    <3>1. ASSUME Todo # {} PROVE ran # <<>>
      <4>1. lock \in Threads /\ pc(lock) = "store"
        BY <3>1, LogicTypes DEF Todo, Phase
      <4>2. QED
        BY <4>1 DEF Logic, StoreState
    <3>2. QED
      BY <1>1, <3>1 DEF All
  <2>3. \A w \in Words : Effect(IF w \in Todo THEN All - 1 ELSE All)' =
                         Effect(IF w \in Todo THEN All - 1 ELSE All)
    BY <1>1, <1>2, <2>2
  <2>4. (\A w \in Words :
          /\ Now(nvm, Main(w)) = Effect(IF w \in Todo THEN All - 1 ELSE All)[w]
          /\ BackHas(w, Effect(n)[w])
          /\ logEnabled /\ w \notin Range(log) \cup stale =>
               Now(nvm, Main(w)) = Now(nvm, Back(w)))'
    BY <1>1, <1>2, <2>1, <2>3 DEF BackHas
  <2>5. Phase' \notin {"run", "store", "psync", "answer", "copy"} =>
          n = All /\ log = <<>> /\ logEnabled
    BY <1>3 DEF Volatile, QuietPhases
  <2>6. QED
    BY <1>2, <2>4, <2>5 DEF Volatile
<1>6. Phase' \in {"run", "store", "psync"} =>
        Settled' \subseteq First(n)'
  <2>1. CASE Phase = "wait" /\ Phase' = "run"
    <3>1. n = All
      BY <1>3, <2>1 DEF Volatile
    <3>2. Settled' \subseteq Range(ran)
      BY <1>4, SettledIsRun
    <3>3. QED
      BY <1>1, <1>2, <3>1, <3>2, RangeIsFirst
  <2>2. CASE Phase' \in {"run", "store", "psync"} /\ Settled' \subseteq Settled
             /\ Phase # "wait"
    BY <1>2, <1>3, <2>2 DEF QuietPhases
  <2>3. CASE /\ Phase' \in {"run", "store", "psync"}
             /\ Phase # "wait" /\ ~(Settled' \subseteq Settled)
    <3>1. Phase = Phase'
      BY <2>3 DEF QuietPhases
    <3>2. QED
      BY <1>2, <1>3, <2>3, <3>1
  <2>4. QED
    BY <2>1, <2>2, <2>3 DEF QuietPhases
<1>7. ~overflowed => Durability'
  <2>1. SUFFICES ASSUME ~overflowed PROVE Durability'
    OBVIOUS
  <2>2. Durability
    BY <2>1 DEF UpState
  <2>3. QED
    BY <2>2 DEF Durability, Durable, QuietPhases
<1>8. n \in 0 .. All'
  BY <1>2
<1>9. QED
  BY <1>4, <1>5, <1>6, <1>7, <1>8 DEF UpState

LEMMA QuietReadInv ==
  ASSUME RInv, Logic', NEW t \in Threads, \A u \in Threads \ {t} : th'[u] = th[u],
         th' \in [Threads -> Locals], fc' \in [Threads -> Nat],
         lock' \in Threads \cup {Free}, reading' \in [Threads -> BOOLEAN],
         machine = "up", machine' = "up", UNCHANGED memory,
         UNCHANGED <<ran, overflowed, behind, stale, spoilt, restarts>>,
         due' \subseteq Threads \X Nat,
         ~spoilt => due' \subseteq due \cup Range(ran),
         QuietPhases(Phase, Phase'),
         Todo' = Todo,
         ~spoilt /\ Phase' \in {"run", "store", "psync"} =>
           \/ Phase = "wait" \/ Settled' \subseteq Settled
           \/ \A n \in 0 .. All : Volatile(n) /\ Settled \subseteq First(n) =>
                                  Settled' \subseteq First(n),
         pc(t)' = "read" /\ ~spoilt =>
           \A w \in Words \ th'[t].todo : th'[t].seen[w] = Effect(All)[w]
  PROVE  RInv'
<1>1. /\ TypeOK /\ Noted /\ Logic /\ UpState /\ SeenState
      /\ nvm' = nvm /\ pwb' = pwb /\ log' = log /\ logEnabled' = logEnabled
  BY InvIs DEF memory
<1>2. ran \in Seq(Threads \X Nat) /\ Range(ran) \subseteq Threads \X Nat
  BY <1>1, LogicTypes DEF Range
<1>3. TypeOK'
  BY <1>1, <1>2, MemoryTypes DEF TypeOK, Types, Memory, Locals
<1>4. Noted'
  <2>1. \A l \in DOMAIN pwb' : pwb'[l] = Now(nvm', l)
    BY <1>1 DEF Noted, Now
  <2>2. ASSUME NEW u \in Threads, pc(u)' \in AllFenced
        PROVE  DOMAIN pwb' = {}
    <3>1. lock' = u /\ u # Free
      BY <2>2, ThreadsAre DEF Logic, LockState, WriterLabels, AllFenced
    <3>2. Phase' \in AllFenced
      BY <2>2, <3>1 DEF Phase, pc
    <3>3. lock \in Threads /\ pc(lock) \in AllFenced
      BY <1>1, <3>2, LogicTypes DEF QuietPhases, Phase, AllFenced
    <3>4. QED
      BY <1>1, <3>3 DEF Noted
  <2>3. QED
    BY <2>1, <2>2 DEF Noted
<1>5. UpState'
  BY <1>1, QuietStep
<1>6. DownState'
  BY DEF DownState
<1>7. SeenState'
  <2>1. Effect(All)' = Effect(All)
    <3>1. ran' = ran /\ All \in Nat
      BY <1>2 DEF All
    <3>2. All' = All /\ Effect(All)' = Effect(All)
      BY <3>1, EffectSame DEF All
    <3>3. QED
      BY <3>2
  <2>2. ASSUME NEW u \in Threads, pc(u)' = "read", ~spoilt'
        PROVE  \A w \in Words \ th'[u].todo : th'[u].seen[w] = Effect(All)[w]
    BY <1>1, <2>2 DEF SeenState, pc
  <2>3. QED
    BY <2>1, <2>2 DEF SeenState
<1>8. QED
  BY <1>1, <1>3, <1>4, <1>5, <1>6, <1>7 DEF RInv, Control, Logic

LEMMA QuietInv ==
  ASSUME RInv, Logic', NEW t \in Threads, \A u \in Threads \ {t} : th'[u] = th[u],
         th' \in [Threads -> Locals], fc' \in [Threads -> Nat],
         lock' \in Threads \cup {Free}, reading' \in [Threads -> BOOLEAN],
         machine = "up", machine' = "up", UNCHANGED memory,
         UNCHANGED <<ran, overflowed, behind, stale, spoilt, restarts>>,
         due' \subseteq due \cup Range(ran),
         QuietPhases(Phase, Phase'),
         Todo' = Todo,
         Phase' \in {"run", "store", "psync"} =>
           Phase = "wait" \/ Settled' \subseteq Settled,
         pc(t)' = "read" /\ ~spoilt =>
           \A w \in Words \ th'[t].todo : th'[t].seen[w] = Effect(All)[w]
  PROVE  RInv'
<1>1. due' \subseteq Threads \X Nat
  <2>1. TypeOK
    BY InvIs
  <2>2. Range(ran) \subseteq Threads \X Nat
    BY <2>1, LogicTypes DEF Range
  <2>3. QED
    BY <2>1, <2>2, MemoryTypes
<1>2. QED
  BY <1>1, QuietReadInv

LEMMA AsidePhase ==
  ASSUME Logic, NEW t \in Threads, th[t].pc \notin WriterLabels, lock' = lock,
         \A u \in Threads \ {t} : th'[u] = th[u], TypeOK
  PROVE  Phase' = Phase /\ Todo' = Todo
<1>1. lock # t /\ lock \in Threads \cup {Free}
  BY LogicTypes DEF Logic, LockState, pc
<1>2. lock # Free => th'[lock] = th[lock]
  BY <1>1
<1>3. QED
  BY <1>2 DEF Phase, Todo, pc

LEMMA OwnPhase ==
  ASSUME TypeOK, Logic, NEW t \in Threads, th[t].pc \in WriterLabels
  PROVE  /\ lock = t /\ Phase = th[t].pc
         /\ Todo = IF th[t].pc = "store" THEN th[t].todo ELSE {}
         /\ lock' = lock => /\ Phase' = th'[t].pc
                            /\ Todo' = IF th'[t].pc = "store" THEN th'[t].todo
                                                              ELSE {}
<1>1. lock = t /\ t # Free
  BY ThreadsAre DEF Logic, LockState, pc
<1>2. QED
  BY <1>1 DEF Phase, Todo, pc

\* What has been answered grows only when a call is answered.
LEMMA SettledSame ==
  ASSUME NEW t \in Threads, \A u \in Threads \ {t} : th'[u] = th[u],
         \A u \in Threads \ {t} : fc'[u] = fc[u],
         due' \subseteq Settled,
         Updating(t)' /\ fc'[t] = 0 =>
           Updating(t) /\ fc[t] = 0 /\ th'[t].k = th[t].k
  PROVE  Settled' \subseteq Settled
<1>1. ASSUME NEW u \in Threads, Updating(u)', fc'[u] = 0
      PROVE  <<u, th'[u].k>> \in Settled
  BY <1>1 DEF Settled, Updating, pc
<1>2. QED
  BY <1>1 DEF Settled

(***************************************************************************)
(* The steps that leave memory alone.                                      *)
(***************************************************************************)

LEMMA StateTypes ==
  ASSUME RInv
  PROVE  /\ TypeOK /\ Noted /\ Logic /\ UpState /\ DownState /\ SeenState
         /\ th \in [Threads -> Locals] /\ fc \in [Threads -> Nat]
         /\ lock \in Threads \cup {Free} /\ reading \in [Threads -> BOOLEAN]
         /\ due \subseteq Settled
BY InvIs, LogicTypes DEF Settled

LEMMA WriteTransactionInv ==
  ASSUME RInv, NEW t \in Threads, WriteTransaction(t)
  PROVE  RInv'
<1>1. /\ TypeOK /\ Logic /\ fc \in [Threads -> Nat] /\ due \subseteq Settled
      /\ lock \in Threads \cup {Free} /\ reading \in [Threads -> BOOLEAN]
      /\ th[t].k \in Nat
  BY StateTypes, LogicTypes
<1>2. /\ Logic' /\ th' \in [Threads -> Locals]
      /\ machine = "up" /\ machine' = "up" /\ th[t].pc = "idle"
      /\ th'[t].pc = "tryLock" /\ fc'[t] # 0
      /\ \A u \in Threads \ {t} : th'[u] = th[u] /\ fc'[u] = fc[u]
  BY <1>1, WriteTransactionLogic
<1>3. /\ UNCHANGED <<memory, lock, reading>>
      /\ UNCHANGED <<ran, due, overflowed, behind, stale, spoilt, restarts>>
      /\ fc' = [fc EXCEPT ![t] = th[t].k]
  BY DEF WriteTransaction, history
<1>4. fc' \in [Threads -> Nat]
  BY <1>1, <1>3
<1>5. Phase' = Phase /\ Todo' = Todo
  BY <1>1, <1>2, <1>3, AsidePhase DEF WriterLabels
<1>6. Settled' \subseteq Settled
  BY <1>1, <1>2, <1>3, SettledSame
<1>7. pc(t)' # "read"
  BY <1>2 DEF pc
<1>8. QED
  BY <1>1, <1>2, <1>3, <1>4, <1>5, <1>6, <1>7, QuietInv DEF QuietPhases

\* The steps of LightGoto that leave memory alone.
LEMMA GotoInv ==
  ASSUME RInv, NEW t \in Threads, NEW from, NEW to, Goto(t, from, to),
         fc' = fc, lock' = lock, UNCHANGED memory, UNCHANGED history,
         \/ from = "tryLock" /\ to = "checkDone"
         \/ from = "checkDone" /\ to = "tryLock"
         \/ from = "idle" /\ to = "arrive"
         \/ from = "arrive" /\ to = "isLocked"
         \/ from = "isLocked" /\ to = "depart"
         \/ from = "depart" /\ to = "spin"
         \/ from = "spin" /\ to = "arrive",
         reading' \in [Threads -> BOOLEAN],
         reading'[t] <=> to \in {"isLocked", "depart"},
         \A u \in Threads \ {t} : reading'[u] = reading[u]
  PROVE  RInv'
<1>1. /\ TypeOK /\ Logic /\ fc \in [Threads -> Nat] /\ due \subseteq Settled
      /\ lock \in Threads \cup {Free} /\ th \in [Threads -> Locals]
  BY StateTypes
<1>2. UNCHANGED <<ran, due, overflowed, behind, stale, spoilt, restarts>>
  BY DEF history
<1>3. to \in Labels
  BY DEF Labels, UpdateLabels, WriterLabels, ReaderLabels
<1>4. /\ th[t].pc = from /\ th'[t].pc = to /\ machine = "up" /\ machine' = "up"
      /\ th'[t].k = th[t].k
      /\ \A u \in Threads \ {t} : th'[u] = th[u]
  BY <1>1, <1>3, GotoMoves
<1>5. Logic' /\ th' \in [Threads -> Locals]
  BY <1>1, <1>2, LightGoto
<1>6. Phase' = Phase /\ Todo' = Todo
  BY <1>1, <1>4, AsidePhase DEF WriterLabels
<1>7. Settled' \subseteq Settled
  <2>1. Updating(t)' => Updating(t)
    BY <1>4 DEF Updating, UpdateLabels, WriterLabels, pc
  <2>2. QED
    BY <1>1, <1>2, <1>4, <2>1, SettledSame
<1>8. pc(t)' # "read"
  BY <1>4 DEF pc
<1>9. QED
  BY <1>1, <1>2, <1>4, <1>5, <1>6, <1>7, <1>8, QuietInv DEF QuietPhases

LEMMA TryExclusiveLockInv ==
  ASSUME RInv, NEW t \in Threads, TryExclusiveLock(t)
  PROVE  RInv'
<1>1. /\ TypeOK /\ Logic /\ fc \in [Threads -> Nat] /\ due \subseteq Settled
      /\ reading \in [Threads -> BOOLEAN] /\ th \in [Threads -> Locals]
  BY StateTypes
<1>2. /\ UNCHANGED <<memory, fc, reading, history>>
      /\ UNCHANGED <<ran, due, overflowed, behind, stale, spoilt, restarts>>
  BY DEF TryExclusiveLock, history
<1>3. CASE lock # Free
  <2>1. PICK from, to : /\ Goto(t, from, to)
                        /\ from = "tryLock" /\ to = "checkDone"
    BY <1>3 DEF TryExclusiveLock
  <2>2. lock' = lock
    BY <1>3 DEF TryExclusiveLock
  <2>3. ~reading[t] /\ th[t].pc = "tryLock"
    BY <1>1 DEF TryExclusiveLock, At, Logic, LockState, pc
  <2>4. QED
    BY <1>1, <1>2, <2>1, <2>2, <2>3, GotoInv
<1>4. CASE lock = Free
  <2>1. PICK from, to : /\ Goto(t, from, to)
                        /\ from = "tryLock" /\ to = "collect"
    BY <1>4 DEF TryExclusiveLock
  <2>2. lock' = t /\ t # Free
    BY <1>4, ThreadsAre DEF TryExclusiveLock
  <2>3. to \in Labels
    BY <2>1 DEF Labels, UpdateLabels, WriterLabels
  <2>4. /\ th[t].pc = from /\ th'[t].pc = to
        /\ machine = "up" /\ machine' = "up" /\ th'[t].k = th[t].k
        /\ \A u \in Threads \ {t} : th'[u] = th[u]
    BY <1>1, <2>1, <2>3, GotoMoves
  <2>5. Logic' /\ th' \in [Threads -> Locals]
    BY <1>1, <1>2, <1>4, <2>1, <2>2, LockedLogic
  <2>6. Phase = "free" /\ Todo = {} /\ Phase' = "collect" /\ Todo' = {}
    BY <1>4, <2>1, <2>2, <2>4 DEF Phase, Todo, pc
  <2>7. pc(t)' # "read"
    BY <2>1, <2>4 DEF pc
  <2>8. QED
    BY <1>1, <1>2, <2>2, <2>4, <2>5, <2>6, <2>7, QuietInv DEF QuietPhases
<1>5. QED
  BY <1>3, <1>4

\* The caller of an answered call, or a combiner, returns.
LEMMA UpdateReturnsInv ==
  ASSUME RInv, NEW t \in Threads, NEW from, NEW seen, Return(t, from, seen),
         seen = {<<t, th[t].k>>}, UNCHANGED memory, fc' = fc, reading' = reading,
         \/ from = "checkDone" /\ fc[t] = 0 /\ lock' = lock
         \/ from = "unlock" /\ lock' = Free
         \/ /\ from = "collect" /\ th[t].i = N /\ Collected(t) = {}
            /\ lock' = Free
  PROVE  RInv'
<1>1. /\ TypeOK /\ Logic /\ fc \in [Threads -> Nat] /\ due \subseteq Settled
      /\ reading \in [Threads -> BOOLEAN] /\ th \in [Threads -> Locals]
      /\ lock \in Threads \cup {Free} /\ lock' \in Threads \cup {Free}
  BY StateTypes
<1>2. /\ UNCHANGED <<ran, overflowed, behind, stale, spoilt, restarts>>
      /\ due' = due \cup {<<t, th[t].k>>}
  BY DEF Return
<1>3. /\ Logic' /\ th' \in [Threads -> Locals]
      /\ machine = "up" /\ machine' = "up"
      /\ th[t].pc = from /\ th'[t].pc = "idle"
      /\ \A u \in Threads \ {t} : th'[u] = th[u]
      /\ <<t, th[t].k>> \in Range(ran) /\ fc[t] = 0 /\ Updating(t)
  BY <1>1, ReturnLogic
<1>4. due' \subseteq due \cup Range(ran) /\ due' \subseteq Settled
  BY <1>1, <1>2, <1>3 DEF Settled
<1>5. ~Updating(t)' /\ pc(t)' # "read"
  BY <1>3 DEF Updating, UpdateLabels, WriterLabels, pc
<1>6. Settled' \subseteq Settled
  BY <1>3, <1>4, <1>5, SettledSame
<1>7. QuietPhases(Phase, Phase') /\ Todo' = Todo
  <2>1. CASE from = "checkDone"
    BY <1>1, <1>3, <2>1, AsidePhase DEF WriterLabels, QuietPhases
  <2>2. CASE from # "checkDone"
    <3>1. th[t].pc \in WriterLabels /\ th[t].pc \in {"collect", "unlock"}
      BY <1>3, <2>2 DEF WriterLabels
    <3>2. Phase = th[t].pc /\ Todo = {}
      BY <1>1, <3>1, OwnPhase
    <3>3. Phase' = "free" /\ Todo' = {}
      BY <2>2 DEF Phase, Todo
    <3>4. QED
      BY <3>1, <3>2, <3>3 DEF QuietPhases
  <2>3. QED
    BY <2>1, <2>2
<1>8. QED
  BY <1>1, <1>2, <1>3, <1>4, <1>5, <1>6, <1>7, QuietInv

LEMMA CollectInv ==
  ASSUME RInv, NEW t \in Threads, Collect(t)
  PROVE  RInv'
<1>1. /\ TypeOK /\ Logic /\ fc \in [Threads -> Nat] /\ due \subseteq Settled
      /\ reading \in [Threads -> BOOLEAN] /\ lock \in Threads \cup {Free}
  BY StateTypes
<1>2. /\ UNCHANGED <<memory, fc, lock, reading>>
      /\ UNCHANGED <<ran, due, overflowed, behind, stale, spoilt, restarts>>
  BY DEF Collect, history
<1>3. /\ Logic' /\ th' \in [Threads -> Locals]
      /\ machine = "up" /\ machine' = "up"
      /\ th[t].pc = "collect" /\ th'[t].pc = "collect"
      /\ \A u \in Threads \ {t} : th'[u] = th[u]
  BY <1>1, CollectLogic
<1>4. Phase = "collect" /\ Phase' = "collect" /\ Todo = {} /\ Todo' = {}
  BY <1>1, <1>2, <1>3, OwnPhase DEF WriterLabels
<1>5. pc(t)' # "read"
  BY <1>3 DEF pc
<1>6. QED
  BY <1>1, <1>2, <1>3, <1>4, <1>5, QuietInv DEF QuietPhases

LEMMA AnswerInv ==
  ASSUME RInv, NEW t \in Threads, Answer(t)
  PROVE  RInv'
<1>1. /\ TypeOK /\ Logic /\ fc \in [Threads -> Nat] /\ due \subseteq Settled
      /\ reading \in [Threads -> BOOLEAN] /\ lock \in Threads \cup {Free}
  BY StateTypes
<1>2. /\ UNCHANGED <<memory, lock, reading>>
      /\ UNCHANGED <<ran, due, overflowed, behind, stale, spoilt, restarts>>
      /\ fc' \in [Threads -> Nat]
  BY <1>1 DEF Answer, history
<1>3. /\ Logic' /\ th' \in [Threads -> Locals]
      /\ machine = "up" /\ machine' = "up"
      /\ th[t].pc = "answer" /\ th'[t].pc \in {"answer", "copy"}
      /\ \A u \in Threads \ {t} : th'[u] = th[u]
  BY <1>1, AnswerLogic
<1>4. Phase = "answer" /\ Phase' \in {"answer", "copy"} /\ Todo = {} /\ Todo' = {}
  BY <1>1, <1>2, <1>3, OwnPhase DEF WriterLabels
<1>5. pc(t)' # "read"
  BY <1>3 DEF pc
<1>6. QED
  BY <1>1, <1>2, <1>3, <1>4, <1>5, QuietInv DEF QuietPhases

\* The combiner waits for the readers, or has not collected a call.
LEMMA LoopInv ==
  ASSUME RInv, NEW t \in Threads, NEW from, NEW to, NEW i \in 0 .. N,
         NEW local, Go(t, from, to, local), local = Slot(t, i),
         fc' = fc, lock' = lock, reading' = reading,
         UNCHANGED memory, UNCHANGED history,
         LoopStep(t, from, to, i),
         from \in {"wait", "run"}, to \in {"wait", "run"}
  PROVE  RInv'
<1>1. /\ TypeOK /\ Logic /\ fc \in [Threads -> Nat] /\ due \subseteq Settled
      /\ reading \in [Threads -> BOOLEAN] /\ lock \in Threads \cup {Free}
      /\ th \in [Threads -> Locals]
  BY StateTypes
<1>2. UNCHANGED <<ran, due, overflowed, behind, stale, spoilt, restarts>>
  BY DEF history
<1>3. to \in Labels
  BY DEF Labels, UpdateLabels, WriterLabels
<1>4. local \in Locals /\ local.k = th[t].k
  BY <1>1, SlotLocal
<1>5. /\ machine = "up" /\ machine' = "up"
      /\ th[t].pc = from
      /\ th' \in [Threads -> Locals]
      /\ th'[t].pc = to
      /\ th'[t].k = local.k
      /\ th'[t].i = local.i
      /\ th'[t].lfc = local.lfc
      /\ th'[t].todo = local.todo
      /\ th'[t].seen = local.seen
      /\ \A u \in Threads \ {t} : th'[u] = th[u]
  BY <1>1, <1>3, <1>4, GoState
<1>6. Logic'
  BY <1>1, <1>2, LightSlot
<1>7. Phase = from /\ Phase' = to /\ Todo = {} /\ Todo' = {}
  BY <1>1, <1>5, OwnPhase DEF WriterLabels
<1>8. pc(t)' # "read"
  BY <1>5 DEF pc
<1>9. from = to \/ (from = "wait" /\ to = "run")
  BY DEF LoopStep
<1>10. Settled' \subseteq Settled
  <2>1. Updating(t)' => Updating(t)
    BY <1>5 DEF Updating, UpdateLabels, WriterLabels, pc
  <2>2. QED
    BY <1>1, <1>2, <1>4, <1>5, <2>1, SettledSame
<1>11. QED
  BY <1>1, <1>2, <1>5, <1>6, <1>7, <1>8, <1>9, <1>10, QuietInv DEF QuietPhases

LEMMA CheckDoneInv ==
  ASSUME RInv, NEW t \in Threads, CheckDone(t)
  PROVE  RInv'
<1>1. /\ Logic /\ reading \in [Threads -> BOOLEAN]
      /\ UNCHANGED memory /\ fc' = fc /\ lock' = lock /\ reading' = reading
  BY StateTypes DEF CheckDone
<1>2. CASE fc[t] = 0
  <2>1. PICK from : from = "checkDone"
    OBVIOUS
  <2>2. PICK seen : seen = Own(t)
    OBVIOUS
  <2>3. Return(t, from, seen) /\ seen = {<<t, th[t].k>>}
    BY <1>2, <2>1, <2>2 DEF CheckDone, Own
  <2>4. QED
    BY <1>1, <1>2, <2>1, <2>3, UpdateReturnsInv
<1>3. CASE fc[t] # 0
  <2>1. PICK from, to : /\ Goto(t, from, to)
                        /\ from = "checkDone" /\ to = "tryLock"
    BY <1>3 DEF CheckDone
  <2>2. UNCHANGED history
    BY <1>3 DEF CheckDone
  <2>3. ~reading[t]
    BY <1>1, <2>1 DEF Goto, Go, At, Logic, LockState, pc
  <2>4. QED
    BY <1>1, <2>1, <2>2, <2>3, GotoInv
<1>4. QED
  BY <1>2, <1>3

LEMMA ExclusiveUnlockInv ==
  ASSUME RInv, NEW t \in Threads, ExclusiveUnlock(t)
  PROVE  RInv'
<1>1. PICK from : from = th[t].pc
  OBVIOUS
<1>2. PICK seen : seen = Own(t)
  OBVIOUS
<1>3. Return(t, from, seen) /\ seen = {<<t, th[t].k>>}
  BY <1>1, <1>2 DEF ExclusiveUnlock, Own
<1>4. /\ UNCHANGED memory /\ fc' = fc /\ reading' = reading /\ lock' = Free
      /\ \/ from = "unlock"
         \/ from = "collect" /\ th[t].i = N /\ Collected(t) = {}
  BY <1>1 DEF ExclusiveUnlock, At
<1>5. QED
  BY <1>3, <1>4, UpdateReturnsInv

LEMMA WaitForReadersInv ==
  ASSUME RInv, NEW t \in Threads, WaitForReaders(t)
  PROVE  RInv'
<1>1. /\ UNCHANGED memory /\ fc' = fc /\ lock' = lock /\ reading' = reading
      /\ UNCHANGED history
  BY DEF WaitForReaders
<1>2. th \in [Threads -> Locals] /\ th[t].i \in 0 .. N /\ N \in Nat
  BY StateTypes, LogicTypes, ThreadsAre
<1>3. CASE th[t].i < N
  <2>1. PICK i : i = IF reading[th[t].i] THEN 0 ELSE th[t].i + 1
    OBVIOUS
  <2>2. PICK from, to : from = "wait" /\ to = "wait"
    OBVIOUS
  <2>3. PICK local : local = Slot(t, i)
    OBVIOUS
  <2>4. Go(t, from, to, local)
    BY <1>2, <1>3, <2>1, <2>2, <2>3 DEF WaitForReaders
  <2>5. i \in 0 .. N
    BY <1>2, <1>3, <2>1
  <2>6. LoopStep(t, from, to, i)
    BY <1>3, <2>1, <2>2 DEF LoopStep
  <2>7. from \in {"wait", "run"} /\ to \in {"wait", "run"}
    BY <2>2
  <2>8. QED
    BY <1>1, <2>3, <2>4, <2>5, <2>6, <2>7, LoopInv
<1>4. CASE th[t].i = N
  <2>1. PICK i : i = 0
    OBVIOUS
  <2>2. PICK from, to : from = "wait" /\ to = "run"
    OBVIOUS
  <2>3. PICK local : local = Slot(t, i)
    OBVIOUS
  <2>4. Go(t, from, to, local)
    BY <1>2, <1>4, <2>1, <2>2, <2>3 DEF WaitForReaders
  <2>5. i \in 0 .. N
    BY <1>2, <2>1
  <2>6. LoopStep(t, from, to, i)
    BY <1>4, <2>1, <2>2 DEF LoopStep
  <2>7. from \in {"wait", "run"} /\ to \in {"wait", "run"}
    BY <2>2
  <2>8. QED
    BY <1>1, <2>3, <2>4, <2>5, <2>6, <2>7, LoopInv
<1>5. QED
  BY <1>3, <1>4 DEF WaitForReaders

LEMMA NotCollectedInv ==
  ASSUME RInv, NEW t \in Threads, RunFunction(t), ran' = ran
  PROVE  RInv'
<1>1. /\ UNCHANGED memory /\ fc' = fc /\ lock' = lock /\ reading' = reading
  BY DEF RunFunction
<1>2. /\ th \in [Threads -> Locals] /\ th[t].i \in 0 .. N /\ N \in Nat
      /\ ran \in Seq(Threads \X Nat)
  BY StateTypes, LogicTypes, ThreadsAre
<1>3. \A c : Append(ran, c) # ran
  BY <1>2
<1>4. /\ th[t].i < N /\ th[t].i \notin Collected(t) /\ UNCHANGED history
      /\ Go(t, "run", "run", Slot(t, th[t].i + 1))
  BY <1>3 DEF RunFunction
<1>5. PICK i : i = th[t].i + 1
  OBVIOUS
<1>6. PICK from, to : from = "run" /\ to = "run"
  OBVIOUS
<1>7. PICK local : local = Slot(t, i)
  OBVIOUS
<1>8. Go(t, from, to, local)
  BY <1>4, <1>5, <1>6, <1>7
<1>9. i \in 0 .. N
  BY <1>2, <1>4, <1>5
<1>10. LoopStep(t, from, to, i)
  BY <1>4, <1>5, <1>6 DEF LoopStep
<1>11. from \in {"wait", "run"} /\ to \in {"wait", "run"}
  BY <1>6
<1>12. QED
  BY <1>1, <1>4, <1>7, <1>8, <1>9, <1>10, <1>11, LoopInv

(***************************************************************************)
(* Readers.                                                                *)
(***************************************************************************)

LEMMA ReadTransactionInv ==
  ASSUME RInv, NEW t \in Threads, ReadTransaction(t)
  PROVE  RInv'
<1>1. PICK from, to : Goto(t, from, to) /\ from = "idle" /\ to = "arrive"
  BY DEF ReadTransaction
<1>2. /\ Logic /\ reading \in [Threads -> BOOLEAN]
      /\ UNCHANGED memory /\ fc' = fc /\ lock' = lock /\ reading' = reading
      /\ UNCHANGED history
  BY StateTypes DEF ReadTransaction
<1>3. ~reading[t]
  BY <1>1, <1>2 DEF Goto, Go, At, Logic, LockState, pc
<1>4. QED
  BY <1>1, <1>2, <1>3, GotoInv

LEMMA SpinInv ==
  ASSUME RInv, NEW t \in Threads, Spin(t)
  PROVE  RInv'
<1>1. PICK from, to : Goto(t, from, to) /\ from = "spin" /\ to = "arrive"
  BY DEF Spin
<1>2. /\ Logic /\ reading \in [Threads -> BOOLEAN]
      /\ UNCHANGED memory /\ fc' = fc /\ lock' = lock /\ reading' = reading
      /\ UNCHANGED history
  BY StateTypes DEF Spin
<1>3. ~reading[t]
  BY <1>1, <1>2 DEF Goto, Go, At, Logic, LockState, pc
<1>4. QED
  BY <1>1, <1>2, <1>3, GotoInv

LEMMA ArriveInv ==
  ASSUME RInv, NEW t \in Threads, Arrive(t)
  PROVE  RInv'
<1>1. PICK from, to : Goto(t, from, to) /\ from = "arrive" /\ to = "isLocked"
  BY DEF Arrive
<1>2. /\ reading \in [Threads -> BOOLEAN]
      /\ UNCHANGED memory /\ fc' = fc /\ lock' = lock /\ UNCHANGED history
      /\ reading' = [reading EXCEPT ![t] = TRUE]
  BY StateTypes DEF Arrive
<1>3. /\ reading' \in [Threads -> BOOLEAN] /\ reading'[t]
      /\ \A u \in Threads \ {t} : reading'[u] = reading[u]
  BY <1>2
<1>4. QED
  BY <1>1, <1>2, <1>3, GotoInv

LEMMA DepartInv ==
  ASSUME RInv, NEW t \in Threads, Depart(t)
  PROVE  RInv'
<1>1. PICK from, to : Goto(t, from, to) /\ from = "depart" /\ to = "spin"
  BY DEF Depart
<1>2. /\ reading \in [Threads -> BOOLEAN]
      /\ UNCHANGED memory /\ fc' = fc /\ lock' = lock /\ UNCHANGED history
      /\ reading' = [reading EXCEPT ![t] = FALSE]
  BY StateTypes DEF Depart
<1>3. /\ reading' \in [Threads -> BOOLEAN] /\ ~reading'[t]
      /\ \A u \in Threads \ {t} : reading'[u] = reading[u]
  BY <1>2
<1>4. QED
  BY <1>1, <1>2, <1>3, GotoInv

\* While a reader reads, nobody is storing into main.
LEMMA ReaderSeesMain ==
  ASSUME TypeOK, Logic, UpState, NEW t \in Threads, pc(t) = "read",
         machine = "up", ~spoilt, NEW w \in Words
  PROVE  Now(nvm, Main(w)) = Effect(All)[w]
<1>1. Todo = {}
  <2>1. SUFFICES ASSUME Phase = "store" PROVE FALSE
    BY DEF Todo
  <2>2. lock \in Threads /\ pc(lock) = "store"
    BY <2>1, LogicTypes DEF Phase
  <2>3. QED
    BY <2>2 DEF Logic, ReadersOut
<1>2. PICK n \in 0 .. All : Volatile(n)
  BY DEF UpState
<1>3. QED
  BY <1>1, <1>2 DEF Volatile

LEMMA IsLockedInv ==
  ASSUME RInv, NEW t \in Threads, IsLocked(t)
  PROVE  RInv'
<1>1. /\ TypeOK /\ Logic /\ fc \in [Threads -> Nat] /\ due \subseteq Settled
      /\ reading \in [Threads -> BOOLEAN] /\ lock \in Threads \cup {Free}
      /\ th \in [Threads -> Locals]
  BY StateTypes
<1>2. /\ UNCHANGED <<memory, fc, lock, reading, history>>
      /\ UNCHANGED <<ran, due, overflowed, behind, stale, spoilt, restarts>>
  BY DEF IsLocked, history
<1>3. CASE lock # Free
  <2>1. PICK from, to : /\ Goto(t, from, to)
                        /\ from = "isLocked" /\ to = "depart"
    BY <1>3 DEF IsLocked
  <2>2. reading[t]
    BY <1>1, <2>1 DEF Goto, Go, At, Logic, LockState, pc
  <2>3. QED
    BY <1>1, <1>2, <2>1, <2>2, GotoInv
<1>4. CASE lock = Free
  <2>1. PICK local : local = [th[t] EXCEPT !.todo = Words]
    OBVIOUS
  <2>2. PICK from, to : from = "isLocked" /\ to = "read"
    OBVIOUS
  <2>3. Go(t, from, to, local)
    BY <1>4, <2>1, <2>2 DEF IsLocked
  <2>4. /\ local \in Locals /\ local.k = th[t].k /\ local.i = th[t].i
        /\ local.lfc = th[t].lfc /\ local.todo = Words
    BY <1>1, <2>1 DEF Locals, LocalTypes
  <2>5. to \in Labels
    BY <2>2 DEF Labels, ReaderLabels
  <2>6. /\ machine = "up" /\ machine' = "up"
        /\ th[t].pc = from
        /\ th' \in [Threads -> Locals]
        /\ th'[t].pc = to
        /\ th'[t].k = local.k
        /\ th'[t].i = local.i
        /\ th'[t].lfc = local.lfc
        /\ th'[t].todo = local.todo
        /\ th'[t].seen = local.seen
        /\ \A u \in Threads \ {t} : th'[u] = th[u]
    <3> HIDE <2>1, <2>2
    <3> QED
      BY <1>1, <2>3, <2>4, <2>5, GoState
  <2>7. Logic'
    BY <1>1, <1>2, <1>4, <2>2, <2>3, <2>4, LightRead
  <2>8. Phase = "free" /\ Phase' = "free" /\ Todo = {} /\ Todo' = {}
    BY <1>2, <1>4 DEF Phase, Todo
  <2>9. Words \ th'[t].todo = {}
    BY <2>4, <2>6
  <2>10. QED
    BY <1>1, <1>2, <2>6, <2>7, <2>8, <2>9, QuietInv DEF QuietPhases
<1>5. QED
  BY <1>3, <1>4

LEMMA ReadInv ==
  ASSUME RInv, NEW t \in Threads, Read(t)
  PROVE  RInv'
<1>1. /\ TypeOK /\ Logic /\ fc \in [Threads -> Nat] /\ due \subseteq Settled
      /\ reading \in [Threads -> BOOLEAN] /\ lock \in Threads \cup {Free}
      /\ th \in [Threads -> Locals] /\ UpState /\ SeenState
      /\ \A u \in Threads : th[u] \in Locals
  BY StateTypes
<1>2. PICK w \in Words : Load(t, w, Now(nvm, Main(w)))
  BY DEF Read
<1>3. PICK loaded : loaded = Now(nvm, Main(w))
  OBVIOUS
<1>4. /\ UNCHANGED <<memory, fc, lock, reading, history>>
      /\ UNCHANGED <<ran, due, overflowed, behind, stale, spoilt, restarts>>
  BY <1>2 DEF Load, history
<1>5. loaded \in SUBSET Stamps
  BY <1>1, <1>3, NowType, MemoryTypes, LinesDiffer, ContentsOf
<1>6. PICK local : local = [th[t] EXCEPT !.todo = @ \ {w},
                                         !.seen = [@ EXCEPT ![w] = loaded]]
  OBVIOUS
<1>7. PICK from, to : from = "read" /\ to = "read"
  OBVIOUS
<1>8. Go(t, from, to, local)
  BY <1>2, <1>3, <1>6, <1>7 DEF Load
<1>9. /\ local \in Locals /\ local.k = th[t].k /\ local.i = th[t].i
      /\ local.lfc = th[t].lfc /\ local.todo = th[t].todo \ {w}
      /\ local.seen = [th[t].seen EXCEPT ![w] = loaded]
      /\ th[t].seen \in [Words -> SUBSET Stamps]
  BY <1>1, <1>5, <1>6 DEF Locals, LocalTypes
<1>10. to \in Labels
  BY <1>7 DEF Labels, ReaderLabels
<1>11. /\ machine = "up" /\ machine' = "up"
       /\ th[t].pc = from
       /\ th' \in [Threads -> Locals]
       /\ th'[t].pc = to
       /\ th'[t].k = local.k
       /\ th'[t].i = local.i
       /\ th'[t].lfc = local.lfc
       /\ th'[t].todo = local.todo
       /\ th'[t].seen = local.seen
       /\ \A u \in Threads \ {t} : th'[u] = th[u]
  <2>1. local \in Locals
    BY <1>9
  <2> HIDE <1>3, <1>6, <1>7
  <2> QED
    BY <1>1, <1>8, <1>10, <2>1, GoState
<1>12. Logic'
  BY <1>1, <1>4, <1>7, <1>8, <1>9, LightRead
<1>13. Phase' = Phase /\ Todo' = Todo
  <2>1. th[t].pc \notin WriterLabels
    BY <1>7, <1>11 DEF WriterLabels
  <2>2. QED
    BY <1>1, <1>4, <1>11, <2>1, AsidePhase
<1>14. Settled' \subseteq Settled
  <2>1. ~Updating(t)'
    BY <1>7, <1>11 DEF Updating, UpdateLabels, WriterLabels, pc
  <2>2. QED
    BY <1>1, <1>4, <1>11, <2>1, SettledSame
<1>15. ASSUME ~spoilt, NEW v \in Words \ th'[t].todo
       PROVE  th'[t].seen[v] = Effect(All)[v]
  <2>1. pc(t) = "read"
    BY <1>7, <1>11 DEF pc
  <2>2. CASE v = w
    BY <1>1, <1>3, <1>9, <1>11, <1>15, <2>1, <2>2, ReaderSeesMain
  <2>3. CASE v # w
    <3>1. v \in Words \ th[t].todo
      BY <1>9, <1>11, <1>15, <2>3
    <3>2. th[t].seen[v] = Effect(All)[v]
      BY <1>1, <1>15, <2>1, <3>1 DEF SeenState
    <3>3. QED
      BY <1>9, <1>11, <2>3, <3>2
  <2>4. QED
    BY <2>2, <2>3
<1>16. QED
  BY <1>1, <1>4, <1>11, <1>12, <1>13, <1>14, <1>15, QuietInv DEF QuietPhases

LEMMA SharedUnlockInv ==
  ASSUME RInv, NEW t \in Threads, SharedUnlock(t)
  PROVE  RInv'
<1>1. /\ TypeOK /\ Logic /\ fc \in [Threads -> Nat] /\ due \subseteq Settled
      /\ reading \in [Threads -> BOOLEAN] /\ lock \in Threads \cup {Free}
      /\ th \in [Threads -> Locals] /\ UpState /\ SeenState
      /\ \A u \in Threads : th[u] \in Locals
  BY StateTypes
<1>2. PICK from, seen : from = "read" /\ seen = Effective(th[t].seen)
  OBVIOUS
<1>3. /\ Return(t, from, seen) /\ th[t].todo = {}
      /\ UNCHANGED memory /\ fc' = fc /\ lock' = lock
      /\ reading' = [reading EXCEPT ![t] = FALSE]
  BY <1>2 DEF SharedUnlock, HasRead
<1>4. /\ due' = due \cup seen
      /\ UNCHANGED <<ran, overflowed, behind, stale, spoilt, restarts>>
  BY <1>3 DEF Return
<1>5. /\ Logic' /\ th' \in [Threads -> Locals]
      /\ machine = "up" /\ machine' = "up"
      /\ th[t].pc = from /\ th'[t].pc = "idle"
      /\ \A u \in Threads \ {t} : th'[u] = th[u]
  BY <1>1, <1>2, <1>3, ReturnLogic
<1>6. reading' \in [Threads -> BOOLEAN]
  BY <1>1, <1>3
<1>7. ~spoilt => seen \subseteq Range(ran)
  <2>1. SUFFICES ASSUME ~spoilt PROVE seen \subseteq Range(ran)
    OBVIOUS
  <2>2. \A w \in Words : th[t].seen[w] = Effect(All)[w]
    BY <1>1, <1>2, <1>3, <1>5, <2>1 DEF SeenState, pc
  <2>3. seen = Effective(Effect(All))
    BY <1>2, <2>2 DEF Effective
  <2>4. Range(ran) = First(All) /\ All \in Nat
    BY <1>1, LogicTypes, RangeIsFirst
  <2>5. QED
    BY <2>3, <2>4, EffectiveFirst
<1>8. due' \subseteq Threads \X Nat
  <2>1. th[t].seen \in [Words -> SUBSET Stamps]
    BY <1>1 DEF Locals, LocalTypes
  <2>2. seen \subseteq Threads \X Nat
    BY <1>2, <2>1 DEF Effective, Stamps
  <2>3. QED
    BY <1>1, <1>4, <2>2, MemoryTypes
<1>9. th[t].pc \notin WriterLabels /\ pc(t) = "read"
  BY <1>2, <1>5 DEF WriterLabels, pc
<1>10. Phase' = Phase /\ Todo' = Todo
  BY <1>1, <1>3, <1>5, <1>9, AsidePhase
<1>11. Phase' \notin {"run", "store", "psync"}
  <2>1. SUFFICES ASSUME Phase \in {"run", "store", "psync"} PROVE FALSE
    BY <1>10
  <2>2. lock \in Threads /\ pc(lock) \in {"run", "store", "psync"}
    BY <1>1, <2>1 DEF Phase
  <2>3. QED
    BY <1>1, <1>9, <2>2 DEF Logic, ReadersOut
<1>12. pc(t)' # "read"
  BY <1>5 DEF pc
<1>13. ~spoilt => due' \subseteq due \cup Range(ran)
  BY <1>4, <1>7
<1>14. QED
  BY <1>1, <1>3, <1>4, <1>5, <1>6, <1>8, <1>10, <1>11, <1>12, <1>13,
     QuietReadInv DEF QuietPhases

\* A reader that is not in returns, with calls it has seen elsewhere: no step
\* of RomulusLog, but one of RomulusLR, see RomulusLRProofs.
LEMMA ReaderReturnsInv ==
  ASSUME RInv, NEW t \in Threads, NEW from, from = "arrive", NEW seen,
         Return(t, from, seen),
         UNCHANGED memory, fc' = fc, lock' = lock, reading' = reading,
         seen \subseteq Threads \X Nat,
         ~spoilt => seen \subseteq Range(ran),
         ~spoilt /\ Phase \in {"run", "store", "psync"} =>
           \A n \in 0 .. All : Volatile(n) => seen \subseteq First(n)
  PROVE  RInv'
<1>1. /\ TypeOK /\ Logic /\ fc \in [Threads -> Nat] /\ due \subseteq Settled
      /\ reading \in [Threads -> BOOLEAN] /\ lock \in Threads \cup {Free}
      /\ th \in [Threads -> Locals] /\ UpState /\ due \subseteq Threads \X Nat
      /\ ran \in Seq(Threads \X Nat)
  BY StateTypes, LogicTypes, MemoryTypes
<1>2. /\ due' = due \cup seen
      /\ UNCHANGED <<ran, overflowed, behind, stale, spoilt, restarts>>
  BY DEF Return
<1>3. /\ Logic' /\ th' \in [Threads -> Locals]
      /\ machine = "up" /\ machine' = "up"
      /\ th[t].pc = from /\ th'[t].pc = "idle"
      /\ \A u \in Threads \ {t} : th'[u] = th[u]
  BY <1>1, ReturnLogic
<1>4. th[t].pc \notin WriterLabels /\ pc(t)' # "read"
  BY <1>3 DEF WriterLabels, pc
<1>5. Phase' = Phase /\ Todo' = Todo
  BY <1>1, <1>3, <1>4, AsidePhase
<1>6. due' \subseteq Threads \X Nat
  BY <1>1, <1>2
<1>7. ~spoilt => due' \subseteq due \cup Range(ran)
  BY <1>2
<1>8. Settled' \subseteq Settled \cup seen
  <2>1. ASSUME NEW u \in Threads, Updating(u)', fc'[u] = 0
        PROVE  Updating(u) /\ fc[u] = 0 /\ th'[u] = th[u]
    BY <1>3, <2>1 DEF Updating, pc, UpdateLabels, WriterLabels
  <2>2. QED
    BY <1>2, <2>1 DEF Settled
<1>9. ~spoilt /\ Phase' \in {"run", "store", "psync"} =>
        \A n \in 0 .. All : Volatile(n) /\ Settled \subseteq First(n) =>
                           Settled' \subseteq First(n)
  BY <1>5, <1>8
<1>10. QED
  BY <1>1, <1>2, <1>3, <1>4, <1>5, <1>6, <1>7, <1>9, QuietReadInv
     DEF QuietPhases

(***************************************************************************)
(* The steps of the combiner that change memory.                           *)
(***************************************************************************)

\* No reader is there to see what the combiner does.
LEMMA WriterSeen ==
  ASSUME TypeOK, Logic, SeenState, NEW t \in Threads,
         th[t].pc \in WriterLabels, th'[t].pc # "read",
         \A u \in Threads \ {t} : th'[u] = th[u], spoilt' = spoilt,
         ran' = ran \/ th[t].pc \notin {"collect", "wait"}
  PROVE  SeenState'
<1>1. ASSUME NEW u \in Threads, pc(u)' = "read", ~spoilt'
      PROVE  \A w \in Words \ th'[u].todo : th'[u].seen[w] = Effect(All)'[w]
  <2>1. u # t /\ th'[u] = th[u] /\ pc(u) = "read"
    BY <1>1 DEF pc
  <2>2. lock = t
    BY DEF Logic, LockState, pc
  <2>3. ran' = ran
    BY <2>1, <2>2 DEF Logic, ReadersOut, pc
  <2>4. Effect(All)' = Effect(All)
    BY <2>3, LogicTypes, RanSame DEF All
  <2>5. QED
    BY <1>1, <2>1, <2>4 DEF SeenState
<1>2. QED
  BY <1>1 DEF SeenState

LEMMA WriterInv ==
  ASSUME RInv, NEW t \in Threads,
         th[t].pc \in WriterLabels, th'[t].pc # "read",
         \A u \in Threads \ {t} : th'[u] = th[u], th' \in [Threads -> Locals],
         Logic', machine' = "up",
         Memory(nvm'), DOMAIN pwb' \subseteq Lines,
         \A l \in DOMAIN pwb' : pwb'[l] = Now(nvm', l),
         th'[t].pc \in AllFenced => DOMAIN pwb' = {},
         log' \in Seq(Words), IsInjective(log'), logEnabled' \in BOOLEAN,
         fc' = fc, lock' = lock, reading' = reading, due' = due,
         ran' \in Seq(Threads \X Nat), overflowed' \in BOOLEAN,
         stale' \subseteq behind', behind' \subseteq Words,
         spoilt' = spoilt, restarts' = restarts,
         ran' = ran \/ th[t].pc \notin {"collect", "wait"},
         ~spoilt => UpState'
  PROVE  RInv'
<1>1. /\ TypeOK /\ Logic /\ SeenState
      /\ due \subseteq Threads \X Nat
      /\ spoilt \in BOOLEAN /\ restarts \in Nat
  BY StateTypes, MemoryTypes
<1>2. SeenState'
  BY <1>1, WriterSeen
<1>3. TypeOK'
  BY <1>1 DEF TypeOK, Types, Memory, Locals
<1>4. Noted' /\ DownState'
  <2>1. ASSUME NEW u \in Threads \ {t} PROVE pc(u)' \notin WriterLabels
    BY <1>1 DEF Logic, LockState, pc
  <2>2. \A u \in Threads : pc(u)' \in AllFenced => DOMAIN pwb' = {}
    BY <2>1 DEF WriterLabels, AllFenced, pc
  <2>3. QED
    BY <2>2 DEF Noted, DownState
<1>5. UpState'
  BY DEF UpState
<1>6. QED
  BY <1>2, <1>3, <1>4, <1>5 DEF RInv, Control, Logic

\* A fence leaves the last content of a line, or all there were.
LEMMA VersionsKept ==
  ASSUME NEW mem, Memory(mem), NEW after, NEW l \in Lines, NEW effect,
         \A i \in DOMAIN mem[l] : mem[l][i] \subseteq effect,
         after[l] = mem[l] \/ after[l] = <<Now(mem, l)>>
  PROVE  \A i \in DOMAIN after[l] : after[l][i] \subseteq effect
<1>1. Len(mem[l]) \in DOMAIN mem[l]
  BY DEF Memory
<1>2. CASE after[l] = mem[l]
  BY <1>2
<1>3. CASE after[l] = <<Now(mem, l)>>
  <2>1. \A i \in DOMAIN after[l] : after[l][i] = Now(mem, l)
    BY <1>3
  <2>2. QED
    BY <1>1, <2>1 DEF Now
<1>4. QED
  BY <1>2, <1>3

\* What the memory is worth, when it is only fenced, or the state is stored.
LEMMA VolatileSame ==
  ASSUME TypeOK, ran' = ran, stale' = stale, NEW n \in 0 .. All, Volatile(n),
         Todo = {}, Todo' = {}, log' = log, logEnabled' = logEnabled,
         Memory(nvm), Memory(nvm'),
         \A w \in Words :
           /\ Now(nvm', Main(w)) = Now(nvm, Main(w))
           /\ Now(nvm', Back(w)) = Now(nvm, Back(w))
           /\ \/ nvm'[Back(w)] = nvm[Back(w)]
              \/ nvm'[Back(w)] = <<Now(nvm, Back(w))>>,
         \/ Phase' \in {"run", "store", "psync", "answer", "copy"}
         \/ Phase \notin {"run", "store", "psync", "answer", "copy"}
  PROVE  Volatile(n)' /\ n \in 0 .. All'
<1>1. All \in Nat /\ n \in Nat
  BY LogicTypes DEF All
<1>2. All' = All /\ Effect(All)' = Effect(All) /\ Effect(n)' = Effect(n)
  BY <1>1, RanSame
<1>3. ASSUME NEW w \in Words
      PROVE  /\ Now(nvm', Main(w)) = Effect(All)'[w]
             /\ BackHas(w, Effect(n)[w])'
             /\ logEnabled' /\ w \notin Range(log') \cup stale' =>
                  Now(nvm', Main(w)) = Now(nvm', Back(w))
  <2>1. BackHas(w, Effect(n)[w])
    BY DEF Volatile
  <2>2. BackHas(w, Effect(n)[w])'
    <3>1. Back(w) \in Lines
      BY LinesDiffer
    <3>2. \A i \in DOMAIN nvm'[Back(w)] : nvm'[Back(w)][i] \subseteq Effect(n)[w]
      BY <2>1, <3>1, VersionsKept DEF BackHas
    <3>3. QED
      BY <1>2, <2>1, <3>2 DEF BackHas
  <2>3. QED
    BY <1>2, <2>2 DEF Volatile
<1>4. Phase' \notin {"run", "store", "psync", "answer", "copy"} =>
        n = All' /\ log' = <<>> /\ logEnabled'
  BY <1>2 DEF Volatile
<1>5. QED
  BY <1>2, <1>3, <1>4 DEF Volatile

\* Where the combiner is, it has no store to make.
LEMMA MovesPhase ==
  ASSUME TypeOK, Logic, NEW t \in Threads, th[t].pc \in WriterLabels \ {"store"},
         lock' = lock, th'[t].pc # "store"
  PROVE  /\ Phase = th[t].pc /\ Phase' = th'[t].pc
         /\ Todo = {} /\ Todo' = {}
BY OwnPhase

\* Fences and stores into the state leave the words alone.
LEMMA FencedState ==
  ASSUME NEW mem, Memory(mem), NEW noted,
         \A l \in DOMAIN noted : noted[l] = Now(mem, l),
         NEW state \in Contents(State), NEW after,
         after = Stored(Fenced(mem, noted), State, state)
  PROVE  /\ Memory(after) /\ Now(after, State) = state
         /\ \A w \in Words :
              /\ Now(after, Main(w)) = Now(mem, Main(w))
              /\ Now(after, Back(w)) = Now(mem, Back(w))
              /\ after[Main(w)] = IF Main(w) \in DOMAIN noted
                                  THEN <<Now(mem, Main(w))>> ELSE mem[Main(w)]
              /\ after[Back(w)] = IF Back(w) \in DOMAIN noted
                                  THEN <<Now(mem, Back(w))>> ELSE mem[Back(w)]
         /\ State \notin DOMAIN noted /\ Now(mem, State) # state =>
              after[State] = Append(mem[State], state)
<1>1. PICK f : f = Fenced(mem, noted)
  OBVIOUS
<1>2. /\ Memory(f)
      /\ \A l \in Lines :
           /\ Now(f, l) = Now(mem, l)
           /\ f[l] = IF l \in DOMAIN noted THEN <<Now(mem, l)>> ELSE mem[l]
  BY <1>1, FencedMemory
<1>3. State \in Lines /\ after = Stored(f, State, state)
  BY <1>1, LinesDiffer
<1>4. /\ Memory(after) /\ Now(after, State) = state
      /\ state # Now(f, State) => after[State] = Append(f[State], state)
      /\ \A l \in Lines \ {State} : /\ after[l] = f[l]
                                    /\ Now(after, l) = Now(f, l)
  <2> HIDE <1>1
  <2> QED
    BY <1>2, <1>3, StoredMemory
<1>5. \A w \in Words : /\ Main(w) \in Lines \ {State}
                       /\ Back(w) \in Lines \ {State}
  BY LinesDiffer
<1>6. State \notin DOMAIN noted /\ Now(mem, State) # state =>
        after[State] = Append(mem[State], state)
  <2>1. /\ Now(f, State) = Now(mem, State)
        /\ State \notin DOMAIN noted => f[State] = mem[State]
    BY <1>2, <1>3
  <2>2. state # Now(f, State) => after[State] = Append(f[State], state)
    BY <1>4
  <2>3. QED
    BY <2>1, <2>2, Zenon
<1>7. QED
  BY <1>2, <1>4, <1>5, <1>6

LEMMA LoopMoves ==
  ASSUME th \in [Threads -> Locals], NEW t \in Threads, NEW from, NEW to,
         NEW i \in 0 .. N, NEW local, local = Slot(t, i), Go(t, from, to, local),
         to \in WriterLabels
  PROVE  /\ machine = "up" /\ machine' = "up"
         /\ th[t].pc = from /\ th'[t].pc = to
         /\ th'[t].k = th[t].k
         /\ \A u \in Threads \ {t} : th'[u] = th[u]
<1>1. local \in Locals /\ local.k = th[t].k /\ to \in Labels
  BY SlotLocal DEF Labels, UpdateLabels
<1>2. /\ machine = "up" /\ machine' = "up"
      /\ th[t].pc = from
      /\ th' \in [Threads -> Locals]
      /\ th'[t].pc = to
      /\ th'[t].k = local.k
      /\ th'[t].i = local.i
      /\ th'[t].lfc = local.lfc
      /\ th'[t].todo = local.todo
      /\ th'[t].seen = local.seen
      /\ \A u \in Threads \ {t} : th'[u] = th[u]
  BY <1>1, GoState
<1>3. QED
  BY <1>1, <1>2

LEMMA SetMutatingInv ==
  ASSUME RInv, NEW t \in Threads, SetMutating(t)
  PROVE  RInv'
<1>1. /\ TypeOK /\ Logic /\ Noted /\ UpState /\ due \subseteq Settled
      /\ th \in [Threads -> Locals] /\ N \in Nat
      /\ Memory(nvm) /\ DOMAIN pwb \subseteq Lines /\ Free \notin Threads
      /\ log \in Seq(Words) /\ IsInjective(log) /\ logEnabled \in BOOLEAN
      /\ ran \in Seq(Threads \X Nat) /\ overflowed \in BOOLEAN
      /\ stale \subseteq behind /\ behind \subseteq Words
  BY StateTypes, LogicTypes, MemoryTypes, ThreadsAre
<1>2. /\ UNCHANGED <<log, logEnabled, fc, lock, reading>> /\ pwb' = <<>>
      /\ UNCHANGED <<ran, due, overflowed, behind, stale, spoilt, restarts>>
      /\ th[t].i = N
  BY DEF SetMutating, history
<1>0. PICK i \in 0 .. N : i = 0
  BY ThreadsAre
<1>3. PICK from, to, local :
        /\ i = 0 /\ from = "collect" /\ to = "wait" /\ local = Slot(t, i)
  BY <1>1, <1>0
<1>4. Go(t, from, to, local)
  BY <1>3 DEF SetMutating
<1>5. Logic' /\ th' \in [Threads -> Locals]
  <2>1. LoopStep(t, from, to, i)
    BY <1>2, <1>3 DEF LoopStep
  <2>2. QED
    BY <1>1, <1>2, <1>3, <1>4, <2>1, LightSlot
<1>6. /\ th[t].pc = "collect" /\ th'[t].pc = "wait"
      /\ machine = "up" /\ machine' = "up" /\ th'[t].k = th[t].k
      /\ \A u \in Threads \ {t} : th'[u] = th[u]
  <2>1. to \in WriterLabels
    BY <1>3 DEF WriterLabels
  <2>2. /\ machine = "up" /\ machine' = "up"
        /\ th[t].pc = from /\ th'[t].pc = to
        /\ th'[t].k = th[t].k
        /\ \A u \in Threads \ {t} : th'[u] = th[u]
    <3>1. th \in [Threads -> Locals] /\ local = Slot(t, i)
      BY <1>1, <1>3
    <3> HIDE <1>3
    <3> QED
      BY <1>4, <2>1, <3>1, LoopMoves
  <2>3. QED
    BY <1>3, <2>2
<1>7. /\ th[t].pc \in WriterLabels /\ th'[t].pc # "read"
      /\ Phase = "collect" /\ Phase' = "wait" /\ Todo = {} /\ Todo' = {}
  BY <1>1, <1>2, <1>6, MovesPhase DEF WriterLabels
<1>8. PICK stored : stored = Stored(nvm, State, "MUTATING")
  OBVIOUS
<1>9. PICK noted : noted = WrittenBack(pwb, stored, {State})
  OBVIOUS
<1>10. nvm' = Fenced(stored, noted)
  BY <1>8, <1>9 DEF SetMutating
<1>11. /\ State \in Lines /\ "MUTATING" \in Contents(State)
       /\ \A w \in Words : /\ Main(w) \in Lines \ {State}
                           /\ Back(w) \in Lines \ {State}
  BY LinesDiffer, ContentsOf
<1>12. /\ Memory(stored) /\ Now(stored, State) = "MUTATING"
       /\ \A l \in Lines \ {State} : /\ stored[l] = nvm[l]
                                     /\ Now(stored, l) = Now(nvm, l)
  BY <1>1, <1>8, <1>11, StoredMemory
<1>13. /\ State \in DOMAIN noted
       /\ \A l \in DOMAIN noted : noted[l] = Now(stored, l)
  <2>1. \A l \in DOMAIN pwb \ {State} : pwb[l] = Now(stored, l)
    BY <1>1, <1>12 DEF Noted
  <2>2. QED
    BY <1>9, <2>1 DEF WrittenBack
<1>14. /\ Memory(nvm')
       /\ \A l \in Lines :
            /\ Now(nvm', l) = Now(stored, l)
            /\ nvm'[l] = IF l \in DOMAIN noted THEN <<Now(stored, l)>>
                                               ELSE stored[l]
  <2> HIDE <1>8, <1>9
  <2> QED
    BY <1>10, <1>12, <1>13, FencedMemory
<1>15. nvm'[State] = <<"MUTATING">>
  BY <1>11, <1>12, <1>13, <1>14
<1>16. \A l \in Lines \ {State} :
         /\ Now(nvm', l) = Now(nvm, l)
         /\ nvm'[l] = nvm[l] \/ nvm'[l] = <<Now(nvm, l)>>
         /\ Len(nvm[l]) = 1 => Len(nvm'[l]) = 1
  <2>1. \A x : Len(<<x>>) = 1
    OBVIOUS
  <2>2. ASSUME NEW l \in Lines \ {State}, Len(nvm[l]) = 1
        PROVE  Len(nvm'[l]) = 1
    <3>1. nvm'[l] = <<Now(stored, l)>> \/ nvm'[l] = nvm[l]
      BY <1>12, <1>14
    <3>2. QED
      BY <2>1, <2>2, <3>1, Zenon
  <2>3. QED
    BY <1>12, <1>14, <2>2
<1>17. DOMAIN pwb' = {}
  BY <1>2
<1>18. ASSUME ~spoilt PROVE UpState'
  <2>1. PICK n \in 0 .. All : Volatile(n)
    BY <1>1, <1>6, <1>18 DEF UpState
  <2>2. Volatile(n)' /\ n \in 0 .. All'
    <3>1. \A w \in Words :
            /\ Now(nvm', Main(w)) = Now(nvm, Main(w))
            /\ Now(nvm', Back(w)) = Now(nvm, Back(w))
            /\ \/ nvm'[Back(w)] = nvm[Back(w)]
               \/ nvm'[Back(w)] = <<Now(nvm, Back(w))>>
      BY <1>11, <1>16
    <3>2. ran' = ran /\ stale' = stale /\ log' = log
          /\ logEnabled' = logEnabled
      BY <1>2
    <3>3. Phase \notin {"run", "store", "psync", "answer", "copy"}
      BY <1>7
    <3>4. QED
      BY <1>1, <1>7, <1>14, <2>1, <3>1, <3>2, <3>3, VolatileSame
  <2>3. ~overflowed' => Durability'
    <3>1. SUFFICES ASSUME ~overflowed PROVE Durability'
      BY <1>2
    <3>2. Durability
      BY <1>1, <1>6, <1>18, <3>1 DEF UpState
    <3>3. \A w \in Words : /\ Durable(Main(w))'
                           /\ w \in behind' \/ Durable(Back(w))'
      BY <1>2, <1>7, <1>11, <1>16, <3>2 DEF Durability, Durable
    <3>4. logEnabled'
      BY <1>2, <3>2 DEF Durability
    <3>5. QED
      BY <1>7, <1>15, <3>3, <3>4 DEF Durability
  <2>4. due' \subseteq Range(ran')
    BY <1>1, <1>2, <1>6, <1>18 DEF UpState
  <2>5. QED
    BY <1>7, <2>2, <2>3, <2>4 DEF UpState
<1>19. QED
  <2>1. \A l \in DOMAIN pwb' : pwb'[l] = Now(nvm', l)
    BY <1>17
  <2>2. DOMAIN pwb' \subseteq Lines
    BY <1>17
  <2> HIDE <1>8, <1>9, <1>3
  <2>3. QED
    BY <1>1, <1>2, <1>5, <1>6, <1>7, <1>14, <1>17, <1>18, <2>1, <2>2,
       WriterInv

LEMMA RangeOfLog ==
  ASSUME log \in Seq(Words)
  PROVE  Range(log) \subseteq Words
BY DEF Range

LEMMA AppendOne ==
  ASSUME NEW S, NEW a \in S, NEW b \in S
  PROVE  Append(<<a>>, b) = <<a, b>>
<1> DEFINE s == Append(<<a>>, b)
           p == <<a, b>>
<1>1. s \in Seq(S) /\ p \in Seq(S) /\ Len(s) = 2 /\ Len(p) = 2
  OBVIOUS
<1>2. s[1] = a /\ s[2] = b /\ p[1] = a /\ p[2] = b
  OBVIOUS
<1> HIDE DEF s, p
<1>3. \A i \in 1 .. 2 : s[i] = p[i]
  <2>1. 1 .. 2 = {1, 2}
    OBVIOUS
  <2>2. QED
    BY <1>2, <2>1
<1>4. s = p
  BY <1>1, <1>3, SeqEqual
<1>5. QED
  BY <1>4 DEF s, p

LEMMA SetCopyingInv ==
  ASSUME RInv, NEW t \in Threads, SetCopying(t)
  PROVE  RInv'
<1>1. /\ TypeOK /\ Logic /\ Noted /\ UpState /\ due \subseteq Settled
      /\ th \in [Threads -> Locals] /\ N \in Nat /\ fc \in [Threads -> Nat]
      /\ Memory(nvm) /\ DOMAIN pwb \subseteq Lines /\ Free \notin Threads
      /\ log \in Seq(Words) /\ IsInjective(log) /\ logEnabled \in BOOLEAN
      /\ ran \in Seq(Threads \X Nat) /\ overflowed \in BOOLEAN
      /\ stale \subseteq behind /\ behind \subseteq Words
  BY StateTypes, LogicTypes, MemoryTypes, ThreadsAre
<1>2. /\ UNCHANGED <<log, logEnabled, fc, lock, reading>>
      /\ UNCHANGED <<ran, due, overflowed, behind, stale, spoilt, restarts>>
      /\ th[t].i = N
  BY DEF SetCopying, history
<1>0. PICK i \in 0 .. N : i = 0
  BY ThreadsAre
<1>3. PICK from, to, local :
        /\ i = 0 /\ from = "run" /\ to = "psync" /\ local = Slot(t, i)
  BY <1>1, <1>0
<1>4. Go(t, from, to, local)
  BY <1>3 DEF SetCopying
<1>5. Logic' /\ th' \in [Threads -> Locals]
  <2>1. LoopStep(t, from, to, i)
    BY <1>2, <1>3 DEF LoopStep
  <2>2. QED
    BY <1>1, <1>2, <1>3, <1>4, <2>1, LightSlot
<1>6. /\ th[t].pc = "run" /\ th'[t].pc = "psync"
      /\ machine = "up" /\ machine' = "up" /\ th'[t].k = th[t].k
      /\ \A u \in Threads \ {t} : th'[u] = th[u]
  <2>1. to \in WriterLabels
    BY <1>3 DEF WriterLabels
  <2>2. /\ machine = "up" /\ machine' = "up"
        /\ th[t].pc = from /\ th'[t].pc = to
        /\ th'[t].k = th[t].k
        /\ \A u \in Threads \ {t} : th'[u] = th[u]
    <3>1. th \in [Threads -> Locals] /\ local = Slot(t, i)
      BY <1>1, <1>3
    <3> HIDE <1>3
    <3> QED
      BY <1>4, <2>1, <3>1, LoopMoves
  <2>3. QED
    BY <1>3, <2>2
<1>7. /\ th[t].pc \in WriterLabels /\ th'[t].pc # "read"
      /\ th'[t].pc \notin AllFenced
      /\ Phase = "run" /\ Phase' = "psync" /\ Todo = {} /\ Todo' = {}
  BY <1>1, <1>2, <1>6, MovesPhase DEF WriterLabels, AllFenced
<1>8. PICK flushed :
        flushed = WrittenBack(pwb, nvm, {Main(w) : w \in Range(log)})
  OBVIOUS
<1>9. /\ DOMAIN flushed = {Main(w) : w \in Range(log)} \cup DOMAIN pwb
      /\ \A l \in DOMAIN flushed : flushed[l] = Now(nvm, l)
  BY <1>1, <1>8 DEF WrittenBack, Noted
<1>10. PICK state : state = "COPYING"
  OBVIOUS
<1>11. nvm' = Stored(Fenced(nvm, flushed), State, state)
  BY <1>8, <1>10 DEF SetCopying
<1>12. state \in Contents(State)
  BY <1>10, ContentsOf
<1>13. /\ Memory(nvm') /\ Now(nvm', State) = state
       /\ \A w \in Words :
            /\ Now(nvm', Main(w)) = Now(nvm, Main(w))
            /\ Now(nvm', Back(w)) = Now(nvm, Back(w))
            /\ nvm'[Main(w)] = IF Main(w) \in DOMAIN flushed
                               THEN <<Now(nvm, Main(w))>> ELSE nvm[Main(w)]
            /\ nvm'[Back(w)] = IF Back(w) \in DOMAIN flushed
                               THEN <<Now(nvm, Back(w))>> ELSE nvm[Back(w)]
       /\ State \notin DOMAIN flushed /\ Now(nvm, State) # state =>
            nvm'[State] = Append(nvm[State], state)
  <2> HIDE <1>8, <1>10
  <2>1. Memory(nvm) /\ \A l \in DOMAIN flushed : flushed[l] = Now(nvm, l)
    BY <1>1, <1>9
  <2> QED
    BY <2>1, <1>11, <1>12, FencedState
<1>14. DOMAIN pwb' = {State} /\ \A l \in DOMAIN pwb' : pwb'[l] = Now(nvm', l)
  <2>1. pwb' = WrittenBack(<<>>, nvm', {State})
    BY DEF SetCopying
  <2>2. DOMAIN <<>> = {}
    OBVIOUS
  <2>3. QED
    BY <2>1, <2>2 DEF WrittenBack
<1>15. ASSUME ~spoilt PROVE UpState'
  <2>1. PICK n \in 0 .. All :
           /\ Volatile(n)
           /\ Settled \subseteq First(n)
    BY <1>1, <1>6, <1>7, <1>15 DEF UpState
  <2>2. Volatile(n)' /\ n \in 0 .. All'
    BY <1>1, <1>2, <1>7, <1>13, <2>1, VolatileSame
  <2>3. ~overflowed' => Durability'
    <3>1. SUFFICES ASSUME ~overflowed PROVE Durability'
      BY <1>2
    <3>2. Durability
      BY <1>1, <1>6, <1>15, <3>1 DEF UpState
    <3>3. \A w \in Words : /\ Durable(Main(w))'
                           /\ w \in behind' \/ Durable(Back(w))'
      <4>1. \A x : Len(<<x>>) = 1
        OBVIOUS
      <4>2. ASSUME NEW w \in Words PROVE Durable(Main(w))'
        <5>1. Durable(Main(w)) \/ Main(w) \in DOMAIN flushed
          BY <1>9, <3>2 DEF Durability
        <5>2. \/ nvm'[Main(w)] = <<Now(nvm, Main(w))>>
              \/ nvm'[Main(w)] = nvm[Main(w)] /\ Durable(Main(w))
          BY <1>13, <5>1
        <5>3. QED
          BY <4>1, <5>2, Zenon DEF Durable
      <4>3. ASSUME NEW w \in Words, w \notin behind' PROVE Durable(Back(w))'
        <5>1. Durable(Back(w))
          BY <1>2, <1>7, <3>2, <4>3 DEF Durability
        <5>2. \/ nvm'[Back(w)] = <<Now(nvm, Back(w))>>
              \/ nvm'[Back(w)] = nvm[Back(w)]
          BY <1>13
        <5>3. QED
          BY <4>1, <5>1, <5>2, Zenon DEF Durable
      <4>4. QED
        BY <4>2, <4>3
    <3>4. logEnabled'
      BY <1>2, <3>2 DEF Durability
    <3>5. nvm'[State] = <<"MUTATING", "COPYING">>
      <4>1. nvm[State] = <<"MUTATING">> /\ DOMAIN pwb = {}
        BY <1>1, <1>6, <1>7, <3>2 DEF Durability, Noted, AllFenced, pc
      <4>2. State \notin DOMAIN flushed
        BY <1>1, <1>9, <4>1, LinesDiffer, RangeOfLog
      <4>3. Now(nvm, State) = "MUTATING"
        BY <4>1 DEF Now
      <4>4. nvm'[State] = Append(nvm[State], state)
        BY <1>10, <1>13, <4>2, <4>3
      <4>5. Append(<<"MUTATING">>, "COPYING") = <<"MUTATING", "COPYING">>
        <5>1. "MUTATING" \in Contents(State) /\ "COPYING" \in Contents(State)
          BY ContentsOf
        <5>2. QED
          BY <5>1, AppendOne
      <4>6. QED
        BY <1>10, <4>1, <4>4, <4>5, Zenon
    <3>6. QED
      BY <1>7, <1>14, <3>3, <3>4, <3>5 DEF Durability
  <2>4. due' \subseteq Range(ran')
    BY <1>1, <1>2, <1>6, <1>15 DEF UpState
  <2>5. Settled' \subseteq Settled
    <3>1. Updating(t)
      BY <1>6 DEF Updating, UpdateLabels, WriterLabels, pc
    <3>2. QED
      BY <1>1, <1>2, <1>6, <3>1, SettledSame
  <2>6. First(n)' = First(n)
    BY <1>2 DEF First
  <2>7. QED
    BY <1>2, <2>1, <2>2, <2>3, <2>4, <2>5, <2>6 DEF UpState
<1>16. QED
  <2>1. DOMAIN pwb' \subseteq Lines
    BY <1>14, LinesDiffer
  <2> HIDE <1>8, <1>10, <1>3
  <2>2. QED
    BY <1>1, <1>2, <1>5, <1>6, <1>7, <1>13, <1>14, <1>15, <2>1, WriterInv

LEMMA PSyncInv ==
  ASSUME RInv, NEW t \in Threads, PSync(t)
  PROVE  RInv'
<1>1. /\ TypeOK /\ Logic /\ Noted /\ UpState /\ due \subseteq Settled
      /\ th \in [Threads -> Locals] /\ N \in Nat /\ fc \in [Threads -> Nat]
      /\ Memory(nvm) /\ DOMAIN pwb \subseteq Lines /\ Free \notin Threads
      /\ log \in Seq(Words) /\ IsInjective(log) /\ logEnabled \in BOOLEAN
      /\ ran \in Seq(Threads \X Nat) /\ overflowed \in BOOLEAN
      /\ stale \subseteq behind /\ behind \subseteq Words
      /\ reading \in [Threads -> BOOLEAN]
  BY StateTypes, LogicTypes, MemoryTypes, ThreadsAre
<1>2. /\ UNCHANGED <<log, logEnabled, fc, lock, reading>> /\ pwb' = <<>>
      /\ UNCHANGED <<ran, due, overflowed, behind, stale, spoilt, restarts>>
      /\ nvm' = Fenced(nvm, pwb)
  BY DEF PSync, Synced, history
<1>3. PICK from, to : Goto(t, from, to) /\ from = "psync" /\ to = "answer"
  BY DEF PSync, Synced
<1>4. /\ th[t].pc = from /\ th'[t].pc = to /\ machine = "up" /\ machine' = "up"
      /\ \A u \in Threads \ {t} : th'[u] = th[u]
  <2>1. to \in Labels
    BY <1>3 DEF Labels, UpdateLabels, WriterLabels
  <2>2. QED
    BY <1>1, <1>3, <2>1, GotoMoves
<1>5. Logic' /\ th' \in [Threads -> Locals]
  <2>1. ~reading[t]
    BY <1>1, <1>3, <1>4 DEF Logic, LockState, pc
  <2>2. QED
    BY <1>1, <1>2, <1>3, <2>1, LightGoto
<1>6. /\ th[t].pc \in WriterLabels /\ th'[t].pc # "read"
      /\ th[t].pc \notin {"collect", "wait"}
      /\ Phase = "psync" /\ Phase' = "answer" /\ Todo = {} /\ Todo' = {}
  BY <1>1, <1>2, <1>3, <1>4, MovesPhase DEF WriterLabels
<1>7. /\ Memory(nvm')
      /\ \A l \in Lines :
           /\ Now(nvm', l) = Now(nvm, l)
           /\ nvm'[l] = IF l \in DOMAIN pwb THEN <<Now(nvm, l)>> ELSE nvm[l]
  BY <1>1, <1>2, FencedMemory DEF Noted
<1>8. DOMAIN pwb' = {}
  BY <1>2
<1>9. \A w \in Words : Main(w) \in Lines /\ Back(w) \in Lines
  BY LinesDiffer
<1>10. ASSUME ~spoilt PROVE UpState'
  <2>1. PICK n \in 0 .. All : Volatile(n)
    BY <1>1, <1>4, <1>10 DEF UpState
  <2>2. Volatile(n)' /\ n \in 0 .. All'
    BY <1>1, <1>2, <1>6, <1>7, <1>9, <2>1, VolatileSame
  <2>3. ~overflowed' => Durability'
    <3>1. SUFFICES ASSUME ~overflowed PROVE Durability'
      BY <1>2
    <3>2. Durability
      BY <1>1, <1>4, <1>10, <3>1 DEF UpState
    <3>3. ASSUME NEW l \in Lines, Durable(l) PROVE Durable(l)'
      <4>1. \A x : Len(<<x>>) = 1
        OBVIOUS
      <4>2. nvm'[l] = <<Now(nvm, l)>> \/ nvm'[l] = nvm[l]
        BY <1>7
      <4>3. QED
        BY <3>3, <4>1, <4>2, Zenon DEF Durable
    <3>4. \A w \in Words : /\ Durable(Main(w))'
                           /\ w \in behind' \/ Durable(Back(w))'
      BY <1>2, <1>6, <1>9, <3>2, <3>3 DEF Durability
    <3>5. nvm'[State] = <<"COPYING">>
      <4>1. nvm[State] = <<"MUTATING", "COPYING">> /\ State \in DOMAIN pwb
        BY <1>6, <3>2 DEF Durability
      <4>2. Now(nvm, State) = "COPYING"
        BY <4>1 DEF Now
      <4>3. QED
        BY <1>7, <4>1, <4>2, LinesDiffer
    <3>6. logEnabled'
      BY <1>2, <3>2 DEF Durability
    <3>7. QED
      BY <1>6, <3>4, <3>5, <3>6 DEF Durability
  <2>4. due' \subseteq Range(ran')
    BY <1>1, <1>2, <1>4, <1>10 DEF UpState
  <2>5. QED
    BY <1>6, <2>2, <2>3, <2>4 DEF UpState
<1>11. QED
  <2>1. \A l \in DOMAIN pwb' : pwb'[l] = Now(nvm', l)
    BY <1>8
  <2>2. DOMAIN pwb' \subseteq Lines
    BY <1>8
  <2> HIDE <1>3
  <2>3. QED
    BY <1>1, <1>2, <1>4, <1>5, <1>6, <1>7, <1>8, <1>10,
       <2>1, <2>2, WriterInv

\* What is copied to back: words of main.
BacksOf(words) == {Back(w) : w \in words}
ToBack(words) == [l \in {Back(w) : w \in words} |-> Now(nvm, Main(l[2]))]

LEMMA CopiedWords ==
  ASSUME Memory(nvm), NEW copied \in SUBSET Words, NEW new,
         new = ToBack(copied)
  PROVE  /\ DOMAIN new = BacksOf(copied) /\ DOMAIN new \subseteq Lines
         /\ \A l \in DOMAIN new : new[l] \in Contents(l)
         /\ \A w \in copied : new[Back(w)] = Now(nvm, Main(w))
         /\ \A w \in Words : Back(w) \in DOMAIN new <=> w \in copied
         /\ State \notin DOMAIN new
         /\ \A w \in Words : Main(w) \notin DOMAIN new
<1>1. DOMAIN new = BacksOf(copied)
  BY DEF ToBack, BacksOf
<1>2. \A w \in copied : new[Back(w)] = Now(nvm, Main(w))
  <2>1. \A w \in copied : Back(w)[2] = w
    BY LinesDiffer
  <2>2. ASSUME NEW w \in copied PROVE new[Back(w)] = Now(nvm, Main(w))
    <3>1. PICK l \in {Back(v) : v \in copied} : l = Back(w)
      OBVIOUS
    <3>2. new[l] = Now(nvm, Main(l[2])) /\ l[2] = w
      BY <2>1, <3>1 DEF ToBack
    <3>3. QED
      BY <3>1, <3>2
  <2>3. QED
    BY <2>2
<1>3. \A l \in DOMAIN new : new[l] \in Contents(l) /\ l \in Lines
  <2>1. \A w \in Words : /\ Now(nvm, Main(w)) \in Contents(Back(w))
                         /\ Back(w) \in Lines
    BY NowType, LinesDiffer, ContentsOf
  <2> HIDE <1>1
  <2>2. ASSUME NEW w \in copied
        PROVE  new[Back(w)] \in Contents(Back(w)) /\ Back(w) \in Lines
    BY <1>2, <2>1
  <2>3. QED
    BY <1>1, <2>2 DEF BacksOf
<1>4. /\ \A w \in Words : Back(w) \in DOMAIN new <=> w \in copied
      /\ State \notin DOMAIN new
      /\ \A w \in Words : Main(w) \notin DOMAIN new
  BY <1>1, LinesDiffer DEF BacksOf
<1>5. QED
  BY <1>1, <1>2, <1>3, <1>4

\* What a failure can find in a line after a store: what it could before, or
\* what was stored.
LEMMA StoreAllVersions ==
  ASSUME Memory(nvm), NEW new, NEW l \in Lines, l \in DOMAIN new,
         NEW effect, new[l] \subseteq effect,
         \A i \in DOMAIN nvm[l] : nvm[l][i] \subseteq effect
  PROVE  \A i \in DOMAIN StoreAll(new)[l] :
           StoreAll(new)[l][i] \subseteq effect
<1>1. StoreAll(new)[l] = Stored(nvm, l, new[l])[l]
  BY DEF StoreAll, Memory
<1>2. \/ StoreAll(new)[l] = nvm[l]
      \/ StoreAll(new)[l] = Append(nvm[l], new[l])
  BY <1>1 DEF Stored, Memory
<1>3. nvm[l] \in Seq(Contents(l))
  BY DEF Memory
<1>4. QED
  BY <1>2, <1>3

LEMMA FlushedWords ==
  ASSUME log \in Seq(Words)
  PROVE  Flushed \subseteq Words
BY RangeOfLog, RomulusAssumption DEF Flushed

LEMMA CopyToBackInv ==
  ASSUME RInv, NEW t \in Threads, CopyToBack(t)
  PROVE  RInv'
<1>1. /\ TypeOK /\ Logic /\ Noted /\ UpState /\ due \subseteq Settled
      /\ th \in [Threads -> Locals] /\ N \in Nat /\ fc \in [Threads -> Nat]
      /\ Memory(nvm) /\ DOMAIN pwb \subseteq Lines /\ Free \notin Threads
      /\ log \in Seq(Words) /\ IsInjective(log) /\ logEnabled \in BOOLEAN
      /\ ran \in Seq(Threads \X Nat) /\ overflowed \in BOOLEAN
      /\ reading \in [Threads -> BOOLEAN]
      /\ stale \subseteq behind /\ behind \subseteq Words
  BY StateTypes, LogicTypes, MemoryTypes, ThreadsAre
<1>2. /\ UNCHANGED <<fc, lock, reading>> /\ log' = <<>> /\ logEnabled' = TRUE
      /\ UNCHANGED <<ran, due, overflowed, spoilt, restarts>>
      /\ behind' = (behind \ Copied) \cup (Copied \ Flushed)
      /\ stale' = stale \ Copied
  BY DEF CopyToBack, history
<1>3. PICK from, to : Goto(t, from, to) /\ from = "copy" /\ to = "setIdle"
  BY DEF CopyToBack
<1>4. /\ th[t].pc = from /\ th'[t].pc = to /\ machine = "up" /\ machine' = "up"
      /\ \A u \in Threads \ {t} : th'[u] = th[u]
  <2>1. to \in Labels
    BY <1>3 DEF Labels, UpdateLabels, WriterLabels
  <2>2. QED
    BY <1>1, <1>3, <2>1, GotoMoves
<1>5. Logic' /\ th' \in [Threads -> Locals]
  <2>1. ~reading[t]
    BY <1>1, <1>3, <1>4 DEF Logic, LockState, pc
  <2>2. QED
    BY <1>1, <1>2, <1>3, <2>1, LightGoto
<1>6. /\ th[t].pc \in WriterLabels /\ th'[t].pc # "read"
      /\ th[t].pc \notin {"collect", "wait"}
      /\ th'[t].pc \notin AllFenced
      /\ Phase = "copy" /\ Phase' = "setIdle" /\ Todo = {} /\ Todo' = {}
  BY <1>1, <1>2, <1>3, <1>4, MovesPhase DEF WriterLabels, AllFenced
<1>7. PICK copied \in SUBSET Words : copied = Copied
  BY <1>1, RangeOfLog DEF Copied
<1>8. PICK new : new = ToBack(copied)
  OBVIOUS
<1>0. PICK flushed \in SUBSET Words : flushed = Flushed
  BY <1>1, FlushedWords
<1>9. nvm' = StoreAll(new) /\ pwb' = WrittenBack(pwb, nvm', BacksOf(flushed))
  BY <1>7, <1>8, <1>0 DEF CopyToBack, ToBack, BacksOf
<1>10. /\ DOMAIN new = BacksOf(copied) /\ DOMAIN new \subseteq Lines
       /\ \A l \in DOMAIN new : new[l] \in Contents(l)
       /\ \A w \in copied : new[Back(w)] = Now(nvm, Main(w))
       /\ \A w \in Words : Back(w) \in DOMAIN new <=> w \in copied
       /\ State \notin DOMAIN new
       /\ \A w \in Words : Main(w) \notin DOMAIN new
  BY <1>1, <1>8, CopiedWords
<1>11. /\ Memory(nvm')
       /\ \A l \in Lines :
            /\ l \in DOMAIN new => Now(nvm', l) = new[l]
            /\ l \notin DOMAIN new => /\ nvm'[l] = nvm[l]
                                      /\ Now(nvm', l) = Now(nvm, l)
  <2> HIDE <1>7, <1>8
  <2> QED
    BY <1>1, <1>9, <1>10, StoreAllMemory
<1>12. \A w \in Words : Main(w) \in Lines /\ Back(w) \in Lines
  BY LinesDiffer
<1>13. \A w \in Words :
         /\ nvm'[Main(w)] = nvm[Main(w)]
         /\ Now(nvm', Main(w)) = Now(nvm, Main(w))
         /\ w \in copied => Now(nvm', Back(w)) = Now(nvm, Main(w))
         /\ w \notin copied => /\ nvm'[Back(w)] = nvm[Back(w)]
                               /\ Now(nvm', Back(w)) = Now(nvm, Back(w))
  <2> HIDE <1>7, <1>8
  <2> QED
    BY <1>10, <1>11, <1>12
<1>14. nvm'[State] = nvm[State]
  BY <1>10, <1>11, LinesDiffer
<1>15. /\ DOMAIN pwb' = BacksOf(flushed)
       /\ \A l \in DOMAIN pwb' : pwb'[l] = Now(nvm', l)
  <2>1. DOMAIN pwb = {}
    BY <1>1, <1>3, <1>4 DEF Noted, AllFenced, pc
  <2>2. QED
    BY <1>9, <2>1 DEF WrittenBack
<1>16. ASSUME ~spoilt PROVE UpState'
  <2>1. PICK n \in 0 .. All : Volatile(n)
    BY <1>1, <1>4, <1>16 DEF UpState
  <2>2. \A w \in Words : Now(nvm, Main(w)) = Effect(All)[w]
    BY <1>6, <2>1 DEF Volatile
  <2>3. \A w \in Words \ (copied \cup stale) :
          Now(nvm, Back(w)) = Now(nvm, Main(w))
    BY <1>7, <2>1 DEF Volatile, Copied
  <2>4. PICK m : m = All
    OBVIOUS
  <2>5. All' = m /\ m \in Nat /\ Effect(m)' = Effect(m)
    <3>1. All \in Nat
      BY <1>1, LogicTypes DEF All
    <3>2. QED
      BY <1>2, <2>4, <3>1, RanSame
  <2>6. Volatile(m)'
    <3>1. ASSUME NEW w \in Words
          PROVE  /\ Now(nvm', Main(w)) = Effect(m)[w]
                 /\ w \notin stale' => Now(nvm', Back(w)) = Effect(m)[w]
      BY <1>2, <1>7, <1>13, <2>2, <2>3, <2>4
    <3>2. ASSUME NEW w \in Words
          PROVE  \A i \in DOMAIN nvm'[Back(w)] :
                   nvm'[Back(w)][i] \subseteq Effect(m)[w]
      <4>1. \A i \in DOMAIN nvm[Back(w)] :
              nvm[Back(w)][i] \subseteq Effect(m)[w]
        <5>1. Effect(n)[w] \subseteq Effect(m)[w]
          BY <2>4, <2>5, EffectGrows
        <5>2. \A i \in DOMAIN nvm[Back(w)] :
                nvm[Back(w)][i] \subseteq Effect(n)[w]
          BY <2>1 DEF Volatile, BackHas
        <5>3. QED
          BY <5>1, <5>2
      <4>2. CASE w \notin copied
        BY <1>13, <4>1, <4>2
      <4>3. CASE w \in copied
        <5>1. /\ Back(w) \in DOMAIN new /\ Back(w) \in Lines
              /\ new[Back(w)] \subseteq Effect(m)[w]
          BY <1>10, <1>12, <2>2, <2>4, <4>3
        <5>2. QED
          BY <1>1, <1>9, <4>1, <5>1, StoreAllVersions
      <4>4. QED
        BY <4>2, <4>3
    <3>3. \A w \in Words : BackHas(w, Effect(m)[w])'
      BY <2>5, <3>1, <3>2 DEF BackHas
    <3>4. QED
      BY <1>2, <1>6, <2>5, <3>1, <3>3 DEF Volatile
  <2>7. ~overflowed' => Durability'
    <3>1. SUFFICES ASSUME ~overflowed PROVE Durability'
      BY <1>2
    <3>2. Durability
      BY <1>1, <1>4, <1>16, <3>1 DEF UpState
    <3>3. \A w \in Words : Durable(Main(w))'
      BY <1>6, <1>13, <3>2 DEF Durability, Durable
    <3>4. \A w \in Words : \/ w \in behind' \/ Durable(Back(w))'
                           \/ Back(w) \in DOMAIN pwb'
      <4>1. \A w \in Words \ (copied \cup behind) : Durable(Back(w))'
        BY <1>6, <1>13, <3>2 DEF Durability, Durable
      <4>2. \A w \in flushed : Back(w) \in DOMAIN pwb'
        BY <1>15 DEF BacksOf
      <4>3. QED
        BY <1>0, <1>2, <1>7, <4>1, <4>2
    <3>5. nvm'[State] = <<"COPYING">>
      BY <1>6, <1>14, <3>2 DEF Durability
    <3>6. QED
      BY <1>2, <1>6, <3>3, <3>4, <3>5 DEF Durability
  <2>8. due' \subseteq Range(ran')
    BY <1>1, <1>2, <1>4, <1>16 DEF UpState
  <2>9. m \in 0 .. All'
    BY <2>5
  <2>10. QED
    BY <1>6, <2>6, <2>7, <2>8, <2>9 DEF UpState
<1>17. QED
  <2>1. DOMAIN pwb' \subseteq Lines
    BY <1>12, <1>15 DEF BacksOf
  <2>4. stale' \subseteq behind' /\ behind' \subseteq Words
    BY <1>1, <1>2, <1>7
  <2>2. log' \in Seq(Words) /\ IsInjective(log')
    BY <1>2 DEF IsInjective
  <2> HIDE <1>3, <1>7, <1>8
  <2>3. QED
    BY <1>1, <1>2, <1>4, <1>5, <1>6, <1>11, <1>15, <1>16, <2>1, <2>2, <2>4,
       WriterInv

LEMMA SetIdleInv ==
  ASSUME RInv, NEW t \in Threads, SetIdle(t)
  PROVE  RInv'
<1>1. /\ TypeOK /\ Logic /\ Noted /\ UpState /\ due \subseteq Settled
      /\ th \in [Threads -> Locals] /\ N \in Nat /\ fc \in [Threads -> Nat]
      /\ Memory(nvm) /\ DOMAIN pwb \subseteq Lines /\ Free \notin Threads
      /\ log \in Seq(Words) /\ IsInjective(log) /\ logEnabled \in BOOLEAN
      /\ ran \in Seq(Threads \X Nat) /\ overflowed \in BOOLEAN
      /\ reading \in [Threads -> BOOLEAN]
      /\ stale \subseteq behind /\ behind \subseteq Words
  BY StateTypes, LogicTypes, MemoryTypes, ThreadsAre
<1>2. /\ UNCHANGED <<log, logEnabled, fc, lock, reading>> /\ pwb' = <<>>
      /\ UNCHANGED <<ran, due, overflowed, behind, stale, spoilt, restarts>>
  BY DEF SetIdle, history
<1>3. PICK from, to : Goto(t, from, to) /\ from = "setIdle" /\ to = "unlock"
  BY DEF SetIdle
<1>4. /\ th[t].pc = from /\ th'[t].pc = to /\ machine = "up" /\ machine' = "up"
      /\ \A u \in Threads \ {t} : th'[u] = th[u]
  <2>1. to \in Labels
    BY <1>3 DEF Labels, UpdateLabels, WriterLabels
  <2>2. QED
    BY <1>1, <1>3, <2>1, GotoMoves
<1>5. Logic' /\ th' \in [Threads -> Locals]
  <2>1. ~reading[t]
    BY <1>1, <1>3, <1>4 DEF Logic, LockState, pc
  <2>2. QED
    BY <1>1, <1>2, <1>3, <2>1, LightGoto
<1>6. /\ th[t].pc \in WriterLabels /\ th'[t].pc # "read"
      /\ th[t].pc \notin {"collect", "wait"}
      /\ th'[t].pc \notin AllFenced
      /\ Phase = "setIdle" /\ Phase' = "unlock" /\ Todo = {} /\ Todo' = {}
  BY <1>1, <1>2, <1>3, <1>4, MovesPhase DEF WriterLabels, AllFenced
<1>7. PICK state : state = "IDLE"
  OBVIOUS
<1>8. nvm' = Stored(Fenced(nvm, pwb), State, state)
  BY <1>7 DEF SetIdle
<1>9. state \in Contents(State)
  BY <1>7, ContentsOf
<1>10. /\ Memory(nvm') /\ Now(nvm', State) = state
       /\ \A w \in Words :
            /\ Now(nvm', Main(w)) = Now(nvm, Main(w))
            /\ Now(nvm', Back(w)) = Now(nvm, Back(w))
            /\ nvm'[Main(w)] = IF Main(w) \in DOMAIN pwb
                               THEN <<Now(nvm, Main(w))>> ELSE nvm[Main(w)]
            /\ nvm'[Back(w)] = IF Back(w) \in DOMAIN pwb
                               THEN <<Now(nvm, Back(w))>> ELSE nvm[Back(w)]
       /\ State \notin DOMAIN pwb /\ Now(nvm, State) # state =>
            nvm'[State] = Append(nvm[State], state)
  <2>1. \A l \in DOMAIN pwb : pwb[l] = Now(nvm, l)
    BY <1>1 DEF Noted
  <2>2. PICK mem, noted : mem = nvm /\ noted = pwb
    OBVIOUS
  <2>3. Memory(mem) /\ nvm' = Stored(Fenced(mem, noted), State, state)
    BY <1>1, <1>8, <2>2
  <2>4. \A l \in DOMAIN noted : noted[l] = Now(mem, l)
    BY <2>1, <2>2
  <2>5. /\ Memory(nvm') /\ Now(nvm', State) = state
        /\ \A w \in Words :
             /\ Now(nvm', Main(w)) = Now(mem, Main(w))
             /\ Now(nvm', Back(w)) = Now(mem, Back(w))
             /\ nvm'[Main(w)] = IF Main(w) \in DOMAIN noted
                                THEN <<Now(mem, Main(w))>> ELSE mem[Main(w)]
             /\ nvm'[Back(w)] = IF Back(w) \in DOMAIN noted
                                THEN <<Now(mem, Back(w))>> ELSE mem[Back(w)]
        /\ State \notin DOMAIN noted /\ Now(mem, State) # state =>
             nvm'[State] = Append(mem[State], state)
    <3> HIDE <1>7, <2>2
    <3> QED
      BY <1>9, <2>3, <2>4, FencedState
  <2>6. QED
    BY <2>2, <2>5
<1>11. DOMAIN pwb' = {}
  BY <1>2
<1>12. ASSUME ~spoilt PROVE UpState'
  <2>1. PICK n \in 0 .. All : Volatile(n)
    BY <1>1, <1>4, <1>12 DEF UpState
  <2>2. Volatile(n)' /\ n \in 0 .. All'
    BY <1>1, <1>2, <1>6, <1>10, <2>1, VolatileSame
  <2>3. ~overflowed' => Durability'
    <3>1. SUFFICES ASSUME ~overflowed PROVE Durability'
      BY <1>2
    <3>2. Durability
      BY <1>1, <1>4, <1>12, <3>1 DEF UpState
    <3>3. \A x : Len(<<x>>) = 1
      OBVIOUS
    <3>4. ASSUME NEW w \in Words
          PROVE  Durable(Main(w))' /\ (w \in behind' \/ Durable(Back(w))')
      <4>1. /\ Durable(Main(w))
            /\ w \in behind' \/ Durable(Back(w)) \/ Back(w) \in DOMAIN pwb
        BY <1>2, <1>6, <3>2 DEF Durability
      <4>2. /\ nvm'[Main(w)] = <<Now(nvm, Main(w))>> \/ nvm'[Main(w)] = nvm[Main(w)]
            /\ \/ w \in behind'
               \/ nvm'[Back(w)] = <<Now(nvm, Back(w))>>
               \/ nvm'[Back(w)] = nvm[Back(w)] /\ Durable(Back(w))
        BY <1>10, <4>1
      <4>3. QED
        BY <3>3, <4>1, <4>2, Zenon DEF Durable
    <3>5. logEnabled'
      BY <1>2, <3>2 DEF Durability
    <3>6. QED
      BY <1>6, <1>7, <1>10, <3>4, <3>5 DEF Durability
  <2>4. due' \subseteq Range(ran')
    BY <1>1, <1>2, <1>4, <1>12 DEF UpState
  <2>5. QED
    BY <1>6, <2>2, <2>3, <2>4 DEF UpState
<1>13. QED
  <2>1. \A l \in DOMAIN pwb' : pwb'[l] = Now(nvm', l)
    BY <1>11
  <2>2. DOMAIN pwb' \subseteq Lines
    BY <1>11
  <2> HIDE <1>3, <1>7
  <2>3. QED
    BY <1>1, <1>2, <1>4, <1>5, <1>6, <1>10, <1>12, <2>1, <2>2, WriterInv

\* What the log has after a store: more, and the word unless it is given up.
LEMMA LoggedWord ==
  ASSUME log \in Seq(Words), IsInjective(log), logEnabled \in BOOLEAN,
         NEW w \in Words
  PROVE  /\ Logged(w) \in Seq(Words) /\ IsInjective(Logged(w))
         /\ Range(log) \subseteq Range(Logged(w))
         /\ logEnabled /\ ~Skipped => w \in Range(Logged(w))
<1>1. CASE logEnabled /\ ~Skipped /\ w \notin Range(log)
  <2>1. Logged(w) = Append(log, w)
    BY <1>1 DEF Logged
  <2>2. /\ Append(log, w) \in Seq(Words) /\ Len(Append(log, w)) = Len(log) + 1
        /\ Append(log, w)[Len(log) + 1] = w
        /\ \A i \in 1 .. Len(log) : Append(log, w)[i] = log[i]
        /\ \A i \in 1 .. Len(log) : log[i] # w
        /\ Len(log) \in Nat /\ DOMAIN log = 1 .. Len(log)
        /\ DOMAIN Append(log, w) = 1 .. (Len(log) + 1)
    BY <1>1 DEF Range
  <2> DEFINE new == Append(log, w)
  <2> HIDE DEF new
  <2>3. IsInjective(new)
    BY <2>2 DEF IsInjective, new
  <2>4. Range(log) \subseteq Range(new) /\ w \in Range(new)
    BY <2>2 DEF Range, new
  <2>5. QED
    BY <2>1, <2>2, <2>3, <2>4 DEF new
<1>2. CASE ~(logEnabled /\ ~Skipped /\ w \notin Range(log))
  BY <1>2 DEF Logged
<1>3. QED
  BY <1>1, <1>2

LEMMA StoreAfterInv ==
  ASSUME RInv, NEW t \in Threads, NEW w \in Words, NEW loaded,
         loaded = Now(nvm, Main(w)), StoreAfter(t, w, loaded)
  PROVE  RInv'
<1>1. /\ TypeOK /\ Logic /\ Noted /\ UpState /\ due \subseteq Settled
      /\ th \in [Threads -> Locals] /\ N \in Nat /\ fc \in [Threads -> Nat]
      /\ Memory(nvm) /\ DOMAIN pwb \subseteq Lines /\ Free \notin Threads
      /\ log \in Seq(Words) /\ IsInjective(log) /\ logEnabled \in BOOLEAN
      /\ ran \in Seq(Threads \X Nat) /\ overflowed \in BOOLEAN
      /\ reading \in [Threads -> BOOLEAN]
      /\ stale \subseteq behind /\ behind \subseteq Words
  BY StateTypes, LogicTypes, MemoryTypes, ThreadsAre
<1>2. /\ UNCHANGED <<pwb, fc, lock, reading, ran, due, behind, stale,
                     spoilt, restarts>>
      /\ log' = Logged(w)
      /\ logEnabled' = (logEnabled /\ ~Skipped)
      /\ overflowed' = (overflowed \/ Skipped)
      /\ w \in th[t].todo
      /\ nvm' = Stored(nvm, Main(w), loaded \cup {<<Len(ran), Running(t)>>})
  BY DEF StoreAfter
<1>3. /\ Logic' /\ th' \in [Threads -> Locals]
      /\ machine = "up" /\ machine' = "up"
      /\ th[t].pc = "store" /\ lock = t /\ lock' = lock
      /\ th'[t].pc = IF th[t].todo = {w} THEN "run" ELSE "store"
      /\ th'[t].todo = th[t].todo \ {w}
      /\ \A u \in Threads \ {t} : th'[u] = th[u]
      /\ th'[t].k = th[t].k
  BY <1>1, StoreLogic
<1>4. /\ th[t].pc \in WriterLabels /\ th'[t].pc # "read"
      /\ th[t].pc \notin {"collect", "wait"}
      /\ Phase = "store" /\ Phase' \in {"run", "store"}
      /\ Todo = th[t].todo /\ Todo' = Todo \ {w}
  <2>1. th[t].pc \in WriterLabels
    BY <1>3 DEF WriterLabels
  <2>2. th'[t].pc \in {"run", "store"}
    BY <1>3
  <2>3. Phase = "store" /\ Phase' = th'[t].pc /\ Todo = th[t].todo
    BY <1>1, <1>3, <2>1, OwnPhase
  <2>4. Todo' = IF th'[t].pc = "store" THEN th'[t].todo ELSE {}
    BY <1>1, <1>3, <2>1, OwnPhase
  <2>5. Todo' = Todo \ {w}
    BY <1>3, <2>3, <2>4
  <2>6. QED
    BY <1>3, <2>1, <2>2, <2>3, <2>5
<1>5. /\ All \in Nat \ {0} /\ ran[All] = Running(t)
      /\ w \in Stores(Running(t)) /\ Running(t) \in Threads \X Nat
  <2>1. /\ ran # <<>> /\ ran[Len(ran)] = Running(t)
        /\ th[t].todo \subseteq Stores(Running(t))
    BY <1>1, <1>3 DEF Logic, StoreState, pc
  <2>2. Len(ran) \in Nat \ {0} /\ ran[Len(ran)] \in Threads \X Nat
    BY <1>1, <2>1
  <2>3. QED
    BY <1>2, <2>1, <2>2 DEF All
<1>6. PICK new : new = loaded \cup {<<Len(ran), Running(t)>>}
  OBVIOUS
<1>7. Main(w) \in Lines /\ Contents(Main(w)) = SUBSET Stamps
  BY LinesDiffer, ContentsOf
<1>8. new \in Contents(Main(w))
  <2>1. loaded \in SUBSET Stamps
    BY <1>1, <1>7, NowType
  <2>2. <<Len(ran), Running(t)>> \in Stamps
    BY <1>5 DEF Stamps, All
  <2>3. QED
    BY <1>6, <1>7, <2>1, <2>2
<1>9. /\ Memory(nvm') /\ Now(nvm', Main(w)) = new
      /\ \A l \in Lines \ {Main(w)} : /\ nvm'[l] = nvm[l]
                                      /\ Now(nvm', l) = Now(nvm, l)
  <2>1. nvm' = Stored(nvm, Main(w), new)
    BY <1>2, <1>6
  <2>2. PICK line \in Lines : line = Main(w)
    BY <1>7
  <2>3. Memory(nvm) /\ nvm' = Stored(nvm, line, new) /\ new \in Contents(line)
    BY <1>1, <1>8, <2>1, <2>2
  <2>4. /\ Memory(Stored(nvm, line, new))
        /\ Now(Stored(nvm, line, new), line) = new
        /\ \A k \in Lines \ {line} :
             /\ Stored(nvm, line, new)[k] = nvm[k]
             /\ Now(Stored(nvm, line, new), k) = Now(nvm, k)
    <3> HIDE <1>6, <2>2
    <3> QED
      BY <2>3, StoredMemory
  <2>5. QED
    BY <2>2, <2>3, <2>4
<1>10. /\ log' \in Seq(Words) /\ IsInjective(log')
       /\ Range(log) \subseteq Range(log')
       /\ logEnabled' => w \in Range(log') /\ logEnabled
       /\ logEnabled' \in BOOLEAN /\ overflowed' \in BOOLEAN
  BY <1>1, <1>2, LoggedWord
<1>11. \A v \in Words : /\ Main(v) \in Lines /\ Back(v) \in Lines
                        /\ Back(v) # Main(w) /\ State # Main(w)
                        /\ v # w => Main(v) # Main(w)
  BY LinesDiffer
<1>12. ASSUME ~spoilt PROVE UpState'
  <2>1. PICK n \in 0 .. All :
           /\ Volatile(n)
           /\ Settled \subseteq First(n)
    BY <1>1, <1>3, <1>4, <1>12 DEF UpState
  <2>2. PICK m : m = All
    OBVIOUS
  <2>3. /\ All' = m /\ m \in Nat \ {0} /\ n \in Nat /\ m - 1 \in Nat
        /\ Effect(m)' = Effect(m) /\ Effect(m-1)' = Effect(m-1)
        /\ Effect(n)' = Effect(n) /\ First(n)' = First(n)
    <3>1. m \in Nat \ {0} /\ m - 1 \in Nat /\ n \in Nat
      BY <1>5, <2>2
    <3>2. QED
      BY <1>2, <2>2, <3>1, RanSame
  <2>4. Effect(m)[w] = new
    <3>1. loaded = Effect(m-1)[w]
      BY <1>2, <1>4, <2>1, <2>2 DEF Volatile
    <3>2. Effect(m)[w] = Effect(m-1)[w] \cup {<<m, ran[m]>>}
      BY <1>5, <2>2, <2>3, EffectNext
    <3>3. QED
      BY <1>5, <1>6, <2>2, <3>1, <3>2 DEF All
  <2>5. ASSUME NEW v \in Words
        PROVE  /\ v \in Todo' => Now(nvm', Main(v)) = Effect(m-1)'[v]
               /\ v \notin Todo' => Now(nvm', Main(v)) = Effect(m)'[v]
               /\ BackHas(v, Effect(n)[v])'
               /\ logEnabled' /\ v \notin Range(log') \cup stale' =>
                    Now(nvm', Main(v)) = Now(nvm', Back(v))
    <3>1. /\ v \in Todo => Now(nvm, Main(v)) = Effect(m-1)[v]
          /\ v \notin Todo => Now(nvm, Main(v)) = Effect(m)[v]
          /\ BackHas(v, Effect(n)[v])
          /\ logEnabled /\ v \notin Range(log) \cup stale =>
               Now(nvm, Main(v)) = Now(nvm, Back(v))
      BY <2>1, <2>2 DEF Volatile
    <3>2. /\ Now(nvm', Back(v)) = Now(nvm, Back(v))
          /\ BackHas(v, Effect(n)[v])'
      BY <1>2, <1>9, <1>11, <2>3, <3>1 DEF BackHas
    <3>3. CASE v = w
      <4>1. v \notin Todo'
        BY <1>4, <3>3
      <4>2. Now(nvm', Main(v)) = Effect(m)'[v]
        BY <1>9, <2>3, <2>4, <3>3
      <4>3. logEnabled' => v \in Range(log')
        BY <1>10, <3>3
      <4>4. QED
        BY <3>2, <4>1, <4>2, <4>3
    <3>4. CASE v # w
      <4>1. v \in Todo' <=> v \in Todo
        BY <1>4, <3>4
      <4>2. Now(nvm', Main(v)) = Now(nvm, Main(v))
        BY <1>9, <1>11, <3>4
      <4>3. logEnabled' /\ v \notin Range(log') \cup stale' =>
              logEnabled /\ v \notin Range(log) \cup stale
        BY <1>2, <1>10
      <4>4. QED
        BY <2>3, <3>1, <3>2, <4>1, <4>2, <4>3
    <3>5. QED
      BY <3>3, <3>4
  <2>6. Volatile(n)'
    <3>1. ASSUME NEW v \in Words
          PROVE  Effect(IF v \in Todo THEN All - 1 ELSE All)' =
                 IF v \in Todo' THEN Effect(m-1)' ELSE Effect(m)'
      BY <2>3 DEF Effect
    <3>2. ASSUME NEW v \in Words
          PROVE  Now(nvm', Main(v)) =
                   Effect(IF v \in Todo THEN All - 1 ELSE All)'[v]
      BY <2>5, <3>1
    <3>3. Phase' \in {"run", "store", "psync", "answer", "copy"}
      BY <1>4
    <3>4. QED
      BY <2>5, <3>2, <3>3 DEF Volatile
  <2>7. ~overflowed' => Durability'
    <3>1. SUFFICES ASSUME ~overflowed' PROVE Durability'
      OBVIOUS
    <3>2. ~overflowed /\ ~Skipped
      BY <1>2, <3>1
    <3>3. Durability
      BY <1>1, <1>3, <1>12, <3>2 DEF UpState
    <3>4. logEnabled'
      BY <1>2, <3>2, <3>3 DEF Durability
    <3>5. ASSUME NEW v \in Words
          PROVE  /\ (Durable(Main(v)) \/ v \in Range(log))'
                 /\ v \in behind' \/ Durable(Back(v))'
      <4>1. /\ Durable(Main(v)) \/ v \in Range(log)
            /\ v \in behind' \/ Durable(Back(v))
        BY <1>2, <1>4, <3>3 DEF Durability
      <4>2. v \in behind' \/ Durable(Back(v))'
        BY <1>9, <1>11, <4>1 DEF Durable
      <4>3. v # w /\ Durable(Main(v)) => Durable(Main(v))'
        BY <1>9, <1>11, <4>1 DEF Durable
      <4>4. QED
        BY <1>10, <3>4, <4>1, <4>2, <4>3
    <3>6. nvm'[State] = <<"MUTATING">>
      BY <1>4, <1>9, <1>11, <3>3, LinesDiffer DEF Durability
    <3>7. QED
      BY <1>4, <3>4, <3>5, <3>6 DEF Durability
  <2>8. due' \subseteq Range(ran')
    BY <1>1, <1>2, <1>3, <1>12 DEF UpState
  <2>9. Settled' \subseteq Settled
    <3>1. Updating(t)
      BY <1>3 DEF Updating, UpdateLabels, WriterLabels, pc
    <3>2. QED
      BY <1>1, <1>2, <1>3, <3>1, SettledSame
  <2>10. n \in 0 .. All'
    BY <2>2, <2>3
  <2>11. QED
    BY <1>2, <2>1, <2>3, <2>6, <2>7, <2>8, <2>9, <2>10 DEF UpState
<1>13. QED
  <2>1. DOMAIN pwb' = {}
    BY <1>1, <1>2, <1>3 DEF Noted, AllFenced, pc
  <2> HIDE <1>6
  <2>2. QED
    BY <1>1, <1>2, <1>3, <1>4, <1>9, <1>10, <1>12, <2>1, WriterInv

LEMMA PStoreInv ==
  ASSUME RInv, NEW t \in Threads, PStore(t)
  PROVE  RInv'
<1>1. PICK w \in Words : StoreAfter(t, w, Now(nvm, Main(w)))
  BY DEF PStore
<1>2. PICK loaded : loaded = Now(nvm, Main(w))
  OBVIOUS
<1>3. StoreAfter(t, w, loaded)
  BY <1>1, <1>2
<1>4. QED
  BY <1>2, <1>3, StoreAfterInv

\* A call is run: the calls before it have the effect they had.
LEMMA EffectAppended ==
  ASSUME ran \in Seq(Threads \X Nat), NEW c, ran' = Append(ran, c),
         NEW m, m = All
  PROVE  /\ All' = m + 1 /\ m \in Nat
         /\ \A n \in 0 .. m : Effect(n)' = Effect(n) /\ First(n)' = First(n)
         /\ \A w \in Words \ Stores(c) : Effect(m + 1)'[w] = Effect(m)[w]
<1>1. All' = m + 1 /\ m \in Nat
  BY DEF All
<1>2. \A k \in 1 .. m : ran'[k] = ran[k]
  BY DEF All
<1>3. ran'[m + 1] = c
  BY DEF All
<1>4. ASSUME NEW n \in 0 .. m
      PROVE  Effect(n)' = Effect(n) /\ First(n)' = First(n)
  <2>1. n \in Nat /\ \A k \in 1 .. n : ran'[k] = ran[k]
    <3>1. n \in Nat /\ 1 .. n \subseteq 1 .. m
      BY <1>1
    <3>2. QED
      BY <1>2, <3>1
  <2>2. Effect(n)' = Effect(n)
    BY <2>1, EffectSame
  <2>3. First(n)' = First(n)
    BY <2>1 DEF First
  <2>4. QED
    BY <2>2, <2>3
<1>5. ASSUME NEW w \in Words \ Stores(c)
      PROVE  Effect(m + 1)'[w] = Effect(m)[w]
  <2>1. {k \in 1 .. (m + 1) : w \in Stores(ran'[k])} =
          {k \in 1 .. m : w \in Stores(ran[k])}
    <3>1. 1 .. (m + 1) = (1 .. m) \cup {m + 1}
      BY <1>1
    <3>2. QED
      BY <1>2, <1>3, <3>1
  <2>2. {<<k, ran'[k]>> : k \in {k \in 1 .. (m + 1) : w \in Stores(ran'[k])}} =
          {<<k, ran[k]>> : k \in {k \in 1 .. m : w \in Stores(ran[k])}}
    BY <1>2, <2>1
  <2>3. QED
    BY <2>2 DEF Effect
<1>6. QED
  BY <1>1, <1>4, <1>5

LEMMA FunctionRunInv ==
  ASSUME RInv, NEW t \in Threads, RunFunction(t), ran' # ran
  PROVE  RInv'
<1>1. /\ TypeOK /\ Logic /\ Noted /\ UpState /\ due \subseteq Settled
      /\ th \in [Threads -> Locals] /\ N \in Nat /\ fc \in [Threads -> Nat]
      /\ Memory(nvm) /\ DOMAIN pwb \subseteq Lines /\ Free \notin Threads
      /\ log \in Seq(Words) /\ IsInjective(log) /\ logEnabled \in BOOLEAN
      /\ ran \in Seq(Threads \X Nat) /\ overflowed \in BOOLEAN
      /\ reading \in [Threads -> BOOLEAN]
      /\ stale \subseteq behind /\ behind \subseteq Words
  BY StateTypes, LogicTypes, MemoryTypes, ThreadsAre
<1>2. /\ UNCHANGED memory /\ UNCHANGED <<fc, lock, reading>>
      /\ UNCHANGED <<due, overflowed, behind, stale, spoilt, restarts>>
  BY DEF RunFunction, history
<1>3. /\ nvm' = nvm /\ pwb' = pwb /\ log' = log /\ logEnabled' = logEnabled
  BY <1>2 DEF memory
<1>4. PICK c : c = Running(t)
  OBVIOUS
<1>5. /\ Logic' /\ th' \in [Threads -> Locals]
      /\ machine = "up" /\ machine' = "up" /\ lock = t
      /\ th[t].pc = "run" /\ th'[t].pc = "store"
      /\ th'[t].todo = Stores(c)
      /\ ran' = Append(ran, c)
      /\ c \in Threads \X Nat
      /\ Stores(c) \subseteq Words
      /\ th'[t].k = th[t].k
      /\ \A u \in Threads \ {t} : th'[u] = th[u]
  <2>1. /\ Logic' /\ th' \in [Threads -> Locals]
        /\ machine = "up" /\ machine' = "up" /\ lock = t
        /\ th[t].pc = "run" /\ th'[t].pc = "store"
        /\ th'[t].todo = Stores(Running(t))
        /\ ran' = Append(ran, Running(t))
        /\ Running(t) \in Threads \X Nat
        /\ Stores(Running(t)) \subseteq Words
        /\ th'[t].k = th[t].k
        /\ \A u \in Threads \ {t} : th'[u] = th[u]
    <3> HIDE <1>4
    <3> QED
      BY <1>1, RunLogic
  <2>2. QED
    BY <1>4, <2>1
<1>6. /\ th[t].pc \in WriterLabels /\ th'[t].pc # "read"
      /\ th[t].pc \notin {"collect", "wait"}
  BY <1>5 DEF WriterLabels
<1>7. /\ Phase = "run" /\ Phase' = "store"
      /\ Todo = {} /\ Todo' = Stores(c)
  BY <1>1, <1>2, <1>5, <1>6, OwnPhase
<1>8. ran' \in Seq(Threads \X Nat)
  BY <1>1, <1>5
<1>9. DOMAIN pwb = {}
  BY <1>1, <1>5 DEF Noted, AllFenced, pc
<1>10. ASSUME ~spoilt PROVE UpState'
  <2>1. PICK n \in 0 .. All :
           /\ Volatile(n)
           /\ Settled \subseteq First(n)
    BY <1>1, <1>5, <1>7, <1>10 DEF UpState
  <2>2. PICK m : m = All
    OBVIOUS
  <2>3. /\ All' = m + 1 /\ m \in Nat
        /\ \A k \in 0 .. m : Effect(k)' = Effect(k) /\ First(k)' = First(k)
        /\ \A w \in Words \ Stores(c) : Effect(m + 1)'[w] = Effect(m)[w]
    BY <1>1, <1>5, <2>2, EffectAppended
  <2>4. n \in 0 .. m /\ n \in 0 .. All' /\ m \in 0 .. m
    BY <2>2, <2>3
  <2>5. ASSUME NEW w \in Words
        PROVE  /\ Now(nvm', Main(w)) =
                    Effect(IF w \in Todo THEN All - 1 ELSE All)'[w]
               /\ BackHas(w, Effect(n)[w])'
               /\ logEnabled' /\ w \notin Range(log') \cup stale' =>
                    Now(nvm', Main(w)) = Now(nvm', Back(w))
    <3>1. /\ Now(nvm, Main(w)) = Effect(m)[w]
          /\ BackHas(w, Effect(n)[w])
          /\ logEnabled /\ w \notin Range(log) \cup stale =>
               Now(nvm, Main(w)) = Now(nvm, Back(w))
      BY <1>7, <2>1, <2>2 DEF Volatile
    <3>2. Effect(IF w \in Todo THEN All - 1 ELSE All)'[w] = Effect(m)[w]
      <4>1. CASE w \in Stores(c)
        <5>1. (IF w \in Todo THEN All - 1 ELSE All)' = m
          BY <1>7, <2>3, <4>1
        <5>2. Effect(IF w \in Todo THEN All - 1 ELSE All)' = Effect(m)'
          BY <5>1 DEF Effect
        <5>3. QED
          BY <2>3, <2>4, <5>2
      <4>2. CASE w \notin Stores(c)
        <5>1. (IF w \in Todo THEN All - 1 ELSE All)' = m + 1
          BY <1>7, <2>3, <4>2
        <5>2. Effect(IF w \in Todo THEN All - 1 ELSE All)' = Effect(m + 1)'
          BY <5>1 DEF Effect
        <5>3. QED
          BY <2>3, <4>2, <5>2
      <4>3. QED
        BY <4>1, <4>2
    <3>3. Effect(n)' = Effect(n)
      BY <2>3, <2>4
    <3>4. QED
      BY <1>2, <1>3, <3>1, <3>2, <3>3 DEF BackHas
  <2>6. Volatile(n)'
    BY <1>7, <2>5 DEF Volatile
  <2>7. ~overflowed' => Durability'
    <3>1. SUFFICES ASSUME ~overflowed PROVE Durability'
      BY <1>2
    <3>2. Durability
      BY <1>1, <1>5, <1>10, <3>1 DEF UpState
    <3>3. QED
      BY <1>2, <1>3, <1>7, <3>2 DEF Durability, Durable
  <2>8. due' \subseteq Range(ran')
    <3>1. due \subseteq Range(ran)
      BY <1>1, <1>5, <1>10 DEF UpState
    <3>2. Range(ran) \subseteq Range(ran')
      <4>1. /\ \A i \in 1 .. Len(ran) : ran'[i] = ran[i] /\ i \in DOMAIN ran'
            /\ DOMAIN ran = 1 .. Len(ran)
        BY <1>1, <1>5
      <4>2. QED
        BY <4>1 DEF Range
    <3>3. QED
      BY <1>2, <3>1, <3>2
  <2>9. Settled' \subseteq Settled
    <3>1. Updating(t)
      BY <1>5 DEF Updating, UpdateLabels, WriterLabels, pc
    <3>2. QED
      BY <1>1, <1>2, <1>5, <3>1, SettledSame
  <2>10. First(n)' = First(n)
    BY <2>3, <2>4
  <2>11. QED
    BY <1>2, <2>1, <2>4, <2>6, <2>7, <2>8, <2>9, <2>10 DEF UpState
<1>11. QED
  <2>1. /\ DOMAIN pwb' = {} /\ DOMAIN pwb' \subseteq Lines
        /\ \A l \in DOMAIN pwb' : pwb'[l] = Now(nvm', l)
    BY <1>3, <1>9
  <2>2. Memory(nvm')
    BY <1>1, <1>3
  <2>3. /\ log' \in Seq(Words) /\ IsInjective(log')
        /\ logEnabled' \in BOOLEAN /\ overflowed' \in BOOLEAN
    BY <1>1, <1>2, <1>3
  <2>5. stale' \subseteq behind' /\ behind' \subseteq Words
    BY <1>1, <1>2
  <2> HIDE <1>4
  <2>4. QED
    BY <1>1, <1>2, <1>5, <1>6, <1>8, <1>10, <2>1, <2>2, <2>3, <2>5,
       WriterInv

(***************************************************************************)
(* A power failure.                                                        *)
(***************************************************************************)

LEMMA FailedMemory ==
  ASSUME Memory(nvm), NEW kept \in Failures(nvm), NEW after,
         after = AfterFailure(nvm, kept)
  PROVE  /\ Memory(after)
         /\ \A l \in Lines :
              /\ Len(after[l]) = 1
              /\ \E i \in DOMAIN nvm[l] : Now(after, l) = nvm[l][i]
              /\ Durable(l) => Now(after, l) = Now(nvm, l)
<1>1. DOMAIN nvm = Lines /\ \A l \in Lines : kept[l] \in DOMAIN nvm[l]
  BY DEF Memory, Failures
<1>2. DOMAIN after = Lines /\ \A l \in Lines : after[l] = <<nvm[l][kept[l]]>>
  BY <1>1 DEF AfterFailure
<1>3. ASSUME NEW l \in Lines
      PROVE  /\ after[l] \in Seq(Contents(l)) \ {<<>>}
             /\ Len(after[l]) = 1
             /\ \E i \in DOMAIN nvm[l] : Now(after, l) = nvm[l][i]
             /\ Durable(l) => Now(after, l) = Now(nvm, l)
  <2>1. PICK x : x = nvm[l][kept[l]]
    OBVIOUS
  <2>2. nvm[l] \in Seq(Contents(l))
    BY DEF Memory
  <2>3. x \in Contents(l)
    BY <1>1, <2>1, <2>2
  <2>4. after[l] = <<x>>
    BY <1>2, <2>1
  <2>5. after[l] \in Seq(Contents(l)) \ {<<>>} /\ Len(after[l]) = 1
    BY <2>3, <2>4
  <2>6. Now(after, l) = x
    BY <2>4 DEF Now
  <2>7. Durable(l) => x = Now(nvm, l)
    BY <1>1, <2>1, <2>2 DEF Durable, Now
  <2>8. QED
    BY <1>1, <2>1, <2>5, <2>6, <2>7
<1>4. QED
  BY <1>2, <1>3 DEF Memory

\* The replica the state names is whole, whatever reached memory.
LEMMA FailureWhileUp ==
  ASSUME RInv, NEW kept \in Failures(nvm), PowerFailure(kept), machine = "up",
         ~spoilt'
  PROVE  \E n \in 0 .. All :
           /\ due \subseteq First(n)
           /\ Now(nvm', State) # "MUTATING" =>
                \A w \in Words : Now(nvm', Main(w)) = Effect(n)[w]
           /\ Now(nvm', State) # "COPYING" =>
                \A w \in Words \ behind : Now(nvm', Back(w)) = Effect(n)[w]
           /\ \A w \in Words : Now(nvm', Back(w)) \subseteq Effect(n)[w]
<1>1. /\ ~spoilt /\ ~overflowed
      /\ Now(nvm', State) = "MUTATING" => behind = {}
  BY DEF PowerFailure
<1>2. /\ TypeOK /\ Logic /\ UpState /\ Memory(nvm) /\ due \subseteq Settled
      /\ lock \in Threads \cup {Free} /\ ran \in Seq(Threads \X Nat)
      /\ All \in Nat /\ stale \subseteq behind /\ behind \subseteq Words
  BY StateTypes, MemoryTypes, LogicTypes DEF All
<1>3. \A l \in Lines :
        /\ \E i \in DOMAIN nvm[l] : Now(nvm', l) = nvm[l][i]
        /\ Durable(l) => Now(nvm', l) = Now(nvm, l)
  <2>1. PICK after : after = nvm'
    OBVIOUS
  <2>2. after = AfterFailure(nvm, kept)
    BY <2>1 DEF PowerFailure
  <2>3. \A l \in Lines :
          /\ \E i \in DOMAIN nvm[l] : Now(after, l) = nvm[l][i]
          /\ Durable(l) => Now(after, l) = Now(nvm, l)
    BY <1>2, <2>2, FailedMemory
  <2>4. QED
    BY <2>1, <2>3
<1>4. \A w \in Words : Main(w) \in Lines /\ Back(w) \in Lines
  BY LinesDiffer
<1>5. Durability
  BY <1>1, <1>2 DEF UpState
<1>6. PICK n \in 0 .. All :
         /\ Volatile(n)
         /\ Phase \in {"run", "store", "psync"} => Settled \subseteq First(n)
  BY <1>1, <1>2 DEF UpState
<1>7. due \subseteq First(All) /\ All \in 0 .. All
  BY <1>1, <1>2, RangeIsFirst DEF UpState
<1>8. \A w \in Words \ behind : Now(nvm, Back(w)) = Effect(n)[w]
  BY <1>2, <1>6 DEF Volatile, BackHas
<1>9. Phase # "store" => \A w \in Words : Now(nvm, Main(w)) = Effect(All)[w]
  BY <1>6 DEF Volatile, Todo
<1>10. Phase \notin {"run", "store"} =>
        \A w \in Words : Now(nvm', Main(w)) = Now(nvm, Main(w))
  BY <1>3, <1>4, <1>5 DEF Durability
<1>11. Phase # "setIdle" =>
         \A w \in Words \ behind : Now(nvm', Back(w)) = Now(nvm, Back(w))
  BY <1>3, <1>4, <1>5 DEF Durability
<1>12. nvm[State] = <<"MUTATING">> => Now(nvm', State) = "MUTATING"
  BY <1>3, LinesDiffer DEF Now, Durable
<1>13. nvm[State] = <<"COPYING">> => Now(nvm', State) = "COPYING"
  BY <1>3, LinesDiffer DEF Now, Durable
<1>14. ASSUME NEW w \in Words
       PROVE  /\ Now(nvm', Back(w)) \subseteq Effect(n)[w]
              /\ Now(nvm', Back(w)) \subseteq Effect(All)[w]
  <2>1. Now(nvm', Back(w)) \subseteq Effect(n)[w]
    BY <1>3, <1>4, <1>6 DEF Volatile, BackHas
  <2>2. Effect(n)[w] \subseteq Effect(All)[w]
    BY <1>2, EffectGrows
  <2>3. QED
    BY <2>1, <2>2
<1>15. CASE Phase \in {"free", "collect", "unlock"}
  <2>1. n = All
    BY <1>6, <1>15 DEF Volatile
  <2>2. QED
    BY <1>7, <1>8, <1>9, <1>10, <1>11, <1>15, <1>14, <2>1
<1>16. CASE Phase = "wait"
  <2>1. n = All
    BY <1>6, <1>16 DEF Volatile
  <2>2. Now(nvm', State) = "MUTATING"
    BY <1>5, <1>12, <1>16 DEF Durability
  <2>3. QED
    BY <1>7, <1>8, <1>11, <1>16, <1>14, <2>1, <2>2
<1>17. CASE Phase \in {"run", "store"}
  <2>1. due \subseteq First(n)
    BY <1>2, <1>6, <1>17
  <2>2. Now(nvm', State) = "MUTATING"
    BY <1>5, <1>12, <1>17 DEF Durability
  <2>3. QED
    BY <1>8, <1>11, <1>17, <1>14, <2>1, <2>2
<1>18. CASE Phase = "psync"
  <2>1. due \subseteq First(n)
    BY <1>2, <1>6, <1>18
  <2>2. Now(nvm', State) \in {"MUTATING", "COPYING"}
    <3>1. nvm[State] = <<"MUTATING", "COPYING">>
      BY <1>5, <1>18 DEF Durability
    <3>2. \A i \in DOMAIN nvm[State] : nvm[State][i] \in {"MUTATING", "COPYING"}
      BY <3>1
    <3>3. QED
      BY <1>3, <3>2, LinesDiffer
  <2>3. CASE Now(nvm', State) = "MUTATING"
    BY <1>8, <1>11, <1>18, <1>14, <2>1, <2>3
  <2>4. CASE Now(nvm', State) = "COPYING"
    BY <1>7, <1>9, <1>10, <1>18, <1>14, <2>4
  <2>5. QED
    BY <2>2, <2>3, <2>4
<1>19. CASE Phase \in {"answer", "copy", "setIdle"}
  <2>1. Now(nvm', State) = "COPYING"
    BY <1>5, <1>13, <1>19 DEF Durability
  <2>2. QED
    BY <1>7, <1>9, <1>10, <1>19, <1>14, <2>1
<1>20. Phase \in {"free"} \cup WriterLabels
  BY <1>2 DEF Logic, LockState, Phase
<1>21. QED
  BY <1>15, <1>16, <1>17, <1>18, <1>19, <1>20 DEF WriterLabels

\* A failure during recovery, which begins anew.
LEMMA FailureWhileDown ==
  ASSUME RInv, NEW kept \in Failures(nvm), PowerFailure(kept), machine # "up",
         ~spoilt'
  PROVE  \E n \in 0 .. All :
           /\ due \subseteq First(n)
           /\ Now(nvm', State) # "MUTATING" =>
                \A w \in Words : Now(nvm', Main(w)) = Effect(n)[w]
           /\ Now(nvm', State) # "COPYING" =>
                \A w \in Words \ behind : Now(nvm', Back(w)) = Effect(n)[w]
           /\ \A w \in Words : Now(nvm', Back(w)) \subseteq Effect(n)[w]
<1>1. /\ TypeOK /\ DownState /\ Memory(nvm) /\ machine \in {"recover", "fence"}
      /\ stale \subseteq behind /\ ~spoilt
  BY StateTypes, MemoryTypes, LogicTypes DEF PowerFailure
<1>2. \A l \in Lines : /\ Durable(l) => Now(nvm', l) = Now(nvm, l)
                       /\ \E i \in DOMAIN nvm[l] : Now(nvm', l) = nvm[l][i]
  <2>1. PICK after : after = nvm'
    OBVIOUS
  <2>2. after = AfterFailure(nvm, kept)
    BY <2>1 DEF PowerFailure
  <2>3. \A l \in Lines :
          /\ Durable(l) => Now(after, l) = Now(nvm, l)
          /\ \E i \in DOMAIN nvm[l] : Now(after, l) = nvm[l][i]
    BY <1>1, <2>2, FailedMemory
  <2>4. QED
    BY <2>1, <2>3
<1>3. State \in Lines /\ \A w \in Words : Main(w) \in Lines /\ Back(w) \in Lines
  BY LinesDiffer
<1>4. /\ \A w \in Words :
           IF Now(nvm, State) = "MUTATING" THEN Durable(Back(w))
                                           ELSE Durable(Main(w))
      /\ Durable(State)
      /\ \A l \in Lines : Durable(l) \/ (machine = "fence" /\ l \in DOMAIN pwb)
      /\ machine = "fence" => Now(nvm, State) # "IDLE"
  BY <1>1 DEF DownState
<1>5. PICK n \in 0 .. All :
         /\ due \subseteq First(n)
         /\ \A w \in Words :
              /\ Now(nvm, State) # "MUTATING" \/ machine = "fence" =>
                   Now(nvm, Main(w)) = Effect(n)[w]
              /\ Now(nvm, State) # "COPYING" \/ machine = "fence" =>
                   w \in stale \/ Now(nvm, Back(w)) = Effect(n)[w]
              /\ \A i \in DOMAIN nvm[Back(w)] :
                   nvm[Back(w)][i] \subseteq Effect(n)[w]
  BY <1>1 DEF DownState
<1>6. Now(nvm', State) = Now(nvm, State)
  BY <1>2, <1>3, <1>4
<1>7. Now(nvm, State) \in {"IDLE", "MUTATING", "COPYING"}
  BY <1>1, <1>3, NowType, ContentsOf
<1>8. ASSUME Now(nvm, State) # "MUTATING", NEW w \in Words
      PROVE  Now(nvm', Main(w)) = Effect(n)[w]
  BY <1>2, <1>3, <1>4, <1>5, <1>8
<1>9. ASSUME Now(nvm, State) # "COPYING", NEW w \in Words \ behind
      PROVE  Now(nvm', Back(w)) = Effect(n)[w]
  <2>1. Durable(Back(w))
    BY <1>1, <1>3, <1>4, <1>7, <1>9
  <2>2. QED
    BY <1>1, <1>2, <1>3, <1>5, <1>9, <2>1
<1>10. \A w \in Words : Now(nvm', Back(w)) \subseteq Effect(n)[w]
  BY <1>2, <1>3, <1>5
<1>11. QED
  BY <1>5, <1>6, <1>8, <1>9, <1>10

LEMMA PowerFailureInv ==
  ASSUME RInv, NEW kept \in Failures(nvm), PowerFailure(kept)
  PROVE  RInv'
<1>1. /\ TypeOK /\ Logic /\ Memory(nvm) /\ due \subseteq Threads \X Nat
      /\ ran \in Seq(Threads \X Nat) /\ overflowed \in BOOLEAN
      /\ spoilt \in BOOLEAN /\ restarts \in Nat
      /\ stale \subseteq behind /\ behind \subseteq Words
  BY StateTypes, MemoryTypes, LogicTypes
<1>2. Logic' /\ th' \in [Threads -> Locals]
  BY <1>1, FailureLogic
<1>3. /\ lock' = Free /\ log' = <<>> /\ logEnabled' = TRUE /\ pwb' = <<>>
      /\ fc' = [t \in Threads |-> 0] /\ reading' = [t \in Threads |-> FALSE]
      /\ machine' = "recover" /\ restarts' = restarts + 1
      /\ spoilt' = (\/ spoilt \/ overflowed
                    \/ behind # {} /\ Now(nvm', State) = "MUTATING")
      /\ stale' = behind /\ UNCHANGED <<ran, due, overflowed, behind>>
  BY DEF PowerFailure
<1>4. DOMAIN pwb' = {}
  BY <1>3
<1>5. Memory(nvm') /\ \A l \in Lines : Len(nvm'[l]) = 1
  <2>1. PICK after : after = nvm'
    OBVIOUS
  <2>2. after = AfterFailure(nvm, kept)
    BY <2>1 DEF PowerFailure
  <2>3. Memory(after) /\ \A l \in Lines : Len(after[l]) = 1
    BY <1>1, <2>2, FailedMemory
  <2>4. QED
    BY <2>1, <2>3
<1>6. TypeOK'
  <2>1. log' \in Seq(Words) /\ IsInjective(log')
    BY <1>3 DEF IsInjective
  <2>2. fc' \in [Threads -> Nat] /\ reading' \in [Threads -> BOOLEAN]
    BY <1>3
  <2>3. DOMAIN pwb' \subseteq Lines
    BY <1>4
  <2>4. lock' \in Threads \cup {Free} /\ restarts' \in Nat
    BY <1>1, <1>3
  <2>6. stale' \subseteq behind' /\ behind' \subseteq Words
    BY <1>1, <1>3
  <2>7. overflowed' \in BOOLEAN /\ spoilt' \in BOOLEAN
    BY <1>1, <1>3
  <2>5. QED
    BY <1>1, <1>2, <1>3, <1>5, <2>1, <2>2, <2>3, <2>4, <2>6, <2>7
       DEF TypeOK, Types, Memory, Locals
<1>7. Noted' /\ UpState'
  BY <1>3, <1>4 DEF Noted, UpState
<1>8. SeenState'
  <2>1. \A t \in Threads : pc(t)' = "idle"
    BY <1>2, <1>3 DEF Logic, LockState
  <2>2. QED
    BY <2>1 DEF SeenState
<1>9. DownState'
  <2>1. SUFFICES ASSUME ~spoilt' PROVE DownState'
    BY DEF DownState
  <2>2. PICK n \in 0 .. All :
           /\ due \subseteq First(n)
           /\ Now(nvm', State) # "MUTATING" =>
                \A w \in Words : Now(nvm', Main(w)) = Effect(n)[w]
           /\ Now(nvm', State) # "COPYING" =>
                \A w \in Words \ behind : Now(nvm', Back(w)) = Effect(n)[w]
           /\ \A w \in Words : Now(nvm', Back(w)) \subseteq Effect(n)[w]
    BY <2>1, FailureWhileUp, FailureWhileDown
  <2>3. /\ n \in 0 .. All' /\ Effect(n)' = Effect(n) /\ First(n)' = First(n)
    BY <1>3, RanSame
  <2>4. \A l \in Lines : Durable(l)'
    BY <1>5 DEF Durable
  <2>5. State \in Lines /\ \A w \in Words : Main(w) \in Lines /\ Back(w) \in Lines
    BY LinesDiffer
  <2>6. Now(nvm', State) = "MUTATING" => behind' = {}
    BY <1>3, <2>1
  <2>7. ASSUME NEW w \in Words, NEW i \in DOMAIN nvm'[Back(w)]
        PROVE  nvm'[Back(w)][i] \subseteq Effect(n)'[w]
    <3>1. nvm'[Back(w)][i] = Now(nvm', Back(w))
      BY <1>5, <2>5 DEF Now, Memory
    <3>2. QED
      BY <2>2, <2>3, <3>1
  <2>8. ASSUME NEW w \in Words
        PROVE  /\ Now(nvm', State) # "MUTATING" =>
                    Now(nvm', Main(w)) = Effect(n)'[w]
               /\ Now(nvm', State) # "COPYING" =>
                    w \in stale' \/ Now(nvm', Back(w)) = Effect(n)'[w]
    BY <1>3, <2>2, <2>3
  <2>9. due' \subseteq First(n)'
    BY <1>3, <2>2, <2>3
  <2>10. QED
    BY <1>3, <2>3, <2>4, <2>5, <2>6, <2>7, <2>8, <2>9 DEF DownState
<1>10. QED
  BY <1>2, <1>6, <1>7, <1>8, <1>9 DEF RInv, Control, Logic

(***************************************************************************)
(* Recovery.                                                               *)
(***************************************************************************)

LEMMA DownThreads ==
  ASSUME RInv, machine # "up"
  PROVE  /\ lock = Free
         /\ \A t \in Threads : pc(t) = "idle"
         /\ \A m \in 1 .. All : Stores(ran[m]) \cap Words # {}
<1>1. Logic /\ lock \in Threads \cup {Free} /\ ran \in Seq(Threads \X Nat)
  BY StateTypes, LogicTypes
<1>2. \A t \in Threads : pc(t) = "idle"
  BY <1>1 DEF Logic, LockState
<1>3. lock = Free
  BY <1>1, <1>2 DEF Logic, LockState, WriterLabels
<1>4. ASSUME NEW m \in 1 .. All
      PROVE  Stores(ran[m]) \cap Words # {}
  <2>1. PICK c \in Threads \X Nat : c = ran[m] /\ c \in Range(ran)
    BY <1>1 DEF All, Range
  <2>2. c[2] \in DOMAIN Calls[c[1]] /\ Stores(c) # {} /\ c[1] \in Threads
    BY <1>1, <2>1 DEF Logic, RanState, RunOnce
  <2>3. Stores(c) \subseteq Words
    BY <2>2, RomulusAssumption DEF Stores
  <2>4. QED
    BY <2>1, <2>2, <2>3
<1>5. QED
  BY <1>2, <1>3, <1>4

\* The program is up again, with the calls that have survived.
LEMMA RecoveredInv ==
  ASSUME RInv, machine # "up", Recovered,
         Memory(nvm'), DOMAIN pwb' \subseteq Lines,
         \A l \in DOMAIN pwb' : pwb'[l] = Now(nvm', l),
         NEW n, ~spoilt =>
           /\ n \in 0 .. All /\ due \subseteq First(n)
           /\ \A w \in Words :
                /\ Now(nvm', Main(w)) = Effect(n)[w]
                /\ w \in stale \/ Now(nvm', Back(w)) = Effect(n)[w]
                /\ Now(nvm', Back(w)) \subseteq Effect(n)[w]
                /\ Len(nvm'[Main(w)]) = 1 /\ Len(nvm'[Back(w)]) = 1
           /\ Now(nvm', State) = "IDLE"
  PROVE  RInv'
<1>1. /\ TypeOK /\ Logic /\ DownState /\ ran \in Seq(Threads \X Nat)
      /\ th \in [Threads -> Locals]
  BY StateTypes, LogicTypes
<1>2. /\ machine' = "up" /\ ran' = Surviving(nvm')
      /\ UNCHANGED <<log, logEnabled, fc, lock, reading, th, due, overflowed,
                     behind, stale, spoilt, restarts>>
  BY DEF Recovered
<1>3. /\ lock = Free
      /\ \A t \in Threads : pc(t) = "idle"
      /\ \A m \in 1 .. All : Stores(ran[m]) \cap Words # {}
  BY DownThreads
<1>4. PICK mem : mem = nvm'
  OBVIOUS
<1>5. PICK k \in 0 .. All : /\ ran' = SubSeq(ran, 1, k)
                            /\ ~spoilt => k = n
  <2>1. CASE ~spoilt
    <3>1. n \in 0 .. All /\ Whole(mem, n)
      BY <1>4, <2>1 DEF Whole
    <3>2. Surviving(mem) = SubSeq(ran, 1, n)
      <4> HIDE <1>4
      <4> QED
        BY <1>1, <1>3, <3>1, SurvivingIs
    <3>3. QED
      BY <1>2, <1>4, <2>1, <3>1, <3>2 DEF Surviving
  <2>2. CASE spoilt
    <3>1. \E j \in 0 .. All : Surviving(mem) = SubSeq(ran, 1, j)
      BY <1>1, SurvivingPrefix
    <3>2. QED
      BY <1>2, <1>4, <2>2, <3>1 DEF Surviving
  <2>3. QED
    BY <2>1, <2>2
<1>6. Logic' /\ Range(ran') = First(k) /\ Len(ran') = k
  BY <1>1, <1>2, <1>5, RecoverLogic
<1>7. k \in Nat /\ \A m \in 1 .. k : ran'[m] = ran[m]
  BY <1>1, <1>5 DEF All
<1>8. ran' \in Seq(Threads \X Nat)
  BY <1>1, <1>5 DEF All
<1>9. TypeOK'
  BY <1>1, <1>2, <1>8 DEF TypeOK, Types, Memory, Locals
<1>10. \A t \in Threads : pc(t)' = "idle"
  BY <1>2, <1>3 DEF pc
<1>11. Noted' /\ SeenState' /\ DownState'
  BY <1>2, <1>10 DEF Noted, AllFenced, SeenState, DownState
<1>12. ASSUME ~spoilt PROVE UpState'
  <2>1. k = n
    BY <1>5, <1>12
  <2>2. Phase' = "free" /\ Todo' = {}
    BY <1>2, <1>3 DEF Phase, Todo
  <2>3. Effect(k)' = Effect(k)
    BY <1>7, EffectSame
  <2>4. log' = <<>> /\ logEnabled'
    BY <1>1, <1>2, <1>12 DEF DownState
  <2>5. All' = k /\ k \in 0 .. All'
    BY <1>6, <1>7 DEF All
  <2>6. \A w \in Words : /\ Now(nvm', Main(w)) = Effect(k)'[w]
                         /\ BackHas(w, Effect(k)[w])'
    <3>1. ASSUME NEW w \in Words, NEW i \in DOMAIN nvm'[Back(w)]
          PROVE  nvm'[Back(w)][i] = Now(nvm', Back(w))
      BY <1>12, LinesDiffer DEF Memory, Now
    <3>2. QED
      BY <1>2, <1>12, <2>1, <2>3, <3>1 DEF BackHas
  <2>7. Volatile(k)'
    BY <2>2, <2>4, <2>5, <2>6 DEF Volatile, BackHas
  <2>8. due' \subseteq Range(ran')
    BY <1>2, <1>6, <1>12, <2>1
  <2>9. Durability'
    BY <1>12, <2>2, <2>4 DEF Durability, Durable
  <2>10. QED
    BY <2>2, <2>5, <2>7, <2>8, <2>9 DEF UpState
<1>13. UpState'
  BY <1>2, <1>12 DEF UpState
<1>14. QED
  BY <1>6, <1>9, <1>11, <1>13 DEF RInv, Control, Logic

LEMMA RecoverNothingInv ==
  ASSUME RInv, RecoverNothing
  PROVE  RInv'
<1>1. /\ TypeOK /\ Noted /\ DownState /\ Memory(nvm) /\ DOMAIN pwb \subseteq Lines
  BY StateTypes, MemoryTypes
<1>2. /\ machine = "recover" /\ Now(nvm, State) = "IDLE" /\ Recovered
      /\ nvm' = nvm /\ pwb' = pwb
  BY DEF RecoverNothing
<1>3. PICK n : ~spoilt =>
         /\ n \in 0 .. All /\ due \subseteq First(n)
         /\ \A w \in Words : /\ Now(nvm, Main(w)) = Effect(n)[w]
                             /\ w \in stale \/ Now(nvm, Back(w)) = Effect(n)[w]
                             /\ \A i \in DOMAIN nvm[Back(w)] :
                                  nvm[Back(w)][i] \subseteq Effect(n)[w]
  BY <1>1, <1>2 DEF DownState
<1>4. \A w \in Words : Main(w) \in Lines /\ Back(w) \in Lines
  BY LinesDiffer
<1>5. \A l \in Lines : Len(nvm[l]) \in DOMAIN nvm[l]
  BY <1>1 DEF Memory
<1>6. ~spoilt => \A w \in Words : Durable(Main(w)) /\ Durable(Back(w))
  BY <1>1, <1>2, <1>4 DEF DownState
<1>7. ~spoilt =>
        /\ n \in 0 .. All /\ due \subseteq First(n)
        /\ \A w \in Words :
             /\ Now(nvm', Main(w)) = Effect(n)[w]
             /\ w \in stale \/ Now(nvm', Back(w)) = Effect(n)[w]
             /\ Now(nvm', Back(w)) \subseteq Effect(n)[w]
             /\ Len(nvm'[Main(w)]) = 1 /\ Len(nvm'[Back(w)]) = 1
        /\ Now(nvm', State) = "IDLE"
  <2>1. ~spoilt => \A w \in Words : Now(nvm, Back(w)) \subseteq Effect(n)[w]
    BY <1>3, <1>4, <1>5 DEF Now
  <2>2. QED
    BY <1>2, <1>3, <1>6, <2>1 DEF Durable
<1>8. /\ Memory(nvm') /\ DOMAIN pwb' \subseteq Lines
      /\ \A l \in DOMAIN pwb' : pwb'[l] = Now(nvm', l)
  BY <1>1, <1>2 DEF Noted
<1>9. QED
  BY <1>2, <1>7, <1>8, RecoveredInv

LEMMA RecoverIdleInv ==
  ASSUME RInv, RecoverIdle
  PROVE  RInv'
<1>1. /\ TypeOK /\ Noted /\ DownState /\ Memory(nvm) /\ DOMAIN pwb \subseteq Lines
  BY StateTypes, MemoryTypes
<1>2. machine = "fence" /\ Recovered /\ pwb' = <<>>
  BY DEF RecoverIdle
<1>3. PICK n : ~spoilt =>
         /\ n \in 0 .. All /\ due \subseteq First(n)
         /\ \A w \in Words : /\ Now(nvm, Main(w)) = Effect(n)[w]
                             /\ w \in stale \/ Now(nvm, Back(w)) = Effect(n)[w]
                             /\ \A i \in DOMAIN nvm[Back(w)] :
                                  nvm[Back(w)][i] \subseteq Effect(n)[w]
  BY <1>1, <1>2 DEF DownState
<1>4. PICK mem, noted, state : mem = nvm /\ noted = pwb /\ state = "IDLE"
  OBVIOUS
<1>5. /\ Memory(mem) /\ \A l \in DOMAIN noted : noted[l] = Now(mem, l)
      /\ state \in Contents(State)
      /\ nvm' = Stored(Fenced(mem, noted), State, state)
  BY <1>1, <1>4, ContentsOf DEF Noted, RecoverIdle
<1>6. /\ Memory(nvm') /\ Now(nvm', State) = state
      /\ \A w \in Words :
           /\ Now(nvm', Main(w)) = Now(mem, Main(w))
           /\ Now(nvm', Back(w)) = Now(mem, Back(w))
           /\ nvm'[Main(w)] = IF Main(w) \in DOMAIN noted
                              THEN <<Now(mem, Main(w))>> ELSE mem[Main(w)]
           /\ nvm'[Back(w)] = IF Back(w) \in DOMAIN noted
                              THEN <<Now(mem, Back(w))>> ELSE mem[Back(w)]
      /\ State \notin DOMAIN noted /\ Now(mem, State) # state =>
           nvm'[State] = Append(mem[State], state)
  <2> HIDE <1>4
  <2> QED
    BY <1>5, FencedState
<1>7. \A w \in Words : Main(w) \in Lines /\ Back(w) \in Lines
  BY LinesDiffer
<1>8. ASSUME ~spoilt, NEW w \in Words
      PROVE  Len(nvm'[Main(w)]) = 1 /\ Len(nvm'[Back(w)]) = 1
  <2>1. \A x : Len(<<x>>) = 1
    OBVIOUS
  <2>2. /\ Len(mem[Main(w)]) = 1 \/ Main(w) \in DOMAIN noted
        /\ Len(mem[Back(w)]) = 1 \/ Back(w) \in DOMAIN noted
    BY <1>1, <1>2, <1>4, <1>7, <1>8 DEF DownState, Durable
  <2>3. /\ \/ nvm'[Main(w)] = <<Now(mem, Main(w))>>
           \/ nvm'[Main(w)] = mem[Main(w)] /\ Len(mem[Main(w)]) = 1
        /\ \/ nvm'[Back(w)] = <<Now(mem, Back(w))>>
           \/ nvm'[Back(w)] = mem[Back(w)] /\ Len(mem[Back(w)]) = 1
    BY <1>6, <2>2
  <2>4. QED
    BY <2>1, <2>3, Zenon
<1>9. ~spoilt =>
        /\ n \in 0 .. All /\ due \subseteq First(n)
        /\ \A w \in Words :
             /\ Now(nvm', Main(w)) = Effect(n)[w]
             /\ w \in stale \/ Now(nvm', Back(w)) = Effect(n)[w]
             /\ Now(nvm', Back(w)) \subseteq Effect(n)[w]
             /\ Len(nvm'[Main(w)]) = 1 /\ Len(nvm'[Back(w)]) = 1
        /\ Now(nvm', State) = "IDLE"
  <2>1. \A l \in Lines : Len(mem[l]) \in DOMAIN mem[l]
    BY <1>5 DEF Memory
  <2>2. ~spoilt => \A w \in Words : Now(mem, Back(w)) \subseteq Effect(n)[w]
    BY <1>3, <1>4, <1>7, <2>1 DEF Now
  <2>3. QED
    BY <1>3, <1>4, <1>6, <1>8, <2>2
<1>10. DOMAIN pwb' = {}
  BY <1>2
<1>11. /\ DOMAIN pwb' \subseteq Lines
       /\ \A l \in DOMAIN pwb' : pwb'[l] = Now(nvm', l)
  BY <1>10
<1>12. machine # "up"
  BY <1>2
<1>13. QED
  BY <1>2, <1>6, <1>9, <1>11, <1>12, RecoveredInv

\* What is copied to main: the words of back.
ToMain == [l \in Mains |-> Now(nvm, Back(l[2]))]

LEMMA RestoredWords ==
  ASSUME Memory(nvm), NEW new, new = ToMain
  PROVE  /\ DOMAIN new = Mains /\ DOMAIN new \subseteq Lines
         /\ \A l \in DOMAIN new : new[l] \in Contents(l)
         /\ \A w \in Words : new[Main(w)] = Now(nvm, Back(w))
         /\ \A w \in Words : Main(w) \in DOMAIN new
         /\ State \notin DOMAIN new
         /\ \A w \in Words : Back(w) \notin DOMAIN new
<1>1. DOMAIN new = Mains
  BY DEF ToMain
<1>2. \A w \in Words : new[Main(w)] = Now(nvm, Back(w))
  <2>1. \A w \in Words : Main(w)[2] = w
    BY LinesDiffer
  <2>2. ASSUME NEW w \in Words PROVE new[Main(w)] = Now(nvm, Back(w))
    <3>1. PICK l \in Mains : l = Main(w)
      BY DEF Mains
    <3>2. new[l] = Now(nvm, Back(l[2])) /\ l[2] = w
      BY <2>1, <3>1 DEF ToMain
    <3>3. QED
      BY <3>1, <3>2
  <2>3. QED
    BY <2>2
<1>3. \A l \in DOMAIN new : new[l] \in Contents(l) /\ l \in Lines
  <2>1. \A w \in Words : /\ Now(nvm, Back(w)) \in Contents(Main(w))
                         /\ Main(w) \in Lines
    BY NowType, LinesDiffer, ContentsOf
  <2>2. ASSUME NEW w \in Words
        PROVE  new[Main(w)] \in Contents(Main(w)) /\ Main(w) \in Lines
    BY <1>2, <2>1
  <2>3. QED
    BY <1>1, <2>2 DEF Mains
<1>4. /\ \A w \in Words : Main(w) \in DOMAIN new
      /\ State \notin DOMAIN new
      /\ \A w \in Words : Back(w) \notin DOMAIN new
  BY <1>1, LinesDiffer DEF Mains
<1>5. QED
  BY <1>1, <1>2, <1>3, <1>4

\* Recovery copies one of the replicas: what is written back then, and what
\* it leaves.
LEMMA CopiedInv ==
  ASSUME RInv, machine = "recover", machine' = "fence",
         UNCHANGED <<log, logEnabled, fc, lock, reading, th>>,
         UNCHANGED <<ran, due, overflowed, spoilt, restarts>>,
         behind' = {}, stale' = {},
         NEW new, NEW lines, nvm' = StoreAll(new), lines = DOMAIN new,
         pwb' = WrittenBack(pwb, nvm', lines),
         DOMAIN new \subseteq Lines,
         \A l \in DOMAIN new : new[l] \in Contents(l),
         State \notin DOMAIN new, Now(nvm, State) # "IDLE",
         \/ /\ Now(nvm, State) = "COPYING"
            /\ \A w \in Words : /\ Main(w) \notin DOMAIN new
                                /\ Back(w) \in DOMAIN new
                                /\ new[Back(w)] = Now(nvm, Main(w))
         \/ /\ Now(nvm, State) = "MUTATING"
            /\ \A w \in Words : /\ Back(w) \notin DOMAIN new
                                /\ Main(w) \in DOMAIN new
                                /\ new[Main(w)] = Now(nvm, Back(w))
  PROVE  RInv'
<1>1. /\ TypeOK /\ Noted /\ Logic /\ DownState
      /\ Memory(nvm) /\ DOMAIN pwb \subseteq Lines
  BY StateTypes, MemoryTypes
<1>2. \A t \in Threads : pc(t) = "idle" /\ pc(t)' = "idle"
  BY DownThreads DEF pc
<1>3. /\ Memory(nvm')
      /\ \A l \in Lines :
           /\ l \in DOMAIN new => Now(nvm', l) = new[l]
           /\ l \notin DOMAIN new => /\ nvm'[l] = nvm[l]
                                     /\ Now(nvm', l) = Now(nvm, l)
  BY <1>1, StoreAllMemory
<1>4. /\ DOMAIN pwb' = lines \cup DOMAIN pwb
      /\ \A l \in DOMAIN pwb' : pwb'[l] = Now(nvm', l)
  <2>1. \A l \in DOMAIN pwb \ lines : pwb[l] = Now(nvm', l)
    BY <1>1, <1>3 DEF Noted
  <2>2. QED
    BY <2>1 DEF WrittenBack
<1>5. /\ UNCHANGED <<ran, due, overflowed, spoilt, restarts>>
      /\ behind' = {} /\ stale' = {} /\ stale \subseteq behind
  BY <1>1, MemoryTypes
<1>6. Logic'
  <2>1. PICK n \in 0 .. All : n = Len(ran) /\ ran \in Seq(Threads \X Nat)
    BY <1>1, LogicTypes DEF All
  <2>2. ran' = SubSeq(ran, 1, n)
    BY <1>5, <2>1, SubSeqFull
  <2>3. machine # "up"
    OBVIOUS
  <2>4. QED
    BY <1>1, <2>2, <2>3, RecoverLogic
<1>7. TypeOK'
  <2>1. DOMAIN pwb' \subseteq Lines
    BY <1>1, <1>4
  <2>2. QED
    BY <1>1, <1>3, <1>5, <2>1 DEF TypeOK, Types, Memory
<1>8. Noted' /\ UpState' /\ SeenState'
  BY <1>2, <1>4 DEF Noted, AllFenced, UpState, SeenState
<1>9. ASSUME ~spoilt PROVE DownState'
  <2>1. State \in Lines /\ \A w \in Words : Main(w) \in Lines /\ Back(w) \in Lines
    BY LinesDiffer
  <2>2. nvm'[State] = nvm[State] /\ Now(nvm', State) = Now(nvm, State)
    BY <1>3, <2>1
  <2>3. /\ \A l \in Lines : Durable(l)
        /\ log = <<>> /\ logEnabled
    BY <1>1, <1>9 DEF DownState
  <2>4. PICK n \in 0 .. All :
           /\ due \subseteq First(n)
           /\ \A w \in Words :
                /\ Now(nvm, State) # "MUTATING" => Now(nvm, Main(w)) = Effect(n)[w]
                /\ Now(nvm, State) = "MUTATING" => Now(nvm, Back(w)) = Effect(n)[w]
                /\ \A i \in DOMAIN nvm[Back(w)] :
                     nvm[Back(w)][i] \subseteq Effect(n)[w]
    <3>1. Now(nvm, State) = "MUTATING" => stale = {}
      BY <1>1, <1>5, <1>9 DEF DownState
    <3>2. QED
      BY <1>1, <1>9, <3>1 DEF DownState
  <2>5. \A w \in Words : /\ Now(nvm', Main(w)) = Effect(n)[w]
                         /\ Now(nvm', Back(w)) = Effect(n)[w]
    BY <1>3, <2>1, <2>4
  <2>6. \A l \in Lines : Durable(l)' \/ l \in DOMAIN pwb'
    BY <1>3, <1>4, <2>3 DEF Durable
  <2>7. \A w \in Words :
          IF Now(nvm, State) = "MUTATING" THEN Durable(Back(w))'
                                          ELSE Durable(Main(w))'
    BY <1>3, <2>1, <2>3 DEF Durable
  <2>8. Durable(State)'
    BY <2>1, <2>2, <2>3 DEF Durable
  <2>9. /\ n \in 0 .. All' /\ Effect(n)' = Effect(n) /\ First(n)' = First(n)
    BY <1>5, RanSame
  <2>10. ASSUME NEW w \in Words
         PROVE  \A i \in DOMAIN nvm'[Back(w)] :
                  nvm'[Back(w)][i] \subseteq Effect(n)[w]
    <3>1. CASE Back(w) \in DOMAIN new
      <4>1. new[Back(w)] \subseteq Effect(n)[w]
        BY <1>3, <2>1, <2>5, <3>1
      <4>2. QED
        BY <1>1, <2>1, <2>4, <3>1, <4>1, StoreAllVersions
    <3>2. CASE Back(w) \notin DOMAIN new
      BY <1>3, <2>1, <2>4, <3>2
    <3>3. QED
      BY <3>1, <3>2
  <2>11. due' \subseteq First(n)'
    BY <1>5, <2>4, <2>9
  <2>12. QED
    BY <1>5, <2>2, <2>3, <2>5, <2>6, <2>7, <2>8, <2>9, <2>10, <2>11
       DEF DownState
<1>10. DownState'
  BY <1>5, <1>9 DEF DownState
<1>11. QED
  BY <1>6, <1>7, <1>8, <1>10 DEF RInv, Control, Logic

LEMMA RecoverCopyInv ==
  ASSUME RInv, RecoverCopy
  PROVE  RInv'
<1>1. /\ Memory(nvm)
      /\ machine = "recover" /\ machine' = "fence"
      /\ UNCHANGED <<log, logEnabled, fc, lock, reading, th>>
      /\ UNCHANGED <<ran, due, overflowed, spoilt, restarts>>
      /\ behind' = {} /\ stale' = {}
  BY StateTypes, MemoryTypes DEF RecoverCopy
<1>2. CASE Now(nvm, State) = "COPYING"
  <2>1. PICK copied \in SUBSET Words : copied = Words
    BY Zenon
  <2>2. PICK new : new = ToBack(copied)
    OBVIOUS
  <2>3. PICK lines : lines = Backs
    OBVIOUS
  <2>4. /\ DOMAIN new = BacksOf(copied) /\ DOMAIN new \subseteq Lines
        /\ \A l \in DOMAIN new : new[l] \in Contents(l)
        /\ \A w \in copied : new[Back(w)] = Now(nvm, Main(w))
        /\ \A w \in Words : Back(w) \in DOMAIN new <=> w \in copied
        /\ State \notin DOMAIN new
        /\ \A w \in Words : Main(w) \notin DOMAIN new
    <3> HIDE <2>1
    <3> QED
      BY <1>1, <2>2, CopiedWords
  <2>5. nvm' = StoreAll(new) /\ pwb' = WrittenBack(pwb, nvm', lines)
    BY <1>2, <2>1, <2>2, <2>3 DEF RecoverCopy, ToBack, Backs
  <2>6. lines = DOMAIN new
    BY <2>1, <2>3, <2>4 DEF BacksOf, Backs
  <2>7. \A w \in Words : /\ Main(w) \notin DOMAIN new
                         /\ Back(w) \in DOMAIN new
                         /\ new[Back(w)] = Now(nvm, Main(w))
    BY <2>1, <2>4
  <2>8. Now(nvm, State) # "IDLE"
    BY <1>2
  <2> HIDE <2>1, <2>2, <2>3
  <2>9. QED
    BY <1>1, <1>2, <2>4, <2>5, <2>6, <2>7, <2>8, CopiedInv
<1>3. CASE Now(nvm, State) = "MUTATING"
  <2>1. PICK new : new = ToMain
    OBVIOUS
  <2>2. PICK lines : lines = Mains
    OBVIOUS
  <2>3. /\ DOMAIN new = Mains /\ DOMAIN new \subseteq Lines
        /\ \A l \in DOMAIN new : new[l] \in Contents(l)
        /\ \A w \in Words : new[Main(w)] = Now(nvm, Back(w))
        /\ \A w \in Words : Main(w) \in DOMAIN new
        /\ State \notin DOMAIN new
        /\ \A w \in Words : Back(w) \notin DOMAIN new
    BY <1>1, <2>1, RestoredWords
  <2>4. nvm' = StoreAll(new) /\ pwb' = WrittenBack(pwb, nvm', lines)
    BY <1>3, <2>1, <2>2 DEF RecoverCopy, ToMain
  <2>5. lines = DOMAIN new
    BY <2>2, <2>3
  <2>6. Now(nvm, State) # "IDLE"
    BY <1>3
  <2>7. \A w \in Words : /\ Back(w) \notin DOMAIN new
                         /\ Main(w) \in DOMAIN new
                         /\ new[Main(w)] = Now(nvm, Back(w))
    BY <2>3
  <2> HIDE <2>1, <2>2
  <2>8. QED
    BY <1>1, <1>3, <2>3, <2>4, <2>5, <2>6, <2>7, CopiedInv
<1>4. QED
  BY <1>2, <1>3 DEF RecoverCopy

(***************************************************************************)
(* The theorems.                                                           *)
(***************************************************************************)

LEMMA InitInv == Init => RInv
<1> SUFFICES ASSUME Init PROVE RInv
  OBVIOUS
<1>1. N \in Nat \ {0} /\ Free \notin Threads
  BY ThreadsAre
<1>2. ASSUME NEW t \in Threads
      PROVE  /\ th[t] \in Locals /\ th[t].pc = "idle" /\ th[t].i = 0
             /\ \A u \in Threads : th[t].lfc[u] = 0
  <2>1. PICK k \in Nat \ {0} : k = 1
    OBVIOUS
  <2>2. th[t] = Local(k)
    BY <2>1 DEF Init
  <2>3. QED
    BY <1>1, <2>2, LocalType
<1>3. th \in [Threads -> Locals]
  <2>1. th = [t \in Threads |-> th[t]]
    BY DEF Init
  <2>2. QED
    BY <1>2, <2>1
<1>4. /\ DOMAIN nvm = Lines /\ nvm[State] = <<"IDLE">>
      /\ \A w \in Words : nvm[Main(w)] = <<{}>> /\ nvm[Back(w)] = <<{}>>
  BY LinesDiffer DEF Init
<1>5. Memory(nvm)
  <2>1. "IDLE" \in Contents(State)
    BY ContentsOf
  <2>2. {} \in SUBSET Stamps
    OBVIOUS
  <2>3. ASSUME NEW l \in Lines, l # State
        PROVE  nvm[l] = <<{}>> /\ Contents(l) = SUBSET Stamps
    BY <2>3 DEF Init, Contents
  <2>4. nvm[State] \in Seq(Contents(State)) \ {<<>>}
    BY <1>4, <2>1
  <2>5. ASSUME NEW l \in Lines, l # State
        PROVE  nvm[l] \in Seq(Contents(l)) \ {<<>>}
    <3>1. PICK e \in SUBSET Stamps : e = {}
      BY <2>2
    <3>2. nvm[l] = <<e>> /\ e \in Contents(l)
      BY <2>3, <2>5, <3>1
    <3> HIDE <3>1
    <3>3. QED
      BY <3>2
  <2>6. QED
    BY <1>4, <2>4, <2>5 DEF Memory
<1>6. DOMAIN pwb = {} /\ log = <<>> /\ ran = <<>>
  BY DEF Init
<1>7. TypeOK
  <2>1. /\ log \in Seq(Words) /\ IsInjective(log) /\ ran \in Seq(Threads \X Nat)
    BY <1>6 DEF IsInjective
  <2>2. /\ fc \in [Threads -> Nat] /\ reading \in [Threads -> BOOLEAN]
        /\ lock \in Threads \cup {Free} /\ logEnabled \in BOOLEAN
        /\ machine \in {"up", "recover", "fence"} /\ due \subseteq Threads \X Nat
        /\ overflowed \in BOOLEAN /\ spoilt \in BOOLEAN /\ restarts \in Nat
        /\ stale \subseteq behind /\ behind \subseteq Words
    BY DEF Init
  <2>3. DOMAIN pwb \subseteq Lines
    BY <1>6
  <2>4. QED
    BY <1>3, <1>5, <2>1, <2>2, <2>3, TypesAre
<1>8. /\ \A t \in Threads : pc(t) = "idle" /\ fc[t] = 0 /\ ~reading[t]
      /\ lock = Free /\ machine = "up" /\ logEnabled /\ due = {}
  BY <1>2 DEF Init, pc
<1>9. \A t \in Threads : ~Updating(t)
  BY <1>8 DEF Updating, UpdateLabels, WriterLabels
<1>10. Logic
  <2>1. LockState
    BY <1>1, <1>2, <1>8 DEF LockState, WriterLabels
  <2>2. ReadersOut /\ StoreState
    BY <1>8 DEF ReadersOut, StoreState
  <2>3. SlotState
    BY <1>8, <1>9 DEF SlotState
  <2>4. CollectState
    BY <1>1, <1>2, <1>8 DEF CollectState, CollectedFrom, Unanswered
  <2>5. Range(ran) = {} /\ IsInjective(ran)
    BY <1>6 DEF Range, IsInjective
  <2>6. RanState
    BY <1>9, <2>5 DEF RanState
  <2>7. QED
    BY <2>1, <2>2, <2>3, <2>4, <2>6 DEF Logic
<1>11. Noted /\ SeenState /\ DownState
  BY <1>6, <1>8 DEF Noted, SeenState, DownState
<1>12. UpState
  <2>1. All = 0 /\ Phase = "free" /\ Todo = {}
    BY <1>6, <1>8 DEF All, Phase, Todo
  <2>2. ASSUME NEW w \in Words PROVE Effect(0)[w] = {}
    <3>1. 1 .. 0 = {}
      OBVIOUS
    <3>2. QED
      BY <3>1 DEF Effect
  <2>3. \A w \in Words : Now(nvm, Main(w)) = {} /\ Now(nvm, Back(w)) = {}
    <3>1. PICK e : e = {}
      OBVIOUS
    <3>2. \A w \in Words : nvm[Main(w)] = <<e>> /\ nvm[Back(w)] = <<e>>
      BY <1>4, <3>1
    <3>3. \A w \in Words : Now(nvm, Main(w)) = e /\ Now(nvm, Back(w)) = e
      <4> HIDE <3>1
      <4> QED
        BY <3>2 DEF Now
    <3>4. QED
      BY <3>1, <3>3
  <2>4. Now(nvm, State) = "IDLE"
    BY <1>4 DEF Now
  <2>5. Volatile(0)
    <3>1. ASSUME NEW w \in Words PROVE BackHas(w, Effect(0)[w])
      <4>1. \A i \in DOMAIN nvm[Back(w)] : nvm[Back(w)][i] = {}
        BY <1>4
      <4>2. QED
        BY <2>2, <2>3, <4>1 DEF BackHas
    <3>2. QED
      BY <1>6, <1>8, <2>1, <2>2, <2>3, <3>1 DEF Volatile
  <2>6. Durability
    BY <1>4, <1>8, <2>1, <2>4 DEF Durability, Durable
  <2>7. QED
    BY <1>8, <2>1, <2>5, <2>6 DEF UpState
<1>13. QED
  BY <1>7, <1>10, <1>11, <1>12, InvIs

LEMMA RunInv ==
  ASSUME RInv, NEW t \in Threads, Run(t)
  PROVE  RInv'
<1>1. CASE Update(t)
  <2>1. CASE WriteTransaction(t)
    BY <2>1, WriteTransactionInv
  <2>2. CASE TryExclusiveLock(t)
    BY <2>2, TryExclusiveLockInv
  <2>3. CASE CheckDone(t)
    BY <2>3, CheckDoneInv
  <2>4. CASE Collect(t)
    BY <2>4, CollectInv
  <2>5. CASE SetMutating(t)
    BY <2>5, SetMutatingInv
  <2>6. CASE WaitForReaders(t)
    BY <2>6, WaitForReadersInv
  <2>7. CASE RunFunction(t)
    BY <2>7, NotCollectedInv, FunctionRunInv
  <2>8. CASE PStore(t)
    BY <2>8, PStoreInv
  <2>9. CASE SetCopying(t)
    BY <2>9, SetCopyingInv
  <2>10. CASE PSync(t)
    BY <2>10, PSyncInv
  <2>11. CASE Answer(t)
    BY <2>11, AnswerInv
  <2>12. CASE CopyToBack(t)
    BY <2>12, CopyToBackInv
  <2>13. CASE SetIdle(t)
    BY <2>13, SetIdleInv
  <2>14. CASE ExclusiveUnlock(t)
    BY <2>14, ExclusiveUnlockInv
  <2>15. QED
    BY <1>1, <2>1, <2>2, <2>3, <2>4, <2>5, <2>6, <2>7, <2>8, <2>9, <2>10,
       <2>11, <2>12, <2>13, <2>14 DEF Update
<1>2. CASE Reads(t)
  <2>1. CASE ReadTransaction(t)
    BY <2>1, ReadTransactionInv
  <2>2. CASE Arrive(t)
    BY <2>2, ArriveInv
  <2>3. CASE IsLocked(t)
    BY <2>3, IsLockedInv
  <2>4. CASE Depart(t)
    BY <2>4, DepartInv
  <2>5. CASE Spin(t)
    BY <2>5, SpinInv
  <2>6. CASE Read(t)
    BY <2>6, ReadInv
  <2>7. CASE SharedUnlock(t)
    BY <2>7, SharedUnlockInv
  <2>8. QED
    BY <1>2, <2>1, <2>2, <2>3, <2>4, <2>5, <2>6, <2>7 DEF Reads
<1>3. QED
  BY <1>1, <1>2 DEF Run

LEMMA StutterInv ==
  ASSUME RInv, UNCHANGED vars
  PROVE  RInv'
<1>1. /\ UNCHANGED <<nvm, pwb, log, logEnabled, fc, lock, reading, th, machine>>
      /\ UNCHANGED <<ran, due, overflowed, behind, stale, spoilt, restarts>>
  BY DEF vars, memory, history
<1>2. TypeOK' /\ Noted'
  BY <1>1, StateTypes DEF TypeOK, Types, Noted, Now, pc
<1>3. LockState' /\ ReadersOut' /\ SlotState' /\ StoreState'
  BY <1>1, StateTypes DEF Logic, LockState, ReadersOut, SlotState, StoreState,
     Updating, HasCall, Call, Collected, Running, Stores, pc
<1>4. CollectState'
  BY <1>1, StateTypes DEF Logic, CollectState, CollectedFrom, Unanswered, pc
<1>5. RanState'
  BY <1>1, StateTypes DEF Logic, RanState, RunOnce, IsRun, HasRun, Updating, pc
<1>6. \A n : Effect(n)' = Effect(n) /\ First(n)' = First(n)
  BY <1>1 DEF Effect, First
<1>7. All' = All /\ Phase' = Phase /\ Todo' = Todo /\ Settled' = Settled
  BY <1>1 DEF All, Phase, Todo, Settled, Updating, pc
<1>8. UpState' /\ DownState' /\ SeenState'
  <2>1. Durability' <=> Durability
    BY <1>1, <1>7 DEF Durability, Durable, Now
  <2>2. \A n : Volatile(n)' <=> Volatile(n)
    BY <1>1, <1>6, <1>7 DEF Volatile, BackHas, Now
  <2>3. UpState'
    BY <1>1, <1>6, <1>7, <2>1, <2>2, StateTypes DEF UpState
  <2>4. DownState'
    BY <1>1, <1>6, <1>7, StateTypes DEF DownState, Durable, Now
  <2>5. SeenState'
    BY <1>1, <1>6, <1>7, StateTypes DEF SeenState, pc
  <2>6. QED
    BY <2>3, <2>4, <2>5
<1>9. QED
  BY <1>2, <1>3, <1>4, <1>5, <1>8 DEF RInv, Control

(***************************************************************************)
(* The theorems.                                                           *)
(***************************************************************************)

\* The combiner and the readers exclude each other, each function announced
\* is run once and answered once, and whatever a power failure leaves of the
\* two replicas, recovery finds one of them whole.
THEOREM RInvariance == Spec => []RInv
<1>1. RInv /\ [Next]_vars => RInv'
  <2> SUFFICES ASSUME RInv, [Next]_vars
               PROVE  RInv'
    OBVIOUS
  <2>1. CASE \E t \in Threads : Run(t)
    BY <2>1, RunInv
  <2>2. CASE \E kept \in Failures(nvm) : PowerFailure(kept)
    BY <2>2, PowerFailureInv
  <2>3. CASE Recover
    BY <2>3, RecoverCopyInv, RecoverNothingInv, RecoverIdleInv DEF Recover
  <2>4. CASE Finished \/ UNCHANGED vars
    BY <2>4, StutterInv DEF Finished
  <2>5. QED
    BY <2>1, <2>2, <2>3, <2>4 DEF Next
<1>2. QED
  BY <1>1, InitInv, PTL DEF Spec

\* Through failures and recoveries, a line of memory never loses its last
\* content, the log of a transaction has no line twice, and slots, calls and
\* labels stay what the code can read.
THEOREM RTypeCorrect == Spec => []TypeOK
<1>1. RInv => TypeOK
  BY DEF RInv, Control
<1>2. QED
  BY <1>1, RInvariance, PTL

LEMMA ReplicasWhole == RInv => ReplicasAreWhole
<1>1. ASSUME RInv, machine = "up", lock = Free, ~spoilt, NEW w \in Words
      PROVE  /\ Now(nvm, Main(w)) = Effect(Len(ran))[w]
             /\ w \notin stale => Now(nvm, Back(w)) = Effect(Len(ran))[w]
             /\ ~overflowed /\ w \notin behind => Durable(Back(w))
  <2>1. PICK n \in 0 .. All : Volatile(n)
    BY <1>1 DEF RInv, UpState
  <2>2. Phase = "free" /\ Todo = {}
    BY <1>1 DEF Phase, Todo
  <2>3. n = All
    BY <2>1, <2>2 DEF Volatile
  <2>4. /\ Now(nvm, Main(w)) = Effect(All)[w]
        /\ w \notin stale => Now(nvm, Back(w)) = Effect(All)[w]
    BY <2>1, <2>2, <2>3 DEF Volatile, BackHas
  <2>5. ~overflowed /\ w \notin behind => Durable(Back(w))
    BY <1>1, <2>2 DEF RInv, UpState, Durability
  <2>6. QED
    BY <2>4, <2>5 DEF All
<1>2. QED
  BY <1>1 DEF ReplicasAreWhole

\* When the lock is free, after each update transaction and each recovery,
\* main has the effect of whole calls in one order, and back has it, too, in
\* each word no power failure may have left old, and durably in each one that
\* was written back when it was copied (RomulusLog.hpp:439-460,
\* RomulusLog.cpp:203-220).
THEOREM WholeReplicas == Spec => []ReplicasAreWhole
BY ReplicasWhole, RInvariance, PTL

\* An update that has returned, or that some reader has seen, is among the
\* calls main has the effect of, before and after every power failure
\* (RomulusLog.hpp:443-449).
THEOREM NothingLost == Spec => []NothingIsLost
<1>1. RInv => NothingIsLost
  BY DEF RInv, UpState, NothingIsLost
<1>2. QED
  BY <1>1, RInvariance, PTL

(***************************************************************************)
(* Were back on lines of its own as main is, every word would be met by    *)
(* the flush of its entry, and no word would be behind.                    *)
(***************************************************************************)
Aligned == \A w \in Words : w \in Meets[w]

NoneBehind == behind = {} /\ (spoilt => overflowed)

LEMMA NoneBehindStep ==
  ASSUME Aligned, TypeOK, NoneBehind, [Next]_vars
  PROVE  NoneBehind'
<1>1. UNCHANGED history => NoneBehind'
  BY DEF NoneBehind, history
<1>2. CASE \E t \in Threads : Run(t)
  <2>1. PICK t \in Threads : Run(t)
    BY <1>2
  <2>2. CASE Update(t)
    <3>1. CASE CopyToBack(t)
      <4>1. Copied \subseteq Flushed
        BY MemoryTypes, RangeOfLog DEF Aligned, Copied, Flushed
      <4>2. QED
        BY <3>1, <4>1 DEF CopyToBack, NoneBehind
    <3>2. CASE PStore(t)
      <4>1. /\ overflowed' = (overflowed \/ Skipped)
            /\ UNCHANGED <<behind, spoilt>>
        BY <3>2 DEF PStore, StoreAfter
      <4>2. QED
        BY <4>1, MemoryTypes DEF NoneBehind
    <3>3. CASE CheckDone(t) \/ ExclusiveUnlock(t) \/ RunFunction(t)
      <4>1. UNCHANGED <<overflowed, behind, spoilt>>
        BY <3>3 DEF CheckDone, ExclusiveUnlock, RunFunction, Return, history
      <4>2. QED
        BY <4>1 DEF NoneBehind
    <3>4. CASE \/ WriteTransaction(t) \/ TryExclusiveLock(t) \/ Collect(t)
               \/ SetMutating(t) \/ WaitForReaders(t) \/ SetCopying(t)
               \/ PSync(t) \/ Answer(t) \/ SetIdle(t)
      BY <1>1, <3>4 DEF WriteTransaction, TryExclusiveLock, Collect,
         SetMutating, WaitForReaders, SetCopying, PSync, Synced, Answer,
         SetIdle
    <3>5. QED
      BY <2>2, <3>1, <3>2, <3>3, <3>4 DEF Update
  <2>3. CASE Reads(t)
    <3>1. CASE SharedUnlock(t)
      BY <3>1 DEF SharedUnlock, HasRead, Return, NoneBehind
    <3>2. CASE ReadTransaction(t) \/ Arrive(t) \/ IsLocked(t) \/ Depart(t)
               \/ Spin(t) \/ Read(t)
      BY <1>1, <3>2 DEF ReadTransaction, Arrive, IsLocked, Depart, Spin, Read,
         Load
    <3>3. QED
      BY <2>3, <3>1, <3>2 DEF Reads
  <2>4. QED
    BY <2>1, <2>2, <2>3 DEF Run
<1>3. CASE \E kept \in Failures(nvm) : PowerFailure(kept)
  BY <1>3 DEF PowerFailure, NoneBehind
<1>4. CASE Recover
  <2>1. CASE RecoverCopy
    BY <2>1 DEF RecoverCopy, NoneBehind
  <2>2. CASE RecoverNothing \/ RecoverIdle
    BY <2>2 DEF RecoverNothing, RecoverIdle, Recovered, NoneBehind
  <2>3. QED
    BY <1>4, <2>1, <2>2 DEF Recover
<1>5. CASE Finished \/ UNCHANGED vars
  BY <1>1, <1>5 DEF Finished, vars
<1>6. QED
  BY <1>2, <1>3, <1>4, <1>5 DEF Next

\* With both replicas aligned alike, the PSYNC before the answers is enough:
\* as long as the log has every store, no power failure takes back what a
\* caller was told of (RomulusLog.hpp:148-153, 443-453).
THEOREM AlignedAnswersDurable ==
  ASSUME Aligned
  PROVE  Spec => [](~overflowed => AnsweredMeansDurable)
<1>1. Init => NoneBehind
  BY DEF Init, NoneBehind
<1>2. TypeOK /\ NoneBehind /\ [Next]_vars => NoneBehind'
  BY NoneBehindStep
<1>3. NothingIsLost /\ NoneBehind => (~overflowed => AnsweredMeansDurable)
  BY DEF NothingIsLost, NoneBehind, AnsweredMeansDurable
<1>4. QED
  BY <1>1, <1>2, <1>3, RTypeCorrect, NothingLost, PTL DEF Spec

\* What a read transaction has seen when it returns is the effect of all
\* calls run so far, whole (CRWWP_SpinLock.hpp:147-162, RomulusLog.hpp:431).
THEOREM ReadersWhole == Spec => []ReadersSeeWhole
<1>1. ASSUME RInv, NEW t \in Threads, At(t, "read"), th[t].todo = {}, ~spoilt
      PROVE  th[t].seen = Effect(Len(ran))
  <2>1. \A w \in Words : th[t].seen[w] = Effect(All)[w]
    BY <1>1 DEF RInv, SeenState, At, pc
  <2>2. th[t].seen \in [Words -> SUBSET Stamps]
    BY <1>1 DEF RInv, Control, TypeOK, Types, LocalTypes
  <2>3. Effect(All) = [w \in Words |-> Effect(All)[w]]
    BY DEF Effect
  <2>4. th[t].seen = [w \in Words |-> th[t].seen[w]]
    BY <2>2
  <2>5. QED
    BY <2>1, <2>3, <2>4 DEF All
<1>2. RInv => ReadersSeeWhole
  BY <1>1 DEF ReadersSeeWhole
<1>3. QED
  BY <1>2, RInvariance, PTL

\* The function a combiner is running is that of a call still waiting for it,
\* and no call is ever run twice (RomulusLog.hpp:400-409, 415-418, 435-449).
THEOREM FunctionsRunOnce == Spec => []RunsLiveFunctionsOnce
<1>1. ASSUME RInv, NEW t \in Threads, At(t, "store")
      PROVE  Running(t)[2] = th[Running(t)[1]].k
  <2> DEFINE u == th[t].i
  <2>1. u \in Threads /\ th[t].lfc[u] # 0
    BY <1>1 DEF RInv, Control, StoreState, Collected, At, pc
  <2>2. fc[u] = th[t].lfc[u]
    BY <1>1, <2>1 DEF RInv, Control, CollectState, CollectedFrom, Unanswered,
       At, pc
  <2>3. fc[u] = th[u].k
    BY <1>1, <2>1, <2>2 DEF RInv, Control, SlotState
  <2>4. Running(t)[1] = u /\ Running(t)[2] = th[t].lfc[u]
    BY DEF Running
  <2>5. QED
    BY <2>2, <2>3, <2>4
<1>2. RInv => RunsLiveFunctionsOnce
  BY <1>1 DEF RunsLiveFunctionsOnce, RInv, Control, RanState
<1>3. QED
  BY <1>2, RInvariance, PTL
=============================================================================
