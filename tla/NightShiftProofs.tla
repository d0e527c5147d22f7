--------------------------- MODULE NightShiftProofs ---------------------------
(***************************************************************************)
(* Proofs about lab06/bitronka for any number of workers and shelves.      *)
(*                                                                         *)
(* Everything follows from who holds which mutex (LockInv): a living       *)
(* worker owns the mutexes that its place says, the manager those its loop *)
(* index says, and nobody any other.  Hence the pairs that are being       *)
(* swapped are disjoint, and Tidy, the shelves with these swaps completed, *)
(* is a permutation (TidyInv); hence also a death leaves two mutexes.      *)
(***************************************************************************)
EXTENDS NightShift, TLAPS, FiniteSetTheorems

HoldsFirst(w)  == pc[w] \in {"body1", "second", "body2", "look", "swap", "unlock2", "unlock1"}
HoldsSecond(w) == pc[w] \in {"body2", "look", "swap", "unlock2"}

\* The manager has locked shelf i and not unlocked it yet.
ManagerHolds(i) == \/ pc[Manager] = "lock"   /\ i < aisle
                   \/ pc[Manager] = "body"   /\ i <= aisle
                   \/ pc[Manager] = "check"
                   \/ pc[Manager] = "unlock" /\ i >= aisle

PlaceInv ==
    /\ \A w \in Workers : /\ pc[w] \in WorkerPlaces
                          /\ pc[w] \notin {"top", "dead", "exited"} => x[w] # y[w]
    /\ pc[Manager] \in ManagerPlaces
    /\ pc[Manager] = "body" => aisle < N

LockInv ==
    /\ \A w \in Workers : pc[w] # "dead" =>
          \A i \in Shelves : owner[i] = w <=> \/ HoldsFirst(w)  /\ i = First(w)
                                              \/ HoldsSecond(w) /\ i = Second(w)
    /\ \A i \in Shelves : owner[i] = Manager <=> ManagerHolds(i)

TidyInv == Tidy \in Permutations

\* Once the manager has seen the shelves in order they stay so; and the last one to die did so
\* in front of two shelves that were not.
SortInv ==
    /\ seen = 1 /\ pc[Manager] \in {"unlock", "alive", "announce", "exited"} =>
          InOrder(log) /\ \A w \in Workers : pc[w] # "swap"
    /\ pc[Manager] = "announce" => seen = 1
    /\ sorted = 1 => seen = 1 /\ pc[Manager] = "exited"
    /\ Bodies = Workers => ~InOrder(log)
    /\ pc[Manager] = "exited" => sorted = 1 \/ Bodies = Workers

Inv == TypeOK /\ PlaceInv /\ LockInv /\ TidyInv /\ DeadAccounts /\ SortInv

-----------------------------------------------------------------------------
(* Steps. *)

\* A step of worker w, of the manager, or none.
WorkerStep(w) == (\E i, j \in Shelves : Draw(w, i, j)) \/ WorkerLocks(w) \/ Work(w)
ManagerStep   == ManagerLocks \/ Manage

\* Every step is one of a worker, one of the manager, or changes nothing.
LEMMA StepCases ==
    ASSUME [Next]_vars
    PROVE  (\E w \in Workers : WorkerStep(w)) \/ ManagerStep \/ UNCHANGED vars
BY DEF Next, WorkerStep, ManagerStep, Stop

\* First and Second are the two shelves drawn, in their order.
LEMMA PairFacts ==
    ASSUME TypeOK, NEW w \in Workers
    PROVE  /\ First(w) \in Shelves /\ Second(w) \in Shelves
           /\ {First(w), Second(w)} = {x[w], y[w]}
           /\ x[w] # y[w] => First(w) < Second(w)
BY NightShiftAssumption DEF TypeOK, Shelves, First, Second

\* Every step keeps the types.
LEMMA TypeStep == ASSUME TypeOK, PlaceInv, [Next]_vars PROVE TypeOK'
<1> USE NightShiftAssumption DEF TypeOK, WorkerPlaces, ManagerPlaces, Procs
<1>0. 0 \in Shelves /\ 1 \in Shelves /\ \A i \in 0..N : i < N => i \in Shelves /\ i + 1 \in 0..N
  BY DEF Shelves
<1>1. ASSUME NEW w \in Workers, WorkerStep(w) PROVE TypeOK'
  <2>a. First(w) \in Shelves /\ Second(w) \in Shelves  BY PairFacts
  <2>1. ASSUME NEW i \in Shelves, NEW j \in Shelves, Draw(w, i, j) PROVE TypeOK'
    BY <2>1, <1>0 DEF Draw
  <2>2. CASE WorkerLocks(w)
    <3>1. ASSUME NEW i \in Shelves, NEW f \in WorkerPlaces, NEW n \in WorkerPlaces, LockShelf(w, i, f, n)
          PROVE  /\ owner' \in [Shelves -> Procs \union {Nobody}]
                 /\ pc' \in [Procs -> WorkerPlaces \union ManagerPlaces]
      BY <3>1 DEF LockShelf
    <3> QED  BY <2>2, <2>a, <3>1 DEF WorkerLocks
  <2>3. CASE WorkerCounts(w)
    <3>1. dead + 1 \in Nat  OBVIOUS
    <3> QED  BY <2>3, <3>1 DEF WorkerCounts, CountBody
  <2>4. CASE Skip(w)  BY <2>4 DEF Skip
  <2>5. CASE Trip(w)  BY <2>5, <1>0 DEF Trip, Forget
  <2>6. CASE SwapFirst(w)  BY <2>6 DEF SwapFirst
  <2>7. CASE SwapSecond(w)  BY <2>7, <1>0 DEF SwapSecond
  <2>8. CASE WorkerUnlocks(w)
    <3>1. CASE pc[w] = "unlock2"  BY <2>8, <2>a, <3>1 DEF WorkerUnlocks
    <3>2. CASE pc[w] = "unlock1"  BY <2>8, <2>a, <1>0, <3>2 DEF WorkerUnlocks, Forget
    <3> QED  BY <2>8, <3>1, <3>2 DEF WorkerUnlocks
  <2>9. CASE Leave(w)  BY <2>9 DEF Leave
  <2> QED  BY <1>1, <2>1, <2>2, <2>3, <2>4, <2>5, <2>6, <2>7, <2>8, <2>9 DEF WorkerStep, Work
<1>2. CASE ManagerStep
  <2>1. CASE ManagerLocks
    <3>1. CASE aisle < N  BY <2>1, <1>0, <3>1 DEF ManagerLocks, LockShelf
    <3>2. CASE aisle = N  BY <2>1, <3>2 DEF ManagerLocks
    <3> QED  BY <3>1, <3>2
  <2>2. CASE ManagerCounts
    <3>1. dead + 1 \in Nat /\ aisle + 1 \in 0..N  BY <1>0, <2>2 DEF ManagerCounts, PlaceInv
    <3> QED  BY <2>2, <3>1 DEF ManagerCounts, CountBody
  <2>3. CASE Check  BY <2>3 DEF Check
  <2>4. CASE ManagerUnlocks
    <3>1. CASE aisle < N  BY <2>4, <1>0, <3>1 DEF ManagerUnlocks
    <3>2. CASE ~(aisle < N)  BY <2>4, <3>2 DEF ManagerUnlocks
    <3> QED  BY <3>1, <3>2
  <2>5. CASE CountAlive  BY <2>5 DEF CountAlive
  <2>6. CASE Announce  BY <2>6 DEF Announce
  <2> QED  BY <1>2, <2>1, <2>2, <2>3, <2>4, <2>5, <2>6 DEF ManagerStep, Manage
<1>3. CASE UNCHANGED vars  BY <1>3 DEF vars
<1> QED  BY <1>1, <1>2, <1>3, StepCases

\* Every process keeps to its places.
LEMMA PlaceStep == ASSUME TypeOK, PlaceInv, [Next]_vars PROVE PlaceInv'
<1> USE NightShiftAssumption DEF TypeOK, PlaceInv, WorkerPlaces, ManagerPlaces, Shelves, Procs
<1>1. ASSUME NEW w \in Workers, WorkerStep(w) PROVE PlaceInv'
  <2>1. ASSUME NEW i \in Shelves, NEW j \in Shelves, Draw(w, i, j) PROVE PlaceInv'
    BY <2>1 DEF Draw
  <2>2. CASE WorkerLocks(w)  BY <2>2 DEF WorkerLocks, LockShelf
  <2>3. CASE WorkerCounts(w)  BY <2>3 DEF WorkerCounts, CountBody
  <2>4. CASE Skip(w)  BY <2>4 DEF Skip
  <2>5. CASE Trip(w)  BY <2>5 DEF Trip, Forget
  <2>6. CASE SwapFirst(w)  BY <2>6 DEF SwapFirst
  <2>7. CASE SwapSecond(w)  BY <2>7 DEF SwapSecond
  <2>8. CASE WorkerUnlocks(w)  BY <2>8 DEF WorkerUnlocks, Forget
  <2>9. CASE Leave(w)  BY <2>9 DEF Leave
  <2> QED  BY <1>1, <2>1, <2>2, <2>3, <2>4, <2>5, <2>6, <2>7, <2>8, <2>9 DEF WorkerStep, Work
<1>2. CASE ManagerStep
  <2>1. CASE ManagerLocks  BY <2>1 DEF ManagerLocks, LockShelf
  <2>2. CASE ManagerCounts  BY <2>2 DEF ManagerCounts, CountBody
  <2>3. CASE Check  BY <2>3 DEF Check
  <2>4. CASE ManagerUnlocks  BY <2>4 DEF ManagerUnlocks
  <2>5. CASE CountAlive  BY <2>5 DEF CountAlive
  <2>6. CASE Announce  BY <2>6 DEF Announce
  <2> QED  BY <1>2, <2>1, <2>2, <2>3, <2>4, <2>5, <2>6 DEF ManagerStep, Manage
<1>3. CASE UNCHANGED vars  BY <1>3 DEF vars
<1> QED  BY <1>1, <1>2, <1>3, StepCases

\* Who holds which mutex.
LEMMA LockStep == ASSUME TypeOK, PlaceInv, LockInv, [Next]_vars PROVE LockInv'
<1> USE NightShiftAssumption
    DEF TypeOK, PlaceInv, LockInv, WorkerPlaces, ManagerPlaces, Procs,
        HoldsFirst, HoldsSecond, ManagerHolds, First, Second
<1>1. ASSUME NEW w \in Workers, WorkerStep(w) PROVE LockInv'
  <2>1. ASSUME NEW i \in Shelves, NEW j \in Shelves, Draw(w, i, j) PROVE LockInv'
    BY <2>1 DEF Draw
  <2>2. CASE WorkerLocks(w)  BY <2>2, PairFacts DEF WorkerLocks, LockShelf, Orphan
  <2>3. CASE WorkerCounts(w)  BY <2>3 DEF WorkerCounts, CountBody
  <2>4. CASE Skip(w)  BY <2>4 DEF Skip
  <2>5. CASE Trip(w)  BY <2>5 DEF Trip, Forget
  <2>6. CASE SwapFirst(w)  BY <2>6 DEF SwapFirst
  <2>7. CASE SwapSecond(w)  BY <2>7 DEF SwapSecond
  <2>8. CASE WorkerUnlocks(w)  BY <2>8, PairFacts DEF WorkerUnlocks, Forget
  <2>9. CASE Leave(w)  BY <2>9 DEF Leave
  <2> QED  BY <1>1, <2>1, <2>2, <2>3, <2>4, <2>5, <2>6, <2>7, <2>8, <2>9 DEF WorkerStep, Work
<1>2. CASE ManagerStep
  <2>a. /\ Shelves \subseteq Int /\ \A i \in Shelves : 0 <= i /\ i < N
        /\ aisle \in Int /\ 0 <= aisle /\ (aisle < N => aisle \in Shelves)
    BY DEF Shelves
  <2>1. CASE ManagerLocks
    <3>1. CASE aisle < N /\ ~Orphan(aisle)
      BY <2>1, <2>a, <3>1 DEF ManagerLocks, LockShelf
    <3>2. CASE aisle < N /\ Orphan(aisle)
      BY <2>1, <2>a, <3>2 DEF ManagerLocks, LockShelf, Orphan
    <3>3. CASE aisle = N  BY <2>1, <2>a, <3>3 DEF ManagerLocks
    <3> QED  BY <3>1, <3>2, <3>3
  <2>2. CASE ManagerCounts  BY <2>2, <2>a DEF ManagerCounts, CountBody
  <2>3. CASE Check  BY <2>3, <2>a DEF Check
  <2>4. CASE ManagerUnlocks
    <3>1. CASE aisle < N
      <4>1. /\ pc' = pc /\ x' = x /\ y' = y /\ aisle' = aisle + 1 /\ pc[Manager] = "unlock"
            /\ \A i \in Shelves : owner'[i] = IF i = aisle THEN Nobody ELSE owner[i]
        BY <2>4, <3>1 DEF ManagerUnlocks
      <4>2. \A i \in Shelves : owner'[i] = Manager <=> i >= aisle /\ i # aisle
        BY <4>1
      <4>3. \A i \in Shelves : i >= aisle /\ i # aisle <=> i >= aisle + 1
        BY <2>a
      <4>4. \A w \in Workers, i \in Shelves : owner'[i] = w <=> owner[i] = w
        BY <2>a, <3>1, <4>1
      <4> QED  BY <4>1, <4>2, <4>3, <4>4
    <3>2. CASE ~(aisle < N)
      <4>1. \A i \in Shelves : ~(i >= aisle)  BY <2>a, <3>2
      <4>2. \A i \in Shelves : owner[i] # Manager  BY <2>4, <4>1 DEF ManagerUnlocks
      <4> QED  BY <2>4, <3>2, <4>2 DEF ManagerUnlocks
    <3> QED  BY <3>1, <3>2
  <2>5. CASE CountAlive  BY <2>5, <2>a DEF CountAlive
  <2>6. CASE Announce  BY <2>6, <2>a DEF Announce
  <2> QED  BY <1>2, <2>1, <2>2, <2>3, <2>4, <2>5, <2>6 DEF ManagerStep, Manage
<1>3. CASE UNCHANGED vars  BY <1>3 DEF vars
<1> QED  BY <1>1, <1>2, <1>3, StepCases

-----------------------------------------------------------------------------
(* The shelves with the swaps that were begun completed. *)

Swaps(w, i) == pc[w] = "swap" /\ y[w] = i

\* Two workers do not swap onto one shelf, so that Tidy is what its definition suggests.
TidyRight ==
    /\ Tidy \in [Shelves -> Shelves]
    /\ \A w \in Workers, i \in Shelves : Swaps(w, i) => Tidy[i] = tmp[w]
    /\ \A i \in Shelves : (\A w \in Workers : ~Swaps(w, i)) => Tidy[i] = log[i]

\* A worker that has a pair in hand owns both mutexes, and no other swaps onto these shelves.
LEMMA InHand ==
    ASSUME TypeOK, PlaceInv, LockInv, NEW w \in Workers, pc[w] \in {"look", "swap"}
    PROVE  /\ owner[x[w]] = w /\ owner[y[w]] = w
           /\ \A v \in Workers \ {w} : ~Swaps(v, x[w]) /\ ~Swaps(v, y[w])
<1>1. ASSUME NEW v \in Workers, pc[v] \in {"look", "swap"}
      PROVE  owner[x[v]] = v /\ owner[y[v]] = v
  <2>1. owner[First(v)] = v /\ owner[Second(v)] = v
    BY <1>1, PairFacts DEF LockInv, HoldsFirst, HoldsSecond
  <2> QED  BY <2>1, PairFacts
<1> QED  BY <1>1 DEF Swaps

\* With the mutexes held as they should be, Tidy is what it is meant to be.
LEMMA TidyFacts == TypeOK /\ PlaceInv /\ LockInv => TidyRight
<1> SUFFICES ASSUME TypeOK, PlaceInv, LockInv PROVE TidyRight  OBVIOUS
<1>1. Tidy = [i \in Shelves |-> IF \E w \in Workers : Swaps(w, i)
                                THEN tmp[CHOOSE w \in Workers : Swaps(w, i)] ELSE log[i]]
  BY DEF Tidy, Swaps
<1>2. Tidy \in [Shelves -> Shelves]  BY <1>1 DEF TypeOK
<1>3. ASSUME NEW w \in Workers, NEW i \in Shelves, Swaps(w, i) PROVE Tidy[i] = tmp[w]
  <2>1. \A v \in Workers : Swaps(v, i) => v = w  BY <1>3, InHand DEF Swaps
  <2>2. (CHOOSE v \in Workers : Swaps(v, i)) = w  BY <1>3, <2>1
  <2> QED  BY <1>1, <1>3, <2>2
<1>4. ASSUME NEW i \in Shelves, \A w \in Workers : ~Swaps(w, i) PROVE Tidy[i] = log[i]
  BY <1>1, <1>4
<1> QED  BY <1>2, <1>3, <1>4 DEF TidyRight

\* A step that neither begins nor ends a swap, nor touches a shelf, leaves the tidy shelves alone.
LEMMA SameTidy ==
    ASSUME TidyRight, TidyRight', log' = log,
           \A w \in Workers, i \in Shelves : Swaps(w, i)' = Swaps(w, i),
           \A w \in Workers : pc[w] = "swap" => tmp'[w] = tmp[w]
    PROVE  Tidy' = Tidy
<1>1. ASSUME NEW i \in Shelves PROVE Tidy'[i] = Tidy[i]
  <2>1. CASE \E w \in Workers : Swaps(w, i)
    <3>1. PICK w \in Workers : Swaps(w, i)  BY <2>1
    <3>2. Swaps(w, i)'  BY <3>1
    <3>3. tmp'[w] = tmp[w]  BY <3>1 DEF Swaps
    <3>4. Tidy[i] = tmp[w]  BY <3>1 DEF TidyRight
    <3>5. Tidy'[i] = tmp'[w]  BY <3>2 DEF TidyRight
    <3> QED  BY <3>3, <3>4, <3>5
  <2>2. CASE \A w \in Workers : ~Swaps(w, i)
    <3>1. \A w \in Workers : ~(Swaps(w, i)')  BY <2>2
    <3>2. Tidy[i] = log[i]  BY <2>2 DEF TidyRight
    <3>3. Tidy'[i] = log'[i]  BY <3>1 DEF TidyRight
    <3> QED  BY <3>2, <3>3
  <2> QED  BY <2>1, <2>2
<1>2. Tidy \in [Shelves -> Shelves] /\ Tidy' \in [Shelves -> Shelves]  BY DEF TidyRight
<1> QED  BY <1>1, <1>2

\* f with the values at a and b exchanged.
Exchanged(f, a, b) == [i \in Shelves |-> IF i = a THEN f[b] ELSE IF i = b THEN f[a] ELSE f[i]]

\* A swap exchanges two tidy shelves that were out of order, at its first store; every other
\* step, its second store among them, leaves them as they are.
TidyChange == \/ Tidy' = Tidy
              \/ \E a, b \in Shelves : a < b /\ Tidy[a] > Tidy[b] /\ Tidy' = Exchanged(Tidy, a, b)

\* Every step changes the tidy shelves that way or not at all.
LEMMA TidyStep ==
    ASSUME TypeOK, PlaceInv, LockInv, TypeOK', TidyRight, TidyRight', [Next]_vars
    PROVE  TidyChange
<1>1. ASSUME NEW w \in Workers, WorkerStep(w) PROVE TidyChange
  <2>a. w \in Procs /\ x[w] \in Shelves /\ y[w] \in Shelves /\ \A v \in Workers : v \in Procs
    BY DEF TypeOK, Procs
  <2>1. CASE (\E i, j \in Shelves : Draw(w, i, j)) \/ WorkerLocks(w) \/ WorkerCounts(w) \/ Skip(w)
             \/ Trip(w) \/ WorkerUnlocks(w) \/ Leave(w)
    <3>1. /\ log' = log /\ tmp' = tmp
          /\ \A v \in Workers \ {w} : pc'[v] = pc[v] /\ y'[v] = y[v]
          /\ pc[w] # "swap" /\ pc'[w] # "swap"
      BY <2>1, <2>a DEF TypeOK, Draw, WorkerLocks, LockShelf, WorkerCounts, CountBody, Skip, Trip,
                        Forget, WorkerUnlocks, Leave
    <3>2. \A v \in Workers, i \in Shelves : Swaps(v, i)' = Swaps(v, i)  BY <3>1 DEF Swaps
    <3> QED  BY <3>1, <3>2, SameTidy DEF TidyChange
  <2>2. CASE SwapFirst(w)
    <3>1. /\ pc[w] = "look" /\ Inverted(w)
          /\ \A v \in Workers \ {w} : pc'[v] = pc[v] /\ tmp'[v] = tmp[v]
          /\ y' = y /\ pc'[w] = "swap" /\ tmp'[w] = log[x[w]]
          /\ \A i \in Shelves : log'[i] = IF i = x[w] THEN log[y[w]] ELSE log[i]
      BY <2>2, <2>a DEF SwapFirst, TypeOK
    <3>2. x[w] # y[w]  BY <3>1 DEF PlaceInv
    <3>3. /\ \A v \in Workers \ {w} : ~Swaps(v, x[w]) /\ ~Swaps(v, y[w])
          /\ ~Swaps(w, x[w]) /\ ~Swaps(w, y[w])
      BY <3>1, InHand DEF Swaps
    <3>4. Tidy[x[w]] = log[x[w]] /\ Tidy[y[w]] = log[y[w]]  BY <3>3, <2>a DEF TidyRight
    <3>5. \A v \in Workers \ {w}, i \in Shelves : Swaps(v, i)' = Swaps(v, i)  BY <3>1 DEF Swaps
    <3>6. \A i \in Shelves : Swaps(w, i)' = (i = y[w])  BY <3>1 DEF Swaps
    <3>7. Tidy'[y[w]] = Tidy[x[w]]
      <4>1. Swaps(w, y[w])'  BY <3>1 DEF Swaps
      <4>2. \A i \in Shelves : Swaps(w, i)' => Tidy'[i] = tmp'[w]  BY DEF TidyRight
      <4>3. Tidy'[y[w]] = tmp'[w]  BY <4>1, <4>2, <3>6, <2>a
      <4> QED  BY <4>3, <3>1, <3>4
    <3>8. Tidy'[x[w]] = Tidy[y[w]]
      <4>1. PICK i \in Shelves : i = x[w]  BY <2>a
      <4>2. \A v \in Workers : ~(Swaps(v, i)')
        BY <4>1, <3>2, <3>3, <3>5, <3>6
      <4>3. Tidy'[i] = log'[i]  BY <4>2 DEF TidyRight
      <4> QED  BY <4>1, <4>3, <3>1, <3>4
    <3>9. ASSUME NEW i \in Shelves, i # x[w], i # y[w] PROVE Tidy'[i] = Tidy[i]
      <4>1. \A v \in Workers : Swaps(v, i)' = Swaps(v, i)  BY <3>1, <3>5, <3>6, <3>9 DEF Swaps
      <4>2. CASE \E v \in Workers : Swaps(v, i)
        <5>1. PICK v \in Workers : Swaps(v, i)  BY <4>2
        <5>2. v # w /\ Swaps(v, i)'  BY <3>1, <4>1, <5>1 DEF Swaps
        <5>3. Tidy[i] = tmp[v]  BY <5>1 DEF TidyRight
        <5>4. Tidy'[i] = tmp'[v]  BY <5>2 DEF TidyRight
        <5> QED  BY <3>1, <5>2, <5>3, <5>4
      <4>3. CASE \A v \in Workers : ~Swaps(v, i)
        <5>1. \A v \in Workers : ~(Swaps(v, i)')  BY <4>1, <4>3
        <5>2. Tidy[i] = log[i]  BY <4>3 DEF TidyRight
        <5>3. Tidy'[i] = log'[i]  BY <5>1 DEF TidyRight
        <5> QED  BY <3>1, <3>9, <5>2, <5>3
      <4> QED  BY <4>2, <4>3
    <3>10. Tidy' \in [Shelves -> Shelves]  BY DEF TidyRight
    <3>11. Tidy' = Exchanged(Tidy, First(w), Second(w))
      BY <3>2, <3>7, <3>8, <3>9, <3>10 DEF Exchanged, First, Second
    <3>12. First(w) < Second(w) /\ Tidy[First(w)] > Tidy[Second(w)]
      BY <3>1, <3>2, <3>4, PairFacts DEF Inverted, First, Second
    <3> QED  BY <3>11, <3>12, PairFacts DEF TidyChange
  <2>3. CASE SwapSecond(w)
    <3>1. /\ pc[w] = "swap" /\ pc'[w] = "unlock2" /\ y' = y
          /\ \A v \in Workers \ {w} : pc'[v] = pc[v] /\ tmp'[v] = tmp[v]
          /\ \A i \in Shelves : log'[i] = IF i = y[w] THEN tmp[w] ELSE log[i]
      BY <2>3, <2>a DEF SwapSecond, TypeOK
    <3>2. \A v \in Workers \ {w} : ~Swaps(v, y[w])  BY <3>1, InHand
    <3>3. \A v \in Workers \ {w}, i \in Shelves : Swaps(v, i)' = Swaps(v, i)  BY <3>1 DEF Swaps
    <3>4. \A i \in Shelves : ~(Swaps(w, i)') /\ Swaps(w, i) = (i = y[w])  BY <3>1 DEF Swaps
    <3>5. ASSUME NEW i \in Shelves PROVE Tidy'[i] = Tidy[i]
      <4>1. CASE i = y[w]
        <5>1. \A v \in Workers : ~(Swaps(v, i)')  BY <3>2, <3>3, <3>4, <4>1
        <5>2. Tidy'[i] = log'[i]  BY <5>1 DEF TidyRight
        <5>3. Tidy[i] = tmp[w]  BY <3>4, <4>1 DEF TidyRight
        <5> QED  BY <3>1, <4>1, <5>2, <5>3
      <4>2. CASE i # y[w] /\ \E v \in Workers : Swaps(v, i)
        <5>1. PICK v \in Workers : Swaps(v, i)  BY <4>2
        <5>2. v # w /\ Swaps(v, i)'  BY <3>3, <3>4, <4>2, <5>1
        <5>3. Tidy[i] = tmp[v]  BY <5>1 DEF TidyRight
        <5>4. Tidy'[i] = tmp'[v]  BY <5>2 DEF TidyRight
        <5> QED  BY <3>1, <5>2, <5>3, <5>4
      <4>3. CASE i # y[w] /\ \A v \in Workers : ~Swaps(v, i)
        <5>1. \A v \in Workers : ~(Swaps(v, i)')  BY <3>3, <3>4, <4>3
        <5>2. Tidy[i] = log[i]  BY <4>3 DEF TidyRight
        <5>3. Tidy'[i] = log'[i]  BY <5>1 DEF TidyRight
        <5> QED  BY <3>1, <4>3, <5>2, <5>3
      <4> QED  BY <4>1, <4>2, <4>3
    <3>6. Tidy \in [Shelves -> Shelves] /\ Tidy' \in [Shelves -> Shelves]  BY DEF TidyRight
    <3>7. Tidy' = Tidy  BY <3>5, <3>6
    <3> QED  BY <3>7 DEF TidyChange
  <2> QED  BY <1>1, <2>1, <2>2, <2>3 DEF WorkerStep, Work
<1>2. CASE ManagerStep \/ UNCHANGED vars
  <2>1. log' = log /\ tmp' = tmp /\ y' = y /\ \A v \in Workers : pc'[v] = pc[v]
    <3>1. pc \in [Procs -> WorkerPlaces \union ManagerPlaces] /\ \A v \in Workers : v \in Procs /\ v # Manager
      BY NightShiftAssumption DEF TypeOK, Procs
    <3> QED
      BY <1>2, <3>1
         DEF ManagerStep, Manage, ManagerLocks, LockShelf, ManagerCounts, CountBody, Check,
             ManagerUnlocks, CountAlive, Announce, vars
  <2>2. \A v \in Workers, i \in Shelves : Swaps(v, i)' = Swaps(v, i)  BY <2>1 DEF Swaps
  <2> QED  BY <2>1, <2>2, SameTidy DEF TidyChange
<1> QED  BY <1>1, <1>2, StepCases

\* Exchanging two shelves keeps every product.
LEMMA ExchangeKeeps ==
    ASSUME NEW f \in Permutations, NEW a \in Shelves, NEW b \in Shelves
    PROVE  Exchanged(f, a, b) \in Permutations
<1>1. f \in [Shelves -> Shelves] /\ \A i, j \in Shelves : f[i] = f[j] => i = j
  BY DEF Permutations
<1>2. Exchanged(f, a, b) \in [Shelves -> Shelves]  BY <1>1 DEF Exchanged
<1>3. \A i, j \in Shelves : Exchanged(f, a, b)[i] = Exchanged(f, a, b)[j] => i = j
  BY <1>1 DEF Exchanged
<1> QED  BY <1>2, <1>3 DEF Permutations

\* Exchanging two shelves that are out of order removes an inversion: the inversions left can be
\* told apart among the old ones, and the pair exchanged is not one of them.
LEMMA ExchangeProgress ==
    ASSUME NEW f \in [Shelves -> Shelves], NEW a \in Shelves, NEW b \in Shelves,
           a < b, f[a] > f[b]
    PROVE  Inversions(Exchanged(f, a, b)) < Inversions(f)
<1> DEFINE g == Exchanged(f, a, b)
           Inv1(h) == {p \in Shelves \X Shelves : p[1] < p[2] /\ h[p[1]] > h[p[2]]}
           t(i) == IF i = a THEN b ELSE IF i = b THEN a ELSE i
           phi == [p \in Inv1(g) |-> IF t(p[1]) < t(p[2]) THEN <<t(p[1]), t(p[2])>> ELSE p]
<1>1. Shelves \subseteq Int /\ IsFiniteSet(Shelves)
  BY FS_Interval, NightShiftAssumption DEF Shelves
<1>2. IsFiniteSet(Inv1(f)) /\ IsFiniteSet(Inv1(g))
  <2>1. IsFiniteSet(Shelves \X Shelves)  BY <1>1, FS_Product
  <2>2. Inv1(f) \subseteq Shelves \X Shelves /\ Inv1(g) \subseteq Shelves \X Shelves  OBVIOUS
  <2> QED  BY <2>1, <2>2, FS_Subset
<1>3. \A i \in Shelves : t(i) \in Shelves /\ g[i] = f[t(i)] /\ t(t(i)) = i  BY DEF Exchanged
<1>4. ASSUME NEW p \in Inv1(g) PROVE phi[p] \in Inv1(f) \ {<<a, b>>}
  <2> DEFINE i == p[1]  j == p[2]
  <2>1. /\ i \in Shelves /\ j \in Shelves /\ p = <<i, j>>
        /\ i < j /\ f[t(i)] > f[t(j)]
    BY <1>3
  <2>2. CASE t(i) < t(j)
    <3>1. phi[p] = <<t(i), t(j)>>  BY <2>2
    <3>2. <<t(i), t(j)>> \in Inv1(f)  BY <2>1, <2>2, <1>3
    <3>3. <<t(i), t(j)>> # <<a, b>>  BY <2>1, <1>1
    <3> QED  BY <3>1, <3>2, <3>3
  <2>3. CASE ~(t(i) < t(j))
    <3>1. phi[p] = p  BY <2>3
    <3>2. f[a] \in Int /\ f[b] \in Int /\ f[i] \in Int /\ f[j] \in Int  BY <1>1, <2>1
    <3>3. f[i] > f[j] /\ ~(i = a /\ j = b)
      <4>1. a \in Int /\ b \in Int /\ i \in Int /\ j \in Int  BY <1>1, <2>1
      <4>2. i < j /\ f[t(i)] > f[t(j)]  BY <2>1
      <4> HIDE DEF phi, i, j, g, Inv1
      <4>3. CASE i = a /\ j # b  BY <4>1, <4>2, <4>3, <3>2
      <4>4. CASE i # a /\ j = b  BY <4>1, <4>2, <4>4, <3>2
      <4>5. ~(i = a /\ j = b)  BY <4>1, <4>2, <3>2
      <4>6. i = a \/ j = b  BY <4>1, <4>2, <2>3
      <4> QED  BY <4>3, <4>4, <4>5, <4>6
    <3>4. p \in Inv1(f)  BY <2>1, <3>3
    <3>5. p # <<a, b>>  BY <2>1, <3>3
    <3> QED  BY <3>1, <3>4, <3>5
  <2> QED  BY <2>2, <2>3
<1>5. ASSUME NEW p \in Inv1(g), NEW q \in Inv1(g), phi[p] = phi[q] PROVE p = q
  <2> DEFINE i == p[1]  j == p[2]  k == q[1]  l == q[2]
  <2>1. /\ i \in Shelves /\ j \in Shelves /\ p = <<i, j>> /\ i < j
        /\ k \in Shelves /\ l \in Shelves /\ q = <<k, l>> /\ k < l
    OBVIOUS
  <2>2. phi[p] = (IF t(i) < t(j) THEN <<t(i), t(j)>> ELSE <<i, j>>)  BY <2>1
  <2>3. phi[q] = (IF t(k) < t(l) THEN <<t(k), t(l)>> ELSE <<k, l>>)  BY <2>1
  <2>4. i = k /\ j = l
    <3>a. /\ i \in Int /\ j \in Int /\ k \in Int /\ l \in Int
          /\ t(t(i)) = i /\ t(t(j)) = j /\ t(t(k)) = k /\ t(t(l)) = l
      BY <1>1, <1>3, <2>1
    <3>b. i < j /\ k < l  BY <2>1
    <3> HIDE DEF phi, i, j, k, l, t
    <3>1. CASE t(i) < t(j) /\ t(k) < t(l)
      <4>1. <<t(i), t(j)>> = <<t(k), t(l)>>  BY <3>1, <1>5, <2>2, <2>3
      <4> QED  BY <4>1, <3>1, <3>a
    <3>2. CASE t(i) < t(j) /\ ~(t(k) < t(l))
      <4>1. <<t(i), t(j)>> = <<k, l>>  BY <3>2, <1>5, <2>2, <2>3
      <4> QED  BY <4>1, <3>2, <3>a, <3>b
    <3>3. CASE ~(t(i) < t(j)) /\ t(k) < t(l)
      <4>1. <<i, j>> = <<t(k), t(l)>>  BY <3>3, <1>5, <2>2, <2>3
      <4> QED  BY <4>1, <3>3, <3>a, <3>b
    <3>4. CASE ~(t(i) < t(j)) /\ ~(t(k) < t(l))
      <4>1. <<i, j>> = <<k, l>>  BY <3>4, <1>5, <2>2, <2>3
      <4> QED  BY <4>1, <3>4, <3>a
    <3> QED  BY <3>1, <3>2, <3>3, <3>4
  <2> QED  BY <2>1, <2>4
<1>6. Cardinality(Inv1(g)) <= Cardinality(Inv1(f) \ {<<a, b>>})
  <2>1. phi \in Injection(Inv1(g), Inv1(f) \ {<<a, b>>})
    <3>1. phi \in [Inv1(g) -> Inv1(f) \ {<<a, b>>}]  BY <1>4
    <3> HIDE DEF phi
    <3> QED  BY <3>1, <1>5 DEF Injection, IsInjective
  <2>2. IsFiniteSet(Inv1(f) \ {<<a, b>>})  BY <1>2, FS_RemoveElement
  <2> QED  BY <2>1, <2>2, FS_Injection
<1>7. /\ Cardinality(Inv1(f) \ {<<a, b>>}) = Cardinality(Inv1(f)) - 1
      /\ Cardinality(Inv1(f)) \in Nat /\ Cardinality(Inv1(g)) \in Nat
  <2>1. <<a, b>> \in Inv1(f)  OBVIOUS
  <2> HIDE DEF Inv1
  <2> QED  BY <1>2, <2>1, FS_RemoveElement, FS_CardinalityType
<1>8. Cardinality(Inv1(g)) < Cardinality(Inv1(f))
  <2> HIDE DEF Inv1
  <2> QED  BY <1>6, <1>7
<1> QED  BY <1>8 DEF Inversions

-----------------------------------------------------------------------------
(* The accounts of the dead. *)

Orphans == {i \in Shelves : Orphan(i)}

\* All that is counted is finite.
LEMMA Countable == IsFiniteSet(Finders) /\ IsFiniteSet(Orphans) /\ IsFiniteSet(Bodies)
<1>1. IsFiniteSet(Shelves)  BY FS_Interval, NightShiftAssumption DEF Shelves
<1>2. IsFiniteSet(Procs)  BY FS_AddElement, NightShiftAssumption DEF Procs
<1> QED  BY <1>1, <1>2, FS_Subset, NightShiftAssumption DEF Finders, Orphans, Bodies

\* A step by which nobody dies, finds or counts keeps the accounts.
LEMMA QuietStep ==
    ASSUME DeadAccounts, dead' = dead, Finders' = Finders, Orphans' = Orphans, Bodies' = Bodies
    PROVE  DeadAccounts'
BY DEF DeadAccounts, Orphans

\* A find moves one mutex from the orphans to the finders.
LEMMA FindStep ==
    ASSUME DeadAccounts, TypeOK, NEW p \in Procs, NEW i \in Shelves, dead' = dead, Bodies' = Bodies,
           p \notin Finders, Finders' = Finders \union {p},
           i \in Orphans, Orphans' = Orphans \ {i}
    PROVE  DeadAccounts'
<1>1. Cardinality(Finders') = Cardinality(Finders) + 1  BY Countable, FS_AddElement
<1>2. Cardinality(Orphans') = Cardinality(Orphans) - 1  BY Countable, FS_RemoveElement
<1>3. Cardinality(Finders) \in Nat /\ Cardinality(Orphans) \in Nat
  BY Countable, FS_CardinalityType
<1>4. dead + Cardinality(Finders) + Cardinality(Orphans) = 2 * Cardinality(Bodies)
  BY DEF DeadAccounts, Orphans
<1>5. dead' + Cardinality(Finders') + Cardinality(Orphans') = 2 * Cardinality(Bodies')
  BY <1>1, <1>2, <1>3, <1>4 DEF TypeOK
<1> QED  BY <1>5 DEF DeadAccounts, Orphans

\* A count moves one from the finders to the counter.
LEMMA CountStep ==
    ASSUME DeadAccounts, TypeOK, NEW p \in Procs, dead' = dead + 1, Bodies' = Bodies,
           p \in Finders, Finders' = Finders \ {p}, Orphans' = Orphans
    PROVE  DeadAccounts'
<1>1. Cardinality(Finders') = Cardinality(Finders) - 1  BY Countable, FS_RemoveElement
<1>3. Cardinality(Finders) \in Nat /\ Cardinality(Orphans) \in Nat
  BY Countable, FS_CardinalityType
<1>4. dead + Cardinality(Finders) + Cardinality(Orphans) = 2 * Cardinality(Bodies)
  BY DEF DeadAccounts, Orphans
<1>5. dead' + Cardinality(Finders') + Cardinality(Orphans') = 2 * Cardinality(Bodies')
  BY <1>1, <1>3, <1>4 DEF TypeOK
<1> QED  BY <1>5 DEF DeadAccounts, Orphans

\* A death leaves one body and two mutexes.
LEMMA DeathStep ==
    ASSUME DeadAccounts, TypeOK, NEW w \in Workers, NEW i \in Shelves, NEW j \in Shelves,
           dead' = dead, Finders' = Finders, w \notin Bodies, Bodies' = Bodies \union {w},
           i # j, i \notin Orphans, j \notin Orphans, Orphans' = (Orphans \union {i}) \union {j}
    PROVE  DeadAccounts'
<1>1. Cardinality(Bodies') = Cardinality(Bodies) + 1  BY Countable, FS_AddElement
<1>2. /\ IsFiniteSet(Orphans \union {i})
      /\ Cardinality(Orphans \union {i}) = Cardinality(Orphans) + 1
  BY Countable, FS_AddElement
<1>3. Cardinality(Orphans') = Cardinality(Orphans) + 1 + 1  BY <1>2, FS_AddElement
<1>4. /\ Cardinality(Finders) \in Nat /\ Cardinality(Orphans) \in Nat
      /\ Cardinality(Bodies) \in Nat
  BY Countable, FS_CardinalityType
<1>5. dead + Cardinality(Finders) + Cardinality(Orphans) = 2 * Cardinality(Bodies)
  BY DEF DeadAccounts, Orphans
<1>6. dead' + Cardinality(Finders') + Cardinality(Orphans') = 2 * Cardinality(Bodies')
  BY <1>1, <1>3, <1>4, <1>5 DEF TypeOK
<1> QED  BY <1>6 DEF DeadAccounts, Orphans

\* Locking a mutex, free or orphaned, keeps the accounts.
LEMMA LockAccounts ==
    ASSUME TypeOK, DeadAccounts, NEW p \in Procs, NEW i \in Shelves,
           NEW found \in {"body1", "body2", "body"}, NEW next, next \notin {"body1", "body2", "body", "dead"},
           pc[p] \notin {"body1", "body2", "body", "dead"}, dead' = dead,
           LockShelf(p, i, found, next)
    PROVE  DeadAccounts'
<1>1. /\ \A q \in Procs \ {p} : pc'[q] = pc[q]
      /\ pc'[p] = IF Orphan(i) THEN found ELSE next
      /\ \A s \in Shelves : owner'[s] = IF s = i THEN p ELSE owner[s]
      /\ \A w \in Workers : w \in Procs
      /\ \A s \in Shelves : owner[s] \in Procs \union {Nobody}
      /\ Nobody \notin Workers
  BY NightShiftAssumption DEF LockShelf, TypeOK, Procs
<1>2. Bodies' = Bodies  BY <1>1 DEF Bodies
<1>3. \A s \in Shelves : s # i => Orphan(s)' = Orphan(s)  BY <1>1 DEF Orphan
<1>4. ~(Orphan(i)')  BY <1>1 DEF Orphan
<1>5. CASE Orphan(i)
  <2>1. Finders' = Finders \union {p} /\ p \notin Finders  BY <1>1, <1>5 DEF Finders
  <2>2. Orphans' = Orphans \ {i} /\ i \in Orphans  BY <1>3, <1>4, <1>5 DEF Orphans
  <2> QED  BY <1>2, <2>1, <2>2, FindStep
<1>6. CASE ~Orphan(i)
  <2>1. Finders' = Finders  BY <1>1, <1>6 DEF Finders
  <2>2. Orphans' = Orphans  BY <1>3, <1>4, <1>6 DEF Orphans
  <2> QED  BY <1>2, <2>1, <2>2, QuietStep
<1> QED  BY <1>5, <1>6

\* Counting a find keeps the accounts.
LEMMA CountAccounts ==
    ASSUME TypeOK, DeadAccounts, NEW p \in Procs,
           pc[p] \in {"body1", "body2", "body"}, NEW next, next \notin {"body1", "body2", "body", "dead"},
           CountBody(p, next)
    PROVE  DeadAccounts'
<1>1. /\ \A q \in Procs \ {p} : pc'[q] = pc[q]
      /\ pc'[p] = next /\ owner' = owner /\ dead' = dead + 1
      /\ \A w \in Workers : w \in Procs
  BY DEF CountBody, TypeOK, Procs
<1>2. Bodies' = Bodies  BY <1>1 DEF Bodies
<1>3. \A s \in Shelves : Orphan(s)' = Orphan(s)  BY <1>1 DEF Orphan
<1>4. Orphans' = Orphans  BY <1>3 DEF Orphans
<1>5. Finders' = Finders \ {p} /\ p \in Finders  BY <1>1 DEF Finders
<1> QED  BY <1>1, <1>2, <1>4, <1>5, CountStep

\* Every step keeps the accounts.
LEMMA AccountStep ==
    ASSUME TypeOK, PlaceInv, LockInv, DeadAccounts, [Next]_vars
    PROVE  DeadAccounts'
<1>a. /\ pc \in [Procs -> WorkerPlaces \union ManagerPlaces]
      /\ owner \in [Shelves -> Procs \union {Nobody}]
      /\ Manager \in Procs /\ Manager \notin Workers /\ Nobody \notin Workers
      /\ \A w \in Workers : w \in Procs /\ w # Manager
  BY NightShiftAssumption DEF TypeOK, Procs
<1>1. ASSUME NEW w \in Workers, WorkerStep(w) PROVE DeadAccounts'
  <2>a. First(w) \in Shelves /\ Second(w) \in Shelves  BY PairFacts
  <2>1. CASE (\E i, j \in Shelves : Draw(w, i, j)) \/ Skip(w) \/ SwapFirst(w) \/ SwapSecond(w) \/ Leave(w)
    <3>1. /\ \A q \in Procs \ {w} : pc'[q] = pc[q]
          /\ owner' = owner /\ dead' = dead
          /\ pc[w] \notin {"body1", "body2", "body", "dead"}
          /\ pc'[w] \notin {"body1", "body2", "body", "dead"}
      BY <2>1, <1>a DEF Draw, Skip, SwapFirst, SwapSecond, Leave
    <3>2. Bodies' = Bodies /\ Finders' = Finders  BY <3>1, <1>a DEF Bodies, Finders
    <3>3. \A s \in Shelves : Orphan(s)' = Orphan(s)  BY <3>1, <1>a DEF Orphan
    <3> QED  BY <3>1, <3>2, <3>3, QuietStep DEF Orphans
  <2>2. CASE WorkerLocks(w)
    BY <2>2, <2>a, <1>a, LockAccounts DEF WorkerLocks
  <2>3. CASE WorkerCounts(w)
    BY <2>3, <1>a, CountAccounts DEF WorkerCounts
  <2>4. CASE Trip(w)
    <3>1. /\ \A q \in Procs \ {w} : pc'[q] = pc[q]
          /\ owner' = owner /\ dead' = dead
          /\ pc[w] = "look" /\ pc'[w] = "dead"
      BY <2>4, <1>a DEF Trip
    <3>2. Finders' = Finders  BY <3>1, <1>a DEF Finders
    <3>3. Bodies' = Bodies \union {w} /\ w \notin Bodies  BY <3>1, <1>a DEF Bodies
    <3>4. First(w) # Second(w)
      <4>1. x[w] # y[w]  BY <3>1 DEF PlaceInv
      <4> QED  BY <4>1, PairFacts
    <3>5. \A s \in Shelves : owner[s] = w <=> s = First(w) \/ s = Second(w)
      BY <3>1 DEF LockInv, HoldsFirst, HoldsSecond
    <3>6. \A s \in Shelves : Orphan(s)' <=> Orphan(s) \/ s = First(w) \/ s = Second(w)
      BY <3>1, <3>5, <1>a DEF Orphan
    <3>7. ~Orphan(First(w)) /\ ~Orphan(Second(w))  BY <3>1, <3>5, <2>a DEF Orphan
    <3>8. /\ Orphans' = (Orphans \union {First(w)}) \union {Second(w)}
          /\ First(w) \notin Orphans /\ Second(w) \notin Orphans
      BY <3>6, <3>7, <2>a DEF Orphans
    <3> QED  BY <3>1, <3>2, <3>3, <3>4, <3>8, <2>a, DeathStep
  <2>5. CASE WorkerUnlocks(w)
    <3>1. PICK i \in Shelves : owner[i] = w /\ owner' = [owner EXCEPT ![i] = Nobody]
      <4>1. CASE pc[w] = "unlock2"
        <5>1. owner[Second(w)] = w  BY <2>a, <4>1 DEF LockInv, HoldsSecond
        <5> QED  BY <2>5, <2>a, <4>1, <5>1 DEF WorkerUnlocks
      <4>2. CASE pc[w] = "unlock1"
        <5>1. owner[First(w)] = w  BY <2>a, <4>2 DEF LockInv, HoldsFirst
        <5> QED  BY <2>5, <2>a, <4>2, <5>1 DEF WorkerUnlocks
      <4> QED  BY <2>5, <4>1, <4>2 DEF WorkerUnlocks
    <3>2. /\ \A q \in Procs \ {w} : pc'[q] = pc[q]
          /\ dead' = dead
          /\ pc[w] \notin {"body1", "body2", "body", "dead"}
          /\ pc'[w] \notin {"body1", "body2", "body", "dead"}
      BY <2>5, <1>a DEF WorkerUnlocks
    <3>3. Bodies' = Bodies /\ Finders' = Finders  BY <3>2, <1>a DEF Bodies, Finders
    <3>4. \A s \in Shelves : Orphan(s)' = Orphan(s)  BY <3>1, <3>2, <1>a DEF Orphan
    <3> QED  BY <3>2, <3>3, <3>4, QuietStep DEF Orphans
  <2> QED  BY <1>1, <2>1, <2>2, <2>3, <2>4, <2>5 DEF WorkerStep, Work
<1>2. CASE ManagerStep
  <2>1. CASE ManagerLocks /\ aisle < N
    <3>1. aisle \in Shelves /\ aisle # N  BY <2>1, NightShiftAssumption DEF TypeOK, Shelves
    <3>2. pc[Manager] = "lock" /\ dead' = dead /\ LockShelf(Manager, aisle, "body", "lock")
      BY <2>1, <3>1 DEF ManagerLocks
    <3> QED  BY <3>1, <3>2, <1>a, LockAccounts
  <2>2. CASE ManagerCounts  BY <2>2, <1>a, CountAccounts DEF ManagerCounts
  <2>3. CASE ManagerUnlocks /\ aisle < N
    <3>1. aisle \in Shelves /\ aisle \in Int  BY <2>3, NightShiftAssumption DEF TypeOK, Shelves
    <3>2. owner[aisle] = Manager
      <4>1. ManagerHolds(aisle)  BY <2>3, <3>1 DEF ManagerHolds, ManagerUnlocks
      <4> QED  BY <3>1, <4>1 DEF LockInv
    <3>3. pc' = pc /\ dead' = dead /\ owner' = [owner EXCEPT ![aisle] = Nobody]
      BY <2>3 DEF ManagerUnlocks
    <3>4. Bodies' = Bodies /\ Finders' = Finders  BY <3>3 DEF Bodies, Finders
    <3>5. \A s \in Shelves : Orphan(s)' = Orphan(s)  BY <3>1, <3>2, <3>3, <1>a DEF Orphan
    <3> QED  BY <3>3, <3>4, <3>5, QuietStep DEF Orphans
  <2>4. CASE (ManagerLocks /\ aisle = N) \/ Check \/ (ManagerUnlocks /\ ~(aisle < N)) \/ CountAlive \/ Announce
    <3>1. /\ \A q \in Procs \ {Manager} : pc'[q] = pc[q]
          /\ owner' = owner /\ dead' = dead
          /\ pc[Manager] \notin {"body1", "body2", "body", "dead"}
          /\ pc'[Manager] \notin {"body1", "body2", "body", "dead"}
      BY <2>4, <1>a, NightShiftAssumption DEF ManagerLocks, Check, ManagerUnlocks, CountAlive, Announce
    <3>2. Bodies' = Bodies /\ Finders' = Finders  BY <3>1, <1>a DEF Bodies, Finders
    <3>3. \A s \in Shelves : Orphan(s)' = Orphan(s)  BY <3>1, <1>a DEF Orphan
    <3> QED  BY <3>1, <3>2, <3>3, QuietStep DEF Orphans
  <2> QED  BY <1>2, <2>1, <2>2, <2>3, <2>4 DEF ManagerStep, Manage, ManagerLocks
<1>3. CASE UNCHANGED vars
  <2>1. Bodies' = Bodies /\ Finders' = Finders /\ dead' = dead  BY <1>3 DEF vars, Bodies, Finders
  <2>2. \A s \in Shelves : Orphan(s)' = Orphan(s)  BY <1>3 DEF vars, Orphan
  <2> QED  BY <2>1, <2>2, QuietStep DEF Orphans
<1> QED  BY <1>1, <1>2, <1>3, StepCases

-----------------------------------------------------------------------------
(* The manager's verdict. *)

\* When half of the finds is the number of workers, every worker is dead.
LEMMA AllDeadRight == ASSUME TypeOK, DeadAccounts, AllDead PROVE Bodies = Workers
<1> DEFINE d == Cardinality(Bodies)  f == Cardinality(Finders)  o == Cardinality(Orphans)
           c == Cardinality(Workers)
<1>1. d \in Nat /\ f \in Nat /\ o \in Nat /\ c \in Nat /\ dead \in Nat
  BY Countable, FS_CardinalityType, NightShiftAssumption DEF TypeOK
<1>2. dead + f + o = 2 * d  BY DEF DeadAccounts, Orphans
<1>3. dead \div 2 = c  BY DEF AllDead
<1>4. Bodies \in SUBSET Workers  BY DEF Bodies
<1>5. d <= c /\ (c = d => Workers = Bodies)  BY <1>4, FS_Subset, NightShiftAssumption
<1>6. c <= d
  <2> HIDE DEF d, f, o, c
  <2>1. dead <= 2 * d  BY <1>1, <1>2
  <2>2. 2 * (dead \div 2) <= dead  BY <1>1
  <2> QED  BY <1>1, <1>3, <2>1, <2>2
<1> QED  BY <1>1, <1>5, <1>6

\* Where the shelves are in order no pair is inverted.
LEMMA NotInverted ==
    ASSUME TypeOK, PlaceInv, NEW w \in Workers, pc[w] = "look", InOrder(log)
    PROVE  ~Inverted(w)
<1>1. First(w) < Second(w) /\ First(w) \in Shelves /\ Second(w) \in Shelves
  BY PairFacts DEF PlaceInv
<1>2. log[First(w)] = First(w) /\ log[Second(w)] = Second(w)  BY <1>1 DEF InOrder
<1>3. First(w) \in Int /\ Second(w) \in Int  BY <1>1 DEF Shelves
<1>4. ~(First(w) > Second(w))  BY <1>1, <1>3
<1> QED  BY <1>2, <1>4 DEF Inverted

\* While the manager holds every mutex nobody swaps, nor looks at a pair.
LEMMA ManagerAlone ==
    ASSUME TypeOK, LockInv, pc[Manager] = "check", NEW w \in Workers
    PROVE  pc[w] \notin {"look", "swap"}
<1>1. First(w) \in Shelves  BY PairFacts
<1>2. owner[First(w)] = Manager  BY <1>1 DEF LockInv, ManagerHolds
<1>3. Manager # w  BY NightShiftAssumption
<1> QED  BY <1>1, <1>2, <1>3 DEF LockInv, HoldsFirst

\* Every step keeps what the manager's verdict rests on.
LEMMA SortStep ==
    ASSUME TypeOK, PlaceInv, LockInv, DeadAccounts, SortInv, [Next]_vars
    PROVE  SortInv'
<1>a. /\ pc \in [Procs -> WorkerPlaces \union ManagerPlaces]
      /\ Manager \in Procs /\ Manager \notin Workers
      /\ \A w \in Workers : w \in Procs /\ w # Manager
  BY NightShiftAssumption DEF TypeOK, Procs
<1>1. ASSUME NEW w \in Workers, WorkerStep(w) PROVE SortInv'
  <2>1. CASE SwapFirst(w)
    <3>1. /\ pc[w] = "look" /\ Inverted(w) /\ pc'[w] = "swap" /\ pc'[Manager] = pc[Manager]
          /\ seen' = seen /\ sorted' = sorted
      BY <2>1, <1>a DEF SwapFirst
    <3>2. ~InOrder(log)  BY <3>1, NotInverted
    <3>3. w \notin Bodies /\ w \notin Bodies'  BY <3>1 DEF Bodies
    <3> QED  BY <3>1, <3>2, <3>3 DEF SortInv
  <2>2. CASE SwapSecond(w)
    <3>1. /\ pc[w] = "swap" /\ pc'[w] = "unlock2" /\ pc'[Manager] = pc[Manager]
          /\ seen' = seen /\ sorted' = sorted
      BY <2>2, <1>a DEF SwapSecond
    <3>2. w \notin Bodies /\ w \notin Bodies'  BY <3>1 DEF Bodies
    <3> QED  BY <3>1, <3>2 DEF SortInv
  <2>3. CASE Trip(w)
    <3>1. /\ pc[w] = "look" /\ Inverted(w) /\ pc'[w] = "dead" /\ log' = log
          /\ \A v \in Procs \ {w} : pc'[v] = pc[v]
          /\ seen' = seen /\ sorted' = sorted
      BY <2>3, <1>a DEF Trip
    <3>2. ~InOrder(log) /\ ~InOrder(log')  BY <3>1, NotInverted
    <3>3. Bodies' # Workers => ~(Bodies = Workers)  BY <3>1, <1>a DEF Bodies
    <3> QED  BY <3>1, <3>2, <3>3, <1>a DEF SortInv
  <2>4. CASE (\E i, j \in Shelves : Draw(w, i, j)) \/ WorkerLocks(w) \/ WorkerCounts(w) \/ Skip(w)
             \/ WorkerUnlocks(w) \/ Leave(w)
    <3>1. /\ pc[w] \notin {"dead", "swap"} /\ pc'[w] \notin {"dead", "swap"} /\ log' = log
          /\ \A v \in Procs \ {w} : pc'[v] = pc[v]
          /\ seen' = seen /\ sorted' = sorted
      BY <2>4, <1>a DEF Draw, WorkerLocks, LockShelf, WorkerCounts, CountBody, Skip, WorkerUnlocks, Leave
    <3>2. Bodies' = Bodies  BY <3>1, <1>a DEF Bodies
    <3>3. InOrder(log') = InOrder(log)  BY <3>1
    <3> QED  BY <3>1, <3>2, <3>3, <1>a DEF SortInv
  <2> QED  BY <1>1, <2>1, <2>2, <2>3, <2>4 DEF WorkerStep, Work
<1>2. CASE ManagerStep
  <2>a. /\ log' = log /\ \A v \in Workers : pc'[v] = pc[v]
    BY <1>2, <1>a DEF ManagerStep, Manage, ManagerLocks, LockShelf, ManagerCounts, CountBody, Check,
                      ManagerUnlocks, CountAlive, Announce
  <2>b. Bodies' = Bodies  BY <2>a DEF Bodies
  <2>c. InOrder(log') = InOrder(log)  BY <2>a
  <2>1. CASE ManagerLocks \/ ManagerCounts
    <3>1. /\ pc[Manager] \in {"lock", "body"} /\ pc'[Manager] \in {"lock", "body", "check"}
          /\ seen' = seen /\ sorted' = sorted
      BY <2>1, <1>a DEF ManagerLocks, LockShelf, ManagerCounts, CountBody
    <3> QED  BY <3>1, <2>b, <2>c DEF SortInv
  <2>2. CASE Check
    <3>1. /\ pc[Manager] = "check" /\ pc'[Manager] = "unlock" /\ sorted' = sorted
          /\ seen' = IF InOrder(log) THEN 1 ELSE 0
      BY <2>2, <1>a DEF Check
    <3>2. \A v \in Workers : pc'[v] # "swap"  BY <3>1, <2>a, ManagerAlone
    <3> QED  BY <3>1, <3>2, <2>b, <2>c DEF SortInv
  <2>3. CASE ManagerUnlocks
    <3>1. /\ pc[Manager] = "unlock" /\ pc'[Manager] \in {"unlock", "alive"}
          /\ seen' = seen /\ sorted' = sorted
      BY <2>3, <1>a DEF ManagerUnlocks
    <3> QED  BY <3>1, <2>a, <2>b, <2>c DEF SortInv
  <2>4. CASE CountAlive
    <3>1. /\ pc[Manager] = "alive" /\ seen' = seen /\ sorted' = sorted
          /\ pc'[Manager] = IF AllDead THEN "exited" ELSE IF seen = 1 THEN "announce" ELSE "lock"
      BY <2>4, <1>a DEF CountAlive
    <3>2. AllDead => Bodies = Workers  BY AllDeadRight
    <3> QED  BY <3>1, <3>2, <2>a, <2>b, <2>c DEF SortInv
  <2>5. CASE Announce
    <3>1. /\ pc[Manager] = "announce" /\ pc'[Manager] = "exited"
          /\ seen' = seen /\ sorted' = 1
      BY <2>5, <1>a DEF Announce
    <3> QED  BY <3>1, <2>a, <2>b, <2>c DEF SortInv
  <2> QED  BY <1>2, <2>1, <2>2, <2>3, <2>4, <2>5 DEF ManagerStep, Manage
<1>3. CASE UNCHANGED vars
  <2>1. Bodies' = Bodies  BY <1>3 DEF vars, Bodies
  <2> QED  BY <1>3, <2>1 DEF vars, SortInv, InOrder
<1> QED  BY <1>1, <1>2, <1>3, StepCases

-----------------------------------------------------------------------------
(* The theorems. *)

\* The invariant holds when the shop opens.
LEMMA InitInv == ASSUME Init PROVE Inv
<1> USE NightShiftAssumption DEF Init
<1>a. 0 \in Shelves /\ 1 \in Shelves /\ Manager \in Procs /\ \A w \in Workers : w \in Procs /\ w # Manager
  BY DEF Shelves, Procs
<1>b. pc[Manager] = "lock" /\ \A w \in Workers : pc[w] = "top"  BY <1>a
<1>1. TypeOK  BY <1>a DEF TypeOK, Permutations, WorkerPlaces, ManagerPlaces, Procs
<1>2. PlaceInv  BY <1>b DEF PlaceInv, WorkerPlaces, ManagerPlaces
<1>3. LockInv
  <2>1. \A i \in Shelves : owner[i] = Nobody /\ ~(i < aisle)  BY DEF Shelves
  <2> QED  BY <1>b, <2>1 DEF LockInv, HoldsFirst, HoldsSecond, ManagerHolds
<1>4. TidyInv
  <2>1. TidyRight  BY <1>1, <1>2, <1>3, TidyFacts
  <2>2. \A i \in Shelves : Tidy[i] = log[i]  BY <1>b, <2>1 DEF TidyRight, Swaps
  <2>3. Tidy \in [Shelves -> Shelves] /\ log \in [Shelves -> Shelves]
    BY <1>1, <2>1 DEF TidyRight, TypeOK
  <2>4. Tidy = log
    <3> HIDE DEF Init
    <3> QED  BY <2>2, <2>3
  <2> QED  BY <2>4 DEF TidyInv
<1>5. DeadAccounts
  <2>1. Finders = {} /\ Bodies = {} /\ {i \in Shelves : Orphan(i)} = {}
    BY <1>a DEF Finders, Bodies, Orphan
  <2> QED  BY <2>1, FS_EmptySet DEF DeadAccounts
<1>6. SortInv
  <2>1. Bodies # Workers  BY <1>b DEF Bodies
  <2> QED  BY <1>b, <2>1 DEF SortInv
<1> QED  BY <1>1, <1>2, <1>3, <1>4, <1>5, <1>6 DEF Inv

\* The invariant is inductive.
LEMMA InvStep == Inv /\ [Next]_vars => Inv' /\ TidyChange
<1> SUFFICES ASSUME Inv, [Next]_vars PROVE Inv' /\ TidyChange  OBVIOUS
<1>a. TypeOK /\ PlaceInv /\ LockInv /\ TidyInv /\ DeadAccounts /\ SortInv  BY DEF Inv
<1>1. TypeOK'  BY <1>a, TypeStep
<1>2. PlaceInv'  BY <1>a, PlaceStep
<1>3. LockInv'  BY <1>a, LockStep
<1>4. TidyRight  BY <1>a, TidyFacts
<1>5. TidyRight'  BY <1>1, <1>2, <1>3, TidyFacts, PTL
<1>6. TidyChange  BY <1>a, <1>1, <1>4, <1>5, TidyStep
<1>7. TidyInv'  BY <1>a, <1>6, ExchangeKeeps DEF TidyChange, TidyInv
<1>8. DeadAccounts'  BY <1>a, AccountStep
<1>9. SortInv'  BY <1>a, SortStep
<1> QED  BY <1>1, <1>2, <1>3, <1>6, <1>7, <1>8, <1>9 DEF Inv

\* The inductive invariant, of which the theorems below are consequences.
THEOREM Invariant == Spec => []Inv
BY InitInv, InvStep, PTL DEF Spec

\* The shared memory and the variables of the processes keep their types: the loops of the
\* manager and the draws of the workers stay on the shelves.
THEOREM TypeCorrect == Spec => []TypeOK
<1>1. Inv => TypeOK  BY DEF Inv
<1> QED  BY <1>1, Invariant, PTL

\* Between locking and unlocking a pair a worker, and while it checks the manager, is the owner
\* of the shelves that it reads and writes (work and manager_work).
LockDiscipline ==
    /\ \A w \in Workers : pc[w] \in {"look", "swap"} => owner[x[w]] = w /\ owner[y[w]] = w
    /\ pc[Manager] = "check" => \A i \in Shelves : owner[i] = Manager

\* LockDiscipline holds at all times, whoever dies with a mutex (pthread_mutex_consistent).
THEOREM LocksKept == Spec => []LockDiscipline
<1>1. Inv => LockDiscipline
  <2> SUFFICES ASSUME Inv PROVE LockDiscipline  OBVIOUS
  <2> USE DEF Inv
  <2>1. \A w \in Workers : pc[w] \in {"look", "swap"} => owner[x[w]] = w /\ owner[y[w]] = w
    BY InHand
  <2>2. pc[Manager] = "check" => \A i \in Shelves : owner[i] = Manager
    BY DEF LockInv, ManagerHolds
  <2> QED  BY <2>1, <2>2 DEF LockDiscipline
<1> QED  BY <1>1, Invariant, PTL

\* The shelves hold every product once, whenever the manager checks them and at the end: what a
\* SWAP has begun nobody sees, and a worker that dies has not begun one.
THEOREM ProductsKept == Spec => []NothingLost
<1>1. Inv => NothingLost
  <2> SUFFICES ASSUME Inv, pc[Manager] = "check" \/ Over PROVE log \in Permutations
    BY DEF NothingLost
  <2>a. TypeOK /\ PlaceInv /\ LockInv /\ TidyInv  BY DEF Inv
  <2>1. TidyRight  BY <2>a, TidyFacts
  <2>2. \A w \in Workers : pc[w] # "swap"  BY <2>a, ManagerAlone DEF Over, Procs
  <2>3. \A i \in Shelves : Tidy[i] = log[i]  BY <2>1, <2>2 DEF TidyRight, Swaps
  <2>4. Tidy = log  BY <2>a, <2>1, <2>3 DEF TidyRight, TypeOK
  <2> QED  BY <2>a, <2>4 DEF TidyInv
<1> QED  BY <1>1, Invariant, PTL

\* Every death leaves two mutexes, each of them still to be found, found or counted: the
\* EOWNERDEAD branches of the workers and of the manager count no death more or less than twice.
THEOREM DeathsCounted == Spec => []DeadAccounts
<1>1. Inv => DeadAccounts  BY DEF Inv
<1> QED  BY <1>1, Invariant, PTL

\* The manager announces sorted shelves only when they are, and gives up only when every worker
\* is dead, with the shelves unsorted.
THEOREM VerdictRight == Spec => []Verdict
<1>1. Inv => Verdict
  <2> SUFFICES ASSUME Inv PROVE Verdict  OBVIOUS
  <2>1. SortInv  BY DEF Inv
  <2> QED  BY <2>1 DEF SortInv, Verdict
<1> QED  BY <1>1, Invariant, PTL

\* Every change of the shelves removes an inversion: the workers cannot sort for ever, nor undo
\* each other's work, whatever pairs they draw and however they interleave.
THEOREM EverySwapIsProgress == Spec => Progress
<1>1. Inv /\ TidyChange => (Tidy' # Tidy => Inversions(Tidy') < Inversions(Tidy))
  <2> SUFFICES ASSUME Inv, TidyChange, Tidy' # Tidy PROVE Inversions(Tidy') < Inversions(Tidy)
    OBVIOUS
  <2>1. PICK a, b \in Shelves : a < b /\ Tidy[a] > Tidy[b] /\ Tidy' = Exchanged(Tidy, a, b)
    BY DEF TidyChange
  <2>2. Tidy \in [Shelves -> Shelves]  BY DEF Inv, TidyInv, Permutations
  <2> QED  BY <2>1, <2>2, ExchangeProgress
<1>2. Inv /\ [Next]_vars => [Tidy' # Tidy => Inversions(Tidy') < Inversions(Tidy)]_vars
  BY <1>1, InvStep
<1> QED  BY <1>2, Invariant, PTL DEF Spec, Progress
=============================================================================
