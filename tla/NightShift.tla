----------------------------- MODULE NightShift -----------------------------
(***************************************************************************)
(* lab06/bitronka/sop-shop.c: workers sort the shelves of a shop that is   *)
(* shared memory, a manager watches, and a worker may die on the way.      *)
(*                                                                         *)
(* Every shelf has a robust process-shared mutex.  A worker takes the two  *)
(* mutexes of a pair of shelves, lower shelf first, and swaps the products *)
(* when they are out of order; or it "trips over a pallet": abort(), with  *)
(* both mutexes held.  Whoever locks a dead worker's mutex next is told so *)
(* (EOWNERDEAD), counts the find in `dead` and repairs the mutex.  A dead  *)
(* worker is found twice, once per mutex, so the manager takes dead/2 for  *)
(* the number of dead workers.                                             *)
(*                                                                         *)
(* mxSorted and mxDead guard single statements; each of these critical     *)
(* sections is one step here.  SWAP's two stores are two steps.            *)
(***************************************************************************)
EXTENDS Integers, FiniteSets

CONSTANTS N,        \* number of shelves
          Workers,  \* the worker processes
          Manager,  \* the manager process
          Nobody    \* the owner of a free mutex

ASSUME NightShiftAssumption ==
    /\ N \in Nat \ {0, 1}
    /\ IsFiniteSet(Workers) /\ Workers # {}
    /\ Manager \notin Workers
    /\ Nobody \notin Workers \union {Manager}

VARIABLES
    log,     \* log[i]: the product on shelf i
    owner,   \* owner[i]: the holder of mutexArr[i], which may be a dead worker
    dead,    \* shared_data->dead: mutexes found with a dead owner
    sorted,  \* shared_data->sorted
    pc,      \* pc[p]: where process p is
    x, y,    \* x[w], y[w]: the pair of shelves w has drawn; 0 and 1 outside the loop body
    tmp,     \* tmp[w]: SWAP's copy of log[x]; 0 outside SWAP
    aisle,   \* the manager's loop index over the mutexes
    seen     \* the manager's local variable sorted

vars == <<log, owner, dead, sorted, pc, x, y, tmp, aisle, seen>>

Shelves == 0..(N - 1)
Procs   == Workers \union {Manager}

Permutations == {f \in [Shelves -> Shelves] : \A i, j \in Shelves : f[i] = f[j] => i = j}
InOrder(f)   == \A i \in Shelves : f[i] = i

First(w)  == IF x[w] < y[w] THEN x[w] ELSE y[w]
Second(w) == IF x[w] < y[w] THEN y[w] ELSE x[w]

\* The owner of shelf i's mutex died holding it.
Orphan(i) == owner[i] \in Workers /\ pc[owner[i]] = "dead"

\* main and create_children: shelves shuffled, mutexes free, everybody forked.
Init ==
    /\ log \in Permutations
    /\ owner  = [i \in Shelves |-> Nobody]
    /\ dead   = 0
    /\ sorted = 0
    /\ pc     = [p \in Procs |-> IF p = Manager THEN "lock" ELSE "top"]
    /\ x      = [w \in Workers |-> 0]
    /\ y      = [w \in Workers |-> 1]
    /\ tmp    = [w \in Workers |-> 0]
    /\ aisle  = 0
    /\ seen   = 0

-----------------------------------------------------------------------------
(* Robust mutexes. *)

\* Goes on although the mutex is busy (an ignored result).  A mutant.
LockShelfBusy(p, i, found, next) ==
    /\ owner' = [owner EXCEPT ![i] = p]
    /\ pc' = [pc EXCEPT ![p] = IF Orphan(i) THEN found ELSE next]

\* pthread_mutex_lock by p: 0 and on to `next`, or EOWNERDEAD and on to `found`.
LockShelf(p, i, found, next) ==
    /\ owner[i] = Nobody \/ Orphan(i)
    /\ owner' = [owner EXCEPT ![i] = p]
    /\ pc' = [pc EXCEPT ![p] = IF Orphan(i) THEN found ELSE next]

\* dead++ under mxDead, then pthread_mutex_consistent.
CountBody(p, next) ==
    /\ dead' = dead + 1
    /\ pc' = [pc EXCEPT ![p] = next]
    /\ UNCHANGED <<log, owner, sorted, x, y, tmp>>

-----------------------------------------------------------------------------
(* A worker. *)

\* The shelves are sorted: leave the loop.
Leave(w) ==
    /\ pc[w] = "top"
    /\ sorted = 1
    /\ pc' = [pc EXCEPT ![w] = "exited"]
    /\ UNCHANGED <<log, owner, dead, sorted, x, y, tmp, aisle, seen>>

\* Draw two different shelves.
Draw(w, i, j) ==
    /\ pc[w] = "top"
    /\ sorted # 1
    /\ i # j
    /\ x' = [x EXCEPT ![w] = i]
    /\ y' = [y EXCEPT ![w] = j]
    /\ pc' = [pc EXCEPT ![w] = "first"]
    /\ UNCHANGED <<log, owner, dead, sorted, tmp, aisle, seen>>

\* Takes the mutexes in the order of the draw.  A mutant.
LockInDrawnOrder(w) ==
    /\ \/ pc[w] = "first" /\ LockShelf(w, x[w], "body1", "second")
       \/ pc[w] = "second" /\ LockShelf(w, y[w], "body2", "look")
    /\ UNCHANGED <<log, dead, sorted, x, y, tmp, aisle, seen>>

WorkerLocks(w) ==
    /\ \/ pc[w] = "first" /\ LockShelf(w, First(w), "body1", "second")
       \/ pc[w] = "second" /\ LockShelf(w, Second(w), "body2", "look")
    /\ UNCHANGED <<log, dead, sorted, x, y, tmp, aisle, seen>>

\* Forgets that a find of the second mutex is a find too.  A mutant.
CountFirstOnly(w) ==
    /\ \/ pc[w] = "body1" /\ CountBody(w, "second")
       \/ /\ pc[w] = "body2"
          /\ pc' = [pc EXCEPT ![w] = "look"]
          /\ UNCHANGED <<log, owner, dead, sorted, x, y, tmp>>
    /\ UNCHANGED <<aisle, seen>>

WorkerCounts(w) ==
    /\ \/ pc[w] = "body1" /\ CountBody(w, "second")
       \/ pc[w] = "body2" /\ CountBody(w, "look")
    /\ UNCHANGED <<aisle, seen>>

\* The variables of the loop body, or of the whole process, are gone.
Forget(w) == x' = [x EXCEPT ![w] = 0] /\ y' = [y EXCEPT ![w] = 1]

InvertedAsDrawn(w) == log[x[w]] > log[y[w]]   \* a mutant: the order of the draw
Inverted(w) == log[First(w)] > log[Second(w)]

\* The pair is in order: nothing to do.
Skip(w) ==
    /\ pc[w] = "look"
    /\ ~Inverted(w)
    /\ pc' = [pc EXCEPT ![w] = "unlock2"]
    /\ UNCHANGED <<log, owner, dead, sorted, x, y, tmp, aisle, seen>>

\* abort(): the process is gone, its two mutexes stay locked.
Trip(w) ==
    /\ pc[w] = "look"
    /\ Inverted(w)
    /\ pc' = [pc EXCEPT ![w] = "dead"]
    /\ Forget(w)
    /\ UNCHANGED <<log, owner, dead, sorted, tmp, aisle, seen>>

\* SWAP: log[x] = log[y], and then log[y] = the old log[x].
SwapFirst(w) ==
    /\ pc[w] = "look"
    /\ Inverted(w)
    /\ tmp' = [tmp EXCEPT ![w] = log[x[w]]]
    /\ log' = [log EXCEPT ![x[w]] = log[y[w]]]
    /\ pc' = [pc EXCEPT ![w] = "swap"]
    /\ UNCHANGED <<owner, dead, sorted, x, y, aisle, seen>>

SwapSecond(w) ==
    /\ pc[w] = "swap"
    /\ log' = [log EXCEPT ![y[w]] = tmp[w]]
    /\ tmp' = [tmp EXCEPT ![w] = 0]
    /\ pc' = [pc EXCEPT ![w] = "unlock2"]
    /\ UNCHANGED <<owner, dead, sorted, x, y, aisle, seen>>

\* Unlock `second`, then `first`.
WorkerUnlocks(w) ==
    /\ \/ /\ pc[w] = "unlock2"
          /\ owner' = [owner EXCEPT ![Second(w)] = Nobody]
          /\ pc' = [pc EXCEPT ![w] = "unlock1"]
          /\ UNCHANGED <<x, y>>
       \/ /\ pc[w] = "unlock1"
          /\ owner' = [owner EXCEPT ![First(w)] = Nobody]
          /\ pc' = [pc EXCEPT ![w] = "top"]
          /\ Forget(w)
    /\ UNCHANGED <<log, dead, sorted, tmp, aisle, seen>>

\* What a worker does between its draws, but for locking.
Work(w) == WorkerCounts(w) \/ Skip(w) \/ Trip(w) \/ SwapFirst(w) \/ SwapSecond(w)
           \/ WorkerUnlocks(w) \/ Leave(w)

-----------------------------------------------------------------------------
(* The manager. *)

\* for (i = 0; i < N; i++) lock mutexArr[i]
ManagerLocks ==
    /\ pc[Manager] = "lock"
    /\ \/ /\ aisle < N
          /\ LockShelf(Manager, aisle, "body", "lock")
          /\ aisle' = IF Orphan(aisle) THEN aisle ELSE aisle + 1
       \/ /\ aisle = N
          /\ pc' = [pc EXCEPT ![Manager] = "check"]
          /\ UNCHANGED <<owner, aisle>>
    /\ UNCHANGED <<log, dead, sorted, x, y, tmp, seen>>

ManagerCounts ==
    /\ pc[Manager] = "body"
    /\ CountBody(Manager, "lock")
    /\ aisle' = aisle + 1
    /\ UNCHANGED seen

\* log[i] != i for some i?
Check ==
    /\ pc[Manager] = "check"
    /\ seen' = IF InOrder(log) THEN 1 ELSE 0
    /\ aisle' = 0
    /\ pc' = [pc EXCEPT ![Manager] = "unlock"]
    /\ UNCHANGED <<log, owner, dead, sorted, x, y, tmp>>

\* i <= N in the loop.  A mutant.
ManagerUnlocksOneMore ==
    /\ pc[Manager] = "unlock"
    /\ IF aisle <= N
       THEN /\ owner' = [owner EXCEPT ![aisle] = Nobody]
            /\ aisle' = aisle + 1
            /\ UNCHANGED pc
       ELSE /\ pc' = [pc EXCEPT ![Manager] = "alive"]
            /\ UNCHANGED <<owner, aisle>>
    /\ UNCHANGED <<log, dead, sorted, x, y, tmp, seen>>

ManagerUnlocks ==
    /\ pc[Manager] = "unlock"
    /\ IF aisle < N
       THEN /\ owner' = [owner EXCEPT ![aisle] = Nobody]
            /\ aisle' = aisle + 1
            /\ UNCHANGED pc
       ELSE /\ pc' = [pc EXCEPT ![Manager] = "alive"]
            /\ UNCHANGED <<owner, aisle>>
    /\ UNCHANGED <<log, dead, sorted, x, y, tmp, seen>>

\* A find for a body.  A mutant.
AllDeadUnhalved == dead = Cardinality(Workers)

\* shared_data->dead / 2 == M
AllDead == dead \div 2 = Cardinality(Workers)

\* Under mxDead: exit when all workers died, else loop or announce the end.
CountAlive ==
    /\ pc[Manager] = "alive"
    /\ aisle' = 0
    /\ pc' = [pc EXCEPT ![Manager] =
                 IF AllDead THEN "exited" ELSE IF seen = 1 THEN "announce" ELSE "lock"]
    /\ UNCHANGED <<log, owner, dead, sorted, x, y, tmp, seen>>

Announce ==
    /\ pc[Manager] = "announce"
    /\ sorted' = 1
    /\ pc' = [pc EXCEPT ![Manager] = "exited"]
    /\ UNCHANGED <<log, owner, dead, x, y, tmp, aisle, seen>>

Manage == ManagerCounts \/ Check \/ ManagerUnlocks \/ CountAlive \/ Announce

-----------------------------------------------------------------------------
Over == \A p \in Procs : pc[p] \in {"exited", "dead"}

\* wait(NULL) in main returned for every child.
Stop == Over /\ UNCHANGED vars

Next == \/ \E w \in Workers : \/ \E i, j \in Shelves : Draw(w, i, j)
                              \/ WorkerLocks(w)
                              \/ Work(w)
        \/ ManagerLocks
        \/ Manage
        \/ Stop

\* Every process runs; a mutex goes to any of those that wait for it, so a process only
\* gets one that is free again and again; and rand() draws every pair again and again.
Fairness ==
    /\ \A w \in Workers : /\ WF_vars(Work(w))
                          /\ SF_vars(WorkerLocks(w))
                          /\ \A i, j \in Shelves :
                                i < j => SF_vars(Draw(w, i, j) \/ Draw(w, j, i))
    /\ SF_vars(ManagerLocks)
    /\ WF_vars(Manage)

Spec     == Init /\ [][Next]_vars
FairSpec == Spec /\ Fairness

-----------------------------------------------------------------------------
(* Properties. *)

WorkerPlaces  == {"top", "first", "body1", "second", "body2", "look", "swap",
                  "unlock2", "unlock1", "dead", "exited"}
ManagerPlaces == {"lock", "body", "check", "unlock", "alive", "announce", "exited"}

\* Type invariant of the shared memory and of the local variables.
TypeOK ==
    /\ log    \in [Shelves -> Shelves]
    /\ owner  \in [Shelves -> Procs \union {Nobody}]
    /\ dead   \in Nat
    /\ sorted \in {0, 1}
    /\ pc     \in [Procs -> WorkerPlaces \union ManagerPlaces]
    /\ x      \in [Workers -> Shelves]
    /\ y      \in [Workers -> Shelves]
    /\ tmp    \in [Workers -> Shelves]
    /\ aisle  \in 0..N
    /\ seen   \in {0, 1}

\* Products are neither lost nor doubled: whoever holds all the mutexes, as the manager
\* does when it checks, and main after the last wait, sees every product once (SWAP's two
\* stores are only seen by the worker that holds both mutexes; abort() comes before them).
NothingLost == pc[Manager] = "check" \/ Over => log \in Permutations

\* The accounts of the dead: every dead worker left two mutexes, each of them is still to
\* be found, found but not yet counted, or counted (the EOWNERDEAD branches).
Bodies == {w \in Workers : pc[w] = "dead"}
Finders == {p \in Procs : pc[p] \in {"body1", "body2", "body"}}
DeadAccounts ==
    dead + Cardinality(Finders) + Cardinality({i \in Shelves : Orphan(i)})
        = 2 * Cardinality(Bodies)

\* The manager's last word is right: it announces sorted shelves when they are sorted, and
\* gives up only when every worker is dead, which leaves the shelves unsorted.
Verdict ==
    pc[Manager] = "exited" =>
        IF sorted = 1 THEN InOrder(log) ELSE Bodies = Workers /\ ~InOrder(log)

\* The shelves with every swap that was begun completed.
Tidy == [i \in Shelves |->
            IF \E w \in Workers : pc[w] = "swap" /\ y[w] = i
            THEN tmp[CHOOSE w \in Workers : pc[w] = "swap" /\ y[w] = i] ELSE log[i]]
Inversions(f) == Cardinality({p \in Shelves \X Shelves : p[1] < p[2] /\ f[p[1]] > f[p[2]]})

\* Every change of the shelves is progress: a swap removes inversions and so can happen
\* only finitely often, and sorted shelves are not touched again (both SWAPs).
Progress == [][Tidy' # Tidy => Inversions(Tidy') < Inversions(Tidy)]_vars

\* The night shift ends: every worker leaves or dies, and the manager goes home.  No lock
\* is waited for in a cycle and none is left with a dead owner.
Ends == <>Over
=============================================================================
