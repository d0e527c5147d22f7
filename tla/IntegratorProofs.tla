--------------------------- MODULE IntegratorProofs ---------------------------
(***************************************************************************)
(* Proofs about lab06/calka for any number of processes, started whenever  *)
(* and with whatever bounds, and interrupted by SIGINT whenever they wait. *)
(*                                                                         *)
(* The semaphore (SemInv) lets one process at a time meet a segment that   *)
(* is being created, as long as both have waited for the same one to the   *)
(* end.  A segment that nobody has joined early is its creator's alone     *)
(* while it is initialised (FreshInv), so that who joins it finds it       *)
(* initialised (JoinInv).  From there on the mutexes count: who is inside  *)
(* owns mxResults (OwnerInv, ReportInv), and what a section under          *)
(* mxprocCount adds to the count, corrected by the bodies still to be      *)
(* found, is what it adds to the members (CountInv).                       *)
(***************************************************************************)
EXTENDS Integrator, TLAPS, FiniteSetTheorems

Places == {"start", "wait", "create", "truncate", "clear", "store_a", "store_b", "reset", "open",
           "map", "join", "look", "loop", "lock", "repair", "total", "hits", "sum", "unlink",
           "unlink_sem", "ended", "rejected", "failed", "dead", "killed", "asleep"}

\* Where a process is that initialises its segment, and where one is that has joined its segment,
\* or initialised it, and not left it yet.
RawPlaces    == {"truncate", "clear", "store_a", "store_b", "reset"}
MemberPlaces == {"join", "look", "loop", "lock", "repair", "total", "hits", "sum"}

\* p has waited for its semaphore and not posted it.
Critical(p) == pc[p] \in {"create", "open", "map", "killed"} \union RawPlaces

\* Nobody was interrupted in waiting for semaphore m.
Sound(m) == \A r \in interrupted : sem[r] # m

\* A process has opened what its place says, and a batch to go while it computes one.
PlaceInv ==
    /\ pc \in [Procs -> Places]
    /\ \A p \in Procs :
        /\ sem[p] = None <=> pc[p] = "start"
        /\ seg[p] = None <=> pc[p] \in {"start", "wait", "create", "open", "failed"}
        /\ pc[p] = "lock" \/ Inside(p) => batch[p] < Batches

\* A name is that of a semaphore or a segment that was created; a segment is empty, and joined by
\* nobody, until its creator has truncated it.
NameInv ==
    /\ \A q \in Procs : pc[q] = "start" =>
         semName # q /\ q \notin interrupted /\ \A p \in Procs : sem[p] # q
    /\ \A s \in Procs :
        /\ state[s] = "none" => shmName # s /\ \A p \in Procs : seg[p] # s
        /\ pc[s] \in {"start", "wait", "create"} => state[s] = "none"
        /\ pc[s] \in RawPlaces => seg[s] = s
        /\ state[s] = "empty" <=> pc[s] = "truncate"
        /\ state[s] = "zeros" => pc[s] = "clear"
        /\ state[s] \in {"none", "empty"} => s \notin early

\* A segment that nobody has joined early is its creator's alone until that has initialised it:
\* the others that meet it are rejected or killed.
FreshInv ==
    \A s \in Procs \ early :
        /\ pc[s] = "clear" => state[s] = "zeros"
        /\ pc[s] \in {"store_a", "store_b", "reset"} => state[s] = "robust"
        /\ pc[s] \in RawPlaces => \A p \in Procs : seg[p] = s => p = s \/ pc[p] \in {"map", "killed", "rejected"}
        /\ pc[s] \in RawPlaces \/ state[s] = "none" =>
             /\ mxprocCount[s] = "free" /\ mxResults[s] = None
             /\ total[s] = hits[s] /\ ghosts[s] = 0
             /\ procCount[s] = IF pc[s] \in {"store_b", "reset"} THEN 1 ELSE 0

\* One process at a time is between waiting for a semaphore and posting it, unless a wait for it
\* was interrupted.
SemInv ==
    /\ \A m \in Procs : Sound(m) => semValue[m] \in 0..1
    /\ \A p \in Procs : Critical(p) /\ Sound(sem[p]) =>
        /\ semValue[sem[p]] = 0
        /\ \A q \in Procs : Critical(q) /\ sem[q] = sem[p] => q = p

\* Who has joined a segment has found it initialised with its own bounds, unless somebody has
\* joined it early.
JoinInv ==
    \A p \in Procs : pc[p] \in MemberPlaces /\ seg[p] \notin early =>
        /\ pc[seg[p]] \notin RawPlaces /\ state[seg[p]] \in {"robust", "destroyed"}
        /\ bounds[p] = bounds[seg[p]]

\* The owner of mxResults is inside, or has died there.
OwnerInv ==
    \A s \in Procs \ early : mxResults[s] # None =>
        /\ mxResults[s] \in Procs /\ seg[mxResults[s]] = s
        /\ Inside(mxResults[s]) \/ Dead(mxResults[s])

\* Whoever is inside owns mxResults, and the totals differ while it is between the two.
ReportInv ==
    \A s \in Procs \ early : state[s] # "destroyed" =>
        /\ \A p \in Procs : seg[p] = s /\ Inside(p) => mxResults[s] = p
        /\ total[s] = hits[s] + IF mxResults[s] # None /\ pc[mxResults[s]] = "hits" THEN 1 ELSE 0

\* The members of a segment, its creator as soon as it has counted itself, and what the count says
\* of them: without the bodies that were not deducted yet, with those that were and should not have
\* been.
One(b)         == IF b THEN 1 ELSE 0
IsMember(p, s) == seg[p] = s /\ (pc[p] \in {"store_b", "reset", "look"} \/ Working(p))
Members(s)     == {p \in Procs : IsMember(p, s)}
Tally(s)       == procCount[s] + ghosts[s] - One(mxprocCount[s] = "dead")
                  - One(mxResults[s] # None /\ pc[mxResults[s]] \in {"dead", "repair"})

CountInv == \A s \in Procs \ early : state[s] # "destroyed" => Tally(s) = Cardinality(Members(s))

Inv == TypeOK /\ PlaceInv /\ NameInv /\ FreshInv /\ SemInv /\ JoinInv /\ OwnerInv /\ ReportInv
       /\ CountInv

-----------------------------------------------------------------------------
(* Steps. *)

ProcessStep(p) == SemWait(p) \/ SemInterrupted(p) \/ Step(p)

\* Every step is one of a process, or changes nothing.
LEMMA StepCases == ASSUME [Next]_vars PROVE (\E p \in Procs : ProcessStep(p)) \/ UNCHANGED vars
BY DEF Next, Over, ProcessStep

\* The steps at the mutexes of a segment, and those at what the names denote.
AtLock(p) == Join(p) \/ Look(p) \/ Repair(p) \/ Leave(p) \/ LockResults(p)
AtName(p) == Open(p) \/ Map(p)

\* A step at the mutexes of a segment: whoever else there is stays where it is, nobody joins, and
\* no other segment changes.
LEMMA LockSteps ==
    ASSUME TypeOK, PlaceInv, NEW p \in Procs, AtLock(p)
    PROVE  /\ UNCHANGED <<names, state, total, hits, process, interrupted, early>>
           /\ pc' \in [Procs -> Places]
           /\ \A q \in Procs \ {p} : pc'[q] = pc[q]
           /\ pc[p] \in MemberPlaces /\ pc[p] \in {"join", "look", "repair", "loop", "lock"}
           /\ pc'[p] \in {"look", "loop", "total", "sum", "ended", "repair", "dead", "asleep"}
           /\ pc'[p] \in {"total", "repair"} => pc[p] \in {"lock", "repair"}
           /\ pc'[p] = "asleep" => state[seg[p]] = "zeros"
           /\ \A q \in Procs : (pc'[q] \in RawPlaces <=> pc[q] \in RawPlaces) /\ (pc'[q] \in MemberPlaces => pc[q] \in MemberPlaces)
           /\ \A s \in Procs \ {seg[p]} :
                /\ procCount'[s] = procCount[s] /\ mxprocCount'[s] = mxprocCount[s]
                /\ mxResults'[s] = mxResults[s] /\ ghosts'[s] = ghosts[s]
           /\ \/ /\ mxResults' = mxResults
                 /\ pc[p] = "lock" => pc'[p] = "asleep" \/ state[seg[p]] = "destroyed"
              \/ /\ mxResults' = [mxResults EXCEPT ![seg[p]] = p]
                 /\ pc[p] = "lock" /\ pc'[p] \in {"total", "dead", "repair"}
                 /\ mxResults[seg[p]] = None \/ Dead(mxResults[seg[p]])
           /\ pc[p] = "repair" => pc'[p] \in {"total", "dead", "asleep"}
<1> DEFINE after == {"look", "loop", "total", "sum", "ended", "repair", "dead", "asleep"}
<1>1. /\ UNCHANGED <<names, state, total, hits, process, interrupted, early>>
      /\ pc[p] \in {"join", "look", "repair", "loop", "lock"}
  BY DEF AtLock, Join, Look, Repair, Leave, LockResults, CountOnly, history
<1>2. \E place \in after :
         /\ pc' = [pc EXCEPT ![p] = place]
         /\ place = "asleep" => state[seg[p]] = "zeros"
         /\ place \in {"total", "repair"} => pc[p] \in {"lock", "repair"}
  BY DEF AtLock, Join, Look, Repair, Leave, LockResults, CountSection, DieCounting, Sleep, Go
<1>3. /\ pc' \in [Procs -> Places]
      /\ \A q \in Procs \ {p} : pc'[q] = pc[q]
      /\ pc'[p] \in after
      /\ pc'[p] \in {"total", "repair"} => pc[p] \in {"lock", "repair"}
      /\ pc'[p] = "asleep" => state[seg[p]] = "zeros"
  BY <1>2 DEF PlaceInv, Places
<1>4. pc[p] \in MemberPlaces  BY <1>1 DEF MemberPlaces
<1>5. \A q \in Procs : pc'[q] \in RawPlaces <=> pc[q] \in RawPlaces  BY <1>1, <1>3 DEF RawPlaces
<1>6. \A q \in Procs : pc'[q] \in MemberPlaces => pc[q] \in MemberPlaces  BY <1>3, <1>4 DEF MemberPlaces
<1>7. ASSUME NEW s \in Procs \ {seg[p]}
      PROVE  /\ procCount'[s] = procCount[s] /\ mxprocCount'[s] = mxprocCount[s]
             /\ mxResults'[s] = mxResults[s] /\ ghosts'[s] = ghosts[s]
  <2>1. CASE LockResults(p)  BY <2>1 DEF LockResults, history, TypeOK
  <2>2. ASSUME NEW d, NEW place, CountSection(p, d, place), CountOnly
        PROVE  /\ procCount'[s] = procCount[s] /\ mxprocCount'[s] = mxprocCount[s]
               /\ mxResults'[s] = mxResults[s] /\ ghosts'[s] = ghosts[s]
    BY <2>2 DEF CountSection, DieCounting, CountOnly, TypeOK
  <2> QED  BY <2>1, <2>2 DEF AtLock, Join, Look, Repair, Leave
<1>8. \/ /\ mxResults' = mxResults
         /\ pc[p] = "lock" => pc'[p] = "asleep" \/ state[seg[p]] = "destroyed"
      \/ /\ mxResults' = [mxResults EXCEPT ![seg[p]] = p]
         /\ pc[p] = "lock" /\ pc'[p] \in {"total", "dead", "repair"}
         /\ mxResults[seg[p]] = None \/ Dead(mxResults[seg[p]])
  <2>1. CASE LockResults(p)  BY <2>1 DEF LockResults, Sleep, Go, PlaceInv
  <2>2. CASE ~LockResults(p)
    BY <2>2 DEF AtLock, Join, Look, Repair, Leave, CountOnly
  <2> QED  BY <2>1, <2>2
<1>9. pc[p] = "repair" => pc'[p] \in {"total", "dead", "asleep"}
  BY DEF AtLock, Join, Look, Repair, Leave, LockResults, CountSection, DieCounting, Sleep, Go,
         PlaceInv
<1> QED  BY <1>1, <1>3, <1>4, <1>5, <1>6, <1>7, <1>8, <1>9

\* The first shm_open creates the segment, or finds it created.
LEMMA CreateSteps ==
    ASSUME TypeOK, PlaceInv, NEW p \in Procs, Create(p)
    PROVE  /\ UNCHANGED <<semName, semValue, procCount, total, hits, mxprocCount, mxResults, bounds,
                          sem, batch, ghosts, interrupted, early>>
           /\ pc' \in [Procs -> Places] /\ pc[p] = "create" /\ seg[p] = None
           /\ state' \in [Procs -> {"none", "empty", "zeros", "robust", "destroyed"}]
           /\ seg' \in [Procs -> Procs \union {None}]
           /\ \A q \in Procs \ {p} : pc'[q] = pc[q] /\ seg'[q] = seg[q] /\ state'[q] = state[q]
           /\ \/ pc'[p] = "truncate" /\ shmName' = p /\ seg'[p] = p /\ state'[p] = "empty"
              \/ pc'[p] = "open" /\ UNCHANGED <<shmName, seg, state>>
<1>1. /\ UNCHANGED <<semName, semValue, procCount, total, hits, mxprocCount, mxResults, bounds,
                     sem, batch, ghosts, interrupted, early>>
      /\ pc[p] = "create" /\ seg[p] = None
  BY DEF Create, history, PlaceInv
<1>2. \/ /\ shmName' = p
         /\ state' = [state EXCEPT ![p] = "empty"]
         /\ seg' = [seg EXCEPT ![p] = p]
         /\ pc' = [pc EXCEPT ![p] = "truncate"]
      \/ pc' = [pc EXCEPT ![p] = "open"] /\ UNCHANGED <<shmName, state, seg>>
  BY DEF Create, Go
<1>3. CASE pc' = [pc EXCEPT ![p] = "open"] /\ UNCHANGED <<shmName, state, seg>>
  BY <1>1, <1>3 DEF PlaceInv, Places, TypeOK
<1>4. CASE /\ shmName' = p
           /\ state' = [state EXCEPT ![p] = "empty"]
           /\ seg' = [seg EXCEPT ![p] = p]
           /\ pc' = [pc EXCEPT ![p] = "truncate"]
  <2>1. pc' \in [Procs -> Places] /\ pc'[p] = "truncate"  BY <1>4 DEF PlaceInv, Places
  <2>2. /\ seg' \in [Procs -> Procs \union {None}] /\ seg'[p] = p
        /\ state' \in [Procs -> {"none", "empty", "zeros", "robust", "destroyed"}]
        /\ state'[p] = "empty"
    BY <1>4 DEF TypeOK
  <2>3. \A q \in Procs \ {p} : pc'[q] = pc[q] /\ seg'[q] = seg[q] /\ state'[q] = state[q]
    BY <1>4 DEF PlaceInv, TypeOK
  <2> QED  BY <1>1, <1>4, <2>1, <2>2, <2>3
<1> QED  BY <1>2, <1>3, <1>4

\* A step at the names: a process opens what the name denotes, or joins it, or is turned away.
LEMMA NameSteps ==
    ASSUME TypeOK, PlaceInv, NEW p \in Procs, AtName(p)
    PROVE  /\ UNCHANGED <<shmName, semName, segment, bounds, sem, batch, ghosts, interrupted>>
           /\ pc' \in [Procs -> Places] /\ pc[p] \in {"open", "map"}
           /\ pc'[p] \in {"map", "failed", "killed", "rejected", "join"}
           /\ \A q \in Procs \ {p} : pc'[q] = pc[q] /\ seg'[q] = seg[q]
           /\ pc'[p] \in {"map", "killed"} => semValue' = semValue
           /\ pc'[p] \in {"failed", "rejected", "join"} => SemPost(p)
           /\ pc'[p] \in {"map", "failed"} => seg[p] = None
           /\ pc'[p] = "map" => seg'[p] = shmName /\ shmName \in Procs
           /\ pc'[p] # "map" => seg'[p] = seg[p]
           /\ pc'[p] \in {"killed", "rejected", "join"} => seg[p] \in Procs
           /\ pc'[p] = "join" => state[seg[p]] # "empty" /\ BoundsOf(seg[p]) = bounds[p]
           /\ early' = early \/ (pc'[p] = "join" /\ early' = early \union {seg[p]})
           /\ pc'[p] = "join" /\ pc[seg[p]] \in RawPlaces => seg[p] \in early'
<1> USE DEF Go
<1>1. CASE Open(p)
  <2>1. /\ UNCHANGED <<shmName, semName, segment, bounds, sem, batch, history>>
        /\ pc[p] = "open" /\ seg[p] = None
    BY <1>1 DEF Open, PlaceInv
  <2>2. CASE shmName # None
    <3>1. /\ seg' = [seg EXCEPT ![p] = shmName] /\ pc' = [pc EXCEPT ![p] = "map"]
          /\ semValue' = semValue /\ shmName \in Procs
      BY <1>1, <2>2 DEF Open, TypeOK
    <3>2. /\ pc' \in [Procs -> Places] /\ pc'[p] = "map" /\ seg'[p] = shmName
          /\ \A q \in Procs \ {p} : pc'[q] = pc[q] /\ seg'[q] = seg[q]
      BY <3>1 DEF PlaceInv, Places, TypeOK
    <3> QED  BY <2>1, <3>1, <3>2 DEF history, segment
  <2>3. CASE shmName = None
    <3>1. seg' = seg /\ pc' = [pc EXCEPT ![p] = "failed"] /\ SemPost(p)
      BY <1>1, <2>3 DEF Open
    <3>2. /\ pc' \in [Procs -> Places] /\ pc'[p] = "failed"
          /\ \A q \in Procs \ {p} : pc'[q] = pc[q]
      BY <3>1 DEF PlaceInv, Places
    <3> QED  BY <2>1, <3>1, <3>2 DEF history, segment
  <2> QED  BY <2>2, <2>3
<1>2. CASE Map(p)
  <2>1. /\ UNCHANGED <<shmName, semName, segment, process, ghosts, interrupted>>
        /\ pc[p] = "map"
    BY <1>2 DEF Map
  <2>2. seg[p] \in Procs  BY <2>1 DEF PlaceInv, TypeOK
  <2>3. \/ pc' = [pc EXCEPT ![p] = "killed"] /\ semValue' = semValue /\ early' = early
        \/ pc' = [pc EXCEPT ![p] = "rejected"] /\ SemPost(p) /\ early' = early
        \/ /\ pc' = [pc EXCEPT ![p] = "join"] /\ SemPost(p)
           /\ state[seg[p]] # "empty" /\ BoundsOf(seg[p]) = bounds[p]
           /\ early' = IF pc[seg[p]] \in RawPlaces THEN early \union {seg[p]} ELSE early
    BY <1>2 DEF Map, Raw, RawPlaces
  <2>4. /\ pc' \in [Procs -> Places]
        /\ \A q \in Procs \ {p} : pc'[q] = pc[q]
        /\ \/ pc'[p] = "killed" /\ semValue' = semValue /\ early' = early
           \/ pc'[p] = "rejected" /\ SemPost(p) /\ early' = early
           \/ /\ pc'[p] = "join" /\ SemPost(p)
              /\ state[seg[p]] # "empty" /\ BoundsOf(seg[p]) = bounds[p]
              /\ early' = IF pc[seg[p]] \in RawPlaces THEN early \union {seg[p]} ELSE early
    BY <2>3 DEF PlaceInv, Places
  <2> QED  BY <2>1, <2>2, <2>4 DEF process, segment
<1> QED  BY <1>1, <1>2 DEF AtName

\* A section keeps the types.
LEMMA SectionTypes ==
    ASSUME TypeOK, PlaceInv, NEW p \in Procs, pc[p] \in MemberPlaces, NEW d \in Int, NEW place,
           CountSection(p, d, place), CountOnly
    PROVE  TypeOK'
<1>1. seg[p] \in Procs  BY DEF TypeOK, PlaceInv, MemberPlaces
<1>2. /\ UNCHANGED <<names, state, total, hits, mxResults, process, interrupted, early>>
      /\ \/ /\ \E e \in Int : procCount' = [procCount EXCEPT ![seg[p]] = @ + e]
            /\ \E m \in {"free", "dead"} : mxprocCount' = [mxprocCount EXCEPT ![seg[p]] = m]
            /\ ghosts' = ghosts
         \/ /\ procCount' = procCount
            /\ mxprocCount' = [mxprocCount EXCEPT ![seg[p]] = "dead"]
            /\ ghosts' = ghosts \/ ghosts' = [ghosts EXCEPT ![seg[p]] = @ + 1]
         \/ procCount' = procCount /\ mxprocCount' = mxprocCount /\ ghosts' = ghosts
  <2>1. CASE DieCounting(p) /\ UNCHANGED procCount  BY <2>1 DEF DieCounting, CountOnly
  <2>2. CASE Sleep(p) /\ UNCHANGED <<procCount, mxprocCount, ghosts>>  BY <2>2 DEF CountOnly
  <2>3. CASE /\ ~(DieCounting(p) /\ UNCHANGED procCount)
             /\ ~(Sleep(p) /\ UNCHANGED <<procCount, mxprocCount, ghosts>>)
    <3> DEFINE found == IF state[seg[p]] = "robust" /\ mxprocCount[seg[p]] = "dead" THEN 1 ELSE 0
               e == d - found
               m == IF found = 1 THEN "free" ELSE mxprocCount[seg[p]]
    <3>1. e \in Int  OBVIOUS
    <3>2. m \in {"free", "dead"}  BY <1>1 DEF TypeOK
    <3>3. /\ procCount' = [procCount EXCEPT ![seg[p]] = @ + e]
          /\ mxprocCount' = [mxprocCount EXCEPT ![seg[p]] = m] /\ ghosts' = ghosts
      <4>1. /\ procCount' = [procCount EXCEPT ![seg[p]] = @ + d - found]
            /\ mxprocCount' = [mxprocCount EXCEPT ![seg[p]] = m] /\ ghosts' = ghosts
        BY <2>3, <1>1 DEF CountSection, TypeOK
      <4>2. procCount[seg[p]] + d - found = procCount[seg[p]] + e  BY <1>1 DEF TypeOK
      <4> QED  BY <4>1, <4>2
    <3> HIDE DEF e, m
    <3> QED  BY <3>1, <3>2, <3>3 DEF CountOnly
  <2> QED  BY <2>1, <2>2, <2>3
<1>3. procCount' \in [Procs -> Int] /\ mxprocCount' \in [Procs -> {"free", "dead"}]
  BY <1>1, <1>2 DEF TypeOK
<1>4. ghosts' \in [Procs -> Nat]
  <2>1. ghosts[seg[p]] + 1 \in Nat  BY <1>1 DEF TypeOK
  <2>2. ghosts' = ghosts \/ ghosts' = [ghosts EXCEPT ![seg[p]] = @ + 1]  BY <1>2
  <2> QED  BY <2>1, <2>2 DEF TypeOK
<1> QED  BY <1>2, <1>3, <1>4 DEF TypeOK, names, process

\* Every step keeps the types.
LEMMA TypeStep ==
    ASSUME TypeOK, PlaceInv, NameInv, [Next]_vars
    PROVE  TypeOK'
<1> USE IntegratorAssumption
    DEF TypeOK, PlaceInv, NameInv, Inside, Places, Go, names, segment, process, history
<1>1. ASSUME NEW p \in Procs, ProcessStep(p) PROVE TypeOK'
  <2>1. CASE SemOpen(p)  BY <2>1 DEF SemOpen
  <2>2. CASE SemWait(p)
    <3>1. sem[p] \in Procs /\ semValue[sem[p]] - 1 \in Nat  BY <2>2 DEF SemWait
    <3> QED  BY <2>2, <3>1 DEF SemWait
  <2>3. CASE SemInterrupted(p)  BY <2>3 DEF SemInterrupted
  <2>4. CASE Create(p)
    <3>1. /\ UNCHANGED <<semName, semValue, procCount, total, hits, mxprocCount, mxResults, bounds,
                       sem, batch, ghosts, interrupted, early>>
          /\ state' \in [Procs -> {"none", "empty", "zeros", "robust", "destroyed"}]
          /\ seg' \in [Procs -> Procs \union {None}]
          /\ shmName' = p \/ shmName' = shmName
      <4> HIDE DEF TypeOK, PlaceInv
      <4> QED  BY <2>4, CreateSteps
    <3> QED  BY <3>1
  <2>5. CASE Truncate(p)  BY <2>5 DEF Truncate
  <2>6. CASE Clear(p)  BY <2>6 DEF Clear
  <2>7. CASE StoreA(p)  BY <2>7 DEF StoreA
  <2>8. CASE StoreB(p)  BY <2>8 DEF StoreB
  <2>9. CASE Reset(p)
    <3>1. sem[p] \in Procs /\ semValue[sem[p]] + 1 \in Nat  BY <2>9 DEF Reset
    <3> QED  BY <2>9, <3>1 DEF Reset, SemPost
  <2>10. CASE Open(p)
    <3>1. seg' \in [Procs -> Procs \union {None}]  BY <2>10 DEF Open
    <3>2. sem[p] \in Procs /\ semValue[sem[p]] + 1 \in Nat  BY <2>10 DEF Open
    <3>3. semValue' \in [Procs -> Nat]
      <4>1. semValue' = semValue \/ semValue' = [semValue EXCEPT ![sem[p]] = @ + 1]
        BY <2>10 DEF Open, SemPost
      <4> QED  BY <3>2, <4>1
    <3> QED  BY <2>10, <3>1, <3>3 DEF Open
  <2>11. CASE Map(p)
    <3>1. sem[p] \in Procs /\ seg[p] \in Procs
      <4>1. pc[p] = "map"  BY <2>11 DEF Map
      <4> QED  BY <4>1
    <3>2. semValue' \in [Procs -> Nat]
      <4>1. semValue' = semValue \/ semValue' = [semValue EXCEPT ![sem[p]] = @ + 1]
        BY <2>11 DEF Map, SemPost
      <4>2. semValue[sem[p]] + 1 \in Nat  BY <3>1
      <4> QED  BY <4>1, <4>2
    <3>3. early' \subseteq Procs  BY <2>11, <3>1 DEF Map
    <3> QED  BY <2>11, <3>2, <3>3 DEF Map
  <2>12. CASE Join(p)
    <3>1. pc[p] \in MemberPlaces  BY <2>12 DEF Join, MemberPlaces
    <3>2. PICK d, place : d \in Int /\ CountSection(p, d, place) /\ CountOnly  BY <2>12 DEF Join
    <3> HIDE DEF TypeOK, PlaceInv
    <3> QED  BY <3>1, <3>2, SectionTypes
  <2>13. CASE Look(p)
    <3>1. pc[p] \in MemberPlaces  BY <2>13 DEF Look, MemberPlaces
    <3>2. PICK d, place : d \in Int /\ CountSection(p, d, place) /\ CountOnly  BY <2>13 DEF Look
    <3> HIDE DEF TypeOK, PlaceInv
    <3> QED  BY <3>1, <3>2, SectionTypes
  <2>14. CASE Repair(p)
    <3>1. pc[p] \in MemberPlaces  BY <2>14 DEF Repair, MemberPlaces
    <3>2. PICK d, place : d \in Int /\ CountSection(p, d, place) /\ CountOnly  BY <2>14 DEF Repair
    <3> HIDE DEF TypeOK, PlaceInv
    <3> QED  BY <3>1, <3>2, SectionTypes
  <2>15. CASE Leave(p)
    <3>1. pc[p] \in MemberPlaces  BY <2>15 DEF Leave, MemberPlaces
    <3>2. PICK d, place : d \in Int /\ CountSection(p, d, place) /\ CountOnly  BY <2>15 DEF Leave
    <3> HIDE DEF TypeOK, PlaceInv
    <3> QED  BY <3>1, <3>2, SectionTypes
  <2>16. CASE Continue(p)  BY <2>16 DEF Continue
  <2>17. CASE LockResults(p)
    <3>1. mxResults' \in [Procs -> Procs \union {None}]  BY <2>17 DEF LockResults
    <3> QED  BY <2>17, <3>1 DEF LockResults
  <2>18. CASE AddTotal(p)
    <3>1. seg[p] \in Procs /\ total[seg[p]] + 1 \in Nat  BY <2>18 DEF AddTotal
    <3> QED  BY <2>18, <3>1 DEF AddTotal
  <2>19. CASE AddHits(p)
    <3>1. /\ seg[p] \in Procs /\ hits[seg[p]] + 1 \in Nat
          /\ batch[p] + 1 \in 0..Batches
      BY <2>19 DEF AddHits
    <3> QED  BY <2>19, <3>1 DEF AddHits
  <2>20. CASE Sum(p)  BY <2>20 DEF Sum
  <2>21. CASE UnlinkSegment(p)  BY <2>21 DEF UnlinkSegment
  <2>22. CASE UnlinkSemaphore(p)  BY <2>22 DEF UnlinkSemaphore
  <2> QED
    BY <1>1, <2>1, <2>2, <2>3, <2>4, <2>5, <2>6, <2>7, <2>8, <2>9, <2>10, <2>11,
       <2>12, <2>13, <2>14, <2>15, <2>16, <2>17, <2>18, <2>19, <2>20, <2>21, <2>22
    DEF ProcessStep, Step
<1>2. CASE UNCHANGED vars  BY <1>2 DEF vars, names, segment, process, history
<1> QED  BY <1>1, <1>2, StepCases

\* Every process keeps to its places.
LEMMA PlaceStep ==
    ASSUME TypeOK, PlaceInv, [Next]_vars
    PROVE  PlaceInv'
<1> USE IntegratorAssumption
    DEF TypeOK, PlaceInv, Inside, Places, Go, names, segment, process, history
<1>1. ASSUME NEW p \in Procs, ProcessStep(p) PROVE PlaceInv'
  <2>1. CASE SemOpen(p)  BY <2>1 DEF SemOpen
  <2>2. CASE SemWait(p)  BY <2>2 DEF SemWait
  <2>3. CASE SemInterrupted(p)  BY <2>3 DEF SemInterrupted
  <2>4. CASE Create(p)
    <3>1. /\ UNCHANGED <<semName, semValue, procCount, total, hits, mxprocCount, mxResults, bounds,
                       sem, batch, ghosts, interrupted, early>>
          /\ pc' \in [Procs -> Places] /\ pc[p] = "create" /\ seg[p] = None
          /\ \A q \in Procs \ {p} : pc'[q] = pc[q] /\ seg'[q] = seg[q] /\ state'[q] = state[q]
          /\ \/ pc'[p] = "truncate" /\ shmName' = p /\ seg'[p] = p /\ state'[p] = "empty"
             \/ pc'[p] = "open" /\ UNCHANGED <<shmName, seg, state>>
      <4> HIDE DEF TypeOK, PlaceInv
      <4> QED  BY <2>4, CreateSteps
    <3> QED  BY <3>1
  <2>5. CASE Truncate(p)  BY <2>5 DEF Truncate
  <2>6. CASE Clear(p)  BY <2>6 DEF Clear
  <2>7. CASE StoreA(p)  BY <2>7 DEF StoreA
  <2>8. CASE StoreB(p)  BY <2>8 DEF StoreB
  <2>9. CASE Reset(p)  BY <2>9 DEF Reset, SemPost
  <2>10. CASE AtName(p)
    <3>1. /\ UNCHANGED <<shmName, semName, segment, bounds, sem, batch, ghosts, interrupted>>
          /\ pc' \in [Procs -> Places] /\ pc[p] \in {"open", "map"}
          /\ pc'[p] \in {"map", "failed", "killed", "rejected", "join"}
          /\ \A q \in Procs \ {p} : pc'[q] = pc[q] /\ seg'[q] = seg[q]
          /\ pc'[p] = "map" => seg'[p] = shmName /\ shmName \in Procs
          /\ pc'[p] # "map" => seg'[p] = seg[p]
          /\ pc'[p] \in {"killed", "rejected", "join"} => seg[p] \in Procs
          /\ pc'[p] \in {"map", "failed"} => seg[p] = None
      <4> HIDE DEF TypeOK, PlaceInv
      <4> QED  BY <2>10, NameSteps
    <3> QED  BY <3>1
  <2>11. CASE AtLock(p)
    <3>1. /\ UNCHANGED process
          /\ pc' \in [Procs -> Places]
          /\ \A q \in Procs \ {p} : pc'[q] = pc[q]
          /\ pc[p] \in {"join", "look", "repair", "loop", "lock"}
          /\ pc'[p] \in {"look", "loop", "total", "sum", "ended", "repair", "dead", "asleep"}
          /\ pc'[p] \in {"total", "repair"} => pc[p] \in {"lock", "repair"}
      <4> HIDE DEF TypeOK, PlaceInv
      <4> QED  BY <2>11, LockSteps
    <3> QED  BY <3>1
  <2>12. CASE Continue(p)  BY <2>12 DEF Continue
  <2>13. CASE AddTotal(p)  BY <2>13 DEF AddTotal
  <2>14. CASE AddHits(p)  BY <2>14 DEF AddHits
  <2>15. CASE Sum(p)  BY <2>15 DEF Sum
  <2>16. CASE UnlinkSegment(p)  BY <2>16 DEF UnlinkSegment
  <2>17. CASE UnlinkSemaphore(p)  BY <2>17 DEF UnlinkSemaphore
  <2> QED
    BY <1>1, <2>1, <2>2, <2>3, <2>4, <2>5, <2>6, <2>7, <2>8,
       <2>9, <2>10, <2>11, <2>12, <2>13, <2>14, <2>15, <2>16, <2>17
    DEF ProcessStep, Step, AtName, AtLock
<1>2. CASE UNCHANGED vars  BY <1>2 DEF vars, names, segment, process, history
<1> QED  BY <1>1, <1>2, StepCases

\* Names keep denoting what was created.
LEMMA NameStep ==
    ASSUME TypeOK, PlaceInv, NameInv, FreshInv, JoinInv, [Next]_vars
    PROVE  NameInv'
<1> USE IntegratorAssumption
    DEF TypeOK, PlaceInv, NameInv, FreshInv, RawPlaces, Go, names, segment, process, history
<1>1. ASSUME NEW p \in Procs, ProcessStep(p) PROVE NameInv'
  <2>1. CASE SemOpen(p)  BY <2>1 DEF SemOpen
  <2>2. CASE SemWait(p)  BY <2>2 DEF SemWait
  <2>3. CASE SemInterrupted(p)  BY <2>3 DEF SemInterrupted
  <2>4. CASE Create(p)
    <3>1. /\ UNCHANGED <<semName, semValue, procCount, total, hits, mxprocCount, mxResults, bounds,
                       sem, batch, ghosts, interrupted, early>>
          /\ pc' \in [Procs -> Places] /\ pc[p] = "create" /\ seg[p] = None
          /\ \A q \in Procs \ {p} : pc'[q] = pc[q] /\ seg'[q] = seg[q] /\ state'[q] = state[q]
          /\ \/ pc'[p] = "truncate" /\ shmName' = p /\ seg'[p] = p /\ state'[p] = "empty"
             \/ pc'[p] = "open" /\ UNCHANGED <<shmName, seg, state>>
      <4> HIDE DEF TypeOK, PlaceInv
      <4> QED  BY <2>4, CreateSteps
    <3>2. /\ state[p] = "none" /\ p \notin early
          /\ pc'[p] \in {"truncate", "open"}
          /\ pc'[p] \in RawPlaces => seg'[p] = p
          /\ state'[p] = "empty" <=> pc'[p] = "truncate"
          /\ state'[p] \in {"none", "empty"}
      BY <3>1
    <3>3. \A q \in Procs \ {p} : /\ pc'[q] = pc[q] /\ state'[q] = state[q] /\ seg'[q] = seg[q]
                                 /\ state[q] = "none" => shmName' # q /\ seg'[p] # q
      BY <3>1
    <3>4. state'[p] = "none" => shmName' # p /\ \A q \in Procs : seg'[q] # p  BY <3>1
    <3>5. pc[p] = "create" /\ UNCHANGED <<semName, sem, interrupted, early>>  BY <3>1
    <3> HIDE DEF TypeOK, PlaceInv, RawPlaces
    <3>6. \A q \in Procs : pc'[q] = "start" => pc[q] = "start"  BY <3>2, <3>3
    <3>7. \A q \in Procs : pc'[q] = "start" =>
             semName' # q /\ q \notin interrupted' /\ \A r \in Procs : sem'[r] # q
      BY <3>5, <3>6
    <3>8. ASSUME NEW s \in Procs
          PROVE  /\ state'[s] = "none" => shmName' # s /\ \A q \in Procs : seg'[q] # s
                 /\ pc'[s] \in {"start", "wait", "create"} => state'[s] = "none"
                 /\ pc'[s] \in RawPlaces => seg'[s] = s
                 /\ state'[s] = "empty" <=> pc'[s] = "truncate"
                 /\ state'[s] = "zeros" => pc'[s] = "clear"
                 /\ state'[s] \in {"none", "empty"} => s \notin early'
      <4>1. CASE s = p
        <5>1. state'[p] # "zeros" /\ pc'[p] \notin {"start", "wait", "create"}  BY <3>2
        <5> HIDE DEF NameInv, FreshInv
        <5> QED  BY <3>2, <3>4, <3>5, <4>1, <5>1
      <4>2. CASE s # p  BY <3>3, <3>5, <4>2
      <4> QED  BY <4>1, <4>2
    <3> QED  BY <3>7, <3>8
  <2>5. CASE Truncate(p)  BY <2>5 DEF Truncate
  <2>6. CASE Clear(p)  BY <2>6 DEF Clear
  <2>7. CASE StoreA(p)  BY <2>7 DEF StoreA
  <2>8. CASE StoreB(p)  BY <2>8 DEF StoreB
  <2>9. CASE Reset(p)  BY <2>9 DEF Reset, SemPost
  <2>10. CASE AtName(p)
    <3>1. /\ UNCHANGED <<shmName, semName, segment, bounds, sem, batch, ghosts, interrupted>>
          /\ pc' \in [Procs -> Places] /\ pc[p] \in {"open", "map"}
          /\ pc'[p] \in {"map", "failed", "killed", "rejected", "join"}
          /\ \A q \in Procs \ {p} : pc'[q] = pc[q] /\ seg'[q] = seg[q]
          /\ pc'[p] = "map" => seg'[p] = shmName /\ shmName \in Procs
          /\ pc'[p] # "map" => seg'[p] = seg[p]
          /\ pc'[p] \in {"killed", "rejected", "join"} => seg[p] \in Procs
          /\ pc'[p] \in {"map", "failed"} => seg[p] = None
          /\ pc'[p] = "join" => state[seg[p]] # "empty"
          /\ early' = early \/ (pc'[p] = "join" /\ early' = early \union {seg[p]})
      <4> HIDE DEF TypeOK, PlaceInv
      <4> QED  BY <2>10, NameSteps
    <3>2. UNCHANGED <<shmName, semName, state, sem, interrupted>>  BY <3>1
    <3>3. \A q \in Procs : /\ pc'[q] = "start" <=> pc[q] = "start"
                           /\ pc'[q] \in {"start", "wait", "create"} => pc[q] \in {"start", "wait", "create"}
                           /\ pc'[q] \in RawPlaces => pc[q] \in RawPlaces /\ seg'[q] = seg[q]
                           /\ pc'[q] = "truncate" <=> pc[q] = "truncate"
                           /\ pc'[q] = "clear" <=> pc[q] = "clear"
      BY <3>1
    <3>4. \A q \in Procs : seg'[q] = seg[q] \/ (q = p /\ seg'[p] = shmName)  BY <3>1
    <3>5. \A s \in Procs : s \in early' => s \in early \/ state[s] \notin {"none", "empty"}  BY <3>1
    <3> HIDE DEF TypeOK, PlaceInv, RawPlaces
    <3> QED  BY <3>2, <3>3, <3>4, <3>5
  <2>11. CASE AtLock(p)
    <3>1. /\ UNCHANGED <<names, state, process, interrupted, early>>
          /\ \A q \in Procs \ {p} : pc'[q] = pc[q]
          /\ pc[p] \in {"join", "look", "repair", "loop", "lock"}
          /\ pc'[p] \in {"look", "loop", "total", "sum", "ended", "repair", "dead", "asleep"}
      <4> HIDE DEF TypeOK, PlaceInv
      <4> QED  BY <2>11, LockSteps
    <3> QED  BY <3>1
  <2>12. CASE Continue(p)  BY <2>12 DEF Continue
  <2>13. CASE AddTotal(p)  BY <2>13 DEF AddTotal, JoinInv, MemberPlaces
  <2>14. CASE AddHits(p)  BY <2>14 DEF AddHits, JoinInv, MemberPlaces
  <2>15. CASE Sum(p)  BY <2>15 DEF Sum, JoinInv, MemberPlaces
  <2>16. CASE UnlinkSegment(p)  BY <2>16 DEF UnlinkSegment
  <2>17. CASE UnlinkSemaphore(p)  BY <2>17 DEF UnlinkSemaphore
  <2> QED
    BY <1>1, <2>1, <2>2, <2>3, <2>4, <2>5, <2>6, <2>7, <2>8,
       <2>9, <2>10, <2>11, <2>12, <2>13, <2>14, <2>15, <2>16, <2>17
    DEF ProcessStep, Step, AtName, AtLock
<1>2. CASE UNCHANGED vars  BY <1>2 DEF vars, names, segment, process, history
<1> QED  BY <1>1, <1>2, StepCases

\* A segment stays its creator's until it is initialised, or joined early.
LEMMA FreshStep ==
    ASSUME TypeOK, PlaceInv, NameInv, FreshInv, JoinInv, [Next]_vars
    PROVE  FreshInv'
<1> USE IntegratorAssumption
    DEF TypeOK, PlaceInv, NameInv, FreshInv, RawPlaces, Go, names, segment, process, history
<1>1. ASSUME NEW p \in Procs, ProcessStep(p) PROVE FreshInv'
  <2>1. CASE SemOpen(p)  BY <2>1 DEF SemOpen
  <2>2. CASE SemWait(p)  BY <2>2 DEF SemWait
  <2>3. CASE SemInterrupted(p)  BY <2>3 DEF SemInterrupted
  <2>4. CASE Create(p)
    <3>1. /\ UNCHANGED <<semName, semValue, procCount, total, hits, mxprocCount, mxResults, bounds,
                       sem, batch, ghosts, interrupted, early>>
          /\ pc' \in [Procs -> Places] /\ pc[p] = "create" /\ seg[p] = None
          /\ \A q \in Procs \ {p} : pc'[q] = pc[q] /\ seg'[q] = seg[q] /\ state'[q] = state[q]
          /\ \/ pc'[p] = "truncate" /\ shmName' = p /\ seg'[p] = p /\ state'[p] = "empty"
             \/ pc'[p] = "open" /\ UNCHANGED <<shmName, seg, state>>
      <4> HIDE DEF TypeOK, PlaceInv
      <4> QED  BY <2>4, CreateSteps
    <3>2. /\ state[p] = "none" /\ \A q \in Procs : seg[q] # p
          /\ pc'[p] \in RawPlaces => pc'[p] = "truncate" /\ seg'[p] = p
          /\ pc[p] \notin RawPlaces
      BY <3>1
    <3>3. \A q \in Procs \ {p} : pc'[q] = pc[q] /\ state'[q] = state[q] /\ seg'[q] = seg[q]  BY <3>1
    <3>4. seg'[p] # None => seg'[p] = p  BY <3>1
    <3>5. ASSUME NEW s \in Procs \ early, s # p
          PROVE  /\ pc'[s] = "clear" => state'[s] = "zeros"
                 /\ pc'[s] \in {"store_a", "store_b", "reset"} => state'[s] = "robust"
                 /\ pc'[s] \in RawPlaces => \A q \in Procs : seg'[q] = s => q = s \/ pc'[q] \in {"map", "killed", "rejected"}
                 /\ pc'[s] \in RawPlaces \/ state'[s] = "none" =>
                      /\ mxprocCount[s] = "free" /\ mxResults[s] = None
                      /\ total[s] = hits[s] /\ ghosts[s] = 0
                      /\ procCount[s] = IF pc'[s] \in {"store_b", "reset"} THEN 1 ELSE 0
      <4> HIDE DEF TypeOK, PlaceInv, NameInv, RawPlaces
      <4> QED  BY <3>2, <3>3, <3>4, <3>5, IntegratorAssumption
    <3>6. p \notin early =>
            /\ pc'[p] = "clear" => state'[p] = "zeros"
            /\ pc'[p] \in {"store_a", "store_b", "reset"} => state'[p] = "robust"
            /\ pc'[p] \in RawPlaces => \A q \in Procs : seg'[q] = p => q = p \/ pc'[q] \in {"map", "killed", "rejected"}
            /\ mxprocCount[p] = "free" /\ mxResults[p] = None
            /\ total[p] = hits[p] /\ ghosts[p] = 0
            /\ procCount[p] = IF pc'[p] \in {"store_b", "reset"} THEN 1 ELSE 0
      <4>1. pc'[p] \in {"truncate", "open"}  BY <3>1
      <4>2. pc[p] = "create"  BY <3>1
      <4> HIDE DEF TypeOK, PlaceInv, NameInv, RawPlaces
      <4> QED  BY <3>2, <3>3, <4>1, <4>2
    <3> HIDE DEF TypeOK, PlaceInv, NameInv, RawPlaces
    <3> QED  BY <3>1, <3>5, <3>6
  <2>5. CASE Truncate(p)  BY <2>5 DEF Truncate
  <2>6. CASE Clear(p)  BY <2>6 DEF Clear
  <2>7. CASE StoreA(p)  BY <2>7 DEF StoreA
  <2>8. CASE StoreB(p)  BY <2>8 DEF StoreB
  <2>9. CASE Reset(p)  BY <2>9 DEF Reset, SemPost
  <2>10. CASE AtName(p)
    <3>1. /\ UNCHANGED <<shmName, semName, segment, bounds, sem, batch, ghosts, interrupted>>
          /\ pc' \in [Procs -> Places] /\ pc[p] \in {"open", "map"}
          /\ pc'[p] \in {"map", "failed", "killed", "rejected", "join"}
          /\ \A q \in Procs \ {p} : pc'[q] = pc[q] /\ seg'[q] = seg[q]
          /\ pc'[p] = "map" => seg'[p] = shmName /\ shmName \in Procs
          /\ pc'[p] # "map" => seg'[p] = seg[p]
          /\ pc'[p] \in {"killed", "rejected", "join"} => seg[p] \in Procs
          /\ pc'[p] \in {"map", "failed"} => seg[p] = None
          /\ early \subseteq early'
          /\ pc'[p] = "join" /\ pc[seg[p]] \in RawPlaces => seg[p] \in early'
      <4> HIDE DEF TypeOK, PlaceInv
      <4> QED  BY <2>10, NameSteps
    <3>2. /\ \A q \in Procs : pc'[q] \in RawPlaces \/ pc[q] \in RawPlaces => q # p /\ pc'[q] = pc[q]
          /\ pc'[p] = "map" => state[shmName] # "none"
      BY <3>1
    <3>3. ASSUME NEW s \in Procs \ early', pc[s] \in RawPlaces, NEW q \in Procs, seg'[q] = s, q # s
          PROVE  pc'[q] \in {"map", "killed", "rejected"}
      <4>1. CASE q # p  BY <3>1, <3>3, <4>1
      <4>2. CASE q = p  BY <3>1, <3>3, <4>2
      <4> QED  BY <4>1, <4>2
    <3>4. \A s \in Procs : pc'[s] \in {"store_b", "reset"} <=> pc[s] \in {"store_b", "reset"}  BY <3>1
    <3>5. \A s \in Procs : /\ pc'[s] = "clear" => pc[s] = "clear"
                           /\ pc'[s] \in {"store_a", "store_b", "reset"} => pc[s] \in {"store_a", "store_b", "reset"}
      BY <3>1
    <3> HIDE DEF TypeOK, PlaceInv, NameInv, RawPlaces
    <3> QED  BY <3>1, <3>2, <3>3, <3>4, <3>5
  <2>11. CASE AtLock(p)
    <3>1. /\ UNCHANGED <<names, state, process, interrupted, early>>
          /\ \A q \in Procs \ {p} : pc'[q] = pc[q]
          /\ pc[p] \in {"join", "look", "repair", "loop", "lock"}
          /\ pc'[p] \in {"look", "loop", "total", "sum", "ended", "repair", "dead", "asleep"}
          /\ pc[p] \in MemberPlaces /\ UNCHANGED <<total, hits>>
          /\ \A s \in Procs \ {seg[p]} :
               /\ procCount'[s] = procCount[s] /\ mxprocCount'[s] = mxprocCount[s]
               /\ mxResults'[s] = mxResults[s] /\ ghosts'[s] = ghosts[s]
      <4> HIDE DEF TypeOK, PlaceInv
      <4> QED  BY <2>11, LockSteps
    <3>2. \A s \in Procs \ early : pc[s] \in RawPlaces \/ state[s] = "none" => s # seg[p]
      BY <3>1 DEF JoinInv
    <3>3. /\ \A q \in Procs : pc'[q] \in RawPlaces \/ pc[q] \in RawPlaces => q # p /\ pc'[q] = pc[q]
          /\ pc[p] \notin {"map", "killed", "rejected"}
      BY <3>1
    <3>4. \A s \in Procs \ early : pc'[s] \in RawPlaces \/ state[s] = "none" =>
             /\ pc[s] \in RawPlaces \/ state[s] = "none"
             /\ procCount'[s] = procCount[s] /\ mxprocCount'[s] = mxprocCount[s]
             /\ mxResults'[s] = mxResults[s] /\ ghosts'[s] = ghosts[s]
             /\ pc'[s] \in {"store_b", "reset"} <=> pc[s] \in {"store_b", "reset"}
      BY <3>1, <3>2, <3>3
    <3>5. \A s \in Procs \ early : pc[s] \in RawPlaces => seg[p] # s  BY <3>2
    <3>6. ASSUME NEW s \in Procs \ early
          PROVE  /\ pc'[s] = "clear" => state[s] = "zeros"
                 /\ pc'[s] \in {"store_a", "store_b", "reset"} => state[s] = "robust"
                 /\ pc'[s] \in RawPlaces => \A q \in Procs : seg[q] = s => q = s \/ pc'[q] \in {"map", "killed", "rejected"}
      <4>1. /\ pc'[s] = "clear" => pc[s] = "clear"
            /\ pc'[s] \in {"store_a", "store_b", "reset"} => pc[s] \in {"store_a", "store_b", "reset"}
        BY <3>1
      <4> HIDE DEF TypeOK, PlaceInv, NameInv, RawPlaces
      <4> QED  BY <3>1, <3>3, <3>5, <4>1
    <3> HIDE DEF TypeOK, PlaceInv, NameInv, RawPlaces
    <3> QED  BY <3>1, <3>4, <3>6
  <2>12. CASE Continue(p)  BY <2>12 DEF Continue
  <2>13. CASE AddTotal(p)  BY <2>13 DEF AddTotal, JoinInv, MemberPlaces
  <2>14. CASE AddHits(p)  BY <2>14 DEF AddHits, JoinInv, MemberPlaces
  <2>15. CASE Sum(p)  BY <2>15 DEF Sum, JoinInv, MemberPlaces
  <2>16. CASE UnlinkSegment(p)  BY <2>16 DEF UnlinkSegment
  <2>17. CASE UnlinkSemaphore(p)  BY <2>17 DEF UnlinkSemaphore
  <2> QED
    BY <1>1, <2>1, <2>2, <2>3, <2>4, <2>5, <2>6, <2>7, <2>8,
       <2>9, <2>10, <2>11, <2>12, <2>13, <2>14, <2>15, <2>16, <2>17
    DEF ProcessStep, Step, AtName, AtLock
<1>2. CASE UNCHANGED vars  BY <1>2 DEF vars, names, segment, process, history
<1> QED  BY <1>1, <1>2, StepCases

\* Every step keeps the semaphores exclusive: only a new one starts with value 1.
LEMMA SemStep ==
    ASSUME TypeOK, PlaceInv, NameInv, SemInv, [Next]_vars
    PROVE  SemInv'
<1> USE IntegratorAssumption
    DEF TypeOK, PlaceInv, NameInv, SemInv, Critical, Sound, RawPlaces, Go, names, segment, process, history
<1>1. ASSUME NEW p \in Procs, ProcessStep(p) PROVE SemInv'
  <2>1. CASE SemOpen(p)
    <3>1. CASE semName = None  BY <2>1, <3>1 DEF SemOpen
    <3>2. CASE semName # None  BY <2>1, <3>2 DEF SemOpen
    <3> QED  BY <3>1, <3>2
  <2>2. CASE SemWait(p)  BY <2>2 DEF SemWait
  <2>3. CASE SemInterrupted(p)  BY <2>3 DEF SemInterrupted
  <2>4. CASE Create(p)
    <3>1. /\ UNCHANGED <<semName, semValue, procCount, total, hits, mxprocCount, mxResults, bounds,
                       sem, batch, ghosts, interrupted, early>>
          /\ pc' \in [Procs -> Places] /\ pc[p] = "create" /\ seg[p] = None
          /\ \A q \in Procs \ {p} : pc'[q] = pc[q] /\ seg'[q] = seg[q] /\ state'[q] = state[q]
          /\ \/ pc'[p] = "truncate" /\ shmName' = p /\ seg'[p] = p /\ state'[p] = "empty"
             \/ pc'[p] = "open" /\ UNCHANGED <<shmName, seg, state>>
      <4> HIDE DEF TypeOK, PlaceInv
      <4> QED  BY <2>4, CreateSteps
    <3> QED  BY <3>1
  <2>5. CASE Truncate(p)  BY <2>5 DEF Truncate
  <2>6. CASE Clear(p)  BY <2>6 DEF Clear
  <2>7. CASE StoreA(p)  BY <2>7 DEF StoreA
  <2>8. CASE StoreB(p)  BY <2>8 DEF StoreB
  <2>9. CASE Reset(p)  BY <2>9 DEF Reset, SemPost
  <2>10. CASE AtName(p)
    <3>1. /\ UNCHANGED <<shmName, semName, segment, bounds, sem, batch, ghosts, interrupted>>
          /\ pc' \in [Procs -> Places] /\ pc[p] \in {"open", "map"}
          /\ pc'[p] \in {"map", "failed", "killed", "rejected", "join"}
          /\ \A q \in Procs \ {p} : pc'[q] = pc[q] /\ seg'[q] = seg[q]
          /\ pc'[p] \in {"map", "killed"} => semValue' = semValue
          /\ pc'[p] \in {"failed", "rejected", "join"} => SemPost(p)
      <4> HIDE DEF TypeOK, PlaceInv
      <4> QED  BY <2>10, NameSteps
    <3>2. sem[p] \in Procs  BY <3>1
    <3>3. CASE pc'[p] \in {"map", "killed"}  BY <3>1, <3>3
    <3>4. CASE pc'[p] \in {"failed", "rejected", "join"}
      <4>1. /\ semValue'[sem[p]] = semValue[sem[p]] + 1
            /\ \A m \in Procs \ {sem[p]} : semValue'[m] = semValue[m]
        BY <3>1, <3>2, <3>4 DEF SemPost
      <4>2. /\ UNCHANGED <<sem, interrupted>> /\ Critical(p)
            /\ \A q \in Procs : Critical(q)' => q # p /\ Critical(q)
        BY <3>1, <3>4
      <4>3. Sound(sem[p]) => /\ semValue'[sem[p]] = 1
                             /\ \A q \in Procs : Critical(q)' => sem[q] # sem[p]
        BY <3>2, <4>1, <4>2
      <4>4. \A q \in Procs : Critical(q) => sem[q] \in Procs  BY IntegratorAssumption
      <4> HIDE DEF TypeOK, PlaceInv, NameInv, Critical
      <4> QED  BY <3>2, <4>1, <4>2, <4>3, <4>4
    <3> QED  BY <3>1, <3>3, <3>4
  <2>11. CASE AtLock(p)
    <3>1. /\ UNCHANGED <<names, state, process, interrupted, early>>
          /\ \A q \in Procs \ {p} : pc'[q] = pc[q]
          /\ pc[p] \in {"join", "look", "repair", "loop", "lock"}
          /\ pc'[p] \in {"look", "loop", "total", "sum", "ended", "repair", "dead", "asleep"}
      <4> HIDE DEF TypeOK, PlaceInv
      <4> QED  BY <2>11, LockSteps
    <3> QED  BY <3>1
  <2>12. CASE Continue(p)  BY <2>12 DEF Continue
  <2>13. CASE AddTotal(p)  BY <2>13 DEF AddTotal
  <2>14. CASE AddHits(p)  BY <2>14 DEF AddHits
  <2>15. CASE Sum(p)  BY <2>15 DEF Sum
  <2>16. CASE UnlinkSegment(p)  BY <2>16 DEF UnlinkSegment
  <2>17. CASE UnlinkSemaphore(p)  BY <2>17 DEF UnlinkSemaphore
  <2> QED
    BY <1>1, <2>1, <2>2, <2>3, <2>4, <2>5, <2>6, <2>7, <2>8,
       <2>9, <2>10, <2>11, <2>12, <2>13, <2>14, <2>15, <2>16, <2>17
    DEF ProcessStep, Step, AtName, AtLock
<1>2. CASE UNCHANGED vars  BY <1>2 DEF vars, names, segment, process, history
<1> QED  BY <1>1, <1>2, StepCases

\* Every step keeps the segments of the members initialised, with their bounds.
LEMMA JoinStep ==
    ASSUME TypeOK, PlaceInv, NameInv, FreshInv, JoinInv, [Next]_vars
    PROVE  JoinInv'
<1> USE IntegratorAssumption
    DEF TypeOK, PlaceInv, NameInv, FreshInv, JoinInv, RawPlaces, Go, names, segment, process, history
<1>1. ASSUME NEW p \in Procs, ProcessStep(p) PROVE JoinInv'
  <2>1. CASE SemOpen(p)  BY <2>1 DEF SemOpen, MemberPlaces
  <2>2. CASE SemWait(p)  BY <2>2 DEF SemWait, MemberPlaces
  <2>3. CASE SemInterrupted(p)  BY <2>3 DEF SemInterrupted, MemberPlaces
  <2>4. CASE Create(p)
    <3>1. /\ UNCHANGED <<semName, semValue, procCount, total, hits, mxprocCount, mxResults, bounds,
                       sem, batch, ghosts, interrupted, early>>
          /\ pc' \in [Procs -> Places] /\ pc[p] = "create" /\ seg[p] = None
          /\ \A q \in Procs \ {p} : pc'[q] = pc[q] /\ seg'[q] = seg[q] /\ state'[q] = state[q]
          /\ \/ pc'[p] = "truncate" /\ shmName' = p /\ seg'[p] = p /\ state'[p] = "empty"
             \/ pc'[p] = "open" /\ UNCHANGED <<shmName, seg, state>>
      <4> HIDE DEF TypeOK, PlaceInv
      <4> QED  BY <2>4, CreateSteps
    <3>2. /\ \A q \in Procs : pc'[q] \in MemberPlaces => q # p /\ pc[q] \in MemberPlaces
          /\ \A q \in Procs : pc[q] \in MemberPlaces => seg[q] \in Procs
          /\ \A q \in Procs : pc'[q] \in RawPlaces => q = p \/ pc[q] \in RawPlaces
      <4> HIDE DEF NameInv, FreshInv, JoinInv
      <4> QED  BY <3>1 DEF MemberPlaces
    <3>3. \A q \in Procs : seg[q] # p  BY <3>1
    <3> HIDE DEF TypeOK, PlaceInv, NameInv, FreshInv, RawPlaces
    <3> QED  BY <3>1, <3>2, <3>3
  <2>5. CASE Truncate(p)  BY <2>5 DEF Truncate, MemberPlaces
  <2>6. CASE Clear(p)  BY <2>6 DEF Clear, MemberPlaces
  <2>7. CASE StoreA(p)  BY <2>7 DEF StoreA, MemberPlaces
  <2>8. CASE StoreB(p)  BY <2>8 DEF StoreB, MemberPlaces
  <2>9. CASE Reset(p)  BY <2>9 DEF Reset, SemPost, MemberPlaces
  <2>10. CASE AtName(p)
    <3> HIDE DEF TypeOK, PlaceInv, RawPlaces, MemberPlaces
    <3>1. /\ UNCHANGED <<segment, bounds>>
          /\ \A q \in Procs \ {p} : pc'[q] = pc[q] /\ seg'[q] = seg[q]
          /\ pc[p] \in {"open", "map"} /\ pc'[p] \in {"map", "failed", "killed", "rejected", "join"}
          /\ early \subseteq early'
      BY <2>10, NameSteps
    <3>2. pc'[p] = "join" =>
            /\ seg'[p] = seg[p] /\ seg[p] \in Procs
            /\ state[seg[p]] # "empty" /\ BoundsOf(seg[p]) = bounds[p]
            /\ pc[seg[p]] \in RawPlaces => seg[p] \in early'
      BY <2>10, NameSteps
    <3>3. /\ \A q \in Procs : pc'[q] \in RawPlaces <=> pc[q] \in RawPlaces
          /\ \A q \in Procs : pc'[q] \in MemberPlaces =>
               (q # p /\ pc[q] \in MemberPlaces) \/ (q = p /\ pc'[p] = "join")
      BY <3>1 DEF RawPlaces, MemberPlaces
    <3>4. pc'[p] = "join" /\ seg[p] \notin early' =>
            state[seg[p]] \in {"robust", "destroyed"} /\ bounds[p] = bounds[seg[p]]
      <4>1. ASSUME NEW s \in Procs, pc[s] \notin RawPlaces
            PROVE  BoundsOf(s) = bounds[s]
        BY <4>1 DEF TypeOK, BoundsOf, Raw, RawPlaces
      <4>2. pc'[p] = "join" => state[seg[p]] # "none"  BY <3>2 DEF NameInv
      <4>3. pc'[p] = "join" /\ seg[p] \notin early' => state[seg[p]] # "zeros"
        BY <3>2 DEF NameInv, RawPlaces
      <4> QED  BY <3>2, <4>1, <4>2, <4>3 DEF TypeOK
    <3>5. \A q \in Procs : pc[q] \in MemberPlaces => seg[q] \in Procs
      BY DEF MemberPlaces, TypeOK, PlaceInv
    <3> HIDE DEF NameInv, FreshInv
    <3> QED  BY <3>1, <3>2, <3>3, <3>4, <3>5
  <2>11. CASE AtLock(p)
    <3>1. /\ UNCHANGED <<state, process, early>>
          /\ \A q \in Procs : /\ pc'[q] \in RawPlaces <=> pc[q] \in RawPlaces
                              /\ pc'[q] \in MemberPlaces => pc[q] \in MemberPlaces
      <4> HIDE DEF TypeOK, PlaceInv
      <4> QED  BY <2>11, LockSteps
    <3>2. \A q \in Procs : pc[q] \in MemberPlaces => seg[q] \in Procs
      <4> HIDE DEF NameInv, FreshInv, JoinInv, RawPlaces
      <4> QED  BY DEF MemberPlaces
    <3> HIDE DEF TypeOK, PlaceInv, NameInv, FreshInv, RawPlaces, MemberPlaces
    <3> QED  BY <3>1, <3>2
  <2>12. CASE Continue(p)  BY <2>12 DEF Continue, MemberPlaces
  <2>13. CASE AddTotal(p)  BY <2>13 DEF AddTotal, MemberPlaces
  <2>14. CASE AddHits(p)  BY <2>14 DEF AddHits, MemberPlaces
  <2>15. CASE Sum(p)  BY <2>15 DEF Sum, MemberPlaces
  <2>16. CASE UnlinkSegment(p)  BY <2>16 DEF UnlinkSegment, MemberPlaces
  <2>17. CASE UnlinkSemaphore(p)  BY <2>17 DEF UnlinkSemaphore, MemberPlaces
  <2> QED
    BY <1>1, <2>1, <2>2, <2>3, <2>4, <2>5, <2>6, <2>7, <2>8,
       <2>9, <2>10, <2>11, <2>12, <2>13, <2>14, <2>15, <2>16, <2>17
    DEF ProcessStep, Step, AtName, AtLock
<1>2. CASE UNCHANGED vars  BY <1>2 DEF vars, names, segment, process, history
<1> QED  BY <1>1, <1>2, StepCases

\* mxResults passes only to who goes inside or dies there.
LEMMA OwnerStep ==
    ASSUME TypeOK, PlaceInv, NameInv, FreshInv, JoinInv, OwnerInv, [Next]_vars
    PROVE  OwnerInv'
<1> USE IntegratorAssumption
    DEF TypeOK, PlaceInv, NameInv, FreshInv, OwnerInv, Dead, Inside, RawPlaces, Go, names, segment, process, history
<1>1. ASSUME NEW p \in Procs, ProcessStep(p) PROVE OwnerInv'
  <2>1. CASE SemOpen(p)  BY <2>1 DEF SemOpen
  <2>2. CASE SemWait(p)  BY <2>2 DEF SemWait
  <2>3. CASE SemInterrupted(p)  BY <2>3 DEF SemInterrupted
  <2>4. CASE Create(p)
    <3>1. /\ UNCHANGED <<semName, semValue, procCount, total, hits, mxprocCount, mxResults, bounds,
                       sem, batch, ghosts, interrupted, early>>
          /\ pc' \in [Procs -> Places] /\ pc[p] = "create" /\ seg[p] = None
          /\ \A q \in Procs \ {p} : pc'[q] = pc[q] /\ seg'[q] = seg[q] /\ state'[q] = state[q]
          /\ \/ pc'[p] = "truncate" /\ shmName' = p /\ seg'[p] = p /\ state'[p] = "empty"
             \/ pc'[p] = "open" /\ UNCHANGED <<shmName, seg, state>>
      <4> HIDE DEF TypeOK, PlaceInv
      <4> QED  BY <2>4, CreateSteps
    <3>2. \A s \in Procs \ early : mxResults[s] # p  BY <3>1
    <3> QED  BY <3>1, <3>2
  <2>5. CASE Truncate(p)  BY <2>5 DEF Truncate
  <2>6. CASE Clear(p)  BY <2>6 DEF Clear
  <2>7. CASE StoreA(p)  BY <2>7 DEF StoreA
  <2>8. CASE StoreB(p)  BY <2>8 DEF StoreB
  <2>9. CASE Reset(p)  BY <2>9 DEF Reset, SemPost
  <2>10. CASE AtName(p)
    <3>1. /\ UNCHANGED <<shmName, semName, segment, bounds, sem, batch, ghosts, interrupted>>
          /\ pc' \in [Procs -> Places] /\ pc[p] \in {"open", "map"}
          /\ pc'[p] \in {"map", "failed", "killed", "rejected", "join"}
          /\ \A q \in Procs \ {p} : pc'[q] = pc[q] /\ seg'[q] = seg[q]
          /\ pc'[p] = "map" => seg'[p] = shmName /\ shmName \in Procs
          /\ pc'[p] # "map" => seg'[p] = seg[p]
          /\ pc'[p] \in {"killed", "rejected", "join"} => seg[p] \in Procs
          /\ pc'[p] \in {"map", "failed"} => seg[p] = None
          /\ early \subseteq early'
          /\ pc'[p] = "join" /\ pc[seg[p]] \in RawPlaces => seg[p] \in early'
      <4> HIDE DEF TypeOK, PlaceInv
      <4> QED  BY <2>10, NameSteps
    <3>2. \A s \in Procs \ early : mxResults[s] # p  BY <3>1
    <3> QED  BY <3>1, <3>2
  <2>11. CASE AtLock(p)
    <3>1. /\ UNCHANGED <<names, state, process, interrupted, early>>
          /\ \A q \in Procs \ {p} : pc'[q] = pc[q]
          /\ pc[p] \in {"join", "look", "repair", "loop", "lock"}
          /\ pc'[p] \in {"look", "loop", "total", "sum", "ended", "repair", "dead", "asleep"}
          /\ pc[p] \in MemberPlaces
          /\ pc'[p] = "asleep" => state[seg[p]] = "zeros"
          /\ pc'[p] \in {"total", "repair"} => pc[p] \in {"lock", "repair"}
          /\ \/ /\ mxResults' = mxResults
                /\ pc[p] = "lock" => pc'[p] = "asleep" \/ state[seg[p]] = "destroyed"
             \/ /\ mxResults' = [mxResults EXCEPT ![seg[p]] = p]
                /\ pc[p] = "lock" /\ pc'[p] \in {"total", "dead", "repair"}
                /\ mxResults[seg[p]] = None \/ Dead(mxResults[seg[p]])
          /\ pc[p] = "repair" => pc'[p] \in {"total", "dead", "asleep"}
      <4> HIDE DEF TypeOK, PlaceInv
      <4> QED  BY <2>11, LockSteps
    <3>2. seg[p] \in Procs  BY <3>1
    <3>3. seg[p] \notin early => state[seg[p]] # "zeros" /\ pc'[p] # "asleep"  BY <3>1 DEF JoinInv
    <3>4. ASSUME NEW s \in Procs \ early, mxResults'[s] # None
          PROVE  \E o \in Procs : /\ mxResults'[s] = o /\ seg[o] = s
                                  /\ pc'[o] \in {"repair", "total", "hits", "dead"}
      <4>1. CASE mxResults'[s] = mxResults[s]
        <5>1. PICK o \in Procs : /\ mxResults[s] = o /\ seg[o] = s
                                 /\ pc[o] \in {"repair", "total", "hits", "dead"}
          BY <3>4, <4>1
        <5>2. o = p => pc'[p] \in {"total", "dead"}  BY <3>1, <3>3, <3>4, <5>1
        <5>3. o # p => pc'[o] = pc[o]  BY <3>1
        <5> QED  BY <4>1, <5>1, <5>2, <5>3
      <4>2. CASE mxResults'[s] # mxResults[s]
        <5>1. mxResults'[s] = p /\ seg[p] = s /\ pc'[p] \in {"total", "dead", "repair"}
          BY <3>1, <3>2, <4>2
        <5> QED  BY <5>1
      <4> QED  BY <4>1, <4>2
    <3>5. seg' = seg /\ early' = early  BY <3>1
    <3> HIDE DEF PlaceInv, NameInv, FreshInv, TypeOK
    <3> QED  BY <3>4, <3>5
  <2>12. CASE Continue(p)  BY <2>12 DEF Continue
  <2>13. CASE AddTotal(p)  BY <2>13 DEF AddTotal, JoinInv, MemberPlaces
  <2>14. CASE AddHits(p)  BY <2>14 DEF AddHits, JoinInv, MemberPlaces
  <2>15. CASE Sum(p)  BY <2>15 DEF Sum, JoinInv, MemberPlaces
  <2>16. CASE UnlinkSegment(p)  BY <2>16 DEF UnlinkSegment
  <2>17. CASE UnlinkSemaphore(p)  BY <2>17 DEF UnlinkSemaphore
  <2> QED
    BY <1>1, <2>1, <2>2, <2>3, <2>4, <2>5, <2>6, <2>7, <2>8,
       <2>9, <2>10, <2>11, <2>12, <2>13, <2>14, <2>15, <2>16, <2>17
    DEF ProcessStep, Step, AtName, AtLock
<1>2. CASE UNCHANGED vars  BY <1>2 DEF vars, names, segment, process, history
<1> QED  BY <1>1, <1>2, StepCases

\* Every step keeps the additions under mxResults one at a time.
LEMMA ReportStep ==
    ASSUME TypeOK, PlaceInv, NameInv, FreshInv, JoinInv, OwnerInv, ReportInv, [Next]_vars
    PROVE  ReportInv'
<1> USE IntegratorAssumption
    DEF TypeOK, PlaceInv, NameInv, FreshInv, OwnerInv, ReportInv, Dead, Inside, RawPlaces, Go, names, segment, process, history
<1>1. ASSUME NEW p \in Procs, ProcessStep(p) PROVE ReportInv'
  <2>1. CASE SemOpen(p)  BY <2>1 DEF SemOpen
  <2>2. CASE SemWait(p)  BY <2>2 DEF SemWait
  <2>3. CASE SemInterrupted(p)  BY <2>3 DEF SemInterrupted
  <2>4. CASE Create(p)
    <3>1. /\ UNCHANGED <<semName, semValue, procCount, total, hits, mxprocCount, mxResults, bounds,
                       sem, batch, ghosts, interrupted, early>>
          /\ pc' \in [Procs -> Places] /\ pc[p] = "create" /\ seg[p] = None
          /\ \A q \in Procs \ {p} : pc'[q] = pc[q] /\ seg'[q] = seg[q] /\ state'[q] = state[q]
          /\ \/ pc'[p] = "truncate" /\ shmName' = p /\ seg'[p] = p /\ state'[p] = "empty"
             \/ pc'[p] = "open" /\ UNCHANGED <<shmName, seg, state>>
      <4> HIDE DEF TypeOK, PlaceInv
      <4> QED  BY <2>4, CreateSteps
    <3>2. \A s \in Procs \ early : mxResults[s] # p  BY <3>1
    <3> QED  BY <3>1, <3>2
  <2>5. CASE Truncate(p)  BY <2>5 DEF Truncate
  <2>6. CASE Clear(p)  BY <2>6 DEF Clear
  <2>7. CASE StoreA(p)  BY <2>7 DEF StoreA
  <2>8. CASE StoreB(p)  BY <2>8 DEF StoreB
  <2>9. CASE Reset(p)  BY <2>9 DEF Reset, SemPost
  <2>10. CASE AtName(p)
    <3>1. /\ UNCHANGED <<shmName, semName, segment, bounds, sem, batch, ghosts, interrupted>>
          /\ pc' \in [Procs -> Places] /\ pc[p] \in {"open", "map"}
          /\ pc'[p] \in {"map", "failed", "killed", "rejected", "join"}
          /\ \A q \in Procs \ {p} : pc'[q] = pc[q] /\ seg'[q] = seg[q]
          /\ pc'[p] = "map" => seg'[p] = shmName /\ shmName \in Procs
          /\ pc'[p] # "map" => seg'[p] = seg[p]
          /\ pc'[p] \in {"killed", "rejected", "join"} => seg[p] \in Procs
          /\ pc'[p] \in {"map", "failed"} => seg[p] = None
          /\ early \subseteq early'
          /\ pc'[p] = "join" /\ pc[seg[p]] \in RawPlaces => seg[p] \in early'
      <4> HIDE DEF TypeOK, PlaceInv
      <4> QED  BY <2>10, NameSteps
    <3>2. \A s \in Procs \ early : mxResults[s] # p  BY <3>1
    <3> QED  BY <3>1, <3>2
  <2>11. CASE AtLock(p)
    <3>1. /\ UNCHANGED <<names, state, process, interrupted, early>>
          /\ \A q \in Procs \ {p} : pc'[q] = pc[q]
          /\ pc[p] \in {"join", "look", "repair", "loop", "lock"}
          /\ pc'[p] \in {"look", "loop", "total", "sum", "ended", "repair", "dead", "asleep"}
          /\ pc[p] \in MemberPlaces
          /\ pc'[p] = "asleep" => state[seg[p]] = "zeros"
          /\ pc'[p] \in {"total", "repair"} => pc[p] \in {"lock", "repair"}
          /\ \/ /\ mxResults' = mxResults
                /\ pc[p] = "lock" => pc'[p] = "asleep" \/ state[seg[p]] = "destroyed"
             \/ /\ mxResults' = [mxResults EXCEPT ![seg[p]] = p]
                /\ pc[p] = "lock" /\ pc'[p] \in {"total", "dead", "repair"}
                /\ mxResults[seg[p]] = None \/ Dead(mxResults[seg[p]])
          /\ pc[p] = "repair" => pc'[p] \in {"total", "dead", "asleep"}
          /\ UNCHANGED <<total, hits>>
      <4> HIDE DEF TypeOK, PlaceInv
      <4> QED  BY <2>11, LockSteps
    <3>2. seg[p] \in Procs  BY <3>1
    <3>3. seg[p] \notin early => state[seg[p]] # "zeros" /\ pc'[p] # "asleep"  BY <3>1 DEF JoinInv
    <3>4. ASSUME NEW s \in Procs \ early, state[s] # "destroyed"
          PROVE  /\ \A q \in Procs : seg[q] = s /\ Inside(q)' => mxResults'[s] = q
                 /\ total[s] = hits[s] + IF mxResults'[s] # None /\ pc'[mxResults'[s]] = "hits" THEN 1 ELSE 0
      <4>1. /\ \A q \in Procs : seg[q] = s /\ Inside(q) => mxResults[s] = q
            /\ total[s] = hits[s] + IF mxResults[s] # None /\ pc[mxResults[s]] = "hits" THEN 1 ELSE 0
            /\ mxResults[s] \in Procs \union {None}
        BY <3>4
      <4>2. CASE mxResults' = mxResults
        <5>1. seg[p] = s => pc[p] # "lock"  BY <3>1, <3>3, <3>4, <4>2
        <5>2. seg[p] = s => (Inside(p)' => Inside(p))  BY <3>1, <5>1
        <5>3. mxResults[s] = p => pc[p] # "hits" /\ pc'[p] # "hits"  BY <3>1
        <5> HIDE DEF TypeOK, OwnerInv, ReportInv
        <5> QED  BY <3>1, <4>1, <4>2, <5>2, <5>3
      <4>3. CASE /\ mxResults' = [mxResults EXCEPT ![seg[p]] = p]
                 /\ pc[p] = "lock" /\ pc'[p] \in {"total", "dead", "repair"}
                 /\ mxResults[seg[p]] = None \/ Dead(mxResults[seg[p]])
        <5>1. CASE seg[p] = s
          <6>1. mxResults'[s] = p  BY <4>3, <5>1
          <6>2. mxResults[s] # None => pc[mxResults[s]] = "dead"  BY <4>3, <5>1
          <6>3. \A q \in Procs : seg[q] = s => ~Inside(q)  BY <4>1, <6>2, IntegratorAssumption
          <6>4. \A q \in Procs \ {p} : Inside(q)' <=> Inside(q)  BY <3>1
          <6> HIDE DEF TypeOK, OwnerInv, ReportInv, Inside
          <6> QED  BY <4>1, <4>3, <6>1, <6>2, <6>3, <6>4
        <5>2. CASE seg[p] # s
          <6>1. mxResults'[s] = mxResults[s]  BY <4>3, <5>2
          <6>2. mxResults[s] # p  BY <3>4, <5>2, IntegratorAssumption DEF OwnerInv
          <6>3. \A q \in Procs \ {p} : Inside(q)' <=> Inside(q)  BY <3>1
          <6> HIDE DEF TypeOK, OwnerInv, ReportInv, Inside
          <6> QED  BY <3>1, <4>1, <5>2, <6>1, <6>2, <6>3
        <5> QED  BY <5>1, <5>2
      <4> HIDE DEF TypeOK, OwnerInv, ReportInv, Inside
      <4> QED  BY <3>1, <4>2, <4>3
    <3> HIDE DEF PlaceInv, NameInv, FreshInv, TypeOK, OwnerInv, Inside
    <3> QED  BY <3>1, <3>4
  <2>12. CASE Continue(p)  BY <2>12 DEF Continue
  <2>13. CASE AddTotal(p)  BY <2>13 DEF AddTotal, JoinInv, MemberPlaces
  <2>14. CASE AddHits(p)  BY <2>14 DEF AddHits, JoinInv, MemberPlaces
  <2>15. CASE Sum(p)  BY <2>15 DEF Sum, JoinInv, MemberPlaces
  <2>16. CASE UnlinkSegment(p)  BY <2>16 DEF UnlinkSegment
  <2>17. CASE UnlinkSemaphore(p)  BY <2>17 DEF UnlinkSemaphore
  <2> QED
    BY <1>1, <2>1, <2>2, <2>3, <2>4, <2>5, <2>6, <2>7, <2>8,
       <2>9, <2>10, <2>11, <2>12, <2>13, <2>14, <2>15, <2>16, <2>17
    DEF ProcessStep, Step, AtName, AtLock
<1>2. CASE UNCHANGED vars  BY <1>2 DEF vars, names, segment, process, history
<1> QED  BY <1>1, <1>2, StepCases

-----------------------------------------------------------------------------
(* The count. *)

\* A step of p counts right on segment s, which nobody has joined early: what it adds to the tally
\* is what it adds to the members.
CountsRight(p, s) ==
    /\ \A q \in Procs \ {p} : IsMember(q, s)' = IsMember(q, s)
    /\ Tally(s)' = Tally(s) + One(IsMember(p, s)') - One(IsMember(p, s))
    /\ state'[s] # "destroyed" => state[s] # "destroyed"
    /\ s \notin early

\* Steps that count right keep the count.
LEMMA CountKept ==
    ASSUME TypeOK, TypeOK', CountInv, NEW p \in Procs,
           \A s \in Procs \ early' : state'[s] # "destroyed" => CountsRight(p, s)
    PROVE  CountInv'
<1> SUFFICES ASSUME NEW s \in Procs \ early', state'[s] # "destroyed"
             PROVE  Tally(s)' = Cardinality(Members(s)')
  BY DEF CountInv
<1>1. Tally(s) = Cardinality(Members(s))  BY DEF CountInv, CountsRight
<1>2. IsFiniteSet(Members(s)) /\ Cardinality(Members(s)) \in Nat
  BY IntegratorAssumption, FS_Subset, FS_CardinalityType DEF Members
<1>3. CASE IsMember(p, s)' <=> IsMember(p, s)
  <2>1. Members(s)' = Members(s)  BY <1>3 DEF Members, CountsRight
  <2>2. Tally(s)' = Tally(s)  BY <1>1, <1>2, <1>3 DEF CountsRight, One
  <2> QED  BY <1>1, <2>1, <2>2
<1>4. CASE IsMember(p, s)' /\ ~IsMember(p, s)
  <2>1. Members(s)' = Members(s) \union {p} /\ p \notin Members(s)
    BY <1>4 DEF Members, CountsRight
  <2>2. Tally(s)' = Tally(s) + 1  BY <1>1, <1>2, <1>4 DEF CountsRight, One
  <2> QED  BY <1>1, <1>2, <2>1, <2>2, FS_AddElement
<1>5. CASE ~(IsMember(p, s)') /\ IsMember(p, s)
  <2>1. Members(s)' = Members(s) \ {p} /\ p \in Members(s)
    BY <1>5 DEF Members, CountsRight
  <2>2. Tally(s)' = Tally(s) - 1  BY <1>1, <1>2, <1>5 DEF CountsRight, One
  <2> QED  BY <1>1, <1>2, <2>1, <2>2, FS_RemoveElement
<1> QED  BY <1>3, <1>4, <1>5

\* The owner of mxResults is dead, or was found dead and is still to be counted.
Unmourned(s) == mxResults[s] # None /\ pc[mxResults[s]] \in {"dead", "repair"}

\* Each section under mxprocCount counts right, whether a death is found in it or happens.
LEMMA SectionCounts ==
    ASSUME TypeOK, TypeOK', PlaceInv, JoinInv, OwnerInv, ReportInv, NEW p \in Procs,
           pc[p] \in {"join", "look", "repair", "loop"}, NEW d \in Int, NEW place,
           pc[p] = "join"   => d = 1  /\ place = "look",
           pc[p] = "look"   => d = 0  /\ place = "loop",
           pc[p] = "repair" => d = -1 /\ place = "total",
           pc[p] = "loop"   => d = -1 /\ place \in {"sum", "ended"},
           CountSection(p, d, place), CountOnly, NEW s \in Procs \ early', state'[s] # "destroyed"
    PROVE  CountsRight(p, s)
<1> DEFINE w == One(mxprocCount[s] = "dead")
           u == One(Unmourned(s))
           n == One(IsMember(p, s))
<1>a. /\ seg' = seg /\ state' = state /\ mxResults' = mxResults /\ state[s] # "destroyed"
      /\ seg[p] \in Procs /\ s \notin early
  BY DEF CountOnly, process, TypeOK, PlaceInv
<1>b. \E after \in {place, "dead", "asleep"} : pc' = [pc EXCEPT ![p] = after]
  BY DEF CountSection, DieCounting, Sleep, Go
<1>c. /\ \A q \in Procs \ {p} : pc'[q] = pc[q]
      /\ pc'[p] \in {place, "dead", "asleep"}
  BY <1>b DEF PlaceInv
<1>d. /\ procCount \in [Procs -> Int] /\ ghosts \in [Procs -> Int]
      /\ mxprocCount \in [Procs -> {"free", "dead"}]
  BY DEF TypeOK
<1>e. \A q \in Procs \ {p} : IsMember(q, s)' = IsMember(q, s)
  BY <1>a, <1>c DEF IsMember, Working, Inside
<1>f. /\ Tally(s) = procCount[s] + ghosts[s] - w - u
      /\ Tally(s)' = procCount'[s] + ghosts'[s] - w' - u'
  BY DEF Tally, Unmourned, One
<1>g. /\ {w, w', u, u', n, n'} \subseteq Int /\ procCount[s] \in Int /\ ghosts[s] \in Int
  BY <1>d DEF One
<1>h. Tally(s)' = Tally(s) + n' - n => CountsRight(p, s)  BY <1>a, <1>e DEF CountsRight
<1>1. CASE s # seg[p]
  <2>1. procCount'[s] = procCount[s] /\ ghosts'[s] = ghosts[s] /\ mxprocCount'[s] = mxprocCount[s]
    BY <1>1, <1>d DEF CountSection, DieCounting
  <2>2. mxResults[s] # None => mxResults[s] \in Procs \ {p}  BY <1>1, <1>a DEF OwnerInv
  <2>3. u' = u /\ w' = w  BY <1>a, <1>c, <2>1, <2>2 DEF Unmourned
  <2>4. n' = 0 /\ n = 0  BY <1>1, <1>a DEF IsMember, One
  <2> HIDE DEF w, u, n
  <2> QED  BY <1>f, <1>g, <1>h, <2>1, <2>3, <2>4
<1>2. CASE s = seg[p]
  <2>1. state[s] = "robust"  BY <1>2, <1>a DEF JoinInv, MemberPlaces
  <2>2. /\ pc[p] # "repair" => mxResults[s] # p
        /\ pc[p] = "repair" => mxResults[s] = p
        /\ mxResults[s] # None => mxResults[s] \in Procs
    <3>1. pc[p] # "repair" => ~Inside(p) /\ ~Dead(p)  BY DEF Inside, Dead
    <3>2. pc[p] = "repair" => Inside(p)  BY DEF Inside
    <3>3. \A q \in Procs : seg[q] = s /\ Inside(q) => mxResults[s] = q  BY <1>a DEF ReportInv
    <3>4. mxResults[s] # None =>
            mxResults[s] \in Procs /\ (Inside(mxResults[s]) \/ Dead(mxResults[s]))
      BY <1>a DEF OwnerInv
    <3>5. None \notin Procs  BY IntegratorAssumption
    <3> QED  BY <1>2, <3>1, <3>2, <3>3, <3>4, <3>5
  <2>3. None \notin Procs  BY IntegratorAssumption
  <2>4. /\ pc[p] # "repair" => u' = u
        /\ pc[p] = "repair" => u = 1 /\ u' = IF pc'[p] = "dead" THEN 1 ELSE 0
    <3>1. pc[p] # "repair" => Unmourned(s)' = Unmourned(s)
      BY <1>a, <1>c, <2>2 DEF Unmourned
    <3>2. pc[p] = "repair" => Unmourned(s) /\ (Unmourned(s)' <=> pc'[p] = "dead")
      BY <1>a, <1>c, <2>2, <2>3 DEF Unmourned
    <3> QED  BY <3>1, <3>2 DEF One
  <2>5. /\ n = IF pc[p] = "join" THEN 0 ELSE 1
        /\ n' = IF pc'[p] \in {"look", "loop", "total"} THEN 1 ELSE 0
    <3>1. IsMember(p, s) <=> pc[p] # "join"  BY <1>2 DEF IsMember, Working, Inside
    <3>2. IsMember(p, s)' <=> pc'[p] \in {"look", "loop", "total"}
      BY <1>2, <1>a, <1>c DEF IsMember, Working, Inside
    <3> QED  BY <3>1, <3>2 DEF One
  <2>6. CASE /\ pc'[p] = place /\ ghosts'[s] = ghosts[s]
             /\ procCount'[s] = procCount[s] + d - w /\ w' = 0
    <3> HIDE DEF w, u, n
    <3>1. d + u - u' = n' - n
      <4>1. pc[p] = "join" => u' = u /\ d = 1 /\ n' = 1 /\ n = 0  BY <2>4, <2>5, <2>6
      <4>2. pc[p] = "look" => u' = u /\ d = 0 /\ n' = 1 /\ n = 1  BY <2>4, <2>5, <2>6
      <4>3. pc[p] = "repair" => u = 1 /\ u' = 0 /\ d = -1 /\ n' = 1 /\ n = 1  BY <2>4, <2>5, <2>6
      <4>4. pc[p] = "loop" => u' = u /\ d = -1 /\ n' = 0 /\ n = 1  BY <2>4, <2>5, <2>6
      <4> QED  BY <1>g, <4>1, <4>2, <4>3, <4>4
    <3> QED  BY <1>f, <1>g, <1>h, <2>6, <3>1
  <2>7. CASE /\ pc'[p] = "dead" /\ w = 0 /\ w' = 1 /\ procCount'[s] = procCount[s]
             /\ ghosts'[s] = IF pc[p] = "join" THEN ghosts[s] + 1 ELSE ghosts[s]
    <3> HIDE DEF w, u, n
    <3>1. u' = u /\ n' = 0  BY <2>4, <2>5, <2>7
    <3> QED  BY <1>f, <1>g, <1>h, <2>5, <2>7, <3>1
  <2>8. \/ /\ procCount' = [procCount EXCEPT ![s] = @ + d - w]
           /\ mxprocCount' = [mxprocCount EXCEPT ![s] = IF @ = "dead" THEN "free" ELSE @]
           /\ pc'[p] = place /\ ghosts' = ghosts
        \/ /\ mxprocCount[s] = "free" /\ mxprocCount' = [mxprocCount EXCEPT ![s] = "dead"]
           /\ pc'[p] = "dead" /\ procCount' = procCount
           /\ ghosts' = IF pc[p] = "join" THEN [ghosts EXCEPT ![s] = @ + 1] ELSE ghosts
    <3>1. \/ /\ procCount' = [procCount EXCEPT ![s] = @ + d - w]
             /\ mxprocCount' = [mxprocCount EXCEPT ![s] = IF w = 1 THEN "free" ELSE @]
             /\ pc' = [pc EXCEPT ![p] = place] /\ ghosts' = ghosts
          \/ /\ mxprocCount[s] = "free" /\ mxprocCount' = [mxprocCount EXCEPT ![s] = "dead"]
             /\ pc' = [pc EXCEPT ![p] = "dead"] /\ procCount' = procCount
             /\ ghosts' = IF pc[p] = "join" THEN [ghosts EXCEPT ![s] = @ + 1] ELSE ghosts
      BY <1>2, <2>1 DEF CountSection, DieCounting, Sleep, Go, One
    <3> QED  BY <3>1, <1>d DEF PlaceInv, One
  <2> QED  BY <1>d, <2>6, <2>7, <2>8 DEF One
<1> QED  BY <1>1, <1>2

\* Locking mxResults counts right: a dead owner, once found, is still to be counted.
LEMMA LockCounts ==
    ASSUME TypeOK, TypeOK', PlaceInv, JoinInv, OwnerInv, NEW p \in Procs, LockResults(p),
           NEW s \in Procs \ early', state'[s] # "destroyed"
    PROVE  CountsRight(p, s)
<1> DEFINE w == One(mxprocCount[s] = "dead")
           u == One(Unmourned(s))
           n == One(IsMember(p, s))
<1>a. /\ pc[p] = "lock" /\ seg[p] \in Procs /\ state[s] # "destroyed" /\ s \notin early
      /\ UNCHANGED <<seg, state, procCount, mxprocCount, ghosts>>
  BY DEF LockResults, names, process, history, PlaceInv, TypeOK
<1>b. \E after \in {"total", "dead", "repair", "asleep"} : pc' = [pc EXCEPT ![p] = after]
  BY DEF LockResults, Sleep, Go
<1>c. /\ \A q \in Procs \ {p} : pc'[q] = pc[q]
      /\ pc'[p] \in {"total", "dead", "repair", "asleep"}
  BY <1>b DEF PlaceInv
<1>d. \A q \in Procs \ {p} : IsMember(q, s)' = IsMember(q, s)
  BY <1>a, <1>c DEF IsMember, Working, Inside
<1>e. /\ Tally(s) = procCount[s] + ghosts[s] - w - u
      /\ Tally(s)' = procCount[s] + ghosts[s] - w' - u'
      /\ w' = w
  BY <1>a DEF Tally, Unmourned, One
<1>f. {w, u, u', n, n'} \subseteq Int /\ procCount[s] \in Int /\ ghosts[s] \in Int
  BY DEF One, TypeOK
<1>g. Tally(s)' = Tally(s) + n' - n => CountsRight(p, s)  BY <1>a, <1>d DEF CountsRight
<1>h. mxResults[s] # None => mxResults[s] \in Procs \ {p}
  BY <1>a DEF OwnerInv, Inside, Dead
<1>i. None \notin Procs  BY IntegratorAssumption
<1>1. CASE s # seg[p]
  <2>1. mxResults'[s] = mxResults[s]  BY <1>1 DEF LockResults, TypeOK
  <2>2. u' = u  BY <1>c, <1>h, <2>1 DEF Unmourned
  <2>3. n' = 0 /\ n = 0  BY <1>1, <1>a DEF IsMember, One
  <2> HIDE DEF w, u, n
  <2> QED  BY <1>e, <1>f, <1>g, <2>2, <2>3
<1>2. CASE s = seg[p]
  <2>0. state[s] = "robust"  BY <1>2, <1>a DEF JoinInv, MemberPlaces
  <2>1. n = 1 /\ n' = IF pc'[p] \in {"total", "repair"} THEN 1 ELSE 0
    BY <1>2, <1>a, <1>c DEF IsMember, Working, Inside, One
  <2>2. /\ mxResults'[s] = p
        /\ \/ mxResults[s] = None /\ pc'[p] \in {"total", "dead"}
           \/ mxResults[s] # None /\ Dead(mxResults[s]) /\ pc'[p] = "repair"
    BY <1>2, <1>a, <2>0 DEF LockResults, Sleep, Go, TypeOK, PlaceInv
  <2>3. u' = IF pc'[p] = "total" THEN 0 ELSE 1  BY <1>c, <1>i, <2>2 DEF Unmourned, One
  <2>4. u = IF pc'[p] = "repair" THEN 1 ELSE 0
    <3>1. CASE mxResults[s] = None /\ pc'[p] # "repair"  BY <3>1 DEF Unmourned, One
    <3>2. CASE mxResults[s] # None /\ Dead(mxResults[s]) /\ pc'[p] = "repair"
      BY <3>2 DEF Unmourned, One, Dead
    <3> QED  BY <2>2, <3>1, <3>2
  <2> HIDE DEF w, u, n
  <2>5. n' - n = u - u'  BY <1>c, <2>1, <2>2, <2>3, <2>4
  <2> QED  BY <1>e, <1>f, <1>g, <2>5
<1> QED  BY <1>1, <1>2

\* A step outside of the locks counts right on a segment if it keeps its count, its mutexes and its
\* members.
LEMMA OtherCounts ==
    ASSUME TypeOK, OwnerInv, NEW p \in Procs, NEW s \in Procs \ early,
           state'[s] # "destroyed" => state[s] # "destroyed",
           procCount'[s] = procCount[s], ghosts'[s] = ghosts[s],
           mxprocCount'[s] = mxprocCount[s],
           mxResults'[s] = mxResults[s] \/ (~Unmourned(s) /\ mxResults'[s] = None),
           \A q \in Procs \ {p} : pc'[q] = pc[q] /\ seg'[q] = seg[q],
           pc[p] \notin {"dead", "repair"}, pc'[p] \notin {"dead", "repair"},
           IsMember(p, s)' <=> IsMember(p, s)
    PROVE  CountsRight(p, s)
<1>1. \A q \in Procs \ {p} : IsMember(q, s)' = IsMember(q, s)  BY DEF IsMember, Working, Inside
<1>2. Unmourned(s)' <=> Unmourned(s)  BY DEF Unmourned, OwnerInv
<1>3. Tally(s) \in Int /\ Tally(s)' = Tally(s)  BY <1>2 DEF Tally, Unmourned, One, TypeOK
<1>4. One(IsMember(p, s)') = One(IsMember(p, s)) /\ One(IsMember(p, s)) \in Int  BY DEF One
<1> QED  BY <1>1, <1>3, <1>4 DEF CountsRight

\* Every step keeps the count: each section under mxprocCount counts right on its segment, and
\* no step changes the tally or the members of another one.
LEMMA CountStep ==
    ASSUME TypeOK, TypeOK', PlaceInv, NameInv, FreshInv, JoinInv, OwnerInv, ReportInv, CountInv,
           [Next]_vars
    PROVE  CountInv'
<1>1. ASSUME NEW p \in Procs, ProcessStep(p) PROVE CountInv'
  <2> SUFFICES ASSUME NEW s \in Procs \ early', state'[s] # "destroyed" PROVE CountsRight(p, s)
    BY CountKept
  <2> USE IntegratorAssumption DEF PlaceInv, IsMember, Working, Inside, Go, names, segment, process, history
  <2>1. CASE SemOpen(p)
    <3>1. /\ UNCHANGED <<procCount, mxprocCount, mxResults, ghosts, early, seg, state>>
          /\ pc[p] = "start" /\ pc'[p] = "wait"
          /\ \A q \in Procs \ {p} : pc'[q] = pc[q]
      BY <2>1 DEF SemOpen
    <3> QED  BY <3>1, OtherCounts
  <2>2. CASE SemWait(p)
    <3>1. /\ UNCHANGED <<procCount, mxprocCount, mxResults, ghosts, early, seg, state>>
          /\ pc[p] = "wait" /\ pc'[p] = "create"
          /\ \A q \in Procs \ {p} : pc'[q] = pc[q]
      BY <2>2 DEF SemWait
    <3> QED  BY <3>1, OtherCounts
  <2>3. CASE SemInterrupted(p)
    <3>1. /\ UNCHANGED <<procCount, mxprocCount, mxResults, ghosts, early, seg, state>>
          /\ pc[p] = "wait" /\ pc'[p] = "create"
          /\ \A q \in Procs \ {p} : pc'[q] = pc[q]
      BY <2>3 DEF SemInterrupted
    <3> QED  BY <3>1, OtherCounts
  <2>4. CASE Create(p)
    <3>1. /\ UNCHANGED <<procCount, mxprocCount, mxResults, ghosts, early>>
          /\ pc[p] = "create" /\ pc'[p] \in {"truncate", "open"}
          /\ state'[s] # "destroyed" => state[s] # "destroyed"
          /\ \A q \in Procs \ {p} : pc'[q] = pc[q] /\ seg'[q] = seg[q]
      <4>1. p # s => state'[s] = state[s]  BY <2>4, CreateSteps
      <4>2. p = s => state[s] = "none"  BY <2>4, CreateSteps DEF NameInv
      <4> HIDE DEF PlaceInv
      <4> QED  BY <2>4, <4>1, <4>2, CreateSteps
    <3> QED  BY <3>1, OtherCounts
  <2>5. CASE Truncate(p)
    <3>1. /\ UNCHANGED <<procCount, mxprocCount, mxResults, ghosts, early, seg>>
          /\ pc[p] = "truncate" /\ pc'[p] = "clear"
          /\ \A q \in Procs \ {p} : pc'[q] = pc[q]
          /\ state[s] # "destroyed" \/ s # p
      BY <2>5 DEF Truncate, NameInv
    <3>2. state'[s] # "destroyed" => state[s] # "destroyed"  BY <2>5, <3>1 DEF Truncate, TypeOK
    <3> QED  BY <3>1, <3>2, OtherCounts
  <2>6. CASE Clear(p)
    <3>1. /\ UNCHANGED <<ghosts, early, seg>>
          /\ pc[p] = "clear" /\ pc'[p] = "store_a"
          /\ \A q \in Procs \ {p} : pc'[q] = pc[q]
      BY <2>6 DEF Clear
    <3>2. CASE s = p
      <4>1. /\ procCount[s] = 0 /\ mxprocCount[s] = "free" /\ mxResults[s] = None
            /\ state[s] = "zeros"
        BY <3>1, <3>2 DEF FreshInv, RawPlaces
      <4>2. procCount'[s] = 0 /\ mxprocCount'[s] = "free" /\ mxResults'[s] = None
        BY <2>6, <3>2 DEF Clear, TypeOK
      <4> QED  BY <3>1, <4>1, <4>2, OtherCounts
    <3>3. CASE s # p
      <4>1. /\ procCount'[s] = procCount[s] /\ mxprocCount'[s] = mxprocCount[s]
            /\ mxResults'[s] = mxResults[s] /\ state'[s] = state[s]
        BY <2>6, <3>3 DEF Clear, TypeOK
      <4> QED  BY <3>1, <4>1, OtherCounts
    <3> QED  BY <3>2, <3>3
  <2>7. CASE StoreA(p)
    <3>1. /\ UNCHANGED <<ghosts, early, seg, mxprocCount, mxResults, state>>
          /\ procCount' = [procCount EXCEPT ![p] = 1]
          /\ pc[p] = "store_a" /\ pc'[p] = "store_b" /\ seg[p] = p
          /\ \A q \in Procs \ {p} : pc'[q] = pc[q]
      BY <2>7 DEF StoreA, NameInv, RawPlaces
    <3>2. CASE s # p
      <4>1. procCount'[s] = procCount[s]  BY <3>1, <3>2 DEF TypeOK
      <4> QED  BY <3>1, <3>2, <4>1, OtherCounts
    <3>3. CASE s = p
      <4>1. procCount[s] = 0 /\ mxResults[s] = None  BY <3>1, <3>3 DEF FreshInv, RawPlaces
      <4>1a. procCount'[s] = 1 /\ mxResults'[s] = None  BY <3>1, <3>3, <4>1 DEF TypeOK
      <4>2. Tally(s)' = Tally(s) + 1 /\ Tally(s) \in Int
        BY <3>1, <4>1, <4>1a DEF Tally, One, TypeOK
      <4>3. IsMember(p, s)' /\ ~IsMember(p, s)  BY <3>1, <3>3
      <4>4. \A q \in Procs \ {p} : IsMember(q, s)' = IsMember(q, s)  BY <3>1
      <4> HIDE DEF IsMember
      <4> QED  BY <3>1, <4>2, <4>3, <4>4 DEF CountsRight, One
    <3> QED  BY <3>2, <3>3
  <2>8. CASE StoreB(p)
    <3>1. /\ UNCHANGED <<procCount, mxprocCount, mxResults, ghosts, early, seg, state>>
          /\ pc[p] = "store_b" /\ pc'[p] = "reset"
          /\ \A q \in Procs \ {p} : pc'[q] = pc[q]
      BY <2>8 DEF StoreB
    <3> QED  BY <3>1, OtherCounts
  <2>9. CASE Reset(p)
    <3>1. /\ UNCHANGED <<procCount, mxprocCount, mxResults, ghosts, early, seg, state>>
          /\ pc[p] = "reset" /\ pc'[p] = "look"
          /\ \A q \in Procs \ {p} : pc'[q] = pc[q]
      BY <2>9 DEF Reset
    <3> QED  BY <3>1, OtherCounts
  <2>10. CASE AtName(p)
    <3>1. /\ UNCHANGED <<procCount, mxprocCount, mxResults, ghosts, state>> /\ s \notin early
          /\ pc[p] \in {"open", "map"}
          /\ pc'[p] \in {"map", "failed", "killed", "rejected", "join"}
          /\ \A q \in Procs \ {p} : pc'[q] = pc[q] /\ seg'[q] = seg[q]
      <4> HIDE DEF PlaceInv
      <4> QED  BY <2>10, NameSteps
    <3> QED  BY <3>1, OtherCounts
  <2>11. CASE Join(p)
    <3> HIDE DEF PlaceInv, IsMember
    <3> QED  BY <2>11, SectionCounts DEF Join
  <2>12. CASE Look(p)
    <3> HIDE DEF PlaceInv, IsMember
    <3> QED  BY <2>12, SectionCounts DEF Look
  <2>13. CASE Repair(p)
    <3> HIDE DEF PlaceInv, IsMember
    <3> QED  BY <2>13, SectionCounts DEF Repair
  <2>14. CASE Leave(p)
    <3>1. (IF procCount'[seg[p]] = 0 THEN "sum" ELSE "ended") \in {"sum", "ended"}  OBVIOUS
    <3> HIDE DEF PlaceInv, IsMember
    <3> QED  BY <2>14, <3>1, SectionCounts DEF Leave
  <2>15. CASE Continue(p)
    <3>1. /\ UNCHANGED <<procCount, mxprocCount, mxResults, ghosts, early, seg, state>>
          /\ pc[p] = "loop" /\ pc'[p] = "lock"
          /\ \A q \in Procs \ {p} : pc'[q] = pc[q]
      BY <2>15 DEF Continue
    <3> QED  BY <3>1, OtherCounts
  <2>16. CASE LockResults(p)
    <3> HIDE DEF PlaceInv, IsMember
    <3> QED  BY <2>16, LockCounts
  <2>17. CASE AddTotal(p)
    <3>1. /\ UNCHANGED <<procCount, mxprocCount, mxResults, ghosts, early, seg, state>>
          /\ pc[p] = "total" /\ pc'[p] = "hits"
          /\ \A q \in Procs \ {p} : pc'[q] = pc[q]
      BY <2>17 DEF AddTotal
    <3> QED  BY <3>1, OtherCounts
  <2>18. CASE AddHits(p)
    <3>1. /\ UNCHANGED <<procCount, mxprocCount, ghosts, early, seg, state>>
          /\ pc[p] = "hits" /\ pc'[p] = "loop"
          /\ \A q \in Procs \ {p} : pc'[q] = pc[q]
          /\ mxResults'[s] = mxResults[s] \/ (mxResults[s] = p /\ mxResults'[s] = None)
      BY <2>18 DEF AddHits, TypeOK
    <3>2. mxResults[s] = p => ~Unmourned(s)  BY <3>1 DEF Unmourned
    <3> QED  BY <3>1, <3>2, OtherCounts
  <2>19. CASE Sum(p)
    <3>1. /\ UNCHANGED <<procCount, mxprocCount, mxResults, ghosts, early, seg>>
          /\ pc[p] = "sum" /\ pc'[p] = "unlink"
          /\ \A q \in Procs \ {p} : pc'[q] = pc[q]
          /\ state'[s] = state[s]
      BY <2>19 DEF Sum, TypeOK
    <3> QED  BY <3>1, OtherCounts
  <2>20. CASE UnlinkSegment(p)
    <3>1. /\ UNCHANGED <<procCount, mxprocCount, mxResults, ghosts, early, seg, state>>
          /\ pc[p] = "unlink" /\ pc'[p] = "unlink_sem"
          /\ \A q \in Procs \ {p} : pc'[q] = pc[q]
      BY <2>20 DEF UnlinkSegment
    <3> QED  BY <3>1, OtherCounts
  <2>21. CASE UnlinkSemaphore(p)
    <3>1. /\ UNCHANGED <<procCount, mxprocCount, mxResults, ghosts, early, seg, state>>
          /\ pc[p] = "unlink_sem" /\ pc'[p] = "ended"
          /\ \A q \in Procs \ {p} : pc'[q] = pc[q]
      BY <2>21 DEF UnlinkSemaphore
    <3> QED  BY <3>1, OtherCounts
  <2> QED
    BY <1>1, <2>1, <2>2, <2>3, <2>4, <2>5, <2>6, <2>7, <2>8, <2>9, <2>10, <2>11, <2>12, <2>13,
       <2>14, <2>15, <2>16, <2>17, <2>18, <2>19, <2>20, <2>21
    DEF ProcessStep, Step, AtName
<1>2. CASE UNCHANGED vars
  BY <1>2 DEF vars, names, segment, process, history, CountInv, Members, IsMember, Tally, Working, Inside
<1> QED  BY <1>1, <1>2, StepCases

-----------------------------------------------------------------------------
(* The theorems. *)

\* The invariant holds before the first process starts.
LEMMA InitInv == ASSUME Init PROVE Inv
<1> USE IntegratorAssumption DEF Init
<1>1. TypeOK  BY DEF TypeOK
<1>2. PlaceInv  BY DEF PlaceInv, Places, Inside
<1>3. NameInv  BY DEF NameInv, RawPlaces
<1>4. FreshInv  BY DEF FreshInv, RawPlaces
<1>5. SemInv  BY DEF SemInv, Critical, RawPlaces
<1>6. JoinInv  BY DEF JoinInv, MemberPlaces
<1>7. OwnerInv  BY DEF OwnerInv
<1>8. ReportInv  BY DEF ReportInv, Inside
<1>9. CountInv
  <2>1. \A s \in Procs : Members(s) = {}  BY DEF Members, IsMember, Working, Inside
  <2>2. \A s \in Procs : Tally(s) = 0  BY DEF Tally, One
  <2> QED  BY <2>1, <2>2, FS_EmptySet DEF CountInv
<1> QED  BY <1>1, <1>2, <1>3, <1>4, <1>5, <1>6, <1>7, <1>8, <1>9 DEF Inv

\* The invariant is inductive.
LEMMA InvStep == ASSUME Inv, [Next]_vars PROVE Inv'
<1>1. /\ TypeOK /\ PlaceInv /\ NameInv /\ FreshInv /\ SemInv /\ JoinInv /\ OwnerInv /\ ReportInv
      /\ CountInv
  BY DEF Inv
<1>2. TypeOK'  BY <1>1, TypeStep
<1>3. /\ PlaceInv' /\ NameInv' /\ FreshInv' /\ SemInv' /\ JoinInv' /\ OwnerInv' /\ ReportInv'
  BY <1>1, PlaceStep, NameStep, FreshStep, SemStep, JoinStep, OwnerStep, ReportStep
<1>4. CountInv'  BY <1>1, <1>2, CountStep
<1> QED  BY <1>2, <1>3, <1>4 DEF Inv

\* The inductive invariant, of which the theorems below are consequences.
THEOREM Invariant == Spec => []Inv
BY InitInv, InvStep, PTL DEF Spec

\* The shared memory and the variables of the processes keep their types, however many waits are
\* interrupted; in particular nobody computes more batches than it should.
THEOREM TypeCorrect == Spec => []TypeOK
<1>1. Inv => TypeOK  BY DEF Inv
<1> QED  BY <1>1, Invariant, PTL

\* procCount is exact whatever dies, and at whichever lock: random_death_lock's EOWNERDEAD
\* branches deduct every body once, and only who dies before it was counted is deducted too much.
\* It is said of the segments that nobody has joined before they were initialised.
THEOREM CountIsExact == Spec => []CountExact
<1>1. Inv => CountExact
  <2> SUFFICES ASSUME Inv, NEW s \in Procs, InUse(s)
               PROVE  procCount[s] = Cardinality(Members(s)) + One(mxprocCount[s] = "dead") - ghosts[s]
                           + One(mxResults[s] # None /\ pc[mxResults[s]] \in {"dead", "repair"})
    <3>1. ASSUME Inv, NEW s \in Procs, InUse(s)
          PROVE  Members(s) = {p \in Procs : seg[p] = s /\ (pc[p] = "look" \/ Working(p))}
      <4>1. \A q \in Procs : seg[q] = s => pc[q] \notin {"store_b", "reset"}
        BY <3>1 DEF InUse, Raw, Inv, NameInv, RawPlaces
      <4> QED  BY <4>1 DEF Members, IsMember
    <3> QED  BY <3>1 DEF CountExact, One
  <2>1. Tally(s) = Cardinality(Members(s))  BY DEF Inv, CountInv, InUse
  <2>2. procCount[s] \in Int /\ ghosts[s] \in Int  BY DEF Inv, TypeOK
  <2>3. /\ One(mxprocCount[s] = "dead") \in Int
        /\ One(mxResults[s] # None /\ pc[mxResults[s]] \in {"dead", "repair"}) \in Int
    BY DEF One
  <2> QED  BY <2>1, <2>2, <2>3 DEF Tally
<1> QED  BY <1>1, Invariant, PTL

\* One process at a time reports a batch, and while none does both totals are of the same batches:
\* the two additions under mxResults are as good as one, in the segments that nobody has joined
\* before they were initialised.
THEOREM ReportsAreExclusive == Spec => []ReportsExclusive
<1>1. Inv => ReportsExclusive
  <2> SUFFICES ASSUME Inv, NEW s \in Procs, InUse(s)
               PROVE  LET inside == {p \in Procs : seg[p] = s /\ Inside(p)} IN
                      /\ inside \subseteq {mxResults[s]}
                      /\ total[s] = hits[s] + Cardinality({p \in inside : pc[p] = "hits"})
    BY DEF ReportsExclusive
  <2> DEFINE inside == {p \in Procs : seg[p] = s /\ Inside(p)}
             adding == {p \in inside : pc[p] = "hits"}
  <2>0. s \in Procs \ early /\ state[s] # "destroyed"  BY DEF InUse
  <2>1. inside \subseteq {mxResults[s]}  BY <2>0 DEF Inv, ReportInv
  <2>2. CASE mxResults[s] # None /\ pc[mxResults[s]] = "hits"
    <3>1. adding = {mxResults[s]}  BY <2>0, <2>1, <2>2 DEF Inv, OwnerInv, Inside
    <3>2. total[s] = hits[s] + 1  BY <2>0, <2>2 DEF Inv, ReportInv
    <3> HIDE DEF adding
    <3> QED  BY <2>1, <3>1, <3>2, FS_Singleton DEF adding
  <2>3. CASE ~(mxResults[s] # None /\ pc[mxResults[s]] = "hits")
    <3>1. adding = {}  BY <2>1, <2>3, IntegratorAssumption
    <3>2. total[s] = hits[s] + 0  BY <2>0, <2>3 DEF Inv, ReportInv
    <3> HIDE DEF adding
    <3> QED  BY <2>1, <3>1, <3>2, FS_EmptySet DEF adding
  <2> QED  BY <2>2, <2>3
<1> QED  BY <1>1, Invariant, PTL

\* Nobody integrates in a segment that is not initialised, or was with other bounds, unless somebody
\* has joined it early; and it takes an interrupted wait, or the semaphore of another name, to meet
\* a segment that is being initialised.
THEOREM SegmentsInitialised == Spec => []InitialisedBeforeUse
<1>1. Inv => InitialisedBeforeUse
  <2> SUFFICES ASSUME Inv, NEW p \in Procs, seg[p] # None
               PROVE  /\ (pc[p] \in {"join", "look", "sum"} \/ Working(p)) /\ seg[p] \notin early =>
                            /\ ~Raw(seg[p]) /\ state[seg[p]] \in {"robust", "destroyed"}
                            /\ bounds[p] = bounds[seg[p]]
                      /\ pc[p] \in {"map", "killed"} /\ Raw(seg[p]) =>
                            sem[p] # sem[seg[p]] \/ \E q \in interrupted : sem[q] = sem[p]
    BY DEF InitialisedBeforeUse
  <2>1. ASSUME pc[p] \in {"join", "look", "sum"} \/ Working(p), seg[p] \notin early
        PROVE  /\ ~Raw(seg[p]) /\ state[seg[p]] \in {"robust", "destroyed"}
               /\ bounds[p] = bounds[seg[p]]
    <3>1. pc[p] \in MemberPlaces  BY <2>1 DEF MemberPlaces, Working, Inside
    <3> QED  BY <2>1, <3>1 DEF Inv, JoinInv, Raw, RawPlaces
  <2>2. ASSUME pc[p] \in {"map", "killed"}, Raw(seg[p]), \A q \in interrupted : sem[q] # sem[p]
        PROVE  sem[p] # sem[seg[p]]
    <3>1. seg[p] \in Procs  BY DEF Inv, TypeOK
    <3>2. Critical(p) /\ Critical(seg[p]) /\ p # seg[p] /\ Sound(sem[p])
      BY <2>2, <3>1 DEF Critical, Raw, RawPlaces, Sound
    <3> QED  BY <3>1, <3>2 DEF Inv, SemInv
  <2> QED  BY <2>1, <2>2
<1> QED  BY <1>1, Invariant, PTL
=============================================================================
