----------------------------- MODULE Integrator -----------------------------
(***************************************************************************)
(* lab06/calka/calka.c: processes that are started at any time integrate   *)
(* together.  The first one creates a named segment under a named          *)
(* semaphore, later ones join it; each adds batches to the totals; the     *)
(* last one sums up, destroys the mutexes and unlinks both names.  Both    *)
(* mutexes are robust: random_death_lock may abort with the mutex just     *)
(* taken, but not when it has found the mutex of a dead owner.             *)
(*                                                                         *)
(* A segment and a semaphore bear the name of the process that created     *)
(* them: those who opened them before an unlink keep using the old ones.   *)
(* A section under mxprocCount is one step, one under mxResults is not,    *)
(* since mxprocCount is locked within it.  A mutex that was destroyed is   *)
(* of kind -1 in glibc, so that locking it returns EINVAL, which the code  *)
(* takes for success; a mutex of zeros is a normal mutex of one process:   *)
(* it does not notice a dead owner and wakes nobody in another process.    *)
(*                                                                         *)
(* SIGINT has a handler without SA_RESTART and nobody looks at what        *)
(* sem_wait returns: a wait that it interrupts goes on as if it had taken  *)
(* the semaphore, and posts it later.  So a segment may be joined early,   *)
(* while it is still being initialised.  Each process is a job of its own, *)
(* so that the kill(0, SIGKILL) of ERR kills only who meets the error.     *)
(***************************************************************************)
EXTENDS Integers, FiniteSets

CONSTANTS Procs,         \* numbered in the order in which they start
          Lower, Upper,  \* what the bounds of integration a and b may be
          None,
          Batches,       \* batches a process computes at most; 3 in the code
          Interruptions, \* bound: waits that SIGINT interrupts
          ZeroGroups     \* bound: the sets of processes that may all have the bounds 0 0

ASSUME ProcsNumbered == Procs \subseteq Nat
ASSUME IntegratorAssumption ==
    /\ IsFiniteSet(Procs) /\ None \notin Procs
    /\ Batches \in Nat

VARIABLES
    shmName, semName,  \* what SHM_NAME and SEM_NAME name
    semValue,          \* semValue[m]: value of semaphore m
    state,             \* state[s]: what it holds, "none", "empty" or "zeros", and then whether
                       \* its mutexes are "robust" or "destroyed"
    procCount,         \* procCount[s]
    total, hits,       \* total_randomized_points, hit_points, in batches
    mxprocCount,       \* mxprocCount[s]: "free" or, for a dead owner, "dead"
    mxResults,         \* mxResults[s]: its owner, perhaps dead, or None
    pc, bounds,        \* of a process: its place, its bounds
    sem, seg,          \* the semaphore and the segment it has opened
    batch,             \* its loop index
    ghosts,            \* history: ghosts[s] have died before they were counted
    interrupted,       \* history: the processes that did not wait for their semaphore to the end
    early              \* history: the segments joined while they were being initialised

names    == <<shmName, semName, semValue>>
segment  == <<state, procCount, total, hits, mxprocCount, mxResults>>
process  == <<bounds, sem, seg, batch>>
history  == <<ghosts, interrupted, early>>
vars     == <<names, segment, pc, process, history>>

Init ==
    /\ shmName = None /\ semName = None
    /\ semValue    = [m \in Procs |-> 0]
    /\ state       = [s \in Procs |-> "none"]
    /\ procCount   = [s \in Procs |-> 0]
    /\ total       = [s \in Procs |-> 0]
    /\ hits        = [s \in Procs |-> 0]
    /\ mxprocCount = [s \in Procs |-> "free"]
    /\ mxResults   = [s \in Procs |-> None]
    /\ pc  = [p \in Procs |-> "start"]
    /\ bounds \in [Procs -> Lower \X Upper]
    /\ {p \in Procs : bounds[p] = <<0, 0>>} \in ZeroGroups
    /\ sem = [p \in Procs |-> None]
    /\ seg = [p \in Procs |-> None]
    /\ batch  = [p \in Procs |-> 0]
    /\ ghosts = [s \in Procs |-> 0]
    /\ interrupted = {} /\ early = {}

Go(p, place) == pc' = [pc EXCEPT ![p] = place]

-----------------------------------------------------------------------------
(* Creating and joining. *)

\* Those with a lower number have been started.
Turn(p) == \A q \in Procs : q < p => pc[q] # "start"

\* sem_open with O_CREAT and value 1.
SemOpen(p) ==
    /\ pc[p] = "start" /\ Turn(p)
    /\ IF semName = None
       THEN /\ semName' = p
            /\ semValue' = [semValue EXCEPT ![p] = 1]
            /\ sem' = [sem EXCEPT ![p] = p]
       ELSE sem' = [sem EXCEPT ![p] = semName] /\ UNCHANGED <<semName, semValue>>
    /\ Go(p, "wait")
    /\ UNCHANGED <<shmName, segment, bounds, seg, batch, history>>

\* The semaphore is not waited for.  A mutant.
SemPass(p) ==
    /\ pc[p] = "wait"
    /\ Go(p, "create")
    /\ UNCHANGED <<names, segment, process, history>>

SemWait(p) ==
    /\ pc[p] = "wait"
    /\ semValue[sem[p]] > 0
    /\ semValue' = [semValue EXCEPT ![sem[p]] = @ - 1]
    /\ Go(p, "create")
    /\ UNCHANGED <<shmName, semName, segment, process, history>>

\* SIGINT interrupts the wait: the semaphore is not taken, and as keep_running is now 0 no batch
\* will be computed.
SemInterrupted(p) ==
    /\ pc[p] = "wait"
    /\ semValue[sem[p]] = 0
    /\ Cardinality(interrupted) < Interruptions
    /\ interrupted' = interrupted \union {p}
    /\ batch' = [batch EXCEPT ![p] = Batches]
    /\ Go(p, "create")
    /\ UNCHANGED <<names, segment, bounds, sem, seg, ghosts, early>>

SemPost(p) == semValue' = [semValue EXCEPT ![sem[p]] = @ + 1]

\* shm_open with O_EXCL.
Create(p) ==
    /\ pc[p] = "create"
    /\ IF shmName = None
       THEN /\ shmName' = p
            /\ state' = [state EXCEPT ![p] = "empty"]
            /\ seg' = [seg EXCEPT ![p] = p]
            /\ Go(p, "truncate")
       ELSE Go(p, "open") /\ UNCHANGED <<shmName, state, seg>>
    /\ UNCHANGED <<semName, semValue, procCount, total, hits, mxprocCount, mxResults,
                   bounds, sem, batch, history>>

\* ftruncate.
Truncate(p) ==
    /\ pc[p] = "truncate"
    /\ state' = [state EXCEPT ![p] = "zeros"]
    /\ Go(p, "clear")
    /\ UNCHANGED <<names, procCount, total, hits, mxprocCount, mxResults, process, history>>

\* memset and the mutexes.
Clear(p) ==
    /\ pc[p] = "clear"
    /\ state'       = [state EXCEPT ![p] = "robust"]
    /\ procCount'   = [procCount EXCEPT ![p] = 0]
    /\ total'       = [total EXCEPT ![p] = 0]
    /\ hits'        = [hits EXCEPT ![p] = 0]
    /\ mxprocCount' = [mxprocCount EXCEPT ![p] = "free"]
    /\ mxResults'   = [mxResults EXCEPT ![p] = None]
    /\ Go(p, "store_a")
    /\ UNCHANGED <<names, process, history>>

\* procCount = 1 and a.
StoreA(p) ==
    /\ pc[p] = "store_a"
    /\ procCount' = [procCount EXCEPT ![p] = 1]
    /\ Go(p, "store_b")
    /\ UNCHANGED <<names, state, total, hits, mxprocCount, mxResults, process, history>>

StoreB(p) ==
    /\ pc[p] = "store_b"
    /\ Go(p, "reset")
    /\ UNCHANGED <<names, segment, process, history>>

\* The totals are set to 0 once more, after a and b.
Reset(p) ==
    /\ pc[p] = "reset"
    /\ total' = [total EXCEPT ![p] = 0]
    /\ hits'  = [hits EXCEPT ![p] = 0]
    /\ SemPost(p)
    /\ Go(p, "look")
    /\ UNCHANGED <<shmName, semName, state, procCount, mxprocCount, mxResults, process, history>>

\* shm_open without O_EXCL: the name may be gone by now, since the last process unlinks it without
\* the semaphore.
Open(p) ==
    /\ pc[p] = "open"
    /\ IF shmName # None
       THEN seg' = [seg EXCEPT ![p] = shmName] /\ Go(p, "map") /\ UNCHANGED semValue
       ELSE SemPost(p) /\ Go(p, "failed") /\ UNCHANGED seg
    /\ UNCHANGED <<shmName, semName, segment, bounds, sem, batch, history>>

\* Segment s is still being initialised, and the a and b it holds.
Raw(s) == pc[s] \in {"truncate", "clear", "store_a", "store_b", "reset"}
BoundsOf(s) == <<IF Raw(s) /\ pc[s] \notin {"store_b", "reset"} THEN 0 ELSE bounds[s][1],
                 IF Raw(s) /\ pc[s] # "reset" THEN 0 ELSE bounds[s][2]>>

\* mmap and the comparison of the bounds.  Before ftruncate the access is a SIGBUS.
Map(p) ==
    LET s == seg[p] IN
    /\ pc[p] = "map"
    /\ \/ state[s] = "empty" /\ Go(p, "killed") /\ UNCHANGED <<semValue, early>>
       \/ state[s] # "empty" /\ BoundsOf(s) # bounds[p] /\ Go(p, "rejected") /\ SemPost(p)
          /\ UNCHANGED early
       \/ state[s] # "empty" /\ BoundsOf(s) = bounds[p] /\ Go(p, "join") /\ SemPost(p)
          /\ early' = IF Raw(s) THEN early \union {s} ELSE early
    /\ UNCHANGED <<shmName, semName, segment, process, ghosts, interrupted>>

-----------------------------------------------------------------------------
(* Counting. *)

\* Somebody else uses the mutexes of zeros that p waits for, so that nothing will wake p.
Sleep(p) ==
    /\ state[seg[p]] = "zeros"
    /\ \E q \in Procs \ {p, seg[p]} : seg[q] = seg[p]
    /\ Go(p, "asleep")

\* p dies with mxprocCount taken.
DieCounting(p) ==
    LET s == seg[p] IN
    /\ state[s] \in {"zeros", "robust"} /\ mxprocCount[s] = "free"
    /\ mxprocCount' = [mxprocCount EXCEPT ![s] = "dead"]
    /\ Go(p, "dead")
    /\ ghosts' = IF pc[p] = "join" THEN [ghosts EXCEPT ![s] = @ + 1] ELSE ghosts

\* A death that was found in mxprocCount is not counted.  A mutant.
CountSectionForgets(p, d, place) ==
    LET s == seg[p] IN
    \/ /\ state[s] = "zeros" => mxprocCount[s] = "free"
       /\ procCount' = [procCount EXCEPT ![s] = @ + d]
       /\ mxprocCount' = [mxprocCount EXCEPT ![s] = "free"]
       /\ Go(p, place)
       /\ UNCHANGED ghosts
    \/ DieCounting(p) /\ UNCHANGED procCount
    \/ Sleep(p) /\ UNCHANGED <<procCount, mxprocCount, ghosts>>

\* A section under mxprocCount that adds d to procCount; one less if the last owner is
\* found dead; or p dies with the mutex taken.
CountSection(p, d, place) ==
    LET s     == seg[p]
        found == IF state[s] = "robust" /\ mxprocCount[s] = "dead" THEN 1 ELSE 0
    IN  \/ /\ state[s] = "zeros" => mxprocCount[s] = "free"
           /\ procCount' = [procCount EXCEPT ![s] = @ + d - found]
           /\ mxprocCount' = [mxprocCount EXCEPT ![s] = IF found = 1 THEN "free" ELSE @]
           /\ Go(p, place)
           /\ UNCHANGED ghosts
        \/ DieCounting(p) /\ UNCHANGED procCount
        \/ Sleep(p) /\ UNCHANGED <<procCount, mxprocCount, ghosts>>

\* Nothing but the count, its mutex and the process changes.
CountOnly == UNCHANGED <<names, state, total, hits, mxResults, process, interrupted, early>>

Join(p)   == pc[p] = "join" /\ CountSection(p, 1, "look") /\ CountOnly
Look(p)   == pc[p] = "look" /\ CountSection(p, 0, "loop") /\ CountOnly
Repair(p) == pc[p] = "repair" /\ CountSection(p, -1, "total") /\ CountOnly

\* After the last batch, or earlier by SIGINT.
Leave(p) ==
    /\ pc[p] = "loop"
    /\ CountSection(p, -1, IF procCount'[seg[p]] = 0 THEN "sum" ELSE "ended")
    /\ CountOnly

-----------------------------------------------------------------------------
(* Batches. *)

Dead(p) == pc[p] = "dead"

\* One batch more.  A mutant.
ContinueOnceMore(p) ==
    /\ pc[p] = "loop" /\ batch[p] <= Batches
    /\ Go(p, "lock")
    /\ UNCHANGED <<names, segment, process, history>>

\* The condition of the loop, and the batch.
Continue(p) ==
    /\ pc[p] = "loop" /\ batch[p] < Batches
    /\ Go(p, "lock")
    /\ UNCHANGED <<names, segment, process, history>>

\* mxResults is not robust.  A mutant.
LockResultsNotRobust(p) ==
    LET s == seg[p] IN
    /\ pc[p] = "lock"
    /\ \/ /\ state[s] = "destroyed"
          /\ Go(p, "total") /\ UNCHANGED mxResults
       \/ /\ state[s] \in {"zeros", "robust"} /\ mxResults[s] = None
          /\ mxResults' = [mxResults EXCEPT ![s] = p]
          /\ (Go(p, "total") \/ Go(p, "dead"))
       \/ mxResults[s] # None /\ Sleep(p) /\ UNCHANGED mxResults
    /\ UNCHANGED <<names, state, procCount, total, hits, mxprocCount, process, history>>

\* Lock mxResults; a dead owner is found, and is to be counted; or p dies.
LockResults(p) ==
    LET s == seg[p] IN
    /\ pc[p] = "lock"
    /\ \/ /\ state[s] = "destroyed"
          /\ Go(p, "total") /\ UNCHANGED mxResults
       \/ /\ state[s] \in {"zeros", "robust"} /\ mxResults[s] = None
          /\ mxResults' = [mxResults EXCEPT ![s] = p]
          /\ (Go(p, "total") \/ Go(p, "dead"))
       \/ /\ state[s] = "robust" /\ mxResults[s] # None /\ Dead(mxResults[s])
          /\ mxResults' = [mxResults EXCEPT ![s] = p]
          /\ Go(p, "repair")
       \/ mxResults[s] # None /\ Sleep(p) /\ UNCHANGED mxResults
    /\ UNCHANGED <<names, state, procCount, total, hits, mxprocCount, process, history>>

\* Unlocked after the first total.  A mutant.
AddTotalUnlocks(p) ==
    /\ pc[p] = "total"
    /\ total' = [total EXCEPT ![seg[p]] = @ + 1]
    /\ mxResults' = [mxResults EXCEPT ![seg[p]] = IF @ = p THEN None ELSE @]
    /\ Go(p, "hits")
    /\ UNCHANGED <<names, state, procCount, hits, mxprocCount, process, history>>

AddTotal(p) ==
    /\ pc[p] = "total"
    /\ total' = [total EXCEPT ![seg[p]] = @ + 1]
    /\ Go(p, "hits")
    /\ UNCHANGED <<names, state, procCount, hits, mxprocCount, mxResults, process, history>>

\* hit_points += hits, and unlock, which fails for who is not the owner.
AddHits(p) ==
    LET s == seg[p] IN
    /\ pc[p] = "hits"
    /\ hits' = [hits EXCEPT ![s] = @ + 1]
    /\ batch' = [batch EXCEPT ![p] = @ + 1]
    /\ mxResults' = [mxResults EXCEPT ![s] = IF @ = p THEN None ELSE @]
    /\ Go(p, "loop")
    /\ UNCHANGED <<names, state, procCount, total, mxprocCount, bounds, sem, seg, history>>

-----------------------------------------------------------------------------
(* The last one. *)

\* Print the result and destroy the mutexes.
Sum(p) ==
    /\ pc[p] = "sum"
    /\ state' = [state EXCEPT ![seg[p]] = "destroyed"]
    /\ Go(p, "unlink")
    /\ UNCHANGED <<names, procCount, total, hits, mxprocCount, mxResults, process, history>>

\* shm_unlink: whatever the name means by now.
UnlinkSegment(p) ==
    /\ pc[p] = "unlink"
    /\ shmName' = None
    /\ Go(p, "unlink_sem")
    /\ UNCHANGED <<semName, semValue, segment, process, history>>

UnlinkSemaphore(p) ==
    /\ pc[p] = "unlink_sem"
    /\ semName' = None
    /\ Go(p, "ended")
    /\ UNCHANGED <<shmName, semValue, segment, process, history>>

Ended(p) == pc[p] \in {"ended", "rejected", "dead", "killed", "failed"}
Stuck(p) == pc[p] = "wait" /\ semValue[sem[p]] = 0
Over     == (\A p \in Procs : Ended(p) \/ Stuck(p) \/ pc[p] = "asleep") /\ UNCHANGED vars

Step(p) == \/ SemOpen(p) \/ Create(p) \/ Truncate(p) \/ Clear(p) \/ StoreA(p) \/ StoreB(p)
           \/ Reset(p) \/ Open(p) \/ Map(p)
           \/ Join(p) \/ Look(p) \/ Repair(p) \/ Leave(p)
           \/ Continue(p) \/ LockResults(p) \/ AddTotal(p) \/ AddHits(p)
           \/ Sum(p) \/ UnlinkSegment(p) \/ UnlinkSemaphore(p)

Next == Over \/ \E p \in Procs : SemWait(p) \/ SemInterrupted(p) \/ Step(p)

Spec     == Init /\ [][Next]_vars
FairSpec == Spec /\ \A p \in Procs : WF_vars(Step(p)) /\ SF_vars(SemWait(p))
-----------------------------------------------------------------------------
(* Properties. *)

Inside(p) == pc[p] \in {"repair", "total", "hits"}
Working(p) == Inside(p) \/ pc[p] \in {"loop", "lock"}

\* Type invariant.
TypeOK ==
    /\ {shmName, semName} \subseteq Procs \union {None}
    /\ semValue    \in [Procs -> Nat]
    /\ state       \in [Procs -> {"none", "empty", "zeros", "robust", "destroyed"}]
    /\ procCount   \in [Procs -> Int]
    /\ total       \in [Procs -> Nat]
    /\ hits        \in [Procs -> Nat]
    /\ mxprocCount \in [Procs -> {"free", "dead"}]
    /\ mxResults   \in [Procs -> Procs \union {None}]
    /\ bounds      \in [Procs -> Lower \X Upper]
    /\ sem \in [Procs -> Procs \union {None}] /\ seg \in [Procs -> Procs \union {None}]
    /\ batch  \in [Procs -> 0..Batches]
    /\ ghosts \in [Procs -> Nat]
    /\ interrupted \subseteq Procs /\ early \subseteq Procs

\* Segment s is in use, and nobody has joined it while it was being initialised.
InUse(s) == state[s] = "robust" /\ ~Raw(s) /\ s \notin early

\* The count survives every death: it is the number of the processes that work on the
\* segment and of the bodies that were not found yet, those found under mxResults but not yet
\* counted included.  Only a process that dies before it was counted is deducted as well.
CountExact ==
    \A s \in Procs : InUse(s) =>
        LET members == {p \in Procs : seg[p] = s /\ (pc[p] = "look" \/ Working(p))}
            body(b) == IF b THEN 1 ELSE 0
        IN  procCount[s] = Cardinality(members) + body(mxprocCount[s] = "dead") - ghosts[s]
                           + body(mxResults[s] # None /\ pc[mxResults[s]] \in {"dead", "repair"})

\* Reports do not mix: until the mutexes are destroyed one process at a time adds a batch,
\* and whenever no one does, both totals are of the same batches.
ReportsExclusive ==
    \A s \in Procs : InUse(s) =>
        LET inside == {p \in Procs : seg[p] = s /\ Inside(p)} IN
        /\ inside \subseteq {mxResults[s]}
        /\ total[s] = hits[s] + Cardinality({p \in inside : pc[p] = "hits"})

\* Who uses a segment that nobody has joined early has found it initialised with its own bounds.
\* And a segment is met while it is being initialised only if SIGINT interrupted a wait for the
\* creator's semaphore, or if the name of that was unlinked in between, so that the two processes
\* have waited for different semaphores.
InitialisedBeforeUse ==
    \A p \in Procs : seg[p] # None =>
        /\ (pc[p] \in {"join", "look", "sum"} \/ Working(p)) /\ seg[p] \notin early =>
              /\ ~Raw(seg[p]) /\ state[seg[p]] \in {"robust", "destroyed"}
              /\ bounds[p] = bounds[seg[p]]
        /\ pc[p] \in {"map", "killed"} /\ Raw(seg[p]) =>
              sem[p] # sem[seg[p]] \/ \E q \in interrupted : sem[q] = sem[p]

\* Whatever dies, the others end, except who waits for the semaphore of a process that an empty
\* segment has killed, and who sleeps at a mutex of zeros.
EverybodyEnds ==
    <>(\A p \in Procs :
         \/ Ended(p) \/ pc[p] = "asleep"
         \/ Stuck(p) /\ \E q \in Procs : pc[q] = "killed" /\ sem[q] = sem[p])
=============================================================================
