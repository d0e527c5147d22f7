------------------------------- MODULE Knights -------------------------------
(***************************************************************************)
(* lab05/prelab/sop-roncevaux.c: every knight reads the blows it gets from *)
(* a pipe of its own, without blocking, and strikes a knight of the other  *)
(* army by writing into that one's pipe.  A knight finds that an enemy is  *)
(* gone when the write fails, and that all enemies are when its own pipe   *)
(* is at its end.                                                          *)
(*                                                                         *)
(* Every process starts with all ends of all pipes, the parent included,   *)
(* and closes those it does not need.  Who holds an end follows from where *)
(* the processes are.  Of the blows in a pipe only the sum matters, and    *)
(* no more of it than kills; the inner loop, which reads until the pipe is *)
(* empty, is one step.                                                     *)
(***************************************************************************)
EXTENDS Integers, FiniteSets

CONSTANTS N,       \* knights 0..N-1; the parent is N
          Franci,  \* the Frankish ones
          HP, Attack

Knight   == 0..(N - 1)
Parent   == N
Enemy(k) == IF k \in Franci THEN Knight \ Franci ELSE Franci

VARIABLES
    pc,       \* pc[q]: where process q is
    hp,       \* hp[k]: the HP of k
    blows,    \* blows[k]: the damage in the pipe of k
    enemies,  \* enemies[k]: those whose pipe k still writes to
    dead      \* history: the knights that died

vars == <<pc, hp, blows, enemies, dead>>

Init ==
    /\ pc      = [q \in 0..N |-> "setup"]
    /\ hp      = [k \in Knight |-> HP]
    /\ blows   = [k \in Knight |-> 0]
    /\ enemies = [k \in Knight |-> Enemy(k)]
    /\ dead    = {}

Go(q, place) == pc' = [pc EXCEPT ![q] = place]

\* Who has not closed the ends that it inherited.
Inherits(q) == pc[q] = "setup"
\* The reading end and the writing end of the pipe of k.
Readers(k) == {q \in 0..N : Inherits(q) \/ (q = k /\ pc[k] # "ended")}
Writers(k) == {q \in 0..N : Inherits(q) \/ (q \in Knight /\ pc[q] # "ended" /\ k \in enemies[q])}
-----------------------------------------------------------------------------
\* Close the inherited ends; the parent then waits.
SetUp(q) ==
    /\ pc[q] = "setup"
    /\ Go(q, IF q = Parent THEN "wait" ELSE "read")
    /\ UNCHANGED <<hp, blows, enemies, dead>>

\* Read until the pipe is empty: die, find that all enemies are gone, or go on to strike.
ReadBlows(k) ==
    /\ pc[k] = "read"
    /\ IF hp[k] < blows[k]
       THEN Go(k, "ended") /\ dead' = dead \union {k}
       ELSE Go(k, IF Writers(k) = {} THEN "ended" ELSE "strike") /\ UNCHANGED dead
    /\ hp'    = [hp EXCEPT ![k] = @ - blows[k]]
    /\ blows' = [blows EXCEPT ![k] = 0]
    /\ UNCHANGED enemies

\* Strike a random enemy; those that turn out to be gone are no longer considered.
Strike(k, e, damage) ==
    /\ pc[k] = "strike" /\ e \in enemies[k]
    /\ IF Readers(e) = {}
       THEN /\ enemies' = [enemies EXCEPT ![k] = @ \ {e}]
            /\ Go(k, IF enemies[k] = {e} THEN "ended" ELSE "strike")
            /\ UNCHANGED blows
       ELSE /\ blows' = [blows EXCEPT ![e] = IF @ + damage > HP THEN HP + 1 ELSE @ + damage]
            /\ Go(k, "read")
            /\ UNCHANGED enemies
    /\ UNCHANGED <<hp, dead>>

Wait ==
    /\ pc[Parent] = "wait" /\ \A k \in Knight : pc[k] = "ended"
    /\ Go(Parent, "ended")
    /\ UNCHANGED <<hp, blows, enemies, dead>>

Act(q) == \/ q \in 0..N /\ SetUp(q)
          \/ q = N /\ Wait
          \/ q \in Knight /\ (ReadBlows(q) \/ \E e \in Enemy(q), damage \in 0..Attack : Strike(q, e, damage))
Hit(k) == \E e \in Enemy(k) : Strike(k, e, Attack)
Over   == \A q \in 0..N : pc[q] = "ended"
Next   == \E q \in 0..N : Act(q)
-----------------------------------------------------------------------------
(* Properties. *)

\* A knight that leaves the field alive leaves no enemy alive on it: both ways of finding that
\* the enemies are gone are right, since nobody else keeps an end of their pipes open, and so
\* there are never survivors on both sides.
OneSideLeft ==
    \A k \in Knight : pc[k] = "ended" /\ k \notin dead => Enemy(k) \subseteq dead
=============================================================================
