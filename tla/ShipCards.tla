------------------------------ MODULE ShipCards ------------------------------
(***************************************************************************)
(* lab05/sop-ship/sop-ship.c: players in a ring pass cards on, one at a    *)
(* time, until someone has cards of one suit only, writes this to a pipe   *)
(* that all share, and leaves.  The others notice that a neighbour's pipe  *)
(* is closed, and leave as well.                                           *)
(*                                                                         *)
(* SIGINT reaches the processes one by one; a read or a write that it      *)
(* interrupts is made again.                                               *)
(***************************************************************************)
EXTENDS Pipes

CONSTANTS N, M,   \* players 0..N-1, M cards for each
          FirstHand  \* the hands that shuffle may give to player 0

Player == 0..(N - 1)
Server == N
Card   == 0..(N * M - 1)
Suit   == 0..3
suit(c) == c % 4

VARIABLES
    pc,            \* pc[q]: where process q is
    dealt,         \* so many players have been dealt their cards
    hand,          \* hand[p]: the cards of p; before it has read them, those it is to be dealt
    keep_running,  \* keep_running[p]
    announced,     \* history: those who wrote that they won
    winner         \* what the server has read: a set of one player, or of none

local == <<pc, dealt, hand, keep_running, announced, winner>>
vars  == <<pipes, local>>

ring(p) == <<p, (p + 1) % N>>  \* from p to the next one
Into(p) == <<(p + N - 1) % N, p>>
shared  == <<Server, Server>>  \* written by all players, read by the server
Edges   == {ring(p) : p \in Player} \union {shared}

Init ==
    /\ content = [e \in Edges |-> <<>>]
    /\ writers = [e \in Edges |-> IF e = shared THEN Player ELSE {e[1]}]
    /\ readers = [e \in Edges |-> {e[2]}]
    /\ pc = [q \in 0..N |-> "deal"]
    /\ dealt = 0
    /\ hand \in {h \in [Player -> {S \in SUBSET Card : Cardinality(S) = M}] :
                   \A p, q \in Player : p # q => h[p] \intersect h[q] = {}}
    /\ hand[0] \in FirstHand
    /\ keep_running = [p \in Player |-> TRUE]
    /\ announced = {} /\ winner = {}

Go(q, place) == pc' = [pc EXCEPT ![q] = place]

is_winning(h) == \E s \in Suit : \A c \in h : suit(c) = s

\* choose_card_to_discard: one that is not of the first suit of which there are most.
Count(h, s)  == Cardinality({c \in h : suit(c) = s})
BestSuit(h)  == CHOOSE s \in Suit : \A t \in Suit : /\ Count(h, t) <= Count(h, s)
                                                    /\ t < s => Count(h, t) < Count(h, s)
Discards(h)  == {c \in h : suit(c) # BestSuit(h)}
-----------------------------------------------------------------------------
(* player_work *)

TakeHand(p) ==
    /\ pc[p] = "deal" /\ p < dealt
    /\ Go(p, "look")
    /\ UNCHANGED <<pipes, dealt, hand, keep_running, announced, winner>>

\* The loop's condition, and the question whether p has won.
Look(p) ==
    /\ pc[p] = "look"
    /\ Go(p, IF ~keep_running[p] THEN "leave" ELSE IF is_winning(hand[p]) THEN "won" ELSE "pass")
    /\ UNCHANGED <<pipes, dealt, hand, keep_running, announced, winner>>

\* Write to the shared pipe, if the server still reads it.
Announce(p) ==
    /\ pc[p] = "won"
    /\ IF Broken(shared) THEN UNCHANGED <<content, announced>>
       ELSE Put(shared, p) /\ announced' = announced \union {p}
    /\ Go(p, "leave")
    /\ UNCHANGED <<readers, writers, dealt, hand, keep_running, winner>>

\* Pass a card on; there may be nobody left to take it.
Pass(p) ==
    /\ pc[p] = "pass"
    /\ \/ Broken(ring(p)) /\ Go(p, "leave") /\ UNCHANGED <<content, hand>>
       \/ /\ Writable(ring(p))
          /\ \E c \in Discards(hand[p]) : /\ Put(ring(p), c)
                                          /\ hand' = [hand EXCEPT ![p] = @ \ {c}]
          /\ Go(p, "draw")
    /\ UNCHANGED <<readers, writers, dealt, keep_running, announced, winner>>

\* Take the neighbour's card in its place, or find that there will be none.
DrawCard(p) ==
    /\ pc[p] = "draw"
    /\ \/ Eof(Into(p)) /\ Go(p, "leave") /\ UNCHANGED <<content, hand>>
       \/ /\ Readable(Into(p))
          /\ hand' = [hand EXCEPT ![p] = @ \union {Head(content[Into(p)])}]
          /\ Take(Into(p)) /\ Go(p, "look")
    /\ UNCHANGED <<readers, writers, dealt, keep_running, announced, winner>>

Leave(p) ==
    /\ pc[p] = "leave"
    /\ Exit(p)
    /\ Go(p, "ended")
    /\ UNCHANGED <<dealt, hand, keep_running, announced, winner>>

Sigint(p) ==
    /\ pc[p] # "ended" /\ keep_running[p]
    /\ keep_running' = [keep_running EXCEPT ![p] = FALSE]
    /\ UNCHANGED <<pipes, pc, dealt, hand, announced, winner>>
-----------------------------------------------------------------------------
(* main *)

Deal ==
    /\ pc[Server] = "deal"
    /\ dealt' = dealt + 1
    /\ Go(Server, IF dealt' = N THEN "read" ELSE "deal")
    /\ UNCHANGED <<pipes, hand, keep_running, announced, winner>>

\* Read who won, or find that all have left, and close the shared pipe.
ReadWinner ==
    /\ pc[Server] = "read" /\ (Readable(shared) \/ Eof(shared))
    /\ winner' = IF Readable(shared) THEN {Head(content[shared])} ELSE {}
    /\ Close(Server, {shared}, {})
    /\ Go(Server, "wait")
    /\ UNCHANGED <<dealt, hand, keep_running, announced>>

Wait ==
    /\ pc[Server] = "wait" /\ \A p \in Player : pc[p] = "ended"
    /\ Go(Server, "ended")
    /\ UNCHANGED <<pipes, dealt, hand, keep_running, announced, winner>>

Act(q) == \/ q = N /\ (Deal \/ ReadWinner \/ Wait)
          \/ q \in Player /\ (TakeHand(q) \/ Look(q) \/ Announce(q) \/ Pass(q) \/ DrawCard(q) \/ Leave(q))
Over   == \A q \in 0..N : pc[q] = "ended"
Next   == (\E q \in 0..N : Act(q)) \/ (\E p \in Player : Sigint(p))
-----------------------------------------------------------------------------
(* Properties. *)

\* A card is in one hand or on its way to one, whoever leaves and when; as many are on their
\* way as players have passed one and not yet drawn, so that they never all wait in vain; a
\* card is lost only in the pipe of a player who has left, and who is announced has won.
InRing(p)  == {content[ring(p)][i] : i \in 1..Len(content[ring(p)])}
CardsOnce ==
    LET places(c) == Cardinality({p \in Player : c \in hand[p]}) + Cardinality({p \in Player : c \in InRing(p)})
        gone      == \E p \in Player : pc[p] = "ended"
    IN  /\ \A c \in Card : IF gone THEN places(c) <= 1 ELSE places(c) = 1
        /\ \A p \in Player : /\ (pc[p] = "draw" => Cardinality(hand[p]) = M - 1)
                             /\ (pc[p] \in {"look", "pass", "won"} => Cardinality(hand[p]) = M)
        /\ \A p \in announced \union winner : is_winning(hand[p]) /\ Cardinality(hand[p]) = M
        /\ pc[Server] = "ended" /\ winner = {} => announced = {}
=============================================================================
