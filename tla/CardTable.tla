------------------------------ MODULE CardTable ------------------------------
(***************************************************************************)
(* lab06/sop-cards: what the two versions of the card game have in common. *)
(*                                                                         *)
(* sop-cards.c synchronises the game by two barriers, the file             *)
(* sop-cards-semaphores beside it by four semaphores and a counter.  The   *)
(* shared memory holds a card, a score and an active flag for each player; *)
(* the deck of a player is its own.                                        *)
(***************************************************************************)
EXTENDS Integers, FiniteSets

CONSTANTS Players, Server,  \* the processes
          M                 \* the number of rounds, and of cards in a deck

ASSUME CardTableAssumption ==
    /\ IsFiniteSet(Players) /\ Players # {}
    /\ Server \notin Players
    /\ M \in Nat \ {0}

VARIABLES
    pc,     \* pc[q]: where process q is
    round,  \* round[q]: q's loop index i
    deck,   \* deck[p]: the cards p can still draw
    card,   \* player_data[p].card
    score,  \* player_data[p].score
    active  \* player_data[p].active

tableVars == <<round, deck, card, score, active>>

PLAYING  == 0
RESIGNED == 1
Procs    == Players \union {Server}
Playing  == {p \in Players : active[p] = PLAYING}

\* memset, and create_cards in every player.
TableInit ==
    /\ round  = [q \in Procs |-> 1]
    /\ deck   = [p \in Players |-> 1..M]
    /\ card   = [p \in Players |-> 0]
    /\ score  = [p \in Players |-> 0]
    /\ active = [p \in Players |-> PLAYING]

\* draw_card, which takes the card out of the deck.
DrawCard(p) ==
    \E c \in deck[p] : /\ card' = [card EXCEPT ![p] = c]
                       /\ deck' = [deck EXCEPT ![p] = @ \ {c}]

\* should_resign
Decides(p) == \E a \in {PLAYING, RESIGNED} : active' = [active EXCEPT ![p] = a]

\* winning_card, winning_count: among those who play.
WinningCard  == CHOOSE c \in {card[p] : p \in Playing} : \A p \in Playing : card[p] <= c
WinningCount == Cardinality({p \in Playing : card[p] = WinningCard})

\* Those who lay the winning card and are paid s.
Pay(W, s) == score' = [p \in Players |-> IF p \in W THEN score[p] + s ELSE score[p]]

TableTypeOK ==
    /\ round  \in [Procs -> 1..(M + 1)]
    /\ deck   \in [Players -> SUBSET (1..M)]
    /\ card   \in [Players -> 0..M]
    /\ score  \in [Players -> Nat]
    /\ active \in [Players -> {PLAYING, RESIGNED}]
=============================================================================
