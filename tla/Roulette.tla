------------------------------ MODULE Roulette ------------------------------
(***************************************************************************)
(* lab05/sop-roulette/sop-roulette.c: players stake their money against a  *)
(* number; the croupier reads every bet and answers with the lucky number  *)
(* of the round; the player settles the bet itself.  The game ends when    *)
(* every player has left or is broke.  Three writes, and three reads, make *)
(* up a bet; they are one step each.                                       *)
(***************************************************************************)
EXTENDS Pipes

CONSTANTS N, M,          \* players 0..N-1; what each has at first
          MAX_ROULETTE,  \* numbers 0..MAX_ROULETTE-1
          PRIZE_FACTOR,
          MaxAmount      \* bound: who has more than this bets no longer

Player   == 0..(N - 1)
Croupier == N
Lucky    == 0..(MAX_ROULETTE - 1)

VARIABLES
    pc,            \* pc[q]: where process q is
    amount,        \* amount[p]: the money of p
    number, stake, \* number[p], stake[p]: its bet
    turn, any, rps,
    lucky_number,  \* of the round
    due            \* history: due[p], what p has by the bets the croupier has answered

local == <<pc, amount, number, stake, turn, any, rps, lucky_number, due>>
vars  == <<pipes, local>>

to_player(p)   == <<Croupier, p>>
from_player(p) == <<p, Croupier>>
Edges == {to_player(p) : p \in Player} \union {from_player(p) : p \in Player}

Init ==
    /\ PipesInit([e \in Edges |-> e])
    /\ pc     = [q \in 0..N |-> IF q = Croupier THEN "spin" ELSE "bet"]
    /\ amount = [p \in Player |-> M]
    /\ number = [p \in Player |-> 0]
    /\ stake  = [p \in Player |-> 0]
    /\ turn = 0 /\ any = FALSE /\ rps = Player /\ lucky_number = 0
    /\ due    = [p \in Player |-> M]

Go(q, place) == pc' = [pc EXCEPT ![q] = place]
-----------------------------------------------------------------------------
(* player_work *)

\* should_resign
Resign(p) ==
    /\ pc[p] = "bet" /\ amount[p] > 0
    /\ Go(p, "leave")
    /\ UNCHANGED <<pipes, amount, number, stake, turn, any, rps, lucky_number, due>>

\* The stake is paid at once.
Bet(p) ==
    /\ pc[p] = "bet" /\ amount[p] \in 1..MaxAmount
    /\ Writable(from_player(p))
    /\ \E s \in 1..amount[p], n \in Lucky :
         /\ amount' = [amount EXCEPT ![p] = @ - s]
         /\ stake'  = [stake EXCEPT ![p] = s]
         /\ number' = [number EXCEPT ![p] = n]
         /\ Put(from_player(p), [number |-> n, stake |-> s])
    /\ Go(p, "await")
    /\ UNCHANGED <<readers, writers, turn, any, rps, lucky_number, due>>

\* The player pays itself whatever the number is that it reads.
Settle(p) ==
    /\ pc[p] = "await" /\ Readable(to_player(p))
    /\ Take(to_player(p))
    /\ amount' = [amount EXCEPT ![p] =
                    IF Head(content[to_player(p)]) = number[p] THEN @ + PRIZE_FACTOR * stake[p] ELSE @]
    /\ Go(p, "bet")
    /\ UNCHANGED <<readers, writers, number, stake, turn, any, rps, lucky_number, due>>

Leave(p) ==
    /\ pc[p] = "leave" \/ (pc[p] = "bet" /\ amount[p] = 0)
    /\ Exit(p)
    /\ Go(p, "ended")
    /\ UNCHANGED <<amount, number, stake, turn, any, rps, lucky_number, due>>
-----------------------------------------------------------------------------
(* server_work *)

Spin ==
    /\ pc[Croupier] = "spin"
    /\ lucky_number' \in Lucky
    /\ turn' = 0 /\ any' = FALSE
    /\ Go(Croupier, "collect")
    /\ UNCHANGED <<pipes, amount, number, stake, rps, due>>

Answer ==
    LET b == Head(content[from_player(turn)]) IN
    /\ pc[Croupier] = "collect" /\ turn \in rps
    /\ Readable(from_player(turn)) /\ Writable(to_player(turn))
    /\ content' = [content EXCEPT ![from_player(turn)] = Tail(@),
                                  ![to_player(turn)] = Append(@, lucky_number)]
    /\ due' = [due EXCEPT ![turn] = (@ - b.stake) +
                  (IF b.number = lucky_number THEN PRIZE_FACTOR * b.stake ELSE 0)]
    /\ any' = TRUE /\ turn' = turn + 1
    /\ UNCHANGED <<readers, writers, pc, amount, number, stake, rps, lucky_number>>

\* The pipe of a player who left stays among those that are asked.  A mutant.
AnswerEofKeep ==
    /\ pc[Croupier] = "collect" /\ turn \in rps
    /\ Eof(from_player(turn))
    /\ any' = TRUE /\ turn' = turn + 1
    /\ UNCHANGED <<pipes, pc, amount, number, stake, rps, lucky_number, due>>

AnswerEof ==
    /\ pc[Croupier] = "collect" /\ turn \in rps
    /\ Eof(from_player(turn))
    /\ Close(Croupier, {from_player(turn)}, {})
    /\ rps' = rps \ {turn} /\ any' = TRUE /\ turn' = turn + 1
    /\ UNCHANGED <<pc, amount, number, stake, lucky_number, due>>

Skip ==
    /\ pc[Croupier] = "collect" /\ turn \in Player \ rps
    /\ turn' = turn + 1
    /\ UNCHANGED <<pipes, pc, amount, number, stake, any, rps, lucky_number, due>>

EndRound ==
    /\ pc[Croupier] = "collect" /\ turn = N
    /\ Go(Croupier, IF any THEN "spin" ELSE "close")
    /\ UNCHANGED <<pipes, amount, number, stake, turn, any, rps, lucky_number, due>>

\* main: close what is still open, wait for the players.
Finish ==
    /\ \/ pc[Croupier] = "close" /\ Go(Croupier, "wait") /\ Exit(Croupier)
       \/ /\ pc[Croupier] = "wait" /\ \A p \in Player : pc[p] = "ended"
          /\ Go(Croupier, "ended") /\ UNCHANGED pipes
    /\ UNCHANGED <<amount, number, stake, turn, any, rps, lucky_number, due>>

Act(q) == \/ q = N /\ (Spin \/ Answer \/ AnswerEof \/ Skip \/ EndRound \/ Finish)
          \/ q \in Player /\ (Bet(q) \/ Settle(q) \/ Leave(q))
Over   == \A q \in 0..N : pc[q] = "ended"
Next   == (\E q \in 0..N : Act(q)) \/ (\E p \in Player : Resign(p))
-----------------------------------------------------------------------------
(* Properties. *)

\* A player pays itself what the croupier's number is worth for the bet the croupier has
\* read: between bets, and when it has left, it has exactly what is due to it.
PaidAsDue ==
    \A p \in Player : pc[p] # "await" => amount[p] = due[p] /\ content[to_player(p)] = <<>>
=============================================================================
