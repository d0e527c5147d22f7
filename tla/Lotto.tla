------------------------------- MODULE Lotto -------------------------------
(***************************************************************************)
(* lab05/sop-lotto/sop-lotto.c: players bet every week, each through its   *)
(* pipe to the totalisator, and read the winning numbers from another one. *)
(* The totalisator asks them in turn; that a player has left it learns     *)
(* from the end of file only.                                              *)
(*                                                                         *)
(* The two writes of a bet, and the two reads of it, are one step each: no *)
(* other process sees a bet half-written.                                  *)
(***************************************************************************)
EXTENDS Pipes, Folds

CONSTANTS N, T,   \* players 0..N-1; weeks
          Draws,  \* the sets of numbers that draw() may yield
          Prize   \* get_reward: Prize[matches]

BET_PRICE   == 3
Player      == 0..(N - 1)
Totalisator == N

VARIABLES
    pc,           \* pc[q]: where process q is
    week,         \* week[q]: its loop index
    bet,          \* bet[p]: the numbers of player p
    won,          \* won[p]: what p has announced as won
    turn,         \* the player the totalisator asks next
    any, rps,     \* some player was asked; the players whose pipe is open
    winning,      \* the winning numbers of the week
    total_bet, total_reward

local == <<pc, week, bet, won, turn, any, rps, winning, total_bet, total_reward>>
vars  == <<pipes, local>>

to_player(p)   == <<Totalisator, p>>
from_player(p) == <<p, Totalisator>>
Edges == {to_player(p) : p \in Player} \union {from_player(p) : p \in Player}

Init ==
    /\ PipesInit([e \in Edges |-> e])
    /\ pc   = [q \in 0..N |-> IF q = Totalisator THEN "draw" ELSE "bet"]
    /\ week = [q \in 0..N |-> 1]
    /\ bet  = [p \in Player |-> {}]
    /\ won  = [p \in Player |-> 0]
    /\ turn = 0 /\ any = FALSE /\ rps = Player /\ winning = {}
    /\ total_bet = 0 /\ total_reward = 0

Go(q, place) == pc' = [pc EXCEPT ![q] = place]

compare(a, b) == Cardinality(a \intersect b)
-----------------------------------------------------------------------------
(* player_work *)

\* should_resign
Resign(p) ==
    /\ pc[p] = "bet"
    /\ Go(p, "leave")
    /\ UNCHANGED <<pipes, week, bet, won, turn, any, rps, winning, total_bet, total_reward>>

\* Bet, unless nobody takes bets any more.
Bet(p) ==
    /\ pc[p] = "bet"
    /\ IF Broken(from_player(p))
       THEN Go(p, "leave") /\ UNCHANGED <<content, bet>>
       ELSE /\ Writable(from_player(p))
            /\ \E numbers \in Draws : /\ bet' = [bet EXCEPT ![p] = numbers]
                                      /\ Put(from_player(p), numbers)
            /\ Go(p, "await")
    /\ UNCHANGED <<readers, writers, week, won, turn, any, rps, winning, total_bet, total_reward>>

\* Read the winning numbers and compare.
Await(p) ==
    /\ pc[p] = "await" /\ Readable(to_player(p))
    /\ Take(to_player(p))
    /\ won' = [won EXCEPT ![p] = @ + Prize[compare(Head(content[to_player(p)]), bet[p])]]
    /\ week' = [week EXCEPT ![p] = @ + 1]
    /\ Go(p, IF week[p] = T THEN "leave" ELSE "bet")
    /\ UNCHANGED <<readers, writers, bet, turn, any, rps, winning, total_bet, total_reward>>

Leave(p) ==
    /\ pc[p] = "leave" \/ (pc[p] = "await" /\ Eof(to_player(p)))
    /\ Exit(p)
    /\ Go(p, "ended")
    /\ UNCHANGED <<week, bet, won, turn, any, rps, winning, total_bet, total_reward>>

-----------------------------------------------------------------------------
(* totalisator_work *)

\* A new week, unless nobody was left in the last one.
Draw ==
    /\ pc[Totalisator] = "draw"
    /\ winning' \in Draws
    /\ turn' = 0 /\ any' = FALSE
    /\ Go(Totalisator, "collect")
    /\ UNCHANGED <<pipes, week, bet, won, rps, total_bet, total_reward>>

\* Take the bet of the player whose turn it is, and answer it.
Collect ==
    /\ pc[Totalisator] = "collect" /\ turn \in rps
    /\ Readable(from_player(turn)) /\ Writable(to_player(turn))
    /\ content' = [content EXCEPT ![from_player(turn)] = Tail(@),
                                  ![to_player(turn)] = Append(@, winning)]
    /\ total_bet' = total_bet + BET_PRICE
    /\ total_reward' = total_reward + Prize[compare(winning, Head(content[from_player(turn)]))]
    /\ any' = TRUE /\ turn' = turn + 1
    /\ UNCHANGED <<readers, writers, pc, week, bet, won, rps, winning>>

\* The player is gone.
CollectEof ==
    /\ pc[Totalisator] = "collect" /\ turn \in rps
    /\ Eof(from_player(turn))
    /\ Close(Totalisator, {from_player(turn)}, {})
    /\ rps' = rps \ {turn} /\ any' = TRUE /\ turn' = turn + 1
    /\ UNCHANGED <<pc, week, bet, won, winning, total_bet, total_reward>>

Skip ==
    /\ pc[Totalisator] = "collect" /\ turn \in Player \ rps
    /\ turn' = turn + 1
    /\ UNCHANGED <<pipes, pc, week, bet, won, any, rps, winning, total_bet, total_reward>>

\* The week is over.
EndWeek ==
    /\ pc[Totalisator] = "collect" /\ turn = N
    /\ Go(Totalisator, IF ~any \/ week[N] = T THEN "close" ELSE "draw")
    /\ week' = [week EXCEPT ![N] = @ + 1]
    /\ UNCHANGED <<pipes, bet, won, turn, any, rps, winning, total_bet, total_reward>>

\* main: close what is still open, wait for the players.
Finish ==
    /\ \/ pc[Totalisator] = "close" /\ Go(Totalisator, "wait") /\ Exit(Totalisator)
       \/ /\ pc[Totalisator] = "wait" /\ \A p \in Player : pc[p] = "ended"
          /\ Go(Totalisator, "ended") /\ UNCHANGED pipes
    /\ UNCHANGED <<week, bet, won, turn, any, rps, winning, total_bet, total_reward>>

Act(q) == \/ q = N /\ (Draw \/ Collect \/ CollectEof \/ Skip \/ EndWeek \/ Finish)
          \/ q \in Player /\ (Bet(q) \/ Await(q) \/ Leave(q))
Over   == \A q \in 0..N : pc[q] = "ended"
Next   == (\E q \in 0..N : Act(q)) \/ (\E p \in Player : Resign(p))
-----------------------------------------------------------------------------
(* Properties. *)

\* The totalisator's books: it was paid for every bet it has taken, and what it has paid out
\* is what the players have won or have yet to read that they won, by the numbers they bet.
Unread(p) == IF Readable(to_player(p)) THEN Prize[compare(Head(content[to_player(p)]), bet[p])] ELSE 0
Asked     == [p \in Player |-> week[p] - 1 + Len(content[to_player(p)])]
PaidOut   == [p \in Player |-> won[p] + Unread(p)]
Total(f)  == MapThenFoldSet(+, 0, LAMBDA p : f[p], LAMBDA s : CHOOSE p \in s : TRUE, Player)
BooksAgree ==
    /\ total_bet = BET_PRICE * Total(Asked)
    /\ total_reward = Total(PaidOut)
    /\ \A p \in Player : pc[p] = "bet" => content[from_player(p)] = <<>> /\ content[to_player(p)] = <<>>
=============================================================================
