------------------------------ MODULE PipeCards ------------------------------
(***************************************************************************)
(* lab05/sop-cards/sop-cards.c: the card game over pipes.  In a round the  *)
(* server says new_round to every player, reads a card from each, and      *)
(* tells each its points.                                                  *)
(*                                                                         *)
(* Two things happen when players leave.  The server tests wps[0] before   *)
(* it writes the points of player i: when player 0 has left nobody is told *)
(* points any more, and the next new_round is read in their place.  And    *)
(* when another player i has left wps[i] is 0, so that its points go to    *)
(* the standard input, which may be writable or not; if it is not, ERR     *)
(* kills the whole group.                                                  *)
(*                                                                         *)
(* No write of the server or of a player meets a broken pipe: nobody       *)
(* leaves where the other one writes next.  (The actions have no case for  *)
(* it, and would deadlock.)                                                *)
(***************************************************************************)
EXTENDS Pipes

CONSTANTS N, M  \* players 0..N-1, M rounds and cards

Player    == 0..(N - 1)
Server    == N
Points    == 0..N
new_round == -1    \* a message that is not a number of points

VARIABLES
    pc,      \* pc[q]: where process q is
    round,   \* round[q]: its loop index
    cards,   \* cards[p]: what p can still play
    turn,    \* the server's index
    open,    \* the players i whose wps[i] and rps[i] are not 0
    played,  \* played[i]: played_cards[i]
    scores,
    told     \* history: told[p], the points p was told, or was owed, by round

local == <<pc, round, cards, turn, open, played, scores, told>>
vars  == <<pipes, local>>

to_player(p)   == <<Server, p>>
from_player(p) == <<p, Server>>
Edges == {to_player(p) : p \in Player} \union {from_player(p) : p \in Player}

Init ==
    /\ PipesInit([e \in Edges |-> e])
    /\ pc     = [q \in 0..N |-> IF q = Server THEN "announce" ELSE "round"]
    /\ round  = [q \in 0..N |-> 1]
    /\ cards  = [p \in Player |-> 1..M]
    /\ turn = 0 /\ open = Player
    /\ played = [p \in Player |-> 0]
    /\ scores = [p \in Player |-> 0]
    /\ told   = [p \in Player |-> 0]

Go(q, place) == pc' = [pc EXCEPT ![q] = place]
-----------------------------------------------------------------------------
(* player_work *)

\* Read new_round; anything else is an error that kills the group.
AwaitRound(p) ==
    /\ pc[p] = "round" /\ Readable(to_player(p))
    /\ Take(to_player(p))
    /\ IF Head(content[to_player(p)]) = new_round
       THEN Go(p, "card") ELSE pc' = [q \in 0..N |-> "killed"]
    /\ UNCHANGED <<readers, writers, round, cards, turn, open, played, scores, told>>

\* Leave the game, or play one of the cards.
Resign(p) ==
    /\ pc[p] = "card"
    /\ Go(p, "leave")
    /\ UNCHANGED <<pipes, round, cards, turn, open, played, scores, told>>

Play(p) ==
    /\ pc[p] = "card" /\ Writable(from_player(p))
    /\ \E c \in cards[p] : /\ Put(from_player(p), c)
                           /\ cards' = [cards EXCEPT ![p] = @ \ {c}]
    /\ Go(p, "points")
    /\ UNCHANGED <<readers, writers, round, turn, open, played, scores, told>>

\* Whatever is read here is taken for the points; the end of file ends the game.
AwaitPoints(p) ==
    /\ pc[p] = "points" /\ Readable(to_player(p))
    /\ Take(to_player(p))
    /\ told' = [told EXCEPT ![p] = IF Head(content[to_player(p)]) \in Points
                                   THEN @ + Head(content[to_player(p)]) ELSE @]
    /\ round' = [round EXCEPT ![p] = @ + 1]
    /\ Go(p, IF round[p] = M THEN "leave" ELSE "round")
    /\ UNCHANGED <<readers, writers, cards, turn, open, played, scores>>

Leave(p) ==
    /\ pc[p] = "leave" \/ (pc[p] = "points" /\ Eof(to_player(p)))
    /\ Exit(p)
    /\ Go(p, "ended")
    /\ UNCHANGED <<round, cards, turn, open, played, scores, told>>
-----------------------------------------------------------------------------
(* game_server_work *)

\* The server goes on to the next player, or after the last one to the next loop.
NextPlayer(place) ==
    IF turn = N - 1 THEN turn' = 0 /\ Go(Server, place) ELSE turn' = turn + 1 /\ UNCHANGED pc

\* write(wps[i], "new_round"); a broken pipe ends the game.
Announce ==
    /\ pc[Server] = "announce"
    /\ \/ /\ turn \in open /\ Writable(to_player(turn))
          /\ Put(to_player(turn), new_round) /\ NextPlayer("collect")
          /\ UNCHANGED <<readers, writers, open>>
       \/ turn \notin open /\ NextPlayer("collect") /\ UNCHANGED <<pipes, open>>
    /\ played' = [p \in Player |-> 0]
    /\ UNCHANGED <<round, cards, scores, told>>

Collect ==
    /\ pc[Server] = "collect"
    /\ \/ /\ turn \in open /\ Readable(from_player(turn))
          /\ played' = [played EXCEPT ![turn] = Head(content[from_player(turn)])]
          /\ Take(from_player(turn)) /\ UNCHANGED <<readers, writers, open>>
       \/ /\ turn \in open /\ Eof(from_player(turn))
          /\ Close(Server, {from_player(turn)}, {to_player(turn)})
          /\ open' = open \ {turn} /\ UNCHANGED played
       \/ turn \notin open /\ UNCHANGED <<pipes, open, played>>
    /\ NextPlayer("pay")
    /\ UNCHANGED <<round, cards, scores, told>>

\* max, winners_count and pointstogive.
Highest == CHOOSE c \in {played[p] : p \in Player} : \A p \in Player : played[p] <= c
Winners == {p \in open : played[p] = Highest}
Share   == IF Winners = {} THEN 0 ELSE N \div Cardinality(Winners)
Due(p)  == IF p \in Winners THEN Share ELSE 0

EndRound(place) == IF turn = N - 1
    THEN /\ round' = [round EXCEPT ![Server] = @ + 1]
         /\ turn' = 0 /\ Go(Server, place)
    ELSE turn' = turn + 1 /\ UNCHANGED <<pc, round>>
AfterRound == IF round[Server] = M THEN "close" ELSE "announce"

\* Everybody is told what the winners get.  A mutant.
PayShare ==
    /\ pc[Server] = "pay" /\ 0 \in open /\ turn \in open /\ Writable(to_player(turn))
    /\ Put(to_player(turn), Share)
    /\ scores' = [scores EXCEPT ![turn] = @ + Due(turn)]
    /\ EndRound(AfterRound)
    /\ UNCHANGED <<readers, writers, cards, open, played, told>>

\* Count and tell the points of player i.
Pay ==
    /\ pc[Server] = "pay" /\ 0 \in open /\ turn \in open /\ Writable(to_player(turn))
    /\ Put(to_player(turn), Due(turn))
    /\ scores' = [scores EXCEPT ![turn] = @ + Due(turn)]
    /\ EndRound(AfterRound)
    /\ UNCHANGED <<readers, writers, cards, open, played, told>>

\* wps[0] = 0: nobody is told, and nobody is paid.
PayNobody ==
    /\ pc[Server] = "pay" /\ 0 \notin open
    /\ EndRound(AfterRound)
    /\ UNCHANGED <<pipes, cards, open, played, scores, told>>

\* write(0, ...): the points of a player who has left go to the standard input.
PayAbsent ==
    /\ pc[Server] = "pay" /\ 0 \in open /\ turn \notin open
    /\ EndRound(AfterRound)
    /\ UNCHANGED <<pipes, cards, open, played, scores, told>>

\* The same when that can not be written: ERR.
Kill ==
    /\ pc[Server] = "pay" /\ 0 \in open /\ turn \notin open
    /\ pc' = [q \in 0..N |-> "killed"]
    /\ UNCHANGED <<pipes, round, cards, turn, open, played, scores, told>>

\* main: close what is still open, wait for the players.
Finish ==
    /\ \/ pc[Server] = "close" /\ Go(Server, "wait") /\ Exit(Server)
       \/ /\ pc[Server] = "wait" /\ \A p \in Player : pc[p] = "ended"
          /\ Go(Server, "ended") /\ UNCHANGED pipes
    /\ UNCHANGED <<round, cards, turn, open, played, scores, told>>

Act(q) == \/ q = N /\ (Announce \/ Collect \/ Pay \/ PayNobody \/ PayAbsent \/ Kill \/ Finish)
          \/ q \in Player /\ (AwaitRound(q) \/ Play(q) \/ AwaitPoints(q) \/ Leave(q))

\* Player 0 has left and the others have read new_round for their points: the server waits
\* for a card, the players for new_round.
Stuck == /\ 0 \notin open /\ pc[Server] = "collect"
         /\ turn \in open /\ pc[turn] = "round" /\ content[to_player(turn)] = <<>>
Over  == (\A q \in 0..N : pc[q] \in {"ended", "killed"}) \/ Stuck
Next  == (\E q \in 0..N : Act(q)) \/ (\E p \in Player : Resign(p))
-----------------------------------------------------------------------------
(* Properties. *)

\* Server and players keep in step while player 0 is in the game: who is waiting for a round
\* is never told points (the ERR in player_work), who is waiting for points is told those
\* the server has counted for it in this round, and so has been told its score.
FirstOf(p)  == Head(content[to_player(p)])
Untold(p)  == IF Readable(to_player(p)) /\ FirstOf(p) \in Points THEN FirstOf(p) ELSE 0
InStep ==
    /\ \A p \in Player : pc[p] = "round" /\ Readable(to_player(p)) => FirstOf(p) = new_round
    /\ 0 \in open => \A p \in open : /\ pc[p] = "points" /\ Readable(to_player(p)) => FirstOf(p) \in Points
                                     /\ pc[p] # "killed" => scores[p] = told[p] + Untold(p)
=============================================================================
