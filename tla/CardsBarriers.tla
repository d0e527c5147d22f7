---------------------------- MODULE CardsBarriers ----------------------------
(***************************************************************************)
(* lab06/sop-cards/sop-cards.c: the card game on two process-shared        *)
(* barriers, begin_barrier and game_barrier, each passed twice a round.    *)
(*                                                                         *)
(* Between the second passages the server counts the players left and      *)
(* initialises the barriers again with their number: begin_barrier before  *)
(* the last passage, while everybody still waits at game_barrier, and      *)
(* game_barrier after it, while the others may already be on their way to  *)
(* begin_barrier, which they can not pass without the server.              *)
(*                                                                         *)
(* A process that arrives as the last one lets all pass in that step; one  *)
(* that returns late is one that takes its next step late, but for         *)
(* pthread_barrier_destroy, which waits for the late ones.                 *)
(***************************************************************************)
EXTENDS CardTable

VARIABLES
    need,  \* need[b]: how many processes barrier b waits for
    at     \* at[b]: the processes that wait at b

bvars == <<pc, tableVars, need, at>>

Barriers == {"begin", "game"}

\* The way of a player, and of the server, from place to place.
PlayerPlaces == {"draw", "begin1", "game1", "decide", "begin2", "game2", "loop", "left"}
ServerPlaces == {"begin1", "score", "game1", "begin2", "count", "game2", "last2", "renew", "end"}
After(q, place) ==
    CASE place = "begin1" -> IF q = Server THEN "score" ELSE "game1"
      [] place = "game1"  -> IF q = Server THEN "begin2" ELSE "decide"
      [] place = "begin2" -> IF q = Server THEN "count" ELSE "game2"
      [] place = "game2"  -> IF q = Server THEN "renew" ELSE "loop"
      [] place = "last2"  -> "end"
BarrierOf(place) == IF place \in {"begin1", "begin2"} THEN "begin" ELSE "game"
Waits(q) == pc[q] \in {"begin1", "game1", "begin2", "game2", "last2"}

\* Barriers that do not count the server.  A mutant.
InitPlayersOnly ==
    /\ TableInit
    /\ pc   = [q \in Procs |-> IF q = Server THEN "begin1" ELSE "draw"]
    /\ need = [b \in Barriers |-> Cardinality(Players)]
    /\ at   = [b \in Barriers |-> {}]

Init ==
    /\ TableInit
    /\ pc   = [q \in Procs |-> IF q = Server THEN "begin1" ELSE "draw"]
    /\ need = [b \in Barriers |-> Cardinality(Players) + 1]
    /\ at   = [b \in Barriers |-> {}]

\* pthread_barrier_wait
Arrive(q) ==
    LET b == BarrierOf(pc[q])
    IN  /\ Waits(q) /\ q \notin at[b]
        /\ IF Cardinality(at[b]) + 1 < need[b]
           THEN at' = [at EXCEPT ![b] = @ \union {q}] /\ UNCHANGED pc
           ELSE /\ at' = [at EXCEPT ![b] = {}]
                /\ pc' = [r \in Procs |-> IF r \in at[b] \union {q} THEN After(r, pc[r]) ELSE pc[r]]
        /\ UNCHANGED <<tableVars, need>>

-----------------------------------------------------------------------------
(* player_work *)

Draw(p) ==
    /\ pc[p] = "draw"
    /\ DrawCard(p)
    /\ pc' = [pc EXCEPT ![p] = "begin1"]
    /\ UNCHANGED <<round, score, active, need, at>>

Decide(p) ==
    /\ pc[p] = "decide"
    /\ Decides(p)
    /\ pc' = [pc EXCEPT ![p] = "begin2"]
    /\ UNCHANGED <<round, deck, card, score, need, at>>

\* The end of the loop's body: leave, or go on with the next round.
Loop(p) ==
    /\ pc[p] = "loop"
    /\ IF active[p] = RESIGNED \/ round[p] = M
       THEN pc' = [pc EXCEPT ![p] = "left"] /\ UNCHANGED round
       ELSE pc' = [pc EXCEPT ![p] = "draw"] /\ round' = [round EXCEPT ![p] = @ + 1]
    /\ UNCHANGED <<deck, card, score, active, need, at>>

-----------------------------------------------------------------------------
(* game_server_work *)

\* The winners: whoever's card is the winning card.
ScoreRound ==
    /\ pc[Server] = "score"
    /\ Pay({p \in Players : card[p] = WinningCard}, Cardinality(Players) \div WinningCount)
    /\ pc' = [pc EXCEPT ![Server] = "game1"]
    /\ UNCHANGED <<round, deck, card, active, need, at>>

\* begin_barrier keeps its count.  A mutant.
CountNoRenewal ==
    /\ pc[Server] = "count"
    /\ pc' = [pc EXCEPT ![Server] = IF Playing = {} THEN "last2" ELSE "game2"]
    /\ UNCHANGED <<need, at, tableVars>>

\* Count the players; initialise begin_barrier again, or pass game_barrier for the last time.
Count ==
    /\ pc[Server] = "count"
    /\ IF Playing = {}
       THEN pc' = [pc EXCEPT ![Server] = "last2"] /\ UNCHANGED need
       ELSE /\ at["begin"] = {}
            /\ pc'   = [pc EXCEPT ![Server] = "game2"]
            /\ need' = [need EXCEPT !["begin"] = Cardinality(Playing) + 1]
    /\ UNCHANGED <<tableVars, at>>

\* Initialise game_barrier again, with the same count; on to the next round.
Renew ==
    /\ pc[Server] = "renew"
    /\ at["game"] = {}
    /\ need'  = [need EXCEPT !["game"] = need["begin"]]
    /\ round' = [round EXCEPT ![Server] = @ + 1]
    /\ pc'    = [pc EXCEPT ![Server] = IF round[Server] = M THEN "end" ELSE "begin1"]
    /\ UNCHANGED <<deck, card, score, active, at>>

-----------------------------------------------------------------------------
Over == pc[Server] = "end" /\ \A p \in Players : pc[p] = "left"
Stop == Over /\ UNCHANGED bvars

Step(q) == \/ Arrive(q)
           \/ q \in Players /\ (Draw(q) \/ Decide(q) \/ Loop(q))
           \/ q = Server /\ (ScoreRound \/ Count \/ Renew)

Next == Stop \/ \E q \in Procs : Step(q)

\* Type invariant of the table, the places and the barriers.
TypeOK ==
    /\ TableTypeOK
    /\ pc   \in [Procs -> PlayerPlaces \union ServerPlaces]
    /\ need \in [Barriers -> 2..(Cardinality(Players) + 1)]
    /\ at   \in [Barriers -> SUBSET Procs]
=============================================================================
