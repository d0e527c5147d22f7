--------------------------- MODULE CardsSemaphores ---------------------------
(***************************************************************************)
(* lab06/sop-cards/sop-cards-semaphores: the card game on four semaphores, *)
(* which replace the barriers, and active_players under mx_active.         *)
(*                                                                         *)
(* The server posts a semaphore once for every player it believes present, *)
(* and waits as often for their answer.                                    *)
(***************************************************************************)
EXTENDS CardTable

VARIABLES
    sem,             \* sem[s]: the value of semaphore s
    active_players,  \* guarded by mx_active; its sections are single steps
    current_active,  \* the server's copy of it
    k                \* the server's index in its loops of posts and waits

svars == <<pc, tableVars, sem, active_players, current_active, k>>

Semaphores   == {"round_start", "cards_ready", "results_ready", "players_done"}
PlayerPlaces == {"wait_start", "lay", "wait_results", "decide", "leave", "done", "left"}
ServerPlaces == {"top", "start", "cards", "score", "results", "finish", "end"}

Init ==
    /\ TableInit
    /\ pc  = [q \in Procs |-> IF q = Server THEN "top" ELSE "wait_start"]
    /\ sem = [s \in Semaphores |-> 0]
    /\ active_players = Cardinality(Players)
    /\ current_active = 0
    /\ k = 0

Post(s) == sem' = [sem EXCEPT ![s] = @ + 1]
Wait(s) == sem[s] > 0 /\ sem' = [sem EXCEPT ![s] = @ - 1]
Go(q, place) == pc' = [pc EXCEPT ![q] = place]

-----------------------------------------------------------------------------
(* player_work *)

AwaitStart(p) ==
    /\ pc[p] = "wait_start"
    /\ Wait("round_start")
    /\ Go(p, "lay")
    /\ UNCHANGED <<tableVars, active_players, current_active, k>>

\* draw_card, and tell the server.
Lay(p) ==
    /\ pc[p] = "lay"
    /\ DrawCard(p)
    /\ Post("cards_ready")
    /\ Go(p, "wait_results")
    /\ UNCHANGED <<round, score, active, active_players, current_active, k>>

AwaitResults(p) ==
    /\ pc[p] = "wait_results"
    /\ Wait("results_ready")
    /\ Go(p, "decide")
    /\ UNCHANGED <<tableVars, active_players, current_active, k>>

Decide(p) ==
    /\ pc[p] = "decide"
    /\ Decides(p)
    /\ Go(p, IF active'[p] = RESIGNED THEN "leave" ELSE "done")
    /\ UNCHANGED <<round, deck, card, score, sem, active_players, current_active, k>>

\* active_players--
Leave(p) ==
    /\ pc[p] = "leave"
    /\ active_players' = active_players - 1
    /\ Go(p, "done")
    /\ UNCHANGED <<tableVars, sem, current_active, k>>

\* sem_post(&sem_players_done); the loop's condition.
Done(p) ==
    /\ pc[p] = "done"
    /\ Post("players_done")
    /\ IF active[p] = RESIGNED \/ round[p] = M
       THEN Go(p, "left") /\ UNCHANGED round
       ELSE Go(p, "wait_start") /\ round' = [round EXCEPT ![p] = @ + 1]
    /\ UNCHANGED <<deck, card, score, active, active_players, current_active, k>>

-----------------------------------------------------------------------------
(* game_server_work *)

\* Read active_players; end when there is nobody left.
Top ==
    /\ pc[Server] = "top"
    /\ current_active' = active_players
    /\ k' = 0
    /\ Go(Server, IF active_players = 0 THEN "end" ELSE "start")
    /\ UNCHANGED <<tableVars, sem, active_players>>

\* One round of a for loop of the server: Op(s), k++; or leave the loop for `next`.
Repeat(place, next) ==
    /\ pc[Server] = place
    /\ IF k < current_active
       THEN /\ \/ place = "start"   /\ Post("round_start")
               \/ place = "cards"   /\ Wait("cards_ready")
               \/ place = "results" /\ Post("results_ready")
            /\ k' = k + 1
            /\ UNCHANGED pc
       ELSE k' = 0 /\ Go(Server, next) /\ UNCHANGED sem
    /\ UNCHANGED <<tableVars, active_players, current_active>>

\* Pays whoever's card is the winning card, as the barrier version does.  A mutant.
ScoreAll ==
    /\ pc[Server] = "score"
    /\ Pay({p \in Players : card[p] = WinningCard}, current_active \div WinningCount)
    /\ Go(Server, "results")
    /\ UNCHANGED <<round, deck, card, active, sem, active_players, current_active, k>>

ScoreRound ==
    /\ pc[Server] = "score"
    /\ Pay({p \in Playing : card[p] = WinningCard}, current_active \div WinningCount)
    /\ Go(Server, "results")
    /\ UNCHANGED <<round, deck, card, active, sem, active_players, current_active, k>>

\* The next round begins without waiting for the players.  A mutant.
FinishAtOnce ==
    /\ pc[Server] = "finish"
    /\ k' = 0
    /\ round' = [round EXCEPT ![Server] = @ + 1]
    /\ Go(Server, IF round[Server] = M THEN "end" ELSE "top")
    /\ UNCHANGED <<deck, card, score, active, sem, active_players, current_active>>

\* Wait for every player; on to the next round.
Finish ==
    /\ pc[Server] = "finish"
    /\ IF k < current_active
       THEN Wait("players_done") /\ k' = k + 1 /\ UNCHANGED <<pc, round>>
       ELSE /\ k' = 0
            /\ round' = [round EXCEPT ![Server] = @ + 1]
            /\ Go(Server, IF round[Server] = M THEN "end" ELSE "top")
            /\ UNCHANGED sem
    /\ UNCHANGED <<deck, card, score, active, active_players, current_active>>

Serve == \/ Top \/ ScoreRound \/ Finish
         \/ Repeat("start", "cards") \/ Repeat("cards", "score") \/ Repeat("results", "finish")

-----------------------------------------------------------------------------
Over == pc[Server] = "end" /\ \A p \in Players : pc[p] = "left"
Stop == Over /\ UNCHANGED svars

Await(p) == AwaitStart(p) \/ AwaitResults(p)
Run(p)   == Lay(p) \/ Decide(p) \/ Leave(p) \/ Done(p)

Next == Stop \/ Serve \/ \E p \in Players : Await(p) \/ Run(p)

\* Type invariant of the table, the places and the semaphores.
TypeOK ==
    /\ TableTypeOK
    /\ pc  \in [Procs -> PlayerPlaces \union ServerPlaces]
    /\ sem \in [Semaphores -> 0..Cardinality(Players)]
    /\ active_players \in 0..Cardinality(Players)
    /\ current_active \in 0..Cardinality(Players)
    /\ k \in 0..Cardinality(Players)
=============================================================================
