---------------------------- MODULE MCSharedMemory ---------------------------
(***************************************************************************)
(* The smaller programs of lab06 on shared memory: both versions of the    *)
(* card game, the board, and the two programs whose children work on parts *)
(* of a task.  A behaviour runs one of them, and leaves the variables of   *)
(* the others alone.  For model checking there are three players and two   *)
(* clients; the fairness of the processes is stated for so many.           *)
(***************************************************************************)
EXTENDS CardTable, Sequences, Functions

CONSTANTS Clients, Fields, Points,  \* of Board
          Texts, MaxProc,           \* of LetterCount
          Children, Iters,          \* of MonteCarlo
          p1, p2, p3, c1, c2

ASSUME SharedMemoryAssumption ==
    /\ IsFiniteSet(Clients) /\ Clients \intersect {"server", "none", "dead", "gone"} = {}
    /\ IsFiniteSet(Fields) /\ Points \in [Fields -> Nat]
    /\ \A t \in Texts : t \in Seq(Range(t))
    /\ MaxProc \in Nat \ {0} /\ Children \in Nat \ {0} /\ Iters \in Nat

MCPlayers == {p1, p2, p3}
MCPoints  == [f \in Fields |-> f]
MCTexts   == {<<"a">>, <<"a", "b", "a">>, <<"b", "a", "b", "b", "a">>}

VARIABLES program,
          need, at,                                             \* of CardsBarriers
          sem, active_players, current_active, k,               \* of CardsSemaphores
          stop, mutex, owner, N, board, looked, early,          \* of Board
          log, parts, signs, failed, total,                     \* of LetterCount
          data, lines, mean                                     \* of MonteCarlo

tableOwn      == <<round, deck, card, active>>    \* score is Board's, too
barriersOwn   == <<need, at>>
semaphoresOwn == <<sem, active_players, current_active, k>>
boardOwn      == <<stop, mutex, owner, N, board, looked, early>>
countOwn      == <<log, parts, signs, failed, total>>
piOwn         == <<data, lines, mean>>
vars == <<program, pc, tableVars, barriersOwn, semaphoresOwn, boardOwn, countOwn, piOwn>>

B == INSTANCE CardsBarriers
S == INSTANCE CardsSemaphores
D == INSTANCE Board WITH Client <- Clients, Field <- Fields
C == INSTANCE LetterCount WITH MAX_PROC <- MaxProc, M <- parts
P == INSTANCE MonteCarlo WITH n <- Children, MONTE_CARLO_ITERS <- Iters

NoTable      == round = 0 /\ deck = 0 /\ card = 0 /\ active = 0
NoBarriers   == need = 0 /\ at = 0
NoSemaphores == sem = 0 /\ active_players = 0 /\ current_active = 0 /\ k = 0
NoBoard      == stop = 0 /\ mutex = 0 /\ owner = 0 /\ N = 0 /\ board = 0 /\ looked = 0 /\ early = 0
NoCount      == log = 0 /\ parts = 0 /\ signs = 0 /\ failed = 0 /\ total = 0
NoPi         == data = 0 /\ lines = 0 /\ mean = 0

Init ==
    \/ /\ program = "barriers" /\ B!Init
       /\ NoSemaphores /\ NoBoard /\ NoCount /\ NoPi
    \/ /\ program = "semaphores" /\ S!Init
       /\ NoBarriers /\ NoBoard /\ NoCount /\ NoPi
    \/ /\ program = "board" /\ D!Init
       /\ NoTable /\ NoBarriers /\ NoSemaphores /\ NoCount /\ NoPi
    \/ /\ program = "count" /\ C!Init
       /\ NoTable /\ score = 0 /\ NoBarriers /\ NoSemaphores /\ NoBoard /\ NoPi
    \/ /\ program = "pi" /\ P!Init
       /\ NoTable /\ score = 0 /\ NoBarriers /\ NoSemaphores /\ NoBoard /\ NoCount

\* A step of one of the programs.
Barriers(A) ==
    program = "barriers" /\ A /\ UNCHANGED <<program, semaphoresOwn, boardOwn, countOwn, piOwn>>
Semaphores(A) ==
    program = "semaphores" /\ A /\ UNCHANGED <<program, barriersOwn, boardOwn, countOwn, piOwn>>
Board(A) ==
    /\ program = "board" /\ A
    /\ UNCHANGED <<program, tableOwn, barriersOwn, semaphoresOwn, countOwn, piOwn>>
LetterCount(A) ==
    /\ program = "count" /\ A
    /\ UNCHANGED <<program, tableVars, barriersOwn, semaphoresOwn, boardOwn, piOwn>>
MonteCarlo(A) ==
    /\ program = "pi" /\ A
    /\ UNCHANGED <<program, tableVars, barriersOwn, semaphoresOwn, boardOwn, countOwn>>

Over == CASE program = "barriers" -> B!Over [] program = "semaphores" -> S!Over
          [] program = "board" -> D!Over [] program = "count" -> C!Over [] program = "pi" -> P!Over

Next == \/ Barriers(B!Next) \/ Semaphores(S!Next) \/ Board(D!Next)
        \/ LetterCount(C!Next) \/ MonteCarlo(P!Next)
        \/ Over /\ UNCHANGED vars

\* What the i-th player or child does whenever it can, and the server or parent.
Act(i) == \/ Barriers(B!Step(<<p1, p2, p3>>[i])) \/ Semaphores(S!Run(<<p1, p2, p3>>[i]))
          \/ LetterCount(C!Step(i - 1)) \/ MonteCarlo(P!Step(i - 1))
Serve == \/ Barriers(B!Step(Server)) \/ Semaphores(S!Serve) \/ Board(D!Sighandling)
         \/ LetterCount(C!Step(-1)) \/ MonteCarlo(P!Step(-1))
\* What may have to wait for others again and again, at a semaphore or a mutex.
Await(i) == \/ Semaphores(S!Await(<<p1, p2, p3>>[i]))
            \/ Board(IF i = 1 THEN D!ServerStep ELSE D!Play(<<c1, c1, c2>>[i]))

\* All processes run.  Semaphores wake any of those that wait, and nobody is passed over at
\* the mutex of the board for ever, since all sleep between rounds.
Fairness == WF_vars(Serve) /\ \A i \in 1..3 : WF_vars(Act(i)) /\ SF_vars(Await(i))
FairSpec == Init /\ [][Next]_vars /\ Fairness

-----------------------------------------------------------------------------
(* Properties. *)

\* Points, counts and averages: what the programs add up is what there was to add, whoever
\* comes early, dies or aborts (PointsOnce, ReportRight, AverageRight).
SumsRight ==
    CASE program = "board" -> D!PointsOnce
      [] program = "count" -> C!ReportRight
      [] program = "pi"    -> P!AverageRight
      [] OTHER -> TRUE

\* Every client that has come to the board ends or is one of those that sleep, and so does the
\* server after SIGINT, though clients may die with the mutex.
HasCome(c) == program = "board" /\ pc[c] # "out"
HasEnded(c) == program # "board" \/ pc[c] \in D!Ended \union {"asleep"}
BoardEnds ==
    /\ \A c \in Clients : HasCome(c) ~> HasEnded(c)
    /\ (program = "board" /\ stop = "pending") ~> (program # "board" \/ pc["server"] = "ended")

\* Rounds of both versions: the cards drawn, the rounds decided and the rounds scored, as
\* the places of the players and of the server tell them.
Laid == [p \in Players |-> M - Cardinality(deck[p])]
BDecided == [p \in Players |->
                IF pc[p] \in {"draw", "begin1", "game1", "decide"} THEN round[p] - 1 ELSE round[p]]
BScored == IF pc[Server] \in {"begin1", "score"} THEN round[Server] - 1
           ELSE IF pc[Server] = "end" /\ round[Server] > M THEN M ELSE round[Server]
BRounds == INSTANCE Rounds WITH present <- Playing, laid <- Laid,
                                decided <- BDecided, scored <- BScored

SDecided == [p \in Players |->
                IF pc[p] \in {"wait_start", "lay", "wait_results", "decide"}
                THEN round[p] - 1 ELSE round[p]]
SScored == IF pc[Server] \in {"top", "start", "cards", "score"} THEN round[Server] - 1
           ELSE IF pc[Server] = "end" THEN round[Server] - 1 ELSE round[Server]
SRounds == INSTANCE Rounds WITH present <- Playing, laid <- Laid,
                                decided <- SDecided, scored <- SScored

\* However fast a player runs ahead, the game is played in rounds: no card of the next
\* round is laid before all have decided, and no round is scored before all cards are laid
\* (both barriers, initialised again with fewer players; and the four semaphores).
BarriersKeepRounds ==
    /\ program = "barriers" => BRounds!Init
    /\ [][program = "barriers" => [BRounds!Next]_(BRounds!vars)]_vars
SemaphoresKeepRounds ==
    /\ program = "semaphores" => SRounds!Init
    /\ [][program = "semaphores" => [SRounds!Next]_(SRounds!vars)]_vars

\* Nobody waits for a player that has left: the game and every player end (active + 1 of
\* the barriers; active_players of the semaphores); and so do the parents of children.
GameEnds == program # "board" => <>Over

\* Points go to players present, and no more of them than there are players present
\* ("scoring adapted to those present in the game", sop-cards-semaphores line 165).
Total(f) == FoldFunction(+, 0, f)
PaysPresent ==
    /\ \A p \in Players : score'[p] # score[p] => active[p] = PLAYING
    /\ Total(score') - Total(score) <= Cardinality(Playing)
SemaphoresPayThePresent == [][program = "semaphores" => PaysPresent]_vars
BarriersPayThePresent   == [][program = "barriers" => PaysPresent]_vars
=============================================================================
