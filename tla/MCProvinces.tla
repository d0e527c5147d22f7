----------------------------- MODULE MCProvinces -----------------------------
(***************************************************************************)
(* The two programs of lab05 that send messages over a map of provinces; a *)
(* behaviour plays one of them, while the tables of MCPipeGames are empty. *)
(* They are played on three provinces: the map without a cycle has two     *)
(* ways from 0 to 2; the other one is that in lab05/generated/mapa.txt, a  *)
(* ring.                                                                   *)
(***************************************************************************)
EXTENDS MCPipeGames, Functions

CONSTANTS HowMany,               \* provinces
          MapRoads, Directives,  \* of Provinces
          routes, Packets        \* of Routes

Triangle == {<<0, 1>>, <<0, 2>>, <<1, 2>>}
Ring     == {<<0, 1>>, <<1, 2>>, <<2, 0>>}
OneLetter  == <<"a">>
TwoLetters == <<"a", "b">>
Routes3    == <<<<0, 1, 2>>, <<0, 2>>>>

VARIABLES interrupted,
          last_char, todo, next, heard,       \* of Provinces
          pkt, messages_relayed, sent         \* of Routes; with the reports

V == INSTANCE Provinces WITH N <- HowMany, Roads <- MapRoads
W == INSTANCE Routes WITH N <- HowMany, Letters <- Packets

ASSUME MapAssumption == V!ProperMap /\ W!ProperRoutes

floodOwn == <<last_char, todo, next, heard>>
routeOwn == <<pkt, messages_relayed, sent, reports>>
tables   == <<asked, keep_running, lottoOwn, rouletteOwn, cardsOwn, shipOwn, ringOwn, battleOwn,
              items, copies, count, written, sessions, childOwn, mailOwn>>
mapVars  == <<program, pipes, pc, turn, interrupted, floodOwn, routeOwn, tables>>

MapInit ==
    /\ \/ /\ program = "flood" /\ V!Init
          /\ pkt = 0 /\ messages_relayed = 0 /\ sent = 0 /\ reports = 0
       \/ /\ program = "routes" /\ W!Init
          /\ last_char = 0 /\ todo = 0 /\ next = 0 /\ heard = 0
    /\ NoAsked /\ NoFlag /\ NoLottoOwn /\ NoRouletteOwn /\ NoCardsOwn /\ NoShipOwn /\ NoRingOwn
    /\ NoBattleOwn /\ NoChildOwn /\ NoMailOwn
    /\ items = 0 /\ copies = 0 /\ count = 0 /\ written = 0 /\ sessions = 0

\* A step of one of the programs, and its fairness.
Flood(A) == program = "flood" /\ A /\ UNCHANGED <<program, routeOwn, tables>>
Route(A) == program = "routes" /\ A /\ UNCHANGED <<program, floodOwn, tables>>

MapNext == Flood(V!Next) \/ Route(W!Next)

MapSpec ==
    /\ MapInit /\ [][MapNext]_mapVars
    /\ WF_mapVars(Flood(V!Rosada)) /\ WF_mapVars(Route(W!Rosada))
    /\ \A k \in 0..(HowMany - 1) : WF_mapVars(Flood(V!Act(k))) /\ WF_mapVars(Route(W!Act(k)))

-----------------------------------------------------------------------------
(* Properties. *)

\* Unless SIGINT stops them, a province does not end while anything is on its way to it:
\* every directive reaches every province that roads lead to, and the reports, one from each
\* province, account for every step of every packet.
Seen(k) == Packets * Cardinality({r \in DOMAIN routes : k \in Range(routes[r])})
DirectivesArrive ==
    interrupted = {} =>
        /\ program = "flood" /\ V!Over => \A k \in V!Reached : heard[k] = Range(Directives)
        /\ program = "routes" /\ W!Over =>
              reports = {[province |-> k, relayed |-> Seen(k)] : k \in W!Province}

\* On a map without a cycle, the end of the FIFO, or SIGINT at any process, ends all
\* processes one after the other.
CascadeEnds == <>(IF program = "flood" THEN V!Over ELSE W!Over)

\* "The closing of boss_to_p0 starts the cascade of closings at the provinces"
\* (generated.c lines 270-271).
FloodCascadeEnds == program = "flood" /\ [](interrupted = {}) => <>V!Over
=============================================================================
