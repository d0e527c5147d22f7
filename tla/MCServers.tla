------------------------------ MODULE MCServers ------------------------------
(***************************************************************************)
(* The servers of lab07 that wait for their clients by epoll; a behaviour  *)
(* runs one of them, and leaves the variables of the others alone.         *)
(***************************************************************************)
EXTENDS Integers, Sequences, FiniteSets, TLC

CONSTANTS
    Messenger, Client,    \* the clients of poslancy.c, and those of the other servers
    NewsOf, NameOf, VoteOf, PartOf, DataOf,  \* NewsOf[c], ...: what c says to each server
    Often,                \* Often[program][c]: how many messages c sends
    MAX_CLIENTS,          \* of poslancy.c and aigen.c
    City, Owner, FirstOwner,
    ELECTORS_NUM, LastVote,
    DigitSum,
    Local, HALF           \* of l7-1_server.c: who comes by the local socket, and 2^31

\* Clients are numbers, but not the number of nobody.  A messenger says what poslancy.c
\* understands, or something else; a client of sop-server.c sends one pid, whose digits have a sum;
\* one of l7-1_server.c one request.
ASSUME ServersAssumption ==
    /\ IsFiniteSet(Messenger) /\ Messenger \subseteq Nat
    /\ IsFiniteSet(Client) /\ Client \subseteq Nat
    /\ MAX_CLIENTS \in Nat
    /\ ELECTORS_NUM \in Nat
    /\ \A c \in Messenger : NewsOf[c] \subseteq (City \X Owner) \union {<<>>}
    /\ \A c \in Client : Often["sums"][c] \in 0..2 /\ DigitSum[c] \in Nat
    /\ HALF \in Nat \ {0}
    /\ \A c \in Client : Often["calculator"][c] \in 0..2 /\ DataOf[c] \subseteq Int \X STRING \X Int

VARIABLES program,
          side, hung, sent, inbox, conn, batch, up,             \* of EventLoop
          places, current_clients, cities, heard, stale,        \* of Messengers
          fds, families, pairs,                                 \* of Matchmaker
          fd, vote, announced, welcomed,                        \* of Electors
          highest_sum, answer,                                  \* of PidSums
          reply                                                 \* of Calculator

messengersOwn == <<places, current_clients, cities, heard, stale>>
matchmakerOwn == <<fds, families, pairs>>
electorsOwn   == <<fd, vote, announced, welcomed>>
sumsOwn       == <<highest_sum, answer>>
vars == <<program, side, hung, sent, inbox, conn, batch, up,
          messengersOwn, matchmakerOwn, electorsOwn, sumsOwn, reply>>

M == INSTANCE Messengers WITH Client <- Messenger, Says <- NewsOf, MaxSent <- Often["messengers"]
A == INSTANCE Matchmaker WITH Says <- NameOf, MaxSent <- Often["matchmaker"]
E == INSTANCE Electors WITH Says <- VoteOf, MaxSent <- Often["electors"]
P == INSTANCE PidSums WITH Says <- PartOf, MaxSent <- Often["sums"]
C == INSTANCE Calculator WITH Says <- DataOf, MaxSent <- Often["calculator"]

\* Variables of the servers that are not run.
NoMessengersOwn == places = 0 /\ current_clients = 0 /\ cities = 0 /\ heard = 0 /\ stale = 0
NoMatchmakerOwn == fds = 0 /\ families = 0 /\ pairs = 0
NoElectorsOwn   == fd = 0 /\ vote = 0 /\ announced = 0 /\ welcomed = 0
NoSumsOwn       == highest_sum = 0 /\ answer = 0
NoReply         == reply = 0

Init ==
    \/ /\ program = "messengers" /\ M!Init
       /\ NoMatchmakerOwn /\ NoElectorsOwn /\ NoSumsOwn /\ NoReply
    \/ /\ program = "matchmaker" /\ A!Init
       /\ NoMessengersOwn /\ NoElectorsOwn /\ NoSumsOwn /\ NoReply
    \/ /\ program = "electors" /\ E!Init
       /\ NoMessengersOwn /\ NoMatchmakerOwn /\ NoSumsOwn /\ NoReply
    \/ /\ program = "sums" /\ P!Init
       /\ NoMessengersOwn /\ NoMatchmakerOwn /\ NoElectorsOwn /\ NoReply
    \/ /\ program = "calculator" /\ C!Init
       /\ NoMessengersOwn /\ NoMatchmakerOwn /\ NoElectorsOwn /\ NoSumsOwn

Next ==
    /\ UNCHANGED program
    /\ \/ /\ program = "messengers" /\ M!Next
          /\ UNCHANGED <<matchmakerOwn, electorsOwn, sumsOwn, reply>>
       \/ /\ program = "matchmaker" /\ A!Next
          /\ UNCHANGED <<messengersOwn, electorsOwn, sumsOwn, reply>>
       \/ /\ program = "electors" /\ E!Next
          /\ UNCHANGED <<messengersOwn, matchmakerOwn, sumsOwn, reply>>
       \/ /\ program = "sums" /\ P!Next
          /\ UNCHANGED <<messengersOwn, matchmakerOwn, electorsOwn, reply>>
       \/ /\ program = "calculator" /\ C!Next
          /\ UNCHANGED <<messengersOwn, matchmakerOwn, electorsOwn, sumsOwn>>

Spec == Init /\ [][Next]_vars
-----------------------------------------------------------------------------
(* Properties. *)

\* What a server has in its table are connections that are open, and the table agrees with
\* itself: TableRight of poslancy.c, aigen.c and sop-hre.c, with the exceptions named there.
TablesRight ==
    CASE program = "messengers" -> M!TableRight
      [] program = "matchmaker" -> A!TableRight
      [] program = "electors"   -> E!TableRight
      [] OTHER -> TRUE

\* What a server has told its clients agrees with what it goes on with, and with what they have
\* told it: news, matches, votes, sums and results.
ToldRight ==
    CASE program = "messengers" -> M!NewsRight
      [] program = "matchmaker" -> A!MatchesRight
      [] program = "electors"   -> E!VotesKept
      [] program = "sums"       -> P!AnswersRight
      [] program = "calculator" -> C!RepliesRight
-----------------------------------------------------------------------------
(* The clients for model checking. *)

MCNewsOf   == (0 :> {<<"k", "p">>}) @@ (1 :> {<<"k", "g">>, <<>>}) @@ (2 :> {}) @@ (3 :> {})
MCNameOf   == (0 :> {"M", "C"}) @@ (1 :> {"C"}) @@ (2 :> {"M", "x"})
MCVoteOf   == (0 :> {0, 1}) @@ (1 :> {1, 2}) @@ (2 :> {2})
MCPartOf   == [c \in Client |-> {"digits"}]
MCDataOf   == (0 :> {<<-4, "/", -1>>, <<-3, "/", 2>>}) @@ (1 :> {<<3, "+", 1>>, <<1, "-", 3>>})
              @@ (2 :> {<<1, "/", 0>>, <<2, "?", 1>>, <<-2, "*", -2>>})
MCOften    == [s \in {"messengers", "matchmaker", "electors", "sums", "calculator"} |->
                 CASE s = "messengers" -> [c \in Messenger |-> 1]
                   [] s = "matchmaker" -> [c \in Client |-> IF c = 0 THEN 2 ELSE 1]
                   [] OTHER -> [c \in Client |-> 2]]
MCDigitSum == (0 :> 5) @@ (1 :> 9) @@ (2 :> 7)
=============================================================================
