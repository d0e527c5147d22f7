------------------------------ MODULE Electors ------------------------------
(***************************************************************************)
(* lab07/prelab/sop-hre.c: a client that sends 1 to 7 becomes that elector *)
(* if nobody else is, and the digits 0 to 2 that it sends from then on are *)
(* its votes.  A thread announces them.                                    *)
(*                                                                         *)
(* When read returns 0 the server closes the descriptor, but goes on to    *)
(* look at msg, which read has not set: it may be whatever was on the      *)
(* stack, such as the message before.  If that is the number of an elector *)
(* that nobody is, the server writes to the closed descriptor and ends.    *)
(* SIGPIPE is not ignored either: writing to a client that hung up may end *)
(* the server as well.                                                     *)
(***************************************************************************)
EXTENDS EventLoop

CONSTANTS ELECTORS_NUM, LastVote  \* electors 1..ELECTORS_NUM, votes 0..LastVote

Elector == 1..ELECTORS_NUM
Digit   == 0..ELECTORS_NUM
NoVote  == -1
Nobody  == 0

VARIABLES
    fd,         \* electors[j].fd; it is NoOne just when electors[j].connected is 0
    vote,       \* electors[j].vote
    announced,  \* history: what the thread has last sent of each elector
    welcomed    \* history: welcomed[c]: the elector as whom c was welcomed, or Nobody

local == <<fd, vote, announced, welcomed>>
vars  == <<loop, local>>

Init ==
    /\ LoopInit
    /\ fd        = [j \in Elector |-> NoOne]
    /\ vote      = [j \in Elector |-> NoVote]
    /\ announced = [j \in Elector |-> NoVote]
    /\ welcomed  = [c \in Client |-> Nobody]

Is(f)     == {j \in Elector : fd[j] = f}  \* the elector at descriptor f
Vacant(g) == {j \in Elector : g[j] = NoOne}
Read(f)   == inbox' = Rest(f)
-----------------------------------------------------------------------------
(* do_server *)

Enter(c) ==
    /\ At(Listen) /\ Handled /\ Accept(c)
    /\ UNCHANGED <<up, local>>

\* The client has hung up; msg is not the number of a vacant place.
Leave(f) ==
    LET left == [j \in Elector |-> IF j \in Is(f) THEN NoOne ELSE fd[j]] IN
    /\ At(f) /\ ~HasMessage(f) /\ Hung(f) /\ Handled
    /\ \E msg \in Digit : msg \notin Vacant(left)
    /\ fd' = left
    /\ CloseAll({f})
    /\ UNCHANGED <<hung, sent, inbox, up, vote, announced, welcomed>>

\* msg is, and the welcome can not be written; or read fails already.
LeaveDies(f) ==
    /\ At(f) /\ ~HasMessage(f) /\ Hung(f)
    /\ Die /\ UNCHANGED local

\* A message of an elector: its vote, or nothing.
CastVote(f) ==
    /\ At(f) /\ HasMessage(f) /\ Is(f) # {} /\ Handled
    /\ Read(f)
    /\ vote' = [j \in Elector |-> IF j \in Is(f) /\ Received(f) \in 0..LastVote THEN Received(f) ELSE vote[j]]
    /\ UNCHANGED <<side, hung, sent, conn, up, fd, announced, welcomed>>

\* The place need not be vacant.  A mutant.
RegisterAnyway(f) ==
    /\ At(f) /\ HasMessage(f) /\ Is(f) = {} /\ Handled
    /\ Received(f) \in Elector
    /\ Read(f)
    /\ fd' = [fd EXCEPT ![Received(f)] = f]
    /\ welcomed' = [welcomed EXCEPT ![conn[f]] = Received(f)]
    /\ UNCHANGED <<side, hung, sent, conn, up, vote, announced>>

\* The first message of a client that makes it an elector,
Register(f) ==
    /\ At(f) /\ HasMessage(f) /\ Is(f) = {} /\ Handled
    /\ Received(f) \in Vacant(fd)
    /\ Read(f)
    /\ fd' = [fd EXCEPT ![Received(f)] = f]
    /\ welcomed' = [welcomed EXCEPT ![conn[f]] = Received(f)]
    /\ UNCHANGED <<side, hung, sent, conn, up, vote, announced>>

\* or the welcome of which ends the server,
RegisterDies(f) ==
    /\ At(f) /\ HasMessage(f) /\ Is(f) = {} /\ Received(f) \in Vacant(fd)
    /\ Hung(f)
    /\ Die /\ UNCHANGED local

\* or that is refused, since somebody is that elector,
Refuse(f) ==
    /\ At(f) /\ HasMessage(f) /\ Is(f) = {} /\ Handled
    /\ Received(f) \in Elector \ Vacant(fd)
    /\ Read(f) /\ CloseAll({f})
    /\ UNCHANGED <<hung, sent, up, local>>

\* or that is not the number of one.
Ignore(f) ==
    /\ At(f) /\ HasMessage(f) /\ Is(f) = {} /\ Handled
    /\ Received(f) \notin Elector
    /\ Read(f)
    /\ UNCHANGED <<side, hung, sent, conn, up, local>>

Stop == Sigint /\ UNCHANGED local
-----------------------------------------------------------------------------
\* election_broadcast_thread: all votes, under the mutex that protects them.
Announce ==
    /\ up /\ announced' = vote
    /\ UNCHANGED <<loop, fd, vote, welcomed>>

Handle == \/ \E c \in Client : Enter(c)
          \/ \E f \in Fd : \/ Leave(f) \/ LeaveDies(f) \/ CastVote(f) \/ Ignore(f)
                           \/ Register(f) \/ RegisterDies(f) \/ Refuse(f)
Clients == (\E c \in Client : Connect(c) \/ Speak(c) \/ HangUp(c)) /\ UNCHANGED local
Next == Clients \/ (Poll /\ UNCHANGED local) \/ Handle \/ Stop \/ Announce
-----------------------------------------------------------------------------
(* Properties. *)

\* While the server runs every elector is at a connection that is open, and whoever was welcomed
\* as an elector and has not left is that elector and no other; nobody takes the place of
\* another.
TableRight ==
    up => /\ \A j \in Elector : fd[j] # NoOne => fd[j] \in Open
          /\ \A f \in Open, j \in Elector : fd[j] = f <=> welcomed[conn[f]] = j

\* Whose vote was announced still has one in the final list, whoever has left meanwhile.
VotesKept == \A j \in Elector : announced[j] # NoVote => vote[j] # NoVote
=============================================================================
