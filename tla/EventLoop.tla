------------------------------ MODULE EventLoop ------------------------------
(***************************************************************************)
(* What the servers of lab07 share: connections and the epoll loop.        *)
(*                                                                         *)
(* epoll_pwait returns the descriptors that are ready at that moment; the  *)
(* server handles them one after the other without asking again.  So an    *)
(* event may still be on the list when its descriptor has been closed, and *)
(* even when accept has given the same number, the lowest one that is      *)
(* free, to another client.  Clients go on while an event is handled, but  *)
(* nothing they do is seen before the next read or write: a handler is one *)
(* step, and a write to a client that hung up may fail or not.             *)
(*                                                                         *)
(* ERR ends the server, at whatever place; SIGINT, which is blocked but in *)
(* epoll_pwait, ends it between two lists of events.                       *)
(***************************************************************************)
EXTENDS Integers, Sequences, FiniteSets
Lists == INSTANCE SequencesExt

CONSTANTS Client,   \* connections: who connects again is another client
          Says,     \* Says[c]: the messages that client c may send
          MaxSent   \* bound: MaxSent[c], how many it sends

NoOne  == -1
Listen == -1                          \* the event of the listening socket
Fd     == 0..(Cardinality(Client) - 1)

VARIABLES
    side,   \* side[c]: "away", "backlog", "accepted", or "closed" by the server
    hung,   \* hung[c]: client c has closed its end
    sent,   \* sent[c]: so many messages were sent by c
    inbox,  \* inbox[c]: what c has sent and the server has not read
    conn,   \* conn[f]: the client at descriptor f, or NoOne
    batch,  \* events that epoll_pwait returned and that are not handled yet
    up      \* the server runs

clients == <<side, hung, sent, inbox>>
loop    == <<clients, conn, batch, up>>

LoopInit ==
    /\ side  = [c \in Client |-> "away"]
    /\ hung  = [c \in Client |-> FALSE]
    /\ sent  = [c \in Client |-> 0]
    /\ inbox = [c \in Client |-> <<>>]
    /\ conn  = [f \in Fd |-> NoOne]
    /\ batch = <<>> /\ up = TRUE

Open == {f \in Fd : conn[f] # NoOne}
-----------------------------------------------------------------------------
(* Clients. *)

Connect(c) ==
    /\ up /\ side[c] = "away"
    /\ side' = [side EXCEPT ![c] = "backlog"]
    /\ UNCHANGED <<hung, sent, inbox, conn, batch, up>>

Speak(c) ==
    /\ up /\ side[c] \in {"backlog", "accepted"} /\ ~hung[c] /\ sent[c] < MaxSent[c]
    /\ \E m \in Says[c] : inbox' = [inbox EXCEPT ![c] = Append(@, m)]
    /\ sent'  = [sent EXCEPT ![c] = @ + 1]
    /\ UNCHANGED <<side, hung, conn, batch, up>>

HangUp(c) ==
    /\ up /\ side[c] \in {"backlog", "accepted"} /\ ~hung[c]
    /\ hung' = [hung EXCEPT ![c] = TRUE]
    /\ UNCHANGED <<side, sent, inbox, conn, batch, up>>
-----------------------------------------------------------------------------
(* The loop. *)

Events == {f \in Open : inbox[conn[f]] # <<>> \/ hung[conn[f]]}
          \union {e \in {Listen} : \E c \in Client : side[c] = "backlog"}

\* epoll_pwait
Poll ==
    /\ up /\ batch = <<>> /\ Events # {}
    /\ batch' \in Lists!SetToSeqs(Events)
    /\ UNCHANGED <<clients, conn, up>>

\* The next event is e, and is handled.
At(e)   == up /\ batch # <<>> /\ Head(batch) = e
Handled == batch' = Tail(batch)

\* add_new_client: accept gives c the lowest descriptor that is free.
Lowest == CHOOSE f \in Fd \ Open : \A g \in Fd \ Open : f <= g
Accept(c) ==
    /\ side[c] = "backlog"
    /\ conn' = [conn EXCEPT ![Lowest] = c]
    /\ side' = [side EXCEPT ![c] = "accepted"]
    /\ UNCHANGED <<hung, sent, inbox>>

\* Accept c and close the connection at once.
TurnAway(c) ==
    /\ side[c] = "backlog"
    /\ side' = [side EXCEPT ![c] = "closed"]
    /\ UNCHANGED <<hung, sent, inbox, conn>>

\* read of descriptor f: there is a message; or there is none, since the client hung up (0),
\* has sent nothing (EAGAIN), or the descriptor is closed (EBADF).
HasMessage(f) == conn[f] # NoOne /\ inbox[conn[f]] # <<>>
Received(f)   == Head(inbox[conn[f]])
Rest(f)       == [inbox EXCEPT ![conn[f]] = Tail(@)]
Hung(f)       == conn[f] # NoOne /\ hung[conn[f]]

\* close of all descriptors of F.  One that is closed already stays so.
CloseAll(F) ==
    /\ conn' = [f \in Fd |-> IF f \in F THEN NoOne ELSE conn[f]]
    /\ side' = [c \in Client |-> IF \E f \in F : conn[f] = c THEN "closed" ELSE side[c]]

\* The server ends: by ERR, or when SIGINT has come to epoll_pwait.
Die == /\ up' = FALSE /\ batch' = <<>>
       /\ CloseAll(Fd) /\ UNCHANGED <<hung, sent, inbox>>
Sigint == up /\ batch = <<>> /\ Die
=============================================================================
