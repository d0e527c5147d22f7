----------------------------- MODULE Matchmaker -----------------------------
(***************************************************************************)
(* lab07/aigen/aigen.c: whoever says that it is of one family is matched   *)
(* with somebody of the other one who waits, or else waits in the table.   *)
(* The two listening sockets, local and TCP, are one here.                 *)
(*                                                                         *)
(* The server does not look whether a client is in the table already: one  *)
(* that speaks again while it waits is put there again, or matched with    *)
(* itself, and its second place outlives it, for whoever gets its          *)
(* descriptor next.  A message to a place whose descriptor is closed ends  *)
(* the server.                                                             *)
(***************************************************************************)
EXTENDS EventLoop

CONSTANT MAX_CLIENTS

Slot   == 0..(MAX_CLIENTS - 1)
Family == {"M", "C"}  \* a client says one of them, or something else

VARIABLES
    fds, families,  \* clients[].fd and clients[].family at each place
    pairs           \* history: the matches, <<who spoke, who waited>>

local == <<fds, families, pairs>>
vars  == <<loop, local>>

NoFamily == "none"

Init ==
    /\ LoopInit
    /\ fds = [j \in Slot |-> NoOne] /\ families = [j \in Slot |-> NoFamily]
    /\ pairs = {}

First(S)       == CHOOSE j \in S : \A i \in S : j <= i
\* remove_client: only the first place of f is freed.
Place(f)       == {j \in Slot : fds[j] = f}
Freed(f)       == IF Place(f) = {} THEN {} ELSE {First(Place(f))}
RemovePlace(f) == /\ fds' = [j \in Slot |-> IF j \in Freed(f) THEN NoOne ELSE fds[j]]
                  /\ families' = [j \in Slot |-> IF j \in Freed(f) THEN NoFamily ELSE families[j]]

\* read: of what the client has sent, however many messages that is, the first letter counts.
ReadSome(f) ==
    \E n \in 1..Len(inbox[conn[f]]) :
        inbox' = [inbox EXCEPT ![conn[f]] = SubSeq(@, n + 1, Len(@))]
-----------------------------------------------------------------------------
Enter(c) ==
    /\ At(Listen) /\ Handled /\ Accept(c)
    /\ UNCHANGED <<up, local>>

\* Nothing can be read, or no family.
Remove(f) ==
    /\ At(f) /\ Handled
    /\ IF HasMessage(f) THEN Received(f) \notin Family /\ ReadSome(f) ELSE UNCHANGED inbox
    /\ CloseAll({f}) /\ RemovePlace(f)
    /\ UNCHANGED <<hung, sent, up, pairs>>

\* Places of the other family.
Others(family) == {j \in Slot : fds[j] # NoOne /\ families[j] \notin {NoFamily, family}}

Match(f) ==
    /\ At(f) /\ HasMessage(f) /\ Received(f) \in Family /\ Handled
    /\ Others(Received(f)) # {}
    /\ ReadSome(f)
    /\ LET p == fds[First(Others(Received(f)))] IN
         /\ conn[p] # NoOne
         /\ pairs' = pairs \union {<<conn[f], conn[p]>>}
         /\ RemovePlace(p) /\ CloseAll({f, p})
    /\ UNCHANGED <<hung, sent, up>>

\* A write fails: to a descriptor that is closed, or (not always) to somebody who has hung up.
MatchDies(f) ==
    /\ At(f) /\ HasMessage(f) /\ Received(f) \in Family
    /\ Others(Received(f)) # {}
    /\ LET p == fds[First(Others(Received(f)))] IN conn[p] = NoOne \/ Hung(p) \/ Hung(f)
    /\ Die /\ UNCHANGED local

\* Nobody to match: the first free place, if there is one.  What waits is not looked at.
Queue(f) ==
    LET free == {j \in Slot : fds[j] = NoOne} IN
    /\ fds' = [j \in Slot |-> IF free # {} /\ j = First(free) THEN f ELSE fds[j]]
    /\ families' = [j \in Slot |-> IF free # {} /\ j = First(free) THEN Received(f) ELSE families[j]]

Wait(f) ==
    /\ At(f) /\ HasMessage(f) /\ Received(f) \in Family /\ Handled
    /\ Others(Received(f)) = {}
    /\ ReadSome(f) /\ Queue(f)
    /\ UNCHANGED <<side, hung, sent, conn, up, pairs>>

Stop == Sigint /\ UNCHANGED local

Handle == \/ \E c \in Client : Enter(c)
          \/ \E f \in Fd : Remove(f) \/ Match(f) \/ MatchDies(f) \/ Wait(f)
Clients == (\E c \in Client : Connect(c) \/ Speak(c) \/ HangUp(c)) /\ UNCHANGED local
Next == Clients \/ (Poll /\ UNCHANGED local) \/ Handle \/ Stop
-----------------------------------------------------------------------------
(* Properties. *)

\* Nobody speaks twice.
Once == \A c \in Client : sent[c] <= 1

\* Two families never wait at the same time.  If nobody has spoken twice everybody in the table
\* has a connection, and one place.
TableRight ==
    up => /\ \A i, j \in Slot : fds[i] # NoOne /\ fds[j] # NoOne => families[i] = families[j]
          /\ Once => /\ \A j \in Slot : fds[j] # NoOne => fds[j] \in Open
                     /\ \A i, j \in Slot : i # j /\ fds[i] = fds[j] => fds[i] = NoOne

\* If nobody has spoken twice nobody is matched twice, nor with itself.
MatchesRight ==
    Once => /\ \A m \in pairs : m[1] # m[2]
            /\ \A m, n \in pairs : m # n => {m[1], m[2]} \intersect {n[1], n[2]} = {}
=============================================================================
