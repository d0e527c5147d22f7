----------------------------- MODULE Messengers -----------------------------
(***************************************************************************)
(* lab07/poslancy/poslancy.c: messengers of two sides tell the server who  *)
(* owns a city, and the server tells the others in its table.              *)
(*                                                                         *)
(* remove_client frees the place of a client and decrements the counter    *)
(* that limits how many are accepted.  It is also called for a descriptor  *)
(* that is closed already: one whose client could not be written to, with  *)
(* an event still on the list.                                             *)
(***************************************************************************)
EXTENDS EventLoop

CONSTANTS MAX_CLIENTS,
          City, Owner, FirstOwner

Slot == 0..(MAX_CLIENTS - 1)

VARIABLES
    places,           \* clients[]: the descriptor at each place, or NoOne
    current_clients,
    cities,           \* cities[k]: the owner of k
    heard,            \* history: heard[c][k], the owner of k by what c last said or was told
    stale             \* history: how often remove_client found nobody to remove

local == <<places, current_clients, cities, heard, stale>>
vars  == <<loop, local>>

Nobody  == "nobody"
\* Messages: the owner of a city, or something that is no such message.
News    == City \X Owner
Bad     == <<>>

Init ==
    /\ LoopInit
    /\ places = [j \in Slot |-> NoOne]
    /\ current_clients = 0
    /\ cities = [k \in City |-> FirstOwner]
    /\ heard  = [c \in Client |-> [k \in City |-> Nobody]]
    /\ stale  = 0

Listed == {f \in Fd : \E j \in Slot : places[j] = f}
\* remove_client, for every descriptor of F: their places are free again.
Without(F) == [j \in Slot |-> IF places[j] \in F THEN NoOne ELSE places[j]]
-----------------------------------------------------------------------------
\* A client is accepted and given the first free place, if there is one.
Enter(c) ==
    LET free == {j \in Slot : places[j] = NoOne} IN
    /\ At(Listen) /\ Handled
    /\ current_clients < MAX_CLIENTS /\ Accept(c)
    /\ places' = [j \in Slot |-> IF j \in free /\ (\A i \in free : j <= i) THEN Lowest ELSE places[j]]
    /\ current_clients' = current_clients + 1
    /\ UNCHANGED <<up, cities, heard, stale>>

Reject(c) ==
    /\ At(Listen) /\ Handled
    /\ current_clients >= MAX_CLIENTS /\ TurnAway(c)
    /\ UNCHANGED <<up, local>>

\* Nothing can be read, or nothing that makes sense: the client is removed.
Remove(f) ==
    /\ At(f) /\ Handled
    /\ HasMessage(f) => Received(f) = Bad
    /\ inbox' = IF HasMessage(f) THEN Rest(f) ELSE inbox
    /\ CloseAll({f})
    /\ places' = Without({f})
    /\ current_clients' = current_clients - 1
    /\ stale' = IF conn[f] = NoOne THEN stale + 1 ELSE stale
    /\ UNCHANGED <<hung, sent, up, cities, heard>>

\* A city gets another owner, and all others in the table are told; of those that hung up,
\* the ones of Lost are found to be gone and removed.
Tell(f, k, o, Told, Lost) ==
    /\ CloseAll(Lost)
    /\ places' = Without(Lost)
    /\ current_clients' = current_clients - Cardinality(Lost)
    /\ heard' = [c \in Client |-> IF c = conn[f] \/ (\E g \in Told \ Lost : conn[g] = c)
                                  THEN [heard[c] EXCEPT ![k] = o] ELSE heard[c]]

\* The client at the last place is not told.  A mutant.
UpdateButLast(f) ==
    /\ At(f) /\ HasMessage(f) /\ Received(f) # Bad /\ Handled
    /\ inbox' = Rest(f)
    /\ LET k == Received(f)[1]
           o == Received(f)[2]
           others == IF cities[k] = o THEN {} ELSE Listed \ {f, places[MAX_CLIENTS - 1]}
       IN  /\ cities' = [cities EXCEPT ![k] = o]
           /\ \E Lost \in SUBSET {g \in others : Hung(g)} : Tell(f, k, o, others, Lost)
    /\ UNCHANGED <<hung, sent, up, stale>>

Update(f) ==
    /\ At(f) /\ HasMessage(f) /\ Received(f) # Bad /\ Handled
    /\ inbox' = Rest(f)
    /\ LET k == Received(f)[1]
           o == Received(f)[2]
           others == IF cities[k] = o THEN {} ELSE Listed \ {f}
       IN  /\ cities' = [cities EXCEPT ![k] = o]
           /\ \E Lost \in SUBSET {g \in others : Hung(g)} : Tell(f, k, o, others, Lost)
    /\ UNCHANGED <<hung, sent, up, stale>>

\* A write fails with something else than EPIPE: ERR.  It may be that of a connection that was
\* reset, or, as descriptors do not block, EAGAIN, as a client that is well does not read.
UpdateDies(f) ==
    /\ At(f) /\ HasMessage(f) /\ Received(f) # Bad
    /\ cities[Received(f)[1]] # Received(f)[2]
    /\ Listed \ {f} # {}
    /\ Die /\ UNCHANGED local

Stop == Sigint /\ UNCHANGED local

Handle == \/ \E c \in Client : Enter(c) \/ Reject(c)
          \/ \E f \in Fd : Remove(f) \/ Update(f) \/ UpdateDies(f)
Clients == (\E c \in Client : Connect(c) \/ Speak(c) \/ HangUp(c)) /\ UNCHANGED local
Next == Clients \/ (Poll /\ UNCHANGED local) \/ Handle \/ Stop
-----------------------------------------------------------------------------
(* Properties. *)

\* While the server runs, the table holds connections that are open, each once.  The counter is
\* right but for the events it handled of descriptors that were closed already: each of these
\* makes it one too small, so that later on a client is let in for which there is no place.
TableRight ==
    up => /\ Listed \subseteq Open
          /\ \A i, j \in Slot : i # j /\ places[i] = places[j] => places[i] = NoOne
          /\ current_clients + stale = Cardinality(Open)
          /\ stale = 0 => Listed = Open

\* Everybody in the table who has not hung up knows the owner of a city if it has ever said or
\* been told who that is.
NewsRight ==
    up => \A f \in Listed, k \in City : ~Hung(f) => heard[conn[f]][k] \in {Nobody, cities[k]}
=============================================================================
