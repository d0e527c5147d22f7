--------------------------- MODULE ServersProofs ---------------------------
(***************************************************************************)
(* The servers of lab07: what they keep in their tables, and what they     *)
(* have told their clients, for all clients, messages and sizes.  First    *)
(* what accept and close do to descriptors, which is the same for all of   *)
(* them; then an inductive invariant for each server; last, all together.  *)
(***************************************************************************)
EXTENDS MCServers, TLAPS, FiniteSetTheorems, SequenceTheorems, WellFoundedInduction

\* The descriptors of EventLoop, for either set of clients.
NoOne == -1
Fd(Cl)     == 0..(Cardinality(Cl) - 1)
Open(Cl)   == {f \in Fd(Cl) : conn[f] # NoOne}
Lowest(Cl) == CHOOSE f \in Fd(Cl) \ Open(Cl) : \A g \in Fd(Cl) \ Open(Cl) : f <= g

Sides == {"away", "backlog", "accepted", "closed"}

\* A client that has an open descriptor was accepted, and has one only.
Connected(Cl) ==
    /\ conn \in [Fd(Cl) -> Cl \union {NoOne}]
    /\ side \in [Cl -> Sides]
    /\ \A f, g \in Open(Cl) : conn[f] = conn[g] => f = g
    /\ \A f \in Open(Cl) : side[conn[f]] = "accepted"

\* close of the descriptors of F, open or not.
CloseAll(Cl, F) ==
    /\ conn' = [f \in Fd(Cl) |-> IF f \in F THEN NoOne ELSE conn[f]]
    /\ side' = [c \in Cl |-> IF \E f \in F : conn[f] = c THEN "closed" ELSE side[c]]

-----------------------------------------------------------------------------
\* A set of numbers that is not empty has a least one, which CHOOSE finds.
LEMMA Least ==
    ASSUME NEW S, S \subseteq Nat, S # {}
    PROVE  LET m == CHOOSE y \in S : \A z \in S : y <= z IN m \in S /\ \A z \in S : m <= z
<1>1. IsWellFoundedOn(OpToRel(<, Nat), Nat)
  BY NatLessThanWellFounded, Zenon
<1>2. PICK y \in S : \A z \in S : ~(<<z, y>> \in OpToRel(<, Nat))
  BY <1>1, WFMin, Zenon
<1>3. \A z \in S : ~(z < y)
  BY <1>2 DEF OpToRel
<1>4. \A z \in S : y <= z
  BY <1>3
<1>. QED
  BY <1>4

\* While a client is in the backlog a descriptor is free: each of the others has one at most.
LEMMA FreeDescriptor ==
    ASSUME NEW Cl, IsFiniteSet(Cl), Cl \subseteq Nat, Connected(Cl),
           NEW c \in Cl, side[c] = "backlog"
    PROVE  Fd(Cl) \ Open(Cl) # {}
<1>. DEFINE n == Cardinality(Cl)
            others == Cl \ {c}
            who == [f \in Fd(Cl) |-> conn[f]]
<1>1. IsFiniteSet(others) /\ Cardinality(others) = n - 1 /\ n \in Nat
  BY FS_RemoveElement, FS_CardinalityType
<1>2. IsFiniteSet(Fd(Cl)) /\ Cardinality(Fd(Cl)) = n
  <2>1. n - 1 \in Int
    BY <1>1
  <2>2. IsFiniteSet(0..(n - 1)) /\ Cardinality(0..(n - 1)) = IF 0 > n - 1 THEN 0 ELSE n - 1 - 0 + 1
    BY <2>1, FS_Interval
  <2>. HIDE DEF n
  <2>3. Cardinality(0..(n - 1)) = n
    BY <1>1, <2>2
  <2>. QED
    BY <2>2, <2>3 DEF Fd, n
<1>3. SUFFICES ASSUME Fd(Cl) \subseteq Open(Cl) PROVE FALSE
  OBVIOUS
<1>4. who \in [Fd(Cl) -> others]
  BY <1>3 DEF Connected, Open, NoOne
<1>5. PICK f, g \in Fd(Cl) : f # g /\ who[f] = who[g]
  <2>. HIDE DEF n, others, who
  <2>1. Cardinality(others) < Cardinality(Fd(Cl))
    BY <1>1, <1>2
  <2>. QED
    BY <1>1, <1>2, <1>4, <2>1, FS_PigeonHole
<1>. QED
  BY <1>3, <1>5 DEF Connected

\* accept: a descriptor that was free, the lowest one, is now the client's.
LEMMA Accepted ==
    ASSUME NEW Cl, IsFiniteSet(Cl), Cl \subseteq Nat, Connected(Cl),
           NEW c \in Cl, side[c] = "backlog",
           conn' = [conn EXCEPT ![Lowest(Cl)] = c],
           side' = [side EXCEPT ![c] = "accepted"]
    PROVE  /\ Connected(Cl)'
           /\ Lowest(Cl) \in Fd(Cl) \ Open(Cl)
           /\ Open(Cl)' = Open(Cl) \union {Lowest(Cl)}
           /\ conn'[Lowest(Cl)] = c
           /\ \A g \in Open(Cl) : conn'[g] = conn[g]
<1>1. Lowest(Cl) \in Fd(Cl) \ Open(Cl)
  <2>1. Fd(Cl) \ Open(Cl) \subseteq Nat
    BY DEF Fd
  <2>. QED
    BY <2>1, FreeDescriptor, Least DEF Lowest
<1>. DEFINE low == Lowest(Cl)
<1>. HIDE DEF low
<1>2. conn' = [conn EXCEPT ![low] = c] /\ low \in Fd(Cl) \ Open(Cl)
  BY <1>1 DEF low
<1>3. Open(Cl)' = Open(Cl) \union {low}
  BY <1>2 DEF Connected, Open, NoOne, Fd
<1>4. conn'[low] = c /\ \A g \in Open(Cl) : g # low /\ conn'[g] = conn[g]
  BY <1>2 DEF Connected, Open
<1>5. \A g \in Open(Cl) : conn[g] \in Cl /\ conn[g] # c
  BY DEF Connected, Open
<1>6. conn' \in [Fd(Cl) -> Cl \union {NoOne}] /\ side' \in [Cl -> Sides]
  <2>1. conn \in [Fd(Cl) -> Cl \union {NoOne}] /\ low \in Fd(Cl) /\ c \in Cl \union {NoOne}
    BY <1>2 DEF Connected
  <2>2. side \in [Cl -> Sides] /\ "accepted" \in Sides
    BY DEF Connected, Sides
  <2>3. conn' \in [Fd(Cl) -> Cl \union {NoOne}]
    BY <1>2, <2>1
  <2>. QED
    BY <2>2, <2>3
<1>7. \A f, g \in Open(Cl) \union {low} : conn'[f] = conn'[g] => f = g
  <2>1. \A f, g \in Open(Cl) : conn[f] = conn[g] => f = g
    BY DEF Connected
  <2>. QED
    BY <1>4, <1>5, <2>1
<1>8. \A f \in Open(Cl)' : side'[conn'[f]] = "accepted"
  BY <1>3, <1>4, <1>5 DEF Connected
<1>9. Connected(Cl)'
  BY <1>3, <1>6, <1>7, <1>8 DEF Connected, Fd
<1>. QED
  BY <1>2, <1>3, <1>4, <1>9 DEF low

\* close of the descriptors of F, open or not.
LEMMA Closed ==
    ASSUME NEW Cl, Cl \subseteq Nat, Connected(Cl), NEW F, F \subseteq Fd(Cl),
           CloseAll(Cl, F)
    PROVE  /\ Connected(Cl)'
           /\ Open(Cl)' = Open(Cl) \ F
           /\ \A g \in Open(Cl)' : conn'[g] = conn[g]
           /\ \A c \in Cl : side'[c] # side[c] => side[c] = "accepted" /\ side'[c] = "closed"
           /\ \A g \in F \intersect Open(Cl) : side'[conn[g]] = "closed"
<1>. USE DEF CloseAll
<1>1. Open(Cl)' = Open(Cl) \ F
  BY DEF Connected, Open, Fd
<1>2. \A g \in Open(Cl)' : conn'[g] = conn[g] /\ g \in Fd(Cl) /\ g \notin F
  BY <1>1 DEF Open
<1>3. \A c \in Cl : side'[c] # side[c] => side[c] = "accepted" /\ side'[c] = "closed"
  <2>. TAKE c \in Cl
  <2>. HAVE side'[c] # side[c]
  <2>1. PICK f \in F : conn[f] = c /\ side'[c] = "closed"
    OBVIOUS
  <2>. QED
    BY <2>1 DEF Connected, Open, NoOne
<1>4. \A g \in F \intersect Open(Cl) : side'[conn[g]] = "closed"
  BY DEF Connected, Open
<1>5. \A g \in Open(Cl)' : side'[conn'[g]] = "accepted"
  <2>. TAKE g \in Open(Cl)'
  <2>1. conn[g] \in Cl /\ side[conn[g]] = "accepted" /\ conn'[g] = conn[g] /\ g \in Open(Cl) \ F
    BY <1>1, <1>2 DEF Connected, Open
  <2>2. ~\E f \in F : conn[f] = conn[g]
    BY <2>1 DEF Connected, Open, NoOne
  <2>. QED
    BY <2>1, <2>2
<1>6. conn' \in [Fd(Cl) -> Cl \union {NoOne}] /\ side' \in [Cl -> Sides]
  BY DEF Connected, Sides
<1>7. \A f, g \in Open(Cl)' : conn'[f] = conn'[g] => f = g
  BY <1>1, <1>2 DEF Connected
<1>8. Connected(Cl)'
  BY <1>5, <1>6, <1>7 DEF Connected, Fd
<1>. QED
  BY <1>1, <1>2, <1>3, <1>4, <1>8

\* A client that has no descriptor goes elsewhere: it connects, or is turned away.
LEMMA Elsewhere ==
    ASSUME NEW Cl, Connected(Cl), NEW c \in Cl, side[c] # "accepted", NEW x \in Sides,
           side' = [side EXCEPT ![c] = x], conn' = conn
    PROVE  Connected(Cl)' /\ Open(Cl)' = Open(Cl)
<1>1. Open(Cl)' = Open(Cl) /\ Fd(Cl)' = Fd(Cl)
  BY DEF Open, Fd
<1>2. \A f \in Open(Cl) : conn[f] \in Cl /\ conn[f] # c
  BY DEF Connected, Open
<1>. QED
  BY <1>1, <1>2 DEF Connected

-----------------------------------------------------------------------------
\* What comes to a client's inbox, and what the server takes out of it.
LEMMA Inbox ==
    ASSUME NEW Cl, NEW S, inbox \in [Cl -> Seq(S)], NEW c \in Cl
    PROVE  /\ \A m \in S : [inbox EXCEPT ![c] = Append(@, m)] \in [Cl -> Seq(S)]
           /\ inbox[c] # <<>> => /\ Head(inbox[c]) \in S
                                 /\ [inbox EXCEPT ![c] = Tail(@)] \in [Cl -> Seq(S)]
<1>1. inbox[c] \in Seq(S)
  OBVIOUS
<1>2. \A m \in S : Append(inbox[c], m) \in Seq(S)
  BY <1>1
<1>3. inbox[c] # <<>> => Head(inbox[c]) \in S /\ Tail(inbox[c]) \in Seq(S)
  BY <1>1
<1>. QED
  BY <1>2, <1>3

\* Descriptors are finitely many, and so are those that are open.
LEMMA Finite ==
    ASSUME NEW Cl, IsFiniteSet(Cl)
    PROVE  /\ IsFiniteSet(Fd(Cl)) /\ IsFiniteSet(Open(Cl))
           /\ Cardinality(Open(Cl)) \in Nat
           /\ \A F : F \subseteq Fd(Cl) => IsFiniteSet(F) /\ Cardinality(F) \in Nat
<1>1. IsFiniteSet(Fd(Cl))
  BY FS_CardinalityType, FS_Interval DEF Fd
<1>2. Open(Cl) \subseteq Fd(Cl)
  BY DEF Open
<1>. QED
  BY <1>1, <1>2, FS_Subset, FS_CardinalityType

\* A message more, and a message less.
LEMMA Messages ==
    ASSUME NEW S, NEW s \in Seq(S)
    PROVE  /\ Len(s) \in Nat
           /\ \A m \in S : Append(s, m) \in Seq(S) /\ Len(Append(s, m)) = Len(s) + 1
           /\ s # <<>> => /\ Head(s) \in S /\ Tail(s) \in Seq(S)
                          /\ Len(Tail(s)) = Len(s) - 1
BY HeadTailProperties, AppendProperties
-----------------------------------------------------------------------------
(* The messengers, poslancy.c. *)

MType ==
    /\ up \in BOOLEAN /\ hung \in [Messenger -> BOOLEAN]
    /\ inbox \in [Messenger -> Seq(M!News \union {M!Bad})]
    /\ places \in [M!Slot -> Fd(Messenger) \union {NoOne}]
    /\ current_clients \in Int /\ stale \in Nat
    /\ cities \in [City -> Owner \union {FirstOwner}]
    /\ heard \in [Messenger -> [City -> Owner \union {M!Nobody}]]

\* Who is not accepted yet has heard nothing.
MNewInv ==
    \A c \in Messenger : side[c] \in {"away", "backlog"} =>
        \A town \in City : heard[c][town] = M!Nobody

MInv == Connected(Messenger) /\ MType /\ MNewInv /\ M!TableRight /\ M!NewsRight

\* Messengers has the descriptors that this module has, and counts as it does.
LEMMA SameDescriptorsM ==
    /\ \A X : M!Cardinality(X) = Cardinality(X)
    /\ M!Fd = Fd(Messenger)
    /\ M!Open = Open(Messenger) /\ (M!Open)' = Open(Messenger)'
    /\ M!Lowest = Lowest(Messenger)
    /\ M!NoOne = NoOne
    /\ \A F : M!CloseAll(F) <=> CloseAll(Messenger, F)
<1>1. \A X : M!Cardinality(X) = Cardinality(X)
  BY DEF M!Cardinality, Cardinality
<1>2. M!Fd = Fd(Messenger) /\ M!NoOne = NoOne
  BY <1>1 DEF M!Fd, Fd, M!NoOne, NoOne
<1>3. M!Open = Open(Messenger) /\ (M!Open)' = Open(Messenger)'
  BY <1>2 DEF M!Open, Open
<1>4. \A F : M!CloseAll(F) <=> CloseAll(Messenger, F)
  BY <1>2 DEF M!CloseAll, CloseAll
<1>5. M!Lowest = Lowest(Messenger)
  BY <1>2, <1>3, Zenon DEF M!Lowest, Lowest
<1>. QED
  BY <1>1, <1>2, <1>3, <1>4, <1>5

\* The table of the server, in the words of this module.
Listed == {f \in Fd(Messenger) : \E j \in M!Slot : places[j] = f}
PlacesInv ==
    /\ Listed \subseteq Open(Messenger)
    /\ \A i, j \in M!Slot : i # j /\ places[i] = places[j] => places[i] = NoOne
    /\ current_clients + stale = Cardinality(Open(Messenger))
    /\ stale = 0 => Listed = Open(Messenger)
InformedInv ==
    \A f \in Listed, town \in City :
        ~hung[conn[f]] => heard[conn[f]][town] \in {M!Nobody, cities[town]}

\* TableRight and NewsRight in these words; nothing is asked of a server that has ended.
LEMMA SameTable ==
    /\ M!Listed = Listed
    /\ M!TableRight <=> (up => PlacesInv)
    /\ M!TableRight' <=> (up' => PlacesInv')
    /\ M!TableRight /\ up /\ Connected(Messenger) => (M!NewsRight <=> InformedInv)
    /\ M!TableRight' /\ up' /\ Connected(Messenger)' => (M!NewsRight' <=> InformedInv')
    /\ ~up' => M!TableRight' /\ M!NewsRight'
<1>1. M!Listed = Listed /\ (M!Listed)' = Listed'
  BY SameDescriptorsM DEF M!Listed, Listed
<1>2. M!TableRight <=> (up => PlacesInv)
  BY <1>1, SameDescriptorsM DEF M!TableRight, PlacesInv
<1>3. M!TableRight' <=> (up' => PlacesInv')
  BY <1>1, SameDescriptorsM DEF M!TableRight, PlacesInv
<1>4. ASSUME M!TableRight, up, Connected(Messenger)
      PROVE  M!NewsRight <=> InformedInv
  <2>1. \A f \in Listed : M!Hung(f) <=> hung[conn[f]]
    BY <1>2, <1>4, SameDescriptorsM DEF PlacesInv, Open, M!Hung
  <2>. QED
    BY <1>1, <1>4, <2>1 DEF M!NewsRight, InformedInv
<1>5. ASSUME M!TableRight', up', Connected(Messenger)'
      PROVE  M!NewsRight' <=> InformedInv'
  <2>1. \A f \in Listed' : M!Hung(f)' <=> hung'[conn'[f]]
    BY <1>3, <1>5, SameDescriptorsM DEF PlacesInv, Open, M!Hung
  <2>. QED
    BY <1>1, <1>5, <2>1 DEF M!NewsRight, InformedInv
<1>6. ~up' => M!TableRight' /\ M!NewsRight'
  BY DEF M!TableRight, M!NewsRight
<1>. QED
  BY <1>1, <1>2, <1>3, <1>4, <1>5, <1>6

\* What has to be shown after a step.
LEMMA MessengersDone ==
    ASSUME Connected(Messenger)', MType', MNewInv', up' => PlacesInv' /\ InformedInv'
    PROVE  MInv'
BY SameTable DEF MInv

\* What holds before one while the server runs.
LEMMA MessengersBefore == ASSUME MInv, up PROVE PlacesInv /\ InformedInv
BY SameTable DEF MInv

\* Nobody is in the table, and nobody has heard anything.
LEMMA MessengersInit == M!Init => MInv
<1>. SUFFICES ASSUME M!Init PROVE MInv
  OBVIOUS
<1>1. /\ side = [c \in Messenger |-> "away"] /\ up = TRUE
      /\ hung = [c \in Messenger |-> FALSE] /\ inbox = [c \in Messenger |-> <<>>]
      /\ conn = [f \in Fd(Messenger) |-> NoOne]
      /\ places = [j \in M!Slot |-> NoOne] /\ current_clients = 0 /\ stale = 0
      /\ cities = [town \in City |-> FirstOwner]
      /\ heard = [c \in Messenger |-> [town \in City |-> M!Nobody]]
  BY SameDescriptorsM DEF M!Init, M!LoopInit
<1>2. Open(Messenger) = {} /\ Listed = {}
  BY <1>1 DEF Open, Listed, Fd, NoOne
<1>3. Connected(Messenger)
  BY <1>1, <1>2 DEF Connected, Sides
<1>4. MType
  BY <1>1 DEF MType
<1>5. MNewInv
  BY <1>1 DEF MNewInv
<1>6. PlacesInv /\ InformedInv
  BY <1>1, <1>2, FS_EmptySet DEF PlacesInv, InformedInv
<1>. QED
  BY <1>1, <1>3, <1>4, <1>5, <1>6, SameTable DEF MInv

\* A client connects, speaks, hangs up or is turned away, or the server asks for events: it
\* is about nobody in the table, or makes him one who has hung up.
LEMMA MessengersRest ==
    ASSUME MInv, UNCHANGED <<conn, up, M!local>>, Connected(Messenger)',
           hung' \in [Messenger -> BOOLEAN], \A c \in Messenger : hung[c] => hung'[c],
           inbox' \in [Messenger -> Seq(M!News \union {M!Bad})],
           \A c \in Messenger : side'[c] \in {"away", "backlog"} => side[c] \in {"away", "backlog"}
    PROVE  MInv'
<1>1. UNCHANGED <<places, current_clients, cities, heard, stale>>
  BY DEF M!local
<1>2. MType' /\ MNewInv'
  BY <1>1 DEF MInv, MType, MNewInv, Fd
<1>3. Open(Messenger)' = Open(Messenger) /\ Listed' = Listed
  BY <1>1 DEF Open, Listed, Fd
<1>4. ASSUME up
      PROVE  PlacesInv' /\ InformedInv'
  <2>1. PlacesInv /\ InformedInv
    BY <1>4, MessengersBefore
  <2>2. PlacesInv'
    BY <1>1, <1>3, <2>1 DEF PlacesInv
  <2>3. \A f \in Listed : conn[f] \in Messenger
    BY <2>1 DEF PlacesInv, Open, MInv, Connected
  <2>. QED
    BY <1>1, <1>3, <2>1, <2>2, <2>3 DEF InformedInv
<1>. QED
  BY <1>2, <1>4, MessengersDone

\* The server ends.
LEMMA MessengersDie == ASSUME MInv, M!Die, UNCHANGED M!local PROVE MInv'
<1>1. CloseAll(Messenger, Fd(Messenger)) /\ up' = FALSE /\ UNCHANGED <<hung, inbox>>
  BY SameDescriptorsM DEF M!Die
<1>2. /\ Connected(Messenger)'
      /\ \A c \in Messenger : side'[c] # side[c] => side'[c] = "closed"
  BY <1>1, Closed, ServersAssumption DEF MInv
<1>3. UNCHANGED <<places, current_clients, cities, heard, stale>>
  BY DEF M!local
<1>4. MType' /\ MNewInv'
  BY <1>1, <1>2, <1>3 DEF MInv, MType, MNewInv, Fd
<1>. QED
  BY <1>1, <1>2, <1>4, MessengersDone

\* While the counter is right and below the limit a place is free: the places that are taken are
\* those of the clients that are connected.
LEMMA FreePlace ==
    ASSUME MInv, up, stale = 0, current_clients < MAX_CLIENTS
    PROVE  \E j \in M!Slot : places[j] = NoOne
<1>. SUFFICES ASSUME \A j \in M!Slot : places[j] # NoOne PROVE FALSE
  OBVIOUS
<1>1. PlacesInv
  BY MessengersBefore
<1>2. \A j \in M!Slot : places[j] \in Open(Messenger)
  <2>. TAKE j \in M!Slot
  <2>1. places[j] \in Fd(Messenger)
    BY DEF MInv, MType
  <2>. QED
    BY <1>1, <2>1 DEF PlacesInv, Listed
<1>3. places \in [M!Slot -> Open(Messenger)]
  BY <1>2 DEF MInv, MType
<1>4. IsFiniteSet(M!Slot) /\ Cardinality(M!Slot) = MAX_CLIENTS
  <2>1. MAX_CLIENTS \in Nat
    BY ServersAssumption
  <2>2. /\ IsFiniteSet(0..(MAX_CLIENTS - 1))
        /\ Cardinality(0..(MAX_CLIENTS - 1))
              = IF 0 > MAX_CLIENTS - 1 THEN 0 ELSE MAX_CLIENTS - 1 - 0 + 1
    BY <2>1, FS_Interval
  <2>3. Cardinality(0..(MAX_CLIENTS - 1)) = MAX_CLIENTS
    BY <2>1, <2>2
  <2>. QED
    BY <2>2, <2>3 DEF M!Slot
<1>5. IsFiniteSet(Open(Messenger)) /\ Cardinality(Open(Messenger)) < Cardinality(M!Slot)
  BY <1>1, <1>4, Finite, ServersAssumption DEF PlacesInv, MInv, MType
<1>6. \E i, j \in M!Slot : i # j /\ places[i] = places[j]
  BY <1>3, <1>4, <1>5, FS_PigeonHole
<1>. QED
  BY <1>1, <1>6 DEF PlacesInv

\* add_new_client: whoever is accepted gets the first free place.
LEMMA MessengersEnter ==
    ASSUME MInv, NEW c \in Messenger, M!Enter(c)
    PROVE  MInv'
<1>. DEFINE low == Lowest(Messenger)
            free == {j \in M!Slot : places[j] = NoOne}
<1>1. /\ up /\ up' = up /\ current_clients < MAX_CLIENTS
      /\ side[c] = "backlog" /\ side' = [side EXCEPT ![c] = "accepted"]
      /\ conn' = [conn EXCEPT ![low] = c]
      /\ places' = [j \in M!Slot |-> IF j \in free /\ (\A i \in free : j <= i)
                                     THEN low ELSE places[j]]
      /\ current_clients' = current_clients + 1
      /\ UNCHANGED <<hung, inbox, cities, heard, stale>>
  BY SameDescriptorsM DEF M!Enter, M!At, M!Accept
<1>2. /\ Connected(Messenger)'
      /\ low \in Fd(Messenger) \ Open(Messenger)
      /\ Open(Messenger)' = Open(Messenger) \union {low}
      /\ conn'[low] = c
      /\ \A g \in Open(Messenger) : conn'[g] = conn[g]
  BY <1>1, Accepted, ServersAssumption DEF MInv
<1>. HIDE DEF low
<1>3. PlacesInv /\ InformedInv
  BY <1>1, MessengersBefore
<1>4. low \notin Listed /\ low # NoOne
  BY <1>2, <1>3 DEF PlacesInv, Fd, NoOne
<1>a. /\ Cardinality(Open(Messenger)') = Cardinality(Open(Messenger)) + 1
      /\ current_clients' + stale' = Cardinality(Open(Messenger)) + 1
  <2>1. Cardinality(Open(Messenger)') = Cardinality(Open(Messenger)) + 1
    BY <1>2, Finite, ServersAssumption, FS_AddElement
  <2>. QED
    BY <1>1, <1>3, <2>1 DEF PlacesInv, MInv, MType
<1>5. ASSUME free = {}
      PROVE  PlacesInv' /\ Listed' \subseteq Listed \union {low}
  <2>1. places' = places
    <3>1. places' = [j \in M!Slot |-> places[j]]
      BY <1>1, <1>5
    <3>. QED
      BY <3>1 DEF MInv, MType
  <2>2. stale # 0
    BY <1>1, <1>5, FreePlace
  <2>3. Listed' = Listed
    BY <2>1 DEF Listed, Fd
  <2>. QED
    BY <1>1, <1>2, <1>3, <1>a, <2>1, <2>2, <2>3 DEF PlacesInv
<1>6. ASSUME free # {}
      PROVE  PlacesInv' /\ Listed' \subseteq Listed \union {low}
  <2>0. free \subseteq Nat
    BY DEF M!Slot
  <2>1. PICK first \in free : \A i \in free : first <= i
    <3>. HIDE DEF free
    <3>. QED
      BY <1>6, <2>0, Least
  <2>2. \A j \in free : (\A i \in free : j <= i) <=> j = first
    BY <2>1 DEF M!Slot
  <2>3. /\ first \in M!Slot /\ places[first] = NoOne /\ places'[first] = low
        /\ \A j \in M!Slot : j # first => places'[j] = places[j]
    BY <1>1, <2>1, <2>2
  <2>. HIDE DEF free
  <2>4. Listed' = Listed \union {low}
    <3>1. Listed' = {f \in Fd(Messenger) : \E j \in M!Slot : places'[j] = f}
      BY DEF Listed, Fd
    <3>2. \A f \in Fd(Messenger) : f # NoOne
      BY DEF Fd, NoOne
    <3>3. ASSUME NEW f \in Fd(Messenger)
          PROVE  (\E j \in M!Slot : places'[j] = f) <=> f = low \/ \E j \in M!Slot : places[j] = f
      BY <2>3, <3>2
    <3>. QED
      BY <1>2, <3>1, <3>3 DEF Listed
  <2>5. \A j \in M!Slot : places[j] # low
    BY <1>2, <1>4 DEF Listed
  <2>6. \A i, j \in M!Slot : i # j /\ places'[i] = places'[j] => places'[i] = NoOne
    BY <1>3, <2>3, <2>5 DEF PlacesInv
  <2>. QED
    BY <1>1, <1>2, <1>3, <1>a, <2>4, <2>6 DEF PlacesInv
<1>7. InformedInv'
  <2>1. \A f \in Listed : conn'[f] = conn[f]
    BY <1>2, <1>3 DEF PlacesInv
  <2>2. \A town \in City : heard[c][town] = M!Nobody
    BY <1>1 DEF MInv, MNewInv
  <2>. QED
    BY <1>1, <1>2, <1>3, <1>5, <1>6, <2>1, <2>2 DEF InformedInv
<1>8. MNewInv'
  BY <1>1 DEF MInv, MNewInv, Connected
<1>9. MType'
  <2>1. places' \in [M!Slot -> Fd(Messenger) \union {NoOne}]
    BY <1>1, <1>2 DEF MInv, MType
  <2>. QED
    BY <1>1, <2>1 DEF MInv, MType, Fd
<1>. QED
  BY <1>2, <1>5, <1>6, <1>7, <1>8, <1>9, MessengersDone

\* remove_client, for all descriptors of F: their places and connections are free again.
LEMMA MessengersRemove ==
    ASSUME MInv, up, NEW F, F \subseteq Fd(Messenger), CloseAll(Messenger, F), places' = M!Without(F)
    PROVE  /\ Connected(Messenger)'
           /\ Open(Messenger)' = Open(Messenger) \ F
           /\ Cardinality(Open(Messenger)') = Cardinality(Open(Messenger)) - Cardinality(Open(Messenger) \intersect F)
           /\ \A g \in Open(Messenger)' : conn'[g] = conn[g]
           /\ \A c \in Messenger : side'[c] \in {"away", "backlog"} => side[c] \in {"away", "backlog"}
           /\ places' \in [M!Slot -> Fd(Messenger) \union {NoOne}]
           /\ Listed' = Listed \ F
           /\ \A i, j \in M!Slot : i # j /\ places'[i] = places'[j] => places'[i] = NoOne
<1>1. PlacesInv
  BY MessengersBefore
<1>2. /\ Connected(Messenger)'
      /\ Open(Messenger)' = Open(Messenger) \ F
      /\ \A g \in Open(Messenger)' : conn'[g] = conn[g]
      /\ \A c \in Messenger : side'[c] # side[c] => side'[c] = "closed"
  BY Closed, ServersAssumption DEF MInv
<1>3. Cardinality(Open(Messenger)') = Cardinality(Open(Messenger)) - Cardinality(Open(Messenger) \intersect F)
  BY <1>2, Finite, ServersAssumption, FS_Difference
<1>4. \A j \in M!Slot : places'[j] = IF places[j] \in F THEN NoOne ELSE places[j]
  BY SameDescriptorsM DEF M!Without
<1>5. places' \in [M!Slot -> Fd(Messenger) \union {NoOne}]
  BY SameDescriptorsM DEF M!Without, MInv, MType
<1>6. \A f \in Fd(Messenger) : f # NoOne
  BY DEF Fd, NoOne
<1>7. Listed' = Listed \ F
  <2>1. Listed' = {f \in Fd(Messenger) : \E j \in M!Slot : places'[j] = f}
    BY DEF Listed, Fd
  <2>2. ASSUME NEW f \in Fd(Messenger)
        PROVE  (\E j \in M!Slot : places'[j] = f) <=> f \notin F /\ \E j \in M!Slot : places[j] = f
    BY <1>4, <1>6
  <2>. QED
    BY <2>1, <2>2 DEF Listed
<1>8. \A i, j \in M!Slot : i # j /\ places'[i] = places'[j] => places'[i] = NoOne
  BY <1>1, <1>4 DEF PlacesInv
<1>. QED
  BY <1>2, <1>3, <1>5, <1>7, <1>8

\* A descriptor has nothing to say: if it is open its client loses the place; if it is closed
\* already, the counter is one too small from now on.
LEMMA MessengersLeave ==
    ASSUME MInv, NEW f \in Fd(Messenger), M!Remove(f)
    PROVE  MInv'
<1>1. /\ up /\ up' = up
      /\ CloseAll(Messenger, {f}) /\ places' = M!Without({f})
      /\ current_clients' = current_clients - 1
      /\ stale' = IF conn[f] = NoOne THEN stale + 1 ELSE stale
      /\ UNCHANGED <<hung, cities, heard>>
  BY SameDescriptorsM DEF M!Remove, M!At
<1>2. /\ Connected(Messenger)'
      /\ Open(Messenger)' = Open(Messenger) \ {f}
      /\ Cardinality(Open(Messenger)') = Cardinality(Open(Messenger)) - Cardinality(Open(Messenger) \intersect {f})
      /\ \A g \in Open(Messenger)' : conn'[g] = conn[g]
      /\ \A c \in Messenger : side'[c] \in {"away", "backlog"} => side[c] \in {"away", "backlog"}
      /\ places' \in [M!Slot -> Fd(Messenger) \union {NoOne}]
      /\ Listed' = Listed \ {f}
      /\ \A i, j \in M!Slot : i # j /\ places'[i] = places'[j] => places'[i] = NoOne
  <2>1. {f} \subseteq Fd(Messenger)
    OBVIOUS
  <2>. QED
    BY <1>1, <2>1, MessengersRemove
<1>3. PlacesInv /\ InformedInv
  BY <1>1, MessengersBefore
<1>4. PlacesInv'
  <2>1. CASE conn[f] = NoOne
    <3>1. f \notin Open(Messenger) /\ Open(Messenger) \intersect {f} = {}
      BY <2>1 DEF Open
    <3>2. Cardinality(Open(Messenger)') = Cardinality(Open(Messenger))
      BY <1>2, <3>1, Finite, ServersAssumption, FS_EmptySet
    <3>3. current_clients' + stale' = Cardinality(Open(Messenger)) /\ stale' # 0
      BY <1>1, <1>3, <2>1 DEF PlacesInv, MInv, MType
    <3>. QED
      BY <1>2, <1>3, <3>1, <3>2, <3>3 DEF PlacesInv
  <2>2. CASE conn[f] # NoOne
    <3>1. f \in Open(Messenger) /\ Open(Messenger) \intersect {f} = {f}
      BY <2>2 DEF Open
    <3>2. Cardinality(Open(Messenger)') = Cardinality(Open(Messenger)) - 1
      BY <1>2, <3>1, FS_Singleton
    <3>3. current_clients' + stale' = Cardinality(Open(Messenger)) - 1 /\ stale' = stale
      BY <1>1, <1>3, <2>2 DEF PlacesInv, MInv, MType
    <3>. QED
      BY <1>2, <1>3, <3>1, <3>2, <3>3 DEF PlacesInv
  <2>. QED
    BY <2>1, <2>2
<1>5. InformedInv'
  <2>1. \A g \in Listed' : g \in Listed /\ conn'[g] = conn[g]
    BY <1>2, <1>3, <1>4 DEF PlacesInv
  <2>. QED
    BY <1>1, <1>3, <2>1 DEF InformedInv
<1>6. MNewInv'
  BY <1>1, <1>2 DEF MInv, MNewInv
<1>7. MType'
  <2>1. inbox' \in [Messenger -> Seq(M!News \union {M!Bad})]
    <3>1. CASE M!HasMessage(f)
      <4>1. conn[f] \in Messenger /\ inbox[conn[f]] # <<>>
        BY <3>1, SameDescriptorsM DEF M!HasMessage, MInv, Connected
      <4>2. inbox' = [inbox EXCEPT ![conn[f]] = Tail(@)]
        BY <3>1 DEF M!Remove, M!Rest
      <4>. QED
        BY <4>1, <4>2, Inbox DEF MInv, MType
    <3>2. CASE ~M!HasMessage(f)
      BY <3>2 DEF M!Remove, MInv, MType
    <3>. QED
      BY <3>1, <3>2
  <2>2. current_clients' \in Int /\ stale' \in Nat
    BY <1>1 DEF MInv, MType
  <2>. QED
    BY <1>1, <1>2, <2>1, <2>2 DEF MInv, MType, Fd
<1>. QED
  BY <1>2, <1>4, <1>5, <1>6, <1>7, MessengersDone

\* A city gets another owner: all others in the table are told, or found to be gone; if it had
\* that owner before, nobody need be.
LEMMA MessengersUpdate ==
    ASSUME MInv, NEW f \in Fd(Messenger), M!Update(f)
    PROVE  MInv'
<1>1. /\ up /\ up' = up /\ conn[f] # NoOne /\ inbox[conn[f]] # <<>>
      /\ inbox' = [inbox EXCEPT ![conn[f]] = Tail(@)]
      /\ M!Received(f) = Head(inbox[conn[f]]) /\ M!Received(f) # M!Bad
      /\ UNCHANGED <<hung, stale>>
  BY SameDescriptorsM DEF M!Update, M!At, M!HasMessage, M!Rest, M!Received
<1>2. /\ f \in Open(Messenger) /\ conn[f] \in Messenger
      /\ inbox' \in [Messenger -> Seq(M!News \union {M!Bad})]
      /\ M!Received(f) \in M!News
  BY <1>1, Inbox DEF Open, MInv, Connected, MType
<1>. DEFINE k == M!Received(f)[1]
            o == M!Received(f)[2]
            others == IF cities[k] = o THEN {} ELSE Listed \ {f}
<1>3. k \in City /\ o \in Owner
  BY <1>2 DEF M!News
<1>4. PICK Lost \in SUBSET {g \in others : M!Hung(g)} :
         /\ CloseAll(Messenger, Lost)
         /\ places' = M!Without(Lost)
         /\ current_clients' = current_clients - Cardinality(Lost)
         /\ heard' = [c \in Messenger |-> IF c = conn[f] \/ (\E g \in others \ Lost : conn[g] = c)
                                          THEN [heard[c] EXCEPT ![k] = o] ELSE heard[c]]
  BY SameDescriptorsM, SameTable DEF M!Update, M!Tell
<1>5. cities' = [cities EXCEPT ![k] = o]
  BY DEF M!Update
<1>. HIDE DEF k, o
<1>6. PlacesInv /\ InformedInv
  BY <1>1, MessengersBefore
<1>7. others \subseteq Listed /\ Lost \subseteq Listed /\ Lost \subseteq Open(Messenger)
      /\ Lost \subseteq Fd(Messenger) /\ Lost \subseteq others
  BY <1>4, <1>6 DEF PlacesInv, Listed
<1>8. /\ Connected(Messenger)'
      /\ Open(Messenger)' = Open(Messenger) \ Lost
      /\ Cardinality(Open(Messenger)') = Cardinality(Open(Messenger)) - Cardinality(Open(Messenger) \intersect Lost)
      /\ \A g \in Open(Messenger)' : conn'[g] = conn[g]
      /\ \A c \in Messenger : side'[c] \in {"away", "backlog"} => side[c] \in {"away", "backlog"}
      /\ places' \in [M!Slot -> Fd(Messenger) \union {NoOne}]
      /\ Listed' = Listed \ Lost
      /\ \A i, j \in M!Slot : i # j /\ places'[i] = places'[j] => places'[i] = NoOne
  <2>. HIDE DEF others
  <2>. QED
    BY <1>1, <1>4, <1>7, MessengersRemove
<1>9. Cardinality(Lost) \in Nat
  BY <1>7, Finite, ServersAssumption
<1>10. PlacesInv'
  <2>1. Open(Messenger) \intersect Lost = Lost
    BY <1>7
  <2>2. current_clients' + stale' = Cardinality(Open(Messenger)')
    <3>. HIDE DEF others
    <3>1. /\ current_clients + stale = Cardinality(Open(Messenger))
          /\ current_clients \in Int /\ stale \in Nat /\ Cardinality(Open(Messenger)) \in Nat
      BY <1>6, Finite, ServersAssumption DEF PlacesInv, MInv, MType
    <3>2. /\ current_clients' = current_clients - Cardinality(Lost) /\ stale' = stale
          /\ Cardinality(Open(Messenger)') = Cardinality(Open(Messenger)) - Cardinality(Lost)
      BY <1>1, <1>4, <1>8, <2>1
    <3>. QED
      BY <1>9, <3>1, <3>2
  <2>. HIDE DEF others
  <2>. QED
    BY <1>1, <1>6, <1>8, <2>2 DEF PlacesInv
<1>11. \A c \in Messenger : \/ heard'[c] = heard[c]
                            \/ /\ heard'[c] = [heard[c] EXCEPT ![k] = o]
                               /\ side[c] = "accepted"
  <2>1. \A g \in others : g \in Open(Messenger)
    BY <1>6, <1>7 DEF PlacesInv
  <2>. HIDE DEF others
  <2>2. \A g \in others : side[conn[g]] = "accepted"
    BY <2>1 DEF MInv, Connected
  <2>3. side[conn[f]] = "accepted"
    BY <1>2 DEF MInv, Connected
  <2>. TAKE c \in Messenger
  <2>4. heard'[c] = IF c = conn[f] \/ (\E g \in others \ Lost : conn[g] = c)
                    THEN [heard[c] EXCEPT ![k] = o] ELSE heard[c]
    BY <1>4
  <2>. QED
    BY <2>2, <2>3, <2>4
<1>12. heard' \in [Messenger -> [City -> Owner \union {M!Nobody}]]
  <2>1. \A c \in Messenger : heard'[c] \in [City -> Owner \union {M!Nobody}]
    <3>. TAKE c \in Messenger
    <3>1. heard[c] \in [City -> Owner \union {M!Nobody}]
      BY DEF MInv, MType
    <3>2. heard'[c] = heard[c] \/ heard'[c] = [heard[c] EXCEPT ![k] = o]
      BY <1>11
    <3>. QED
      BY <1>3, <3>1, <3>2
  <2>. HIDE DEF others
  <2>2. heard' = [c \in Messenger |-> heard'[c]]
    BY <1>4
  <2>. QED
    BY <2>1, <2>2
<1>13. MNewInv'
  <2>. HIDE DEF others
  <2>1. \A c \in Messenger : side'[c] \in {"away", "backlog"} =>
           side[c] \in {"away", "backlog"} /\ heard'[c] = heard[c]
    BY <1>8, <1>11
  <2>. QED
    BY <2>1 DEF MInv, MNewInv
<1>14. InformedInv'
  <2>. SUFFICES ASSUME NEW g \in Listed', NEW town \in City, ~hung'[conn'[g]]
                PROVE  heard'[conn'[g]][town] \in {M!Nobody, cities'[town]}
    BY DEF InformedInv
  <2>1. g \in Listed /\ g \notin Lost /\ conn'[g] = conn[g] /\ ~hung[conn[g]]
    BY <1>1, <1>8, <1>10 DEF PlacesInv
  <2>2. /\ g \in Open(Messenger) /\ conn[g] \in Messenger
        /\ heard[conn[g]][town] \in {M!Nobody, cities[town]}
    BY <1>6, <2>1 DEF PlacesInv, InformedInv, MInv, Connected, Open
  <2>3. CASE town # k
    <3>1. cities'[town] = cities[town]
      BY <1>5, <2>3 DEF MInv, MType
    <3>2. heard'[conn[g]][town] = heard[conn[g]][town]
      <4>1. heard[conn[g]] \in [City -> Owner \union {M!Nobody}]
        BY <2>2 DEF MInv, MType
      <4>2. \/ heard'[conn[g]] = heard[conn[g]]
            \/ heard'[conn[g]] = [heard[conn[g]] EXCEPT ![k] = o]
        BY <1>11, <2>2
      <4>. QED
        BY <2>3, <4>1, <4>2
    <3>. QED
      BY <2>1, <2>2, <3>1, <3>2
  <2>4. CASE town = k /\ heard'[conn[g]] = [heard[conn[g]] EXCEPT ![k] = o]
    <3>1. heard'[conn[g]][k] = o /\ cities'[k] = o
      BY <1>3, <1>5, <2>2, <2>4 DEF MInv, MType
    <3>. QED
      BY <2>1, <2>4, <3>1
  <2>5. CASE town = k /\ heard'[conn[g]] # [heard[conn[g]] EXCEPT ![k] = o]
    <3>1. g # f /\ g \notin others
      BY <1>4, <2>1, <2>2, <2>5
    <3>2. cities[k] = o
      BY <2>1, <3>1
    <3>3. cities'[k] = cities[k] /\ heard'[conn[g]] = heard[conn[g]]
      BY <1>3, <1>5, <1>11, <2>2, <2>5, <3>2 DEF MInv, MType
    <3>. QED
      BY <2>1, <2>2, <2>5, <3>3
  <2>. QED
    BY <2>3, <2>4, <2>5
<1>15. MType'
  <2>1. cities' \in [City -> Owner \union {FirstOwner}]
    BY <1>3, <1>5 DEF MInv, MType
  <2>2. current_clients' \in Int
    BY <1>4, <1>9 DEF MInv, MType
  <2>. QED
    BY <1>1, <1>2, <1>8, <1>12, <2>1, <2>2 DEF MInv, MType, Fd
<1>. QED
  BY <1>8, <1>10, <1>13, <1>14, <1>15, MessengersDone

\* Every step of the messengers' server.
LEMMA MessengersStep == ASSUME MInv, M!Next PROVE MInv'
<1>1. ASSUME NEW c \in Messenger, M!Connect(c) \/ M!Speak(c) \/ M!HangUp(c), UNCHANGED M!local
      PROVE  MInv'
  <2>1. CASE M!Connect(c)
    <3>1. /\ side[c] = "away" /\ side' = [side EXCEPT ![c] = "backlog"]
          /\ UNCHANGED <<conn, up, hung, inbox>>
      BY <2>1 DEF M!Connect
    <3>2. Connected(Messenger)'
      BY <3>1, Elsewhere DEF MInv, Sides
    <3>3. \A b \in Messenger : side'[b] \in {"away", "backlog"} => side[b] \in {"away", "backlog"}
      BY <3>1 DEF MInv, Connected
    <3>. QED
      BY <1>1, <3>1, <3>2, <3>3, MessengersRest DEF MInv, MType
  <2>2. CASE M!Speak(c) \/ M!HangUp(c)
    <3>1. UNCHANGED <<conn, side, up>>
      BY <2>2 DEF M!Speak, M!HangUp
    <3>2. Connected(Messenger)'
      BY <3>1 DEF MInv, Connected, Open, Fd
    <3>3. inbox' \in [Messenger -> Seq(M!News \union {M!Bad})]
      <4>1. NewsOf[c] \subseteq M!News \union {M!Bad}
        BY ServersAssumption DEF M!News, M!Bad
      <4>2. CASE M!HangUp(c)
        BY <4>2 DEF M!HangUp, MInv, MType
      <4>3. CASE M!Speak(c)
        BY <4>1, <4>3, Inbox DEF M!Speak, MInv, MType
      <4>. QED
        BY <2>2, <4>2, <4>3
    <3>4. hung' \in [Messenger -> BOOLEAN] /\ \A b \in Messenger : hung[b] => hung'[b]
      BY <2>2 DEF M!Speak, M!HangUp, MInv, MType
    <3>. QED
      BY <1>1, <3>1, <3>2, <3>3, <3>4, MessengersRest
  <2>. QED
    BY <1>1, <2>1, <2>2
<1>2. ASSUME M!Poll, UNCHANGED M!local
      PROVE  MInv'
  <2>1. UNCHANGED <<conn, side, up, hung, inbox>>
    BY <1>2 DEF M!Poll, M!clients
  <2>2. Connected(Messenger)'
    BY <2>1 DEF MInv, Connected, Open, Fd
  <2>. QED
    BY <1>2, <2>1, <2>2, MessengersRest DEF MInv, MType
<1>3. ASSUME NEW c \in Messenger, M!Reject(c)
      PROVE  MInv'
  <2>1. /\ side[c] = "backlog" /\ side' = [side EXCEPT ![c] = "closed"]
        /\ UNCHANGED <<conn, up, hung, inbox, M!local>>
    BY <1>3 DEF M!Reject, M!TurnAway
  <2>2. Connected(Messenger)'
    BY <2>1, Elsewhere DEF MInv, Sides
  <2>3. \A b \in Messenger : side'[b] \in {"away", "backlog"} => side[b] \in {"away", "backlog"}
    BY <2>1 DEF MInv, Connected
  <2>. QED
    BY <2>1, <2>2, <2>3, MessengersRest DEF MInv, MType
<1>4. ASSUME NEW f \in Fd(Messenger), M!UpdateDies(f)
      PROVE  MInv'
  BY <1>4, MessengersDie DEF M!UpdateDies
<1>5. ASSUME M!Stop
      PROVE  MInv'
  BY <1>5, MessengersDie DEF M!Stop, M!Sigint
<1>. QED
  BY <1>1, <1>2, <1>3, <1>4, <1>5, MessengersEnter, MessengersLeave, MessengersUpdate,
     SameDescriptorsM DEF M!Next, M!Clients, M!Handle
-----------------------------------------------------------------------------
(* The matchmaker, aigen.c. *)

Said == UNION {NameOf[c] : c \in Client}

AType ==
    /\ up \in BOOLEAN /\ sent \in [Client -> Nat]
    /\ inbox \in [Client -> Seq(Said)]
    /\ fds \in [A!Slot -> Fd(Client) \union {NoOne}]
    /\ families \in [A!Slot -> A!Family \union {A!NoFamily}]

ALenInv == \A c \in Client : Len(inbox[c]) <= sent[c]

\* All who wait are of one family.
AFamilyInv ==
    /\ \A j \in A!Slot : fds[j] = NoOne <=> families[j] = A!NoFamily
    /\ \A i, j \in A!Slot : fds[i] # NoOne /\ fds[j] # NoOne => families[i] = families[j]

\* Who waits has said what it had to say, and is in one place.
AWaitInv ==
    /\ \A j \in A!Slot : fds[j] # NoOne => /\ fds[j] \in Open(Client)
                                           /\ inbox[conn[fds[j]]] = <<>> /\ sent[conn[fds[j]]] = 1
    /\ \A i, j \in A!Slot : i # j /\ fds[i] = fds[j] => fds[i] = NoOne

\* Who was matched is gone.
APairInv ==
    /\ pairs \subseteq Client \X Client
    /\ \A m \in pairs : side[m[1]] = "closed" /\ side[m[2]] = "closed"
    /\ A!MatchesRight

AInv ==
    /\ Connected(Client) /\ AType /\ ALenInv /\ AFamilyInv
    /\ up /\ A!Once => AWaitInv
    /\ APairInv

\* Matchmaker has the descriptors that this module has.
LEMMA SameDescriptorsA ==
    /\ A!Fd = Fd(Client)
    /\ A!Open = Open(Client)
    /\ A!Lowest = Lowest(Client)
    /\ A!NoOne = NoOne
    /\ \A F : A!CloseAll(F) <=> CloseAll(Client, F)
<1>1. \A X : A!Cardinality(X) = Cardinality(X)
  BY DEF A!Cardinality, Cardinality
<1>2. A!Fd = Fd(Client) /\ A!NoOne = NoOne
  BY <1>1 DEF A!Fd, Fd, A!NoOne, NoOne
<1>3. A!Open = Open(Client)
  BY <1>2 DEF A!Open, Open
<1>4. \A F : A!CloseAll(F) <=> CloseAll(Client, F)
  BY <1>2 DEF A!CloseAll, CloseAll
<1>5. A!Lowest = Lowest(Client)
  BY <1>2, <1>3, Zenon DEF A!Lowest, Lowest
<1>. QED
  BY <1>2, <1>3, <1>4, <1>5

\* What the run checks of the matchmaker follows.
LEMMA MatchmakerRight == AInv => A!TableRight /\ A!MatchesRight
BY SameDescriptorsA DEF AInv, AFamilyInv, AWaitInv, APairInv, A!TableRight

\* Nobody waits, and nobody was matched.
LEMMA MatchmakerInit == A!Init => AInv
<1>. SUFFICES ASSUME A!Init PROVE AInv
  OBVIOUS
<1>1. /\ side = [c \in Client |-> "away"] /\ up = TRUE
      /\ sent = [c \in Client |-> 0] /\ inbox = [c \in Client |-> <<>>]
      /\ conn = [f \in Fd(Client) |-> NoOne]
      /\ fds = [j \in A!Slot |-> NoOne] /\ families = [j \in A!Slot |-> A!NoFamily]
      /\ pairs = {}
  BY SameDescriptorsA DEF A!Init, A!LoopInit
<1>2. Open(Client) = {}
  BY <1>1 DEF Open
<1>3. Connected(Client)
  BY <1>1, <1>2 DEF Connected, Sides
<1>. QED
  BY <1>1, <1>2, <1>3
     DEF AInv, AType, ALenInv, AFamilyInv, AWaitInv, APairInv, A!MatchesRight

\* First finds the first place.
LEMMA FirstPlace == ASSUME NEW S, S \subseteq A!Slot, S # {} PROVE A!First(S) \in S
<1>1. S \subseteq Nat
  BY DEF A!Slot
<1>. QED
  BY <1>1, Least DEF A!First

\* read: whatever the number of messages that it takes, those of a client that has spoken once
\* are all.
LEMMA ReadOnce ==
    ASSUME AInv, NEW f \in Fd(Client), A!HasMessage(f), A!ReadSome(f)
    PROVE  /\ f \in Open(Client) /\ conn[f] \in Client /\ inbox[conn[f]] # <<>>
           /\ inbox' \in [Client -> Seq(Said)]
           /\ \A c \in Client : Len(inbox'[c]) <= sent[c]
           /\ \A c \in Client : c # conn[f] => inbox'[c] = inbox[c]
           /\ sent[conn[f]] <= 1 => inbox'[conn[f]] = <<>> /\ sent[conn[f]] = 1
<1>1. f \in Open(Client) /\ conn[f] \in Client /\ inbox[conn[f]] # <<>>
  BY SameDescriptorsA DEF A!HasMessage, Open, AInv, Connected
<1>. DEFINE c0 == conn[f]
            s == inbox[c0]
<1>2. s \in Seq(Said) /\ Len(s) \in Nat /\ Len(s) <= sent[c0] /\ sent[c0] \in Nat
  BY <1>1 DEF AInv, AType, ALenInv
<1>3. PICK n \in 1..Len(s) : inbox' = [inbox EXCEPT ![c0] = SubSeq(s, n + 1, Len(s))]
  BY DEF A!ReadSome
<1>. DEFINE t == SubSeq(s, n + 1, Len(s))
<1>4. t \in Seq(Said) /\ Len(t) = Len(s) - n
  <2>. HIDE DEF s
  <2>1. n + 1 \in 1..(Len(s) + 1) /\ Len(s) \in 0..Len(s)
    BY <1>2
  <2>2. t \in Seq(Said) /\ Len(t) = IF n + 1 <= Len(s) THEN Len(s) - (n + 1) + 1 ELSE 0
    BY <1>2, <2>1, SubSeqProperties
  <2>. QED
    BY <1>2, <2>2
<1>5. /\ inbox'[c0] = t /\ \A c \in Client : c # c0 => inbox'[c] = inbox[c]
      /\ inbox' \in [Client -> Seq(Said)]
  <2>1. inbox \in [Client -> Seq(Said)]
    BY DEF AInv, AType
  <2>2. inbox' = [inbox EXCEPT ![c0] = t]
    BY <1>3
  <2>. HIDE DEF t, c0
  <2>. QED
    BY <1>1, <1>4, <2>1, <2>2 DEF c0
<1>6. ASSUME sent[c0] <= 1
      PROVE  inbox'[c0] = <<>> /\ sent[c0] = 1
  <2>. HIDE DEF s, t, c0
  <2>. DEFINE k == Len(s)
              l == sent[c0]
  <2>0. k \in Nat /\ l \in Nat /\ n \in Nat /\ 1 <= n /\ n <= k /\ k <= l /\ l <= 1
    BY <1>2, <1>3, <1>6
  <2>. HIDE DEF k, l
  <2>1. k = 1 /\ n = 1 /\ l = 1
    BY <2>0
  <2>2. Len(s) = 1 /\ n = 1 /\ sent[c0] = 1
    BY <2>1 DEF k, l
  <2>3. Len(t) = 0
    BY <1>4, <2>2
  <2>4. t = <<>>
    BY <1>4, <2>3, EmptySeq
  <2>. QED
    BY <1>5, <2>2, <2>4
<1>7. \A c \in Client : Len(inbox'[c]) <= sent[c]
  <2>1. Len(t) <= sent[c0]
    <3>. HIDE DEF s, t, c0
    <3>. QED
      BY <1>2, <1>4
  <2>. HIDE DEF s, t, c0
  <2>. QED
    BY <1>5, <2>1 DEF AInv, ALenInv
<1>. QED
  BY <1>1, <1>5, <1>6, <1>7

\* remove_client: one place of p is freed, and that was all if p is not in the table twice.
LEMMA PlaceFreed ==
    ASSUME AInv, NEW p \in Fd(Client), A!RemovePlace(p)
    PROVE  /\ fds' \in [A!Slot -> Fd(Client) \union {NoOne}]
           /\ families' \in [A!Slot -> A!Family \union {A!NoFamily}]
           /\ AFamilyInv'
           /\ \A j \in A!Slot : fds'[j] = fds[j] \/ fds'[j] = NoOne
           /\ AWaitInv => \A j \in A!Slot : fds'[j] # p
<1>. DEFINE gone == A!Freed(p)
<1>1. /\ fds' = [j \in A!Slot |-> IF j \in gone THEN NoOne ELSE fds[j]]
      /\ families' = [j \in A!Slot |-> IF j \in gone THEN A!NoFamily ELSE families[j]]
  BY SameDescriptorsA DEF A!RemovePlace
<1>2. /\ \A j \in gone : j \in A!Slot /\ fds[j] = p
      /\ (\E j \in A!Slot : fds[j] = p) => \E j \in gone : TRUE
  <2>1. A!Place(p) \subseteq A!Slot /\ \A j \in A!Place(p) : fds[j] = p
    BY DEF A!Place
  <2>2. CASE A!Place(p) = {}
    BY <2>2 DEF A!Freed, A!Place
  <2>3. CASE A!Place(p) # {}
    <3>1. A!First(A!Place(p)) \in A!Place(p)
      BY <2>1, <2>3, FirstPlace
    <3>2. gone = {A!First(A!Place(p))}
      BY <2>3 DEF A!Freed
    <3>. HIDE DEF gone
    <3>. QED
      BY <2>1, <3>1, <3>2
  <2>. QED
    BY <2>2, <2>3
<1>. HIDE DEF gone
<1>3. p # NoOne
  BY DEF Fd, NoOne
<1>4. /\ fds' \in [A!Slot -> Fd(Client) \union {NoOne}]
      /\ families' \in [A!Slot -> A!Family \union {A!NoFamily}]
  BY <1>1 DEF AInv, AType
<1>5. \A j \in A!Slot : \/ fds'[j] = fds[j] /\ families'[j] = families[j] /\ j \notin gone
                        \/ fds'[j] = NoOne /\ families'[j] = A!NoFamily
  BY <1>1
<1>6. AFamilyInv'
  BY <1>5 DEF AInv, AFamilyInv
<1>7. ASSUME AWaitInv, NEW j \in A!Slot
      PROVE  fds'[j] # p
  <2>1. ASSUME fds[j] = p
        PROVE  j \in gone
    BY <1>2, <1>3, <1>7, <2>1 DEF AWaitInv
  <2>. QED
    BY <1>1, <1>3, <2>1
<1>. QED
  BY <1>4, <1>5, <1>6, <1>7

\* A step that is not about places.
LEMMA MatchmakerRest ==
    ASSUME AInv, UNCHANGED <<conn, up, A!local>>, Connected(Client)',
           sent' \in [Client -> Nat], inbox' \in [Client -> Seq(Said)],
           \A c \in Client : /\ side[c] = "closed" => side'[c] = "closed"
                             /\ Len(inbox'[c]) <= sent'[c]
                             /\ \/ sent'[c] = sent[c] /\ inbox'[c] = inbox[c]
                                \/ sent'[c] = sent[c] + 1 /\ side[c] # "closed"
    PROVE  AInv'
<1>1. UNCHANGED <<fds, families, pairs>>
  BY DEF A!local
<1>2. AType' /\ ALenInv' /\ AFamilyInv'
  BY <1>1 DEF AInv, AType, ALenInv, AFamilyInv, Fd
<1>3. A!Once' => A!Once
  <2>1. \A c \in Client : sent[c] \in Nat /\ (sent'[c] = sent[c] \/ sent'[c] = sent[c] + 1)
    BY DEF AInv, AType
  <2>2. \A c \in Client : sent'[c] <= 1 => sent[c] <= 1
    BY <2>1
  <2>. QED
    BY <2>2 DEF A!Once
<1>4. ASSUME up', A!Once'
      PROVE  AWaitInv'
  <2>1. AWaitInv
    BY <1>3, <1>4 DEF AInv
  <2>2. Open(Client)' = Open(Client)
    BY DEF Open, Fd
  <2>3. \A c \in Client : sent[c] = 1 => sent'[c] = sent[c] /\ inbox'[c] = inbox[c]
    BY <1>4 DEF A!Once, AInv, AType
  <2>4. \A f \in Open(Client) : conn[f] \in Client
    BY DEF AInv, Connected, Open
  <2>. QED
    BY <1>1, <2>1, <2>2, <2>3, <2>4 DEF AWaitInv
<1>5. APairInv'
  BY <1>1, <1>3 DEF AInv, APairInv, A!MatchesRight
<1>. QED
  BY <1>2, <1>4, <1>5 DEF AInv

\* The server ends: all descriptors are closed, and what the table says does not matter.
LEMMA MatchmakerDie == ASSUME AInv, A!Die, UNCHANGED A!local PROVE AInv'
<1>1. CloseAll(Client, Fd(Client)) /\ up' = FALSE /\ UNCHANGED <<sent, inbox>>
  BY SameDescriptorsA DEF A!Die
<1>2. /\ Connected(Client)'
      /\ \A c \in Client : side'[c] # side[c] => side'[c] = "closed"
  BY <1>1, Closed, ServersAssumption DEF AInv
<1>3. UNCHANGED <<fds, families, pairs>>
  BY DEF A!local
<1>4. AType' /\ ALenInv' /\ AFamilyInv'
  BY <1>1, <1>3 DEF AInv, AType, ALenInv, AFamilyInv, Fd
<1>5. APairInv'
  BY <1>1, <1>2, <1>3 DEF AInv, APairInv, A!MatchesRight, A!Once
<1>. QED
  BY <1>1, <1>2, <1>4, <1>5 DEF AInv

\* add_new_client: a descriptor more, which is in no place yet.
LEMMA MatchmakerEnter == ASSUME AInv, NEW c \in Client, A!Enter(c) PROVE AInv'
<1>. DEFINE low == Lowest(Client)
<1>1. /\ side[c] = "backlog" /\ side' = [side EXCEPT ![c] = "accepted"]
      /\ conn' = [conn EXCEPT ![low] = c]
      /\ UNCHANGED <<up, sent, inbox, fds, families, pairs>>
  BY SameDescriptorsA DEF A!Enter, A!Accept, A!local
<1>2. /\ Connected(Client)'
      /\ low \in Fd(Client) \ Open(Client)
      /\ Open(Client)' = Open(Client) \union {low}
      /\ \A g \in Open(Client) : conn'[g] = conn[g]
  BY <1>1, Accepted, ServersAssumption DEF AInv
<1>. HIDE DEF low
<1>3. AType' /\ ALenInv' /\ AFamilyInv' /\ (A!Once' <=> A!Once)
  BY <1>1 DEF AInv, AType, ALenInv, AFamilyInv, Fd, A!Once
<1>4. AWaitInv => AWaitInv'
  BY <1>1, <1>2 DEF AWaitInv
<1>5. APairInv'
  <2>1. \A b \in Client : side[b] = "closed" => side'[b] = "closed"
    BY <1>1 DEF AInv, Connected
  <2>. QED
    BY <1>1, <2>1 DEF AInv, APairInv, A!MatchesRight, A!Once
<1>. QED
  BY <1>1, <1>2, <1>3, <1>4, <1>5 DEF AInv

\* Who says nothing, or no family, leaves, and with it its place.
LEMMA MatchmakerLeave == ASSUME AInv, NEW f \in Fd(Client), A!Remove(f) PROVE AInv'
<1>1. /\ CloseAll(Client, {f}) /\ A!RemovePlace(f)
      /\ UNCHANGED <<up, sent, pairs>>
      /\ IF A!HasMessage(f) THEN A!ReadSome(f) ELSE UNCHANGED inbox
  BY SameDescriptorsA DEF A!Remove
<1>2. /\ Connected(Client)'
      /\ Open(Client)' = Open(Client) \ {f}
      /\ \A g \in Open(Client)' : conn'[g] = conn[g]
      /\ \A c \in Client : side'[c] # side[c] => side'[c] = "closed"
  <2>1. Connected(Client) /\ Client \subseteq Nat /\ {f} \subseteq Fd(Client)
    BY ServersAssumption DEF AInv
  <2>. QED
    BY <1>1, <2>1, Closed
<1>3. /\ fds' \in [A!Slot -> Fd(Client) \union {NoOne}]
      /\ families' \in [A!Slot -> A!Family \union {A!NoFamily}]
      /\ AFamilyInv'
      /\ \A j \in A!Slot : fds'[j] = fds[j] \/ fds'[j] = NoOne
      /\ AWaitInv => \A j \in A!Slot : fds'[j] # f
  BY <1>1, PlaceFreed
<1>4. /\ inbox' \in [Client -> Seq(Said)] /\ ALenInv'
      /\ \A c \in Client : c # conn[f] => inbox'[c] = inbox[c]
      /\ f \notin Open(Client) => inbox' = inbox
  <2>1. CASE A!HasMessage(f)
    BY <1>1, <2>1, ReadOnce DEF ALenInv
  <2>2. CASE ~A!HasMessage(f)
    BY <1>1, <2>2 DEF AInv, AType, ALenInv
  <2>. QED
    BY <2>1, <2>2
<1>5. ASSUME AWaitInv
      PROVE  AWaitInv'
  <2>1. ASSUME NEW j \in A!Slot, fds'[j] # NoOne
        PROVE  /\ fds'[j] = fds[j] /\ fds'[j] \in Open(Client)'
               /\ inbox'[conn'[fds'[j]]] = <<>> /\ sent'[conn'[fds'[j]]] = 1
    <3>1. /\ fds'[j] = fds[j] /\ fds[j] # NoOne /\ fds[j] # f
          /\ fds[j] \in Open(Client) /\ inbox[conn[fds[j]]] = <<>> /\ sent[conn[fds[j]]] = 1
      BY <1>3, <1>5, <2>1 DEF AWaitInv
    <3>2. fds[j] \in Open(Client)' /\ conn'[fds[j]] = conn[fds[j]]
      BY <1>2, <3>1
    <3>3. conn[fds[j]] \in Client /\ (f \in Open(Client) => conn[fds[j]] # conn[f])
      BY <3>1 DEF AInv, Connected, Open
    <3>4. inbox'[conn[fds[j]]] = inbox[conn[fds[j]]]
      BY <1>4, <3>3
    <3>. QED
      BY <1>1, <3>1, <3>2, <3>4
  <2>2. \A i, j \in A!Slot : i # j /\ fds'[i] = fds'[j] => fds'[i] = NoOne
    BY <1>5, <2>1 DEF AWaitInv
  <2>. QED
    BY <2>1, <2>2 DEF AWaitInv
<1>6. AType' /\ (A!Once' <=> A!Once)
  BY <1>1, <1>3, <1>4 DEF AInv, AType, Fd, A!Once
<1>7. APairInv'
  BY <1>1, <1>2, <1>6 DEF AInv, APairInv, A!MatchesRight
<1>. QED
  BY <1>1, <1>2, <1>3, <1>4, <1>5, <1>6, <1>7 DEF AInv

\* Who speaks is matched with the first one of the other family, and both leave.
LEMMA MatchmakerMatch == ASSUME AInv, NEW f \in Fd(Client), A!Match(f) PROVE AInv'
<1>. DEFINE i0 == A!First(A!Others(A!Received(f)))
            p == fds[i0]
<1>1. /\ up /\ A!HasMessage(f) /\ A!ReadSome(f)
      /\ conn[p] # NoOne
      /\ pairs' = pairs \union {<<conn[f], conn[p]>>}
      /\ A!RemovePlace(p) /\ CloseAll(Client, {f, p})
      /\ UNCHANGED <<up, sent>>
  BY SameDescriptorsA DEF A!Match, A!At
<1>2. i0 \in A!Slot /\ p \in Open(Client) /\ p \in Fd(Client) /\ p # NoOne
  <2>1. A!Others(A!Received(f)) \subseteq A!Slot /\ A!Others(A!Received(f)) # {}
    BY DEF A!Others, A!Match
  <2>2. i0 \in A!Others(A!Received(f))
    BY <2>1, FirstPlace
  <2>3. i0 \in A!Slot /\ p # NoOne
    BY <2>2, SameDescriptorsA DEF A!Others
  <2>4. p \in Fd(Client)
    BY <2>3 DEF AInv, AType
  <2>. QED
    BY <1>1, <2>3, <2>4 DEF Open
<1>. HIDE DEF i0
<1>3. /\ f \in Open(Client) /\ conn[f] \in Client /\ inbox[conn[f]] # <<>>
      /\ inbox' \in [Client -> Seq(Said)]
      /\ \A c \in Client : Len(inbox'[c]) <= sent[c]
      /\ \A c \in Client : c # conn[f] => inbox'[c] = inbox[c]
  BY <1>1, ReadOnce
<1>4. /\ fds' \in [A!Slot -> Fd(Client) \union {NoOne}]
      /\ families' \in [A!Slot -> A!Family \union {A!NoFamily}]
      /\ AFamilyInv'
      /\ \A j \in A!Slot : fds'[j] = fds[j] \/ fds'[j] = NoOne
      /\ AWaitInv => \A j \in A!Slot : fds'[j] # p
  <2>. HIDE DEF p
  <2>. QED
    BY <1>1, <1>2, PlaceFreed
<1>5. /\ Connected(Client)'
      /\ Open(Client)' = Open(Client) \ {f, p}
      /\ \A g \in Open(Client)' : conn'[g] = conn[g]
      /\ \A c \in Client : side'[c] # side[c] => side'[c] = "closed"
      /\ side'[conn[f]] = "closed" /\ side'[conn[p]] = "closed"
  <2>. HIDE DEF p
  <2>1. Connected(Client) /\ Client \subseteq Nat /\ {f, p} \subseteq Fd(Client)
    BY <1>2, ServersAssumption DEF AInv
  <2>2. f \in {f, p} \intersect Open(Client) /\ p \in {f, p} \intersect Open(Client)
    BY <1>2, <1>3
  <2>3. /\ Connected(Client)'
        /\ Open(Client)' = Open(Client) \ {f, p}
        /\ \A g \in Open(Client)' : conn'[g] = conn[g]
        /\ \A c \in Client : side'[c] # side[c] => side[c] = "accepted" /\ side'[c] = "closed"
        /\ \A g \in {f, p} \intersect Open(Client) : side'[conn[g]] = "closed"
    <3>. DEFINE F == {f, p}
    <3>1. CloseAll(Client, F) /\ F \subseteq Fd(Client)
      BY <1>1, <2>1
    <3>. HIDE DEF F
    <3>2. /\ Connected(Client)'
          /\ Open(Client)' = Open(Client) \ F
          /\ \A g \in Open(Client)' : conn'[g] = conn[g]
          /\ \A c \in Client : side'[c] # side[c] => side[c] = "accepted" /\ side'[c] = "closed"
          /\ \A g \in F \intersect Open(Client) : side'[conn[g]] = "closed"
      BY <2>1, <3>1, Closed
    <3>. QED
      BY <3>2 DEF F
  <2>. QED
    BY <2>2, <2>3
<1>6. AType' /\ ALenInv' /\ (A!Once' <=> A!Once)
  BY <1>1, <1>3, <1>4 DEF AInv, AType, ALenInv, Fd, A!Once
<1>7. ASSUME A!Once
      PROVE  AWaitInv' /\ conn[f] # conn[p]
  <2>1. AWaitInv
    BY <1>1, <1>7 DEF AInv
  <2>2. p # f
    BY <1>2, <1>3, <2>1 DEF AWaitInv
  <2>3. ASSUME NEW j \in A!Slot, fds'[j] # NoOne
        PROVE  /\ fds'[j] = fds[j] /\ fds'[j] \in Open(Client)'
               /\ inbox'[conn'[fds'[j]]] = <<>> /\ sent'[conn'[fds'[j]]] = 1
    <3>1. /\ fds'[j] = fds[j] /\ fds[j] # NoOne /\ fds[j] # p
          /\ fds[j] \in Open(Client) /\ inbox[conn[fds[j]]] = <<>> /\ sent[conn[fds[j]]] = 1
      BY <1>4, <2>1, <2>3 DEF AWaitInv
    <3>2. fds[j] # f /\ conn[fds[j]] # conn[f] /\ conn[fds[j]] \in Client
      BY <1>3, <3>1 DEF AInv, Connected, Open
    <3>3. fds[j] \in Open(Client)' /\ conn'[fds[j]] = conn[fds[j]]
      BY <1>5, <3>1, <3>2
    <3>. QED
      BY <1>1, <1>3, <3>1, <3>2, <3>3
  <2>4. \A i, j \in A!Slot : i # j /\ fds'[i] = fds'[j] => fds'[i] = NoOne
    BY <2>1, <2>3 DEF AWaitInv
  <2>. QED
    BY <1>2, <1>3, <2>2, <2>3, <2>4 DEF AWaitInv, AInv, Connected
<1>8. APairInv'
  <2>1. conn[p] \in Client /\ side[conn[p]] = "accepted" /\ side[conn[f]] = "accepted"
    BY <1>2, <1>3 DEF AInv, Connected, Open
  <2>. DEFINE x == conn[f]
              y == conn[p]
  <2>2. /\ pairs \subseteq Client \X Client
        /\ \A m \in pairs : side[m[1]] = "closed" /\ side[m[2]] = "closed"
    BY DEF AInv, APairInv
  <2>3. pairs' = pairs \union {<<x, y>>} /\ x \in Client /\ y \in Client
    BY <1>1, <1>3, <2>1
  <2>4. side'[x] = "closed" /\ side'[y] = "closed" /\ side[x] = "accepted" /\ side[y] = "accepted"
    BY <1>5, <2>1
  <2>5. A!Once => x # y
    BY <1>7
  <2>. HIDE DEF x, y
  <2>6. \A m \in pairs' : side'[m[1]] = "closed" /\ side'[m[2]] = "closed"
    <3>1. \A m \in pairs : m[1] \in Client /\ m[2] \in Client
      BY <2>2
    <3>. QED
      BY <1>5, <2>2, <2>3, <2>4, <3>1
  <2>7. A!MatchesRight'
    <3>. SUFFICES ASSUME A!Once'
                  PROVE  /\ \A m \in pairs' : m[1] # m[2]
                         /\ \A m, n \in pairs' : m # n =>
                               {m[1], m[2]} \intersect {n[1], n[2]} = {}
      BY DEF A!MatchesRight
    <3>1. /\ \A m \in pairs : m[1] # m[2]
          /\ \A m, n \in pairs : m # n => {m[1], m[2]} \intersect {n[1], n[2]} = {}
      BY <1>6 DEF AInv, APairInv, A!MatchesRight
    <3>2. \A m \in pairs : m[1] \notin {x, y} /\ m[2] \notin {x, y}
      BY <2>2, <2>4
    <3>. QED
      BY <1>6, <2>3, <2>5, <3>1, <3>2
  <2>. QED
    BY <2>2, <2>3, <2>6, <2>7 DEF APairInv
<1>. QED
  BY <1>1, <1>4, <1>5, <1>6, <1>7, <1>8 DEF AInv

\* Nobody of the other family waits: whoever spoke waits as well, if there is a place.
LEMMA MatchmakerWait == ASSUME AInv, NEW f \in Fd(Client), A!Wait(f) PROVE AInv'
<1>. DEFINE word == A!Received(f)
            free == {j \in A!Slot : fds[j] = NoOne}
            new == {j \in free : j = A!First(free)}
<1>1. /\ up /\ A!HasMessage(f) /\ A!ReadSome(f) /\ word \in A!Family
      /\ fds' = [j \in A!Slot |-> IF j \in new THEN f ELSE fds[j]]
      /\ families' = [j \in A!Slot |-> IF j \in new THEN word ELSE families[j]]
      /\ UNCHANGED <<side, conn, up, sent, pairs>>
  <2>1. free # {} => A!First(free) \in free
    BY FirstPlace
  <2>. QED
    BY <2>1, SameDescriptorsA DEF A!Wait, A!At, A!Queue
<1>2. \A j \in A!Slot : fds[j] # NoOne => families[j] \in {A!NoFamily, word}
  BY SameDescriptorsA DEF A!Wait, A!Others
<1>3. \A i, j \in new : i = j /\ i \in A!Slot /\ fds[i] = NoOne
  OBVIOUS
<1>. HIDE DEF new, word
<1>4. /\ f \in Open(Client) /\ conn[f] \in Client /\ inbox[conn[f]] # <<>>
      /\ inbox' \in [Client -> Seq(Said)]
      /\ \A c \in Client : Len(inbox'[c]) <= sent[c]
      /\ \A c \in Client : c # conn[f] => inbox'[c] = inbox[c]
      /\ sent[conn[f]] <= 1 => inbox'[conn[f]] = <<>> /\ sent[conn[f]] = 1
  BY <1>1, ReadOnce
<1>5. word # A!NoFamily /\ f # NoOne
  BY <1>1 DEF A!Family, A!NoFamily, Fd, NoOne
<1>6. \A j \in A!Slot : \/ j \in new /\ fds'[j] = f /\ families'[j] = word
                        \/ j \notin new /\ fds'[j] = fds[j] /\ families'[j] = families[j]
  BY <1>1
<1>7. AFamilyInv'
  BY <1>2, <1>5, <1>6 DEF AInv, AFamilyInv
<1>8. AType' /\ ALenInv' /\ (A!Once' <=> A!Once)
  <2>1. fds' \in [A!Slot -> Fd(Client) \union {NoOne}]
    BY <1>1 DEF AInv, AType
  <2>2. families' \in [A!Slot -> A!Family \union {A!NoFamily}]
    BY <1>1 DEF AInv, AType
  <2>. QED
    BY <1>1, <1>4, <2>1, <2>2 DEF AInv, AType, ALenInv, Fd, A!Once
<1>9. Connected(Client)' /\ Open(Client)' = Open(Client)
  BY <1>1 DEF AInv, Connected, Open, Fd
<1>10. ASSUME A!Once
       PROVE  AWaitInv'
  <2>1. AWaitInv
    BY <1>1, <1>10 DEF AInv
  <2>2. sent[conn[f]] = 1 /\ inbox'[conn[f]] = <<>>
    BY <1>4, <1>10 DEF A!Once
  <2>3. \A j \in A!Slot : fds[j] # f
    BY <1>4, <1>5, <2>1 DEF AWaitInv
  <2>4. \A g \in Open(Client) : g # f => inbox'[conn[g]] = inbox[conn[g]]
    BY <1>4 DEF AInv, Connected, Open
  <2>5. \A j \in A!Slot : fds'[j] # NoOne => /\ fds'[j] \in Open(Client)
                                             /\ inbox'[conn[fds'[j]]] = <<>>
                                             /\ sent[conn[fds'[j]]] = 1
    BY <1>4, <1>6, <2>1, <2>2, <2>3, <2>4 DEF AWaitInv
  <2>6. \A i, j \in A!Slot : i # j /\ fds'[i] = fds'[j] => fds'[i] = NoOne
    BY <1>3, <1>6, <2>1, <2>3 DEF AWaitInv
  <2>. QED
    BY <1>1, <1>9, <2>5, <2>6 DEF AWaitInv
<1>11. APairInv'
  BY <1>1, <1>8 DEF AInv, APairInv, A!MatchesRight
<1>. QED
  BY <1>1, <1>7, <1>8, <1>9, <1>10, <1>11 DEF AInv

\* Every step of the matchmaker.
LEMMA MatchmakerStep == ASSUME AInv, A!Next PROVE AInv'
<1>1. ASSUME NEW c \in Client, A!Connect(c) \/ A!Speak(c) \/ A!HangUp(c), UNCHANGED A!local
      PROVE  AInv'
  <2>1. CASE A!Connect(c)
    <3>1. /\ side[c] = "away" /\ side' = [side EXCEPT ![c] = "backlog"]
          /\ UNCHANGED <<conn, up, sent, inbox>>
      BY <2>1 DEF A!Connect
    <3>2. Connected(Client)'
      BY <3>1, Elsewhere DEF AInv, Sides
    <3>3. \A b \in Client : side[b] = "closed" => side'[b] = "closed"
      BY <3>1 DEF AInv, Connected
    <3>. QED
      BY <1>1, <3>1, <3>2, <3>3, MatchmakerRest DEF AInv, AType, ALenInv
  <2>2. CASE A!HangUp(c)
    <3>1. UNCHANGED <<conn, side, up, sent, inbox>>
      BY <2>2 DEF A!HangUp
    <3>2. Connected(Client)'
      BY <3>1 DEF AInv, Connected, Open, Fd
    <3>. QED
      BY <1>1, <3>1, <3>2, MatchmakerRest DEF AInv, AType, ALenInv
  <2>3. CASE A!Speak(c)
    <3>1. PICK m \in NameOf[c] : inbox' = [inbox EXCEPT ![c] = Append(@, m)]
      BY <2>3 DEF A!Speak
    <3>2. /\ UNCHANGED <<conn, side, up>> /\ side[c] # "closed"
          /\ sent' = [sent EXCEPT ![c] = @ + 1]
      BY <2>3 DEF A!Speak
    <3>3. Connected(Client)'
      BY <3>2 DEF AInv, Connected, Open, Fd
    <3>4. inbox' \in [Client -> Seq(Said)]
      BY <3>1, Inbox DEF AInv, AType, Said
    <3>5. /\ \A b \in Client : b # c => sent'[b] = sent[b] /\ inbox'[b] = inbox[b]
          /\ sent'[c] = sent[c] + 1 /\ sent' \in [Client -> Nat]
          /\ inbox'[c] = Append(inbox[c], m)
      BY <3>1, <3>2 DEF AInv, AType
    <3>6. Len(inbox'[c]) <= sent'[c]
      <4>1. inbox[c] \in Seq(Said) /\ sent[c] \in Nat /\ Len(inbox[c]) <= sent[c]
        BY DEF AInv, AType, ALenInv
      <4>2. Len(Append(inbox[c], m)) = Len(inbox[c]) + 1 /\ Len(inbox[c]) \in Nat
        BY <4>1
      <4>. QED
        BY <3>5, <4>1, <4>2
    <3>7. \A b \in Client : Len(inbox'[b]) <= sent'[b]
      BY <3>5, <3>6 DEF AInv, ALenInv
    <3>. QED
      BY <1>1, <3>2, <3>3, <3>4, <3>5, <3>7, MatchmakerRest
  <2>. QED
    BY <1>1, <2>1, <2>2, <2>3
<1>2. ASSUME A!Poll, UNCHANGED A!local
      PROVE  AInv'
  <2>1. UNCHANGED <<conn, side, up, sent, inbox>>
    BY <1>2 DEF A!Poll, A!clients
  <2>2. Connected(Client)'
    BY <2>1 DEF AInv, Connected, Open, Fd
  <2>. QED
    BY <1>2, <2>1, <2>2, MatchmakerRest DEF AInv, AType, ALenInv
<1>3. ASSUME NEW f \in Fd(Client), A!MatchDies(f)
      PROVE  AInv'
  BY <1>3, MatchmakerDie DEF A!MatchDies
<1>4. ASSUME A!Stop
      PROVE  AInv'
  BY <1>4, MatchmakerDie DEF A!Stop, A!Sigint
<1>. QED
  BY <1>1, <1>2, <1>3, <1>4, MatchmakerEnter, MatchmakerLeave, MatchmakerMatch, MatchmakerWait,
     SameDescriptorsA DEF A!Next, A!Clients, A!Handle
-----------------------------------------------------------------------------
(* The election server, sop-hre.c. *)

EInv ==
    /\ Connected(Client)
    /\ up \in BOOLEAN
    /\ fd \in [E!Elector -> Fd(Client) \union {NoOne}]
    /\ vote \in [E!Elector -> Int] /\ announced \in [E!Elector -> Int]
    /\ welcomed \in [Client -> E!Digit]
    /\ \A c \in Client : side[c] \in {"away", "backlog"} => welcomed[c] = E!Nobody
    /\ E!TableRight /\ E!VotesKept

\* Electors has the descriptors that this module has.
LEMMA SameDescriptorsE ==
    /\ E!Fd = Fd(Client)
    /\ E!Open = Open(Client) /\ (E!Open)' = Open(Client)'
    /\ E!Lowest = Lowest(Client)
    /\ E!NoOne = NoOne
    /\ \A F : E!CloseAll(F) <=> CloseAll(Client, F)
<1>1. \A X : E!Cardinality(X) = Cardinality(X)
  BY DEF E!Cardinality, Cardinality
<1>2. E!Fd = Fd(Client) /\ E!NoOne = NoOne
  BY <1>1 DEF E!Fd, Fd, E!NoOne, NoOne
<1>3. E!Open = Open(Client) /\ (E!Open)' = Open(Client)'
  BY <1>2 DEF E!Open, Open
<1>4. \A F : E!CloseAll(F) <=> CloseAll(Client, F)
  BY <1>2 DEF E!CloseAll, CloseAll
<1>5. E!Lowest = Lowest(Client)
  BY <1>2, <1>3, Zenon DEF E!Lowest, Lowest
<1>. QED
  BY <1>2, <1>3, <1>4, <1>5

\* Nobody is an elector at first, and nobody was.
LEMMA ElectorsInit == E!Init => EInv
<1>. SUFFICES ASSUME E!Init PROVE EInv
  OBVIOUS
<1>1. /\ side = [c \in Client |-> "away"] /\ up = TRUE
      /\ conn = [f \in Fd(Client) |-> NoOne]
      /\ fd = [j \in E!Elector |-> NoOne]
      /\ vote = [j \in E!Elector |-> -1] /\ announced = [j \in E!Elector |-> -1]
      /\ welcomed = [c \in Client |-> 0]
  BY SameDescriptorsE DEF E!Init, E!LoopInit, E!NoOne, NoOne, E!NoVote, E!Nobody
<1>2. Open(Client) = {}
  BY <1>1 DEF Open
<1>3. Connected(Client)
  BY <1>1, <1>2 DEF Connected, Sides
<1>4. 0 \in E!Digit
  BY ServersAssumption DEF E!Digit
<1>. QED
  BY <1>1, <1>2, <1>3, <1>4, SameDescriptorsE
     DEF EInv, E!TableRight, E!VotesKept, E!Nobody, E!NoVote, E!NoOne, NoOne

\* A step that is about other variables.
LEMMA ElectorsRest ==
    ASSUME EInv, UNCHANGED <<conn, side, up, fd, vote, announced, welcomed>>
    PROVE  EInv'
<1>1. Open(Client)' = Open(Client) /\ Fd(Client)' = Fd(Client) /\ Connected(Client)'
  BY DEF Open, Fd, EInv, Connected
<1>2. E!TableRight'
  BY <1>1, SameDescriptorsE DEF EInv, E!TableRight
<1>. QED
  BY <1>1, <1>2 DEF EInv, E!VotesKept

\* The server ends.
LEMMA ElectorsDie ==
    ASSUME EInv, E!Die, UNCHANGED <<fd, vote, announced, welcomed>>
    PROVE  EInv'
<1>1. CloseAll(Client, Fd(Client)) /\ up' = FALSE
  BY SameDescriptorsE DEF E!Die
<1>2. /\ Connected(Client)'
      /\ \A c \in Client : side'[c] # side[c] => side'[c] = "closed"
  BY <1>1, Closed, ServersAssumption DEF EInv
<1>3. E!TableRight'
  BY <1>1 DEF E!TableRight
<1>4. \A c \in Client : side'[c] \in {"away", "backlog"} => welcomed'[c] = E!Nobody
  BY <1>2 DEF EInv
<1>. QED
  BY <1>1, <1>2, <1>3, <1>4 DEF EInv, E!VotesKept, Fd

\* Somebody else connects.
LEMMA ElectorsConnect ==
    ASSUME EInv, NEW c \in Client, E!Connect(c), UNCHANGED <<fd, vote, announced, welcomed>>
    PROVE  EInv'
<1>1. /\ side[c] = "away" /\ side' = [side EXCEPT ![c] = "backlog"]
      /\ conn' = conn /\ up' = up
  BY DEF E!Connect
<1>2. Connected(Client)' /\ Open(Client)' = Open(Client)
  BY <1>1, Elsewhere DEF EInv, Sides
<1>3. \A b \in Client : side'[b] \in {"away", "backlog"} => welcomed'[b] = E!Nobody
  BY <1>1 DEF EInv, Connected
<1>4. E!TableRight'
  BY <1>1, <1>2, SameDescriptorsE DEF EInv, E!TableRight
<1>. QED
  BY <1>1, <1>2, <1>3, <1>4 DEF EInv, E!VotesKept, Fd

\* accept: the descriptor is nobody's, and the client has not been welcomed.
LEMMA ElectorsEnter ==
    ASSUME EInv, NEW c \in Client, E!Enter(c)
    PROVE  EInv'
<1>. DEFINE low == Lowest(Client)
<1>1. /\ side[c] = "backlog" /\ side' = [side EXCEPT ![c] = "accepted"]
      /\ conn' = [conn EXCEPT ![low] = c]
      /\ UNCHANGED <<up, fd, vote, announced, welcomed>>
  BY SameDescriptorsE DEF E!Enter, E!Accept, E!local
<1>2. /\ Connected(Client)'
      /\ low \in Fd(Client) \ Open(Client)
      /\ Open(Client)' = Open(Client) \union {low}
      /\ conn'[low] = c
      /\ \A g \in Open(Client) : conn'[g] = conn[g]
  BY <1>1, Accepted, ServersAssumption DEF EInv
<1>. HIDE DEF low
<1>3. \A b \in Client : side'[b] \in {"away", "backlog"} => welcomed'[b] = E!Nobody
  BY <1>1 DEF EInv, Connected
<1>4. ASSUME up
      PROVE  /\ \A j \in E!Elector : fd[j] # NoOne => fd[j] \in Open(Client)'
             /\ \A f \in Open(Client)', j \in E!Elector : fd[j] = f <=> welcomed[conn'[f]] = j
  <2>1. /\ \A j \in E!Elector : fd[j] # NoOne => fd[j] \in Open(Client)
        /\ \A f \in Open(Client), j \in E!Elector : fd[j] = f <=> welcomed[conn[f]] = j
    BY <1>4, SameDescriptorsE DEF EInv, E!TableRight
  <2>2. \A j \in E!Elector : fd[j] # low /\ welcomed[c] # j
    <3>1. low # NoOne /\ welcomed[c] = 0
      BY <1>1, <1>2 DEF EInv, E!Nobody, Fd, NoOne
    <3>2. \A j \in E!Elector : j # 0
      BY DEF E!Elector
    <3>. QED
      BY <1>2, <2>1, <3>1, <3>2
  <2>. QED
    BY <1>2, <2>1, <2>2
<1>5. E!TableRight'
  BY <1>1, <1>4, SameDescriptorsE DEF E!TableRight, E!NoOne, NoOne
<1>. QED
  BY <1>1, <1>2, <1>3, <1>5 DEF EInv, E!VotesKept, Fd

\* A client is refused, or one that has hung up leaves: its descriptor is closed and, if it was
\* an elector, it is none any more.
LEMMA ElectorsClose ==
    ASSUME EInv, NEW f \in Fd(Client), E!CloseAll({f}),
           fd' = [j \in E!Elector |-> IF j \in E!Is(f) THEN NoOne ELSE fd[j]],
           UNCHANGED <<up, vote, announced, welcomed>>
    PROVE  EInv'
<1>1. CloseAll(Client, {f})
  BY SameDescriptorsE
<1>2. /\ Connected(Client)'
      /\ Open(Client)' = Open(Client) \ {f}
      /\ \A g \in Open(Client)' : conn'[g] = conn[g]
      /\ \A c \in Client : side'[c] # side[c] => side'[c] = "closed"
  <2>1. Connected(Client) /\ Client \subseteq Nat /\ {f} \subseteq Fd(Client)
    BY ServersAssumption DEF EInv
  <2>. QED
    BY <1>1, <2>1, Closed
<1>3. \A b \in Client : side'[b] \in {"away", "backlog"} => welcomed'[b] = E!Nobody
  BY <1>2 DEF EInv
<1>4. \A j \in E!Elector : /\ fd[j] = f => fd'[j] = NoOne
                           /\ fd[j] # f => fd'[j] = fd[j]
  BY DEF E!Is
<1>5. ASSUME up
      PROVE  /\ \A j \in E!Elector : fd'[j] # NoOne => fd'[j] \in Open(Client)'
             /\ \A g \in Open(Client)', j \in E!Elector : fd'[j] = g <=> welcomed[conn'[g]] = j
  <2>1. /\ \A j \in E!Elector : fd[j] # NoOne => fd[j] \in Open(Client)
        /\ \A g \in Open(Client), j \in E!Elector : fd[j] = g <=> welcomed[conn[g]] = j
    BY <1>5, SameDescriptorsE DEF EInv, E!TableRight
  <2>2. \A g \in Open(Client) : g # NoOne
    BY DEF Open, Fd, NoOne
  <2>. QED
    BY <1>2, <1>4, <2>1, <2>2
<1>6. E!TableRight'
  BY <1>5, SameDescriptorsE DEF E!TableRight, E!NoOne, NoOne
<1>7. fd' \in [E!Elector -> Fd(Client) \union {NoOne}]
  BY DEF EInv
<1>. QED
  BY <1>2, <1>3, <1>6, <1>7 DEF EInv, E!VotesKept, Fd

\* A client becomes an elector: the place was vacant, and the client nobody.
LEMMA ElectorsRegister ==
    ASSUME EInv, NEW f \in Fd(Client), E!Register(f)
    PROVE  EInv'
<1>. DEFINE i == E!Received(f)
<1>1. /\ up /\ conn[f] # NoOne /\ i \in E!Elector /\ fd[i] = NoOne
      /\ \A j \in E!Elector : fd[j] # f
      /\ fd' = [fd EXCEPT ![i] = f]
      /\ welcomed' = [welcomed EXCEPT ![conn[f]] = i]
      /\ UNCHANGED <<side, conn, up, vote, announced>>
  BY SameDescriptorsE DEF E!Register, E!At, E!HasMessage, E!Is, E!Vacant
<1>. HIDE DEF i
<1>2. f \in Open(Client) /\ conn[f] \in Client /\ side[conn[f]] = "accepted"
  BY <1>1 DEF Open, EInv, Connected
<1>3. Open(Client)' = Open(Client) /\ Connected(Client)'
  BY <1>1 DEF Open, Fd, EInv, Connected
<1>4. /\ fd' \in [E!Elector -> Fd(Client) \union {NoOne}]
      /\ welcomed' \in [Client -> E!Digit]
  <2>1. i \in E!Digit
    BY <1>1, ServersAssumption DEF E!Elector, E!Digit
  <2>. QED
    BY <1>1, <1>2, <2>1 DEF EInv
<1>5. /\ fd'[i] = f /\ \A j \in E!Elector : j # i => fd'[j] = fd[j]
      /\ welcomed'[conn[f]] = i
      /\ \A g \in Open(Client) : g # f => welcomed'[conn[g]] = welcomed[conn[g]]
  BY <1>1, <1>2 DEF EInv, Connected
<1>6. /\ \A j \in E!Elector : fd[j] # NoOne => fd[j] \in Open(Client)
      /\ \A g \in Open(Client), j \in E!Elector : fd[j] = g <=> welcomed[conn[g]] = j
  BY <1>1, SameDescriptorsE DEF EInv, E!TableRight
<1>7. /\ \A j \in E!Elector : fd'[j] # NoOne => fd'[j] \in Open(Client)
      /\ \A g \in Open(Client), j \in E!Elector : fd'[j] = g <=> welcomed'[conn[g]] = j
  <2>1. \A g \in Open(Client) : g # NoOne
    BY DEF Open, Fd, NoOne
  <2>. QED
    BY <1>1, <1>2, <1>5, <1>6, <2>1
<1>8. E!TableRight'
  BY <1>1, <1>3, <1>7, SameDescriptorsE DEF E!TableRight, E!NoOne, NoOne
<1>9. \A b \in Client : side'[b] \in {"away", "backlog"} => welcomed'[b] = E!Nobody
  BY <1>1, <1>2 DEF EInv
<1>. QED
  BY <1>1, <1>3, <1>4, <1>8, <1>9 DEF EInv, E!VotesKept, Fd

\* A vote is cast, or all are announced.
LEMMA ElectorsVote ==
    ASSUME EInv, (\E f \in Fd(Client) : E!CastVote(f)) \/ E!Announce
    PROVE  EInv'
<1>1. /\ UNCHANGED <<side, conn, up, fd, welcomed>>
      /\ \/ announced' = vote /\ vote' = vote
         \/ announced' = announced /\ \E S : \E v \in Int :
                vote' = [j \in E!Elector |-> IF j \in S /\ v \in 0..LastVote THEN v ELSE vote[j]]
  <2>1. CASE E!Announce
    BY <2>1 DEF E!Announce, E!loop, E!clients
  <2>2. ASSUME NEW f \in Fd(Client), E!CastVote(f)
        PROVE  /\ UNCHANGED <<side, conn, up, fd, welcomed>>
               /\ announced' = announced /\ \E S : \E v \in Int :
                vote' = [j \in E!Elector |-> IF j \in S /\ v \in 0..LastVote THEN v ELSE vote[j]]
    <3>. DEFINE v == E!Received(f)
    <3>1. /\ UNCHANGED <<side, conn, up, fd, welcomed, announced>>
          /\ vote' = [j \in E!Elector |-> IF j \in E!Is(f) /\ v \in 0..LastVote THEN v ELSE vote[j]]
      BY <2>2 DEF E!CastVote
    <3>. HIDE DEF v
    <3>2. CASE v \in 0..LastVote
      BY <3>1, <3>2
    <3>3. CASE v \notin 0..LastVote
      <4>1. vote' = [j \in E!Elector |-> IF j \in {} /\ 0 \in 0..LastVote THEN 0 ELSE vote[j]]
        BY <3>1, <3>3
      <4>. QED
        BY <3>1, <4>1
    <3>. QED
      BY <3>2, <3>3
  <2>. QED
    BY <2>1, <2>2
<1>2. /\ vote' \in [E!Elector -> Int] /\ announced' \in [E!Elector -> Int]
      /\ E!VotesKept'
  <2>1. CASE announced' = vote /\ vote' = vote
    BY <2>1 DEF EInv, E!VotesKept
  <2>2. ASSUME announced' = announced, NEW S, NEW v \in Int,
               vote' = [j \in E!Elector |-> IF j \in S /\ v \in 0..LastVote THEN v ELSE vote[j]]
        PROVE  /\ vote' \in [E!Elector -> Int] /\ announced' \in [E!Elector -> Int]
               /\ E!VotesKept'
    <3>1. \A j \in E!Elector : vote'[j] = vote[j] \/ vote'[j] \in Nat
      BY <2>2
    <3>. QED
      BY <2>2, <3>1 DEF EInv, E!VotesKept, E!NoVote
  <2>. QED
    BY <1>1, <2>1, <2>2
<1>3. Open(Client)' = Open(Client) /\ Fd(Client)' = Fd(Client) /\ Connected(Client)'
  BY <1>1 DEF Open, Fd, EInv, Connected
<1>4. E!TableRight'
  BY <1>1, <1>3, SameDescriptorsE DEF EInv, E!TableRight
<1>. QED
  BY <1>1, <1>2, <1>3, <1>4 DEF EInv

\* Every step of the election server.
LEMMA ElectorsStep == ASSUME EInv, E!Next PROVE EInv'
<1>1. ASSUME NEW c \in Client, E!Connect(c) \/ E!Speak(c) \/ E!HangUp(c), UNCHANGED E!local
      PROVE  EInv'
  <2>1. UNCHANGED <<fd, vote, announced, welcomed>>
    BY <1>1 DEF E!local
  <2>2. CASE E!Connect(c)
    BY <2>1, <2>2, ElectorsConnect
  <2>3. CASE E!Speak(c) \/ E!HangUp(c)
    BY <2>1, <2>3, ElectorsRest DEF E!Speak, E!HangUp
  <2>. QED
    BY <1>1, <2>2, <2>3
<1>2. ASSUME E!Poll, UNCHANGED E!local
      PROVE  EInv'
  BY <1>2, ElectorsRest DEF E!Poll, E!clients, E!local
<1>3. ASSUME NEW f \in Fd(Client), E!Leave(f)
      PROVE  EInv'
  BY <1>3, ElectorsClose, SameDescriptorsE DEF E!Leave
<1>4. ASSUME NEW f \in Fd(Client), E!Refuse(f)
      PROVE  EInv'
  <2>1. fd' = [j \in E!Elector |-> IF j \in E!Is(f) THEN NoOne ELSE fd[j]]
    <3>1. fd' = fd /\ E!Is(f) = {} /\ fd = [j \in E!Elector |-> fd[j]]
      BY <1>4 DEF E!Refuse, E!local, EInv
    <3>. QED
      BY <3>1
  <2>. QED
    BY <1>4, <2>1, ElectorsClose DEF E!Refuse, E!local
<1>5. ASSUME NEW f \in Fd(Client), E!Ignore(f)
      PROVE  EInv'
  BY <1>5, ElectorsRest DEF E!Ignore, E!local
<1>6. ASSUME NEW f \in Fd(Client), E!LeaveDies(f) \/ E!RegisterDies(f)
      PROVE  EInv'
  BY <1>6, ElectorsDie DEF E!LeaveDies, E!RegisterDies, E!local
<1>7. ASSUME E!Stop
      PROVE  EInv'
  BY <1>7, ElectorsDie DEF E!Stop, E!Sigint, E!local
<1>. QED
  BY <1>1, <1>2, <1>3, <1>4, <1>5, <1>6, <1>7, ElectorsEnter, ElectorsRegister, ElectorsVote,
     SameDescriptorsE DEF E!Next, E!Clients, E!Handle
-----------------------------------------------------------------------------
(* The server that sums up digits, sop-server.c. *)

Digits == UNION {PartOf[c] : c \in Client}

PType ==
    /\ sent \in [Client -> Nat]
    /\ inbox \in [Client -> Seq(Digits)]
    /\ answer \in [Client -> Int] /\ highest_sum \in Int

\* Nobody has sent more than a pid, and nobody has been told what is not the sum of its digits.
PSentInv == \A c \in Client : Len(inbox[c]) <= sent[c] /\ sent[c] <= P!PARTS
PSumInv  == \A c \in Client : answer[c] \in {P!NoAnswer, DigitSum[c]}

PInv == Connected(Client) /\ PType /\ PSentInv /\ PSumInv /\ P!AnswersRight

\* PidSums has the descriptors that this module has.
LEMMA SameDescriptorsP ==
    /\ P!Fd = Fd(Client)
    /\ P!Open = Open(Client)
    /\ P!Lowest = Lowest(Client)
    /\ P!NoOne = NoOne
    /\ \A F : P!CloseAll(F) <=> CloseAll(Client, F)
<1>1. \A X : P!Cardinality(X) = Cardinality(X)
  BY DEF P!Cardinality, Cardinality
<1>2. P!Fd = Fd(Client) /\ P!NoOne = NoOne
  BY <1>1 DEF P!Fd, Fd, P!NoOne, NoOne
<1>3. P!Open = Open(Client)
  BY <1>2 DEF P!Open, Open
<1>4. \A F : P!CloseAll(F) <=> CloseAll(Client, F)
  BY <1>2 DEF P!CloseAll, CloseAll
<1>5. P!Lowest = Lowest(Client)
  BY <1>2, <1>3, Zenon DEF P!Lowest, Lowest
<1>. QED
  BY <1>2, <1>3, <1>4, <1>5

\* Nobody has connected, and nothing is answered.
LEMMA SumsInit == P!Init => PInv
<1>. SUFFICES ASSUME P!Init PROVE PInv
  OBVIOUS
<1>1. /\ side = [c \in Client |-> "away"]
      /\ sent = [c \in Client |-> 0] /\ inbox = [c \in Client |-> <<>>]
      /\ conn = [f \in Fd(Client) |-> NoOne]
      /\ highest_sum = -1 /\ answer = [c \in Client |-> P!NoAnswer]
  BY SameDescriptorsP DEF P!Init, P!LoopInit
<1>2. Open(Client) = {}
  BY <1>1 DEF Open
<1>3. Connected(Client)
  BY <1>1, <1>2 DEF Connected, Sides
<1>4. PType /\ PSentInv /\ PSumInv /\ P!AnswersRight
  BY <1>1 DEF PType, PSentInv, PSumInv, P!PARTS, P!NoAnswer, P!AnswersRight
<1>. QED
  BY <1>3, <1>4 DEF PInv

\* A step that answers nothing: who has sent all of its pid sends no more.
LEMMA SumsRest ==
    ASSUME PInv, UNCHANGED P!local, Connected(Client)',
           sent' \in [Client -> Nat], inbox' \in [Client -> Seq(Digits)],
           \A c \in Client : /\ Len(inbox'[c]) <= sent'[c] /\ sent'[c] <= P!PARTS
                             /\ sent[c] <= sent'[c]
    PROVE  PInv'
<1>1. UNCHANGED <<highest_sum, answer>>
  BY DEF P!local
<1>2. PType' /\ PSentInv' /\ PSumInv'
  BY <1>1 DEF PInv, PType, PSentInv, PSumInv
<1>3. \A c \in Client : sent[c] = P!PARTS => sent'[c] = P!PARTS
  BY DEF P!PARTS
<1>4. P!AnswersRight'
  BY <1>1, <1>3 DEF PInv, P!AnswersRight
<1>. QED
  BY <1>2, <1>4 DEF PInv

\* A step that takes nothing in, and at most empties an inbox.
LEMMA SumsTake ==
    ASSUME PInv, UNCHANGED P!local, Connected(Client)', UNCHANGED sent,
           \A c \in Client : inbox'[c] \in {inbox[c], <<>>}, inbox' \in [Client -> Seq(Digits)]
    PROVE  PInv'
<1>1. \A c \in Client : Len(inbox'[c]) <= sent[c] /\ sent[c] <= P!PARTS /\ sent[c] \in Nat
  BY DEF PInv, PType, PSentInv
<1>. QED
  BY <1>1, SumsRest DEF PInv, PType

\* The pid is all there: the sum is told, and is the highest one or is not.
LEMMA SumsAnswer == ASSUME PInv, NEW f \in Fd(Client), P!Answer(f) PROVE PInv'
<1>. DEFINE b == conn[f]
            sum == DigitSum[b]
<1>1. /\ CloseAll(Client, {f}) /\ UNCHANGED sent
      /\ b # NoOne /\ Len(inbox[b]) >= P!PARTS
      /\ highest_sum' = P!Larger(highest_sum, sum)
      /\ answer' = [answer EXCEPT ![b] = sum]
      /\ inbox' = [inbox EXCEPT ![b] = <<>>]
  BY SameDescriptorsP DEF P!Answer, P!Whole
<1>2. Connected(Client)'
  <2>1. Connected(Client) /\ Client \subseteq Nat /\ {f} \subseteq Fd(Client)
    BY ServersAssumption DEF PInv
  <2>. QED
    BY <1>1, <2>1, Closed
<1>3. b \in Client
  BY <1>1 DEF PInv, Connected
<1>4. sum \in Nat
  BY <1>3, ServersAssumption
<1>. HIDE DEF b, sum
<1>5. sum = DigitSum[b]
  BY DEF b, sum
<1>6. sent[b] = P!PARTS
  <2>1. inbox[b] \in Seq(Digits) /\ sent[b] \in Nat
    BY <1>3 DEF PInv, PType
  <2>2. Len(inbox[b]) \in Nat /\ Len(inbox[b]) <= sent[b] /\ sent[b] <= P!PARTS
    BY <1>3, <2>1 DEF PInv, PSentInv
  <2>. QED
    BY <1>1, <2>1, <2>2 DEF P!PARTS
<1>7. /\ answer'[b] = sum /\ inbox'[b] = <<>>
      /\ \A c \in Client : c # b => answer'[c] = answer[c] /\ inbox'[c] = inbox[c]
      /\ answer' \in [Client -> Int] /\ inbox' \in [Client -> Seq(Digits)]
  BY <1>1, <1>3, <1>4 DEF PInv, PType
<1>8. /\ highest_sum' \in {highest_sum, sum} /\ highest_sum \in Int
      /\ highest_sum' >= sum /\ highest_sum' >= highest_sum
  BY <1>1, <1>4 DEF P!Larger, PInv, PType
<1>9. PType' /\ PSentInv' /\ PSumInv'
  <2>1. highest_sum' \in Int /\ sent' \in [Client -> Nat]
    BY <1>1, <1>4, <1>8 DEF PInv, PType
  <2>2. \A c \in Client : Len(inbox'[c]) <= sent[c] /\ sent[c] <= P!PARTS
    <3>1. \A c \in Client : sent[c] \in Nat /\ Len(inbox[c]) <= sent[c] /\ sent[c] <= P!PARTS
      BY DEF PInv, PType, PSentInv
    <3>2. Len(<<>>) = 0
      OBVIOUS
    <3>. TAKE c \in Client
    <3>3. CASE c = b
      BY <1>3, <1>7, <3>1, <3>2, <3>3 DEF P!PARTS
    <3>4. CASE c # b
      <4>1. inbox'[c] = inbox[c]
        BY <1>7, <3>4
      <4>. QED
        BY <3>1, <4>1
    <3>. QED
      BY <3>3, <3>4
  <2>3. PSumInv'
    BY <1>5, <1>7 DEF PInv, PSumInv, P!NoAnswer
  <2>. QED
    BY <1>1, <1>7, <2>1, <2>2, <2>3 DEF PType, PSentInv
<1>10. ASSUME NEW c \in Client, answer'[c] # P!NoAnswer
       PROVE  sent'[c] = P!PARTS /\ answer'[c] <= highest_sum'
  <2>1. CASE c = b
    BY <1>1, <1>6, <1>7, <1>8, <2>1
  <2>2. CASE c # b
    <3>1. sent[c] = P!PARTS /\ answer[c] <= highest_sum /\ answer[c] \in Int
      BY <1>7, <1>10, <2>2 DEF PInv, PType, P!AnswersRight
    <3>2. highest_sum' \in Int
      BY <1>9 DEF PType
    <3>. QED
      BY <1>1, <1>7, <1>8, <2>2, <3>1, <3>2
  <2>. QED
    BY <2>1, <2>2
<1>11. ASSUME highest_sum' # P!NoAnswer
       PROVE  \E c \in Client : answer'[c] = highest_sum'
  <2>1. CASE highest_sum' = sum
    BY <1>3, <1>7, <2>1
  <2>2. CASE highest_sum' # sum
    <3>1. PICK c \in Client : answer[c] = highest_sum' /\ highest_sum' = highest_sum
      BY <1>8, <1>11, <2>2 DEF PInv, P!AnswersRight
    <3>2. c # b
      BY <1>5, <1>11, <2>2, <3>1 DEF PInv, PSumInv
    <3>. QED
      BY <1>7, <3>1, <3>2
  <2>. QED
    BY <2>1, <2>2
<1>12. P!AnswersRight'
  BY <1>10, <1>11 DEF P!AnswersRight, P!NoAnswer
<1>. QED
  BY <1>2, <1>9, <1>12 DEF PInv

\* Every step of the server that sums up.
LEMMA SumsStep == ASSUME PInv, P!Next PROVE PInv'
<1>. USE SameDescriptorsP
<1>1. ASSUME NEW c \in Client, P!Connect(c) \/ P!Speak(c) \/ P!HangUp(c), UNCHANGED P!local
      PROVE  PInv'
  <2>1. CASE P!Connect(c)
    <3>1. /\ side[c] = "away" /\ side' = [side EXCEPT ![c] = "backlog"]
          /\ UNCHANGED <<conn, sent, inbox>>
      BY <2>1 DEF P!Connect
    <3>2. Connected(Client)'
      BY <3>1, Elsewhere DEF PInv, Sides
    <3>. QED
      BY <1>1, <3>1, <3>2, SumsTake DEF PInv, PType
  <2>2. CASE P!HangUp(c)
    <3>1. UNCHANGED <<conn, side, sent, inbox>>
      BY <2>2 DEF P!HangUp
    <3>2. Connected(Client)'
      BY <3>1 DEF PInv, Connected, Open, Fd
    <3>. QED
      BY <1>1, <3>1, <3>2, SumsTake DEF PInv, PType
  <2>3. CASE P!Speak(c)
    <3>1. PICK m \in PartOf[c] : inbox' = [inbox EXCEPT ![c] = Append(@, m)]
      BY <2>3 DEF P!Speak
    <3>2. /\ UNCHANGED <<conn, side>> /\ sent[c] < Often["sums"][c]
          /\ sent' = [sent EXCEPT ![c] = @ + 1]
      BY <2>3 DEF P!Speak
    <3>3. Connected(Client)'
      BY <3>2 DEF PInv, Connected, Open, Fd
    <3>4. inbox' \in [Client -> Seq(Digits)]
      <4>1. m \in Digits
        BY DEF Digits
      <4>2. inbox \in [Client -> Seq(Digits)]
        BY DEF PInv, PType
      <4>. QED
        BY <3>1, <4>1, <4>2, Inbox
    <3>5. /\ \A b \in Client : b # c => sent'[b] = sent[b] /\ inbox'[b] = inbox[b]
          /\ sent'[c] = sent[c] + 1 /\ sent' \in [Client -> Nat]
          /\ inbox'[c] = Append(inbox[c], m)
      BY <3>1, <3>2 DEF PInv, PType
    <3>6. Len(inbox'[c]) <= sent'[c] /\ sent'[c] <= P!PARTS /\ sent[c] <= sent'[c]
      <4>1. inbox[c] \in Seq(Digits) /\ sent[c] \in Nat /\ Len(inbox[c]) <= sent[c]
        BY DEF PInv, PType, PSentInv
      <4>2. Len(Append(inbox[c], m)) = Len(inbox[c]) + 1 /\ Len(inbox[c]) \in Nat
        BY <4>1
      <4>3. Often["sums"][c] \in 0..2
        BY ServersAssumption
      <4>. QED
        BY <3>2, <3>5, <4>1, <4>2, <4>3 DEF P!PARTS
    <3>7. \A b \in Client : /\ Len(inbox'[b]) <= sent'[b] /\ sent'[b] <= P!PARTS
                            /\ sent[b] <= sent'[b]
      <4>1. \A b \in Client : /\ sent[b] \in Nat /\ sent[b] <= sent[b]
                              /\ Len(inbox[b]) <= sent[b] /\ sent[b] <= P!PARTS
        BY DEF PInv, PType, PSentInv
      <4>. TAKE b \in Client
      <4>2. CASE b = c
        BY <3>6, <4>2
      <4>3. CASE b # c
        <5>1. sent'[b] = sent[b] /\ inbox'[b] = inbox[b]
          BY <3>5, <4>3
        <5>. QED
          BY <4>1, <5>1
      <4>. QED
        BY <4>2, <4>3
    <3>. QED
      BY <1>1, <3>3, <3>4, <3>5, <3>7, SumsRest
  <2>. QED
    BY <1>1, <2>1, <2>2, <2>3
<1>2. ASSUME P!Poll, UNCHANGED P!local
      PROVE  PInv'
  <2>1. UNCHANGED <<conn, side, sent, inbox>>
    BY <1>2 DEF P!Poll, P!clients
  <2>2. Connected(Client)'
    BY <2>1 DEF PInv, Connected, Open, Fd
  <2>. QED
    BY <1>2, <2>1, <2>2, SumsTake DEF PInv, PType
<1>3. ASSUME P!Die, UNCHANGED P!local
      PROVE  PInv'
  <2>1. CloseAll(Client, Fd(Client)) /\ UNCHANGED <<sent, inbox>>
    BY <1>3 DEF P!Die
  <2>2. Connected(Client)'
    BY <2>1, Closed, ServersAssumption DEF PInv
  <2>. QED
    BY <1>3, <2>1, <2>2, SumsTake DEF PInv, PType
<1>4. ASSUME NEW c \in Client, P!Enter(c)
      PROVE  PInv'
  <2>1. /\ side[c] = "backlog" /\ side' = [side EXCEPT ![c] = "accepted"]
        /\ conn' = [conn EXCEPT ![Lowest(Client)] = c]
        /\ UNCHANGED <<sent, inbox, P!local>>
    BY <1>4 DEF P!Enter, P!Accept
  <2>2. Connected(Client)'
    BY <2>1, Accepted, ServersAssumption DEF PInv
  <2>. QED
    BY <2>1, <2>2, SumsTake DEF PInv, PType
<1>5. ASSUME NEW f \in Fd(Client), P!Part(f)
      PROVE  PInv'
  <2>1. /\ inbox' = [inbox EXCEPT ![conn[f]] = <<>>]
        /\ UNCHANGED <<side, sent, conn, P!local>>
    BY <1>5 DEF P!Part
  <2>2. Connected(Client)'
    BY <2>1 DEF PInv, Connected, Open, Fd
  <2>3. inbox' \in [Client -> Seq(Digits)] /\ \A c \in Client : inbox'[c] \in {inbox[c], <<>>}
    <3>1. inbox \in [Client -> Seq(Digits)] /\ <<>> \in Seq(Digits)
      BY DEF PInv, PType
    <3>2. inbox' \in [Client -> Seq(Digits)]
      BY <2>1, <3>1
    <3>3. \A c \in Client : inbox'[c] \in {inbox[c], <<>>}
      BY <2>1, <3>1
    <3>. QED
      BY <3>2, <3>3
  <2>. QED
    BY <2>1, <2>2, <2>3, SumsTake
<1>6. ASSUME NEW f \in Fd(Client), P!PartDies(f)
      PROVE  PInv'
  BY <1>3, <1>6 DEF P!PartDies
<1>7. ASSUME NEW f \in Fd(Client), P!Leave(f)
      PROVE  PInv'
  <2>1. CloseAll(Client, {f}) /\ UNCHANGED <<sent, inbox, P!local>>
    BY <1>7 DEF P!Leave
  <2>2. Connected(Client)'
    <3>1. Connected(Client) /\ Client \subseteq Nat /\ {f} \subseteq Fd(Client)
      BY ServersAssumption DEF PInv
    <3>. QED
      BY <2>1, <3>1, Closed
  <2>. QED
    BY <2>1, <2>2, SumsTake DEF PInv, PType
<1>8. ASSUME P!Stop
      PROVE  PInv'
  BY <1>3, <1>8 DEF P!Stop, P!Sigint
<1>. QED
  BY <1>1, <1>2, <1>4, <1>5, <1>6, <1>7, <1>8, SumsAnswer DEF P!Next, P!Clients, P!Handle
-----------------------------------------------------------------------------
(* The calculator, l7-1_server.c. *)

\* What fits into int32_t is not wrapped.
LEMMA Fits == ASSUME NEW x \in C!MinInt..(-C!MinInt - 1) PROVE C!Wrap(x) = x
<1>. DEFINE y == x - C!MinInt
            n == 2 * HALF
<1>1. HALF \in Nat \ {0} /\ x \in Int
  BY ServersAssumption DEF C!MinInt
<1>2. y \in Nat /\ n \in Nat /\ 0 <= y /\ y < n
  BY <1>1 DEF C!MinInt
<1>3. y % n = y
  <2>. HIDE DEF y, n
  <2>. QED
    BY <1>2
<1>. QED
  BY <1>1, <1>3 DEF C!Wrap, C!MinInt

\* A multiple of a number that is not zero is not smaller.
LEMMA Multiple == ASSUME NEW k \in Int, NEW b \in Nat, k # 0, b > 0
                  PROVE  k * b >= b \/ k * b <= -b
<1>1. CASE k >= 1
  <2>1. (k - 1) * b >= 0
    BY <1>1
  <2>2. (k - 1) * b = k * b - b
    OBVIOUS
  <2>. QED
    BY <2>1, <2>2
<1>2. CASE k <= -1
  <2>1. (-1 - k) * b >= 0
    BY <1>2
  <2>2. (-1 - k) * b = -b - k * b
    OBVIOUS
  <2>. QED
    BY <2>1, <2>2
<1>. QED
  BY <1>1, <1>2

\* A quotient that leaves a remainder of the sign of a, and smaller than b, is the only one.
LEMMA OneQuotient ==
    ASSUME NEW a \in Int, NEW b \in Int, b # 0, NEW q \in Int, NEW r \in Int,
           C!Exact(a, "/", b, q), C!Exact(a, "/", b, r)
    PROVE  q = r
<1>. DEFINE x == a - q * b
            y == a - r * b
            n == C!Size(b)
            k == q - r
<1>1. /\ x \in Int /\ y \in Int /\ n \in Nat /\ n > 0
      /\ C!Size(x) < n /\ (x = 0 \/ (x < 0 <=> a < 0))
      /\ C!Size(y) < n /\ (y = 0 \/ (y < 0 <=> a < 0))
  BY DEF C!Exact, C!Size
<1>2. y - x = k * b
  OBVIOUS
<1>3. y - x < n /\ y - x > -n
  <2>. HIDE DEF x, y, n
  <2>. QED
    BY <1>1 DEF C!Size
<1>4. k * b = k * n \/ k * b = -(k * n)
  BY DEF C!Size
<1>5. k = 0
  <2>1. k \in Int
    OBVIOUS
  <2>2. SUFFICES ASSUME k # 0 PROVE FALSE
    OBVIOUS
  <2>3. k * n >= n \/ k * n <= -n
    <3>. HIDE DEF k, n
    <3>. QED
      BY <1>1, <2>1, <2>2, Multiple
  <2>. DEFINE p == k * n
              d == y - x
  <2>4. p \in Int /\ d \in Int /\ (d = p \/ d = -p) /\ (p >= n \/ p <= -n) /\ d < n /\ d > -n
    BY <1>1, <1>2, <1>3, <1>4, <2>1, <2>3
  <2>. HIDE DEF p, d, n
  <2>. QED
    BY <1>1, <2>4
<1>. QED
  BY <1>5

\* Division towards zero leaves such a remainder.
LEMMA Truncated ==
    ASSUME NEW a \in Int, NEW b \in Int, b # 0
    PROVE  \E q \in Int : /\ C!Exact(a, "/", b, q)
                          /\ C!Divide(a, b) = C!Wrap(q)
<1>. DEFINE m == C!Size(a)
            n == C!Size(b)
            d == m \div n
            q == IF a * b < 0 THEN -d ELSE d
<1>1. m \in Nat /\ n \in Nat /\ n > 0
  BY DEF C!Size
<1>2. d \in Nat /\ m - d * n >= 0 /\ m - d * n < n
  <2>. HIDE DEF m, n
  <2>1. m \div n \in Nat
    BY <1>1
  <2>2. m = n * (m \div n) + (m % n)
    BY <1>1
  <2>3. 0 <= m % n /\ m % n < n
    BY <1>1
  <2>4. n * d = d * n
    BY <1>1, <2>1
  <2>. QED
    BY <1>1, <2>1, <2>2, <2>3, <2>4
<1>. DEFINE e == m - d * n
<1>3. e \in Nat /\ e < n
  BY <1>1, <1>2
<1>4. a - q * b \in {e, -e} /\ (a - q * b = 0 \/ (a - q * b < 0 <=> a < 0))
  <2>. HIDE DEF d
  <2>1. CASE a >= 0 /\ b > 0
    <3>1. a * b >= 0 /\ m = a /\ n = b
      BY <2>1 DEF C!Size
    <3>2. q = d /\ a - q * b = e
      BY <3>1
    <3>. QED
      BY <1>3, <2>1, <3>2
  <2>2. CASE a >= 0 /\ b < 0
    <3>1. m = a /\ n = -b
      BY <2>2 DEF C!Size
    <3>2. CASE a = 0
      <4>1. d * n <= 0 /\ d * n >= 0
        BY <1>1, <1>2, <3>1, <3>2
      <4>2. a * b = 0 /\ q = d
        BY <3>2
      <4>. QED
        BY <1>2, <3>1, <3>2, <4>1, <4>2
    <3>3. CASE a > 0
      <4>1. a * b < 0
        BY <2>2, <3>3
      <4>2. a - q * b = e
        BY <1>2, <3>1, <4>1
      <4>. QED
        BY <1>3, <2>2, <4>2
    <3>. QED
      BY <2>2, <3>2, <3>3
  <2>3. CASE a < 0 /\ b > 0
    <3>1. m = -a /\ n = b
      BY <2>3 DEF C!Size
    <3>2. a * b < 0
      BY <2>3
    <3>3. a - q * b = -e
      BY <1>2, <3>1, <3>2
    <3>. QED
      BY <1>3, <2>3, <3>3
  <2>4. CASE a < 0 /\ b < 0
    <3>1. m = -a /\ n = -b
      BY <2>4 DEF C!Size
    <3>2. a * b > 0
      BY <2>4
    <3>3. a - q * b = -e
      BY <1>2, <3>1, <3>2
    <3>. QED
      BY <1>3, <2>4, <3>3
  <2>. QED
    BY <2>1, <2>2, <2>3, <2>4
<1>5. q \in Int
  BY <1>2
<1>6. C!Exact(a, "/", b, q)
  <2>1. C!Size(a - q * b) < n
    <3>. DEFINE z == a - q * b
    <3>1. z \in {e, -e}
      BY <1>4
    <3>. HIDE DEF z, e, n
    <3>. QED
      BY <1>3, <3>1 DEF C!Size, z
  <2>. QED
    BY <1>4, <2>1 DEF C!Exact
<1>7. C!Divide(a, b) = C!Wrap(q)
  BY DEF C!Divide
<1>. QED
  BY <1>5, <1>6, <1>7

\* calculate: a result that fits is the right one.
LEMMA ResultRight ==
    ASSUME NEW data \in Int \X STRING \X Int, ~C!Impossible(data),
           NEW r \in C!MinInt..(-C!MinInt - 1), C!Exact(data[1], data[2], data[3], r)
    PROVE  C!Exact(data[1], data[2], data[3], C!Result(data))
<1>1. data[1] \in Int /\ data[3] \in Int /\ r \in Int
  BY ServersAssumption DEF C!MinInt
<1>2. data[2] \in {"+", "-", "*", "/"} /\ (data[2] = "/" => data[3] # 0)
  BY DEF C!Impossible
<1>3. CASE data[2] = "+"
  BY <1>1, <1>3, Fits DEF C!Exact, C!Result
<1>4. CASE data[2] = "-"
  BY <1>1, <1>4, Fits DEF C!Exact, C!Result
<1>5. CASE data[2] = "*"
  BY <1>1, <1>5, Fits DEF C!Exact, C!Result
<1>6. CASE data[2] = "/"
  <2>1. PICK q \in Int : /\ C!Exact(data[1], "/", data[3], q)
                         /\ C!Divide(data[1], data[3]) = C!Wrap(q)
    BY <1>1, <1>2, <1>6, Truncated
  <2>2. q = r
    BY <1>1, <1>2, <1>6, <2>1, OneQuotient
  <2>3. C!Result(data) = r
    BY <1>6, <2>1, <2>2, Fits DEF C!Result
  <2>. QED
    BY <2>3
<1>. QED
  BY <1>2, <1>3, <1>4, <1>5, <1>6
-----------------------------------------------------------------------------
(* The loop of the calculator. *)

Requests == UNION {DataOf[c] : c \in Client}

\* What comes from a client is a request of its own, and no more than one.
CInboxInv ==
    /\ sent \in [Client -> Nat] /\ inbox \in [Client -> Seq(Requests)]
    /\ \A c \in Client : /\ inbox[c] \in Seq(DataOf[c])
                         /\ Len(inbox[c]) <= sent[c] /\ sent[c] <= C!PARTS

\* Who has a reply got that of calculate to its own request.
CReplyInv ==
    /\ DOMAIN reply = Client
    /\ \A c \in Client : reply[c] # C!NoReply =>
          /\ sent[c] = C!PARTS
          /\ \E data \in DataOf[c] : reply[c] = <<data, C!Result(data), C!Status(data)>>

CInv == Connected(Client) /\ CInboxInv /\ CReplyInv

\* Calculator has the descriptors that this module has.
LEMMA SameDescriptorsC ==
    /\ C!Fd = Fd(Client)
    /\ C!Open = Open(Client)
    /\ C!Lowest = Lowest(Client)
    /\ C!NoOne = NoOne
    /\ \A F : C!CloseAll(F) <=> CloseAll(Client, F)
<1>1. \A X : C!Cardinality(X) = Cardinality(X)
  BY DEF C!Cardinality, Cardinality
<1>2. C!Fd = Fd(Client) /\ C!NoOne = NoOne
  BY <1>1 DEF C!Fd, Fd, C!NoOne, NoOne
<1>3. C!Open = Open(Client)
  BY <1>2 DEF C!Open, Open
<1>4. \A F : C!CloseAll(F) <=> CloseAll(Client, F)
  BY <1>2 DEF C!CloseAll, CloseAll
<1>5. C!Lowest = Lowest(Client)
  BY <1>2, <1>3, Zenon DEF C!Lowest, Lowest
<1>. QED
  BY <1>2, <1>3, <1>4, <1>5

\* What the run checks of the calculator follows, by the arithmetic of calculate.
LEMMA CalculatorRight == CInv => C!RepliesRight
<1>. SUFFICES ASSUME CInv, NEW c \in Client, reply[c] # C!NoReply
              PROVE  LET data == reply[c][1]
                     IN  /\ sent[c] = C!PARTS /\ data \in DataOf[c]
                         /\ (reply[c][3] = 0) <=> C!Impossible(data)
                         /\ reply[c][3] = 1 /\ (\E r \in C!MinInt..(-C!MinInt - 1) :
                                                   C!Exact(data[1], data[2], data[3], r))
                              => C!Exact(data[1], data[2], data[3], reply[c][2])
  BY DEF C!RepliesRight
<1>1. PICK data \in DataOf[c] : reply[c] = <<data, C!Result(data), C!Status(data)>>
  BY DEF CInv, CReplyInv
<1>2. sent[c] = C!PARTS
  BY DEF CInv, CReplyInv
<1>3. data \in Int \X STRING \X Int
  BY ServersAssumption
<1>4. reply[c][1] = data /\ reply[c][2] = C!Result(data) /\ reply[c][3] = C!Status(data)
  BY <1>1
<1>5. /\ C!Status(data) = 0 <=> C!Impossible(data)
      /\ C!Status(data) = 1 => ~C!Impossible(data)
  BY DEF C!Status
<1>6. ASSUME ~C!Impossible(data), NEW r \in C!MinInt..(-C!MinInt - 1),
             C!Exact(data[1], data[2], data[3], r)
      PROVE  C!Exact(data[1], data[2], data[3], C!Result(data))
  BY <1>3, <1>6, ResultRight
<1>. QED
  BY <1>2, <1>4, <1>5, <1>6

\* Nobody has connected, and nothing is calculated.
LEMMA CalculatorInit == C!Init => CInv
<1>. SUFFICES ASSUME C!Init PROVE CInv
  OBVIOUS
<1>1. /\ side = [c \in Client |-> "away"]
      /\ sent = [c \in Client |-> 0] /\ inbox = [c \in Client |-> <<>>]
      /\ conn = [f \in Fd(Client) |-> NoOne]
      /\ reply = [c \in Client |-> C!NoReply]
  BY SameDescriptorsC DEF C!Init, C!LoopInit
<1>2. Open(Client) = {}
  BY <1>1 DEF Open
<1>3. Connected(Client)
  BY <1>1, <1>2 DEF Connected, Sides
<1>4. CInboxInv
  BY <1>1 DEF CInboxInv, C!PARTS
<1>5. CReplyInv
  BY <1>1 DEF CReplyInv
<1>. QED
  BY <1>3, <1>4, <1>5 DEF CInv

\* A step that replies to nobody and reads nothing.
LEMMA CalculatorRest ==
    ASSUME CInv, UNCHANGED <<reply, sent, inbox>>, Connected(Client)'
    PROVE  CInv'
BY DEF CInv, CInboxInv, CReplyInv

\* The one descriptor that is open is served.
LEMMA ServesOpen == C!Busy => C!Serves \in Open(Client)
BY SameDescriptorsC DEF C!Busy, C!Serves, Open

\* close of some descriptors, or of all.
LEMMA CalculatorCloses ==
    ASSUME CInv, NEW F, F \subseteq Fd(Client), C!CloseAll(F)
    PROVE  Connected(Client)'
BY Closed, SameDescriptorsC, ServersAssumption DEF CInv

\* A client connects, hangs up, or sends another part of its request.
LEMMA CalculatorClients ==
    ASSUME CInv, NEW c \in Client, C!Connect(c) \/ C!Speak(c) \/ C!HangUp(c), UNCHANGED reply
    PROVE  CInv'
<1>1. CASE C!Connect(c)
  <2>1. /\ side[c] = "away" /\ side' = [side EXCEPT ![c] = "backlog"]
        /\ UNCHANGED <<conn, sent, inbox>>
    BY <1>1 DEF C!Connect
  <2>2. Connected(Client)'
    BY <2>1, Elsewhere DEF CInv, Sides
  <2>. QED
    BY <2>1, <2>2, CalculatorRest
<1>2. CASE C!HangUp(c)
  <2>1. UNCHANGED <<conn, side, sent, inbox>>
    BY <1>2 DEF C!HangUp
  <2>2. Connected(Client)'
    BY <2>1 DEF CInv, Connected, Open, Fd
  <2>. QED
    BY <2>1, <2>2, CalculatorRest
<1>3. CASE C!Speak(c)
  <2>1. PICK m \in DataOf[c] : inbox' = [inbox EXCEPT ![c] = Append(@, m)]
    BY <1>3 DEF C!Speak
  <2>2. /\ UNCHANGED <<conn, side>> /\ sent[c] < Often["calculator"][c]
        /\ sent' = [sent EXCEPT ![c] = @ + 1]
    BY <1>3 DEF C!Speak
  <2>3. Connected(Client)'
    BY <2>2 DEF CInv, Connected, Open, Fd
  <2>4. inbox' \in [Client -> Seq(Requests)]
    <3>1. m \in Requests
      BY DEF Requests
    <3>2. inbox \in [Client -> Seq(Requests)]
      BY DEF CInv, CInboxInv
    <3>. QED
      BY <2>1, <3>1, <3>2, Inbox
  <2>5. /\ \A b \in Client : b # c => sent'[b] = sent[b] /\ inbox'[b] = inbox[b]
        /\ sent'[c] = sent[c] + 1 /\ sent' \in [Client -> Nat]
        /\ inbox'[c] = Append(inbox[c], m)
    BY <2>1, <2>2 DEF CInv, CInboxInv
  <2>6. /\ inbox'[c] \in Seq(DataOf[c])
        /\ Len(inbox'[c]) <= sent'[c] /\ sent'[c] <= C!PARTS /\ sent[c] # C!PARTS
    <3>1. inbox[c] \in Seq(DataOf[c]) /\ sent[c] \in Nat /\ Len(inbox[c]) <= sent[c]
      BY DEF CInv, CInboxInv
    <3>2. /\ Append(inbox[c], m) \in Seq(DataOf[c])
          /\ Len(Append(inbox[c], m)) = Len(inbox[c]) + 1 /\ Len(inbox[c]) \in Nat
      BY <3>1, Messages
    <3>3. Often["calculator"][c] \in 0..2
      BY ServersAssumption
    <3>. QED
      BY <2>2, <2>5, <3>1, <3>2, <3>3 DEF C!PARTS
  <2>7. CInboxInv'
    <3>1. ASSUME NEW b \in Client
          PROVE  /\ inbox'[b] \in Seq(DataOf[b])
                 /\ Len(inbox'[b]) <= sent'[b] /\ sent'[b] <= C!PARTS
      <4>1. CASE b = c
        BY <2>6, <4>1
      <4>2. CASE b # c
        BY <2>5, <4>2 DEF CInv, CInboxInv
      <4>. QED
        BY <4>1, <4>2
    <3>. QED
      BY <2>4, <2>5, <3>1 DEF CInboxInv
  <2>8. CReplyInv'
    BY <2>5, <2>6 DEF CInv, CReplyInv
  <2>. QED
    BY <2>3, <2>7, <2>8 DEF CInv
<1>. QED
  BY <1>1, <1>2, <1>3

\* All of the request is there: its data come first.
LEMMA CalculatorAnswer == ASSUME CInv, C!Answer PROVE CInv'
<1>. DEFINE f == C!Serves
            b == conn[f]
            data == Head(inbox[b])
<1>1. /\ f \in Open(Client) /\ C!CloseAll({f}) /\ UNCHANGED sent
      /\ Len(inbox[b]) >= C!PARTS
      /\ reply' = [reply EXCEPT ![b] = <<data, C!Result(data), C!Status(data)>>]
      /\ inbox' = [inbox EXCEPT ![b] = Tail(@)]
  BY ServesOpen DEF C!Answer, C!Whole, C!Data, C!Received, C!Rest
<1>2. f \in Fd(Client) /\ b \in Client
  BY <1>1 DEF CInv, Connected, Open
<1>3. Connected(Client)'
  <2>1. {f} \subseteq Fd(Client)
    BY <1>2
  <2>. QED
    BY <1>1, <2>1, CalculatorCloses
<1>4. /\ inbox[b] \in Seq(DataOf[b]) /\ inbox[b] \in Seq(Requests) /\ sent[b] \in Nat
      /\ Len(inbox[b]) <= sent[b] /\ sent[b] <= C!PARTS
  BY <1>2 DEF CInv, CInboxInv
<1>5. sent[b] = C!PARTS /\ inbox[b] # <<>>
  <2>1. Len(inbox[b]) \in Nat /\ Len(<<>>) = 0
    BY <1>4
  <2>. QED
    BY <1>1, <1>4, <2>1 DEF C!PARTS
<1>6. /\ data \in DataOf[b] /\ Tail(inbox[b]) \in Seq(DataOf[b])
      /\ Len(Tail(inbox[b])) = Len(inbox[b]) - 1 /\ Len(inbox[b]) \in Nat
  BY <1>4, <1>5, Messages
<1>. HIDE DEF b, data
<1>7. inbox' \in [Client -> Seq(Requests)]
  BY <1>1, <1>2, <1>5, Inbox DEF CInv, CInboxInv
<1>8. CInboxInv'
  <2>1. ASSUME NEW c \in Client
        PROVE  /\ inbox'[c] \in Seq(DataOf[c])
               /\ Len(inbox'[c]) <= sent[c] /\ sent[c] <= C!PARTS
    <3>1. CASE c = b
      <4>1. inbox'[b] = Tail(inbox[b])
        BY <1>1, <1>2 DEF CInv, CInboxInv
      <4>. QED
        BY <1>4, <1>6, <3>1, <4>1 DEF C!PARTS
    <3>2. CASE c # b
      <4>1. inbox'[c] = inbox[c]
        BY <1>1, <3>2 DEF CInv, CInboxInv
      <4>. QED
        BY <4>1 DEF CInv, CInboxInv
    <3>. QED
      BY <3>1, <3>2
  <2>. QED
    BY <1>1, <1>7, <2>1 DEF CInv, CInboxInv
<1>9. CReplyInv'
  <2>1. /\ reply'[b] = <<data, C!Result(data), C!Status(data)>> /\ DOMAIN reply' = Client
        /\ \A c \in Client : c # b => reply'[c] = reply[c]
    BY <1>1, <1>2 DEF CInv, CReplyInv
  <2>. QED
    BY <1>1, <1>5, <1>6, <2>1 DEF CInv, CReplyInv
<1>. QED
  BY <1>3, <1>8, <1>9 DEF CInv

\* Every step of the calculator.
LEMMA CalculatorStep == ASSUME CInv, C!Next PROVE CInv'
<1>1. ASSUME C!Poll, UNCHANGED reply
      PROVE  CInv'
  <2>1. UNCHANGED <<conn, side, sent, inbox>>
    BY <1>1 DEF C!Poll, C!clients
  <2>2. Connected(Client)'
    BY <2>1 DEF CInv, Connected, Open, Fd
  <2>. QED
    BY <1>1, <2>1, <2>2, CalculatorRest
<1>2. ASSUME C!Die, UNCHANGED reply
      PROVE  CInv'
  <2>1. C!CloseAll(Fd(Client)) /\ UNCHANGED <<sent, inbox>>
    BY <1>2, SameDescriptorsC DEF C!Die
  <2>2. Connected(Client)'
    BY <2>1, CalculatorCloses
  <2>. QED
    BY <1>2, <2>1, <2>2, CalculatorRest
<1>3. ASSUME C!Short
      PROVE  CInv'
  <2>1. C!CloseAll({C!Serves}) /\ UNCHANGED <<sent, inbox, reply>>
    BY <1>3 DEF C!Short
  <2>2. {C!Serves} \subseteq Fd(Client)
    BY <1>3, ServesOpen DEF C!Short, Open
  <2>3. Connected(Client)'
    BY <2>1, <2>2, CalculatorCloses
  <2>. QED
    BY <2>1, <2>3, CalculatorRest
<1>4. ASSUME NEW c \in Client, C!Enter(c)
      PROVE  CInv'
  <2>1. /\ side[c] = "backlog" /\ side' = [side EXCEPT ![c] = "accepted"]
        /\ conn' = [conn EXCEPT ![Lowest(Client)] = c]
        /\ UNCHANGED <<sent, inbox, reply>>
    BY <1>4, SameDescriptorsC DEF C!Enter, C!Accept
  <2>2. Connected(Client)'
    BY <2>1, Accepted, ServersAssumption DEF CInv
  <2>. QED
    BY <2>1, <2>2, CalculatorRest
<1>. QED
  BY <1>1, <1>2, <1>3, <1>4, CalculatorAnswer, CalculatorClients
     DEF C!Next, C!Wait, C!Trap, C!Stop, C!Sigint, C!LocalClient, C!TcpClient
-----------------------------------------------------------------------------
(* All servers: the invariant of the one that runs. *)

Program == {"messengers", "matchmaker", "electors", "sums", "calculator"}

ServersInv ==
    /\ program \in Program
    /\ program = "messengers" => MInv
    /\ program = "matchmaker" => AInv
    /\ program = "electors"   => EInv
    /\ program = "sums"       => PInv
    /\ program = "calculator" => CInv

\* Any of the servers starts.
LEMMA ServersInit == Init => ServersInv
BY MessengersInit, MatchmakerInit, ElectorsInit, SumsInit, CalculatorInit
   DEF Init, ServersInv, Program

\* A step of something else.
LEMMA ServersStutter == ASSUME ServersInv, UNCHANGED vars PROVE ServersInv'
<1>1. /\ UNCHANGED <<program, side, hung, sent, inbox, conn, up>>
      /\ UNCHANGED <<places, current_clients, cities, heard, stale>>
      /\ UNCHANGED <<fds, families, pairs>>
      /\ UNCHANGED <<fd, vote, announced, welcomed>>
      /\ UNCHANGED <<highest_sum, answer, reply>>
  BY DEF vars, messengersOwn, matchmakerOwn, electorsOwn, sumsOwn
<1>2. \A Cl : Connected(Cl) => Connected(Cl)'
  BY <1>1 DEF Connected, Open, Fd
<1>3. UNCHANGED M!local /\ UNCHANGED A!local /\ UNCHANGED P!local
  BY <1>1 DEF M!local, A!local, P!local
<1>4. MInv => MInv'
  BY <1>1, <1>2, <1>3, MessengersRest DEF MInv, MType
<1>5. AInv => AInv'
  BY <1>1, <1>2, <1>3, MatchmakerRest DEF AInv, AType, ALenInv
<1>6. EInv => EInv'
  BY <1>1, ElectorsRest
<1>7. PInv => PInv'
  BY <1>1, <1>2, <1>3, SumsTake DEF PInv, PType
<1>8. CInv => CInv'
  BY <1>1, <1>2, CalculatorRest DEF CInv
<1>. QED
  BY <1>1, <1>4, <1>5, <1>6, <1>7, <1>8 DEF ServersInv

\* Every step of the server that runs.
LEMMA ServersStep == ServersInv /\ [Next]_vars => ServersInv'
<1>1. CASE UNCHANGED vars
  BY <1>1, ServersStutter
<1>2. CASE Next
  BY <1>2, MessengersStep, MatchmakerStep, ElectorsStep, SumsStep, CalculatorStep
     DEF ServersInv, Program, Next
<1>. QED
  BY <1>1, <1>2

\* What the runs check follows.
LEMMA ServersRight == ServersInv => TablesRight /\ ToldRight
<1>. SUFFICES ASSUME ServersInv PROVE TablesRight /\ ToldRight
  OBVIOUS
<1>1. CASE program = "messengers"
  BY <1>1 DEF ServersInv, MInv, TablesRight, ToldRight
<1>2. CASE program = "matchmaker"
  BY <1>2, MatchmakerRight DEF ServersInv, TablesRight, ToldRight
<1>3. CASE program = "electors"
  BY <1>3 DEF ServersInv, EInv, TablesRight, ToldRight
<1>4. CASE program = "sums"
  BY <1>4 DEF ServersInv, PInv, TablesRight, ToldRight
<1>5. CASE program = "calculator"
  BY <1>5, CalculatorRight DEF ServersInv, TablesRight, ToldRight
<1>. QED
  BY <1>1, <1>2, <1>3, <1>4, <1>5 DEF ServersInv, Program

\* The invariant of the server that runs holds at all times.
THEOREM ServersInvariant == Spec => []ServersInv
BY ServersInit, ServersStep, PTL DEF Spec

\* However events, connections and descriptors that are used again fall together: what
\* poslancy.c, aigen.c and sop-hre.c have in their tables are connections that are open, each
\* in one place, and the counters and families kept beside the table agree with it, with the
\* exceptions that TableRight of each names.
THEOREM TablesAreRight == Spec => []TablesRight
BY ServersInvariant, ServersRight, PTL

\* What a client was told is what the server goes on with: news of the cities as they are, a
\* match with one other, votes that were cast, the sum of the digits of the whole pid, and of
\* calculate the result that int32_t can hold, for a request that came as a whole.
THEOREM ToldIsRight == Spec => []ToldRight
BY ServersInvariant, ServersRight, PTL
=============================================================================
