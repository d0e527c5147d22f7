-------------------------- MODULE SharedMemoryProofs --------------------------
(***************************************************************************)
(* Proofs about the programs of lab06 on shared memory.  lab06/sop-cards,  *)
(* for any number of players and of rounds: the card game keeps the rounds *)
(* that Rounds promises, on two barriers and on four semaphores, and on    *)
(* the semaphores it pays those present.  The board, the letter counter    *)
(* and the estimate of pi, for any of their constants: what they add up is *)
(* what there was to add.                                                  *)
(*                                                                         *)
(* On the barriers, the players of a round are those that have not         *)
(* resigned, and those who have but must still pass the barriers of this   *)
(* round (InGame).  Where each of them is follows from where the server is *)
(* (FollowsInv), and the barriers count them and the server (NeedInv).  So *)
(* a barrier that opens has all of them, and opens for all at the same     *)
(* place.                                                                  *)
(*                                                                         *)
(* On the semaphores, a token may go to anybody.  But in each part of a    *)
(* round only one semaphore that players wait at has tokens, and no more   *)
(* than there are players of the round that wait for them (TokenInv).  So  *)
(* when the server has counted all (current_active), all are there, and    *)
(* that many points at most are paid, to players who are present.          *)
(*                                                                         *)
(* The sums are folds over sets, so they are proved about by the numbers   *)
(* that such a fold gives to every subset (Sums): what changes at one      *)
(* place changes the total by as much (OneChanged), and the sizes of parts *)
(* that do not overlap add up to the size of the whole (TotalOfParts).     *)
(***************************************************************************)
EXTENDS MCSharedMemory, TLAPS, FiniteSetTheorems, WellFoundedInduction

Srv == pc[Server]
Now == round[Server]

\* The players of a round.
InGame == {p \in Players : ~(active[p] = RESIGNED /\ pc[p] \in {"loop", "left"})}

BTypeInv ==
    /\ pc \in [Procs -> B!PlayerPlaces \union B!ServerPlaces]
    /\ \A p \in Players : pc[p] \in B!PlayerPlaces
    /\ Srv \in B!ServerPlaces
    /\ round \in [Procs -> Nat]
    /\ \A p \in Players : round[p] \in 1..M
    /\ Now \in 1..(M + 1) /\ (Srv # "end" => Now <= M)
    /\ active \in [Players -> {PLAYING, RESIGNED}]
    /\ need \in [B!Barriers -> Nat]
    /\ at \in [B!Barriers -> SUBSET Procs]
    /\ deck \in [Players -> SUBSET (1..M)]

\* The cards left.
DeckInv == \A p \in Players :
    Cardinality(deck[p]) = M - IF pc[p] = "draw" THEN round[p] - 1 ELSE round[p]

\* Where a player of the round is while the server is where it is.
Follows(p) ==
    /\ Srv = "begin1" =>
          /\ active[p] = PLAYING
          /\ \/ pc[p] = "loop" /\ round[p] = Now - 1
             \/ pc[p] \in {"draw", "begin1"} /\ round[p] = Now
    /\ Srv \in {"score", "game1"} =>
          active[p] = PLAYING /\ pc[p] = "game1" /\ round[p] = Now
    /\ Srv = "begin2" =>
          /\ round[p] = Now
          /\ pc[p] = "begin2" \/ (pc[p] = "decide" /\ active[p] = PLAYING)
    /\ Srv \in {"count", "game2", "last2"} => pc[p] = "game2" /\ round[p] = Now
    /\ Srv = "renew" =>
          /\ active[p] = PLAYING
          /\ \/ pc[p] = "loop" /\ round[p] = Now
             \/ pc[p] = "left" /\ round[p] = Now /\ Now = M
             \/ pc[p] \in {"draw", "begin1"} /\ round[p] = Now + 1
    /\ Srv = "end" =>
          /\ active[p] = PLAYING
          /\ pc[p] \in {"loop", "left"} /\ round[p] = M /\ Now = M + 1

FollowsInv == \A p \in InGame : Follows(p)

\* Somebody plays.
SomeInv ==
    /\ Srv \in {"begin1", "score", "game1", "game2", "renew"} => Playing # {}
    /\ Srv = "last2" => Playing = {}

NeedInv ==
    /\ Srv \in {"begin1", "score", "game1", "begin2", "count", "renew"} =>
          need["begin"] = Cardinality(InGame) + 1
    /\ Srv \in {"begin1", "score", "game1", "begin2", "count", "game2", "last2"} =>
          need["game"] = Cardinality(InGame) + 1
    /\ Srv = "game2" => need["begin"] = Cardinality(Playing) + 1

\* Who waits at a barrier is where it is passed.
AtInv == \A b \in B!Barriers : \A q \in at[b] : B!Waits(q) /\ B!BarrierOf(pc[q]) = b

BInv == BTypeInv /\ DeckInv /\ FollowsInv /\ SomeInv /\ NeedInv /\ AtInv
-----------------------------------------------------------------------------
(* Sets, and the cards of a player. *)

\* The server and the players of the round are finitely many, and so are those who play.
LEMMA Sizes ==
    ASSUME BTypeInv
    PROVE  /\ IsFiniteSet(InGame) /\ Cardinality(InGame) \in Nat
           /\ IsFiniteSet(Playing) /\ Cardinality(Playing) \in Nat
           /\ Playing \subseteq InGame
           /\ IsFiniteSet(Procs)
<1>1. InGame \subseteq Players /\ Playing \subseteq Players
  BY DEF InGame, Playing
<1>2. IsFiniteSet(InGame) /\ IsFiniteSet(Playing)
  BY <1>1, CardTableAssumption, FS_Subset
<1>3. Playing \subseteq InGame
  BY DEF Playing, InGame, PLAYING, RESIGNED
<1>4. IsFiniteSet(Procs)
  BY CardTableAssumption, FS_AddElement DEF Procs
<1>. QED
  BY <1>2, <1>3, <1>4, FS_CardinalityType

\* A barrier of T and the server, at which only they wait, opens when all of them have come:
\* the arithmetic of pthread_barrier_wait.
LEMMA AllHaveCome ==
    ASSUME NEW T, NEW W, NEW q, IsFiniteSet(T), Server \notin T,
           W \subseteq T \union {Server}, q \in T \union {Server}, q \notin W,
           ~(Cardinality(W) + 1 < Cardinality(T) + 1)
    PROVE  W \union {q} = T \union {Server}
<1>1. IsFiniteSet(T \union {Server}) /\ Cardinality(T \union {Server}) = Cardinality(T) + 1
  BY FS_AddElement
<1>2. IsFiniteSet(W)
  BY <1>1, FS_Subset
<1>3. IsFiniteSet(W \union {q}) /\ Cardinality(W \union {q}) = Cardinality(W) + 1
  BY <1>2, FS_AddElement
<1>4. Cardinality(W) \in Nat /\ Cardinality(T) \in Nat
  BY <1>2, FS_CardinalityType
<1>5. W \union {q} \subseteq T \union {Server}
  OBVIOUS
<1>6. Cardinality(W \union {q}) >= Cardinality(T \union {Server})
  BY <1>1, <1>3, <1>4
<1>7. Cardinality(W \union {q}) <= Cardinality(T \union {Server})
  BY <1>1, <1>5, FS_Subset
<1>8. Cardinality(W \union {q}) = Cardinality(T \union {Server})
  BY <1>1, <1>3, <1>4, <1>6, <1>7
<1>. QED
  BY <1>1, <1>5, <1>8, FS_Subset

\* What a player holds after draw_card took one of its cards.
LEMMA CardGone ==
    ASSUME NEW held, held \subseteq 1..M, NEW c \in held
    PROVE  Cardinality(held \ {c}) = Cardinality(held) - 1 /\ Cardinality(held) \in Nat
<1>1. IsFiniteSet(1..M)
  BY CardTableAssumption, FS_Interval
<1>. QED
  BY <1>1, FS_Subset, FS_RemoveElement, FS_CardinalityType

\* CardsBarriers counts as this module does.
LEMMA SameCount == \A X : B!Cardinality(X) = Cardinality(X)
BY DEF B!Cardinality, Cardinality

-----------------------------------------------------------------------------
(* The barriers. *)

\* pthread_barrier_wait: who comes waits, or lets all pass, and then all players of the
\* round and the server are at the same passage.
LEMMA ArriveCases ==
    ASSUME BInv, NEW q \in Procs, B!Arrive(q)
    PROVE  /\ UNCHANGED <<tableVars, need>>
           /\ \/ /\ UNCHANGED pc
                 /\ B!Waits(q)
                 /\ at' = [at EXCEPT ![B!BarrierOf(pc[q])] = @ \union {q}]
              \/ /\ Srv \in {"begin1", "game1", "begin2", "game2", "last2"}
                 /\ \A p \in InGame : pc[p] = IF Srv = "last2" THEN "game2" ELSE Srv
                 /\ pc' = [r \in Procs |-> IF r \in InGame \union {Server}
                                           THEN B!After(r, pc[r]) ELSE pc[r]]
                 /\ at' = [at EXCEPT ![B!BarrierOf(Srv)] = {}]
<1>. DEFINE b == B!BarrierOf(pc[q])
            W == at[b]
<1>1. B!Waits(q) /\ q \notin W
  BY DEF B!Arrive
<1>2. UNCHANGED <<tableVars, need>>
  BY DEF B!Arrive, B!tableVars, tableVars
<1>3. b \in B!Barriers
  BY DEF B!BarrierOf, B!Barriers
<1>4. CASE Cardinality(W) + 1 < need[b]
  BY <1>1, <1>2, <1>4, SameCount DEF B!Arrive
<1>5. CASE ~(Cardinality(W) + 1 < need[b])
  <2>1. /\ pc' = [r \in Procs |-> IF r \in W \union {q} THEN B!After(r, pc[r]) ELSE pc[r]]
        /\ at' = [at EXCEPT ![b] = {}]
    BY <1>5, SameCount DEF B!Arrive, B!Procs, Procs
  <2>2. \A r \in W \union {q} : r \in Procs /\ B!Waits(r) /\ B!BarrierOf(pc[r]) = b
    BY <1>1, <1>3 DEF BInv, AtInv, BTypeInv
  <2>3. W \union {q} \subseteq InGame \union {Server}
    BY <2>2 DEF InGame, B!Waits, Procs
  <2>4. \A p \in InGame : p \in Players /\ Follows(p)
    BY DEF BInv, FollowsInv, InGame
  <2>5. /\ Srv \in {"game2", "last2", "end"} => b = "game"
        /\ Srv \in {"renew", "end"} => b = "begin"
    BY <2>2, <2>3, <2>4 DEF Follows, B!Waits, B!BarrierOf, Srv
  <2>6. Srv \in B!ServerPlaces /\ b \in {"begin", "game"}
    BY <1>3 DEF BInv, BTypeInv, B!Barriers
  <2>7. need[b] = Cardinality(InGame) + 1
    BY <2>5, <2>6 DEF BInv, NeedInv, B!ServerPlaces
  <2>8. IsFiniteSet(InGame) /\ Server \notin InGame
    BY Sizes, CardTableAssumption DEF BInv, InGame
  <2>9. W \union {q} = InGame \union {Server}
    <3>1. W \subseteq InGame \union {Server} /\ q \in InGame \union {Server}
      BY <2>3
    <3>. HIDE DEF W, b
    <3>. QED
      BY <1>1, <1>5, <2>7, <2>8, <3>1, AllHaveCome
  <2>10. B!Waits(Server) /\ B!BarrierOf(Srv) = b
    BY <2>2, <2>9 DEF Srv
  <2>11. Srv \in {"begin1", "game1", "begin2", "game2", "last2"}
    BY <2>10 DEF B!Waits, Srv
  <2>12. \A p \in InGame : pc[p] = IF Srv = "last2" THEN "game2" ELSE Srv
    <3>. TAKE p \in InGame
    <3>1. B!Waits(p) /\ B!BarrierOf(pc[p]) = B!BarrierOf(Srv)
      BY <2>2, <2>9, <2>10
    <3>. QED
      BY <2>4, <2>11, <3>1 DEF Follows, B!Waits, B!BarrierOf
  <2>. QED
    BY <1>2, <2>1, <2>9, <2>10, <2>11, <2>12
<1>. QED
  BY <1>4, <1>5

\* A process that comes and waits changes nothing but who waits.
LEMMA WaitStep ==
    ASSUME BInv, NEW q \in Procs, B!Waits(q), UNCHANGED <<pc, tableVars, need>>,
           at' = [at EXCEPT ![B!BarrierOf(pc[q])] = @ \union {q}]
    PROVE  BInv' /\ UNCHANGED <<Playing, Laid, BDecided, BScored>>
<1>1. UNCHANGED <<pc, round, deck, active, need, InGame, Playing, Srv, Now>>
  BY DEF tableVars, InGame, Playing, Srv, Now
<1>2. B!BarrierOf(pc[q]) \in B!Barriers
  BY DEF B!BarrierOf, B!Barriers
<1>3. (BTypeInv /\ AtInv)'
  BY <1>1, <1>2 DEF BInv, BTypeInv, AtInv, B!Waits
<1>4. (DeckInv /\ FollowsInv /\ SomeInv /\ NeedInv)'
  BY <1>1 DEF BInv, DeckInv, FollowsInv, Follows, SomeInv, NeedInv
<1>. QED
  BY <1>1, <1>3, <1>4 DEF BInv, Laid, BDecided, BScored, Srv, Now

\* A barrier that opens: all players of the round and the server leave it.  After the last
\* passage of a round those who have resigned are not in the game any more.
LEMMA PassStep ==
    ASSUME BInv, UNCHANGED <<tableVars, need>>,
           Srv \in {"begin1", "game1", "begin2", "game2", "last2"},
           \A p \in InGame : pc[p] = IF Srv = "last2" THEN "game2" ELSE Srv,
           pc' = [r \in Procs |-> IF r \in InGame \union {Server}
                                  THEN B!After(r, pc[r]) ELSE pc[r]],
           at' = [at EXCEPT ![B!BarrierOf(Srv)] = {}]
    PROVE  BInv' /\ UNCHANGED <<Playing, Laid, BDecided, BScored>>
<1>1. UNCHANGED <<round, deck, active, need, Playing, Now>>
  BY DEF tableVars, Playing, Now
<1>2. /\ \A p \in InGame : p \in Players /\ p \in Procs /\ p # Server /\ Follows(p)
      /\ \A p \in Players : p \in Procs /\ p # Server
      /\ Server \in Procs
  BY CardTableAssumption DEF BInv, FollowsInv, InGame, Procs
<1>3. Srv' = CASE Srv = "begin1" -> "score" [] Srv = "game1" -> "begin2"
               [] Srv = "begin2" -> "count" [] Srv = "game2" -> "renew" [] Srv = "last2" -> "end"
  BY <1>2 DEF Srv, B!After
<1>4. \A p \in InGame : pc'[p] = CASE Srv = "begin1" -> "game1" [] Srv = "game1" -> "decide"
                                   [] Srv = "begin2" -> "game2" [] OTHER -> "loop"
  BY <1>2 DEF B!After
<1>5. \A p \in Players \ InGame : pc'[p] = pc[p] /\ active[p] = RESIGNED
                                  /\ pc[p] \in {"loop", "left"}
  BY <1>2 DEF InGame
<1>6. \A p \in Players : (pc[p] = "draw" <=> pc'[p] = "draw")
  BY <1>4, <1>5
<1>7. BTypeInv'
  <2>1. \A p \in Players : pc'[p] \in B!PlayerPlaces
    BY <1>4, <1>5 DEF B!PlayerPlaces
  <2>3. Srv' \in B!ServerPlaces
    BY <1>3 DEF B!ServerPlaces
  <2>4. pc' \in [Procs -> B!PlayerPlaces \union B!ServerPlaces]
    BY <2>1, <2>3 DEF Procs, Srv
  <2>5. at' \in [B!Barriers -> SUBSET Procs]
    BY DEF BInv, BTypeInv
  <2>6. Now' \in 1..(M + 1) /\ Now' <= M
    BY <1>1 DEF BInv, BTypeInv
  <2>. QED
    BY <1>1, <2>1, <2>3, <2>4, <2>5, <2>6 DEF BInv, BTypeInv
<1>8. DeckInv'
  BY <1>1, <1>6 DEF BInv, DeckInv
<1>9. AtInv'
  <2>. SUFFICES ASSUME NEW b \in B!Barriers, NEW q \in at'[b]
                PROVE  (B!Waits(q) /\ B!BarrierOf(pc[q]) = b)'
    BY DEF AtInv
  <2>1. b # B!BarrierOf(Srv) /\ q \in at[b]
    BY DEF BInv, BTypeInv
  <2>2. B!Waits(q) /\ B!BarrierOf(pc[q]) = b /\ q \in Procs
    BY <2>1 DEF BInv, AtInv, BTypeInv
  <2>3. q # Server
    BY <2>1, <2>2 DEF Srv
  <2>4. q \in InGame
    BY <1>5, <2>2, <2>3 DEF Procs, B!Waits
  <2>. QED
    BY <2>1, <2>2, <2>4 DEF B!BarrierOf
<1>10. ASSUME Srv \in {"begin1", "game1", "begin2"} PROVE BInv'
  <2>1. InGame' = InGame
    BY <1>1, <1>4, <1>5, <1>10 DEF InGame
  <2>2. FollowsInv'
    BY <1>1, <1>2, <1>3, <1>4, <1>10, <2>1 DEF FollowsInv, Follows
  <2>3. (SomeInv /\ NeedInv)'
    BY <1>1, <1>3, <1>10, <2>1 DEF BInv, SomeInv, NeedInv
  <2>. QED
    BY <1>7, <1>8, <1>9, <2>2, <2>3 DEF BInv
<1>11. ASSUME Srv \in {"game2", "last2"} PROVE BInv'
  <2>1. InGame' = Playing
    <3>1. \A p \in Players : p \in InGame' <=> active[p] = PLAYING
      BY <1>1, <1>4, <1>5, <1>11 DEF InGame, PLAYING, RESIGNED, BInv, BTypeInv
    <3>. QED
      BY <3>1 DEF InGame, Playing
  <2>2. \A p \in InGame' : p \in InGame /\ active[p] = PLAYING
    BY <2>1 DEF Playing, InGame, PLAYING, RESIGNED
  <2>3. (SomeInv /\ NeedInv)'
    BY <1>1, <1>3, <1>11, <2>1 DEF BInv, SomeInv, NeedInv
  <2>4. Srv = "last2" => InGame' = {}
    BY <2>1 DEF BInv, SomeInv
  <2>5. FollowsInv'
    BY <1>1, <1>2, <1>3, <1>4, <1>11, <2>2, <2>4 DEF FollowsInv, Follows
  <2>. QED
    BY <1>7, <1>8, <1>9, <2>3, <2>5 DEF BInv
<1>12. UNCHANGED Laid
  BY <1>1 DEF Laid
<1>13. UNCHANGED BDecided
  <2>1. \A p \in Players : pc'[p] \in {"draw", "begin1", "game1", "decide"}
                           <=> pc[p] \in {"draw", "begin1", "game1", "decide"}
    BY <1>4, <1>5
  <2>. QED
    BY <1>1, <2>1 DEF BDecided
<1>14. UNCHANGED BScored
  <2>1. Now <= M /\ Now \in Nat /\ M \in Nat /\ ~(Now > M)
    BY CardTableAssumption DEF BInv, BTypeInv
  <2>. QED
    BY <1>1, <1>3, <2>1 DEF BScored, Srv, Now
<1>. QED
  BY <1>1, <1>10, <1>11, <1>12, <1>13, <1>14

-----------------------------------------------------------------------------
(* player_work *)

\* draw_card: a card is laid, and nobody is behind.
LEMMA DrawStep ==
    ASSUME BInv, NEW p \in Players, B!Draw(p)
    PROVE  BInv' /\ BRounds!Lay(p)
<1>1. /\ pc[p] = "draw" /\ pc' = [pc EXCEPT ![p] = "begin1"]
      /\ UNCHANGED <<round, active, need, at>>
  BY DEF B!Draw
<1>2. PICK c \in deck[p] : deck' = [deck EXCEPT ![p] = @ \ {c}]
  BY DEF B!Draw, B!DrawCard
<1>3. p \in Procs /\ p # Server /\ p \in InGame
  BY <1>1, CardTableAssumption DEF Procs, InGame
<1>4. pc'[p] = "begin1" /\ \A q \in Procs : q # p => pc'[q] = pc[q]
  BY <1>1, <1>3 DEF BInv, BTypeInv
<1>5. UNCHANGED <<Srv, Now, Playing, InGame>>
  BY <1>1, <1>3, <1>4 DEF Srv, Now, Playing, InGame, Procs
<1>6. /\ \A q \in InGame : Follows(q) /\ q \in Procs /\ q \in Players
      /\ Srv \in B!ServerPlaces
  BY DEF BInv, FollowsInv, InGame, Procs, BTypeInv
<1>7. /\ Srv \in {"begin1", "renew"}
      /\ active[p] = PLAYING
      /\ round[p] = IF Srv = "begin1" THEN Now ELSE Now + 1
  BY <1>1, <1>3, <1>6 DEF Follows, B!ServerPlaces
<1>8. /\ M \in Nat /\ Now \in 1..M /\ \A q \in Players : round[q] \in 1..M
      /\ deck[p] \subseteq 1..M
  BY <1>7, CardTableAssumption DEF BInv, BTypeInv
<1>9. deck'[p] = deck[p] \ {c} /\ \A q \in Players : q # p => deck'[q] = deck[q]
  BY <1>2 DEF BInv, BTypeInv
<1>10. Cardinality(deck[p]) = M - (round[p] - 1) /\ Cardinality(deck'[p]) = M - round[p]
  <2>1. Cardinality(deck[p]) = M - (round[p] - 1)
    BY <1>1 DEF BInv, DeckInv
  <2>2. Cardinality(deck'[p]) = Cardinality(deck[p]) - 1
    BY <1>8, <1>9, CardGone
  <2>. QED
    BY <1>8, <2>1, <2>2
<1>11. BTypeInv'
  <2>1. pc' \in [Procs -> B!PlayerPlaces \union B!ServerPlaces]
    BY <1>1 DEF BInv, BTypeInv, B!PlayerPlaces
  <2>2. \A q \in Players : pc'[q] \in B!PlayerPlaces
    BY <1>4 DEF BInv, BTypeInv, B!PlayerPlaces, Procs
  <2>3. deck' \in [Players -> SUBSET (1..M)]
    BY <1>2 DEF BInv, BTypeInv
  <2>. QED
    BY <1>1, <1>5, <2>1, <2>2, <2>3 DEF BInv, BTypeInv
<1>12. DeckInv'
  BY <1>1, <1>4, <1>9, <1>10 DEF BInv, DeckInv, Procs
<1>13. FollowsInv'
  <2>. SUFFICES ASSUME NEW q \in InGame PROVE Follows(q)'
    BY <1>5 DEF FollowsInv
  <2>1. CASE q = p
    BY <1>1, <1>4, <1>5, <1>7, <2>1 DEF Follows
  <2>2. CASE q # p
    BY <1>1, <1>4, <1>5, <1>6, <2>2 DEF Follows
  <2>. QED
    BY <2>1, <2>2
<1>14. (SomeInv /\ NeedInv)'
  BY <1>1, <1>5 DEF BInv, SomeInv, NeedInv
<1>15. AtInv'
  BY <1>1, <1>4 DEF BInv, BTypeInv, AtInv, B!Waits
<1>16. BScored = (IF Srv = "begin1" THEN Now - 1 ELSE Now) /\ BScored' = BScored
  BY <1>1, <1>5, <1>7 DEF BScored, Srv, Now
<1>17. /\ p \in Playing /\ BScored < M
       /\ BScored = round[p] - 1
  BY <1>7, <1>8, <1>16 DEF Playing
<1>18. Laid[p] = BScored /\ Laid' = [Laid EXCEPT ![p] = BScored + 1]
  <2>1. Laid[p] = BScored /\ M - Cardinality(deck'[p]) = BScored + 1
    BY <1>8, <1>10, <1>17 DEF Laid
  <2>. QED
    BY <1>9, <2>1 DEF Laid
<1>19. \A q \in Playing : BDecided[q] = BScored
  <2>. TAKE q \in Playing
  <2>1. q \in InGame
    BY Sizes DEF BInv
  <2>2. round[q] \in Nat /\ Now \in Nat
    BY <1>6, <1>8, <2>1
  <2>. QED
    BY <1>6, <1>7, <1>16, <2>1, <2>2 DEF Follows, BDecided
<1>20. BDecided' = BDecided
  <2>1. \A q \in Players : pc'[q] \in {"draw", "begin1", "game1", "decide"}
                           <=> pc[q] \in {"draw", "begin1", "game1", "decide"}
    BY <1>1, <1>4 DEF Procs
  <2>. QED
    BY <1>1, <2>1 DEF BDecided
<1>21. BRounds!Lay(p)
  BY <1>5, <1>16, <1>17, <1>18, <1>19, <1>20 DEF BRounds!Lay
<1>. QED
  BY <1>11, <1>12, <1>13, <1>14, <1>15, <1>21 DEF BInv

\* should_resign: it stays in the round until it has passed the barriers.
LEMMA DecideStep ==
    ASSUME BInv, NEW p \in Players, B!Decide(p)
    PROVE  BInv' /\ BRounds!Decide(p)
<1>1. /\ pc[p] = "decide" /\ pc' = [pc EXCEPT ![p] = "begin2"]
      /\ UNCHANGED <<round, deck, need, at>>
  BY DEF B!Decide
<1>2. PICK a \in {PLAYING, RESIGNED} : active' = [active EXCEPT ![p] = a]
  BY DEF B!Decide, B!Decides, B!PLAYING, B!RESIGNED, PLAYING, RESIGNED
<1>3. p \in Procs /\ p # Server /\ p \in InGame
  BY <1>1, CardTableAssumption DEF Procs, InGame
<1>4. pc'[p] = "begin2" /\ \A q \in Procs : q # p => pc'[q] = pc[q]
  BY <1>1, <1>3 DEF BInv, BTypeInv
<1>5. active'[p] = a /\ \A q \in Players : q # p => active'[q] = active[q]
  BY <1>2 DEF BInv, BTypeInv
<1>6. UNCHANGED <<Srv, Now>>
  BY <1>1, <1>3, <1>4 DEF Srv, Now, Procs
<1>7. UNCHANGED InGame
  <2>1. \A q \in Players : q \in InGame' <=> q \in InGame
    BY <1>3, <1>4, <1>5 DEF InGame, Procs
  <2>. QED
    BY <2>1 DEF InGame
<1>8. /\ \A q \in InGame : Follows(q) /\ q \in Procs /\ q \in Players
      /\ Srv \in B!ServerPlaces
  BY DEF BInv, FollowsInv, InGame, Procs, BTypeInv
<1>9. Srv = "begin2" /\ active[p] = PLAYING /\ round[p] = Now
  BY <1>1, <1>3, <1>8 DEF Follows, B!ServerPlaces
<1>10. BTypeInv'
  <2>1. pc' \in [Procs -> B!PlayerPlaces \union B!ServerPlaces]
    BY <1>1 DEF BInv, BTypeInv, B!PlayerPlaces
  <2>2. \A q \in Players : pc'[q] \in B!PlayerPlaces
    BY <1>4 DEF BInv, BTypeInv, B!PlayerPlaces, Procs
  <2>3. active' \in [Players -> {PLAYING, RESIGNED}]
    BY <1>2 DEF BInv, BTypeInv
  <2>. QED
    BY <1>1, <1>6, <2>1, <2>2, <2>3 DEF BInv, BTypeInv
<1>11. DeckInv'
  BY <1>1, <1>4 DEF BInv, DeckInv, Procs
<1>12. FollowsInv'
  <2>. SUFFICES ASSUME NEW q \in InGame PROVE Follows(q)'
    BY <1>7 DEF FollowsInv
  <2>1. CASE q = p
    BY <1>1, <1>4, <1>6, <1>9, <2>1 DEF Follows
  <2>2. CASE q # p
    BY <1>1, <1>4, <1>5, <1>6, <1>8, <1>9, <2>2 DEF Follows
  <2>. QED
    BY <2>1, <2>2
<1>13. (SomeInv /\ NeedInv)'
  BY <1>1, <1>6, <1>7, <1>9 DEF BInv, SomeInv, NeedInv
<1>14. AtInv'
  BY <1>1, <1>4 DEF BInv, BTypeInv, AtInv, B!Waits
<1>15. Now \in 1..M /\ M \in Nat
  BY <1>9, CardTableAssumption DEF BInv, BTypeInv
<1>16. BScored = Now /\ BScored' = BScored
  BY <1>1, <1>6, <1>9 DEF BScored, Srv, Now
<1>17. p \in Playing /\ Laid[p] = BScored /\ Laid' = Laid
  <2>1. Cardinality(deck[p]) = M - Now
    BY <1>1, <1>9 DEF BInv, DeckInv
  <2>2. M - Cardinality(deck[p]) = Now
    BY <1>15, <2>1
  <2>. QED
    BY <1>1, <1>9, <1>16, <2>2 DEF Laid, Playing
<1>18. BDecided[p] = BScored - 1 /\ BDecided' = [BDecided EXCEPT ![p] = BScored]
  <2>1. \A q \in Players : q # p => (pc'[q] = pc[q] /\ q \in Procs)
    BY <1>4 DEF Procs
  <2>. QED
    BY <1>1, <1>4, <1>9, <1>16, <2>1 DEF BDecided
<1>19. Playing' \in {Playing, Playing \ {p}}
  BY <1>5, <1>9 DEF Playing
<1>20. BRounds!Decide(p)
  BY <1>16, <1>17, <1>18, <1>19 DEF BRounds!Decide
<1>. QED
  BY <1>10, <1>11, <1>12, <1>13, <1>14, <1>20 DEF BInv

\* The end of the loop's body of a player: it leaves, or runs ahead into the next round.
LEMMA LoopStep ==
    ASSUME BInv, NEW p \in Players, B!Loop(p)
    PROVE  BInv' /\ UNCHANGED <<Playing, Laid, BDecided, BScored>>
<1>1. pc[p] = "loop" /\ UNCHANGED <<deck, active, need, at>>
  BY DEF B!Loop
<1>2. p \in Procs /\ p # Server
  BY <1>1, CardTableAssumption DEF Procs
<1>3. \/ /\ active[p] = RESIGNED \/ round[p] = M
         /\ pc' = [pc EXCEPT ![p] = "left"] /\ round' = round
      \/ /\ active[p] # RESIGNED /\ round[p] # M
         /\ pc' = [pc EXCEPT ![p] = "draw"] /\ round' = [round EXCEPT ![p] = @ + 1]
  BY DEF B!Loop, B!RESIGNED, RESIGNED
<1>4. /\ \A q \in Procs : q # p => pc'[q] = pc[q] /\ round'[q] = round[q]
      /\ \/ /\ active[p] = RESIGNED \/ round[p] = M
            /\ pc'[p] = "left" /\ round'[p] = round[p]
         \/ /\ active[p] # RESIGNED /\ round[p] # M
            /\ pc'[p] = "draw" /\ round'[p] = round[p] + 1
  BY <1>2, <1>3 DEF BInv, BTypeInv
<1>5. UNCHANGED <<Srv, Now, Playing>>
  BY <1>1, <1>2, <1>4 DEF Srv, Now, Playing, Procs
<1>6. UNCHANGED InGame
  <2>1. \A q \in Players : q \in InGame' <=> q \in InGame
    BY <1>1, <1>2, <1>4 DEF InGame, Procs
  <2>. QED
    BY <2>1 DEF InGame
<1>7. /\ \A q \in InGame : Follows(q) /\ q \in Procs /\ q \in Players
      /\ Srv \in B!ServerPlaces
  BY DEF BInv, FollowsInv, InGame, Procs, BTypeInv
<1>8. /\ M \in Nat \ {0} /\ \A q \in Players : round[q] \in 1..M
      /\ Now \in 1..(M + 1) /\ (Srv # "end" => Now <= M)
  BY CardTableAssumption DEF BInv, BTypeInv
<1>9. BTypeInv'
  <2>1. pc' \in [Procs -> B!PlayerPlaces \union B!ServerPlaces]
    BY <1>3 DEF BInv, BTypeInv, B!PlayerPlaces
  <2>2. \A q \in Players : pc'[q] \in B!PlayerPlaces
    BY <1>4 DEF BInv, BTypeInv, B!PlayerPlaces, Procs
  <2>3. round' \in [Procs -> Nat]
    BY <1>3 DEF BInv, BTypeInv
  <2>4. \A q \in Players : round'[q] \in 1..M
    BY <1>4, <1>8 DEF Procs
  <2>. QED
    BY <1>1, <1>5, <2>1, <2>2, <2>3, <2>4 DEF BInv, BTypeInv
<1>10. DeckInv'
  BY <1>1, <1>4, <1>8 DEF BInv, DeckInv, Procs
<1>11. FollowsInv'
  <2>. SUFFICES ASSUME NEW q \in InGame PROVE Follows(q)'
    BY <1>6 DEF FollowsInv
  <2>1. CASE q = p
    <3>1. Srv \in {"begin1", "renew", "end"} /\ active[p] = PLAYING
      BY <1>1, <1>7, <2>1 DEF Follows, B!ServerPlaces
    <3>2. CASE Srv = "begin1"
      <4>1. round[p] = Now - 1 /\ round[p] # M
        BY <1>1, <1>7, <1>8, <2>1, <3>2 DEF Follows
      <4>2. round'[p] = Now /\ pc'[p] = "draw"
        BY <1>4, <1>8, <3>1, <4>1 DEF PLAYING, RESIGNED
      <4>. QED
        BY <1>1, <1>5, <2>1, <3>1, <3>2, <4>2 DEF Follows
    <3>3. CASE Srv = "renew"
      <4>1. round[p] = Now
        BY <1>1, <1>7, <2>1, <3>3 DEF Follows
      <4>2. \/ round'[p] = Now /\ Now = M /\ pc'[p] = "left"
            \/ round'[p] = Now + 1 /\ pc'[p] = "draw"
        BY <1>4, <3>1, <4>1 DEF PLAYING, RESIGNED
      <4>. QED
        BY <1>1, <1>5, <2>1, <3>1, <3>3, <4>2 DEF Follows
    <3>4. CASE Srv = "end"
      <4>1. round[p] = M /\ Now = M + 1
        BY <1>1, <1>7, <2>1, <3>4 DEF Follows
      <4>2. round'[p] = M /\ pc'[p] = "left"
        BY <1>4, <4>1
      <4>. QED
        BY <1>1, <1>5, <2>1, <3>1, <3>4, <4>1, <4>2 DEF Follows
    <3>. QED
      BY <3>1, <3>2, <3>3, <3>4
  <2>2. CASE q # p
    BY <1>1, <1>4, <1>5, <1>7, <2>2 DEF Follows
  <2>. QED
    BY <2>1, <2>2
<1>12. (SomeInv /\ NeedInv)'
  BY <1>1, <1>5, <1>6 DEF BInv, SomeInv, NeedInv
<1>13. AtInv'
  BY <1>1, <1>4 DEF BInv, BTypeInv, AtInv, B!Waits
<1>14. UNCHANGED <<Laid, BScored>>
  BY <1>1, <1>5 DEF Laid, BScored, Srv, Now
<1>15. UNCHANGED BDecided
  <2>1. \A q \in Players : q # p => pc'[q] = pc[q] /\ round'[q] = round[q]
    BY <1>4 DEF Procs
  <2>2. round[p] \in Nat
    BY <1>8
  <2>. QED
    BY <1>1, <1>4, <2>1, <2>2 DEF BDecided
<1>. QED
  BY <1>5, <1>9, <1>10, <1>11, <1>12, <1>13, <1>14, <1>15 DEF BInv

-----------------------------------------------------------------------------
(* game_server_work *)

\* The points of a round: all have laid their card.
LEMMA ScoreStep ==
    ASSUME BInv, B!ScoreRound
    PROVE  BInv' /\ BRounds!Score
<1>1. /\ Srv = "score" /\ pc' = [pc EXCEPT ![Server] = "game1"]
      /\ UNCHANGED <<round, deck, active, need, at>>
  BY DEF B!ScoreRound, Srv
<1>2. Server \in Procs /\ \A p \in Players : p \in Procs /\ p # Server
  BY CardTableAssumption DEF Procs
<1>3. Srv' = "game1" /\ \A q \in Players : pc'[q] = pc[q]
  BY <1>1, <1>2 DEF BInv, BTypeInv, Srv
<1>4. UNCHANGED <<Now, Playing, InGame>>
  BY <1>1, <1>3 DEF Now, Playing, InGame
<1>5. \A q \in InGame : Follows(q) /\ q \in Players
  BY DEF BInv, FollowsInv, InGame
<1>6. BTypeInv'
  <2>1. pc' \in [Procs -> B!PlayerPlaces \union B!ServerPlaces]
    BY <1>1 DEF BInv, BTypeInv, B!ServerPlaces
  <2>2. \A q \in Players : pc'[q] \in B!PlayerPlaces
    BY <1>3 DEF BInv, BTypeInv
  <2>3. Now' \in 1..(M + 1) /\ Now' <= M
    BY <1>1, <1>4 DEF BInv, BTypeInv
  <2>. QED
    BY <1>1, <1>3, <2>1, <2>2, <2>3 DEF BInv, BTypeInv, B!ServerPlaces
<1>7. DeckInv'
  BY <1>1, <1>3 DEF BInv, DeckInv
<1>8. FollowsInv'
  BY <1>1, <1>3, <1>4, <1>5 DEF FollowsInv, Follows
<1>9. (SomeInv /\ NeedInv)'
  BY <1>1, <1>3, <1>4 DEF BInv, SomeInv, NeedInv
<1>10. AtInv'
  BY <1>1, <1>2, <1>3 DEF BInv, BTypeInv, AtInv, B!Waits, Procs, Srv
<1>11. Now \in 1..M /\ M \in Nat
  BY <1>1, CardTableAssumption DEF BInv, BTypeInv
<1>12. BScored = Now - 1 /\ BScored' = BScored + 1
  BY <1>1, <1>3, <1>4, <1>11 DEF BScored, Srv, Now
<1>13. Playing # {} /\ UNCHANGED <<Laid, BDecided>>
  <2>1. \A p \in Players : pc'[p] = pc[p]
    BY <1>3
  <2>. QED
    BY <1>1, <2>1 DEF BInv, SomeInv, Laid, BDecided
<1>14. \A p \in Playing : Laid[p] = BScored + 1
  <2>. TAKE p \in Playing
  <2>1. p \in InGame
    BY Sizes DEF BInv
  <2>2. p \in Players /\ pc[p] = "game1" /\ round[p] = Now
    BY <1>1, <1>5, <2>1 DEF Follows
  <2>3. Cardinality(deck[p]) = M - Now
    BY <2>2 DEF BInv, DeckInv
  <2>. QED
    BY <1>11, <1>12, <2>2, <2>3 DEF Laid
<1>. QED
  BY <1>4, <1>6, <1>7, <1>8, <1>9, <1>10, <1>12, <1>13, <1>14 DEF BInv, BRounds!Score

\* Counting those who still play: begin_barrier is initialised again with their number.
LEMMA CountStep ==
    ASSUME BInv, B!Count
    PROVE  BInv' /\ UNCHANGED <<Playing, Laid, BDecided, BScored>>
<1>1. /\ Srv = "count"
      /\ UNCHANGED <<round, deck, active, at>>
      /\ \/ /\ Playing = {}
            /\ pc' = [pc EXCEPT ![Server] = "last2"] /\ need' = need
         \/ /\ Playing # {}
            /\ pc' = [pc EXCEPT ![Server] = "game2"]
            /\ need' = [need EXCEPT !["begin"] = Cardinality(Playing) + 1]
  BY SameCount DEF B!Count, Srv, B!tableVars, B!Playing, Playing, B!PLAYING, PLAYING
<1>2. Server \in Procs /\ \A p \in Players : p \in Procs /\ p # Server
  BY CardTableAssumption DEF Procs
<1>3. /\ \A q \in Players : pc'[q] = pc[q]
      /\ need'["game"] = need["game"]
      /\ \/ Srv' = "last2" /\ Playing = {}
         \/ Srv' = "game2" /\ Playing # {} /\ need'["begin"] = Cardinality(Playing) + 1
  BY <1>1, <1>2 DEF BInv, BTypeInv, Srv, B!Barriers
<1>4. UNCHANGED <<Now, Playing, InGame>>
  BY <1>1, <1>3 DEF Now, Playing, InGame
<1>5. \A q \in InGame : Follows(q) /\ q \in Players
  BY DEF BInv, FollowsInv, InGame
<1>6. BTypeInv'
  <2>1. pc' \in [Procs -> B!PlayerPlaces \union B!ServerPlaces]
    BY <1>1 DEF BInv, BTypeInv, B!ServerPlaces
  <2>2. \A q \in Players : pc'[q] \in B!PlayerPlaces
    BY <1>3 DEF BInv, BTypeInv
  <2>3. Now' \in 1..(M + 1) /\ Now' <= M
    BY <1>1, <1>4 DEF BInv, BTypeInv
  <2>4. need' \in [B!Barriers -> Nat]
    BY <1>1, Sizes DEF BInv, BTypeInv
  <2>. QED
    BY <1>1, <1>3, <2>1, <2>2, <2>3, <2>4 DEF BInv, BTypeInv, B!ServerPlaces
<1>7. DeckInv'
  BY <1>1, <1>3 DEF BInv, DeckInv
<1>8. FollowsInv'
  BY <1>1, <1>3, <1>4, <1>5 DEF FollowsInv, Follows
<1>9. (SomeInv /\ NeedInv)'
  BY <1>1, <1>3, <1>4 DEF BInv, SomeInv, NeedInv
<1>10. AtInv'
  BY <1>1, <1>2, <1>3 DEF BInv, BTypeInv, AtInv, B!Waits, Procs, Srv
<1>11. UNCHANGED <<Laid, BDecided, BScored>>
  <2>1. \A p \in Players : pc'[p] = pc[p]
    BY <1>3
  <2>2. BScored' = BScored
    BY <1>1, <1>3, <1>4 DEF BScored, Srv, Now
  <2>. QED
    BY <1>1, <2>1, <2>2 DEF Laid, BDecided
<1>. QED
  BY <1>4, <1>6, <1>7, <1>8, <1>9, <1>10, <1>11 DEF BInv

\* game_barrier is initialised again, with the number of begin_barrier; the next round begins.
LEMMA RenewStep ==
    ASSUME BInv, B!Renew
    PROVE  BInv' /\ UNCHANGED <<Playing, Laid, BDecided, BScored>>
<1>1. /\ Srv = "renew"
      /\ UNCHANGED <<deck, active, at>>
      /\ need' = [need EXCEPT !["game"] = need["begin"]]
      /\ round' = [round EXCEPT ![Server] = @ + 1]
      /\ pc' = [pc EXCEPT ![Server] = IF Now = M THEN "end" ELSE "begin1"]
  BY DEF B!Renew, Srv, Now
<1>2. Server \in Procs /\ \A p \in Players : p \in Procs /\ p # Server
  BY CardTableAssumption DEF Procs
<1>3. /\ \A q \in Players : pc'[q] = pc[q] /\ round'[q] = round[q]
      /\ need'["begin"] = need["begin"] /\ need'["game"] = need["begin"]
      /\ Srv' = IF Now = M THEN "end" ELSE "begin1"
      /\ Now' = Now + 1
  BY <1>1, <1>2 DEF BInv, BTypeInv, Srv, Now, B!Barriers
<1>4. UNCHANGED <<Playing, InGame>>
  BY <1>1, <1>3 DEF Playing, InGame
<1>5. /\ \A q \in InGame : Follows(q) /\ q \in Players
      /\ Now \in 1..M /\ M \in Nat
      /\ \A q \in Players : round[q] \in 1..M
  BY <1>1, CardTableAssumption DEF BInv, BTypeInv, FollowsInv, InGame
<1>6. BTypeInv'
  <2>1. pc' \in [Procs -> B!PlayerPlaces \union B!ServerPlaces]
    BY <1>1 DEF BInv, BTypeInv, B!ServerPlaces
  <2>2. \A q \in Players : pc'[q] \in B!PlayerPlaces /\ round'[q] \in 1..M
    BY <1>3 DEF BInv, BTypeInv
  <2>3. Now' \in 1..(M + 1) /\ (Srv' # "end" => Now' <= M)
    BY <1>3, <1>5
  <2>4. need' \in [B!Barriers -> Nat]
    BY <1>1 DEF BInv, BTypeInv, B!Barriers
  <2>5. round' \in [Procs -> Nat]
    <3>1. round \in [Procs -> Nat] /\ round[Server] + 1 \in Nat
      BY <1>2 DEF BInv, BTypeInv
    <3>. QED
      BY <1>1, <3>1
  <2>. QED
    BY <1>1, <1>3, <2>1, <2>2, <2>3, <2>4, <2>5 DEF BInv, BTypeInv, B!ServerPlaces
<1>7. DeckInv'
  BY <1>1, <1>3 DEF BInv, DeckInv
<1>8. FollowsInv'
  <2>. SUFFICES ASSUME NEW q \in InGame PROVE Follows(q)'
    BY <1>4 DEF FollowsInv
  <2>1. /\ active'[q] = PLAYING /\ pc'[q] = pc[q] /\ round'[q] = round[q]
        /\ round[q] \in 1..M
        /\ \/ pc[q] = "loop" /\ round[q] = Now
           \/ pc[q] = "left" /\ round[q] = Now /\ Now = M
           \/ pc[q] \in {"draw", "begin1"} /\ round[q] = Now + 1
    BY <1>1, <1>3, <1>5 DEF Follows
  <2>2. CASE Now = M
    BY <1>3, <1>5, <2>1, <2>2 DEF Follows
  <2>3. CASE Now # M
    BY <1>3, <1>5, <2>1, <2>3 DEF Follows
  <2>. QED
    BY <2>2, <2>3
<1>9. (SomeInv /\ NeedInv)'
  BY <1>1, <1>3, <1>4 DEF BInv, SomeInv, NeedInv
<1>10. AtInv'
  BY <1>1, <1>2, <1>3 DEF BInv, BTypeInv, AtInv, B!Waits, Procs, Srv
<1>11. UNCHANGED <<Laid, BDecided, BScored>>
  <2>1. \A p \in Players : pc'[p] = pc[p] /\ round'[p] = round[p]
    BY <1>3
  <2>2. BScored' = BScored
    BY <1>1, <1>3, <1>5 DEF BScored, Srv, Now
  <2>. QED
    BY <1>1, <2>1, <2>2 DEF Laid, BDecided
<1>. QED
  BY <1>4, <1>6, <1>7, <1>8, <1>9, <1>10, <1>11 DEF BInv

-----------------------------------------------------------------------------
(* The game on two barriers. *)

\* main of sop-cards.c: the barriers are initialised with all players and the server.
LEMMA BarriersInit ==
    ASSUME B!Init
    PROVE  BInv /\ BRounds!Init
<1>1. /\ pc = [q \in Procs |-> IF q = Server THEN "begin1" ELSE "draw"]
      /\ need = [b \in B!Barriers |-> Cardinality(Players) + 1]
      /\ at = [b \in B!Barriers |-> {}]
      /\ round = [q \in Procs |-> 1]
      /\ deck = [p \in Players |-> 1..M]
      /\ active = [p \in Players |-> PLAYING]
  BY SameCount DEF B!Init, B!TableInit, B!Procs, Procs, B!PLAYING, PLAYING
<1>2. Server \in Procs /\ \A p \in Players : p \in Procs /\ p # Server
  BY CardTableAssumption DEF Procs
<1>3. /\ Srv = "begin1" /\ Now = 1 /\ M \in Nat \ {0}
      /\ \A p \in Players : pc[p] = "draw" /\ round[p] = 1 /\ active[p] = PLAYING
  BY <1>1, <1>2, CardTableAssumption DEF Srv, Now
<1>4. InGame = Players /\ Playing = Players /\ Players # {}
  BY <1>3, CardTableAssumption DEF InGame, Playing
<1>5. BTypeInv
  <2>1. pc \in [Procs -> B!PlayerPlaces \union B!ServerPlaces]
    BY <1>1 DEF B!PlayerPlaces, B!ServerPlaces
  <2>2. Cardinality(Players) \in Nat
    BY CardTableAssumption, FS_CardinalityType
  <2>3. need \in [B!Barriers -> Nat] /\ at \in [B!Barriers -> SUBSET Procs]
    BY <1>1, <2>2
  <2>4. round \in [Procs -> Nat] /\ \A p \in Players : round[p] \in 1..M
    BY <1>1, <1>3
  <2>5. active \in [Players -> {PLAYING, RESIGNED}] /\ deck \in [Players -> SUBSET (1..M)]
    BY <1>1
  <2>. QED
    BY <1>3, <2>1, <2>3, <2>4, <2>5 DEF BTypeInv, B!PlayerPlaces, B!ServerPlaces
<1>6. Cardinality(1..M) = M
  BY <1>3, FS_Interval
<1>7. DeckInv
  BY <1>1, <1>3, <1>6 DEF DeckInv
<1>8. FollowsInv /\ SomeInv /\ NeedInv /\ AtInv
  BY <1>1, <1>3, <1>4 DEF FollowsInv, Follows, SomeInv, NeedInv, AtInv, B!Barriers
<1>9. BRounds!Init
  <2>1. Laid = [p \in Players |-> 0]
    BY <1>1, <1>3, <1>6 DEF Laid
  <2>2. BDecided = [p \in Players |-> 0] /\ BScored = 0
    BY <1>3 DEF BDecided, BScored, Srv, Now
  <2>. QED
    BY <1>4, <2>1, <2>2 DEF BRounds!Init
<1>. QED
  BY <1>5, <1>7, <1>8, <1>9 DEF BInv

\* A step of the program is one of the rounds, or none that they see.
LEMMA BarriersStep ==
    ASSUME BInv, B!Next
    PROVE  BInv' /\ [BRounds!Next]_(BRounds!vars)
<1>1. ASSUME NEW q \in Procs, B!Arrive(q)
      PROVE  BInv' /\ UNCHANGED BRounds!vars
  BY <1>1, ArriveCases, WaitStep, PassStep DEF BRounds!vars
<1>2. ASSUME NEW p \in Players, B!Draw(p) \/ B!Decide(p)
      PROVE  BInv' /\ BRounds!Next
  BY <1>2, DrawStep, DecideStep DEF BRounds!Next
<1>3. ASSUME NEW p \in Players, B!Loop(p)
      PROVE  BInv' /\ UNCHANGED BRounds!vars
  BY <1>3, LoopStep DEF BRounds!vars
<1>4. ASSUME B!ScoreRound
      PROVE  BInv' /\ BRounds!Next
  BY <1>4, ScoreStep DEF BRounds!Next
<1>5. ASSUME B!Count \/ B!Renew
      PROVE  BInv' /\ UNCHANGED BRounds!vars
  BY <1>5, CountStep, RenewStep DEF BRounds!vars
<1>6. ASSUME UNCHANGED <<pc, tableVars, need, at>>
      PROVE  BInv' /\ UNCHANGED BRounds!vars
  <2>1. UNCHANGED <<pc, round, deck, active, need, at, InGame, Playing, Srv, Now>>
    BY <1>6 DEF tableVars, InGame, Playing, Srv, Now
  <2>2. BInv'
    BY <2>1 DEF BInv, BTypeInv, DeckInv, FollowsInv, Follows, SomeInv, NeedInv, AtInv, B!Waits
  <2>. QED
    BY <2>1, <2>2 DEF BRounds!vars, Laid, BDecided, BScored
<1>7. B!Stop => UNCHANGED <<pc, tableVars, need, at>>
  BY DEF B!Stop, B!bvars, B!tableVars, tableVars
<1>8. CASE B!Stop
  BY <1>6, <1>7, <1>8
<1>9. CASE \E q \in Procs : B!Step(q)
  BY <1>1, <1>2, <1>3, <1>4, <1>5, <1>9 DEF B!Step
<1>. QED
  BY <1>8, <1>9 DEF B!Next, B!Procs, Procs

\* The same for the behaviours of MCSharedMemory, which run one of several programs.
LEMMA ProgramInit == Init => (program = "barriers" => BInv /\ BRounds!Init)
BY BarriersInit DEF Init

\* Each of its steps keeps the invariant, and is a step of the rounds or none that they see.
LEMMA ProgramStep ==
    ASSUME program = "barriers" => BInv, [Next]_vars
    PROVE  /\ (program = "barriers" => BInv)'
           /\ program = "barriers" => [BRounds!Next]_(BRounds!vars)
<1>1. program' = program
  BY DEF Next, Barriers, Semaphores, Board, LetterCount, MonteCarlo, vars
<1>2. CASE program # "barriers"
  BY <1>1, <1>2
<1>3. CASE program = "barriers"
  <2>1. BInv
    BY <1>3
  <2>2. B!Next \/ UNCHANGED vars
    BY <1>3 DEF Next, Barriers, Semaphores, Board, LetterCount, MonteCarlo
  <2>3. ASSUME UNCHANGED vars
        PROVE  BInv' /\ UNCHANGED BRounds!vars
    <3>1. UNCHANGED <<pc, round, deck, active, need, at, InGame, Playing, Srv, Now>>
      BY <2>3 DEF vars, barriersOwn, tableVars, InGame, Playing, Srv, Now
    <3>2. BInv'
      BY <2>1, <3>1 DEF BInv, BTypeInv, DeckInv, FollowsInv, Follows, SomeInv, NeedInv,
                        AtInv, B!Waits
    <3>. QED
      BY <3>1, <3>2 DEF BRounds!vars, Laid, BDecided, BScored
  <2>. QED
    BY <1>1, <1>3, <2>1, <2>2, <2>3, BarriersStep
<1>. QED
  BY <1>2, <1>3

\* The card game on two barriers keeps the rounds: no card of the next round is laid before
\* all have decided, and no round is scored before all cards are laid, however fast a player
\* runs ahead, and though the barriers are initialised again with fewer players.
THEOREM RoundsKept == FairSpec => BarriersKeepRounds
<1>. DEFINE K == program = "barriers" => BInv
            I == program = "barriers" => BRounds!Init
            A == program = "barriers" => [BRounds!Next]_(BRounds!vars)
<1>1. Init => K /\ I
  BY ProgramInit
<1>2. K /\ [Next]_vars => K' /\ A
  BY ProgramStep
<1>3. FairSpec => I /\ [][A]_vars
  <2>. HIDE DEF K, I, A
  <2>. QED
    BY <1>1, <1>2, PTL DEF FairSpec
<1>. QED
  BY <1>3, PTL DEF BarriersKeepRounds

-----------------------------------------------------------------------------
(* The game on four semaphores: the invariant. *)

\* The players of a round: those who left it when it was over are in it to its end.
Members == {p \in Players : pc[p] = "left" => round[p] >= Now}
Started == {p \in Players : pc[p] \in {"lay", "wait_results"}}
Ready   == {p \in Players : pc[p] = "wait_results"}
\* Those who are through with the round but for players_done, and with it.
Ended   == {p \in Members : pc[p] = "left" \/ (pc[p] = "wait_start" /\ round[p] = Now + 1)}
Told    == {p \in Members : pc[p] \in {"decide", "leave", "done"}} \union Ended
\* Those whom active_players counts.
Counted == {p \in Players : active[p] = PLAYING \/ pc[p] = "leave"}

STypeInv ==
    /\ pc \in [Procs -> S!PlayerPlaces \union S!ServerPlaces]
    /\ \A p \in Players : pc[p] \in S!PlayerPlaces
    /\ Srv \in S!ServerPlaces
    /\ round \in [Procs -> Nat]
    /\ \A p \in Players : round[p] \in 1..M
    /\ Now \in 1..(M + 1) /\ (Srv # "end" => Now <= M)
    /\ active \in [Players -> {PLAYING, RESIGNED}]
    /\ sem \in [S!Semaphores -> Nat]
    /\ active_players \in Int /\ current_active \in Int /\ k \in Nat
    /\ deck \in [Players -> SUBSET (1..M)]

SDeckInv == \A p \in Players :
    Cardinality(deck[p]) = M - IF pc[p] \in {"wait_start", "lay"} THEN round[p] - 1 ELSE round[p]

\* Where a player of the round is while the server is where it is.
SFollows(p) ==
    /\ Srv = "top" => active[p] = PLAYING /\ pc[p] = "wait_start" /\ round[p] = Now
    /\ Srv \in {"start", "cards"} =>
          active[p] = PLAYING /\ pc[p] \in {"wait_start", "lay", "wait_results"} /\ round[p] = Now
    /\ Srv = "score" => active[p] = PLAYING /\ pc[p] = "wait_results" /\ round[p] = Now
    /\ Srv \in {"results", "finish"} =>
          \/ pc[p] \in {"wait_results", "decide"} /\ active[p] = PLAYING /\ round[p] = Now
          \/ pc[p] = "leave" /\ active[p] = RESIGNED /\ round[p] = Now
          \/ pc[p] \in {"done", "left"} /\ round[p] = Now
          \/ pc[p] = "wait_start" /\ active[p] = PLAYING /\ round[p] = Now + 1
    /\ Srv # "end"

SFollowsInv == /\ \A p \in Members : SFollows(p)
               /\ \A p \in Players : pc[p] = "left" => active[p] = RESIGNED \/ round[p] = M

\* The tokens of the semaphores: one for each player that has yet to take it, or has put it.
TokenInv ==
    /\ Srv \in {"top", "score"} => \A s \in S!Semaphores : sem[s] = 0
    /\ Srv \in {"start", "cards"} =>
          /\ sem["round_start"] + Cardinality(Started) =
                IF Srv = "start" THEN k ELSE current_active
          /\ sem["cards_ready"] + (IF Srv = "cards" THEN k ELSE 0) = Cardinality(Ready)
          /\ sem["results_ready"] = 0 /\ sem["players_done"] = 0
    /\ Srv \in {"results", "finish"} =>
          /\ sem["results_ready"] + Cardinality(Told) =
                IF Srv = "results" THEN k ELSE current_active
          /\ sem["players_done"] + (IF Srv = "finish" THEN k ELSE 0) = Cardinality(Ended)
          /\ sem["round_start"] = 0 /\ sem["cards_ready"] = 0

\* The server's numbers.
NumberInv ==
    /\ active_players = Cardinality(Counted)
    /\ Srv \in {"start", "cards", "score", "results", "finish"} =>
          /\ current_active = Cardinality(Members) /\ current_active > 0
          /\ k <= current_active
    /\ Srv = "score" => k = 0

SInv == STypeInv /\ SDeckInv /\ SFollowsInv /\ TokenInv /\ NumberInv

-----------------------------------------------------------------------------
(* Counting tokens. *)

\* The sets that the semaphores count are finite.
LEMMA Finite ==
    ASSUME NEW X, X \subseteq Players
    PROVE  IsFiniteSet(X) /\ Cardinality(X) \in Nat
BY CardTableAssumption, FS_Subset, FS_CardinalityType

\* One player more: what a post or a wait changes in the number of those concerned.
LEMMA OneMore ==
    ASSUME NEW X, NEW Y, X \subseteq Players, Y \subseteq Players,
           NEW p \in Players, p \notin X, p \in Y,
           \A q \in Players : q # p => (q \in X <=> q \in Y)
    PROVE  Cardinality(Y) = Cardinality(X) + 1
<1>1. Y = X \union {p}
  OBVIOUS
<1>. QED
  BY <1>1, Finite, FS_AddElement

\* As many as there are: a loop of waits that has counted all members has met all.
LEMMA AllMembers ==
    ASSUME NEW X, X \subseteq Members, Cardinality(X) >= Cardinality(Members)
    PROVE  X = Members
<1>1. IsFiniteSet(Members) /\ Cardinality(Members) \in Nat
  BY Finite DEF Members
<1>2. Cardinality(X) \in Nat /\ Cardinality(X) <= Cardinality(Members)
  BY <1>1, FS_Subset, FS_CardinalityType
<1>3. Cardinality(X) = Cardinality(Members)
  BY <1>1, <1>2
<1>. QED
  BY <1>1, <1>3, FS_Subset

\* CardsSemaphores counts as this module does.
LEMMA SameNumber == \A X : S!Cardinality(X) = Cardinality(X)
BY DEF S!Cardinality, Cardinality

\* Who plays is in the round until the game ends, and only who has left it is not.
LEMMA PlayersOfRound ==
    ASSUME SInv
    PROVE  /\ Srv # "end" => Playing \subseteq Members
           /\ \A p \in Players : pc[p] # "left" => p \in Members
           /\ \A p \in Members : p \in Players /\ p \in Procs /\ p # Server /\ SFollows(p)
           /\ Members \subseteq Players
<1>1. ASSUME NEW p \in Playing, Srv # "end"
      PROVE  p \in Members
  <2>1. p \in Players /\ active[p] # RESIGNED
    BY DEF Playing, PLAYING, RESIGNED
  <2>2. pc[p] = "left" => round[p] = M
    BY <2>1 DEF SInv, SFollowsInv
  <2>3. Now <= M /\ Now \in Nat /\ M \in Nat
    BY <1>1, CardTableAssumption DEF SInv, STypeInv
  <2>. QED
    BY <2>1, <2>2, <2>3 DEF Members
<1>. QED
  BY <1>1, CardTableAssumption DEF Members, Procs, SInv, SFollowsInv

\* sem_post and sem_wait change the value of one semaphore.
LEMMA Posted ==
    ASSUME SInv, NEW s \in S!Semaphores, sem' = [sem EXCEPT ![s] = @ + 1]
    PROVE  /\ sem' \in [S!Semaphores -> Nat] /\ sem[s] \in Nat /\ sem'[s] = sem[s] + 1
           /\ \A u \in S!Semaphores : u # s => sem'[u] = sem[u]
BY DEF SInv, STypeInv

\* sem_wait: the semaphore had a token, and has one less.
LEMMA Waited ==
    ASSUME SInv, NEW s \in S!Semaphores, sem[s] > 0, sem' = [sem EXCEPT ![s] = @ - 1]
    PROVE  /\ sem' \in [S!Semaphores -> Nat] /\ sem[s] \in Nat /\ sem'[s] = sem[s] - 1
           /\ \A u \in S!Semaphores : u # s => sem'[u] = sem[u]
<1>1. sem \in [S!Semaphores -> Nat] /\ sem[s] \in Nat
  BY DEF SInv, STypeInv
<1>2. sem[s] - 1 \in Nat
  BY <1>1
<1>. QED
  BY <1>1, <1>2

\* A player goes to another place: the server and the other players stay where they are.
LEMMA PlayerGoes ==
    ASSUME SInv, NEW p \in Players, NEW x \in S!PlayerPlaces, S!Go(p, x),
           \A q \in Procs : q # p => round'[q] = round[q]
    PROVE  /\ p \in Procs /\ pc'[p] = x
           /\ \A q \in Players : q # p => pc'[q] = pc[q] /\ round'[q] = round[q]
           /\ UNCHANGED <<Srv, Now>>
           /\ pc' \in [Procs -> S!PlayerPlaces \union S!ServerPlaces]
           /\ \A q \in Players : pc'[q] \in S!PlayerPlaces
<1>1. p \in Procs /\ Server \in Procs /\ Server # p /\ \A q \in Players : q \in Procs
  BY CardTableAssumption DEF Procs
<1>2. pc' = [pc EXCEPT ![p] = x] /\ pc \in [Procs -> S!PlayerPlaces \union S!ServerPlaces]
  BY DEF S!Go, SInv, STypeInv
<1>3. pc'[p] = x /\ \A q \in Procs : q # p => pc'[q] = pc[q]
  BY <1>1, <1>2
<1>. QED
  BY <1>1, <1>2, <1>3 DEF SInv, STypeInv, Srv, Now

-----------------------------------------------------------------------------
(* player_work of sop-cards-semaphores *)

\* sem_wait(&sem_round_start): a token of this round.
LEMMA AwaitStartStep ==
    ASSUME SInv, NEW p \in Players, S!AwaitStart(p)
    PROVE  SInv' /\ UNCHANGED <<Playing, Laid, SDecided, SScored>>
<1>1. /\ pc[p] = "wait_start" /\ S!Go(p, "lay")
      /\ sem["round_start"] > 0 /\ sem' = [sem EXCEPT !["round_start"] = @ - 1]
      /\ UNCHANGED <<round, deck, active, active_players, current_active, k>>
  BY DEF S!AwaitStart, S!Wait, S!tableVars
<1>2. /\ pc'[p] = "lay" /\ \A q \in Players : q # p => pc'[q] = pc[q]
      /\ UNCHANGED <<Srv, Now>>
      /\ pc' \in [Procs -> S!PlayerPlaces \union S!ServerPlaces]
      /\ \A q \in Players : pc'[q] \in S!PlayerPlaces
  BY <1>1, PlayerGoes DEF S!PlayerPlaces
<1>3. /\ sem' \in [S!Semaphores -> Nat]
      /\ sem["round_start"] \in Nat /\ sem'["round_start"] = sem["round_start"] - 1
      /\ \A u \in S!Semaphores : u # "round_start" => sem'[u] = sem[u]
  BY <1>1, Waited DEF S!Semaphores
<1>4. p \in Members /\ SFollows(p)
  BY <1>1, PlayersOfRound
<1>5. Srv \in {"start", "cards"} /\ active[p] = PLAYING /\ round[p] = Now
  BY <1>1, <1>4 DEF SInv, STypeInv, SFollows, TokenInv, S!Semaphores, S!ServerPlaces
<1>6. UNCHANGED <<Playing, Members, Ready, Counted>>
  <2>1. \A q \in Players : /\ (q \in Members' <=> q \in Members)
                           /\ (q \in Ready' <=> q \in Ready)
                           /\ (q \in Counted' <=> q \in Counted)
    BY <1>1, <1>2, <1>5 DEF Members, Ready, Counted
  <2>. QED
    BY <1>1, <2>1 DEF Playing, Members, Ready, Counted
<1>7. Cardinality(Started') = Cardinality(Started) + 1 /\ Cardinality(Started) \in Nat
  <2>1. /\ Started \subseteq Players /\ Started' \subseteq Players
        /\ p \notin Started /\ p \in Started'
        /\ \A q \in Players : q # p => (q \in Started <=> q \in Started')
    BY <1>1, <1>2 DEF Started
  <2>. QED
    BY <2>1, OneMore, Finite
<1>8. STypeInv'
  BY <1>1, <1>2, <1>3 DEF SInv, STypeInv
<1>9. SDeckInv'
  BY <1>1, <1>2 DEF SInv, SDeckInv
<1>10. SFollowsInv'
  <2>1. \A q \in Members : SFollows(q)'
    <3>1. SFollows(p)'
      BY <1>1, <1>2, <1>5 DEF SFollows
    <3>2. ASSUME NEW q \in Members, q # p PROVE SFollows(q)'
      BY <1>1, <1>2, <1>5, <3>2, PlayersOfRound DEF SFollows
    <3>. QED
      BY <3>1, <3>2
  <2>. QED
    BY <1>1, <1>2, <1>6, <2>1 DEF SInv, SFollowsInv
<1>11. TokenInv'
  BY <1>1, <1>2, <1>3, <1>5, <1>6, <1>7 DEF SInv, STypeInv, TokenInv, S!Semaphores
<1>12. NumberInv'
  BY <1>1, <1>2, <1>6 DEF SInv, NumberInv
<1>13. UNCHANGED <<Laid, SDecided, SScored>>
  <2>1. \A q \in Players : pc'[q] \in {"wait_start", "lay", "wait_results", "decide"}
                           <=> pc[q] \in {"wait_start", "lay", "wait_results", "decide"}
    BY <1>1, <1>2
  <2>. QED
    BY <1>1, <1>2, <2>1 DEF Laid, SDecided, SScored, Srv, Now
<1>. QED
  BY <1>6, <1>8, <1>9, <1>10, <1>11, <1>12, <1>13 DEF SInv

\* draw_card, and a token for the server.
LEMMA LayStep ==
    ASSUME SInv, NEW p \in Players, S!Lay(p)
    PROVE  SInv' /\ SRounds!Lay(p)
<1>1. /\ pc[p] = "lay" /\ S!Go(p, "wait_results")
      /\ sem' = [sem EXCEPT !["cards_ready"] = @ + 1]
      /\ UNCHANGED <<round, active, active_players, current_active, k>>
  BY DEF S!Lay, S!Post
<1>2. PICK c \in deck[p] : deck' = [deck EXCEPT ![p] = @ \ {c}]
  BY DEF S!Lay, S!DrawCard
<1>3. /\ pc'[p] = "wait_results" /\ \A q \in Players : q # p => pc'[q] = pc[q]
      /\ UNCHANGED <<Srv, Now>>
      /\ pc' \in [Procs -> S!PlayerPlaces \union S!ServerPlaces]
      /\ \A q \in Players : pc'[q] \in S!PlayerPlaces
  BY <1>1, PlayerGoes DEF S!PlayerPlaces
<1>4. /\ sem' \in [S!Semaphores -> Nat]
      /\ sem["cards_ready"] \in Nat /\ sem'["cards_ready"] = sem["cards_ready"] + 1
      /\ \A u \in S!Semaphores : u # "cards_ready" => sem'[u] = sem[u]
  BY <1>1, Posted DEF S!Semaphores
<1>5. p \in Members /\ SFollows(p)
  BY <1>1, PlayersOfRound
<1>6. Srv \in {"start", "cards"} /\ active[p] = PLAYING /\ round[p] = Now
  BY <1>1, <1>5 DEF SInv, STypeInv, SFollows, S!ServerPlaces
<1>7. /\ M \in Nat /\ Now \in 1..M /\ deck[p] \subseteq 1..M
      /\ deck'[p] = deck[p] \ {c} /\ \A q \in Players : q # p => deck'[q] = deck[q]
      /\ deck' \in [Players -> SUBSET (1..M)]
  BY <1>2, <1>6, CardTableAssumption DEF SInv, STypeInv
<1>8. Cardinality(deck[p]) = M - (Now - 1) /\ Cardinality(deck'[p]) = M - Now
  <2>1. Cardinality(deck[p]) = M - (Now - 1)
    BY <1>1, <1>6 DEF SInv, SDeckInv
  <2>2. Cardinality(deck'[p]) = Cardinality(deck[p]) - 1
    BY <1>7, CardGone
  <2>. QED
    BY <1>7, <2>1, <2>2
<1>9. UNCHANGED <<Playing, Members, Started, Counted>>
  <2>1. \A q \in Players : /\ (q \in Members' <=> q \in Members)
                           /\ (q \in Started' <=> q \in Started)
                           /\ (q \in Counted' <=> q \in Counted)
    BY <1>1, <1>3, <1>6 DEF Members, Started, Counted
  <2>. QED
    BY <1>1, <2>1 DEF Playing, Members, Started, Counted
<1>10. Cardinality(Ready') = Cardinality(Ready) + 1 /\ Cardinality(Ready) \in Nat
  <2>1. /\ Ready \subseteq Players /\ Ready' \subseteq Players
        /\ p \notin Ready /\ p \in Ready'
        /\ \A q \in Players : q # p => (q \in Ready <=> q \in Ready')
    BY <1>1, <1>3 DEF Ready
  <2>. QED
    BY <2>1, OneMore, Finite
<1>11. STypeInv'
  BY <1>1, <1>3, <1>4, <1>7 DEF SInv, STypeInv
<1>12. SDeckInv'
  BY <1>1, <1>3, <1>6, <1>7, <1>8 DEF SInv, SDeckInv
<1>13. SFollowsInv'
  <2>1. \A q \in Members : SFollows(q)'
    <3>1. SFollows(p)'
      BY <1>1, <1>3, <1>6 DEF SFollows
    <3>2. ASSUME NEW q \in Members, q # p PROVE SFollows(q)'
      BY <1>1, <1>3, <1>6, <3>2, PlayersOfRound DEF SFollows
    <3>. QED
      BY <3>1, <3>2
  <2>. QED
    BY <1>1, <1>3, <1>9, <2>1 DEF SInv, SFollowsInv
<1>14. TokenInv'
  BY <1>1, <1>3, <1>4, <1>6, <1>9, <1>10 DEF SInv, STypeInv, TokenInv, S!Semaphores
<1>15. NumberInv'
  BY <1>1, <1>3, <1>9 DEF SInv, NumberInv
<1>16. SScored = Now - 1 /\ SScored' = SScored
  BY <1>3, <1>6 DEF SScored, Srv, Now
<1>17. p \in Playing /\ SScored < M
  BY <1>6, <1>7, <1>16 DEF Playing
<1>18. Laid[p] = SScored /\ Laid' = [Laid EXCEPT ![p] = SScored + 1]
  <2>1. M - Cardinality(deck[p]) = SScored /\ M - Cardinality(deck'[p]) = SScored + 1
    BY <1>7, <1>8, <1>16
  <2>. QED
    BY <1>7, <2>1 DEF Laid
<1>19. \A q \in Playing : SDecided[q] = SScored
  <2>. TAKE q \in Playing
  <2>1. q \in Players /\ SFollows(q)
    BY <1>6, PlayersOfRound
  <2>. QED
    BY <1>6, <1>16, <2>1 DEF SFollows, SDecided
<1>20. SDecided' = SDecided
  <2>1. \A q \in Players : pc'[q] \in {"wait_start", "lay", "wait_results", "decide"}
                           <=> pc[q] \in {"wait_start", "lay", "wait_results", "decide"}
    BY <1>1, <1>3
  <2>. QED
    BY <1>1, <2>1 DEF SDecided
<1>21. SRounds!Lay(p)
  BY <1>9, <1>16, <1>17, <1>18, <1>19, <1>20 DEF SRounds!Lay
<1>. QED
  BY <1>11, <1>12, <1>13, <1>14, <1>15, <1>21 DEF SInv

\* sem_wait(&sem_results_ready): the points are known.
LEMMA AwaitResultsStep ==
    ASSUME SInv, NEW p \in Players, S!AwaitResults(p)
    PROVE  SInv' /\ UNCHANGED <<Playing, Laid, SDecided, SScored>>
<1>1. /\ pc[p] = "wait_results" /\ S!Go(p, "decide")
      /\ sem["results_ready"] > 0 /\ sem' = [sem EXCEPT !["results_ready"] = @ - 1]
      /\ UNCHANGED <<round, deck, active, active_players, current_active, k>>
  BY DEF S!AwaitResults, S!Wait, S!tableVars
<1>2. /\ pc'[p] = "decide" /\ \A q \in Players : q # p => pc'[q] = pc[q]
      /\ UNCHANGED <<Srv, Now>>
      /\ pc' \in [Procs -> S!PlayerPlaces \union S!ServerPlaces]
      /\ \A q \in Players : pc'[q] \in S!PlayerPlaces
  BY <1>1, PlayerGoes DEF S!PlayerPlaces
<1>3. /\ sem' \in [S!Semaphores -> Nat]
      /\ sem["results_ready"] \in Nat /\ sem'["results_ready"] = sem["results_ready"] - 1
      /\ \A u \in S!Semaphores : u # "results_ready" => sem'[u] = sem[u]
  BY <1>1, Waited DEF S!Semaphores
<1>4. p \in Members /\ SFollows(p)
  BY <1>1, PlayersOfRound
<1>5. Srv \in {"results", "finish"} /\ active[p] = PLAYING /\ round[p] = Now
  <2>1. Srv \notin {"top", "score", "start", "cards"}
    BY <1>1, <1>3 DEF SInv, TokenInv, S!Semaphores
  <2>2. Srv \in {"results", "finish"}
    BY <1>4, <2>1 DEF SInv, STypeInv, SFollows, S!ServerPlaces
  <2>. QED
    BY <1>1, <1>4, <2>2 DEF SFollows
<1>6. UNCHANGED <<Playing, Members, Ended, Counted>>
  <2>1. \A q \in Players : /\ (q \in Members' <=> q \in Members)
                           /\ (q \in Ended' <=> q \in Ended)
                           /\ (q \in Counted' <=> q \in Counted)
    BY <1>1, <1>2, <1>5 DEF Members, Ended, Counted
  <2>. QED
    BY <1>1, <2>1 DEF Playing, Members, Ended, Counted
<1>7. Cardinality(Told') = Cardinality(Told) + 1 /\ Cardinality(Told) \in Nat
  <2>1. Told \subseteq Players /\ Told' \subseteq Players
    BY DEF Told, Ended, Members
  <2>2. p \notin Told /\ p \in Told'
    BY <1>1, <1>2, <1>4, <1>6 DEF Told, Ended
  <2>3. \A q \in Players : q # p => (q \in Told <=> q \in Told')
    BY <1>2, <1>6 DEF Told
  <2>. QED
    BY <2>1, <2>2, <2>3, OneMore, Finite
<1>8. STypeInv'
  BY <1>1, <1>2, <1>3 DEF SInv, STypeInv
<1>9. SDeckInv'
  BY <1>1, <1>2 DEF SInv, SDeckInv
<1>10. SFollowsInv'
  <2>1. \A q \in Members : SFollows(q)'
    <3>1. SFollows(p)'
      BY <1>1, <1>2, <1>5 DEF SFollows
    <3>2. ASSUME NEW q \in Members, q # p PROVE SFollows(q)'
      BY <1>1, <1>2, <1>5, <3>2, PlayersOfRound DEF SFollows
    <3>. QED
      BY <3>1, <3>2
  <2>. QED
    BY <1>1, <1>2, <1>6, <2>1 DEF SInv, SFollowsInv
<1>11. TokenInv'
  BY <1>1, <1>2, <1>3, <1>5, <1>6, <1>7 DEF SInv, STypeInv, TokenInv, S!Semaphores
<1>12. NumberInv'
  BY <1>1, <1>2, <1>6 DEF SInv, NumberInv
<1>13. UNCHANGED <<Laid, SDecided, SScored>>
  <2>1. \A q \in Players : pc'[q] \in {"wait_start", "lay", "wait_results", "decide"}
                           <=> pc[q] \in {"wait_start", "lay", "wait_results", "decide"}
    BY <1>1, <1>2
  <2>. QED
    BY <1>1, <1>2, <2>1 DEF Laid, SDecided, SScored, Srv, Now
<1>. QED
  BY <1>6, <1>8, <1>9, <1>10, <1>11, <1>12, <1>13 DEF SInv

\* should_resign
LEMMA SDecideStep ==
    ASSUME SInv, NEW p \in Players, S!Decide(p)
    PROVE  SInv' /\ SRounds!Decide(p)
<1>1. /\ pc[p] = "decide"
      /\ S!Go(p, IF active'[p] = RESIGNED THEN "leave" ELSE "done")
      /\ UNCHANGED <<round, deck, sem, active_players, current_active, k>>
  BY DEF S!Decide, S!RESIGNED, RESIGNED
<1>2. PICK a \in {PLAYING, RESIGNED} : active' = [active EXCEPT ![p] = a]
  BY DEF S!Decide, S!Decides, S!PLAYING, S!RESIGNED, PLAYING, RESIGNED
<1>3. /\ active'[p] = a /\ \A q \in Players : q # p => active'[q] = active[q]
      /\ active' \in [Players -> {PLAYING, RESIGNED}]
  BY <1>2 DEF SInv, STypeInv
<1>4. /\ pc'[p] = IF a = RESIGNED THEN "leave" ELSE "done"
      /\ \A q \in Players : q # p => pc'[q] = pc[q]
      /\ UNCHANGED <<Srv, Now>>
      /\ pc' \in [Procs -> S!PlayerPlaces \union S!ServerPlaces]
      /\ \A q \in Players : pc'[q] \in S!PlayerPlaces
  BY <1>1, <1>3, PlayerGoes DEF S!PlayerPlaces
<1>5. p \in Members /\ SFollows(p)
  BY <1>1, PlayersOfRound
<1>6. Srv \in {"results", "finish"} /\ active[p] = PLAYING /\ round[p] = Now
  BY <1>1, <1>5 DEF SInv, STypeInv, SFollows, S!ServerPlaces
<1>7. UNCHANGED <<Members, Ended, Told, Counted>>
  <2>1. \A q \in Players : /\ (q \in Members' <=> q \in Members)
                           /\ (q \in Ended' <=> q \in Ended)
                           /\ (q \in Counted' <=> q \in Counted)
    BY <1>1, <1>3, <1>4, <1>6 DEF Members, Ended, Counted
  <2>2. UNCHANGED <<Members, Ended, Counted>>
    BY <2>1 DEF Members, Ended, Counted
  <2>3. \A q \in Players : q \in Told' <=> q \in Told
    BY <1>1, <1>4, <2>2 DEF Told
  <2>4. Told \subseteq Players /\ Told' \subseteq Players
    BY DEF Told, Ended, Members
  <2>. QED
    BY <2>2, <2>3, <2>4
<1>8. STypeInv'
  BY <1>1, <1>3, <1>4 DEF SInv, STypeInv
<1>9. SDeckInv'
  BY <1>1, <1>4 DEF SInv, SDeckInv
<1>10. SFollowsInv'
  <2>1. \A q \in Members : SFollows(q)'
    <3>1. SFollows(p)'
      BY <1>1, <1>3, <1>4, <1>6 DEF SFollows
    <3>2. ASSUME NEW q \in Members, q # p PROVE SFollows(q)'
      BY <1>1, <1>3, <1>4, <1>6, <3>2, PlayersOfRound DEF SFollows
    <3>. QED
      BY <3>1, <3>2
  <2>. QED
    BY <1>1, <1>3, <1>4, <1>7, <2>1 DEF SInv, SFollowsInv
<1>11. TokenInv'
  BY <1>1, <1>4, <1>6, <1>7 DEF SInv, TokenInv
<1>12. NumberInv'
  BY <1>1, <1>4, <1>7 DEF SInv, NumberInv
<1>13. Now \in 1..M /\ M \in Nat
  BY <1>6, CardTableAssumption DEF SInv, STypeInv
<1>14. SScored = Now /\ SScored' = SScored
  BY <1>4, <1>6 DEF SScored, Srv, Now
<1>15. p \in Playing /\ Laid[p] = SScored /\ Laid' = Laid
  <2>1. Cardinality(deck[p]) = M - Now
    BY <1>1, <1>6 DEF SInv, SDeckInv
  <2>2. M - Cardinality(deck[p]) = Now
    BY <1>13, <2>1
  <2>. QED
    BY <1>1, <1>6, <1>14, <2>2 DEF Laid, Playing
<1>16. SDecided[p] = SScored - 1 /\ SDecided' = [SDecided EXCEPT ![p] = SScored]
  BY <1>1, <1>4, <1>6, <1>14 DEF SDecided
<1>17. Playing' \in {Playing, Playing \ {p}}
  BY <1>3, <1>6 DEF Playing
<1>18. SRounds!Decide(p)
  BY <1>14, <1>15, <1>16, <1>17 DEF SRounds!Decide
<1>. QED
  BY <1>8, <1>9, <1>10, <1>11, <1>12, <1>18 DEF SInv

\* active_players--
LEMMA LeaveStep ==
    ASSUME SInv, NEW p \in Players, S!Leave(p)
    PROVE  SInv' /\ UNCHANGED <<Playing, Laid, SDecided, SScored>>
<1>1. /\ pc[p] = "leave" /\ S!Go(p, "done")
      /\ active_players' = active_players - 1
      /\ UNCHANGED <<round, deck, active, sem, current_active, k>>
  BY DEF S!Leave, S!tableVars
<1>2. /\ pc'[p] = "done" /\ \A q \in Players : q # p => pc'[q] = pc[q]
      /\ UNCHANGED <<Srv, Now>>
      /\ pc' \in [Procs -> S!PlayerPlaces \union S!ServerPlaces]
      /\ \A q \in Players : pc'[q] \in S!PlayerPlaces
  BY <1>1, PlayerGoes DEF S!PlayerPlaces
<1>3. p \in Members /\ SFollows(p)
  BY <1>1, PlayersOfRound
<1>4. Srv \in {"results", "finish"} /\ active[p] = RESIGNED /\ round[p] = Now
  BY <1>1, <1>3 DEF SInv, STypeInv, SFollows, S!ServerPlaces
<1>5. UNCHANGED <<Playing, Members, Ended, Told>>
  <2>1. \A q \in Players : /\ (q \in Members' <=> q \in Members)
                           /\ (q \in Ended' <=> q \in Ended)
    BY <1>1, <1>2 DEF Members, Ended
  <2>2. UNCHANGED <<Playing, Members, Ended>>
    BY <1>1, <2>1 DEF Playing, Members, Ended
  <2>3. \A q \in Players : q \in Told' <=> q \in Told
    BY <1>1, <1>2, <2>2 DEF Told
  <2>4. Told \subseteq Players /\ Told' \subseteq Players
    BY DEF Told, Ended, Members
  <2>. QED
    BY <2>2, <2>3, <2>4
<1>6. Cardinality(Counted) = Cardinality(Counted') + 1 /\ Cardinality(Counted') \in Nat
  <2>1. /\ Counted \subseteq Players /\ Counted' \subseteq Players
        /\ p \notin Counted' /\ p \in Counted
        /\ \A q \in Players : q # p => (q \in Counted' <=> q \in Counted)
    BY <1>1, <1>2, <1>4 DEF Counted, PLAYING, RESIGNED
  <2>. QED
    BY <2>1, OneMore, Finite
<1>7. STypeInv'
  BY <1>1, <1>2 DEF SInv, STypeInv
<1>8. SDeckInv'
  BY <1>1, <1>2 DEF SInv, SDeckInv
<1>9. SFollowsInv'
  <2>1. \A q \in Members : SFollows(q)'
    <3>1. SFollows(p)'
      BY <1>1, <1>2, <1>4 DEF SFollows
    <3>2. ASSUME NEW q \in Members, q # p PROVE SFollows(q)'
      BY <1>1, <1>2, <1>4, <3>2, PlayersOfRound DEF SFollows
    <3>. QED
      BY <3>1, <3>2
  <2>. QED
    BY <1>1, <1>2, <1>5, <2>1 DEF SInv, SFollowsInv
<1>10. TokenInv'
  BY <1>1, <1>2, <1>4, <1>5 DEF SInv, TokenInv
<1>11. NumberInv'
  BY <1>1, <1>2, <1>5, <1>6 DEF SInv, NumberInv
<1>12. UNCHANGED <<Laid, SDecided, SScored>>
  <2>1. \A q \in Players : pc'[q] \in {"wait_start", "lay", "wait_results", "decide"}
                           <=> pc[q] \in {"wait_start", "lay", "wait_results", "decide"}
    BY <1>1, <1>2
  <2>. QED
    BY <1>1, <1>2, <2>1 DEF Laid, SDecided, SScored, Srv, Now
<1>. QED
  BY <1>5, <1>7, <1>8, <1>9, <1>10, <1>11, <1>12 DEF SInv

\* sem_post(&sem_players_done), and the loop's condition: leave, or run ahead.
LEMMA DoneStep ==
    ASSUME SInv, NEW p \in Players, S!Done(p)
    PROVE  SInv' /\ UNCHANGED <<Playing, Laid, SDecided, SScored>>
<1>1. /\ pc[p] = "done"
      /\ sem' = [sem EXCEPT !["players_done"] = @ + 1]
      /\ UNCHANGED <<deck, active, active_players, current_active, k>>
      /\ \/ /\ active[p] = RESIGNED \/ round[p] = M
            /\ S!Go(p, "left") /\ round' = round
         \/ /\ active[p] # RESIGNED /\ round[p] # M
            /\ S!Go(p, "wait_start") /\ round' = [round EXCEPT ![p] = @ + 1]
  BY DEF S!Done, S!Post, S!RESIGNED, RESIGNED
<1>2. p \in Members /\ SFollows(p)
  BY <1>1, PlayersOfRound
<1>3. Srv \in {"results", "finish"} /\ round[p] = Now /\ Now \in 1..M /\ M \in Nat
  BY <1>1, <1>2, CardTableAssumption DEF SInv, STypeInv, SFollows, S!ServerPlaces
<1>4. round' \in [Procs -> Nat] /\ \A q \in Procs : q # p => round'[q] = round[q]
  BY <1>1, <1>3 DEF SInv, STypeInv
<1>5. /\ \A q \in Players : q # p => pc'[q] = pc[q] /\ round'[q] = round[q]
      /\ UNCHANGED <<Srv, Now>>
      /\ pc' \in [Procs -> S!PlayerPlaces \union S!ServerPlaces]
      /\ \A q \in Players : pc'[q] \in S!PlayerPlaces
      /\ p \in Procs
  BY <1>1, <1>4, PlayerGoes DEF S!PlayerPlaces
<1>6. \/ /\ active[p] = RESIGNED \/ round[p] = M
         /\ pc'[p] = "left" /\ round'[p] = Now
      \/ /\ active[p] = PLAYING /\ Now # M
         /\ pc'[p] = "wait_start" /\ round'[p] = Now + 1
  <2>1. S!Go(p, "left") => pc'[p] = "left"
    BY <1>5 DEF S!Go, SInv, STypeInv
  <2>2. S!Go(p, "wait_start") => pc'[p] = "wait_start"
    BY <1>5 DEF S!Go, SInv, STypeInv
  <2>3. active[p] \in {PLAYING, RESIGNED} /\ round \in [Procs -> Nat]
    BY DEF SInv, STypeInv
  <2>. QED
    BY <1>1, <1>3, <1>5, <2>1, <2>2, <2>3
<1>7. /\ sem' \in [S!Semaphores -> Nat]
      /\ sem["players_done"] \in Nat /\ sem'["players_done"] = sem["players_done"] + 1
      /\ \A u \in S!Semaphores : u # "players_done" => sem'[u] = sem[u]
  BY <1>1, Posted DEF S!Semaphores
<1>8. UNCHANGED <<Playing, Members, Counted>>
  <2>1. \A q \in Players : /\ (q \in Members' <=> q \in Members)
                           /\ (q \in Counted' <=> q \in Counted)
    BY <1>1, <1>3, <1>5, <1>6 DEF Members, Counted
  <2>. QED
    BY <1>1, <2>1 DEF Playing, Members, Counted
<1>9. /\ p \notin Ended /\ p \in Ended'
      /\ \A q \in Players : q # p => (q \in Ended <=> q \in Ended')
      /\ Ended \subseteq Players /\ Ended' \subseteq Players
  BY <1>1, <1>2, <1>5, <1>6, <1>8 DEF Ended, Members
<1>10. Cardinality(Ended') = Cardinality(Ended) + 1 /\ Cardinality(Ended) \in Nat
  BY <1>9, OneMore, Finite
<1>11. UNCHANGED Told
  <2>1. \A q \in Players : q \in Told' <=> q \in Told
    BY <1>1, <1>2, <1>5, <1>8, <1>9 DEF Told
  <2>2. Told \subseteq Players /\ Told' \subseteq Players
    BY DEF Told, Ended, Members
  <2>. QED
    BY <2>1, <2>2
<1>12. STypeInv'
  <2>1. \A q \in Players : round'[q] \in 1..M
    BY <1>3, <1>5, <1>6 DEF SInv, STypeInv
  <2>. QED
    BY <1>1, <1>4, <1>5, <1>7, <2>1 DEF SInv, STypeInv
<1>13. SDeckInv'
  <2>1. Cardinality(deck[p]) = M - Now
    BY <1>1, <1>3 DEF SInv, SDeckInv
  <2>2. Now = (Now + 1) - 1
    BY <1>3
  <2>. QED
    BY <1>1, <1>5, <1>6, <2>1, <2>2 DEF SInv, SDeckInv
<1>14. SFollowsInv'
  <2>1. \A q \in Members : SFollows(q)'
    <3>1. SFollows(p)'
      BY <1>1, <1>3, <1>5, <1>6 DEF SFollows
    <3>2. ASSUME NEW q \in Members, q # p PROVE SFollows(q)'
      BY <1>1, <1>3, <1>5, <3>2, PlayersOfRound DEF SFollows
    <3>. QED
      BY <3>1, <3>2
  <2>2. \A q \in Players : pc'[q] = "left" => active'[q] = RESIGNED \/ round'[q] = M
    BY <1>1, <1>3, <1>5, <1>6 DEF SInv, SFollowsInv
  <2>. QED
    BY <1>8, <2>1, <2>2 DEF SFollowsInv
<1>15. TokenInv'
  BY <1>1, <1>3, <1>5, <1>7, <1>8, <1>10, <1>11 DEF SInv, STypeInv, TokenInv, S!Semaphores
<1>16. NumberInv'
  BY <1>1, <1>5, <1>8 DEF SInv, NumberInv
<1>17. UNCHANGED <<Laid, SDecided, SScored>>
  <2>1. UNCHANGED SDecided
    BY <1>1, <1>3, <1>5, <1>6 DEF SDecided
  <2>. QED
    BY <1>1, <1>5, <2>1 DEF Laid, SScored, Srv, Now
<1>. QED
  BY <1>8, <1>12, <1>13, <1>14, <1>15, <1>16, <1>17 DEF SInv

-----------------------------------------------------------------------------
(* game_server_work of sop-cards-semaphores *)

\* The server goes to another place, or stays: the players stay where they are.
LEMMA ServerGoes ==
    ASSUME SInv, NEW x \in S!ServerPlaces,
           pc' = [pc EXCEPT ![Server] = x], UNCHANGED <<round, active>>
    PROVE  /\ Srv' = x /\ Now' = Now
           /\ \A q \in Players : pc'[q] = pc[q]
           /\ pc' \in [Procs -> S!PlayerPlaces \union S!ServerPlaces]
           /\ UNCHANGED <<Members, Started, Ready, Ended, Told, Counted, Playing>>
<1>1. Server \in Procs /\ \A q \in Players : q \in Procs /\ q # Server
  BY CardTableAssumption DEF Procs
<1>2. Srv' = x /\ Now' = Now /\ \A q \in Players : pc'[q] = pc[q]
  BY <1>1 DEF SInv, STypeInv, Srv, Now
<1>3. pc' \in [Procs -> S!PlayerPlaces \union S!ServerPlaces]
  BY DEF SInv, STypeInv
<1>4. UNCHANGED <<Started, Ready, Counted, Playing, Members>>
  BY <1>2 DEF Started, Ready, Counted, Playing, Members
<1>5. UNCHANGED Ended
  BY <1>2, <1>4 DEF Ended, Members
<1>6. UNCHANGED Told
  BY <1>2, <1>4, <1>5 DEF Told, Members
<1>. QED
  BY <1>2, <1>3, <1>4, <1>5, <1>6

\* What a step of the server leaves alone when no player moves and the round stays.
LEMMA ServerFrame ==
    ASSUME SInv, \A q \in Players : pc'[q] = pc[q], UNCHANGED <<round, deck, active>>
    PROVE  SDeckInv' /\ UNCHANGED <<Laid, SDecided>>
BY DEF SInv, SDeckInv, Laid, SDecided

\* The server reads active_players: the number of players of the round.
LEMMA TopStep ==
    ASSUME SInv, S!Top
    PROVE  SInv' /\ UNCHANGED <<Playing, Laid, SDecided, SScored>>
<1>1. /\ Srv = "top"
      /\ pc' = [pc EXCEPT ![Server] = IF active_players = 0 THEN "end" ELSE "start"]
      /\ current_active' = active_players /\ k' = 0
      /\ UNCHANGED <<round, deck, active, sem, active_players>>
  BY DEF S!Top, S!Go, S!tableVars, Srv
<1>2. /\ Srv' = (IF active_players = 0 THEN "end" ELSE "start") /\ Now' = Now
      /\ \A q \in Players : pc'[q] = pc[q]
      /\ pc' \in [Procs -> S!PlayerPlaces \union S!ServerPlaces]
      /\ UNCHANGED <<Members, Started, Ready, Ended, Told, Counted, Playing>>
  BY <1>1, ServerGoes DEF S!ServerPlaces
<1>3. \A q \in Members : q \in Players /\ active[q] = PLAYING /\ pc[q] = "wait_start"
                         /\ round[q] = Now
  BY <1>1, PlayersOfRound DEF SFollows
<1>4. \A q \in Players : q \notin Members => pc[q] = "left" /\ q \notin Playing
  BY <1>1, PlayersOfRound
<1>5. Counted = Members /\ Started = {} /\ Ready = {}
  <2>1. \A q \in Players : /\ q \in Counted <=> q \in Members
                           /\ q \notin Started /\ q \notin Ready
    BY <1>3, <1>4 DEF Counted, Started, Ready, Playing
  <2>. QED
    BY <2>1 DEF Counted, Members, Started, Ready
<1>6. active_players = Cardinality(Members) /\ active_players \in Nat
  BY <1>5, Finite DEF SInv, NumberInv, Members
<1>7. Cardinality(Started) = 0 /\ Cardinality(Ready) = 0
  BY <1>5, FS_EmptySet
<1>8. active_players = 0 => Members = {}
  BY <1>6, Finite, FS_EmptySet DEF Members
<1>9. STypeInv'
  BY <1>1, <1>2, <1>6 DEF SInv, STypeInv, S!ServerPlaces
<1>10. SFollowsInv'
  BY <1>1, <1>2, <1>3, <1>8 DEF SInv, SFollowsInv, SFollows
<1>11. TokenInv'
  BY <1>1, <1>2, <1>7 DEF SInv, TokenInv, S!Semaphores
<1>12. NumberInv'
  BY <1>1, <1>2, <1>6 DEF SInv, NumberInv
<1>13. UNCHANGED SScored
  BY <1>1, <1>2 DEF SScored, Srv, Now
<1>. QED
  BY <1>1, <1>2, <1>9, <1>10, <1>11, <1>12, <1>13, ServerFrame DEF SInv

\* One round of a loop of the server's, which stays in it.
LEMMA ServerStays ==
    ASSUME UNCHANGED <<pc, round, active>>
    PROVE  UNCHANGED <<Srv, Now, Members, Started, Ready, Ended, Told, Counted, Playing, SScored>>
BY DEF Srv, Now, Members, Started, Ready, Ended, Told, Counted, Playing, SScored

\* The loops of posts and waits: as often as there are players in the round.
LEMMA RepeatStep ==
    ASSUME SInv, \/ S!Repeat("start", "cards") \/ S!Repeat("cards", "score")
                 \/ S!Repeat("results", "finish")
    PROVE  SInv' /\ UNCHANGED <<Playing, Laid, SDecided, SScored>>
<1>. DEFINE sets == <<Members, Started, Ready, Ended, Told, Counted, Playing>>
<1>1. /\ Srv \in {"start", "cards", "results"}
      /\ UNCHANGED <<round, deck, active, active_players, current_active>>
      /\ \/ /\ k < current_active /\ k' = k + 1 /\ UNCHANGED pc
            /\ \/ Srv = "start" /\ sem' = [sem EXCEPT !["round_start"] = @ + 1]
               \/ /\ Srv = "cards" /\ sem["cards_ready"] > 0
                  /\ sem' = [sem EXCEPT !["cards_ready"] = @ - 1]
               \/ Srv = "results" /\ sem' = [sem EXCEPT !["results_ready"] = @ + 1]
         \/ /\ ~(k < current_active) /\ k' = 0 /\ UNCHANGED sem
            /\ pc' = [pc EXCEPT ![Server] = CASE Srv = "start" -> "cards"
                                              [] Srv = "cards" -> "score"
                                              [] Srv = "results" -> "finish"]
  BY DEF S!Repeat, S!Post, S!Wait, S!Go, S!tableVars, Srv
<1>2. /\ k \in Nat /\ current_active \in Nat /\ k <= current_active
      /\ current_active = Cardinality(Members)
      /\ sem \in [S!Semaphores -> Nat]
      /\ \A u \in S!Semaphores : sem[u] \in Nat
      /\ Cardinality(Started) \in Nat /\ Cardinality(Ready) \in Nat
      /\ Cardinality(Told) \in Nat /\ Cardinality(Ended) \in Nat
  <2>1. /\ Started \subseteq Players /\ Ready \subseteq Players /\ Members \subseteq Players
        /\ Told \subseteq Players /\ Ended \subseteq Players
    BY DEF Started, Ready, Told, Ended, Members
  <2>. QED
    BY <1>1, <2>1, Finite DEF SInv, STypeInv, NumberInv
<1>3. \A q \in Members : q \in Players /\ SFollows(q)
  BY PlayersOfRound
<1>4. CASE k < current_active
  <2>1. UNCHANGED <<pc, round, deck, active, active_players, current_active>> /\ k' = k + 1
    BY <1>1, <1>4
  <2>2. UNCHANGED <<Srv, Now, sets, SScored>>
    BY <2>1, ServerStays
  <2>3. ASSUME Srv = "start" PROVE sem' \in [S!Semaphores -> Nat] /\ TokenInv'
    <3>1. /\ sem' \in [S!Semaphores -> Nat] /\ sem'["round_start"] = sem["round_start"] + 1
          /\ \A u \in S!Semaphores : u # "round_start" => sem'[u] = sem[u]
      BY <1>1, <1>4, <2>3, Posted DEF S!Semaphores
    <3>2. TokenInv'
      BY <1>2, <2>1, <2>2, <2>3, <3>1 DEF SInv, TokenInv, S!Semaphores
    <3>. QED
      BY <3>1, <3>2
  <2>4. ASSUME Srv = "cards" PROVE sem' \in [S!Semaphores -> Nat] /\ TokenInv'
    <3>1. /\ sem' \in [S!Semaphores -> Nat] /\ sem'["cards_ready"] = sem["cards_ready"] - 1
          /\ \A u \in S!Semaphores : u # "cards_ready" => sem'[u] = sem[u]
      BY <1>1, <1>4, <2>4, Waited DEF S!Semaphores
    <3>2. TokenInv'
      BY <1>2, <2>1, <2>2, <2>4, <3>1 DEF SInv, TokenInv, S!Semaphores
    <3>. QED
      BY <3>1, <3>2
  <2>5. ASSUME Srv = "results" PROVE sem' \in [S!Semaphores -> Nat] /\ TokenInv'
    <3>1. /\ sem' \in [S!Semaphores -> Nat] /\ sem'["results_ready"] = sem["results_ready"] + 1
          /\ \A u \in S!Semaphores : u # "results_ready" => sem'[u] = sem[u]
      BY <1>1, <1>4, <2>5, Posted DEF S!Semaphores
    <3>2. TokenInv'
      BY <1>2, <2>1, <2>2, <2>5, <3>1 DEF SInv, TokenInv, S!Semaphores
    <3>. QED
      BY <3>1, <3>2
  <2>6. sem' \in [S!Semaphores -> Nat] /\ TokenInv'
    BY <1>1, <2>3, <2>4, <2>5
  <2>7. STypeInv'
    BY <1>2, <2>1, <2>2, <2>6 DEF SInv, STypeInv
  <2>8. SFollowsInv'
    BY <2>1, <2>2 DEF SInv, SFollowsInv, SFollows
  <2>9. NumberInv'
    BY <1>1, <1>2, <1>4, <2>1, <2>2 DEF SInv, NumberInv
  <2>. QED
    BY <2>1, <2>2, <2>6, <2>7, <2>8, <2>9, ServerFrame DEF SInv
<1>5. CASE ~(k < current_active)
  <2>1. /\ k = current_active /\ k' = 0
        /\ UNCHANGED <<round, deck, active, sem, active_players, current_active>>
    BY <1>1, <1>2, <1>5
  <2>2. PICK x \in S!ServerPlaces :
           /\ pc' = [pc EXCEPT ![Server] = x]
           /\ \/ Srv = "start" /\ x = "cards"
              \/ Srv = "cards" /\ x = "score"
              \/ Srv = "results" /\ x = "finish"
    BY <1>1, <1>5 DEF S!ServerPlaces
  <2>3. /\ Srv' = x /\ Now' = Now
        /\ \A q \in Players : pc'[q] = pc[q]
        /\ pc' \in [Procs -> S!PlayerPlaces \union S!ServerPlaces]
        /\ UNCHANGED sets
    BY <2>1, <2>2, ServerGoes
  <2>4. Srv = "cards" => /\ Ready = Members
                         /\ \A u \in S!Semaphores : sem[u] = 0
    <3>. SUFFICES ASSUME Srv = "cards"
                  PROVE  Ready = Members /\ \A u \in S!Semaphores : sem[u] = 0
      OBVIOUS
    <3>1. /\ sem["round_start"] + Cardinality(Started) = current_active
          /\ sem["cards_ready"] + current_active = Cardinality(Ready)
          /\ sem["results_ready"] = 0 /\ sem["players_done"] = 0
      BY <2>1 DEF SInv, TokenInv
    <3>2. Ready \subseteq Members /\ Started \subseteq Members
      BY PlayersOfRound DEF Ready, Started
    <3>3. Cardinality(Ready) >= Cardinality(Members)
      BY <1>2, <3>1 DEF S!Semaphores
    <3>4. Ready = Members
      BY <3>2, <3>3, AllMembers
    <3>5. Started = Members
      BY <3>2, <3>4 DEF Ready, Started
    <3>6. sem["cards_ready"] = 0 /\ sem["round_start"] = 0
      <4>1. Cardinality(Ready) = current_active /\ Cardinality(Started) = current_active
        BY <1>2, <3>4, <3>5
      <4>. QED
        BY <1>2, <3>1, <4>1 DEF S!Semaphores
    <3>. QED
      BY <3>1, <3>4, <3>6 DEF S!Semaphores
  <2>5. STypeInv'
    BY <2>1, <2>2, <2>3 DEF SInv, STypeInv
  <2>6. SFollowsInv'
    BY <1>3, <2>1, <2>2, <2>3, <2>4 DEF SInv, SFollowsInv, SFollows, Ready
  <2>7. TokenInv'
    BY <1>2, <2>1, <2>2, <2>3, <2>4 DEF SInv, TokenInv, S!Semaphores
  <2>8. NumberInv'
    BY <1>1, <1>2, <2>1, <2>2, <2>3 DEF SInv, NumberInv
  <2>9. UNCHANGED SScored
    BY <2>1, <2>2, <2>3 DEF SScored, Srv, Now
  <2>. QED
    BY <2>1, <2>3, <2>5, <2>6, <2>7, <2>8, <2>9, ServerFrame DEF SInv
<1>. QED
  BY <1>4, <1>5

\* The points of a round: all have laid their card.
LEMMA SScoreStep ==
    ASSUME SInv, S!ScoreRound
    PROVE  SInv' /\ SRounds!Score
<1>1. /\ Srv = "score" /\ pc' = [pc EXCEPT ![Server] = "results"]
      /\ UNCHANGED <<round, deck, active, sem, active_players, current_active, k>>
  BY DEF S!ScoreRound, S!Go, Srv
<1>2. /\ Srv' = "results" /\ Now' = Now
      /\ \A q \in Players : pc'[q] = pc[q]
      /\ pc' \in [Procs -> S!PlayerPlaces \union S!ServerPlaces]
      /\ UNCHANGED <<Members, Started, Ready, Ended, Told, Counted, Playing>>
  BY <1>1, ServerGoes DEF S!ServerPlaces
<1>3. \A q \in Members : q \in Players /\ active[q] = PLAYING /\ pc[q] = "wait_results"
                         /\ round[q] = Now
  BY <1>1, PlayersOfRound DEF SFollows
<1>4. Told = {} /\ Ended = {}
  BY <1>3 DEF Told, Ended
<1>5. Cardinality(Told) = 0 /\ Cardinality(Ended) = 0
  BY <1>4, FS_EmptySet
<1>6. k = 0 /\ current_active > 0 /\ current_active = Cardinality(Members)
      /\ \A u \in S!Semaphores : sem[u] = 0
  BY <1>1 DEF SInv, NumberInv, TokenInv
<1>7. STypeInv'
  BY <1>1, <1>2 DEF SInv, STypeInv, S!ServerPlaces
<1>8. SFollowsInv'
  BY <1>1, <1>2, <1>3 DEF SInv, SFollowsInv, SFollows
<1>9. TokenInv'
  BY <1>1, <1>2, <1>5, <1>6 DEF TokenInv, S!Semaphores
<1>10. NumberInv'
  BY <1>1, <1>2, <1>6 DEF SInv, NumberInv
<1>11. Now \in 1..M /\ M \in Nat
  BY <1>1, CardTableAssumption DEF SInv, STypeInv
<1>12. SScored = Now - 1 /\ SScored' = SScored + 1
  BY <1>1, <1>2, <1>11 DEF SScored, Srv, Now
<1>13. Playing # {}
  <2>1. Members # {}
    BY <1>6, FS_EmptySet
  <2>. QED
    BY <1>3, <2>1 DEF Playing
<1>14. \A p \in Playing : Laid[p] = SScored + 1
  <2>. TAKE p \in Playing
  <2>1. p \in Players /\ pc[p] = "wait_results" /\ round[p] = Now
    BY <1>1, <1>3, PlayersOfRound
  <2>2. Cardinality(deck[p]) = M - Now
    BY <2>1 DEF SInv, SDeckInv
  <2>. QED
    BY <1>11, <1>12, <2>1, <2>2 DEF Laid
<1>. QED
  BY <1>1, <1>2, <1>7, <1>8, <1>9, <1>10, <1>12, <1>13, <1>14, ServerFrame
     DEF SInv, SRounds!Score

\* Waiting for all players; on to the next round.
LEMMA FinishStep ==
    ASSUME SInv, S!Finish
    PROVE  SInv' /\ UNCHANGED <<Playing, Laid, SDecided, SScored>>
<1>1. /\ Srv = "finish"
      /\ UNCHANGED <<deck, active, active_players, current_active>>
      /\ \/ /\ k < current_active /\ k' = k + 1 /\ UNCHANGED <<pc, round>>
            /\ sem["players_done"] > 0 /\ sem' = [sem EXCEPT !["players_done"] = @ - 1]
         \/ /\ ~(k < current_active) /\ k' = 0 /\ UNCHANGED sem
            /\ round' = [round EXCEPT ![Server] = @ + 1]
            /\ pc' = [pc EXCEPT ![Server] = IF Now = M THEN "end" ELSE "top"]
  BY DEF S!Finish, S!Wait, S!Go, Srv, Now
<1>2. /\ k \in Nat /\ current_active \in Nat /\ k <= current_active
      /\ current_active = Cardinality(Members)
      /\ \A u \in S!Semaphores : sem[u] \in Nat
      /\ Cardinality(Told) \in Nat /\ Cardinality(Ended) \in Nat
      /\ Now \in 1..M /\ M \in Nat
  <2>1. Members \subseteq Players /\ Told \subseteq Players /\ Ended \subseteq Players
    BY DEF Told, Ended, Members
  <2>. QED
    BY <1>1, <2>1, Finite, CardTableAssumption DEF SInv, STypeInv, NumberInv
<1>3. /\ sem["results_ready"] + Cardinality(Told) = current_active
      /\ sem["players_done"] + k = Cardinality(Ended)
      /\ sem["round_start"] = 0 /\ sem["cards_ready"] = 0
  BY <1>1 DEF SInv, TokenInv
<1>4. CASE k < current_active
  <2>1. /\ UNCHANGED <<pc, round, deck, active, active_players, current_active>> /\ k' = k + 1
        /\ sem["players_done"] > 0 /\ sem' = [sem EXCEPT !["players_done"] = @ - 1]
    BY <1>1, <1>4
  <2>2. UNCHANGED <<Srv, Now, Members, Started, Ready, Ended, Told, Counted, Playing, SScored>>
    BY <2>1, ServerStays
  <2>3. /\ sem' \in [S!Semaphores -> Nat] /\ sem'["players_done"] = sem["players_done"] - 1
        /\ \A u \in S!Semaphores : u # "players_done" => sem'[u] = sem[u]
    BY <2>1, Waited DEF S!Semaphores
  <2>4. TokenInv'
    BY <1>1, <1>2, <1>3, <2>1, <2>2, <2>3 DEF TokenInv, S!Semaphores
  <2>5. STypeInv'
    BY <1>2, <2>1, <2>2, <2>3 DEF SInv, STypeInv
  <2>6. SFollowsInv'
    BY <2>1, <2>2 DEF SInv, SFollowsInv, SFollows
  <2>7. NumberInv'
    BY <1>1, <1>2, <1>4, <2>1, <2>2 DEF SInv, NumberInv
  <2>. QED
    BY <2>1, <2>2, <2>4, <2>5, <2>6, <2>7, ServerFrame DEF SInv
<1>5. CASE ~(k < current_active)
  <2>1. /\ k = current_active /\ k' = 0
        /\ round' = [round EXCEPT ![Server] = @ + 1]
        /\ pc' = [pc EXCEPT ![Server] = IF Now = M THEN "end" ELSE "top"]
        /\ UNCHANGED <<deck, active, sem, active_players, current_active>>
    BY <1>1, <1>2, <1>5
  <2>2. Server \in Procs /\ \A q \in Players : q \in Procs /\ q # Server
    BY CardTableAssumption DEF Procs
  <2>3. /\ Srv' = (IF Now = M THEN "end" ELSE "top") /\ Now' = Now + 1
        /\ \A q \in Players : pc'[q] = pc[q] /\ round'[q] = round[q]
        /\ pc' \in [Procs -> S!PlayerPlaces \union S!ServerPlaces]
        /\ round' \in [Procs -> Nat]
    <3>1. round \in [Procs -> Nat] /\ round[Server] + 1 \in Nat
      BY <2>2 DEF SInv, STypeInv
    <3>2. pc \in [Procs -> S!PlayerPlaces \union S!ServerPlaces]
      BY DEF SInv, STypeInv
    <3>. QED
      BY <2>1, <2>2, <3>1, <3>2 DEF Srv, Now, S!ServerPlaces
  <2>4. Ended = Members /\ Told = Members
    <3>1. Ended \subseteq Members /\ Told \subseteq Members /\ Ended \subseteq Told
      BY DEF Ended, Told
    <3>2. Cardinality(Ended) >= Cardinality(Members)
      BY <1>2, <1>3, <2>1 DEF S!Semaphores
    <3>3. Ended = Members
      BY <3>1, <3>2, AllMembers
    <3>. QED
      BY <3>1, <3>3
  <2>5. \A u \in S!Semaphores : sem[u] = 0
    <3>1. Cardinality(Ended) = current_active /\ Cardinality(Told) = current_active
      BY <1>2, <2>4
    <3>2. sem["players_done"] = 0 /\ sem["results_ready"] = 0
      BY <1>2, <1>3, <2>1, <3>1 DEF S!Semaphores
    <3>. QED
      BY <1>3, <3>2 DEF S!Semaphores
  <2>6. \A q \in Members' : /\ q \in Players /\ pc'[q] = "wait_start"
                            /\ active'[q] = PLAYING /\ round'[q] = Now'
    <3>. SUFFICES ASSUME NEW q \in Members'
                  PROVE  /\ q \in Players /\ pc[q] = "wait_start"
                         /\ active[q] = PLAYING /\ round[q] = Now + 1
      BY <2>1, <2>3 DEF Members
    <3>1. q \in Players /\ (pc[q] = "left" => round[q] >= Now + 1)
      BY <2>3 DEF Members
    <3>2. q \in Members
      <4>1. round[q] \in Nat /\ Now \in Nat
        BY <1>2, <3>1 DEF SInv, STypeInv
      <4>. QED
        BY <3>1, <4>1 DEF Members
    <3>3. SFollows(q) /\ (pc[q] = "left" \/ (pc[q] = "wait_start" /\ round[q] = Now + 1))
      BY <2>4, <3>2, PlayersOfRound DEF Ended
    <3>4. pc[q] # "left"
      BY <1>1, <1>2, <3>1, <3>3 DEF SFollows
    <3>. QED
      BY <1>1, <1>2, <3>1, <3>3, <3>4 DEF SFollows
  <2>7. Now = M => Members' = {}
    <3>. SUFFICES ASSUME Now = M, NEW q \in Members' PROVE FALSE
      OBVIOUS
    <3>1. q \in Players /\ round[q] = M + 1
      BY <2>3, <2>6
    <3>. QED
      BY <1>2, <3>1 DEF SInv, STypeInv
  <2>8. STypeInv'
    <3>1. \A q \in Players : pc'[q] \in S!PlayerPlaces /\ round'[q] \in 1..M
      BY <2>3 DEF SInv, STypeInv
    <3>2. Now' \in 1..(M + 1) /\ (Srv' # "end" => Now' <= M)
      BY <1>2, <2>3
    <3>3. Srv' \in S!ServerPlaces
      BY <2>3 DEF S!ServerPlaces
    <3>. QED
      BY <2>1, <2>3, <3>1, <3>2, <3>3 DEF SInv, STypeInv
  <2>9. SDeckInv' /\ UNCHANGED <<Playing, Laid, SDecided, Counted>>
    BY <2>1, <2>3 DEF SInv, SDeckInv, Playing, Laid, SDecided, Counted
  <2>10. SFollowsInv'
    <3>1. \A q \in Members' : SFollows(q)'
      BY <2>3, <2>6, <2>7 DEF SFollows
    <3>2. \A q \in Players : pc'[q] = "left" => active'[q] = RESIGNED \/ round'[q] = M
      BY <2>1, <2>3 DEF SInv, SFollowsInv
    <3>. QED
      BY <3>1, <3>2 DEF SFollowsInv
  <2>11. TokenInv'
    BY <2>1, <2>3, <2>5 DEF TokenInv
  <2>12. NumberInv'
    BY <2>1, <2>3, <2>9 DEF SInv, NumberInv
  <2>13. UNCHANGED SScored
    BY <1>1, <1>2, <2>3 DEF SScored, Srv, Now
  <2>. QED
    BY <2>8, <2>9, <2>10, <2>11, <2>12, <2>13 DEF SInv
<1>. QED
  BY <1>4, <1>5

-----------------------------------------------------------------------------
(* The game on four semaphores. *)

\* main of sop-cards-semaphores: no tokens, all players active.
LEMMA SemaphoresInit ==
    ASSUME S!Init
    PROVE  SInv /\ SRounds!Init
<1>1. /\ pc = [q \in Procs |-> IF q = Server THEN "top" ELSE "wait_start"]
      /\ sem = [u \in S!Semaphores |-> 0]
      /\ active_players = Cardinality(Players) /\ current_active = 0 /\ k = 0
      /\ round = [q \in Procs |-> 1]
      /\ deck = [p \in Players |-> 1..M]
      /\ active = [p \in Players |-> PLAYING]
  BY SameNumber DEF S!Init, S!TableInit, S!Procs, Procs, S!PLAYING, PLAYING
<1>2. Server \in Procs /\ \A p \in Players : p \in Procs /\ p # Server
  BY CardTableAssumption DEF Procs
<1>3. /\ Srv = "top" /\ Now = 1 /\ M \in Nat \ {0}
      /\ \A p \in Players : pc[p] = "wait_start" /\ round[p] = 1 /\ active[p] = PLAYING
  BY <1>1, <1>2, CardTableAssumption DEF Srv, Now
<1>4. Members = Players /\ Playing = Players /\ Counted = Players
  BY <1>3 DEF Members, Playing, Counted
<1>5. STypeInv
  <2>1. pc \in [Procs -> S!PlayerPlaces \union S!ServerPlaces]
    BY <1>1 DEF S!PlayerPlaces, S!ServerPlaces
  <2>2. active_players \in Int /\ current_active \in Int /\ k \in Nat
    BY <1>1, Finite
  <2>3. sem \in [S!Semaphores -> Nat]
    BY <1>1
  <2>4. round \in [Procs -> Nat] /\ \A p \in Players : round[p] \in 1..M
    BY <1>1, <1>3
  <2>5. active \in [Players -> {PLAYING, RESIGNED}] /\ deck \in [Players -> SUBSET (1..M)]
    BY <1>1
  <2>. QED
    BY <1>3, <2>1, <2>2, <2>3, <2>4, <2>5 DEF STypeInv, S!PlayerPlaces, S!ServerPlaces
<1>6. Cardinality(1..M) = M
  BY <1>3, FS_Interval
<1>7. SDeckInv
  BY <1>1, <1>3, <1>6 DEF SDeckInv
<1>8. SFollowsInv /\ TokenInv
  BY <1>1, <1>3, <1>4 DEF SFollowsInv, SFollows, TokenInv
<1>9. NumberInv
  BY <1>1, <1>3, <1>4 DEF NumberInv
<1>10. SRounds!Init
  <2>1. Laid = [p \in Players |-> 0]
    BY <1>1, <1>3, <1>6 DEF Laid
  <2>2. SDecided = [p \in Players |-> 0] /\ SScored = 0
    BY <1>3 DEF SDecided, SScored, Srv, Now
  <2>. QED
    BY <1>4, <2>1, <2>2 DEF SRounds!Init
<1>. QED
  BY <1>5, <1>7, <1>8, <1>9, <1>10 DEF SInv

\* A behaviour that runs this version: it keeps the invariant, and its steps are steps of
\* the rounds or none that they see.
LEMMA SemaphoresProgramInit == Init => (program = "semaphores" => SInv /\ SRounds!Init)
BY SemaphoresInit DEF Init

\* Each of its steps keeps the invariant, and is a step of the rounds or none that they see.
LEMMA SemaphoresProgramStep ==
    ASSUME program = "semaphores" => SInv, [Next]_vars
    PROVE  /\ (program = "semaphores" => SInv)'
           /\ program = "semaphores" => [SRounds!Next]_(SRounds!vars)
<1>1. program' = program
  BY DEF Next, Barriers, Semaphores, Board, LetterCount, MonteCarlo, vars
<1>2. CASE program # "semaphores"
  BY <1>1, <1>2
<1>3. CASE program = "semaphores"
  <2>1. SInv
    BY <1>3
  <2>2. S!Next \/ UNCHANGED vars
    BY <1>3 DEF Next, Barriers, Semaphores, Board, LetterCount, MonteCarlo
  <2>3. ASSUME UNCHANGED <<pc, tableVars, sem, active_players, current_active, k>>
        PROVE  SInv' /\ UNCHANGED SRounds!vars
    <3>1. UNCHANGED <<pc, round, deck, active, sem, active_players, current_active, k>>
      BY <2>3 DEF tableVars
    <3>2. UNCHANGED <<Srv, Now, Members, Started, Ready, Ended, Told, Counted, Playing, SScored>>
      BY <3>1, ServerStays
    <3>3. SInv'
      BY <2>1, <3>1, <3>2 DEF SInv, STypeInv, SDeckInv, SFollowsInv, SFollows, TokenInv, NumberInv
    <3>. QED
      BY <3>1, <3>2, <3>3 DEF SRounds!vars, Laid, SDecided
  <2>4. UNCHANGED vars => UNCHANGED <<pc, tableVars, sem, active_players, current_active, k>>
    BY DEF vars, semaphoresOwn
  <2>5. S!Stop => UNCHANGED <<pc, tableVars, sem, active_players, current_active, k>>
    BY DEF S!Stop, S!svars, S!tableVars, tableVars
  <2>6. ASSUME S!Serve
        PROVE  SInv' /\ [SRounds!Next]_(SRounds!vars)
    BY <2>1, <2>6, TopStep, SScoreStep, FinishStep, RepeatStep
       DEF S!Serve, SRounds!Next, SRounds!vars
  <2>7. ASSUME NEW p \in Players, S!Await(p) \/ S!Run(p)
        PROVE  SInv' /\ [SRounds!Next]_(SRounds!vars)
    BY <2>1, <2>7, AwaitStartStep, AwaitResultsStep, LayStep, SDecideStep, LeaveStep, DoneStep
       DEF S!Await, S!Run, SRounds!Next, SRounds!vars
  <2>8. SInv' /\ [SRounds!Next]_(SRounds!vars)
    BY <2>2, <2>3, <2>4, <2>5, <2>6, <2>7 DEF S!Next
  <2>. QED
    BY <1>1, <1>3, <2>8
<1>. QED
  BY <1>2, <1>3

\* The card game on four semaphores keeps the same rounds, though no semaphore says for which
\* round or for whom a token was put.
THEOREM RoundsKeptBySemaphores == FairSpec => SemaphoresKeepRounds
<1>. DEFINE K == program = "semaphores" => SInv
            I == program = "semaphores" => SRounds!Init
            A == program = "semaphores" => [SRounds!Next]_(SRounds!vars)
<1>1. Init => K /\ I
  BY SemaphoresProgramInit
<1>2. K /\ [Next]_vars => K' /\ A
  BY SemaphoresProgramStep
<1>3. FairSpec => I /\ [][A]_vars
  <2>. HIDE DEF K, I, A
  <2>. QED
    BY <1>1, <1>2, PTL DEF FairSpec
<1>. QED
  BY <1>3, PTL DEF SemaphoresKeepRounds

-----------------------------------------------------------------------------
(* The points of all players. *)

\* A set of natural numbers has a least element.
LEMMA Least ==
    ASSUME NEW X \in SUBSET Nat, X # {}
    PROVE  \E m \in X : \A n \in X : m <= n
<1>1. IsWellFoundedOn(OpToRel(<, Nat), Nat)
  BY NatLessThanWellFounded, Zenon
<1>2. PICK m \in X : \A n \in X : <<n, m>> \notin OpToRel(<, Nat)
  BY <1>1, WFMin, Zenon
<1>3. \A n \in X : ~(n < m)
  BY <1>2 DEF OpToRel
<1> QED
  BY <1>3

\* Of sets of parts of a finite set, one is such that none of it with an element less is there.
LEMMA Smallest ==
    ASSUME NEW E, IsFiniteSet(E), NEW X \in SUBSET SUBSET E, X # {}
    PROVE  \E s \in X : \A x \in s : s \ {x} \notin X
<1> DEFINE sizes == {Cardinality(s) : s \in X}
<1>1. \A s \in X : IsFiniteSet(s) /\ Cardinality(s) \in Nat
  BY FS_Subset, FS_CardinalityType
<1>2. sizes \in SUBSET Nat /\ sizes # {}
  BY <1>1
<1>3. PICK m \in sizes : \A n \in sizes : m <= n
  <2> HIDE DEF sizes
  <2> QED
    BY <1>2, Least
<1>4. PICK s \in X : m = Cardinality(s)
  BY <1>3
<1>5. ASSUME NEW x \in s, s \ {x} \in X PROVE FALSE
  <2>1. Cardinality(s \ {x}) = m - 1
    BY <1>1, <1>4, FS_RemoveElement
  <2>2. Cardinality(s \ {x}) \in sizes
    BY <1>5
  <2>3. m \in Nat /\ m <= Cardinality(s \ {x})
    BY <1>1, <1>3, <1>4, <2>2
  <2> HIDE DEF sizes
  <2> QED
    BY <2>1, <2>3
<1> QED
  BY <1>4, <1>5

\* What is given by recursion over the subsets of E: the sums of f.
chosen(s)     == CHOOSE x \in s : TRUE
Part(g, f, s) == IF s = {} THEN 0 ELSE f[chosen(s)] + g[s \ {chosen(s)}]
Sums(g, f, E) == g = [s \in SUBSET E |-> Part(g, f, s)]
SumsOfSmall(g, f, E, n) == \A s \in SUBSET E : Cardinality(s) < n => g[s] = Part(g, f, s)

\* What is chosen from a set is in it.
LEMMA Chosen ==
    ASSUME NEW s, s # {}
    PROVE  chosen(s) \in s
  BY DEF chosen

\* Sums of the sets of less than n elements give those of the sets of n.
LEMMA SumsUpTo ==
    ASSUME NEW E, IsFiniteSet(E), NEW f, \A x \in E : f[x] \in Int,
           NEW n \in Nat, NEW g \in [SUBSET E -> Int], SumsOfSmall(g, f, E, n)
    PROVE  \E h \in [SUBSET E -> Int] : SumsOfSmall(h, f, E, n + 1)
<1> DEFINE h == [s \in SUBSET E |-> Part(g, f, s)]
<1>1. \A s \in SUBSET E : IsFiniteSet(s) /\ Cardinality(s) \in Nat
  BY FS_Subset, FS_CardinalityType
<1>2. \A s \in SUBSET E : s # {} => /\ chosen(s) \in s
                                    /\ s \ {chosen(s)} \in SUBSET E
                                    /\ Cardinality(s \ {chosen(s)}) = Cardinality(s) - 1
  BY <1>1, FS_RemoveElement, Chosen
<1>3. h \in [SUBSET E -> Int]
  <2> SUFFICES ASSUME NEW s \in SUBSET E PROVE Part(g, f, s) \in Int
    OBVIOUS
  <2>1. CASE s = {}
    BY <2>1 DEF Part
  <2>2. CASE s # {}
    <3>1. f[chosen(s)] \in Int /\ g[s \ {chosen(s)}] \in Int
      BY <2>2, <1>2
    <3> QED
      BY <3>1, <2>2 DEF Part
  <2> QED
    BY <2>1, <2>2
<1>4. ASSUME NEW s \in SUBSET E, Cardinality(s) < n + 1
      PROVE  h[s] = Part(h, f, s)
  <2>1. CASE s = {}
    BY <2>1 DEF Part
  <2>2. CASE s # {}
    <3> DEFINE t == s \ {chosen(s)}
    <3>1. t \in SUBSET E /\ Cardinality(t) < n
      BY <2>2, <1>1, <1>2, <1>4
    <3>2. g[t] = h[t]
      BY <3>1 DEF SumsOfSmall
    <3>3. Part(g, f, s) = Part(h, f, s)
      BY <3>2, <2>2 DEF Part
    <3> QED
      BY <3>3
  <2> QED
    BY <2>1, <2>2
<1> QED
  BY <1>3, <1>4 DEF SumsOfSmall

\* So there are sums of all subsets of a finite set.
LEMMA SumsExist ==
    ASSUME NEW E, IsFiniteSet(E), NEW f, \A x \in E : f[x] \in Int
    PROVE  \E g \in [SUBSET E -> Int] : Sums(g, f, E)
<1> DEFINE Reached(n) == \E g \in [SUBSET E -> Int] : SumsOfSmall(g, f, E, n)
           Missed == {n \in Nat : ~Reached(n)}
<1>1. \A s \in SUBSET E : IsFiniteSet(s) /\ Cardinality(s) \in Nat
  BY FS_Subset, FS_CardinalityType
<1>2. Reached(0)
  <2> DEFINE g == [s \in SUBSET E |-> 0]
  <2>1. g \in [SUBSET E -> Int]
    OBVIOUS
  <2>2. \A s \in SUBSET E : ~(Cardinality(s) < 0)
    BY <1>1
  <2> QED
    BY <2>1, <2>2 DEF SumsOfSmall
<1>3. ASSUME NEW n \in Nat, Reached(n) PROVE Reached(n + 1)
  BY <1>3, SumsUpTo
<1>4. Missed = {}
  <2> HIDE DEF Reached
  <2>1. SUFFICES ASSUME Missed # {} PROVE FALSE
    OBVIOUS
  <2>2. PICK m \in Missed : \A n \in Missed : m <= n
    BY <2>1, Least
  <2>3. m # 0 /\ m - 1 \in Nat
    BY <2>2, <1>2
  <2>4. Reached(m - 1)
    BY <2>2, <2>3
  <2> QED
    BY <2>2, <2>3, <2>4, <1>3
<1>5. Cardinality(E) + 1 \in Nat
  BY <1>1
<1>6. PICK g \in [SUBSET E -> Int] : SumsOfSmall(g, f, E, Cardinality(E) + 1)
  BY <1>4, <1>5
<1>7. \A s \in SUBSET E : Cardinality(s) < Cardinality(E) + 1
  BY <1>1, FS_Subset
<1>8. g = [s \in SUBSET E |-> Part(g, f, s)]
  BY <1>6, <1>7 DEF SumsOfSmall
<1> QED
  BY <1>6, <1>8 DEF Sums

\* The sums of f are numbers.
LEMMA SumsAreNumbers ==
    ASSUME NEW E, IsFiniteSet(E), NEW f, \A x \in E : f[x] \in Int, NEW g, Sums(g, f, E)
    PROVE  g \in [SUBSET E -> Int]
<1> DEFINE X == {s \in SUBSET E : g[s] \notin Int}
<1>1. SUFFICES ASSUME X # {} PROVE FALSE
  BY DEF Sums
<1>2. PICK s \in X : \A x \in s : s \ {x} \notin X
  BY <1>1, Smallest
<1>3. g[s] = Part(g, f, s)
  BY <1>2 DEF Sums
<1>4. s # {}
  BY <1>2, <1>3 DEF Part
<1>5. g[s \ {chosen(s)}] \in Int /\ f[chosen(s)] \in Int
  BY <1>2, <1>4, Chosen
<1> QED
  BY <1>2, <1>3, <1>4, <1>5 DEF Part

\* The total of the points is the sum over all players.
LEMMA TotalIs ==
    ASSUME NEW E, IsFiniteSet(E), NEW f, DOMAIN f = E, \A x \in E : f[x] \in Int
    PROVE  \E g \in [SUBSET E -> Int] : Sums(g, f, E) /\ Total(f) = g[E]
<1> DEFINE g == CHOOSE h : Sums(h, f, E)
<1>1. \E h : Sums(h, f, E)
  BY SumsExist
<1>2. Sums(g, f, E)
  BY <1>1
<1>3. Total(f) = g[E]
  BY DEF Total, FoldFunction, FoldFunctionOnSet, MapThenFoldSet, Sums, Part, chosen
<1> HIDE DEF g
<1> QED
  BY <1>2, <1>3, SumsAreNumbers

\* When each of W gets s points, the total grows by s for each of them.
LEMMA TotalPaid ==
    ASSUME NEW E, IsFiniteSet(E), NEW f, DOMAIN f = E, \A x \in E : f[x] \in Int,
           NEW e, DOMAIN e = E, NEW W \in SUBSET E, NEW s \in Int,
           \A x \in E : e[x] = IF x \in W THEN f[x] + s ELSE f[x]
    PROVE  Total(e) - Total(f) = s * Cardinality(W)
<1>0. \A x \in E : e[x] \in Int
  OBVIOUS
<1>1. PICK g \in [SUBSET E -> Int] : Sums(g, f, E) /\ Total(f) = g[E]
  BY TotalIs
<1>2. PICK h \in [SUBSET E -> Int] : Sums(h, e, E) /\ Total(e) = h[E]
  BY <1>0, TotalIs
<1> DEFINE n(t) == Cardinality(t \cap W)
           X == {t \in SUBSET E : h[t] # g[t] + s * n(t)}
<1>3. \A t \in SUBSET E : IsFiniteSet(t \cap W) /\ n(t) \in Nat
  BY FS_Subset, FS_CardinalityType
<1>i. \A a, b \in Int : a * b \in Int
  OBVIOUS
<1>4. X = {}
  <2>1. SUFFICES ASSUME X # {} PROVE FALSE
    OBVIOUS
  <2>2. PICK t \in X : \A x \in t : t \ {x} \notin X
    <3>1. X \in SUBSET SUBSET E
      OBVIOUS
    <3> HIDE DEF X
    <3> QED
      BY <2>1, <3>1, Smallest
  <2>3. g[t] = Part(g, f, t) /\ h[t] = Part(h, e, t)
    BY <1>1, <1>2, <2>2 DEF Sums
  <2>4. t # {}
    <3>1. SUFFICES ASSUME t = {} PROVE FALSE
      OBVIOUS
    <3>2. n(t) = 0
      BY <3>1, FS_EmptySet
    <3>3. g[t] = 0 /\ h[t] = 0
      BY <2>3, <3>1 DEF Part
    <3> QED
      BY <2>2, <3>2, <3>3
  <2> DEFINE c == chosen(t)
             u == t \ {c}
  <2>5. c \in t /\ c \in E
    BY <2>4, <2>2, Chosen
  <2> HIDE DEF c
  <2>6. u \in SUBSET E /\ h[u] = g[u] + s * n(u)
    BY <2>5, <2>2
  <2>7. g[t] = f[c] + g[u] /\ h[t] = e[c] + h[u]
    BY <2>3, <2>4 DEF Part, c
  <2>8. f[c] \in Int /\ g[u] \in Int /\ n(u) \in Nat /\ s * n(u) \in Int
    <3>1. f[c] \in Int /\ g[u] \in Int /\ n(u) \in Nat
      BY <2>5, <2>6, <1>3
    <3> HIDE DEF u, n
    <3> QED
      BY <3>1, <1>i
  <2>9. CASE c \in W
    <3>1. n(t) = n(u) + 1
      <4>1. t \cap W = (u \cap W) \union {c} /\ c \notin u \cap W
        BY <2>5, <2>9
      <4> QED
        BY <4>1, <1>3, <2>6, FS_AddElement
    <3>2. s * n(t) = s * n(u) + s
      BY <3>1, <2>8
    <3>3. e[c] = f[c] + s
      BY <2>5, <2>9
    <3>4. h[t] = g[t] + s * n(t)
      <4> HIDE DEF u, n
      <4> QED
        BY <2>6, <2>7, <2>8, <3>2, <3>3
    <3> QED
      BY <3>4, <2>2
  <2>10. CASE c \notin W
    <3>1. t \cap W = u \cap W
      BY <2>10
    <3>2. e[c] = f[c]
      BY <2>5, <2>10
    <3>3. n(t) = n(u)
      BY <3>1
    <3>4. h[t] = g[t] + s * n(t)
      <4> HIDE DEF u, n
      <4> QED
        BY <2>6, <2>7, <2>8, <3>2, <3>3
    <3> QED
      BY <3>4, <2>2
  <2> QED
    BY <2>9, <2>10
<1>5. h[E] = g[E] + s * n(E) /\ n(E) = Cardinality(W) /\ s * n(E) \in Int
  <2>1. E \cap W = W
    OBVIOUS
  <2>2. h[E] = g[E] + s * n(E)
    BY <1>4
  <2>3. n(E) \in Nat /\ n(E) = Cardinality(W)
    BY <2>1, <1>3
  <2> HIDE DEF n
  <2> QED
    BY <2>2, <2>3, <1>i
<1>6. g[E] \in Int
  OBVIOUS
<1> HIDE DEF n
<1> QED
  BY <1>1, <1>2, <1>5, <1>6

\* A whole part of a, b times, is not more than a.
LEMMA WholeParts ==
    ASSUME NEW a \in Nat, NEW b \in Nat \ {0}
    PROVE  a \div b \in Nat /\ (a \div b) * b <= a
OBVIOUS

-----------------------------------------------------------------------------
(* The semaphores pay those present. *)

\* A step that pays nothing pays nobody who is not there.
LEMMA NothingPaid ==
    ASSUME score \in [Players -> Nat], score' = score
    PROVE  PaysPresent
<1>1. IsFiniteSet(Players) /\ DOMAIN score = Players /\ \A p \in Players : score[p] \in Int
  BY CardTableAssumption
<1>2. PICK g \in [SUBSET Players -> Int] : Total(score) = g[Players]
  BY <1>1, TotalIs
<1>3. Total(score) - Total(score) = 0
  <2>1. g[Players] \in Int
    OBVIOUS
  <2> QED
    BY <1>2, <2>1
<1>4. Total(score') = Total(score)
  BY Zenon
<1>5. Cardinality(Playing) \in Nat
  BY Finite DEF Playing
<1> QED
  BY <1>3, <1>4, <1>5 DEF PaysPresent

\* The server counts those who play, and shares out one point for each among the winners.
LEMMA SharedOut ==
    ASSUME SInv, S!ScoreRound, score \in [Players -> Nat]
    PROVE  PaysPresent /\ score' \in [Players -> Nat]
<1> DEFINE W == {p \in S!Playing : card[p] = S!WinningCard}
           s == current_active \div S!WinningCount
<1>1. Srv = "score" /\ S!Pay(W, s)
  BY DEF S!ScoreRound, Srv
<1>2. S!Playing = Playing
  BY DEF S!Playing, Playing, S!PLAYING, PLAYING
<1>3. W \in SUBSET Players /\ \A p \in W : active[p] = PLAYING
  BY <1>2 DEF Playing
<1>4. S!WinningCount = Cardinality(W)
  BY SameNumber DEF S!WinningCount
<1> HIDE DEF W
<1>5. score' = [p \in Players |-> IF p \in W THEN score[p] + s ELSE score[p]]
  BY <1>1 DEF S!Pay
<1>6. Members = Playing
  <2>1. \A p \in Members : p \in Players /\ active[p] = PLAYING
    BY <1>1, PlayersOfRound DEF SFollows
  <2>2. Playing \subseteq Members
    BY <1>1, PlayersOfRound
  <2> QED
    BY <2>1, <2>2 DEF Playing
<1>7. current_active = Cardinality(Playing) /\ current_active \in Nat
  BY <1>1, <1>6, Finite DEF SInv, NumberInv, Playing
<1>8. CASE W = {}
  <2>1. score' = score
    BY <1>5, <1>8
  <2> QED
    BY <2>1, NothingPaid
<1>9. CASE W # {}
  <2>1. Cardinality(W) \in Nat \ {0}
    BY <1>3, <1>9, Finite, FS_EmptySet
  <2>2. s \in Nat /\ s * Cardinality(W) <= Cardinality(Playing)
    BY <1>4, <1>7, <2>1, WholeParts
  <2> HIDE DEF s
  <2>3. score' \in [Players -> Nat]
    BY <1>5, <2>2
  <2>4. Total(score') - Total(score) = s * Cardinality(W)
    <3>1. ASSUME NEW f \in [Players -> Nat], NEW e \in [Players -> Nat],
                 \A x \in Players : e[x] = IF x \in W THEN f[x] + s ELSE f[x]
          PROVE  Total(e) - Total(f) = s * Cardinality(W)
      <4>1. IsFiniteSet(Players) /\ s \in Int /\ DOMAIN f = Players /\ DOMAIN e = Players
        BY <2>2, CardTableAssumption
      <4>2. \A x \in Players : f[x] \in Int
        OBVIOUS
      <4> QED
        BY <1>3, <3>1, <4>1, <4>2, TotalPaid
    <3>2. \A x \in Players : score'[x] = IF x \in W THEN score[x] + s ELSE score[x]
      BY <1>5
    <3> QED
      BY <2>3, <3>1, <3>2
  <2>5. \A p \in Players : score'[p] # score[p] => active[p] = PLAYING
    BY <1>3, <1>5
  <2> QED
    BY <2>2, <2>3, <2>4, <2>5 DEF PaysPresent
<1> QED
  BY <1>8, <1>9

\* On the semaphores, points go to players that are present, and no more of them in a round
\* than there are players present: the server's current_active, which it read before the
\* round, still counts those who play when the round is scored.
THEOREM PaidOnSemaphores == FairSpec => SemaphoresPayThePresent
<1> DEFINE K == program = "semaphores" => SInv /\ score \in [Players -> Nat]
           A == program = "semaphores" => PaysPresent
<1>1. Init => K
  <2>1. S!Init => score = [p \in Players |-> 0]
    BY DEF S!Init, S!TableInit
  <2> QED
    BY <2>1, SemaphoresProgramInit DEF Init
<1>2. ASSUME K, [Next]_vars
      PROVE  K' /\ A
  <2>1. program' = program /\ (program = "semaphores" => SInv')
    BY <1>2, SemaphoresProgramStep DEF Next, Barriers, Semaphores, Board, LetterCount, MonteCarlo, vars
  <2>2. CASE program # "semaphores"
    BY <2>1, <2>2
  <2>3. CASE program = "semaphores"
    <3>1. S!ScoreRound \/ score' = score
      <4>1. S!Next \/ UNCHANGED vars
        BY <1>2, <2>3 DEF Next, Barriers, Semaphores, Board, LetterCount, MonteCarlo
      <4>2. UNCHANGED vars => score' = score
        BY DEF vars, tableVars
      <4>3. S!Next => S!ScoreRound \/ score' = score
        BY DEF S!Next, S!Stop, S!svars, S!Serve, S!Top, S!Finish, S!Repeat, S!Await, S!Run,
               S!AwaitStart, S!AwaitResults, S!Lay, S!Decide, S!Leave, S!Done, S!tableVars
      <4> QED
        BY <4>1, <4>2, <4>3
    <3>2. PaysPresent /\ score' \in [Players -> Nat]
      BY <1>2, <2>3, <3>1, SharedOut, NothingPaid
    <3> QED
      BY <2>1, <2>3, <3>2
  <2> QED
    BY <2>2, <2>3
<1>3. FairSpec => [][A]_vars
  <2> HIDE DEF K, A
  <2> QED
    BY <1>1, <1>2, PTL DEF FairSpec
<1> QED
  BY <1>3, PTL DEF SemaphoresPayThePresent
-----------------------------------------------------------------------------
(* Parts of a whole. *)

\* The sum of the sizes of disjoint finite sets is the size of their union.
LEMMA TotalOfParts ==
    ASSUME NEW E, IsFiniteSet(E), NEW a, \A x \in E : IsFiniteSet(a[x]),
           \A x, y \in E : x # y => a[x] \cap a[y] = {},
           NEW f, DOMAIN f = E, \A x \in E : f[x] = Cardinality(a[x])
    PROVE  Total(f) = Cardinality(UNION {a[x] : x \in E})
<1>0. \A x \in E : f[x] \in Int
  BY FS_CardinalityType
<1>1. PICK g \in [SUBSET E -> Int] : Sums(g, f, E) /\ Total(f) = g[E]
  BY <1>0, TotalIs
<1> DEFINE U(t) == UNION {a[x] : x \in t}
           X == {t \in SUBSET E : ~(IsFiniteSet(U(t)) /\ g[t] = Cardinality(U(t)))}
<1>2. X = {}
  <2>1. SUFFICES ASSUME X # {} PROVE FALSE
    OBVIOUS
  <2>2. PICK t \in X : \A x \in t : t \ {x} \notin X
    <3>1. X \in SUBSET SUBSET E
      OBVIOUS
    <3> HIDE DEF X
    <3> QED
      BY <2>1, <3>1, Smallest
  <2>3. g[t] = Part(g, f, t)
    BY <1>1, <2>2 DEF Sums
  <2>4. t # {}
    <3>1. SUFFICES ASSUME t = {} PROVE FALSE
      OBVIOUS
    <3>2. U(t) = {}
      BY <3>1
    <3>3. g[t] = 0
      BY <2>3, <3>1 DEF Part
    <3> QED
      BY <2>2, <3>2, <3>3, FS_EmptySet
  <2> DEFINE c == chosen(t)
             u == t \ {c}
  <2>5. c \in t /\ c \in E
    BY <2>4, <2>2, Chosen
  <2>6. g[t] = f[c] + g[u]
    BY <2>3, <2>4 DEF Part
  <2> HIDE DEF c
  <2>7. IsFiniteSet(U(u)) /\ g[u] = Cardinality(U(u))
    BY <2>5, <2>2
  <2>8. U(t) = a[c] \cup U(u)
    BY <2>5
  <2>9. a[c] \cap U(u) = {}
    BY <2>5, <2>2
  <2>10. IsFiniteSet(a[c]) /\ f[c] = Cardinality(a[c])
    BY <2>5
  <2> HIDE DEF U, u
  <2>11. IsFiniteSet(U(t)) /\ Cardinality(U(t)) = Cardinality(a[c]) + Cardinality(U(u)) - Cardinality({})
    <3>1. IsFiniteSet(a[c] \cup U(u)) /\ Cardinality(a[c] \cup U(u))
            = Cardinality(a[c]) + Cardinality(U(u)) - Cardinality(a[c] \cap U(u))
      <4>1. ASSUME NEW V, IsFiniteSet(V), NEW W, IsFiniteSet(W)
            PROVE  IsFiniteSet(V \cup W) /\ Cardinality(V \cup W) = Cardinality(V) + Cardinality(W) - Cardinality(V \cap W)
        BY <4>1, FS_Union
      <4> QED
        BY <2>7, <2>10, <4>1
    <3> QED
      BY <2>8, <2>9, <3>1
  <2>12. Cardinality({}) = 0 /\ Cardinality(a[c]) \in Nat /\ Cardinality(U(u)) \in Nat
    BY <2>7, <2>10, FS_EmptySet, FS_CardinalityType
  <2>13. g[t] = Cardinality(U(t))
    BY <2>6, <2>7, <2>10, <2>11, <2>12
  <2> QED
    BY <2>2, <2>11, <2>13
<1>3. g[E] = Cardinality(U(E))
  BY <1>2
<1> QED
  BY <1>1, <1>3

\* A product grows with a factor.
LEMMA Products ==
    ASSUME NEW a \in Nat, NEW b \in Nat, NEW c \in Nat, b <= c
    PROVE  a * b \in Nat /\ a * b <= a * c
<1>1. c - b \in Nat /\ c = b + (c - b)
  OBVIOUS
<1>2. \A x, y \in Nat : x * y \in Nat
  OBVIOUS
<1>3. \A x, y, z \in Nat : x * (y + z) = x * y + x * z
  OBVIOUS
<1>4. a * c = a * b + a * (c - b) /\ a * b \in Nat /\ a * (c - b) \in Nat
  BY <1>1, <1>2, <1>3
<1> QED
  BY <1>4

\* The parts of the children cover the file, and no two of them overlap.
LEMMA PartsOfFile ==
    ASSUME NEW size \in Nat, NEW m \in Nat \ {0}, NEW start, NEW end,
           \A i \in 0..(m - 1) : /\ start[i] = (size \div m) * i
                                 /\ end[i] = IF i = m - 1 THEN size ELSE (size \div m) * (i + 1)
    PROVE  /\ \A i \in 0..(m - 1) : start[i] \in Nat /\ end[i] \in Nat /\ end[i] <= size
           /\ \A i, j \in 0..(m - 1) : i < j => end[i] <= start[j]
           /\ \A x \in 0..(size - 1) : \E i \in 0..(m - 1) : start[i] <= x /\ x < end[i]
<1> DEFINE q == size \div m
<1>1. q \in Nat /\ q * m <= size
  BY WholeParts
<1> HIDE DEF q
<1>2. \A i \in 0..(m - 1) : start[i] = q * i /\ end[i] = IF i = m - 1 THEN size ELSE q * (i + 1)
  BY DEF q
<1>3. ASSUME NEW i \in 0..(m - 1)
      PROVE  start[i] \in Nat /\ end[i] \in Nat /\ end[i] <= size
  <2>1. q * i \in Nat
    BY <1>1, Products
  <2>2. CASE i = m - 1
    BY <1>2, <2>1, <2>2
  <2>3. CASE i # m - 1
    <3>1. i + 1 \in Nat /\ i + 1 <= m /\ m \in Nat
      BY <2>3
    <3>2. q * (i + 1) \in Nat /\ q * (i + 1) <= q * m
      BY <1>1, <3>1, Products
    <3>3. q * m \in Nat
      BY <1>1, Products
    <3>4. end[i] = q * (i + 1) /\ start[i] = q * i
      BY <1>2, <2>3
    <3>5. \A x, y, z \in Nat : x <= y /\ y <= z => x <= z
      OBVIOUS
    <3>6. q * (i + 1) <= size
      BY <1>1, <3>2, <3>3, <3>5, Zenon
    <3> QED
      BY <2>1, <3>2, <3>4, <3>6, Zenon
  <2> QED
    BY <2>2, <2>3
<1>4. ASSUME NEW i \in 0..(m - 1), NEW j \in 0..(m - 1), i < j
      PROVE  end[i] <= start[j]
  <2>1. i # m - 1 /\ i + 1 \in Nat /\ j \in Nat /\ i + 1 <= j
    BY <1>4
  <2>2. q * (i + 1) <= q * j
    BY <1>1, <2>1, Products
  <2> QED
    BY <1>2, <2>1, <2>2
<1>5. ASSUME NEW x \in 0..(size - 1)
      PROVE  \E i \in 0..(m - 1) : start[i] <= x /\ x < end[i]
  <2> DEFINE Y == {i \in 0..(m - 1) : x < end[i]}
  <2>1. m - 1 \in Y
    BY <1>2
  <2>2. PICK i \in Y : \A j \in Y : i <= j
    <3>1. Y \in SUBSET Nat
      OBVIOUS
    <3> HIDE DEF Y
    <3> QED
      BY <2>1, <3>1, Least
  <2>3. CASE i = 0
    <3>1. q * 0 = 0
      BY <1>1
    <3>2. start[i] = 0
      BY <1>2, <2>2, <2>3, <3>1
    <3> QED
      BY <2>2, <3>2
  <2>4. CASE i # 0
    <3>1. i - 1 \in 0..(m - 1) /\ i - 1 # m - 1 /\ i - 1 \notin Y /\ (i - 1) + 1 = i
      BY <2>2, <2>4
    <3>2. end[i - 1] = q * i /\ start[i] = q * i /\ ~(x < end[i - 1])
      BY <1>2, <2>2, <3>1
    <3>3. start[i] \in Nat
      BY <1>3, <2>2
    <3> QED
      BY <2>2, <3>2, <3>3
  <2> QED
    BY <2>3, <2>4
<1> QED
  BY <1>3, <1>4, <1>5

-----------------------------------------------------------------------------
(* The children that estimate pi. *)

\* The sums of all three programs are totals.
LEMMA SameTotals ==
    ASSUME NEW f
    PROVE  P!FoldFunction(+, 0, f) = Total(f) /\ C!FoldFunction(+, 0, f) = Total(f) /\ D!Sum(f) = Total(f)
<1>1. P!FoldFunction(+, 0, f) = Total(f)
  BY DEF Total, FoldFunction, FoldFunctionOnSet, MapThenFoldSet,
         P!FoldFunction, P!FoldFunctionOnSet, P!MapThenFoldSet
<1>2. C!FoldFunction(+, 0, f) = Total(f)
  BY DEF Total, FoldFunction, FoldFunctionOnSet, MapThenFoldSet,
         C!FoldFunction, C!FoldFunctionOnSet, C!MapThenFoldSet
<1>3. D!Sum(f) = Total(f)
  BY DEF Total, FoldFunction, FoldFunctionOnSet, MapThenFoldSet,
         D!Sum, D!FoldFunction, D!FoldFunctionOnSet, D!MapThenFoldSet
<1> QED
  BY <1>1, <1>2, <1>3

\* A line of the log says what is in the memory, once its child has ended.
PiInv ==
    /\ pc \in [{P!Parent} \union P!Child -> {"fork", "wait", "unborn", "work", "log", "ended"}]
    /\ data \in [P!Child -> Int] /\ lines \in [P!Child -> Int]
    /\ \A i \in P!Child : pc[i] = "ended" => lines[i] = data[i]
    /\ pc[P!Parent] = "ended" => (\A i \in P!Child : pc[i] = "ended") /\ mean = Total(data)

\* Then the average is that of the lines.
LEMMA AverageIsRight ==
    ASSUME PiInv
    PROVE  P!AverageRight
<1>1. SUFFICES ASSUME pc[P!Parent] = "ended" PROVE mean = Total(lines)
  BY SameTotals DEF P!AverageRight
<1>2. data = lines
  BY <1>1 DEF PiInv
<1> QED
  BY <1>1, <1>2 DEF PiInv

\* No child has the number of the parent.
LEMMA ParentNoChild == P!Parent \notin P!Child
  BY SharedMemoryAssumption DEF P!Parent, P!Child

\* main: nobody has ended.
LEMMA PiInit ==
    ASSUME P!Init
    PROVE  PiInv
<1>1. \A q \in {P!Parent} \union P!Child : pc[q] = IF q = P!Parent THEN "fork" ELSE "unborn"
  BY DEF P!Init
<1> QED
  BY <1>1 DEF P!Init, PiInv

\* create_children
LEMMA PiForkStep ==
    ASSUME PiInv, P!Fork
    PROVE  PiInv'
<1> USE DEF PiInv
<1>1. UNCHANGED <<data, lines, mean>> /\ pc[P!Parent] = "fork"
  BY DEF P!Fork
<1>2. CASE pc' = [pc EXCEPT ![P!Parent] = "wait"]
  BY <1>1, <1>2, ParentNoChild
<1>3. ASSUME NEW i \in P!Child, pc' = [pc EXCEPT ![i] = "work"]
      PROVE  PiInv'
  BY <1>1, <1>3, ParentNoChild
<1> QED
  BY <1>2, <1>3 DEF P!Fork

\* child_work
LEMMA PiChildStep ==
    ASSUME PiInv, NEW i \in P!Child, P!Work(i) \/ P!Log(i)
    PROVE  PiInv'
<1> USE DEF PiInv
<1>1. pc[P!Parent] # "ended" /\ mean' = mean
  BY DEF P!Work, P!Log
<1>2. CASE P!Work(i)
  <2>1. PICK sample \in 0..Iters : data' = [data EXCEPT ![i] = sample]
    BY <1>2 DEF P!Work
  <2>2. pc' = [pc EXCEPT ![i] = "log"] /\ lines' = lines /\ sample \in Int
    BY <1>2 DEF P!Work
  <2> QED
    BY <1>1, <2>1, <2>2, ParentNoChild
<1>3. CASE P!Log(i)
  <2>1. pc' = [pc EXCEPT ![i] = "ended"] /\ lines' = [lines EXCEPT ![i] = data[i]] /\ data' = data
    BY <1>3 DEF P!Log
  <2> QED
    BY <1>1, <2>1, ParentNoChild
<1> QED
  BY <1>2, <1>3

\* parent_work
LEMMA PiAverageStep ==
    ASSUME PiInv, P!Average
    PROVE  PiInv'
<1>1. /\ pc' = [pc EXCEPT ![P!Parent] = "ended"] /\ UNCHANGED <<data, lines>>
      /\ \A i \in P!Child : pc[i] = "ended"
      /\ mean' = Total(data)
  BY SameTotals DEF P!Average
<1>2. data' = data /\ lines' = lines /\ mean' = Total(data')
  BY <1>1
<1>3. pc' \in [{P!Parent} \union P!Child -> {"fork", "wait", "unborn", "work", "log", "ended"}]
  BY <1>1 DEF PiInv
<1>4. \A i \in P!Child : pc'[i] = "ended"
  BY <1>1, ParentNoChild DEF PiInv
<1>5. data' \in [P!Child -> Int] /\ lines' \in [P!Child -> Int] /\ \A i \in P!Child : lines'[i] = data'[i]
  BY <1>1, <1>2 DEF PiInv
<1> QED
  BY <1>2, <1>3, <1>4, <1>5 DEF PiInv

\* Every step keeps the invariant.
LEMMA PiStep ==
    ASSUME PiInv, P!Next \/ UNCHANGED <<pc, data, lines, mean>>
    PROVE  PiInv'
<1>1. CASE UNCHANGED <<pc, data, lines, mean>>
  BY <1>1 DEF PiInv
<1>2. CASE P!Next
  <2>1. PICK q \in DOMAIN pc : P!Step(q)
    BY <1>2 DEF P!Next
  <2> QED
    BY <2>1, PiForkStep, PiChildStep, PiAverageStep DEF P!Step
<1> QED
  BY <1>1, <1>2

-----------------------------------------------------------------------------
(* The children that count letters. *)

Parts == 0..(parts - 1)

\* What a child has counted is in its table, and one that has aborted has noted it.
CountInv ==
    /\ log \in Texts /\ parts \in 1..MaxProc
    /\ pc \in [{C!Parent} \union Parts ->
                 {"fork", "wait", "unborn", "program", "chance", "ended", "aborted"}]
    /\ signs \in [Parts -> [C!Chars -> Nat]]
    /\ \A m \in Parts : pc[m] \in {"chance", "ended", "aborted"} =>
                            signs[m] = C!Counted(C!StartOf(m), C!EndOf(m))
    /\ failed \in {0, 1} /\ (failed = 1 <=> \E m \in Parts : pc[m] = "aborted")
    /\ pc[C!Parent] = "ended" => \A m \in Parts : pc[m] \in {"ended", "aborted"}
    /\ C!ReportRight

\* A file has a size, and cardinalities are those of FiniteSets.
LEMMA FileSize ==
    ASSUME CountInv
    PROVE  C!Size \in Nat /\ parts \in Nat \ {0} /\ \A X : C!Cardinality(X) = Cardinality(X)
<1>1. log \in Seq(Range(log)) /\ parts \in Nat \ {0}
  BY SharedMemoryAssumption DEF CountInv
<1> QED
  BY <1>1 DEF C!Size, C!Cardinality, Cardinality

\* Where the parts are.
LEMMA PartsAre ==
    ASSUME CountInv
    PROVE  /\ \A i \in Parts : C!StartOf(i) \in Nat /\ C!EndOf(i) \in Nat /\ C!EndOf(i) <= C!Size
           /\ \A i, j \in Parts : i < j => C!EndOf(i) <= C!StartOf(j)
           /\ \A x \in 0..(C!Size - 1) : \E i \in Parts : C!StartOf(i) <= x /\ x < C!EndOf(i)
<1> DEFINE start == [i \in Parts |-> C!StartOf(i)]
           end   == [i \in Parts |-> C!EndOf(i)]
           size  == C!Size
<1>1. size \in Nat /\ parts \in Nat \ {0}
  BY FileSize
<1>2. \A i \in 0..(parts - 1) : /\ start[i] = (size \div parts) * i
                                /\ end[i] = IF i = parts - 1 THEN size ELSE (size \div parts) * (i + 1)
  BY DEF Parts, C!StartOf, C!EndOf
<1>3. \A i \in Parts : start[i] = C!StartOf(i) /\ end[i] = C!EndOf(i)
  OBVIOUS
<1> HIDE DEF start, end, size
<1>4. /\ \A i \in Parts : start[i] \in Nat /\ end[i] \in Nat /\ end[i] <= size
      /\ \A i, j \in Parts : i < j => end[i] <= start[j]
      /\ \A x \in 0..(size - 1) : \E i \in Parts : start[i] <= x /\ x < end[i]
  BY <1>1, <1>2, PartsOfFile DEF Parts
<1> QED
  BY <1>3, <1>4 DEF size

\* The characters a child counts.
Places(c, m) == {i \in C!StartOf(m)..(C!EndOf(m) - 1) : log[i + 1] = c}

LEMMA PlacesAre ==
    ASSUME CountInv
    PROVE  /\ \A m \in Parts, c \in C!Chars :
                  /\ IsFiniteSet(Places(c, m)) /\ Cardinality(Places(c, m)) \in Nat
                  /\ C!Counted(C!StartOf(m), C!EndOf(m))[c] = Cardinality(Places(c, m))
           /\ \A m \in Parts : C!Counted(C!StartOf(m), C!EndOf(m)) \in [C!Chars -> Nat]
<1>1. ASSUME NEW m \in Parts, NEW c \in C!Chars
      PROVE  /\ IsFiniteSet(Places(c, m)) /\ Cardinality(Places(c, m)) \in Nat
             /\ C!Counted(C!StartOf(m), C!EndOf(m))[c] = Cardinality(Places(c, m))
  <2>1. C!StartOf(m) \in Int /\ C!EndOf(m) - 1 \in Int
    BY PartsAre
  <2>2. IsFiniteSet(C!StartOf(m)..(C!EndOf(m) - 1))
    BY <2>1, FS_Interval
  <2>3. IsFiniteSet(Places(c, m)) /\ Cardinality(Places(c, m)) \in Nat
    BY <2>2, FS_Subset, FS_CardinalityType DEF Places
  <2> QED
    BY <2>3, FileSize DEF C!Counted, Places
<1>2. ASSUME NEW m \in Parts
      PROVE  C!Counted(C!StartOf(m), C!EndOf(m)) \in [C!Chars -> Nat]
  <2> DEFINE h == C!Counted(C!StartOf(m), C!EndOf(m))
  <2>1. h = [c \in C!Chars |-> h[c]]
    BY DEF C!Counted
  <2>2. \A c \in C!Chars : h[c] \in Nat
    BY <1>1
  <2> HIDE DEF h
  <2>3. h \in [C!Chars -> Nat]
    BY <2>1, <2>2
  <2> QED
    BY <2>3 DEF h
<1> QED
  BY <1>1, <1>2

\* The tables of all children together: the whole file.
LEMMA WholeFile ==
    ASSUME CountInv, \A m \in Parts : signs[m] = C!Counted(C!StartOf(m), C!EndOf(m))
    PROVE  [c \in C!Chars |-> Total([m \in Parts |-> signs[m][c]])] = C!Counted(0, C!Size)
<1>1. SUFFICES ASSUME NEW c \in C!Chars
               PROVE  Total([m \in Parts |-> signs[m][c]])
                        = Cardinality({i \in 0..(C!Size - 1) : log[i + 1] = c})
  BY FileSize DEF C!Counted
<1> DEFINE a == [m \in Parts |-> Places(c, m)]
           f == [m \in Parts |-> signs[m][c]]
<1>2. IsFiniteSet(Parts)
  BY FileSize, FS_Interval DEF Parts
<1>3. \A m \in Parts : IsFiniteSet(a[m]) /\ f[m] = Cardinality(a[m])
  BY PlacesAre
<1>4. ASSUME NEW i \in Parts, NEW j \in Parts, i # j
      PROVE  a[i] \cap a[j] = {}
  <2>1. i < j \/ j < i
    BY <1>4, FileSize DEF Parts
  <2>2. C!EndOf(i) <= C!StartOf(j) \/ C!EndOf(j) <= C!StartOf(i)
    BY <2>1, PartsAre
  <2> QED
    BY <2>2, PartsAre DEF Places
<1>5. Total(f) = Cardinality(UNION {a[m] : m \in Parts})
  <2> DOMAIN f = Parts
    OBVIOUS
  <2> HIDE DEF a, f
  <2> QED
    BY <1>2, <1>3, <1>4, TotalOfParts
<1>6. UNION {a[m] : m \in Parts} = {i \in 0..(C!Size - 1) : log[i + 1] = c}
  <2>1. ASSUME NEW x, \E m \in Parts : x \in Places(c, m)
        PROVE  x \in 0..(C!Size - 1) /\ log[x + 1] = c
    BY <2>1, PartsAre, FileSize DEF Places
  <2>2. ASSUME NEW x \in 0..(C!Size - 1), log[x + 1] = c
        PROVE  \E m \in Parts : x \in Places(c, m)
    BY <2>2, PartsAre DEF Places
  <2> QED
    BY <2>1, <2>2
<1> QED
  BY <1>5, <1>6

\* No child has the number of the parent.
LEMMA NoPart == C!Parent \notin Parts
  BY DEF C!Parent, Parts

\* main: nothing has been counted.
LEMMA CountInit ==
    ASSUME C!Init
    PROVE  CountInv
<1>1. /\ \A q \in {C!Parent} \union Parts : pc[q] = IF q = C!Parent THEN "fork" ELSE "unborn"
      /\ pc \in [{C!Parent} \union Parts ->
                   {"fork", "wait", "unborn", "program", "chance", "ended", "aborted"}]
  BY DEF C!Init, Parts
<1>2. pc[C!Parent] = "fork" /\ \A m \in Parts : pc[m] = "unborn"
  BY <1>1, NoPart
<1>3. signs \in [Parts -> [C!Chars -> Nat]]
  BY DEF C!Init, Parts, C!NoSign
<1>4. log \in Texts /\ parts \in 1..MaxProc /\ failed = 0
  BY DEF C!Init
<1> QED
  BY <1>1, <1>2, <1>3, <1>4 DEF CountInv, C!ReportRight

\* create_children
LEMMA CountForkStep ==
    ASSUME CountInv, C!Fork
    PROVE  CountInv'
<1>1. UNCHANGED <<log, parts, signs, failed, total>> /\ pc[C!Parent] = "fork"
  BY DEF C!Fork
<1>2. Parts' = Parts /\ UNCHANGED C!Chars /\ \A m \in Parts : UNCHANGED C!Counted(C!StartOf(m), C!EndOf(m))
  BY <1>1 DEF Parts, C!Chars, C!Counted, C!StartOf, C!EndOf, C!Size
<1>3. CASE pc' = [pc EXCEPT ![C!Parent] = "wait"]
  <2>1. \A m \in Parts : pc'[m] = pc[m]
    BY <1>3, NoPart DEF CountInv
  <2>2. pc'[C!Parent] = "wait"
    BY <1>3 DEF CountInv
  <2>3. pc' \in [{C!Parent} \union Parts ->
                   {"fork", "wait", "unborn", "program", "chance", "ended", "aborted"}]
    BY <1>3 DEF CountInv
  <2> QED
    BY <1>1, <1>2, <2>1, <2>2, <2>3 DEF CountInv, C!ReportRight
<1>4. ASSUME NEW i \in Parts, pc[i] = "unborn", pc' = [pc EXCEPT ![i] = "program"]
      PROVE  CountInv'
  <2>1. /\ \A m \in Parts : m # i => pc'[m] = pc[m]
        /\ pc'[i] = "program" /\ pc'[C!Parent] = "fork"
        /\ pc' \in [{C!Parent} \union Parts ->
                      {"fork", "wait", "unborn", "program", "chance", "ended", "aborted"}]
    BY <1>1, <1>4, NoPart DEF CountInv
  <2>2. (\E m \in Parts : pc'[m] = "aborted") <=> \E m \in Parts : pc[m] = "aborted"
    BY <1>4, <2>1
  <2> QED
    BY <1>1, <1>2, <2>1, <2>2 DEF CountInv, C!ReportRight
<1> QED
  BY <1>3, <1>4 DEF C!Fork, Parts

\* The children: their parts counted, a failure noted or none.
LEMMA CountChildStep ==
    ASSUME CountInv, NEW i \in Parts, C!Program(i) \/ C!Fail(i) \/ C!Succeed(i)
    PROVE  CountInv'
<1>1. UNCHANGED <<log, parts, total>> /\ pc[i] \in {"program", "chance"}
  BY DEF C!Program, C!Fail, C!Succeed
<1>2. Parts' = Parts /\ UNCHANGED C!Chars /\ \A m \in Parts : UNCHANGED C!Counted(C!StartOf(m), C!EndOf(m))
  BY <1>1 DEF Parts, C!Chars, C!Counted, C!StartOf, C!EndOf, C!Size
<1>3. pc[C!Parent] # "ended"
  BY <1>1 DEF CountInv
<1>4. PICK place \in {"chance", "ended", "aborted"} : pc' = [pc EXCEPT ![i] = place]
  BY DEF C!Program, C!Fail, C!Succeed
<1>5. /\ \A m \in Parts : m # i => pc'[m] = pc[m]
      /\ pc'[i] = place /\ pc'[C!Parent] = pc[C!Parent]
      /\ pc' \in [{C!Parent} \union Parts ->
                    {"fork", "wait", "unborn", "program", "chance", "ended", "aborted"}]
  BY <1>4, NoPart DEF CountInv
<1>6. /\ signs' \in [Parts -> [C!Chars -> Nat]]
      /\ \A m \in Parts : m # i => signs'[m] = signs[m]
      /\ signs'[i] = C!Counted(C!StartOf(i), C!EndOf(i))
  <2>1. CASE C!Program(i)
    <3>1. signs' = [signs EXCEPT ![i] = C!Counted(C!StartOf(i), C!EndOf(i))]
      BY <2>1 DEF C!Program
    <3> QED
      BY <3>1, PlacesAre DEF CountInv
  <2>2. CASE C!Fail(i) \/ C!Succeed(i)
    <3>1. signs' = signs /\ pc[i] = "chance"
      BY <2>2 DEF C!Fail, C!Succeed
    <3> QED
      BY <3>1 DEF CountInv
  <2> QED
    BY <2>1, <2>2
<1>7. /\ failed' \in {0, 1}
      /\ failed' = 1 <=> \E m \in Parts : pc'[m] = "aborted"
  <2>1. CASE C!Fail(i)
    <3>1. failed' = 1 /\ pc' = [pc EXCEPT ![i] = "aborted"]
      BY <2>1 DEF C!Fail
    <3>2. pc'[i] = "aborted"
      BY <3>1 DEF CountInv
    <3> QED
      BY <3>1, <3>2
  <2>2. CASE C!Program(i) \/ C!Succeed(i)
    <3>1. failed' = failed /\ pc'[i] # "aborted" /\ pc[i] # "aborted"
      BY <1>1, <1>5, <2>2 DEF C!Program, C!Succeed, CountInv
    <3>2. (\E m \in Parts : pc'[m] = "aborted") <=> \E m \in Parts : pc[m] = "aborted"
      BY <1>5, <3>1
    <3> QED
      BY <3>1, <3>2 DEF CountInv
  <2> QED
    BY <2>1, <2>2
<1>8. \A m \in Parts : pc'[m] \in {"chance", "ended", "aborted"} =>
                           signs'[m] = C!Counted(C!StartOf(m), C!EndOf(m))
  BY <1>5, <1>6 DEF CountInv
<1>9. log' \in Texts /\ parts' \in 1..MaxProc
  BY <1>1 DEF CountInv
<1> QED
  BY <1>2, <1>3, <1>5, <1>6, <1>7, <1>8, <1>9 DEF CountInv, C!ReportRight

\* All children have been waited for.
LEMMA CountReportStep ==
    ASSUME CountInv, C!Report
    PROVE  CountInv'
<1>1. UNCHANGED <<log, parts, signs, failed>> /\ pc' = [pc EXCEPT ![C!Parent] = "ended"]
  BY DEF C!Report
<1>2. Parts' = Parts /\ UNCHANGED C!Chars /\ UNCHANGED C!NoSign /\ UNCHANGED C!Counted(0, C!Size)
      /\ \A m \in Parts : UNCHANGED C!Counted(C!StartOf(m), C!EndOf(m))
  BY <1>1 DEF Parts, C!Chars, C!NoSign, C!Counted, C!StartOf, C!EndOf, C!Size
<1>3. \A m \in Parts : pc[m] \in {"ended", "aborted"} /\ pc'[m] = pc[m]
  BY <1>1, NoPart DEF C!Report, Parts, CountInv
<1>4. pc' \in [{C!Parent} \union Parts ->
                 {"fork", "wait", "unborn", "program", "chance", "ended", "aborted"}]
  BY <1>1 DEF CountInv
<1>5. \/ failed = 0 /\ total' = C!Counted(0, C!Size)
      \/ total' = C!NoSign /\ \E m \in Parts : pc[m] = "aborted"
  <2>1. CASE failed = 1
    BY <2>1 DEF C!Report, CountInv
  <2>2. CASE failed = 0
    <3>1. \A m \in Parts : signs[m] = C!Counted(C!StartOf(m), C!EndOf(m))
      BY <1>3 DEF CountInv
    <3>2. total' = [c \in C!Chars |-> C!FoldFunction(+, 0, [m \in Parts |-> signs[m][c]])]
      <4>1. total' = IF failed = 1 THEN C!NoSign
                     ELSE [c \in C!Chars |-> C!FoldFunction(+, 0, [m \in Parts |-> signs[m][c]])]
        BY Zenon DEF C!Report, Parts
      <4>2. failed # 1
        BY <2>2
      <4> QED
        BY <4>1, <4>2, Zenon
    <3>3. \A c \in C!Chars : C!FoldFunction(+, 0, [m \in Parts |-> signs[m][c]])
                               = Total([m \in Parts |-> signs[m][c]])
      BY SameTotals
    <3>4. total' = [c \in C!Chars |-> Total([m \in Parts |-> signs[m][c]])]
      BY <3>2, <3>3
    <3> QED
      BY <2>2, <3>1, <3>4, WholeFile
  <2> QED
    BY <2>1, <2>2 DEF CountInv
<1>6. C!ReportRight'
  BY <1>1, <1>2, <1>3, <1>5 DEF C!ReportRight, Parts
<1> QED
  BY <1>1, <1>2, <1>3, <1>4, <1>6 DEF CountInv

\* Every step keeps the invariant.
LEMMA LettersStep ==
    ASSUME CountInv, C!Next \/ UNCHANGED <<pc, log, parts, signs, failed, total>>
    PROVE  CountInv'
<1>1. CASE UNCHANGED <<pc, log, parts, signs, failed, total>>
  BY <1>1 DEF CountInv, Parts, C!Chars, C!Counted, C!StartOf, C!EndOf, C!Size, C!NoSign, C!ReportRight
<1>2. CASE C!Next
  <2>1. PICK q \in DOMAIN pc : C!Step(q)
    BY <1>2 DEF C!Next
  <2> QED
    BY <2>1, CountForkStep, CountChildStep, CountReportStep DEF C!Step, Parts
<1> QED
  BY <1>1, <1>2

-----------------------------------------------------------------------------
(* The board. *)

BoardPlaces ==
    {"create", "size", "N", "fill", "block", "top", "print", "destroy", "unlink",
     "out", "lock", "lock0", "in", "in0", "grab", "asleep", "ended", "killed"}

BoardTypeInv ==
    /\ pc \in [Clients \union {D!BoardServer} -> BoardPlaces]
    /\ board \in [Fields -> Int] /\ \A f \in Fields : board[f] \in {D!NotFilled, 0, Points[f]}
    /\ looked \in [Clients -> Fields \union {D!Nowhere}]
    /\ \A c \in Clients : pc[c] = "grab" => looked[c] \in Fields
    /\ score \in [Clients -> Int]

\* Before the mutex is initialised, who comes is early; who sleeps for ever came then, or met a
\* mutex destroyed or taken by somebody who exited with it.
MutexInv ==
    /\ pc[D!BoardServer] \in {"create", "size", "N", "fill"} => mutex = "zeros"
    /\ mutex = "zeros" => \A c \in Clients : pc[c] # "out" => c \in early
    /\ owner = D!Gone => mutex \in {"zeros", "destroyed"}
    /\ \A c \in Clients : pc[c] = "asleep" => c \in early \/ mutex = "destroyed"

\* If nobody has come early, only the owner is at the board, and what it has seen is still there.
HolderInv ==
    early = {} => \A c \in Clients :
        /\ pc[c] \in {"in", "in0", "grab"} => owner = c
        /\ pc[c] = "grab" => board[looked[c]] = Points[looked[c]]

PointsInv ==
    /\ Total(score) + Total(D!Left) >= Total(Points)
    /\ early = {} => Total(score) + Total(D!Left) = Total(Points)

BoardInv == BoardTypeInv /\ MutexInv /\ HolderInv /\ PointsInv

\* This is what PointsOnce says.
LEMMA PointsAreOnce ==
    ASSUME BoardInv
    PROVE  D!PointsOnce
<1>1. D!Sum(score) = Total(score) /\ D!Sum(D!Left) = Total(D!Left) /\ D!Sum(Points) = Total(Points)
  BY SameTotals
<1> QED
  BY <1>1 DEF BoardInv, MutexInv, PointsInv, D!PointsOnce

\* No client has the name of the server or of an owner that is none.
LEMMA ClientNames ==
    \A c \in Clients : c # D!BoardServer /\ c # D!None /\ c # D!Dead /\ c # D!Gone
  BY SharedMemoryAssumption DEF D!BoardServer, D!None, D!Dead, D!Gone

\* What is left on the fields are numbers.
LEMMA LeftIs ==
    ASSUME BoardInv
    PROVE  D!Left \in [Fields -> Int] /\ \A f \in Fields : D!Left[f] \in {0, Points[f]} /\ Points[f] \in Nat
<1>1. \A f \in Fields : Points[f] \in Nat /\ board[f] \in {D!NotFilled, 0, Points[f]}
  BY SharedMemoryAssumption DEF BoardInv, BoardTypeInv
<1> QED
  BY <1>1 DEF D!Left

\* The total is a number.
LEMMA TotalIsNumber ==
    ASSUME NEW E, IsFiniteSet(E), NEW f \in [E -> Int]
    PROVE  Total(f) \in Int
<1>1. DOMAIN f = E /\ \A x \in E : f[x] \in Int
  OBVIOUS
<1>2. PICK g \in [SUBSET E -> Int] : Sums(g, f, E) /\ Total(f) = g[E]
  BY <1>1, TotalIs
<1> QED
  BY <1>2

\* The total of what changes at one place.
LEMMA OneChanged ==
    ASSUME NEW E, IsFiniteSet(E), NEW f \in [E -> Int], NEW x \in E, NEW v \in Int
    PROVE  Total(f) \in Int /\ Total([f EXCEPT ![x] = v]) = Total(f) + (v - f[x])
<1> DEFINE e == [f EXCEPT ![x] = v]
<1>1. e \in [E -> Int] /\ DOMAIN e = E /\ DOMAIN f = E
  OBVIOUS
<1>2. \A y \in E : e[y] = IF y \in {x} THEN f[y] + (v - f[x]) ELSE f[y]
  OBVIOUS
<1> HIDE DEF e
<1>3. v - f[x] \in Int
  OBVIOUS
<1>4. Total(e) - Total(f) = (v - f[x]) * Cardinality({x})
  BY <1>1, <1>2, <1>3, TotalPaid
<1>5. Cardinality({x}) = 1
  BY FS_Singleton
<1>6. Total(e) \in Int /\ Total(f) \in Int
  BY <1>1, TotalIsNumber
<1>7. Total(e) = Total(f) + (v - f[x])
  BY <1>3, <1>4, <1>5, <1>6
<1> QED
  BY <1>6, <1>7 DEF e

\* The total of nothing.
LEMMA NothingAtAll ==
    ASSUME NEW E, IsFiniteSet(E)
    PROVE  Total([x \in E |-> 0]) = 0
<1> DEFINE f == [x \in E |-> 0]
           a == [x \in E |-> {}]
<1>1. Cardinality({}) = 0 /\ IsFiniteSet({})
  BY FS_EmptySet
<1>2. DOMAIN f = E /\ \A x \in E : f[x] = Cardinality(a[x]) /\ IsFiniteSet(a[x])
  BY <1>1
<1>3. \A x, y \in E : x # y => a[x] \cap a[y] = {}
  OBVIOUS
<1>4. UNION {a[x] : x \in E} = {}
  OBVIOUS
<1> HIDE DEF f, a
<1>5. Total(f) = 0
  BY <1>1, <1>2, <1>3, <1>4, TotalOfParts
<1> QED
  BY <1>5 DEF f

\* main of both programs: nothing is filled or won.
LEMMA BoardInit ==
    ASSUME D!Init
    PROVE  BoardInv
<1>1. /\ pc = [q \in Clients \union {D!BoardServer} |-> IF q = D!BoardServer THEN "create" ELSE "out"]
      /\ mutex = "zeros" /\ owner = D!None /\ early = {}
      /\ board = [f \in Fields |-> D!NotFilled]
      /\ looked = [c \in Clients |-> D!Nowhere]
      /\ score = [c \in Clients |-> 0]
  BY DEF D!Init
<1>2. \A c \in Clients : pc[c] = "out"
  BY <1>1, ClientNames
<1>3. BoardTypeInv
  <2>1. pc \in [Clients \union {D!BoardServer} -> BoardPlaces]
    BY <1>1 DEF BoardPlaces
  <2> QED
    BY <1>1, <1>2, <2>1 DEF BoardTypeInv, D!NotFilled
<1>4. MutexInv /\ HolderInv
  BY <1>1, <1>2 DEF MutexInv, HolderInv, D!None, D!Gone
<1>5. D!Left = Points
  BY <1>1, SharedMemoryAssumption DEF D!Left
<1>6. Total(score) = 0
  BY <1>1, NothingAtAll, SharedMemoryAssumption
<1>7. Total(Points) \in Int
  <2>1. Points \in [Fields -> Int]
    BY SharedMemoryAssumption
  <2> QED
    BY <2>1, TotalIsNumber, SharedMemoryAssumption
<1> QED
  BY <1>3, <1>4, <1>5, <1>6, <1>7 DEF BoardInv, PointsInv

\* A step of the server that leaves the mutex and the points alone.
LEMMA ServerMoves ==
    ASSUME BoardInv, NEW place \in BoardPlaces, pc' = [pc EXCEPT ![D!BoardServer] = place],
           place \in {"create", "size", "N", "fill"} => mutex = "zeros",
           UNCHANGED <<mutex, owner, board, looked, score, early>>
    PROVE  BoardInv'
<1>1. /\ \A c \in Clients : pc'[c] = pc[c]
      /\ pc'[D!BoardServer] = place
      /\ pc' \in [Clients \union {D!BoardServer} -> BoardPlaces]
  BY ClientNames DEF BoardInv, BoardTypeInv
<1>2. UNCHANGED D!Left
  BY DEF D!Left
<1>3. BoardTypeInv' /\ MutexInv' /\ HolderInv'
  BY <1>1 DEF BoardInv, BoardTypeInv, MutexInv, HolderInv
<1>4. PointsInv'
  BY <1>2 DEF BoardInv, PointsInv
<1> QED
  BY <1>3, <1>4 DEF BoardInv

\* Those steps.
LEMMA QuietStep ==
    ASSUME BoardInv,
           D!Create \/ D!Size \/ D!SetN \/ D!Block \/ D!Top \/ D!Unlink \/ D!Sigint \/ D!Sighandling
    PROVE  BoardInv'
<1>1. UNCHANGED <<mutex, owner, board, looked, score, early>>
  BY DEF D!Create, D!Size, D!SetN, D!Block, D!Top, D!Unlink, D!Sigint, D!Sighandling, D!memory
<1>2. CASE pc' = pc
  <2>1. UNCHANGED D!Left
    BY <1>1 DEF D!Left
  <2> QED
    BY <1>1, <1>2, <2>1 DEF BoardInv, BoardTypeInv, MutexInv, HolderInv, PointsInv
<1>3. CASE \E place \in BoardPlaces : /\ pc' = [pc EXCEPT ![D!BoardServer] = place]
                                      /\ place \in {"create", "size", "N", "fill"} => mutex = "zeros"
  BY <1>1, <1>3, ServerMoves
<1>4. D!Create \/ D!Size \/ D!SetN => pc[D!BoardServer] \in {"create", "size", "N", "fill"}
  BY DEF D!Create, D!Size, D!SetN
<1>5. D!Create \/ D!Size \/ D!SetN => mutex = "zeros"
  BY <1>4 DEF BoardInv, MutexInv
<1>6. D!Create \/ D!Size \/ D!SetN => \E place \in {"size", "N", "fill"} : pc' = [pc EXCEPT ![D!BoardServer] = place]
  BY DEF D!Create, D!Size, D!SetN, D!Go
<1>7. D!Block \/ D!Unlink \/ D!Sigint \/ D!Sighandling =>
          pc' = pc \/ \E place \in {"top", "ended", "killed"} : pc' = [pc EXCEPT ![D!BoardServer] = place]
  BY DEF D!Block, D!Unlink, D!Sigint, D!Sighandling, D!Go
<1>8. D!Top => \E place \in {"destroy", "lock"} : pc' = [pc EXCEPT ![D!BoardServer] = place]
  BY DEF D!Top, D!Go
<1> QED
  BY <1>2, <1>3, <1>5, <1>6, <1>7, <1>8 DEF BoardPlaces

\* A field is filled: its points count already.
LEMMA FillStep ==
    ASSUME BoardInv, D!Fill
    PROVE  BoardInv'
<1>1. PICK f \in Fields : board[f] = D!NotFilled /\ board' = [board EXCEPT ![f] = Points[f]]
  BY DEF D!Fill
<1>2. UNCHANGED <<pc, mutex, owner, looked, score, early>> /\ pc[D!BoardServer] = "fill"
  BY DEF D!Fill
<1>3. Points \in [Fields -> Nat]
  BY SharedMemoryAssumption
<1>4. BoardTypeInv'
  <2>1. board \in [Fields -> Int] /\ \A h \in Fields : board[h] \in {D!NotFilled, 0, Points[h]}
    BY DEF BoardInv, BoardTypeInv
  <2>2. board' \in [Fields -> Int] /\ \A h \in Fields : board'[h] \in {D!NotFilled, 0, Points[h]}
    BY <1>1, <1>3, <2>1
  <2> QED
    BY <1>2, <2>2 DEF BoardInv, BoardTypeInv
<1>5. D!Left' = D!Left
  <2>1. board \in [Fields -> Int] /\ Points[f] # D!NotFilled
    BY <1>3 DEF BoardInv, BoardTypeInv, D!NotFilled
  <2>2. \A h \in Fields : h # f => board'[h] = board[h]
    BY <1>1, <2>1
  <2>3. board'[f] = Points[f]
    BY <1>1, <2>1
  <2>4. \A h \in Fields : (IF board'[h] = D!NotFilled THEN Points[h] ELSE board'[h])
                             = IF board[h] = D!NotFilled THEN Points[h] ELSE board[h]
    BY <1>1, <2>1, <2>2, <2>3
  <2> QED
    BY <2>4 DEF D!Left
<1>6. MutexInv' /\ PointsInv'
  BY <1>2, <1>5 DEF BoardInv, MutexInv, PointsInv
<1>7. mutex = "zeros" /\ \A c \in Clients : pc[c] # "out" => c \in early
  BY <1>2 DEF BoardInv, MutexInv
<1>8. HolderInv'
  BY <1>2, <1>7 DEF HolderInv
<1> QED
  BY <1>4, <1>6, <1>8 DEF BoardInv

\* pthread_mutex_init: who is there is early.
LEMMA InitMutexStep ==
    ASSUME BoardInv, D!InitMutex
    PROVE  BoardInv'
<1>1. /\ UNCHANGED <<board, looked, score, early>> /\ mutex' = "robust" /\ owner' = D!None
      /\ pc[D!BoardServer] = "fill" /\ pc' = [pc EXCEPT ![D!BoardServer] = "block"]
  BY DEF D!InitMutex, D!Go
<1>2. /\ \A c \in Clients : pc'[c] = pc[c]
      /\ pc'[D!BoardServer] = "block"
      /\ pc' \in [Clients \union {D!BoardServer} -> BoardPlaces]
  BY <1>1, ClientNames DEF BoardInv, BoardTypeInv, BoardPlaces
<1>3. mutex = "zeros" /\ \A c \in Clients : pc[c] # "out" => c \in early
  BY <1>1 DEF BoardInv, MutexInv
<1>4. D!Left' = D!Left
  BY <1>1 DEF D!Left
<1>5. BoardTypeInv' /\ PointsInv'
  BY <1>1, <1>2, <1>4 DEF BoardInv, BoardTypeInv, PointsInv
<1>6. MutexInv' /\ HolderInv'
  BY <1>1, <1>2, <1>3 DEF MutexInv, HolderInv, D!None, D!Gone
<1> QED
  BY <1>5, <1>6 DEF BoardInv

\* The server locks, unlocks and destroys the mutex.
LEMMA ServerMutexStep ==
    ASSUME BoardInv, D!LockBoard \/ D!PrintBoard \/ D!Destroy
    PROVE  BoardInv'
<1>1. UNCHANGED <<board, looked, score, early>>
  BY DEF D!LockBoard, D!PrintBoard, D!Destroy
<1>2. PICK place \in {"print", "top", "unlink"} : pc' = [pc EXCEPT ![D!BoardServer] = place]
  BY DEF D!LockBoard, D!PrintBoard, D!Destroy, D!Go
<1>3. /\ \A c \in Clients : pc'[c] = pc[c]
      /\ pc'[D!BoardServer] = place
      /\ pc' \in [Clients \union {D!BoardServer} -> BoardPlaces]
  BY <1>2, ClientNames DEF BoardInv, BoardTypeInv, BoardPlaces
<1>4. mutex' = mutex \/ mutex' = "destroyed"
  BY DEF D!LockBoard, D!PrintBoard, D!Destroy
<1>5. /\ owner' = owner \/ owner' \in {D!BoardServer, D!None}
      /\ \A c \in Clients : owner = c => owner' = c
  BY ClientNames DEF D!LockBoard, D!PrintBoard, D!Destroy, D!Free, D!Unlock
<1>6. D!Left' = D!Left
  BY <1>1 DEF D!Left
<1>7. BoardTypeInv' /\ PointsInv'
  BY <1>1, <1>3, <1>6 DEF BoardInv, BoardTypeInv, PointsInv
<1>8. MutexInv'
  BY <1>1, <1>3, <1>4, <1>5 DEF BoardInv, MutexInv, D!BoardServer, D!None, D!Gone
<1>9. HolderInv'
  BY <1>1, <1>3, <1>5 DEF BoardInv, HolderInv
<1> QED
  BY <1>7, <1>8, <1>9 DEF BoardInv

\* Where the others are when a client moves.
LEMMA ClientMoves ==
    ASSUME BoardTypeInv, NEW c \in Clients, NEW place \in BoardPlaces, pc' = [pc EXCEPT ![c] = place]
    PROVE  /\ pc' \in [Clients \union {D!BoardServer} -> BoardPlaces]
           /\ pc'[c] = place /\ pc'[D!BoardServer] = pc[D!BoardServer]
           /\ \A d \in Clients : d # c => pc'[d] = pc[d]
  BY ClientNames DEF BoardTypeInv

\* The points stay where they are.
LEMMA PointsStay ==
    ASSUME BoardInv, UNCHANGED <<board, score>>, early \subseteq early'
    PROVE  PointsInv'
<1>1. D!Left' = D!Left
  BY DEF D!Left
<1>2. early' = {} => early = {}
  OBVIOUS
<1> QED
  BY <1>1, <1>2 DEF BoardInv, PointsInv

\* A client has found the name.
LEMMA StartStep ==
    ASSUME BoardInv, NEW c \in Clients, D!Start(c)
    PROVE  BoardInv'
<1>1. /\ UNCHANGED <<mutex, owner, board, looked, score>> /\ pc[c] = "out"
      /\ early' = IF mutex = "zeros" THEN early \union {c} ELSE early
  BY DEF D!Start, D!memory
<1>2. PICK place \in {"killed", "lock0", "lock"} : pc' = [pc EXCEPT ![c] = place]
  <2>1. CASE N = D!NoMemory
    BY <2>1 DEF D!Start, D!Go, D!NoMemory
  <2>2. CASE N # D!NoMemory /\ N = 0
    BY <2>2 DEF D!Start, D!Go, D!NoMemory
  <2>3. CASE N # D!NoMemory /\ N # 0
    BY <2>3 DEF D!Start, D!Go, D!NoMemory
  <2> QED
    BY <2>1, <2>2, <2>3
<1>3. BoardTypeInv /\ place \in BoardPlaces
  BY DEF BoardInv, BoardPlaces
<1>4. /\ pc' \in [Clients \union {D!BoardServer} -> BoardPlaces]
      /\ pc'[c] = place /\ pc'[D!BoardServer] = pc[D!BoardServer]
      /\ \A d \in Clients : d # c => pc'[d] = pc[d]
  BY <1>2, <1>3, ClientMoves
<1>5. early \subseteq early' /\ (early' = {} => early = {})
  BY <1>1
<1>6. BoardTypeInv'
  BY <1>1, <1>3, <1>4 DEF BoardTypeInv
<1>7. MutexInv'
  BY <1>1, <1>4, <1>5 DEF BoardInv, MutexInv
<1>8. HolderInv'
  BY <1>1, <1>4, <1>5 DEF BoardInv, HolderInv
<1> QED
  BY <1>1, <1>5, <1>6, <1>7, <1>8, PointsStay DEF BoardInv

\* It takes the mutex.
LEMMA LockStep ==
    ASSUME BoardInv, NEW c \in Clients, D!Lock(c)
    PROVE  BoardInv'
<1>1. /\ UNCHANGED <<mutex, board, looked, score, early>> /\ pc[c] \in {"lock", "lock0"}
      /\ owner \in {D!None, D!Dead} /\ owner' = c
  BY DEF D!Lock, D!Free
<1>2. PICK place \in {"in0", "in"} : pc' = [pc EXCEPT ![c] = place]
  BY DEF D!Lock, D!Go
<1>3. BoardTypeInv /\ place \in BoardPlaces
  BY DEF BoardInv, BoardPlaces
<1>4. /\ pc' \in [Clients \union {D!BoardServer} -> BoardPlaces]
      /\ pc'[c] = place /\ pc'[D!BoardServer] = pc[D!BoardServer]
      /\ \A d \in Clients : d # c => pc'[d] = pc[d]
  BY <1>2, <1>3, ClientMoves
<1>5. BoardTypeInv'
  BY <1>1, <1>3, <1>4 DEF BoardTypeInv
<1>6. MutexInv'
  BY <1>1, <1>4, ClientNames DEF BoardInv, MutexInv
<1>7. HolderInv'
  BY <1>1, <1>4, ClientNames DEF BoardInv, HolderInv
<1> QED
  BY <1>1, <1>5, <1>6, <1>7, PointsStay DEF BoardInv

\* It is refused, or sleeps.
LEMMA RefusedStep ==
    ASSUME BoardInv, NEW c \in Clients, D!Refused(c)
    PROVE  BoardInv'
<1>1. UNCHANGED <<mutex, board, looked, score, early>> /\ pc[c] \in {"lock", "lock0"}
  BY DEF D!Refused
<1>2. PICK place \in {"killed", "asleep"} :
          /\ pc' = [pc EXCEPT ![c] = place]
          /\ place = "asleep" => mutex = "zeros" \/ owner = D!Gone
          /\ owner' = owner \/ owner = c
          /\ owner' = D!Gone => owner = D!Gone \/ mutex = "zeros"
  <2>1. CASE mutex = "destroyed" /\ pc' = [pc EXCEPT ![c] = "killed"] /\ D!Abandon(c)
    BY <2>1 DEF D!Abandon, D!Dead, D!Gone
  <2>2. CASE /\ (mutex = "zeros" /\ ~D!Free) \/ owner = D!Gone
             /\ pc' = [pc EXCEPT ![c] = "asleep"] /\ owner' = owner
    BY <2>2
  <2> QED
    BY <2>1, <2>2 DEF D!Refused, D!Go
<1>3. BoardTypeInv /\ place \in BoardPlaces
  BY DEF BoardInv, BoardPlaces
<1>4. /\ pc' \in [Clients \union {D!BoardServer} -> BoardPlaces]
      /\ pc'[c] = place /\ pc'[D!BoardServer] = pc[D!BoardServer]
      /\ \A d \in Clients : d # c => pc'[d] = pc[d]
  BY <1>2, <1>3, ClientMoves
<1>5. BoardTypeInv'
  BY <1>1, <1>2, <1>3, <1>4 DEF BoardTypeInv
<1>6. MutexInv'
  <2>1. place = "asleep" => c \in early \/ mutex = "destroyed"
    BY <1>1, <1>2 DEF BoardInv, MutexInv
  <2>2. owner' = D!Gone => mutex' \in {"zeros", "destroyed"}
    BY <1>1, <1>2 DEF BoardInv, MutexInv
  <2>3. mutex' = "zeros" => \A d \in Clients : pc'[d] # "out" => d \in early'
    BY <1>1, <1>4 DEF BoardInv, MutexInv
  <2>4. \A d \in Clients : pc'[d] = "asleep" => d \in early' \/ mutex' = "destroyed"
    BY <1>1, <1>4, <2>1 DEF BoardInv, MutexInv
  <2> QED
    BY <1>1, <1>4, <2>2, <2>3, <2>4 DEF BoardInv, MutexInv
<1>7. HolderInv'
  BY <1>1, <1>2, <1>4 DEF BoardInv, HolderInv
<1> QED
  BY <1>1, <1>5, <1>6, <1>7, PointsStay DEF BoardInv

\* It goes away with the mutex, or unlocks it since the game is over.
LEMMA LeaveBoardStep ==
    ASSUME BoardInv, NEW c \in Clients, D!Ops(c) \/ D!GameOver(c)
    PROVE  BoardInv'
<1>1. UNCHANGED <<mutex, board, looked, score, early>> /\ pc[c] \in {"in", "in0"}
  BY DEF D!Ops, D!GameOver
<1>2. PICK place \in {"ended", "killed"} : pc' = [pc EXCEPT ![c] = place]
  BY DEF D!Ops, D!GameOver, D!Go
<1>3. /\ owner' = owner \/ owner = c
      /\ owner' = D!Gone => owner = D!Gone \/ mutex \in {"zeros", "destroyed"}
  BY DEF D!Ops, D!GameOver, D!Abandon, D!None, D!Dead, D!Gone
<1>4. BoardTypeInv /\ place \in BoardPlaces
  BY DEF BoardInv, BoardPlaces
<1>5. /\ pc' \in [Clients \union {D!BoardServer} -> BoardPlaces]
      /\ pc'[c] = place /\ pc'[D!BoardServer] = pc[D!BoardServer]
      /\ \A d \in Clients : d # c => pc'[d] = pc[d]
  BY <1>2, <1>4, ClientMoves
<1>6. BoardTypeInv'
  BY <1>1, <1>4, <1>5 DEF BoardTypeInv
<1>7. MutexInv'
  BY <1>1, <1>3, <1>5 DEF BoardInv, MutexInv
<1>8. HolderInv'
  BY <1>1, <1>3, <1>5 DEF BoardInv, HolderInv
<1> QED
  BY <1>1, <1>6, <1>7, <1>8, PointsStay DEF BoardInv

\* It finds points.
LEMMA LookStep ==
    ASSUME BoardInv, NEW c \in Clients, D!Look(c)
    PROVE  BoardInv'
<1>1. /\ UNCHANGED <<mutex, owner, board, score, early>> /\ pc[c] = "in"
      /\ pc' = [pc EXCEPT ![c] = "grab"]
  BY DEF D!Look, D!Go, D!memory
<1>2. PICK f \in Fields : board[f] \notin {D!NotFilled, 0} /\ looked' = [looked EXCEPT ![c] = f]
  BY DEF D!Look, D!Empty
<1>3. BoardTypeInv /\ "grab" \in BoardPlaces
  BY DEF BoardInv, BoardPlaces
<1>4. /\ pc' \in [Clients \union {D!BoardServer} -> BoardPlaces]
      /\ pc'[c] = "grab" /\ pc'[D!BoardServer] = pc[D!BoardServer]
      /\ \A d \in Clients : d # c => pc'[d] = pc[d]
  BY <1>1, <1>3, ClientMoves
<1>5. /\ looked' \in [Clients -> Fields \union {D!Nowhere}] /\ looked'[c] = f
      /\ \A d \in Clients : d # c => looked'[d] = looked[d]
  BY <1>2, <1>3 DEF BoardTypeInv
<1>6. BoardTypeInv'
  BY <1>1, <1>3, <1>4, <1>5 DEF BoardTypeInv
<1>7. MutexInv'
  BY <1>1, <1>4 DEF BoardInv, MutexInv
<1>8. board[f] = Points[f]
  BY <1>2, <1>3 DEF BoardTypeInv
<1>9. HolderInv'
  BY <1>1, <1>4, <1>5, <1>8 DEF BoardInv, HolderInv
<1> QED
  BY <1>1, <1>6, <1>7, <1>9, PointsStay DEF BoardInv

\* It grabs the points it has seen; somebody who came early may have been there before.
LEMMA GrabStep ==
    ASSUME BoardInv, NEW c \in Clients, D!Grab(c)
    PROVE  BoardInv'
<1> DEFINE here == looked[c]
<1>1. /\ UNCHANGED <<mutex, early>> /\ pc[c] = "grab" /\ pc' = [pc EXCEPT ![c] = "lock"]
      /\ score' = [score EXCEPT ![c] = @ + Points[here]]
      /\ board' = [board EXCEPT ![here] = 0]
      /\ looked' = [looked EXCEPT ![c] = D!Nowhere]
      /\ owner' = owner \/ (owner = c /\ owner' = D!None)
  BY DEF D!Grab, D!Go, D!Unlock
<1>2. BoardTypeInv /\ "lock" \in BoardPlaces
  BY DEF BoardInv, BoardPlaces
<1>3. here \in Fields /\ Points \in [Fields -> Nat] /\ IsFiniteSet(Fields) /\ IsFiniteSet(Clients)
  BY <1>1, <1>2, SharedMemoryAssumption DEF BoardTypeInv
<1>4. /\ pc' \in [Clients \union {D!BoardServer} -> BoardPlaces]
      /\ pc'[c] = "lock" /\ pc'[D!BoardServer] = pc[D!BoardServer]
      /\ \A d \in Clients : d # c => pc'[d] = pc[d]
  BY <1>1, <1>2, ClientMoves
<1>5. board \in [Fields -> Int] /\ score \in [Clients -> Int] /\ Points[here] \in Int /\ score[c] \in Int
  BY <1>2, <1>3 DEF BoardTypeInv
<1>0. here = looked[c]
  OBVIOUS
<1> HIDE DEF here
<1>6. BoardTypeInv'
  <2>1. board' \in [Fields -> Int] /\ \A h \in Fields : board'[h] \in {D!NotFilled, 0, Points[h]}
    BY <1>1, <1>2, <1>3 DEF BoardTypeInv
  <2>2. score' \in [Clients -> Int]
    BY <1>1, <1>5
  <2>3. looked' \in [Clients -> Fields \union {D!Nowhere}] /\ \A d \in Clients : d # c => looked'[d] = looked[d]
    BY <1>1, <1>2 DEF BoardTypeInv
  <2>4. \A d \in Clients : pc'[d] = "grab" => looked'[d] \in Fields
    BY <1>2, <1>4, <2>3 DEF BoardTypeInv
  <2> QED
    BY <1>4, <2>1, <2>2, <2>3, <2>4 DEF BoardTypeInv
<1>7. MutexInv'
  BY <1>1, <1>4 DEF BoardInv, MutexInv, D!None, D!Gone
<1>8. HolderInv'
  BY <1>1, <1>4 DEF BoardInv, HolderInv
<1>9. PointsInv'
  <2>1. D!Left \in [Fields -> Int] /\ D!Left[here] \in {0, Points[here]} /\ Points[here] \in Nat
    BY <1>3, LeftIs
  <2>2. D!Left' = [D!Left EXCEPT ![here] = 0]
    <3>1. \A h \in Fields : board'[h] = IF h = here THEN 0 ELSE board[h]
      BY <1>1, <1>5
    <3>2. \A h \in Fields : D!Left'[h] = IF h = here THEN 0 ELSE D!Left[h]
      BY <3>1 DEF D!Left, D!NotFilled
    <3>3. D!Left' = [h \in Fields |-> D!Left'[h]]
      BY DEF D!Left
    <3> QED
      BY <2>1, <3>2, <3>3
  <2>3. Total(D!Left) \in Int /\ Total(D!Left') = Total(D!Left) + (0 - D!Left[here])
    <3>1. 0 \in Int
      OBVIOUS
    <3>2. Total(D!Left) \in Int /\ Total([D!Left EXCEPT ![here] = 0]) = Total(D!Left) + (0 - D!Left[here])
      BY <1>3, <2>1, <3>1, OneChanged
    <3> QED
      BY <2>2, <3>2
  <2>4. score' = [score EXCEPT ![c] = score[c] + Points[here]] /\ score[c] + Points[here] \in Int
    BY <1>1, <1>5
  <2>5. Total(score) \in Int /\ Total(score') = Total(score) + ((score[c] + Points[here]) - score[c])
    BY <1>3, <1>5, <2>4, OneChanged
  <2>6. Total(Points) \in Int
    <3>1. Points \in [Fields -> Int]
      BY <1>3
    <3> QED
      BY <1>3, <3>1, TotalIsNumber
  <2>7. Total(score') + Total(D!Left') = Total(score) + Total(D!Left) + (Points[here] - D!Left[here])
    BY <1>5, <2>1, <2>3, <2>5
  <2>8. early = {} => D!Left[here] = Points[here]
    <3>1. early = {} => board[here] = Points[here]
      BY <1>0, <1>1 DEF BoardInv, HolderInv
    <3> QED
      BY <1>3, <3>1 DEF D!Left
  <2>9. Points[here] - D!Left[here] \in Nat
    BY <2>1
  <2>10. /\ Total(score') + Total(D!Left') >= Total(Points)
         /\ early = {} => Total(score') + Total(D!Left') = Total(Points)
    BY <2>1, <2>3, <2>5, <2>6, <2>7, <2>8, <2>9 DEF BoardInv, PointsInv
  <2> QED
    BY <1>1, <2>10 DEF PointsInv
<1> QED
  BY <1>6, <1>7, <1>8, <1>9 DEF BoardInv

\* Every step keeps the invariant.
LEMMA BoardStep ==
    ASSUME BoardInv, D!Next \/ UNCHANGED <<pc, mutex, owner, board, looked, score, early>>
    PROVE  BoardInv'
<1>1. CASE UNCHANGED <<pc, mutex, owner, board, looked, score, early>>
  <2>1. D!Left' = D!Left
    BY <1>1 DEF D!Left
  <2> QED
    BY <1>1, <2>1 DEF BoardInv, BoardTypeInv, MutexInv, HolderInv, PointsInv
<1>2. CASE D!ServerStep \/ D!Sigint \/ D!Sighandling
  BY <1>2, QuietStep, FillStep, InitMutexStep, ServerMutexStep DEF D!ServerStep
<1>3. ASSUME NEW c \in Clients, D!Start(c) \/ D!Play(c)
      PROVE  BoardInv'
  BY <1>3, StartStep, LockStep, RefusedStep, LeaveBoardStep, LookStep, GrabStep DEF D!Play
<1> QED
  BY <1>1, <1>2, <1>3 DEF D!Next

-----------------------------------------------------------------------------
\* What the board, the letter counter and the estimate of pi add up is what there was to add:
\* for any clients, fields and points, any texts and numbers of children and of samples, and
\* whoever comes early, dies with the mutex or aborts.
THEOREM AllIsAddedUp == FairSpec => []SumsRight
<1> DEFINE K == /\ program = "board" => BoardInv
                /\ program = "count" => CountInv
                /\ program = "pi" => PiInv
<1>1. Init => K
  BY BoardInit, CountInit, PiInit DEF Init
<1>2. ASSUME K, [Next]_vars
      PROVE  K'
  <2>1. program' = program
    BY <1>2 DEF Next, Barriers, Semaphores, Board, LetterCount, MonteCarlo, vars
  <2>2. CASE program = "board"
    <3>1. D!Next \/ UNCHANGED vars
      BY <1>2, <2>2 DEF Next, Barriers, Semaphores, Board, LetterCount, MonteCarlo
    <3>2. UNCHANGED vars => UNCHANGED <<pc, mutex, owner, board, looked, score, early>>
      BY DEF vars, boardOwn, tableVars
    <3> QED
      BY <1>2, <2>1, <2>2, <3>1, <3>2, BoardStep
  <2>3. CASE program = "count"
    <3>1. C!Next \/ UNCHANGED vars
      BY <1>2, <2>3 DEF Next, Barriers, Semaphores, Board, LetterCount, MonteCarlo
    <3>2. UNCHANGED vars => UNCHANGED <<pc, log, parts, signs, failed, total>>
      BY DEF vars, countOwn
    <3> QED
      BY <1>2, <2>1, <2>3, <3>1, <3>2, LettersStep
  <2>4. CASE program = "pi"
    <3>1. P!Next \/ UNCHANGED vars
      BY <1>2, <2>4 DEF Next, Barriers, Semaphores, Board, LetterCount, MonteCarlo
    <3>2. UNCHANGED vars => UNCHANGED <<pc, data, lines, mean>>
      BY DEF vars, piOwn
    <3> QED
      BY <1>2, <2>1, <2>4, <3>1, <3>2, PiStep
  <2> QED
    BY <2>1, <2>2, <2>3, <2>4
<1>3. K => SumsRight
  BY PointsAreOnce, AverageIsRight DEF SumsRight, CountInv
<1> QED
  <2> HIDE DEF K
  <2> QED
    BY <1>1, <1>2, <1>3, PTL DEF FairSpec

=============================================================================
