----------------------------- MODULE MCPipeGames -----------------------------
(***************************************************************************)
(* The programs of lab05 on pipes, but for the provinces; a behaviour      *)
(* plays one of them, and leaves the variables of the others alone.        *)
(***************************************************************************)
EXTENDS Pipes

CONSTANTS
    Few, Many,                               \* how many play, or how many children
    Weeks, Draws, Prize,                     \* of Lotto
    Money, MAX_ROULETTE, PRIZE_FACTOR, MaxAmount,          \* of Roulette
    Each, FirstHand,                         \* cards for each player, of PipeCards and ShipCards
    Franci, HP, Attack,                      \* of Knights
    First, Second, Third, Boss, Fifo, Letters, MaxCopies, Word, Sessions, Interruptible,  \* of Factory
    MaxSigint,                               \* of ChildPipes
    Client, Chunks                           \* of FifoMail

VARIABLES program, pc, turn, any, rps, keep_running,
          week, bet, won, winning, total_bet, total_reward,     \* of Lotto
          amount, number, stake, lucky_number, due,             \* of Roulette
          round, cards, open, played, scores, told,             \* of PipeCards
          dealt, hand, announced, winner,                       \* of ShipCards
          last_signal, holding,                                 \* of TokenRing
          hp, blows, enemies, dead,                             \* of Knights
          items, copies, count, written, sessions, reports,     \* of Factory
          signals, letters, printed,                            \* of ChildPipes and ChildLetters
          name, fifo, unlinks, chunks                           \* of FifoMail

asked       == <<any, rps>>
lottoOwn    == <<week, bet, won, winning, total_bet, total_reward>>
rouletteOwn == <<amount, number, stake, lucky_number, due>>
cardsOwn    == <<round, cards, open, played, scores, told>>
shipOwn     == <<dealt, hand, announced, winner>>
ringOwn     == <<last_signal, holding>>
battleOwn   == <<hp, blows, enemies, dead>>
factoryOwn  == <<items, copies, count, written, sessions, reports>>
childOwn    == <<signals, letters, printed>>
mailOwn     == <<name, fifo, unlinks, chunks>>
vars == <<program, pipes, pc, turn, asked, keep_running, lottoOwn, rouletteOwn, cardsOwn,
          shipOwn, ringOwn, battleOwn, factoryOwn, childOwn, mailOwn>>

\* What the programs ask of their arguments, where it matters.
GamesAssumption ==
    /\ Capacity \in Nat \ {0} /\ Few \in Nat \ {0} /\ Many \in Nat \ {0, 1}
    /\ Draws # {} /\ \A a, b \in Draws : Prize[Cardinality(a \intersect b)] \in Nat
    /\ Money \in Nat /\ PRIZE_FACTOR \in Nat /\ Each \in Nat
    /\ Franci \subseteq 0..(Many - 1)
    /\ IsFiniteSet(First) /\ IsFiniteSet(Second) /\ Second # {}
    /\ First \intersect Second = {} /\ Third \intersect (First \union Second) = {}
    /\ Boss \notin First \union Second \union Third
    /\ Letters \in Seq({Letters[i] : i \in DOMAIN Letters})
    /\ 0 \notin Client
ASSUME GamesAssumption

L == INSTANCE Lotto WITH N <- Few, T <- Weeks
R == INSTANCE Roulette WITH N <- Few, M <- Money
C == INSTANCE PipeCards WITH N <- Many, M <- Each
S == INSTANCE ShipCards WITH N <- Many, M <- Each
T == INSTANCE TokenRing WITH N <- Many
K == INSTANCE Knights WITH N <- Many
F == INSTANCE Factory
P == INSTANCE ChildPipes WITH N <- Few
B == INSTANCE ChildLetters WITH N <- Many
M == INSTANCE FifoMail

\* Variables of the programs that are not played.
NoTurn         == turn = 0
NoAsked        == any = 0 /\ rps = 0
NoFlag         == keep_running = 0
NoLottoOwn     == week = 0 /\ bet = 0 /\ won = 0 /\ winning = 0 /\ total_bet = 0 /\ total_reward = 0
NoRouletteOwn  == amount = 0 /\ number = 0 /\ stake = 0 /\ lucky_number = 0 /\ due = 0
NoCardsOwn     == round = 0 /\ cards = 0 /\ open = 0 /\ played = 0 /\ scores = 0 /\ told = 0
NoShipOwn      == dealt = 0 /\ hand = 0 /\ announced = 0 /\ winner = 0
NoRingOwn      == last_signal = 0 /\ holding = 0
NoBattleOwn    == hp = 0 /\ blows = 0 /\ enemies = 0 /\ dead = 0
NoFactoryOwn   == items = 0 /\ copies = 0 /\ count = 0 /\ written = 0 /\ sessions = 0 /\ reports = 0
NoChildOwn     == signals = 0 /\ letters = 0 /\ printed = 0
NoMailOwn      == name = 0 /\ fifo = 0 /\ unlinks = 0 /\ chunks = 0
NoPipes        == content = 0 /\ readers = 0 /\ writers = 0

InitGames ==
    \/ /\ program = "lotto" /\ L!Init
       /\ NoFlag /\ NoRouletteOwn /\ NoCardsOwn /\ NoShipOwn /\ NoRingOwn /\ NoBattleOwn
       /\ NoFactoryOwn
    \/ /\ program = "roulette" /\ R!Init
       /\ NoFlag /\ NoLottoOwn /\ NoCardsOwn /\ NoShipOwn /\ NoRingOwn /\ NoBattleOwn
       /\ NoFactoryOwn
    \/ /\ program = "cards" /\ C!Init
       /\ NoAsked /\ NoFlag /\ NoLottoOwn /\ NoRouletteOwn /\ NoShipOwn /\ NoRingOwn
       /\ NoBattleOwn /\ NoFactoryOwn
    \/ /\ program = "ship" /\ S!Init
       /\ NoTurn /\ NoAsked /\ NoLottoOwn /\ NoRouletteOwn /\ NoCardsOwn /\ NoRingOwn
       /\ NoBattleOwn /\ NoFactoryOwn
    \/ /\ program = "ring" /\ T!Init
       /\ NoTurn /\ NoAsked /\ NoFlag /\ NoLottoOwn /\ NoRouletteOwn /\ NoCardsOwn /\ NoShipOwn
       /\ NoBattleOwn /\ NoFactoryOwn
    \/ /\ program = "battle" /\ K!Init
       /\ NoTurn /\ NoAsked /\ NoFlag /\ NoLottoOwn /\ NoRouletteOwn /\ NoCardsOwn /\ NoShipOwn
       /\ NoRingOwn /\ NoFactoryOwn /\ NoPipes
    \/ /\ program = "factory" /\ F!Init
       /\ NoTurn /\ NoAsked /\ NoLottoOwn /\ NoRouletteOwn /\ NoCardsOwn /\ NoShipOwn
       /\ NoRingOwn /\ NoBattleOwn

InitTutorials ==
    \/ /\ program = "child pipes" /\ P!Init
       /\ NoMailOwn
    \/ /\ program = "child letters" /\ B!Init
       /\ last_signal = 0 /\ signals = 0 /\ NoMailOwn
    \/ /\ program = "mail" /\ M!Init
       /\ last_signal = 0 /\ signals = 0 /\ letters = 0

Init == \/ InitGames /\ NoChildOwn /\ NoMailOwn
        \/ /\ InitTutorials
           /\ NoTurn /\ NoAsked /\ NoFlag /\ NoLottoOwn /\ NoRouletteOwn /\ NoCardsOwn
           /\ NoShipOwn /\ holding = 0 /\ NoBattleOwn /\ NoFactoryOwn

\* A step of one of the programs.
Lotto(A) ==
    /\ program = "lotto" /\ A
    /\ UNCHANGED <<program, keep_running, rouletteOwn, cardsOwn, shipOwn, ringOwn,
                  battleOwn, factoryOwn, childOwn, mailOwn>>
Roulette(A) ==
    /\ program = "roulette" /\ A
    /\ UNCHANGED <<program, keep_running, lottoOwn, cardsOwn, shipOwn, ringOwn,
                  battleOwn, factoryOwn, childOwn, mailOwn>>
PipeCards(A) ==
    /\ program = "cards" /\ A
    /\ UNCHANGED <<program, asked, keep_running, lottoOwn, rouletteOwn, shipOwn,
                  ringOwn, battleOwn, factoryOwn, childOwn, mailOwn>>
ShipCards(A) ==
    /\ program = "ship" /\ A
    /\ UNCHANGED <<program, turn, asked, lottoOwn, rouletteOwn, cardsOwn, ringOwn,
                  battleOwn, factoryOwn, childOwn, mailOwn>>
TokenRing(A) ==
    /\ program = "ring" /\ A
    /\ UNCHANGED <<program, turn, asked, keep_running, lottoOwn, rouletteOwn, cardsOwn,
                  shipOwn, battleOwn, factoryOwn, childOwn, mailOwn>>
Knights(A) ==
    /\ program = "battle" /\ A
    /\ UNCHANGED <<program, turn, asked, keep_running, lottoOwn, rouletteOwn, cardsOwn,
                  shipOwn, ringOwn, factoryOwn, childOwn, mailOwn, pipes>>
Factory(A) ==
    /\ program = "factory" /\ A
    /\ UNCHANGED <<program, turn, asked, lottoOwn, rouletteOwn, cardsOwn, shipOwn,
                  ringOwn, battleOwn, childOwn, mailOwn>>

others == <<program, turn, asked, keep_running, lottoOwn, rouletteOwn, cardsOwn, shipOwn,
            holding, battleOwn, factoryOwn>>
ChildPipes(X)   == program = "child pipes" /\ X /\ UNCHANGED <<others, mailOwn>>
ChildLetters(X) == program = "child letters" /\ X /\ UNCHANGED <<others, last_signal, signals, mailOwn>>
FifoMail(X)     == program = "mail" /\ X /\ UNCHANGED <<others, last_signal, signals, letters>>

\* A step of process q, whichever program is played.
Act(q) == \/ Lotto(L!Act(q)) \/ Roulette(R!Act(q)) \/ PipeCards(C!Act(q)) \/ ShipCards(S!Act(q))
          \/ TokenRing(T!Act(q)) \/ Knights(K!Act(q)) \/ Factory(F!Act(q))
          \/ ChildPipes(P!Act(q)) \/ ChildLetters(B!Act(q)) \/ FifoMail(M!Act(q))

\* Everybody has ended, or waits for ever in one of the three ways that Stuck of PipeCards and
\* Late of Factory and of FifoMail name.
Over   == CASE program = "lotto"    -> L!Over [] program = "roulette" -> R!Over
            [] program = "cards"    -> C!Over [] program = "ship"     -> S!Over
            [] program = "ring"     -> T!Over [] program = "battle"   -> K!Over
            [] program = "factory"  -> F!Over [] program = "child pipes"   -> P!Over
            [] program = "mail"     -> M!Over [] program = "child letters" -> B!Over

Next == \/ Lotto(L!Next) \/ Roulette(R!Next) \/ PipeCards(C!Next) \/ ShipCards(S!Next)
        \/ TokenRing(T!Next) \/ Knights(K!Next) \/ Factory(F!Next)
        \/ ChildPipes(P!Next) \/ ChildLetters(B!Next) \/ FifoMail(M!Next)
        \/ Over /\ UNCHANGED vars

\* What rand() lets happen sooner or later: a player leaves the roulette, a knight hits.
ByChance(i) == \/ i \in R!Player /\ Roulette(R!Resign(i))
               \/ i \in K!Knight /\ Knights(K!Hit(i))

\* Every process runs, and chance passes nobody over.
Everybody == 0..Few \union 0..Many \union F!Worker \union {Boss} \union Client
Fairness ==
    /\ \A q \in Everybody : WF_vars(Act(q))
    /\ \A i \in R!Player \union K!Knight : SF_vars(ByChance(i))
FairSpec == Init /\ [][Next]_vars /\ Fairness
MCDraws     == {{1}, {2}}
MCPrize     == [matches \in 0..1 |-> matches * 24]
MCFirstHand == {{0, 1}, {0, 4}}
MCLetters   == <<"a", "?", "b">>
MCChunks    == <<2, 1, 0>>
-----------------------------------------------------------------------------
(* Properties. *)

\* Both sides of a table agree on what was bet, won and told (InStep, BooksAgree, PaidAsDue),
\* parent and children on what was asked and answered (LettersAccounted).
SidesAgree ==
    CASE program = "lotto"    -> L!BooksAgree
      [] program = "roulette" -> R!PaidAsDue
      [] program = "cards"    -> C!InStep
      [] program = "child pipes" -> P!LettersAccounted
      [] OTHER -> TRUE

\* What goes round is neither doubled nor lost, and what one has done with is done with: cards,
\* the number in the ring, letters between brigades, knights of the beaten army, letters of
\* children, the parent of children that live, chunks of mail.
NothingTwice ==
    CASE program = "ship"    -> S!CardsOnce
      [] program = "ring"    -> T!OneNumber
      [] program = "battle"  -> K!OneSideLeft
      [] program = "factory" -> F!ReportsBalance
      [] program = "child pipes"   -> P!EndsLast
      [] program = "child letters" -> B!AllPrinted
      [] program = "mail"          -> M!ChunksInOrder
      [] OTHER -> TRUE

\* Whoever leaves, everybody ends: at the tables and on the battlefield in any case, in the
\* rings after one has left, in the factory after the FIFO was closed, and a parent after its
\* children.  Over names the three cases in which processes wait for ever.
Ending == CASE program = "ship"    -> \E p \in S!Player : pc[p] = "ended"
            [] program = "ring"    -> \E p \in T!Proc : pc[p] = "ended"
            [] program = "factory" -> sessions = Sessions /\ writers["fifo"] = {}
            [] program = "child pipes" -> \A i \in P!Child : pc[i] \in {"ended", "killed"}
            [] OTHER -> TRUE
AllEnd == Ending ~> Over
=============================================================================
