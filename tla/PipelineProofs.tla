--------------------------- MODULE PipelineProofs ---------------------------
(***************************************************************************)
(* Proofs about lab06/channel for every number of printers, every input    *)
(* and every channel size: the type invariant, the single initialisation,  *)
(* mutual exclusion, that Out implements Handoff, and that the processor   *)
(* writes every character it read twice, in order.                         *)
(*                                                                         *)
(* The inductive invariant Inv joins the properties to what their steps    *)
(* rely on: a thread in a function of a channel has opened it (PlaceInv),  *)
(* the semaphore admits one opener (SemInv), only the processor produces   *)
(* into Out, and never after it marked Out as depleted (RoleInv), and the  *)
(* slot of Out holds exactly the chunk that was put and not yet taken      *)
(* (BoxInv).  The last theorem adds which channel the processor works on   *)
(* and when it has anything left to push (WorkInv).                        *)
(***************************************************************************)
EXTENDS Pipeline, TLAPS, SequenceTheorems, WellFoundedInduction

Opening(t) == pc[t] \in {"check", "init", "post"}
Inside(t)  == pc[t] \in {"lock", "test", "wait", "copy", "unlock"}

PlaceInv == \A t \in Threads :
    /\ pc[t] \in {"sem", "check", "init", "post"} => op[t] = "open"
    /\ Inside(t) => op[t] \in {"produce", "consume", "deplete"} /\ chan[t] \in opened[t]
    /\ pc[t] \in {"wait", "copy"} => op[t] # "deplete"

SemInv ==
    /\ \A c \in Channels : sem[c] \in {0, 1}
    /\ \A t \in Threads : Opening(t) => sem[chan[t]] = 0
    /\ \A t, u \in Threads : Opening(t) /\ Opening(u) /\ chan[t] = chan[u] => t = u

OnceInv ==
    /\ \A t \in Threads : /\ pc[t] = "init" => status[chan[t]] = "uninitialized"
                          /\ pc[t] = "post" => status[chan[t]] # "uninitialized"
    /\ \A c \in Channels : status[c] = "uninitialized" => inits[c] = 0

RoleInv ==
    /\ \A t \in Threads : op[t] \in {"produce", "deplete"} /\ chan[t] = Out => t = Processor
    /\ status[Out] = "depleted" => op[Processor] = "deplete"
    /\ op[Processor] \in {"consume", "deplete"} => pending = <<>>
    /\ op[Processor] = "deplete" /\ pc[Processor] # "done" => {In, Out} \subseteq opened[Processor]

BoxInv ==
    /\ status[Out] \in {"uninitialized", "empty"} => put[Out] = taken[Out]
    /\ status[Out] = "occupied" => put[Out] = Append(taken[Out], slot[Out])
    /\ \A t \in Threads : pc[t] = "copy" /\ chan[t] = Out =>
          IF op[t] = "produce" THEN status[Out] # "occupied" ELSE status[Out] = "occupied"

Inv == TypeOK /\ PlaceInv /\ SemInv /\ OnceInv /\ InitialisedOnce /\ HolderOnly
       /\ RoleInv /\ BoxInv

-----------------------------------------------------------------------------
(* What the processor flushes fits the channel. *)

\* A sequence of bytes no longer than the channel is a chunk, and every chunk is one.
LEMMA ChunkFacts ==
    /\ \A s \in Seq(Char) : Len(s) <= Size => s \in Chunks
    /\ \A s \in Chunks : s \in Seq(Char) /\ Len(s) <= Size
    /\ <<>> \in Chunks
<1>0. Size \in Nat  BY ChannelAssumption
<1>1. \A s \in Seq(Char) : Len(s) <= Size => s \in Chunks
  <2> SUFFICES ASSUME NEW s \in Seq(Char), Len(s) <= Size PROVE s \in Chunks  OBVIOUS
  <2>1. s \in [1..Len(s) -> Char] /\ Len(s) \in 0..Size  BY <1>0, LenProperties
  <2> QED  BY <2>1 DEF Chunks
<1>2. \A s \in Chunks : s \in Seq(Char) /\ Len(s) <= Size
  <2> SUFFICES ASSUME NEW s \in Chunks PROVE s \in Seq(Char) /\ Len(s) <= Size  OBVIOUS
  <2>1. PICK n \in 0..Size : s \in [1..n -> Char]  BY DEF Chunks
  <2> QED  BY <2>1, <1>0
<1>3. <<>> \in Chunks
  <2>1. <<>> \in Seq(Char) /\ Len(<<>>) <= Size  BY <1>0
  <2> QED  BY <1>1, <2>1, Zenon
<1> QED  BY <1>1, <1>2, <1>3

\* Doubling a byte string gives a byte string twice as long.
LEMMA DoubledType ==
    ASSUME NEW s \in Seq(Char) PROVE Doubled(s) \in Seq(Char) /\ Len(Doubled(s)) = 2 * Len(s)
<1>1. \A i \in 1..(2 * Len(s)) : (i + 1) \div 2 \in 1..Len(s)  OBVIOUS
<1>2. Doubled(s) \in [1..(2 * Len(s)) -> Char]
  <2>1. \A i \in 1..(2 * Len(s)) : s[(i + 1) \div 2] \in Char  BY <1>1
  <2> QED  BY <2>1 DEF Doubled
<1> QED  BY <1>2

\* A flush fits the channel and leaves a shorter rest.
LEMMA FlushType ==
    ASSUME NEW s \in Seq(Char) PROVE Flush(s) \in Chunks /\ Rest(s) \in Seq(Char)
<1>0. Size \in Nat \ {0}  BY ChannelAssumption
<1> DEFINE n == IF Len(s) < Size THEN Len(s) ELSE Size
<1>1. n \in 0..Len(s) /\ n <= Size  BY <1>0
<1>2. Flush(s) \in Seq(Char) /\ Len(Flush(s)) = n
  <2>1. \A i \in 1..n : s[i] \in Char  BY <1>1
  <2> QED  BY <1>1, <2>1 DEF Flush
<1>3. Flush(s) \in Chunks  BY <1>1, <1>2, ChunkFacts
<1>4. Rest(s) \in Seq(Char)  BY <1>1, <1>2 DEF Rest
<1> QED  BY <1>3, <1>4

-----------------------------------------------------------------------------
(* What a step is: a call, an exit, or one action of a function of Channel. *)

\* A call that the programs make: always on a channel they have opened, and into Out
\* only by the processor.
Entry(t) ==
    \/ \E c \in Channels : CallOpen(t, c)
    \/ \E c \in opened[t], d \in Chunks : CallProduce(t, c, d) /\ (c = Out => t = Processor)
    \/ \E c \in opened[t] : CallConsume(t, c)
    \/ \E c \in opened[t] : CallDeplete(t, c) /\ (c = Out => t = Processor)
    \/ Close(t)

\* An action of Channel that is not an entry.
Inner(t) ==
    \/ OpenWait(t) \/ OpenCheck(t) \/ OpenInit(t) \/ OpenPost(t)
    \/ Lock(t) \/ Unlock(t) \/ SpuriousWakeup(t)
    \/ ProduceTest(t) \/ ProduceCopy(t) \/ ConsumeTest(t) \/ ConsumeCopy(t) \/ Deplete(t)

\* The loops of the programs make well-typed calls.
LEMMA MainIsEntry ==
    ASSUME TypeOK, NEW t \in Threads, Main(t)
    PROVE  Entry(t) /\ todo' \in Seq(Chunks) /\ pending' \in Seq(Char)
<1> USE PipelineAssumption
<1>1. CASE t = Generator /\ GeneratorStep
  <2>1. todo \in Seq(Chunks) /\ pending' = pending /\ pending \in Seq(Char)
    BY <1>1 DEF TypeOK, GeneratorStep
  <2>2. CASE In \notin opened[Generator] /\ CallOpen(Generator, In) /\ UNCHANGED todo
    BY <1>1, <2>1, <2>2 DEF Entry
  <2>3. CASE In \in opened[Generator] /\ todo # <<>>
             /\ CallProduce(Generator, In, Head(todo)) /\ todo' = Tail(todo)
    <3>1. Head(todo) \in Chunks /\ Tail(todo) \in Seq(Chunks)  BY <2>1, <2>3
    <3> QED  BY <1>1, <2>1, <2>3, <3>1 DEF Entry
  <2>4. CASE In \in opened[Generator] /\ CallDeplete(Generator, In) /\ UNCHANGED todo
    BY <1>1, <2>1, <2>4 DEF Entry
  <2>5. CASE Close(Generator) /\ UNCHANGED todo
    BY <1>1, <2>1, <2>5 DEF Entry
  <2> QED  BY <1>1, <2>2, <2>3, <2>4, <2>5 DEF GeneratorStep
<1>2. CASE t = Processor /\ ProcessorOpens
  BY <1>2 DEF ProcessorOpens, Entry, TypeOK
<1>3. CASE t = Processor /\ ProcessorProduces
  <2> DEFINE s == IF GotChunk THEN Doubled(buf[Processor]) ELSE pending
  <2>1. buf[Processor] \in Seq(Char)  BY <1>3, ChunkFacts DEF TypeOK, ChannelTypeOK
  <2>2. s \in Seq(Char)  BY <2>1, DoubledType DEF TypeOK
  <2>3. Flush(s) \in Chunks /\ Rest(s) \in Seq(Char)  BY <2>2, FlushType
  <2>4. Out \in opened[t] /\ CallProduce(t, Out, Flush(s)) /\ pending' = Rest(s) /\ todo' = todo
    BY <1>3 DEF ProcessorProduces
  <2> HIDE DEF s
  <2> QED  BY <1>3, <2>3, <2>4 DEF Entry, TypeOK
<1>4. CASE t = Processor /\ ProcessorConsumes
  BY <1>4 DEF ProcessorConsumes, Entry, TypeOK
<1>5. CASE t = Processor /\ ProcessorFinishes
  BY <1>5 DEF ProcessorFinishes, Entry, TypeOK
<1>6. CASE t \in Printers /\ PrinterStep(t)
  BY <1>6 DEF PrinterStep, Entry, TypeOK
<1> QED  BY <1>1, <1>2, <1>3, <1>4, <1>5, <1>6 DEF Main

\* Every step is an entry, an inner action, or leaves all variables alone.
LEMMA StepCases ==
    ASSUME TypeOK, [Next]_vars
    PROVE  \/ UNCHANGED vars
           \/ \E t \in Threads : /\ Main(t) /\ Entry(t)
                                 /\ todo' \in Seq(Chunks) /\ pending' \in Seq(Char)
           \/ \E t \in Threads : Inner(t) /\ UNCHANGED <<todo, pending>>
<1>1. CASE UNCHANGED vars  BY <1>1
<1>2. CASE Stop  BY <1>2 DEF Stop
<1>3. ASSUME NEW t \in Threads, Main(t) \/ Called(t) \/ Acquire(t) \/ Spurious(t)
      PROVE  \/ /\ Main(t) /\ Entry(t)
                /\ todo' \in Seq(Chunks) /\ pending' \in Seq(Char)
             \/ Inner(t) /\ UNCHANGED <<todo, pending>>
  <2>1. CASE Main(t)  BY <2>1, MainIsEntry
  <2>2. CASE Called(t)
    BY <2>2 DEF Called, OpenStep, ProduceStep, ConsumeStep, Inner
  <2>3. CASE Acquire(t)  BY <2>3 DEF Acquire, Inner
  <2>4. CASE Spurious(t)  BY <2>4 DEF Spurious, Inner
  <2> QED  BY <1>3, <2>1, <2>2, <2>3, <2>4
<1> QED  BY <1>1, <1>2, <1>3 DEF Next

-----------------------------------------------------------------------------
(* The parts of the invariant, one lemma each. *)

\* Every step keeps the types.
LEMMA TypeStep == ASSUME TypeOK, [Next]_vars PROVE TypeOK'
<1> USE DEF Status, Ops, Places
<1>1. CASE UNCHANGED vars
  BY <1>1 DEF vars, chVars, TypeOK, ChannelTypeOK
<1>2. ASSUME NEW t \in Threads, Entry(t), todo' \in Seq(Chunks), pending' \in Seq(Char)
      PROVE  TypeOK'
  <2>1. CASE Close(t)
    BY <1>2, <2>1 DEF Close, channelVars, TypeOK, ChannelTypeOK
  <2>2. ASSUME NEW o \in Ops, NEW c \in Channels, NEW d \in Chunks, NEW f \in Places,
               Call(t, o, c, d, f)
        PROVE  TypeOK'
    BY <1>2, <2>2 DEF Call, channelVars, TypeOK, ChannelTypeOK
  <2>3. opened[t] \subseteq Channels  BY DEF TypeOK, ChannelTypeOK
  <2>4. CASE \E c \in Channels : CallOpen(t, c)
    BY <2>2, <2>4, ChunkFacts DEF CallOpen
  <2>5. CASE \E c \in opened[t], d \in Chunks : CallProduce(t, c, d)
    BY <2>2, <2>3, <2>5 DEF CallProduce
  <2>6. CASE \E c \in opened[t] : CallConsume(t, c)
    BY <2>2, <2>3, <2>6, ChunkFacts DEF CallConsume
  <2>7. CASE \E c \in opened[t] : CallDeplete(t, c)
    BY <2>2, <2>3, <2>7, ChunkFacts DEF CallDeplete
  <2> QED  BY <1>2, <2>1, <2>4, <2>5, <2>6, <2>7 DEF Entry
<1>3. ASSUME NEW t \in Threads, Inner(t), UNCHANGED <<todo, pending>>
      PROVE  TypeOK'
  <2> USE DEF channelVars, threadVars, TypeOK, ChannelTypeOK
  <2>a. chan[t] \in Channels  OBVIOUS
  <2>b. ASSUME NEW W \in SUBSET Threads, Signal(t, W) PROVE pc' \in [Threads -> Places]
    BY <2>b DEF Signal
  <2>c. producer_cv(chan[t]) \in SUBSET Threads /\ consumer_cv(chan[t]) \in SUBSET Threads
    BY DEF producer_cv, consumer_cv, Waiting
  <2>1. CASE OpenWait(t)
    <3>1. sem[chan[t]] - 1 \in Nat  BY <2>1, <2>a DEF OpenWait
    <3> QED  BY <1>3, <2>1, <3>1 DEF OpenWait
  <2>2. CASE OpenCheck(t)  BY <1>3, <2>2 DEF OpenCheck
  <2>3. CASE OpenInit(t)  BY <1>3, <2>3, ChunkFacts DEF OpenInit
  <2>4. CASE OpenPost(t)  BY <1>3, <2>4 DEF OpenPost
  <2>5. CASE Lock(t)  BY <1>3, <2>5 DEF Lock
  <2>6. CASE Unlock(t)  BY <1>3, <2>6 DEF Unlock
  <2>7. CASE SpuriousWakeup(t)  BY <1>3, <2>7 DEF SpuriousWakeup
  <2>8. CASE ProduceTest(t)  BY <1>3, <2>8 DEF ProduceTest, CondWait
  <2>9. CASE ProduceCopy(t)
    <3>1. pc' \in [Threads -> Places]  BY <2>9, <2>b, <2>c DEF ProduceCopy
    <3>2. put' \in [Channels -> Seq(Chunks)]  BY <2>9, <2>a DEF ProduceCopy
    <3> QED  BY <1>3, <2>9, <3>1, <3>2 DEF ProduceCopy
  <2>10. CASE ConsumeTest(t)  BY <1>3, <2>10 DEF ConsumeTest, CondWait
  <2>11. CASE ConsumeCopy(t)
    <3>1. pc' \in [Threads -> Places]  BY <2>11, <2>b, <2>c DEF ConsumeCopy
    <3>2. taken' \in [Channels -> Seq(Chunks)]  BY <2>11, <2>a DEF ConsumeCopy
    <3> QED  BY <1>3, <2>11, <3>1, <3>2 DEF ConsumeCopy
  <2>12. CASE Deplete(t)
    BY <1>3, <2>12 DEF Deplete, Broadcast
  <2> QED  BY <1>3, <2>1, <2>2, <2>3, <2>4, <2>5, <2>6, <2>7, <2>8, <2>9, <2>10, <2>11, <2>12
           DEF Inner
<1> QED  BY <1>1, <1>2, <1>3, StepCases

\* Only t changes its place in a step of t, but for waiters that are sent to "lock".
LEMMA SignalEffect ==
    ASSUME TypeOK, NEW t \in Threads, pc[t] # "wait", NEW c \in Channels,
           NEW W, W \in {producer_cv(c), consumer_cv(c)}, Signal(t, W) \/ Broadcast(t, W)
    PROVE  /\ pc'[t] = "unlock"
           /\ \A u \in Threads \ {t} : \/ pc'[u] = pc[u]
                                       \/ pc[u] = "wait" /\ pc'[u] = "lock"
<1>0. pc \in [Threads -> Places]  BY DEF TypeOK, ChannelTypeOK
<1>1. \A u \in W : u \in Threads /\ pc[u] = "wait"
  BY DEF producer_cv, consumer_cv, Waiting
<1> QED  BY <1>0, <1>1 DEF Signal, Broadcast

\* A thread inside a function of a channel has that channel open.
LEMMA PlaceStep == ASSUME Inv, [Next]_vars PROVE PlaceInv'
<1> USE DEF Inv, TypeOK, ChannelTypeOK, PlaceInv, Inside
<1>1. CASE UNCHANGED vars  BY <1>1 DEF vars, chVars
<1>2. ASSUME NEW t \in Threads, Main(t), Entry(t) PROVE PlaceInv'
  <2>1. CASE Close(t)  BY <1>2, <2>1 DEF Close, channelVars
  <2>2. CASE \E c \in Channels : CallOpen(t, c)
    BY <1>2, <2>2 DEF CallOpen, Call, channelVars
  <2>3. CASE \E c \in opened[t], d \in Chunks : CallProduce(t, c, d) /\ (c = Out => t = Processor)
    BY <1>2, <2>3 DEF CallProduce, Call, channelVars
  <2>4. CASE \E c \in opened[t] : CallConsume(t, c)
    BY <1>2, <2>4 DEF CallConsume, Call, channelVars
  <2>5. CASE \E c \in opened[t] : CallDeplete(t, c) /\ (c = Out => t = Processor)
    BY <1>2, <2>5 DEF CallDeplete, Call, channelVars
  <2> QED  BY <1>2, <2>1, <2>2, <2>3, <2>4, <2>5 DEF Entry
<1>3. ASSUME NEW t \in Threads, Inner(t), UNCHANGED <<todo, pending>> PROVE PlaceInv'
  <2> USE DEF channelVars, threadVars
  <2>a. chan[t] \in Channels  OBVIOUS
  <2>1. CASE OpenWait(t)  BY <1>3, <2>1, <2>a DEF OpenWait
  <2>2. CASE OpenCheck(t)  BY <1>3, <2>2, <2>a DEF OpenCheck
  <2>3. CASE OpenInit(t)  BY <1>3, <2>3, <2>a DEF OpenInit
  <2>4. CASE OpenPost(t)  BY <1>3, <2>4, <2>a DEF OpenPost
  <2>5. CASE Lock(t)  BY <1>3, <2>5, <2>a DEF Lock
  <2>6. CASE Unlock(t)  BY <1>3, <2>6, <2>a DEF Unlock
  <2>7. CASE SpuriousWakeup(t)  BY <1>3, <2>7, <2>a DEF SpuriousWakeup
  <2>8. CASE ProduceTest(t)  BY <1>3, <2>8, <2>a DEF ProduceTest, CondWait
  <2>9. CASE ProduceCopy(t)
    <3>1. /\ pc'[t] = "unlock"
          /\ \A u \in Threads \ {t} : pc'[u] = pc[u] \/ (pc[u] = "wait" /\ pc'[u] = "lock")
      BY <2>9, <2>a, SignalEffect DEF ProduceCopy
    <3> QED  BY <1>3, <2>9, <2>a, <3>1 DEF ProduceCopy
  <2>10. CASE ConsumeTest(t)  BY <1>3, <2>10, <2>a DEF ConsumeTest, CondWait
  <2>11. CASE ConsumeCopy(t)
    <3>1. /\ pc'[t] = "unlock"
          /\ \A u \in Threads \ {t} : pc'[u] = pc[u] \/ (pc[u] = "wait" /\ pc'[u] = "lock")
      BY <2>11, <2>a, SignalEffect DEF ConsumeCopy
    <3> QED  BY <1>3, <2>11, <2>a, <3>1 DEF ConsumeCopy
  <2>12. CASE Deplete(t)
    <3>1. /\ pc'[t] = "unlock"
          /\ \A u \in Threads \ {t} : pc'[u] = pc[u] \/ (pc[u] = "wait" /\ pc'[u] = "lock")
      BY <2>12, <2>a, SignalEffect DEF Deplete
    <3> QED  BY <1>3, <2>12, <2>a, <3>1 DEF Deplete
  <2> QED  BY <1>3, <2>1, <2>2, <2>3, <2>4, <2>5, <2>6, <2>7, <2>8, <2>9, <2>10, <2>11, <2>12 DEF Inner
<1> QED  BY <1>1, <1>2, <1>3, StepCases DEF Inv

\* The semaphore admits one thread to the check and the initialisation.
LEMMA SemStep == ASSUME Inv, [Next]_vars PROVE SemInv'
<1> USE DEF Inv, TypeOK, ChannelTypeOK, SemInv, Opening
<1>1. CASE UNCHANGED vars  BY <1>1 DEF vars, chVars
<1>2. ASSUME NEW t \in Threads, Main(t), Entry(t) PROVE SemInv'
  <2> DEFINE Quiet == sem' = sem /\ \A u \in Threads : Opening(u)' => Opening(u) /\ chan'[u] = chan[u]
  <2>1. ASSUME Close(t) PROVE Quiet  BY <2>1 DEF Close, channelVars
  <2>2. ASSUME NEW o, NEW c \in Channels, NEW d, NEW f \in {"sem", "lock"}, Call(t, o, c, d, f)
        PROVE  Quiet
    BY <2>2 DEF Call
  <2>3. opened[t] \subseteq Channels  OBVIOUS
  <2>4. Quiet
    BY <1>2, <2>1, <2>2, <2>3 DEF Entry, CallOpen, CallProduce, CallConsume, CallDeplete
  <2> QED  BY <2>4
<1>3. ASSUME NEW t \in Threads, Inner(t), UNCHANGED <<todo, pending>> PROVE SemInv'
  <2> USE DEF channelVars, threadVars
  <2>a. chan[t] \in Channels  OBVIOUS
  <2>1. CASE OpenWait(t)  BY <1>3, <2>1, <2>a DEF OpenWait
  <2>2. CASE OpenCheck(t)  BY <1>3, <2>2, <2>a DEF OpenCheck
  <2>3. CASE OpenInit(t)  BY <1>3, <2>3, <2>a DEF OpenInit
  <2>4. CASE OpenPost(t)  BY <1>3, <2>4, <2>a DEF OpenPost
  <2>5. CASE Lock(t)  BY <1>3, <2>5, <2>a DEF Lock
  <2>6. CASE Unlock(t)  BY <1>3, <2>6, <2>a DEF Unlock
  <2>7. CASE SpuriousWakeup(t)  BY <1>3, <2>7, <2>a DEF SpuriousWakeup
  <2>8. CASE ProduceTest(t)  BY <1>3, <2>8, <2>a DEF ProduceTest, CondWait
  <2>9. CASE ProduceCopy(t)
    <3>1. /\ pc'[t] = "unlock"
          /\ \A u \in Threads \ {t} : pc'[u] = pc[u] \/ (pc[u] = "wait" /\ pc'[u] = "lock")
      BY <2>9, <2>a, SignalEffect DEF ProduceCopy
    <3> QED  BY <1>3, <2>9, <2>a, <3>1 DEF ProduceCopy
  <2>10. CASE ConsumeTest(t)  BY <1>3, <2>10, <2>a DEF ConsumeTest, CondWait
  <2>11. CASE ConsumeCopy(t)
    <3>1. /\ pc'[t] = "unlock"
          /\ \A u \in Threads \ {t} : pc'[u] = pc[u] \/ (pc[u] = "wait" /\ pc'[u] = "lock")
      BY <2>11, <2>a, SignalEffect DEF ConsumeCopy
    <3> QED  BY <1>3, <2>11, <2>a, <3>1 DEF ConsumeCopy
  <2>12. CASE Deplete(t)
    <3>1. /\ pc'[t] = "unlock"
          /\ \A u \in Threads \ {t} : pc'[u] = pc[u] \/ (pc[u] = "wait" /\ pc'[u] = "lock")
      BY <2>12, <2>a, SignalEffect DEF Deplete
    <3> QED  BY <1>3, <2>12, <2>a, <3>1 DEF Deplete
  <2> QED  BY <1>3, <2>1, <2>2, <2>3, <2>4, <2>5, <2>6, <2>7, <2>8, <2>9, <2>10, <2>11, <2>12 DEF Inner
<1> QED  BY <1>1, <1>2, <1>3, StepCases DEF Inv

\* An initialised channel is never initialised again.
LEMMA OnceStep == ASSUME Inv, [Next]_vars PROVE (OnceInv /\ InitialisedOnce)'
<1> USE DEF Inv, TypeOK, ChannelTypeOK, PlaceInv, Inside, SemInv, OnceInv, InitialisedOnce, Opening
<1>1. CASE UNCHANGED vars  BY <1>1 DEF vars, chVars
<1>2. ASSUME NEW t \in Threads, Main(t), Entry(t) PROVE (OnceInv /\ InitialisedOnce)'
  <2>1. CASE Close(t)  BY <1>2, <2>1 DEF Close, channelVars
  <2>2. CASE \E c \in Channels : CallOpen(t, c)
    BY <1>2, <2>2 DEF CallOpen, Call, channelVars
  <2>3. CASE \E c \in opened[t], d \in Chunks : CallProduce(t, c, d) /\ (c = Out => t = Processor)
    BY <1>2, <2>3 DEF CallProduce, Call, channelVars
  <2>4. CASE \E c \in opened[t] : CallConsume(t, c)
    BY <1>2, <2>4 DEF CallConsume, Call, channelVars
  <2>5. CASE \E c \in opened[t] : CallDeplete(t, c) /\ (c = Out => t = Processor)
    BY <1>2, <2>5 DEF CallDeplete, Call, channelVars
  <2> QED  BY <1>2, <2>1, <2>2, <2>3, <2>4, <2>5 DEF Entry
<1>3. ASSUME NEW t \in Threads, Inner(t), UNCHANGED <<todo, pending>> PROVE (OnceInv /\ InitialisedOnce)'
  <2> USE DEF channelVars, threadVars
  <2>a. chan[t] \in Channels  OBVIOUS
  <2>1. CASE OpenWait(t)  BY <1>3, <2>1, <2>a DEF OpenWait
  <2>2. CASE OpenCheck(t)  BY <1>3, <2>2, <2>a DEF OpenCheck
  <2>3. CASE OpenInit(t)  BY <1>3, <2>3, <2>a DEF OpenInit
  <2>4. CASE OpenPost(t)  BY <1>3, <2>4, <2>a DEF OpenPost
  <2>5. CASE Lock(t)  BY <1>3, <2>5, <2>a DEF Lock
  <2>6. CASE Unlock(t)  BY <1>3, <2>6, <2>a DEF Unlock
  <2>7. CASE SpuriousWakeup(t)  BY <1>3, <2>7, <2>a DEF SpuriousWakeup
  <2>8. CASE ProduceTest(t)  BY <1>3, <2>8, <2>a DEF ProduceTest, CondWait
  <2>9. CASE ProduceCopy(t)
    <3>1. /\ pc'[t] = "unlock"
          /\ \A u \in Threads \ {t} : pc'[u] = pc[u] \/ (pc[u] = "wait" /\ pc'[u] = "lock")
      BY <2>9, <2>a, SignalEffect DEF ProduceCopy
    <3> QED  BY <1>3, <2>9, <2>a, <3>1 DEF ProduceCopy
  <2>10. CASE ConsumeTest(t)  BY <1>3, <2>10, <2>a DEF ConsumeTest, CondWait
  <2>11. CASE ConsumeCopy(t)
    <3>1. /\ pc'[t] = "unlock"
          /\ \A u \in Threads \ {t} : pc'[u] = pc[u] \/ (pc[u] = "wait" /\ pc'[u] = "lock")
      BY <2>11, <2>a, SignalEffect DEF ConsumeCopy
    <3> QED  BY <1>3, <2>11, <2>a, <3>1 DEF ConsumeCopy
  <2>12. CASE Deplete(t)
    <3>1. /\ pc'[t] = "unlock"
          /\ \A u \in Threads \ {t} : pc'[u] = pc[u] \/ (pc[u] = "wait" /\ pc'[u] = "lock")
      BY <2>12, <2>a, SignalEffect DEF Deplete
    <3> QED  BY <1>3, <2>12, <2>a, <3>1 DEF Deplete
  <2> QED  BY <1>3, <2>1, <2>2, <2>3, <2>4, <2>5, <2>6, <2>7, <2>8, <2>9, <2>10, <2>11, <2>12 DEF Inner
<1> QED  BY <1>1, <1>2, <1>3, StepCases DEF Inv

\* The thread in a critical section holds the mutex.
LEMMA MutexStep == ASSUME Inv, [Next]_vars PROVE HolderOnly'
<1> USE DEF Inv, TypeOK, ChannelTypeOK, PlaceInv, Inside, OnceInv, InitialisedOnce, HolderOnly, Holds, ChannelAssumption
<1>1. CASE UNCHANGED vars  BY <1>1 DEF vars, chVars
<1>2. ASSUME NEW t \in Threads, Main(t), Entry(t) PROVE HolderOnly'
  <2>1. CASE Close(t)  BY <1>2, <2>1 DEF Close, channelVars
  <2>2. CASE \E c \in Channels : CallOpen(t, c)
    BY <1>2, <2>2 DEF CallOpen, Call, channelVars
  <2>3. CASE \E c \in opened[t], d \in Chunks : CallProduce(t, c, d) /\ (c = Out => t = Processor)
    BY <1>2, <2>3 DEF CallProduce, Call, channelVars
  <2>4. CASE \E c \in opened[t] : CallConsume(t, c)
    BY <1>2, <2>4 DEF CallConsume, Call, channelVars
  <2>5. CASE \E c \in opened[t] : CallDeplete(t, c) /\ (c = Out => t = Processor)
    BY <1>2, <2>5 DEF CallDeplete, Call, channelVars
  <2> QED  BY <1>2, <2>1, <2>2, <2>3, <2>4, <2>5 DEF Entry
<1>3. ASSUME NEW t \in Threads, Inner(t), UNCHANGED <<todo, pending>> PROVE HolderOnly'
  <2> USE DEF channelVars, threadVars
  <2>a. chan[t] \in Channels  OBVIOUS
  <2>1. CASE OpenWait(t)  BY <1>3, <2>1, <2>a DEF OpenWait
  <2>2. CASE OpenCheck(t)  BY <1>3, <2>2, <2>a DEF OpenCheck
  <2>3. CASE OpenInit(t)
    <3>1. status[chan[t]] = "uninitialized"  BY <2>3 DEF OpenInit
    <3>2. \A u \in Threads : Holds(u) => status[chan[u]] # "uninitialized"  OBVIOUS
    <3>3. \A u \in Threads : Holds(u)' => Holds(u) /\ chan'[u] = chan[u]
      BY <1>3, <2>3 DEF OpenInit
    <3>4. \A u \in Threads : Holds(u) => data_mtx'[chan[u]] = data_mtx[chan[u]]
      BY <2>3, <3>1, <3>2 DEF OpenInit
    <3> QED  BY <3>3, <3>4
  <2>4. CASE OpenPost(t)  BY <1>3, <2>4, <2>a DEF OpenPost
  <2>5. CASE Lock(t)
    <3>1. data_mtx[chan[t]] = NoThread /\ data_mtx'[chan[t]] = t /\ chan' = chan
      BY <2>5, <2>a DEF Lock
    <3>2. \A u \in Threads \ {t} : Holds(u)' => Holds(u)  BY <2>5 DEF Lock
    <3>3. \A u \in Threads \ {t} : Holds(u) => chan[u] # chan[t]
      BY <3>1, ChannelAssumption
    <3>4. \A u \in Threads \ {t} : Holds(u) => data_mtx'[chan[u]] = data_mtx[chan[u]]
      BY <2>5, <3>3 DEF Lock
    <3> QED  BY <3>1, <3>2, <3>4
  <2>6. CASE Unlock(t)
    <3>1. Holds(t) /\ ~Holds(t)'  BY <1>3, <2>6 DEF Unlock
    <3>2. \A u \in Threads \ {t} : Holds(u)' => Holds(u) /\ chan'[u] = chan[u]
      BY <1>3, <2>6 DEF Unlock
    <3>3. \A u \in Threads \ {t} : Holds(u) => data_mtx'[chan[u]] = data_mtx[chan[u]]
      BY <2>6, <3>1 DEF Unlock
    <3> QED  BY <3>1, <3>2, <3>3
  <2>7. CASE SpuriousWakeup(t)  BY <1>3, <2>7, <2>a DEF SpuriousWakeup
  <2>8. CASE ProduceTest(t)  BY <1>3, <2>8, <2>a DEF ProduceTest, CondWait
  <2>9. CASE ProduceCopy(t)
    <3>1. /\ pc'[t] = "unlock"
          /\ \A u \in Threads \ {t} : pc'[u] = pc[u] \/ (pc[u] = "wait" /\ pc'[u] = "lock")
      BY <2>9, <2>a, SignalEffect DEF ProduceCopy
    <3> QED  BY <1>3, <2>9, <2>a, <3>1 DEF ProduceCopy
  <2>10. CASE ConsumeTest(t)  BY <1>3, <2>10, <2>a DEF ConsumeTest, CondWait
  <2>11. CASE ConsumeCopy(t)
    <3>1. /\ pc'[t] = "unlock"
          /\ \A u \in Threads \ {t} : pc'[u] = pc[u] \/ (pc[u] = "wait" /\ pc'[u] = "lock")
      BY <2>11, <2>a, SignalEffect DEF ConsumeCopy
    <3> QED  BY <1>3, <2>11, <2>a, <3>1 DEF ConsumeCopy
  <2>12. CASE Deplete(t)
    <3>1. /\ pc'[t] = "unlock"
          /\ \A u \in Threads \ {t} : pc'[u] = pc[u] \/ (pc[u] = "wait" /\ pc'[u] = "lock")
      BY <2>12, <2>a, SignalEffect DEF Deplete
    <3> QED  BY <1>3, <2>12, <2>a, <3>1 DEF Deplete
  <2> QED  BY <1>3, <2>1, <2>2, <2>3, <2>4, <2>5, <2>6, <2>7, <2>8, <2>9, <2>10, <2>11, <2>12 DEF Inner
<1> QED  BY <1>1, <1>2, <1>3, StepCases DEF Inv

\* Only the processor writes into Out, and it does not after it marked it as depleted.
LEMMA RoleStep == ASSUME Inv, [Next]_vars PROVE RoleInv'
<1> USE PipelineAssumption DEF Inv, TypeOK, ChannelTypeOK, RoleInv, PlaceInv, Inside
<1>1. CASE UNCHANGED vars  BY <1>1 DEF vars, chVars
<1>2. ASSUME NEW t \in Threads, Main(t), Entry(t) PROVE RoleInv'
  <2> USE DEF Close, CallOpen, CallProduce, CallConsume, CallDeplete, Call, channelVars
  <2>1. /\ pc[t] = "ready" /\ status' = status
        /\ \A u \in Threads \ {t} : op'[u] = op[u] /\ chan'[u] = chan[u] /\ pc'[u] = pc[u]
                                     /\ opened'[u] = opened[u]
    BY <1>2 DEF Entry
  <2>2. \A u \in Threads : op'[u] \in {"produce", "deplete"} /\ chan'[u] = Out => u = Processor
    BY <1>2, <2>1 DEF Entry
  <2>3. CASE t # Processor
    <3>1. pending' = pending
      BY <1>2, <2>3 DEF Main, GeneratorStep, PrinterStep
    <3> QED  BY <2>1, <2>2, <2>3, <3>1
  <2>4. CASE t = Processor
    <3>1. CASE ProcessorOpens
      <4>1. op[Processor] # "deplete"  BY <2>1, <2>4, <3>1 DEF ProcessorOpens
      <4>2. op'[Processor] = "open"  BY <2>4, <3>1 DEF ProcessorOpens
      <4> QED  BY <2>1, <2>2, <4>1, <4>2
    <3>2. CASE ProcessorProduces
      <4>1. op[Processor] # "deplete"  BY <2>1, <2>4, <3>2 DEF ProcessorProduces, GotChunk
      <4>2. op'[Processor] = "produce"  BY <2>4, <3>2 DEF ProcessorProduces
      <4> QED  BY <2>1, <2>2, <4>1, <4>2
    <3>3. CASE ProcessorConsumes
      <4>1. op[Processor] # "deplete"  BY <3>3 DEF ProcessorConsumes, GotChunk
      <4>2. op'[Processor] = "consume" /\ pending = <<>> /\ pending' = pending
        BY <2>4, <3>3 DEF ProcessorConsumes
      <4> QED  BY <2>1, <2>2, <4>1, <4>2
    <3>4. CASE ProcessorFinishes
      <4>1. pending' = pending /\ op[Processor] \in {"consume", "deplete"} /\ op'[Processor] = "deplete"
        BY <2>4, <3>4 DEF ProcessorFinishes
      <4>2. pc'[Processor] = "done" \/ {In, Out} \subseteq opened'[Processor]
        BY <2>4, <3>4 DEF ProcessorFinishes
      <4> QED  BY <2>1, <2>2, <4>1, <4>2
    <3> QED  BY <1>2, <2>4, <3>1, <3>2, <3>3, <3>4 DEF Main
  <2> QED  BY <2>3, <2>4
<1>3. ASSUME NEW t \in Threads, Inner(t), UNCHANGED <<todo, pending>> PROVE RoleInv'
  <2> USE DEF channelVars, threadVars
  <2>1. chan[t] \in Channels  OBVIOUS
  <2>2. op' = op /\ chan' = chan /\ pending' = pending
    BY <1>3 DEF Inner, OpenWait, OpenCheck, OpenInit, OpenPost, Lock, Unlock, SpuriousWakeup,
            ProduceTest, ProduceCopy, ConsumeTest, ConsumeCopy, Deplete
  <2>3. \A u \in Threads : opened[u] \subseteq opened'[u]
    BY <1>3 DEF Inner, OpenWait, OpenCheck, OpenInit, OpenPost, Lock, Unlock, SpuriousWakeup,
            ProduceTest, ProduceCopy, ConsumeTest, ConsumeCopy, Deplete
  <2>4. status'[Out] = "depleted" => status[Out] = "depleted" \/ op[Processor] = "deplete"
    BY <1>3, <2>1 DEF Inner, OpenWait, OpenCheck, OpenInit, OpenPost, Lock, Unlock,
            SpuriousWakeup, ProduceTest, ProduceCopy, ConsumeTest, ConsumeCopy, Deplete
  <2>5. pc[t] # "done"
    BY <1>3 DEF Inner, OpenWait, OpenCheck, OpenInit, OpenPost, Lock, Unlock, SpuriousWakeup,
            ProduceTest, ProduceCopy, ConsumeTest, ConsumeCopy, Deplete
  <2>6. \A u \in Threads \ {t} : pc[u] = "done" => pc'[u] = "done"
    <3>1. CASE ProduceCopy(t) \/ ConsumeCopy(t) \/ Deplete(t)
      BY <1>3, <2>1, <3>1, SignalEffect DEF ProduceCopy, ConsumeCopy, Deplete
    <3>2. CASE ~(ProduceCopy(t) \/ ConsumeCopy(t) \/ Deplete(t))
      BY <1>3, <3>2 DEF Inner, OpenWait, OpenCheck, OpenInit, OpenPost, Lock, Unlock,
              SpuriousWakeup, ProduceTest, ConsumeTest, CondWait
    <3> QED  BY <3>1, <3>2
  <2> QED  BY <2>2, <2>3, <2>4, <2>5, <2>6
<1> QED  BY <1>1, <1>2, <1>3, StepCases DEF Inv

\* The slot of Out holds the one chunk that was put and not yet taken, and a thread that
\* is about to copy has the status it tested.
LEMMA BoxStep == ASSUME Inv, [Next]_vars PROVE BoxInv'
<1> USE PipelineAssumption DEF Inv, TypeOK, ChannelTypeOK, BoxInv
<1>1. CASE UNCHANGED vars  BY <1>1 DEF vars, chVars
<1>2. ASSUME NEW t \in Threads, Main(t), Entry(t) PROVE BoxInv'
  <2>1. /\ status' = status /\ put' = put /\ taken' = taken /\ slot' = slot
        /\ pc'[t] # "copy"
        /\ \A u \in Threads \ {t} : op'[u] = op[u] /\ chan'[u] = chan[u] /\ pc'[u] = pc[u]
    BY <1>2 DEF Entry, Close, CallOpen, CallProduce, CallConsume, CallDeplete, Call, channelVars
  <2> QED  BY <2>1
<1>3. ASSUME NEW t \in Threads, Inner(t), UNCHANGED <<todo, pending>> PROVE BoxInv'
  <2> USE DEF channelVars, threadVars
  <2>a. chan[t] \in Channels  OBVIOUS
  <2>b. \A u \in Threads \ {t} : Holds(t) /\ Holds(u) => chan[u] # chan[t]
    BY DEF HolderOnly
  <2>c. \A u \in Threads : pc[u] = "copy" => Holds(u) /\ status[chan[u]] # "uninitialized"
    BY DEF PlaceInv, Inside, InitialisedOnce, Holds
  <2>1. CASE OpenWait(t)  BY <1>3, <2>1 DEF OpenWait
  <2>2. CASE OpenCheck(t)  BY <1>3, <2>2 DEF OpenCheck
  <2>3. CASE OpenInit(t)
    <3>1. status[chan[t]] = "uninitialized"  BY <2>3 DEF OpenInit, OnceInv
    <3>2. \A u \in Threads : pc'[u] = "copy" => pc[u] = "copy" /\ chan[u] # chan[t]
      BY <2>3, <2>c, <3>1 DEF OpenInit
    <3> QED  BY <1>3, <2>3, <2>a, <3>1, <3>2 DEF OpenInit
  <2>4. CASE OpenPost(t)  BY <1>3, <2>4 DEF OpenPost
  <2>5. CASE Lock(t)  BY <1>3, <2>5 DEF Lock
  <2>6. CASE Unlock(t)  BY <1>3, <2>6 DEF Unlock
  <2>7. CASE SpuriousWakeup(t)  BY <1>3, <2>7 DEF SpuriousWakeup
  <2>8. CASE ProduceTest(t)  BY <1>3, <2>8 DEF ProduceTest, CondWait
  <2>9. CASE ProduceCopy(t)
    <3>1. /\ pc'[t] = "unlock"
          /\ \A u \in Threads \ {t} : pc'[u] = pc[u] \/ (pc[u] = "wait" /\ pc'[u] = "lock")
      BY <2>9, <2>a, SignalEffect DEF ProduceCopy
    <3>2. Holds(t) /\ \A u \in Threads \ {t} : pc'[u] = "copy" => pc[u] = "copy" /\ chan[u] # chan[t]
      BY <2>9, <2>b, <2>c, <3>1 DEF ProduceCopy, Holds
    <3>3. chan[t] = Out => put[Out] = taken[Out]
      <4>1. chan[t] = Out => t = Processor  BY <2>9 DEF ProduceCopy, RoleInv
      <4>2. chan[t] = Out => status[Out] \notin {"depleted", "occupied"}
        BY <2>9, <4>1 DEF ProduceCopy, RoleInv
      <4> QED  BY <2>a, <4>2 DEF Status
    <3>4. op' = op /\ chan' = chan /\ taken' = taken  BY <2>9 DEF ProduceCopy
    <3>5. CASE chan[t] = Out
      <4>1. slot'[Out] = buf[t] /\ status'[Out] = "occupied" /\ put'[Out] = Append(put[Out], buf[t])
        BY <2>9, <2>a, <3>5 DEF ProduceCopy
      <4>2. \A u \in Threads : pc'[u] = "copy" => chan'[u] # Out  BY <3>1, <3>2, <3>4, <3>5
      <4> QED  BY <3>3, <3>4, <3>5, <4>1, <4>2
    <3>6. CASE chan[t] # Out
      <4>1. slot'[Out] = slot[Out] /\ status'[Out] = status[Out] /\ put'[Out] = put[Out]
        BY <2>9, <3>6 DEF ProduceCopy
      <4> QED  BY <3>1, <3>2, <3>4, <4>1
    <3> QED  BY <3>5, <3>6
  <2>10. CASE ConsumeTest(t)
    <3>1. \A u \in Threads : pc'[u] = "copy" =>
             \/ pc[u] = "copy"
             \/ u = t /\ op[t] = "consume" /\ status[chan[t]] \notin {"empty", "depleted"}
      BY <2>10 DEF ConsumeTest, CondWait
    <3>2. status[chan[t]] # "uninitialized"
      BY <2>10 DEF ConsumeTest, PlaceInv, Inside, InitialisedOnce
    <3>3. \A u \in Threads : pc'[u] = "copy" =>
             pc[u] = "copy" \/ (u = t /\ op[t] = "consume" /\ status[chan[t]] = "occupied")
      BY <2>a, <3>1, <3>2 DEF Status
    <3> QED  BY <2>10, <3>3 DEF ConsumeTest
  <2>11. CASE ConsumeCopy(t)
    <3>1. /\ pc'[t] = "unlock"
          /\ \A u \in Threads \ {t} : pc'[u] = pc[u] \/ (pc[u] = "wait" /\ pc'[u] = "lock")
      BY <2>11, <2>a, SignalEffect DEF ConsumeCopy
    <3>2. \A u \in Threads \ {t} : pc'[u] = "copy" => pc[u] = "copy" /\ chan[u] # chan[t]
      BY <2>11, <2>b, <2>c, <3>1 DEF ConsumeCopy, Holds
    <3>3. op' = op /\ chan' = chan /\ put' = put /\ slot' = slot  BY <2>11 DEF ConsumeCopy
    <3>4. CASE chan[t] = Out
      <4>1. status[Out] = "occupied"  BY <2>11, <3>4 DEF ConsumeCopy
      <4>2. status'[Out] = "empty" /\ taken'[Out] = Append(taken[Out], slot[Out])
        BY <2>11, <2>a, <3>4 DEF ConsumeCopy
      <4>3. \A u \in Threads : pc'[u] = "copy" => chan'[u] # Out  BY <3>1, <3>2, <3>3, <3>4
      <4> QED  BY <3>3, <4>1, <4>2, <4>3
    <3>5. CASE chan[t] # Out
      <4>1. status'[Out] = status[Out] /\ taken'[Out] = taken[Out]
        BY <2>11, <3>5 DEF ConsumeCopy
      <4> QED  BY <3>1, <3>2, <3>3, <4>1
    <3> QED  BY <3>4, <3>5
  <2>12. CASE Deplete(t)
    <3>1. /\ pc'[t] = "unlock"
          /\ \A u \in Threads \ {t} : pc'[u] = pc[u] \/ (pc[u] = "wait" /\ pc'[u] = "lock")
      BY <2>12, <2>a, SignalEffect DEF Deplete
    <3>2. \A u \in Threads \ {t} : pc'[u] = "copy" => pc[u] = "copy" /\ chan[u] # chan[t]
      BY <2>12, <2>b, <2>c, <3>1 DEF Deplete, Holds
    <3>3. op' = op /\ chan' = chan /\ put' = put /\ slot' = slot /\ taken' = taken
      BY <2>12 DEF Deplete
    <3>4. chan[t] = Out => status'[Out] = "depleted"  BY <2>12, <2>a DEF Deplete
    <3>5. chan[t] # Out => status'[Out] = status[Out]  BY <2>12 DEF Deplete
    <3> QED  BY <3>1, <3>2, <3>3, <3>4, <3>5
  <2> QED  BY <1>3, <2>1, <2>2, <2>3, <2>4, <2>5, <2>6, <2>7, <2>8, <2>9, <2>10, <2>11, <2>12 DEF Inner
<1> QED  BY <1>1, <1>2, <1>3, StepCases DEF Inv

-----------------------------------------------------------------------------
(* The theorems. *)

\* The invariant holds before any channel is opened.
LEMMA InitInv == Init => Inv
<1> SUFFICES ASSUME Init PROVE Inv  OBVIOUS
<1> USE PipelineAssumption DEF Init, ChannelInit
<1>1. TypeOK
  <2>1. <<>> \in Chunks /\ <<>> \in Seq(Chunks) /\ <<>> \in Seq(Char)  BY ChunkFacts
  <2>2. (CHOOSE c \in Channels : TRUE) \in Channels  OBVIOUS
  <2> QED  BY <2>1, <2>2 DEF TypeOK, ChannelTypeOK, Status, Ops, Places
<1>2. PlaceInv  BY DEF PlaceInv, Inside
<1>3. SemInv  BY DEF SemInv, Opening
<1>4. OnceInv /\ InitialisedOnce  BY DEF OnceInv, InitialisedOnce
<1>5. HolderOnly  BY DEF HolderOnly, Holds
<1>6. RoleInv  BY DEF RoleInv
<1>7. BoxInv  BY DEF BoxInv
<1> QED  BY <1>1, <1>2, <1>3, <1>4, <1>5, <1>6, <1>7 DEF Inv

\* The invariant is inductive.
LEMMA NextInv == Inv /\ [Next]_vars => Inv'
<1> SUFFICES ASSUME Inv, [Next]_vars PROVE Inv'  OBVIOUS
<1>1. TypeOK'  BY TypeStep DEF Inv
<1>2. PlaceInv'  BY PlaceStep
<1>3. SemInv'  BY SemStep
<1>4. OnceInv' /\ InitialisedOnce'  BY OnceStep
<1>5. HolderOnly'  BY MutexStep
<1>6. RoleInv'  BY RoleStep
<1>7. BoxInv'  BY BoxStep
<1> QED  BY <1>1, <1>2, <1>3, <1>4, <1>5, <1>6, <1>7 DEF Inv

\* The inductive invariant holds in every reachable state.
THEOREM Invariance == Spec => []Inv
<1>1. Init => Inv  BY InitInv
<1>2. Inv /\ [Next]_vars => Inv'  BY NextInv
<1> QED  BY <1>1, <1>2, PTL DEF Spec

\* Channels, threads and loops keep their types (channel.c, ops-double-processor.c).
THEOREM TypeCorrect == Spec => []TypeOK
<1>1. Inv => TypeOK  BY DEF Inv
<1> QED  BY <1>1, Invariance, PTL

\* However many processes call channel_open at once, one of them initialises the channel.
THEOREM OneInitialisation == Spec => []InitialisedOnce
<1>1. Inv => InitialisedOnce  BY DEF Inv
<1> QED  BY <1>1, Invariance, PTL

\* A thread that tests or changes the status and the data of a channel holds its data_mtx.
THEOREM MutualExclusion == Spec => []HolderOnly
<1>1. Inv => HolderOnly  BY DEF Inv
<1> QED  BY <1>1, Invariance, PTL

\* Out implements the abstract hand-over: channel_produce is Put, channel_consume is Take,
\* marking as depleted is Finish, and every other step is invisible.
THEOREM Promise == Spec => OutPromise
<1>1. Init => OutBox!Init
  BY PipelineAssumption DEF Init, ChannelInit, OutBox!Init
<1>2. Inv /\ [Next]_vars => [OutBox!Next]_OutBox!vars
  <2> SUFFICES ASSUME Inv, [Next]_vars PROVE [OutBox!Next]_OutBox!vars  OBVIOUS
  <2> USE DEF Inv, TypeOK, ChannelTypeOK, OutBox!vars
  <2> USE PipelineAssumption
  <2>1. CASE UNCHANGED vars  BY <2>1 DEF vars, chVars
  <2>2. ASSUME NEW t \in Threads, Main(t), Entry(t) PROVE UNCHANGED OutBox!vars
    BY <2>2 DEF Entry, Close, CallOpen, CallProduce, CallConsume, CallDeplete, Call, channelVars
  <2>3. ASSUME NEW t \in Threads, Inner(t) PROVE [OutBox!Next]_OutBox!vars
    <3>a. chan[t] \in Channels  OBVIOUS
    <3>1. CASE chan[t] = Out /\ ProduceCopy(t)
      <4>1. status[Out] \notin {"occupied", "depleted"}
        BY <3>1 DEF ProduceCopy, BoxInv, RoleInv
      <4>2. put[Out] = taken[Out]  BY <3>a, <3>1, <4>1 DEF BoxInv, Status
      <4>3. put'[Out] = Append(put[Out], buf[t]) /\ buf[t] \in Chunks
        BY <3>a, <3>1 DEF ProduceCopy
      <4>4. taken' = taken /\ status'[Out] = "occupied"  BY <3>a, <3>1 DEF ProduceCopy
      <4> QED  BY <4>1, <4>2, <4>3, <4>4 DEF OutBox!Next, OutBox!Put
    <3>2. CASE chan[t] = Out /\ ConsumeCopy(t)
      <4>1. status[Out] = "occupied" /\ put[Out] = Append(taken[Out], slot[Out])
        BY <3>2 DEF ConsumeCopy, BoxInv
      <4>2. taken[Out] \in Seq(Chunks) /\ slot[Out] \in Chunks  BY <3>a, <3>2
      <4>3. taken[Out] # put[Out]
        <5>1. Len(Append(taken[Out], slot[Out])) = Len(taken[Out]) + 1  BY <4>2
        <5>2. Len(taken[Out]) \in Nat  BY <4>2
        <5> QED  BY <4>1, <5>1, <5>2
      <4>4. taken'[Out] = put[Out] /\ put' = put /\ status'[Out] = "empty"
        BY <3>a, <3>2, <4>1 DEF ConsumeCopy
      <4> QED  BY <4>1, <4>3, <4>4 DEF OutBox!Next, OutBox!Take
    <3>3. CASE chan[t] = Out /\ Deplete(t)
      <4>1. put' = put /\ taken' = taken /\ status'[Out] = "depleted"
        BY <3>a, <3>3 DEF Deplete
      <4> QED  BY <4>1 DEF OutBox!Next, OutBox!Finish
    <3>4. CASE OpenInit(t)
      <4>1. status[chan[t]] = "uninitialized"  BY <3>4 DEF OpenInit, OnceInv
      <4> QED  BY <3>4, <3>a, <4>1 DEF OpenInit
    <3>5. CASE chan[t] # Out /\ (ProduceCopy(t) \/ ConsumeCopy(t) \/ Deplete(t))
      BY <3>a, <3>5 DEF ProduceCopy, ConsumeCopy, Deplete
    <3>6. CASE ~(OpenInit(t) \/ ProduceCopy(t) \/ ConsumeCopy(t) \/ Deplete(t))
      BY <2>3, <3>6 DEF Inner, OpenWait, OpenCheck, OpenPost, Lock, Unlock, SpuriousWakeup,
                        ProduceTest, ConsumeTest, channelVars
    <3> QED  BY <3>1, <3>2, <3>3, <3>4, <3>5, <3>6
  <2> QED  BY <2>1, <2>2, <2>3, StepCases
<1> QED  BY <1>1, <1>2, Invariance, PTL DEF Spec, OutPromise, OutBox!Spec

-----------------------------------------------------------------------------
(* The bytes of a sequence of chunks. *)

\* A set of natural numbers has a least element.
LEMMA Least ==
    ASSUME NEW X \in SUBSET Nat, X # {}
    PROVE  \E m \in X : \A n \in X : m <= n
<1>1. IsWellFoundedOn(OpToRel(<, Nat), Nat)
  BY NatLessThanWellFounded, Zenon
<1>2. PICK m \in X : \A n \in X : <<n, m>> \notin OpToRel(<, Nat)
  BY <1>1, WFMin, Zenon
<1>3. \A n \in X : ~(n < m)
  BY <1>2 DEF OpToRel
<1> QED
  BY <1>3

\* What is joined from the first k chunks, as Concat does it for k up to n.
Part(g, ss, k)    == IF k = 0 THEN <<>> ELSE g[k - 1] \o ss[k]
Joined(g, ss, n)  == g = [k \in 0..n |-> Part(g, ss, k)]

\* The recursion of Concat has a solution.
LEMMA JoinedExists ==
    ASSUME NEW ss, NEW n \in Nat
    PROVE  \E g : Joined(g, ss, n)
<1> DEFINE X == {k \in Nat : ~ \E g : Joined(g, ss, k)}
<1>1. SUFFICES ASSUME X # {} PROVE FALSE
  OBVIOUS
<1>2. PICK k \in X : \A j \in X : k <= j
  <2>1. X \in SUBSET Nat
    OBVIOUS
  <2> HIDE DEF X
  <2> QED
    BY <1>1, <2>1, Least
<1>3. k # 0
  <2> DEFINE e == [j \in 0..0 |-> <<>>]
  <2>1. Joined(e, ss, 0)
    BY DEF Joined, Part
  <2> QED
    BY <2>1, <1>2
<1>4. k - 1 \in Nat /\ k - 1 \notin X
  BY <1>2, <1>3
<1>5. PICK g : Joined(g, ss, k - 1)
  BY <1>4
<1> DEFINE h == [j \in 0..k |-> IF j = k THEN g[k - 1] \o ss[k] ELSE g[j]]
<1>6. \A j \in 0..(k - 1) : h[j] = g[j]
  BY <1>4
<1>7. \A j \in 0..k : h[j] = Part(h, ss, j)
  <2> SUFFICES ASSUME NEW j \in 0..k PROVE h[j] = Part(h, ss, j)
    OBVIOUS
  <2>1. CASE j = k
    BY <2>1, <1>3, <1>4, <1>6 DEF Part
  <2>2. CASE j # k
    <3>1. j \in 0..(k - 1) /\ h[j] = g[j]
      BY <2>2, <1>4
    <3>2. g[j] = Part(g, ss, j)
      BY <3>1, <1>5 DEF Joined
    <3>3. j # 0 => j - 1 \in 0..(k - 1)
      BY <3>1
    <3> QED
      BY <3>1, <3>2, <3>3, <1>6 DEF Part
  <2> QED
    BY <2>1, <2>2
<1>8. Joined(h, ss, k)
  <2>1. h = [j \in 0..k |-> h[j]]
    OBVIOUS
  <2> QED
    BY <2>1, <1>7 DEF Joined
<1> QED
  BY <1>8, <1>2

\* Concat is what that recursion gives for the whole sequence.
LEMMA ConcatIs ==
    ASSUME NEW ss, Len(ss) \in Nat
    PROVE  \E g : Joined(g, ss, Len(ss)) /\ Concat(ss) = g[Len(ss)]
<1> DEFINE g == CHOOSE k : Joined(k, ss, Len(ss))
<1>1. Joined(g, ss, Len(ss))
  BY JoinedExists
<1>2. Concat(ss) = g[Len(ss)]
  BY DEF Concat, Joined, Part
<1> QED
  BY <1>1, <1>2

\* Two solutions agree where their chunks do.
LEMMA JoinedAgree ==
    ASSUME NEW ss, NEW tt, NEW n \in Nat, NEW m \in Nat, NEW g, NEW h,
           Joined(g, ss, n), Joined(h, tt, m), n <= m,
           \A k \in 1..n : ss[k] = tt[k]
    PROVE  \A k \in 0..n : g[k] = h[k]
<1> DEFINE X == {k \in 0..n : g[k] # h[k]}
<1>1. SUFFICES ASSUME X # {} PROVE FALSE
  OBVIOUS
<1>2. PICK k \in X : \A j \in X : k <= j
  <2>1. X \in SUBSET Nat
    OBVIOUS
  <2> HIDE DEF X
  <2> QED
    BY <1>1, <2>1, Least
<1>3. k \in 0..n /\ k \in 0..m
  BY <1>2
<1>4. g[k] = Part(g, ss, k) /\ h[k] = Part(h, tt, k)
  BY <1>3 DEF Joined
<1>5. CASE k = 0
  BY <1>2, <1>4, <1>5 DEF Part
<1>6. CASE k # 0
  <2>1. k - 1 \in 0..n /\ k - 1 \notin X /\ ss[k] = tt[k]
    BY <1>2, <1>3, <1>6
  <2>2. g[k - 1] = h[k - 1]
    BY <2>1
  <2> QED
    BY <1>2, <1>4, <2>1, <2>2, <1>6 DEF Part
<1> QED
  BY <1>5, <1>6

\* The bytes of no chunk are none.
LEMMA ConcatNone == Concat(<<>>) = <<>>
<1>1. Len(<<>>) = 0
  OBVIOUS
<1>2. PICK g : Joined(g, <<>>, 0) /\ Concat(<<>>) = g[0]
  BY <1>1, ConcatIs
<1> QED
  BY <1>2 DEF Joined, Part

\* A chunk more is its bytes more.
LEMMA ConcatAppend ==
    ASSUME NEW ss \in Seq(Chunks), NEW s \in Chunks
    PROVE  Concat(Append(ss, s)) = Concat(ss) \o s
<1> DEFINE n == Len(ss)
           tt == Append(ss, s)
<1>1. n \in Nat /\ Len(tt) = n + 1 /\ tt[n + 1] = s /\ \A k \in 1..n : ss[k] = tt[k]
  BY LenProperties, AppendProperties
<1> HIDE DEF tt
<1>2. PICK g : Joined(g, ss, n) /\ Concat(ss) = g[n]
  BY <1>1, ConcatIs
<1>3. PICK h : Joined(h, tt, n + 1) /\ Concat(tt) = h[n + 1]
  BY <1>1, ConcatIs
<1> HIDE DEF n
<1>4. g[n] = h[n]
  BY <1>1, <1>2, <1>3, JoinedAgree
<1>5. h[n + 1] = h[n] \o tt[n + 1]
  <2>1. n + 1 \in 0..(n + 1) /\ n + 1 # 0 /\ (n + 1) - 1 = n
    BY <1>1
  <2>2. h[n + 1] = Part(h, tt, n + 1)
    BY <2>1, <1>3 DEF Joined
  <2> QED
    BY <2>1, <2>2 DEF Part
<1>6. Concat(tt) = Concat(ss) \o s
  BY <1>1, <1>2, <1>3, <1>4, <1>5
<1> QED
  BY <1>6 DEF tt

\* The bytes of chunks of bytes are bytes.
LEMMA ConcatType ==
    ASSUME NEW ss \in Seq(Chunks)
    PROVE  Concat(ss) \in Seq(Char)
<1> DEFINE n == Len(ss)
<1>1. n \in Nat /\ \A k \in 1..n : ss[k] \in Chunks
  BY LenProperties
<1>2. PICK g : Joined(g, ss, n) /\ Concat(ss) = g[n]
  BY <1>1, ConcatIs
<1> DEFINE X == {k \in 0..n : g[k] \notin Seq(Char)}
<1>3. X = {}
  <2>1. SUFFICES ASSUME X # {} PROVE FALSE
    OBVIOUS
  <2>2. PICK k \in X : \A j \in X : k <= j
    <3>1. X \in SUBSET Nat
      BY <1>1
    <3> HIDE DEF X
    <3> QED
      BY <2>1, <3>1, Least
  <2>3. g[k] = Part(g, ss, k)
    BY <2>2, <1>2 DEF Joined
  <2>4. k # 0
    <3>1. <<>> \in Seq(Char)
      BY EmptySeq
    <3> QED
      BY <2>2, <2>3, <3>1 DEF Part
  <2>5. k - 1 \in 0..n /\ k - 1 \notin X /\ k \in 1..n
    BY <2>2, <2>4, <1>1
  <2>6. g[k - 1] \in Seq(Char) /\ ss[k] \in Seq(Char)
    BY <2>5, <1>1, ChunkFacts
  <2>7. g[k - 1] \o ss[k] \in Seq(Char)
    BY <2>6, ConcatProperties
  <2> QED
    BY <2>2, <2>3, <2>4, <2>7 DEF Part
<1> QED
  BY <1>1, <1>2, <1>3

-----------------------------------------------------------------------------
(* Doubling and flushing. *)

\* Doubling distributes over concatenation.
LEMMA DoubledConcat ==
    ASSUME NEW s \in Seq(Char), NEW t \in Seq(Char)
    PROVE  Doubled(s \o t) = Doubled(s) \o Doubled(t)
<1> DEFINE a == Len(s)
           b == Len(t)
           u == s \o t
<1>1. a \in Nat /\ b \in Nat
  BY LenProperties
<1>2. u \in Seq(Char) /\ Len(u) = a + b /\ \A i \in 1..(a + b) : u[i] = IF i <= a THEN s[i] ELSE t[i - a]
  BY ConcatProperties
<1>3. /\ Doubled(s) \in Seq(Char) /\ Len(Doubled(s)) = 2 * a
      /\ Doubled(t) \in Seq(Char) /\ Len(Doubled(t)) = 2 * b
      /\ Doubled(u) \in Seq(Char) /\ Len(Doubled(u)) = 2 * (a + b)
  BY <1>2, DoubledType
<1> DEFINE v == Doubled(s) \o Doubled(t)
<1>4. /\ v \in Seq(Char) /\ Len(v) = 2 * a + 2 * b
      /\ \A i \in 1..(2 * a + 2 * b) : v[i] = IF i <= 2 * a THEN Doubled(s)[i] ELSE Doubled(t)[i - 2 * a]
  <2>1. ASSUME NEW p \in Seq(Char), NEW q \in Seq(Char)
        PROVE  /\ p \o q \in Seq(Char) /\ Len(p \o q) = Len(p) + Len(q)
               /\ \A i \in 1..(Len(p) + Len(q)) : (p \o q)[i] = IF i <= Len(p) THEN p[i] ELSE q[i - Len(p)]
    BY ConcatProperties
  <2> DEFINE p == Doubled(s)
             q == Doubled(t)
  <2> HIDE DEF a, b, p, q
  <2>2. p \in Seq(Char) /\ Len(p) = 2 * a /\ q \in Seq(Char) /\ Len(q) = 2 * b
    BY <1>3 DEF p, q
  <2>3. /\ p \o q \in Seq(Char) /\ Len(p \o q) = Len(p) + Len(q)
        /\ \A i \in 1..(Len(p) + Len(q)) : (p \o q)[i] = IF i <= Len(p) THEN p[i] ELSE q[i - Len(p)]
    BY <2>1, <2>2, Zenon
  <2>4. /\ p \o q \in Seq(Char) /\ Len(p \o q) = 2 * a + 2 * b
        /\ \A i \in 1..(2 * a + 2 * b) : (p \o q)[i] = IF i <= 2 * a THEN p[i] ELSE q[i - 2 * a]
    BY <2>2, <2>3, Zenon
  <2> QED
    BY <2>4 DEF p, q
<1>5. /\ \A i \in 1..(2 * a) : Doubled(s)[i] = s[(i + 1) \div 2]
      /\ \A i \in 1..(2 * b) : Doubled(t)[i] = t[(i + 1) \div 2]
      /\ \A i \in 1..(2 * (a + b)) : Doubled(u)[i] = u[(i + 1) \div 2]
  BY <1>2 DEF Doubled
<1> HIDE DEF a, b, u, v
<1>6. ASSUME NEW i \in 1..(2 * (a + b)) PROVE Doubled(u)[i] = v[i]
  <2> DEFINE h == (i + 1) \div 2
  <2>1. h \in 1..(a + b) /\ i \in 1..(2 * a + 2 * b)
    BY <1>1
  <2>2. Doubled(u)[i] = u[h]
    BY <1>5
  <2>3. CASE i <= 2 * a
    <3>1. h <= a /\ i \in 1..(2 * a)
      BY <2>3, <1>1
    <3>2. v[i] = Doubled(s)[i] /\ Doubled(s)[i] = s[h]
      BY <3>1, <2>1, <2>3, <1>4, <1>5
    <3> HIDE DEF h
    <3>3. u[h] = s[h]
      BY <3>1, <2>1, <1>2
    <3> QED
      BY <2>2, <3>2, <3>3
  <2>4. CASE ~(i <= 2 * a)
    <3>1. ~(h <= a) /\ i - 2 * a \in 1..(2 * b) /\ (i - 2 * a + 1) \div 2 = h - a
      BY <2>4, <1>1
    <3>2. v[i] = Doubled(t)[i - 2 * a]
      BY <2>1, <2>4, <1>4
    <3>3. Doubled(t)[i - 2 * a] = t[h - a]
      BY <3>1, <1>5
    <3> HIDE DEF h
    <3>4. u[h] = t[h - a]
      BY <3>1, <2>1, <1>2
    <3> QED
      BY <2>2, <3>2, <3>3, <3>4
  <2> QED
    BY <2>3, <2>4
<1>7. Doubled(u) = v
  BY <1>1, <1>3, <1>4, <1>6, SeqEqual
<1> QED
  BY <1>7 DEF u, v

\* Nothing doubled is nothing.
LEMMA DoubledNone == Doubled(<<>>) = <<>>
<1>1. <<>> \in Seq(Char) /\ Len(<<>>) = 0
  OBVIOUS
<1>2. Doubled(<<>>) \in Seq(Char) /\ Len(Doubled(<<>>)) = 2 * Len(<<>>)
  BY <1>1, DoubledType, Zenon
<1>3. Len(Doubled(<<>>)) = 0
  BY <1>1, <1>2
<1> QED
  BY <1>2, <1>3, EmptySeq

\* What is flushed and what is left is all there was.
LEMMA FlushAndRest ==
    ASSUME NEW s \in Seq(Char)
    PROVE  Flush(s) \o Rest(s) = s
<1> DEFINE n == IF Len(s) < Size THEN Len(s) ELSE Size
<1>1. Len(s) \in Nat /\ Size \in Nat /\ n \in 0..Len(s)
  BY ChannelAssumption, LenProperties
<1>2. Flush(s) = SubSeq(s, 1, n)
  BY DEF Flush
<1>3. Len(Flush(s)) = n
  <2>1. \A i \in 1..n : s[i] \in Char
    BY <1>1, ElementOfSeq
  <2> HIDE DEF n
  <2>2. Len(SubSeq(s, 1, n)) = IF 1 <= n THEN n - 1 + 1 ELSE 0
    BY <2>1, <1>1, SubSeqProperties
  <2> QED
    BY <2>2, <1>1, <1>2
<1> HIDE DEF n
<1>4. Rest(s) = SubSeq(s, n + 1, Len(s))
  BY <1>3 DEF Rest
<1>5. SubSeq(s, 1, n) \o SubSeq(s, n + 1, Len(s)) = SubSeq(s, 1, Len(s))
  <2>1. 1 \in 1..(Len(s) + 1) /\ n \in (1 - 1)..Len(s) /\ Len(s) \in n..Len(s)
    BY <1>1
  <2> QED
    BY <2>1, ConcatAdjacentSubSeq
<1> QED
  BY <1>2, <1>4, <1>5, SubSeqFull

-----------------------------------------------------------------------------
(* The processor at work. *)

\* The processor writes to Out and reads from In, which only it does, with both channels
\* open, and what it has still to push it has only while it is writing.
WorkInv ==
    /\ op[Processor] = "produce" => chan[Processor] = Out
    /\ op[Processor] = "consume" => chan[Processor] = In
    /\ \A t \in Threads : op[t] = "consume" /\ chan[t] = In => t = Processor
    /\ op[Processor] \in {"produce", "consume"} => {In, Out} \subseteq opened[Processor]
    /\ op[Processor] # "produce" => pending = <<>>

\* What an action of a function of the channel leaves as it was.
LEMMA InnerKeeps ==
    ASSUME TypeOK, NEW t \in Threads, Inner(t)
    PROVE  op' = op /\ chan' = chan /\ \A u \in Threads : opened[u] \subseteq opened'[u]
<1>1. op' = op /\ chan' = chan
  BY DEF Inner, OpenWait, OpenCheck, OpenInit, OpenPost, Lock, Unlock, SpuriousWakeup,
         ProduceTest, ProduceCopy, ConsumeTest, ConsumeCopy, Deplete, threadVars
<1>2. CASE OpenPost(t)
  BY <1>1, <1>2 DEF OpenPost, TypeOK, ChannelTypeOK
<1>3. CASE ~OpenPost(t)
  <2>1. opened' = opened
    BY <1>3 DEF Inner, OpenWait, OpenCheck, OpenInit, Lock, Unlock, SpuriousWakeup,
                ProduceTest, ProduceCopy, ConsumeTest, ConsumeCopy, Deplete, threadVars
  <2> QED
    BY <1>1, <2>1
<1> QED
  BY <1>2, <1>3

\* A call changes nothing of the other threads, and nothing of what went through the channels.
LEMMA EntryKeeps ==
    ASSUME TypeOK, NEW t \in Threads, Entry(t)
    PROVE  /\ pc[t] = "ready" /\ ret' = ret /\ put' = put /\ taken' = taken
           /\ \A u \in Threads \ {t} : /\ op'[u] = op[u] /\ chan'[u] = chan[u] /\ pc'[u] = pc[u]
                                       /\ opened'[u] = opened[u] /\ buf'[u] = buf[u]
  BY DEF TypeOK, ChannelTypeOK, Entry, Close, CallOpen, CallProduce, CallConsume, CallDeplete,
         Call, channelVars

\* What the processor has still to push, twice each.
Unpushed == IF GotChunk THEN Doubled(buf[Processor]) ELSE pending

\* What the loop of the processor does to its own variables.
LEMMA ProcessorCalls ==
    ASSUME Inv, WorkInv, Main(Processor)
    PROVE  \/ /\ op[Processor] \notin {"produce", "consume"} /\ op'[Processor] = "open"
              /\ pending' = pending
           \/ /\ op'[Processor] = "produce" /\ chan'[Processor] = Out /\ pc'[Processor] = "lock"
              /\ opened' = opened /\ op[Processor] \in {"produce", "consume"}
              /\ GotChunk \/ op[Processor] = "produce"
              /\ buf'[Processor] = Flush(Unpushed) /\ pending' = Rest(Unpushed)
           \/ /\ op'[Processor] = "consume" /\ chan'[Processor] = In /\ pc'[Processor] = "lock"
              /\ opened' = opened /\ {In, Out} \subseteq opened[Processor]
              /\ pending = <<>> /\ pending' = <<>>
              /\ GotChunk => buf[Processor] = <<>>
           \/ /\ op'[Processor] = "deplete" /\ pending' = pending
              /\ op[Processor] = "deplete" \/ (op[Processor] = "consume" /\ ret[Processor] = 1)
<1> USE PipelineAssumption DEF Inv, TypeOK, ChannelTypeOK, Close, CallOpen, CallProduce,
        CallConsume, CallDeplete, Call, channelVars
<1>0. Processor \in Threads
  OBVIOUS
<1>1. CASE ProcessorOpens
  BY <1>0, <1>1 DEF ProcessorOpens, WorkInv
<1>2. CASE ProcessorProduces
  <2>1. op[Processor] \in {"produce", "consume"} /\ (GotChunk \/ op[Processor] = "produce")
    BY <1>2 DEF ProcessorProduces, WorkInv, GotChunk
  <2>2. CallProduce(Processor, Out, Flush(Unpushed)) /\ pending' = Rest(Unpushed)
    BY <1>2 DEF ProcessorProduces, Unpushed
  <2>3. /\ op'[Processor] = "produce" /\ chan'[Processor] = Out /\ pc'[Processor] = "lock"
        /\ opened' = opened /\ buf'[Processor] = Flush(Unpushed)
        /\ pending' = Rest(Unpushed)
    BY <1>0, <2>2
  <2> QED
    BY <2>1, <2>3, Zenon
<1>3. CASE ProcessorConsumes
  BY <1>0, <1>3 DEF ProcessorConsumes, GotChunk
<1>4. CASE ProcessorFinishes
  BY <1>0, <1>4 DEF ProcessorFinishes
<1> QED
  BY <1>1, <1>2, <1>3, <1>4 DEF Main, PrinterStep

\* The processor keeps to its channels.
LEMMA WorkStep == ASSUME Inv, WorkInv, [Next]_vars PROVE WorkInv'
<1> USE PipelineAssumption
<1>0. Processor \in Threads
  OBVIOUS
<1>1. CASE UNCHANGED vars
  BY <1>1 DEF vars, chVars, WorkInv
<1>2. ASSUME NEW t \in Threads, Main(t), Entry(t) PROVE WorkInv'
  <2>1. \A u \in Threads \ {t} : op'[u] = op[u] /\ chan'[u] = chan[u] /\ opened'[u] = opened[u]
    BY <1>2, EntryKeeps DEF Inv
  <2>2. CASE t = Processor
    <3>1. \A u \in Threads : op'[u] = "consume" /\ chan'[u] = In => u = Processor
      BY <2>1, <2>2 DEF WorkInv
    <3>2. Main(Processor)
      BY <1>2, <2>2
    <3> QED
      BY <3>1, <3>2, ProcessorCalls DEF WorkInv, Inv, RoleInv
  <2>3. CASE t # Processor
    <3>1. pending' = pending
      BY <1>2, <2>3 DEF Main, GeneratorStep, PrinterStep
    <3>2. op'[t] = "consume" => chan'[t] # In
      BY <1>2, <2>3 DEF Main, GeneratorStep, PrinterStep, Inv, TypeOK, ChannelTypeOK, Close, CallOpen,
                        CallProduce, CallConsume, CallDeplete, Call, channelVars, WorkInv
    <3> QED
      BY <1>0, <2>1, <2>3, <3>1, <3>2 DEF WorkInv
  <2> QED
    BY <2>2, <2>3
<1>3. ASSUME NEW t \in Threads, Inner(t), UNCHANGED <<todo, pending>> PROVE WorkInv'
  <2>1. op' = op /\ chan' = chan /\ \A u \in Threads : opened[u] \subseteq opened'[u]
    BY <1>3, InnerKeeps DEF Inv
  <2> QED
    BY <1>0, <1>3, <2>1 DEF WorkInv
<1> QED
  BY <1>1, <1>2, <1>3, StepCases DEF Inv

\* What the processor holds changes by what went into Out and by what came from In.
LEMMA TwiceStep == ASSUME Inv, WorkInv, EveryCharacterTwice, [Next]_vars PROVE EveryCharacterTwice'
<1> USE PipelineAssumption
<1>0. Processor \in Threads /\ In \in Channels /\ Out \in Channels
  OBVIOUS
<1>t. TypeOK
  BY DEF Inv
<1>a. /\ put[Out] \in Seq(Chunks) /\ taken[In] \in Seq(Chunks) /\ pending \in Seq(Char)
      /\ buf[Processor] \in Chunks /\ buf[Processor] \in Seq(Char)
  BY <1>0, <1>t, ChunkFacts DEF TypeOK, ChannelTypeOK
<1>b. SUFFICES \/ Held' = Held /\ put'[Out] = put[Out] /\ taken'[In] = taken[In]
               \/ /\ put'[Out] = Append(put[Out], buf[Processor]) /\ taken'[In] = taken[In]
                  /\ Held = buf[Processor] \o pending /\ Held' = pending
               \/ /\ put'[Out] = put[Out] /\ Held = <<>>
                  /\ \E s \in Chunks : taken'[In] = Append(taken[In], s) /\ Held' = Doubled(s)
  <2>1. Concat(put[Out]) \in Seq(Char) /\ Concat(taken[In]) \in Seq(Char)
    BY <1>a, ConcatType
  <2>2. CASE Held' = Held /\ put'[Out] = put[Out] /\ taken'[In] = taken[In]
    BY <2>2 DEF EveryCharacterTwice
  <2>3. CASE /\ put'[Out] = Append(put[Out], buf[Processor]) /\ taken'[In] = taken[In]
             /\ Held = buf[Processor] \o pending /\ Held' = pending
    <3>1. Concat(put'[Out]) = Concat(put[Out]) \o buf[Processor]
      BY <1>a, <2>3, ConcatAppend
    <3>2. (Concat(put[Out]) \o buf[Processor]) \o pending = Concat(put[Out]) \o (buf[Processor] \o pending)
      <4>1. ASSUME NEW a \in Seq(Char), NEW b \in Seq(Char), NEW c \in Seq(Char)
            PROVE  (a \o b) \o c = a \o (b \o c)
        BY ConcatAssociative
      <4> QED
        BY <1>a, <2>1, <4>1, Zenon
    <3> QED
      BY <2>3, <3>1, <3>2 DEF EveryCharacterTwice
  <2>4. CASE /\ put'[Out] = put[Out] /\ Held = <<>>
             /\ \E s \in Chunks : taken'[In] = Append(taken[In], s) /\ Held' = Doubled(s)
    <3>1. PICK s \in Chunks : taken'[In] = Append(taken[In], s) /\ Held' = Doubled(s)
      BY <2>4
    <3>2. Concat(taken'[In]) = Concat(taken[In]) \o s
      BY <1>a, <3>1, ConcatAppend
    <3>3. s \in Seq(Char)
      BY ChunkFacts
    <3>4. Doubled(Concat(taken'[In])) = Doubled(Concat(taken[In])) \o Doubled(s)
      BY <2>1, <3>2, <3>3, DoubledConcat
    <3>5. Concat(put[Out]) = Doubled(Concat(taken[In]))
      BY <2>1, <2>4, ConcatEmptySeq DEF EveryCharacterTwice
    <3> QED
      BY <2>4, <3>1, <3>4, <3>5 DEF EveryCharacterTwice
  <2> QED
    BY <1>b, <2>2, <2>3, <2>4
<1>1. CASE UNCHANGED vars
  <2>1. Held' = Held
    BY <1>1 DEF vars, chVars, Held, GotChunk
  <2> QED
    BY <1>1, <2>1 DEF vars, chVars
<1>2. ASSUME NEW t \in Threads, Main(t), Entry(t)
      PROVE  Held' = Held /\ put'[Out] = put[Out] /\ taken'[In] = taken[In]
  <2>1. /\ pc[t] = "ready" /\ ret' = ret /\ put' = put /\ taken' = taken
        /\ \A u \in Threads \ {t} : op'[u] = op[u] /\ pc'[u] = pc[u] /\ buf'[u] = buf[u]
    BY <1>2, <1>t, EntryKeeps
  <2>2. CASE t # Processor
    <3>1. pending' = pending
      BY <1>2, <2>2 DEF Main, GeneratorStep, PrinterStep
    <3>2. op'[Processor] = op[Processor] /\ pc'[Processor] = pc[Processor] /\ buf'[Processor] = buf[Processor]
      BY <1>0, <2>1, <2>2
    <3> QED
      BY <2>1, <3>1, <3>2 DEF Held, GotChunk
  <2>3. CASE t = Processor
    <3>1. pc[Processor] = "ready" /\ Main(Processor)
      BY <1>2, <2>1, <2>3
    <3>2. Held = Unpushed
      BY <3>1 DEF Held, Unpushed
    <3>3. CASE op[Processor] \notin {"produce", "consume"} /\ op'[Processor] = "open" /\ pending' = pending
      BY <2>1, <3>2, <3>3 DEF Held, Unpushed, GotChunk
    <3>4. CASE /\ op'[Processor] = "produce" /\ pc'[Processor] = "lock"
               /\ buf'[Processor] = Flush(Unpushed) /\ pending' = Rest(Unpushed)
      <4>1. Unpushed \in Seq(Char)
        BY <1>a, DoubledType DEF Unpushed
      <4>2. Held' = Flush(Unpushed) \o Rest(Unpushed)
        BY <3>4 DEF Held
      <4> QED
        BY <2>1, <3>2, <4>1, <4>2, FlushAndRest
    <3>5. CASE /\ op'[Processor] = "consume" /\ pc'[Processor] = "lock" /\ pending = <<>> /\ pending' = <<>>
               /\ GotChunk => buf[Processor] = <<>>
      <4>1. Unpushed = <<>>
        BY <3>5, DoubledNone DEF Unpushed
      <4>2. Held' = <<>>
        BY <3>5 DEF Held
      <4> QED
        BY <2>1, <3>2, <4>1, <4>2
    <3>6. CASE /\ op'[Processor] = "deplete" /\ pending' = pending
               /\ op[Processor] = "deplete" \/ (op[Processor] = "consume" /\ ret[Processor] = 1)
      BY <2>1, <3>2, <3>6 DEF Held, Unpushed, GotChunk
    <3> QED
      BY <3>1, <3>3, <3>4, <3>5, <3>6, ProcessorCalls
  <2> QED
    BY <2>2, <2>3
<1>3. ASSUME NEW t \in Threads, Inner(t), UNCHANGED <<todo, pending>>, t # Processor
      PROVE  Held' = Held /\ put'[Out] = put[Out] /\ taken'[In] = taken[In]
  <2> USE <1>0, <1>3 DEF Inv, TypeOK, ChannelTypeOK, threadVars, channelVars
  <2>0. chan[t] \in Channels
    OBVIOUS
  <2>1. CASE ProduceCopy(t)
    <3>1. chan[t] # Out
      BY <2>1 DEF ProduceCopy, RoleInv
    <3>2. pc'[Processor] = pc[Processor] \/ (pc[Processor] = "wait" /\ pc'[Processor] = "lock")
      BY <2>0, <2>1, SignalEffect DEF ProduceCopy
    <3>3. put'[Out] = put[Out] /\ taken' = taken /\ op' = op /\ buf' = buf /\ ret' = ret
      BY <2>1, <3>1 DEF ProduceCopy
    <3> QED
      BY <3>2, <3>3 DEF Held, GotChunk
  <2>2. CASE ConsumeCopy(t)
    <3>1. chan[t] # In
      BY <2>2 DEF ConsumeCopy, WorkInv
    <3>2. pc'[Processor] = pc[Processor] \/ (pc[Processor] = "wait" /\ pc'[Processor] = "lock")
      BY <2>0, <2>2, SignalEffect DEF ConsumeCopy
    <3>3. /\ put' = put /\ taken'[In] = taken[In] /\ op' = op
          /\ buf'[Processor] = buf[Processor] /\ ret'[Processor] = ret[Processor]
      BY <2>2, <3>1 DEF ConsumeCopy
    <3> QED
      BY <3>2, <3>3 DEF Held, GotChunk
  <2>3. CASE Deplete(t)
    <3>1. pc'[Processor] = pc[Processor] \/ (pc[Processor] = "wait" /\ pc'[Processor] = "lock")
      BY <2>0, <2>3, SignalEffect DEF Deplete
    <3>2. put' = put /\ taken' = taken /\ op' = op /\ buf' = buf /\ ret' = ret
      BY <2>3 DEF Deplete
    <3> QED
      BY <3>1, <3>2 DEF Held, GotChunk
  <2>4. CASE ~(ProduceCopy(t) \/ ConsumeCopy(t) \/ Deplete(t))
    <3>1. /\ put' = put /\ taken' = taken /\ op' = op /\ buf' = buf
          /\ ret'[Processor] = ret[Processor] /\ pc'[Processor] = pc[Processor]
      BY <2>4 DEF Inner, OpenWait, OpenCheck, OpenInit, OpenPost, Lock, Unlock, SpuriousWakeup,
                  ProduceTest, ConsumeTest, CondWait
    <3> QED
      BY <3>1 DEF Held, GotChunk
  <2> QED
    BY <2>1, <2>2, <2>3, <2>4
<1>4. ASSUME Inner(Processor), UNCHANGED <<todo, pending>>,
             ~(ProduceCopy(Processor) \/ ConsumeCopy(Processor))
      PROVE  Held' = Held /\ put'[Out] = put[Out] /\ taken'[In] = taken[In]
  <2> USE <1>0, <1>4 DEF Inv, TypeOK, ChannelTypeOK, threadVars, channelVars
  <2>1. put' = put /\ taken' = taken /\ op' = op /\ buf' = buf
    BY DEF Inner, OpenWait, OpenCheck, OpenInit, OpenPost, Lock, Unlock, SpuriousWakeup,
           ProduceTest, ConsumeTest, Deplete
  <2>2. CASE \/ OpenWait(Processor) \/ OpenCheck(Processor) \/ OpenInit(Processor)
             \/ OpenPost(Processor) \/ Deplete(Processor)
    <3>1. op[Processor] \in {"open", "deplete"}
      BY <2>2 DEF OpenWait, OpenCheck, OpenInit, OpenPost, Deplete, PlaceInv
    <3> QED
      BY <2>1, <3>1 DEF Held, GotChunk
  <2>3. CASE Lock(Processor)
    BY <2>1, <2>3 DEF Lock, Held, GotChunk
  <2>4. CASE Unlock(Processor)
    BY <2>1, <2>4 DEF Unlock, Held, GotChunk
  <2>5. CASE SpuriousWakeup(Processor)
    BY <2>1, <2>5 DEF SpuriousWakeup, Held, GotChunk
  <2>6. CASE ProduceTest(Processor)
    BY <2>1, <2>6 DEF ProduceTest, CondWait, Held, GotChunk
  <2>7. CASE ConsumeTest(Processor)
    BY <2>1, <2>7 DEF ConsumeTest, CondWait, Held, GotChunk
  <2> QED
    BY <2>2, <2>3, <2>4, <2>5, <2>6, <2>7 DEF Inner
<1>5. ASSUME ProduceCopy(Processor), UNCHANGED <<todo, pending>>
      PROVE  /\ put'[Out] = Append(put[Out], buf[Processor]) /\ taken'[In] = taken[In]
             /\ Held = buf[Processor] \o pending /\ Held' = pending
  <2>1. chan[Processor] = Out /\ op[Processor] = "produce" /\ pc[Processor] = "copy"
    BY <1>5 DEF ProduceCopy, WorkInv
  <2>2. pc'[Processor] = "unlock" /\ op'[Processor] = "produce"
    BY <1>0, <1>t, <1>5, <2>1, SignalEffect DEF ProduceCopy, threadVars
  <2>3. put'[Out] = Append(put[Out], buf[Processor]) /\ taken' = taken
    BY <1>0, <1>t, <1>5, <2>1 DEF ProduceCopy, TypeOK, ChannelTypeOK
  <2> QED
    BY <1>5, <2>1, <2>2, <2>3 DEF Held, GotChunk
<1>6. ASSUME ConsumeCopy(Processor), UNCHANGED <<todo, pending>>
      PROVE  /\ put'[Out] = put[Out] /\ Held = <<>>
             /\ \E s \in Chunks : taken'[In] = Append(taken[In], s) /\ Held' = Doubled(s)
  <2>1. chan[Processor] = In /\ op[Processor] = "consume" /\ pc[Processor] = "copy" /\ pending = <<>>
    BY <1>6 DEF ConsumeCopy, WorkInv
  <2>2. pc'[Processor] = "unlock" /\ op'[Processor] = "consume"
    BY <1>0, <1>t, <1>6, <2>1, SignalEffect DEF ConsumeCopy
  <2>3. /\ taken'[In] = Append(taken[In], slot[In]) /\ put' = put /\ slot[In] \in Chunks
        /\ buf'[Processor] = slot[In] /\ ret'[Processor] = 0
    BY <1>0, <1>t, <1>6, <2>1 DEF ConsumeCopy, TypeOK, ChannelTypeOK
  <2> QED
    BY <1>6, <2>1, <2>2, <2>3 DEF Held, GotChunk
<1> QED
  BY <1>t, <1>1, <1>2, <1>3, <1>4, <1>5, <1>6, StepCases

\* ops-double-processor writes every character it read twice, in order, over any input and
\* any channel size: no flush loses, repeats or splits a pair.
THEOREM TwiceInOrder == Spec => []EveryCharacterTwice
<1> DEFINE I == Inv /\ WorkInv /\ EveryCharacterTwice
<1>1. Init => I
  <2> SUFFICES ASSUME Init PROVE I
    OBVIOUS
  <2> USE PipelineAssumption DEF Init, ChannelInit
  <2>1. Inv
    BY InitInv
  <2>2. WorkInv
    BY DEF WorkInv
  <2>3. Held = <<>> /\ put[Out] = <<>> /\ taken[In] = <<>>
    BY DEF Held, GotChunk
  <2>4. <<>> \o <<>> = <<>>
    OBVIOUS
  <2>5. EveryCharacterTwice
    BY <2>3, <2>4, ConcatNone, DoubledNone DEF EveryCharacterTwice
  <2> QED
    BY <2>1, <2>2, <2>5
<1>2. I /\ [Next]_vars => I'
  BY NextInv, WorkStep, TwiceStep
<1>3. I => EveryCharacterTwice
  OBVIOUS
<1> QED
  BY <1>1, <1>2, <1>3, PTL DEF Spec
=============================================================================
