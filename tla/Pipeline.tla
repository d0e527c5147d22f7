------------------------------ MODULE Pipeline ------------------------------
(***************************************************************************)
(* lab06/channel: the programs that run on two channels.                   *)
(*                                                                         *)
(*   generator --In--> ops-double-processor --Out--> printers              *)
(*                                                                         *)
(* Only ops-double-processor.c has its source in the repository; the       *)
(* generator and the printers are binaries that use the same four channel  *)
(* operations (a generator produces the pieces of its file and marks In as *)
(* depleted; a printer consumes until channel_consume returns 1).          *)
(***************************************************************************)
EXTENDS Channel

CONSTANTS Generator, Processor, Printers,  \* the processes
          In, Out,                         \* the two channels
          Input                            \* the chunks the generator produces

ASSUME PipelineAssumption ==
    /\ Threads = {Generator, Processor} \union Printers
    /\ Generator # Processor
    /\ Generator \notin Printers /\ Processor \notin Printers
    /\ Channels = {In, Out} /\ In # Out
    /\ Input \in Seq(Chunks)

\* An input for model checking: chunks of one and of two characters, with channels of size three,
\* so that the processor flushes a partial buffer, a full one and a remainder.
Sample == CHOOSE s \in {<< <<x>>, <<y, x>> >> : x, y \in Char} : s[2][1] # s[2][2]

VARIABLES
    todo,     \* the chunks the generator has still to produce
    pending   \* characters the processor has still to push: each of in_buf, twice

vars == <<chVars, todo, pending>>

Init == ChannelInit /\ todo = Input /\ pending = <<>>

-----------------------------------------------------------------------------
\* The inner loop of the processor writes every character of in_buf twice.
Doubled(s) == [i \in 1..(2 * Len(s)) |-> s[(i + 1) \div 2]]

\* out_buf when it is flushed: full, or what is left when in_buf is exhausted.
FlushLate(s) == SubSeq(s, 1, IF Len(s) < Size THEN Len(s) ELSE Size + 1)  \* a mutant
Flush(s) == SubSeq(s, 1, IF Len(s) < Size THEN Len(s) ELSE Size)
RestSkips(s) == SubSeq(s, Len(Flush(s)) + 2, Len(s))                     \* a mutant
Rest(s) == SubSeq(s, Len(Flush(s)) + 1, Len(s))

GeneratorStep ==
    /\ UNCHANGED pending
    /\ \/ /\ In \notin opened[Generator]
          /\ CallOpen(Generator, In)
          /\ UNCHANGED todo
       \/ /\ In \in opened[Generator]
          /\ todo # <<>>
          /\ CallProduce(Generator, In, Head(todo))
          /\ todo' = Tail(todo)
       \/ /\ In \in opened[Generator]
          /\ todo = <<>>
          /\ op[Generator] # "deplete"
          /\ CallDeplete(Generator, In)
          /\ UNCHANGED todo
       \/ /\ op[Generator] = "deplete"
          /\ Close(Generator)
          /\ UNCHANGED todo

\* channel_open(argv[1]), then channel_open(argv[2]).
ProcessorOpens ==
    /\ \/ In \notin opened[Processor] /\ CallOpen(Processor, In)
       \/ In \in opened[Processor] /\ Out \notin opened[Processor] /\ CallOpen(Processor, Out)
    /\ UNCHANGED <<todo, pending>>

\* A chunk was consumed: its characters are now to be pushed.
GotChunk == op[Processor] = "consume" /\ ret[Processor] = 0

\* The processor flushes out_buf into Out; after a consume it starts the inner loop.
ProcessorProduces ==
    LET s == IF GotChunk THEN Doubled(buf[Processor]) ELSE pending
    IN  /\ Out \in opened[Processor]
        /\ s # <<>>
        /\ CallProduce(Processor, Out, Flush(s))
        /\ pending' = Rest(s)
        /\ UNCHANGED todo

\* while (channel_consume(ch_in, in_buf, &in_len) == 0)
ProcessorConsumes ==
    /\ {In, Out} \subseteq opened[Processor]
    /\ pending = <<>>
    /\ \/ op[Processor] \in {"open", "produce"}
       \/ GotChunk /\ buf[Processor] = <<>>
    /\ CallConsume(Processor, In)
    /\ UNCHANGED <<todo, pending>>

\* The loop ended: lock, status = CHANNEL_DEPLETED, broadcast, unlock; then close.
ProcessorFinishes ==
    /\ \/ /\ {In, Out} \subseteq opened[Processor]
          /\ op[Processor] = "consume" /\ ret[Processor] = 1
          /\ CallDeplete(Processor, Out)
       \/ op[Processor] = "deplete" /\ Close(Processor)
    /\ UNCHANGED <<todo, pending>>

PrinterStep(t) ==
    /\ \/ Out \notin opened[t] /\ CallOpen(t, Out)
       \/ Out \in opened[t] /\ ret[t] = 0 /\ CallConsume(t, Out)
       \/ ret[t] = 1 /\ Close(t)
    /\ UNCHANGED <<todo, pending>>

Main(t) ==
    \/ t = Generator /\ GeneratorStep
    \/ t = Processor /\ (ProcessorOpens \/ ProcessorProduces
                         \/ ProcessorConsumes \/ ProcessorFinishes)
    \/ t \in Printers /\ PrinterStep(t)

Called(t) ==
    /\ OpenStep(t) \/ Unlock(t) \/ ProduceStep(t) \/ ConsumeStep(t) \/ Deplete(t)
    /\ UNCHANGED <<todo, pending>>

Acquire(t) == Lock(t) /\ UNCHANGED <<todo, pending>>
Spurious(t) == SpuriousWakeup(t) /\ UNCHANGED <<todo, pending>>

Finished == \A t \in Threads : pc[t] = "done"

\* The lab is over; the step keeps a finished run from being a deadlock.
Stop == Finished /\ UNCHANGED vars

Next == \/ \E t \in Threads : Main(t) \/ Called(t) \/ Acquire(t) \/ Spurious(t)
        \/ Stop

\* Every process runs.  A mutex and a semaphore are taken from among the
\* threads that compete for it, so a thread is only sure to get one that is
\* free again and again: strong fairness for the two acquisitions.
Fairness == \A t \in Threads : /\ WF_vars(Main(t))
                               /\ WF_vars(Called(t))
                               /\ SF_vars(Acquire(t))
                               /\ SF_vars(OpenWait(t) /\ UNCHANGED <<todo, pending>>)

Spec     == Init /\ [][Next]_vars
FairSpec == Spec /\ Fairness

-----------------------------------------------------------------------------
(* Properties. *)

\* Type invariant of the two channels, the threads and the loops of the programs.
TypeOK == ChannelTypeOK /\ todo \in Seq(Chunks) /\ pending \in Seq(Char)

\* Two processes that open a channel at once do not both initialise it: a second
\* initialisation would reset the mutex under a holder and drop a chunk
\* (channel_open's test of CHANNEL_UNINITIALIZED under the semaphore).
InitialisedOnce ==
    \A c \in Channels : /\ inits[c] <= 1
                        /\ \A t \in Threads : c \in opened[t] => status[c] # "uninitialized"

\* No chunk is produced or consumed but by the thread that holds data_mtx.
HolderOnly == \A t \in Threads : Holds(t) => data_mtx[chan[t]] = t

\* Out does what channel.h promises of a channel: chunks arrive one at a time, once, in
\* order, and none after the channel is depleted (channel_produce, channel_consume).
OutBox == INSTANCE Handoff WITH sent <- put[Out], received <- taken[Out],
                                finished <- (status[Out] = "depleted")
OutPromise == OutBox!Spec

\* What is written to Out, then what the processor still holds, is every character it
\* read, twice, in order: no flush loses, repeats or splits a pair (the loop of
\* ops-double-processor.c).
Held == IF op[Processor] = "produce" /\ pc[Processor] \in {"lock", "test", "wait", "copy"}
        THEN buf[Processor] \o pending
        ELSE IF GotChunk /\ pc[Processor] \in {"unlock", "ready"}
             THEN Doubled(buf[Processor])
             ELSE pending
Concat(ss) ==
    LET upto[n \in 0..Len(ss)] == IF n = 0 THEN <<>> ELSE upto[n - 1] \o ss[n]
    IN  upto[Len(ss)]
EveryCharacterTwice == Concat(put[Out]) \o Held = Doubled(Concat(taken[In]))

\* Every process that was started ends: no wake-up is lost, neither of the one signalled
\* consumer nor of the many that wait when the channel is depleted.
Terminates == <>Finished

\* channel.h: CHANNEL_OCCUPIED means valid data to pass to a consumer.  So when all is
\* over, what the processor produced was consumed.
EveryChunkArrives == Finished => taken[Out] = put[Out]
=============================================================================
