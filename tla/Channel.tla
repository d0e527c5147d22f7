------------------------------- MODULE Channel -------------------------------
(***************************************************************************)
(* The shared-memory channel of lab06/channel: channel.c and channel.h.    *)
(*                                                                         *)
(* A channel is one buffer in a named shared-memory object, with a status, *)
(* a process-shared mutex data_mtx and two condition variables.  A thread  *)
(* (one per process of the lab) calls channel_open, channel_produce and    *)
(* channel_consume; the last lines of ops-double-processor.c, which mark   *)
(* the output channel as depleted, are the fourth operation.               *)
(*                                                                         *)
(* Each operation is cut where another process can run: the semaphore and  *)
(* the mutex are taken and released in steps of their own, the status is   *)
(* tested in one step and acted on in the next, and pthread_cond_wait      *)
(* releases the mutex and blocks in one step.  A caller's module says      *)
(* which thread calls what, and composes these actions.                    *)
(***************************************************************************)
EXTENDS Naturals, Sequences, FiniteSets

CONSTANTS Channels,  \* the named shared-memory objects
          Threads,   \* the processes that map them
          Char,      \* the bytes
          Size,      \* CHANNEL_SIZE, the bytes a channel's data[] can hold
          NoThread   \* the owner of an unlocked mutex

ASSUME ChannelAssumption ==
    /\ NoThread \notin Threads
    /\ Size \in Nat \ {0}

\* What fits a channel: data[0..length-1].
Chunks == UNION {[1..n -> Char] : n \in 0..Size}

VARIABLES
    status,    \* status[c]: the status byte of c
    slot,      \* slot[c]: data[0..length-1] of c
    data_mtx,  \* data_mtx[c]: the thread that holds c's mutex
    sem,       \* sem[c]: value of the named semaphore that goes with c
    inits,     \* inits[c]: how often c's mutex and conditions were initialised
    pc,        \* pc[t]: where t is in the function it called
    op,        \* op[t]: the function t is in, or was last in
    chan,      \* chan[t]: the channel t passed to it
    buf,       \* buf[t]: t's data argument
    ret,       \* ret[t]: what t's last channel_consume returned
    opened,    \* opened[t]: the channels t has mapped
    put,       \* put[c]: history of the chunks written to c
    taken      \* taken[c]: history of the chunks read from c

channelVars == <<status, slot, inits, put, taken>>
threadVars  == <<op, chan, buf, ret, opened>>
chVars      == <<status, slot, data_mtx, sem, inits, pc, op, chan, buf, ret,
                 opened, put, taken>>

Status == {"uninitialized", "empty", "occupied", "depleted"}
Ops    == {"none", "open", "produce", "consume", "deplete"}
Places == {"ready", "sem", "check", "init", "post",
           "lock", "test", "wait", "copy", "unlock", "done"}

\* A thread is in a critical section of its channel's mutex.
Holds(t) == /\ op[t] \in {"produce", "consume", "deplete"}
            /\ pc[t] \in {"test", "copy", "unlock"}

\* Threads blocked in pthread_cond_wait on the two condition variables of c.
Waiting(c, o)  == {t \in Threads : pc[t] = "wait" /\ op[t] = o /\ chan[t] = c}
producer_cv(c) == Waiting(c, "produce")
consumer_cv(c) == Waiting(c, "consume")

ChannelInit ==
    /\ status   = [c \in Channels |-> "uninitialized"]
    /\ slot     = [c \in Channels |-> <<>>]
    /\ data_mtx = [c \in Channels |-> NoThread]
    /\ sem      = [c \in Channels |-> 1]
    /\ inits    = [c \in Channels |-> 0]
    /\ pc       = [t \in Threads |-> "ready"]
    /\ op       = [t \in Threads |-> "none"]
    /\ chan     = [t \in Threads |-> CHOOSE c \in Channels : TRUE]
    /\ buf      = [t \in Threads |-> <<>>]
    /\ ret      = [t \in Threads |-> 0]
    /\ opened   = [t \in Threads |-> {}]
    /\ put      = [c \in Channels |-> <<>>]
    /\ taken    = [c \in Channels |-> <<>>]

-----------------------------------------------------------------------------
(* The calls a thread may make when it is not in a function of the channel. *)

\* Enter function o on channel c, with the data argument d.
Call(t, o, c, d, first) ==
    /\ pc[t] = "ready"
    /\ pc'   = [pc EXCEPT ![t] = first]
    /\ op'   = [op EXCEPT ![t] = o]
    /\ chan' = [chan EXCEPT ![t] = c]
    /\ buf'  = [buf EXCEPT ![t] = d]
    /\ UNCHANGED <<channelVars, data_mtx, sem, ret, opened>>

CallOpen(t, c)       == Call(t, "open", c, <<>>, "sem")
CallProduce(t, c, d) == Call(t, "produce", c, d, "lock")
CallConsume(t, c)    == Call(t, "consume", c, <<>>, "lock")
CallDeplete(t, c)    == Call(t, "deplete", c, <<>>, "lock")

-----------------------------------------------------------------------------
(* channel_open: sem_open, sem_wait, map, initialise once, sem_post. *)

\* A channel_open without the semaphore, as a mutant.
OpenWaitNoSem(t) ==
    /\ pc[t] = "sem"
    /\ pc' = [pc EXCEPT ![t] = "check"]
    /\ UNCHANGED <<channelVars, threadVars, data_mtx, sem>>

OpenWait(t) ==
    /\ pc[t] = "sem"
    /\ sem[chan[t]] > 0
    /\ sem' = [sem EXCEPT ![chan[t]] = @ - 1]
    /\ pc' = [pc EXCEPT ![t] = "check"]
    /\ UNCHANGED <<channelVars, threadVars, data_mtx>>

OpenCheck(t) ==
    /\ pc[t] = "check"
    /\ pc' = [pc EXCEPT ![t] =
                 IF status[chan[t]] = "uninitialized" THEN "init" ELSE "post"]
    /\ UNCHANGED <<channelVars, threadVars, data_mtx, sem>>

OpenInit(t) ==
    /\ pc[t] = "init"
    /\ status'   = [status EXCEPT ![chan[t]] = "empty"]
    /\ slot'     = [slot EXCEPT ![chan[t]] = <<>>]
    /\ data_mtx' = [data_mtx EXCEPT ![chan[t]] = NoThread]
    /\ inits'    = [inits EXCEPT ![chan[t]] = @ + 1]
    /\ pc' = [pc EXCEPT ![t] = "post"]
    /\ UNCHANGED <<threadVars, sem, put, taken>>

OpenPost(t) ==
    /\ pc[t] = "post"
    /\ sem'    = [sem EXCEPT ![chan[t]] = @ + 1]
    /\ opened' = [opened EXCEPT ![t] = @ \union {chan[t]}]
    /\ pc'     = [pc EXCEPT ![t] = "ready"]
    /\ UNCHANGED <<channelVars, data_mtx, op, chan, buf, ret>>

-----------------------------------------------------------------------------
(* The mutex and the condition variables. *)

\* A mutex that is not PTHREAD_PROCESS_SHARED: each process takes its own.  A mutant.
LockPrivate(t) ==
    /\ pc[t] = "lock"
    /\ data_mtx' = [data_mtx EXCEPT ![chan[t]] = t]
    /\ pc' = [pc EXCEPT ![t] = "test"]
    /\ UNCHANGED <<channelVars, threadVars, sem>>

Lock(t) ==
    /\ pc[t] = "lock"
    /\ data_mtx[chan[t]] = NoThread
    /\ data_mtx' = [data_mtx EXCEPT ![chan[t]] = t]
    /\ pc' = [pc EXCEPT ![t] = "test"]
    /\ UNCHANGED <<channelVars, threadVars, sem>>

Unlock(t) ==
    /\ pc[t] = "unlock"
    /\ data_mtx' = [data_mtx EXCEPT ![chan[t]] = NoThread]
    /\ pc' = [pc EXCEPT ![t] = "ready"]
    /\ UNCHANGED <<channelVars, threadVars, sem>>

\* pthread_cond_wait: release the mutex and block, in one step.
CondWait(t) ==
    /\ data_mtx' = [data_mtx EXCEPT ![chan[t]] = NoThread]
    /\ pc' = [pc EXCEPT ![t] = "wait"]

\* pthread_cond_wait may return though nobody signalled.
SpuriousWakeup(t) ==
    /\ pc[t] = "wait"
    /\ pc' = [pc EXCEPT ![t] = "lock"]
    /\ UNCHANGED <<channelVars, threadVars, data_mtx, sem>>

\* pthread_cond_signal by t: one of the waiting threads has to take the mutex again.
Signal(t, W) ==
    IF W = {}
    THEN pc' = [pc EXCEPT ![t] = "unlock"]
    ELSE \E w \in W : pc' = [pc EXCEPT ![t] = "unlock", ![w] = "lock"]

\* pthread_cond_broadcast by t.
Broadcast(t, W) ==
    pc' = [u \in Threads |-> IF u = t THEN "unlock"
                             ELSE IF u \in W THEN "lock" ELSE pc[u]]

-----------------------------------------------------------------------------
(* channel_produce *)

\* A producer that does not look at the status, as a mutant.
ProduceBlindly(t) ==
    /\ pc[t] = "test" /\ op[t] = "produce"
    /\ pc' = [pc EXCEPT ![t] = "copy"]
    /\ UNCHANGED <<channelVars, threadVars, sem, data_mtx>>

\* while (status == CHANNEL_OCCUPIED) pthread_cond_wait(&producer_cv, ...)
ProduceTest(t) ==
    /\ pc[t] = "test" /\ op[t] = "produce"
    /\ IF status[chan[t]] = "occupied"
       THEN CondWait(t)
       ELSE pc' = [pc EXCEPT ![t] = "copy"] /\ UNCHANGED data_mtx
    /\ UNCHANGED <<channelVars, threadVars, sem>>

ProduceCopy(t) ==
    /\ pc[t] = "copy" /\ op[t] = "produce"
    /\ slot'   = [slot EXCEPT ![chan[t]] = buf[t]]
    /\ status' = [status EXCEPT ![chan[t]] = "occupied"]
    /\ put'    = [put EXCEPT ![chan[t]] = Append(@, buf[t])]
    /\ Signal(t, consumer_cv(chan[t]))
    /\ UNCHANGED <<threadVars, data_mtx, sem, inits, taken>>

-----------------------------------------------------------------------------
(* channel_consume *)

\* while (status == CHANNEL_EMPTY) wait; if (status == CHANNEL_DEPLETED) return 1
ConsumeTest(t) ==
    /\ pc[t] = "test" /\ op[t] = "consume"
    /\ \/ /\ status[chan[t]] = "empty"
          /\ CondWait(t)
          /\ UNCHANGED ret
       \/ /\ status[chan[t]] = "depleted"
          /\ ret' = [ret EXCEPT ![t] = 1]
          /\ pc' = [pc EXCEPT ![t] = "unlock"]
          /\ UNCHANGED data_mtx
       \/ /\ status[chan[t]] \notin {"empty", "depleted"}
          /\ pc' = [pc EXCEPT ![t] = "copy"]
          /\ UNCHANGED <<data_mtx, ret>>
    /\ UNCHANGED <<channelVars, op, chan, buf, opened, sem>>

ConsumeCopy(t) ==
    /\ pc[t] = "copy" /\ op[t] = "consume"
    /\ buf'    = [buf EXCEPT ![t] = slot[chan[t]]]
    /\ status' = [status EXCEPT ![chan[t]] = "empty"]
    /\ ret'    = [ret EXCEPT ![t] = 0]
    /\ taken'  = [taken EXCEPT ![chan[t]] = Append(@, slot[chan[t]])]
    /\ Signal(t, producer_cv(chan[t]))
    /\ UNCHANGED <<slot, data_mtx, sem, inits, op, chan, opened, put>>

-----------------------------------------------------------------------------
(* Marking a channel as depleted: the last lines of ops-double-processor.c. *)

\* Deplete with a signal in place of the broadcast, as a mutant.
DepleteSignalsOne(t) ==
    /\ pc[t] = "test" /\ op[t] = "deplete"
    /\ status' = [status EXCEPT ![chan[t]] = "depleted"]
    /\ Signal(t, consumer_cv(chan[t]))
    /\ UNCHANGED <<threadVars, data_mtx, sem, slot, inits, put, taken>>

Deplete(t) ==
    /\ pc[t] = "test" /\ op[t] = "deplete"
    /\ status' = [status EXCEPT ![chan[t]] = "depleted"]
    /\ Broadcast(t, consumer_cv(chan[t]))
    /\ UNCHANGED <<threadVars, data_mtx, sem, slot, inits, put, taken>>

\* channel_close: unmap.
Close(t) ==
    /\ pc[t] = "ready"
    /\ pc' = [pc EXCEPT ![t] = "done"]
    /\ opened' = [opened EXCEPT ![t] = {}]
    /\ UNCHANGED <<channelVars, data_mtx, sem, op, chan, buf, ret>>

-----------------------------------------------------------------------------
\* One step of a function of the channel that t is in.
OpenStep(t)    == OpenWait(t) \/ OpenCheck(t) \/ OpenInit(t) \/ OpenPost(t)
ProduceStep(t) == ProduceTest(t) \/ ProduceCopy(t)
ConsumeStep(t) == ConsumeTest(t) \/ ConsumeCopy(t)

ChannelTypeOK ==
    /\ status   \in [Channels -> Status]
    /\ slot     \in [Channels -> Chunks]
    /\ data_mtx \in [Channels -> Threads \union {NoThread}]
    /\ sem      \in [Channels -> Nat]
    /\ inits    \in [Channels -> Nat]
    /\ pc       \in [Threads -> Places]
    /\ op       \in [Threads -> Ops]
    /\ chan     \in [Threads -> Channels]
    /\ buf      \in [Threads -> Chunks]
    /\ ret      \in [Threads -> {0, 1}]
    /\ opened   \in [Threads -> SUBSET Channels]
    /\ put      \in [Channels -> Seq(Chunks)]
    /\ taken    \in [Channels -> Seq(Chunks)]
=============================================================================
