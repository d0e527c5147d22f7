------------------------------ MODULE Provinces ------------------------------
(***************************************************************************)
(* lab05/generated/generated.c: directives, single letters, flood a map of *)
(* provinces.  Casa Rosada passes what it reads from its FIFO on to        *)
(* province 0; a province passes a directive on along all roads that lead  *)
(* from it, unless it is the same as the last one.  A province ends when   *)
(* all its incoming pipes are at their end, and so does the program when   *)
(* the provinces have ended one after the other.                           *)
(*                                                                         *)
(* A province polls its inputs in turn, without blocking; it blocks when   *)
(* it writes to a full pipe.  SIGINT reaches the processes one by one.     *)
(***************************************************************************)
EXTENDS Pipes

CONSTANTS N,           \* provinces 0..N-1
          Roads,       \* the roads, pairs of provinces
          Directives   \* the letters that come through the FIFO, in order

Province   == 0..(N - 1)
CasaRosada == N
Everyone   == 0..N
Letter     == {Directives[i] : i \in DOMAIN Directives}

\* What must hold of the map; assumed where it is given its value.
ProperMap ==
    /\ N \in Nat \ {0}
    /\ Roads \subseteq {r \in Province \X Province : r[1] # r[2]}
    /\ Directives \in Seq(Letter) /\ "" \notin Letter

VARIABLES
    pc,           \* pc[q]: where process q is
    turn,         \* turn[k]: index of the input that province k polls next
    last_char,    \* last_char[k]: the last directive of province k
    todo,         \* todo[k]: the roads along which it is still to be sent
    next,         \* index of the directive that Casa Rosada reads next
    interrupted,  \* whose keep_running was cleared by SIGINT
    heard         \* history: heard[k], the directives province k has taken

local == <<pc, turn, last_char, todo, next, interrupted, heard>>
vars  == <<pipes, local>>

boss_to_p0 == <<CasaRosada, 0>>
Edges      == Roads \union {boss_to_p0}

\* in_fds: by the number of the province a road comes from; boss_to_p0 is the last one.
In(k) ==
    LET ins == {e \in Edges : e[2] = k}
    IN  CHOOSE s \in [1..Cardinality(ins) -> ins] : \A i, j \in DOMAIN s : i < j => s[i][1] < s[j][1]
Out(k)  == {e \in Roads : e[1] = k}
Open(k) == {e \in Edges : k \in readers[e]}

Init ==
    /\ PipesInit([e \in Edges |-> e])
    /\ pc        = [q \in Everyone |-> IF q = CasaRosada THEN "open" ELSE "loop"]
    /\ turn      = [k \in Province |-> 1]
    /\ last_char = [k \in Province |-> ""]
    /\ todo      = [k \in Province |-> {}]
    /\ next = 1 /\ interrupted = {}
    /\ heard     = [k \in Province |-> {}]

Go(q, place) == pc' = [pc EXCEPT ![q] = place]

-----------------------------------------------------------------------------
(* A province. *)

\* The input at hand, if there is one; and the turn of the next one.
Input(k) == In(k)[turn[k]]
Turn(k)  == turn' = [turn EXCEPT ![k] = IF @ >= Len(In(k)) THEN 1 ELSE @ + 1]

\* The test of the while loop, at the beginning of a round of polls.
GoesOn(k) == turn[k] > 1 \/ (Open(k) # {} /\ k \notin interrupted)

\* A directive: take it, and pass it on if it is new.
Hear(k) ==
    LET e == Input(k)  c == Head(content[e]) IN
    /\ pc[k] = "loop" /\ GoesOn(k) /\ e \in Open(k) /\ Readable(e)
    /\ Take(e)
    /\ IF c = last_char[k]
       THEN UNCHANGED <<pc, last_char, todo, heard>>
       ELSE /\ last_char' = [last_char EXCEPT ![k] = c]
            /\ heard' = [heard EXCEPT ![k] = @ \union {c}]
            /\ todo' = [todo EXCEPT ![k] = {r \in Out(k) : k \in writers[r]}]
            /\ Go(k, "send")
    /\ Turn(k)
    /\ UNCHANGED <<readers, writers, next, interrupted>>

NextRoad(k) == CHOOSE x \in todo[k] : \A y \in todo[k] : x[2] <= y[2]

\* write to the next road: done; or EPIPE, and the road is closed.
Send(k) ==
    LET r == NextRoad(k) IN
    /\ pc[k] = "send" /\ todo[k] # {}
    /\ \/ Writable(r) /\ Put(r, last_char[k]) /\ UNCHANGED <<readers, writers>>
       \/ Broken(r) /\ Close(k, {}, {r})
    /\ todo' = [todo EXCEPT ![k] = @ \ {r}]
    /\ UNCHANGED <<pc, turn, last_char, next, interrupted, heard>>

Sent(k) ==
    /\ pc[k] = "send" /\ todo[k] = {}
    /\ Go(k, "loop")
    /\ UNCHANGED <<pipes, turn, last_char, todo, next, interrupted, heard>>

\* EAGAIN is taken for the end of the file.  A mutant.
PollClosesEmpty(k) ==
    LET e == Input(k) IN
    /\ pc[k] = "loop" /\ GoesOn(k) /\ (e \in Open(k) => ~Readable(e))
    /\ Close(k, {e}, {})
    /\ Turn(k)
    /\ UNCHANGED <<pc, last_char, todo, next, interrupted, heard>>

\* An input that is closed, or empty, or at its end: then it is closed.
Poll(k) ==
    LET e == Input(k) IN
    /\ pc[k] = "loop" /\ GoesOn(k) /\ (e \in Open(k) => ~Readable(e))
    /\ IF e \in Open(k) /\ Eof(e) THEN Close(k, {e}, {}) ELSE UNCHANGED pipes
    /\ Turn(k)
    /\ UNCHANGED <<pc, last_char, todo, next, interrupted, heard>>

Leave(k) ==
    /\ pc[k] = "loop" /\ ~GoesOn(k)
    /\ Exit(k)
    /\ Go(k, "ended")
    /\ UNCHANGED <<turn, last_char, todo, next, interrupted, heard>>

-----------------------------------------------------------------------------
(* Casa Rosada. *)

\* open of the FIFO, as soon as someone writes to it.
OpenFifo ==
    /\ pc[CasaRosada] = "open"
    /\ Go(CasaRosada, "read")
    /\ UNCHANGED <<pipes, turn, last_char, todo, next, interrupted, heard>>

\* read of the FIFO and the test of keep_running.
Read ==
    /\ pc[CasaRosada] = "read"
    /\ IF next <= Len(Directives) /\ CasaRosada \notin interrupted
       THEN Go(CasaRosada, "pass")
       ELSE Go(CasaRosada, "close")
    /\ UNCHANGED <<pipes, turn, last_char, todo, next, interrupted, heard>>

\* write to province 0; the loop ends at EPIPE.
Pass ==
    /\ pc[CasaRosada] = "pass"
    /\ \/ /\ Writable(boss_to_p0)
          /\ Put(boss_to_p0, Directives[next]) /\ UNCHANGED <<readers, writers>>
          /\ next' = next + 1
          /\ Go(CasaRosada, "read")
       \/ Broken(boss_to_p0) /\ Go(CasaRosada, "close") /\ UNCHANGED <<pipes, next>>
    /\ UNCHANGED <<turn, last_char, todo, interrupted, heard>>

CloseBoss ==
    /\ pc[CasaRosada] = "close"
    /\ Close(CasaRosada, {}, {boss_to_p0})
    /\ Go(CasaRosada, "wait")
    /\ UNCHANGED <<turn, last_char, todo, next, interrupted, heard>>

Wait ==
    /\ pc[CasaRosada] = "wait"
    /\ \A k \in Province : pc[k] = "ended"
    /\ Go(CasaRosada, "ended")
    /\ UNCHANGED <<pipes, turn, last_char, todo, next, interrupted, heard>>

-----------------------------------------------------------------------------
(* SIGINT. *)

\* A write to pipe e would wait for room.
Blocks(e) == ~Writable(e) /\ ~Broken(e)

\* It interrupts a write that waits for room: the directive is not sent along that road.
SkipRoad(k) ==
    /\ pc[k] = "send" /\ todo[k] # {} /\ Blocks(NextRoad(k))
    /\ todo' = [todo EXCEPT ![k] = @ \ {NextRoad(k)}]
    /\ UNCHANGED <<pipes, pc>>

\* It interrupts the open of the FIFO, or a write that waits for room: an error, and the end of
\* Casa Rosada.
Fail ==
    /\ pc[CasaRosada] = "open" \/ (pc[CasaRosada] = "pass" /\ Blocks(boss_to_p0))
    /\ Exit(CasaRosada)
    /\ Go(CasaRosada, "failed")
    /\ UNCHANGED todo

\* The handler clears keep_running, and the call that q waits in, if any, is interrupted; or
\* the signal comes just before that call.
Sigint(q) ==
    /\ pc[q] \notin {"ended", "failed"}
    /\ interrupted' = interrupted \union {q}
    /\ \/ UNCHANGED <<pipes, pc, todo>>
       \/ q \in Province /\ SkipRoad(q)
       \/ q = CasaRosada /\ Fail
    /\ UNCHANGED <<turn, last_char, next, heard>>

Over == \A q \in Everyone : pc[q] \in {"ended", "failed"}

Act(k) == Hear(k) \/ Send(k) \/ Sent(k) \/ Poll(k) \/ Leave(k)
Rosada == OpenFifo \/ Read \/ Pass \/ CloseBoss \/ Wait

Next == \/ Rosada \/ (\E k \in Province : Act(k)) \/ (\E q \in Everyone : Sigint(q))
        \/ (Over /\ UNCHANGED vars)

\* Who can be reached from province 0: who is in every set of provinces with 0 that no road
\* leads out of.
Kept(S) == 0 \in S /\ \A r \in Roads : r[1] \in S => r[2] \in S
Reached == {k \in Province : \A S \in SUBSET Province : Kept(S) => k \in S}
=============================================================================
