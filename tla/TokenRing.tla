------------------------------ MODULE TokenRing ------------------------------
(***************************************************************************)
(* lab05/sop-cycle/sop-cycle.c: processes in a ring pass a number on, each *)
(* changing it a little.  Who reads 0, or the end of file, or is           *)
(* interrupted by SIGINT while it reads, leaves the ring, and so do the    *)
(* others one after the other.                                             *)
(***************************************************************************)
EXTENDS Pipes

CONSTANT N  \* processes 0..N-1, of which 0 sends the first number

Proc  == 0..(N - 1)
Value == {"zero", "number"}

VARIABLES
    pc,           \* pc[p]: where process p is
    last_signal,  \* last_signal[p]: SIGINT has come
    holding       \* holding[p]: the number p has read

vars == <<pipes, pc, last_signal, holding>>

Out(p) == <<p, (p + 1) % N>>
In(p)  == <<(p + N - 1) % N, p>>

\* Every process sends a first number.  A mutant.
InitAllSend ==
    /\ PipesInit([e \in {Out(p) : p \in Proc} |-> e])
    /\ pc = [p \in Proc |-> "send"]
    /\ last_signal = [p \in Proc |-> FALSE]
    /\ holding = [p \in Proc |-> "zero"]

Init ==
    /\ PipesInit([e \in {Out(p) : p \in Proc} |-> e])
    /\ pc = [p \in Proc |-> IF p = 0 THEN "send" ELSE "loop"]
    /\ last_signal = [p \in Proc |-> FALSE]
    /\ holding = [p \in Proc |-> "zero"]

Go(p, place) == pc' = [pc EXCEPT ![p] = place]

\* send_initial_message; if nobody is there to read it, ERR kills the whole group.
Send(p) ==
    /\ pc[p] = "send"
    /\ \/ Writable(Out(p)) /\ Put(Out(p), "number") /\ Go(p, "loop")
       \/ Broken(Out(p)) /\ pc' = [q \in Proc |-> "killed"] /\ UNCHANGED content
    /\ UNCHANGED <<readers, writers, last_signal, holding>>

Loop(p) ==
    /\ pc[p] = "loop"
    /\ Go(p, IF last_signal[p] THEN "leave" ELSE "read")
    /\ UNCHANGED <<pipes, last_signal, holding>>

\* A number other than 0 is kept; at 0 and at the end of file p leaves.
Read(p) ==
    /\ pc[p] = "read"
    /\ \/ Eof(In(p)) /\ Go(p, "leave") /\ UNCHANGED <<content, holding>>
       \/ /\ Readable(In(p))
          /\ holding' = [holding EXCEPT ![p] = Head(content[In(p)])]
          /\ Take(In(p))
          /\ Go(p, IF Head(content[In(p)]) = "zero" THEN "leave" ELSE "write")
    /\ UNCHANGED <<readers, writers, last_signal>>

\* Change the number by -10..10 and pass it on, if anybody takes it.
Write(p) ==
    /\ pc[p] = "write"
    /\ \/ Broken(Out(p)) /\ Go(p, "leave") /\ UNCHANGED content
       \/ Writable(Out(p)) /\ (\E v \in Value : Put(Out(p), v)) /\ Go(p, "loop")
    /\ UNCHANGED <<readers, writers, last_signal, holding>>

Leave(p) ==
    /\ pc[p] = "leave"
    /\ Exit(p)
    /\ Go(p, "ended")
    /\ UNCHANGED <<last_signal, holding>>

\* SIGINT sets last_signal, and interrupts a read that waits; if it comes between the test
\* of last_signal and the read, p goes on to read.
Sigint(p) ==
    /\ pc[p] \notin {"ended", "killed"} /\ ~last_signal[p]
    /\ last_signal' = [last_signal EXCEPT ![p] = TRUE]
    /\ \/ UNCHANGED pc
       \/ pc[p] = "read" /\ ~Readable(In(p)) /\ ~Eof(In(p)) /\ Go(p, "leave")
    /\ UNCHANGED <<pipes, holding>>

Act(p) == p \in Proc /\ (Send(p) \/ Loop(p) \/ Read(p) \/ Write(p) \/ Leave(p))
Over   == \A p \in Proc : pc[p] \in {"ended", "killed"}
Next   == \E p \in Proc : Act(p) \/ Sigint(p)
-----------------------------------------------------------------------------
(* Properties. *)

\* There is one number in the ring, in a pipe or with the process that is changing it, as
\* long as nobody has left; and never a second one, whoever leaves and when.
OneNumber ==
    LET changing == {p \in Proc : pc[p] = "write"}
        sent     == {p \in Proc : content[Out(p)] # <<>>}
        left     == {p \in Proc : pc[p] \in {"leave", "ended", "killed"}}
        numbers  == Cardinality(changing) + Cardinality(sent)
    IN  /\ \A p \in Proc : Len(content[Out(p)]) <= 1
        /\ numbers <= 1
        /\ pc[0] # "send" /\ left = {} => numbers = 1
=============================================================================
