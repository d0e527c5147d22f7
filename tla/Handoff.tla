------------------------------- MODULE Handoff -------------------------------
(***************************************************************************)
(* What channel.h promises of one channel: chunks are handed over one at a *)
(* time, each to one consumer, in the order they were produced, and a      *)
(* depleted channel hands over nothing more.                               *)
(*                                                                         *)
(* The promise is the weak one: Finish may come while a chunk waits, and   *)
(* that chunk is then never received.  channel.h's stronger reading of     *)
(* CHANNEL_OCCUPIED ("valid data inside to pass to consumer") is Pipeline's*)
(* property EveryChunkArrives.                                             *)
(***************************************************************************)
EXTENDS Naturals, Sequences

CONSTANT Chunks
VARIABLES sent, received, finished

vars == <<sent, received, finished>>

Init == sent = <<>> /\ received = <<>> /\ finished = FALSE

Put == /\ ~finished
       /\ received = sent
       /\ \E d \in Chunks : sent' = Append(sent, d)
       /\ UNCHANGED <<received, finished>>

Take == /\ ~finished
        /\ received # sent
        /\ received' = sent
        /\ UNCHANGED <<sent, finished>>

Finish == /\ ~finished
          /\ finished' = TRUE
          /\ UNCHANGED <<sent, received>>

Next == Put \/ Take \/ Finish

Spec == Init /\ [][Next]_vars
=============================================================================
