------------------------------- MODULE PidSums -------------------------------
(***************************************************************************)
(* lab07/pidsumming/sop-server.c and sop-client.c: a client sends its pid, *)
(* the server answers with the sum of the digits, and keeps the highest.   *)
(*                                                                         *)
(* The descriptors do not block and a stream may deliver the pid in parts: *)
(* bulk_read then fails with EAGAIN, and ERR ends the server.  A client    *)
(* that hangs up after a part is not closed before it is read again.       *)
(***************************************************************************)
EXTENDS EventLoop

CONSTANT DigitSum  \* DigitSum[c]: the sum of the digits of the pid of c

VARIABLES highest_sum, answer  \* answer[c]: what the server has written to c

local == <<highest_sum, answer>>
vars  == <<loop, local>>

PARTS    == 2    \* a pid comes in so many parts, together or not
NoAnswer == -1

Init ==
    /\ LoopInit
    /\ highest_sum = -1
    /\ answer = [c \in Client |-> NoAnswer]

Whole(f) == conn[f] # NoOne /\ Len(inbox[conn[f]]) >= PARTS
Larger(a, b) == IF a > b THEN a ELSE b
-----------------------------------------------------------------------------
Enter(c) ==
    /\ At(Listen) /\ Handled /\ Accept(c)
    /\ UNCHANGED <<up, local>>

\* All of the pid is there.  (To write to a client that hung up fails with EPIPE at most.)
Answer(f) ==
    /\ At(f) /\ Whole(f) /\ Handled
    /\ highest_sum' = Larger(highest_sum, DigitSum[conn[f]])
    /\ answer' = [answer EXCEPT ![conn[f]] = DigitSum[conn[f]]]
    /\ inbox' = [inbox EXCEPT ![conn[f]] = <<>>]
    /\ CloseAll({f})
    /\ UNCHANGED <<hung, sent, up>>

\* A part, and the end of file: it is dropped.
Part(f) ==
    /\ At(f) /\ HasMessage(f) /\ ~Whole(f) /\ Hung(f) /\ Handled
    /\ inbox' = [inbox EXCEPT ![conn[f]] = <<>>]
    /\ UNCHANGED <<side, hung, sent, conn, up, local>>

\* A part, and nothing more for now: EAGAIN.
PartDies(f) ==
    /\ At(f) /\ HasMessage(f) /\ ~Whole(f) /\ ~Hung(f)
    /\ Die /\ UNCHANGED local

\* The end of file.
Leave(f) ==
    /\ At(f) /\ ~HasMessage(f) /\ Hung(f) /\ Handled
    /\ CloseAll({f})
    /\ UNCHANGED <<hung, sent, inbox, up, local>>

Stop == Sigint /\ UNCHANGED local

Handle == \/ \E c \in Client : Enter(c)
          \/ \E f \in Fd : Answer(f) \/ Part(f) \/ PartDies(f) \/ Leave(f)
Clients == (\E c \in Client : Connect(c) \/ Speak(c) \/ HangUp(c)) /\ UNCHANGED local
Next == Clients \/ (Poll /\ UNCHANGED local) \/ Handle \/ Stop
-----------------------------------------------------------------------------
(* Properties. *)

\* Who was answered had sent all of its pid, and highest_sum is the highest of the answers.
AnswersRight ==
    /\ \A c \in Client : answer[c] # NoAnswer => sent[c] = PARTS /\ answer[c] <= highest_sum
    /\ \A s \in {highest_sum} \ {NoAnswer} : \E c \in Client : answer[c] = s
=============================================================================
