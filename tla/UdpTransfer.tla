----------------------------- MODULE UdpTransfer -----------------------------
(***************************************************************************)
(* lab08/lab: clients send a file each to one server over UDP, chunk by    *)
(* chunk (l8-1_client.c, l8-1_server.c).                                   *)
(*                                                                         *)
(* A client sends chunk k, starts a 500 ms timer and blocks in recv.  It   *)
(* goes on to chunk k+1 when the datagram it received names k, and sends   *)
(* again when it names another chunk or the alarm interrupted recv; after  *)
(* the sixth attempt it gives up.  The server keeps MAXADDR connection     *)
(* slots: it prints the chunk that is next for its sender, echoes a chunk  *)
(* that is not ahead of what it expects, and frees the slot at the last.   *)
(*                                                                         *)
(* Datagrams in flight are received in any order, however late; a datagram *)
(* that is lost is one that is never received.  A late answer makes a      *)
(* client send what the server has already printed.                        *)
(***************************************************************************)
EXTENDS Integers, Sequences, FiniteSets

CONSTANTS Clients,  \* the clients, by the address the server sees
          Last,     \* Last[c]: the number of chunks of c's file
          MAXADDR,  \* connection slots of the server
          Retries,  \* 5 in doClient's loop: counter <= 5
          NoAddr    \* what a slot that was never used holds for an address

ASSUME UdpAssumption ==
    /\ Last \in [Clients -> Nat \ {0}]
    /\ MAXADDR \in Nat \ {0}
    /\ Retries \in Nat
    /\ NoAddr \notin Clients

\* Lengths of files for model checking: one of one chunk, the others of two.
Lengths ==
    LET short == CHOOSE c \in Clients : TRUE
    IN  [c \in Clients |-> IF c = short THEN 1 ELSE 2]

VARIABLES
    pc,       \* pc[c]: where client c is
    chunkNo,  \* chunkNo[c]: the chunk c is sending
    counter,  \* counter[c]: how often it has been sent
    recvbuf,  \* recvbuf[c]: the chunk number in recvbuf, 0 after memset
    req,      \* req[c][k]: copies of c's chunk k on their way to the server
    ack,      \* ack[c][k]: copies of the echo of chunk k on their way to c
    con,      \* con[i]: the server's slot i: free, chunkNo, addr
    printed   \* printed[c]: the chunks of c the server has printed, in order

clientVars == <<pc, chunkNo, counter, recvbuf>>
vars == <<clientVars, req, ack, con, printed>>

Chunks(c) == 1..Last[c]
Slots     == 0..(MAXADDR - 1)

Init ==
    /\ pc      = [c \in Clients |-> "send"]
    /\ chunkNo = [c \in Clients |-> 1]
    /\ counter = [c \in Clients |-> 0]
    /\ recvbuf = [c \in Clients |-> 0]
    /\ req     = [c \in Clients |-> [k \in Chunks(c) |-> 0]]
    /\ ack     = [c \in Clients |-> [k \in Chunks(c) |-> 0]]
    /\ con     = [i \in Slots |-> [free |-> TRUE, chunkNo |-> 0, addr |-> NoAddr]]
    /\ printed = [c \in Clients |-> <<>>]

-----------------------------------------------------------------------------
(* The client: doClient and sendAndConfirm. *)

\* counter++; sendto; setitimer; on to recv.
Send(c) ==
    /\ pc[c] = "send"
    /\ counter' = [counter EXCEPT ![c] = @ + 1]
    /\ req' = [req EXCEPT ![c][chunkNo[c]] = @ + 1]
    /\ pc' = [pc EXCEPT ![c] = "recv"]
    /\ UNCHANGED <<chunkNo, recvbuf, ack, con, printed>>

\* The alarm goes off after setitimer and before recv blocks: there is no system call to
\* interrupt (or last_signal is reset after it), and no second alarm.
AlarmMissed(c) ==
    /\ pc[c] = "recv"
    /\ pc' = [pc EXCEPT ![c] = "no_alarm"]
    /\ UNCHANGED <<chunkNo, counter, recvbuf, req, ack, con, printed>>

\* Takes any answer for the confirmation.  A mutant.
ConfirmedByAny(c, r) == r # 0

\* *((int32_t *)recvbuf) == htonl(chunkNo)
Confirmed(c, r) == r = chunkNo[c]

\* Too many attempts.  A mutant.
MayRetryMore(c) == counter[c] <= 5 * (Retries + 1)
MayRetry(c) == counter[c] <= Retries

\* sendAndConfirm returned with r in recvbuf: the conditions of doClient's two loops.
Returned(c, r) ==
    /\ \/ /\ Confirmed(c, r)
          /\ chunkNo[c] < Last[c]
          /\ pc' = [pc EXCEPT ![c] = "send"]
          /\ chunkNo' = [chunkNo EXCEPT ![c] = @ + 1]
          /\ counter' = [counter EXCEPT ![c] = 0]
          /\ recvbuf' = [recvbuf EXCEPT ![c] = 0]
       \/ /\ Confirmed(c, r)
          /\ chunkNo[c] = Last[c]
          /\ pc' = [pc EXCEPT ![c] = "sent"]
          /\ UNCHANGED <<chunkNo, counter, recvbuf>>
       \/ /\ ~Confirmed(c, r)
          /\ pc' = [pc EXCEPT ![c] = IF MayRetry(c) THEN "send" ELSE "gave_up"]
          /\ recvbuf' = [recvbuf EXCEPT ![c] = r]
          /\ UNCHANGED <<chunkNo, counter>>
    /\ UNCHANGED <<req, con, printed>>

Over(c) == pc[c] \in {"sent", "gave_up"}

\* The echoes in flight after c returned from recv: none that c could receive when it has
\* closed its socket.
Delivered(c, a) == IF Over(c)' THEN [a EXCEPT ![c] = [k \in Chunks(c) |-> 0]] ELSE a

\* recv returns a datagram.
Receive(c, k) ==
    /\ pc[c] \in {"recv", "no_alarm"}
    /\ ack[c][k] > 0
    /\ Returned(c, k)
    /\ ack' = Delivered(c, [ack EXCEPT ![c][k] = @ - 1])

\* TEMP_FAILURE_RETRY around recv.  A mutant.
TimeoutRetried(c) == pc[c] = "recv" /\ UNCHANGED vars

\* recv fails with EINTR and last_signal is SIGALRM; recvbuf is as it was.
Timeout(c) ==
    /\ pc[c] = "recv"
    /\ Returned(c, recvbuf[c])
    /\ ack' = Delivered(c, ack)

-----------------------------------------------------------------------------
(* The server. *)

\* findIndex: c's slot; else the last free one, reset for c; else none.
Free == {i \in Slots : con[i].free}
Mine(c) == {i \in Slots : ~con[i].free /\ con[i].addr = c}

\* Takes the first slot that is free or c's own.  A mutant.
FirstFit(c) == {i \in Free \union Mine(c) : \A j \in Free \union Mine(c) : i <= j}

\* The index findIndex returns, in a set that is empty when there is none.
FindIndex(c) == IF Mine(c) # {} THEN {i \in Mine(c) : \A j \in Mine(c) : i <= j}
                ELSE {i \in Free : \A j \in Free : j <= i}

\* A claimed slot keeps its chunk number.  A mutant.
TableKeepsNumber(c, i) ==
    IF con[i].free THEN [con EXCEPT ![i].free = FALSE, ![i].addr = c] ELSE con

\* The table findIndex leaves when it returns i.
Table(c, i) ==
    IF con[i].free THEN [con EXCEPT ![i] = [free |-> FALSE, chunkNo |-> 0, addr |-> c]]
    ELSE con

\* sendto the address of c; nobody receives it when c has ended.
Echo(c, k) == ack' = IF Over(c) THEN ack ELSE [ack EXCEPT ![c][k] = @ + 1]

\* What doServer does with chunk k of c in slot i of the table con1.
TakeChunk(c, k, i, con1) ==
    \/ /\ k > con1[i].chunkNo + 1          \* ahead: continue, without an answer
       /\ con' = con1
       /\ UNCHANGED <<ack, printed>>
    \/ /\ k = con1[i].chunkNo + 1          \* the next one: print, and echo
       /\ con' = [con1 EXCEPT ![i] = [free |-> (k = Last[c]), chunkNo |-> k, addr |-> c]]
       /\ printed' = [printed EXCEPT ![c] = Append(@, k)]
       /\ Echo(c, k)
    \/ /\ k <= con1[i].chunkNo             \* known: echo
       /\ con' = con1
       /\ Echo(c, k)
       /\ UNCHANGED printed

\* recvfrom, and the body of the loop.
Serve(c, k) ==
    /\ req[c][k] > 0
    /\ req' = [req EXCEPT ![c][k] = @ - 1]
    /\ \/ \E i \in FindIndex(c) : TakeChunk(c, k, i, Table(c, i))
       \/ FindIndex(c) = {} /\ UNCHANGED <<con, ack, printed>>
    /\ UNCHANGED clientVars

-----------------------------------------------------------------------------
\* The clients have ended or wait for ever, and the server waits in recvfrom.
Idle ==
    /\ \A c \in Clients : Over(c) \/ pc[c] = "no_alarm"
    /\ \A c \in Clients : \A k \in Chunks(c) : req[c][k] = 0 /\ (Over(c) \/ ack[c][k] = 0)
    /\ UNCHANGED vars

Client(c) == Send(c) \/ Timeout(c) \/ \E k \in Chunks(c) : Receive(c, k)

Next == \/ \E c \in Clients : \/ Client(c)
                              \/ AlarmMissed(c)
                              \/ \E k \in Chunks(c) : Serve(c, k)
        \/ Idle

Spec == Init /\ [][Next]_vars

\* The clients run.  Nothing is assumed of the network and of the server.
FairSpec == Spec /\ \A c \in Clients : WF_vars(Client(c))

-----------------------------------------------------------------------------
(* Properties. *)

\* Type invariant of the clients, the datagrams in flight and the server's table.
TypeOK ==
    /\ pc      \in [Clients -> {"send", "recv", "no_alarm", "sent", "gave_up"}]
    /\ chunkNo \in [Clients -> Nat] /\ \A c \in Clients : chunkNo[c] \in Chunks(c)
    /\ counter \in [Clients -> 0..(Retries + 1)]
    /\ recvbuf \in [Clients -> Nat]
    /\ DOMAIN req = Clients /\ DOMAIN ack = Clients
    /\ \A c \in Clients : req[c] \in [Chunks(c) -> Nat] /\ ack[c] \in [Chunks(c) -> Nat]
    /\ con     \in [Slots -> [free : BOOLEAN, chunkNo : Nat, addr : Clients \union {NoAddr}]]
    /\ printed \in [Clients -> Seq(Nat)]

\* One address never has two slots: findIndex takes a new one only for an address that
\* has none, whatever was freed in between.
OneSlotEach == \A c \in Clients : \A i, j \in Mine(c) : i = j

\* What is printed of a file is its chunks in order, without a gap or a repetition; only
\* after the last chunk may it start again (a late copy of chunk 1 finds the slot freed).
InOrder ==
    \A c \in Clients : \A n \in 1..Len(printed[c]) :
        IF n = 1 THEN printed[c][n] = 1
        ELSE \/ printed[c][n] = printed[c][n - 1] + 1
             \/ printed[c][n] = 1 /\ printed[c][n - 1] = Last[c]

\* A client goes on only when the server has printed what it sent before, so a client that
\* ends with all chunks confirmed was printed in full.
ConfirmedIsPrinted ==
    \A c \in Clients : \A k \in Chunks(c) :
        k < chunkNo[c] \/ pc[c] = "sent" =>
            \E n \in 1..Len(printed[c]) : printed[c][n] = k

\* Every client ends, with its file sent or given up, unless it missed its alarm.
EndsOrMissed == <>(\A c \in Clients : Over(c) \/ pc[c] = "no_alarm")
=============================================================================
