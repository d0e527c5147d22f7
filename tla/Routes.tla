------------------------------- MODULE Routes -------------------------------
(***************************************************************************)
(* lab05/generated_harder/generated_harder.c: packets that carry their     *)
(* route.  For every letter in the FIFO, Casa Rosada sends a packet per    *)
(* route to province 0, where every route begins; a province passes a      *)
(* packet on to the next province of its route.  When it ends, a province  *)
(* reports how many packets it has seen, and Casa Rosada collects the      *)
(* reports until the report pipe is at its end.                            *)
(***************************************************************************)
EXTENDS Pipes

CONSTANTS N,        \* provinces 0..N-1
          routes,   \* the paths of the configuration, sequences of provinces
          Letters   \* how many letters come through the FIFO

Province   == 0..(N - 1)
CasaRosada == N
Everyone   == 0..N

\* What must hold of the configuration; assumed where it is given its value.
ProperRoutes ==
    /\ N \in Nat \ {0} /\ Letters \in Nat /\ routes \in Seq(Seq(Province))
    /\ \A r \in DOMAIN routes : /\ Len(routes[r]) > 0
                                /\ routes[r][1] = 0
                                /\ \A i \in 2..Len(routes[r]) : routes[r][i] # routes[r][i - 1]

VARIABLES
    pc,               \* pc[q]: where process q is
    turn,             \* turn[k]: index of the input that province k polls next
    pkt,              \* pkt[k]: the packet of province k, its route and its current_step
    messages_relayed, \* messages_relayed[k]: the packets province k has seen
    sent,             \* packets that Casa Rosada has sent
    reports,          \* the reports that Casa Rosada has read
    interrupted       \* whose keep_running was cleared by SIGINT

local == <<pc, turn, pkt, messages_relayed, sent, reports, interrupted>>
vars  == <<pipes, local>>

\* load_config: the roads are those that the routes take.
Roads == UNION {{<<routes[r][i], routes[r][i + 1]>> : i \in 1..(Len(routes[r]) - 1)} : r \in DOMAIN routes}

boss_to_p0   == <<CasaRosada, 0>>
reports_pipe == <<0, CasaRosada>>
Edges        == Roads \union {boss_to_p0, reports_pipe}

In(k) ==
    LET ins == {e \in Edges : e[2] = k}
    IN  CHOOSE s \in [1..Cardinality(ins) -> ins] : \A i, j \in DOMAIN s : i < j => s[i][1] < s[j][1]
Open(k) == {e \in Edges : k \in readers[e]}

\* The report pipe has every province at its writing end.
Init ==
    /\ content = [e \in Edges |-> <<>>]
    /\ readers = [e \in Edges |-> {e[2]}]
    /\ writers = [e \in Edges |-> IF e = reports_pipe THEN Province ELSE {e[1]}]
    /\ pc      = [q \in Everyone |-> IF q = CasaRosada THEN "open" ELSE "loop"]
    /\ turn    = [k \in Province |-> 1]
    /\ pkt     = [k \in Province |-> <<1, 1>>]
    /\ messages_relayed = [k \in Province |-> 0]
    /\ sent = 0 /\ reports = {} /\ interrupted = {}

Go(q, place) == pc' = [pc EXCEPT ![q] = place]

-----------------------------------------------------------------------------
(* A province. *)

Input(k)  == In(k)[turn[k]]
Turn(k)   == turn' = [turn EXCEPT ![k] = IF @ >= Len(In(k)) THEN 1 ELSE @ + 1]
GoesOn(k) == turn[k] > 1 \/ (Open(k) # {} /\ k \notin interrupted)
NextNode(k) == routes[pkt[k][1]][pkt[k][2]]

MoreRoute(m) == m[2] < Len(routes[m[1]])

\* A packet: count it; if its route goes on, so does the packet.
Relay(k) ==
    LET e == Input(k)  m == Head(content[e]) IN
    /\ pc[k] = "loop" /\ GoesOn(k) /\ e \in Open(k) /\ Readable(e)
    /\ Take(e)
    /\ messages_relayed' = [messages_relayed EXCEPT ![k] = @ + 1]
    /\ IF MoreRoute(m)
       THEN pkt' = [pkt EXCEPT ![k] = <<m[1], m[2] + 1>>] /\ Go(k, "send")
       ELSE UNCHANGED <<pkt, pc>>
    /\ Turn(k)
    /\ UNCHANGED <<readers, writers, sent, reports, interrupted>>

\* write to the next province; EPIPE is ignored.
Send(k) ==
    LET r == <<k, NextNode(k)>> IN
    /\ pc[k] = "send"
    /\ IF Broken(r) THEN UNCHANGED pipes
       ELSE Writable(r) /\ Put(r, pkt[k]) /\ UNCHANGED <<readers, writers>>
    /\ Go(k, "loop")
    /\ UNCHANGED <<turn, pkt, messages_relayed, sent, reports, interrupted>>

\* An input that is closed, or empty, or at its end: then it is closed.
Poll(k) ==
    LET e == Input(k) IN
    /\ pc[k] = "loop" /\ GoesOn(k) /\ (e \in Open(k) => ~Readable(e))
    /\ IF e \in Open(k) /\ Eof(e) THEN Close(k, {e}, {}) ELSE UNCHANGED pipes
    /\ Turn(k)
    /\ UNCHANGED <<pc, pkt, messages_relayed, sent, reports, interrupted>>

\* Write the report, for which there is room always; EPIPE is ignored.
Report(k) ==
    /\ pc[k] = "loop" /\ ~GoesOn(k)
    /\ IF Broken(reports_pipe) THEN UNCHANGED pipes
       ELSE /\ Put(reports_pipe, [province |-> k, relayed |-> messages_relayed[k]])
            /\ UNCHANGED <<readers, writers>>
    /\ Go(k, "leave")
    /\ UNCHANGED <<turn, pkt, messages_relayed, sent, reports, interrupted>>

\* The writing end of the report pipe stays open.  A mutant.
LeaveOpen(k) ==
    /\ pc[k] = "leave"
    /\ Close(k, Edges, Edges \ {reports_pipe})
    /\ Go(k, "ended")
    /\ UNCHANGED <<turn, pkt, messages_relayed, sent, reports, interrupted>>

Leave(k) ==
    /\ pc[k] = "leave"
    /\ Exit(k)
    /\ Go(k, "ended")
    /\ UNCHANGED <<turn, pkt, messages_relayed, sent, reports, interrupted>>

-----------------------------------------------------------------------------
(* Casa Rosada. *)

\* open of the FIFO, as soon as someone writes to it.
OpenFifo ==
    /\ pc[CasaRosada] = "open"
    /\ Go(CasaRosada, "read")
    /\ UNCHANGED <<pipes, turn, pkt, messages_relayed, sent, reports, interrupted>>

\* read of the FIFO and the test of keep_running.
Read ==
    /\ pc[CasaRosada] = "read"
    /\ IF sent < Letters * Len(routes) /\ CasaRosada \notin interrupted
       THEN Go(CasaRosada, "pass")
       ELSE Go(CasaRosada, "close")
    /\ UNCHANGED <<pipes, turn, pkt, messages_relayed, sent, reports, interrupted>>

\* One packet for each route; then back to the FIFO.  EPIPE is ignored.
Pass ==
    LET r == (sent % Len(routes)) + 1 IN
    /\ pc[CasaRosada] = "pass"
    /\ IF Broken(boss_to_p0) THEN UNCHANGED pipes
       ELSE Writable(boss_to_p0) /\ Put(boss_to_p0, <<r, 1>>) /\ UNCHANGED <<readers, writers>>
    /\ sent' = sent + 1
    /\ Go(CasaRosada, IF r = Len(routes) THEN "read" ELSE "pass")
    /\ UNCHANGED <<turn, pkt, messages_relayed, reports, interrupted>>

CloseBoss ==
    /\ pc[CasaRosada] = "close"
    /\ Close(CasaRosada, {}, {boss_to_p0})
    /\ Go(CasaRosada, "collect")
    /\ UNCHANGED <<turn, pkt, messages_relayed, sent, reports, interrupted>>

\* The reports, until the end of the pipe.
Collect ==
    /\ pc[CasaRosada] = "collect"
    /\ \/ /\ Readable(reports_pipe)
          /\ reports' = reports \union {Head(content[reports_pipe])}
          /\ Take(reports_pipe) /\ UNCHANGED <<pc, readers, writers>>
       \/ /\ Eof(reports_pipe)
          /\ Close(CasaRosada, {reports_pipe}, {})
          /\ Go(CasaRosada, "wait")
          /\ UNCHANGED reports
    /\ UNCHANGED <<turn, pkt, messages_relayed, sent, interrupted>>

Wait ==
    /\ pc[CasaRosada] = "wait"
    /\ \A k \in Province : pc[k] = "ended"
    /\ Go(CasaRosada, "ended")
    /\ UNCHANGED <<pipes, turn, pkt, messages_relayed, sent, reports, interrupted>>

-----------------------------------------------------------------------------
(* SIGINT. *)

\* It interrupts the open of the FIFO: the kill(0, SIGKILL) of ERR ends all processes.
KillAll ==
    /\ pc[CasaRosada] = "open"
    /\ pc' = [q \in Everyone |-> IF pc[q] = "ended" THEN "ended" ELSE "failed"]
    /\ content' = [e \in Edges |-> <<>>]
    /\ readers' = [e \in Edges |-> {}] /\ writers' = [e \in Edges |-> {}]

\* It interrupts the read of a report, which is taken for the end of the pipe.
StopCollecting ==
    /\ pc[CasaRosada] = "collect" /\ ~Readable(reports_pipe) /\ ~Eof(reports_pipe)
    /\ Close(CasaRosada, {reports_pipe}, {})
    /\ Go(CasaRosada, "wait")

\* The handler clears keep_running, and the call that Casa Rosada waits in, if any, is
\* interrupted; or the signal comes just before that call.  Writes are tried again.
Sigint(q) ==
    /\ pc[q] \notin {"ended", "failed"}
    /\ interrupted' = interrupted \union {q}
    /\ UNCHANGED <<pipes, pc>> \/ (q = CasaRosada /\ (KillAll \/ StopCollecting))
    /\ UNCHANGED <<turn, pkt, messages_relayed, sent, reports>>

Over == \A q \in Everyone : pc[q] \in {"ended", "failed"}

Act(k) == Relay(k) \/ Send(k) \/ Poll(k) \/ Report(k) \/ Leave(k)
Rosada == OpenFifo \/ Read \/ Pass \/ CloseBoss \/ Collect \/ Wait

Next == \/ Rosada \/ (\E k \in Province : Act(k)) \/ (\E q \in Everyone : Sigint(q))
        \/ (Over /\ UNCHANGED vars)

=============================================================================
