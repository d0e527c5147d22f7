----------------------------- MODULE Calculator ------------------------------
(***************************************************************************)
(* lab07/l7: a server that calculates, for clients that come by a local    *)
(* socket or by TCP (here one queue).  A client is served as soon as it is *)
(* accepted, by reads that block: whoever sends a part of a request and no *)
(* more keeps the server from all others, and from SIGINT.                 *)
(***************************************************************************)
EXTENDS EventLoop

CONSTANTS Local,  \* the clients that come by the local socket
          HALF    \* 2^31: the values of int32_t are -HALF..HALF-1

VARIABLE reply  \* reply[c]: <<data, result, status>> that c got, or NoReply

vars == <<loop, reply>>

PARTS   == 2  \* a request comes in so many parts, of which the first one stands for the data
NoReply == <<>>

Init == LoopInit /\ reply = [c \in Client |-> NoReply]
-----------------------------------------------------------------------------
(* calculate: data is <<op1, operation, op2>>. *)

MinInt  == -HALF
Wrap(x) == ((x - MinInt) % (2 * HALF)) + MinInt
Size(x) == IF x < 0 THEN -x ELSE x

\* C divides towards 0.
Divide(a, b) == Wrap(IF a * b < 0 THEN -(Size(a) \div Size(b)) ELSE Size(a) \div Size(b))

Impossible(data) == data[2] \notin {"+", "-", "*", "/"} \/ (data[2] = "/" /\ data[3] = 0)
Result(data) ==
    CASE Impossible(data) -> -1
      [] data[2] = "+" -> Wrap(data[1] + data[3])
      [] data[2] = "-" -> Wrap(data[1] - data[3])
      [] data[2] = "*" -> Wrap(data[1] * data[3])
      [] data[2] = "/" -> Divide(data[1], data[3])
Status(data) == IF Impossible(data) THEN 0 ELSE 1

\* The quotient that does not fit: a trap on some machines.
Traps(data) == data[2] = "/" /\ data[1] = MinInt /\ data[3] = -1
-----------------------------------------------------------------------------
(* doServer *)

Serves == CHOOSE f \in Fd : conn[f] # NoOne
Busy   == Open # {}
Whole  == Len(inbox[conn[Serves]]) >= PARTS
Data   == Received(Serves)

Wait == ~Busy /\ Poll /\ UNCHANGED reply

Enter(c) ==
    /\ At(Listen) /\ ~Busy /\ Accept(c)
    /\ UNCHANGED <<batch, up, reply>>

\* All of the request: the same data go back with result and status.
Answer ==
    /\ Busy /\ Whole /\ Handled
    /\ reply' = [reply EXCEPT ![conn[Serves]] = <<Data, Result(Data), Status(Data)>>]
    /\ inbox' = Rest(Serves)
    /\ CloseAll({Serves})
    /\ UNCHANGED <<hung, sent, up>>

Trap == Busy /\ Whole /\ Traps(Data) /\ Die /\ UNCHANGED reply

\* The end of file comes before all of the request: no answer.
Short ==
    /\ Busy /\ ~Whole /\ Hung(Serves) /\ Handled
    /\ CloseAll({Serves})
    /\ UNCHANGED <<hung, sent, inbox, up, reply>>

\* SIGINT is blocked while a list of events is handled.
Stop == Sigint /\ UNCHANGED reply

\* The two clients, which are killed now and then before they have their answer.
LocalClient(c) == c \in Local /\ (Connect(c) \/ Speak(c) \/ HangUp(c)) /\ UNCHANGED reply
TcpClient(c)   == c \notin Local /\ (Connect(c) \/ Speak(c) \/ HangUp(c)) /\ UNCHANGED reply

Next == \/ Wait \/ Answer \/ Trap \/ Short \/ Stop
        \/ \E c \in Client : Enter(c) \/ LocalClient(c) \/ TcpClient(c)
-----------------------------------------------------------------------------
(* Properties. *)

\* Who gets an answer has sent all of a request, gets its own back, and is told that it is
\* impossible exactly when it is; and any result that fits into int32_t is right.
Exact(a, op, b, r) ==
    CASE op = "+" -> r = a + b [] op = "-" -> r = a - b [] op = "*" -> r = a * b
      [] op = "/" -> /\ Size(a - r * b) < Size(b)
                     /\ a - r * b = 0 \/ (a - r * b < 0 <=> a < 0)
RepliesRight ==
    \A c \in Client : reply[c] # NoReply =>
        LET data == reply[c][1]
        IN  /\ sent[c] = PARTS /\ data \in Says[c]
            /\ (reply[c][3] = 0) <=> Impossible(data)
            /\ reply[c][3] = 1 /\ (\E r \in MinInt..(-MinInt - 1) : Exact(data[1], data[2], data[3], r))
                 => Exact(data[1], data[2], data[3], reply[c][2])
=============================================================================
