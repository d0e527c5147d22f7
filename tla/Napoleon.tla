------------------------------ MODULE Napoleon ------------------------------
(***************************************************************************)
(* lab08/napoleon/napoleon.c: reports arrive as datagrams and are pushed   *)
(* on a bounded stack; adjutants pop them, enter the division into the     *)
(* register and move it on the map; Napoleon sends an order to one of his  *)
(* divisions now and then; SIGINT ends it all.                             *)
(*                                                                         *)
(* A section under one mutex is one step: main's push, an adjutant's pop   *)
(* (with the wait on stack_cond), the entry into the register, the search  *)
(* of one row of the map, the placing, Napoleon's choice.  SIGINT is       *)
(* blocked but for main's epoll_pwait.  An index of a division is its      *)
(* place in `names`, counted from 1; 0 stands for -1.                      *)
(***************************************************************************)
EXTENDS Integers, SequencesExt

CONSTANTS Adjutants,            \* the worker threads
          Divisions,            \* the names divisions report under
          Height, Width,        \* of the map
          Contents,             \* what legible reports may say: a name and a place
          STACK_SIZE, DIVISION_NAMES_SIZE,
          MaxReports            \* bound: so many datagrams arrive

ASSUME NapoleonAssumption ==
    /\ IsFiniteSet(Adjutants) /\ Adjutants # {}
    /\ {Height, Width, STACK_SIZE, DIVISION_NAMES_SIZE, MaxReports} \subseteq Nat \ {0}
    /\ Contents \subseteq [name : Divisions, x : 1..Height, y : 1..Width]

VARIABLES
    do_work,   \* cleared by SIGINT
    stack,     \* stack[1..top]
    arrived,   \* how many datagrams were received
    names,     \* div_names[0..num_divs-1]
    div,       \* div[i]: the report that div_addr[i] and div_p[i] are from
    map,       \* map[x, y]: the index of the division that stands there
    main,      \* where main is
    pc,        \* pc[a]: where adjutant a is
    msg,       \* msg[a]: the report a has popped
    idx,       \* idx[a]: div_idx
    row,       \* row[a]: the row that a searches
    napoleon,  \* where Napoleon's thread is
    pushed,    \* history: the reports that were pushed
    handled,   \* history: the reports the adjutants are done with
    crossed    \* history: the indices that two adjutants have moved at a time

vars == <<do_work, stack, arrived, names, div, map, main, pc, msg, idx, row,
          napoleon, pushed, handled, crossed>>

Rows    == 1..Height
Columns == 1..Width
Indices == 1..DIVISION_NAMES_SIZE

\* A datagram that is parsed, and any other one.  `no` tells reports apart; it stands for
\* the address, and for p, of which nothing here depends.
Reports   == {[no |-> n, name |-> c.name, x |-> c.x, y |-> c.y] : n \in 1..MaxReports, c \in Contents}
Illegible == [no : 1..MaxReports, name : {"?"}]
NoReport == [no |-> 0, name |-> "?"]

Init ==
    /\ do_work = TRUE /\ stack = <<>> /\ arrived = 0
    /\ names = <<>> /\ div = <<>>
    /\ map = [s \in Rows \X Columns |-> 0]
    /\ main = "receive"
    /\ pc  = [a \in Adjutants |-> "pop"]
    /\ msg = [a \in Adjutants |-> NoReport]
    /\ idx = [a \in Adjutants |-> 0]
    /\ row = [a \in Adjutants |-> 1]
    /\ napoleon = "looking" /\ pushed = {} /\ handled = {} /\ crossed = {}

-----------------------------------------------------------------------------
(* main *)

Asleep == {a \in Adjutants : pc[a] = "asleep"}

\* pthread_cond_signal and pthread_cond_broadcast: who is woken tests again.
Signal == IF Asleep = {} THEN UNCHANGED pc ELSE \E a \in Asleep : pc' = [pc EXCEPT ![a] = "pop"]
Broadcast == pc' = [a \in Adjutants |-> IF a \in Asleep THEN "pop" ELSE pc[a]]

\* top <= STACK_SIZE.  A mutant.
ReceiveOneMore ==
    /\ main = "receive" /\ do_work /\ arrived < MaxReports
    /\ arrived' = arrived + 1
    /\ \E m \in {r \in Reports \union Illegible : r.no = arrived + 1} :
         IF Len(stack) <= STACK_SIZE
         THEN stack' = Append(stack, m) /\ pushed' = pushed \union {m} /\ Signal
         ELSE UNCHANGED <<stack, pushed, pc>>
    /\ UNCHANGED <<do_work, names, div, map, main, msg, idx, row, napoleon, handled, crossed>>

\* recvfrom, and the push if there is room.
Receive ==
    /\ main = "receive" /\ do_work /\ arrived < MaxReports
    /\ arrived' = arrived + 1
    /\ \E m \in {r \in Reports \union Illegible : r.no = arrived + 1} :
         IF Len(stack) < STACK_SIZE
         THEN stack' = Append(stack, m) /\ pushed' = pushed \union {m} /\ Signal
         ELSE UNCHANGED <<stack, pushed, pc>>
    /\ UNCHANGED <<do_work, names, div, map, main, msg, idx, row, napoleon, handled, crossed>>

\* SIGINT interrupts epoll_pwait.
Sigint ==
    /\ main = "receive" /\ do_work
    /\ do_work' = FALSE
    /\ UNCHANGED <<stack, arrived, names, div, map, main, pc, msg, idx, row,
                   napoleon, pushed, handled, crossed>>

\* One adjutant is woken up only.  A mutant.
StopSignalsOne ==
    /\ main = "receive" /\ ~do_work
    /\ Signal
    /\ main' = "join"
    /\ UNCHANGED <<do_work, stack, arrived, names, div, map, msg, idx, row,
                   napoleon, pushed, handled, crossed>>

\* The loop is left; everybody is woken up.
Stop ==
    /\ main = "receive" /\ ~do_work
    /\ Broadcast
    /\ main' = "join"
    /\ UNCHANGED <<do_work, stack, arrived, names, div, map, msg, idx, row,
                   napoleon, pushed, handled, crossed>>

\* pthread_join of all threads.  Napoleon's loop ends as soon as do_work is cleared.
Join ==
    /\ main = "join"
    /\ \A a \in Adjutants : pc[a] = "ended"
    /\ napoleon = "ended"
    /\ main' = "ended"
    /\ UNCHANGED <<do_work, stack, arrived, names, div, map, pc, msg, idx, row,
                   napoleon, pushed, handled, crossed>>

-----------------------------------------------------------------------------
(* adjutant_thread *)

\* do_work ends the thread, whatever is on the stack.  A mutant.
PopOrEnd(a) ==
    /\ pc[a] = "pop"
    /\ IF ~do_work
       THEN pc' = [pc EXCEPT ![a] = "ended"] /\ UNCHANGED <<stack, msg>>
       ELSE IF stack = <<>>
       THEN pc' = [pc EXCEPT ![a] = "asleep"] /\ UNCHANGED <<stack, msg>>
       ELSE /\ stack' = Front(stack)
            /\ msg' = [msg EXCEPT ![a] = Last(stack)]
            /\ pc' = [pc EXCEPT ![a] = "register"]
    /\ UNCHANGED <<do_work, arrived, names, div, map, main, idx, row,
                   napoleon, pushed, handled, crossed>>

\* Wait for a report, or end when there will be none, or take the one on top.
Pop(a) ==
    /\ pc[a] = "pop"
    /\ IF stack = <<>>
       THEN /\ pc' = [pc EXCEPT ![a] = IF do_work THEN "asleep" ELSE "ended"]
            /\ UNCHANGED <<stack, msg>>
       ELSE /\ stack' = Front(stack)
            /\ msg' = [msg EXCEPT ![a] = Last(stack)]
            /\ pc' = [pc EXCEPT ![a] = "register"]
    /\ UNCHANGED <<do_work, arrived, names, div, map, main, idx, row,
                   napoleon, pushed, handled, crossed>>

\* pthread_cond_wait returns unsignalled.
WakeUp(a) ==
    /\ pc[a] = "asleep"
    /\ pc' = [pc EXCEPT ![a] = "pop"]
    /\ UNCHANGED <<do_work, stack, arrived, names, div, map, main, msg, idx, row,
                   napoleon, pushed, handled, crossed>>

\* a is done with its report.
Done(a) == pc' = [pc EXCEPT ![a] = "pop"] /\ handled' = handled \union {msg[a]}

\* A report that can not be parsed, or for whose division there is no room.
Discard(a) ==
    /\ Done(a)
    /\ UNCHANGED <<names, div, idx, row, crossed>>

\* The others that move division i now.
Moving(i) == {a \in Adjutants : pc[a] \in {"search", "place"} /\ idx[a] = i}

\* Enter the report under index i and begin the search.
Enter(a, i) ==
    /\ idx' = [idx EXCEPT ![a] = i]
    /\ row' = [row EXCEPT ![a] = 1]
    /\ pc'  = [pc EXCEPT ![a] = "search"]
    /\ crossed' = IF Moving(i) = {} THEN crossed ELSE crossed \union {i}
    /\ UNCHANGED handled

\* The index of a name; the last one entered is not compared.  A mutant.
FindShort(name) == {i \in 1..(Len(names) - 1) : names[i] = name}

\* The index of a name, if it was entered.
Find(name) == {i \in 1..Len(names) : names[i] = name}

Register(a) ==
    LET m == msg[a]  n == Len(names) IN
    /\ pc[a] = "register"
    /\ IF m \in Illegible \/ (Find(m.name) = {} /\ n = DIVISION_NAMES_SIZE)
       THEN Discard(a)
       ELSE IF Find(m.name) = {}
       THEN names' = Append(names, m.name) /\ div' = Append(div, m) /\ Enter(a, n + 1)
       ELSE \E i \in Find(m.name) : div' = [div EXCEPT ![i] = m] /\ Enter(a, i) /\ UNCHANGED names
    /\ UNCHANGED <<do_work, stack, arrived, map, main, msg, napoleon, pushed>>

\* The last row is not searched.  A mutant.
SearchShort(a) ==
    LET here  == {y \in Columns : map[<<row[a], y>>] = idx[a]}
        First == CHOOSE y \in here : \A z \in here : y <= z
    IN  /\ pc[a] = "search"
        /\ map' = IF here = {} THEN map ELSE [map EXCEPT ![<<row[a], First>>] = 0]
        /\ IF here # {} \/ row[a] + 1 >= Height
           THEN pc' = [pc EXCEPT ![a] = "place"] /\ UNCHANGED row
           ELSE row' = [row EXCEPT ![a] = @ + 1] /\ UNCHANGED pc
        /\ UNCHANGED <<do_work, stack, arrived, names, div, main, msg, idx,
                       napoleon, pushed, handled, crossed>>

\* Search one row: take the division off the first place where it stands and stop, or go
\* on to the next row.
Search(a) ==
    LET here  == {y \in Columns : map[<<row[a], y>>] = idx[a]}
        First == CHOOSE y \in here : \A z \in here : y <= z
    IN  /\ pc[a] = "search"
        /\ map' = IF here = {} THEN map ELSE [map EXCEPT ![<<row[a], First>>] = 0]
        /\ IF here # {} \/ row[a] = Height
           THEN pc' = [pc EXCEPT ![a] = "place"] /\ UNCHANGED row
           ELSE row' = [row EXCEPT ![a] = @ + 1] /\ UNCHANGED pc
        /\ UNCHANGED <<do_work, stack, arrived, names, div, main, msg, idx,
                       napoleon, pushed, handled, crossed>>

\* Put the division on its new place; who stood there is no longer on the map.
Place(a) ==
    /\ pc[a] = "place"
    /\ map' = [map EXCEPT ![<<msg[a].x, msg[a].y>>] = idx[a]]
    /\ Done(a)
    /\ UNCHANGED <<do_work, stack, arrived, names, div, main, msg, idx, row,
                   napoleon, pushed, crossed>>

-----------------------------------------------------------------------------
(* napoleon_thread *)

\* Napoleon leaves his loop.  In it he only looks: at the map row by row, and at the register
\* for one of his divisions, to whose address he sends an order.
Leave ==
    /\ napoleon = "looking" /\ ~do_work
    /\ napoleon' = "ended"
    /\ UNCHANGED <<do_work, stack, arrived, names, div, map, main, pc, msg, idx, row,
                   pushed, handled, crossed>>

Over == main = "ended" /\ UNCHANGED vars

Main == Stop \/ Join
Adjutant(a) == Pop(a) \/ Register(a) \/ Search(a) \/ Place(a)

Next == \/ Receive \/ Sigint \/ Main \/ Leave \/ Over
        \/ \E a \in Adjutants : Adjutant(a) \/ WakeUp(a)

Spec     == Init /\ [][Next]_vars
FairSpec == Spec /\ WF_vars(Main) /\ WF_vars(Leave) /\ \A a \in Adjutants : WF_vars(Adjutant(a))
-----------------------------------------------------------------------------
(* Properties. *)

Held == {a \in Adjutants : pc[a] \in {"register", "search", "place"}}

\* Type invariant.
TypeOK ==
    /\ do_work \in BOOLEAN
    /\ stack \in Seq(Reports \union Illegible) /\ Len(stack) <= STACK_SIZE
    /\ arrived \in 0..MaxReports
    /\ names \in Seq(Divisions) /\ Len(names) <= DIVISION_NAMES_SIZE
    /\ div \in Seq(Reports)
    /\ map \in [Rows \X Columns -> {0} \union Indices]
    /\ main \in {"receive", "join", "ended"}
    /\ napoleon \in {"looking", "ended"}
    /\ pc \in [Adjutants -> {"pop", "asleep", "register", "search", "place", "ended"}]
    /\ msg \in [Adjutants -> Reports \union Illegible \union {NoReport}]
    /\ idx \in [Adjutants -> {0} \union Indices]
    /\ row \in [Adjutants -> Rows]
    /\ {pushed, handled} \subseteq SUBSET (Reports \union Illegible)
    /\ crossed \subseteq Indices

\* However many adjutants enter divisions at a time, a division has one index, and the
\* address and the side kept at an index are from a report of that division (div_mutex).
OneIndexPerName ==
    /\ \A i, j \in 1..Len(names) : names[i] = names[j] => i = j
    /\ Len(div) = Len(names)
    /\ \A i \in 1..Len(names) : div[i] \in pushed /\ div[i].name = names[i]

\* A division stands in one place, and in none while it is moved, unless two adjutants have
\* moved it at a time: the search lets go of each row before it locks the next one.
OnePlace ==
    LET Places(i) == {s \in DOMAIN map : map[s] = i} IN
    /\ \A i \in (1..Len(names)) \ crossed : Cardinality(Places(i)) <= 1
    /\ \A a \in Adjutants :
          pc[a] = "place" /\ idx[a] \notin crossed => Places(idx[a]) = {}

\* A report that was pushed is on the stack, with one adjutant, or handled, and when the
\* program ends all are handled.
EveryReportOnce ==
    LET onStack == ToSet(stack)  held == {msg[a] : a \in Held} IN
    /\ pushed = onStack \union held \union handled
    /\ Cardinality(pushed) = Len(stack) + Cardinality(Held) + Cardinality(handled)
    /\ main = "ended" => pushed = handled

\* After SIGINT every thread ends, those that sleep on stack_cond as well.
ShutdownEnds == ~do_work ~> main = "ended"
=============================================================================
