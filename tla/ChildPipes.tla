------------------------------ MODULE ChildPipes -----------------------------
(***************************************************************************)
(* lab05/prog22b.c: at SIGINT the parent writes a letter to one of its     *)
(* children, each of which answers with a line of that letter through R,   *)
(* which they share.  SIGINT ends a child now and then, and the parent     *)
(* ends when all children have.                                            *)
(*                                                                         *)
(* A line of the greatest length ends one byte behind the buffer of the    *)
(* parent, which may abort it.                                             *)
(***************************************************************************)
EXTENDS Pipes

CONSTANTS N,          \* children 1..N
          MaxSigint   \* bound: how often SIGINT comes to the parent's handler

Parent == 0
Child  == 1..N
Fd(i)  == <<Parent, i>>
R      == <<Parent, Parent>>

VARIABLES
    pc,           \* pc[q]: where the parent, or child q, is
    last_signal,  \* the parent's: SIGINT has come
    signals,      \* how often it came
    letters,      \* letters[i]: what the parent has written to child i
    printed       \* printed[i]: the lines of child i the parent has printed

local == <<pc, last_signal, signals, letters, printed>>
vars  == <<pipes, local>>

Alive == {i \in Child : pc[i] \in {"read", "write"}}

\* main and create_children_and_pipes: children keep the reading end of R, too.
Init ==
    /\ content = [e \in {R} \union {Fd(i) : i \in Child} |-> <<>>]
    /\ writers = [e \in DOMAIN content |-> IF e = R THEN Child \union {Parent} ELSE {Parent}]
    /\ readers = [e \in DOMAIN content |-> IF e = R THEN Child \union {Parent} ELSE {e[2]}]
    /\ pc = [q \in Child \union {Parent} |-> IF q = Parent THEN "main" ELSE "read"]
    /\ last_signal = FALSE /\ signals = 0
    /\ letters = [i \in Child |-> 0]
    /\ printed = [i \in Child |-> 0]

Go(q, place) == pc' = [pc EXCEPT ![q] = place]
Killed       == pc' = [q \in DOMAIN pc |-> IF pc[q] = "ended" THEN "ended" ELSE "killed"]

\* The parent sleeps in its read of R.  A signal wakes it (EINTR), if it comes no earlier.
Sleeps      == pc[Parent] = "read" /\ ~Readable(R) /\ ~Eof(R)
Interrupted == IF Sleeps THEN {"read", "test"} ELSE {pc[Parent]}
-----------------------------------------------------------------------------
(* The parent. *)

\* The end of main's part: close the writing end of R, and handle SIGINT.
Begin ==
    /\ pc[Parent] = "main" /\ Go(Parent, "test")
    /\ Close(Parent, {}, {R})
    /\ UNCHANGED <<last_signal, signals, letters, printed>>

Test ==
    /\ pc[Parent] = "test" /\ Go(Parent, IF last_signal THEN "ask" ELSE "read")
    /\ UNCHANGED <<pipes, last_signal, signals, letters, printed>>

\* A letter to a child whose descriptor is open; it is closed if the child is gone.
\* Another SIGINT that has come by now is forgotten.
Ask ==
    /\ pc[Parent] = "ask" /\ Go(Parent, "read")
    /\ last_signal' = FALSE
    /\ LET open == {i \in Child : Parent \in writers[Fd(i)]}
       IN  \/ open = {} /\ UNCHANGED <<pipes, letters>>
           \/ \E i \in open : \/ /\ Writable(Fd(i)) /\ Put(Fd(i), "letter")
                                 /\ letters' = [letters EXCEPT ![i] = @ + 1]
                                 /\ UNCHANGED <<readers, writers>>
                              \/ /\ Broken(Fd(i)) /\ Close(Parent, {}, {Fd(i)})
                                 /\ UNCHANGED letters
    /\ UNCHANGED <<signals, printed>>

\* A line: its length, as long as MAX_BUFF or not, and who has written it.
Line == Head(content[R])
PrintLine ==
    /\ pc[Parent] = "read" /\ Readable(R)
    /\ printed' = [printed EXCEPT ![Line[1]] = @ + 1] /\ Take(R)
    /\ \/ Go(Parent, "test") /\ UNCHANGED <<readers, writers>>
       \/ /\ Line[2] = "longest" /\ Go(Parent, "killed")
          /\ readers' = [e \in DOMAIN readers |-> readers[e] \ {Parent}]
          /\ writers' = [e \in DOMAIN writers |-> writers[e] \ {Parent}]
    /\ UNCHANGED <<last_signal, signals, letters>>

SeeEof ==
    /\ pc[Parent] = "read" /\ Eof(R)
    /\ Exit(Parent) /\ Go(Parent, "ended")
    /\ UNCHANGED <<last_signal, signals, letters, printed>>

\* sig_handler
Sigint ==
    /\ signals < MaxSigint /\ pc[Parent] \in {"test", "ask", "read"}
    /\ signals' = signals + 1 /\ last_signal' = TRUE
    /\ \E place \in Interrupted : Go(Parent, place)
    /\ UNCHANGED <<pipes, letters, printed>>
-----------------------------------------------------------------------------
(* A child. *)

\* The end of file comes only when the parent has aborted: ERR kills the group.
ReadLetter(i) ==
    /\ pc[i] = "read"
    /\ \/ Readable(Fd(i)) /\ Take(Fd(i)) /\ Go(i, "write")
       \/ Eof(Fd(i)) /\ Killed /\ UNCHANGED content
    /\ UNCHANGED <<readers, writers, last_signal, signals, letters, printed>>

WriteLine(i) ==
    /\ pc[i] = "write" /\ Writable(R)
    /\ \E length \in {"shorter", "longest"} : Put(R, <<i, length>>)
    /\ Go(i, "read")
    /\ UNCHANGED <<readers, writers, last_signal, signals, letters, printed>>

\* sig_killme: exit, wherever the child is; SIGCHLD comes to the parent.
SigKillme(i) ==
    /\ i \in Alive
    /\ Exit(i)
    /\ \E place \in Interrupted : pc' = [pc EXCEPT ![i] = "ended", ![Parent] = place]
    /\ UNCHANGED <<last_signal, signals, letters, printed>>

Act(q) == \/ q = Parent /\ (Begin \/ Test \/ Ask \/ PrintLine \/ SeeEof)
          \/ q \in Child /\ (ReadLetter(q) \/ WriteLine(q))
Over   == \A q \in Child \union {Parent} : pc[q] \in {"ended", "killed"}
Next   == Sigint \/ (\E i \in Child : SigKillme(i)) \/ \E q \in Child \union {Parent} : Act(q)
-----------------------------------------------------------------------------
(* Properties. *)

\* No letter of a child that lives is lost, whichever signals come: it is on its way there,
\* on its way back, or printed.
LettersAccounted ==
    \A i \in Child :
        LET back    == Cardinality({k \in DOMAIN content[R] : content[R][k][1] = i})
            changed == IF pc[i] = "write" THEN 1 ELSE 0
        IN  /\ printed[i] + back <= letters[i]
            /\ i \in Alive => letters[i] = Len(content[Fd(i)]) + changed + back + printed[i]

\* The parent ends after all of its children, and kills none.
EndsLast == pc[Parent] = "ended" => \A i \in Child : pc[i] = "ended"
=============================================================================
