----------------------------- MODULE LetterCount -----------------------------
(***************************************************************************)
(* lab06/sop-1/sop-1.c: M children count the characters of a file, each in *)
(* its part of it and in a table of its own in shared memory; the parent   *)
(* waits for all of them and adds up the tables.  Now and then a child     *)
(* notes a failure, under a mutex, and aborts; the parent then adds        *)
(* nothing.  The last child counts what the division leaves over.          *)
(***************************************************************************)
EXTENDS Integers, Sequences, FiniteSets, Functions

CONSTANTS Texts,    \* what may be in the file
          MAX_PROC  \* children there are tables for; the program does not compare M with it

VARIABLES
    pc,      \* pc[q]: where the parent, or child q, is
    log, M,  \* the file, and the number of children
    signs,   \* signs[n]: the table of child n
    failed,
    total    \* total_counts of the report

Parent == -1
Chars  == UNION {Range(t) : t \in Texts}
NoSign == [c \in Chars |-> 0]
Size   == Len(log)

\* How often each character is at positions from..end - 1 of the file.
Counted(from, end) == [c \in Chars |-> Cardinality({i \in from..(end - 1) : log[i + 1] = c})]

Init ==
    /\ log \in Texts /\ M \in 1..MAX_PROC
    /\ pc     = [q \in {Parent} \union 0..(M - 1) |-> IF q = Parent THEN "fork" ELSE "unborn"]
    /\ signs  = [n \in 0..(M - 1) |-> NoSign]
    /\ failed = 0
    /\ total  = NoSign

\* Every child ends where the next one starts.  A mutant.
EndNext(n) == (Size \div M) * (n + 1)

\* The part of child n.
StartOf(n) == (Size \div M) * n
EndOf(n) == IF n = M - 1 THEN Size ELSE (Size \div M) * (n + 1)
-----------------------------------------------------------------------------
\* create_children, from the last child to the first.
Fork ==
    /\ pc[Parent] = "fork"
    /\ LET unborn == {n \in 0..(M - 1) : pc[n] = "unborn"}
       IN  IF unborn = {} THEN pc' = [pc EXCEPT ![Parent] = "wait"]
           ELSE \E n \in unborn : /\ \A m \in unborn : m <= n
                                  /\ pc' = [pc EXCEPT ![n] = "program"]
    /\ UNCHANGED <<log, M, signs, failed, total>>

\* program
Program(n) ==
    /\ pc[n] = "program"
    /\ signs' = [signs EXCEPT ![n] = Counted(StartOf(n), EndOf(n))]
    /\ pc' = [pc EXCEPT ![n] = "chance"]
    /\ UNCHANGED <<log, M, failed, total>>

Fail(n) ==
    /\ pc[n] = "chance"
    /\ failed' = 1
    /\ pc' = [pc EXCEPT ![n] = "aborted"]
    /\ UNCHANGED <<log, M, signs, total>>

Succeed(n) ==
    /\ pc[n] = "chance"
    /\ pc' = [pc EXCEPT ![n] = "ended"]
    /\ UNCHANGED <<log, M, signs, failed, total>>

\* All children have been waited for.
Report ==
    /\ pc[Parent] = "wait" /\ \A n \in 0..(M - 1) : pc[n] \in {"ended", "aborted"}
    /\ total' = IF failed = 1 THEN NoSign
                ELSE [c \in Chars |-> FoldFunction(+, 0, [n \in 0..(M - 1) |-> signs[n][c]])]
    /\ pc' = [pc EXCEPT ![Parent] = "ended"]
    /\ UNCHANGED <<log, M, signs, failed>>

Step(q) == \/ q = Parent /\ (Fork \/ Report)
           \/ q \in 0..(M - 1) /\ (Program(q) \/ Fail(q) \/ Succeed(q))
Next == \E q \in DOMAIN pc : Step(q)
Over == pc[Parent] = "ended"
-----------------------------------------------------------------------------
\* Whatever is left over by the division, and whoever aborts: the report is of the whole file,
\* or of nothing since a child has failed.
ReportRight ==
    pc[Parent] = "ended" => \/ failed = 0 /\ total = Counted(0, Size)
                            \/ total = NoSign /\ \E n \in 0..(M - 1) : pc[n] = "aborted"
=============================================================================
