----------------------------- MODULE MonteCarlo ------------------------------
(***************************************************************************)
(* lab06/l6-1/l6-1.c: n children estimate pi; each stores what it has      *)
(* found in a place of its own in shared memory, and then in its line of   *)
(* the log file; the parent waits for all and takes the average.           *)
(***************************************************************************)
EXTENDS Integers, Functions

CONSTANTS n,                 \* children
          MONTE_CARLO_ITERS  \* points each of them tries

VARIABLES pc,
          data,  \* data[i]: how many of the points of child i fell into the circle
          lines, \* lines[i]: what line i of the log says of it
          mean   \* n times the average the parent prints

Parent == -1
Child  == 0..(n - 1)

Init ==
    /\ pc    = [q \in {Parent} \union Child |-> IF q = Parent THEN "fork" ELSE "unborn"]
    /\ data  = [i \in Child |-> 0]
    /\ lines = [i \in Child |-> -1]
    /\ mean  = -1

\* create_children, from the last child to the first.
Fork ==
    /\ pc[Parent] = "fork"
    /\ LET unborn == {i \in Child : pc[i] = "unborn"}
       IN  IF unborn = {} THEN pc' = [pc EXCEPT ![Parent] = "wait"]
           ELSE \E i \in unborn : /\ \A j \in unborn : j <= i
                                  /\ pc' = [pc EXCEPT ![i] = "work"]
    /\ UNCHANGED <<data, lines, mean>>

\* child_work: the samples, and the line.
Work(i) ==
    /\ pc[i] = "work"
    /\ \E sample \in 0..MONTE_CARLO_ITERS : data' = [data EXCEPT ![i] = sample]
    /\ pc' = [pc EXCEPT ![i] = "log"]
    /\ UNCHANGED <<lines, mean>>

Log(i) ==
    /\ pc[i] = "log"
    /\ lines' = [lines EXCEPT ![i] = data[i]]
    /\ pc' = [pc EXCEPT ![i] = "ended"]
    /\ UNCHANGED <<data, mean>>

\* parent_work: wait until there are no children.
Average ==
    /\ pc[Parent] = "wait" /\ \A i \in Child : pc[i] = "ended"
    /\ mean' = FoldFunction(+, 0, data)
    /\ pc' = [pc EXCEPT ![Parent] = "ended"]
    /\ UNCHANGED <<data, lines>>

Step(q) == (q = Parent /\ (Fork \/ Average)) \/ (q \in Child /\ (Work(q) \/ Log(q)))
Next == \E q \in DOMAIN pc : Step(q)
Over == pc[Parent] = "ended"
-----------------------------------------------------------------------------
\* What the parent prints at last is the average of what the log says, of all children.
AverageRight == pc[Parent] = "ended" => mean = FoldFunction(+, 0, lines)
=============================================================================
