----------------------------- MODULE ChildLetters ----------------------------
(***************************************************************************)
(* lab05/prog22a.c: each child writes a letter to a pipe that all share,   *)
(* and the parent prints what it reads.  The read is not repeated when     *)
(* SIGCHLD interrupts it: ERR then kills the group, and what has not been  *)
(* written by then never is.                                               *)
(***************************************************************************)
EXTENDS Pipes

CONSTANT N  \* children 1..N

Parent == 0
Child  == 1..N
R      == <<Parent, Parent>>

VARIABLES pc,
          letters, \* the children that have written
          printed  \* the letters the parent has printed: whose they are

vars == <<pipes, pc, letters, printed>>

\* main and create_children_and_pipes: children keep the reading end of R, too.
Init ==
    /\ content = [e \in {R} |-> <<>>]
    /\ writers = [e \in {R} |-> Child \union {Parent}]
    /\ readers = [e \in {R} |-> Child \union {Parent}]
    /\ pc = [q \in Child \union {Parent} |-> IF q = Parent THEN "main" ELSE "work"]
    /\ letters = {} /\ printed = <<>>

Go(q, place) == pc' = [pc EXCEPT ![q] = place]
Killed       == pc' = [q \in DOMAIN pc |-> IF pc[q] = "ended" THEN "ended" ELSE "killed"]
Sleeps       == pc[Parent] = "read" /\ ~Readable(R) /\ ~Eof(R)
-----------------------------------------------------------------------------
\* child_work
Work(c) ==
    /\ pc[c] = "work" /\ Writable(R)
    /\ Put(R, c) /\ letters' = letters \union {c}
    /\ Go(c, "close")
    /\ UNCHANGED <<readers, writers, printed>>

\* Its descriptors are closed, and only then does the parent get SIGCHLD.
CloseChild(c) ==
    /\ pc[c] = "close" /\ Exit(c) /\ Go(c, "exit")
    /\ UNCHANGED <<letters, printed>>

\* SIGCHLD: if the parent sleeps in read, or is only about to (the first case).
Sigchld(c) ==
    /\ pc[c] = "exit"
    /\ Go(c, "ended") \/ (Sleeps /\ Killed)
    /\ UNCHANGED <<pipes, letters, printed>>

Begin ==
    /\ pc[Parent] = "main" /\ Go(Parent, "read")
    /\ Close(Parent, {}, {R})
    /\ UNCHANGED <<letters, printed>>

\* parent_work
PrintLetter ==
    /\ pc[Parent] = "read" /\ Readable(R)
    /\ printed' = Append(printed, Head(content[R])) /\ Take(R)
    /\ UNCHANGED <<readers, writers, pc, letters>>

SeeEof ==
    /\ pc[Parent] = "read" /\ Eof(R)
    /\ Exit(Parent) /\ Go(Parent, "ended")
    /\ UNCHANGED <<letters, printed>>

Act(q) == \/ q = Parent /\ (Begin \/ PrintLetter \/ SeeEof)
          \/ q \in Child /\ (Work(q) \/ CloseChild(q) \/ Sigchld(q))
Over   == \A q \in Child \union {Parent} : pc[q] \in {"ended", "killed"}
Next   == \E q \in Child \union {Parent} : Act(q)
-----------------------------------------------------------------------------
\* No letter is printed twice; and when the parent ends on its own, it has printed all, even
\* of children it has not waited for.
AllPrinted ==
    LET whose == {printed[k] : k \in DOMAIN printed}
    IN  /\ Len(printed) = Cardinality(whose) /\ whose \subseteq letters
        /\ pc[Parent] = "ended" => whose = Child
=============================================================================
