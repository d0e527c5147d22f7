------------------------------- MODULE Factory -------------------------------
(***************************************************************************)
(* lab05/sop-factory/sop-factory.c: workers of a first brigade read        *)
(* letters from a FIFO and pass them to a second brigade, which copies     *)
(* them for a third one, which makes words.  All workers of a brigade      *)
(* share its pipes.  Each worker reports to the boss, who reads the        *)
(* reports when all have ended.                                            *)
(*                                                                         *)
(* open of the FIFO blocks until somebody has it open for writing; whoever *)
(* writes opens and closes it Sessions times, and can do so only while a   *)
(* reader is there.  A worker that comes to open after the last writer has *)
(* gone waits for ever.  SIGINT, which comes to the processes one by one,  *)
(* makes open fail, and ERR kills the whole group.                         *)
(***************************************************************************)
EXTENDS Pipes, Folds

CONSTANTS First, Second, Third,  \* the workers of the brigades
          Boss, Fifo,            \* the boss, the writer of the FIFO
          Letters,               \* what is written into the FIFO; "?" is no letter
          MaxCopies, Word,       \* a letter is copied up to so often, a word so long
          Sessions,              \* bound: how often the FIFO is opened for writing
          Interruptible          \* bound: the workers that SIGINT may come to

Worker == First \union Second \union Third
fifo   == "fifo"
pipe12 == "pipe12"
pipe23 == "pipe23"
Edges  == {fifo, pipe12, pipe23}

VARIABLES
    pc,            \* pc[q]: where worker q, or the boss, is
    keep_running,  \* keep_running[w]
    items,         \* items[w]: report.items_processed
    copies,        \* copies[w]: how many copies of its letter w has yet to write
    count,         \* count[w]: the letters of the word w is making
    written,       \* so many letters were written into the FIFO
    sessions,      \* how often it was opened for writing
    reports        \* the reports in the boss's pipes, of the workers that have written one

local == <<pc, keep_running, items, copies, count, written, sessions, reports>>
vars  == <<pipes, local>>

Init ==
    /\ content = [e \in Edges |-> <<>>]
    /\ writers = [e \in Edges |-> CASE e = fifo -> {} [] e = pipe12 -> First [] e = pipe23 -> Second]
    /\ readers = [e \in Edges |-> CASE e = fifo -> {} [] e = pipe12 -> Second [] e = pipe23 -> Third]
    /\ pc = [q \in Worker \union {Boss} |-> IF q \in First THEN "start" ELSE IF q = Boss THEN "wait" ELSE "loop"]
    /\ keep_running = [w \in Worker |-> TRUE]
    /\ items  = [w \in Worker |-> 0]
    /\ copies = [w \in Worker |-> 0]
    /\ count  = [w \in Worker |-> 0]
    /\ written = 0 /\ sessions = 0 /\ reports = {}

Go(q, place) == pc' = [pc EXCEPT ![q] = place]
-----------------------------------------------------------------------------
(* The FIFO. *)

\* open(fifo_path, O_RDONLY)
OpenFifo(w) ==
    /\ pc[w] = "start" /\ w \in First
    /\ readers' = [readers EXCEPT ![fifo] = @ \union {w}]
    /\ Go(w, IF Fifo \in writers[fifo] THEN "loop" ELSE "opening")
    /\ UNCHANGED <<content, writers, keep_running, items, copies, count, written, sessions, reports>>

\* Somebody opens the FIFO for writing: those that wait in open go on.
BeginWriting ==
    /\ sessions < Sessions /\ writers[fifo] = {} /\ readers[fifo] # {}
    /\ writers' = [writers EXCEPT ![fifo] = {Fifo}]
    /\ sessions' = sessions + 1
    /\ pc' = [q \in DOMAIN pc |-> IF pc[q] = "opening" THEN "loop" ELSE pc[q]]
    /\ UNCHANGED <<content, readers, keep_running, items, copies, count, written, reports>>

WriteFifo ==
    /\ Fifo \in writers[fifo] /\ written < Len(Letters)
    /\ Writable(fifo)
    /\ Put(fifo, Letters[written + 1])
    /\ written' = written + 1
    /\ UNCHANGED <<readers, writers, pc, keep_running, items, copies, count, sessions, reports>>

EndWriting ==
    /\ Fifo \in writers[fifo]
    /\ Close(Fifo, {}, {fifo})
    /\ UNCHANGED <<pc, keep_running, items, copies, count, written, sessions, reports>>
-----------------------------------------------------------------------------
(* Workers. *)

From(w) == IF w \in First THEN fifo ELSE IF w \in Second THEN pipe12 ELSE pipe23
To(w)   == IF w \in First THEN pipe12 ELSE pipe23

\* while (keep_running); after the first time the test is part of the step before it.
Continue(running) == IF running THEN "read" ELSE "report"
Loop(w) ==
    /\ pc[w] = "loop"
    /\ Go(w, Continue(keep_running[w]))
    /\ UNCHANGED <<pipes, keep_running, items, copies, count, written, sessions, reports>>

\* The end of the letters.
ReadEof(w) ==
    /\ pc[w] = "read" /\ Eof(From(w))
    /\ Go(w, "report")
    /\ UNCHANGED <<pipes, keep_running, items, copies, count, written, sessions, reports>>

\* first_brigade_work: what is no letter is skipped.
ReadFirst(w) ==
    /\ w \in First /\ pc[w] = "read" /\ Readable(fifo)
    /\ Take(fifo)
    /\ Go(w, IF Head(content[fifo]) = "?" THEN Continue(keep_running[w]) ELSE "write")
    /\ UNCHANGED <<readers, writers, keep_running, items, copies, count, written, sessions, reports>>

\* A letter is counted when it is passed on.
WriteFirst(w) ==
    /\ w \in First /\ pc[w] = "write"
    /\ \/ Broken(pipe12) /\ Go(w, "report") /\ UNCHANGED <<content, items>>
       \/ /\ Writable(pipe12)
          /\ Put(pipe12, "letter")
          /\ items' = [items EXCEPT ![w] = @ + 1]
          /\ Go(w, Continue(keep_running[w]))
    /\ UNCHANGED <<readers, writers, keep_running, copies, count, written, sessions, reports>>

\* second_brigade_work
ReadSecond(w) ==
    /\ w \in Second /\ pc[w] = "read" /\ Readable(pipe12)
    /\ Take(pipe12)
    /\ \E c \in 1..MaxCopies : copies' = [copies EXCEPT ![w] = c]
    /\ Go(w, "write")
    /\ UNCHANGED <<readers, writers, keep_running, items, count, written, sessions, reports>>

\* The letter is counted with its last copy, or when nobody takes copies any more; then
\* keep_running is cleared.
WriteSecond(w) ==
    /\ w \in Second /\ pc[w] = "write"
    /\ \/ /\ Broken(pipe23)
          /\ keep_running' = [keep_running EXCEPT ![w] = FALSE]
          /\ copies' = [copies EXCEPT ![w] = 0] /\ UNCHANGED content
       \/ /\ Writable(pipe23)
          /\ Put(pipe23, "letter")
          /\ copies' = [copies EXCEPT ![w] = @ - 1] /\ UNCHANGED keep_running
    /\ items' = [items EXCEPT ![w] = IF copies'[w] = 0 THEN @ + 1 ELSE @]
    /\ Go(w, IF copies'[w] = 0 THEN Continue(keep_running'[w]) ELSE "write")
    /\ UNCHANGED <<readers, writers, count, written, sessions, reports>>

\* third_brigade_work
ReadThird(w) ==
    /\ w \in Third /\ pc[w] = "read" /\ Readable(pipe23)
    /\ Take(pipe23)
    /\ count' = [count EXCEPT ![w] = (@ + 1) % Word]
    /\ items' = [items EXCEPT ![w] = IF count[w] + 1 = Word THEN @ + 1 ELSE @]
    /\ Go(w, Continue(keep_running[w]))
    /\ UNCHANGED <<readers, writers, keep_running, copies, written, sessions, reports>>

\* Write the report and exit.
Report(w) ==
    /\ pc[w] = "report"
    /\ reports' = reports \union {w}
    /\ Exit(w)
    /\ Go(w, "ended")
    /\ UNCHANGED <<keep_running, items, copies, count, written, sessions>>

\* SIGINT: a read or a write is made again, but open is not.
Sigint(w) ==
    /\ w \in Interruptible /\ pc[w] \notin {"ended", "killed"} /\ keep_running[w]
    /\ keep_running' = [keep_running EXCEPT ![w] = FALSE]
    /\ pc' = IF pc[w] = "opening" THEN [q \in DOMAIN pc |-> "killed"] ELSE pc
    /\ UNCHANGED <<pipes, items, copies, count, written, sessions, reports>>

\* The boss waits for all workers, then reads their reports.
BossEnds ==
    /\ pc[Boss] = "wait" /\ \A w \in Worker : pc[w] = "ended"
    /\ Go(Boss, "ended")
    /\ UNCHANGED <<pipes, keep_running, items, copies, count, written, sessions, reports>>

External == BeginWriting \/ WriteFifo \/ EndWriting
Act(q) == \/ q \in First /\ OpenFifo(q)
          \/ q \in Worker /\ \/ Loop(q) \/ ReadEof(q) \/ Report(q)
                             \/ ReadFirst(q) \/ WriteFirst(q)
                             \/ ReadSecond(q) \/ WriteSecond(q) \/ ReadThird(q)
          \/ q = Boss /\ BossEnds

\* A worker that came too late to open the FIFO.
Late == {w \in First : pc[w] = "opening"}
Over == \/ \A q \in Worker \union {Boss} : pc[q] \in {"ended", "killed"}
        \/ sessions = Sessions /\ writers[fifo] = {} /\ Late # {}
Next == External \/ \E q \in Worker \union {Boss} : Act(q) \/ (q \in Worker /\ Sigint(q))
-----------------------------------------------------------------------------
(* Properties. *)

\* Nothing is lost between the brigades: what one reports the next one has read, reads, or
\* will find in the pipe, unless SIGINT ends a brigade early; and who ended has reported.
\* Nor is what is written into the FIFO, as long as it is opened for writing once: whoever
\* opens it again may find only workers that read no more.
Sum(S)  == MapThenFoldSet(+, 0, LAMBDA w : items[w], LAMBDA s : CHOOSE w \in s : TRUE, S)
Busy(S) == Cardinality({w \in S : pc[w] = "write"})
Skipped(n) == Cardinality({i \in 1..n : Letters[i] = "?"})
ReportsBalance ==
    (\A w \in Worker : keep_running[w]) =>
        /\ Sum(First) = Sum(Second) + Busy(Second) + Len(content[pipe12])
        /\ \A w \in Worker : pc[w] = "ended" => w \in reports
        /\ pc[Boss] = "ended" => /\ content[pipe12] = <<>> /\ content[pipe23] = <<>>
                                 /\ sessions <= 1 =>
                                      Sum(First) + Skipped(written) + Len(content[fifo]) = written
=============================================================================
