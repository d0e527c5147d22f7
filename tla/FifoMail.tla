------------------------------ MODULE FifoMail -------------------------------
(***************************************************************************)
(* lab05/prog21_c.c, prog21a_s.c and prog21b_s.c: clients write a file,    *)
(* chunk by chunk, into a FIFO that a server reads to its end.  Whoever    *)
(* comes first makes the FIFO.  prog21b_s removes its name at the end,     *)
(* prog21a_s leaves it.                                                    *)
(*                                                                         *)
(* open waits for the other side; who begins to open wakes those that wait *)
(* on that side already.  A client that opens a FIFO whose reader has      *)
(* gone waits for ever.                                                    *)
(***************************************************************************)
EXTENDS Pipes

CONSTANTS Client,  \* numbers other than Server
          Chunks   \* Chunks[c]: so many chunks are in the file of c; 0 if it has no file

Server == 0
None   == 0
Fifos  == {1, 2}  \* the first FIFO, and the one made after that has been unlinked

VARIABLES
    pc,        \* pc[q]: where the server, or client q, is
    name,      \* the FIFO that has the name, or None
    fifo,      \* fifo[q]: the FIFO that q has opened, or is opening
    unlinks,   \* the server is prog21b_s
    chunks,    \* chunks[c]: so many chunks has c written
    printed    \* printed[c]: so many of them has the server printed

local == <<pc, name, fifo, unlinks, chunks, printed>>
vars  == <<pipes, local>>
Procs == Client \union {Server}

Init ==
    /\ content = [f \in Fifos |-> <<>>]
    /\ readers = [f \in Fifos |-> {}] /\ writers = [f \in Fifos |-> {}]
    /\ pc      = [q \in Procs |-> "mkfifo"]
    /\ name    \in {None, 1}  \* another server may have left it
    /\ fifo    = [q \in Procs |-> None]
    /\ unlinks \in BOOLEAN
    /\ chunks  = [c \in Client |-> 0]
    /\ printed = [c \in Client |-> 0]

Go(q, place) == pc' = [pc EXCEPT ![q] = place]

\* mkfifo, or EEXIST.
Mkfifo(q) ==
    /\ pc[q] = "mkfifo" /\ Go(q, "open")
    /\ name' = IF name # None THEN name
               ELSE IF \E p \in Procs : fifo[p] # None THEN 2 ELSE 1
    /\ UNCHANGED <<pipes, fifo, unlinks, chunks, printed>>

\* open, in which q may have to wait, and others no longer do.
Open(q) ==
    /\ pc[q] = "open" /\ name # None
    /\ LET sameSide == IF q = Server THEN readers[name] ELSE writers[name]
           partners == IF q = Server THEN writers[name] ELSE readers[name]
       IN  pc' = [p \in Procs |-> IF p = q THEN (IF partners = {} THEN "opening" ELSE "opened")
                                  ELSE IF p \in partners /\ pc[p] = "opening" THEN "opened"
                                  ELSE pc[p]]
    /\ IF q = Server THEN readers' = [readers EXCEPT ![name] = @ \union {q}] /\ UNCHANGED writers
                     ELSE writers' = [writers EXCEPT ![name] = @ \union {q}] /\ UNCHANGED readers
    /\ fifo' = [fifo EXCEPT ![q] = name]
    /\ UNCHANGED <<content, name, unlinks, chunks, printed>>

\* The name has been removed in between: ENOENT.
OpenFails(q) ==
    /\ pc[q] = "open" /\ name = None /\ Go(q, "ended")
    /\ UNCHANGED <<pipes, name, fifo, unlinks, chunks, printed>>
-----------------------------------------------------------------------------
(* A client. *)

\* write_to_fifo; SIGPIPE kills who finds no reader.
Write(c) ==
    /\ pc[c] = "opened" /\ chunks[c] < Chunks[c]
    /\ \/ /\ Writable(fifo[c]) /\ Put(fifo[c], <<c, chunks[c] + 1>>)
          /\ chunks' = [chunks EXCEPT ![c] = @ + 1]
          /\ UNCHANGED <<pc, readers, writers>>
       \/ Broken(fifo[c]) /\ Exit(c) /\ Go(c, "killed") /\ UNCHANGED chunks
    /\ UNCHANGED <<name, fifo, unlinks, printed>>

Finish(c) ==
    /\ pc[c] = "opened" /\ chunks[c] = Chunks[c]
    /\ Exit(c) /\ Go(c, "ended")
    /\ UNCHANGED <<name, fifo, unlinks, chunks, printed>>
-----------------------------------------------------------------------------
(* The server. *)

\* read_from_fifo
PrintChunk ==
    /\ pc[Server] = "opened" /\ Readable(fifo[Server])
    /\ printed' = [printed EXCEPT ![Head(content[fifo[Server]])[1]] = @ + 1]
    /\ Take(fifo[Server])
    /\ UNCHANGED <<readers, writers, pc, name, fifo, unlinks, chunks>>

SeeEof ==
    /\ pc[Server] = "opened" /\ Eof(fifo[Server]) /\ Go(Server, "close")
    /\ UNCHANGED <<pipes, name, fifo, unlinks, chunks, printed>>

CloseFifo ==
    /\ pc[Server] = "close" /\ Exit(Server)
    /\ Go(Server, IF unlinks THEN "unlink" ELSE "ended")
    /\ UNCHANGED <<name, fifo, unlinks, chunks, printed>>

Unlink ==
    /\ pc[Server] = "unlink" /\ Go(Server, "ended")
    /\ name' = None
    /\ UNCHANGED <<pipes, fifo, unlinks, chunks, printed>>

Act(q) == \/ q \in Procs /\ (Mkfifo(q) \/ Open(q) \/ OpenFails(q))
          \/ q \in Client /\ (Write(q) \/ Finish(q))
          \/ q = Server /\ (PrintChunk \/ SeeEof \/ CloseFifo \/ Unlink)
Next   == \E q \in Procs : Act(q)

\* A client that came too late waits for a reader.
Late(c) == pc[c] = "opening" /\ pc[Server] = "ended"
Over    == pc[Server] = "ended" /\ \A c \in Client : pc[c] \in {"ended", "killed"} \/ Late(c)
-----------------------------------------------------------------------------
(* Properties. *)

\* The chunks of a client are printed in order and each once, however many write; while the
\* server reads, none is lost and nobody is killed, and a client that waits then is one whose
\* FIFO is not the server's.
ChunksInOrder ==
    \A c \in Client :
        LET pipe  == IF fifo[c] = None THEN <<>> ELSE content[fifo[c]]
            mine  == {k \in DOMAIN pipe : pipe[k][1] = c}
            Upto(k) == {j \in mine : j <= k}
        IN  /\ \A k \in mine : pipe[k][2] = printed[c] + Cardinality(Upto(k))
            /\ pc[Server] = "opened" => /\ chunks[c] = printed[c] + Cardinality(mine)
                                        /\ pc[c] \notin {"killed", "opening"}
            /\ printed[c] <= chunks[c]
=============================================================================
