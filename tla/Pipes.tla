-------------------------------- MODULE Pipes --------------------------------
(***************************************************************************)
(* Pipes as the programs of lab05 use them.  A pipe has a content and, for *)
(* each end, the processes that hold it open: who reads an empty pipe gets *)
(* the end of file only when nobody holds the writing end any more, and    *)
(* who writes gets EPIPE (SIGPIPE is ignored) when nobody holds the        *)
(* reading end.  A message is at most PIPE_BUF bytes, so it is written and *)
(* read as a whole.                                                        *)
(***************************************************************************)
EXTENDS Integers, Sequences, FiniteSets

CONSTANT Capacity  \* bound: so many messages fill a pipe

VARIABLES
    content,  \* content[e]: the messages in pipe e
    readers,  \* readers[e]: who holds its reading end
    writers   \* writers[e]: who holds its writing end

pipes == <<content, readers, writers>>

\* Pipes of which each end is held by one process: ends[e] = <<writer, reader>>.
PipesInit(ends) ==
    /\ content = [e \in DOMAIN ends |-> <<>>]
    /\ writers = [e \in DOMAIN ends |-> {ends[e][1]}]
    /\ readers = [e \in DOMAIN ends |-> {ends[e][2]}]

Readable(e) == content[e] # <<>>
Eof(e)      == content[e] = <<>> /\ writers[e] = {}
Broken(e)   == readers[e] = {}
Writable(e) == Len(content[e]) < Capacity /\ ~Broken(e)

Put(e, m) == content' = [content EXCEPT ![e] = Append(@, m)]
Take(e)   == content' = [content EXCEPT ![e] = Tail(@)]

\* q closes its reading ends of R and its writing ends of W.  What is in a pipe that nobody
\* can read is gone.
Close(q, R, W) ==
    /\ readers' = [e \in DOMAIN readers |-> IF e \in R THEN readers[e] \ {q} ELSE readers[e]]
    /\ writers' = [e \in DOMAIN writers |-> IF e \in W THEN writers[e] \ {q} ELSE writers[e]]
    /\ content' = [e \in DOMAIN content |-> IF readers'[e] = {} THEN <<>> ELSE content[e]]

\* exit
Exit(q) == Close(q, DOMAIN readers, DOMAIN writers)

=============================================================================
