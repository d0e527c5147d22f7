-------------------------------- MODULE Board --------------------------------
(***************************************************************************)
(* lab06/l6-2: a server keeps a board of points in shared memory, clients  *)
(* look for points under a robust mutex that lies before the board; a      *)
(* client may exit with the mutex held (its next owner repairs it).        *)
(*                                                                         *)
(* The server prints its pid, the name of the memory, before it creates    *)
(* it.  A client that comes early finds no memory behind its mapping       *)
(* (SIGBUS), a board of size 0 (SIGFPE), or a mutex that is all zeros: one *)
(* that is neither shared nor robust.  Who waits for that mutex is never   *)
(* woken, and its later initialisation takes no notice of its owner.  A    *)
(* client that comes late finds a destroyed mutex.                         *)
(*                                                                         *)
(* Server and clients have process groups of their own: ERR kills one.     *)
(***************************************************************************)
EXTENDS Integers, Functions

CONSTANTS Client,
          Field,  \* numbers, in N * N of the program
          Points  \* Points[f]: what rand() puts on field f, 1..9

VARIABLES
    pc,     \* pc[q]: where client or server q is
    stop,   \* SIGINT has come: "no", "pending" (blocked), or "taken" by the thread: running = 0
    mutex,  \* "zeros", "robust" or "destroyed"
    owner,  \* who has the mutex: a process, None, Dead or Gone
    N,      \* what a look at N_shared finds: NoMemory, 0, or 1 for the size of the board
    board,  \* what is on each field, or NotFilled
    looked, \* looked[c]: the field in which c has found points
    score,  \* score[c]
    early   \* history: the clients that came before the mutex was initialised

memory == <<mutex, owner, N, board>>
vars   == <<pc, stop, memory, looked, score, early>>

None == "none"
Dead == "dead"   \* an owner of the robust mutex has exited: EOWNERDEAD
Gone == "gone"   \* an owner has exited and the mutex does not know
BoardServer == "server"

Ended     == {"ended", "killed"}
NoMemory  == -1
NotFilled == -1
Nowhere   == -1
Empty(f)  == board[f] \in {NotFilled, 0}   \* the memory is all zeros at first

Init ==
    /\ pc     = [q \in Client \union {BoardServer} |-> IF q = BoardServer THEN "create" ELSE "out"]
    /\ stop   = "no"
    /\ mutex  = "zeros" /\ owner = None
    /\ N      = NoMemory
    /\ board  = [f \in Field |-> NotFilled]
    /\ looked = [c \in Client |-> Nowhere]
    /\ score  = [c \in Client |-> 0]
    /\ early  = {}

Go(q, place) == pc' = [pc EXCEPT ![q] = place]

\* pthread_mutex_lock (and pthread_mutex_consistent) lets q in.
Free == owner \in {None, Dead}
\* pthread_mutex_unlock: it does nothing for who is not the owner, or on a destroyed mutex.
Unlock(q) == owner' = IF mutex # "destroyed" /\ owner = q THEN None ELSE owner
\* The end of q while it has the mutex.
Abandon(q) == owner' = IF owner # q THEN owner ELSE IF mutex = "zeros" THEN Gone ELSE Dead
-----------------------------------------------------------------------------
(* The server. *)

Create ==
    /\ pc[BoardServer] = "create" /\ Go(BoardServer, "size")
    /\ UNCHANGED <<stop, memory, looked, score, early>>

Size ==
    /\ pc[BoardServer] = "size" /\ Go(BoardServer, "N")
    /\ N' = 0
    /\ UNCHANGED <<stop, mutex, owner, board, looked, score, early>>

SetN ==
    /\ pc[BoardServer] = "N" /\ Go(BoardServer, "fill")
    /\ N' = 1
    /\ UNCHANGED <<stop, mutex, owner, board, looked, score, early>>

Fill ==
    /\ pc[BoardServer] = "fill"
    /\ \E f \in Field : board[f] = NotFilled /\ board' = [board EXCEPT ![f] = Points[f]]
    /\ UNCHANGED <<pc, stop, mutex, owner, N, looked, score, early>>

\* pthread_mutex_init, whoever may have the mutex.
InitMutex ==
    /\ pc[BoardServer] = "fill" /\ \A f \in Field : board[f] # NotFilled
    /\ Go(BoardServer, "block")
    /\ mutex' = "robust" /\ owner' = None
    /\ UNCHANGED <<stop, N, board, looked, score, early>>

\* pthread_sigmask, and the signal thread is started.
Block ==
    /\ pc[BoardServer] = "block" /\ Go(BoardServer, "top")
    /\ UNCHANGED <<stop, memory, looked, score, early>>

\* The end of the loop's body is the test of running; what follows the break, the join of the
\* signal thread, can not wait, since the thread has set running.
Top ==
    /\ pc[BoardServer] = "top"
    /\ Go(BoardServer, IF stop = "taken" THEN "destroy" ELSE "lock")
    /\ UNCHANGED <<stop, memory, looked, score, early>>

LockBoard ==
    /\ pc[BoardServer] = "lock" /\ Free
    /\ owner' = BoardServer /\ Go(BoardServer, "print")
    /\ UNCHANGED <<stop, mutex, N, board, looked, score, early>>

PrintBoard ==
    /\ pc[BoardServer] = "print"
    /\ Unlock(BoardServer) /\ Go(BoardServer, "top")
    /\ UNCHANGED <<stop, mutex, N, board, looked, score, early>>

Destroy ==
    /\ pc[BoardServer] = "destroy" /\ Go(BoardServer, "unlink")
    /\ mutex' = "destroyed"
    /\ UNCHANGED <<stop, owner, N, board, looked, score, early>>

Unlink ==
    /\ pc[BoardServer] = "unlink" /\ Go(BoardServer, "ended")
    /\ UNCHANGED <<stop, memory, looked, score, early>>

\* SIGINT: it kills the server before it is blocked, and the memory stays.
Sigint ==
    /\ stop = "no" /\ pc[BoardServer] \notin {"create"} \union Ended
    /\ IF pc[BoardServer] \in {"size", "N", "fill", "block"}
       THEN Go(BoardServer, "killed") /\ UNCHANGED stop
       ELSE stop' = "pending" /\ UNCHANGED pc
    /\ UNCHANGED <<memory, looked, score, early>>

\* sighandling
Sighandling ==
    /\ stop = "pending" /\ stop' = "taken"
    /\ UNCHANGED <<pc, memory, looked, score, early>>

ServerStep == Create \/ Size \/ SetN \/ Fill \/ InitMutex \/ Block \/ Top \/ LockBoard
              \/ PrintBoard \/ Destroy \/ Unlink
-----------------------------------------------------------------------------
(* A client. *)

\* The name is there: shm_open, mmap, and the first look at the memory.  (Who finds no name
\* ends at once.)
Start(c) ==
    /\ pc[c] = "out" /\ pc[BoardServer] \notin {"create", "ended"}
    /\ Go(c, CASE N = NoMemory -> "killed" [] N = 0 -> "lock0" [] OTHER -> "lock")
    /\ early' = IF mutex = "zeros" THEN early \union {c} ELSE early
    /\ UNCHANGED <<stop, memory, looked, score>>

Lock(c) ==
    /\ pc[c] \in {"lock", "lock0"} /\ Free
    /\ owner' = c /\ Go(c, IF pc[c] = "lock0" THEN "in0" ELSE "in")
    /\ UNCHANGED <<stop, mutex, N, board, looked, score, early>>

\* The mutex is not to be had: it was destroyed (EINVAL), or is of zeros and another process
\* would have to wake this one.
Refused(c) ==
    /\ pc[c] \in {"lock", "lock0"}
    /\ \/ mutex = "destroyed" /\ Go(c, "killed") /\ Abandon(c)
       \/ ((mutex = "zeros" /\ ~Free) \/ owner = Gone) /\ Go(c, "asleep") /\ UNCHANGED owner
    /\ UNCHANGED <<stop, mutex, N, board, looked, score, early>>

\* The mutex is not robust.  A mutant.
OpsForgotten(c) ==
    /\ pc[c] \in {"in", "in0"}
    /\ owner' = Gone /\ Go(c, IF pc[c] = "in" THEN "ended" ELSE "killed")
    /\ UNCHANGED <<stop, mutex, N, board, looked, score, early>>

\* D = 1: the client exits with the mutex.  Or it divides by N = 0.
Ops(c) ==
    /\ pc[c] \in {"in", "in0"}
    /\ Abandon(c)
    /\ \/ Go(c, "ended")
       \/ pc[c] = "in0" /\ Go(c, "killed")
    /\ UNCHANGED <<stop, mutex, N, board, looked, score, early>>

\* The field is empty: the game is over.  A destroyed mutex stays locked, and the memory is
\* unmapped before the exit, which does not find the mutex then.
GameOver(c) ==
    /\ pc[c] = "in" /\ \E f \in Field : Empty(f)
    /\ owner' = IF owner # c THEN owner ELSE IF mutex = "destroyed" THEN Gone ELSE None
    /\ Go(c, "ended")
    /\ UNCHANGED <<stop, mutex, N, board, looked, score, early>>

Look(c) ==
    /\ pc[c] = "in"
    /\ \E f \in Field : ~Empty(f) /\ looked' = [looked EXCEPT ![c] = f]
    /\ Go(c, "grab")
    /\ UNCHANGED <<stop, memory, score, early>>

Grab(c) ==
    /\ pc[c] = "grab"
    /\ score'  = [score EXCEPT ![c] = @ + Points[looked[c]]]
    /\ board'  = [board EXCEPT ![looked[c]] = 0]
    /\ looked' = [looked EXCEPT ![c] = Nowhere]
    /\ Unlock(c) /\ Go(c, "lock")
    /\ UNCHANGED <<stop, mutex, N, early>>

Play(c) == Lock(c) \/ Refused(c) \/ Ops(c) \/ GameOver(c) \/ Look(c) \/ Grab(c)

Next == ServerStep \/ Sigint \/ Sighandling \/ \E c \in Client : Start(c) \/ Play(c)

Over == pc[BoardServer] \in Ended /\ \A c \in Client : pc[c] \in Ended \union {"out", "asleep"}
-----------------------------------------------------------------------------
(* Properties. *)

Sum(g) == FoldFunction(+, 0, g)
Left   == [f \in Field |-> IF board[f] = NotFilled THEN Points[f] ELSE board[f]]

\* Points are never lost, and counted once unless somebody came before the mutex was
\* initialised; who came in between is not made to wait for ever.
PointsOnce ==
    /\ Sum(score) + Sum(Left) >= Sum(Points)
    /\ early = {} => Sum(score) + Sum(Left) = Sum(Points)
    /\ \A c \in Client : pc[c] = "asleep" => c \in early \/ mutex = "destroyed"
=============================================================================
