# SOP2: TLA+ specifications of the operating-systems lab programs

The repository holds the solutions to four labs of an operating-systems course (C, POSIX):
`lab05` pipes, FIFOs and message queues; `lab06` shared memory, process-shared mutexes,
barriers and semaphores; `lab07` TCP servers on `epoll`; `lab08` UDP and threads. Each lab
directory is a program of its own, a few hundred lines long, in which several processes or
threads cooperate and some of them may die, block or be sent what they do not expect. The
programs share no core, only error-handling headers. There is therefore one specification
per program, taken in the order of how much can go wrong between its processes, and a
composition where one program is a library that others use (the channel).

## 1. Inventory

Programs, the state each keeps, what its parts do to one another, what is hard about it,
and what makes it correct. The files `etap1.c`, `etap2.c`, ... and `e1.c`, ... beside a
program are its earlier stages, and are superseded by it.

| Program | State | Parts and operations | Hard behaviour | Correct when |
|---|---|---|---|---|
| `lab06/channel` | buffer, length, status, mutex, two condition variables in shared memory; a named semaphore | open, produce, consume, mark depleted, close; processes generator, double-processor, printers | concurrent opening; waiting and signalling; end of stream | initialised once; exclusive; one-slot hand-over; the processor loses nothing; everybody ends |
| `lab06/bitronka` | array of products in a mapped file, robust mutex per shelf, `dead`, `sorted` | workers lock two shelves and swap, or die; the manager locks all, checks, counts bodies | death with two locks held; lock order; counting each body once | nothing lost, sorting makes progress, the manager's verdict is right, the shift ends |
| `lab08/lab` | server: 5 connection slots; client: chunk, counter, timer | send, confirm, retry; find or claim a slot, print, echo, free | loss, delay, reordering; timer against late echo; slots at their limit | printed in order, confirmed means printed, a client ends |
| `lab06/sop-cards` | cards, points, resigned flags in shared memory; two barriers | players and dealer in rounds; a player resigns | a barrier that is initialised again with another count while others approach it | rounds stay aligned, only players present score |
| `lab06/calka` | counters and totals in a named segment; robust mutexes; a semaphore | join, integrate in batches, leave; the last one sums up and destroys | a process dies with any lock held; joining against destroying | count of processes, batch totals |
| `lab06/l6-2` | robust mutex, size and points of a board in one named segment; a score per client | server fills, prints, destroys; clients look for points, or exit with the mutex | a client that comes before the mutex is initialised or after it is destroyed; dead owners; a signal thread | points are conserved, nobody waits for a dead owner |
| `lab06/sop-1` | table of letter counts per child, failed flag in shared memory | children count a part of a file each; one may abort | what the division leaves over; abort against report | the report is of the whole file, or of nothing |
| `lab06/l6-1` | one float per child in shared memory, a log file | children compute and log, parent waits and averages | places in the array and in the log | average and log agree |
| `lab05/sop-cards` | pipes per player, one shared pipe | server asks, players answer with a card or leave | a player's end is noticed by EOF only | every round is answered, game ends |
| `lab05/sop-lotto` | pipes per player, one shared pipe | players bet or leave, totalisator pays | as above | money is accounted for |
| `lab05/sop-roulette` | pipes per player, one shared pipe | players bet, croupier spins | as above | money is accounted for |
| `lab05/sop-ship` | a ring of pipes with cards | players pass cards until one wins | winner leaves the ring: cascade of closed pipes | no card lost or doubled, everybody ends |
| `lab05/sop-cycle` | a ring of pipes, a token | children read, change, pass on | who starts; closed pipes | one token |
| `lab05/prelab` (Roncevaux) | two armies, pipes between knights | every knight attacks through the pipes of the enemy | non-blocking reads, dead readers | the battle ends |
| `lab05/sop-factory` | FIFOs, a message flow between brigades | open, hand over, close | opening a FIFO blocks; end of the last writer | all brigades end |
| `lab05/generated`, `generated_harder` | provinces with pipes along roads | messages flood; shutdown cascades | a cycle of roads keeps every pipe open | everything closes |
| `lab05/prog21_c`, `prog21a_s`, `prog21b_s` | one FIFO | clients write a file in chunks, a server reads to the end and may unlink | who makes the FIFO; opening blocks; unlinking while others come | chunks of each client in order and once |
| `lab05/prog22a` | one pipe that all share | children write a letter each, the parent prints them | SIGCHLD interrupts the read | a parent that ends on its own has printed all |
| `lab05/prog22b` | a pipe to each child, one shared pipe back | SIGINT has the parent ask a child, children answer or die | signals at any place; children gone | no letter of a living child is lost |
| `lab08/napoleon` | stack of datagrams, registry of divisions, map | receiver pushes, adjutants pop, move, print | stack bound; same division twice; shutdown | a division stands in one place, shutdown drains |
| `lab07/prelab` (electors) | seven electors with descriptor and vote, under a mutex | accept, register, vote, leave; a thread announces the votes | a client that leaves; a message that was not read | one connection per elector, votes are kept |
| `lab07/poslancy` | table of clients and a counter; owner of each city | accept or reject, change an owner and tell the others, remove | events of descriptors that are closed meanwhile; clients found gone while others are told | table and counter match the connections, everybody knows the news |
| `lab07/aigen` | table of those who wait, with their families | accept, match two clients, or let one wait | who waits may speak again, or hang up | table matches the connections, nobody is matched twice |
| `lab07/pidsumming` | highest sum | read a pid, answer with the sum of its digits | partial messages | answers and the highest sum agree |
| `lab07/l7` | none between requests | compute and answer | a part of a request; division, overflow | who is answered gets the right result of its own request |

The components, with the lines they come from, are listed in `PROJECT.json`, and so are the
hazards: each names the line where it bites and the properties that guard against it.

## 2. Plan

In the order in which the most can go wrong. Items 1 to 9 are done, of
item 10 what it says.

1. **The channel and the programs on it** (`Channel`, `Pipeline`, abstract `Handoff`), with
   proofs of the safety properties and of the refinement.
2. **The night shift** (`NightShift`).
3. **UDP file transfer** (`UdpTransfer`), with proofs.
4. **The card game and the integrator** (`CardTable`, `CardsBarriers`, `CardsSemaphores`,
   abstract `Rounds`; `Integrator`).
5. **Napoleon** (`Napoleon`).
6. **The provinces** (`Pipes`, `Provinces`, `Routes`).
7. **The other pipe programs of `lab05`**, on `Pipes`, in one run that plays one program per
   behaviour (`PipeCards`, `Lotto`, `Roulette`, `ShipCards`, `TokenRing`, `Knights`, `Factory`).
8. **The `epoll` servers of `lab07`**, in one run that runs one server per behaviour
   (`EventLoop`, `Messengers`, `Matchmaker`, `Electors`, `PidSums`).
9. What was left: the smaller programs of `lab06` (`Board`, `LetterCount`, `MonteCarlo`), in one
   run with the card game; the tutorials of `lab05` (`ChildPipes`, `ChildLetters`, `FifoMail`)
   and the calculator of `lab07` (`Calculator`), in the runs of items 7 and 8.
10. Proofs: the pipeline and the file transfer; the night shift, Napoleon and the integrator;
   the rounds of both versions of the card game; the servers of `lab07`; the pipe games; the
   sums of the board, the letter counter and pi; the provinces.

Every specification has its parameters as CONSTANTS with named assumptions, one action per
step that another process can observe, and no recursive operator, so that it can be used
both by TLC and in proofs.

## 3. Modules and how they correspond to the code

### Channel, Handoff, Pipeline (`lab06/channel`)

`Channel` has the fields of `channel_t` as functions on channel names (`status`, `slot` for
`data[0..length-1]`, `data_mtx`), the named semaphore `sem`, and for each process a place
`pc` in the function `op` it is in. A function is cut at every point where another process
can run between two of its statements and be noticed: `sem_wait`, the status test, the
initialisation and `sem_post` of `channel_open`; lock, test (with `pthread_cond_wait`, which
unlocks and blocks in one step), copy-and-signal and unlock of `channel_produce` and
`channel_consume`. `pthread_cond_wait` may return unsignalled. `put` and `taken` are
histories: what was written to and read from each channel.

`Pipeline` adds the main functions: the generator, `ops-double-processor` with its two
loops, and the printers. Generator and printers come as binaries; they are modelled from
how the source uses the other side of its channels, and marked external in the map. The
inner loop of the processor touches nothing shared between two calls of `channel_produce`,
so its effect on the buffers is the pair `Flush`, `Rest`.

`Handoff` is what a channel promises: chunks are handed over one at a time, in order, each
to one consumer, and none after the end. `OutPromise` is the refinement.

### NightShift (`lab06/bitronka/sop-shop.c`)

`owner[i]` is the holder of `mutexArr[i]`, which may be a dead worker; locking such a mutex
returns EOWNERDEAD and leads through the place `body...`, where `dead` is counted and the
mutex repaired. `SWAP` is two stores and two steps. The sections under `mxSorted` and
`mxDead`, which hold one statement, are one step each.

### UdpTransfer (`lab08/lab`)

`req[c][k]` and `ack[c][k]` count the copies of chunk k and of its echo that are in flight.
Any copy may be received next and nothing forces it to be received: that is loss, delay
and reordering. The network does not duplicate by itself (the client's retries do). A timer
fires (`Timeout`) whenever the client waits, however early; or it fires between `setitimer`
and `recv` (`AlarmMissed`), after which recv waits without a timer. `con` is the server's
table, `printed` the history of its output.

### Rounds, CardTable, CardsBarriers, CardsSemaphores (`lab06/sop-cards`)

The directory holds two versions of one game: `sop-cards.c` on two process-shared barriers,
and `sop-cards-semaphores` on four semaphores. `CardTable` has what both keep in shared
memory. `CardsBarriers` models a barrier by the number `need` it waits for and the processes
`at` it; the last to arrive lets all go on in that step, and `pthread_barrier_destroy` waits
until nobody is left inside. `CardsSemaphores` has the four counters and the server's loops of
posts and waits one operation at a time. `Rounds` is what both promise: a player lays a card,
the round is scored, every player decides, and only then does anyone lay the next card. The
refinement mapping, in `MCSharedMemory`, reads the number of cards laid and of decisions off the
places of the processes, and that the mapping is right is also proved (section 6).

### Board (`lab06/l6-2/l6-2_server.c`, `l6-2_client.c`)

The server prints its pid, by which a client finds the segment, before the segment has a size,
a board and a mutex. `N` is what a look at `N_shared` finds, and `mutex` the state of the bytes
behind the mutex: `"zeros"`, then `"robust"`, then `"destroyed"`. A client that locks a mutex
of zeros holds one that is not robust, whose initialisation afterwards takes no notice of it;
the client then shares the board with the next one, or leaves somebody asleep for ever. `early`
is a history of those clients, to whom `PointsOnce` allows counting a field twice, or sleep.
`Ops` is the exit with the mutex (1 chance in 9), `Abandon` what the mutex knows of it. A lock is one
step: one that reads the kind of the mutex before it is initialised and takes it after is left
out. The usage text says 3 < N <= 30 while the program accepts 3 to 99, and N * N bytes have to
fit into 1024: the model has as many fields as `Field` and does not overflow.

### LetterCount, MonteCarlo (`lab06/sop-1`, `lab06/l6-1`)

Fork loops of a parent and children that write places of their own; what a child does there is
one step, since nobody reads it before the parent has waited for all. `StartOf` and `EndOf`
divide the file; `Fail` is the abort of a child. `sop-1.c` does not compare the number of
children with `MAX_PROC`, which the model assumes to be kept.

### Integrator (`lab06/calka/calka.c`)

A segment, and a semaphore, bears the name of the process that created it, since those who
opened it before an unlink go on with the old one while a later process creates a new one
under the same name. `calka.c:122-125` installs the handler of SIGINT without SA_RESTART and
nobody looks at what `sem_wait` returns (142), so a wait that SIGINT interrupts goes on without
the semaphore, and posts it later (`SemInterrupted`): the semaphore may reach 2. Creating a
segment is therefore taken apart into what a process that comes in between can see: `Create`,
`Truncate` (zeros), `Clear` (`memset` and the mutexes), `StoreA`, `StoreB`, and `Reset`, which
sets the totals to 0 once more after the bounds. SIGINT at any other place ends the loop
(`Leave` before the last batch). `Map` compares the bounds with what is there
at that moment, `BoundsOf`: two processes with the bounds 0 0, or one that comes before the
totals are reset, join a segment that is still being initialised; whoever comes before
`ftruncate` is killed by SIGBUS. `early` is the set of segments joined in this way and
`interrupted` that of the processes whose wait was cut short. `shm_open` without O_EXCL is a
step of its own (`Open`), which fails if the last process has unlinked the name meanwhile.
A mutex of zeros notices no dead owner, and who waits for it may not be awoken (`Sleep`), nor
does SIGINT wake it.

The properties speak of the segments that are not in `early`, and `InitialisedBeforeUse` says
when only a segment is met before it is ready: if SIGINT interrupted a wait for its creator's
semaphore, which is the case `lab06/README.md:186-190` warns of, or if that semaphore was
unlinked between the two. `random_death_lock` may abort with the mutex just taken; the mutex is
then of a dead owner (`mxprocCount = "dead"`, or `mxResults` held by a dead process) and the
next one to lock it repairs it and deducts the dead one from `procCount`.

### Napoleon (`lab08/napoleon/napoleon.c`)

A section under one mutex is one step, and where a thread takes another mutex for each row of
the map the search is one step per row: that is where two adjutants that move the same
division can pass one another. `pushed`, `handled` and `crossed` are histories. The thread of
Napoleon only reads, so that all that is left of it is its end.

### Pipes, Provinces, Routes (`lab05/generated`, `lab05/generated_harder`)

`Pipes` is the part of the system that the programs of `lab05` share: for each pipe its
content and who holds which end. End of file and EPIPE follow from the sets of holders, and
`exit` closes everything. `Provinces` floods single letters, `Routes` sends packets along
the paths of a configuration and collects reports at the end. Provinces poll their inputs in
turn with non-blocking reads and block on a full output; SIGINT (`Sigint`) reaches
the processes one by one, clears `keep_running`, and interrupts the call that the process waits
in at that moment and no later one. What that means differs: `generated.c` skips a directive on
a road whose write was interrupted (`SkipRoad`), and Casa Rosada ends with an error (`Fail`);
`generated_harder.c` tries writes again, takes an interrupted read of a report for the end
(`StopCollecting`), and an interrupted open of the FIFO ends in ERR, whose `kill(0, SIGKILL)`
takes the whole group with it (`KillAll`). `MCProvinces` plays one of the two programs in each behaviour, on
`HowMany` provinces, with `Packets` for each route. It extends `MCPipeGames`, whose tables stay
empty in its specification `MapSpec`, so that the proofs about all programs of `lab05` share one
module and its lemmas about sums and pipes. `MapAssumption` is what the two programs ask of the
map: nobody has a road to itself, and every route begins at province 0, to which Casa Rosada writes.

### Lotto, Roulette, PipeCards (`lab05/sop-lotto`, `sop-roulette`, `sop-cards`)

A master and its players, with one pipe each way per player. The master's loop over the players
is one step per player (`turn`): the reads of a bet are one step, and so are its writes, since
the pipe keeps them together. `rps`, in `PipeCards` `open`, is the set of players whose
descriptor the master has not set to 0. What is checked are the books: `total_bet` and
`total_reward` against what the players staked and announced (`BooksAgree`), a player's money
against the bets that were answered (`PaidAsDue`), and that the pipe from server to player
never carries one kind of message where the other is awaited (`InStep`).

### ShipCards, TokenRing (`lab05/sop-ship`, `sop-cycle`)

Rings of pipes, each process writing to the next. A round of the ship game is `Look`, `Pass`,
`DrawCard`; `CardsOnce` counts the cards in hands and in pipes against those dealt. In
`TokenRing` the number itself is abstracted to zero or not. SIGINT comes to the processes one
by one and, if one is reading, ends the read.

### Knights (`lab05/prelab/sop-roncevaux.c`)

Here who holds which end of a pipe is itself the difficulty, so that creating the processes is
modelled too: `Inherits`, `Readers` and `Writers` give the holders of an end from the places
of the processes. A pipe is the damage in it, up to what kills.

### ChildPipes, ChildLetters, FifoMail (`lab05/prog22b`, `prog22a`, `prog21*`)

The tutorials add to `Pipes` what signals do to a read: a signal that comes while the reader
sleeps (`Sleeps`) makes the read return EINTR; one that comes before is remembered only by the
handler's flag. In `ChildPipes` the parent then tests `last_signal`; in `ChildLetters` it ends
the program. A line of the greatest length in `prog22b.c` has its terminating zero written one
byte behind the buffer: `PrintLine` goes on or aborts. `FifoMail` has `mkfifo`, and `open` which
waits for the other side. `name` is the FIFO that bears the name: after the server of
`prog21b_s.c` has unlinked it a client may make another one (`Fifo` 2), which nobody reads
(`Late`).

### Factory (`lab05/sop-factory`)

Pipes shared by whole brigades and a FIFO, with a writer from outside. `Late` names the workers
that open the FIFO when nobody is going to write any more. If the FIFO is opened for writing
again, its readers may be workers that have seen its end and read no more: what is then written
is lost, so that `ReportsBalance` counts what was written for the first opening only. The comment at
`sop-factory.c:320`, "they will end by themselves after the FIFO is closed", holds of everyone
else.

`MCPipeGames` plays one of the ten in each behaviour; its CONSTANTS are those of the ten, and
`GamesAssumption` is what they ask of their arguments. Creating pipes and processes, and
closing the ends nobody needs, belongs to `Init` in all of them but `Knights`: the pipes
that matter there are not read or written before. Processes wait for ever in three cases, and
`Over` names them: `Late` of `Factory` and of `FifoMail`, and `Stuck` of `PipeCards`, which
follows from the test of `wps[0]` in place of `wps[i]` at `sop-cards.c:116`.

### EventLoop, Messengers, Matchmaker, Electors, PidSums, Calculator (`lab07`)

`EventLoop` has what the servers share. A connection is a member of `Client`; `conn` says which
one a descriptor belongs to, and `accept` gives the lowest descriptor that is free. `batch` is
the list `epoll_pwait` has returned, in any order, of which the server handles one event per
step: connections come, speak and hang up in between, and an event may outlive its descriptor.
The servers EXTEND it by their tables and handlers; each branch of a handler is an
action, and the ways in which `ERR` ends the server are actions of their own (`...Dies`): a
connection that was reset, or, in `poslancy.c:163`, a client that is well but does not read. A
write to a client that hung up may fail or not, which includes more than the kernel does.
`Calculator` differs
in that it handles a client as soon as it has accepted it, with reads that block: `Busy` keeps
it from the queue, and from SIGINT, until that client has sent all or hung up. `Result` has
int32_t as the `2 * HALF` numbers from `-HALF`; the quotient that does not fit wraps or traps
(`Trap`).
`MCServers` runs one of the five in each behaviour.

The properties name what the code does not exclude: `stale` counts the events of closed
descriptors for which `remove_client` of `poslancy.c:36-46` decrements the counter again, each
of which lets one client in for whom there is no place; `Once` restricts `MatchesRight` to
clients that speak once, since `aigen.c:125-134` does not look whether who speaks waits already.

## 4. Runs

| Run | Instance | What it checks |
|---|---|---|
| `pipeline` | generator, processor, two printers; chunks of one and two characters, channels of size three | `InitialisedOnce`: concurrent opening; `HolderOnly`: who touches a channel holds its mutex; `EveryCharacterTwice`: the loops of the processor drop or repeat no character across flushes; `OutPromise`: the output implements `Handoff`; `Terminates`: no lost wake-up |
| `pipeline_loss` | the same | that every chunk produced arrives: **violated** (section 7) |
| `night_shift` | two workers, manager, three shelves in all six orders | `NothingLost`: swaps permute; `DeadAccounts`: each mutex that a dead worker leaves is counted once, by whoever finds it; `Verdict`: the manager announces sorted only what is sorted, and the end only when all are dead; `Progress`: a swap never adds an inversion; `Ends`: deaths never block the others |
| `udp` | three clients with files of 2, 2 and 1 chunks, two slots, two attempts per chunk | `OneSlotEach`, `InOrder`: no chunk printed twice or out of order however datagrams are reordered; `ConfirmedIsPrinted`: an echo that is accepted, even a late one, means the chunk was printed; `EndsOrMissed`: a client ends unless its alarm fired before it called recv |
| `cards` | card game: three players, two rounds, both versions; board: server, two clients, two fields; counts: up to three children on texts of up to five letters; three children for pi | `BarriersKeepRounds`, `SemaphoresKeepRounds`: refinement of `Rounds`; `SemaphoresPayThePresent`; `GameEnds`; `SumsRight`: no point, letter or sample is lost or counted twice, whoever comes early, dies or aborts; `BoardEnds`: deaths with the mutex of the board stop neither the clients nor the server |
| `cards_scoring` | the same | that the barrier version pays only those present: **violated** |
| `napoleon` | two adjutants, stack of two, register of two for three divisions, a map of two rows, three reports | `OneIndexPerName`, `OnePlace`, `EveryReportOnce`, `ShutdownEnds` |
| `integrator` | three processes, with the bounds 0 0 or, the third, 0 1; one batch; one interrupted wait | `CountExact`: the count survives deaths with either mutex held; `ReportsExclusive`; `InitialisedBeforeUse`: joining against creating, unlinking and an interrupted wait for the semaphore; `EverybodyEnds` |
| `provinces` | three provinces, two ways from the first to the last, pipes full at one message, two letters; two routes | `DirectivesArrive`: a province ends only after everything on its way to it has come; `CascadeEnds` |
| `provinces_ring` | the map in `mapa.txt`, a ring | that the closing of the FIFO ends all provinces: **violated** |
| `pipe_games` | two players or three processes in a ring, two rounds; four workers; two or three children; three clients of a FIFO | `SidesAgree`: both sides of a table agree on bets, money and rounds, whoever leaves; `NothingTwice`: cards, number, letters and chunks are neither doubled nor lost, and one army is left; `AllEnd`: who leaves ends the others, but for the three cases named |
| `servers` | three or four clients that send one or two messages each | `TablesRight`: tables and counters match the connections; `ToldRight`: what clients were told is what the server goes on with, and what it calculates is right |

### Bounds, and why they are enough

- `pipeline`: two printers are the least that compete for a chunk; the input of chunks of one
  and two characters with `Size` 3 makes the doubled text overflow the buffer in the middle of
  a pair, so that the loop flushes a full buffer, keeps a rest, and flushes the rest at the
  end. `Size` stands for `CHANNEL_SIZE`, which is even (4096), so that the code never splits a pair:
  an odd `Size` asks more of the loops than the code does.
- `night_shift`: two workers and the manager can hold and wait for shelves in a cycle if the
  lock order were wrong, both workers can die, and a worker can die with a mutex the other
  one's body left. Three shelves allow disjoint, overlapping and equal pairs, and every
  permutation is an initial state. `N` is `N` of the program (8 to 256 there).
- `udp`: with three clients and two slots a client is refused; a file of two chunks has an
  echo of the first chunk arrive while the second is outstanding; two attempts per chunk
  (`Retries`, four in the code) put a stale datagram behind the retry.
- `cards`: with three players the barriers are renewed with two and with one player left and
  with none; two rounds reach the renewal in a round that follows a renewal. `M` is the size of
  the deck. Two clients of the board are the least of whom one comes early, or dies with the
  mutex that the other waits for; two fields let both look at one field. Texts of one, three and
  five letters divide by up to three children with and without a rest, and have parts that are empty.
- `napoleon`: two adjutants are the least that cross; three reports overflow the stack and,
  with three names, the register of two; `MaxReports` bounds datagrams.
- `integrator`: three processes let one die, one find the body and one join or unlink; they are
  numbered in the order in which they start, since nothing else tells them apart.
  `Batches` (3 in the code) is 1, which is enough to die in the loop. `Interruptions` 1: one wait cut
  short lets one process into a segment that is not ready. `Lower` and `Upper` are the bounds to
  choose from and `ZeroGroups` the sets of those that have 0 0, which a segment of zeros does not
  reject: all three, or the first two while the third is rejected or joins a segment of its own.
- `provinces`: a triangle without a cycle is the smallest map on which a letter arrives twice;
  `Capacity` 1 makes every writer block. `Letters` and `Directives` bound the FIFO.

- `pipe_games`: two players are the least of whom one leaves before the other, with player 0
  and without; two rounds have one that follows a departure. Three processes make a ring in
  which not everyone is a neighbour of everyone on the same side. `Capacity` 2 lets a ring fill.
  `FirstHand` keeps a winning and a losing first hand; `MaxAmount` stops a player's luck;
  `Sessions` 1 opens the FIFO once; `Interruptible` lets SIGINT come to the first and the last
  brigade; `Letters` has one that is no letter. `MaxSigint` 2 has a SIGINT come while one is being
  handled. Clients with two, one and no chunks (no file) compete for the FIFO.
- `servers`: four clients for the two places of `poslancy` let two be in the table and one
  come after a place was freed wrongly; three clients elsewhere make two compete for a
  place, or for a partner, while the third gets a descriptor that was closed. `MaxSent` 2
  has a client that speaks again; `PARTS` 2 splits a pid, and a request. Width 3 (`HALF` = 4) has sums,
  differences, products and a quotient that do and do not fit.

## 5. Fairness

Each process or thread has weak fairness on its own steps: the scheduler runs every process
that can run. Operations for which others compete (`sem_wait`, locking a mutex, waiting for a
chunk) have strong fairness, since who waits is woken sooner or later when the resource is
freed again and again. There is no fairness on what comes from outside or by chance: SIGINT,
datagrams, deaths, a timer that fires early, a spurious wake-up, a player's wish to leave. The
exception is `rand()` in the night shift: that every pair of shelves is drawn again and again
(strong fairness on `Draw` for each pair) is what the program itself relies on to get the
shelves sorted; in the same way every player of the roulette leaves some day, and every knight
hits. The mutex of the board goes by strong fairness to the server and to each client, since
whoever has it sleeps for a second or more before it takes it again. The servers of `lab07` are
checked for safety only: a client that stays and says no more may stop some of them for ever, the
calculator even with a part of a request. Where the code does not end, the property names that
case (`EndsOrMissed`, `EverybodyEnds`, `Over` of `AllEnd`).

## 6. Proofs

The modules `...Proofs` prove their theorems for every value of the constants, from the
assumptions named in the modules only (`ChannelAssumption`, `PipelineAssumption`,
`UdpAssumption`, `NightShiftAssumption`, `IntegratorAssumption`, `ProcsNumbered`, `NapoleonAssumption`,
`CardTableAssumption`, `SharedMemoryAssumption`, `ServersAssumption`, `GamesAssumption`,
`MapAssumption`). Each has
an inductive invariant, whose conjuncts were model-checked on the run of its module before they
were proved, and a lemma per action.

- **Pipeline.** `Inv` is the conjunction of `TypeOK`; `PlaceInv` (who is inside a function of
  a channel has opened it); `SemInv` (one thread at most is between `sem_wait` and
  `sem_post`); `OnceInv` with `InitialisedOnce` (an initialised channel never looks
  uninitialised again, which needs that no status assignment sets it back); `HolderOnly`;
  `RoleInv` (only the processor writes to the output, and no longer after it has marked it);
  and `BoxInv` (the slot of the output holds exactly the chunk put and not yet taken, and a
  thread between its test and its copy still has the status it tested). `InitialisedOnce`
  alone is not inductive: that a second thread does not initialise follows only from the
  semaphore and from what the first one left. Theorems: `TypeCorrect`, `OneInitialisation`,
  `MutualExclusion`, and `Promise`, the refinement of `Handoff`, in which `channel_produce` is
  `Put`, the copy in `channel_consume` is `Take`, marking as depleted is `Finish`, and every
  other step stutters. `TwiceInOrder` adds `WorkInv`: the processor writes to the output and is
  the only one to read the input, and characters are left over (`pending`) only while it writes.
  Then a step changes `EveryCharacterTwice` on both sides alike: a flush and its rest are what
  there was to push (`FlushAndRest`), and doubling distributes over concatenation
  (`DoubledConcat`).
- **UDP.** The invariant joins `SlotInv` (a slot that is taken has its counter equal to the
  number of chunks printed for that client, and a client whose text is complete has no slot),
  `EchoInv` (an echo in flight is of a chunk that was printed) and `AttemptsLeft` to `InOrder`,
  `OneSlotEach` and `ConfirmedIsPrinted`. `InOrder` alone does not survive a retry of the last
  chunk, for which the server claims a new slot. Theorems: `TypeCorrect`, `SlotUniqueness`,
  `PrintedInOrder`, `Confirmation`.

- **Night shift** (`NightShiftProofs`, any number of workers and shelves). `PlaceInv` has the
  two shelves of a worker different; `LockInv` says for each shelf who owns its mutex, by the
  places of the workers and of the manager. `NothingLost` looks at the shelves only when nobody
  swaps, so it says nothing about the half of a SWAP: `TidyInv` says that the shelves with every
  begun SWAP undone (`Tidy`) are a permutation, which each store keeps because the locks make the
  begun pairs disjoint. `SortInv` follows what the manager has seen until it announces it, and
  that workers all dead have left the shelves unsorted. Theorems: `TypeCorrect`, `LocksKept`,
  `ProductsKept`, `DeathsCounted`, `VerdictRight`, `EverySwapIsProgress`. The last one rests on a
  fact about sets of pairs: the inversions left by a swap of two shelves that are out of order
  inject into those there were, and the pair exchanged is not in the image (`ExchangeProgress`).
- **Integrator** (`IntegratorProofs`, any processes, bounds, batches and interruptions). `NameInv`
  says which segments exist and in what state; `FreshInv` that a segment nobody has joined early
  is its creator's alone until it is initialised, so that what the creator stores meets nobody's
  updates. `SemInv` has one process at a time between waiting for a semaphore and posting it, but
  only for semaphores no wait for which was interrupted (`Sound`): the others may reach any value,
  and the second part of `InitialisedBeforeUse` is what is left of creating under the semaphore.
  `JoinInv` says that who has mapped a segment found its own bounds; `OwnerInv` and `ReportInv` who is
  under `mxResults`. `CountExact` holds only with the bodies not yet found: `CountInv` equates
  `procCount`, less a body that holds either mutex, with the number of members of the segment. The
  last four, too, are of segments not in `early`. Theorems: `TypeCorrect`, `CountIsExact`,
  `ReportsAreExclusive`, `SegmentsInitialised`.
- **Napoleon** (`NapoleonProofs`, any adjutants, names, map, stack and register). `ReportInv`
  says that a report pushed is on the stack, held by one adjutant, or handled, and in one of the
  three only; `CountInv` counts them; `EndInv` that no adjutant ends before the stack is empty.
  `OnePlace` needs `MapInv`: a division that is being moved stands, if anywhere, in a row not yet
  searched. Theorems: `TypeCorrect`, `RegisterRight`, `MapRight`, `ReportsHandled`.
- **Rounds** (`SharedMemoryProofs`, any number of players and rounds). Both versions of the card game
  implement `Rounds`. With barriers, the invariant says where each player of the round may be
  for every place of the server (`FollowsInv`) and that a barrier waits for the players of the
  round and the server, no more and no less (`NeedInv`): so the one that opens has all of them. With
  semaphores a token may be taken by any player; `TokenInv` says that in each part of a round one
  semaphore only has tokens for players, as many as there are players of the round that have yet
  to take one, so that the server that has counted to `current_active` has counted each player
  once. It follows that `current_active`, read before the round, is the number of those who play when
  it is scored, so that the shares paid (`TotalPaid`) are no more than that: `PaidOnSemaphores`.
  Theorems: `RoundsKept`, `RoundsKeptBySemaphores`, `PaidOnSemaphores`. They are stated of `FairSpec`,
  the specification of the run, and use no fairness.
- **Sums of `lab06`** (`SharedMemoryProofs`, any clients, fields and points, any texts and number
  of children, any number of samples). `SumsRight` of the run `cards` is proved by one invariant for
  each of three programs. `BoardInv`: until the mutex is initialised everybody who comes is `early`
  (`MutexInv`); while nobody was, only the owner is at the board and the points it has seen are
  still there (`HolderInv`), so that a grab moves them from the field to the score; if somebody
  was, two may grab the same points, which is why only `>=` holds then (`PointsInv`).
  `CountInv`: the table of a child is the count of its part, `failed` is set exactly if a child
  has aborted; the parts cover the file and do not overlap, also when the division leaves a
  remainder or the file is shorter than there are children (`PartsOfFile`), so the tables add up to
  the count of the whole (`WholeFile`). `PiInv`: the line of a child that has ended says what
  is in memory. Theorem: `AllIsAddedUp`, of `FairSpec` and without its fairness.
- **Servers** (`ServersProofs`, any clients, messages, tables and width of integers). What they
  share is `Connected`: who has an open descriptor was accepted, and has no other. From it
  follows, by the pigeonhole principle, that while a client waits in the backlog a descriptor is
  free (`FreeDescriptor`), so that `accept` never hands out one that is in use (`Accepted`). The
  list of events appears in no invariant: a handler keeps the tables right whatever descriptor
  an outdated event names. Each server has an invariant of its own. `MInv` of `poslancy.c` adds
  that who is not accepted yet was told nothing; that a place is free when the counter lets a
  client in follows from counting the descriptors of the table (`FreePlace`). `AInv` of `aigen.c`
  adds that all who wait are of one family (`AFamilyInv`), and that, if nobody speaks twice, who
  waits has spoken and has nothing unread (`AWaitInv`): otherwise the same client could be
  matched with itself. `EInv` of `sop-hre.c` adds that a client not accepted was not welcomed;
  `PInv` of `sop-server.c` that nobody was told anything but the sum of its digits, without
  which the highest sum might be that of nobody; `CInv` of `l7-1_server.c` that an inbox holds
  the request of its client only. That `calculate` is right whenever the result fits is
  arithmetic: what fits is not wrapped (`Fits`), the division of C leaves a remainder of the sign
  of the dividend (`Truncated`), and no other quotient does (`OneQuotient`). Theorems:
  `ServersInvariant`, `TablesAreRight`, `ToldIsRight`.

- **Games** (`GamesProofs`, any number of players, workers, children and clients, any cards,
  letters and draws, any capacity of a pipe). `GInv` has an inductive invariant for each of the
  ten programs; each says where the processes are and what is on its way to them.
  - `LInv` of lotto: a bet or its answer is on its way, or neither (`LPlaces`); what nobody can
    read is gone (`LReaders`); the sums of the books change with the one player who is answered
    (`LBooks`). `RInv` of roulette: who waits for the number is owed what the croupier will pay for
    the stake it has read, or less its stake while the bet is on its way (`RBets`).
  - `CInv` of the card game: the place of a player and the content of its two pipes, by what the
    server has done with it in this round (`CPlace`). A player who is gone drops out of this as soon as
    the server has noticed, which for player 0 is never told to the others.
  - `SInv` of the ring of cards: hands and pipes are disjoint, and until somebody has left every
    card is somewhere (`SOnce`, `SAll`); a hand is full but for who waits for a card (`SHands`).
    `TInv` of the ring of numbers: nobody has a number that another has, or has sent.
  - `KInv` of the battle: who has not left is still an enemy of the other side (`KEnemies`).
  - `FInv` of the factory: the sums of the letters that the brigades have counted, with those
    that are in hand and in pipes (`FPassed`, `FRead`), and who holds an end of which pipe
    (`FEnds`), by which a brigade ends only when there is nothing left for it.
  - `PInv`, `BInv` and `MInv` of the tutorials: letters and chunks on their way, counted by whose
    they are; that a child that lives holds its ends of the pipes; and that there is one FIFO until
    the server has ended (`MOneFifo`).

  The library has no theorems about sums over finite sets, and those on induction are out of
  reach. The section `Sums over finite sets` proves what is needed from well-founded orders
  alone: that sums exist and are integers, and that a sum changes by what one summand changes
  (`PipelineProofs` and `SharedMemoryProofs` do the same for `Concat` and for the totals of the points). Theorems:
  `GamesInductive`, `GamesSidesAgree`, `GamesNothingTwice`; they are stated of `FairSpec` and use
  no fairness.
- **Provinces** (`GamesProofs`, any map, directives, routes, number of packets and capacity).
  `DirectivesArrive` speaks of the end only; its invariants say, for as long as no SIGINT has come,
  where everything is that was sent.
  - `VInv` of the flood: what a province has heard, each of its neighbours has heard, or it is in
    the pipe between them, or the road is one that the province has still to write to (`VFlow`);
    the last of these needs that a directive that is dropped as the same as the last one was heard
    before (`VHeard`). A pipe has lost its reader only after its writers and its content
    (`VPipes`), so no write fails and nothing is dropped with a closed pipe. When all have ended the
    pipes are empty, and the provinces that heard a directive are a set that no road leads out of:
    `Reached` is part of it.
  - `WInv` of the routes counts. `taken` says how often each step of each route was taken; what
    was sent, or taken at the step before, is what was taken at this step, and what is in the pipe
    or in the hand of the province (`WFlow`); `messages_relayed` is the sum of `taken` over the
    steps that lead to a province (`WCounted`). At the end every step has been taken `Packets`
    times. `Seen` counts a route once per province, also if it comes by twice: such a route makes a
    cycle of roads, and nobody on a cycle leaves (`WStay`), so that the end is not reached at all
    (`WOnce`). Theorems: `MapInductive`, `MapDirectivesArrive`, of `MapSpec` and without its
    fairness.

  Sums are written with `Folds`, not `FiniteSetsExt`: the definitions of the larger community
  modules would stand in the context of each of the several thousand obligations of this module.

Only model-checked is every liveness property (the prover has no liveness under fairness); every
safety property of a passing run is also proved.

## 7. Where the code and its documentation disagree

- `pipeline_loss`: `ops-double-processor.c:51` marks the output as depleted even while the last
  chunk is in it, and the printers never take that chunk, contrary to `channel.h:30-31`.
- `cards_scoring`: `sop-cards.c:144-148` pays players who have resigned, by the card of their
  last round; `sop-cards-semaphores:165` says, and does, otherwise.
- `provinces_ring`: on the map that the directory brings along the provinces hold one another's
  pipes open for ever, contrary to `generated.c:270-271`.

## 8. What is not modelled

- Errors of system calls, which end the program with a message; sizes, names and texts of
  output; time (sleeps are arbitrary delays).
- Kills from outside, but for SIGINT where the program handles it. ERR kills the process group:
  in `Integrator` each process is taken to be started as a job of its own, which is a group.
- In `Integrator`: `pthread_mutex_destroy` that finds a mutex of zeros in use.
- The binaries of `lab06/channel` (generator and printers): only the calls that the library's
  source allows them to make.
- The earlier stages `etap*.c` and `e*.c`, each of which is a prefix of the program beside it.
- In `Board` and `LetterCount`: sizes that the programs accept and have no room for (section 3).
- In the servers: names and texts, `accept` finding that a client in the backlog is gone, and the
  fate of the UDP datagrams in which `sop-hre` announces votes.
