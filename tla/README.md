# TLA+ models of aesdsocket and of the aesd character driver's buffer

The repository holds the course work of an embedded Linux course. Its one real
system is `aesdsocket` (`server/`): a multi-threaded TCP server on port 9000
that appends every packet it receives to `/var/tmp/aesdsocketdata` and returns
the whole file to the sender, while a POSIX timer adds a timestamp line every
ten seconds. Next to it there are the circular buffer of a character driver
(`aesd-char-driver/`), two small exercises (`examples/threading`,
`examples/systemcalls`), command-line tools and scripts (`finder-app/`).

## 1. Inventory

| Component | State | Operations | Correct when |
|---|---|---|---|
| Connection threads (`socket_connection_thread`, main.c:408-583) | receive buffer, `available_space`, `total_byte_read`, `n_byte`, the socket | receive a packet, append it, send the whole file back | every packet is one whole line of the file; the answer is a prefix of the file that covers the packet; nothing is overwritten; every thread that waits for the mutex gets it |
| Timer threads (`timer_handler`, 367-380) | none of their own | append a timestamp | every expiry reaches the file as a whole line |
| Shared file (`output_fd`, `output_file_mutex`) | contents, ONE offset, lock holder | write at the offset, seek, read | the offset is at the end whenever somebody writes |
| Main loop (`main`, 180-329) | `system_state`, `unexpected_error`, current connection | accept, reap, spawn, link | every connection gets a thread |
| Thread list (`ThreadNode_t`, SLIST, `handle_completed_threads`, 382-406) | nodes with links, `last_thread_node` | insert, walk, join and free | it holds exactly the threads nobody has joined yet; no freed node is used |
| Signals and shutdown (331-365) | `interrupt_signal_received` | set the flag, join all, destroy the mutex | the server stops when asked and no thread outlives the mutex |
| Server set-up (98-271, socket_server.c) | descriptors, `system_state` | getaddrinfo, socket, bind, fork, timer, listen | a failed step is reported or retried, and nothing leaks |
| Resource collector (resource_utils.c) | pointers and descriptors with capacities | register, grow, free, clean up | its slots are exactly what is owned; everything is given back once |
| Circular buffer (aesd-circular-buffer.c) | `entry[10]`, `in_offs`, `out_offs`, `full` | add, search, init | it is a queue of the last 10 writes and a search agrees with their concatenation |
| Threading example (threading.c) | a `thread_data` per thread, the caller's mutex | start, lock, unlock, return | the block is used only while it exists; what the joiner reads in it is true |
| System-call example (systemcalls.c) | a child process per call, its descriptors | system, fork, dup2, exec, wait | a result is that of the call's own child; no child returns into the caller's code; the output goes to the file |
| writer, finder, scripts | none | one pass | exit codes |

How they interact. The main thread accepts a socket and starts a thread with a
`ConnThreadParams_t` on the heap; the thread reports back only through `done`,
and main() looks at it only when the next connection arrives. Connection and
timer threads meet in the file, its offset and the mutex. The signal handler
meets the main loop in one flag, and works by interrupting `accept()`.

What is hard here: one file offset shared by readers and writers; seven error
returns between lock and unlock; a reply whose length was measured under an
earlier lock; partial receives and a buffer that grows; a singly linked list
that is changed while it is walked and whose freed nodes are handed out again;
a flag read before a blocking call; joins that wait for clients; a 64-bit file
size kept in an `int`; children of earlier calls that run beside the next one.
`PROJECT.json` lists these hazards at their lines.

## 2. Modules

| Module | Models | Role |
|---|---|---|
| `PayloadLog` | what clients may rely on | abstract specification |
| `ThreadLife` | what main() and its threads agree on: `done`, then return | abstract specification |
| `ConnThreads` | main.c:367-380, 408-583 and the part of resource_utils.c it uses | the worker threads |
| `MCConnThreads` | scripts of the clients | instances |
| `ConnThreadsProofs` | | proofs |
| `ReplyBuffer` | main.c:500-568 with the width of its integers | the reply of one thread |
| `MCReplyBuffer`, `ReplyBufferProofs` | | instance, proofs |
| `ThreadRegistry` | what main() means its list to be | abstract specification |
| `MainThread` | main.c:98-135, 180-182, 273-365, 382-406, conn_thread.c, `wait_connection` | the main thread and the list |
| `MCMainThread`, `MainThreadProofs` | | instances, proofs |
| `ServerSetup` | main.c:98-357 as far as descriptors, fork, timer and mutex go, socket_server.c | the way to the waiting state, and back out |
| `MCServerSetup`, `ServerSetupProofs` | | instance, proofs |
| `OwnedResources` | what a collector promises | abstract specification |
| `ResourceCollector` | resource_utils.c | the collector of one thread |
| `MCResourceCollector`, `ResourceCollectorProofs` | | instance, proofs |
| `BoundedQueue` | what the ring promises | abstract specification |
| `CircularBuffer` | aesd-circular-buffer.c | the ring |
| `MCCircularBuffer`, `CircularBufferProofs` | | instance, proofs |
| `SystemCalls` | systemcalls.c | a caller and its children |
| `MCSystemCalls`, `SystemCallsProofs` | | instances, proofs |
| `Threading` | threading.c | threads and a caller on one mutex |
| `MCThreading`, `ThreadingProofs` | | instance, proofs |

`ConnThreads` and `MainThread` meet in `done`. What `MainThread` assumes of the
threads it joins (a thread sets `done` at most once, with nothing left but to
clean up and return) is `ThreadLife`, which `ConnThreads` implements, every error
return included. How long a thread stays away without `done` is not bounded in
either.

### ConnThreads

`pc[c]` is the place of a connection thread between two calls at which another
thread can be told apart; one action is everything the thread does up to the
next such place. All other per-thread variables are the locals of
`socket_connection_thread`: `rx` stands for `buf` with `total_byte_read`,
`avail` for `available_space`, `cap` for the size malloc_wrapper() was asked
for, `iter` for `iteration - i`. `mutex`, `file` and `pos` are shared. `log` and
`due` are history: every unit a `write()` has accepted, in order, and how long
that log was when a client's packet had been written.

| Actions | Code |
|---|---|
| `Alloc`, `AllocFails` | malloc_wrapper() at the top of the loop; `KnownBuf` is its test that the pointer is NULL or registered |
| `Recv`, `RecvEof` | recv(), end of packet on the last byte received, NUL replaced by a newline |
| `Lock` | the three pthread_mutex_lock() calls |
| `Write`, `WriteFails` | the packet goes to the file; on failure any part of it does |
| `FailsLocked` | what the error returns of fstat() and of both lseek() calls have in common: unlock and leave |
| `Stat`, `StatFails`, `AllocReply`, `AllocReplyFails` | size of the reply, buffer halved while memory is short |
| `Rewind`, `RewindFails`, `Read`, `Send`, `SendFails`, `SendKills`, `ToEnd`, `ToEndFails` | the reply, all under one lock |
| `SetDone`, `Cleanup` | end of the thread; with it its local variables are gone |
| `TimerFires`, `LockStamp`, `WriteStamp`, `WriteStampFails` | timer_handler(); its write() may fail or write a part of the line, and nobody looks |
| `ClientSend`, `ClientTurns` | the environment: a client sends, stops reading, closes |

Abstractions. A byte is a record of who sent it, its place in what that sender
sent, and whether it is payload, newline or NUL; with that, "not overwritten",
"not mixed" and "complete" can be told, and nothing else can. A timestamp line is
two units, its text and its newline, and may be cut between them. recv() that has nothing yet is a stuttering step. recv() errors, and
read() errors on the open file, are left out. Integers are unbounded here;
`ReplyBuffer` has their width. realloc() keeps the contents. A timer thread whose
write() fails ends as "unwritten", or "cut" when a part of the line is in the file,
for the code does not look at the result. The part that a failing send() still
moved is left out of what the client got: nothing is claimed of that reply.

### ReplyBuffer

One thread from fstat() to the end of its reply. `Half` is 2^31: `Wrap` is what
an assignment of an `off_t` to an `int` keeps. `MaxTransfer` is the most that Linux
moves in one read() or send(). The other threads are in one place only: the file
may have grown between fstat() and the rewind (`len`).

| Actions | Code |
|---|---|
| `Stat` | fstat(), `n_byte = st_size` |
| `Alloc`, `AllocFails` | malloc_wrapper() of `n_byte` bytes, halved on ENOMEM until it is 0; a negative one is more than malloc() can give |
| `Rewind` | `iteration`, summed and divided as `off_t`, stored in an `int` |
| `Piece`, `Finish` | a read() and send(); the end of the loop |

### MainThread

The list has its pointers. `next` is a function over ADDRESSES, so that a freed
node keeps its link, may be handed out again by malloc() and may still be
reachable. `live` is what is allocated. `stale` is history: main() has used a
node it had freed. After free() glibc overwrites the first two words of a block,
`thread_id` and `thread_params`, and leaves the third, the link; reading `done`
through the overwritten pointer crashes or reads what is taken for false
(`ReapFreedNode`). What is inserted next to a freed `last_thread_node` is written
as the macro writes it.

| Actions | Code |
|---|---|
| `Goto`, `GoOn` | the main thread moves on; with `GoOn` it changes nothing else |
| `Check`, `EnterAccept`, `Accept`, `AcceptFails` | the loop condition, the window before accept() blocks, accept() |
| `SkipNode`, `ReapNode`, `ReapFreedNode`, `ReapEnds` | handle_completed_threads, one node per step |
| `Spawn`, `SpawnFails`, `Link`, `LinkFails` | spawn_connection_thread, the list node |
| `JoinFirst`, `JoinEnds`, `DestroyMutex`, `DeleteTimer` | shutdown |
| `Signal` | signal_handler, EINTR when it hits accept() |
| `ClientConnects`, `ThreadSetsDone`, `ThreadEnds` | environment and threads, as ConnThreads has them: `done` on end of file only |

The timer is not in this module: that timer_handler may lock the mutex after
line 346 has destroyed it is listed as a hazard without a property.

### ServerSetup

`pc` is the place of main() between two system calls, `state` its
`system_state`. `open`, `bound`, `listening` and `timer` are the kernel's view of
the process that runs the loop; `registered` is the collector's list of
descriptors. fork() is a step after which the variables describe the child: it
has the parent's descriptors and none of its timers. The parent returns.

| Actions | Code |
|---|---|
| `MutexInit`, `OpenFile`, `InstallHandlers`, `StartFails` | main.c:122-166, each failure returns |
| `Check` | the loop condition |
| `CreateServer`, `GetaddrinfoFails`, `SocketFails`, `BindFails` | create_socket_server and the state INIT; a failure leaves the state as it is, but getaddrinfo()'s, whose NULL result is dereferenced |
| `Fork`, `ForkFails`, `StayInForeground` | the state SOCK_CREATED |
| `CreateTimer`, `ArmTimer`, `TimerFails` | the timer, in the same round |
| `Listen`, `ListenFails` | the state SOCK_START_LISTENING |
| `Serve` | a round of the state SOCK_WAITING_CONN: what MainThread models |
| `DestroyMutex`, `DeleteTimer`, `Signal` | the end |

A call that fails and is tried again in the next round is a `Retry`.
`MaxFailures` bounds how many calls fail; it is a bound of the model, not of the
code.

### ResourceCollector

The variables are the two arrays with their counters, and the heap and the open
descriptors as the process has them. A collector belongs to one thread, so an
operation is one step. `hasMem` is FALSE for a collector initialised without a
memory container, as main() does it; cleanup() does nothing then. `declined` is
history: descriptors register_fd() had no slot for.

| Actions | Code |
|---|---|
| `MallocNew`, `Realloc` | malloc_wrapper() with NULL and with a known pointer; `Realloc` may move the block. Failure changes nothing and is no action |
| `FreeBlock` | free_wrapper() of a known pointer, gap closed by `RemoveAt` |
| `OpenAndRegister`, `CloseFile` | a descriptor with register_fd(); close_file_wrapper(), which searches only a container that is not full |
| `Cleanup` | cleanup(), after which the thread returns |

### CircularBuffer

The variables are the struct's fields, plus the result of the last search. The
caller locks, so an operation is one step. The search loop is a recursive
function over its rounds. Capacity is a parameter (`MaxWrites`, 10 in the code).
The early returns for NULL arguments are left out.

### SystemCalls

A caller makes up to `MaxCalls` calls, one after the other, of any kind. `child[n]`
is the place of the process that call n forked; it lives on when waitpid() failed.
`own` is which of the descriptors 0, 1 and 2 the caller has, in every combination:
it decides what open() returns in the child, and with it what dup2() and close()
leave (`out`). `ran` and `failed` are history.

| Actions | Code |
|---|---|
| `Call`, `Return` | entry and exit of the three functions |
| `System` | do_system(): system() is one step |
| `Fork`, `ForkFails`, `Wait`, `WaitFails` | the parent of do_exec() and do_exec_redirect(); only the second looks at a failed fork() |
| `Open`, `Dup`, `Execv`, `ChildFails`, `Exit`, `CommandEnds` | the child: open(), dup2() and close(), execv(), _exit(); the command, which a signal may kill |

### Threading

`pc[t]` is the place of one call of start_thread_obtaining_mutex() and of the thread
it starts. `data[t]` is its `thread_data`, `success[t]` the flag in it, any value
until it is set. The caller may take the mutex once and joins, as threading.h has
it. The sleeps take any time.

| Actions | Code |
|---|---|
| `Start`, `MallocFails`, `CreateFails` | start_thread_obtaining_mutex() |
| `Obtain`, `Release`, `Complete` | threadfunc() |
| `Join`, `CallerLocks`, `CallerUnlocks` | the caller |

## 3. Runs

| Run | Question | Instance |
|---|---|---|
| `ConnThreads_faults` | Do lock, file, lines, buffers and replies stay right, does the whole implement PayloadLog and ThreadLife, and is every patient client of one packet answered and every timestamp written, when every call can fail? | 2 clients, one of a newline with more behind it in the same chunk, one of a packet that ends in NUL; the first may close or stop reading; 1 timestamp, chunk of 2 |
| `ConnThreads_broken_reply`, `_second_packet` | violations, section 6 | the smallest instance that shows each |
| `ReplyBuffer_width` | Is a reply whole, is read() never asked for nothing or less, and does the loop end, at every size of the file? | ints of 5 bits, sizes 1 to 70, pieces of up to 12 |
| `MainThread_list` | Is the list the registry until a freed node is used? Are parameters and mutex outlived by no thread? Does every connection get a thread? Does every signal end the server and every shutdown come to an end, but for a client that stays? | 3 connections that may end in every way, one of which may stay for ever, 3 addresses, every failure, a signal |
| `MainThread_quick_clients` | violation, section 6 | as above, without failures |
| `CircularBuffer_search` | Is the ring a queue, and is the search right? | 3 slots, sizes 0 to 2, offsets 0 to 6 |
| `ServerSetup_retry` | Does every retry leave the descriptors accounted for, does the right process end up listening with its own timer, and do the retries end? | foreground and daemon, 3 failing calls, 4 descriptors, 3 slots, a signal |
| `ResourceCollector_all` | Are the slots exactly what is owned, and does cleanup() give all of it back? | 3 slots of each kind, 4 addresses, 4 descriptors, with and without a memory container |
| `SystemCalls_children` | Is a result that of the call's own child, does only the caller return, and does a redirected command write to the file? | 2 calls of any kind, every failure, every set of standard descriptors |
| `SystemCalls_fork` | violation, section 6 | 1 call |
| `Threading_join` | Does the joiner read the truth, is the block used only while it exists, does every thread return? | 3 threads and the caller, both failures |

Why the bounds are enough. In ConnThreads two writers and one reader suffice
for every hazard of the offset (one thread replies while another waits to
append). A Chunk of 2 gives receives of a part of a chunk, a newline in the middle
of one (which the thread does not see) and, behind that, a buffer that has to grow;
every packet and the timestamp can be written in part. With `enomem` a file of up to
five bytes is returned in pieces of one and two, whose number is rounded up.
ReplyBuffer has every size: its ints of 5 bits wrap at 16, and 70 is past twice
their range, so that `n_byte` becomes negative and 0, each more than once, and a
`MaxTransfer` below `Half`, as on Linux, gives pieces that read() cuts short. In
MainThread three connections give a walk over a list of two nodes, whose first, last
or both threads have finished, a reused address, an insertion after a freed node and
a shutdown with up to three threads; that longer lists bring nothing new is what
`ListStaysIntact` proves. A client that may stay for ever gives the shutdown that
never ends, and the walk past a thread that never does. In CircularBuffer three slots
give every position of `in_offs` relative to `out_offs` more than once around;
offset 6 is one past the largest concatenation. In ServerSetup three failures
let a step fail twice and another once, and four descriptors are more than a
correct set-up ever has open, so that a leak shows. In ResourceCollector three
slots give a first, middle and last entry to remove, and the fourth resource
meets a full container. In SystemCalls the second call meets a child of the
first in each of its places; a third would meet nothing new, for a call reads only
its own child. In Threading three threads and the caller compete for the mutex.

Deadlock checking is off where the program really ends: the threads of ConnThreads,
the process of MainThread and ServerSetup, the thread of ResourceCollector, the reply,
the bounded calls and threads of the exercises. It is on for CircularBuffer.

Four runs do not check `TypeOK`: for ReplyBuffer, SystemCalls, Threading and
CircularBuffer it is a theorem.

Fairness. The kernel schedules every thread that can run: weak fairness of each
connection thread, of each timer thread and of the main thread. Nothing is
assumed of clients, of the timer's expiries or of failures, with these bounds.

 - ServerSetup has finitely many failures: while bind() fails for ever the server
   tries for ever.
 - accept() may fail again and again, but not for ever while a client waits:
   strong fairness of `Accept`, and none of `AcceptFails`, in MainThread.
 - A client may stop reading for ever (`Stalling`), in the run that checks that
   the others are served: the properties name that case (`Stalled`), and no other.
 - In MainThread `Quitters` and `Leavers` say how a connection thread may return.
   The client of a thread that is not in `Stayers` leaves at some time, or a call of
   its thread fails. A thread of `Stayers` may return, but need not before it has set
   `done`: nobody tells it of a signal, and it polls its socket for ever
   (main.c:450-462). The properties of the shutdown name that case
   (`WaitsForClient`), and no other.
 - A mutex in glibc is not fair, but weak fairness is enough: in the instances
   each thread takes it a bounded number of times.
 - In SystemCalls the caller goes on and the commands end; in Threading the
   caller gives the mutex back. Both are what "returns" depends on. A failing
   fork() or waitpid() is never required.

## 4. Proofs

All proofs are checked by tlapm for every value of the constants that satisfies
the modules' named assumptions (`ConstantsAssumption`, `MainAssumption`,
`BufferAssumption`, `SetupAssumption`, `CollectorAssumption`, `ReplyAssumption`,
`CallsAssumption`, `ThreadingAssumption`). `ReplyAssumption` says that one read()
moves less than an `int` can hold.

`ConnThreadsProofs`
 - `TypeCorrect` (`TypeOK`), from `TypeInv`: TypeOK alone is not inductive,
   because the loop counter is only known to stay natural while the thread is
   inside the reply, `n_byte` is only known to be positive after a write, and a
   received packet is only known to be non-empty because room was left. These
   are the conjuncts of `ConnFacts`.
 - `MutexHeldInside` (`LockDiscipline`): inductive by itself given the types,
   with one case per action.
 - `ReceiveInBounds` (`BufferInBounds`): with the facts about `avail`.
 - `NothingOverwritten` (`FileIsLog`), from `OffsetInv`: unless a reply was
   given up, the file is the log, and the offset is at its end whenever no
   thread is between rewind and seek-to-end. The invariant needs
   `LockDiscipline`: the one thread in between holds the mutex, so no other can
   write (`WriterIsAlone`). The steps are first summed up by what they do to
   file and lock (`FileMove`, `MutexMove`), then taken through the invariant.
 - `RecordsOnLines` (`LinesIntact`), from `RxInv`: what a thread has received is a
   run of its client's bytes in the order they were sent, and it goes for the lock
   only with a newline at the end. By `FileSteps` a step leaves the file alone or
   appends one record, a packet or a timestamp, because the offset is at the end
   (`OffsetInv`) whenever a thread may write; a record after whole lines leaves whole
   lines (`RecordKeepsLines`). A step that leaves a part of a record makes `Torn` true,
   for a timestamp (`StampUnwritten`) as for a packet; nothing is claimed after it.
 - `RepliesComplete` (`ReplyComplete`), from `ReplyInv`: during a reply the client
   has a beginning of the log, the shared offset is where that beginning ends, and
   the reads that are left reach the size that fstat() saw (`CeilingEnough`). That
   one thread's facts survive the others' steps (`Undisturbed`) needs
   `LockDiscipline` for the offset, and that the log only grows for the rest.
 - `ThreadsKeepPayloadLog` (`ImplementsPayloadLog`): every step is a step of
   `PayloadLog` or stutters (`PayloadStep`), from `OffsetInv`, `RxInv` and `ReplyInv`,
   until it is `Torn`.
 - `ThreadsReturnOnce` (`ImplementsThreadLife`). Its invariant, `DoneInv`, is that a
   thread with `done` set has nothing left but its return.

`MainThreadProofs`
 - `MainTypeCorrect` (`TypeOK`) and `ParamsFreedAfterReturn`
   (`ParamsOutliveThread`), from `MainInv`. The second holds on a damaged list
   too: whatever node is followed, its owner is joined before the block is freed.
   The steps that only move the main thread on are one lemma (`GoOnInv`).
 - `ListStaysIntact` (`ListIntact`), `MutexOutlives` (`MutexOutlivesThreads`) and the
   refinement `ListIsRegistry` (`ImplementsRegistry`), from `ListInv`. Its heart is
   `ChainInv`: there is always a chain of different allocated nodes from `head` to
   `Null`, also in a list that has lost nodes; until a freed node is used it holds
   all of them, with `last` at its end or freed; and while main() walks, there
   is a set of nodes that it does not leave. `ChainWithout` and `ChainWith` say what
   SLIST_REMOVE and SLIST_INSERT_AFTER do to a chain; `OwnerInv` says whose the nodes
   are. That the recursive function `Nth` follows the chain is proved by the
   smallest index at which it would not (`SmallestElement`, `NthOfChain`).
 - `JoinLoopEnds` (`JoinLoopShortens`): each round of the join loop frees an allocated
   node, whatever the list has become. It is the part of `ShutdownCompletes` that is
   not fairness.

`ReplyBufferProofs`
 - `ReplyIsWhole` (`ReplyCovers`), `PiecesArePositive` and `ReplyTypeCorrect`, from
   `ReplyInv`, for every width and every largest size. What it says beyond the
   types is that the bytes sent and the pieces left still cover the size, as long
   as the size fits in one transfer. `RoundedUp` is the arithmetic of it, that the
   rounded-up quotient of pieces covers the size and fits in an `int`; `WrapSmall`
   and `WrapType` are what an assignment to an `int` keeps.
 - `ReplyTakesBoundedSteps`: while the size is below 2^31, every step lowers a bound on
   the steps that are left (`StepsLeft`), a failing malloc() too: the part of
   `ReplyEnds` that is not fairness. It rests on neither `int` being negative
   there (`NothingNegative`).

`CircularBufferProofs`
 - `BufferIsQueue`: `Spec => ImplementsQueue`, for every capacity. `IndexInv`
   adds to the types that a full ring has equal indices. `IndexMeaning` says in
   terms of sums and comparisons, without remainders (`WrapOnce`), how many
   entries there are and where each one is; a write is then a `Push`
   (`AddIsPush`, with and without room) and a search a stuttering step.
 - `BufferTypeCorrect` (`TypeOK`), from the same invariant.
 - `SearchMatchesConcatenation` (`SearchIsConcatenation`), for every size of entry, the
   empty ones included. The specification sums the sizes before an entry with a
   recursive function and the search is a recursive function of its rounds. The
   library's induction theorems cannot be instantiated here, so that both exist, and
   that k rounds lead where `After` says (k entries passed, a hit, or the end), is
   proved by the smallest number for which it fails (`SmallestNumber`, from
   `WFMin`): `BeforeValue` and `WalkRounds` give the equations, `RoundAfter` is the one
   round, `SearchFinds` the whole loop.

`ServerSetupProofs`
 - `SetupTypeCorrect` (`TypeOK`), `NoDescriptorLost` (`DescriptorsAccounted`) and
   `ReadyWhenWaiting` (`ReadyToAccept`), from `SetupInv`, for any number of
   failures. `PlaceFacts` says what holds at each place of main(), before the
   loop too (how many descriptors there are, whose timer it is), and
   `StateFacts` what each `system_state` stands for.
 - `SetupTakesBoundedSteps`: until the server waits every step lowers a bound on the
   steps that are left. A round that fails goes back to the loop's condition and
   has used up a failure, which is worth two steps (`FailurePays`): the part of
   `SetupEnds` that is not fairness.

`ResourceCollectorProofs`
 - `CollectorTypeCorrect`, `SlotsAlwaysExact`, `NothingLeftBehind` and the
   refinement `CollectorIsOwner` (`Spec => ImplementsOwner`), from
   `CollectorInv`. Both arrays are instances of one predicate, `Exact`; three
   lemmas say that appending, replacing and removing keep it (`Appended`,
   `Replaced`, `Removed`), and each operation is one of the three.
   That descriptors are never declined unless they are open is what makes a
   registered one different from a declined one.

`SystemCallsProofs`
 - `CallsReturnOnce` (`CallerReturnsOnce`), `ResultsAreTheChilds` (`ResultIsChilds`) and
   `CallsTypeCorrect`, from `CallsInv`, for any number of calls and of children
   still running. It adds that calls not made have left no trace, that the call
   in progress has not returned, and that a command has not run before its
   execv(). `ReturnKeepsInv` is the one lemma about a call that returns.
 - `OutputGoesToFile` (`OutputRedirected`), from `OutInv`: from its execv() on the child
   of a redirected command has descriptor 1 on the file. A caller whose descriptor 1 is
   the first free one is left out (section 6).

`ThreadingProofs`
 - `JoinerReadsTruth` (`SuccessMeansHeld`), `DataLivesLongEnough`
   (`DataOutlivesThread`) and `ThreadingTypeCorrect`, from `ThreadingInv`, which adds
   to the three that a thread past its unlock has had the mutex.

Model-checked only: liveness under fairness, which is out of this prover's reach:
`StayingClientServed`, `TimestampWritten`, `AcceptedUntilDamaged`,
`ShutdownCompletes`, `SignalEndsServer`, `RefusedSocketClosed`, `SetupEnds`, `ReplyEnds`,
`CallReturns`, `StartedReturns`. Three of them have their bound on the steps proved,
as said above; that the steps are taken is left to TLC, for it needs ENABLED. Every
invariant, action property and refinement that a passing run checks is a theorem.

## 5. What the checks show

Until a reply is given up, or the write() of a packet or of a timestamp stops half
way, the file is a faithful log in whole lines and every finished reply is a prefix
that covers the client's packet, whatever else fails. No error return keeps or
doubly releases the lock; a call that fails in one thread keeps no other client and no
timestamp waiting, but for a client that does not read, a reply given up with the
offset inside the file, and the end of the process. A reply is whole however
small its buffer had to be, up to the 2147479552 bytes that one read() moves; up to
2^31 - 1 bytes its loop ends, and at no size is read() asked for 0 bytes or less. Until main() uses a freed node
its list is exact, through every reuse of addresses, and no connection thread
outlives the mutex except the one whose node could not be allocated. Whatever
the list has become, the join loop frees no node twice; the shutdown ends, and with
it the wait of a client whose thread could not be started, unless main() waits for
ever for a client that stays; a signal is lost only in the window before accept()
blocks. However
often the set-up is retried, nothing leaks, and the daemon's child, not its
parent, owns the listening socket and the timer. A collector gives back exactly
what it owns, with any interleaving of growing, freeing and closing. The ring is
a queue. A call of systemcalls.c tells the truth about its own command, whatever
earlier children do, as long as fork() and waitpid() work, and no child of it goes on
in the caller's code, whatever fails in the child; a thread of
threading.c that was joined has had the mutex.

## 6. Where the code does not do what it says

 - `ConnThreads_broken_reply` (main.c:550): a failed send() leaves the shared
   offset inside the file; the next packet overwrites accepted bytes.
 - `ConnThreads_second_packet` (main.c:572, 433): `buf` still names the freed
   reply buffer; malloc_wrapper() refuses it and the thread ends, unanswered
   (`EveryPacketAnswered`).
 - `MainThread_quick_clients` (main.c:399, 391-393): the walk goes on from a
   freed node.
 - `SystemCalls_fork` (systemcalls.c:54): do_exec() returns true when fork() failed,
   against its comment (34-36); the same state is reached by a failing waitpid().

Seen in the models but not given a run of their own:

 - send() blocks under the mutex: a client that does not read stops all others
   and the timer (main.c:546). The properties name it, as `Stalled`.
 - The result of the timestamp's write() is ignored (main.c:378): a timestamp may be
   missing, or be there without its newline, and then the next record continues its
   line (`WriteStampFails`). The same holds of a packet that is written in part
   (main.c:480, `WriteFails`). The properties of the log name both, as `Torn`.
 - A newline in the middle of a received chunk is not seen (main.c:467): the client is
   not answered until it ends another packet (`EndsPacket`).
 - SIGPIPE of one connection ends the process (`SendKills`).
 - A signal between the loop condition and accept() is seen only after the next
   connection (main.c:180, 274). `SignalEndsServer` names the window.
 - The join loop waits for clients that stay connected, for ever if need be: nothing
   tells their threads of the signal (main.c:339, 450-462; `WaitsForClient`).
 - From 2^31 bytes on `n_byte` is negative, no malloc() grants it and halving it ends
   at -1: the thread spins (main.c:508-530; `ReplyEnds` names the limit). From 2^32
   on `n_byte` may be 0, which ends the thread, or positive again, and then only a
   piece size. A piece of more than 2147479552 bytes is cut short by read().
 - A child of do_exec_redirect() gets the file as descriptor 1 when that is the first
   free one of its parent, and then closes it: the command has no output, against
   systemcalls.c:77, "the file to write with command output" (102-112, `Dup`).
   `OutputRedirected` leaves that caller out.
 - `thread_param` is lost when pthread_create() fails (threading.c:55-60, `CreateFails`).
 - The descriptor of a connection whose thread was not started stays open until
   the process ends (main.c:317, `SpawnFails`).
 - A search that finds nothing clears the caller's offset, against
   aesd-circular-buffer.c:24-25 (`Find`).
 - A failing getaddrinfo() crashes the server (`GetaddrinfoFails`); a failing socket()
   is reported as a failing bind() (`SocketFails`); main()'s cleanup() closes nothing
   (`Cleanup` without `hasMem`).

## 7. Not modelled

 - The race of the timer with the shutdown: main() destroys the mutex two calls
   before it deletes the timer (main.c:346-348), so that a timer_handler may lock a
   destroyed one. No document says what an expiry during the shutdown may do.
 - Several threads with ints of bounded width at once: ReplyBuffer has one thread,
   with the growth of the file as its environment.
 - recv() errors and read() errors of the open file; the sleeps of threading.c, with
   the overflow of `ms * 1000`.
 - writer.c, the finder, the shell scripts, the build and the CI: one pass from
   argument check to exit code, no state that a later step depends on.

## 8. Plan

 1. Bounds on the steps, as `ReplyTakesBoundedSteps`, for the calls of `SystemCalls` and
    the threads of `Threading`, and for the walk of `handle_completed_threads` while
    no freed node was used.
 2. The timer in `MainThread`, should a document state what the shutdown promises it.
