----------------------------- MODULE MainThread -----------------------------
(***************************************************************************)
(* main() of aesdsocket (server/src/main.c) from the moment it waits for   *)
(* connections: accept, handle_completed_threads, spawning and listing of  *)
(* the connection threads, the signal, and the shutdown.                   *)
(*                                                                         *)
(* The list is modelled with its pointers: a node is an address, malloc()  *)
(* may hand out any free address again, and free() leaves the link field   *)
(* of a node as it was (glibc overwrites the first two words of the chunk, *)
(* thread_id and thread_params, but not the third, the link).  What the    *)
(* threads do inside is in ConnThreads; here a thread runs, may set `done` *)
(* and returns.                                                            *)
(***************************************************************************)
EXTENDS Integers, Sequences, FiniteSets

CONSTANTS
  Conns,     \* the clients, and the connection threads that serve them
  Nodes,     \* the addresses malloc() may return for a ThreadNode_t
  Null,
  Quitters,  \* the threads whose client closes: they set `done` and return
  Leavers,   \* the threads that return after an error: `done` stays false
  Stayers,   \* the clients that may stay connected for ever
  Faults     \* see FaultNames

\* "accept": accept() fails; "spawn": malloc() of the parameters or
\* pthread_create() fails; "node": malloc() of the list node fails; "signal":
\* SIGINT or SIGTERM is delivered.
FaultNames == {"accept", "spawn", "node", "signal"}

ASSUME MainAssumption ==
  /\ Null \notin Nodes \cup Conns
  /\ IsFiniteSet(Nodes)
  /\ Quitters \subseteq Conns
  /\ Leavers \subseteq Conns
  /\ Stayers \subseteq Conns
  /\ Faults \subseteq FaultNames

VARIABLES
  \* the threads
  thread,      \* "absent", "waiting" in the backlog, "accepted", "running",
               \* "returning" (done is set), "ended" or "refused"
  done,        \* thread_params->done
  params,      \* the block of ConnThreadParams_t: "none", "live" or "freed"
  \* the list
  head,        \* thread_list_head.slh_first
  next,        \* the link of every address, freed ones included
  owner,       \* owner[n]: the thread that n's thread_id and thread_params name
  live,        \* the addresses allocated now
  last,        \* last_thread_node
  \* locals of main() and handle_completed_threads
  mpc,         \* where the main thread is
  cur,         \* the connection being set up
  node, prev,  \* node and prev_node
  unexpected,  \* unexpected_error
  \* the process
  interrupted, \* interrupt_signal_received
  mutex,       \* output_file_mutex is initialised
  \* history, for the properties only
  stale        \* main() used a node it had freed

threadVars == <<thread, done>>
listVars   == <<head, next, owner, live, last>>
walkVars   == <<cur, node, prev>>
flagVars   == <<unexpected, interrupted, mutex, stale>>
vars == <<threadVars, params, listVars, mpc, walkVars, flagVars>>

MainPCs == {"check", "enter", "accept", "reap", "spawn", "link", "join", "destroy", "delete",
            "exited", "crashed"}

Running == mpc \notin {"exited", "crashed"}

-----------------------------------------------------------------------------
(* The singly linked list of <sys/queue.h>.                                *)

\* The i-th node from the head, as SLIST_FOREACH meets them.
Nth[i \in 0 .. Cardinality(Nodes)] ==
  IF i = 0 THEN head ELSE IF Nth[i - 1] = Null THEN Null ELSE next[Nth[i - 1]]

Listed == {Nth[i] : i \in 0 .. Cardinality(Nodes)} \ {Null}

\* Mutant: the node in front of n is not linked past it.
RemoveHeadOnly(n) ==
  /\ head' = IF head = n THEN next[n] ELSE head
  /\ UNCHANGED next
\* SLIST_REMOVE(n): n is on the list.
Remove(n) ==
  IF head = n
  THEN head' = next[n] /\ UNCHANGED next
  ELSE /\ next' = [next EXCEPT ![CHOOSE p \in Listed : next[p] = n] = next[n]]
       /\ UNCHANGED head

\* Mutant: a new node goes to the front, its successor is lost.
InsertAlone(n) == head' = n /\ next' = [next EXCEPT ![n] = Null]
\* Mutant: the two assignments of SLIST_INSERT_AFTER in the wrong order.
InsertSwapped(n) ==
  IF head = Null
  THEN next' = [next EXCEPT ![n] = Null] /\ head' = n
  ELSE /\ next' = [next EXCEPT ![last] = n, ![n] = n]
       /\ UNCHANGED head
\* SLIST_INSERT_HEAD into an empty list, SLIST_INSERT_AFTER(last_thread_node)
\* into any other.
Insert(n) ==
  IF head = Null
  THEN next' = [next EXCEPT ![n] = Null] /\ head' = n
  ELSE /\ next' = [[next EXCEPT ![n] = next[last]] EXCEPT ![last] = n]
       /\ UNCHANGED head

\* Mutant: the thread is not waited for.
JoinedWhenDone(c) == done[c] \/ thread[c] = "ended"
\* pthread_join() returns, the parameters, the link and the node are freed.
Joined(c) == thread[c] = "ended"

JoinAndFree(n) ==
  /\ Joined(owner[n])
  /\ params' = [params EXCEPT ![owner[n]] = "freed"]
  /\ Remove(n)
  /\ live' = live \ {n}
  /\ UNCHANGED <<owner, last>>

-----------------------------------------------------------------------------
(* The loop of main().                                                     *)

Goto(l, m) == mpc = l /\ mpc' = m

\* The main thread goes on and changes nothing else.
GoOn(l, m) == Goto(l, m) /\ UNCHANGED <<threadVars, params, listVars, walkVars, flagVars>>

\* Mutant: the flag of the signal handler is not looked at.
CheckErrorsOnly == GoOn("check", IF unexpected THEN "join" ELSE "enter")
Check == GoOn("check", IF ~interrupted /\ ~unexpected THEN "enter" ELSE "join")

\* The condition was read; a signal that is handled before accept() blocks does
\* not interrupt it.
EnterAccept == GoOn("enter", "accept")

\* accept() returns a connection; handle_completed_threads starts at the head.
Accept(c) ==
  /\ Goto("accept", "reap")
  /\ thread[c] = "waiting" /\ thread' = [thread EXCEPT ![c] = "accepted"]
  /\ cur' = c /\ prev' = head /\ node' = head
  /\ UNCHANGED <<done, params, listVars, flagVars>>

AcceptFails == "accept" \in Faults /\ GoOn("accept", "check")

\* The thread of this node is still at work.
SkipNode ==
  /\ mpc = "reap" /\ node \in live /\ ~done[owner[node]]
  /\ prev' = node /\ node' = next[node]
  /\ UNCHANGED <<threadVars, params, listVars, mpc, cur, flagVars>>

\* The thread has set `done`: it is joined, and the walk goes on from
\* prev_node, which is the node just freed when that was the first one.
ReapNode ==
  /\ mpc = "reap" /\ node \in live /\ done[owner[node]]
  /\ JoinAndFree(node)
  /\ node' = next'[prev]
  /\ stale' = (stale \/ prev \notin live')
  /\ UNCHANGED <<threadVars, mpc, cur, prev, unexpected, interrupted, mutex>>

\* The walk stands on a freed node: node->thread_params is no pointer any more.
\* Reading `done` through it crashes, or yields what is taken for false.
ReapFreedNode ==
  /\ mpc = "reap" /\ node \in Nodes \ live
  /\ stale' = TRUE
  /\ \/ mpc' = "crashed" /\ UNCHANGED <<node, prev>>
     \/ prev' = node /\ node' = next[node] /\ UNCHANGED mpc
  /\ UNCHANGED <<threadVars, params, listVars, cur, unexpected, interrupted, mutex>>

ReapEnds == node = Null /\ GoOn("reap", "spawn")

\* spawn_connection_thread
Spawn ==
  /\ Goto("spawn", "link")
  /\ thread' = [thread EXCEPT ![cur] = "running"]
  /\ params' = [params EXCEPT ![cur] = "live"]
  /\ UNCHANGED <<done, listVars, walkVars, flagVars>>

\* Mutant: main() does not remember that it failed.
SpawnFailsSilently ==
  /\ Goto("spawn", "check") /\ "spawn" \in Faults
  /\ thread' = [thread EXCEPT ![cur] = "refused"]
  /\ UNCHANGED <<done, params, listVars, walkVars, flagVars>>
\* The socket of the connection stays open: nobody closes it.
SpawnFails ==
  /\ Goto("spawn", "check") /\ "spawn" \in Faults
  /\ thread' = [thread EXCEPT ![cur] = "refused"]
  /\ unexpected' = TRUE
  /\ UNCHANGED <<done, params, listVars, walkVars, interrupted, mutex, stale>>

\* Mutant: the node is linked before it is filled in.
LinkUnfilled ==
  /\ Goto("link", "check")
  /\ \E n \in Nodes \ live : live' = live \cup {n} /\ Insert(n) /\ last' = n
  /\ stale' = (stale \/ (head # Null /\ last \notin live))
  /\ UNCHANGED <<threadVars, params, owner, walkVars, unexpected, interrupted, mutex>>
\* malloc() of the node at some free address, and its insertion.
Link ==
  /\ Goto("link", "check")
  /\ \E n \in Nodes \ live :
       /\ live' = live \cup {n} /\ owner' = [owner EXCEPT ![n] = cur]
       /\ Insert(n) /\ last' = n
  /\ stale' = (stale \/ (head # Null /\ last \notin live))
  /\ UNCHANGED <<threadVars, params, walkVars, unexpected, interrupted, mutex>>

LinkFails ==
  /\ Goto("link", "check") /\ "node" \in Faults
  /\ unexpected' = TRUE
  /\ UNCHANGED <<threadVars, params, listVars, walkVars, interrupted, mutex, stale>>

-----------------------------------------------------------------------------
(* The shutdown.                                                           *)

JoinFirst ==
  /\ mpc = "join" /\ head # Null
  /\ JoinAndFree(head)
  /\ UNCHANGED <<threadVars, mpc, walkVars, flagVars>>

JoinEnds == head = Null /\ GoOn("join", "destroy")

\* pthread_mutex_destroy().  cleanup() of main's collector does nothing: its
\* allocated_mem is NULL (resource_utils.c:221).
DestroyMutex ==
  /\ Goto("destroy", "delete")
  /\ mutex' = FALSE
  /\ UNCHANGED <<threadVars, params, listVars, walkVars, unexpected, interrupted, stale>>

\* timer_delete(), and main() returns: the process is over.
DeleteTimer == GoOn("delete", "exited")

-----------------------------------------------------------------------------
(* The others.                                                             *)

ClientConnects(c) ==
  /\ thread[c] = "absent" /\ thread' = [thread EXCEPT ![c] = "waiting"]
  /\ UNCHANGED <<done, params, listVars, mpc, walkVars, flagVars>>

\* The client has closed: thread_params->done = true.
ThreadSetsDone(c) ==
  /\ c \in Quitters
  /\ thread[c] = "running" /\ thread' = [thread EXCEPT ![c] = "returning"]
  /\ done' = [done EXCEPT ![c] = TRUE]
  /\ UNCHANGED <<params, listVars, mpc, walkVars, flagVars>>

\* CLEAN_RETURN, after `done` was set or from an error return.
ThreadEnds(c) ==
  /\ thread[c] = "returning" \/ (thread[c] = "running" /\ c \in Leavers)
  /\ thread' = [thread EXCEPT ![c] = "ended"]
  /\ UNCHANGED <<done, params, listVars, mpc, walkVars, flagVars>>

\* signal_handler runs in the main thread and interrupts accept() if that is
\* where it is: accept() fails with EINTR.
Signal ==
  /\ "signal" \in Faults
  /\ ~interrupted /\ interrupted' = TRUE
  /\ mpc' = IF mpc = "accept" THEN "check" ELSE mpc
  /\ UNCHANGED <<threadVars, params, listVars, walkVars, unexpected, mutex, stale>>

-----------------------------------------------------------------------------
Init ==
  /\ thread = [c \in Conns |-> "absent"] /\ done = [c \in Conns |-> FALSE]
  /\ params = [c \in Conns |-> "none"]
  /\ head = Null /\ live = {} /\ last = Null
  /\ next = [n \in Nodes |-> Null] /\ owner = [n \in Nodes |-> Null]
  /\ mpc = "check" /\ cur = Null /\ node = Null /\ prev = Null
  /\ unexpected = FALSE /\ interrupted = FALSE /\ mutex = TRUE /\ stale = FALSE

MainStep ==
  \/ Check \/ EnterAccept \/ (\E c \in Conns : Accept(c))
  \/ SkipNode \/ ReapNode \/ ReapFreedNode \/ ReapEnds
  \/ Spawn \/ SpawnFails \/ Link \/ LinkFails
  \/ JoinFirst \/ JoinEnds \/ DestroyMutex \/ DeleteTimer

ThreadStep(c) == Running /\ (ThreadSetsDone(c) \/ ThreadEnds(c))

Next ==
  \/ MainStep \/ AcceptFails
  \/ \E c \in Conns : ThreadStep(c) \/ (Running /\ ClientConnects(c))
  \/ Running /\ Signal

Spec == Init /\ [][Next]_vars

\* The kernel runs the main thread and the connection threads whenever they can
\* run.  Clients leave in the end or make a call of their thread fail, but for the
\* Stayers: nothing makes their threads return, which poll the socket for ever
\* (main.c:450-462), whatever signal the process was sent.  Once `done` is set every
\* thread returns (ConnThreads).  accept() may fail again and again, but not for
\* ever while a client waits.
FairSpec ==
  /\ Spec /\ WF_vars(MainStep)
  /\ SF_vars(\E c \in Conns : Accept(c))
  /\ \A c \in Conns :
       WF_vars((c \in Stayers => thread[c] = "returning") /\ ThreadStep(c))

-----------------------------------------------------------------------------
(* Properties.                                                             *)

TypeOK ==
  /\ thread \in [Conns -> {"absent", "waiting", "accepted", "running", "returning", "ended",
                           "refused"}]
  /\ done \in [Conns -> BOOLEAN]
  /\ params \in [Conns -> {"none", "live", "freed"}]
  /\ live \subseteq Nodes
  /\ {head, last, node, prev} \subseteq Nodes \cup {Null}
  /\ next \in [Nodes -> Nodes \cup {Null}]
  /\ owner \in [Nodes -> Conns \cup {Null}] /\ \A n \in live : owner[n] \in Conns
  /\ mpc \in MainPCs
  /\ cur \in Conns \cup {Null}
  /\ {unexpected, interrupted, mutex, stale} \subseteq BOOLEAN

\* What a thread is once it was started.
Started == {"running", "returning", "ended"}

\* The head is never left at a freed node.  Until main() has used one, the list
\* ends, holds every allocated node, and has each thread that was started and
\* not joined exactly once, but for the one whose node is not linked yet or
\* could not be allocated.
ListIntact ==
  /\ head \in live \cup {Null}
  /\ ~stale =>
       /\ Nth[Cardinality(Nodes)] = Null
       /\ Listed = live
       /\ \A n, m \in live : owner[n] = owner[m] => n = m
       /\ {owner[n] : n \in live} =
            {c \in Conns : params[c] = "live" /\ ~(c = cur /\ (mpc = "link" \/ unexpected))}

\* thread_params is freed only when its thread has returned and no longer
\* writes `done` through it, whatever state the list is in.
ParamsOutliveThread ==
  \A c \in Conns : params[c] = "freed" => thread[c] = "ended"

\* When the mutex is destroyed no connection thread can still use it, but for
\* the one whose node could not be allocated; and but for those a use of a freed
\* node has lost.
MutexOutlivesThreads ==
  ~mutex /\ ~stale =>
    \A c \in Conns : thread[c] \in {"running", "returning"} => c = cur /\ unexpected

\* The list of nodes keeps the promise of ThreadRegistry, through every reuse
\* of a node's address.
Tracked ==
  LET size == Cardinality({i \in 0 .. Cardinality(Nodes) : Nth[i] # Null})
  IN [i \in 1 .. size |-> owner[Nth[i - 1]]]
Registry == INSTANCE ThreadRegistry WITH
  tracked <- Tracked,
  finished <- {c \in Conns : thread[c] = "ended"},
  damaged <- stale
ImplementsRegistry == Registry!Spec

\* A connection that waits in the backlog gets its thread, unless the server is
\* told to stop, runs out of memory, or has used a node it had freed: the walk
\* over the list ends, and neither the threads that never return keep main() from
\* accept() nor the calls of it that fail.
AcceptedUntilDamaged ==
  \A c \in Conns :
    thread[c] = "waiting" ~> thread[c] \in Started \/ interrupted \/ unexpected \/ stale

\* main.c:5-8, "listen, accept and spawn new thread for incoming connections":
\* a client that connects gets its thread, unless the server is told to stop or
\* runs out of memory.  The code does not keep this once two clients have left
\* between two connections.
ConnectionsGetThread ==
  \A c \in Conns :
    thread[c] = "waiting" ~> thread[c] \in Started \/ interrupted \/ unexpected

\* main() joins a thread whose client stays: the shutdown waits with it.
WaitsForClient ==
  mpc = "join" /\ head # Null /\ owner[head] \in Stayers /\ thread[owner[head]] = "running"

\* Once main() has left its loop it gets to the end, whatever the list has become,
\* unless it waits for ever for a client that stays.  Nothing else holds it up:
\* neither a thread that has returned without `done`, nor one that returns after
\* main() began to wait for it.
ShutdownCompletes == (mpc = "join" ~> mpc = "exited") \/ <>[]WaitsForClient

\* The join loop (main.c:335-343) ends for want of nodes, not of luck: each round
\* frees a node that is still allocated and was met in no round before, even on a
\* list that the use of a freed node has cut short or has linked to a new node at the
\* same address.
JoinLoopShortens ==
  [][mpc = "join" =>
       \/ UNCHANGED <<mpc, head, live>>
       \/ mpc' = "join" /\ Cardinality(live') < Cardinality(live)
       \/ mpc' = "destroy" /\ head = Null]_vars

\* SIGINT and SIGTERM end the server, unless main() then waits for ever for a client
\* that stays, or they are handled after the loop condition was read and before
\* accept() blocks (main.c:180, 274): then the server waits for one more client.  A
\* signal at any other moment is not lost, in the walk over the list and in a failing
\* spawn_connection_thread as little as in accept().
SignalEndsServer ==
  (interrupted /\ mpc \notin {"enter", "accept"} ~> ~Running) \/ <>[]WaitsForClient

\* The socket of a connection whose thread could not be started is closed by nobody
\* but the kernel: the process ends, unless a client that stays keeps it waiting for
\* ever.
RefusedSocketClosed ==
  \A c \in Conns : (thread[c] = "refused" ~> ~Running) \/ <>[]WaitsForClient
=============================================================================
