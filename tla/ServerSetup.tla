----------------------------- MODULE ServerSetup -----------------------------
(***************************************************************************)
(* main() of aesdsocket (server/src/main.c) up to the state in which it    *)
(* waits for connections, with create_socket_server, the fork of the       *)
(* daemon and the retries.  MainThread takes over in that state; here a    *)
(* round of accept() is the step Serve.                                    *)
(*                                                                         *)
(* The variables describe the process that runs the loop: the one that was *)
(* started or, after fork(), its child, which inherits the descriptors and *)
(* not the timers.                                                         *)
(***************************************************************************)
EXTENDS Integers, Sequences, FiniteSets

CONSTANTS
  Fds,          \* the descriptor numbers the kernel may hand out
  MaxFiles,     \* the size of open_file_fd
  MaxFailures   \* how many calls may fail in a run

ASSUME SetupAssumption ==
  /\ Fds \subseteq Nat
  /\ IsFiniteSet(Fds)
  /\ Cardinality(Fds) >= 2
  /\ MaxFiles \in Nat \ {0, 1}
  /\ MaxFailures \in Nat

NoFd == -1

VARIABLES
  pc,          \* where main() is
  runAsDaemon, \* run_as_daemon: the option -d
  state,       \* system_state
  sfd,         \* sfd
  registered,  \* the descriptors in main_thread_res_collector
  interrupted, \* interrupt_signal_received
  mutex,       \* output_file_mutex: "none", "initialised" or "destroyed"
  \* the kernel's view of the process
  process,     \* "first" or "child"
  open,        \* the open descriptors
  bound,       \* the descriptors bound to port 9000
  listening,   \* the descriptors that listen
  timer,       \* [of, is]: the process it belongs to; "none", "created", "armed"
  failures     \* how many calls have failed

fdVars   == <<sfd, registered, open, bound, listening>>
procVars == <<runAsDaemon, interrupted, mutex, process>>
vars == <<pc, state, fdVars, timer, procVars, failures>>

States == {"INIT", "SOCK_CREATED", "SOCK_START_LISTENING", "SOCK_WAITING_CONN"}
PCs == {"mutexInit", "openFile", "sigaction", "check", "step", "createTimer", "armTimer",
        "destroy", "deleteTimer", "returned", "crashed"}

\* main() has its signal handlers and has not left its loop.
InLoop == pc \in {"check", "step", "createTimer", "armTimer"}

NoTimer == [of |-> "nobody", is |-> "none"]

\* A call fails, as long as any may.
Fails == failures < MaxFailures /\ failures' = failures + 1

\* register_fd(): an array that is full takes no more.
Register(fd) ==
  registered' = IF Len(registered) < MaxFiles THEN Append(registered, fd) ELSE registered

Goto(l, m) == pc = l /\ pc' = m

-----------------------------------------------------------------------------
(* Before the loop.                                                        *)

MutexInit ==
  /\ Goto("mutexInit", "openFile")
  /\ mutex' = "initialised"
  /\ UNCHANGED <<state, fdVars, timer, runAsDaemon, interrupted, process, failures>>

\* open() of /var/tmp/aesdsocketdata, and register_fd().
OpenFile ==
  /\ Goto("openFile", "sigaction")
  /\ \E fd \in Fds \ open : open' = open \cup {fd} /\ Register(fd)
  /\ UNCHANGED <<state, sfd, bound, listening, timer, procVars, failures>>

\* The handlers of SIGINT and SIGTERM.
InstallHandlers ==
  /\ Goto("sigaction", "check")
  /\ UNCHANGED <<state, fdVars, timer, procVars, failures>>

\* pthread_mutex_init(), open() or sigaction() fails: return 1.
StartFails ==
  /\ pc \in {"mutexInit", "openFile", "sigaction"} /\ pc' = "returned"
  /\ Fails
  /\ UNCHANGED <<state, fdVars, timer, procVars>>

-----------------------------------------------------------------------------
(* The loop.                                                               *)

Check ==
  /\ Goto("check", IF interrupted THEN "destroy" ELSE "step")
  /\ UNCHANGED <<state, fdVars, timer, procVars, failures>>

In(s) == pc = "step" /\ state = s

\* A round of the loop that ends with the state it began with, as a call failed.
Retry(s) ==
  /\ In(s) /\ pc' = "check"
  /\ Fails
  /\ UNCHANGED <<state, registered, bound, listening, timer, procVars>>

\* create_socket_server(): getaddrinfo(), socket() and bind() succeed.
CreateServer ==
  /\ In("INIT") /\ pc' = "check"
  /\ \E fd \in Fds \ open :
       sfd' = fd /\ open' = open \cup {fd} /\ bound' = {fd} /\ Register(fd)
  /\ state' = "SOCK_CREATED"
  /\ UNCHANGED <<listening, timer, procVars, failures>>

\* getaddrinfo() fails and leaves sockaddrinfo at NULL, which the call of
\* socket() dereferences.
GetaddrinfoFails ==
  /\ In("INIT") /\ pc' = "crashed"
  /\ Fails
  /\ UNCHANGED <<state, fdVars, timer, procVars>>

\* Mutant: the result of create_socket_server is not looked at.
SocketFailsUnnoticed ==
  /\ In("INIT") /\ pc' = "check"
  /\ Fails
  /\ sfd' = NoFd /\ state' = "SOCK_CREATED"
  /\ UNCHANGED <<registered, open, bound, listening, timer, procVars>>
\* socket() fails; so do bind() and close() of -1.  The state stays: main()
\* tries again.
SocketFails == Retry("INIT") /\ sfd' = NoFd /\ UNCHANGED open

\* Mutant: the socket stays open.
CloseOnErrorNot(fds, fd) == fds
\* "close socket fd on error that happened after socket creation"
CloseOnError(fds, fd) == fds \ {fd}

\* bind() fails.
BindFails ==
  /\ Retry("INIT")
  /\ \E fd \in Fds \ open : sfd' = fd /\ open' = CloseOnError(open \cup {fd}, fd)

\* Mutant: the parent goes on and the child returns.
ForkChildReturns ==
  /\ In("SOCK_CREATED") /\ runAsDaemon
  /\ state' = "SOCK_START_LISTENING" /\ pc' = "createTimer"
  /\ UNCHANGED <<fdVars, timer, procVars, failures>>
\* fork(): the child goes on, with the descriptors and without the timers of its
\* parent, which returns 0.
Fork ==
  /\ In("SOCK_CREATED") /\ runAsDaemon
  /\ process' = "child" /\ timer' = NoTimer
  /\ state' = "SOCK_START_LISTENING" /\ pc' = "createTimer"
  /\ UNCHANGED <<fdVars, runAsDaemon, interrupted, mutex, failures>>

ForkFails == Retry("SOCK_CREATED") /\ runAsDaemon /\ UNCHANGED <<sfd, open>>

StayInForeground ==
  /\ In("SOCK_CREATED") /\ ~runAsDaemon
  /\ state' = "SOCK_START_LISTENING" /\ pc' = "createTimer"
  /\ UNCHANGED <<fdVars, timer, procVars, failures>>

\* timer_create() and timer_settime(), in the round of the fork.
CreateTimer ==
  /\ Goto("createTimer", "armTimer")
  /\ timer' = [of |-> process, is |-> "created"]
  /\ UNCHANGED <<state, fdVars, procVars, failures>>

ArmTimer ==
  /\ Goto("armTimer", "check")
  /\ timer' = [timer EXCEPT !.is = "armed"]
  /\ UNCHANGED <<state, fdVars, procVars, failures>>

\* Either fails: main() returns 1.  timer_delete() undoes a timer_create();
\* cleanup() does nothing, for main's collector has no allocated_mem.
TimerFails ==
  /\ pc \in {"createTimer", "armTimer"} /\ pc' = "returned"
  /\ Fails
  /\ timer' = NoTimer
  /\ UNCHANGED <<state, fdVars, procVars>>

\* Mutant: the state is not advanced.
ListenAgain ==
  /\ In("SOCK_START_LISTENING") /\ pc' = "check"
  /\ listening' = listening \cup {sfd}
  /\ UNCHANGED <<state, sfd, registered, open, bound, timer, procVars, failures>>
Listen ==
  /\ In("SOCK_START_LISTENING") /\ pc' = "check"
  /\ listening' = listening \cup {sfd} /\ state' = "SOCK_WAITING_CONN"
  /\ UNCHANGED <<sfd, registered, open, bound, timer, procVars, failures>>

ListenFails == Retry("SOCK_START_LISTENING") /\ UNCHANGED <<sfd, open>>

\* A round of MainThread.
Serve ==
  /\ In("SOCK_WAITING_CONN") /\ pc' = "check"
  /\ UNCHANGED <<state, fdVars, timer, procVars, failures>>

-----------------------------------------------------------------------------
(* The shutdown, and the signal.                                           *)

\* pthread_mutex_destroy(); cleanup() does nothing.
DestroyMutex ==
  /\ Goto("destroy", "deleteTimer")
  /\ mutex' = "destroyed"
  /\ UNCHANGED <<state, fdVars, timer, runAsDaemon, interrupted, process, failures>>

\* timer_delete(), of timer_id 0 when no timer was created; return 0.
DeleteTimer ==
  /\ Goto("deleteTimer", "returned")
  /\ timer' = NoTimer
  /\ UNCHANGED <<state, fdVars, procVars, failures>>

\* SIGINT or SIGTERM is delivered to the process that runs the loop.
Signal ==
  /\ InLoop /\ ~interrupted
  /\ interrupted' = TRUE
  /\ UNCHANGED <<pc, state, fdVars, timer, runAsDaemon, mutex, process, failures>>

-----------------------------------------------------------------------------
Init ==
  /\ pc = "mutexInit" /\ runAsDaemon \in BOOLEAN /\ state = "INIT"
  /\ sfd = NoFd /\ registered = <<>> /\ open = {} /\ bound = {} /\ listening = {}
  /\ interrupted = FALSE /\ mutex = "none" /\ process = "first"
  /\ timer = NoTimer /\ failures = 0

MainStep ==
  \/ MutexInit \/ OpenFile \/ InstallHandlers \/ StartFails \/ Check
  \/ CreateServer \/ GetaddrinfoFails \/ SocketFails \/ BindFails
  \/ Fork \/ ForkFails \/ StayInForeground
  \/ CreateTimer \/ ArmTimer \/ TimerFails \/ Listen \/ ListenFails \/ Serve
  \/ DestroyMutex \/ DeleteTimer

Next == MainStep \/ Signal

Spec == Init /\ [][Next]_vars

\* The kernel runs the process.
FairSpec == Spec /\ WF_vars(MainStep)

-----------------------------------------------------------------------------
(* Properties.                                                             *)

\* The types, and that a state past INIT has a socket.
TypeOK ==
  /\ pc \in PCs
  /\ runAsDaemon \in BOOLEAN
  /\ state \in States
  /\ sfd \in Fds \cup {NoFd} /\ (state # "INIT" => sfd \in Fds)
  /\ registered \in Seq(Fds)
  /\ interrupted \in BOOLEAN
  /\ mutex \in {"none", "initialised", "destroyed"}
  /\ process \in {"first", "child"}
  /\ open \subseteq Fds /\ bound \subseteq Fds /\ listening \subseteq Fds
  /\ timer \in [of : {"nobody", "first", "child"}, is : {"none", "created", "armed"}]
  /\ failures \in 0 .. MaxFailures

\* Through every retry the loop's process has exactly the output file and, past
\* INIT, one socket open; both are in the collector, each once, and nothing else
\* is: no failed attempt leaves a descriptor behind or a closed one registered.
DescriptorsAccounted ==
  InLoop =>
    /\ Len(registered) = IF state = "INIT" THEN 1 ELSE 2
    /\ open = {registered[i] : i \in 1 .. Len(registered)}
    /\ Cardinality(open) = Len(registered)
    /\ state # "INIT" => registered[2] = sfd

\* The process that waits for connections is the one that should (the child of
\* a daemon), its socket is open, bound and listening, and the timer that is
\* armed belongs to it and not to the parent that has returned.
ReadyToAccept ==
  InLoop /\ state = "SOCK_WAITING_CONN" =>
    /\ process = IF runAsDaemon THEN "child" ELSE "first"
    /\ sfd \in open /\ bound = {sfd} /\ listening = {sfd}
    /\ timer = [of |-> process, is |-> "armed"]
    /\ mutex = "initialised"

\* When calls do not fail for ever, the retries end: the server waits for
\* connections, or main() has returned or crashed.
SetupEnds == <>(state = "SOCK_WAITING_CONN" \/ pc \in {"returned", "crashed"})
=============================================================================
