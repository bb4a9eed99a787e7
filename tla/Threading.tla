----------------------------- MODULE Threading -----------------------------
(***************************************************************************)
(* start_thread_obtaining_mutex and threadfunc                             *)
(* (examples/threading/threading.c), with the caller that threading.h      *)
(* describes: it may hold the mutex while threads start, and joins and     *)
(* frees them through what they return.                                    *)
(***************************************************************************)
EXTENDS FiniteSets

CONSTANTS
  Threads,  \* the calls of start_thread_obtaining_mutex, and their threads
  Caller,
  NoOne,    \* the mutex is free
  Faults    \* "malloc": no memory for thread_data; "create": pthread_create() fails

ASSUME ThreadingAssumption ==
  /\ {Caller, NoOne} \cap Threads = {} /\ Caller # NoOne
  /\ Faults \subseteq {"malloc", "create"}

VARIABLES
  pc,       \* pc[t]: "new", "obtain", "release", "complete", "returned", "joined" or
            \* "refused"
  data,     \* data[t], its thread_data: "none", "live" or "freed"
  success,  \* thread_complete_success, uninitialised until it is set
  mutex,    \* its holder
  turns,    \* the caller has not had the mutex yet, or has it: bounds its turns to one
  \* history, for the properties only
  held      \* the threads that have had the mutex and released it

vars == <<pc, data, success, mutex, turns, held>>

Move(t, l, m) == pc[t] = l /\ pc' = [pc EXCEPT ![t] = m]

-----------------------------------------------------------------------------
(* start_thread_obtaining_mutex                                            *)

\* malloc() leaves thread_complete_success with any value.
Start(t) ==
  /\ Move(t, "new", "obtain")
  /\ data' = [data EXCEPT ![t] = "live"]
  /\ \E garbage \in BOOLEAN : success' = [success EXCEPT ![t] = garbage]
  /\ UNCHANGED <<mutex, turns, held>>

MallocFails(t) ==
  /\ Move(t, "new", "refused") /\ "malloc" \in Faults
  /\ UNCHANGED <<data, success, mutex, turns, held>>

\* Nobody has the address of thread_data any more.
CreateFails(t) ==
  /\ Move(t, "new", "refused") /\ "create" \in Faults
  /\ data' = [data EXCEPT ![t] = "live"]
  /\ UNCHANGED <<success, mutex, turns, held>>

-----------------------------------------------------------------------------
(* threadfunc                                                              *)

\* The first sleep, and pthread_mutex_lock().
Obtain(t) ==
  /\ Move(t, "obtain", "release")
  /\ mutex = NoOne /\ mutex' = t
  /\ UNCHANGED <<data, success, turns, held>>

\* Mutant: the thread returns with the mutex.
ReleaseNot(t) ==
  /\ Move(t, "release", "complete")
  /\ held' = held \cup {t}
  /\ UNCHANGED <<data, success, turns, mutex>>
\* The second sleep, and pthread_mutex_unlock().
Release(t) ==
  /\ Move(t, "release", "complete")
  /\ mutex' = NoOne /\ held' = held \cup {t}
  /\ UNCHANGED <<data, success, turns>>

\* Mutant: the flag is left as malloc() found it.
CompleteUnset(t) ==
  /\ Move(t, "complete", "returned")
  /\ UNCHANGED <<data, success, mutex, turns, held>>
\* Mutant: the thread frees what the joiner is to free.
CompleteFrees(t) ==
  /\ Move(t, "complete", "returned")
  /\ success' = [success EXCEPT ![t] = TRUE] /\ data' = [data EXCEPT ![t] = "freed"]
  /\ UNCHANGED <<mutex, turns, held>>
Complete(t) ==
  /\ Move(t, "complete", "returned")
  /\ success' = [success EXCEPT ![t] = TRUE]
  /\ UNCHANGED <<data, mutex, turns, held>>

-----------------------------------------------------------------------------
(* The caller, besides starting threads.                                   *)

Join(t) ==
  /\ Move(t, "returned", "joined")
  /\ data' = [data EXCEPT ![t] = "freed"]
  /\ UNCHANGED <<success, mutex, turns, held>>

CallerLocks ==
  /\ turns /\ mutex = NoOne /\ mutex' = Caller
  /\ UNCHANGED <<pc, data, success, turns, held>>

CallerUnlocks ==
  /\ mutex = Caller /\ mutex' = NoOne /\ turns' = FALSE
  /\ UNCHANGED <<pc, data, success, held>>

-----------------------------------------------------------------------------
Init ==
  /\ pc = [t \in Threads |-> "new"] /\ data = [t \in Threads |-> "none"]
  /\ success = [t \in Threads |-> FALSE]
  /\ mutex = NoOne /\ turns = TRUE /\ held = {}

ThreadStep(t) == Obtain(t) \/ Release(t) \/ Complete(t)
StartStep(t) == Start(t) \/ MallocFails(t) \/ CreateFails(t)

Next ==
  \/ \E t \in Threads : StartStep(t) \/ ThreadStep(t) \/ Join(t)
  \/ CallerLocks \/ CallerUnlocks

Spec == Init /\ [][Next]_vars

\* The sleeps end, the kernel runs the threads, and the caller does not keep the
\* mutex.  Weak fairness is enough for the mutex: each takes it once.
FairSpec ==
  /\ Spec /\ WF_vars(CallerUnlocks)
  /\ \A t \in Threads : WF_vars(ThreadStep(t))

-----------------------------------------------------------------------------
(* Properties.                                                             *)

TypeOK ==
  /\ pc \in [Threads -> {"new", "obtain", "release", "complete", "returned", "joined",
                         "refused"}]
  /\ data \in [Threads -> {"none", "live", "freed"}]
  /\ success \in [Threads -> BOOLEAN]
  /\ mutex \in {t \in Threads : pc[t] = "release"} \cup {Caller, NoOne}
  /\ turns \in BOOLEAN /\ held \subseteq Threads

\* What the joiner reads in thread_complete_success of a thread that has returned
\* is no left-over of malloc(): the thread has had the mutex, and nobody took it
\* from the thread that has it now.
SuccessMeansHeld ==
  /\ \A t \in Threads : pc[t] \in {"returned", "joined"} => success[t] /\ t \in held
  /\ \A t \in Threads : mutex = t <=> pc[t] = "release"

\* A thread works on its thread_data while that is allocated, and the joiner frees
\* it once.  The only blocks nobody will free are those of pthread_create() calls
\* that failed.
DataOutlivesThread ==
  \A t \in Threads :
    /\ pc[t] \in {"obtain", "release", "complete", "returned"} => data[t] = "live"
    /\ data[t] = "freed" <=> pc[t] = "joined"

\* A started thread returns, so that the join of it ends, however many threads and
\* the caller want the mutex.
StartedReturns == \A t \in Threads : pc[t] = "obtain" ~> pc[t] = "returned"
=============================================================================
