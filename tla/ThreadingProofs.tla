-------------------------- MODULE ThreadingProofs --------------------------
(***************************************************************************)
(* Proofs about Threading for any number of threads.                       *)
(***************************************************************************)
EXTENDS Threading, TLAPS

\* A thread has had the mutex once it is past releasing it.
Past == \A t \in Threads : pc[t] \in {"complete", "returned", "joined"} => t \in held

ThreadingInv == TypeOK /\ SuccessMeansHeld /\ DataOutlivesThread /\ Past

\* The initial state has the invariant.
LEMMA ThreadingInit == Init => ThreadingInv
BY ThreadingAssumption
   DEF Init, ThreadingInv, TypeOK, SuccessMeansHeld, DataOutlivesThread, Past

\* A step of one thread, or of the call that starts it, keeps the invariant.
LEMMA ThreadKeepsInv ==
  ASSUME ThreadingInv, NEW t \in Threads, StartStep(t) \/ ThreadStep(t) \/ Join(t)
  PROVE  ThreadingInv'
<1> USE ThreadingAssumption DEF ThreadingInv, Move
<1>1. CASE Start(t)
  <2>1. TypeOK'
    BY <1>1 DEF Start, TypeOK
  <2>2. SuccessMeansHeld' /\ DataOutlivesThread' /\ Past'
    BY <1>1 DEF Start, TypeOK, SuccessMeansHeld, DataOutlivesThread, Past
  <2> QED BY <2>1, <2>2
<1>2. CASE MallocFails(t) \/ CreateFails(t)
  <2>1. TypeOK'
    BY <1>2 DEF MallocFails, CreateFails, TypeOK
  <2>2. SuccessMeansHeld' /\ DataOutlivesThread' /\ Past'
    BY <1>2 DEF MallocFails, CreateFails, TypeOK, SuccessMeansHeld, DataOutlivesThread, Past
  <2> QED BY <2>1, <2>2
<1>3. CASE Obtain(t)
  <2>1. TypeOK'
    BY <1>3 DEF Obtain, TypeOK
  <2>2. SuccessMeansHeld' /\ DataOutlivesThread' /\ Past'
    BY <1>3 DEF Obtain, TypeOK, SuccessMeansHeld, DataOutlivesThread, Past
  <2> QED BY <2>1, <2>2
<1>4. CASE Release(t)
  <2>1. TypeOK'
    BY <1>4 DEF Release, TypeOK
  <2>2. SuccessMeansHeld' /\ DataOutlivesThread' /\ Past'
    BY <1>4 DEF Release, TypeOK, SuccessMeansHeld, DataOutlivesThread, Past
  <2> QED BY <2>1, <2>2
<1>5. CASE Complete(t)
  <2>1. TypeOK'
    BY <1>5 DEF Complete, TypeOK
  <2>2. SuccessMeansHeld' /\ DataOutlivesThread' /\ Past'
    BY <1>5 DEF Complete, TypeOK, SuccessMeansHeld, DataOutlivesThread, Past
  <2> QED BY <2>1, <2>2
<1>6. CASE Join(t)
  <2>1. TypeOK'
    BY <1>6 DEF Join, TypeOK
  <2>2. SuccessMeansHeld' /\ DataOutlivesThread' /\ Past'
    BY <1>6 DEF Join, TypeOK, SuccessMeansHeld, DataOutlivesThread, Past
  <2> QED BY <2>1, <2>2
<1> QED BY <1>1, <1>2, <1>3, <1>4, <1>5, <1>6 DEF StartStep, ThreadStep

\* So do the caller's turn and a stuttering step.
LEMMA CallerKeepsInv ==
  ASSUME ThreadingInv, CallerLocks \/ CallerUnlocks \/ UNCHANGED vars
  PROVE  ThreadingInv'
<1> USE ThreadingAssumption DEF ThreadingInv, CallerLocks, CallerUnlocks, vars
<1>1. TypeOK'
  BY DEF TypeOK
<1>2. SuccessMeansHeld'
  BY DEF TypeOK, SuccessMeansHeld
<1>3. DataOutlivesThread' /\ Past'
  BY DEF DataOutlivesThread, Past
<1> QED BY <1>1, <1>2, <1>3

LEMMA ThreadingInvariant == Spec => []ThreadingInv
<1>1. ThreadingInv /\ [Next]_vars => ThreadingInv'
  BY ThreadKeepsInv, CallerKeepsInv DEF Next
<1> QED BY ThreadingInit, <1>1, PTL DEF Spec

\* Mutual exclusion, and a thread_complete_success (threading.c:27) that means
\* what it says by the time the thread can be joined.
THEOREM JoinerReadsTruth == Spec => []SuccessMeansHeld
<1>1. ThreadingInv => SuccessMeansHeld
  BY DEF ThreadingInv
<1> QED BY ThreadingInvariant, <1>1, PTL

\* thread_data (threading.c:44-58) is never used after it was freed.
THEOREM DataLivesLongEnough == Spec => []DataOutlivesThread
<1>1. ThreadingInv => DataOutlivesThread
  BY DEF ThreadingInv
<1> QED BY ThreadingInvariant, <1>1, PTL
\* The mutex of threading.c:20-24 is free, the caller's, or that of a thread between
\* its lock and its unlock.
THEOREM ThreadingTypeCorrect == Spec => []TypeOK
<1>1. ThreadingInv => TypeOK
  BY DEF ThreadingInv
<1> QED BY ThreadingInvariant, <1>1, PTL
=============================================================================
