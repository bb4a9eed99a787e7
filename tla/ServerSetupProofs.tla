-------------------------- MODULE ServerSetupProofs --------------------------
(***************************************************************************)
(* Proofs about ServerSetup, for any number of failures and retries.       *)
(***************************************************************************)
EXTENDS ServerSetup, FiniteSetTheorems, TLAPS

Starting == {"mutexInit", "openFile", "sigaction"}

\* The descriptors of the process: the output file f and, past INIT, the socket.
Accounts ==
  \E f \in Fds :
    IF state = "INIT"
    THEN registered = <<f>> /\ open = {f}
    ELSE registered = <<f, sfd>> /\ open = {f, sfd} /\ f # sfd

\* What the place of main() says about its state.
PlaceFacts ==
  /\ pc \in {"mutexInit", "openFile"} => registered = <<>> /\ open = {}
  /\ pc \in Starting => state = "INIT"
  /\ pc \in {"createTimer", "armTimer"} => state = "SOCK_START_LISTENING"
  /\ InLoop \/ pc \in {"openFile", "sigaction"} => mutex = "initialised"
  /\ InLoop \/ pc = "sigaction" => Accounts

\* What the system state says about the kernel's view.
StateFacts ==
  /\ bound = IF state = "INIT" THEN {} ELSE {sfd}
  /\ listening = IF state = "SOCK_WAITING_CONN" THEN {sfd} ELSE {}
  /\ state \in {"SOCK_START_LISTENING", "SOCK_WAITING_CONN"} =>
       process = IF runAsDaemon THEN "child" ELSE "first"
  /\ state \in {"INIT", "SOCK_CREATED"} => process = "first"
  /\ pc = "armTimer" => timer = [of |-> process, is |-> "created"]
  /\ pc \in {"check", "step"} /\ state \in {"SOCK_START_LISTENING", "SOCK_WAITING_CONN"} =>
       timer = [of |-> process, is |-> "armed"]

SetupInv == TypeOK /\ PlaceFacts /\ StateFacts

LEMMA SetupInit == Init => SetupInv
<1> SUFFICES ASSUME Init PROVE SetupInv
  OBVIOUS
<1>1. <<>> \in Seq(Fds) /\ 0 \in 0 .. MaxFailures
  BY SetupAssumption
<1>2. TypeOK
  BY <1>1 DEF Init, TypeOK, PCs, States, NoTimer
<1>3. PlaceFacts /\ StateFacts
  BY DEF Init, PlaceFacts, StateFacts, Starting, InLoop
<1> QED BY <1>2, <1>3 DEF SetupInv

LEMMA FailureCounted ==
  ASSUME failures \in 0 .. MaxFailures, Fails
  PROVE  failures' \in 0 .. MaxFailures
BY SetupAssumption DEF Fails

\* An array of at most two descriptors always has room for one more below its end.
LEMMA RegisterAppends ==
  ASSUME NEW fd \in Fds, registered \in Seq(Fds), Len(registered) <= 1, Register(fd)
  PROVE  registered' = Append(registered, fd)
BY SetupAssumption DEF Register

LEMMA SetupTypeStep ==
  ASSUME SetupInv, [Next]_vars
  PROVE  TypeOK'
<1> USE DEF SetupInv, TypeOK, fdVars, procVars, Goto, Retry, PCs, States
<1>1. CASE MutexInit \/ InstallHandlers \/ Check
  BY <1>1 DEF MutexInit, InstallHandlers, Check
<1>2. CASE StartFails
  BY <1>2, FailureCounted DEF StartFails
<1>3. CASE OpenFile
  <2>1. registered' \in Seq(Fds)
    BY <1>3 DEF OpenFile, Register
  <2> QED BY <1>3, <2>1 DEF OpenFile
<1>4. CASE CreateServer
  <2>1. registered' \in Seq(Fds)
    BY <1>4 DEF CreateServer, Register
  <2> QED BY <1>4, <2>1 DEF CreateServer, In
<1>5. CASE GetaddrinfoFails \/ ForkFails \/ ListenFails
  BY <1>5, FailureCounted DEF GetaddrinfoFails, ForkFails, ListenFails, In
<1>6. CASE SocketFails
  BY <1>6, FailureCounted DEF SocketFails, In
<1>7. CASE BindFails
  BY <1>7, FailureCounted DEF BindFails, In, CloseOnError
<1>8. CASE Fork \/ StayInForeground
  BY <1>8 DEF Fork, StayInForeground, NoTimer, In
<1>9. CASE CreateTimer
  BY <1>9 DEF CreateTimer
<1>10. CASE ArmTimer
  <2>1. timer' = [timer EXCEPT !.is = "armed"]
    BY <1>10 DEF ArmTimer
  <2>2. timer' \in [of : {"nobody", "first", "child"}, is : {"none", "created", "armed"}]
    BY <2>1
  <2> QED BY <1>10, <2>2 DEF ArmTimer
<1>11. CASE TimerFails
  BY <1>11, FailureCounted DEF TimerFails, NoTimer
<1>12. CASE Listen
  BY <1>12 DEF Listen, In
<1>13. CASE Serve \/ DestroyMutex \/ Signal
  BY <1>13 DEF Serve, DestroyMutex, Signal, In
<1>14. CASE DeleteTimer
  BY <1>14 DEF DeleteTimer, NoTimer
<1>15. CASE UNCHANGED vars
  BY <1>15 DEF vars
<1> QED BY <1>1, <1>2, <1>3, <1>4, <1>5, <1>6, <1>7, <1>8, <1>9, <1>10, <1>11, <1>12, <1>13, <1>14,
           <1>15 DEF Next, MainStep

LEMMA PlaceStep ==
  ASSUME SetupInv, [Next]_vars
  PROVE  PlaceFacts'
<1> USE DEF SetupInv, TypeOK, PlaceFacts, Starting, InLoop, fdVars, procVars, Goto, Retry, Accounts
<1>1. CASE MutexInit \/ InstallHandlers \/ StartFails \/ Check
  BY <1>1 DEF MutexInit, InstallHandlers, StartFails, Check
<1>2. CASE OpenFile
  <2>1. PICK fd \in Fds \ open : open' = open \cup {fd} /\ Register(fd)
    BY <1>2 DEF OpenFile
  <2>2. registered = <<>> /\ open = {} /\ state = "INIT"
    BY <1>2 DEF OpenFile
  <2>3. registered' = <<fd>> /\ open' = {fd}
    BY <2>1, <2>2, RegisterAppends
  <2> QED BY <1>2, <2>2, <2>3 DEF OpenFile
<1>3. CASE CreateServer
  <2>1. PICK fd \in Fds \ open : sfd' = fd /\ open' = open \cup {fd} /\ Register(fd)
    BY <1>3 DEF CreateServer
  <2>2. state = "INIT" /\ state' = "SOCK_CREATED" /\ pc' = "check" /\ mutex' = "initialised"
    BY <1>3 DEF CreateServer, In
  <2>3. PICK f \in Fds : registered = <<f>> /\ open = {f}
    BY <1>3, <2>2 DEF CreateServer, In
  <2>4. registered' = <<f, fd>>
    BY <2>1, <2>3, RegisterAppends
  <2>5. Accounts'
    BY <2>1, <2>2, <2>3, <2>4
  <2> QED BY <2>2, <2>5
<1>4. CASE GetaddrinfoFails \/ SocketFails \/ ForkFails \/ ListenFails
  BY <1>4 DEF GetaddrinfoFails, SocketFails, ForkFails, ListenFails, In
<1>5. CASE BindFails
  <2>1. open' = open /\ state = "INIT" /\ state' = "INIT" /\ registered' = registered
        /\ pc = "step" /\ pc' = "check" /\ mutex' = mutex
    BY <1>5 DEF BindFails, In, CloseOnError
  <2> QED BY <2>1
<1>6. CASE Fork \/ StayInForeground \/ CreateTimer \/ ArmTimer \/ TimerFails \/ Listen
  BY <1>6 DEF Fork, StayInForeground, CreateTimer, ArmTimer, TimerFails, Listen, In
<1>7. CASE Serve \/ DestroyMutex \/ DeleteTimer \/ Signal
  BY <1>7 DEF Serve, DestroyMutex, DeleteTimer, Signal, In
<1>8. CASE UNCHANGED vars
  BY <1>8 DEF vars
<1> QED BY <1>1, <1>2, <1>3, <1>4, <1>5, <1>6, <1>7, <1>8 DEF Next, MainStep

LEMMA StateStep ==
  ASSUME SetupInv, [Next]_vars
  PROVE  StateFacts'
<1> USE DEF SetupInv, TypeOK, PlaceFacts, StateFacts, Starting, fdVars, procVars, Goto, Retry, States
<1>1. CASE MutexInit \/ OpenFile \/ InstallHandlers \/ StartFails \/ Check
  BY <1>1 DEF MutexInit, OpenFile, InstallHandlers, StartFails, Check
<1>2. CASE CreateServer
  BY <1>2 DEF CreateServer, In
<1>3. CASE GetaddrinfoFails \/ SocketFails \/ BindFails \/ ForkFails \/ ListenFails
  BY <1>3 DEF GetaddrinfoFails, SocketFails, BindFails, ForkFails, ListenFails, In
<1>4. CASE Fork \/ StayInForeground
  BY <1>4 DEF Fork, StayInForeground, In
<1>5. CASE CreateTimer \/ ArmTimer \/ TimerFails \/ Listen
  BY <1>5 DEF CreateTimer, ArmTimer, TimerFails, Listen, In
<1>6. CASE Serve \/ DestroyMutex \/ DeleteTimer \/ Signal
  BY <1>6 DEF Serve, DestroyMutex, DeleteTimer, Signal, In
<1>7. CASE UNCHANGED vars
  BY <1>7 DEF vars
<1> QED BY <1>1, <1>2, <1>3, <1>4, <1>5, <1>6, <1>7 DEF Next, MainStep

LEMMA SetupInvariant == Spec => []SetupInv
<1>1. SetupInv /\ [Next]_vars => SetupInv'
  BY SetupTypeStep, PlaceStep, StateStep DEF SetupInv
<1> QED BY SetupInit, <1>1, PTL DEF Spec

\* The set-up keeps its types, and a state past INIT has a socket.
THEOREM SetupTypeCorrect == Spec => []TypeOK
<1>1. SetupInv => TypeOK
  BY DEF SetupInv
<1> QED BY SetupInvariant, <1>1, PTL

\* However often a step of the set-up fails and is tried again, the loop's
\* process holds the output file and at most one socket, both registered.
THEOREM NoDescriptorLost == Spec => []DescriptorsAccounted
<1>1. SetupInv => DescriptorsAccounted
  <2> SUFFICES ASSUME SetupInv, InLoop PROVE DescriptorsAccounted
    BY DEF DescriptorsAccounted
  <2>1. PICK f \in Fds : IF state = "INIT"
                         THEN registered = <<f>> /\ open = {f}
                         ELSE registered = <<f, sfd>> /\ open = {f, sfd} /\ f # sfd
    BY DEF SetupInv, PlaceFacts, Accounts
  <2>2. CASE state = "INIT"
    <3>1. Len(registered) = 1 /\ open = {registered[i] : i \in 1 .. 1}
      BY <2>1, <2>2
    <3>2. Cardinality(open) = 1
      BY <2>1, <2>2, FS_Singleton
    <3> QED BY <2>2, <3>1, <3>2 DEF DescriptorsAccounted
  <2>3. CASE state # "INIT"
    <3>1. Len(registered) = 2 /\ registered[1] = f /\ registered[2] = sfd
      BY <2>1, <2>3
    <3>2. open = {registered[i] : i \in 1 .. 2}
      BY <2>1, <2>3, <3>1
    <3>3. Cardinality({f}) = 1 /\ IsFiniteSet({f})
      BY FS_Singleton
    <3>4. open = {f} \cup {sfd} /\ sfd \notin {f}
      BY <2>1, <2>3
    <3>5. Cardinality(open) = 2
      BY <3>3, <3>4, FS_AddElement
    <3> QED BY <2>3, <3>1, <3>2, <3>5 DEF DescriptorsAccounted
  <2> QED BY <2>2, <2>3
<1> QED BY SetupInvariant, <1>1, PTL

\* The process that waits for connections is the right one, with its socket
\* bound and listening and its own timer armed.
THEOREM ReadyWhenWaiting == Spec => []ReadyToAccept
<1>1. SetupInv => ReadyToAccept
  <2> SUFFICES ASSUME SetupInv, InLoop, state = "SOCK_WAITING_CONN" PROVE ReadyToAccept
    BY DEF ReadyToAccept
  <2>1. pc \in {"check", "step"}
    BY DEF InLoop, SetupInv, PlaceFacts
  <2>2. sfd \in open /\ mutex = "initialised"
    BY DEF SetupInv, PlaceFacts, Accounts
  <2> QED BY <2>1, <2>2 DEF SetupInv, StateFacts, ReadyToAccept
<1> QED BY SetupInvariant, <1>1, PTL

(***************************************************************************)
(* How long the set-up takes.  A round that succeeds ends in a later       *)
(* state, and one that fails uses up a failure.                            *)
(***************************************************************************)

\* The steps from here to the first accept(), or to the return of main(), when no
\* call fails.
RoundsToGo == IF state = "INIT" THEN 6 ELSE IF state = "SOCK_CREATED" THEN 4 ELSE 0
ToGo ==
  CASE pc = "mutexInit"   -> 13
    [] pc = "openFile"    -> 12
    [] pc = "sigaction"   -> 11
    [] pc = "check"       -> 4 + RoundsToGo
    [] pc = "step"        -> 3 + RoundsToGo
    [] pc = "createTimer" -> 6
    [] pc = "armTimer"    -> 5
    [] pc = "destroy"     -> 2
    [] pc = "deleteTimer" -> 1
    [] OTHER              -> 0

\* A round that fails is one of two steps; the signal may come once.
SignalsToCome == IF interrupted THEN 0 ELSE 1
StepsLeft == ToGo + 2 * (MaxFailures - failures) + SignalsToCome

\* A failure more is worth one step back.
LEMMA FailurePays ==
  ASSUME NEW a \in Nat, NEW b \in Nat, NEW f \in 0 .. MaxFailures, NEW g \in 0 .. MaxFailures,
         NEW s \in 0 .. 1, NEW t \in 0 .. 1,
         \/ g = f /\ b < a /\ t = s
         \/ g = f /\ b = a /\ t < s
         \/ g = f + 1 /\ b <= a + 1 /\ t = s
  PROVE  b + 2 * (MaxFailures - g) + t \in 0 .. (a + 2 * (MaxFailures - f) + s) - 1
BY SetupAssumption

\* Each step leaves fewer, and never less than none.
SetupGoesOn == [][state' # "SOCK_WAITING_CONN" => StepsLeft' \in 0 .. StepsLeft - 1]_vars

\* Until it waits for connections main() (main.c:128-271) has a bound on its steps:
\* no call that fails sends it back without having used up a failure.  It is what
\* SetupEnds says, the fairness left aside, for any number of failures.
THEOREM SetupTakesBoundedSteps == Spec => SetupGoesOn
<1>1. SetupInv /\ [Next]_vars /\ SetupInv' =>
        [state' # "SOCK_WAITING_CONN" => StepsLeft' \in 0 .. StepsLeft - 1]_vars
  <2> SUFFICES ASSUME SetupInv, Next, SetupInv', state' # "SOCK_WAITING_CONN"
               PROVE  StepsLeft' \in 0 .. StepsLeft - 1
    OBVIOUS
  <2> USE DEF fdVars, procVars, Goto, Retry, In
  <2>ty. /\ failures \in 0 .. MaxFailures /\ failures' \in 0 .. MaxFailures
         /\ MaxFailures \in Nat
    BY SetupAssumption DEF SetupInv, TypeOK
  <2>sig. /\ SignalsToCome \in 0 .. 1 /\ SignalsToCome' \in 0 .. 1
          /\ UNCHANGED interrupted => UNCHANGED SignalsToCome
    BY DEF SignalsToCome
  <2>to. ASSUME UNCHANGED <<failures, interrupted>>, ToGo' < ToGo, ToGo \in Nat, ToGo' \in Nat
         PROVE  StepsLeft' \in 0 .. StepsLeft - 1
    <3>1. failures' = failures /\ SignalsToCome' = SignalsToCome
      BY <2>to, <2>sig
    <3> QED BY <3>1, <2>to, <2>sig, <2>ty, FailurePays DEF StepsLeft
  <2>back. ASSUME Fails, UNCHANGED interrupted, ToGo' <= ToGo + 1, ToGo \in Nat, ToGo' \in Nat
           PROVE  StepsLeft' \in 0 .. StepsLeft - 1
    <3>1. failures' = failures + 1 /\ SignalsToCome' = SignalsToCome
      BY <2>back, <2>sig DEF Fails
    <3> QED BY <3>1, <2>back, <2>sig, <2>ty, FailurePays DEF StepsLeft
  <2>nat. ToGo \in Nat /\ ToGo' \in Nat
    BY DEF ToGo, RoundsToGo
  <2>1. CASE MutexInit \/ OpenFile \/ InstallHandlers \/ Check
    <3>1. UNCHANGED <<failures, interrupted>> /\ ToGo' < ToGo
      BY <2>1 DEF MutexInit, OpenFile, InstallHandlers, Check, ToGo, RoundsToGo
    <3> QED BY <3>1, <2>to, <2>nat
  <2>2. CASE StartFails \/ GetaddrinfoFails \/ TimerFails
    <3>1. Fails /\ UNCHANGED interrupted /\ ToGo' = 0
      BY <2>2 DEF StartFails, GetaddrinfoFails, TimerFails, ToGo
    <3> QED BY <3>1, <2>back, <2>nat
  <2>3. CASE SocketFails \/ BindFails \/ ForkFails \/ ListenFails
    <3>1. Fails /\ UNCHANGED <<interrupted, state>> /\ pc = "step" /\ pc' = "check"
      BY <2>3 DEF SocketFails, BindFails, ForkFails, ListenFails
    <3>2. ToGo' = ToGo + 1
      BY <3>1 DEF ToGo, RoundsToGo
    <3> QED BY <3>1, <3>2, <2>back, <2>nat
  <2>4. CASE CreateServer \/ Fork \/ StayInForeground
    <3>1. UNCHANGED <<failures, interrupted>> /\ ToGo' < ToGo
      BY <2>4 DEF CreateServer, Fork, StayInForeground, ToGo, RoundsToGo
    <3> QED BY <3>1, <2>to, <2>nat
  <2>5. CASE CreateTimer \/ ArmTimer
    <3>1. UNCHANGED <<failures, interrupted>> /\ ToGo' < ToGo
      BY <2>5 DEF CreateTimer, ArmTimer, SetupInv, PlaceFacts, ToGo, RoundsToGo
    <3> QED BY <3>1, <2>to, <2>nat
  <2>6. CASE DestroyMutex \/ DeleteTimer
    <3>1. UNCHANGED <<failures, interrupted>> /\ ToGo' < ToGo
      BY <2>6 DEF DestroyMutex, DeleteTimer, ToGo
    <3> QED BY <3>1, <2>to, <2>nat
  <2>7. CASE Signal
    <3>1. failures' = failures /\ ToGo' = ToGo
      BY <2>7 DEF Signal, ToGo, RoundsToGo
    <3>2. SignalsToCome = 1 /\ SignalsToCome' = 0
      BY <2>7 DEF Signal, SignalsToCome
    <3> QED BY <3>1, <3>2, <2>nat, <2>ty, FailurePays DEF StepsLeft
  <2>8. ~Listen /\ ~Serve
    BY DEF Listen, Serve
  <2> QED BY <2>1, <2>2, <2>3, <2>4, <2>5, <2>6, <2>7, <2>8 DEF Next, MainStep
<1> QED BY <1>1, SetupInvariant, PTL DEF Spec, SetupGoesOn
=============================================================================
