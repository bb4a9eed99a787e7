------------------------- MODULE SystemCallsProofs -------------------------
(***************************************************************************)
(* Proofs about SystemCalls for any number of calls and any set of faults. *)
(***************************************************************************)
EXTENDS SystemCalls, TLAPS

(***************************************************************************)
(* The invariant: a call that was not made has left no trace, the call in  *)
(* progress has not returned yet and, before its fork(), has no child; and *)
(* the command of a call has not run before its execv().                   *)
(***************************************************************************)

Untouched(n) == n \notin ran /\ ~Unwaited(n) /\ child[n] = "none" /\ returns[n] = {}

CallFacts ==
  /\ \A n \in Calls : n > call => Untouched(n)
  /\ pc # "idle" => call \in Calls /\ returns[call] = {}
  /\ pc \in {"system", "fork"} => Untouched(call)
  /\ pc = "system" => kind[call] = "system"
  /\ pc = "fork" => kind[call] # "system"
  /\ pc = "wait" => child[call] \notin {"none", "reaped"}

ChildFacts ==
  \A n \in Calls :
    /\ child[n] \in {"open", "dup", "execv"} => n \notin ran
    /\ child[n] = "running" => n \in ran
    /\ child[n] \in {"zombie", "reaped"} => (status[n] = "zero" => n \in ran)
    /\ kind[n] = "system" => child[n] = "none"

CallsInv == TypeOK /\ CallFacts /\ ChildFacts /\ CallerReturnsOnce /\ ResultIsChilds

\* The initial state has the invariant.
LEMMA CallsInit == Init => CallsInv
<1> SUFFICES ASSUME Init PROVE CallsInv
  OBVIOUS
<1> USE CallsAssumption DEF Init, Calls
<1>1. TypeOK
  BY DEF TypeOK
<1>2. CallFacts /\ ChildFacts
  BY DEF CallFacts, Untouched, ChildFacts, Unwaited
<1>3. CallerReturnsOnce /\ ResultIsChilds
  BY DEF CallerReturnsOnce, ResultIsChilds
<1> QED BY <1>1, <1>2, <1>3 DEF CallsInv

\* A step that lets the call in progress return, with a value that says how its
\* child ended unless none was waited for, keeps the invariant.
LEMMA ReturnKeepsInv ==
  ASSUME CallsInv, pc # "idle", NEW value \in BOOLEAN, Return(value),
         ran \subseteq ran' /\ ran' \subseteq ran \cup {call},
         failed' \subseteq Calls \X FaultNames,
         \A n \in Calls \ {call} : Unwaited(n)' <=> Unwaited(n),
         child' \in [Calls -> {"none", "open", "dup", "execv", "running", "zombie", "reaped"}],
         status' \in [Calls -> {"none", "zero", "nonzero", "killed"}],
         \A n \in Calls \ {call} : child'[n] = child[n] /\ status'[n] = status[n],
         child'[call] = "reaped" \/ kind[call] = "system" \/ Unwaited(call)',
         \/ value <=> call \in ran' /\ status'[call] = "zero"
         \/ Unwaited(call)' /\ child'[call] # "reaped",
         child'[call] \in {"open", "dup", "execv"} => call \notin ran',
         child'[call] = "running" => call \in ran',
         child'[call] \in {"zombie", "reaped"} => (status'[call] = "zero" => call \in ran'),
         kind[call] = "system" => child'[call] = "none",
         UNCHANGED <<own, call, kind, out>>
  PROVE  CallsInv'
<1>inv. /\ TypeOK /\ CallFacts /\ ChildFacts /\ CallerReturnsOnce /\ ResultIsChilds
        /\ call \in Calls /\ returns[call] = {}
  BY DEF CallsInv, CallFacts
<1>1. /\ pc' = "idle" /\ returns' \in [Calls -> SUBSET ({"caller", "child"} \X BOOLEAN)]
      /\ returns'[call] = {<<"caller", value>>}
      /\ \A n \in Calls \ {call} : returns'[n] = returns[n]
  <2>1. returns' = [returns EXCEPT ![call] = {<<"caller", value>>}]
    BY <1>inv DEF Return
  <2>2. returns \in [Calls -> SUBSET ({"caller", "child"} \X BOOLEAN)]
    BY <1>inv DEF TypeOK
  <2> QED BY <1>inv, <2>1, <2>2 DEF Return
<1>2. TypeOK'
  BY <1>inv, <1>1 DEF TypeOK, Calls
<1>3. CallFacts'
  <2>1. ASSUME NEW n \in Calls, n > call PROVE Untouched(n)'
    <3>1. Untouched(n) /\ n # call
      BY <1>inv, <2>1 DEF CallFacts, Calls
    <3> QED BY <1>1, <3>1 DEF Untouched
  <2> QED BY <1>inv, <1>1, <2>1 DEF CallFacts, Calls
<1>4. ChildFacts'
  <2> SUFFICES ASSUME NEW n \in Calls
               PROVE  /\ child'[n] \in {"open", "dup", "execv"} => n \notin ran'
                      /\ child'[n] = "running" => n \in ran'
                      /\ child'[n] \in {"zombie", "reaped"} => (status'[n] = "zero" => n \in ran')
                      /\ kind[n] = "system" => child'[n] = "none"
    BY DEF ChildFacts, Calls
  <2>1. CASE n = call
    BY <2>1
  <2>2. CASE n # call
    BY <1>inv, <2>2 DEF ChildFacts
  <2> QED BY <2>1, <2>2
<1>5. CallerReturnsOnce'
  <2> SUFFICES ASSUME NEW n \in Calls
               PROVE  /\ \A r \in returns'[n] : r[1] = "caller"
                      /\ \A r1, r2 \in returns'[n] : r1 = r2
                      /\ returns'[n] # {} =>
                           child'[n] = "reaped" \/ kind[n] = "system" \/ Unwaited(n)'
    BY DEF CallerReturnsOnce, Calls
  <2>1. CASE n = call
    BY <1>1, <2>1
  <2>2. CASE n # call
    BY <1>inv, <1>1, <2>2 DEF CallerReturnsOnce
  <2> QED BY <2>1, <2>2
<1>6. ResultIsChilds'
  <2> SUFFICES ASSUME NEW n \in Calls, NEW v \in BOOLEAN, <<"caller", v>> \in returns'[n]
               PROVE  \/ v <=> n \in ran' /\ status'[n] = "zero"
                      \/ Unwaited(n)' /\ child'[n] # "reaped"
    BY DEF ResultIsChilds, Calls
  <2>1. CASE n = call
    <3>1. <<"caller", v>> = <<"caller", value>>
      BY <1>1, <2>1
    <3>2. v = value
      BY <3>1
    <3> QED BY <2>1, <3>2
  <2>2. CASE n # call
    <3>1. \/ v <=> n \in ran /\ status[n] = "zero"
          \/ Unwaited(n) /\ child[n] # "reaped"
      BY <1>inv, <1>1, <2>2 DEF ResultIsChilds
    <3>2. (n \in ran' <=> n \in ran) /\ (Unwaited(n)' <=> Unwaited(n))
      BY <2>2
    <3> QED BY <2>2, <3>1, <3>2
  <2> QED BY <2>1, <2>2
<1> QED BY <1>2, <1>3, <1>4, <1>5, <1>6 DEF CallsInv

\* Every step of the caller keeps the invariant.
LEMMA CallerKeepsInv ==
  ASSUME CallsInv,
         \/ \E k \in {"system", "exec", "redirect"} : Call(k)
         \/ CallerStep \/ ForkFails \/ WaitFails
  PROVE  CallsInv'
<1>inv. TypeOK /\ CallFacts /\ ChildFacts /\ CallerReturnsOnce /\ ResultIsChilds
  BY DEF CallsInv
<1>1. ASSUME NEW k \in {"system", "exec", "redirect"}, Call(k) PROVE CallsInv'
  <2>1. call' \in Calls /\ call' = call + 1 /\ call \in Nat
    BY <1>inv, <1>1, CallsAssumption DEF Call, TypeOK, Calls
  <2>2. TypeOK'
    BY <1>inv, <1>1, <2>1 DEF Call, TypeOK, Calls
  <2>3. CallFacts'
    BY <1>inv, <1>1, <2>1 DEF Call, CallFacts, Untouched, Unwaited, TypeOK, Calls
  <2>4. ResultIsChilds'
    BY <1>inv, <1>1 DEF Call, ResultIsChilds, Unwaited, Calls
  <2>7. child[call'] = "none" /\ \A n \in Calls : n # call' => kind'[n] = kind[n]
    BY <1>inv, <1>1, <2>1 DEF Call, CallFacts, Untouched, TypeOK
  <2>8. ChildFacts'
    BY <1>inv, <1>1, <2>7 DEF Call, ChildFacts, Calls
  <2>5. ASSUME NEW n \in Calls, returns'[n] # {}
        PROVE  child'[n] = "reaped" \/ kind'[n] = "system" \/ Unwaited(n)'
    <3>1. n # call' /\ returns[n] # {}
      BY <1>inv, <1>1, <2>1, <2>5 DEF Call, CallFacts, Untouched, TypeOK
    <3> QED BY <1>inv, <1>1, <2>7, <3>1 DEF Call, CallerReturnsOnce, Unwaited
  <2>6. CallerReturnsOnce'
    BY <1>inv, <1>1, <2>5 DEF Call, CallerReturnsOnce, Calls
  <2> QED BY <2>2, <2>3, <2>4, <2>6, <2>8 DEF CallsInv
<1>2. CASE System
  <2>1. /\ pc # "idle" /\ call \in Calls /\ call \notin ran /\ kind[call] = "system"
        /\ child[call] = "none"
    BY <1>2, <1>inv DEF System, CallFacts, Untouched
  <2>2. PICK value \in BOOLEAN :
          /\ Return(value)
          /\ \/ value /\ ran' = ran \cup {call} /\ status' = [status EXCEPT ![call] = "zero"]
                /\ UNCHANGED failed
             \/ ~value /\ status' = [status EXCEPT ![call] = "nonzero"] /\ UNCHANGED <<ran, failed>>
             \/ ~value /\ Fails(call, "fork") /\ UNCHANGED <<ran, status>>
    BY <1>2 DEF System
  <2>3. UNCHANGED <<own, call, kind, child, out>>
    BY <1>2 DEF System
  <2>4. status' \in [Calls -> {"none", "zero", "nonzero", "killed"}]
    BY <1>inv, <2>2 DEF TypeOK
  <2>5. child' \in [Calls -> {"none", "open", "dup", "execv", "running", "zombie", "reaped"}]
    BY <1>inv, <2>3 DEF TypeOK
  <2>6. \A n \in Calls \ {call} : child'[n] = child[n] /\ status'[n] = status[n]
    BY <1>inv, <2>2, <2>3 DEF TypeOK
  <2>7. /\ ran \subseteq ran' /\ ran' \subseteq ran \cup {call}
        /\ failed' \subseteq Calls \X FaultNames
    BY <1>inv, <2>1, <2>2 DEF Fails, FaultNames, TypeOK
  <2>9. \A n \in Calls \ {call} : Unwaited(n)' <=> Unwaited(n)
    BY <2>2 DEF Fails, Unwaited
  <2>8. value <=> call \in ran' /\ status'[call] = "zero"
    BY <1>inv, <2>1, <2>2 DEF TypeOK
  <2> QED BY <2>1, <2>2, <2>3, <2>4, <2>5, <2>6, <2>7, <2>8, <2>9, ReturnKeepsInv
<1>3. CASE Fork
  <2>1. /\ pc = "fork" /\ pc' = "wait" /\ call \in Calls /\ Untouched(call)
        /\ UNCHANGED <<own, call, kind, returns, status, ran, failed>>
    BY <1>3, <1>inv DEF Fork, CallFacts
  <2>2. PICK start \in {"open", "execv"} : child' = [child EXCEPT ![call] = start]
    BY <1>3 DEF Fork
  <2>3. TypeOK'
    BY <1>3, <1>inv, <2>1, <2>2 DEF Fork, TypeOK
  <2>4. CallFacts'
    BY <1>inv, <2>1, <2>2 DEF CallFacts, Untouched, Unwaited, TypeOK, Calls
  <2>5. CallerReturnsOnce' /\ ResultIsChilds'
    BY <1>inv, <2>1, <2>2 DEF CallerReturnsOnce, ResultIsChilds, Untouched, Unwaited, TypeOK
  <2>6. kind[call] # "system"
    BY <1>inv, <2>1 DEF CallFacts
  <2>7. ChildFacts'
    BY <1>inv, <2>1, <2>2, <2>6 DEF ChildFacts, Untouched, TypeOK
  <2> QED BY <2>3, <2>4, <2>5, <2>7 DEF CallsInv
<1>4. CASE ForkFails
  <2>1. pc # "idle" /\ call \in Calls /\ call \notin ran /\ child[call] = "none"
    BY <1>4, <1>inv DEF ForkFails, CallFacts, Untouched
  <2>2. /\ Return(kind[call] = "exec") /\ Fails(call, "fork")
        /\ UNCHANGED <<own, call, kind, child, status, out, ran>>
    BY <1>4 DEF ForkFails
  <2>3. (kind[call] = "exec") \in BOOLEAN
    OBVIOUS
  <2>4. /\ \A n \in Calls \ {call} : Unwaited(n)' <=> Unwaited(n)
        /\ Unwaited(call)' /\ failed' \subseteq Calls \X FaultNames
    BY <1>inv, <2>1, <2>2 DEF Fails, Unwaited, FaultNames, TypeOK
  <2> QED BY <1>inv, <2>1, <2>2, <2>3, <2>4, ReturnKeepsInv DEF TypeOK
<1>5. CASE Wait
  <2>1. /\ pc # "idle" /\ call \in Calls /\ child[call] = "zombie"
        /\ child' = [child EXCEPT ![call] = "reaped"] /\ Return(status[call] = "zero")
        /\ UNCHANGED <<own, call, kind, status, out, ran, failed>>
    BY <1>5, <1>inv DEF Wait, CallFacts
  <2>2. /\ (status[call] = "zero") \in BOOLEAN /\ (status[call] = "zero" => call \in ran)
        /\ kind[call] # "system"
    BY <1>inv, <2>1 DEF ChildFacts
  <2>3. child'[call] = "reaped" /\ \A n \in Calls \ {call} : child'[n] = child[n]
    BY <1>inv, <2>1 DEF TypeOK
  <2>4. child' \in [Calls -> {"none", "open", "dup", "execv", "running", "zombie", "reaped"}]
    BY <1>inv, <2>1 DEF TypeOK
  <2>5. \A n \in Calls : Unwaited(n)' <=> Unwaited(n)
    BY <2>1 DEF Unwaited
  <2> QED BY <1>inv, <2>1, <2>2, <2>3, <2>4, <2>5, ReturnKeepsInv DEF TypeOK
<1>6. CASE WaitFails
  <2>1. /\ pc # "idle" /\ call \in Calls /\ child[call] \notin {"none", "reaped"}
        /\ Return(TRUE) /\ Fails(call, "waitpid")
        /\ UNCHANGED <<own, call, kind, child, status, out, ran>>
    BY <1>6, <1>inv DEF WaitFails, CallFacts
  <2>2. /\ child[call] \in {"open", "dup", "execv"} => call \notin ran
        /\ child[call] = "running" => call \in ran
        /\ child[call] \in {"zombie", "reaped"} => (status[call] = "zero" => call \in ran)
        /\ kind[call] # "system"
    BY <1>inv, <2>1 DEF ChildFacts
  <2>3. /\ \A n \in Calls \ {call} : Unwaited(n)' <=> Unwaited(n)
        /\ Unwaited(call)' /\ failed' \subseteq Calls \X FaultNames
    BY <1>inv, <2>1 DEF Fails, Unwaited, FaultNames, TypeOK
  <2> QED BY <1>inv, <2>1, <2>2, <2>3, ReturnKeepsInv DEF TypeOK
<1> QED BY <1>1, <1>2, <1>3, <1>4, <1>5, <1>6 DEF CallerStep

\* So does every step of a child, which leaves the other calls alone.
LEMMA ChildKeepsInv ==
  ASSUME CallsInv, NEW n \in Calls, ChildStep(n)
  PROVE  CallsInv'
<1>inv. TypeOK /\ CallFacts /\ ChildFacts /\ CallerReturnsOnce /\ ResultIsChilds
  BY DEF CallsInv
<1>1. /\ UNCHANGED <<own, call, kind, pc, returns>>
      /\ child[n] \in {"open", "dup", "execv", "running"}
      /\ child' \in {[child EXCEPT ![n] = l] : l \in {"dup", "execv", "running", "zombie"}}
      /\ status' \in {[status EXCEPT ![n] = s] : s \in {"zero", "nonzero", "killed", status[n]}}
      /\ ran' \in {ran, ran \cup {n}}
      /\ out' \in [Calls -> {"caller", "file", "closed"}]
  BY <1>inv DEF ChildStep, Open, Dup, Execv, ChildFails, CommandEnds, Exit, Fails, TypeOK
<1>2. /\ child'[n] \in {"dup", "execv"} => n \notin ran'
      /\ child'[n] = "running" => n \in ran'
      /\ child'[n] = "zombie" => (status'[n] = "zero" => n \in ran')
  BY <1>inv DEF ChildStep, Open, Dup, Execv, ChildFails, CommandEnds, Exit, Fails, TypeOK, ChildFacts
<1>3. child'[n] \in {"dup", "execv", "running", "zombie"} /\ kind[n] # "system"
  BY <1>inv, <1>1 DEF TypeOK, ChildFacts
\* No failing system call of a child is the caller's.
<1>uw. failed' \subseteq Calls \X FaultNames /\ \A m \in Calls : Unwaited(m)' <=> Unwaited(m)
  <2>1. CASE ChildFails(n)
    <3>1. PICK name \in {"open", "dup2", "execv"} : failed' = failed \cup {<<n, name>>}
      BY <2>1 DEF ChildFails, Fails
    <3> QED BY <1>inv, <3>1 DEF TypeOK, Unwaited, FaultNames
  <2>2. CASE failed' = failed
    BY <1>inv, <2>2 DEF TypeOK, Unwaited, Calls
  <2> QED BY <2>1, <2>2 DEF ChildStep, Open, Dup, Execv, CommandEnds
<1>oth. ASSUME NEW m \in Calls, m # n
        PROVE  /\ child'[m] = child[m] /\ status'[m] = status[m]
               /\ (m \in ran' <=> m \in ran) /\ (Unwaited(m)' <=> Unwaited(m))
  <2>1. child'[m] = child[m]
    BY <1>inv, <1>1, <1>oth DEF TypeOK
  <2>2. status'[m] = status[m]
    BY <1>inv, <1>1, <1>oth DEF TypeOK
  <2>3. (m \in ran' <=> m \in ran) /\ (Unwaited(m)' <=> Unwaited(m))
    BY <1>1, <1>uw, <1>oth
  <2> QED BY <2>1, <2>2, <2>3
<1>4. TypeOK'
  <2>1. child' \in [Calls -> {"none", "open", "dup", "execv", "running", "zombie", "reaped"}]
    BY <1>inv, <1>1 DEF TypeOK
  <2>2. status' \in [Calls -> {"none", "zero", "nonzero", "killed"}]
    BY <1>inv, <1>1 DEF TypeOK
  <2> QED BY <1>inv, <1>1, <1>uw, <2>1, <2>2 DEF TypeOK, Calls
<1>5. CallFacts'
  <2>1. n <= call /\ ~(n = call /\ pc \in {"system", "fork"})
    BY <1>inv, <1>1 DEF CallFacts, Untouched, TypeOK, Calls
  <2>2. \A m \in Calls : m > call => Untouched(m)'
    BY <1>inv, <1>1, <1>oth, <2>1 DEF CallFacts, Untouched, TypeOK, Calls
  <2>3. pc \in {"system", "fork"} => Untouched(call)'
    BY <1>inv, <1>1, <1>oth, <2>1 DEF CallFacts, Untouched
  <2>4. pc = "wait" => child'[call] \notin {"none", "reaped"}
    <3>1. CASE call = n
      BY <1>3, <3>1
    <3>2. CASE call # n
      BY <1>inv, <1>oth, <3>2 DEF CallFacts
    <3> QED BY <3>1, <3>2
  <2> QED BY <1>inv, <1>1, <2>2, <2>3, <2>4 DEF CallFacts, Calls
<1>6. ChildFacts'
  <2> SUFFICES ASSUME NEW m \in Calls
               PROVE  /\ child'[m] \in {"open", "dup", "execv"} => m \notin ran'
                      /\ child'[m] = "running" => m \in ran'
                      /\ child'[m] \in {"zombie", "reaped"} => (status'[m] = "zero" => m \in ran')
                      /\ kind[m] = "system" => child'[m] = "none"
    BY <1>1 DEF ChildFacts, Calls
  <2>1. CASE m = n
    BY <1>2, <1>3, <2>1
  <2>2. CASE m # n
    <3>1. child'[m] = child[m] /\ status'[m] = status[m] /\ (m \in ran' <=> m \in ran)
      BY <1>oth, <2>2
    <3> QED BY <1>inv, <3>1 DEF ChildFacts
  <2> QED BY <2>1, <2>2
<1>7. CallerReturnsOnce'
  <2>1. ASSUME NEW m \in Calls, returns[m] # {}
        PROVE  child'[m] = "reaped" \/ kind[m] = "system" \/ Unwaited(m)'
    <3>1. child[m] = "reaped" \/ kind[m] = "system" \/ Unwaited(m)
      BY <1>inv, <2>1 DEF CallerReturnsOnce
    <3>2. CASE m = n
      BY <1>1, <1>3, <1>uw, <3>1, <3>2
    <3>3. CASE m # n
      BY <1>oth, <3>1, <3>3
    <3> QED BY <3>2, <3>3
  <2> QED BY <1>inv, <1>1, <2>1 DEF CallerReturnsOnce, Calls
<1>8. ResultIsChilds'
  <2>1. ASSUME NEW m \in Calls, NEW v \in BOOLEAN, <<"caller", v>> \in returns[m]
        PROVE  \/ v <=> m \in ran' /\ status'[m] = "zero"
               \/ Unwaited(m)' /\ child'[m] # "reaped"
    <3>1. CASE m = n
      <4>1. Unwaited(n)
        BY <1>inv, <1>1, <1>3, <2>1, <3>1 DEF CallerReturnsOnce
      <4> QED BY <1>1, <1>3, <1>uw, <3>1, <4>1
    <3>2. CASE m # n
      <4>1. \/ v <=> m \in ran /\ status[m] = "zero"
            \/ Unwaited(m) /\ child[m] # "reaped"
        BY <1>inv, <2>1 DEF ResultIsChilds
      <4>2. /\ child'[m] = child[m] /\ status'[m] = status[m]
            /\ (m \in ran' <=> m \in ran) /\ (Unwaited(m)' <=> Unwaited(m))
        BY <1>oth, <3>2
      <4> QED BY <4>1, <4>2
    <3> QED BY <3>1, <3>2
  <2> QED BY <1>1, <2>1 DEF ResultIsChilds, Calls
<1> QED BY <1>4, <1>5, <1>6, <1>7, <1>8 DEF CallsInv

\* The invariant holds in every state.
LEMMA CallsInvariant == Spec => []CallsInv
<1>1. CallsInv /\ UNCHANGED vars => CallsInv'
  BY DEF vars, CallsInv, TypeOK, CallFacts, Untouched, ChildFacts, CallerReturnsOnce,
         ResultIsChilds, Unwaited, Calls
<1>2. CallsInv /\ [Next]_vars => CallsInv'
  BY <1>1, CallerKeepsInv, ChildKeepsInv DEF Next
<1> QED BY CallsInit, <1>2, PTL DEF Spec

\* For any number of calls and whatever fails in a child, only the caller goes on in
\* the code behind a call (systemcalls.c:52-74, 92-131), and it leaves no child of the
\* call behind but by a fork() or waitpid() of its own that failed.
THEOREM CallsReturnOnce == Spec => []CallerReturnsOnce
<1>1. CallsInv => CallerReturnsOnce
  BY DEF CallsInv
<1> QED BY CallsInvariant, <1>1, PTL

\* What a call returns is what its own child did, for any number of calls and
\* children that are still running.
THEOREM ResultsAreTheChilds == Spec => []ResultIsChilds
<1>1. CallsInv => ResultIsChilds
  BY DEF CallsInv
<1> QED BY CallsInvariant, <1>1, PTL

\* Every process of systemcalls.c is in one of the places the model knows, and no
\* child has returned.
THEOREM CallsTypeCorrect == Spec => []TypeOK
<1>1. CallsInv => TypeOK
  BY DEF CallsInv
<1> QED BY CallsInvariant, <1>1, PTL

-----------------------------------------------------------------------------
(***************************************************************************)
(* The output of a redirected command.                                     *)
(***************************************************************************)

\* Descriptor 1 of a child that comes after dup2() and close().
Redirected(n) == Lowest # 1 => out[n] = "file"

\* From its execv() on the child of a redirected command has the descriptor; only
\* do_system() starts its command in no child of this module.
OutInv ==
  \A n \in Calls : kind[n] = "redirect" /\ (child[n] = "execv" \/ n \in ran) => Redirected(n)

\* Every step keeps it.
LEMMA OutStep ==
  ASSUME CallsInv, OutInv, [Next]_vars
  PROVE  OutInv'
<1> USE DEF OutInv, Redirected, Lowest
<1>ty. TypeOK /\ CallFacts /\ ChildFacts
  BY DEF CallsInv
<1>1. ASSUME NEW k \in {"system", "exec", "redirect"}, Call(k) PROVE OutInv'
  <2>1. call' \in Calls /\ call' = call + 1 /\ call' > call
    BY <1>1, <1>ty, CallsAssumption DEF Call, TypeOK, Calls
  <2>2. Untouched(call')
    BY <2>1, <1>ty DEF CallFacts
  <2> QED BY <1>1, <1>ty, <2>1, <2>2 DEF Call, TypeOK, Untouched
<1>2. CASE System
  <2>1. kind[call] = "system"
    BY <1>2, <1>ty DEF System, CallFacts
  <2> QED BY <1>2, <1>ty, <2>1 DEF System, Return, Fails, TypeOK
<1>3. CASE Fork
  BY <1>3, <1>ty DEF Fork, TypeOK, CallFacts, Untouched
<1>4. CASE ForkFails
  BY <1>4, <1>ty DEF ForkFails, Return, Fails, TypeOK
<1>5. CASE Wait
  BY <1>5, <1>ty DEF Wait, Return, TypeOK
<1>6. CASE WaitFails
  BY <1>6, <1>ty DEF WaitFails, Return, Fails, TypeOK
<1>7. ASSUME NEW n \in Calls, ChildStep(n) PROVE OutInv'
  <2>1. CASE Open(n)
    BY <1>ty, <2>1 DEF Open, TypeOK, ChildFacts
  <2>2. CASE Dup(n)
    BY <1>ty, <2>2 DEF Dup, TypeOK, ChildFacts
  <2>3. CASE Execv(n)
    BY <1>ty, <2>3 DEF Execv, TypeOK
  <2>4. CASE ChildFails(n)
    BY <1>ty, <2>4 DEF ChildFails, Exit, TypeOK
  <2>5. CASE CommandEnds(n)
    BY <1>ty, <2>5 DEF CommandEnds, TypeOK
  <2> QED BY <1>7, <2>1, <2>2, <2>3, <2>4, <2>5 DEF ChildStep
<1>8. CASE UNCHANGED vars
  BY <1>8 DEF vars
<1> QED BY <1>1, <1>2, <1>3, <1>4, <1>5, <1>6, <1>7, <1>8 DEF Next, CallerStep

\* The command of do_exec_redirect (systemcalls.c:102-120) writes to the file and
\* nowhere else, with any number of calls and whatever else is running, unless the
\* caller's descriptor 1 is the first free one.
THEOREM OutputGoesToFile == Spec => []OutputRedirected
<1>1. Init => OutInv
  BY DEF Init, OutInv
<1>2. CallsInv /\ OutInv => OutputRedirected
  BY DEF CallsInv, OutInv, Redirected, OutputRedirected, TypeOK
<1> QED BY CallsInvariant, OutStep, <1>1, <1>2, PTL DEF Spec
=============================================================================
