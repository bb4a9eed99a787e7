---------------------------- MODULE SystemCalls ----------------------------
(***************************************************************************)
(* do_system, do_exec and do_exec_redirect                                 *)
(* (examples/systemcalls/systemcalls.c): a caller makes a sequence of      *)
(* calls; each of the last two forks a child that runs the command, and    *)
(* waits for it.  A child that was not waited for runs on beside the next  *)
(* call.                                                                   *)
(***************************************************************************)
EXTENDS Naturals

CONSTANTS
  MaxCalls,  \* bound: the calls the caller makes
  Faults     \* the system calls that may fail: see FaultNames

\* "waitpid": it fails, as it does when a handled signal interrupts it.
FaultNames == {"fork", "waitpid", "open", "dup2", "execv"}

ASSUME CallsAssumption == MaxCalls \in Nat /\ Faults \subseteq FaultNames

Calls == 1 .. MaxCalls

VARIABLES
  own,      \* the standard descriptors the caller has open, of 0 .. 2
  call,     \* the number of the latest call
  kind,     \* kind[n]: "none", "system", "exec" or "redirect"
  pc,       \* the caller: "idle", "system", "fork" or "wait"
  returns,  \* returns[n]: what call n returned, and in which process
  child,    \* child[n]: "none", "open", "dup", "execv", "running", "zombie" or
            \* "reaped"
  status,   \* status[n]: how the child ended, what waitpid() reports
  out,      \* out[n]: the child's descriptor 1: "caller", "file" or "closed"
  \* history, for the properties only
  ran,      \* the calls whose command was started
  failed    \* the pairs of a call and a system call that failed in it

vars == <<own, call, kind, pc, returns, child, status, out, ran, failed>>

\* The descriptor that open() gives the child: the lowest free one.
Lowest == CHOOSE f \in 0 .. 3 : f \notin own /\ 0 .. f - 1 \subseteq own

Fails(n, name) == name \in Faults /\ failed' = failed \cup {<<n, name>>}

\* The caller's own fork() or waitpid() of call n failed: no child was waited for.
Unwaited(n) == <<n, "fork">> \in failed \/ <<n, "waitpid">> \in failed

-----------------------------------------------------------------------------
(* The caller.                                                             *)

Call(k) ==
  /\ pc = "idle" /\ call < MaxCalls
  /\ call' = call + 1 /\ kind' = [kind EXCEPT ![call'] = k]
  /\ pc' = IF k = "system" THEN "system" ELSE "fork"
  /\ UNCHANGED <<own, returns, child, status, out, ran, failed>>

Return(value) ==
  /\ pc' = "idle"
  /\ returns' = [returns EXCEPT ![call] = @ \cup {<<"caller", value>>}]

\* system() runs the command in a child of its own and waits for it: 0 when it
\* ended with 0, -1 or the command's status otherwise.
System ==
  /\ pc = "system"
  /\ \/ Return(TRUE) /\ ran' = ran \cup {call} /\ status' = [status EXCEPT ![call] = "zero"]
        /\ UNCHANGED failed
     \/ Return(FALSE) /\ status' = [status EXCEPT ![call] = "nonzero"] /\ UNCHANGED <<ran, failed>>
     \/ Return(FALSE) /\ Fails(call, "fork") /\ UNCHANGED <<ran, status>>
  /\ UNCHANGED <<own, call, kind, child, out>>

Fork ==
  /\ pc = "fork" /\ pc' = "wait"
  /\ child' = [child EXCEPT ![call] = IF kind[call] = "redirect" THEN "open" ELSE "execv"]
  /\ out' = [out EXCEPT ![call] = IF 1 \in own THEN "caller" ELSE "closed"]
  /\ UNCHANGED <<own, call, kind, returns, status, ran, failed>>

\* Only do_exec_redirect looks at it.
ForkFails ==
  /\ pc = "fork" /\ Fails(call, "fork")
  /\ Return(kind[call] = "exec")
  /\ UNCHANGED <<own, call, kind, child, status, out, ran>>

\* Mutant: wait() for whichever child has ended.
WaitAny ==
  /\ pc = "wait"
  /\ \E n \in Calls :
       /\ child[n] = "zombie" /\ child' = [child EXCEPT ![n] = "reaped"]
       /\ Return(status[n] = "zero")
  /\ UNCHANGED <<own, call, kind, status, out, ran, failed>>
\* Mutant: waited for until it ends by itself.
WaitForExit ==
  /\ pc = "wait" /\ child[call] = "zombie" /\ status[call] # "killed"
  /\ child' = [child EXCEPT ![call] = "reaped"]
  /\ Return(status[call] = "zero")
  /\ UNCHANGED <<own, call, kind, status, out, ran, failed>>
\* waitpid() for the child of this call.
Wait ==
  /\ pc = "wait" /\ child[call] = "zombie"
  /\ child' = [child EXCEPT ![call] = "reaped"]
  /\ Return(status[call] = "zero")
  /\ UNCHANGED <<own, call, kind, status, out, ran, failed>>

\* rc is still 0, which reads as "ended with 0".
WaitFails ==
  /\ pc = "wait" /\ Fails(call, "waitpid")
  /\ Return(TRUE)
  /\ UNCHANGED <<own, call, kind, child, status, out, ran>>

-----------------------------------------------------------------------------
(* The child of call n.                                                    *)

\* Mutant: what comes after execv() is the caller's code, run once more.
ExitReturns(n) ==
  /\ child' = [child EXCEPT ![n] = "returned"]
  /\ returns' = [returns EXCEPT ![n] = @ \cup {<<"child", TRUE>>}]
  /\ UNCHANGED status
\* _exit(EXIT_FAILURE)
Exit(n) ==
  /\ child' = [child EXCEPT ![n] = "zombie"]
  /\ status' = [status EXCEPT ![n] = "nonzero"]
  /\ UNCHANGED returns

Open(n) ==
  /\ child[n] = "open" /\ child' = [child EXCEPT ![n] = "dup"]
  /\ out' = [out EXCEPT ![n] = IF Lowest = 1 THEN "file" ELSE @]
  /\ UNCHANGED <<own, call, kind, pc, returns, status, ran, failed>>

\* Mutant: the descriptors of dup2() swapped.
DupSwapped(n) ==
  /\ child[n] = "dup" /\ child' = [child EXCEPT ![n] = "execv"]
  /\ UNCHANGED <<own, call, kind, pc, returns, status, out, ran, failed>>
\* dup2(fd, 1) and close(fd), which closes 1 again when open() had returned it.
Dup(n) ==
  /\ child[n] = "dup" /\ child' = [child EXCEPT ![n] = "execv"]
  /\ out' = [out EXCEPT ![n] = IF Lowest = 1 THEN "closed" ELSE "file"]
  /\ UNCHANGED <<own, call, kind, pc, returns, status, ran, failed>>

Execv(n) ==
  /\ child[n] = "execv" /\ child' = [child EXCEPT ![n] = "running"]
  /\ ran' = ran \cup {n}
  /\ UNCHANGED <<own, call, kind, pc, returns, status, out, failed>>

ChildFails(n) ==
  /\ \/ child[n] = "open" /\ Fails(n, "open")
     \/ child[n] = "dup" /\ Fails(n, "dup2")
     \/ child[n] = "execv" /\ Fails(n, "execv")
  /\ Exit(n)
  /\ UNCHANGED <<own, call, kind, pc, out, ran>>

\* The command ends, or a signal kills it.
CommandEnds(n) ==
  /\ child[n] = "running" /\ child' = [child EXCEPT ![n] = "zombie"]
  /\ \E s \in {"zero", "nonzero", "killed"} : status' = [status EXCEPT ![n] = s]
  /\ UNCHANGED <<own, call, kind, pc, returns, out, ran, failed>>

-----------------------------------------------------------------------------
Init ==
  /\ own \in SUBSET (0 .. 2)
  /\ call = 0 /\ pc = "idle" /\ ran = {} /\ failed = {}
  /\ kind = [n \in Calls |-> "none"] /\ returns = [n \in Calls |-> {}]
  /\ child = [n \in Calls |-> "none"] /\ status = [n \in Calls |-> "none"]
  /\ out = [n \in Calls |-> "closed"]

CallerStep == System \/ Fork \/ Wait
ChildStep(n) == Open(n) \/ Dup(n) \/ Execv(n) \/ ChildFails(n) \/ CommandEnds(n)

Next ==
  \/ \E k \in {"system", "exec", "redirect"} : Call(k)
  \/ CallerStep \/ ForkFails \/ WaitFails
  \/ \E n \in Calls : ChildStep(n)

Spec == Init /\ [][Next]_vars

\* The kernel runs both processes, and the commands end.
FairSpec == Spec /\ WF_vars(CallerStep) /\ \A n \in Calls : WF_vars(ChildStep(n))

-----------------------------------------------------------------------------
(* Properties.                                                             *)

TypeOK ==
  /\ own \subseteq 0 .. 2
  /\ call \in 0 .. MaxCalls
  /\ kind \in [Calls -> {"none", "system", "exec", "redirect"}]
  /\ pc \in {"idle", "system", "fork", "wait"}
  /\ returns \in [Calls -> SUBSET ({"caller", "child"} \X BOOLEAN)]
  /\ child \in [Calls -> {"none", "open", "dup", "execv", "running", "zombie", "reaped"}]
  /\ status \in [Calls -> {"none", "zero", "nonzero", "killed"}]
  /\ out \in [Calls -> {"caller", "file", "closed"}]
  /\ ran \subseteq Calls /\ failed \subseteq Calls \X FaultNames

\* Only the caller comes back from a call: whatever fails in a child, its open(),
\* dup2() or execv() included, it ends there and never goes on in the caller's code.
\* And when the caller comes back, once, the child of the call is gone: only a
\* waitpid() that failed leaves it behind, only a fork() that failed had none.
\* (do_system() has its child inside system().)
CallerReturnsOnce ==
  \A n \in Calls :
    /\ \A r \in returns[n] : r[1] = "caller"
    /\ \A r1, r2 \in returns[n] : r1 = r2
    /\ returns[n] # {} => child[n] = "reaped" \/ kind[n] = "system" \/ Unwaited(n)

\* A call returns true only when its own command was started and ended with 0,
\* and false only when it did not or a system call failed, whatever children of
\* earlier calls still do.  Excepted are a fork() or waitpid() that fails: no
\* child of the call was waited for then.
ResultIsChilds ==
  \A n \in Calls : \A value \in BOOLEAN :
    <<"caller", value>> \in returns[n] =>
      \/ value <=> n \in ran /\ status[n] = "zero"
      \/ Unwaited(n) /\ child[n] # "reaped"

\* The command of do_exec_redirect writes to the file and nowhere else
\* (systemcalls.c:77-80), with standard descriptors missing as well: a file opened
\* as descriptor 0 or 2 ends up as 1.  A caller whose descriptor 1 is the first free
\* one is left out: there the code does not do what line 77 says (close() takes the
\* file away again), and nothing is claimed.
OutputRedirected ==
  \A n \in ran : kind[n] = "redirect" /\ Lowest # 1 => out[n] = "file"

\* Every call returns, whatever fails, when the commands end.
CallReturns == pc # "idle" ~> pc = "idle"

\* systemcalls.c:34-37, "false if an error occurred, either in invocation of the
\* fork, waitpid, or execv() command": do_exec returns true only when none of its
\* system calls failed.  The code does not look at the results of fork() and
\* waitpid().
ErrorsReported ==
  \A n \in Calls : kind[n] = "exec" /\ <<"caller", TRUE>> \in returns[n] =>
    \A name \in FaultNames : <<n, name>> \notin failed
=============================================================================
