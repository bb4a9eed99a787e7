----------------------------- MODULE ThreadLife -----------------------------
(***************************************************************************)
(* What main() and a connection thread agree on: thread_params->done.  The *)
(* thread may set it once, when nothing is left to do but to clean up and  *)
(* to return: pthread_join() by main(), which makes new clients wait, then *)
(* waits for no client.  A thread that leaves after an error returns       *)
(* without having set it.                                                  *)
(***************************************************************************)
CONSTANT Conns

VARIABLES
  stage,   \* "running", "returning" (done is set) or "ended"
  done     \* thread_params->done

vars == <<stage, done>>

Init ==
  /\ stage = [c \in Conns |-> "running"]
  /\ done = [c \in Conns |-> FALSE]

SetDone(c) ==
  /\ stage[c] = "running"
  /\ stage' = [stage EXCEPT ![c] = "returning"]
  /\ done' = [done EXCEPT ![c] = TRUE]

Return(c) ==
  /\ stage[c] \in {"running", "returning"}
  /\ stage' = [stage EXCEPT ![c] = "ended"]
  /\ UNCHANGED done

\* The process ends, and all its threads with it.
Die ==
  /\ stage' = [c \in Conns |-> "ended"]
  /\ UNCHANGED done

Next == Die \/ \E c \in Conns : SetDone(c) \/ Return(c)

Spec == Init /\ [][Next]_vars
=============================================================================
