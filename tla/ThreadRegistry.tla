--------------------------- MODULE ThreadRegistry ---------------------------
(***************************************************************************)
(* What main() means its list of ThreadNode_t to be: the connection        *)
(* threads nobody has joined yet, oldest first.  The promise ends when the *)
(* list is damaged.                                                        *)
(***************************************************************************)
EXTENDS Integers, Sequences

CONSTANT Conns    \* the connection threads

VARIABLES
  tracked,    \* the threads still to be joined, oldest first
  finished,   \* the threads that have returned
  damaged     \* the list can no longer be relied on

vars == <<tracked, finished, damaged>>

Members(s) == {s[i] : i \in DOMAIN s}

Init == tracked = <<>> /\ finished = {} /\ damaged = FALSE

Track(c) ==
  /\ c \notin Members(tracked)
  /\ tracked' = Append(tracked, c)
  /\ UNCHANGED finished

\* A thread leaves the registry once it has returned; the others keep their order.
Join(c) ==
  /\ c \in finished
  /\ \E i \in DOMAIN tracked :
       /\ tracked[i] = c
       /\ tracked' = SubSeq(tracked, 1, i - 1) \o SubSeq(tracked, i + 1, Len(tracked))
  /\ UNCHANGED finished

Finish(c) ==
  /\ finished' = finished \cup {c}
  /\ UNCHANGED tracked

Next ==
  \/ ~damaged /\ ~damaged' /\ \E c \in Conns : Track(c) \/ Join(c) \/ Finish(c)
  \/ damaged'

Spec == Init /\ [][Next]_vars
=============================================================================
