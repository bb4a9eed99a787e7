----------------------------- MODULE PayloadLog -----------------------------
(***************************************************************************)
(* What the clients of aesdsocket may rely on: one payload log, extended   *)
(* by whole records (a client's packet or a timestamp line) and handed     *)
(* back to a client as a prefix that covers its own packet.  The promise   *)
(* ends when the server gives up on a file operation half way (torn).      *)
(***************************************************************************)
EXTENDS Integers, Sequences

CONSTANTS
  Conns,    \* the clients
  Ticks     \* the expiries of the timestamp timer

VARIABLES
  log,      \* the payload: a sequence of units [from, seq, val]
  due,      \* due[c]: how much of log the answer to c must cover, 0 before its packet
  answered, \* answered[c]: c's latest packet was answered
  answer,   \* answer[c]: the payload returned for it
  torn      \* some operation was given up half way

vars == <<log, due, answered, answer, torn>>

IsPrefixOf(s, t) == Len(s) <= Len(t) /\ \A i \in 1..Len(s) : t[i] = s[i]

\* The step adds to the log one record of writer w: w's units in the order w
\* sent them, closed by a newline.
AddsRecord(w) ==
  /\ IsPrefixOf(log, log')
  /\ Len(log') > Len(log)
  /\ log'[Len(log')].val = "nl"
  /\ \A i \in Len(log) + 1 .. Len(log') :
       /\ log'[i].from = w
       /\ i > Len(log) + 1 => log'[i].seq = log'[i - 1].seq + 1

Init ==
  /\ log = <<>>
  /\ due = [c \in Conns |-> 0]
  /\ answered = [c \in Conns |-> FALSE]
  /\ answer = [c \in Conns |-> <<>>]
  /\ torn = FALSE

AcceptPacket(c) ==
  /\ AddsRecord(c)
  /\ due' = [due EXCEPT ![c] = Len(log')]
  /\ answered' = [answered EXCEPT ![c] = FALSE]
  /\ answer' = [answer EXCEPT ![c] = <<>>]

AddTimestamp(t) ==
  /\ AddsRecord(t)
  /\ UNCHANGED <<due, answered, answer>>

ReturnPayload(c) ==
  /\ due[c] > 0 /\ ~answered[c]
  /\ answered' = [answered EXCEPT ![c] = TRUE]
  /\ Len(answer'[c]) >= due[c]
  /\ IsPrefixOf(answer'[c], log)
  /\ answer' = [answer EXCEPT ![c] = answer'[c]]
  /\ UNCHANGED <<log, due>>

Next ==
  \/ /\ ~torn /\ ~torn'
     /\ \/ \E c \in Conns : AcceptPacket(c) \/ ReturnPayload(c)
        \/ \E t \in Ticks : AddTimestamp(t)
  \/ torn'

Spec == Init /\ [][Next]_vars
=============================================================================
