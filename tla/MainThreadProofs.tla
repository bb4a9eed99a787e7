-------------------------- MODULE MainThreadProofs --------------------------
(***************************************************************************)
(* Proofs about MainThread for any number of clients and of addresses, and *)
(* any set of faults.                                                      *)
(***************************************************************************)
EXTENDS MainThread, TLAPS, WellFoundedInduction, FiniteSetTheorems, SequenceTheorems

\* Removing a node leaves links to nodes, whatever the list looks like.
LEMMA RemoveType ==
  ASSUME NEW n \in Nodes, next \in [Nodes -> Nodes \cup {Null}],
         head \in Nodes \cup {Null}, Remove(n)
  PROVE  next' \in [Nodes -> Nodes \cup {Null}] /\ head' \in Nodes \cup {Null}
<1> DEFINE p == CHOOSE q \in Listed : next[q] = n
<1>1. \/ head' = next[n] /\ next' = next
      \/ head' = head /\ next' = [next EXCEPT ![p] = next[n]]
  BY DEF Remove
<1> HIDE DEF p
<1> QED BY <1>1

\* So does inserting one.
LEMMA InsertType ==
  ASSUME NEW n \in Nodes, next \in [Nodes -> Nodes \cup {Null}],
         head \in Nodes \cup {Null}, head # Null => last \in Nodes, Insert(n)
  PROVE  next' \in [Nodes -> Nodes \cup {Null}] /\ head' \in Nodes \cup {Null}
<1>1. CASE head = Null
  BY <1>1 DEF Insert
<1>2. CASE head # Null
  <2>1. /\ next' = [[next EXCEPT ![n] = next[last]] EXCEPT ![last] = n]
        /\ head' = head /\ next[last] \in Nodes \cup {Null}
    BY <1>2 DEF Insert
  <2> DEFINE linked == [next EXCEPT ![n] = next[last]]
  <2>2. linked \in [Nodes -> Nodes \cup {Null}]
    BY <2>1
  <2>3. next' = [linked EXCEPT ![last] = n]
    BY <2>1
  <2> HIDE DEF linked
  <2> QED BY <2>1, <2>2, <2>3
<1> QED BY <1>1, <1>2

(***************************************************************************)
(* The invariant.  Main holds a connection between accept() and the thread *)
(* that is started for it, so that no thread is started twice; the walk    *)
(* has a previous node whenever it stands on one; and a list that is not   *)
(* empty has had a last node.                                              *)
(***************************************************************************)

MainFacts ==
  /\ mpc \in {"reap", "spawn"} => cur \in Conns /\ thread[cur] = "accepted"
  /\ mpc = "link" => cur \in Conns
  /\ mpc = "reap" /\ node # Null => prev # Null
  /\ head # Null => last # Null

MainInv == TypeOK /\ MainFacts /\ ParamsOutliveThread

\* The initial state has the invariant.
LEMMA MainInit == Init => MainInv
<1> SUFFICES ASSUME Init PROVE MainInv
  OBVIOUS
<1>1. TypeOK
  BY DEF Init, TypeOK, MainPCs
<1>2. MainFacts
  BY DEF Init, MainFacts
<1>3. ParamsOutliveThread
  BY DEF Init, ParamsOutliveThread
<1> QED BY <1>1, <1>2, <1>3 DEF MainInv

\* Joining a thread and freeing its node and parameters keeps the types, and
\* frees the parameters of a thread that has ended.
LEMMA JoinAndFreeEffect ==
  ASSUME MainInv, NEW n \in live, JoinAndFree(n)
  PROVE  /\ params' \in [Conns -> {"none", "live", "freed"}]
         /\ \A c \in Conns : params'[c] = "freed" => thread[c] = "ended"
         /\ next' \in [Nodes -> Nodes \cup {Null}] /\ head' \in Nodes \cup {Null}
         /\ live' \subseteq Nodes /\ owner' = owner /\ last' = last
         /\ \A m \in live' : owner[m] \in Conns
         /\ head' # Null => last # Null
<1>1. /\ TypeOK /\ n \in Nodes /\ Joined(owner[n]) /\ Remove(n)
      /\ params' = [params EXCEPT ![owner[n]] = "freed"]
      /\ live' = live \ {n} /\ owner' = owner /\ last' = last
  BY DEF MainInv, TypeOK, JoinAndFree
<1>2. params' \in [Conns -> {"none", "live", "freed"}]
  BY <1>1 DEF TypeOK
<1>3. \A c \in Conns : params'[c] = "freed" => thread[c] = "ended"
  BY <1>1 DEF MainInv, TypeOK, ParamsOutliveThread, Joined
<1>4. next' \in [Nodes -> Nodes \cup {Null}] /\ head' \in Nodes \cup {Null}
  BY <1>1, RemoveType DEF TypeOK
<1>5. live' \subseteq Nodes /\ \A m \in live' : owner[m] \in Conns
  BY <1>1 DEF TypeOK
<1>6. head' # Null => last # Null
  BY <1>1, MainAssumption DEF Remove, MainInv, MainFacts
<1> QED BY <1>1, <1>2, <1>3, <1>4, <1>5, <1>6

\* A step that only moves the main thread on keeps the invariant, wherever it
\* leads to but the places that need a connection in hand.
LEMMA GoOnInv ==
  ASSUME MainInv, NEW l \in MainPCs, NEW m \in MainPCs, GoOn(l, m),
         m = "spawn" => l = "reap", m \notin {"reap", "link"}
  PROVE  MainInv'
<1> USE DEF GoOn, Goto, threadVars, listVars, walkVars, flagVars
<1>1. TypeOK'
  BY DEF MainInv, TypeOK
<1>2. MainFacts' /\ ParamsOutliveThread'
  BY DEF MainInv, MainFacts, ParamsOutliveThread
<1> QED BY <1>1, <1>2 DEF MainInv

\* Every step of the main thread keeps the invariant.
LEMMA MainStepInv ==
  ASSUME MainInv, MainStep \/ AcceptFails
  PROVE  MainInv'
<1> USE MainAssumption DEF threadVars, listVars, walkVars, flagVars, Goto
<1>ty. TypeOK /\ MainFacts /\ ParamsOutliveThread
  BY DEF MainInv
<1>1. CASE Check
  <2>1. PICK l, m \in MainPCs : GoOn(l, m) /\ (m = "spawn" => l = "reap") /\ m \notin {"reap", "link"}
    BY <1>1 DEF Check, MainPCs
  <2> QED BY <2>1, GoOnInv
<1>2. CASE EnterAccept
  <2>1. PICK l, m \in MainPCs : GoOn(l, m) /\ (m = "spawn" => l = "reap") /\ m \notin {"reap", "link"}
    BY <1>2 DEF EnterAccept, MainPCs
  <2> QED BY <2>1, GoOnInv
<1>3. ASSUME NEW c \in Conns, Accept(c) PROVE MainInv'
  <2>1. TypeOK'
    BY <1>3, <1>ty DEF Accept, TypeOK, MainPCs
  <2>2. MainFacts'
    BY <1>3, <1>ty DEF Accept, TypeOK, MainFacts
  <2>3. ParamsOutliveThread'
    BY <1>3, <1>ty DEF Accept, TypeOK, ParamsOutliveThread
  <2> QED BY <2>1, <2>2, <2>3 DEF MainInv
<1>4. CASE AcceptFails
  <2>1. PICK l, m \in MainPCs : GoOn(l, m) /\ (m = "spawn" => l = "reap") /\ m \notin {"reap", "link"}
    BY <1>4 DEF AcceptFails, MainPCs
  <2> QED BY <2>1, GoOnInv
<1>5. CASE SkipNode
  <2>1. TypeOK'
    BY <1>5, <1>ty DEF SkipNode, TypeOK
  <2>2. MainFacts' /\ ParamsOutliveThread'
    BY <1>5, <1>ty DEF SkipNode, TypeOK, MainFacts, ParamsOutliveThread
  <2> QED BY <2>1, <2>2 DEF MainInv
<1>6. CASE ReapNode
  <2>1. /\ mpc = "reap" /\ node \in live /\ JoinAndFree(node) /\ node' = next'[prev]
        /\ stale' \in BOOLEAN
        /\ UNCHANGED <<threadVars, mpc, cur, prev, unexpected, interrupted, mutex>>
    BY <1>6, <1>ty DEF ReapNode, TypeOK
  <2>2. prev \in Nodes /\ prev # Null
    BY <2>1, <1>ty DEF TypeOK, MainFacts
  <2>3. /\ params' \in [Conns -> {"none", "live", "freed"}]
        /\ \A c \in Conns : params'[c] = "freed" => thread[c] = "ended"
        /\ next' \in [Nodes -> Nodes \cup {Null}] /\ head' \in Nodes \cup {Null}
        /\ live' \subseteq Nodes /\ owner' = owner /\ last' = last
        /\ \A m \in live' : owner[m] \in Conns
        /\ head' # Null => last # Null
    BY <2>1, JoinAndFreeEffect
  <2>4. node' \in Nodes \cup {Null}
    BY <2>1, <2>2, <2>3
  <2>5. TypeOK'
    BY <1>ty, <2>1, <2>3, <2>4 DEF TypeOK
  <2>6. MainFacts' /\ ParamsOutliveThread'
    BY <1>ty, <2>1, <2>2, <2>3 DEF MainFacts, ParamsOutliveThread
  <2> QED BY <2>5, <2>6 DEF MainInv
<1>7. CASE ReapFreedNode
  <2>1. TypeOK'
    BY <1>7, <1>ty DEF ReapFreedNode, TypeOK, MainPCs
  <2>2. MainFacts' /\ ParamsOutliveThread'
    BY <1>7, <1>ty DEF ReapFreedNode, TypeOK, MainFacts, ParamsOutliveThread
  <2> QED BY <2>1, <2>2 DEF MainInv
<1>8. CASE ReapEnds
  <2>1. PICK l, m \in MainPCs : GoOn(l, m) /\ (m = "spawn" => l = "reap") /\ m \notin {"reap", "link"}
    BY <1>8 DEF ReapEnds, MainPCs
  <2> QED BY <2>1, GoOnInv
<1>9. CASE Spawn
  <2>1. TypeOK'
    BY <1>9, <1>ty DEF Spawn, TypeOK, MainPCs
  <2>2. MainFacts'
    BY <1>9, <1>ty DEF Spawn, MainFacts
  <2>3. ParamsOutliveThread'
    BY <1>9, <1>ty DEF Spawn, TypeOK, MainFacts, ParamsOutliveThread
  <2> QED BY <2>1, <2>2, <2>3 DEF MainInv
<1>10. CASE SpawnFails
  <2>1. TypeOK'
    BY <1>10, <1>ty DEF SpawnFails, TypeOK, MainPCs
  <2>2. MainFacts'
    BY <1>10, <1>ty DEF SpawnFails, MainFacts
  <2>3. ParamsOutliveThread'
    BY <1>10, <1>ty DEF SpawnFails, TypeOK, MainFacts, ParamsOutliveThread
  <2> QED BY <2>1, <2>2, <2>3 DEF MainInv
<1>11. CASE Link
  <2> PICK n \in Nodes \ live :
         /\ live' = live \cup {n}
         /\ owner' = [owner EXCEPT ![n] = cur]
         /\ Insert(n)
         /\ last' = n
    BY <1>11 DEF Link
  <2>1. next' \in [Nodes -> Nodes \cup {Null}] /\ head' \in Nodes \cup {Null}
    BY <1>ty, InsertType DEF TypeOK, MainFacts
  <2>2. /\ mpc = "link" /\ mpc' = "check" /\ stale' \in BOOLEAN
        /\ UNCHANGED <<threadVars, params, cur, node, prev, unexpected, interrupted, mutex>>
    BY <1>11, <1>ty DEF Link, TypeOK
  <2>3. TypeOK'
    BY <1>ty, <2>1, <2>2 DEF TypeOK, MainFacts, MainPCs
  <2>4. MainFacts' /\ ParamsOutliveThread'
    BY <1>ty, <2>1, <2>2 DEF MainFacts, ParamsOutliveThread
  <2> QED BY <2>3, <2>4 DEF MainInv
<1>12. CASE LinkFails
  BY <1>12, <1>ty DEF LinkFails, MainInv, TypeOK, MainFacts, ParamsOutliveThread, MainPCs
<1>13. CASE JoinFirst
  <2>1. /\ mpc = "join" /\ head # Null /\ JoinAndFree(head)
        /\ UNCHANGED <<threadVars, mpc, cur, node, prev, unexpected, interrupted, mutex, stale>>
    BY <1>13 DEF JoinFirst
  <2>2. CASE head \in live
    <3>1. /\ params' \in [Conns -> {"none", "live", "freed"}]
          /\ \A c \in Conns : params'[c] = "freed" => thread[c] = "ended"
          /\ next' \in [Nodes -> Nodes \cup {Null}] /\ head' \in Nodes \cup {Null}
          /\ live' \subseteq Nodes /\ owner' = owner /\ last' = last
          /\ \A m \in live' : owner[m] \in Conns
          /\ head' # Null => last # Null
      BY <2>1, <2>2, JoinAndFreeEffect
    <3>2. TypeOK'
      BY <1>ty, <2>1, <3>1 DEF TypeOK
    <3>3. MainFacts' /\ ParamsOutliveThread'
      BY <1>ty, <2>1, <3>1 DEF MainFacts, ParamsOutliveThread
    <3> QED BY <3>2, <3>3 DEF MainInv
  <2>3. CASE head \notin live
    <3>1. /\ head \in Nodes /\ Joined(owner[head]) /\ Remove(head)
          /\ params' = [params EXCEPT ![owner[head]] = "freed"]
          /\ live' = live \ {head} /\ owner' = owner /\ last' = last
      BY <1>ty, <2>1 DEF TypeOK, JoinAndFree
    <3>2. next' \in [Nodes -> Nodes \cup {Null}] /\ head' \in Nodes \cup {Null}
      BY <1>ty, <3>1, RemoveType DEF TypeOK
    <3>3. TypeOK'
      BY <1>ty, <2>1, <3>1, <3>2 DEF TypeOK
    <3>4. MainFacts'
      BY <1>ty, <2>1, <3>1 DEF MainFacts
    <3>5. ParamsOutliveThread'
      BY <1>ty, <2>1, <3>1 DEF TypeOK, ParamsOutliveThread, Joined
    <3> QED BY <3>3, <3>4, <3>5 DEF MainInv
  <2> QED BY <2>2, <2>3
<1>14. CASE JoinEnds
  <2>1. PICK l, m \in MainPCs : GoOn(l, m) /\ (m = "spawn" => l = "reap") /\ m \notin {"reap", "link"}
    BY <1>14 DEF JoinEnds, MainPCs
  <2> QED BY <2>1, GoOnInv
<1>15. CASE DestroyMutex
  BY <1>15, <1>ty DEF DestroyMutex, MainInv, TypeOK, MainFacts, ParamsOutliveThread, MainPCs
<1>16. CASE DeleteTimer
  <2>1. PICK l, m \in MainPCs : GoOn(l, m) /\ (m = "spawn" => l = "reap") /\ m \notin {"reap", "link"}
    BY <1>16 DEF DeleteTimer, MainPCs
  <2> QED BY <2>1, GoOnInv
<1> QED
  BY <1>1, <1>2, <1>3, <1>4, <1>5, <1>6, <1>7, <1>8, <1>9, <1>10, <1>11, <1>12, <1>13,
     <1>14, <1>15, <1>16 DEF MainStep

\* So do the clients, the connection threads and the signal.
LEMMA OtherStepInv ==
  ASSUME MainInv,
         (\E c \in Conns : ThreadStep(c) \/ ClientConnects(c)) \/ Signal
  PROVE  MainInv'
<1> USE DEF threadVars, listVars, walkVars, flagVars
<1>ty. TypeOK /\ MainFacts /\ ParamsOutliveThread
  BY DEF MainInv
<1>1. ASSUME NEW c \in Conns, ThreadSetsDone(c) \/ ThreadEnds(c) \/ ClientConnects(c)
      PROVE  MainInv'
  <2>1. TypeOK'
    <3>1. CASE ThreadSetsDone(c)
      BY <3>1, <1>ty DEF ThreadSetsDone, TypeOK
    <3>2. CASE ThreadEnds(c)
      BY <3>2, <1>ty DEF ThreadEnds, TypeOK
    <3>3. CASE ClientConnects(c)
      BY <3>3, <1>ty DEF ClientConnects, TypeOK
    <3> QED BY <1>1, <3>1, <3>2, <3>3
  <2>2. MainFacts'
    BY <1>1, <1>ty DEF ThreadSetsDone, ThreadEnds, ClientConnects, TypeOK, MainFacts
  <2>3. ParamsOutliveThread'
    BY <1>1, <1>ty DEF ThreadSetsDone, ThreadEnds, ClientConnects, TypeOK, ParamsOutliveThread
  <2> QED BY <2>1, <2>2, <2>3 DEF MainInv
<1>2. CASE Signal
  <2>1. TypeOK'
    BY <1>2, <1>ty DEF Signal, TypeOK, MainPCs
  <2>2. MainFacts' /\ ParamsOutliveThread'
    BY <1>2, <1>ty DEF Signal, MainFacts, ParamsOutliveThread
  <2> QED BY <2>1, <2>2 DEF MainInv
<1> QED BY <1>1, <1>2 DEF ThreadStep

\* The invariant holds in every reachable state.
LEMMA MainInvariant == Spec => []MainInv
<1>1. MainInv /\ UNCHANGED vars => MainInv'
  BY DEF MainInv, TypeOK, MainFacts, ParamsOutliveThread, vars, threadVars, listVars,
     walkVars, flagVars
<1>2. MainInv /\ [Next]_vars => MainInv'
  BY <1>1, MainStepInv, OtherStepInv DEF Next
<1> QED BY MainInit, <1>2, PTL DEF Spec

\* Whatever address malloc() hands out and whatever the list has become, its
\* pointers stay pointers to nodes (main.c:299-314, 382-406).
THEOREM MainTypeCorrect == Spec => []TypeOK
<1>1. MainInv => TypeOK
  BY DEF MainInv
<1> QED BY MainInvariant, <1>1, PTL

\* thread_params is freed (main.c:340, 396) only after its thread has returned,
\* even once main() walks over freed nodes: the thread's write of `done` never
\* goes to freed memory.
THEOREM ParamsFreedAfterReturn == Spec => []ParamsOutliveThread
<1>1. MainInv => ParamsOutliveThread
  BY DEF MainInv
<1> QED BY MainInvariant, <1>1, PTL

(***************************************************************************)
(* The order of the list.  Chain(k, s, h, nx): from the head h the links nx *)
(* lead through s[1] .. s[k] and end there.                                *)
(***************************************************************************)

Chain(k, s, h, nx) ==
  /\ \A i, j \in 1 .. k : s[i] = s[j] => i = j
  /\ h = IF k = 0 THEN Null ELSE s[1]
  /\ \A i \in 1 .. k : nx[s[i]] = IF i = k THEN Null ELSE s[i + 1]

Elements(k, s) == {s[i] : i \in 1 .. k}

\* s without its j-th element, and s with n behind its j-th element.
Without(k, s, j) == [i \in 1 .. k - 1 |-> IF i < j THEN s[i] ELSE s[i + 1]]
With(k, s, j, n) ==
  [i \in 1 .. k + 1 |-> IF i <= j THEN s[i] ELSE IF i = j + 1 THEN n ELSE s[i - 1]]

\* What SLIST_REMOVE of the j-th node and SLIST_INSERT_AFTER the j-th node do to
\* the head and the links.
Unlinks(s, h, nx, j, h2, nx2) ==
  \/ j = 1 /\ h2 = nx[s[1]] /\ nx2 = nx
  \/ j > 1 /\ h2 = h /\ nx2 = [nx EXCEPT ![s[j - 1]] = nx[s[j]]]
LinksAfter(s, nx, j, n, nx2) == nx2 = [[nx EXCEPT ![n] = nx[s[j]]] EXCEPT ![s[j]] = n]

\* What they do to a chain of k elements of A: the j-th is taken out, and n is put in
\* behind the j-th.
TakenOut(k, s, A, j, h2, nx2) ==
  LET t == Without(k, s, j)
  IN /\ k - 1 \in Nat /\ t \in [1 .. k - 1 -> A \ {s[j]}]
     /\ Chain(k - 1, t, h2, nx2)
     /\ Elements(k - 1, t) = Elements(k, s) \ {s[j]}
     /\ j < k => t[k - 1] = s[k]
PutIn(k, s, A, j, n, h, nx2) ==
  LET t == With(k, s, j, n)
  IN /\ k + 1 \in Nat /\ t \in [1 .. k + 1 -> A \cup {n}]
     /\ Chain(k + 1, t, h, nx2)
     /\ Elements(k + 1, t) = Elements(k, s) \cup {n}
     /\ j = k => t = [i \in 1 .. k + 1 |-> IF i <= k THEN s[i] ELSE n]

\* Linking past the j-th node leaves the others in their order.
LEMMA ChainWithout ==
  ASSUME NEW k \in Nat, NEW A, NEW s \in [1 .. k -> A], NEW h,
         NEW nx \in [Nodes -> Nodes \cup {Null}],
         A \subseteq Nodes, Chain(k, s, h, nx), NEW j \in 1 .. k, NEW h2, NEW nx2,
         Unlinks(s, h, nx, j, h2, nx2)
  PROVE  TakenOut(k, s, A, j, h2, nx2)
<1> DEFINE t == Without(k, s, j)
<1>1. \A i \in 1 .. k - 1 : t[i] = IF i < j THEN s[i] ELSE s[i + 1]
  BY DEF Without
<1>un. \/ j = 1 /\ h2 = nx[s[1]] /\ nx2 = nx
       \/ j > 1 /\ h2 = h /\ nx2 = [nx EXCEPT ![s[j - 1]] = nx[s[j]]]
  BY DEF Unlinks
<1>2. DOMAIN t = 1 .. k - 1 /\ t = [i \in 1 .. k - 1 |-> t[i]]
  BY DEF Without
<1> HIDE DEF t
<1>inj. \A i, m \in 1 .. k : s[i] = s[m] => i = m
  BY DEF Chain
<1>lk. \A i \in 1 .. k : nx[s[i]] = IF i = k THEN Null ELSE s[i + 1]
  BY DEF Chain
<1>k. k - 1 \in Nat
  OBVIOUS
<1>el. \A i \in 1 .. k : s[i] \in A /\ s[i] \in Nodes
  OBVIOUS
<1>3. \A i \in 1 .. k - 1 : t[i] \in A \ {s[j]}
  <2> TAKE i \in 1 .. k - 1
  <2>1. CASE i < j
    <3>1. t[i] = s[i] /\ i \in 1 .. k /\ i # j
      BY <2>1, <1>1
    <3> QED BY <3>1, <1>inj, <1>el
  <2>2. CASE ~(i < j)
    <3>1. t[i] = s[i + 1] /\ i + 1 \in 1 .. k /\ i + 1 # j
      BY <2>2, <1>1
    <3> QED BY <3>1, <1>inj, <1>el
  <2> QED BY <2>1, <2>2
<1>4. t \in [1 .. k - 1 -> A \ {s[j]}]
  BY <1>2, <1>3
<1>5. \A i, m \in 1 .. k - 1 : t[i] = t[m] => i = m
  <2> TAKE i, m \in 1 .. k - 1
  <2>1. PICK a \in 1 .. k : t[i] = s[a] /\ ((a = i /\ i < j) \/ (a = i + 1 /\ ~(i < j)))
    BY <1>1
  <2>2. PICK b \in 1 .. k : t[m] = s[b] /\ ((b = m /\ m < j) \/ (b = m + 1 /\ ~(m < j)))
    BY <1>1
  <2>3. t[i] = t[m] => a = b
    BY <2>1, <2>2, <1>inj
  <2> QED BY <2>1, <2>2, <2>3
<1>6. h2 = IF k - 1 = 0 THEN Null ELSE t[1]
  <2>1. CASE j = 1
    <3>1. h2 = IF k = 1 THEN Null ELSE s[2]
      BY <2>1, <1>lk, <1>un
    <3>2. k # 1 => t[1] = s[2]
      BY <2>1, <1>1
    <3> QED BY <3>1, <3>2
  <2>2. CASE j > 1
    <3>1. h2 = s[1] /\ k - 1 # 0 /\ t[1] = s[1]
      BY <2>2, <1>1, <1>un DEF Chain
    <3> QED BY <3>1
  <2> QED BY <2>1, <2>2
<1>7. \A i \in 1 .. k - 1 : nx2[t[i]] = IF i = k - 1 THEN Null ELSE t[i + 1]
  <2> TAKE i \in 1 .. k - 1
  <2>1. CASE j = 1
    <3>1. t[i] = s[i + 1] /\ nx2 = nx /\ i + 1 \in 1 .. k
      BY <2>1, <1>1, <1>un
    <3>2. i # k - 1 => t[i + 1] = s[i + 2]
      BY <2>1, <1>1
    <3>3. nx[s[i + 1]] = IF i + 1 = k THEN Null ELSE s[(i + 1) + 1]
      BY <3>1, <1>lk
    <3> QED BY <3>1, <3>2, <3>3
  <2>2. CASE j > 1
    <3>1. nx2 = [nx EXCEPT ![s[j - 1]] = nx[s[j]]] /\ j - 1 \in 1 .. k
      BY <2>2, <1>un
    <3>2. CASE i < j - 1
      <4>1. t[i] = s[i] /\ t[i + 1] = s[i + 1] /\ i # k - 1 /\ i \in 1 .. k /\ i # k
        BY <3>2, <1>1
      <4>2. s[i] # s[j - 1]
        BY <3>1, <3>2, <4>1, <1>inj
      <4>3. nx2[s[i]] = nx[s[i]]
        BY <3>1, <4>1, <4>2, <1>el
      <4> QED BY <4>1, <4>3, <1>lk
    <3>3. CASE i = j - 1
      <4>1. t[i] = s[j - 1] /\ nx2[s[j - 1]] = nx[s[j]]
        BY <3>1, <3>3, <1>1, <1>el
      <4>2. nx[s[j]] = IF j = k THEN Null ELSE s[j + 1]
        BY <1>lk
      <4>3. i # k - 1 => t[i + 1] = s[j + 1]
        BY <3>3, <1>1
      <4> QED BY <3>3, <4>1, <4>2, <4>3
    <3>4. CASE i > j - 1
      <4>1. t[i] = s[i + 1] /\ i + 1 \in 1 .. k /\ (i # k - 1 => t[i + 1] = s[(i + 1) + 1])
        BY <3>4, <1>1
      <4>2. s[i + 1] # s[j - 1]
        BY <3>1, <3>4, <4>1, <1>inj
      <4>3. nx2[s[i + 1]] = nx[s[i + 1]]
        BY <3>1, <4>1, <4>2, <1>el
      <4>4. nx[s[i + 1]] = IF i + 1 = k THEN Null ELSE s[(i + 1) + 1]
        BY <4>1, <1>lk
      <4> QED BY <4>1, <4>3, <4>4
    <3> QED BY <3>2, <3>3, <3>4
  <2> QED BY <2>1, <2>2
<1>8. Elements(k - 1, t) = Elements(k, s) \ {s[j]}
  <2>1. ASSUME NEW i \in 1 .. k - 1 PROVE t[i] \in Elements(k, s) \ {s[j]}
    <3>1. \E a \in 1 .. k : t[i] = s[a]
      BY <1>1
    <3> QED BY <3>1, <1>3 DEF Elements
  <2>2. ASSUME NEW i \in 1 .. k, s[i] # s[j] PROVE s[i] \in Elements(k - 1, t)
    <3>1. CASE i < j
      <4>1. i \in 1 .. k - 1 /\ t[i] = s[i]
        BY <3>1, <1>1
      <4> QED BY <4>1 DEF Elements
    <3>2. CASE i > j
      <4>1. i - 1 \in 1 .. k - 1 /\ t[i - 1] = s[(i - 1) + 1] /\ (i - 1) + 1 = i
        BY <3>2, <1>1
      <4> QED BY <4>1 DEF Elements
    <3>3. i # j
      BY <2>2
    <3> QED BY <3>1, <3>2, <3>3
  <2> QED BY <2>1, <2>2 DEF Elements
<1>9. j < k => t[k - 1] = s[k]
  BY <1>1
<1>10. Chain(k - 1, t, h2, nx2)
  BY <1>5, <1>6, <1>7 DEF Chain
<1> QED BY <1>k, <1>4, <1>8, <1>9, <1>10 DEF t, TakenOut

\* Linking a new node behind the j-th one puts it there.
LEMMA ChainWith ==
  ASSUME NEW k \in Nat, NEW A, NEW s \in [1 .. k -> A], NEW h,
         NEW nx \in [Nodes -> Nodes \cup {Null}],
         A \subseteq Nodes, Chain(k, s, h, nx), NEW j \in 1 .. k, NEW n \in Nodes \ A,
         NEW nx2, LinksAfter(s, nx, j, n, nx2)
  PROVE  PutIn(k, s, A, j, n, h, nx2)
<1> DEFINE t == With(k, s, j, n)
<1>1. \A i \in 1 .. k + 1 : t[i] = IF i <= j THEN s[i] ELSE IF i = j + 1 THEN n ELSE s[i - 1]
  BY DEF With
<1>2. DOMAIN t = 1 .. k + 1 /\ t = [i \in 1 .. k + 1 |-> t[i]]
  BY DEF With
<1>9. j = k => t = [i \in 1 .. k + 1 |-> IF i <= k THEN s[i] ELSE n]
  BY DEF With
<1> HIDE DEF t
<1>inj. \A i, m \in 1 .. k : s[i] = s[m] => i = m
  BY DEF Chain
<1>lk. \A i \in 1 .. k : nx[s[i]] = IF i = k THEN Null ELSE s[i + 1]
  BY DEF Chain
<1>el. \A i \in 1 .. k : s[i] \in A /\ s[i] \in Nodes /\ s[i] # n
  OBVIOUS
<1>4. t \in [1 .. k + 1 -> A \cup {n}]
  BY <1>1, <1>2, <1>el
<1>5. \A i, m \in 1 .. k + 1 : t[i] = t[m] => i = m
  <2> TAKE i, m \in 1 .. k + 1
  <2>1. \/ i = j + 1 /\ t[i] = n
        \/ \E a \in 1 .. k : t[i] = s[a] /\ ((a = i /\ i <= j) \/ (a = i - 1 /\ i > j + 1))
    BY <1>1
  <2>2. \/ m = j + 1 /\ t[m] = n
        \/ \E a \in 1 .. k : t[m] = s[a] /\ ((a = m /\ m <= j) \/ (a = m - 1 /\ m > j + 1))
    BY <1>1
  <2> QED BY <2>1, <2>2, <1>el, <1>inj
<1>6. h = t[1]
  BY <1>1 DEF Chain
<1>x. nx2 \in [Nodes -> Nodes \cup {Null} \cup {n}] /\ nx2[s[j]] = n /\ nx2[n] = nx[s[j]]
      /\ \A q \in Nodes : q # n /\ q # s[j] => nx2[q] = nx[q]
  BY <1>el DEF LinksAfter
<1>7. \A i \in 1 .. k + 1 : nx2[t[i]] = IF i = k + 1 THEN Null ELSE t[i + 1]
  <2> TAKE i \in 1 .. k + 1
  <2>1. CASE i < j
    <3>1. t[i] = s[i] /\ t[i + 1] = s[i + 1] /\ i \in 1 .. k /\ i # k /\ i # j
      BY <2>1, <1>1
    <3>2. s[i] # s[j]
      BY <3>1, <1>inj
    <3> QED BY <3>1, <3>2, <1>x, <1>el, <1>lk
  <2>2. CASE i = j
    <3>1. t[i] = s[j] /\ t[i + 1] = n /\ i # k + 1
      BY <2>2, <1>1
    <3> QED BY <3>1, <1>x
  <2>3. CASE i = j + 1
    <3>1. t[i] = n /\ (i # k + 1 => t[i + 1] = s[j + 1])
      BY <2>3, <1>1
    <3>2. nx[s[j]] = IF j = k THEN Null ELSE s[j + 1]
      BY <1>lk
    <3> QED BY <2>3, <3>1, <3>2, <1>x
  <2>4. CASE i > j + 1
    <3>1. t[i] = s[i - 1] /\ i - 1 \in 1 .. k /\ i - 1 # j /\ (i # k + 1 => t[i + 1] = s[i])
      BY <2>4, <1>1
    <3>2. s[i - 1] # s[j]
      BY <3>1, <1>inj
    <3>3. nx[s[i - 1]] = IF i - 1 = k THEN Null ELSE s[(i - 1) + 1]
      BY <3>1, <1>lk
    <3>4. (i - 1) + 1 = i /\ (i - 1 = k <=> i = k + 1)
      OBVIOUS
    <3> QED BY <3>1, <3>2, <3>3, <3>4, <1>x, <1>el
  <2> QED BY <2>1, <2>2, <2>3, <2>4
<1>8. Elements(k + 1, t) = Elements(k, s) \cup {n}
  <2>1. ASSUME NEW i \in 1 .. k + 1 PROVE t[i] \in Elements(k, s) \cup {n}
    <3>1. t[i] = n \/ \E a \in 1 .. k : t[i] = s[a]
      BY <1>1
    <3> QED BY <3>1 DEF Elements
  <2>2. ASSUME NEW i \in 1 .. k PROVE s[i] \in Elements(k + 1, t)
    <3>1. CASE i <= j
      <4>1. i \in 1 .. k + 1 /\ t[i] = s[i]
        BY <3>1, <1>1
      <4> QED BY <4>1 DEF Elements
    <3>2. CASE i > j
      <4>1. i + 1 \in 1 .. k + 1 /\ t[i + 1] = s[(i + 1) - 1] /\ (i + 1) - 1 = i
        BY <3>2, <1>1
      <4> QED BY <4>1 DEF Elements
    <3> QED BY <3>1, <3>2
  <2>3. n \in Elements(k + 1, t)
    <3>1. j + 1 \in 1 .. k + 1 /\ t[j + 1] = n
      BY <1>1
    <3> QED BY <3>1 DEF Elements
  <2> QED BY <2>1, <2>2, <2>3 DEF Elements
<1>10. Chain(k + 1, t, h, nx2)
  BY <1>5, <1>6, <1>7 DEF Chain
<1>11. k + 1 \in Nat
  OBVIOUS
<1> QED BY <1>4, <1>8, <1>9, <1>10, <1>11 DEF t, PutIn

\* A list through nodes is no longer than there are nodes.
LEMMA ChainLength ==
  ASSUME NEW k \in Nat, NEW s \in [1 .. k -> Nodes], \A i, j \in 1 .. k : s[i] = s[j] => i = j
  PROVE  k <= Cardinality(Nodes) /\ Cardinality(Nodes) \in Nat
<1>1. s \in Injection(1 .. k, Nodes)
  BY DEF Injection, IsInjective
<1>2. IsFiniteSet(1 .. k) /\ Cardinality(1 .. k) = k
  BY FS_Interval
<1> QED BY <1>1, <1>2, MainAssumption, FS_Injection, FS_CardinalityType

(***************************************************************************)
(* What the walks of MainThread meet on such a list.  Nth is a recursive   *)
(* function, that is any function that satisfies its equation: the chain   *)
(* itself satisfies it, and two functions that do have no least index at   *)
(* which they differ.                                                      *)
(***************************************************************************)

\* Every set of natural numbers that is not empty has a least one.
LEMMA SmallestElement ==
  ASSUME NEW S \in SUBSET Nat, S # {}
  PROVE  \E m \in S : \A k \in S : m <= k
<1> DEFINE R == OpToRel(<, Nat)
<1>1. IsWellFoundedOn(R, Nat)
  BY NatLessThanWellFounded
<1> HIDE DEF R
<1>2. PICK m \in S : \A k \in S : ~(<<k, m>> \in R)
  BY <1>1, WFMin
<1>3. \A k \in S : ~(k < m)
  BY <1>2 DEF R, OpToRel
<1> QED BY <1>3

\* The nodes that SLIST_FOREACH meets.
LEMMA NthOfChain ==
  ASSUME NEW k \in Nat, NEW s \in [1 .. k -> Nodes], Chain(k, s, head, next)
  PROVE  /\ \A i \in 0 .. Cardinality(Nodes) : Nth[i] = IF i < k THEN s[i + 1] ELSE Null
         /\ k <= Cardinality(Nodes) /\ Cardinality(Nodes) \in Nat
<1> DEFINE N == Cardinality(Nodes)
           Meets(f) == f = [i \in 0 .. N |-> IF i = 0 THEN head
                                             ELSE IF f[i - 1] = Null THEN Null ELSE next[f[i - 1]]]
           g == [i \in 0 .. N |-> IF i < k THEN s[i + 1] ELSE Null]
<1>1. k <= N /\ N \in Nat
  BY ChainLength DEF Chain
<1> HIDE DEF N
<1>2. \A i \in 0 .. N : g[i] = IF i < k THEN s[i + 1] ELSE Null
  OBVIOUS
<1>3. \A i \in 1 .. k : s[i] # Null /\ s[i] \in Nodes
  BY MainAssumption
<1>4. \A i \in 0 .. N : g[i] = IF i = 0 THEN head
                               ELSE IF g[i - 1] = Null THEN Null ELSE next[g[i - 1]]
  <2> TAKE i \in 0 .. N
  <2>1. CASE i = 0
    BY <2>1, <1>1, <1>2 DEF Chain
  <2>2. CASE i # 0 /\ i - 1 < k
    <3>1. g[i - 1] = s[i] /\ i \in 1 .. k
      BY <2>2, <1>1, <1>2
    <3>2. next[s[i]] = IF i = k THEN Null ELSE s[i + 1]
      BY <3>1 DEF Chain
    <3> QED BY <2>2, <3>1, <3>2, <1>2, <1>3
  <2>3. CASE i # 0 /\ ~(i - 1 < k)
    <3>1. g[i - 1] = Null /\ g[i] = Null
      BY <2>3, <1>1, <1>2
    <3> QED BY <2>3, <3>1
  <2> QED BY <2>1, <2>2, <2>3
<1>5. Meets(g)
  <2> HIDE DEF g
  <2>1. g = [i \in 0 .. N |-> g[i]]
    BY DEF g
  <2> QED BY <2>1, <1>4
<1>6. Meets(Nth)
  <2>1. Nth = CHOOSE f : Meets(f)
    BY DEF Nth, N
  <2> HIDE DEF Meets
  <2> QED BY <2>1, <1>5
<1>7. \A i \in 0 .. N : Nth[i] = IF i = 0 THEN head
                                 ELSE IF Nth[i - 1] = Null THEN Null ELSE next[Nth[i - 1]]
  BY <1>6
<1> HIDE DEF g, Meets
<1>8. \A i \in 0 .. N : Nth[i] = g[i]
  <2> DEFINE S == {i \in 0 .. N : Nth[i] # g[i]}
  <2> SUFFICES ASSUME S # {} PROVE FALSE
    OBVIOUS
  <2>1. S \in SUBSET Nat
    BY <1>1
  <2> HIDE DEF S
  <2>2. PICK m \in S : \A i \in S : m <= i
    BY <2>1, SmallestElement
  <2>3. m \in 0 .. N /\ Nth[m] # g[m]
    BY <2>2 DEF S
  <2>4. m # 0
    BY <2>3, <1>4, <1>7
  <2>5. m - 1 \in 0 .. N /\ m - 1 \notin S
    BY <2>2, <2>3, <2>4, <1>1
  <2>6. Nth[m - 1] = g[m - 1]
    BY <2>5 DEF S
  <2> QED BY <2>3, <2>4, <2>6, <1>4, <1>7
<1> QED BY <1>1, <1>2, <1>8 DEF N

\* They are those of the chain, and the walk meets its end.
LEMMA ListedIsChain ==
  ASSUME NEW k \in Nat, NEW s \in [1 .. k -> Nodes], Chain(k, s, head, next)
  PROVE  Listed = Elements(k, s) /\ Nth[Cardinality(Nodes)] = Null
<1>1. /\ \A i \in 0 .. Cardinality(Nodes) : Nth[i] = IF i < k THEN s[i + 1] ELSE Null
      /\ k <= Cardinality(Nodes) /\ Cardinality(Nodes) \in Nat
  BY NthOfChain
<1>2. Nth[Cardinality(Nodes)] = Null
  BY <1>1
<1>3. ASSUME NEW x \in Listed PROVE x \in Elements(k, s)
  <2>1. PICK i \in 0 .. Cardinality(Nodes) : x = Nth[i] /\ x # Null
    BY DEF Listed
  <2>2. i + 1 \in 1 .. k /\ x = s[i + 1]
    BY <2>1, <1>1
  <2> QED BY <2>2 DEF Elements
<1>4. ASSUME NEW i \in 1 .. k PROVE s[i] \in Listed
  <2>1. i - 1 \in 0 .. Cardinality(Nodes) /\ Nth[i - 1] = s[i] /\ s[i] # Null
    BY <1>1, MainAssumption
  <2> QED BY <2>1 DEF Listed
<1> QED BY <1>2, <1>3, <1>4 DEF Elements

\* So are the threads the registry of ThreadRegistry would hold.
LEMMA TrackedIsChain ==
  ASSUME NEW k \in Nat, NEW s \in [1 .. k -> Nodes], Chain(k, s, head, next)
  PROVE  Tracked = [i \in 1 .. k |-> owner[s[i]]]
<1> DEFINE full == {i \in 0 .. Cardinality(Nodes) : Nth[i] # Null}
<1>1. /\ \A i \in 0 .. Cardinality(Nodes) : Nth[i] = IF i < k THEN s[i + 1] ELSE Null
      /\ k <= Cardinality(Nodes) /\ Cardinality(Nodes) \in Nat
  BY NthOfChain
<1>2. \A i \in 1 .. k : s[i] # Null
  BY MainAssumption
<1>3. full = 0 .. k - 1
  BY <1>1, <1>2
<1>4. Cardinality(0 .. k - 1) = k
  BY FS_Interval
<1>5. Tracked = [i \in 1 .. k |-> owner[Nth[i - 1]]]
  BY <1>3, <1>4 DEF Tracked
<1>6. \A i \in 1 .. k : Nth[i - 1] = s[i]
  BY <1>1
<1> QED BY <1>5, <1>6

\* SLIST_REMOVE of the j-th node links the one in front of it past it.
LEMMA RemoveOfChain ==
  ASSUME NEW k \in Nat, NEW s \in [1 .. k -> Nodes], Chain(k, s, head, next),
         NEW j \in 1 .. k, Remove(s[j])
  PROVE  Unlinks(s, head, next, j, head', next')
<1> USE DEF Unlinks
<1>1. head = s[1] /\ (s[j] = s[1] => j = 1)
  BY DEF Chain
<1>2. CASE j = 1
  BY <1>1, <1>2 DEF Remove
<1>3. CASE j > 1
  <2>1. head # s[j]
    BY <1>1, <1>3
  <2>2. j - 1 \in 1 .. k /\ s[j - 1] \in Listed /\ next[s[j - 1]] = s[j]
    <3>1. j - 1 \in 1 .. k /\ j - 1 # k /\ (j - 1) + 1 = j
      BY <1>3
    <3>2. next[s[j - 1]] = s[j]
      BY <3>1 DEF Chain
    <3> QED BY <3>1, <3>2, ListedIsChain DEF Elements
  <2>3. ASSUME NEW p \in Listed, next[p] = s[j] PROVE p = s[j - 1]
    <3>1. PICK i \in 1 .. k : p = s[i]
      BY ListedIsChain DEF Elements
    <3>2. next[s[i]] = IF i = k THEN Null ELSE s[i + 1]
      BY DEF Chain
    <3>3. i # k /\ s[i + 1] = s[j] /\ i + 1 \in 1 .. k
      BY <2>3, <3>1, <3>2, MainAssumption
    <3>4. i + 1 = j
      BY <3>3 DEF Chain
    <3>5. i = j - 1
      BY <3>4
    <3> QED BY <3>1, <3>5
  <2>4. (CHOOSE p \in Listed : next[p] = s[j]) = s[j - 1]
    BY <2>2, <2>3
  <2> QED BY <1>3, <2>1, <2>4 DEF Remove
<1> QED BY <1>2, <1>3

\* The insertion of a new node leaves a chain.  Where last_thread_node is the last
\* of the list, the new node comes behind it; where it was freed and is on the list
\* no more, the new node is lost; where its address was used again, the new node
\* may go into the middle.
LEMMA InsertOfChain ==
  ASSUME TypeOK, NEW k \in Nat, NEW s \in [1 .. k -> live], Chain(k, s, head, next),
         NEW n \in Nodes \ live, Insert(n), head # Null => last # Null
  PROVE  \E k2 \in Nat : \E s2 \in [1 .. k2 -> live \cup {n}] :
           /\ Chain(k2, s2, head', next')
           /\ k = 0 \/ last = s[k] =>
                /\ k2 = k + 1
                /\ s2 = [i \in 1 .. k + 1 |-> IF i <= k THEN s[i] ELSE n]
                /\ Elements(k2, s2) = Elements(k, s) \cup {n}
<1>ty. live \subseteq Nodes /\ next \in [Nodes -> Nodes \cup {Null}] /\ last \in Nodes \cup {Null}
  BY DEF TypeOK
<1>h. head = (IF k = 0 THEN Null ELSE s[1]) /\ (k # 0 => head # Null)
  BY <1>ty, MainAssumption DEF Chain
<1>1. CASE k = 0
  <2> DEFINE t == [i \in 1 .. k + 1 |-> IF i <= k THEN s[i] ELSE n]
  <2>1. head' = n /\ next' = [next EXCEPT ![n] = Null]
    BY <1>1, <1>h DEF Insert
  <2>2. t \in [1 .. k + 1 -> live \cup {n}] /\ t[1] = n /\ 1 .. k + 1 = {1}
    BY <1>1
  <2> HIDE DEF t
  <2>3. next'[n] = Null
    BY <2>1, <1>ty
  <2>4. Chain(k + 1, t, head', next')
    BY <1>1, <2>1, <2>2, <2>3 DEF Chain
  <2>5. Elements(k + 1, t) = Elements(k, s) \cup {n}
    BY <1>1, <2>2 DEF Elements
  <2>6. k + 1 \in Nat
    OBVIOUS
  <2> QED BY <2>2, <2>4, <2>5, <2>6 DEF t
<1>2. CASE k # 0
  <2>1. /\ next' = [[next EXCEPT ![n] = next[last]] EXCEPT ![last] = n]
        /\ head' = head /\ last \in Nodes
    BY <1>2, <1>h, <1>ty DEF Insert
  <2>2. CASE last \in Elements(k, s)
    <3>1. PICK j \in 1 .. k : last = s[j]
      BY <2>2 DEF Elements
    <3>2. /\ With(k, s, j, n) \in [1 .. k + 1 -> live \cup {n}]
          /\ Chain(k + 1, With(k, s, j, n), head', next')
          /\ Elements(k + 1, With(k, s, j, n)) = Elements(k, s) \cup {n}
          /\ j = k => With(k, s, j, n) = [i \in 1 .. k + 1 |-> IF i <= k THEN s[i] ELSE n]
      <4>1. LinksAfter(s, next, j, n, next')
        BY <2>1, <3>1 DEF LinksAfter
      <4>2. PutIn(k, s, live, j, n, head, next')
        BY <4>1, <1>ty, ChainWith
      <4> QED BY <2>1, <4>2 DEF PutIn
    <3>3. last = s[k] => j = k
      <4>1. k \in 1 .. k
        BY <1>2
      <4> QED BY <3>1, <4>1 DEF Chain
    <3>4. k + 1 \in Nat
      OBVIOUS
    <3> QED BY <3>2, <3>3, <3>4, <1>2
  <2>3. CASE last \notin Elements(k, s)
    <3>1. \A i \in 1 .. k : s[i] \in Nodes /\ s[i] # n /\ s[i] # last
      BY <2>3, <1>ty DEF Elements
    <3>2. \A q \in Nodes : q # n /\ q # last => next'[q] = next[q]
      BY <2>1, <1>ty
    <3>3. \A i \in 1 .. k : next'[s[i]] = next[s[i]]
      BY <3>1, <3>2
    <3>4. Chain(k, s, head', next')
      BY <2>1, <3>3 DEF Chain
    <3>5. s \in [1 .. k -> live \cup {n}] /\ last # s[k]
      BY <3>1, <1>2
    <3> QED BY <3>4, <3>5, <1>2
  <2> QED BY <2>2, <2>3
<1> QED BY <1>1, <1>2

(***************************************************************************)
(* The invariant of the list.  There is always a chain of allocated nodes, *)
(* even in a list that has lost some; until main() has used a freed node   *)
(* it holds them all, and last_thread_node is its end or freed.  The walk  *)
(* of handle_completed_threads stands on the chain or on what it has freed *)
(* itself: it stays in a set W that links do not leave and whose allocated *)
(* members are on the chain.                                               *)
(***************************************************************************)

WalkIn(k, s, W) ==
  /\ W \subseteq Nodes \cup {Null} /\ {node, prev} \subseteq W
  /\ W \cap live \subseteq Elements(k, s)
  /\ \A w \in W \ {Null} : next[w] \in W

AllListed(k, s) ==
  ~stale => live = Elements(k, s) /\ (k > 0 /\ last \in live => last = s[k])

ChainInv ==
  \E k \in Nat : \E s \in [1 .. k -> live] :
    /\ Chain(k, s, head, next)
    /\ AllListed(k, s)
    /\ mpc = "reap" => \E W : WalkIn(k, s, W)

\* Whom the nodes belong to.
ThreadFacts ==
  /\ \A c \in Conns :
       thread[c] \in {"absent", "waiting", "accepted", "refused"} => params[c] = "none"
  /\ \A c \in Conns : thread[c] \in {"running", "returning"} => params[c] = "live"
  /\ mpc = "link" => params[cur] = "live"
  /\ unexpected => mpc \notin {"enter", "accept", "reap", "spawn", "link"}
  /\ mpc \in {"destroy", "delete", "exited"} => head = Null
  /\ ~mutex => mpc \in {"delete", "exited"}

\* A thread that was started and not joined, but for the one whose node is not
\* linked yet or could not be allocated.
ToBeJoined(c) == params[c] = "live" /\ ~(c = cur /\ (mpc = "link" \/ unexpected))

OwnerInv ==
  ~stale =>
    /\ \A n, m \in live : owner[n] = owner[m] => n = m
    /\ \A n \in live : ToBeJoined(owner[n])
    /\ \A c \in Conns : ToBeJoined(c) => \E n \in live : owner[n] = c

ListInv == MainInv /\ ChainInv /\ ThreadFacts /\ OwnerInv

\* A list that is not empty begins with an allocated node, lost nodes or not.
LEMMA HeadAllocated ==
  ASSUME ListInv, head # Null
  PROVE  head \in live
<1>1. PICK k \in Nat : \E s \in [1 .. k -> live] : Chain(k, s, head, next)
  BY DEF ListInv, ChainInv
<1>2. PICK s \in [1 .. k -> live] : Chain(k, s, head, next)
  BY <1>1
<1>3. 1 \in 1 .. k /\ head = s[1]
  BY <1>2 DEF Chain
<1> QED BY <1>3

\* The initial state has the invariant.
LEMMA ListInit == Init => ListInv
<1> SUFFICES ASSUME Init PROVE ListInv
  OBVIOUS
<1>1. ChainInv
  <2> DEFINE s == [i \in 1 .. 0 |-> Null]
  <2>1. s \in [1 .. 0 -> live] /\ 1 .. 0 = {}
    OBVIOUS
  <2>2. Chain(0, s, head, next) /\ AllListed(0, s)
    BY <2>1 DEF Init, Chain, AllListed, Elements
  <2> QED BY <2>1, <2>2 DEF Init, ChainInv
<1>2. ThreadFacts /\ OwnerInv
  BY DEF Init, ThreadFacts, OwnerInv, ToBeJoined
<1> QED BY <1>1, <1>2, MainInit DEF ListInv

\* A step that leaves the list alone keeps its chain.
LEMMA ChainKept ==
  ASSUME ChainInv, UNCHANGED <<head, next, live, last, stale, node, prev>>,
         mpc' = "reap" => mpc = "reap"
  PROVE  ChainInv'
<1>0. PICK k \in Nat : \E s \in [1 .. k -> live] :
        /\ Chain(k, s, head, next)
        /\ AllListed(k, s)
        /\ mpc = "reap" => \E W : WalkIn(k, s, W)
  BY DEF ChainInv
<1>1. PICK s \in [1 .. k -> live] :
        /\ Chain(k, s, head, next)
        /\ AllListed(k, s)
        /\ mpc = "reap" => \E W : WalkIn(k, s, W)
  BY <1>0
<1>2. AllListed(k, s)'
  BY <1>1 DEF AllListed
<1>3. ASSUME mpc' = "reap" PROVE \E W : WalkIn(k, s, W)'
  <2>1. PICK W : WalkIn(k, s, W)
    BY <1>1, <1>3
  <2>2. WalkIn(k, s, W)'
    BY <2>1 DEF WalkIn
  <2> QED BY <2>2
<1> QED BY <1>1, <1>2, <1>3 DEF ChainInv

\* Joining a listed thread and freeing its node takes the node out of the chain
\* and the thread out of those to be joined.
LEMMA JoinAndFreeList ==
  ASSUME ListInv, NEW k \in Nat, NEW s \in [1 .. k -> live], Chain(k, s, head, next),
         AllListed(k, s), NEW j \in 1 .. k, JoinAndFree(s[j])
  PROVE  /\ k - 1 \in Nat /\ Without(k, s, j) \in [1 .. k - 1 -> live']
         /\ Chain(k - 1, Without(k, s, j), head', next')
         /\ Elements(k - 1, Without(k, s, j)) = Elements(k, s) \ {s[j]}
         /\ stale' = stale => AllListed(k - 1, Without(k, s, j))'
         /\ \/ j = 1 /\ next' = next
            \/ j > 1 /\ next' = [next EXCEPT ![s[j - 1]] = next[s[j]]]
<1>1. /\ s \in [1 .. k -> Nodes] /\ live \subseteq Nodes /\ s[j] \in live
      /\ next \in [Nodes -> Nodes \cup {Null}]
  BY DEF ListInv, MainInv, TypeOK
<1>2. Remove(s[j]) /\ live' = live \ {s[j]} /\ last' = last
  BY DEF JoinAndFree
<1>3. Unlinks(s, head, next, j, head', next')
  BY <1>1, <1>2, RemoveOfChain
<1>4. /\ k - 1 \in Nat
      /\ Without(k, s, j) \in [1 .. k - 1 -> live \ {s[j]}]
      /\ Chain(k - 1, Without(k, s, j), head', next')
      /\ Elements(k - 1, Without(k, s, j)) = Elements(k, s) \ {s[j]}
      /\ j < k => Without(k, s, j)[k - 1] = s[k]
  <2>1. TakenOut(k, s, live, j, head', next')
    BY <1>1, <1>3, ChainWithout
  <2> QED BY <2>1 DEF TakenOut
<1>5. ASSUME stale' = stale PROVE AllListed(k - 1, Without(k, s, j))'
  <2> SUFFICES ASSUME ~stale
               PROVE  /\ live' = Elements(k - 1, Without(k, s, j))
                      /\ k - 1 > 0 /\ last' \in live' => last' = Without(k, s, j)[k - 1]
    BY <1>5 DEF AllListed
  <2>1. live = Elements(k, s) /\ (k > 0 /\ last \in live => last = s[k])
    BY DEF AllListed
  <2>2. last' \in live' => last = s[k] /\ j # k
    BY <1>2, <2>1
  <2> QED BY <1>2, <1>4, <2>1, <2>2
<1> QED BY <1>2, <1>3, <1>4, <1>5 DEF Unlinks

\* Every step keeps the chain.
LEMMA ChainStep ==
  ASSUME ListInv, [Next]_vars
  PROVE  ChainInv'
<1> USE DEF threadVars, listVars, walkVars, flagVars, Goto
<1>ty. /\ TypeOK /\ MainFacts
       /\ next \in [Nodes -> Nodes \cup {Null}] /\ live \subseteq Nodes /\ Null \notin Nodes
  BY MainAssumption DEF ListInv, MainInv, TypeOK
<1>k. PICK k \in Nat : \E s \in [1 .. k -> live] :
        /\ Chain(k, s, head, next)
        /\ AllListed(k, s)
        /\ mpc = "reap" => \E W : WalkIn(k, s, W)
  BY DEF ListInv, ChainInv
<1>s. PICK s \in [1 .. k -> live] :
        /\ Chain(k, s, head, next)
        /\ AllListed(k, s)
        /\ mpc = "reap" => \E W : WalkIn(k, s, W)
  BY <1>k
<1>el. Elements(k, s) \subseteq live /\ s \in [1 .. k -> Nodes]
  BY <1>ty DEF Elements
<1>1. CASE /\ UNCHANGED <<head, next, live, last, stale, node, prev>>
           /\ mpc' = "reap" => mpc = "reap"
  BY <1>1, ChainKept DEF ListInv
<1>2. ASSUME NEW c \in Conns, Accept(c) PROVE ChainInv'
  <2>1. /\ UNCHANGED <<head, next, live, last, stale>> /\ node' = head /\ prev' = head
    BY <1>2 DEF Accept
  <2>2. AllListed(k, s)'
    BY <1>s, <2>1 DEF AllListed
  <2> DEFINE W == Elements(k, s) \cup {Null}
  <2>3. head \in W
    BY <1>s DEF Chain, Elements
  <2>4. ASSUME NEW w \in W \ {Null} PROVE next[w] \in W
    <3>1. PICK i \in 1 .. k : w = s[i]
      BY DEF Elements
    <3>2. next[s[i]] = IF i = k THEN Null ELSE s[i + 1]
      BY <1>s DEF Chain
    <3>3. i # k => s[i + 1] \in Elements(k, s)
      BY DEF Elements
    <3> QED BY <3>1, <3>2, <3>3
  <2>5. WalkIn(k, s, W)'
    BY <1>ty, <1>el, <2>1, <2>3, <2>4 DEF WalkIn
  <2> HIDE DEF W
  <2> QED BY <1>s, <2>1, <2>2, <2>5 DEF ChainInv
<1>3. ASSUME mpc = "reap", mpc' = "reap", UNCHANGED <<head, next, live, last>>,
             (stale' = stale) \/ stale',
             node \in Nodes, node' = next[node], prev' = node
      PROVE  ChainInv'
  <2>1. PICK W : WalkIn(k, s, W)
    BY <1>3, <1>s
  <2>2. WalkIn(k, s, W)'
    BY <1>3, <1>ty, <2>1 DEF WalkIn
  <2>3. AllListed(k, s)'
    BY <1>3, <1>s DEF AllListed
  <2> QED BY <1>3, <1>s, <2>2, <2>3 DEF ChainInv
<1>4. CASE SkipNode
  BY <1>3, <1>4, <1>ty DEF SkipNode
<1>5. CASE ReapFreedNode
  <2>1. CASE mpc' = "crashed"
    <3>1. AllListed(k, s)'
      BY <1>5, <1>s DEF ReapFreedNode, AllListed
    <3> QED BY <1>5, <1>s, <2>1, <3>1 DEF ReapFreedNode, ChainInv
  <2>2. CASE mpc' # "crashed"
    BY <1>3, <1>5, <2>2, <1>ty DEF ReapFreedNode
  <2> QED BY <2>1, <2>2
<1>6. CASE ReapNode
  <2>1. /\ mpc = "reap" /\ node \in live /\ JoinAndFree(node) /\ node' = next'[prev] /\ prev' = prev
        /\ stale' = (stale \/ prev \notin live') /\ mpc' = mpc /\ prev # Null
    BY <1>6, <1>ty DEF ReapNode, MainFacts
  <2>2. PICK W : WalkIn(k, s, W)
    BY <2>1, <1>s
  <2>3. PICK j \in 1 .. k : node = s[j]
    BY <2>1, <2>2 DEF WalkIn, Elements
  <2>4. live' = live \ {s[j]} /\ last' = last
    BY <2>1, <2>3 DEF JoinAndFree
  <2> DEFINE t == Without(k, s, j)
  <2>5. /\ k - 1 \in Nat /\ t \in [1 .. k - 1 -> live']
        /\ Chain(k - 1, t, head', next')
        /\ Elements(k - 1, t) = Elements(k, s) \ {s[j]}
        /\ stale' = stale => AllListed(k - 1, t)'
        /\ \/ j = 1 /\ next' = next
           \/ j > 1 /\ next' = [next EXCEPT ![s[j - 1]] = next[s[j]]]
    BY <1>s, <2>1, <2>3, JoinAndFreeList
  <2> HIDE DEF t
  <2>6. AllListed(k - 1, t)'
    <3>1. CASE stale' = stale
      BY <2>5, <3>1
    <3>2. CASE stale' # stale
      BY <2>1, <3>2, <1>ty DEF AllListed, TypeOK
    <3> QED BY <3>1, <3>2
  <2>7. ASSUME NEW w \in W \ {Null} PROVE next'[w] \in W
    <3>1. w \in Nodes /\ next[w] \in W /\ next[s[j]] \in W
      BY <1>ty, <2>1, <2>2, <2>3 DEF WalkIn
    <3>2. next'[w] \in {next[w], next[s[j]]}
      BY <3>1, <1>ty, <2>5
    <3> QED BY <3>1, <3>2
  <2>8. WalkIn(k - 1, t, W)'
    <3>1. W \cap live' \subseteq Elements(k - 1, t)
      BY <2>2, <2>4, <2>5 DEF WalkIn
    <3>2. node' \in W /\ prev' \in W
      BY <2>1, <2>2, <2>7 DEF WalkIn
    <3> QED BY <2>2, <2>7, <3>1, <3>2 DEF WalkIn
  <2> QED BY <2>5, <2>6, <2>8 DEF ChainInv
<1>7. CASE Link
  <2>1. PICK n \in Nodes \ live : live' = live \cup {n} /\ Insert(n) /\ last' = n
    BY <1>7 DEF Link
  <2>2. mpc' = "check" /\ stale' = (stale \/ (head # Null /\ last \notin live))
    BY <1>7 DEF Link
  <2>3. PICK k2 \in Nat : \E s2 \in [1 .. k2 -> live \cup {n}] :
           /\ Chain(k2, s2, head', next')
           /\ k = 0 \/ last = s[k] =>
                /\ k2 = k + 1
                /\ s2 = [i \in 1 .. k + 1 |-> IF i <= k THEN s[i] ELSE n]
                /\ Elements(k2, s2) = Elements(k, s) \cup {n}
    BY <1>s, <1>ty, <2>1, InsertOfChain DEF MainFacts
  <2>4. PICK s2 \in [1 .. k2 -> live \cup {n}] :
           /\ Chain(k2, s2, head', next')
           /\ k = 0 \/ last = s[k] =>
                /\ k2 = k + 1
                /\ s2 = [i \in 1 .. k + 1 |-> IF i <= k THEN s[i] ELSE n]
                /\ Elements(k2, s2) = Elements(k, s) \cup {n}
    BY <2>3
  <2>5. AllListed(k2, s2)'
    <3> SUFFICES ASSUME ~stale'
                 PROVE  live' = Elements(k2, s2) /\ (k2 > 0 => last' = s2[k2])
      BY DEF AllListed
    <3>1. ~stale /\ (head # Null => last \in live)
      BY <2>2
    <3>2. k # 0 => head # Null
      BY <1>s, <1>ty, <1>el DEF Chain
    <3>3. k = 0 \/ last = s[k]
      BY <1>s, <3>1, <3>2 DEF AllListed
    <3>4. live = Elements(k, s)
      BY <1>s, <3>1 DEF AllListed
    <3>5. k + 1 \in 1 .. k + 1 /\ ~(k + 1 <= k)
      OBVIOUS
    <3> QED BY <2>1, <2>4, <3>3, <3>4, <3>5
  <2> QED BY <2>1, <2>2, <2>4, <2>5 DEF ChainInv
<1>8. CASE JoinFirst
  <2>1. /\ mpc = "join" /\ head # Null /\ JoinAndFree(head) /\ mpc' = mpc /\ stale' = stale
    BY <1>8 DEF JoinFirst
  <2>2. k \in Nat /\ 1 \in 1 .. k /\ head = s[1]
    BY <1>s, <2>1 DEF Chain
  <2> DEFINE t == Without(k, s, 1)
  <2>3. /\ k - 1 \in Nat /\ t \in [1 .. k - 1 -> live']
        /\ Chain(k - 1, t, head', next')
        /\ AllListed(k - 1, t)'
    BY <1>s, <2>1, <2>2, JoinAndFreeList
  <2> HIDE DEF t
  <2> QED BY <2>1, <2>3 DEF ChainInv
<1>9. CASE MainStep \/ AcceptFails
  <2>1. CASE Check \/ EnterAccept \/ AcceptFails \/ ReapEnds \/ JoinEnds \/ DeleteTimer
    BY <2>1, <1>1 DEF Check, EnterAccept, AcceptFails, ReapEnds, JoinEnds, DeleteTimer, GoOn
  <2>2. CASE Spawn \/ SpawnFails \/ LinkFails \/ DestroyMutex
    BY <2>2, <1>1 DEF Spawn, SpawnFails, LinkFails, DestroyMutex
  <2> QED BY <1>2, <1>4, <1>5, <1>6, <1>7, <1>8, <1>9, <2>1, <2>2 DEF MainStep
<1>10. CASE (\E c \in Conns : ThreadStep(c) \/ ClientConnects(c)) \/ Signal
  BY <1>10, <1>1 DEF ThreadStep, ThreadSetsDone, ThreadEnds, ClientConnects, Signal
<1>11. CASE UNCHANGED vars
  BY <1>11, <1>1 DEF vars
<1> QED BY <1>9, <1>10, <1>11 DEF Next

\* What a thread has been through says whether its parameters are there.
LEMMA ThreadStepFacts ==
  ASSUME ListInv, [Next]_vars
  PROVE  ThreadFacts'
<1> USE DEF ThreadFacts, threadVars, listVars, walkVars, flagVars, Goto
<1>ty. /\ thread \in [Conns -> {"absent", "waiting", "accepted", "running", "returning", "ended",
                                "refused"}]
       /\ params \in [Conns -> {"none", "live", "freed"}]
       /\ live \subseteq Nodes /\ mpc \in MainPCs
       /\ ThreadFacts /\ MainFacts
  BY DEF ListInv, MainInv, TypeOK
<1>1. ASSUME NEW n \in Nodes, JoinAndFree(n), mpc \in {"reap", "join"},
             UNCHANGED <<thread, mpc, mutex, unexpected>>
      PROVE  ThreadFacts'
  BY <1>1, <1>ty DEF JoinAndFree, Joined
<1>2. ASSUME NEW l, NEW m, GoOn(l, m),
             m \in {"destroy", "delete", "exited"} => head = Null,
             unexpected => m \notin {"enter", "accept", "reap", "spawn", "link"}, m # "link",
             ~mutex => m \in {"delete", "exited"}
      PROVE  ThreadFacts'
  BY <1>2, <1>ty DEF GoOn
<1>3. CASE Check \/ EnterAccept \/ AcceptFails \/ ReapEnds \/ JoinEnds \/ DeleteTimer
  BY <1>2, <1>3, <1>ty DEF Check, EnterAccept, AcceptFails, ReapEnds, JoinEnds, DeleteTimer, GoOn
<1>4. ASSUME NEW c \in Conns, Accept(c) PROVE ThreadFacts'
  BY <1>4, <1>ty DEF Accept
<1>5. CASE SkipNode \/ ReapFreedNode
  BY <1>5, <1>ty DEF SkipNode, ReapFreedNode
<1>6. CASE ReapNode
  BY <1>1, <1>6, <1>ty DEF ReapNode
<1>7. CASE Spawn
  BY <1>7, <1>ty DEF Spawn, MainFacts
<1>8. CASE SpawnFails
  BY <1>8, <1>ty DEF SpawnFails, MainFacts
<1>9. CASE Link \/ LinkFails
  BY <1>9, <1>ty DEF Link, LinkFails
<1>10. CASE JoinFirst
  <2>1. head \in Nodes
    BY <1>10 DEF JoinFirst, ListInv, MainInv, TypeOK
  <2> QED BY <1>1, <1>10, <2>1 DEF JoinFirst
<1>11. CASE DestroyMutex
  BY <1>11, <1>ty DEF DestroyMutex
<1>12. ASSUME NEW c \in Conns, ThreadStep(c) \/ ClientConnects(c) PROVE ThreadFacts'
  <2>1. CASE ThreadSetsDone(c)
    BY <2>1, <1>ty DEF ThreadSetsDone
  <2>2. CASE ThreadEnds(c)
    BY <2>2, <1>ty DEF ThreadEnds
  <2>3. CASE ClientConnects(c)
    BY <2>3, <1>ty DEF ClientConnects
  <2> QED BY <1>12, <2>1, <2>2, <2>3 DEF ThreadStep
<1>13. CASE Signal
  BY <1>13, <1>ty DEF Signal
<1>14. CASE UNCHANGED vars
  BY <1>14, <1>ty DEF vars
<1> QED
  BY <1>3, <1>4, <1>5, <1>6, <1>7, <1>8, <1>9, <1>10, <1>11, <1>12, <1>13, <1>14
  DEF Next, MainStep

\* Each thread to be joined has one node, and each node such a thread.
LEMMA OwnerStep ==
  ASSUME ListInv, [Next]_vars
  PROVE  OwnerInv'
<1> USE DEF ToBeJoined, threadVars, listVars, walkVars, flagVars, Goto
<1> SUFFICES ASSUME ~stale' PROVE OwnerInv'
  BY DEF OwnerInv
<1>ty. /\ params \in [Conns -> {"none", "live", "freed"}]
       /\ live \subseteq Nodes /\ \A n \in live : owner[n] \in Conns
       /\ owner \in [Nodes -> Conns \cup {Null}]
       /\ head \in Nodes \cup {Null} /\ cur \in Conns \cup {Null}
       /\ ThreadFacts /\ MainFacts
  BY DEF ListInv, MainInv, TypeOK
<1>st. ~stale
  BY DEF Next, MainStep, Check, EnterAccept, AcceptFails, ReapEnds, JoinEnds, DeleteTimer, GoOn,
         Accept, SkipNode, ReapNode, ReapFreedNode, Spawn, SpawnFails, Link, LinkFails, JoinFirst,
         DestroyMutex, ThreadStep, ThreadSetsDone, ThreadEnds, ClientConnects, Signal, vars
<1>ow. /\ \A n, m \in live : owner[n] = owner[m] => n = m
       /\ \A n \in live : ToBeJoined(owner[n])
       /\ \A c \in Conns : ToBeJoined(c) => \E n \in live : owner[n] = c
  BY <1>st DEF ListInv, OwnerInv
<1>1. ASSUME UNCHANGED <<live, owner, params>>,
             \A c \in Conns : c = cur /\ (mpc = "link" \/ unexpected)
                              <=> c = cur' /\ (mpc' = "link" \/ unexpected')
      PROVE  OwnerInv'
  <2>1. \A c \in Conns : ToBeJoined(c)' <=> ToBeJoined(c)
    BY <1>1
  <2>2. \A n \in live' : ToBeJoined(owner[n])'
    BY <1>1, <1>ty, <1>ow
  <2>3. \A c \in Conns : ToBeJoined(c)' => \E n \in live' : owner'[n] = c
    BY <1>1, <1>ow, <2>1
  <2> QED BY <1>1, <1>ow, <2>2, <2>3 DEF OwnerInv
<1>2. ASSUME NEW n \in live, JoinAndFree(n), UNCHANGED <<cur, mpc, unexpected>>
      PROVE  OwnerInv'
  <2>1. /\ params' = [params EXCEPT ![owner[n]] = "freed"] /\ live' = live \ {n} /\ owner' = owner
        /\ owner[n] \in Conns
    BY <1>2, <1>ty DEF JoinAndFree
  <2>2. \A c \in Conns : ToBeJoined(c)' <=> ToBeJoined(c) /\ c # owner[n]
    BY <1>2, <1>ty, <2>1
  <2>3. \A m \in live' : owner'[m] \in Conns /\ owner'[m] # owner[n] /\ ToBeJoined(owner[m])
    BY <1>ow, <1>ty, <2>1
  <2>4. \A m \in live' : ToBeJoined(owner[m])'
    <3> TAKE m \in live'
    <3>1. ToBeJoined(owner[m]) /\ owner[m] \in Conns /\ owner[m] # owner[n] /\ owner' = owner
      BY <2>1, <2>3
    <3> QED BY <1>2, <1>ty, <2>1, <3>1
  <2>5. \A c \in Conns : ToBeJoined(c)' => \E m \in live' : owner'[m] = c
    <3> SUFFICES ASSUME NEW c \in Conns, ToBeJoined(c)' PROVE \E m \in live' : owner'[m] = c
      OBVIOUS
    <3>1. ToBeJoined(c) /\ c # owner[n]
      BY <2>2
    <3>2. PICK m \in live : owner[m] = c
      BY <1>ow, <3>1
    <3> QED BY <2>1, <3>1, <3>2
  <2>6. \A m, q \in live' : owner'[m] = owner'[q] => m = q
    BY <1>ow, <2>1
  <2> QED BY <2>4, <2>5, <2>6 DEF OwnerInv
<1>3. CASE Check \/ EnterAccept \/ AcceptFails \/ ReapEnds \/ JoinEnds \/ DeleteTimer
  BY <1>1, <1>3, <1>ty DEF ThreadFacts, Check, EnterAccept, AcceptFails, ReapEnds, JoinEnds,
     DeleteTimer, GoOn
<1>4. ASSUME NEW c \in Conns, Accept(c) PROVE OwnerInv'
  BY <1>1, <1>4, <1>ty DEF Accept, ThreadFacts
<1>5. CASE SkipNode \/ ReapFreedNode
  BY <1>1, <1>5, <1>ty DEF SkipNode, ReapFreedNode
<1>6. CASE ReapNode
  BY <1>2, <1>6 DEF ReapNode
<1>7. CASE Spawn
  <2>1. /\ mpc = "spawn" /\ mpc' = "link" /\ params' = [params EXCEPT ![cur] = "live"]
        /\ UNCHANGED <<live, owner, cur, unexpected>>
        /\ cur \in Conns /\ params[cur] = "none" /\ ~unexpected
    BY <1>7, <1>ty DEF Spawn, MainFacts, ThreadFacts
  <2>2. \A c \in Conns : ToBeJoined(c)' <=> ToBeJoined(c)
    BY <1>ty, <2>1
  <2>3. \A n \in live : ToBeJoined(owner[n])'
    <3> TAKE n \in live
    <3>1. owner[n] \in Conns /\ ToBeJoined(owner[n]) /\ owner[n] # cur /\ owner' = owner
      BY <1>ow, <1>ty, <2>1
    <3> QED BY <1>ty, <2>1, <3>1
  <2>4. \A c \in Conns : ToBeJoined(c)' => \E n \in live' : owner'[n] = c
    BY <1>ow, <2>1, <2>2
  <2> QED BY <1>ow, <2>1, <2>3, <2>4 DEF OwnerInv
<1>8. CASE SpawnFails
  <2>1. /\ mpc = "spawn" /\ mpc' = "check" /\ unexpected' = TRUE
        /\ UNCHANGED <<live, owner, cur, params>>
        /\ cur \in Conns /\ params[cur] = "none" /\ ~unexpected
    BY <1>8, <1>ty DEF SpawnFails, MainFacts, ThreadFacts
  <2>2. \A c \in Conns : ToBeJoined(c)' <=> ToBeJoined(c)
    BY <1>ty, <2>1
  <2>3. \A n \in live : ToBeJoined(owner[n])'
    BY <1>ow, <1>ty, <2>1
  <2>4. \A c \in Conns : ToBeJoined(c)' => \E n \in live' : owner'[n] = c
    BY <1>ow, <2>1, <2>2
  <2> QED BY <1>ow, <2>1, <2>3, <2>4 DEF OwnerInv
<1>9. CASE Link
  <2>1. PICK n \in Nodes \ live :
          live' = live \cup {n} /\ owner' = [owner EXCEPT ![n] = cur]
    BY <1>9 DEF Link
  <2>2. /\ mpc = "link" /\ mpc' = "check" /\ UNCHANGED <<params, cur, unexpected>>
        /\ cur \in Conns /\ params[cur] = "live" /\ ~unexpected
    BY <1>9, <1>ty DEF Link, MainFacts, ThreadFacts
  <2>3. owner'[n] = cur /\ \A m \in live : owner'[m] = owner[m] /\ owner[m] # cur /\ m # n
    BY <1>ow, <1>ty, <2>1, <2>2
  <2>4. \A c \in Conns : ToBeJoined(c)' <=> ToBeJoined(c) \/ c = cur
    BY <2>2
  <2>5. \A m \in live' : ToBeJoined(owner[m])'
    BY <1>ow, <1>ty, <2>1, <2>2, <2>3
  <2>6. \A c \in Conns : ToBeJoined(c)' => \E m \in live' : owner'[m] = c
    <3> SUFFICES ASSUME NEW c \in Conns, ToBeJoined(c)' PROVE \E m \in live' : owner'[m] = c
      OBVIOUS
    <3>1. CASE c = cur
      BY <2>1, <2>3, <3>1
    <3>2. CASE c # cur
      <4>1. PICK m \in live : owner[m] = c
        BY <1>ow, <2>4, <3>2
      <4> QED BY <2>1, <2>3, <4>1
    <3> QED BY <3>1, <3>2
  <2>7. \A m, q \in live' : owner'[m] = owner'[q] => m = q
    BY <1>ow, <2>1, <2>3
  <2> QED BY <2>5, <2>6, <2>7 DEF OwnerInv
<1>10. CASE LinkFails
  BY <1>1, <1>10, <1>ty DEF LinkFails, ThreadFacts
<1>11. CASE JoinFirst
  <2>1. JoinAndFree(head) /\ UNCHANGED <<cur, mpc, unexpected>> /\ head # Null
    BY <1>11 DEF JoinFirst
  <2>2. head \in live
    BY <2>1, HeadAllocated
  <2> QED BY <1>2, <2>1, <2>2
<1>12. CASE DestroyMutex
  BY <1>1, <1>12, <1>ty DEF DestroyMutex
<1>13. CASE (\E c \in Conns : ThreadStep(c) \/ ClientConnects(c)) \/ Signal
  BY <1>1, <1>13, <1>ty DEF ThreadStep, ThreadSetsDone, ThreadEnds, ClientConnects, Signal
<1>14. CASE UNCHANGED vars
  BY <1>1, <1>14 DEF vars
<1> QED
  BY <1>3, <1>4, <1>5, <1>6, <1>7, <1>8, <1>9, <1>10, <1>11, <1>12, <1>13, <1>14
  DEF Next, MainStep

\* The invariant holds in every reachable state.
LEMMA ListInvariant == Spec => []ListInv
<1>1. ListInv /\ MainInv' /\ [Next]_vars => ListInv'
  BY ChainStep, ThreadStepFacts, OwnerStep DEF ListInv
<1> QED BY MainInvariant, ListInit, <1>1, PTL DEF Spec

\* Until main() has used a freed node its list (main.c:289-319, 382-406) ends, holds
\* every allocated node, and has each thread that was started and not joined once;
\* with any number of clients and addresses, whichever address malloc() hands out
\* again.  The head is never left at a freed node.
THEOREM ListStaysIntact == Spec => []ListIntact
<1>1. ListInv => ListIntact
  <2> SUFFICES ASSUME ListInv PROVE ListIntact
    OBVIOUS
  <2>1. live \subseteq Nodes /\ \A n \in live : owner[n] \in Conns
    BY DEF ListInv, MainInv, TypeOK
  <2>2. PICK k \in Nat : \E s \in [1 .. k -> live] : Chain(k, s, head, next) /\ AllListed(k, s)
    BY DEF ListInv, ChainInv
  <2>3. PICK s \in [1 .. k -> live] : Chain(k, s, head, next) /\ AllListed(k, s)
    BY <2>2
  <2>4. Listed = Elements(k, s) /\ Nth[Cardinality(Nodes)] = Null
    BY <2>1, <2>3, ListedIsChain
  <2>5. head \in live \cup {Null}
    BY <2>3 DEF Chain
  <2>6. ~stale => {owner[n] : n \in live} =
            {c \in Conns : params[c] = "live" /\ ~(c = cur /\ (mpc = "link" \/ unexpected))}
    BY <2>1 DEF ListInv, OwnerInv, ToBeJoined
  <2> QED BY <2>3, <2>4, <2>5, <2>6 DEF ListIntact, AllListed, ListInv, OwnerInv
<1> QED BY ListInvariant, <1>1, PTL

\* When main() destroys output_file_mutex (main.c:345) no connection thread can still
\* lock it, but for the one whose node could not be allocated, and those a use of a
\* freed node has lost.
THEOREM MutexOutlives == Spec => []MutexOutlivesThreads
<1>1. ListInv => MutexOutlivesThreads
  <2> SUFFICES ASSUME ListInv, ~mutex, ~stale,
                      NEW c \in Conns, thread[c] \in {"running", "returning"}
               PROVE  c = cur /\ unexpected
    BY DEF MutexOutlivesThreads
  <2>1. head = Null /\ params[c] = "live" /\ mpc # "link"
    BY DEF ListInv, ThreadFacts
  <2>2. PICK k \in Nat : \E s \in [1 .. k -> live] : Chain(k, s, head, next) /\ AllListed(k, s)
    BY DEF ListInv, ChainInv
  <2>3. PICK s \in [1 .. k -> live] : Chain(k, s, head, next) /\ AllListed(k, s)
    BY <2>2
  <2>4. k = 0
    <3>1. k # 0 => s[1] \in Nodes
      BY <2>3 DEF ListInv, MainInv, TypeOK
    <3> QED BY <2>1, <2>3, <3>1, MainAssumption DEF Chain
  <2>5. live = {}
    BY <2>3, <2>4 DEF AllListed, Elements
  <2>6. ~ToBeJoined(c)
    BY <2>5 DEF ListInv, OwnerInv
  <2> QED BY <2>1, <2>6 DEF ToBeJoined
<1> QED BY ListInvariant, <1>1, PTL

\* Whatever has become of the list, the shutdown frees no node twice and needs at most
\* one round for each allocated node: what ShutdownCompletes says of the steps, the
\* fairness left aside.
THEOREM JoinLoopEnds == Spec => JoinLoopShortens
<1>1. ListInv /\ [Next]_vars =>
        [mpc = "join" => \/ UNCHANGED <<mpc, head, live>>
                         \/ mpc' = "join" /\ Cardinality(live') < Cardinality(live)
                         \/ mpc' = "destroy" /\ head = Null]_vars
  <2> SUFFICES ASSUME ListInv, Next, mpc = "join"
               PROVE  \/ UNCHANGED <<mpc, head, live>>
                      \/ mpc' = "join" /\ Cardinality(live') < Cardinality(live)
                      \/ mpc' = "destroy" /\ head = Null
    OBVIOUS
  <2>1. CASE JoinFirst
    <3>1. mpc' = "join" /\ live' = live \ {head} /\ head # Null
      BY <2>1 DEF JoinFirst, JoinAndFree
    <3>2. head \in live
      BY <3>1, HeadAllocated
    <3>3. IsFiniteSet(live)
      BY MainAssumption, FS_Subset DEF ListInv, MainInv, TypeOK
    <3>4. Cardinality(live') = Cardinality(live) - 1 /\ Cardinality(live) \in Nat
      BY <3>1, <3>2, <3>3, FS_RemoveElement, FS_CardinalityType
    <3> QED BY <3>1, <3>4
  <2>2. CASE JoinEnds
    BY <2>2 DEF JoinEnds, GoOn, Goto
  <2>3. CASE (\E c \in Conns : ThreadStep(c) \/ ClientConnects(c)) \/ Signal
    BY <2>3 DEF ThreadStep, ThreadSetsDone, ThreadEnds, ClientConnects, Signal, listVars
  <2> QED
    BY <2>1, <2>2, <2>3
    DEF Next, MainStep, Check, EnterAccept, Accept, AcceptFails, SkipNode, ReapNode,
        ReapFreedNode, ReapEnds, Spawn, SpawnFails, Link, LinkFails, DestroyMutex,
        DeleteTimer, GoOn, Goto
<1> QED BY <1>1, ListInvariant, PTL DEF Spec, JoinLoopShortens

(***************************************************************************)
(* The refinement of ThreadRegistry.                                       *)
(***************************************************************************)

\* The registry's sequence in terms of the chain, in a state and in the next one.
TrackedFact ==
  \A k \in Nat : \A s \in [1 .. k -> Nodes] :
    Chain(k, s, head, next) => Tracked = [i \in 1 .. k |-> owner[s[i]]]

LEMMA TrackedAlways == TrackedFact
BY TrackedIsChain DEF TrackedFact

LEMMA TrackedBothEnds == TrackedFact /\ TrackedFact'
BY TrackedAlways, PTL

\* The threads that have returned.
Finished == {c \in Conns : thread[c] = "ended"}

\* A step that leaves the list and the owners of its nodes alone leaves the
\* registry's sequence.
LEMMA RegistryKept ==
  ASSUME ListInv, UNCHANGED <<head, next, owner>>
  PROVE  Tracked' = Tracked
<1>1. PICK k \in Nat : \E s \in [1 .. k -> live] : Chain(k, s, head, next)
  BY DEF ListInv, ChainInv
<1>2. PICK s \in [1 .. k -> live] : Chain(k, s, head, next)
  BY <1>1
<1>3. s \in [1 .. k -> Nodes] /\ Chain(k, s, head', next')
  BY <1>2 DEF ListInv, MainInv, TypeOK
<1> QED BY <1>2, <1>3, TrackedBothEnds DEF TrackedFact

\* Joining a listed thread takes it out of the registry and leaves the others in
\* their order.
LEMMA RegistryJoin ==
  ASSUME ListInv, ~stale, NEW n \in live, JoinAndFree(n), thread' = thread
  PROVE  owner[n] \in Conns /\ Registry!Join(owner[n])
<1>ty. live \subseteq Nodes /\ owner[n] \in Conns
  BY DEF ListInv, MainInv, TypeOK
<1>1. PICK k \in Nat : \E s \in [1 .. k -> live] : Chain(k, s, head, next) /\ AllListed(k, s)
  BY DEF ListInv, ChainInv
<1>2. PICK s \in [1 .. k -> live] : Chain(k, s, head, next) /\ AllListed(k, s)
  BY <1>1
<1>3. PICK j \in 1 .. k : n = s[j]
  BY <1>2 DEF AllListed, Elements
<1> DEFINE t == Without(k, s, j)
<1>4. /\ k - 1 \in Nat /\ t \in [1 .. k - 1 -> live']
      /\ Chain(k - 1, t, head', next')
      /\ owner' = owner /\ live' = live \ {n}
  BY <1>2, <1>3, JoinAndFreeList DEF JoinAndFree
<1>5. \A i \in 1 .. k - 1 : t[i] = IF i < j THEN s[i] ELSE s[i + 1]
  BY DEF Without
<1> HIDE DEF t
<1>6. Tracked = [i \in 1 .. k |-> owner[s[i]]]
  <2>1. s \in [1 .. k -> Nodes]
    BY <1>ty
  <2> QED BY <1>2, <2>1, TrackedBothEnds DEF TrackedFact
<1>7. Tracked' = [i \in 1 .. k - 1 |-> owner[t[i]]]
  <2>1. t \in [1 .. k - 1 -> Nodes]
    BY <1>ty, <1>4
  <2> QED BY <1>4, <2>1, TrackedBothEnds DEF TrackedFact
<1>8. \A i \in 1 .. k : owner[s[i]] \in Conns
  BY DEF ListInv, MainInv, TypeOK
<1>9. Tracked \in Seq(Conns) /\ Len(Tracked) = k /\ DOMAIN Tracked = 1 .. k
  BY <1>6, <1>8
<1>10. Tracked[j] = owner[n]
  BY <1>3, <1>6
<1>11. Tracked' = SubSeq(Tracked, 1, j - 1) \o SubSeq(Tracked, j + 1, Len(Tracked))
  <2> DEFINE u == SubSeq(Tracked, 1, j - 1)
             v == SubSeq(Tracked, j + 1, k)
  <2>1. u = [i \in 1 .. j - 1 |-> Tracked[i]] /\ u \in Seq(Conns) /\ Len(u) = j - 1
    BY <1>9
  <2>2. v = [i \in 1 .. k - j |-> Tracked[j + i]] /\ v \in Seq(Conns) /\ Len(v) = k - j
    BY <1>9
  <2> HIDE DEF u, v
  <2>3. u \o v = [i \in 1 .. k - 1 |-> IF i < j THEN u[i] ELSE v[i - (j - 1)]]
    BY <2>1, <2>2
  <2>4. ASSUME NEW i \in 1 .. k - 1
        PROVE  owner[t[i]] = IF i < j THEN u[i] ELSE v[i - (j - 1)]
    <3>1. CASE i < j
      BY <1>5, <1>6, <2>1, <3>1
    <3>2. CASE ~(i < j)
      <4>1. i - (j - 1) \in 1 .. k - j /\ j + (i - (j - 1)) = i + 1 /\ i + 1 \in 1 .. k
        BY <3>2
      <4>2. v[i - (j - 1)] = Tracked[i + 1]
        BY <4>1, <2>2
      <4> QED BY <1>5, <1>6, <3>2, <4>1, <4>2
    <3> QED BY <3>1, <3>2
  <2> QED BY <1>7, <1>9, <2>3, <2>4 DEF u, v
<1>12. owner[n] \in Finished /\ Finished' = Finished
  BY <1>ty DEF JoinAndFree, Joined, Finished
<1> QED BY <1>ty, <1>9, <1>10, <1>11, <1>12 DEF Registry!Join, Finished

\* Linking the node of a new thread appends it to the registry.
LEMMA RegistryTrack ==
  ASSUME ListInv, Link, ~stale'
  PROVE  cur \in Conns /\ Registry!Track(cur)
<1>ty. /\ live \subseteq Nodes /\ Null \notin Nodes /\ \A m \in live : owner[m] \in Conns
       /\ owner \in [Nodes -> Conns \cup {Null}]
       /\ mpc = "link" /\ cur \in Conns
       /\ head # Null => last # Null
  BY MainAssumption DEF ListInv, MainInv, MainFacts, TypeOK, Link, Goto
<1>1. PICK n \in Nodes \ live :
        live' = live \cup {n} /\ owner' = [owner EXCEPT ![n] = cur] /\ Insert(n)
  BY DEF Link
<1>2. ~stale /\ (head # Null => last \in live)
  BY DEF Link
<1>3. PICK k \in Nat : \E s \in [1 .. k -> live] : Chain(k, s, head, next) /\ AllListed(k, s)
  BY DEF ListInv, ChainInv
<1>4. PICK s \in [1 .. k -> live] : Chain(k, s, head, next) /\ AllListed(k, s)
  BY <1>3
<1>5. k = 0 \/ last = s[k]
  <2>1. k # 0 => head # Null
    BY <1>4, <1>ty DEF Chain
  <2> QED BY <1>2, <1>4, <2>1 DEF AllListed
<1> DEFINE t == [i \in 1 .. k + 1 |-> IF i <= k THEN s[i] ELSE n]
<1>6. Chain(k + 1, t, head', next') /\ t \in [1 .. k + 1 -> live \cup {n}]
  BY <1>1, <1>4, <1>5, <1>ty, InsertOfChain DEF ListInv, MainInv, MainFacts
<1>7. \A i \in 1 .. k + 1 : t[i] = IF i <= k THEN s[i] ELSE n
  OBVIOUS
<1> HIDE DEF t
<1>8. Tracked = [i \in 1 .. k |-> owner[s[i]]]
  <2>1. s \in [1 .. k -> Nodes]
    BY <1>ty
  <2> QED BY <1>4, <2>1, TrackedBothEnds DEF TrackedFact
<1>9. Tracked' = [i \in 1 .. k + 1 |-> owner'[t[i]]]
  <2>1. t \in [1 .. k + 1 -> Nodes] /\ k + 1 \in Nat
    BY <1>ty, <1>6
  <2> QED BY <1>6, <2>1, TrackedBothEnds DEF TrackedFact
<1>10. \A i \in 1 .. k : owner[s[i]] \in Conns
  BY <1>ty
<1>11. Tracked \in Seq(Conns) /\ Len(Tracked) = k /\ DOMAIN Tracked = 1 .. k
  BY <1>8, <1>10
<1>12. \A i \in 1 .. k + 1 : owner'[t[i]] = IF i <= k THEN Tracked[i] ELSE cur
  <2> TAKE i \in 1 .. k + 1
  <2>1. CASE i <= k
    <3>1. t[i] = s[i] /\ i \in 1 .. k /\ s[i] \in live /\ s[i] # n
      BY <1>7, <2>1
    <3> QED BY <1>1, <1>8, <1>ty, <2>1, <3>1
  <2>2. CASE ~(i <= k)
    BY <1>1, <1>7, <1>ty, <2>2
  <2> QED BY <2>1, <2>2
<1>13. Tracked' = Append(Tracked, cur)
  <2> DEFINE a == Append(Tracked, cur)
  <2>1. /\ a \in Seq(Conns) /\ Len(a) = k + 1
        /\ \A i \in 1 .. k : a[i] = Tracked[i]
        /\ a[k + 1] = cur
    BY <1>11, <1>ty, AppendProperties
  <2> HIDE DEF a
  <2>2. a = [i \in 1 .. k + 1 |-> a[i]]
    BY <2>1
  <2>3. \A i \in 1 .. k + 1 : owner'[t[i]] = a[i]
    BY <1>12, <2>1
  <2> QED BY <1>9, <2>2, <2>3 DEF a
<1>14. cur \notin Registry!Members(Tracked)
  <2>1. \A m \in live : owner[m] # cur
    <3>1. \A m \in live : ToBeJoined(owner[m])
      BY <1>2 DEF ListInv, OwnerInv
    <3> QED BY <1>ty, <3>1 DEF ToBeJoined
  <2> QED BY <1>8, <1>11, <2>1 DEF Registry!Members
<1>15. Finished' = Finished
  BY DEF Link, Finished, threadVars
<1> QED BY <1>ty, <1>13, <1>14, <1>15 DEF Registry!Track, Registry!Members, Finished

\* Every step that uses no freed node is a step of the registry or none.
LEMMA RegistryStep ==
  ASSUME ListInv, TypeOK', [Next]_vars
  PROVE  [Registry!Next]_(Registry!vars)
<1> USE DEF threadVars, listVars, walkVars, flagVars, Goto
<1> SUFFICES ASSUME ~stale' PROVE [Registry!Next]_(Registry!vars)
  BY DEF Registry!Next
<1>st. ~stale
  BY DEF Next, MainStep, Check, EnterAccept, AcceptFails, ReapEnds, JoinEnds, DeleteTimer, GoOn,
         Accept, SkipNode, ReapNode, ReapFreedNode, Spawn, SpawnFails, Link, LinkFails, JoinFirst,
         DestroyMutex, ThreadStep, ThreadSetsDone, ThreadEnds, ClientConnects, Signal, vars
<1>ty. thread \in [Conns -> {"absent", "waiting", "accepted", "running", "returning", "ended",
                             "refused"}]
  BY DEF ListInv, MainInv, TypeOK
<1>1. ASSUME UNCHANGED <<head, next, owner>>, Finished' = Finished
      PROVE  [Registry!Next]_(Registry!vars)
  <2>1. Tracked' = Tracked /\ stale \in BOOLEAN /\ stale' \in BOOLEAN
    BY <1>1, RegistryKept DEF ListInv, MainInv, TypeOK
  <2>2. stale' = stale
    BY <1>st, <2>1
  <2> QED BY <1>1, <2>1, <2>2 DEF Registry!vars, Finished
<1>2. ASSUME NEW n \in live, JoinAndFree(n), thread' = thread
      PROVE  [Registry!Next]_(Registry!vars)
  BY <1>2, <1>st, RegistryJoin DEF Registry!Next
<1>3. CASE Link
  BY <1>3, <1>st, RegistryTrack DEF Registry!Next
<1>4. CASE ReapNode
  BY <1>2, <1>4 DEF ReapNode
<1>5. CASE JoinFirst
  <2>1. head \in live \/ head = Null
    <3>1. PICK k \in Nat : \E s \in [1 .. k -> live] : Chain(k, s, head, next)
      BY DEF ListInv, ChainInv
    <3>2. PICK s \in [1 .. k -> live] : Chain(k, s, head, next)
      BY <3>1
    <3> QED BY <3>2 DEF Chain
  <2> QED BY <1>2, <1>5, <2>1 DEF JoinFirst
<1>6. ASSUME NEW c \in Conns, ThreadEnds(c) PROVE [Registry!Next]_(Registry!vars)
  <2>1. UNCHANGED <<head, next, owner>> /\ thread' = [thread EXCEPT ![c] = "ended"]
    BY <1>6 DEF ThreadEnds
  <2>2. Tracked' = Tracked
    BY <2>1, RegistryKept
  <2>3. Finished' = Finished \cup {c}
    BY <1>ty, <2>1 DEF Finished
  <2> QED BY <1>st, <2>2, <2>3 DEF Registry!Next, Registry!Finish, Finished
<1>7. ASSUME UNCHANGED listVars,
             \A c \in Conns : thread'[c] = "ended" <=> thread[c] = "ended"
      PROVE  [Registry!Next]_(Registry!vars)
  BY <1>1, <1>7 DEF Finished
<1>8. CASE \/ Check \/ EnterAccept \/ AcceptFails \/ ReapEnds \/ JoinEnds \/ DeleteTimer
           \/ SkipNode \/ ReapFreedNode \/ LinkFails \/ DestroyMutex
  BY <1>7, <1>8 DEF Check, EnterAccept, AcceptFails, ReapEnds, JoinEnds, DeleteTimer, GoOn,
     SkipNode, ReapFreedNode, LinkFails, DestroyMutex
<1>9. ASSUME NEW c \in Conns, Accept(c) PROVE [Registry!Next]_(Registry!vars)
  BY <1>7, <1>9, <1>ty DEF Accept
<1>10. CASE Spawn \/ SpawnFails
  BY <1>7, <1>10, <1>ty DEF Spawn, SpawnFails, ListInv, MainInv, MainFacts
<1>11. ASSUME NEW c \in Conns, ThreadSetsDone(c) \/ ClientConnects(c)
       PROVE  [Registry!Next]_(Registry!vars)
  BY <1>7, <1>11, <1>ty DEF ThreadSetsDone, ClientConnects
<1>12. CASE Signal \/ UNCHANGED vars
  BY <1>7, <1>12 DEF Signal, vars
<1> QED
  BY <1>3, <1>4, <1>5, <1>6, <1>8, <1>9, <1>10, <1>11, <1>12 DEF Next, MainStep, ThreadStep

\* Through every reuse of a node's address the list of main.c is the registry of
\* ThreadRegistry, until main() has used a node it had freed: a new thread comes last,
\* a thread leaves once it has returned, and the others keep their order.
THEOREM ListIsRegistry == Spec => ImplementsRegistry
<1>1. Init => Registry!Init
  <2> SUFFICES ASSUME Init PROVE Registry!Init
    OBVIOUS
  <2> DEFINE s == [i \in 1 .. 0 |-> Null]
  <2>1. s \in [1 .. 0 -> Nodes] /\ 1 .. 0 = {}
    OBVIOUS
  <2>2. Chain(0, s, head, next)
    BY <2>1 DEF Init, Chain
  <2>3. Tracked = [i \in 1 .. 0 |-> owner[s[i]]]
    BY <2>1, <2>2, TrackedIsChain
  <2>4. Tracked = <<>>
    BY <2>1, <2>3
  <2> QED BY <2>4 DEF Init, Registry!Init
<1> QED
  BY ListInvariant, MainTypeCorrect, RegistryStep, <1>1, PTL
  DEF Spec, ImplementsRegistry, Registry!Spec
=============================================================================
