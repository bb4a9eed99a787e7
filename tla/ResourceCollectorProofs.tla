----------------------- MODULE ResourceCollectorProofs -----------------------
(***************************************************************************)
(* Proofs that the collector's arrays are exact and that it gives back     *)
(* what it owns and nothing else, for arrays of any size.                  *)
(***************************************************************************)
EXTENDS ResourceCollector, TLAPS

\* The first n slots of a, of size m, hold the elements of S once each, the
\* others are empty.
Exact(a, m, n, S, empty) ==
  /\ {a[i] : i \in 0 .. n - 1} = S
  /\ \A i, j \in 0 .. n - 1 : a[i] = a[j] => i = j
  /\ \A i \in 0 .. m - 1 : i >= n => a[i] = empty

CollectorInv ==
  /\ TypeOK
  /\ Exact(mem, MaxMem, numMem, heap, Null)
  /\ Exact(file, MaxFile, numFile, open \ declined, NoFd)
  /\ declined \subseteq open
  /\ cleaned /\ hasMem => numMem = 0 /\ numFile = 0

-----------------------------------------------------------------------------
(* What the operations do to an array.                                     *)

LEMMA Appended ==
  ASSUME NEW T, NEW empty, NEW m \in Nat, NEW a \in [0 .. m - 1 -> T \cup {empty}],
         NEW n \in 0 .. m - 1, NEW S, Exact(a, m, n, S, empty), NEW x \in T, x \notin S
  PROVE  /\ [a EXCEPT ![n] = x] \in [0 .. m - 1 -> T \cup {empty}]
         /\ Exact([a EXCEPT ![n] = x], m, n + 1, S \cup {x}, empty)
<1> DEFINE b == [a EXCEPT ![n] = x]
<1>1. b \in [0 .. m - 1 -> T \cup {empty}]
  OBVIOUS
<1>2. b[n] = x /\ \A i \in 0 .. m - 1 : i # n => b[i] = a[i]
  OBVIOUS
<1>3. \A i \in 0 .. n - 1 : b[i] = a[i] /\ b[i] \in S
  BY <1>2 DEF Exact
<1>4. {b[i] : i \in 0 .. n} = S \cup {x}
  <2>1. {b[i] : i \in 0 .. n} \subseteq S \cup {x}
    BY <1>2, <1>3
  <2>2. S \subseteq {b[i] : i \in 0 .. n}
    <3> SUFFICES ASSUME NEW y \in S PROVE \E i \in 0 .. n : b[i] = y
      OBVIOUS
    <3>1. PICK i \in 0 .. n - 1 : a[i] = y
      BY DEF Exact
    <3> QED BY <1>3, <3>1
  <2> QED BY <1>2, <2>1, <2>2
<1>5. \A i, j \in 0 .. n : b[i] = b[j] => i = j
  BY <1>2, <1>3 DEF Exact
<1>6. \A i \in 0 .. m - 1 : i >= n + 1 => b[i] = empty
  BY <1>2 DEF Exact
<1> HIDE DEF b
<1>7. n + 1 - 1 = n
  OBVIOUS
<1>8. Exact(b, m, n + 1, S \cup {x}, empty)
  BY <1>4, <1>5, <1>6, <1>7 DEF Exact
<1> QED BY <1>1, <1>8 DEF b

LEMMA Replaced ==
  ASSUME NEW T, NEW empty, NEW m \in Nat, NEW a \in [0 .. m - 1 -> T \cup {empty}],
         NEW n \in 0 .. m, NEW S, Exact(a, m, n, S, empty), NEW k \in 0 .. n - 1,
         NEW x \in T, x \notin S \/ x = a[k]
  PROVE  /\ [a EXCEPT ![k] = x] \in [0 .. m - 1 -> T \cup {empty}]
         /\ Exact([a EXCEPT ![k] = x], m, n, (S \ {a[k]}) \cup {x}, empty)
<1> DEFINE b == [a EXCEPT ![k] = x]
<1>1. b \in [0 .. m - 1 -> T \cup {empty}] /\ k \in 0 .. m - 1
  OBVIOUS
<1>2. b[k] = x /\ \A i \in 0 .. m - 1 : i # k => b[i] = a[i]
  OBVIOUS
<1>3. \A i \in 0 .. n - 1 : a[i] \in S /\ (i # k => a[i] # a[k])
  BY DEF Exact
<1>4. {b[i] : i \in 0 .. n - 1} = (S \ {a[k]}) \cup {x}
  <2>1. {b[i] : i \in 0 .. n - 1} \subseteq (S \ {a[k]}) \cup {x}
    BY <1>2, <1>3
  <2>2. S \ {a[k]} \subseteq {b[i] : i \in 0 .. n - 1}
    <3> SUFFICES ASSUME NEW y \in S, y # a[k] PROVE \E i \in 0 .. n - 1 : b[i] = y
      OBVIOUS
    <3>1. PICK i \in 0 .. n - 1 : a[i] = y
      BY DEF Exact
    <3> QED BY <1>2, <3>1
  <2> QED BY <1>2, <2>1, <2>2
<1>5. \A i, j \in 0 .. n - 1 : b[i] = b[j] => i = j
  BY <1>2, <1>3 DEF Exact
<1>6. \A i \in 0 .. m - 1 : i >= n => b[i] = empty
  BY <1>2 DEF Exact
<1> HIDE DEF b
<1>7. Exact(b, m, n, (S \ {a[k]}) \cup {x}, empty)
  BY <1>4, <1>5, <1>6 DEF Exact
<1> QED BY <1>1, <1>7 DEF b

LEMMA Removed ==
  ASSUME NEW T, NEW empty, NEW m \in Nat, NEW a \in [0 .. m - 1 -> T \cup {empty}],
         NEW n \in 0 .. m, NEW S, Exact(a, m, n, S, empty), NEW k \in 0 .. n - 1
  PROVE  /\ RemoveAt(a, n, k, empty) \in [0 .. m - 1 -> T \cup {empty}]
         /\ Exact(RemoveAt(a, n, k, empty), m, n - 1, S \ {a[k]}, empty)
<1> DEFINE b == RemoveAt(a, n, k, empty)
<1>1. \A i \in 0 .. m - 1 : b[i] = IF i < k \/ i >= n THEN a[i]
                                   ELSE IF i = n - 1 THEN empty ELSE a[i + 1]
  BY DEF RemoveAt
<1>2. b \in [0 .. m - 1 -> T \cup {empty}]
  BY DEF RemoveAt
<1> HIDE DEF b
<1>3. \A i \in 0 .. n - 1 : a[i] \in S /\ (i # k => a[i] # a[k])
  BY DEF Exact
<1>4. \A i \in 0 .. n - 2 : b[i] = IF i < k THEN a[i] ELSE a[i + 1]
  BY <1>1
<1>5. {b[i] : i \in 0 .. n - 2} = S \ {a[k]}
  <2>1. ASSUME NEW i \in 0 .. n - 2 PROVE b[i] \in S \ {a[k]}
    <3>1. CASE i < k
      BY <1>3, <1>4, <3>1
    <3>2. CASE ~(i < k)
      <4>1. i + 1 \in 0 .. n - 1 /\ i + 1 # k
        BY <3>2
      <4> QED BY <1>3, <1>4, <3>2, <4>1
    <3> QED BY <3>1, <3>2
  <2>2. ASSUME NEW y \in S \ {a[k]} PROVE \E i \in 0 .. n - 2 : b[i] = y
    <3>1. PICK j \in 0 .. n - 1 : a[j] = y
      BY DEF Exact
    <3>2. CASE j < k
      BY <1>4, <3>1, <3>2
    <3>3. CASE j > k
      <4>1. j - 1 \in 0 .. n - 2 /\ ~(j - 1 < k) /\ j - 1 + 1 = j
        BY <3>3
      <4> QED BY <1>4, <3>1, <4>1
    <3>4. j # k
      BY <3>1
    <3> QED BY <3>2, <3>3, <3>4
  <2> QED BY <2>1, <2>2
<1>6. \A i, j \in 0 .. n - 2 : b[i] = b[j] => i = j
  <2> SUFFICES ASSUME NEW i \in 0 .. n - 2, NEW j \in 0 .. n - 2, b[i] = b[j] PROVE i = j
    OBVIOUS
  <2>1. i \in 0 .. n - 1 /\ j \in 0 .. n - 1 /\ i + 1 \in 0 .. n - 1 /\ j + 1 \in 0 .. n - 1
    OBVIOUS
  <2> QED BY <1>4, <2>1 DEF Exact
<1>7. \A i \in 0 .. m - 1 : i >= n - 1 => b[i] = empty
  BY <1>1 DEF Exact
<1>8. n - 1 - 1 = n - 2
  OBVIOUS
<1>9. Exact(b, m, n - 1, S \ {a[k]}, empty)
  BY <1>5, <1>6, <1>7, <1>8 DEF Exact
<1> QED BY <1>2, <1>9 DEF b

-----------------------------------------------------------------------------
(* Every operation keeps the invariant.                                    *)

LEMMA ExactWhenEmpty ==
  ASSUME NEW m \in Nat, NEW a, NEW empty, \A i \in 0 .. m - 1 : a[i] = empty
  PROVE  Exact(a, m, 0, {}, empty)
<1>1. 0 .. 0 - 1 = {}
  OBVIOUS
<1> QED BY <1>1 DEF Exact

LEMMA InvInit == Init => CollectorInv
<1> SUFFICES ASSUME Init PROVE CollectorInv
  OBVIOUS
<1> USE CollectorAssumption
<1>1. TypeOK
  <2>1. mem \in [MemSlots -> Ptrs \cup {Null}] /\ numMem \in 0 .. MaxMem
    BY DEF Init
  <2>2. file \in [FileSlots -> Fds \cup {NoFd}] /\ numFile \in 0 .. MaxFile
    BY DEF Init
  <2> QED BY <2>1, <2>2 DEF Init, TypeOK
<1>2. Exact(mem, MaxMem, numMem, heap, Null)
  BY ExactWhenEmpty DEF Init, MemSlots
<1>3. Exact(file, MaxFile, numFile, open \ declined, NoFd)
  <2>1. open \ declined = {}
    BY DEF Init
  <2> QED BY <2>1, ExactWhenEmpty DEF Init, FileSlots
<1> QED BY <1>1, <1>2, <1>3 DEF Init, CollectorInv

\* malloc_wrapper() with no block yet: the new one goes behind the last.
LEMMA MallocKeeps == CollectorInv /\ MallocNew => CollectorInv'
<1> SUFFICES ASSUME CollectorInv, MallocNew PROVE CollectorInv'
  OBVIOUS
<1> USE CollectorAssumption
<1>1. PICK p \in Ptrs \ heap : heap' = heap \cup {p} /\ mem' = [mem EXCEPT ![numMem] = p]
  BY DEF MallocNew
<1>2. /\ mem \in [0 .. MaxMem - 1 -> Ptrs \cup {Null}]
      /\ numMem \in 0 .. MaxMem - 1
      /\ Exact(mem, MaxMem, numMem, heap, Null)
  BY DEF CollectorInv, TypeOK, MemSlots, MallocNew, RoomForOne
<1>3. /\ mem' \in [0 .. MaxMem - 1 -> Ptrs \cup {Null}]
      /\ Exact(mem', MaxMem, numMem + 1, heap', Null)
  BY Appended, <1>1, <1>2
<1>4. /\ numMem' = numMem + 1
      /\ UNCHANGED <<hasMem, cleaned, file, numFile, open, declined>>
      /\ ~cleaned
  BY DEF MallocNew, fileVars, InUse
<1> QED BY <1>1, <1>2, <1>3, <1>4 DEF CollectorInv, TypeOK, MemSlots, FileSlots

\* malloc_wrapper() with a known block: its slot takes the new address.
LEMMA ReallocKeeps ==
  ASSUME CollectorInv, NEW p \in Ptrs, Realloc(p) PROVE CollectorInv'
<1> USE CollectorAssumption
<1>1. PICK k \in MemSlots : \E q \in (Ptrs \ heap) \cup {p} :
        /\ FoundAt(mem, numMem, p, k)
        /\ heap' = (heap \ {p}) \cup {q}
        /\ mem' = [mem EXCEPT ![k] = q]
  BY DEF Realloc
<1>2. PICK q \in (Ptrs \ heap) \cup {p} :
        /\ FoundAt(mem, numMem, p, k)
        /\ heap' = (heap \ {p}) \cup {q}
        /\ mem' = [mem EXCEPT ![k] = q]
  BY <1>1
<1>3. /\ mem \in [0 .. MaxMem - 1 -> Ptrs \cup {Null}]
      /\ numMem \in 0 .. MaxMem
      /\ Exact(mem, MaxMem, numMem, heap, Null)
      /\ k \in 0 .. numMem - 1 /\ mem[k] = p
      /\ q \in Ptrs /\ (q \notin heap \/ q = mem[k])
  BY <1>2 DEF CollectorInv, TypeOK, MemSlots, FoundAt
<1>4. /\ mem' \in [0 .. MaxMem - 1 -> Ptrs \cup {Null}]
      /\ Exact(mem', MaxMem, numMem, heap', Null)
  BY Replaced, <1>2, <1>3
<1>5. UNCHANGED <<hasMem, cleaned, numMem, file, numFile, open, declined>>
  BY DEF Realloc, fileVars
<1> QED BY <1>2, <1>3, <1>4, <1>5 DEF CollectorInv, TypeOK, MemSlots, FileSlots

\* free_wrapper() of a known block closes the gap.
LEMMA FreeKeeps ==
  ASSUME CollectorInv, NEW p \in Ptrs, FreeBlock(p) PROVE CollectorInv'
<1> USE CollectorAssumption
<1>1. PICK k \in MemSlots :
        /\ FoundAt(mem, numMem, p, k)
        /\ mem' = RemoveAt(mem, numMem, k, Null)
  BY DEF FreeBlock
<1>2. /\ mem \in [0 .. MaxMem - 1 -> Ptrs \cup {Null}]
      /\ numMem \in 0 .. MaxMem
      /\ Exact(mem, MaxMem, numMem, heap, Null)
      /\ k \in 0 .. numMem - 1 /\ mem[k] = p
  BY <1>1 DEF CollectorInv, TypeOK, MemSlots, FoundAt
<1>3. /\ heap' = heap \ {p}
      /\ numMem' = numMem - 1
      /\ UNCHANGED <<hasMem, cleaned, file, numFile, open, declined>>
      /\ ~cleaned
  BY DEF FreeBlock, fileVars, InUse
<1>4. /\ mem' \in [0 .. MaxMem - 1 -> Ptrs \cup {Null}]
      /\ Exact(mem', MaxMem, numMem - 1, heap \ {p}, Null)
  BY Removed, <1>1, <1>2
<1> QED BY <1>2, <1>3, <1>4 DEF CollectorInv, TypeOK, MemSlots, FileSlots

\* register_fd(): behind the last one, or not at all.
LEMMA OpenKeeps ==
  ASSUME CollectorInv, NEW fd \in Fds, OpenAndRegister(fd) PROVE CollectorInv'
<1> USE CollectorAssumption
<1>1. /\ open' = open \cup {fd} /\ fd \notin open
      /\ UNCHANGED <<hasMem, cleaned, mem, numMem, heap>>
      /\ ~cleaned
  BY DEF OpenAndRegister, memVars, InUse
<1>2. /\ file \in [0 .. MaxFile - 1 -> Fds \cup {NoFd}]
      /\ numFile \in 0 .. MaxFile
      /\ Exact(file, MaxFile, numFile, open \ declined, NoFd)
      /\ fd \notin declined
  BY <1>1 DEF CollectorInv, TypeOK, FileSlots
<1>3. CASE numFile < MaxFile
  <2>1. /\ file' = [file EXCEPT ![numFile] = fd]
        /\ numFile' = numFile + 1
        /\ declined' = declined
    BY <1>3 DEF OpenAndRegister
  <2>2. numFile \in 0 .. MaxFile - 1 /\ fd \notin open \ declined
    BY <1>1, <1>2, <1>3
  <2>3. /\ file' \in [0 .. MaxFile - 1 -> Fds \cup {NoFd}]
        /\ Exact(file', MaxFile, numFile + 1, (open \ declined) \cup {fd}, NoFd)
    BY Appended, <1>2, <2>1, <2>2
  <2>4. (open \ declined) \cup {fd} = open' \ declined'
    BY <1>1, <1>2, <2>1
  <2>5. Exact(file', MaxFile, numFile', open' \ declined', NoFd)
    BY <2>1, <2>3, <2>4
  <2>6. TypeOK'
    BY <1>1, <1>2, <1>3, <2>1, <2>3 DEF CollectorInv, TypeOK, MemSlots, FileSlots
  <2> QED BY <1>1, <2>1, <2>5, <2>6 DEF CollectorInv
<1>4. CASE ~(numFile < MaxFile)
  <2>1. declined' = declined \cup {fd} /\ UNCHANGED <<file, numFile>>
    BY <1>4 DEF OpenAndRegister
  <2>2. open' \ declined' = open \ declined
    BY <1>1, <2>1
  <2> QED BY <1>1, <1>2, <2>1, <2>2 DEF CollectorInv, TypeOK, MemSlots, FileSlots
<1> QED BY <1>3, <1>4

\* close_file_wrapper() of a registered descriptor closes the gap.
LEMMA CloseKeeps ==
  ASSUME CollectorInv, NEW fd \in Fds, CloseFile(fd) PROVE CollectorInv'
<1> USE CollectorAssumption
<1>1. PICK k \in FileSlots :
        /\ FoundAt(file, numFile, fd, k)
        /\ file' = RemoveAt(file, numFile, k, NoFd)
  BY DEF CloseFile
<1>2. /\ file \in [0 .. MaxFile - 1 -> Fds \cup {NoFd}]
      /\ numFile \in 0 .. MaxFile
      /\ Exact(file, MaxFile, numFile, open \ declined, NoFd)
      /\ k \in 0 .. numFile - 1 /\ file[k] = fd
  BY <1>1 DEF CollectorInv, TypeOK, FileSlots, FoundAt
<1>3. /\ open' = open \ {fd}
      /\ numFile' = numFile - 1
      /\ UNCHANGED <<hasMem, cleaned, mem, numMem, heap, declined>>
      /\ ~cleaned
  BY DEF CloseFile, memVars, InUse
<1>4. /\ file' \in [0 .. MaxFile - 1 -> Fds \cup {NoFd}]
      /\ Exact(file', MaxFile, numFile - 1, (open \ declined) \ {fd}, NoFd)
  BY Removed, <1>1, <1>2
<1>5. (open \ declined) \ {fd} = open' \ declined'
  BY <1>3
<1>6. declined' \subseteq open'
  <2>1. file[k] \in {file[i] : i \in 0 .. numFile - 1}
    BY <1>2
  <2>2. fd \in open \ declined
    BY <1>2, <2>1 DEF Exact
  <2> QED BY <1>3, <2>2 DEF CollectorInv
<1>7. TypeOK'
  BY <1>2, <1>3, <1>4 DEF CollectorInv, TypeOK, MemSlots, FileSlots
<1>8. Exact(file', MaxFile, numFile', open' \ declined', NoFd)
  BY <1>3, <1>4, <1>5
<1> QED BY <1>3, <1>6, <1>7, <1>8 DEF CollectorInv

\* cleanup() empties both arrays, or does nothing without allocated_mem.
LEMMA CleanupKeeps == CollectorInv /\ Cleanup => CollectorInv'
<1> SUFFICES ASSUME CollectorInv, Cleanup PROVE CollectorInv'
  OBVIOUS
<1> USE CollectorAssumption
<1>1. CASE hasMem
  <2>b. /\ {mem[i] : i \in 0 .. numMem - 1} = heap
        /\ {file[i] : i \in 0 .. numFile - 1} = open \ declined
    BY DEF CollectorInv, Exact
  <2>a. /\ heap' = heap \ {mem[i] : i \in 0 .. numMem - 1}
        /\ open' = open \ {file[i] : i \in 0 .. numFile - 1}
        /\ numMem' = 0 /\ numFile' = 0
        /\ declined' = declined /\ hasMem' = hasMem /\ cleaned' = TRUE
    BY <1>1 DEF Cleanup
  <2>1. /\ heap' = {} /\ open' \ declined' = {}
        /\ declined' \subseteq open'
        /\ numMem' = 0 /\ numFile' = 0
        /\ heap' \subseteq Ptrs /\ open' \subseteq Fds
        /\ declined' = declined /\ hasMem' = hasMem /\ cleaned' = TRUE
    BY <2>b, <2>a DEF CollectorInv, TypeOK
  <2>2. /\ mem' \in [MemSlots -> Ptrs \cup {Null}]
        /\ \A i \in MemSlots : mem'[i] = Null
    BY <1>1 DEF CollectorInv, TypeOK, Cleanup, Exact, MemSlots
  <2>3. /\ file' \in [FileSlots -> Fds \cup {NoFd}]
        /\ \A i \in FileSlots : file'[i] = NoFd
    BY <1>1 DEF CollectorInv, TypeOK, Cleanup, Exact, FileSlots
  <2>4. TypeOK'
    BY <2>1, <2>2, <2>3 DEF CollectorInv, TypeOK, MemSlots, FileSlots
  <2>5. Exact(mem', MaxMem, numMem', heap', Null)
    BY <2>1, <2>2, ExactWhenEmpty DEF MemSlots
  <2>6. Exact(file', MaxFile, numFile', open' \ declined', NoFd)
    BY <2>1, <2>3, ExactWhenEmpty DEF FileSlots
  <2> QED BY <2>1, <2>4, <2>5, <2>6 DEF CollectorInv
<1>2. CASE ~hasMem
  BY <1>2 DEF CollectorInv, TypeOK, Cleanup, memVars, MemSlots, FileSlots
<1> QED BY <1>1, <1>2

LEMMA InvStep == CollectorInv /\ [Next]_vars => CollectorInv'
<1> SUFFICES ASSUME CollectorInv, [Next]_vars PROVE CollectorInv'
  OBVIOUS
<1>1. CASE MallocNew
  BY <1>1, MallocKeeps
<1>2. CASE \E p \in Ptrs : Realloc(p) \/ FreeBlock(p)
  BY <1>2, ReallocKeeps, FreeKeeps
<1>3. CASE \E fd \in Fds : OpenAndRegister(fd) \/ CloseFile(fd)
  BY <1>3, OpenKeeps, CloseKeeps
<1>4. CASE Cleanup
  BY <1>4, CleanupKeeps
<1>5. CASE UNCHANGED vars
  BY <1>5 DEF CollectorInv, TypeOK, vars, memVars, fileVars, MemSlots, FileSlots
<1> QED BY <1>1, <1>2, <1>3, <1>4, <1>5 DEF Next

LEMMA CollectorInvHolds == Spec => []CollectorInv
  BY InvInit, InvStep, PTL DEF Spec

-----------------------------------------------------------------------------
(* The theorems.                                                           *)

\* The counters stay within the arrays and the arrays hold what they are for.
THEOREM CollectorTypeCorrect == Spec => []TypeOK
<1>1. CollectorInv => TypeOK
  BY DEF CollectorInv
<1> QED BY <1>1, CollectorInvHolds, PTL

\* Whatever is allocated, moved, freed, registered and closed, the arrays hold
\* exactly what is allocated and open, once each, in front of empty slots.
THEOREM SlotsAlwaysExact == Spec => []SlotsExact
<1>1. CollectorInv => SlotsExact
  BY DEF CollectorInv, SlotsExact, Exact, Blocks, Files, MemSlots, FileSlots
<1> QED BY <1>1, CollectorInvHolds, PTL

\* cleanup() leaves nothing behind but descriptors that had no slot.
THEOREM NothingLeftBehind == Spec => []NothingLeft
<1>1. CollectorInv => NothingLeft
  BY DEF CollectorInv, NothingLeft, Exact
<1> QED BY <1>1, CollectorInvHolds, PTL

-----------------------------------------------------------------------------
(* The refinement.                                                         *)

\* What the arrays hold, in the words of OwnedResources.
LEMMA OwnedIsHeld == CollectorInv => Blocks = heap /\ Files = open \ declined
  BY DEF CollectorInv, Exact, Blocks, Files

LEMMA KnownIsOwned ==
  /\ \A p, k : FoundAt(mem, numMem, p, k) => p \in Blocks
  /\ \A fd, k : FoundAt(file, numFile, fd, k) => fd \in Files
  BY DEF FoundAt, Blocks, Files

LEMMA OwnerInit == Init => Owner!Init
<1> SUFFICES ASSUME Init PROVE Owner!Init
  OBVIOUS
<1>1. Blocks = {} /\ Files = {}
  BY InvInit, OwnedIsHeld DEF Init
<1> QED BY <1>1 DEF Init, Owner!Init

\* Each operation is the one of the owner, or changes nothing the owner sees.
LEMMA OwnerStep ==
  CollectorInv /\ CollectorInv' /\ [Next]_vars => [Owner!Next]_(Owner!vars)
<1> SUFFICES ASSUME CollectorInv, CollectorInv', [Next]_vars
             PROVE  [Owner!Next]_(Owner!vars)
  OBVIOUS
<1>1. Blocks = heap /\ Files = open \ declined
  BY OwnedIsHeld
<1>2. Blocks' = heap' /\ Files' = open' \ declined'
  BY DEF CollectorInv, Exact, Blocks, Files
<1>3. CASE MallocNew
  <2>1. Owner!AcquireBlock
    BY <1>1, <1>2, <1>3 DEF MallocNew, fileVars, Owner!AcquireBlock
  <2> QED BY <2>1 DEF Owner!Next
<1>4. ASSUME NEW p \in Ptrs, Realloc(p) PROVE [Owner!Next]_(Owner!vars)
  <2>1. Owner!ExchangeBlock
    BY <1>1, <1>2, <1>4, KnownIsOwned DEF Realloc, fileVars, Owner!ExchangeBlock
  <2> QED BY <2>1 DEF Owner!Next
<1>5. ASSUME NEW p \in Ptrs, FreeBlock(p) PROVE [Owner!Next]_(Owner!vars)
  <2>1. Owner!ReleaseBlock
    BY <1>1, <1>2, <1>5, KnownIsOwned DEF FreeBlock, fileVars, Owner!ReleaseBlock
  <2> QED BY <2>1 DEF Owner!Next
<1>6. ASSUME NEW fd \in Fds, OpenAndRegister(fd) PROVE [Owner!Next]_(Owner!vars)
  <2>1. /\ fd \notin open /\ open' = open \cup {fd}
        /\ declined' \in {declined, declined \cup {fd}}
        /\ UNCHANGED heap
    BY <1>6 DEF OpenAndRegister, memVars
  <2>2. fd \notin declined
    BY <2>1 DEF CollectorInv
  <2>3. Files' \in {Files, Files \cup {fd}}
    BY <1>1, <1>2, <2>1, <2>2
  <2>4. Owner!OpenFile
    BY <1>1, <1>2, <2>1, <2>3 DEF Owner!OpenFile
  <2> QED BY <2>4 DEF Owner!Next
<1>7. ASSUME NEW fd \in Fds, CloseFile(fd) PROVE [Owner!Next]_(Owner!vars)
  <2>1. fd \in Files /\ open' = open \ {fd} /\ UNCHANGED <<heap, declined>>
    BY <1>7, KnownIsOwned DEF CloseFile, memVars
  <2>2. Owner!ReleaseFile
    BY <1>1, <1>2, <2>1 DEF Owner!ReleaseFile
  <2> QED BY <2>2 DEF Owner!Next
<1>8. CASE Cleanup
  <2>1. CASE hasMem
    <3>1. heap' = heap \ Blocks /\ open' = open \ Files /\ declined' = declined
      BY <1>8, <2>1 DEF Cleanup, Blocks, Files
    <3>2. Owner!ReleaseAll
      BY <1>1, <1>2, <3>1 DEF Owner!ReleaseAll
    <3> QED BY <3>2 DEF Owner!Next
  <2>2. CASE ~hasMem
    <3>1. UNCHANGED <<heap, open, declined>>
      BY <1>8, <2>2 DEF Cleanup, memVars
    <3> QED BY <1>1, <1>2, <3>1 DEF Owner!vars
  <2> QED BY <2>1, <2>2
<1>9. CASE UNCHANGED vars
  <2>1. UNCHANGED <<heap, open, declined>>
    BY <1>9 DEF vars, memVars, fileVars
  <2> QED BY <1>1, <1>2, <2>1 DEF Owner!vars
<1> QED BY <1>3, <1>4, <1>5, <1>6, <1>7, <1>8, <1>9 DEF Next

\* The collector behaves as the owner of what its arrays hold: it gives back
\* only what it owns, once, and a block that realloc() moves stays owned.
THEOREM CollectorIsOwner == Spec => ImplementsOwner
  BY OwnerInit, OwnerStep, CollectorInvHolds, PTL DEF Spec, ImplementsOwner, Owner!Spec
=============================================================================
