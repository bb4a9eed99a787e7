-------------------------- MODULE ResourceCollector --------------------------
(***************************************************************************)
(* server/src/resource_utils.c: a collector remembers the heap blocks and  *)
(* the descriptors of one thread in two arrays its user provides, so that  *)
(* cleanup() can give everything back from any return of the thread.  A    *)
(* collector belongs to one thread, so an operation is one step.  What     *)
(* errno holds is left out.                                                *)
(***************************************************************************)
EXTENDS Integers, FiniteSets

CONSTANTS
  Ptrs,    \* the addresses malloc() and realloc() may return
  Fds,     \* the descriptors open(), socket() and accept() may return
  MaxMem,  \* max_num_of_allocated_mem
  MaxFile, \* max_num_of_open_file
  Null

ASSUME CollectorAssumption ==
  /\ Null \notin Ptrs
  /\ Fds \subseteq Nat
  /\ MaxMem \in Nat /\ MaxFile \in Nat

NoFd == -1

VARIABLES
  hasMem,  \* allocated_mem is not NULL; main() passes NULL
  mem,     \* allocated_mem[]
  numMem,  \* num_of_allocated_mem
  file,    \* open_file_fd[]
  numFile, \* num_of_open_file
  cleaned, \* cleanup() was called: the thread returns
  \* the process
  heap,    \* the blocks that are allocated
  open,    \* the descriptors that are open
  \* history, for the properties only
  declined \* descriptors that register_fd() did not take

memVars  == <<mem, numMem, heap>>
fileVars == <<file, numFile, open, declined>>
vars == <<hasMem, memVars, fileVars, cleaned>>

MemSlots  == 0 .. MaxMem - 1
FileSlots == 0 .. MaxFile - 1

InUse == ~cleaned

-----------------------------------------------------------------------------
(* The arrays.                                                             *)

\* is_allocated(), and the search of close_file_wrapper(): x is in one of the
\* first n slots, the first of them is k.
FoundAt(a, n, x, k) ==
  /\ k \in 0 .. n - 1 /\ a[k] = x
  /\ \A i \in 0 .. k - 1 : a[i] # x

\* Mutant: the slot is emptied, nothing moves up.
RemoveAtNoShift(a, n, k, empty) == [a EXCEPT ![k] = empty]
\* The slots behind k move up by one, the last one in use is emptied.
RemoveAt(a, n, k, empty) ==
  [i \in DOMAIN a |->
     IF i < k \/ i >= n THEN a[i] ELSE IF i = n - 1 THEN empty ELSE a[i + 1]]

-----------------------------------------------------------------------------
(* malloc_wrapper() and free_wrapper()                                     *)

\* Mutant: the bound of the array is off by one.
RoomForOneLate == numMem <= MaxMem
RoomForOne == numMem < MaxMem

\* buf_ptr is NULL, there is room and malloc() succeeds; in any other case
\* nothing happens and NULL is returned.
MallocNew ==
  /\ InUse /\ hasMem /\ RoomForOne
  /\ \E p \in Ptrs \ heap : heap' = heap \cup {p} /\ mem' = [mem EXCEPT ![numMem] = p]
  /\ numMem' = numMem + 1
  /\ UNCHANGED <<hasMem, fileVars, cleaned>>

\* Mutant: the array keeps the old address.
ReallocUnrecorded(p) ==
  /\ InUse /\ hasMem
  /\ \E k \in MemSlots : FoundAt(mem, numMem, p, k)
  /\ \E q \in (Ptrs \ heap) \cup {p} : heap' = (heap \ {p}) \cup {q}
  /\ UNCHANGED <<hasMem, mem, numMem, fileVars, cleaned>>
\* buf_ptr is known and realloc() succeeds: the block may move.  When realloc()
\* fails the old block stays; an unknown pointer is refused.
Realloc(p) ==
  /\ InUse /\ hasMem
  /\ \E k \in MemSlots :
       /\ FoundAt(mem, numMem, p, k)
       /\ \E q \in (Ptrs \ heap) \cup {p} :
            /\ heap' = (heap \ {p}) \cup {q}
            /\ mem' = [mem EXCEPT ![k] = q]
  /\ UNCHANGED <<hasMem, numMem, fileVars, cleaned>>

\* An unknown pointer is left alone.
FreeBlock(p) ==
  /\ InUse /\ hasMem
  /\ \E k \in MemSlots :
       FoundAt(mem, numMem, p, k) /\ mem' = RemoveAt(mem, numMem, k, Null)
  /\ heap' = heap \ {p} /\ numMem' = numMem - 1
  /\ UNCHANGED <<hasMem, fileVars, cleaned>>

-----------------------------------------------------------------------------
(* register_fd() and close_file_wrapper()                                  *)

\* The user opens a descriptor and registers it.
OpenAndRegister(fd) ==
  /\ InUse
  /\ fd \notin open /\ open' = open \cup {fd}
  /\ IF numFile < MaxFile
     THEN /\ file' = [file EXCEPT ![numFile] = fd]
          /\ numFile' = numFile + 1
          /\ UNCHANGED declined
     ELSE declined' = declined \cup {fd} /\ UNCHANGED <<file, numFile>>
  /\ UNCHANGED <<hasMem, memVars, cleaned>>

\* A full array is not even searched.
CloseFile(fd) ==
  /\ InUse /\ numFile < MaxFile
  /\ \E k \in FileSlots :
       FoundAt(file, numFile, fd, k) /\ file' = RemoveAt(file, numFile, k, NoFd)
  /\ open' = open \ {fd} /\ numFile' = numFile - 1
  /\ UNCHANGED <<hasMem, memVars, declined, cleaned>>

-----------------------------------------------------------------------------
(* cleanup()                                                               *)

\* Mutant: the descriptors are forgotten, not closed.
CleanupBlocksOnly ==
  /\ InUse /\ cleaned' = TRUE
  /\ heap' = heap \ {mem[i] : i \in 0 .. numMem - 1}
  /\ mem' = [i \in MemSlots |-> IF i < numMem THEN Null ELSE mem[i]]
  /\ file' = [i \in FileSlots |-> IF i < numFile THEN NoFd ELSE file[i]]
  /\ numMem' = 0 /\ numFile' = 0
  /\ UNCHANGED <<hasMem, open, declined>>
Cleanup ==
  /\ InUse /\ cleaned' = TRUE
  /\ IF hasMem
     THEN /\ heap' = heap \ {mem[i] : i \in 0 .. numMem - 1}
          /\ open' = open \ {file[i] : i \in 0 .. numFile - 1}
          /\ mem' = [i \in MemSlots |-> IF i < numMem THEN Null ELSE mem[i]]
          /\ file' = [i \in FileSlots |-> IF i < numFile THEN NoFd ELSE file[i]]
          /\ numMem' = 0 /\ numFile' = 0
     ELSE UNCHANGED <<memVars, file, numFile, open>>
  /\ UNCHANGED <<hasMem, declined>>

-----------------------------------------------------------------------------
\* initialize_resource_collector(), with the arrays as its callers fill them.
Init ==
  /\ hasMem \in BOOLEAN
  /\ mem = [i \in MemSlots |-> Null] /\ numMem = 0 /\ heap = {}
  /\ file = [i \in FileSlots |-> NoFd] /\ numFile = 0 /\ open = {} /\ declined = {}
  /\ cleaned = FALSE

Next ==
  \/ MallocNew
  \/ \E p \in Ptrs : Realloc(p) \/ FreeBlock(p)
  \/ \E fd \in Fds : OpenAndRegister(fd) \/ CloseFile(fd)
  \/ Cleanup

Spec == Init /\ [][Next]_vars

-----------------------------------------------------------------------------
(* Properties.                                                             *)

TypeOK ==
  /\ hasMem \in BOOLEAN /\ cleaned \in BOOLEAN
  /\ mem \in [MemSlots -> Ptrs \cup {Null}] /\ numMem \in 0 .. MaxMem
  /\ file \in [FileSlots -> Fds \cup {NoFd}] /\ numFile \in 0 .. MaxFile
  /\ heap \subseteq Ptrs /\ open \subseteq Fds /\ declined \subseteq Fds

Blocks == {mem[i] : i \in 0 .. numMem - 1}
Files  == {file[i] : i \in 0 .. numFile - 1}

\* The slots in use are the front of the arrays and hold each block and each
\* descriptor once; what they hold is allocated or open, and all that is
\* allocated through the collector is there.  Searches for a pointer or a
\* descriptor that is gone find nothing.
SlotsExact ==
  /\ Blocks = heap
  /\ Files = open \ declined
  /\ \A i, j \in 0 .. numMem - 1 : mem[i] = mem[j] => i = j
  /\ \A i, j \in 0 .. numFile - 1 : file[i] = file[j] => i = j
  /\ \A i \in MemSlots : i >= numMem => mem[i] = Null
  /\ \A i \in FileSlots : i >= numFile => file[i] = NoFd

\* After cleanup() a thread has left nothing behind but the descriptors that its
\* collector had no slot for.  (A collector without memory slots, as main() has
\* it, cleans nothing up: resource_utils.c:221.)
NothingLeft == cleaned /\ hasMem => heap = {} /\ open \subseteq declined

\* A collector gives back what it owns and nothing else.
Owner == INSTANCE OwnedResources WITH blocks <- Blocks, files <- Files
ImplementsOwner == Owner!Spec
=============================================================================
