------------------------ MODULE CircularBufferProofs ------------------------
(***************************************************************************)
(* Proof that CircularBuffer implements BoundedQueue, and that its search  *)
(* is the one of the concatenation, for every capacity and every set of    *)
(* entries.                                                                *)
(***************************************************************************)
EXTENDS CircularBuffer, SequenceTheorems, WellFoundedInduction, TLAPS

\* Remainders of numbers below twice the divisor.
LEMMA WrapOnce ==
  ASSUME NEW m \in Nat \ {0}, NEW x \in 0 .. 2 * m - 1
  PROVE  x % m = IF x < m THEN x ELSE x - m
<1> DEFINE q == x \div m
           r == x % m
<1>1. q \in Int /\ r \in Int /\ x = m * q + r /\ 0 <= r /\ r < m
  BY SMTT(30)
<1> HIDE DEF q, r
<1>2. q = 0 \/ q = 1
  <2>1. ASSUME q <= -1 PROVE FALSE
    <3>1. m * q <= -m
      BY <1>1, <2>1, SMTT(30)
    <3> QED BY <1>1, <3>1
  <2>2. ASSUME q >= 2 PROVE FALSE
    <3>1. m * q >= 2 * m
      BY <1>1, <2>2, SMTT(30)
    <3> QED BY <1>1, <3>1
  <2> QED BY <1>1, <2>1, <2>2
<1>3. CASE q = 0
  <2>1. x = r
    BY <1>1, <1>3
  <2> QED BY <1>1, <2>1 DEF r
<1>4. CASE q = 1
  <2>1. x = m + r
    BY <1>1, <1>4
  <2> QED BY <1>1, <2>1 DEF r
<1> QED BY <1>2, <1>3, <1>4

-----------------------------------------------------------------------------
(* What the three indices mean.                                            *)

IndexInv ==
  /\ entry \in [Slots -> Entry \cup {Empty}]
  /\ inOffs \in Slots
  /\ outOffs \in Slots
  /\ full \in BOOLEAN
  /\ full => inOffs = outOffs

\* One slot on, without a remainder.
LEMMA NextSlotValue ==
  ASSUME NEW i \in Slots
  PROVE  /\ NextSlot(i) \in Slots
         /\ NextSlot(i) = IF i + 1 = MaxWrites THEN 0 ELSE i + 1
<1> DEFINE d == i + 1
<1>1. MaxWrites \in Nat \ {0} /\ i \in 0 .. MaxWrites - 1 /\ d \in 0 .. 2 * MaxWrites - 1
  BY BufferAssumption DEF Slots
<1>2. d % MaxWrites = IF d < MaxWrites THEN d ELSE d - MaxWrites
  <2> HIDE DEF d
  <2> QED BY <1>1, WrapOnce
<1> QED BY <1>1, <1>2 DEF NextSlot, Slots

\* How many entries there are.
LEMMA CountValue ==
  ASSUME IndexInv
  PROVE  /\ Count \in 0 .. MaxWrites
         /\ Count = IF full THEN MaxWrites
                    ELSE IF inOffs >= outOffs THEN inOffs - outOffs
                    ELSE inOffs - outOffs + MaxWrites
<1> DEFINE d == inOffs - outOffs + MaxWrites
<1>1. MaxWrites \in Nat \ {0} /\ d \in 0 .. 2 * MaxWrites - 1
      /\ inOffs \in 0 .. MaxWrites - 1 /\ outOffs \in 0 .. MaxWrites - 1
  BY BufferAssumption DEF IndexInv, Slots
<1>2. d % MaxWrites = IF d < MaxWrites THEN d ELSE d - MaxWrites
  <2> HIDE DEF d
  <2> QED BY <1>1, WrapOnce
<1> QED BY <1>1, <1>2 DEF Count

\* Where the i-th entry is.
LEMMA UsedValue ==
  ASSUME IndexInv, NEW i \in 1 .. Count
  PROVE  /\ Used[i] \in Slots
         /\ Used[i] = IF outOffs + i - 1 < MaxWrites THEN outOffs + i - 1
                      ELSE outOffs + i - 1 - MaxWrites
<1> DEFINE d == outOffs + i - 1
<1>1. MaxWrites \in Nat \ {0} /\ d \in 0 .. 2 * MaxWrites - 1
  BY BufferAssumption, CountValue DEF IndexInv, Slots
<1>2. d % MaxWrites = IF d < MaxWrites THEN d ELSE d - MaxWrites
  <2> HIDE DEF d
  <2> QED BY <1>1, WrapOnce
<1>3. Used[i] = d % MaxWrites
  BY DEF Used
<1>4. d < MaxWrites => Used[i] = d /\ Used[i] \in Slots
  <2> HIDE DEF d
  <2> QED BY <1>1, <1>2, <1>3 DEF Slots
<1>5. ~(d < MaxWrites) => Used[i] = d - MaxWrites /\ Used[i] \in Slots
  <2> HIDE DEF d
  <2> QED BY <1>1, <1>2, <1>3 DEF Slots
<1>6. outOffs \in Int /\ i \in Int /\ MaxWrites \in Int /\ d = outOffs + i - 1
  BY BufferAssumption, CountValue DEF IndexInv, Slots
<1> QED
  <2> HIDE DEF d
  <2>1. CASE d < MaxWrites
    BY <1>4, <1>6, <2>1
  <2>2. CASE ~(d < MaxWrites)
    BY <1>5, <1>6, <2>2
  <2> QED BY <2>1, <2>2

\* The contents are a sequence of Count entries.
LEMMA ContentsType ==
  ASSUME IndexInv
  PROVE  /\ Contents \in Seq(Entry \cup {Empty})
         /\ Len(Contents) = Count
         /\ \A i \in 1 .. Count : Contents[i] = entry[Used[i]]
<1>1. Count \in Nat
  BY CountValue, BufferAssumption
<1>2. \A i \in 1 .. Count : entry[Used[i]] \in Entry \cup {Empty}
  BY UsedValue DEF IndexInv
<1>3. Contents \in [1 .. Count -> Entry \cup {Empty}]
  BY <1>2 DEF Contents
<1> QED BY <1>1, <1>3 DEF Contents

\* The three lemmas as one fact, of this state or, primed, of the next.
IndexMeaning ==
  /\ Count \in 0 .. MaxWrites
  /\ Count = IF full THEN MaxWrites
             ELSE IF inOffs >= outOffs THEN inOffs - outOffs
             ELSE inOffs - outOffs + MaxWrites
  /\ Contents \in Seq(Entry \cup {Empty})
  /\ Len(Contents) = Count
  /\ \A i \in 1 .. Count :
       Contents[i] = entry[IF outOffs + i - 1 < MaxWrites THEN outOffs + i - 1
                           ELSE outOffs + i - 1 - MaxWrites]

LEMMA MeaningOfIndices == IndexInv => IndexMeaning
BY CountValue, UsedValue, ContentsType DEF IndexMeaning

-----------------------------------------------------------------------------
(* The steps.                                                              *)

LEMMA IndexInvInitially == Init => IndexInv
<1>1. 0 \in Slots
  BY BufferAssumption DEF Slots
<1>2. [i \in Slots |-> Empty] \in [Slots -> Entry \cup {Empty}]
  OBVIOUS
<1> QED BY <1>1, <1>2 DEF Init, IndexInv

LEMMA IndexInvPreserved ==
  ASSUME IndexInv, [Next]_vars
  PROVE  IndexInv'
<1>1. ASSUME NEW e \in Entry, Add(e)
      PROVE  IndexInv'
  <2>1. NextSlot(inOffs) \in Slots /\ NextSlot(outOffs) \in Slots
    BY NextSlotValue DEF IndexInv
  <2> QED BY <1>1, <2>1 DEF IndexInv, Add
<1>2. ASSUME NEW pos \in Offsets, Find(pos)
      PROVE  IndexInv'
  BY <1>2 DEF IndexInv, Find
<1>3. CASE UNCHANGED vars
  BY <1>3 DEF IndexInv, vars
<1> QED BY <1>1, <1>2, <1>3 DEF Next

\* A write appends its entry; when the buffer was full, the oldest is gone.
LEMMA AddIsPush ==
  ASSUME IndexInv, IndexInv', NEW e \in Entry, Add(e)
  PROVE  Queue!Push(e)
<1>1. /\ MaxWrites \in Nat \ {0}
      /\ inOffs \in 0 .. MaxWrites - 1 /\ outOffs \in 0 .. MaxWrites - 1
      /\ full \in BOOLEAN
      /\ full => inOffs = outOffs
      /\ entry \in [0 .. MaxWrites - 1 -> Entry \cup {Empty}]
  BY BufferAssumption DEF IndexInv, Slots
<1>2. /\ inOffs' = IF inOffs + 1 = MaxWrites THEN 0 ELSE inOffs + 1
      /\ outOffs' = IF ~full THEN outOffs
                    ELSE IF outOffs + 1 = MaxWrites THEN 0 ELSE outOffs + 1
      /\ full' = (full \/ inOffs' = outOffs')
      /\ entry' = [entry EXCEPT ![inOffs] = e]
  BY NextSlotValue DEF Add, IndexInv
<1>3. IndexMeaning /\ IndexMeaning'
  BY MeaningOfIndices, PTL
<1> DEFINE S == Entry \cup {Empty}
           kept == IF Len(Contents) = MaxWrites THEN Tail(Contents) ELSE Contents
<1>4. Contents \in Seq(S) /\ Contents' \in Seq(S) /\ e \in S
  BY <1>3 DEF IndexMeaning
<1>5. CASE ~full
  <2>1. Count \in 0 .. MaxWrites - 1 /\ Count' = Count + 1
    <3>1. /\ Count = IF inOffs >= outOffs THEN inOffs - outOffs
                     ELSE inOffs - outOffs + MaxWrites
          /\ outOffs' = outOffs
          /\ full' <=> inOffs' = outOffs
      BY <1>2, <1>3, <1>5 DEF IndexMeaning
    <3>2. Count' = IF inOffs' = outOffs THEN MaxWrites
                   ELSE IF inOffs' >= outOffs THEN inOffs' - outOffs
                   ELSE inOffs' - outOffs + MaxWrites
      BY <1>3, <3>1 DEF IndexMeaning
    <3> QED BY <1>1, <1>2, <3>1, <3>2
  <2>2. kept = Contents /\ Len(Contents) = Count /\ Len(Contents') = Count + 1
    BY <1>1, <1>3, <2>1 DEF IndexMeaning
  <2>3. ASSUME NEW i \in 1 .. Count
        PROVE  Contents'[i] = Contents[i]
    <3> DEFINE u == IF outOffs + i - 1 < MaxWrites THEN outOffs + i - 1
                    ELSE outOffs + i - 1 - MaxWrites
    <3>1. Contents[i] = entry[u] /\ Contents'[i] = entry'[u]
      BY <1>2, <1>3, <1>5, <2>1 DEF IndexMeaning
    <3>2. u \in 0 .. MaxWrites - 1 /\ u # inOffs
      BY <1>1, <1>3, <1>5, <2>1, SMTT(30) DEF IndexMeaning
    <3> HIDE DEF u
    <3> QED BY <1>1, <1>2, <3>1, <3>2
  <2>4. Contents'[Count + 1] = e
    <3> DEFINE u == IF outOffs + Count < MaxWrites THEN outOffs + Count
                    ELSE outOffs + Count - MaxWrites
    <3>1. u = inOffs
      BY <1>1, <1>3, <1>5, <2>1 DEF IndexMeaning
    <3>2. Contents'[Count + 1] = entry'[u]
      BY <1>1, <1>2, <1>3, <1>5, <2>1 DEF IndexMeaning
    <3> QED BY <1>1, <1>2, <3>1, <3>2
  <2>5. Contents' = Append(Contents, e)
    <3>1. /\ Append(Contents, e) \in Seq(S)
          /\ Len(Append(Contents, e)) = Count + 1
          /\ \A i \in 1 .. Count : Append(Contents, e)[i] = Contents[i]
          /\ Append(Contents, e)[Count + 1] = e
      BY <1>4, <2>2, AppendProperties
    <3>2. \A i \in 1 .. Count + 1 : Contents'[i] = Append(Contents, e)[i]
      BY <2>1, <2>3, <2>4, <3>1
    <3> QED BY <1>4, <2>2, <3>1, <3>2, SeqEqual
  <2> QED BY <2>2, <2>5 DEF Queue!Push
<1>6. CASE full
  <2>1. Count = MaxWrites /\ Count' = MaxWrites /\ full'
    BY <1>2, <1>3, <1>6 DEF IndexMeaning
  <2>2. Len(Contents) = MaxWrites /\ Len(Contents') = MaxWrites /\ kept = Tail(Contents)
    BY <1>3, <2>1 DEF IndexMeaning
  <2>3. ASSUME NEW i \in 1 .. MaxWrites - 1
        PROVE  Contents'[i] = Contents[i + 1]
    <3> DEFINE u == IF outOffs + i < MaxWrites THEN outOffs + i ELSE outOffs + i - MaxWrites
    <3>1. Contents[i + 1] = entry[u]
      BY <1>1, <1>3, <2>1 DEF IndexMeaning
    <3>2. Contents'[i] = entry'[u]
      BY <1>1, <1>2, <1>3, <1>6, <2>1 DEF IndexMeaning
    <3>3. u \in 0 .. MaxWrites - 1 /\ u # inOffs
      BY <1>1, <1>6
    <3> HIDE DEF u
    <3> QED BY <1>1, <1>2, <3>1, <3>2, <3>3
  <2>4. Contents'[MaxWrites] = e
    <3>1. Contents'[MaxWrites] = entry'[inOffs]
      BY <1>1, <1>2, <1>3, <1>6, <2>1, SMTT(30) DEF IndexMeaning
    <3> QED BY <1>1, <1>2, <3>1
  <2>5. /\ Tail(Contents) \in Seq(S)
        /\ Len(Tail(Contents)) = MaxWrites - 1
        /\ \A i \in 1 .. MaxWrites - 1 : Tail(Contents)[i] = Contents[i + 1]
    <3>1. Contents # <<>>
      BY <1>1, <2>2
    <3> QED BY <1>4, <2>2, <3>1, HeadTailProperties
  <2>6. /\ Append(Tail(Contents), e) \in Seq(S)
        /\ Len(Append(Tail(Contents), e)) = MaxWrites
        /\ \A i \in 1 .. MaxWrites - 1 : Append(Tail(Contents), e)[i] = Tail(Contents)[i]
        /\ Append(Tail(Contents), e)[MaxWrites] = e
    <3> HIDE DEF S
    <3>1. MaxWrites - 1 + 1 = MaxWrites
      BY <1>1
    <3> QED BY <1>4, <2>5, <3>1, AppendProperties
  <2>7. \A i \in 1 .. MaxWrites : Contents'[i] = Append(Tail(Contents), e)[i]
    BY <1>1, <2>3, <2>4, <2>5, <2>6
  <2>8. Contents' = Append(Tail(Contents), e)
    BY <1>4, <2>2, <2>6, <2>7, SeqEqual
  <2> QED BY <2>2, <2>8 DEF Queue!Push
<1> QED BY <1>1, <1>5, <1>6

\* A search leaves the contents alone.
LEMMA FindIsStutter ==
  ASSUME NEW pos, Find(pos)
  PROVE  UNCHANGED Contents
BY DEF Find, Contents, Used, Count

\* The buffer is a queue of the last MaxWrites writes: whatever the capacity
\* and however the indices wrap, aesd_circular_buffer_add_entry keeps the newest
\* entries in order and loses the oldest one only when there is no room.
THEOREM BufferIsQueue == Spec => ImplementsQueue
<1>1. Init => IndexInv /\ Queue!Init
  <2> SUFFICES ASSUME Init PROVE IndexInv /\ Queue!Init
    OBVIOUS
  <2>1. IndexInv
    BY IndexInvInitially
  <2>2. IndexMeaning
    BY <2>1, MeaningOfIndices
  <2>3. Contents \in Seq(Entry \cup {Empty}) /\ Len(Contents) = 0
    BY <2>2 DEF Init, IndexMeaning
  <2>4. Contents = <<>>
    BY <2>3, EmptySeq
  <2> QED BY <2>1, <2>4 DEF Queue!Init
<1>2. IndexInv /\ [Next]_vars => IndexInv'
  BY IndexInvPreserved
<1>3. IndexInv /\ IndexInv' /\ [Next]_vars => [Queue!Next]_Contents
  <2> SUFFICES ASSUME IndexInv, IndexInv', [Next]_vars PROVE [Queue!Next]_Contents
    OBVIOUS
  <2>1. ASSUME NEW e \in Entry, Add(e) PROVE Queue!Next
    BY <2>1, AddIsPush DEF Queue!Next
  <2>2. ASSUME NEW pos \in Offsets, Find(pos) PROVE UNCHANGED Contents
    BY <2>2, FindIsStutter
  <2>3. CASE UNCHANGED vars
    BY <2>3 DEF vars, Contents, Used, Count
  <2> QED BY <2>1, <2>2, <2>3 DEF Next
<1> QED BY <1>1, <1>2, <1>3, PTL DEF Spec, ImplementsQueue, Queue!Spec

\* The indices stay inside the array (aesd-circular-buffer.c:84-91) and its slots
\* hold what was written or nothing, for every capacity.
THEOREM BufferTypeCorrect == Spec => []TypeOK
<1>1. IndexInv /\ [Next]_vars => IndexInv'
  BY IndexInvPreserved
<1>2. IndexInv => TypeOK
  BY DEF IndexInv, TypeOK
<1> QED BY IndexInvInitially, <1>1, <1>2, PTL DEF Spec

-----------------------------------------------------------------------------
(***************************************************************************)
(* The search.  The loop and Before are recursive: that they exist, and    *)
(* what a round leaves, is proved of the smallest number of rounds for     *)
(* which it fails.                                                         *)
(***************************************************************************)

\* A set of naturals that is not empty has a smallest element.
LEMMA SmallestNumber ==
  ASSUME NEW S \in SUBSET Nat, S # {}
  PROVE  \E m \in S : \A k \in S : m <= k
<1> DEFINE R == OpToRel(<, Nat)
<1>1. IsWellFoundedOn(R, Nat)
  BY NatLessThanWellFounded
<1> HIDE DEF R
<1>2. PICK m \in S : \A k \in S : ~(<<k, m>> \in R)
  BY <1>1, WFMin
<1>3. \A k \in S : ~(k < m)
  BY <1>2 DEF R, OpToRel
<1> QED BY <1>3

\* f counts the bytes before the first n entries and the one after them.
Counts(f, n) == f = [i \in 1 .. n |-> IF i = 1 THEN 0 ELSE f[i - 1] + Contents[i - 1].size]

\* What Before says of one entry after the other.
LEMMA BeforeValue ==
  /\ Before[1] = 0
  /\ \A i \in 2 .. MaxWrites + 1 : Before[i] = Before[i - 1] + Contents[i - 1].size
<1> DEFINE N == MaxWrites + 1
           S == {n \in 1 .. N : ~ \E f : Counts(f, n)}
<1>1. N \in Nat /\ N > 1
  BY BufferAssumption
<1> HIDE DEF N
<1>2. S = {}
  <2> SUFFICES ASSUME S # {} PROVE FALSE
    OBVIOUS
  <2>1. S \in SUBSET Nat
    BY <1>1
  <2>2. PICK m \in S : \A k \in S : m <= k
    BY <2>1, SmallestNumber
  <2>3. m \in 1 .. N /\ ~ \E f : Counts(f, m)
    BY <2>2
  <2>4. CASE m = 1
    <3> DEFINE g == [i \in 1 .. 1 |-> IF i = 1 THEN 0 ELSE 0]
    <3>1. g = [i \in 1 .. 1 |-> IF i = 1 THEN 0 ELSE g[i - 1] + Contents[i - 1].size]
      OBVIOUS
    <3> QED BY <2>3, <2>4, <3>1 DEF Counts
  <2>5. CASE m # 1
    <3>1. m - 1 \in 1 .. N /\ m - 1 \notin S
      BY <1>1, <2>2, <2>3, <2>5
    <3>2. PICK f : Counts(f, m - 1)
      BY <3>1
    <3> DEFINE g == [i \in 1 .. m |-> IF i = m THEN f[m - 1] + Contents[m - 1].size ELSE f[i]]
    <3>3. ASSUME NEW i \in 1 .. m
          PROVE  g[i] = IF i = 1 THEN 0 ELSE g[i - 1] + Contents[i - 1].size
      <4>1. CASE i = m
        <5>1. i - 1 \in 1 .. m /\ i - 1 # m /\ g[i - 1] = f[m - 1]
          BY <1>1, <2>3, <2>5, <4>1
        <5>2. g[i] = f[m - 1] + Contents[m - 1].size
          BY <4>1
        <5> QED BY <2>5, <4>1, <5>1, <5>2
      <4>2. CASE i # m
        <5>1. i \in 1 .. m - 1 /\ g[i] = f[i]
          BY <1>1, <2>3, <4>2
        <5>2. f[i] = IF i = 1 THEN 0 ELSE f[i - 1] + Contents[i - 1].size
          BY <3>2, <5>1 DEF Counts
        <5>3. i # 1 => g[i - 1] = f[i - 1]
          BY <1>1, <2>3, <5>1
        <5> QED BY <5>1, <5>2, <5>3
      <4> QED BY <4>1, <4>2
    <3>4. g = [i \in 1 .. m |-> g[i]]
      OBVIOUS
    <3> HIDE DEF g
    <3>5. Counts(g, m)
      BY <3>3, <3>4 DEF Counts
    <3> QED BY <2>3, <3>5
  <2> QED BY <2>4, <2>5
<1>3. \E f : Counts(f, N)
  BY <1>1, <1>2
<1>4. Before = CHOOSE f : Counts(f, N)
  BY DEF Before, Counts, N
<1>5. Counts(Before, N)
  BY <1>3, <1>4
<1>6. \A i \in 1 .. N : Before[i] = IF i = 1 THEN 0 ELSE Before[i - 1] + Contents[i - 1].size
  BY <1>5 DEF Counts
<1>7. 1 \in 1 .. N /\ \A i \in 2 .. N : i \in 1 .. N /\ i # 1
  BY <1>1
<1> QED BY <1>6, <1>7 DEF N

-----------------------------------------------------------------------------
(* The states of the loop.                                                 *)

LoopStart == [index |-> outOffs, isFirst |-> TRUE, charLen |-> 0, slot |-> outOffs, off |-> 0]

LoopRound(pos, w) ==
  IF w.charLen <= pos /\ MoreSlots(w)
  THEN [index |-> NextSlot(w.index),
        isFirst |-> FALSE,
        charLen |-> w.charLen + entry[w.index].size,
        slot |-> IF Holds(w, pos) THEN w.index ELSE w.slot,
        off |-> IF Holds(w, pos) THEN pos - w.charLen ELSE w.off]
  ELSE w

\* f has the states of the first n rounds.
Loops(pos, f, n) == f = [k \in 0 .. n |-> IF k = 0 THEN LoopStart ELSE LoopRound(pos, f[k - 1])]

\* Walk is what the rounds lead to, one after the other.
LEMMA WalkRounds ==
  ASSUME NEW pos
  PROVE  \E f : /\ Walk(pos) = f[MaxWrites]
                /\ f[0] = LoopStart
                /\ \A k \in 1 .. MaxWrites : f[k] = LoopRound(pos, f[k - 1])
<1> DEFINE S == {n \in 0 .. MaxWrites : ~ \E f : Loops(pos, f, n)}
<1>1. MaxWrites \in Nat
  BY BufferAssumption
<1>2. S = {}
  <2> SUFFICES ASSUME S # {} PROVE FALSE
    OBVIOUS
  <2>1. S \in SUBSET Nat
    BY <1>1
  <2>2. PICK m \in S : \A k \in S : m <= k
    BY <2>1, SmallestNumber
  <2>3. m \in 0 .. MaxWrites /\ ~ \E f : Loops(pos, f, m)
    BY <2>2
  <2>4. CASE m = 0
    <3> DEFINE g == [k \in 0 .. 0 |-> LoopStart]
    <3>1. g = [k \in 0 .. 0 |-> IF k = 0 THEN LoopStart ELSE LoopRound(pos, g[k - 1])]
      OBVIOUS
    <3> QED BY <2>3, <2>4, <3>1 DEF Loops
  <2>5. CASE m # 0
    <3>1. m - 1 \in 0 .. MaxWrites /\ m - 1 \notin S
      BY <1>1, <2>2, <2>3, <2>5
    <3>2. PICK f : Loops(pos, f, m - 1)
      BY <3>1
    <3> DEFINE g == [k \in 0 .. m |-> IF k = m THEN LoopRound(pos, f[m - 1]) ELSE f[k]]
    <3>3. ASSUME NEW k \in 0 .. m
          PROVE  g[k] = IF k = 0 THEN LoopStart ELSE LoopRound(pos, g[k - 1])
      <4>1. CASE k = m
        <5>1. k - 1 \in 0 .. m /\ k - 1 # m /\ g[k - 1] = f[m - 1]
          BY <1>1, <2>3, <2>5, <4>1
        <5>2. g[k] = LoopRound(pos, f[m - 1])
          BY <4>1
        <5> QED BY <2>5, <4>1, <5>1, <5>2
      <4>2. CASE k # m
        <5>1. k \in 0 .. m - 1 /\ g[k] = f[k]
          BY <1>1, <2>3, <4>2
        <5>2. f[k] = IF k = 0 THEN LoopStart ELSE LoopRound(pos, f[k - 1])
          BY <3>2, <5>1 DEF Loops
        <5>3. k # 0 => g[k - 1] = f[k - 1]
          BY <1>1, <2>3, <5>1
        <5> QED BY <5>1, <5>2, <5>3
      <4> QED BY <4>1, <4>2
    <3>4. g = [k \in 0 .. m |-> g[k]]
      OBVIOUS
    <3> HIDE DEF g
    <3>5. Loops(pos, g, m)
      BY <3>3, <3>4 DEF Loops
    <3> QED BY <2>3, <3>5
  <2> QED BY <2>4, <2>5
<1> DEFINE f == CHOOSE g : Loops(pos, g, MaxWrites)
<1>3. Loops(pos, f, MaxWrites)
  <2>1. \E g : Loops(pos, g, MaxWrites)
    BY <1>1, <1>2
  <2> QED BY <2>1
<1>4. Walk(pos) = f[MaxWrites]
  BY DEF Walk, Loops, LoopStart, LoopRound
<1> HIDE DEF f
<1>5. \A k \in 0 .. MaxWrites : f[k] = IF k = 0 THEN LoopStart ELSE LoopRound(pos, f[k - 1])
  BY <1>3 DEF Loops
<1>6. f[0] = LoopStart /\ \A k \in 1 .. MaxWrites : f[k] = LoopRound(pos, f[k - 1])
  BY <1>1, <1>5
<1> QED BY <1>4, <1>6

\* Where the k-th slot after the oldest entry is.
SlotAfter(k) == IF outOffs + k < MaxWrites THEN outOffs + k ELSE outOffs + k - MaxWrites

\* k entries were passed over and the position is behind them.
Passed(pos, k, w) ==
  /\ k <= Count
  /\ w.charLen = Before[k + 1] /\ w.charLen \in Nat /\ w.charLen <= pos
  /\ w.index = SlotAfter(k)
  /\ w.isFirst <=> k = 0

\* The entry that has the position was found.
Hit(pos, w) ==
  /\ ~(w.charLen <= pos)
  /\ \E i \in 1 .. Count :
       w.slot = Used[i] /\ pos = Before[i] + w.off /\ w.off < Contents[i].size

\* There are no more entries.
Exhausted(pos, w) ==
  w.charLen <= pos /\ ~MoreSlots(w) /\ w.charLen = Before[Count + 1]

\* What k rounds lead to.
After(pos, k, w) == Passed(pos, k, w) \/ Hit(pos, w) \/ Exhausted(pos, w)

\* The slots of the entries, and of the one behind the last.
LEMMA SlotOfEntry ==
  ASSUME IndexInv
  PROVE  /\ \A i \in 1 .. Count : /\ Used[i] = SlotAfter(i - 1)
                                  /\ Contents[i] = entry[SlotAfter(i - 1)]
                                  /\ Contents[i].size \in Nat
         /\ \A k \in 0 .. MaxWrites - 1 : NextSlot(SlotAfter(k)) = SlotAfter(k + 1)
         /\ SlotAfter(0) = outOffs
<1>1. /\ MaxWrites \in Nat \ {0} /\ outOffs \in 0 .. MaxWrites - 1
      /\ Count \in 0 .. MaxWrites
  BY BufferAssumption, CountValue DEF IndexInv, Slots
<1>2. ASSUME NEW i \in 1 .. Count
      PROVE  Used[i] = SlotAfter(i - 1) /\ Contents[i] = entry[SlotAfter(i - 1)]
  <2>1. outOffs + (i - 1) = outOffs + i - 1
    BY <1>1
  <2>2. Used[i] = SlotAfter(i - 1)
    BY <2>1, UsedValue DEF SlotAfter
  <2> QED BY <2>2, ContentsType
<1>3. ASSUME NEW i \in 1 .. Count PROVE Contents[i].size \in Nat
  <2>1. entry[Used[i]] \in Entry \cup {Empty}
    BY UsedValue DEF IndexInv
  <2>2. Contents[i] \in Entry \cup {Empty}
    BY <2>1, ContentsType
  <2>3. Sizes \subseteq Nat
    BY BufferAssumption
  <2>4. \A e \in Entry : e.size \in Nat
    BY <2>3 DEF Entry
  <2>5. Empty.size \in Nat
    BY DEF Empty
  <2> QED BY <2>2, <2>4, <2>5
<1>4. ASSUME NEW k \in 0 .. MaxWrites - 1 PROVE NextSlot(SlotAfter(k)) = SlotAfter(k + 1)
  <2>1. SlotAfter(k) \in Slots
    BY <1>1 DEF SlotAfter, Slots
  <2>2. NextSlot(SlotAfter(k)) = IF SlotAfter(k) + 1 = MaxWrites THEN 0 ELSE SlotAfter(k) + 1
    BY <2>1, NextSlotValue
  <2> QED BY <1>1, <2>2 DEF SlotAfter
<1>5. SlotAfter(0) = outOffs
  BY <1>1 DEF SlotAfter
<1> QED BY <1>2, <1>3, <1>4, <1>5

\* The loop goes on exactly while entries are left: a full buffer has them all.
LEMMA MoreSlotsMeaning ==
  ASSUME IndexInv, NEW pos, NEW k \in 0 .. MaxWrites, NEW w, Passed(pos, k, w)
  PROVE  MoreSlots(w) <=> k < Count
<1>1. /\ MaxWrites \in Nat \ {0} /\ outOffs \in 0 .. MaxWrites - 1 /\ inOffs \in 0 .. MaxWrites - 1
      /\ Count \in 0 .. MaxWrites
      /\ Count = IF full THEN MaxWrites
                 ELSE IF inOffs >= outOffs THEN inOffs - outOffs
                 ELSE inOffs - outOffs + MaxWrites
  BY BufferAssumption, CountValue DEF IndexInv, Slots
<1>2. w.index = SlotAfter(k) /\ (w.isFirst <=> k = 0) /\ k <= Count
  BY DEF Passed
<1>3. CASE full
  <2>1. inOffs = outOffs /\ Count = MaxWrites
    BY <1>1, <1>3 DEF IndexInv
  <2>2. w.index # inOffs <=> k # 0 /\ k # MaxWrites
    BY <1>1, <1>2, <2>1 DEF SlotAfter
  <2>3. MoreSlots(w) <=> k # MaxWrites
    BY <1>1, <1>2, <1>3, <2>2 DEF MoreSlots
  <2> QED BY <1>1, <2>1, <2>3
<1>4. CASE ~full
  <2>1. w.index # inOffs <=> k # Count
    BY <1>1, <1>2, <1>4 DEF SlotAfter
  <2> QED BY <1>1, <1>2, <1>4, <2>1 DEF MoreSlots
<1> QED BY <1>3, <1>4

\* One more round.
LEMMA RoundAfter ==
  ASSUME IndexInv, NEW pos \in Nat, NEW k \in 0 .. MaxWrites - 1, NEW w, After(pos, k, w)
  PROVE  After(pos, k + 1, LoopRound(pos, w))
<1>1. MaxWrites \in Nat \ {0} /\ Count \in 0 .. MaxWrites /\ k \in Nat
  BY BufferAssumption, CountValue
<1>2. CASE Hit(pos, w) \/ Exhausted(pos, w)
  <2>1. LoopRound(pos, w) = w
    BY <1>2 DEF LoopRound, Hit, Exhausted
  <2> QED BY <1>2, <2>1 DEF After
<1>3. CASE Passed(pos, k, w)
  <2>1. /\ k <= Count /\ w.charLen = Before[k + 1] /\ w.charLen \in Nat /\ w.charLen <= pos
        /\ w.index = SlotAfter(k) /\ (w.isFirst <=> k = 0)
    BY <1>3 DEF Passed
  <2>2. MoreSlots(w) <=> k < Count
    BY <1>1, <1>3, MoreSlotsMeaning
  <2>3. CASE k < Count
    <3> DEFINE v == LoopRound(pos, w)
               n == Contents[k + 1].size
    <3>1. k + 1 \in 1 .. Count /\ (k + 1) - 1 = k
      BY <1>1, <2>3
    <3>2. /\ Used[k + 1] = w.index /\ entry[w.index].size = n /\ n \in Nat
          /\ NextSlot(w.index) = SlotAfter(k + 1)
      BY <2>1, <3>1, SlotOfEntry
    <3>3. Before[(k + 1) + 1] = Before[k + 1] + n
      <4>1. (k + 1) + 1 \in 2 .. MaxWrites + 1 /\ ((k + 1) + 1) - 1 = k + 1
        BY <1>1, <3>1
      <4> QED BY <4>1, BeforeValue
    <3>4. /\ v.charLen = w.charLen + n /\ v.index = SlotAfter(k + 1) /\ v.isFirst = FALSE
          /\ w.charLen + n > pos => v.slot = w.index /\ v.off = pos - w.charLen
      BY <2>1, <2>2, <2>3, <3>2 DEF LoopRound, Holds
    <3> HIDE DEF v, n
    <3>5. CASE w.charLen + n > pos
      <4>1. ~(v.charLen <= pos)
        BY <2>1, <3>2, <3>4, <3>5
      <4>2. v.slot = Used[k + 1]
        BY <3>2, <3>4, <3>5
      <4>3. pos = Before[k + 1] + v.off /\ v.off < n
        <5>1. pos = w.charLen + (pos - w.charLen) /\ pos - w.charLen < n
          BY <2>1, <3>2, <3>5
        <5> QED BY <2>1, <3>4, <3>5, <5>1
      <4>4. Hit(pos, v)
        BY <3>1, <4>1, <4>2, <4>3 DEF Hit, n
      <4> QED BY <4>4 DEF After, v
    <3>6. CASE ~(w.charLen + n > pos)
      <4>1. v.charLen \in Nat /\ v.charLen <= pos /\ v.charLen = Before[(k + 1) + 1]
        BY <2>1, <3>2, <3>3, <3>4, <3>6
      <4>2. k + 1 <= Count /\ ~(k + 1 = 0)
        BY <1>1, <3>1
      <4>3. Passed(pos, k + 1, v)
        BY <3>4, <4>1, <4>2 DEF Passed
      <4> QED BY <4>3 DEF After, v
    <3> QED BY <3>5, <3>6
  <2>4. CASE ~(k < Count)
    <3>1. k = Count
      BY <1>1, <2>1, <2>4
    <3>2. ~MoreSlots(w) /\ LoopRound(pos, w) = w
      BY <2>2, <2>4 DEF LoopRound
    <3>3. Exhausted(pos, w)
      BY <2>1, <3>1, <3>2 DEF Exhausted
    <3> QED BY <3>2, <3>3 DEF After
  <2> QED BY <2>3, <2>4
<1> QED BY <1>2, <1>3 DEF After

\* So the whole loop finds the entry, or that there is none.
LEMMA SearchFinds ==
  ASSUME IndexInv, NEW pos \in Nat
  PROVE  Hit(pos, Walk(pos)) \/ (Walk(pos).charLen <= pos /\ Walk(pos).charLen = Before[Count + 1])
<1>1. MaxWrites \in Nat \ {0} /\ Count \in 0 .. MaxWrites
  BY BufferAssumption, CountValue
<1>2. PICK f : /\ Walk(pos) = f[MaxWrites]
               /\ f[0] = LoopStart
               /\ \A k \in 1 .. MaxWrites : f[k] = LoopRound(pos, f[k - 1])
  BY WalkRounds
<1> DEFINE S == {k \in 0 .. MaxWrites : ~After(pos, k, f[k])}
<1>3. S = {}
  <2> SUFFICES ASSUME S # {} PROVE FALSE
    OBVIOUS
  <2>1. S \in SUBSET Nat
    BY <1>1
  <2>2. PICK m \in S : \A k \in S : m <= k
    BY <2>1, SmallestNumber
  <2>3. m \in 0 .. MaxWrites /\ ~After(pos, m, f[m])
    BY <2>2
  <2>4. CASE m = 0
    <3>1. /\ LoopStart.charLen = 0 /\ LoopStart.index = outOffs /\ LoopStart.isFirst = TRUE
      BY DEF LoopStart
    <3>2. Before[0 + 1] = 0 /\ SlotAfter(0) = outOffs
      BY BeforeValue, SlotOfEntry
    <3>3. 0 <= Count /\ 0 <= pos
      BY <1>1
    <3>4. Passed(pos, 0, LoopStart)
      BY <3>1, <3>2, <3>3 DEF Passed
    <3> QED BY <1>2, <2>3, <2>4, <3>4 DEF After
  <2>5. CASE m # 0
    <3>1. /\ m - 1 \in 0 .. MaxWrites - 1 /\ m - 1 \in 0 .. MaxWrites /\ m \in 1 .. MaxWrites
          /\ m - 1 \notin S /\ (m - 1) + 1 = m
      BY <1>1, <2>2, <2>3, <2>5
    <3>2. After(pos, m - 1, f[m - 1])
      BY <3>1
    <3>3. After(pos, (m - 1) + 1, LoopRound(pos, f[m - 1]))
      BY <3>1, <3>2, RoundAfter
    <3> QED BY <1>2, <2>3, <3>1, <3>3
  <2> QED BY <2>4, <2>5
<1>4. After(pos, MaxWrites, Walk(pos))
  BY <1>1, <1>2, <1>3
<1>5. CASE Passed(pos, MaxWrites, Walk(pos))
  <2>1. MaxWrites = Count
    BY <1>1, <1>5 DEF Passed
  <2> QED BY <1>5, <2>1 DEF Passed
<1>6. CASE Hit(pos, Walk(pos)) \/ Exhausted(pos, Walk(pos))
  BY <1>6 DEF Exhausted
<1> QED BY <1>4, <1>5, <1>6 DEF After

\* The search of aesd-circular-buffer.c:29-66 returns the entry that has byte number pos
\* of the concatenation of all entries, and the place in it, or NULL when there are not
\* that many bytes: for every capacity, every size of entry (empty ones included) and
\* wherever the indices are.
THEOREM SearchMatchesConcatenation == Spec => []SearchIsConcatenation
<1>1. IndexInv => SearchIsConcatenation
  <2> SUFFICES ASSUME IndexInv, NEW pos \in Offsets
               PROVE  \/ FindEntry(pos).slot = NotFound /\ Before[Count + 1] <= pos
                      \/ \E i \in 1 .. Count :
                           /\ FindEntry(pos).slot = Used[i]
                           /\ pos = Before[i] + FindEntry(pos).off
                           /\ FindEntry(pos).off < Contents[i].size
    BY DEF SearchIsConcatenation
  <2>1. /\ FindEntry(pos).slot = IF Walk(pos).charLen <= pos THEN NotFound ELSE Walk(pos).slot
        /\ FindEntry(pos).off = Walk(pos).off
    BY DEF FindEntry
  <2>2. Hit(pos, Walk(pos)) \/ (Walk(pos).charLen <= pos /\ Walk(pos).charLen = Before[Count + 1])
    BY SearchFinds, BufferAssumption
  <2> QED BY <2>1, <2>2 DEF Hit
<1>2. IndexInv /\ [Next]_vars => IndexInv'
  BY IndexInvPreserved
<1> QED BY <1>1, <1>2, IndexInvInitially, PTL DEF Spec
=============================================================================
