-------------------------- MODULE ConnThreadsProofs --------------------------
(***************************************************************************)
(* Proofs about ConnThreads for any number of connections and timer        *)
(* expiries, any scripts, any chunk size and any set of faults.            *)
(***************************************************************************)
EXTENDS ConnThreads, SequenceTheorems, TLAPS

(***************************************************************************)
(* Lemmas about the operators of ConnThreads.                              *)
(***************************************************************************)

\* write() inside a file or at its end gives a file again, of the larger length.
LEMMA WriteAtType ==
  ASSUME NEW S, NEW f \in Seq(S), NEW s \in Seq(S), NEW p \in 0 .. Len(f)
  PROVE  /\ WriteAt(f, p, s) \in Seq(S)
         /\ Len(WriteAt(f, p, s)) = Larger(Len(f), p + Len(s))
<1> DEFINE n == Larger(Len(f), p + Len(s))
           unit(i) == IF i > p /\ i <= p + Len(s) THEN s[i - p] ELSE f[i]
<1>1. Len(f) \in Nat /\ Len(s) \in Nat /\ n \in Nat
  BY LenProperties DEF Larger
<1>2. ASSUME NEW i \in 1 .. n PROVE unit(i) \in S
  <2>1. CASE i > p /\ i <= p + Len(s)
    <3>1. i - p \in 1 .. Len(s)
      BY <1>1, <2>1
    <3> QED BY <2>1, <3>1, ElementOfSeq
  <2>2. CASE ~(i > p /\ i <= p + Len(s))
    <3>1. i \in 1 .. Len(f)
      BY <1>1, <2>2 DEF Larger
    <3> QED BY <2>2, <3>1, ElementOfSeq
  <2> QED BY <2>1, <2>2
<1>3. WriteAt(f, p, s) = [i \in 1 .. n |-> unit(i)]
  BY DEF WriteAt
<1> HIDE DEF n, unit
<1>4. WriteAt(f, p, s) \in [1 .. n -> S]
  BY <1>2, <1>3
<1>5. WriteAt(f, p, s) \in Seq(S)
  BY <1>1, <1>4, SeqDef
<1>6. Len(WriteAt(f, p, s)) = n
  BY <1>1, <1>3, <1>5, LenProperties
<1> QED BY <1>5, <1>6 DEF n

\* write() at the end of the file appends.
LEMMA WriteAtEnd ==
  ASSUME NEW S, NEW f \in Seq(S), NEW s \in Seq(S)
  PROVE  WriteAt(f, Len(f), s) = f \o s
<1>1. Len(f) \in Nat /\ Len(s) \in Nat
  BY LenProperties
<1>2. /\ WriteAt(f, Len(f), s) \in Seq(S)
      /\ Len(WriteAt(f, Len(f), s)) = Len(f) + Len(s)
  BY <1>1, WriteAtType DEF Larger
<1>3. /\ f \o s \in Seq(S)
      /\ Len(f \o s) = Len(f) + Len(s)
      /\ \A i \in 1 .. Len(f) + Len(s) :
           (f \o s)[i] = IF i <= Len(f) THEN f[i] ELSE s[i - Len(f)]
  BY ConcatProperties
<1>4. \A i \in 1 .. Len(f) + Len(s) : WriteAt(f, Len(f), s)[i] = (f \o s)[i]
  BY <1>1, <1>3 DEF WriteAt, Larger
<1> QED BY <1>2, <1>3, <1>4, SeqEqual

\* The packet is closed by rewriting its last unit: the length stays.
LEMMA CloseLineType ==
  ASSUME NEW s \in Seq(Units), Len(s) > 0
  PROVE  CloseLine(s) \in Seq(Units) /\ Len(CloseLine(s)) = Len(s)
<1>1. Len(s) \in 1 .. Len(s)
  BY LenProperties
<1>2. s[Len(s)] \in Units
  BY <1>1, ElementOfSeq
<1>3. [s[Len(s)] EXCEPT !.val = "nl"] \in Units
  BY <1>2 DEF Units, Kinds
<1> QED BY <1>1, <1>3, ExceptSeq DEF CloseLine

\* What recv() takes is a piece of the client's script.
LEMMA ArrivedType ==
  ASSUME TypeOK, NEW c \in Conns,
         NEW n \in Nat, rcvd[c] + n <= sent[c]
  PROVE  Arrived(c, n) \in Seq(Units) /\ Len(Arrived(c, n)) = n
<1>1. Script[c] \in Seq(Kinds) /\ rcvd[c] \in Nat /\ rcvd[c] + n <= Len(Script[c])
  <2>1. /\ rcvd[c] \in Nat /\ sent[c] \in Nat /\ sent[c] <= Len(Script[c])
        /\ Script[c] \in Seq(Kinds)
    BY ConstantsAssumption DEF TypeOK
  <2> QED BY <2>1, LenProperties
<1>2. ASSUME NEW i \in 1 .. n
      PROVE  [from |-> c, seq |-> rcvd[c] + i, val |-> Script[c][rcvd[c] + i]] \in Units
  <2>1. rcvd[c] + i \in 1 .. Len(Script[c])
    BY <1>1, LenProperties
  <2>2. Script[c][rcvd[c] + i] \in Kinds
    BY <1>1, <2>1, ElementOfSeq
  <2> QED BY <2>1, <2>2 DEF Units, Threads
<1>3. Arrived(c, n) \in [1 .. n -> Units]
  BY <1>2 DEF Arrived
<1>4. Arrived(c, n) \in Seq(Units)
  BY <1>3, SeqDef
<1> QED BY <1>3, <1>4, LenProperties

\* Two sequences put together.
LEMMA ConcatType ==
  ASSUME NEW S, NEW a \in Seq(S), NEW b \in Seq(S)
  PROVE  a \o b \in Seq(S) /\ Len(a \o b) = Len(a) + Len(b)
BY ConcatProperties

\* The beginning of a record is a sequence of units.
LEMMA PartType ==
  ASSUME NEW s \in Seq(Units), NEW k \in 0 .. Len(s) - 1
  PROVE  SubSeq(s, 1, k) \in Seq(Units)
<1>1. Len(s) \in Nat
  BY LenProperties
<1>2. \A i \in 1 .. k : s[i] \in Units
  BY <1>1, ElementOfSeq
<1> QED BY <1>1, <1>2, SubSeqProperties

\* A timestamp line is two units of its expiry.
LEMMA StampType ==
  ASSUME NEW t \in Ticks
  PROVE  Stamp(t) \in Seq(Units) /\ Len(Stamp(t)) = 2
BY DEF Stamp, Units, Threads, Kinds

\* The handler of a timer writes its line or a beginning of it.
LEMMA StampWrites ==
  ASSUME NEW t \in Ticks, WriteStamp(t) \/ WriteStampFails(t)
  PROVE  \E s \in Seq(Units) : WriteFile(s)
<1>1. CASE WriteStamp(t)
  BY <1>1, StampType DEF WriteStamp
<1>2. CASE WriteStampFails(t)
  <2> PICK k \in 0 .. Len(Stamp(t)) - 1 : WriteFile(SubSeq(Stamp(t), 1, k))
    BY <1>2 DEF WriteStampFails
  <2> QED BY StampType, PartType
<1> QED BY <1>1, <1>2

\* The file after a write().
LEMMA WriteFileType ==
  ASSUME TypeOK, NEW s \in Seq(Units), WriteFile(s)
  PROVE  /\ file' \in Seq(Units) /\ log' \in Seq(Units)
         /\ pos' \in 0 .. Len(file') /\ Len(file') >= Len(file) /\ Len(file) \in Nat
<1>1. /\ file \in Seq(Units) /\ log \in Seq(Units) /\ Len(file) \in Nat
      /\ pos \in 0 .. Len(file) /\ Len(s) \in Nat
  BY LenProperties DEF TypeOK
<1>2. file' = WriteAt(file, pos, s) /\ log' = log \o s /\ pos' = pos + Len(s)
  BY DEF WriteFile
<1>3. file' \in Seq(Units) /\ Len(file') = Larger(Len(file), pos + Len(s))
  BY <1>1, <1>2, WriteAtType
<1>4. log' \in Seq(Units)
  BY <1>1, <1>2, ConcatProperties
<1>5. pos' \in 0 .. Len(file') /\ Len(file') >= Len(file)
  BY <1>1, <1>2, <1>3 DEF Larger
<1> QED BY <1>1, <1>3, <1>4, <1>5

\* The packet recv() has made longer by n units, closed or not.
Packet(c, n) ==
  LET all == rx[c] \o Arrived(c, n)
  IN IF EndsPacket(all[Len(all)]) THEN CloseLine(all) ELSE all

\* It is n units longer than what was received before.
LEMMA PacketType ==
  ASSUME TypeOK, NEW c \in Conns,
         NEW n \in Nat \ {0}, rcvd[c] + n <= sent[c]
  PROVE  Packet(c, n) \in Seq(Units) /\ Len(Packet(c, n)) = Len(rx[c]) + n
<1> DEFINE arr == Arrived(c, n)
           all == rx[c] \o arr
<1>1. arr \in Seq(Units) /\ Len(arr) = n
  BY ArrivedType
<1>2. rx[c] \in Seq(Units)
  BY DEF TypeOK
<1>3. Packet(c, n) = all \/ Packet(c, n) = CloseLine(all)
  BY DEF Packet
<1>4. Len(rx[c]) \in Nat
  BY <1>2, LenProperties
<1> HIDE DEF arr
<1>5. all \in Seq(Units) /\ Len(all) = Len(rx[c]) + Len(arr)
  BY <1>1, <1>2, ConcatType
<1> HIDE DEF all
<1>6. Len(all) > 0
  BY <1>1, <1>4, <1>5
<1>7. CloseLine(all) \in Seq(Units) /\ Len(CloseLine(all)) = Len(all)
  BY <1>5, <1>6, CloseLineType
<1> QED BY <1>1, <1>3, <1>5, <1>7

\* Rounding up, a non-empty file takes at least one read.
LEMMA CeilingPositive ==
  ASSUME NEW a \in Nat \ {0}, NEW b \in Nat \ {0}
  PROVE  (a + b - 1) \div b \in Nat \ {0}
<1> DEFINE x == a + b - 1
           q == x \div b
           r == x % b
<1>1. x \in Nat /\ x >= b
  OBVIOUS
<1>2. q \in Int /\ r \in Int /\ x = b * q + r /\ 0 <= r /\ r < b
  BY <1>1, SMTT(30)
<1>3. q > 0
  <2> HIDE DEF x, q, r
  <2>1. CASE q <= 0
    <3>1. b * q <= 0
      BY <1>2, <2>1, SMTT(30)
    <3> QED BY <1>1, <1>2, <2>1, <3>1
  <2> QED BY <1>2, <2>1
<1> QED BY <1>2, <1>3

-----------------------------------------------------------------------------
(***************************************************************************)
(* The invariant.  Types alone are not inductive: that n_byte is a divisor *)
(* greater than 0 and that recv() is offered some room follow from where a *)
(* thread is.                                                              *)
(***************************************************************************)

ConnFacts(c) ==
  /\ pc[c] = "recv" => avail[c] > 0
  /\ pc[c] \in {"lockWrite", "write"} => Len(rx[c]) > 0
  /\ pc[c] \in {"lockStat", "stat"} => Len(file) > 0
  /\ pc[c] \in {"allocReply", "lockReply", "rewind", "read", "send"} =>
       size[c] > 0 /\ nbyte[c] > 0
  /\ pc[c] \in {"read", "send"} => iter[c] > 0
  /\ exit[c] # "none" => pc[c] \in {"done", "cleanup", "ended"}

TypeInv == TypeOK /\ \A c \in Conns : ConnFacts(c)

\* The initial state has the invariant.
LEMMA InitTypeInv == Init => TypeInv
<1> SUFFICES ASSUME Init PROVE TypeInv
  OBVIOUS
<1>1. \A c \in Conns : Script[c] \in Seq(Kinds) /\ Len(Script[c]) \in Nat
  BY ConstantsAssumption, LenProperties
<1>2. <<>> \in Seq(Units) /\ Len(<<>>) = 0
  BY EmptySeq
<1>3. TypeOK
  BY <1>1, <1>2 DEF Init, TypeOK, PCs, Holding, Exits
<1>4. \A c \in Conns : ConnFacts(c)
  BY DEF Init, ConnFacts
<1> QED BY <1>3, <1>4 DEF TypeInv

\* The step of the thread of one connection keeps it.
LEMMA ConnStepTypeInv ==
  ASSUME TypeInv, NEW c \in Conns, ConnStep(c)
  PROVE  TypeInv'
<1> USE DEF Goto, Leave, Unlock, NoUnlock, rxVars, replyVars, fileVars, clientVars
<1>ty. TypeOK /\ \A d \in Conns : ConnFacts(d)
  BY DEF TypeInv
<1>1. CASE Alloc(c)
  <2>1. Len(rx[c]) \in Nat /\ Chunk \in Nat \ {0}
    BY <1>ty, ConstantsAssumption, LenProperties DEF TypeOK
  <2>p. /\ pc' \in [Conns -> PCs]
        /\ buf' \in [Conns -> {"null", "live", "freed"}]
        /\ avail' \in [Conns -> Nat] /\ cap' \in [Conns -> Nat]
    BY <1>1, <1>ty, <2>1, SMTT(30) DEF Alloc, TypeOK, PCs, Holding, RecvSize
  <2>2. TypeOK'
    BY <1>1, <1>ty, <2>p DEF Alloc, TypeOK
  <2>3. \A d \in Conns : ConnFacts(d)'
    BY <1>1, <1>ty, <2>1 DEF Alloc, TypeOK, ConnFacts
  <2> QED BY <2>2, <2>3 DEF TypeInv
<1>2. CASE AllocFails(c)
  <2>2. TypeOK'
    BY <1>2, <1>ty DEF AllocFails, TypeOK, PCs, Holding, Exits
  <2>3. \A d \in Conns : ConnFacts(d)'
    BY <1>2, <1>ty DEF AllocFails, TypeOK, ConnFacts
  <2> QED BY <2>2, <2>3 DEF TypeInv
<1>3. CASE Recv(c)
  <2> DEFINE n == Smaller(avail[c], sent[c] - rcvd[c])
             packet == Packet(c, n)
  <2>0. /\ avail[c] \in Nat \ {0} /\ sent[c] \in Nat /\ rcvd[c] \in Nat
        /\ rcvd[c] < sent[c] /\ sent[c] <= Len(Script[c])
    BY <1>3, <1>ty DEF Recv, TypeOK, ConnFacts
  <2>1. /\ n \in Nat \ {0} /\ n <= avail[c]
        /\ rcvd[c] + n <= sent[c] /\ sent[c] <= Len(Script[c])
    BY <2>0 DEF Smaller
  <2>3. rx[c] \in Seq(Units) /\ Len(rx[c]) \in Nat
    BY <1>ty, LenProperties DEF TypeOK
  <2>4. pc \in [Conns -> PCs]
    BY <1>ty DEF TypeOK
  <2>6. /\ rx' = [rx EXCEPT ![c] = packet]
        /\ avail' = [avail EXCEPT ![c] = avail[c] - n]
        /\ rcvd' = [rcvd EXCEPT ![c] = rcvd[c] + n]
        /\ pc' = [pc EXCEPT ![c] = pc'[c]]
        /\ pc'[c] \in {"lockWrite", "alloc", "recv"}
        /\ pc'[c] = "recv" => n # avail[c]
        /\ pc[c] = "recv"
    BY <1>3, <2>4 DEF Recv, Packet
  <2> HIDE DEF n
  <2>5. packet \in Seq(Units) /\ Len(packet) = Len(rx[c]) + n
    BY <1>ty, <2>1, PacketType
  <2>7. UNCHANGED <<buf, cap, replyVars, exit, done, clientVars, tpc, mutex, fileVars, alive>>
    BY <1>3 DEF Recv
  <2> HIDE DEF packet
  <2>t. /\ rx \in [Conns -> Seq(Units)] /\ avail \in [Conns -> Nat]
        /\ rcvd \in [Conns -> Nat] /\ pc \in [Conns -> PCs]
    BY <1>ty DEF TypeOK
  <2>m. avail[c] - n \in Nat /\ rcvd[c] + n \in Nat
    BY <2>0, <2>1
  <2>8. /\ rx' \in [Conns -> Seq(Units)]
        /\ avail' \in [Conns -> Nat] /\ rcvd' \in [Conns -> Nat]
        /\ pc' \in [Conns -> PCs]
    <3>1. pc' \in [Conns -> PCs]
      BY <2>t, <2>6 DEF PCs, Holding
    <3> QED BY <2>t, <2>m, <2>5, <2>6, <3>1
  <2>9. \A d \in Conns : rcvd'[d] <= sent[d] /\ sent[d] <= Len(Script[d])
    BY <1>ty, <2>1, <2>6 DEF TypeOK
  <2>10. TypeOK'
    BY <1>ty, <2>7, <2>8, <2>9 DEF TypeOK
  <2>11. ConnFacts(c)'
    <3>1. /\ pc'[c] \in {"lockWrite", "alloc", "recv"}
          /\ pc'[c] = "recv" => n # avail[c]
          /\ avail'[c] = avail[c] - n /\ rx'[c] = packet /\ exit'[c] = exit[c]
      BY <2>t, <2>6, <2>7
    <3>2. Len(packet) > 0 /\ (n # avail[c] => avail[c] - n > 0)
      BY <2>0, <2>1, <2>3, <2>5
    <3>3. exit[c] = "none"
      BY <1>ty, <2>6 DEF ConnFacts
    <3> QED BY <3>1, <3>2, <3>3 DEF ConnFacts
  <2>12. ASSUME NEW d \in Conns, d # c PROVE ConnFacts(d)'
    BY <1>ty, <2>6, <2>7, <2>12 DEF TypeOK, ConnFacts
  <2> QED BY <2>10, <2>11, <2>12 DEF TypeInv
<1>4. CASE RecvEof(c)
  <2>2. TypeOK'
    BY <1>4, <1>ty DEF RecvEof, TypeOK, PCs, Holding, Exits
  <2>3. \A d \in Conns : ConnFacts(d)'
    BY <1>4, <1>ty DEF RecvEof, TypeOK, ConnFacts
  <2> QED BY <2>2, <2>3 DEF TypeInv
<1>5. CASE Lock(c)
  <2>2. TypeOK'
    BY <1>5, <1>ty DEF Lock, TypeOK, PCs, Holding, Threads
  <2>3. ASSUME NEW d \in Conns PROVE ConnFacts(d)'
    <3>1. d # c => pc'[d] = pc[d]
      BY <1>5, <1>ty DEF Lock, TypeOK
    <3>2. \/ pc[c] = "lockWrite" /\ pc'[c] = "write"
          \/ pc[c] = "lockStat" /\ pc'[c] = "stat"
          \/ pc[c] = "lockReply" /\ pc'[c] = "rewind"
      BY <1>5, <1>ty DEF Lock, TypeOK
    <3> QED BY <1>5, <1>ty, <3>1, <3>2 DEF Lock, ConnFacts
  <2> QED BY <2>2, <2>3 DEF TypeInv
<1>6. CASE Write(c)
  <2>1. /\ rx[c] \in Seq(Units) /\ Len(rx[c]) \in Nat \ {0}
        /\ file \in Seq(Units) /\ log \in Seq(Units) /\ Len(file) \in Nat
        /\ pos \in 0 .. Len(file)
    BY <1>6, <1>ty, LenProperties DEF TypeOK, ConnFacts, Write
  <2>2. file' \in Seq(Units) /\ Len(file') = Larger(Len(file), pos + Len(rx[c]))
    <3>1. file' = WriteAt(file, pos, rx[c])
      BY <1>6 DEF Write, WriteFile
    <3> QED BY <2>1, <3>1, WriteAtType
  <2>3. log' \in Seq(Units) /\ Len(log') \in Nat
    BY <1>6, <2>1, ConcatProperties, LenProperties DEF Write, WriteFile
  <2>4. pos' \in 0 .. Len(file') /\ Len(file') > 0 /\ Len(file') >= Len(file)
    BY <1>6, <2>1, <2>2 DEF Write, WriteFile, Larger
  <2>5. <<>> \in Seq(Units)
    BY EmptySeq
  <2>6. TypeOK'
    BY <1>6, <1>ty, <2>2, <2>3, <2>4, <2>5 DEF Write, TypeOK, PCs, Holding
  <2>7. \A d \in Conns : ConnFacts(d)'
    BY <1>6, <1>ty, <2>1, <2>4 DEF Write, TypeOK, ConnFacts
  <2> QED BY <2>6, <2>7 DEF TypeInv
<1>7. CASE WriteFails(c)
  <2> PICK k \in 0 .. Len(rx[c]) - 1 : WriteFile(SubSeq(rx[c], 1, k))
    BY <1>7 DEF WriteFails
  <2> DEFINE part == SubSeq(rx[c], 1, k)
  <2>1. /\ rx[c] \in Seq(Units) /\ Len(rx[c]) \in Nat
        /\ file \in Seq(Units) /\ log \in Seq(Units) /\ Len(file) \in Nat
        /\ pos \in 0 .. Len(file)
    BY <1>ty, LenProperties DEF TypeOK
  <2>2. \A i \in 1 .. k : rx[c][i] \in Units
    BY <2>1, ElementOfSeq
  <2>3. part \in Seq(Units) /\ Len(part) = k
    BY <2>1, <2>2, SubSeqProperties
  <2>p. file' = WriteAt(file, pos, part)
    BY DEF WriteFile
  <2> HIDE DEF part
  <2>4. file' \in Seq(Units) /\ Len(file') = Larger(Len(file), pos + k)
    BY <2>1, <2>3, <2>p, WriteAtType
  <2>5. log' \in Seq(Units)
    BY <2>1, <2>3, ConcatProperties DEF WriteFile, part
  <2>6. pos' \in 0 .. Len(file') /\ Len(file') >= Len(file)
    BY <2>1, <2>3, <2>4 DEF WriteFile, Larger, part
  <2>7. TypeOK'
    BY <1>7, <1>ty, <2>4, <2>5, <2>6 DEF WriteFails, TypeOK, PCs, Holding, Exits
  <2>8. \A d \in Conns : ConnFacts(d)'
    BY <1>7, <1>ty, <2>1, <2>4, <2>6, LenProperties DEF WriteFails, TypeOK, ConnFacts
  <2> QED BY <2>7, <2>8 DEF TypeInv
<1>8. CASE Stat(c)
  <2>1. Len(file) \in Nat
    BY <1>ty, LenProperties DEF TypeOK
  <2>2. TypeOK'
    BY <1>8, <1>ty, <2>1 DEF Stat, TypeOK, PCs, Holding
  <2>3. \A d \in Conns : ConnFacts(d)'
    BY <1>8, <1>ty, <2>1 DEF Stat, TypeOK, ConnFacts
  <2> QED BY <2>2, <2>3 DEF TypeInv
<1>9. CASE StatFails(c)
  <2>2. TypeOK'
    BY <1>9, <1>ty DEF StatFails, FailsLocked, TypeOK, PCs, Holding, Exits
  <2>3. \A d \in Conns : ConnFacts(d)'
    BY <1>9, <1>ty DEF StatFails, FailsLocked, TypeOK, ConnFacts
  <2> QED BY <2>2, <2>3 DEF TypeInv
<1>10. CASE AllocReply(c)
  <2>2. TypeOK'
    BY <1>10, <1>ty DEF AllocReply, TypeOK, PCs, Holding
  <2>3. \A d \in Conns : ConnFacts(d)'
    BY <1>10, <1>ty DEF AllocReply, TypeOK, ConnFacts
  <2> QED BY <2>2, <2>3 DEF TypeInv
<1>11. CASE AllocReplyFails(c)
  <2>1. nbyte[c] \in Nat /\ nbyte[c] \div 2 \in Nat
    <3>1. \A k \in Nat : k \div 2 \in Nat
      OBVIOUS
    <3> QED BY <1>ty, <3>1 DEF TypeOK
  <2>p. /\ pc[c] = "allocReply"
        /\ nbyte' = [nbyte EXCEPT ![c] = nbyte[c] \div 2]
        /\ \/ nbyte[c] \div 2 = 0 /\ Leave(c, "oom")
           \/ nbyte[c] \div 2 # 0 /\ UNCHANGED <<pc, exit>>
        /\ UNCHANGED <<buf, rxVars, size, iter, chunk, got, answered, done, clientVars, tpc,
                       mutex, fileVars, alive>>
    BY <1>11 DEF AllocReplyFails
  <2> DEFINE half == nbyte[c] \div 2
  <2> HIDE DEF half
  <2>h. /\ half \in Nat
        /\ nbyte' = [nbyte EXCEPT ![c] = half]
        /\ \/ half = 0 /\ Leave(c, "oom")
           \/ half # 0 /\ UNCHANGED <<pc, exit>>
    BY <2>1, <2>p DEF half
  <2>2. nbyte' \in [Conns -> Nat] /\ pc' \in [Conns -> PCs] /\ exit' \in [Conns -> Exits]
    BY <1>ty, <2>h DEF TypeOK, PCs, Holding, Exits
  <2>3. TypeOK'
    BY <1>ty, <2>p, <2>2 DEF TypeOK
  <2>k. /\ pc[c] = "allocReply" /\ ConnFacts(c)
        /\ nbyte'[c] = half /\ size'[c] = size[c]
        /\ \/ half = 0 /\ pc'[c] = "cleanup"
           \/ half # 0 /\ pc'[c] = pc[c] /\ exit'[c] = exit[c]
        /\ \A d \in Conns \ {c} : nbyte'[d] = nbyte[d] /\ pc'[d] = pc[d] /\ exit'[d] = exit[d]
        /\ UNCHANGED <<size, avail, rx, file, iter>>
    <3>1. pc[c] = "allocReply" /\ ConnFacts(c) /\ UNCHANGED <<size, avail, rx, file, iter>>
      BY <1>ty, <2>p
    <3>2. nbyte'[c] = half /\ \A d \in Conns \ {c} : nbyte'[d] = nbyte[d]
      BY <1>ty, <2>h DEF TypeOK
    <3>3. CASE half = 0 /\ Leave(c, "oom")
      <4>1. pc'[c] = "cleanup" /\ \A d \in Conns \ {c} : pc'[d] = pc[d]
        BY <1>ty, <3>3 DEF TypeOK
      <4>2. \A d \in Conns \ {c} : exit'[d] = exit[d]
        BY <1>ty, <3>3 DEF TypeOK
      <4> QED BY <3>1, <3>2, <3>3, <4>1, <4>2
    <3>4. CASE half # 0 /\ UNCHANGED <<pc, exit>>
      BY <3>1, <3>2, <3>4
    <3> QED BY <2>h, <3>3, <3>4
  <2>4. ConnFacts(c)'
    BY <2>h, <2>k, SMTT(30) DEF ConnFacts
  <2>5. ASSUME NEW d \in Conns, d # c PROVE ConnFacts(d)'
    <3>1. ConnFacts(d)
      BY <1>ty
    <3> QED BY <2>k, <2>5, <3>1, SMTT(30) DEF ConnFacts
  <2> QED BY <2>3, <2>4, <2>5 DEF TypeInv
<1>12. CASE Rewind(c)
  <2>1. size[c] \in Nat \ {0} /\ nbyte[c] \in Nat \ {0}
    BY <1>12, <1>ty DEF Rewind, TypeOK, ConnFacts
  <2>2. Iterations(c) \in Nat \ {0}
    BY <2>1, CeilingPositive DEF Iterations
  <2>3. Len(file) \in Nat /\ <<>> \in Seq(Units)
    BY <1>ty, LenProperties, EmptySeq DEF TypeOK
  <2>p. /\ iter' \in [Conns -> Nat] /\ got' \in [Conns -> Seq(Units)]
        /\ pc' \in [Conns -> PCs] /\ pos' \in 0 .. Len(file)
    BY <1>12, <1>ty, <2>2, <2>3 DEF Rewind, TypeOK, PCs, Holding, SeekStart
  <2>4. TypeOK'
    BY <1>12, <1>ty, <2>p DEF Rewind, TypeOK
  <2>5. \A d \in Conns : ConnFacts(d)'
    BY <1>12, <1>ty, <2>2 DEF Rewind, TypeOK, ConnFacts
  <2> QED BY <2>4, <2>5 DEF TypeInv
<1>13. CASE RewindFails(c)
  <2>2. TypeOK'
    BY <1>13, <1>ty DEF RewindFails, FailsLocked, TypeOK, PCs, Holding, Exits
  <2>3. \A d \in Conns : ConnFacts(d)'
    BY <1>13, <1>ty DEF RewindFails, FailsLocked, TypeOK, ConnFacts
  <2> QED BY <2>2, <2>3 DEF TypeInv
<1>14. CASE Read(c)
  <2>1. /\ nbyte[c] \in Nat /\ file \in Seq(Units) /\ Len(file) \in Nat
        /\ pos \in 0 .. Len(file)
    BY <1>ty, LenProperties DEF TypeOK
  <2>2. pos' \in pos .. Len(file)
    BY <1>14, <2>1 DEF Read, Smaller
  <2>3. \A i \in pos + 1 .. pos' : file[i] \in Units
    BY <2>1, <2>2, ElementOfSeq
  <2>4. SubSeq(file, pos + 1, pos') \in Seq(Units)
    BY <2>1, <2>2, <2>3, SubSeqProperties
  <2>p. /\ chunk' \in [Conns -> Seq(Units)] /\ pc' \in [Conns -> PCs]
        /\ pos' \in 0 .. Len(file)
    <3>1. /\ chunk \in [Conns -> Seq(Units)] /\ pc \in [Conns -> PCs]
          /\ chunk' = [chunk EXCEPT ![c] = SubSeq(file, pos + 1, pos')]
          /\ pc' = [pc EXCEPT ![c] = "send"]
      BY <1>14, <1>ty DEF Read, TypeOK
    <3>2. pc' \in [Conns -> PCs]
      BY <3>1 DEF PCs, Holding
    <3>3. chunk' \in [Conns -> Seq(Units)]
      BY <2>4, <3>1
    <3> QED BY <2>1, <2>2, <3>2, <3>3
  <2>5. TypeOK'
    BY <1>14, <1>ty, <2>p DEF Read, TypeOK
  <2>6. \A d \in Conns : ConnFacts(d)'
    BY <1>14, <1>ty DEF Read, TypeOK, ConnFacts
  <2> QED BY <2>5, <2>6 DEF TypeInv
<1>15. CASE Send(c)
  <2>1. got[c] \o chunk[c] \in Seq(Units)
    BY <1>ty, ConcatProperties DEF TypeOK
  <2>p. iter[c] \in Nat \ {0}
    BY <1>15, <1>ty DEF Send, TypeOK, ConnFacts
  <2>q. /\ got' \in [Conns -> Seq(Units)] /\ iter' \in [Conns -> Nat]
        /\ pc' \in [Conns -> PCs]
    <3>1. /\ got \in [Conns -> Seq(Units)] /\ iter \in [Conns -> Nat]
          /\ pc \in [Conns -> PCs]
          /\ got' = [got EXCEPT ![c] = got[c] \o chunk[c]]
          /\ iter' = [iter EXCEPT ![c] = iter[c] - 1]
          /\ \/ pc' = [pc EXCEPT ![c] = "toEnd"]
             \/ pc' = [pc EXCEPT ![c] = "read"]
      BY <1>15, <1>ty DEF Send, TypeOK
    <3>2. got' \in [Conns -> Seq(Units)]
      BY <2>1, <3>1
    <3>3. iter' \in [Conns -> Nat]
      BY <2>p, <3>1
    <3>4. pc' \in [Conns -> PCs]
      BY <3>1 DEF PCs, Holding
    <3> QED BY <3>2, <3>3, <3>4
  <2>2. TypeOK'
    BY <1>15, <1>ty, <2>q DEF Send, TypeOK
  <2>r. /\ pc[c] = "send" /\ iter'[c] = iter[c] - 1
        /\ pc'[c] \in {"read", "toEnd"} /\ (pc'[c] = "read" => iter[c] > 1)
    BY <1>15, <1>ty, <2>p DEF Send, TypeOK, LastChunk
  <2>s. /\ \A d \in Conns \ {c} : pc'[d] = pc[d] /\ iter'[d] = iter[d]
        /\ UNCHANGED <<avail, rx, file, size, nbyte, exit>>
    BY <1>15, <1>ty DEF Send, TypeOK
  <2>t. ConnFacts(c)'
    BY <1>ty, <2>p, <2>r, <2>s DEF ConnFacts
  <2>u. ASSUME NEW d \in Conns, d # c PROVE ConnFacts(d)'
    BY <1>ty, <2>s, <2>u DEF ConnFacts
  <2>3. \A d \in Conns : ConnFacts(d)'
    BY <2>t, <2>u
  <2> QED BY <2>2, <2>3 DEF TypeInv
<1>16. CASE SendFails(c)
  <2>2. TypeOK'
    BY <1>16, <1>ty DEF SendFails, TypeOK, PCs, Holding, Exits
  <2>3. \A d \in Conns : ConnFacts(d)'
    BY <1>16, <1>ty DEF SendFails, TypeOK, ConnFacts
  <2> QED BY <2>2, <2>3 DEF TypeInv
<1>17. CASE SendKills(c)
  <2>2. TypeOK'
    BY <1>17, <1>ty DEF SendKills, TypeOK, PCs, Holding
  <2>3. \A d \in Conns : ConnFacts(d)'
    BY <1>17, <1>ty DEF SendKills, TypeOK, ConnFacts
  <2> QED BY <2>2, <2>3 DEF TypeInv
<1>18. CASE ToEnd(c)
  <2>1. Len(file) \in Nat
    BY <1>ty, LenProperties DEF TypeOK
  <2>p. /\ answered' \in [Conns -> BOOLEAN] /\ pc' \in [Conns -> PCs]
        /\ buf' \in [Conns -> {"null", "live", "freed"}] /\ pos' \in 0 .. Len(file)
    BY <1>18, <1>ty, <2>1 DEF ToEnd, TypeOK, PCs, Holding, SeekEnd
  <2>2. TypeOK'
    BY <1>18, <1>ty, <2>p DEF ToEnd, TypeOK
  <2>3. \A d \in Conns : ConnFacts(d)'
    BY <1>18, <1>ty DEF ToEnd, TypeOK, ConnFacts
  <2> QED BY <2>2, <2>3 DEF TypeInv
<1>19. CASE ToEndFails(c)
  <2>2. TypeOK'
    BY <1>19, <1>ty DEF ToEndFails, FailsLocked, TypeOK, PCs, Holding, Exits
  <2>3. \A d \in Conns : ConnFacts(d)'
    BY <1>19, <1>ty DEF ToEndFails, FailsLocked, TypeOK, ConnFacts
  <2> QED BY <2>2, <2>3 DEF TypeInv
<1>20. CASE SetDone(c)
  <2>2. TypeOK'
    BY <1>20, <1>ty DEF SetDone, TypeOK, PCs, Holding
  <2>3. \A d \in Conns : ConnFacts(d)'
    BY <1>20, <1>ty DEF SetDone, TypeOK, ConnFacts
  <2> QED BY <2>2, <2>3 DEF TypeInv
<1>21. CASE Cleanup(c)
  <2>1. <<>> \in Seq(Units)
    BY EmptySeq
  <2>2. TypeOK'
    BY <1>21, <1>ty, <2>1 DEF Cleanup, TypeOK, PCs, Holding
  <2>3. \A d \in Conns : ConnFacts(d)'
    BY <1>21, <1>ty DEF Cleanup, TypeOK, ConnFacts
  <2> QED BY <2>2, <2>3 DEF TypeInv
<1> QED
  BY <1>1, <1>2, <1>3, <1>4, <1>5, <1>6, <1>7, <1>8, <1>9, <1>10, <1>11, <1>12, <1>13,
     <1>14, <1>15, <1>16, <1>17, <1>18, <1>19, <1>20, <1>21 DEF ConnStep

\* So does a step of a timer thread.
LEMMA TimerStepTypeInv ==
  ASSUME TypeInv, NEW t \in Ticks, TimerFires(t) \/ TimerStep(t)
  PROVE  TypeInv'
<1> USE DEF Unlock, NoUnlock, rxVars, replyVars, fileVars, clientVars
<1>ty. TypeOK /\ \A d \in Conns : ConnFacts(d)
  BY DEF TypeInv
<1>1. CASE TimerFires(t)
  <2>1. TypeOK'
    BY <1>1, <1>ty DEF TimerFires, TypeOK
  <2>2. \A d \in Conns : ConnFacts(d)'
    BY <1>1, <1>ty DEF TimerFires, ConnFacts
  <2> QED BY <2>1, <2>2 DEF TypeInv
<1>2. CASE LockStamp(t)
  <2>1. TypeOK'
    BY <1>2, <1>ty DEF LockStamp, TypeOK, Threads
  <2>2. \A d \in Conns : ConnFacts(d)'
    BY <1>2, <1>ty DEF LockStamp, ConnFacts
  <2> QED BY <2>1, <2>2 DEF TypeInv
<1>3. CASE WriteStamp(t) \/ WriteStampFails(t)
  <2>1. PICK s \in Seq(Units) : WriteFile(s)
    BY <1>3, StampWrites
  <2>2. /\ file' \in Seq(Units) /\ log' \in Seq(Units)
        /\ pos' \in 0 .. Len(file') /\ Len(file') >= Len(file) /\ Len(file) \in Nat
    BY <1>ty, <2>1, WriteFileType
  <2>3. /\ \E l \in {"written", "cut", "unwritten"} : tpc' = [tpc EXCEPT ![t] = l]
        /\ mutex' = NoOne
        /\ UNCHANGED <<pc, buf, rxVars, replyVars, exit, done, clientVars, due, alive>>
    BY <1>3 DEF WriteStamp, WriteStampFails
  <2>4. TypeOK'
    BY <1>ty, <2>2, <2>3 DEF TypeOK
  <2>5. \A d \in Conns : ConnFacts(d)'
    BY <1>ty, <2>2, <2>3, LenProperties DEF ConnFacts
  <2> QED BY <2>4, <2>5 DEF TypeInv
<1> QED BY <1>1, <1>2, <1>3 DEF TimerStep

\* So does a step of a client.
LEMMA ClientStepTypeInv ==
  ASSUME TypeInv, NEW c \in Conns, ClientStep(c)
  PROVE  TypeInv'
<1> USE DEF rxVars, replyVars, fileVars
<1>ty. TypeOK /\ \A d \in Conns : ConnFacts(d)
  BY DEF TypeInv
<1>1. \A d \in Conns : Len(Script[d]) \in Nat
  BY ConstantsAssumption, LenProperties
<1>2. CASE ClientSend(c)
  <2>p. /\ sent' \in [Conns -> Nat]
        /\ \A d \in Conns : rcvd[d] <= sent'[d] /\ sent'[d] <= Len(Script[d])
    <3>1. /\ sent \in [Conns -> Nat] /\ rcvd \in [Conns -> Nat]
          /\ \A d \in Conns : rcvd[d] <= sent[d] /\ sent[d] <= Len(Script[d])
      BY <1>ty DEF TypeOK
    <3>2. sent' = [sent EXCEPT ![c] = sent[c] + 1] /\ sent[c] < Len(Script[c])
      BY <1>2 DEF ClientSend
    <3>3. sent[c] + 1 \in Nat /\ sent[c] + 1 <= Len(Script[c]) /\ rcvd[c] <= sent[c] + 1
      BY <1>1, <3>1, <3>2
    <3> QED BY <3>1, <3>2, <3>3
  <2>1. TypeOK'
    BY <1>2, <1>ty, <2>p DEF ClientSend, TypeOK
  <2>2. \A d \in Conns : ConnFacts(d)'
    BY <1>2, <1>ty DEF ClientSend, ConnFacts
  <2> QED BY <2>1, <2>2 DEF TypeInv
<1>3. CASE ClientTurns(c)
  <2>1. TypeOK'
    BY <1>3, <1>ty DEF ClientTurns, TypeOK
  <2>2. \A d \in Conns : ConnFacts(d)'
    BY <1>3, <1>ty DEF ClientTurns, ConnFacts
  <2> QED BY <2>1, <2>2 DEF TypeInv
<1> QED BY <1>2, <1>3 DEF ClientStep

\* A stuttering step changes nothing the invariant is about.
LEMMA StutterTypeInv == TypeInv /\ UNCHANGED vars => TypeInv'
BY DEF TypeInv, TypeOK, ConnFacts, vars, rxVars, replyVars, fileVars, clientVars

\* Together: the invariant is inductive.
LEMMA NextTypeInv == TypeInv /\ [Next]_vars => TypeInv'
BY ConnStepTypeInv, TimerStepTypeInv, ClientStepTypeInv, StutterTypeInv DEF Next

\* The invariant holds in every reachable state.
LEMMA TypeInvariant == Spec => []TypeInv
BY InitTypeInv, NextTypeInv, PTL DEF Spec

\* The variables keep their types: above all n_byte is a divisor greater than 0
\* and the file offset stays inside the file (main.c:508-533), over every
\* sequence of failures.
THEOREM TypeCorrect == Spec => []TypeOK
<1>1. TypeInv => TypeOK
  BY DEF TypeInv
<1> QED BY TypeInvariant, <1>1, PTL

-----------------------------------------------------------------------------
(***************************************************************************)
(* The mutex.  What a step does to it and to the set of pcs that hold it   *)
(* is one of three moves: none, taking it, giving it back.                 *)
(***************************************************************************)

\* The mutex as the step of connection thread c may change it.
MutexMove(c) ==
  /\ tpc' = tpc /\ \A d \in Conns \ {c} : pc'[d] = pc[d]
  /\ \/ mutex' = mutex /\ (pc[c] \in Holding <=> pc'[c] \in Holding)
     \/ mutex = NoOne /\ mutex' = c /\ pc'[c] \in Holding
     \/ pc[c] \in Holding /\ mutex' = NoOne /\ pc'[c] \notin Holding

\* Every step of a connection thread moves the mutex in one of the three ways.
LEMMA ConnMutexMove ==
  ASSUME TypeOK, NEW c \in Conns, ConnStep(c)
  PROVE  MutexMove(c)
<1> USE DEF Goto, Leave, Unlock, NoUnlock, Holding, MutexMove
<1>ty. pc \in [Conns -> PCs]
  BY DEF TypeOK
<1>1. CASE Alloc(c)
  BY <1>1, <1>ty DEF Alloc
<1>2. CASE AllocFails(c)
  BY <1>2, <1>ty DEF AllocFails
<1>3. CASE Recv(c)
  BY <1>3, <1>ty DEF Recv
<1>4. CASE RecvEof(c)
  BY <1>4, <1>ty DEF RecvEof
<1>5. CASE Lock(c)
  BY <1>5, <1>ty DEF Lock
<1>6. CASE Write(c)
  BY <1>6, <1>ty DEF Write
<1>7. CASE WriteFails(c)
  BY <1>7, <1>ty DEF WriteFails
<1>8. CASE Stat(c)
  BY <1>8, <1>ty DEF Stat
<1>9. CASE StatFails(c)
  BY <1>9, <1>ty DEF StatFails, FailsLocked
<1>10. CASE AllocReply(c)
  BY <1>10, <1>ty DEF AllocReply
<1>11. CASE AllocReplyFails(c)
  BY <1>11, <1>ty DEF AllocReplyFails
<1>12. CASE Rewind(c)
  BY <1>12, <1>ty DEF Rewind
<1>13. CASE RewindFails(c)
  BY <1>13, <1>ty DEF RewindFails, FailsLocked
<1>14. CASE Read(c)
  BY <1>14, <1>ty DEF Read
<1>15. CASE Send(c)
  BY <1>15, <1>ty DEF Send
<1>16. CASE SendFails(c)
  BY <1>16, <1>ty DEF SendFails
<1>17. CASE SendKills(c)
  BY <1>17, <1>ty DEF SendKills
<1>18. CASE ToEnd(c)
  BY <1>18, <1>ty DEF ToEnd
<1>19. CASE ToEndFails(c)
  BY <1>19, <1>ty DEF ToEndFails, FailsLocked
<1>20. CASE SetDone(c)
  BY <1>20, <1>ty DEF SetDone
<1>21. CASE Cleanup(c)
  BY <1>21, <1>ty DEF Cleanup
<1> QED
  BY <1>1, <1>2, <1>3, <1>4, <1>5, <1>6, <1>7, <1>8, <1>9, <1>10, <1>11, <1>12, <1>13,
     <1>14, <1>15, <1>16, <1>17, <1>18, <1>19, <1>20, <1>21 DEF ConnStep

\* The mutex is held exactly by the thread that is in a critical section of
\* main.c (374-378, 477-479, 499-506, 533-570): each error return unlocks it
\* once, whatever fails.
THEOREM MutexHeldInside == Spec => []LockDiscipline
<1>1. Init => LockDiscipline
  BY ConstantsAssumption DEF Init, LockDiscipline, Holding
<1>2. TypeOK /\ LockDiscipline /\ [Next]_vars => LockDiscipline'
  <2> SUFFICES ASSUME TypeOK, LockDiscipline, [Next]_vars PROVE LockDiscipline'
    OBVIOUS
  <2>1. ASSUME NEW c \in Conns, ConnStep(c) PROVE LockDiscipline'
    BY <2>1, ConnMutexMove, ConstantsAssumption DEF LockDiscipline, MutexMove
  <2>2. ASSUME NEW c \in Conns, ClientStep(c) PROVE LockDiscipline'
    BY <2>2 DEF ClientStep, ClientSend, ClientTurns, LockDiscipline
  <2>3. ASSUME NEW t \in Ticks, TimerFires(t) \/ TimerStep(t) PROVE LockDiscipline'
    <3>1. tpc \in [Ticks -> {"idle", "lockStamp", "stamp", "written", "cut", "unwritten"}]
      BY DEF TypeOK
    <3>2. CASE TimerFires(t)
      BY <3>1, <3>2 DEF TimerFires, LockDiscipline
    <3>3. CASE LockStamp(t)
      BY <3>1, <3>3, ConstantsAssumption DEF LockStamp, LockDiscipline
    <3>4. CASE WriteStamp(t) \/ WriteStampFails(t)
      <4>1. /\ tpc[t] = "stamp" /\ mutex' = NoOne /\ pc' = pc
            /\ \E l \in {"written", "cut", "unwritten"} : tpc' = [tpc EXCEPT ![t] = l]
        BY <3>4 DEF WriteStamp, WriteStampFails, Unlock
      <4> QED BY <3>1, <4>1, ConstantsAssumption DEF LockDiscipline
    <3> QED BY <2>3, <3>2, <3>3, <3>4 DEF TimerStep
  <2>4. CASE UNCHANGED vars
    BY <2>4 DEF vars, LockDiscipline
  <2> QED BY <2>1, <2>2, <2>3, <2>4 DEF Next
<1> QED BY <1>1, <1>2, TypeCorrect, PTL DEF Spec

-----------------------------------------------------------------------------
(***************************************************************************)
(* The file.  A reply moves the one file offset all threads share; it is   *)
(* back at the end of the file whenever no reply is under way, so that no  *)
(* write() ever overwrites.                                                *)
(***************************************************************************)

\* The pcs at which the offset may be anywhere in the file.
Replying == {"read", "send", "toEnd"}

OffsetInv ==
  ~ReplyBroken =>
    /\ file = log
    /\ (\A c \in Conns : pc[c] \notin Replying) => pos = Len(file)

\* The file and its offset as the step of connection thread c may change them.
FileMove(c) ==
  /\ \A d \in Conns \ {c} : pc'[d] = pc[d]
  /\ ReplyBroken => ReplyBroken'
  /\ \/ UNCHANGED <<file, pos, log>> /\ (pc[c] \in Replying <=> pc'[c] \in Replying)
     \/ pc[c] = "write" /\ pc'[c] \notin Replying /\ \E s \in Seq(Units) : WriteFile(s)
     \/ pc'[c] \in Replying /\ UNCHANGED <<file, log>>
     \/ pc'[c] \notin Replying /\ UNCHANGED <<file, log>> /\ pos' = Len(file)
     \/ ReplyBroken'

\* A reply that was given up stays given up: a thread leaves once.
LEMMA ReplyBrokenStable ==
  ASSUME TypeInv, NEW c \in Conns, ConnStep(c)
  PROVE  ReplyBroken => ReplyBroken'
<1> SUFFICES ASSUME NEW d \in Conns, exit[d] \in {"send", "toEnd"}
             PROVE  exit'[d] \in {"send", "toEnd"}
  BY DEF ReplyBroken
<1>1. pc[d] \in {"done", "cleanup", "ended"} /\ exit \in [Conns -> Exits]
  BY DEF TypeInv, TypeOK, ConnFacts
<1>2. CASE d = c
  <2>1. exit' = exit
    BY <1>1, <1>2 DEF ConnStep, Alloc, AllocFails, Recv, RecvEof, Lock, Write, WriteFails, Stat,
       StatFails, FailsLocked, AllocReply, AllocReplyFails, Rewind, RewindFails, Read, Send,
       SendFails, SendKills, ToEnd, ToEndFails, SetDone, Cleanup
  <2> QED BY <2>1
<1>3. CASE d # c
  <2>1. exit' = exit \/ \E why \in Exits : exit' = [exit EXCEPT ![c] = why]
    BY DEF Exits, Leave, ConnStep, Alloc, AllocFails, Recv, RecvEof, Lock, Write, WriteFails,
       Stat, StatFails, FailsLocked, AllocReply, AllocReplyFails, Rewind, RewindFails, Read,
       Send, SendFails, SendKills, ToEnd, ToEndFails, SetDone, Cleanup
  <2> QED BY <1>1, <1>3, <2>1
<1> QED BY <1>2, <1>3

\* Every step of a connection thread moves the file and its offset in one of
\* the five ways.
LEMMA ConnFileMove ==
  ASSUME TypeInv, NEW c \in Conns, ConnStep(c)
  PROVE  FileMove(c)
<1> USE DEF Goto, Leave, Replying, fileVars, FileMove
<1>ty. pc \in [Conns -> PCs] /\ exit \in [Conns -> Exits]
  BY DEF TypeInv, TypeOK
<1>st. ReplyBroken => ReplyBroken'
  BY ReplyBrokenStable
<1>1. CASE Alloc(c)
  BY <1>1, <1>ty, <1>st DEF Alloc
<1>2. CASE AllocFails(c)
  BY <1>2, <1>ty, <1>st DEF AllocFails
<1>3. CASE Recv(c)
  BY <1>3, <1>ty, <1>st DEF Recv
<1>4. CASE RecvEof(c)
  BY <1>4, <1>ty, <1>st DEF RecvEof
<1>5. CASE Lock(c)
  BY <1>5, <1>ty, <1>st DEF Lock
<1>6. CASE Write(c)
  <2>1. rx[c] \in Seq(Units)
    BY DEF TypeInv, TypeOK
  <2>2. pc[c] = "write" /\ pc' = [pc EXCEPT ![c] = "lockStat"] /\ WriteFile(rx[c])
    BY <1>6 DEF Write
  <2> QED BY <1>ty, <1>st, <2>1, <2>2
<1>7. CASE WriteFails(c)
  <2> PICK k \in 0 .. Len(rx[c]) - 1 : WriteFile(SubSeq(rx[c], 1, k))
    BY <1>7 DEF WriteFails
  <2>1. rx[c] \in Seq(Units) /\ Len(rx[c]) \in Nat
    BY LenProperties DEF TypeInv, TypeOK
  <2>2. \A i \in 1 .. k : rx[c][i] \in Units
    BY <2>1, ElementOfSeq
  <2>3. SubSeq(rx[c], 1, k) \in Seq(Units)
    BY <2>1, <2>2, SubSeqProperties
  <2>4. pc[c] = "write" /\ pc' = [pc EXCEPT ![c] = "cleanup"]
    BY <1>7 DEF WriteFails
  <2> QED BY <1>ty, <1>st, <2>3, <2>4
<1>8. CASE Stat(c)
  BY <1>8, <1>ty, <1>st DEF Stat
<1>9. CASE StatFails(c)
  BY <1>9, <1>ty, <1>st DEF StatFails, FailsLocked
<1>10. CASE AllocReply(c)
  BY <1>10, <1>ty, <1>st DEF AllocReply
<1>11. CASE AllocReplyFails(c)
  BY <1>11, <1>ty, <1>st DEF AllocReplyFails
<1>12. CASE Rewind(c)
  BY <1>12, <1>ty, <1>st DEF Rewind
<1>13. CASE RewindFails(c)
  BY <1>13, <1>ty, <1>st DEF RewindFails, FailsLocked
<1>14. CASE Read(c)
  BY <1>14, <1>ty, <1>st DEF Read
<1>15. CASE Send(c)
  BY <1>15, <1>ty, <1>st DEF Send
<1>16. CASE SendFails(c)
  <2>1. exit'[c] = "send" /\ pc' = [pc EXCEPT ![c] = "cleanup"]
    BY <1>16, <1>ty DEF SendFails
  <2>2. ReplyBroken'
    BY <2>1 DEF ReplyBroken
  <2> QED BY <1>ty, <2>1, <2>2
<1>17. CASE SendKills(c)
  BY <1>17, <1>ty, <1>st DEF SendKills
<1>18. CASE ToEnd(c)
  BY <1>18, <1>ty, <1>st DEF ToEnd, SeekEnd
<1>19. CASE ToEndFails(c)
  <2>1. exit'[c] = "toEnd" /\ pc' = [pc EXCEPT ![c] = "cleanup"]
    BY <1>19, <1>ty DEF ToEndFails, FailsLocked
  <2>2. ReplyBroken'
    BY <2>1 DEF ReplyBroken
  <2> QED BY <1>ty, <2>1, <2>2
<1>20. CASE SetDone(c)
  BY <1>20, <1>ty, <1>st DEF SetDone
<1>21. CASE Cleanup(c)
  BY <1>21, <1>ty, <1>st DEF Cleanup
<1> QED
  BY <1>1, <1>2, <1>3, <1>4, <1>5, <1>6, <1>7, <1>8, <1>9, <1>10, <1>11, <1>12, <1>13,
     <1>14, <1>15, <1>16, <1>17, <1>18, <1>19, <1>20, <1>21 DEF ConnStep

\* Appending keeps the offset at the end.
LEMMA WriteAtEndKeepsLog ==
  ASSUME TypeOK, file = log, pos = Len(file), NEW s \in Seq(Units), WriteFile(s)
  PROVE  file' = log' /\ pos' = Len(file')
<1>1. file \in Seq(Units)
  BY DEF TypeOK
<1>2. file' = file \o s /\ log' = file \o s /\ pos' = Len(file) + Len(s)
  BY <1>1, WriteAtEnd DEF WriteFile
<1>3. Len(file \o s) = Len(file) + Len(s)
  BY <1>1, ConcatProperties
<1> QED BY <1>2, <1>3

\* While one thread is in write() no reply is under way.
LEMMA WriterIsAlone ==
  ASSUME LockDiscipline,
         (\E c \in Conns : pc[c] = "write") \/ (\E t \in Ticks : tpc[t] = "stamp")
  PROVE  \A c \in Conns : pc[c] \notin Replying
BY ConstantsAssumption DEF LockDiscipline, Holding, Replying

\* The offset is at the end of the file, and the file is the log, in every reachable
\* state without a broken reply.
LEMMA OffsetInvariant == Spec => []OffsetInv
<1>1. Init => OffsetInv
  BY EmptySeq DEF Init, OffsetInv
<1>2. TypeInv /\ LockDiscipline /\ OffsetInv /\ [Next]_vars => OffsetInv'
  <2> SUFFICES ASSUME TypeInv, LockDiscipline, OffsetInv, [Next]_vars, ~ReplyBroken'
               PROVE  /\ file' = log'
                      /\ (\A c \in Conns : pc'[c] \notin Replying) => pos' = Len(file')
    BY DEF OffsetInv
  <2>ty. TypeOK
    BY DEF TypeInv
  <2>1. ASSUME NEW c \in Conns, ConnStep(c)
        PROVE  /\ file' = log'
               /\ (\A d \in Conns : pc'[d] \notin Replying) => pos' = Len(file')
    <3>1. FileMove(c)
      BY <2>1, ConnFileMove
    <3>2. file = log /\ ((\A d \in Conns : pc[d] \notin Replying) => pos = Len(file))
      BY <3>1 DEF FileMove, OffsetInv
    <3>3. CASE UNCHANGED <<file, pos, log>> /\ (pc[c] \in Replying <=> pc'[c] \in Replying)
      BY <3>1, <3>2, <3>3 DEF FileMove
    <3>4. CASE pc[c] = "write" /\ pc'[c] \notin Replying /\ \E s \in Seq(Units) : WriteFile(s)
      <4>1. \A d \in Conns : pc[d] \notin Replying
        BY <3>4, WriterIsAlone
      <4> QED BY <2>ty, <3>2, <3>4, <4>1, WriteAtEndKeepsLog
    <3>5. CASE pc'[c] \in Replying /\ UNCHANGED <<file, log>>
      BY <3>2, <3>5
    <3>6. CASE pc'[c] \notin Replying /\ UNCHANGED <<file, log>> /\ pos' = Len(file)
      BY <3>2, <3>6
    <3> QED BY <3>1, <3>3, <3>4, <3>5, <3>6 DEF FileMove
  <2>2. ASSUME NEW c \in Conns, ClientStep(c)
        PROVE  /\ file' = log'
               /\ (\A d \in Conns : pc'[d] \notin Replying) => pos' = Len(file')
    BY <2>2 DEF ClientStep, ClientSend, ClientTurns, fileVars, OffsetInv, ReplyBroken
  <2>3. ASSUME NEW t \in Ticks, TimerFires(t) \/ TimerStep(t)
        PROVE  /\ file' = log'
               /\ (\A d \in Conns : pc'[d] \notin Replying) => pos' = Len(file')
    <3>1. UNCHANGED <<pc, exit>>
      BY <2>3 DEF TimerFires, TimerStep, LockStamp, WriteStamp, WriteStampFails
    <3>2. file = log /\ ((\A d \in Conns : pc[d] \notin Replying) => pos = Len(file))
      BY <3>1 DEF OffsetInv, ReplyBroken
    <3>3. CASE TimerFires(t) \/ LockStamp(t)
      BY <3>1, <3>2, <3>3 DEF TimerFires, LockStamp, fileVars
    <3>4. CASE WriteStamp(t) \/ WriteStampFails(t)
      <4>1. \A d \in Conns : pc[d] \notin Replying
        BY <3>4, WriterIsAlone DEF WriteStamp, WriteStampFails
      <4>2. PICK s \in Seq(Units) : WriteFile(s)
        BY <3>4, StampWrites
      <4> QED BY <2>ty, <3>2, <4>1, <4>2, WriteAtEndKeepsLog
    <3> QED BY <2>3, <3>3, <3>4 DEF TimerStep
  <2>4. CASE UNCHANGED vars
    BY <2>4 DEF vars, fileVars, OffsetInv, ReplyBroken
  <2> QED BY <2>1, <2>2, <2>3, <2>4 DEF Next
<1> QED BY <1>1, <1>2, TypeInvariant, MutexHeldInside, PTL DEF Spec

\* No write() overwrites what another thread wrote, although every reply moves
\* the shared file offset (main.c:477-479, 533-570, 376-378), until a reply is
\* given up half way.
THEOREM NothingOverwritten == Spec => []FileIsLog
<1>1. OffsetInv => FileIsLog
  BY DEF OffsetInv, FileIsLog
<1> QED BY <1>1, OffsetInvariant, PTL

-----------------------------------------------------------------------------
(***************************************************************************)
(* The packets.  What a thread has received is a run of its client's units *)
(* in the order they were sent, and is closed by a newline before the      *)
(* thread goes for the lock.                                               *)
(***************************************************************************)

RxFacts(c) ==
  /\ \A i \in 1 .. Len(rx[c]) :
       rx[c][i].from = c /\ rx[c][i].seq = rcvd[c] - Len(rx[c]) + i
  /\ pc[c] \in {"lockWrite", "write"} => rx[c][Len(rx[c])].val = "nl"

RxInv == \A c \in Conns : RxFacts(c)

\* Whether the n units that arrive now end the packet.
PacketEnds(c, n) ==
  LET all == rx[c] \o Arrived(c, n) IN EndsPacket(all[Len(all)])

\* A longer packet is a run of its client's units too, and has a newline at its end
\* if it ends.
LEMMA PacketUnits ==
  ASSUME TypeOK, NEW c \in Conns, RxFacts(c),
         NEW n \in Nat \ {0}, rcvd[c] + n <= sent[c]
  PROVE  /\ \A i \in 1 .. Len(rx[c]) + n :
              /\ Packet(c, n)[i].from = c
              /\ Packet(c, n)[i].seq = rcvd[c] - Len(rx[c]) + i
         /\ PacketEnds(c, n) => Packet(c, n)[Len(rx[c]) + n].val = "nl"
<1> DEFINE arr == Arrived(c, n)
           all == rx[c] \o arr
           m == Len(rx[c])
<1>1. arr \in Seq(Units) /\ Len(arr) = n
  BY ArrivedType
<1>2. rx[c] \in Seq(Units) /\ m \in Nat /\ rcvd[c] \in Nat
  BY LenProperties DEF TypeOK
<1>3. \A i \in 1 .. n : arr[i].from = c /\ arr[i].seq = rcvd[c] + i
  BY DEF Arrived
<1>4. /\ Packet(c, n) = IF EndsPacket(all[Len(all)]) THEN CloseLine(all) ELSE all
      /\ PacketEnds(c, n) <=> EndsPacket(all[Len(all)])
  BY DEF Packet, PacketEnds
<1>5. \A i \in 1 .. m : rx[c][i].from = c /\ rx[c][i].seq = rcvd[c] - m + i
  BY DEF RxFacts
<1> HIDE DEF arr
<1>6. /\ all \in Seq(Units) /\ Len(all) = m + n
      /\ \A i \in 1 .. m + n : all[i] = IF i <= m THEN rx[c][i] ELSE arr[i - m]
  BY <1>1, <1>2, ConcatProperties
<1> HIDE DEF all, m
<1>7. ASSUME NEW i \in 1 .. m + n PROVE all[i].from = c /\ all[i].seq = rcvd[c] - m + i
  <2>1. CASE i <= m
    <3>1. i \in 1 .. m /\ all[i] = rx[c][i]
      BY <1>2, <1>6, <2>1
    <3> QED BY <1>5, <3>1
  <2>2. CASE ~(i <= m)
    <3>1. i - m \in 1 .. n /\ all[i] = arr[i - m]
      BY <1>2, <1>6, <2>2
    <3>2. rcvd[c] + (i - m) = rcvd[c] - m + i
      BY <1>2
    <3> QED BY <1>3, <3>1, <3>2
  <2> QED BY <2>1, <2>2
<1>8. \A i \in 1 .. m + n : all[i] \in Units
  BY <1>6, ElementOfSeq
<1>9. CASE EndsPacket(all[Len(all)])
  <2> DEFINE closed == [all[m + n] EXCEPT !.val = "nl"]
  <2>1. m + n \in 1 .. m + n
    BY <1>2
  <2>2. closed.from = all[m + n].from /\ closed.seq = all[m + n].seq /\ closed.val = "nl"
    BY <1>8, <2>1 DEF Units
  <2>3. Packet(c, n) = [all EXCEPT ![m + n] = closed]
    BY <1>4, <1>6, <1>9 DEF CloseLine
  <2> HIDE DEF closed
  <2>4. \A i \in 1 .. m + n : Packet(c, n)[i] = IF i = m + n THEN closed ELSE all[i]
    BY <1>6, <2>3
  <2> QED BY <1>7, <2>1, <2>2, <2>4 DEF m
<1>10. CASE ~EndsPacket(all[Len(all)])
  BY <1>4, <1>7, <1>10 DEF m
<1> QED BY <1>9, <1>10

\* Every step keeps the packets.
LEMMA RxStep ==
  ASSUME TypeInv, RxInv, [Next]_vars
  PROVE  RxInv'
<1> USE DEF rxVars, replyVars, fileVars, clientVars
<1>ty. /\ TypeOK
       /\ rx \in [Conns -> Seq(Units)] /\ rcvd \in [Conns -> Nat] /\ pc \in [Conns -> PCs]
       /\ \A d \in Conns : Len(rx[d]) \in Nat
  BY LenProperties DEF TypeInv, TypeOK
<1>1. ASSUME UNCHANGED <<rx, rcvd>>,
             \A d \in Conns : pc'[d] \in {"lockWrite", "write"} => pc[d] \in {"lockWrite", "write"}
      PROVE  RxInv'
  BY <1>1 DEF RxInv, RxFacts
<1>2. ASSUME NEW c \in Conns, ConnStep(c) PROVE RxInv'
  <2>1. CASE Recv(c)
    <3> DEFINE n == Smaller(avail[c], sent[c] - rcvd[c])
               packet == Packet(c, n)
    <3>1. /\ avail[c] \in Nat \ {0} /\ sent[c] \in Nat /\ rcvd[c] \in Nat
          /\ rcvd[c] < sent[c]
      BY <2>1 DEF Recv, TypeInv, TypeOK, ConnFacts
    <3>2. n \in Nat \ {0} /\ n <= avail[c] /\ rcvd[c] + n <= sent[c]
      BY <3>1 DEF Smaller
    <3>3. /\ rx' = [rx EXCEPT ![c] = packet]
          /\ rcvd' = [rcvd EXCEPT ![c] = rcvd[c] + n]
          /\ pc' = [pc EXCEPT ![c] = pc'[c]]
          /\ pc'[c] \in {"lockWrite", "write"} => PacketEnds(c, n)
      BY <2>1, <1>ty DEF Recv, Goto, Packet, PacketEnds
    <3> HIDE DEF n
    <3>4. /\ \A i \in 1 .. Len(rx[c]) + n :
               packet[i].from = c /\ packet[i].seq = rcvd[c] - Len(rx[c]) + i
          /\ PacketEnds(c, n) => packet[Len(rx[c]) + n].val = "nl"
          /\ Len(packet) = Len(rx[c]) + n
      BY <1>ty, <3>2, PacketUnits, PacketType DEF RxInv
    <3> HIDE DEF packet
    <3>5. RxFacts(c)'
      <4>1. rx'[c] = packet /\ rcvd'[c] = rcvd[c] + n
        BY <1>ty, <3>3
      <4>2. (rcvd[c] + n) - (Len(rx[c]) + n) = rcvd[c] - Len(rx[c])
        BY <1>ty, <3>2
      <4> QED BY <3>3, <3>4, <4>1, <4>2 DEF RxFacts
    <3>6. ASSUME NEW d \in Conns, d # c PROVE RxFacts(d)'
      <4>1. rx'[d] = rx[d] /\ rcvd'[d] = rcvd[d] /\ pc'[d] = pc[d]
        BY <1>ty, <3>3, <3>6
      <4> QED BY <4>1 DEF RxInv, RxFacts
    <3> QED BY <3>5, <3>6 DEF RxInv
  <2>2. CASE Write(c)
    <3>1. /\ rx' = [rx EXCEPT ![c] = <<>>] /\ rcvd' = rcvd /\ pc' = [pc EXCEPT ![c] = "lockStat"]
      BY <2>2 DEF Write, Goto
    <3>2. RxFacts(c)'
      <4>1. rx'[c] = <<>> /\ pc'[c] = "lockStat"
        BY <1>ty, <3>1
      <4> QED BY <4>1 DEF RxFacts
    <3>3. ASSUME NEW d \in Conns, d # c PROVE RxFacts(d)'
      <4>1. rx'[d] = rx[d] /\ rcvd'[d] = rcvd[d] /\ pc'[d] = pc[d]
        BY <1>ty, <3>1, <3>3
      <4> QED BY <4>1 DEF RxInv, RxFacts
    <3> QED BY <3>2, <3>3 DEF RxInv
  <2>c. CASE Cleanup(c)
    <3>1. rx' = [rx EXCEPT ![c] = <<>>] /\ rcvd' = rcvd /\ pc' = [pc EXCEPT ![c] = "ended"]
      BY <2>c DEF Cleanup, Goto
    <3>2. RxFacts(c)'
      <4>1. rx'[c] = <<>> /\ pc'[c] = "ended"
        BY <1>ty, <3>1
      <4> QED BY <4>1 DEF RxFacts
    <3>3. ASSUME NEW d \in Conns, d # c PROVE RxFacts(d)'
      <4>1. rx'[d] = rx[d] /\ rcvd'[d] = rcvd[d] /\ pc'[d] = pc[d]
        BY <1>ty, <3>1, <3>3
      <4> QED BY <4>1 DEF RxInv, RxFacts
    <3> QED BY <3>2, <3>3 DEF RxInv
  <2>3. CASE ~(Recv(c) \/ Write(c) \/ Cleanup(c))
    <3>1. UNCHANGED <<rx, rcvd>>
      BY <1>2, <2>3 DEF ConnStep, Alloc, AllocFails, RecvEof, Lock, WriteFails, Stat, StatFails,
         FailsLocked, AllocReply, AllocReplyFails, Rewind, RewindFails, Read, Send, SendFails,
         SendKills, ToEnd, ToEndFails, SetDone
    <3>2. \A d \in Conns : pc'[d] \in {"lockWrite", "write"} => pc[d] \in {"lockWrite", "write"}
      BY <1>2, <1>ty, <2>3 DEF ConnStep, Alloc, AllocFails, RecvEof, Lock, WriteFails, Stat,
         StatFails, FailsLocked, AllocReply, AllocReplyFails, Rewind, RewindFails, Read, Send,
         SendFails, SendKills, ToEnd, ToEndFails, SetDone, Goto, Leave
    <3> QED BY <1>1, <3>1, <3>2
  <2> QED BY <2>1, <2>2, <2>c, <2>3
<1>3. ASSUME NEW c \in Conns, ClientStep(c) PROVE RxInv'
  BY <1>1, <1>3 DEF ClientStep, ClientSend, ClientTurns
<1>4. ASSUME NEW t \in Ticks, TimerFires(t) \/ TimerStep(t) PROVE RxInv'
  BY <1>1, <1>4 DEF TimerStep, TimerFires, LockStamp, WriteStamp, WriteStampFails
<1>5. CASE UNCHANGED vars
  BY <1>1, <1>5 DEF vars
<1> QED BY <1>2, <1>3, <1>4, <1>5 DEF Next

-----------------------------------------------------------------------------
(***************************************************************************)
(* The lines.  While nothing was given up half way, what a step adds to    *)
(* the file is one record: a run of units of one writer that ends in a     *)
(* newline.                                                                *)
(***************************************************************************)

\* Each record of f ends with a newline.
WholeLines(f) ==
  /\ \A i \in 1 .. Len(f) - 1 : f[i].from # f[i + 1].from => f[i].val = "nl"
  /\ Len(f) > 0 => f[Len(f)].val = "nl"

\* s is a record of writer w.
Record(w, s) ==
  /\ s \in Seq(Units) /\ Len(s) > 0
  /\ s[Len(s)].val = "nl"
  /\ \A i \in 1 .. Len(s) : s[i].from = w /\ (i > 1 => s[i].seq = s[i - 1].seq + 1)

\* The file and the log after the record s.
AddRecord(s) == file' = file \o s /\ log' = file \o s /\ file = log

\* A record leaves whole lines.
LEMMA RecordKeepsLines ==
  ASSUME NEW f \in Seq(Units), NEW w, NEW s, Record(w, s), WholeLines(f)
  PROVE  WholeLines(f \o s)
<1> DEFINE g == f \o s
           m == Len(f)
           n == Len(s)
<1>1. m \in Nat /\ n \in Nat \ {0} /\ s \in Seq(Units)
  BY LenProperties DEF Record
<1>2. /\ Len(g) = m + n
      /\ \A i \in 1 .. m + n : g[i] = IF i <= m THEN f[i] ELSE s[i - m]
  BY <1>1, ConcatProperties
<1>r. s[n].val = "nl" /\ \A i \in 1 .. n : s[i].from = w
  BY DEF Record
<1>l. /\ \A i \in 1 .. m - 1 : f[i].from # f[i + 1].from => f[i].val = "nl"
      /\ m > 0 => f[m].val = "nl"
  BY DEF WholeLines
<1> HIDE DEF g, m, n
<1>3. g[m + n].val = "nl"
  <2>1. m + n \in 1 .. m + n /\ ~(m + n <= m) /\ (m + n) - m = n
    BY <1>1
  <2> QED BY <1>2, <1>r, <2>1
<1>4. ASSUME NEW i \in 1 .. m + n - 1, g[i].from # g[i + 1].from PROVE g[i].val = "nl"
  <2>1. CASE i < m
    <3>1. i \in 1 .. m - 1 /\ g[i] = f[i] /\ g[i + 1] = f[i + 1]
      BY <1>1, <1>2, <2>1
    <3> QED BY <1>4, <1>l, <3>1
  <2>2. CASE i = m
    <3>1. g[i] = f[m] /\ m > 0
      BY <1>1, <1>2, <2>2
    <3> QED BY <1>l, <3>1
  <2>3. CASE i > m
    <3>1. /\ i - m \in 1 .. n /\ g[i] = s[i - m]
          /\ (i + 1) - m \in 1 .. n /\ g[i + 1] = s[(i + 1) - m]
      BY <1>1, <1>2, <2>3
    <3> QED BY <1>4, <1>r, <3>1
  <2> QED BY <1>1, <2>1, <2>2, <2>3
<1>5. Len(g) = m + n
  BY <1>2
<1>6. WholeLines(g)
  <2>1. \A i \in 1 .. Len(g) - 1 : g[i].from # g[i + 1].from => g[i].val = "nl"
    BY <1>1, <1>4, <1>5
  <2>2. g[Len(g)].val = "nl"
    BY <1>3, <1>5
  <2> QED BY <2>1, <2>2 DEF WholeLines
<1> QED BY <1>6 DEF g

\* A packet is a record of its client once it is closed.
LEMMA PacketIsRecord ==
  ASSUME TypeInv, RxInv, NEW c \in Conns, pc[c] = "write"
  PROVE  Record(c, rx[c])
<1>1. /\ rx[c] \in Seq(Units) /\ Len(rx[c]) \in Nat \ {0} /\ rcvd[c] \in Nat
  BY LenProperties DEF TypeInv, TypeOK, ConnFacts
<1>2. /\ \A i \in 1 .. Len(rx[c]) :
           rx[c][i].from = c /\ rx[c][i].seq = rcvd[c] - Len(rx[c]) + i
      /\ rx[c][Len(rx[c])].val = "nl"
  BY DEF RxInv, RxFacts
<1>3. ASSUME NEW i \in 1 .. Len(rx[c]), i > 1 PROVE rx[c][i].seq = rx[c][i - 1].seq + 1
  <2> DEFINE base == rcvd[c] - Len(rx[c])
  <2>1. i - 1 \in 1 .. Len(rx[c]) /\ base \in Int
    BY <1>1, <1>3
  <2>2. rx[c][i].seq = base + i /\ rx[c][i - 1].seq = base + (i - 1)
    BY <1>2, <2>1
  <2> HIDE DEF base
  <2>3. base + i = (base + (i - 1)) + 1
    BY <2>1
  <2> QED BY <2>2, <2>3
<1> QED BY <1>1, <1>2, <1>3 DEF Record

\* So is a timestamp of its expiry.
LEMMA StampIsRecord ==
  ASSUME NEW t \in Ticks
  PROVE  Record(t, Stamp(t))
BY StampType DEF Record, Stamp

\* A thread that left half way has left, and a timestamp that was cut stays cut.
LEMMA TornStable ==
  ASSUME TypeInv, Torn, [Next]_vars
  PROVE  Torn'
<1>1. ASSUME NEW d \in Conns, exit[d] \in {"send", "toEnd", "write"} PROVE Torn'
  <2>1. pc[d] \in {"done", "cleanup", "ended"} /\ exit \in [Conns -> Exits]
    BY <1>1 DEF TypeInv, TypeOK, ConnFacts
  <2>2. ASSUME NEW c \in Conns, ConnStep(c) PROVE exit'[d] = exit[d]
    <3>1. exit' = exit \/ (pc[c] \notin {"done", "cleanup", "ended"}
                           /\ \E why \in Exits : exit' = [exit EXCEPT ![c] = why])
      BY <2>2 DEF Exits, Leave, ConnStep, Alloc, AllocFails, Recv, RecvEof, Lock, Write, WriteFails,
         Stat, StatFails, FailsLocked, AllocReply, AllocReplyFails, Rewind, RewindFails, Read, Send,
         SendFails, SendKills, ToEnd, ToEndFails, SetDone, Cleanup
    <3> QED BY <2>1, <3>1
  <2>3. ASSUME NEW c \in Conns, ClientStep(c) PROVE exit'[d] = exit[d]
    BY <2>3 DEF ClientStep, ClientSend, ClientTurns
  <2>4. ASSUME NEW t \in Ticks, TimerFires(t) \/ TimerStep(t) PROVE exit'[d] = exit[d]
    BY <2>4 DEF TimerStep, TimerFires, LockStamp, WriteStamp, WriteStampFails
  <2>5. exit'[d] = exit[d]
    BY <2>2, <2>3, <2>4 DEF Next, vars
  <2> QED BY <1>1, <2>5 DEF Torn, ReplyBroken
<1>2. ASSUME NEW u \in Ticks, tpc[u] = "cut" PROVE Torn'
  <2>1. tpc \in [Ticks -> {"idle", "lockStamp", "stamp", "written", "cut", "unwritten"}]
    BY DEF TypeInv, TypeOK
  <2>2. ASSUME NEW c \in Conns, ConnStep(c) PROVE tpc'[u] = tpc[u]
    BY <2>2, ConnMutexMove DEF MutexMove, TypeInv
  <2>3. ASSUME NEW c \in Conns, ClientStep(c) PROVE tpc'[u] = tpc[u]
    BY <2>3 DEF ClientStep, ClientSend, ClientTurns
  <2>4. ASSUME NEW t \in Ticks, TimerFires(t) \/ TimerStep(t) PROVE tpc'[u] = tpc[u]
    <3>1. /\ tpc[t] \in {"idle", "lockStamp", "stamp"}
          /\ \E l : tpc' = [tpc EXCEPT ![t] = l]
      BY <2>4 DEF TimerStep, TimerFires, LockStamp, WriteStamp, WriteStampFails
    <3> QED BY <1>2, <2>1, <3>1
  <2>5. tpc'[u] = tpc[u]
    BY <2>2, <2>3, <2>4 DEF Next, vars
  <2> QED BY <1>2, <2>5 DEF Torn
<1> QED BY <1>1, <1>2 DEF Torn, ReplyBroken

\* With the offset at the end of the file a write() adds a record to it.
LEMMA WriteAddsRecord ==
  ASSUME TypeOK, OffsetInv, LockDiscipline, ~ReplyBroken, NEW s \in Seq(Units), WriteFile(s),
         (\E c \in Conns : pc[c] = "write") \/ (\E t \in Ticks : tpc[t] = "stamp")
  PROVE  AddRecord(s)
<1>1. pos = Len(file) /\ file = log
  BY WriterIsAlone DEF OffsetInv
<1>2. file \in Seq(Units)
  BY DEF TypeOK
<1> QED BY <1>1, <1>2, WriteAtEnd DEF WriteFile, AddRecord

\* A timestamp of which nothing was written leaves the file as it was; one of which a
\* part was written is torn.
LEMMA StampUnwritten ==
  ASSUME TypeOK, OffsetInv, LockDiscipline, ~ReplyBroken, ~Torn',
         NEW t \in Ticks, WriteStampFails(t)
  PROVE  UNCHANGED <<file, log>>
<1>1. PICK k \in 0 .. Len(Stamp(t)) - 1 :
        /\ WriteFile(SubSeq(Stamp(t), 1, k))
        /\ tpc' = [tpc EXCEPT ![t] = IF k = 0 THEN "unwritten" ELSE "cut"]
  BY DEF WriteStampFails
<1>2. k = 0
  <2>1. tpc' = [tpc EXCEPT ![t] = "cut"] => tpc'[t] = "cut"
    BY DEF TypeOK
  <2> QED BY <1>1, <2>1 DEF Torn
<1>3. SubSeq(Stamp(t), 1, k) = <<>>
  <2>1. SubSeq(Stamp(t), 1, 0) \in Seq(Units) /\ Len(SubSeq(Stamp(t), 1, 0)) = 0
    BY SubSeqProperties
  <2> QED BY <1>2, <2>1, EmptySeq
<1>4. AddRecord(<<>>)
  BY <1>1, <1>3, EmptySeq, WriteAddsRecord DEF WriteStampFails
<1>5. file \in Seq(Units) /\ file \o <<>> = file
  BY ConcatEmptySeq DEF TypeOK
<1> QED BY <1>4, <1>5 DEF AddRecord

\* What the steps of the threads do to the file and the log.
LEMMA FileSteps ==
  ASSUME TypeInv, OffsetInv, LockDiscipline, RxInv, [Next]_vars, ~Torn'
  PROVE  \/ UNCHANGED <<file, log>>
         \/ \E c \in Conns : Write(c) /\ Record(c, rx[c]) /\ AddRecord(rx[c])
         \/ \E t \in Ticks : WriteStamp(t) /\ Record(t, Stamp(t)) /\ AddRecord(Stamp(t))
<1> USE DEF fileVars
<1>ty. TypeOK /\ ~Torn /\ ~ReplyBroken
  BY TornStable DEF TypeInv, Torn
<1>1. ASSUME NEW c \in Conns, ConnStep(c), ~Write(c) PROVE UNCHANGED <<file, log>>
  <2>1. ~WriteFails(c)
    <3>1. WriteFails(c) => exit'[c] = "write"
      BY DEF WriteFails, Leave, TypeInv, TypeOK
    <3> QED BY <3>1 DEF Torn
  <2> QED BY <1>1, <2>1 DEF ConnStep, Alloc, AllocFails, Recv, RecvEof, Lock,
       Stat, StatFails, FailsLocked, AllocReply, AllocReplyFails, Rewind, RewindFails, Read, Send,
       SendFails, SendKills, ToEnd, ToEndFails, SetDone, Cleanup
<1>2. ASSUME NEW c \in Conns, Write(c) PROVE Record(c, rx[c]) /\ AddRecord(rx[c])
  <2>1. pc[c] = "write" /\ WriteFile(rx[c])
    BY <1>2 DEF Write
  <2>2. Record(c, rx[c]) /\ rx[c] \in Seq(Units)
    BY <2>1, PacketIsRecord DEF TypeInv, TypeOK
  <2> QED BY <1>ty, <2>1, <2>2, WriteAddsRecord
<1>3. ASSUME NEW c \in Conns, ClientStep(c) PROVE UNCHANGED <<file, log>>
  BY <1>3 DEF ClientStep, ClientSend, ClientTurns
<1>4. ASSUME NEW t \in Ticks, TimerFires(t) \/ LockStamp(t) PROVE UNCHANGED <<file, log>>
  BY <1>4 DEF TimerFires, LockStamp
<1>5. ASSUME NEW t \in Ticks, WriteStamp(t) PROVE Record(t, Stamp(t)) /\ AddRecord(Stamp(t))
  <2>1. WriteFile(Stamp(t)) /\ tpc[t] = "stamp"
    BY <1>5 DEF WriteStamp
  <2> QED BY <1>ty, <2>1, StampIsRecord, StampType, WriteAddsRecord
<1>u. ASSUME NEW t \in Ticks, WriteStampFails(t) PROVE UNCHANGED <<file, log>>
  BY <1>ty, <1>u, StampUnwritten
<1>6. CASE UNCHANGED vars
  BY <1>6 DEF vars
<1> QED BY <1>1, <1>2, <1>3, <1>4, <1>5, <1>u, <1>6 DEF Next, TimerStep

\* The packets hold in every reachable state.
LEMMA RxInvariant == Spec => []RxInv
<1>1. Init => RxInv
  <2>1. Init => rx = [c \in Conns |-> <<>>] /\ pc = [c \in Conns |-> "alloc"]
    BY Zenon DEF Init
  <2>2. 1 .. Len(<<>>) = {}
    BY EmptySeq
  <2> QED BY <2>1, <2>2 DEF RxInv, RxFacts
<1> QED BY <1>1, RxStep, TypeInvariant, PTL DEF Spec

\* Packets and timestamps of different threads never share a line of the file
\* (main.c:464-481, 362-380), until an operation is given up half way: recv() may cut
\* a packet anywhere, and any thread may take the lock in between.
THEOREM RecordsOnLines == Spec => []LinesIntact
<1>1. Init => LinesIntact
  <2>1. Len(<<>>) = 0 /\ 1 .. 0 - 1 = {}
    OBVIOUS
  <2> QED BY <2>1 DEF Init, LinesIntact
<1>2. TypeInv /\ OffsetInv /\ LockDiscipline /\ RxInv /\ LinesIntact /\ [Next]_vars
        => LinesIntact'
  <2> SUFFICES ASSUME TypeInv, OffsetInv, LockDiscipline, RxInv, LinesIntact, [Next]_vars, ~Torn'
               PROVE  WholeLines(file)'
    BY DEF LinesIntact, WholeLines
  <2>1. WholeLines(file) /\ file \in Seq(Units)
    BY TornStable DEF LinesIntact, WholeLines, TypeInv, TypeOK
  <2>2. UNCHANGED file \/ \E w : \E s : Record(w, s) /\ file' = file \o s
    BY FileSteps DEF AddRecord
  <2>3. ASSUME NEW w, NEW s, Record(w, s), file' = file \o s PROVE WholeLines(file')
    BY <2>1, <2>3, RecordKeepsLines
  <2>4. WholeLines(file')
    BY <2>1, <2>2, <2>3
  <2> QED BY <2>4 DEF WholeLines
<1> QED
  BY <1>1, <1>2, TypeInvariant, OffsetInvariant, MutexHeldInside, RxInvariant, PTL DEF Spec

-----------------------------------------------------------------------------
(***************************************************************************)
(* The replies.  While a reply is under way the client has the beginning   *)
(* of the log, the file offset is where that beginning ends, and the reads *)
(* that are left reach the size fstat() saw.  Other threads only append,   *)
(* and not while the offset is in use.                                     *)
(***************************************************************************)

\* The pcs at which the size of the file is known, and all of those between a packet
\* and the end of its reply.
Sized == {"allocReply", "lockReply", "rewind"} \cup Replying
Pending == {"lockStat", "stat"} \cup Sized

Begins(s, t) == Len(s) <= Len(t) /\ \A i \in 1 .. Len(s) : s[i] = t[i]

\* From offset p on, n reads get to the size fstat() saw.
Covers(c, p, n) == p >= size[c] \/ p + n * nbyte[c] >= size[c]

\* The last read() left in buf what follows in the log on what was sent before.
ChunkFollows(c) ==
  /\ pos = Len(got[c]) + Len(chunk[c]) /\ pos <= Len(log)
  /\ \A i \in 1 .. Len(chunk[c]) : chunk[c][i] = log[Len(got[c]) + i]

ReplyFacts(c) ==
  /\ due[c] <= Len(log)
  /\ pc[c] \in Pending => ~answered[c] /\ due[c] > 0
  /\ pc[c] \in Sized => due[c] <= size[c] /\ size[c] <= Len(log)
  /\ pc[c] \in Replying \/ answered[c] => Begins(got[c], log)
  /\ pc[c] = "read" => pos = Len(got[c]) /\ Covers(c, pos, iter[c])
  /\ pc[c] = "send" => ChunkFollows(c) /\ Covers(c, pos, iter[c] - 1)
  /\ pc[c] = "toEnd" => Len(got[c]) >= size[c]
  /\ answered[c] => due[c] <= Len(got[c])

ReplyInv == ~ReplyBroken => \A c \in Conns : ReplyFacts(c)

\* A beginning of a beginning is a beginning.
LEMMA BeginsTransitive ==
  ASSUME NEW S, NEW s \in Seq(S), NEW t \in Seq(S), NEW u \in Seq(S), Begins(s, t), Begins(t, u)
  PROVE  Begins(s, u)
<1>1. Len(s) \in Nat /\ Len(t) \in Nat /\ Len(u) \in Nat
  BY LenProperties
<1> QED BY <1>1 DEF Begins

\* A sequence begins what is appended to it.
LEMMA BeginsConcat ==
  ASSUME NEW S, NEW s \in Seq(S), NEW t \in Seq(S)
  PROVE  Begins(s, s \o t)
<1>1. Len(s) \in Nat /\ Len(t) \in Nat
  BY LenProperties
<1>2. /\ Len(s \o t) = Len(s) + Len(t)
      /\ \A i \in 1 .. Len(s) + Len(t) : (s \o t)[i] = IF i <= Len(s) THEN s[i] ELSE t[i - Len(s)]
  BY ConcatProperties
<1> QED BY <1>1, <1>2 DEF Begins

\* The empty sequence begins every other.
LEMMA BeginsEmpty ==
  ASSUME NEW S, NEW t \in Seq(S)
  PROVE  Begins(<<>>, t)
<1>1. Len(<<>>) = 0 /\ Len(t) \in Nat
  BY EmptySeq, LenProperties
<1> QED BY <1>1 DEF Begins

\* Rounding up, enough reads.
LEMMA CeilingEnough ==
  ASSUME NEW a \in Nat, NEW b \in Nat \ {0}
  PROVE  ((a + b - 1) \div b) * b >= a
<1> DEFINE x == a + b - 1
           q == x \div b
           r == x % b
<1>1. x \in Nat
  OBVIOUS
<1>2. q \in Int /\ r \in Int /\ x = b * q + r /\ 0 <= r /\ r < b
  BY <1>1, SMTT(30)
<1> HIDE DEF q, r
<1>3. q * b = b * q /\ b * q \in Int
  BY <1>2
<1>4. b * q >= a
  <2> DEFINE y == b * q
  <2>1. y \in Int /\ a + b - 1 = y + r
    BY <1>2, <1>3
  <2> HIDE DEF y
  <2>2. y >= a
    BY <1>2, <2>1
  <2> QED BY <2>2 DEF y
<1>5. q * b >= a
  BY <1>3, <1>4
<1> QED BY <1>5 DEF q

\* The part of n reads that one read does.
LEMMA OneReadLess ==
  ASSUME NEW n \in Nat \ {0}, NEW b \in Nat
  PROVE  n * b \in Nat /\ (n - 1) * b \in Nat /\ n * b = b + (n - 1) * b
<1>1. ASSUME NEW k \in Nat PROVE k * b \in Nat /\ (k + 1) * b = b + k * b
  <2>1. k * b \in Nat
    OBVIOUS
  <2>2. (k + 1) * b = b + k * b
    OBVIOUS
  <2> QED BY <2>1, <2>2
<1>2. n - 1 \in Nat /\ (n - 1) + 1 = n
  OBVIOUS
<1>3. (n - 1) * b \in Nat /\ ((n - 1) + 1) * b = b + (n - 1) * b
  BY <1>1, <1>2
<1>4. n * b \in Nat
  OBVIOUS
<1> QED BY <1>2, <1>3, <1>4

\* What the log looks like to a thread after a step that only appends.
LogGrows == log' \in Seq(Units) /\ Begins(log, log')

\* The step of another thread, seen by thread c.
Undisturbed(c) ==
  /\ pc'[c] = pc[c] /\ size'[c] = size[c] /\ nbyte'[c] = nbyte[c] /\ iter'[c] = iter[c]
  /\ chunk'[c] = chunk[c] /\ got'[c] = got[c] /\ answered'[c] = answered[c] /\ due'[c] = due[c]
  /\ LogGrows
  /\ pc[c] \in Replying => UNCHANGED <<pos, log>>

\* It leaves c's reply as it was.
LEMMA UndisturbedReply ==
  ASSUME TypeOK, NEW c \in Conns, ReplyFacts(c), Undisturbed(c)
  PROVE  ReplyFacts(c)'
<1>ty. /\ log \in Seq(Units) /\ got[c] \in Seq(Units) /\ due[c] \in Nat /\ size[c] \in Nat
       /\ Len(log) \in Nat /\ Len(log') \in Nat /\ log' \in Seq(Units)
  BY LenProperties DEF TypeOK, Undisturbed, LogGrows
<1>1. Len(log) <= Len(log')
  BY DEF Undisturbed, LogGrows, Begins
<1>2. Begins(got[c], log) => Begins(got[c], log')
  BY <1>ty, BeginsTransitive DEF Undisturbed, LogGrows
<1>3. CASE pc[c] \in Replying
  <2>1. pos' = pos /\ log' = log
    BY <1>3 DEF Undisturbed
  <2> QED BY <2>1 DEF Undisturbed, ReplyFacts, Covers, ChunkFollows
<1>4. CASE pc[c] \notin Replying
  <2>1. pc[c] \notin {"read", "send", "toEnd"} /\ pc'[c] = pc[c]
    BY <1>4 DEF Undisturbed, Replying
  <2>2. /\ (due[c] <= Len(log))'
        /\ (pc[c] \in Pending => ~answered[c] /\ due[c] > 0)'
        /\ (pc[c] \in Sized => due[c] <= size[c] /\ size[c] <= Len(log))'
    BY <1>ty, <1>1 DEF Undisturbed, ReplyFacts
  <2>3. /\ (pc[c] \in Replying \/ answered[c] => Begins(got[c], log))'
        /\ (answered[c] => due[c] <= Len(got[c]))'
    <3>1. /\ pc'[c] \notin Replying
          /\ answered'[c] = answered[c] /\ got'[c] = got[c] /\ due'[c] = due[c]
      BY <1>4 DEF Undisturbed
    <3>2. /\ answered[c] => Begins(got[c], log)
          /\ answered[c] => due[c] <= Len(got[c])
      BY DEF ReplyFacts
    <3> QED BY <1>2, <3>1, <3>2
  <2> QED BY <2>1, <2>2, <2>3 DEF ReplyFacts
<1> QED BY <1>3, <1>4

\* The step of c itself that leaves its reply alone and goes where none is under way.
Quiet(c) ==
  /\ got'[c] = got[c] /\ answered'[c] = answered[c] /\ due'[c] = due[c]
  /\ LogGrows
  /\ pc'[c] \notin Pending

\* It leaves the facts about an earlier reply.
LEMMA QuietReply ==
  ASSUME TypeOK, NEW c \in Conns, ReplyFacts(c), Quiet(c)
  PROVE  ReplyFacts(c)'
<1>ty. /\ log \in Seq(Units) /\ got[c] \in Seq(Units) /\ due[c] \in Nat
       /\ Len(log) \in Nat /\ Len(log') \in Nat /\ log' \in Seq(Units)
  BY LenProperties DEF TypeOK, Quiet, LogGrows
<1>1. Len(log) <= Len(log')
  BY DEF Quiet, LogGrows, Begins
<1>2. Begins(got[c], log) => Begins(got[c], log')
  BY <1>ty, BeginsTransitive DEF Quiet, LogGrows
<1>3. got'[c] = got[c] /\ answered'[c] = answered[c] /\ due'[c] = due[c]
  BY DEF Quiet
<1>4. /\ pc'[c] \notin Pending /\ pc'[c] \notin Sized /\ pc'[c] \notin Replying
      /\ pc'[c] \notin {"read", "send", "toEnd"}
  BY DEF Quiet, Pending, Sized, Replying
<1>5. /\ due[c] <= Len(log)
      /\ answered[c] => Begins(got[c], log)
      /\ answered[c] => due[c] <= Len(got[c])
  BY DEF ReplyFacts
<1>6. due[c] <= Len(log')
  BY <1>ty, <1>1, <1>5
<1> QED BY <1>2, <1>3, <1>4, <1>5, <1>6 DEF ReplyFacts

\* What a write() adds to the log grows it.
LEMMA WriteGrowsLog ==
  ASSUME TypeOK, NEW s \in Seq(Units), WriteFile(s)
  PROVE  LogGrows /\ Len(log') = Len(log) + Len(s)
<1>1. log \in Seq(Units) /\ log' = log \o s
  BY DEF TypeOK, WriteFile
<1>2. log \o s \in Seq(Units) /\ Begins(log, log \o s) /\ Len(log \o s) = Len(log) + Len(s)
  BY <1>1, BeginsConcat, ConcatType
<1> QED BY <1>1, <1>2 DEF LogGrows

\* Leaving the log alone does too.
LEMMA SameLogGrows ==
  ASSUME TypeOK, UNCHANGED log
  PROVE  LogGrows
<1>1. log \in Seq(Units) /\ Len(log) \in Nat
  BY LenProperties DEF TypeOK
<1>2. Begins(log, log)
  BY <1>1 DEF Begins
<1> QED BY <1>1, <1>2 DEF LogGrows

\* The steps of the threads only append to the log.
LEMMA ConnLogGrows ==
  ASSUME TypeOK, NEW c \in Conns, ConnStep(c)
  PROVE  LogGrows
<1>1. CASE Write(c)
  BY <1>1, WriteGrowsLog DEF Write, TypeOK
<1>2. CASE WriteFails(c)
  <2>1. PICK k \in 0 .. Len(rx[c]) - 1 : WriteFile(SubSeq(rx[c], 1, k))
    BY <1>2 DEF WriteFails
  <2>2. SubSeq(rx[c], 1, k) \in Seq(Units)
    BY PartType DEF TypeOK
  <2> QED BY <2>1, <2>2, WriteGrowsLog
<1>3. CASE ~(Write(c) \/ WriteFails(c))
  <2>1. UNCHANGED log
    BY <1>3 DEF fileVars, ConnStep, Alloc, AllocFails, Recv, RecvEof, Lock, Stat, StatFails,
       FailsLocked, AllocReply, AllocReplyFails, Rewind, RewindFails, Read, Send, SendFails,
       SendKills, ToEnd, ToEndFails, SetDone, Cleanup
  <2> QED BY <2>1, SameLogGrows
<1> QED BY <1>1, <1>2, <1>3

\* A thread does not disturb the reply of another: those that move the offset or
\* write have the mutex.
LEMMA OthersReply ==
  ASSUME TypeInv, LockDiscipline, NEW c \in Conns, ConnStep(c), NEW d \in Conns, d # c
  PROVE  Undisturbed(d)
<1>ty. /\ TypeOK
       /\ pc \in [Conns -> PCs] /\ size \in [Conns -> Nat] /\ nbyte \in [Conns -> Nat]
       /\ iter \in [Conns -> Nat] /\ chunk \in [Conns -> Seq(Units)]
       /\ got \in [Conns -> Seq(Units)] /\ answered \in [Conns -> BOOLEAN]
       /\ due \in [Conns -> Nat]
  BY DEF TypeInv, TypeOK
<1>lg. LogGrows
  BY <1>ty, ConnLogGrows
<1>pc. pc'[d] = pc[d]
  BY <1>ty DEF Goto, Leave, ConnStep, Alloc, AllocFails, Recv, RecvEof, Lock, Write, WriteFails, Stat,
     StatFails, FailsLocked, AllocReply, AllocReplyFails, Rewind, RewindFails, Read, Send,
     SendFails, SendKills, ToEnd, ToEndFails, SetDone, Cleanup
<1>sz. size'[d] = size[d] /\ nbyte'[d] = nbyte[d]
  BY <1>ty DEF replyVars, ConnStep, Alloc, AllocFails, Recv, RecvEof, Lock, Write, WriteFails, Stat,
     StatFails, FailsLocked, AllocReply, AllocReplyFails, Rewind, RewindFails, Read, Send,
     SendFails, SendKills, ToEnd, ToEndFails, SetDone, Cleanup
<1>it. iter'[d] = iter[d] /\ chunk'[d] = chunk[d]
  BY <1>ty DEF replyVars, ConnStep, Alloc, AllocFails, Recv, RecvEof, Lock, Write, WriteFails, Stat,
     StatFails, FailsLocked, AllocReply, AllocReplyFails, Rewind, RewindFails, Read, Send,
     SendFails, SendKills, ToEnd, ToEndFails, SetDone, Cleanup
<1>got. got'[d] = got[d]
  BY <1>ty DEF replyVars, ConnStep, Alloc, AllocFails, Recv, RecvEof, Lock, Write, WriteFails, Stat,
     StatFails, FailsLocked, AllocReply, AllocReplyFails, Rewind, RewindFails, Read, Send,
     SendFails, SendKills, ToEnd, ToEndFails, SetDone, Cleanup
<1>due. answered'[d] = answered[d] /\ due'[d] = due[d]
  BY <1>ty DEF replyVars, fileVars, ConnStep, Alloc, AllocFails, Recv, RecvEof, Lock, Write, WriteFails, Stat,
     StatFails, FailsLocked, AllocReply, AllocReplyFails, Rewind, RewindFails, Read, Send,
     SendFails, SendKills, ToEnd, ToEndFails, SetDone, Cleanup
<1>3. ASSUME pc[d] \in Replying PROVE UNCHANGED <<pos, log>>
  <2>1. pc[c] \notin Holding
    BY <1>3 DEF LockDiscipline, Replying, Holding
  <2> QED BY <2>1 DEF Holding, fileVars, ConnStep, Alloc, AllocFails, Recv, RecvEof, Lock, Write,
     WriteFails, Stat, StatFails, FailsLocked, AllocReply, AllocReplyFails, Rewind, RewindFails,
     Read, Send, SendFails, SendKills, ToEnd, ToEndFails, SetDone, Cleanup
<1> QED BY <1>lg, <1>pc, <1>sz, <1>it, <1>got, <1>due, <1>3 DEF Undisturbed

\* lseek() to the start: the reply is empty and the reads suffice for the whole size.
LEMMA RewindReply ==
  ASSUME TypeInv, NEW c \in Conns, ReplyFacts(c), Rewind(c)
  PROVE  ReplyFacts(c)'
<1>1. /\ pc[c] = "rewind" /\ pc'[c] = "read" /\ pos' = 0 /\ log' = log
      /\ iter'[c] = Iterations(c) /\ got'[c] = <<>> /\ due'[c] = due[c]
      /\ answered'[c] = answered[c] /\ size'[c] = size[c] /\ nbyte'[c] = nbyte[c]
  BY DEF Rewind, Goto, SeekStart, TypeInv, TypeOK
<1>2. size[c] \in Nat \ {0} /\ nbyte[c] \in Nat \ {0} /\ log \in Seq(Units)
  BY <1>1 DEF TypeInv, TypeOK, ConnFacts
<1>3. Iterations(c) * nbyte[c] >= size[c] /\ Iterations(c) \in Nat
  BY <1>2, CeilingEnough, CeilingPositive DEF Iterations
<1>4. Begins(<<>>, log) /\ Len(<<>>) = 0
  BY <1>2, BeginsEmpty, EmptySeq
<1>5. Covers(c, pos, iter[c])'
  <2> DEFINE n == Iterations(c) * nbyte[c]
  <2>1. n \in Nat
    BY <1>2, <1>3
  <2> HIDE DEF n
  <2>2. 0 + n >= size[c]
    BY <1>2, <1>3, <2>1 DEF n
  <2> QED BY <1>1, <2>2 DEF Covers, n
<1>6. /\ due[c] <= Len(log) /\ ~answered[c] /\ due[c] > 0
      /\ due[c] <= size[c] /\ size[c] <= Len(log)
  BY <1>1 DEF ReplyFacts, Pending, Sized
<1> QED BY <1>1, <1>4, <1>5, <1>6 DEF ReplyFacts

\* What SubSeq cuts out from behind offset p up to offset q.
LEMMA PieceOf ==
  ASSUME NEW S, NEW s \in Seq(S), NEW p \in 0 .. Len(s), NEW q \in p .. Len(s)
  PROVE  /\ Len(SubSeq(s, p + 1, q)) = q - p
         /\ \A i \in 1 .. q - p : SubSeq(s, p + 1, q)[i] = s[p + i]
<1> DEFINE a == p + 1
           piece == SubSeq(s, a, q)
<1>1. Len(s) \in Nat /\ p \in Int /\ q \in Int
  BY LenProperties
<1>2. a \in Int /\ \A i \in a .. q : s[i] \in S
  BY <1>1, ElementOfSeq
<1> HIDE DEF a
<1>3. /\ Len(piece) = (IF a <= q THEN q - a + 1 ELSE 0)
      /\ \A i \in 1 .. q - a + 1 : piece[i] = s[a + i - 1]
  BY <1>1, <1>2, SubSeqProperties
<1> HIDE DEF piece
<1>4. Len(piece) = q - p /\ \A i \in 1 .. q - p : piece[i] = s[p + i]
  <2>1. q - a + 1 = q - p /\ (a <= q \/ q - p = 0)
    BY <1>1 DEF a
  <2>2. \A i \in 1 .. q - p : a + i - 1 = p + i
    BY <1>1 DEF a
  <2> QED BY <1>1, <1>3, <2>1, <2>2 DEF a
<1> QED BY <1>4 DEF piece, a

\* read() gets what follows, as much as fits or is there.
LEMMA ReadReply ==
  ASSUME TypeInv, OffsetInv, ~ReplyBroken, NEW c \in Conns, ReplyFacts(c), Read(c)
  PROVE  ReplyFacts(c)'
<1>1. /\ pc[c] = "read" /\ pc'[c] = "send" /\ log' = log /\ pos' = Smaller(pos + nbyte[c], Len(log))
      /\ chunk'[c] = SubSeq(log, pos + 1, pos') /\ got'[c] = got[c] /\ due'[c] = due[c]
      /\ iter'[c] = iter[c]
      /\ answered'[c] = answered[c] /\ size'[c] = size[c] /\ nbyte'[c] = nbyte[c]
  BY DEF Read, Goto, OffsetInv, TypeInv, TypeOK
<1>2. /\ size[c] \in Nat /\ nbyte[c] \in Nat \ {0} /\ iter[c] \in Nat \ {0}
      /\ log \in Seq(Units) /\ Len(log) \in Nat /\ pos \in 0 .. Len(log)
  <2>1. /\ size[c] \in Nat /\ nbyte[c] \in Nat /\ iter[c] \in Nat
        /\ log \in Seq(Units) /\ pos \in 0 .. Len(log)
    BY DEF TypeInv, TypeOK, OffsetInv
  <2>2. nbyte[c] > 0 /\ iter[c] > 0
    BY <1>1 DEF TypeInv, ConnFacts
  <2> QED BY <2>1, <2>2, LenProperties
<1>3. /\ due[c] <= Len(log) /\ ~answered[c] /\ due[c] > 0
      /\ due[c] <= size[c] /\ size[c] <= Len(log)
      /\ Begins(got[c], log) /\ pos = Len(got[c]) /\ Covers(c, pos, iter[c])
  BY <1>1 DEF ReplyFacts, Pending, Sized, Replying
<1>4. pos' \in pos .. Len(log) /\ (pos' = pos + nbyte[c] \/ pos' = Len(log))
  BY <1>1, <1>2 DEF Smaller
<1>5. ChunkFollows(c)'
  <2> DEFINE piece == SubSeq(log, pos + 1, pos')
  <2>2. /\ Len(piece) = pos' - pos
        /\ \A i \in 1 .. pos' - pos : piece[i] = log[pos + i]
    BY <1>2, <1>4, PieceOf
  <2> HIDE DEF piece
  <2>3. chunk'[c] = piece
    BY <1>1 DEF piece
  <2>4. pos' = pos + Len(piece) /\ pos' <= Len(log)
    <3>1. pos \in Int /\ pos' \in Int /\ pos' <= Len(log)
      BY <1>2, <1>4
    <3>2. \A p \in Int, q \in Int : q = p + (q - p)
      OBVIOUS
    <3> QED BY <2>2, <3>1, <3>2
  <2>5. \A i \in 1 .. Len(piece) : piece[i] = log[pos + i]
    BY <2>2
  <2> QED BY <1>1, <1>3, <2>3, <2>4, <2>5 DEF ChunkFollows
<1>6. Covers(c, pos, iter[c] - 1)'
  <2> DEFINE n == iter[c] * nbyte[c]
             m == (iter[c] - 1) * nbyte[c]
  <2>1. n \in Nat /\ m \in Nat /\ n = nbyte[c] + m
    BY <1>2, OneReadLess
  <2>2. pos >= size[c] \/ pos + n >= size[c]
    BY <1>3 DEF Covers
  <2> HIDE DEF n, m
  <2>3. pos' >= size[c] \/ pos' + m >= size[c]
    <3>1. pos \in Nat /\ nbyte[c] \in Nat /\ size[c] \in Nat /\ Len(log) \in Nat
      BY <1>2
    <3>2. CASE pos' = pos + nbyte[c]
      BY <2>1, <2>2, <3>1, <3>2
    <3>3. CASE pos' = Len(log)
      BY <1>3, <3>1, <3>3
    <3> QED BY <1>4, <3>2, <3>3
  <2> QED BY <1>1, <2>3 DEF Covers, m
<1> QED BY <1>1, <1>3, <1>5, <1>6 DEF ReplyFacts, Replying

\* send() hands it on, and the last piece brings the reply to the size fstat() saw.
LEMMA SendReply ==
  ASSUME TypeInv, NEW c \in Conns, ReplyFacts(c), Send(c)
  PROVE  ReplyFacts(c)'
<1>1. /\ pc[c] = "send" /\ log' = log /\ pos' = pos /\ due'[c] = due[c]
      /\ got'[c] = got[c] \o chunk[c] /\ iter'[c] = iter[c] - 1
      /\ pc'[c] = (IF LastChunk(c) THEN "toEnd" ELSE "read")
      /\ answered'[c] = answered[c] /\ size'[c] = size[c] /\ nbyte'[c] = nbyte[c]
  BY DEF Send, Goto, fileVars, TypeInv, TypeOK
<1>2. /\ size[c] \in Nat /\ nbyte[c] \in Nat \ {0} /\ iter[c] \in Nat \ {0}
      /\ log \in Seq(Units) /\ got[c] \in Seq(Units) /\ chunk[c] \in Seq(Units)
      /\ Len(log) \in Nat /\ Len(got[c]) \in Nat /\ Len(chunk[c]) \in Nat
  <2>1. /\ size[c] \in Nat /\ nbyte[c] \in Nat /\ iter[c] \in Nat
        /\ log \in Seq(Units) /\ got[c] \in Seq(Units) /\ chunk[c] \in Seq(Units)
    BY DEF TypeInv, TypeOK
  <2>2. nbyte[c] > 0 /\ iter[c] > 0
    BY <1>1 DEF TypeInv, ConnFacts
  <2> QED BY <2>1, <2>2, LenProperties
<1>3. /\ due[c] <= Len(log) /\ ~answered[c] /\ due[c] > 0
      /\ due[c] <= size[c] /\ size[c] <= Len(log)
      /\ Begins(got[c], log) /\ ChunkFollows(c) /\ Covers(c, pos, iter[c] - 1)
  BY <1>1 DEF ReplyFacts, Pending, Sized, Replying
<1> DEFINE reply == got[c] \o chunk[c]
           m == Len(got[c])
           n == Len(chunk[c])
<1>4. /\ Len(reply) = m + n
      /\ \A i \in 1 .. m + n : reply[i] = IF i <= m THEN got[c][i] ELSE chunk[c][i - m]
  BY <1>2, ConcatProperties
<1>k. /\ m \in Nat /\ n \in Nat
      /\ pos = m + n /\ pos <= Len(log)
      /\ \A i \in 1 .. n : chunk[c][i] = log[m + i]
      /\ \A i \in 1 .. m : got[c][i] = log[i]
  BY <1>2, <1>3 DEF ChunkFollows, Begins
<1> HIDE DEF reply, m, n
<1>5. pos = Len(reply) /\ pos \in Nat
  BY <1>4, <1>k
<1>6. Begins(reply, log)
  <2>1. ASSUME NEW i \in 1 .. m + n PROVE reply[i] = log[i]
    <3>1. CASE i <= m
      <4>1. i \in 1 .. m
        BY <1>k, <3>1
      <4> QED BY <1>4, <1>k, <3>1, <4>1
    <3>2. CASE ~(i <= m)
      <4>1. i - m \in 1 .. n /\ m + (i - m) = i
        BY <1>k, <3>2
      <4>2. chunk[c][i - m] = log[i]
        BY <1>k, <4>1
      <4> QED BY <1>4, <3>2, <4>2
    <3> QED BY <3>1, <3>2
  <2>2. Len(reply) <= Len(log) /\ \A i \in 1 .. Len(reply) : reply[i] = log[i]
    BY <1>4, <1>5, <1>k, <2>1
  <2> QED BY <2>2 DEF Begins
<1>7. CASE LastChunk(c)
  <2>1. iter[c] - 1 = 0
    BY <1>2, <1>7 DEF LastChunk
  <2>2. pos >= size[c]
    <3>1. 0 * nbyte[c] = 0 /\ pos + 0 = pos
      BY <1>2, <1>5
    <3>2. pos >= size[c] \/ pos + 0 * nbyte[c] >= size[c]
      BY <1>3, <2>1 DEF Covers
    <3> QED BY <3>1, <3>2
  <2>3. pc'[c] = "toEnd" /\ got'[c] = reply
    BY <1>1, <1>7 DEF reply
  <2>4. Len(reply) >= size[c]
    BY <1>5, <2>2
  <2> QED BY <1>1, <1>3, <1>6, <2>3, <2>4 DEF ReplyFacts
<1>8. CASE ~LastChunk(c)
  <2>1. pc'[c] = "read" /\ got'[c] = reply
    BY <1>1, <1>8 DEF reply
  <2>2. Covers(c, pos, iter[c])'
    BY <1>1, <1>3 DEF Covers
  <2> QED BY <1>1, <1>3, <1>5, <1>6, <2>1, <2>2 DEF ReplyFacts
<1> QED BY <1>7, <1>8

\* Every step of c itself keeps its facts.
LEMMA OwnReply ==
  ASSUME TypeInv, OffsetInv, ~ReplyBroken, ~ReplyBroken',
         NEW c \in Conns, ReplyFacts(c), ConnStep(c)
  PROVE  ReplyFacts(c)'
<1>ty. /\ TypeOK /\ pc \in [Conns -> PCs] /\ exit \in [Conns -> Exits]
       /\ answered \in [Conns -> BOOLEAN]
       /\ size \in [Conns -> Nat] /\ due \in [Conns -> Nat] /\ log \in Seq(Units)
       /\ Len(log) \in Nat
  BY LenProperties DEF TypeInv, TypeOK
<1>lg. LogGrows
  BY <1>ty, ConnLogGrows
<1>1. CASE Rewind(c)
  BY <1>1, RewindReply
<1>2. CASE Read(c)
  BY <1>2, ReadReply
<1>3. CASE Send(c)
  BY <1>3, SendReply
<1>4. CASE Write(c)
  <2>1. /\ pc'[c] = "lockStat" /\ answered'[c] = FALSE /\ due'[c] = Len(log')
        /\ rx[c] \in Seq(Units) /\ Len(rx[c]) \in Nat \ {0} /\ WriteFile(rx[c])
    BY <1>4, LenProperties DEF Write, Goto, TypeInv, TypeOK, ConnFacts
  <2>2. Len(log') = Len(log) + Len(rx[c])
    BY <1>ty, <2>1, WriteGrowsLog
  <2>3. due'[c] > 0 /\ due'[c] <= Len(log')
    BY <1>ty, <2>1, <2>2
  <2> QED BY <2>1, <2>3 DEF ReplyFacts, Sized, Replying
<1>5. CASE Stat(c)
  <2>1. /\ pc[c] = "stat" /\ pc'[c] = "allocReply" /\ log' = log /\ size'[c] = Len(log)
        /\ due'[c] = due[c] /\ answered'[c] = answered[c] /\ got'[c] = got[c]
    BY <1>5 DEF Stat, Goto, fileVars, OffsetInv, TypeInv, TypeOK
  <2>2. due[c] <= Len(log) /\ ~answered[c] /\ due[c] > 0
    BY <2>1 DEF ReplyFacts, Pending
  <2> QED BY <1>ty, <2>1, <2>2 DEF ReplyFacts, Replying
<1>6. CASE ToEnd(c)
  <2>1. /\ pc[c] = "toEnd" /\ pc'[c] = "alloc" /\ log' = log /\ size'[c] = size[c]
        /\ due'[c] = due[c] /\ got'[c] = got[c]
    BY <1>6 DEF ToEnd, Goto, TypeInv, TypeOK
  <2>2. /\ due[c] <= Len(log) /\ due[c] <= size[c] /\ Len(got[c]) >= size[c]
        /\ Begins(got[c], log)
    BY <2>1 DEF ReplyFacts, Sized, Replying
  <2>3. due[c] <= Len(got[c])
    <3>1. Len(got[c]) \in Nat /\ due[c] \in Nat /\ size[c] \in Nat
      BY <1>ty, LenProperties DEF TypeOK
    <3> QED BY <2>2, <3>1
  <2> QED BY <2>1, <2>2, <2>3 DEF ReplyFacts, Pending, Sized, Replying
<1>7. CASE AllocReply(c) \/ AllocReplyFails(c) \/ Lock(c) \/ SendKills(c)
  <2>1. /\ log' = log /\ pos' = pos /\ size' = size /\ due' = due /\ answered' = answered
        /\ got' = got /\ iter' = iter /\ chunk' = chunk
    BY <1>7 DEF AllocReply, AllocReplyFails, Lock, SendKills, replyVars, fileVars
  <2>2. \/ pc'[c] \notin Pending
        \/ pc[c] = "lockStat" /\ pc'[c] = "stat"
        \/ pc[c] \in Sized /\ pc'[c] \in {"allocReply", "lockReply", "rewind"}
        \/ pc'[c] = pc[c] /\ nbyte' = nbyte
    BY <1>7, <1>ty DEF AllocReply, AllocReplyFails, Lock, SendKills, Goto, Leave, Pending, Sized,
       Replying, replyVars
  <2>3. CASE pc'[c] \notin Pending
    BY <1>ty, <1>lg, <2>1, <2>3, QuietReply DEF Quiet
  <2>4. CASE pc[c] = "lockStat" /\ pc'[c] = "stat"
    BY <2>1, <2>4 DEF ReplyFacts, Pending, Sized, Replying
  <2>5. CASE pc[c] \in Sized /\ pc'[c] \in {"allocReply", "lockReply", "rewind"}
    BY <2>1, <2>5 DEF ReplyFacts, Pending, Sized, Replying
  <2>6. CASE pc'[c] = pc[c] /\ nbyte' = nbyte
    BY <2>1, <2>6 DEF ReplyFacts, Covers, ChunkFollows
  <2> QED BY <2>2, <2>3, <2>4, <2>5, <2>6
<1>8. CASE SendFails(c) \/ ToEndFails(c)
  <2>1. exit'[c] \in {"send", "toEnd"}
    BY <1>8, <1>ty DEF SendFails, ToEndFails, FailsLocked, Leave
  <2> QED BY <2>1 DEF ReplyBroken
<1>9. CASE ~(\/ Rewind(c) \/ Read(c) \/ Send(c) \/ Write(c) \/ Stat(c) \/ ToEnd(c) \/ AllocReply(c)
             \/ AllocReplyFails(c) \/ Lock(c) \/ SendKills(c) \/ SendFails(c) \/ ToEndFails(c))
  <2>1. /\ got'[c] = got[c] /\ answered'[c] = answered[c] /\ due'[c] = due[c]
    BY <1>9 DEF replyVars, fileVars, ConnStep, Alloc, AllocFails, Recv, RecvEof, WriteFails,
       StatFails, FailsLocked, RewindFails, SetDone, Cleanup
  <2>2. pc'[c] \notin Pending
    BY <1>9, <1>ty DEF Goto, Leave, ConnStep, Alloc, AllocFails, Recv, RecvEof, WriteFails,
       StatFails, FailsLocked, RewindFails, SetDone, Cleanup, Pending, Sized, Replying
  <2> QED BY <1>ty, <1>lg, <2>1, <2>2, QuietReply DEF Quiet
<1> QED BY <1>1, <1>2, <1>3, <1>4, <1>5, <1>6, <1>7, <1>8, <1>9

\* A thread that leaves in the middle of a reply has left.
LEMMA BrokenStays ==
  ASSUME TypeInv, ReplyBroken, [Next]_vars
  PROVE  ReplyBroken'
<1>1. ASSUME NEW c \in Conns, ConnStep(c) PROVE ReplyBroken'
  BY <1>1, ReplyBrokenStable
<1>2. ASSUME NEW c \in Conns, ClientStep(c) PROVE ReplyBroken'
  BY <1>2 DEF ClientStep, ClientSend, ClientTurns, ReplyBroken
<1>3. ASSUME NEW t \in Ticks, TimerFires(t) \/ TimerStep(t) PROVE ReplyBroken'
  BY <1>3 DEF TimerStep, TimerFires, LockStamp, WriteStamp, WriteStampFails, ReplyBroken
<1>4. CASE UNCHANGED vars
  BY <1>4 DEF vars, ReplyBroken
<1> QED BY <1>1, <1>2, <1>3, <1>4 DEF Next

\* A timer thread appends at most, and not while a reply is under way.
LEMMA TimerReply ==
  ASSUME TypeInv, LockDiscipline, NEW t \in Ticks, TimerFires(t) \/ TimerStep(t), NEW d \in Conns
  PROVE  Undisturbed(d)
<1>ty. TypeOK
  BY DEF TypeInv
<1>1. UNCHANGED <<pc, replyVars, due>>
  BY DEF TimerStep, TimerFires, LockStamp, WriteStamp, WriteStampFails, fileVars
<1>2. CASE TimerFires(t) \/ LockStamp(t)
  <2>1. UNCHANGED <<pos, log>>
    BY <1>2 DEF TimerFires, LockStamp, fileVars
  <2> QED BY <1>ty, <1>1, <2>1, SameLogGrows DEF Undisturbed, replyVars
<1>3. CASE WriteStamp(t) \/ WriteStampFails(t)
  <2>1. PICK s \in Seq(Units) : WriteFile(s)
    BY <1>3, StampWrites
  <2>2. pc[d] \notin Replying
    BY <1>3, WriterIsAlone DEF WriteStamp, WriteStampFails
  <2>3. LogGrows
    BY <1>ty, <2>1, WriteGrowsLog
  <2> QED BY <1>1, <2>2, <2>3 DEF Undisturbed, replyVars
<1> QED BY <1>2, <1>3 DEF TimerStep

\* Every step keeps the replies.
LEMMA ReplyStep ==
  ASSUME TypeInv, OffsetInv, LockDiscipline, ReplyInv, [Next]_vars
  PROVE  ReplyInv'
<1> SUFFICES ASSUME ~ReplyBroken', NEW d \in Conns PROVE ReplyFacts(d)'
  BY DEF ReplyInv
<1>ty. TypeOK /\ ~ReplyBroken /\ ReplyFacts(d)
  BY BrokenStays DEF TypeInv, ReplyInv
<1>1. ASSUME NEW c \in Conns, ConnStep(c) PROVE ReplyFacts(d)'
  <2>1. CASE c = d
    BY <1>ty, <1>1, <2>1, OwnReply
  <2>2. CASE c # d
    BY <1>ty, <1>1, <2>2, OthersReply, UndisturbedReply
  <2> QED BY <2>1, <2>2
<1>2. ASSUME NEW c \in Conns, ClientStep(c) PROVE ReplyFacts(d)'
  <2>1. UNCHANGED <<pc, replyVars, fileVars>>
    BY <1>2 DEF ClientStep, ClientSend, ClientTurns
  <2>2. Undisturbed(d)
    BY <1>ty, <2>1, SameLogGrows DEF Undisturbed, replyVars, fileVars
  <2> QED BY <1>ty, <2>2, UndisturbedReply
<1>3. ASSUME NEW t \in Ticks, TimerFires(t) \/ TimerStep(t) PROVE ReplyFacts(d)'
  BY <1>ty, <1>3, TimerReply, UndisturbedReply
<1>4. CASE UNCHANGED vars
  <2>1. Undisturbed(d)
    BY <1>ty, <1>4, SameLogGrows DEF Undisturbed, vars, replyVars, fileVars
  <2> QED BY <1>ty, <2>1, UndisturbedReply
<1> QED BY <1>1, <1>2, <1>3, <1>4 DEF Next

\* The replies hold in every reachable state.
LEMMA ReplyInvariant == Spec => []ReplyInv
<1>1. Init => ReplyInv
  <2> SUFFICES ASSUME Init, NEW c \in Conns PROVE ReplyFacts(c)
    BY DEF ReplyInv
  <2>1. /\ pc[c] = "alloc" /\ answered[c] = FALSE /\ due[c] = 0 /\ log = <<>>
    BY DEF Init
  <2>2. Len(log) = 0
    BY <2>1, EmptySeq
  <2> QED BY <2>1, <2>2 DEF ReplyFacts, Pending, Sized, Replying
<1> QED
  BY <1>1, ReplyStep, TypeInvariant, OffsetInvariant, MutexHeldInside, PTL DEF Spec

\* A finished reply is the payload from its first byte on, at least up to the end of
\* the client's own packet (main.c:499-570), whatever other threads appended between
\* fstat() and the reads and however small the reply buffer had to be, until a reply is
\* given up half way.
THEOREM RepliesComplete == Spec => []ReplyComplete
<1>1. TypeInv /\ ReplyInv => ReplyComplete
  <2> SUFFICES ASSUME TypeInv, ReplyInv, NEW c \in Conns, answered[c], ~ReplyBroken
               PROVE  /\ due[c] <= Len(got[c])
                      /\ Len(got[c]) <= Len(log)
                      /\ got[c] = SubSeq(log, 1, Len(got[c]))
    BY DEF ReplyComplete
  <2>1. due[c] <= Len(got[c]) /\ Begins(got[c], log)
    BY DEF ReplyInv, ReplyFacts
  <2>2. /\ got[c] \in Seq(Units) /\ log \in Seq(Units)
        /\ Len(got[c]) \in Nat /\ Len(log) \in Nat
    BY LenProperties DEF TypeInv, TypeOK
  <2> DEFINE n == Len(got[c])
             front == SubSeq(log, 1, n)
  <2>3. n \in Nat /\ n <= Len(log) /\ \A i \in 1 .. n : got[c][i] = log[i]
    BY <2>1, <2>2 DEF Begins
  <2>4. got[c] = front
    <3> HIDE DEF n
    <3>1. \A i \in 1 .. n : log[i] \in Units
      BY <2>2, <2>3, ElementOfSeq
    <3>2. front \in Seq(Units) /\ Len(front) = n /\ \A i \in 1 .. n : front[i] = log[i]
      <4>1. 0 \in 0 .. Len(log) /\ n \in 0 .. Len(log) /\ n - 0 = n
        BY <2>2, <2>3
      <4>2. /\ Len(SubSeq(log, 0 + 1, n)) = n - 0
            /\ \A i \in 1 .. n - 0 : SubSeq(log, 0 + 1, n)[i] = log[0 + i]
        BY <2>2, <4>1, PieceOf
      <4>3. front \in Seq(Units)
        BY <2>3, <3>1, SubSeqProperties
      <4> QED BY <2>3, <4>1, <4>2, <4>3
    <3> HIDE DEF front
    <3>3. Len(got[c]) = n
      BY DEF n
    <3> QED BY <2>2, <2>3, <3>2, <3>3, SeqEqual
  <2> QED BY <2>1, <2>3, <2>4
<1> QED BY <1>1, TypeInvariant, ReplyInvariant, PTL

-----------------------------------------------------------------------------
(***************************************************************************)
(* The promise to the clients.  write() of a packet is AcceptPacket,       *)
(* write() of a timestamp AddTimestamp, lseek() to the end ReturnPayload;  *)
(* every other step of a thread leaves the log and the answers as they are.*)
(***************************************************************************)

Answer == [c \in Conns |-> IF answered[c] THEN got[c] ELSE <<>>]

\* A record put behind the log is what PayloadLog asks of a step that adds one.
LEMMA RecordAdded ==
  ASSUME file \in Seq(Units), NEW w, NEW s, Record(w, s), AddRecord(s)
  PROVE  Payload!AddsRecord(w) /\ Len(file') > Len(file)
<1> DEFINE g == file \o s
           m == Len(file)
           n == Len(s)
<1>1. /\ m \in Nat /\ n \in Nat \ {0} /\ s \in Seq(Units)
      /\ s[n].val = "nl"
      /\ \A i \in 1 .. n : s[i].from = w /\ (i > 1 => s[i].seq = s[i - 1].seq + 1)
  BY LenProperties DEF Record
<1>2. /\ Len(g) = m + n
      /\ \A i \in 1 .. m + n : g[i] = IF i <= m THEN file[i] ELSE s[i - m]
  BY <1>1, ConcatProperties
<1>3. file' = g
  BY DEF AddRecord
<1> HIDE DEF g, m, n
<1>4. g[m + n].val = "nl"
  <2>1. m + n \in 1 .. m + n /\ ~(m + n <= m) /\ (m + n) - m = n
    BY <1>1
  <2> QED BY <1>1, <1>2, <2>1
<1>5. ASSUME NEW i \in m + 1 .. m + n
      PROVE  g[i].from = w /\ (i > m + 1 => g[i].seq = g[i - 1].seq + 1)
  <2>1. i - m \in 1 .. n /\ g[i] = s[i - m]
    BY <1>1, <1>2
  <2>2. ASSUME i > m + 1 PROVE g[i].seq = g[i - 1].seq + 1
    <3>1. i - m > 1 /\ (i - m) - 1 = (i - 1) - m
      BY <1>1, <2>2
    <3>2. g[i - 1] = s[(i - 1) - m]
      BY <1>1, <1>2, <2>2
    <3>3. s[i - m].seq = s[(i - m) - 1].seq + 1
      BY <1>1, <2>1, <3>1
    <3> QED BY <2>1, <3>1, <3>2, <3>3
  <2> QED BY <1>1, <2>1, <2>2
<1>6. Payload!IsPrefixOf(file, g)
  <2>1. Len(file) = m
    BY DEF m
  <2>2. m <= m + n /\ \A i \in 1 .. m : g[i] = file[i]
    <3>1. m <= m + n
      BY <1>1
    <3>2. ASSUME NEW i \in 1 .. m PROVE i \in 1 .. m + n /\ i <= m
      BY <1>1
    <3> QED BY <1>2, <3>1, <3>2
  <2>3. Len(file) <= Len(g)
    BY <1>2, <2>1, <2>2
  <2>4. \A i \in 1 .. Len(file) : g[i] = file[i]
    BY <2>1, <2>2
  <2> QED BY <2>3, <2>4 DEF Payload!IsPrefixOf
<1>7. Len(g) > m
  BY <1>1, <1>2
<1>8. g[Len(g)].val = "nl"
  BY <1>2, <1>4
<1>9. \A i \in m + 1 .. Len(g) : g[i].from = w /\ (i > m + 1 => g[i].seq = g[i - 1].seq + 1)
  BY <1>2, <1>5
<1> QED BY <1>3, <1>6, <1>7, <1>8, <1>9 DEF Payload!AddsRecord, m

\* The steps that change neither the file nor what was answered.
LEMMA QuietStep ==
  ASSUME TypeInv, ReplyInv, ~Torn, ~Torn', NEW c \in Conns, ConnStep(c), ~Write(c), ~ToEnd(c)
  PROVE  UNCHANGED <<file, due, answered, Answer>>
<1>ty. /\ got \in [Conns -> Seq(Units)] /\ exit \in [Conns -> Exits] /\ ReplyFacts(c)
  BY DEF TypeInv, TypeOK, ReplyInv, Torn
<1>1. ~WriteFails(c) /\ ~SendFails(c) /\ ~ToEndFails(c)
  <2>1. \/ WriteFails(c) \/ SendFails(c) \/ ToEndFails(c)
        => exit'[c] \in {"write", "send", "toEnd"}
    BY <1>ty DEF WriteFails, SendFails, ToEndFails, FailsLocked, Leave
  <2> QED BY <2>1 DEF Torn, ReplyBroken
<1>2. UNCHANGED <<file, due, answered>>
  BY <1>1 DEF fileVars, replyVars, ConnStep, Alloc, AllocFails, Recv, RecvEof, Lock, Stat,
     StatFails, FailsLocked, AllocReply, AllocReplyFails, Rewind, RewindFails, Read, Send,
     SendKills, SetDone, Cleanup
<1>3. got' = got \/ (pc[c] \in {"rewind", "send"} /\ \A d \in Conns \ {c} : got'[d] = got[d])
  BY <1>ty, <1>1 DEF replyVars, ConnStep, Alloc, AllocFails, Recv, RecvEof, Lock, Stat,
     StatFails, FailsLocked, AllocReply, AllocReplyFails, Rewind, RewindFails, Read, Send,
     SendKills, SetDone, Cleanup
<1>4. pc[c] \in {"rewind", "send"} => ~answered[c]
  BY <1>ty DEF ReplyFacts, Pending, Sized, Replying
<1>5. \A d \in Conns : answered[d] => got'[d] = got[d]
  BY <1>3, <1>4
<1>6. Answer' = Answer
  BY <1>2, <1>5 DEF Answer
<1> QED BY <1>2, <1>6

\* Every step of the threads is a step of PayloadLog or changes nothing in it.
LEMMA PayloadStep ==
  ASSUME TypeInv, OffsetInv, LockDiscipline, RxInv, ReplyInv, [Next]_vars
  PROVE  [Payload!Next]_(Payload!vars)
<1>1. CASE Torn'
  BY <1>1 DEF Payload!Next
<1>2. CASE ~Torn'
  <2>ty. /\ TypeOK /\ ~Torn /\ ~ReplyBroken /\ file \in Seq(Units) /\ file = log
         /\ Torn' = Torn
         /\ answered \in [Conns -> BOOLEAN] /\ due \in [Conns -> Nat]
    BY <1>2, TornStable DEF TypeInv, TypeOK, Torn, OffsetInv
  <2>st. UNCHANGED <<file, due, answered, Answer>> => UNCHANGED Payload!vars
    BY <2>ty DEF Payload!vars, Answer
  <2>1. ASSUME NEW c \in Conns, Write(c) PROVE Payload!AcceptPacket(c)
    <3>1. pc[c] = "write" /\ WriteFile(rx[c])
      BY <2>1 DEF Write
    <3>2. Record(c, rx[c]) /\ AddRecord(rx[c])
      BY <2>ty, <3>1, PacketIsRecord, WriteAddsRecord DEF TypeOK
    <3>3. Payload!AddsRecord(c)
      BY <2>ty, <3>2, RecordAdded
    <3>4. due' = [due EXCEPT ![c] = Len(file')]
      BY <2>1, <3>2 DEF Write, AddRecord
    <3>5. answered' = [answered EXCEPT ![c] = FALSE] /\ got' = got
      BY <2>1 DEF Write
    <3>6. Answer' = [Answer EXCEPT ![c] = <<>>]
      BY <2>ty, <3>5 DEF Answer
    <3> QED BY <3>3, <3>4, <3>5, <3>6 DEF Payload!AcceptPacket, Answer
  <2>2. ASSUME NEW c \in Conns, ToEnd(c) PROVE Payload!ReturnPayload(c)
    <3>1. /\ pc[c] = "toEnd" /\ UNCHANGED <<file, log, due, got, size>>
          /\ answered' = [answered EXCEPT ![c] = TRUE]
      BY <2>2 DEF ToEnd
    <3>2. /\ ~answered[c] /\ due[c] > 0 /\ due[c] <= size[c] /\ Len(got[c]) >= size[c]
          /\ Begins(got[c], file)
      BY <2>ty, <3>1 DEF ReplyInv, ReplyFacts, Pending, Sized, Replying
    <3>3. Len(got[c]) >= due[c]
      <4>1. Len(got[c]) \in Nat /\ due[c] \in Nat /\ size[c] \in Nat
        BY <2>ty, LenProperties DEF TypeOK
      <4> QED BY <3>2, <4>1
    <3>4. Payload!IsPrefixOf(got[c], file)
      BY <3>2 DEF Begins, Payload!IsPrefixOf
    <3>5. Answer'[c] = got[c] /\ Answer' = [Answer EXCEPT ![c] = Answer'[c]]
      BY <2>ty, <3>1 DEF Answer
    <3> QED BY <3>1, <3>2, <3>3, <3>4, <3>5 DEF Payload!ReturnPayload, Answer
  <2>3. ASSUME NEW c \in Conns, ConnStep(c), ~Write(c), ~ToEnd(c) PROVE UNCHANGED Payload!vars
    BY <1>2, <2>ty, <2>st, <2>3, QuietStep
  <2>4. ASSUME NEW c \in Conns, ClientStep(c) PROVE UNCHANGED Payload!vars
    <3>1. UNCHANGED <<replyVars, fileVars>>
      BY <2>4 DEF ClientStep, ClientSend, ClientTurns
    <3> QED BY <2>st, <3>1 DEF replyVars, fileVars, Answer
  <2>5. ASSUME NEW t \in Ticks, TimerFires(t) \/ TimerStep(t)
        PROVE  Payload!AddTimestamp(t) \/ UNCHANGED Payload!vars
    <3>1. UNCHANGED <<due, answered, got>>
      BY <2>5 DEF TimerStep, TimerFires, LockStamp, WriteStamp, WriteStampFails, replyVars, fileVars
    <3>2. Answer' = Answer
      BY <3>1 DEF Answer
    <3>3. CASE TimerFires(t) \/ LockStamp(t) \/ WriteStampFails(t)
      <4>1. file' = file
        BY <1>2, <2>ty, <3>3, StampUnwritten DEF TimerFires, LockStamp, fileVars
      <4> QED BY <2>st, <3>1, <3>2, <4>1
    <3>4. CASE WriteStamp(t)
      <4>1. WriteFile(Stamp(t)) /\ tpc[t] = "stamp"
        BY <3>4 DEF WriteStamp
      <4>2. Record(t, Stamp(t)) /\ Stamp(t) \in Seq(Units)
        BY StampIsRecord, StampType
      <4>3. Payload!AddsRecord(t)
        BY <2>ty, <4>1, <4>2, WriteAddsRecord, RecordAdded
      <4> QED BY <3>1, <3>2, <4>3 DEF Payload!AddTimestamp, Answer
    <3> QED BY <2>5, <3>3, <3>4 DEF TimerStep
  <2>6. CASE UNCHANGED vars
    <3>1. UNCHANGED <<file, due, answered, Answer>>
      BY <2>6 DEF vars, replyVars, fileVars, Answer
    <3> QED BY <2>st, <3>1
  <2>7. ASSUME NEW c \in Conns, Payload!AcceptPacket(c) \/ Payload!ReturnPayload(c)
        PROVE  Payload!Next
    BY <1>2, <2>ty, <2>7 DEF Payload!Next
  <2>8. ASSUME NEW t \in Ticks, Payload!AddTimestamp(t) PROVE Payload!Next
    BY <1>2, <2>ty, <2>8 DEF Payload!Next
  <2> QED BY <2>1, <2>2, <2>3, <2>4, <2>5, <2>6, <2>7, <2>8 DEF Next
<1> QED BY <1>1, <1>2

\* The connection threads and the timer keep the promise of PayloadLog: each packet and
\* timestamp becomes one whole record of one log (main.c:477-479, 376-378), each finished
\* reply is a beginning of it that has the client's own packet (main.c:533-570).
THEOREM ThreadsKeepPayloadLog == Spec => ImplementsPayloadLog
<1>1. Init => Payload!Init
  <2> SUFFICES ASSUME Init PROVE Payload!Init
    OBVIOUS
  <2>1. /\ file = <<>> /\ due = [c \in Conns |-> 0] /\ answered = [c \in Conns |-> FALSE]
        /\ exit = [c \in Conns |-> "none"] /\ tpc = [t \in Ticks |-> "idle"]
    BY Zenon DEF Init
  <2>2. Answer = [c \in Conns |-> <<>>]
    BY <2>1 DEF Answer
  <2>3. Torn = FALSE
    BY <2>1 DEF Torn, ReplyBroken
  <2> QED BY <2>1, <2>2, <2>3 DEF Payload!Init, Answer
<1> QED
  BY <1>1, PayloadStep, TypeInvariant, OffsetInvariant, MutexHeldInside, RxInvariant,
     ReplyInvariant, PTL DEF Spec, ImplementsPayloadLog, Payload!Spec

-----------------------------------------------------------------------------
(***************************************************************************)
(* The receive buffer.                                                     *)
(***************************************************************************)

\* recv() never writes behind the block malloc_wrapper() returned
\* (main.c:433-462): the room offered and the bytes already there never exceed
\* its size, over every sequence of partial receives and reallocations.
THEOREM ReceiveInBounds == Spec => []BufferInBounds
<1>1. Init => BufferInBounds
  <2>1. Len(<<>>) + 0 <= 0
    OBVIOUS
  <2>2. Init => /\ rx = [c \in Conns |-> <<>>]
                /\ avail = [c \in Conns |-> 0] /\ cap = [c \in Conns |-> 0]
    BY Zenon DEF Init
  <2> QED BY <2>1, <2>2 DEF BufferInBounds
<1>2. TypeInv /\ BufferInBounds /\ [Next]_vars => BufferInBounds'
  <2> SUFFICES ASSUME TypeInv, BufferInBounds, [Next]_vars PROVE BufferInBounds'
    OBVIOUS
  <2>ty. /\ TypeOK
         /\ rx \in [Conns -> Seq(Units)] /\ avail \in [Conns -> Nat] /\ cap \in [Conns -> Nat]
         /\ \A d \in Conns : Len(rx[d]) \in Nat
    BY LenProperties DEF TypeInv, TypeOK
  <2>1. ASSUME NEW c \in Conns, ConnStep(c) PROVE BufferInBounds'
    <3>1. CASE UNCHANGED <<rx, avail, cap>>
      BY <3>1 DEF BufferInBounds
    <3>2. CASE Alloc(c)
      <4>1. rx' = rx /\ cap' = [cap EXCEPT ![c] = Len(rx[c]) + Chunk]
            /\ avail' = [avail EXCEPT ![c] = Chunk]
        BY <3>2 DEF Alloc, RecvSize
      <4> QED BY <2>ty, <4>1, ConstantsAssumption DEF BufferInBounds
    <3>3. CASE Recv(c)
      <4> DEFINE n == Smaller(avail[c], sent[c] - rcvd[c])
                 packet == Packet(c, n)
      <4>1. /\ avail[c] \in Nat \ {0} /\ sent[c] \in Nat /\ rcvd[c] \in Nat
            /\ rcvd[c] < sent[c]
        BY <3>3 DEF Recv, TypeInv, TypeOK, ConnFacts
      <4>2. n \in Nat \ {0} /\ n <= avail[c] /\ rcvd[c] + n <= sent[c]
        BY <4>1 DEF Smaller
      <4>5. /\ rx' = [rx EXCEPT ![c] = packet]
            /\ avail' = [avail EXCEPT ![c] = avail[c] - n]
            /\ cap' = cap
        BY <3>3 DEF Recv, Packet
      <4> HIDE DEF n
      <4>6. Len(packet) = Len(rx[c]) + n
        BY <2>ty, <4>2, PacketType
      <4> HIDE DEF packet
      <4>7. Len(rx[c]) + avail[c] <= cap[c]
        BY DEF BufferInBounds
      <4>8. Len(packet) + (avail[c] - n) <= cap[c]
        BY <2>ty, <4>1, <4>2, <4>6, <4>7
      <4> QED BY <2>ty, <4>5, <4>8 DEF BufferInBounds
    <3>4. CASE Write(c)
      <4>1. /\ rx' = [rx EXCEPT ![c] = <<>>] /\ avail' = [avail EXCEPT ![c] = 0]
            /\ cap' = cap
        BY <3>4 DEF Write
      <4>2. Len(<<>>) + 0 <= cap[c]
        BY <2>ty
      <4> QED BY <2>ty, <4>1, <4>2 DEF BufferInBounds
    <3>5. CASE Cleanup(c)
      <4>1. /\ rx' = [rx EXCEPT ![c] = <<>>] /\ avail' = [avail EXCEPT ![c] = 0]
            /\ cap' = [cap EXCEPT ![c] = 0]
        BY <3>5 DEF Cleanup
      <4>2. Len(<<>>) + 0 <= 0
        OBVIOUS
      <4> QED BY <2>ty, <4>1, <4>2 DEF BufferInBounds
    <3> QED
      BY <2>1, <3>1, <3>2, <3>3, <3>4, <3>5 DEF rxVars, ConnStep, AllocFails, RecvEof, Lock,
         WriteFails, Stat, StatFails, FailsLocked, AllocReply, AllocReplyFails, Rewind, RewindFails,
         Read, Send, SendFails, SendKills, ToEnd, ToEndFails, SetDone
  <2>2. ASSUME NEW c \in Conns, ClientStep(c) PROVE BufferInBounds'
    BY <2>2 DEF ClientStep, ClientSend, ClientTurns, rxVars, BufferInBounds
  <2>3. ASSUME NEW t \in Ticks, TimerFires(t) \/ TimerStep(t) PROVE BufferInBounds'
    BY <2>3 DEF TimerStep, TimerFires, LockStamp, WriteStamp, WriteStampFails, rxVars, BufferInBounds
  <2>4. CASE UNCHANGED vars
    BY <2>4 DEF vars, rxVars, BufferInBounds
  <2> QED BY <2>1, <2>2, <2>3, <2>4 DEF Next
<1> QED BY <1>1, <1>2, TypeInvariant, PTL DEF Spec

-----------------------------------------------------------------------------
(***************************************************************************)
(* The life of a thread, as main() counts on it.                           *)
(***************************************************************************)

\* `done` is set by a thread that has nothing left but to clean up and return.
DoneInv == \A c \in Conns : done[c] => pc[c] \in {"cleanup", "ended"}

Stage == [c \in Conns |-> IF pc[c] = "ended" \/ ~alive THEN "ended"
                          ELSE IF pc[c] = "cleanup" /\ done[c] THEN "returning"
                          ELSE "running"]

\* Every step keeps the threads that have set `done` on their way out.
LEMMA DoneStep ==
  ASSUME TypeOK, DoneInv, [Next]_vars
  PROVE  DoneInv'
<1>ty. pc \in [Conns -> PCs] /\ done \in [Conns -> BOOLEAN]
  BY DEF TypeOK
<1>1. ASSUME NEW c \in Conns, ConnStep(c) PROVE DoneInv'
  <2>1. CASE SetDone(c)
    BY <1>ty, <2>1 DEF DoneInv, SetDone, Goto
  <2>2. CASE ~SetDone(c)
    <3>1. UNCHANGED done
      BY <1>1, <2>2 DEF ConnStep, Alloc, AllocFails, Recv, RecvEof, Lock, Write, WriteFails, Stat,
         StatFails, FailsLocked, AllocReply, AllocReplyFails, Rewind, RewindFails, Read, Send,
         SendFails, SendKills, ToEnd, ToEndFails, Cleanup
    <3>2. /\ \A d \in Conns \ {c} : pc'[d] = pc[d]
          /\ pc[c] \in {"cleanup", "ended"} => pc'[c] \in {"cleanup", "ended"}
      BY <1>1, <1>ty, <2>2 DEF ConnStep, Alloc, AllocFails, Recv, RecvEof, Lock, Write, WriteFails,
         Stat, StatFails, FailsLocked, AllocReply, AllocReplyFails, Rewind, RewindFails, Read, Send,
         SendFails, SendKills, ToEnd, ToEndFails, Cleanup, Goto, Leave
    <3> QED BY <3>1, <3>2 DEF DoneInv
  <2> QED BY <2>1, <2>2
<1>2. ASSUME NEW c \in Conns, ClientStep(c) PROVE DoneInv'
  BY <1>2 DEF ClientStep, ClientSend, ClientTurns, DoneInv
<1>3. ASSUME NEW t \in Ticks, TimerFires(t) \/ TimerStep(t) PROVE DoneInv'
  BY <1>3 DEF TimerStep, TimerFires, LockStamp, WriteStamp, WriteStampFails, DoneInv
<1>4. CASE UNCHANGED vars
  BY <1>4 DEF vars, DoneInv
<1> QED BY <1>1, <1>2, <1>3, <1>4 DEF Next

\* Every step takes at most one thread to the next stage of its life, or ends all.
LEMMA StageStep ==
  ASSUME TypeOK, DoneInv, [Next]_vars
  PROVE  [Life!Next]_(Life!vars)
<1>ty. pc \in [Conns -> PCs] /\ done \in [Conns -> BOOLEAN] /\ alive \in BOOLEAN
  BY DEF TypeOK
<1>st. UNCHANGED <<Stage, done>> => UNCHANGED Life!vars
  BY DEF Life!vars, Stage
<1>1. ASSUME NEW c \in Conns, alive, SetDone(c) PROVE Life!SetDone(c)
  <2>1. /\ pc[c] = "done" /\ ~done[c] /\ alive' = alive
        /\ pc' = [pc EXCEPT ![c] = "cleanup"] /\ done' = [done EXCEPT ![c] = TRUE]
    BY <1>1 DEF SetDone, Goto, DoneInv
  <2>2. Stage[c] = "running" /\ Stage' = [Stage EXCEPT ![c] = "returning"]
    BY <1>1, <1>ty, <2>1 DEF Stage
  <2> QED BY <2>1, <2>2 DEF Life!SetDone, Stage
<1>2. ASSUME NEW c \in Conns, alive, Cleanup(c) PROVE Life!Return(c)
  <2>1. /\ pc[c] = "cleanup" /\ alive' = alive
        /\ pc' = [pc EXCEPT ![c] = "ended"] /\ done' = done
    BY <1>2 DEF Cleanup, Goto
  <2>2. Stage[c] \in {"running", "returning"} /\ Stage' = [Stage EXCEPT ![c] = "ended"]
    BY <1>2, <1>ty, <2>1 DEF Stage
  <2> QED BY <2>1, <2>2 DEF Life!Return, Stage
<1>3. ASSUME NEW c \in Conns, SendKills(c) PROVE Life!Die
  <2>1. ~alive' /\ done' = done
    BY <1>3 DEF SendKills
  <2> QED BY <2>1 DEF Life!Die
<1>4. ASSUME NEW c \in Conns, ConnStep(c), ~SetDone(c), ~Cleanup(c), ~SendKills(c)
      PROVE  UNCHANGED Life!vars
  <2>1. UNCHANGED <<done, alive>>
    BY <1>4 DEF ConnStep, Alloc, AllocFails, Recv, RecvEof, Lock, Write, WriteFails, Stat,
       StatFails, FailsLocked, AllocReply, AllocReplyFails, Rewind, RewindFails, Read, Send,
       SendFails, ToEnd, ToEndFails
  <2>2. \A d \in Conns : (pc[d] \in {"cleanup", "ended"} => pc'[d] = pc[d]) /\
                         (pc'[d] = "ended" => pc[d] = "ended")
    BY <1>4, <1>ty DEF ConnStep, Alloc, AllocFails, Recv, RecvEof, Lock, Write, WriteFails, Stat,
       StatFails, FailsLocked, AllocReply, AllocReplyFails, Rewind, RewindFails, Read, Send,
       SendFails, ToEnd, ToEndFails, Goto, Leave
  <2>3. Stage' = Stage
    BY <2>1, <2>2 DEF Stage, DoneInv
  <2> QED BY <1>st, <2>1, <2>3
<1>5. ASSUME NEW c \in Conns, ClientStep(c) PROVE UNCHANGED Life!vars
  BY <1>5, <1>st DEF ClientStep, ClientSend, ClientTurns, Stage
<1>6. ASSUME NEW t \in Ticks, TimerFires(t) \/ TimerStep(t) PROVE UNCHANGED Life!vars
  BY <1>6, <1>st DEF TimerStep, TimerFires, LockStamp, WriteStamp, WriteStampFails, Stage
<1>7. CASE UNCHANGED vars
  BY <1>7, <1>st DEF vars, Stage
<1>8. ASSUME NEW c \in Conns, ConnStep(c) PROVE [Life!Next]_(Life!vars)
  <2>1. alive
    BY <1>8 DEF ConnStep
  <2> QED BY <1>1, <1>2, <1>3, <1>4, <1>8, <2>1 DEF Life!Next
<1> QED BY <1>5, <1>6, <1>7, <1>8 DEF Next

\* What main() counts on before it joins a thread (main.c:580, 393-395): a connection
\* thread sets `done` at most once, after its last use of the client and of the file, and
\* then has nothing left but cleanup() before it returns.
THEOREM ThreadsReturnOnce == Spec => ImplementsThreadLife
<1>1. Init => DoneInv
  BY DEF Init, DoneInv
<1>2. Init => Life!Init
  <2> SUFFICES ASSUME Init PROVE Life!Init
    OBVIOUS
  <2>1. /\ pc = [c \in Conns |-> "alloc"] /\ done = [c \in Conns |-> FALSE] /\ alive = TRUE
    BY Zenon DEF Init
  <2>2. Stage = [c \in Conns |-> "running"]
    BY <2>1 DEF Stage
  <2> QED BY <2>1, <2>2 DEF Life!Init, Stage
<1> QED BY <1>1, <1>2, DoneStep, StageStep, TypeCorrect, PTL DEF Spec, ImplementsThreadLife, Life!Spec
=============================================================================
