------------------------- MODULE ReplyBufferProofs -------------------------
(***************************************************************************)
(* Proofs about ReplyBuffer for every width of int and every file size.    *)
(***************************************************************************)
EXTENDS ReplyBuffer, TLAPS

\* A remainder by a positive number is one of a ring of that size.
LEMMA ModRange ==
  ASSUME NEW x \in Int, NEW m \in Nat \ {0}
  PROVE  x % m \in 0 .. m - 1
OBVIOUS

\* Division by a positive number, rounded down.
LEMMA DivBounds ==
  ASSUME NEW x \in Nat, NEW m \in Nat \ {0}
  PROVE  /\ x \div m \in Nat
         /\ m * (x \div m) <= x
         /\ x < m * (x \div m) + m
OBVIOUS

\* A number below the ring's size is its own remainder.
LEMMA ModSmall ==
  ASSUME NEW x \in Nat, NEW m \in Nat \ {0}, x < m
  PROVE  x % m = x
OBVIOUS

\* Whatever is stored in an int is one.
LEMMA WrapType == ASSUME NEW x \in Int PROVE Wrap(x) \in CInt
<1> DEFINE m == 2 * Half
<1>1. m \in Nat \ {0} /\ x + Half \in Int
  BY ReplyAssumption
<1>2. (x + Half) % m \in 0 .. m - 1
  BY <1>1, ModRange
<1> QED BY <1>2, ReplyAssumption DEF Wrap, CInt

\* What fits in an int is stored as it is.
LEMMA WrapSmall == ASSUME NEW x \in Nat, x < Half PROVE Wrap(x) = x
<1> DEFINE m == 2 * Half
<1>1. m \in Nat \ {0} /\ x + Half \in Nat /\ x + Half < m
  BY ReplyAssumption
<1>2. (x + Half) % m = x + Half
  BY <1>1, ModSmall
<1> QED BY <1>2, ReplyAssumption DEF Wrap

\* The number of pieces, rounded up, is enough for the whole file, and not more
\* than it has bytes.
LEMMA RoundedUp ==
  ASSUME NEW s \in Nat, NEW b \in Nat \ {0}, b <= s
  PROVE  LET q == (s + b - 1) \div b IN q \in Nat /\ q <= s /\ q * b >= s
<1> DEFINE x == s + b - 1
           q == x \div b
<1>1. x \in Nat
  OBVIOUS
<1> HIDE DEF x
<1>2. q \in Nat /\ b * q <= x /\ x < b * q + b
  BY <1>1, DivBounds
<1> HIDE DEF q
<1>3. q * b >= s
  BY <1>2 DEF x
<1>4. q <= s
  <2> SUFFICES ASSUME q > s PROVE FALSE
    BY <1>2
  <2>1. b * q >= b * (s + 1)
    BY <1>2
  <2>2. b * (s + 1) >= s + b
    <3>1. PICK k \in Nat : b = k + 1
      <4>1. b - 1 \in Nat /\ b = (b - 1) + 1
        OBVIOUS
      <4> QED BY <4>1
    <3>2. k * s >= 0
      BY <3>1
    <3>3. (k + 1) * (s + 1) = k * s + s + k + 1
      BY <3>1
    <3> QED BY <3>1, <3>2, <3>3
  <2> QED BY <1>2, <2>1, <2>2 DEF x
<1> QED BY <1>2, <1>3, <1>4 DEF q, x

(***************************************************************************)
(* The invariant.  While the size fits, n_byte is never above it, and the  *)
(* pieces still to come are enough for what is missing.                    *)
(***************************************************************************)

Fits == size <= MaxTransfer

Sized ==
  /\ pc \in {"stat", "alloc", "rewind"} => got = 0
  /\ pc \in {"alloc", "rewind", "reply"} /\ Fits => n_byte \in 0 .. size
  /\ pc \in {"reply", "replied"} => got <= len /\ size <= len
  /\ pc = "reply" /\ Fits => got >= size \/ got + left * n_byte >= size
  /\ pc = "replied" /\ Fits => got >= size

ReplyInv == TypeOK /\ PiecesPositive /\ Sized

\* The initial state has the invariant.
LEMMA ReplyInit == Init => ReplyInv
BY ReplyAssumption DEF Init, ReplyInv, TypeOK, CInt, PiecesPositive, Sized, Fits

\* So has every state that is reached.
LEMMA ReplyStep == ReplyInv /\ [Next]_vars => ReplyInv'
<1> SUFFICES ASSUME ReplyInv, [Next]_vars PROVE ReplyInv'
  OBVIOUS
<1> USE ReplyAssumption
<1>inv. TypeOK /\ PiecesPositive /\ Sized
  BY DEF ReplyInv
<1>1. CASE Stat
  <2>1. PICK s \in 1 .. MaxSize : size' = s /\ n_byte' = Wrap(s)
    BY <1>1 DEF Stat
  <2>2. n_byte' \in CInt /\ (s < Half => n_byte' = s)
    BY <2>1, WrapType, WrapSmall
  <2>3. TypeOK' /\ PiecesPositive'
    BY <1>1, <1>inv, <2>1, <2>2 DEF Stat, TypeOK, PiecesPositive
  <2>4. Sized'
    BY <1>1, <1>inv, <2>1, <2>2 DEF Stat, Sized, Fits
  <2> QED BY <2>3, <2>4 DEF ReplyInv
<1>2. CASE Alloc
  <2>1. TypeOK' /\ PiecesPositive'
    BY <1>2, <1>inv DEF Alloc, TypeOK, CInt, PiecesPositive
  <2>2. Sized'
    BY <1>2, <1>inv DEF Alloc, Sized, Fits
  <2> QED BY <2>1, <2>2 DEF ReplyInv
<1>3. CASE AllocFails
  <2>1. n_byte' \in CInt /\ (n_byte >= 0 => n_byte' \in 0 .. n_byte)
    BY <1>3, <1>inv DEF AllocFails, TypeOK, CInt
  <2>2. TypeOK' /\ PiecesPositive'
    BY <1>3, <1>inv, <2>1 DEF AllocFails, TypeOK, PiecesPositive
  <2>3. Sized'
    BY <1>3, <1>inv, <2>1 DEF AllocFails, TypeOK, Sized, Fits
  <2> QED BY <2>2, <2>3 DEF ReplyInv
<1>4. CASE Rewind
  <2> DEFINE n == (size + n_byte - 1) \div n_byte
  <2>1. /\ pc = "rewind" /\ pc' = "reply" /\ left' = Wrap(n)
        /\ len' \in size .. MaxSize /\ UNCHANGED <<size, n_byte, got>>
        /\ size \in Nat /\ n_byte \in Nat \ {0} /\ got = 0
    BY <1>4, <1>inv DEF Rewind, Iterations, TypeOK, CInt, PiecesPositive, Sized
  <2>2. n \in Int
    <3>1. size + n_byte - 1 \in Nat
      BY <2>1
    <3> QED BY <2>1, <3>1, DivBounds
  <2>3. Fits => n \in Nat /\ n < Half /\ n * n_byte >= size
    BY <1>inv, <2>1, RoundedUp DEF Sized, Fits
  <2> HIDE DEF n
  <2>4. left' \in CInt /\ (Fits => left' = n)
    BY <2>1, <2>2, <2>3, WrapType, WrapSmall
  <2>5. TypeOK' /\ PiecesPositive'
    BY <1>inv, <2>1, <2>4 DEF TypeOK, PiecesPositive
  <2>6. Sized'
    BY <1>inv, <2>1, <2>3, <2>4 DEF Sized, Fits
  <2> QED BY <2>5, <2>6 DEF ReplyInv
<1>5. CASE Piece
  <2>1. /\ pc = "reply" /\ left > 0 /\ left' = left - 1
        /\ got' = got + Smaller(Smaller(n_byte, MaxTransfer), len - got)
        /\ UNCHANGED <<pc, size, n_byte, len>>
        /\ n_byte \in Nat \ {0} /\ left \in CInt /\ left \in Nat /\ {size, len, got} \subseteq Nat
        /\ got <= len /\ size <= len
    BY <1>5, <1>inv DEF Piece, TypeOK, CInt, PiecesPositive, Sized
  <2>2. got' \in Nat /\ got <= got' /\ got' <= len
    BY <2>1 DEF Smaller
  <2>3. TypeOK' /\ PiecesPositive'
    BY <1>inv, <2>1, <2>2 DEF TypeOK, CInt, PiecesPositive
  <2>4. Fits => got' = len \/ got' = got + n_byte
    BY <1>inv, <2>1 DEF Smaller, Sized, Fits
  <2>5. left' * n_byte = left * n_byte - n_byte
    BY <2>1
  <2>6. ASSUME Fits PROVE got' >= size \/ got' + left' * n_byte >= size
    <3>1. left * n_byte \in Int
      BY <2>1
    <3> QED BY <1>inv, <2>1, <2>2, <2>4, <2>5, <2>6, <3>1 DEF Sized
  <2>7. Sized'
    BY <1>inv, <2>1, <2>2, <2>6 DEF Sized, Fits
  <2> QED BY <2>3, <2>7 DEF ReplyInv
<1>6. CASE Finish
  <2>1. Fits => got >= size
    <3> SUFFICES ASSUME Fits, got + left * n_byte >= size PROVE got >= size
      BY <1>6, <1>inv DEF Finish, Sized
    <3>1. got \in Nat /\ size \in Nat /\ left \in Int /\ left <= 0 /\ n_byte \in Nat
      BY <1>6, <1>inv DEF Finish, TypeOK, CInt, PiecesPositive
    <3>2. PICK k \in Nat : left = -k
      <4>1. -left \in Nat /\ left = -(-left)
        BY <3>1
      <4> QED BY <4>1
    <3>3. left * n_byte = -(k * n_byte) /\ k * n_byte >= 0
      BY <3>1, <3>2
    <3> QED BY <3>1, <3>2, <3>3
  <2>2. TypeOK' /\ PiecesPositive'
    BY <1>6, <1>inv DEF Finish, TypeOK, PiecesPositive
  <2>3. Sized'
    BY <1>6, <1>inv, <2>1 DEF Finish, Sized, Fits
  <2> QED BY <2>2, <2>3 DEF ReplyInv
<1>7. CASE UNCHANGED vars
  BY <1>7, <1>inv DEF vars, ReplyInv, TypeOK, PiecesPositive, Sized, Fits
<1> QED BY <1>1, <1>2, <1>3, <1>4, <1>5, <1>6, <1>7 DEF Next

LEMMA ReplyInvariant == Spec => []ReplyInv
BY ReplyInit, ReplyStep, PTL DEF Spec

\* A finished reply has the whole file that fstat() saw (main.c:508-562), for
\* every width of int, as long as one read() could take it.
THEOREM ReplyIsWhole == Spec => []ReplyCovers
<1>1. ReplyInv => ReplyCovers
  BY DEF ReplyInv, Sized, Fits, ReplyCovers
<1> QED BY ReplyInvariant, <1>1, PTL

\* Whatever the size of the file, read() is asked for a positive number of bytes
\* and the division by n_byte (main.c:541) is defined.
THEOREM PiecesArePositive == Spec => []PiecesPositive
<1>1. ReplyInv => PiecesPositive
  BY DEF ReplyInv
<1> QED BY ReplyInvariant, <1>1, PTL

\* Both ints stay in their range by truncation, and nothing is counted below 0.
THEOREM ReplyTypeCorrect == Spec => []TypeOK
<1>1. ReplyInv => TypeOK
  BY DEF ReplyInv
<1> QED BY ReplyInvariant, <1>1, PTL

(***************************************************************************)
(* How long the reply takes.  Every step brings it nearer to its end: a    *)
(* call that fails halves n_byte, a piece counts left down, and all the    *)
(* others go on to a later place.                                          *)
(***************************************************************************)

\* A bound on the steps that are left.
StepsLeft ==
  CASE pc = "stat"   -> 3 * Half
    [] pc = "alloc"  -> 2 * Half + n_byte
    [] pc = "rewind" -> 2 * Half
    [] pc = "reply"  -> Half + left
    [] OTHER         -> 0

\* While the size fits in an int, neither int is negative nor above the size.
NothingNegative ==
  size < Half =>
    /\ pc = "stat" => size = 0
    /\ pc \in {"alloc", "rewind"} => n_byte \in 1 .. size
    /\ pc = "reply" => left \in Nat

LEMMA NothingNegativeStep ==
  ASSUME ReplyInv, NothingNegative, [Next]_vars
  PROVE  NothingNegative'
<1> USE ReplyAssumption
<1>inv. TypeOK /\ PiecesPositive
  BY DEF ReplyInv
<1>1. CASE Stat
  <2>1. PICK s \in 1 .. MaxSize : size' = s /\ n_byte' = Wrap(s)
    BY <1>1 DEF Stat
  <2>2. s < Half => n_byte' = s
    BY <2>1, WrapSmall
  <2> QED BY <1>1, <2>1, <2>2 DEF Stat, NothingNegative
<1>2. CASE Alloc
  BY <1>2 DEF Alloc, NothingNegative
<1>3. CASE AllocFails
  <2>1. /\ pc = "alloc" /\ n_byte' = n_byte \div 2 /\ size' = size
        /\ pc' = IF n_byte' = 0 THEN "oom" ELSE "alloc"
    BY <1>3 DEF AllocFails
  <2>2. size < Half => n_byte' \in 0 .. size
    BY <1>inv, <2>1 DEF NothingNegative, TypeOK
  <2> QED BY <2>1, <2>2 DEF NothingNegative
<1>4. CASE Rewind
  <2> DEFINE n == (size + n_byte - 1) \div n_byte
  <2>1. pc = "rewind" /\ pc' = "reply" /\ left' = Wrap(n) /\ UNCHANGED <<size, n_byte>>
    BY <1>4 DEF Rewind, Iterations
  <2>2. size < Half => n \in Nat /\ n <= size
    BY <1>inv, <2>1, RoundedUp DEF NothingNegative, TypeOK
  <2> HIDE DEF n
  <2>3. size < Half => left' = n
    BY <1>inv, <2>1, <2>2, WrapSmall DEF TypeOK
  <2> QED BY <2>1, <2>2, <2>3 DEF NothingNegative
<1>5. CASE Piece \/ Finish
  BY <1>5, <1>inv DEF Piece, Finish, NothingNegative, TypeOK, CInt
<1>6. CASE UNCHANGED vars
  BY <1>6 DEF vars, NothingNegative
<1> QED BY <1>1, <1>2, <1>3, <1>4, <1>5, <1>6 DEF Next

\* Each step leaves fewer, and never less than none.
ReplyGoesOn == [][size' < Half => StepsLeft' \in 0 .. StepsLeft - 1]_vars

\* The reply (main.c:508-562) to a file whose size fits in an int has a bound on its
\* steps, however often malloc() fails and whatever it grants: what ReplyEnds says, the
\* fairness left aside, for every width of int.
THEOREM ReplyTakesBoundedSteps == Spec => ReplyGoesOn
<1>1. Init => NothingNegative
  BY DEF Init, NothingNegative
<1>2. ReplyInv /\ NothingNegative /\ [Next]_vars /\ NothingNegative' /\ TypeOK' =>
        [size' < Half => StepsLeft' \in 0 .. StepsLeft - 1]_vars
  <2> SUFFICES ASSUME ReplyInv, NothingNegative, Next, NothingNegative', TypeOK', size' < Half
               PROVE  StepsLeft' \in 0 .. StepsLeft - 1
    OBVIOUS
  <2> USE ReplyAssumption
  <2>inv. TypeOK /\ PiecesPositive /\ Half \in Nat /\ Half > 0
    BY DEF ReplyInv
  <2>1. CASE Stat
    <3>1. pc = "stat" /\ pc' = "alloc" /\ n_byte' \in 1 .. Half - 1
      BY <2>1 DEF Stat, NothingNegative, TypeOK
    <3> QED BY <3>1, <2>inv DEF StepsLeft
  <2>2. CASE Alloc
    <3>1. pc = "alloc" /\ pc' = "rewind" /\ n_byte \in 1 .. Half - 1
      BY <2>2, <2>inv DEF Alloc, NothingNegative, TypeOK
    <3> QED BY <3>1, <2>inv DEF StepsLeft
  <2>3. CASE AllocFails
    <3>1. /\ pc = "alloc" /\ n_byte \in 1 .. Half - 1 /\ n_byte' = n_byte \div 2
          /\ pc' \in {"alloc", "oom"}
      BY <2>3, <2>inv DEF AllocFails, NothingNegative, TypeOK
    <3>2. n_byte' \in 0 .. n_byte - 1
      BY <3>1
    <3> QED BY <3>1, <3>2, <2>inv DEF StepsLeft
  <2>4. CASE Rewind
    <3>1. pc = "rewind" /\ pc' = "reply" /\ left' \in 0 .. Half - 1
      BY <2>4, <2>inv DEF Rewind, NothingNegative, TypeOK, CInt
    <3> QED BY <3>1, <2>inv DEF StepsLeft
  <2>5. CASE Piece
    <3>1. pc = "reply" /\ pc' = "reply" /\ left > 0 /\ left' = left - 1 /\ left \in Int
      BY <2>5, <2>inv DEF Piece, TypeOK, CInt
    <3> QED BY <3>1, <2>inv DEF StepsLeft
  <2>6. CASE Finish
    <3>1. pc = "reply" /\ pc' = "replied" /\ left \in Nat
      BY <2>6 DEF Finish, NothingNegative
    <3> QED BY <3>1, <2>inv DEF StepsLeft
  <2> QED BY <2>1, <2>2, <2>3, <2>4, <2>5, <2>6 DEF Next
<1>3. ReplyInv => TypeOK
  BY DEF ReplyInv
<1>4. ReplyInv /\ NothingNegative /\ [Next]_vars => NothingNegative'
  BY NothingNegativeStep
<1> QED BY <1>1, <1>2, <1>3, <1>4, ReplyInvariant, PTL DEF Spec, ReplyGoesOn
=============================================================================
