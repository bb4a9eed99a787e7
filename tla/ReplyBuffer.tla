---------------------------- MODULE ReplyBuffer ----------------------------
(***************************************************************************)
(* The reply of one connection thread (socket_connection_thread,           *)
(* server/src/main.c:500-568) with the width of its integers: st_size is a *)
(* 64-bit off_t, n_byte and iteration are ints of 2 * Half values.         *)
(* ConnThreads has the same loop with other threads around it and          *)
(* unbounded integers.                                                     *)
(***************************************************************************)
EXTENDS Integers

CONSTANTS
  Half,        \* 2^31: an int is in -Half .. Half - 1
  MaxTransfer, \* the most that one read() or send() moves: 0x7ffff000 on Linux
  MaxSize      \* bound: the largest file

ASSUME ReplyAssumption ==
  /\ Half \in Nat \ {0} /\ MaxTransfer \in Nat \ {0} /\ MaxSize \in Nat
  /\ MaxTransfer < Half

VARIABLES
  pc,
  size,    \* statebuf.st_size
  n_byte,
  left,    \* iteration - i
  len,     \* the size of the file when it is read: it may have grown
  got      \* bytes read and sent

vars == <<pc, size, n_byte, left, len, got>>

CInt == -Half .. Half - 1

\* An off_t assigned to an int keeps its low bits.
Wrap(x) == ((x + Half) % (2 * Half)) - Half

Smaller(m, n) == IF m <= n THEN m ELSE n

-----------------------------------------------------------------------------
\* fstat() of a file that some packet was written to.
Stat ==
  /\ pc = "stat" /\ pc' = "alloc"
  /\ \E s \in 1 .. MaxSize : size' = s /\ n_byte' = Wrap(s)
  /\ UNCHANGED <<left, len, got>>

\* Mutant: an n_byte of 0 is not looked at.
AllocZero ==
  /\ pc = "alloc" /\ n_byte >= 0
  /\ pc' = "rewind"
  /\ UNCHANGED <<size, n_byte, left, len, got>>
\* malloc() takes a size_t: of a negative n_byte it is asked for more than there
\* can be.  malloc(0) succeeds, and the thread leaves all the same.
Alloc ==
  /\ pc = "alloc" /\ n_byte >= 0
  /\ pc' = IF n_byte = 0 THEN "oom" ELSE "rewind"
  /\ UNCHANGED <<size, n_byte, left, len, got>>

\* ENOMEM.  The shift of a negative int keeps its sign: it ends at -1.
AllocFails ==
  /\ pc = "alloc"
  /\ n_byte' = n_byte \div 2
  /\ pc' = IF n_byte' = 0 THEN "oom" ELSE pc
  /\ UNCHANGED <<size, left, len, got>>

\* Mutant: the sum is an int already.
IterationsNarrow == Wrap(size + n_byte - 1) \div n_byte
\* The sum and the quotient are off_t, the result is stored in an int.
Iterations == Wrap((size + n_byte - 1) \div n_byte)

\* lseek(): other threads may have appended since fstat().
Rewind ==
  /\ pc = "rewind" /\ pc' = "reply"
  /\ left' = Iterations
  /\ len' \in size .. MaxSize
  /\ UNCHANGED <<size, n_byte, got>>

\* Mutant: only full pieces are counted.
PieceUncounted ==
  /\ pc = "reply" /\ left > 0
  /\ got' = got + Smaller(Smaller(n_byte, MaxTransfer), len - got)
  /\ left' = IF got' - got = n_byte THEN left - 1 ELSE left
  /\ UNCHANGED <<pc, size, n_byte, len>>
\* read() and send() of one piece; at the end of the file both return 0.
Piece ==
  /\ pc = "reply" /\ left > 0
  /\ got' = got + Smaller(Smaller(n_byte, MaxTransfer), len - got)
  /\ left' = left - 1
  /\ UNCHANGED <<pc, size, n_byte, len>>

Finish ==
  /\ pc = "reply" /\ left <= 0
  /\ pc' = "replied"
  /\ UNCHANGED <<size, n_byte, left, len, got>>

-----------------------------------------------------------------------------
Init ==
  /\ pc = "stat" /\ size = 0 /\ n_byte = 0 /\ left = 0 /\ len = 0 /\ got = 0

Next == Stat \/ Alloc \/ AllocFails \/ Rewind \/ Piece \/ Finish

Spec == Init /\ [][Next]_vars

\* The thread runs on.  Nothing is assumed of malloc().
FairSpec == Spec /\ WF_vars(Next)

-----------------------------------------------------------------------------
(* Properties.                                                             *)

TypeOK ==
  /\ pc \in {"stat", "alloc", "rewind", "reply", "replied", "oom"}
  /\ {size, len, got} \subseteq Nat
  /\ n_byte \in CInt /\ left \in CInt

\* A reply that is finished has the whole file as fstat() saw it, however often
\* the buffer had to be halved, up to the most that read() and send() move in one
\* piece: neither int wraps, and the rounding loses nothing.  Above that a reply
\* can be cut short.
ReplyCovers == pc = "replied" /\ size <= MaxTransfer => got >= size

\* No read() is asked for 0 bytes or a negative number of them, whatever the size
\* of the file, and the division by n_byte is defined.
PiecesPositive == pc \in {"rewind", "reply"} => n_byte > 0

\* The loop that halves n_byte ends, in a reply or for want of memory, while the
\* size of the file fits in an int.  From 2^31 bytes on it may spin for ever: a
\* negative n_byte is never 0, and malloc() never grants it.
ReplyEnds ==
  pc = "alloc" /\ size < Half ~> pc \in {"replied", "oom"}
=============================================================================
