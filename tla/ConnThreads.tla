----------------------------- MODULE ConnThreads -----------------------------
(***************************************************************************)
(* The worker side of aesdsocket (server/src/main.c): one thread per       *)
(* accepted connection runs socket_connection_thread, every expiry of the  *)
(* POSIX timer runs timer_handler in a thread of its own, and all of them  *)
(* share output_fd (one file, ONE file offset) under output_file_mutex.    *)
(*                                                                         *)
(* A step is what a thread does between two calls at which another thread  *)
(* can be told apart.  A byte is a unit [from, seq, val]: who produced it, *)
(* its place in what that producer sent, and whether it is payload, a      *)
(* newline or a NUL.  A timestamp line is two units, text and newline.     *)
(* recv() that returns -1 changes nothing and is a stuttering step (the    *)
(* thread polls).                                                          *)
(***************************************************************************)
EXTENDS Integers, Sequences

CONSTANTS
  Conns,      \* the connection threads, one per accepted client socket
  Ticks,      \* the expiries of the timestamp timer
  Script,     \* Script[c]: the kinds of the units client c sends, in order
  Impatient,  \* the clients that may close their socket at any time
  Stalling,   \* the clients that may stop reading what they are sent
  Faults,     \* the calls that may fail: see FaultNames
  Chunk,      \* allocated_chunk_size
  NoOne       \* the mutex is free

Kinds == {"data", "nl", "nul"}

\* "malloc", "write", "fstat", "lseek": the call fails; "enomem": the reply
\* buffer does not fit; "send": send() is cut short by a signal; "sigpipe": a
\* send() to a closed peer raises SIGPIPE instead of only failing.
FaultNames == {"malloc", "enomem", "write", "fstat", "lseek", "send", "sigpipe"}

ASSUME ConstantsAssumption ==
  /\ NoOne \notin Conns \cup Ticks
  /\ Conns \cap Ticks = {}
  /\ Script \in [Conns -> Seq(Kinds)]
  /\ Impatient \subseteq Conns
  /\ Stalling \subseteq Conns
  /\ Faults \subseteq FaultNames
  /\ Chunk \in Nat \ {0}

VARIABLES
  \* locals of socket_connection_thread
  pc,        \* where the thread is
  buf,       \* buf: "null", "live" (registered with the collector) or "freed"
  rx,        \* the received bytes buf holds; total_byte_read is Len(rx)
  avail,     \* available_space
  cap,       \* the size buf was allocated with, for the receive buffer
  size,      \* statebuf.st_size
  nbyte,     \* n_byte
  iter,      \* iteration - i
  chunk,     \* what the last read() put into buf
  exit,      \* the message the thread left with
  done,      \* thread_params->done
  \* the socket and the client behind it
  sent,      \* how many units of its script the client has sent
  rcvd,      \* how many of them the server has received
  peer,      \* the client: "open", "stalled" or "closed"
  got,       \* what was sent back since the last rewind
  answered,  \* the reply to the latest packet was sent in full
  \* timer threads
  tpc,
  \* shared by all threads
  mutex,     \* output_file_mutex: its holder
  file,      \* the contents of /var/tmp/aesdsocketdata
  pos,       \* the file offset of output_fd
  alive,     \* FALSE once SIGPIPE has killed the process
  \* history, for the properties only
  log,       \* every unit a write() accepted, in order
  due        \* due[c]: Len(log) when c's latest packet had been written

rxVars     == <<rx, avail, cap, rcvd>>
replyVars  == <<size, nbyte, iter, chunk, got, answered>>
fileVars   == <<file, pos, log, due>>
clientVars == <<sent, peer>>
vars == <<pc, buf, rxVars, replyVars, exit, done, clientVars, tpc, mutex, fileVars, alive>>

Threads == Conns \cup Ticks
Units == [from : Threads, seq : Nat \ {0}, val : Kinds]

\* The pcs at which a connection thread holds the mutex.
Holding == {"write", "stat", "rewind", "read", "send", "toEnd"}
PCs == {"alloc", "recv", "lockWrite", "lockStat", "allocReply", "lockReply",
        "done", "cleanup", "ended"} \cup Holding
Exits == {"none", "eof", "malloc", "write", "fstat", "oom", "rewind", "send", "toEnd"}

Smaller(m, n) == IF m <= n THEN m ELSE n
Larger(m, n)  == IF m >= n THEN m ELSE n

-----------------------------------------------------------------------------
(* Small steps shared by the actions.                                      *)

Goto(c, l) == pc' = [pc EXCEPT ![c] = l]

\* CLEAN_RETURN after a failure: `done` is not touched.
Leave(c, why) ==
  /\ Goto(c, "cleanup")
  /\ exit' = [exit EXCEPT ![c] = why]

\* Mutant: the lock is left held on an error return.
NoUnlock == mutex' = mutex
Unlock == mutex' = NoOne

\* malloc_wrapper() accepts NULL or a pointer the collector knows; it returns
\* NULL for any other pointer, such as one free_wrapper() has just freed.
KnownBuf(c) == buf[c] # "freed"

\* Mutant: the buffer is grown to one chunk whatever it holds already.
RecvSizeOneChunk(c) == Chunk
RecvSize(c) == Len(rx[c]) + Chunk

\* write() at file offset p: overwrites what is there, then extends the file.
WriteAt(f, p, s) ==
  [i \in 1 .. Larger(Len(f), p + Len(s)) |->
     IF i > p /\ i <= p + Len(s) THEN s[i - p] ELSE f[i]]

WriteFile(s) ==
  /\ file' = WriteAt(file, pos, s)
  /\ pos' = pos + Len(s)
  /\ log' = log \o s

Arrived(c, n) ==
  [i \in 1..n |-> [from |-> c, seq |-> rcvd[c] + i, val |-> Script[c][rcvd[c] + i]]]

\* Mutant: only a newline ends a packet.
EndsPacketNewlineOnly(u) == u.val = "nl"
EndsPacket(u) == u.val # "data"

\* Mutant: the closing NUL is kept.
CloseLineKeepsNul(s) == s
\* The last byte becomes a newline: a NUL ends a packet as well.
CloseLine(s) == [s EXCEPT ![Len(s)] = [@ EXCEPT !.val = "nl"]]

Iterations(c) == (size[c] + nbyte[c] - 1) \div nbyte[c]

\* Mutant: the loop runs once too often.
LastChunkLate(c) == iter[c] < 1
\* Mutant: the loop ends one piece early.
LastChunkEarly(c) == iter[c] <= 2
LastChunk(c) == iter[c] <= 1

\* Mutant: the reply starts at the current offset.
NoSeekStart == pos' = pos
SeekStart == pos' = 0

\* Mutant: the offset stays where the last read() left it.
NoSeekEnd == pos' = pos
SeekEnd == pos' = Len(file)

-----------------------------------------------------------------------------
(* socket_connection_thread                                                *)

\* available_space = 0: (re)allocate the receive buffer.
Alloc(c) ==
  /\ pc[c] = "alloc" /\ KnownBuf(c)
  /\ buf' = [buf EXCEPT ![c] = "live"]
  /\ cap' = [cap EXCEPT ![c] = RecvSize(c)]
  /\ avail' = [avail EXCEPT ![c] = Chunk]
  /\ Goto(c, "recv")
  /\ UNCHANGED <<rx, rcvd, replyVars, exit, done, clientVars, tpc, mutex, fileVars, alive>>

\* malloc_wrapper() returns NULL: no memory, or buf is not NULL and unknown.
AllocFails(c) ==
  /\ pc[c] = "alloc"
  /\ ~KnownBuf(c) \/ "malloc" \in Faults
  /\ Leave(c, "malloc")
  /\ UNCHANGED <<buf, rxVars, replyVars, done, clientVars, tpc, mutex, fileVars, alive>>

\* recv() takes what has arrived, as far as it fits.  The packet is over when
\* the LAST byte received so far is a newline or a NUL.
Recv(c) ==
  /\ pc[c] = "recv" /\ rcvd[c] < sent[c]
  /\ LET n == Smaller(avail[c], sent[c] - rcvd[c])
         all == rx[c] \o Arrived(c, n)
         ends == EndsPacket(all[Len(all)])
     IN /\ rx' = [rx EXCEPT ![c] = IF ends THEN CloseLine(all) ELSE all]
        /\ avail' = [avail EXCEPT ![c] = @ - n]
        /\ rcvd' = [rcvd EXCEPT ![c] = @ + n]
        /\ Goto(c, CASE ends -> "lockWrite"
                     [] ~ends /\ n = avail[c] -> "alloc"
                     [] OTHER -> "recv")
  /\ UNCHANGED <<buf, cap, replyVars, exit, done, clientVars, tpc, mutex, fileVars, alive>>

\* Mutant: `done` is set as soon as the client has closed, and the thread polls on.
RecvEofSetsDone(c) ==
  /\ pc[c] = "recv" /\ rcvd[c] = sent[c] /\ peer[c] = "closed"
  /\ done' = [done EXCEPT ![c] = TRUE]
  /\ UNCHANGED <<pc, buf, rxVars, replyVars, exit, clientVars, tpc, mutex, fileVars, alive>>
\* recv() returns 0: the client has closed and everything was received.
RecvEof(c) ==
  /\ pc[c] = "recv" /\ rcvd[c] = sent[c] /\ peer[c] = "closed"
  /\ exit' = [exit EXCEPT ![c] = "eof"]
  /\ Goto(c, "done")
  /\ UNCHANGED <<buf, rxVars, replyVars, done, clientVars, tpc, mutex, fileVars, alive>>

\* pthread_mutex_lock() at its three call sites.
Lock(c) ==
  /\ mutex = NoOne /\ mutex' = c
  /\ \/ pc[c] = "lockWrite" /\ Goto(c, "write")
     \/ pc[c] = "lockStat"  /\ Goto(c, "stat")
     \/ pc[c] = "lockReply" /\ Goto(c, "rewind")
  /\ UNCHANGED <<buf, rxVars, replyVars, exit, done, clientVars, tpc, fileVars, alive>>

\* write() of the packet, unlock, and free_wrapper() of the receive buffer.
Write(c) ==
  /\ pc[c] = "write"
  /\ WriteFile(rx[c])
  /\ Unlock
  /\ due' = [due EXCEPT ![c] = Len(log')]
  /\ answered' = [answered EXCEPT ![c] = FALSE]
  /\ buf' = [buf EXCEPT ![c] = "freed"]
  /\ rx' = [rx EXCEPT ![c] = <<>>] /\ avail' = [avail EXCEPT ![c] = 0]
  /\ Goto(c, "lockStat")
  /\ UNCHANGED <<cap, rcvd, size, nbyte, iter, chunk, got, exit, done, clientVars, tpc, alive>>

\* write() fails or writes a part only: unlock and leave.
WriteFails(c) ==
  /\ pc[c] = "write" /\ "write" \in Faults
  /\ \E k \in 0 .. Len(rx[c]) - 1 : WriteFile(SubSeq(rx[c], 1, k))
  /\ Unlock
  /\ Leave(c, "write")
  /\ UNCHANGED <<buf, rxVars, replyVars, due, done, clientVars, tpc, alive>>

\* fstat() and unlock: n_byte starts as the size of the file.
Stat(c) ==
  /\ pc[c] = "stat"
  /\ Unlock
  /\ size' = [size EXCEPT ![c] = Len(file)] /\ nbyte' = [nbyte EXCEPT ![c] = Len(file)]
  /\ buf' = [buf EXCEPT ![c] = "null"]
  /\ Goto(c, "allocReply")
  /\ UNCHANGED <<rxVars, iter, chunk, got, answered, exit, done, clientVars, tpc, fileVars, alive>>

\* An error return between lock and unlock: the call named by fault failed.
FailsLocked(c, at, fault, why) ==
  /\ pc[c] = at /\ fault \in Faults
  /\ Unlock
  /\ Leave(c, why)
  /\ UNCHANGED <<buf, rxVars, replyVars, done, clientVars, tpc, fileVars, alive>>

StatFails(c) == FailsLocked(c, "stat", "fstat", "fstat")

AllocReply(c) ==
  /\ pc[c] = "allocReply"
  /\ buf' = [buf EXCEPT ![c] = "live"]
  /\ Goto(c, "lockReply")
  /\ UNCHANGED <<rxVars, replyVars, exit, done, clientVars, tpc, mutex, fileVars, alive>>

\* ENOMEM: try half the size; give up when nothing is left.
AllocReplyFails(c) ==
  /\ pc[c] = "allocReply" /\ "enomem" \in Faults
  /\ nbyte' = [nbyte EXCEPT ![c] = @ \div 2]
  /\ IF nbyte[c] \div 2 = 0 THEN Leave(c, "oom") ELSE UNCHANGED <<pc, exit>>
  /\ UNCHANGED <<buf, rxVars, size, iter, chunk, got, answered, done, clientVars, tpc, mutex,
                 fileVars, alive>>

\* lseek(0, SEEK_SET), and the number of reads, from the size fstat() saw.
Rewind(c) ==
  /\ pc[c] = "rewind"
  /\ SeekStart
  /\ iter' = [iter EXCEPT ![c] = Iterations(c)] /\ got' = [got EXCEPT ![c] = <<>>]
  /\ Goto(c, "read")
  /\ UNCHANGED <<buf, rxVars, size, nbyte, chunk, answered, exit, done, clientVars, tpc, mutex,
                 file, log, due, alive>>

RewindFails(c) == FailsLocked(c, "rewind", "lseek", "rewind")

Read(c) ==
  /\ pc[c] = "read"
  /\ pos' = Smaller(pos + nbyte[c], Len(file))
  /\ chunk' = [chunk EXCEPT ![c] = SubSeq(file, pos + 1, pos')]
  /\ Goto(c, "send")
  /\ UNCHANGED <<buf, rxVars, size, nbyte, iter, got, answered, exit, done, clientVars, tpc,
                 mutex, file, log, due, alive>>

\* send() takes the whole chunk.  It blocks while the client does not read; that
\* the client has closed may go unnoticed for a while.
Send(c) ==
  /\ pc[c] = "send" /\ peer[c] # "stalled"
  /\ got' = [got EXCEPT ![c] = @ \o chunk[c]]
  /\ iter' = [iter EXCEPT ![c] = @ - 1]
  /\ Goto(c, IF LastChunk(c) THEN "toEnd" ELSE "read")
  /\ UNCHANGED <<buf, rxVars, size, nbyte, chunk, answered, exit, done, clientVars, tpc, mutex,
                 fileVars, alive>>

\* Mutant: the error return of send() keeps the lock.
SendFailsKeepsLock(c) ==
  /\ pc[c] = "send" /\ peer[c] = "closed"
  /\ NoUnlock
  /\ Leave(c, "send")
  /\ UNCHANGED <<buf, rxVars, replyVars, done, clientVars, tpc, fileVars, alive>>
\* send() fails or is cut short: unlock and leave.  The file offset stays where
\* read() left it.  What part of the piece was taken is left out of got: the reply
\* is never finished.
SendFails(c) ==
  /\ pc[c] = "send"
  /\ peer[c] = "closed" \/ "send" \in Faults
  /\ Unlock
  /\ Leave(c, "send")
  /\ UNCHANGED <<buf, rxVars, replyVars, done, clientVars, tpc, fileVars, alive>>

\* send() to a closed peer raises SIGPIPE, for which main() installs no handler.
SendKills(c) ==
  /\ pc[c] = "send" /\ peer[c] = "closed" /\ "sigpipe" \in Faults
  /\ alive' = FALSE
  /\ UNCHANGED <<pc, buf, rxVars, replyVars, exit, done, clientVars, tpc, mutex, fileVars>>

\* lseek(0, SEEK_END), unlock, free_wrapper() of the reply buffer: buf keeps
\* the freed address when the loop starts over with available_space = 0.
ToEnd(c) ==
  /\ pc[c] = "toEnd"
  /\ SeekEnd
  /\ Unlock
  /\ answered' = [answered EXCEPT ![c] = TRUE] /\ buf' = [buf EXCEPT ![c] = "freed"]
  /\ Goto(c, "alloc")
  /\ UNCHANGED <<rxVars, size, nbyte, iter, chunk, got, exit, done, clientVars, tpc, file, log,
                 due, alive>>

ToEndFails(c) == FailsLocked(c, "toEnd", "lseek", "toEnd")

SetDone(c) ==
  /\ pc[c] = "done"
  /\ done' = [done EXCEPT ![c] = TRUE]
  /\ Goto(c, "cleanup")
  /\ UNCHANGED <<buf, rxVars, replyVars, exit, clientVars, tpc, mutex, fileVars, alive>>

\* cleanup() closes the socket and frees what is registered; the thread returns,
\* and its locals are gone.
Cleanup(c) ==
  /\ pc[c] = "cleanup" /\ Goto(c, "ended")
  /\ rx' = [rx EXCEPT ![c] = <<>>] /\ chunk' = [chunk EXCEPT ![c] = <<>>]
  /\ avail' = [avail EXCEPT ![c] = 0] /\ cap' = [cap EXCEPT ![c] = 0]
  /\ size' = [size EXCEPT ![c] = 0] /\ nbyte' = [nbyte EXCEPT ![c] = 0]
  /\ iter' = [iter EXCEPT ![c] = 0]
  /\ UNCHANGED <<buf, rcvd, got, answered, exit, done, clientVars, tpc, mutex, fileVars, alive>>

-----------------------------------------------------------------------------
(* timer_handler: the time is taken when the timer expires, before the     *)
(* lock; the result of write() is ignored.                                 *)

TimerFires(t) ==
  /\ tpc[t] = "idle" /\ tpc' = [tpc EXCEPT ![t] = "lockStamp"]
  /\ UNCHANGED <<pc, buf, rxVars, replyVars, exit, done, clientVars, mutex, fileVars, alive>>

\* Mutant: the handler does not wait for the mutex.
LockStampTry(t) ==
  /\ tpc[t] = "lockStamp"
  /\ IF mutex = NoOne
     THEN mutex' = t /\ tpc' = [tpc EXCEPT ![t] = "stamp"]
     ELSE UNCHANGED mutex /\ tpc' = [tpc EXCEPT ![t] = "written"]
  /\ UNCHANGED <<pc, buf, rxVars, replyVars, exit, done, clientVars, fileVars, alive>>
LockStamp(t) ==
  /\ tpc[t] = "lockStamp" /\ tpc' = [tpc EXCEPT ![t] = "stamp"]
  /\ mutex = NoOne /\ mutex' = t
  /\ UNCHANGED <<pc, buf, rxVars, replyVars, exit, done, clientVars, fileVars, alive>>

\* "timestamp:" with the time, and the newline of rfc2822_compliant_datetime_format.
Stamp(t) == <<[from |-> t, seq |-> 1, val |-> "data"], [from |-> t, seq |-> 2, val |-> "nl"]>>

WriteStamp(t) ==
  /\ tpc[t] = "stamp" /\ tpc' = [tpc EXCEPT ![t] = "written"]
  /\ WriteFile(Stamp(t))
  /\ Unlock
  /\ UNCHANGED <<pc, buf, rxVars, replyVars, exit, done, clientVars, due, alive>>

\* write() fails or writes a part of the line only: nobody looks.
WriteStampFails(t) ==
  /\ tpc[t] = "stamp" /\ "write" \in Faults
  /\ \E k \in 0 .. Len(Stamp(t)) - 1 :
       /\ WriteFile(SubSeq(Stamp(t), 1, k))
       /\ tpc' = [tpc EXCEPT ![t] = IF k = 0 THEN "unwritten" ELSE "cut"]
  /\ Unlock
  /\ UNCHANGED <<pc, buf, rxVars, replyVars, exit, done, clientVars, due, alive>>

-----------------------------------------------------------------------------
(* The clients.                                                            *)

ClientSend(c) ==
  /\ peer[c] # "closed" /\ sent[c] < Len(Script[c])
  /\ sent' = [sent EXCEPT ![c] = @ + 1]
  /\ UNCHANGED <<pc, buf, rxVars, replyVars, exit, done, peer, tpc, mutex, fileVars, alive>>

ClientTurns(c) ==
  /\ \/ c \in Impatient /\ peer[c] # "closed" /\ peer' = [peer EXCEPT ![c] = "closed"]
     \/ c \in Stalling /\ peer[c] = "open" /\ peer' = [peer EXCEPT ![c] = "stalled"]
  /\ UNCHANGED <<pc, buf, rxVars, replyVars, exit, done, sent, tpc, mutex, fileVars, alive>>

-----------------------------------------------------------------------------
Init ==
  LET each(v) == [c \in Conns |-> v]
  IN /\ pc = each("alloc") /\ buf = each("null") /\ exit = each("none") /\ done = each(FALSE)
     /\ rx = each(<<>>) /\ avail = each(0) /\ cap = each(0) /\ rcvd = each(0)
     /\ size = each(0) /\ nbyte = each(0) /\ iter = each(0)
     /\ chunk = each(<<>>) /\ got = each(<<>>) /\ answered = each(FALSE)
     /\ sent = each(0) /\ peer = each("open") /\ tpc = [t \in Ticks |-> "idle"]
     /\ mutex = NoOne /\ file = <<>> /\ pos = 0 /\ alive = TRUE
     /\ log = <<>> /\ due = each(0)

ConnStep(c) ==
  /\ alive
  /\ \/ Alloc(c) \/ AllocFails(c) \/ Recv(c) \/ RecvEof(c) \/ Lock(c)
     \/ Write(c) \/ WriteFails(c) \/ Stat(c) \/ StatFails(c)
     \/ AllocReply(c) \/ AllocReplyFails(c) \/ Rewind(c) \/ RewindFails(c) \/ Read(c)
     \/ Send(c) \/ SendFails(c) \/ SendKills(c) \/ ToEnd(c) \/ ToEndFails(c)
     \/ SetDone(c) \/ Cleanup(c)

TimerStep(t) == alive /\ (LockStamp(t) \/ WriteStamp(t) \/ WriteStampFails(t))

ClientStep(c) == alive /\ (ClientSend(c) \/ ClientTurns(c))

Next ==
  \/ \E c \in Conns : ConnStep(c) \/ ClientStep(c)
  \/ \E t \in Ticks : (alive /\ TimerFires(t)) \/ TimerStep(t)

Spec == Init /\ [][Next]_vars

\* The kernel runs every thread that can run.  Nothing is asked of the clients
\* and of the timer.  Weak fairness is enough for the mutex: a thread takes it a
\* bounded number of times.
FairSpec ==
  /\ Spec
  /\ \A c \in Conns : WF_vars(ConnStep(c))
  /\ \A t \in Ticks : WF_vars(TimerStep(t))

-----------------------------------------------------------------------------
(* Properties.                                                             *)

TypeOK ==
  /\ pc \in [Conns -> PCs]
  /\ buf \in [Conns -> {"null", "live", "freed"}]
  /\ rx \in [Conns -> Seq(Units)]
  /\ avail \in [Conns -> Nat] /\ cap \in [Conns -> Nat]
  /\ rcvd \in [Conns -> Nat]
  /\ size \in [Conns -> Nat] /\ nbyte \in [Conns -> Nat] /\ iter \in [Conns -> Nat]
  /\ chunk \in [Conns -> Seq(Units)] /\ got \in [Conns -> Seq(Units)]
  /\ answered \in [Conns -> BOOLEAN] /\ done \in [Conns -> BOOLEAN]
  /\ exit \in [Conns -> Exits]
  /\ sent \in [Conns -> Nat]
  /\ \A c \in Conns : rcvd[c] <= sent[c] /\ sent[c] <= Len(Script[c])
  /\ peer \in [Conns -> {"open", "stalled", "closed"}]
  /\ tpc \in [Ticks -> {"idle", "lockStamp", "stamp", "written", "cut", "unwritten"}]
  /\ mutex \in Threads \cup {NoOne}
  /\ file \in Seq(Units) /\ log \in Seq(Units)
  /\ pos \in 0 .. Len(file)
  /\ due \in [Conns -> Nat]
  /\ alive \in BOOLEAN

\* A reply was given up after read() had moved the offset that all threads share.
ReplyBroken == \E c \in Conns : exit[c] \in {"send", "toEnd"}

\* A reply, or the write() of a packet or of a timestamp, was given up half way.
Torn ==
  \/ ReplyBroken
  \/ \E c \in Conns : exit[c] = "write"
  \/ \E t \in Ticks : tpc[t] = "cut"

\* The mutex is held by exactly the thread whose pc is in a critical section:
\* every one of the error returns of socket_connection_thread unlocks, none
\* unlocks twice, and no thread ends as the holder.
LockDiscipline ==
  /\ \A c \in Conns : mutex = c <=> pc[c] \in Holding
  /\ \A t \in Ticks : mutex = t <=> tpc[t] = "stamp"

\* recv() is never offered more room than is left in the block malloc_wrapper()
\* returned, over every sequence of partial receives and reallocations.
BufferInBounds == \A c \in Conns : Len(rx[c]) + avail[c] <= cap[c]

\* The file is what the threads wrote, in the order they wrote it: none of them
\* overwrites another's bytes although replies move the one shared file offset
\* back to 0.  It holds until a reply is given up half way.
FileIsLog == ~ReplyBroken => file = log

\* Records of different threads never share a line: packets and timestamps are
\* whole lines in the file, until an operation is given up half way.
LinesIntact ==
  ~Torn => /\ \A i \in 1 .. Len(file) - 1 :
                file[i].from # file[i + 1].from => file[i].val = "nl"
           /\ Len(file) > 0 => file[Len(file)].val = "nl"

\* A finished reply is the payload from its first byte on, at least up to the
\* end of the client's own packet, whatever was appended between fstat() and
\* the reads and however small the reply buffer had to be.
ReplyComplete ==
  \A c \in Conns : answered[c] /\ ~ReplyBroken =>
    /\ due[c] <= Len(got[c])
    /\ Len(got[c]) <= Len(log)
    /\ got[c] = SubSeq(log, 1, Len(got[c]))

\* The worker threads keep the promise of PayloadLog.
Payload == INSTANCE PayloadLog WITH
  log <- file,
  answer <- [c \in Conns |-> IF answered[c] THEN got[c] ELSE <<>>],
  torn <- Torn
ImplementsPayloadLog == Payload!Spec

\* main.c:5-8, "receive bytes from client sockets and return the full payload
\* back": a finished reply has every byte the server accepted up to the end of
\* the client's own packet.  The code does not keep this once a reply to
\* another client was given up.
FullPayloadReturned ==
  \A c \in Conns : answered[c] =>
    \A i \in 1 .. due[c] : i <= Len(got[c]) /\ got[c][i] = log[i]

Closed(c) == Script[c] # <<>> /\ Script[c][Len(Script[c])] # "data"

OnePacket(c) == Closed(c) /\ \A i \in 1 .. Len(Script[c]) - 1 : Script[c][i] = "data"

Served(c) ==
  /\ answered[c]
  /\ \A i \in 1 .. sent[c] : \E j \in 1 .. Len(got[c]) :
       got[c][j].from = c /\ got[c][j].seq = i

\* A call that c's own thread made has failed.  That malloc_wrapper() refuses the
\* pointer the thread hands it is not a failure of a call.
OwnCallFailed(c) ==
  exit[c] \notin {"none", "eof"} /\ ~(exit[c] = "malloc" /\ buf[c] = "freed")

\* Everybody waits for a client that does not read: its thread is in send() and
\* has the mutex.
Stalled == \E c \in Conns : pc[c] = "send" /\ peer[c] = "stalled"

Answered(c) ==
  Served(c) \/ peer[c] # "open" \/ OwnCallFailed(c) \/ ReplyBroken \/ Stalled \/ ~alive

\* A client that has sent its one packet and goes on reading gets a payload with all
\* of its bytes.  That calls fail in the threads of other clients keeps it from
\* nobody, but for a reply given up with the offset inside the file, a client that
\* does not read, and SIGPIPE.
StayingClientServed ==
  \A c \in {d \in Conns : OnePacket(d)} :
    (sent[c] = Len(Script[c]) /\ peer[c] = "open") ~> Answered(c)

\* main.c:5-8, "receive bytes from client sockets and return the full payload
\* back": the same of a client that has sent several packets.  The code does not
\* keep this, for the pointer to the freed reply buffer is refused.
EveryPacketAnswered ==
  \A c \in Conns :
    (sent[c] = Len(Script[c]) /\ Closed(c) /\ peer[c] = "open") ~> Answered(c)

\* Every expiry of the timer gets its whole line into the file, whatever fails in
\* the threads that have the mutex before it, unless its own write() fails or is cut
\* short, a client does not read, or SIGPIPE ends the process.
TimestampWritten ==
  \A t \in Ticks :
    tpc[t] = "lockStamp" ~>
      \/ \E i \in 1 .. Len(file) : file[i] = Stamp(t)[2]
      \/ tpc[t] \in {"cut", "unwritten"} \/ Stalled \/ ~alive

\* What main() counts on when it joins a thread that has set `done`: ThreadLife.
\* Nothing but cleanup() is between `done` and the return, so that the join waits
\* for no client and for no mutex, whatever else the thread went through.
Life == INSTANCE ThreadLife WITH
  stage <- [c \in Conns |-> IF pc[c] = "ended" \/ ~alive THEN "ended"
                            ELSE IF pc[c] = "cleanup" /\ done[c] THEN "returning"
                            ELSE "running"]
ImplementsThreadLife == Life!Spec
=============================================================================
