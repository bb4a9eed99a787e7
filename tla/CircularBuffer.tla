--------------------------- MODULE CircularBuffer ---------------------------
(***************************************************************************)
(* aesd-char-driver/aesd-circular-buffer.c: the ring of the most recent    *)
(* write operations of the character driver, and the search for the entry  *)
(* that holds a position of their concatenation.  The caller locks, so an  *)
(* operation is one step.  An entry is a write [ptr, size]; the bytes      *)
(* behind buffptr belong to the caller and are left out.                   *)
(***************************************************************************)
EXTENDS Integers, Sequences

CONSTANTS
  MaxWrites,   \* AESDCHAR_MAX_WRITE_OPERATIONS_SUPPORTED
  Ptrs,        \* the values of buffptr
  Sizes,       \* the sizes of an entry
  Offsets,     \* the positions that are searched for
  NullPtr,     \* buffptr of a slot nothing was written to
  NotFound     \* NULL, as the result of a search

ASSUME BufferAssumption ==
  /\ MaxWrites \in Nat \ {0}
  /\ Sizes \subseteq Nat
  /\ Offsets \subseteq Nat
  /\ NullPtr \notin Ptrs
  /\ NotFound \notin 0 .. MaxWrites - 1

VARIABLES
  entry,   \* entry[]
  inOffs,  \* in_offs
  outOffs, \* out_offs
  full,    \* full
  found,   \* what the last search returned: a slot or NULL
  offset   \* the caller's *entry_offset_byte_rtn

vars == <<entry, inOffs, outOffs, full, found, offset>>

Slots == 0 .. MaxWrites - 1
Entry == [ptr : Ptrs, size : Sizes]
Empty == [ptr |-> NullPtr, size |-> 0]

NextSlot(i) == (i + 1) % MaxWrites

-----------------------------------------------------------------------------
(* aesd_circular_buffer_add_entry                                          *)

\* Mutant: the oldest entry stays the first one.
AddKeepsOldest(e) ==
  /\ entry' = [entry EXCEPT ![inOffs] = e]
  /\ inOffs' = NextSlot(inOffs)
  /\ outOffs' = outOffs
  /\ full' = (full \/ inOffs' = outOffs)
  /\ UNCHANGED <<found, offset>>

Add(e) ==
  /\ entry' = [entry EXCEPT ![inOffs] = e]
  /\ inOffs' = NextSlot(inOffs)
  /\ outOffs' = IF full THEN NextSlot(outOffs) ELSE outOffs
  /\ full' = (full \/ inOffs' = outOffs)
  /\ UNCHANGED <<found, offset>>

-----------------------------------------------------------------------------
(* aesd_circular_buffer_find_entry_offset_for_fpos                         *)

\* Mutant: a full buffer is taken for an empty one.
MoreSlotsUnlessFull(w) == w.index # inOffs
\* A full buffer has out_offs = in_offs: its first slot is looked at once.
MoreSlots(w) == w.index # inOffs \/ (full /\ w.isFirst)

Holds(w, pos) == w.charLen + entry[w.index].size > pos

\* The loop, as the sequence of its states; MaxWrites rounds are always enough.
Walk(pos) ==
  LET start == [index |-> outOffs, isFirst |-> TRUE, charLen |-> 0, slot |-> outOffs, off |-> 0]
      round(w) ==
        IF w.charLen <= pos /\ MoreSlots(w)
        THEN [index |-> NextSlot(w.index),
              isFirst |-> FALSE,
              charLen |-> w.charLen + entry[w.index].size,
              slot |-> IF Holds(w, pos) THEN w.index ELSE w.slot,
              off |-> IF Holds(w, pos) THEN pos - w.charLen ELSE w.off]
        ELSE w
      state[k \in 0 .. MaxWrites] == IF k = 0 THEN start ELSE round(state[k - 1])
  IN state[MaxWrites]

\* The slot, or NULL when the entries end before pos.
FindEntry(pos) ==
  LET w == Walk(pos) IN [slot |-> IF w.charLen <= pos THEN NotFound ELSE w.slot, off |-> w.off]

\* *entry_offset_byte_rtn is set whether or not the position was found.
Find(pos) ==
  /\ found' = FindEntry(pos).slot /\ offset' = FindEntry(pos).off
  /\ UNCHANGED <<entry, inOffs, outOffs, full>>

-----------------------------------------------------------------------------
\* aesd_circular_buffer_init
Init ==
  /\ entry = [i \in Slots |-> Empty] /\ inOffs = 0 /\ outOffs = 0 /\ full = FALSE
  /\ found = NotFound /\ offset = 0

Next ==
  \/ \E e \in Entry : Add(e)
  \/ \E pos \in Offsets : Find(pos)

Spec == Init /\ [][Next]_vars

-----------------------------------------------------------------------------
(* Properties.                                                             *)

\* The buffer's fields; SearchIsConcatenation says what a search returns.
TypeOK ==
  /\ entry \in [Slots -> Entry \cup {Empty}]
  /\ inOffs \in Slots /\ outOffs \in Slots /\ full \in BOOLEAN

Count == IF full THEN MaxWrites ELSE (inOffs - outOffs + MaxWrites) % MaxWrites

\* The slots from the oldest entry to the newest.
Used == [i \in 1 .. Count |-> (outOffs + i - 1) % MaxWrites]
Contents == [i \in 1 .. Count |-> entry[Used[i]]]

\* The three indices always describe a queue of the last MaxWrites writes: full
\* and empty, which look the same to in_offs and out_offs, are never confused.
Queue == INSTANCE BoundedQueue WITH Capacity <- MaxWrites, queue <- Contents
ImplementsQueue == Queue!Spec

\* How many bytes there are before the i-th entry.
Before[i \in 1 .. MaxWrites + 1] == IF i = 1 THEN 0 ELSE Before[i - 1] + Contents[i - 1].size

\* aesd-circular-buffer.c:20-27: the search returns the entry and the place in
\* it of byte number pos of "all buffer strings concatenated end to end", or
\* NULL when there are not that many bytes; empty entries and a full buffer
\* included.
SearchIsConcatenation ==
  \A pos \in Offsets :
    LET r == FindEntry(pos)
    IN \/ r.slot = NotFound /\ Before[Count + 1] <= pos
       \/ \E i \in 1 .. Count :
            r.slot = Used[i] /\ pos = Before[i] + r.off /\ r.off < Contents[i].size
=============================================================================
