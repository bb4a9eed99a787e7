--------------------------- MODULE OwnedResources ---------------------------
(***************************************************************************)
(* What a resource collector promises: it owns some blocks of the heap and *)
(* some open descriptors, and gives back only what it owns, once.  That it *)
(* has to give anything back is not promised.                              *)
(***************************************************************************)
CONSTANTS Ptrs, Fds

VARIABLES
  blocks, files,  \* what the collector owns
  heap, open      \* what is allocated and open at all

vars == <<blocks, files, heap, open>>

Init == blocks = {} /\ files = {} /\ heap = {} /\ open = {}

AcquireBlock ==
  /\ \E p \in Ptrs \ heap : heap' = heap \cup {p} /\ blocks' = blocks \cup {p}
  /\ UNCHANGED <<files, open>>

\* A block moves, or keeps its place.
ExchangeBlock ==
  /\ \E p \in blocks : \E q \in (Ptrs \ heap) \cup {p} :
       /\ heap' = (heap \ {p}) \cup {q}
       /\ blocks' = (blocks \ {p}) \cup {q}
  /\ UNCHANGED <<files, open>>

ReleaseBlock ==
  /\ \E p \in blocks : heap' = heap \ {p} /\ blocks' = blocks \ {p}
  /\ UNCHANGED <<files, open>>

\* The collector takes over a descriptor its user has opened, or declines.
OpenFile ==
  /\ \E fd \in Fds \ open :
       /\ open' = open \cup {fd}
       /\ files' \in {files, files \cup {fd}}
  /\ UNCHANGED <<blocks, heap>>

ReleaseFile ==
  /\ \E fd \in files : open' = open \ {fd} /\ files' = files \ {fd}
  /\ UNCHANGED <<blocks, heap>>

ReleaseAll ==
  /\ heap' = heap \ blocks
  /\ open' = open \ files
  /\ blocks' = {}
  /\ files' = {}

Next ==
  \/ AcquireBlock \/ ExchangeBlock \/ ReleaseBlock
  \/ OpenFile \/ ReleaseFile \/ ReleaseAll

Spec == Init /\ [][Next]_vars
=============================================================================
