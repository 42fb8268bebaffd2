---------------------------- MODULE HeapContract ----------------------------
(***************************************************************************)
(* What a program expects of malloc, calloc, realloc and free, and what    *)
(* humalloc promises to go on giving it: a block handed out lies in the    *)
(* heap and shares no byte with a block that is held, under an address     *)
(* that is not held.                                                       *)
(***************************************************************************)
EXTENDS Integers, PtrMap

CONSTANT HeapLast      \* last address of the heap

VARIABLE blocks        \* pointer -> size of the blocks that are held

Region(start, len) == start .. (start + len - 1)

Init == blocks = NoEntries

\* ret may be handed out for size bytes to a program that holds others.
Fresh(others, ret, size) ==
  /\ ret \in (1 .. HeapLast) \ DOMAIN others
  /\ Region(ret, size) \subseteq 1 .. HeapLast
  /\ \A p \in DOMAIN others : Region(ret, size) \cap Region(p, others[p]) = {}

Obtain(ret, size) ==
  /\ Fresh(blocks, ret, size)
  /\ blocks' = MapPut(blocks, ret, size)

HandBack(ptr) ==
  /\ ptr \in DOMAIN blocks
  /\ blocks' = MapErase(blocks, ptr)

\* The resized block may overlap the one it replaces.
Resize(ptr, ret, size) ==
  /\ ptr \in DOMAIN blocks
  /\ Fresh(MapErase(blocks, ptr), ret, size)
  /\ blocks' = MapPut(MapErase(blocks, ptr), ret, size)

\* Every step in which the set of blocks changes, with the new block, if there
\* is one, named by the change itself.
Next ==
  \/ \E ret \in DOMAIN blocks' : Obtain(ret, blocks'[ret])
  \/ \E ptr \in DOMAIN blocks : HandBack(ptr)
  \/ \E ptr \in DOMAIN blocks, ret \in DOMAIN blocks' : Resize(ptr, ret, blocks'[ret])

Spec == Init /\ [][Next]_blocks

=============================================================================
