--------------------------- MODULE HuMallocProofs ---------------------------
(***************************************************************************)
(* What holds of the fenced allocator for every heap, every page size and  *)
(* every sequence of calls: it keeps its types, owns its blocks one by one *)
(* and never gives libc a pointer libc is not waiting for; and what it     *)
(* hands out is memory of the caller's own, unprotected, of the size it    *)
(* says, so that it keeps the contract of the allocator it replaces.       *)
(*                                                                         *)
(* The first inductive invariant, AllocatorInv, adds what ownership rests  *)
(* on: that what callers hold is either active or a block of libc that     *)
(* humalloc does not own.  Its first part, HeapInv, is about the allocator *)
(* alone and is shown once for each thing a call may do to the heap.  The  *)
(* second, MemoryInv, adds where everything lies: the blocks apart, the    *)
(* user's bytes in front of the fence, the protected bytes those of fences *)
(* and quarantine, and room for what was asked for behind each pointer.    *)
(***************************************************************************)
EXTENDS HuMalloc, HuLayoutProofs

-----------------------------------------------------------------------------
HeapTypes ==
  /\ AddressMap(libc_blocks, Nat \ {0})
  /\ libc_aborted \in BOOLEAN
  /\ prot_none \subseteq Addresses
  /\ mprotect_failed \in BOOLEAN
  /\ hu_malloc_inited \in BOOLEAN
  /\ hu_config \in [overflow : BOOLEAN, useafterfree : BOOLEAN,
                    minsize : Nat, quarantine_max_size : Nat]
  /\ hu_user_addrs \subseteq Addresses
  /\ AddressMap(hu_active_allocs, hu_alloc_info)
  /\ hu_quarantine_allocs \in Seq(hu_alloc_info)
  /\ hu_quarantine_size \in Nat
  /\ hu_quarantine_evicted \in BOOLEAN

\* OwnsItsBlocks of any three values, block by block.
Owns(blocks, active, queue) ==
  /\ \A p \in DOMAIN active :
       /\ active[p].sys_ptr \in DOMAIN blocks
       /\ blocks[active[p].sys_ptr] = active[p].sys_size
  /\ \A i \in 1 .. Len(queue) :
       /\ queue[i].sys_ptr \in DOMAIN blocks
       /\ blocks[queue[i].sys_ptr] = queue[i].sys_size
  /\ \A p, q \in DOMAIN active : p # q => active[p].sys_ptr # active[q].sys_ptr
  /\ \A i, j \in 1 .. Len(queue) : i # j => queue[i].sys_ptr # queue[j].sys_ptr
  /\ \A p \in DOMAIN active, i \in 1 .. Len(queue) : active[p].sys_ptr # queue[i].sys_ptr

\* b is a block of libc's that humalloc does not own.
Plain(b, blocks, active, queue) ==
  /\ b \in DOMAIN blocks
  /\ \A p \in DOMAIN active : active[p].sys_ptr # b
  /\ \A i \in 1 .. Len(queue) : queue[i].sys_ptr # b

BlocksInMemory == \A b \in DOMAIN libc_blocks : b + libc_blocks[b] - 1 <= MemLast

NothingBeforeInit ==
  ~hu_malloc_inited =>
    hu_user_addrs = {} /\ DOMAIN hu_active_allocs = {} /\ hu_quarantine_allocs = <<>>

\* An active pointer is one humalloc has handed out, and lies in its block.
ActiveIsKnown ==
  \A p \in DOMAIN hu_active_allocs :
    /\ p \in hu_user_addrs
    /\ p \in Block(hu_active_allocs[p])

HeapInv ==
  /\ HeapTypes
  /\ BlocksInMemory
  /\ Owns(libc_blocks, hu_active_allocs, hu_quarantine_allocs)
  /\ NothingBeforeInit
  /\ ActiveIsKnown

\* p can be freed: it is active, or a plain block.
Returnable(p) ==
  \/ p \in DOMAIN hu_active_allocs
  \/ Plain(p, libc_blocks, hu_active_allocs, hu_quarantine_allocs)

HeldIsReturnable == \A p \in DOMAIN kept : Returnable(p)

\* Between the two halves of hu_realloc the old block is active and no longer
\* the caller's.
PendingIsActive ==
  pending_free # NULL =>
    pending_free \in DOMAIN hu_active_allocs /\ pending_free \notin DOMAIN kept

AllocatorInv ==
  /\ HeapInv
  /\ NeverAborts
  /\ pending_free \in Results
  /\ AddressMap(kept, Nat)
  /\ HeldIsReturnable
  /\ PendingIsActive

-----------------------------------------------------------------------------
(***************************************************************************)
(* Ownership, for any values of the three variables.                       *)
(***************************************************************************)

\* A block at a free address disturbs nobody.
LEMMA OwnsPut ==
  ASSUME NEW blocks, NEW active, NEW queue, NEW b, NEW len,
         Owns(blocks, active, queue), b \notin DOMAIN blocks
  PROVE  /\ Owns(MapPut(blocks, b, len), active, queue)
         /\ Plain(b, MapPut(blocks, b, len), active, queue)
         /\ \A p : Plain(p, blocks, active, queue)
                     => Plain(p, MapPut(blocks, b, len), active, queue)
  BY DEF Owns, Plain, MapPut

\* A new block that becomes active under ptr.
LEMMA OwnsInsert ==
  ASSUME NEW blocks, NEW active, NEW queue, NEW ptr, NEW info,
         Owns(blocks, active, queue), info.sys_ptr \notin DOMAIN blocks
  PROVE  LET blocks2 == MapPut(blocks, info.sys_ptr, info.sys_size)
             active2 == MapInsert(active, ptr, info)
         IN  /\ Owns(blocks2, active2, queue)
             /\ \A p : Plain(p, blocks, active, queue) => Plain(p, blocks2, active2, queue)
  BY DEF Owns, Plain, MapPut, MapInsert

\* A plain block may go.
LEMMA OwnsErase ==
  ASSUME NEW blocks, NEW active, NEW queue, NEW b,
         Owns(blocks, active, queue), Plain(b, blocks, active, queue)
  PROVE  /\ Owns(MapErase(blocks, b), active, queue)
         /\ \A p : p # b /\ Plain(p, blocks, active, queue)
                     => Plain(p, MapErase(blocks, b), active, queue)
  BY DEF Owns, Plain, MapErase

\* An active block that goes back to libc.
LEMMA OwnsGiveBack ==
  ASSUME NEW blocks, NEW active, NEW queue, NEW ptr \in DOMAIN active,
         Owns(blocks, active, queue)
  PROVE  LET blocks2 == MapErase(blocks, active[ptr].sys_ptr)
             active2 == MapErase(active, ptr)
         IN  /\ Owns(blocks2, active2, queue)
             /\ \A p : Plain(p, blocks, active, queue) => Plain(p, blocks2, active2, queue)
  BY DEF Owns, Plain, MapErase

\* An active block that goes into quarantine.
LEMMA OwnsQuarantine ==
  ASSUME NEW blocks, NEW active, NEW queue \in Seq(hu_alloc_info), NEW ptr \in DOMAIN active,
         active[ptr] \in hu_alloc_info,
         Owns(blocks, active, queue)
  PROVE  LET active2 == MapErase(active, ptr)
             queue2 == Append(queue, active[ptr])
         IN  /\ Owns(blocks, active2, queue2)
             /\ \A p : Plain(p, blocks, active, queue) => Plain(p, blocks, active2, queue2)
<1> DEFINE info == active[ptr]
           queue2 == Append(queue, info)
<1>1. /\ Len(queue) \in Nat
      /\ Len(queue2) = Len(queue) + 1
      /\ \A i \in 1 .. Len(queue) : queue2[i] = queue[i]
      /\ queue2[Len(queue) + 1] = info
  OBVIOUS
<1>2. \A i \in 1 .. Len(queue2) :
        (i \in 1 .. Len(queue) /\ queue2[i] = queue[i]) \/ (i = Len(queue) + 1 /\ queue2[i] = info)
  BY <1>1
<1> HIDE DEF queue2
<1>3. Owns(blocks, MapErase(active, ptr), queue2)
  BY <1>2 DEF Owns, MapErase
<1>4. ASSUME NEW p, Plain(p, blocks, active, queue)
      PROVE  Plain(p, blocks, MapErase(active, ptr), queue2)
  BY <1>2, <1>4 DEF Plain, MapErase
<1> QED
  BY <1>3, <1>4 DEF queue2

\* The oldest block in quarantine goes back to libc.
LEMMA OwnsEvict ==
  ASSUME NEW blocks, NEW active, NEW queue \in Seq(hu_alloc_info), queue # <<>>,
         Owns(blocks, active, queue)
  PROVE  LET blocks2 == MapErase(blocks, Head(queue).sys_ptr)
         IN  /\ Owns(blocks2, active, Tail(queue))
             /\ \A p : Plain(p, blocks, active, queue)
                         => Plain(p, blocks2, active, Tail(queue))
<1> DEFINE rest == Tail(queue)
<1>1. /\ Len(queue) \in Nat \ {0}
      /\ Len(rest) = Len(queue) - 1
      /\ Head(queue) = queue[1]
      /\ \A i \in 1 .. Len(rest) : i + 1 \in 2 .. Len(queue) /\ rest[i] = queue[i + 1]
  OBVIOUS
<1> HIDE DEF rest
<1>2. \A i \in 1 .. Len(rest) : i + 1 \in 1 .. Len(queue) /\ i + 1 # 1
  BY <1>1
<1>3. Owns(MapErase(blocks, queue[1].sys_ptr), active, rest)
  <2> DEFINE left == MapErase(blocks, queue[1].sys_ptr)
  <2>1. DOMAIN left = DOMAIN blocks \ {queue[1].sys_ptr} /\ \A b \in DOMAIN left : left[b] = blocks[b]
    BY DEF MapErase
  <2> HIDE DEF left
  <2>2. \A p \in DOMAIN active :
          active[p].sys_ptr \in DOMAIN left /\ left[active[p].sys_ptr] = active[p].sys_size
    BY <1>1, <2>1 DEF Owns
  <2>3. \A i \in 2 .. Len(queue) :
          queue[i].sys_ptr \in DOMAIN left /\ left[queue[i].sys_ptr] = queue[i].sys_size
    BY <1>1, <2>1 DEF Owns
  <2>4. \A i, j \in 1 .. Len(rest) : i # j => rest[i].sys_ptr # rest[j].sys_ptr
    BY <1>1, <1>2 DEF Owns
  <2>5. \A p \in DOMAIN active, i \in 1 .. Len(rest) : active[p].sys_ptr # rest[i].sys_ptr
    BY <1>1, <1>2 DEF Owns
  <2>6. \A i \in 1 .. Len(rest) :
          rest[i].sys_ptr \in DOMAIN left /\ left[rest[i].sys_ptr] = rest[i].sys_size
    BY <1>1, <2>3
  <2>7. \A p, q \in DOMAIN active : p # q => active[p].sys_ptr # active[q].sys_ptr
    BY DEF Owns
  <2>8. Owns(left, active, rest)
    BY <2>2, <2>4, <2>5, <2>6, <2>7 DEF Owns
  <2> QED
    BY <2>8 DEF left
<1>4. ASSUME NEW p, Plain(p, blocks, active, queue)
      PROVE  Plain(p, MapErase(blocks, queue[1].sys_ptr), active, rest)
  BY <1>1, <1>2, <1>4 DEF Plain, MapErase
<1> QED
  BY <1>1, <1>3, <1>4 DEF rest

-----------------------------------------------------------------------------
(***************************************************************************)
(* Where a block and its user pointer lie.                                 *)
(***************************************************************************)

\* A request of some bytes gets a block of some bytes, with the user pointer in
\* it; a fenced block has room for its fence.
LEMMA BlockLayout ==
  ASSUME NEW n \in Nat \ {0}, Representable(n), NEW overflow \in BOOLEAN,
         NEW sys, sys = hu_calc_sys_size(hu_calc_user_size(n), overflow)
  PROVE  /\ sys \in Nat \ {0}
         /\ UserOffset(n, overflow) \in 0 .. (sys - 1)
         /\ overflow => sys - PageSize \in Nat
<1> DEFINE rounded == hu_calc_user_size(n)
           fence == IF overflow THEN PageSize ELSE 0
<1>1. /\ PageSize \in Nat \ {0}
      /\ SizeMultiple \in Nat \ {0}
  BY LayoutAssumption
<1>2. /\ rounded \in n .. (n + SizeMultiple - 1)
      /\ sys \in (rounded + fence) .. (rounded + fence + PageSize - 1)
  BY SysSizeBounds
<1>3. /\ UserOffset(n, overflow) >= 0
      /\ UserOffset(n, overflow) + n <= sys - fence
  BY LayoutFits DEF RequestFits
<1>4. UserOffset(n, overflow) = IF overflow THEN (sys - PageSize) - rounded ELSE 0
  BY DEF UserOffset, FenceOffset
<1> HIDE DEF rounded
<1> QED
  BY <1>1, <1>2, <1>3, <1>4

\* libc's blocks have some bytes.
LEMMA ExtentIsPositive ==
  ASSUME NEW n \in Nat, Representable(n)
  PROVE  LibcExtent(n) \in Nat \ {0}
<1>1. CASE n = 0
  BY <1>1, LayoutAssumption DEF LibcExtent
<1>2. CASE n # 0
  <2>1. hu_calc_user_size(n) \in n .. (n + SizeMultiple - 1)
    BY SysSizeBounds
  <2>2. SizeMultiple \in Nat
    BY LayoutAssumption
  <2> QED
    BY <1>2, <2>1, <2>2 DEF LibcExtent
<1> QED
  BY <1>1, <1>2

\* A block libc places is new and touches no other.
LEMMA PlacedApart ==
  ASSUME NEW blocks, AddressMap(blocks, Nat \ {0}), NEW b, NEW len \in Nat \ {0},
         LibcFits(blocks, b, len)
  PROVE  /\ b \in Addresses
         /\ b + len - 1 <= MemLast
         /\ b \notin DOMAIN blocks
         /\ \A c \in DOMAIN blocks : Span(b, len) \cap Span(c, blocks[c]) = {}
<1>1. MemLast \in Nat /\ HeaderSize \in Nat
  BY LibcAssumption
<1>2. b \in Addresses /\ b \in Nat
  BY <1>1 DEF LibcFits, Addresses
<1>3. ASSUME NEW c \in DOMAIN blocks
      PROVE  b # c /\ Span(b, len) \cap Span(c, blocks[c]) = {}
  <2>1. c \in Nat /\ blocks[c] \in Nat \ {0}
    BY <1>1 DEF AddressMap, Addresses
  <2>2. \/ b + len + HeaderSize <= c
        \/ c + blocks[c] + HeaderSize <= b
    BY DEF LibcFits
  <2> QED
    BY <1>1, <1>2, <2>1, <2>2 DEF Span
<1>4. b \notin DOMAIN blocks
  BY <1>3
<1> QED
  BY <1>2, <1>3, <1>4 DEF LibcFits

\* mprotect, whether or not it fails, leaves the types alone.
LEMMA ProtectTypes ==
  ASSUME prot_none \subseteq Addresses, mprotect_failed \in BOOLEAN,
         NEW addrs \in SUBSET Addresses,
         ProtectNone(addrs) \/ ProtectReadWrite(addrs) \/ UNCHANGED protVars
  PROVE  prot_none' \subseteq Addresses /\ mprotect_failed' \in BOOLEAN
  BY DEF ProtectNone, ProtectReadWrite, MprotectFails, protVars

-----------------------------------------------------------------------------
(***************************************************************************)
(* The heap invariant under each thing a call does to the heap.            *)
(***************************************************************************)

\* What an allocation that returned ret leaves behind.
Allocated(ret) ==
  /\ HeapInv'
  /\ libc_aborted' = libc_aborted
  /\ \A p : Returnable(p) => Returnable(p)'
  /\ ret # NULL => Returnable(ret)' /\ ret \notin DOMAIN hu_active_allocs
  /\ DOMAIN hu_active_allocs \subseteq DOMAIN hu_active_allocs'

\* An address in no block of libc's is not an active pointer.
LEMMA ActiveInBlock ==
  ASSUME HeapInv, NEW p \in DOMAIN hu_active_allocs
  PROVE  \E b \in DOMAIN libc_blocks : p \in Span(b, libc_blocks[b])
  BY DEF HeapInv, ActiveIsKnown, Block, Owns

\* A block of libc's that humalloc leaves alone.
LEMMA PlainMalloc ==
  ASSUME HeapInv, NEW size \in Nat, Representable(size), NEW ret,
         LibcMalloc(size, ret),
         UNCHANGED <<protVars, setupVars, trackVars, quarantineVars>>
  PROVE  Allocated(ret)
<1> DEFINE len == LibcExtent(size)
<1>0. len \in Nat \ {0}
  BY ExtentIsPositive
<1>1. UNCHANGED <<prot_none, mprotect_failed, hu_malloc_inited, hu_config, hu_user_addrs,
                  hu_active_allocs, hu_quarantine_allocs, hu_quarantine_size,
                  hu_quarantine_evicted, libc_aborted>>
  BY DEF protVars, setupVars, trackVars, quarantineVars, LibcMalloc
<1>2. CASE ret = NULL /\ UNCHANGED libc_blocks
  <2>1. HeapInv'
    BY <1>1, <1>2 DEF HeapInv, HeapTypes, BlocksInMemory, NothingBeforeInit,
                      ActiveIsKnown, AddressMap, Block
  <2> QED
    BY <1>1, <1>2, <2>1 DEF Allocated, Returnable
<1>3. CASE /\ LibcFits(libc_blocks, ret, len)
           /\ libc_blocks' = MapPut(libc_blocks, ret, len)
  <2>1. AddressMap(libc_blocks, Nat \ {0})
    BY DEF HeapInv, HeapTypes
  <2> HIDE DEF len
  <2>2. /\ ret \in Addresses
        /\ ret + len - 1 <= MemLast
        /\ ret \notin DOMAIN libc_blocks
        /\ \A c \in DOMAIN libc_blocks : Span(ret, len) \cap Span(c, libc_blocks[c]) = {}
    BY <1>0, <1>3, <2>1, PlacedApart
  <2>3. /\ Owns(libc_blocks', hu_active_allocs, hu_quarantine_allocs)
        /\ Plain(ret, libc_blocks', hu_active_allocs, hu_quarantine_allocs)
        /\ \A p : Plain(p, libc_blocks, hu_active_allocs, hu_quarantine_allocs)
                    => Plain(p, libc_blocks', hu_active_allocs, hu_quarantine_allocs)
    BY <1>3, <2>2, OwnsPut DEF HeapInv
  <2>4. AddressMap(libc_blocks', Nat \ {0})
    BY <1>0, <1>3, <2>1, <2>2 DEF AddressMap, MapPut
  <2>5. BlocksInMemory'
    BY <1>3, <2>2 DEF HeapInv, BlocksInMemory, MapPut
  <2>6. ret \in Span(ret, len)
    BY <1>0, <2>2, LibcAssumption DEF Span, Addresses
  <2>7. ret \notin DOMAIN hu_active_allocs
    BY <2>2, <2>6, ActiveInBlock
  <2>8. HeapInv'
    BY <1>1, <2>3, <2>4, <2>5 DEF HeapInv, HeapTypes, NothingBeforeInit, ActiveIsKnown,
                                  AddressMap, Block
  <2> QED
    BY <1>1, <2>3, <2>7, <2>8 DEF Allocated, Returnable
<1> QED
  BY <1>2, <1>3 DEF LibcMalloc

\* A block with pages of its own.
LEMMA FencedAllocated ==
  ASSUME HeapInv, NEW size \in Nat, Representable(size), ~PlainRequest(size),
         NEW ret \in Results,
         FencedMalloc(size, ret),
         UNCHANGED <<setupVars, quarantineVars>>
  PROVE  Allocated(ret)
<1> DEFINE sys_ptr == ret - UserOffset(size, hu_config.overflow)
           len == SysSize(size)
           info == [user_ptr |-> ret, user_size |-> size, sys_ptr |-> sys_ptr, sys_size |-> len]
<1>1. UNCHANGED <<hu_malloc_inited, hu_config, hu_quarantine_allocs, hu_quarantine_size,
                  hu_quarantine_evicted>>
  BY DEF setupVars, quarantineVars
<1>2. /\ size # 0
      /\ hu_malloc_inited
      /\ hu_config.overflow \in BOOLEAN
  BY DEF PlainRequest, HeapInv, HeapTypes
<1>3. CASE ret = NULL /\ LibcMemalign(len, NULL) /\ UNCHANGED <<protVars, trackVars>>
  <2>1. UNCHANGED <<libc_blocks, libc_aborted, prot_none, mprotect_failed, hu_user_addrs,
                    hu_active_allocs>>
    <3>1. ~LibcFits(libc_blocks, NULL, len)
      BY DEF LibcFits, NULL, Addresses
    <3> QED
      BY <1>3, <3>1 DEF LibcMemalign, protVars, trackVars
  <2>2. HeapInv'
    BY <1>1, <2>1 DEF HeapInv, HeapTypes, BlocksInMemory, NothingBeforeInit,
                      ActiveIsKnown, AddressMap, Block
  <2> QED
    BY <1>1, <1>3, <2>1, <2>2 DEF Allocated, Returnable
<1>4. CASE /\ ret # NULL
           /\ LibcMemalign(len, sys_ptr)
           /\ sys_ptr # NULL
           /\ IF hu_config.overflow THEN ProtectNone(Fence(info)) ELSE UNCHANGED protVars
           /\ hu_active_allocs' = MapInsert(hu_active_allocs, ret, info)
           /\ hu_user_addrs' = hu_user_addrs \cup {ret}
  <2>1. /\ ret \in Addresses
        /\ ret \in Nat
    BY <1>4, LibcAssumption DEF Results, Addresses
  <2>2. /\ len \in Nat \ {0}
        /\ UserOffset(size, hu_config.overflow) \in 0 .. (len - 1)
        /\ hu_config.overflow => len - PageSize \in Nat
    BY <1>2, BlockLayout DEF SysSize
  <2>3. /\ LibcFits(libc_blocks, sys_ptr, len)
        /\ libc_blocks' = MapPut(libc_blocks, sys_ptr, len)
        /\ libc_aborted' = libc_aborted
    BY <1>4 DEF LibcMemalign
  <2>4. ret \in Span(sys_ptr, len)
    BY <2>1, <2>2 DEF Span
  <2>5. /\ info.sys_ptr = sys_ptr /\ info.sys_size = len
        /\ info.user_ptr = ret /\ info.user_size = size
    OBVIOUS
  <2>6. AddressMap(libc_blocks, Nat \ {0})
    BY DEF HeapInv, HeapTypes
  <2> HIDE DEF len, sys_ptr
  <2>7. /\ sys_ptr \in Addresses
        /\ sys_ptr + len - 1 <= MemLast
        /\ sys_ptr \notin DOMAIN libc_blocks
        /\ \A c \in DOMAIN libc_blocks : Span(sys_ptr, len) \cap Span(c, libc_blocks[c]) = {}
    BY <2>2, <2>3, <2>6, PlacedApart
  <2>8. info \in hu_alloc_info
    BY <2>1, <2>2, <2>7 DEF hu_alloc_info
  <2> HIDE DEF info
  <2>9. ret \notin DOMAIN hu_active_allocs
    BY <2>4, <2>7, ActiveInBlock
  <2>10. /\ Owns(libc_blocks', hu_active_allocs', hu_quarantine_allocs)
         /\ \A p : Plain(p, libc_blocks, hu_active_allocs, hu_quarantine_allocs)
                     => Plain(p, libc_blocks', hu_active_allocs', hu_quarantine_allocs)
    BY <1>4, <2>3, <2>5, <2>7, OwnsInsert DEF HeapInv
  <2>11. /\ DOMAIN hu_active_allocs' = DOMAIN hu_active_allocs \cup {ret}
         /\ hu_active_allocs'[ret] = info
         /\ \A p \in DOMAIN hu_active_allocs : hu_active_allocs'[p] = hu_active_allocs[p]
    BY <1>4, <2>9 DEF MapInsert
  <2>12. prot_none' \subseteq Addresses /\ mprotect_failed' \in BOOLEAN
    <3>1. Fence(info) \in SUBSET Addresses
      BY <2>2, <2>5, <2>7, LayoutAssumption, LibcAssumption
      DEF Fence, FencePtr, FenceOffset, Span, Addresses
    <3>2. prot_none \subseteq Addresses /\ mprotect_failed \in BOOLEAN
      BY DEF HeapInv, HeapTypes
    <3>3. ProtectNone(Fence(info)) \/ UNCHANGED protVars
      BY <1>4
    <3> QED
      BY <3>1, <3>2, <3>3, ProtectTypes
  <2>13. AddressMap(libc_blocks', Nat \ {0})
    BY <2>2, <2>3, <2>6, <2>7 DEF AddressMap, MapPut
  <2>14. AddressMap(hu_active_allocs', hu_alloc_info)
    BY <2>1, <2>8, <2>11 DEF HeapInv, HeapTypes, AddressMap
  <2>15. hu_user_addrs' \subseteq Addresses
    BY <1>4, <2>1 DEF HeapInv, HeapTypes
  <2>16. HeapTypes'
    BY <1>1, <2>3, <2>12, <2>13, <2>14, <2>15 DEF HeapInv, HeapTypes, AddressMap
  <2>17. BlocksInMemory'
    BY <2>3, <2>7 DEF HeapInv, BlocksInMemory, MapPut
  <2>18. ActiveIsKnown'
    BY <1>4, <2>4, <2>5, <2>11 DEF HeapInv, ActiveIsKnown, Block
  <2>19. HeapInv'
    BY <1>1, <1>2, <2>10, <2>16, <2>17, <2>18 DEF HeapInv, NothingBeforeInit
  <2> QED
    BY <1>1, <2>3, <2>9, <2>10, <2>11, <2>19 DEF Allocated, Returnable
<1> QED
  BY <1>3, <1>4 DEF FencedMalloc

\* hu_malloc's part of any call.
LEMMA AllocateAllocated ==
  ASSUME HeapInv, NEW size \in Nat, Representable(size), NEW ret \in Results,
         Allocate(size, ret),
         UNCHANGED <<setupVars, quarantineVars>>
  PROVE  Allocated(ret)
  BY PlainMalloc, FencedAllocated DEF Allocate

\* What giving up the pointer ptr leaves behind.
Released(ptr) ==
  /\ HeapInv'
  /\ libc_aborted' = libc_aborted
  /\ \A p : p # ptr /\ Returnable(p) => Returnable(p)'

\* A pointer that is passed to libc's free is a plain block.
LEMMA PlainFree ==
  ASSUME HeapInv, NEW ptr,
         Plain(ptr, libc_blocks, hu_active_allocs, hu_quarantine_allocs),
         LibcFree(ptr),
         UNCHANGED <<protVars, setupVars, trackVars, quarantineVars>>
  PROVE  Released(ptr)
<1>1. UNCHANGED <<prot_none, mprotect_failed, hu_malloc_inited, hu_config, hu_user_addrs,
                  hu_active_allocs, hu_quarantine_allocs, hu_quarantine_size,
                  hu_quarantine_evicted>>
  BY DEF protVars, setupVars, trackVars, quarantineVars
<1>2. /\ libc_blocks' = MapErase(libc_blocks, ptr)
      /\ libc_aborted' = libc_aborted
  BY DEF LibcFree, Plain, HeapInv, HeapTypes
<1>3. /\ Owns(libc_blocks', hu_active_allocs, hu_quarantine_allocs)
      /\ \A p : p # ptr /\ Plain(p, libc_blocks, hu_active_allocs, hu_quarantine_allocs)
                  => Plain(p, libc_blocks', hu_active_allocs, hu_quarantine_allocs)
  BY <1>2, OwnsErase DEF HeapInv
<1>4. AddressMap(libc_blocks', Nat \ {0}) /\ BlocksInMemory'
  BY <1>2 DEF HeapInv, HeapTypes, AddressMap, BlocksInMemory, MapErase
<1>5. HeapInv'
  BY <1>1, <1>2, <1>3, <1>4 DEF HeapInv, HeapTypes, NothingBeforeInit, ActiveIsKnown,
                                AddressMap, Block
<1> QED
  BY <1>1, <1>2, <1>3, <1>5 DEF Released, Returnable

\* The pages of an active or quarantined block are pages of the heap.
LEMMA BlockInHeap ==
  ASSUME HeapInv, NEW info \in hu_alloc_info,
         info.sys_ptr \in DOMAIN libc_blocks,
         libc_blocks[info.sys_ptr] = info.sys_size
  PROVE  Span(info.sys_ptr, info.sys_size) \in SUBSET Addresses
<1>1. /\ info.sys_ptr \in Addresses /\ info.sys_size \in Nat
      /\ info.sys_ptr + info.sys_size - 1 <= MemLast
  BY DEF HeapInv, BlocksInMemory, hu_alloc_info
<1> QED
  BY <1>1, LibcAssumption DEF Span, Addresses

\* An active pointer is released into quarantine or straight to libc.
LEMMA ActiveReleased ==
  ASSUME HeapInv, hu_malloc_inited, NEW ptr \in DOMAIN hu_active_allocs,
         hu_active_allocs' = MapErase(hu_active_allocs, ptr),
         Quarantine(hu_active_allocs[ptr]) \/ GiveBack(hu_active_allocs[ptr]),
         UNCHANGED <<setupVars, hu_user_addrs>>
  PROVE  Released(ptr)
<1> DEFINE info == hu_active_allocs[ptr]
<1>1. UNCHANGED <<hu_malloc_inited, hu_config>>
  BY DEF setupVars
<1>2. /\ info \in hu_alloc_info
      /\ info.sys_ptr \in DOMAIN libc_blocks
      /\ libc_blocks[info.sys_ptr] = info.sys_size
  BY DEF HeapInv, HeapTypes, AddressMap, Owns
<1>3. prot_none' \subseteq Addresses /\ mprotect_failed' \in BOOLEAN
  <2>1. Span(info.sys_ptr, info.sys_size) \in SUBSET Addresses
    BY <1>2, BlockInHeap
  <2>2. prot_none \subseteq Addresses /\ mprotect_failed \in BOOLEAN
    BY DEF HeapInv, HeapTypes
  <2>3. \/ ProtectNone(Span(info.sys_ptr, info.sys_size))
        \/ ProtectReadWrite(Span(info.sys_ptr, info.sys_size))
    BY DEF Quarantine, GiveBack
  <2> QED
    BY <2>1, <2>2, <2>3, ProtectTypes
<1>4. AddressMap(hu_active_allocs', hu_alloc_info) /\ ActiveIsKnown'
  BY DEF HeapInv, HeapTypes, AddressMap, ActiveIsKnown, Block, MapErase
<1>5. \A p : p # ptr /\ p \in DOMAIN hu_active_allocs => p \in DOMAIN hu_active_allocs'
  BY DEF MapErase
<1>6. CASE Quarantine(info)
  <2>1. UNCHANGED <<libc_blocks, libc_aborted, hu_quarantine_evicted>>
    BY <1>6 DEF Quarantine, libcVars
  <2>2. /\ hu_quarantine_allocs' = Append(hu_quarantine_allocs, info)
        /\ hu_quarantine_allocs' \in Seq(hu_alloc_info)
    BY <1>2, <1>6 DEF Quarantine, HeapInv, HeapTypes
  <2>3. hu_quarantine_size' \in Nat
    <3>1. /\ hu_quarantine_size \in Nat /\ info.sys_size \in Nat
          /\ SizeMod \in Nat \ {0}
      BY <1>2, LayoutAssumption DEF HeapInv, HeapTypes, hu_alloc_info
    <3> HIDE DEF info
    <3>2. (hu_quarantine_size + info.sys_size) % SizeMod \in Nat
      BY <3>1
    <3> QED
      BY <1>6, <3>2 DEF Quarantine
  <2>4. /\ Owns(libc_blocks, hu_active_allocs', hu_quarantine_allocs')
        /\ \A p : Plain(p, libc_blocks, hu_active_allocs, hu_quarantine_allocs)
                    => Plain(p, libc_blocks, hu_active_allocs', hu_quarantine_allocs')
    <3>1. hu_quarantine_allocs \in Seq(hu_alloc_info)
      BY DEF HeapInv, HeapTypes
    <3> QED
      BY <1>2, <2>2, <3>1, OwnsQuarantine DEF HeapInv
  <2>5. HeapTypes'
    BY <1>1, <1>3, <1>4, <2>1, <2>2, <2>3 DEF HeapInv, HeapTypes, AddressMap
  <2>6. HeapInv'
    BY <1>1, <1>4, <2>1, <2>4, <2>5 DEF HeapInv, BlocksInMemory, NothingBeforeInit
  <2> QED
    BY <1>5, <2>1, <2>4, <2>6 DEF Released, Returnable
<1>7. CASE GiveBack(info)
  <2>1. UNCHANGED <<hu_quarantine_allocs, hu_quarantine_size, hu_quarantine_evicted>>
    BY <1>7 DEF GiveBack, quarantineVars
  <2>2. /\ libc_blocks' = MapErase(libc_blocks, info.sys_ptr)
        /\ libc_aborted' = libc_aborted
    BY <1>2, <1>7 DEF GiveBack, LibcFree, HeapInv, HeapTypes
  <2>3. /\ Owns(libc_blocks', hu_active_allocs', hu_quarantine_allocs)
        /\ \A p : Plain(p, libc_blocks, hu_active_allocs, hu_quarantine_allocs)
                    => Plain(p, libc_blocks', hu_active_allocs', hu_quarantine_allocs)
    BY <2>2, OwnsGiveBack DEF HeapInv
  <2>4. AddressMap(libc_blocks', Nat \ {0}) /\ BlocksInMemory'
    BY <2>2 DEF HeapInv, HeapTypes, AddressMap, BlocksInMemory, MapErase
  <2>5. HeapTypes'
    BY <1>1, <1>3, <1>4, <2>1, <2>2, <2>4 DEF HeapInv, HeapTypes, AddressMap
  <2>6. HeapInv'
    BY <1>1, <1>4, <2>1, <2>3, <2>4, <2>5 DEF HeapInv, NothingBeforeInit
  <2> QED
    BY <1>5, <2>1, <2>2, <2>3, <2>6 DEF Released, Returnable
<1> QED
  BY <1>6, <1>7

\* hu_free of a pointer that is the caller's, of NULL, or of one freed before.
LEMMA ReleaseReleased ==
  ASSUME HeapInv, NEW ptr, ptr = NULL \/ Returnable(ptr) \/ ptr \in hu_user_addrs,
         Release(ptr),
         UNCHANGED setupVars
  PROVE  Released(ptr)
<1>1. CASE /\ ~hu_malloc_inited \/ (ptr # NULL /\ ptr \notin hu_user_addrs)
           /\ LibcFree(ptr)
           /\ UNCHANGED <<protVars, trackVars, quarantineVars>>
  <2>1. CASE ptr # NULL
    <3>1. Plain(ptr, libc_blocks, hu_active_allocs, hu_quarantine_allocs)
      BY <1>1, <2>1 DEF HeapInv, NothingBeforeInit, ActiveIsKnown, Returnable
    <3> QED
      BY <1>1, <3>1, PlainFree
  <2>2. CASE ptr = NULL
    <3>1. ptr \notin DOMAIN libc_blocks
      BY <2>2, LibcAssumption DEF NULL, HeapInv, HeapTypes, AddressMap, Addresses
    <3>2. libc_blocks' = MapErase(libc_blocks, ptr) /\ libc_aborted' = libc_aborted
      BY <1>1, <2>2 DEF LibcFree, HeapInv, HeapTypes
    <3>3. /\ DOMAIN libc_blocks' = DOMAIN libc_blocks
          /\ \A b \in DOMAIN libc_blocks : libc_blocks'[b] = libc_blocks[b]
      BY <3>1, <3>2 DEF MapErase
    <3>4. UNCHANGED <<prot_none, mprotect_failed, hu_malloc_inited, hu_config,
                      hu_user_addrs, hu_active_allocs, hu_quarantine_allocs,
                      hu_quarantine_size, hu_quarantine_evicted>>
      BY <1>1 DEF protVars, setupVars, trackVars, quarantineVars
    <3>5. HeapTypes' /\ BlocksInMemory'
      BY <3>2, <3>3, <3>4 DEF HeapInv, HeapTypes, AddressMap, BlocksInMemory
    <3>6. /\ Owns(libc_blocks', hu_active_allocs, hu_quarantine_allocs)
          /\ \A p : Plain(p, libc_blocks, hu_active_allocs, hu_quarantine_allocs)
                      => Plain(p, libc_blocks', hu_active_allocs, hu_quarantine_allocs)
      BY <3>3 DEF HeapInv, Owns, Plain
    <3>7. HeapInv'
      BY <3>4, <3>5, <3>6 DEF HeapInv, NothingBeforeInit, ActiveIsKnown, Block
    <3> QED
      BY <3>2, <3>4, <3>6, <3>7 DEF Released, Returnable
  <2> QED
    BY <2>1, <2>2
<1>2. CASE /\ hu_malloc_inited
           /\ ptr = NULL \/ (ptr \in hu_user_addrs /\ ptr \notin DOMAIN hu_active_allocs)
           /\ UNCHANGED <<libcVars, protVars, trackVars, quarantineVars>>
  <2>1. UNCHANGED <<libc_blocks, libc_aborted, prot_none, mprotect_failed,
                    hu_malloc_inited, hu_config, hu_user_addrs, hu_active_allocs,
                    hu_quarantine_allocs, hu_quarantine_size, hu_quarantine_evicted>>
    BY <1>2 DEF libcVars, protVars, setupVars, trackVars, quarantineVars
  <2> QED
    BY <2>1 DEF Released, Returnable, HeapInv, HeapTypes, BlocksInMemory,
                NothingBeforeInit, ActiveIsKnown, AddressMap, Block
<1>3. CASE /\ hu_malloc_inited
           /\ ptr \in hu_user_addrs /\ ptr \in DOMAIN hu_active_allocs
           /\ hu_active_allocs' = MapErase(hu_active_allocs, ptr)
           /\ IF hu_config.useafterfree
                THEN Quarantine(hu_active_allocs[ptr])
                ELSE GiveBack(hu_active_allocs[ptr])
           /\ UNCHANGED hu_user_addrs
  BY <1>3, ActiveReleased
<1> QED
  BY <1>1, <1>2, <1>3 DEF Release

\* libc resizes a plain block, or fails to.
LEMMA PlainRealloc ==
  ASSUME HeapInv, NEW ptr, NEW size \in Nat, Representable(size), NEW ret,
         Plain(ptr, libc_blocks, hu_active_allocs, hu_quarantine_allocs),
         ptr # NULL, size # 0,
         LibcRealloc(ptr, size, ret),
         UNCHANGED <<protVars, setupVars, trackVars, quarantineVars>>
  PROVE  /\ Released(ptr)
         /\ IF ret = NULL THEN Returnable(ptr)' ELSE Returnable(ret)'
<1> DEFINE others == MapErase(libc_blocks, ptr)
           len == LibcExtent(size)
<1>1. UNCHANGED <<prot_none, mprotect_failed, hu_malloc_inited, hu_config, hu_user_addrs,
                  hu_active_allocs, hu_quarantine_allocs, hu_quarantine_size,
                  hu_quarantine_evicted, libc_aborted>>
  <2>1. ptr \in DOMAIN libc_blocks
    BY DEF Plain
  <2> QED
    BY <2>1 DEF protVars, setupVars, trackVars, quarantineVars, LibcRealloc
<1>2. CASE ret = NULL /\ UNCHANGED libc_blocks
  <2>1. HeapInv'
    BY <1>1, <1>2 DEF HeapInv, HeapTypes, BlocksInMemory, NothingBeforeInit,
                      ActiveIsKnown, AddressMap, Block
  <2> QED
    BY <1>1, <1>2, <2>1 DEF Released, Returnable
<1>3. CASE /\ LibcFits(others, ret, len)
           /\ libc_blocks' = MapPut(others, ret, len)
  <2>1. len \in Nat \ {0}
    BY ExtentIsPositive
  <2>2. /\ AddressMap(others, Nat \ {0})
        /\ \A b \in DOMAIN others : b + others[b] - 1 <= MemLast
    BY DEF HeapInv, HeapTypes, AddressMap, BlocksInMemory, MapErase
  <2>3. /\ Owns(others, hu_active_allocs, hu_quarantine_allocs)
        /\ \A p : p # ptr /\ Plain(p, libc_blocks, hu_active_allocs, hu_quarantine_allocs)
                    => Plain(p, others, hu_active_allocs, hu_quarantine_allocs)
    BY OwnsErase DEF HeapInv
  <2> HIDE DEF others, len
  <2>4. /\ ret \in Addresses
        /\ ret + len - 1 <= MemLast
        /\ ret \notin DOMAIN others
    BY <1>3, <2>1, <2>2, PlacedApart
  <2>5. /\ Owns(libc_blocks', hu_active_allocs, hu_quarantine_allocs)
        /\ Plain(ret, libc_blocks', hu_active_allocs, hu_quarantine_allocs)
        /\ \A p : Plain(p, others, hu_active_allocs, hu_quarantine_allocs)
                    => Plain(p, libc_blocks', hu_active_allocs, hu_quarantine_allocs)
    BY <1>3, <2>3, <2>4, OwnsPut
  <2>6. AddressMap(libc_blocks', Nat \ {0}) /\ BlocksInMemory'
    BY <1>3, <2>1, <2>2, <2>4 DEF AddressMap, BlocksInMemory, MapPut
  <2>7. HeapInv'
    BY <1>1, <2>5, <2>6 DEF HeapInv, HeapTypes, NothingBeforeInit, ActiveIsKnown,
                            AddressMap, Block
  <2>8. ret # NULL
    BY <2>4, LibcAssumption DEF Addresses, NULL
  <2> QED
    BY <1>1, <2>3, <2>5, <2>7, <2>8 DEF Released, Returnable
<1>4. ptr \in DOMAIN libc_blocks
  BY DEF Plain
<1> QED
  BY <1>2, <1>3, <1>4 DEF LibcRealloc

\* The oldest block leaves the quarantine.
LEMMA EvictKeepsHeap ==
  ASSUME HeapInv, EvictOldest
  PROVE  /\ HeapInv'
         /\ libc_aborted' = libc_aborted
         /\ \A p : Returnable(p) => Returnable(p)'
         /\ hu_active_allocs' = hu_active_allocs
<1> DEFINE oldest == Head(hu_quarantine_allocs)
<1>1. UNCHANGED <<hu_malloc_inited, hu_config, hu_user_addrs, hu_active_allocs>>
  BY DEF EvictOldest, setupVars, trackVars
<1>2. /\ hu_quarantine_allocs \in Seq(hu_alloc_info)
      /\ hu_quarantine_allocs # <<>>
      /\ hu_quarantine_size \in Nat
  BY DEF EvictOldest, OverLimit, HeapInv, HeapTypes
<1>3. /\ oldest \in hu_alloc_info
      /\ oldest = hu_quarantine_allocs[1]
      /\ 1 \in 1 .. Len(hu_quarantine_allocs)
      /\ Tail(hu_quarantine_allocs) \in Seq(hu_alloc_info)
  BY <1>2
<1>4. /\ oldest.sys_ptr \in DOMAIN libc_blocks
      /\ libc_blocks[oldest.sys_ptr] = oldest.sys_size
  BY <1>3 DEF HeapInv, Owns
<1> HIDE DEF oldest
<1>5. prot_none' \subseteq Addresses /\ mprotect_failed' \in BOOLEAN
  <2>1. Span(oldest.sys_ptr, oldest.sys_size) \in SUBSET Addresses
    BY <1>3, <1>4, BlockInHeap
  <2>2. prot_none \subseteq Addresses /\ mprotect_failed \in BOOLEAN
    BY DEF HeapInv, HeapTypes
  <2>3. ProtectReadWrite(Span(oldest.sys_ptr, oldest.sys_size))
    BY DEF EvictOldest, oldest
  <2> QED
    BY <2>1, <2>2, <2>3, ProtectTypes
<1>6. /\ libc_blocks' = MapErase(libc_blocks, oldest.sys_ptr)
      /\ libc_aborted' = libc_aborted
  BY <1>4 DEF EvictOldest, LibcFree, HeapInv, HeapTypes, oldest
<1>7. /\ hu_quarantine_allocs' = Tail(hu_quarantine_allocs)
      /\ hu_quarantine_evicted' = TRUE
  BY DEF EvictOldest
<1>8. hu_quarantine_size' \in Nat
  <2>1. oldest.sys_size \in Nat /\ SizeMod \in Nat \ {0}
    BY <1>3, LayoutAssumption DEF hu_alloc_info
  <2>2. (hu_quarantine_size - oldest.sys_size) % SizeMod \in Nat
    BY <1>2, <2>1
  <2> QED
    BY <2>2 DEF EvictOldest, oldest
<1>9. /\ Owns(libc_blocks', hu_active_allocs, hu_quarantine_allocs')
      /\ \A p : Plain(p, libc_blocks, hu_active_allocs, hu_quarantine_allocs)
                  => Plain(p, libc_blocks', hu_active_allocs, hu_quarantine_allocs')
  BY <1>2, <1>6, <1>7, OwnsEvict DEF HeapInv, oldest
<1>10. AddressMap(libc_blocks', Nat \ {0}) /\ BlocksInMemory'
  BY <1>6 DEF HeapInv, HeapTypes, AddressMap, BlocksInMemory, MapErase
<1>11. HeapTypes'
  BY <1>1, <1>3, <1>5, <1>6, <1>7, <1>8, <1>10 DEF HeapInv, HeapTypes, AddressMap
<1>12. NothingBeforeInit' /\ ActiveIsKnown'
  BY <1>1, <1>2 DEF HeapInv, NothingBeforeInit, ActiveIsKnown, Block
<1> QED
  BY <1>1, <1>6, <1>9, <1>10, <1>11, <1>12 DEF HeapInv, Returnable

-----------------------------------------------------------------------------
(***************************************************************************)
(* The whole invariant: one lemma per call.                                *)
(***************************************************************************)

\* The process starts with an empty heap.
LEMMA InitAllocator == InitHuMalloc => AllocatorInv
<1> SUFFICES ASSUME InitHuMalloc PROVE AllocatorInv
  OBVIOUS
<1>1. DOMAIN NoEntries = {}
  BY DEF NoEntries
<1>2. hu_config \in [overflow : BOOLEAN, useafterfree : BOOLEAN,
                     minsize : Nat, quarantine_max_size : Nat]
  BY DEF InitHuMalloc
<1>3. hu_quarantine_allocs \in Seq(hu_alloc_info) /\ Len(hu_quarantine_allocs) = 0
  BY DEF InitHuMalloc
<1>4. HeapTypes
  BY <1>1, <1>2, <1>3 DEF InitHuMalloc, LibcInit, HeapTypes, AddressMap
<1> QED
  BY <1>1, <1>3, <1>4 DEF InitHuMalloc, LibcInit, AllocatorInv, HeapInv, BlocksInMemory, Owns,
              NothingBeforeInit, ActiveIsKnown, NeverAborts, AddressMap, HeldIsReturnable,
              PendingIsActive, Results

\* hu_malloc_init sets the configuration only.
LEMMA InitCallKeeps ==
  ASSUME AllocatorInv, NEW config \in ConfigType, hu_malloc_init(config)
  PROVE  AllocatorInv'
<1>1. UNCHANGED <<libc_blocks, libc_aborted, prot_none, mprotect_failed, hu_user_addrs,
                  hu_active_allocs, hu_quarantine_allocs, hu_quarantine_size,
                  hu_quarantine_evicted, pending_free, kept>>
  BY DEF hu_malloc_init, libcVars, protVars, trackVars, quarantineVars
<1>2. hu_malloc_inited' = TRUE
  BY DEF hu_malloc_init
<1>3. hu_config' \in [overflow : BOOLEAN, useafterfree : BOOLEAN,
                      minsize : Nat, quarantine_max_size : Nat]
  <2>1. config \in ConfigType
    OBVIOUS
  <2>2. QuarantineMaxSize(config.quarantine_pct) \in Nat
    <3>1. SizeMod \in Nat \ {0} /\ PhysPages \in Nat /\ PageSize \in Nat
      BY LayoutAssumption
    <3>2. config.quarantine_pct \in Nat
      BY <2>1 DEF ConfigType
    <3>3. PhysPages * PageSize \in Nat
      BY <3>1
    <3>4. (PhysPages * PageSize) % SizeMod \in Nat
      BY <3>1, <3>3
    <3>5. ((PhysPages * PageSize) % SizeMod) * config.quarantine_pct \in Nat
      BY <3>2, <3>4
    <3>6. (((PhysPages * PageSize) % SizeMod) * config.quarantine_pct) % SizeMod \in Nat
      BY <3>1, <3>5
    <3> QED
      BY <3>6 DEF QuarantineMaxSize
  <2> QED
    BY <2>1, <2>2 DEF hu_malloc_init, ConfigType
<1>4. HeapInv'
  BY <1>1, <1>2, <1>3 DEF AllocatorInv, HeapInv, HeapTypes, BlocksInMemory,
                          NothingBeforeInit, ActiveIsKnown, AddressMap, Block
<1> QED
  BY <1>1, <1>4 DEF AllocatorInv, NeverAborts, AddressMap, HeldIsReturnable, Returnable,
                    PendingIsActive

\* What callers hold after a call that returned ret.
LEMMA HoldReturnable ==
  ASSUME NEW blocks, AddressMap(blocks, Nat), NEW ret \in Results, NEW size \in Nat,
         \A p \in DOMAIN blocks : Returnable(p)',
         ret # NULL => Returnable(ret)',
         kept' = Hold(blocks, ret, size)
  PROVE  AddressMap(kept', Nat) /\ HeldIsReturnable'
<1>1. CASE ret = NULL
  BY <1>1 DEF Hold, HeldIsReturnable
<1>2. CASE ret # NULL
  <2>1. ret \in Addresses
    BY <1>2 DEF Results
  <2>2. kept' = MapPut(blocks, ret, size)
    BY <1>2 DEF Hold
  <2> QED
    BY <1>2, <2>1, <2>2 DEF MapPut, AddressMap, HeldIsReturnable
<1> QED
  BY <1>1, <1>2

\* What callers hold after they gave up ptr.
LEMMA EraseReturnable ==
  ASSUME AllocatorInv, NEW ptr,
         \A p : p # ptr /\ Returnable(p) => Returnable(p)'
  PROVE  /\ AddressMap(MapErase(kept, ptr), Nat)
         /\ \A p \in DOMAIN MapErase(kept, ptr) : Returnable(p)'
  BY DEF AllocatorInv, AddressMap, HeldIsReturnable, MapErase

\* An allocation on behalf of a caller.
LEMMA AllocatedKeeps ==
  ASSUME AllocatorInv, NEW ret \in Results, NEW size \in Nat, Allocated(ret),
         pending_free = NULL, pending_free' = pending_free,
         kept' = Hold(kept, ret, size)
  PROVE  AllocatorInv'
<1>1. AddressMap(kept', Nat) /\ HeldIsReturnable'
  BY HoldReturnable DEF AllocatorInv, HeldIsReturnable, Allocated
<1> QED
  BY <1>1 DEF AllocatorInv, Allocated, NeverAborts, PendingIsActive

\* A call that releases ptr.
LEMMA ReleasedKeeps ==
  ASSUME AllocatorInv, NEW ptr, Released(ptr),
         pending_free' = NULL,
         kept' = MapErase(kept, ptr)
  PROVE  AllocatorInv'
<1>1. AddressMap(kept', Nat) /\ HeldIsReturnable'
  BY EraseReturnable DEF Released, HeldIsReturnable
<1> QED
  BY <1>1 DEF AllocatorInv, Released, NeverAborts, PendingIsActive, Results

\* malloc.
LEMMA MallocKeeps ==
  ASSUME AllocatorInv, NEW size \in Sizes, NEW ret \in Results, hu_malloc(size, ret)
  PROVE  AllocatorInv'
<1>1. size \in Nat /\ Representable(size)
  BY HuMallocAssumption
<1>2. Allocated(ret)
  BY <1>1, AllocateAllocated DEF hu_malloc, AllocatorInv
<1> QED
  BY <1>1, <1>2, AllocatedKeeps DEF hu_malloc, Idle

\* calloc: where the product is a size_t, the total is the product.
LEMMA CallocKeeps ==
  ASSUME AllocatorInv, NEW count \in Counts, NEW size \in Sizes, NEW ret \in Results,
         hu_calloc(count, size, ret)
  PROVE  AllocatorInv'
<1>1. /\ count * size \in Nat
      /\ Representable(count * size)
  BY HuMallocAssumption
<1>2. CallocTotal(count, size) = count * size
  <2>1. SizeMod \in Nat /\ SizeMultiple \in Nat \ {0} /\ PageSize \in Nat
    BY LayoutAssumption
  <2> DEFINE product == count * size
  <2>2. product \in Nat /\ Representable(product)
    BY <1>1
  <2> HIDE DEF product
  <2>3. product < SizeMod
    BY <2>1, <2>2 DEF Representable
  <2>4. product % SizeMod = product
    BY <2>1, <2>2, <2>3, SmallRemainder
  <2> QED
    BY <2>4 DEF CallocTotal, product
<1>3. Allocated(ret)
  <2>1. CASE LibcMalloc(count * size, ret) /\ UNCHANGED <<protVars, trackVars>>
    BY <1>1, <2>1, PlainMalloc DEF hu_calloc, AllocatorInv
  <2>2. CASE Allocate(CallocTotal(count, size), ret)
    BY <1>1, <1>2, <2>2, AllocateAllocated DEF hu_calloc, AllocatorInv
  <2>3. CASE ret = NULL /\ UNCHANGED <<libcVars, protVars, trackVars>>
    <3>1. UNCHANGED <<libc_blocks, libc_aborted, prot_none, mprotect_failed,
                      hu_malloc_inited, hu_config, hu_user_addrs, hu_active_allocs,
                      hu_quarantine_allocs, hu_quarantine_size, hu_quarantine_evicted>>
      BY <2>3 DEF hu_calloc, libcVars, protVars, setupVars, trackVars, quarantineVars
    <3>2. HeapInv'
      BY <3>1 DEF AllocatorInv, HeapInv, HeapTypes, BlocksInMemory, NothingBeforeInit,
                  ActiveIsKnown, AddressMap, Block
    <3> QED
      BY <2>3, <3>1, <3>2 DEF Allocated, Returnable
  <2> QED
    BY <2>1, <2>2, <2>3 DEF hu_calloc
<1> QED
  BY <1>1, <1>3, AllocatedKeeps DEF hu_calloc, Idle

\* free, also of a fenced block that has been freed before.
LEMMA FreeKeeps ==
  ASSUME AllocatorInv, NEW ptr \in Resizable \cup FreedBefore, hu_free(ptr)
  PROVE  AllocatorInv'
<1>1. ptr = NULL \/ Returnable(ptr) \/ ptr \in hu_user_addrs
  BY DEF Resizable, FreedBefore, AllocatorInv, HeldIsReturnable
<1>2. Released(ptr)
  BY <1>1, ReleaseReleased DEF hu_free, AllocatorInv
<1>3. pending_free' = NULL /\ kept' = MapErase(kept, ptr)
  BY DEF hu_free, Idle
<1> QED
  BY <1>2, <1>3, ReleasedKeeps

\* A call that takes ptr from its caller and gives it ret, or leaves it ptr.
LEMMA HandedOver ==
  ASSUME AllocatorInv, NEW ptr, NEW ret \in Results, NEW size \in Nat, Released(ptr),
         IF ret = NULL /\ size # 0
           THEN Returnable(ptr)' /\ kept' = kept
           ELSE (ret # NULL => Returnable(ret)') /\ kept' = Hold(MapErase(kept, ptr), ret, size),
         pending_free' = NULL
  PROVE  AllocatorInv'
<1>1. AddressMap(kept', Nat) /\ HeldIsReturnable'
  <2>1. CASE ret = NULL /\ size # 0
    BY <2>1 DEF AllocatorInv, Released, AddressMap, HeldIsReturnable
  <2>2. CASE ~(ret = NULL /\ size # 0)
    <3>1. /\ AddressMap(MapErase(kept, ptr), Nat)
          /\ \A p \in DOMAIN MapErase(kept, ptr) : Returnable(p)'
      BY EraseReturnable DEF Released
    <3> QED
      BY <2>2, <3>1, HoldReturnable
  <2> QED
    BY <2>1, <2>2
<1> QED
  BY <1>1 DEF AllocatorInv, Released, NeverAborts, PendingIsActive, Results

\* A block that is not fenced: libc's realloc.
LEMMA LibcReallocKeeps ==
  ASSUME AllocatorInv, NEW ptr \in Resizable, NEW size \in Nat, Representable(size),
         NEW ret \in Results,
         ~hu_malloc_inited \/ (ptr # NULL /\ size # 0 /\ ptr \notin DOMAIN hu_active_allocs),
         LibcRealloc(ptr, size, ret),
         kept' = IF ret = NULL /\ size # 0 THEN kept
                 ELSE Hold(MapErase(kept, ptr), ret, size),
         UNCHANGED <<protVars, setupVars, trackVars, quarantineVars>>,
         pending_free' = NULL
  PROVE  AllocatorInv'
<1>1. ptr # NULL => Plain(ptr, libc_blocks, hu_active_allocs, hu_quarantine_allocs)
  BY DEF Resizable, AllocatorInv, HeldIsReturnable, Returnable, HeapInv, NothingBeforeInit
<1>2. CASE ptr = NULL /\ LibcMalloc(size, ret)
  <2>1. Allocated(ret)
    BY <1>2, PlainMalloc DEF AllocatorInv
  <2>2. AddressMap(kept', Nat) /\ HeldIsReturnable'
    <3>1. CASE ret = NULL /\ size # 0
      BY <2>1, <3>1 DEF AllocatorInv, Allocated, AddressMap, HeldIsReturnable
    <3>2. CASE ~(ret = NULL /\ size # 0)
      <4>1. /\ AddressMap(MapErase(kept, ptr), Nat)
            /\ \A p \in DOMAIN MapErase(kept, ptr) : Returnable(p)'
        BY <2>1, EraseReturnable DEF Allocated
      <4> QED
        BY <2>1, <3>2, <4>1, HoldReturnable DEF Allocated
    <3> QED
      BY <3>1, <3>2
  <2> QED
    BY <2>1, <2>2 DEF AllocatorInv, Allocated, NeverAborts, PendingIsActive, Results
<1>3. CASE ptr # NULL /\ size = 0 /\ ret = NULL /\ LibcFree(ptr)
  <2>1. Released(ptr)
    BY <1>1, <1>3, PlainFree DEF AllocatorInv
  <2> QED
    BY <1>3, <2>1, HandedOver
<1>4. CASE ptr # NULL /\ size # 0
  <2>1. /\ Released(ptr)
        /\ IF ret = NULL THEN Returnable(ptr)' ELSE Returnable(ret)'
    BY <1>1, <1>4, PlainRealloc DEF AllocatorInv
  <2> QED
    BY <1>4, <2>1, HandedOver
<1>5. NULL \notin DOMAIN libc_blocks
  BY LibcAssumption DEF NULL, AllocatorInv, HeapInv, HeapTypes, AddressMap, Addresses
<1> QED
  BY <1>2, <1>3, <1>4, <1>5 DEF LibcRealloc

\* The first half of a fenced block's move: the new block is not the old one.
LEMMA MovedKeeps ==
  ASSUME AllocatorInv, NEW ptr \in Resizable, NEW size \in Nat, Representable(size),
         NEW ret \in Results,
         ReallocMoved(ptr, size, ret), UNCHANGED setupVars
  PROVE  AllocatorInv'
<1>1. /\ ptr # NULL
      /\ ptr \in DOMAIN hu_active_allocs
      /\ pending_free' = ptr
      /\ kept' = Hold(MapErase(kept, ptr), ret, size)
  BY DEF ReallocMoved
<1>2. Allocated(ret)
  BY AllocateAllocated DEF ReallocMoved, AllocatorInv
<1>3. /\ AddressMap(MapErase(kept, ptr), Nat)
      /\ \A p \in DOMAIN MapErase(kept, ptr) : Returnable(p)'
  BY <1>2, EraseReturnable DEF Allocated
<1>4. AddressMap(kept', Nat) /\ HeldIsReturnable'
  BY <1>1, <1>2, <1>3, HoldReturnable DEF Allocated
<1>5. ptr \in Results
  BY <1>1 DEF AllocatorInv, HeapInv, HeapTypes, AddressMap, Results
<1>6. ret = NULL \/ ret # ptr
  BY <1>1, <1>2 DEF Allocated
<1>7. ptr \notin DOMAIN kept'
  BY <1>1, <1>6 DEF Hold, MapPut, MapErase
<1>8. PendingIsActive'
  BY <1>1, <1>2, <1>7 DEF PendingIsActive, Allocated
<1> QED
  BY <1>1, <1>2, <1>4, <1>5, <1>8 DEF AllocatorInv, Allocated, NeverAborts

\* realloc.
LEMMA ReallocKeeps ==
  ASSUME AllocatorInv, NEW ptr \in Resizable, NEW size \in Sizes, NEW ret \in Results,
         hu_realloc(ptr, size, ret)
  PROVE  AllocatorInv'
<1>1. size \in Nat /\ Representable(size)
  BY HuMallocAssumption
<1>2. pending_free = NULL /\ UNCHANGED setupVars
  BY DEF hu_realloc, Idle
<1>3. CASE ReallocMoved(ptr, size, ret)
  BY <1>1, <1>2, <1>3, MovedKeeps
<1>4. CASE ReallocPassedOn(ptr, size, ret) /\ UNCHANGED pending_free
  <2>1. CASE /\ \/ ~hu_malloc_inited
                \/ ptr # NULL /\ size # 0 /\ ptr \notin DOMAIN hu_active_allocs
             /\ LibcRealloc(ptr, size, ret)
             /\ kept' = IF ret = NULL /\ size # 0 THEN kept
                        ELSE Hold(MapErase(kept, ptr), ret, size)
             /\ UNCHANGED <<protVars, trackVars, quarantineVars>>
    BY <1>1, <1>2, <1>4, <2>1, LibcReallocKeeps
  <2>2. CASE /\ Allocate(size, ret)
             /\ kept' = Hold(kept, ret, size)
             /\ UNCHANGED quarantineVars
    <3>1. Allocated(ret)
      BY <1>1, <1>2, <2>2, AllocateAllocated DEF AllocatorInv
    <3> QED
      BY <1>1, <1>2, <1>4, <2>2, <3>1, AllocatedKeeps
  <2>3. CASE Release(ptr) /\ kept' = MapErase(kept, ptr)
    <3>1. ptr = NULL \/ Returnable(ptr)
      BY DEF Resizable, AllocatorInv, HeldIsReturnable
    <3>2. Released(ptr)
      BY <1>2, <2>3, <3>1, ReleaseReleased DEF AllocatorInv
    <3> QED
      BY <1>2, <1>4, <2>3, <3>2, ReleasedKeeps
  <2> QED
    BY <1>4, <2>1, <2>2, <2>3 DEF ReallocPassedOn
<1> QED
  BY <1>3, <1>4 DEF hu_realloc

\* The second half of the move: the old block is still active, and nobody's.
LEMMA ReallocFreeKeeps ==
  ASSUME AllocatorInv, ReallocFree
  PROVE  AllocatorInv'
<1> PICK ptr : ptr = pending_free
  OBVIOUS
<1>1. /\ ptr \in DOMAIN hu_active_allocs
      /\ ptr \notin DOMAIN kept
  BY DEF AllocatorInv, PendingIsActive, ReallocFree
<1>2. Released(ptr)
  <2>1. Release(ptr) /\ UNCHANGED setupVars
    BY DEF ReallocFree, Release
  <2> QED
    BY <1>1, <2>1, ReleaseReleased DEF Returnable, AllocatorInv
<1>3. pending_free' = NULL /\ kept' = kept
  BY DEF ReallocFree
<1> QED
  BY <1>1, <1>2, <1>3 DEF AllocatorInv, Released, NeverAborts, PendingIsActive, Results,
                          AddressMap, HeldIsReturnable

\* A round of the eviction loop.
LEMMA EvictKeeps ==
  ASSUME AllocatorInv, EvictOldest
  PROVE  AllocatorInv'
<1>1. /\ HeapInv'
      /\ libc_aborted' = libc_aborted
      /\ \A p : Returnable(p) => Returnable(p)'
      /\ hu_active_allocs' = hu_active_allocs
  BY EvictKeepsHeap DEF AllocatorInv
<1>2. pending_free' = pending_free /\ kept' = kept
  BY DEF EvictOldest
<1> QED
  BY <1>1, <1>2 DEF AllocatorInv, NeverAborts, PendingIsActive, AddressMap, HeldIsReturnable

\* Every step keeps the invariant.
LEMMA NextAllocator == AllocatorInv /\ [NextHuMalloc]_mallocVars => AllocatorInv'
<1> SUFFICES ASSUME AllocatorInv, [NextHuMalloc]_mallocVars PROVE AllocatorInv'
  OBVIOUS
<1>1. CASE \E config \in Configs : hu_malloc_init(config)
  BY <1>1, InitCallKeeps, HuMallocAssumption
<1>2. CASE \E size \in Sizes, ret \in Results : hu_malloc(size, ret)
  BY <1>2, MallocKeeps
<1>3. CASE \E count \in Counts, size \in Sizes, ret \in Results : hu_calloc(count, size, ret)
  BY <1>3, CallocKeeps
<1>4. CASE \E ptr \in Resizable \cup FreedBefore : hu_free(ptr)
  BY <1>4, FreeKeeps
<1>5. CASE \E ptr \in Resizable, size \in Sizes, ret \in Results : hu_realloc(ptr, size, ret)
  BY <1>5, ReallocKeeps
<1>6. CASE ReallocFree
  BY <1>6, ReallocFreeKeeps
<1>7. CASE EvictOldest
  BY <1>7, EvictKeeps
<1>8. CASE UNCHANGED mallocVars
  <2>1. UNCHANGED <<libc_blocks, libc_aborted, prot_none, mprotect_failed,
                    hu_malloc_inited, hu_config, hu_user_addrs, hu_active_allocs,
                    hu_quarantine_allocs, hu_quarantine_size, hu_quarantine_evicted,
                    pending_free, kept>>
    BY <1>8 DEF mallocVars, libcVars, protVars, setupVars, trackVars, quarantineVars
  <2>2. HeapInv'
    BY <2>1 DEF AllocatorInv, HeapInv, HeapTypes, BlocksInMemory, NothingBeforeInit,
                ActiveIsKnown, AddressMap, Block
  <2> QED
    BY <2>1, <2>2 DEF AllocatorInv, NeverAborts, AddressMap, HeldIsReturnable, Returnable,
                      PendingIsActive
<1> QED
  BY <1>1, <1>2, <1>3, <1>4, <1>5, <1>6, <1>7, <1>8 DEF NextHuMalloc

-----------------------------------------------------------------------------
(***************************************************************************)
(* The theorems.                                                           *)
(***************************************************************************)

\* The inductive invariant holds in every state humalloc.cpp can reach.
THEOREM AllocatorInvariant == SpecHuMalloc => []AllocatorInv
  BY InitAllocator, NextAllocator, PTL DEF SpecHuMalloc

\* What a failed hu_realloc took from a caller is a block that was fenced.
TakenInv == AddressMap(taken, Nat) /\ DOMAIN taken \subseteq hu_user_addrs

\* What is taken stays so until its caller frees it; if nobody else was given the
\* address in the meantime, that frees nothing of what is kept.
TakenStep ==
  \/ DOMAIN taken \subseteq DOMAIN taken'
  \/ \E p \in DOMAIN taken \ DOMAIN kept :
       DOMAIN taken' = DOMAIN taken \ {p} /\ kept' = MapErase(kept, p)

\* Nothing has been taken to begin with.
LEMMA InitTaken == InitHuMalloc => TakenInv
  BY DEF InitHuMalloc, TakenInv, NoEntries, AddressMap

\* The pointers humalloc has had stay in hu_user_addrs.
LEMMA AddrsStay ==
  ASSUME NEW size, NEW ret, NEW ptr, Allocate(size, ret) \/ Release(ptr)
  PROVE  hu_user_addrs \subseteq hu_user_addrs'
  BY DEF Allocate, FencedMalloc, Release, trackVars

\* The caller of free, or of realloc for 0 bytes, hands ptr back.
LEMMA TakenFreed ==
  ASSUME TakenInv, NEW ptr, taken' = TakenBut(ptr), kept' = MapErase(kept, ptr),
         hu_user_addrs \subseteq hu_user_addrs', hu_user_addrs' \subseteq Addresses
  PROVE  TakenInv' /\ TakenStep
<1>1. CASE ptr \in DOMAIN kept
  BY <1>1 DEF TakenBut, TakenInv, TakenStep, AddressMap
<1>2. CASE ptr \notin DOMAIN kept
  <2>1. /\ DOMAIN taken' = DOMAIN taken \ {ptr}
        /\ \A p \in DOMAIN taken' : taken'[p] = taken[p]
    BY <1>2 DEF TakenBut, MapErase
  <2> QED
    BY <1>2, <2>1 DEF TakenInv, TakenStep, AddressMap
<1> QED
  BY <1>1, <1>2

\* The step of a realloc.
LEMMA TakenByRealloc ==
  ASSUME AllocatorInv, AllocatorInv', TakenInv, NEW ptr \in Resizable, NEW size, NEW ret,
         hu_realloc(ptr, size, ret)
  PROVE  TakenInv' /\ TakenStep
<1>1. hu_user_addrs' \subseteq Addresses
  BY DEF AllocatorInv, HeapInv, HeapTypes
<1>2. CASE ReallocMoved(ptr, size, ret)
  <2>1. /\ ptr \in DOMAIN kept /\ kept[ptr] \in Nat /\ ptr \in Addresses
        /\ ptr \in hu_user_addrs
    BY <1>2 DEF ReallocMoved, Resizable, AllocatorInv, AddressMap, HeapInv, ActiveIsKnown
  <2>2. hu_user_addrs \subseteq hu_user_addrs'
    BY <1>2, AddrsStay DEF ReallocMoved
  <2>3. taken' = taken \/ taken' = MapPut(taken, ptr, kept[ptr])
    BY <1>2 DEF ReallocMoved, Taken
  <2> QED
    BY <2>1, <2>2, <2>3 DEF TakenInv, TakenStep, AddressMap, MapPut
<1>3. CASE ReallocPassedOn(ptr, size, ret)
  <2>1. CASE /\ UNCHANGED <<protVars, trackVars, quarantineVars>>
             /\ taken' = taken
    BY <2>1 DEF TakenInv, TakenStep, AddressMap, trackVars
  <2>2. CASE /\ UNCHANGED <<protVars, trackVars, quarantineVars>>
             /\ taken' = TakenBut(ptr) /\ ptr \in DOMAIN kept
    BY <2>2 DEF TakenInv, TakenStep, TakenBut, AddressMap, trackVars
  <2>3. CASE /\ UNCHANGED <<protVars, trackVars, quarantineVars>>
             /\ taken' = TakenBut(ptr) /\ ptr = NULL
    <3>1. NULL \notin DOMAIN taken
      BY LibcAssumption DEF TakenInv, AddressMap, Addresses, NULL
    <3>2. DOMAIN taken' = DOMAIN taken /\ \A p \in DOMAIN taken' : taken'[p] = taken[p]
      BY <2>3, <3>1 DEF TakenBut, MapErase
    <3> QED
      BY <2>3, <3>2 DEF TakenInv, TakenStep, AddressMap, trackVars
  <2>4. CASE Allocate(size, ret) /\ taken' = taken
    <3>1. hu_user_addrs \subseteq hu_user_addrs'
      BY <2>4, AddrsStay
    <3> QED
      BY <2>4, <3>1 DEF TakenInv, TakenStep, AddressMap
  <2>5. CASE Release(ptr) /\ kept' = MapErase(kept, ptr) /\ taken' = TakenBut(ptr)
    <3>1. hu_user_addrs \subseteq hu_user_addrs'
      BY <2>5, AddrsStay
    <3> QED
      BY <1>1, <2>5, <3>1, TakenFreed
  <2> QED
    BY <1>3, <2>1, <2>2, <2>3, <2>4, <2>5 DEF ReallocPassedOn, Resizable
<1> QED
  BY <1>2, <1>3 DEF hu_realloc

\* Every step keeps it.
LEMMA NextTaken ==
  ASSUME AllocatorInv, AllocatorInv', TakenInv, [NextHuMalloc]_mallocVars
  PROVE  TakenInv' /\ TakenStep
<1>0. ASSUME taken' = taken, hu_user_addrs \subseteq hu_user_addrs'
      PROVE  TakenInv' /\ TakenStep
  BY <1>0 DEF TakenInv, TakenStep, AddressMap
<1>1. CASE \E config \in Configs : hu_malloc_init(config)
  BY <1>0, <1>1 DEF hu_malloc_init, trackVars
<1>2. CASE \E size \in Sizes, ret \in Results : hu_malloc(size, ret)
  BY <1>0, <1>2, AddrsStay DEF hu_malloc
<1>3. CASE \E count \in Counts, size \in Sizes, ret \in Results : hu_calloc(count, size, ret)
  BY <1>0, <1>3, AddrsStay DEF hu_calloc, trackVars
<1>4. CASE \E ptr \in Resizable \cup FreedBefore : hu_free(ptr)
  <2>1. PICK ptr : hu_free(ptr)
    BY <1>4
  <2>2. /\ hu_user_addrs \subseteq hu_user_addrs'
        /\ taken' = TakenBut(ptr) /\ kept' = MapErase(kept, ptr)
    BY <2>1, AddrsStay DEF hu_free
  <2>3. hu_user_addrs' \subseteq Addresses
    BY DEF AllocatorInv, HeapInv, HeapTypes
  <2> QED
    BY <2>2, <2>3, TakenFreed
<1>5. CASE \E ptr \in Resizable, size \in Sizes, ret \in Results : hu_realloc(ptr, size, ret)
  BY <1>5, TakenByRealloc
<1>6. CASE ReallocFree
  BY <1>0, <1>6, AddrsStay DEF ReallocFree
<1>7. CASE EvictOldest
  BY <1>0, <1>7 DEF EvictOldest, trackVars
<1>8. CASE UNCHANGED mallocVars
  BY <1>0, <1>8 DEF mallocVars, trackVars
<1> QED
  BY <1>1, <1>2, <1>3, <1>4, <1>5, <1>6, <1>7, <1>8 DEF NextHuMalloc

\* So it holds in every state.
LEMMA TakenInvariant == SpecHuMalloc => []TakenInv
<1>1. AllocatorInv /\ AllocatorInv' /\ TakenInv /\ [NextHuMalloc]_mallocVars => TakenInv'
  BY NextTaken
<1> QED
  BY <1>1, InitTaken, AllocatorInvariant, PTL DEF SpecHuMalloc

\* humalloc's state keeps its types, whatever is asked of it.
THEOREM TypesKept == SpecHuMalloc => []TypeOKHuMalloc
<1>1. AllocatorInv /\ TakenInv => TypeOKHuMalloc
  BY DEF AllocatorInv, HeapInv, HeapTypes, TypeOKHuMalloc, TakenInv
<1> QED
  BY <1>1, AllocatorInvariant, TakenInvariant, PTL

\* Each block in use or in quarantine is a block libc has not got back, of the
\* length humalloc recorded for it, and recorded once.
THEOREM BlocksOwnedOnce == SpecHuMalloc => []OwnsItsBlocks
<1>1. AllocatorInv => OwnsItsBlocks
  BY DEF AllocatorInv, HeapInv, Owns, OwnsItsBlocks, Active, Quarantined
<1> QED
  BY <1>1, AllocatorInvariant, PTL

\* No call, and no double free of a fenced block, makes humalloc give libc a
\* pointer libc did not hand out or has already got back.
THEOREM NeverAbortsEver == SpecHuMalloc => []NeverAborts
<1>1. AllocatorInv => NeverAborts
  BY DEF AllocatorInv
<1> QED
  BY <1>1, AllocatorInvariant, PTL

-----------------------------------------------------------------------------
(***************************************************************************)
(* Where blocks lie: what callers may rely on of the memory they are given. *)
(***************************************************************************)

\* The blocks of libc share no byte.
Apart(blocks) ==
  \A b, c \in DOMAIN blocks : b # c => Span(b, blocks[b]) \cap Span(c, blocks[c]) = {}

FenceSize == IF hu_config.overflow THEN PageSize ELSE 0

\* The bytes a caller may use, from the user pointer to the end of the last
\* double word, lie in the block and in front of its fence.
Laid(info) ==
  LET usable == hu_calc_user_size(info.user_size)
  IN  /\ usable \in Nat
      /\ info.user_size \in 1 .. usable
      /\ info.sys_ptr <= info.user_ptr
      /\ info.user_ptr + usable <= info.sys_ptr + info.sys_size - FenceSize

LaidOut ==
  /\ \A p \in DOMAIN hu_active_allocs :
       hu_active_allocs[p].user_ptr = p /\ Laid(hu_active_allocs[p])
  /\ \A i \in 1 .. Len(hu_quarantine_allocs) : Laid(hu_quarantine_allocs[i])

\* addr ought to be protected: it is in the fence of a block in use, or in a
\* block in quarantine.
ToProtect(addr) ==
  \/ \E p \in DOMAIN hu_active_allocs : addr \in Fence(hu_active_allocs[p])
  \/ \E i \in 1 .. Len(hu_quarantine_allocs) : addr \in Block(hu_quarantine_allocs[i])

Protected == ~mprotect_failed => \A addr \in Addresses : addr \in prot_none <=> ToProtect(addr)

\* p has room for n bytes: it is active for that many, or a block of libc's with
\* that many or more.
HasRoom(active, blocks, p, n) ==
  \/ p \in DOMAIN active /\ active[p].user_size = n
  \/ p \notin DOMAIN active /\ p \in DOMAIN blocks /\ n <= blocks[p]

Room(p, n) == HasRoom(hu_active_allocs, libc_blocks, p, n)

HeldHasRoom == \A p \in DOMAIN kept : Room(p, kept[p])

\* kept is a function, so that it is known by its entries.
HeldIsMap == kept = [p \in DOMAIN kept |-> kept[p]]

GeometryInv == Apart(libc_blocks) /\ LaidOut /\ Protected

MemoryInv == AllocatorInv /\ GeometryInv /\ HeldHasRoom /\ HeldIsMap

-----------------------------------------------------------------------------
(***************************************************************************)
(* The blocks of libc.                                                     *)
(***************************************************************************)

\* A new block is placed apart from the others.
LEMMA ApartPut ==
  ASSUME NEW blocks, AddressMap(blocks, Nat \ {0}), Apart(blocks),
         NEW b, NEW len \in Nat \ {0}, LibcFits(blocks, b, len)
  PROVE  Apart(MapPut(blocks, b, len))
<1>1. /\ b \notin DOMAIN blocks
      /\ \A c \in DOMAIN blocks : Span(b, len) \cap Span(c, blocks[c]) = {}
  BY PlacedApart
<1>2. /\ DOMAIN MapPut(blocks, b, len) = DOMAIN blocks \cup {b}
      /\ MapPut(blocks, b, len)[b] = len
      /\ \A c \in DOMAIN blocks : MapPut(blocks, b, len)[c] = blocks[c]
  BY <1>1 DEF MapPut
<1> QED
  BY <1>1, <1>2 DEF Apart

\* What is left of blocks that lie apart lies apart.
LEMMA ApartErase ==
  ASSUME NEW blocks, Apart(blocks), NEW b
  PROVE  Apart(MapErase(blocks, b))
<1>1. /\ DOMAIN MapErase(blocks, b) = DOMAIN blocks \ {b}
      /\ \A c \in DOMAIN blocks \ {b} : MapErase(blocks, b)[c] = blocks[c]
  BY DEF MapErase
<1> QED
  BY <1>1 DEF Apart

\* The records of humalloc and the blocks they stand for.
LEMMA RecordTypes ==
  ASSUME HeapInv
  PROVE  /\ \A p \in DOMAIN hu_active_allocs :
              /\ p \in Addresses
              /\ hu_active_allocs[p] \in hu_alloc_info
              /\ hu_active_allocs[p].sys_ptr \in DOMAIN libc_blocks
              /\ libc_blocks[hu_active_allocs[p].sys_ptr] = hu_active_allocs[p].sys_size
         /\ \A i \in 1 .. Len(hu_quarantine_allocs) :
              /\ hu_quarantine_allocs[i] \in hu_alloc_info
              /\ hu_quarantine_allocs[i].sys_ptr \in DOMAIN libc_blocks
              /\ libc_blocks[hu_quarantine_allocs[i].sys_ptr] = hu_quarantine_allocs[i].sys_size
<1>1. hu_quarantine_allocs \in Seq(hu_alloc_info)
  BY DEF HeapInv, HeapTypes
<1>2. \A i \in 1 .. Len(hu_quarantine_allocs) : hu_quarantine_allocs[i] \in hu_alloc_info
  BY <1>1
<1> QED
  BY <1>2 DEF HeapInv, HeapTypes, AddressMap, Owns

\* The fence is the last page of its block.
LEMMA FenceInBlock ==
  ASSUME HeapInv, NEW info \in hu_alloc_info, Laid(info)
  PROVE  /\ Fence(info) \subseteq Block(info)
         /\ \A n \in Nat : n <= hu_calc_user_size(info.user_size) =>
              /\ Span(info.user_ptr, n) \subseteq Block(info)
              /\ Span(info.user_ptr, n) \cap Fence(info) = {}
<1>1. /\ info.sys_ptr \in Nat /\ info.user_ptr \in Nat /\ info.sys_size \in Nat
      /\ PageSize \in Nat
      /\ hu_config.overflow \in BOOLEAN
  BY LibcAssumption, LayoutAssumption DEF HeapInv, HeapTypes, hu_alloc_info, Addresses
<1> QED
  BY <1>1 DEF Laid, Fence, FencePtr, FenceOffset, Block, Span, FenceSize

-----------------------------------------------------------------------------
(***************************************************************************)
(* Owners and what they own.                                               *)
(***************************************************************************)

\* Blocks of different owners lie apart: two active ones, two in quarantine, one
\* of each, and a plain one and any of these.
LEMMA OwnersApart ==
  ASSUME HeapInv, Apart(libc_blocks)
  PROVE  /\ \A p, q \in DOMAIN hu_active_allocs :
              p # q => Block(hu_active_allocs[p]) \cap Block(hu_active_allocs[q]) = {}
         /\ \A i, j \in 1 .. Len(hu_quarantine_allocs) :
              i # j => Block(hu_quarantine_allocs[i]) \cap Block(hu_quarantine_allocs[j]) = {}
         /\ \A p \in DOMAIN hu_active_allocs, i \in 1 .. Len(hu_quarantine_allocs) :
              Block(hu_active_allocs[p]) \cap Block(hu_quarantine_allocs[i]) = {}
         /\ \A b : Plain(b, libc_blocks, hu_active_allocs, hu_quarantine_allocs) =>
              /\ \A p \in DOMAIN hu_active_allocs :
                   Span(b, libc_blocks[b]) \cap Block(hu_active_allocs[p]) = {}
              /\ \A i \in 1 .. Len(hu_quarantine_allocs) :
                   Span(b, libc_blocks[b]) \cap Block(hu_quarantine_allocs[i]) = {}
<1>1. \A b, c \in DOMAIN libc_blocks :
        b # c => Span(b, libc_blocks[b]) \cap Span(c, libc_blocks[c]) = {}
  BY DEF Apart
<1>2. /\ \A p \in DOMAIN hu_active_allocs :
           /\ hu_active_allocs[p].sys_ptr \in DOMAIN libc_blocks
           /\ Block(hu_active_allocs[p]) =
                Span(hu_active_allocs[p].sys_ptr, libc_blocks[hu_active_allocs[p].sys_ptr])
      /\ \A i \in 1 .. Len(hu_quarantine_allocs) :
           /\ hu_quarantine_allocs[i].sys_ptr \in DOMAIN libc_blocks
           /\ Block(hu_quarantine_allocs[i]) =
                Span(hu_quarantine_allocs[i].sys_ptr, libc_blocks[hu_quarantine_allocs[i].sys_ptr])
  BY RecordTypes DEF Block
<1>3. Owns(libc_blocks, hu_active_allocs, hu_quarantine_allocs)
  BY DEF HeapInv
<1> QED
  BY <1>1, <1>2, <1>3 DEF Owns, Plain

\* Nothing of the layout or the protection depends on libc's other blocks.
LEMMA LayoutUntouched ==
  ASSUME LaidOut, Protected,
         UNCHANGED <<prot_none, mprotect_failed, hu_config, hu_active_allocs,
                     hu_quarantine_allocs>>
  PROVE  LaidOut' /\ Protected'
  BY DEF LaidOut, Laid, FenceSize, Protected, ToProtect, Fence, FencePtr, Block

-----------------------------------------------------------------------------
(***************************************************************************)
(* The memory behind each thing a call does to the heap.                   *)
(***************************************************************************)

\* size bytes at ret lie in memory that no block in blocks uses.
NewMemory(blocks, ret, size) ==
  \E b \in Addresses, len \in Nat :
    /\ b + len - 1 <= MemLast
    /\ ret \in Span(b, len)
    /\ Span(ret, size) \subseteq Span(b, len)
    /\ \A c \in DOMAIN blocks : Span(b, len) \cap Span(c, blocks[c]) = {}

\* What an allocation that returned ret for size bytes leaves behind.
Placed(ret, size) ==
  /\ GeometryInv'
  /\ \A p, n : Returnable(p) /\ Room(p, n) => Room(p, n)'
  /\ ret # NULL => Room(ret, size)' /\ NewMemory(libc_blocks, ret, size)

\* A block of libc's has room for the request.
LEMMA ExtentFits ==
  ASSUME NEW n \in Nat, Representable(n)
  PROVE  n <= LibcExtent(n)
<1>1. CASE n = 0
  BY <1>1, LayoutAssumption DEF LibcExtent
<1>2. CASE n # 0
  <2>1. hu_calc_user_size(n) \in n .. (n + SizeMultiple - 1)
    BY SysSizeBounds
  <2>2. SizeMultiple \in Nat
    BY LayoutAssumption
  <2> QED
    BY <1>2, <2>1, <2>2 DEF LibcExtent
<1> QED
  BY <1>1, <1>2

\* A plain block, also one put where another has been taken away.
LEMMA PlainPut ==
  ASSUME NEW blocks, AddressMap(blocks, Nat \ {0}), Apart(blocks),
         NEW size \in Nat, Representable(size), NEW ret,
         LibcFits(blocks, ret, LibcExtent(size))
  PROVE  /\ ret # NULL
         /\ ret \notin DOMAIN blocks
         /\ Apart(MapPut(blocks, ret, LibcExtent(size)))
         /\ size <= MapPut(blocks, ret, LibcExtent(size))[ret]
         /\ NewMemory(blocks, ret, size)
<1> DEFINE len == LibcExtent(size)
<1>1. len \in Nat \ {0} /\ size <= len
  BY ExtentIsPositive, ExtentFits
<1> HIDE DEF len
<1>2. LibcFits(blocks, ret, len)
  BY DEF len
<1>3. /\ ret \in Addresses
      /\ ret + len - 1 <= MemLast
      /\ ret \notin DOMAIN blocks
      /\ \A c \in DOMAIN blocks : Span(ret, len) \cap Span(c, blocks[c]) = {}
  BY <1>1, <1>2, PlacedApart
<1>4. Apart(MapPut(blocks, ret, len))
  BY <1>1, <1>2, ApartPut
<1>5. MapPut(blocks, ret, len)[ret] = len
  BY DEF MapPut
<1>6. ret # NULL /\ ret \in Span(ret, len) /\ Span(ret, size) \subseteq Span(ret, len)
  BY <1>1, <1>3, LibcAssumption DEF Addresses, NULL, Span
<1>7. NewMemory(blocks, ret, size)
  BY <1>1, <1>3, <1>6 DEF NewMemory
<1> QED
  BY <1>1, <1>3, <1>4, <1>5, <1>6, <1>7 DEF len

\* malloc in libc.
LEMMA PlainPlaced ==
  ASSUME HeapInv, GeometryInv, NEW size \in Nat, Representable(size), NEW ret,
         LibcMalloc(size, ret),
         UNCHANGED <<protVars, setupVars, trackVars, quarantineVars>>
  PROVE  Placed(ret, size)
<1>1. UNCHANGED <<prot_none, mprotect_failed, hu_config, hu_active_allocs,
                  hu_quarantine_allocs>>
  BY DEF protVars, setupVars, trackVars, quarantineVars
<1>2. LaidOut' /\ Protected'
  BY <1>1, LayoutUntouched DEF GeometryInv
<1>3. CASE ret = NULL /\ UNCHANGED libc_blocks
  BY <1>1, <1>2, <1>3 DEF Placed, GeometryInv, Room, HasRoom
<1>4. CASE /\ LibcFits(libc_blocks, ret, LibcExtent(size))
           /\ libc_blocks' = MapPut(libc_blocks, ret, LibcExtent(size))
  <2>1. /\ ret \notin DOMAIN libc_blocks
        /\ Apart(libc_blocks')
        /\ size <= libc_blocks'[ret]
        /\ NewMemory(libc_blocks, ret, size)
    BY <1>4, PlainPut DEF HeapInv, HeapTypes, GeometryInv
  <2>2. /\ DOMAIN libc_blocks' = DOMAIN libc_blocks \cup {ret}
        /\ \A p \in DOMAIN libc_blocks : libc_blocks'[p] = libc_blocks[p]
    BY <1>4, <2>1 DEF MapPut
  <2>3. ret \notin DOMAIN hu_active_allocs
    <3>1. PICK b, len : /\ ret \in Span(b, len)
                        /\ \A c \in DOMAIN libc_blocks :
                             Span(b, len) \cap Span(c, libc_blocks[c]) = {}
      BY <2>1 DEF NewMemory
    <3> QED
      BY <3>1, ActiveInBlock
  <2>4. Room(ret, size)'
    BY <1>1, <2>1, <2>2, <2>3 DEF Room, HasRoom
  <2>5. \A p, n : Room(p, n) => Room(p, n)'
    BY <1>1, <2>2 DEF Room, HasRoom
  <2> QED
    BY <1>2, <2>1, <2>4, <2>5 DEF Placed, GeometryInv
<1> QED
  BY <1>3, <1>4 DEF LibcMalloc

\* The whole double words of a request lie in its block, in front of the fence.
LEMMA UsableLayout ==
  ASSUME NEW n \in Nat \ {0}, Representable(n), NEW overflow \in BOOLEAN,
         NEW sys, sys = hu_calc_sys_size(hu_calc_user_size(n), overflow)
  PROVE  /\ hu_calc_user_size(n) \in Nat
         /\ n \in 1 .. hu_calc_user_size(n)
         /\ UserOffset(n, overflow) + hu_calc_user_size(n)
              <= sys - (IF overflow THEN PageSize ELSE 0)
<1> DEFINE rounded == hu_calc_user_size(n)
           fence == IF overflow THEN PageSize ELSE 0
<1>1. PageSize \in Nat \ {0} /\ SizeMultiple \in Nat \ {0}
  BY LayoutAssumption
<1>2. /\ rounded \in n .. (n + SizeMultiple - 1)
      /\ sys \in (rounded + fence) .. (rounded + fence + PageSize - 1)
  BY SysSizeBounds
<1>3. UserOffset(n, overflow) = IF overflow THEN (sys - PageSize) - rounded ELSE 0
  BY DEF UserOffset, FenceOffset
<1> HIDE DEF rounded
<1>4. /\ rounded \in Nat
      /\ n \in 1 .. rounded
      /\ UserOffset(n, overflow) + rounded <= sys - fence
  BY <1>1, <1>2, <1>3
<1> QED
  BY <1>4 DEF rounded

\* A block with pages of its own, as it is recorded.
LEMMA FencedStep ==
  ASSUME HeapInv, NEW size \in Nat, Representable(size), ~PlainRequest(size),
         NEW ret \in Results \ {NULL},
         FencedMalloc(size, ret)
  PROVE  \E info \in hu_alloc_info :
           /\ info.user_ptr = ret /\ info.user_size = size
           /\ Laid(info)
           /\ ret \in Block(info)
           /\ info.sys_size \in Nat \ {0}
           /\ LibcFits(libc_blocks, info.sys_ptr, info.sys_size)
           /\ libc_blocks' = MapPut(libc_blocks, info.sys_ptr, info.sys_size)
           /\ hu_active_allocs' = MapInsert(hu_active_allocs, ret, info)
           /\ IF hu_config.overflow THEN ProtectNone(Fence(info)) ELSE UNCHANGED protVars
<1> DEFINE sys_ptr == ret - UserOffset(size, hu_config.overflow)
           len == SysSize(size)
           info == [user_ptr |-> ret, user_size |-> size, sys_ptr |-> sys_ptr, sys_size |-> len]
<1>1. /\ LibcMemalign(len, sys_ptr)
      /\ sys_ptr # NULL
      /\ hu_active_allocs' = MapInsert(hu_active_allocs, ret, info)
      /\ IF hu_config.overflow THEN ProtectNone(Fence(info)) ELSE UNCHANGED protVars
  BY DEF FencedMalloc
<1>2. size # 0 /\ hu_config.overflow \in BOOLEAN /\ ret \in Addresses /\ ret \in Nat
  BY LibcAssumption DEF PlainRequest, HeapInv, HeapTypes, Results, Addresses
<1>3. /\ len \in Nat \ {0}
      /\ UserOffset(size, hu_config.overflow) \in 0 .. (len - 1)
  BY <1>2, BlockLayout DEF SysSize
<1>4. /\ hu_calc_user_size(size) \in Nat
      /\ size \in 1 .. hu_calc_user_size(size)
      /\ UserOffset(size, hu_config.overflow) + hu_calc_user_size(size) <= len - FenceSize
  BY <1>2, UsableLayout DEF SysSize, FenceSize
<1>5. /\ LibcFits(libc_blocks, sys_ptr, len)
      /\ libc_blocks' = MapPut(libc_blocks, sys_ptr, len)
  BY <1>1 DEF LibcMemalign
<1>6. ret \in Span(sys_ptr, len)
  BY <1>2, <1>3 DEF Span
<1>7. sys_ptr \in Addresses
  BY <1>5 DEF LibcFits
<1>8. FenceSize \in Nat
  BY LayoutAssumption DEF FenceSize
<1>9. /\ sys_ptr <= ret
      /\ ret + hu_calc_user_size(size) <= sys_ptr + len - FenceSize
  BY <1>2, <1>3, <1>4, <1>8
<1> HIDE DEF sys_ptr, len
<1>10. /\ info.user_ptr = ret /\ info.user_size = size
       /\ info.sys_ptr = sys_ptr /\ info.sys_size = len
       /\ info \in hu_alloc_info
  BY <1>2, <1>3, <1>7 DEF hu_alloc_info
<1> HIDE DEF info
<1>11. Laid(info)
  BY <1>4, <1>9, <1>10 DEF Laid
<1> QED
  BY <1>1, <1>3, <1>5, <1>6, <1>10, <1>11 DEF Block

\* A new block with pages of its own is protected at its fence and nowhere else.
LEMMA FencedPlaced ==
  ASSUME HeapInv, GeometryInv, NEW size \in Nat, Representable(size), ~PlainRequest(size),
         NEW ret \in Results,
         FencedMalloc(size, ret),
         UNCHANGED <<setupVars, quarantineVars>>
  PROVE  Placed(ret, size)
<1>1. UNCHANGED <<hu_config, hu_quarantine_allocs>>
  BY DEF setupVars, quarantineVars
<1>2. CASE ret = NULL
  <2>1. ~LibcFits(libc_blocks, NULL, SysSize(size))
    BY DEF LibcFits, NULL, Addresses
  <2>2. UNCHANGED <<libc_blocks, prot_none, mprotect_failed, hu_active_allocs>>
    BY <1>2, <2>1 DEF FencedMalloc, LibcMemalign, protVars, trackVars
  <2> QED
    BY <1>1, <1>2, <2>2, LayoutUntouched DEF Placed, GeometryInv, Room, HasRoom
<1>3. CASE ret # NULL
  <2>1. PICK info \in hu_alloc_info :
           /\ info.user_ptr = ret /\ info.user_size = size
           /\ Laid(info)
           /\ ret \in Block(info)
           /\ info.sys_size \in Nat \ {0}
           /\ LibcFits(libc_blocks, info.sys_ptr, info.sys_size)
           /\ libc_blocks' = MapPut(libc_blocks, info.sys_ptr, info.sys_size)
           /\ hu_active_allocs' = MapInsert(hu_active_allocs, ret, info)
           /\ IF hu_config.overflow THEN ProtectNone(Fence(info)) ELSE UNCHANGED protVars
    BY <1>3, FencedStep
  <2>2. /\ info.sys_ptr \in Addresses
        /\ info.sys_ptr + info.sys_size - 1 <= MemLast
        /\ info.sys_ptr \notin DOMAIN libc_blocks
        /\ \A c \in DOMAIN libc_blocks : Block(info) \cap Span(c, libc_blocks[c]) = {}
    BY <2>1, PlacedApart DEF HeapInv, HeapTypes, Block
  <2>3. ret \notin DOMAIN hu_active_allocs
    BY <2>1, <2>2, ActiveInBlock
  <2>4. /\ DOMAIN hu_active_allocs' = DOMAIN hu_active_allocs \cup {ret}
        /\ hu_active_allocs'[ret] = info
        /\ \A p \in DOMAIN hu_active_allocs : hu_active_allocs'[p] = hu_active_allocs[p]
    BY <2>1, <2>3 DEF MapInsert
  <2>5. /\ DOMAIN libc_blocks' = DOMAIN libc_blocks \cup {info.sys_ptr}
        /\ \A c \in DOMAIN libc_blocks : libc_blocks'[c] = libc_blocks[c]
    BY <2>1, <2>2 DEF MapPut
  <2>6. Apart(libc_blocks')
    BY <2>1, ApartPut DEF HeapInv, HeapTypes, GeometryInv
  <2>7. LaidOut'
    BY <1>1, <2>1, <2>4 DEF GeometryInv, LaidOut, Laid, FenceSize
  <2>8. \A addr : ToProtect(addr)' <=> ToProtect(addr) \/ addr \in Fence(info)
    BY <1>1, <2>4 DEF ToProtect, Block, Fence, FencePtr
  <2>9. Protected'
    <3>1. ~mprotect_failed' => ~mprotect_failed /\ prot_none' = prot_none \cup Fence(info)
      <4>1. CASE hu_config.overflow
        BY <2>1, <4>1 DEF ProtectNone, MprotectFails
      <4>2. CASE ~hu_config.overflow
        BY <2>1, <4>2 DEF protVars, Fence
      <4> QED
        BY <4>1, <4>2
    <3> QED
      BY <2>8, <3>1 DEF GeometryInv, Protected
  <2>10. \A p, n : Returnable(p) /\ Room(p, n) => Room(p, n)'
    <3>1. ret \notin DOMAIN libc_blocks
      <4>1. \A c \in DOMAIN libc_blocks : c \in Span(c, libc_blocks[c])
        BY LibcAssumption DEF HeapInv, HeapTypes, AddressMap, Addresses, Span
      <4> QED
        BY <2>1, <2>2, <4>1
    <3> QED
      BY <2>4, <2>5, <3>1 DEF Room, HasRoom
  <2>11. Room(ret, size)'
    BY <2>1, <2>4 DEF Room, HasRoom
  <2>12. NewMemory(libc_blocks, ret, size)
    <3>1. Span(ret, size) \subseteq Block(info)
      BY <2>1, FenceInBlock DEF Laid
    <3> QED
      BY <2>1, <2>2, <3>1 DEF NewMemory, Block
  <2> QED
    BY <2>6, <2>7, <2>9, <2>10, <2>11, <2>12 DEF Placed, GeometryInv
<1> QED
  BY <1>2, <1>3

\* hu_malloc's part of any call.
LEMMA AllocatePlaced ==
  ASSUME HeapInv, GeometryInv, NEW size \in Nat, Representable(size), NEW ret \in Results,
         Allocate(size, ret),
         UNCHANGED <<setupVars, quarantineVars>>
  PROVE  Placed(ret, size)
  BY PlainPlaced, FencedPlaced DEF Allocate

\* What giving up the pointer ptr leaves behind.
LeftInPlace(ptr) ==
  /\ GeometryInv'
  /\ \A p, n : p # ptr /\ Returnable(p) /\ Room(p, n) => Room(p, n)'

\* A plain block that libc gets back.
LEMMA PlainLeftInPlace ==
  ASSUME HeapInv, GeometryInv, NEW ptr, LibcFree(ptr),
         UNCHANGED <<protVars, setupVars, trackVars, quarantineVars>>
  PROVE  LeftInPlace(ptr)
<1>1. UNCHANGED <<prot_none, mprotect_failed, hu_config, hu_active_allocs,
                  hu_quarantine_allocs>>
  BY DEF protVars, setupVars, trackVars, quarantineVars
<1>2. LaidOut' /\ Protected'
  BY <1>1, LayoutUntouched DEF GeometryInv
<1>3. libc_blocks' = MapErase(libc_blocks, ptr)
  BY DEF LibcFree
<1>4. Apart(libc_blocks')
  BY <1>3, ApartErase DEF GeometryInv
<1>5. \A p, n : p # ptr /\ Room(p, n) => Room(p, n)'
  BY <1>1, <1>3 DEF Room, HasRoom, MapErase
<1> QED
  BY <1>2, <1>4, <1>5 DEF LeftInPlace, GeometryInv

\* What is protected when the block of info is freed: the rest as before.
LEMMA OthersProtected ==
  ASSUME HeapInv, GeometryInv
  PROVE  /\ \A p, q \in DOMAIN hu_active_allocs :
              p # q => Fence(hu_active_allocs[p]) \cap Block(hu_active_allocs[q]) = {}
         /\ \A p \in DOMAIN hu_active_allocs, i \in 1 .. Len(hu_quarantine_allocs) :
              Fence(hu_active_allocs[p]) \cap Block(hu_quarantine_allocs[i]) = {}
         /\ \A p \in DOMAIN hu_active_allocs : Fence(hu_active_allocs[p]) \subseteq Block(hu_active_allocs[p])
<1>1. \A p \in DOMAIN hu_active_allocs :
        Fence(hu_active_allocs[p]) \subseteq Block(hu_active_allocs[p])
  BY FenceInBlock, RecordTypes DEF GeometryInv, LaidOut
<1> QED
  BY <1>1, OwnersApart DEF GeometryInv

\* A block in use goes into quarantine: all of it is protected, and nothing else
\* changes its protection.
LEMMA QuarantineLeftInPlace ==
  ASSUME HeapInv, GeometryInv, NEW ptr \in DOMAIN hu_active_allocs,
         hu_active_allocs' = MapErase(hu_active_allocs, ptr),
         Quarantine(hu_active_allocs[ptr]),
         UNCHANGED <<setupVars, hu_user_addrs>>
  PROVE  LeftInPlace(ptr)
<1> DEFINE info == hu_active_allocs[ptr]
<1>1. UNCHANGED <<hu_config, libc_blocks>>
  BY DEF setupVars, Quarantine, libcVars
<1>2. /\ DOMAIN hu_active_allocs' = DOMAIN hu_active_allocs \ {ptr}
      /\ \A p \in DOMAIN hu_active_allocs' : hu_active_allocs'[p] = hu_active_allocs[p]
  BY DEF MapErase
<1>3. /\ Len(hu_quarantine_allocs') = Len(hu_quarantine_allocs) + 1
      /\ Len(hu_quarantine_allocs) \in Nat
      /\ \A i \in 1 .. Len(hu_quarantine_allocs) :
           hu_quarantine_allocs'[i] = hu_quarantine_allocs[i]
      /\ hu_quarantine_allocs'[Len(hu_quarantine_allocs) + 1] = info
  <2>1. hu_quarantine_allocs \in Seq(hu_alloc_info)
    BY DEF HeapInv, HeapTypes
  <2>2. info \in hu_alloc_info
    BY RecordTypes
  <2>3. hu_quarantine_allocs' = Append(hu_quarantine_allocs, info)
    BY DEF Quarantine
  <2> HIDE DEF info
  <2> QED
    BY <2>1, <2>2, <2>3
<1>4. \A i \in 1 .. Len(hu_quarantine_allocs') :
        \/ /\ i \in 1 .. Len(hu_quarantine_allocs)
           /\ hu_quarantine_allocs'[i] = hu_quarantine_allocs[i]
        \/ hu_quarantine_allocs'[i] = info
  BY <1>3
<1>5. /\ Fence(info) \subseteq Block(info)
      /\ Laid(info)
  BY OthersProtected DEF GeometryInv, LaidOut
<1>6. ~mprotect_failed' => ~mprotect_failed /\ prot_none' = prot_none \cup Block(info)
  BY DEF Quarantine, ProtectNone, MprotectFails, Block
<1> HIDE DEF info
<1>7. LaidOut'
  <2>1. \A any : Laid(any)' <=> Laid(any)
    BY <1>1 DEF Laid, FenceSize
  <2>2. \A i \in 1 .. Len(hu_quarantine_allocs') : Laid(hu_quarantine_allocs'[i])
    BY <1>4, <1>5 DEF GeometryInv, LaidOut
  <2>3. \A p \in DOMAIN hu_active_allocs' :
          hu_active_allocs'[p].user_ptr = p /\ Laid(hu_active_allocs'[p])
    BY <1>2 DEF GeometryInv, LaidOut
  <2> QED
    BY <1>1, <2>2, <2>3 DEF LaidOut, Laid, FenceSize
<1>8. \A addr : ToProtect(addr)' <=> ToProtect(addr) \/ addr \in Block(info)
  <2>1. Len(hu_quarantine_allocs') \in Nat /\ Len(hu_quarantine_allocs') \in 1 .. Len(hu_quarantine_allocs')
    BY <1>3
  <2>2. ASSUME NEW addr
        PROVE  (\E i \in 1 .. Len(hu_quarantine_allocs') : addr \in Block(hu_quarantine_allocs'[i]))
                 <=> \/ \E i \in 1 .. Len(hu_quarantine_allocs) : addr \in Block(hu_quarantine_allocs[i])
                     \/ addr \in Block(info)
    BY <1>3, <1>4, <2>1
  <2>3. ASSUME NEW addr
        PROVE  (\E p \in DOMAIN hu_active_allocs : addr \in Fence(hu_active_allocs[p]))
                 <=> \/ \E p \in DOMAIN hu_active_allocs' : addr \in Fence(hu_active_allocs'[p])
                     \/ addr \in Fence(info)
    BY <1>2 DEF info
  <2>4. ASSUME NEW addr
        PROVE  ToProtect(addr)'
                 <=> \/ \E p \in DOMAIN hu_active_allocs' : addr \in Fence(hu_active_allocs'[p])
                     \/ \E i \in 1 .. Len(hu_quarantine_allocs') : addr \in Block(hu_quarantine_allocs'[i])
    BY <1>1 DEF ToProtect, Fence, FencePtr, Block
  <2> QED
    BY <1>5, <2>2, <2>3, <2>4 DEF ToProtect
<1>9. Protected'
  BY <1>6, <1>8 DEF GeometryInv, Protected
<1>10. \A p, n : p # ptr /\ Room(p, n) => Room(p, n)'
  BY <1>1, <1>2 DEF Room, HasRoom
<1>11. Apart(libc_blocks')
  BY <1>1 DEF GeometryInv
<1> QED
  BY <1>7, <1>9, <1>10, <1>11 DEF LeftInPlace, GeometryInv

\* A block in use goes straight back to libc, unprotected.
LEMMA GiveBackLeftInPlace ==
  ASSUME HeapInv, GeometryInv, NEW ptr \in DOMAIN hu_active_allocs,
         hu_active_allocs' = MapErase(hu_active_allocs, ptr),
         GiveBack(hu_active_allocs[ptr]),
         UNCHANGED <<setupVars, hu_user_addrs>>
  PROVE  LeftInPlace(ptr)
<1> DEFINE info == hu_active_allocs[ptr]
<1>1. UNCHANGED <<hu_config, hu_quarantine_allocs>>
  BY DEF setupVars, GiveBack, quarantineVars
<1>2. /\ DOMAIN hu_active_allocs' = DOMAIN hu_active_allocs \ {ptr}
      /\ \A p \in DOMAIN hu_active_allocs' : hu_active_allocs'[p] = hu_active_allocs[p]
  BY DEF MapErase
<1>3. libc_blocks' = MapErase(libc_blocks, info.sys_ptr)
  BY DEF GiveBack, LibcFree
<1>4. ~mprotect_failed' => ~mprotect_failed /\ prot_none' = prot_none \ Block(info)
  BY DEF GiveBack, ProtectReadWrite, MprotectFails, Block
<1>5. LaidOut'
  BY <1>1, <1>2 DEF GeometryInv, LaidOut, Laid, FenceSize
<1>6. \A addr : ToProtect(addr)' <=> ToProtect(addr) /\ addr \notin Block(info)
  <2>1. ASSUME NEW addr
        PROVE  ToProtect(addr)'
                 <=> \/ \E p \in DOMAIN hu_active_allocs' : addr \in Fence(hu_active_allocs'[p])
                     \/ \E i \in 1 .. Len(hu_quarantine_allocs) : addr \in Block(hu_quarantine_allocs[i])
    BY <1>1 DEF ToProtect, Fence, FencePtr, Block
  <2>2. /\ \A p \in DOMAIN hu_active_allocs' : Fence(hu_active_allocs[p]) \cap Block(info) = {}
        /\ \A i \in 1 .. Len(hu_quarantine_allocs) : Block(hu_quarantine_allocs[i]) \cap Block(info) = {}
        /\ Fence(info) \subseteq Block(info)
    BY <1>2, OthersProtected, OwnersApart DEF GeometryInv
  <2> QED
    BY <1>2, <2>1, <2>2 DEF ToProtect
<1>7. Protected'
  BY <1>4, <1>6 DEF GeometryInv, Protected
<1>8. \A p, n : p # ptr /\ Returnable(p) /\ Room(p, n) => Room(p, n)'
  BY <1>2, <1>3 DEF Room, HasRoom, Returnable, Plain, MapErase
<1>9. Apart(libc_blocks')
  BY <1>3, ApartErase DEF GeometryInv
<1> QED
  BY <1>5, <1>7, <1>8, <1>9 DEF LeftInPlace, GeometryInv

\* The oldest block leaves the quarantine, unprotected.
LEMMA EvictLeftInPlace ==
  ASSUME HeapInv, GeometryInv, EvictOldest
  PROVE  GeometryInv' /\ \A p, n : Returnable(p) /\ Room(p, n) => Room(p, n)'
<1> DEFINE oldest == Head(hu_quarantine_allocs)
<1>1. UNCHANGED <<hu_config, hu_active_allocs>>
  BY DEF EvictOldest, setupVars, trackVars
<1>2. /\ 1 \in 1 .. Len(hu_quarantine_allocs)
      /\ oldest = hu_quarantine_allocs[1]
      /\ Len(hu_quarantine_allocs') = Len(hu_quarantine_allocs) - 1
      /\ Len(hu_quarantine_allocs) \in Nat
      /\ \A i \in 1 .. Len(hu_quarantine_allocs') :
           hu_quarantine_allocs'[i] = hu_quarantine_allocs[i + 1]
  <2>1. /\ hu_quarantine_allocs \in Seq(hu_alloc_info)
        /\ hu_quarantine_allocs # <<>>
        /\ hu_quarantine_allocs' = Tail(hu_quarantine_allocs)
    BY DEF EvictOldest, OverLimit, HeapInv, HeapTypes
  <2> QED
    BY <2>1
<1>3. libc_blocks' = MapErase(libc_blocks, oldest.sys_ptr)
  BY DEF EvictOldest, LibcFree
<1>4. ~mprotect_failed' => ~mprotect_failed /\ prot_none' = prot_none \ Block(oldest)
  BY DEF EvictOldest, ProtectReadWrite, MprotectFails, Block
<1> HIDE DEF oldest
<1>5. /\ \A i \in 1 .. Len(hu_quarantine_allocs') :
           i + 1 \in 1 .. Len(hu_quarantine_allocs) /\ i + 1 # 1
      /\ \A i \in 1 .. Len(hu_quarantine_allocs) :
           i # 1 => i - 1 \in 1 .. Len(hu_quarantine_allocs') /\ (i - 1) + 1 = i
  BY <1>2
<1>6. LaidOut'
  <2>1. \A i \in 1 .. Len(hu_quarantine_allocs') : Laid(hu_quarantine_allocs'[i])
    BY <1>2, <1>5 DEF GeometryInv, LaidOut
  <2> QED
    BY <1>1, <2>1 DEF GeometryInv, LaidOut, Laid, FenceSize
<1>7. \A addr : ToProtect(addr)' <=> ToProtect(addr) /\ addr \notin Block(oldest)
  <2>1. ASSUME NEW addr
        PROVE  ToProtect(addr)'
                 <=> \/ \E p \in DOMAIN hu_active_allocs : addr \in Fence(hu_active_allocs[p])
                     \/ \E i \in 1 .. Len(hu_quarantine_allocs') : addr \in Block(hu_quarantine_allocs'[i])
    BY <1>1 DEF ToProtect, Fence, FencePtr, Block
  <2>2. /\ \A p \in DOMAIN hu_active_allocs : Fence(hu_active_allocs[p]) \cap Block(oldest) = {}
        /\ \A i \in 1 .. Len(hu_quarantine_allocs) :
             i # 1 => Block(hu_quarantine_allocs[i]) \cap Block(oldest) = {}
    BY <1>2, OthersProtected, OwnersApart DEF GeometryInv
  <2>3. ASSUME NEW addr
        PROVE  (\E i \in 1 .. Len(hu_quarantine_allocs') : addr \in Block(hu_quarantine_allocs'[i]))
                 <=> \E i \in 1 .. Len(hu_quarantine_allocs) :
                       i # 1 /\ addr \in Block(hu_quarantine_allocs[i])
    <3>1. ASSUME NEW i \in 1 .. Len(hu_quarantine_allocs'), addr \in Block(hu_quarantine_allocs'[i])
          PROVE  \E j \in 1 .. Len(hu_quarantine_allocs) :
                   j # 1 /\ addr \in Block(hu_quarantine_allocs[j])
      BY <1>2, <1>5, <3>1
    <3>2. ASSUME NEW j \in 1 .. Len(hu_quarantine_allocs), j # 1,
                 addr \in Block(hu_quarantine_allocs[j])
          PROVE  \E i \in 1 .. Len(hu_quarantine_allocs') : addr \in Block(hu_quarantine_allocs'[i])
      <4>1. /\ j - 1 \in 1 .. Len(hu_quarantine_allocs')
            /\ hu_quarantine_allocs'[j - 1] = hu_quarantine_allocs[j]
        BY <1>2, <1>5, <3>2
      <4> QED
        BY <3>2, <4>1
    <3> QED
      BY <3>1, <3>2
  <2> QED
    BY <1>2, <2>1, <2>2, <2>3 DEF ToProtect
<1>8. Protected'
  BY <1>4, <1>7 DEF GeometryInv, Protected
<1>9. \A p, n : Returnable(p) /\ Room(p, n) => Room(p, n)'
  BY <1>1, <1>2, <1>3 DEF Room, HasRoom, Returnable, Plain, MapErase
<1>10. Apart(libc_blocks')
  BY <1>3, ApartErase DEF GeometryInv
<1> QED
  BY <1>6, <1>8, <1>9, <1>10 DEF GeometryInv

\* hu_free.
LEMMA ReleaseLeftInPlace ==
  ASSUME HeapInv, GeometryInv, NEW ptr, Release(ptr), UNCHANGED setupVars
  PROVE  LeftInPlace(ptr)
<1>1. CASE LibcFree(ptr) /\ UNCHANGED <<protVars, trackVars, quarantineVars>>
  BY <1>1, PlainLeftInPlace
<1>2. CASE UNCHANGED <<libcVars, protVars, trackVars, quarantineVars>>
  <2>1. UNCHANGED <<libc_blocks, prot_none, mprotect_failed, hu_config, hu_active_allocs,
                    hu_quarantine_allocs>>
    BY <1>2 DEF libcVars, protVars, setupVars, trackVars, quarantineVars
  <2> QED
    BY <2>1, LayoutUntouched DEF LeftInPlace, GeometryInv, Room, HasRoom
<1>3. CASE /\ ptr \in DOMAIN hu_active_allocs
           /\ hu_active_allocs' = MapErase(hu_active_allocs, ptr)
           /\ IF hu_config.useafterfree
                THEN Quarantine(hu_active_allocs[ptr])
                ELSE GiveBack(hu_active_allocs[ptr])
           /\ UNCHANGED hu_user_addrs
  BY <1>3, QuarantineLeftInPlace, GiveBackLeftInPlace
<1> QED
  BY <1>1, <1>2, <1>3 DEF Release

\* libc resizes a plain block, or fails to and keeps it.
LEMMA ReallocPlaced ==
  ASSUME HeapInv, GeometryInv, NEW ptr, NEW size \in Nat, Representable(size), NEW ret,
         Plain(ptr, libc_blocks, hu_active_allocs, hu_quarantine_allocs),
         ptr # NULL, size # 0,
         LibcRealloc(ptr, size, ret),
         UNCHANGED <<protVars, setupVars, trackVars, quarantineVars>>
  PROVE  /\ LeftInPlace(ptr)
         /\ IF ret = NULL
              THEN \A n : Room(ptr, n) => Room(ptr, n)'
              ELSE Room(ret, size)' /\ NewMemory(MapErase(libc_blocks, ptr), ret, size)
<1> DEFINE others == MapErase(libc_blocks, ptr)
<1>1. UNCHANGED <<prot_none, mprotect_failed, hu_config, hu_active_allocs,
                  hu_quarantine_allocs>>
  BY DEF protVars, setupVars, trackVars, quarantineVars
<1>2. LaidOut' /\ Protected'
  BY <1>1, LayoutUntouched DEF GeometryInv
<1>3. CASE ret = NULL /\ UNCHANGED libc_blocks
  BY <1>1, <1>2, <1>3 DEF LeftInPlace, GeometryInv, Room, HasRoom
<1>4. CASE /\ LibcFits(others, ret, LibcExtent(size))
           /\ libc_blocks' = MapPut(others, ret, LibcExtent(size))
  <2>1. /\ AddressMap(others, Nat \ {0})
        /\ Apart(others)
        /\ DOMAIN others = DOMAIN libc_blocks \ {ptr}
        /\ \A b \in DOMAIN others : others[b] = libc_blocks[b]
    BY ApartErase DEF HeapInv, HeapTypes, AddressMap, MapErase, GeometryInv
  <2> HIDE DEF others
  <2>2. /\ ret # NULL
        /\ ret \notin DOMAIN others
        /\ Apart(libc_blocks')
        /\ size <= libc_blocks'[ret]
        /\ NewMemory(others, ret, size)
    BY <1>4, <2>1, PlainPut
  <2>3. /\ DOMAIN libc_blocks' = DOMAIN others \cup {ret}
        /\ \A p \in DOMAIN others : libc_blocks'[p] = others[p]
    BY <1>4, <2>2 DEF MapPut
  <2>4. ret \notin DOMAIN hu_active_allocs
    <3>1. PICK b, len : /\ ret \in Span(b, len)
                        /\ \A c \in DOMAIN others : Span(b, len) \cap Span(c, others[c]) = {}
      BY <2>2 DEF NewMemory
    <3>2. ASSUME NEW p \in DOMAIN hu_active_allocs
          PROVE  \E c \in DOMAIN others : p \in Span(c, others[c])
      <4>1. hu_active_allocs[p].sys_ptr # ptr
        BY DEF Plain
      <4> QED
        BY <2>1, <4>1 DEF HeapInv, ActiveIsKnown, Block, Owns
    <3> QED
      BY <3>1, <3>2
  <2>5. Room(ret, size)'
    BY <1>1, <2>2, <2>3, <2>4 DEF Room, HasRoom
  <2>6. \A p, n : p # ptr /\ Room(p, n) => Room(p, n)'
    BY <1>1, <2>1, <2>3 DEF Room, HasRoom
  <2> QED
    BY <1>2, <2>2, <2>5, <2>6 DEF LeftInPlace, GeometryInv, others
<1>5. ptr \in DOMAIN libc_blocks
  BY DEF Plain
<1> QED
  BY <1>3, <1>4, <1>5 DEF LibcRealloc

-----------------------------------------------------------------------------
(***************************************************************************)
(* What the callers hold.                                                  *)
(***************************************************************************)

\* The memory behind what is kept: a block of libc's that has it all.
LEMMA RoomInBlock ==
  ASSUME HeapInv, GeometryInv, NEW p, NEW n \in Nat, Returnable(p), Room(p, n)
  PROVE  \E b \in DOMAIN libc_blocks :
           /\ p \in Span(b, libc_blocks[b])
           /\ Span(p, n) \subseteq Span(b, libc_blocks[b])
           /\ IF p \in DOMAIN hu_active_allocs THEN b = hu_active_allocs[p].sys_ptr ELSE b = p
<1>1. CASE p \in DOMAIN hu_active_allocs
  <2> DEFINE info == hu_active_allocs[p]
  <2>1. /\ info \in hu_alloc_info
        /\ info.sys_ptr \in DOMAIN libc_blocks
        /\ libc_blocks[info.sys_ptr] = info.sys_size
    BY <1>1, RecordTypes
  <2>2. p \in Block(info)
    BY <1>1 DEF HeapInv, ActiveIsKnown
  <2>3. info.user_ptr = p /\ Laid(info) /\ n = info.user_size
    BY <1>1 DEF GeometryInv, LaidOut, Room, HasRoom
  <2> HIDE DEF info
  <2>4. Span(p, n) \subseteq Block(info)
    BY <2>1, <2>3, FenceInBlock DEF Laid
  <2> QED
    BY <1>1, <2>1, <2>2, <2>4 DEF Block, info
<1>2. CASE p \notin DOMAIN hu_active_allocs
  <2>1. p \in DOMAIN libc_blocks /\ n <= libc_blocks[p]
    BY <1>2 DEF Room, HasRoom
  <2>2. p \in Nat /\ libc_blocks[p] \in Nat \ {0}
    BY <2>1, LibcAssumption DEF HeapInv, HeapTypes, AddressMap, Addresses
  <2>3. p \in Span(p, libc_blocks[p]) /\ Span(p, n) \subseteq Span(p, libc_blocks[p])
    BY <2>1, <2>2 DEF Span
  <2> QED
    BY <1>2, <2>1, <2>3
<1> QED
  BY <1>1, <1>2

\* What is kept after a call that gave ret, out of what was kept before it.
LEMMA HoldRoom ==
  ASSUME NEW blocks, blocks = [p \in DOMAIN blocks |-> blocks[p]],
         NEW ret, NEW size,
         \A p \in DOMAIN blocks : HasRoom(hu_active_allocs', libc_blocks', p, blocks[p]),
         ret # NULL => HasRoom(hu_active_allocs', libc_blocks', ret, size),
         kept' = Hold(blocks, ret, size)
  PROVE  HeldHasRoom' /\ HeldIsMap'
<1>1. CASE ret = NULL
  BY <1>1 DEF Hold, HeldHasRoom, HeldIsMap, Room
<1>2. CASE ret # NULL
  <2>1. kept' = MapPut(blocks, ret, size)
    BY <1>2 DEF Hold
  <2>2. /\ DOMAIN kept' = DOMAIN blocks \cup {ret}
        /\ kept'[ret] = size
        /\ \A p \in DOMAIN blocks : p # ret => kept'[p] = blocks[p]
    BY <2>1 DEF MapPut
  <2>3. HeldIsMap'
    BY <2>1 DEF MapPut, HeldIsMap
  <2>4. HeldHasRoom'
    BY <1>2, <2>2 DEF HeldHasRoom, Room
  <2> QED
    BY <2>3, <2>4
<1> QED
  BY <1>1, <1>2

\* What is still kept once ptr is not.
LEMMA EraseRoom ==
  ASSUME AllocatorInv, HeldHasRoom, NEW ptr, NEW left, left = MapErase(kept, ptr),
         \A p, n : p # ptr /\ Returnable(p) /\ Room(p, n) => Room(p, n)'
  PROVE  /\ left = [p \in DOMAIN left |-> left[p]]
         /\ \A p \in DOMAIN left : HasRoom(hu_active_allocs', libc_blocks', p, left[p])
<1>1. left = [p \in DOMAIN left |-> left[p]]
  BY DEF MapErase
<1>2. ASSUME NEW p \in DOMAIN left
      PROVE  HasRoom(hu_active_allocs', libc_blocks', p, left[p])
  <2>1. p \in DOMAIN kept /\ p # ptr /\ left[p] = kept[p]
    BY DEF MapErase
  <2>2. Returnable(p) /\ Room(p, kept[p])
    BY <2>1 DEF AllocatorInv, HeldIsReturnable, HeldHasRoom
  <2> QED
    BY <2>1, <2>2 DEF Room
<1> QED
  BY <1>1, <1>2

-----------------------------------------------------------------------------
(***************************************************************************)
(* The contract: what each call does to what the callers hold.             *)
(***************************************************************************)

\* A step of the contract, or none.
KeptContract == INSTANCE HeapContract WITH HeapLast <- MemLast, blocks <- kept

ContractStep == KeptContract!Next \/ kept' = kept

\* ret, unless it is NULL, is an address that none of the holders has.
NewTo(holders, ret) == ret # NULL => ret \in Addresses \ holders

\* Where the memory of a caller lies.
LEMMA HeldInBlock ==
  ASSUME MemoryInv, NEW p \in DOMAIN kept
  PROVE  \E b \in DOMAIN libc_blocks :
           /\ p \in Span(b, libc_blocks[b])
           /\ Span(p, kept[p]) \subseteq Span(b, libc_blocks[b])
           /\ IF p \in DOMAIN hu_active_allocs THEN b = hu_active_allocs[p].sys_ptr ELSE b = p
<1>1. /\ HeapInv /\ GeometryInv
      /\ kept[p] \in Nat /\ Returnable(p) /\ Room(p, kept[p])
  BY DEF MemoryInv, AllocatorInv, AddressMap, HeldIsReturnable, HeldHasRoom
<1> QED
  BY <1>1, RoomInBlock

\* Memory that none of the blocks uses is new to everybody who holds memory in
\* those blocks.
LEMMA NewIsFresh ==
  ASSUME NEW blocks, NEW others, NEW ret, NEW size \in Nat,
         NewMemory(blocks, ret, size),
         \A p \in DOMAIN others : \E b \in DOMAIN blocks :
           p \in Span(b, blocks[b]) /\ Span(p, others[p]) \subseteq Span(b, blocks[b])
  PROVE  KeptContract!Fresh(others, ret, size)
<1>1. PICK b \in Addresses, len \in Nat :
        /\ b + len - 1 <= MemLast
        /\ ret \in Span(b, len)
        /\ Span(ret, size) \subseteq Span(b, len)
        /\ \A c \in DOMAIN blocks : Span(b, len) \cap Span(c, blocks[c]) = {}
  BY DEF NewMemory
<1>2. Span(b, len) \subseteq 1 .. MemLast
  BY <1>1, LibcAssumption DEF Addresses, Span
<1>3. \A p \in DOMAIN others : p \notin Span(b, len) /\ Span(b, len) \cap Span(p, others[p]) = {}
  BY <1>1
<1>4. /\ ret \in (1 .. MemLast) \ DOMAIN others
      /\ Span(ret, size) \subseteq 1 .. MemLast
      /\ \A p \in DOMAIN others : Span(ret, size) \cap Span(p, others[p]) = {}
  BY <1>1, <1>2, <1>3
<1> QED
  BY <1>4 DEF KeptContract!Fresh, KeptContract!Region, Span

\* A call that hands out ret, if it is not NULL.
LEMMA Obtained ==
  ASSUME MemoryInv, AllocatorInv', NEW ret, NEW size \in Nat, Placed(ret, size),
         kept' = Hold(kept, ret, size)
  PROVE  MemoryInv' /\ ContractStep /\ NewTo(DOMAIN kept, ret)
<1>1. \A p \in DOMAIN kept : HasRoom(hu_active_allocs', libc_blocks', p, kept[p])
  BY DEF MemoryInv, AllocatorInv, HeldIsReturnable, HeldHasRoom, Placed, Room
<1>2. kept = [p \in DOMAIN kept |-> kept[p]]
  BY DEF MemoryInv, HeldIsMap
<1>3. ret # NULL => HasRoom(hu_active_allocs', libc_blocks', ret, size)
  BY DEF Placed, Room
<1>4. HeldHasRoom' /\ HeldIsMap'
  BY <1>1, <1>2, <1>3, HoldRoom
<1>5. ContractStep /\ NewTo(DOMAIN kept, ret)
  <2>1. CASE ret = NULL
    BY <2>1 DEF Hold, ContractStep, NewTo
  <2>2. CASE ret # NULL
    <3>1. KeptContract!Fresh(kept, ret, size)
      BY <2>2, HeldInBlock, NewIsFresh DEF Placed
    <3>2. kept' = MapPut(kept, ret, size) /\ ret \in DOMAIN kept' /\ kept'[ret] = size
      BY <2>2 DEF Hold, MapPut
    <3>3. KeptContract!Obtain(ret, kept'[ret])
      BY <3>1, <3>2 DEF KeptContract!Obtain, KeptContract!MapPut, MapPut
    <3> QED
      BY <3>1, <3>2, <3>3 DEF KeptContract!Next, KeptContract!Fresh, ContractStep, NewTo, Addresses
  <2> QED
    BY <2>1, <2>2
<1> QED
  BY <1>4, <1>5 DEF MemoryInv, Placed

\* A call that takes ptr back.
LEMMA HandedBack ==
  ASSUME MemoryInv, AllocatorInv', NEW ptr, LeftInPlace(ptr),
         kept' = MapErase(kept, ptr)
  PROVE  MemoryInv' /\ ContractStep
<1> DEFINE left == MapErase(kept, ptr)
<1>1. /\ left = [p \in DOMAIN left |-> left[p]]
      /\ \A p \in DOMAIN left : HasRoom(hu_active_allocs', libc_blocks', p, left[p])
  BY EraseRoom DEF MemoryInv, LeftInPlace
<1>2. kept' = Hold(left, NULL, 0)
  BY DEF Hold
<1> HIDE DEF left
<1>3. HeldHasRoom' /\ HeldIsMap'
  BY <1>1, <1>2, HoldRoom
<1>4. ContractStep
  <2>1. CASE ptr \in DOMAIN kept
    <3>1. KeptContract!HandBack(ptr)
      BY <2>1 DEF KeptContract!HandBack, KeptContract!MapErase, MapErase
    <3> QED
      BY <2>1, <3>1 DEF KeptContract!Next, ContractStep
  <2>2. CASE ptr \notin DOMAIN kept
    BY <2>2 DEF MemoryInv, HeldIsMap, MapErase, ContractStep
  <2> QED
    BY <2>1, <2>2
<1> QED
  BY <1>3, <1>4 DEF MemoryInv, LeftInPlace

\* A call that takes ptr back for ret, which may lie where ptr lay.
LEMMA Resized ==
  ASSUME MemoryInv, AllocatorInv', NEW ptr \in DOMAIN kept, NEW ret, NEW size \in Nat,
         LeftInPlace(ptr),
         NEW blocks,
         \A p \in DOMAIN kept : p # ptr =>
           \E b \in DOMAIN blocks :
             p \in Span(b, blocks[b]) /\ Span(p, kept[p]) \subseteq Span(b, blocks[b]),
         ret # NULL => Room(ret, size)' /\ NewMemory(blocks, ret, size),
         kept' = Hold(MapErase(kept, ptr), ret, size)
  PROVE  MemoryInv' /\ ContractStep /\ NewTo(DOMAIN kept \ {ptr}, ret)
<1> DEFINE left == MapErase(kept, ptr)
<1>1. /\ left = [p \in DOMAIN left |-> left[p]]
      /\ \A p \in DOMAIN left : HasRoom(hu_active_allocs', libc_blocks', p, left[p])
  BY EraseRoom DEF MemoryInv, LeftInPlace
<1>2. \A p \in DOMAIN left : p # ptr /\ p \in DOMAIN kept /\ left[p] = kept[p]
  BY DEF MapErase
<1>3. left = KeptContract!MapErase(kept, ptr)
  BY DEF MapErase, KeptContract!MapErase
<1> HIDE DEF left
<1>4. kept' = Hold(left, ret, size)
  BY DEF left
<1>5. ret # NULL => HasRoom(hu_active_allocs', libc_blocks', ret, size)
  BY DEF Room
<1>6. HeldHasRoom' /\ HeldIsMap'
  BY <1>1, <1>4, <1>5, HoldRoom
<1>7. ContractStep /\ NewTo(DOMAIN left, ret)
  <2>1. CASE ret = NULL
    <3>1. KeptContract!HandBack(ptr)
      BY <1>3, <1>4, <2>1 DEF KeptContract!HandBack, Hold
    <3> QED
      BY <2>1, <3>1 DEF KeptContract!Next, ContractStep, NewTo
  <2>2. CASE ret # NULL
    <3>1. \A p \in DOMAIN left : \E b \in DOMAIN blocks :
            p \in Span(b, blocks[b]) /\ Span(p, left[p]) \subseteq Span(b, blocks[b])
      BY <1>2
    <3>2. KeptContract!Fresh(left, ret, size)
      BY <2>2, <3>1, NewIsFresh
    <3>3. kept' = MapPut(left, ret, size) /\ ret \in DOMAIN kept' /\ kept'[ret] = size
      BY <1>4, <2>2 DEF Hold, MapPut
    <3>4. KeptContract!Resize(ptr, ret, kept'[ret])
      BY <1>3, <3>2, <3>3 DEF KeptContract!Resize, KeptContract!MapPut, MapPut
    <3> QED
      BY <3>2, <3>3, <3>4 DEF KeptContract!Next, KeptContract!Fresh, ContractStep, NewTo, Addresses
  <2> QED
    BY <2>1, <2>2
<1>8. DOMAIN left = DOMAIN kept \ {ptr}
  BY DEF left, MapErase
<1> QED
  BY <1>6, <1>7, <1>8 DEF MemoryInv, LeftInPlace

\* A call that leaves ptr, and everything else, with its holder.
LEMMA LeftAlone ==
  ASSUME MemoryInv, AllocatorInv', GeometryInv',
         \A p, n : Returnable(p) /\ Room(p, n) => Room(p, n)',
         kept' = kept
  PROVE  MemoryInv' /\ ContractStep
<1>1. \A p \in DOMAIN kept : HasRoom(hu_active_allocs', libc_blocks', p, kept[p])
  BY DEF MemoryInv, AllocatorInv, HeldIsReturnable, HeldHasRoom, Room
<1>2. HeldHasRoom' /\ HeldIsMap'
  BY <1>1 DEF HeldHasRoom, HeldIsMap, MemoryInv, Room
<1> QED
  BY <1>2 DEF MemoryInv, ContractStep

\* malloc.
LEMMA MallocMemory ==
  ASSUME MemoryInv, AllocatorInv', NEW size \in Sizes, NEW ret \in Results,
         hu_malloc(size, ret)
  PROVE  MemoryInv' /\ ContractStep /\ NewTo(DOMAIN kept, ret)
<1>1. size \in Nat /\ Representable(size)
  BY HuMallocAssumption
<1>2. Placed(ret, size)
  BY <1>1, AllocatePlaced DEF hu_malloc, MemoryInv, AllocatorInv
<1> QED
  BY <1>1, <1>2, Obtained DEF hu_malloc

\* A count and a size whose product is a size_t: the total is the product.
LEMMA TotalIsProduct ==
  ASSUME NEW count \in Counts, NEW size \in Sizes
  PROVE  /\ count * size \in Nat
         /\ Representable(count * size)
         /\ CallocTotal(count, size) = count * size
<1>1. /\ count * size \in Nat
      /\ Representable(count * size)
  BY HuMallocAssumption
<1>2. SizeMod \in Nat /\ SizeMultiple \in Nat \ {0} /\ PageSize \in Nat
  BY LayoutAssumption
<1> DEFINE product == count * size
<1>3. product \in Nat /\ Representable(product)
  BY <1>1
<1> HIDE DEF product
<1>4. product < SizeMod
  BY <1>2, <1>3 DEF Representable
<1>5. product % SizeMod = product
  BY <1>2, <1>3, <1>4, SmallRemainder
<1> QED
  BY <1>3, <1>5 DEF CallocTotal, product

\* calloc.
LEMMA CallocMemory ==
  ASSUME MemoryInv, AllocatorInv', NEW count \in Counts, NEW size \in Sizes,
         NEW ret \in Results, hu_calloc(count, size, ret)
  PROVE  MemoryInv' /\ ContractStep /\ NewTo(DOMAIN kept, ret)
<1>1. /\ count * size \in Nat
      /\ Representable(count * size)
      /\ CallocTotal(count, size) = count * size
  BY TotalIsProduct
<1>2. HeapInv /\ GeometryInv /\ UNCHANGED <<setupVars, quarantineVars>>
  BY DEF hu_calloc, MemoryInv, AllocatorInv
<1>3. Placed(ret, count * size)
  <2>1. CASE LibcMalloc(count * size, ret) /\ UNCHANGED <<protVars, trackVars>>
    BY <1>1, <1>2, <2>1, PlainPlaced
  <2>2. CASE Allocate(CallocTotal(count, size), ret)
    BY <1>1, <1>2, <2>2, AllocatePlaced
  <2>3. CASE ret = NULL /\ UNCHANGED <<libcVars, protVars, trackVars>>
    <3>1. UNCHANGED <<libc_blocks, prot_none, mprotect_failed, hu_config,
                      hu_active_allocs, hu_quarantine_allocs>>
      BY <1>2, <2>3 DEF libcVars, protVars, setupVars, trackVars, quarantineVars
    <3> QED
      BY <1>2, <2>3, <3>1, LayoutUntouched DEF Placed, GeometryInv, Room, HasRoom
  <2> QED
    BY <2>1, <2>2, <2>3 DEF hu_calloc
<1> QED
  BY <1>1, <1>3, Obtained DEF hu_calloc

\* free.
LEMMA FreeMemory ==
  ASSUME MemoryInv, AllocatorInv', NEW ptr, hu_free(ptr)
  PROVE  MemoryInv' /\ ContractStep
<1>1. LeftInPlace(ptr)
  BY ReleaseLeftInPlace DEF hu_free, MemoryInv, AllocatorInv
<1> QED
  BY <1>1, HandedBack DEF hu_free

\* libc's realloc of a block that is not fenced.
LEMMA LibcReallocMemory ==
  ASSUME MemoryInv, AllocatorInv', NEW ptr \in Resizable, NEW size \in Nat,
         Representable(size), NEW ret \in Results,
         ~hu_malloc_inited \/ (ptr # NULL /\ size # 0 /\ ptr \notin DOMAIN hu_active_allocs),
         LibcRealloc(ptr, size, ret),
         kept' = IF ret = NULL /\ size # 0 THEN kept
                 ELSE Hold(MapErase(kept, ptr), ret, size),
         UNCHANGED <<protVars, setupVars, trackVars, quarantineVars>>
  PROVE  MemoryInv' /\ ContractStep /\ NewTo(DOMAIN kept \ {ptr}, ret)
<1>1. HeapInv /\ GeometryInv /\ ptr \notin DOMAIN hu_active_allocs
  BY DEF MemoryInv, AllocatorInv, HeapInv, NothingBeforeInit, Resizable,
         HeldIsReturnable, Returnable
<1>2. ptr # NULL => /\ ptr \in DOMAIN kept
                    /\ Plain(ptr, libc_blocks, hu_active_allocs, hu_quarantine_allocs)
  BY <1>1 DEF Resizable, MemoryInv, AllocatorInv, HeldIsReturnable, Returnable
<1>3. CASE ptr = NULL /\ LibcMalloc(size, ret)
  <2>1. Placed(ret, size)
    BY <1>1, <1>3, PlainPlaced
  <2>2. NULL \notin DOMAIN kept
    BY LibcAssumption DEF NULL, MemoryInv, AllocatorInv, AddressMap, Addresses
  <2>3. MapErase(kept, NULL) = kept
    BY <2>2 DEF MapErase, MemoryInv, HeldIsMap
  <2>4. kept' = Hold(kept, ret, size)
    BY <1>3, <2>3 DEF Hold
  <2> QED
    BY <2>1, <2>4, Obtained DEF NewTo
<1>4. CASE ptr # NULL /\ size = 0 /\ ret = NULL /\ LibcFree(ptr)
  <2>1. LeftInPlace(ptr)
    BY <1>1, <1>4, PlainLeftInPlace
  <2> QED
    BY <1>4, <2>1, HandedBack DEF Hold, NewTo
<1>5. CASE ptr # NULL /\ size # 0
  <2>1. /\ LeftInPlace(ptr)
        /\ IF ret = NULL
             THEN \A n : Room(ptr, n) => Room(ptr, n)'
             ELSE Room(ret, size)' /\ NewMemory(MapErase(libc_blocks, ptr), ret, size)
    BY <1>1, <1>2, <1>5, ReallocPlaced
  <2>2. CASE ret = NULL
    <3>1. \A p, n : Returnable(p) /\ Room(p, n) => Room(p, n)'
      BY <2>1, <2>2 DEF LeftInPlace
    <3> QED
      BY <1>5, <2>1, <2>2, <3>1, LeftAlone DEF LeftInPlace, NewTo
  <2>3. CASE ret # NULL
    <3> DEFINE others == MapErase(libc_blocks, ptr)
    <3>1. /\ DOMAIN others = DOMAIN libc_blocks \ {ptr}
          /\ \A b \in DOMAIN others : others[b] = libc_blocks[b]
      BY DEF MapErase
    <3>2. \A p \in DOMAIN kept : p # ptr =>
            \E b \in DOMAIN others :
              p \in Span(b, others[b]) /\ Span(p, kept[p]) \subseteq Span(b, others[b])
      <4> HIDE DEF others
      <4> SUFFICES ASSUME NEW p \in DOMAIN kept, p # ptr
                   PROVE  \E b \in DOMAIN others :
                            /\ p \in Span(b, others[b])
                            /\ Span(p, kept[p]) \subseteq Span(b, others[b])
        OBVIOUS
      <4>1. PICK b \in DOMAIN libc_blocks :
              /\ p \in Span(b, libc_blocks[b])
              /\ Span(p, kept[p]) \subseteq Span(b, libc_blocks[b])
              /\ IF p \in DOMAIN hu_active_allocs THEN b = hu_active_allocs[p].sys_ptr ELSE b = p
        BY HeldInBlock
      <4>2. b # ptr
        BY <1>2, <1>5, <4>1 DEF Plain
      <4> QED
        BY <3>1, <4>1, <4>2
    <3>3. kept' = Hold(MapErase(kept, ptr), ret, size)
      BY <2>3
    <3>4. Room(ret, size)' /\ NewMemory(others, ret, size)
      BY <2>1, <2>3
    <3>5. ptr \in DOMAIN kept /\ LeftInPlace(ptr)
      BY <1>2, <1>5, <2>1
    <3> HIDE DEF others
    <3> QED
      BY <3>2, <3>3, <3>4, <3>5, Resized
  <2> QED
    BY <2>2, <2>3
<1>6. NULL \notin DOMAIN libc_blocks
  BY <1>1, LibcAssumption DEF NULL, HeapInv, HeapTypes, AddressMap, Addresses
<1> QED
  BY <1>3, <1>4, <1>5, <1>6 DEF LibcRealloc

\* realloc; of a fenced block, its first half.
LEMMA ReallocMemory ==
  ASSUME MemoryInv, AllocatorInv', NEW ptr \in Resizable, NEW size \in Sizes,
         NEW ret \in Results, hu_realloc(ptr, size, ret)
  PROVE  MemoryInv' /\ ContractStep /\ NewTo(DOMAIN kept \ {ptr}, ret)
<1>1. size \in Nat /\ Representable(size)
  BY HuMallocAssumption
<1>2. HeapInv /\ GeometryInv /\ UNCHANGED setupVars
  BY DEF hu_realloc, MemoryInv, AllocatorInv
<1>3. CASE ReallocMoved(ptr, size, ret)
  <2>1. /\ ptr \in DOMAIN kept
        /\ Allocate(size, ret)
        /\ UNCHANGED quarantineVars
        /\ kept' = Hold(MapErase(kept, ptr), ret, size)
    BY <1>3 DEF ReallocMoved, Resizable
  <2>2. Placed(ret, size)
    BY <1>1, <1>2, <2>1, AllocatePlaced
  <2>3. \A p \in DOMAIN kept : p # ptr =>
          \E b \in DOMAIN libc_blocks :
            /\ p \in Span(b, libc_blocks[b])
            /\ Span(p, kept[p]) \subseteq Span(b, libc_blocks[b])
    BY HeldInBlock
  <2>4. LeftInPlace(ptr)
    BY <2>2 DEF Placed, LeftInPlace
  <2>5. ret # NULL => Room(ret, size)' /\ NewMemory(libc_blocks, ret, size)
    BY <2>2 DEF Placed
  <2> QED
    BY <1>1, <2>1, <2>3, <2>4, <2>5, Resized
<1>4. CASE ReallocPassedOn(ptr, size, ret)
  <2>1. CASE /\ \/ ~hu_malloc_inited
                \/ ptr # NULL /\ size # 0 /\ ptr \notin DOMAIN hu_active_allocs
             /\ LibcRealloc(ptr, size, ret)
             /\ kept' = IF ret = NULL /\ size # 0 THEN kept
                        ELSE Hold(MapErase(kept, ptr), ret, size)
             /\ UNCHANGED <<protVars, trackVars, quarantineVars>>
    BY <1>1, <1>2, <2>1, LibcReallocMemory
  <2>2. CASE /\ Allocate(size, ret)
             /\ kept' = Hold(kept, ret, size)
             /\ UNCHANGED quarantineVars
    <3>1. Placed(ret, size)
      BY <1>1, <1>2, <2>2, AllocatePlaced
    <3> QED
      BY <1>1, <2>2, <3>1, Obtained DEF NewTo
  <2>3. CASE Release(ptr) /\ kept' = MapErase(kept, ptr) /\ ret = NULL
    <3>1. LeftInPlace(ptr)
      BY <1>2, <2>3, ReleaseLeftInPlace
    <3> QED
      BY <2>3, <3>1, HandedBack DEF NewTo
  <2> QED
    BY <1>4, <2>1, <2>2, <2>3 DEF ReallocPassedOn
<1> QED
  BY <1>3, <1>4 DEF hu_realloc

\* The second half: the old block is nobody's.
LEMMA ReallocFreeMemory ==
  ASSUME MemoryInv, AllocatorInv', ReallocFree
  PROVE  MemoryInv' /\ ContractStep
<1> PICK ptr : ptr = pending_free
  OBVIOUS
<1>1. ptr \notin DOMAIN kept /\ kept' = kept
  BY DEF MemoryInv, AllocatorInv, PendingIsActive, ReallocFree
<1>2. LeftInPlace(ptr)
  <2>1. Release(ptr) /\ UNCHANGED setupVars
    BY DEF ReallocFree, Release
  <2> QED
    BY <2>1, ReleaseLeftInPlace DEF MemoryInv, AllocatorInv
<1>3. kept' = MapErase(kept, ptr)
  BY <1>1 DEF MapErase, MemoryInv, HeldIsMap
<1> QED
  BY <1>2, <1>3, HandedBack

\* A round of the eviction loop.
LEMMA EvictMemory ==
  ASSUME MemoryInv, AllocatorInv', EvictOldest
  PROVE  MemoryInv' /\ ContractStep
<1>1. kept' = kept
  BY DEF EvictOldest
<1>2. GeometryInv' /\ \A p, n : Returnable(p) /\ Room(p, n) => Room(p, n)'
  BY EvictLeftInPlace DEF MemoryInv, AllocatorInv
<1> QED
  BY <1>1, <1>2, LeftAlone

\* hu_malloc_init: no block is fenced yet, so that no layout depends on the
\* configuration it brings.
LEMMA InitCallMemory ==
  ASSUME MemoryInv, AllocatorInv', NEW config \in ConfigType, hu_malloc_init(config)
  PROVE  MemoryInv' /\ ContractStep
<1>1. /\ DOMAIN hu_active_allocs = {}
      /\ Len(hu_quarantine_allocs) = 0
  <2>1. ~hu_malloc_inited
    BY DEF hu_malloc_init
  <2> QED
    BY <2>1 DEF MemoryInv, AllocatorInv, HeapInv, NothingBeforeInit
<1>2. UNCHANGED <<libc_blocks, prot_none, mprotect_failed, hu_active_allocs,
                  hu_quarantine_allocs, kept>>
  BY DEF hu_malloc_init, libcVars, protVars, trackVars, quarantineVars
<1>3. LaidOut'
  BY <1>1, <1>2 DEF LaidOut
<1>4. Protected'
  BY <1>1, <1>2 DEF MemoryInv, GeometryInv, Protected, ToProtect
<1>5. GeometryInv'
  BY <1>2, <1>3, <1>4 DEF MemoryInv, GeometryInv
<1>6. \A p, n : Room(p, n) => Room(p, n)'
  BY <1>2 DEF Room
<1> QED
  BY <1>2, <1>5, <1>6, LeftAlone

\* Every step keeps the invariant, and is one the contract allows.
LEMMA NextMemory ==
  MemoryInv /\ [NextHuMalloc]_mallocVars => MemoryInv' /\ ContractStep
<1> SUFFICES ASSUME MemoryInv, [NextHuMalloc]_mallocVars PROVE MemoryInv' /\ ContractStep
  OBVIOUS
<1>0. AllocatorInv'
  BY NextAllocator DEF MemoryInv
<1>1. CASE \E config \in Configs : hu_malloc_init(config)
  BY <1>0, <1>1, InitCallMemory, HuMallocAssumption
<1>2. CASE \E size \in Sizes, ret \in Results : hu_malloc(size, ret)
  BY <1>0, <1>2, MallocMemory
<1>3. CASE \E count \in Counts, size \in Sizes, ret \in Results : hu_calloc(count, size, ret)
  BY <1>0, <1>3, CallocMemory
<1>4. CASE \E ptr \in Resizable \cup FreedBefore : hu_free(ptr)
  BY <1>0, <1>4, FreeMemory
<1>5. CASE \E ptr \in Resizable, size \in Sizes, ret \in Results : hu_realloc(ptr, size, ret)
  BY <1>0, <1>5, ReallocMemory
<1>6. CASE ReallocFree
  BY <1>0, <1>6, ReallocFreeMemory
<1>7. CASE EvictOldest
  BY <1>0, <1>7, EvictMemory
<1>8. CASE UNCHANGED mallocVars
  <2>1. UNCHANGED <<libc_blocks, prot_none, mprotect_failed, hu_config, hu_active_allocs,
                    hu_quarantine_allocs, kept>>
    BY <1>8 DEF mallocVars, libcVars, protVars, setupVars, trackVars, quarantineVars
  <2>2. GeometryInv' /\ \A p, n : Room(p, n) => Room(p, n)'
    BY <2>1, LayoutUntouched DEF MemoryInv, GeometryInv, Room
  <2> QED
    BY <1>0, <2>1, <2>2, LeftAlone
<1> QED
  BY <1>1, <1>2, <1>3, <1>4, <1>5, <1>6, <1>7, <1>8 DEF NextHuMalloc

\* Nothing is kept, handed out or protected to begin with.
LEMMA InitMemory == InitHuMalloc => MemoryInv
<1> SUFFICES ASSUME InitHuMalloc PROVE MemoryInv
  OBVIOUS
<1>1. AllocatorInv
  BY InitAllocator
<1>2. /\ DOMAIN libc_blocks = {} /\ DOMAIN hu_active_allocs = {} /\ DOMAIN kept = {}
      /\ Len(hu_quarantine_allocs) = 0
      /\ prot_none = {}
      /\ kept = NoEntries
  BY DEF InitHuMalloc, LibcInit, NoEntries
<1>3. GeometryInv
  BY <1>2 DEF GeometryInv, Apart, LaidOut, Protected, ToProtect
<1>4. HeldHasRoom /\ HeldIsMap
  BY <1>2 DEF HeldHasRoom, HeldIsMap
<1> QED
  BY <1>1, <1>3, <1>4 DEF MemoryInv

\* What a caller may use lies in one block of libc's, has what was asked for,
\* and no byte of it is protected.
LEMMA UsableInBlock ==
  ASSUME MemoryInv, NEW p \in DOMAIN kept
  PROVE  \E b \in DOMAIN libc_blocks :
           /\ Span(p, hu_malloc_size(p)) \subseteq Span(b, libc_blocks[b])
           /\ Span(p, kept[p]) \subseteq Span(p, hu_malloc_size(p))
           /\ ~mprotect_failed => Span(p, hu_malloc_size(p)) \cap prot_none = {}
           /\ IF p \in DOMAIN hu_active_allocs THEN b = hu_active_allocs[p].sys_ptr ELSE b = p
<1> DEFINE usable == hu_malloc_size(p)
<1>1. /\ HeapInv /\ GeometryInv
      /\ kept[p] \in Nat /\ Returnable(p) /\ Room(p, kept[p])
      /\ p \in Addresses /\ p \in Nat
  BY LibcAssumption DEF MemoryInv, AllocatorInv, AddressMap, HeldIsReturnable, HeldHasRoom,
                        Addresses
<1>2. prot_none \subseteq Addresses
  BY <1>1 DEF HeapInv, HeapTypes
<1>3. CASE p \in DOMAIN hu_active_allocs
  <2> DEFINE info == hu_active_allocs[p]
             usersize == hu_calc_user_size(info.user_size)
  <2>1. hu_malloc_size(p) = usersize
    BY <1>1, <1>3 DEF hu_malloc_size, HeapInv, NothingBeforeInit
  <2>2. /\ info \in hu_alloc_info
        /\ info.sys_ptr \in DOMAIN libc_blocks
        /\ libc_blocks[info.sys_ptr] = info.sys_size
        /\ info.user_ptr = p /\ Laid(info)
        /\ kept[p] = info.user_size
    BY <1>1, <1>3, RecordTypes DEF GeometryInv, LaidOut, Room, HasRoom
  <2>3. usersize \in Nat /\ kept[p] <= usersize
    BY <2>2 DEF Laid
  <2> HIDE DEF usersize
  <2>4. /\ Span(p, usersize) \subseteq Block(info)
        /\ Span(p, usersize) \cap Fence(info) = {}
    BY <1>1, <2>2, <2>3, FenceInBlock DEF usersize
  <2>5. Span(p, kept[p]) \subseteq Span(p, usersize)
    BY <1>1, <2>3 DEF Span
  <2>6. \A addr \in Span(p, usersize) : ~ToProtect(addr)
    BY <1>1, <1>3, <2>4, OwnersApart, OthersProtected DEF ToProtect, GeometryInv
  <2>7. ~mprotect_failed => Span(p, usersize) \cap prot_none = {}
    BY <1>1, <1>2, <2>6 DEF GeometryInv, Protected
  <2> QED
    BY <1>3, <2>1, <2>2, <2>4, <2>5, <2>7 DEF Block
<1>4. CASE p \notin DOMAIN hu_active_allocs
  <2>1. hu_malloc_size(p) = libc_blocks[p]
    BY <1>4 DEF hu_malloc_size
  <2>2. /\ Plain(p, libc_blocks, hu_active_allocs, hu_quarantine_allocs)
        /\ p \in DOMAIN libc_blocks
        /\ kept[p] <= libc_blocks[p]
        /\ libc_blocks[p] \in Nat
    BY <1>1, <1>4 DEF Returnable, Room, HasRoom, HeapInv, HeapTypes, AddressMap
  <2>3. Span(p, kept[p]) \subseteq Span(p, libc_blocks[p])
    BY <1>1, <2>2 DEF Span
  <2>4. \A addr \in Span(p, libc_blocks[p]) : ~ToProtect(addr)
    BY <1>1, <2>2, OwnersApart, OthersProtected DEF ToProtect, GeometryInv
  <2>5. ~mprotect_failed => Span(p, libc_blocks[p]) \cap prot_none = {}
    BY <1>1, <1>2, <2>4 DEF GeometryInv, Protected
  <2> QED
    BY <1>4, <2>1, <2>2, <2>3, <2>5
<1> QED
  BY <1>3, <1>4

\* Two callers use different blocks of libc's.
LEMMA HoldersApart ==
  ASSUME MemoryInv, NEW p \in DOMAIN kept, NEW q \in DOMAIN kept, p # q
  PROVE  Span(p, hu_malloc_size(p)) \cap Span(q, hu_malloc_size(q)) = {}
<1>1. PICK b \in DOMAIN libc_blocks :
        /\ Span(p, hu_malloc_size(p)) \subseteq Span(b, libc_blocks[b])
        /\ IF p \in DOMAIN hu_active_allocs THEN b = hu_active_allocs[p].sys_ptr ELSE b = p
  BY UsableInBlock
<1>2. PICK c \in DOMAIN libc_blocks :
        /\ Span(q, hu_malloc_size(q)) \subseteq Span(c, libc_blocks[c])
        /\ IF q \in DOMAIN hu_active_allocs THEN c = hu_active_allocs[q].sys_ptr ELSE c = q
  BY UsableInBlock
<1>3. b # c
  BY <1>1, <1>2 DEF MemoryInv, AllocatorInv, HeldIsReturnable, Returnable, Plain, HeapInv, Owns
<1>4. Apart(libc_blocks)
  BY DEF MemoryInv, GeometryInv
<1> QED
  BY <1>1, <1>2, <1>3, <1>4 DEF Apart

-----------------------------------------------------------------------------
\* Where the blocks lie, what is protected and what the callers hold, together
\* with what they rest on, hold in every state.
THEOREM MemoryInvariant == SpecHuMalloc => []MemoryInv
  BY InitMemory, NextMemory, PTL DEF SpecHuMalloc

\* As long as no block is taken, what is held is what is kept.
LEMMA NoneTaken ==
  ASSUME HeldIsMap, DOMAIN taken = {}
  PROVE  held = kept
  BY DEF held, HeldIsMap

\* A step of the contract for what is kept is one for what is held, while nothing
\* is taken.
LEMMA StepOfKept ==
  ASSUME KeptContract!Next, held = kept, held' = kept'
  PROVE  Contract!Next
<1>1. \A others, ret, size : KeptContract!Fresh(others, ret, size) => Contract!Fresh(others, ret, size)
  BY DEF KeptContract!Fresh, Contract!Fresh, KeptContract!Region, Contract!Region
<1>2. ASSUME NEW ret \in DOMAIN kept', KeptContract!Obtain(ret, kept'[ret])
      PROVE  Contract!Obtain(ret, held'[ret])
  BY <1>1, <1>2 DEF KeptContract!Obtain, Contract!Obtain, KeptContract!MapPut, Contract!MapPut
<1>3. ASSUME NEW ptr \in DOMAIN kept, KeptContract!HandBack(ptr)
      PROVE  Contract!HandBack(ptr)
  BY <1>3 DEF KeptContract!HandBack, Contract!HandBack, KeptContract!MapErase, Contract!MapErase
<1>4. ASSUME NEW ptr \in DOMAIN kept, NEW ret \in DOMAIN kept', KeptContract!Resize(ptr, ret, kept'[ret])
      PROVE  Contract!Resize(ptr, ret, held'[ret])
  <2>1. Contract!MapErase(held, ptr) = KeptContract!MapErase(kept, ptr)
    BY DEF KeptContract!MapErase, Contract!MapErase
  <2> QED
    BY <1>1, <1>4, <2>1 DEF KeptContract!Resize, Contract!Resize, KeptContract!MapPut, Contract!MapPut
<1> QED
  BY <1>2, <1>3, <1>4 DEF KeptContract!Next, Contract!Next

\* Whatever is fenced, quarantined or evicted, what is handed out lies in the
\* heap and shares no byte with what somebody holds: humalloc implements the
\* allocator it replaces, as long as no realloc of a fenced block has failed.
THEOREM ContractKept == SpecHuMalloc => KeepsContract
<1>1. ASSUME MemoryInv, MemoryInv', TakenInv, [NextHuMalloc]_mallocVars
      PROVE  [DOMAIN taken' = {} => Contract!Next]_held
  <2> SUFFICES ASSUME DOMAIN taken' = {} PROVE Contract!Next \/ held' = held
    OBVIOUS
  <2>1. ContractStep /\ TakenStep
    BY <1>1, NextMemory, NextTaken DEF MemoryInv
  <2>2. held' = kept' /\ HeldIsMap
    BY <1>1, NoneTaken DEF MemoryInv, held, HeldIsMap
  <2>3. CASE DOMAIN taken = {}
    <3>1. held = kept
      BY <2>2, <2>3, NoneTaken
    <3> QED
      BY <2>1, <2>2, <3>1, StepOfKept DEF ContractStep
  <2>4. CASE DOMAIN taken # {}
    <3>1. PICK p \in DOMAIN taken \ DOMAIN kept :
            DOMAIN taken' = DOMAIN taken \ {p} /\ kept' = MapErase(kept, p)
      BY <2>1, <2>4 DEF TakenStep
    <3>2. DOMAIN taken = {p}
      BY <3>1
    <3>3. /\ p \in DOMAIN held
          /\ held' = [q \in DOMAIN held \ {p} |-> held[q]]
      <4>1. DOMAIN held = DOMAIN kept \cup {p} /\ \A q \in DOMAIN kept : held[q] = kept[q]
        BY <3>2 DEF held
      <4>2. kept' = [q \in DOMAIN kept |-> kept[q]]
        BY <3>1 DEF MapErase
      <4>3. DOMAIN held \ {p} = DOMAIN kept
        BY <3>1, <4>1
      <4>4. [q \in DOMAIN kept |-> kept[q]] = [q \in DOMAIN held \ {p} |-> held[q]]
        BY <4>1, <4>3
      <4> QED
        BY <2>2, <4>1, <4>2, <4>4
    <3>4. Contract!HandBack(p)
      BY <3>3 DEF Contract!HandBack, Contract!MapErase
    <3> QED
      BY <3>3, <3>4 DEF Contract!Next
  <2> QED
    BY <2>3, <2>4
<1>2. InitHuMalloc => Contract!Init
  <2> SUFFICES ASSUME InitHuMalloc PROVE held = Contract!NoEntries
    BY DEF Contract!Init
  <2> QED
    BY DEF InitHuMalloc, held, NoEntries, Contract!NoEntries
<1>3. MemoryInv /\ MemoryInv' /\ TakenInv /\ [NextHuMalloc]_mallocVars
        => [DOMAIN taken' = {} => Contract!Next]_held
  BY <1>1
<1> QED
  BY <1>2, <1>3, MemoryInvariant, TakenInvariant, PTL DEF SpecHuMalloc, KeepsContract

\* A block that is held and was not taken is kept.
LEMMA HeldIsKept ==
  \A p \in DOMAIN held \ DOMAIN taken : p \in DOMAIN kept /\ held[p] = kept[p]
  BY DEF held

\* Every caller's block lies in memory libc has not got back, and in nobody
\* else's, but for the blocks a failed hu_realloc has freed.
THEOREM HeldIntact == SpecHuMalloc => []HeldIsIntact
<1>1. MemoryInv => HeldIsIntact
  <2> SUFFICES ASSUME MemoryInv, NEW p \in DOMAIN held \ DOMAIN taken
               PROVE  /\ \E b \in DOMAIN libc_blocks :
                           Span(p, held[p]) \subseteq Span(b, libc_blocks[b])
                      /\ \A q \in DOMAIN held \ DOMAIN taken :
                           p # q => Span(p, held[p]) \cap Span(q, held[q]) = {}
    BY DEF HeldIsIntact
  <2>1. p \in DOMAIN kept /\ held[p] = kept[p]
    BY HeldIsKept
  <2>2. \E b \in DOMAIN libc_blocks : Span(p, kept[p]) \subseteq Span(b, libc_blocks[b])
    BY <2>1, HeldInBlock
  <2>3. \A q \in DOMAIN kept : Span(q, kept[q]) \subseteq Span(q, hu_malloc_size(q))
    BY UsableInBlock
  <2>4. ASSUME NEW q \in DOMAIN kept, p # q
        PROVE  Span(p, kept[p]) \cap Span(q, kept[q]) = {}
    BY <2>1, <2>3, <2>4, HoldersApart
  <2> QED
    BY <2>1, <2>2, <2>4, HeldIsKept
<1> QED
  BY <1>1, MemoryInvariant, PTL

\* A caller that keeps to what it asked for never runs into a protected page,
\* unless a failed hu_realloc has freed its block.
THEOREM HeldAccessible == SpecHuMalloc => []HeldIsAccessible
<1>1. MemoryInv => HeldIsAccessible
  <2> SUFFICES ASSUME MemoryInv, ~mprotect_failed, NEW p \in DOMAIN held \ DOMAIN taken
               PROVE  Span(p, held[p]) \cap prot_none = {}
    BY DEF HeldIsAccessible
  <2>1. p \in DOMAIN kept /\ held[p] = kept[p]
    BY HeldIsKept
  <2> QED
    BY <2>1, UsableInBlock
<1> QED
  BY <1>1, MemoryInvariant, PTL

\* What hu_malloc_size answers may be used to the last byte, unless a failed
\* hu_realloc has freed the block.
THEOREM UsableSizeKept == SpecHuMalloc => []UsableSizeIsUsable
<1>1. MemoryInv => UsableSizeIsUsable
  <2> SUFFICES ASSUME MemoryInv, NEW p \in DOMAIN held \ DOMAIN taken
               PROVE  /\ Span(p, held[p]) \subseteq Span(p, hu_malloc_size(p))
                      /\ \E b \in DOMAIN libc_blocks :
                           Span(p, hu_malloc_size(p)) \subseteq Span(b, libc_blocks[b])
                      /\ ~mprotect_failed => Span(p, hu_malloc_size(p)) \cap prot_none = {}
                      /\ \A q \in DOMAIN held \ (DOMAIN taken \cup {p}) :
                           Span(p, hu_malloc_size(p)) \cap Span(q, hu_malloc_size(q)) = {}
    BY DEF UsableSizeIsUsable
  <2>1. p \in DOMAIN kept /\ held[p] = kept[p]
    BY HeldIsKept
  <2>2. \A q \in DOMAIN held \ (DOMAIN taken \cup {p}) :
          Span(p, hu_malloc_size(p)) \cap Span(q, hu_malloc_size(q)) = {}
    BY <2>1, HeldIsKept, HoldersApart
  <2> QED
    BY <2>1, <2>2, UsableInBlock
<1> QED
  BY <1>1, MemoryInvariant, PTL

\* As long as mprotect does not fail, the protected bytes are those of the
\* fences and of the quarantine, and no others.
THEOREM ProtectionExact == SpecHuMalloc => []ProtectionIsExact
<1>1. MemoryInv => ProtectionIsExact
  <2> SUFFICES ASSUME MemoryInv, ~mprotect_failed
               PROVE  prot_none = (UNION {Fence(info) : info \in Active})
                                    \cup (UNION {Block(info) : info \in Quarantined})
    BY DEF ProtectionIsExact
  <2>1. HeapInv /\ GeometryInv
    BY DEF MemoryInv, AllocatorInv
  <2>2. \A addr \in Addresses : addr \in prot_none <=> ToProtect(addr)
    BY <2>1 DEF GeometryInv, Protected
  <2>3. /\ prot_none \subseteq Addresses
        /\ \A p \in DOMAIN hu_active_allocs : Fence(hu_active_allocs[p]) \subseteq Addresses
        /\ \A i \in 1 .. Len(hu_quarantine_allocs) :
             Block(hu_quarantine_allocs[i]) \subseteq Addresses
    <3>1. prot_none \subseteq Addresses
      BY <2>1 DEF HeapInv, HeapTypes
    <3>2. /\ \A p \in DOMAIN hu_active_allocs : Block(hu_active_allocs[p]) \subseteq Addresses
          /\ \A i \in 1 .. Len(hu_quarantine_allocs) :
               Block(hu_quarantine_allocs[i]) \subseteq Addresses
      BY <2>1, RecordTypes, BlockInHeap DEF Block
    <3> QED
      BY <2>1, <3>1, <3>2, OthersProtected
  <2>4. \A addr : addr \in prot_none <=> ToProtect(addr)
    BY <2>2, <2>3 DEF ToProtect
  <2> DEFINE fenced == UNION {Fence(info) : info \in Active}
             locked == UNION {Block(info) : info \in Quarantined}
  <2>5. \A addr : addr \in fenced
                    <=> \E p \in DOMAIN hu_active_allocs : addr \in Fence(hu_active_allocs[p])
    BY Zenon DEF Active
  <2>6. \A addr : addr \in locked
                    <=> \E i \in 1 .. Len(hu_quarantine_allocs) :
                          addr \in Block(hu_quarantine_allocs[i])
    BY Zenon DEF Quarantined
  <2> HIDE DEF fenced, locked
  <2>7. prot_none = fenced \cup locked
    BY <2>4, <2>5, <2>6 DEF ToProtect
  <2> QED
    BY <2>7 DEF fenced, locked
<1> QED
  BY <1>1, MemoryInvariant, PTL

=============================================================================
