---------------------------- MODULE HuForkProofs ----------------------------
(***************************************************************************)
(* What holds of the child of a fork, for every heap and every moment the  *)
(* fork may come at: with no fences, and no block freed by a failed        *)
(* hu_realloc while its caller has it, it never aborts in libc, and what   *)
(* it holds is its own and can be used.                                    *)
(*                                                                         *)
(* Up to the fork the invariant is that of the allocator, MemoryInv.  From *)
(* there on the tables of humalloc no longer say what libc has handed out, *)
(* so that the child has an invariant of its own, ChildInv: an entry of    *)
(* the table of active blocks may be of any age, but without a fence it    *)
(* names the pointer it is filed under, and what the child holds is a      *)
(* block of libc's that is not in quarantine.                              *)
(***************************************************************************)
EXTENDS HuFork, HuMallocProofs

\* Without a fence a block begins at its user pointer.
ActiveAtStart == \A p \in DOMAIN hu_active_allocs : hu_active_allocs[p].sys_ptr = p

Unfenced == NoFences => ActiveAtStart

ChildTypes ==
  /\ AddressMap(hu_active_allocs, hu_alloc_info)
  /\ hu_quarantine_allocs \in Seq(hu_alloc_info)
  /\ hu_bypass \in BOOLEAN

\* What is in quarantine libc has not got back, block by block.
QueueOwned(blocks, queue) ==
  /\ \A i \in 1 .. Len(queue) : queue[i].sys_ptr \in DOMAIN blocks
  /\ \A i, j \in 1 .. Len(queue) : i # j => queue[i].sys_ptr # queue[j].sys_ptr

\* p is held for n bytes: in a block of libc's that is not in quarantine.
HeldIn(blocks, queue, p, n) ==
  /\ p \in DOMAIN blocks /\ n <= blocks[p]
  /\ \A i \in 1 .. Len(queue) : queue[i].sys_ptr # p

\* The blocks of libc, the quarantine and what is held fit together.
Sound(blocks, queue, holders) ==
  /\ AddressMap(blocks, Nat \ {0})
  /\ AddressMap(holders, Nat)
  /\ Apart(blocks)
  /\ QueueOwned(blocks, queue)
  /\ \A p \in DOMAIN holders : HeldIn(blocks, queue, p, holders[p])

\* Until hu_fini the quarantine is that of the fork, and nothing else is
\* protected.
QueueIsOfFork ==
  /\ \A i \in 1 .. Len(hu_quarantine_allocs) :
       libc_blocks[hu_quarantine_allocs[i].sys_ptr] = hu_quarantine_allocs[i].sys_size
  /\ ~mprotect_failed =>
       \A addr \in prot_none :
         \E i \in 1 .. Len(hu_quarantine_allocs) : addr \in Block(hu_quarantine_allocs[i])

ChildInv ==
  /\ ChildTypes
  /\ ~libc_aborted
  /\ ActiveAtStart
  /\ Sound(libc_blocks, hu_quarantine_allocs, kept)
  /\ hu_bypass => QueueIsOfFork

ForkInv ==
  /\ process \in {"parent", "child"}
  /\ process = "parent" => MemoryInv /\ Unfenced
  /\ InSoundChild => ChildInv /\ DOMAIN taken = {}

-----------------------------------------------------------------------------
(***************************************************************************)
(* Blocks, quarantine and holders, for any values of the three.            *)
(***************************************************************************)

\* A block that libc hands out, and that is held.
LEMMA SoundPut ==
  ASSUME NEW blocks, NEW queue, NEW holders, Sound(blocks, queue, holders),
         NEW size \in Nat, Representable(size), NEW ret,
         LibcFits(blocks, ret, LibcExtent(size))
  PROVE  /\ ret # NULL
         /\ Sound(MapPut(blocks, ret, LibcExtent(size)), queue, MapPut(holders, ret, size))
         /\ \A i \in 1 .. Len(queue) :
              MapPut(blocks, ret, LibcExtent(size))[queue[i].sys_ptr] = blocks[queue[i].sys_ptr]
<1> DEFINE len == LibcExtent(size)
           more == MapPut(blocks, ret, len)
           all == MapPut(holders, ret, size)
<1>1. len \in Nat \ {0} /\ size <= len
  BY ExtentIsPositive, ExtentFits
<1>2. /\ AddressMap(blocks, Nat \ {0}) /\ AddressMap(holders, Nat)
      /\ Apart(blocks)
  BY DEF Sound
<1>3. ret # NULL /\ ret \notin DOMAIN blocks /\ Apart(more)
  BY <1>2, PlainPut
<1>4. ret \in Addresses
  BY DEF LibcFits
<1>5. /\ DOMAIN more = DOMAIN blocks \cup {ret}
      /\ more[ret] = len
      /\ \A b \in DOMAIN blocks : more[b] = blocks[b]
  BY <1>3 DEF MapPut
<1>6. /\ DOMAIN all = DOMAIN holders \cup {ret}
      /\ all[ret] = size
      /\ \A p \in DOMAIN holders : p # ret => all[p] = holders[p]
  BY DEF MapPut
<1> HIDE DEF len, more, all
<1>7. QueueOwned(more, queue) /\ \A i \in 1 .. Len(queue) : queue[i].sys_ptr # ret
  BY <1>3, <1>5 DEF Sound, QueueOwned
<1>8. \A p \in DOMAIN all : HeldIn(more, queue, p, all[p])
  BY <1>1, <1>3, <1>5, <1>6, <1>7 DEF Sound, HeldIn
<1>9. AddressMap(more, Nat \ {0}) /\ AddressMap(all, Nat)
  BY <1>1, <1>2, <1>4, <1>5, <1>6 DEF AddressMap
<1>10. \A i \in 1 .. Len(queue) : more[queue[i].sys_ptr] = blocks[queue[i].sys_ptr]
  BY <1>5 DEF Sound, QueueOwned
<1>11. Sound(more, queue, all)
  BY <1>3, <1>7, <1>8, <1>9 DEF Sound
<1> QED
  BY <1>3, <1>10, <1>11 DEF len, more, all

\* A block that is given up and that libc gets back.
LEMMA SoundErase ==
  ASSUME NEW blocks, NEW queue, NEW holders, Sound(blocks, queue, holders),
         NEW ptr \in DOMAIN holders
  PROVE  /\ ptr \in DOMAIN blocks
         /\ Sound(MapErase(blocks, ptr), queue, MapErase(holders, ptr))
         /\ \A i \in 1 .. Len(queue) :
              MapErase(blocks, ptr)[queue[i].sys_ptr] = blocks[queue[i].sys_ptr]
<1> DEFINE fewer == MapErase(blocks, ptr)
           left == MapErase(holders, ptr)
<1>1. /\ DOMAIN fewer = DOMAIN blocks \ {ptr}
      /\ \A b \in DOMAIN fewer : fewer[b] = blocks[b]
      /\ DOMAIN left = DOMAIN holders \ {ptr}
      /\ \A p \in DOMAIN left : left[p] = holders[p]
  BY DEF MapErase
<1>2. Apart(fewer)
  BY ApartErase DEF Sound
<1>3. ptr \in DOMAIN blocks /\ \A i \in 1 .. Len(queue) : queue[i].sys_ptr # ptr
  BY DEF Sound, HeldIn
<1> HIDE DEF fewer, left
<1>4. AddressMap(fewer, Nat \ {0}) /\ AddressMap(left, Nat)
  BY <1>1 DEF Sound, AddressMap
<1>5. QueueOwned(fewer, queue)
  BY <1>1, <1>3 DEF Sound, QueueOwned
<1>6. \A p \in DOMAIN left : HeldIn(fewer, queue, p, left[p])
  BY <1>1 DEF Sound, HeldIn
<1>7. \A i \in 1 .. Len(queue) : fewer[queue[i].sys_ptr] = blocks[queue[i].sys_ptr]
  BY <1>1, <1>3 DEF Sound, QueueOwned
<1>8. Sound(fewer, queue, left)
  BY <1>2, <1>4, <1>5, <1>6 DEF Sound
<1> QED
  BY <1>3, <1>7, <1>8 DEF fewer, left

\* A pointer that is no longer held.
LEMMA SoundLeft ==
  ASSUME NEW blocks, NEW queue, NEW holders, Sound(blocks, queue, holders), NEW ptr
  PROVE  Sound(blocks, queue, MapErase(holders, ptr))
  BY DEF Sound, AddressMap, MapErase

\* A block that is given up and goes into quarantine.
LEMMA SoundQuarantine ==
  ASSUME NEW blocks, NEW queue \in Seq(hu_alloc_info), NEW holders,
         Sound(blocks, queue, holders),
         NEW info \in hu_alloc_info, info.sys_ptr \in DOMAIN holders
  PROVE  Sound(blocks, Append(queue, info), MapErase(holders, info.sys_ptr))
<1> DEFINE longer == Append(queue, info)
           left == MapErase(holders, info.sys_ptr)
<1>1. \A i \in 1 .. Len(longer) :
        \/ i \in 1 .. Len(queue) /\ longer[i] = queue[i]
        \/ i = Len(queue) + 1 /\ longer[i] = info
  OBVIOUS
<1>2. DOMAIN left = DOMAIN holders \ {info.sys_ptr} /\ \A p \in DOMAIN left : left[p] = holders[p]
  BY DEF MapErase
<1>3. HeldIn(blocks, queue, info.sys_ptr, holders[info.sys_ptr])
  BY DEF Sound
<1> HIDE DEF longer, left
<1>4. QueueOwned(blocks, longer)
  BY <1>1, <1>3 DEF Sound, QueueOwned, HeldIn
<1>5. \A p \in DOMAIN left : HeldIn(blocks, longer, p, left[p])
  BY <1>1, <1>2 DEF Sound, HeldIn
<1>6. Sound(blocks, longer, left)
  BY <1>2, <1>4, <1>5 DEF Sound, AddressMap
<1> QED
  BY <1>6 DEF longer, left

\* The oldest block of the quarantine, that libc gets back.
LEMMA SoundEvict ==
  ASSUME NEW blocks, NEW queue \in Seq(hu_alloc_info), queue # <<>>, NEW holders,
         Sound(blocks, queue, holders)
  PROVE  /\ Head(queue).sys_ptr \in DOMAIN blocks
         /\ Sound(MapErase(blocks, Head(queue).sys_ptr), Tail(queue), holders)
<1> DEFINE rest == Tail(queue)
           oldest == Head(queue).sys_ptr
           fewer == MapErase(blocks, oldest)
<1>1. /\ 1 \in 1 .. Len(queue)
      /\ oldest = queue[1].sys_ptr
      /\ \A i \in 1 .. Len(rest) :
           i + 1 \in 1 .. Len(queue) /\ i + 1 # 1 /\ rest[i] = queue[i + 1]
      /\ \A i, j \in 1 .. Len(rest) : i # j => i + 1 # j + 1
  <2>1. /\ Len(queue) \in Nat \ {0}
        /\ Len(rest) = Len(queue) - 1
        /\ Head(queue) = queue[1]
        /\ \A i \in 1 .. Len(rest) : i + 1 \in 2 .. Len(queue) /\ rest[i] = queue[i + 1]
    OBVIOUS
  <2> HIDE DEF rest
  <2>2. 1 \in 1 .. Len(queue)
    BY <2>1
  <2>3. /\ \A i \in 1 .. Len(rest) : i + 1 \in 1 .. Len(queue) /\ i + 1 # 1
        /\ \A i, j \in 1 .. Len(rest) : i # j => i + 1 # j + 1
    BY <2>1
  <2> QED
    BY <2>1, <2>2, <2>3
<1>2. DOMAIN fewer = DOMAIN blocks \ {oldest} /\ \A b \in DOMAIN fewer : fewer[b] = blocks[b]
  BY DEF MapErase
<1>3. Apart(fewer)
  BY ApartErase DEF Sound
<1> HIDE DEF rest, oldest, fewer
<1>4. /\ oldest \in DOMAIN blocks
      /\ \A i \in 1 .. Len(rest) : rest[i].sys_ptr # oldest
  BY <1>1 DEF Sound, QueueOwned
<1>5. QueueOwned(fewer, rest)
  <2>1. \A i \in 1 .. Len(rest) : rest[i].sys_ptr \in DOMAIN blocks
    BY <1>1 DEF Sound, QueueOwned
  <2>2. \A i, j \in 1 .. Len(rest) : i # j => rest[i].sys_ptr # rest[j].sys_ptr
    BY <1>1 DEF Sound, QueueOwned
  <2> QED
    BY <1>2, <1>4, <2>1, <2>2 DEF QueueOwned
<1>6. \A p \in DOMAIN holders : HeldIn(fewer, rest, p, holders[p])
  BY <1>1, <1>2 DEF Sound, HeldIn
<1>7. Sound(fewer, rest, holders)
  BY <1>2, <1>3, <1>5, <1>6 DEF Sound, AddressMap
<1> QED
  BY <1>4, <1>7 DEF rest, oldest, fewer

-----------------------------------------------------------------------------
(***************************************************************************)
(* The parent.                                                             *)
(***************************************************************************)

\* A new block without a fence begins at its user pointer.
LEMMA AllocateUnfenced ==
  ASSUME Unfenced, NEW size, NEW ret \in Results, Allocate(size, ret), UNCHANGED setupVars
  PROVE  Unfenced'
<1>1. hu_config' = hu_config
  BY DEF setupVars
<1>2. CASE UNCHANGED trackVars
  BY <1>1, <1>2 DEF trackVars, Unfenced, NoFences, ActiveAtStart
<1>3. CASE FencedMalloc(size, ret) /\ ret # NULL
  <2> SUFFICES ASSUME ~hu_config.overflow PROVE ActiveAtStart'
    BY <1>1 DEF Unfenced, NoFences
  <2> DEFINE info == [user_ptr |-> ret, user_size |-> size,
                      sys_ptr |-> ret - UserOffset(size, hu_config.overflow),
                      sys_size |-> SysSize(size)]
  <2>1. hu_active_allocs' = MapInsert(hu_active_allocs, ret, info)
    BY <1>3 DEF FencedMalloc
  <2>2. info.sys_ptr = ret
    BY <1>3, LibcAssumption DEF UserOffset, Results, Addresses, NULL
  <2> HIDE DEF info
  <2>3. ActiveAtStart
    BY DEF Unfenced, NoFences
  <2> QED
    BY <2>1, <2>2, <2>3 DEF ActiveAtStart, MapInsert
<1> QED
  BY <1>2, <1>3 DEF Allocate, FencedMalloc

\* A block that is given up leaves the table, or does not.
LEMMA ReleaseUnfenced ==
  ASSUME Unfenced, NEW ptr, Release(ptr), UNCHANGED setupVars
  PROVE  Unfenced'
<1>1. hu_config' = hu_config
  BY DEF setupVars
<1>2. UNCHANGED trackVars \/ hu_active_allocs' = MapErase(hu_active_allocs, ptr)
  BY DEF Release
<1> QED
  BY <1>1, <1>2 DEF trackVars, Unfenced, NoFences, ActiveAtStart, MapErase

\* Every step of the parent keeps its blocks at their pointers.
LEMMA ParentUnfenced ==
  ASSUME MemoryInv, Unfenced, NextHuMalloc
  PROVE  Unfenced'
<1>0. ASSUME UNCHANGED <<setupVars, trackVars>> PROVE Unfenced'
  BY <1>0 DEF setupVars, trackVars, Unfenced, NoFences, ActiveAtStart
<1>1. CASE \E config \in Configs : hu_malloc_init(config)
  <2>1. DOMAIN hu_active_allocs = {} /\ hu_active_allocs' = hu_active_allocs
    BY <1>1 DEF hu_malloc_init, trackVars, MemoryInv, AllocatorInv, HeapInv, NothingBeforeInit
  <2> QED
    BY <2>1 DEF Unfenced, ActiveAtStart
<1>2. CASE \E size \in Sizes, ret \in Results : hu_malloc(size, ret)
  BY <1>2, AllocateUnfenced DEF hu_malloc
<1>3. CASE \E count \in Counts, size \in Sizes, ret \in Results : hu_calloc(count, size, ret)
  BY <1>0, <1>3, AllocateUnfenced DEF hu_calloc
<1>4. CASE \E ptr \in Resizable \cup FreedBefore : hu_free(ptr)
  BY <1>4, ReleaseUnfenced DEF hu_free
<1>5. CASE \E ptr \in Resizable, size \in Sizes, ret \in Results : hu_realloc(ptr, size, ret)
  BY <1>0, <1>5, AllocateUnfenced, ReleaseUnfenced DEF hu_realloc, ReallocPassedOn, ReallocMoved
<1>6. CASE ReallocFree
  BY <1>6, ReleaseUnfenced DEF ReallocFree
<1>7. CASE EvictOldest
  BY <1>0, <1>7 DEF EvictOldest
<1> QED
  BY <1>1, <1>2, <1>3, <1>4, <1>5, <1>6, <1>7 DEF NextHuMalloc

\* At the fork: a block that is held is one of libc's, from its first byte.
LEMMA HeldAtFork ==
  ASSUME MemoryInv, ActiveAtStart, NEW p \in DOMAIN kept
  PROVE  HeldIn(libc_blocks, hu_quarantine_allocs, p, kept[p])
<1>1. HeapInv /\ GeometryInv /\ Returnable(p) /\ Room(p, kept[p])
  BY DEF MemoryInv, AllocatorInv, HeldIsReturnable, HeldHasRoom
<1>2. Owns(libc_blocks, hu_active_allocs, hu_quarantine_allocs)
  BY <1>1 DEF HeapInv
<1>3. CASE p \in DOMAIN hu_active_allocs
  <2> DEFINE info == hu_active_allocs[p]
  <2>1. /\ info \in hu_alloc_info
        /\ info.sys_ptr = p /\ info.user_ptr = p
        /\ Laid(info)
        /\ kept[p] = info.user_size
        /\ p \in DOMAIN libc_blocks /\ libc_blocks[p] = info.sys_size
    BY <1>1, <1>3, RecordTypes DEF ActiveAtStart, GeometryInv, LaidOut, Room, HasRoom
  <2>2. \A i \in 1 .. Len(hu_quarantine_allocs) : hu_quarantine_allocs[i].sys_ptr # p
    BY <1>2, <1>3, <2>1 DEF Owns
  <2> HIDE DEF info
  <2>3. info.user_size <= info.sys_size
    <3>1. info.sys_ptr \in Nat /\ info.sys_size \in Nat /\ PageSize \in Nat
      BY <2>1, LibcAssumption, LayoutAssumption DEF hu_alloc_info, Addresses
    <3>2. hu_config.overflow \in BOOLEAN
      BY <1>1 DEF HeapInv, HeapTypes
    <3> QED
      BY <2>1, <3>1, <3>2 DEF Laid, FenceSize
  <2> QED
    BY <2>1, <2>2, <2>3 DEF HeldIn
<1>4. CASE p \notin DOMAIN hu_active_allocs
  BY <1>1, <1>4 DEF Returnable, Room, HasRoom, Plain, HeldIn
<1> QED
  BY <1>3, <1>4

\* The fork may come at any time, also between the halves of hu_realloc.
LEMMA ForkStep ==
  ASSUME MemoryInv, Unfenced, fork, NoFences
  PROVE  ChildInv'
<1>1. /\ UNCHANGED <<libc_blocks, libc_aborted, prot_none, mprotect_failed, hu_config,
                     hu_active_allocs, hu_quarantine_allocs, kept>>
      /\ hu_bypass' = TRUE
  BY DEF fork, mallocVars, libcVars, protVars, setupVars, trackVars, quarantineVars
<1>2. HeapInv /\ GeometryInv /\ ActiveAtStart
  BY DEF MemoryInv, AllocatorInv, Unfenced
<1>3. /\ ~libc_aborted
      /\ ChildTypes'
      /\ AddressMap(libc_blocks, Nat \ {0}) /\ AddressMap(kept, Nat)
      /\ Apart(libc_blocks)
  BY <1>1, <1>2 DEF MemoryInv, AllocatorInv, NeverAborts, GeometryInv, HeapInv, HeapTypes,
                    ChildTypes, AddressMap
<1>4. QueueOwned(libc_blocks, hu_quarantine_allocs)
  BY <1>2 DEF HeapInv, Owns, QueueOwned
<1>5. Sound(libc_blocks, hu_quarantine_allocs, kept)
  BY <1>2, <1>3, <1>4, HeldAtFork DEF Sound
<1>6. QueueIsOfFork
  <2>1. \A i \in 1 .. Len(hu_quarantine_allocs) :
          libc_blocks[hu_quarantine_allocs[i].sys_ptr] = hu_quarantine_allocs[i].sys_size
    BY <1>2, RecordTypes
  <2>2. ASSUME ~mprotect_failed, NEW addr \in prot_none
        PROVE  \E i \in 1 .. Len(hu_quarantine_allocs) : addr \in Block(hu_quarantine_allocs[i])
    <3>1. addr \in Addresses /\ ToProtect(addr)
      BY <1>2, <2>2 DEF HeapInv, HeapTypes, GeometryInv, Protected
    <3>2. \A info : Fence(info) = {}
      BY DEF Fence, NoFences
    <3> QED
      BY <3>1, <3>2 DEF ToProtect
  <2> QED
    BY <2>1, <2>2 DEF QueueIsOfFork
<1>7. ActiveAtStart' /\ QueueIsOfFork'
  BY <1>1, <1>2, <1>6 DEF ActiveAtStart, QueueIsOfFork, Block
<1> QED
  BY <1>1, <1>3, <1>5, <1>7 DEF ChildInv

-----------------------------------------------------------------------------
(***************************************************************************)
(* The child: one lemma per call.                                          *)
(***************************************************************************)

\* What a call with the bypass on does: it leaves humalloc alone, keeps what is
\* held sound, and gives libc nothing it does not wait for.
Bypassed ==
  /\ Sound(libc_blocks', hu_quarantine_allocs, kept')
  /\ ~libc_aborted'
  /\ \A i \in 1 .. Len(hu_quarantine_allocs) :
       libc_blocks'[hu_quarantine_allocs[i].sys_ptr] = libc_blocks[hu_quarantine_allocs[i].sys_ptr]

\* Nothing else is in the child's invariant.
LEMMA BypassedKeeps ==
  ASSUME ChildInv, Bypassed, UNCHANGED <<tableVars, hu_bypass>>
  PROVE  ChildInv'
<1>1. UNCHANGED <<prot_none, mprotect_failed, hu_active_allocs, hu_quarantine_allocs, hu_bypass>>
  BY DEF tableVars, protVars, trackVars, quarantineVars
<1>2. ChildTypes' /\ ActiveAtStart'
  BY <1>1 DEF ChildInv, ChildTypes, ActiveAtStart
<1>3. hu_bypass => QueueIsOfFork'
  BY <1>1 DEF ChildInv, Bypassed, QueueIsOfFork, Block
<1> QED
  BY <1>1, <1>2, <1>3 DEF ChildInv, Bypassed

\* malloc and calloc.
LEMMA MallocBypassed ==
  ASSUME ChildInv, NEW holders, Sound(libc_blocks, hu_quarantine_allocs, holders),
         NEW size \in Nat, Representable(size), NEW ret, LibcMalloc(size, ret),
         kept' = Hold(holders, ret, size)
  PROVE  Bypassed
<1>1. ~libc_aborted'
  BY DEF LibcMalloc, ChildInv
<1>2. CASE ret = NULL /\ libc_blocks' = libc_blocks
  BY <1>1, <1>2 DEF Bypassed, Hold
<1>3. CASE /\ LibcFits(libc_blocks, ret, LibcExtent(size))
           /\ libc_blocks' = MapPut(libc_blocks, ret, LibcExtent(size))
  BY <1>1, <1>3, SoundPut DEF Bypassed, Hold
<1> QED
  BY <1>2, <1>3 DEF LibcMalloc

\* free, of what is held or of NULL.
LEMMA FreeBypassed ==
  ASSUME ChildInv, NEW ptr \in Resizable, LibcFree(ptr), kept' = MapErase(kept, ptr)
  PROVE  Bypassed
<1>1. Sound(libc_blocks, hu_quarantine_allocs, kept)
  BY DEF ChildInv
<1>2. CASE ptr \in DOMAIN kept
  <2>1. libc_blocks' = MapErase(libc_blocks, ptr)
    BY DEF LibcFree
  <2>2. /\ ptr \in DOMAIN libc_blocks
        /\ Sound(libc_blocks', hu_quarantine_allocs, kept')
        /\ \A i \in 1 .. Len(hu_quarantine_allocs) :
             libc_blocks'[hu_quarantine_allocs[i].sys_ptr]
               = libc_blocks[hu_quarantine_allocs[i].sys_ptr]
    BY <1>1, <1>2, <2>1, SoundErase
  <2> QED
    BY <2>2 DEF Bypassed, LibcFree, ChildInv
<1>3. CASE ptr \notin DOMAIN kept
  <2>1. ptr = NULL
    BY <1>3 DEF Resizable
  <2>2. ptr \notin DOMAIN libc_blocks
    BY <1>1, <2>1, LibcAssumption DEF Sound, AddressMap, Addresses, NULL
  <2>3. AddressMap(libc_blocks', Nat \ {0}) /\ Apart(libc_blocks')
    BY <1>1, <2>2, ApartErase DEF LibcFree, Sound, AddressMap, MapErase
  <2>4. /\ DOMAIN libc_blocks' = DOMAIN libc_blocks
        /\ \A b \in DOMAIN libc_blocks : libc_blocks'[b] = libc_blocks[b]
    BY <2>2 DEF LibcFree, MapErase
  <2>5. /\ QueueOwned(libc_blocks', hu_quarantine_allocs)
        /\ \A i \in 1 .. Len(hu_quarantine_allocs) :
             libc_blocks'[hu_quarantine_allocs[i].sys_ptr]
               = libc_blocks[hu_quarantine_allocs[i].sys_ptr]
    BY <1>1, <2>4 DEF Sound, QueueOwned
  <2>6. Sound(libc_blocks, hu_quarantine_allocs, kept')
    BY <1>1, SoundLeft
  <2>7. Sound(libc_blocks', hu_quarantine_allocs, kept')
    BY <2>3, <2>4, <2>5, <2>6 DEF Sound, HeldIn
  <2> QED
    BY <2>1, <2>5, <2>7 DEF Bypassed, LibcFree, ChildInv
<1> QED
  BY <1>2, <1>3

\* realloc, of what is held or of NULL: every block held is one libc can resize.
LEMMA ReallocBypassed ==
  ASSUME ChildInv, NEW ptr \in Resizable, NEW size \in Sizes, NEW ret \in Results,
         realloc(ptr, size, ret)
  PROVE  Bypassed
<1>1. Sound(libc_blocks, hu_quarantine_allocs, kept)
  BY DEF ChildInv
<1>2. size \in Nat /\ Representable(size)
  BY HuMallocAssumption
<1>3. ptr # NULL => ptr \in DOMAIN kept /\ ptr \in DOMAIN libc_blocks
  BY <1>1 DEF Resizable, Sound, HeldIn
<1>4. LibcRealloc(ptr, size, ret)
  BY DEF realloc
<1>5. kept' = IF ret = NULL /\ size # 0 THEN kept ELSE Hold(MapErase(kept, ptr), ret, size)
  BY DEF realloc
<1>6. CASE ptr = NULL /\ LibcMalloc(size, ret)
  <2>1. Sound(libc_blocks, hu_quarantine_allocs, MapErase(kept, ptr))
    BY <1>1, SoundLeft
  <2>2. CASE ret = NULL /\ size # 0
    <3>1. kept' = Hold(kept, ret, size)
      BY <1>5, <2>2 DEF Hold
    <3> QED
      BY <1>1, <1>2, <1>6, <3>1, MallocBypassed
  <2>3. CASE ~(ret = NULL /\ size # 0)
    <3>1. kept' = Hold(MapErase(kept, ptr), ret, size)
      BY <1>5, <2>3
    <3> QED
      BY <1>2, <1>6, <2>1, <3>1, MallocBypassed
  <2> QED
    BY <2>2, <2>3
<1>7. CASE ptr # NULL /\ size = 0 /\ ret = NULL /\ LibcFree(ptr)
  BY <1>5, <1>7, FreeBypassed DEF Hold
<1>8. CASE /\ ptr \in DOMAIN libc_blocks /\ ptr # NULL /\ size # 0
           /\ UNCHANGED <<libc_blocks, libc_aborted>>
           /\ ret = NULL
  BY <1>1, <1>5, <1>8 DEF Bypassed, ChildInv
<1>9. CASE /\ ptr # NULL /\ size # 0
           /\ LibcFits(MapErase(libc_blocks, ptr), ret, LibcExtent(size))
           /\ libc_blocks' = MapPut(MapErase(libc_blocks, ptr), ret, LibcExtent(size))
           /\ UNCHANGED libc_aborted
  <2> DEFINE fewer == MapErase(libc_blocks, ptr)
             left == MapErase(kept, ptr)
  <2>1. /\ Sound(fewer, hu_quarantine_allocs, left)
        /\ \A i \in 1 .. Len(hu_quarantine_allocs) :
             fewer[hu_quarantine_allocs[i].sys_ptr] = libc_blocks[hu_quarantine_allocs[i].sys_ptr]
    BY <1>1, <1>3, <1>9, SoundErase
  <2> HIDE DEF fewer, left
  <2>2. /\ ret # NULL
        /\ Sound(libc_blocks', hu_quarantine_allocs, MapPut(left, ret, size))
        /\ \A i \in 1 .. Len(hu_quarantine_allocs) :
             libc_blocks'[hu_quarantine_allocs[i].sys_ptr] = fewer[hu_quarantine_allocs[i].sys_ptr]
    BY <1>2, <1>9, <2>1, SoundPut DEF fewer
  <2>3. kept' = MapPut(left, ret, size)
    BY <1>5, <2>2 DEF Hold, left
  <2> QED
    BY <1>9, <2>1, <2>2, <2>3 DEF Bypassed, ChildInv
<1>10. NULL \notin DOMAIN libc_blocks
  BY <1>1, LibcAssumption DEF Sound, AddressMap, Addresses, NULL
<1> QED
  BY <1>3, <1>4, <1>6, <1>7, <1>8, <1>9, <1>10 DEF LibcRealloc

\* A destructor's hu_free: what the stale table has of the pointer, if anything,
\* begins at the pointer itself.
LEMMA DestructorKeeps ==
  ASSUME ChildInv, NEW ptr \in DOMAIN kept, DestructorFree(ptr)
  PROVE  ChildInv'
<1>1. /\ Sound(libc_blocks, hu_quarantine_allocs, kept)
      /\ hu_quarantine_allocs \in Seq(hu_alloc_info)
  BY DEF ChildInv, ChildTypes
<1>2. /\ hu_bypass' = FALSE
      /\ Release(ptr)
      /\ kept' = MapErase(kept, ptr)
  BY DEF DestructorFree, InChild, hu_free
<1>3. ptr # NULL /\ ptr \in DOMAIN libc_blocks
  BY <1>1, LibcAssumption DEF Sound, AddressMap, Addresses, NULL, HeldIn
<1>4. CASE LibcFree(ptr) /\ UNCHANGED <<trackVars, quarantineVars>>
  <2>1. Sound(libc_blocks', hu_quarantine_allocs, kept')
    BY <1>1, <1>2, <1>4, SoundErase DEF LibcFree
  <2> QED
    BY <1>2, <1>3, <1>4, <2>1 DEF ChildInv, ChildTypes, ActiveAtStart, LibcFree, trackVars,
                                  quarantineVars
<1>5. CASE UNCHANGED <<libcVars, trackVars, quarantineVars>>
  <2>1. Sound(libc_blocks, hu_quarantine_allocs, kept')
    BY <1>1, <1>2, SoundLeft
  <2> QED
    BY <1>2, <1>5, <2>1 DEF ChildInv, ChildTypes, ActiveAtStart, libcVars, trackVars,
                            quarantineVars
<1>6. CASE /\ ptr \in DOMAIN hu_active_allocs
           /\ hu_active_allocs' = MapErase(hu_active_allocs, ptr)
           /\ Quarantine(hu_active_allocs[ptr]) \/ GiveBack(hu_active_allocs[ptr])
  <2> DEFINE info == hu_active_allocs[ptr]
  <2>1. info \in hu_alloc_info /\ info.sys_ptr = ptr
    BY <1>6 DEF ChildInv, ChildTypes, AddressMap, ActiveAtStart
  <2>2. AddressMap(hu_active_allocs', hu_alloc_info) /\ ActiveAtStart'
    BY <1>6 DEF ChildInv, ChildTypes, AddressMap, ActiveAtStart, MapErase
  <2> HIDE DEF info
  <2>3. CASE Quarantine(info)
    <3>1. /\ UNCHANGED <<libc_blocks, libc_aborted>>
          /\ hu_quarantine_allocs' = Append(hu_quarantine_allocs, info)
      BY <2>3 DEF Quarantine, libcVars
    <3>2. Sound(libc_blocks', hu_quarantine_allocs', kept')
      BY <1>1, <1>2, <2>1, <3>1, SoundQuarantine
    <3>3. hu_quarantine_allocs' \in Seq(hu_alloc_info)
      BY <1>1, <2>1, <3>1
    <3> QED
      BY <1>2, <2>2, <3>1, <3>2, <3>3 DEF ChildInv, ChildTypes
  <2>4. CASE GiveBack(info)
    <3>1. LibcFree(ptr) /\ UNCHANGED hu_quarantine_allocs
      BY <2>1, <2>4 DEF GiveBack, quarantineVars
    <3>2. Sound(libc_blocks', hu_quarantine_allocs', kept')
      BY <1>1, <1>2, <3>1, SoundErase DEF LibcFree
    <3> QED
      BY <1>1, <1>2, <1>3, <2>2, <3>1, <3>2 DEF ChildInv, ChildTypes, LibcFree
  <2> QED
    BY <1>6, <2>3, <2>4 DEF info
<1> QED
  BY <1>2, <1>4, <1>5, <1>6 DEF Release

\* A round of the eviction loop, after hu_fini.
LEMMA ChildEvicts ==
  ASSUME ChildInv, ~hu_bypass, EvictOldest, UNCHANGED hu_bypass
  PROVE  ChildInv'
<1>1. /\ Sound(libc_blocks, hu_quarantine_allocs, kept)
      /\ hu_quarantine_allocs \in Seq(hu_alloc_info)
  BY DEF ChildInv, ChildTypes
<1>2. /\ hu_quarantine_allocs # <<>>
      /\ hu_quarantine_allocs' = Tail(hu_quarantine_allocs)
      /\ LibcFree(Head(hu_quarantine_allocs).sys_ptr)
      /\ UNCHANGED <<hu_active_allocs, kept>>
  BY DEF EvictOldest, OverLimit, trackVars
<1>3. /\ Head(hu_quarantine_allocs).sys_ptr \in DOMAIN libc_blocks
      /\ Sound(libc_blocks', hu_quarantine_allocs', kept')
  BY <1>1, <1>2, SoundEvict DEF LibcFree
<1>4. hu_quarantine_allocs' \in Seq(hu_alloc_info)
  BY <1>1, <1>2
<1> QED
  BY <1>2, <1>3, <1>4 DEF ChildInv, ChildTypes, ActiveAtStart, LibcFree

\* hu_fini.
LEMMA FiniKeeps ==
  ASSUME ChildInv, hu_fini
  PROVE  ChildInv'
<1>1. /\ UNCHANGED <<libc_blocks, libc_aborted, hu_active_allocs, hu_quarantine_allocs, kept>>
      /\ hu_bypass' = FALSE
  BY DEF hu_fini, mallocVars, libcVars, trackVars, quarantineVars
<1> QED
  BY <1>1 DEF ChildInv, ChildTypes, ActiveAtStart

-----------------------------------------------------------------------------
(***************************************************************************)
(* The theorems.                                                           *)
(***************************************************************************)

LEMMA InitFork == InitHuFork => ForkInv
<1> SUFFICES ASSUME InitHuFork PROVE ForkInv
  OBVIOUS
<1>1. MemoryInv
  BY InitMemory DEF InitHuFork
<1>2. DOMAIN hu_active_allocs = {}
  BY DEF InitHuFork, InitHuMalloc, NoEntries
<1> QED
  BY <1>1, <1>2 DEF InitHuFork, ForkInv, InSoundChild, Unfenced, ActiveAtStart

\* Every step of the parent, the fork, and every step of the child.
LEMMA NextFork == ForkInv /\ [NextHuFork]_<<mallocVars, forkVars>> => ForkInv'
<1> SUFFICES ASSUME ForkInv, [NextHuFork]_<<mallocVars, forkVars>> PROVE ForkInv'
  OBVIOUS
<1>1. CASE process = "parent" /\ NextHuMalloc /\ UNCHANGED forkVars
  <2>1. MemoryInv' /\ Unfenced'
    BY <1>1, NextMemory, ParentUnfenced DEF ForkInv
  <2> QED
    BY <1>1, <2>1 DEF ForkInv, InSoundChild, forkVars
<1>2. CASE fork
  <2>1. /\ process = "parent" /\ process' = "child"
        /\ robbed' = (DOMAIN taken # {})
        /\ UNCHANGED <<hu_config, taken>>
    BY <1>2 DEF fork, mallocVars, setupVars
  <2> QED
    BY <1>2, <2>1, ForkStep DEF ForkInv, InSoundChild, NoFences
<1>3. ASSUME process = "child", UNCHANGED <<process, robbed, hu_config>>,
             DOMAIN taken' \subseteq DOMAIN taken,
             ChildInv /\ DOMAIN taken = {} => ChildInv'
      PROVE  ForkInv'
  BY <1>3 DEF ForkInv, InSoundChild, NoFences
<1>0. /\ DOMAIN held = DOMAIN kept \cup DOMAIN taken
      /\ \A ptr : DOMAIN TakenBut(ptr) \subseteq DOMAIN taken
  BY DEF held, TakenBut, MapErase
<1>4. CASE \E size \in Sizes, ret \in Results : malloc(size, ret)
  <2>1. PICK size \in Sizes, ret \in Results : malloc(size, ret)
    BY <1>4
  <2>2. size \in Nat /\ Representable(size)
    BY HuMallocAssumption
  <2>3. /\ process = "child"
        /\ LibcMalloc(size, ret) /\ kept' = Hold(kept, ret, size)
        /\ UNCHANGED <<process, robbed, taken, tableVars, hu_bypass>>
    BY <2>1 DEF malloc, InChild
  <2>4. ChildInv => ChildInv'
    BY <2>2, <2>3, MallocBypassed, BypassedKeeps DEF ChildInv
  <2> QED
    BY <1>3, <2>3, <2>4 DEF tableVars, setupVars
<1>5. CASE \E ptr \in DOMAIN held \cup {NULL} : free(ptr)
  <2>1. PICK ptr \in DOMAIN held \cup {NULL} : free(ptr)
    BY <1>5
  <2>2. /\ process = "child"
        /\ LibcFree(ptr) /\ kept' = MapErase(kept, ptr) /\ taken' = TakenBut(ptr)
        /\ UNCHANGED <<process, robbed, tableVars, hu_bypass>>
    BY <2>1 DEF free, InChild
  <2>3. DOMAIN taken = {} => ptr \in Resizable
    BY <1>0, <2>1 DEF Resizable
  <2>4. ChildInv /\ DOMAIN taken = {} => ChildInv'
    BY <2>2, <2>3, FreeBypassed, BypassedKeeps
  <2> QED
    BY <1>3, <1>0, <2>2, <2>4 DEF tableVars, setupVars
<1>6. CASE \E ptr \in DOMAIN held \cup {NULL}, size \in Sizes, ret \in Results :
           realloc(ptr, size, ret)
  <2>1. PICK ptr \in DOMAIN held \cup {NULL}, size \in Sizes, ret \in Results :
          realloc(ptr, size, ret)
    BY <1>6
  <2>2. /\ process = "child" /\ UNCHANGED <<process, robbed, tableVars, hu_bypass>>
        /\ taken' = taken \/ taken' = TakenBut(ptr)
    BY <2>1 DEF realloc, InChild
  <2>3. DOMAIN taken = {} => ptr \in Resizable
    BY <1>0, <2>1 DEF Resizable
  <2>4. ChildInv /\ DOMAIN taken = {} => ChildInv'
    BY <2>1, <2>2, <2>3, ReallocBypassed, BypassedKeeps
  <2> QED
    BY <1>3, <1>0, <2>2, <2>4 DEF tableVars, setupVars
<1>7. CASE hu_fini
  BY <1>3, <1>7, FiniKeeps DEF hu_fini, InChild, mallocVars, setupVars
<1>8. CASE \E ptr \in DOMAIN held : DestructorFree(ptr)
  <2>1. PICK ptr \in DOMAIN held : DestructorFree(ptr)
    BY <1>8
  <2>2. /\ process = "child" /\ UNCHANGED <<process, robbed, hu_config>>
        /\ taken' = TakenBut(ptr)
    BY <2>1 DEF DestructorFree, InChild, hu_free, setupVars
  <2>3. ChildInv /\ DOMAIN taken = {} => ChildInv'
    BY <1>0, <2>1, DestructorKeeps
  <2> QED
    BY <1>3, <1>0, <2>2, <2>3
<1>9. CASE process = "child" /\ ~hu_bypass /\ EvictOldest /\ UNCHANGED forkVars
  BY <1>3, <1>9, ChildEvicts DEF EvictOldest, setupVars, forkVars
<1>10. CASE UNCHANGED <<mallocVars, forkVars>>
  <2>1. UNCHANGED <<process, robbed, taken, hu_bypass, libc_blocks, libc_aborted, prot_none, mprotect_failed,
                    hu_config, hu_active_allocs, hu_quarantine_allocs, kept>>
    BY <1>10 DEF mallocVars, forkVars, libcVars, protVars, setupVars, trackVars, quarantineVars
  <2>2. MemoryInv => MemoryInv'
    BY <1>10, NextMemory DEF forkVars
  <2>3. Unfenced => Unfenced'
    BY <2>1 DEF Unfenced, NoFences, ActiveAtStart
  <2>4. ChildInv => ChildInv'
    BY <2>1 DEF ChildInv, ChildTypes, ActiveAtStart, QueueIsOfFork, Block
  <2> QED
    BY <2>1, <2>2, <2>3, <2>4 DEF ForkInv, InSoundChild, NoFences
<1> QED
  BY <1>1, <1>2, <1>4, <1>5, <1>6, <1>7, <1>8, <1>9, <1>10 DEF NextHuFork

\* The allocator's invariant up to the fork, and the child's from there on, hold
\* in every state.
THEOREM ForkInvariant == SpecHuFork => []ForkInv
  BY InitFork, NextFork, PTL DEF SpecHuFork

\* The child's bypass (humain.cpp:108-133) is safe where blocks have no fences and
\* none was freed by a failed hu_realloc while its caller still had it:
\* free and realloc get libc's own pointers, and so does hu_free after hu_fini.
THEOREM ChildNeverAbortsEver == SpecHuFork => []ChildNeverAborts
<1>1. ForkInv => ChildNeverAborts
  BY DEF ForkInv, ChildInv, ChildNeverAborts
<1> QED
  BY <1>1, ForkInvariant, PTL

\* The memory the child holds is its own, whatever call the fork cut in two and
\* however stale the tables are that hu_free goes by in the end; again unless it
\* inherited a block that a failed hu_realloc had freed.
THEOREM ChildOwnsIts == SpecHuFork => []ChildOwnsItsMemory
<1>1. ForkInv => ChildOwnsItsMemory
  <2> SUFFICES ASSUME ChildInv
               PROVE  HeldIsIntact /\ \A info \in Quarantined : info.sys_ptr \in DOMAIN libc_blocks
    BY DEF ForkInv, ChildOwnsItsMemory
  <2>1. Sound(libc_blocks, hu_quarantine_allocs, kept)
    BY DEF ChildInv
  <2>2. \A p \in DOMAIN kept :
          p \in DOMAIN libc_blocks /\ Span(p, kept[p]) \subseteq Span(p, libc_blocks[p])
    <3> SUFFICES ASSUME NEW p \in DOMAIN kept
                 PROVE  p \in DOMAIN libc_blocks /\ Span(p, kept[p]) \subseteq Span(p, libc_blocks[p])
      OBVIOUS
    <3>1. /\ p \in DOMAIN libc_blocks /\ kept[p] <= libc_blocks[p]
          /\ p \in Nat /\ kept[p] \in Nat /\ libc_blocks[p] \in Nat
      BY <2>1, LibcAssumption DEF Sound, HeldIn, AddressMap, Addresses
    <3> QED
      BY <3>1 DEF Span
  <2>3. Apart(libc_blocks)
    BY <2>1 DEF Sound
  <2>4. HeldIsIntact
    BY <2>2, <2>3, HeldIsKept DEF HeldIsIntact, Apart
  <2>5. \A info \in Quarantined : info.sys_ptr \in DOMAIN libc_blocks
    BY <2>1 DEF Sound, QueueOwned, Quarantined
  <2> QED
    BY <2>4, <2>5
<1> QED
  BY <1>1, ForkInvariant, PTL

\* Nothing the child holds is protected before hu_fini: what is protected is in
\* the quarantine of the fork, which libc never hands out again and which, under
\* InSoundChild, has nothing that is still held.
THEOREM ChildCanUseIts == SpecHuFork => []ChildCanUseItsMemory
<1>1. ForkInv => ChildCanUseItsMemory
  <2> SUFFICES ASSUME ChildInv, hu_bypass, ~mprotect_failed, NEW p \in DOMAIN kept
               PROVE  Span(p, kept[p]) \cap prot_none = {}
    BY HeldIsKept DEF ForkInv, ChildCanUseItsMemory, HeldIsAccessible
  <2>1. /\ Sound(libc_blocks, hu_quarantine_allocs, kept)
        /\ QueueIsOfFork
    BY DEF ChildInv
  <2>2. /\ p \in DOMAIN libc_blocks
        /\ p \in Nat /\ kept[p] \in Nat /\ libc_blocks[p] \in Nat /\ kept[p] <= libc_blocks[p]
    BY <2>1, LibcAssumption DEF Sound, HeldIn, AddressMap, Addresses
  <2>3. Span(p, kept[p]) \subseteq Span(p, libc_blocks[p])
    BY <2>2 DEF Span
  <2>4. \A i \in 1 .. Len(hu_quarantine_allocs) :
          Span(p, libc_blocks[p]) \cap Block(hu_quarantine_allocs[i]) = {}
    BY <2>1, <2>2 DEF Sound, Apart, QueueOwned, HeldIn, QueueIsOfFork, Block
  <2> QED
    BY <2>1, <2>3, <2>4 DEF QueueIsOfFork
<1> QED
  BY <1>1, ForkInvariant, PTL

=============================================================================
