------------------------------ MODULE HuMalloc ------------------------------
(***************************************************************************)
(* The fenced allocator of humalloc.cpp: each block of at least minsize    *)
(* bytes gets pages of its own and, with overflow detection, a protected   *)
(* page behind it; with use-after-free detection a freed block is kept     *)
(* protected in a bounded quarantine, the oldest block leaving first.      *)
(* Callers hold the wrapper's mutex, so a call is atomic for other threads; *)
(* its steps here are the parts of hu_realloc and the rounds of the        *)
(* eviction loop in hu_free.                                               *)
(***************************************************************************)
EXTENDS Libc, Sequences, FiniteSets, FiniteSetsExt

CONSTANTS
  Configs,    \* the arguments hu_malloc_init may be called with
  Sizes,      \* the sizes a caller asks for
  Counts,     \* the counts a caller of calloc asks for
  MaxHeld     \* bound on the blocks the callers hold at a time

ConfigType == [overflow : BOOLEAN, useafterfree : BOOLEAN,
               minsize : Nat, quarantine_pct : Nat]

ASSUME HuMallocAssumption ==
  /\ Configs \subseteq ConfigType
  /\ Sizes \subseteq Nat
  /\ \A size \in Sizes : Representable(size)
  /\ Counts \subseteq Nat
  /\ \A count \in Counts, size \in Sizes : Representable(count * size)

VARIABLES
  hu_malloc_inited,
  hu_config,               \* hu_overflow, hu_useafterfree, hu_minsize and
                           \* hu_quarantine_max_size
  hu_user_addrs,           \* every user pointer a fenced block has ever had
  hu_active_allocs,        \* user pointer -> hu_alloc_info
  hu_quarantine_allocs,    \* queue of hu_alloc_info
  hu_quarantine_size,
  hu_quarantine_evicted,
  pending_free,            \* the old block hu_realloc has still to free
  kept,                    \* auxiliary: pointer -> size of the blocks handed
                           \* out and neither handed back nor taken
  taken                    \* auxiliary: pointer -> size of the blocks that a
                           \* failed hu_realloc took from their callers

trackVars == <<hu_user_addrs, hu_active_allocs>>
quarantineVars == <<hu_quarantine_allocs, hu_quarantine_size, hu_quarantine_evicted>>
setupVars == <<hu_malloc_inited, hu_config>>
mallocVars == <<libcVars, protVars, setupVars, trackVars, quarantineVars,
                pending_free, kept, taken>>

hu_alloc_info == [user_ptr : Addresses, user_size : Nat,
                  sys_ptr : Addresses, sys_size : Nat]

InitHuMalloc ==
  /\ LibcInit
  /\ hu_malloc_inited = FALSE
  /\ hu_config = [overflow |-> FALSE, useafterfree |-> FALSE,
                  minsize |-> 0, quarantine_max_size |-> 0]
  /\ hu_user_addrs = {}
  /\ hu_active_allocs = NoEntries
  /\ hu_quarantine_allocs = <<>>
  /\ hu_quarantine_size = 0
  /\ hu_quarantine_evicted = FALSE
  /\ pending_free = NULL
  /\ kept = NoEntries
  /\ taken = NoEntries

-----------------------------------------------------------------------------
\* The condition of hu_free's eviction loop.
OverLimit ==
  /\ hu_quarantine_size > hu_config.quarantine_max_size
  /\ hu_quarantine_allocs # <<>>

\* No call is in progress.
Idle == pending_free = NULL /\ ~OverLimit /\ ~libc_aborted

hu_malloc_init(config) ==
  /\ ~hu_malloc_inited
  /\ hu_malloc_inited' = TRUE
  /\ hu_config' = [overflow |-> config.overflow,
                   useafterfree |-> config.useafterfree,
                   minsize |-> config.minsize,
                   quarantine_max_size |-> QuarantineMaxSize(config.quarantine_pct)]
  /\ UNCHANGED <<libcVars, protVars, trackVars, quarantineVars, pending_free, kept, taken>>

-----------------------------------------------------------------------------
(***************************************************************************)
(* hu_malloc                                                               *)
(***************************************************************************)

\* The early returns of hu_malloc: these requests go to libc as they are.
PlainRequest(size) ==
  \/ ~hu_malloc_inited
  \/ size = 0
  \/ size < hu_config.minsize

SysSize(size) == hu_calc_sys_size(hu_calc_user_size(size), hu_config.overflow)

Mutant_FencePtr_behind(info) == info.sys_ptr + info.sys_size

\* The address of the fence of a block, if it has one.
FencePtr(info) == info.sys_ptr + FenceOffset(info.sys_size)

Fence(info) == IF hu_config.overflow THEN Span(FencePtr(info), PageSize) ELSE {}

\* A block with pages of its own.
FencedMalloc(size, ret) ==
  LET sys_ptr == ret - UserOffset(size, hu_config.overflow)
      info == [user_ptr |-> ret, user_size |-> size,
               sys_ptr |-> sys_ptr, sys_size |-> SysSize(size)]
  IN  \/ /\ ret # NULL
         /\ LibcMemalign(SysSize(size), sys_ptr)
         /\ sys_ptr # NULL
         /\ IF hu_config.overflow THEN ProtectNone(Fence(info)) ELSE UNCHANGED protVars
         /\ hu_active_allocs' = MapInsert(hu_active_allocs, ret, info)
         /\ hu_user_addrs' = hu_user_addrs \cup {ret}
      \/ /\ ret = NULL
         /\ LibcMemalign(SysSize(size), NULL)
         /\ UNCHANGED <<protVars, trackVars>>

Allocate(size, ret) ==
  \/ /\ PlainRequest(size)
     /\ LibcMalloc(size, ret)
     /\ UNCHANGED <<protVars, trackVars>>
  \/ /\ ~PlainRequest(size)
     /\ FencedMalloc(size, ret)

\* The caller's view of a call that returned ret for a request of size bytes.
Hold(blocks, ret, size) == IF ret = NULL THEN blocks ELSE MapPut(blocks, ret, size)

hu_malloc(size, ret) ==
  /\ Idle
  /\ Allocate(size, ret)
  /\ kept' = Hold(kept, ret, size)
  /\ UNCHANGED <<setupVars, quarantineVars, pending_free, taken>>

\* calloc: 0 bytes and the time before hu_malloc_init are left to libc, a
\* product that is not a size_t fails.
hu_calloc(count, size, ret) ==
  /\ Idle
  /\ IF hu_malloc_inited /\ count # 0 /\ size # 0
       THEN IF CallocOverflows(count, size)
              THEN ret = NULL /\ UNCHANGED <<libcVars, protVars, trackVars>>
              ELSE Allocate(CallocTotal(count, size), ret)
       ELSE LibcMalloc(count * size, ret) /\ UNCHANGED <<protVars, trackVars>>
  /\ kept' = Hold(kept, ret, count * size)
  /\ UNCHANGED <<setupVars, quarantineVars, pending_free, taken>>

-----------------------------------------------------------------------------
(***************************************************************************)
(* hu_free                                                                 *)
(***************************************************************************)

Mutant_Quarantine_user_size(info) ==
  /\ ProtectNone(Span(info.sys_ptr, info.sys_size))
  /\ hu_quarantine_allocs' = Append(hu_quarantine_allocs, info)
  /\ hu_quarantine_size' = (hu_quarantine_size + info.user_size) % SizeMod
  /\ UNCHANGED <<libcVars, hu_quarantine_evicted>>

\* Into quarantine, protected; the eviction loop follows as EvictOldest.
Quarantine(info) ==
  /\ ProtectNone(Span(info.sys_ptr, info.sys_size))
  /\ hu_quarantine_allocs' = Append(hu_quarantine_allocs, info)
  /\ hu_quarantine_size' = (hu_quarantine_size + info.sys_size) % SizeMod
  /\ UNCHANGED <<libcVars, hu_quarantine_evicted>>

Mutant_GiveBack_protected(info) ==
  /\ LibcFree(info.sys_ptr)
  /\ UNCHANGED <<protVars, quarantineVars>>

\* Straight back to libc, without a quarantine.
GiveBack(info) ==
  /\ ProtectReadWrite(Span(info.sys_ptr, info.sys_size))
  /\ LibcFree(info.sys_ptr)
  /\ UNCHANGED quarantineVars

Mutant_Release_stays_active(ptr) ==
  \/ /\ ~hu_malloc_inited \/ (ptr # NULL /\ ptr \notin hu_user_addrs)
     /\ LibcFree(ptr)
     /\ UNCHANGED <<protVars, trackVars, quarantineVars>>
  \/ /\ hu_malloc_inited
     /\ ptr = NULL \/ (ptr \in hu_user_addrs /\ ptr \notin DOMAIN hu_active_allocs)
     /\ UNCHANGED <<libcVars, protVars, trackVars, quarantineVars>>
  \/ /\ hu_malloc_inited
     /\ ptr \in DOMAIN hu_active_allocs
     /\ IF hu_config.useafterfree
          THEN Quarantine(hu_active_allocs[ptr])
          ELSE GiveBack(hu_active_allocs[ptr])
     /\ UNCHANGED trackVars

Mutant_Release_double_free_passed_on(ptr) ==
  \/ /\ ~hu_malloc_inited \/ ptr \notin DOMAIN hu_active_allocs
     /\ LibcFree(ptr)
     /\ UNCHANGED <<protVars, trackVars, quarantineVars>>
  \/ /\ hu_malloc_inited
     /\ ptr \in DOMAIN hu_active_allocs
     /\ hu_active_allocs' = MapErase(hu_active_allocs, ptr)
     /\ IF hu_config.useafterfree
          THEN Quarantine(hu_active_allocs[ptr])
          ELSE GiveBack(hu_active_allocs[ptr])
     /\ UNCHANGED hu_user_addrs

Release(ptr) ==
  \/ /\ ~hu_malloc_inited \/ (ptr # NULL /\ ptr \notin hu_user_addrs)
     /\ LibcFree(ptr)
     /\ UNCHANGED <<protVars, trackVars, quarantineVars>>
  \/ /\ hu_malloc_inited
     /\ ptr = NULL \/ (ptr \in hu_user_addrs /\ ptr \notin DOMAIN hu_active_allocs)
     /\ UNCHANGED <<libcVars, protVars, trackVars, quarantineVars>>
  \/ /\ hu_malloc_inited
     /\ ptr \in hu_user_addrs /\ ptr \in DOMAIN hu_active_allocs
     /\ hu_active_allocs' = MapErase(hu_active_allocs, ptr)
     /\ IF hu_config.useafterfree
          THEN Quarantine(hu_active_allocs[ptr])
          ELSE GiveBack(hu_active_allocs[ptr])
     /\ UNCHANGED hu_user_addrs

\* A caller hands ptr back: the block it has, or else the one taken from it.
TakenBut(ptr) == IF ptr \in DOMAIN kept THEN taken ELSE MapErase(taken, ptr)

hu_free(ptr) ==
  /\ Idle
  /\ Release(ptr)
  /\ kept' = MapErase(kept, ptr)
  /\ taken' = TakenBut(ptr)
  /\ UNCHANGED <<setupVars, pending_free>>

Mutant_EvictOldest_protected ==
  LET oldest == Head(hu_quarantine_allocs)
  IN  /\ OverLimit
      /\ ~libc_aborted
      /\ hu_quarantine_evicted' = TRUE
      /\ hu_quarantine_allocs' = Tail(hu_quarantine_allocs)
      /\ hu_quarantine_size' = (hu_quarantine_size - oldest.sys_size) % SizeMod
      /\ LibcFree(oldest.sys_ptr)
      /\ UNCHANGED <<protVars, setupVars, trackVars, pending_free, kept, taken>>

\* One round of the loop that brings the quarantine back to its limit.
EvictOldest ==
  LET oldest == Head(hu_quarantine_allocs)
  IN  /\ OverLimit
      /\ ~libc_aborted
      /\ hu_quarantine_evicted' = TRUE
      /\ hu_quarantine_allocs' = Tail(hu_quarantine_allocs)
      /\ ProtectReadWrite(Span(oldest.sys_ptr, oldest.sys_size))
      /\ hu_quarantine_size' = (hu_quarantine_size - oldest.sys_size) % SizeMod
      /\ LibcFree(oldest.sys_ptr)
      /\ UNCHANGED <<setupVars, trackVars, pending_free, kept, taken>>

-----------------------------------------------------------------------------
(***************************************************************************)
(* hu_realloc                                                              *)
(***************************************************************************)

\* Requests hu_realloc passes on: to libc's realloc, hu_malloc or hu_free.
ReallocPassedOn(ptr, size, ret) ==
  \/ /\ \/ ~hu_malloc_inited
        \/ ptr # NULL /\ size # 0 /\ ptr \notin DOMAIN hu_active_allocs
     /\ LibcRealloc(ptr, size, ret)
     /\ kept' = IF ret = NULL /\ size # 0 THEN kept
                ELSE Hold(MapErase(kept, ptr), ret, size)
     /\ taken' = IF ret = NULL /\ size # 0 THEN taken ELSE TakenBut(ptr)
     /\ UNCHANGED <<protVars, trackVars, quarantineVars>>
  \/ /\ hu_malloc_inited /\ ptr = NULL
     /\ Allocate(size, ret)
     /\ kept' = Hold(kept, ret, size)
     /\ UNCHANGED <<quarantineVars, taken>>
  \/ /\ hu_malloc_inited /\ ptr # NULL /\ size = 0
     /\ ret = NULL
     /\ Release(ptr)
     /\ kept' = MapErase(kept, ptr)
     /\ taken' = TakenBut(ptr)

\* hu_realloc of ptr returned ret: its caller still owns ptr if ret is NULL, and
\* hu_free has it all the same.
Taken(ptr, ret) == IF ret = NULL THEN MapPut(taken, ptr, kept[ptr]) ELSE taken

Mutant_ReallocMoved_frees_new(ptr, size, ret) ==
  /\ hu_malloc_inited /\ ptr # NULL /\ size # 0
  /\ ptr \in DOMAIN hu_active_allocs
  /\ Allocate(size, ret)
  /\ pending_free' = ret
  /\ kept' = Hold(MapErase(kept, ptr), ret, size)
  /\ taken' = Taken(ptr, ret)
  /\ UNCHANGED quarantineVars

\* A fenced block moves: the new block first, also when there is none to be
\* had, then ReallocFree for the old one.
ReallocMoved(ptr, size, ret) ==
  /\ hu_malloc_inited /\ ptr # NULL /\ size # 0
  /\ ptr \in DOMAIN hu_active_allocs
  /\ Allocate(size, ret)
  /\ pending_free' = ptr
  /\ kept' = Hold(MapErase(kept, ptr), ret, size)
  /\ taken' = Taken(ptr, ret)
  /\ UNCHANGED quarantineVars

hu_realloc(ptr, size, ret) ==
  /\ Idle
  /\ \/ ReallocPassedOn(ptr, size, ret) /\ UNCHANGED pending_free
     \/ ReallocMoved(ptr, size, ret)
  /\ UNCHANGED setupVars

ReallocFree ==
  /\ pending_free # NULL
  /\ Release(pending_free)
  /\ pending_free' = NULL
  /\ UNCHANGED <<setupVars, kept, taken>>

\* A plausible slip: the size of the whole block.
Mutant_hu_malloc_size_of_block(ptr) ==
  IF hu_malloc_inited /\ ptr \in DOMAIN hu_active_allocs
    THEN hu_active_allocs[ptr].sys_size
    ELSE libc_blocks[ptr]

\* malloc_size, on macOS: what the caller may use of a block.
hu_malloc_size(ptr) ==
  IF hu_malloc_inited /\ ptr \in DOMAIN hu_active_allocs
    THEN hu_calc_user_size(hu_active_allocs[ptr].user_size)
    ELSE libc_blocks[ptr]

-----------------------------------------------------------------------------
(***************************************************************************)
(* The callers: any sequence of calls on NULL and on the blocks they hold, *)
(* and frees of fenced blocks that they or a failed hu_realloc have freed. *)
(* A caller that frees a plain block twice, or a pointer it never got, is  *)
(* at libc's mercy with or without heapusage and is left out.  To resize   *)
(* a block again after a failure is legal too, and SpecRetrying has it.    *)
(***************************************************************************)

\* What the callers hold by the rules of the C library, where a realloc that
\* fails leaves its block with its caller.
held == [p \in DOMAIN kept \cup DOMAIN taken |-> IF p \in DOMAIN kept THEN kept[p] ELSE taken[p]]

Resizable == DOMAIN kept \cup {NULL}
FreedBefore == hu_user_addrs \ DOMAIN kept
MayAllocate == Cardinality(DOMAIN held) < MaxHeld

Results == Addresses \cup {NULL}

NextHuMalloc ==
  \/ \E config \in Configs : hu_malloc_init(config)
  \/ MayAllocate /\ \E size \in Sizes, ret \in Results : hu_malloc(size, ret)
  \/ MayAllocate /\ \E count \in Counts, size \in Sizes, ret \in Results :
                     hu_calloc(count, size, ret)
  \/ \E ptr \in Resizable \cup FreedBefore : hu_free(ptr)
  \/ \E ptr \in Resizable, size \in Sizes, ret \in Results :
       (ptr = NULL => MayAllocate) /\ hu_realloc(ptr, size, ret)
  \/ ReallocFree
  \/ EvictOldest

SpecHuMalloc == InitHuMalloc /\ [][NextHuMalloc]_mallocVars

\* The callers also resize the blocks that were taken from them.
RetryRealloc ==
  \E ptr \in DOMAIN taken \ DOMAIN kept, size \in Sizes, ret \in Results :
    hu_realloc(ptr, size, ret)

SpecRetrying == InitHuMalloc /\ [][NextHuMalloc \/ RetryRealloc]_mallocVars

-----------------------------------------------------------------------------
(***************************************************************************)
(* Properties                                                              *)
(***************************************************************************)
AddressMap(map, range) == DOMAIN map \subseteq Addresses /\ \A q \in DOMAIN map : map[q] \in range

\* Type invariant.
TypeOKHuMalloc ==
  /\ AddressMap(libc_blocks, Nat \ {0})
  /\ libc_aborted \in BOOLEAN
  /\ prot_none \subseteq Addresses
  /\ mprotect_failed \in BOOLEAN
  /\ hu_malloc_inited \in BOOLEAN
  /\ hu_config \in [overflow : BOOLEAN, useafterfree : BOOLEAN,
                    minsize : Nat, quarantine_max_size : Nat]
  /\ hu_user_addrs \subseteq Addresses
  /\ AddressMap(hu_active_allocs, hu_alloc_info)
  /\ hu_quarantine_allocs \in Seq(hu_alloc_info)
  /\ hu_quarantine_size \in Nat
  /\ hu_quarantine_evicted \in BOOLEAN
  /\ pending_free \in Results
  /\ AddressMap(kept, Nat)
  /\ AddressMap(taken, Nat) /\ DOMAIN taken \subseteq hu_user_addrs

Quarantined == {hu_quarantine_allocs[i] : i \in 1 .. Len(hu_quarantine_allocs)}
Active == {hu_active_allocs[ptr] : ptr \in DOMAIN hu_active_allocs}

\* The system block of a fenced allocation.
Block(info) == Span(info.sys_ptr, info.sys_size)

\* The blocks of libc that humalloc owns, in use or in quarantine, are blocks
\* libc has not got back, each owned once.
OwnsItsBlocks ==
  /\ \A info \in Active \cup Quarantined :
       /\ info.sys_ptr \in DOMAIN libc_blocks
       /\ libc_blocks[info.sys_ptr] = info.sys_size
  /\ \A p, q \in DOMAIN hu_active_allocs :
       p # q => hu_active_allocs[p].sys_ptr # hu_active_allocs[q].sys_ptr
  /\ \A i, j \in 1 .. Len(hu_quarantine_allocs) :
       i # j => hu_quarantine_allocs[i].sys_ptr # hu_quarantine_allocs[j].sys_ptr
  /\ \A a \in Active, b \in Quarantined : a.sys_ptr # b.sys_ptr

\* humalloc never frees a pointer libc has not handed out (or frees it twice),
\* whatever its callers free twice: hu_free's "Double-free, ignored here", which
\* also covers the free of a block that a failed hu_realloc has freed.  Under
\* SpecRetrying this does not hold.
NeverAborts == ~libc_aborted

\* Every block a caller holds, but for those a failed hu_realloc has taken, lies in
\* memory of its own that libc has not got back: no two holders share an address.
HeldIsIntact ==
  \A p \in DOMAIN held \ DOMAIN taken :
    /\ \E b \in DOMAIN libc_blocks :
         Span(p, held[p]) \subseteq Span(b, libc_blocks[b])
    /\ \A q \in DOMAIN held \ DOMAIN taken :
         p # q => Span(p, held[p]) \cap Span(q, held[q]) = {}

\* No byte a caller holds is protected, but for the blocks a failed hu_realloc has
\* taken: other legal accesses never fault.
HeldIsAccessible ==
  ~mprotect_failed =>
    \A p \in DOMAIN held \ DOMAIN taken : Span(p, held[p]) \cap prot_none = {}

\* Known not to hold: the same of all blocks a caller holds by the rules of the C
\* library, also after a realloc that failed.
AllHeldIsAccessible ==
  ~mprotect_failed => \A p \in DOMAIN held : Span(p, held[p]) \cap prot_none = {}

\* What hu_malloc_size says is there may be used (humalloc.cpp:381): what was
\* asked for and up to the fence, in a block libc has not got back, unprotected
\* and nobody else's.  Not so of a block a failed hu_realloc has taken.
UsableSizeIsUsable ==
  \A p \in DOMAIN held \ DOMAIN taken :
    LET usable == Span(p, hu_malloc_size(p))
    IN  /\ Span(p, held[p]) \subseteq usable
        /\ \E b \in DOMAIN libc_blocks : usable \subseteq Span(b, libc_blocks[b])
        /\ ~mprotect_failed => usable \cap prot_none = {}
        /\ \A q \in DOMAIN held \ (DOMAIN taken \cup {p}) :
             usable \cap Span(q, hu_malloc_size(q)) = {}

\* Protection is exact: the fences of the blocks in use and all of the blocks
\* in quarantine, and nothing else, least of all memory given back to libc.
ProtectionIsExact ==
  ~mprotect_failed =>
    prot_none = (UNION {Fence(info) : info \in Active})
                  \cup (UNION {Block(info) : info \in Quarantined})

\* humalloc.cpp:181-184: quarantined blocks are "made unprotected and
\* free'd/returned back to the OS".  No protected page is in libc's hands.
ReturnedUnprotected ==
  \A addr \in prot_none :
    \E b \in DOMAIN libc_blocks : addr \in Span(b, libc_blocks[b])

\* humalloc.cpp:273: a user address that is not active is a "Double-free,
\* ignored here": the block that is ignored is not one libc still waits for.
NoBlockIsLost ==
  Idle => \A b \in DOMAIN libc_blocks :
    \/ b \in DOMAIN kept
    \/ \E info \in Active \cup Quarantined : info.sys_ptr = b

\* The quarantine's byte count is the sum of its blocks, so that the loop in
\* hu_free keeps what is in it, and not a drifted count, below the limit.
QuarantineIsBounded ==
  LET bytes == MapThenSumSet(LAMBDA i : hu_quarantine_allocs[i].sys_size,
                             1 .. Len(hu_quarantine_allocs))
  IN  /\ hu_quarantine_size = bytes
      /\ Idle => bytes <= hu_config.quarantine_max_size

-----------------------------------------------------------------------------
\* As long as no fenced realloc has failed, humalloc keeps the contract of the
\* allocator it replaces: fences, quarantine and eviction never make it hand out
\* memory somebody holds.  A failed one breaks it: the caller's block is freed.
Contract == INSTANCE HeapContract WITH HeapLast <- MemLast, blocks <- held
KeepsContract == Contract!Init /\ [][DOMAIN taken' = {} => Contract!Next]_held

\* Known not to hold: the contract of the C library, failures included.
KeepsContractAlways == Contract!Spec

=============================================================================
