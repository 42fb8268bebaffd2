-------------------------------- MODULE Libc --------------------------------
(***************************************************************************)
(* The system allocator and mprotect, external to the repository, as the   *)
(* code in humain.cpp and humalloc.cpp relies on them: blocks that do not  *)
(* overlap and keep room for the allocator's header between them, NULL on  *)
(* failure, and an abort on a pointer the allocator did not hand out.      *)
(* Memory is the addresses 1 .. MemLast, and an address fits in a size_t.  *)
(***************************************************************************)
EXTENDS HuLayout, PtrMap

CONSTANTS
  MemLast,          \* last address of the heap
  MallocStarts,     \* addresses malloc places blocks at, to bound the runs
  HeaderSize,       \* bytes the allocator keeps between two blocks
  AllocCanFail,     \* whether an allocation may return NULL
  MprotectCanFail   \* whether mprotect may return an error

ASSUME LibcAssumption ==
  /\ MemLast \in Nat
  /\ MemLast < SizeMod
  /\ MallocStarts \subseteq {addr \in 1 .. MemLast : addr % SizeMultiple = 0}
  /\ HeaderSize \in Nat
  /\ AllocCanFail \in BOOLEAN
  /\ MprotectCanFail \in BOOLEAN

VARIABLES
  libc_blocks,      \* start -> length of every block libc has handed out
  libc_aborted,     \* libc has been given a bad pointer and aborted
  prot_none,        \* the addresses that mprotect has made inaccessible
  mprotect_failed   \* an mprotect call has failed

libcVars == <<libc_blocks, libc_aborted>>
protVars == <<prot_none, mprotect_failed>>

NULL == 0
Addresses == 1 .. MemLast

Span(start, len) == start .. (start + len - 1)

LibcInit ==
  /\ libc_blocks = NoEntries
  /\ libc_aborted = FALSE
  /\ prot_none = {}
  /\ mprotect_failed = FALSE

-----------------------------------------------------------------------------
\* A block of len bytes can be placed at start among the blocks of map.
LibcFits(map, start, len) ==
  /\ start \in Addresses
  /\ start + len - 1 <= MemLast
  /\ \A b \in DOMAIN map :
       \/ start + len + HeaderSize <= b
       \/ b + map[b] + HeaderSize <= start

\* malloc hands out double words, at least one, also for a request of 0 bytes.
LibcExtent(size) == IF size = 0 THEN SizeMultiple ELSE hu_calc_user_size(size)

\* malloc(size) and calloc of size bytes in total.
LibcMalloc(size, ret) ==
  /\ \/ /\ ret \in MallocStarts
        /\ LibcFits(libc_blocks, ret, LibcExtent(size))
        /\ libc_blocks' = MapPut(libc_blocks, ret, LibcExtent(size))
     \/ /\ AllocCanFail
        /\ ret = NULL
        /\ UNCHANGED libc_blocks
  /\ UNCHANGED libc_aborted

\* posix_memalign(&ret, hu_page_size, sys_size), NULL when it returns an error.
LibcMemalign(sys_size, ret) ==
  /\ \/ /\ ret % PageSize = 0
        /\ LibcFits(libc_blocks, ret, sys_size)
        /\ libc_blocks' = MapPut(libc_blocks, ret, sys_size)
     \/ /\ AllocCanFail
        /\ ret = NULL
        /\ UNCHANGED libc_blocks
  /\ UNCHANGED libc_aborted

LibcFree(ptr) ==
  /\ libc_blocks' = MapErase(libc_blocks, ptr)
  /\ libc_aborted' = (libc_aborted \/ (ptr # NULL /\ ptr \notin DOMAIN libc_blocks))

\* realloc of a block libc handed out moves it or not, or keeps it on failure; of
\* any other pointer it aborts.
LibcRealloc(ptr, size, ret) ==
  \/ ptr = NULL /\ LibcMalloc(size, ret)
  \/ ptr # NULL /\ size = 0 /\ ret = NULL /\ LibcFree(ptr)
  \/ /\ ptr \in DOMAIN libc_blocks
     /\ size # 0
     /\ LET others == MapErase(libc_blocks, ptr)
        IN  \/ /\ ret \in MallocStarts
               /\ LibcFits(others, ret, LibcExtent(size))
               /\ libc_blocks' = MapPut(others, ret, LibcExtent(size))
            \/ /\ AllocCanFail
               /\ ret = NULL
               /\ UNCHANGED libc_blocks
     /\ UNCHANGED libc_aborted
  \/ ptr \notin DOMAIN libc_blocks \cup {NULL} /\ size # 0 /\ ret = NULL /\ LibcFree(ptr)

-----------------------------------------------------------------------------
(***************************************************************************)
(* hu_mprotect on whole pages.  A failure is printed and otherwise ignored: *)
(* the caller does not look at the result.  (The exit(1) it ends in once   *)
(* the process has made very many calls is a matter of process exit, not   *)
(* of this state.)                                                         *)
(***************************************************************************)
MprotectFails == MprotectCanFail /\ mprotect_failed' = TRUE /\ UNCHANGED prot_none

ProtectNone(addrs) ==
  \/ prot_none' = prot_none \cup addrs /\ UNCHANGED mprotect_failed
  \/ MprotectFails

ProtectReadWrite(addrs) ==
  \/ prot_none' = prot_none \ addrs /\ UNCHANGED mprotect_failed
  \/ MprotectFails

=============================================================================
