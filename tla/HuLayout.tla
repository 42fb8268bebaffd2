------------------------------ MODULE HuLayout ------------------------------
(***************************************************************************)
(* The size arithmetic of humalloc.cpp: how many bytes a request is rounded *)
(* to, how many are asked of the system, where the user pointer and the    *)
(* fence go, and how large the quarantine may grow.  Every size_t result   *)
(* is taken modulo SizeMod, the number of values a size_t has, because the *)
(* code does none of this arithmetic with an overflow check except in      *)
(* hu_calloc.                                                              *)
(***************************************************************************)
EXTENDS Integers

CONSTANTS
  SizeMod,        \* number of size_t values (2^64 in the program)
  PageSize,       \* hu_page_size, sysconf(_SC_PAGE_SIZE)
  SizeMultiple,   \* hu_size_multiple, 2 * sizeof(void*)
  PhysPages       \* hu_num_pages, sysconf(_SC_PHYS_PAGES)

(***************************************************************************)
(* A page holds a whole number of double words, and a size_t can hold a    *)
(* page and its fence.                                                     *)
(***************************************************************************)
ASSUME LayoutAssumption ==
  /\ SizeMultiple \in Nat \ {0}
  /\ PageSize \in Nat \ {0}
  /\ PageSize % SizeMultiple = 0
  /\ SizeMod \in Nat
  /\ SizeMod > 2 * PageSize
  /\ PhysPages \in Nat

Sizes_t == 0 .. (SizeMod - 1)

-----------------------------------------------------------------------------
\* A plausible slip in the rounding helper: round down.
Mutant_round_down(num_to_round, multiple) ==
  IF multiple = 0 THEN num_to_round
  ELSE num_to_round - (num_to_round % multiple)

hu_round_up(num_to_round, multiple) ==
  IF multiple = 0 \/ num_to_round % multiple = 0
    THEN num_to_round
    ELSE ((num_to_round + multiple) - (num_to_round % multiple)) % SizeMod

hu_calc_user_size(user_size) == hu_round_up(user_size, SizeMultiple)

hu_calc_sys_size(user_size, overflow) ==
  (hu_round_up(user_size, PageSize) + (IF overflow THEN PageSize ELSE 0)) % SizeMod

\* Offsets from sys_ptr of the fence and of the user pointer (hu_malloc).
FenceOffset(sys_size) == sys_size - PageSize

Mutant_UserOffset_at_end(user_size, overflow) ==
  LET rounded_user_size == hu_calc_user_size(user_size)
      sys_size == hu_calc_sys_size(rounded_user_size, overflow)
  IN  (IF overflow THEN FenceOffset(sys_size) ELSE sys_size) - rounded_user_size

UserOffset(user_size, overflow) ==
  LET rounded_user_size == hu_calc_user_size(user_size)
      sys_size == hu_calc_sys_size(rounded_user_size, overflow)
  IN  IF overflow THEN FenceOffset(sys_size) - rounded_user_size ELSE 0

\* hu_quarantine_max_size from the percentage of RAM: the product is a size_t.
QuarantineMaxSize(quarantine_pct) ==
  ((((PhysPages * PageSize) % SizeMod) * quarantine_pct) % SizeMod) \div 100

-----------------------------------------------------------------------------
\* hu_calloc's total, and its check that the product did not wrap.
CallocTotal(count, size) == (count * size) % SizeMod

\* A plausible slip: only products that wrap below the item size are caught.
Mutant_calloc_check(count, size) == CallocTotal(count, size) < size

CallocOverflows(count, size) == CallocTotal(count, size) \div count # size

-----------------------------------------------------------------------------
(***************************************************************************)
(* What the layout owes hu_malloc, for one request.                        *)
(***************************************************************************)

\* Enough room below SizeMod for both roundings and the fence.
Representable(user_size) == user_size + SizeMultiple + 2 * PageSize <= SizeMod

\* The requested bytes lie in the block, before its fence if it has one.
RequestFits(user_size, overflow) ==
  LET sys_size == hu_calc_sys_size(hu_calc_user_size(user_size), overflow)
      start == UserOffset(user_size, overflow)
  IN  /\ start >= 0
      /\ start + user_size <= sys_size - (IF overflow THEN PageSize ELSE 0)

\* The unprotected bytes between the request and its fence.
FenceGap(user_size) ==
  LET sys_size == hu_calc_sys_size(hu_calc_user_size(user_size), TRUE)
  IN  FenceOffset(sys_size) - (UserOffset(user_size, TRUE) + user_size)

\* posix_memalign and mprotect are given whole pages, and none to spare.
WholePages(user_size, overflow) ==
  LET rounded_user_size == hu_calc_user_size(user_size)
      sys_size == hu_calc_sys_size(rounded_user_size, overflow)
  IN  /\ sys_size % PageSize = 0
      /\ sys_size < rounded_user_size + PageSize + (IF overflow THEN PageSize ELSE 0)

=============================================================================
