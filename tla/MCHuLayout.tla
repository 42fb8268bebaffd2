----------------------------- MODULE MCHuLayout -----------------------------
(***************************************************************************)
(* Sweeps the layout arithmetic of HuLayout over every request a small     *)
(* size_t can express, with and without a fence, and every calloc count.   *)
(***************************************************************************)
EXTENDS HuLayout

VARIABLES size, count, overflow
vars == <<size, count, overflow>>

Init == size = 0 /\ count \in Sizes_t /\ overflow \in BOOLEAN

NextSize == size + 1 < SizeMod /\ size' = size + 1 /\ UNCHANGED <<count, overflow>>

Next == NextSize

Spec == Init /\ [][Next]_vars

-----------------------------------------------------------------------------
\* A request that leaves room for the roundings and the fence lies wholly in its
\* block, which is whole pages as mprotect needs, in front of its fence, which
\* starts less than a double word behind it (hu_malloc, humalloc.cpp:204-239).
FitsWhenRepresentable ==
  Representable(size) =>
    /\ RequestFits(size, overflow)
    /\ FenceGap(size) \in 0 .. (SizeMultiple - 1)
    /\ WholePages(size, overflow)

\* hu_calloc rejects exactly the products that do not fit a size_t, "like
\* native calloc" (humalloc.cpp:321-326).
CallocCheckIsExact ==
  count # 0 /\ size # 0 => (CallocOverflows(count, size) <=> count * size >= SizeMod)

\* humalloc.cpp:207 "Calculate system memory needed": for every size_t, also
\* one so large that the rounding wraps.
SysSizeCoversRequest == RequestFits(size, overflow)

\* humalloc.cpp:168-169: "each user allocation has a read/write-protected page
\* immedately after".
FenceIsImmediate == Representable(size) => FenceGap(size) = 0

=============================================================================
