------------------------- MODULE MCHuLayoutProofs -------------------------
(***************************************************************************)
(* The properties that TLC sweeps for a size_t of 64 values, for every     *)
(* size_t, page and double word, and every request.                        *)
(***************************************************************************)
EXTENDS MCHuLayout, HuLayoutProofs

\* What the sweep visits: any request and count, with or without a fence.
Swept ==
  /\ size \in Sizes_t
  /\ count \in Sizes_t
  /\ overflow \in BOOLEAN

\* The sweep stays within the values of a size_t (hu_malloc's and hu_calloc's
\* arguments).
LEMMA SweptAlways == Spec => []Swept
<1>1. Init => Swept
  <2> SUFFICES ASSUME Init PROVE Swept
    OBVIOUS
  <2>1. 0 \in Sizes_t
    BY LayoutAssumption DEF Sizes_t
  <2> QED
    BY <2>1 DEF Init, Swept
<1>2. Swept /\ [Next]_vars => Swept'
  <2> SUFFICES ASSUME Swept, [Next]_vars PROVE Swept'
    OBVIOUS
  <2>1. CASE NextSize
    <3>1. size' \in Sizes_t
      BY <2>1, LayoutAssumption DEF NextSize, Swept, Sizes_t
    <3> QED
      BY <2>1, <3>1 DEF NextSize, Swept
  <2>2. CASE UNCHANGED vars
    BY <2>2 DEF vars, Swept
  <2> QED
    BY <2>1, <2>2 DEF Next
<1> QED
  BY <1>1, <1>2, PTL DEF Spec

\* A block is whole pages, and no page of it is to spare.
LEMMA LayoutWholePages ==
  ASSUME NEW n \in Nat, NEW fenced \in BOOLEAN, Representable(n)
  PROVE  WholePages(n, fenced)
<1> DEFINE rounded == hu_calc_user_size(n)
           sys == hu_calc_sys_size(rounded, fenced)
           fence == IF fenced THEN PageSize ELSE 0
<1>1. PageSize \in Nat /\ fence \in Nat /\ SizeMultiple \in Nat
  BY LayoutAssumption
<1>2. /\ rounded \in n .. (n + SizeMultiple - 1)
      /\ sys \in (rounded + fence) .. (rounded + fence + PageSize - 1)
      /\ sys % PageSize = 0
  BY SysSizeBounds
<1> HIDE DEF rounded, sys, fence
<1>3. sys < rounded + PageSize + fence
  BY <1>1, <1>2
<1> QED
  BY <1>2, <1>3 DEF WholePages, rounded, sys, fence

(***************************************************************************)
(* Every representable request lies in its block of whole pages and in     *)
(* front of its fence, less than a double word from it: hu_malloc's three  *)
(* roundings never work against each other.                                *)
(***************************************************************************)
THEOREM RequestsFit == Spec => []FitsWhenRepresentable
<1>1. Swept => FitsWhenRepresentable
  <2> SUFFICES ASSUME Swept, Representable(size)
               PROVE  /\ RequestFits(size, overflow)
                      /\ FenceGap(size) \in 0 .. (SizeMultiple - 1)
                      /\ WholePages(size, overflow)
    BY DEF FitsWhenRepresentable
  <2> PICK n \in Nat, fenced \in BOOLEAN : n = size /\ fenced = overflow
    BY LayoutAssumption DEF Swept, Sizes_t
  <2>1. Representable(n)
    OBVIOUS
  <2>2. RequestFits(n, fenced) /\ FenceGap(n) \in 0 .. (SizeMultiple - 1)
    BY <2>1, LayoutFits
  <2>3. WholePages(n, fenced)
    BY <2>1, LayoutWholePages
  <2> QED
    BY <2>2, <2>3
<1> QED
  BY <1>1, SweptAlways, PTL

(***************************************************************************)
(* hu_calloc's check rejects a product exactly when it does not fit a      *)
(* size_t, for every count and size.                                       *)
(***************************************************************************)
THEOREM CallocRejectsOverflow == Spec => []CallocCheckIsExact
<1>1. Swept => CallocCheckIsExact
  <2> SUFFICES ASSUME Swept, count # 0, size # 0
               PROVE  CallocOverflows(count, size) <=> count * size >= SizeMod
    BY DEF CallocCheckIsExact
  <2> PICK c \in Sizes_t \ {0}, n \in Sizes_t : c = count /\ n = size
    BY DEF Swept
  <2>1. CallocOverflows(c, n) <=> c * n >= SizeMod
    BY CallocCheckExact
  <2> QED
    BY <2>1
<1> QED
  BY <1>1, SweptAlways, PTL

=============================================================================
