--------------------------- MODULE HuLayoutProofs ---------------------------
(***************************************************************************)
(* Facts about the layout arithmetic for every width, page size and size   *)
(* multiple LayoutAssumption admits.                                       *)
(***************************************************************************)
EXTENDS HuLayout, TLAPS

\* Adding what is missing to the next multiple of m gives a multiple of m.
LEMMA NextMultiple ==
  ASSUME NEW n \in Nat, NEW m \in Nat \ {0}
  PROVE  ((n + m) - (n % m)) % m = 0
OBVIOUS

\* A number below the modulus is its own remainder.
LEMMA SmallRemainder ==
  ASSUME NEW n \in Nat, NEW w \in Nat, n < w
  PROVE  n % w = n
OBVIOUS

\* The successor of a multiple of m, m further on, is a multiple of m.
LEMMA MultiplePlusOne ==
  ASSUME NEW n \in Nat, NEW m \in Nat \ {0}, n % m = 0
  PROVE  (n + m) % m = 0
<1>1. n = m * (n \div m) /\ n \div m \in Nat
  OBVIOUS
<1>2. \A k \in Nat : (m * k) % m = 0
  OBVIOUS
<1>3. n + m = m * ((n \div m) + 1)
  BY <1>1
<1>4. (n \div m) + 1 \in Nat
  BY <1>1
<1>5. (m * ((n \div m) + 1)) % m = 0
  BY <1>2, <1>4, Zenon
<1> QED
  BY <1>3, <1>5, Zenon

(***************************************************************************)
(* Where nothing wraps, hu_round_up returns the least multiple that is not *)
(* below its argument.                                                     *)
(***************************************************************************)
LEMMA RoundUpBounds ==
  ASSUME NEW n \in Nat, NEW m \in Nat \ {0}, n + m <= SizeMod, SizeMod \in Nat
  PROVE  /\ hu_round_up(n, m) \in n .. (n + m - 1)
         /\ hu_round_up(n, m) % m = 0
<1>1. n % m \in 0 .. (m - 1)
  OBVIOUS
<1>2. CASE n % m = 0
  BY <1>2 DEF hu_round_up
<1>3. CASE n % m # 0
  <2>1. (n + m) - (n % m) \in (n + 1) .. (n + m - 1)
    BY <1>1, <1>3
  <2>2. ((n + m) - (n % m)) % SizeMod = (n + m) - (n % m)
    BY <2>1
  <2>3. hu_round_up(n, m) = (n + m) - (n % m)
    BY <2>2, <1>3 DEF hu_round_up
  <2>4. ((n + m) - (n % m)) % m = 0
    BY NextMultiple
  <2> QED
    BY <2>1, <2>3, <2>4
<1> QED
  BY <1>2, <1>3

(***************************************************************************)
(* A representable request gets a block of whole pages that holds it, one  *)
(* page more when it is fenced.                                            *)
(***************************************************************************)
LEMMA SysSizeBounds ==
  ASSUME NEW n \in Nat, NEW overflow \in BOOLEAN, Representable(n),
         NEW rounded, rounded = hu_calc_user_size(n),
         NEW sys, sys = hu_calc_sys_size(rounded, overflow),
         NEW fence, fence = IF overflow THEN PageSize ELSE 0
  PROVE  /\ rounded \in n .. (n + SizeMultiple - 1)
         /\ sys \in (rounded + fence) .. (rounded + fence + PageSize - 1)
         /\ sys % PageSize = 0
<1> DEFINE paged == hu_round_up(rounded, PageSize)
<1>1. /\ PageSize \in Nat \ {0}
      /\ SizeMultiple \in 1 .. PageSize
      /\ SizeMod \in Nat
  <2>1. SizeMultiple <= PageSize
    <3>1. SUFFICES ASSUME PageSize < SizeMultiple PROVE FALSE
      BY LayoutAssumption
    <3>2. PageSize % SizeMultiple = PageSize
      BY <3>1, SmallRemainder, LayoutAssumption
    <3> QED
      BY <3>2, LayoutAssumption
  <2> QED
    BY <2>1, LayoutAssumption
<1>2. rounded \in n .. (n + SizeMultiple - 1)
  <2>1. n + SizeMultiple <= SizeMod
    BY <1>1 DEF Representable
  <2>2. SizeMultiple \in Nat \ {0}
    BY <1>1
  <2>3. hu_round_up(n, SizeMultiple) \in n .. (n + SizeMultiple - 1)
    BY <1>1, <2>1, <2>2, RoundUpBounds, Zenon
  <2> QED
    BY <2>3 DEF hu_calc_user_size
<1>3. rounded \in Nat /\ rounded + PageSize <= SizeMod
  BY <1>1, <1>2 DEF Representable
<1>4. /\ paged \in rounded .. (rounded + PageSize - 1)
      /\ paged % PageSize = 0
  BY <1>1, <1>3, RoundUpBounds
<1>5. fence \in 0 .. PageSize
  BY <1>1
<1>6. paged + fence \in Nat /\ paged + fence < SizeMod
  <2> HIDE DEF paged
  <2> QED
    BY <1>1, <1>2, <1>4, <1>5 DEF Representable
<1>7. sys = paged + fence
  <2>1. sys = (paged + fence) % SizeMod
    BY DEF hu_calc_sys_size
  <2> HIDE DEF paged
  <2> QED
    BY <2>1, <1>1, <1>6, SmallRemainder
<1>8. fence % PageSize = 0 /\ (paged + fence) % PageSize = 0
  <2> HIDE DEF paged
  <2>1. CASE overflow
    <3>1. (paged + PageSize) % PageSize = 0
      BY <1>1, <1>3, <1>4, MultiplePlusOne
    <3> QED
      BY <2>1, <3>1, <1>1
  <2>2. CASE ~overflow
    BY <2>2, <1>1, <1>4
  <2> QED
    BY <2>1, <2>2
<1> HIDE DEF paged
<1> QED
  BY <1>1, <1>2, <1>3, <1>4, <1>5, <1>7, <1>8

\* The user pointer and the gap of a fenced block, from the bounds of its size.
LEMMA FencedArithmetic ==
  ASSUME NEW page \in Nat, NEW multiple \in Nat, NEW n \in Nat,
         NEW rounded \in n .. (n + multiple - 1),
         NEW sys \in (rounded + page) .. (rounded + page + page - 1)
  PROVE  /\ (sys - page) - rounded >= 0
         /\ ((sys - page) - rounded) + n <= sys - page
         /\ (sys - page) - (((sys - page) - rounded) + n) \in 0 .. (multiple - 1)
OBVIOUS

\* An unfenced block holds the request from its start.
LEMMA UnfencedArithmetic ==
  ASSUME NEW page \in Nat, NEW multiple \in Nat, NEW n \in Nat,
         NEW rounded \in n .. (n + multiple - 1),
         NEW sys \in (rounded + 0) .. (rounded + 0 + page - 1)
  PROVE  0 >= 0 /\ 0 + n <= sys - 0
OBVIOUS

(***************************************************************************)
(* For every representable request: the requested bytes lie in the block   *)
(* in front of the fence, and less than a double word of unprotected bytes *)
(* lies between them and the fence.                                        *)
(***************************************************************************)
THEOREM LayoutFits ==
  ASSUME NEW n \in Nat, NEW overflow \in BOOLEAN, Representable(n)
  PROVE  /\ RequestFits(n, overflow)
         /\ FenceGap(n) \in 0 .. (SizeMultiple - 1)
<1> DEFINE rounded == hu_calc_user_size(n)
           fenced == hu_calc_sys_size(rounded, TRUE)
           unfenced == hu_calc_sys_size(rounded, FALSE)
<1>1. PageSize \in Nat /\ SizeMultiple \in Nat
  BY LayoutAssumption
<1>2. /\ rounded \in n .. (n + SizeMultiple - 1)
      /\ fenced \in (rounded + PageSize) .. (rounded + PageSize + PageSize - 1)
      /\ unfenced \in (rounded + 0) .. (rounded + 0 + PageSize - 1)
  BY SysSizeBounds
<1>3. /\ (fenced - PageSize) - rounded >= 0
      /\ ((fenced - PageSize) - rounded) + n <= fenced - PageSize
      /\ (fenced - PageSize) - (((fenced - PageSize) - rounded) + n) \in 0 .. (SizeMultiple - 1)
  BY <1>1, <1>2, FencedArithmetic, Zenon
<1>4. 0 >= 0 /\ 0 + n <= unfenced - 0
  BY <1>1, <1>2, UnfencedArithmetic, Zenon
<1>5. RequestFits(n, TRUE) /\ FenceGap(n) \in 0 .. (SizeMultiple - 1)
  BY <1>3, Zenon DEF RequestFits, FenceGap, UserOffset, FenceOffset
<1>6. RequestFits(n, FALSE)
  BY <1>4, Zenon DEF RequestFits, UserOffset
<1> QED
  BY <1>5, <1>6, Zenon

(***************************************************************************)
(* hu_calloc's division test is exact: it rejects a count and a size if    *)
(* and only if their product does not fit a size_t.                        *)
(***************************************************************************)
THEOREM CallocCheckExact ==
  ASSUME NEW count \in Sizes_t \ {0}, NEW size \in Sizes_t
  PROVE  CallocOverflows(count, size) <=> count * size >= SizeMod
<1> DEFINE total == CallocTotal(count, size)
<1>1. /\ SizeMod \in Nat \ {0}
      /\ count \in Nat \ {0}
      /\ size \in Nat
      /\ count * size \in Nat
  BY LayoutAssumption DEF Sizes_t
<1>2. CASE count * size < SizeMod
  <2>1. total = count * size
    BY <1>1, <1>2, SmallRemainder DEF CallocTotal
  <2>2. (count * size) \div count = size
    BY <1>1
  <2>3. ~CallocOverflows(count, size)
    BY <2>1, <2>2, Zenon DEF CallocOverflows
  <2> QED
    BY <1>1, <1>2, <2>3
<1>3. CASE count * size >= SizeMod
  <2>1. total \in Nat /\ total < count * size
    BY <1>1, <1>3 DEF CallocTotal
  <2>2. total \div count < size
    <3> HIDE DEF total
    <3> QED
      BY <1>1, <2>1
  <2>3. CallocOverflows(count, size)
    BY <1>1, <2>1, <2>2 DEF CallocOverflows
  <2> QED
    BY <1>3, <2>3
<1> QED
  BY <1>1, <1>2, <1>3

=============================================================================
