-------------------------- MODULE HeapUsageProofs --------------------------
(***************************************************************************)
(* What holds of heapusage as a whole for every heap, every set of tools   *)
(* and every number of calls: between wrapper calls the ledger is what the *)
(* program holds, the summary is neither short of a leak nor has one too   *)
(* many, a block is reported as freed twice only if it was, and every      *)
(* second free is reported.  The quarantine's byte count is the size of    *)
(* what is in it, the record of a freed block goes with the block, and the *)
(* report of a fault names the block whose memory was touched.             *)
(*                                                                         *)
(* First come the theorems about HuLog by itself, for any pointers, sizes, *)
(* call stacks and number of events: the ledger keeps its types, a pointer *)
(* is never live and freed at once, a double-free report uses its freed    *)
(* record up, the counters match the reports, and the byte counts and the  *)
(* leak details are the sums they should be.  Those about HeapUsage cite   *)
(* them.                                                                   *)
(*                                                                         *)
(* The inductive invariants relate the ledger to the program's blocks also *)
(* while a wrapper still has events to log.                                *)
(***************************************************************************)
EXTENDS HeapUsage, HuMallocProofs, FiniteSetTheorems, TLAPS

-----------------------------------------------------------------------------
(***************************************************************************)
(* HuLog by itself.                                                        *)
(***************************************************************************)

\* The type of allocinfo.
Totals == [frees : Nat, allocs : Nat, bytes : Nat, current : Nat, peak : Nat]

\* Without double-free and use-after-free detection nothing is kept of a freed
\* block.  LiveOrFreed needs it: log_event erases the freed record of an address
\* that is handed out again only if such records are kept.
FreedOnlyIfKept == KeepsFreed \/ DOMAIN freed_allocations = {}

\* The inductive invariant.
LedgerInv == TypeOKHuLog /\ LiveOrFreed /\ FreedKnowsWhere /\ FreedOnlyIfKept

-----------------------------------------------------------------------------
(***************************************************************************)
(* The containers.                                                         *)
(***************************************************************************)

\* std::map operator[]: one more key, one more value.
LEMMA PutType ==
  ASSUME NEW map, LedgerType(map), NEW ptr \in Nat, NEW info \in AllocInfo
  PROVE  /\ LedgerType(MapPut(map, ptr, info))
         /\ DOMAIN MapPut(map, ptr, info) = DOMAIN map \cup {ptr}
  BY DEF LedgerType, MapPut

\* std::map insert.
LEMMA InsertType ==
  ASSUME NEW map, LedgerType(map), NEW ptr \in Nat, NEW info \in AllocInfo
  PROVE  /\ LedgerType(MapInsert(map, ptr, info))
         /\ DOMAIN MapInsert(map, ptr, info) = DOMAIN map \cup {ptr}
  BY DEF LedgerType, MapInsert

\* std::map erase: what is left is as it was.
LEMMA EraseType ==
  ASSUME NEW map, LedgerType(map), NEW ptr
  PROVE  /\ LedgerType(MapErase(map, ptr))
         /\ DOMAIN MapErase(map, ptr) = DOMAIN map \ {ptr}
         /\ \A q \in DOMAIN map \ {ptr} : MapErase(map, ptr)[q] = map[q]
  BY DEF LedgerType, MapErase

\* A new record, and a record that gets the stack of its free.
LEMMA InfoType ==
  ASSUME NEW size \in Nat, NEW stack \in Stacks
  PROVE  /\ hu_allocinfo_t(size, stack) \in AllocInfo
         /\ hu_allocinfo_t(size, stack).free_callstack = NoStack
         /\ \A info \in AllocInfo :
              /\ [info EXCEPT !.free_callstack = stack] \in AllocInfo
              /\ [info EXCEPT !.free_callstack = stack].free_callstack = stack
  BY DEF hu_allocinfo_t, AllocInfo

\* The byte counts stay in range when they wrap.
LEMMA CountType ==
  ASSUME NEW n \in Int
  PROVE  (n % CountMod) \in Nat
  BY HuLogAssumption

\* The totals after a free.
LEMMA TotalsType ==
  ASSUME NEW totals \in Totals, NEW current \in Nat
  PROVE  /\ [totals EXCEPT !.frees = @ + 1] \in Totals
         /\ [totals EXCEPT !.current = current, !.frees = @ + 1] \in Totals
  <1>1. totals.frees + 1 \in Nat
    BY DEF Totals
  <1>2. \A frees \in Nat : [totals EXCEPT !.frees = frees] \in Totals
    BY DEF Totals
  <1>3. \A frees \in Nat : [totals EXCEPT !.current = current, !.frees = frees] \in Totals
    BY DEF Totals
  <1> QED  BY <1>1, <1>2, <1>3, Zenon

-----------------------------------------------------------------------------
\* The process starts with empty maps.
LEMMA InitLedgerInv == InitHuLog => LedgerInv
  <1> SUFFICES ASSUME InitHuLog PROVE LedgerInv
    OBVIOUS
  <1>1. log_config \in LogConfigType
    BY HuLogAssumption DEF InitHuLog, LogConfigType
  <1>2. /\ LedgerType(allocations) /\ LedgerType(freed_allocations)
        /\ DOMAIN allocations = {} /\ DOMAIN freed_allocations = {}
    BY DEF InitHuLog, LedgerType, NoEntries
  <1>3. allocinfo \in Totals
    BY DEF InitHuLog, Totals
  <1>4. TypeOKHuLog
    BY <1>1, <1>2, <1>3 DEF InitHuLog, TypeOKHuLog, Totals
  <1> QED
    BY <1>2, <1>4 DEF LedgerInv, LiveOrFreed, FreedKnowsWhere, FreedOnlyIfKept

\* What an action does outside the ledger and the reports of double frees does
\* not matter to the invariant.
LEMMA LedgerUntouched ==
  ASSUME LedgerInv, UNCHANGED <<log_config, ledgerVars, deallocVars>>,
         logging_enabled' \in BOOLEAN, total_invalid_access_count' \in Nat,
         reported_invalid_access_callstacks' \subseteq Stacks
  PROVE  LedgerInv'
  BY DEF LedgerInv, TypeOKHuLog, LiveOrFreed, FreedKnowsWhere, FreedOnlyIfKept,
         KeepsFreed, ledgerVars, deallocVars

\* What is to be shown of an action that changes the ledger.
LEMMA LedgerChanged ==
  ASSUME LedgerInv, UNCHANGED <<log_config, logging_enabled, accessVars>>,
         LedgerType(allocations'), LedgerType(freed_allocations'),
         allocinfo' \in Totals,
         reported_invalid_dealloc_callstacks' \subseteq Stacks,
         total_invalid_dealloc_count' \in Nat, printed_deallocs' \in Nat,
         LiveOrFreed', FreedKnowsWhere', FreedOnlyIfKept'
  PROVE  LedgerInv'
  BY DEF LedgerInv, TypeOKHuLog, accessVars, Totals

\* The parts of the invariant an event starts from.
LEMMA LedgerParts ==
  ASSUME LedgerInv
  PROVE  /\ LedgerType(allocations) /\ LedgerType(freed_allocations)
         /\ allocinfo \in Totals
         /\ reported_invalid_dealloc_callstacks \subseteq Stacks
         /\ total_invalid_dealloc_count \in Nat
         /\ printed_deallocs \in Nat
  BY DEF LedgerInv, TypeOKHuLog, Totals

\* An allocation that is recorded is not a freed block any more.
LEMMA MallocKeepsLedger ==
  ASSUME LedgerInv, NEW ptr \in Nat, NEW size \in Nat, NEW stack \in Stacks,
         log_event_malloc(ptr, size, stack)
  PROVE  LedgerInv'
  <1> USE LedgerParts
  <1>1. CASE ~logging_enabled
    BY <1>1, LedgerUntouched DEF log_event_malloc, LedgerInv, TypeOKHuLog, accessVars
  <1>2. CASE logging_enabled
    <2>1. /\ freed_allocations' = IF KeepsFreed THEN MapErase(freed_allocations, ptr)
                                  ELSE freed_allocations
          /\ UNCHANGED <<log_config, logging_enabled, deallocVars, accessVars>>
          /\ \/ LogRecorded(ptr, size, stack)
             \/ UNCHANGED <<allocations, allocinfo>>
      BY <1>2 DEF log_event_malloc
    <2>2. /\ LedgerType(freed_allocations')
          /\ DOMAIN freed_allocations' \subseteq DOMAIN freed_allocations
          /\ ptr \notin DOMAIN freed_allocations'
          /\ \A q \in DOMAIN freed_allocations' :
               freed_allocations'[q] = freed_allocations[q]
      <3>1. CASE KeepsFreed
        BY <2>1, <3>1, EraseType
      <3>2. CASE ~KeepsFreed
        BY <2>1, <3>2 DEF LedgerInv, FreedOnlyIfKept
      <3> QED  BY <3>1, <3>2
    <2>3. /\ LedgerType(allocations')
          /\ DOMAIN allocations' \subseteq DOMAIN allocations \cup {ptr}
          /\ \A q \in DOMAIN allocations' : allocations'[q].free_callstack = NoStack
          /\ allocinfo' \in Totals
      <3>1. CASE LogRecorded(ptr, size, stack)
        <4>1. allocations' = MapPut(allocations, ptr, hu_allocinfo_t(size, stack))
          BY <3>1 DEF LogRecorded
        <4>2. /\ LedgerType(allocations')
              /\ DOMAIN allocations' = DOMAIN allocations \cup {ptr}
          BY <4>1, PutType, InfoType
        <4>3. \A q \in DOMAIN allocations' : allocations'[q].free_callstack = NoStack
          BY <4>1, InfoType DEF MapPut, LedgerInv, FreedKnowsWhere
        <4> DEFINE current == (allocinfo.current + size) % CountMod
                   bytes == (allocinfo.bytes + size) % CountMod
                   peak == IF current > allocinfo.peak THEN current ELSE allocinfo.peak
        <4>4. current \in Nat /\ bytes \in Nat /\ peak \in Nat
          BY CountType DEF Totals
        <4>5. allocinfo' = [frees |-> allocinfo.frees, allocs |-> allocinfo.allocs + 1,
                            bytes |-> bytes, current |-> current, peak |-> peak]
          BY <3>1 DEF LogRecorded
        <4> HIDE DEF current, bytes, peak
        <4>6. allocinfo' \in Totals
          BY <4>4, <4>5 DEF Totals
        <4> QED  BY <4>2, <4>3, <4>6
      <3>2. CASE UNCHANGED <<allocations, allocinfo>>
        BY <3>2 DEF LedgerInv, FreedKnowsWhere
      <3> QED  BY <2>1, <3>1, <3>2
    <2>4. LiveOrFreed'
      BY <2>2, <2>3 DEF LedgerInv, LiveOrFreed
    <2>5. FreedKnowsWhere'
      BY <2>2, <2>3 DEF LedgerInv, FreedKnowsWhere
    <2>6. FreedOnlyIfKept'
      BY <2>1, <2>2 DEF LedgerInv, FreedOnlyIfKept, KeepsFreed
    <2> QED
      BY <2>1, <2>2, <2>3, <2>4, <2>5, <2>6, LedgerChanged DEF deallocVars
  <1> QED  BY <1>1, <1>2

\* The free of a live block moves it from the one map to the other.
LEMMA FreedKeepsLedger ==
  ASSUME LedgerInv, NEW ptr \in DOMAIN allocations, NEW stack \in Stacks,
         LogFreed(ptr, stack), UNCHANGED <<log_config, logging_enabled, accessVars>>
  PROVE  LedgerInv'
  <1> USE LedgerParts
  <1> DEFINE info == [allocations[ptr] EXCEPT !.free_callstack = stack]
  <1>1. /\ ptr \in Nat
        /\ allocations[ptr] \in AllocInfo
        /\ info \in AllocInfo
        /\ info.free_callstack = stack
    <2>1. ptr \in Nat /\ allocations[ptr] \in AllocInfo
      BY DEF LedgerType
    <2> QED  BY <2>1, InfoType
  <1>2. /\ LedgerType(allocations')
        /\ DOMAIN allocations' = DOMAIN allocations \ {ptr}
        /\ \A q \in DOMAIN allocations' : allocations'[q] = allocations[q]
    BY EraseType DEF LogFreed
  <1>3. freed_allocations' = IF KeepsFreed THEN MapInsert(freed_allocations, ptr, info)
                             ELSE freed_allocations
    BY DEF LogFreed
  <1> HIDE DEF info
  <1>4. /\ LedgerType(freed_allocations')
        /\ DOMAIN freed_allocations' \subseteq DOMAIN freed_allocations \cup {ptr}
    BY <1>1, <1>3, InsertType
  <1>5. \A q \in DOMAIN freed_allocations' : freed_allocations'[q].free_callstack \in Stacks
    BY <1>1, <1>3 DEF MapInsert, LedgerInv, FreedKnowsWhere
  <1>6. allocinfo' \in Totals
    <2>1. allocations[ptr].size \in Nat
      BY <1>1 DEF AllocInfo
    <2> DEFINE current == (allocinfo.current - allocations[ptr].size) % CountMod
    <2>2. current \in Nat
      BY <2>1, CountType DEF Totals
    <2>3. allocinfo' = [allocinfo EXCEPT !.current = current, !.frees = @ + 1]
      BY DEF LogFreed
    <2> HIDE DEF current
    <2> QED  BY <2>2, <2>3, TotalsType
  <1>7. LiveOrFreed'
    BY <1>2, <1>4 DEF LedgerInv, LiveOrFreed
  <1>8. FreedKnowsWhere'
    BY <1>2, <1>5 DEF LedgerInv, FreedKnowsWhere
  <1>9. FreedOnlyIfKept'
    BY <1>3 DEF LedgerInv, FreedOnlyIfKept, KeepsFreed
  <1> QED
    BY <1>2, <1>4, <1>6, <1>7, <1>8, <1>9, LedgerChanged DEF LogFreed, deallocVars

\* A double free, reported or not, forgets the freed block.
LEMMA DoubleFreeKeepsLedger ==
  ASSUME LedgerInv, NEW ptr, NEW stack \in Stacks, NEW opened,
         LogDoubleFree(ptr, stack, opened),
         UNCHANGED <<log_config, logging_enabled, accessVars>>
  PROVE  LedgerInv'
  <1> USE LedgerParts
  <1>1. /\ LedgerType(freed_allocations')
        /\ DOMAIN freed_allocations' = DOMAIN freed_allocations \ {ptr}
        /\ \A q \in DOMAIN freed_allocations' :
             freed_allocations'[q] = freed_allocations[q]
    BY EraseType DEF LogDoubleFree
  <1>2. UNCHANGED allocations
    BY DEF LogDoubleFree
  <1>3. allocinfo' \in Totals
    BY TotalsType DEF LogDoubleFree
  <1>4. /\ reported_invalid_dealloc_callstacks' \subseteq Stacks
        /\ total_invalid_dealloc_count' \in Nat
        /\ printed_deallocs' \in Nat
    <2>1. \/ /\ total_invalid_dealloc_count' = total_invalid_dealloc_count + 1
             /\ reported_invalid_dealloc_callstacks' =
                  reported_invalid_dealloc_callstacks \cup {stack}
             /\ printed_deallocs' \in {printed_deallocs, printed_deallocs + 1}
          \/ UNCHANGED deallocVars
      BY Zenon DEF LogDoubleFree
    <2> QED  BY <2>1 DEF deallocVars
  <1>5. LiveOrFreed' /\ FreedKnowsWhere' /\ FreedOnlyIfKept'
    BY <1>1, <1>2 DEF LedgerInv, LiveOrFreed, FreedKnowsWhere, FreedOnlyIfKept, KeepsFreed
  <1> QED
    BY <1>1, <1>2, <1>3, <1>4, <1>5, LedgerChanged

\* log_event of a free, whichever of its four cases applies.
LEMMA FreeKeepsLedger ==
  ASSUME LedgerInv, NEW ptr, NEW stack \in Stacks, NEW opened,
         log_event_free(ptr, stack, opened)
  PROVE  LedgerInv'
  <1> USE LedgerParts
  <1>0. UNCHANGED <<log_config, logging_enabled, accessVars>>
    BY DEF log_event_free
  <1>1. CASE UNCHANGED <<ledgerVars, deallocVars>>
    BY <1>0, <1>1, LedgerUntouched DEF LedgerInv, TypeOKHuLog, accessVars
  <1>2. CASE ptr \in DOMAIN allocations /\ LogFreed(ptr, stack)
    BY <1>0, <1>2, FreedKeepsLedger
  <1>3. CASE LogDoubleFree(ptr, stack, opened)
    BY <1>0, <1>3, DoubleFreeKeepsLedger
  <1>4. CASE LogUnknownFree
    <2>1. /\ allocinfo' \in Totals
          /\ UNCHANGED <<allocations, freed_allocations, deallocVars>>
      BY <1>4, TotalsType DEF LogUnknownFree
    <2>2. LiveOrFreed' /\ FreedKnowsWhere' /\ FreedOnlyIfKept'
      BY <1>0, <2>1
      DEF LedgerInv, LiveOrFreed, FreedKnowsWhere, FreedOnlyIfKept, KeepsFreed
    <2> QED  BY <1>0, <2>1, <2>2, LedgerChanged DEF deallocVars
  <1> QED  BY <1>1, <1>2, <1>3, <1>4 DEF log_event_free

\* A block that leaves the quarantine may lose its freed record.
LEMMA RemoveFreedKeepsLedger ==
  ASSUME LedgerInv, NEW ptr, hu_log_remove_freed_allocation(ptr)
  PROVE  LedgerInv'
  <1> USE LedgerParts
  <1>1. /\ UNCHANGED <<log_config, logging_enabled, allocations, allocinfo, deallocVars,
                       accessVars>>
        /\ \/ freed_allocations' = MapErase(freed_allocations, ptr)
           \/ UNCHANGED freed_allocations
    BY DEF hu_log_remove_freed_allocation
  <1>2. /\ LedgerType(freed_allocations')
        /\ DOMAIN freed_allocations' \subseteq DOMAIN freed_allocations
        /\ \A q \in DOMAIN freed_allocations' :
             freed_allocations'[q] = freed_allocations[q]
    <2>1. CASE freed_allocations' = MapErase(freed_allocations, ptr)
      BY <2>1, EraseType
    <2>2. CASE UNCHANGED freed_allocations
      BY <2>2
    <2> QED  BY <1>1, <2>1, <2>2
  <1>3. LiveOrFreed' /\ FreedKnowsWhere' /\ FreedOnlyIfKept'
    BY <1>1, <1>2
    DEF LedgerInv, LiveOrFreed, FreedKnowsWhere, FreedOnlyIfKept, KeepsFreed
  <1> QED  BY <1>1, <1>2, <1>3, LedgerChanged DEF deallocVars

\* hu_sig_handler reads the ledger and changes the access reports only.
LEMMA FaultKeepsLedger ==
  ASSUME LedgerInv, NEW addr, NEW stack \in Stacks, NEW opened,
         hu_sig_handler(addr, stack, opened)
  PROVE  LedgerInv'
  <1>1. UNCHANGED <<log_config, logging_enabled, ledgerVars, deallocVars>>
    BY DEF hu_sig_handler
  <1>2. /\ total_invalid_access_count' \in Nat
        /\ reported_invalid_access_callstacks' \subseteq Stacks
    <2>1. \/ /\ total_invalid_access_count' = total_invalid_access_count + 1
             /\ reported_invalid_access_callstacks' =
                  reported_invalid_access_callstacks \cup {stack}
          \/ UNCHANGED accessVars
      BY Zenon DEF hu_sig_handler
    <2> QED  BY <2>1 DEF accessVars, LedgerInv, TypeOKHuLog
  <1>3. logging_enabled' \in BOOLEAN
    BY <1>1 DEF LedgerInv, TypeOKHuLog
  <1> QED  BY <1>1, <1>2, <1>3, LedgerUntouched

\* Every step keeps the invariant, and so does a stutter.
LEMMA NextLedgerInv == LedgerInv /\ [NextHuLog]_logVars => LedgerInv'
  <1> SUFFICES ASSUME LedgerInv, [NextHuLog]_logVars PROVE LedgerInv'
    OBVIOUS
  <1>1. ASSUME NEW flag \in BOOLEAN, log_enable(flag) PROVE LedgerInv'
    BY <1>1, LedgerUntouched DEF log_enable, accessVars, LedgerInv, TypeOKHuLog
  <1>2. ASSUME NEW ptr \in Ptrs, NEW size \in LogSizes, NEW stack \in Stacks,
               log_event_malloc(ptr, size, stack)
        PROVE  LedgerInv'
    BY <1>2, MallocKeepsLedger, HuLogAssumption
  <1>3. ASSUME NEW ptr \in Ptrs, NEW stack \in Stacks, NEW opened \in BOOLEAN,
               log_event_free(ptr, stack, opened)
        PROVE  LedgerInv'
    BY <1>3, FreeKeepsLedger
  <1>4. ASSUME NEW ptr \in Ptrs, hu_log_remove_freed_allocation(ptr) PROVE LedgerInv'
    BY <1>4, RemoveFreedKeepsLedger
  <1>5. ASSUME NEW addr \in Ptrs, NEW stack \in Stacks, NEW opened \in BOOLEAN,
               hu_sig_handler(addr, stack, opened)
        PROVE  LedgerInv'
    BY <1>5, FaultKeepsLedger
  <1>6. ASSUME NEW ondemand \in BOOLEAN, NEW evicted \in BOOLEAN, NEW opened \in BOOLEAN,
               log_summary(ondemand, evicted, opened)
        PROVE  LedgerInv'
    BY <1>6, LedgerUntouched DEF log_summary, accessVars, LedgerInv, TypeOKHuLog
  <1>7. CASE UNCHANGED logVars
    BY <1>7, LedgerUntouched DEF logVars, accessVars, LedgerInv, TypeOKHuLog
  <1> QED
    BY <1>1, <1>2, <1>3, <1>4, <1>5, <1>6, <1>7 DEF NextHuLog

-----------------------------------------------------------------------------
\* The inductive invariant: the ledger's types, a pointer live or freed but not
\* both, freed records complete, and none of them unless the tools keep them.
THEOREM LedgerInvariant == SpecHuLog => []LedgerInv
  BY InitLedgerInv, NextLedgerInv, PTL DEF SpecHuLog

\* Type correctness of the ledger.
THEOREM LedgerTypes == SpecHuLog => []TypeOKHuLog
  <1>1. LedgerInv => TypeOKHuLog
    BY DEF LedgerInv
  <1> QED  BY <1>1, LedgerInvariant, PTL

\* A free is either a release or a double free, never both: hulog.cpp looks the
\* pointer up among the live blocks first, and the two maps share no pointer.
THEOREM LiveAndFreedApart == SpecHuLog => []LiveOrFreed
  <1>1. LedgerInv => LiveOrFreed
    BY DEF LedgerInv
  <1> QED  BY <1>1, LedgerInvariant, PTL

\* The report of a double free always has the stack of the first free to print.
THEOREM FreedStackKnown == SpecHuLog => []FreedKnowsWhere
  <1>1. LedgerInv => FreedKnowsWhere
    BY DEF LedgerInv
  <1> QED  BY <1>1, LedgerInvariant, PTL

\* No double free is reported twice: a step that counts one is a free of a
\* freed block, whose record it takes out of freed_allocations.
THEOREM ReportUsesRecordUp == SpecHuLog => ReportForgetsBlock
  <1> DEFINE Counted == total_invalid_dealloc_count' > total_invalid_dealloc_count
             Forgets == /\ DOMAIN freed_allocations' \subseteq DOMAIN freed_allocations
                        /\ freed_allocations' # freed_allocations
  <1>1. LedgerInv /\ [NextHuLog]_logVars => [Counted => Forgets]_logVars
    <2> SUFFICES ASSUME LedgerInv, NextHuLog, Counted PROVE Forgets
      BY DEF logVars, deallocVars
    <2>1. total_invalid_dealloc_count \in Nat
      BY LedgerParts
    <2>2. total_invalid_dealloc_count' # total_invalid_dealloc_count
      BY <2>1
    <2>3. PICK ptr \in Ptrs, stack \in Stacks, opened \in BOOLEAN :
            log_event_free(ptr, stack, opened)
      BY <2>2 DEF NextHuLog, log_enable, log_event_malloc, hu_log_remove_freed_allocation,
                  hu_sig_handler, log_summary, deallocVars
    <2>4. ptr \in DOMAIN freed_allocations /\ LogDoubleFree(ptr, stack, opened)
      BY <2>2, <2>3 DEF log_event_free, LogFreed, LogUnknownFree, deallocVars
    <2>5. DOMAIN freed_allocations' = DOMAIN freed_allocations \ {ptr}
      BY <2>4 DEF LogDoubleFree, MapErase
    <2> QED  BY <2>4, <2>5
  <1>2. SpecHuLog => [][Counted => Forgets]_logVars
    BY <1>1, LedgerInvariant, PTL DEF SpecHuLog
  <1> QED  BY <1>2 DEF ReportForgetsBlock

-----------------------------------------------------------------------------
(***************************************************************************)
(* The counters of the reports.                                            *)
(***************************************************************************)

\* The set of call sites with a report is finite, so that it has a number of
\* elements to compare.
ReportsInv == IsFiniteSet(reported_invalid_dealloc_callstacks) /\ ReportsMatchErrors

\* One call site more or less: one element more, or none.
LEMMA SiteAdded ==
  ASSUME NEW sites, IsFiniteSet(sites), NEW stack
  PROVE  /\ IsFiniteSet(sites \cup {stack})
         /\ Cardinality(sites) \in Nat
         /\ Cardinality(sites \cup {stack}) =
              IF stack \in sites THEN Cardinality(sites) ELSE Cardinality(sites) + 1
  BY FS_AddElement, FS_CardinalityType

\* A double free is counted, its call site remembered, and printed once per
\* site, or each time with -r.
LEMMA DoubleFreeKeepsReports ==
  ASSUME LedgerInv, ReportsInv, NEW ptr, NEW stack, NEW opened \in BOOLEAN, Opens(opened),
         LogDoubleFree(ptr, stack, opened), UNCHANGED log_config
  PROVE  ReportsInv'
  <1> DEFINE sites == reported_invalid_dealloc_callstacks
             unique == Cardinality(sites)
  <1>1. /\ total_invalid_dealloc_count \in Nat /\ printed_deallocs \in Nat
        /\ IsFiniteSet(sites) /\ unique \in Nat
    BY LedgerParts, FS_CardinalityType DEF ReportsInv
  <1>2. CASE UNCHANGED deallocVars
    BY <1>2 DEF deallocVars, ReportsInv, ReportsMatchErrors
  <1>3. CASE /\ total_invalid_dealloc_count' = total_invalid_dealloc_count + 1
             /\ sites' = sites \cup {stack}
             /\ printed_deallocs' =
                  IF (stack \notin sites \/ log_config.log_repeat) /\ opened
                    THEN printed_deallocs + 1 ELSE printed_deallocs
    <2>1. /\ IsFiniteSet(sites')
          /\ Cardinality(sites') = IF stack \in sites THEN unique ELSE unique + 1
      BY <1>1, <1>3, SiteAdded
    <2>2. /\ unique <= total_invalid_dealloc_count
          /\ printed_deallocs <= total_invalid_dealloc_count
          /\ ~LogFileCanFail =>
               printed_deallocs = IF log_config.log_repeat
                                    THEN total_invalid_dealloc_count ELSE unique
      BY DEF ReportsInv, ReportsMatchErrors
    <2> HIDE DEF unique
    <2>3. /\ Cardinality(sites') <= total_invalid_dealloc_count'
          /\ printed_deallocs' <= total_invalid_dealloc_count'
      BY <1>1, <1>3, <2>1, <2>2
    <2>4. ASSUME ~LogFileCanFail
          PROVE  printed_deallocs' = IF log_config'.log_repeat
                                       THEN total_invalid_dealloc_count'
                                       ELSE Cardinality(sites')
      <3>1. opened
        BY <2>4 DEF Opens
      <3> QED
        BY <1>1, <1>3, <2>1, <2>2, <2>4, <3>1
    <2> QED
      BY <2>1, <2>3, <2>4 DEF ReportsInv, ReportsMatchErrors
  <1> QED
    BY <1>2, <1>3, Zenon DEF LogDoubleFree

\* Nothing else touches the counters.
LEMMA NextReports == LedgerInv /\ ReportsInv /\ [NextHuLog]_logVars => ReportsInv'
  <1> SUFFICES ASSUME LedgerInv, ReportsInv, [NextHuLog]_logVars PROVE ReportsInv'
    OBVIOUS
  <1>1. CASE UNCHANGED <<log_config, deallocVars>>
    BY <1>1 DEF deallocVars, ReportsInv, ReportsMatchErrors
  <1>2. CASE \E ptr \in Ptrs, stack \in Stacks, opened \in BOOLEAN :
               log_event_free(ptr, stack, opened)
    <2>1. PICK ptr \in Ptrs, stack \in Stacks, opened \in BOOLEAN :
            log_event_free(ptr, stack, opened)
      BY <1>2
    <2>2. UNCHANGED log_config /\ Opens(opened)
      BY <2>1 DEF log_event_free
    <2>3. LogDoubleFree(ptr, stack, opened) \/ UNCHANGED deallocVars
      BY <2>1 DEF log_event_free, LogFreed, LogUnknownFree
    <2> QED
      BY <1>1, <2>2, <2>3, DoubleFreeKeepsReports
  <1> QED
    BY <1>1, <1>2 DEF NextHuLog, logVars, log_enable, log_event_malloc,
                      hu_log_remove_freed_allocation, hu_sig_handler, log_summary

\* The counters of the reports fit together, also when the log file cannot be
\* opened: "%llu unique (%llu total)" of the summary never has more unique than
\* total, and each call site is printed once, or each error with -r.
THEOREM ReportsMatch == SpecHuLog => []ReportsMatchErrors
  <1>1. InitHuLog => ReportsInv
    BY FS_EmptySet DEF InitHuLog, ReportsInv, ReportsMatchErrors
  <1>2. SpecHuLog => []ReportsInv
    BY <1>1, NextReports, LedgerInvariant, PTL DEF SpecHuLog
  <1>3. ReportsInv => ReportsMatchErrors
    BY DEF ReportsInv
  <1> QED  BY <1>2, <1>3, PTL

-----------------------------------------------------------------------------
(***************************************************************************)
(* Sums.  MapThenSumSet is a recursive function on the subsets of a set,   *)
(* so that it is known only once such a function is known to exist.  The   *)
(* lemmas argue from a least counterexample.                               *)
(***************************************************************************)
Pick(s) == CHOOSE x \in s : TRUE

\* it has the sum of g over each subset of S.
IsSums(it, g, S) ==
  it = [s \in SUBSET S |-> IF s = {} THEN 0 ELSE g[Pick(s)] + it[s \ {Pick(s)}]]

SumOf(g, S) == (CHOOSE it : IsSums(it, g, S))[S]

LEMMA Least ==
  ASSUME NEW S, IsFiniteSet(S), NEW T, T \subseteq SUBSET S, T # {}
  PROVE  \E U \in T : \A W \in T : W \subseteq U => W = U
<1> DEFINE Less == StrictSubsetOrdering(S)
<1>1. IsWellFoundedOn(Less, SUBSET S)
  BY FS_StrictSubsetOrderingWellFounded, FS_FiniteSubsetsOfFinite
<1>2. PICK U \in T : \A W \in T : <<W, U>> \notin Less
  <2> HIDE DEF Less
  <2> QED BY <1>1, WFMin
<1>3. \A W \in T : W \subseteq U => W = U
  BY <1>2 DEF StrictSubsetOrdering
<1> QED
  BY <1>3

LEMMA PickIsIn == ASSUME NEW s, s # {} PROVE Pick(s) \in s
  BY DEF Pick

LEMMA SumsAt ==
  ASSUME NEW it, NEW g, NEW S, IsSums(it, g, S), NEW s \in SUBSET S
  PROVE  /\ s = {} => it[s] = 0
         /\ s # {} => it[s] = g[Pick(s)] + it[s \ {Pick(s)}]
  BY DEF IsSums

LEMMA SumsAgree ==
  ASSUME NEW i1, NEW i2, NEW g1, NEW g2, NEW S1, NEW S2,
         IsSums(i1, g1, S1), IsSums(i2, g2, S2),
         NEW s, IsFiniteSet(s), s \subseteq S1, s \subseteq S2,
         \A x \in s : g1[x] = g2[x]
  PROVE  i1[s] = i2[s]
<1> DEFINE T == {u \in SUBSET s : i1[u] # i2[u]}
<1> SUFFICES ASSUME T # {} PROVE FALSE
  OBVIOUS
<1>1. PICK U \in T : \A W \in T : W \subseteq U => W = U
  <2>1. T \subseteq SUBSET s
    OBVIOUS
  <2> HIDE DEF T
  <2> QED BY <2>1, Least
<1>2. U # {}
  <2> SUFFICES ASSUME U = {} PROVE FALSE
    OBVIOUS
  <2>1. {} \in SUBSET S1 /\ {} \in SUBSET S2
    OBVIOUS
  <2>2. i1[{}] = 0 /\ i2[{}] = 0
    BY <2>1, SumsAt
  <2> QED BY <2>2
<1>3. Pick(U) \in U
  BY <1>2, PickIsIn
<1>4. i1[U \ {Pick(U)}] = i2[U \ {Pick(U)}]
  BY <1>1, <1>3
<1>5. /\ i1[U] = g1[Pick(U)] + i1[U \ {Pick(U)}]
      /\ i2[U] = g2[Pick(U)] + i2[U \ {Pick(U)}]
  <2>1. U \in SUBSET S1 /\ U \in SUBSET S2
    OBVIOUS
  <2> QED BY <1>2, <2>1, SumsAt
<1> QED
  BY <1>3, <1>4, <1>5

LEMMA SumsExist ==
  ASSUME NEW g, NEW S, IsFiniteSet(S)
  PROVE  \E it : IsSums(it, g, S)
<1> DEFINE T == {u \in SUBSET S : ~\E it : IsSums(it, g, u)}
<1> SUFFICES ASSUME T # {} PROVE FALSE
  OBVIOUS
<1>1. PICK U \in T : \A W \in T : W \subseteq U => W = U
  <2>1. T \subseteq SUBSET S
    OBVIOUS
  <2> HIDE DEF T
  <2> QED BY <2>1, Least
<1> DEFINE Sol(s) == CHOOSE it : IsSums(it, g, s)
           it == [s \in SUBSET U |->
                    IF s = U THEN IF U = {} THEN 0
                                  ELSE g[Pick(U)] + Sol(U \ {Pick(U)})[U \ {Pick(U)}]
                    ELSE Sol(s)[s]]
<1>2. \A s \in SUBSET U : s # U => IsSums(Sol(s), g, s)
  BY <1>1
<1> HIDE DEF Sol
<1>3. ASSUME NEW s \in SUBSET U
      PROVE  it[s] = IF s = {} THEN 0 ELSE g[Pick(s)] + it[s \ {Pick(s)}]
  <2>1. CASE s = {}
    <3>1. s # U => Sol(s)[s] = 0
      BY <1>2, <2>1, SumsAt
    <3> QED BY <2>1, <3>1
  <2>2. CASE s # {} /\ s = U
    <3>1. Pick(U) \in U
      BY <2>2, PickIsIn
    <3> QED BY <2>2, <3>1
  <2>3. CASE s # {} /\ s # U
    <3> DEFINE r == s \ {Pick(s)}
    <3>1. Pick(s) \in s
      BY <2>3, PickIsIn
    <3>2. r \in SUBSET U /\ r # U /\ r \subseteq s
      BY <3>1
    <3>3. IsSums(Sol(s), g, s) /\ IsSums(Sol(r), g, r)
      BY <1>2, <2>3, <3>2
    <3>4. IsFiniteSet(r)
      BY <3>2, FS_Subset
    <3>5. Sol(s)[r] = Sol(r)[r]
      BY <3>2, <3>3, <3>4, SumsAgree
    <3>6. Sol(s)[s] = g[Pick(s)] + Sol(s)[r]
      BY <2>3, <3>3, SumsAt
    <3> QED BY <2>3, <3>2, <3>5, <3>6
  <2> QED BY <2>1, <2>2, <2>3
<1>4. it = [s \in SUBSET U |-> IF s = {} THEN 0 ELSE g[Pick(s)] + it[s \ {Pick(s)}]]
  <2> HIDE DEF it
  <2>1. it = [s \in SUBSET U |-> it[s]]
    BY DEF it
  <2> QED BY <1>3, <2>1
<1>5. IsSums(it, g, U)
  BY <1>4 DEF IsSums
<1> QED
  BY <1>5

LEMMA SumIs ==
  ASSUME NEW it, NEW g, NEW S, IsFiniteSet(S), IsSums(it, g, S)
  PROVE  \A s \in SUBSET S : it[s] = SumOf(g, s)
<1> TAKE s \in SUBSET S
<1> DEFINE own == CHOOSE i : IsSums(i, g, s)
<1>1. IsFiniteSet(s)
  BY FS_Subset
<1>2. IsSums(own, g, s)
  BY <1>1, SumsExist
<1> HIDE DEF own
<1>3. own[s] = it[s]
  BY <1>1, <1>2, SumsAgree
<1> QED
  BY <1>3 DEF SumOf, own

\* The sum of nothing, and what is left of a sum when some entry is taken out.
LEMMA SumPick ==
  ASSUME NEW g, NEW S, IsFiniteSet(S)
  PROVE  /\ S = {} => SumOf(g, S) = 0
         /\ S # {} => SumOf(g, S) = g[Pick(S)] + SumOf(g, S \ {Pick(S)})
<1>1. PICK it : IsSums(it, g, S)
  BY SumsExist
<1>2. \A s \in SUBSET S : it[s] = SumOf(g, s)
  BY <1>1, SumIs
<1>3. S \in SUBSET S /\ S \ {Pick(S)} \in SUBSET S
  OBVIOUS
<1> QED
  BY <1>1, <1>2, <1>3, SumsAt

LEMMA SumSame ==
  ASSUME NEW g, NEW h, NEW S, IsFiniteSet(S), \A x \in S : g[x] = h[x]
  PROVE  SumOf(g, S) = SumOf(h, S)
<1>1. PICK i : IsSums(i, g, S)
  BY SumsExist
<1>2. PICK j : IsSums(j, h, S)
  BY SumsExist
<1>3. i[S] = j[S]
  BY <1>1, <1>2, SumsAgree
<1> QED
  BY <1>1, <1>2, <1>3, SumIs

LEMMA SumNat ==
  ASSUME NEW g, NEW S, IsFiniteSet(S), \A x \in S : g[x] \in Nat
  PROVE  SumOf(g, S) \in Nat
<1> DEFINE T == {u \in SUBSET S : SumOf(g, u) \notin Nat}
<1> SUFFICES ASSUME T # {} PROVE FALSE
  OBVIOUS
<1>1. PICK U \in T : \A W \in T : W \subseteq U => W = U
  <2>1. T \subseteq SUBSET S
    OBVIOUS
  <2> HIDE DEF T
  <2> QED BY <2>1, Least
<1>2. IsFiniteSet(U)
  BY FS_Subset
<1>3. U # {} /\ Pick(U) \in U
  <2>1. SumOf(g, U) \notin Nat
    OBVIOUS
  <2> HIDE DEF T
  <2>2. U # {}
    <3> SUFFICES ASSUME U = {} PROVE FALSE
      OBVIOUS
    <3>1. SumOf(g, U) = 0
      BY <1>2, SumPick
    <3> QED BY <2>1, <3>1
  <2> QED BY <2>2, PickIsIn
<1>4. SumOf(g, U \ {Pick(U)}) \in Nat
  BY <1>1, <1>3
<1> QED
  BY <1>2, <1>3, <1>4, SumPick

LEMMA SumRemove ==
  ASSUME NEW g, NEW S, IsFiniteSet(S), \A y \in S : g[y] \in Nat, NEW x \in S
  PROVE  SumOf(g, S) = g[x] + SumOf(g, S \ {x})
<1> DEFINE T == {u \in SUBSET S : \E y \in u : SumOf(g, u) # g[y] + SumOf(g, u \ {y})}
<1> SUFFICES ASSUME T # {} PROVE FALSE
  OBVIOUS
<1>1. PICK U \in T : \A W \in T : W \subseteq U => W = U
  <2>1. T \subseteq SUBSET S
    OBVIOUS
  <2> HIDE DEF T
  <2> QED BY <2>1, Least
<1>2. PICK y \in U : SumOf(g, U) # g[y] + SumOf(g, U \ {y})
  OBVIOUS
<1> DEFINE p == Pick(U)
<1>3. IsFiniteSet(U) /\ p \in U
  BY FS_Subset, PickIsIn
<1>4. SumOf(g, U) = g[p] + SumOf(g, U \ {p})
  BY <1>3, SumPick
<1> HIDE DEF p
<1>5. p # y
  BY <1>2, <1>4
<1> DEFINE V == (U \ {p}) \ {y}
<1>6. SumOf(g, U \ {p}) = g[y] + SumOf(g, V)
  <2>1. U \ {p} \notin T /\ y \in U \ {p}
    BY <1>1, <1>3, <1>5
  <2> QED BY <2>1
<1>7. SumOf(g, U \ {y}) = g[p] + SumOf(g, V)
  <2>1. U \ {y} \notin T /\ p \in U \ {y}
    BY <1>1, <1>3, <1>5
  <2>2. SumOf(g, U \ {y}) = g[p] + SumOf(g, (U \ {y}) \ {p})
    BY <2>1
  <2>3. (U \ {y}) \ {p} = V
    OBVIOUS
  <2> QED BY <2>2, <2>3
<1>8. SumOf(g, V) \in Nat /\ g[p] \in Nat /\ g[y] \in Nat
  <2>1. IsFiniteSet(V) /\ V \subseteq S
    BY FS_Subset
  <2>2. SumOf(g, V) \in Nat
    <3> HIDE DEF V
    <3> QED BY <2>1, SumNat
  <2> QED BY <1>3, <2>2
<1> HIDE DEF V
<1> QED
  BY <1>2, <1>4, <1>6, <1>7, <1>8

LEMMA SumJoin ==
  ASSUME NEW g, NEW S, IsFiniteSet(S), NEW R, IsFiniteSet(R), S \cap R = {},
         \A y \in S \cup R : g[y] \in Nat
  PROVE  SumOf(g, S \cup R) = SumOf(g, S) + SumOf(g, R)
<1> DEFINE T == {u \in SUBSET S : SumOf(g, u \cup R) # SumOf(g, u) + SumOf(g, R)}
<1> SUFFICES ASSUME T # {} PROVE FALSE
  OBVIOUS
<1>1. PICK U \in T : \A W \in T : W \subseteq U => W = U
  <2>1. T \subseteq SUBSET S
    OBVIOUS
  <2> HIDE DEF T
  <2> QED BY <2>1, Least
<1>2. IsFiniteSet(U) /\ IsFiniteSet(U \cup R)
  BY FS_Subset, FS_Union
<1>3. SumOf(g, R) \in Nat /\ SumOf(g, U) \in Nat
  BY <1>2, SumNat
<1>4. U # {}
  <2> SUFFICES ASSUME U = {} PROVE FALSE
    OBVIOUS
  <2>1. SumOf(g, {}) = 0
    BY <1>2, SumPick
  <2>2. {} \cup R = R
    OBVIOUS
  <2> QED BY <1>3, <2>1, <2>2
<1>5. PICK x \in U : TRUE
  BY <1>4
<1> DEFINE V == U \ {x}
<1>6. SumOf(g, V \cup R) = SumOf(g, V) + SumOf(g, R)
  BY <1>1
<1>7. SumOf(g, U) = g[x] + SumOf(g, V)
  BY <1>2, SumRemove
<1>8. SumOf(g, U \cup R) = g[x] + SumOf(g, V \cup R)
  <2>1. (U \cup R) \ {x} = V \cup R /\ x \in U \cup R
    OBVIOUS
  <2>2. \A y \in U \cup R : g[y] \in Nat
    OBVIOUS
  <2> HIDE DEF V
  <2> QED BY <1>2, <2>1, <2>2, SumRemove
<1>9. SumOf(g, V) \in Nat /\ g[x] \in Nat
  <2>1. IsFiniteSet(V) /\ V \subseteq S
    BY <1>2, FS_Subset
  <2>2. SumOf(g, V) \in Nat
    <3> HIDE DEF V
    <3> QED BY <2>1, SumNat
  <2> QED BY <2>2
<1> QED
  BY <1>3, <1>6, <1>7, <1>8, <1>9

\* MapThenSumSet of a field is the sum.
LEMMA SumOfSizes ==
  ASSUME NEW map, NEW S, IsFiniteSet(S)
  PROVE  MapThenSumSet(LAMBDA x : map[x].size, S) = SumOf([x \in S |-> map[x].size], S)
<1> DEFINE g == [x \in S |-> map[x].size]
           Own(it) == it = [s \in SUBSET S |->
                              IF s = {} THEN 0 ELSE map[Pick(s)].size + it[s \ {Pick(s)}]]
           sums == CHOOSE it : Own(it)
<1>1. ASSUME NEW it PROVE Own(it) <=> IsSums(it, g, S)
  <2>1. \A s \in SUBSET S : s # {} => map[Pick(s)].size = g[Pick(s)]
    BY PickIsIn
  <2> HIDE DEF g
  <2> QED BY <2>1 DEF IsSums
<1>2. Own(sums)
  <2>1. \E it : Own(it)
    <3> HIDE DEF g, Own
    <3> QED BY <1>1, SumsExist
  <2> HIDE DEF Own
  <2> QED BY <2>1
<1>3. MapThenSumSet(LAMBDA x : map[x].size, S) = sums[S]
  BY DEF MapThenSumSet, MapThenFoldSet, Pick
<1> HIDE DEF g, Own, sums
<1>4. sums[S] = SumOf(g, S)
  BY <1>1, <1>2, SumIs
<1> QED
  BY <1>3, <1>4 DEF g

LEMMA SumOfOnes ==
  ASSUME NEW g, NEW S, IsFiniteSet(S), \A x \in S : g[x] = 1
  PROVE  SumOf(g, S) = Cardinality(S)
<1> DEFINE T == {u \in SUBSET S : SumOf(g, u) # Cardinality(u)}
<1> SUFFICES ASSUME T # {} PROVE FALSE
  OBVIOUS
<1>1. PICK U \in T : \A W \in T : W \subseteq U => W = U
  <2>1. T \subseteq SUBSET S
    OBVIOUS
  <2> HIDE DEF T
  <2> QED BY <2>1, Least
<1>2. IsFiniteSet(U)
  BY FS_Subset
<1>3. U # {}
  <2> SUFFICES ASSUME U = {} PROVE FALSE
    OBVIOUS
  <2>1. SumOf(g, U) = 0 /\ Cardinality(U) = 0
    BY <1>2, SumPick, FS_EmptySet
  <2> QED BY <2>1
<1>4. PICK x \in U : TRUE
  BY <1>3
<1>5. SumOf(g, U) = 1 + SumOf(g, U \ {x})
  <2>1. \A y \in U : g[y] \in Nat
    OBVIOUS
  <2>2. g[x] = 1
    OBVIOUS
  <2> HIDE DEF T
  <2> QED BY <1>2, <2>1, <2>2, SumRemove
<1>6. Cardinality(U) = 1 + Cardinality(U \ {x})
  <2>1. IsFiniteSet(U \ {x}) /\ Cardinality(U \ {x}) = Cardinality(U) - 1
    BY <1>2, FS_RemoveElement
  <2>2. Cardinality(U) \in Nat
    BY <1>2, FS_CardinalityType
  <2> QED BY <2>1, <2>2
<1>7. SumOf(g, U \ {x}) = Cardinality(U \ {x})
  BY <1>1
<1> QED
  BY <1>5, <1>6, <1>7

\* S is grouped by key, and h is the sum of g over each group.
Grouped(h, K, g, S, key) ==
  /\ IsFiniteSet(S) /\ \A x \in S : g[x] \in Nat
  /\ IsFiniteSet(K) /\ \A x \in S : key[x] \in K
  /\ \A k \in K : h[k] = SumOf(g, {x \in S : key[x] = k})

\* A sum over groups is the sum of the groups' sums.
LEMMA SumOfGroups ==
  ASSUME NEW h, NEW K, NEW g, NEW S, NEW key, Grouped(h, K, g, S, key)
  PROVE  SumOf(h, K) = SumOf(g, S)
<1> USE DEF Grouped
<1> DEFINE Group(k) == {x \in S : key[x] = k}
           Of(u) == {x \in S : key[x] \in u}
           T == {u \in SUBSET K : SumOf(h, u) # SumOf(g, Of(u))}
<1>0. /\ \A k \in K : h[k] \in Nat
      /\ \A u \in SUBSET S : IsFiniteSet(u) /\ SumOf(g, u) \in Nat
  <2>1. \A u \in SUBSET S : IsFiniteSet(u) /\ SumOf(g, u) \in Nat
    BY FS_Subset, SumNat
  <2> QED BY <2>1
<1> SUFFICES ASSUME T # {} PROVE FALSE
  <2>1. Of(K) = S
    OBVIOUS
  <2>2. K \notin T => SumOf(h, K) = SumOf(g, Of(K))
    OBVIOUS
  <2> QED BY <2>1, <2>2
<1>1. PICK U \in T : \A W \in T : W \subseteq U => W = U
  <2>1. T \subseteq SUBSET K
    OBVIOUS
  <2> HIDE DEF T
  <2> QED BY <2>1, Least
<1>2. IsFiniteSet(U) /\ U \in SUBSET K
  BY FS_Subset
<1>3. U # {}
  <2> SUFFICES ASSUME U = {} PROVE FALSE
    OBVIOUS
  <2>1. SumOf(h, {}) = 0 /\ SumOf(g, {}) = 0
    BY FS_EmptySet, SumPick
  <2>2. Of({}) = {}
    OBVIOUS
  <2> QED BY <2>1, <2>2
<1>4. PICK k \in U : TRUE
  BY <1>3
<1>5. SumOf(h, U) = h[k] + SumOf(h, U \ {k})
  <2>1. \A x \in U : h[x] \in Nat
    BY <1>0, <1>2
  <2> HIDE DEF T
  <2> QED BY <1>2, <2>1, SumRemove
<1>6. SumOf(h, U \ {k}) = SumOf(g, Of(U \ {k}))
  BY <1>1
<1>7. SumOf(g, Of(U)) = SumOf(g, Group(k)) + SumOf(g, Of(U \ {k}))
  <2>1. /\ Of(U) = Group(k) \cup Of(U \ {k})
        /\ Group(k) \cap Of(U \ {k}) = {}
        /\ Group(k) \in SUBSET S /\ Of(U \ {k}) \in SUBSET S
    OBVIOUS
  <2> HIDE DEF Group, Of
  <2>2. \A x \in Group(k) \cup Of(U \ {k}) : g[x] \in Nat
    BY <2>1
  <2>3. IsFiniteSet(Group(k)) /\ IsFiniteSet(Of(U \ {k}))
    BY <1>0, <2>1
  <2>4. SumOf(g, Group(k) \cup Of(U \ {k})) = SumOf(g, Group(k)) + SumOf(g, Of(U \ {k}))
    BY <2>1, <2>2, <2>3, SumJoin
  <2> QED BY <2>1, <2>4
<1>8. h[k] = SumOf(g, Group(k))
  BY <1>2
<1>9. SumOf(h, U) # SumOf(g, Of(U))
  BY <1>1
<1> HIDE DEF Group, Of, T
<1> QED
  BY <1>5, <1>6, <1>7, <1>8, <1>9

-----------------------------------------------------------------------------
(***************************************************************************)
(* The byte counts.                                                        *)
(***************************************************************************)
SizesOf(map) == [ptr \in DOMAIN map |-> map[ptr].size]
BytesOf(map) == SumOf(SizesOf(map), DOMAIN map)

\* No size is above largest, and MaxAllocs blocks of that size can be counted.
BytesFit(largest) == (\A size \in LogSizes : size <= largest) /\ MaxAllocs * largest < CountMod

\* What is live is covered by what is counted, and nothing has wrapped.
BytesInv(largest) ==
  /\ IsFiniteSet(DOMAIN allocations)
  /\ BytesOf(allocations) <= allocinfo.current
  /\ allocinfo.current <= allocinfo.peak
  /\ allocinfo.peak <= allocinfo.bytes
  /\ allocinfo.bytes <= allocinfo.allocs * largest
  /\ allocinfo.allocs <= MaxAllocs

LEMMA LeakBytesAre ==
  ASSUME NEW ptrs \in SUBSET DOMAIN allocations, IsFiniteSet(ptrs)
  PROVE  LeakBytes(ptrs) = SumOf(SizesOf(allocations), ptrs)
  <1> DEFINE g == [ptr \in ptrs |-> allocations[ptr].size]
  <1>1. LeakBytes(ptrs) = SumOf(g, ptrs)
    BY SumOfSizes DEF LeakBytes
  <1>2. \A ptr \in ptrs : g[ptr] = SizesOf(allocations)[ptr]
    BY DEF SizesOf
  <1> HIDE DEF g
  <1> QED
    BY <1>1, <1>2, SumSame

\* Taking a block out of the ledger takes its bytes out of the sum.
LEMMA BytesWithout ==
  ASSUME NEW map, LedgerType(map), IsFiniteSet(DOMAIN map), NEW ptr
  PROVE  /\ IsFiniteSet(DOMAIN MapErase(map, ptr))
         /\ BytesOf(map) \in Nat /\ BytesOf(MapErase(map, ptr)) \in Nat
         /\ ptr \in DOMAIN map => BytesOf(map) = map[ptr].size + BytesOf(MapErase(map, ptr))
         /\ BytesOf(MapErase(map, ptr)) <= BytesOf(map)
  <1> DEFINE rest == MapErase(map, ptr)
             g == SizesOf(map)
  <1>1. /\ LedgerType(rest) /\ DOMAIN rest = DOMAIN map \ {ptr}
        /\ \A q \in DOMAIN rest : rest[q] = map[q]
    BY EraseType
  <1>2. IsFiniteSet(DOMAIN rest)
    BY <1>1, FS_Subset
  <1>3. /\ \A q \in DOMAIN map : g[q] = map[q].size /\ g[q] \in Nat
        /\ \A q \in DOMAIN rest : SizesOf(rest)[q] = g[q] /\ g[q] \in Nat
    BY <1>1 DEF LedgerType, AllocInfo, SizesOf
  <1> HIDE DEF rest, g
  <1>4. BytesOf(rest) = SumOf(g, DOMAIN rest)
    BY <1>2, <1>3, SumSame DEF BytesOf
  <1>5. SumOf(g, DOMAIN map) \in Nat /\ SumOf(g, DOMAIN rest) \in Nat
    BY <1>2, <1>3, SumNat
  <1>6. ptr \in DOMAIN map => SumOf(g, DOMAIN map) = g[ptr] + SumOf(g, DOMAIN rest)
    BY <1>1, <1>3, SumRemove
  <1>7. ptr \notin DOMAIN map => DOMAIN rest = DOMAIN map
    BY <1>1
  <1>8. BytesOf(map) = SumOf(g, DOMAIN map)
    BY DEF BytesOf, g
  <1> QED
    BY <1>2, <1>3, <1>4, <1>5, <1>6, <1>7, <1>8 DEF rest

\* A recorded block adds its bytes, in place of those of a block that was
\* recorded under the same pointer.
LEMMA BytesWith ==
  ASSUME NEW map, LedgerType(map), IsFiniteSet(DOMAIN map),
         NEW ptr \in Nat, NEW info \in AllocInfo
  PROVE  /\ IsFiniteSet(DOMAIN MapPut(map, ptr, info))
         /\ BytesOf(MapPut(map, ptr, info)) <= BytesOf(map) + info.size
  <1> DEFINE more == MapPut(map, ptr, info)
  <1>1. LedgerType(more) /\ DOMAIN more = DOMAIN map \cup {ptr}
    BY PutType
  <1>2. more[ptr] = info /\ MapErase(more, ptr) = MapErase(map, ptr)
    BY DEF MapPut, MapErase
  <1>3. IsFiniteSet(DOMAIN more)
    BY <1>1, FS_AddElement
  <1> HIDE DEF more
  <1>4. BytesOf(more) = info.size + BytesOf(MapErase(map, ptr))
    BY <1>1, <1>2, <1>3, BytesWithout
  <1>5. /\ BytesOf(MapErase(map, ptr)) <= BytesOf(map)
        /\ BytesOf(MapErase(map, ptr)) \in Nat /\ BytesOf(map) \in Nat
    BY BytesWithout
  <1>6. info.size \in Nat
    BY DEF AllocInfo
  <1> QED
    BY <1>3, <1>4, <1>5, <1>6 DEF more

LEMMA CountsFit ==
  ASSUME NEW allocs \in Nat, NEW bytes \in Nat, NEW size \in Nat, NEW largest \in Nat,
         bytes <= allocs * largest, size <= largest, allocs + 1 <= MaxAllocs,
         MaxAllocs * largest < CountMod
  PROVE  bytes + size <= (allocs + 1) * largest /\ bytes + size < CountMod
  <1>1. (allocs + 1) * largest = allocs * largest + largest
    OBVIOUS
  <1>2. (allocs + 1) * largest <= MaxAllocs * largest
    <2>1. PICK more \in Nat : MaxAllocs = (allocs + 1) + more
      <3>1. MaxAllocs - (allocs + 1) \in Nat /\ MaxAllocs = (allocs + 1) + (MaxAllocs - (allocs + 1))
        BY HuLogAssumption
      <3> QED BY <3>1
    <2>2. MaxAllocs * largest = (allocs + 1) * largest + more * largest /\ more * largest >= 0
      BY <2>1
    <2> QED BY <2>2
  <1>3. allocs * largest \in Nat /\ MaxAllocs * largest \in Nat
    BY HuLogAssumption
  <1> DEFINE before == allocs * largest
             after == (allocs + 1) * largest
             most == MaxAllocs * largest
  <1> HIDE DEF before, after, most
  <1>4. after = before + largest /\ after <= most /\ before \in Nat /\ most \in Nat
        /\ bytes <= before /\ most < CountMod
    BY <1>1, <1>2, <1>3 DEF before, after, most
  <1>5. bytes + size <= after /\ bytes + size < CountMod
    BY <1>4, HuLogAssumption
  <1> QED
    BY <1>5 DEF after

LEMMA NotWrapped == ASSUME NEW n \in Nat, n < CountMod PROVE n % CountMod = n
  BY HuLogAssumption

LEMMA MallocKeepsBytes ==
  ASSUME LedgerInv, NEW largest \in Nat, BytesFit(largest), BytesInv(largest),
         NEW ptr \in Nat, NEW size \in LogSizes, NEW stack \in Stacks,
         allocinfo.allocs < MaxAllocs, log_event_malloc(ptr, size, stack)
  PROVE  BytesInv(largest)'
  <1>1. CASE UNCHANGED <<allocations, allocinfo>>
    BY <1>1 DEF BytesInv, BytesOf, SizesOf
  <1>2. CASE LogRecorded(ptr, size, stack)
    <2> DEFINE current == allocinfo.current + size
               bytes == allocinfo.bytes + size
               info == hu_allocinfo_t(size, stack)
    <2>1. size \in Nat /\ size <= largest
      BY HuLogAssumption DEF BytesFit
    <2>2. allocinfo \in Totals /\ LedgerType(allocations)
      BY LedgerParts
    <2>3. /\ allocinfo.current \in Nat /\ allocinfo.peak \in Nat
          /\ allocinfo.bytes \in Nat /\ allocinfo.allocs \in Nat
      BY <2>2 DEF Totals
    <2>4. bytes <= (allocinfo.allocs + 1) * largest /\ bytes < CountMod
      BY <2>1, <2>3, CountsFit, HuLogAssumption DEF BytesInv, BytesFit
    <2>5. current <= bytes
      BY <2>1, <2>3 DEF BytesInv
    <2>6. current % CountMod = current /\ bytes % CountMod = bytes
      <3>1. current \in Nat /\ bytes \in Nat /\ current < CountMod
        BY <2>1, <2>3, <2>4, <2>5, HuLogAssumption
      <3> HIDE DEF current, bytes
      <3> QED BY <2>4, <3>1, NotWrapped
    <2>7. /\ allocinfo'.current = current /\ allocinfo'.bytes = bytes
          /\ allocinfo'.allocs = allocinfo.allocs + 1
          /\ allocinfo'.peak = IF current > allocinfo.peak THEN current ELSE allocinfo.peak
          /\ allocations' = MapPut(allocations, ptr, info)
      BY <1>2, <2>6 DEF LogRecorded
    <2>8. info \in AllocInfo /\ info.size = size
      BY <2>1, InfoType DEF hu_allocinfo_t
    <2>9. /\ IsFiniteSet(DOMAIN allocations')
          /\ BytesOf(allocations') <= BytesOf(allocations) + size
          /\ BytesOf(allocations) \in Nat
      <3>1. IsFiniteSet(DOMAIN allocations)
        BY DEF BytesInv
      <3> HIDE DEF info
      <3>2. /\ IsFiniteSet(DOMAIN MapPut(allocations, ptr, info))
            /\ BytesOf(MapPut(allocations, ptr, info)) <= BytesOf(allocations) + info.size
        BY <2>2, <2>8, <3>1, BytesWith
      <3> QED BY <2>2, <2>7, <2>8, <3>1, <3>2, BytesWithout
    <2>10. BytesOf(allocations') \in Nat
      <3>1. LedgerType(allocations')
        BY <2>2, <2>7, <2>8, PutType
      <3> QED BY <2>9, <3>1, BytesWithout
    <2>11. BytesOf(allocations') <= current
      BY <2>1, <2>3, <2>9, <2>10 DEF BytesInv
    <2>12. /\ current <= allocinfo'.peak /\ allocinfo'.peak <= bytes
           /\ allocinfo.allocs + 1 <= MaxAllocs
      BY <2>1, <2>3, <2>5, <2>7, HuLogAssumption DEF BytesInv
    <2> HIDE DEF current, bytes, info
    <2> QED
      BY <2>4, <2>7, <2>9, <2>11, <2>12 DEF BytesInv
  <1> QED
    BY <1>1, <1>2 DEF log_event_malloc, ledgerVars

\* The subtraction of a freed block's bytes does not wrap.
LEMMA FreeKeepsBytes ==
  ASSUME LedgerInv, NEW largest \in Nat, BytesFit(largest), BytesInv(largest),
         NEW ptr, NEW stack \in Stacks, NEW opened \in BOOLEAN,
         log_event_free(ptr, stack, opened)
  PROVE  BytesInv(largest)'
  <1>0. allocinfo \in Totals /\ LedgerType(allocations)
    BY LedgerParts
  <1>1. CASE UNCHANGED <<allocations, allocinfo>>
    BY <1>1 DEF BytesInv, BytesOf, SizesOf
  <1>2. CASE UNCHANGED allocations /\ allocinfo' = [allocinfo EXCEPT !.frees = @ + 1]
    <2>1. /\ allocinfo'.current = allocinfo.current /\ allocinfo'.peak = allocinfo.peak
          /\ allocinfo'.bytes = allocinfo.bytes /\ allocinfo'.allocs = allocinfo.allocs
      BY <1>0, <1>2 DEF Totals
    <2> QED BY <1>2, <2>1 DEF BytesInv, BytesOf, SizesOf
  <1>3. CASE ptr \in DOMAIN allocations /\ LogFreed(ptr, stack)
    <2> DEFINE size == allocations[ptr].size
               rest == MapErase(allocations, ptr)
    <2>1. /\ allocinfo'.current = (allocinfo.current - size) % CountMod
          /\ allocinfo'.peak = allocinfo.peak /\ allocinfo'.bytes = allocinfo.bytes
          /\ allocinfo'.allocs = allocinfo.allocs /\ allocations' = rest
      BY <1>0, <1>3 DEF LogFreed, Totals
    <2>2. /\ IsFiniteSet(DOMAIN rest) /\ BytesOf(rest) \in Nat
          /\ BytesOf(allocations) = size + BytesOf(rest)
      BY <1>0, <1>3, BytesWithout DEF BytesInv
    <2>3. size \in Nat
      BY <1>0, <1>3 DEF LedgerType, AllocInfo
    <2>4. /\ allocinfo.current \in Nat /\ allocinfo.bytes \in Nat /\ allocinfo.peak \in Nat
          /\ allocinfo.allocs \in Nat
      BY <1>0 DEF Totals
    <2>5. allocinfo.bytes < CountMod
      <3>1. allocinfo.allocs * largest <= MaxAllocs * largest
        <4>1. PICK more \in Nat : MaxAllocs = allocinfo.allocs + more
          <5>1. /\ MaxAllocs - allocinfo.allocs \in Nat
                /\ MaxAllocs = allocinfo.allocs + (MaxAllocs - allocinfo.allocs)
            BY <2>4, HuLogAssumption DEF BytesInv
          <5> QED BY <5>1
        <4>2. MaxAllocs * largest = allocinfo.allocs * largest + more * largest
          BY <2>4, <4>1
        <4>3. more * largest >= 0 /\ allocinfo.allocs * largest \in Nat
          BY <2>4, <4>1
        <4> QED BY <4>2, <4>3
      <3>2. allocinfo.allocs * largest \in Nat /\ MaxAllocs * largest \in Nat
        BY <2>4, HuLogAssumption
      <3> QED BY <2>4, <3>1, <3>2, HuLogAssumption DEF BytesInv, BytesFit
    <2> HIDE DEF size, rest
    <2>6. /\ allocinfo.current - size \in Nat /\ allocinfo.current - size < CountMod
          /\ BytesOf(rest) <= allocinfo.current - size
          /\ allocinfo.current - size <= allocinfo.peak
      BY <2>2, <2>3, <2>4, <2>5, HuLogAssumption DEF BytesInv
    <2>7. allocinfo'.current = allocinfo.current - size
      BY <2>1, <2>6, NotWrapped
    <2> QED
      BY <2>1, <2>2, <2>6, <2>7 DEF BytesInv
  <1> QED
    BY <1>1, <1>2, <1>3, Zenon DEF log_event_free, LogDoubleFree, LogUnknownFree, ledgerVars

LEMMA NextBytes ==
  ASSUME NEW largest \in Nat, BytesFit(largest)
  PROVE  LedgerInv /\ BytesInv(largest) /\ [NextHuLog]_logVars => BytesInv(largest)'
  <1> SUFFICES ASSUME LedgerInv, BytesInv(largest), [NextHuLog]_logVars
               PROVE  BytesInv(largest)'
    OBVIOUS
  <1>1. CASE UNCHANGED <<allocations, allocinfo>>
    BY <1>1 DEF BytesInv, BytesOf, SizesOf
  <1>2. ASSUME NEW ptr \in Ptrs, NEW size \in LogSizes, NEW stack \in Stacks,
               allocinfo.allocs < MaxAllocs, log_event_malloc(ptr, size, stack)
        PROVE  BytesInv(largest)'
    <2>1. ptr \in Nat
      BY HuLogAssumption
    <2> QED BY <1>2, <2>1, MallocKeepsBytes
  <1>3. ASSUME NEW ptr \in Ptrs, NEW stack \in Stacks, NEW opened \in BOOLEAN,
               log_event_free(ptr, stack, opened)
        PROVE  BytesInv(largest)'
    BY <1>3, FreeKeepsBytes
  <1> QED
    BY <1>1, <1>2, <1>3 DEF NextHuLog, logVars, ledgerVars, log_enable,
       hu_log_remove_freed_allocation, hu_sig_handler, log_summary

\* As long as a program could not allocate as many bytes as an unsigned long long
\* can count, the current count is never short of the live blocks, so that
\* log_event's subtraction never wraps, and the peak covers both (hulog.cpp:263-297).
THEOREM BytesCover ==
  ASSUME NEW largest \in Nat, BytesFit(largest)
  PROVE  SpecHuLog => []BytesCoverLive
  <1>1. InitHuLog => BytesInv(largest)
    <2> SUFFICES ASSUME InitHuLog PROVE BytesInv(largest)
      OBVIOUS
    <2>1. DOMAIN allocations = {} /\ IsFiniteSet(DOMAIN allocations)
      BY FS_EmptySet DEF InitHuLog, NoEntries
    <2>2. BytesOf(allocations) = 0
      BY <2>1, SumPick DEF BytesOf
    <2> QED
      BY <2>1, <2>2, HuLogAssumption DEF InitHuLog, BytesInv
  <1>2. LedgerInv /\ BytesInv(largest) => BytesCoverLive
    <2> SUFFICES ASSUME LedgerInv, BytesInv(largest) PROVE BytesCoverLive
      OBVIOUS
    <2>1. allocinfo \in Totals /\ LedgerType(allocations)
      BY LedgerParts
    <2>2. LeakBytes(DOMAIN allocations) = BytesOf(allocations)
      BY LeakBytesAre DEF BytesInv, BytesOf
    <2>3. BytesOf(allocations) \in Nat
      BY <2>1, BytesWithout DEF BytesInv
    <2> QED
      BY <2>1, <2>2, <2>3 DEF BytesInv, BytesCoverLive, Totals
  <1>3. SpecHuLog => []BytesInv(largest)
    BY <1>1, NextBytes, LedgerInvariant, PTL DEF SpecHuLog
  <1> QED
    BY <1>2, <1>3, LedgerInvariant, PTL

-----------------------------------------------------------------------------
(***************************************************************************)
(* The leak details of a summary.                                          *)
(***************************************************************************)
DetailsInv ==
  /\ IsFiniteSet(DOMAIN allocations)
  /\ \A ptr \in DOMAIN allocations : allocations[ptr].size >= log_config.minleak
  /\ DetailsAddUp

\* The same of the two fields of the leak details.
LEMMA SumOfBytes ==
  ASSUME NEW map, NEW S, IsFiniteSet(S)
  PROVE  MapThenSumSet(LAMBDA x : map[x].bytes, S) = SumOf([x \in S |-> map[x].bytes], S)
<1> DEFINE g == [x \in S |-> map[x].bytes]
           Own(it) == it = [s \in SUBSET S |->
                              IF s = {} THEN 0 ELSE map[Pick(s)].bytes + it[s \ {Pick(s)}]]
           sums == CHOOSE it : Own(it)
<1>1. ASSUME NEW it PROVE Own(it) <=> IsSums(it, g, S)
  <2>1. \A s \in SUBSET S : s # {} => map[Pick(s)].bytes = g[Pick(s)]
    BY PickIsIn
  <2> HIDE DEF g
  <2> QED BY <2>1 DEF IsSums
<1>2. Own(sums)
  <2>1. \E it : Own(it)
    <3> HIDE DEF g, Own
    <3> QED BY <1>1, SumsExist
  <2> HIDE DEF Own
  <2> QED BY <2>1
<1>3. MapThenSumSet(LAMBDA x : map[x].bytes, S) = sums[S]
  BY DEF MapThenSumSet, MapThenFoldSet, Pick
<1> HIDE DEF g, Own, sums
<1>4. sums[S] = SumOf(g, S)
  BY <1>1, <1>2, SumIs
<1> QED
  BY <1>3, <1>4 DEF g

LEMMA SumOfBlocks ==
  ASSUME NEW map, NEW S, IsFiniteSet(S)
  PROVE  MapThenSumSet(LAMBDA x : map[x].blocks, S) = SumOf([x \in S |-> map[x].blocks], S)
<1> DEFINE g == [x \in S |-> map[x].blocks]
           Own(it) == it = [s \in SUBSET S |->
                              IF s = {} THEN 0 ELSE map[Pick(s)].blocks + it[s \ {Pick(s)}]]
           sums == CHOOSE it : Own(it)
<1>1. ASSUME NEW it PROVE Own(it) <=> IsSums(it, g, S)
  <2>1. \A s \in SUBSET S : s # {} => map[Pick(s)].blocks = g[Pick(s)]
    BY PickIsIn
  <2> HIDE DEF g
  <2> QED BY <2>1 DEF IsSums
<1>2. Own(sums)
  <2>1. \E it : Own(it)
    <3> HIDE DEF g, Own
    <3> QED BY <1>1, SumsExist
  <2> HIDE DEF Own
  <2> QED BY <2>1
<1>3. MapThenSumSet(LAMBDA x : map[x].blocks, S) = sums[S]
  BY DEF MapThenSumSet, MapThenFoldSet, Pick
<1> HIDE DEF g, Own, sums
<1>4. sums[S] = SumOf(g, S)
  BY <1>1, <1>2, SumIs
<1> QED
  BY <1>3, <1>4 DEF g


\* The bytes and the blocks of all groups are those of all blocks.
LEMMA GroupsAddUp ==
  ASSUME LedgerInv, DetailsInv,
         NEW details, DOMAIN details = {allocations[ptr].callstack : ptr \in DOMAIN allocations},
         \A s \in DOMAIN details :
           /\ details[s].bytes = LeakBytes(GroupOf(s))
           /\ details[s].blocks = Cardinality(GroupOf(s))
  PROVE  /\ LeakBytes(DOMAIN allocations) =
              MapThenSumSet(LAMBDA s : details[s].bytes, DOMAIN details)
         /\ Cardinality(DOMAIN allocations) =
              MapThenSumSet(LAMBDA s : details[s].blocks, DOMAIN details)
  <1> DEFINE S == DOMAIN allocations
             K == DOMAIN details
             key == [ptr \in S |-> allocations[ptr].callstack]
             g == SizesOf(allocations)
             ones == [ptr \in S |-> 1]
             bytes == [s \in K |-> details[s].bytes]
             blocks == [s \in K |-> details[s].blocks]
             Group(s) == {ptr \in S : key[ptr] = s}
  <1>1. IsFiniteSet(S)
    BY DEF DetailsInv
  <1>2. IsFiniteSet(K)
    <2>1. key \in [S -> K] /\ \A s \in K : \E ptr \in S : key[ptr] = s
      OBVIOUS
    <2> HIDE DEF K, key, S
    <2>2. key \in Surjection(S, K)
      BY <2>1 DEF Surjection
    <2> QED BY <1>1, <2>2, FS_Surjection
  <1>3. \A ptr \in S : key[ptr] \in K
    OBVIOUS
  <1>4. \A ptr \in S : g[ptr] \in Nat /\ ones[ptr] \in Nat /\ ones[ptr] = 1
    BY LedgerParts DEF SizesOf, LedgerType, AllocInfo
  <1>5. \A s : Group(s) \in SUBSET S /\ Group(s) = GroupOf(s) /\ IsFiniteSet(Group(s))
    <2>1. \A s : Group(s) \in SUBSET S /\ Group(s) = GroupOf(s)
      BY DEF GroupOf
    <2>2. \A u \in SUBSET S : IsFiniteSet(u)
      BY <1>1, FS_Subset
    <2> HIDE DEF Group, S
    <2> QED BY <2>1, <2>2
  <1> HIDE DEF key, g, ones, Group
  <1>6. \A s \in K : bytes[s] = SumOf(g, Group(s))
    <2> TAKE s \in K
    <2>1. bytes[s] = LeakBytes(Group(s))
      BY <1>5
    <2> QED BY <1>5, <2>1, LeakBytesAre DEF g
  <1>7. \A s \in K : blocks[s] = SumOf(ones, Group(s))
    <2> TAKE s \in K
    <2>1. blocks[s] = Cardinality(Group(s))
      BY <1>5
    <2>2. \A ptr \in Group(s) : ones[ptr] = 1
      BY <1>4, <1>5
    <2> QED BY <1>5, <2>1, <2>2, SumOfOnes
  <1> HIDE DEF bytes, blocks
  <1>8. SumOf(bytes, K) = SumOf(g, S)
    <2> HIDE DEF K, S
    <2>1. \A s \in K : bytes[s] = SumOf(g, {ptr \in S : key[ptr] = s})
      BY <1>6 DEF Group
    <2>2. \A ptr \in S : g[ptr] \in Nat
      BY <1>4
    <2>3. Grouped(bytes, K, g, S, key)
      BY <1>1, <1>2, <1>3, <2>1, <2>2 DEF Grouped
    <2> QED BY <2>3, SumOfGroups
  <1>9. SumOf(blocks, K) = SumOf(ones, S)
    <2> HIDE DEF K, S
    <2>1. \A s \in K : blocks[s] = SumOf(ones, {ptr \in S : key[ptr] = s})
      BY <1>7 DEF Group
    <2>2. \A ptr \in S : ones[ptr] \in Nat
      BY <1>4
    <2>3. Grouped(blocks, K, ones, S, key)
      BY <1>1, <1>2, <1>3, <2>1, <2>2 DEF Grouped
    <2> QED BY <2>3, SumOfGroups
  <1>10. LeakBytes(S) = SumOf(g, S) /\ Cardinality(S) = SumOf(ones, S)
    BY <1>1, <1>4, LeakBytesAre, SumOfOnes DEF g
  <1>11. /\ MapThenSumSet(LAMBDA s : details[s].bytes, K) = SumOf(bytes, K)
         /\ MapThenSumSet(LAMBDA s : details[s].blocks, K) = SumOf(blocks, K)
    BY <1>2, SumOfBytes, SumOfBlocks DEF bytes, blocks
  <1> QED
    BY <1>8, <1>9, <1>10, <1>11

\* Cutting the details at the first group below minleak loses nothing, as there
\* is none.
LEMMA NoGroupBelow ==
  ASSUME LedgerInv, DetailsInv, NEW stack \in {allocations[ptr].callstack : ptr \in DOMAIN allocations}
  PROVE  LeakBytes(GroupOf(stack)) >= log_config.minleak
  <1> DEFINE g == SizesOf(allocations)
  <1>1. PICK ptr \in GroupOf(stack) : TRUE
    BY DEF GroupOf
  <1>2. GroupOf(stack) \in SUBSET DOMAIN allocations /\ IsFiniteSet(GroupOf(stack))
    <2>1. GroupOf(stack) \in SUBSET DOMAIN allocations
      BY DEF GroupOf
    <2> QED BY <2>1, FS_Subset DEF DetailsInv
  <1>3. /\ \A q \in GroupOf(stack) : g[q] \in Nat
        /\ g[ptr] >= log_config.minleak
    BY <1>2, LedgerParts DEF SizesOf, LedgerType, AllocInfo, DetailsInv
  <1>4. log_config.minleak \in Nat
    BY DEF LedgerInv, TypeOKHuLog, LogConfigType
  <1>5. IsFiniteSet(GroupOf(stack) \ {ptr})
    BY <1>2, FS_Subset
  <1> HIDE DEF g
  <1>6. SumOf(g, GroupOf(stack)) = g[ptr] + SumOf(g, GroupOf(stack) \ {ptr})
    BY <1>2, <1>3, SumRemove
  <1>7. SumOf(g, GroupOf(stack) \ {ptr}) \in Nat
    BY <1>3, <1>5, SumNat
  <1>8. LeakBytes(GroupOf(stack)) = SumOf(g, GroupOf(stack))
    BY <1>2, LeakBytesAre DEF g
  <1> QED
    BY <1>3, <1>4, <1>6, <1>7, <1>8

LEMMA DetailsOfAll ==
  ASSUME LedgerInv, DetailsInv
  PROVE  /\ DOMAIN LeakDetails = {allocations[ptr].callstack : ptr \in DOMAIN allocations}
         /\ \A s \in DOMAIN LeakDetails :
              /\ LeakDetails[s].bytes = LeakBytes(GroupOf(s))
              /\ LeakDetails[s].blocks = Cardinality(GroupOf(s))
  BY NoGroupBelow DEF LeakDetails

LEMMA SummaryAddsUp ==
  ASSUME LedgerInv, DetailsInv, NEW ondemand, NEW evicted, NEW opened \in BOOLEAN,
         log_summary(ondemand, evicted, opened)
  PROVE  DetailsInv'
  <1>1. UNCHANGED <<log_config, allocations>>
    BY DEF log_summary, ledgerVars
  <1>2. ASSUME log_config.leak, opened, NEW printed \in summary'
        PROVE  AddsUp(printed)
    <2>1. /\ printed.details = LeakDetails /\ printed.bytes = LeakBytes(DOMAIN allocations)
          /\ printed.blocks = DOMAIN allocations
      BY <1>2 DEF log_summary
    <2> DEFINE details == printed.details
    <2>2. /\ DOMAIN details = {allocations[ptr].callstack : ptr \in DOMAIN allocations}
          /\ \A s \in DOMAIN details :
               /\ details[s].bytes = LeakBytes(GroupOf(s))
               /\ details[s].blocks = Cardinality(GroupOf(s))
      BY <2>1, DetailsOfAll
    <2> HIDE DEF details
    <2>3. /\ LeakBytes(DOMAIN allocations) =
               MapThenSumSet(LAMBDA s : details[s].bytes, DOMAIN details)
          /\ Cardinality(DOMAIN allocations) =
               MapThenSumSet(LAMBDA s : details[s].blocks, DOMAIN details)
      BY <2>2, GroupsAddUp
    <2> QED
      BY <2>1, <2>3 DEF details, AddsUp
  <1>3. ~opened => UNCHANGED summary
    BY DEF log_summary
  <1>4. DetailsAddUp'
    <2>1. CASE opened
      BY <1>1, <1>2, <2>1 DEF DetailsAddUp
    <2>2. CASE ~opened
      BY <1>1, <1>3, <2>2 DEF DetailsInv, DetailsAddUp
    <2> QED BY <2>1, <2>2
  <1> QED
    BY <1>1, <1>4 DEF DetailsInv

LEMMA NextDetails == LedgerInv /\ DetailsInv /\ [NextHuLog]_logVars => DetailsInv'
  <1> SUFFICES ASSUME LedgerInv, DetailsInv, [NextHuLog]_logVars PROVE DetailsInv'
    OBVIOUS
  <1> DEFINE Recorded(map) == /\ IsFiniteSet(DOMAIN map)
                              /\ \A ptr \in DOMAIN map : map[ptr].size >= log_config.minleak
  <1>1. Recorded(allocations) /\ DetailsAddUp
    BY DEF DetailsInv
  <1>2. ASSUME UNCHANGED <<log_config, summary>>, Recorded(allocations') PROVE DetailsInv'
    BY <1>1, <1>2 DEF DetailsInv, DetailsAddUp
  <1>3. CASE UNCHANGED <<log_config, summary, allocations>>
    BY <1>1, <1>2, <1>3
  <1>4. ASSUME NEW ptr \in Ptrs, NEW size \in LogSizes, NEW stack \in Stacks,
               log_event_malloc(ptr, size, stack)
        PROVE  DetailsInv'
    <2>1. CASE UNCHANGED allocations
      BY <1>3, <1>4, <2>1 DEF log_event_malloc
    <2>2. CASE /\ size >= log_config.minleak
               /\ allocations' = MapPut(allocations, ptr, hu_allocinfo_t(size, stack))
      <3>1. /\ DOMAIN allocations' = DOMAIN allocations \cup {ptr}
            /\ \A q \in DOMAIN allocations' :
                 allocations'[q].size = IF q = ptr THEN size ELSE allocations[q].size
        BY <2>2 DEF MapPut, hu_allocinfo_t
      <3>2. IsFiniteSet(DOMAIN allocations')
        BY <1>1, <3>1, FS_AddElement
      <3> QED BY <1>1, <1>2, <1>4, <2>2, <3>1, <3>2 DEF log_event_malloc
    <2> QED BY <1>4, <2>1, <2>2 DEF log_event_malloc, LogRecorded, ledgerVars
  <1>5. ASSUME NEW ptr \in Ptrs, NEW stack \in Stacks, NEW opened \in BOOLEAN,
               log_event_free(ptr, stack, opened)
        PROVE  DetailsInv'
    <2>1. CASE UNCHANGED allocations
      BY <1>3, <1>5, <2>1 DEF log_event_free
    <2>2. CASE allocations' = MapErase(allocations, ptr)
      <3>1. /\ DOMAIN allocations' = DOMAIN allocations \ {ptr}
            /\ \A q \in DOMAIN allocations' : allocations'[q] = allocations[q]
        BY <2>2 DEF MapErase
      <3>2. IsFiniteSet(DOMAIN allocations')
        BY <1>1, <3>1, FS_Subset
      <3> QED BY <1>1, <1>2, <1>5, <3>1, <3>2 DEF log_event_free
    <2> QED
      BY <1>5, <2>1, <2>2, Zenon DEF log_event_free, LogFreed, LogDoubleFree, LogUnknownFree, ledgerVars
  <1>6. ASSUME NEW ondemand \in BOOLEAN, NEW evicted \in BOOLEAN, NEW opened \in BOOLEAN,
               log_summary(ondemand, evicted, opened)
        PROVE  DetailsInv'
    BY <1>6, SummaryAddsUp
  <1> QED
    BY <1>3, <1>4, <1>5, <1>6 DEF NextHuLog, logVars, ledgerVars, log_enable,
       hu_log_remove_freed_allocation, hu_sig_handler

\* The leak details add up to the leak summary, in bytes and in blocks, whatever
\* has been recorded when: log_event records no block below minleak, so that the
\* cut at the first group below it loses none (hulog.cpp:517).
THEOREM DetailsSumUp == SpecHuLog => []DetailsAddUp
  <1>1. InitHuLog => DetailsInv
    BY FS_EmptySet DEF InitHuLog, DetailsInv, DetailsAddUp, NoEntries
  <1>2. SpecHuLog => []DetailsInv
    BY <1>1, NextDetails, LedgerInvariant, PTL DEF SpecHuLog
  <1>3. DetailsInv => DetailsAddUp
    BY DEF DetailsInv
  <1> QED  BY <1>2, <1>3, PTL

-----------------------------------------------------------------------------
(***************************************************************************)
(* HeapUsage as a whole.                                                   *)
(***************************************************************************)

-----------------------------------------------------------------------------
(***************************************************************************)
(* What the theorems assume.                                               *)
(***************************************************************************)

\* libc notices when it is given a plain block for the second time, however the
\* block's memory has been used since.
Noticed == \A ptr \in DOMAIN dangling \ hu_user_addrs : free(ptr) => libc_aborted'
LibcNotices == [][Noticed]_vars

\* The program's other threads stop for a report and for exit().
OneThread == OtherThreads = {}

NoEmptyRequests == 0 \notin Sizes /\ 0 \notin Counts

-----------------------------------------------------------------------------
(***************************************************************************)
(* The events a wrapper leaves to be logged.                               *)
(***************************************************************************)

\* A free, an allocation, the one and then the other, or nothing.
EventsOf(freed, old, ret, size) ==
  When(freed, FreeEvent(old)) \o When(size # 0, MallocEvent(ret, size))

FreeThenMalloc(old, ret, size) == <<FreeEvent(old), MallocEvent(ret, size)>>

PointersOf(queue, event) ==
  {queue[i].ptr : i \in {j \in 1 .. Len(queue) : queue[j].event = event}}

ToFree == PointersOf(todo, "free")
ToRecord == PointersOf(todo, "malloc")

\* The next event frees a block the ledger has among the freed ones: it will be
\* reported, if double frees are.
IsDue(queue, recorded, freed) ==
  /\ queue # <<>>
  /\ Head(queue).event = "free"
  /\ Head(queue).ptr \in freed \ recorded

Due == IF IsDue(todo, DOMAIN allocations, DOMAIN freed_allocations) THEN 1 ELSE 0

LEMMA ConcatOfEvents ==
  ASSUME NEW event, NEW other
  PROVE  /\ <<event>> \o <<>> = <<event>>
         /\ <<>> \o <<event>> = <<event>>
         /\ <<event>> \o <<other>> = <<event, other>>
<1>1. <<event>> \in Seq({event}) /\ <<>> \in Seq({event})
  OBVIOUS
<1>2. <<event>> \o <<>> = <<event>> /\ <<>> \o <<event>> = <<event>>
  BY <1>1
<1>3. <<event>> \o <<other>> = <<event, other>>
  <2> DEFINE both == <<event>> \o <<other>>
  <2>1. both \in Seq({event, other}) /\ Len(both) = 2
    BY SMT
  <2>2. both[1] = event /\ both[2] = other
    BY SMT
  <2> HIDE DEF both
  <2>3. both = <<both[1], both[2]>>
    BY <2>1
  <2> QED
    BY <2>2, <2>3 DEF both
<1> QED
  BY <1>2, <1>3

LEMMA NoEvents ==
  /\ PointersOf(<<>>, "free") = {}
  /\ PointersOf(<<>>, "malloc") = {}
  BY DEF PointersOf

LEMMA OneFree ==
  ASSUME NEW p
  PROVE  LET queue == <<FreeEvent(p)>>
         IN  /\ queue # <<>> /\ Head(queue) = FreeEvent(p) /\ Tail(queue) = <<>>
             /\ PointersOf(queue, "free") = {p}
             /\ PointersOf(queue, "malloc") = {}
  BY DEF PointersOf, FreeEvent

LEMMA OneMalloc ==
  ASSUME NEW q, NEW n
  PROVE  LET queue == <<MallocEvent(q, n)>>
         IN  /\ queue # <<>> /\ Head(queue) = MallocEvent(q, n) /\ Tail(queue) = <<>>
             /\ PointersOf(queue, "free") = {}
             /\ PointersOf(queue, "malloc") = {q}
  BY DEF PointersOf, MallocEvent

LEMMA FreeAndMalloc ==
  ASSUME NEW p, NEW q, NEW n
  PROVE  LET queue == FreeThenMalloc(p, q, n)
         IN  /\ queue # <<>> /\ Head(queue) = FreeEvent(p)
             /\ Tail(queue) = <<MallocEvent(q, n)>>
             /\ PointersOf(queue, "free") = {p}
             /\ PointersOf(queue, "malloc") = {q}
<1> DEFINE queue == <<FreeEvent(p), MallocEvent(q, n)>>
<1>1. /\ Len(queue) = 2
      /\ queue[1] = FreeEvent(p)
      /\ queue[2] = MallocEvent(q, n)
      /\ queue # <<>> /\ Head(queue) = FreeEvent(p)
      /\ Tail(queue) = <<MallocEvent(q, n)>>
  OBVIOUS
<1>2. /\ queue[1].event = "free" /\ queue[1].ptr = p
      /\ queue[2].event = "malloc" /\ queue[2].ptr = q
  BY <1>1 DEF FreeEvent, MallocEvent
<1> HIDE DEF queue
<1>3. 1 .. Len(queue) = {1, 2}
  BY <1>1
<1>4. /\ {j \in 1 .. Len(queue) : queue[j].event = "free"} = {1}
      /\ {j \in 1 .. Len(queue) : queue[j].event = "malloc"} = {2}
  BY <1>2, <1>3
<1>5. PointersOf(queue, "free") = {p} /\ PointersOf(queue, "malloc") = {q}
  BY <1>2, <1>4 DEF PointersOf
<1> QED
  BY <1>1, <1>5 DEF queue, FreeThenMalloc

\* The four queues a wrapper may leave.
LEMMA EventsOfCall ==
  ASSUME NEW freed \in BOOLEAN, NEW old, NEW ret, NEW size
  PROVE  LET queue == EventsOf(freed, old, ret, size)
         IN  /\ freed /\ size # 0 => queue = FreeThenMalloc(old, ret, size)
             /\ freed /\ size = 0 => queue = <<FreeEvent(old)>>
             /\ ~freed /\ size # 0 => queue = <<MallocEvent(ret, size)>>
             /\ ~freed /\ size = 0 => queue = <<>>
<1>1. CASE freed /\ size # 0
  <2>1. EventsOf(freed, old, ret, size) = <<FreeEvent(old)>> \o <<MallocEvent(ret, size)>>
    BY <1>1, Zenon DEF EventsOf, When
  <2> QED
    BY <1>1, <2>1, ConcatOfEvents, Zenon DEF FreeThenMalloc
<1>2. CASE freed /\ size = 0
  <2>1. EventsOf(freed, old, ret, size) = <<FreeEvent(old)>> \o <<>>
    BY <1>2, Zenon DEF EventsOf, When
  <2> QED
    BY <1>2, <2>1, ConcatOfEvents, Zenon
<1>3. CASE ~freed /\ size # 0
  <2>1. EventsOf(freed, old, ret, size) = <<>> \o <<MallocEvent(ret, size)>>
    BY <1>3, Zenon DEF EventsOf, When
  <2> QED
    BY <1>3, <2>1, ConcatOfEvents, Zenon
<1>4. CASE ~freed /\ size = 0
  <2>1. EventsOf(freed, old, ret, size) = <<>> \o <<>>
    BY <1>4, Zenon DEF EventsOf, When
  <2> QED
    BY <1>4, <2>1
<1> QED
  BY <1>1, <1>2, <1>3, <1>4

-----------------------------------------------------------------------------
(***************************************************************************)
(* The ledger follows the program's blocks.                                *)
(***************************************************************************)

\* Where the process is, and whether logging is on.
Phase ==
  /\ stage \in {"loading", "running", "exiting", "silent", "ended"}
  /\ reporting \in {"no", "summary", "enable"}
  /\ stage # "running" => reporting = "no"
  /\ stage \in {"exiting", "silent", "ended"} => todo = <<>> /\ Idle
  /\ stage = "loading" => ~logging_enabled
  /\ stage = "running" /\ reporting = "no" => logging_enabled

BeforeInit ==
  stage = "loading" =>
    /\ unlogged = DOMAIN live /\ DOMAIN dangling = {}
    /\ DOMAIN allocations = {} /\ DOMAIN freed_allocations = {}
    /\ ~hu_malloc_inited

Owned ==
  /\ live = kept
  /\ unlogged \subseteq DOMAIN live
  /\ DOMAIN dangling \subseteq Addresses \ DOMAIN live
  /\ double_frees \in [all : Nat, second : Nat]

\* todo is what a wrapper leaves, or the rest of it; what is to be recorded is
\* one of the program's blocks.
Events ==
  \/ todo = <<>>
  \/ \E p \in Results : todo = <<FreeEvent(p)>>
  \/ \E q \in DOMAIN live : todo = <<MallocEvent(q, live[q])>>
  \/ \E p \in Addresses, q \in DOMAIN live : todo = FreeThenMalloc(p, q, live[q])

RecordedIsHeld == \A q \in ToRecord : live[q] > 0 /\ (stage = "running" => q \notin unlogged)

\* The pointers of Ledger.
Owed == {p \in DOMAIN live \ unlogged : live[p] > 0 /\ live[p] >= hu_env.minsize}

\* The ledger so far: the events still to be logged make up the difference.
LedgerSoFar ==
  /\ DOMAIN allocations \ ToFree = Owed \ ToRecord
  /\ \A p \in Owed \ ToRecord : allocations[p].size = live[p]

SummaryIsLedger ==
  stage = "ended" /\ ~LogFileCanFail =>
    \A printed \in summary : printed.blocks = DOMAIN allocations

Environment == hu_env \in Tools /\ log_config = LogConfigOf(hu_env)

CoreInv ==
  /\ MemoryInv
  /\ Environment /\ Phase /\ BeforeInit /\ Owned
  /\ Events /\ RecordedIsHeld /\ LedgerSoFar
  /\ SummaryIsLedger

\* libc has aborted the process.
Stopped == libc_aborted /\ pending_free = NULL /\ stage # "ended"

BlocksInv == Stopped \/ CoreInv

-----------------------------------------------------------------------------
(***************************************************************************)
(* The wrappers' calls, all four in one form: old is given back, ret is    *)
(* handed out for size bytes.  NULL and 0 bytes stand for neither.         *)
(***************************************************************************)
Often(condition) == IF condition THEN 1 ELSE 0

Calls(old, ret, size, freed) ==
  /\ todo = <<>> /\ Idle
  /\ stage \in {"loading", "running"} /\ reporting = "no"
  /\ UNCHANGED <<processVars, reportVars, logVars, fault, hu_malloc_inited>>
  /\ NewTo(DOMAIN kept \ {old}, ret)
  /\ kept' = Hold(MapErase(kept, old), ret, size)
  /\ live' = Hold(MapErase(live, old), ret, size)
  /\ unlogged' = (unlogged \ {old})
       \cup (IF stage = "loading" /\ ret # NULL THEN {ret} ELSE {})
  /\ DOMAIN dangling' = (DOMAIN dangling \cup ({old} \cap (DOMAIN live \ unlogged))) \ {ret}
  /\ \A p \in DOMAIN dangling' :
       dangling'[p] = IF p = old THEN p \in DOMAIN dangling ELSE dangling[p]
  /\ double_frees' =
       [all |-> double_frees.all + Often(old \in DOMAIN dangling),
        second |-> double_frees.second + Often(old \in DOMAIN dangling /\ ~dangling[old])]
  /\ todo' = EventsOf(freed, old, ret, size)

\* What a caller asks for, and what it gets.
Served(old, ret, size, freed) ==
  /\ size # 0 => ret # NULL
  /\ old # NULL => freed
  /\ freed /\ size # 0 => old # NULL
  /\ old \in DOMAIN dangling => size = 0 /\ ret = NULL

\* The sizes the program asks for.
Requests == Sizes \cup {nmemb * size : nmemb \in Counts, size \in Sizes}

\* The call of humalloc's that it makes.
HeapCall(old, ret, size) ==
  \/ old = NULL /\ hu_malloc(size, ret)
  \/ old = NULL /\ \E nmemb \in Counts, each \in Sizes :
                      size = nmemb * each /\ hu_calloc(nmemb, each, ret)
  \/ size \in Sizes /\ old \in Reallocable /\ realloc(old, size) /\ hu_realloc(old, size, ret)
  \/ size = 0 /\ ret = NULL /\ hu_free(old)

\* What a wrapper leaves to be logged.
LEMMA CallLeaves ==
  ASSUME NEW old \in Results, NEW ret \in Results, NEW size \in Nat, NEW freed \in BOOLEAN,
         Calls(old, ret, size, freed), Served(old, ret, size, freed)
  PROVE  /\ ToFree' = IF freed THEN {old} ELSE {}
         /\ ToRecord' = IF size # 0 THEN {ret} ELSE {}
<1>1. todo' = EventsOf(freed, old, ret, size)
  BY DEF Calls
<1>2. CASE freed /\ size # 0
  <2>1. todo' = FreeThenMalloc(old, ret, size)
    BY <1>1, <1>2, EventsOfCall
  <2> QED
    BY <1>2, <2>1, FreeAndMalloc DEF ToFree, ToRecord
<1>3. CASE freed /\ size = 0
  <2>1. todo' = <<FreeEvent(old)>>
    BY <1>1, <1>3, EventsOfCall, Zenon
  <2> QED
    BY <1>3, <2>1, OneFree DEF ToFree, ToRecord
<1>4. CASE ~freed /\ size # 0
  <2>1. todo' = <<MallocEvent(ret, size)>>
    <3>1. EventsOf(freed, old, ret, size) = <<MallocEvent(ret, size)>>
      BY <1>4, EventsOfCall
    <3> QED
      BY <1>1, <3>1, Zenon
  <2> QED
    BY <1>4, <2>1, OneMalloc, Zenon DEF ToFree, ToRecord
<1>5. CASE ~freed /\ size = 0
  <2>1. todo' = <<>>
    BY <1>1, <1>5, EventsOfCall, Zenon
  <2> QED
    BY <1>5, <2>1, NoEvents DEF ToFree, ToRecord
<1> QED
  BY <1>2, <1>3, <1>4, <1>5

\* A wrapper call keeps the invariant: what it leaves to be logged is by how much
\* the ledger is behind.
LEMMA CallKeepsCore ==
  ASSUME CoreInv, MemoryInv',
         NEW old \in Results, NEW ret \in Results, NEW size \in Nat, NEW freed \in BOOLEAN,
         Calls(old, ret, size, freed), Served(old, ret, size, freed)
  PROVE  CoreInv'
<1>1. /\ ToFree = {} /\ ToRecord = {}
      /\ ToFree' = IF freed THEN {old} ELSE {}
      /\ ToRecord' = IF size # 0 THEN {ret} ELSE {}
  <2>1. todo = <<>>
    BY DEF Calls
  <2>2. ToFree = {} /\ ToRecord = {}
    BY <2>1, NoEvents DEF ToFree, ToRecord
  <2> QED
    BY <2>2, CallLeaves
<1>2. /\ DOMAIN live' = (DOMAIN live \ {old}) \cup ({ret} \ {NULL})
      /\ \A p \in DOMAIN live' :
           live'[p] = IF ret # NULL /\ p = ret THEN size ELSE live[p]
  <2>1. live' = Hold(MapErase(live, old), ret, size)
    BY DEF Calls
  <2> QED
    BY <2>1 DEF Hold, MapErase, MapPut
<1>3. UNCHANGED <<hu_env, stage, reporting, log_config, logging_enabled, allocations,
                  freed_allocations, summary, hu_malloc_inited>>
  BY DEF Calls, processVars, reportVars, logVars, ledgerVars
<1>4. /\ stage \in {"loading", "running"} /\ reporting = "no"
      /\ stage = "loading" => unlogged = DOMAIN live /\ DOMAIN dangling = {}
      /\ live = kept /\ unlogged \subseteq DOMAIN live
      /\ DOMAIN dangling \subseteq Addresses \ DOMAIN live
      /\ DOMAIN live \subseteq Addresses
  BY DEF Calls, CoreInv, BeforeInit, Owned, MemoryInv, AllocatorInv, AddressMap
<1>5. ret # NULL => ret \in Addresses /\ ret \notin DOMAIN live \ {old}
  BY <1>4 DEF Calls, NewTo
<1>6. unlogged' = (unlogged \ {old})
                    \cup (IF stage = "loading" /\ ret # NULL THEN {ret} ELSE {})
  BY DEF Calls
<1>7. Owned'
  <2>1. DOMAIN dangling' \subseteq (DOMAIN dangling \cup ({old} \cap DOMAIN live)) \ {ret}
    BY DEF Calls
  <2>2. live' = kept'
    BY <1>4 DEF Calls
  <2>3. double_frees \in [all : Nat, second : Nat]
    BY DEF CoreInv, Owned
  <2>4. double_frees' \in [all : Nat, second : Nat]
    BY <2>3 DEF Calls, Often
  <2> QED
    BY <1>2, <1>4, <1>6, <2>1, <2>2, <2>4 DEF Owned
<1>8. BeforeInit'
  <2>1. DOMAIN dangling' \subseteq DOMAIN dangling \cup (DOMAIN live \ unlogged)
    BY DEF Calls
  <2> QED
    BY <1>2, <1>3, <1>4, <1>6, <2>1 DEF CoreInv, BeforeInit
<1>9. Events'
  <2>1. size # 0 => ret \in DOMAIN live' /\ live'[ret] = size
    BY <1>2 DEF Served
  <2>2. freed /\ size # 0 => old \in Addresses
    BY DEF Served, Results
  <2>3. todo' = EventsOf(freed, old, ret, size)
    BY DEF Calls
  <2>4. CASE freed /\ size # 0
    <3>1. todo' = FreeThenMalloc(old, ret, live'[ret])
      <4>1. todo' = FreeThenMalloc(old, ret, size)
        BY <2>3, <2>4, EventsOfCall
      <4> QED
        BY <2>1, <2>4, <4>1, Zenon
    <3> QED
      BY <2>1, <2>2, <2>4, <3>1 DEF Events
  <2>5. CASE freed /\ size = 0
    <3>1. todo' = <<FreeEvent(old)>>
      BY <2>3, <2>5, EventsOfCall
    <3> QED
      BY <3>1 DEF Events
  <2>6. CASE ~freed /\ size # 0
    <3>1. todo' = <<MallocEvent(ret, live'[ret])>>
      BY <2>1, <2>3, <2>6, EventsOfCall
    <3> QED
      BY <2>1, <2>6, <3>1 DEF Events
  <2>7. CASE ~freed /\ size = 0
    <3>1. todo' = <<>>
      BY <2>3, <2>7, EventsOfCall
    <3> QED
      BY <3>1 DEF Events
  <2> QED
    BY <2>4, <2>5, <2>6, <2>7
<1>10. RecordedIsHeld'
  <2>1. size # 0 => ret \in DOMAIN live' /\ live'[ret] = size /\ size > 0
    BY <1>2 DEF Served
  <2>2. stage = "running" /\ ret # NULL => ret \notin unlogged'
    BY <1>4, <1>5, <1>6
  <2> QED
    BY <1>1, <1>3, <2>1, <2>2 DEF RecordedIsHeld, Served
<1>11. LedgerSoFar'
  <2>1. /\ DOMAIN allocations = Owed
        /\ \A p \in Owed : allocations[p].size = live[p]
    BY <1>1 DEF CoreInv, LedgerSoFar
  <2>2. CASE stage = "loading"
    <3>1. Owed = {} /\ Owed' = {}
      BY <1>3, <1>7, <1>8, <2>2, <1>4 DEF Owed, Owned, BeforeInit
    <3> QED
      BY <1>3, <2>1, <3>1 DEF LedgerSoFar
  <2>3. CASE stage = "running"
    <3>1. unlogged' = unlogged \ {old}
      BY <1>6, <2>3
    <3>2. ret # NULL /\ ret \in Owed' => ret \in ToRecord'
      BY <1>1, <1>2 DEF Owed
    <3>3. \A p : p # ret \/ ret = NULL =>
            (p \in Owed' <=> p \in Owed /\ p # old)
      BY <1>2, <1>3, <3>1 DEF Owed
    <3>4. ret # NULL /\ ret \in Owed => ret = old
      BY <1>5 DEF Owed
    <3>5. old \in Owed => freed
      BY <1>4 DEF Owed, Served, NULL, Addresses
    <3>6. DOMAIN allocations' \ ToFree' = Owed' \ ToRecord'
      <4>1. \A p : p \in Owed' \ ToRecord' => p # ret \/ ret = NULL
        BY <3>2
      <4>2. \A p : p \in Owed \ {old} => p # ret \/ ret = NULL
        BY <3>4
      <4>3. ToRecord' \subseteq {ret} /\ (ret \in ToRecord' => ret # NULL)
        BY <1>1 DEF Served
      <4>4. Owed' \ ToRecord' = Owed \ {old}
        BY <3>3, <4>1, <4>2, <4>3
      <4>5. Owed \ ToFree' = Owed \ {old}
        BY <1>1, <3>5
      <4> QED
        BY <1>3, <2>1, <4>4, <4>5
    <3>7. \A p \in Owed' \ ToRecord' : allocations'[p].size = live'[p]
      <4> SUFFICES ASSUME NEW p \in Owed' \ ToRecord'
                   PROVE  allocations'[p].size = live'[p]
        OBVIOUS
      <4>1. (p # ret \/ ret = NULL) /\ p \in Owed
        BY <3>2, <3>3
      <4>2. live'[p] = live[p]
        BY <1>2, <4>1 DEF Owed
      <4> QED
        BY <1>3, <2>1, <4>1, <4>2
    <3> QED
      BY <3>6, <3>7 DEF LedgerSoFar
  <2> QED
    BY <1>4, <2>2, <2>3
<1>12. Phase' /\ Environment' /\ SummaryIsLedger'
  BY <1>3, <1>4 DEF CoreInv, Phase, Environment, SummaryIsLedger
<1> QED
  BY <1>7, <1>8, <1>9, <1>10, <1>11, <1>12 DEF CoreInv

-----------------------------------------------------------------------------
(***************************************************************************)
(* The four wrappers are such calls.                                       *)
(***************************************************************************)
LEMMA NothingErased ==
  ASSUME CoreInv
  PROVE  /\ NULL \notin DOMAIN kept /\ NULL \notin DOMAIN dangling
         /\ MapErase(kept, NULL) = kept /\ MapErase(live, NULL) = live
         /\ unlogged \ {NULL} = unlogged
<1>1. NULL \notin Addresses
  BY LibcAssumption DEF NULL, Addresses
<1>2. live = kept /\ DOMAIN kept \subseteq Addresses /\ unlogged \subseteq DOMAIN live
      /\ DOMAIN dangling \subseteq Addresses
  BY DEF CoreInv, Owned, MemoryInv, AllocatorInv, AddressMap
<1>3. kept = [p \in DOMAIN kept |-> kept[p]]
  BY DEF CoreInv, MemoryInv, HeldIsMap
<1> QED
  BY <1>1, <1>2, <1>3 DEF MapErase

\* A wrapper runs in the program's one thread.
LEMMA LockIs ==
  ASSUME OneThread, Lock
  PROVE  /\ todo = <<>>
         /\ stage \in {"loading", "running"} /\ reporting = "no"
         /\ UNCHANGED <<processVars, reportVars, logVars, fault>>
  BY DEF OneThread, Lock, ProgramRuns

\* malloc and calloc.
LEMMA GetsCalls ==
  ASSUME CoreInv, OneThread, NEW ret \in Results, NEW size \in Nat,
         Lock, Idle, UNCHANGED setupVars,
         kept' = Hold(kept, ret, size), NewTo(DOMAIN kept, ret),
         Gets(ret, size),
         todo' = EventsOf(FALSE, NULL, ret, size),
         size # 0 => ret # NULL
  PROVE  Calls(NULL, ret, size, FALSE) /\ Served(NULL, ret, size, FALSE)
<1>1. Served(NULL, ret, size, FALSE)
  BY NothingErased DEF Served
<1>2. live' = Hold(MapErase(live, NULL), ret, size) /\ kept' = Hold(MapErase(kept, NULL), ret, size)
  BY NothingErased DEF Gets, Hold
<1>3. /\ DOMAIN dangling' = DOMAIN dangling \ {ret}
      /\ \A p \in DOMAIN dangling' : p # NULL /\ dangling'[p] = dangling[p]
  BY NothingErased DEF Gets, MapErase
<1>4. /\ NULL \notin DOMAIN dangling /\ NULL \notin DOMAIN live \ unlogged
      /\ NewTo(DOMAIN kept \ {NULL}, ret)
  BY NothingErased DEF NewTo, CoreInv, Owned
<1>5. double_frees' = [all |-> double_frees.all + Often(NULL \in DOMAIN dangling),
                       second |-> double_frees.second
                                    + Often(NULL \in DOMAIN dangling /\ ~dangling[NULL])]
  <2>1. double_frees \in [all : Nat, second : Nat] /\ double_frees' = double_frees
    BY DEF CoreInv, Owned, Gets
  <2> QED
    BY <1>4, <2>1 DEF Often
<1>6. unlogged' = (unlogged \ {NULL})
                    \cup (IF stage = "loading" /\ ret # NULL THEN {ret} ELSE {})
  BY NothingErased DEF Gets
<1> QED
  BY <1>1, <1>2, <1>3, <1>4, <1>5, <1>6, LockIs DEF Calls, setupVars

AllocationsSucceed == ~AllocCanFail

\* An allocator that does not fail gives memory for every request, also for one
\* of no bytes.
LEMMA MemoryGiven ==
  ASSUME AllocationsSucceed, NEW ret, NEW size, LibcMalloc(size, ret) \/ Allocate(size, ret)
  PROVE  ret # NULL
<1>1. NULL \notin MallocStarts /\ NULL \notin Addresses
  BY LibcAssumption DEF NULL, Addresses
<1>2. CASE LibcMalloc(size, ret)
  BY <1>1, <1>2 DEF LibcMalloc, AllocationsSucceed
<1>3. CASE FencedMalloc(size, ret)
  BY <1>1, <1>3 DEF FencedMalloc, LibcMemalign, LibcFits, AllocationsSucceed
<1> QED
  BY <1>2, <1>3 DEF Allocate

LEMMA MallocCalls ==
  ASSUME CoreInv, OneThread, AllocationsSucceed, NEW size \in Sizes, malloc(size)
  PROVE  /\ MemoryInv'
         /\ \E ret \in Results : /\ ret # NULL
                                 /\ Calls(NULL, ret, size, FALSE)
                                 /\ Served(NULL, ret, size, FALSE)
                                 /\ HeapCall(NULL, ret, size)
<1>1. PICK ret \in Results :
        /\ Lock
        /\ hu_malloc(size, ret)
        /\ todo' = When(size > 0, MallocEvent(ret, size))
        /\ Gets(ret, size)
  BY DEF malloc
<1>2. size \in Nat
  BY HuMallocAssumption
<1>3. MemoryInv' /\ NewTo(DOMAIN kept, ret)
  BY <1>1, MallocMemory, MallocKeeps DEF CoreInv, MemoryInv
<1>4. /\ Idle /\ UNCHANGED setupVars
      /\ kept' = Hold(kept, ret, size) /\ ret # NULL
  BY <1>1, MemoryGiven DEF hu_malloc
<1>5. todo' = EventsOf(FALSE, NULL, ret, size)
  <2>1. todo' = IF size # 0 THEN <<MallocEvent(ret, size)>> ELSE <<>>
    BY <1>1, <1>2 DEF When
  <2> QED
    BY <2>1, EventsOfCall
<1>6. HeapCall(NULL, ret, size)
  BY <1>1 DEF HeapCall
<1> QED
  BY <1>1, <1>2, <1>3, <1>4, <1>5, <1>6, GetsCalls

LEMMA CallocCalls ==
  ASSUME CoreInv, OneThread, AllocationsSucceed,
         NEW nmemb \in Counts, NEW size \in Sizes, calloc(nmemb, size)
  PROVE  /\ MemoryInv'
         /\ \E ret \in Results : /\ ret # NULL
                                 /\ Calls(NULL, ret, nmemb * size, FALSE)
                                 /\ Served(NULL, ret, nmemb * size, FALSE)
                                 /\ HeapCall(NULL, ret, nmemb * size)
<1>1. PICK ret \in Results :
        /\ Lock
        /\ hu_calloc(nmemb, size, ret)
        /\ todo' = When(nmemb > 0 /\ size > 0, MallocEvent(ret, (nmemb * size) % SizeMod))
        /\ Gets(ret, nmemb * size)
  BY DEF calloc
<1>2. /\ nmemb \in Nat /\ size \in Nat
      /\ nmemb * size \in Nat
      /\ Representable(nmemb * size) /\ Representable(size)
      /\ (nmemb * size) % SizeMod = nmemb * size
  BY HuMallocAssumption, TotalIsProduct DEF CallocTotal
<1>3. nmemb > 0 /\ size > 0 <=> nmemb * size # 0
  BY <1>2
<1>4. MemoryInv' /\ NewTo(DOMAIN kept, ret)
  BY <1>1, CallocMemory, CallocKeeps DEF CoreInv, MemoryInv
<1>5. ret # NULL
  <2>1. CASE nmemb # 0 /\ size # 0
    <3>1. nmemb <= nmemb * size
      BY <1>2, <2>1
    <3>2. nmemb * size < SizeMod /\ size < SizeMod /\ SizeMod \in Nat
      <4> DEFINE product == nmemb * size
      <4> HIDE DEF product
      <4>1. product \in Nat /\ Representable(product)
        BY <1>2 DEF product
      <4>2. product < SizeMod /\ size < SizeMod /\ SizeMod \in Nat
        BY <1>2, <4>1, LayoutAssumption DEF Representable
      <4> QED
        BY <4>2 DEF product
    <3>3. nmemb \in Sizes_t \ {0} /\ size \in Sizes_t
      BY <1>2, <2>1, <3>1, <3>2 DEF Sizes_t
    <3>4. ~CallocOverflows(nmemb, size)
      BY <1>2, <3>2, <3>3, CallocCheckExact
    <3> QED
      BY <1>1, <2>1, <3>4, MemoryGiven DEF hu_calloc
  <2>2. CASE ~(nmemb # 0 /\ size # 0)
    BY <1>1, <2>2, MemoryGiven DEF hu_calloc
  <2> QED
    BY <2>1, <2>2
<1>6. todo' = EventsOf(FALSE, NULL, ret, nmemb * size)
  <2>1. todo' = IF nmemb * size # 0 THEN <<MallocEvent(ret, nmemb * size)>> ELSE <<>>
    BY <1>1, <1>2, <1>3 DEF When
  <2> QED
    BY <2>1, EventsOfCall
<1>7. Idle /\ UNCHANGED setupVars /\ kept' = Hold(kept, ret, nmemb * size)
  BY <1>1 DEF hu_calloc
<1>8. HeapCall(NULL, ret, nmemb * size)
  BY <1>1 DEF HeapCall
<1> QED
  BY <1>1, <1>2, <1>4, <1>5, <1>6, <1>7, <1>8, GetsCalls

LEMMA ReallocGives ==
  ASSUME CoreInv, AllocationsSucceed, NEW ptr \in Resizable, NEW size, NEW ret,
         hu_realloc(ptr, size, ret)
  PROVE  /\ size # 0 => ret # NULL
         /\ size = 0 /\ ptr # NULL => ret = NULL
         /\ kept' = Hold(MapErase(kept, ptr), ret, size)
<1>1. CASE ReallocMoved(ptr, size, ret)
  BY <1>1, MemoryGiven DEF ReallocMoved
<1>2. CASE /\ \/ ~hu_malloc_inited
              \/ ptr # NULL /\ size # 0 /\ ptr \notin DOMAIN hu_active_allocs
           /\ LibcRealloc(ptr, size, ret)
           /\ kept' = IF ret = NULL /\ size # 0 THEN kept
                      ELSE Hold(MapErase(kept, ptr), ret, size)
  <2>1. ptr = NULL \/ ptr \in DOMAIN libc_blocks
    BY <1>2 DEF CoreInv, MemoryInv, AllocatorInv, HeapInv, NothingBeforeInit, Resizable,
                HeldIsReturnable, Returnable, Plain
  <2>2. /\ size # 0 => ret # NULL
        /\ size = 0 /\ ptr # NULL => ret = NULL
    <3>1. NULL \notin MallocStarts
      BY LibcAssumption DEF NULL
    <3> QED
      BY <1>2, <2>1, <3>1, MemoryGiven DEF LibcRealloc, AllocationsSucceed
  <2> QED
    BY <1>2, <2>2
<1>3. CASE ptr = NULL /\ Allocate(size, ret) /\ kept' = Hold(kept, ret, size)
  BY <1>3, MemoryGiven, NothingErased
<1>4. CASE size = 0 /\ ret = NULL /\ kept' = MapErase(kept, ptr)
  BY <1>4 DEF Hold
<1> QED
  BY <1>1, <1>2, <1>3, <1>4 DEF hu_realloc, ReallocPassedOn

LEMMA ReallocCalls ==
  ASSUME CoreInv, OneThread, AllocationsSucceed,
         NEW ptr \in Reallocable, NEW size \in Sizes, realloc(ptr, size)
  PROVE  /\ MemoryInv'
         /\ \E ret \in Results : /\ ret # NULL \/ size = 0
                                 /\ Calls(ptr, ret, size, ptr # NULL)
                                 /\ Served(ptr, ret, size, ptr # NULL)
                                 /\ HeapCall(ptr, ret, size)
<1>1. /\ ptr \in Resizable /\ ptr \in Results /\ ptr \notin DOMAIN dangling
      /\ ptr \in DOMAIN live \/ ptr = NULL
      /\ size \in Nat
  BY HuMallocAssumption, NothingErased
     DEF Reallocable, Resizable, Results, CoreInv, Owned, MemoryInv, AllocatorInv, AddressMap
<1>2. PICK ret \in Results :
        /\ Lock
        /\ hu_realloc(ptr, size, ret)
        /\ todo' = When(ptr # NULL, FreeEvent(ptr)) \o When(size # 0, MallocEvent(ret, size))
        /\ UNCHANGED double_frees
        /\ IF ret = NULL /\ size # 0
             THEN UNCHANGED <<live, unlogged, dangling>>
             ELSE LET others == MapErase(live, ptr)
                      rest == MapErase(dangling, ret)
                  IN  /\ live' = Hold(others, ret, size)
                      /\ unlogged' = (unlogged \ {ptr})
                           \cup (IF stage = "loading" /\ ret # NULL THEN {ret} ELSE {})
                      /\ dangling' = IF ptr \in DOMAIN live \ unlogged /\ ptr # ret
                                       THEN MapPut(rest, ptr, FALSE) ELSE rest
  BY DEF realloc
<1>3. MemoryInv' /\ NewTo(DOMAIN kept \ {ptr}, ret)
  BY <1>1, <1>2, ReallocMemory, ReallocKeeps DEF CoreInv, MemoryInv
<1>4. /\ size # 0 => ret # NULL
      /\ kept' = Hold(MapErase(kept, ptr), ret, size)
      /\ Idle /\ UNCHANGED setupVars
  BY <1>1, <1>2, ReallocGives DEF hu_realloc
<1>5. /\ live' = Hold(MapErase(live, ptr), ret, size)
      /\ unlogged' = (unlogged \ {ptr})
           \cup (IF stage = "loading" /\ ret # NULL THEN {ret} ELSE {})
      /\ dangling' = IF ptr \in DOMAIN live \ unlogged /\ ptr # ret
                       THEN MapPut(MapErase(dangling, ret), ptr, FALSE)
                       ELSE MapErase(dangling, ret)
  BY <1>2, <1>4
<1>6. /\ DOMAIN dangling' = (DOMAIN dangling \cup ({ptr} \cap (DOMAIN live \ unlogged))) \ {ret}
      /\ \A p \in DOMAIN dangling' :
           dangling'[p] = IF p = ptr THEN p \in DOMAIN dangling ELSE dangling[p]
  <2>1. CASE ptr \in DOMAIN live \ unlogged /\ ptr # ret
    <3>1. dangling' = MapPut(MapErase(dangling, ret), ptr, FALSE)
      BY <1>5, <2>1
    <3>2. DOMAIN dangling' = (DOMAIN dangling \ {ret}) \cup {ptr}
      BY <3>1 DEF MapPut, MapErase
    <3>3. \A p \in DOMAIN dangling' : dangling'[p] = IF p = ptr THEN FALSE ELSE dangling[p]
      BY <3>1 DEF MapPut, MapErase
    <3>4. DOMAIN dangling' = (DOMAIN dangling \cup ({ptr} \cap (DOMAIN live \ unlogged))) \ {ret}
      BY <2>1, <3>2
    <3>5. (ptr \in DOMAIN dangling) = FALSE
      BY <1>1
    <3>6. \A p \in DOMAIN dangling' :
            dangling'[p] = IF p = ptr THEN p \in DOMAIN dangling ELSE dangling[p]
      BY <3>3, <3>5, Zenon
    <3> QED
      BY <3>4, <3>6
  <2>2. CASE ~(ptr \in DOMAIN live \ unlogged /\ ptr # ret)
    <3>1. dangling' = MapErase(dangling, ret)
      BY <1>5, <2>2
    <3>2. DOMAIN dangling' = DOMAIN dangling \ {ret}
      BY <3>1 DEF MapErase
    <3>3. \A p \in DOMAIN dangling' : dangling'[p] = dangling[p]
      BY <3>1 DEF MapErase
    <3> QED
      BY <1>1, <2>2, <3>2, <3>3
  <2> QED
    BY <2>1, <2>2
<1>7. double_frees' = [all |-> double_frees.all + Often(ptr \in DOMAIN dangling),
                       second |-> double_frees.second
                                    + Often(ptr \in DOMAIN dangling /\ ~dangling[ptr])]
  <2>1. double_frees \in [all : Nat, second : Nat] /\ double_frees' = double_frees
    BY <1>2 DEF CoreInv, Owned
  <2> QED
    BY <1>1, <2>1 DEF Often
<1>8. todo' = EventsOf(ptr # NULL, ptr, ret, size)
  BY <1>2, Zenon DEF EventsOf
<1>9. Calls(ptr, ret, size, ptr # NULL)
  BY <1>2, <1>3, <1>4, <1>5, <1>6, <1>7, <1>8, LockIs DEF Calls, setupVars
<1>10. Served(ptr, ret, size, ptr # NULL)
  BY <1>1, <1>4 DEF Served
<1>11. HeapCall(ptr, ret, size)
  BY <1>2 DEF HeapCall
<1> QED
  BY <1>3, <1>4, <1>9, <1>10, <1>11

\* free, unless libc stops the process over it.
LEMMA FreeCalls ==
  ASSUME CoreInv, OneThread, NEW ptr \in Freeable, free(ptr),
         ptr \in DOMAIN dangling \ hu_user_addrs => libc_aborted'
  PROVE  \/ Stopped' /\ stage' = stage
         \/ /\ MemoryInv' /\ Calls(ptr, NULL, 0, TRUE) /\ Served(ptr, NULL, 0, TRUE)
            /\ HeapCall(ptr, NULL, 0)
<1>1. /\ ptr \in Results
      /\ ptr \in DOMAIN live \cup DOMAIN dangling \cup {NULL}
      /\ live = kept
  BY DEF Freeable, Results, CoreInv, Owned, MemoryInv, AllocatorInv, AddressMap
<1>2. /\ Idle /\ UNCHANGED setupVars
      /\ pending_free = NULL /\ pending_free' = NULL
      /\ kept' = MapErase(kept, ptr)
      /\ Lock /\ hu_free(ptr)
  BY DEF free, hu_free, Idle
<1>3. CASE libc_aborted'
  <2>1. stage' = stage /\ stage # "ended"
    BY <1>2, LockIs DEF processVars
  <2> QED
    BY <1>2, <1>3, <2>1 DEF Stopped
<1>4. CASE ~libc_aborted'
  <2>1. ptr \in Resizable \cup FreedBefore
    BY <1>1, <1>4 DEF Resizable, FreedBefore, CoreInv, Owned
  <2>2. MemoryInv'
    BY <1>2, <2>1, FreeMemory, FreeKeeps DEF CoreInv, MemoryInv
  <2>3. /\ live' = Hold(MapErase(live, ptr), NULL, 0)
        /\ kept' = Hold(MapErase(kept, ptr), NULL, 0)
        /\ unlogged' = (unlogged \ {ptr})
             \cup (IF stage = "loading" /\ NULL # NULL THEN {NULL} ELSE {})
    BY <1>2 DEF free, Hold
  <2>4. /\ DOMAIN dangling' =
             (DOMAIN dangling \cup ({ptr} \cap (DOMAIN live \ unlogged))) \ {NULL}
        /\ \A p \in DOMAIN dangling' :
             dangling'[p] = IF p = ptr THEN p \in DOMAIN dangling ELSE dangling[p]
    <3>1. NULL \notin DOMAIN dangling /\ NULL \notin DOMAIN live
      BY <1>1, NothingErased
    <3>2. dangling' = IF ptr \in DOMAIN dangling \/ ptr \in DOMAIN live \ unlogged
                        THEN MapPut(dangling, ptr, ptr \in DOMAIN dangling) ELSE dangling
      BY DEF free
    <3> QED
      BY <3>1, <3>2 DEF MapPut
  <2>5. double_frees' = [all |-> double_frees.all + Often(ptr \in DOMAIN dangling),
                         second |-> double_frees.second
                                      + Often(ptr \in DOMAIN dangling /\ ~dangling[ptr])]
    BY DEF free, Often
  <2>6. todo' = EventsOf(TRUE, ptr, NULL, 0)
    <3>1. todo' = <<FreeEvent(ptr)>>
      BY DEF free
    <3> QED
      BY <3>1, EventsOfCall
  <2>7. Calls(ptr, NULL, 0, TRUE)
    BY <1>2, <2>3, <2>4, <2>5, <2>6, LockIs DEF Calls, NewTo, setupVars
  <2>8. Served(ptr, NULL, 0, TRUE)
    BY DEF Served
  <2>9. HeapCall(ptr, NULL, 0)
    BY <1>2 DEF HeapCall
  <2> QED
    BY <2>2, <2>7, <2>8, <2>9
<1> QED
  BY <1>3, <1>4

-----------------------------------------------------------------------------
(***************************************************************************)
(* Logging an event.                                                       *)
(***************************************************************************)

\* The first of the events is a free, which is the only one, or an allocation,
\* which is the last.
FreeComesFirst(p) ==
  /\ p \in Results
  /\ Head(todo) = FreeEvent(p)
  /\ ToFree = {p} /\ ToFree' = {} /\ ToRecord' = ToRecord

MallocComesFirst(q) ==
  /\ q \in DOMAIN live
  /\ Head(todo) = MallocEvent(q, live[q])
  /\ ToFree = {} /\ ToFree' = {} /\ ToRecord = {q} /\ ToRecord' = {}

LEMMA EventFields ==
  ASSUME NEW p, NEW n
  PROVE  /\ FreeEvent(p).event = "free" /\ FreeEvent(p).ptr = p
         /\ MallocEvent(p, n).event = "malloc"
         /\ MallocEvent(p, n).ptr = p /\ MallocEvent(p, n).size = n
  BY DEF FreeEvent, MallocEvent

LEMMA NextEvent ==
  ASSUME Events, todo # <<>>, todo' = Tail(todo), live' = live
  PROVE  /\ Events'
         /\ todo' = <<>> \/ Head(todo').event = "malloc"
         /\ (\E p : FreeComesFirst(p)) \/ (\E q : MallocComesFirst(q))
<1>1. CASE \E p \in Results : todo = <<FreeEvent(p)>>
  <2> PICK p \in Results : todo = <<FreeEvent(p)>>
    BY <1>1
  <2>1. Head(todo) = FreeEvent(p) /\ todo' = <<>> /\ ToFree = {p} /\ ToRecord = {}
    BY OneFree DEF ToFree, ToRecord
  <2>2. ToFree' = {} /\ ToRecord' = {}
    BY <2>1, NoEvents DEF ToFree, ToRecord
  <2> QED
    BY <2>1, <2>2 DEF Events, FreeComesFirst
<1>2. CASE \E q \in DOMAIN live : todo = <<MallocEvent(q, live[q])>>
  <2> PICK q \in DOMAIN live : todo = <<MallocEvent(q, live[q])>>
    BY <1>2
  <2>1. /\ Head(todo) = MallocEvent(q, live[q]) /\ todo' = <<>>
        /\ ToFree = {} /\ ToRecord = {q}
    BY OneMalloc DEF ToFree, ToRecord
  <2>2. ToFree' = {} /\ ToRecord' = {}
    BY <2>1, NoEvents DEF ToFree, ToRecord
  <2> QED
    BY <2>1, <2>2 DEF Events, MallocComesFirst
<1>3. CASE \E p \in Addresses, q \in DOMAIN live : todo = FreeThenMalloc(p, q, live[q])
  <2> PICK p \in Addresses, q \in DOMAIN live : todo = FreeThenMalloc(p, q, live[q])
    BY <1>3
  <2>1. /\ Head(todo) = FreeEvent(p) /\ todo' = <<MallocEvent(q, live[q])>>
        /\ ToFree = {p} /\ ToRecord = {q}
    BY FreeAndMalloc DEF ToFree, ToRecord
  <2>2. /\ Head(todo') = MallocEvent(q, live[q])
        /\ ToFree' = {} /\ ToRecord' = {q}
    BY <2>1, OneMalloc DEF ToFree, ToRecord
  <2>3. Events'
    BY <2>1 DEF Events
  <2>4. Head(todo').event = "malloc"
    <3>1. MallocEvent(q, live[q]).event = "malloc"
      BY EventFields
    <3> QED
      BY <2>2, <3>1, Zenon
  <2>5. FreeComesFirst(p)
    BY <2>1, <2>2 DEF FreeComesFirst, Results
  <2> QED
    BY <2>3, <2>4, <2>5
<1> QED
  BY <1>1, <1>2, <1>3 DEF Events

LEMMA MallocLogged ==
  ASSUME NEW ptr, NEW size, NEW stack, log_event_malloc(ptr, size, stack), logging_enabled
  PROVE  /\ DOMAIN allocations' =
              IF size >= log_config.minleak THEN DOMAIN allocations \cup {ptr}
              ELSE DOMAIN allocations
         /\ size >= log_config.minleak => allocations'[ptr].size = size
         /\ \A p \in DOMAIN allocations : p # ptr => allocations'[p] = allocations[p]
         /\ size >= log_config.minleak \/ allocations' = allocations
         /\ DOMAIN freed_allocations' =
              IF KeepsFreed THEN DOMAIN freed_allocations \ {ptr} ELSE DOMAIN freed_allocations
         /\ UNCHANGED <<log_config, logging_enabled, total_invalid_dealloc_count, summary>>
  BY DEF log_event_malloc, LogRecorded, MapPut, MapErase, hu_allocinfo_t, deallocVars

LEMMA FreeLogged ==
  ASSUME NEW ptr, NEW stack, NEW opened, log_event_free(ptr, stack, opened), logging_enabled
  PROVE  /\ DOMAIN allocations' = DOMAIN allocations \ {ptr}
         /\ \A p \in DOMAIN allocations' : allocations'[p] = allocations[p]
         /\ UNCHANGED <<log_config, logging_enabled, summary>>
<1>1. CASE ptr \in DOMAIN allocations /\ LogFreed(ptr, stack)
  BY <1>1 DEF log_event_free, LogFreed, MapErase
<1>2. CASE ptr \notin DOMAIN allocations /\ UNCHANGED allocations
  BY <1>2 DEF log_event_free
<1> QED
  BY <1>1, <1>2 DEF log_event_free, LogDoubleFree, LogUnknownFree

LEMMA LogEventIs ==
  ASSUME OneThread, LogEvent
  PROVE  /\ todo # <<>> /\ Idle /\ todo' = Tail(todo)
         /\ stage \in {"loading", "running"} /\ reporting = "no"
         /\ UNCHANGED <<mallocVars, processVars, reportVars, calls, programVars>>
         /\ \E stack \in Stacks, opened \in BOOLEAN :
              \/ /\ Head(todo).event = "malloc"
                 /\ log_event_malloc(Head(todo).ptr, Head(todo).size, stack)
              \/ /\ Head(todo).event = "free"
                 /\ log_event_free(Head(todo).ptr, stack, opened)
  BY DEF OneThread, LogEvent, ProgramRuns

\* An event that is logged was the ledger's lag, and is no longer.
LEMMA LogEventKeepsCore ==
  ASSUME CoreInv, OneThread, LogEvent
  PROVE  CoreInv'
<1>1. /\ todo # <<>> /\ todo' = Tail(todo)
      /\ stage \in {"loading", "running"} /\ reporting = "no"
      /\ UNCHANGED <<mallocVars, hu_env, stage, reporting, live, unlogged, dangling,
                     double_frees, kept, hu_malloc_inited>>
  BY LogEventIs DEF processVars, reportVars, programVars, mallocVars, setupVars
<1>2. MemoryInv'
  BY <1>1, NextMemory DEF CoreInv
<1>3. /\ Events'
      /\ (\E p : FreeComesFirst(p)) \/ (\E q : MallocComesFirst(q))
  BY <1>1, NextEvent DEF CoreInv
<1>4. ToFree' = {} /\ ToRecord' \subseteq ToRecord
  BY <1>3 DEF FreeComesFirst, MallocComesFirst
<1>5. PICK stack \in Stacks, opened \in BOOLEAN :
        \/ /\ Head(todo).event = "malloc"
           /\ log_event_malloc(Head(todo).ptr, Head(todo).size, stack)
        \/ /\ Head(todo).event = "free"
           /\ log_event_free(Head(todo).ptr, stack, opened)
  BY LogEventIs
<1>6. /\ UNCHANGED <<log_config, logging_enabled, summary>>
      /\ ~logging_enabled => UNCHANGED <<allocations, freed_allocations>>
  BY <1>5 DEF log_event_malloc, log_event_free, ledgerVars
<1>7. Environment' /\ Phase' /\ Owned' /\ RecordedIsHeld' /\ Owed' = Owed
  BY <1>1, <1>4, <1>6
     DEF CoreInv, Environment, Phase, Owned, RecordedIsHeld, Owed
<1>8. BeforeInit' /\ SummaryIsLedger'
  BY <1>1, <1>6 DEF CoreInv, BeforeInit, SummaryIsLedger, Phase
<1>9. LedgerSoFar'
  <2>1. CASE stage = "loading"
    <3>1. Owed = {} /\ DOMAIN allocations = {} /\ UNCHANGED allocations
      BY <1>6, <2>1 DEF Owed, CoreInv, BeforeInit, Phase
    <3> QED
      BY <1>7, <3>1 DEF LedgerSoFar
  <2>2. CASE stage = "running" /\ \E p : FreeComesFirst(p)
    <3> PICK p : FreeComesFirst(p)
      BY <2>2
    <3>1. Head(todo).event = "free" /\ Head(todo).ptr = p /\ logging_enabled
      BY <1>1, <2>2, EventFields DEF FreeComesFirst, CoreInv, Phase
    <3>2. log_event_free(p, stack, opened)
      BY <1>5, <3>1
    <3>3. /\ DOMAIN allocations' = DOMAIN allocations \ {p}
          /\ \A q \in DOMAIN allocations' : allocations'[q] = allocations[q]
      BY <3>1, <3>2, FreeLogged
    <3>4. ToFree = {p} /\ ToFree' = {} /\ ToRecord' = ToRecord
      BY DEF FreeComesFirst
    <3> QED
      BY <1>1, <1>7, <3>3, <3>4 DEF CoreInv, LedgerSoFar
  <2>3. CASE stage = "running" /\ \E q : MallocComesFirst(q)
    <3> PICK q : MallocComesFirst(q)
      BY <2>3
    <3>1. /\ Head(todo).event = "malloc" /\ Head(todo).ptr = q /\ Head(todo).size = live[q]
          /\ logging_enabled
      BY <1>1, <2>3, EventFields DEF MallocComesFirst, CoreInv, Phase
    <3>2. log_event_malloc(q, live[q], stack)
      BY <1>5, <3>1
    <3>3. ToFree = {} /\ ToFree' = {} /\ ToRecord = {q} /\ ToRecord' = {}
      BY DEF MallocComesFirst
    <3>4. /\ DOMAIN allocations = Owed \ {q}
          /\ \A p \in Owed \ {q} : allocations[p].size = live[p]
      BY <3>3 DEF CoreInv, LedgerSoFar
    <3>5. q \in Owed <=> live[q] >= log_config.minleak
      <4>1. q \in DOMAIN live /\ live[q] > 0 /\ q \notin unlogged
        BY <2>3, <3>3 DEF CoreInv, RecordedIsHeld, MallocComesFirst
      <4>2. log_config.minleak = hu_env.minsize
        BY DEF CoreInv, Environment, LogConfigOf
      <4> QED
        BY <4>1, <4>2 DEF Owed
    <3>6. /\ DOMAIN allocations' = Owed
          /\ \A p \in Owed : allocations'[p].size = live[p]
      <4>1. CASE live[q] >= log_config.minleak
        <5>1. /\ DOMAIN allocations' = DOMAIN allocations \cup {q}
              /\ allocations'[q].size = live[q]
              /\ \A p \in DOMAIN allocations : p # q => allocations'[p] = allocations[p]
          BY <3>1, <3>2, <4>1, MallocLogged
        <5> QED
          BY <3>4, <3>5, <4>1, <5>1
      <4>2. CASE ~(live[q] >= log_config.minleak)
        <5>1. allocations' = allocations
          BY <3>1, <3>2, <4>2, MallocLogged
        <5> QED
          BY <3>4, <3>5, <4>2, <5>1
      <4> QED
        BY <4>1, <4>2
    <3> QED
      BY <1>1, <1>7, <3>3, <3>6 DEF LedgerSoFar
  <2> QED
    BY <1>1, <1>3, <2>1, <2>2, <2>3
<1> QED
  BY <1>2, <1>3, <1>7, <1>8, <1>9 DEF CoreInv

-----------------------------------------------------------------------------
(***************************************************************************)
(* The other steps leave both the program's blocks and the ledger alone.   *)
(***************************************************************************)
LEMMA UntouchedKeepsCore ==
  ASSUME CoreInv, MemoryInv',
         UNCHANGED <<hu_env, log_config, live, unlogged, dangling, double_frees, kept, todo,
                     allocations>>,
         stage' = stage \/ todo = <<>>,
         Phase', BeforeInit', SummaryIsLedger'
  PROVE  CoreInv'
<1>1. ToFree' = ToFree /\ ToRecord' = ToRecord /\ Owed' = Owed
  BY DEF ToFree, ToRecord, Owed
<1>2. Environment' /\ Owned' /\ Events' /\ LedgerSoFar'
  BY <1>1 DEF CoreInv, Environment, Owned, Events, LedgerSoFar
<1>3. RecordedIsHeld'
  <2>1. CASE stage' = stage
    BY <1>1, <2>1 DEF CoreInv, RecordedIsHeld
  <2>2. CASE todo = <<>>
    BY <1>1, <2>2, NoEvents DEF RecordedIsHeld, ToRecord
  <2> QED
    BY <2>1, <2>2
<1> QED
  BY <1>2, <1>3 DEF CoreInv

LEMMA LifeCycleKeepsCore ==
  ASSUME CoreInv, OneThread,
         \/ ReportBegin \/ ReportSummary \/ ReportEnd
         \/ \E addr \in Addresses : Fault(addr)
         \/ Exit \/ FiniSilence \/ FiniSummary
  PROVE  CoreInv'
<1>1. UNCHANGED <<mallocVars, hu_env, log_config, live, unlogged, dangling, double_frees,
                  kept, todo, allocations, freed_allocations>>
  BY DEF ReportBegin, ReportSummary, ReportEnd, Fault, Exit, FiniSilence, FiniSummary,
         processVars, programVars, mallocVars, log_enable, log_summary, hu_sig_handler,
         logVars, ledgerVars
<1>2. MemoryInv'
  BY <1>1, NextMemory DEF CoreInv
<1>3. Idle' = Idle /\ hu_malloc_inited' = hu_malloc_inited
  BY <1>1 DEF mallocVars, setupVars, libcVars, quarantineVars, Idle, OverLimit
<1>4. Phase'
  <2>1. CASE ReportBegin \/ ReportSummary \/ ReportEnd
    BY <1>1, <1>3, <2>1
       DEF CoreInv, Phase, ReportBegin, ReportSummary, ReportEnd, processVars, log_enable,
           log_summary
  <2>2. CASE \E addr \in Addresses : Fault(addr)
    BY <1>1, <1>3, <2>2 DEF CoreInv, Phase, Fault, reportVars
  <2>3. CASE Exit
    BY <1>1, <1>3, <2>3 DEF CoreInv, Phase, Exit, reportVars, OneThread, ProgramRuns
  <2>4. CASE FiniSilence \/ FiniSummary
    BY <1>1, <1>3, <2>4 DEF CoreInv, Phase, FiniSilence, FiniSummary, reportVars
  <2> QED
    BY <2>1, <2>2, <2>3, <2>4
<1>5. /\ stage = "loading" => FALSE
      /\ stage' # "loading"
      /\ stage' = stage \/ todo = <<>>
      /\ stage' = "ended" => FiniSummary
  BY DEF CoreInv, Phase, ReportBegin, ReportSummary, ReportEnd, Fault, Exit, FiniSilence,
         FiniSummary, processVars, OneThread
<1>6. BeforeInit'
  BY <1>5 DEF BeforeInit
<1>7. SummaryIsLedger'
  BY <1>1, <1>5 DEF SummaryIsLedger, FiniSummary, log_summary, Opens
<1> QED
  BY <1>1, <1>2, <1>4, <1>5, <1>6, <1>7, UntouchedKeepsCore

LEMMA EvictionKeepsCore ==
  ASSUME CoreInv, FinishRealloc \/ Evict
  PROVE  CoreInv'
<1>1. /\ UNCHANGED <<hu_env, stage, reporting, log_config, logging_enabled, live, unlogged,
                     dangling, double_frees, kept, todo, allocations, summary,
                     hu_malloc_inited>>
      /\ DOMAIN freed_allocations' \subseteq DOMAIN freed_allocations
      /\ ReallocFree \/ EvictOldest
  BY DEF FinishRealloc, Evict, ReallocFree, EvictOldest, hu_log_remove_freed_allocation,
         processVars, programVars, reportVars, logVars, ledgerVars, setupVars, MapErase
<1>2. MemoryInv'
  BY <1>1, NextMemory DEF CoreInv, NextHuMalloc
<1>3. ~Idle
  BY <1>1 DEF ReallocFree, EvictOldest, Idle
<1>4. Phase' /\ BeforeInit' /\ SummaryIsLedger'
  BY <1>1, <1>3 DEF CoreInv, Phase, BeforeInit, SummaryIsLedger
<1> QED
  BY <1>1, <1>2, <1>4, UntouchedKeepsCore

LEMMA InitCallKeepsCore ==
  ASSUME CoreInv, hu_init
  PROVE  CoreInv'
<1>1. /\ stage = "loading" /\ todo = <<>> /\ stage' = "running" /\ logging_enabled'
      /\ UNCHANGED <<hu_env, reporting, log_config, live, unlogged, dangling, double_frees,
                     todo, allocations, summary, kept>>
  BY DEF hu_init, hu_malloc_init, log_enable, reportVars, programVars, ledgerVars, mallocVars
<1>2. MemoryInv'
  <2>1. CASE UNCHANGED mallocVars
    BY <2>1, NextMemory DEF CoreInv
  <2>2. CASE hu_malloc_init(MallocConfigOf(hu_env))
    <3>1. MallocConfigOf(hu_env) \in ConfigType
      BY HeapUsageAssumption DEF CoreInv, Environment, MallocConfigOf, Tool, ConfigType
    <3> QED
      BY <2>2, <3>1, InitCallKeeps, InitCallMemory DEF CoreInv, MemoryInv
  <2> QED
    BY <2>1, <2>2 DEF hu_init
<1>3. Phase' /\ BeforeInit' /\ SummaryIsLedger'
  BY <1>1 DEF CoreInv, Phase, BeforeInit, SummaryIsLedger
<1> QED
  BY <1>1, <1>2, <1>3, UntouchedKeepsCore

LEMMA InitCore == Init => CoreInv
<1> SUFFICES ASSUME Init PROVE CoreInv
  OBVIOUS
<1>1. MemoryInv
  BY InitMemory DEF Init
<1>2. /\ stage = "loading" /\ reporting = "no" /\ ~logging_enabled /\ ~hu_malloc_inited
      /\ todo = <<>> /\ unlogged = {}
      /\ DOMAIN live = {} /\ DOMAIN dangling = {}
      /\ DOMAIN allocations = {} /\ DOMAIN freed_allocations = {}
      /\ live = kept
      /\ double_frees \in [all : Nat, second : Nat]
      /\ Environment
  BY DEF Init, InitHuMalloc, InitHuLog, NoEntries, Environment
<1>3. ToFree = {} /\ ToRecord = {} /\ Owed = {}
  BY <1>2, NoEvents DEF ToFree, ToRecord, Owed
<1>4. Phase /\ BeforeInit /\ Owned /\ Events /\ RecordedIsHeld /\ LedgerSoFar
      /\ SummaryIsLedger
  BY <1>2, <1>3
     DEF Phase, BeforeInit, Owned, Events, RecordedIsHeld, LedgerSoFar, SummaryIsLedger
<1> QED
  BY <1>1, <1>2, <1>4 DEF CoreInv

-----------------------------------------------------------------------------
(***************************************************************************)
(* Every step is one of these.                                             *)
(***************************************************************************)
ACall ==
  /\ MemoryInv'
  /\ \E old, ret \in Results, size \in Nat, freed \in BOOLEAN :
       /\ Calls(old, ret, size, freed)
       /\ Served(old, ret, size, freed)
       /\ NoEmptyRequests /\ ret # NULL => size # 0
       /\ HeapCall(old, ret, size) /\ (size \in Requests \/ ret = NULL)

\* A second free that libc notices.
Aborted == Stopped' /\ \E ptr \in Freeable : free(ptr)

LifeCycle ==
  \/ ReportBegin \/ ReportSummary \/ ReportEnd
  \/ \E addr \in Addresses : Fault(addr)
  \/ Exit \/ FiniSilence \/ FiniSummary

LEMMA StepIs ==
  ASSUME CoreInv, OneThread, AllocationsSucceed, Next, Noticed
  PROVE  ACall \/ Aborted \/ LogEvent \/ FinishRealloc \/ Evict \/ hu_init \/ LifeCycle
<1>1. ASSUME NEW size \in Sizes, malloc(size) PROVE ACall
  <2>1. size \in Nat /\ (NoEmptyRequests => size # 0) /\ NULL \in Results
    BY HuMallocAssumption DEF NoEmptyRequests, Results
  <2>2. MemoryInv' /\ \E ret \in Results : /\ ret # NULL
                                           /\ Calls(NULL, ret, size, FALSE)
                                           /\ Served(NULL, ret, size, FALSE)
                                           /\ HeapCall(NULL, ret, size)
    BY <1>1, MallocCalls
  <2>3. size \in Requests
    BY DEF Requests
  <2> QED
    BY <2>1, <2>2, <2>3, Zenon DEF ACall
<1>2. ASSUME NEW nmemb \in Counts, NEW size \in Sizes, calloc(nmemb, size) PROVE ACall
  <2>1. nmemb \in Nat /\ size \in Nat /\ nmemb * size \in Nat /\ NULL \in Results
    BY HuMallocAssumption DEF Results
  <2>2. NoEmptyRequests => nmemb * size # 0
    BY <2>1 DEF NoEmptyRequests
  <2> DEFINE total == nmemb * size
  <2>3. MemoryInv' /\ \E ret \in Results : /\ ret # NULL
                                           /\ Calls(NULL, ret, total, FALSE)
                                           /\ Served(NULL, ret, total, FALSE)
                                           /\ HeapCall(NULL, ret, total)
    BY <1>2, CallocCalls
  <2>4. total \in Nat /\ (NoEmptyRequests => total # 0) /\ total \in Requests
    BY <2>1, <2>2 DEF Requests
  <2> HIDE DEF total
  <2> PICK ret \in Results : /\ Calls(NULL, ret, total, FALSE) /\ Served(NULL, ret, total, FALSE)
                             /\ HeapCall(NULL, ret, total)
    BY <2>3
  <2>5. NoEmptyRequests /\ ret # NULL => total # 0
    BY <2>4
  <2>6. FALSE \in BOOLEAN
    OBVIOUS
  <2>7. \E old, got \in Results, n \in Nat, freed \in BOOLEAN :
          /\ Calls(old, got, n, freed) /\ Served(old, got, n, freed)
          /\ NoEmptyRequests /\ got # NULL => n # 0
          /\ HeapCall(old, got, n) /\ (n \in Requests \/ got = NULL)
    <3>1. NULL \in Results /\ total \in Nat
      BY <2>1, <2>4
    <3> QED
      BY <2>4, <2>5, <2>6, <3>1, Zenon
  <2> QED
    BY <2>3, <2>7, SMT DEF ACall
<1>3. ASSUME NEW ptr \in Reallocable, NEW size \in Sizes, realloc(ptr, size) PROVE ACall
  <2>1. size \in Nat /\ (NoEmptyRequests => size # 0)
    BY HuMallocAssumption DEF NoEmptyRequests
  <2>2. ptr \in Results
    BY DEF Reallocable, Results, CoreInv, Owned, MemoryInv, AllocatorInv, AddressMap
  <2> DEFINE given == ptr # NULL
  <2>3. MemoryInv' /\ \E ret \in Results : /\ ret # NULL \/ size = 0
                                           /\ Calls(ptr, ret, size, given)
                                           /\ Served(ptr, ret, size, given)
                                           /\ HeapCall(ptr, ret, size)
    BY <1>3, ReallocCalls
  <2>4. given \in BOOLEAN
    OBVIOUS
  <2>5. size \in Requests
    BY DEF Requests
  <2> HIDE DEF given
  <2> QED
    BY <2>1, <2>2, <2>3, <2>4, <2>5 DEF ACall
<1>4. ASSUME NEW ptr \in Freeable, free(ptr) PROVE ACall \/ Aborted
  <2>1. ptr \in Results /\ NULL \in Results
    BY DEF Freeable, Results, CoreInv, Owned, MemoryInv, AllocatorInv, AddressMap
  <2>2. ptr \in DOMAIN dangling \ hu_user_addrs => libc_aborted'
    BY <1>4 DEF Noticed
  <2>3. \/ Stopped'
        \/ /\ MemoryInv' /\ Calls(ptr, NULL, 0, TRUE) /\ Served(ptr, NULL, 0, TRUE)
           /\ HeapCall(ptr, NULL, 0)
    BY <1>4, <2>2, FreeCalls
  <2> QED
    BY <1>4, <2>1, <2>3 DEF ACall, Aborted
<1> QED
  BY <1>1, <1>2, <1>3, <1>4 DEF Next, LifeCycle

\* Once libc has aborted the process only the reports and hu_fini's first step
\* are left, and these look at nothing.
LEMMA StoppedStays ==
  ASSUME Stopped, OneThread, [Next]_vars
  PROVE  /\ Stopped'
         /\ UNCHANGED <<mallocVars, hu_env, todo, live, unlogged, dangling, double_frees,
                        fault, ledgerVars, deallocVars, accessVars>>
         /\ stage' # "running" \/ stage' = stage
<1>1. ~Idle /\ libc_aborted /\ pending_free = NULL /\ stage # "ended"
  BY DEF Stopped, Idle
<1>2. CASE ReportBegin \/ ReportSummary \/ ReportEnd \/ FiniSilence
  <2>1. /\ UNCHANGED <<mallocVars, hu_env, todo, live, unlogged, dangling, double_frees, fault>>
        /\ stage' = stage \/ stage' = "silent"
    BY <1>2 DEF ReportBegin, ReportSummary, ReportEnd, FiniSilence, processVars, programVars
  <2>2. UNCHANGED <<ledgerVars, deallocVars, accessVars>>
    BY <1>2 DEF ReportBegin, ReportSummary, ReportEnd, FiniSilence, log_enable, log_summary
  <2>3. UNCHANGED <<libc_aborted, pending_free>>
    BY <2>1 DEF mallocVars, libcVars
  <2> QED
    BY <1>1, <2>1, <2>2, <2>3 DEF Stopped
<1>3. CASE UNCHANGED vars
  BY <1>1, <1>3 DEF Stopped, vars, processVars, programVars, mallocVars, libcVars, logVars
<1>4. ~(hu_init \/ LogEvent \/ FinishRealloc \/ Evict \/ Exit \/ FiniSummary)
  BY <1>1 DEF hu_init, LogEvent, FinishRealloc, ReallocFree, Evict, EvictOldest, Exit,
              FiniSummary, OneThread
<1>5. ~\E size \in Sizes : malloc(size)
  BY <1>1 DEF malloc, hu_malloc
<1>6. ~\E nmemb \in Counts, size \in Sizes : calloc(nmemb, size)
  BY <1>1 DEF calloc, hu_calloc
<1>7. ~\E ptr \in Freeable : free(ptr)
  BY <1>1 DEF free, hu_free
<1>8. ~\E ptr \in Reallocable, size \in Sizes : realloc(ptr, size)
  BY <1>1 DEF realloc, hu_realloc
<1>9. ~\E addr \in Addresses : Fault(addr)
  BY <1>1 DEF Fault
<1> QED
  BY <1>2, <1>3, <1>4, <1>5, <1>6, <1>7, <1>8, <1>9 DEF Next

LEMMA StutterKeepsCore ==
  ASSUME CoreInv, UNCHANGED vars
  PROVE  CoreInv'
<1>1. /\ UNCHANGED mallocVars
      /\ UNCHANGED <<hu_env, stage, reporting, log_config, logging_enabled, live, unlogged,
                     dangling, double_frees, kept, todo, allocations, freed_allocations,
                     summary, hu_malloc_inited>>
  BY DEF vars, mallocVars, setupVars, processVars, reportVars, programVars, logVars, ledgerVars
<1>2. MemoryInv'
  BY <1>1, NextMemory DEF CoreInv
<1>3. Idle' = Idle
  BY <1>1 DEF mallocVars, libcVars, setupVars, quarantineVars, Idle, OverLimit
<1>4. Phase' /\ BeforeInit' /\ SummaryIsLedger'
  BY <1>1, <1>3 DEF CoreInv, Phase, BeforeInit, SummaryIsLedger
<1> QED
  BY <1>1, <1>2, <1>4, UntouchedKeepsCore

LEMMA NextBlocks ==
  ASSUME BlocksInv, OneThread, AllocationsSucceed, [Next]_vars, [Noticed]_vars
  PROVE  BlocksInv'
<1>1. CASE Stopped
  BY <1>1, StoppedStays DEF BlocksInv
<1>2. CASE CoreInv /\ UNCHANGED vars
  BY <1>2, StutterKeepsCore DEF BlocksInv
<1>3. CASE CoreInv /\ Next /\ Noticed
  <2>1. CASE ACall
    BY <1>3, <2>1, CallKeepsCore DEF ACall, BlocksInv
  <2>2. CASE Aborted
    BY <2>2 DEF Aborted, BlocksInv
  <2>3. CASE LogEvent \/ FinishRealloc \/ Evict \/ hu_init \/ LifeCycle
    BY <1>3, <2>3, LogEventKeepsCore, EvictionKeepsCore, InitCallKeepsCore,
       LifeCycleKeepsCore DEF LifeCycle, BlocksInv
  <2> QED
    BY <1>3, <2>1, <2>2, <2>3, StepIs
<1> QED
  BY <1>1, <1>2, <1>3 DEF BlocksInv

\* The ledger and the program's blocks agree in every state until libc stops the
\* process, up to the events the running wrapper has still to log
\* (humain.cpp:245-312, hulog.cpp:245-340).
THEOREM BlocksInvariant ==
  ASSUME OneThread, AllocationsSucceed
  PROVE  Spec /\ LibcNotices => []BlocksInv
<1>1. Init => BlocksInv
  BY InitCore DEF BlocksInv
<1>2. BlocksInv /\ [Next]_vars /\ [Noticed]_vars => BlocksInv'
  BY NextBlocks
<1> QED
  BY <1>1, <1>2, PTL DEF Spec, LibcNotices

\* Between wrapper calls the ledger is exactly what the program holds, of the
\* blocks hulog.cpp keeps: with free logged before malloc in realloc, and each of
\* them after the allocator has acted, a reused address neither cancels an entry
\* nor doubles it (humain.cpp:245-312).
THEOREM LedgerExact ==
  ASSUME OneThread, AllocationsSucceed
  PROVE  Spec /\ LibcNotices => []LedgerIsExact
<1>1. BlocksInv => LedgerIsExact
  <2> SUFFICES ASSUME CoreInv, todo = <<>>, Idle, stage = "running", reporting = "no"
               PROVE  Ledger = [ptr \in DOMAIN allocations |-> allocations[ptr].size]
    BY DEF BlocksInv, Stopped, Idle, LedgerIsExact
  <2>1. /\ DOMAIN allocations = Owed
        /\ \A p \in Owed : allocations[p].size = live[p]
    BY NoEvents DEF CoreInv, LedgerSoFar, ToFree, ToRecord
  <2>2. Ledger = [p \in Owed |-> live[p]]
    BY DEF Ledger, Owed
  <2> QED
    BY <2>1, <2>2
<1> QED
  BY <1>1, BlocksInvariant, PTL

LEMMA SummaryOfBlocks ==
  ASSUME BlocksInv, ~LogFileCanFail, stage = "ended", NEW printed \in summary
  PROVE  printed.blocks = DOMAIN Ledger
<1>1. CoreInv
  BY DEF BlocksInv, Stopped
<1>2. todo = <<>> /\ printed.blocks = DOMAIN allocations
  BY <1>1 DEF CoreInv, Phase, SummaryIsLedger
<1>3. DOMAIN allocations = Owed
  BY <1>1, <1>2, NoEvents DEF CoreInv, LedgerSoFar, ToFree, ToRecord
<1>4. DOMAIN Ledger = Owed
  BY DEF Ledger, Owed
<1> QED
  BY <1>2, <1>3, <1>4

\* The exit summary lists no block as lost that the program does not hold
\* (README.md:128, hulog.cpp:469-520).
THEOREM NoFalseLeaks ==
  ASSUME OneThread, AllocationsSucceed, ~LogFileCanFail
  PROVE  Spec /\ LibcNotices => []NoFalseLeak
<1>1. BlocksInv => NoFalseLeak
  BY SummaryOfBlocks DEF NoFalseLeak
<1> QED
  BY <1>1, BlocksInvariant, PTL

\* ... and leaves none out that the program still holds.
THEOREM NoMissedLeaks ==
  ASSUME OneThread, AllocationsSucceed, ~LogFileCanFail
  PROVE  Spec /\ LibcNotices => []NoMissedLeak
<1>1. BlocksInv => NoMissedLeak
  BY SummaryOfBlocks DEF NoMissedLeak
<1> QED
  BY <1>1, BlocksInvariant, PTL

-----------------------------------------------------------------------------
(***************************************************************************)
(* Double frees.                                                           *)
(***************************************************************************)
FreedIsKept == ~KeepsFreed => DOMAIN freed_allocations = {}

\* What the ledger has as freed, or will have, the program has freed and not got
\* again, or it has got it again and the ledger is about to hear of it.
FreedIsDangling == DOMAIN freed_allocations \subseteq DOMAIN dangling \cup ToRecord
ToFreeIsDangling == ToFree \cap DOMAIN allocations \subseteq DOMAIN dangling \cup ToRecord

CountIsNat == total_invalid_dealloc_count \in Nat
NoFalseReport == total_invalid_dealloc_count + Due <= double_frees.all

FreeInv ==
  IF libc_aborted
    THEN Stopped /\ NoFalseDoubleFree
    ELSE /\ CoreInv
         /\ FreedIsKept /\ FreedIsDangling /\ ToFreeIsDangling
         /\ CountIsNat /\ NoFalseReport

LEMMA CoreRuns == CoreInv => ~libc_aborted
  BY DEF CoreInv, MemoryInv, AllocatorInv, NeverAborts

\* A call makes a report due if it frees a block the ledger has as freed.
LEMMA DueAfterCall ==
  ASSUME NEW old, NEW ret, NEW size, NEW freed \in BOOLEAN, Calls(old, ret, size, freed)
  PROVE  /\ Due = 0
         /\ Due' = Often(freed /\ old \in DOMAIN freed_allocations \ DOMAIN allocations)
<1>1. /\ todo = <<>> /\ todo' = EventsOf(freed, old, ret, size)
      /\ UNCHANGED <<allocations, freed_allocations>>
  BY DEF Calls, logVars, ledgerVars
<1>2. Due = 0
  BY <1>1 DEF Due, IsDue
<1>3. CASE freed
  <2>1. todo' # <<>> /\ Head(todo') = FreeEvent(old)
    <3>1. CASE size # 0
      <4>1. todo' = FreeThenMalloc(old, ret, size)
        BY <1>1, <1>3, <3>1, EventsOfCall
      <4> QED
        BY <4>1, FreeAndMalloc
    <3>2. CASE size = 0
      <4>1. todo' = <<FreeEvent(old)>>
        BY <1>1, <1>3, <3>2, EventsOfCall
      <4> QED
        BY <4>1, OneFree
    <3> QED
      BY <3>1, <3>2
  <2>2. Head(todo').event = "free" /\ Head(todo').ptr = old
    <3>1. FreeEvent(old).event = "free" /\ FreeEvent(old).ptr = old
      BY EventFields
    <3> QED
      BY <2>1, <3>1, Zenon
  <2>3. IsDue(todo, DOMAIN allocations, DOMAIN freed_allocations)'
          <=> old \in DOMAIN freed_allocations \ DOMAIN allocations
    BY <1>1, <2>1, <2>2 DEF IsDue
  <2> QED
    BY <1>2, <1>3, <2>3 DEF Due, Often
<1>4. CASE ~freed
  <2>1. todo' = <<>> \/ Head(todo').event = "malloc"
    <3>1. CASE size # 0
      <4>1. Head(todo') = MallocEvent(ret, size)
        BY <1>1, <1>4, <3>1, EventsOfCall, OneMalloc
      <4>2. MallocEvent(ret, size).event = "malloc"
        BY EventFields
      <4> QED
        BY <4>1, <4>2, Zenon
    <3>2. CASE size = 0
      BY <1>1, <1>4, <3>2, EventsOfCall
    <3> QED
      BY <3>1, <3>2
  <2>2. ~IsDue(todo, DOMAIN allocations, DOMAIN freed_allocations)'
    BY <2>1 DEF IsDue
  <2> QED
    BY <1>2, <1>4, <2>2 DEF Due, Often
<1> QED
  BY <1>3, <1>4

\* What the ledger has as live is the program's: a block it frees is from then on
\* a dangling one.
LEMMA LedgerIsLive ==
  ASSUME CoreInv, todo = <<>>
  PROVE  DOMAIN allocations \subseteq DOMAIN live \ unlogged
<1>1. DOMAIN allocations = Owed
  BY NoEvents DEF CoreInv, LedgerSoFar, ToFree, ToRecord
<1> QED
  BY <1>1 DEF Owed

LEMMA CallKeepsFree ==
  ASSUME FreeInv, CoreInv, CoreInv',
         NEW old \in Results, NEW ret \in Results, NEW size \in Nat, NEW freed \in BOOLEAN,
         Calls(old, ret, size, freed), Served(old, ret, size, freed),
         ret # NULL => size # 0
  PROVE  FreeInv'
<1>1. /\ todo = <<>> /\ ToRecord = {}
      /\ UNCHANGED <<log_config, allocations, freed_allocations, total_invalid_dealloc_count>>
      /\ ToFree' = IF freed THEN {old} ELSE {}
      /\ ToRecord' = IF size # 0 THEN {ret} ELSE {}
  <2>1. /\ todo = <<>>
        /\ UNCHANGED <<log_config, allocations, freed_allocations, total_invalid_dealloc_count>>
    BY DEF Calls, logVars, ledgerVars, deallocVars
  <2>2. ToRecord = {}
    BY <2>1, NoEvents DEF ToRecord
  <2> QED
    BY <2>1, <2>2, CallLeaves
<1>2. /\ DOMAIN freed_allocations \subseteq DOMAIN dangling
      /\ DOMAIN allocations \subseteq DOMAIN live \ unlogged
      /\ FreedIsKept /\ CountIsNat /\ NoFalseReport
  BY <1>1, LedgerIsLive, CoreRuns DEF FreeInv, FreedIsDangling
<1>3. DOMAIN dangling' = (DOMAIN dangling \cup ({old} \cap (DOMAIN live \ unlogged))) \ {ret}
  BY DEF Calls
<1>4. ret \in DOMAIN dangling \cup DOMAIN live => ret \in ToRecord'
  BY <1>1, NothingErased DEF CoreInv, Owned
<1>5. FreedIsKept' /\ FreedIsDangling' /\ ToFreeIsDangling' /\ CountIsNat'
  BY <1>1, <1>2, <1>3, <1>4
     DEF FreedIsKept, FreedIsDangling, ToFreeIsDangling, CountIsNat, KeepsFreed
<1>6. NoFalseReport'
  <2>1. /\ Due = 0
        /\ Due' = Often(freed /\ old \in DOMAIN freed_allocations \ DOMAIN allocations)
    BY DueAfterCall
  <2>2. double_frees \in [all : Nat, second : Nat]
    BY DEF CoreInv, Owned
  <2>3. double_frees'.all = double_frees.all + Often(old \in DOMAIN dangling)
    BY DEF Calls
  <2> QED
    BY <1>1, <1>2, <2>1, <2>2, <2>3 DEF NoFalseReport, CountIsNat, Often
<1> QED
  BY <1>5, <1>6 DEF FreeInv, CoreInv, MemoryInv, AllocatorInv, NeverAborts

\* A free moves a live block to the freed ones, takes a freed one off them and
\* counts it, or changes nothing.
LEMMA FreeMoves ==
  ASSUME NEW ptr, NEW stack, NEW opened, log_event_free(ptr, stack, opened), logging_enabled
  PROVE  \/ /\ ptr \in DOMAIN allocations
            /\ DOMAIN freed_allocations' = IF KeepsFreed THEN DOMAIN freed_allocations \cup {ptr}
                                           ELSE DOMAIN freed_allocations
            /\ UNCHANGED total_invalid_dealloc_count
         \/ /\ log_config.log_free
            /\ ptr \in DOMAIN freed_allocations \ DOMAIN allocations
            /\ DOMAIN freed_allocations' = DOMAIN freed_allocations \ {ptr}
            /\ IF stack \notin ObjcStacks
                 THEN total_invalid_dealloc_count' = total_invalid_dealloc_count + 1
                 ELSE UNCHANGED total_invalid_dealloc_count
         \/ /\ ~(log_config.log_free /\ ptr \in DOMAIN freed_allocations)
            /\ ptr \notin DOMAIN allocations
            /\ UNCHANGED <<freed_allocations, total_invalid_dealloc_count>>
<1>1. CASE ptr \in DOMAIN allocations /\ LogFreed(ptr, stack)
  BY <1>1 DEF LogFreed, MapInsert, deallocVars
<1>2. CASE /\ ptr \notin DOMAIN allocations
           /\ log_config.log_free /\ ptr \in DOMAIN freed_allocations
           /\ LogDoubleFree(ptr, stack, opened)
  BY <1>2 DEF LogDoubleFree, MapErase, deallocVars, log_is_valid_callstack
<1>3. CASE /\ ptr \notin DOMAIN allocations
           /\ ~(log_config.log_free /\ ptr \in DOMAIN freed_allocations)
           /\ LogUnknownFree
  BY <1>3 DEF LogUnknownFree, deallocVars
<1> QED
  BY <1>1, <1>2, <1>3 DEF log_event_free

\* The event that is logged, in the stage and with the switch that LogEvent meets.
LEMMA EventLogged ==
  ASSUME CoreInv, OneThread, LogEvent
  PROVE  /\ todo' = <<>> \/ Head(todo').event = "malloc"
         /\ \/ /\ stage = "loading" /\ ToFree' = {}
               /\ UNCHANGED <<log_config, allocations, freed_allocations,
                              total_invalid_dealloc_count>>
            \/ /\ stage = "running" /\ logging_enabled
               /\ \E p : /\ FreeComesFirst(p)
                         /\ \E stack \in Stacks, opened \in BOOLEAN :
                              log_event_free(p, stack, opened)
            \/ /\ stage = "running" /\ logging_enabled
               /\ \E q : /\ MallocComesFirst(q)
                         /\ \E stack \in Stacks : log_event_malloc(q, live[q], stack)
<1>1. /\ todo # <<>> /\ todo' = Tail(todo) /\ live' = live
      /\ stage \in {"loading", "running"} /\ reporting = "no"
  BY LogEventIs DEF programVars
<1>2. /\ todo' = <<>> \/ Head(todo').event = "malloc"
      /\ (\E p : FreeComesFirst(p)) \/ (\E q : MallocComesFirst(q))
  BY <1>1, NextEvent DEF CoreInv
<1>3. PICK stack \in Stacks, opened \in BOOLEAN :
        \/ /\ Head(todo).event = "malloc"
           /\ log_event_malloc(Head(todo).ptr, Head(todo).size, stack)
        \/ /\ Head(todo).event = "free"
           /\ log_event_free(Head(todo).ptr, stack, opened)
  BY LogEventIs
<1>4. CASE stage = "loading"
  <2>1. ~logging_enabled
    BY <1>4 DEF CoreInv, Phase
  <2>2. UNCHANGED <<log_config, allocations, freed_allocations, total_invalid_dealloc_count>>
    BY <1>3, <2>1 DEF log_event_malloc, log_event_free, ledgerVars, deallocVars
  <2> QED
    BY <1>2, <1>4, <2>2 DEF FreeComesFirst, MallocComesFirst
<1>5. CASE stage = "running" /\ \E p : FreeComesFirst(p)
  <2> PICK p : FreeComesFirst(p)
    BY <1>5
  <2>1. Head(todo).event = "free" /\ Head(todo).ptr = p
    BY EventFields DEF FreeComesFirst
  <2>2. log_event_free(p, stack, opened)
    BY <1>3, <2>1
  <2>3. logging_enabled
    BY <1>1, <1>5 DEF CoreInv, Phase
  <2> QED
    BY <1>2, <1>5, <2>2, <2>3
<1>6. CASE stage = "running" /\ \E q : MallocComesFirst(q)
  <2> PICK q : MallocComesFirst(q)
    BY <1>6
  <2>1. /\ Head(todo).event = "malloc"
        /\ Head(todo).ptr = q /\ Head(todo).size = live[q]
    BY EventFields DEF MallocComesFirst
  <2>2. log_event_malloc(q, live[q], stack)
    BY <1>3, <2>1
  <2>3. logging_enabled
    BY <1>1, <1>6 DEF CoreInv, Phase
  <2> QED
    BY <1>2, <1>6, <2>2, <2>3
<1> QED
  BY <1>1, <1>2, <1>4, <1>5, <1>6

LEMMA LogEventKeepsFree ==
  ASSUME FreeInv, CoreInv, CoreInv', OneThread, LogEvent
  PROVE  FreeInv'
<1>1. /\ ToFree' = {} /\ UNCHANGED <<dangling, double_frees>>
      /\ Due' = 0
  <2>1. ToFree' = {}
    BY EventLogged DEF FreeComesFirst, MallocComesFirst
  <2>2. UNCHANGED <<dangling, double_frees>>
    BY LogEventIs DEF programVars
  <2>3. Due' = 0
    BY EventLogged DEF Due, IsDue
  <2> QED
    BY <2>1, <2>2, <2>3
<1>2. /\ FreedIsKept /\ FreedIsDangling /\ ToFreeIsDangling /\ CountIsNat /\ NoFalseReport
      /\ Due \in {0, 1}
      /\ double_frees.all \in Nat
  BY CoreRuns DEF FreeInv, Due, CoreInv, Owned
<1>3. total_invalid_dealloc_count <= double_frees.all
  BY <1>2 DEF NoFalseReport, CountIsNat
<1>4. CASE stage = "loading"
  <2>1. UNCHANGED <<log_config, allocations, freed_allocations, total_invalid_dealloc_count>>
    BY <1>4, EventLogged
  <2>2. DOMAIN freed_allocations = {}
    BY <1>4 DEF CoreInv, BeforeInit
  <2>3. FreedIsKept' /\ FreedIsDangling' /\ ToFreeIsDangling' /\ CountIsNat' /\ NoFalseReport'
    BY <1>1, <1>2, <1>3, <2>1, <2>2
       DEF FreedIsKept, FreedIsDangling, ToFreeIsDangling, CountIsNat, NoFalseReport
  <2> QED
    BY <2>3 DEF FreeInv, CoreInv, MemoryInv, AllocatorInv, NeverAborts
<1>5. CASE \E p : /\ FreeComesFirst(p) /\ logging_enabled
                  /\ \E stack \in Stacks, opened \in BOOLEAN : log_event_free(p, stack, opened)
  <2> PICK p : /\ FreeComesFirst(p) /\ logging_enabled
               /\ \E stack \in Stacks, opened \in BOOLEAN : log_event_free(p, stack, opened)
    BY <1>5
  <2> PICK stack \in Stacks, opened \in BOOLEAN : log_event_free(p, stack, opened)
    OBVIOUS
  <2>1. /\ ToFree = {p} /\ ToRecord' = ToRecord
        /\ log_config' = log_config /\ KeepsFreed' = KeepsFreed
    BY FreeLogged DEF FreeComesFirst, KeepsFreed
  <2>2. p \in DOMAIN freed_allocations \ DOMAIN allocations => Due = 1
    <3>1. Head(todo).event = "free" /\ Head(todo).ptr = p /\ todo # <<>>
      BY LogEventIs, EventFields DEF FreeComesFirst
    <3> QED
      BY <3>1 DEF Due, IsDue
  <2>3. CASE /\ p \in DOMAIN allocations
             /\ DOMAIN freed_allocations' =
                  IF KeepsFreed THEN DOMAIN freed_allocations \cup {p}
                  ELSE DOMAIN freed_allocations
             /\ UNCHANGED total_invalid_dealloc_count
    BY <1>1, <1>2, <1>3, <2>1, <2>3
       DEF FreedIsKept, FreedIsDangling, ToFreeIsDangling, CountIsNat, NoFalseReport,
           FreeInv, CoreInv, MemoryInv, AllocatorInv, NeverAborts
  <2>4. CASE /\ p \in DOMAIN freed_allocations \ DOMAIN allocations
             /\ DOMAIN freed_allocations' = DOMAIN freed_allocations \ {p}
             /\ total_invalid_dealloc_count' \in
                  {total_invalid_dealloc_count, total_invalid_dealloc_count + 1}
    BY <1>1, <1>2, <1>3, <2>1, <2>2, <2>4
       DEF FreedIsKept, FreedIsDangling, ToFreeIsDangling, CountIsNat, NoFalseReport,
           FreeInv, CoreInv, MemoryInv, AllocatorInv, NeverAborts
  <2>5. CASE UNCHANGED <<freed_allocations, total_invalid_dealloc_count>>
    BY <1>1, <1>2, <1>3, <2>1, <2>5
       DEF FreedIsKept, FreedIsDangling, ToFreeIsDangling, CountIsNat, NoFalseReport,
           FreeInv, CoreInv, MemoryInv, AllocatorInv, NeverAborts
  <2> QED
    BY <2>3, <2>4, <2>5, FreeMoves
<1>6. CASE \E q : /\ MallocComesFirst(q) /\ logging_enabled
                  /\ \E stack \in Stacks : log_event_malloc(q, live[q], stack)
  <2> PICK q : /\ MallocComesFirst(q) /\ logging_enabled
               /\ \E stack \in Stacks : log_event_malloc(q, live[q], stack)
    BY <1>6
  <2> PICK stack \in Stacks : log_event_malloc(q, live[q], stack)
    OBVIOUS
  <2>1. /\ ToRecord = {q} /\ ToRecord' = {}
        /\ log_config' = log_config /\ KeepsFreed' = KeepsFreed
        /\ UNCHANGED total_invalid_dealloc_count
        /\ DOMAIN freed_allocations' =
             IF KeepsFreed THEN DOMAIN freed_allocations \ {q} ELSE DOMAIN freed_allocations
    BY MallocLogged DEF MallocComesFirst, KeepsFreed
  <2>2. FreedIsKept' /\ FreedIsDangling' /\ ToFreeIsDangling' /\ CountIsNat' /\ NoFalseReport'
    BY <1>1, <1>2, <1>3, <2>1
       DEF FreedIsKept, FreedIsDangling, ToFreeIsDangling, CountIsNat, NoFalseReport
  <2> QED
    BY <2>2 DEF FreeInv, CoreInv, MemoryInv, AllocatorInv, NeverAborts
<1> QED
  BY <1>4, <1>5, <1>6, EventLogged

\* Records may leave the freed ones when a block leaves the quarantine.
LEMMA UntouchedKeepsFree ==
  ASSUME FreeInv, CoreInv, CoreInv',
         UNCHANGED <<log_config, todo, dangling, double_frees, allocations,
                     total_invalid_dealloc_count>>,
         DOMAIN freed_allocations' \subseteq DOMAIN freed_allocations
  PROVE  FreeInv'
<1>1. /\ FreedIsKept /\ FreedIsDangling /\ ToFreeIsDangling /\ CountIsNat /\ NoFalseReport
      /\ double_frees.all \in Nat
  BY CoreRuns DEF FreeInv, CoreInv, Owned
<1>2. /\ ToFree' = ToFree /\ ToRecord' = ToRecord /\ KeepsFreed' = KeepsFreed
      /\ Due \in {0, 1} /\ Due' \in {0, 1} /\ (Due' = 1 => Due = 1)
  BY DEF ToFree, ToRecord, KeepsFreed, Due, IsDue
<1>3. FreedIsKept' /\ FreedIsDangling' /\ ToFreeIsDangling'
  BY <1>1, <1>2 DEF FreedIsKept, FreedIsDangling, ToFreeIsDangling
<1>4. CountIsNat' /\ NoFalseReport'
  BY <1>1, <1>2 DEF CountIsNat, NoFalseReport
<1> QED
  BY <1>3, <1>4 DEF FreeInv, CoreInv, MemoryInv, AllocatorInv, NeverAborts

\* What is neither a call nor an event.
LEMMA OtherStepIs ==
  ASSUME CoreInv, FinishRealloc \/ Evict \/ hu_init \/ LifeCycle \/ UNCHANGED vars
  PROVE  /\ UNCHANGED <<log_config, hu_env, todo, live, unlogged, dangling, double_frees,
                        allocations, total_invalid_dealloc_count>>
         /\ DOMAIN freed_allocations' \subseteq DOMAIN freed_allocations
         /\ log_config.log_free => UNCHANGED freed_allocations
<1>1. CASE FinishRealloc \/ Evict
  BY <1>1 DEF FinishRealloc, Evict, hu_log_remove_freed_allocation, processVars, programVars,
              logVars, ledgerVars, deallocVars, MapErase
<1>2. CASE hu_init
  BY <1>2 DEF hu_init, log_enable, programVars, ledgerVars, deallocVars
<1>3. CASE LifeCycle
  BY <1>3 DEF LifeCycle, ReportBegin, ReportSummary, ReportEnd, Fault, Exit, FiniSilence,
              FiniSummary, processVars, programVars, log_enable, log_summary, hu_sig_handler,
              logVars, ledgerVars, deallocVars
<1>4. CASE UNCHANGED vars
  BY <1>4 DEF vars, processVars, programVars, logVars, ledgerVars, deallocVars
<1> QED
  BY <1>1, <1>2, <1>3, <1>4

LEMMA NextCore ==
  ASSUME CoreInv, OneThread, AllocationsSucceed, [Next]_vars, [Noticed]_vars
  PROVE  \/ Aborted
         \/ CoreInv' /\ \/ ACall \/ LogEvent
                        \/ FinishRealloc \/ Evict \/ hu_init \/ LifeCycle \/ UNCHANGED vars
<1>1. CASE UNCHANGED vars
  BY <1>1, StutterKeepsCore
<1>2. CASE ACall
  BY <1>2, CallKeepsCore DEF ACall
<1>3. CASE LogEvent \/ FinishRealloc \/ Evict \/ hu_init \/ LifeCycle
  BY <1>3, LogEventKeepsCore, EvictionKeepsCore, InitCallKeepsCore, LifeCycleKeepsCore
     DEF LifeCycle
<1> QED
  BY <1>1, <1>2, <1>3, StepIs

LEMMA NextFree ==
  ASSUME FreeInv, OneThread, AllocationsSucceed, NoEmptyRequests, [Next]_vars, [Noticed]_vars
  PROVE  FreeInv'
<1>1. CASE libc_aborted
  <2>1. Stopped /\ NoFalseDoubleFree
    BY <1>1 DEF FreeInv
  <2>2. Stopped' /\ UNCHANGED <<total_invalid_dealloc_count, double_frees>>
    BY <2>1, StoppedStays DEF deallocVars
  <2> QED
    BY <2>1, <2>2 DEF FreeInv, Stopped, NoFalseDoubleFree
<1>2. CASE ~libc_aborted
  <2>0. CoreInv
    BY <1>2 DEF FreeInv
  <2>1. CASE Aborted
    <3>1. /\ CountIsNat /\ NoFalseReport /\ Due \in {0, 1}
          /\ double_frees.all \in Nat
      BY <1>2, <2>0 DEF FreeInv, Due, CoreInv, Owned
    <3>2. /\ UNCHANGED total_invalid_dealloc_count
          /\ double_frees'.all \in {double_frees.all, double_frees.all + 1}
      BY <2>1, <3>1 DEF Aborted, free, Lock, logVars, deallocVars
    <3>3. NoFalseDoubleFree'
      BY <3>1, <3>2 DEF NoFalseDoubleFree, NoFalseReport, CountIsNat
    <3> QED
      BY <2>1, <3>3 DEF Aborted, FreeInv, Stopped
  <2>2. CASE CoreInv' /\ ACall
    BY <2>0, <2>2, CallKeepsFree DEF ACall
  <2>3. CASE CoreInv' /\ LogEvent
    BY <2>0, <2>3, LogEventKeepsFree
  <2>4. CASE CoreInv' /\ (FinishRealloc \/ Evict \/ hu_init \/ LifeCycle \/ UNCHANGED vars)
    BY <2>0, <2>4, OtherStepIs, UntouchedKeepsFree
  <2> QED
    BY <2>0, <2>1, <2>2, <2>3, <2>4, NextCore
<1> QED
  BY <1>1, <1>2

LEMMA InitFree == Init => FreeInv
<1> SUFFICES ASSUME Init PROVE FreeInv
  OBVIOUS
<1>1. CoreInv /\ ~libc_aborted
  BY InitCore, CoreRuns
<1>2. /\ todo = <<>> /\ DOMAIN freed_allocations = {} /\ DOMAIN allocations = {}
      /\ total_invalid_dealloc_count = 0 /\ double_frees.all = 0
  BY DEF Init, InitHuLog, NoEntries
<1>3. FreedIsKept /\ FreedIsDangling /\ ToFreeIsDangling /\ CountIsNat /\ NoFalseReport
  BY <1>2 DEF FreedIsKept, FreedIsDangling, ToFreeIsDangling, CountIsNat, NoFalseReport, Due,
              IsDue
<1> QED
  BY <1>1, <1>3 DEF FreeInv

\* What is reported as an invalid deallocation is a free of a block the program
\* had freed before: no free of a block it holds is ever taken for one, however
\* addresses are used again (README.md:126, hulog.cpp:300-336).
THEOREM NoFalseReports ==
  ASSUME OneThread, AllocationsSucceed, NoEmptyRequests
  PROVE  Spec /\ LibcNotices => []NoFalseDoubleFree
<1>1. FreeInv /\ [Next]_vars /\ [Noticed]_vars => FreeInv'
  BY NextFree
<1>2. FreeInv => NoFalseDoubleFree
  BY DEF FreeInv, NoFalseReport, NoFalseDoubleFree, CountIsNat, Due, CoreInv, Owned
<1> QED
  BY <1>1, <1>2, InitFree, PTL DEF Spec, LibcNotices

-----------------------------------------------------------------------------
(***************************************************************************)
(* No second free goes unseen.                                             *)
(***************************************************************************)

\* With double-free detection all blocks are logged, whatever their size.
LogsEveryBlock == \A env \in Tools : env.doublefree => env.minsize = 0

NoLibobjc == ObjcStacks = {}

\* The pointers freed once since the program got them.
FreedOnce == {p \in DOMAIN dangling : ~dangling[p]}

\* What has been freed once is known as freed or is about to be.
Remembered ==
  /\ \A p \in DOMAIN live : live[p] > 0
  /\ FreedOnce \subseteq DOMAIN freed_allocations \cup (ToFree \cap DOMAIN allocations)
  /\ ToFree \cap FreedOnce \subseteq DOMAIN allocations
  /\ CountIsNat
  /\ total_invalid_dealloc_count + Due >= double_frees.second

SecondInv == Stopped \/ (CoreInv /\ (hu_env.doublefree => Remembered))

LEMMA CallKeepsSecond ==
  ASSUME CoreInv, Remembered, LogsEveryBlock, hu_env.doublefree,
         NEW old \in Results, NEW ret \in Results, NEW size \in Nat, NEW freed \in BOOLEAN,
         Calls(old, ret, size, freed), Served(old, ret, size, freed),
         ret # NULL => size # 0
  PROVE  Remembered'
<1>1. /\ todo = <<>> /\ ToFree = {}
      /\ UNCHANGED <<log_config, allocations, freed_allocations, total_invalid_dealloc_count>>
      /\ ToFree' = IF freed THEN {old} ELSE {}
  <2>1. /\ todo = <<>>
        /\ UNCHANGED <<log_config, allocations, freed_allocations, total_invalid_dealloc_count>>
    BY DEF Calls, logVars, ledgerVars, deallocVars
  <2>2. ToFree = {}
    BY <2>1, NoEvents DEF ToFree
  <2> QED
    BY <2>1, <2>2, CallLeaves
<1>2. /\ DOMAIN live' = (DOMAIN live \ {old}) \cup ({ret} \ {NULL})
      /\ \A p \in DOMAIN live' :
           live'[p] = IF ret # NULL /\ p = ret THEN size ELSE live[p]
  <2>1. live' = Hold(MapErase(live, old), ret, size)
    BY DEF Calls
  <2> QED
    BY <2>1 DEF Hold, MapErase, MapPut
<1>3. DOMAIN allocations = DOMAIN live \ unlogged
  <2>1. DOMAIN allocations = Owed
    BY <1>1, NoEvents DEF CoreInv, LedgerSoFar, ToFree, ToRecord
  <2>2. hu_env.minsize = 0
    BY DEF LogsEveryBlock, CoreInv, Environment
  <2>3. \A p \in DOMAIN live : live[p] \in Nat
    BY DEF CoreInv, Owned, MemoryInv, AllocatorInv, AddressMap
  <2> QED
    BY <2>1, <2>2, <2>3 DEF Owed, Remembered
<1>4. \A p \in DOMAIN live' : live'[p] > 0
  BY <1>2 DEF Remembered
<1>5. /\ DOMAIN dangling' = (DOMAIN dangling \cup ({old} \cap (DOMAIN live \ unlogged))) \ {ret}
      /\ \A p \in DOMAIN dangling' :
           dangling'[p] = IF p = old THEN p \in DOMAIN dangling ELSE dangling[p]
  BY DEF Calls
<1>6. \A p \in FreedOnce' : IF p = old THEN old \in DOMAIN live \ unlogged ELSE p \in FreedOnce
  BY <1>5 DEF FreedOnce
<1>7. old \in DOMAIN live => old \in ToFree'
  BY <1>1, NothingErased DEF Served, CoreInv, Owned
<1>8. /\ FreedOnce' \subseteq DOMAIN freed_allocations' \cup (ToFree' \cap DOMAIN allocations')
      /\ ToFree' \cap FreedOnce' \subseteq DOMAIN allocations'
  BY <1>1, <1>3, <1>6, <1>7 DEF Remembered
<1>9. CountIsNat' /\ total_invalid_dealloc_count' + Due' >= double_frees'.second
  <2>1. /\ Due = 0
        /\ Due' = Often(freed /\ old \in DOMAIN freed_allocations \ DOMAIN allocations)
    BY DueAfterCall
  <2>2. /\ double_frees.second \in Nat
        /\ double_frees'.second = double_frees.second
                                    + Often(old \in DOMAIN dangling /\ ~dangling[old])
    BY DEF CoreInv, Owned, Calls
  <2>3. old \in DOMAIN dangling /\ ~dangling[old] =>
          freed /\ old \in DOMAIN freed_allocations \ DOMAIN allocations
    <3> SUFFICES ASSUME old \in DOMAIN dangling, ~dangling[old]
                 PROVE  freed /\ old \in DOMAIN freed_allocations \ DOMAIN allocations
      OBVIOUS
    <3>1. old \in FreedOnce /\ old # NULL /\ old \notin DOMAIN live
      BY NothingErased DEF FreedOnce, CoreInv, Owned
    <3> QED
      BY <1>1, <1>3, <3>1 DEF Remembered, Served
  <2> QED
    BY <1>1, <2>1, <2>2, <2>3 DEF Remembered, CountIsNat, Often
<1> QED
  BY <1>4, <1>8, <1>9 DEF Remembered

LEMMA LogEventKeepsSecond ==
  ASSUME CoreInv, Remembered, OneThread, NoLibobjc, hu_env.doublefree, LogEvent
  PROVE  Remembered'
<1>1. /\ ToFree' = {} /\ UNCHANGED <<live, dangling, double_frees>>
      /\ Due' = 0
  <2>1. ToFree' = {}
    BY EventLogged DEF FreeComesFirst, MallocComesFirst
  <2>2. UNCHANGED <<live, dangling, double_frees>>
    BY LogEventIs DEF programVars
  <2>3. Due' = 0
    BY EventLogged DEF Due, IsDue
  <2> QED
    BY <2>1, <2>2, <2>3
<1>2. /\ CountIsNat /\ total_invalid_dealloc_count + Due >= double_frees.second
      /\ double_frees.second \in Nat
      /\ log_config.log_free /\ KeepsFreed
      /\ FreedOnce' = FreedOnce
  BY <1>1 DEF Remembered, CoreInv, Owned, Environment, LogConfigOf, KeepsFreed, FreedOnce
<1>3. CASE stage = "loading"
  <2>1. /\ UNCHANGED <<allocations, freed_allocations, total_invalid_dealloc_count>>
        /\ FreedOnce = {} /\ DOMAIN freed_allocations = {}
    BY <1>3, EventLogged DEF CoreInv, BeforeInit, FreedOnce
  <2>2. Due = 0
    BY <2>1 DEF Due, IsDue
  <2> QED
    BY <1>1, <1>2, <2>1, <2>2 DEF Remembered, CountIsNat
<1>4. CASE \E p : /\ FreeComesFirst(p) /\ logging_enabled
                  /\ \E stack \in Stacks, opened \in BOOLEAN : log_event_free(p, stack, opened)
  <2> PICK p : /\ FreeComesFirst(p) /\ logging_enabled
               /\ \E stack \in Stacks, opened \in BOOLEAN : log_event_free(p, stack, opened)
    BY <1>4
  <2> PICK stack \in Stacks, opened \in BOOLEAN : log_event_free(p, stack, opened)
    OBVIOUS
  <2>1. ToFree = {p}
    BY DEF FreeComesFirst
  <2>2. p \notin DOMAIN freed_allocations \/ p \in DOMAIN allocations => Due = 0
    <3>1. Head(todo).ptr = p
      BY EventFields DEF FreeComesFirst
    <3> QED
      BY <3>1 DEF Due, IsDue
  <2>3. Due \in {0, 1}
    BY DEF Due
  <2>4. CASE /\ p \in DOMAIN allocations
             /\ DOMAIN freed_allocations' = DOMAIN freed_allocations \cup {p}
             /\ UNCHANGED total_invalid_dealloc_count
    BY <1>1, <1>2, <2>1, <2>2, <2>4 DEF Remembered, CountIsNat
  <2>5. CASE /\ p \in DOMAIN freed_allocations \ DOMAIN allocations
             /\ DOMAIN freed_allocations' = DOMAIN freed_allocations \ {p}
             /\ total_invalid_dealloc_count' = total_invalid_dealloc_count + 1
    BY <1>1, <1>2, <2>1, <2>3, <2>5 DEF Remembered, CountIsNat
  <2>6. CASE /\ p \notin DOMAIN freed_allocations /\ p \notin DOMAIN allocations
             /\ UNCHANGED <<freed_allocations, total_invalid_dealloc_count>>
    BY <1>1, <1>2, <2>1, <2>2, <2>6 DEF Remembered, CountIsNat
  <2> QED
    BY <1>2, <2>4, <2>5, <2>6, FreeMoves DEF NoLibobjc
<1>5. CASE \E q : /\ MallocComesFirst(q) /\ logging_enabled
                  /\ \E stack \in Stacks : log_event_malloc(q, live[q], stack)
  <2> PICK q : /\ MallocComesFirst(q) /\ logging_enabled
               /\ \E stack \in Stacks : log_event_malloc(q, live[q], stack)
    BY <1>5
  <2> PICK stack \in Stacks : log_event_malloc(q, live[q], stack)
    OBVIOUS
  <2>1. /\ ToFree = {} /\ q \in DOMAIN live
        /\ UNCHANGED total_invalid_dealloc_count
        /\ DOMAIN freed_allocations' = DOMAIN freed_allocations \ {q}
    BY <1>2, MallocLogged DEF MallocComesFirst
  <2>2. q \notin FreedOnce
    BY <2>1 DEF FreedOnce, CoreInv, Owned
  <2>3. Due = 0
    <3>1. Head(todo).event = "malloc"
      BY EventFields DEF MallocComesFirst
    <3> QED
      BY <3>1 DEF Due, IsDue
  <2> QED
    BY <1>1, <1>2, <2>1, <2>2, <2>3 DEF Remembered, CountIsNat
<1> QED
  BY <1>3, <1>4, <1>5, EventLogged

LEMMA NextSecond ==
  ASSUME SecondInv, OneThread, AllocationsSucceed, NoEmptyRequests, LogsEveryBlock, NoLibobjc,
         [Next]_vars, [Noticed]_vars
  PROVE  SecondInv'
<1>1. CASE Stopped
  BY <1>1, StoppedStays DEF SecondInv
<1>2. CASE CoreInv /\ (hu_env.doublefree => Remembered)
  <2>1. CASE Aborted
    BY <2>1 DEF Aborted, SecondInv
  <2>2. CASE CoreInv' /\ ACall
    <3>1. hu_env' = hu_env
      BY <2>2 DEF ACall, Calls, processVars
    <3> QED
      BY <1>2, <2>2, <3>1, CallKeepsSecond DEF ACall, SecondInv
  <2>3. CASE CoreInv' /\ LogEvent
    <3>1. hu_env' = hu_env
      BY <2>3, LogEventIs DEF processVars
    <3> QED
      BY <1>2, <2>3, <3>1, LogEventKeepsSecond DEF SecondInv
  <2>4. CASE CoreInv' /\ (FinishRealloc \/ Evict \/ hu_init \/ LifeCycle \/ UNCHANGED vars)
    <3>1. /\ UNCHANGED <<hu_env, todo, live, dangling, double_frees, allocations,
                         total_invalid_dealloc_count>>
          /\ hu_env.doublefree => UNCHANGED freed_allocations
      BY <1>2, <2>4, OtherStepIs DEF CoreInv, Environment, LogConfigOf
    <3>2. hu_env.doublefree /\ Remembered => Remembered'
      BY <3>1 DEF Remembered, FreedOnce, ToFree, CountIsNat, Due
    <3> QED
      BY <1>2, <2>4, <3>1, <3>2 DEF SecondInv
  <2> QED
    BY <1>2, <2>1, <2>2, <2>3, <2>4, NextCore
<1> QED
  BY <1>1, <1>2 DEF SecondInv

LEMMA InitSecond == Init => SecondInv
<1> SUFFICES ASSUME Init PROVE SecondInv
  OBVIOUS
<1>1. /\ todo = <<>> /\ DOMAIN live = {} /\ DOMAIN dangling = {}
      /\ total_invalid_dealloc_count = 0 /\ double_frees.second = 0
  BY DEF Init, InitHuLog, NoEntries
<1>2. ToFree = {} /\ FreedOnce = {} /\ Due = 0
  BY <1>1, NoEvents DEF ToFree, FreedOnce, Due, IsDue
<1>3. Remembered
  BY <1>1, <1>2 DEF Remembered, CountIsNat
<1> QED
  BY <1>3, InitCore DEF SecondInv

\* With double-free detection the second free of a block is counted by the time
\* the wrapper returns, however many blocks have been handed out, freed and
\* evicted since the first (hulog.cpp:300-336).
THEOREM SecondFreesReported ==
  ASSUME OneThread, AllocationsSucceed, NoEmptyRequests, LogsEveryBlock, NoLibobjc
  PROVE  Spec /\ LibcNotices => []SecondFreeIsReported
<1>1. SecondInv /\ [Next]_vars /\ [Noticed]_vars => SecondInv'
  BY NextSecond
<1>2. SecondInv => SecondFreeIsReported
  <2> SUFFICES ASSUME CoreInv, Remembered, todo = <<>>
               PROVE  total_invalid_dealloc_count >= double_frees.second
    BY DEF SecondInv, SecondFreeIsReported, Stopped, Idle
  <2>1. Due = 0
    BY DEF Due, IsDue
  <2> QED
    BY <2>1 DEF Remembered, CountIsNat
<1> QED
  BY <1>1, <1>2, InitSecond, PTL DEF Spec, LibcNotices

-----------------------------------------------------------------------------
(***************************************************************************)
(* The quarantine's byte count.                                            *)
(***************************************************************************)
SysSizes(queue) == [i \in 1 .. Len(queue) |-> queue[i].sys_size]
KeptBytes(queue) == SumOf(SysSizes(queue), 1 .. Len(queue))

LEMMA SumOfSysSizes ==
  ASSUME NEW map, NEW S, IsFiniteSet(S)
  PROVE  MapThenSumSet(LAMBDA x : map[x].sys_size, S) = SumOf([x \in S |-> map[x].sys_size], S)
<1> DEFINE g == [x \in S |-> map[x].sys_size]
           Own(it) == it = [s \in SUBSET S |->
                              IF s = {} THEN 0 ELSE map[Pick(s)].sys_size + it[s \ {Pick(s)}]]
           sums == CHOOSE it : Own(it)
<1>1. ASSUME NEW it PROVE Own(it) <=> IsSums(it, g, S)
  <2>1. \A s \in SUBSET S : s # {} => map[Pick(s)].sys_size = g[Pick(s)]
    BY PickIsIn
  <2> HIDE DEF g
  <2> QED BY <2>1 DEF IsSums
<1>2. Own(sums)
  <2>1. \E it : Own(it)
    <3> HIDE DEF g, Own
    <3> QED BY <1>1, SumsExist
  <2> HIDE DEF Own
  <2> QED BY <2>1
<1>3. MapThenSumSet(LAMBDA x : map[x].sys_size, S) = sums[S]
  BY DEF MapThenSumSet, MapThenFoldSet, Pick
<1> HIDE DEF g, Own, sums
<1>4. sums[S] = SumOf(g, S)
  BY <1>1, <1>2, SumIs
<1> QED
  BY <1>3, <1>4 DEF g

LEMMA SumOfOne ==
  ASSUME NEW g, NEW x, g[x] \in Nat
  PROVE  SumOf(g, {x}) = g[x]
<1>1. IsFiniteSet({x}) /\ IsFiniteSet({})
  BY FS_Singleton, FS_EmptySet
<1>2. SumOf(g, {x}) = g[x] + SumOf(g, {x} \ {x})
  BY <1>1, SumRemove
<1>3. {x} \ {x} = {} /\ SumOf(g, {}) = 0
  BY <1>1, SumPick
<1> QED
  BY <1>2, <1>3

\* Quarantined records and their sizes.
LEMMA KeptTypes ==
  ASSUME NEW queue \in Seq(hu_alloc_info)
  PROVE  /\ Len(queue) \in Nat
         /\ IsFiniteSet(1 .. Len(queue))
         /\ \A i \in 1 .. Len(queue) :
              /\ queue[i] \in hu_alloc_info
              /\ SysSizes(queue)[i] = queue[i].sys_size
              /\ SysSizes(queue)[i] \in Nat
         /\ KeptBytes(queue) \in Nat
<1>1. Len(queue) \in Nat /\ \A i \in 1 .. Len(queue) : queue[i] \in hu_alloc_info
  OBVIOUS
<1>2. IsFiniteSet(1 .. Len(queue))
  BY <1>1, FS_Interval
<1>3. \A i \in 1 .. Len(queue) :
        SysSizes(queue)[i] = queue[i].sys_size /\ SysSizes(queue)[i] \in Nat
  BY <1>1 DEF SysSizes, hu_alloc_info
<1>4. KeptBytes(queue) \in Nat
  BY <1>2, <1>3, SumNat DEF KeptBytes
<1> QED
  BY <1>1, <1>2, <1>3, <1>4

\* hu_free's push_back.
LEMMA KeptMore ==
  ASSUME NEW queue \in Seq(hu_alloc_info), NEW info \in hu_alloc_info
  PROVE  KeptBytes(Append(queue, info)) = KeptBytes(queue) + info.sys_size
<1> DEFINE more == Append(queue, info)
           n == Len(queue)
<1>1. /\ n \in Nat
      /\ more \in Seq(hu_alloc_info)
      /\ Len(more) = n + 1
      /\ more[n + 1] = info
      /\ \A i \in 1 .. n : more[i] = queue[i]
  OBVIOUS
<1> HIDE DEF more, n
<1>2. /\ \A i \in 1 .. n + 1 : SysSizes(more)[i] \in Nat
      /\ SysSizes(more)[n + 1] = info.sys_size
      /\ \A i \in 1 .. n : SysSizes(more)[i] = SysSizes(queue)[i]
      /\ IsFiniteSet(1 .. n + 1) /\ IsFiniteSet(1 .. n)
  <2>1. \A i \in 1 .. n : i \in 1 .. n + 1
    BY <1>1
  <2>2. n + 1 \in 1 .. n + 1
    BY <1>1
  <2> QED
    BY <1>1, <2>1, <2>2, KeptTypes DEF n
<1>3. SumOf(SysSizes(more), 1 .. n + 1)
        = info.sys_size + SumOf(SysSizes(more), (1 .. n + 1) \ {n + 1})
  <2> DEFINE all == 1 .. n + 1
             last == n + 1
             sizes == SysSizes(more)
  <2>1. last \in all /\ IsFiniteSet(all) /\ \A i \in all : sizes[i] \in Nat
    BY <1>1, <1>2
  <2> HIDE DEF all, last, sizes
  <2>2. SumOf(sizes, all) = sizes[last] + SumOf(sizes, all \ {last})
    BY <2>1, SumRemove
  <2> QED
    BY <1>2, <2>2 DEF all, last, sizes
<1>4. (1 .. n + 1) \ {n + 1} = 1 .. n
  BY <1>1
<1>5. SumOf(SysSizes(more), 1 .. n) = SumOf(SysSizes(queue), 1 .. n)
  BY <1>2, SumSame
<1>6. info.sys_size \in Nat /\ SumOf(SysSizes(queue), 1 .. n) \in Nat
  BY KeptTypes DEF hu_alloc_info, KeptBytes, n
<1>7. KeptBytes(more) = SumOf(SysSizes(more), 1 .. n + 1)
  BY <1>1 DEF KeptBytes
<1>8. KeptBytes(queue) = SumOf(SysSizes(queue), 1 .. n)
  BY DEF KeptBytes, n
<1>9. KeptBytes(more) = KeptBytes(queue) + info.sys_size
  <2>1. KeptBytes(more) = info.sys_size + SumOf(SysSizes(more), 1 .. n)
    BY <1>3, <1>4, <1>7, Zenon
  <2>2. KeptBytes(more) = info.sys_size + KeptBytes(queue)
    BY <1>5, <1>8, <2>1, Zenon
  <2>3. KeptBytes(queue) \in Nat
    BY <1>6, <1>8, Zenon
  <2> QED
    BY <1>6, <2>2, <2>3
<1> QED
  BY <1>9 DEF more

\* hu_free's pop_front.
LEMMA KeptLess ==
  ASSUME NEW queue \in Seq(hu_alloc_info), queue # <<>>
  PROVE  KeptBytes(queue) = Head(queue).sys_size + KeptBytes(Tail(queue))
<1> DEFINE rest == Tail(queue)
           n == Len(rest)
           g == SysSizes(queue)
           h == SysSizes(rest)
           key == [i \in 2 .. n + 1 |-> i - 1]
<1>1. /\ n \in Nat
      /\ rest \in Seq(hu_alloc_info)
      /\ Len(queue) = n + 1
      /\ Head(queue) = queue[1]
      /\ \A i \in 1 .. n : rest[i] = queue[i + 1]
  OBVIOUS
<1>2. /\ \A i \in 1 .. n + 1 : g[i] = queue[i].sys_size /\ g[i] \in Nat
      /\ \A i \in 1 .. n : h[i] = rest[i].sys_size /\ h[i] \in Nat
      /\ IsFiniteSet(1 .. n + 1) /\ IsFiniteSet(1 .. n)
  <2> HIDE DEF rest
  <2> QED
    BY <1>1, KeptTypes
<1>3. /\ \A i \in 2 .. n + 1 : key[i] = i - 1
      /\ KeptBytes(queue) = SumOf(g, 1 .. n + 1)
      /\ KeptBytes(rest) = SumOf(h, 1 .. n)
  BY <1>1 DEF KeptBytes
<1> HIDE DEF rest, n, g, h, key
<1>4. SumOf(g, 1 .. n + 1) = g[1] + SumOf(g, 2 .. n + 1)
  <2>1. (1 .. n + 1) \ {1} = 2 .. n + 1 /\ 1 \in 1 .. n + 1
    BY <1>1
  <2>2. SumOf(g, 1 .. n + 1) = g[1] + SumOf(g, (1 .. n + 1) \ {1})
    <3> DEFINE all == 1 .. n + 1
    <3>1. 1 \in all /\ IsFiniteSet(all) /\ \A i \in all : g[i] \in Nat
      BY <1>2, <2>1
    <3> HIDE DEF all
    <3>2. SumOf(g, all) = g[1] + SumOf(g, all \ {1})
      BY <3>1, SumRemove
    <3> QED
      BY <3>2 DEF all
  <2> QED
    BY <2>1, <2>2
<1>5. Grouped(h, 1 .. n, g, 2 .. n + 1, key)
  <2>1. IsFiniteSet(2 .. n + 1)
    <3>1. 2 .. n + 1 \subseteq 1 .. n + 1
      BY <1>1
    <3> QED
      BY <1>2, <3>1, FS_Subset
  <2>2. \A i \in 2 .. n + 1 : g[i] \in Nat /\ key[i] \in 1 .. n
    BY <1>1, <1>2, <1>3
  <2>3. ASSUME NEW k \in 1 .. n
        PROVE  h[k] = SumOf(g, {i \in 2 .. n + 1 : key[i] = k})
    <3>1. {i \in 2 .. n + 1 : key[i] = k} = {k + 1}
      <4>1. \A i \in 2 .. n + 1 : key[i] = k <=> i = k + 1
        BY <1>1, <1>3
      <4>2. k + 1 \in 2 .. n + 1
        BY <1>1
      <4> QED
        BY <4>1, <4>2
    <3>2. k + 1 \in 1 .. n + 1
      BY <1>1
    <3>3. SumOf(g, {k + 1}) = g[k + 1]
      BY <1>2, <3>2, SumOfOne
    <3>4. g[k + 1] = queue[k + 1].sys_size /\ h[k] = rest[k].sys_size
      BY <1>2, <3>2
    <3> QED
      BY <1>1, <3>1, <3>3, <3>4
  <2> QED
    BY <1>2, <2>1, <2>2, <2>3 DEF Grouped
<1>6. SumOf(h, 1 .. n) = SumOf(g, 2 .. n + 1)
  BY <1>5, SumOfGroups
<1>7. g[1] = Head(queue).sys_size
  BY <1>1, <1>2
<1> QED
  BY <1>3, <1>4, <1>6, <1>7 DEF rest

QuarantineFits == KeptBytes(hu_quarantine_allocs) < SizeMod

\* The blocks of the quarantine lie apart in the heap, so that together they are
\* no larger than it.
LEMMA KeptFit == MemoryInv => QuarantineFits
<1> SUFFICES ASSUME MemoryInv PROVE KeptBytes(hu_quarantine_allocs) < SizeMod
  BY DEF QuarantineFits
<1> DEFINE q == hu_quarantine_allocs
           n == Len(q)
           sizes == SysSizes(q)
           bytes == {addr \in Addresses : \E i \in 1 .. n : addr \in Block(q[i])}
           ones == [addr \in bytes |-> 1]
           key == [addr \in bytes |-> CHOOSE i \in 1 .. n : addr \in Block(q[i])]
<1>1. HeapInv /\ Apart(libc_blocks)
  BY DEF MemoryInv, AllocatorInv, GeometryInv
<1>2. /\ n \in Nat
      /\ q \in Seq(hu_alloc_info)
      /\ MemLast \in Nat /\ MemLast < SizeMod
  BY <1>1, LibcAssumption, LayoutAssumption DEF HeapInv, HeapTypes
<1>3. \A i \in 1 .. n :
        /\ q[i] \in hu_alloc_info
        /\ Block(q[i]) \subseteq Addresses
        /\ sizes[i] = q[i].sys_size
  <2>1. \A i \in 1 .. n :
          /\ q[i] \in hu_alloc_info
          /\ q[i].sys_ptr \in DOMAIN libc_blocks
          /\ libc_blocks[q[i].sys_ptr] = q[i].sys_size
    BY <1>1, RecordTypes
  <2> QED
    BY <1>1, <1>2, <2>1, BlockInHeap, KeptTypes DEF Block
<1>4. \A i, j \in 1 .. n : i # j => Block(q[i]) \cap Block(q[j]) = {}
  BY <1>1, OwnersApart
<1>5. /\ IsFiniteSet(Addresses) /\ Cardinality(Addresses) = MemLast
      /\ IsFiniteSet(bytes) /\ Cardinality(bytes) <= MemLast
      /\ Cardinality(bytes) \in Nat
  <2>1. IsFiniteSet(Addresses) /\ Cardinality(Addresses) = MemLast
    BY <1>2, FS_Interval DEF Addresses
  <2>2. bytes \subseteq Addresses
    OBVIOUS
  <2> HIDE DEF bytes
  <2> QED
    BY <2>1, <2>2, FS_Subset, FS_CardinalityType
<1>6. \A i \in 1 .. n : \A addr : addr \in Block(q[i]) <=> addr \in bytes /\ key[addr] = i
  <2> SUFFICES ASSUME NEW i \in 1 .. n, NEW addr
               PROVE  addr \in Block(q[i]) <=> addr \in bytes /\ key[addr] = i
    OBVIOUS
  <2>1. ASSUME addr \in bytes PROVE key[addr] \in 1 .. n /\ addr \in Block(q[key[addr]])
    BY <2>1
  <2>2. addr \in Block(q[i]) => addr \in bytes
    BY <1>3
  <2> HIDE DEF bytes, key
  <2> QED
    BY <1>4, <2>1, <2>2
<1>7. \A addr \in bytes : key[addr] \in 1 .. n /\ ones[addr] = 1
  OBVIOUS
<1> HIDE DEF q, n, sizes, bytes, ones, key
<1>8. ASSUME NEW i \in 1 .. n
      PROVE  sizes[i] = SumOf(ones, {addr \in bytes : key[addr] = i})
  <2>1. {addr \in bytes : key[addr] = i} = Block(q[i])
    BY <1>6
  <2>2. q[i].sys_ptr \in Nat /\ q[i].sys_size \in Nat
    BY <1>2, <1>3 DEF hu_alloc_info, Addresses
  <2>3. IsFiniteSet(Block(q[i])) /\ Cardinality(Block(q[i])) = q[i].sys_size
    <3>1. Block(q[i]) = q[i].sys_ptr .. (q[i].sys_ptr + q[i].sys_size - 1)
      BY DEF Block, Span
    <3> DEFINE a == q[i].sys_ptr
               b == q[i].sys_ptr + q[i].sys_size - 1
    <3>2. a \in Int /\ b \in Int
      BY <2>2
    <3>3. IsFiniteSet(a .. b) /\ Cardinality(a .. b) = IF a > b THEN 0 ELSE b - a + 1
      <4> HIDE DEF a, b
      <4> QED
        BY <3>2, FS_Interval
    <3> QED
      BY <2>2, <3>1, <3>3
  <2>4. \A addr \in Block(q[i]) : ones[addr] = 1
    BY <1>6, <1>7
  <2>5. SumOf(ones, Block(q[i])) = Cardinality(Block(q[i]))
    BY <2>3, <2>4, SumOfOnes
  <2> QED
    BY <1>3, <2>1, <2>3, <2>5
<1>9. Grouped(sizes, 1 .. n, ones, bytes, key)
  <2>1. IsFiniteSet(1 .. n)
    BY <1>2, FS_Interval
  <2> QED
    BY <1>5, <1>7, <1>8, <2>1 DEF Grouped
<1>10. SumOf(sizes, 1 .. n) = Cardinality(bytes)
  <2>1. SumOf(sizes, 1 .. n) = SumOf(ones, bytes)
    BY <1>9, SumOfGroups
  <2>2. SumOf(ones, bytes) = Cardinality(bytes)
    BY <1>5, <1>7, SumOfOnes
  <2> QED
    BY <2>1, <2>2
<1>11. KeptBytes(hu_quarantine_allocs) = SumOf(sizes, 1 .. n)
  BY DEF KeptBytes, sizes, n, q
<1>12. SizeMod \in Nat
  BY LayoutAssumption
<1> QED
  BY <1>2, <1>5, <1>10, <1>11, <1>12

QuarantineInv == hu_quarantine_size = KeptBytes(hu_quarantine_allocs)

\* A fenced block is freed: the count takes its size, and does not wrap.
LEMMA ReleaseCounts ==
  ASSUME MemoryInv, MemoryInv', QuarantineInv, NEW ptr, Release(ptr)
  PROVE  QuarantineInv'
<1>1. CASE UNCHANGED quarantineVars
  BY <1>1 DEF quarantineVars, QuarantineInv, KeptBytes, SysSizes
<1>2. CASE ptr \in DOMAIN hu_active_allocs /\ Quarantine(hu_active_allocs[ptr])
  <2> DEFINE info == hu_active_allocs[ptr]
  <2>1. /\ hu_quarantine_allocs \in Seq(hu_alloc_info)
        /\ info \in hu_alloc_info
    BY <1>2 DEF MemoryInv, AllocatorInv, HeapInv, HeapTypes, AddressMap
  <2>2. /\ hu_quarantine_allocs' = Append(hu_quarantine_allocs, info)
        /\ hu_quarantine_size' = (hu_quarantine_size + info.sys_size) % SizeMod
    BY <1>2 DEF Quarantine
  <2> HIDE DEF info
  <2>3. KeptBytes(hu_quarantine_allocs)' = KeptBytes(hu_quarantine_allocs) + info.sys_size
    BY <2>1, <2>2, KeptMore DEF KeptBytes, SysSizes
  <2>4. KeptBytes(hu_quarantine_allocs)' < SizeMod
    <3>1. QuarantineFits'
      BY KeptFit, PTL
    <3> QED
      BY <3>1 DEF QuarantineFits
  <2>5. KeptBytes(hu_quarantine_allocs) \in Nat /\ info.sys_size \in Nat /\ SizeMod \in Nat
    BY <2>1, KeptTypes, LayoutAssumption DEF hu_alloc_info
  <2> QED
    BY <2>2, <2>3, <2>4, <2>5, SmallRemainder DEF QuarantineInv
<1> QED
  BY <1>1, <1>2 DEF Release, GiveBack

\* A round of the eviction loop takes the size of the oldest block off.
LEMMA EvictCounts ==
  ASSUME MemoryInv, QuarantineInv, EvictOldest
  PROVE  QuarantineInv'
<1> DEFINE oldest == Head(hu_quarantine_allocs)
           rest == Tail(hu_quarantine_allocs)
<1>1. hu_quarantine_allocs \in Seq(hu_alloc_info) /\ hu_quarantine_allocs # <<>>
  BY DEF MemoryInv, AllocatorInv, HeapInv, HeapTypes, EvictOldest, OverLimit
<1>2. oldest \in hu_alloc_info /\ rest \in Seq(hu_alloc_info)
  BY <1>1
<1>3. /\ hu_quarantine_allocs' = rest
      /\ hu_quarantine_size' = (hu_quarantine_size - oldest.sys_size) % SizeMod
  BY DEF EvictOldest
<1>4. KeptBytes(hu_quarantine_allocs) = oldest.sys_size + KeptBytes(rest)
  BY <1>1, KeptLess
<1>5. KeptBytes(hu_quarantine_allocs) < SizeMod
  BY KeptFit DEF QuarantineFits
<1> HIDE DEF oldest, rest
<1>6. KeptBytes(rest) \in Nat /\ oldest.sys_size \in Nat /\ SizeMod \in Nat
  BY <1>2, KeptTypes, LayoutAssumption DEF hu_alloc_info
<1>7. KeptBytes(hu_quarantine_allocs)' = KeptBytes(rest)
  BY <1>3
<1>8. hu_quarantine_size' = KeptBytes(rest)
  <2>1. hu_quarantine_size - oldest.sys_size = KeptBytes(rest) /\ KeptBytes(rest) < SizeMod
    BY <1>4, <1>5, <1>6 DEF QuarantineInv
  <2> QED
    BY <1>3, <1>6, <2>1, SmallRemainder
<1> QED
  BY <1>7, <1>8 DEF QuarantineInv

LEMMA NextQuarantine ==
  MemoryInv /\ QuarantineInv /\ [NextHuMalloc]_mallocVars => QuarantineInv'
<1> SUFFICES ASSUME MemoryInv, QuarantineInv, [NextHuMalloc]_mallocVars PROVE QuarantineInv'
  OBVIOUS
<1>0. MemoryInv'
  BY NextMemory
<1>1. CASE UNCHANGED quarantineVars
  BY <1>1 DEF quarantineVars, QuarantineInv, KeptBytes, SysSizes
<1>2. CASE \E ptr : Release(ptr)
  BY <1>0, <1>2, ReleaseCounts
<1>3. CASE EvictOldest
  BY <1>3, EvictCounts
<1>4. UNCHANGED quarantineVars \/ (\E ptr : Release(ptr)) \/ EvictOldest
  <2>1. ASSUME NEW config, hu_malloc_init(config) PROVE UNCHANGED quarantineVars
    BY <2>1 DEF hu_malloc_init
  <2>2. ASSUME NEW size, NEW ret, hu_malloc(size, ret) PROVE UNCHANGED quarantineVars
    BY <2>2 DEF hu_malloc
  <2>3. ASSUME NEW count, NEW size, NEW ret, hu_calloc(count, size, ret)
        PROVE  UNCHANGED quarantineVars
    BY <2>3 DEF hu_calloc
  <2>4. ASSUME NEW ptr, hu_free(ptr) PROVE Release(ptr)
    BY <2>4 DEF hu_free
  <2>5. ASSUME NEW ptr, NEW size, NEW ret, hu_realloc(ptr, size, ret)
        PROVE  UNCHANGED quarantineVars \/ Release(ptr)
    BY <2>5 DEF hu_realloc, ReallocPassedOn, ReallocMoved
  <2>6. ReallocFree => \E ptr : Release(ptr)
    BY DEF ReallocFree
  <2>7. UNCHANGED mallocVars => UNCHANGED quarantineVars
    BY DEF mallocVars
  <2> QED
    BY <2>1, <2>2, <2>3, <2>4, <2>5, <2>6, <2>7 DEF NextHuMalloc
<1> QED
  BY <1>1, <1>2, <1>3, <1>4

LEMMA InitQuarantine == InitHuMalloc => QuarantineInv
<1> SUFFICES ASSUME InitHuMalloc PROVE QuarantineInv
  OBVIOUS
<1>1. Len(hu_quarantine_allocs) = 0 /\ hu_quarantine_size = 0
  BY DEF InitHuMalloc
<1>2. 1 .. 0 = {}
  OBVIOUS
<1>3. SumOf(SysSizes(hu_quarantine_allocs), {}) = 0
  BY SumPick, FS_EmptySet
<1> QED
  BY <1>1, <1>2, <1>3 DEF QuarantineInv, KeptBytes

\* The quarantine's count is the sum of what is in it: it neither drifts nor
\* wraps, and between two calls the sum is within the limit.
THEOREM QuarantineBounded == SpecHuMalloc => []QuarantineIsBounded
<1>1. InitHuMalloc => QuarantineInv
  BY InitQuarantine
<1>2. MemoryInv /\ QuarantineInv => QuarantineIsBounded
  <2> SUFFICES ASSUME MemoryInv, QuarantineInv PROVE QuarantineIsBounded
    OBVIOUS
  <2> DEFINE n == Len(hu_quarantine_allocs)
             bytes == MapThenSumSet(LAMBDA i : hu_quarantine_allocs[i].sys_size, 1 .. n)
  <2>1. /\ hu_quarantine_allocs \in Seq(hu_alloc_info)
        /\ hu_config.quarantine_max_size \in Nat
    BY DEF MemoryInv, AllocatorInv, HeapInv, HeapTypes
  <2>2. bytes = KeptBytes(hu_quarantine_allocs)
    <3>1. IsFiniteSet(1 .. n)
      BY <2>1, KeptTypes
    <3> HIDE DEF n
    <3>2. bytes = SumOf([i \in 1 .. n |-> hu_quarantine_allocs[i].sys_size], 1 .. n)
      BY <3>1, SumOfSysSizes
    <3> QED
      BY <3>2 DEF KeptBytes, SysSizes, n
  <2> HIDE DEF bytes
  <2>3. hu_quarantine_size = bytes
    BY <2>2 DEF QuarantineInv
  <2>4. ASSUME Idle PROVE bytes <= hu_config.quarantine_max_size
    <3>1. KeptBytes(hu_quarantine_allocs) \in Nat
      BY <2>1, KeptTypes
    <3>2. CASE hu_quarantine_allocs = <<>>
      <4>1. KeptBytes(hu_quarantine_allocs) = 0
        <5>1. Len(hu_quarantine_allocs) = 0
          BY <3>2
        <5>2. 1 .. 0 = {}
          OBVIOUS
        <5>3. SumOf(SysSizes(hu_quarantine_allocs), {}) = 0
          BY SumPick, FS_EmptySet
        <5> QED
          BY <5>1, <5>2, <5>3 DEF KeptBytes
      <4> QED
        BY <2>1, <2>2, <4>1
    <3>3. CASE ~(hu_quarantine_size > hu_config.quarantine_max_size)
      BY <2>1, <2>2, <2>3, <3>1, <3>3
    <3> QED
      BY <2>4, <3>2, <3>3 DEF Idle, OverLimit
  <2> QED
    BY <2>3, <2>4 DEF QuarantineIsBounded, bytes
<1> QED
  BY <1>1, <1>2, MemoryInvariant, NextQuarantine, PTL DEF SpecHuMalloc

-----------------------------------------------------------------------------
(***************************************************************************)
(* The records of freed blocks and the quarantine.                         *)
(***************************************************************************)

\* No block of those the program may ask for is larger than the quarantine.
FitsQuarantine ==
  \A env \in Tools : env.useafterfree =>
    \A size \in Requests :
      hu_calc_sys_size(hu_calc_user_size(size), env.overflow)
        <= QuarantineMaxSize(env.quarantine_pct)

\* The program resizes no block that has no pages of its own: hu_realloc leaves
\* it to libc, which gives it none, whatever its new size.
Resizes ==
  hu_malloc_inited =>
    \A ptr \in DOMAIN live \ DOMAIN hu_active_allocs, size \in Sizes \ {0} : ~realloc(ptr, size)
FencedResizes == [][Resizes]_vars

\* hu_init has passed the tools on to humalloc, if they need it.
SetUp ==
  /\ hu_malloc_inited =>
       hu_config = [overflow |-> hu_env.overflow, useafterfree |-> hu_env.useafterfree,
                    minsize |-> hu_env.minsize,
                    quarantine_max_size |-> QuarantineMaxSize(hu_env.quarantine_pct)]
  /\ stage # "loading" /\ hu_enable_humalloc(hu_env) => hu_malloc_inited

\* What the ledger should hold has pages of its own.
OwedIsFenced == hu_enable_humalloc(hu_env) => Owed \subseteq DOMAIN hu_active_allocs

Kept(p) == \E i \in 1 .. Len(hu_quarantine_allocs) : hu_quarantine_allocs[i].user_ptr = p

NewestIs(p) ==
  /\ hu_quarantine_allocs # <<>>
  /\ hu_quarantine_allocs[Len(hu_quarantine_allocs)].user_ptr = p

OnlyAccess == hu_env.useafterfree /\ ~hu_env.doublefree

FreedAreKept == OnlyAccess => \A p \in DOMAIN freed_allocations : Kept(p)

\* A block that is to be logged as freed is still active, or in quarantine and
\* the newest there: an eviction does not reach it.
NextFreedIsKept ==
  /\ pending_free # NULL => ToFree \subseteq {pending_free}
  /\ OnlyAccess => \A p \in ToFree \cap DOMAIN allocations :
                     (pending_free # NULL /\ p = pending_free) \/ NewestIs(p)

EachFits ==
  OnlyAccess =>
    /\ \A p \in DOMAIN hu_active_allocs :
         hu_active_allocs[p].sys_size <= hu_config.quarantine_max_size
    /\ \A i \in 1 .. Len(hu_quarantine_allocs) :
         hu_quarantine_allocs[i].sys_size <= hu_config.quarantine_max_size

RecordsCore ==
  /\ CoreInv /\ QuarantineInv
  /\ SetUp /\ OwedIsFenced /\ FreedAreKept /\ NextFreedIsKept /\ EachFits

RecordsInv == (Stopped /\ FreedAreKept) \/ RecordsCore

-----------------------------------------------------------------------------
(***************************************************************************)
(* What a wrapper call does to humalloc's records.                         *)
(***************************************************************************)

\* A block for ret, if it is large enough to get pages of its own.
Tracked(ret, size) ==
  \/ UNCHANGED hu_active_allocs /\ (ret = NULL \/ PlainRequest(size))
  \/ /\ ret # NULL /\ ~PlainRequest(size) /\ ret \notin DOMAIN hu_active_allocs
     /\ DOMAIN hu_active_allocs' = DOMAIN hu_active_allocs \cup {ret}
     /\ \A p \in DOMAIN hu_active_allocs : hu_active_allocs'[p] = hu_active_allocs[p]
     /\ hu_active_allocs'[ret].user_ptr = ret
     /\ hu_active_allocs'[ret].user_size = size
     /\ hu_active_allocs'[ret].sys_ptr % PageSize = 0
     /\ hu_active_allocs'[ret].sys_size = SysSize(size)
     /\ ~hu_config.overflow => hu_active_allocs'[ret].sys_ptr = ret

\* An allocation; of a realloc that moves a block, the first half.
Grows(old, ret, size) ==
  /\ UNCHANGED <<setupVars, quarantineVars>>
  /\ pending_free' = IF old \in DOMAIN hu_active_allocs THEN old ELSE NULL
  /\ Tracked(ret, size)

Shrinks(old, ret, size) ==
  /\ Release(old) /\ ret = NULL /\ size = 0
  /\ UNCHANGED <<setupVars, pending_free>>

LEMMA AllocateTracked ==
  ASSUME HeapInv, NEW size \in Nat, Representable(size), NEW ret \in Results,
         Allocate(size, ret), UNCHANGED <<setupVars, quarantineVars>>
  PROVE  Tracked(ret, size)
<1>1. CASE PlainRequest(size) \/ ret = NULL
  BY <1>1 DEF Allocate, FencedMalloc, Tracked, trackVars
<1>2. CASE ~PlainRequest(size) /\ ret # NULL
  <2>1. ret \notin DOMAIN hu_active_allocs
    BY <1>2, AllocateAllocated DEF Allocated
  <2> DEFINE info == [user_ptr |-> ret, user_size |-> size,
                      sys_ptr |-> ret - UserOffset(size, hu_config.overflow),
                      sys_size |-> SysSize(size)]
  <2>2. /\ hu_active_allocs' = MapInsert(hu_active_allocs, ret, info)
        /\ info.sys_ptr % PageSize = 0
    <3>1. LibcMemalign(SysSize(size), info.sys_ptr) /\ info.sys_ptr # NULL
      BY <1>2 DEF Allocate, FencedMalloc
    <3>2. info.sys_ptr % PageSize = 0
      <4> HIDE DEF info
      <4> QED
        BY <3>1 DEF LibcMemalign
    <3>3. hu_active_allocs' = MapInsert(hu_active_allocs, ret, info)
      BY <1>2 DEF Allocate, FencedMalloc
    <3> QED
      BY <3>2, <3>3
  <2>3. /\ info.user_ptr = ret /\ info.user_size = size /\ info.sys_size = SysSize(size)
        /\ ~hu_config.overflow => info.sys_ptr = ret
    BY LibcAssumption DEF UserOffset, Results, Addresses, NULL
  <2> HIDE DEF info
  <2> QED
    BY <1>2, <2>1, <2>2, <2>3 DEF MapInsert, Tracked
<1> QED
  BY <1>1, <1>2

LEMMA RequestTypes ==
  ASSUME NEW size \in Requests
  PROVE  size \in Nat /\ Representable(size)
<1>1. CASE size \in Sizes
  BY <1>1, HuMallocAssumption
<1>2. CASE \E nmemb \in Counts, each \in Sizes : size = nmemb * each
  <2> PICK nmemb \in Counts, each \in Sizes : size = nmemb * each
    BY <1>2
  <2> QED
    BY TotalIsProduct
<1> QED
  BY <1>1, <1>2 DEF Requests

LEMMA CallEffect ==
  ASSUME CoreInv, Resizes, AllocationsSucceed,
         NEW old \in Results, NEW ret \in Results, NEW size \in Nat,
         HeapCall(old, ret, size), size \in Requests \/ ret = NULL
  PROVE  Idle /\ (Grows(old, ret, size) \/ Shrinks(old, ret, size))
<1>1. /\ HeapInv
      /\ DOMAIN hu_active_allocs \subseteq Addresses /\ NULL \notin Addresses
      /\ ~hu_malloc_inited => DOMAIN hu_active_allocs = {}
  BY LibcAssumption DEF CoreInv, MemoryInv, AllocatorInv, HeapInv, HeapTypes, AddressMap,
     NothingBeforeInit, NULL, Addresses
<1>2. ASSUME Allocate(size, ret), UNCHANGED <<setupVars, quarantineVars>>
      PROVE  Tracked(ret, size)
  <2>1. CASE size \in Requests
    BY <1>1, <1>2, <2>1, RequestTypes, AllocateTracked
  <2>2. CASE ret = NULL
    BY <1>2, <2>2 DEF Allocate, FencedMalloc, Tracked, trackVars
  <2> QED
    BY <2>1, <2>2
<1>3. ASSUME old = NULL, hu_malloc(size, ret) PROVE Idle /\ Grows(old, ret, size)
  BY <1>1, <1>2, <1>3 DEF hu_malloc, Grows, Idle
<1>4. ASSUME old = NULL, NEW nmemb \in Counts, NEW each \in Sizes, size = nmemb * each,
             hu_calloc(nmemb, each, ret)
      PROVE  Idle /\ Grows(old, ret, size)
  <2>1. CallocTotal(nmemb, each) = size
    BY <1>4, TotalIsProduct
  <2>2. UNCHANGED <<setupVars, quarantineVars, pending_free>> /\ Idle
    BY <1>4 DEF hu_calloc
  <2>3. Tracked(ret, size)
    <3>1. CASE hu_malloc_inited /\ nmemb # 0 /\ each # 0
      BY <1>2, <1>4, <2>1, <2>2, <3>1 DEF hu_calloc, Tracked, trackVars
    <3>2. CASE ~(hu_malloc_inited /\ nmemb # 0 /\ each # 0)
      <4>1. PlainRequest(size)
        BY <1>4, <3>2, HuMallocAssumption DEF PlainRequest
      <4> QED
        BY <1>4, <3>2, <4>1 DEF hu_calloc, Tracked, trackVars
    <3> QED
      BY <3>1, <3>2
  <2> QED
    BY <1>1, <1>4, <2>2, <2>3 DEF Grows, Idle
<1>5. ASSUME size \in Sizes, old \in Reallocable, realloc(old, size), hu_realloc(old, size, ret)
      PROVE  Idle /\ (Grows(old, ret, size) \/ Shrinks(old, ret, size))
  <2>1. Idle /\ pending_free = NULL /\ UNCHANGED setupVars
    BY <1>5 DEF hu_realloc, Idle
  <2>2. CASE ReallocMoved(old, size, ret)
    BY <1>2, <2>1, <2>2 DEF ReallocMoved, Grows
  <2>3. CASE /\ ~hu_malloc_inited
             /\ UNCHANGED <<protVars, trackVars, quarantineVars, pending_free>>
    BY <1>1, <2>1, <2>3 DEF Grows, Tracked, PlainRequest, trackVars
  <2>4. CASE hu_malloc_inited /\ old # NULL /\ size # 0 /\ old \notin DOMAIN hu_active_allocs
    BY <1>5, <2>4 DEF Resizes, Reallocable
  <2>5. CASE /\ hu_malloc_inited /\ old = NULL /\ Allocate(size, ret)
             /\ UNCHANGED <<quarantineVars, pending_free>>
    BY <1>1, <1>2, <2>1, <2>5 DEF Grows
  <2>6. CASE /\ size = 0 /\ ret = NULL /\ Release(old) /\ UNCHANGED pending_free
    BY <2>1, <2>6 DEF Shrinks
  <2> QED
    BY <1>5, <2>1, <2>2, <2>3, <2>4, <2>5, <2>6 DEF hu_realloc, ReallocPassedOn
<1>6. ASSUME size = 0, ret = NULL, hu_free(old) PROVE Idle /\ Shrinks(old, ret, size)
  BY <1>6 DEF hu_free, Shrinks
<1> QED
  BY <1>3, <1>4, <1>5, <1>6 DEF HeapCall

\* Giving a block back.
LEMMA ReleaseEffect ==
  ASSUME HeapInv, NEW ptr, Release(ptr)
  PROVE  /\ DOMAIN hu_active_allocs' = DOMAIN hu_active_allocs \ {ptr}
         /\ \A p \in DOMAIN hu_active_allocs' : hu_active_allocs'[p] = hu_active_allocs[p]
         /\ IF ptr \in DOMAIN hu_active_allocs /\ hu_config.useafterfree
              THEN hu_quarantine_allocs' = Append(hu_quarantine_allocs, hu_active_allocs[ptr])
              ELSE UNCHANGED quarantineVars
<1>1. /\ ~hu_malloc_inited => DOMAIN hu_active_allocs = {}
      /\ \A p \in DOMAIN hu_active_allocs : p \in hu_user_addrs /\ p # NULL
  BY LibcAssumption
     DEF HeapInv, HeapTypes, AddressMap, NothingBeforeInit, ActiveIsKnown, NULL, Addresses
<1>2. CASE ptr \in DOMAIN hu_active_allocs
  <2>1. /\ hu_active_allocs' = MapErase(hu_active_allocs, ptr)
        /\ IF hu_config.useafterfree
             THEN Quarantine(hu_active_allocs[ptr]) ELSE GiveBack(hu_active_allocs[ptr])
    <3>1. hu_malloc_inited /\ ptr \in hu_user_addrs /\ ptr # NULL
      BY <1>1, <1>2
    <3> QED
      BY <1>2, <3>1, Zenon DEF Release
  <2>2. IF hu_config.useafterfree
          THEN hu_quarantine_allocs' = Append(hu_quarantine_allocs, hu_active_allocs[ptr])
          ELSE UNCHANGED quarantineVars
    BY <2>1, Zenon DEF Quarantine, GiveBack
  <2>3. /\ DOMAIN hu_active_allocs' = DOMAIN hu_active_allocs \ {ptr}
        /\ \A p \in DOMAIN hu_active_allocs' : hu_active_allocs'[p] = hu_active_allocs[p]
    BY <2>1 DEF MapErase
  <2> QED
    BY <1>2, <2>2, <2>3, Zenon
<1>3. CASE ptr \notin DOMAIN hu_active_allocs
  <2>1. UNCHANGED <<hu_active_allocs, quarantineVars>>
    BY <1>3 DEF Release, trackVars
  <2> QED
    BY <1>3, <2>1
<1> QED
  BY <1>2, <1>3

-----------------------------------------------------------------------------
(***************************************************************************)
(* The steps.                                                              *)
(***************************************************************************)
LEMMA ActiveTypes ==
  ASSUME MemoryInv
  PROVE  /\ HeapInv /\ NULL \notin DOMAIN hu_active_allocs
         /\ hu_quarantine_allocs \in Seq(hu_alloc_info)
         /\ \A p \in DOMAIN hu_active_allocs :
              /\ hu_active_allocs[p] \in hu_alloc_info
              /\ hu_active_allocs[p].user_ptr = p
         /\ ~hu_malloc_inited =>
              DOMAIN hu_active_allocs = {} /\ hu_quarantine_allocs = <<>>
  BY LibcAssumption
     DEF MemoryInv, AllocatorInv, HeapInv, HeapTypes, AddressMap, NothingBeforeInit,
         GeometryInv, LaidOut, NULL, Addresses

\* A block is the newest in quarantine, and the others stay.
LEMMA Quarantining ==
  ASSUME hu_quarantine_allocs \in Seq(hu_alloc_info), NEW info \in hu_alloc_info,
         hu_quarantine_allocs' = Append(hu_quarantine_allocs, info)
  PROVE  /\ NewestIs(info.user_ptr)' /\ Kept(info.user_ptr)'
         /\ \A p : Kept(p) => Kept(p)'
         /\ \A i \in 1 .. Len(hu_quarantine_allocs') :
              hu_quarantine_allocs'[i] = info
                \/ \E j \in 1 .. Len(hu_quarantine_allocs) :
                     hu_quarantine_allocs'[i] = hu_quarantine_allocs[j]
<1> DEFINE queue == hu_quarantine_allocs
           more == Append(queue, info)
           n == Len(queue)
<1>1. /\ n \in Nat /\ Len(more) = n + 1
      /\ more[n + 1] = info /\ more # <<>>
      /\ \A i \in 1 .. n : more[i] = queue[i]
  OBVIOUS
<1> HIDE DEF more, n
<1>2. /\ n + 1 \in 1 .. Len(more)
      /\ \A i \in 1 .. Len(more) : i = n + 1 \/ i \in 1 .. n
      /\ \A i \in 1 .. n : i \in 1 .. Len(more)
  BY <1>1
<1>3. hu_quarantine_allocs' = more
  BY DEF more
<1>4. 1 .. Len(hu_quarantine_allocs) = 1 .. n
  BY DEF n
<1> QED
  BY <1>1, <1>2, <1>3, <1>4 DEF NewestIs, Kept

\* Giving a block back keeps what is in quarantine, and that it fits.
LEMMA ReleaseKeepsRecords ==
  ASSUME MemoryInv, NEW ptr, Release(ptr), EachFits, hu_env' = hu_env, UNCHANGED setupVars
  PROVE  /\ \A p : Kept(p) => Kept(p)'
         /\ ptr \in DOMAIN hu_active_allocs /\ hu_config.useafterfree => NewestIs(ptr)'
         /\ EachFits'
<1>1. /\ DOMAIN hu_active_allocs' = DOMAIN hu_active_allocs \ {ptr}
      /\ \A p \in DOMAIN hu_active_allocs' : hu_active_allocs'[p] = hu_active_allocs[p]
      /\ UNCHANGED <<hu_env, hu_config>>
  BY ActiveTypes, ReleaseEffect DEF setupVars
<1>2. CASE ptr \in DOMAIN hu_active_allocs /\ hu_config.useafterfree
  <2> PICK info \in hu_alloc_info : info = hu_active_allocs[ptr]
    BY <1>2, ActiveTypes
  <2>1. /\ hu_quarantine_allocs' = Append(hu_quarantine_allocs, info)
        /\ info.user_ptr = ptr
        /\ hu_quarantine_allocs \in Seq(hu_alloc_info)
    BY <1>2, ActiveTypes, ReleaseEffect
  <2>2. /\ NewestIs(info.user_ptr)'
        /\ \A p : Kept(p) => Kept(p)'
        /\ \A i \in 1 .. Len(hu_quarantine_allocs') :
             hu_quarantine_allocs'[i] = info
               \/ \E j \in 1 .. Len(hu_quarantine_allocs) :
                    hu_quarantine_allocs'[i] = hu_quarantine_allocs[j]
    BY <2>1, Quarantining
  <2>3. EachFits'
    BY <1>1, <1>2, <2>2 DEF EachFits, OnlyAccess
  <2>4. NewestIs(ptr)'
    BY <2>1, <2>2 DEF NewestIs
  <2> QED
    BY <2>2, <2>3, <2>4
<1>3. CASE ~(ptr \in DOMAIN hu_active_allocs /\ hu_config.useafterfree)
  <2>1. hu_quarantine_allocs' = hu_quarantine_allocs
    BY <1>3, ActiveTypes, ReleaseEffect DEF quarantineVars
  <2> QED
    BY <1>1, <1>3, <2>1 DEF Kept, EachFits, OnlyAccess
<1> QED
  BY <1>2, <1>3

LEMMA CallKeepsRecords ==
  ASSUME RecordsCore, CoreInv', Resizes, AllocationsSucceed, FitsQuarantine,
         NEW old \in Results, NEW ret \in Results, NEW size \in Nat, NEW freed \in BOOLEAN,
         Calls(old, ret, size, freed), Served(old, ret, size, freed),
         HeapCall(old, ret, size), size \in Requests \/ ret = NULL
  PROVE  RecordsCore'
<1>1. /\ todo = <<>> /\ stage \in {"loading", "running"}
      /\ UNCHANGED <<hu_env, stage, allocations, freed_allocations>>
      /\ ToFree' \subseteq {old}
      /\ DOMAIN allocations = Owed
  <2>1. /\ todo = <<>> /\ stage \in {"loading", "running"}
        /\ UNCHANGED <<hu_env, stage, allocations, freed_allocations>>
    BY DEF Calls, processVars, logVars, ledgerVars
  <2>2. ToFree' \subseteq {old}
    BY CallLeaves
  <2>3. ToFree = {} /\ ToRecord = {}
    BY <2>1, NoEvents DEF ToFree, ToRecord
  <2> QED
    BY <2>1, <2>2, <2>3 DEF RecordsCore, CoreInv, LedgerSoFar
<1>2. Idle /\ (Grows(old, ret, size) \/ Shrinks(old, ret, size))
  BY CallEffect DEF RecordsCore
<1>3. UNCHANGED <<hu_malloc_inited, hu_config>>
  BY <1>2 DEF Grows, Shrinks, setupVars
<1>4. MemoryInv /\ MemoryInv' /\ hu_env \in Tools /\ pending_free = NULL
  BY <1>2 DEF RecordsCore, CoreInv, Environment, Idle
<1>5. SetUp'
  BY <1>1, <1>3 DEF RecordsCore, SetUp
<1>6. /\ hu_malloc_inited => /\ hu_config.useafterfree = hu_env.useafterfree
                             /\ hu_config.minsize = hu_env.minsize
                             /\ hu_config.overflow = hu_env.overflow
                             /\ hu_config.quarantine_max_size
                                  = QuarantineMaxSize(hu_env.quarantine_pct)
      /\ stage = "running" /\ hu_enable_humalloc(hu_env) => hu_malloc_inited
  BY DEF RecordsCore, SetUp
<1>7. ASSUME NEW p \in Owed', p # ret \/ ret = NULL PROVE p \in Owed /\ p # old
  <2>1. /\ live' = Hold(MapErase(live, old), ret, size)
        /\ unlogged' = (unlogged \ {old})
                         \cup (IF stage = "loading" /\ ret # NULL THEN {ret} ELSE {})
    BY DEF Calls
  <2>2. p \in DOMAIN live' /\ p \notin unlogged'
    BY DEF Owed
  <2>3. p \in DOMAIN live \ {old} /\ live'[p] = live[p]
    <3>1. CASE ret = NULL
      BY <2>1, <2>2, <3>1 DEF Hold, MapErase
    <3>2. CASE ret # NULL
      BY <1>7, <2>1, <2>2, <3>2 DEF Hold, MapErase, MapPut
    <3> QED
      BY <3>1, <3>2
  <2>4. p \notin unlogged
    BY <2>1, <2>2, <2>3
  <2> QED
    BY <1>1, <2>3, <2>4 DEF Owed
<1>8. ASSUME ret # NULL, ret \in Owed', hu_enable_humalloc(hu_env) PROVE ~PlainRequest(size)
  <2>1. /\ live'[ret] = size
        /\ stage = "loading" => ret \in unlogged'
    BY <1>8 DEF Calls, Hold, MapPut
  <2>2. size > 0 /\ size >= hu_env.minsize /\ stage = "running"
    BY <1>1, <1>8, <2>1 DEF Owed
  <2>3. hu_env.minsize \in Nat
    BY <1>4, HeapUsageAssumption DEF Tool
  <2> QED
    BY <1>6, <1>8, <2>2, <2>3 DEF PlainRequest
<1>9. OwedIsFenced /\ (old \in Owed /\ OnlyAccess => old \in DOMAIN hu_active_allocs)
  BY DEF RecordsCore, OwedIsFenced, OnlyAccess, hu_enable_humalloc
<1>10. OnlyAccess' = OnlyAccess
  BY <1>1 DEF OnlyAccess
<1>11. CASE Grows(old, ret, size)
  <2>1. /\ UNCHANGED <<hu_quarantine_allocs, hu_quarantine_size>>
        /\ pending_free' = IF old \in DOMAIN hu_active_allocs THEN old ELSE NULL
        /\ Tracked(ret, size)
    BY <1>11 DEF Grows, quarantineVars
  <2>2. /\ DOMAIN hu_active_allocs \subseteq DOMAIN hu_active_allocs'
        /\ ~PlainRequest(size) /\ ret # NULL => ret \in DOMAIN hu_active_allocs'
    BY <2>1 DEF Tracked
  <2>3. OwedIsFenced'
    BY <1>1, <1>7, <1>8, <1>9, <2>2 DEF OwedIsFenced, hu_enable_humalloc
  <2>4. FreedAreKept'
    BY <1>1, <1>10, <2>1 DEF RecordsCore, FreedAreKept, Kept
  <2>5. NextFreedIsKept'
    BY <1>1, <1>4, <1>9, <1>10, <2>1, ActiveTypes DEF NextFreedIsKept
  <2>6. EachFits'
    <3>1. OnlyAccess /\ ret # NULL /\ ~PlainRequest(size) =>
            SysSize(size) <= hu_config.quarantine_max_size
      <4> SUFFICES ASSUME OnlyAccess, ret # NULL, ~PlainRequest(size)
                   PROVE  SysSize(size) <= hu_config.quarantine_max_size
        OBVIOUS
      <4>1. hu_malloc_inited /\ size \in Requests /\ hu_env.useafterfree
        BY DEF PlainRequest, OnlyAccess
      <4> QED
        BY <1>4, <1>6, <4>1 DEF FitsQuarantine, SysSize
    <3>2. \A p \in DOMAIN hu_active_allocs' :
            \/ p \in DOMAIN hu_active_allocs /\ hu_active_allocs'[p] = hu_active_allocs[p]
            \/ /\ ret # NULL /\ ~PlainRequest(size)
               /\ hu_active_allocs'[p].sys_size = SysSize(size)
      BY <2>1 DEF Tracked
    <3>3. EachFits
      BY DEF RecordsCore
    <3> QED
      BY <1>3, <1>10, <2>1, <3>1, <3>2, <3>3 DEF EachFits
  <2>7. QuarantineInv'
    BY <2>1 DEF RecordsCore, QuarantineInv, KeptBytes, SysSizes
  <2> QED
    BY <1>5, <2>3, <2>4, <2>5, <2>6, <2>7 DEF RecordsCore
<1>12. CASE Shrinks(old, ret, size)
  <2>1. Release(old) /\ ret = NULL /\ pending_free' = NULL /\ UNCHANGED setupVars
    BY <1>4, <1>12 DEF Shrinks
  <2>2. /\ \A p : Kept(p) => Kept(p)'
        /\ old \in DOMAIN hu_active_allocs /\ hu_config.useafterfree => NewestIs(old)'
        /\ EachFits'
    BY <1>1, <1>4, <2>1, ReleaseKeepsRecords DEF RecordsCore
  <2>3. DOMAIN hu_active_allocs' = DOMAIN hu_active_allocs \ {old}
    BY <1>4, <2>1, ActiveTypes, ReleaseEffect
  <2>4. OwedIsFenced'
    BY <1>1, <1>7, <1>9, <2>1, <2>3 DEF OwedIsFenced, hu_enable_humalloc
  <2>5. FreedAreKept'
    BY <1>1, <1>10, <2>2 DEF RecordsCore, FreedAreKept
  <2>6. NextFreedIsKept'
    <3>1. OnlyAccess /\ old \in DOMAIN hu_active_allocs => hu_config.useafterfree
      BY <1>4, <1>6, ActiveTypes DEF OnlyAccess
    <3> QED
      BY <1>1, <1>9, <1>10, <2>1, <2>2, <3>1 DEF NextFreedIsKept
  <2>7. QuarantineInv'
    BY <1>4, <2>1, ReleaseCounts DEF RecordsCore
  <2> QED
    BY <1>5, <2>2, <2>4, <2>5, <2>6, <2>7 DEF RecordsCore
<1> QED
  BY <1>2, <1>11, <1>12

LEMMA FinishKeepsRecords ==
  ASSUME RecordsCore, CoreInv', FinishRealloc
  PROVE  RecordsCore'
<1>1. /\ Release(pending_free) /\ pending_free # NULL /\ pending_free' = NULL
      /\ UNCHANGED setupVars
      /\ UNCHANGED <<hu_env, stage, todo, live, unlogged, allocations, freed_allocations>>
  BY DEF FinishRealloc, ReallocFree, processVars, programVars, logVars, ledgerVars
<1>2. /\ MemoryInv /\ MemoryInv' /\ UNCHANGED <<hu_malloc_inited, hu_config>>
      /\ pending_free \in DOMAIN hu_active_allocs
      /\ pending_free \notin Owed
  BY <1>1 DEF RecordsCore, CoreInv, MemoryInv, AllocatorInv, PendingIsActive, Owned, Owed,
              setupVars
<1> PICK ptr \in DOMAIN hu_active_allocs : ptr = pending_free
  BY <1>2
<1>3. /\ \A p : Kept(p) => Kept(p)'
      /\ hu_config.useafterfree => NewestIs(ptr)'
      /\ EachFits'
  BY <1>1, <1>2, ReleaseKeepsRecords DEF RecordsCore
<1>4. SetUp' /\ FreedAreKept'
  BY <1>1, <1>2, <1>3 DEF RecordsCore, SetUp, FreedAreKept, OnlyAccess
<1>5. OwedIsFenced'
  <2>1. DOMAIN hu_active_allocs' = DOMAIN hu_active_allocs \ {pending_free} /\ Owed' = Owed
    BY <1>1, <1>2, ActiveTypes, ReleaseEffect DEF Owed
  <2> QED
    BY <1>1, <1>2, <2>1 DEF RecordsCore, OwedIsFenced
<1>6. NextFreedIsKept'
  <2>1. ToFree' = ToFree /\ ToFree \subseteq {pending_free} /\ OnlyAccess' = OnlyAccess
    BY <1>1 DEF RecordsCore, NextFreedIsKept, ToFree, OnlyAccess
  <2>2. OnlyAccess => hu_config.useafterfree
    BY <1>2, ActiveTypes DEF RecordsCore, SetUp, OnlyAccess
  <2> QED
    BY <1>1, <1>3, <2>1, <2>2 DEF NextFreedIsKept
<1>7. QuarantineInv'
  BY <1>1, <1>2, ReleaseCounts DEF RecordsCore
<1> QED
  BY <1>3, <1>4, <1>5, <1>6, <1>7 DEF RecordsCore

\* The oldest block leaves, and is the newest only if it is the only one.
LEMMA Evicting ==
  ASSUME hu_quarantine_allocs \in Seq(hu_alloc_info), hu_quarantine_allocs # <<>>,
         hu_quarantine_allocs' = Tail(hu_quarantine_allocs)
  PROVE  /\ \A p : Kept(p) => Kept(p)' \/ p = Head(hu_quarantine_allocs).user_ptr
         /\ \A p : NewestIs(p) => NewestIs(p)' \/ Len(hu_quarantine_allocs) = 1
         /\ \A i \in 1 .. Len(hu_quarantine_allocs') :
              \E j \in 1 .. Len(hu_quarantine_allocs) :
                hu_quarantine_allocs'[i] = hu_quarantine_allocs[j]
<1> DEFINE queue == hu_quarantine_allocs
           rest == Tail(queue)
           n == Len(rest)
<1>1. /\ n \in Nat /\ Len(queue) = n + 1 /\ Head(queue) = queue[1]
      /\ \A i \in 1 .. n : rest[i] = queue[i + 1]
  OBVIOUS
<1> HIDE DEF rest, n
<1>2. /\ \A i \in 1 .. n : i + 1 \in 1 .. Len(queue)
      /\ \A j \in 1 .. Len(queue) : j = 1 \/ (j - 1 \in 1 .. n /\ rest[j - 1] = queue[j])
      /\ n # 0 => n \in 1 .. n /\ rest[n] = queue[n + 1] /\ rest # <<>>
      /\ n = 0 => Len(queue) = 1
  <2>1. n # 0 => rest # <<>>
    BY DEF n
  <2> QED
    BY <1>1, <2>1
<1>3. hu_quarantine_allocs' = rest /\ Len(hu_quarantine_allocs') = n
  BY DEF rest, n
<1>4. ASSUME NEW p, Kept(p) PROVE Kept(p)' \/ p = Head(queue).user_ptr
  <2> PICK j \in 1 .. Len(queue) : queue[j].user_ptr = p
    BY <1>4 DEF Kept
  <2> QED
    BY <1>1, <1>2, <1>3 DEF Kept
<1>5. ASSUME NEW p, NewestIs(p) PROVE NewestIs(p)' \/ Len(queue) = 1
  BY <1>1, <1>2, <1>3, <1>5 DEF NewestIs
<1>6. ASSUME NEW i \in 1 .. Len(hu_quarantine_allocs')
      PROVE  \E j \in 1 .. Len(queue) : hu_quarantine_allocs'[i] = queue[j]
  BY <1>1, <1>2, <1>3
<1> QED
  BY <1>4, <1>5, <1>6

LEMMA OneKept ==
  ASSUME NEW queue \in Seq(hu_alloc_info), Len(queue) = 1
  PROVE  KeptBytes(queue) = queue[1].sys_size
<1>1. /\ queue # <<>> /\ Head(queue) = queue[1]
      /\ Len(Tail(queue)) = 0
      /\ queue[1] \in hu_alloc_info
  OBVIOUS
<1>2. KeptBytes(Tail(queue)) = 0
  <2>1. 1 .. 0 = {}
    OBVIOUS
  <2>2. SumOf(SysSizes(Tail(queue)), {}) = 0
    BY SumPick, FS_EmptySet
  <2> QED
    BY <1>1, <2>1, <2>2 DEF KeptBytes
<1>3. queue[1].sys_size \in Nat
  BY <1>1 DEF hu_alloc_info
<1> QED
  BY <1>1, <1>2, <1>3, KeptLess

LEMMA EvictKeepsRecords ==
  ASSUME RecordsCore, CoreInv', Evict
  PROVE  RecordsCore'
<1> DEFINE oldest == Head(hu_quarantine_allocs).user_ptr
<1>1. /\ EvictOldest /\ OverLimit
      /\ hu_quarantine_allocs' = Tail(hu_quarantine_allocs)
      /\ UNCHANGED <<setupVars, hu_active_allocs, pending_free>>
      /\ UNCHANGED <<hu_env, stage, todo, live, unlogged, allocations>>
      /\ freed_allocations' = IF ~log_config.log_free
                                THEN MapErase(freed_allocations, oldest)
                                ELSE freed_allocations
  BY DEF Evict, EvictOldest, hu_log_remove_freed_allocation, processVars, programVars, trackVars
<1>2. /\ MemoryInv
      /\ hu_quarantine_allocs \in Seq(hu_alloc_info) /\ hu_quarantine_allocs # <<>>
      /\ UNCHANGED <<hu_malloc_inited, hu_config>>
      /\ hu_config.quarantine_max_size \in Nat
  BY <1>1 DEF OverLimit, RecordsCore, CoreInv, MemoryInv, AllocatorInv, HeapInv, HeapTypes,
              setupVars
<1>3. log_config.log_free = hu_env.doublefree
  BY DEF RecordsCore, CoreInv, Environment, LogConfigOf
<1>4. OnlyAccess => Len(hu_quarantine_allocs) # 1
  <2> SUFFICES ASSUME OnlyAccess, Len(hu_quarantine_allocs) = 1 PROVE FALSE
    OBVIOUS
  <2>1. hu_quarantine_size = hu_quarantine_allocs[1].sys_size
    BY <1>2, OneKept DEF RecordsCore, QuarantineInv
  <2>2. hu_quarantine_allocs[1].sys_size <= hu_config.quarantine_max_size
    <3>1. 1 \in 1 .. Len(hu_quarantine_allocs)
      OBVIOUS
    <3> QED
      BY <3>1 DEF RecordsCore, EachFits
  <2>3. hu_quarantine_allocs[1].sys_size \in Nat
    <3>1. hu_quarantine_allocs[1] \in hu_alloc_info
      BY <1>2
    <3> QED
      BY <3>1 DEF hu_alloc_info
  <2> QED
    BY <1>1, <1>2, <2>1, <2>2, <2>3 DEF OverLimit
<1>5. /\ \A p : Kept(p) => Kept(p)' \/ p = oldest
      /\ \A p : NewestIs(p) => NewestIs(p)' \/ Len(hu_quarantine_allocs) = 1
      /\ \A i \in 1 .. Len(hu_quarantine_allocs') :
           \E j \in 1 .. Len(hu_quarantine_allocs) :
             hu_quarantine_allocs'[i] = hu_quarantine_allocs[j]
  BY <1>1, <1>2, Evicting
<1> HIDE DEF oldest
<1>6. SetUp' /\ OwedIsFenced'
  BY <1>1, <1>2 DEF RecordsCore, SetUp, OwedIsFenced, Owed
<1>7. FreedAreKept'
  <2>1. OnlyAccess => DOMAIN freed_allocations' = DOMAIN freed_allocations \ {oldest}
    BY <1>1, <1>3 DEF OnlyAccess, MapErase
  <2> QED
    BY <1>1, <1>5, <2>1 DEF RecordsCore, FreedAreKept, OnlyAccess
<1>8. NextFreedIsKept'
  <2>1. ToFree' = ToFree
    BY <1>1 DEF ToFree
  <2> QED
    BY <1>1, <1>4, <1>5, <2>1 DEF RecordsCore, NextFreedIsKept, OnlyAccess
<1>9. EachFits'
  BY <1>1, <1>2, <1>5 DEF RecordsCore, EachFits, OnlyAccess
<1>10. QuarantineInv'
  BY <1>1, <1>2, EvictCounts DEF RecordsCore
<1> QED
  BY <1>6, <1>7, <1>8, <1>9, <1>10 DEF RecordsCore

\* The records of freed blocks change only by what is said here.
LEMMA FreedLogged ==
  ASSUME NEW ptr, NEW stack, NEW opened, log_event_free(ptr, stack, opened)
  PROVE  /\ DOMAIN freed_allocations' \subseteq
              DOMAIN freed_allocations \cup ({ptr} \cap DOMAIN allocations)
<1>1. CASE ptr \in DOMAIN allocations /\ LogFreed(ptr, stack)
  BY <1>1 DEF LogFreed, MapInsert
<1>2. CASE LogDoubleFree(ptr, stack, opened)
  BY <1>2 DEF LogDoubleFree, MapErase
<1>3. CASE UNCHANGED freed_allocations
  BY <1>3
<1> QED
  BY <1>1, <1>2, <1>3 DEF log_event_free, LogUnknownFree, ledgerVars

LEMMA LogEventKeepsRecords ==
  ASSUME RecordsCore, CoreInv', OneThread, LogEvent
  PROVE  RecordsCore'
<1>1. /\ todo # <<>> /\ todo' = Tail(todo) /\ pending_free = NULL
      /\ UNCHANGED <<setupVars, trackVars, quarantineVars, pending_free>>
      /\ UNCHANGED <<hu_env, stage, live, unlogged>>
  BY LogEventIs DEF processVars, programVars, mallocVars, Idle
<1>2. UNCHANGED <<hu_malloc_inited, hu_config, hu_active_allocs, hu_quarantine_allocs,
                  hu_quarantine_size>>
  BY <1>1 DEF setupVars, trackVars, quarantineVars
<1>3. (\E p : FreeComesFirst(p)) \/ (\E q : MallocComesFirst(q))
  BY <1>1, NextEvent DEF RecordsCore, CoreInv
<1>4. ToFree' = {}
  BY <1>3 DEF FreeComesFirst, MallocComesFirst
<1>5. PICK stack \in Stacks, opened \in BOOLEAN :
        \/ /\ Head(todo).event = "malloc"
           /\ log_event_malloc(Head(todo).ptr, Head(todo).size, stack)
        \/ /\ Head(todo).event = "free"
           /\ log_event_free(Head(todo).ptr, stack, opened)
  BY LogEventIs
<1>6. DOMAIN freed_allocations' \subseteq
        DOMAIN freed_allocations \cup (ToFree \cap DOMAIN allocations)
  <2>1. CASE \E p : FreeComesFirst(p)
    <3> PICK p : FreeComesFirst(p)
      BY <2>1
    <3>1. Head(todo).event = "free" /\ Head(todo).ptr = p /\ ToFree = {p}
      BY EventFields DEF FreeComesFirst
    <3> QED
      BY <1>5, <3>1, FreedLogged
  <2>2. CASE \E q : MallocComesFirst(q)
    <3>1. Head(todo).event = "malloc"
      BY <2>2, EventFields DEF MallocComesFirst
    <3>2. log_event_malloc(Head(todo).ptr, Head(todo).size, stack)
      BY <1>5, <3>1
    <3> QED
      BY <3>2 DEF log_event_malloc, MapErase, ledgerVars
  <2> QED
    BY <1>3, <2>1, <2>2
<1>7. OnlyAccess => \A p \in ToFree \cap DOMAIN allocations : Kept(p)
  <2> SUFFICES ASSUME OnlyAccess, NEW p \in ToFree \cap DOMAIN allocations PROVE Kept(p)
    OBVIOUS
  <2>1. NewestIs(p) /\ hu_quarantine_allocs \in Seq(hu_alloc_info)
    BY <1>1, ActiveTypes DEF RecordsCore, CoreInv, NextFreedIsKept
  <2>2. Len(hu_quarantine_allocs) \in 1 .. Len(hu_quarantine_allocs)
    BY <2>1 DEF NewestIs
  <2> QED
    BY <2>1, <2>2 DEF NewestIs, Kept
<1>8. FreedAreKept'
  BY <1>1, <1>2, <1>6, <1>7 DEF RecordsCore, FreedAreKept, OnlyAccess, Kept
<1>9. NextFreedIsKept'
  BY <1>4 DEF NextFreedIsKept
<1>10. SetUp' /\ OwedIsFenced' /\ EachFits' /\ QuarantineInv'
  BY <1>1, <1>2
     DEF RecordsCore, SetUp, OwedIsFenced, Owed, EachFits, OnlyAccess, QuarantineInv, KeptBytes,
         SysSizes
<1> QED
  BY <1>8, <1>9, <1>10 DEF RecordsCore

LEMMA InitCallKeepsRecords ==
  ASSUME RecordsCore, CoreInv', hu_init
  PROVE  RecordsCore'
<1>1. /\ stage = "loading" /\ stage' = "running" /\ todo = <<>>
      /\ UNCHANGED <<trackVars, quarantineVars, pending_free>>
      /\ UNCHANGED <<hu_env, todo, live, unlogged, allocations, freed_allocations>>
  BY DEF hu_init, hu_malloc_init, log_enable, programVars, ledgerVars, mallocVars
<1>2. /\ UNCHANGED <<hu_active_allocs, hu_quarantine_allocs, hu_quarantine_size>>
      /\ ~hu_malloc_inited /\ unlogged = DOMAIN live /\ DOMAIN freed_allocations = {}
  BY <1>1 DEF trackVars, quarantineVars, RecordsCore, CoreInv, BeforeInit
<1>3. DOMAIN hu_active_allocs = {} /\ hu_quarantine_allocs = <<>>
  BY <1>2, ActiveTypes DEF RecordsCore, CoreInv
<1>4. SetUp'
  <2>1. CASE hu_enable_humalloc(hu_env)
    BY <1>1, <2>1 DEF hu_init, hu_malloc_init, MallocConfigOf, SetUp
  <2>2. CASE ~hu_enable_humalloc(hu_env)
    <3>1. hu_malloc_inited' = hu_malloc_inited
      BY <2>2 DEF hu_init, mallocVars, setupVars
    <3> QED
      BY <1>1, <1>2, <2>2, <3>1 DEF SetUp, hu_enable_humalloc
  <2> QED
    BY <2>1, <2>2
<1>5. OwedIsFenced'
  BY <1>1, <1>2 DEF OwedIsFenced, Owed
<1>6. FreedAreKept'
  BY <1>1, <1>2 DEF FreedAreKept
<1>7. NextFreedIsKept'
  <2>1. ToFree' = {}
    BY <1>1, NoEvents DEF ToFree
  <2> QED
    BY <2>1 DEF NextFreedIsKept
<1>8. EachFits' /\ QuarantineInv'
  <2>1. Len(hu_quarantine_allocs) = 0
    BY <1>3
  <2> QED
    BY <1>2, <1>3, <2>1 DEF EachFits, RecordsCore, QuarantineInv, KeptBytes, SysSizes
<1> QED
  BY <1>4, <1>5, <1>6, <1>7, <1>8 DEF RecordsCore

LEMMA OthersKeepRecords ==
  ASSUME RecordsCore, CoreInv', OneThread, LifeCycle \/ UNCHANGED vars
  PROVE  RecordsCore'
<1>1. /\ UNCHANGED <<mallocVars, hu_env, todo, live, unlogged, allocations, freed_allocations>>
      /\ stage = "loading" => stage' = "loading"
  <2>1. CASE LifeCycle
    BY <2>1 DEF LifeCycle, ReportBegin, ReportSummary, ReportEnd, Fault, Exit, FiniSilence,
                FiniSummary, processVars, programVars, log_enable, log_summary, hu_sig_handler,
                logVars, ledgerVars, RecordsCore, CoreInv, Phase
  <2>2. CASE UNCHANGED vars
    BY <2>2 DEF vars, processVars, programVars, logVars, ledgerVars
  <2> QED
    BY <2>1, <2>2
<1>2. UNCHANGED <<hu_malloc_inited, hu_config, hu_active_allocs, hu_quarantine_allocs,
                  hu_quarantine_size, pending_free>>
  BY <1>1 DEF mallocVars, setupVars, trackVars, quarantineVars
<1>3. ToFree' = ToFree /\ Owed' = Owed /\ OnlyAccess' = OnlyAccess
  BY <1>1 DEF ToFree, Owed, OnlyAccess
<1>4. SetUp' /\ OwedIsFenced' /\ FreedAreKept' /\ EachFits' /\ QuarantineInv'
  BY <1>1, <1>2, <1>3
     DEF RecordsCore, SetUp, OwedIsFenced, FreedAreKept, EachFits, QuarantineInv, KeptBytes,
         SysSizes, Kept
<1>5. NextFreedIsKept'
  BY <1>1, <1>2, <1>3 DEF RecordsCore, NextFreedIsKept, NewestIs
<1> QED
  BY <1>4, <1>5 DEF RecordsCore

\* A free that libc aborts: what is in quarantine stays there.
LEMMA AbortKeepsFreed ==
  ASSUME RecordsCore, Aborted
  PROVE  FreedAreKept'
<1>1. PICK ptr \in Freeable : free(ptr)
  BY DEF Aborted
<1>2. /\ Release(ptr) /\ UNCHANGED setupVars
      /\ UNCHANGED <<hu_env, freed_allocations>>
  BY <1>1 DEF free, hu_free, Lock, processVars, logVars, ledgerVars
<1>3. \A p : Kept(p) => Kept(p)'
  BY <1>2, ReleaseKeepsRecords DEF RecordsCore, CoreInv
<1> QED
  BY <1>2, <1>3 DEF RecordsCore, FreedAreKept, OnlyAccess

LEMMA NextRecords ==
  ASSUME RecordsInv, OneThread, AllocationsSucceed, FitsQuarantine,
         [Next]_vars, [Noticed]_vars, [Resizes]_vars
  PROVE  RecordsInv'
<1>1. BlocksInv'
  BY NextBlocks DEF RecordsInv, RecordsCore, BlocksInv
<1>2. CASE Stopped /\ FreedAreKept
  <2>1. Stopped' /\ UNCHANGED <<mallocVars, hu_env, ledgerVars>>
    BY <1>2, StoppedStays
  <2>2. UNCHANGED <<hu_quarantine_allocs, freed_allocations>>
    BY <2>1 DEF mallocVars, quarantineVars, ledgerVars
  <2> QED
    BY <1>2, <2>1, <2>2 DEF RecordsInv, FreedAreKept, OnlyAccess, Kept
<1>3. CASE RecordsCore /\ UNCHANGED vars
  <2>1. CoreInv'
    BY <1>3, StutterKeepsCore DEF RecordsCore
  <2> QED
    BY <1>3, <2>1, OthersKeepRecords DEF RecordsInv
<1>4. CASE RecordsCore /\ Next /\ Noticed /\ Resizes
  <2>1. CASE ACall
    <3>1. PICK old \in Results, ret \in Results, size \in Nat, freed \in BOOLEAN :
            /\ Calls(old, ret, size, freed) /\ Served(old, ret, size, freed)
            /\ HeapCall(old, ret, size) /\ (size \in Requests \/ ret = NULL)
      BY <2>1 DEF ACall
    <3>2. CoreInv'
      BY <1>4, <2>1, <3>1, CallKeepsCore DEF ACall, RecordsCore
    <3> QED
      BY <1>4, <3>1, <3>2, CallKeepsRecords DEF RecordsInv
  <2>2. CASE Aborted
    BY <1>4, <2>2, AbortKeepsFreed DEF Aborted, RecordsInv
  <2>3. CASE LogEvent \/ FinishRealloc \/ Evict \/ hu_init \/ LifeCycle
    <3>1. CoreInv'
      BY <1>4, <2>3, LogEventKeepsCore, EvictionKeepsCore, InitCallKeepsCore,
         LifeCycleKeepsCore DEF LifeCycle, RecordsCore
    <3> QED
      BY <1>4, <2>3, <3>1, LogEventKeepsRecords, FinishKeepsRecords, EvictKeepsRecords,
         InitCallKeepsRecords, OthersKeepRecords DEF RecordsInv
  <2> QED
    BY <1>4, <2>1, <2>2, <2>3, StepIs DEF RecordsCore
<1> QED
  BY <1>2, <1>3, <1>4 DEF RecordsInv, vars

LEMMA InitRecords == Init => RecordsInv
<1> SUFFICES ASSUME Init PROVE RecordsInv
  OBVIOUS
<1>1. CoreInv /\ QuarantineInv
  BY InitCore, InitQuarantine DEF Init
<1>2. /\ ~hu_malloc_inited /\ stage = "loading" /\ pending_free = NULL /\ todo = <<>>
      /\ DOMAIN live = {} /\ DOMAIN freed_allocations = {}
      /\ DOMAIN hu_active_allocs = {} /\ Len(hu_quarantine_allocs) = 0
  BY DEF Init, InitHuMalloc, InitHuLog, NoEntries
<1>3. ToFree = {}
  BY <1>2, NoEvents DEF ToFree
<1> QED
  BY <1>1, <1>2, <1>3
     DEF RecordsInv, RecordsCore, SetUp, OwedIsFenced, Owed, FreedAreKept, NextFreedIsKept,
         EachFits

\* The record of a freed block is dropped with the block: between calls, and
\* when libc has stopped the process, each of them is of a block in quarantine.
\* The exceptions are blocks larger than the whole quarantine, and blocks the
\* program got from libc and resized past minsize (humalloc.cpp:289-296, 370-373).
THEOREM FreedRecordsQuarantined ==
  ASSUME OneThread, AllocationsSucceed, FitsQuarantine
  PROVE  Spec /\ LibcNotices /\ FencedResizes => []FreedRecordsAreQuarantined
<1>1. Init => RecordsInv
  BY InitRecords
<1>2. RecordsInv /\ [Next]_vars /\ [Noticed]_vars /\ [Resizes]_vars => RecordsInv'
  BY NextRecords
<1>3. RecordsInv => FreedRecordsAreQuarantined
  BY DEF RecordsInv, RecordsCore, FreedAreKept, FreedRecordsAreQuarantined, OnlyAccess, Kept,
         Quarantined
<1> QED
  BY <1>1, <1>2, <1>3, PTL DEF Spec, LibcNotices, FencedResizes

-----------------------------------------------------------------------------
(***************************************************************************)
(* Faults.                                                                 *)
(***************************************************************************)

\* Of a block without a fence the last page has a byte to spare: the window of
\* hu_sig_handler is a byte wider than a page.
SpareByte ==
  \A env \in Tools : env.useafterfree /\ ~env.overflow =>
    \A size \in Requests \ {0} : size % PageSize # 0

\* What the attribution of a fault takes for granted: libc keeps something between
\* two blocks, mprotect does not fail, the window is that of hulog.cpp, and records
\* of freed blocks leave the ledger only with their blocks.
FaultHypotheses ==
  /\ OneThread /\ AllocationsSucceed /\ FitsQuarantine /\ SpareByte
  /\ ~MprotectCanFail
  /\ HeaderSize # 0 /\ AccessWindow = PageSize
  /\ \A env \in Tools : ~env.doublefree

Spaced(blocks) ==
  \A b, c \in DOMAIN blocks :
    b # c => b + blocks[b] + HeaderSize <= c \/ c + blocks[c] + HeaderSize <= b

\* A block with pages of its own is whole pages, with a byte to spare.
Paged(info, overflow) ==
  /\ info.sys_ptr % PageSize = 0 /\ info.sys_size % PageSize = 0
  /\ ~overflow => info.user_ptr + info.user_size < info.sys_ptr + info.sys_size

AllPaged ==
  /\ \A p \in DOMAIN hu_active_allocs : Paged(hu_active_allocs[p], hu_config.overflow)
  /\ \A i \in 1 .. Len(hu_quarantine_allocs) : Paged(hu_quarantine_allocs[i], hu_config.overflow)

\* What is active is what the ledger should hold, but for a block that realloc
\* is moving.
ActiveIsOwed == DOMAIN hu_active_allocs \ {pending_free} \subseteq Owed

\* The free of the block is still to be logged.
Recorded(info) ==
  /\ info.user_ptr \in ToFree \cap DOMAIN allocations
  /\ allocations[info.user_ptr].size = info.user_size

KnownFreed(info) ==
  /\ info.user_ptr \in DOMAIN freed_allocations
  /\ freed_allocations[info.user_ptr].size = info.user_size

PendingIsRecorded == pending_free # NULL => Recorded(hu_active_allocs[pending_free])

\* The ledger has every block in quarantine as freed, with its size, or is about
\* to hear of it.
QueueIsKnown ==
  \A i \in 1 .. Len(hu_quarantine_allocs) :
    Recorded(hu_quarantine_allocs[i]) \/ KnownFreed(hu_quarantine_allocs[i])

\* humalloc is there for the tools that need it, and so is the quarantine.
UsedIfAsked ==
  /\ hu_malloc_inited => hu_enable_humalloc(hu_env)
  /\ hu_quarantine_allocs # <<>> => hu_env.useafterfree

LiveAsLogged ==
  \A p \in DOMAIN allocations :
    \E size, stack : allocations[p] = hu_allocinfo_t(size, stack)

\* A report of that kind is right for a block in quarantine, or for one in use.
RightKind(kind, freed) ==
  kind \in IF freed THEN {"inside free'd", "after free'd"} ELSE {"after alloc'd"}

NoReportYet == stage \in {"loading", "running"} => last_access = {}

Attributed ==
  \A f \in fault, report \in last_access :
    InWindow(f) => report.ptr = f.ptr /\ RightKind(report.kind, f.freed)

\* Where blocks are.
PlaceInv == ~mprotect_failed /\ Spaced(libc_blocks) /\ AllPaged

\* What the ledger says of them.
TraceInv ==
  /\ UsedIfAsked /\ ActiveIsOwed
  /\ FreedIsKept /\ LiveAsLogged /\ LiveOrFreed
  /\ PendingIsRecorded /\ QueueIsKnown

FaultsCore == RecordsCore /\ PlaceInv /\ TraceInv /\ NoReportYet

FaultsInv ==
  /\ FaultHasOwner /\ Attributed
  /\ (Stopped /\ FreedAreKept) \/ FaultsCore

-----------------------------------------------------------------------------
(***************************************************************************)
(* The blame for a fault.                                                  *)
(***************************************************************************)

\* The next multiple is a whole m away.
LEMMA MultiplesApart ==
  ASSUME NEW m \in Nat \ {0}, NEW a \in Nat, NEW b \in Nat, a % m = 0, b % m = 0, a < b
  PROVE  a + m <= b
<1>1. /\ a = m * (a \div m) /\ a \div m \in Nat
      /\ b = m * (b \div m) /\ b \div m \in Nat
  OBVIOUS
<1> DEFINE k == a \div m
           j == b \div m
<1> HIDE DEF k, j
<1>2. k \in Nat /\ j \in Nat /\ a = m * k /\ b = m * j
  BY <1>1 DEF k, j
<1>3. ~(j <= k)
  <2> SUFFICES ASSUME j <= k PROVE FALSE
    OBVIOUS
  <2>1. k = j + (k - j) /\ k - j \in Nat
    BY <1>2
  <2>2. m * k = m * j + m * (k - j) /\ m * (k - j) >= 0
    BY <1>2, <2>1
  <2> QED
    BY <1>2, <2>2
<1>4. j = k + 1 + (j - k - 1) /\ j - k - 1 \in Nat
  BY <1>2, <1>3
<1>5. m * j = m * k + m + m * (j - k - 1) /\ m * (j - k - 1) >= 0
  BY <1>2, <1>4
<1> QED
  BY <1>2, <1>5

LEMMA MultiplesAdd ==
  ASSUME NEW m \in Nat \ {0}, NEW a \in Nat, NEW b \in Nat, a % m = 0, b % m = 0
  PROVE  (a + b) % m = 0
<1> DEFINE k == a \div m
           j == b \div m
<1>1. a = m * k /\ k \in Nat /\ b = m * j /\ j \in Nat
  OBVIOUS
<1>2. \A n \in Nat : (m * n) % m = 0
  OBVIOUS
<1> HIDE DEF k, j
<1>3. a + b = m * (k + j) /\ k + j \in Nat
  BY <1>1
<1> QED
  BY <1>2, <1>3

\* The addresses that hu_sig_handler takes for the block's.
Window(info) == info.user_ptr .. (info.user_ptr + info.user_size + PageSize)

\* The window does not reach another block.
LEMMA WindowApart ==
  ASSUME HeaderSize \in Nat \ {0}, hu_config.overflow \in BOOLEAN,
         NEW a \in hu_alloc_info, NEW b \in hu_alloc_info,
         Paged(a, hu_config.overflow), Paged(b, hu_config.overflow), Laid(a), Laid(b),
         \/ a.sys_ptr + a.sys_size + HeaderSize <= b.sys_ptr
         \/ b.sys_ptr + b.sys_size + HeaderSize <= a.sys_ptr
  PROVE  Window(a) \cap Block(b) = {}
<1> DEFINE end == a.sys_ptr + a.sys_size
<1>1. /\ a.sys_ptr \in Nat /\ a.sys_size \in Nat /\ a.user_ptr \in Nat /\ a.user_size \in Nat
      /\ b.sys_ptr \in Nat /\ b.sys_size \in Nat
      /\ PageSize \in Nat \ {0}
  BY LibcAssumption, LayoutAssumption DEF hu_alloc_info, Addresses
<1>2. CASE a.sys_ptr + a.sys_size + HeaderSize <= b.sys_ptr
  <2>1. end % PageSize = 0
    BY <1>1, MultiplesAdd DEF Paged
  <2>2. end + PageSize <= b.sys_ptr
    <3>1. end \in Nat /\ end < b.sys_ptr
      BY <1>1, <1>2
    <3> HIDE DEF end
    <3> QED
      BY <1>1, <2>1, <3>1, MultiplesApart DEF Paged
  <2>3. a.user_ptr + a.user_size + PageSize < end + PageSize
    <3> DEFINE usable == hu_calc_user_size(a.user_size)
    <3>1. usable \in Nat /\ a.user_size \in 1 .. usable
      BY DEF Laid
    <3>2. a.user_ptr + usable <= end - FenceSize
      <4>1. FenceSize \in Nat
        BY <1>1 DEF FenceSize
      <4> QED
        BY <1>1, <3>1, <4>1 DEF Laid
    <3> HIDE DEF usable
    <3>3. a.user_size <= usable
      BY <3>1
    <3>4. CASE hu_config.overflow
      <4>1. FenceSize = PageSize
        BY <3>4 DEF FenceSize
      <4> QED
        BY <1>1, <3>1, <3>2, <3>3, <4>1
    <3>5. CASE ~hu_config.overflow
      BY <1>1, <3>5 DEF Paged
    <3> QED
      BY <3>4, <3>5
  <2> QED
    BY <1>1, <2>2, <2>3 DEF Window, Block, Span
<1>3. CASE b.sys_ptr + b.sys_size + HeaderSize <= a.sys_ptr
  BY <1>1, <1>3 DEF Window, Block, Span, Laid
<1> QED
  BY <1>2, <1>3

LEMMA OwnersSpaced ==
  ASSUME HeapInv, LaidOut, PlaceInv, HeaderSize # 0
  PROVE  /\ \A p, q \in DOMAIN hu_active_allocs :
              p # q => Window(hu_active_allocs[p]) \cap Block(hu_active_allocs[q]) = {}
         /\ \A p \in DOMAIN hu_active_allocs, i \in 1 .. Len(hu_quarantine_allocs) :
              /\ Window(hu_active_allocs[p]) \cap Block(hu_quarantine_allocs[i]) = {}
              /\ Window(hu_quarantine_allocs[i]) \cap Block(hu_active_allocs[p]) = {}
         /\ \A i, j \in 1 .. Len(hu_quarantine_allocs) :
              i # j => Window(hu_quarantine_allocs[i]) \cap Block(hu_quarantine_allocs[j]) = {}
<1> DEFINE Owner1(info) == /\ info \in hu_alloc_info
                           /\ Paged(info, hu_config.overflow) /\ Laid(info)
                           /\ info.sys_ptr \in DOMAIN libc_blocks
                           /\ libc_blocks[info.sys_ptr] = info.sys_size
<1>1. HeaderSize \in Nat \ {0} /\ hu_config.overflow \in BOOLEAN
  BY LibcAssumption DEF HeapInv, HeapTypes
<1>2. ASSUME NEW a, NEW b, Owner1(a), Owner1(b), a.sys_ptr # b.sys_ptr
      PROVE  Window(a) \cap Block(b) = {}
  <2>1. \/ a.sys_ptr + a.sys_size + HeaderSize <= b.sys_ptr
        \/ b.sys_ptr + b.sys_size + HeaderSize <= a.sys_ptr
    <3>1. \/ a.sys_ptr + libc_blocks[a.sys_ptr] + HeaderSize <= b.sys_ptr
          \/ b.sys_ptr + libc_blocks[b.sys_ptr] + HeaderSize <= a.sys_ptr
      BY <1>2 DEF PlaceInv, Spaced
    <3> QED
      BY <1>2, <3>1
  <2> QED
    BY <1>1, <1>2, <2>1, WindowApart
<1>3. /\ \A p \in DOMAIN hu_active_allocs : Owner1(hu_active_allocs[p])
      /\ \A i \in 1 .. Len(hu_quarantine_allocs) : Owner1(hu_quarantine_allocs[i])
  BY RecordTypes DEF PlaceInv, AllPaged, LaidOut
<1>4. Owns(libc_blocks, hu_active_allocs, hu_quarantine_allocs)
  BY DEF HeapInv
<1> HIDE DEF Owner1
<1> QED
  BY <1>2, <1>3, <1>4 DEF Owns

\* Between calls the ledger is exactly what humalloc has: its live blocks are the
\* active ones, its freed ones those in quarantine, with the same sizes.
LEMMA LedgerIsHeap ==
  ASSUME FaultsCore, FaultHypotheses, todo = <<>>, pending_free = NULL, hu_malloc_inited
  PROVE  /\ DOMAIN allocations = DOMAIN hu_active_allocs
         /\ \A p \in DOMAIN allocations : allocations[p].size = hu_active_allocs[p].user_size
         /\ \A i \in 1 .. Len(hu_quarantine_allocs) : KnownFreed(hu_quarantine_allocs[i])
         /\ \A p \in DOMAIN freed_allocations :
              \E i \in 1 .. Len(hu_quarantine_allocs) :
                /\ hu_quarantine_allocs[i].user_ptr = p
                /\ freed_allocations[p].size = hu_quarantine_allocs[i].user_size
<1>1. ToFree = {} /\ ToRecord = {}
  BY NoEvents DEF ToFree, ToRecord
<1>2. /\ DOMAIN allocations = Owed
      /\ \A p \in Owed : allocations[p].size = live[p]
      /\ live = kept /\ MemoryInv /\ hu_env \in Tools
      /\ log_config = LogConfigOf(hu_env)
  BY <1>1 DEF FaultsCore, RecordsCore, CoreInv, LedgerSoFar, Owned, Environment
<1>3. DOMAIN hu_active_allocs = Owed
  <2>1. Owed \subseteq DOMAIN hu_active_allocs
    BY DEF FaultsCore, RecordsCore, OwedIsFenced, TraceInv, UsedIfAsked
  <2>2. NULL \notin DOMAIN hu_active_allocs
    BY <1>2, ActiveTypes
  <2>3. DOMAIN hu_active_allocs \subseteq Owed
    BY <2>2 DEF FaultsCore, TraceInv, ActiveIsOwed
  <2> QED
    BY <2>1, <2>3
<1>4. \A p \in Owed : p \in DOMAIN kept /\ hu_active_allocs[p].user_size = kept[p]
  BY <1>2, <1>3 DEF Owed, MemoryInv, HeldHasRoom, Room, HasRoom
<1>5. \A i \in 1 .. Len(hu_quarantine_allocs) : KnownFreed(hu_quarantine_allocs[i])
  BY <1>1 DEF FaultsCore, TraceInv, QueueIsKnown, Recorded
<1>6. ASSUME NEW p \in DOMAIN freed_allocations
      PROVE  \E i \in 1 .. Len(hu_quarantine_allocs) :
                /\ hu_quarantine_allocs[i].user_ptr = p
                /\ freed_allocations[p].size = hu_quarantine_allocs[i].user_size
  <2>1. OnlyAccess
    BY <1>2, <1>6
       DEF FaultsCore, TraceInv, FreedIsKept, KeepsFreed, LogConfigOf, OnlyAccess,
           FaultHypotheses
  <2>2. PICK i \in 1 .. Len(hu_quarantine_allocs) : hu_quarantine_allocs[i].user_ptr = p
    BY <2>1 DEF FaultsCore, RecordsCore, FreedAreKept, Kept
  <2> QED
    BY <1>5, <2>2 DEF KnownFreed
<1> QED
  BY <1>2, <1>3, <1>4, <1>5, <1>6

\* Blocks in use are looked at first.
LEMMA ReportIs ==
  ASSUME NEW addr, NEW report \in AccessReports(addr)
  PROVE  LET active == Behind(allocations, addr)
             freed == Behind(freed_allocations, addr) \cup Inside(freed_allocations, addr)
         IN  /\ active # {} => report.ptr \in active /\ RightKind(report.kind, FALSE)
             /\ active = {} /\ freed # {} =>
                  report.ptr \in freed /\ RightKind(report.kind, TRUE)
<1> DEFINE active == Behind(allocations, addr)
           behind == Behind(freed_allocations, addr)
           inside == Inside(freed_allocations, addr)
           Report(kind, ptr) == [kind |-> kind, addr |-> addr, ptr |-> ptr]
<1>1. \A kind, ptr : Report(kind, ptr).kind = kind /\ Report(kind, ptr).ptr = ptr
  OBVIOUS
<1>2. /\ RightKind("after alloc'd", FALSE)
      /\ RightKind("after free'd", TRUE) /\ RightKind("inside free'd", TRUE)
  BY Zenon DEF RightKind
<1>3. /\ active # {} => \E ptr \in active : report = Report("after alloc'd", ptr)
      /\ active = {} /\ behind \cup inside # {} =>
           \/ \E ptr \in behind : report = Report("after free'd", ptr)
           \/ \E ptr \in inside : report = Report("inside free'd", ptr)
  BY Zenon DEF AccessReports
<1> HIDE DEF active, behind, inside, Report
<1>4. ASSUME active # {} PROVE report.ptr \in active /\ RightKind(report.kind, FALSE)
  BY <1>1, <1>2, <1>3, <1>4, Zenon
<1>5. ASSUME active = {}, behind \cup inside # {}
      PROVE  report.ptr \in behind \cup inside /\ RightKind(report.kind, TRUE)
  BY <1>1, <1>2, <1>3, <1>5, Zenon
<1> QED
  BY <1>4, <1>5, Zenon DEF active, behind, inside

\* The report names the block that the fault is in or behind.
LEMMA Blamed ==
  ASSUME FaultsCore, FaultHypotheses, todo = <<>>, pending_free = NULL,
         NEW addr \in prot_none, NEW info \in Owner(addr), addr \in Window(info),
         NEW report \in AccessReports(addr)
  PROVE  /\ report.ptr = info.user_ptr
         /\ RightKind(report.kind, info \in Quarantined)
<1> DEFINE active == hu_active_allocs
           queue == hu_quarantine_allocs
           n == Len(hu_quarantine_allocs)
           behind == Behind(allocations, addr)
           freed == Behind(freed_allocations, addr) \cup Inside(freed_allocations, addr)
<1>1. /\ HeapInv /\ LaidOut /\ PlaceInv /\ Protected /\ Apart(libc_blocks)
      /\ HeaderSize # 0 /\ AccessWindow = PageSize
      /\ addr \in Addresses /\ ~mprotect_failed
  BY DEF FaultsCore, RecordsCore, CoreInv, MemoryInv, AllocatorInv, GeometryInv, FaultHypotheses,
         PlaceInv, HeapInv, HeapTypes
<1>2. /\ info \in hu_alloc_info /\ addr \in Block(info)
      /\ (\E p \in DOMAIN active : info = active[p]) \/ (\E i \in 1 .. n : info = queue[i])
      /\ info \in Quarantined <=> \E i \in 1 .. n : info = queue[i]
  BY <1>1, RecordTypes DEF Owner, Active, Quarantined
<1>3. hu_malloc_inited
  <2>1. 1 .. 0 = {} /\ Len(<<>>) = 0
    OBVIOUS
  <2> QED
    BY <1>1, <1>2, <2>1 DEF HeapInv, NothingBeforeInit
<1>4. /\ DOMAIN allocations = DOMAIN active
      /\ \A p \in DOMAIN allocations : allocations[p].size = active[p].user_size
      /\ \A i \in 1 .. n : KnownFreed(queue[i])
      /\ \A p \in DOMAIN freed_allocations :
           \E i \in 1 .. n : /\ queue[i].user_ptr = p
                             /\ freed_allocations[p].size = queue[i].user_size
  BY <1>3, LedgerIsHeap
<1>5. /\ \A p, q \in DOMAIN active : p # q => Window(active[p]) \cap Block(active[q]) = {}
      /\ \A p \in DOMAIN active, i \in 1 .. n :
           /\ Window(active[p]) \cap Block(queue[i]) = {}
           /\ Window(queue[i]) \cap Block(active[p]) = {}
      /\ \A i, j \in 1 .. n : i # j => Window(queue[i]) \cap Block(queue[j]) = {}
  BY <1>1, OwnersSpaced
<1>6. /\ \A p \in DOMAIN active : active[p] \in hu_alloc_info /\ active[p].user_ptr = p
      /\ \A i \in 1 .. n : queue[i] \in hu_alloc_info
      /\ addr \in Nat /\ PageSize \in Nat
      /\ \A some \in hu_alloc_info : some.user_ptr \in Nat /\ some.user_size \in Nat
  BY <1>1, RecordTypes, LibcAssumption, LayoutAssumption
     DEF LaidOut, Addresses, hu_alloc_info
<1> HIDE DEF active, queue, n
<1>7. \A p \in behind : p \in DOMAIN active /\ addr \in Window(active[p])
  BY <1>1, <1>4, <1>6 DEF Behind, Window
<1>8. \A p \in freed : \E i \in 1 .. n : queue[i].user_ptr = p /\ addr \in Window(queue[i])
  <2> SUFFICES ASSUME NEW p \in freed
               PROVE  \E i \in 1 .. n : queue[i].user_ptr = p /\ addr \in Window(queue[i])
    OBVIOUS
  <2>1. p \in DOMAIN freed_allocations
    BY DEF Behind, Inside
  <2>2. PICK i \in 1 .. n : /\ queue[i].user_ptr = p
                            /\ freed_allocations[p].size = queue[i].user_size
    BY <1>4, <2>1
  <2> QED
    BY <1>1, <1>6, <2>2 DEF Behind, Inside, Window
<1>9. CASE \E i \in 1 .. n : info = queue[i]
  <2> PICK i \in 1 .. n : info = queue[i]
    BY <1>9
  <2>1. behind = {}
    BY <1>2, <1>5, <1>7
  <2>2. \A p \in freed : p = info.user_ptr
    BY <1>2, <1>5, <1>8
  <2>3. freed # {}
    <3> DEFINE start == info.user_ptr
               size == info.user_size
    <3>1. /\ start \in DOMAIN freed_allocations
          /\ freed_allocations[start].size = size
      BY <1>4 DEF KnownFreed
    <3>2. start \in Nat /\ size \in Nat /\ addr \in start .. (start + size + PageSize)
      BY <1>2, <1>6 DEF Window
    <3> HIDE DEF start, size
    <3>3. \/ addr \in start .. (start + size - 1)
          \/ addr \in (start + size) .. (start + size + PageSize)
      BY <1>6, <3>2
    <3>4. start \in Behind(freed_allocations, addr) \/ start \in Inside(freed_allocations, addr)
      BY <1>1, <3>1, <3>3 DEF Behind, Inside
    <3> QED
      BY <3>4
  <2>4. report.ptr \in freed /\ RightKind(report.kind, TRUE)
    BY <2>1, <2>3, ReportIs, Zenon
  <2>5. (info \in Quarantined) = TRUE
    BY <1>2
  <2> HIDE DEF behind, freed
  <2> QED
    BY <2>2, <2>4, <2>5, Zenon
<1>10. CASE ~\E i \in 1 .. n : info = queue[i]
  <2> PICK p \in DOMAIN active : info = active[p]
    BY <1>2, <1>10
  <2>1. \A q \in behind : q = p
    BY <1>2, <1>5, <1>7
  <2>2. addr \in Fence(info)
    <3>1. ToProtect(addr)
      BY <1>1 DEF Protected
    <3>2. \A i \in 1 .. n : addr \notin Block(queue[i])
      BY <1>1, <1>2, OwnersApart DEF active, queue, n
    <3>3. PICK q \in DOMAIN active : addr \in Fence(active[q])
      BY <3>1, <3>2 DEF ToProtect, active, queue, n
    <3>4. addr \in Block(active[q])
      BY <1>1, <1>6, <3>3, FenceInBlock DEF LaidOut, active
    <3>5. q = p
      BY <1>1, <1>2, <3>4, OwnersApart DEF active
    <3> QED
      BY <3>3, <3>5
  <2>3. p \in behind
    <3>1. hu_config.overflow /\ addr \in Span(FencePtr(info), PageSize)
      BY <2>2 DEF Fence
    <3>2. Laid(info)
      BY <1>1 DEF LaidOut, active
    <3>3. FenceSize = PageSize
      BY <3>1 DEF FenceSize
    <3>4. /\ info.sys_ptr \in Nat /\ info.sys_size \in Nat
          /\ info.user_ptr \in Nat /\ info.user_size \in Nat /\ info.user_ptr = p
          /\ allocations[p].size = info.user_size /\ p \in DOMAIN allocations
      BY <1>2, <1>4, <1>6 DEF hu_alloc_info, Addresses
    <3>5. info.user_ptr + info.user_size <= addr
      <4> DEFINE usable == hu_calc_user_size(info.user_size)
      <4>1. usable \in Nat /\ info.user_size \in 1 .. usable
        BY <3>2 DEF Laid
      <4>2. info.user_ptr + usable <= info.sys_ptr + info.sys_size - PageSize
        BY <3>2, <3>3 DEF Laid
      <4> HIDE DEF usable
      <4>3. info.sys_ptr + (info.sys_size - PageSize) <= addr
        BY <1>6, <3>1, <3>4 DEF Span, FencePtr, FenceOffset
      <4> QED
        BY <1>6, <3>4, <4>1, <4>2, <4>3
    <3> QED
      BY <1>1, <1>6, <3>4, <3>5 DEF Behind, Window
  <2>4. report.ptr \in behind /\ RightKind(report.kind, FALSE)
    BY <2>3, ReportIs, Zenon
  <2>5. (info \in Quarantined) = FALSE /\ info.user_ptr = p
    BY <1>2, <1>6, <1>10
  <2> HIDE DEF behind
  <2> QED
    BY <2>1, <2>4, <2>5, Zenon
<1> QED
  BY <1>9, <1>10

-----------------------------------------------------------------------------
(***************************************************************************)
(* Where blocks are, under each thing a call does to the heap.             *)
(***************************************************************************)
LEMMA SpacedPut ==
  ASSUME NEW blocks, Spaced(blocks), NEW start, NEW len, LibcFits(blocks, start, len)
  PROVE  Spaced(MapPut(blocks, start, len))
<1> DEFINE more == MapPut(blocks, start, len)
<1>1. /\ DOMAIN more = DOMAIN blocks \cup {start}
      /\ more[start] = len
      /\ \A b \in DOMAIN blocks : b # start => more[b] = blocks[b]
  BY DEF MapPut
<1>2. \A b \in DOMAIN blocks :
        \/ start + len + HeaderSize <= b
        \/ b + blocks[b] + HeaderSize <= start
  BY DEF LibcFits
<1> HIDE DEF more
<1> QED
  BY <1>1, <1>2 DEF Spaced, more

LEMMA SpacedErase ==
  ASSUME NEW blocks, Spaced(blocks), NEW start
  PROVE  Spaced(MapErase(blocks, start))
<1> DEFINE left == MapErase(blocks, start)
<1>1. DOMAIN left \subseteq DOMAIN blocks /\ \A b \in DOMAIN left : left[b] = blocks[b]
  BY DEF MapErase
<1> HIDE DEF left
<1> QED
  BY <1>1 DEF Spaced, left

\* Whatever libc is asked for, it keeps room between its blocks.
LEMMA LibcSpaced ==
  ASSUME Spaced(libc_blocks), NEW ptr, NEW size, NEW ret,
         \/ LibcMalloc(size, ret) \/ LibcMemalign(size, ret)
         \/ LibcFree(ptr) \/ LibcRealloc(ptr, size, ret)
         \/ UNCHANGED libcVars
  PROVE  Spaced(libc_blocks')
<1>1. CASE LibcMalloc(size, ret)
  BY <1>1, SpacedPut DEF LibcMalloc
<1>2. CASE LibcMemalign(size, ret)
  BY <1>2, SpacedPut DEF LibcMemalign
<1>3. CASE LibcFree(ptr)
  BY <1>3, SpacedErase DEF LibcFree
<1>4. CASE LibcRealloc(ptr, size, ret)
  BY <1>1, <1>3, <1>4, SpacedPut, SpacedErase DEF LibcRealloc
<1>5. CASE UNCHANGED libcVars
  BY <1>5 DEF libcVars
<1> QED
  BY <1>1, <1>2, <1>3, <1>4, <1>5

StaysInPlace == Spaced(libc_blocks') /\ UNCHANGED mprotect_failed

LEMMA ProtectWorks ==
  ASSUME ~MprotectCanFail, NEW addrs,
         ProtectNone(addrs) \/ ProtectReadWrite(addrs) \/ UNCHANGED protVars
  PROVE  UNCHANGED mprotect_failed
  BY DEF ProtectNone, ProtectReadWrite, MprotectFails, protVars

LEMMA AllocateInPlace ==
  ASSUME Spaced(libc_blocks), ~MprotectCanFail, NEW size, NEW ret, Allocate(size, ret)
  PROVE  StaysInPlace
<1>1. CASE LibcMalloc(size, ret) /\ UNCHANGED protVars
  BY <1>1, LibcSpaced, ProtectWorks DEF StaysInPlace
<1>2. CASE FencedMalloc(size, ret)
  <2>1. PICK sys_ptr, info :
          /\ LibcMemalign(SysSize(size), sys_ptr)
          /\ ProtectNone(Fence(info)) \/ UNCHANGED protVars
    BY <1>2 DEF FencedMalloc
  <2> QED
    BY <2>1, LibcSpaced, ProtectWorks DEF StaysInPlace
<1> QED
  BY <1>1, <1>2 DEF Allocate

LEMMA ReleaseInPlace ==
  ASSUME Spaced(libc_blocks), ~MprotectCanFail, NEW ptr, Release(ptr)
  PROVE  StaysInPlace
<1>1. PICK freed, addrs :
        /\ LibcFree(freed) \/ UNCHANGED libcVars
        /\ ProtectNone(addrs) \/ ProtectReadWrite(addrs) \/ UNCHANGED protVars
  BY DEF Release, Quarantine, GiveBack
<1> QED
  BY <1>1, LibcSpaced, ProtectWorks DEF StaysInPlace

LEMMA CallInPlace ==
  ASSUME Spaced(libc_blocks), ~MprotectCanFail, NEW old, NEW ret, NEW size,
         HeapCall(old, ret, size)
  PROVE  StaysInPlace
<1>1. ASSUME NEW n, LibcMalloc(n, ret), UNCHANGED protVars PROVE StaysInPlace
  BY <1>1, LibcSpaced, ProtectWorks DEF StaysInPlace
<1>2. CASE hu_malloc(size, ret)
  BY <1>2, AllocateInPlace DEF hu_malloc
<1>3. ASSUME NEW nmemb \in Counts, NEW each \in Sizes, hu_calloc(nmemb, each, ret)
      PROVE  StaysInPlace
  <2>1. \/ \E n : LibcMalloc(n, ret) /\ UNCHANGED protVars
        \/ \E n : Allocate(n, ret)
        \/ UNCHANGED <<libcVars, protVars>>
    BY <1>3, Zenon DEF hu_calloc
  <2>2. CASE UNCHANGED <<libcVars, protVars>>
    BY <2>2, LibcSpaced, ProtectWorks DEF StaysInPlace
  <2> QED
    BY <1>1, <2>1, <2>2, AllocateInPlace
<1>4. CASE hu_realloc(old, size, ret)
  <2>1. \/ LibcRealloc(old, size, ret) /\ UNCHANGED protVars
        \/ Allocate(size, ret)
        \/ Release(old)
    BY <1>4, Zenon DEF hu_realloc, ReallocPassedOn, ReallocMoved
  <2>2. CASE LibcRealloc(old, size, ret) /\ UNCHANGED protVars
    BY <2>2, LibcSpaced, ProtectWorks DEF StaysInPlace
  <2> QED
    BY <2>1, <2>2, AllocateInPlace, ReleaseInPlace
<1>5. CASE hu_free(old)
  BY <1>5, ReleaseInPlace DEF hu_free
<1> QED
  BY <1>2, <1>3, <1>4, <1>5 DEF HeapCall

LEMMA EvictInPlace ==
  ASSUME Spaced(libc_blocks), ~MprotectCanFail, EvictOldest
  PROVE  StaysInPlace
<1>1. PICK freed, addrs : LibcFree(freed) /\ ProtectReadWrite(addrs)
  BY DEF EvictOldest
<1> QED
  BY <1>1, LibcSpaced, ProtectWorks DEF StaysInPlace

LEMMA RequestPaged ==
  ASSUME NEW size \in Requests, NEW overflow \in BOOLEAN,
         NEW sys, sys = hu_calc_sys_size(hu_calc_user_size(size), overflow)
  PROVE  /\ sys \in Nat /\ sys % PageSize = 0
         /\ size % PageSize # 0 => size < sys
<1> DEFINE rounded == hu_calc_user_size(size)
           fence == IF overflow THEN PageSize ELSE 0
<1>1. size \in Nat /\ Representable(size)
  BY RequestTypes
<1>2. PageSize \in Nat \ {0} /\ SizeMultiple \in Nat \ {0} /\ fence \in Nat
  BY LayoutAssumption
<1>3. /\ rounded \in size .. (size + SizeMultiple - 1)
      /\ sys \in (rounded + fence) .. (rounded + fence + PageSize - 1)
      /\ sys % PageSize = 0
  BY <1>1, SysSizeBounds
<1> HIDE DEF rounded, fence
<1>4. sys \in Nat /\ size <= sys
  BY <1>1, <1>2, <1>3
<1>5. size = sys => size % PageSize = 0
  BY <1>3
<1> QED
  BY <1>1, <1>3, <1>4, <1>5

LEMMA ReleaseKeepsPaged ==
  ASSUME MemoryInv, AllPaged, NEW ptr, Release(ptr), UNCHANGED hu_config
  PROVE  AllPaged'
<1>1. /\ DOMAIN hu_active_allocs' \subseteq DOMAIN hu_active_allocs
      /\ \A p \in DOMAIN hu_active_allocs' : hu_active_allocs'[p] = hu_active_allocs[p]
  BY ActiveTypes, ReleaseEffect
<1>2. \A i \in 1 .. Len(hu_quarantine_allocs') :
        \/ \E p \in DOMAIN hu_active_allocs : hu_quarantine_allocs'[i] = hu_active_allocs[p]
        \/ \E j \in 1 .. Len(hu_quarantine_allocs) :
             hu_quarantine_allocs'[i] = hu_quarantine_allocs[j]
  <2>1. CASE ptr \in DOMAIN hu_active_allocs /\ hu_config.useafterfree
    <3> PICK info \in hu_alloc_info : info = hu_active_allocs[ptr]
      BY <2>1, ActiveTypes
    <3>1. hu_quarantine_allocs' = Append(hu_quarantine_allocs, info)
      BY <2>1, ActiveTypes, ReleaseEffect
    <3> QED
      BY <2>1, <3>1, ActiveTypes, Quarantining
  <2>2. CASE ~(ptr \in DOMAIN hu_active_allocs /\ hu_config.useafterfree)
    BY <2>2, ActiveTypes, ReleaseEffect DEF quarantineVars
  <2> QED
    BY <2>1, <2>2
<1>3. /\ \A p \in DOMAIN hu_active_allocs : Paged(hu_active_allocs[p], hu_config.overflow)
      /\ \A i \in 1 .. Len(hu_quarantine_allocs) :
           Paged(hu_quarantine_allocs[i], hu_config.overflow)
  BY DEF AllPaged
<1> QED
  BY <1>1, <1>2, <1>3 DEF AllPaged

\* A new block is whole pages, and the old ones are as they were.
LEMMA CallKeepsPlace ==
  ASSUME FaultsCore, FaultHypotheses,
         NEW old \in Results, NEW ret \in Results, NEW size \in Nat,
         HeapCall(old, ret, size), size \in Requests \/ ret = NULL,
         Grows(old, ret, size) \/ Shrinks(old, ret, size)
  PROVE  PlaceInv'
<1>1. /\ PlaceInv /\ MemoryInv /\ SetUp /\ UsedIfAsked /\ hu_env \in Tools
      /\ ~MprotectCanFail /\ SpareByte
      /\ hu_config.overflow \in BOOLEAN
  BY DEF FaultsCore, FaultHypotheses, TraceInv, RecordsCore, CoreInv, Environment, MemoryInv,
         AllocatorInv, HeapInv, HeapTypes
<1>2. StaysInPlace
  BY <1>1, CallInPlace DEF PlaceInv
<1>3. hu_config' = hu_config
  BY DEF Grows, Shrinks, setupVars
<1>4. /\ \A p \in DOMAIN hu_active_allocs : Paged(hu_active_allocs[p], hu_config.overflow)
      /\ \A i \in 1 .. Len(hu_quarantine_allocs) :
           Paged(hu_quarantine_allocs[i], hu_config.overflow)
  BY <1>1 DEF PlaceInv, AllPaged
<1>5. CASE Grows(old, ret, size)
  <2>1. UNCHANGED hu_quarantine_allocs /\ Tracked(ret, size)
    BY <1>5 DEF Grows, quarantineVars
  <2>2. ASSUME UNCHANGED hu_active_allocs PROVE AllPaged'
    BY <1>3, <1>4, <2>1, <2>2 DEF AllPaged
  <2>3. ASSUME ret # NULL, ~PlainRequest(size), ret \notin DOMAIN hu_active_allocs,
               DOMAIN hu_active_allocs' = DOMAIN hu_active_allocs \cup {ret},
               \A p \in DOMAIN hu_active_allocs : hu_active_allocs'[p] = hu_active_allocs[p]
        PROVE  AllPaged'
    <3> DEFINE info == hu_active_allocs'[ret]
    <3>1. /\ info.user_ptr = ret /\ info.user_size = size
          /\ info.sys_ptr % PageSize = 0 /\ info.sys_size = SysSize(size)
          /\ ~hu_config.overflow => info.sys_ptr = ret
      BY <2>1, <2>3 DEF Tracked
    <3>2. size \in Requests \ {0} /\ hu_malloc_inited
      BY <2>3 DEF PlainRequest
    <3>3. ~hu_config.overflow => size % PageSize # 0
      BY <1>1, <3>2 DEF SetUp, UsedIfAsked, hu_enable_humalloc, SpareByte
    <3>4. /\ SysSize(size) \in Nat /\ SysSize(size) % PageSize = 0
          /\ ~hu_config.overflow => size < SysSize(size)
      BY <1>1, <3>2, <3>3, RequestPaged DEF SysSize
    <3>5. ret \in Nat
      BY LibcAssumption DEF Results, Addresses, NULL
    <3> HIDE DEF info
    <3>6. Paged(info, hu_config.overflow)
      BY <3>1, <3>2, <3>4, <3>5 DEF Paged
    <3> QED
      BY <1>3, <1>4, <2>1, <2>3, <3>6 DEF AllPaged, info
  <2>4. AllPaged'
    BY <2>1, <2>2, <2>3 DEF Tracked
  <2> QED
    BY <1>1, <1>2, <2>4 DEF PlaceInv, StaysInPlace
<1>6. CASE Shrinks(old, ret, size)
  <2>1. Release(old)
    BY <1>6 DEF Shrinks
  <2>2. AllPaged'
    BY <1>1, <1>3, <2>1, ReleaseKeepsPaged DEF PlaceInv
  <2> QED
    BY <1>1, <1>2, <2>2 DEF PlaceInv, StaysInPlace
<1> QED
  BY <1>5, <1>6

LEMMA FinishKeepsPlace ==
  ASSUME FaultsCore, FaultHypotheses, FinishRealloc
  PROVE  PlaceInv'
<1>1. PlaceInv /\ MemoryInv /\ ~MprotectCanFail
  BY DEF FaultsCore, FaultHypotheses, RecordsCore, CoreInv
<1>2. Release(pending_free) /\ UNCHANGED hu_config
  BY DEF FinishRealloc, ReallocFree, setupVars
<1> PICK ptr : ptr = pending_free
  OBVIOUS
<1>3. StaysInPlace
  BY <1>1, <1>2, ReleaseInPlace DEF PlaceInv
<1>4. AllPaged'
  BY <1>1, <1>2, ReleaseKeepsPaged DEF PlaceInv
<1> QED
  BY <1>1, <1>3, <1>4 DEF PlaceInv, StaysInPlace

LEMMA EvictKeepsPlace ==
  ASSUME FaultsCore, FaultHypotheses, Evict
  PROVE  PlaceInv'
<1>1. PlaceInv /\ MemoryInv /\ ~MprotectCanFail
  BY DEF FaultsCore, FaultHypotheses, RecordsCore, CoreInv
<1>2. /\ EvictOldest /\ hu_quarantine_allocs # <<>>
      /\ hu_quarantine_allocs' = Tail(hu_quarantine_allocs)
      /\ UNCHANGED <<hu_config, hu_active_allocs>>
  BY DEF Evict, EvictOldest, OverLimit, setupVars, trackVars
<1>3. StaysInPlace
  BY <1>1, <1>2, EvictInPlace DEF PlaceInv
<1>4. \A i \in 1 .. Len(hu_quarantine_allocs') :
        \E j \in 1 .. Len(hu_quarantine_allocs) :
          hu_quarantine_allocs'[i] = hu_quarantine_allocs[j]
  BY <1>1, <1>2, ActiveTypes, Evicting
<1>5. /\ \A p \in DOMAIN hu_active_allocs : Paged(hu_active_allocs[p], hu_config.overflow)
      /\ \A i \in 1 .. Len(hu_quarantine_allocs) :
           Paged(hu_quarantine_allocs[i], hu_config.overflow)
  BY <1>1 DEF PlaceInv, AllPaged
<1>6. AllPaged'
  BY <1>2, <1>4, <1>5 DEF AllPaged
<1> QED
  BY <1>1, <1>3, <1>6 DEF PlaceInv, StaysInPlace

\* hu_init, and what leaves the heap alone.
LEMMA OthersKeepPlace ==
  ASSUME FaultsCore, hu_init \/ UNCHANGED mallocVars
  PROVE  PlaceInv'
<1>1. PlaceInv /\ MemoryInv
  BY DEF FaultsCore, RecordsCore, CoreInv
<1>2. CASE UNCHANGED mallocVars
  <2>1. UNCHANGED <<libc_blocks, mprotect_failed, hu_config, hu_active_allocs,
                    hu_quarantine_allocs>>
    BY <1>2 DEF mallocVars, libcVars, protVars, setupVars, trackVars, quarantineVars
  <2> QED
    BY <1>1, <2>1 DEF PlaceInv, AllPaged, Spaced
<1>3. CASE hu_malloc_init(MallocConfigOf(hu_env))
  <2>1. /\ UNCHANGED <<libc_blocks, mprotect_failed, hu_active_allocs, hu_quarantine_allocs>>
        /\ ~hu_malloc_inited
    BY <1>3 DEF hu_malloc_init, libcVars, protVars, trackVars, quarantineVars
  <2>2. DOMAIN hu_active_allocs = {} /\ Len(hu_quarantine_allocs) = 0
    BY <1>1, <2>1, ActiveTypes
  <2>3. AllPaged'
    BY <2>1, <2>2 DEF AllPaged
  <2> QED
    BY <1>1, <2>1, <2>3 DEF PlaceInv, Spaced
<1> QED
  BY <1>2, <1>3 DEF hu_init

-----------------------------------------------------------------------------
(***************************************************************************)
(* What the ledger says of the blocks, as calls and events come.           *)
(***************************************************************************)

\* A call of the program: the block it gives back is one the ledger has.
LEMMA CallKeepsTrace ==
  ASSUME FaultsCore, FaultHypotheses,
         NEW old \in Results, NEW ret \in Results, NEW size \in Nat, NEW freed \in BOOLEAN,
         Calls(old, ret, size, freed), Served(old, ret, size, freed),
         Grows(old, ret, size) \/ Shrinks(old, ret, size)
  PROVE  TraceInv'
<1>1. /\ todo = <<>> /\ pending_free = NULL
      /\ UNCHANGED <<hu_env, stage, log_config, allocations, freed_allocations,
                     hu_malloc_inited, hu_config>>
  BY DEF Calls, Idle, processVars, logVars, ledgerVars, Grows, Shrinks, setupVars
<1>2. ToFree = {} /\ ToRecord = {}
  BY <1>1, NoEvents DEF ToFree, ToRecord
<1>3. /\ DOMAIN allocations = Owed
      /\ \A p \in Owed : allocations[p].size = live[p]
      /\ live = kept /\ MemoryInv /\ hu_env \in Tools
      /\ unlogged \subseteq DOMAIN live
  BY <1>2 DEF FaultsCore, RecordsCore, CoreInv, LedgerSoFar, Owned, Environment
<1>4. /\ UsedIfAsked /\ FreedIsKept /\ LiveAsLogged /\ LiveOrFreed
      /\ SetUp
      /\ \A p \in DOMAIN hu_active_allocs : p \in Owed
      /\ \A i \in 1 .. Len(hu_quarantine_allocs) : KnownFreed(hu_quarantine_allocs[i])
  <2>1. NULL \notin DOMAIN hu_active_allocs
    BY <1>3, ActiveTypes
  <2> QED
    BY <1>1, <1>2, <2>1
       DEF FaultsCore, RecordsCore, TraceInv, ActiveIsOwed, QueueIsKnown, Recorded
<1>5. /\ ToFree' = IF freed THEN {old} ELSE {}
      /\ old # NULL => freed
  BY CallLeaves DEF Served
<1>6. FreedIsKept' /\ LiveAsLogged' /\ LiveOrFreed'
  BY <1>1, <1>4 DEF FreedIsKept, KeepsFreed, LiveAsLogged, LiveOrFreed
<1>7. ASSUME old \in DOMAIN hu_active_allocs
      PROVE  /\ old \in ToFree' /\ old \in DOMAIN allocations
             /\ hu_active_allocs[old].user_ptr = old
             /\ allocations[old].size = hu_active_allocs[old].user_size
  <2>1. old \in Owed /\ old # NULL /\ hu_active_allocs[old].user_ptr = old
    BY <1>3, <1>4, <1>7, ActiveTypes
  <2>2. old \in DOMAIN kept /\ hu_active_allocs[old].user_size = kept[old]
    BY <1>3, <1>7, <2>1 DEF Owed, MemoryInv, HeldHasRoom, Room, HasRoom
  <2> QED
    BY <1>3, <1>5, <2>1, <2>2
<1>8. ASSUME NEW p \in Owed, p # old, p # ret PROVE p \in Owed'
  <2>1. /\ live' = Hold(MapErase(live, old), ret, size)
        /\ unlogged' = (unlogged \ {old})
                         \cup (IF stage = "loading" /\ ret # NULL THEN {ret} ELSE {})
    BY DEF Calls
  <2>2. p \in DOMAIN live' /\ live'[p] = live[p] /\ p \notin unlogged'
    BY <1>8, <2>1 DEF Owed, Hold, MapErase, MapPut
  <2> QED
    BY <1>1, <2>2 DEF Owed
<1>9. CASE Grows(old, ret, size)
  <2>1. /\ UNCHANGED hu_quarantine_allocs
        /\ pending_free' = IF old \in DOMAIN hu_active_allocs THEN old ELSE NULL
        /\ Tracked(ret, size)
    BY <1>9 DEF Grows, quarantineVars
  <2>2. /\ DOMAIN hu_active_allocs' \subseteq DOMAIN hu_active_allocs \cup {ret}
        /\ \A p \in DOMAIN hu_active_allocs :
             p \in DOMAIN hu_active_allocs' /\ hu_active_allocs'[p] = hu_active_allocs[p]
        /\ ret \in DOMAIN hu_active_allocs' \ DOMAIN hu_active_allocs =>
             ret # NULL /\ ~PlainRequest(size)
    BY <2>1 DEF Tracked
  <2>3. UsedIfAsked' /\ QueueIsKnown'
    BY <1>1, <1>4, <2>1 DEF UsedIfAsked, QueueIsKnown, KnownFreed
  <2>4. PendingIsRecorded'
    BY <1>1, <1>7, <2>1, <2>2 DEF PendingIsRecorded, Recorded
  <2>5. ASSUME ret \in DOMAIN hu_active_allocs' \ DOMAIN hu_active_allocs
        PROVE  ret \in Owed'
    <3>1. ret # NULL /\ ~PlainRequest(size)
      BY <2>2, <2>5
    <3>2. stage # "loading" /\ hu_malloc_inited /\ size > 0 /\ size >= hu_env.minsize
      <4>1. hu_env.minsize \in Nat
        BY <1>3, HeapUsageAssumption DEF Tool
      <4> QED
        BY <1>4, <3>1, <4>1 DEF PlainRequest, SetUp, FaultsCore, RecordsCore, CoreInv, BeforeInit
    <3>3. /\ live' = Hold(MapErase(live, old), ret, size)
          /\ unlogged' = unlogged \ {old}
          /\ ret \notin DOMAIN live \ {old}
      BY <1>3, <3>1, <3>2 DEF Calls, NewTo
    <3>4. ret \in DOMAIN live' /\ live'[ret] = size /\ ret \notin unlogged'
      BY <1>3, <3>1, <3>3 DEF Hold, MapPut
    <3> QED
      BY <1>1, <3>2, <3>4 DEF Owed
  <2>6. ActiveIsOwed'
    <3> SUFFICES ASSUME NEW p \in DOMAIN hu_active_allocs', p # pending_free'
                 PROVE  p \in Owed'
      BY DEF ActiveIsOwed
    <3>1. CASE p \in DOMAIN hu_active_allocs /\ p # ret
      BY <1>4, <1>8, <2>1, <3>1
    <3>2. CASE p \in DOMAIN hu_active_allocs /\ p = ret
      <4>1. p \in DOMAIN live /\ p # NULL
        BY <1>3, <1>4, <3>2, ActiveTypes DEF Owed
      <4>2. ret = old
        BY <1>3, <3>2, <4>1 DEF Calls, NewTo
      <4> QED
        BY <2>1, <3>2, <4>2
    <3>3. CASE p \notin DOMAIN hu_active_allocs
      BY <2>2, <2>5, <3>3
    <3> QED
      BY <3>1, <3>2, <3>3
  <2> QED
    BY <1>6, <2>3, <2>4, <2>6 DEF TraceInv
<1>10. CASE Shrinks(old, ret, size)
  <2>1. Release(old) /\ ret = NULL /\ pending_free' = NULL
    BY <1>1, <1>10 DEF Shrinks
  <2>2. /\ DOMAIN hu_active_allocs' = DOMAIN hu_active_allocs \ {old}
        /\ NULL \notin DOMAIN hu_active_allocs
        /\ hu_quarantine_allocs \in Seq(hu_alloc_info)
        /\ old \in DOMAIN hu_active_allocs => hu_malloc_inited
    BY <1>3, <2>1, ActiveTypes, ReleaseEffect
  <2>3. ActiveIsOwed'
    BY <1>4, <1>8, <2>1, <2>2 DEF ActiveIsOwed
  <2>4. PendingIsRecorded'
    BY <2>1 DEF PendingIsRecorded
  <2>5. CASE old \in DOMAIN hu_active_allocs /\ hu_config.useafterfree
    <3> PICK info \in hu_alloc_info : info = hu_active_allocs[old]
      BY <1>3, <2>5, ActiveTypes
    <3>1. hu_quarantine_allocs' = Append(hu_quarantine_allocs, info)
      BY <1>3, <2>1, <2>5, ActiveTypes, ReleaseEffect
    <3>2. \A i \in 1 .. Len(hu_quarantine_allocs') :
            hu_quarantine_allocs'[i] = info
              \/ \E j \in 1 .. Len(hu_quarantine_allocs) :
                   hu_quarantine_allocs'[i] = hu_quarantine_allocs[j]
      BY <2>2, <3>1, Quarantining
    <3>3. info.user_ptr \in ToFree' /\ info.user_ptr \in DOMAIN allocations
          /\ allocations[info.user_ptr].size = info.user_size
      BY <1>7, <2>5
    <3>4. QueueIsKnown'
      BY <1>1, <1>4, <3>2, <3>3 DEF QueueIsKnown, Recorded, KnownFreed
    <3>5. UsedIfAsked'
      BY <1>1, <1>4, <2>2, <2>5 DEF UsedIfAsked, SetUp
    <3> QED
      BY <1>6, <2>3, <2>4, <3>4, <3>5 DEF TraceInv
  <2>6. CASE ~(old \in DOMAIN hu_active_allocs /\ hu_config.useafterfree)
    <3>1. hu_quarantine_allocs' = hu_quarantine_allocs
      BY <1>3, <2>1, <2>6, ActiveTypes, ReleaseEffect DEF quarantineVars
    <3>2. UsedIfAsked' /\ QueueIsKnown'
      BY <1>1, <1>4, <3>1 DEF UsedIfAsked, QueueIsKnown, KnownFreed
    <3> QED
      BY <1>6, <2>3, <2>4, <3>2 DEF TraceInv
  <2> QED
    BY <2>5, <2>6
<1> QED
  BY <1>9, <1>10

\* The user's pointers of the blocks in quarantine are their own.
LEMMA UsersApart ==
  ASSUME MemoryInv
  PROVE  /\ \A i, j \in 1 .. Len(hu_quarantine_allocs) :
              i # j => hu_quarantine_allocs[i].user_ptr # hu_quarantine_allocs[j].user_ptr
         /\ \A q \in DOMAIN kept : \A i \in 1 .. Len(hu_quarantine_allocs) :
              q # hu_quarantine_allocs[i].user_ptr
<1> DEFINE queue == hu_quarantine_allocs
           n == Len(hu_quarantine_allocs)
<1>1. HeapInv /\ LaidOut /\ Apart(libc_blocks)
  BY DEF MemoryInv, AllocatorInv, GeometryInv
<1>2. \A i \in 1 .. n : queue[i] \in hu_alloc_info /\ Laid(queue[i])
  BY <1>1, RecordTypes DEF LaidOut
<1>3. ASSUME NEW info \in hu_alloc_info, Laid(info) PROVE info.user_ptr \in Block(info)
  <2>1. Span(info.user_ptr, 1) \subseteq Block(info)
    <3>1. 1 \in Nat /\ 1 <= hu_calc_user_size(info.user_size)
      BY <1>3 DEF Laid
    <3> QED
      BY <1>1, <1>3, <3>1, FenceInBlock
  <2>2. info.user_ptr \in Span(info.user_ptr, 1)
    BY LibcAssumption DEF hu_alloc_info, Addresses, Span
  <2> QED
    BY <2>1, <2>2
<1>4. \A i \in 1 .. n : queue[i].user_ptr \in Block(queue[i])
  BY <1>2, <1>3
<1>5. ASSUME NEW i \in 1 .. n, NEW j \in 1 .. n, i # j
      PROVE  queue[i].user_ptr # queue[j].user_ptr
  BY <1>1, <1>4, <1>5, OwnersApart
<1>6. ASSUME NEW q \in DOMAIN kept, NEW i \in 1 .. n PROVE q # queue[i].user_ptr
  <2>1. PICK b \in DOMAIN libc_blocks :
          /\ q \in Span(b, libc_blocks[b])
          /\ IF q \in DOMAIN hu_active_allocs THEN b = hu_active_allocs[q].sys_ptr ELSE b = q
    BY HeldInBlock
  <2>2. CASE q \in DOMAIN hu_active_allocs
    <3>1. q \in Block(hu_active_allocs[q])
      BY <1>1, <2>1, <2>2, RecordTypes DEF Block
    <3> QED
      BY <1>1, <1>4, <2>2, <3>1, OwnersApart
  <2>3. CASE q \notin DOMAIN hu_active_allocs
    <3>1. Plain(q, libc_blocks, hu_active_allocs, hu_quarantine_allocs)
      BY <2>3 DEF MemoryInv, AllocatorInv, HeldIsReturnable, Returnable
    <3>2. Span(q, libc_blocks[q]) \cap Block(queue[i]) = {}
      BY <1>1, <3>1, OwnersApart
    <3> QED
      BY <1>4, <2>1, <2>3, <3>2
  <2> QED
    BY <2>2, <2>3
<1> QED
  BY <1>5, <1>6

\* The second half of a realloc: the ledger is about to hear of the block.
LEMMA FinishKeepsTrace ==
  ASSUME FaultsCore, FinishRealloc
  PROVE  TraceInv'
<1>1. /\ Release(pending_free) /\ pending_free # NULL /\ pending_free' = NULL
      /\ UNCHANGED setupVars
      /\ UNCHANGED <<hu_env, log_config, stage, todo, live, unlogged, allocations,
                     freed_allocations>>
  BY DEF FinishRealloc, ReallocFree, processVars, programVars, logVars, ledgerVars
<1>2. /\ MemoryInv /\ HeapInv /\ UNCHANGED <<hu_malloc_inited, hu_config>>
      /\ pending_free \in DOMAIN hu_active_allocs
      /\ UsedIfAsked /\ ActiveIsOwed /\ FreedIsKept /\ LiveAsLogged /\ LiveOrFreed
      /\ PendingIsRecorded /\ QueueIsKnown /\ SetUp
  BY <1>1 DEF FaultsCore, RecordsCore, CoreInv, MemoryInv, AllocatorInv, PendingIsActive,
              setupVars, TraceInv
<1> PICK ptr \in DOMAIN hu_active_allocs : ptr = pending_free
  BY <1>2
<1>3. /\ DOMAIN hu_active_allocs' = DOMAIN hu_active_allocs \ {ptr}
      /\ IF hu_config.useafterfree
           THEN hu_quarantine_allocs' = Append(hu_quarantine_allocs, hu_active_allocs[ptr])
           ELSE UNCHANGED quarantineVars
  BY <1>1, <1>2, ReleaseEffect
<1>4. ToFree' = ToFree /\ Owed' = Owed
  BY <1>1 DEF ToFree, Owed
<1>5. ActiveIsOwed' /\ PendingIsRecorded'
  BY <1>1, <1>2, <1>3, <1>4 DEF ActiveIsOwed, PendingIsRecorded
<1>6. FreedIsKept' /\ LiveAsLogged' /\ LiveOrFreed'
  BY <1>1, <1>2 DEF FreedIsKept, KeepsFreed, LiveAsLogged, LiveOrFreed
<1>7. CASE hu_config.useafterfree
  <2> PICK info \in hu_alloc_info : info = hu_active_allocs[ptr]
    BY <1>2, ActiveTypes
  <2>1. Recorded(info)
    BY <1>1, <1>2 DEF PendingIsRecorded
  <2>2. \A i \in 1 .. Len(hu_quarantine_allocs') :
          hu_quarantine_allocs'[i] = info
            \/ \E j \in 1 .. Len(hu_quarantine_allocs) :
                 hu_quarantine_allocs'[i] = hu_quarantine_allocs[j]
    BY <1>2, <1>3, <1>7, ActiveTypes, Quarantining
  <2>3. QueueIsKnown'
    BY <1>1, <1>2, <1>4, <2>1, <2>2 DEF QueueIsKnown, Recorded, KnownFreed
  <2>4. UsedIfAsked'
    BY <1>1, <1>2, <1>7, ActiveTypes DEF UsedIfAsked, SetUp
  <2> QED
    BY <1>5, <1>6, <2>3, <2>4 DEF TraceInv
<1>8. CASE ~hu_config.useafterfree
  <2>1. hu_quarantine_allocs' = hu_quarantine_allocs
    BY <1>3, <1>8 DEF quarantineVars
  <2>2. QueueIsKnown' /\ UsedIfAsked'
    BY <1>1, <1>2, <1>4, <2>1 DEF QueueIsKnown, Recorded, KnownFreed, UsedIfAsked
  <2> QED
    BY <1>5, <1>6, <2>2 DEF TraceInv
<1> QED
  BY <1>7, <1>8

\* The oldest block leaves the quarantine, and its record the ledger.
LEMMA EvictKeepsTrace ==
  ASSUME FaultsCore, Evict
  PROVE  TraceInv'
<1> DEFINE queue == hu_quarantine_allocs
           rest == Tail(hu_quarantine_allocs)
<1>1. /\ OverLimit /\ hu_quarantine_allocs' = Tail(hu_quarantine_allocs)
      /\ UNCHANGED <<setupVars, hu_active_allocs, pending_free>>
      /\ UNCHANGED <<hu_env, log_config, stage, todo, live, unlogged, allocations>>
      /\ freed_allocations' = IF ~log_config.log_free
                                THEN MapErase(freed_allocations, Head(queue).user_ptr)
                                ELSE freed_allocations
  BY DEF Evict, EvictOldest, hu_log_remove_freed_allocation, processVars, programVars, trackVars
<1>2. /\ MemoryInv /\ queue \in Seq(hu_alloc_info) /\ queue # <<>>
      /\ UNCHANGED hu_malloc_inited
      /\ UsedIfAsked /\ ActiveIsOwed /\ FreedIsKept /\ LiveAsLogged /\ LiveOrFreed
      /\ PendingIsRecorded /\ QueueIsKnown
  BY <1>1, ActiveTypes
     DEF OverLimit, FaultsCore, RecordsCore, CoreInv, TraceInv, setupVars
<1>3. ToFree' = ToFree /\ Owed' = Owed
  BY <1>1 DEF ToFree, Owed
<1>4. /\ \A i \in 1 .. Len(rest) : i + 1 \in 1 .. Len(queue) /\ i + 1 # 1 /\ rest[i] = queue[i + 1]
      /\ Head(queue) = queue[1] /\ 1 \in 1 .. Len(queue)
  BY <1>2
<1>5. \A i \in 1 .. Len(rest) : \E j \in 1 .. Len(queue) :
        rest[i] = queue[j] /\ queue[j].user_ptr # Head(queue).user_ptr
  <2> SUFFICES ASSUME NEW i \in 1 .. Len(rest)
               PROVE  \E j \in 1 .. Len(queue) :
                        rest[i] = queue[j] /\ queue[j].user_ptr # Head(queue).user_ptr
    OBVIOUS
  <2> HIDE DEF queue, rest
  <2>1. queue[i + 1].user_ptr # queue[1].user_ptr
    BY <1>2, <1>4, UsersApart DEF queue
  <2> QED
    BY <1>4, <2>1
<1>6. /\ DOMAIN freed_allocations' \subseteq DOMAIN freed_allocations
      /\ \A p \in DOMAIN freed_allocations : p # Head(queue).user_ptr =>
           p \in DOMAIN freed_allocations' /\ freed_allocations'[p] = freed_allocations[p]
  BY <1>1 DEF MapErase
<1>7. FreedIsKept' /\ LiveAsLogged' /\ LiveOrFreed'
  BY <1>1, <1>2, <1>6 DEF FreedIsKept, KeepsFreed, LiveAsLogged, LiveOrFreed
<1>8. ActiveIsOwed' /\ PendingIsRecorded' /\ UsedIfAsked'
  BY <1>1, <1>2, <1>3 DEF ActiveIsOwed, PendingIsRecorded, Recorded, UsedIfAsked
<1>9. ASSUME NEW info, Recorded(info) \/ KnownFreed(info), info.user_ptr # Head(queue).user_ptr
      PROVE  Recorded(info)' \/ KnownFreed(info)'
  BY <1>1, <1>3, <1>6, <1>9 DEF Recorded, KnownFreed
<1>10. QueueIsKnown'
  <2>1. \A i \in 1 .. Len(hu_quarantine_allocs') : \E j \in 1 .. Len(queue) :
          /\ hu_quarantine_allocs'[i] = queue[j]
          /\ queue[j].user_ptr # Head(queue).user_ptr
    BY <1>1, <1>5
  <2>2. ASSUME NEW i \in 1 .. Len(hu_quarantine_allocs')
        PROVE  \E info : /\ info = hu_quarantine_allocs'[i]
                         /\ Recorded(info)' \/ KnownFreed(info)'
    <3> PICK j \in 1 .. Len(queue) :
               /\ hu_quarantine_allocs'[i] = queue[j]
               /\ queue[j].user_ptr # Head(queue).user_ptr
      BY <2>1, <2>2
    <3> PICK info : info = queue[j]
      OBVIOUS
    <3>1. Recorded(info) \/ KnownFreed(info)
      BY <1>2 DEF QueueIsKnown
    <3>2. Recorded(info)' \/ KnownFreed(info)'
      BY <1>9, <3>1
    <3> QED
      BY <3>2
  <2> QED
    BY <2>2 DEF QueueIsKnown, Recorded, KnownFreed
<1> QED
  BY <1>7, <1>8, <1>10 DEF TraceInv

\* A block is logged as freed: its record is kept, with its size.
LEMMA FreeKeepsQueue ==
  ASSUME FaultsCore, FaultHypotheses, NEW p, NEW stack, NEW opened,
         FreeComesFirst(p), log_event_free(p, stack, opened), logging_enabled,
         UNCHANGED hu_quarantine_allocs
  PROVE  FreedIsKept' /\ LiveAsLogged' /\ LiveOrFreed' /\ QueueIsKnown'
<1>1. /\ FreedIsKept /\ LiveAsLogged /\ LiveOrFreed /\ QueueIsKnown /\ UsedIfAsked
      /\ log_config = LogConfigOf(hu_env) /\ hu_env \in Tools
      /\ ToFree = {p} /\ ToFree' = {}
  BY DEF FaultsCore, RecordsCore, CoreInv, Environment, TraceInv, FreeComesFirst
<1>2. ~log_config.log_free
  BY <1>1 DEF LogConfigOf, FaultHypotheses
<1>3. log_config' = log_config /\ KeepsFreed' = KeepsFreed
  BY FreeLogged DEF KeepsFreed
<1>4. hu_quarantine_allocs # <<>> => KeepsFreed
  BY <1>1 DEF UsedIfAsked, KeepsFreed, LogConfigOf
<1>5. CASE p \in DOMAIN allocations /\ LogFreed(p, stack)
  <2> DEFINE info == [allocations[p] EXCEPT !.free_callstack = stack]
  <2>1. /\ allocations' = MapErase(allocations, p)
        /\ freed_allocations' = IF KeepsFreed THEN MapInsert(freed_allocations, p, info)
                                ELSE freed_allocations
    BY <1>5 DEF LogFreed
  <2>2. info.size = allocations[p].size
    <3> PICK size, logged : allocations[p] = hu_allocinfo_t(size, logged)
      BY <1>1, <1>5 DEF LiveAsLogged
    <3> QED
      BY DEF hu_allocinfo_t
  <2> HIDE DEF info
  <2>3. /\ DOMAIN allocations' = DOMAIN allocations \ {p}
        /\ \A q \in DOMAIN allocations' : allocations'[q] = allocations[q]
        /\ KeepsFreed => /\ DOMAIN freed_allocations' = DOMAIN freed_allocations \cup {p}
                         /\ freed_allocations'[p] = info
        /\ ~KeepsFreed => freed_allocations' = freed_allocations
        /\ \A q \in DOMAIN freed_allocations : freed_allocations'[q] = freed_allocations[q]
    BY <1>1, <1>5, <2>1 DEF MapErase, MapInsert, LiveOrFreed
  <2>4. FreedIsKept' /\ LiveAsLogged' /\ LiveOrFreed'
    BY <1>1, <1>3, <2>3 DEF FreedIsKept, LiveAsLogged, LiveOrFreed
  <2>5. ASSUME NEW i \in 1 .. Len(hu_quarantine_allocs)
        PROVE  KnownFreed(hu_quarantine_allocs[i])'
    <3> PICK block : block = hu_quarantine_allocs[i]
      OBVIOUS
    <3>1. (Recorded(block) \/ KnownFreed(block)) /\ KeepsFreed
      <4>1. hu_quarantine_allocs # <<>>
        BY <2>5
      <4> QED
        BY <1>1, <1>4, <4>1 DEF QueueIsKnown
    <3>2. /\ block.user_ptr \in DOMAIN freed_allocations'
          /\ freed_allocations'[block.user_ptr].size = block.user_size
      BY <1>1, <2>2, <2>3, <3>1 DEF Recorded, KnownFreed
    <3> QED
      BY <3>2 DEF KnownFreed
  <2> QED
    BY <2>4, <2>5 DEF QueueIsKnown
<1>6. CASE p \notin DOMAIN allocations /\ LogUnknownFree
  <2>1. UNCHANGED <<allocations, freed_allocations>>
    BY <1>6 DEF LogUnknownFree
  <2>2. \A i \in 1 .. Len(hu_quarantine_allocs) : KnownFreed(hu_quarantine_allocs[i])
    BY <1>1, <1>6 DEF QueueIsKnown, Recorded
  <2> QED
    BY <1>1, <1>3, <2>1, <2>2
       DEF FreedIsKept, LiveAsLogged, LiveOrFreed, QueueIsKnown, KnownFreed
<1> QED
  BY <1>2, <1>5, <1>6 DEF log_event_free

\* A block is logged as allocated: it is none of those in quarantine.
LEMMA MallocKeepsQueue ==
  ASSUME FaultsCore, NEW q, NEW stack,
         MallocComesFirst(q), log_event_malloc(q, live[q], stack), logging_enabled,
         UNCHANGED hu_quarantine_allocs
  PROVE  FreedIsKept' /\ LiveAsLogged' /\ LiveOrFreed' /\ QueueIsKnown'
<1>1. /\ FreedIsKept /\ LiveAsLogged /\ LiveOrFreed /\ QueueIsKnown
      /\ MemoryInv /\ q \in DOMAIN kept /\ ToFree = {}
  BY DEF FaultsCore, RecordsCore, CoreInv, Owned, TraceInv, MallocComesFirst
<1>2. log_config' = log_config /\ KeepsFreed' = KeepsFreed
  BY DEF log_event_malloc, KeepsFreed
<1>3. /\ DOMAIN allocations' \subseteq DOMAIN allocations \cup {q}
      /\ \A p \in DOMAIN allocations' :
           allocations'[p] = allocations[p] \/ allocations'[p] = hu_allocinfo_t(live[q], stack)
      /\ \A p \in DOMAIN allocations' : p # q => allocations'[p] = allocations[p]
  BY DEF log_event_malloc, LogRecorded, MapPut
<1>4. freed_allocations' = IF KeepsFreed THEN MapErase(freed_allocations, q)
                           ELSE freed_allocations
  BY DEF log_event_malloc
<1>5. /\ DOMAIN freed_allocations' \subseteq DOMAIN freed_allocations
      /\ KeepsFreed => q \notin DOMAIN freed_allocations'
      /\ \A p \in DOMAIN freed_allocations : p # q =>
           p \in DOMAIN freed_allocations' /\ freed_allocations'[p] = freed_allocations[p]
  BY <1>4 DEF MapErase
<1>6. FreedIsKept' /\ LiveOrFreed'
  BY <1>1, <1>2, <1>3, <1>5 DEF FreedIsKept, LiveOrFreed
<1>7. LiveAsLogged'
  <2> SUFFICES ASSUME NEW p \in DOMAIN allocations'
               PROVE  \E size, logged : allocations'[p] = hu_allocinfo_t(size, logged)
    BY DEF LiveAsLogged, hu_allocinfo_t
  <2>1. CASE p \in DOMAIN allocations /\ allocations'[p] = allocations[p]
    BY <1>1, <2>1 DEF LiveAsLogged
  <2>2. CASE allocations'[p] = hu_allocinfo_t(live[q], stack)
    BY <2>2
  <2>3. CASE p \notin DOMAIN allocations
    <3>1. p = q
      BY <1>3, <2>3
    <3>2. allocations' = MapPut(allocations, q, hu_allocinfo_t(live[q], stack))
      BY <2>3 DEF log_event_malloc, LogRecorded
    <3> QED
      BY <2>2, <3>1, <3>2 DEF MapPut
  <2> QED
    BY <1>3, <2>1, <2>2, <2>3
<1>8. QueueIsKnown'
  <2>1. ASSUME NEW i \in 1 .. Len(hu_quarantine_allocs)
        PROVE  KnownFreed(hu_quarantine_allocs[i])'
    <3> PICK block : block = hu_quarantine_allocs[i]
      OBVIOUS
    <3>1. block.user_ptr # q
      BY <1>1, <2>1, UsersApart
    <3>2. KnownFreed(block)
      BY <1>1 DEF QueueIsKnown, Recorded
    <3> QED
      BY <1>5, <3>1, <3>2 DEF KnownFreed
  <2> QED
    BY <2>1 DEF QueueIsKnown
<1> QED
  BY <1>6, <1>7, <1>8

LEMMA LogEventKeepsTrace ==
  ASSUME FaultsCore, FaultHypotheses, LogEvent
  PROVE  TraceInv'
<1>1. /\ pending_free = NULL /\ OneThread /\ CoreInv
      /\ UNCHANGED <<hu_malloc_inited, hu_active_allocs, hu_quarantine_allocs, pending_free>>
      /\ UNCHANGED <<hu_env, stage, live, unlogged>>
  BY LogEventIs
     DEF FaultHypotheses, FaultsCore, RecordsCore, processVars, programVars, mallocVars,
         setupVars, trackVars, quarantineVars, Idle
<1>2. TraceInv
  BY DEF FaultsCore
<1>3. UsedIfAsked' /\ ActiveIsOwed' /\ PendingIsRecorded'
  BY <1>1, <1>2 DEF TraceInv, UsedIfAsked, ActiveIsOwed, Owed, PendingIsRecorded
<1>4. FreedIsKept' /\ LiveAsLogged' /\ LiveOrFreed' /\ QueueIsKnown'
  <2>1. CASE stage = "loading" /\ UNCHANGED <<log_config, allocations, freed_allocations>>
    <3>1. DOMAIN hu_quarantine_allocs = {} /\ Len(hu_quarantine_allocs) = 0
      BY <1>1, <2>1, ActiveTypes DEF CoreInv, BeforeInit
    <3> QED
      BY <1>1, <1>2, <2>1, <3>1
         DEF TraceInv, FreedIsKept, KeepsFreed, LiveAsLogged, LiveOrFreed, QueueIsKnown
  <2>2. CASE \E p : /\ FreeComesFirst(p) /\ logging_enabled
                    /\ \E stack \in Stacks, opened \in BOOLEAN :
                         log_event_free(p, stack, opened)
    BY <1>1, <2>2, FreeKeepsQueue
  <2>3. CASE \E q : /\ MallocComesFirst(q) /\ logging_enabled
                    /\ \E stack \in Stacks : log_event_malloc(q, live[q], stack)
    BY <1>1, <2>3, MallocKeepsQueue
  <2> QED
    BY <1>1, <2>1, <2>2, <2>3, EventLogged
<1> QED
  BY <1>3, <1>4 DEF TraceInv

\* hu_init, and what leaves both the heap and the ledger alone.
LEMMA OthersKeepTrace ==
  ASSUME FaultsCore, hu_init \/ LifeCycle \/ UNCHANGED vars
  PROVE  TraceInv'
<1>1. /\ TraceInv /\ MemoryInv
      /\ UNCHANGED <<hu_env, log_config, todo, live, unlogged, allocations,
                     freed_allocations>>
  <2>1. CASE hu_init
    BY <2>1 DEF hu_init, log_enable, programVars, ledgerVars, FaultsCore, RecordsCore, CoreInv
  <2>2. CASE LifeCycle
    BY <2>2 DEF LifeCycle, ReportBegin, ReportSummary, ReportEnd, Fault, Exit, FiniSilence,
                FiniSummary, processVars, programVars, log_enable, log_summary, hu_sig_handler,
                logVars, ledgerVars, FaultsCore, RecordsCore, CoreInv
  <2>3. CASE UNCHANGED vars
    BY <2>3 DEF vars, processVars, programVars, logVars, ledgerVars, FaultsCore, RecordsCore,
                CoreInv
  <2> QED
    BY <2>1, <2>2, <2>3
<1>2. UNCHANGED <<hu_active_allocs, hu_quarantine_allocs, pending_free>>
  <2>1. UNCHANGED <<trackVars, quarantineVars, pending_free>>
    BY DEF hu_init, hu_malloc_init, LifeCycle, ReportBegin, ReportSummary, ReportEnd, Fault,
           Exit, FiniSilence, FiniSummary, vars, mallocVars
  <2> QED
    BY <2>1 DEF trackVars, quarantineVars
<1>3. ToFree' = ToFree /\ Owed' = Owed
  BY <1>1 DEF ToFree, Owed
<1>4. UsedIfAsked'
  <2>1. hu_malloc_inited' => hu_malloc_inited \/ hu_enable_humalloc(hu_env)
    BY DEF hu_init, LifeCycle, ReportBegin, ReportSummary, ReportEnd, Fault,
           Exit, FiniSilence, FiniSummary, vars, mallocVars, setupVars
  <2> QED
    BY <1>1, <1>2, <2>1 DEF TraceInv, UsedIfAsked
<1>5. ActiveIsOwed' /\ FreedIsKept' /\ LiveAsLogged' /\ LiveOrFreed' /\ PendingIsRecorded'
  BY <1>1, <1>2, <1>3
     DEF TraceInv, ActiveIsOwed, FreedIsKept, KeepsFreed, LiveAsLogged, LiveOrFreed,
         PendingIsRecorded, Recorded
<1>6. QueueIsKnown'
  BY <1>1, <1>2, <1>3 DEF TraceInv, QueueIsKnown, Recorded, KnownFreed
<1> QED
  BY <1>4, <1>5, <1>6 DEF TraceInv

\* What is protected belongs to a block of humalloc's.
LEMMA CoreHasOwner == FaultsCore => FaultHasOwner
<1> SUFFICES ASSUME FaultsCore, NEW addr \in prot_none PROVE Owner(addr) # {}
  BY DEF FaultHasOwner
<1>1. HeapInv /\ LaidOut /\ Protected /\ ~mprotect_failed /\ addr \in Addresses
  BY DEF FaultsCore, RecordsCore, CoreInv, MemoryInv, AllocatorInv, GeometryInv, PlaceInv,
         HeapInv, HeapTypes
<1>2. CASE \E p \in DOMAIN hu_active_allocs : addr \in Fence(hu_active_allocs[p])
  <2> PICK p \in DOMAIN hu_active_allocs : addr \in Fence(hu_active_allocs[p])
    BY <1>2
  <2>1. addr \in Block(hu_active_allocs[p])
    BY <1>1, RecordTypes, FenceInBlock DEF LaidOut
  <2> QED
    BY <2>1 DEF Owner, Active
<1>3. CASE \E i \in 1 .. Len(hu_quarantine_allocs) : addr \in Block(hu_quarantine_allocs[i])
  BY <1>3 DEF Owner, Quarantined
<1> QED
  BY <1>1, <1>2, <1>3 DEF Protected, ToProtect

\* Only a fault is reported.
OtherLife ==
  ReportBegin \/ ReportSummary \/ ReportEnd \/ Exit \/ FiniSilence \/ FiniSummary

NothingReported ==
  /\ UNCHANGED <<fault, last_access>>
  /\ stage' \in {"loading", "running"} => stage \in {"loading", "running"}

LEMMA StepsReportNothing ==
  ASSUME OneThread,
         ACall \/ LogEvent \/ FinishRealloc \/ Evict \/ hu_init \/ OtherLife \/ UNCHANGED vars
  PROVE  NothingReported
<1>1. CASE ACall
  BY <1>1 DEF ACall, Calls, processVars, logVars, accessVars, NothingReported
<1>2. CASE LogEvent
  <2>1. UNCHANGED <<fault, stage>>
    BY <1>2 DEF LogEvent, processVars, programVars
  <2>2. UNCHANGED last_access
    BY <1>2 DEF LogEvent, log_event_malloc, log_event_free, accessVars
  <2> QED
    BY <2>1, <2>2 DEF NothingReported
<1>3. CASE FinishRealloc
  BY <1>3 DEF FinishRealloc, processVars, programVars, logVars, accessVars, NothingReported
<1>4. CASE Evict
  BY <1>4 DEF Evict, hu_log_remove_freed_allocation, processVars, programVars, accessVars,
              NothingReported
<1>5. CASE hu_init
  BY <1>5 DEF hu_init, log_enable, programVars, accessVars, NothingReported
<1>6. CASE OtherLife
  BY <1>6 DEF OtherLife, ReportBegin, ReportSummary, ReportEnd, Exit, FiniSilence, FiniSummary,
              log_enable, log_summary, processVars, programVars, logVars, accessVars,
              NothingReported
<1>7. CASE UNCHANGED vars
  BY <1>7 DEF vars, processVars, programVars, logVars, accessVars, NothingReported
<1> QED
  BY <1>1, <1>2, <1>3, <1>4, <1>5, <1>6, <1>7

LEMMA FaultIsBlamed ==
  ASSUME FaultsCore, FaultHypotheses, NEW addr \in Addresses, Fault(addr)
  PROVE  Attributed' /\ NoReportYet'
<1>1. /\ stage = "running" /\ stage' = "exiting" /\ todo = <<>> /\ pending_free = NULL
      /\ addr \in prot_none
      /\ fault' = {[addr |-> addr, ptr |-> info.user_ptr, size |-> info.user_size,
                    freed |-> info \in Quarantined] : info \in Owner(addr)}
  BY DEF Fault, Idle
<1>2. last_access = {}
  BY <1>1 DEF FaultsCore, NoReportYet
<1>3. last_access' = {} \/ \E report \in AccessReports(addr) : last_access' = {report}
  BY <1>2 DEF Fault, hu_sig_handler, accessVars
<1>4. ASSUME NEW f \in fault', NEW report \in last_access', InWindow(f)
      PROVE  report.ptr = f.ptr /\ RightKind(report.kind, f.freed)
  <2> PICK info \in Owner(addr) :
             f = [addr |-> addr, ptr |-> info.user_ptr, size |-> info.user_size,
                  freed |-> info \in Quarantined]
    BY <1>1, <1>4
  <2>1. /\ f.addr = addr /\ f.ptr = info.user_ptr /\ f.size = info.user_size
        /\ f.freed = (info \in Quarantined)
    OBVIOUS
  <2>2. report \in AccessReports(addr)
    BY <1>3, <1>4
  <2>3. addr \in Window(info)
    BY <1>4, <2>1 DEF InWindow, Window
  <2>4. report.ptr = info.user_ptr /\ RightKind(report.kind, info \in Quarantined)
    BY <1>1, <2>2, <2>3, Blamed
  <2> HIDE DEF RightKind
  <2> QED
    BY <2>1, <2>4, Zenon
<1>5. Attributed'
  BY <1>4, Zenon DEF Attributed, RightKind, InWindow
<1>6. NoReportYet'
  BY <1>1 DEF NoReportYet
<1> QED
  BY <1>5, <1>6

\* A free that libc aborts leaves what humalloc has.
LEMMA AbortKeepsOwners ==
  ASSUME FaultsCore, Aborted
  PROVE  UNCHANGED <<stage, fault, last_access, prot_none, hu_active_allocs,
                     hu_quarantine_allocs>>
<1>1. PICK ptr \in Freeable : free(ptr)
  BY DEF Aborted
<1>2. /\ Release(ptr) /\ UNCHANGED setupVars
      /\ UNCHANGED <<stage, fault, last_access>>
  BY <1>1 DEF free, hu_free, Lock, processVars, logVars, accessVars
<1>3. ~libc_aborted /\ libc_aborted' /\ HeapInv
  BY DEF Aborted, Stopped, FaultsCore, RecordsCore, CoreInv, MemoryInv, AllocatorInv, NeverAborts
<1>4. UNCHANGED <<protVars, trackVars, quarantineVars>>
  <2>1. CASE /\ hu_malloc_inited /\ ptr \in DOMAIN hu_active_allocs
             /\ hu_active_allocs' = MapErase(hu_active_allocs, ptr)
             /\ IF hu_config.useafterfree
                  THEN Quarantine(hu_active_allocs[ptr])
                  ELSE GiveBack(hu_active_allocs[ptr])
             /\ UNCHANGED hu_user_addrs
    <3>1. Released(ptr)
      BY <1>2, <1>3, <2>1, ActiveReleased
    <3> QED
      BY <1>3, <3>1 DEF Released
  <2>2. CASE UNCHANGED libcVars
    BY <1>3, <2>2 DEF libcVars
  <2> QED
    BY <1>2, <2>1, <2>2 DEF Release
<1> QED
  BY <1>2, <1>4 DEF protVars, trackVars, quarantineVars

\* A step after which humalloc and the ledger are as they should be.
LEMMA FaultsKept ==
  ASSUME FaultsInv, FaultsCore, RecordsCore', PlaceInv', TraceInv',
         NothingReported \/ (Attributed' /\ NoReportYet')
  PROVE  FaultsInv'
<1>1. Attributed' /\ NoReportYet'
  BY DEF NothingReported, FaultsInv, FaultsCore, Attributed, NoReportYet
<1>2. FaultsCore'
  BY <1>1 DEF FaultsCore
<1>3. FaultHasOwner'
  BY <1>2, CoreHasOwner, PTL
<1> QED
  BY <1>1, <1>2, <1>3 DEF FaultsInv

LEMMA NextFaults ==
  ASSUME FaultsInv, FaultHypotheses, [Next]_vars, [Noticed]_vars, [Resizes]_vars
  PROVE  FaultsInv'
<1>1. OneThread /\ AllocationsSucceed /\ FitsQuarantine /\ FaultHasOwner /\ Attributed
  BY DEF FaultHypotheses, FaultsInv
<1>2. CASE Stopped /\ FreedAreKept
  <2>1. /\ Stopped' /\ UNCHANGED <<mallocVars, hu_env, fault, ledgerVars, accessVars>>
        /\ stage' # "running" \/ stage' = stage
    BY <1>1, <1>2, StoppedStays
  <2>2. UNCHANGED <<hu_active_allocs, hu_quarantine_allocs, prot_none, freed_allocations,
                    last_access>>
    BY <2>1 DEF mallocVars, protVars, trackVars, quarantineVars, ledgerVars, accessVars
  <2>3. FreedAreKept'
    BY <1>2, <2>1, <2>2 DEF FreedAreKept, OnlyAccess, Kept
  <2>4. FaultHasOwner' /\ Attributed'
    BY <1>1, <2>1, <2>2 DEF FaultHasOwner, Owner, Active, Quarantined, Attributed
  <2> QED
    BY <2>1, <2>3, <2>4 DEF FaultsInv
<1>3. CASE FaultsCore /\ UNCHANGED vars
  <2>1. CoreInv'
    BY <1>3, StutterKeepsCore DEF FaultsCore, RecordsCore
  <2>2. RecordsCore'
    BY <1>1, <1>3, <2>1, OthersKeepRecords DEF FaultsCore
  <2>3. PlaceInv' /\ TraceInv'
    BY <1>3, OthersKeepPlace, OthersKeepTrace DEF vars
  <2>4. NothingReported
    BY <1>1, <1>3, StepsReportNothing
  <2> QED
    BY <1>3, <2>2, <2>3, <2>4, FaultsKept
<1>4. CASE FaultsCore /\ Next /\ Noticed /\ Resizes
  <2>1. RecordsCore /\ CoreInv
    BY <1>4 DEF FaultsCore, RecordsCore
  <2>2. CASE ACall
    <3>1. PICK old \in Results, ret \in Results, size \in Nat, freed \in BOOLEAN :
            /\ Calls(old, ret, size, freed) /\ Served(old, ret, size, freed)
            /\ HeapCall(old, ret, size) /\ (size \in Requests \/ ret = NULL)
      BY <2>2 DEF ACall
    <3>2. CoreInv'
      BY <2>1, <2>2, <3>1, CallKeepsCore DEF ACall
    <3>3. RecordsCore'
      BY <1>1, <1>4, <2>1, <3>1, <3>2, CallKeepsRecords
    <3>4. Grows(old, ret, size) \/ Shrinks(old, ret, size)
      BY <1>1, <1>4, <2>1, <3>1, CallEffect
    <3>5. PlaceInv'
      BY <1>4, <3>1, <3>4, CallKeepsPlace
    <3>6. TraceInv'
      BY <1>4, <3>1, <3>4, CallKeepsTrace
    <3>7. NothingReported
      BY <1>1, <2>2, StepsReportNothing
    <3> QED
      BY <1>4, <3>3, <3>5, <3>6, <3>7, FaultsKept
  <2>3. CASE Aborted
    <3>1. FreedAreKept' /\ Stopped'
      BY <2>1, <2>3, AbortKeepsFreed DEF Aborted
    <3>2. UNCHANGED <<stage, fault, last_access, prot_none, hu_active_allocs,
                      hu_quarantine_allocs>>
      BY <1>4, <2>3, AbortKeepsOwners
    <3>3. FaultHasOwner' /\ Attributed'
      BY <1>1, <3>2 DEF FaultHasOwner, Owner, Active, Quarantined, Attributed
    <3> QED
      BY <3>1, <3>3 DEF FaultsInv
  <2>4. CASE LogEvent \/ FinishRealloc \/ Evict \/ hu_init \/ LifeCycle
    <3>1. CoreInv'
      BY <1>1, <2>1, <2>4, LogEventKeepsCore, EvictionKeepsCore, InitCallKeepsCore,
         LifeCycleKeepsCore DEF LifeCycle
    <3>2. RecordsCore'
      BY <1>1, <2>1, <2>4, <3>1, LogEventKeepsRecords, FinishKeepsRecords, EvictKeepsRecords,
         InitCallKeepsRecords, OthersKeepRecords
    <3>3. UNCHANGED mallocVars \/ FinishRealloc \/ Evict \/ hu_init
      BY <2>4 DEF LogEvent, LifeCycle, ReportBegin, ReportSummary, ReportEnd, Fault, Exit,
                  FiniSilence, FiniSummary
    <3>4. PlaceInv'
      BY <1>4, <3>3, FinishKeepsPlace, EvictKeepsPlace, OthersKeepPlace
    <3>5. TraceInv'
      BY <1>4, <2>4, LogEventKeepsTrace, FinishKeepsTrace, EvictKeepsTrace, OthersKeepTrace
    <3>6. CASE \E addr \in Addresses : Fault(addr)
      <4>1. Attributed' /\ NoReportYet'
        BY <1>4, <3>6, FaultIsBlamed
      <4> QED
        BY <1>4, <3>2, <3>4, <3>5, <4>1, FaultsKept
    <3>7. CASE ~\E addr \in Addresses : Fault(addr)
      <4>1. NothingReported
        BY <1>1, <2>4, <3>7, StepsReportNothing DEF LifeCycle, OtherLife
      <4> QED
        BY <1>4, <3>2, <3>4, <3>5, <4>1, FaultsKept
    <3> QED
      BY <3>6, <3>7
  <2> QED
    BY <1>1, <1>4, <2>1, <2>2, <2>3, <2>4, StepIs
<1> QED
  BY <1>2, <1>3, <1>4 DEF FaultsInv, vars

LEMMA InitFaults == Init => FaultsInv
<1> SUFFICES ASSUME Init PROVE FaultsInv
  OBVIOUS
<1>1. /\ ~hu_malloc_inited /\ stage = "loading" /\ pending_free = NULL /\ todo = <<>>
      /\ DOMAIN live = {} /\ DOMAIN allocations = {} /\ DOMAIN freed_allocations = {}
      /\ DOMAIN hu_active_allocs = {} /\ hu_quarantine_allocs = <<>>
      /\ DOMAIN libc_blocks = {} /\ ~mprotect_failed /\ ~libc_aborted
      /\ last_access = {} /\ fault = {}
  BY DEF Init, InitHuMalloc, LibcInit, InitHuLog, NoEntries
<1>2. RecordsCore
  BY <1>1, InitRecords DEF RecordsInv, Stopped
<1>3. Len(hu_quarantine_allocs) = 0
  BY <1>1
<1>4. PlaceInv
  BY <1>1, <1>3 DEF PlaceInv, Spaced, AllPaged
<1>5. TraceInv
  BY <1>1, <1>3
     DEF TraceInv, UsedIfAsked, ActiveIsOwed, FreedIsKept, LiveAsLogged, LiveOrFreed,
         PendingIsRecorded, QueueIsKnown
<1>6. FaultsCore
  BY <1>1, <1>2, <1>4, <1>5 DEF FaultsCore, NoReportYet
<1> QED
  BY <1>1, <1>6, CoreHasOwner DEF FaultsInv, Attributed

\* A fault is one the program caused, and the report of it names the block whose
\* fence or whose freed memory was touched: the window that hu_sig_handler searches,
\* a page behind the requested bytes, never reaches the next block
\* (hulog.cpp:342-420, humalloc.cpp:181-205).
THEOREM FaultsAttributed ==
  ASSUME FaultHypotheses
  PROVE  Spec /\ LibcNotices /\ FencedResizes => []FaultIsAttributed
<1>1. Init => FaultsInv
  BY InitFaults
<1>2. FaultsInv /\ [Next]_vars /\ [Noticed]_vars /\ [Resizes]_vars => FaultsInv'
  BY NextFaults
<1>3. FaultsInv => FaultIsAttributed
  BY Zenon DEF FaultsInv, Attributed, RightKind, FaultIsAttributed
<1> QED
  BY <1>1, <1>2, <1>3, PTL DEF Spec, LibcNotices, FencedResizes

=============================================================================
