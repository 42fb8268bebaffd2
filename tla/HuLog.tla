------------------------------- MODULE HuLog -------------------------------
(***************************************************************************)
(* The ledger of hulog.cpp: the blocks that have been allocated and not    *)
(* freed, the blocks that have been freed, the totals, the error reports   *)
(* and the summary.  A call stack is an opaque value; what is printed is   *)
(* kept as the records last_access and summary and the number of reports.  *)
(***************************************************************************)
EXTENDS Integers, FiniteSets, FiniteSetsExt, PtrMap

CONSTANTS
  Stacks,             \* call stacks
  ObjcStacks,         \* those whose outermost object file is libobjc.A.dylib
  AccessWindow,       \* hu_page_size, how far behind a block a fault is sought
  CountMod,           \* number of values of an unsigned long long
  LogFileCanFail,     \* whether fopen of the log file may fail
  LogConfigs,         \* what log_init may be given
  Ptrs,               \* pointers in events (NULL among them)
  LogSizes,           \* sizes in events
  MaxAllocs,          \* bound on the allocations that are counted
  MaxFrees,           \* bound on the frees that are counted
  MaxFaults           \* bound on the faults: each one ends in exit()

ASSUME HuLogAssumption ==
  /\ ObjcStacks \subseteq Stacks
  /\ AccessWindow \in Nat
  /\ CountMod \in Nat \ {0}
  /\ LogFileCanFail \in BOOLEAN
  /\ LogConfigs \subseteq [log_free : BOOLEAN, useafterfree : BOOLEAN, leak : BOOLEAN,
                           minleak : Nat, log_repeat : BOOLEAN]
  /\ Ptrs \subseteq Nat
  /\ LogSizes \subseteq Nat
  /\ MaxAllocs \in Nat
  /\ MaxFrees \in Nat
  /\ MaxFaults \in Nat

VARIABLES
  log_config,         \* what log_init was given
  logging_enabled,
  allocations,        \* pointer -> hu_allocinfo_t, not freed
  freed_allocations,  \* pointer -> hu_allocinfo_t, freed
  allocinfo,          \* the totals allocinfo_*
  reported_invalid_dealloc_callstacks,
  reported_invalid_access_callstacks,
  total_invalid_dealloc_count,
  total_invalid_access_count,
  printed_deallocs,   \* "Invalid deallocation" reports in the log file
  last_access,        \* the last "Invalid memory access" report in it, if any
  summary             \* the last summary in it, if any

ledgerVars == <<allocations, freed_allocations, allocinfo>>
deallocVars == <<reported_invalid_dealloc_callstacks, total_invalid_dealloc_count,
                 printed_deallocs>>
accessVars == <<reported_invalid_access_callstacks, total_invalid_access_count,
                last_access>>
logVars == <<log_config, logging_enabled, ledgerVars, deallocVars, accessVars, summary>>

LogConfigType == [log_free : BOOLEAN, useafterfree : BOOLEAN, leak : BOOLEAN,
                  minleak : Nat, log_repeat : BOOLEAN]

NoStack == "none"          \* free_callstack of a block that is not freed

Mutant_hu_allocinfo_t_no_callstack(size, stack) ==
  [size |-> size, callstack |-> NoStack, free_callstack |-> NoStack]

hu_allocinfo_t(size, stack) ==
  [size |-> size, callstack |-> stack, free_callstack |-> NoStack]

\* The file-level initialisers of hulog.cpp, and log_init: what it is given
\* comes from the environment the process starts with, and until it has run
\* logging is off and nothing below is looked at.
InitHuLog ==
  /\ log_config \in LogConfigs
  /\ logging_enabled = FALSE
  /\ allocations = NoEntries
  /\ freed_allocations = NoEntries
  /\ allocinfo = [frees |-> 0, allocs |-> 0, bytes |-> 0, current |-> 0, peak |-> 0]
  /\ reported_invalid_dealloc_callstacks = {}
  /\ reported_invalid_access_callstacks = {}
  /\ total_invalid_dealloc_count = 0
  /\ total_invalid_access_count = 0
  /\ printed_deallocs = 0
  /\ last_access = {}
  /\ summary = {}

-----------------------------------------------------------------------------
log_enable(flag) ==
  /\ logging_enabled' = flag
  /\ UNCHANGED <<log_config, ledgerVars, deallocVars, accessVars, summary>>

\* A deallocation or an access from libobjc is not an error.
log_is_valid_callstack(stack, is_alloc) == is_alloc \/ stack \notin ObjcStacks

\* Freed blocks are remembered for double-free and for use-after-free reports.
KeepsFreed == log_config.useafterfree \/ log_config.log_free

\* fopen of the log file, "a".
Opens(opened) == opened \/ LogFileCanFail

-----------------------------------------------------------------------------
(***************************************************************************)
(* log_event                                                               *)
(***************************************************************************)
LogRecorded(ptr, size, stack) ==
  LET current == (allocinfo.current + size) % CountMod
  IN  /\ allocations' = MapPut(allocations, ptr, hu_allocinfo_t(size, stack))
      /\ allocinfo' = [frees |-> allocinfo.frees,
                       allocs |-> allocinfo.allocs + 1,
                       bytes |-> (allocinfo.bytes + size) % CountMod,
                       current |-> current,
                       peak |-> IF current > allocinfo.peak THEN current
                                ELSE allocinfo.peak]

Mutant_log_event_malloc_keeps_freed(ptr, size, stack) ==
  /\ IF logging_enabled /\ size >= log_config.minleak
       THEN LogRecorded(ptr, size, stack)
       ELSE UNCHANGED <<allocations, allocinfo>>
  /\ UNCHANGED <<log_config, logging_enabled, freed_allocations, deallocVars, accessVars,
                 summary>>

log_event_malloc(ptr, size, stack) ==
  /\ IF logging_enabled
       THEN /\ freed_allocations' = IF KeepsFreed THEN MapErase(freed_allocations, ptr)
                                    ELSE freed_allocations
            /\ IF size >= log_config.minleak
                 THEN LogRecorded(ptr, size, stack)
                 ELSE UNCHANGED <<allocations, allocinfo>>
       ELSE UNCHANGED ledgerVars
  /\ UNCHANGED <<log_config, logging_enabled, deallocVars, accessVars, summary>>

\* The block is live: it moves to the freed ones, if those are kept.
LogFreed(ptr, stack) ==
  LET info == [allocations[ptr] EXCEPT !.free_callstack = stack]
  IN  /\ allocinfo' = [allocinfo EXCEPT
                         !.current = (@ - allocations[ptr].size) % CountMod,
                         !.frees = @ + 1]
      /\ freed_allocations' = IF KeepsFreed THEN MapInsert(freed_allocations, ptr, info)
                              ELSE freed_allocations
      /\ allocations' = MapErase(allocations, ptr)
      /\ UNCHANGED deallocVars

Mutant_LogDoubleFree_subtracts(ptr, stack, opened) ==
  LET is_new == stack \notin reported_invalid_dealloc_callstacks
  IN  /\ total_invalid_dealloc_count' = total_invalid_dealloc_count + 1
      /\ reported_invalid_dealloc_callstacks' =
           reported_invalid_dealloc_callstacks \cup {stack}
      /\ printed_deallocs' =
           IF (is_new \/ log_config.log_repeat) /\ opened
             THEN printed_deallocs + 1 ELSE printed_deallocs
      /\ allocinfo' = [allocinfo EXCEPT
                         !.current = (@ - freed_allocations[ptr].size) % CountMod,
                         !.frees = @ + 1]
      /\ freed_allocations' = MapErase(freed_allocations, ptr)
      /\ UNCHANGED allocations

Mutant_LogDoubleFree_not_remembered(ptr, stack, opened) ==
  /\ total_invalid_dealloc_count' = total_invalid_dealloc_count + 1
  /\ printed_deallocs' = IF opened THEN printed_deallocs + 1 ELSE printed_deallocs
  /\ freed_allocations' = MapErase(freed_allocations, ptr)
  /\ allocinfo' = [allocinfo EXCEPT !.frees = @ + 1]
  /\ UNCHANGED <<allocations, reported_invalid_dealloc_callstacks>>

\* The block is a freed one: an invalid deallocation, then it is forgotten.
LogDoubleFree(ptr, stack, opened) ==
  LET is_new == stack \notin reported_invalid_dealloc_callstacks
  IN  /\ IF log_is_valid_callstack(stack, FALSE)
           THEN /\ total_invalid_dealloc_count' = total_invalid_dealloc_count + 1
                /\ reported_invalid_dealloc_callstacks' =
                     reported_invalid_dealloc_callstacks \cup {stack}
                /\ printed_deallocs' =
                     IF (is_new \/ log_config.log_repeat) /\ opened
                       THEN printed_deallocs + 1 ELSE printed_deallocs
           ELSE UNCHANGED deallocVars
      /\ freed_allocations' = MapErase(freed_allocations, ptr)
      /\ allocinfo' = [allocinfo EXCEPT !.frees = @ + 1]
      /\ UNCHANGED allocations

\* Neither: only the count of frees moves.
LogUnknownFree ==
  /\ allocinfo' = [allocinfo EXCEPT !.frees = @ + 1]
  /\ UNCHANGED <<allocations, freed_allocations, deallocVars>>

log_event_free(ptr, stack, opened) ==
  /\ Opens(opened)
  /\ \/ ~logging_enabled /\ UNCHANGED <<ledgerVars, deallocVars>>
     \/ logging_enabled /\ ptr \in DOMAIN allocations /\ LogFreed(ptr, stack)
     \/ /\ logging_enabled /\ ptr \notin DOMAIN allocations
        /\ log_config.log_free /\ ptr \in DOMAIN freed_allocations
        /\ LogDoubleFree(ptr, stack, opened)
     \/ /\ logging_enabled /\ ptr \notin DOMAIN allocations
        /\ ~(log_config.log_free /\ ptr \in DOMAIN freed_allocations)
        /\ LogUnknownFree
  /\ UNCHANGED <<log_config, logging_enabled, accessVars, summary>>

Mutant_remove_freed_always(ptr) ==
  /\ freed_allocations' = MapErase(freed_allocations, ptr)
  /\ UNCHANGED <<log_config, logging_enabled, allocations, allocinfo, deallocVars,
                 accessVars, summary>>

\* Called for a block that leaves the quarantine.
hu_log_remove_freed_allocation(ptr) ==
  /\ freed_allocations' = IF ~log_config.log_free THEN MapErase(freed_allocations, ptr)
                          ELSE freed_allocations
  /\ UNCHANGED <<log_config, logging_enabled, allocations, allocinfo, deallocVars,
                 accessVars, summary>>

-----------------------------------------------------------------------------
(***************************************************************************)
(* hu_sig_handler: the report of a fault at addr.  Both searches stop at   *)
(* the first match in the container's iteration order, so any match may be *)
(* the one reported.                                                       *)
(***************************************************************************)
Mutant_Behind_window(map, addr) ==
  {ptr \in DOMAIN map : addr \in (ptr + map[ptr].size) .. (ptr + map[ptr].size + AccessWindow - 1)}

Behind(map, addr) ==
  {ptr \in DOMAIN map : addr \in (ptr + map[ptr].size) .. (ptr + map[ptr].size + AccessWindow)}

Inside(map, addr) ==
  {ptr \in DOMAIN map : addr \in ptr .. (ptr + map[ptr].size - 1)}

AccessReports(addr) ==
  LET active == Behind(allocations, addr)
      freed == Behind(freed_allocations, addr) \cup Inside(freed_allocations, addr)
      report(kind, ptr) == [kind |-> kind, addr |-> addr, ptr |-> ptr]
  IN  IF active # {} THEN {report("after alloc'd", ptr) : ptr \in active}
      ELSE IF freed # {}
        THEN {report("after free'd", ptr) : ptr \in Behind(freed_allocations, addr)}
             \cup {report("inside free'd", ptr) : ptr \in Inside(freed_allocations, addr)}
        ELSE {report("unknown", 0)}

hu_sig_handler(addr, stack, opened) ==
  /\ Opens(opened)
  /\ IF log_is_valid_callstack(stack, FALSE)
       THEN /\ total_invalid_access_count' = total_invalid_access_count + 1
            /\ reported_invalid_access_callstacks' =
                 reported_invalid_access_callstacks \cup {stack}
            /\ IF /\ opened
                  /\ \/ stack \notin reported_invalid_access_callstacks
                     \/ log_config.log_repeat
                 THEN \E report \in AccessReports(addr) : last_access' = {report}
                 ELSE UNCHANGED last_access
       ELSE UNCHANGED accessVars
  /\ UNCHANGED <<log_config, logging_enabled, ledgerVars, deallocVars, summary>>

-----------------------------------------------------------------------------
(***************************************************************************)
(* log_summary: the leaks grouped by call stack, largest first, down to    *)
(* the first group below minleak: the groups that are not below it.        *)
(***************************************************************************)
LeakBytes(ptrs) == MapThenSumSet(LAMBDA ptr : allocations[ptr].size, ptrs)

GroupOf(stack) == {ptr \in DOMAIN allocations : allocations[ptr].callstack = stack}

Mutant_LeakDetails_cut_early ==
  LET groups == {allocations[ptr].callstack : ptr \in DOMAIN allocations}
      listed == {stack \in groups : LeakBytes(GroupOf(stack)) > log_config.minleak}
  IN  [stack \in listed |-> [bytes |-> LeakBytes(GroupOf(stack)),
                             blocks |-> Cardinality(GroupOf(stack))]]

LeakDetails ==
  LET groups == {allocations[ptr].callstack : ptr \in DOMAIN allocations}
      listed == {stack \in groups : LeakBytes(GroupOf(stack)) >= log_config.minleak}
  IN  [stack \in listed |-> [bytes |-> LeakBytes(GroupOf(stack)),
                             blocks |-> Cardinality(GroupOf(stack))]]

log_summary(ondemand, evicted, opened) ==
  /\ Opens(opened)
  /\ summary' =
       IF opened
         THEN {[ondemand |-> ondemand,
                blocks |-> DOMAIN allocations,
                bytes |-> LeakBytes(DOMAIN allocations),
                details |-> IF log_config.leak THEN LeakDetails ELSE NoEntries,
                incomplete |-> log_config.useafterfree /\ evicted]}
         ELSE summary
  /\ UNCHANGED <<log_config, logging_enabled, ledgerVars, deallocVars, accessVars>>

-----------------------------------------------------------------------------
(***************************************************************************)
(* Any calls in any order: the wrappers under their mutex, the signal      *)
(* handlers and hu_report without it.                                      *)
(***************************************************************************)
NextHuLog ==
  \/ \E flag \in BOOLEAN : log_enable(flag)
  \/ \E ptr \in Ptrs, size \in LogSizes, stack \in Stacks :
       allocinfo.allocs < MaxAllocs /\ log_event_malloc(ptr, size, stack)
  \/ \E ptr \in Ptrs, stack \in Stacks, opened \in BOOLEAN :
       allocinfo.frees < MaxFrees /\ log_event_free(ptr, stack, opened)
  \/ \E ptr \in Ptrs : hu_log_remove_freed_allocation(ptr)
  \/ \E addr \in Ptrs, stack \in Stacks, opened \in BOOLEAN :
       total_invalid_access_count < MaxFaults /\ hu_sig_handler(addr, stack, opened)
  \/ \E ondemand, evicted, opened \in BOOLEAN : log_summary(ondemand, evicted, opened)

SpecHuLog == InitHuLog /\ [][NextHuLog]_logVars

-----------------------------------------------------------------------------
(***************************************************************************)
(* Properties                                                              *)
(***************************************************************************)
AllocInfo == [size : Nat, callstack : Stacks, free_callstack : Stacks \cup {NoStack}]

LedgerType(map) == DOMAIN map \subseteq Nat /\ \A ptr \in DOMAIN map : map[ptr] \in AllocInfo

\* Type invariant.
TypeOKHuLog ==
  /\ log_config \in LogConfigType
  /\ logging_enabled \in BOOLEAN
  /\ LedgerType(allocations)
  /\ LedgerType(freed_allocations)
  /\ allocinfo \in [frees : Nat, allocs : Nat, bytes : Nat, current : Nat, peak : Nat]
  /\ reported_invalid_dealloc_callstacks \subseteq Stacks
  /\ reported_invalid_access_callstacks \subseteq Stacks
  /\ total_invalid_dealloc_count \in Nat
  /\ total_invalid_access_count \in Nat
  /\ printed_deallocs \in Nat

\* No pointer is both live and freed, in whatever order events, evictions and
\* switches of logging come: a free is either a release or a double free.
LiveOrFreed == DOMAIN allocations \cap DOMAIN freed_allocations = {}

\* A freed record knows where its block was freed, a live one was not freed:
\* the report of a double free prints both stacks (hulog.cpp:319-328).
FreedKnowsWhere ==
  /\ \A ptr \in DOMAIN freed_allocations : freed_allocations[ptr].free_callstack \in Stacks
  /\ \A ptr \in DOMAIN allocations : allocations[ptr].free_callstack = NoStack

\* The current byte count covers the live blocks whatever events are missing,
\* so that the subtraction in log_event never wraps, and the peak covers both.
BytesCoverLive ==
  /\ allocinfo.current >= LeakBytes(DOMAIN allocations)
  /\ allocinfo.peak >= allocinfo.current
  /\ allocinfo.bytes >= allocinfo.peak

\* "%llu unique (%llu total)" (hulog.cpp:496): no call site is unique without
\* an error, and one report is printed per call site, or per error with -r.
ReportsMatchErrors ==
  LET unique == Cardinality(reported_invalid_dealloc_callstacks)
  IN  /\ unique <= total_invalid_dealloc_count
      /\ printed_deallocs <= total_invalid_dealloc_count
      /\ ~LogFileCanFail => printed_deallocs = IF log_config.log_repeat
                                                THEN total_invalid_dealloc_count ELSE unique

\* The groups of a summary have its bytes and its blocks.
AddsUp(printed) ==
  LET stacks == DOMAIN printed.details
  IN  /\ printed.bytes = MapThenSumSet(LAMBDA s : printed.details[s].bytes, stacks)
      /\ Cardinality(printed.blocks) =
           MapThenSumSet(LAMBDA s : printed.details[s].blocks, stacks)

\* The leak details account for every block of the leak summary: cutting the
\* sorted list at the first group below minleak loses none.
DetailsAddUp == log_config.leak => \A printed \in summary : AddsUp(printed)

\* A pointer becomes a double free only through one free that released it:
\* a report is made only for a pointer that is not live, and forgets it, so
\* that the same freed block is never reported by two calls.
ReportForgetsBlock ==
  [][total_invalid_dealloc_count' > total_invalid_dealloc_count =>
       /\ DOMAIN freed_allocations' \subseteq DOMAIN freed_allocations
       /\ freed_allocations' # freed_allocations]_logVars

=============================================================================
