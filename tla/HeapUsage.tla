----------------------------- MODULE HeapUsage -----------------------------
(***************************************************************************)
(* humain.cpp around humalloc.cpp and hulog.cpp: the wrappers of malloc,   *)
(* free, calloc and realloc, hu_init, hu_report, the fault handler and     *)
(* hu_fini, for a program that makes legal calls, frees blocks twice and   *)
(* touches protected memory.                                               *)
(*                                                                         *)
(* A wrapper holds hu_mutex from its hu_* call to its last log_event, so   *)
(* one wrapper runs at a time and the variable todo holds what is left of  *)
(* it.  hu_report and log_enable take no lock and come in between.  Before *)
(* hu_malloc_init, and for good when neither overflow nor use-after-free   *)
(* is asked for, hu_enable_humalloc is false and the wrappers call         *)
(* __libc_malloc and its kin, which is what hu_malloc and its kin do too   *)
(* as long as hu_malloc_inited is false.                                   *)
(***************************************************************************)
EXTENDS HuMalloc, HuLog

CONSTANTS
  Tools,               \* the environment heapusage starts the program with
  MaxReports,          \* bound on the on-demand reports
  MaxCalls,            \* bound on the wrapper calls
  OtherThreads         \* when other threads keep running: during a "report",
                       \* during "exit"

VARIABLES
  hu_env,       \* the environment read by hu_init
  stage,        \* "loading", "running", "exiting" (exit() has been called),
                \* "silent" (hu_fini has switched logging off) or "ended"
  todo,         \* log_event calls the running wrapper still has to make
  reporting,    \* "no", or what hu_report does next: "summary", "enable"
  reports,      \* on-demand reports so far
  calls,        \* wrapper calls so far
  live,         \* auxiliary: pointer -> size of what the program has not freed
  unlogged,     \* auxiliary: the pointers in live from before hu_init
  dangling,     \* auxiliary: what the program has freed since hu_init and not
                \* got again: pointer -> whether it was freed again
  double_frees, \* auxiliary: frees of dangling pointers, all of them and only
                \* those that are the second free of their block
  fault         \* auxiliary: the address of the fault, and its block, if any

processVars == <<hu_env, stage>>
reportVars == <<reporting, reports>>
programVars == <<live, unlogged, dangling, double_frees, fault>>
vars == <<mallocVars, logVars, processVars, todo, reportVars, calls, programVars>>

Tool == [doublefree : BOOLEAN, leak : BOOLEAN, overflow : BOOLEAN,
         useafterfree : BOOLEAN, minsize : Nat, quarantine_pct : Nat, repeat : BOOLEAN]

ASSUME HeapUsageAssumption ==
  /\ Tools \subseteq Tool
  /\ MaxReports \in Nat
  /\ MaxCalls \in Nat
  /\ OtherThreads \subseteq {"report", "exit"}

\* The arguments hu_init passes to log_init and to hu_malloc_init.
LogConfigOf(env) ==
  [log_free |-> env.doublefree, useafterfree |-> env.useafterfree, leak |-> env.leak,
   minleak |-> env.minsize, log_repeat |-> env.repeat]

MallocConfigOf(env) ==
  [overflow |-> env.overflow, useafterfree |-> env.useafterfree,
   minsize |-> env.minsize, quarantine_pct |-> env.quarantine_pct]

hu_enable_humalloc(env) == env.overflow \/ env.useafterfree

Init ==
  /\ InitHuMalloc
  /\ InitHuLog
  /\ hu_env \in Tools
  /\ log_config = LogConfigOf(hu_env)
  /\ stage = "loading"
  /\ todo = <<>>
  /\ reporting = "no"
  /\ reports = 0
  /\ calls = 0
  /\ live = NoEntries
  /\ unlogged = {}
  /\ dangling = NoEntries
  /\ double_frees = [all |-> 0, second |-> 0]
  /\ fault = {}

-----------------------------------------------------------------------------
\* The constructor.
hu_init ==
  /\ stage = "loading" /\ todo = <<>> /\ Idle
  /\ stage' = "running"
  /\ IF hu_enable_humalloc(hu_env)
       THEN hu_malloc_init(MallocConfigOf(hu_env))
       ELSE UNCHANGED mallocVars
  /\ log_enable(TRUE)
  /\ UNCHANGED <<hu_env, todo, reportVars, calls, programVars>>

-----------------------------------------------------------------------------
(***************************************************************************)
(* The wrappers.  Each starts when hu_mutex is free: the last wrapper has  *)
(* made its log_event calls.                                               *)
(***************************************************************************)
MallocEvent(ptr, size) == [event |-> "malloc", ptr |-> ptr, size |-> size]
FreeEvent(ptr) == [event |-> "free", ptr |-> ptr, size |-> 0]

When(condition, event) == IF condition THEN <<event>> ELSE <<>>

\* A thread of the program makes a step: always, until exit() is called or
\* while a report is made, unless there are other threads.
ProgramRuns ==
  /\ stage \in {"loading", "running"} \/ (stage # "ended" /\ "exit" \in OtherThreads)
  /\ reporting = "no" \/ "report" \in OtherThreads

Lock ==
  /\ ProgramRuns
  /\ todo = <<>>
  /\ calls < MaxCalls
  /\ calls' = calls + 1
  /\ UNCHANGED <<processVars, reportVars, logVars, fault>>

\* What the program holds when a call returned ret for a request, by the rules
\* of the C library: a NULL is nothing to free.
Gets(ret, size) ==
  /\ live' = IF ret = NULL THEN live ELSE MapPut(live, ret, size)
  /\ unlogged' = IF stage = "loading" /\ ret # NULL THEN unlogged \cup {ret} ELSE unlogged
  /\ dangling' = MapErase(dangling, ret)
  /\ UNCHANGED double_frees

malloc(size) ==
  \E ret \in Results :
    /\ Lock
    /\ hu_malloc(size, ret)
    /\ todo' = When(size > 0, MallocEvent(ret, size))
    /\ Gets(ret, size)

Mutant_calloc_not_logged(nmemb, size) ==
  \E ret \in Results :
    /\ Lock
    /\ hu_calloc(nmemb, size, ret)
    /\ todo' = <<>>
    /\ Gets(ret, nmemb * size)

calloc(nmemb, size) ==
  \E ret \in Results :
    /\ Lock
    /\ hu_calloc(nmemb, size, ret)
    /\ todo' = When(nmemb > 0 /\ size > 0, MallocEvent(ret, (nmemb * size) % SizeMod))
    /\ Gets(ret, nmemb * size)

\* free of a block, of NULL, or of a block that has been freed before.
free(ptr) ==
  LET again == ptr \in DOMAIN dangling
      second == again /\ ~dangling[ptr]
      count(condition) == IF condition THEN 1 ELSE 0
  IN  /\ Lock
      /\ hu_free(ptr)
      /\ todo' = <<FreeEvent(ptr)>>
      /\ live' = MapErase(live, ptr)
      /\ unlogged' = unlogged \ {ptr}
      /\ dangling' = IF again \/ ptr \in DOMAIN live \ unlogged
                       THEN MapPut(dangling, ptr, again) ELSE dangling
      /\ double_frees' = [all |-> double_frees.all + count(again),
                          second |-> double_frees.second + count(second)]

Mutant_realloc(ptr, size, events(_)) ==
  \E ret \in Results :
    /\ Lock
    /\ hu_realloc(ptr, size, ret)
    /\ todo' = events(ret)
    /\ UNCHANGED double_frees
    /\ LET others == MapErase(live, ptr)
           rest == MapErase(dangling, ret)
       IN  /\ live' = Hold(others, ret, size)
           /\ unlogged' = (unlogged \ {ptr})
                \cup (IF stage = "loading" /\ ret # NULL THEN {ret} ELSE {})
           /\ dangling' = IF ptr \in DOMAIN live \ unlogged /\ ptr # ret
                            THEN MapPut(rest, ptr, FALSE) ELSE rest

Mutant_realloc_logs_malloc_first(ptr, size) ==
  Mutant_realloc(ptr, size,
    LAMBDA ret : When(size # 0, MallocEvent(ret, size)) \o When(ptr # NULL, FreeEvent(ptr)))

Mutant_realloc_logs_no_free(ptr, size) ==
  Mutant_realloc(ptr, size, LAMBDA ret : When(size # 0, MallocEvent(ret, size)))

\* realloc: when no block can be had the program keeps the one it has.
realloc(ptr, size) ==
  \E ret \in Results :
    /\ Lock
    /\ hu_realloc(ptr, size, ret)
    /\ todo' = When(ptr # NULL, FreeEvent(ptr)) \o When(size # 0, MallocEvent(ret, size))
    /\ UNCHANGED double_frees
    /\ IF ret = NULL /\ size # 0
         THEN UNCHANGED <<live, unlogged, dangling>>
         ELSE LET others == MapErase(live, ptr)
                  rest == MapErase(dangling, ret)
              IN  /\ live' = Hold(others, ret, size)
                  /\ unlogged' = (unlogged \ {ptr})
                       \cup (IF stage = "loading" /\ ret # NULL THEN {ret} ELSE {})
                  /\ dangling' = IF ptr \in DOMAIN live \ unlogged /\ ptr # ret
                                   THEN MapPut(rest, ptr, FALSE) ELSE rest

\* The second half of hu_realloc, and the rounds of hu_free's eviction loop,
\* each of which also drops the block from the freed ones.
FinishRealloc ==
  /\ ReallocFree
  /\ UNCHANGED <<logVars, processVars, todo, reportVars, calls, programVars>>

Mutant_Evict_record_stays ==
  /\ EvictOldest
  /\ UNCHANGED <<logVars, processVars, todo, reportVars, calls, programVars>>

Evict ==
  /\ EvictOldest
  /\ hu_log_remove_freed_allocation(Head(hu_quarantine_allocs).user_ptr)
  /\ UNCHANGED <<processVars, todo, reportVars, calls, programVars>>

\* The next log_event of the running wrapper.
LogEvent ==
  /\ ProgramRuns
  /\ todo # <<>> /\ Idle
  /\ \E stack \in Stacks :
       \/ /\ Head(todo).event = "malloc"
          /\ log_event_malloc(Head(todo).ptr, Head(todo).size, stack)
       \/ /\ Head(todo).event = "free"
          /\ \E opened \in BOOLEAN : log_event_free(Head(todo).ptr, stack, opened)
  /\ todo' = Tail(todo)
  /\ UNCHANGED <<mallocVars, processVars, reportVars, calls, programVars>>

-----------------------------------------------------------------------------
(***************************************************************************)
(* hu_report, from the program or a signal handler, at any moment: logging *)
(* goes off, the summary is printed, logging goes on.  No lock is taken.   *)
(***************************************************************************)
ReportBegin ==
  /\ stage = "running" /\ reporting = "no" /\ reports < MaxReports
  /\ reports' = reports + 1
  /\ reporting' = "summary"
  /\ log_enable(FALSE)
  /\ UNCHANGED <<mallocVars, processVars, todo, calls, programVars>>

ReportSummary ==
  /\ stage # "ended" /\ reporting = "summary"
  /\ reporting' = "enable"
  /\ \E opened \in BOOLEAN : log_summary(TRUE, hu_quarantine_evicted, opened)
  /\ UNCHANGED <<mallocVars, processVars, todo, reports, calls, programVars>>

Mutant_ReportEnd_stays_off ==
  /\ stage # "ended" /\ reporting = "enable"
  /\ reporting' = "no"
  /\ UNCHANGED <<mallocVars, logVars, processVars, todo, reports, calls, programVars>>

ReportEnd ==
  /\ stage # "ended" /\ reporting = "enable"
  /\ reporting' = "no"
  /\ log_enable(TRUE)
  /\ UNCHANGED <<mallocVars, processVars, todo, reports, calls, programVars>>

-----------------------------------------------------------------------------
(***************************************************************************)
(* A legal access never faults; a write past the end or a use after free   *)
(* that meets a protected page ends in hu_sig_handler and exit().          *)
(***************************************************************************)
Owner(addr) == {info \in Active \cup Quarantined : addr \in Block(info)}

Fault(addr) ==
  /\ stage = "running" /\ todo = <<>> /\ Idle /\ reporting = "no"
  /\ addr \in prot_none
  /\ \E stack \in Stacks, opened \in BOOLEAN : hu_sig_handler(addr, stack, opened)
  /\ fault' = {[addr |-> addr, ptr |-> info.user_ptr, size |-> info.user_size,
                freed |-> info \in Quarantined] : info \in Owner(addr)}
  /\ stage' = "exiting"
  /\ UNCHANGED <<mallocVars, hu_env, todo, reportVars, calls, live, unlogged, dangling,
                 double_frees>>

\* main returns, or exit() is called.
Exit ==
  /\ stage = "running" /\ ProgramRuns
  /\ OtherThreads # {} \/ (todo = <<>> /\ Idle)
  /\ stage' = "exiting"
  /\ UNCHANGED <<mallocVars, logVars, hu_env, todo, reportVars, calls, programVars>>

\* hu_fini: logging off without the lock, the summary under it.  What
\* __libc_freeres() frees before, with logging on, are calls of free like the
\* program's own, made before the summary: the model has them as such.
FiniSilence ==
  /\ stage = "exiting"
  /\ stage' = "silent"
  /\ log_enable(FALSE)
  /\ UNCHANGED <<mallocVars, hu_env, todo, reportVars, calls, programVars>>

FiniSummary ==
  /\ stage = "silent" /\ todo = <<>> /\ Idle
  /\ stage' = "ended"
  /\ \E opened \in BOOLEAN : log_summary(FALSE, hu_quarantine_evicted, opened)
  /\ UNCHANGED <<mallocVars, hu_env, todo, reportVars, calls, programVars>>

-----------------------------------------------------------------------------
\* Pointers the program may free or pass to realloc.
Freeable == DOMAIN live \cup DOMAIN dangling \cup {NULL}
Reallocable == DOMAIN live \cup {NULL}

MayHold == Cardinality(DOMAIN live) < MaxHeld

Next ==
  \/ hu_init
  \/ MayHold /\ \E size \in Sizes : malloc(size)
  \/ MayHold /\ \E nmemb \in Counts, size \in Sizes : calloc(nmemb, size)
  \/ \E ptr \in Freeable : free(ptr)
  \/ \E ptr \in Reallocable, size \in Sizes : realloc(ptr, size)
  \/ FinishRealloc
  \/ Evict
  \/ LogEvent
  \/ ReportBegin
  \/ ReportSummary
  \/ ReportEnd
  \/ \E addr \in Addresses : Fault(addr)
  \/ Exit
  \/ FiniSilence
  \/ FiniSummary

Spec == Init /\ [][Next]_vars

-----------------------------------------------------------------------------
(***************************************************************************)
(* Properties                                                              *)
(***************************************************************************)

\* Type invariant.
TypeOK ==
  /\ TypeOKHuMalloc
  /\ TypeOKHuLog
  /\ hu_env \in Tools
  /\ stage \in {"loading", "running", "exiting", "silent", "ended"}
  /\ \A i \in 1 .. Len(todo) :
       todo[i] \in [event : {"malloc", "free"}, ptr : Results, size : Nat]
  /\ reporting \in {"no", "summary", "enable"}
  /\ reports \in 0 .. MaxReports
  /\ calls \in 0 .. MaxCalls
  /\ AddressMap(live, Nat)
  /\ unlogged \subseteq DOMAIN live
  /\ AddressMap(dangling, BOOLEAN)
  /\ double_frees \in [all : Nat, second : Nat]

\* No wrapper is running, or libc has stopped the process in one.
Quiet == (todo = <<>> /\ Idle) \/ libc_aborted

\* What the ledger should hold: the program's blocks, but for those it got
\* before hu_init, those below minsize and those of no bytes.
Ledger ==
  [ptr \in {p \in DOMAIN live \ unlogged : live[p] > 0 /\ live[p] >= hu_env.minsize}
     |-> live[ptr]]

\* Between wrapper calls the ledger is exactly what the program holds: the
\* allocator's event order (free before log FREE, malloc before log MALLOC)
\* never lets a reused address cancel or double an entry.
LedgerIsExact ==
  todo = <<>> /\ Idle /\ stage = "running" /\ reporting = "no" =>
    Ledger = [ptr \in DOMAIN allocations |-> allocations[ptr].size]

\* README.md:128 "detect memory allocations never free'd": a block the exit
\* summary lists as lost is one the program still holds.
NoFalseLeak ==
  stage = "ended" => \A printed \in summary : printed.blocks \subseteq DOMAIN Ledger

\* ... and every block the program still holds is listed.
NoMissedLeak ==
  stage = "ended" => \A printed \in summary : DOMAIN Ledger \subseteq printed.blocks

\* README.md:126 "detect free'ing of buffers already free'd": what is reported
\* as an invalid deallocation is a free of a block already freed.
NoFalseDoubleFree == total_invalid_dealloc_count <= double_frees.all

\* With double-free detection the second free of a block is always counted,
\* however many blocks have been evicted or handed out in between.
SecondFreeIsReported ==
  hu_env.doublefree /\ todo = <<>> /\ Idle =>
    total_invalid_dealloc_count >= double_frees.second

\* README.md:126 "detect free'ing of buffers already free'd", of each of them.
EveryDoubleFreeIsReported ==
  hu_env.doublefree /\ Quiet => total_invalid_dealloc_count = double_frees.all

\* A fault is one the program caused: the faulting page belongs to a fence or
\* to a freed block, never to memory the program may use.
FaultHasOwner == stage = "running" => \A addr \in prot_none : Owner(addr) # {}

\* The fault lies in the window hulog.cpp searches: not before the user pointer
\* and not more than a page behind the requested bytes.
InWindow(f) == f.addr \in f.ptr .. (f.ptr + f.size + PageSize)

\* hulog.cpp:372, :389: there is a block to blame for every fault, and the report
\* names it, "the block containing the faulting address", as freed if it is in
\* quarantine and as live if it is a fence.
FaultIsAttributed ==
  /\ FaultHasOwner
  /\ \A f \in fault, report \in last_access :
       InWindow(f) =>
         /\ report.ptr = f.ptr
         /\ report.kind \in IF f.freed THEN {"inside free'd", "after free'd"}
                            ELSE {"after alloc'd"}

\* hulog.cpp:372: the block is found wherever in its fence the fault lies.
FenceFaultIsAttributed ==
  \A f \in fault, report \in last_access :
    ~f.freed => report.kind = "after alloc'd" /\ report.ptr = f.ptr

\* humalloc.cpp:181-185: once a block has left the quarantine access to it
\* "cannot be detected anymore": its freed record is gone with it.
FreedRecordsAreQuarantined ==
  hu_env.useafterfree /\ ~hu_env.doublefree /\ Quiet =>
    DOMAIN freed_allocations \subseteq {info.user_ptr : info \in Quarantined}

=============================================================================
