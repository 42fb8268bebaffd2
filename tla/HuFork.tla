------------------------------- MODULE HuFork -------------------------------
(***************************************************************************)
(* The allocator of HuMalloc in a process that forks.  The behaviour goes  *)
(* on as the parent, which HuMalloc describes, or as the child.  There the *)
(* bypass stays on (hu_atfork_child), so that the wrappers call libc and   *)
(* the tables of humalloc stay as they were at the fork, until hu_fini     *)
(* turns the bypass off for the destructors that come after it.            *)
(***************************************************************************)
EXTENDS HuMalloc

CONSTANT MaxChildCalls     \* bound on the child's calls

VARIABLES
  process,         \* "parent" or "child"
  hu_bypass,       \* of the thread that forked
  robbed,          \* auxiliary: at the fork, a caller still held a block that
                   \* a failed hu_realloc had taken from it
  child_calls

forkVars == <<process, hu_bypass, robbed, child_calls>>
tableVars == <<protVars, setupVars, trackVars, quarantineVars, pending_free>>

InitHuFork ==
  /\ InitHuMalloc
  /\ process = "parent" /\ hu_bypass = FALSE /\ robbed = FALSE /\ child_calls = 0

-----------------------------------------------------------------------------
\* fork, also while another thread is inside hu_free or hu_realloc.
fork ==
  /\ process = "parent"
  /\ process' = "child" /\ hu_bypass' = TRUE
  /\ robbed' = (DOMAIN taken # {})
  /\ UNCHANGED <<mallocVars, child_calls>>

InChild(bypass) ==
  /\ process = "child" /\ hu_bypass = bypass /\ ~libc_aborted
  /\ child_calls < MaxChildCalls
  /\ child_calls' = child_calls + 1
  /\ UNCHANGED <<process, robbed>>

\* malloc, calloc, free and realloc with the bypass on.
malloc(size, ret) ==
  /\ InChild(TRUE)
  /\ MayAllocate
  /\ LibcMalloc(size, ret)
  /\ kept' = Hold(kept, ret, size)
  /\ UNCHANGED <<tableVars, taken, hu_bypass>>

free(ptr) ==
  /\ InChild(TRUE)
  /\ LibcFree(ptr)
  /\ kept' = MapErase(kept, ptr)
  /\ taken' = TakenBut(ptr)
  /\ UNCHANGED <<tableVars, hu_bypass>>

realloc(ptr, size, ret) ==
  /\ InChild(TRUE)
  /\ LibcRealloc(ptr, size, ret)
  /\ kept' = IF ret = NULL /\ size # 0 THEN kept
              ELSE Hold(MapErase(kept, ptr), ret, size)
  /\ taken' = IF ret = NULL /\ size # 0 THEN taken ELSE TakenBut(ptr)
  /\ UNCHANGED <<tableVars, hu_bypass>>

\* exit() in the child, with the mutex free: hu_fini.  What __libc_freeres()
\* frees before goes to libc, like the child's own calls of free.
hu_fini ==
  /\ InChild(TRUE)
  /\ Idle
  /\ hu_bypass' = FALSE
  /\ UNCHANGED mallocVars

\* A destructor that runs after hu_fini frees what it holds.
DestructorFree(ptr) ==
  /\ InChild(FALSE)
  /\ hu_free(ptr)
  /\ UNCHANGED hu_bypass

NextHuFork ==
  \/ process = "parent" /\ NextHuMalloc /\ UNCHANGED forkVars
  \/ fork
  \/ \E size \in Sizes, ret \in Results : malloc(size, ret)
  \/ \E ptr \in DOMAIN held \cup {NULL} : free(ptr)
  \/ \E ptr \in DOMAIN held \cup {NULL}, size \in Sizes, ret \in Results : realloc(ptr, size, ret)
  \/ hu_fini
  \/ \E ptr \in DOMAIN held : DestructorFree(ptr)
  \/ process = "child" /\ ~hu_bypass /\ EvictOldest /\ UNCHANGED forkVars

SpecHuFork == InitHuFork /\ [][NextHuFork]_<<mallocVars, forkVars>>

-----------------------------------------------------------------------------
(***************************************************************************)
(* Properties                                                              *)
(***************************************************************************)
\* The blocks humalloc made have no fence, so that their pointers are libc's.
NoFences == ~hu_config.overflow

\* ... and no block was freed by a failed hu_realloc while its caller still has it.
InSoundChild == process = "child" /\ NoFences /\ ~robbed

\* humain.cpp:108-114 "a global bypass would cause them to pass offset pointers to
\* the system allocator, crashing in realloc/free": the child, whose bypass stays
\* on, does not crash in free or realloc, nor in the destructors after hu_fini -
\* as long as no block has a fence and none inherited was freed by a failed realloc.
ChildNeverAborts == InSoundChild => ~libc_aborted

\* Known not to hold: the same with fences, and after a failed hu_realloc.
FencedChildNeverAborts == process = "child" /\ ~robbed => ~libc_aborted
RobbedChildNeverAborts == process = "child" /\ NoFences => ~libc_aborted

\* What a child holds, inherited or new, is its own, and libc never gets back what
\* is in quarantine, although humalloc's tables no longer follow what the child
\* does: also if the fork cut a call in two, and when destructors "still route
\* hu_malloc'd pointers through hu_free" (humain.cpp:226-231).  The guard leaves
\* out the process whose block a failed hu_realloc has freed.
ChildOwnsItsMemory ==
  InSoundChild =>
    /\ HeldIsIntact
    /\ \A info \in Quarantined : info.sys_ptr \in DOMAIN libc_blocks

\* The child can use all it holds until hu_fini: what it inherited in quarantine,
\* protected, is not handed out again (humain.cpp:126).  Under the same guard: a
\* block that a failed hu_realloc quarantined is inherited protected.
ChildCanUseItsMemory == InSoundChild /\ hu_bypass => HeldIsAccessible

\* Known not to hold: after hu_fini a pointer that humalloc's stale tables have is
\* freed as the block they have, whole pages of which may be another's.
ChildCanUseItsMemoryToTheEnd == InSoundChild => HeldIsAccessible

=============================================================================
