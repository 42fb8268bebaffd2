----------------------------- MODULE MCHeapUsage -----------------------------
(***************************************************************************)
(* HeapUsage with the tools the launcher's options select.                 *)
(***************************************************************************)
EXTENDS HeapUsage

Env(doublefree, leak, overflow, useafterfree, minsize, quarantine_pct) ==
  [doublefree |-> doublefree, leak |-> leak, overflow |-> overflow,
   useafterfree |-> useafterfree, minsize |-> minsize,
   quarantine_pct |-> quarantine_pct, repeat |-> TRUE]

MCConfigs == {MallocConfigOf(env) : env \in Tools}
MCLogConfigs == {LogConfigOf(env) : env \in Tools}

\* heapusage -t all, -t leak -m 2, and so on.
All == Env(TRUE, TRUE, TRUE, TRUE, 0, 10)
Leak == Env(FALSE, TRUE, FALSE, FALSE, 2, 10)
DoubleFree == Env(TRUE, FALSE, FALSE, FALSE, 0, 10)
Overflow == Env(FALSE, FALSE, TRUE, FALSE, 0, 10)
UseAfterFree == Env(FALSE, FALSE, FALSE, TRUE, 0, 10)
Access == Env(FALSE, FALSE, TRUE, TRUE, 0, 10)

\* The tools of the runs; the last three serve the disagreements the README lists.
LedgerTools == {All, Leak}
FaultTools == {Overflow, UseAfterFree, Access}
OnlyAll == {All}
OnlyDoubleFree == {DoubleFree}
OnlyLeak == {Leak}
OnlyOverflow == {Overflow}
OnlyNoQuarantine == {Env(FALSE, FALSE, FALSE, TRUE, 0, 0)}
OnlyUseAfterFree == {UseAfterFree}

==============================================================================
