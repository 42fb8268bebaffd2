------------------------------ MODULE MCHuFork ------------------------------
(***************************************************************************)
(* HuFork on the heap of MCHuMalloc: without fences, where what a child    *)
(* holds is its own, with and without a quarantine; and with fences.       *)
(***************************************************************************)
EXTENDS HuFork

Config(overflow, minsize, quarantine_pct) ==
  [overflow |-> overflow, useafterfree |-> TRUE,
   minsize |-> minsize, quarantine_pct |-> quarantine_pct]

MCConfigs == {Config(FALSE, 0, 10), Config(FALSE, 2, 0)}

\* What the properties leave out.
MCFencedConfigs == {Config(TRUE, 0, 10)}

=============================================================================
