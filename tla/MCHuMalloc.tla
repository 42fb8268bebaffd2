----------------------------- MODULE MCHuMalloc -----------------------------
(***************************************************************************)
(* HuMalloc on a small heap: pages of four bytes, double words of two, and *)
(* room for two blocks with a fence or three without, so that memory is    *)
(* reused after a few calls.                                               *)
(***************************************************************************)
EXTENDS HuMalloc

Config(overflow, useafterfree, minsize, quarantine_pct) ==
  [overflow |-> overflow, useafterfree |-> useafterfree,
   minsize |-> minsize, quarantine_pct |-> quarantine_pct]

\* Every block fenced or quarantined, with quarantines of no, one and two blocks;
\* and with a minimum size, below which requests go to libc unfenced.
MCConfigs ==
  {Config(FALSE, TRUE, 0, 10), Config(TRUE, TRUE, 2, 0),
   Config(TRUE, FALSE, 2, 10), Config(TRUE, TRUE, 2, 10)}

\* A minimum size and no quarantine: the blocks of both kinds come and go.
MCMixedConfigs == {Config(TRUE, FALSE, 2, 10)}

=============================================================================
