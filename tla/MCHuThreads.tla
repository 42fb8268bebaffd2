---------------------------- MODULE MCHuThreads ----------------------------
(***************************************************************************)
(* HuThreads with two threads.                                             *)
(***************************************************************************)
EXTENDS HuThreads

\* What a signal may interrupt.
InProgramOrWrapper == {"program", "wrapper"}
Anything == {"program", "wrapper", "report", "signal", "fault", "fini", "fork"}

=============================================================================
