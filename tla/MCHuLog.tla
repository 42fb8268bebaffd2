------------------------------ MODULE MCHuLog ------------------------------
(***************************************************************************)
(* HuLog under every sequence of events on two pointers, two sizes, one of *)
(* them below minleak, and three call sites, one of them in libobjc.       *)
(***************************************************************************)
EXTENDS HuLog

LogConfig(log_free, useafterfree, log_repeat) ==
  [log_free |-> log_free, useafterfree |-> useafterfree, leak |-> TRUE,
   minleak |-> 2, log_repeat |-> log_repeat]

MCLogConfigs ==
  {LogConfig(TRUE, FALSE, TRUE), LogConfig(TRUE, FALSE, FALSE),
   LogConfig(FALSE, TRUE, FALSE), LogConfig(FALSE, FALSE, FALSE)}

=============================================================================
