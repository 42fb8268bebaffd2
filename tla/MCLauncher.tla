---------------------------- MODULE MCLauncher ----------------------------
(***************************************************************************)
(* Launcher with every command line and situation that matters: the        *)
(* library in the first, the last or none of three places, and a log file  *)
(* that can be opened everywhere, not in the temporary directory, not      *)
(* where the script runs, or there only if it exists.                      *)
(***************************************************************************)
EXTENDS Launcher

MCCommandLines ==
  [special : BOOLEAN, tools : {{"error"}, {"unknown"}, {"all", "unknown"}},
   output : {"none", "home", "relative"}]

MCSituations ==
  [libs : {<<TRUE, FALSE, TRUE>>, <<FALSE, FALSE, TRUE>>, <<FALSE, FALSE, FALSE>>},
   preloads : BOOLEAN, old : BOOLEAN,
   access : {[dir \in Dirs |-> "all"]}
     \cup {[dir \in Dirs |-> IF dir = closed THEN how ELSE "all"] :
             closed \in {"tmp", "home"}, how \in {"file", "none"}}]

=============================================================================
