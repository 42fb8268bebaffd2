------------------------------ MODULE Launcher ------------------------------
(***************************************************************************)
(* src/heapusage, the script that runs a program under the library, and    *)
(* the program with the processes it makes, as far as the log file is      *)
(* concerned: hu_init opens it for writing, reports and the summary of     *)
(* hu_fini are appended, the script shows it or looks whether it is there. *)
(*                                                                         *)
(* There is one file of interest in each directory: "tmp" is the script's  *)
(* temporary one, "home" where the script runs, "else" any other.  What    *)
(* the processes write to the terminal themselves is in stderr, too.       *)
(***************************************************************************)
EXTENDS Integers, Sequences

Dirs == {"tmp", "home", "else"}

CONSTANTS
  CommandLines,    \* what the script may be called with
  Situations       \* what it may find

CommandLineType ==
  [special : BOOLEAN,                      \* --help, --version, nothing, no program
   tools : SUBSET {"double-free", "error", "leak", "all", "unknown"},
   output : {"none", "home", "relative"}]  \* of -o: none, /home/out or out

SituationType ==
  [libs : Seq(BOOLEAN),       \* which of LIBPATHS exist
   preloads : BOOLEAN,        \* the dynamic linker takes the library
   old : BOOLEAN,             \* there is an output file from before
   access : [Dirs -> {"all", "file", "none"}]]
                              \* of the file of a directory: it may be made, opened
                              \* and removed; opened if it is there; not opened

ASSUME LauncherAssumption ==
  CommandLines \subseteq CommandLineType /\ Situations \subseteq SituationType

VARIABLES
  line, situation,     \* fixed at the start
  step,                \* of the script
  CNT, FOUND, RV,      \* of the script
  TMP,                 \* the temporary directory exists
  stderr,              \* what the script and hu_init have written there
  files,               \* directory -> [exists, lines]
  processes,           \* "program" and its "child"
  status,              \* the program's exit status
  exited               \* history: the tracked program ended by exit()

inputVars == <<line, situation>>
scriptVars == <<step, CNT, FOUND, RV, TMP, stderr>>
endVars == <<status, exited>>
vars == <<inputVars, scriptVars, files, processes, endVars>>

NoFile == [exists |-> FALSE, lines |-> <<>>]
Line(process, text) == [process |-> process, text |-> text]
Old == Line("earlier", "summary")

\* A process: whether LD_PRELOAD is in its environment, whether the library is
\* loaded, its HU_FILE and what hu_init made of that, and its directory.
NoProcess == [state |-> "none", preload |-> FALSE, tracked |-> FALSE,
              HU_FILE |-> "tmp", hu_file |-> "tmp", cwd |-> "home"]

Init ==
  /\ line \in CommandLines /\ situation \in Situations
  /\ step = "parse" /\ CNT = 0 /\ FOUND = FALSE /\ RV = 0
  /\ TMP = FALSE /\ stderr = <<>>
  /\ files = [dir \in Dirs |->
                IF dir = "home" /\ situation.old
                THEN [exists |-> TRUE, lines |-> <<Old>>] ELSE NoFile]
  /\ processes = [p \in {"program", "child"} |-> NoProcess]
  /\ status = 0 /\ exited = FALSE

-----------------------------------------------------------------------------
(***************************************************************************)
(* The script.                                                             *)
(***************************************************************************)
\* HU_FILE="${TMPLOG}${OUTFILE}", of which one is empty.
LogFile == IF line.output = "none" THEN "tmp" ELSE line.output

\* The directory a name leads to from cwd.
Where(name, cwd) == IF name = "relative" THEN cwd ELSE name

\* Options the script itself answers, and a choice of tools that leaves none.
Parse ==
  /\ step = "parse"
  /\ IF line.special \/ line.tools \subseteq {"unknown"}
       THEN step' = "ended" /\ RV' \in IF line.special THEN {0, 1} ELSE {1}
       ELSE step' = "setup" /\ UNCHANGED RV
  /\ UNCHANGED <<inputVars, CNT, FOUND, TMP, stderr, files, processes, endVars>>

Mutant_Setup_keeps_old ==
  /\ step = "setup" /\ step' = "search"
  /\ TMP' = TRUE /\ RV' = 1
  /\ UNCHANGED <<inputVars, CNT, FOUND, stderr, files, processes, endVars>>

\* The temporary directory is made, an output file of an earlier run removed
\* where rm -f can: the script does not look.
Setup ==
  /\ step = "setup" /\ step' = "search"
  /\ TMP' = TRUE /\ RV' = 1
  /\ files' = IF line.output = "none" \/ situation.access["home"] # "all" THEN files
              ELSE [files EXCEPT !["home"] = NoFile]
  /\ UNCHANGED <<inputVars, CNT, FOUND, stderr, processes, endVars>>

Searching == step = "search" /\ CNT < Len(situation.libs)

Mutant_TryNext_no_increment ==
  /\ Searching /\ ~situation.libs[CNT + 1]
  /\ UNCHANGED vars

TryNext ==
  /\ Searching /\ ~situation.libs[CNT + 1]
  /\ CNT' = CNT + 1
  /\ UNCHANGED <<inputVars, step, FOUND, RV, TMP, stderr, files, processes, endVars>>

Launch ==
  /\ Searching /\ situation.libs[CNT + 1]
  /\ step' = "running"
  /\ processes' = [processes EXCEPT !["program"] =
                     [@ EXCEPT !.state = "starting", !.preload = TRUE,
                               !.HU_FILE = LogFile]]
  /\ UNCHANGED <<inputVars, CNT, FOUND, RV, TMP, stderr, files, endVars>>

\* Without a library the script gives up, and leaves its directory behind.
NotFound ==
  /\ step = "search" /\ CNT >= Len(situation.libs)
  /\ step' = "ended" /\ RV' = 1 /\ stderr' = Append(stderr, Line("script", "not found"))
  /\ UNCHANGED <<inputVars, CNT, FOUND, TMP, files, processes, endVars>>

Mutant_Await_not_at_all ==
  /\ step = "running" /\ step' = "show"
  /\ FOUND' = TRUE /\ RV' = 0
  /\ UNCHANGED <<inputVars, CNT, TMP, stderr, files, processes, endVars>>

\* The program has ended, its children perhaps not.  RV is the status of the
\* assignment FOUND=1 before it.
Await ==
  /\ step = "running" /\ processes["program"].state = "ended"
  /\ step' = "show"
  /\ FOUND' = TRUE /\ RV' = 0
  /\ UNCHANGED <<inputVars, CNT, TMP, stderr, files, processes, endVars>>

Unable == Line("script", "unable to preload")

Show ==
  /\ step = "show" /\ step' = "cleanup"
  /\ LET file == files[Where(LogFile, "home")]
     IN stderr' = CASE ~file.exists -> Append(stderr, Unable)
                    [] file.exists /\ line.output = "none" -> stderr \o file.lines
                    [] OTHER -> stderr
  /\ UNCHANGED <<inputVars, CNT, FOUND, RV, TMP, files, processes, endVars>>

Mutant_Unlink_no_file ==
  /\ step = "cleanup" /\ step' = "rmdir"
  /\ UNCHANGED <<inputVars, CNT, FOUND, RV, TMP, stderr, files, processes, endVars>>

\* rm -rf of the temporary directory: first what is in it,
Unlink ==
  /\ step = "cleanup" /\ step' = "rmdir"
  /\ files' = [files EXCEPT !["tmp"] = NoFile]
  /\ UNCHANGED <<inputVars, CNT, FOUND, RV, TMP, stderr, processes, endVars>>

\* then the directory, which stays if there is a file in it again.
Rmdir ==
  /\ step = "rmdir" /\ step' = "ended"
  /\ TMP' = files["tmp"].exists
  /\ UNCHANGED <<inputVars, CNT, FOUND, RV, stderr, files, processes, endVars>>

Script == \/ Parse \/ Setup \/ TryNext \/ Launch \/ NotFound
          \/ Await \/ Show \/ Unlink \/ Rmdir

-----------------------------------------------------------------------------
(***************************************************************************)
(* The program and its child.                                              *)
(***************************************************************************)
Running(p) == processes[p].state = "running"

\* fopen for writing or appending, of a file that is there or is to be made.
CanOpen(dir) ==
  \/ situation.access[dir] = "all" /\ (dir = "tmp" => TMP)
  \/ situation.access[dir] = "file" /\ files[dir].exists

\* fopen(hu_log_file, "a"), lines, fclose.
Append1(p, text) ==
  LET dir == Where(processes[p].hu_file, processes[p].cwd)
  IN files' = IF CanOpen(dir)
              THEN [files EXCEPT ![dir] = [exists |-> TRUE,
                                           lines |-> Append(@.lines, Line(p, text))]]
              ELSE files

\* log_init opens the log with "w" for the header; if it cannot, it says so and
\* goes on.
OpenLog(p, dir) ==
  IF CanOpen(dir)
    THEN /\ files' = [files EXCEPT ![dir] = [exists |-> TRUE,
                                             lines |-> <<Line(p, "header")>>]]
         /\ UNCHANGED stderr
    ELSE stderr' = Append(stderr, Line(p, "unable to open")) /\ UNCHANGED files

Mutant_hu_init_keeps_preload(p) ==
  LET process == processes[p]
      dir == Where(process.HU_FILE, process.cwd)
  IN /\ process.state = "starting" /\ process.preload /\ situation.preloads
     /\ processes' = [processes EXCEPT ![p] =
          [process EXCEPT !.state = "running", !.tracked = TRUE,
             !.hu_file = IF files[dir].exists THEN dir ELSE process.HU_FILE]]
     /\ OpenLog(p, dir)
     /\ UNCHANGED <<inputVars, step, CNT, FOUND, RV, TMP, endVars>>

\* hu_init: HU_FILE becomes an absolute path if there is such a file, the log is
\* opened, and LD_PRELOAD is taken out of the environment.
hu_init(p) ==
  LET process == processes[p]
      dir == Where(process.HU_FILE, process.cwd)
  IN /\ process.state = "starting" /\ process.preload /\ situation.preloads
     /\ processes' = [processes EXCEPT ![p] =
          [process EXCEPT !.state = "running", !.tracked = TRUE, !.preload = FALSE,
             !.hu_file = IF files[dir].exists THEN dir ELSE process.HU_FILE]]
     /\ OpenLog(p, dir)
     /\ UNCHANGED <<inputVars, step, CNT, FOUND, RV, TMP, endVars>>

StartPlain(p) ==
  /\ processes[p].state = "starting"
  /\ ~processes[p].preload \/ ~situation.preloads
  /\ processes' = [processes EXCEPT ![p].state = "running", ![p].tracked = FALSE]
  /\ UNCHANGED <<inputVars, scriptVars, files, endVars>>

chdir(p) ==
  /\ Running(p)
  /\ processes' = [processes EXCEPT ![p].cwd = "else"]
  /\ UNCHANGED <<inputVars, scriptVars, files, endVars>>

fork ==
  /\ Running("program") /\ processes["child"].state = "none"
  /\ processes' = [processes EXCEPT !["child"] = processes["program"]]
  /\ UNCHANGED <<inputVars, scriptVars, files, endVars>>

\* The image goes, without its destructors; the environment stays.
exec(p) ==
  /\ Running(p)
  /\ processes' = [processes EXCEPT ![p].state = "starting", ![p].tracked = FALSE]
  /\ UNCHANGED <<inputVars, scriptVars, files, endVars>>

\* An invalid deallocation or access is reported, once to bound the run.
Reports(p) ==
  /\ Running(p) /\ processes[p].tracked
  /\ \A dir \in Dirs : \A i \in 1 .. Len(files[dir].lines) :
       files[dir].lines[i] # Line(p, "report")
  /\ Append1(p, "report")
  /\ UNCHANGED <<inputVars, scriptVars, processes, endVars>>

\* exit() runs hu_fini, of which log_summary appends the summary.
exit(p, code) ==
  /\ Running(p)
  /\ processes' = [processes EXCEPT ![p].state = "ended"]
  /\ IF processes[p].tracked THEN Append1(p, "summary") ELSE UNCHANGED files
  /\ status' = IF p = "program" THEN code ELSE status
  /\ exited' = (exited \/ (p = "program" /\ processes[p].tracked))
  /\ UNCHANGED <<inputVars, scriptVars>>

\* _exit(), or a signal.
Killed(p) ==
  /\ Running(p)
  /\ processes' = [processes EXCEPT ![p].state = "ended"]
  /\ UNCHANGED <<inputVars, scriptVars, files, endVars>>

Program ==
  \/ fork
  \/ \E p \in {"program", "child"} :
       \/ hu_init(p) \/ StartPlain(p) \/ exec(p) \/ chdir(p)
       \/ Reports(p) \/ Killed(p)
       \/ \E code \in {0, 3} : exit(p, code)

Next == Script \/ Program

\* The script goes on when it can; the program may do as it likes.
Spec == Init /\ [][Next]_vars
FairSpec == Spec /\ WF_vars(Script)

-----------------------------------------------------------------------------
(***************************************************************************)
(* Properties                                                              *)
(***************************************************************************)
Lines == [process : {"program", "child", "script", "earlier"},
          text : {"header", "report", "summary", "unable to open", "not found",
                  "unable to preload"}]
Names == Dirs \cup {"relative"}

\* Type invariant.
TypeOK ==
  /\ line \in CommandLines /\ situation \in Situations
  /\ step \in {"parse", "setup", "search", "running", "show", "cleanup", "rmdir", "ended"}
  /\ CNT \in 0 .. Len(situation.libs)
  /\ FOUND \in BOOLEAN /\ RV \in {0, 1} /\ TMP \in BOOLEAN
  /\ stderr \in Seq(Lines)
  /\ files \in [Dirs -> [exists : BOOLEAN, lines : Seq(Lines)]]
  /\ processes \in [{"program", "child"} ->
       [state : {"none", "starting", "running", "ended"}, preload : BOOLEAN,
        tracked : BOOLEAN, HU_FILE : Names, hu_file : Names, cwd : Dirs]]
  /\ status \in {0, 3}

\* The program was run, and the script is through.
Finished == step = "ended" /\ FOUND

\* Where the user looks: at what was shown, or into the output file.
Delivered ==
  IF line.output = "none" THEN stderr ELSE files[Where(line.output, "home")].lines

Has(lines, l) == \E i \in 1 .. Len(lines) : lines[i] = l

\* There is an output file from before that rm -f cannot remove.
OldStays == line.output # "none" /\ situation.old /\ situation.access["home"] # "all"

\* hu_init can open the log, in a directory or as such an old file.
LogOpens ==
  LET access == situation.access[Where(LogFile, "home")]
  IN access = "all" \/ (access = "file" /\ OldStays)

\* src/heapusage:293 "Remove any pre-existing output file": nothing of an earlier
\* run is ever taken for this run's output.  Known not to hold of a file that
\* cannot be removed.
NoStaleReport == Finished => ~Has(Delivered, Old)

\* src/heapusage:293 "so the post-run check can detect preload failure": unless an
\* old output file stays, the script says so exactly when the library was not
\* loaded into the program or could not open its log, whatever the program, its
\* children and other directories' files did.
PreloadFailureIsReported ==
  Finished /\ ~OldStays =>
    (Has(stderr, Unable) <=> ~(situation.preloads /\ LogOpens))

\* src/heapusage:394 "error: unable to preload libheapusage": the script says so
\* only if the library was not loaded.  Known not to hold.
UnableMeansNotLoaded == Finished /\ Has(stderr, Unable) => ~situation.preloads

\* The program's own summary gets to the user, or the library has said that it
\* cannot write its log: nothing the program or its children do, and no step of
\* the script, cuts the summary off.  (A relative output file and chdir: README,
\* known disagreements.)
SummaryReachesUser ==
  LET program == processes["program"]
  IN Finished /\ exited
       /\ (line.output = "relative" => program.cwd = "home")
     => \/ Has(Delivered, Line("program", "summary"))
        \/ Has(stderr, Line("program", "unable to open"))

\* src/heapusage:397 "Cleanup temp dir": once a program was run the temporary
\* directory is gone, unless a child that goes on has made the log anew before the
\* directory could be removed; then nothing but what the child wrote is in it.
TempDirIsRemoved ==
  Finished =>
    /\ TMP <=> files["tmp"].exists
    /\ TMP => line.output = "none"
    /\ \A i \in 1 .. Len(files["tmp"].lines) : files["tmp"].lines[i].process = "child"

\* src/heapusage:397 "Cleanup temp dir", whatever a child does.  Known not to hold.
TempDirIsAlwaysRemoved == Finished => ~TMP

\* Nothing that was reported of this run is lost from a file but for the log that
\* the script removes when it cleans up: LD_PRELOAD is not handed on (humain.cpp:192), for
\* a child's hu_init would open the file anew.
ReportsAreKept ==
  [][\A dir \in Dirs : \A p \in {"program", "child"}, text \in {"report", "summary"} :
       Has(files[dir].lines, Line(p, text)) /\ step # "cleanup"
         => Has(files'[dir].lines, Line(p, text))]_vars

\* The script ends when the program does, whatever libraries there are and
\* whatever the program's children do.
ScriptEnds ==
  <>[](processes["program"].state \notin {"starting", "running"}) => <>(step = "ended")

\* The program's exit status is the script's.  Known not to hold.
ExitStatusIsPassedOn == Finished => RV = status

\* humain.cpp:126 "child should not track allocations".  Known not to hold of its
\* summary: a child's exit() appends one.
ChildIsNotTracked == ~Has(stderr, Line("child", "summary"))

=============================================================================
