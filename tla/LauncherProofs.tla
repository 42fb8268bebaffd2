-------------------------- MODULE LauncherProofs --------------------------
(***************************************************************************)
(* What is proved of Launcher, for any command line and any places of the  *)
(* library: the types, an inductive invariant of the script together with  *)
(* the program and its child, and from it the safety properties.           *)
(***************************************************************************)
EXTENDS Launcher, TLAPS

\* The sets that TypeOK is made of.
Steps == {"parse", "setup", "search", "running", "show", "cleanup", "rmdir", "ended"}
ProcessType ==
  [state : {"none", "starting", "running", "ended"}, preload : BOOLEAN,
   tracked : BOOLEAN, HU_FILE : Names, hu_file : Names, cwd : Dirs]
FileType == [exists : BOOLEAN, lines : Seq(Lines)]
Owners == {"program", "child"}

\* The fields of a process have the types that its record says.
LEMMA ProcessFields ==
  ASSUME NEW process \in ProcessType
  PROVE  /\ process.state \in {"none", "starting", "running", "ended"}
         /\ process.preload \in BOOLEAN
         /\ process.tracked \in BOOLEAN
         /\ process.HU_FILE \in Names
         /\ process.hu_file \in Names
         /\ process.cwd \in Dirs
BY DEF ProcessType

\* A process whose state changes is a process.
LEMMA ProcessState ==
  ASSUME NEW process \in ProcessType,
         NEW state \in {"none", "starting", "running", "ended"}
  PROVE  [process EXCEPT !.state = state] \in ProcessType
BY DEF ProcessType

\* So is one whose library is loaded or dropped,
LEMMA ProcessTracked ==
  ASSUME NEW process \in ProcessType, NEW tracked \in BOOLEAN
  PROVE  [process EXCEPT !.tracked = tracked] \in ProcessType
BY Zenon DEF ProcessType

\* one whose LD_PRELOAD changes,
LEMMA ProcessPreload ==
  ASSUME NEW process \in ProcessType, NEW preload \in BOOLEAN
  PROVE  [process EXCEPT !.preload = preload] \in ProcessType
BY DEF ProcessType

\* one that changes its directory,
LEMMA ProcessCwd ==
  ASSUME NEW process \in ProcessType, NEW cwd \in Dirs
  PROVE  [process EXCEPT !.cwd = cwd] \in ProcessType
BY DEF ProcessType

\* one that hu_init has prepared (humain.cpp:149-208),
LEMMA ProcessHuInit ==
  ASSUME NEW process \in ProcessType, NEW file \in Names
  PROVE  [process EXCEPT !.state = "running", !.tracked = TRUE, !.preload = FALSE,
                         !.hu_file = file] \in ProcessType
BY DEF ProcessType

\* and one that the script starts (src/heapusage:365-373).
LEMMA ProcessLaunch ==
  ASSUME NEW process \in ProcessType, NEW file \in Names
  PROVE  [process EXCEPT !.state = "starting", !.preload = TRUE,
                         !.HU_FILE = file] \in ProcessType
BY DEF ProcessType

\* HU_FILE leads to one of the directories from where the script runs.
LEMMA LogIsADirectory ==
  ASSUME LauncherAssumption, TypeOK
  PROVE  /\ LogFile \in Names
         /\ Where(LogFile, "home") \in Dirs
         /\ line.output \in {"none", "home", "relative"}
         /\ line.output # "none" => Where(line.output, "home") = "home"
<1>1. line.output \in {"none", "home", "relative"}
  BY DEF LauncherAssumption, TypeOK, CommandLineType
<1>2. LogFile \in {"tmp", "home", "relative"}
  BY <1>1 DEF LogFile
<1> QED
  BY <1>1, <1>2 DEF Where, Names, Dirs

\* A name leads to a directory from any directory.
LEMMA WhereInDirs ==
  ASSUME NEW name \in Names, NEW cwd \in Dirs
  PROVE  Where(name, cwd) \in Dirs
BY DEF Where, Names

\* What a process writes is a line.
LEMMA LineType ==
  ASSUME NEW p \in Owners, NEW text \in {"header", "report", "summary", "unable to open"}
  PROVE  Line(p, text) \in Lines
BY DEF Owners, Line, Lines

\* A file with other lines is a file.
LEMMA FileWith ==
  ASSUME NEW fs \in [Dirs -> FileType], NEW dir \in Dirs, NEW lines \in Seq(Lines),
         NEW exists \in BOOLEAN
  PROVE  [fs EXCEPT ![dir] = [exists |-> exists, lines |-> lines]]
           \in [Dirs -> FileType]
BY DEF FileType

\* A sequence of one element.
LEMMA OneElement ==
  ASSUME NEW S, NEW x \in S
  PROVE  <<x>> \in Seq(S)
OBVIOUS

\* No lines are lines.
LEMMA EmptyOfLines == <<>> \in Seq(Lines)
OBVIOUS

\* One line, of a process or of the script, is a sequence of lines.
LEMMA OneLine ==
  ASSUME NEW p \in {"program", "child", "script", "earlier"},
         NEW text \in {"header", "report", "summary", "unable to open", "not found",
                       "unable to preload"}
  PROVE  Line(p, text) \in Lines /\ <<Line(p, text)>> \in Seq(Lines)
<1>1. Line(p, text) \in Lines
  BY DEF Line, Lines
<1> QED
  BY <1>1, OneElement

\* Lines after lines are lines.
LEMMA MoreLines ==
  ASSUME NEW lines \in Seq(Lines), NEW more \in Seq(Lines), NEW l \in Lines
  PROVE  Append(lines, l) \in Seq(Lines) /\ lines \o more \in Seq(Lines)
OBVIOUS

\* A file that is not there is a file.
LEMMA NoFileType == NoFile \in FileType
BY DEF NoFile, FileType

\* Appending to the log, as log_message and hu_fini do, keeps the files' type.
LEMMA AppendKeepsType ==
  ASSUME TypeOK, NEW p \in Owners, NEW text \in {"report", "summary"}, Append1(p, text)
  PROVE  files' \in [Dirs -> FileType]
<1> DEFINE dir == Where(processes[p].hu_file, processes[p].cwd)
<1>1. processes[p] \in ProcessType /\ files \in [Dirs -> FileType]
  BY DEF TypeOK, Owners, ProcessType, FileType
<1>2. dir \in Dirs
  BY <1>1, ProcessFields, WhereInDirs
<1>3. Line(p, text) \in Lines
  BY LineType
<1>4. files[dir].lines \in Seq(Lines)
  BY <1>1, <1>2 DEF FileType
<1>5. Append(files[dir].lines, Line(p, text)) \in Seq(Lines)
  BY <1>3, <1>4
<1>6. [files EXCEPT ![dir] = [exists |-> TRUE, lines |-> Append(files[dir].lines, Line(p, text))]]
        \in [Dirs -> FileType]
  BY <1>1, <1>2, <1>5, FileWith
<1>7. files' = IF CanOpen(dir)
               THEN [files EXCEPT ![dir] = [exists |-> TRUE, lines |-> Append(files[dir].lines, Line(p, text))]]
               ELSE files
  BY <1>1, <1>2 DEF Append1
<1> QED
  BY <1>1, <1>6, <1>7, Zenon

\* TypeOK from its conjuncts, one by one.
LEMMA TypeFromParts ==
  ASSUME line \in CommandLines, situation \in Situations, step \in Steps,
         CNT \in 0 .. Len(situation.libs), FOUND \in BOOLEAN, RV \in {0, 1},
         TMP \in BOOLEAN, stderr \in Seq(Lines), files \in [Dirs -> FileType],
         processes \in [Owners -> ProcessType], status \in {0, 3}
  PROVE  TypeOK
BY DEF TypeOK, Steps, FileType, Owners, ProcessType

\* The types hold when the script is called.
LEMMA TypeInit == LauncherAssumption /\ Init => TypeOK
<1> SUFFICES ASSUME LauncherAssumption, Init PROVE TypeOK
  OBVIOUS
<1>1. situation.libs \in Seq(BOOLEAN) /\ situation.old \in BOOLEAN
  BY DEF Init, LauncherAssumption, SituationType
<1>2. [exists |-> TRUE, lines |-> <<Old>>] \in FileType /\ NoFile \in FileType
  BY NoFileType, OneLine DEF FileType, Old
<1>3. files \in [Dirs -> FileType]
  BY <1>2 DEF Init
<1>4. NoProcess \in ProcessType
  BY DEF NoProcess, ProcessType, Names, Dirs
<1>5. processes \in [Owners -> ProcessType]
  BY <1>4 DEF Init, Owners
<1>6. Len(situation.libs) \in Nat /\ stderr \in Seq(Lines)
  BY <1>1, EmptyOfLines DEF Init
<1>7. CNT \in 0 .. Len(situation.libs)
  BY <1>6 DEF Init
<1>8. /\ line \in CommandLines /\ situation \in Situations /\ step \in Steps
      /\ RV \in {0, 1} /\ status \in {0, 3}
  BY DEF Init, Steps
<1>9. FOUND \in BOOLEAN /\ TMP \in BOOLEAN
  BY Zenon DEF Init
<1> QED
  BY <1>3, <1>5, <1>6, <1>7, <1>8, <1>9, TypeFromParts

\* One component of the state keeps its type.
LEMMA ProcessesKeepType ==
  ASSUME TypeOK, NEW p \in Owners, NEW process \in ProcessType,
         processes' = [processes EXCEPT ![p] = process]
  PROVE  processes' \in [Owners -> ProcessType]
BY DEF TypeOK, Owners, ProcessType

\* The type of one process.
LEMMA TypeOfProcess ==
  ASSUME TypeOK, NEW p \in Owners
  PROVE  processes[p] \in ProcessType
BY DEF TypeOK, Owners, ProcessType

\* The conjuncts of TypeOK.
LEMMA PartsOfType ==
  ASSUME LauncherAssumption, TypeOK
  PROVE  /\ line \in CommandLines /\ situation \in Situations /\ step \in Steps
         /\ CNT \in 0 .. Len(situation.libs) /\ Len(situation.libs) \in Nat
         /\ FOUND \in BOOLEAN /\ RV \in {0, 1}
         /\ TMP \in BOOLEAN /\ stderr \in Seq(Lines) /\ files \in [Dirs -> FileType]
         /\ processes \in [Owners -> ProcessType] /\ status \in {0, 3}
BY DEF TypeOK, Steps, FileType, Owners, ProcessType, LauncherAssumption, SituationType

\* The script's steps keep the types.
LEMMA ScriptKeepsType == LauncherAssumption /\ TypeOK /\ Script => TypeOK'
<1> SUFFICES ASSUME LauncherAssumption, TypeOK, Script PROVE TypeOK'
  OBVIOUS
<1> USE PartsOfType
<1>1. CASE Parse
  <2>1. step' \in Steps /\ RV' \in {0, 1}
    BY <1>1 DEF Parse, Steps
  <2> QED
    BY <1>1, <2>1 DEF Parse, inputVars, endVars, Steps, TypeOK
<1>2. CASE Setup
  <2>1. files' \in [Dirs -> FileType]
    BY <1>2, LogIsADirectory, NoFileType DEF Setup
  <2> QED
    BY <1>2, <2>1 DEF Setup, inputVars, endVars, Steps, TypeOK, FileType
<1>3. CASE TryNext
  <2>1. CNT' \in 0 .. Len(situation.libs)
    BY <1>3 DEF TryNext, Searching
  <2> QED
    BY <1>3, <2>1 DEF TryNext, inputVars, endVars, TypeOK
<1>4. CASE Launch
  <2>1. [processes["program"] EXCEPT !.state = "starting", !.preload = TRUE,
                                     !.HU_FILE = LogFile] \in ProcessType
    BY TypeOfProcess, LogIsADirectory, ProcessLaunch DEF Owners
  <2>2. processes' = [processes EXCEPT !["program"] =
           [processes["program"] EXCEPT !.state = "starting", !.preload = TRUE,
                                        !.HU_FILE = LogFile]]
    BY <1>4 DEF Launch, Owners
  <2>3. processes' \in [Owners -> ProcessType]
    BY <2>1, <2>2 DEF Owners
  <2> QED
    BY <1>4, <2>3 DEF Launch, inputVars, endVars, TypeOK, ProcessType, Owners
<1>5. CASE NotFound
  <2>1. stderr' \in Seq(Lines)
    BY <1>5, OneLine, MoreLines DEF NotFound
  <2> QED
    BY <1>5, <2>1 DEF NotFound, inputVars, endVars, TypeOK
<1>6. CASE Await
  BY <1>6 DEF Await, inputVars, endVars, TypeOK
<1>7. CASE Show
  <2>1. Unable \in Lines
    BY OneLine DEF Unable
  <2>2. files[Where(LogFile, "home")].lines \in Seq(Lines)
    BY LogIsADirectory DEF FileType
  <2>3. Append(stderr, Unable) \in Seq(Lines) /\ stderr \o files[Where(LogFile, "home")].lines \in Seq(Lines)
    BY <2>1, <2>2, MoreLines
  <2>4. stderr' \in Seq(Lines)
    BY <1>7, <2>3 DEF Show
  <2> QED
    BY <1>7, <2>4 DEF Show, inputVars, endVars, TypeOK
<1>8. CASE Unlink
  <2>1. files' \in [Dirs -> FileType]
    BY <1>8, NoFileType DEF Unlink, Dirs
  <2> QED
    BY <1>8, <2>1 DEF Unlink, inputVars, endVars, TypeOK, FileType
<1>9. CASE Rmdir
  <2>1. TMP' \in BOOLEAN
    BY <1>9 DEF Rmdir, FileType, Dirs
  <2> QED
    BY <1>9, <2>1 DEF Rmdir, inputVars, endVars, TypeOK
<1> QED
  BY <1>1, <1>2, <1>3, <1>4, <1>5, <1>6, <1>7, <1>8, <1>9 DEF Script

\* The steps of the program and its child keep the types.
LEMMA ProgramKeepsType == LauncherAssumption /\ TypeOK /\ Program => TypeOK'
<1> SUFFICES ASSUME LauncherAssumption, TypeOK, Program PROVE TypeOK'
  OBVIOUS
<1> USE PartsOfType
<1>1. CASE fork
  <2>1. processes' \in [Owners -> ProcessType]
    BY <1>1, TypeOfProcess DEF fork, Owners
  <2> QED
    BY <1>1, <2>1 DEF fork, inputVars, scriptVars, endVars, TypeOK, ProcessType, Owners
<1>2. ASSUME NEW p \in Owners, hu_init(p) PROVE TypeOK'
  <2> DEFINE dir == Where(processes[p].HU_FILE, processes[p].cwd)
             name == IF files[dir].exists THEN dir ELSE processes[p].HU_FILE
             opened == [files EXCEPT ![dir] = [exists |-> TRUE,
                                               lines |-> <<Line(p, "header")>>]]
  <2>1. processes[p] \in ProcessType
    BY TypeOfProcess
  <2>2. dir \in Dirs /\ processes[p].HU_FILE \in Names
    BY <2>1, ProcessFields, WhereInDirs
  <2>3. name \in Names
    BY <2>2 DEF Names
  <2>4. processes' = [processes EXCEPT ![p] =
          [processes[p] EXCEPT !.state = "running", !.tracked = TRUE, !.preload = FALSE,
                               !.hu_file = name]]
    BY <1>2 DEF hu_init
  <2>5. /\ files' = IF CanOpen(dir) THEN opened ELSE files
        /\ stderr' = stderr \/ stderr' = Append(stderr, Line(p, "unable to open"))
    <3>1. OpenLog(p, dir)
      BY <1>2 DEF hu_init
    <3> HIDE DEF dir
    <3> QED
      BY <3>1 DEF OpenLog
  <2>6. <<Line(p, "header")>> \in Seq(Lines)
    BY OneLine DEF Owners
  <2>7. opened \in [Dirs -> FileType]
    BY <2>2, <2>6, FileWith
  <2> HIDE DEF name, opened
  <2>8. processes' \in [Owners -> ProcessType]
    BY <2>1, <2>3, <2>4, ProcessHuInit, ProcessesKeepType
  <2>9. files' \in [Dirs -> FileType]
    BY <2>5, <2>7, Zenon
  <2>10. stderr' \in Seq(Lines)
    BY <2>5, LineType, MoreLines
  <2>11. UNCHANGED <<inputVars, step, CNT, FOUND, RV, TMP, endVars>>
    BY <1>2 DEF hu_init
  <2> QED
    BY <2>8, <2>9, <2>10, <2>11
       DEF inputVars, endVars, TypeOK, ProcessType, Owners, FileType
<1>3. ASSUME NEW p \in Owners, StartPlain(p) PROVE TypeOK'
  <2> DEFINE started == [processes[p] EXCEPT !.state = "running", !.tracked = FALSE]
  <2>1. started \in ProcessType
    BY TypeOfProcess, ProcessState, ProcessTracked DEF ProcessType
  <2>2. processes' = [processes EXCEPT ![p] = started]
    BY <1>3 DEF StartPlain
  <2> HIDE DEF started
  <2>3. processes' \in [Owners -> ProcessType]
    BY <2>1, <2>2, ProcessesKeepType
  <2> QED
    BY <1>3, <2>3
       DEF StartPlain, inputVars, scriptVars, endVars, TypeOK, ProcessType, Owners
<1>4. ASSUME NEW p \in Owners, exec(p) PROVE TypeOK'
  <2> DEFINE fresh == [processes[p] EXCEPT !.state = "starting", !.tracked = FALSE]
  <2>1. fresh \in ProcessType
    BY TypeOfProcess, ProcessState, ProcessTracked DEF ProcessType
  <2>2. processes' = [processes EXCEPT ![p] = fresh]
    BY <1>4 DEF exec
  <2> HIDE DEF fresh
  <2>3. processes' \in [Owners -> ProcessType]
    BY <2>1, <2>2, ProcessesKeepType
  <2> QED
    BY <1>4, <2>3
       DEF exec, inputVars, scriptVars, endVars, TypeOK, ProcessType, Owners
<1>5. ASSUME NEW p \in Owners, chdir(p) PROVE TypeOK'
  <2>1. [processes[p] EXCEPT !.cwd = "else"] \in ProcessType
    BY TypeOfProcess, ProcessCwd DEF Dirs
  <2>2. processes' \in [Owners -> ProcessType]
    BY <1>5, <2>1, ProcessesKeepType DEF chdir
  <2> QED
    BY <1>5, <2>2
       DEF chdir, inputVars, scriptVars, endVars, TypeOK, ProcessType, Owners
<1>6. ASSUME NEW p \in Owners, Reports(p) PROVE TypeOK'
  <2>1. files' \in [Dirs -> FileType]
    BY <1>6, AppendKeepsType DEF Reports
  <2> QED
    BY <1>6, <2>1 DEF Reports, inputVars, scriptVars, endVars, TypeOK, FileType
<1>7. ASSUME NEW p \in Owners, Killed(p) PROVE TypeOK'
  <2>1. [processes[p] EXCEPT !.state = "ended"] \in ProcessType
    BY TypeOfProcess, ProcessState
  <2>2. processes' \in [Owners -> ProcessType]
    BY <1>7, <2>1, ProcessesKeepType DEF Killed
  <2> QED
    BY <1>7, <2>2
       DEF Killed, inputVars, scriptVars, endVars, TypeOK, ProcessType, Owners
<1>8. ASSUME NEW p \in Owners, NEW code \in {0, 3}, exit(p, code) PROVE TypeOK'
  <2>1. [processes[p] EXCEPT !.state = "ended"] \in ProcessType
    BY TypeOfProcess, ProcessState
  <2>2. processes' \in [Owners -> ProcessType]
    BY <1>8, <2>1, ProcessesKeepType DEF exit
  <2>3. files' = files \/ Append1(p, "summary")
    BY <1>8, Zenon DEF exit
  <2>4. files' \in [Dirs -> FileType]
    BY <2>3, AppendKeepsType
  <2>5. status' \in {0, 3}
    BY <1>8 DEF exit
  <2>6. UNCHANGED <<inputVars, scriptVars>>
    BY <1>8 DEF exit
  <2> QED
    BY <2>2, <2>4, <2>5, <2>6
       DEF inputVars, scriptVars, TypeOK, ProcessType, Owners, FileType
<1> QED
  BY <1>1, <1>2, <1>3, <1>4, <1>5, <1>6, <1>7, <1>8 DEF Program, Owners

\* The variables keep their types.
THEOREM LauncherTypeOK == Spec => []TypeOK
<1>1. TypeOK /\ UNCHANGED vars => TypeOK'
  BY DEF TypeOK, vars, inputVars, scriptVars, endVars
<1>2. TypeOK /\ [Next]_vars => TypeOK'
  BY <1>1, LauncherAssumption, ScriptKeepsType, ProgramKeepsType DEF Next
<1>3. Init => TypeOK
  BY LauncherAssumption, TypeInit
<1> QED
  BY <1>2, <1>3, PTL DEF Spec

-----------------------------------------------------------------------------
(***************************************************************************)
(* The inductive invariant.                                                *)
(***************************************************************************)
\* The two processes.
program == processes["program"]
child == processes["child"]
\* The directory of the file that the script looks into.
Log == Where(LogFile, "home")
Early == step \in {"parse", "setup", "search"}
Cleaned == step = "rmdir" \/ Finished
Shown == step = "cleanup" \/ Cleaned
Summary == Line("program", "summary")
NoLog == Line("program", "unable to open")

\* The program runs between Launch and Await, a child only after it was started.
Stages ==
  /\ FOUND => step \in {"show", "cleanup", "rmdir", "ended"}
  /\ step \in {"search", "running", "show", "cleanup", "rmdir"} => TMP
  /\ Early => program.state = "none" /\ ~exited
  /\ program.state \in {"starting", "running"} => step = "running"
  /\ step \in {"show", "cleanup", "rmdir"} => program.state = "ended"
  /\ program.state = "none" => /\ child.state = "none" /\ program.cwd = "home"
                               /\ ~program.preload /\ ~program.tracked
  /\ child.state = "none" => ~child.preload /\ ~child.tracked
  /\ exited => program.state = "ended" /\ program.tracked

\* Only the program that was launched loads the library, and before anything
\* else it does.
Loading ==
  /\ program.tracked \/ child.tracked \/ exited => situation.preloads
  /\ situation.preloads /\ program.preload =>
       /\ program.state = "starting" /\ program.cwd = "home"
       /\ program.HU_FILE = LogFile /\ child.state = "none"
  /\ situation.preloads => ~child.preload
  /\ program.tracked => program.hu_file \in {Log, LogFile}
  /\ child.tracked => child.hu_file \in {Log, LogFile}
  /\ program.cwd # "tmp" /\ child.cwd # "tmp"

\* The log file is there by hu_init only, unless an old one stays.
Opened ==
  /\ step \in {"parse", "setup"} => /\ ~files["tmp"].exists
                                    /\ files["home"].exists <=> situation.old
  /\ step \in {"search", "running", "show"} =>
       (files[Log].exists <=>
          \/ OldStays
          \/ LogOpens /\ situation.preloads /\ step # "search" /\ ~program.preload)

\* What the script and hu_init say agrees with what happened.
Told ==
  /\ \A dir \in Dirs : ~Has(files[dir].lines, Unable)
  /\ Early \/ step \in {"running", "show"} => ~Has(stderr, Unable)
  /\ Shown /\ ~OldStays => (Has(stderr, Unable) <=> ~(situation.preloads /\ LogOpens))
  /\ program.tracked /\ ~LogOpens => Has(stderr, NoLog)

\* After the log was removed only a child writes one.
Gone ==
  /\ Cleaned =>
       /\ files["tmp"].exists => line.output = "none"
       /\ \A l : Has(files["tmp"].lines, l) => l.process = "child"
  /\ Finished => (TMP <=> files["tmp"].exists)

\* There is nothing to lose when a file is emptied.
Fresh ==
  Early \/ (situation.preloads /\ program.preload) =>
    \A dir \in Dirs, p \in Owners, text \in {"report", "summary"} :
      ~Has(files[dir].lines, Line(p, text))

\* A summary that was written is in the file that is shown, and then shown, unless
\* hu_init has said that there is none.
Kept ==
  exited /\ (line.output = "relative" => program.cwd = "home") /\ ~Has(stderr, NoLog) =>
    /\ step \in {"running", "show"} => Has(files[Log].lines, Summary)
    /\ Shown => Has(Delivered, Summary)

\* The inductive invariant.
IInv == TypeOK /\ Stages /\ Loading /\ Opened /\ Told /\ Gone /\ Fresh /\ Kept

-----------------------------------------------------------------------------
\* No line is in an empty file.
LEMMA HasInNone == \A l : ~Has(<<>>, l)
BY DEF Has

\* What fopen with "w" and one line leave in a file.
LEMMA HasInOne ==
  ASSUME NEW x, NEW l
  PROVE  Has(<<x>>, l) <=> l = x
BY DEF Has

\* An appended line is there, and what was there still is.
LEMMA HasInAppend ==
  ASSUME NEW S, NEW lines \in Seq(S), NEW x \in S, NEW l
  PROVE  Has(Append(lines, x), l) <=> Has(lines, l) \/ l = x
<1> DEFINE longer == Append(lines, x)
<1>1. /\ Len(lines) \in Nat /\ Len(longer) = Len(lines) + 1
      /\ \A i \in 1 .. Len(lines) : longer[i] = lines[i]
      /\ longer[Len(lines) + 1] = x
  OBVIOUS
<1> HIDE DEF longer
<1>2. Has(lines, l) => Has(longer, l)
  BY <1>1 DEF Has
<1>3. l = x => Has(longer, l)
  BY <1>1 DEF Has
<1>4. ASSUME Has(longer, l) PROVE Has(lines, l) \/ l = x
  <2>1. PICK i \in 1 .. Len(longer) : longer[i] = l
    BY <1>4 DEF Has
  <2>2. CASE i = Len(lines) + 1
    BY <1>1, <2>1, <2>2
  <2>3. CASE i \in 1 .. Len(lines)
    BY <1>1, <2>1, <2>3 DEF Has
  <2> QED
    BY <1>1, <2>1, <2>2, <2>3
<1> QED
  BY <1>2, <1>3, <1>4 DEF longer

\* What is in two sequences of lines is in the one after the other.
LEMMA HasInConcat ==
  ASSUME NEW S, NEW lines \in Seq(S), NEW more \in Seq(S), NEW l
  PROVE  Has(lines \o more, l) <=> Has(lines, l) \/ Has(more, l)
<1> DEFINE both == lines \o more
<1>1. /\ Len(lines) \in Nat /\ Len(more) \in Nat /\ Len(both) = Len(lines) + Len(more)
      /\ \A i \in 1 .. Len(lines) : both[i] = lines[i]
      /\ \A i \in 1 .. Len(more) : both[Len(lines) + i] = more[i]
  OBVIOUS
<1> HIDE DEF both
<1>2. Has(lines, l) => Has(both, l)
  BY <1>1 DEF Has
<1>3. ASSUME Has(more, l) PROVE Has(both, l)
  <2>1. PICK i \in 1 .. Len(more) : more[i] = l
    BY <1>3 DEF Has
  <2>2. Len(lines) + i \in 1 .. Len(both) /\ both[Len(lines) + i] = l
    BY <1>1, <2>1
  <2> QED
    BY <2>2 DEF Has
<1>4. ASSUME Has(both, l) PROVE Has(lines, l) \/ Has(more, l)
  <2>1. PICK i \in 1 .. Len(both) : both[i] = l
    BY <1>4 DEF Has
  <2>2. CASE i \in 1 .. Len(lines)
    BY <1>1, <2>1, <2>2 DEF Has
  <2>3. CASE i \notin 1 .. Len(lines)
    <3>1. i - Len(lines) \in 1 .. Len(more)
      BY <1>1, <2>1, <2>3
    <3>2. more[i - Len(lines)] = both[Len(lines) + (i - Len(lines))]
      BY <1>1, <3>1
    <3>3. Len(lines) + (i - Len(lines)) = i
      BY <1>1, <2>1
    <3> QED
      BY <2>1, <3>1, <3>2, <3>3 DEF Has
  <2> QED
    BY <2>2, <2>3
<1> QED
  BY <1>2, <1>3, <1>4 DEF both

\* Appending adds one line to one file, which it may create, and takes nothing away.
LEMMA AppendAdds ==
  ASSUME TypeOK, NEW p \in Owners, NEW text \in {"report", "summary"}, Append1(p, text)
  PROVE  LET at == Where(processes[p].hu_file, processes[p].cwd)
         IN /\ at \in Dirs
            /\ CanOpen(at) => Has(files'[at].lines, Line(p, text))
            /\ \A dir \in Dirs :
                 /\ files[dir].exists => files'[dir].exists
                 /\ files'[dir].exists => files[dir].exists \/ (dir = at /\ CanOpen(at))
                 /\ \A l : Has(files[dir].lines, l) => Has(files'[dir].lines, l)
                 /\ \A l : Has(files'[dir].lines, l)
                             => Has(files[dir].lines, l) \/ l = Line(p, text)
<1> DEFINE at == Where(processes[p].hu_file, processes[p].cwd)
           added == Append(files[at].lines, Line(p, text))
<1>1. processes[p] \in ProcessType /\ files \in [Dirs -> FileType]
  BY DEF TypeOK, Owners, ProcessType, FileType
<1>2. at \in Dirs
  BY <1>1, ProcessFields, WhereInDirs
<1>3. \A l : Has(added, l) <=> Has(files[at].lines, l) \/ l = Line(p, text)
  <2>1. files[at].lines \in Seq(Lines) /\ Line(p, text) \in Lines
    BY <1>1, <1>2, LineType DEF FileType
  <2> QED
    BY <2>1, HasInAppend
<1>4. files' = IF CanOpen(at)
               THEN [files EXCEPT ![at] = [exists |-> TRUE, lines |-> added]]
               ELSE files
  BY <1>1, <1>2 DEF Append1
<1> HIDE DEF at, added
<1>5. CASE ~CanOpen(at)
  <2>1. files' = files
    BY <1>4, <1>5
  <2> QED
    BY <1>2, <1>5, <2>1 DEF at
<1>6. CASE CanOpen(at)
  <2>1. files' = [files EXCEPT ![at] = [exists |-> TRUE, lines |-> added]]
    BY <1>4, <1>6
  <2>2. files'[at].lines = added /\ files'[at].exists
    BY <1>1, <1>2, <2>1
  <2>3. \A dir \in Dirs : dir # at => files'[dir] = files[dir]
    BY <1>1, <1>2, <2>1
  <2> QED
    BY <1>2, <1>3, <1>6, <2>2, <2>3, Zenon DEF at
<1> QED
  BY <1>5, <1>6

\* What a process writes is neither the script's line nor another's.
LEMMA LinesDiffer ==
  ASSUME NEW p \in Owners, NEW q \in Owners,
         NEW text \in {"header", "report", "summary", "unable to open"}, NEW other
  PROVE  /\ Line(p, text) # Unable
         /\ Line(p, text) = Line(q, other) => p = q /\ text = other
BY DEF Line, Unable, Owners

-----------------------------------------------------------------------------
\* The invariant holds when the script is called.
LEMMA InvariantAtStart == LauncherAssumption /\ Init => IInv
<1> SUFFICES ASSUME LauncherAssumption, Init PROVE IInv
  OBVIOUS
<1>1. TypeOK
  BY TypeInit
<1>2. /\ processes["program"] = NoProcess /\ processes["child"] = NoProcess
      /\ step = "parse" /\ FOUND = FALSE /\ exited = FALSE
  BY DEF Init
<1>3. ~files["tmp"].exists /\ (files["home"].exists <=> situation.old) /\ stderr = <<>>
  BY DEF Init, Dirs, NoFile, LauncherAssumption, SituationType
<1>4. \A dir \in Dirs : files[dir].lines = <<>> \/ files[dir].lines = <<Old>>
  BY DEF Init, NoFile
<1>5. /\ Old # Unable
      /\ \A p \in Owners, text \in {"report", "summary"} : Old # Line(p, text)
  BY DEF Old, Unable, Line, Owners
<1>6. \A dir \in Dirs : \A l : Has(files[dir].lines, l) => l = Old
  <2> TAKE dir \in Dirs
  <2> TAKE l
  <2> QED
    BY <1>4, HasInNone, HasInOne
<1>7. Stages
  BY <1>2 DEF Stages, program, child, Early, NoProcess
<1>8. Loading
  BY <1>2 DEF Loading, program, child, NoProcess
<1>9. Opened
  BY <1>2, <1>3 DEF Opened
<1>10. Told
  BY <1>2, <1>3, <1>5, <1>6, HasInNone DEF Told, Shown, Cleaned, Finished, program, NoProcess
<1>11. Gone /\ Kept
  BY <1>2 DEF Gone, Kept, Cleaned, Finished
<1>12. Fresh
  BY <1>5, <1>6 DEF Fresh
<1> QED
  BY <1>1, <1>7, <1>8, <1>9, <1>10, <1>11, <1>12 DEF IInv

\* The script's steps keep the invariant.
LEMMA ScriptKeepsInvariant == LauncherAssumption /\ IInv /\ Script => IInv'
<1> SUFFICES ASSUME LauncherAssumption, IInv, Script PROVE IInv'
  OBVIOUS
<1> USE DEF IInv
<1>1. TypeOK'
  BY ScriptKeepsType
<1>2. UNCHANGED <<line, situation, exited>>
  BY DEF Script, Parse, Setup, TryNext, Launch, NotFound, Await, Show, Unlink, Rmdir,
         inputVars, endVars
<1>3. /\ LogFile' = LogFile /\ Log' = Log /\ Log \in Dirs
      /\ line.output \in {"none", "home", "relative"}
      /\ line.output = "none" <=> Log = "tmp"
      /\ line.output = "none" => LogFile = "tmp"
      /\ line.output # "none" => Log = Where(line.output, "home") /\ Log = "home"
      /\ OldStays' = OldStays /\ LogOpens' = LogOpens
  BY <1>2, LogIsADirectory DEF LogFile, Log, Where, OldStays, LogOpens
<1>4. ASSUME step = "parse", step' \in {"setup", "ended"}, ~FOUND',
             UNCHANGED <<TMP, stderr, files, processes>>
      PROVE  IInv'
  <2>1. Stages'
    BY <1>2, <1>4 DEF Stages, Early, program, child
  <2>2. Loading'
    BY <1>2, <1>3, <1>4 DEF Loading, program, child
  <2>3. Opened' /\ Told' /\ Gone' /\ Fresh'
    BY <1>2, <1>3, <1>4
       DEF Opened, Told, Gone, Fresh, Early, Shown, Cleaned, Finished, program
  <2>4. Kept'
    BY <1>2, <1>4 DEF Kept, Stages, Early
  <2> QED
    BY <1>1, <2>1, <2>2, <2>3, <2>4
<1>5. CASE Parse
  BY <1>4, <1>5 DEF Parse, Stages
<1>6. CASE Setup
  <2>1. /\ step = "setup" /\ step' = "search" /\ TMP' /\ ~FOUND'
        /\ UNCHANGED <<stderr, processes>>
    BY <1>6 DEF Setup, Stages
  <2>2. /\ files'[Log].exists <=> OldStays
        /\ \A dir \in Dirs : files'[dir] = files[dir] \/ files'[dir] = NoFile
    BY <1>3, <1>6, PartsOfType DEF Setup, Opened, NoFile, OldStays, Dirs
  <2>3. \A dir \in Dirs : \A l : Has(files'[dir].lines, l) => Has(files[dir].lines, l)
    <3> TAKE dir \in Dirs
    <3> TAKE l
    <3> QED
      BY <2>2, HasInNone DEF NoFile
  <2>4. Stages' /\ Loading'
    BY <1>2, <1>3, <2>1 DEF Stages, Loading, Early, program, child
  <2>5. Opened' /\ Gone'
    BY <1>3, <1>2, <2>1, <2>2 DEF Opened, Gone, Cleaned, Finished, Stages, Early, program
  <2>6. Told' /\ Fresh'
    BY <1>3, <2>1, <2>3 DEF Told, Fresh, Shown, Cleaned, Finished, Early, program
  <2>7. Kept'
    BY <1>2, <2>1 DEF Kept, Stages, Early
  <2> QED
    BY <1>1, <2>4, <2>5, <2>6, <2>7
<1>7. CASE TryNext
  <2>1. UNCHANGED <<step, FOUND, TMP, stderr, files, processes>>
    BY <1>7 DEF TryNext
  <2>2. Stages' /\ Loading'
    BY <1>2, <1>3, <2>1 DEF Stages, Loading, Early, program, child
  <2>3. Opened' /\ Told' /\ Gone' /\ Fresh'
    BY <1>2, <1>3, <2>1
       DEF Opened, Told, Gone, Fresh, Early, Shown, Cleaned, Finished, program
  <2>4. Kept'
    BY <1>2, <1>3, <2>1 DEF Kept, Shown, Cleaned, Finished, Delivered, program
  <2> QED
    BY <1>1, <2>2, <2>3, <2>4
<1>8. CASE Launch
  <2>1. /\ step = "search" /\ step' = "running" /\ UNCHANGED <<FOUND, TMP, stderr, files>>
    BY <1>8 DEF Launch, Searching
  <2>2. /\ program'.state = "starting" /\ program'.preload = TRUE
        /\ program'.HU_FILE = LogFile /\ child' = child
        /\ program'.cwd = program.cwd /\ program'.tracked = program.tracked
        /\ program'.hu_file = program.hu_file
    BY <1>8, PartsOfType DEF Launch, program, child, Owners, ProcessType
  <2>3. program.state = "none" /\ child.state = "none" /\ ~exited
    BY <2>1 DEF Stages, Early
  <2>4. Stages'
    BY <1>2, <2>1, <2>2, <2>3 DEF Stages, Early
  <2>5. Loading'
    BY <1>2, <1>3, <2>1, <2>2, <2>3 DEF Loading, Stages
  <2>6. Opened'
    BY <1>2, <1>3, <2>1, <2>2 DEF Opened
  <2>7. Told' /\ Gone'
    BY <1>3, <2>1, <2>2, <2>3 DEF Told, Gone, Stages, Early, Shown, Cleaned, Finished
  <2>8. Fresh'
    BY <2>1 DEF Fresh, Early
  <2>9. Kept'
    BY <1>2, <2>3 DEF Kept
  <2> QED
    BY <1>1, <2>4, <2>5, <2>6, <2>7, <2>8, <2>9
<1>9. CASE NotFound
  <2>1. /\ step = "search" /\ step' = "ended" /\ ~FOUND'
        /\ UNCHANGED <<TMP, files, processes>>
    BY <1>9 DEF NotFound, Stages
  <2>2. ~exited /\ ~program.tracked
    BY <2>1 DEF Stages, Early
  <2>3. Stages' /\ Loading'
    BY <1>2, <1>3, <2>1 DEF Stages, Loading, Early, program, child
  <2>4. Opened' /\ Gone' /\ Fresh'
    BY <1>2, <1>3, <2>1
       DEF Opened, Gone, Fresh, Early, Cleaned, Finished, program
  <2>5. Told' /\ Kept'
    BY <1>2, <2>1, <2>2 DEF Told, Kept, Early, Shown, Cleaned, Finished, program
  <2> QED
    BY <1>1, <2>3, <2>4, <2>5
<1>10. CASE Await
  <2>1. /\ step = "running" /\ step' = "show" /\ program.state = "ended"
        /\ UNCHANGED <<TMP, stderr, files, processes>>
    BY <1>10 DEF Await, program
  <2>2. Stages' /\ Loading'
    BY <1>2, <1>3, <2>1 DEF Stages, Loading, Early, program, child
  <2>3. Opened' /\ Told' /\ Gone' /\ Fresh'
    BY <1>2, <1>3, <2>1
       DEF Opened, Told, Gone, Fresh, Early, Shown, Cleaned, Finished, program
  <2>4. Kept'
    BY <1>2, <1>3, <2>1 DEF Kept, Shown, Cleaned, Finished, program
  <2> QED
    BY <1>1, <2>2, <2>3, <2>4
<1>11. CASE Show
  <2>1. /\ step = "show" /\ step' = "cleanup" /\ UNCHANGED <<FOUND, TMP, files, processes>>
    BY <1>11 DEF Show
  <2>2. /\ files[Log].exists <=> OldStays \/ (situation.preloads /\ LogOpens)
        /\ OldStays => line.output # "none"
        /\ ~Has(stderr, Unable)
    BY <2>1 DEF Opened, Loading, Stages, Told, OldStays
  <2>3. /\ ~files[Log].exists => stderr' = Append(stderr, Unable)
        /\ files[Log].exists /\ line.output = "none" => stderr' = stderr \o files[Log].lines
        /\ files[Log].exists /\ line.output # "none" => stderr' = stderr
    BY <1>11 DEF Show, Log
  <2>4. /\ stderr \in Seq(Lines) /\ files[Log].lines \in Seq(Lines) /\ Unable \in Lines
    BY <1>3, PartsOfType, OneLine DEF FileType, Unable
  <2>5. \A l : /\ Has(Append(stderr, Unable), l) <=> Has(stderr, l) \/ l = Unable
               /\ Has(stderr \o files[Log].lines, l)
                    <=> Has(stderr, l) \/ Has(files[Log].lines, l)
    BY <2>4, HasInAppend, HasInConcat
  <2>6. /\ Has(stderr', Unable) <=> ~files[Log].exists
        /\ \A l : Has(stderr, l) => Has(stderr', l)
    <3>1. CASE ~files[Log].exists
      BY <2>3, <2>5, <3>1
    <3>2. CASE files[Log].exists /\ line.output = "none"
      BY <1>3, <2>2, <2>3, <2>5, <3>2 DEF Told
    <3>3. CASE files[Log].exists /\ line.output # "none"
      BY <2>2, <2>3, <3>3
    <3> QED
      BY <3>1, <3>2, <3>3
  <2>7. Stages' /\ Loading'
    BY <1>2, <1>3, <2>1 DEF Stages, Loading, Early, program, child
  <2>8. Opened' /\ Gone' /\ Fresh'
    BY <1>2, <1>3, <2>1
       DEF Opened, Gone, Fresh, Early, Shown, Cleaned, Finished, program
  <2>9. Told'
    BY <1>2, <1>3, <2>1, <2>2, <2>6 DEF Told, Early, program, NoLog
  <2>10. Kept'
    <3>1. SUFFICES ASSUME exited', (line.output = "relative" => program.cwd = "home")',
                          ~Has(stderr', NoLog)
                   PROVE  Has(Delivered, Summary)'
      BY <2>1 DEF Kept, NoLog
    <3>2. Has(files[Log].lines, Summary)
      BY <1>2, <2>1, <2>6, <3>1 DEF Kept, program, NoLog
    <3>3. CASE line.output = "none"
      <4>1. files[Log].exists
        BY <1>2, <2>2, <2>6, <3>1 DEF Loading, Stages, Told
      <4>2. stderr' = stderr \o files[Log].lines /\ Delivered' = stderr'
        BY <1>2, <2>3, <3>3, <4>1 DEF Delivered
      <4>3. Has(stderr', Summary)
        BY <2>5, <3>2, <4>2
      <4> QED
        BY <4>2, <4>3 DEF Summary
    <3>4. CASE line.output # "none"
      <4>1. Delivered' = files[Log].lines
        BY <1>2, <1>3, <2>1, <3>4 DEF Delivered, Where
      <4> QED
        BY <3>2, <4>1 DEF Summary
    <3> QED
      BY <3>3, <3>4
  <2> QED
    BY <1>1, <2>7, <2>8, <2>9, <2>10
<1>12. CASE Unlink
  <2>1. /\ step = "cleanup" /\ step' = "rmdir"
        /\ UNCHANGED <<FOUND, TMP, stderr, processes>>
    BY <1>12 DEF Unlink
  <2>2. /\ files'["tmp"] = NoFile
        /\ \A dir \in Dirs : files'[dir] = files[dir] \/ files'[dir] = NoFile
        /\ files'["home"] = files["home"]
    BY <1>12, PartsOfType DEF Unlink, Dirs
  <2>3. \A dir \in Dirs : \A l : Has(files'[dir].lines, l) => Has(files[dir].lines, l)
    <3> TAKE dir \in Dirs
    <3> TAKE l
    <3> QED
      BY <2>2, HasInNone DEF NoFile
  <2>4. Stages' /\ Loading'
    BY <1>2, <1>3, <2>1 DEF Stages, Loading, Early, program, child
  <2>5. Opened' /\ Gone'
    BY <1>3, <1>2, <2>1, <2>2, HasInNone DEF Opened, Gone, Cleaned, Finished, NoFile
  <2>6. Told'
    BY <1>2, <1>3, <2>1, <2>3 DEF Told, Early, Shown, Cleaned, Finished, program, NoLog
  <2>7. Fresh'
    BY <1>2, <2>1, <2>3 DEF Fresh, Early, Loading, Stages, program
  <2>8. Delivered' = Delivered
    <3>1. CASE line.output = "none"
      BY <1>2, <2>1, <3>1 DEF Delivered
    <3>2. CASE line.output # "none"
      BY <1>2, <1>3, <2>2, <3>2 DEF Delivered, Where
    <3> QED
      BY <3>1, <3>2
  <2>9. Kept'
    BY <1>2, <2>1, <2>8 DEF Kept, Shown, Cleaned, program, Summary, NoLog
  <2> QED
    BY <1>1, <2>4, <2>5, <2>6, <2>7, <2>9
<1>13. CASE Rmdir
  <2>1. /\ step = "rmdir" /\ step' = "ended" /\ TMP' = files["tmp"].exists
        /\ UNCHANGED <<FOUND, stderr, files, processes>>
    BY <1>13 DEF Rmdir
  <2>2. Stages' /\ Loading'
    BY <1>2, <1>3, <2>1 DEF Stages, Loading, Early, program, child
  <2>3. Opened' /\ Told' /\ Gone'
    BY <1>2, <1>3, <2>1
       DEF Opened, Told, Gone, Early, Shown, Cleaned, Finished, program, NoLog
  <2>4. Fresh'
    BY <1>2, <2>1 DEF Fresh, Early, Loading, Stages, program
  <2>5. Delivered' = Delivered
    BY <1>2, <2>1 DEF Delivered
  <2>6. Kept'
    BY <1>2, <2>1, <2>5 DEF Kept, Shown, Cleaned, program, Summary, NoLog
  <2> QED
    BY <1>1, <2>2, <2>3, <2>4, <2>6
<1> QED
  BY <1>5, <1>6, <1>7, <1>8, <1>9, <1>10, <1>11, <1>12, <1>13 DEF Script

\* A step of a process that leaves the script, the files and what counts as
\* loaded as they are.
LEMMA QuietStep ==
  ASSUME LauncherAssumption, IInv, TypeOK', Stages', Loading',
         UNCHANGED <<inputVars, scriptVars, files>>, exited' => exited,
         program'.preload => program.preload \/ ~situation.preloads,
         program.preload => program'.preload,
         program'.tracked => program.tracked,
         exited => program'.cwd = program.cwd
  PROVE  IInv'
<1> USE DEF IInv
<1>1. UNCHANGED <<line, situation, step, FOUND, TMP, stderr, files>>
  BY DEF inputVars, scriptVars
<1>2. /\ LogFile' = LogFile /\ Log' = Log /\ Delivered' = Delivered
      /\ OldStays' = OldStays /\ LogOpens' = LogOpens
  BY <1>1 DEF LogFile, Log, Where, Delivered, OldStays, LogOpens
<1>3. Opened' /\ Told' /\ Gone' /\ Fresh'
  BY <1>1, <1>2 DEF Opened, Told, Gone, Fresh, Early, Shown, Cleaned, Finished, NoLog
<1>4. Kept'
  BY <1>1, <1>2 DEF Kept, Shown, Cleaned, Finished, Summary, NoLog
<1> QED
  BY <1>3, <1>4

\* Whether the log can be opened while the program runs, its library loaded.
LEMMA OpensWhileRunning ==
  ASSUME LauncherAssumption, IInv, step = "running", situation.preloads
  PROVE  CanOpen(Log) <=> LogOpens
<1>1. /\ Log = Where(LogFile, "home") /\ TMP
      /\ files[Log].exists => OldStays \/ LogOpens
      /\ OldStays => files[Log].exists
  BY DEF IInv, Opened, Stages, Log
<1> QED
  BY <1>1 DEF CanOpen, LogOpens

\* Lines of the program or its child are added to one file.
LEMMA NoisyStep ==
  ASSUME LauncherAssumption, IInv, TypeOK', Stages', Loading',
         UNCHANGED <<inputVars, scriptVars>>,
         NEW p \in Owners, NEW text \in {"report", "summary"},
         Running(p), processes[p].tracked, Append1(p, text),
         program'.preload = program.preload, program'.cwd = program.cwd,
         program'.tracked = program.tracked,
         exited' => exited \/ (p = "program" /\ text = "summary")
  PROVE  IInv'
<1> USE DEF IInv
<1> DEFINE at == Where(processes[p].hu_file, processes[p].cwd)
<1>1. UNCHANGED <<line, situation, step, FOUND, TMP, stderr>>
  BY DEF inputVars, scriptVars
<1>2. /\ LogFile' = LogFile /\ Log' = Log /\ Log \in Dirs
      /\ line.output \in {"none", "home", "relative"}
      /\ LogFile = IF line.output = "none" THEN "tmp" ELSE line.output
      /\ Log = Where(LogFile, "home")
      /\ OldStays' = OldStays /\ LogOpens' = LogOpens
  BY <1>1, LogIsADirectory DEF LogFile, Log, Where, OldStays, LogOpens
<1>3. situation.preloads /\ processes[p].hu_file \in {Log, LogFile}
  BY DEF Loading, program, child, Owners
<1>4. /\ at \in Dirs
      /\ CanOpen(at) => Has(files'[at].lines, Line(p, text))
      /\ \A dir \in Dirs :
           /\ files[dir].exists => files'[dir].exists
           /\ files'[dir].exists => files[dir].exists \/ (dir = at /\ CanOpen(at))
           /\ \A l : Has(files[dir].lines, l) => Has(files'[dir].lines, l)
           /\ \A l : Has(files'[dir].lines, l)
                       => Has(files[dir].lines, l) \/ l = Line(p, text)
  BY AppendAdds, Zenon
<1>5. ~Early /\ ~program.preload
  BY <1>3 DEF Stages, Loading, Early, Running, program, child, Owners
<1>6. Opened'
  <2>1. CASE step \in {"running", "show"}
    <3>1. CanOpen(Log) => files[Log].exists \/ LogOpens
      BY DEF CanOpen, LogOpens, Log
    <3>2. files'[Log].exists <=> OldStays \/ LogOpens
      BY <1>2, <1>3, <1>4, <1>5, <2>1, <3>1 DEF Opened
    <3> QED
      BY <1>1, <1>2, <1>3, <1>5, <2>1, <3>2 DEF Opened
  <2>2. CASE step \notin {"running", "show"}
    BY <1>1, <1>5, <2>2 DEF Opened, Early
  <2> QED
    BY <2>1, <2>2
<1>7. Told'
  <2>1. Line(p, text) # Unable
    BY LinesDiffer
  <2> QED
    BY <1>1, <1>2, <1>4, <2>1 DEF Told, Early, Shown, Cleaned, Finished, NoLog
<1>8. Gone'
  <2>1. CASE Cleaned
    <3>1. p = "child"
      BY <2>1 DEF Cleaned, Finished, Stages, Running, program, Owners
    <3>2. Line(p, text).process = "child"
      BY <3>1 DEF Line
    <3>3. at = "tmp" => line.output = "none"
      BY <1>2, <1>3 DEF Loading, Where, program, child, Owners
    <3>4. Finished /\ files'["tmp"].exists => files["tmp"].exists
      BY <1>4 DEF Gone, CanOpen, Dirs
    <3> HIDE DEF at
    <3> QED
      BY <1>1, <1>4, <2>1, <3>2, <3>3, <3>4 DEF Gone, Cleaned, Finished, Dirs
  <2>2. CASE ~Cleaned
    BY <1>1, <2>2 DEF Gone, Cleaned, Finished
  <2> QED
    BY <2>1, <2>2
<1>9. Fresh'
  BY <1>1, <1>5 DEF Fresh, Early
<1>10. ASSUME exited', line.output = "relative" => program.cwd = "home",
              ~Has(stderr, NoLog)
       PROVE  /\ step \in {"running", "show"} => Has(files'[Log].lines, Summary)
              /\ Shown => Has(Delivered', Summary)
  <2>1. CASE exited
    <3>1. \/ Delivered = stderr /\ Delivered' = stderr
          \/ \E dir \in Dirs : /\ Delivered = files[dir].lines
                                /\ Delivered' = files'[dir].lines
      BY <1>1, <1>2 DEF Delivered, Where, Dirs
    <3>2. Has(Delivered, Summary) => Has(Delivered', Summary)
      BY <1>4, <3>1
    <3> QED
      BY <1>2, <1>4, <1>10, <2>1, <3>2 DEF Kept
  <2>2. CASE ~exited
    <3>1. p = "program" /\ text = "summary"
      BY <1>10, <2>2
    <3>2. program.state = "running" /\ step = "running"
      BY <3>1 DEF Running, Stages, program
    <3>3. at = Log
      BY <1>2, <1>3, <1>10, <3>1 DEF program, Where
    <3>4. LogOpens
      BY <1>10, <3>1 DEF Told, program
    <3>5. CanOpen(at)
      BY <1>3, <3>2, <3>3, <3>4, OpensWhileRunning
    <3> HIDE DEF at
    <3> QED
      BY <1>4, <3>1, <3>2, <3>3, <3>5 DEF Shown, Cleaned, Finished, Summary
  <2> QED
    BY <2>1, <2>2
<1>11. Kept'
  BY <1>1, <1>2, <1>10 DEF Kept, Shown, Cleaned, Finished, Summary, NoLog
<1> QED
  BY <1>6, <1>7, <1>8, <1>9, <1>11

\* What a step that changes one process does to the two.
LEMMA OtherProcessStays ==
  ASSUME TypeOK, NEW p \in Owners, NEW process,
         processes' = [processes EXCEPT ![p] = process]
  PROVE  /\ p = "program" => program' = process /\ child' = child
         /\ p = "child" => child' = process /\ program' = program
BY DEF TypeOK, program, child, Owners

\* What Killed and exit do to the processes.
Ended(p) == processes' = [processes EXCEPT ![p].state = "ended"]

\* A process that ends keeps the rest of its state.
LEMMA EndOfProcess ==
  ASSUME LauncherAssumption, IInv, NEW p \in Owners, Running(p), Ended(p),
         UNCHANGED <<inputVars, scriptVars>>,
         exited' => exited \/ (p = "program" /\ processes[p].tracked)
  PROVE  /\ Stages' /\ Loading'
         /\ program'.preload = program.preload /\ program'.cwd = program.cwd
         /\ program'.tracked = program.tracked
<1> USE DEF IInv
<1> DEFINE process == [processes[p] EXCEPT !.state = "ended"]
<1>1. processes' = [processes EXCEPT ![p] = process] /\ processes[p] \in ProcessType
  BY TypeOfProcess DEF Ended
<1>2. /\ process.state = "ended" /\ process.tracked = processes[p].tracked
      /\ process.preload = processes[p].preload /\ process.cwd = processes[p].cwd
      /\ process.hu_file = processes[p].hu_file
  BY <1>1 DEF ProcessType
<1> HIDE DEF process
<1>3. /\ p = "program" => program' = process /\ child' = child
      /\ p = "child" => child' = process /\ program' = program
  BY <1>1, OtherProcessStays
<1>4. /\ UNCHANGED <<line, situation, step, FOUND, TMP>>
      /\ LogFile' = LogFile /\ Log' = Log
  BY DEF inputVars, scriptVars, LogFile, Log, Where
<1>5. Stages'
  BY <1>2, <1>3, <1>4 DEF Stages, Early, Running, program, child, Owners
<1>6. Loading'
  BY <1>2, <1>3, <1>4 DEF Loading, Running, program, child, Owners
<1> QED
  BY <1>2, <1>3, <1>5, <1>6 DEF program, Owners

\* The steps of the program and its child keep the invariant.
LEMMA ProgramKeepsInvariant == LauncherAssumption /\ IInv /\ Program => IInv'
<1> SUFFICES ASSUME LauncherAssumption, IInv, Program PROVE IInv'
  OBVIOUS
<1> USE DEF IInv
<1>1. TypeOK'
  BY ProgramKeepsType
<1>2. program \in ProcessType /\ child \in ProcessType
  BY TypeOfProcess DEF program, child, Owners
<1>3. ASSUME UNCHANGED inputVars
      PROVE  /\ UNCHANGED <<line, situation>>
             /\ LogFile' = LogFile /\ Log' = Log
             /\ OldStays' = OldStays /\ LogOpens' = LogOpens
  BY <1>3 DEF inputVars, LogFile, Log, Where, OldStays, LogOpens
<1>4. CASE fork
  <2>1. /\ program.state = "running" /\ child.state = "none"
        /\ program' = program /\ child' = program
        /\ UNCHANGED <<inputVars, scriptVars, files, endVars>>
    BY <1>4, PartsOfType DEF fork, Running, program, child, Owners
  <2>2. Stages'
    BY <1>2, <2>1 DEF Stages, Early, scriptVars, endVars, ProcessType
  <2>3. Loading'
    BY <1>2, <1>3, <2>1 DEF Loading, scriptVars, endVars, ProcessType
  <2> QED
    BY <1>1, <2>1, <2>2, <2>3, QuietStep DEF endVars
<1>5. ASSUME NEW p \in Owners, hu_init(p) PROVE IInv'
  <2> DEFINE dir == Where(processes[p].HU_FILE, processes[p].cwd)
             name == IF files[dir].exists THEN dir ELSE processes[p].HU_FILE
             process == [processes[p] EXCEPT !.state = "running", !.tracked = TRUE,
                                             !.preload = FALSE, !.hu_file = name]
  <2>1. /\ processes[p].state = "starting" /\ processes[p].preload /\ situation.preloads
        /\ processes' = [processes EXCEPT ![p] = process]
        /\ UNCHANGED <<inputVars, step, CNT, FOUND, RV, TMP, endVars>>
        /\ OpenLog(p, dir)
    BY <1>5 DEF hu_init
  <2>2. p = "program"
    BY <2>1 DEF Loading, child, Owners
  <2>3. /\ program.state = "starting" /\ program.preload /\ program.cwd = "home"
        /\ program.HU_FILE = LogFile /\ child.state = "none" /\ step = "running" /\ TMP
        /\ dir = Log /\ Log \in Dirs
    BY <2>1, <2>2, LogIsADirectory DEF Loading, Stages, program, Log
  <2>4. CanOpen(Log) <=> LogOpens
    BY <2>1, <2>3, OpensWhileRunning
  <2>5. /\ program'.state = "running" /\ program'.preload = FALSE
        /\ program'.tracked = TRUE /\ program'.cwd = program.cwd
        /\ program'.hu_file = name /\ child' = child
    <3> HIDE DEF name
    <3>1. program' = process /\ child' = child
      BY <2>1, <2>2, OtherProcessStays DEF program
    <3> QED
      BY <1>2, <2>2, <3>1 DEF program, ProcessType
  <2>6. name \in {Log, LogFile}
    BY <2>2, <2>3 DEF program
  <2>7. /\ LogOpens => /\ files'[Log].exists /\ files'[Log].lines = <<Line(p, "header")>>
                       /\ \A d \in Dirs : d # Log => files'[d] = files[d]
                       /\ stderr' = stderr
        /\ ~LogOpens => /\ files' = files
                        /\ stderr' = Append(stderr, Line(p, "unable to open"))
    <3>1. OpenLog(p, Log)
      BY <2>1, <2>3
    <3>2. CASE LogOpens
      <4>1. /\ files' = [files EXCEPT ![Log] = [exists |-> TRUE,
                                               lines |-> <<Line(p, "header")>>]]
            /\ stderr' = stderr
        BY <2>4, <3>1, <3>2 DEF OpenLog
      <4> QED
        BY <2>3, <3>2, <4>1, PartsOfType
    <3>3. CASE ~LogOpens
      BY <2>4, <3>1, <3>3 DEF OpenLog
    <3> QED
      BY <3>2, <3>3
  <2> HIDE DEF dir, name, process
  <2>8. \A d \in Dirs : \A l : Has(files'[d].lines, l)
                             => Has(files[d].lines, l) \/ l = Line(p, "header")
    <3> TAKE d \in Dirs
    <3> TAKE l
    <3>1. CASE LogOpens /\ d = Log
      <4>1. files'[d].lines = <<Line(p, "header")>>
        BY <2>7, <3>1
      <4>2. Has(<<Line(p, "header")>>, l) => l = Line(p, "header")
        BY HasInOne
      <4> QED
        BY <4>1, <4>2
    <3>2. CASE ~(LogOpens /\ d = Log)
      BY <2>7, <3>2, Zenon
    <3> QED
      BY <3>1, <3>2
  <2>9. /\ \A l : Has(stderr, l) => Has(stderr', l)
        /\ \A l : Has(stderr', l) => Has(stderr, l) \/ l = Line(p, "unable to open")
        /\ ~LogOpens => Has(stderr', NoLog)
    <3>1. Line(p, "unable to open") \in Lines /\ stderr \in Seq(Lines)
      BY LineType, PartsOfType
    <3>2. \A l : Has(Append(stderr, Line(p, "unable to open")), l)
                  <=> Has(stderr, l) \/ l = Line(p, "unable to open")
      BY <3>1, HasInAppend
    <3> QED
      BY <2>2, <2>7, <3>2 DEF NoLog
  <2>10. /\ UNCHANGED <<line, situation, step, FOUND, TMP, exited>>
         /\ LogFile' = LogFile /\ Log' = Log
         /\ OldStays' = OldStays /\ LogOpens' = LogOpens
    BY <1>3, <2>1 DEF inputVars, endVars
  <2>11. Stages'
    BY <2>3, <2>5, <2>10 DEF Stages, Early
  <2>12. Loading'
    BY <2>1, <2>3, <2>5, <2>6, <2>10 DEF Loading
  <2>13. Opened'
    BY <2>1, <2>3, <2>5, <2>7, <2>10 DEF Opened
  <2>14. Told'
    BY <2>3, <2>8, <2>9, <2>10, LinesDiffer
       DEF Told, Early, Shown, Cleaned, Finished, NoLog
  <2>15. Gone'
    BY <2>3, <2>10 DEF Gone, Cleaned, Finished
  <2>16. Fresh'
    <3>1. \A q \in Owners, text \in {"report", "summary"} :
            Line(q, text) # Line(p, "header")
      BY LinesDiffer
    <3> QED
      BY <2>1, <2>3, <2>8, <2>10, <3>1 DEF Fresh, Early
  <2>17. Kept'
    BY <2>3, <2>10 DEF Kept, Stages
  <2> QED
    BY <1>1, <2>11, <2>12, <2>13, <2>14, <2>15, <2>16, <2>17
<1>6. ASSUME NEW p \in Owners, StartPlain(p) PROVE IInv'
  <2> DEFINE process == [processes[p] EXCEPT !.state = "running", !.tracked = FALSE]
  <2>1. /\ processes[p].state = "starting"
        /\ ~processes[p].preload \/ ~situation.preloads
        /\ processes' = [processes EXCEPT ![p] = process]
        /\ UNCHANGED <<inputVars, scriptVars, files, endVars>>
    BY <1>6 DEF StartPlain
  <2>2. processes[p] \in ProcessType
    BY TypeOfProcess
  <2>3. /\ process.state = "running" /\ process.tracked = FALSE
        /\ process.preload = processes[p].preload
        /\ process.cwd = processes[p].cwd
    BY <2>2 DEF ProcessType
  <2> HIDE DEF process
  <2>4. /\ p = "program" => program' = process /\ child' = child
        /\ p = "child" => child' = process /\ program' = program
    BY <2>1, OtherProcessStays
  <2>5. /\ UNCHANGED <<line, situation, step, FOUND, TMP, files, exited>>
        /\ LogFile' = LogFile /\ Log' = Log
    BY <1>3, <2>1 DEF inputVars, scriptVars, endVars
  <2>6. Stages'
    BY <2>1, <2>3, <2>4, <2>5 DEF Stages, Early, program, child, Owners
  <2>7. Loading'
    BY <2>1, <2>3, <2>4, <2>5 DEF Loading, program, child, Owners
  <2>8. /\ program'.preload = program.preload /\ program'.cwd = program.cwd
        /\ program'.tracked => program.tracked
    BY <2>3, <2>4 DEF program, Owners
  <2> QED
    BY <1>1, <2>1, <2>5, <2>6, <2>7, <2>8, QuietStep DEF endVars
<1>7. ASSUME NEW p \in Owners, exec(p) PROVE IInv'
  <2> DEFINE process == [processes[p] EXCEPT !.state = "starting", !.tracked = FALSE]
  <2>1. /\ processes[p].state = "running"
        /\ processes' = [processes EXCEPT ![p] = process]
        /\ UNCHANGED <<inputVars, scriptVars, files, endVars>>
    BY <1>7 DEF exec, Running
  <2>2. processes[p] \in ProcessType
    BY TypeOfProcess
  <2>3. /\ process.state = "starting" /\ process.tracked = FALSE
        /\ process.preload = processes[p].preload
        /\ process.cwd = processes[p].cwd
    BY <2>2 DEF ProcessType
  <2> HIDE DEF process
  <2>4. /\ p = "program" => program' = process /\ child' = child
        /\ p = "child" => child' = process /\ program' = program
    BY <2>1, OtherProcessStays
  <2>5. /\ UNCHANGED <<line, situation, step, FOUND, TMP, files, exited>>
        /\ LogFile' = LogFile /\ Log' = Log
    BY <1>3, <2>1 DEF inputVars, scriptVars, endVars
  <2>6. Stages'
    BY <2>1, <2>3, <2>4, <2>5 DEF Stages, Early, program, child, Owners
  <2>7. Loading'
    BY <2>1, <2>3, <2>4, <2>5 DEF Loading, program, child, Owners
  <2>8. /\ program'.preload = program.preload /\ program'.cwd = program.cwd
        /\ program'.tracked => program.tracked
    BY <2>3, <2>4 DEF program, Owners
  <2> QED
    BY <1>1, <2>1, <2>5, <2>6, <2>7, <2>8, QuietStep DEF endVars
<1>8. ASSUME NEW p \in Owners, chdir(p) PROVE IInv'
  <2> DEFINE process == [processes[p] EXCEPT !.cwd = "else"]
  <2>1. /\ processes[p].state = "running"
        /\ processes' = [processes EXCEPT ![p] = process]
        /\ UNCHANGED <<inputVars, scriptVars, files, endVars>>
    BY <1>8 DEF chdir, Running
  <2>2. processes[p] \in ProcessType
    BY TypeOfProcess
  <2>3. /\ process.state = processes[p].state /\ process.tracked = processes[p].tracked
        /\ process.preload = processes[p].preload
        /\ process.hu_file = processes[p].hu_file /\ process.cwd = "else"
    BY <2>2 DEF ProcessType
  <2> HIDE DEF process
  <2>4. /\ p = "program" => program' = process /\ child' = child
        /\ p = "child" => child' = process /\ program' = program
    BY <2>1, OtherProcessStays
  <2>5. /\ UNCHANGED <<line, situation, step, FOUND, TMP, files, exited>>
        /\ LogFile' = LogFile /\ Log' = Log
    BY <1>3, <2>1 DEF inputVars, scriptVars, endVars
  <2>6. Stages'
    BY <2>1, <2>3, <2>4, <2>5 DEF Stages, Early, program, child, Owners
  <2>7. Loading'
    BY <2>1, <2>3, <2>4, <2>5 DEF Loading, program, child, Owners
  <2>8. /\ program'.preload = program.preload /\ (exited => program'.cwd = program.cwd)
        /\ program'.tracked => program.tracked
    BY <2>1, <2>3, <2>4 DEF Stages, program, Owners
  <2> QED
    BY <1>1, <2>1, <2>5, <2>6, <2>7, <2>8, QuietStep DEF endVars
<1>9. ASSUME NEW p \in Owners, Killed(p) PROVE IInv'
  <2>1. /\ Running(p) /\ Ended(p)
        /\ UNCHANGED <<inputVars, scriptVars, files, endVars>>
    BY <1>9 DEF Killed, Ended
  <2>2. /\ Stages' /\ Loading'
        /\ program'.preload = program.preload /\ program'.cwd = program.cwd
        /\ program'.tracked = program.tracked
    BY <2>1, EndOfProcess DEF endVars
  <2> QED
    BY <1>1, <2>1, <2>2, QuietStep DEF endVars
<1>10. ASSUME NEW p \in Owners, Reports(p) PROVE IInv'
  <2>1. /\ Running(p) /\ processes[p].tracked /\ Append1(p, "report")
        /\ UNCHANGED <<inputVars, scriptVars, processes, endVars>>
    BY <1>10 DEF Reports
  <2>2. /\ UNCHANGED <<line, situation, step, FOUND, TMP, exited, processes>>
        /\ LogFile' = LogFile /\ Log' = Log
    BY <1>3, <2>1 DEF inputVars, scriptVars, endVars
  <2>3. Stages' /\ Loading'
    BY <2>2 DEF Stages, Loading, Early, program, child
  <2> QED
    BY <1>1, <2>1, <2>2, <2>3, NoisyStep DEF program
<1>11. ASSUME NEW p \in Owners, NEW code \in {0, 3}, exit(p, code) PROVE IInv'
  <2>1. /\ Running(p) /\ Ended(p) /\ UNCHANGED <<inputVars, scriptVars>>
        /\ exited' = (exited \/ (p = "program" /\ processes[p].tracked))
    BY <1>11 DEF exit, Ended
  <2>2. IF processes[p].tracked THEN Append1(p, "summary") ELSE UNCHANGED files
    BY <1>11 DEF exit
  <2>3. /\ Stages' /\ Loading'
        /\ program'.preload = program.preload /\ program'.cwd = program.cwd
        /\ program'.tracked = program.tracked
    BY <2>1, EndOfProcess
  <2>4. CASE processes[p].tracked
    <3>1. Append1(p, "summary")
      BY <2>2, <2>4
    <3>2. exited' => exited \/ p = "program"
      BY <2>1
    <3> QED
      BY <1>1, <2>1, <2>3, <2>4, <3>1, <3>2, NoisyStep
  <2>5. CASE ~processes[p].tracked
    <3>1. UNCHANGED files
      BY <2>2, <2>5
    <3>2. exited' => exited
      BY <2>1, <2>5
    <3> QED
      BY <1>1, <2>1, <2>3, <3>1, <3>2, QuietStep
  <2> QED
    BY <2>4, <2>5
<1> QED
  BY <1>4, <1>5, <1>6, <1>7, <1>8, <1>9, <1>10, <1>11 DEF Program, Owners

-----------------------------------------------------------------------------
\* The stages of the script, what each has made sure of, and what of it the
\* program and its child can change hold together at every step.
THEOREM LauncherInvariant == Spec => []IInv
<1>1. IInv /\ UNCHANGED vars => IInv'
  <2> SUFFICES ASSUME IInv, UNCHANGED vars PROVE IInv'
    OBVIOUS
  <2>1. /\ UNCHANGED <<line, situation, step, CNT, FOUND, RV, TMP, stderr>>
        /\ UNCHANGED <<files, processes, status, exited>>
    BY DEF vars, inputVars, scriptVars, endVars
  <2>2. /\ LogFile' = LogFile /\ Log' = Log /\ OldStays' = OldStays /\ LogOpens' = LogOpens
        /\ Delivered' = Delivered
    BY <2>1 DEF LogFile, Log, Where, OldStays, LogOpens, Delivered
  <2>3. TypeOK' /\ Stages' /\ Loading'
    BY <2>1, <2>2 DEF IInv, TypeOK, Stages, Loading, Early, program, child
  <2>4. Opened' /\ Told' /\ Gone'
    BY <2>1, <2>2
       DEF IInv, Opened, Told, Gone, Early, Shown, Cleaned, Finished, program, NoLog
  <2>5. Fresh' /\ Kept'
    BY <2>1, <2>2
       DEF IInv, Fresh, Kept, Early, Shown, Cleaned, Finished, program, Summary, NoLog
  <2> QED
    BY <2>3, <2>4, <2>5 DEF IInv
<1>2. IInv /\ [Next]_vars => IInv'
  BY <1>1, LauncherAssumption, ScriptKeepsInvariant, ProgramKeepsInvariant DEF Next
<1>3. Init => IInv
  BY LauncherAssumption, InvariantAtStart
<1> QED
  BY <1>2, <1>3, PTL DEF Spec

\* The script says that the library could not be preloaded exactly when it was
\* not loaded or could not open its log, unless an old output file stays, for any
\* command line and any situation.
THEOREM FailureIsReported == Spec => []PreloadFailureIsReported
<1>1. IInv => PreloadFailureIsReported
  BY DEF IInv, Told, Shown, Cleaned, PreloadFailureIsReported
<1> QED
  BY <1>1, LauncherInvariant, PTL

\* The summary of a program that ends by exit() is shown or is in the output file,
\* or the library has said that it could not open its log.
THEOREM SummaryIsDelivered == Spec => []SummaryReachesUser
<1>1. IInv => SummaryReachesUser
  BY DEF IInv, Kept, Shown, Cleaned, Finished, Summary, NoLog, SummaryReachesUser, program
<1> QED
  BY <1>1, LauncherInvariant, PTL

\* The temporary directory is left only with lines that a child has written after
\* the log was removed.
THEOREM NothingIsLeft == Spec => []TempDirIsRemoved
<1>1. IInv => TempDirIsRemoved
  BY DEF IInv, Gone, Cleaned, Has, TempDirIsRemoved
<1> QED
  BY <1>1, LauncherInvariant, PTL

\* No line that was reported is lost from a file before the script cleans up.
THEOREM NoReportIsLost == Spec => ReportsAreKept
<1> DEFINE Keeps == \A dir \in Dirs : \A p \in {"program", "child"}, text \in {"report", "summary"} :
              Has(files[dir].lines, Line(p, text)) /\ step # "cleanup"
                => Has(files'[dir].lines, Line(p, text))
<1>1. ASSUME IInv, Next PROVE Keeps
  <2> SUFFICES ASSUME NEW dir \in Dirs, NEW p \in Owners, NEW text \in {"report", "summary"},
                      Has(files[dir].lines, Line(p, text)), step # "cleanup"
               PROVE  Has(files'[dir].lines, Line(p, text))
    BY DEF Owners
  <2>1. ~Early /\ ~(situation.preloads /\ program.preload)
    BY <1>1 DEF IInv, Fresh
  <2>2. CASE UNCHANGED files
    BY <2>2
  <2>3. CASE Setup \/ Unlink
    BY <2>1, <2>3 DEF Setup, Unlink, Early
  <2>4. ASSUME NEW q \in Owners, hu_init(q) PROVE FALSE
    BY <1>1, <2>1, <2>4 DEF hu_init, IInv, Loading, program, child, Owners
  <2>5. ASSUME NEW q \in Owners, NEW new \in {"report", "summary"}, Append1(q, new)
        PROVE  Has(files'[dir].lines, Line(p, text))
    BY <1>1, <2>5, AppendAdds, Zenon DEF IInv
  <2>6. CASE Script
    BY <2>2, <2>3, <2>6 DEF Script, Parse, TryNext, Launch, NotFound, Await, Show, Rmdir
  <2>7. CASE Program
    <3>1. CASE fork
      BY <2>2, <3>1 DEF fork
    <3>2. ASSUME NEW q \in Owners,
                 StartPlain(q) \/ exec(q) \/ chdir(q) \/ Killed(q)
          PROVE  UNCHANGED files
      BY <3>2 DEF StartPlain, exec, chdir, Killed
    <3>3. ASSUME NEW q \in Owners, Reports(q) PROVE Append1(q, "report")
      BY <3>3 DEF Reports
    <3>4. ASSUME NEW q \in Owners, NEW code \in {0, 3}, exit(q, code)
          PROVE  Append1(q, "summary") \/ UNCHANGED files
      BY <3>4, Zenon DEF exit
    <3> QED
      BY <2>2, <2>4, <2>5, <2>7, <3>1, <3>2, <3>3, <3>4 DEF Program, Owners
  <2> QED
    BY <1>1, <2>6, <2>7 DEF Next
<1>2. IInv /\ [Next]_vars => [Keeps]_vars
  BY <1>1
<1> QED
  BY <1>2, LauncherInvariant, PTL DEF Spec, ReportsAreKept
=============================================================================
