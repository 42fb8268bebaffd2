----------------------------- MODULE HuThreads -----------------------------
(***************************************************************************)
(* The control state of humain.cpp: which thread is in which wrapper, what *)
(* the thread-local bypass flag and call counter say, who holds hu_mutex,  *)
(* and how on-demand reports, faults, fork and exit() cut into that.       *)
(*                                                                         *)
(* Each thread has a stack of calls, the running one first.  What a call   *)
(* does to the heap and the ledger is left to HeapUsage; here it counts    *)
(* that log_event and log_summary allocate memory themselves, through the  *)
(* wrappers.  The behaviour starts with hu_init on the main thread.        *)
(***************************************************************************)
EXTENDS Integers, Sequences, FiniteSets

CONSTANTS
  Threads,
  MaxCalls,         \* bound on the wrapper calls of the program
  MaxReports,       \* bound on its calls of hu_report
  MaxSignals,       \* bound on the signals that ask for a report
  Interruptible,    \* calls a signal may interrupt, and "program"
  MaxForks,         \* bound on forks
  MayFault,         \* whether the program touches protected memory
  ExitsFrom,        \* where exit() is called: "program", and "wrapper" for
                    \* the exit(1) of hu_mprotect
  Main,             \* the thread that runs hu_init
  EarlyThreads,     \* threads that an earlier constructor has started
  Nobody,           \* the holder of a free mutex
  NoMutex           \* hu_mutex before hu_init has made one

ASSUME HuThreadsAssumption ==
  /\ Nobody \notin Threads /\ NoMutex \notin Threads /\ Nobody # NoMutex
  /\ Main \in Threads /\ EarlyThreads \subseteq Threads
  /\ MaxCalls \in Nat /\ MaxReports \in Nat /\ MaxSignals \in Nat /\ MaxForks \in Nat
  /\ Interruptible \subseteq
       {"program", "wrapper", "report", "signal", "fault", "fini", "fork"}
  /\ ExitsFrom \subseteq {"program", "wrapper"}
  /\ MayFault \in BOOLEAN

VARIABLES
  hu_bypass,        \* thread-local
  hu_bypass_saved,  \* thread-local
  hu_callcount,     \* thread-local
  hu_mutex,         \* its holder, or NoMutex
  logging_enabled,
  calls,            \* thread -> stack of calls, each with what it does next
  alive,            \* the threads of this process
  stage,            \* "running", "exiting" or "ended"
  process,          \* "parent", or "child" of a fork
  spent             \* calls, reports, signals and forks so far

localVars == <<hu_bypass, hu_bypass_saved, hu_callcount>>
sharedVars == <<hu_mutex, logging_enabled>>
processVars == <<alive, stage, process>>
vars == <<localVars, sharedVars, calls, processVars, spent>>

Call(kind, next) == [kind |-> kind, next |-> next]
Wrapper == Call("wrapper", "enter")

Init ==
  /\ hu_bypass = [t \in Threads |-> FALSE]
  /\ hu_bypass_saved = [t \in Threads |-> FALSE]
  /\ hu_callcount = [t \in Threads |-> 0]
  /\ hu_mutex = NoMutex
  /\ logging_enabled = FALSE
  /\ calls = [t \in Threads |-> IF t = Main THEN <<Call("init", "start")>> ELSE <<>>]
  /\ alive = {Main} \cup EarlyThreads
  /\ stage = "running"
  /\ process = "parent"
  /\ spent = [calls |-> 0, reports |-> 0, signals |-> 0, forks |-> 0]

-----------------------------------------------------------------------------
\* Thread t runs its program.
InProgram(t) == t \in alive /\ calls[t] = <<>> /\ stage # "ended"

\* Thread t is about to take the given step of the given kind of call.
At(t, kinds, next) ==
  /\ t \in alive /\ stage # "ended"
  /\ calls[t] # <<>>
  /\ Head(calls[t]).kind \in kinds
  /\ Head(calls[t]).next = next

Enter(t, call) == calls' = [calls EXCEPT ![t] = <<call>> \o @]
Return(t) == calls' = [calls EXCEPT ![t] = Tail(@)]
GoTo(t, next) == calls' = [calls EXCEPT ![t][1].next = next]

\* Goes on at next after the allocations log_event or log_summary makes.
AllocateThen(t, next) ==
  calls' = [calls EXCEPT ![t] = <<Wrapper, Call(Head(@).kind, next)>> \o Tail(@)]

SetBypass(t, bypass) == hu_bypass' = [hu_bypass EXCEPT ![t] = bypass]

AddToCallcount(t, n) == hu_callcount' = [hu_callcount EXCEPT ![t] = @ + n]

-----------------------------------------------------------------------------
(***************************************************************************)
(* malloc, free, calloc and realloc.                                       *)
(***************************************************************************)

\* With the bypass on, straight to libc.
WrapperBypass(t) ==
  /\ At(t, {"wrapper"}, "enter")
  /\ hu_bypass[t]
  /\ Return(t)
  /\ UNCHANGED <<localVars, sharedVars, processVars, spent>>

Mutant_WrapperGuard_nested_locks(t) ==
  /\ At(t, {"wrapper"}, "enter")
  /\ ~hu_bypass[t]
  /\ AddToCallcount(t, 1)
  /\ GoTo(t, IF hu_callcount[t] + 1 > 2 THEN "unguard" ELSE "lock")
  /\ UNCHANGED <<hu_bypass, hu_bypass_saved, sharedVars, processVars, spent>>

\* hu_recursion_guard: a call from within a wrapper goes to libc too.
WrapperGuard(t) ==
  /\ At(t, {"wrapper"}, "enter")
  /\ ~hu_bypass[t]
  /\ AddToCallcount(t, 1)
  /\ GoTo(t, IF hu_callcount[t] + 1 > 1 THEN "unguard" ELSE "lock")
  /\ UNCHANGED <<hu_bypass, hu_bypass_saved, sharedVars, processVars, spent>>

\* hu_lock_guard and hu_fini wait here while somebody holds the mutex; as long
\* as there is none they go on without.
Lock(t) ==
  /\ At(t, {"wrapper", "fini"}, "lock")
  /\ hu_mutex \in {Nobody, NoMutex}
  /\ hu_mutex' = IF hu_mutex = NoMutex THEN NoMutex ELSE t
  /\ GoTo(t, IF Head(calls[t]).kind = "fini" THEN "summary" ELSE "body")
  /\ UNCHANGED <<localVars, logging_enabled, processVars, spent>>

\* hu_malloc and its kin, and the test of logging_enabled in log_event.
WrapperBody(t) ==
  /\ At(t, {"wrapper"}, "body")
  /\ GoTo(t, IF logging_enabled THEN "log" ELSE "unlock")
  /\ UNCHANGED <<localVars, sharedVars, processVars, spent>>

\* log_event changes the ledger, and allocates to do so.
WrapperLog(t) ==
  /\ At(t, {"wrapper"}, "log")
  /\ AllocateThen(t, "unlock")
  /\ UNCHANGED <<localVars, sharedVars, processVars, spent>>

Mutant_Unlock_fini_only(t) ==
  /\ At(t, {"wrapper", "fini"}, "unlock")
  /\ hu_mutex' = IF Head(calls[t]).kind = "fini" THEN Nobody ELSE hu_mutex
  /\ GoTo(t, IF Head(calls[t]).kind = "fini" THEN "unbypass" ELSE "unguard")
  /\ UNCHANGED <<localVars, logging_enabled, processVars, spent>>

\* The destructors, of the lock first: it unlocks whatever mutex there is now.
Unlock(t) ==
  /\ At(t, {"wrapper", "fini"}, "unlock")
  /\ hu_mutex' = IF hu_mutex = NoMutex THEN NoMutex ELSE Nobody
  /\ GoTo(t, IF Head(calls[t]).kind = "fini" THEN "unbypass" ELSE "unguard")
  /\ UNCHANGED <<localVars, logging_enabled, processVars, spent>>

WrapperUnguard(t) ==
  /\ At(t, {"wrapper"}, "unguard")
  /\ AddToCallcount(t, -1)
  /\ Return(t)
  /\ UNCHANGED <<hu_bypass, hu_bypass_saved, sharedVars, processVars, spent>>

-----------------------------------------------------------------------------
(***************************************************************************)
(* hu_report ("report", or "signal" when signal_handler calls it),         *)
(* hu_sig_handler ("fault"), hu_fini ("fini") and hu_init ("init").        *)
(***************************************************************************)
Bypass(t) ==
  /\ At(t, {"report", "signal", "fault", "fini", "init"}, "bypass")
  /\ SetBypass(t, TRUE)
  /\ GoTo(t, CASE Head(calls[t]).kind = "fault" -> "summary"
               [] Head(calls[t]).kind = "fini" -> "lock"
               [] Head(calls[t]).kind = "init" -> "mutex"
               [] OTHER -> "off")
  /\ UNCHANGED <<hu_bypass_saved, hu_callcount, sharedVars, processVars, spent>>

Mutant_LogOff_no_bypass(t) ==
  /\ At(t, {"report", "signal", "fini"}, "off")
  /\ logging_enabled' = FALSE
  /\ GoTo(t, IF Head(calls[t]).kind = "fini" THEN "lock" ELSE "summary")
  /\ UNCHANGED <<localVars, hu_mutex, processVars, spent>>

LogOff(t) ==
  /\ At(t, {"report", "signal", "fini"}, "off")
  /\ logging_enabled' = FALSE
  /\ GoTo(t, IF Head(calls[t]).kind = "fini" THEN "bypass" ELSE "summary")
  /\ UNCHANGED <<localVars, hu_mutex, processVars, spent>>

\* log_summary, or hu_sig_handler's search: reads the ledger, and allocates.
Summary(t) ==
  /\ At(t, {"report", "signal", "fault", "fini"}, "summary")
  /\ AllocateThen(t, "print")
  /\ UNCHANGED <<localVars, sharedVars, processVars, spent>>

Reported(t) ==
  /\ At(t, {"report", "signal", "fault", "fini"}, "print")
  /\ GoTo(t, CASE Head(calls[t]).kind = "fault" -> "unbypass"
               [] Head(calls[t]).kind = "fini" -> "unlock"
               [] OTHER -> "on")
  /\ UNCHANGED <<localVars, sharedVars, processVars, spent>>

Mutant_LogOn_stays_off(t) ==
  /\ At(t, {"report", "signal"}, "on")
  /\ GoTo(t, "unbypass")
  /\ UNCHANGED <<localVars, sharedVars, processVars, spent>>

LogOn(t) ==
  /\ At(t, {"report", "signal"}, "on")
  /\ logging_enabled' = TRUE
  /\ GoTo(t, "unbypass")
  /\ UNCHANGED <<localVars, hu_mutex, processVars, spent>>

-----------------------------------------------------------------------------
(***************************************************************************)
(* hu_init: log_init allocates before there is a mutex, the mutex is made  *)
(* with the bypass on, and logging goes on last.  Then main() starts the   *)
(* other threads.                                                          *)
(***************************************************************************)
InitLog(t) ==
  /\ At(t, {"init"}, "start")
  /\ AllocateThen(t, "bypass")
  /\ UNCHANGED <<localVars, sharedVars, processVars, spent>>

InitMutex(t) ==
  /\ At(t, {"init"}, "mutex")
  /\ AllocateThen(t, "set")
  /\ UNCHANGED <<localVars, sharedVars, processVars, spent>>

\* The mutex, the thread's bypass and the fork handlers: of the three only the
\* mutex is anything another thread sees.
SetMutex(t) ==
  /\ At(t, {"init"}, "set")
  /\ hu_mutex' = Nobody
  /\ SetBypass(t, FALSE)
  /\ GoTo(t, "on")
  /\ UNCHANGED <<hu_bypass_saved, hu_callcount, logging_enabled, processVars, spent>>

InitEnd(t) ==
  /\ At(t, {"init"}, "on")
  /\ logging_enabled' = TRUE
  /\ alive' = Threads
  /\ Return(t)
  /\ UNCHANGED <<localVars, hu_mutex, stage, process, spent>>

-----------------------------------------------------------------------------

\* hu_set_bypass(false).
Unbypass(t) ==
  /\ At(t, {"report", "signal"}, "unbypass")
  /\ SetBypass(t, FALSE)
  /\ Return(t)
  /\ UNCHANGED <<hu_bypass_saved, hu_callcount, sharedVars, processVars, spent>>

\* hu_sig_handler ends in exit(), which runs hu_fini on the same stack, or
\* waits for ever if another thread has called exit() already.
FaultExit(t) ==
  /\ At(t, {"fault"}, "unbypass")
  /\ stage = "running"
  /\ SetBypass(t, FALSE)
  /\ stage' = "exiting"
  /\ Enter(t, Call("fini", "off"))
  /\ UNCHANGED <<hu_bypass_saved, hu_callcount, sharedVars, alive, process, spent>>

FiniEnd(t) ==
  /\ At(t, {"fini"}, "unbypass")
  /\ SetBypass(t, FALSE)
  /\ stage' = "ended"
  /\ Return(t)
  /\ UNCHANGED <<hu_bypass_saved, hu_callcount, sharedVars, alive, process, spent>>

-----------------------------------------------------------------------------
(***************************************************************************)
(* fork: hu_atfork_prepare, the allocations of fork itself, then           *)
(* hu_atfork_parent in the one process and hu_atfork_child, which does     *)
(* nothing, in the other.  The behaviour goes on as either; the child has  *)
(* the forking thread only, and the mutex as it was.  Once another thread  *)
(* has called exit() only the parent is followed.                          *)
(***************************************************************************)
Mutant_AtforkPrepare_no_bypass(t) ==
  /\ InProgram(t) /\ stage = "running"
  /\ spent.forks < MaxForks
  /\ spent' = [spent EXCEPT !.forks = @ + 1]
  /\ hu_bypass_saved' = [hu_bypass_saved EXCEPT ![t] = hu_bypass[t]]
  /\ calls' = [calls EXCEPT ![t] = <<Wrapper, Call("fork", "fork")>> \o @]
  /\ UNCHANGED <<hu_bypass, hu_callcount, sharedVars, processVars>>

Mutant_AtforkPrepare_saved_late(t) ==
  /\ InProgram(t) /\ stage = "running"
  /\ spent.forks < MaxForks
  /\ spent' = [spent EXCEPT !.forks = @ + 1]
  /\ SetBypass(t, TRUE)
  /\ hu_bypass_saved' = hu_bypass'
  /\ calls' = [calls EXCEPT ![t] = <<Wrapper, Call("fork", "fork")>> \o @]
  /\ UNCHANGED <<hu_callcount, sharedVars, processVars>>

AtforkPrepare(t) ==
  /\ InProgram(t) /\ stage = "running"
  /\ spent.forks < MaxForks
  /\ spent' = [spent EXCEPT !.forks = @ + 1]
  /\ hu_bypass_saved' = [hu_bypass_saved EXCEPT ![t] = hu_bypass[t]]
  /\ SetBypass(t, TRUE)
  /\ calls' = [calls EXCEPT ![t] = <<Wrapper, Call("fork", "fork")>> \o @]
  /\ UNCHANGED <<hu_callcount, sharedVars, processVars>>

Mutant_AtforkParent_unlocks(t) ==
  /\ At(t, {"fork"}, "fork")
  /\ SetBypass(t, hu_bypass_saved[t])
  /\ hu_mutex' = Nobody
  /\ Return(t)
  /\ UNCHANGED <<hu_bypass_saved, hu_callcount, logging_enabled, processVars, spent>>

AtforkParent(t) ==
  /\ At(t, {"fork"}, "fork")
  /\ SetBypass(t, hu_bypass_saved[t])
  /\ Return(t)
  /\ UNCHANGED <<hu_bypass_saved, hu_callcount, sharedVars, processVars, spent>>

AtforkChild(t) ==
  /\ At(t, {"fork"}, "fork") /\ stage = "running"
  /\ process' = "child"
  /\ alive' = {t}
  /\ calls' = [u \in Threads |-> IF u = t THEN Tail(calls[t]) ELSE <<>>]
  /\ UNCHANGED <<localVars, sharedVars, stage, spent>>

-----------------------------------------------------------------------------
(***************************************************************************)
(* What the program does.                                                  *)
(***************************************************************************)
CallWrapper(t) ==
  /\ InProgram(t)
  /\ spent.calls < MaxCalls
  /\ spent' = [spent EXCEPT !.calls = @ + 1]
  /\ Enter(t, Wrapper)
  /\ UNCHANGED <<localVars, sharedVars, processVars>>

CallReport(t) ==
  /\ InProgram(t)
  /\ spent.reports < MaxReports
  /\ spent' = [spent EXCEPT !.reports = @ + 1]
  /\ Enter(t, Call("report", "bypass"))
  /\ UNCHANGED <<localVars, sharedVars, processVars>>

\* A signal interrupts whatever t does; it is blocked while its handler runs.
Signal(t) ==
  /\ t \in alive /\ stage # "ended"
  /\ spent.signals < MaxSignals
  /\ IF calls[t] = <<>> THEN "program" \in Interruptible
     ELSE \A i \in 1 .. Len(calls[t]) : calls[t][i].kind \in Interruptible \ {"signal"}
  /\ spent' = [spent EXCEPT !.signals = @ + 1]
  /\ Enter(t, Call("signal", "bypass"))
  /\ UNCHANGED <<localVars, sharedVars, processVars>>

\* The program touches a protected page.
TouchProtected(t) ==
  /\ MayFault
  /\ InProgram(t)
  /\ Enter(t, Call("fault", "bypass"))
  /\ UNCHANGED <<localVars, sharedVars, processVars, spent>>

\* exit(), by the program or by hu_mprotect.  The frees of __libc_freeres(), which
\* hu_fini calls first, are calls that t has made before.
CallExit(t) ==
  /\ t \in alive /\ stage = "running"
  /\ IF calls[t] = <<>> THEN "program" \in ExitsFrom
     ELSE At(t, {"wrapper"}, "body") /\ "wrapper" \in ExitsFrom
  /\ stage' = "exiting"
  /\ Enter(t, Call("fini", "off"))
  /\ UNCHANGED <<localVars, sharedVars, alive, process, spent>>

-----------------------------------------------------------------------------
\* Steps of a call that is under way.
Continue(t) ==
  \/ WrapperBypass(t) \/ WrapperGuard(t) \/ Lock(t) \/ WrapperBody(t)
  \/ WrapperLog(t) \/ Unlock(t) \/ WrapperUnguard(t)
  \/ Bypass(t) \/ LogOff(t) \/ Summary(t) \/ Reported(t) \/ LogOn(t) \/ Unbypass(t)
  \/ FaultExit(t) \/ FiniEnd(t)
  \/ InitLog(t) \/ InitMutex(t) \/ SetMutex(t) \/ InitEnd(t)
  \/ AtforkParent(t) \/ AtforkChild(t)

Program(t) ==
  \/ CallWrapper(t) \/ CallReport(t) \/ Signal(t) \/ TouchProtected(t)
  \/ CallExit(t) \/ AtforkPrepare(t)

\* The process is over.
Ended == stage = "ended" /\ UNCHANGED vars

Next == (\E t \in Threads : Program(t) \/ Continue(t)) \/ Ended

\* The scheduler runs every thread that can run; nothing is assumed of what
\* the program calls, or of which waiting thread gets the mutex.
Fairness == \A t \in Threads : WF_vars(Continue(t))

Spec == Init /\ [][Next]_vars
FairSpec == Spec /\ Fairness

-----------------------------------------------------------------------------
(***************************************************************************)
(* Properties                                                              *)
(***************************************************************************)
Kinds == {"wrapper", "report", "signal", "fault", "fini", "fork", "init"}
Steps == {"enter", "lock", "body", "log", "unlock", "unguard", "bypass", "off",
          "summary", "print", "on", "unbypass", "fork", "start", "mutex", "set"}

\* Type invariant.
TypeOK ==
  /\ hu_bypass \in [Threads -> BOOLEAN]
  /\ hu_bypass_saved \in [Threads -> BOOLEAN]
  /\ hu_callcount \in [Threads -> Nat]
  /\ hu_mutex \in Threads \cup {Nobody, NoMutex}
  /\ logging_enabled \in BOOLEAN
  /\ calls \in [Threads -> Seq([kind : Kinds, next : Steps])]
  /\ alive \subseteq Threads
  /\ stage \in {"running", "exiting", "ended"}
  /\ process \in {"parent", "child"}
  /\ spent \in [calls : 0 .. MaxCalls, reports : 0 .. MaxReports,
                signals : 0 .. MaxSignals, forks : 0 .. MaxForks]

\* Some call of thread t, interrupted or not, is of the kinds and at the steps.
Within(t, kinds, steps) ==
  \E i \in 1 .. Len(calls[t]) : calls[t][i].kind \in kinds /\ calls[t][i].next \in steps

InWrapper(t) == Within(t, {"wrapper"}, {"body", "log", "unlock"})
InFini(t) == Within(t, {"fini"}, {"summary", "print", "unlock"})

\* humain.cpp:213-216 "prevent concurrent modification of tracking data by other
\* threads that are still running during exit()": of the threads in the middle
\* of a wrapper or of hu_fini's summary there is one, whatever signals, reports
\* and forks came in between, and it holds the mutex.  Before there is a mutex
\* nothing is tracked.
OneInside ==
  \A t \in alive :
    (InWrapper(t) \/ InFini(t)) /\ hu_mutex # NoMutex =>
      /\ hu_mutex = t
      /\ \A u \in alive \ {t} : ~InWrapper(u) /\ ~InFini(u)

\* humain.cpp:75-77 and :213-215: log_event and log_summary allocate with the
\* mutex held, and the mutex is not recursive: no thread ever waits for itself.
NoSelfDeadlock ==
  \A t \in alive : At(t, {"wrapper", "fini"}, "lock") => hu_mutex # t

\* A thread whose bypass stayed on would hand pointers of hu_malloc to libc
\* (humain.cpp:111-113); a call counter that stayed up would, too.
BypassIsRestored ==
  process = "parent" =>
    \A t \in Threads : calls[t] = <<>> /\ stage # "ended" =>
      ~hu_bypass[t] /\ hu_callcount[t] = 0

\* However reports overlap, when the last of them is over events are logged
\* again (humain.cpp:65-68).
LoggingIsRestored ==
  process = "parent" /\ stage = "running"
    /\ (\A t \in Threads : ~Within(t, {"report", "signal", "init"}, Steps))
  => logging_enabled

\* humain.cpp:108-110 "without touching the mutex during fork".
ForkNeverLocks ==
  \A t \in alive :
    Within(t, {"fork"}, Steps) => ~At(t, {"wrapper"}, "lock") /\ ~InWrapper(t)

\* humain.cpp:126 "Keep hu_bypass = true - child should not track allocations":
\* in a program that asks for no reports.
ChildBypasses ==
  process = "child" /\ stage = "running" /\ spent.reports + spent.signals = 0 =>
    \A t \in alive : hu_bypass[t]

\* humain.cpp:50 "Mutex protecting shared data structures": while a report reads
\* the ledger nobody is in the middle of changing it.
DataProtected ==
  \A t, u \in alive :
    t # u /\ Within(t, {"report", "signal"}, {"print"}) =>
      ~(Within(u, {"wrapper"}, {"unlock"}) /\ Len(calls[u]) > 1)

\* A process that calls exit() comes to an end, whatever the other threads do,
\* reports and forks included (humain.cpp:222; for a child see ChildExitEnds).
ExitEnds == stage = "exiting" ~> stage = "ended" \/ process = "child"

\* No thread stays in malloc, free, hu_report or fork for ever: the mutex is
\* given back on every way out (humain.cpp:94-95), and nested calls pass it by
\* (humain.cpp:82-84).
CallsReturn ==
  \A t \in Threads :
    calls[t] # <<>> ~> calls[t] = <<>> \/ stage = "ended" \/ process = "child"

\* humain.cpp:172 "Register fork safety handlers": so does a child of fork.
ChildExitEnds == (process = "child" /\ stage = "exiting") ~> stage = "ended"

=============================================================================
