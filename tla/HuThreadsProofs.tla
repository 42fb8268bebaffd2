-------------------------- MODULE HuThreadsProofs --------------------------
(***************************************************************************)
(* What is proved of HuThreads: for any number of threads, calls, reports, *)
(* signals and forks one thread at a time is inside a wrapper or hu_fini,  *)
(* none waits for itself, fork takes no lock, and the flags are put back.  *)
(***************************************************************************)
EXTENDS HuThreads, TLAPS

\* As in the passing run: no thread runs before hu_init, signals arrive in the
\* program and in wrappers, and exit() is called by the program.
Undisturbed ==
  /\ EarlyThreads = {}
  /\ Interruptible \subseteq {"program", "wrapper"}
  /\ ExitsFrom \subseteq {"program"}

\* Stacks of calls.
Stacks == Seq([kind : Kinds, next : Steps])

\* The first call of a stack is of that kind and at one of the steps.
Is(stack, kind, steps) ==
  stack # <<>> /\ Head(stack).kind = kind /\ Head(stack).next \in steps

\* The steps of a wrapper past hu_recursion_guard, and those of hu_report and
\* of hu_fini that run with the bypass on.
Guarded == {"lock", "body", "log", "unlock", "unguard"}
ReportSteps == {"off", "summary", "print", "on", "unbypass"}
FiniSteps == {"lock", "summary", "print", "unlock", "unbypass"}

\* The stack has wrappers only on top of base, and the counter is the number of
\* those that are past their guard: a second one is nested in log_event, and
\* only passes by.
Counted(stack, count, base) ==
  \/ stack = base /\ count = 0
  \/ Is(stack, "wrapper", {"enter"}) /\ Tail(stack) = base /\ count = 0
  \/ Is(stack, "wrapper", Guarded) /\ Tail(stack) = base /\ count = 1
  \/ /\ Is(stack, "wrapper", {"enter"}) /\ count = 1
     /\ Is(Tail(stack), "wrapper", {"unlock"}) /\ Tail(Tail(stack)) = base
  \/ /\ Is(stack, "wrapper", {"unguard"}) /\ count = 2
     /\ Is(Tail(stack), "wrapper", {"unlock"}) /\ Tail(Tail(stack)) = base

\* A call on top of rest, which runs with the bypass on.
Running(t, kind, steps, rest) ==
  Is(calls[t], kind, steps) /\ Tail(calls[t]) = rest /\ hu_bypass[t]

\* The same while it waits for an allocation of its own.
Allocating(t, kind, steps, rest) ==
  /\ Is(calls[t], "wrapper", {"enter"}) /\ hu_bypass[t]
  /\ Is(Tail(calls[t]), kind, steps) /\ Tail(Tail(calls[t])) = rest

\* What a thread can be in the middle of.
InCalls(t) ==
  /\ Counted(calls[t], hu_callcount[t], <<>>)
  /\ process = "parent" => ~hu_bypass[t]

\* signal_handler, on top of the program or of wrappers.
InSignal(t) ==
  \/ /\ Is(calls[t], "signal", {"bypass"})
     /\ Counted(Tail(calls[t]), hu_callcount[t], <<>>)
  \/ /\ Running(t, "signal", ReportSteps, Tail(calls[t]))
     /\ Counted(Tail(calls[t]), hu_callcount[t], <<>>)
  \/ /\ Allocating(t, "signal", {"print"}, Tail(Tail(calls[t])))
     /\ Counted(Tail(Tail(calls[t])), hu_callcount[t], <<>>)

\* hu_report, called by the program.
InReport(t) ==
  /\ hu_callcount[t] = 0
  /\ \/ Is(calls[t], "report", {"bypass"}) /\ Tail(calls[t]) = <<>>
     \/ Running(t, "report", ReportSteps, <<>>)
     \/ Allocating(t, "report", {"print"}, <<>>)

\* hu_sig_handler; it goes on being on the stack while it exits.
InFault(t) ==
  /\ hu_callcount[t] = 0
  /\ \/ Is(calls[t], "fault", {"bypass", "unbypass"}) /\ Tail(calls[t]) = <<>>
     \/ Running(t, "fault", {"summary", "print"}, <<>>)
     \/ Allocating(t, "fault", {"print"}, <<>>)

\* exit() by the program, or at the end of hu_sig_handler.
Exiting(rest) == \/ rest = <<>>
                 \/ Is(rest, "fault", {"unbypass"}) /\ Tail(rest) = <<>>

\* hu_fini.
InExit(t) ==
  /\ hu_callcount[t] = 0 /\ stage # "running"
  /\ \/ Is(calls[t], "fini", {"off", "bypass"}) /\ Exiting(Tail(calls[t]))
     \/ Running(t, "fini", FiniSteps, Tail(calls[t])) /\ Exiting(Tail(calls[t]))
     \/ /\ Allocating(t, "fini", {"print"}, Tail(Tail(calls[t])))
        /\ Exiting(Tail(Tail(calls[t])))

\* fork.
InFork(t) ==
  /\ hu_callcount[t] = 0
  /\ \/ Running(t, "fork", {"fork"}, <<>>)
     \/ Allocating(t, "fork", {"fork"}, <<>>)

\* One of these.
Thread(t) ==
  \/ InCalls(t) \/ InSignal(t) \/ InReport(t) \/ InFault(t) \/ InExit(t) \/ InFork(t)

\* What OneInside speaks of.
Inside(t) == InWrapper(t) \/ InFini(t)

\* The stages of hu_init: log_init, the mutex, and after that.
Starting ==
  /\ hu_mutex = NoMutex /\ hu_callcount[Main] = 0
  /\ Is(calls[Main], "init", {"start"}) /\ Tail(calls[Main]) = <<>>

LoggingUpTo(base) ==
  /\ hu_mutex = NoMutex
  /\ Is(base, "init", {"bypass"}) /\ Tail(base) = <<>>
  /\ Counted(calls[Main], hu_callcount[Main], base)

Making ==
  /\ hu_mutex = NoMutex /\ hu_callcount[Main] = 0
  /\ \/ Running(Main, "init", {"mutex", "set"}, <<>>)
     \/ Allocating(Main, "init", {"set"}, <<>>)

Made ==
  /\ hu_mutex = Nobody /\ hu_callcount[Main] = 0 /\ ~hu_bypass[Main]
  /\ Is(calls[Main], "init", {"on"}) /\ Tail(calls[Main]) = <<>>

InInit == Starting \/ (\E base \in Stacks : LoggingUpTo(base)) \/ Making \/ Made

\* hu_init, with no other thread there yet.
Initialising ==
  /\ process = "parent" /\ stage = "running" /\ alive = {Main}
  /\ \A t \in Threads : ~hu_bypass_saved[t]
  /\ \A t \in Threads \ {Main} :
       calls[t] = <<>> /\ hu_callcount[t] = 0 /\ ~hu_bypass[t]
  /\ InInit

\* From then on: the mutex is of the one thread that is inside.
Threaded ==
  /\ hu_mutex # NoMutex
  /\ process = "parent" =>
       alive = Threads /\ \A t \in Threads : ~hu_bypass_saved[t]
  /\ \A t \in alive : Thread(t) /\ (Inside(t) <=> hu_mutex = t)

\* Thread t has turned logging off, and is still there to turn it on again.
Reporting(t) == Within(t, {"report", "signal"}, {"summary", "print", "on"})

\* As long as logging is off somebody has turned it off.
LogHeld ==
  process = "parent" /\ stage = "running" /\ ~logging_enabled => \E t \in Threads : Reporting(t)

\* The inductive invariant.
IInv == TypeOK /\ (Initialising \/ (Threaded /\ LogHeld))

-----------------------------------------------------------------------------
(***************************************************************************)
(* Stacks of calls.                                                        *)
(***************************************************************************)
Frames == [kind : Kinds, next : Steps]

\* The parts of a stack that is not empty.
LEMMA HeadAndTail ==
  ASSUME NEW s \in Seq(Frames), s # <<>>
  PROVE  /\ Head(s) \in Frames /\ Tail(s) \in Seq(Frames)
         /\ Len(s) \in Nat \ {0} /\ Len(Tail(s)) = Len(s) - 1
         /\ Head(s) = s[1]
         /\ \A i \in 1 .. Len(Tail(s)) : Tail(s)[i] = s[i + 1]
OBVIOUS

\* A call on top of a stack.
LEMMA Pushed ==
  ASSUME NEW s \in Seq(Frames), NEW call \in Frames
  PROVE  /\ <<call>> \o s \in Seq(Frames) /\ <<call>> \o s # <<>>
         /\ Head(<<call>> \o s) = call /\ Tail(<<call>> \o s) = s
<1> DEFINE longer == <<call>> \o s
<1>1. /\ longer \in Seq(Frames) /\ Len(longer) = Len(s) + 1 /\ Len(s) \in Nat
      /\ longer[1] = call /\ \A i \in 1 .. Len(s) : longer[i + 1] = s[i]
  OBVIOUS
<1> HIDE DEF longer
<1>2. longer # <<>> /\ Head(longer) = call
  BY <1>1
<1>3. /\ Tail(longer) \in Seq(Frames) /\ Len(Tail(longer)) = Len(s)
      /\ \A i \in 1 .. Len(s) : Tail(longer)[i] = s[i]
  BY <1>1, <1>2, HeadAndTail
<1>4. Tail(longer) = s
  BY <1>3
<1> QED
  BY <1>1, <1>2, <1>4 DEF longer

\* A call of a kind, at a step.
LEMMA FrameOf ==
  ASSUME NEW kind \in Kinds, NEW next \in Steps
  PROVE  /\ Call(kind, next) \in Frames
         /\ Call(kind, next).kind = kind /\ Call(kind, next).next = next
BY DEF Call, Frames

\* The fields of a call.
LEMMA FrameFields ==
  ASSUME NEW call \in Frames
  PROVE  call.kind \in Kinds /\ call.next \in Steps
BY DEF Frames

\* The first call of a stack goes on at another step.
LEMMA Replaced ==
  ASSUME NEW s \in Seq(Frames), s # <<>>, NEW next \in Steps
  PROVE  LET moved == [s EXCEPT ![1].next = next]
         IN /\ moved \in Seq(Frames) /\ moved # <<>>
            /\ Head(moved) = Call(Head(s).kind, next) /\ Tail(moved) = Tail(s)
<1> DEFINE moved == [s EXCEPT ![1].next = next]
<1>1. Len(s) \in Nat \ {0} /\ s[1] = Head(s) /\ Head(s) \in Frames
  BY HeadAndTail
<1>2. [s[1] EXCEPT !.next = next] = Call(Head(s).kind, next)
  BY <1>1 DEF Frames, Call
<1>3. Call(Head(s).kind, next) \in Frames
  BY <1>1, FrameOf, FrameFields
<1>4. /\ moved \in Seq(Frames) /\ Len(moved) = Len(s)
      /\ moved[1] = Call(Head(s).kind, next)
      /\ \A i \in 2 .. Len(s) : moved[i] = s[i]
  BY <1>1, <1>2, <1>3
<1> HIDE DEF moved
<1>5. moved # <<>> /\ Head(moved) = Call(Head(s).kind, next)
  BY <1>1, <1>4
<1>6. Tail(moved) = Tail(s)
  <2>1. /\ Tail(moved) \in Seq(Frames) /\ Tail(s) \in Seq(Frames)
        /\ Len(Tail(moved)) = Len(s) - 1 /\ Len(Tail(s)) = Len(s) - 1
        /\ \A i \in 1 .. Len(s) - 1 : Tail(moved)[i] = moved[i + 1] /\ Tail(s)[i] = s[i + 1]
    BY <1>1, <1>4, <1>5, HeadAndTail
  <2> QED
    BY <1>1, <1>4, <2>1
<1> QED
  BY <1>4, <1>5, <1>6 DEF moved

-----------------------------------------------------------------------------
\* HuThreads!Within, of a stack.
InStack(stack, kinds, steps) ==
  \E i \in 1 .. Len(stack) : stack[i].kind \in kinds /\ stack[i].next \in steps

\* A call is in a stack if it is its first or in the rest.
LEMMA InStackByParts ==
  ASSUME NEW s \in Seq(Frames), s # <<>>, NEW kinds, NEW steps
  PROVE  InStack(s, kinds, steps) <=> \/ Head(s).kind \in kinds /\ Head(s).next \in steps
                                      \/ InStack(Tail(s), kinds, steps)
<1>1. /\ Len(s) \in Nat \ {0} /\ Len(Tail(s)) = Len(s) - 1 /\ Head(s) = s[1]
      /\ \A i \in 1 .. Len(Tail(s)) : Tail(s)[i] = s[i + 1]
  BY HeadAndTail
<1> DEFINE Here(stack, i) == stack[i].kind \in kinds /\ stack[i].next \in steps
<1>2. ASSUME NEW i \in 1 .. Len(s), Here(s, i)
      PROVE  Here(s, 1) \/ \E j \in 1 .. Len(Tail(s)) : Here(Tail(s), j)
  <2>1. CASE i = 1
    BY <1>2, <2>1
  <2>2. CASE i # 1
    <3>1. i - 1 \in 1 .. Len(Tail(s)) /\ Tail(s)[i - 1] = s[(i - 1) + 1] /\ (i - 1) + 1 = i
      BY <1>1, <2>2
    <3>2. Here(Tail(s), i - 1)
      BY <1>2, <3>1
    <3> QED
      BY <3>1, <3>2
  <2> QED
    BY <2>1, <2>2
<1>3. ASSUME NEW j \in 1 .. Len(Tail(s)), Here(Tail(s), j)
      PROVE  \E i \in 1 .. Len(s) : Here(s, i)
  <2>1. j + 1 \in 1 .. Len(s) /\ Here(s, j + 1)
    BY <1>1, <1>3
  <2> QED
    BY <2>1
<1>4. 1 \in 1 .. Len(s)
  BY <1>1
<1> QED
  BY <1>1, <1>2, <1>3, <1>4, Zenon DEF InStack

\* No call is in an empty stack.
LEMMA InNoStack ==
  ASSUME NEW kinds, NEW steps
  PROVE  ~InStack(<<>>, kinds, steps)
BY DEF InStack

-----------------------------------------------------------------------------
(***************************************************************************)
(* What the actions do to the stack of their thread.                       *)
(***************************************************************************)
Others(t) == \A u \in Threads \ {t} : calls'[u] = calls[u]

\* The types of what the lemmas below speak of.
LEMMA CallsType ==
  ASSUME TypeOK
  PROVE  /\ calls \in [Threads -> Seq(Frames)]
         /\ \A t \in Threads : calls[t] \in Seq(Frames)
         /\ hu_bypass \in [Threads -> BOOLEAN] /\ hu_bypass_saved \in [Threads -> BOOLEAN]
         /\ hu_callcount \in [Threads -> Nat]
BY DEF TypeOK, Frames

\* Enter puts a call on top.
LEMMA Entered ==
  ASSUME TypeOK, NEW t \in Threads, NEW call \in Frames, Enter(t, call)
  PROVE  /\ calls' \in [Threads -> Seq(Frames)] /\ Others(t)
         /\ calls'[t] # <<>> /\ Head(calls'[t]) = call /\ Tail(calls'[t]) = calls[t]
<1> DEFINE longer == <<call>> \o calls[t]
<1>1. /\ longer \in Seq(Frames) /\ longer # <<>>
      /\ Head(longer) = call /\ Tail(longer) = calls[t]
  BY CallsType, Pushed
<1>2. calls' = [calls EXCEPT ![t] = longer]
  BY DEF Enter
<1> HIDE DEF longer
<1> QED
  BY <1>1, <1>2, CallsType DEF Others

\* Return takes the first call away.
LEMMA Returned ==
  ASSUME TypeOK, NEW t \in Threads, calls[t] # <<>>, Return(t)
  PROVE  /\ calls' \in [Threads -> Seq(Frames)] /\ Others(t)
         /\ calls'[t] = Tail(calls[t])
<1>1. Tail(calls[t]) \in Seq(Frames)
  BY CallsType, HeadAndTail
<1> QED
  BY <1>1, CallsType DEF Return, Others

\* GoTo moves the first call to another step.
LEMMA WentTo ==
  ASSUME TypeOK, NEW t \in Threads, calls[t] # <<>>, NEW next \in Steps, GoTo(t, next)
  PROVE  /\ calls' \in [Threads -> Seq(Frames)] /\ Others(t)
         /\ calls'[t] # <<>> /\ Tail(calls'[t]) = Tail(calls[t])
         /\ Head(calls'[t]).kind = Head(calls[t]).kind /\ Head(calls'[t]).next = next
<1> DEFINE moved == [calls[t] EXCEPT ![1].next = next]
<1>1. calls[t] \in Seq(Frames)
  BY CallsType
<1>2. /\ moved \in Seq(Frames) /\ moved # <<>>
      /\ Head(moved) = Call(Head(calls[t]).kind, next) /\ Tail(moved) = Tail(calls[t])
  BY <1>1, Replaced
<1>3. calls' = [calls EXCEPT ![t] = moved]
  BY DEF GoTo
<1> HIDE DEF moved
<1>4. calls' \in [Threads -> Seq(Frames)] /\ Others(t) /\ calls'[t] = moved
  BY <1>2, <1>3, CallsType DEF Others
<1>5. Head(calls[t]).kind \in Kinds
  BY <1>1, HeadAndTail, FrameFields
<1> QED
  BY <1>2, <1>4, <1>5, FrameOf

\* AllocateThen does that, and puts a wrapper call on top.
LEMMA Allocated ==
  ASSUME TypeOK, NEW t \in Threads, calls[t] # <<>>, NEW next \in Steps,
         AllocateThen(t, next)
  PROVE  /\ calls' \in [Threads -> Seq(Frames)] /\ Others(t)
         /\ Is(calls'[t], "wrapper", {"enter"})
         /\ Tail(calls'[t]) # <<>> /\ Tail(Tail(calls'[t])) = Tail(calls[t])
         /\ Head(Tail(calls'[t])).kind = Head(calls[t]).kind
         /\ Head(Tail(calls'[t])).next = next
         /\ Tail(calls'[t]) \in Seq(Frames)
<1> DEFINE call == Call(Head(calls[t]).kind, next)
           waiting == <<call>> \o Tail(calls[t])
           longer == <<Wrapper>> \o waiting
<1>1. /\ Tail(calls[t]) \in Seq(Frames) /\ call \in Frames
      /\ call.kind = Head(calls[t]).kind /\ call.next = next
  BY CallsType, HeadAndTail, FrameFields, FrameOf
<1>2. Wrapper \in Frames /\ Wrapper.kind = "wrapper" /\ Wrapper.next = "enter"
  BY FrameOf DEF Wrapper, Kinds, Steps
<1>3. <<Wrapper, call>> \o Tail(calls[t]) = longer
  <2> HIDE DEF call
  <2> QED
    BY <1>1, <1>2
<1>4. calls' = [calls EXCEPT ![t] = longer]
  BY <1>3 DEF AllocateThen
<1> HIDE DEF call
<1>5. /\ waiting \in Seq(Frames) /\ waiting # <<>> /\ Head(waiting) = call
      /\ Tail(waiting) = Tail(calls[t])
  BY <1>1, Pushed
<1> HIDE DEF waiting
<1>6. /\ longer \in Seq(Frames) /\ longer # <<>> /\ Head(longer) = Wrapper
      /\ Tail(longer) = waiting
  BY <1>2, <1>5, Pushed
<1> HIDE DEF longer
<1>7. calls' \in [Threads -> Seq(Frames)] /\ Others(t) /\ calls'[t] = longer
  BY <1>4, <1>6, CallsType DEF Others
<1> QED
  BY <1>1, <1>2, <1>5, <1>6, <1>7 DEF Is

\* What the flags of one thread become.
LEMMA BypassSet ==
  ASSUME TypeOK, NEW t \in Threads, NEW b \in BOOLEAN, SetBypass(t, b)
  PROVE  /\ hu_bypass' \in [Threads -> BOOLEAN]
         /\ hu_bypass'[t] = b /\ \A u \in Threads \ {t} : hu_bypass'[u] = hu_bypass[u]
BY DEF TypeOK, SetBypass

\* The same of the call counter.
LEMMA CallcountAdded ==
  ASSUME TypeOK, NEW t \in Threads, NEW n \in {-1, 1}, AddToCallcount(t, n)
  PROVE  /\ hu_callcount'[t] = hu_callcount[t] + n
         /\ \A u \in Threads \ {t} : hu_callcount'[u] = hu_callcount[u]
         /\ hu_callcount[t] + n \in Nat => hu_callcount' \in [Threads -> Nat]
BY DEF TypeOK, AddToCallcount

-----------------------------------------------------------------------------
(***************************************************************************)
(* A step of one thread.                                                   *)
(***************************************************************************)
InsideFrame(call) ==
  \/ call.kind = "wrapper" /\ call.next \in {"body", "log", "unlock"}
  \/ call.kind = "fini" /\ call.next \in {"summary", "print", "unlock"}

\* Inside, of a stack.
InsideStack(stack) ==
  \/ InStack(stack, {"wrapper"}, {"body", "log", "unlock"})
  \/ InStack(stack, {"fini"}, {"summary", "print", "unlock"})

\* A thread is inside by its first call or by the rest.
LEMMA InsideByParts ==
  ASSUME NEW s \in Seq(Frames), s # <<>>
  PROVE  InsideStack(s) <=> InsideFrame(Head(s)) \/ InsideStack(Tail(s))
<1>1. InStack(s, {"wrapper"}, {"body", "log", "unlock"})
        <=> \/ Head(s).kind \in {"wrapper"} /\ Head(s).next \in {"body", "log", "unlock"}
            \/ InStack(Tail(s), {"wrapper"}, {"body", "log", "unlock"})
  BY InStackByParts
<1>2. InStack(s, {"fini"}, {"summary", "print", "unlock"})
        <=> \/ Head(s).kind \in {"fini"} /\ Head(s).next \in {"summary", "print", "unlock"}
            \/ InStack(Tail(s), {"fini"}, {"summary", "print", "unlock"})
  BY InStackByParts
<1> QED
  BY <1>1, <1>2 DEF InsideStack, InsideFrame

\* Nobody is inside in no call.
LEMMA NotInsideEmpty == ~InsideStack(<<>>)
BY InNoStack DEF InsideStack

\* Nor below hu_fini.
LEMMA ExitingIsOutside ==
  ASSUME NEW s \in Seq(Frames), Exiting(s)
  PROVE  ~InsideStack(s)
<1>1. CASE s = <<>>
  BY <1>1, NotInsideEmpty
<1>2. CASE Is(s, "fault", {"unbypass"}) /\ Tail(s) = <<>>
  <2>1. s # <<>> /\ ~InsideFrame(Head(s))
    BY <1>2 DEF Is, InsideFrame
  <2> QED
    BY <1>2, <2>1, InsideByParts, NotInsideEmpty
<1> QED
  BY <1>1, <1>2 DEF Exiting

\* The two ways to say it.
LEMMA InsideIs ==
  ASSUME NEW t
  PROVE  /\ Inside(t) <=> InsideStack(calls[t])
         /\ Inside(t)' <=> InsideStack(calls'[t])
BY DEF Inside, InWrapper, InFini, Within, InsideStack, InStack

\* What does not concern the other threads: their own part of the state.
Apart(t) ==
  /\ Others(t)
  /\ \A u \in Threads \ {t} : /\ hu_bypass'[u] = hu_bypass[u]
                              /\ hu_bypass_saved'[u] = hu_bypass_saved[u]
                              /\ hu_callcount'[u] = hu_callcount[u]
  /\ process' = process /\ alive' = alive
  /\ stage # "running" => stage' # "running"

\* If a step of one thread keeps what is said of it, and the mutex moves between
\* it and nobody, then the rest is as before.
LEMMA ThreadedByOne ==
  ASSUME HuThreadsAssumption, TypeOK, Threaded, NEW t \in alive, Apart(t), Thread(t)',
         process = "parent" => ~hu_bypass_saved'[t],
         \/ /\ hu_mutex' = hu_mutex
            /\ InsideStack(calls'[t]) <=> InsideStack(calls[t])
         \/ /\ hu_mutex' = t /\ hu_mutex = Nobody /\ InsideStack(calls'[t])
         \/ /\ hu_mutex' = Nobody /\ hu_mutex = t /\ ~InsideStack(calls'[t])
  PROVE  Threaded'
<1>1. t \in Threads /\ alive \subseteq Threads
  BY DEF TypeOK
<1>2. hu_mutex' # NoMutex
  BY <1>1 DEF Threaded, HuThreadsAssumption
<1>3. process' = "parent" => alive' = Threads /\ \A u \in Threads : ~hu_bypass_saved'[u]
  BY <1>1 DEF Threaded, Apart
<1>4. Inside(t)' <=> hu_mutex' = t
  BY <1>1, InsideIs DEF Threaded, HuThreadsAssumption
<1>5. ASSUME NEW u \in alive \ {t} PROVE Thread(u)' /\ (Inside(u)' <=> hu_mutex' = u)
  <2>1. /\ calls'[u] = calls[u] /\ hu_bypass'[u] = hu_bypass[u]
        /\ hu_callcount'[u] = hu_callcount[u]
    BY <1>1, <1>5 DEF Apart, Others
  <2>2. Thread(u)
    BY <1>5 DEF Threaded
  <2>3. InCalls(u)' <=> InCalls(u)
    BY <2>1 DEF InCalls, Apart
  <2>4. InSignal(u)' <=> InSignal(u)
    BY <2>1 DEF InSignal, Running, Allocating
  <2>5. InReport(u)' <=> InReport(u)
    BY <2>1 DEF InReport, Running, Allocating
  <2>6. InFault(u)' <=> InFault(u)
    BY <2>1 DEF InFault, Running, Allocating
  <2>7. InExit(u) => InExit(u)'
    BY <2>1 DEF InExit, Running, Allocating, Apart
  <2>8. InFork(u)' <=> InFork(u)
    BY <2>1 DEF InFork, Running, Allocating
  <2>9. Thread(u)'
    BY <2>2, <2>3, <2>4, <2>5, <2>6, <2>7, <2>8, Zenon DEF Thread
  <2>10. Inside(u)' <=> Inside(u)
    BY <2>1, InsideIs
  <2>11. hu_mutex' = u <=> hu_mutex = u
    BY <1>1, <1>5 DEF HuThreadsAssumption
  <2> QED
    BY <1>5, <2>9, <2>10, <2>11 DEF Threaded
<1>6. alive' = alive
  BY DEF Apart
<1> QED
  BY <1>2, <1>3, <1>4, <1>5, <1>6 DEF Threaded

\* What is known of a thread about to take a step.
LEMMA AtIs ==
  ASSUME TypeOK, Threaded, NEW t \in Threads, NEW kinds, NEW next, At(t, kinds, next)
  PROVE  /\ t \in alive /\ stage # "ended" /\ Thread(t)
         /\ calls[t] # <<>> /\ calls[t] \in Seq(Frames) /\ Tail(calls[t]) \in Seq(Frames)
         /\ Head(calls[t]).kind \in kinds /\ Head(calls[t]).next = next
         /\ (InsideStack(calls[t]) <=> hu_mutex = t)
<1>1. t \in alive /\ stage # "ended" /\ calls[t] # <<>>
  BY DEF At
<1>2. calls[t] \in Seq(Frames)
  BY CallsType
<1> QED
  BY <1>1, <1>2, HeadAndTail, InsideIs DEF At, Threaded

\* What is below a wrapper call.
LEMMA BelowWrapper ==
  ASSUME NEW t, Thread(t), calls[t] # <<>>, Head(calls[t]).kind = "wrapper",
         ~(hu_bypass[t] /\ Head(calls[t]).next = "enter")
  PROVE  /\ InCalls(t)
         /\ \/ Head(calls[t]).next = "enter" /\ hu_callcount[t] = 0 /\ Tail(calls[t]) = <<>>
            \/ /\ Head(calls[t]).next \in Guarded
               /\ hu_callcount[t] = 1 /\ Tail(calls[t]) = <<>>
            \/ /\ Head(calls[t]).next = "enter" /\ hu_callcount[t] = 1
               /\ Is(Tail(calls[t]), "wrapper", {"unlock"}) /\ Tail(Tail(calls[t])) = <<>>
            \/ /\ Head(calls[t]).next = "unguard" /\ hu_callcount[t] = 2
               /\ Is(Tail(calls[t]), "wrapper", {"unlock"}) /\ Tail(Tail(calls[t])) = <<>>
<1>1. ~InSignal(t)
  BY DEF InSignal, Running, Allocating, Is
<1>2. ~InReport(t) /\ ~InFault(t) /\ ~InFork(t)
  BY DEF InReport, InFault, InFork, Running, Allocating, Is
<1>3. ~InExit(t)
  BY DEF InExit, Running, Allocating, Is
<1>4. InCalls(t)
  BY <1>1, <1>2, <1>3 DEF Thread
<1> QED
  BY <1>4 DEF InCalls, Counted, Is

\* The types the steps have to keep with care.
Typed == hu_callcount \in [Threads -> Nat] /\ calls \in [Threads -> Seq(Frames)]

\* The steps of a wrapper that leave the mutex alone: hu_recursion_guard counts
\* one call, and lets the calls below it pass by.
LEMMA WrapperThreaded ==
  ASSUME HuThreadsAssumption, TypeOK, Threaded, NEW t \in Threads,
         \/ WrapperBypass(t) \/ WrapperGuard(t) \/ WrapperBody(t) \/ WrapperLog(t)
         \/ WrapperUnguard(t)
  PROVE  Threaded' /\ Typed'
<1>0. hu_callcount \in [Threads -> Nat]
  BY CallsType
<1>1. CASE WrapperBypass(t)
  <2>1. /\ At(t, {"wrapper"}, "enter") /\ hu_bypass[t] /\ Return(t)
        /\ UNCHANGED <<localVars, sharedVars, processVars, spent>>
    BY <1>1 DEF WrapperBypass
  <2>2. /\ Thread(t) /\ t \in alive /\ calls[t] # <<>> /\ calls[t] \in Seq(Frames)
        /\ Head(calls[t]).kind = "wrapper" /\ Head(calls[t]).next = "enter"
        /\ (InsideStack(calls[t]) <=> hu_mutex = t)
    BY <2>1, AtIs
  <2>3. calls' \in [Threads -> Seq(Frames)] /\ Others(t) /\ calls'[t] = Tail(calls[t])
    BY <2>1, <2>2, Returned
  <2>4. InsideStack(calls[t]) <=> InsideStack(calls'[t])
    BY <2>2, <2>3, InsideByParts DEF InsideFrame
  <2>5. UNCHANGED <<hu_bypass, hu_bypass_saved, hu_callcount, hu_mutex, alive, stage, process>>
    BY <2>1 DEF localVars, sharedVars, processVars
  <2>6. Thread(t)'
    <3>1. CASE InCalls(t)
      BY <2>2, <2>3, <2>5, <3>1 DEF Thread, InCalls, Counted, Is, Guarded
    <3>2. CASE InSignal(t)
      BY <2>1, <2>2, <2>3, <2>5, <3>2
         DEF Thread, InSignal, Running, Allocating, Is, ReportSteps
    <3>3. CASE InReport(t)
      BY <2>1, <2>2, <2>3, <2>5, <3>3
         DEF Thread, InReport, Running, Allocating, Is, ReportSteps
    <3>4. CASE InFault(t)
      BY <2>1, <2>2, <2>3, <2>5, <3>4 DEF Thread, InFault, Running, Allocating, Is
    <3>5. CASE InExit(t)
      BY <2>1, <2>2, <2>3, <2>5, <3>5
         DEF Thread, InExit, Running, Allocating, Is, FiniSteps
    <3>6. CASE InFork(t)
      BY <2>1, <2>2, <2>3, <2>5, <3>6 DEF Thread, InFork, Running, Allocating, Is
    <3> QED
      BY <2>2, <3>1, <3>2, <3>3, <3>4, <3>5, <3>6 DEF Thread
  <2>7. Apart(t) /\ (process = "parent" => ~hu_bypass_saved'[t])
    BY <2>3, <2>5 DEF Apart, Threaded
  <2> QED
    BY <1>0, <2>2, <2>3, <2>4, <2>5, <2>6, <2>7, ThreadedByOne DEF Typed
<1>2. CASE WrapperGuard(t)
  <2>1. /\ At(t, {"wrapper"}, "enter") /\ ~hu_bypass[t] /\ AddToCallcount(t, 1)
        /\ GoTo(t, IF hu_callcount[t] + 1 > 1 THEN "unguard" ELSE "lock")
        /\ UNCHANGED <<hu_bypass, hu_bypass_saved, sharedVars, processVars>>
    BY <1>2 DEF WrapperGuard
  <2>2. /\ Thread(t) /\ t \in alive /\ calls[t] # <<>> /\ calls[t] \in Seq(Frames)
        /\ Head(calls[t]).kind = "wrapper" /\ Head(calls[t]).next = "enter"
        /\ (InsideStack(calls[t]) <=> hu_mutex = t)
    BY <2>1, AtIs
  <2>3. /\ calls' \in [Threads -> Seq(Frames)] /\ Others(t)
        /\ calls'[t] # <<>> /\ Tail(calls'[t]) = Tail(calls[t])
        /\ Head(calls'[t]).kind = "wrapper"
        /\ Head(calls'[t]).next = IF hu_callcount[t] + 1 > 1 THEN "unguard" ELSE "lock"
    BY <2>1, <2>2, WentTo DEF Steps
  <2>4. /\ hu_callcount'[t] = hu_callcount[t] + 1 /\ hu_callcount' \in [Threads -> Nat]
        /\ \A u \in Threads \ {t} : hu_callcount'[u] = hu_callcount[u]
    BY <1>0, <2>1, CallcountAdded
  <2>5. UNCHANGED <<hu_bypass, hu_bypass_saved, hu_mutex, alive, stage, process>>
    BY <2>1 DEF sharedVars, processVars
  <2>6. calls'[t] \in Seq(Frames)
    BY <2>3
  <2>7. InsideStack(calls[t]) <=> InsideStack(calls'[t])
    BY <2>2, <2>3, <2>6, InsideByParts DEF InsideFrame
  <2>8. InCalls(t)'
    <3>1. InCalls(t)
      BY <2>1, <2>2, BelowWrapper
    <3>2. process' = "parent" => ~hu_bypass'[t]
      BY <2>5, <3>1 DEF InCalls
    <3>3. CASE hu_callcount[t] = 0 /\ Tail(calls[t]) = <<>>
      <4>1. Head(calls'[t]).next = "lock" /\ hu_callcount'[t] = 1
        BY <2>3, <2>4, <3>3
      <4>2. Is(calls'[t], "wrapper", Guarded) /\ Tail(calls'[t]) = <<>>
        BY <2>3, <3>3, <4>1 DEF Is, Guarded
      <4> QED
        BY <3>2, <4>1, <4>2 DEF InCalls, Counted
    <3>4. CASE /\ hu_callcount[t] = 1
               /\ Is(Tail(calls[t]), "wrapper", {"unlock"}) /\ Tail(Tail(calls[t])) = <<>>
      <4>1. Head(calls'[t]).next = "unguard" /\ hu_callcount'[t] = 2
        BY <2>3, <2>4, <3>4
      <4>2. /\ Is(calls'[t], "wrapper", {"unguard"})
            /\ Is(Tail(calls'[t]), "wrapper", {"unlock"}) /\ Tail(Tail(calls'[t])) = <<>>
        BY <2>3, <3>4, <4>1 DEF Is
      <4> QED
        BY <3>2, <4>1, <4>2 DEF InCalls, Counted
    <3> QED
      BY <2>1, <2>2, <3>3, <3>4, BelowWrapper DEF Guarded
  <2>9. Apart(t) /\ (process = "parent" => ~hu_bypass_saved'[t])
    BY <2>3, <2>4, <2>5 DEF Apart, Threaded
  <2> QED
    BY <2>2, <2>3, <2>4, <2>5, <2>7, <2>8, <2>9, ThreadedByOne DEF Thread, Typed
<1>3. ASSUME NEW next \in {"body", "log"}, NEW after \in {"log", "unlock"},
             At(t, {"wrapper"}, next),
             GoTo(t, after) \/ (next = "log" /\ after = "unlock" /\ AllocateThen(t, after)),
             UNCHANGED <<localVars, sharedVars, processVars>>
      PROVE  Threaded' /\ Typed'
  <2>2. /\ Thread(t) /\ t \in alive /\ calls[t] # <<>> /\ calls[t] \in Seq(Frames)
        /\ Head(calls[t]).kind = "wrapper" /\ Head(calls[t]).next = next
        /\ (InsideStack(calls[t]) <=> hu_mutex = t)
    BY <1>3, AtIs
  <2>3. InCalls(t) /\ hu_callcount[t] = 1 /\ Tail(calls[t]) = <<>>
    BY <2>2, BelowWrapper DEF Guarded
  <2>4. UNCHANGED <<hu_bypass, hu_bypass_saved, hu_callcount, hu_mutex, alive, stage, process>>
    BY <1>3 DEF localVars, sharedVars, processVars
  <2>5. InsideStack(calls[t])
    BY <2>2, InsideByParts DEF InsideFrame
  <2>6. CASE GoTo(t, after)
    <3>1. /\ calls' \in [Threads -> Seq(Frames)] /\ Others(t)
          /\ calls'[t] # <<>> /\ Tail(calls'[t]) = Tail(calls[t])
          /\ Head(calls'[t]).kind = "wrapper" /\ Head(calls'[t]).next = after
      BY <2>2, <2>6, WentTo DEF Steps
    <3>2. calls'[t] \in Seq(Frames)
      BY <3>1
    <3>3. InsideStack(calls'[t])
      BY <3>1, <3>2, InsideByParts DEF InsideFrame
    <3>4. InCalls(t)'
      BY <2>3, <2>4, <3>1 DEF InCalls, Counted, Is, Guarded
    <3>5. Apart(t) /\ (process = "parent" => ~hu_bypass_saved'[t])
      BY <2>4, <3>1 DEF Apart, Threaded
    <3> QED
      BY <1>0, <2>2, <2>4, <2>5, <3>1, <3>3, <3>4, <3>5, ThreadedByOne DEF Thread, Typed
  <2>7. CASE next = "log" /\ after = "unlock" /\ AllocateThen(t, after)
    <3>1. /\ calls' \in [Threads -> Seq(Frames)] /\ Others(t)
          /\ Is(calls'[t], "wrapper", {"enter"})
          /\ Tail(calls'[t]) # <<>> /\ Tail(Tail(calls'[t])) = Tail(calls[t])
          /\ Head(Tail(calls'[t])).kind = "wrapper"
          /\ Head(Tail(calls'[t])).next = "unlock"
          /\ Tail(calls'[t]) \in Seq(Frames)
      BY <2>2, <2>7, Allocated DEF Steps
    <3>2. calls'[t] \in Seq(Frames)
      BY <3>1
    <3>3. InsideStack(Tail(calls'[t]))
      BY <3>1, InsideByParts DEF InsideFrame
    <3>4. InsideStack(calls'[t])
      BY <3>1, <3>2, <3>3, InsideByParts DEF Is
    <3>5. InCalls(t)'
      BY <2>3, <2>4, <3>1 DEF InCalls, Counted, Is
    <3>6. Apart(t) /\ (process = "parent" => ~hu_bypass_saved'[t])
      BY <2>4, <3>1 DEF Apart, Threaded
    <3> QED
      BY <1>0, <2>2, <2>4, <2>5, <3>1, <3>4, <3>5, <3>6, ThreadedByOne DEF Thread, Typed
  <2> QED
    BY <1>3, <2>6, <2>7
<1>4. CASE WrapperBody(t)
  BY <1>3, <1>4 DEF WrapperBody
<1>5. CASE WrapperLog(t)
  BY <1>3, <1>5 DEF WrapperLog
<1>6. CASE WrapperUnguard(t)
  <2>1. /\ At(t, {"wrapper"}, "unguard") /\ AddToCallcount(t, -1) /\ Return(t)
        /\ UNCHANGED <<hu_bypass, hu_bypass_saved, sharedVars, processVars>>
    BY <1>6 DEF WrapperUnguard
  <2>2. /\ Thread(t) /\ t \in alive /\ calls[t] # <<>> /\ calls[t] \in Seq(Frames)
        /\ Head(calls[t]).kind = "wrapper" /\ Head(calls[t]).next = "unguard"
        /\ (InsideStack(calls[t]) <=> hu_mutex = t)
    BY <2>1, AtIs
  <2>3. calls' \in [Threads -> Seq(Frames)] /\ Others(t) /\ calls'[t] = Tail(calls[t])
    BY <2>1, <2>2, Returned
  <2>4. InsideStack(calls[t]) <=> InsideStack(calls'[t])
    BY <2>2, <2>3, InsideByParts DEF InsideFrame
  <2>5. UNCHANGED <<hu_bypass, hu_bypass_saved, hu_mutex, alive, stage, process>>
    BY <2>1 DEF sharedVars, processVars
  <2>6. /\ InCalls(t)
        /\ \/ hu_callcount[t] = 1 /\ Tail(calls[t]) = <<>>
           \/ /\ hu_callcount[t] = 2
              /\ Is(Tail(calls[t]), "wrapper", {"unlock"}) /\ Tail(Tail(calls[t])) = <<>>
    BY <2>2, BelowWrapper
  <2>7. /\ hu_callcount'[t] = hu_callcount[t] - 1 /\ hu_callcount' \in [Threads -> Nat]
        /\ \A u \in Threads \ {t} : hu_callcount'[u] = hu_callcount[u]
    BY <1>0, <2>1, <2>6, CallcountAdded
  <2>8. InCalls(t)'
    <3>1. process' = "parent" => ~hu_bypass'[t]
      BY <2>5, <2>6 DEF InCalls
    <3>2. CASE hu_callcount[t] = 1 /\ Tail(calls[t]) = <<>>
      <4>1. calls'[t] = <<>> /\ hu_callcount'[t] = 0
        BY <2>3, <2>7, <3>2
      <4> QED
        BY <3>1, <4>1 DEF InCalls, Counted
    <3>3. CASE /\ hu_callcount[t] = 2
               /\ Is(Tail(calls[t]), "wrapper", {"unlock"}) /\ Tail(Tail(calls[t])) = <<>>
      <4>1. /\ Is(calls'[t], "wrapper", Guarded) /\ Tail(calls'[t]) = <<>>
            /\ hu_callcount'[t] = 1
        BY <2>3, <2>7, <3>3 DEF Is, Guarded
      <4> QED
        BY <3>1, <4>1 DEF InCalls, Counted
    <3> QED
      BY <2>6, <3>2, <3>3
  <2>9. Apart(t) /\ (process = "parent" => ~hu_bypass_saved'[t])
    BY <2>3, <2>5, <2>7 DEF Apart, Threaded
  <2> QED
    BY <2>2, <2>3, <2>4, <2>5, <2>7, <2>8, <2>9, ThreadedByOne DEF Thread, Typed
<1> QED
  BY <1>1, <1>2, <1>4, <1>5, <1>6

-----------------------------------------------------------------------------
(***************************************************************************)
(* Reports, faults, exit and fork.                                         *)
(***************************************************************************)

\* Where a call that is not a wrapper can be, with the bypass as it is.
Legal(kind, next, bypass) ==
  \/ kind \in {"signal", "report"} /\ (next = "bypass" \/ (next \in ReportSteps /\ bypass))
  \/ /\ kind = "fault"
     /\ next \in {"bypass", "unbypass"} \/ (next \in {"summary", "print"} /\ bypass)
  \/ /\ kind = "fini"
     /\ next \in {"off", "bypass"} \/ (next \in FiniSteps /\ bypass)
  \/ kind = "fork" /\ next = "fork" /\ bypass

\* What it was called from.
Below(kind, rest, count, now) ==
  \/ kind = "signal" /\ Counted(rest, count, <<>>)
  \/ kind \in {"report", "fault", "fork"} /\ rest = <<>> /\ count = 0
  \/ kind = "fini" /\ Exiting(rest) /\ count = 0 /\ now # "running"

\* So it is for every thread that runs such a call,
LEMMA OtherIs ==
  ASSUME NEW t, Thread(t), calls[t] # <<>>, Head(calls[t]).kind # "wrapper"
  PROVE  /\ Legal(Head(calls[t]).kind, Head(calls[t]).next, hu_bypass[t])
         /\ Below(Head(calls[t]).kind, Tail(calls[t]), hu_callcount[t], stage)
<1>1. ~InCalls(t)
  BY DEF InCalls, Counted, Is
<1>2. CASE InSignal(t)
  BY <1>2 DEF InSignal, Running, Allocating, Is, Legal, Below
<1>3. CASE InReport(t)
  BY <1>3 DEF InReport, Running, Allocating, Is, Legal, Below
<1>4. CASE InFault(t)
  BY <1>4 DEF InFault, Running, Allocating, Is, Legal, Below
<1>5. CASE InExit(t)
  BY <1>5 DEF InExit, Running, Allocating, Is, Legal, Below
<1>6. CASE InFork(t)
  BY <1>6 DEF InFork, Running, Allocating, Is, Legal, Below
<1> QED
  BY <1>1, <1>2, <1>3, <1>4, <1>5, <1>6 DEF Thread

\* and every thread that comes to run one is as it should be.
LEMMA OtherBecomes ==
  ASSUME NEW t, calls'[t] # <<>>,
         Legal(Head(calls'[t]).kind, Head(calls'[t]).next, hu_bypass'[t]),
         Below(Head(calls'[t]).kind, Tail(calls'[t]), hu_callcount'[t], stage')
  PROVE  Thread(t)'
<1>1. CASE Head(calls'[t]).kind = "signal"
  <2>1. InSignal(t)'
    BY <1>1 DEF InSignal, Running, Is, Legal, Below
  <2> QED
    BY <2>1 DEF Thread
<1>2. CASE Head(calls'[t]).kind = "report"
  <2>1. InReport(t)'
    BY <1>2 DEF InReport, Running, Is, Legal, Below
  <2> QED
    BY <2>1 DEF Thread
<1>3. CASE Head(calls'[t]).kind = "fault"
  <2>1. InFault(t)'
    BY <1>3 DEF InFault, Running, Is, Legal, Below
  <2> QED
    BY <2>1 DEF Thread
<1>4. CASE Head(calls'[t]).kind = "fini"
  <2>1. InExit(t)'
    BY <1>4 DEF InExit, Running, Is, Legal, Below
  <2> QED
    BY <2>1 DEF Thread
<1>5. CASE Head(calls'[t]).kind = "fork"
  <2>1. InFork(t)'
    BY <1>5 DEF InFork, Running, Is, Legal, Below
  <2> QED
    BY <2>1 DEF Thread
<1> QED
  BY <1>1, <1>2, <1>3, <1>4, <1>5 DEF Legal

\* Such a call goes on at another step that leaves the mutex alone.
LEMMA OtherGoesTo ==
  ASSUME HuThreadsAssumption, TypeOK, Threaded, NEW t \in Threads,
         NEW kinds, "wrapper" \notin kinds, NEW from, At(t, kinds, from),
         NEW to \in Steps, GoTo(t, to),
         Legal(Head(calls[t]).kind, to, hu_bypass'[t]),
         \A u \in Threads \ {t} : hu_bypass'[u] = hu_bypass[u],
         UNCHANGED <<hu_bypass_saved, hu_callcount, hu_mutex, processVars>>,
         Head(calls[t]).kind = "fini" =>
           (from \in {"summary", "print", "unlock"} <=> to \in {"summary", "print", "unlock"})
  PROVE  Threaded' /\ Typed'
<1>1. /\ Thread(t) /\ t \in alive /\ calls[t] # <<>> /\ calls[t] \in Seq(Frames)
      /\ Head(calls[t]).kind \in kinds /\ Head(calls[t]).next = from
  BY AtIs
<1>2. /\ calls' \in [Threads -> Seq(Frames)] /\ Others(t)
      /\ calls'[t] # <<>> /\ Tail(calls'[t]) = Tail(calls[t])
      /\ Head(calls'[t]).kind = Head(calls[t]).kind /\ Head(calls'[t]).next = to
  BY <1>1, WentTo
<1>3. /\ UNCHANGED <<hu_bypass_saved, hu_callcount, hu_mutex, alive, stage, process>>
      /\ hu_callcount \in [Threads -> Nat] /\ calls'[t] \in Seq(Frames)
  BY <1>2, CallsType DEF processVars
<1>4. Below(Head(calls[t]).kind, Tail(calls[t]), hu_callcount[t], stage)
  BY <1>1, OtherIs
<1>5. Below(Head(calls'[t]).kind, Tail(calls'[t]), hu_callcount'[t], stage')
  BY <1>2, <1>3, <1>4 DEF Below
<1>6. Thread(t)'
  BY <1>2, <1>5, OtherBecomes
<1>7. InsideStack(calls[t]) <=> InsideStack(calls'[t])
  <2>1. InsideFrame(Head(calls[t])) <=> InsideFrame(Head(calls'[t]))
    BY <1>1, <1>2 DEF InsideFrame
  <2>2. InsideStack(calls[t]) <=> InsideFrame(Head(calls[t])) \/ InsideStack(Tail(calls[t]))
    BY <1>1, InsideByParts
  <2>3. InsideStack(calls'[t]) <=> InsideFrame(Head(calls'[t])) \/ InsideStack(Tail(calls'[t]))
    BY <1>2, <1>3, InsideByParts
  <2> QED
    BY <1>2, <2>1, <2>2, <2>3
<1>8. Apart(t) /\ (process = "parent" => ~hu_bypass_saved'[t])
  BY <1>2, <1>3 DEF Apart, Threaded
<1> QED
  BY <1>1, <1>2, <1>3, <1>6, <1>7, <1>8, ThreadedByOne DEF Typed

\* hu_set_bypass(true).
LEMMA BypassThreaded ==
  ASSUME HuThreadsAssumption, TypeOK, Threaded, NEW t \in Threads, Bypass(t)
  PROVE  Threaded' /\ Typed'
<1> DEFINE kind == Head(calls[t]).kind
           to == CASE kind = "fault" -> "summary"
                   [] kind = "fini" -> "lock"
                   [] kind = "init" -> "mutex"
                   [] OTHER -> "off"
           kinds == {"report", "signal", "fault", "fini", "init"}
<1>1. /\ At(t, kinds, "bypass") /\ SetBypass(t, TRUE) /\ GoTo(t, to)
      /\ UNCHANGED <<hu_bypass_saved, hu_callcount, hu_mutex, processVars>>
  BY DEF Bypass, sharedVars
<1>2. Thread(t) /\ calls[t] # <<>> /\ kind \in kinds
  BY <1>1, AtIs
<1>3. Legal(kind, "bypass", hu_bypass[t])
  BY <1>1, <1>2, OtherIs, AtIs
<1>4. kind \in {"report", "signal", "fault", "fini"}
  BY <1>3 DEF Legal
<1>5. hu_bypass'[t] /\ \A u \in Threads \ {t} : hu_bypass'[u] = hu_bypass[u]
  BY <1>1, BypassSet
<1>6. Legal(kind, to, hu_bypass'[t]) /\ to \in Steps
      /\ (kind = "fini" => to \notin {"summary", "print", "unlock"})
  BY <1>4, <1>5 DEF Legal, ReportSteps, FiniSteps, Steps
<1> HIDE DEF to, kinds
<1>7. "wrapper" \notin kinds
  BY DEF kinds
<1>8. kind = "fini" =>
        ("bypass" \in {"summary", "print", "unlock"} <=> to \in {"summary", "print", "unlock"})
  BY <1>6
<1> QED
  BY <1>1, <1>5, <1>6, <1>7, <1>8, OtherGoesTo

\* LogOff, Reported and LogOn.
LEMMA GoOnThreaded ==
  ASSUME HuThreadsAssumption, TypeOK, Threaded, NEW t \in Threads,
         LogOff(t) \/ Reported(t) \/ LogOn(t)
  PROVE  Threaded' /\ Typed'
<1> DEFINE kind == Head(calls[t]).kind
           Fini(step) == step \in {"summary", "print", "unlock"}
<1>1. ASSUME NEW kinds, "wrapper" \notin kinds, NEW from, NEW to \in Steps,
             At(t, kinds, from), GoTo(t, to), Legal(kind, to, hu_bypass[t]),
             kind = "fini" => (Fini(from) <=> Fini(to)),
             UNCHANGED <<localVars, hu_mutex, processVars>>
      PROVE  Threaded' /\ Typed'
  <2>1. /\ UNCHANGED <<hu_bypass, hu_bypass_saved, hu_callcount, hu_mutex, processVars>>
        /\ hu_bypass'[t] = hu_bypass[t]
        /\ \A u \in Threads \ {t} : hu_bypass'[u] = hu_bypass[u]
    BY <1>1 DEF localVars
  <2> QED
    BY <1>1, <2>1, OtherGoesTo
<1>2. CASE LogOff(t)
  <2> DEFINE to == IF kind = "fini" THEN "bypass" ELSE "summary"
             kinds == {"report", "signal", "fini"}
  <2>1. /\ At(t, kinds, "off") /\ GoTo(t, to)
        /\ UNCHANGED <<localVars, hu_mutex, processVars>>
    BY <1>2 DEF LogOff
  <2>2. kind \in kinds /\ Legal(kind, "off", hu_bypass[t])
    BY <2>1, AtIs, OtherIs
  <2>3. Legal(kind, to, hu_bypass[t]) /\ to \in Steps
        /\ (kind = "fini" => (Fini("off") <=> Fini(to)))
    BY <2>2 DEF Legal, ReportSteps, FiniSteps, Steps
  <2> HIDE DEF to
  <2> QED
    BY <1>1, <2>1, <2>3
<1>3. CASE Reported(t)
  <2> DEFINE to == CASE kind = "fault" -> "unbypass"
                     [] kind = "fini" -> "unlock"
                     [] OTHER -> "on"
             kinds == {"report", "signal", "fault", "fini"}
  <2>1. /\ At(t, kinds, "print") /\ GoTo(t, to)
        /\ UNCHANGED <<localVars, hu_mutex, processVars>>
    BY <1>3 DEF Reported, sharedVars
  <2>2. kind \in kinds /\ Legal(kind, "print", hu_bypass[t])
    BY <2>1, AtIs, OtherIs
  <2>3. Legal(kind, to, hu_bypass[t]) /\ to \in Steps
        /\ (kind = "fini" => (Fini("print") <=> Fini(to)))
    BY <2>2 DEF Legal, ReportSteps, FiniSteps, Steps
  <2> HIDE DEF to
  <2> QED
    BY <1>1, <2>1, <2>3
<1>4. CASE LogOn(t)
  <2> DEFINE kinds == {"report", "signal"}
  <2>1. /\ At(t, kinds, "on") /\ GoTo(t, "unbypass")
        /\ UNCHANGED <<localVars, hu_mutex, processVars>>
    BY <1>4 DEF LogOn
  <2>2. kind \in kinds /\ Legal(kind, "on", hu_bypass[t])
    BY <2>1, AtIs, OtherIs
  <2>3. Legal(kind, "unbypass", hu_bypass[t]) /\ "unbypass" \in Steps /\ kind # "fini"
    BY <2>2 DEF Legal, ReportSteps, Steps
  <2> QED
    BY <1>1, <2>1, <2>3
<1> QED
  BY <1>2, <1>3, <1>4


\* The allocations of log_summary and of hu_sig_handler go by the bypass.
LEMMA SummaryThreaded ==
  ASSUME HuThreadsAssumption, TypeOK, Threaded, NEW t \in Threads, Summary(t)
  PROVE  Threaded' /\ Typed'
<1> DEFINE kind == Head(calls[t]).kind
<1>1. /\ At(t, {"report", "signal", "fault", "fini"}, "summary") /\ AllocateThen(t, "print")
      /\ UNCHANGED <<hu_bypass, hu_bypass_saved, hu_callcount, hu_mutex, alive, stage, process>>
  BY DEF Summary, localVars, sharedVars, processVars
<1>2. /\ Thread(t) /\ t \in alive /\ calls[t] # <<>> /\ calls[t] \in Seq(Frames)
      /\ kind \in {"report", "signal", "fault", "fini"} /\ Head(calls[t]).next = "summary"
  BY <1>1, AtIs
<1>3. /\ calls' \in [Threads -> Seq(Frames)] /\ Others(t)
      /\ Is(calls'[t], "wrapper", {"enter"})
      /\ Tail(calls'[t]) # <<>> /\ Tail(Tail(calls'[t])) = Tail(calls[t])
      /\ Head(Tail(calls'[t])).kind = kind
      /\ Head(Tail(calls'[t])).next = "print"
      /\ Tail(calls'[t]) \in Seq(Frames)
  BY <1>1, <1>2, Allocated DEF Steps
<1>4. hu_bypass'[t] /\ Below(kind, Tail(calls[t]), hu_callcount'[t], stage')
  <2>1. Legal(kind, "summary", hu_bypass[t]) /\ Below(kind, Tail(calls[t]), hu_callcount[t], stage)
    BY <1>2, OtherIs
  <2>2. hu_bypass[t]
    BY <1>2, <2>1 DEF Legal
  <2> QED
    BY <1>1, <1>2, <1>3, <2>1, <2>2 DEF Below
<1>5. Thread(t)'
  <2>1. Tail(Tail(calls'[t])) = Tail(calls[t]) /\ Is(Tail(calls'[t]), kind, {"print"})
    BY <1>3 DEF Is
  <2>2. CASE kind = "signal"
    <3>1. InSignal(t)'
      BY <1>3, <1>4, <2>1, <2>2, Zenon DEF InSignal, Allocating, Below
    <3> QED
      BY <3>1 DEF Thread
  <2>3. CASE kind = "report"
    <3>1. InReport(t)'
      BY <1>3, <1>4, <2>1, <2>3 DEF InReport, Allocating, Below
    <3> QED
      BY <3>1 DEF Thread
  <2>4. CASE kind = "fault"
    <3>1. InFault(t)'
      BY <1>3, <1>4, <2>1, <2>4 DEF InFault, Allocating, Below
    <3> QED
      BY <3>1 DEF Thread
  <2>5. CASE kind = "fini"
    <3>1. InExit(t)'
      BY <1>3, <1>4, <2>1, <2>5 DEF InExit, Allocating, Below
    <3> QED
      BY <3>1 DEF Thread
  <2> QED
    BY <1>2, <2>2, <2>3, <2>4, <2>5
<1>6. InsideStack(calls[t]) <=> InsideStack(calls'[t])
  <2>1. InsideStack(calls[t]) <=> InsideFrame(Head(calls[t])) \/ InsideStack(Tail(calls[t]))
    BY <1>2, InsideByParts
  <2>2. InsideStack(Tail(calls'[t]))
          <=> InsideFrame(Head(Tail(calls'[t]))) \/ InsideStack(Tail(calls[t]))
    BY <1>3, InsideByParts
  <2>3. calls'[t] \in Seq(Frames) /\ calls'[t] # <<>> /\ ~InsideFrame(Head(calls'[t]))
    BY <1>3 DEF Is, InsideFrame
  <2>4. InsideStack(calls'[t]) <=> InsideStack(Tail(calls'[t]))
    BY <2>3, InsideByParts
  <2>5. InsideFrame(Head(calls[t])) <=> InsideFrame(Head(Tail(calls'[t])))
    BY <1>2, <1>3 DEF InsideFrame
  <2> QED
    BY <2>1, <2>2, <2>4, <2>5
<1>7. Apart(t) /\ (process = "parent" => ~hu_bypass_saved'[t])
  BY <1>1, <1>3 DEF Apart, Threaded
<1> QED
  BY <1>1, <1>2, <1>3, <1>5, <1>6, <1>7, ThreadedByOne, CallsType DEF Typed

\* The end of a report, in the program or back in the wrapper it interrupted.
LEMMA UnbypassThreaded ==
  ASSUME HuThreadsAssumption, TypeOK, Threaded, NEW t \in Threads, Unbypass(t)
  PROVE  Threaded' /\ Typed'
<1>1. /\ At(t, {"report", "signal"}, "unbypass") /\ SetBypass(t, FALSE) /\ Return(t)
      /\ UNCHANGED <<hu_bypass_saved, hu_callcount, hu_mutex, alive, stage, process>>
  BY DEF Unbypass, sharedVars, processVars
<1>2. /\ Thread(t) /\ t \in alive /\ calls[t] # <<>> /\ calls[t] \in Seq(Frames)
      /\ Head(calls[t]).kind \in {"report", "signal"} /\ Head(calls[t]).next = "unbypass"
  BY <1>1, AtIs
<1>3. calls' \in [Threads -> Seq(Frames)] /\ Others(t) /\ calls'[t] = Tail(calls[t])
  BY <1>1, <1>2, Returned
<1>4. ~hu_bypass'[t] /\ \A u \in Threads \ {t} : hu_bypass'[u] = hu_bypass[u]
  BY <1>1, BypassSet
<1>5. Counted(Tail(calls[t]), hu_callcount[t], <<>>)
  <2>1. Below(Head(calls[t]).kind, Tail(calls[t]), hu_callcount[t], stage)
    BY <1>2, OtherIs
  <2>2. CASE Head(calls[t]).kind = "report"
    BY <2>1, <2>2 DEF Below, Counted
  <2>3. CASE Head(calls[t]).kind = "signal"
    BY <2>1, <2>3 DEF Below
  <2> QED
    BY <1>2, <2>2, <2>3
<1>6. Thread(t)'
  <2>1. InCalls(t)'
    BY <1>1, <1>3, <1>4, <1>5 DEF InCalls
  <2> QED
    BY <2>1 DEF Thread
<1>7. InsideStack(calls[t]) <=> InsideStack(calls'[t])
  <2>1. ~InsideFrame(Head(calls[t]))
    BY <1>2 DEF InsideFrame
  <2> QED
    BY <1>2, <1>3, <2>1, InsideByParts
<1>8. Apart(t) /\ (process = "parent" => ~hu_bypass_saved'[t])
  BY <1>1, <1>3, <1>4 DEF Apart, Threaded
<1> QED
  BY <1>1, <1>2, <1>3, <1>6, <1>7, <1>8, ThreadedByOne, CallsType DEF Typed

\* A thread takes the mutex when it gets inside,
LEMMA LockThreaded ==
  ASSUME HuThreadsAssumption, TypeOK, Threaded, NEW t \in Threads, Lock(t)
  PROVE  Threaded' /\ Typed'
<1> DEFINE kind == Head(calls[t]).kind
           to == IF kind = "fini" THEN "summary" ELSE "body"
<1>1. /\ At(t, {"wrapper", "fini"}, "lock") /\ hu_mutex \in {Nobody, NoMutex}
      /\ hu_mutex' = (IF hu_mutex = NoMutex THEN NoMutex ELSE t) /\ GoTo(t, to)
      /\ UNCHANGED <<hu_bypass, hu_bypass_saved, hu_callcount, alive, stage, process>>
  BY DEF Lock, localVars, processVars
<1>2. /\ Thread(t) /\ t \in alive /\ calls[t] # <<>> /\ calls[t] \in Seq(Frames)
      /\ kind \in {"wrapper", "fini"} /\ Head(calls[t]).next = "lock"
  BY <1>1, AtIs
<1>3. hu_mutex = Nobody /\ hu_mutex' = t
  BY <1>1 DEF Threaded
<1>4. to \in Steps
  BY DEF Steps
<1>5. /\ calls' \in [Threads -> Seq(Frames)] /\ Others(t)
      /\ calls'[t] # <<>> /\ Tail(calls'[t]) = Tail(calls[t])
      /\ Head(calls'[t]).kind = kind /\ Head(calls'[t]).next = to
  BY <1>1, <1>2, <1>4, WentTo
<1>6. Thread(t)'
  <2>1. CASE kind = "wrapper"
    <3>1. InCalls(t) /\ hu_callcount[t] = 1 /\ Tail(calls[t]) = <<>>
      BY <1>2, <2>1, BelowWrapper DEF Guarded
    <3>2. Is(calls'[t], "wrapper", Guarded) /\ Tail(calls'[t]) = <<>>
      BY <1>5, <2>1, <3>1 DEF Is, Guarded
    <3>3. InCalls(t)'
      BY <1>1, <3>1, <3>2 DEF InCalls, Counted
    <3> QED
      BY <3>3 DEF Thread
  <2>2. CASE kind = "fini"
    <3>1. /\ Legal(kind, "lock", hu_bypass[t])
          /\ Below(kind, Tail(calls[t]), hu_callcount[t], stage)
      BY <1>2, <2>2, OtherIs
    <3>2. /\ Legal(Head(calls'[t]).kind, Head(calls'[t]).next, hu_bypass'[t])
          /\ Below(Head(calls'[t]).kind, Tail(calls'[t]), hu_callcount'[t], stage')
      BY <1>1, <1>5, <2>2, <3>1 DEF Legal, Below, FiniSteps
    <3> QED
      BY <1>5, <3>2, OtherBecomes
  <2> QED
    BY <1>2, <2>1, <2>2
<1>7. InsideStack(calls'[t])
  <2>1. calls'[t] \in Seq(Frames) /\ InsideFrame(Head(calls'[t]))
    BY <1>2, <1>5 DEF InsideFrame
  <2> QED
    BY <1>5, <2>1, InsideByParts
<1>8. Apart(t) /\ (process = "parent" => ~hu_bypass_saved'[t])
  BY <1>1, <1>5 DEF Apart, Threaded
<1> QED
  BY <1>1, <1>2, <1>3, <1>5, <1>6, <1>7, <1>8, ThreadedByOne, CallsType DEF Typed

\* and gives it back when it leaves.
LEMMA UnlockThreaded ==
  ASSUME HuThreadsAssumption, TypeOK, Threaded, NEW t \in Threads, Unlock(t)
  PROVE  Threaded' /\ Typed'
<1> DEFINE kind == Head(calls[t]).kind
           to == IF kind = "fini" THEN "unbypass" ELSE "unguard"
<1>1. /\ At(t, {"wrapper", "fini"}, "unlock")
      /\ hu_mutex' = (IF hu_mutex = NoMutex THEN NoMutex ELSE Nobody) /\ GoTo(t, to)
      /\ UNCHANGED <<hu_bypass, hu_bypass_saved, hu_callcount, alive, stage, process>>
  BY DEF Unlock, localVars, processVars
<1>2. /\ Thread(t) /\ t \in alive /\ calls[t] # <<>> /\ calls[t] \in Seq(Frames)
      /\ kind \in {"wrapper", "fini"} /\ Head(calls[t]).next = "unlock"
      /\ (InsideStack(calls[t]) <=> hu_mutex = t)
  BY <1>1, AtIs
<1>3. hu_mutex = t /\ hu_mutex' = Nobody
  <2>1. InsideFrame(Head(calls[t]))
    BY <1>2 DEF InsideFrame
  <2>2. hu_mutex = t
    BY <1>2, <2>1, InsideByParts
  <2> QED
    BY <1>1, <2>2 DEF Threaded
<1>4. to \in Steps
  BY DEF Steps
<1>5. /\ calls' \in [Threads -> Seq(Frames)] /\ Others(t)
      /\ calls'[t] # <<>> /\ Tail(calls'[t]) = Tail(calls[t])
      /\ Head(calls'[t]).kind = kind /\ Head(calls'[t]).next = to
  BY <1>1, <1>2, <1>4, WentTo
<1>6. Thread(t)' /\ ~InsideStack(Tail(calls[t]))
  <2>1. CASE kind = "wrapper"
    <3>1. InCalls(t) /\ hu_callcount[t] = 1 /\ Tail(calls[t]) = <<>>
      BY <1>2, <2>1, BelowWrapper DEF Guarded
    <3>2. Is(calls'[t], "wrapper", Guarded) /\ Tail(calls'[t]) = <<>>
      BY <1>5, <2>1, <3>1 DEF Is, Guarded
    <3>3. InCalls(t)'
      BY <1>1, <3>1, <3>2 DEF InCalls, Counted
    <3> QED
      BY <3>1, <3>3, NotInsideEmpty DEF Thread
  <2>2. CASE kind = "fini"
    <3>1. /\ Legal(kind, "unlock", hu_bypass[t])
          /\ Below(kind, Tail(calls[t]), hu_callcount[t], stage)
      BY <1>2, <2>2, OtherIs
    <3>2. /\ Legal(Head(calls'[t]).kind, Head(calls'[t]).next, hu_bypass'[t])
          /\ Below(Head(calls'[t]).kind, Tail(calls'[t]), hu_callcount'[t], stage')
      BY <1>1, <1>5, <2>2, <3>1 DEF Legal, Below, FiniSteps
    <3>3. Thread(t)'
      BY <1>5, <3>2, OtherBecomes
    <3>4. Exiting(Tail(calls[t])) /\ Tail(calls[t]) \in Seq(Frames)
      BY <1>2, <2>2, <3>1, HeadAndTail DEF Below
    <3> QED
      BY <3>3, <3>4, ExitingIsOutside
  <2> QED
    BY <1>2, <2>1, <2>2
<1>7. ~InsideStack(calls'[t])
  <2>1. calls'[t] \in Seq(Frames) /\ ~InsideFrame(Head(calls'[t]))
    BY <1>2, <1>5 DEF InsideFrame
  <2> QED
    BY <1>5, <1>6, <2>1, InsideByParts
<1>8. Apart(t) /\ (process = "parent" => ~hu_bypass_saved'[t])
  BY <1>1, <1>5 DEF Apart, Threaded
<1> QED
  BY <1>1, <1>2, <1>3, <1>5, <1>6, <1>7, <1>8, ThreadedByOne, CallsType DEF Typed

\* The end of hu_fini.
LEMMA FiniEndThreaded ==
  ASSUME HuThreadsAssumption, TypeOK, Threaded, NEW t \in Threads, FiniEnd(t)
  PROVE  Threaded' /\ Typed'
<1>1. /\ At(t, {"fini"}, "unbypass") /\ SetBypass(t, FALSE) /\ Return(t)
      /\ stage' = "ended"
      /\ UNCHANGED <<hu_bypass_saved, hu_callcount, hu_mutex, alive, process>>
  BY DEF FiniEnd, sharedVars
<1>2. /\ Thread(t) /\ t \in alive /\ calls[t] # <<>> /\ calls[t] \in Seq(Frames)
      /\ Head(calls[t]).kind = "fini" /\ Head(calls[t]).next = "unbypass"
  BY <1>1, AtIs
<1>3. calls' \in [Threads -> Seq(Frames)] /\ Others(t) /\ calls'[t] = Tail(calls[t])
  BY <1>1, <1>2, Returned
<1>4. ~hu_bypass'[t] /\ \A u \in Threads \ {t} : hu_bypass'[u] = hu_bypass[u]
  BY <1>1, BypassSet
<1>5. Exiting(Tail(calls[t])) /\ hu_callcount[t] = 0
  BY <1>2, OtherIs DEF Below
<1>6. Thread(t)'
  <2>1. CASE Tail(calls[t]) = <<>>
    <3>1. InCalls(t)'
      BY <1>1, <1>3, <1>4, <1>5, <2>1 DEF InCalls, Counted
    <3> QED
      BY <3>1 DEF Thread
  <2>2. CASE Is(Tail(calls[t]), "fault", {"unbypass"}) /\ Tail(Tail(calls[t])) = <<>>
    <3>1. InFault(t)'
      BY <1>1, <1>3, <1>5, <2>2 DEF InFault, Is
    <3> QED
      BY <3>1 DEF Thread
  <2> QED
    BY <1>5, <2>1, <2>2 DEF Exiting
<1>7. InsideStack(calls[t]) <=> InsideStack(calls'[t])
  <2>1. ~InsideFrame(Head(calls[t]))
    BY <1>2 DEF InsideFrame
  <2> QED
    BY <1>2, <1>3, <2>1, InsideByParts
<1>8. Apart(t) /\ (process = "parent" => ~hu_bypass_saved'[t])
  BY <1>1, <1>3, <1>4 DEF Apart, Threaded
<1> QED
  BY <1>1, <1>2, <1>3, <1>6, <1>7, <1>8, ThreadedByOne, CallsType DEF Typed

-----------------------------------------------------------------------------
(***************************************************************************)
(* What the program does.                                                  *)
(***************************************************************************)

\* A thread that runs its program is in no call.
LEMMA ProgramIs ==
  ASSUME TypeOK, Threaded, NEW t \in Threads, t \in alive, calls[t] = <<>>
  PROVE  /\ InCalls(t) /\ hu_callcount[t] = 0
         /\ process = "parent" => ~hu_bypass[t]
         /\ hu_mutex # t
<1>1. Thread(t) /\ (InsideStack(calls[t]) <=> hu_mutex = t)
  BY InsideIs DEF Threaded
<1>2. ~InSignal(t) /\ ~InReport(t) /\ ~InFault(t) /\ ~InExit(t) /\ ~InFork(t)
  BY DEF InSignal, InReport, InFault, InExit, InFork, Running, Allocating, Is
<1>3. InCalls(t)
  BY <1>1, <1>2 DEF Thread
<1>4. hu_callcount[t] = 0 /\ (process = "parent" => ~hu_bypass[t])
  BY <1>3 DEF InCalls, Counted, Is
<1> QED
  BY <1>1, <1>3, <1>4, NotInsideEmpty

\* A new call on top that is not inside yet.
LEMMA EnterThreaded ==
  ASSUME HuThreadsAssumption, TypeOK, Threaded, NEW t \in Threads, t \in alive,
         NEW call \in Frames, ~InsideFrame(call), Enter(t, call),
         \A u \in Threads \ {t} : hu_bypass'[u] = hu_bypass[u],
         UNCHANGED <<hu_bypass_saved, hu_callcount, hu_mutex, alive, process>>,
         stage # "running" => stage' # "running",
         /\ calls'[t] # <<>> /\ Head(calls'[t]) = call /\ Tail(calls'[t]) = calls[t]
            => Thread(t)'
  PROVE  Threaded' /\ Typed'
<1>1. /\ calls' \in [Threads -> Seq(Frames)] /\ Others(t)
      /\ calls'[t] # <<>> /\ Head(calls'[t]) = call /\ Tail(calls'[t]) = calls[t]
  BY Entered
<1>2. Thread(t)'
  BY <1>1
<1>3. InsideStack(calls[t]) <=> InsideStack(calls'[t])
  <2>1. calls'[t] \in Seq(Frames)
    BY <1>1
  <2>2. InsideStack(calls'[t]) <=> InsideFrame(Head(calls'[t])) \/ InsideStack(Tail(calls'[t]))
    BY <1>1, <2>1, InsideByParts
  <2> QED
    BY <1>1, <2>2
<1>4. Apart(t) /\ (process = "parent" => ~hu_bypass_saved'[t])
  BY <1>1 DEF Apart, Threaded
<1> QED
  BY <1>1, <1>2, <1>3, <1>4, ThreadedByOne, CallsType DEF Typed

\* The program calls malloc or hu_report, or touches protected memory.
LEMMA CallsThreaded ==
  ASSUME HuThreadsAssumption, TypeOK, Threaded, NEW t \in Threads,
         CallWrapper(t) \/ CallReport(t) \/ TouchProtected(t)
  PROVE  Threaded' /\ Typed'
<1> DEFINE Above(call) == /\ calls'[t] # <<>> /\ Head(calls'[t]) = call
                          /\ Tail(calls'[t]) = calls[t]
<1>1. /\ t \in alive /\ calls[t] = <<>>
      /\ UNCHANGED <<hu_bypass, hu_bypass_saved, hu_callcount, hu_mutex, alive, stage, process>>
  BY DEF CallWrapper, CallReport, TouchProtected, InProgram, localVars, sharedVars, processVars
<1>2. /\ InCalls(t) /\ hu_callcount[t] = 0
      /\ process = "parent" => ~hu_bypass[t]
  BY <1>1, ProgramIs
<1>3. CASE CallWrapper(t)
  <2>1. /\ Enter(t, Wrapper) /\ Wrapper \in Frames
        /\ Wrapper.kind = "wrapper" /\ Wrapper.next = "enter"
    BY <1>3, FrameOf DEF CallWrapper, Wrapper, Kinds, Steps
  <2>2. ASSUME Above(Wrapper) PROVE Thread(t)'
    <3>1. Is(calls'[t], "wrapper", {"enter"}) /\ Tail(calls'[t]) = <<>>
      BY <1>1, <2>1, <2>2 DEF Is
    <3>2. InCalls(t)'
      BY <1>1, <1>2, <3>1 DEF InCalls, Counted
    <3> QED
      BY <3>2 DEF Thread
  <2>3. ~InsideFrame(Wrapper)
    BY <2>1 DEF InsideFrame
  <2> QED
    BY <1>1, <2>1, <2>2, <2>3, EnterThreaded
<1>4. ASSUME NEW kind \in {"report", "fault"}, Enter(t, Call(kind, "bypass"))
      PROVE  Threaded' /\ Typed'
  <2> DEFINE call == Call(kind, "bypass")
  <2>1. call \in Frames /\ call.kind = kind /\ call.next = "bypass"
    BY FrameOf DEF Kinds, Steps
  <2> HIDE DEF call
  <2>2. ASSUME Above(call) PROVE Thread(t)'
    <3>1. Legal(kind, "bypass", hu_bypass'[t]) /\ Below(kind, calls[t], hu_callcount'[t], stage')
      BY <1>1, <1>2, <1>4 DEF Legal, Below
    <3> QED
      BY <2>1, <2>2, <3>1, OtherBecomes
  <2>3. ~InsideFrame(call) /\ Enter(t, call)
    BY <1>4, <2>1 DEF InsideFrame, call
  <2> QED
    BY <1>1, <2>1, <2>2, <2>3, EnterThreaded
<1>5. CASE CallReport(t)
  BY <1>4, <1>5 DEF CallReport
<1>6. CASE TouchProtected(t)
  BY <1>4, <1>6 DEF TouchProtected
<1> QED
  BY <1>3, <1>5, <1>6

\* A signal interrupts the program or wrappers, and nothing else.
LEMMA SignalThreaded ==
  ASSUME HuThreadsAssumption, Undisturbed, TypeOK, Threaded, NEW t \in Threads, Signal(t)
  PROVE  Threaded' /\ Typed'
<1> DEFINE call == Call("signal", "bypass")
<1>1. /\ t \in alive /\ Enter(t, call)
      /\ UNCHANGED <<hu_bypass, hu_bypass_saved, hu_callcount, hu_mutex, alive, stage, process>>
  BY DEF Signal, localVars, sharedVars, processVars
<1>2. InCalls(t)
  <2>1. CASE calls[t] = <<>>
    BY <1>1, <2>1, ProgramIs
  <2>2. CASE calls[t] # <<>>
    <3>1. /\ calls[t] \in Seq(Frames) /\ Len(calls[t]) \in Nat \ {0}
          /\ Head(calls[t]) = calls[t][1] /\ Tail(calls[t]) \in Seq(Frames)
          /\ Len(Tail(calls[t])) = Len(calls[t]) - 1
          /\ \A i \in 1 .. Len(Tail(calls[t])) : Tail(calls[t])[i] = calls[t][i + 1]
      BY <2>2, CallsType, HeadAndTail
    <3>2. \A i \in 1 .. Len(calls[t]) : calls[t][i].kind \in {"program", "wrapper"}
      BY <2>2 DEF Signal, Undisturbed
    <3>3. Head(calls[t]).kind \in {"program", "wrapper"}
      BY <3>1, <3>2
    <3>4. Tail(calls[t]) # <<>> => Head(Tail(calls[t])).kind \in {"program", "wrapper"}
      <4>1. SUFFICES ASSUME Tail(calls[t]) # <<>>
                     PROVE  Head(Tail(calls[t])).kind \in {"program", "wrapper"}
        OBVIOUS
      <4>2. Head(Tail(calls[t])) = Tail(calls[t])[1] /\ Len(Tail(calls[t])) \in Nat \ {0}
        BY <3>1, <4>1, HeadAndTail
      <4>3. 1 \in 1 .. Len(Tail(calls[t])) /\ 2 \in 1 .. Len(calls[t]) /\ 1 + 1 = 2
        <5> DEFINE n == Len(calls[t])
                   m == Len(Tail(calls[t]))
        <5>1. n \in Nat \ {0} /\ m \in Nat \ {0} /\ m = n - 1
          BY <3>1, <4>2
        <5> HIDE DEF n, m
        <5>2. 1 \in 1 .. m /\ 2 \in 1 .. n /\ 1 + 1 = 2
          BY <5>1
        <5> QED
          BY <5>2 DEF n, m
      <4>4. Tail(calls[t])[1] = calls[t][2]
        <5>1. Tail(calls[t])[1] = calls[t][1 + 1]
          BY <3>1, <4>3
        <5> QED
          BY <4>3, <5>1
      <4> QED
        BY <3>2, <4>2, <4>3, <4>4
    <3>5. Thread(t)
      BY <1>1 DEF Threaded
    <3> QED
      BY <3>3, <3>4, <3>5 DEF Thread, InSignal, InReport, InFault, InExit, InFork,
                              Running, Allocating, Is
  <2> QED
    BY <2>1, <2>2
<1>3. call \in Frames /\ call.kind = "signal" /\ call.next = "bypass"
  BY FrameOf DEF Kinds, Steps
<1> HIDE DEF call
<1>4. ASSUME calls'[t] # <<>>, Head(calls'[t]) = call, Tail(calls'[t]) = calls[t]
      PROVE  Thread(t)'
  <2>1. /\ Legal("signal", "bypass", hu_bypass'[t])
        /\ Below("signal", calls[t], hu_callcount'[t], stage')
    BY <1>1, <1>2 DEF Legal, Below, InCalls
  <2> QED
    BY <1>3, <1>4, <2>1, OtherBecomes
<1>5. ~InsideFrame(call)
  BY <1>3 DEF InsideFrame
<1> QED
  BY <1>1, <1>3, <1>4, <1>5, EnterThreaded

\* The program calls exit(),
LEMMA ExitThreaded ==
  ASSUME HuThreadsAssumption, Undisturbed, TypeOK, Threaded, NEW t \in Threads, CallExit(t)
  PROVE  Threaded' /\ Typed'
<1> DEFINE call == Call("fini", "off")
<1>1. /\ t \in alive /\ Enter(t, call) /\ stage' = "exiting" /\ calls[t] = <<>>
      /\ UNCHANGED <<hu_bypass, hu_bypass_saved, hu_callcount, hu_mutex, alive, process>>
  BY DEF CallExit, Undisturbed, localVars, sharedVars
<1>2. hu_callcount[t] = 0
  BY <1>1, ProgramIs
<1>3. call \in Frames /\ call.kind = "fini" /\ call.next = "off"
  BY FrameOf DEF Kinds, Steps
<1> HIDE DEF call
<1>4. ASSUME calls'[t] # <<>>, Head(calls'[t]) = call, Tail(calls'[t]) = calls[t]
      PROVE  Thread(t)'
  <2>1. Legal("fini", "off", hu_bypass'[t]) /\ Below("fini", calls[t], hu_callcount'[t], stage')
    BY <1>1, <1>2 DEF Legal, Below, Exiting
  <2> QED
    BY <1>3, <1>4, <2>1, OtherBecomes
<1>5. ~InsideFrame(call)
  BY <1>3 DEF InsideFrame
<1> QED
  BY <1>1, <1>3, <1>4, <1>5, EnterThreaded

\* and so does hu_sig_handler.
LEMMA FaultExitThreaded ==
  ASSUME HuThreadsAssumption, TypeOK, Threaded, NEW t \in Threads, FaultExit(t)
  PROVE  Threaded' /\ Typed'
<1> DEFINE call == Call("fini", "off")
<1>1. /\ At(t, {"fault"}, "unbypass") /\ SetBypass(t, FALSE) /\ Enter(t, call)
      /\ stage' = "exiting"
      /\ UNCHANGED <<hu_bypass_saved, hu_callcount, hu_mutex, alive, process>>
  BY DEF FaultExit, sharedVars
<1>2. /\ Thread(t) /\ t \in alive /\ calls[t] # <<>>
      /\ Head(calls[t]).kind = "fault" /\ Head(calls[t]).next = "unbypass"
  BY <1>1, AtIs
<1>3. Tail(calls[t]) = <<>> /\ hu_callcount[t] = 0
  BY <1>2, OtherIs DEF Below
<1>4. call \in Frames /\ call.kind = "fini" /\ call.next = "off"
  BY FrameOf DEF Kinds, Steps
<1> HIDE DEF call
<1>5. ASSUME calls'[t] # <<>>, Head(calls'[t]) = call, Tail(calls'[t]) = calls[t]
      PROVE  Thread(t)'
  <2>1. Legal("fini", "off", hu_bypass'[t]) /\ Below("fini", calls[t], hu_callcount'[t], stage')
    BY <1>1, <1>2, <1>3 DEF Legal, Below, Exiting, Is
  <2> QED
    BY <1>4, <1>5, <2>1, OtherBecomes
<1>6. ~InsideFrame(call)
  BY <1>4 DEF InsideFrame
<1>7. \A u \in Threads \ {t} : hu_bypass'[u] = hu_bypass[u]
  BY <1>1, BypassSet
<1> QED
  BY <1>1, <1>2, <1>4, <1>5, <1>6, <1>7, EnterThreaded

-----------------------------------------------------------------------------
(***************************************************************************)
(* fork.                                                                   *)
(***************************************************************************)
\* hu_atfork_prepare: the saved bypass is off in the parent.
LEMMA PrepareThreaded ==
  ASSUME HuThreadsAssumption, TypeOK, Threaded, NEW t \in Threads, AtforkPrepare(t)
  PROVE  Threaded' /\ Typed'
<1> DEFINE waiting == <<Call("fork", "fork")>> \o calls[t]
           longer == <<Wrapper>> \o waiting
<1>1. /\ t \in alive /\ calls[t] = <<>> /\ SetBypass(t, TRUE)
      /\ hu_bypass_saved' = [hu_bypass_saved EXCEPT ![t] = hu_bypass[t]]
      /\ calls' = [calls EXCEPT ![t] = <<Wrapper, Call("fork", "fork")>> \o @]
      /\ UNCHANGED <<hu_callcount, hu_mutex, alive, stage, process>>
  BY DEF AtforkPrepare, InProgram, sharedVars, processVars
<1>2. hu_callcount[t] = 0 /\ (process = "parent" => ~hu_bypass[t])
  BY <1>1, ProgramIs
<1>3. /\ Call("fork", "fork") \in Frames
      /\ Call("fork", "fork").kind = "fork" /\ Call("fork", "fork").next = "fork"
      /\ Wrapper \in Frames /\ Wrapper.kind = "wrapper" /\ Wrapper.next = "enter"
      /\ calls[t] \in Seq(Frames)
  BY FrameOf, CallsType DEF Wrapper, Kinds, Steps
<1>4. <<Wrapper, Call("fork", "fork")>> \o calls[t] = longer
  BY <1>3
<1>5. /\ waiting \in Seq(Frames) /\ waiting # <<>> /\ Head(waiting) = Call("fork", "fork")
      /\ Tail(waiting) = calls[t]
  BY <1>3, Pushed
<1>6. calls' = [calls EXCEPT ![t] = longer]
  BY <1>1, <1>4
<1> HIDE DEF waiting
<1>7. /\ longer \in Seq(Frames) /\ longer # <<>> /\ Head(longer) = Wrapper
      /\ Tail(longer) = waiting
  BY <1>3, <1>5, Pushed
<1> HIDE DEF longer
<1>8. calls' \in [Threads -> Seq(Frames)] /\ Others(t) /\ calls'[t] = longer
  BY <1>6, <1>7, CallsType DEF Others
<1>9. hu_bypass'[t] /\ \A u \in Threads \ {t} : hu_bypass'[u] = hu_bypass[u]
  BY <1>1, BypassSet
<1>10. Thread(t)'
  <2>1. InFork(t)'
    BY <1>1, <1>2, <1>3, <1>5, <1>7, <1>8, <1>9 DEF InFork, Allocating, Is
  <2> QED
    BY <2>1 DEF Thread
<1>11. InsideStack(calls[t]) <=> InsideStack(calls'[t])
  <2>1. ~InsideFrame(Wrapper) /\ ~InsideFrame(Call("fork", "fork"))
    BY <1>3 DEF InsideFrame
  <2>2. InsideStack(longer) <=> InsideStack(waiting)
    BY <1>7, <2>1, InsideByParts
  <2>3. InsideStack(waiting) <=> InsideStack(calls[t])
    BY <1>5, <2>1, InsideByParts
  <2> QED
    BY <1>8, <2>2, <2>3
<1>12. Apart(t) /\ (process = "parent" => ~hu_bypass_saved'[t])
  BY <1>1, <1>2, <1>8, <1>9, CallsType DEF Apart, Threaded
<1> QED
  BY <1>1, <1>8, <1>10, <1>11, <1>12, ThreadedByOne, CallsType DEF Typed

\* A thread that is back from fork.
LEMMA ForkIs ==
  ASSUME TypeOK, Threaded, NEW t \in Threads, At(t, {"fork"}, "fork")
  PROVE  /\ t \in alive /\ calls[t] # <<>> /\ Tail(calls[t]) = <<>>
         /\ hu_callcount[t] = 0 /\ ~InsideStack(calls[t]) /\ hu_mutex # t
<1>1. /\ Thread(t) /\ t \in alive /\ calls[t] # <<>> /\ calls[t] \in Seq(Frames)
      /\ Head(calls[t]).kind = "fork" /\ (InsideStack(calls[t]) <=> hu_mutex = t)
  BY AtIs
<1>2. Tail(calls[t]) = <<>> /\ hu_callcount[t] = 0
  BY <1>1, OtherIs DEF Below
<1>3. ~InsideFrame(Head(calls[t]))
  BY <1>1 DEF InsideFrame
<1>4. ~InsideStack(calls[t])
  BY <1>1, <1>2, <1>3, InsideByParts, NotInsideEmpty
<1> QED
  BY <1>1, <1>2, <1>4

\* hu_atfork_parent puts it back.
LEMMA ParentThreaded ==
  ASSUME HuThreadsAssumption, TypeOK, Threaded, NEW t \in Threads, AtforkParent(t)
  PROVE  Threaded' /\ Typed'
<1>1. /\ At(t, {"fork"}, "fork") /\ SetBypass(t, hu_bypass_saved[t]) /\ Return(t)
      /\ UNCHANGED <<hu_bypass_saved, hu_callcount, hu_mutex, alive, stage, process>>
  BY DEF AtforkParent, sharedVars, processVars
<1>2. /\ t \in alive /\ calls[t] # <<>> /\ Tail(calls[t]) = <<>>
      /\ hu_callcount[t] = 0 /\ ~InsideStack(calls[t])
  BY <1>1, ForkIs
<1>3. calls' \in [Threads -> Seq(Frames)] /\ Others(t) /\ calls'[t] = <<>>
  BY <1>1, <1>2, Returned
<1>4. hu_bypass_saved[t] \in BOOLEAN /\ (process = "parent" => ~hu_bypass_saved[t])
  BY CallsType DEF Threaded
<1>5. hu_bypass'[t] = hu_bypass_saved[t] /\ \A u \in Threads \ {t} : hu_bypass'[u] = hu_bypass[u]
  BY <1>1, <1>4, BypassSet
<1>6. Thread(t)'
  <2>1. InCalls(t)'
    BY <1>1, <1>2, <1>3, <1>4, <1>5 DEF InCalls, Counted
  <2> QED
    BY <2>1 DEF Thread
<1>7. InsideStack(calls[t]) <=> InsideStack(calls'[t])
  BY <1>2, <1>3, NotInsideEmpty
<1>8. Apart(t) /\ (process = "parent" => ~hu_bypass_saved'[t])
  BY <1>1, <1>3, <1>4, <1>5 DEF Apart
<1> QED
  BY <1>1, <1>2, <1>3, <1>6, <1>7, <1>8, ThreadedByOne, CallsType DEF Typed

\* The child has the forking thread only, which is not the holder of the mutex.
LEMMA ChildThreaded ==
  ASSUME HuThreadsAssumption, TypeOK, Threaded, NEW t \in Threads, AtforkChild(t)
  PROVE  Threaded' /\ Typed'
<1>1. /\ At(t, {"fork"}, "fork") /\ process' = "child" /\ alive' = {t}
      /\ calls' = [u \in Threads |-> IF u = t THEN Tail(calls[t]) ELSE <<>>]
      /\ UNCHANGED <<hu_bypass, hu_bypass_saved, hu_callcount, hu_mutex, stage>>
  BY DEF AtforkChild, localVars, sharedVars
<1>2. Tail(calls[t]) = <<>> /\ hu_callcount[t] = 0 /\ hu_mutex # t
  BY <1>1, ForkIs
<1>3. calls' = [u \in Threads |-> <<>>]
  BY <1>1, <1>2
<1>4. calls' \in [Threads -> Seq(Frames)] /\ calls'[t] = <<>>
  BY <1>3
<1>5. Thread(t)'
  <2>1. InCalls(t)'
    BY <1>1, <1>2, <1>4 DEF InCalls, Counted
  <2> QED
    BY <2>1 DEF Thread
<1>6. Inside(t)' <=> hu_mutex' = t
  BY <1>1, <1>2, <1>4, InsideIs, NotInsideEmpty
<1>7. hu_mutex' # NoMutex /\ process' # "parent"
  BY <1>1 DEF Threaded
<1> QED
  BY <1>1, <1>4, <1>5, <1>6, <1>7, CallsType DEF Threaded, Typed

-----------------------------------------------------------------------------
(***************************************************************************)
(* hu_init.                                                                *)
(***************************************************************************)

\* A step of the main thread.
LEMMA InitialisingByMain ==
  ASSUME Initialising, Apart(Main), stage' = stage,
         UNCHANGED hu_bypass_saved, InInit'
  PROVE  Initialising'
BY DEF Initialising, Apart, Others

\* There is only the main thread, which is in hu_init all the time.
LEMMA InitIs ==
  ASSUME HuThreadsAssumption, TypeOK, Initialising
  PROVE  /\ Main \in Threads /\ alive = {Main} /\ stage = "running"
         /\ calls[Main] \in Seq(Frames) /\ calls[Main] # <<>>
         /\ Head(calls[Main]).kind \in {"wrapper", "init"}
         /\ InStack(calls[Main], {"init"}, Steps)
         /\ hu_mutex \in {Nobody, NoMutex}
<1>1. /\ Main \in Threads /\ alive = {Main} /\ stage = "running"
      /\ calls[Main] \in Seq(Frames)
  BY CallsType DEF HuThreadsAssumption, Initialising
<1>2. ASSUME NEW s \in Seq(Frames), NEW steps, Is(s, "init", steps)
      PROVE  s # <<>> /\ InStack(s, {"init"}, Steps)
  <2>1. s # <<>> /\ Head(s).kind \in {"init"} /\ Head(s).next \in Steps
    BY <1>2, HeadAndTail, FrameFields DEF Is
  <2> QED
    BY <2>1, InStackByParts
<1>3. ASSUME NEW s \in Seq(Frames), s # <<>>, InStack(Tail(s), {"init"}, Steps)
      PROVE  InStack(s, {"init"}, Steps)
  BY <1>3, InStackByParts
<1>4. CASE Starting
  <2>1. Is(calls[Main], "init", {"start"}) /\ hu_mutex = NoMutex
    BY <1>4 DEF Starting
  <2> QED
    BY <1>1, <1>2, <2>1 DEF Is
<1>5. CASE Made
  <2>1. Is(calls[Main], "init", {"on"}) /\ hu_mutex = Nobody
    BY <1>5 DEF Made
  <2> QED
    BY <1>1, <1>2, <2>1 DEF Is
<1>6. CASE Making
  <2>1. hu_mutex = NoMutex
    BY <1>6 DEF Making
  <2>2. CASE Is(calls[Main], "init", {"mutex", "set"})
    BY <1>1, <1>2, <2>1, <2>2 DEF Is
  <2>3. CASE Is(calls[Main], "wrapper", {"enter"}) /\ Is(Tail(calls[Main]), "init", {"set"})
    <3>1. calls[Main] # <<>> /\ Tail(calls[Main]) \in Seq(Frames)
          /\ Head(calls[Main]).kind = "wrapper"
      BY <1>1, <2>3, HeadAndTail DEF Is
    <3>2. InStack(Tail(calls[Main]), {"init"}, Steps)
      BY <1>2, <2>3, <3>1
    <3> QED
      BY <1>1, <1>3, <2>1, <3>1, <3>2
  <2> QED
    BY <1>6, <2>2, <2>3 DEF Making, Running, Allocating
<1>7. ASSUME NEW base \in Stacks, LoggingUpTo(base)
      PROVE  /\ hu_mutex = NoMutex /\ calls[Main] # <<>>
             /\ Head(calls[Main]).kind \in {"wrapper", "init"}
             /\ InStack(calls[Main], {"init"}, Steps)
  <2>1. InStack(base, {"init"}, Steps) /\ base # <<>> /\ Head(base).kind = "init"
    <3>1. base \in Seq(Frames) /\ Is(base, "init", {"bypass"})
      BY <1>7 DEF Stacks, Frames, LoggingUpTo
    <3> QED
      BY <1>2, <3>1 DEF Is
  <2>2. CASE calls[Main] = base
    BY <1>7, <2>1, <2>2 DEF LoggingUpTo
  <2>3. CASE calls[Main] # <<>> /\ Head(calls[Main]).kind = "wrapper" /\ Tail(calls[Main]) = base
    BY <1>1, <1>3, <1>7, <2>1, <2>3 DEF LoggingUpTo
  <2>4. CASE /\ calls[Main] # <<>> /\ Head(calls[Main]).kind = "wrapper"
             /\ Tail(calls[Main]) # <<>> /\ Tail(Tail(calls[Main])) = base
    <3>1. Tail(calls[Main]) \in Seq(Frames)
      BY <1>1, <2>4, HeadAndTail
    <3>2. InStack(Tail(calls[Main]), {"init"}, Steps)
      BY <1>3, <2>1, <2>4, <3>1
    <3> QED
      BY <1>1, <1>3, <1>7, <2>4, <3>2 DEF LoggingUpTo
  <2> QED
    BY <1>7, <2>2, <2>3, <2>4 DEF LoggingUpTo, Counted, Is
<1> QED
  BY <1>1, <1>4, <1>5, <1>6, <1>7 DEF Initialising, InInit

\* The allocations of log_init, as there is no mutex yet.
LEMMA LoggingGoesOn ==
  ASSUME HuThreadsAssumption, TypeOK, Initialising,
         NEW base \in Stacks, LoggingUpTo(base), Head(calls[Main]).kind = "wrapper",
         \/ WrapperBypass(Main) \/ WrapperGuard(Main) \/ Lock(Main) \/ WrapperBody(Main)
         \/ WrapperLog(Main) \/ Unlock(Main) \/ WrapperUnguard(Main)
  PROVE  Initialising' /\ Typed'
<1> DEFINE s == calls[Main]
           n == hu_callcount[Main]
           Simple == s # <<>> /\ Tail(s) = base
           Nested == /\ Is(Tail(s), "wrapper", {"unlock"}) /\ Tail(Tail(s)) = base
<1>1. /\ Main \in Threads /\ s \in Seq(Frames) /\ s # <<>> /\ Head(s).kind = "wrapper"
      /\ hu_mutex = NoMutex /\ hu_callcount \in [Threads -> Nat] /\ n \in Nat
      /\ Head(base).kind = "init" /\ base # <<>>
  BY InitIs, CallsType DEF LoggingUpTo, Is
<1>2. \/ Head(s).next = "enter" /\ n = 0 /\ Simple
      \/ Head(s).next \in Guarded /\ n = 1 /\ Simple
      \/ Head(s).next = "enter" /\ n = 1 /\ Nested
      \/ Head(s).next = "unguard" /\ n = 2 /\ Nested
  BY <1>1 DEF LoggingUpTo, Counted, Is
<1>3. ASSUME calls' \in [Threads -> Seq(Frames)], Others(Main),
             Counted(calls'[Main], hu_callcount'[Main], base),
             hu_callcount' \in [Threads -> Nat],
             \A u \in Threads \ {Main} : hu_callcount'[u] = hu_callcount[u],
             hu_mutex' = hu_mutex, UNCHANGED <<hu_bypass, hu_bypass_saved, processVars>>
      PROVE  Initialising' /\ Typed'
  <2>1. Apart(Main) /\ stage' = stage /\ UNCHANGED hu_bypass_saved
    BY <1>3 DEF Apart, processVars
  <2>2. LoggingUpTo(base)'
    BY <1>1, <1>3 DEF LoggingUpTo
  <2>3. InInit'
    BY <2>2 DEF InInit
  <2> QED
    BY <1>3, <2>1, <2>3, InitialisingByMain DEF Typed
<1>4. CASE WrapperBypass(Main)
  <2>1. /\ Return(Main) /\ Head(s).next = "enter"
        /\ UNCHANGED <<hu_bypass, hu_bypass_saved, hu_callcount, hu_mutex, processVars>>
    BY <1>4 DEF WrapperBypass, At, localVars, sharedVars
  <2>2. calls' \in [Threads -> Seq(Frames)] /\ Others(Main) /\ calls'[Main] = Tail(s)
    BY <1>1, <2>1, Returned
  <2>3. Counted(Tail(s), n, base)
    BY <1>2, <2>1 DEF Counted, Is, Guarded
  <2> QED
    BY <1>1, <1>3, <2>1, <2>2, <2>3
<1>5. CASE WrapperGuard(Main)
  <2> DEFINE to == IF hu_callcount[Main] + 1 > 1 THEN "unguard" ELSE "lock"
  <2>1. /\ AddToCallcount(Main, 1) /\ GoTo(Main, to) /\ Head(s).next = "enter"
        /\ UNCHANGED <<hu_bypass, hu_bypass_saved, hu_mutex, processVars>>
    BY <1>5 DEF WrapperGuard, At, sharedVars
  <2>2. to \in Steps
    BY DEF Steps
  <2>3. /\ calls' \in [Threads -> Seq(Frames)] /\ Others(Main)
        /\ calls'[Main] # <<>> /\ Tail(calls'[Main]) = Tail(s)
        /\ Head(calls'[Main]).kind = "wrapper" /\ Head(calls'[Main]).next = to
    BY <1>1, <2>1, <2>2, WentTo
  <2>4. /\ hu_callcount'[Main] = n + 1 /\ hu_callcount' \in [Threads -> Nat]
        /\ \A u \in Threads \ {Main} : hu_callcount'[u] = hu_callcount[u]
    BY <1>1, <2>1, CallcountAdded
  <2>5. Counted(calls'[Main], hu_callcount'[Main], base)
    <3>1. CASE n = 0 /\ Simple
      <4>1. to = "lock" /\ n + 1 = 1
        BY <3>1
      <4> QED
        BY <2>3, <2>4, <3>1, <4>1 DEF Counted, Is, Guarded
    <3>2. CASE n = 1 /\ Nested
      <4>1. to = "unguard" /\ n + 1 = 2
        BY <3>2
      <4> QED
        BY <2>3, <2>4, <3>2, <4>1 DEF Counted, Is
    <3> QED
      BY <1>2, <2>1, <3>1, <3>2 DEF Guarded
  <2> QED
    BY <1>3, <2>1, <2>3, <2>4, <2>5
<1>6. ASSUME NEW from \in Guarded \ {"unguard"}, NEW to \in Guarded, GoTo(Main, to),
             Head(s).next = from, hu_mutex' = hu_mutex,
             UNCHANGED <<localVars, processVars>>
      PROVE  Initialising' /\ Typed'
  <2>1. n = 1 /\ Simple
    BY <1>2, <1>6 DEF Guarded
  <2>2. to \in Steps
    BY DEF Guarded, Steps
  <2>3. /\ calls' \in [Threads -> Seq(Frames)] /\ Others(Main)
        /\ calls'[Main] # <<>> /\ Tail(calls'[Main]) = Tail(s)
        /\ Head(calls'[Main]).kind = "wrapper" /\ Head(calls'[Main]).next = to
    BY <1>1, <1>6, <2>2, WentTo
  <2>4. UNCHANGED <<hu_bypass, hu_bypass_saved, hu_callcount, processVars>>
    BY <1>6 DEF localVars
  <2>5. Counted(calls'[Main], hu_callcount'[Main], base)
    BY <2>1, <2>3, <2>4 DEF Counted, Is
  <2> QED
    BY <1>1, <1>3, <1>6, <2>3, <2>4, <2>5
<1>7. CASE Lock(Main) \/ Unlock(Main) \/ WrapperBody(Main)
  BY <1>1, <1>6, <1>7 DEF Lock, Unlock, WrapperBody, At, sharedVars, Guarded
<1>8. CASE WrapperLog(Main)
  <2>1. /\ AllocateThen(Main, "unlock") /\ Head(s).next = "log"
        /\ UNCHANGED <<hu_bypass, hu_bypass_saved, hu_callcount, hu_mutex, processVars>>
    BY <1>8 DEF WrapperLog, At, localVars, sharedVars
  <2>2. n = 1 /\ Simple
    BY <1>2, <2>1
  <2>3. /\ calls' \in [Threads -> Seq(Frames)] /\ Others(Main)
        /\ Is(calls'[Main], "wrapper", {"enter"})
        /\ Tail(calls'[Main]) # <<>> /\ Tail(Tail(calls'[Main])) = Tail(s)
        /\ Head(Tail(calls'[Main])).kind = "wrapper"
        /\ Head(Tail(calls'[Main])).next = "unlock"
    BY <1>1, <2>1, Allocated DEF Steps
  <2>4. Counted(calls'[Main], hu_callcount'[Main], base)
    BY <2>1, <2>2, <2>3 DEF Counted, Is
  <2> QED
    BY <1>1, <1>3, <2>1, <2>3, <2>4
<1>9. CASE WrapperUnguard(Main)
  <2>1. /\ AddToCallcount(Main, -1) /\ Return(Main) /\ Head(s).next = "unguard"
        /\ UNCHANGED <<hu_bypass, hu_bypass_saved, hu_mutex, processVars>>
    BY <1>9 DEF WrapperUnguard, At, sharedVars
  <2>2. calls' \in [Threads -> Seq(Frames)] /\ Others(Main) /\ calls'[Main] = Tail(s)
    BY <1>1, <2>1, Returned
  <2>3. (n = 1 /\ Simple) \/ (n = 2 /\ Nested)
    BY <1>2, <2>1
  <2>4. /\ hu_callcount'[Main] = n - 1 /\ hu_callcount' \in [Threads -> Nat]
        /\ \A u \in Threads \ {Main} : hu_callcount'[u] = hu_callcount[u]
    BY <1>1, <2>1, <2>3, CallcountAdded
  <2>5. Counted(calls'[Main], hu_callcount'[Main], base)
    <3>1. CASE n = 1 /\ Simple
      <4>1. n - 1 = 0
        BY <3>1
      <4> QED
        BY <2>2, <2>4, <3>1, <4>1 DEF Counted
    <3>2. CASE n = 2 /\ Nested
      <4>1. n - 1 = 1
        BY <3>2
      <4> QED
        BY <2>2, <2>4, <3>2, <4>1 DEF Counted, Is, Guarded
    <3> QED
      BY <2>3, <3>1, <3>2
  <2> QED
    BY <1>3, <2>1, <2>2, <2>4, <2>5
<1> QED
  BY <1>4, <1>5, <1>7, <1>8, <1>9

\* A wrapper call in hu_init.
LEMMA WrapperInitialising ==
  ASSUME HuThreadsAssumption, TypeOK, Initialising, Head(calls[Main]).kind = "wrapper",
         \/ WrapperBypass(Main) \/ WrapperGuard(Main) \/ Lock(Main) \/ WrapperBody(Main)
         \/ WrapperLog(Main) \/ Unlock(Main) \/ WrapperUnguard(Main)
  PROVE  Initialising' /\ Typed'
<1>1. ~Starting /\ ~Made
  BY DEF Starting, Made, Is
<1>2. ASSUME NEW base \in Stacks, LoggingUpTo(base) PROVE Initialising' /\ Typed'
  BY <1>2, LoggingGoesOn
<1>3. CASE Making
  <2>1. /\ hu_mutex = NoMutex /\ hu_callcount[Main] = 0 /\ hu_bypass[Main]
        /\ calls[Main] # <<>> /\ Head(calls[Main]).next = "enter"
        /\ Is(Tail(calls[Main]), "init", {"set"}) /\ Tail(Tail(calls[Main])) = <<>>
    BY <1>3 DEF Making, Running, Allocating, Is
  <2>2. WrapperBypass(Main)
    BY <2>1 DEF WrapperGuard, Lock, WrapperBody, WrapperLog, Unlock, WrapperUnguard, At
  <2>3. /\ Return(Main) /\ Main \in Threads
        /\ UNCHANGED <<hu_bypass, hu_bypass_saved, hu_callcount, hu_mutex, alive, stage, process>>
    BY <2>2, InitIs DEF WrapperBypass, localVars, sharedVars, processVars
  <2>4. calls' \in [Threads -> Seq(Frames)] /\ Others(Main) /\ calls'[Main] = Tail(calls[Main])
    BY <2>1, <2>3, Returned
  <2>5. Apart(Main)
    BY <2>3, <2>4 DEF Apart
  <2>6. Making'
    BY <2>1, <2>3, <2>4 DEF Making, Running, Is
  <2> QED
    BY <2>3, <2>4, <2>5, <2>6, InitialisingByMain, CallsType DEF InInit, Typed
<1> QED
  BY <1>1, <1>2, <1>3 DEF Initialising, InInit

\* The steps of hu_init itself.
LEMMA InitStepInitialising ==
  ASSUME HuThreadsAssumption, TypeOK, Initialising, Head(calls[Main]).kind = "init",
         InitLog(Main) \/ Bypass(Main) \/ InitMutex(Main) \/ SetMutex(Main)
  PROVE  Initialising' /\ Typed'
<1>1. Main \in Threads /\ calls[Main] # <<>> /\ calls[Main] \in Seq(Frames)
  BY InitIs
<1>2. CASE InitLog(Main)
  <2>1. /\ AllocateThen(Main, "bypass") /\ Head(calls[Main]).next = "start"
        /\ UNCHANGED <<hu_bypass, hu_bypass_saved, hu_callcount, hu_mutex, alive, stage, process>>
    BY <1>2 DEF InitLog, At, localVars, sharedVars, processVars
  <2>2. hu_mutex = NoMutex /\ hu_callcount[Main] = 0 /\ Tail(calls[Main]) = <<>>
    BY <2>1 DEF Initialising, InInit, Starting, LoggingUpTo, Making, Made, Counted,
                Running, Allocating, Is
  <2>3. /\ calls' \in [Threads -> Seq(Frames)] /\ Others(Main)
        /\ Is(calls'[Main], "wrapper", {"enter"})
        /\ Tail(calls'[Main]) # <<>> /\ Tail(Tail(calls'[Main])) = Tail(calls[Main])
        /\ Head(Tail(calls'[Main])).kind = "init" /\ Head(Tail(calls'[Main])).next = "bypass"
        /\ Tail(calls'[Main]) \in Seq(Frames)
    BY <1>1, <2>1, Allocated DEF Steps
  <2>4. ASSUME NEW base, base = Tail(calls'[Main]) PROVE base \in Stacks /\ LoggingUpTo(base)'
    BY <2>1, <2>2, <2>3, <2>4 DEF LoggingUpTo, Counted, Is, Stacks, Frames
  <2>5. InInit'
    BY <2>4 DEF InInit
  <2>6. Apart(Main)
    BY <2>1, <2>3 DEF Apart
  <2> QED
    BY <2>1, <2>3, <2>5, <2>6, InitialisingByMain, CallsType DEF Typed
<1>3. CASE Bypass(Main)
  <2>1. /\ GoTo(Main, "mutex") /\ SetBypass(Main, TRUE) /\ Head(calls[Main]).next = "bypass"
        /\ UNCHANGED <<hu_bypass_saved, hu_callcount, hu_mutex, alive, stage, process>>
    BY <1>3 DEF Bypass, At, sharedVars, processVars
  <2>2. hu_mutex = NoMutex /\ hu_callcount[Main] = 0 /\ Tail(calls[Main]) = <<>>
    <3>1. ~Starting /\ ~Making /\ ~Made
      BY <1>1, <2>1 DEF Starting, Making, Made, Running, Allocating, Is
    <3>2. PICK base \in Stacks : LoggingUpTo(base)
      BY <3>1 DEF Initialising, InInit
    <3> QED
      BY <3>2 DEF LoggingUpTo, Counted, Is
  <2>3. /\ calls' \in [Threads -> Seq(Frames)] /\ Others(Main)
        /\ calls'[Main] # <<>> /\ Tail(calls'[Main]) = Tail(calls[Main])
        /\ Head(calls'[Main]).kind = "init" /\ Head(calls'[Main]).next = "mutex"
    BY <1>1, <2>1, WentTo DEF Steps
  <2>4. hu_bypass'[Main] /\ \A u \in Threads \ {Main} : hu_bypass'[u] = hu_bypass[u]
    BY <1>1, <2>1, BypassSet
  <2>5. Making'
    BY <2>1, <2>2, <2>3, <2>4 DEF Making, Running, Is
  <2>6. Apart(Main)
    BY <2>1, <2>3, <2>4 DEF Apart
  <2> QED
    BY <2>1, <2>3, <2>5, <2>6, InitialisingByMain, CallsType DEF InInit, Typed
<1>4. CASE InitMutex(Main)
  <2>1. /\ AllocateThen(Main, "set") /\ Head(calls[Main]).next = "mutex"
        /\ UNCHANGED <<hu_bypass, hu_bypass_saved, hu_callcount, hu_mutex, alive, stage, process>>
    BY <1>4 DEF InitMutex, At, localVars, sharedVars, processVars
  <2>2. /\ hu_mutex = NoMutex /\ hu_callcount[Main] = 0 /\ Tail(calls[Main]) = <<>>
        /\ hu_bypass[Main]
    BY <2>1 DEF Initialising, InInit, Starting, LoggingUpTo, Making, Made, Counted,
                Running, Allocating, Is
  <2>3. /\ calls' \in [Threads -> Seq(Frames)] /\ Others(Main)
        /\ Is(calls'[Main], "wrapper", {"enter"})
        /\ Tail(calls'[Main]) # <<>> /\ Tail(Tail(calls'[Main])) = Tail(calls[Main])
        /\ Head(Tail(calls'[Main])).kind = "init" /\ Head(Tail(calls'[Main])).next = "set"
    BY <1>1, <2>1, Allocated DEF Steps
  <2>4. Making'
    BY <2>1, <2>2, <2>3 DEF Making, Allocating, Is
  <2>5. Apart(Main)
    BY <2>1, <2>3 DEF Apart
  <2> QED
    BY <2>1, <2>3, <2>4, <2>5, InitialisingByMain, CallsType DEF InInit, Typed
<1>5. CASE SetMutex(Main)
  <2>1. /\ GoTo(Main, "on") /\ SetBypass(Main, FALSE) /\ Head(calls[Main]).next = "set"
        /\ hu_mutex' = Nobody
        /\ UNCHANGED <<hu_bypass_saved, hu_callcount, alive, stage, process>>
    BY <1>5 DEF SetMutex, At, sharedVars, processVars
  <2>2. hu_callcount[Main] = 0 /\ Tail(calls[Main]) = <<>>
    BY <2>1 DEF Initialising, InInit, Starting, LoggingUpTo, Making, Made, Counted,
                Running, Allocating, Is
  <2>3. /\ calls' \in [Threads -> Seq(Frames)] /\ Others(Main)
        /\ calls'[Main] # <<>> /\ Tail(calls'[Main]) = Tail(calls[Main])
        /\ Head(calls'[Main]).kind = "init" /\ Head(calls'[Main]).next = "on"
    BY <1>1, <2>1, WentTo DEF Steps
  <2>4. ~hu_bypass'[Main] /\ \A u \in Threads \ {Main} : hu_bypass'[u] = hu_bypass[u]
    BY <1>1, <2>1, BypassSet
  <2>5. Made'
    BY <2>1, <2>2, <2>3, <2>4 DEF Made, Is
  <2>6. Apart(Main)
    BY <2>1, <2>3, <2>4 DEF Apart
  <2> QED
    BY <2>1, <2>3, <2>5, <2>6, InitialisingByMain, CallsType DEF InInit, Typed
<1> QED
  BY <1>2, <1>3, <1>4, <1>5

\* The end of hu_init: the program starts, with all its threads.
LEMMA InitEndThreaded ==
  ASSUME HuThreadsAssumption, TypeOK, Initialising, InitEnd(Main)
  PROVE  Threaded' /\ logging_enabled' /\ Typed'
<1>1. /\ Return(Main) /\ logging_enabled' /\ alive' = Threads
      /\ Head(calls[Main]).next = "on" /\ Head(calls[Main]).kind = "init"
      /\ UNCHANGED <<hu_bypass, hu_bypass_saved, hu_callcount, hu_mutex, stage, process>>
  BY DEF InitEnd, At, localVars
<1>2. Main \in Threads /\ calls[Main] # <<>>
  BY InitIs
<1>3. /\ hu_mutex = Nobody /\ hu_callcount[Main] = 0 /\ ~hu_bypass[Main]
      /\ Tail(calls[Main]) = <<>>
  BY <1>1 DEF Initialising, InInit, Starting, LoggingUpTo, Making, Made, Counted,
              Running, Allocating, Is
<1>4. calls' \in [Threads -> Seq(Frames)] /\ Others(Main) /\ calls'[Main] = <<>>
  BY <1>1, <1>2, <1>3, Returned
<1>5. ASSUME NEW t \in Threads PROVE Thread(t)' /\ (Inside(t)' <=> hu_mutex' = t)
  <2>1. calls'[t] = <<>> /\ hu_callcount'[t] = 0 /\ ~hu_bypass'[t]
    BY <1>1, <1>3, <1>4 DEF Others, Initialising
  <2>2. InCalls(t)'
    BY <2>1 DEF InCalls, Counted
  <2>3. ~Inside(t)' /\ hu_mutex' # t
    BY <1>1, <1>3, <2>1, InsideIs, NotInsideEmpty DEF HuThreadsAssumption
  <2> QED
    BY <2>2, <2>3 DEF Thread
<1>6. hu_mutex' # NoMutex /\ \A t \in Threads : ~hu_bypass_saved'[t]
  BY <1>1, <1>3 DEF HuThreadsAssumption, Initialising
<1> QED
  BY <1>1, <1>4, <1>5, <1>6, CallsType DEF Threaded, Typed

-----------------------------------------------------------------------------
(***************************************************************************)
(* The invariant.                                                          *)
(***************************************************************************)

\* Every step while hu_init runs.
LEMMA StepsOfInit ==
  ASSUME HuThreadsAssumption, Undisturbed, TypeOK, Initialising, NEW t \in Threads,
         Program(t) \/ Continue(t)
  PROVE  (Initialising' \/ (Threaded' /\ logging_enabled')) /\ Typed'
<1>1. /\ alive = {Main} /\ calls[Main] # <<>> /\ calls[Main] \in Seq(Frames)
      /\ Head(calls[Main]).kind \in {"wrapper", "init"}
      /\ InStack(calls[Main], {"init"}, Steps)
  BY InitIs
<1>2. t = Main
  <2>1. t \in alive
    BY DEF Program, Continue, CallWrapper, CallReport, Signal, TouchProtected, CallExit,
           AtforkPrepare, InProgram, WrapperBypass, WrapperGuard, Lock, WrapperBody,
           WrapperLog, Unlock, WrapperUnguard, Bypass, LogOff, Summary, Reported, LogOn,
           Unbypass, FaultExit, FiniEnd, InitLog, InitMutex, SetMutex, InitEnd,
           AtforkParent, AtforkChild, At
  <2> QED
    BY <1>1, <2>1
<1>3. ~Program(Main)
  <2>1. ~Signal(Main)
    <3>1. PICK i \in 1 .. Len(calls[Main]) : calls[Main][i].kind = "init"
      BY <1>1 DEF InStack
    <3>2. "init" \notin Interruptible
      BY DEF Undisturbed
    <3> QED
      BY <1>1, <3>1, <3>2 DEF Signal
  <2>2. ~CallExit(Main)
    BY <1>1 DEF CallExit, Undisturbed
  <2> QED
    BY <1>1, <2>1, <2>2
       DEF Program, CallWrapper, CallReport, TouchProtected, AtforkPrepare, InProgram
<1>4. CASE Head(calls[Main]).kind = "wrapper"
  <2>1. \/ WrapperBypass(Main) \/ WrapperGuard(Main) \/ Lock(Main) \/ WrapperBody(Main)
        \/ WrapperLog(Main) \/ Unlock(Main) \/ WrapperUnguard(Main)
    BY <1>2, <1>3, <1>4 DEF Continue, Bypass, LogOff, Summary, Reported, LogOn, Unbypass,
       FaultExit, FiniEnd, InitLog, InitMutex, SetMutex, InitEnd, AtforkParent,
       AtforkChild, At
  <2> QED
    BY <1>4, <2>1, WrapperInitialising
<1>5. CASE Head(calls[Main]).kind = "init"
  <2>1. InitLog(Main) \/ Bypass(Main) \/ InitMutex(Main) \/ SetMutex(Main) \/ InitEnd(Main)
    BY <1>2, <1>3, <1>5 DEF Continue, WrapperBypass, WrapperGuard, Lock, WrapperBody,
       WrapperLog, Unlock, WrapperUnguard, LogOff, Summary, Reported, LogOn, Unbypass,
       FaultExit, FiniEnd, AtforkParent, AtforkChild, At
  <2> QED
    BY <1>5, <2>1, InitStepInitialising, InitEndThreaded
<1> QED
  BY <1>1, <1>4, <1>5

\* Every step after it.
LEMMA StepsOfThreads ==
  ASSUME HuThreadsAssumption, Undisturbed, TypeOK, Threaded, NEW t \in Threads,
         Program(t) \/ Continue(t)
  PROVE  Threaded' /\ Typed'
<1>1. ~InitLog(t) /\ ~InitMutex(t) /\ ~SetMutex(t) /\ ~InitEnd(t)
  <2>1. ASSUME NEW next, At(t, {"init"}, next) PROVE FALSE
    <3>1. Thread(t) /\ calls[t] # <<>> /\ Head(calls[t]).kind = "init"
      BY <2>1, AtIs
    <3> QED
      BY <3>1, OtherIs DEF Legal
  <2> QED
    BY <2>1 DEF InitLog, InitMutex, SetMutex, InitEnd
<1>2. CASE Program(t)
  BY <1>2, CallsThreaded, SignalThreaded, ExitThreaded, PrepareThreaded DEF Program
<1>3. CASE Continue(t)
  BY <1>1, <1>3, WrapperThreaded, LockThreaded, UnlockThreaded, BypassThreaded,
     GoOnThreaded, SummaryThreaded, UnbypassThreaded, FaultExitThreaded, FiniEndThreaded,
     ParentThreaded, ChildThreaded DEF Continue
<1> QED
  BY <1>2, <1>3

\* The types of the variables that no lemma above speaks of.
LEMMA TypeKept ==
  ASSUME HuThreadsAssumption, TypeOK, NEW t \in Threads, Program(t) \/ Continue(t), Typed'
  PROVE  TypeOK'
<1>1. calls' \in [Threads -> Seq([kind : Kinds, next : Steps])] /\ hu_callcount' \in [Threads -> Nat]
  BY DEF Typed, Frames
<1>2. hu_bypass' \in [Threads -> BOOLEAN] /\ hu_bypass_saved' \in [Threads -> BOOLEAN]
  BY DEF TypeOK, Program, Continue, CallWrapper, CallReport, Signal, TouchProtected, CallExit,
         AtforkPrepare, WrapperBypass, WrapperGuard, Lock, WrapperBody,
         WrapperLog, Unlock, WrapperUnguard, Bypass, LogOff, Summary, Reported, LogOn,
         Unbypass, FaultExit, FiniEnd, InitLog, InitMutex, SetMutex, InitEnd,
         AtforkParent, AtforkChild, SetBypass, localVars
<1>3. hu_mutex' \in Threads \cup {Nobody, NoMutex} /\ logging_enabled' \in BOOLEAN
  BY DEF TypeOK, Program, Continue, CallWrapper, CallReport, Signal, TouchProtected, CallExit,
         AtforkPrepare, WrapperBypass, WrapperGuard, Lock, WrapperBody,
         WrapperLog, Unlock, WrapperUnguard, Bypass, LogOff, Summary, Reported, LogOn,
         Unbypass, FaultExit, FiniEnd, InitLog, InitMutex, SetMutex, InitEnd,
         AtforkParent, AtforkChild, sharedVars
<1>4. /\ alive' \subseteq Threads /\ stage' \in {"running", "exiting", "ended"}
      /\ process' \in {"parent", "child"}
  BY DEF TypeOK, Program, Continue, CallWrapper, CallReport, Signal, TouchProtected, CallExit,
         AtforkPrepare, WrapperBypass, WrapperGuard, Lock, WrapperBody,
         WrapperLog, Unlock, WrapperUnguard, Bypass, LogOff, Summary, Reported, LogOn,
         Unbypass, FaultExit, FiniEnd, InitLog, InitMutex, SetMutex, InitEnd,
         AtforkParent, AtforkChild, processVars
<1>5. spent' \in [calls : 0 .. MaxCalls, reports : 0 .. MaxReports,
                  signals : 0 .. MaxSignals, forks : 0 .. MaxForks]
  <2>1. CASE Continue(t)
    BY <2>1 DEF TypeOK, Continue, WrapperBypass, WrapperGuard, Lock, WrapperBody,
         WrapperLog, Unlock, WrapperUnguard, Bypass, LogOff, Summary, Reported, LogOn,
         Unbypass, FaultExit, FiniEnd, InitLog, InitMutex, SetMutex, InitEnd,
         AtforkParent, AtforkChild
  <2>2. CASE CallWrapper(t)
    <3>1. /\ spent.calls < MaxCalls /\ spent.calls \in 0 .. MaxCalls /\ MaxCalls \in Nat
          /\ spent' = [spent EXCEPT !.calls = @ + 1]
      BY <2>2 DEF CallWrapper, TypeOK, HuThreadsAssumption
    <3>2. spent.calls + 1 \in 0 .. MaxCalls
      BY <3>1
    <3> QED
      BY <3>1, <3>2 DEF TypeOK
  <2>3. CASE CallReport(t)
    <3>1. /\ spent.reports < MaxReports /\ spent.reports \in 0 .. MaxReports /\ MaxReports \in Nat
          /\ spent' = [spent EXCEPT !.reports = @ + 1]
      BY <2>3 DEF CallReport, TypeOK, HuThreadsAssumption
    <3>2. spent.reports + 1 \in 0 .. MaxReports
      BY <3>1
    <3> QED
      BY <3>1, <3>2 DEF TypeOK
  <2>4. CASE Signal(t)
    <3>1. /\ spent.signals < MaxSignals /\ spent.signals \in 0 .. MaxSignals /\ MaxSignals \in Nat
          /\ spent' = [spent EXCEPT !.signals = @ + 1]
      BY <2>4 DEF Signal, TypeOK, HuThreadsAssumption
    <3>2. spent.signals + 1 \in 0 .. MaxSignals
      BY <3>1
    <3> QED
      BY <3>1, <3>2 DEF TypeOK
  <2>5. CASE AtforkPrepare(t)
    <3>1. /\ spent.forks < MaxForks /\ spent.forks \in 0 .. MaxForks /\ MaxForks \in Nat
          /\ spent' = [spent EXCEPT !.forks = @ + 1]
      BY <2>5 DEF AtforkPrepare, TypeOK, HuThreadsAssumption
    <3>2. spent.forks + 1 \in 0 .. MaxForks
      BY <3>1
    <3> QED
      BY <3>1, <3>2 DEF TypeOK
  <2>6. CASE TouchProtected(t) \/ CallExit(t)
    BY <2>6 DEF TypeOK, TouchProtected, CallExit
  <2> QED
    BY <2>1, <2>2, <2>3, <2>4, <2>5, <2>6 DEF Program
<1> QED
  BY <1>1, <1>2, <1>3, <1>4, <1>5 DEF TypeOK

\* A report that has turned logging off.
ReportFrame(call) ==
  call.kind \in {"report", "signal"} /\ call.next \in {"summary", "print", "on"}

\* Reporting, of a stack.
ReportStack(stack) == InStack(stack, {"report", "signal"}, {"summary", "print", "on"})

\* A report on the stack is its first call or in the rest.
LEMMA ReportByParts ==
  ASSUME NEW s \in Seq(Frames), s # <<>>
  PROVE  ReportStack(s) <=> ReportFrame(Head(s)) \/ ReportStack(Tail(s))
BY InStackByParts DEF ReportStack, ReportFrame

\* A report that has turned logging off stays until it turns it on.
LEMMA ReporterStays ==
  ASSUME TypeOK, NEW t \in Threads, ReportStack(calls[t]), Program(t) \/ Continue(t),
         ~LogOn(t), ~AtforkChild(t)
  PROVE  ReportStack(calls'[t])
<1>1. calls[t] \in Seq(Frames) /\ calls[t] # <<>>
  BY CallsType, InNoStack DEF ReportStack
<1>2. ReportFrame(Head(calls[t])) \/ ReportStack(Tail(calls[t]))
  BY <1>1, ReportByParts
<1>3. ASSUME NEW call \in Frames, Enter(t, call) PROVE ReportStack(calls'[t])
  <2>1. calls'[t] \in Seq(Frames) /\ calls'[t] # <<>> /\ Tail(calls'[t]) = calls[t]
    BY <1>3, Entered
  <2>2. ReportStack(calls'[t]) <=> ReportFrame(Head(calls'[t])) \/ ReportStack(Tail(calls'[t]))
    BY <2>1, ReportByParts
  <2> QED
    BY <2>1, <2>2
<1>4. ASSUME ~ReportFrame(Head(calls[t])), Return(t) PROVE ReportStack(calls'[t])
  BY <1>1, <1>2, <1>4, Returned
<1>5. ASSUME NEW to \in Steps, GoTo(t, to),
             ReportFrame(Head(calls[t])) => to \in {"summary", "print", "on"}
      PROVE  ReportStack(calls'[t])
  <2>1. /\ calls'[t] \in Seq(Frames) /\ calls'[t] # <<>> /\ Tail(calls'[t]) = Tail(calls[t])
        /\ Head(calls'[t]).kind = Head(calls[t]).kind /\ Head(calls'[t]).next = to
    BY <1>1, <1>5, WentTo
  <2>2. ReportFrame(Head(calls[t])) => ReportFrame(Head(calls'[t]))
    BY <1>5, <2>1 DEF ReportFrame
  <2>3. ReportStack(calls'[t]) <=> ReportFrame(Head(calls'[t])) \/ ReportStack(Tail(calls'[t]))
    BY <2>1, ReportByParts
  <2> QED
    BY <1>2, <2>1, <2>2, <2>3
<1>6. ASSUME NEW to \in Steps, AllocateThen(t, to),
             ReportFrame(Head(calls[t])) => to \in {"summary", "print", "on"}
      PROVE  ReportStack(calls'[t])
  <2>1. /\ calls'[t] \in Seq(Frames) /\ calls'[t] # <<>> /\ Tail(calls'[t]) \in Seq(Frames)
        /\ Tail(calls'[t]) # <<>> /\ Tail(Tail(calls'[t])) = Tail(calls[t])
        /\ Head(Tail(calls'[t])).kind = Head(calls[t]).kind
        /\ Head(Tail(calls'[t])).next = to
    BY <1>1, <1>6, Allocated DEF Is
  <2>2. ReportFrame(Head(calls[t])) => ReportFrame(Head(Tail(calls'[t])))
    BY <1>6, <2>1 DEF ReportFrame
  <2>3. ReportStack(Tail(calls'[t]))
          <=> ReportFrame(Head(Tail(calls'[t]))) \/ ReportStack(Tail(Tail(calls'[t])))
    BY <2>1, ReportByParts
  <2>4. ReportStack(calls'[t]) <=> ReportFrame(Head(calls'[t])) \/ ReportStack(Tail(calls'[t]))
    BY <2>1, ReportByParts
  <2> QED
    BY <1>2, <2>1, <2>2, <2>3, <2>4
<1>7. CASE Program(t)
  <2>1. Signal(t) \/ CallExit(t)
    BY <1>1, <1>7 DEF Program, CallWrapper, CallReport, TouchProtected, AtforkPrepare, InProgram
  <2>2. PICK kind \in Kinds, next \in Steps : Enter(t, Call(kind, next))
    BY <2>1 DEF Signal, CallExit, Kinds, Steps
  <2> QED
    BY <1>3, <2>2, FrameOf
<1>8. CASE WrapperGuard(t) \/ Lock(t) \/ WrapperBody(t) \/ Unlock(t) \/ SetMutex(t)
  <2>1. PICK to \in Steps : GoTo(t, to)
    BY <1>8 DEF WrapperGuard, Lock, WrapperBody, Unlock, SetMutex, Steps
  <2>2. ~ReportFrame(Head(calls[t]))
    BY <1>8 DEF WrapperGuard, Lock, WrapperBody, Unlock, SetMutex, At, ReportFrame
  <2> QED
    BY <1>5, <2>1, <2>2
<1>9. CASE Bypass(t) \/ LogOff(t)
  <2>1. PICK to \in Steps : GoTo(t, to)
    BY <1>9 DEF Bypass, LogOff, Steps
  <2>2. ~ReportFrame(Head(calls[t]))
    BY <1>9 DEF Bypass, LogOff, At, ReportFrame
  <2> QED
    BY <1>5, <2>1, <2>2
<1>10. CASE Reported(t)
  <2> DEFINE to == CASE Head(calls[t]).kind = "fault" -> "unbypass"
                     [] Head(calls[t]).kind = "fini" -> "unlock"
                     [] OTHER -> "on"
  <2>1. GoTo(t, to) /\ to \in Steps
    BY <1>10 DEF Reported, Steps
  <2>2. ReportFrame(Head(calls[t])) => to = "on"
    BY DEF ReportFrame
  <2> HIDE DEF to
  <2> QED
    BY <1>5, <2>1, <2>2
<1>11. CASE WrapperBypass(t) \/ WrapperUnguard(t) \/ Unbypass(t) \/ FiniEnd(t) \/ InitEnd(t)
            \/ AtforkParent(t)
  BY <1>4, <1>11 DEF WrapperBypass, WrapperUnguard, Unbypass, FiniEnd, InitEnd, AtforkParent,
                     At, ReportFrame
<1>12. CASE Summary(t)
  BY <1>6, <1>12 DEF Summary, Steps
<1>13. CASE WrapperLog(t) \/ InitLog(t) \/ InitMutex(t)
  <2>1. PICK to \in Steps : AllocateThen(t, to)
    BY <1>13 DEF WrapperLog, InitLog, InitMutex, Steps
  <2>2. ~ReportFrame(Head(calls[t]))
    BY <1>13 DEF WrapperLog, InitLog, InitMutex, At, ReportFrame
  <2> QED
    BY <1>6, <2>1, <2>2
<1>14. CASE FaultExit(t)
  <2>1. Enter(t, Call("fini", "off"))
    BY <1>14 DEF FaultExit
  <2> QED
    BY <1>3, <2>1, FrameOf DEF Kinds, Steps
<1> QED
  BY <1>7, <1>8, <1>9, <1>10, <1>11, <1>12, <1>13, <1>14 DEF Continue

\* What a step does to the other threads' stacks.
LEMMA OthersStay ==
  ASSUME TypeOK, NEW t \in Threads, Program(t) \/ Continue(t), ~AtforkChild(t)
  PROVE  Others(t)
BY CallsType DEF Others, Program, Continue, CallWrapper, CallReport, Signal, TouchProtected, CallExit,
   AtforkPrepare, WrapperBypass, WrapperGuard, Lock, WrapperBody,
   WrapperLog, Unlock, WrapperUnguard, Bypass, LogOff, Summary, Reported, LogOn,
   Unbypass, FaultExit, FiniEnd, InitLog, InitMutex, SetMutex, InitEnd,
   AtforkParent, Enter, Return, GoTo, AllocateThen

\* LogOff leaves its report behind.
LEMMA LogOffReports ==
  ASSUME TypeOK, Threaded, NEW t \in Threads, LogOff(t), stage = "running"
  PROVE  ReportStack(calls'[t])
<1>1. /\ At(t, {"report", "signal", "fini"}, "off")
      /\ GoTo(t, IF Head(calls[t]).kind = "fini" THEN "bypass" ELSE "summary")
  BY DEF LogOff
<1>2. /\ Thread(t) /\ calls[t] # <<>> /\ calls[t] \in Seq(Frames)
      /\ Head(calls[t]).kind \in {"report", "signal", "fini"}
  BY <1>1, AtIs
<1>3. Head(calls[t]).kind \in {"report", "signal"}
  <2>1. Head(calls[t]).kind # "fini"
    BY <1>2, OtherIs DEF Below
  <2> QED
    BY <1>2, <2>1
<1>4. /\ calls'[t] \in Seq(Frames) /\ calls'[t] # <<>>
      /\ Head(calls'[t]).kind \in {"report", "signal"} /\ Head(calls'[t]).next = "summary"
  <2>1. GoTo(t, "summary") /\ "summary" \in Steps
    BY <1>1, <1>3 DEF Steps
  <2> QED
    BY <1>2, <1>3, <2>1, WentTo
<1>5. ReportFrame(Head(calls'[t]))
  BY <1>4 DEF ReportFrame
<1> QED
  BY <1>4, <1>5, ReportByParts

\* Only LogOn, LogOff and the end of hu_init change logging_enabled; exit() and
\* fork go one way.
LEMMA FlagsOfStep ==
  ASSUME TypeOK, NEW t \in Threads, Program(t) \/ Continue(t)
  PROVE  /\ logging_enabled' = logging_enabled \/ LogOn(t) \/ LogOff(t) \/ InitEnd(t)
         /\ LogOn(t) \/ InitEnd(t) => logging_enabled'
         /\ process' = "parent" => process = "parent" /\ ~AtforkChild(t)
         /\ stage' = "running" => stage = "running"
<1> USE DEF Program, Continue, CallWrapper, CallReport, Signal, TouchProtected, CallExit,
     AtforkPrepare, WrapperBypass, WrapperGuard, Lock, WrapperBody,
     WrapperLog, Unlock, WrapperUnguard, Bypass, LogOff, Summary, Reported, LogOn,
     Unbypass, FaultExit, FiniEnd, InitLog, InitMutex, SetMutex, InitEnd,
     AtforkParent, AtforkChild, sharedVars, processVars
<1>1. logging_enabled' = logging_enabled \/ LogOn(t) \/ LogOff(t) \/ InitEnd(t)
  OBVIOUS
<1>2. LogOn(t) \/ InitEnd(t) => logging_enabled'
  OBVIOUS
<1>3. process' = "parent" => process = "parent" /\ ~AtforkChild(t)
  OBVIOUS
<1>4. stage' = "running" => stage = "running"
  OBVIOUS
<1> QED
  BY <1>1, <1>2, <1>3, <1>4

\* So logging stays accounted for.
LEMMA LogHeldKept ==
  ASSUME HuThreadsAssumption, TypeOK, Threaded /\ LogHeld, NEW t \in Threads,
         Program(t) \/ Continue(t)
  PROVE  LogHeld'
<1>1. \A u \in Threads : /\ Reporting(u) <=> ReportStack(calls[u])
                         /\ Reporting(u)' <=> ReportStack(calls'[u])
  BY DEF Reporting, Within, ReportStack, InStack
<1>2. SUFFICES ASSUME process' = "parent", stage' = "running", ~logging_enabled'
               PROVE  \E u \in Threads : ReportStack(calls'[u])
  BY <1>1 DEF LogHeld
<1>3. process = "parent" /\ stage = "running" /\ ~AtforkChild(t) /\ ~LogOn(t)
  BY <1>2, FlagsOfStep
<1>4. CASE LogOff(t)
  BY <1>3, <1>4, LogOffReports
<1>5. CASE ~LogOff(t)
  <2>1. ~logging_enabled
    BY <1>2, <1>5, FlagsOfStep
  <2>2. PICK u \in Threads : ReportStack(calls[u])
    BY <1>1, <1>3, <2>1 DEF LogHeld
  <2>3. CASE u = t
    BY <1>3, <2>2, <2>3, ReporterStays
  <2>4. CASE u # t
    <3>1. calls'[u] = calls[u]
      BY <1>3, <2>4, OthersStay DEF Others
    <3> QED
      BY <2>2, <3>1
  <2> QED
    BY <2>3, <2>4
<1> QED
  BY <1>4, <1>5


\* The invariant holds at first,
LEMMA InitialInvariant ==
  ASSUME HuThreadsAssumption, Undisturbed, Init
  PROVE  IInv
<1> DEFINE first == Call("init", "start")
<1>1. first \in Frames /\ first.kind = "init" /\ first.next = "start"
  BY FrameOf DEF Kinds, Steps
<1>2. /\ Main \in Threads /\ alive = {Main} /\ calls[Main] = <<first>>
      /\ calls = [t \in Threads |-> IF t = Main THEN <<first>> ELSE <<>>]
  BY DEF Init, Undisturbed, HuThreadsAssumption
<1> HIDE DEF first
<1>3. /\ calls \in [Threads -> Seq(Frames)] /\ calls[Main] # <<>>
      /\ Head(calls[Main]) = first /\ Tail(calls[Main]) = <<>>
  BY <1>1, <1>2
<1>4. spent \in [calls : 0 .. MaxCalls, reports : 0 .. MaxReports,
                 signals : 0 .. MaxSignals, forks : 0 .. MaxForks]
  BY DEF Init, HuThreadsAssumption
<1>5. TypeOK
  BY <1>2, <1>3, <1>4 DEF TypeOK, Init, Frames
<1>6. Starting
  BY <1>1, <1>2, <1>3 DEF Starting, Is, Init
<1>7. Initialising
  BY <1>2, <1>6 DEF Initialising, InInit, Init
<1> QED
  BY <1>5, <1>7 DEF IInv

\* and every step keeps it.
LEMMA StepKeepsInvariant ==
  ASSUME HuThreadsAssumption, Undisturbed, IInv, [Next]_vars
  PROVE  IInv'
<1>1. CASE UNCHANGED vars
  <2>1. UNCHANGED <<hu_bypass, hu_bypass_saved, hu_callcount, hu_mutex, logging_enabled,
                    calls, alive, stage, process, spent>>
    BY <1>1 DEF vars, localVars, sharedVars, processVars
  <2>2. TypeOK' <=> TypeOK
    BY <2>1 DEF TypeOK
  <2>3. Initialising' <=> Initialising
    <3>1. InInit' <=> InInit
      BY <2>1 DEF InInit, Starting, LoggingUpTo, Making, Made, Running, Allocating
    <3> QED
      BY <2>1, <3>1 DEF Initialising
  <2>4. Threaded' <=> Threaded
    <3>1. ASSUME NEW t PROVE (Thread(t)' <=> Thread(t)) /\ (Inside(t)' <=> Inside(t))
      <4>1. (InCalls(t)' <=> InCalls(t)) /\ (InSignal(t)' <=> InSignal(t))
        BY <2>1 DEF InCalls, InSignal, Running, Allocating
      <4>2. (InReport(t)' <=> InReport(t)) /\ (InFault(t)' <=> InFault(t))
        BY <2>1 DEF InReport, InFault, Running, Allocating
      <4>3. (InExit(t)' <=> InExit(t)) /\ (InFork(t)' <=> InFork(t))
        BY <2>1 DEF InExit, InFork, Running, Allocating
      <4>4. Inside(t)' <=> Inside(t)
        BY <2>1, InsideIs
      <4> QED
        BY <4>1, <4>2, <4>3, <4>4, Zenon DEF Thread
    <3> QED
      BY <2>1, <3>1 DEF Threaded
  <2>5. LogHeld' <=> LogHeld
    BY <2>1 DEF LogHeld, Reporting, Within
  <2> QED
    BY <2>2, <2>3, <2>4, <2>5 DEF IInv
<1>2. ASSUME NEW t \in Threads, Program(t) \/ Continue(t) PROVE IInv'
  <2>1. CASE Initialising
    <3>1. (Initialising' \/ (Threaded' /\ logging_enabled')) /\ Typed'
      BY <1>2, <2>1, StepsOfInit DEF IInv
    <3>2. TypeOK'
      BY <1>2, <3>1, TypeKept DEF IInv
    <3>3. logging_enabled' => LogHeld'
      BY DEF LogHeld
    <3> QED
      BY <3>1, <3>2, <3>3 DEF IInv
  <2>2. CASE Threaded /\ LogHeld
    <3>1. Threaded' /\ Typed'
      BY <1>2, <2>2, StepsOfThreads DEF IInv
    <3>2. TypeOK' /\ LogHeld'
      BY <1>2, <2>2, <3>1, TypeKept, LogHeldKept DEF IInv
    <3> QED
      BY <3>1, <3>2 DEF IInv
  <2> QED
    BY <2>1, <2>2 DEF IInv
<1>3. Ended => UNCHANGED vars
  BY DEF Ended
<1> QED
  BY <1>1, <1>2, <1>3 DEF Next

\* The invariant of HuThreads.
THEOREM Invariance ==
  ASSUME Undisturbed
  PROVE  Spec => []IInv
<1>1. Init => IInv
  BY InitialInvariant, HuThreadsAssumption
<1>2. IInv /\ [Next]_vars => IInv'
  BY StepKeepsInvariant, HuThreadsAssumption
<1> QED
  BY <1>1, <1>2, PTL DEF Spec

-----------------------------------------------------------------------------
(***************************************************************************)
(* What follows from it.                                                   *)
(***************************************************************************)

\* Before there are threads nobody is inside.
LEMMA MadeIsOutside ==
  ASSUME HuThreadsAssumption, TypeOK, Initialising, hu_mutex # NoMutex
  PROVE  ~Inside(Main)
<1>1. calls[Main] \in Seq(Frames)
  BY InitIs
<1>2. Is(calls[Main], "init", {"on"}) /\ Tail(calls[Main]) = <<>>
  BY DEF Initialising, InInit, Starting, LoggingUpTo, Making, Made
<1>3. ~InsideFrame(Head(calls[Main])) /\ calls[Main] # <<>>
  BY <1>2 DEF InsideFrame, Is
<1> QED
  BY <1>1, <1>2, <1>3, InsideByParts, NotInsideEmpty, InsideIs

\* The mutex has one holder.
LEMMA InvariantOneInside ==
  ASSUME HuThreadsAssumption, IInv
  PROVE  OneInside
<1>1. SUFFICES ASSUME NEW t \in alive, Inside(t), hu_mutex # NoMutex
               PROVE  hu_mutex = t /\ \A u \in alive \ {t} : ~Inside(u)
  BY DEF OneInside, Inside
<1>2. CASE Initialising
  BY <1>1, <1>2, MadeIsOutside DEF IInv, Initialising
<1>3. CASE Threaded
  BY <1>1, <1>3 DEF Threaded
<1> QED
  BY <1>2, <1>3 DEF IInv

\* Who waits for the mutex is not inside.
LEMMA InvariantNoSelfDeadlock ==
  ASSUME HuThreadsAssumption, IInv
  PROVE  NoSelfDeadlock
<1>1. SUFFICES ASSUME NEW t \in alive, At(t, {"wrapper", "fini"}, "lock")
               PROVE  hu_mutex # t
  BY DEF NoSelfDeadlock
<1>2. t \in Threads /\ TypeOK
  BY DEF IInv, TypeOK
<1>3. CASE Initialising
  BY <1>2, <1>3, InitIs DEF HuThreadsAssumption
<1>4. CASE Threaded
  <2>1. /\ Thread(t) /\ calls[t] # <<>> /\ calls[t] \in Seq(Frames) /\ Tail(calls[t]) \in Seq(Frames)
        /\ Head(calls[t]).kind \in {"wrapper", "fini"} /\ Head(calls[t]).next = "lock"
        /\ (InsideStack(calls[t]) <=> hu_mutex = t)
    BY <1>1, <1>2, <1>4, AtIs
  <2>2. ~InsideStack(Tail(calls[t]))
    <3>1. CASE Head(calls[t]).kind = "wrapper"
      <4>1. Tail(calls[t]) = <<>>
        BY <2>1, <3>1, BelowWrapper DEF Guarded
      <4> QED
        BY <4>1, NotInsideEmpty
    <3>2. CASE Head(calls[t]).kind = "fini"
      <4>1. Exiting(Tail(calls[t]))
        BY <2>1, <3>2, OtherIs DEF Below
      <4> QED
        BY <2>1, <4>1, ExitingIsOutside
    <3> QED
      BY <2>1, <3>1, <3>2
  <2>3. ~InsideFrame(Head(calls[t]))
    BY <2>1 DEF InsideFrame
  <2> QED
    BY <2>1, <2>2, <2>3, InsideByParts
<1> QED
  BY <1>3, <1>4 DEF IInv

\* A thread in no call is in InCalls.
LEMMA InvariantBypassIsRestored ==
  ASSUME HuThreadsAssumption, IInv
  PROVE  BypassIsRestored
<1>1. SUFFICES ASSUME process = "parent", NEW t \in Threads, calls[t] = <<>>
               PROVE  ~hu_bypass[t] /\ hu_callcount[t] = 0
  BY DEF BypassIsRestored
<1>2. CASE Initialising
  <2>1. t # Main
    BY <1>1, <1>2, InitIs DEF IInv
  <2> QED
    BY <1>1, <1>2, <2>1 DEF Initialising
<1>3. CASE Threaded
  <2>1. t \in alive
    BY <1>1, <1>3 DEF Threaded
  <2> QED
    BY <1>1, <1>3, <2>1, ProgramIs DEF IInv
<1> QED
  BY <1>2, <1>3 DEF IInv

\* From LogHeld.
LEMMA InvariantLoggingIsRestored ==
  ASSUME HuThreadsAssumption, IInv
  PROVE  LoggingIsRestored
<1>1. SUFFICES ASSUME process = "parent", stage = "running",
                      \A t \in Threads : ~Within(t, {"report", "signal", "init"}, Steps)
               PROVE  logging_enabled
  BY DEF LoggingIsRestored
<1>2. CASE Initialising
  <2>1. Main \in Threads /\ InStack(calls[Main], {"init"}, Steps)
    BY <1>2, InitIs DEF IInv
  <2> QED
    BY <1>1, <2>1 DEF Within, InStack
<1>3. CASE Threaded /\ LogHeld
  <2>1. \A t \in Threads : ~Reporting(t)
    BY <1>1 DEF Reporting, Within, Steps
  <2> QED
    BY <1>1, <1>3, <2>1 DEF LogHeld
<1> QED
  BY <1>2, <1>3 DEF IInv

\* A fork somewhere in the stack.
ForkStack(stack) == InStack(stack, {"fork"}, Steps)

\* No fork in a stack, from its parts.
LEMMA NoForkAbove ==
  ASSUME NEW s \in Seq(Frames), s # <<>>, Head(s).kind # "fork", ~ForkStack(Tail(s))
  PROVE  ~ForkStack(s)
BY InStackByParts DEF ForkStack

\* Nor in wrapper calls on top of a stack without.
LEMMA CountedHasNoFork ==
  ASSUME NEW s \in Seq(Frames), NEW n, NEW base, ~ForkStack(base), Counted(s, n, base)
  PROVE  ~ForkStack(s)
<1>1. CASE s = base
  BY <1>1
<1>2. CASE s # <<>> /\ Head(s).kind = "wrapper" /\ Tail(s) = base
  BY <1>2, NoForkAbove
<1>3. CASE /\ s # <<>> /\ Head(s).kind = "wrapper" /\ Tail(s) # <<>>
           /\ Head(Tail(s)).kind = "wrapper" /\ Tail(Tail(s)) = base
  <2>1. Tail(s) \in Seq(Frames)
    BY <1>3, HeadAndTail
  <2>2. ~ForkStack(Tail(s))
    BY <1>3, <2>1, NoForkAbove
  <2> QED
    BY <1>3, <2>2, NoForkAbove
<1> QED
  BY <1>1, <1>2, <1>3 DEF Counted, Is

\* A fork on the stack is all there is, but for its own allocation.
LEMMA ForkInStack ==
  ASSUME TypeOK, NEW t \in Threads, Thread(t), ForkStack(calls[t])
  PROVE  InFork(t)
<1>1. calls[t] \in Seq(Frames) /\ ~ForkStack(<<>>)
  BY CallsType, InNoStack DEF ForkStack
<1>2. ASSUME NEW s \in Seq(Frames), NEW n, Counted(s, n, <<>>) PROVE ~ForkStack(s)
  BY <1>1, <1>2, CountedHasNoFork
<1>3. ASSUME NEW s \in Seq(Frames), Exiting(s) PROVE ~ForkStack(s)
  BY <1>1, <1>3, NoForkAbove DEF Exiting, Is
\* a call of another kind on top of a stack without forks, maybe allocating
<1>4. ASSUME NEW s \in Seq(Frames), s # <<>>, Head(s).kind # "fork",
             \/ ~ForkStack(Tail(s))
             \/ /\ Head(s).kind = "wrapper" /\ Tail(s) # <<>>
                /\ Head(Tail(s)).kind # "fork" /\ ~ForkStack(Tail(Tail(s)))
      PROVE  ~ForkStack(s)
  <2>1. Tail(s) \in Seq(Frames)
    BY <1>4, HeadAndTail
  <2> QED
    BY <1>4, <2>1, NoForkAbove
<1>5. /\ calls[t] # <<>> => Tail(calls[t]) \in Seq(Frames)
      /\ calls[t] # <<>> /\ Tail(calls[t]) # <<>> => Tail(Tail(calls[t])) \in Seq(Frames)
  BY <1>1, HeadAndTail
<1>6. ~InCalls(t)
  BY <1>1, <1>2 DEF InCalls
<1>7. ~InSignal(t)
  <2>1. SUFFICES ASSUME InSignal(t) PROVE ~ForkStack(calls[t])
    OBVIOUS
  <2> QED
    BY <1>1, <1>2, <1>4, <1>5, <2>1 DEF InSignal, Running, Allocating, Is
<1>8. ~InReport(t) /\ ~InFault(t)
  <2>1. SUFFICES ASSUME InReport(t) \/ InFault(t) PROVE ~ForkStack(calls[t])
    OBVIOUS
  <2> QED
    BY <1>1, <1>4, <2>1 DEF InReport, InFault, Running, Allocating, Is
<1>9. ~InExit(t)
  <2>1. SUFFICES ASSUME InExit(t) PROVE ~ForkStack(calls[t])
    OBVIOUS
  <2> QED
    BY <1>1, <1>3, <1>4, <1>5, <2>1 DEF InExit, Running, Allocating, Is
<1> QED
  BY <1>6, <1>7, <1>8, <1>9 DEF Thread


\* A thread that forks is InFork, with nothing inside.
LEMMA InvariantForkNeverLocks ==
  ASSUME HuThreadsAssumption, IInv
  PROVE  ForkNeverLocks
<1>1. SUFFICES ASSUME NEW t \in alive, Within(t, {"fork"}, Steps)
               PROVE  ~At(t, {"wrapper"}, "lock") /\ ~InWrapper(t)
  BY DEF ForkNeverLocks
<1>2. /\ t \in Threads /\ TypeOK /\ calls[t] \in Seq(Frames)
      /\ ForkStack(calls[t])
  BY <1>1, CallsType DEF IInv, TypeOK, Within, ForkStack, InStack
<1>3. CASE Initialising
  <2>1. t = Main /\ Main \in Threads /\ ~ForkStack(<<>>)
    BY <1>2, <1>3, InNoStack DEF Initialising, ForkStack
  <2>2. ASSUME NEW s \in Seq(Frames), NEW steps, Is(s, "init", steps), Tail(s) = <<>>
        PROVE  ~ForkStack(s)
    BY <2>1, <2>2, NoForkAbove DEF Is
  <2>3. ASSUME NEW base \in Stacks, LoggingUpTo(base) PROVE FALSE
    <3>1. ~ForkStack(base)
      BY <2>2, <2>3 DEF LoggingUpTo, Stacks, Frames
    <3> QED
      BY <1>2, <2>1, <2>3, <3>1, CountedHasNoFork DEF LoggingUpTo
  <2>4. ~Starting /\ ~Made
    BY <1>2, <2>1, <2>2 DEF Starting, Made
  <2>5. ~Making
    <3>1. CASE Running(Main, "init", {"mutex", "set"}, <<>>)
      BY <1>2, <2>1, <2>2, <3>1 DEF Running
    <3>2. CASE Allocating(Main, "init", {"set"}, <<>>)
      <4>1. calls[t] # <<>> /\ Head(calls[t]).kind = "wrapper" /\ Tail(calls[t]) \in Seq(Frames)
        BY <1>2, <2>1, <3>2, HeadAndTail DEF Allocating, Is
      <4>2. ~ForkStack(Tail(calls[t]))
        BY <2>1, <2>2, <3>2, <4>1 DEF Allocating
      <4> QED
        BY <1>2, <4>1, <4>2, NoForkAbove
    <3> QED
      BY <3>1, <3>2 DEF Making
  <2> QED
    BY <1>3, <2>3, <2>4, <2>5 DEF Initialising, InInit
<1>4. CASE Threaded
  <2>1. InFork(t)
    BY <1>2, <1>4, ForkInStack DEF Threaded
  <2>2. calls[t] # <<>> /\ Head(calls[t]).next # "lock"
    BY <2>1 DEF InFork, Running, Allocating, Is
  <2>3. ~InsideStack(calls[t])
    <3>1. ~InsideFrame(Head(calls[t]))
      BY <2>1 DEF InFork, Running, Allocating, Is, InsideFrame
    <3>2. CASE Tail(calls[t]) = <<>>
      BY <1>2, <2>2, <3>1, <3>2, InsideByParts, NotInsideEmpty
    <3>3. CASE Tail(calls[t]) # <<>>
      <4>1. /\ ~InsideFrame(Head(Tail(calls[t]))) /\ Tail(Tail(calls[t])) = <<>>
            /\ Tail(calls[t]) \in Seq(Frames)
        BY <1>2, <2>1, <2>2, <3>3, HeadAndTail DEF InFork, Running, Allocating, Is, InsideFrame
      <4>2. ~InsideStack(Tail(calls[t]))
        BY <3>3, <4>1, InsideByParts, NotInsideEmpty
      <4> QED
        BY <1>2, <2>2, <3>1, <4>2, InsideByParts
    <3> QED
      BY <3>2, <3>3
  <2> QED
    BY <2>2, <2>3, InsideIs DEF At, Inside
<1> QED
  BY <1>3, <1>4 DEF IInv

-----------------------------------------------------------------------------
\* humain.cpp:213-216: one thread at a time is in the middle of a wrapper or of
\* hu_fini's summary, for any number of threads, reports, signals and forks.
THEOREM OneThreadInside ==
  ASSUME Undisturbed
  PROVE  Spec => []OneInside
<1>1. IInv => OneInside
  BY InvariantOneInside, HuThreadsAssumption
<1> QED
  BY <1>1, Invariance, PTL

\* humain.cpp:75-77: the allocations of log_event and log_summary never wait for
\* the mutex their own thread holds.
THEOREM NoThreadWaitsForItself ==
  ASSUME Undisturbed
  PROVE  Spec => []NoSelfDeadlock
<1>1. IInv => NoSelfDeadlock
  BY InvariantNoSelfDeadlock, HuThreadsAssumption
<1> QED
  BY <1>1, Invariance, PTL

\* humain.cpp:108-113: fork takes no lock and finds its thread in no wrapper.
THEOREM ForkTakesNoLock ==
  ASSUME Undisturbed
  PROVE  Spec => []ForkNeverLocks
<1>1. IInv => ForkNeverLocks
  BY InvariantForkNeverLocks, HuThreadsAssumption
<1> QED
  BY <1>1, Invariance, PTL

\* humain.cpp:79-90, :120: whoever returns to the program has put its bypass and
\* its call counter back.
THEOREM FlagsArePutBack ==
  ASSUME Undisturbed
  PROVE  Spec => []BypassIsRestored
<1>1. IInv => BypassIsRestored
  BY InvariantBypassIsRestored, HuThreadsAssumption
<1> QED
  BY <1>1, Invariance, PTL

\* humain.cpp:65-68: logging is on again when the last report is over.
THEOREM LoggingComesBack ==
  ASSUME Undisturbed
  PROVE  Spec => []LoggingIsRestored
<1>1. IInv => LoggingIsRestored
  BY InvariantLoggingIsRestored, HuThreadsAssumption
<1> QED
  BY <1>1, Invariance, PTL

\* The type invariant, whose call counters only the argument above keeps from
\* falling below zero.
THEOREM TypesHold ==
  ASSUME Undisturbed
  PROVE  Spec => []TypeOK
<1>1. IInv => TypeOK
  BY DEF IInv
<1> QED
  BY <1>1, Invariance, PTL
=============================================================================
