------------------------------ MODULE Symbols ------------------------------
(***************************************************************************)
(* The call stacks of hulog: capture by backtrace(), the check of their    *)
(* origin, and their printing with one symbol a frame, cached for the life *)
(* of the process, while the program loads and unloads plugins.  What the  *)
(* resolver says of an address is TraceResolver's Resolve.                 *)
(*                                                                         *)
(* hulog holds hu_mutex throughout, but the dynamic loader does not: other *)
(* threads load and unload objects between any two frames of a report.     *)
(***************************************************************************)
EXTENDS TraceResolver

CONSTANTS Builds,       \* [library, unwind, nosyms, depth]: how heapusage was built;
                        \* depth is MAX_CALL_STACK without hulog's own frame
          Worlds,       \* sets of objects: a program and its plugins
          CallSites,    \* instructions of an object that are calls
          GeneratedCode, \* return addresses in code made at run time, which
                        \* is in no object
          MaxEvents,    \* bound: call stacks captured
          MaxLoads      \* bound: calls of dlopen

VARIABLES
  build,        \* the build, fixed at the start
  objects,      \* the objects there are, fixed at the start
  loaded,       \* the names of the objects that are loaded
  tenants,      \* history: the objects ever loaded at each address
  recorded,     \* the stack kept in an allocation record
  reporting,    \* the stack being printed
  index,        \* i of log_print_callstack, 0 when no report is under way
  printed,      \* the lines of the report
  verdict,      \* result of the last log_is_valid_callstack, with its kind
  symbol_cache, objfile_cache,
  trace,        \* rtrace of the last addr_to_symbol that had to resolve,
                \* with the objects loaded then
  events, loads \* bounded counters

worldVars == <<build, objects>>
loaderVars == <<loaded, tenants, loads>>
reportVars == <<reporting, index, printed>>
cacheVars == <<symbol_cache, trace>>
vars == <<worldVars, loaderVars, reportVars, cacheVars, recorded, verdict,
          objfile_cache, events>>

OwnFrame == 0      \* callstack[0]: hulog itself, never looked at
Empty == [callstack |-> <<>>, callers |-> <<>>]
Nothing == [addr |-> 0, result |-> NoTrace, loaded |-> {}]

Libobjc == "libobjc.A.dylib"

Mapped(o) == {v + o.bias : v \in DOMAIN o.code \cup {1 + Max(DOMAIN o.code)}}

LoadedObjects == {o \in objects : o.name \in loaded}

Init ==
  /\ build \in Builds
  /\ objects \in Worlds
  /\ loaded = {o.name : o \in {x \in objects : x.exec}}
  /\ tenants = [a \in GeneratedCode \cup UNION {Mapped(o) : o \in objects} |->
                  {o.name : o \in {x \in objects : x.exec /\ a \in Mapped(x)}}]
  /\ recorded = Empty /\ reporting = Empty
  /\ index = 0 /\ printed = <<>>
  /\ verdict = [valid |-> TRUE, is_alloc |-> TRUE, stack |-> Empty]
  /\ symbol_cache = <<>> /\ objfile_cache = <<>>
  /\ trace = Nothing
  /\ events = 0 /\ loads = 0

(***************************************************************************)
(* The program and the dynamic loader.  A plugin is mapped where nothing   *)
(* else is, and may so get the addresses of one unloaded before.           *)
(***************************************************************************)
dlopen(o) ==
  /\ o.name \notin loaded
  /\ loads < MaxLoads
  /\ \A other \in LoadedObjects : Mapped(o) \cap Mapped(other) = {}
  /\ loaded' = loaded \cup {o.name}
  /\ tenants' = [a \in DOMAIN tenants |->
                   tenants[a] \cup IF a \in Mapped(o) THEN {o.name} ELSE {}]
  /\ loads' = loads + 1
  /\ UNCHANGED <<worldVars, reportVars, cacheVars, recorded, verdict,
                 objfile_cache, events>>

dlclose(o) ==
  /\ o.name \in loaded /\ ~o.exec
  /\ loaded' = loaded \ {o.name}
  /\ UNCHANGED <<worldVars, tenants, loads, reportVars, cacheVars, recorded,
                 verdict, objfile_cache, events>>

(***************************************************************************)
(* backtrace(): the return addresses, innermost first, of calls in loaded  *)
(* objects or in code made at run time.  MAX_CALL_STACK cuts the stack, so *)
(* that the outermost frame recorded can be anywhere.                      *)
(***************************************************************************)
Call(o, k) ==
  LET site == Min(DOMAIN o.code) + k
  IN [object |-> o.name, site |-> site, returns |-> site + 1 + o.bias]

GeneratedCall(a) == [object |-> "", site |-> 0, returns |-> a]

Calls == {Call(o, k) : o \in LoadedObjects, k \in CallSites}
         \cup {GeneratedCall(a) : a \in GeneratedCode}

Stacks ==
  {[callstack |-> <<OwnFrame>> \o [k \in DOMAIN s |-> s[k].returns],
    callers |-> s] : s \in BoundedSeq(Calls, build.depth) \ {<<>>}}

(***************************************************************************)
(* log_is_valid_callstack: the object of the outermost frame that has one. *)
(* Names that were found are cached, failures are not.                     *)
(***************************************************************************)
ObjFile(addr) ==
  IF addr \in DOMAIN objfile_cache THEN objfile_cache[addr]
  ELSE LET at == ObjectsAt(LoadedObjects, addr)
       IN IF at = {} THEN "" ELSE (CHOOSE o \in at : TRUE).name

\* A plausible slip: the innermost object decides.
Mutant_log_is_valid_callstack_innermost(stack, is_alloc) ==
  LET known == {i \in 2..Len(stack.callstack) : ObjFile(stack.callstack[i]) # ""}
  IN /\ verdict' = [valid |-> known = {} \/ is_alloc
                              \/ ObjFile(stack.callstack[Min(known)]) # Libobjc,
                    is_alloc |-> is_alloc, stack |-> stack]
     /\ UNCHANGED objfile_cache

log_is_valid_callstack(stack, is_alloc) ==
  LET known == {i \in 2..Len(stack.callstack) : ObjFile(stack.callstack[i]) # ""}
      origin == stack.callstack[Max(known)]
  IN IF known = {}
     THEN /\ verdict' = [valid |-> TRUE, is_alloc |-> is_alloc, stack |-> stack]
          /\ UNCHANGED objfile_cache
     ELSE /\ verdict' = [valid |-> is_alloc \/ ObjFile(origin) # Libobjc,
                         is_alloc |-> is_alloc, stack |-> stack]
          /\ objfile_cache' = [a \in DOMAIN objfile_cache \cup {origin} |-> ObjFile(a)]

(***************************************************************************)
(* addr_to_symbol: whatever the resolver said, nothing included, is kept.  *)
(***************************************************************************)
SymbolText(result) ==
  [name |-> result.object_function, file |-> result.file, line |-> result.line]

addr_to_symbol(addr) ==
  IF addr \in DOMAIN symbol_cache
  THEN UNCHANGED cacheVars
  ELSE /\ trace' = [addr |-> addr, loaded |-> loaded,
                   result |-> Resolve(build, LoadedObjects, addr)]
       /\ symbol_cache' = [a \in DOMAIN symbol_cache \cup {addr} |->
            IF a = addr THEN SymbolText(trace'.result) ELSE symbol_cache[a]]

(***************************************************************************)
(* Events.  An allocation keeps its stack for later; an invalid            *)
(* deallocation or access captures one, and a leak report takes the one    *)
(* that was kept; both are checked and then printed frame by frame.  The   *)
(* kept stacks that a deallocation or access report prints after its own   *)
(* go through the loop as that of a leak does.                             *)
(***************************************************************************)
StartReport(stack) ==
  /\ reporting' = IF verdict'.valid THEN stack ELSE Empty
  /\ index' = IF verdict'.valid /\ stack # Empty THEN 2 ELSE 0
  /\ printed' = <<>>

RecordCallstack ==
  /\ index = 0 /\ events < MaxEvents
  /\ events' = events + 1
  /\ recorded' \in Stacks \cup {Empty}
  /\ UNCHANGED <<worldVars, loaderVars, reportVars, cacheVars, verdict,
                 objfile_cache>>

ReportInvalid ==
  /\ index = 0 /\ events < MaxEvents
  /\ events' = events + 1
  /\ \E stack \in Stacks : /\ log_is_valid_callstack(stack, FALSE)
                           /\ StartReport(stack)
  /\ UNCHANGED <<worldVars, loaderVars, cacheVars, recorded>>

ReportLeak ==
  /\ index = 0
  /\ log_is_valid_callstack(recorded, TRUE)
  /\ StartReport(recorded)
  /\ UNCHANGED <<worldVars, loaderVars, cacheVars, recorded, events>>

\* One turn of the loop of log_print_callstack.
PrintFrame ==
  /\ index # 0
  /\ LET addr == reporting.callstack[index]
     IN IF build.nosyms
        THEN /\ printed' = Append(printed, SymbolText(NoTrace))
             /\ UNCHANGED cacheVars
        ELSE /\ addr_to_symbol(addr)
             /\ printed' = Append(printed, symbol_cache'[addr])
  /\ index' = IF index < Len(reporting.callstack) THEN index + 1 ELSE 0
  /\ UNCHANGED <<worldVars, loaderVars, reporting, recorded, verdict,
                 objfile_cache, events>>

Next ==
  \/ \E o \in objects : dlopen(o) \/ dlclose(o)
  \/ RecordCallstack \/ ReportInvalid \/ ReportLeak
  \/ PrintFrame

Spec == Init /\ [][Next]_vars

-----------------------------------------------------------------------------
ObjectOf(caller) == CHOOSE o \in objects : o.name = caller.object

\* The call is not the last instruction of its function: its return address
\* is in the function too.
Returns(o, site) ==
  /\ site + 1 \in DOMAIN o.code
  /\ o.code[site + 1].function = o.code[site].function

\* No other object was ever mapped at that address.
SoleTenant(addr) == Cardinality(tenants[addr]) <= 1

\* The object's file is still what was loaded, or is not read by its path.
Intact(library, o) == o.disk = "same" \/ (o.exec /\ library # "libdwarf")

Frames ==
  {k \in DOMAIN printed :
     /\ ~build.nosyms
     /\ LET caller == reporting.callers[k]
            o == ObjectOf(caller)
        IN caller.object # "" /\ SoleTenant(caller.returns)
             /\ Intact(build.library, o) /\ Returns(o, caller.site)}

(***************************************************************************)
(* The state has its types: a report in progress has a frame to print.     *)
(***************************************************************************)
TypeOK ==
  /\ build \in Builds
  /\ loaded \subseteq {o.name : o \in objects}
  /\ \A stack \in {recorded, reporting} :
       Len(stack.callstack) = IF stack = Empty THEN 0 ELSE 1 + Len(stack.callers)
  /\ index \in {0} \cup 2..Len(reporting.callstack)
  /\ Len(printed) < Len(reporting.callstack) \/ printed = <<>>
  /\ DOMAIN objfile_cache \subseteq DOMAIN tenants
  /\ DOMAIN symbol_cache \subseteq DOMAIN tenants
  /\ events \in 0..MaxEvents /\ loads \in 0..MaxLoads

\* The name is the caller's, of a function inlined there, or there is none;
\* the line, if there is one, is that of the call or of the instruction it
\* returns to.
TextIsOf(text, o, site) ==
  /\ text.name \in {"", o.code[site].function}
       \cup ToSet(o.code[site].inlined) \cup ToSet(o.code[site + 1].inlined)
  /\ text.file # "" =>
       \E v \in {site, site + 1} :
          o.code[v].unit = text.file /\ o.code[v].line = text.line

(***************************************************************************)
(* A frame is never printed with another function's name or line, also     *)
(* when it is printed long after the stack was captured, from caches and   *)
(* from files, and whatever was unloaded or replaced meanwhile.            *)
(***************************************************************************)
FrameIsOfCaller ==
  \A k \in Frames :
    LET caller == reporting.callers[k]
    IN TextIsOf(printed[k], ObjectOf(caller), caller.site)

\* The objects a lookup could read: that of the address, with its file, when
\* the instruction before the address is in it as well.
Known ==
  {o \in objects : /\ o.name \in trace.loaded /\ o.disk = "same"
                   /\ {trace.addr, trace.addr - 1} \subseteq
                        {v + o.bias : v \in DOMAIN o.code}}

\* The instruction that is looked up there.
Looked(b, o, a) == IF b.library = "libbfd" /\ ~b.unwind THEN (a - o.bias) - 1
                   ELSE a - o.bias

\* What the libdwarf resolver misses: the name of the function with the
\* highest address, which no symbol follows, a unit that only a function in
\* a namespace would give away, and functions with ranges in a unit with pcs.
LastFunction(o, v) ==
  \A w \in DOMAIN o.code : w >= v => o.code[w].function = o.code[v].function

HiddenUnit(o, v) ==
  ~o.aranges /\ \E unit \in Units(o) :
    /\ unit.name = o.code[v].unit /\ unit.low = 0 /\ unit.ranges = {}
    /\ \A die \in ToSet(unit.children) : die.tag = "namespace"

RangesOf(die) == UNION {d.ranges : d \in DiesOf(die)}

Rebased(o) == \E unit \in Units(o) : unit.low # 0 /\ RangesOf(unit) # {}

\* What the libdw resolver gets wrong: a declaration that follows a function
\* in its unit takes that function's place.
Overwritten(o) ==
  \E unit \in Units(o) : \E k \in 2..Len(unit.children) :
    /\ unit.children[k].declaration
    /\ unit.children[k - 1].low # 0 \/ unit.children[k - 1].ranges # {}

\* Without a library only the dynamic symbols are read, and so it is for
\* libdwarf in an object without debug information.
ReadsSymtab(b, o) ==
  /\ b.library # "none"
  /\ b.library = "libdwarf" => o.units # <<>>

NameIsFound(b, o, a, result) ==
  LET table == o.exported \cup IF ReadsSymtab(b, o) THEN o.symtab ELSE {}
      v == a - o.bias
  IN /\ SymbolOf(o, table, v) # ""
     /\ ~(b.library = "libdwarf" /\ LastFunction(o, v))
     => result.object_function # ""

LineIsFound(b, o, a, result) ==
  /\ o.units # <<>> /\ b.library # "none"
  /\ ~(b.library = "libdwarf" /\ HiddenUnit(o, a - o.bias))
  /\ b.library = "libbfd" => o.symtab \cup o.exported # {}
  => result.file # ""

(***************************************************************************)
(* Nothing that could be known of an address is missed when it is looked   *)
(* up: an object whose symbol table has the function gives its name, and   *)
(* one with debug information its source line.                             *)
(***************************************************************************)
NothingIsMissed ==
  \A o \in Known : /\ NameIsFound(build, o, trace.addr, trace.result)
                   /\ LineIsFound(build, o, trace.addr, trace.result)

\* The functions of a result, from the innermost inlined one outwards.
InlineChain(b, result) ==
  IF b.library = "libbfd" THEN <<result.function>> \o result.inliners
                          ELSE result.inliners \o <<result.function>>

ChainIsExact(b, o, a, result) ==
  LET code == o.code[Looked(b, o, a)]
  IN /\ result.file # ""
     /\ ~(b.library = "libdwarf" /\ Rebased(o))
     /\ ~(b.library = "libdw" /\ Overwritten(o))
     => InlineChain(b, result) = code.inlined \o <<code.function>>

(***************************************************************************)
(* The functions a lookup gives, from the innermost inlined one to the one *)
(* that holds the address, are those of the instruction looked up.         *)
(***************************************************************************)
InlineChainIsExact ==
  \A o \in Known : ChainIsExact(build, o, trace.addr, trace.result)

\* The frames of a stack that are in an object.
InObjects(stack) ==
  {k \in 1..Len(stack.callers) : stack.callers[k].object # ""}

\* The outermost of them.
Origin(stack) == stack.callers[Max(InObjects(stack))]

FromLibobjc(stack) == InObjects(stack) # {} /\ Origin(stack).object = Libobjc

(***************************************************************************)
(* A report is left out exactly when it is of a deallocation or access     *)
(* whose outermost frame in an object is a call made from libobjc.         *)
(***************************************************************************)
VerdictIsOfOrigin ==
  LET stack == verdict.stack
  IN InObjects(stack) = {} \/ SoleTenant(Origin(stack).returns)
       => verdict.valid = (verdict.is_alloc \/ ~FromLibobjc(stack))
-----------------------------------------------------------------------------
(***************************************************************************)
(* What the theorems ask of the objects: the addresses of one are those of *)
(* its code and one more, its calls are instructions of it, and as long as *)
(* its image is the file's, a section is the one of an address, moved by   *)
(* where the file is mapped or not, just when that is the link address.    *)
(***************************************************************************)
InPlace(o) ==
  \A a \in Mapped(o) :
    LET Seen(section) == IF InSection(section, a) THEN a ELSE a - o.fbase
        holding == {section \in ToSet(o.sections) :
                      section.alloc /\ InSection(section, Seen(section))}
    IN /\ \A section \in holding : Seen(section) = a - o.bias
       /\ a - o.bias \in DOMAIN o.code => holding # {}

WellFormed(o) ==
  /\ o.name # "" /\ o.bias \in Int /\ o.fbase \in Int
  /\ Max(DOMAIN o.code) \in Int
  /\ \A v \in DOMAIN o.code :
       /\ v \in Nat
       /\ o.code[v].function # "" /\ o.code[v].unit # ""
       /\ o.code[v].inlined \in Seq(ToSet(o.code[v].inlined) \ {""})
  /\ \A k \in CallSites : Min(DOMAIN o.code) + k \in DOMAIN o.code
                          /\ Call(o, k).returns \in Mapped(o)
  /\ o.sections \in Seq(ToSet(o.sections))
  /\ \A section \in ToSet(o.sections) : section.vma \in Int
  /\ InPlace(o)

ASSUME WorldAssumption ==
  /\ GeneratedCode \subseteq Int
  /\ \A b \in Builds : /\ b.library \in {"libdw", "libdwarf", "libbfd", "none"}
                        /\ b.depth \in Nat
  /\ \A world \in Worlds :
       /\ IsFiniteSet(world)
       /\ \A o \in world : WellFormed(o) /\ Mapped(o) \cap GeneratedCode = {}
       /\ \A o, p \in world : o.name = p.name \/ (o.exec /\ p.exec) => o = p

(***************************************************************************)
(* What they ask of debug information: that the unit and the row that are  *)
(* found for an instruction, and the linkage name libdwarf collects, are   *)
(* its own, but for what the resolvers miss as said above.  The searches   *)
(* recurse over the DIEs, which is beyond the provers.  A symbol table     *)
(* that libdwarf reads names every function or none, and a function is in  *)
(* one piece.                                                              *)
(***************************************************************************)
Described(unit, rows, code) ==
  /\ unit.name = code.unit
  /\ rows # {} /\ \A row \in rows : row.line = code.line

DwReads(o, v) ==
  /\ o.units # <<>> => DwUnit(o, v) # {}
  /\ \A unit \in DwUnit(o, v) : Described(unit, SourceRow(unit, v), o.code[v])

DwarfReads(o, v) ==
  /\ o.units # <<>> => HiddenUnit(o, v) \/ DwarfUnit(o, v) # {}
  /\ \A unit \in DwarfUnit(o, v) :
       /\ Described(unit, DwarfRow(unit, v), o.code[v])
       /\ DwarfCalls(unit, v).linkage \in {"", o.code[v].function}

InOnePiece(o) ==
  \A u, w \in DOMAIN o.code : o.code[u].function = o.code[w].function =>
    \A v \in u..w : v \in DOMAIN o.code /\ o.code[v].function = o.code[u].function

Whole(o, table) == table \in {{}, {o.code[v].function : v \in DOMAIN o.code}}

ASSUME DieAssumption ==
  \A b \in Builds, world \in Worlds : \A o \in world :
    /\ b.library = "libdw" => \A v \in DOMAIN o.code : DwReads(o, v)
    /\ b.library = "libdwarf" =>
         /\ \A v \in DOMAIN o.code : DwarfReads(o, v)
         /\ InOnePiece(o)
         /\ Whole(o, IF o.symtab # {} THEN o.symtab ELSE o.exported)
=============================================================================
