# A TLA+ model of heapusage

heapusage is a shared library that is preloaded into a program, replaces `malloc`,
`calloc`, `realloc` and `free`, and reports leaks, double frees, buffer overflows and
accesses to freed memory. It runs inside the program it watches: on its threads, in its
signal handlers, across its forks, and on the way out of `exit()`. This directory holds a
specification of it, the TLC runs that check the specification on small instances, and
TLAPS proofs for what holds of every instance. Line numbers are those of the files under
`src/` of the repository.

## 1. Inventory

| Component | State | Operations | Talks to |
|---|---|---|---|
| layout arithmetic, `humalloc.cpp:64-85, 134-159, 204-239, 321-326` | none | round up, user size, system size, fence and user pointer, calloc's check, quarantine limit | used by humalloc |
| humalloc, `humalloc.cpp` | configuration, every user address ever handed out, active blocks, quarantine queue with its byte count, "evicted" flag | `hu_malloc_init`, `hu_malloc`, `hu_calloc`, `hu_realloc`, `hu_free` with its eviction loop, `hu_malloc_size` | libc, `mprotect`; tells hulog of each eviction |
| hulog, `hulog.cpp` | live blocks, freed blocks, totals, reported call stacks, error counters, log file | `log_init`, `log_enable`, `log_event`, `hu_sig_handler`, `hu_log_remove_freed_allocation`, `log_summary` | the log file |
| wrappers and life cycle, `humain.cpp` | the tools selected, whether humalloc is in use | `hu_init`, `malloc`, `calloc`, `realloc`, `free`, `hu_report`, `hu_fini` | calls humalloc or libc, then hulog |
| thread control, `humain.cpp:45-127` | per thread: bypass, saved bypass, call counter; shared: the mutex, `logging_enabled` | recursion guard, lock guard, bypass, the three fork handlers, the report signal | around every wrapper |
| libc allocator, `mprotect` | blocks, page protections | external | called by all of the above |
| call stacks and symbols, `hulog.cpp:174-250, 557-619` | a cache of symbols and one of object files, the call stacks kept in the ledger | `log_print_callstack`, `log_is_valid_callstack`, `addr_to_symbol` | `backtrace`, `dladdr`, the trace resolver; called by reports |
| trace resolver, `ext/backward-cpp/backward.hpp` | caches of opened objects, of DIEs and of their line tables, for one lookup each | `resolve` over libdw, libbfd or libdwarf | the files of the loaded objects |
| launcher, `src/heapusage` | shell variables, a temporary directory, the log file | parse options, find the library, set the environment, run the program, show the log, clean up | environment of the library, the log file |
| macOS interposition, `humain.cpp:322-423` | the same | the same wrappers under other names | the same |

What is hard about it:

- **It calls itself.** `log_event` and `log_summary` allocate, with a non-recursive mutex
  held; a thread-local call counter and a bypass flag keep a thread from waiting for itself.
- **Signals.** `hu_report` may run in a signal handler, on top of a wrapper, of another
  report or of `hu_fini`. It takes no lock and switches two flags that others rely on.
- **fork.** Only the forking thread lives on in the child, with the mutex as it was, with
  half-finished calls of other threads, and with a heap it treats otherwise from then on.
- **exit.** `hu_fini` runs while other threads still allocate.
- **Order of two bookkeepers.** A wrapper first calls the allocator, then the ledger, as one
  action only under the mutex; humalloc, while it evicts, calls the ledger itself.
- **Reuse of addresses.** libc hands out again what was freed, fenced or not; the ledger,
  the freed records and `hu_user_addrs` are keyed by address.
- **Failures.** An allocation fails in the middle of `realloc`; `mprotect` fails; the log
  file cannot be opened.
- **Arithmetic.** Roundings and sums in `size_t` wrap; a fence begins after padding; a
  fault is searched within a page of the block.
- **Objects come and go.** A call stack is captured at one time and printed at another, with
  names from files that may have been replaced and from caches that never expire; a return
  address is not in the line, perhaps not in the function, of its call.
- **One log file, several processes.** The script, the program, its children and what they
  execute share an environment and a path, in no order.

What makes each part correct: the *layout* puts the request inside the block and in front
of the fence. *humalloc* gives nobody memory somebody holds, protects exactly what it must,
returns each block to libc once and keeps the quarantine within its limit. *hulog* keeps a
block live or freed but not both, forgets a freed block when it reports it, and prints
figures that add up. *Together* the ledger is what the program holds, so that leaks and
double frees are the program's own, and a fault is laid at the door of its block. *Thread
control* lets one thread in at a time, never makes a thread wait for itself, puts every
flag back, and lets every call and `exit()` end. *Call stacks* are printed with the names of
the functions that made the calls, or with none. The *launcher* brings the summary of this
run to the user, says so when there was none, and leaves nothing behind. `PROJECT.json`
lists the hazards behind these, line by
line.

## 2. Modules

```
PtrMap      HuLayout                    HeapContract (abstract)
   \         /     \                        |
    \       /   HuLayoutProofs              | INSTANCE, refinement
     Libc--+                                |
       \                                    |
        HuMalloc -- HuMallocProofs ---------+        HuThreads -- HuThreadsProofs
         /    \            HuLog
      HuFork   \            /
     /           HeapUsage -- HeapUsageProofs        Launcher -- LauncherProofs
HuForkProofs

        Objects -- DieSearch -- TraceResolver -- Symbols -- SymbolsProofs
```

**PtrMap** - the few things the code does with its maps from pointers: insert if absent,
assign, erase.

**HuLayout** - the arithmetic as operators, in a `size_t` of `SizeMod` values, with the
statements about it that both the runs and the proofs use (`RequestFits`, `WholePages`,
`FenceGap`; `Representable` says when a size leaves room for the roundings).

**Libc** - *external*: an allocator that places blocks anywhere they fit (with room for its
header between two of them), may fail, and aborts on a pointer it did not hand out. It also
has `hu_mprotect`, which may fail and is then ignored, as the callers do.

**HuMalloc** - `hu_malloc`, `hu_calloc`, `hu_realloc`, `hu_free`. Variables have the names
of the file's globals. A call is one action, but for two places where another component can
be looked at or a block changes hands in between: the second half of `hu_realloc`
(`pending_free`, `ReallocFree`) and the rounds of the eviction loop (`EvictOldest`). The
auxiliary variables say what callers hold: `kept` has the blocks handed out and not handed back,
and `taken` those that are their callers' by the rules of the C library but not humalloc's any
more, because a `hu_realloc` that failed has freed them (`humalloc.cpp:366`). The two together
are `held`. `hu_malloc_size` is an operator, for it changes nothing. Callers make any calls on
blocks they hold and on NULL, and free fenced blocks twice; a plain block freed twice is at
libc's mercy with or without heapusage. That they resize a block that was taken is legal too, and
is in `SpecRetrying`, for libc then aborts.

**HeapContract** - what a program expects of an allocator, in three actions. HuMalloc
implements it with `blocks <- held`, as long as no `hu_realloc` takes a block from its caller
(`KeepsContract`).

**HuLog** - the ledger. `log_event` is two operators, one per event type; `AccessReports`
is the set of reports `hu_sig_handler` can make, since it takes the first block in the order
of an unordered map. A call stack is a value of `Stacks`; those in `ObjcStacks` are the
frees `log_is_valid_callstack` does not believe. Printing is three pieces of state: the
number of double-free reports, the last access report, the last summary.

**HeapUsage** - the wrappers over HuMalloc and HuLog, from before `hu_init` to the end of
`hu_fini`. `todo` holds the `log_event` calls the wrapper that is running has still to make;
the next wrapper waits for it to be empty, which is `hu_mutex`. A report is three steps
(`logging` off, summary, on) between which other threads may go on. Auxiliary variables
record what the program did (`live`, `unlogged`, `dangling`, `double_frees`, `fault`): the
properties compare them with what heapusage says of it.

**HuFork** - HuMalloc in a process that forks, at any moment, also between the two halves of
another thread's call. The behaviour goes on as the parent or as the child. There the bypass
is on and malloc, calloc, realloc and free are libc's, while humalloc's tables stand still;
`hu_fini` turns the bypass off, and destructors free through `hu_free` again. `robbed` remembers
that at the fork a block was taken from its caller: the child has it in its quarantine, or libc
has it back, while the child's code uses it and frees it in libc.

**HuThreads** - the control of `humain.cpp`. Each thread has a stack of calls, and each call
a next step, in the order of the source; signals, faults and `exit()` push calls; a fork goes
on as the parent or as the child. It starts with `hu_init` on the thread `Main`, before there
is a mutex. `EarlyThreads`, `ExitsFrom` and `Interruptible` are switches for what the passing
run leaves out. The heap and the ledger are left out; that `log_event` and `log_summary`
allocate is not, for that is what can deadlock.

**Launcher** - the script `src/heapusage` step by step, with the program it runs and one
child: each has its environment (`LD_PRELOAD`, `HU_FILE`), its directory, and the library in it
or not. Of the library it has what touches the log file: `hu_init` opens it anew, reports and
the summary are appended. Whether a file can be opened, made or removed is part of the situation,
for each directory: a log that cannot be opened makes `hu_init` say so and go on
(`hulog.cpp:151-154`), and `rm -f` may leave an old file. `rm -rf` of the temporary directory is
two steps, the log and the directory, and a child may write in between. The program and the child
fork, execute other programs, change directory, report, exit or are killed in any order.

**Objects** - *external*: loaded objects, their symbol tables and DIE trees, and the libraries
that read them. An object is a record; its code says for each instruction the function, the
unit, the line and what was inlined there, and this is what results are compared with.

**DieSearch** - the searches of the DIE tree by address, once as written for libdw and once
for libdwarf; **TraceResolver** - `resolve()` over each library. hulog makes a new resolver
for each address (`hulog.cpp:568`), so that its caches never hold an earlier lookup and
`resolve` is a function of what is loaded.

**Symbols** - `log_print_callstack`, `log_is_valid_callstack` and `addr_to_symbol` with their
two caches, a call stack kept in an allocation record, and the dynamic loader, which loads and
unloads objects between any two frames of a report. Each call stack carries, as history, the
calls it was made of. They are any calls, from any loaded object, libobjc too, or from code made
at run time that is in no object (`GeneratedCode`), for `backtrace` stops at `MAX_CALL_STACK`
frames, wherever that is. A report of an invalid deallocation prints three stacks; the two kept
ones are printed by the same loop as that of a leak, which is how they are modelled.

**MC modules** give the constants that are records; only MCHuLayout adds behaviour, a sweep over
all values, since HuLayout has none. **HuLayoutProofs**, **MCHuLayoutProofs**,
**HuMallocProofs**, **HeapUsageProofs** (which has those about HuLog as well), **HuForkProofs**,
**HuThreadsProofs**, **LauncherProofs** and **SymbolsProofs** hold the theorems.

Operators named `Mutant_...` stand in front of the definition they vary. Each one is that
definition with a plausible mistake in it (a dropped guard, a missing reset, calls in the
wrong order), used by no specification: `PROJECT.json` says which property must fail
when it is put in place of the definition, so that each property is known to depend on
the code it is about.

## 3. Runs

Passing runs:

| Run | What it asks |
|---|---|
| `layout` | every request and every calloc count of a 64-value `size_t`, with and without a fence |
| `humalloc` | every sequence of calls on a heap that holds two fenced blocks (or three unfenced), with failed allocations, blocks taken from their callers by a failed `realloc`, and double frees; no, one and two blocks of quarantine; a minimum size, so that plain and fenced blocks share the heap |
| `hulog` | every order of events, evictions, faults, summaries and switches of logging, for four configurations |
| `ledger` | the three parts together with `-t all` and with `-t leak -m 2`: the ledger, the leaks and the double frees |
| `faults` | overflow and use-after-free detection: each fault has an owner and is attributed to it |
| `threads` | two threads from `hu_init` on, reports by call and by signal, a fork at any moment of the other thread's calls followed into parent and child, faults, exit: exclusion, recursion, flags, and that calls and exit end |
| `child` | a child with its parent's heap, without fences, from a fork at any moment to the destructors after `hu_fini`: whether it aborts, and whether what it holds is its own and can be used |
| `symbols` | each library of the resolver on 43 programs that differ in how they were compiled, linked, stripped and replaced, with a plugin that another object follows at the same addresses: names, lines and inlined functions of single calls; and stacks of two calls from the program, the plugin, libobjc and code in no object, in any order: which reports are left out |
| `launcher` | the script with `-o` absolute, relative and absent, the library found at once, late or not, loaded or not, a log that can be opened or not, and every order of what the program and a child do |

Runs that end in a violation, each a place where the code does not do what its comments or
documentation say (`findings` in `PROJECT.json` quotes them):

| Run | What it shows |
|---|---|
| `failed_malloc` | a failed `malloc` is logged as a block at NULL; the second `free(NULL)` after it is reported as an invalid deallocation |
| `report_window` | a block freed by another thread while `hu_report` has logging off is reported as lost at exit |
| `child_exit` | a child forked while another thread holds the mutex never gets through `hu_fini` |

The passing runs leave these three situations out: `ledger` has no failed allocation
(`AllocCanFail = FALSE`) and no second thread during a report (`OtherThreads = {}`); the exit of a
child is in `threads`, with its safety, but `ExitEnds` and `CallsReturn` are claimed of the parent.

`launcher` has both a log that cannot be opened and a child that writes in the middle of `rm -rf`,
and its properties say what holds all the same: the script reports a failed preload exactly when
the library was not loaded or could not open its log (`PreloadFailureIsReported`), a summary is
delivered or `hu_init` has said why not (`SummaryReachesUser`), and a directory that stays has
nothing in it but what a child wrote (`TempDirIsRemoved`). What the script's own words promise
beyond that fails, as the table below shows.

### Known disagreements without a run

The modules state some more properties that are known to fail. They repeat a cause above or
are about a detail; each can be seen by giving the named run the property and the values:

| Property | Start from | With | Why it fails |
|---|---|---|---|
| `SysSizeCoversRequest` | `layout` | - | `hu_round_up` and the sum with the fence page wrap near the largest `size_t`; libc's malloc would refuse such a request |
| `FenceIsImmediate` | `layout` | - | up to 15 bytes of padding lie between the request and the fence, `humalloc.cpp:168-169` says "immedately after" |
| `ReturnedUnprotected` | `humalloc` | `MprotectCanFail = TRUE` | the result of `hu_mprotect` is ignored in the eviction loop |
| `EveryDoubleFreeIsReported` | `ledger` | `Sizes = {3}` | the report of the second free erases the record the third would need (`hulog.cpp:337`) |
| `EveryDoubleFreeIsReported` | `ledger` | `Tools <- OnlyDoubleFree`, `Sizes = {3}` | without humalloc the second free reaches libc, which aborts, before `log_event` |
| `FaultIsAttributed` | `faults` | `Tools <- OnlyAll`, `Sizes = {3}` | after a double free the freed record is gone and the access finds no block |
| `NoFalseDoubleFree` | `ledger` | `Tools <- OnlyDoubleFree`, `Sizes = {0, 3}` | a request of no bytes is not logged (`humain.cpp:259`, `:290`, `:313`), so that the freed record of an earlier block at its address stays, and its legal free is reported as a second one |
| `FaultIsAttributed` | `faults` | `Tools <- OnlyUseAfterFree`, `Sizes = {1, 4}` | the window behind a live block is a byte wider than a page (`<=` in `hulog.cpp:376`): of a freed block a page behind one that fills its pages the first byte is attributed to the live one |
| `FenceFaultIsAttributed` | `faults` | `Tools <- OnlyOverflow`, `Sizes = {1}`, `SizeMultiple = 4` | the window starts at the end of the request, the fence after the padding |
| `FreedRecordsAreQuarantined` | `faults` | `Tools <- OnlyNoQuarantine` | a block evicted by its own free loses its record before the wrapper's `log_event` adds it |
| `FreedRecordsAreQuarantined` | `faults` | `Sizes = {1, 3}`, `MallocStarts = {2, 8, 16}`, a minimum size of 2 | a block that libc owns, from before `hu_init` or below the minimum size, stays libc's when the program resizes it (`humalloc.cpp:370-373`), but past the minimum size its free is logged (`hulog.cpp:263-293`): the record has no block in quarantine to go with |
| `DataProtected` | `threads` | - | `hu_report` walks the ledger without the mutex |
| `ChildBypasses` | `threads` | as it is, counting reports (without the guard on `spent`) | `hu_report` ends with the bypass off, in a child as well |
| `AllHeldIsAccessible` | `humalloc` | - | `hu_realloc` frees the old block also when it got no new one (`humalloc.cpp:359-368`); the caller still owns the block, and it is protected in quarantine |
| `KeepsContractAlways` | `humalloc` | - | the same: memory that somebody holds is freed, and handed out again |
| `NeverAborts` | `humalloc` | `SpecRetrying` | the same: the caller tries to resize the block again, finds it in no table (`humalloc.cpp:357`), and libc gets a pointer it did not hand out |
| `RobbedChildNeverAborts` | `child` | - | the same in a child that frees the block: with no quarantine libc has it back already |
| `NoMissedLeak` | `failed_malloc` | `Tools <- OnlyLeak`, `MallocStarts = {2, 8, 16}` | `realloc` logs the free of its block also when libc could not resize it (`humain.cpp:310`): the program still has the block, the ledger does not, and its leak is not reported |
| `NoBlockIsLost` | `humalloc` | `Configs <- MCMixedConfigs` | `hu_user_addrs` is never pruned: a plain block libc places at an old fenced pointer is taken for one of humalloc's when it is freed, and never returned (`humalloc.cpp:263`) |
| `NoSelfDeadlock` | `threads` | `Interruptible <- Anything`, `MaxForks = 0`, `MaxCalls = 0` | a report by signal inside `hu_fini` turns the bypass off, and `log_summary` allocates with the mutex held (`humain.cpp:69`) |
| `ForkNeverLocks` | `threads` | `Interruptible <- Anything` | the same inside `fork` |
| `OneInside` | `threads` | `EarlyThreads = {t2}` | a thread that is in a wrapper when `hu_init` makes the mutex holds no lock, and its unlock takes another's away (`humain.cpp:94`) |
| `NoSelfDeadlock` | `threads` | `ExitsFrom = {"program", "wrapper"}` | the `exit(1)` in `hu_mprotect` (`humalloc.cpp:124`) runs `hu_fini` with the mutex held |
| `FencedChildNeverAborts` | `child` | `Configs <- MCFencedConfigs` | the child gives pointers of fenced blocks it inherited to libc, which did not hand them out |
| `ChildCanUseItsMemoryToTheEnd` | `child` | `Sizes = {1, 5}` | after `hu_fini` a pointer in humalloc's stale tables is freed as the block they have |
| `NoStaleReport` | `launcher` | - | `rm -f` could not remove the output file of an earlier run, and hu_init not open it: what is in it is taken for this run's (`heapusage:294`) |
| `UnableMeansNotLoaded` | `launcher` | - | the log of `-o` cannot be opened, `hu_init` says so and goes on (`hulog.cpp:134`, `:151-154`), and the script takes the missing file for a failed preload (`heapusage:394` "unable to preload libheapusage") |
| `TempDirIsAlwaysRemoved` | `launcher` | - | a child that outlives the program opens the log with "a" (`hulog.cpp:312`, `:446`) after `rm -rf` has removed it and before it removes the directory, which then stays (`heapusage:397` "Cleanup temp dir") |
| `ExitStatusIsPassedOn` | `launcher` | - | `RV` is the status of `FOUND=1` (`heapusage:373-374`) |
| `ChildIsNotTracked` | `launcher` | - | a child's `exit()` runs `hu_fini` too, which appends a second summary |
| `SummaryReachesUser` | `launcher` | without its guard on a relative name | the script has removed the file, so that `realpath` in `hu_init` finds none and the name stays relative (`humain.cpp:149-155`); after `chdir` the summary goes elsewhere |

The properties of `symbols` have guards for what the resolver cannot do or gets wrong, each a
definition with a comment: `LastFunction`, `HiddenUnit` and `Rebased` for libdwarf,
`Overwritten` for libdw, `ReadsSymtab` without a library, `Intact` for objects whose file was
replaced (libdwarf also opens the program itself by its path, `backward.hpp:2148`), `Returns` for
a caller whose last instruction is the call, and `SoleTenant` for an address that two objects had
one after the other: `symbol_cache` keeps the first answer, an empty one too. The temporary
directory that the script leaves behind when it finds no library (`heapusage:381-383`) is outside
`TempDirIsRemoved`, which is about scripts that ran a program. `VerdictIsOfOrigin` is of the
outermost frame that is in an object: `log_is_valid_callstack` passes over frames it finds no
object for. With two tenants of an address it may be wrong, as `objfile_cache` never expires.

Properties of HuMalloc and HuFork about what a caller holds leave out the blocks that a failed
`hu_realloc` has taken (`DOMAIN taken`, `robbed`), and only those; the four rows about it show
why. Everything else about such a block is in the runs: the caller frees it, and humalloc ignores
that as a double free, or its memory is handed out again and the same free frees the new holder's
block.

The table is also why `ledger` has no requests of no bytes, why `faults` is checked without
double-free detection, with blocks that are not whole pages and with a quarantine that holds a
block, and why `FaultIsAttributed` has the guard `InWindow`.

### Bounds, and why they are enough

- *Memory*: pages of 4 bytes, double words of 2 (alignment 16 and pages of 4096 in the
  program; the arithmetic itself is proved for all). 23 bytes hold two blocks with a fence,
  or three without: one in use, one in quarantine and one more, so every reuse of an address
  happens after a few calls. `MallocStarts` bounds the places of plain blocks; one of them is the
  user pointer of a fenced block, the case where confusion is possible.
- *Sizes* 0 (in `humalloc` and `child`), 1 and 3: no bytes, less than a double word, and padded to
  a page. A count of 3 in `Counts` makes calloc's product differ from its size, and 9 bytes are
  blocks of three pages.
- *MaxHeld* 2: two blocks are what "no two holders" needs. The number of calls of
  `humalloc` is not bounded.
- *MaxCalls* 5 in HeapUsage: malloc, realloc, free, allocation at the same address, second
  free is the longest scenario a property needs.
- *MaxAllocs* 2 and *MaxFrees* 4 in HuLog: two double frees, each with its allocation and
  its release, so that a call site can err twice. *MaxFaults* 1, because a fault ends in
  `exit()`. Three call sites, one of them in `ObjcStacks`; pointers 0 and 3; sizes on both
  sides of `minleak`. The log file always opens here: with `LogFileCanFail` the equation in
  `ReportsMatchErrors` is not claimed, only that no more is printed than counted.
- *Two threads*, three wrapper calls, one report, one signal, one fork: a thread in a
  wrapper, one that waits, and an interruption of either. Nested calls are added to that.
- *The child*: 20 bytes of memory, two places for libc's own blocks and four calls in the child
  (`MaxChildCalls`), enough to free what it inherited, to get the same address again from libc and
  to free that in a destructor.
- *Symbols*: in `symbols` call sites 0, 1, 2 and 4 are the first and the last instruction of a
  function, one with inlined code and one in another unit; the programs differ from the usual one
  in one way or in a few that act together, for a lookup is about one object. Stacks have one call
  in the builds with a library and two, from anywhere, in the one without: one that decides the
  verdict, and one outside or inside it. One event of each kind; two loads, so that the second
  object can be at the addresses of the first.
- *Launcher*: one child, one report for each process, three places of the library. A second
  child could do nothing the first cannot. The log can be opened everywhere, or not in one of the
  temporary directory and the script's, or there only if it exists.
- `SizeMod` and `CountMod` are large in the runs of the state machines (wrapping is the
  subject of `layout`) and 64 in `layout`.
- *Deadlock* is checked in `humalloc` and `hulog`. It is off in `layout`, a sweep that ends at
  the largest size; in the HeapUsage, `child`, Symbols and Launcher runs, where the process
  or the script ends or has used up its calls; and in `threads` and `child_exit`, where a
  forked child may hang for ever. That nobody hangs in `threads` but such a child is what
  `CallsReturn` and `ExitEnds` say.

A module's `TypeOK` that is not among a run's properties also holds on it.

### Fairness

`HuThreads` has `WF(Continue(t))` for each thread, that is, the operating
system goes on running a thread in the middle of a call. Nothing is assumed of what the
program calls, and nothing of which waiting thread gets the mutex, `std::mutex` being
unfair: `ExitEnds` holds because the program's calls are bounded, so the waiting cannot
go on for ever. With an unbounded stream of wrapper calls by other threads `hu_fini` could
starve; the model does not claim otherwise.

`Launcher` has `WF(Script)`: the shell goes on with the script when it can. Nothing is assumed of
the program, which may run for ever; `ScriptEnds` says that the script ends if the program does.

## 4. Proofs

**HuLayoutProofs**, from the assumptions of HuLayout (a page size and a double word that is
positive and not larger). `LayoutFits`: a representable request lies in its block and in
front of its fence, less than a double word from it. `CallocCheckExact`: `hu_calloc` rejects
exactly the products that do not fit, by the uniqueness of quotient and remainder. The
lemmas before them say what rounding up yields. **MCHuLayoutProofs** carries the two over to the
sweep of the `layout` run (`RequestsFit`, `CallocRejectsOverflow`): its properties hold for every
size_t, page and double word.

**HuMallocProofs**, from the assumptions of HuLayout, Libc and HuMalloc: any page size, any
heap, any header between libc's blocks, any representable sizes and any configurations, with
allocations and `mprotect` calls that may fail. The theorems are `TypesKept`,
`BlocksOwnedOnce` (each block in use or in quarantine is one libc has not got back, recorded
once) and `NeverAbortsEver` (libc never gets a pointer it is not waiting for). None of
the three is inductive. The invariant `AllocatorInv` adds

- `HeldIsReturnable`: what a caller was given and keeps (`kept`) is active, or a block of libc
  that humalloc does not own. Otherwise a legal `free` could pass a quarantined block's address
  to libc. For blocks that a failed `hu_realloc` has taken it is enough that they were fenced
  (`TakenInv`): humalloc ignores their free.
- `PendingIsActive`: between the halves of `hu_realloc` the old block is active and no caller
  keeps it. Otherwise the second half could free what another call has freed.
- `ActiveIsKnown`: an active pointer is in `hu_user_addrs` and lies in its block. The first
  part sends its free to the right branch of `hu_free`; the second, with the layout lemmas of
  HuLayoutProofs, says that a new block is never entered under a pointer already active,
  where `insert` would leave the old entry in place.
- `NothingBeforeInit` and `BlocksInMemory`: calls before `hu_malloc_init` meet no fenced
  block, and the pages a call protects are pages of the heap.

Two invariants stand on it. `MemoryInv` adds where blocks lie:

- `Apart` and `LaidOut`: blocks of libc are disjoint, and the bytes a caller may use, the padding
  up to the fence included, lie in their block and in front of its fence.
- `Protected`: an address is protected if and only if it is in the fence of an active block or in
  a quarantined one, unless an `mprotect` has failed.
- `HeldHasRoom`: a pointer in `kept` is active with the size that was asked for, or a block of
  libc's that long. It follows a block through both allocators, so that a small `realloc` may move
  a fenced block to libc.

From it follow `HeldIntact`, `HeldAccessible`, `UsableSizeKept` and `ProtectionExact`, and
`ContractKept`, the refinement: each step of HuMalloc is one of `HeapContract`, with a lemma per
call that names the block handed out or back. It is proved for `kept` first, where every step
is one of the contract's, and carried over to `held`, which is the same while nothing is taken
(`NoneTaken`, `StepOfKept`); a `hu_realloc` that fails is a step of neither, and the guard of
`KeepsContract`, that nothing is taken after the step, leaves it out. The other three
speak of the blocks that are held and not taken. `ProtectionExact` rests on what the code takes for
granted without a check, that the pages of one block are never another's.

The first lemmas are about ownership of any three values of the maps and the queue
(`OwnsPut`, `OwnsInsert`, `OwnsGiveBack`, `OwnsQuarantine`, `OwnsEvict`, ...); then what each
thing a call does to the heap leaves behind (`Allocated`, `Released`), and one lemma per
call. `AllocatorInv` holds on the `humalloc` run, as TLC confirms when it is given to it as an
invariant.

**HuLog by itself**, the first part of HeapUsageProofs, from HuLogAssumption alone: any sets of
pointers, sizes and stacks, any configurations, any bounds. The inductive invariant is

    LedgerInv == TypeOKHuLog /\ LiveOrFreed /\ FreedKnowsWhere /\ FreedOnlyIfKept

`LiveOrFreed` (no pointer is live and freed) is not inductive as it stands: `log_event`
removes the freed record of a pointer it makes live only if freed blocks are kept at all
(`KeepsFreed`). If there could be freed records without that setting the step would break
it. `FreedOnlyIfKept` says there are none, and holds because every insertion has the same
condition. `FreedKnowsWhere` needs the types and itself. There is one lemma per action;
`LedgerInvariant` combines them, and the four theorems `LedgerTypes`, `LiveAndFreedApart`,
`FreedStackKnown` and `ReportUsesRecordUp` (an action property: a counted double free uses
up a freed record) follow from it.

`ReportsMatch` has its own invariant, `ReportsInv`: the set of reported call sites is finite, which
its cardinality needs, and `ReportsMatchErrors` itself.

`BytesCover` and `DetailsSumUp` are about sums over sets. `MapThenSumSet` is a recursive function
on the subsets of a set, and nothing is known of it before such a function is known to exist. The
lemmas from `Least` on show that, and what a sum does when an element leaves (`SumRemove`), when
two sets are joined (`SumJoin`) and when a set is split in groups (`SumOfGroups`), each from a
smallest subset for which it would fail, so that no induction over an operator is needed. Then:

- `BytesInv(largest)`: the bytes of the live blocks are at most the current count, that is at most
  the peak, and all are at most the number of allocations times the largest size. The last part is
  what keeps the counts from wrapping and with it the subtraction of a free from going below zero;
  hence the hypothesis `BytesFit`, that the allocations of a run, all of the largest size, fit in
  an unsigned long long.
- `DetailsInv`: the ledger is finite and holds no block below `minleak`, so that the summary, which
  tests the size a second time, drops none; then each block is in one group (`GroupsAddUp`).

**HeapUsageProofs** carries HuMallocProofs over to the whole and relates the three parties: what
the program holds (`live`), what humalloc and libc have for it, and what the ledger says. From one
or more of these hypotheses:

- `OneThread`, `AllocationsSucceed` and `NoEmptyRequests` exclude what the runs `report_window`
  and `failed_malloc` show, and the requests of no bytes in the table above: without them the
  theorems are false. `~LogFileCanFail`,
  in the theorems about leaks, is about a summary that could not be written.
- `LibcNotices` is about the program's own mistake: a plain block that is freed twice makes libc
  abort. After that nothing is claimed of the process. Without it libc may take the second free
  for one of another block's that has come to lie there, and the program, not heapusage, has
  corrupted the heap. It says nothing about fenced blocks, whose second free is humalloc's to
  ignore.
- `LogsEveryBlock` (with double-free detection no minimum size) and `NoLibobjc` say, for
  `SecondFreesReported`, that hulog is told of the block and believes the free.

`LedgerExact`, `NoFalseLeaks` and `NoMissedLeaks` follow from `BlocksInv`: libc has stopped the
process, or `CoreInv` holds, which is MemoryInv and

- `Owned`: humalloc's callers hold what the program does.
- `Events`, `RecordedIsHeld` and `LedgerSoFar`: `todo` has one of the four shapes a wrapper can
  leave it in, and the ledger *with* the events of `todo` is what the program holds. This is where
  the order of the calls in `realloc` counts: after the allocator has acted and before either event
  is logged, the ledger still has the old block, perhaps at the address of the new one.
- `Phase` and `BeforeInit`: `hu_report` and `hu_fini` turn logging off only with nothing left to
  log, and before `hu_init` nothing is logged. `SummaryIsLedger`: a summary is of the ledger at
  its time.

The four wrappers are one form, `Calls(old, ret, size, freed)`, so that each lemma is stated once.
`NoFalseReports` adds (`FreeInv`) that a freed record is of a block the program freed and has not
got again, and that the counter is at most the number of errors even with the report that is due
(`Due`). `SecondFreesReported` adds (`SecondInv`) the other direction, `Remembered`: a block freed
once still has its freed record, or the free in `todo` is about to make one, and the counter
covers all second frees but the one that is due.

`QuarantineBounded` is about HuMalloc; it is here for the sums that the theorems about
HuLog need. `QuarantineInv`, that the count is the sum of the queue, would be broken by a step in
which the count wraps. It does not: by
`MemoryInv` the blocks in quarantine are apart and in memory, so that their sum is the number of
addresses they take (`KeptFit`), and `LibcAssumption` has every address fit in a `size_t`.

`FreedRecordsQuarantined` stands on `RecordsInv`, which adds to `CoreInv` and `QuarantineInv`

- `FreedAreKept`, the property at every step: between the first `log_event` of a call and the
  last, too;
- `NextFreedIsKept`: a block whose free is still in `todo` is the newest in quarantine, or is
  pending in a `realloc`. As the block fits in the quarantine (`EachFits`) and the count is exact,
  the evictions of the same call stop before it (`Evicting`);
- `OwedIsFenced` and `SetUp`: what the ledger has is fenced, in the configuration `hu_init` gave.

Two hypotheses exclude what the table above shows: `FitsQuarantine`, no request is larger than the
quarantine, and `FencedResizes`, the program resizes no block that libc owns.

`FaultsAttributed` needs the geometry of the pages, the ledger and the reports at once. `FaultsInv`
adds to `RecordsInv`

- `PlaceInv`: blocks are `HeaderSize` apart (`Spaced`), those with pages of their own are whole
  pages (`AllPaged`). Two of them are then a page apart or more (`MultiplesApart`), which is why
  the window behind one, a page from the end of the request, does not reach the next
  (`WindowApart`);
- `TraceInv`: everything active is owed to the ledger but for the block a `realloc` is moving
  (`ActiveIsOwed`), and each block in quarantine has its freed record, with its size, or the event
  that will make it is in `todo` (`QueueIsKnown`). So between calls the ledger is humalloc's tables
  entry by entry (`LedgerIsHeap`), and the search finds the owner of the page and nobody else
  (`Blamed`).

`FaultHypotheses` has what this takes, all of it in the `faults` run as well: mprotect does not
fail (its result is ignored), `HeaderSize # 0` (libc keeps a header between blocks),
`AccessWindow` is the page of `hulog.cpp:376`, no tool detects double frees, and, in a tool
without fences, no block fills its pages (`SpareByte`); the table above shows what happens without
the last two.

**HuForkProofs**: the parent satisfies MemoryInv (`ForkInv`), so that a child starts from a state of
HuMalloc's, in the middle of another thread's call perhaps. In a child without fences, forked while
no block was taken from its caller (`InSoundChild`), `ChildInv`
gives up what no longer holds of the stale tables and keeps `Sound`: what the child holds is a block
of libc's, and neither a quarantined block nor any other holder's. `ActiveAtStart`, that the stale
entries have the block's address for its pointer, makes a destructor's `hu_free` give libc the
right block; with fences it fails, and so does the property (`FencedChildNeverAborts`).
`QueueIsOfFork`: until `hu_fini` what is protected is what was in quarantine at the fork. There are
no hypotheses besides HuMallocProofs'. In the child itself `realloc` is libc's and takes no
block when it fails, so that what was sound at the fork stays so.

**LauncherProofs**, from LauncherAssumption: any command lines and any number of places of the
library. The four safety properties of the `launcher` run (`FailureIsReported`,
`SummaryIsDelivered`, `NothingIsLeft`, `NoReportIsLost`) follow from one inductive invariant,
whose parts are:

- `Stages`: which steps of the script go with which states of the two processes. Everything else
  leans on it: the program runs only between `Launch` and `Await`.
- `Loading`: only the program that the script starts loads the library, and before it has done
  anything else; so a process that calls `hu_init` is in the script's directory and has no child.
  It holds because `hu_init` takes `LD_PRELOAD` out of the environment.
- `Opened`: the log file is there exactly from `hu_init` on, if it can be opened, or all the
  time if an old one could not be removed (`OldStays`). This is what the script's test for
  the file relies on.
- `Fresh`: nothing has been reported when `hu_init` or the script empties a file.
- `Kept`, `Told` and `Gone`: what has been written is still there, then shown; what was said is
  true, by the script and by `hu_init`; after the log is removed only a child makes it anew, and
  the directory stays if and only if one did.

**HuThreadsProofs**, from HuThreadsAssumption and `Undisturbed`, which says of the switches what
the `threads` run sets them to: no thread before `hu_init`, signals in the program and in
wrappers, `exit()` from the program. Then, for any number of threads, calls, reports, signals and
forks, `OneThreadInside`, `NoThreadWaitsForItself`, `ForkTakesNoLock`, `FlagsArePutBack` and
`LoggingComesBack` hold, and the types. None of these is inductive: that the mutex has one
holder does not say who will lock it next, and that a flag is put back depends on who saved it.
The inductive invariant `IInv` is, besides the types, one of two:

- `Initialising`: only the main thread is there, in one of four stages of `hu_init`; as long as
  there is no mutex it may be in `log_init`'s wrappers as if it held one.
- `Threaded`: each thread has one of six shapes of stack (`InCalls`, `InSignal`, `InReport`,
  `InFault`, `InExit`, `InFork`), and it holds the mutex if and only if it is `Inside`. The shapes
  tie the stack to the flags: `Counted` says that the call counter is the number of wrappers past
  their guard, at most two, of which only the lower one is inside; every other call that allocates
  runs with the bypass on, so that its wrapper stops at the guard. With it `LogHeld`: logging is
  off only while some report that has turned it off is still on a stack.

Each action changes one thread's stack in one of four ways, and the lemmas about stacks say what
becomes of the shape. `ThreadedByOne` carries over what concerns the other threads, so that an
action's lemma speaks of its own thread only; `fork` in the child and the end of `hu_init` change
which threads there are, and have their own. Where `Undisturbed` is needed shows what the code
relies on: in `SignalThreaded`, as a report that interrupts another turns the bypass off under
it, and in `ExitThreaded`, as `hu_fini` in a wrapper waits for the mutex its own thread holds.

**SymbolsProofs**, from two assumptions about the objects, which TLC evaluates for each of the 43
programs of the `symbols` run:

- WorldAssumption: an object's addresses are those of its code and one more, none of them those of
  code made at run time, its calls are among them, names are unique, and a section is found for an
  address, moved by where the file is mapped or not, just when that gives the link address
  (`InPlace`). That last part is what relocation must provide for `find_in_section` to have a
  chance; nothing in the code checks it.
- DieAssumption, used for libdw and libdwarf only: the unit and the row that are found for an
  instruction, and the linkage name that libdwarf's search collects, are the instruction's own,
  except in the ways the resolvers get wrong (`HiddenUnit`, `Rebased`); a symbol table that libdwarf
  reads is whole or absent (`Whole`), and a function is in one piece (`InOnePiece`). The first is
  about recursive functions on the DIEs, for which no induction is available. So for these two
  libraries it is proved what becomes of the searches' results - which names win, from which file,
  through which cache - and for libbfd and for no library nothing is left open. Nothing is assumed
  of the chain of inlined functions that the searches collect, and nothing proved of it.

Then, for any builds and objects, stacks of any depth and any number of loads and reports,
`VerdictAlwaysOfOrigin`, `FrameAlwaysOfCaller` and `NothingIsEverMissed` hold, and with libbfd
`BfdChainIsAlwaysExact`, the chain of inlined functions. The difficulty is time: a stack is
captured, objects come and go, and it is printed from caches filled earlier still. `OriginInv`
says of the loader that two loaded objects never share an address and that `tenants` knows of each
(`LoadedInv`, `TenantsInv`), of every stack that each of its calls was made from an object then
loaded, or from code in no object (`StacksInv`), and of `objfile_cache` that it has names of
objects that were at the address (`ObjfileInv`). With a single tenant, then, the cached object is
the caller's, and the frame at which the loop of `log_is_valid_callstack` stops is the outermost
one in an object. `SymbolsInv` adds the same for `symbol_cache`: each entry is what a lookup gives
of an object that was at the address, or nothing (`SymbolInv`); that the report's lines are those
of its frames so far (`PrintInv`); and that the last lookup was made among objects not in each
other's way (`TraceInv`). What remains is about one lookup in one object (`LookupIsRight`,
`LookupIsFull`): through sections, symbol tables and the two addresses of libbfd, and through
libdwarf's `lower_bound`, which finds the function's symbol because the function is in one piece
and another one follows (`LastFunction` excepts the last).

Checked by TLC only, and why:

- liveness (`ExitEnds`, `CallsReturn`, `ScriptEnds`), and that no state is a deadlock, which is
  about `ENABLED`;
- what the searches of DieSearch return for every tree of DIEs, an induction over data: the run
  `symbols` evaluates them, and DieAssumption, on all its objects. With it `InlineChainIsExact`
  for libdw and libdwarf, whose chain is what the search collects.

`FreedStackKnown`, `ReportUsesRecordUp`, `HeldIntact` and `HeldAccessible` are proved of properties
that no run needs to check any more.

## 5. Not modelled

- Of backward-cpp: unwinding (`backtrace` is external), the printers, the signal handlers, and
  the resolvers of macOS and Windows; hulog uses none of them. Relative `.gnu_debuglink` names,
  which are looked up from the current directory, are left out with the debug files they name.
- The macOS names for the same wrappers, the launcher's code signing (`-c`) and debugger, build
  and tests.
- Faults inside a wrapper: faults come from the program only. Threads that run before
  `hu_init`, and `exit()` inside a wrapper, are switches of HuThreads, off in the passing run.
- Threads that a forked child starts.
- Allocators that are not wrapped (`memalign`, `posix_memalign`, `mmap`).
- `hu_malloc_cleanup`, which nothing calls, and `log_init`'s file and environment handling,
  of which the result is the initial configuration.
- `__libc_freeres()` in `hu_fini` (`humain.cpp:203-207`), which frees what libc keeps for itself
  through the wrappers, with logging on: in HeapUsage that is a `free` by the program before
  `FiniSilence`, in HuThreads wrapper calls before `exit()`; in a child it goes to libc.
- In HuThreads, that `hu_bypass` goes off one statement after `hu_mutex` is set
  (`humain.cpp:169-170`): only the thread in `hu_init` reads the flag.
- What the program does with a block that it still owns and `hu_realloc` has freed, other than
  freeing it: resizing it is in `SpecRetrying`, and an access to it is a fault that HeapUsage's
  runs, in which no fenced allocation fails, do not reach. No text of the repository says what
  `hu_realloc` owes on failure, so no run is made of it.

## 6. Plan

Done, in this order: HuLayout, HuMalloc with HeapContract, HuLog, HeapUsage, HuThreads; the
proofs about HuLayout and HuLog, and of HuMalloc's types and ownership; HuFork, early threads and
exits in HuThreads, Launcher and its proofs, the trace resolver with Symbols, the proofs
about HuThreads; the geometry of HuMalloc and its refinement of HeapContract, HeapUsage as a whole,
HuFork's child, and Symbols. Every safety invariant and action property of the passing runs has a
theorem.

Next, modelling: threads of a forked child, whose first wrapper call finds the mutex as the fork
left it.

Next, proofs: what the searches of DieSearch return for the trees that compilers make, which would
replace DieAssumption.
