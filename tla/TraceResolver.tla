--------------------------- MODULE TraceResolver ---------------------------
(***************************************************************************)
(* backward-cpp's TraceResolver on Linux: what one call of resolve() says  *)
(* of an address, for each library it can be built on.  hulog constructs a *)
(* resolver for every lookup, so that the object and DIE caches a resolver *)
(* keeps never hold more than that lookup put there, and resolve() is a    *)
(* function of the loaded objects and the address.                         *)
(***************************************************************************)
EXTENDS DieSearch

\* A ResolvedTrace, its source location as file, line and function.
NoTrace == [object_function |-> "", function |-> "", file |-> "", line |-> 0,
            inliners |-> <<>>]

At(trace, file, line) == [trace EXCEPT !.file = file, !.line = line]

\* resolve_exec_path: the program is opened through /proc/self/exe, which is
\* the running image whatever became of its path; any other object by path.
resolve_exec_path(o) == IF o.exec THEN {o} ELSE ImageAtPath(o)

(***************************************************************************)
(* libbfd                                                                  *)
(***************************************************************************)
\* A plausible slip: any file at the path will do.
Mutant_SameInode_unchecked(o) == o.disk # "deleted"

\* The path is trusted when it and the file to open have one inode; another
\* object than the program is compared with itself.
SameInode(o) == o.disk = "same" \/ (~o.exec /\ o.disk = "replaced")

\* An image without symbols gives no handle.
load_object_with_bfd(images) ==
  {image \in images : image.symtab \cup image.exported # {}}

BfdObject(o) ==
  LET atPath == load_object_with_bfd(ImageAtPath(o))
  IN IF SameInode(o) /\ atPath # {}
     THEN atPath ELSE load_object_with_bfd(resolve_exec_path(o))

InSection(section, a) ==
  Within(a, section.vma, section.vma + section.size)

\* A plausible slip: no second try for a relocated object.
Mutant_find_in_section_as_is(image, section, addr, base) ==
  IF section.alloc /\ InSection(section, addr)
  THEN bfd_find_nearest_line(image, section, image.symtab, addr - section.vma)
  ELSE NotFound

\* The address as it is, or else relative to where the object is mapped; the
\* dynamic symbols only when the static ones give nothing.
find_in_section(image, section, addr, base) ==
  LET a == IF InSection(section, addr) THEN addr ELSE addr - base
      In(table) ==
        IF section.alloc /\ InSection(section, a) /\ table # {}
        THEN bfd_find_nearest_line(image, section, table, a - section.vma)
        ELSE NotFound
  IN IF In(image.symtab).found THEN In(image.symtab) ELSE In(image.exported)

\* The first section that gives a result.
find_symbol_details(image, addr, base) ==
  LET In(section) == find_in_section(image, section, addr, base)
      first == SelectInSeq(image.sections, LAMBDA section : In(section).found)
  IN IF first = 0 THEN NotFound ELSE In(image.sections[first])

\* A plausible slip: the instruction before is preferred in every build.
Mutant_BfdDetails_adjusted(unwind, image, addr, base) ==
  LET callSite == find_symbol_details(image, addr, base)
      adjusted == find_symbol_details(image, addr - 1, base)
  IN IF callSite.found /\ adjusted.found THEN adjusted ELSE callSite

\* A build that does not walk the stack by unwinding looks up the instruction
\* before the return address as well, and prefers it.
BfdDetails(unwind, image, addr, base) ==
  LET callSite == find_symbol_details(image, addr, base)
      adjusted == find_symbol_details(image, addr - 1, base)
  IN IF ~unwind /\ callSite.found /\ adjusted.found THEN adjusted ELSE callSite

BfdResolve(unwind, o, addr) ==
  LET named == [NoTrace EXCEPT !.object_function = DliSname(o, addr)]
      details == {BfdDetails(unwind, image, addr, o.fbase) :
                    image \in BfdObject(o)}
      found == {d \in details : d.found}
  IN IF found = {} THEN named
     ELSE LET d == CHOOSE d \in found : TRUE
          IN [At(named, d.file, d.line) EXCEPT
                !.function = Head(d.chain),
                !.object_function = IF @ = "" THEN Head(d.chain) ELSE @,
                !.inliners = Tail(d.chain)]

(***************************************************************************)
(* libdw                                                                   *)
(***************************************************************************)
\* The file as /proc/self/maps names it: "(deleted)" once its inode is gone
\* from the path.
DwModule(o) == {image \in {o} : o.disk = "same"}

\* A unit found by .debug_aranges, else the first with a function there.
DwUnit(image, v) ==
  LET first == SelectInSeq(image.units,
                           LAMBDA u : DwFindFundie(u, v))
  IN IF ArangeUnits(image, v) # {} THEN ArangeUnits(image, v)
     ELSE {image.units[k] : k \in {first} \ {0}}

\* What the callbacks put together: the function, the inlined ones, and for
\* libdwarf the linkage name of the function.
NoCalls == [function |-> "", inliners |-> <<>>, linkage |-> ""]

DwCallback(unit, calls, die) ==
  LET name == DwName(unit, die)
  IN CASE die.tag = "subprogram" /\ name # "" -> [calls EXCEPT !.function = name]
       [] die.tag = "inlined_subroutine" ->
            [calls EXCEPT !.inliners = Append(@, name)]
       [] OTHER -> calls

DwCalls(unit, v) ==
  FoldLeft(LAMBDA calls, die : DwCallback(unit, calls, die), NoCalls,
           DeepFirstSearch("libdw", unit, v).dies)

DwResolve(o, addr) ==
  LET v == addr - o.bias
      units == UNION {DwUnit(image, v) : image \in DwModule(o)}
      unit == CHOOSE unit \in units : TRUE
      rows == SourceRow(unit, v)
      name == IF DwModule(o) = {} THEN ""
              ELSE SymbolOf(o, o.symtab \cup o.exported, v)
      named == [NoTrace EXCEPT !.object_function = name]
      calls == DwCalls(unit, v)
      at == IF rows = {} THEN named
            ELSE At(named, unit.name, (CHOOSE row \in rows : TRUE).line)
  IN IF units = {} THEN named
     ELSE [at EXCEPT !.inliners = calls.inliners,
                     !.function = IF calls.function = "" THEN name
                                  ELSE calls.function]

(***************************************************************************)
(* libdwarf                                                                *)
(***************************************************************************)
\* load_object_with_dwarf: the function symbols by value, of .symtab if the
\* object has one; without debug information there is no handle.
SymbolCache(image) ==
  LET table == IF image.symtab # {} THEN image.symtab ELSE image.exported
  IN [v \in {SymbolValue(image, fn) : fn \in table} |-> image.code[v].function]

load_object_with_dwarf(images) == {image \in images : image.units # <<>>}

\* std::map::lower_bound, and the entry before it unless that is the address.
\* Above the last key there is no entry; below the first it is the first.
NearestSymbol(cache, v) ==
  LET above == {k \in DOMAIN cache : k >= v}
      below == {k \in DOMAIN cache : k < v}
  IN IF above = {} THEN ""
     ELSE IF v \in above \/ below = {} THEN cache[Min(above)]
     ELSE cache[Max(below)]

\* find_die: .debug_aranges, else the first unit with the address by its own
\* pcs, else the first with a function there.
DwarfUnit(image, v) ==
  LET byPc == SelectInSeq(image.units, LAMBDA u : DwarfHasPc(u, FALSE, u, v))
      byFunction == SelectInSeq(image.units,
                                LAMBDA u : DwarfFindFundie(u, v))
  IN IF ArangeUnits(image, v) # {} THEN ArangeUnits(image, v)
     ELSE {image.units[k] :
             k \in {IF byPc # 0 THEN byPc ELSE byFunction} \ {0}}

\* The line map of a unit keeps the first row of an address, and has nothing
\* above its last row nor below its first.
DwarfRow(unit, v) ==
  LET addresses == {row.addr : row \in ToSet(unit.lines)}
      below == {a \in addresses : a <= v}
      at == SelectInSeq(unit.lines, LAMBDA row : row.addr = Max(below))
  IN {unit.lines[k] : k \in {k \in DOMAIN unit.lines :
                               /\ below # {} /\ k = at
                               /\ \E a \in addresses : a >= v}}

ReferencedName(unit, off) ==
  LET dies == DieAt(unit, off)
  IN IF dies = {} THEN "" ELSE (CHOOSE d \in dies : TRUE).name

DwarfName(unit, die) ==
  LET names == SelectSeq(<<die.name, ReferencedName(unit, die.abstract_origin),
                           ReferencedName(unit, die.specification)>>,
                         LAMBDA name : name # "")
  IN IF names = <<>> THEN "" ELSE Head(names)

\* Only the first function counts; its linkage name stands in for a missing
\* symbol.
DwarfCallback(unit, calls, die) ==
  CASE die.tag = "subprogram" /\ calls.function = "" ->
         [calls EXCEPT !.function = DwarfName(unit, die),
                       !.linkage = IF @ = "" THEN die.linkage ELSE @]
    [] die.tag = "inlined_subroutine" ->
         [calls EXCEPT !.inliners = Append(@, DwarfName(unit, die))]
    [] OTHER -> calls

DwarfCalls(unit, v) ==
  FoldLeft(LAMBDA calls, die : DwarfCallback(unit, calls, die), NoCalls,
           DeepFirstSearch("libdwarf", unit, v).dies)

\* The program, too, is opened by its path: resolve_exec_path only gives the
\* trace's object_filename.
DwarfResolve(o, addr) ==
  LET v == addr - o.bias
      images == load_object_with_dwarf(ImageAtPath(o))
      image == CHOOSE image \in images : TRUE
      dynamic == DliSname(o, addr)
      symbol == IF dynamic # "" THEN dynamic
                ELSE NearestSymbol(SymbolCache(image), v)
      located == UNION {{unit} \X DwarfRow(unit, v) : unit \in DwarfUnit(image, v)}
      at == CHOOSE at \in located : TRUE
      calls == DwarfCalls(at[1], v)
      Named(name) == [NoTrace EXCEPT !.object_function = name]
  IN IF images = {} THEN Named(dynamic)
     ELSE IF located = {} THEN Named(symbol)
     ELSE [At(Named(IF symbol # "" THEN symbol ELSE calls.linkage),
              at[1].name, at[2].line) EXCEPT
             !.function = calls.function, !.inliners = calls.inliners]

(***************************************************************************)
(* A build of heapusage: the library CMake found and whether backward-cpp  *)
(* walks stacks by unwinding.  Without a library hulog asks dladdr itself. *)
(***************************************************************************)
Resolve(build, objects, addr) ==
  LET at == ObjectsAt(objects, addr)
      o == CHOOSE x \in at : TRUE
  IN IF at = {} THEN NoTrace
     ELSE CASE build.library = "libdw" -> DwResolve(o, addr)
            [] build.library = "libbfd" -> BfdResolve(build.unwind, o, addr)
            [] build.library = "libdwarf" -> DwarfResolve(o, addr)
            [] build.library = "none" ->
                 [NoTrace EXCEPT !.object_function = DliSname(o, addr)]
=============================================================================
