------------------------------ MODULE Objects ------------------------------
(***************************************************************************)
(* The ELF objects of a running program and the libraries that read them   *)
(* (dladdr, libelf, libdw, libdwarf, libbfd), as backward-cpp and hulog    *)
(* use them.  All of it is outside the repository.                         *)
(*                                                                         *)
(* An object is a record: its name, exec (it is the program itself), disk  *)
(* (the file at its path is still the "same" inode, was "replaced" by a    *)
(* new one or was "deleted"), bias (run-time address minus link address),  *)
(* fbase (where its file is mapped), code (link address |-> the function,  *)
(* unit and line of that instruction and the functions inlined there,      *)
(* innermost first), the functions named by .dynsym (exported) and by      *)
(* .symtab, its sections, whether it has .debug_aranges, and the unit DIEs *)
(* of its debug information.                                               *)
(*                                                                         *)
(* A DIE is a record: tag, off, name, linkage, low and high (pc), ranges   *)
(* (relative to the unit's low pc), declaration, specification and         *)
(* abstract_origin (offsets of other DIEs), children; a unit also has its  *)
(* line rows.  0 and "" stand for an absent attribute.                     *)
(***************************************************************************)
EXTENDS Integers, Sequences, FiniteSets, FiniteSetsExt, SequencesExt

\* The object whose mapping holds the run-time address a, as a set of at most
\* one element; the mapping ends one past the last instruction.
ObjectsAt(objects, a) ==
  {o \in objects : a - o.bias \in DOMAIN o.code \cup {1 + Max(DOMAIN o.code)}}

\* The function of that symbol table that holds the link address v, or "".
SymbolOf(o, table, v) ==
  IF v \in DOMAIN o.code /\ o.code[v].function \in table
  THEN o.code[v].function ELSE ""

\* The link address of a function symbol.
SymbolValue(o, function) ==
  Min({v \in DOMAIN o.code : o.code[v].function = function})

\* dladdr: dli_sname comes from the dynamic symbols only.
DliSname(o, a) == SymbolOf(o, o.exported, a - o.bias)

\* The file at the object's path, as a set of at most one image.  A new file
\* in the place of the old one holds other functions at the same addresses.
ImageAtPath(o) ==
  CASE o.disk = "same" -> {o}
    [] o.disk = "replaced" ->
         {[o EXCEPT !.symtab = {"other"}, !.exported = {"other"},
                    !.code = [v \in DOMAIN @ |->
                       [@[v] EXCEPT !.function = "other", !.inlined = <<>>]]]}
    [] o.disk = "deleted" -> {}

Units(o) == ToSet(o.units)

\* .debug_aranges: the unit that holds the link address v (at most one).
ArangeUnits(o, v) ==
  {u \in Units(o) : /\ o.aranges
                    /\ v \in DOMAIN o.code
                    /\ o.code[v].unit = u.name}

\* Bound: DIEs are nested no deeper than this below their unit.
MaxNesting == 4

\* All DIEs below one, itself included (dwarf_offdie finds any of them).
DiesOf(die) ==
  LET level[n \in Nat] ==
        IF n = 0 THEN {die} ELSE UNION {ToSet(d.children) : d \in level[n - 1]}
  IN UNION {level[n] : n \in 0..MaxNesting}

DieAt(unit, off) == {d \in DiesOf(unit) : d.off = off /\ off # 0}

\* dwarf_diename of libdw follows abstract origins and specifications; that
\* of libdwarf reads the DIE's own attribute.
DwName(unit, die) ==
  LET referenced == {d \in DieAt(unit, die.abstract_origin)
                            \cup DieAt(unit, die.specification) : d.name # ""}
  IN IF die.name # "" \/ referenced = {}
     THEN die.name ELSE (CHOOSE d \in referenced : TRUE).name

\* dwarf_getsrc_die: the last row at or below v, unless it ends its sequence.
SourceRow(unit, v) ==
  {row \in ToSet(unit.lines) :
     /\ row.addr <= v
     /\ ~row.end
     /\ \A r \in ToSet(unit.lines) : r.addr <= v => r.addr <= row.addr}

NotFound == [found |-> FALSE]

\* bfd_find_nearest_line with one of the symbol tables: debug information
\* gives the innermost function, a symbol table the name alone.
bfd_find_nearest_line(image, section, table, offset) ==
  LET v == section.vma + offset
      code == image.code[v]
  IN IF ~section.alloc \/ v \notin DOMAIN image.code THEN NotFound
     ELSE IF image.units # <<>>
     THEN [found |-> TRUE, file |-> code.unit, line |-> code.line,
           chain |-> code.inlined \o <<code.function>>]
     ELSE IF SymbolOf(image, table, v) # ""
     THEN [found |-> TRUE, file |-> "", line |-> 0, chain |-> <<code.function>>]
     ELSE NotFound
=============================================================================
