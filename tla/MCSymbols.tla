----------------------------- MODULE MCSymbols -----------------------------
(***************************************************************************)
(* Instances of Symbols: a program and a plugin built in every way that    *)
(* matters to the resolvers, and libobjc, which takes the plugin's place.  *)
(*                                                                         *)
(* Every object has the functions f (three instructions, the second from   *)
(* an inlined i, in a block of its own) and g (three instructions, in a    *)
(* namespace), each in a unit of its own.                                  *)
(***************************************************************************)
EXTENDS Symbols

Die(tag, off, name, children) ==
  [tag |-> tag, off |-> off, name |-> name, linkage |-> "", low |-> 0, high |-> 0,
   ranges |-> {}, declaration |-> FALSE, specification |-> 0,
   abstract_origin |-> 0, lines |-> <<>>, children |-> children]

At3(die, v, n) == [die EXCEPT !.low = v, !.high = v + n]

\* A unit with its own pcs, with ranges (from base 0) or, as clang made them,
\* with neither.
Pcs(die, pcs, v) ==
  CASE pcs = "pcs" -> At3(die, v, 3)
    [] pcs = "ranges" -> [die EXCEPT !.ranges = {<<v, v + 3>>}]
    [] pcs = "neither" -> die

Rows(v, first) ==
  [k \in 1..4 |-> [addr |-> v + k - 1, line |-> first + k, end |-> k = 4]]

\* f: split is a function whose code is in two ranges; declares adds the
\* declaration of an external function behind it.
UnitF(how, v, f, i) ==
  LET base == IF how.pcs = "pcs" THEN v ELSE 0
      inlined == [At3(Die("inlined_subroutine", 4, "", <<>>), v + 1, 1)
                    EXCEPT !.abstract_origin = 5]
      block == At3(Die("lexical_block", 3, "", <<inlined>>), v + 1, 1)
      fun == Die("subprogram", 2, f, <<block>>)
      pcs == IF how.split
             THEN [fun EXCEPT !.ranges = {<<v - base, v + 1 - base>>,
                                          <<v + 1 - base, v + 3 - base>>}]
             ELSE At3(fun, v, 3)
      extern == [Die("subprogram", 6, "ext", <<>>)
                   EXCEPT !.declaration = TRUE, !.linkage = "ext"]
      children == <<pcs>> \o (IF how.declares THEN <<extern>> ELSE <<>>)
                  \o <<Die("subprogram", 5, i, <<>>)>>
  IN [Pcs(Die("compile_unit", 1, "f.c", children), how.pcs, v)
        EXCEPT !.lines = Rows(v, 0)]

\* g: defined in its namespace, or declared there and defined below the unit.
UnitG(how, v, g) ==
  LET definition == At3(Die("subprogram", 12, g, <<>>), v, 3)
      linked == [definition EXCEPT !.linkage = g]
      declaration == [Die("subprogram", 12, g, <<>>)
                        EXCEPT !.declaration = TRUE, !.linkage = g]
      outOfLine == [At3(Die("subprogram", 13, "", <<>>), v, 3)
                      EXCEPT !.specification = 12]
      children == IF how.nested
                  THEN <<Die("namespace", 11, "N", <<linked>>)>>
                  ELSE <<Die("namespace", 11, "N", <<declaration>>), outOfLine>>
  IN [Pcs(Die("compile_unit", 10, "g.cc", children), how.pcs, v)
        EXCEPT !.lines = Rows(v, 10)]

Object(name, exec, bias, v, f, i, g, how) ==
  [name |-> name, exec |-> exec, disk |-> how.disk, bias |-> bias,
   fbase |-> IF exec THEN v - 1 ELSE bias,
   code |-> [a \in v..v + 5 |->
      [function |-> IF a < v + 3 THEN f ELSE g,
       unit |-> IF a < v + 3 THEN "f.c" ELSE "g.cc",
       line |-> IF a < v + 3 THEN a - v + 1 ELSE a - v + 8,
       inlined |-> IF a = v + 1 THEN <<i>> ELSE <<>>]],
   exported |-> how.exported \cap {f, g}, symtab |-> IF how.symtab THEN {f, g} ELSE {},
   sections |-> <<[alloc |-> FALSE, vma |-> 0, size |-> 64],
                  [alloc |-> TRUE, vma |-> v, size |-> 6]>>,
   aranges |-> how.aranges,
   units |-> IF how.debug THEN <<UnitF(how, v, f, i), UnitG(how, v + 3, g)>>
                          ELSE <<>>]

Ways ==
  [pcs : {"pcs", "ranges", "neither"}, split : BOOLEAN, nested : BOOLEAN,
   declares : BOOLEAN, aranges : BOOLEAN, symtab : BOOLEAN,
   exported : {{}, {"load", "work"}, {"main", "run"}}, debug : BOOLEAN,
   disk : {"same", "replaced", "deleted"}]

Usual == [pcs |-> "pcs", split |-> FALSE, nested |-> FALSE, declares |-> FALSE,
          aranges |-> TRUE, symtab |-> TRUE, exported |-> {}, debug |-> TRUE,
          disk |-> "same"]

Program(how) == Object("program", TRUE, 0, 9, "main", "inl", "run", how)
Plugin(how) == Object("plugin", FALSE, 32, 1, "load", "get", "work", how)
Objc == Object(Libobjc, FALSE, 32, 1, "send", "ret", "zone",
               [Usual EXCEPT !.debug = FALSE])

\* Ways that differ from the usual one in one respect, in two about the DIEs, or in
\* some of those that act together.
Differences(how) == {field \in DOMAIN how : how[field] # Usual[field]}

Together == {{"pcs", "nested", "aranges"}, {"pcs", "split"},
             {"symtab", "exported", "debug"}}

OfDies == {"pcs", "split", "nested", "declares", "aranges"}

MCWorlds ==
  {{Program(how), Plugin(Usual), Objc} :
     how \in {h \in Ways : Cardinality(Differences(h)) <= 1}}
  \cup {{Program(Usual), Plugin(how), Objc} :
     how \in {h \in Ways : \/ Cardinality(Differences(h)) <= 1
                           \/ Differences(h) \subseteq OfDies /\ Cardinality(Differences(h)) <= 2
                           \/ \E set \in Together : Differences(h) \subseteq set}}

\* Every library looks up single calls; the build without one, whose lookups are
\* the cheapest, takes stacks of two.
MCBuilds ==
  {[library |-> "libdw", unwind |-> TRUE, nosyms |-> FALSE, depth |-> 1],
   [library |-> "libbfd", unwind |-> TRUE, nosyms |-> FALSE, depth |-> 1],
   [library |-> "libbfd", unwind |-> FALSE, nosyms |-> FALSE, depth |-> 1],
   [library |-> "libdwarf", unwind |-> TRUE, nosyms |-> FALSE, depth |-> 1],
   [library |-> "none", unwind |-> TRUE, nosyms |-> TRUE, depth |-> 1],
   [library |-> "none", unwind |-> TRUE, nosyms |-> FALSE, depth |-> 2]}
=============================================================================
