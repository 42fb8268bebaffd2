----------------------------- MODULE DieSearch -----------------------------
(***************************************************************************)
(* How backward-cpp walks the debug information of an object: the searches *)
(* of its libdw and its libdwarf resolver, which share their shape and     *)
(* differ in what they take for a DIE that has the address.                *)
(***************************************************************************)
EXTENDS Objects

Functions == {"subprogram", "inlined_subroutine"}

Within(pc, low, high) == low <= pc /\ pc < high

(***************************************************************************)
(* libdw                                                                   *)
(***************************************************************************)
DwHasPc(unit, die, pc) ==
  IF die.low # 0 /\ die.high # 0
  THEN Within(pc, die.low, die.high)
  ELSE \E r \in die.ranges :
         Within(pc, r[1] + unit.low, r[2] + unit.low)

\* Whether some function below the unit has the address.
DwFindFundie(unit, pc) ==
  LET found[die \in DiesOf(unit)] ==
        \E d \in ToSet(die.children) :
           \/ d.tag \in Functions /\ DwHasPc(unit, d, pc)
           \/ ~d.declaration /\ found[d]
  IN found[unit]

(***************************************************************************)
(* libdwarf                                                                *)
(***************************************************************************)
\* The definitions get_die_cache records for the declarations of a unit: only
\* the unit's own children are looked at, and a later one replaces an earlier.
SpecSection(unit) ==
  [off \in {d.specification : d \in {c \in ToSet(unit.children) :
                                       c.tag \in Functions}} \ {0} |->
     Last(SelectSeq(unit.children,
            LAMBDA c : c.tag \in Functions /\ c.specification = off))]

\* get_spec_die: the definition of a declaration once the unit is the current
\* one (cached), else the DIE's abstract origin.
SpecDie(unit, cached, die) ==
  IF cached /\ die.off \in DOMAIN SpecSection(unit)
  THEN {SpecSection(unit)[die.off]}
  ELSE DieAt(unit, die.abstract_origin)

\* The base of a range list is taken from the DIE itself, not from its unit,
\* and a range that starts at 0 is skipped.
DwarfHasPc(unit, cached, die, pc) ==
  LET hasPc[d \in DiesOf(unit)] ==
        IF d.low # 0 /\ d.high # 0
        THEN Within(pc, d.low, d.high)
        ELSE \/ \E r \in d.ranges :
                  r[1] # 0 /\ Within(pc, r[1] + d.low, r[2] + d.low)
             \/ d.low # 0 /\ pc = d.low
             \/ /\ d.low = 0 /\ d.high = 0 /\ d.ranges = {}
                /\ \E spec \in SpecDie(unit, cached, d) : hasPc[spec]
  IN hasPc[die]

\* A function found below a sibling ends the search without a result: the
\* null DIE given to the inner search is what the outer one returns.
DwarfFindFundie(unit, pc) ==
  LET Direct(d) == d.tag \in Functions /\ DwarfHasPc(unit, FALSE, d, pc)
      found[die \in DiesOf(unit)] ==
        LET first == SelectInSeq(die.children, LAMBDA d :
                       Direct(d) \/ (~d.declaration /\ found[d]))
        IN first # 0 /\ Direct(die.children[first])
  IN found[unit]

(***************************************************************************)
(* deep_first_search_by_pc of either resolver: the DIEs its callback gets, *)
(* in order.  hit is branch_has_pc, which a declaration inherits from the  *)
(* sibling before it.                                                      *)
(***************************************************************************)
HasPc(library, unit, die, pc) ==
  IF library = "libdw" THEN DwHasPc(unit, die, pc)
                       ELSE DwarfHasPc(unit, TRUE, die, pc)

Entered(library, die) ==
  ~die.declaration \/ (library = "libdwarf" /\ die.tag = "class_type")

DeepFirstSearch(library, unit, pc) ==
  LET search[die \in DiesOf(unit)] ==
        FoldLeft(
          LAMBDA before, d :
            LET inner == IF Entered(library, d) THEN search[d]
                         ELSE [hit |-> before.hit, dies |-> <<>>]
                hit == inner.hit \/ HasPc(library, unit, d, pc)
            IN [hit |-> hit,
                dies |-> before.dies \o inner.dies \o (IF hit THEN <<d>> ELSE <<>>)],
          [hit |-> FALSE, dies |-> <<>>], die.children)
  IN search[unit]
=============================================================================
