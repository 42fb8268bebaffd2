------------------------------- MODULE PtrMap -------------------------------
(***************************************************************************)
(* The pointer-keyed containers of the program (std::unordered_map) as     *)
(* functions from a finite set of addresses.                               *)
(***************************************************************************)

\* The map with no entry.
NoEntries == [ptr \in {} |-> 0]

\* map[ptr] = value: a new entry, or the old one overwritten.
MapPut(map, ptr, value) ==
  [q \in DOMAIN map \cup {ptr} |-> IF q = ptr THEN value ELSE map[q]]

\* map.insert({ptr, value}): an entry that is already there stays.
MapInsert(map, ptr, value) ==
  [q \in DOMAIN map \cup {ptr} |-> IF q \in DOMAIN map THEN map[q] ELSE value]

\* map.erase(ptr): nothing happens when there is no such entry.
MapErase(map, ptr) == [q \in DOMAIN map \ {ptr} |-> map[q]]

=============================================================================
