--------------------------- MODULE SymbolsProofs ---------------------------
(***************************************************************************)
(* Theorems about Symbols, for any builds and objects that satisfy its     *)
(* assumptions and any number of loads, call stacks and reports: whatever  *)
(* the caches hold was looked up while the object was there, so that it is *)
(* still right of every address that had no other object.                  *)
(***************************************************************************)
EXTENDS Symbols, FiniteSetTheorems, SequenceTheorems, WellFoundedInduction, TLAPS

Addresses == GeneratedCode \cup UNION {Mapped(o) : o \in objects}

\* The loader never has two objects at one address, never unloads the program,
\* and the history knows of every loaded object.
LoadedInv ==
  /\ \A o \in objects : o.exec => o.name \in loaded
  /\ \A o, p \in LoadedObjects : o # p => Mapped(o) \cap Mapped(p) = {}
  /\ \A o \in LoadedObjects : \A a \in Mapped(o) : o.name \in tenants[a]

TenantsInv ==
  /\ DOMAIN tenants = Addresses
  /\ \A a \in GeneratedCode : tenants[a] = {}
  /\ \A a \in DOMAIN tenants : tenants[a] \subseteq {o.name : o \in objects}

\* A call that was made from an object while that was loaded.
WasMadeFromObject(call, world, history) ==
  \E o \in world, k \in CallSites :
    call = Call(o, k) /\ o.name \in history[call.returns]

WasMade(call, world, history) ==
  \/ \E a \in GeneratedCode : call = GeneratedCall(a)
  \/ WasMadeFromObject(call, world, history)

IsStack(stack, world, history) ==
  \/ stack = Empty
  \/ /\ Len(stack.callers) \in Nat \ {0}
     /\ Len(stack.callstack) = Len(stack.callers) + 1
     /\ \A k \in 1..Len(stack.callers) :
          /\ WasMade(stack.callers[k], world, history)
          /\ stack.callstack[k + 1] = stack.callers[k].returns

StacksInv ==
  \A stack \in {recorded, reporting, verdict.stack} :
    IsStack(stack, objects, tenants)

\* A file name that was cached is that of an object that was at the address.
ObjfileInv ==
  \A a \in DOMAIN objfile_cache :
    a \in DOMAIN tenants /\ objfile_cache[a] \in tenants[a]

WorldInv == build \in Builds /\ objects \in Worlds

OriginInv ==
  /\ WorldInv /\ LoadedInv /\ TenantsInv /\ StacksInv /\ ObjfileInv
  /\ VerdictIsOfOrigin

-----------------------------------------------------------------------------
(***************************************************************************)
(* Numbers and sequences.                                                  *)
(***************************************************************************)

\* A set of numbers has a least one.
LEMMA MinIsLeast ==
  ASSUME NEW S \in SUBSET Nat, S # {}
  PROVE  Min(S) \in S /\ \A n \in S : Min(S) <= n
<1> DEFINE less == OpToRel(<, Nat)
<1>1. IsWellFoundedOn(less, Nat)
  BY NatLessThanWellFounded, Zenon
<1>2. \A m, n \in Nat : m < n => <<m, n>> \in less
  BY Zenon DEF OpToRel
<1> HIDE DEF less
<1>3. PICK m \in S : \A n \in S : ~(<<n, m>> \in less)
  BY <1>1, WFMin
<1>4. \A n \in S : ~(n < m)
  BY <1>2, <1>3, Zenon
<1>5. \A n \in S : m <= n
  BY <1>4
<1> QED
  BY <1>5 DEF Min

\* A set of numbers below a bound has a greatest one.
LEMMA MaxIsGreatest ==
  ASSUME NEW S \in SUBSET Nat, S # {}, NEW bound \in Nat, \A n \in S : n <= bound
  PROVE  Max(S) \in S /\ \A n \in S : n <= Max(S)
<1> DEFINE T == {bound - n : n \in S}
<1>1. T \subseteq Nat /\ T # {}
  <2>1. \A n \in S : bound - n \in Nat
    OBVIOUS
  <2> QED
    BY <2>1
<1>2. PICK t \in T : \A u \in T : t <= u
  BY <1>1, MinIsLeast
<1>3. PICK m \in S : t = bound - m
  OBVIOUS
<1>4. \A n \in S : m >= n
  <2> TAKE n \in S
  <2>1. bound - m <= bound - n
    BY <1>2, <1>3
  <2> QED
    BY <2>1
<1>5. Max(S) \in S /\ \A n \in S : Max(S) >= n
  BY <1>4 DEF Max
<1> QED
  BY <1>5

\* The innermost name of a chain, and the chain put together again.
LEMMA ChainHead ==
  ASSUME NEW T, NEW s \in Seq(T), NEW f \in T
  PROVE  LET chain == s \o <<f>>
         IN  /\ chain \in Seq(T) /\ Head(chain) \in T
             /\ <<Head(chain)>> \o Tail(chain) = chain
<1> DEFINE chain == s \o <<f>>
<1>1. <<f>> \in Seq(T)
  OBVIOUS
<1>2. chain \in Seq(T) /\ Len(chain) = Len(s) + 1 /\ Len(s) \in Nat
  BY <1>1
<1> HIDE DEF chain
<1>3. chain # <<>>
  BY <1>2
<1>4. /\ Head(chain) \in T /\ Tail(chain) \in Seq(T)
      /\ Len(Tail(chain)) = Len(chain) - 1
      /\ \A i \in 1..Len(Tail(chain)) : Tail(chain)[i] = chain[i + 1]
  BY <1>2, <1>3, HeadTailProperties
<1>5. Head(chain) = chain[1]
  BY <1>2, <1>3
<1> DEFINE again == <<Head(chain)>> \o Tail(chain)
<1>6. /\ again \in Seq(T) /\ Len(again) = Len(chain)
      /\ \A i \in 1..Len(chain) : again[i] = chain[i]
  <2> DEFINE h == <<Head(chain)>>
             t == Tail(chain)
  <2>1. h \in Seq(T) /\ Len(h) = 1 /\ h[1] = Head(chain)
    BY <1>4
  <2>2. t \in Seq(T) /\ Len(t) = Len(chain) - 1
        /\ \A i \in 1..Len(t) : t[i] = chain[i + 1]
    BY <1>4
  <2> HIDE DEF h, t
  <2>3. /\ h \o t \in Seq(T) /\ Len(h \o t) = Len(h) + Len(t)
        /\ \A i \in 1..Len(h) + Len(t) :
             (h \o t)[i] = IF i <= Len(h) THEN h[i] ELSE t[i - Len(h)]
    <3>1. h \in Seq(T) /\ t \in Seq(T)
      BY <2>1, <2>2
    <3> QED
      BY ONLY <3>1, ConcatProperties
  <2>4. \A i \in 1..Len(chain) : (h \o t)[i] = chain[i]
    <3> TAKE i \in 1..Len(chain)
    <3>1. CASE i = 1
      BY <1>2, <1>5, <2>1, <2>2, <2>3, <3>1
    <3>2. CASE i # 1
      <4>1. i - 1 \in 1..Len(t) /\ i \in 1..Len(h) + Len(t) /\ (i - 1) + 1 = i
        BY <1>2, <2>1, <2>2, <3>2
      <4>2. (h \o t)[i] = t[i - 1]
        BY <2>1, <2>3, <3>2, <4>1
      <4> QED
        BY <2>2, <4>1, <4>2
    <3> QED
      BY <3>1, <3>2
  <2> QED
    BY <1>2, <2>1, <2>2, <2>3, <2>4 DEF h, t
<1> HIDE DEF again
<1>7. again = chain
  BY <1>2, <1>6, SeqEqual
<1> QED
  BY <1>2, <1>4, <1>7 DEF again, chain

-----------------------------------------------------------------------------
(***************************************************************************)
(* The objects.                                                            *)
(***************************************************************************)

\* The facts WorldAssumption gives of an object.
LEMMA ObjectFacts ==
  ASSUME NEW world \in Worlds, NEW o \in world
  PROVE  /\ o.bias \in Int
         /\ Mapped(o) \subseteq Int
         /\ \A v \in DOMAIN o.code : v \in Int /\ v + o.bias \in Mapped(o)
         /\ \A k \in CallSites :
              /\ Call(o, k).object = o.name
              /\ Call(o, k).returns \in Mapped(o)
              /\ Call(o, k).returns \in Int
              /\ Call(o, k).site \in DOMAIN o.code
              /\ Call(o, k).returns = Call(o, k).site + 1 + o.bias
<1>1. WellFormed(o)
  BY WorldAssumption
<1>2. /\ o.bias \in Int /\ Max(DOMAIN o.code) \in Int
      /\ \A v \in DOMAIN o.code : v \in Nat
  BY <1>1 DEF WellFormed
<1>6. \A k \in CallSites : Min(DOMAIN o.code) + k \in DOMAIN o.code
                           /\ Call(o, k).returns \in Mapped(o)
  BY <1>1 DEF WellFormed
<1>3. Mapped(o) \subseteq Int
  <2> DEFINE code == DOMAIN o.code \cup {1 + Max(DOMAIN o.code)}
  <2>1. \A v \in code : v \in Int
    BY <1>2
  <2>2. Mapped(o) = {v + o.bias : v \in code}
    BY DEF Mapped
  <2> HIDE DEF code
  <2> QED
    BY <1>2, <2>1, <2>2
<1>4. \A v \in DOMAIN o.code : v \in Int /\ v + o.bias \in Mapped(o)
  BY <1>2 DEF Mapped
<1>5. \A k \in CallSites :
         /\ Call(o, k).object = o.name
         /\ Call(o, k).site = Min(DOMAIN o.code) + k
         /\ Call(o, k).returns = Call(o, k).site + 1 + o.bias
  BY DEF Call
<1> QED
  BY <1>1, <1>2, <1>3, <1>4, <1>5, <1>6

\* An object is known by its name, and there is one program.
LEMMA ObjectsDiffer ==
  ASSUME WorldInv, NEW o \in objects, NEW p \in objects,
         o.name = p.name \/ (o.exec /\ p.exec)
  PROVE  o = p
BY WorldAssumption DEF WorldInv

\* An object has a name.
LEMMA ObjectNamed ==
  ASSUME WorldInv, NEW o \in objects
  PROVE  o.name # ""
BY WorldAssumption DEF WorldInv, WellFormed

\* dladdr gives the objects that are mapped at the address.
LEMMA AtIsMapped ==
  ASSUME NEW world \in Worlds, NEW set \in SUBSET world, NEW a \in Int
  PROVE  ObjectsAt(set, a) = {o \in set : a \in Mapped(o)}
<1>1. ASSUME NEW o \in set
      PROVE  a \in Mapped(o) <=> a - o.bias \in DOMAIN o.code \cup {1 + Max(DOMAIN o.code)}
  <2> DEFINE code == DOMAIN o.code \cup {1 + Max(DOMAIN o.code)}
  <2>1. o.bias \in Int /\ \A v \in code : v \in Int
    <3>1. WellFormed(o)
      BY WorldAssumption
    <3>2. /\ o.bias \in Int /\ Max(DOMAIN o.code) \in Int
          /\ \A v \in DOMAIN o.code : v \in Nat
      BY <3>1 DEF WellFormed
    <3> QED
      BY <3>2
  <2>2. Mapped(o) = {v + o.bias : v \in code}
    BY DEF Mapped
  <2> HIDE DEF code
  <2>3. a \in Mapped(o) => a - o.bias \in code
    BY <2>1, <2>2
  <2>4. a - o.bias \in code => a \in Mapped(o)
    <3> HAVE a - o.bias \in code
    <3>1. (a - o.bias) + o.bias = a
      BY <2>1
    <3> QED
      BY <2>2, <3>1
  <2> QED
    BY <2>3, <2>4 DEF code
<1> QED
  BY <1>1 DEF ObjectsAt

\* A set of at most one element has no two.
LEMMA NamesOne ==
  ASSUME NEW S, IsFiniteSet(S), Cardinality(S) <= 1, NEW x \in S, NEW y \in S
  PROVE  x = y
<1> SUFFICES ASSUME x # y PROVE FALSE
  OBVIOUS
<1>1. IsFiniteSet({x}) /\ Cardinality({x}) = 1
  BY FS_Singleton
<1>2. IsFiniteSet({x} \cup {y}) /\ Cardinality({x} \cup {y}) = 2
  <2>1. y \notin {x}
    OBVIOUS
  <2>2. IsFiniteSet({x} \cup {y}) /\ Cardinality({x} \cup {y}) = Cardinality({x}) + 1
    BY <1>1, <2>1, FS_AddElement, Zenon
  <2> QED
    BY <1>1, <2>2
<1>3. Cardinality({x} \cup {y}) <= Cardinality(S)
  BY <1>2, FS_Subset
<1> QED
  BY <1>2, <1>3, FS_CardinalityType

\* There are finitely many names.
LEMMA NamesFinite ==
  ASSUME WorldInv
  PROVE  IsFiniteSet({o.name : o \in objects})
<1> DEFINE names == {o.name : o \in objects}
           name == [o \in objects |-> o.name]
<1>1. name \in Surjection(objects, names)
  BY DEF Surjection
<1>2. IsFiniteSet(objects)
  BY WorldAssumption DEF WorldInv
<1> QED
  BY <1>1, <1>2, FS_Surjection

\* Two objects that were ever at an address of a sole tenant are one.
LEMMA SoleName ==
  ASSUME WorldInv, TenantsInv, NEW a \in DOMAIN tenants, SoleTenant(a),
         NEW x \in tenants[a], NEW y \in tenants[a]
  PROVE  x = y
<1>1. IsFiniteSet({o.name : o \in objects})
  BY NamesFinite
<1>2. IsFiniteSet(tenants[a])
  BY <1>1, FS_Subset DEF TenantsInv
<1> QED
  BY <1>2, NamesOne DEF SoleTenant

\* The addresses are numbers.
LEMMA AddressIsInt ==
  ASSUME WorldInv, TenantsInv, NEW a \in DOMAIN tenants
  PROVE  a \in Int
<1>1. CASE a \in GeneratedCode
  BY <1>1, WorldAssumption
<1>2. ASSUME NEW o \in objects, a \in Mapped(o) PROVE a \in Int
  BY <1>2, ObjectFacts DEF WorldInv
<1> QED
  BY <1>1, <1>2 DEF TenantsInv, Addresses

\* A call returns to an address of the history; the object it was made from,
\* if it was from one, is there.
LEMMA CallFacts ==
  ASSUME WorldInv, TenantsInv, NEW call, WasMade(call, objects, tenants)
  PROVE  /\ call.returns \in DOMAIN tenants
         /\ call.object = "" => tenants[call.returns] = {}
         /\ call.object # "" => /\ WasMadeFromObject(call, objects, tenants)
                               /\ call.object \in tenants[call.returns]
<1>1. ASSUME NEW a \in GeneratedCode, call = GeneratedCall(a)
      PROVE  call.object = "" /\ call.returns \in DOMAIN tenants
             /\ tenants[call.returns] = {}
  <2>1. call.object = "" /\ call.returns = a
    BY <1>1 DEF GeneratedCall
  <2> QED
    BY <2>1 DEF TenantsInv, Addresses
<1>2. ASSUME WasMadeFromObject(call, objects, tenants)
      PROVE  call.object # "" /\ call.returns \in DOMAIN tenants
             /\ call.object \in tenants[call.returns]
  <2> PICK o \in objects, k \in CallSites :
             call = Call(o, k) /\ o.name \in tenants[call.returns]
    BY <1>2 DEF WasMadeFromObject
  <2>1. call.object = o.name /\ call.returns \in Mapped(o)
    BY ObjectFacts DEF WorldInv
  <2> QED
    BY <2>1, ObjectNamed DEF TenantsInv, Addresses
<1> QED
  BY <1>1, <1>2 DEF WasMade

-----------------------------------------------------------------------------
(***************************************************************************)
(* The loader.                                                             *)
(***************************************************************************)

\* An object is still what a call was made from when the history has grown.
LEMMA StackStays ==
  ASSUME WorldInv, TenantsInv, NEW history, NEW stack,
         \A a \in DOMAIN tenants : tenants[a] \subseteq history[a],
         IsStack(stack, objects, tenants)
  PROVE  IsStack(stack, objects, history)
<1>1. ASSUME NEW call, WasMade(call, objects, tenants)
      PROVE  WasMade(call, objects, history)
  <2>1. call.returns \in DOMAIN tenants
    BY <1>1, CallFacts
  <2> QED
    BY <1>1, <2>1 DEF WasMade, WasMadeFromObject
<1> QED
  BY <1>1 DEF IsStack

\* The first state.
LEMMA OriginInit == Init => OriginInv
<1> SUFFICES ASSUME Init PROVE OriginInv
  OBVIOUS
<1>1. WorldInv
  BY DEF Init, WorldInv
<1>2. \A o \in LoadedObjects : o.exec
  BY <1>1, ObjectsDiffer DEF Init, LoadedObjects
<1>3. LoadedInv
  <2>1. \A o \in objects : o.exec => o.name \in loaded
    BY DEF Init
  <2>2. \A o, p \in LoadedObjects : o = p
    BY <1>1, <1>2, ObjectsDiffer DEF LoadedObjects
  <2>3. \A o \in LoadedObjects : \A a \in Mapped(o) : o.name \in tenants[a]
    BY <1>2 DEF Init, LoadedObjects
  <2> QED
    BY <2>1, <2>2, <2>3 DEF LoadedInv
<1>4. TenantsInv
  <2>1. objects \in Worlds
    BY <1>1 DEF WorldInv
  <2>2. \A a \in GeneratedCode : \A o \in objects : a \notin Mapped(o)
    BY <2>1, WorldAssumption
  <2> QED
    BY <2>2 DEF Init, TenantsInv, Addresses
<1>5. StacksInv
  BY DEF Init, StacksInv, IsStack
<1>6. ObjfileInv
  BY DEF Init, ObjfileInv
<1>7. VerdictIsOfOrigin
  <2>1. verdict.stack = Empty /\ verdict.valid = TRUE /\ verdict.is_alloc = TRUE
    BY DEF Init
  <2> QED
    BY <2>1 DEF VerdictIsOfOrigin
<1> QED
  BY <1>1, <1>3, <1>4, <1>5, <1>6, <1>7 DEF OriginInv

\* A new object gets addresses nothing else has, and is recorded at each.
LEMMA DlopenKeeps ==
  ASSUME OriginInv, NEW o \in objects, dlopen(o)
  PROVE  /\ LoadedInv' /\ TenantsInv'
         /\ \A a \in DOMAIN tenants : tenants[a] \subseteq tenants'[a]
<1>1. /\ WorldInv /\ LoadedInv /\ TenantsInv
      /\ build' = build /\ objects' = objects
  BY DEF OriginInv, dlopen, worldVars
<1>2. LoadedObjects' = LoadedObjects \cup {o}
  BY <1>1, ObjectsDiffer DEF LoadedObjects, dlopen
<1>3. /\ DOMAIN tenants' = DOMAIN tenants
      /\ \A a \in DOMAIN tenants :
           tenants'[a] = tenants[a] \cup IF a \in Mapped(o) THEN {o.name} ELSE {}
  BY DEF dlopen
<1>4. \A p \in objects : Mapped(p) \subseteq DOMAIN tenants
  BY <1>1 DEF TenantsInv, Addresses
<1>5. \A p \in LoadedObjects : p \in objects
  BY DEF LoadedObjects
<1>6. \A p, q \in LoadedObjects' : p # q => Mapped(p) \cap Mapped(q) = {}
  BY <1>1, <1>2 DEF LoadedInv, dlopen
<1>7. \A p \in LoadedObjects' : \A a \in Mapped(p) : p.name \in tenants'[a]
  BY <1>1, <1>2, <1>3, <1>4, <1>5 DEF LoadedInv
<1>8. \A p \in objects : p.exec => p.name \in loaded'
  BY <1>1 DEF LoadedInv, dlopen
<1>9. LoadedInv'
  BY <1>1, <1>6, <1>7, <1>8 DEF LoadedInv
<1>10. Addresses' = Addresses
  BY <1>1 DEF Addresses
<1>11. TenantsInv'
  <2>1. \A a \in GeneratedCode : a \in DOMAIN tenants /\ a \notin Mapped(o)
    BY <1>1, WorldAssumption DEF TenantsInv, Addresses, WorldInv
  <2> QED
    BY <1>1, <1>3, <1>10, <2>1 DEF TenantsInv
<1> QED
  BY <1>3, <1>9, <1>11

\* What is unloaded stays in the history; the program is never unloaded.
LEMMA DlcloseKeeps ==
  ASSUME OriginInv, NEW o \in objects, dlclose(o)
  PROVE  LoadedInv' /\ TenantsInv' /\ tenants' = tenants
<1>1. /\ WorldInv /\ LoadedInv /\ TenantsInv
      /\ objects' = objects /\ tenants' = tenants
  BY DEF OriginInv, dlclose, worldVars
<1>2. LoadedObjects' \subseteq LoadedObjects
  BY <1>1 DEF LoadedObjects, dlclose
<1>3. \A p \in objects : p.exec => p.name \in loaded'
  BY <1>1, ObjectsDiffer DEF LoadedInv, dlclose
<1>4. LoadedInv'
  BY <1>1, <1>2, <1>3 DEF LoadedInv
<1>5. TenantsInv'
  BY <1>1 DEF TenantsInv, Addresses
<1> QED
  BY <1>1, <1>4, <1>5

-----------------------------------------------------------------------------
(***************************************************************************)
(* The check of a stack's origin.                                          *)
(***************************************************************************)

\* The frames log_is_valid_callstack finds an object of.
Found(stack) ==
  {i \in 2..Len(stack.callstack) : ObjFile(stack.callstack[i]) # ""}

\* The sets of frames are sets of numbers up to the length of the stack.
LEMMA FramesAreNumbers ==
  ASSUME NEW stack, IsStack(stack, objects, tenants)
  PROVE  /\ Len(stack.callers) \in Nat /\ Len(stack.callstack) \in Nat
         /\ InObjects(stack) \subseteq 1..Len(stack.callers)
         /\ Found(stack) \subseteq 2..Len(stack.callstack)
         /\ InObjects(stack) \in SUBSET Nat /\ Found(stack) \in SUBSET Nat
         /\ stack = Empty => InObjects(stack) = {} /\ Found(stack) = {}
<1>1. /\ stack = Empty => Len(stack.callers) = 0 /\ Len(stack.callstack) = 0
      /\ Len(stack.callers) \in Nat /\ Len(stack.callstack) \in Nat
  BY DEF IsStack, Empty
<1> DEFINE m == Len(stack.callers)
           n == Len(stack.callstack)
<1>2. InObjects(stack) \subseteq 1..m /\ Found(stack) \subseteq 2..n
  BY Zenon DEF InObjects, Found
<1> HIDE DEF m, n
<1>3. /\ m \in Nat /\ n \in Nat /\ stack = Empty => m = 0 /\ n = 0
  BY <1>1 DEF m, n
<1> QED
  BY <1>2, <1>3 DEF m, n

\* The outermost frame in an object is one of the stack.
LEMMA OriginIsFrame ==
  ASSUME NEW stack, IsStack(stack, objects, tenants), InObjects(stack) # {}
  PROVE  /\ Max(InObjects(stack)) \in InObjects(stack)
         /\ \A k \in InObjects(stack) : k <= Max(InObjects(stack))
         /\ Origin(stack).object # "" /\ WasMade(Origin(stack), objects, tenants)
<1>1. /\ Len(stack.callers) \in Nat /\ stack # Empty
      /\ InObjects(stack) \subseteq 1..Len(stack.callers)
      /\ InObjects(stack) \in SUBSET Nat
  BY FramesAreNumbers
<1>2. \A k \in InObjects(stack) : k <= Len(stack.callers)
  BY <1>1
<1>3. /\ Max(InObjects(stack)) \in InObjects(stack)
      /\ \A k \in InObjects(stack) : k <= Max(InObjects(stack))
  BY <1>1, <1>2, MaxIsGreatest
<1>4. Origin(stack).object # ""
  BY <1>3, Zenon DEF InObjects, Origin
<1>5. WasMade(Origin(stack), objects, tenants)
  BY <1>1, <1>3, Zenon DEF IsStack, Origin
<1> QED
  BY <1>3, <1>4, <1>5

\* What backtrace() gives is a stack of calls, those from an object from one
\* that is loaded.
LEMMA CapturedIsStack ==
  ASSUME WorldInv, LoadedInv, TenantsInv, NEW stack \in Stacks
  PROVE  /\ IsStack(stack, objects, tenants) /\ stack # Empty
         /\ \A k \in InObjects(stack) :
              \E o \in LoadedObjects : stack.callers[k].returns \in Mapped(o)
<1> PICK s \in BoundedSeq(Calls, build.depth) :
           /\ s # <<>>
           /\ stack = [callstack |-> <<OwnFrame>> \o [k \in DOMAIN s |-> s[k].returns],
                       callers |-> s]
  BY DEF Stacks
<1>1. PICK n \in 0..build.depth : s \in [1..n -> Calls]
  BY DEF BoundedSeq, SeqOf
<1>2. n \in Nat \ {0} /\ s \in Seq(Calls) /\ Len(s) = n
  <2>1. build.depth \in Nat
    BY WorldAssumption DEF WorldInv
  <2> QED
    BY <1>1, <2>1
<1>3. ASSUME NEW call \in Calls
      PROVE  /\ WasMade(call, objects, tenants)
             /\ call.object # "" => \E o \in LoadedObjects : call.returns \in Mapped(o)
  <2>1. ASSUME NEW a \in GeneratedCode, call = GeneratedCall(a)
        PROVE  WasMade(call, objects, tenants) /\ call.object = ""
    <3>1. call.object = ""
      BY <2>1 DEF GeneratedCall
    <3> QED
      BY <2>1, <3>1 DEF WasMade
  <2>2. ASSUME NEW o \in LoadedObjects, NEW k \in CallSites, call = Call(o, k)
        PROVE  WasMade(call, objects, tenants) /\ call.returns \in Mapped(o)
    <3>1. o \in objects /\ call.returns \in Mapped(o)
      BY <2>2, ObjectFacts DEF LoadedObjects, WorldInv
    <3> QED
      BY <2>2, <3>1 DEF WasMade, WasMadeFromObject, LoadedInv
  <2>3. \/ \E a \in GeneratedCode : call = GeneratedCall(a)
        \/ \E o \in LoadedObjects, k \in CallSites : call = Call(o, k)
    BY DEF Calls
  <2> QED
    BY <2>1, <2>2, <2>3
<1>5. DEFINE returns == [k \in DOMAIN s |-> s[k].returns]
<1>6. /\ returns \in Seq({c.returns : c \in Calls})
      /\ Len(returns) = n
      /\ \A k \in 1..n : returns[k] = s[k].returns
  BY <1>1, <1>2
<1>7. /\ Len(<<OwnFrame>> \o returns) = n + 1
      /\ \A k \in 1..n : (<<OwnFrame>> \o returns)[k + 1] = returns[k]
  <2> HIDE DEF returns
  <2>1. <<OwnFrame>> \in Seq({OwnFrame})
    OBVIOUS
  <2> QED
    BY <1>2, <1>6, <2>1
<1>8. /\ stack.callers = s /\ stack.callstack = <<OwnFrame>> \o returns
  OBVIOUS
<1> HIDE DEF returns
<1>9. \A k \in 1..n :
         /\ WasMade(s[k], objects, tenants)
         /\ s[k].object # "" => \E o \in LoadedObjects : s[k].returns \in Mapped(o)
  BY <1>1, <1>3
<1>10. /\ Len(stack.callers) = n
       /\ Len(stack.callstack) = n + 1
       /\ \A k \in 1..n : /\ WasMade(stack.callers[k], objects, tenants)
                         /\ stack.callstack[k + 1] = stack.callers[k].returns
  BY <1>2, <1>6, <1>7, <1>8, <1>9, Zenon
<1>11. IsStack(stack, objects, tenants)
  BY <1>2, <1>10, Zenon DEF IsStack
<1>12. stack # Empty
  BY <1>2, <1>10 DEF Empty
<1>13. \A k \in InObjects(stack) :
         \E o \in LoadedObjects : stack.callers[k].returns \in Mapped(o)
  BY <1>8, <1>9, <1>10 DEF InObjects
<1> QED
  BY <1>11, <1>12, <1>13

\* A file that is found is that of an object that was at the address, and one
\* is found where an object is loaded.
LEMMA ObjFileKnown ==
  ASSUME OriginInv, NEW a \in DOMAIN tenants
  PROVE  /\ ObjFile(a) # "" => ObjFile(a) \in tenants[a]
         /\ (\E o \in LoadedObjects : a \in Mapped(o)) => ObjFile(a) # ""
<1> DEFINE at == ObjectsAt(LoadedObjects, a)
<1>1. WorldInv /\ LoadedInv /\ TenantsInv /\ ObjfileInv
  BY DEF OriginInv
<1>2. a \in Int
  BY <1>1, AddressIsInt
<1>3. at = {o \in LoadedObjects : a \in Mapped(o)}
  BY <1>1, <1>2, AtIsMapped DEF LoadedObjects, WorldInv
<1>4. \A o \in objects : o.name # ""
  BY <1>1, ObjectNamed
<1>5. CASE a \in DOMAIN objfile_cache
  BY <1>1, <1>4, <1>5 DEF ObjFile, ObjfileInv, TenantsInv
<1>6. CASE a \notin DOMAIN objfile_cache /\ at = {}
  <2>1. ObjFile(a) = ""
    BY <1>6 DEF ObjFile
  <2> QED
    BY <1>3, <1>6, <2>1
<1>7. CASE a \notin DOMAIN objfile_cache /\ at # {}
  <2> DEFINE o == CHOOSE o \in at : TRUE
  <2>1. ObjFile(a) = o.name
    BY <1>7 DEF ObjFile
  <2>2. o \in at
    BY <1>7
  <2> HIDE DEF o
  <2>3. o \in LoadedObjects /\ a \in Mapped(o) /\ o \in objects
    BY <1>3, <2>2 DEF LoadedObjects
  <2> QED
    BY <1>1, <1>4, <2>1, <2>3 DEF LoadedInv
<1> QED
  BY <1>5, <1>6, <1>7

\* A frame that is found is one in an object, at an address of the history.
LEMMA FoundIsInObject ==
  ASSUME OriginInv, NEW stack, IsStack(stack, objects, tenants), NEW i \in Found(stack)
  PROVE  /\ i - 1 \in InObjects(stack)
         /\ stack.callstack[i] = stack.callers[i - 1].returns
         /\ stack.callstack[i] \in DOMAIN tenants
         /\ ObjFile(stack.callstack[i]) \in tenants[stack.callstack[i]]
<1> DEFINE n == Len(stack.callers)
           k == i - 1
<1>1. WorldInv /\ TenantsInv
  BY DEF OriginInv
<1>2. i \in 2..Len(stack.callstack) /\ ObjFile(stack.callstack[i]) # ""
  BY DEF Found
<1>3. stack # Empty
  BY FramesAreNumbers
<1>4. n \in Nat \ {0} /\ Len(stack.callstack) = n + 1
  BY <1>3 DEF IsStack
<1>5. k \in 1..n /\ k + 1 = i
  <2> DEFINE l == Len(stack.callstack)
  <2>1. i \in 2..l /\ l = n + 1 /\ n \in Nat
    BY <1>2, <1>4, Zenon
  <2> HIDE DEF l, n
  <2>2. i \in Int /\ 2 <= i /\ i <= n + 1
    BY <2>1
  <2> QED
    BY <2>1, <2>2
<1>6. /\ WasMade(stack.callers[k], objects, tenants)
      /\ stack.callstack[i] = stack.callers[k].returns
  BY <1>3, <1>5 DEF IsStack
<1>7. stack.callstack[i] \in DOMAIN tenants
  BY <1>1, <1>6, CallFacts
<1>8. ObjFile(stack.callstack[i]) \in tenants[stack.callstack[i]]
  BY <1>2, <1>7, ObjFileKnown
<1>9. stack.callers[k].object # ""
  BY <1>1, <1>6, <1>8, CallFacts
<1> QED
  BY <1>5, <1>6, <1>7, <1>8, <1>9 DEF InObjects

\* Of a stack just captured, the outermost frame found is the outermost one
\* that is in an object.
LEMMA OriginIsFound ==
  ASSUME OriginInv, NEW stack \in Stacks
  PROVE  /\ Found(stack) = {} <=> InObjects(stack) = {}
         /\ Found(stack) # {} =>
              /\ Max(InObjects(stack)) \in InObjects(stack)
              /\ stack.callstack[Max(Found(stack))] = Origin(stack).returns
<1> DEFINE n == Len(stack.callers)
<1>1. /\ IsStack(stack, objects, tenants) /\ stack # Empty
      /\ \A k \in InObjects(stack) :
           \E o \in LoadedObjects : stack.callers[k].returns \in Mapped(o)
  BY CapturedIsStack DEF OriginInv
<1>2. n \in Nat \ {0} /\ Len(stack.callstack) = n + 1
  BY <1>1 DEF IsStack
<1>3. InObjects(stack) \in SUBSET Nat /\ InObjects(stack) \subseteq 1..n
  BY <1>1, FramesAreNumbers
<1>4. Found(stack) \in SUBSET Nat /\ \A i \in Found(stack) : i <= n + 1
  <2>1. Found(stack) \subseteq 2..n + 1 /\ Found(stack) \in SUBSET Nat
    BY <1>1, <1>2, FramesAreNumbers
  <2> QED
    BY <1>2, <2>1
<1>5. ASSUME NEW k \in InObjects(stack) PROVE k + 1 \in Found(stack)
  <2>1. k \in 1..n /\ k + 1 \in 2..Len(stack.callstack)
    BY <1>2, <1>3
  <2>2. /\ WasMade(stack.callers[k], objects, tenants)
        /\ stack.callstack[k + 1] = stack.callers[k].returns
    BY <1>1, <2>1 DEF IsStack
  <2>3. stack.callers[k].returns \in DOMAIN tenants
    BY <2>2, CallFacts DEF OriginInv
  <2>4. ObjFile(stack.callers[k].returns) # ""
    BY <1>1, <2>3, ObjFileKnown
  <2> QED
    BY <2>1, <2>2, <2>4 DEF Found
<1>6. \A i \in Found(stack) : i - 1 \in InObjects(stack)
  BY <1>1, FoundIsInObject
<1>7. ASSUME Found(stack) # {}
      PROVE  /\ Max(InObjects(stack)) \in InObjects(stack)
             /\ Max(Found(stack)) \in Found(stack)
             /\ Max(Found(stack)) - 1 = Max(InObjects(stack))
  <2>1. /\ Max(InObjects(stack)) \in InObjects(stack)
        /\ \A k \in InObjects(stack) : k <= Max(InObjects(stack))
    BY <1>1, <1>6, <1>7, OriginIsFrame
  <2>2. /\ Max(Found(stack)) \in Found(stack)
        /\ \A i \in Found(stack) : i <= Max(Found(stack))
    <3>1. n + 1 \in Nat
      BY <1>2
    <3> QED
      BY <1>4, <1>7, <3>1, MaxIsGreatest
  <2>3. Max(InObjects(stack)) + 1 <= Max(Found(stack))
    BY <1>5, <2>1, <2>2
  <2>4. Max(Found(stack)) - 1 <= Max(InObjects(stack))
    BY <1>6, <2>1, <2>2
  <2>5. Max(InObjects(stack)) \in Nat /\ Max(Found(stack)) \in Nat
    BY <1>3, <1>4, <2>1, <2>2
  <2> QED
    BY <2>1, <2>2, <2>3, <2>4, <2>5
<1>8. ASSUME Found(stack) # {}
      PROVE  stack.callstack[Max(Found(stack))] = Origin(stack).returns
  BY <1>1, <1>7, <1>8, FoundIsInObject DEF Origin
<1> QED
  BY <1>5, <1>6, <1>7, <1>8

(***************************************************************************)
(* The verdict on a stack is that of its origin's object, and only names   *)
(* of objects that were there are cached.  The stack of an allocation is   *)
(* always good; any other is checked when it is captured.                  *)
(***************************************************************************)
LEMMA ValidationKeeps ==
  ASSUME OriginInv, NEW stack, IsStack(stack, objects, tenants),
         NEW is_alloc \in BOOLEAN, is_alloc \/ stack \in Stacks,
         log_is_valid_callstack(stack, is_alloc),
         tenants' = tenants, objects' = objects
  PROVE  /\ ObjfileInv' /\ VerdictIsOfOrigin'
         /\ verdict'.stack = stack
<1> DEFINE origin == stack.callstack[Max(Found(stack))]
           valid == Found(stack) = {} \/ is_alloc \/ ObjFile(origin) # Libobjc
<1>1. WorldInv /\ TenantsInv /\ ObjfileInv
  BY DEF OriginInv
<1>2. /\ verdict' = [valid |-> valid, is_alloc |-> is_alloc, stack |-> stack]
      /\ IF Found(stack) = {} THEN UNCHANGED objfile_cache
         ELSE objfile_cache' = [b \in DOMAIN objfile_cache \cup {origin} |-> ObjFile(b)]
  BY DEF log_is_valid_callstack, Found
<1>3. Found(stack) # {} => Max(Found(stack)) \in Found(stack)
  <2>1. /\ Len(stack.callstack) \in Nat /\ Found(stack) \in SUBSET Nat
        /\ Found(stack) \subseteq 2..Len(stack.callstack)
    BY FramesAreNumbers
  <2>2. \A i \in Found(stack) : i <= Len(stack.callstack)
    BY <2>1
  <2> QED
    BY <2>1, <2>2, MaxIsGreatest
<1>4. Found(stack) # {} => origin \in DOMAIN tenants /\ ObjFile(origin) \in tenants[origin]
  BY <1>3, FoundIsInObject
<1> HIDE DEF origin
<1>5. ObjfileInv'
  <2>1. CASE Found(stack) = {}
    BY <1>1, <1>2, <2>1 DEF ObjfileInv
  <2>2. CASE Found(stack) # {}
    BY <1>1, <1>2, <1>4, <2>2 DEF ObjfileInv, ObjFile
  <2> QED
    BY <2>1, <2>2
<1> HIDE DEF valid
<1>6. verdict'.valid = valid /\ verdict'.is_alloc = is_alloc /\ verdict'.stack = stack
  BY <1>2
<1>7. InObjects(stack) = {} \/ SoleTenant(Origin(stack).returns)
        => valid = (is_alloc \/ ~FromLibobjc(stack))
  <2>1. CASE is_alloc
    BY <2>1 DEF valid
  <2>2. CASE ~is_alloc /\ InObjects(stack) = {}
    <3>1. Found(stack) = {}
      BY <2>2, OriginIsFound
    <3> QED
      BY <2>2, <3>1 DEF valid, FromLibobjc
  <2>3. CASE ~is_alloc /\ InObjects(stack) # {} /\ SoleTenant(Origin(stack).returns)
    <3>1. /\ Found(stack) # {} /\ origin = Origin(stack).returns
          /\ Max(InObjects(stack)) \in InObjects(stack)
      BY <2>3, OriginIsFound DEF origin
    <3>2. Origin(stack).object \in tenants[origin]
      <4>1. Origin(stack).object # "" /\ WasMade(Origin(stack), objects, tenants)
        BY <2>3, OriginIsFrame
      <4> QED
        BY <1>1, <3>1, <4>1, CallFacts
    <3>3. ObjFile(origin) = Origin(stack).object
      BY <1>1, <1>4, <2>3, <3>1, <3>2, SoleName
    <3> QED
      BY <2>3, <3>1, <3>3 DEF valid, FromLibobjc
  <2> QED
    BY <2>1, <2>2, <2>3
<1>8. VerdictIsOfOrigin'
  BY <1>6, <1>7 DEF VerdictIsOfOrigin, SoleTenant
<1> QED
  BY <1>5, <1>6, <1>8

-----------------------------------------------------------------------------
(***************************************************************************)
(* The reports.                                                            *)
(***************************************************************************)

\* What StartReport leaves to print is the stack, or nothing.
LEMMA ReportStays ==
  ASSUME OriginInv, NEW stack, IsStack(stack, objects, tenants),
         NEW is_alloc \in BOOLEAN, is_alloc \/ stack \in Stacks,
         log_is_valid_callstack(stack, is_alloc),
         StartReport(stack), recorded' = recorded,
         tenants' = tenants, objects' = objects
  PROVE  StacksInv' /\ ObjfileInv' /\ VerdictIsOfOrigin'
<1>1. ObjfileInv' /\ VerdictIsOfOrigin' /\ verdict'.stack = stack
  BY ValidationKeeps
<1>2. reporting' \in {stack, Empty}
  BY DEF StartReport
<1>3. IsStack(Empty, objects, tenants)
  BY DEF IsStack
<1>4. IsStack(recorded, objects, tenants)
  BY DEF OriginInv, StacksInv
<1> QED
  BY <1>1, <1>2, <1>3, <1>4 DEF StacksInv

\* Steps that change nothing but the loader's state and add to the history.
LEMMA LoaderStep ==
  ASSUME OriginInv,
         LoadedInv', TenantsInv', DOMAIN tenants' = DOMAIN tenants,
         \A a \in DOMAIN tenants : tenants[a] \subseteq tenants'[a],
         UNCHANGED <<worldVars, recorded, reporting, verdict, objfile_cache>>
  PROVE  OriginInv'
<1>1. WorldInv /\ TenantsInv /\ StacksInv /\ ObjfileInv /\ VerdictIsOfOrigin
  BY DEF OriginInv
<1>2. /\ build' = build /\ objects' = objects /\ recorded' = recorded
      /\ reporting' = reporting /\ verdict' = verdict
      /\ objfile_cache' = objfile_cache
  BY DEF worldVars
<1>3. WorldInv'
  BY <1>1, <1>2 DEF WorldInv
<1>4. StacksInv'
  <2>1. \A stack : IsStack(stack, objects, tenants) => IsStack(stack, objects, tenants')
    BY <1>1, StackStays
  <2> QED
    BY <1>1, <1>2, <2>1 DEF StacksInv
<1>5. ObjfileInv'
  BY <1>1, <1>2 DEF ObjfileInv
<1>6. VerdictIsOfOrigin'
  <2> DEFINE stack == verdict.stack
             a == Origin(stack).returns
  <2> SUFFICES ASSUME InObjects(stack) # {}, Cardinality(tenants'[a]) <= 1
               PROVE  Cardinality(tenants[a]) <= 1
    BY <1>1, <1>2 DEF VerdictIsOfOrigin, SoleTenant
  <2>1. a \in DOMAIN tenants
    <3>1. IsStack(stack, objects, tenants)
      BY <1>1 DEF StacksInv
    <3>2. WasMade(Origin(stack), objects, tenants)
      BY <3>1, OriginIsFrame
    <3> QED
      BY <1>1, <3>2, CallFacts
  <2> HIDE DEF a
  <2>2. Cardinality(tenants[a]) <= 1
    <3>2. IsFiniteSet(tenants'[a])
      <4>1. IsFiniteSet({o.name : o \in objects})
        BY <1>1, NamesFinite
      <4>2. tenants'[a] \subseteq {o.name : o \in objects}
        BY <1>2, <2>1 DEF TenantsInv
      <4> QED
        BY <4>1, <4>2, FS_Subset
    <3>3. /\ IsFiniteSet(tenants[a])
          /\ Cardinality(tenants[a]) <= Cardinality(tenants'[a])
      BY <2>1, <3>2, FS_Subset
    <3> QED
      BY <3>2, <3>3, FS_CardinalityType
  <2> QED
    BY <2>2
<1> QED
  BY <1>3, <1>4, <1>5, <1>6 DEF OriginInv

\* Every step keeps the invariant.
LEMMA OriginStep == OriginInv /\ [Next]_vars => OriginInv'
<1> SUFFICES ASSUME OriginInv, [Next]_vars PROVE OriginInv'
  OBVIOUS
<1>1. /\ WorldInv /\ LoadedInv /\ TenantsInv /\ StacksInv /\ ObjfileInv
      /\ VerdictIsOfOrigin
  BY DEF OriginInv
<1>2. ASSUME NEW o \in objects, dlopen(o) PROVE OriginInv'
  <2>1. /\ LoadedInv' /\ TenantsInv'
        /\ \A a \in DOMAIN tenants : tenants[a] \subseteq tenants'[a]
    BY <1>2, DlopenKeeps
  <2> QED
    BY <1>2, <2>1, LoaderStep DEF dlopen, reportVars
<1>3. ASSUME NEW o \in objects, dlclose(o) PROVE OriginInv'
  <2>1. LoadedInv' /\ TenantsInv' /\ tenants' = tenants
    BY <1>3, DlcloseKeeps
  <2> QED
    BY <1>3, <2>1, LoaderStep DEF dlclose, reportVars
<1>4. ASSUME UNCHANGED <<worldVars, loaderVars>>
      PROVE  WorldInv' /\ LoadedInv' /\ TenantsInv'
  BY <1>1, <1>4 DEF worldVars, loaderVars, WorldInv, LoadedInv, LoadedObjects,
                    TenantsInv, Addresses
<1>5. CASE RecordCallstack
  <2>1. /\ UNCHANGED <<worldVars, loaderVars, reporting, verdict, objfile_cache>>
        /\ recorded' \in Stacks \cup {Empty}
    BY <1>5 DEF RecordCallstack, reportVars
  <2>2. IsStack(recorded', objects, tenants)
    BY <1>1, <2>1, CapturedIsStack DEF IsStack
  <2>3. objects' = objects /\ tenants' = tenants
    BY <2>1 DEF worldVars, loaderVars
  <2>4. StacksInv'
    BY <1>1, <2>1, <2>2, <2>3 DEF StacksInv
  <2>5. ObjfileInv' /\ VerdictIsOfOrigin'
    BY <1>1, <2>1, <2>3 DEF ObjfileInv, VerdictIsOfOrigin, SoleTenant
  <2> QED
    BY <1>4, <2>1, <2>4, <2>5 DEF OriginInv
<1>6. CASE ReportInvalid
  <2> PICK stack \in Stacks : log_is_valid_callstack(stack, FALSE) /\ StartReport(stack)
    BY <1>6 DEF ReportInvalid
  <2>1. UNCHANGED <<worldVars, loaderVars, recorded>>
    BY <1>6 DEF ReportInvalid
  <2>2. IsStack(stack, objects, tenants)
    BY <1>1, CapturedIsStack
  <2>3. objects' = objects /\ tenants' = tenants /\ recorded' = recorded
    BY <2>1 DEF worldVars, loaderVars
  <2>4. StacksInv' /\ ObjfileInv' /\ VerdictIsOfOrigin'
    BY <2>2, <2>3, ReportStays
  <2> QED
    BY <1>4, <2>1, <2>4 DEF OriginInv
<1>7. CASE ReportLeak
  <2> PICK stack : stack = recorded
    OBVIOUS
  <2>1. /\ UNCHANGED <<worldVars, loaderVars, recorded>>
        /\ log_is_valid_callstack(stack, TRUE) /\ StartReport(stack)
    BY <1>7 DEF ReportLeak
  <2>2. IsStack(stack, objects, tenants)
    BY <1>1 DEF StacksInv
  <2>3. objects' = objects /\ tenants' = tenants /\ recorded' = recorded
    BY <2>1 DEF worldVars, loaderVars
  <2>4. StacksInv' /\ ObjfileInv' /\ VerdictIsOfOrigin'
    BY <2>1, <2>2, <2>3, ReportStays
  <2> QED
    BY <1>4, <2>1, <2>4 DEF OriginInv
<1>8. CASE UNCHANGED <<worldVars, loaderVars, reporting, recorded, verdict, objfile_cache>>
  <2>1. objects' = objects /\ tenants' = tenants
    BY <1>8 DEF worldVars, loaderVars
  <2>2. StacksInv' /\ ObjfileInv' /\ VerdictIsOfOrigin'
    BY <1>1, <1>8, <2>1 DEF StacksInv, ObjfileInv, VerdictIsOfOrigin, SoleTenant
  <2> QED
    BY <1>4, <1>8, <2>2 DEF OriginInv
<1>9. CASE PrintFrame
  BY <1>8, <1>9 DEF PrintFrame
<1>10. CASE UNCHANGED vars
  BY <1>8, <1>10 DEF vars, reportVars
<1> QED
  BY <1>2, <1>3, <1>5, <1>6, <1>7, <1>9, <1>10 DEF Next

\* It always holds.
LEMMA OriginAlways == Spec => []OriginInv
BY OriginInit, OriginStep, PTL DEF Spec

(***************************************************************************)
(* log_is_valid_callstack leaves a report out exactly when it is of a      *)
(* deallocation or access and the outermost frame of its stack that is in  *)
(* an object is libobjc's, whatever was loaded and unloaded before and     *)
(* whatever objfile_cache held, unless another object was once mapped at   *)
(* that frame's address.                                                   *)
(***************************************************************************)
THEOREM VerdictAlwaysOfOrigin == Spec => []VerdictIsOfOrigin
<1>1. OriginInv => VerdictIsOfOrigin
  BY DEF OriginInv
<1> QED
  BY <1>1, OriginAlways, PTL

-----------------------------------------------------------------------------
(***************************************************************************)
(* libbfd: it gives the instruction at the address, or the one before.     *)
(***************************************************************************)

\* The first element that passes the test, or none does.
LEMMA FirstSection ==
  ASSUME NEW image, NEW addr, NEW base, image.sections \in Seq(ToSet(image.sections))
  PROVE  \/ /\ find_symbol_details(image, addr, base) = NotFound
            /\ \A section \in ToSet(image.sections) :
                 ~find_in_section(image, section, addr, base).found
         \/ \E section \in ToSet(image.sections) :
              /\ find_symbol_details(image, addr, base)
                   = find_in_section(image, section, addr, base)
              /\ find_in_section(image, section, addr, base).found
<1> DEFINE In(section) == find_in_section(image, section, addr, base)
           I == {i \in 1..Len(image.sections) : In(image.sections[i]).found}
           first == IF I # {} THEN Min(I) ELSE 0
<1>1. find_symbol_details(image, addr, base)
        = IF first = 0 THEN NotFound ELSE In(image.sections[first])
  BY DEF find_symbol_details, SelectInSeq
<1>2. DOMAIN image.sections = 1..Len(image.sections) /\ Len(image.sections) \in Nat
  OBVIOUS
<1>3. ToSet(image.sections) = {image.sections[i] : i \in 1..Len(image.sections)}
  BY <1>2 DEF ToSet
<1>4. I \subseteq Nat \ {0}
  BY <1>2
<1>5. CASE I = {}
  BY <1>1, <1>3, <1>5
<1>6. CASE I # {}
  <2>1. Min(I) \in I
    BY <1>4, <1>6, MinIsLeast
  <2>2. first = Min(I) /\ first # 0
    BY <1>4, <1>6, <2>1
  <2> QED
    BY <1>1, <1>3, <2>1, <2>2
<1> QED
  BY <1>5, <1>6

\* What libbfd may say of the instruction v.
IsLineOf(result, o, v) ==
  LET code == o.code[v]
  IN /\ v \in DOMAIN o.code
     /\ \/ /\ o.units # <<>>
           /\ result.file = code.unit /\ result.line = code.line
           /\ result.chain = code.inlined \o <<code.function>>
        \/ /\ o.units = <<>>
           /\ result.file = "" /\ result.chain = <<code.function>>

\* bfd_find_nearest_line says the line, and finds one where it can.
LEMMA NearestLine ==
  ASSUME NEW o, NEW section, NEW table, NEW offset
  PROVE  LET v == section.vma + offset
             result == bfd_find_nearest_line(o, section, table, offset)
         IN  /\ result.found => IsLineOf(result, o, v)
             /\ /\ section.alloc /\ v \in DOMAIN o.code
                /\ o.units # <<>> \/ SymbolOf(o, table, v) # ""
                => result.found
<1> DEFINE v == section.vma + offset
           code == o.code[v]
           result == bfd_find_nearest_line(o, section, table, offset)
<1>1. CASE ~section.alloc \/ v \notin DOMAIN o.code
  <2>1. result = NotFound
    BY <1>1 DEF bfd_find_nearest_line
  <2> HIDE DEF result
  <2>2. ~result.found
    BY <2>1 DEF NotFound
  <2> QED
    BY <1>1, <2>2 DEF result
<1>2. CASE section.alloc /\ v \in DOMAIN o.code /\ o.units # <<>>
  <2>1. result = [found |-> TRUE, file |-> code.unit, line |-> code.line,
                  chain |-> code.inlined \o <<code.function>>]
    BY <1>2 DEF bfd_find_nearest_line
  <2> HIDE DEF result, code
  <2>2. /\ result.found /\ result.file = code.unit /\ result.line = code.line
        /\ result.chain = code.inlined \o <<code.function>>
    BY <2>1
  <2>3. IsLineOf(result, o, v)
    BY <1>2, <2>2 DEF IsLineOf, code
  <2> QED
    BY <2>2, <2>3 DEF result
<1>3. CASE /\ section.alloc /\ v \in DOMAIN o.code /\ o.units = <<>>
           /\ SymbolOf(o, table, v) # ""
  <2>1. result = [found |-> TRUE, file |-> "", line |-> 0, chain |-> <<code.function>>]
    BY <1>3 DEF bfd_find_nearest_line
  <2> HIDE DEF result, code
  <2>2. result.found /\ result.file = "" /\ result.chain = <<code.function>>
    BY <2>1
  <2>3. IsLineOf(result, o, v)
    BY <1>3, <2>2 DEF IsLineOf, code
  <2> QED
    BY <2>2, <2>3 DEF result
<1>4. CASE /\ section.alloc /\ v \in DOMAIN o.code /\ o.units = <<>>
           /\ SymbolOf(o, table, v) = ""
  <2>1. result = NotFound
    BY <1>4 DEF bfd_find_nearest_line
  <2> HIDE DEF result
  <2>2. ~result.found
    BY <2>1 DEF NotFound
  <2> QED
    BY <1>4, <2>2 DEF result
<1> QED
  BY <1>1, <1>2, <1>3, <1>4

\* The address a section is searched for, when it holds that.
Seen(o, section, a) == IF InSection(section, a) THEN a ELSE a - o.fbase

\* So does the search of one section, at either address.
LEMMA SectionLine ==
  ASSUME NEW world \in Worlds, NEW o \in world, NEW a \in Mapped(o),
         NEW section \in ToSet(o.sections)
  PROVE  LET result == find_in_section(o, section, a, o.fbase)
             v == a - o.bias
         IN  /\ result.found => IsLineOf(result, o, v)
             /\ /\ section.alloc /\ InSection(section, Seen(o, section, a))
                /\ v \in DOMAIN o.code
                /\ \/ o.units # <<>> /\ o.symtab \cup o.exported # {}
                   \/ SymbolOf(o, o.symtab \cup o.exported, v) # ""
                => result.found
<1> DEFINE v == a - o.bias
           seen == Seen(o, section, a)
           holds == section.alloc /\ InSection(section, seen)
           In(table) == IF holds /\ table # {}
                        THEN bfd_find_nearest_line(o, section, table, seen - section.vma)
                        ELSE NotFound
           result == find_in_section(o, section, a, o.fbase)
<1>1. result = IF In(o.symtab).found THEN In(o.symtab) ELSE In(o.exported)
  BY DEF find_in_section, Seen
<1>2. WellFormed(o)
  BY WorldAssumption
<1>3. /\ o.bias \in Int /\ o.fbase \in Int /\ a \in Int /\ section.vma \in Int
  BY <1>2, ObjectFacts DEF WellFormed
<1>4. holds => seen = v
  BY <1>2 DEF WellFormed, InPlace, Seen
<1>5. seen \in Int /\ section.vma + (seen - section.vma) = seen
  BY <1>3 DEF Seen
<1>7. ASSUME NEW table
      PROVE  /\ In(table).found => IsLineOf(In(table), o, v)
             /\ /\ holds /\ table # {} /\ v \in DOMAIN o.code
                /\ o.units # <<>> \/ SymbolOf(o, table, v) # ""
                => In(table).found
  <2>1. CASE holds /\ table # {}
    <3>1. In(table) = bfd_find_nearest_line(o, section, table, seen - section.vma)
      BY <2>1
    <3>2. section.vma + (seen - section.vma) = v
      BY <1>4, <1>5, <2>1
    <3> HIDE DEF In, seen, v
    <3> QED
      BY <2>1, <3>1, <3>2, NearestLine
  <2>2. CASE ~(holds /\ table # {})
    BY <2>2 DEF NotFound
  <2> QED
    BY <2>1, <2>2
<1>8. result.found => IsLineOf(result, o, v)
  BY <1>1, <1>7
<1>9. ASSUME holds, v \in DOMAIN o.code,
             \/ o.units # <<>> /\ o.symtab \cup o.exported # {}
             \/ SymbolOf(o, o.symtab \cup o.exported, v) # ""
      PROVE  result.found
  <2>1. \E table \in {o.symtab, o.exported} :
          table # {} /\ (o.units # <<>> \/ SymbolOf(o, table, v) # "")
    BY <1>9 DEF SymbolOf
  <2>2. \E table \in {o.symtab, o.exported} : In(table).found
    BY <1>7, <1>9, <2>1
  <2> QED
    BY <1>1, <2>2
<1> QED
  BY <1>8, <1>9

\* The object's tables and debug information name the instruction v.
Names(o, v) ==
  \/ o.units # <<>> /\ o.symtab \cup o.exported # {}
  \/ SymbolOf(o, o.symtab \cup o.exported, v) # ""

\* So does that of all of them.
LEMMA DetailsLine ==
  ASSUME NEW world \in Worlds, NEW o \in world, NEW a \in Mapped(o)
  PROVE  LET result == find_symbol_details(o, a, o.fbase)
             v == a - o.bias
         IN  /\ result.found => IsLineOf(result, o, v)
             /\ v \in DOMAIN o.code /\ Names(o, v) => result.found
<1> DEFINE result == find_symbol_details(o, a, o.fbase)
           v == a - o.bias
           In(section) == find_in_section(o, section, a, o.fbase)
<1>1. WellFormed(o)
  BY WorldAssumption
<1>2. \/ /\ result = NotFound
         /\ \A section \in ToSet(o.sections) : ~In(section).found
      \/ \E section \in ToSet(o.sections) : result = In(section) /\ In(section).found
  <2>1. o.sections \in Seq(ToSet(o.sections))
    BY <1>1 DEF WellFormed
  <2> QED
    BY <2>1, FirstSection
<1> HIDE DEF result
<1>3. \A section \in ToSet(o.sections) :
        /\ In(section).found => IsLineOf(In(section), o, v)
        /\ /\ section.alloc /\ InSection(section, Seen(o, section, a))
           /\ v \in DOMAIN o.code /\ Names(o, v)
           => In(section).found
  BY SectionLine DEF Names
<1>4. ASSUME v \in DOMAIN o.code
      PROVE  \E section \in ToSet(o.sections) :
               section.alloc /\ InSection(section, Seen(o, section, a))
  BY <1>1, <1>4 DEF WellFormed, InPlace, Seen
<1> HIDE DEF In, v
<1>5. result.found => IsLineOf(result, o, v)
  BY <1>2, <1>3 DEF NotFound
<1>6. v \in DOMAIN o.code /\ Names(o, v) => result.found
  BY <1>2, <1>3, <1>4
<1> QED
  BY <1>5, <1>6 DEF result, v

\* The instruction that is given: the one at the address, or the one before.
LEMMA BfdLine ==
  ASSUME NEW world \in Worlds, NEW o \in world, NEW a, NEW b, b.library = "libbfd",
         {a, a - 1} \subseteq {v + o.bias : v \in DOMAIN o.code}
  PROVE  LET result == BfdDetails(b.unwind, o, a, o.fbase)
             v == a - o.bias
         IN  /\ {v, v - 1} \subseteq DOMAIN o.code
             /\ result.found => IsLineOf(result, o, v) \/ IsLineOf(result, o, v - 1)
             /\ Names(o, v) => result.found
             /\ result.found /\ o.units # <<>> /\ o.symtab \cup o.exported # {}
                  => IsLineOf(result, o, Looked(b, o, a))
<1> DEFINE result == BfdDetails(b.unwind, o, a, o.fbase)
           v == a - o.bias
           callSite == find_symbol_details(o, a, o.fbase)
           adjusted == find_symbol_details(o, a - 1, o.fbase)
<1>1. o.bias \in Int /\ \A w \in DOMAIN o.code : w \in Int /\ w + o.bias \in Mapped(o)
  BY ObjectFacts
<1>2. PICK w \in DOMAIN o.code : a = w + o.bias
  OBVIOUS
<1>3. PICK u \in DOMAIN o.code : a - 1 = u + o.bias
  OBVIOUS
<1>4. /\ a \in Int /\ v = w /\ v - 1 = u /\ (a - 1) - o.bias = v - 1
      /\ a \in Mapped(o) /\ a - 1 \in Mapped(o)
  BY <1>1, <1>2, <1>3
<1>5. {v, v - 1} \subseteq DOMAIN o.code
  BY <1>4
<1>6. /\ callSite.found => IsLineOf(callSite, o, v)
      /\ Names(o, v) => callSite.found
  BY <1>4, <1>5, DetailsLine
<1>7. /\ adjusted.found => IsLineOf(adjusted, o, v - 1)
      /\ Names(o, v - 1) => adjusted.found
  <2> DEFINE c == a - 1
  <2>1. /\ adjusted = find_symbol_details(o, c, o.fbase)
        /\ c \in Mapped(o) /\ c - o.bias = v - 1
    BY <1>4
  <2> HIDE DEF c, adjusted, v
  <2> QED
    BY <1>5, <2>1, DetailsLine
<1>8. result = IF ~b.unwind /\ callSite.found /\ adjusted.found THEN adjusted ELSE callSite
  BY DEF BfdDetails
<1>9. Looked(b, o, a) = IF b.unwind THEN v ELSE v - 1
  BY <1>1, <1>4 DEF Looked
<1> HIDE DEF result, callSite, adjusted, v
<1>10. result.found /\ o.units # <<>> /\ o.symtab \cup o.exported # {}
          => IsLineOf(result, o, Looked(b, o, a))
  BY <1>6, <1>7, <1>8, <1>9 DEF Names
<1>11. /\ result.found => IsLineOf(result, o, v) \/ IsLineOf(result, o, v - 1)
       /\ Names(o, v) => result.found
  BY <1>6, <1>7, <1>8
<1> QED
  BY <1>5, <1>10, <1>11 DEF result, v

\* The file that is opened is the object's, if it has symbols at all.
LEMMA BfdOpens ==
  ASSUME NEW o, Intact("libbfd", o)
  PROVE  BfdObject(o) = IF o.symtab \cup o.exported # {} THEN {o} ELSE {}
<1>1. CASE o.disk = "same"
  <2>1. ImageAtPath(o) = {o} /\ SameInode(o)
    BY <1>1 DEF ImageAtPath, SameInode
  <2>2. resolve_exec_path(o) = {o}
    BY <2>1 DEF resolve_exec_path
  <2> QED
    BY <2>1, <2>2 DEF BfdObject, load_object_with_bfd
<1>2. CASE o.disk # "same"
  <2>1. o.exec
    BY <1>2 DEF Intact
  <2>2. ~SameInode(o) /\ resolve_exec_path(o) = {o}
    BY <1>2, <2>1 DEF SameInode, resolve_exec_path
  <2> QED
    BY <2>2 DEF BfdObject, load_object_with_bfd
<1> QED
  BY <1>1, <1>2

\* The fields that resolve() fills in.
LEMMA FilledTrace ==
  ASSUME NEW name, NEW file, NEW line, NEW head, NEW tail
  PROVE  LET named == [NoTrace EXCEPT !.object_function = name]
             full == [[named EXCEPT !.file = file, !.line = line] EXCEPT
                        !.function = head,
                        !.object_function = IF @ = "" THEN head ELSE @,
                        !.inliners = tail]
         IN  /\ named.file = "" /\ named.object_function = name
             /\ full.file = file /\ full.line = line
             /\ full.function = head /\ full.inliners = tail
             /\ full.object_function = IF name = "" THEN head ELSE name
BY DEF NoTrace

\* What a lookup without and with a line says.
LEMMA BfdSays ==
  ASSUME NEW o, NEW unwind, NEW a, Intact("libbfd", o)
  PROVE  LET d == BfdDetails(unwind, o, a, o.fbase)
             result == BfdResolve(unwind, o, a)
             table == o.symtab \cup o.exported
         IN  IF table # {} /\ d.found
             THEN /\ result.file = d.file /\ result.line = d.line
                  /\ result.function = Head(d.chain) /\ result.inliners = Tail(d.chain)
                  /\ result.object_function =
                       IF DliSname(o, a) = "" THEN Head(d.chain) ELSE DliSname(o, a)
             ELSE /\ result.file = ""
                  /\ result.object_function = DliSname(o, a)
<1> DEFINE d == BfdDetails(unwind, o, a, o.fbase)
           result == BfdResolve(unwind, o, a)
           table == o.symtab \cup o.exported
           named == [NoTrace EXCEPT !.object_function = DliSname(o, a)]
           Of(image) == BfdDetails(unwind, image, a, o.fbase)
           found == {e \in {Of(image) : image \in BfdObject(o)} : e.found}
           e == CHOOSE e \in found : TRUE
           full == [At(named, e.file, e.line) EXCEPT
                      !.function = Head(e.chain),
                      !.object_function = IF @ = "" THEN Head(e.chain) ELSE @,
                      !.inliners = Tail(e.chain)]
<1>1. result = IF found = {} THEN named ELSE full
  BY DEF BfdResolve
<1>2. named.file = "" /\ named.object_function = DliSname(o, a)
  BY FilledTrace
<1>3. CASE table # {} /\ d.found
  <2>1. found = {d}
    <3>1. BfdObject(o) = {o}
      BY <1>3, BfdOpens
    <3> QED
      BY <1>3, <3>1
  <2> HIDE DEF found, d
  <2>2. e = d /\ found # {}
    BY <2>1
  <2>3. result = full
    BY <1>1, <2>2
  <2> HIDE DEF result, e
  <2>4. /\ full.file = e.file /\ full.line = e.line
        /\ full.function = Head(e.chain) /\ full.inliners = Tail(e.chain)
        /\ full.object_function = IF DliSname(o, a) = "" THEN Head(e.chain)
                                  ELSE DliSname(o, a)
    BY DEF At, NoTrace
  <2> QED
    BY <1>3, <2>2, <2>3, <2>4 DEF d, result
<1>4. CASE ~(table # {} /\ d.found)
  <2>1. found = {}
    BY <1>4, BfdOpens
  <2> HIDE DEF found, named, result
  <2>2. result = named
    BY <1>1, <2>1
  <2> QED
    BY <1>2, <1>4, <2>2 DEF result
<1> QED
  BY <1>3, <1>4

-----------------------------------------------------------------------------
(***************************************************************************)
(* libdw and libdwarf, given what DieAssumption says of their searches.    *)
(***************************************************************************)

\* A result that has the line of an instruction.
Places(result, code) == result.file = code.unit /\ result.line = code.line

\* libdw: an object whose file is gone is not read at all.
LEMMA DwSays ==
  ASSUME NEW b \in Builds, b.library = "libdw", NEW world \in Worlds, NEW o \in world,
         NEW a, a - o.bias \in DOMAIN o.code
  PROVE  LET result == DwResolve(o, a)
             v == a - o.bias
         IN  IF o.disk = "same"
             THEN /\ result.object_function = SymbolOf(o, o.symtab \cup o.exported, v)
                  /\ o.units # <<>> => result.file # ""
                  /\ result.file # "" => Places(result, o.code[v])
             ELSE result.object_function = "" /\ result.file = ""
<1> DEFINE v == a - o.bias
           units == UNION {DwUnit(image, v) : image \in DwModule(o)}
           unit == CHOOSE unit \in units : TRUE
           rows == SourceRow(unit, v)
           row == CHOOSE row \in rows : TRUE
           name == IF DwModule(o) = {} THEN ""
                   ELSE SymbolOf(o, o.symtab \cup o.exported, v)
           named == [NoTrace EXCEPT !.object_function = name]
           calls == DwCalls(unit, v)
           function == IF calls.function = "" THEN name ELSE calls.function
           at == IF rows = {} THEN named ELSE At(named, unit.name, row.line)
           result == DwResolve(o, a)
           code == o.code[v]
<1>1. result = IF units = {} THEN named
               ELSE [at EXCEPT !.inliners = calls.inliners, !.function = function]
  BY DEF DwResolve
<1>2. named.file = "" /\ named.object_function = name
  BY DEF NoTrace
<1>3. CASE o.disk # "same"
  <2>1. DwModule(o) = {}
    BY <1>3 DEF DwModule
  <2>2. units = {} /\ name = ""
    BY <2>1
  <2> HIDE DEF units, named, result, name
  <2>3. result = named
    BY <1>1, <2>2
  <2> QED
    BY <1>2, <1>3, <2>2, <2>3 DEF result
<1>4. CASE o.disk = "same"
  <2>1. DwModule(o) = {o}
    BY <1>4 DEF DwModule
  <2>2. units = DwUnit(o, v) /\ name = SymbolOf(o, o.symtab \cup o.exported, v)
    BY <2>1
  <2>3. DwReads(o, v)
    BY DieAssumption
  <2>4. code.unit # "" /\ code.function # ""
    <3>1. WellFormed(o)
      BY WorldAssumption
    <3> QED
      BY <3>1 DEF WellFormed
  <2> HIDE DEF units, v, name, code
  <2>5. CASE units = {}
    <3>1. o.units = <<>>
      BY <2>2, <2>3, <2>5 DEF DwReads
    <3> HIDE DEF named, result
    <3>2. result = named
      BY <1>1, <2>5
    <3> QED
      BY <1>2, <1>4, <2>2, <3>1, <3>2 DEF result, v
  <2>6. CASE units # {}
    <3>1. unit \in DwUnit(o, v)
      BY <2>2, <2>6
    <3> HIDE DEF unit
    <3>2. unit.name = code.unit /\ rows # {} /\ \A r \in rows : r.line = code.line
      BY <2>3, <3>1 DEF DwReads, Described, code
    <3>3. row.line = code.line /\ at = At(named, code.unit, code.line)
      BY <3>2
    <3> HIDE DEF rows, row, calls
    <3> HIDE DEF function, result
    <3>5. result = [At(named, code.unit, code.line) EXCEPT
                      !.inliners = calls.inliners, !.function = function]
      BY <1>1, <2>6, <3>3
    <3>6. /\ result.file = code.unit /\ result.line = code.line
          /\ result.object_function = name
      <4> HIDE DEF code, name
      <4> QED
        BY <3>5 DEF NoTrace, At
    <3>7. Places(result, code)
      BY <3>6 DEF Places
    <3> QED
      BY <1>4, <2>2, <2>4, <3>6, <3>7 DEF result, v, code
  <2> QED
    BY <2>5, <2>6
<1> QED
  BY <1>3, <1>4

\* Where the symbol of a function is.
LEMMA SymbolIsFirst ==
  ASSUME NEW world \in Worlds, NEW o \in world, NEW v \in DOMAIN o.code
  PROVE  LET s == SymbolValue(o, o.code[v].function)
         IN  /\ s \in DOMAIN o.code /\ s \in Nat /\ v \in Nat /\ s <= v
             /\ o.code[s].function = o.code[v].function
<1> DEFINE S == {w \in DOMAIN o.code : o.code[w].function = o.code[v].function}
<1>1. \A w \in DOMAIN o.code : w \in Nat
  <2>1. WellFormed(o)
    BY WorldAssumption
  <2> QED
    BY <2>1 DEF WellFormed
<1>2. S \in SUBSET Nat /\ v \in S
  BY <1>1
<1>3. Min(S) \in S /\ \A n \in S : Min(S) <= n
  BY <1>2, MinIsLeast
<1>4. SymbolValue(o, o.code[v].function) = Min(S)
  BY DEF SymbolValue
<1> HIDE DEF S
<1>5. Min(S) <= v
  BY <1>2, <1>3
<1> QED
  BY <1>1, <1>3, <1>4, <1>5 DEF S

\* The symbol at or before an address is the one of its function.
LEMMA NearestIsOwn ==
  ASSUME NEW world \in Worlds, NEW o \in world, NEW v \in DOMAIN o.code,
         NEW table, Whole(o, table), InOnePiece(o),
         NEW cache, cache = [w \in {SymbolValue(o, fn) : fn \in table} |->
                               o.code[w].function]
  PROVE  LET name == NearestSymbol(cache, v)
         IN  /\ name \in {"", o.code[v].function}
             /\ table # {} /\ ~LastFunction(o, v) => name = o.code[v].function
<1> DEFINE above == {k \in DOMAIN cache : k >= v}
           below == {k \in DOMAIN cache : k < v}
           name == NearestSymbol(cache, v)
           f == o.code[v].function
           s == SymbolValue(o, f)
<1>1. v \in Nat /\ \A w \in DOMAIN o.code : w \in Nat
  BY SymbolIsFirst
<1>2. ASSUME NEW k \in DOMAIN cache
      PROVE  k \in Nat /\ k \in DOMAIN o.code /\ cache[k] = o.code[k].function
  <2> PICK fn \in table : k = SymbolValue(o, fn)
    OBVIOUS
  <2> PICK w \in DOMAIN o.code : fn = o.code[w].function
    BY DEF Whole
  <2> QED
    BY SymbolIsFirst
<1>3. CASE table = {}
  <2>1. above = {} /\ DOMAIN cache = {}
    BY <1>3
  <2>2. name = ""
    BY <2>1 DEF NearestSymbol
  <2> QED
    BY <1>3, <2>2
<1>4. CASE table # {}
  <2>1. \A w \in DOMAIN o.code : SymbolValue(o, o.code[w].function) \in DOMAIN cache
    BY <1>4 DEF Whole
  <2>2. /\ s \in DOMAIN cache /\ s \in DOMAIN o.code /\ s <= v
        /\ s \in Nat /\ o.code[s].function = f
    BY <2>1, SymbolIsFirst
  <2>3. ASSUME ~LastFunction(o, v)
        PROVE  above # {}
    <3> PICK w \in DOMAIN o.code : w >= v /\ o.code[w].function # f
      BY <2>3 DEF LastFunction
    <3> DEFINE t == SymbolValue(o, o.code[w].function)
    <3>1. /\ t \in DOMAIN cache /\ t \in DOMAIN o.code /\ t <= w
          /\ t \in Nat /\ w \in Nat /\ o.code[t].function = o.code[w].function
      BY <2>1, SymbolIsFirst
    <3> HIDE DEF t
    <3>2. t >= v
      <4> SUFFICES ASSUME t < v PROVE FALSE
        BY <1>1, <3>1
      <4>1. v \in t..w
        BY <1>1, <3>1
      <4> QED
        BY <3>1, <4>1 DEF InOnePiece
    <3> QED
      BY <3>1, <3>2
  <2>4. CASE above = {}
    <3>1. name = ""
      BY <2>4 DEF NearestSymbol
    <3> QED
      BY <2>3, <2>4, <3>1
  <2>5. CASE v \in above
    <3>1. above \in SUBSET Nat /\ \A k \in above : v <= k
      BY <1>1, <1>2
    <3> HIDE DEF above
    <3>2. Min(above) \in above /\ Min(above) <= v
      BY <2>5, <3>1, MinIsLeast
    <3>3. Min(above) = v
      <4>1. Min(above) \in Nat /\ v <= Min(above)
        BY <3>1, <3>2
      <4> QED
        BY <1>1, <3>2, <4>1
    <3>4. name = cache[v]
      BY <2>5, <3>3 DEF NearestSymbol, above
    <3>5. v \in DOMAIN cache
      BY <2>5 DEF above
    <3> QED
      BY <1>2, <3>4, <3>5
  <2>6. CASE above # {} /\ v \notin above
    <3>1. s \in below
      <4>1. s # v
        BY <1>1, <2>2, <2>6
      <4> QED
        BY <1>1, <2>2, <4>1
    <3>2. below \in SUBSET Nat /\ \A k \in below : k <= v
      BY <1>1, <1>2
    <3> HIDE DEF below
    <3>3. Max(below) \in below /\ s <= Max(below)
      BY <1>1, <3>1, <3>2, MaxIsGreatest
    <3> DEFINE m == Max(below)
    <3>4. name = cache[m]
      BY <2>6, <3>1 DEF NearestSymbol, below
    <3>5. m \in DOMAIN cache /\ m \in Nat /\ m <= v
      BY <3>2, <3>3 DEF below
    <3> HIDE DEF m
    <3>6. m \in s..v
      BY <1>1, <2>2, <3>3, <3>5 DEF m
    <3>7. o.code[m].function = f
      BY <2>2, <3>6 DEF InOnePiece
    <3> QED
      BY <1>2, <3>4, <3>5, <3>7
  <2> QED
    BY <2>4, <2>5, <2>6
<1> QED
  BY <1>3, <1>4

\* libdwarf.
LEMMA DwarfSays ==
  ASSUME NEW b \in Builds, b.library = "libdwarf", NEW world \in Worlds,
         NEW o \in world, o.disk = "same", NEW a, a - o.bias \in DOMAIN o.code
  PROVE  LET result == DwarfResolve(o, a)
             code == o.code[a - o.bias]
         IN  /\ result.object_function \in {"", code.function}
             /\ NameIsFound(b, o, a, result) /\ LineIsFound(b, o, a, result)
             /\ result.file # "" => Places(result, code)
<1> DEFINE v == a - o.bias
           code == o.code[v]
           images == load_object_with_dwarf(ImageAtPath(o))
           image == CHOOSE image \in images : TRUE
           dynamic == DliSname(o, a)
           symbol == IF dynamic # "" THEN dynamic
                     ELSE NearestSymbol(SymbolCache(image), v)
           located == UNION {{unit} \X DwarfRow(unit, v) : unit \in DwarfUnit(image, v)}
           at == CHOOSE at \in located : TRUE
           calls == DwarfCalls(at[1], v)
           Named(name) == [NoTrace EXCEPT !.object_function = name]
           name == IF symbol # "" THEN symbol ELSE calls.linkage
           full == [At(Named(name), at[1].name, at[2].line) EXCEPT
                      !.function = calls.function, !.inliners = calls.inliners]
           result == DwarfResolve(o, a)
           table == IF o.symtab # {} THEN o.symtab ELSE o.exported
<1>1. result = IF images = {} THEN Named(dynamic)
               ELSE IF located = {} THEN Named(symbol) ELSE full
  BY DEF DwarfResolve
<1>2. \A n : Named(n).file = "" /\ Named(n).object_function = n
  BY DEF NoTrace
<1>3. /\ v \in DOMAIN o.code
      /\ \A u \in DOMAIN o.code : o.code[u].function # "" /\ o.code[u].unit # ""
  <2>1. WellFormed(o)
    BY WorldAssumption
  <2> QED
    BY <2>1 DEF WellFormed
<1>4. /\ dynamic = IF code.function \in o.exported THEN code.function ELSE ""
      /\ SymbolOf(o, o.exported \cup o.symtab, v) # ""
           => code.function \in o.exported \cup o.symtab
  BY <1>3 DEF DliSname, SymbolOf
<1>5. images = IF o.units # <<>> THEN {o} ELSE {}
  <2>1. ImageAtPath(o) = {o}
    BY DEF ImageAtPath
  <2> QED
    BY <2>1 DEF load_object_with_dwarf
<1>6. /\ DwarfReads(o, v) /\ InOnePiece(o) /\ Whole(o, table)
  BY DieAssumption
<1>7. CASE o.units = <<>>
  <2>1. images = {}
    BY <1>5, <1>7
  <2>2. o.exported \cup {} = o.exported
    OBVIOUS
  <2> HIDE DEF images, Named, dynamic, result
  <2>3. result = Named(dynamic)
    BY <1>1, <2>1
  <2>4. result.file = "" /\ result.object_function = dynamic
    BY <1>2, <2>3
  <2>5. NameIsFound(b, o, a, result)
    BY <1>3, <1>7, <2>2, <2>4 DEF NameIsFound, ReadsSymtab, dynamic, DliSname
  <2>6. LineIsFound(b, o, a, result)
    BY <1>7 DEF LineIsFound
  <2> QED
    BY <1>4, <2>4, <2>5, <2>6 DEF result
<1>8. CASE o.units # <<>>
  <2>1. images # {} /\ image = o
    <3>1. images = {o}
      BY <1>5, <1>8
    <3> HIDE DEF images
    <3> QED
      BY <3>1
  <2> HIDE DEF images, image
  <2>2. SymbolCache(o) = [w \in {SymbolValue(o, fn) : fn \in table} |-> o.code[w].function]
    BY DEF SymbolCache
  <2>3. LET near == NearestSymbol(SymbolCache(o), v)
        IN /\ near \in {"", code.function}
           /\ table # {} /\ ~LastFunction(o, v) => near = code.function
    <3> DEFINE cache == SymbolCache(o)
    <3>1. cache = [w \in {SymbolValue(o, fn) : fn \in table} |-> o.code[w].function]
      BY <2>2
    <3> HIDE DEF table, v, cache
    <3>2. /\ NearestSymbol(cache, v) \in {"", o.code[v].function}
          /\ table # {} /\ ~LastFunction(o, v)
               => NearestSymbol(cache, v) = o.code[v].function
      BY <1>3, <1>6, <3>1, NearestIsOwn
    <3> QED
      BY <3>2 DEF cache
  <2>4. /\ symbol \in {"", code.function}
        /\ SymbolOf(o, o.exported \cup o.symtab, v) # "" /\ ~LastFunction(o, v)
             => symbol # ""
    <3> DEFINE near == NearestSymbol(SymbolCache(o), v)
    <3>1. symbol = IF dynamic # "" THEN dynamic ELSE near
      BY <2>1
    <3> HIDE DEF near, symbol, dynamic
    <3> QED
      BY <1>3, <1>4, <2>3, <3>1 DEF near
  <2> HIDE DEF symbol, dynamic, table
  <2>5. /\ HiddenUnit(o, v) \/ located # {}
        /\ located # {} =>
             /\ at[1].name = code.unit /\ at[2].line = code.line
             /\ calls.linkage \in {"", code.function}
    <3>1. \A unit \in DwarfUnit(o, v) :
            /\ unit.name = code.unit /\ DwarfRow(unit, v) # {}
            /\ \A row \in DwarfRow(unit, v) : row.line = code.line
            /\ DwarfCalls(unit, v).linkage \in {"", code.function}
      BY <1>6 DEF DwarfReads, Described
    <3>2. HiddenUnit(o, v) \/ DwarfUnit(o, v) # {}
      BY <1>6, <1>8 DEF DwarfReads
    <3> HIDE DEF v, code
    <3>3. located = UNION {{unit} \X DwarfRow(unit, v) : unit \in DwarfUnit(o, v)}
      BY <2>1
    <3> HIDE DEF located
    <3>4. ASSUME NEW unit \in DwarfUnit(o, v)
          PROVE  located # {}
      <4> PICK row : row \in DwarfRow(unit, v)
        BY <3>1
      <4>1. <<unit, row>> \in {unit} \X DwarfRow(unit, v)
        OBVIOUS
      <4>2. {unit} \X DwarfRow(unit, v) \subseteq located
        BY <3>3, Zenon
      <4> QED
        BY <4>1, <4>2
    <3>5. ASSUME located # {}
          PROVE  \E unit \in DwarfUnit(o, v) :
                   at[1] = unit /\ at[2] \in DwarfRow(unit, v)
      <4>1. at \in located
        BY <3>5
      <4> HIDE DEF at
      <4> PICK unit \in DwarfUnit(o, v) : at \in {unit} \X DwarfRow(unit, v)
        BY <3>3, <4>1
      <4> QED
        OBVIOUS
    <3> QED
      BY <3>1, <3>2, <3>4, <3>5
  <2>6. result = IF located = {} THEN Named(symbol) ELSE full
    BY <1>1, <2>1
  <2>7. CASE located = {}
    <3> HIDE DEF located, Named, result, code
    <3>1. result = Named(symbol)
      BY <2>6, <2>7
    <3>2. result.file = "" /\ result.object_function = symbol
      BY <1>2, <3>1
    <3>3. NameIsFound(b, o, a, result)
      BY <1>8, <2>4, <3>2 DEF NameIsFound, ReadsSymtab
    <3>4. LineIsFound(b, o, a, result)
      BY <2>5, <2>7 DEF LineIsFound
    <3> QED
      BY <2>4, <3>2, <3>3, <3>4 DEF result, code
  <2>8. CASE located # {}
    <3> HIDE DEF located, at, calls, code
    <3>1. /\ full.file = at[1].name /\ full.line = at[2].line
          /\ full.object_function = name
      BY DEF NoTrace, At
    <3> HIDE DEF full, Named, result
    <3>2. result = full
      BY <2>6, <2>8
    <3>3. /\ result.object_function \in {"", code.function}
          /\ symbol # "" => result.object_function # ""
      BY <2>4, <2>5, <2>8, <3>1, <3>2
    <3> HIDE DEF name
    <3>4. result.file = code.unit /\ code.unit # ""
      BY <1>3, <2>5, <2>8, <3>1, <3>2 DEF code
    <3>5. Places(result, code)
      BY <2>5, <2>8, <3>1, <3>2 DEF Places
    <3>6. NameIsFound(b, o, a, result)
      BY <1>8, <2>4, <3>3 DEF NameIsFound, ReadsSymtab
    <3>7. LineIsFound(b, o, a, result)
      BY <3>4 DEF LineIsFound
    <3> QED
      BY <3>3, <3>5, <3>6, <3>7 DEF result, code
  <2> QED
    BY <2>7, <2>8
<1> QED
  BY <1>7, <1>8

-----------------------------------------------------------------------------
(***************************************************************************)
(* A lookup reads the object that is mapped at the address, and no other.  *)
(***************************************************************************)

\* Only the object that is mapped at the address is read.
LEMMA ResolveReads ==
  ASSUME NEW world \in Worlds, NEW set \in SUBSET world, NEW a \in Int, NEW b
  PROVE  /\ (\A o \in set : a \notin Mapped(o)) => Resolve(b, set, a) = NoTrace
         /\ \A o \in set :
              a \in Mapped(o) /\ (\A p \in set : a \in Mapped(p) => p = o)
              => Resolve(b, set, a) = Resolve(b, {o}, a)
<1> DEFINE Reading(at) ==
             LET o == CHOOSE x \in at : TRUE
             IN IF at = {} THEN NoTrace
                ELSE CASE b.library = "libdw" -> DwResolve(o, a)
                       [] b.library = "libbfd" -> BfdResolve(b.unwind, o, a)
                       [] b.library = "libdwarf" -> DwarfResolve(o, a)
                       [] b.library = "none" ->
                            [NoTrace EXCEPT !.object_function = DliSname(o, a)]
<1>1. \A S : Resolve(b, S, a) = Reading(ObjectsAt(S, a))
  BY DEF Resolve
<1>2. ObjectsAt(set, a) = {o \in set : a \in Mapped(o)}
  BY AtIsMapped
<1>3. ASSUME \A o \in set : a \notin Mapped(o)
      PROVE  Resolve(b, set, a) = NoTrace
  BY <1>2, <1>3 DEF Resolve
<1>4. ASSUME NEW o \in set, a \in Mapped(o), \A p \in set : a \in Mapped(p) => p = o
      PROVE  Resolve(b, set, a) = Resolve(b, {o}, a)
  <2>1. ObjectsAt({o}, a) = {o}
    <3>1. {o} \in SUBSET world
      OBVIOUS
    <3> QED
      BY <1>4, <3>1, AtIsMapped
  <2>2. ObjectsAt(set, a) = {o}
    BY <1>2, <1>4
  <2> HIDE DEF Reading
  <2> QED
    BY <1>1, <2>1, <2>2
<1> QED
  BY <1>3, <1>4

\* What each library makes of it.
LEMMA ResolveOne ==
  ASSUME NEW world \in Worlds, NEW o \in world, NEW a \in Mapped(o), NEW b
  PROVE  LET result == Resolve(b, {o}, a)
         IN  /\ b.library = "libdw" => result = DwResolve(o, a)
             /\ b.library = "libbfd" => result = BfdResolve(b.unwind, o, a)
             /\ b.library = "libdwarf" => result = DwarfResolve(o, a)
             /\ b.library = "none" =>
                  result.object_function = DliSname(o, a) /\ result.file = ""
<1>1. ObjectsAt({o}, a) = {o}
  <2>1. {o} \in SUBSET world /\ a \in Int
    BY ObjectFacts
  <2> QED
    BY <2>1, AtIsMapped
<1> DEFINE at == ObjectsAt({o}, a)
           p == CHOOSE x \in at : TRUE
           result == Resolve(b, {o}, a)
           dynamic == [NoTrace EXCEPT !.object_function = DliSname(p, a)]
<1>2. p = o /\ at # {}
  BY <1>1
<1>3. /\ b.library = "libdw" => result = DwResolve(p, a)
      /\ b.library = "libbfd" => result = BfdResolve(b.unwind, p, a)
      /\ b.library = "libdwarf" => result = DwarfResolve(p, a)
      /\ b.library = "none" => result = dynamic
  BY <1>1 DEF Resolve
<1> HIDE DEF p, result
<1>4. dynamic.object_function = DliSname(p, a) /\ dynamic.file = ""
  BY DEF NoTrace
<1> HIDE DEF dynamic
<1> QED
  BY <1>2, <1>3, <1>4 DEF result

\* The functions libbfd gives of an instruction are its own.
LEMMA LineNames ==
  ASSUME NEW world \in Worlds, NEW o \in world, NEW v, NEW d, IsLineOf(d, o, v)
  PROVE  LET code == o.code[v]
         IN  /\ Head(d.chain) # ""
             /\ Head(d.chain) \in {code.function} \cup ToSet(code.inlined)
             /\ <<Head(d.chain)>> \o Tail(d.chain) = d.chain
<1> DEFINE code == o.code[v]
           S == ToSet(code.inlined) \ {""}
           T == S \cup {code.function}
<1>1. v \in DOMAIN o.code /\ code.function # "" /\ code.inlined \in Seq(S)
  <2>1. WellFormed(o) /\ v \in DOMAIN o.code
    BY WorldAssumption DEF IsLineOf
  <2> QED
    BY <2>1 DEF WellFormed
<1>2. PICK s \in {code.inlined, <<>>} : d.chain = s \o <<code.function>>
  <2>1. d.chain \in {code.inlined \o <<code.function>>, <<code.function>>}
    BY DEF IsLineOf
  <2>2. <<>> \o <<code.function>> = <<code.function>>
    OBVIOUS
  <2> QED
    BY <2>1, <2>2
<1>3. "" \notin T /\ T \subseteq {code.function} \cup ToSet(code.inlined)
  BY <1>1
<1> HIDE DEF S, code
<1>4. s \in Seq(T) /\ code.function \in T
  <2>1. code.inlined \in Seq(T)
    <3>1. S \subseteq T
      OBVIOUS
    <3> HIDE DEF T
    <3> QED
      BY <1>1, <3>1, SeqMonotonic
  <2>2. <<>> \in Seq(T)
    OBVIOUS
  <2>3. code.function \in T
    OBVIOUS
  <2> HIDE DEF T
  <2> QED
    BY <1>2, <2>1, <2>2, <2>3
<1> HIDE DEF T
<1>5. /\ Head(d.chain) \in T
      /\ <<Head(d.chain)>> \o Tail(d.chain) = d.chain
  BY <1>2, <1>4, ChainHead
<1> QED
  BY <1>3, <1>5 DEF code

\* A lookup in the object alone is right about the calls made from it.
LEMMA LookupIsRight ==
  ASSUME NEW b \in Builds, NEW world \in Worlds, NEW o \in world, NEW k \in CallSites,
         Intact(b.library, o), Returns(o, Call(o, k).site)
  PROVE  TextIsOf(SymbolText(Resolve(b, {o}, Call(o, k).returns)), o, Call(o, k).site)
<1> DEFINE a == Call(o, k).returns
           site == Call(o, k).site
           result == Resolve(b, {o}, a)
           dynamic == DliSname(o, a)
<1>1. /\ o.bias \in Int /\ site \in Nat /\ site \in DOMAIN o.code
      /\ a = site + 1 + o.bias /\ a \in Mapped(o)
  <2>1. WellFormed(o)
    BY WorldAssumption
  <2>2. site \in Nat
    BY <2>1, ObjectFacts DEF WellFormed
  <2> QED
    BY <2>2, ObjectFacts
<1>2. a - o.bias = site + 1 /\ (a - o.bias) - 1 = site
  BY <1>1
<1>3. /\ site + 1 \in DOMAIN o.code
      /\ o.code[site + 1].function = o.code[site].function
  BY DEF Returns
<1>4. dynamic \in {"", o.code[site].function}
  BY <1>2, <1>3 DEF DliSname, SymbolOf
<1>5. ASSUME NEW r,
             r.object_function \in {"", o.code[site].function}
               \cup ToSet(o.code[site].inlined) \cup ToSet(o.code[site + 1].inlined),
             r.file = "" \/ \E v \in {site, site + 1} :
                              o.code[v].unit = r.file /\ o.code[v].line = r.line
      PROVE  TextIsOf(SymbolText(r), o, site)
  BY <1>5 DEF TextIsOf, SymbolText
<1> HIDE DEF a, site, dynamic
<1>6. CASE b.library = "none"
  <2>1. result.object_function = dynamic /\ result.file = ""
    BY <1>1, <1>6, ResolveOne DEF dynamic
  <2> HIDE DEF result
  <2> QED
    BY <1>4, <1>5, <2>1 DEF result, a, site
<1>7. CASE b.library = "libdw"
  <2>1. result = DwResolve(o, a)
    BY <1>1, <1>7, ResolveOne
  <2> HIDE DEF result
  <2>2. IF o.disk = "same"
        THEN /\ result.object_function
                  = SymbolOf(o, o.symtab \cup o.exported, site + 1)
             /\ result.file # "" =>
                  result.file = o.code[site + 1].unit /\ result.line = o.code[site + 1].line
        ELSE result.object_function = "" /\ result.file = ""
    BY <1>2, <1>3, <1>7, <2>1, DwSays DEF Places
  <2>3. SymbolOf(o, o.symtab \cup o.exported, site + 1) \in {"", o.code[site].function}
    BY <1>3 DEF SymbolOf
  <2> QED
    BY <1>5, <2>2, <2>3 DEF result, a, site
<1>8. CASE b.library = "libdwarf"
  <2>1. result = DwarfResolve(o, a)
    BY <1>1, <1>8, ResolveOne
  <2> HIDE DEF result
  <2>2. o.disk = "same"
    BY <1>8 DEF Intact
  <2>3. /\ result.object_function \in {"", o.code[site + 1].function}
        /\ result.file # "" =>
             result.file = o.code[site + 1].unit /\ result.line = o.code[site + 1].line
    <3>1. a - o.bias \in DOMAIN o.code
      BY <1>2, <1>3
    <3>2. /\ result.object_function \in {"", o.code[a - o.bias].function}
          /\ result.file # "" => Places(result, o.code[a - o.bias])
      BY <1>8, <2>1, <2>2, <3>1, DwarfSays
    <3> QED
      BY <1>2, <3>2 DEF Places
  <2> QED
    BY <1>3, <1>5, <2>3 DEF result, a, site
<1>9. CASE b.library = "libbfd"
  <2> DEFINE d == BfdDetails(b.unwind, o, a, o.fbase)
             table == o.symtab \cup o.exported
  <2>1. result = BfdResolve(b.unwind, o, a)
    BY <1>1, <1>9, ResolveOne
  <2>2. {a, a - 1} \subseteq {v + o.bias : v \in DOMAIN o.code}
    <3>1. a = (site + 1) + o.bias /\ a - 1 = site + o.bias
      BY <1>1
    <3> QED
      BY <1>1, <1>3, <3>1
  <2>3. d.found => \E v \in {site, site + 1} : IsLineOf(d, o, v)
    BY <1>2, <1>9, <2>2, BfdLine
  <2>4. IF table # {} /\ d.found
        THEN /\ result.file = d.file /\ result.line = d.line
             /\ result.object_function = IF dynamic = "" THEN Head(d.chain) ELSE dynamic
        ELSE result.file = "" /\ result.object_function = dynamic
    <3>1. Intact("libbfd", o)
      BY <1>9
    <3> DEFINE r == BfdResolve(b.unwind, o, a)
    <3>2. IF table # {} /\ d.found
          THEN /\ r.file = d.file /\ r.line = d.line
               /\ r.object_function = IF dynamic = "" THEN Head(d.chain) ELSE dynamic
          ELSE r.file = "" /\ r.object_function = dynamic
      BY <3>1, BfdSays DEF dynamic
    <3> HIDE DEF r, d, table, result
    <3> QED
      BY <2>1, <3>2 DEF r
  <2> HIDE DEF d, table, result
  <2>5. CASE table # {} /\ d.found
    <3> PICK v \in {site, site + 1} : IsLineOf(d, o, v)
      BY <2>3, <2>5
    <3>1. Head(d.chain) \in {o.code[v].function} \cup ToSet(o.code[v].inlined)
      BY LineNames
    <3>2. d.file = "" \/ (d.file = o.code[v].unit /\ d.line = o.code[v].line)
      BY DEF IsLineOf
    <3> QED
      BY <1>3, <1>4, <1>5, <2>4, <2>5, <3>1, <3>2 DEF result, a, site
  <2>6. CASE ~(table # {} /\ d.found)
    BY <1>4, <1>5, <2>4, <2>6 DEF result, a, site
  <2> QED
    BY <2>5, <2>6
<1>10. b.library \in {"libdw", "libdwarf", "libbfd", "none"}
  BY WorldAssumption
<1> QED
  BY <1>6, <1>7, <1>8, <1>9, <1>10

\* It misses nothing, and libbfd gives the functions of the instruction
\* looked up.
LEMMA LookupIsFull ==
  ASSUME NEW b \in Builds, NEW world \in Worlds, NEW o \in world, o.disk = "same",
         NEW a, {a, a - 1} \subseteq {v + o.bias : v \in DOMAIN o.code}
  PROVE  LET result == Resolve(b, {o}, a)
         IN  /\ NameIsFound(b, o, a, result) /\ LineIsFound(b, o, a, result)
             /\ b.library = "libbfd" => ChainIsExact(b, o, a, result)
<1> DEFINE v == a - o.bias
           result == Resolve(b, {o}, a)
           all == o.symtab \cup o.exported
<1>1. /\ v \in DOMAIN o.code /\ a \in Mapped(o)
  <2> PICK w \in DOMAIN o.code : a = w + o.bias
    OBVIOUS
  <2>1. w \in Int /\ o.bias \in Int /\ w + o.bias \in Mapped(o)
    BY ObjectFacts
  <2> QED
    BY <2>1
<1>2. o.code[v].unit # "" /\ o.code[v].function # ""
  <2>1. WellFormed(o)
    BY WorldAssumption
  <2> QED
    BY <1>1, <2>1 DEF WellFormed
<1>3. CASE b.library = "none"
  <2>2. result.object_function = DliSname(o, a) /\ result.file = ""
    BY <1>1, <1>3, ResolveOne
  <2> HIDE DEF result
  <2>3. o.exported \cup {} = o.exported
    OBVIOUS
  <2>4. NameIsFound(b, o, a, result)
    BY <1>3, <2>2, <2>3 DEF NameIsFound, ReadsSymtab, DliSname
  <2>5. LineIsFound(b, o, a, result)
    BY <1>3, <2>2 DEF LineIsFound
  <2> QED
    BY <1>3, <2>4, <2>5 DEF result
<1>5. CASE b.library = "libdw"
  <2>1. result = DwResolve(o, a)
    BY <1>1, <1>5, ResolveOne
  <2> HIDE DEF result
  <2>2. /\ result.object_function = SymbolOf(o, all, v)
        /\ o.units # <<>> => result.file # ""
        /\ result.file # "" => Places(result, o.code[v])
    BY <1>1, <1>5, <2>1, DwSays
  <2>3. NameIsFound(b, o, a, result)
    <3>1. o.exported \cup o.symtab = all
      OBVIOUS
    <3> QED
      BY <1>5, <2>2, <3>1 DEF NameIsFound, ReadsSymtab
  <2>4. LineIsFound(b, o, a, result)
    BY <2>2 DEF LineIsFound
  <2> QED
    BY <1>5, <2>3, <2>4 DEF result
<1>6. CASE b.library = "libdwarf"
  <2>1. result = DwarfResolve(o, a)
    BY <1>1, <1>6, ResolveOne
  <2> HIDE DEF result
  <2>2. /\ NameIsFound(b, o, a, result) /\ LineIsFound(b, o, a, result)
    BY <1>1, <1>6, <2>1, DwarfSays
  <2> QED
    BY <1>6, <2>2 DEF result
<1>7. CASE b.library = "libbfd"
  <2>1. result = BfdResolve(b.unwind, o, a)
    BY <1>1, <1>7, ResolveOne
  <2> DEFINE d == BfdDetails(b.unwind, o, a, o.fbase)
  <2>2. /\ d.found => IsLineOf(d, o, v) \/ IsLineOf(d, o, v - 1)
        /\ Names(o, v) => d.found
        /\ d.found /\ o.units # <<>> /\ all # {} => IsLineOf(d, o, Looked(b, o, a))
    BY <1>7, BfdLine
  <2>3. Intact("libbfd", o)
    BY DEF Intact
  <2>4. IF all # {} /\ d.found
        THEN /\ result.file = d.file /\ result.line = d.line
             /\ result.function = Head(d.chain) /\ result.inliners = Tail(d.chain)
             /\ result.object_function =
                  IF DliSname(o, a) = "" THEN Head(d.chain) ELSE DliSname(o, a)
        ELSE result.file = "" /\ result.object_function = DliSname(o, a)
    <3> DEFINE r == BfdResolve(b.unwind, o, a)
    <3>1. IF all # {} /\ d.found
          THEN /\ r.file = d.file /\ r.line = d.line
               /\ r.function = Head(d.chain) /\ r.inliners = Tail(d.chain)
               /\ r.object_function =
                    IF DliSname(o, a) = "" THEN Head(d.chain) ELSE DliSname(o, a)
          ELSE r.file = "" /\ r.object_function = DliSname(o, a)
      BY <2>3, BfdSays
    <3> HIDE DEF r, d, all, result
    <3> QED
      BY <2>1, <3>1 DEF r
  <2> HIDE DEF d, result
  <2>5. d.found => Head(d.chain) # ""
    BY <2>2, LineNames
  <2>6. NameIsFound(b, o, a, result)
    <3>1. o.exported \cup o.symtab = all
      OBVIOUS
    <3> SUFFICES ASSUME SymbolOf(o, all, v) # ""
                 PROVE  result.object_function # ""
      BY <1>7, <3>1 DEF NameIsFound, ReadsSymtab
    <3>2. all # {} /\ Names(o, v)
      BY DEF SymbolOf, Names
    <3> HIDE DEF all, v
    <3> QED
      BY <2>2, <2>4, <2>5, <3>2
  <2>7. ASSUME o.units # <<>>, all # {}
        PROVE  result.file # "" /\ d.found /\ IsLineOf(d, o, Looked(b, o, a))
    <3>1. Names(o, v)
      BY <2>7 DEF Names
    <3>2. d.found /\ IsLineOf(d, o, Looked(b, o, a))
      BY <2>2, <2>7, <3>1
    <3>3. d.file # ""
      <4>1. WellFormed(o)
        BY WorldAssumption
      <4> QED
        BY <2>7, <3>2, <4>1 DEF IsLineOf, WellFormed
    <3> HIDE DEF all
    <3> QED
      BY <2>4, <2>7, <3>2, <3>3
  <2>8. LineIsFound(b, o, a, result)
    BY <1>7, <2>7 DEF LineIsFound
  <2>9. ChainIsExact(b, o, a, result)
    <3> SUFFICES ASSUME result.file # ""
                 PROVE  LET code == o.code[Looked(b, o, a)]
                        IN InlineChain(b, result) = code.inlined \o <<code.function>>
      BY DEF ChainIsExact
    <3> DEFINE code == o.code[Looked(b, o, a)]
    <3> HIDE DEF all
    <3>1. all # {} /\ d.found /\ d.file # ""
      BY <2>4
    <3>2. o.units # <<>>
      BY <2>2, <3>1 DEF IsLineOf
    <3>3. d.chain = code.inlined \o <<code.function>>
      BY <2>7, <3>1, <3>2 DEF IsLineOf
    <3>4. <<Head(d.chain)>> \o Tail(d.chain) = d.chain
      BY <2>7, <3>1, <3>2, LineNames
    <3>5. InlineChain(b, result) = <<Head(d.chain)>> \o Tail(d.chain)
      BY <1>7, <2>4, <3>1 DEF InlineChain
    <3> QED
      BY <3>3, <3>4, <3>5
  <2> QED
    BY <2>6, <2>8, <2>9 DEF result
<1>8. b.library \in {"libdw", "libdwarf", "libbfd", "none"}
  BY WorldAssumption
<1> QED
  BY <1>3, <1>5, <1>6, <1>7, <1>8

-----------------------------------------------------------------------------
(***************************************************************************)
(* The caches, the report and the last lookup.                             *)
(***************************************************************************)

\* What a lookup of a gives when the object o alone is there.
TextAt(o, a, b) == SymbolText(Resolve(b, {o}, a))

\* What lookups of a may have given: nothing, or the symbol of an object that
\* was there.
TextsAt(a, b, world, history) ==
  {SymbolText(NoTrace)} \cup
  {TextAt(o, a, b) : o \in {p \in world : a \in Mapped(p) /\ p.name \in history[a]}}

AnyText(b, world) ==
  {SymbolText(NoTrace)} \cup
  UNION {{TextAt(o, a, b) : a \in Mapped(o)} : o \in world}

\* Only what was looked up while an object was there is cached.
SymbolInv ==
  \A a \in DOMAIN symbol_cache :
    a \in DOMAIN tenants /\ symbol_cache[a] \in TextsAt(a, build, objects, tenants)

\* The lines of the report are those of the frames before the index.
PrintInv ==
  /\ printed \in Seq(AnyText(build, objects))
  /\ Len(printed) <= Len(reporting.callers)
  /\ index # 0 => /\ reporting # Empty /\ index \in 2..Len(reporting.callstack)
                  /\ Len(printed) = index - 2
  /\ \A k \in 1..Len(printed) :
       printed[k] \in TextsAt(reporting.callers[k].returns, build, objects, tenants)

\* The last lookup was made among objects that are not in each other's way.
TraceInv ==
  LET set == {o \in objects : o.name \in trace.loaded}
  IN \/ trace.loaded = {}
     \/ /\ trace.addr \in DOMAIN tenants
        /\ \A o, p \in set : o # p => Mapped(o) \cap Mapped(p) = {}
        /\ trace.result = Resolve(build, set, trace.addr)

SymbolsInv == OriginInv /\ SymbolInv /\ PrintInv /\ TraceInv

-----------------------------------------------------------------------------
\* A text that could be given of an address stays one as the history grows.
LEMMA TextsGrow ==
  ASSUME NEW a, NEW b, NEW world, NEW old, NEW new, old[a] \subseteq new[a]
  PROVE  TextsAt(a, b, world, old) \subseteq TextsAt(a, b, world, new)
BY DEF TextsAt

\* It is one of the texts that a report may be made of.
LEMMA TextsAreTexts ==
  ASSUME NEW a, NEW b, NEW world, NEW history
  PROVE  TextsAt(a, b, world, history) \subseteq AnyText(b, world)
BY DEF TextsAt, AnyText

\* A lookup gives what it would of the one object that is loaded there.
LEMMA ResolvedText ==
  ASSUME OriginInv, NEW a \in DOMAIN tenants
  PROVE  SymbolText(Resolve(build, LoadedObjects, a))
           \in TextsAt(a, build, objects, tenants)
<1>1. WorldInv /\ LoadedInv /\ TenantsInv
  BY DEF OriginInv
<1>2. LoadedObjects \in SUBSET objects /\ objects \in Worlds
  BY <1>1 DEF LoadedObjects, WorldInv
<1>3. a \in Int
  BY <1>1, AddressIsInt
<1>4. CASE \A o \in LoadedObjects : a \notin Mapped(o)
  <2>1. Resolve(build, LoadedObjects, a) = NoTrace
    BY <1>2, <1>3, <1>4, ResolveReads
  <2> QED
    BY <2>1 DEF TextsAt
<1>5. ASSUME NEW o \in LoadedObjects, a \in Mapped(o)
      PROVE  SymbolText(Resolve(build, LoadedObjects, a))
               \in TextsAt(a, build, objects, tenants)
  <2>1. \A p \in LoadedObjects : a \in Mapped(p) => p = o
    BY <1>1, <1>5 DEF LoadedInv
  <2>2. Resolve(build, LoadedObjects, a) = Resolve(build, {o}, a)
    BY <1>2, <1>3, <1>5, <2>1, ResolveReads
  <2>3. o \in objects /\ o.name \in tenants[a]
    BY <1>1, <1>2, <1>5 DEF LoadedInv
  <2> QED
    BY <1>5, <2>2, <2>3 DEF TextsAt, TextAt
<1> QED
  BY <1>4, <1>5

\* addr_to_symbol caches what it found, and keeps everything else.
LEMMA LookupKeeps ==
  ASSUME SymbolsInv, NEW a \in DOMAIN tenants, addr_to_symbol(a),
         UNCHANGED <<worldVars, loaderVars>>
  PROVE  /\ SymbolInv' /\ TraceInv'
         /\ symbol_cache'[a] \in TextsAt(a, build, objects, tenants)
<1>1. /\ build' = build /\ objects' = objects /\ tenants' = tenants
      /\ loaded' = loaded
  BY DEF worldVars, loaderVars
<1>2. OriginInv /\ LoadedInv /\ SymbolInv /\ TraceInv
  BY DEF SymbolsInv, OriginInv
<1>3. CASE a \in DOMAIN symbol_cache
  <2>1. symbol_cache' = symbol_cache /\ trace' = trace
    BY <1>3 DEF addr_to_symbol, cacheVars
  <2> QED
    BY <1>1, <1>2, <1>3, <2>1 DEF SymbolInv, TraceInv
<1>4. CASE a \notin DOMAIN symbol_cache
  <2> DEFINE result == Resolve(build, LoadedObjects, a)
  <2>1. /\ trace' = [addr |-> a, loaded |-> loaded, result |-> result]
        /\ symbol_cache' = [c \in DOMAIN symbol_cache \cup {a} |->
              IF c = a THEN SymbolText(trace'.result) ELSE symbol_cache[c]]
    BY <1>4 DEF addr_to_symbol
  <2> HIDE DEF result
  <2>2. trace'.addr = a /\ trace'.loaded = loaded /\ trace'.result = result
    BY <2>1
  <2>3. SymbolText(result) \in TextsAt(a, build, objects, tenants)
    BY <1>2, ResolvedText DEF result
  <2>4. /\ DOMAIN symbol_cache' = DOMAIN symbol_cache \cup {a}
        /\ symbol_cache'[a] = SymbolText(result)
        /\ \A c \in DOMAIN symbol_cache : symbol_cache'[c] = symbol_cache[c]
    BY <1>4, <2>1, <2>2
  <2>5. SymbolInv'
    BY <1>1, <1>2, <2>3, <2>4 DEF SymbolInv
  <2>6. TraceInv'
    <3>1. {o \in objects : o.name \in loaded} = LoadedObjects
      BY DEF LoadedObjects
    <3>2. \A o, p \in LoadedObjects : o # p => Mapped(o) \cap Mapped(p) = {}
      BY <1>2 DEF LoadedInv
    <3> QED
      BY <1>1, <2>2, <3>1, <3>2 DEF TraceInv, result
  <2> QED
    BY <2>3, <2>4, <2>5, <2>6
<1> QED
  BY <1>3, <1>4

\* The first state.
LEMMA SymbolsInit == Init => SymbolsInv
<1> SUFFICES ASSUME Init PROVE SymbolsInv
  OBVIOUS
<1>1. OriginInv
  BY OriginInit
<1>2. SymbolInv
  BY DEF Init, SymbolInv
<1>3. PrintInv
  <2>1. printed = <<>> /\ index = 0 /\ reporting = Empty
    BY DEF Init
  <2>2. Len(printed) = 0 /\ Len(reporting.callers) = 0
    BY <2>1 DEF Empty
  <2> QED
    BY <2>1, <2>2 DEF PrintInv
<1>4. TraceInv
  BY DEF Init, TraceInv, Nothing
<1> QED
  BY <1>1, <1>2, <1>3, <1>4 DEF SymbolsInv

\* Where the frame of a line was called from.
LEMMA FrameAddress ==
  ASSUME OriginInv, NEW k \in 1..Len(reporting.callers)
  PROVE  /\ reporting # Empty
         /\ WasMade(reporting.callers[k], objects, tenants)
         /\ reporting.callers[k].returns \in DOMAIN tenants
         /\ reporting.callstack[k + 1] = reporting.callers[k].returns
<1>1. WorldInv /\ TenantsInv /\ IsStack(reporting, objects, tenants)
  BY DEF OriginInv, StacksInv
<1>2. reporting # Empty
  BY DEF Empty
<1>3. /\ WasMade(reporting.callers[k], objects, tenants)
      /\ reporting.callstack[k + 1] = reporting.callers[k].returns
  BY <1>1, <1>2 DEF IsStack
<1>4. reporting.callers[k].returns \in DOMAIN tenants
  BY <1>1, <1>3, CallFacts
<1> QED
  BY <1>2, <1>3, <1>4

\* Steps that print nothing and look nothing up; the history may grow.
LEMMA QuietStep ==
  ASSUME SymbolsInv, OriginInv', UNCHANGED <<worldVars, cacheVars>>,
         DOMAIN tenants' = DOMAIN tenants,
         \A a \in DOMAIN tenants : tenants[a] \subseteq tenants'[a],
         UNCHANGED reportVars \/ (/\ printed' = <<>>
                                  /\ index' # 0 => index' = 2 /\ reporting' # Empty)
  PROVE  SymbolsInv'
<1>1. /\ build' = build /\ objects' = objects
      /\ symbol_cache' = symbol_cache /\ trace' = trace
  BY DEF worldVars, cacheVars
<1>2. OriginInv /\ SymbolInv /\ PrintInv /\ TraceInv
  BY DEF SymbolsInv
<1>3. SymbolInv'
  BY <1>1, <1>2, TextsGrow DEF SymbolInv
<1>4. TraceInv'
  BY <1>1, <1>2 DEF TraceInv
<1>5. CASE UNCHANGED reportVars
  <2>1. reporting' = reporting /\ index' = index /\ printed' = printed
    BY <1>5 DEF reportVars
  <2>2. \A k \in 1..Len(printed) :
          printed[k] \in TextsAt(reporting.callers[k].returns, build, objects, tenants')
    <3> TAKE k \in 1..Len(printed)
    <3>1. k \in 1..Len(reporting.callers)
      <4>1. Len(reporting.callers) \in Nat
        BY <1>2 DEF OriginInv, StacksInv, IsStack, Empty
      <4>2. Len(printed) \in Nat /\ Len(printed) <= Len(reporting.callers)
        BY <1>2 DEF PrintInv
      <4> QED
        BY <4>1, <4>2
    <3>2. reporting.callers[k].returns \in DOMAIN tenants
      BY <1>2, <3>1, FrameAddress
    <3> QED
      BY <1>2, <3>2, TextsGrow DEF PrintInv
  <2> QED
    BY <1>1, <1>2, <1>3, <1>4, <2>1, <2>2 DEF SymbolsInv, PrintInv
<1>6. CASE printed' = <<>> /\ (index' # 0 => index' = 2 /\ reporting' # Empty)
  <2>1. /\ Len(reporting'.callers) \in Nat
        /\ reporting' # Empty => /\ Len(reporting'.callers) \in Nat \ {0}
                                 /\ Len(reporting'.callstack)
                                      = Len(reporting'.callers) + 1
    BY DEF OriginInv, StacksInv, IsStack, Empty
  <2>2. printed' \in Seq(AnyText(build', objects')) /\ Len(printed') = 0
    BY <1>6
  <2>3. PrintInv'
    BY <1>6, <2>1, <2>2 DEF PrintInv
  <2> QED
    BY <1>3, <1>4, <2>3 DEF SymbolsInv
<1> QED
  BY <1>5, <1>6

\* A line is that of its frame, from the cache or looked up now.
LEMMA PrintStep ==
  ASSUME SymbolsInv, OriginInv', PrintFrame
  PROVE  SymbolsInv'
<1> DEFINE a == reporting.callstack[index]
           k == index - 1
           text == IF build.nosyms THEN SymbolText(NoTrace) ELSE symbol_cache'[a]
<1>1. OriginInv /\ SymbolInv /\ PrintInv /\ TraceInv
  BY DEF SymbolsInv
<1>2. /\ UNCHANGED <<worldVars, loaderVars>>
      /\ build' = build /\ objects' = objects /\ tenants' = tenants
      /\ reporting' = reporting
      /\ index' = IF index < Len(reporting.callstack) THEN index + 1 ELSE 0
  BY DEF PrintFrame, worldVars, loaderVars
<1>3. /\ index # 0 /\ reporting # Empty
      /\ Len(reporting.callers) \in Nat \ {0}
      /\ Len(reporting.callstack) = Len(reporting.callers) + 1
      /\ index \in 2..Len(reporting.callstack)
      /\ Len(printed) = index - 2
  BY <1>1 DEF PrintFrame, PrintInv, OriginInv, StacksInv, IsStack
<1>4. /\ k \in 1..Len(reporting.callers) /\ k + 1 = index /\ Len(printed) + 1 = k
      /\ index \in Nat
  BY <1>3
<1>5. a \in DOMAIN tenants /\ a = reporting.callers[k].returns
  BY <1>1, <1>4, FrameAddress
<1>6. /\ printed' = Append(printed, text)
      /\ IF build.nosyms THEN UNCHANGED cacheVars ELSE addr_to_symbol(a)
  BY DEF PrintFrame
<1> HIDE DEF a, text
<1>7. SymbolInv' /\ TraceInv' /\ text \in TextsAt(a, build, objects, tenants)
  <2>1. CASE build.nosyms
    <3>1. symbol_cache' = symbol_cache /\ trace' = trace
      BY <1>6, <2>1 DEF cacheVars
    <3> QED
      BY <1>1, <1>2, <2>1, <3>1 DEF SymbolInv, TraceInv, TextsAt, text
  <2>2. CASE ~build.nosyms
    BY <1>2, <1>5, <1>6, <2>2, LookupKeeps DEF text
  <2> QED
    BY <2>1, <2>2
<1> DEFINE T == AnyText(build, objects)
<1>8. printed \in Seq(T) /\ text \in T
  BY <1>1, <1>7, TextsAreTexts DEF PrintInv
<1> HIDE DEF T, k
<1>9. /\ printed' \in Seq(T) /\ Len(printed') = k
      /\ \A j \in 1..Len(printed) : printed'[j] = printed[j]
      /\ printed'[k] = text
  <2>1. /\ Append(printed, text) \in Seq(T)
        /\ Len(Append(printed, text)) = Len(printed) + 1
        /\ \A j \in 1..Len(printed) : Append(printed, text)[j] = printed[j]
        /\ Append(printed, text)[Len(printed) + 1] = text
    BY <1>8, AppendProperties
  <2> QED
    BY <1>4, <1>6, <2>1
<1>10. \A j \in 1..k :
         printed'[j] \in TextsAt(reporting.callers[j].returns, build, objects, tenants)
  <2> TAKE j \in 1..k
  <2>1. CASE j = k
    BY <1>5, <1>7, <1>9, <2>1
  <2>2. CASE j # k
    <3>1. j \in 1..Len(printed)
      BY <1>4, <2>2
    <3> QED
      BY <1>1, <1>9, <3>1 DEF PrintInv
  <2> QED
    BY <2>1, <2>2
<1>11. index' # 0 => index' \in 2..Len(reporting.callstack) /\ Len(printed') = index' - 2
  BY <1>2, <1>3, <1>4, <1>9
<1>12. PrintInv'
  <2>1. Len(printed') <= Len(reporting.callers)
    BY <1>4, <1>9
  <2>2. printed' \in Seq(AnyText(build', objects'))
    BY <1>2, <1>9 DEF T
  <2> QED
    BY <1>2, <1>3, <1>9, <1>10, <1>11, <2>1, <2>2 DEF PrintInv
<1> QED
  BY <1>7, <1>12 DEF SymbolsInv

\* Every step keeps the invariant.
LEMMA SymbolsStep == SymbolsInv /\ [Next]_vars => SymbolsInv'
<1> SUFFICES ASSUME SymbolsInv, [Next]_vars PROVE SymbolsInv'
  OBVIOUS
<1>1. OriginInv /\ OriginInv'
  BY OriginStep DEF SymbolsInv
<1>2. ASSUME NEW o \in objects, dlopen(o) PROVE SymbolsInv'
  <2>1. \A a \in DOMAIN tenants : tenants[a] \subseteq tenants'[a]
    BY <1>1, <1>2, DlopenKeeps
  <2>2. /\ UNCHANGED <<worldVars, cacheVars, reportVars>>
        /\ DOMAIN tenants' = DOMAIN tenants
    BY <1>2 DEF dlopen
  <2> QED
    BY <1>1, <2>1, <2>2, QuietStep
<1>3. ASSUME NEW o \in objects, dlclose(o) PROVE SymbolsInv'
  <2>1. UNCHANGED <<worldVars, cacheVars, reportVars, tenants>>
    BY <1>3 DEF dlclose
  <2> QED
    BY <1>1, <2>1, QuietStep
<1>4. CASE RecordCallstack
  <2>1. UNCHANGED <<worldVars, cacheVars, reportVars, tenants>>
    BY <1>4 DEF RecordCallstack, loaderVars
  <2> QED
    BY <1>1, <2>1, QuietStep
<1>5. ASSUME NEW stack, StartReport(stack), UNCHANGED <<worldVars, cacheVars, tenants>>
      PROVE  SymbolsInv'
  <2>1. printed' = <<>> /\ (index' # 0 => index' = 2 /\ reporting' # Empty)
    BY <1>5 DEF StartReport
  <2> QED
    BY <1>1, <1>5, <2>1, QuietStep
<1>6. CASE ReportInvalid
  BY <1>5, <1>6 DEF ReportInvalid, loaderVars
<1>7. CASE ReportLeak
  BY <1>5, <1>7 DEF ReportLeak, loaderVars
<1>8. CASE PrintFrame
  BY <1>1, <1>8, PrintStep
<1>9. CASE UNCHANGED vars
  <2>1. UNCHANGED <<worldVars, cacheVars, reportVars, tenants>>
    BY <1>9 DEF vars, loaderVars
  <2> QED
    BY <1>1, <2>1, QuietStep
<1> QED
  BY <1>2, <1>3, <1>4, <1>6, <1>7, <1>8, <1>9 DEF Next

\* It always holds.
LEMMA SymbolsAlways == Spec => []SymbolsInv
BY SymbolsInit, SymbolsStep, PTL DEF Spec

-----------------------------------------------------------------------------
\* A line that was printed is what a lookup of the caller's object gives.
LEMMA FramesFit == SymbolsInv => FrameIsOfCaller
<1> SUFFICES ASSUME SymbolsInv, NEW k \in Frames
             PROVE  LET caller == reporting.callers[k]
                    IN TextIsOf(printed[k], ObjectOf(caller), caller.site)
  BY DEF FrameIsOfCaller
<1> DEFINE caller == reporting.callers[k]
           a == caller.returns
<1>1. /\ OriginInv /\ PrintInv /\ WorldInv /\ TenantsInv
      /\ build \in Builds /\ objects \in Worlds
  BY DEF SymbolsInv, OriginInv, WorldInv
<1>2. k \in 1..Len(printed) /\ k \in 1..Len(reporting.callers)
  <2>1. k \in DOMAIN printed
    BY DEF Frames
  <2>2. DOMAIN printed = 1..Len(printed) /\ Len(printed) \in Nat
    BY <1>1 DEF PrintInv
  <2>3. Len(reporting.callers) \in Nat
    BY <1>1 DEF OriginInv, StacksInv, IsStack, Empty
  <2> QED
    BY <1>1, <2>1, <2>2, <2>3 DEF PrintInv
<1>3. WasMadeFromObject(caller, objects, tenants) /\ a \in DOMAIN tenants
  <2>1. WasMade(caller, objects, tenants) /\ a \in DOMAIN tenants
    BY <1>1, <1>2, FrameAddress
  <2>2. caller.object # ""
    BY DEF Frames
  <2> HIDE DEF caller
  <2> QED
    BY <1>1, <2>1, <2>2, CallFacts
<1> PICK o \in objects, j \in CallSites :
           caller = Call(o, j) /\ o.name \in tenants[a]
  BY <1>3 DEF WasMadeFromObject
<1>4. caller.object = o.name
  BY <1>1, ObjectFacts
<1>5. ObjectOf(caller) = o
  BY <1>1, <1>4, ObjectsDiffer DEF ObjectOf
<1>6. SoleTenant(a) /\ Intact(build.library, o) /\ Returns(o, caller.site)
  BY <1>5 DEF Frames
<1>7. printed[k] \in TextsAt(a, build, objects, tenants)
  BY <1>1, <1>2 DEF PrintInv
<1>8. CASE printed[k] = SymbolText(NoTrace)
  <2> DEFINE text == SymbolText(NoTrace)
  <2>1. text.name = "" /\ text.file = ""
    BY DEF SymbolText, NoTrace
  <2> HIDE DEF text, caller
  <2>2. TextIsOf(text, o, caller.site)
    BY <2>1 DEF TextIsOf
  <2> QED
    BY <1>5, <1>8, <2>2 DEF text, caller
<1>9. CASE printed[k] # SymbolText(NoTrace)
  <2> PICK p \in objects : /\ p.name \in tenants[a]
                           /\ printed[k] = TextAt(p, a, build)
    BY <1>7, <1>9 DEF TextsAt
  <2>1. p.name = o.name
    BY <1>1, <1>3, <1>6, SoleName
  <2>2. p = o
    BY <1>1, <2>1, ObjectsDiffer
  <2>3. TextIsOf(TextAt(o, a, build), o, caller.site)
    BY <1>1, <1>6, LookupIsRight DEF TextAt
  <2> QED
    BY <1>5, <2>2, <2>3
<1> QED
  BY <1>8, <1>9

(***************************************************************************)
(* log_print_callstack never gives a frame another function's name or      *)
(* line: where no other object was ever mapped, addr_to_symbol's cache and *)
(* the files read are those of the caller, however late the report is.     *)
(***************************************************************************)
THEOREM FrameAlwaysOfCaller == Spec => []FrameIsOfCaller
BY SymbolsAlways, FramesFit, PTL

\* The last lookup, at an address of an object that was loaded, is one of
\* that object alone.
LEMMA TraceIsOfKnown ==
  ASSUME SymbolsInv, NEW o \in Known
  PROVE  /\ o \in objects /\ o.disk = "same"
         /\ {trace.addr, trace.addr - 1} \subseteq {v + o.bias : v \in DOMAIN o.code}
         /\ trace.result = Resolve(build, {o}, trace.addr)
<1> DEFINE set == {p \in objects : p.name \in trace.loaded}
           a == trace.addr
<1>1. /\ o \in objects /\ o.name \in trace.loaded /\ o.disk = "same"
      /\ {a, a - 1} \subseteq {v + o.bias : v \in DOMAIN o.code}
  BY DEF Known
<1>2. objects \in Worlds /\ TraceInv
  BY DEF SymbolsInv, OriginInv, WorldInv
<1>3. a \in Mapped(o) /\ a \in Int
  BY <1>1, <1>2, ObjectFacts
<1>4. /\ \A p, q \in set : p # q => Mapped(p) \cap Mapped(q) = {}
      /\ trace.result = Resolve(build, set, a)
  BY <1>1, <1>2 DEF TraceInv
<1>5. set \in SUBSET objects /\ o \in set
  BY <1>1
<1> HIDE DEF set, a
<1>6. \A p \in set : a \in Mapped(p) => p = o
  BY <1>3, <1>4, <1>5
<1>7. Resolve(build, set, a) = Resolve(build, {o}, a)
  BY <1>2, <1>3, <1>5, <1>6, ResolveReads
<1> QED
  BY <1>1, <1>4, <1>7 DEF a

(***************************************************************************)
(* A lookup of addr_to_symbol misses nothing: it gives the name of every   *)
(* function the symbol tables read have, and the line of every instruction *)
(* that has debug information.                                             *)
(***************************************************************************)
THEOREM NothingIsEverMissed == Spec => []NothingIsMissed
<1>1. SymbolsInv => NothingIsMissed
  <2> SUFFICES ASSUME SymbolsInv, NEW o \in Known
               PROVE  /\ NameIsFound(build, o, trace.addr, trace.result)
                      /\ LineIsFound(build, o, trace.addr, trace.result)
    BY DEF NothingIsMissed
  <2>1. build \in Builds /\ objects \in Worlds
    BY DEF SymbolsInv, OriginInv, WorldInv
  <2> QED
    BY <2>1, TraceIsOfKnown, LookupIsFull
<1> QED
  BY <1>1, SymbolsAlways, PTL

(***************************************************************************)
(* The chain of inlined functions addr_to_symbol is given with a line is,  *)
(* in a build with libbfd, that of the instruction looked up, from the     *)
(* innermost one outwards, whatever the build's way of walking the stack   *)
(* and whichever section holds the instruction.                            *)
(***************************************************************************)
THEOREM BfdChainIsAlwaysExact ==
  Spec => [](build.library = "libbfd" => InlineChainIsExact)
<1>1. SymbolsInv => (build.library = "libbfd" => InlineChainIsExact)
  <2> SUFFICES ASSUME SymbolsInv, build.library = "libbfd", NEW o \in Known
               PROVE  ChainIsExact(build, o, trace.addr, trace.result)
    BY DEF InlineChainIsExact
  <2>1. build \in Builds /\ objects \in Worlds
    BY DEF SymbolsInv, OriginInv, WorldInv
  <2> QED
    BY <2>1, TraceIsOfKnown, LookupIsFull
<1> QED
  BY <1>1, SymbolsAlways, PTL
=============================================================================
