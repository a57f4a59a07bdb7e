-------------------------- MODULE LiftTablesProofs --------------------------
(***************************************************************************)
(* Proofs about LiftTables, for every program, however many switches it    *)
(* has and however they lead to each other.                                *)
(***************************************************************************)
EXTENDS LiftTables, DataTheorems, TLAPS

AllGuarded == \A a \in DOMAIN prog.switches : prog.switches[a].guarded

(* The targets of the indices that the range checks let through.           *)
Admitted == UNION {{Target(prog.switches[a], n) : n \in prog.switches[a].admits} : a \in DOMAIN prog.switches}

(* What may be lifted.                                                     *)
Code == prog.starts \cup Admitted

(* Everything on a worklist, lifted or found in the table being read may   *)
(* be lifted, and only addresses with a switch are being resolved.         *)
IInv ==
    /\ prog \in Programs
    /\ at # 0 => HasSwitch(at)
    /\ AllGuarded => functions \subseteq Code /\ pending \subseteq Code /\ discovered \subseteq Code /\ targets \subseteq Code

(* An index that the range check lets through leads to code.               *)
LEMMA AdmittedIsCode ==
    ASSUME NEW a, HasSwitch(a), NEW n, n \in Switch(a).admits
    PROVE  Target(Switch(a), n) \in Code
  BY DEF Code, Admitted, Switch, HasSwitch

LEMMA InitInv == Init => IInv
  BY DEF Init, IInv, Code

LEMMA AcceptInv ==
    ASSUME IInv, Accept
    PROVE  IInv'
  <1>0. prog' = prog /\ at' = at /\ functions' = functions /\ pending' = pending /\ discovered' = discovered
    BY DEF Accept
  <1>1. targets' = targets \cup {Target(Switch(at), i)} /\ ~ Outside(Switch(at)) /\ HasSwitch(at)
    BY DEF Accept, IInv
  <1>2. AllGuarded => i \in Switch(at).admits
    BY <1>1 DEF Outside, AllGuarded, Switch, HasSwitch
  <1>3. AllGuarded => Target(Switch(at), i) \in Code
    BY <1>1, <1>2, AdmittedIsCode
  <1>4. AllGuarded' = AllGuarded /\ Code' = Code /\ HasSwitch(at)' = HasSwitch(at)
    BY <1>0 DEF AllGuarded, Code, Admitted, HasSwitch
  <1> QED
    BY <1>0, <1>1, <1>3, <1>4 DEF IInv

LEMMA NextInv == IInv /\ [Next]_vars => IInv'
  <1> SUFFICES ASSUME IInv, [Next]_vars PROVE IInv'
    OBVIOUS
  <1>1. prog' = prog
    BY DEF Next, Lift, LiftNext, Skip, Accept, Resolved, NextRound, EmitTables, RunSwitch, RunOther, xl_tail, vars
  <1>2. AllGuarded' = AllGuarded /\ Code' = Code /\ \A a : HasSwitch(a)' = HasSwitch(a)
    BY <1>1 DEF AllGuarded, Code, Admitted, HasSwitch
  <1>3. CASE LiftNext
    <2>1. /\ functions' = functions /\ discovered' = discovered /\ pending' \subseteq pending /\ targets' = {}
          /\ at' # 0 => HasSwitch(at')
      BY <1>3 DEF LiftNext
    <2> QED
      BY <1>1, <1>2, <2>1 DEF IInv, HasSwitch
  <1>4. CASE Accept
    BY <1>4, AcceptInv
  <1>5. CASE Resolved
    <2>1. /\ functions' = functions /\ pending' = pending /\ targets' = targets /\ at' = 0
          /\ discovered' \subseteq discovered \cup targets
      BY <1>5 DEF Resolved, New
    <2> QED
      BY <1>1, <1>2, <2>1 DEF IInv
  <1>6. CASE NextRound
    <2>1. /\ functions' = functions \cup discovered /\ pending' = discovered /\ discovered' = {} /\ targets' = targets
          /\ at' = at
      BY <1>6 DEF NextRound
    <2> QED
      BY <1>1, <1>2, <2>1 DEF IInv, HasSwitch
  <1>7. CASE UNCHANGED <<functions, pending, discovered, targets, at>>
    BY <1>1, <1>2, <1>7 DEF IInv, HasSwitch
  <1> QED
    BY <1>3, <1>4, <1>5, <1>6, <1>7
       DEF Next, Lift, Skip, EmitTables, RunSwitch, RunOther, xl_tail, vars, lift

(* If every range check can be evaluated, only function starts and targets *)
(* of admitted indices are lifted: memory after a table is not taken for   *)
(* code, however many rounds of switches are found (xlate.cpp 677-680).    *)
THEOREM OnlyTableTargetsHolds == Spec => []OnlyTableTargets
  <1>1. Init => IInv
    BY InitInv
  <1>2. IInv /\ [Next]_vars => IInv'
    BY NextInv
  <1>3. IInv => OnlyTableTargets
    BY DEF IInv, OnlyTableTargets, AllGuarded, Code, Admitted
  <1> QED
    BY <1>1, <1>2, <1>3, PTL DEF Spec

-----------------------------------------------------------------------------
(* Jumps land on lifted code.                                              *)
LEMMA MinIsLeast ==
    ASSUME NEW T \in SUBSET Nat, T # {}
    PROVE  Min(T) \in T /\ \A y \in T : Min(T) <= y
  BY Least DEF Min

(* xl_lookup's loop: what it makes of a range, from what it makes of its   *)
(* halves.                                                                 *)
Ranges == (0..Len(table)) \X (0..Len(table))
Middle(w) == w[1] + (w[2] - w[1]) \div 2
Halve(f, address, w) ==
    CASE w[1] >= w[2] -> w[1]
      [] w[1] < w[2] /\ table[Middle(w) + 1].address < address -> f[<<Middle(w) + 1, w[2]>>]
      [] OTHER -> f[<<w[1], Middle(w)>>]

(* The entries up to the first L are the ones below the address.           *)
Below(L, address) ==
    /\ Len(table) \in Nat /\ L \in 0..Len(table)
    /\ \A k \in 1..Len(table) : table[k].address < address <=> k <= L

(* The end of the search of a range.                                       *)
Clamp(low, high, L) == IF low >= high \/ L <= low THEN low ELSE IF L >= high THEN high ELSE L

LEMMA Halves ==
    ASSUME NEW L, NEW address, Below(L, address), NEW w \in Ranges, w[1] < w[2]
    PROVE  /\ Middle(w) \in Nat /\ w[1] <= Middle(w) /\ Middle(w) < w[2]
           /\ <<Middle(w) + 1, w[2]>> \in Ranges /\ <<w[1], Middle(w)>> \in Ranges
           /\ table[Middle(w) + 1].address < address <=> Middle(w) + 1 <= L
  <1>1. w[1] \in 0..Len(table) /\ w[2] \in 0..Len(table) /\ Len(table) \in Nat
    BY DEF Ranges, Below
  <1>2. Middle(w) \in Nat /\ w[1] <= Middle(w) /\ Middle(w) < w[2]
    BY <1>1 DEF Middle
  <1>3. Middle(w) + 1 \in 1..Len(table)
    BY <1>1, <1>2
  <1>4. table[Middle(w) + 1].address < address <=> Middle(w) + 1 <= L
    BY <1>3 DEF Below
  <1> QED
    BY <1>1, <1>2, <1>3, <1>4 DEF Ranges

(* The search is well defined.                                             *)
LEMMA SearchExists ==
    ASSUME NEW L, NEW address, Below(L, address)
    PROVE  \E f : f = [w \in Ranges |-> Halve(f, address, w)]
  <1> DEFINE h == [w \in Ranges |-> Clamp(w[1], w[2], L)]
  <1>1. ASSUME NEW w \in Ranges PROVE Clamp(w[1], w[2], L) = Halve(h, address, w)
    <2>1. w[1] \in Nat /\ w[2] \in Nat /\ L \in Nat
      BY DEF Ranges, Below
    <2>2. \A v \in Ranges : h[v] = Clamp(v[1], v[2], L)
      OBVIOUS
    <2> HIDE DEF h
    <2>3. CASE w[1] >= w[2]
      BY <2>1, <2>3 DEF Halve, Clamp
    <2>4. CASE w[1] < w[2]
      <3> DEFINE m == Middle(w)
      <3>1. /\ m \in Nat /\ w[1] <= m /\ m < w[2]
            /\ <<m + 1, w[2]>> \in Ranges /\ <<w[1], m>> \in Ranges
            /\ table[m + 1].address < address <=> m + 1 <= L
        BY <2>4, Halves
      <3>2. Halve(h, address, w) = IF m + 1 <= L THEN h[<<m + 1, w[2]>>] ELSE h[<<w[1], m>>]
        BY <2>1, <2>4, <3>1 DEF Halve
      <3> HIDE DEF m
      <3>3. h[<<m + 1, w[2]>>] = Clamp(m + 1, w[2], L) /\ h[<<w[1], m>>] = Clamp(w[1], m, L)
        BY <2>2, <3>1
      <3> QED
        BY <2>1, <2>4, <3>1, <3>2, <3>3 DEF Clamp
    <2> QED
      BY <2>1, <2>3, <2>4
  <1>2. h = [w \in Ranges |-> Halve(h, address, w)]
    BY <1>1
  <1> QED
    BY <1>2

LEMMA LowerBoundIsBelow ==
    ASSUME NEW L, NEW address, Below(L, address)
    PROVE  LowerBound(address) = L
  <1> DEFINE f == CHOOSE f : f = [w \in Ranges |-> Halve(f, address, w)]
             N == Len(table)
  <1>1. LowerBound(address) = f[<<0, N>>]
    BY DEF LowerBound, Halve, Ranges, Middle
  <1>2. f = [w \in Ranges |-> Halve(f, address, w)]
    BY SearchExists
  <1> HIDE DEF f
  <1>3. \A w \in Ranges : f[w] = Halve(f, address, w)
    BY <1>2
  <1>4. N \in Nat /\ L \in 0..N
    BY DEF Below
  <1> DEFINE Wrong(w) == w[1] <= L /\ L <= w[2] /\ f[w] # L
             T == {w[2] - w[1] : w \in {v \in Ranges : Wrong(v)}}
  <1>5. T \in SUBSET Nat
    BY <1>4 DEF Ranges
  <1>6. T = {}
    <2> SUFFICES ASSUME T # {} PROVE FALSE
      OBVIOUS
    <2>1. PICK n \in T : \A m \in T : n <= m
      <3> HIDE DEF T
      <3> QED
        BY <1>5, Least
    <2>2. PICK w \in Ranges : Wrong(w) /\ n = w[2] - w[1]
      OBVIOUS
    <2>3. w[1] \in Nat /\ w[2] \in Nat /\ L \in Nat
      BY <1>4 DEF Ranges
    <2>4. \A v \in Ranges : Wrong(v) => n <= v[2] - v[1]
      BY <2>1
    <2> HIDE DEF T
    <2>5. CASE w[1] >= w[2]
      <3>1. Halve(f, address, w) = w[1]
        BY <2>3, <2>5 DEF Halve
      <3> QED
        BY <1>3, <2>2, <2>3, <2>5, <3>1
    <2>6. CASE w[1] < w[2]
      <3> DEFINE m == Middle(w)
                 r == <<m + 1, w[2]>>
                 l == <<w[1], m>>
      <3>1. /\ m \in Nat /\ w[1] <= m /\ m < w[2] /\ r \in Ranges /\ l \in Ranges
            /\ table[m + 1].address < address <=> m + 1 <= L
        BY <2>6, Halves
      <3>2. f[w] = IF m + 1 <= L THEN f[r] ELSE f[l]
        BY <1>3, <2>3, <2>6, <3>1 DEF Halve
      <3> HIDE DEF m
      <3>3. ~ Wrong(r) /\ ~ Wrong(l)
        BY <2>2, <2>3, <2>4, <2>6, <3>1
      <3> QED
        BY <2>2, <2>3, <3>1, <3>2, <3>3
    <2> QED
      BY <2>3, <2>5, <2>6
  <1>7. <<0, N>> \in Ranges
    BY <1>4 DEF Ranges
  <1>8. ~ Wrong(<<0, N>>)
    BY <1>6, <1>7
  <1> QED
    BY <1>1, <1>4, <1>8

(* An index of a switch that xlate cannot follow (see Unseen).             *)
Lost(a, n) ==
    LET s == Switch(a)
    IN  \/ Target(s, n) \in prog.bad
        \/ ~ Inside(a, Target(s, n)) /\ Target(s, n) \notin prog.starts
        \/ n >= MaxEntries
        \/ Unbounded(s) /\ \E m \in 0..n : ~ Inside(a, Target(s, m))

(* What is found and not lifted yet is on a worklist.                      *)
ListsOK ==
    /\ prog \in Programs
    /\ IsFiniteSet(pending) /\ IsFiniteSet(discovered) /\ IsFiniteSet(targets) /\ IsFiniteSet(lifted)
    /\ pending \cup discovered \cup targets \cup lifted \subseteq Address
    /\ prog.starts \subseteq functions /\ functions \subseteq pending \cup lifted \cup prog.bad

(* The loop of Resolve has taken what it could of the indices below i, and *)
(* has entered the range once it has accepted one.                         *)
ReadOK ==
    at # 0 =>
        /\ HasSwitch(at) /\ at \in lifted /\ i \in Nat
        /\ Switch(at).guarded /\ accepted => \E m \in Switch(at).admits : m < i
        /\ \A n \in Switch(at).admits : n < i /\ ~ Lost(at, n) => Target(Switch(at), n) \in targets \cup prog.starts

(* So the targets of switches that are done with are known.                *)
FoundOK ==
    \A a \in lifted \ {at} : HasSwitch(a) =>
        \A n \in Switch(a).admits : ~ Lost(a, n) => Target(Switch(a), n) \in functions \cup discovered \cup lifted

TableOK ==
    /\ Len(table) \in Nat
    /\ \A k \in 1..Len(table) : table[k].address \in Nat /\ table[k].function \in lifted
    /\ \A k, l \in 1..Len(table) : k < l => table[k].address < table[l].address
    /\ \A a \in lifted \cup LiftedStubs : \E k \in 1..Len(table) : table[k].address = a

RunOK ==
    /\ phase # "lift" => at = 0 /\ pending = {} /\ discovered = {} /\ TableOK
    /\ phase = "run" => pc \in lifted

LandInv == ListsOK /\ ReadOK /\ FoundOK /\ RunOK

LEMMA BelowExists ==
    ASSUME TableOK, NEW address \in Nat
    PROVE  \E L : Below(L, address)
  <1> DEFINE N == Len(table)
             T == {k \in 1..(N + 1) : k = N + 1 \/ ~ (table[k].address < address)}
  <1>1. N \in Nat /\ \A k \in 1..N : table[k].address \in Nat
    BY DEF TableOK
  <1>2. T \in SUBSET Nat /\ N + 1 \in T
    BY <1>1
  <1>3. PICK x \in T : \A y \in T : x <= y
    <2> HIDE DEF T
    <2> QED
      BY <1>2, Least
  <1>4. x \in 1..(N + 1) /\ x - 1 \in 0..N
    BY <1>1
  <1>5. ASSUME NEW k \in 1..N, k <= x - 1 PROVE table[k].address < address
    <2>1. k \notin T
      BY <1>1, <1>3, <1>4, <1>5
    <2> QED
      BY <1>1, <2>1
  <1>6. ASSUME NEW k \in 1..N, table[k].address < address PROVE k <= x - 1
    <2>1. CASE x = N + 1
      BY <1>1, <2>1
    <2>2. CASE x # N + 1
      <3>1. x \in 1..N /\ ~ (table[x].address < address)
        BY <1>1, <1>4, <2>2, SMTT(40)
      <3>2. x <= k => table[x].address <= table[k].address
        BY <1>1, <3>1 DEF TableOK
      <3>3. ~ (x <= k)
        BY <1>1, <1>6, <3>1, <3>2
      <3> QED
        BY <1>1, <3>1, <3>3
    <2> QED
      BY <2>1, <2>2
  <1>7. Below(x - 1, address)
    BY <1>1, <1>4, <1>5, <1>6 DEF Below
  <1> QED
    BY <1>7

(* xl_lookup finds every entry, and nothing else.                          *)
LEMMA Lookup ==
    ASSUME TableOK, 0 \notin lifted, NEW address \in Nat
    PROVE  /\ xl_lookup(address) # 0 => xl_lookup(address) \in lifted
           /\ address \in lifted \cup LiftedStubs => xl_lookup(address) # 0
  <1>1. PICK L : Below(L, address)
    BY BelowExists
  <1>2. LowerBound(address) = L
    BY <1>1, LowerBoundIsBelow
  <1>3. Len(table) \in Nat /\ L \in 0..Len(table) /\ \A k \in 1..Len(table) : table[k].address < address <=> k <= L
    BY <1>1 DEF Below
  <1>4. \A k \in 1..Len(table) : table[k].address \in Nat /\ table[k].function \in lifted
    BY DEF TableOK
  <1>5. xl_lookup(address) = IF L < Len(table) /\ table[L + 1].address = address THEN table[L + 1].function ELSE 0
    BY <1>2 DEF xl_lookup
  <1>6. L < Len(table) => L + 1 \in 1..Len(table)
    BY <1>3
  <1>7. xl_lookup(address) # 0 => xl_lookup(address) \in lifted
    BY <1>4, <1>5, <1>6
  <1>8. ASSUME address \in lifted \cup LiftedStubs PROVE xl_lookup(address) # 0
    <2>1. PICK k \in 1..Len(table) : table[k].address = address
      BY <1>8 DEF TableOK
    <2>2. k > L
      BY <1>3, <2>1
    <2>3. L + 1 \in 1..Len(table) /\ L < Len(table)
      BY <1>3, <2>2
    <2>4. ~ (table[L + 1].address < address)
      BY <1>3, <2>3
    <2>5. ~ (L + 1 < k)
      BY <1>4, <2>1, <2>3, <2>4 DEF TableOK
    <2>6. k = L + 1
      BY <1>3, <2>2, <2>5
    <2>7. table[L + 1].function \in lifted
      BY <1>4, <2>3
    <2> QED
      BY <1>5, <2>1, <2>3, <2>6, <2>7
  <1> QED
    BY <1>7, <1>8

Follows == \A p \in Programs : Followable(p)

(* A program does not change, and what depends on it only.                 *)
LEMMA SameProgram ==
    ASSUME prog' = prog
    PROVE  \A a : HasSwitch(a)' = HasSwitch(a) /\ Switch(a)' = Switch(a) /\ \A n : Lost(a, n)' = Lost(a, n)
  <1>1. \A a : HasSwitch(a)' = HasSwitch(a) /\ Switch(a)' = Switch(a)
    BY DEF HasSwitch, Switch
  <1>2. \A a, x : Inside(a, x)' = Inside(a, x)
    BY DEF Inside, Owner, NextFunction
  <1> QED
    BY <1>1, <1>2 DEF Lost, Switch

(* What the assumptions say of a switch.                                   *)
LEMMA SwitchFacts ==
    ASSUME Follows, prog \in Programs, NEW a, HasSwitch(a)
    PROVE  /\ Switch(a).admits \subseteq 0..(Len(Switch(a).mem) - 1) /\ Len(Switch(a).mem) \in Nat
           /\ Switch(a).guarded \in BOOLEAN
           /\ Switch(a).bound \in Nat /\ \A n \in Switch(a).admits : n \in Nat /\ n < Switch(a).bound
           /\ \A n \in Nat : n < Len(Switch(a).mem) => Target(Switch(a), n) \in Address
           /\ Switch(a).guarded => \A x, z \in Switch(a).admits : x..z \subseteq Switch(a).admits
  <1> DEFINE s == Switch(a)
  <1>1. a \in DOMAIN prog.switches /\ s = prog.switches[a]
    BY DEF HasSwitch, Switch
  <1>2. s.admits \subseteq 0..(Len(s.mem) - 1) /\ s.guarded \in BOOLEAN /\ s.bound \in Nat /\ \A n \in s.admits : n < s.bound
    BY <1>1, LiftAssumption
  <1>3. s.mem \in Seq(Address) /\ (s.guarded => \A x, z \in s.admits : x..z \subseteq s.admits)
    BY <1>1 DEF Follows, Followable
  <1> HIDE DEF s
  <1>4. Len(s.mem) \in Nat /\ \A k \in 1..Len(s.mem) : s.mem[k] \in Address
    BY <1>3
  <1>5. \A n \in Nat : n < Len(s.mem) => s.mem[n + 1] \in Address
    BY <1>4
  <1>6. \A n \in s.admits : n \in Nat
    BY <1>2, <1>4
  <1> QED
    BY <1>2, <1>3, <1>4, <1>5, <1>6 DEF s, Target

(* It is enough to look at a switch of the unchanged program.              *)
LEMMA FoundNext ==
    ASSUME prog' = prog,
           \A b \in lifted' \ {at'} : HasSwitch(b) => \A n \in Switch(b).admits : ~ Lost(b, n) =>
               Target(Switch(b), n) \in functions' \cup discovered' \cup lifted'
    PROVE  FoundOK'
  <1>1. \A b : HasSwitch(b)' = HasSwitch(b) /\ Switch(b)' = Switch(b) /\ \A n : Lost(b, n)' = Lost(b, n)
    BY SameProgram
  <1>2. \A b, n : Target(Switch(b), n)' = Target(Switch(b), n)
    BY DEF Switch, Target
  <1> HIDE DEF HasSwitch, Switch, Lost, Target
  <1> QED
    BY <1>1, <1>2, Zenon DEF FoundOK

LEMMA LandInit ==
    ASSUME Follows, Init
    PROVE  LandInv
  <1>1. /\ prog \in Programs /\ phase = "lift" /\ functions = prog.starts /\ pending = prog.starts
        /\ discovered = {} /\ lifted = {} /\ at = 0 /\ targets = {}
    BY DEF Init
  <1>2. IsFiniteSet(prog.starts) /\ prog.starts \subseteq Address
    BY <1>1, LiftAssumption DEF Follows, Followable
  <1>3. IsFiniteSet({})
    BY FS_EmptySet
  <1> QED
    BY <1>1, <1>2, <1>3 DEF LandInv, ListsOK, ReadOK, FoundOK, RunOK

LEMMA LiftNextLand ==
    ASSUME Follows, LandInv, LiftNext
    PROVE  LandInv'
  <1> DEFINE a == Min(pending)
  <1>1. /\ phase = "lift" /\ at = 0 /\ pending # {} /\ pending' = pending \ {a}
        /\ lifted' = (IF a \in prog.bad THEN lifted ELSE lifted \cup {a})
        /\ at' = (IF a \notin prog.bad /\ HasSwitch(a) THEN a ELSE 0)
        /\ i' = 0 /\ accepted' = FALSE /\ targets' = {}
        /\ UNCHANGED <<prog, phase, functions, discovered, table, pc, index>>
    BY DEF LiftNext
  <1>2. pending \in SUBSET Nat /\ pending \subseteq Address
    BY DEF LandInv, ListsOK, Address
  <1>3. a \in pending
    BY <1>1, <1>2, MinIsLeast
  <1> HIDE DEF a
  <1>4. ListsOK'
    <2>1. IsFiniteSet(pending') /\ IsFiniteSet(lifted') /\ IsFiniteSet(targets') /\ IsFiniteSet(discovered')
      <3>1. IsFiniteSet(pending) /\ IsFiniteSet(lifted) /\ IsFiniteSet(discovered)
        BY DEF LandInv, ListsOK
      <3>2. IsFiniteSet(pending \ {a}) /\ IsFiniteSet(lifted \cup {a}) /\ IsFiniteSet({})
        BY <3>1, FS_RemoveElement, FS_AddElement, FS_EmptySet
      <3> QED
        BY <1>1, <3>1, <3>2
    <2> QED
      BY <1>1, <1>2, <1>3, <2>1 DEF LandInv, ListsOK
  <1>5. \A b : HasSwitch(b)' = HasSwitch(b) /\ Switch(b)' = Switch(b) /\ \A n : Lost(b, n)' = Lost(b, n)
    BY <1>1, SameProgram
  <1>6. ReadOK'
    <2>1. ASSUME at' # 0 PROVE HasSwitch(at') /\ at' \in lifted'
      BY <1>1, <2>1
    <2>2. \A n \in Switch(at').admits : at' # 0 => ~ (n < 0)
      <3>1. prog \in Programs
        BY DEF LandInv, ListsOK
      <3> QED
        BY <2>1, <3>1, SwitchFacts
    <2> QED
      BY <1>1, <1>5, <2>1, <2>2 DEF ReadOK, HasSwitch, Switch
  <1>7. FoundOK'
    <2> SUFFICES ASSUME NEW b \in lifted' \ {at'}, HasSwitch(b), NEW n \in Switch(b).admits, ~ Lost(b, n)
                 PROVE  Target(Switch(b), n) \in functions' \cup discovered' \cup lifted'
      BY <1>1, FoundNext
    <2>1. b = a => a \in prog.bad
      BY <1>1
    <2>2. b \in lifted
      BY <1>1, <2>1
    <2>3. b # at
      BY <1>1, <2>2 DEF LandInv, ListsOK, Address
    <2>4. Target(Switch(b), n) \in functions \cup discovered \cup lifted
      BY <2>2, <2>3 DEF LandInv, FoundOK
    <2> QED
      BY <1>1, <2>4
  <1> QED
    BY <1>1, <1>4, <1>6, <1>7 DEF LandInv, RunOK

(* An index that the loop leaves is one that xlate cannot follow, or is    *)
(* not let through.                                                        *)
LEMMA LoopLeaves ==
    ASSUME Follows, LandInv, at # 0, Done(Switch(at)), NEW n \in Switch(at).admits, ~ Lost(at, n)
    PROVE  Target(Switch(at), n) \in targets \cup prog.starts
  <1> DEFINE s == Switch(at)
  <1>1. HasSwitch(at) /\ i \in Nat /\ prog \in Programs
    BY DEF LandInv, ReadOK, ListsOK
  <1>2. n \in Nat /\ n < s.bound /\ n < Len(s.mem) /\ Len(s.mem) \in Nat /\ s.bound \in Nat
    BY <1>1, SwitchFacts
  <1>3. n < MaxEntries /\ MaxEntries \in Nat
    BY <1>2, LiftAssumption DEF Lost
  <1>4. n < i
    <2>1. CASE i >= Limit(s)
      <3>1. {MaxEntries, s.bound} \in SUBSET Nat /\ {MaxEntries, s.bound} # {}
        BY <1>2, <1>3
      <3>2. Limit(s) \in {MaxEntries, s.bound}
        BY <3>1, MinIsLeast DEF Limit
      <3> QED
        BY <1>1, <1>2, <1>3, <2>1, <3>2
    <2>2. CASE Outside(s) /\ accepted
      <3>1. s.guarded /\ i \notin s.admits
        BY <2>2 DEF Outside
      <3>2. PICK m \in s.admits : m < i
        BY <2>2, <3>1 DEF LandInv, ReadOK
      <3>3. m..n \subseteq s.admits /\ m \in Nat
        BY <1>1, <3>1, SwitchFacts
      <3> QED
        BY <1>1, <1>2, <3>1, <3>2, <3>3
    <2>3. CASE i >= Len(s.mem)
      BY <1>1, <1>2, <2>3
    <2>4. CASE ~ Inside(at, Target(s, i)) /\ Unbounded(s)
      <3>1. i \notin 0..n
        BY <2>4 DEF Lost
      <3> QED
        BY <1>1, <1>2, <3>1
    <2> QED
      BY <2>1, <2>2, <2>3, <2>4 DEF Done
  <1> QED
    BY <1>4 DEF LandInv, ReadOK

LEMMA SkipLand ==
    ASSUME Follows, LandInv, Skip
    PROVE  LandInv'
  <1>1. /\ at # 0 /\ i' = i + 1
        /\ \/ Outside(Switch(at))
           \/ ~ Inside(at, Target(Switch(at), i))
        /\ UNCHANGED <<prog, phase, functions, pending, discovered, lifted, at, accepted, targets, table, pc, index>>
    BY DEF Skip
  <1>2. \A b : HasSwitch(b)' = HasSwitch(b) /\ Switch(b)' = Switch(b) /\ \A n : Lost(b, n)' = Lost(b, n)
    BY <1>1, SameProgram
  <1>3. ListsOK' /\ RunOK'
    BY <1>1 DEF LandInv, ListsOK, RunOK, TableOK, LiftedStubs
  <1>4. FoundOK'
    <2>1. FoundOK
      BY DEF LandInv
    <2> QED
      BY <1>1, <2>1, FoundNext DEF FoundOK
  <1>5. HasSwitch(at) /\ at \in lifted /\ i \in Nat /\ prog \in Programs
    BY <1>1 DEF LandInv, ReadOK, ListsOK
  <1>6. Switch(at).guarded /\ accepted => \E m \in Switch(at).admits : m < i + 1
    <2>1. \A m \in Switch(at).admits : m \in Nat
      BY <1>5, SwitchFacts
    <2> QED
      BY <1>1, <1>5, <2>1 DEF LandInv, ReadOK
  <1>7. ASSUME NEW n \in Switch(at).admits, n < i + 1, ~ Lost(at, n)
        PROVE  Target(Switch(at), n) \in targets \cup prog.starts
    <2>1. n \in Nat
      BY <1>5, SwitchFacts
    <2>2. CASE n < i
      BY <1>1, <1>7, <2>2 DEF LandInv, ReadOK
    <2>3. CASE n = i
      BY <1>1, <1>7, <2>3 DEF Outside, Lost
    <2> QED
      BY <1>5, <1>7, <2>1, <2>2, <2>3
  <1>8. ReadOK'
    BY <1>1, <1>2, <1>5, <1>6, <1>7 DEF ReadOK, Switch, HasSwitch
  <1> QED
    BY <1>3, <1>4, <1>8 DEF LandInv

LEMMA AcceptLand ==
    ASSUME Follows, LandInv, Accept
    PROVE  LandInv'
  <1> DEFINE x == Target(Switch(at), i)
  <1>1. /\ at # 0 /\ i' = i + 1 /\ ~ Outside(Switch(at)) /\ i < Len(Switch(at).mem)
        /\ targets' = targets \cup {x} /\ accepted' = TRUE
        /\ UNCHANGED <<prog, phase, functions, pending, discovered, lifted, at, table, pc, index>>
    BY DEF Accept
  <1>2. \A b : HasSwitch(b)' = HasSwitch(b) /\ Switch(b)' = Switch(b) /\ \A n : Lost(b, n)' = Lost(b, n)
    BY <1>1, SameProgram
  <1>3. HasSwitch(at) /\ at \in lifted /\ i \in Nat /\ prog \in Programs
    BY <1>1 DEF LandInv, ReadOK, ListsOK
  <1>4. x \in Address
    BY <1>1, <1>3, SwitchFacts
  <1> HIDE DEF x
  <1>5. ListsOK'
    <2>1. IsFiniteSet(targets)
      BY DEF LandInv, ListsOK
    <2>2. IsFiniteSet(targets \cup {x})
      BY <2>1, FS_AddElement
    <2> QED
      BY <1>1, <1>4, <2>2 DEF LandInv, ListsOK
  <1>6. RunOK'
    BY <1>1 DEF LandInv, RunOK, TableOK, LiftedStubs
  <1>7. FoundOK'
    <2>1. FoundOK
      BY DEF LandInv
    <2> QED
      BY <1>1, <2>1, FoundNext DEF FoundOK
  <1>8. Switch(at).guarded => \E m \in Switch(at).admits : m < i + 1
    BY <1>1, <1>3 DEF Outside
  <1>9. ASSUME NEW n \in Switch(at).admits, n < i + 1, ~ Lost(at, n)
        PROVE  Target(Switch(at), n) \in targets' \cup prog.starts
    <2>1. n \in Nat
      BY <1>3, SwitchFacts
    <2>2. CASE n < i
      BY <1>1, <1>9, <2>2 DEF LandInv, ReadOK
    <2>3. CASE n = i
      BY <1>1, <2>3 DEF x
    <2> QED
      BY <1>3, <1>9, <2>1, <2>2, <2>3
  <1>10. ReadOK'
    BY <1>1, <1>2, <1>3, <1>8, <1>9 DEF ReadOK, Switch, HasSwitch
  <1> QED
    BY <1>5, <1>6, <1>7, <1>10 DEF LandInv

LEMMA ResolvedLand ==
    ASSUME Follows, LandInv, Resolved
    PROVE  LandInv'
  <1>1. /\ at # 0 /\ Done(Switch(at)) /\ discovered' = discovered \cup New(targets) /\ at' = 0
        /\ UNCHANGED <<prog, phase, functions, pending, lifted, i, accepted, targets, table, pc, index>>
    BY DEF Resolved
  <1>2. New(targets) \in SUBSET targets /\ targets \subseteq functions \cup lifted \cup discovered'
    BY <1>1 DEF New
  <1>3. ListsOK'
    <2>1. IsFiniteSet(targets) /\ IsFiniteSet(discovered)
      BY DEF LandInv, ListsOK
    <2>2. IsFiniteSet(New(targets))
      BY <1>2, <2>1, FS_Subset
    <2>3. IsFiniteSet(discovered \cup New(targets))
      BY <2>1, <2>2, FS_Union
    <2> QED
      BY <1>1, <1>2, <2>3 DEF LandInv, ListsOK
  <1>4. FoundOK'
    <2> SUFFICES ASSUME NEW b \in lifted, HasSwitch(b), NEW n \in Switch(b).admits, ~ Lost(b, n)
                 PROVE  Target(Switch(b), n) \in functions \cup discovered' \cup lifted
      BY <1>1, FoundNext
    <2>1. CASE b = at
      <3>1. Target(Switch(b), n) \in targets \cup prog.starts
        BY <1>1, <2>1, LoopLeaves
      <3>2. prog.starts \subseteq functions
        BY DEF LandInv, ListsOK
      <3> QED
        BY <1>2, <3>1, <3>2
    <2>2. CASE b # at
      <3>1. Target(Switch(b), n) \in functions \cup discovered \cup lifted
        BY <2>2 DEF LandInv, FoundOK
      <3> QED
        BY <1>1, <3>1
    <2> QED
      BY <2>1, <2>2
  <1>5. ReadOK'
    BY <1>1 DEF ReadOK
  <1>6. phase = "lift"
    BY <1>1 DEF LandInv, RunOK
  <1> QED
    BY <1>1, <1>3, <1>4, <1>5, <1>6 DEF LandInv, RunOK

LEMMA NextRoundLand ==
    ASSUME Follows, LandInv, NextRound
    PROVE  LandInv'
  <1>1. /\ phase = "lift" /\ at = 0 /\ pending = {}
        /\ functions' = functions \cup discovered /\ pending' = discovered /\ discovered' = {}
        /\ UNCHANGED <<prog, phase, lifted, at, i, accepted, targets, table, pc, index>>
    BY DEF NextRound
  <1>2. ListsOK'
    <2>1. IsFiniteSet({})
      BY FS_EmptySet
    <2> QED
      BY <1>1, <2>1 DEF LandInv, ListsOK
  <1>3. FoundOK'
    <2>1. FoundOK
      BY DEF LandInv
    <2> QED
      BY <1>1, <2>1, FoundNext DEF FoundOK
  <1> QED
    BY <1>1, <1>2, <1>3 DEF LandInv, ReadOK, RunOK

LEMMA EmitTablesLand ==
    ASSUME Follows, LandInv, EmitTables
    PROVE  LandInv'
  <1>1. /\ phase = "lift" /\ at = 0 /\ pending = {} /\ discovered = {}
        /\ table' = Sorted /\ phase' = "run" /\ pc' = prog.entry
        /\ UNCHANGED <<prog, functions, pending, discovered, lifted, at, i, accepted, targets, index>>
    BY DEF EmitTables, lift
  <1>2. prog \in Programs /\ lifted \subseteq Address /\ IsFiniteSet(lifted)
    BY DEF LandInv, ListsOK
  <1>3. prog.entry \in lifted
    <2>1. prog.entry \in prog.starts /\ prog.entry \notin prog.bad
      BY <1>2, LiftAssumption DEF Follows, Followable
    <2> QED
      BY <1>1, <2>1 DEF LandInv, ListsOK
  <1>4. LiftedStubs \in SUBSET DOMAIN prog.stubs /\ DOMAIN prog.stubs \subseteq Address /\ IsFiniteSet(DOMAIN prog.stubs)
    BY <1>2 DEF Follows, Followable, LiftedStubs
  <1> DEFINE A == lifted \cup LiftedStubs
             o == InOrder(A)
             n == Cardinality(A)
  <1>5. IsFiniteSet(A) /\ A \in SUBSET Nat
    <2>1. IsFiniteSet(LiftedStubs)
      BY <1>4, FS_Subset
    <2> QED
      BY <1>2, <1>4, <2>1, FS_Union DEF Address
  <1>6. \A a \in A : Entry(a).address = a /\ Entry(a).function \in lifted
    BY DEF Entry, LiftedStubs
  <1>7. Sorted = [k \in DOMAIN o |-> Entry(o[k])]
    BY DEF Sorted
  <1> HIDE DEF A
  <1>8. /\ n \in Nat /\ DOMAIN o = 1..n
        /\ \A k \in 1..n : o[k] \in A
        /\ \A k, l \in 1..n : k < l => o[k] < o[l]
        /\ \A x \in A : \E k \in 1..n : o[k] = x
    BY <1>5, InOrderIsSorted
  <1> HIDE DEF o, n
  <1>9. TableOK'
    <2>1. Len(Sorted) = n /\ n \in Nat
      BY <1>7, <1>8
    <2>2. \A k \in 1..n : Sorted[k].address = o[k] /\ Sorted[k].function \in lifted
      BY <1>6, <1>7, <1>8
    <2>3. \A k \in 1..n : o[k] \in Nat
      BY <1>5, <1>8
    <2>4. (lifted \cup LiftedStubs)' = A /\ lifted' = lifted
      BY <1>1 DEF A, LiftedStubs
    <2>5. \A a \in A : \E k \in 1..n : Sorted[k].address = a
      BY <1>8, <2>2
    <2>6. \A k, l \in 1..n : k < l => Sorted[k].address < Sorted[l].address
      BY <1>8, <2>2
    <2> HIDE DEF Sorted, LiftedStubs
    <2> QED
      BY <1>1, <2>1, <2>2, <2>3, <2>4, <2>5, <2>6 DEF TableOK
  <1>10. ListsOK'
    BY <1>1 DEF LandInv, ListsOK
  <1>11. FoundOK'
    <2>1. FoundOK
      BY DEF LandInv
    <2> QED
      BY <1>1, <2>1, FoundNext DEF FoundOK
  <1>12. ReadOK' /\ RunOK'
    <2>1. at' = 0 /\ pending' = {} /\ discovered' = {} /\ pc' \in lifted'
      BY <1>1, <1>3
    <2> QED
      BY <1>9, <2>1 DEF ReadOK, RunOK
  <1> QED
    BY <1>9, <1>10, <1>11, <1>12 DEF LandInv

(* What the lift leaves stays as it is while the program runs.             *)
LEMMA LiftStays ==
    ASSUME LandInv, UNCHANGED <<prog, lift, table>>, phase # "lift", phase' = "run" => pc' \in lifted
    PROVE  LandInv'
  <1>1. UNCHANGED <<prog, functions, pending, discovered, lifted, at, i, accepted, targets, table>>
    BY DEF lift
  <1>2. ListsOK'
    BY <1>1 DEF LandInv, ListsOK
  <1>3. FoundOK'
    <2>1. FoundOK
      BY DEF LandInv
    <2> QED
      BY <1>1, <2>1, FoundNext DEF FoundOK
  <1>4. at = 0 /\ pending = {} /\ discovered = {} /\ TableOK
    BY DEF LandInv, RunOK
  <1>5. TableOK'
    BY <1>1, <1>4 DEF TableOK, LiftedStubs
  <1>6. ReadOK' /\ RunOK'
    BY <1>1, <1>4, <1>5 DEF ReadOK, RunOK
  <1> QED
    BY <1>2, <1>3, <1>6 DEF LandInv

(* A jump goes on in lifted code, or nothing is lifted for its address.    *)
LEMMA Jump ==
    ASSUME LandInv, phase = "run", NEW address \in Nat, xl_tail(address)
    PROVE  /\ LandInv' /\ phase' \in {"run", "fault"}
           /\ phase' = "fault" => pc' = pc /\ address \notin lifted \cup LiftedStubs
  <1>1. /\ phase' = (IF xl_lookup(address) = 0 THEN "fault" ELSE "run")
        /\ pc' = (IF xl_lookup(address) = 0 THEN pc ELSE xl_lookup(address))
        /\ UNCHANGED <<prog, lift, table>>
    BY DEF xl_tail
  <1>2. TableOK /\ 0 \notin lifted
    BY DEF LandInv, RunOK, ListsOK, Address
  <1>3. /\ xl_lookup(address) # 0 => xl_lookup(address) \in lifted
        /\ address \in lifted \cup LiftedStubs => xl_lookup(address) # 0
    BY <1>2, Lookup
  <1> HIDE DEF xl_lookup
  <1>4. phase' = "run" => pc' \in lifted
    BY <1>1, <1>3
  <1> QED
    BY <1>1, <1>3, <1>4, LiftStays

LEMMA RunSwitchLand ==
    ASSUME Follows, LandInv, RunSwitch
    PROVE  LandInv' /\ SwitchLands'
  <1>1. phase = "run" /\ HasSwitch(pc)
    BY DEF RunSwitch
  <1>2. PICK n \in Switch(pc).admits : index' = n /\ xl_tail(Target(Switch(pc), n))
    BY DEF RunSwitch
  <1>3. prog \in Programs /\ pc \in lifted /\ pc # at /\ pending = {} /\ discovered = {}
    BY <1>1 DEF LandInv, ListsOK, RunOK, Address
  <1>4. Target(Switch(pc), n) \in Nat
    <2>1. n \in Nat /\ n < Len(Switch(pc).mem)
      BY <1>1, <1>3, SwitchFacts
    <2>2. Target(Switch(pc), n) \in Address
      BY <1>1, <1>3, <2>1, SwitchFacts
    <2> QED
      BY <2>2 DEF Address
  <1>5. /\ LandInv' /\ phase' \in {"run", "fault"}
        /\ phase' = "fault" => pc' = pc /\ Target(Switch(pc), n) \notin lifted \cup LiftedStubs
    BY <1>1, <1>2, <1>4, Jump
  <1>6. ASSUME phase' = "fault" PROVE Lost(pc, n)
    <2>1. ~ Lost(pc, n) => Target(Switch(pc), n) \in functions \cup lifted
      BY <1>1, <1>3 DEF LandInv, FoundOK
    <2>2. functions \subseteq lifted \cup prog.bad
      BY <1>3 DEF LandInv, ListsOK
    <2>3. Target(Switch(pc), n) \in prog.bad => Lost(pc, n)
      BY DEF Lost
    <2> QED
      BY <1>5, <1>6, <2>1, <2>2, <2>3
  <1>7. prog' = prog
    BY <1>2 DEF xl_tail
  <1>8. ASSUME phase' = "fault" PROVE SwitchLands'
    <2>1. pc' = pc /\ Lost(pc, n) /\ index' = n
      BY <1>2, <1>5, <1>6, <1>8
    <2>2. Lost(pc, index)' /\ HasSwitch(pc)'
      <3> DEFINE x == pc
      <3>1. Lost(x, n) /\ HasSwitch(x) /\ pc' = x
        BY <1>1, <2>1
      <3> HIDE DEF x
      <3>2. prog'.switches = prog.switches /\ prog'.bad = prog.bad /\ prog'.starts = prog.starts
        BY <1>7
      <3> QED
        BY <1>7, <2>1, <3>1 DEF Lost, HasSwitch, Switch, Inside, Owner, NextFunction
    <2> QED
      BY <2>2 DEF SwitchLands, Lost, Unseen
  <1> QED
    BY <1>5, <1>8 DEF SwitchLands

LEMMA RunOtherLand ==
    ASSUME Follows, LandInv, RunOther
    PROVE  LandInv' /\ SwitchLands'
  <1>1. phase = "run" /\ ~ HasSwitch(pc)
    BY DEF RunOther
  <1>2. CASE phase' = "over" /\ UNCHANGED <<prog, lift, table, pc, index>>
    BY <1>1, <1>2, LiftStays DEF SwitchLands
  <1>3. ASSUME NEW b \in DOMAIN prog.stubs, xl_tail(b) PROVE LandInv' /\ SwitchLands'
    <2>1. b \in Nat
      BY DEF LandInv, ListsOK, Follows, Followable, Address
    <2>2. LandInv' /\ (phase' = "fault" => pc' = pc /\ b \notin LiftedStubs)
      BY <1>1, <1>3, <2>1, Jump
    <2>3. prog' = prog /\ lifted' = lifted
      BY <1>3 DEF xl_tail, lift
    <2>4. phase' = "fault" => ~ HasSwitch(pc)' /\ prog.stubs[b] \notin lifted
      BY <1>1, <2>2, <2>3 DEF HasSwitch, LiftedStubs
    <2> QED
      BY <2>2, <2>3, <2>4 DEF SwitchLands
  <1> QED
    BY <1>2, <1>3 DEF RunOther

(* Each jump of a running program lands on translated code, unless xlate   *)
(* could not have followed it, whatever the tables hold, however switches  *)
(* lead to each other and however many entries the binary search has to    *)
(* go through (xlate.cpp 655-716, 1350-1371; runtime.c 320-348).           *)
THEOREM SwitchLandsHolds ==
    ASSUME Follows
    PROVE  Spec => []SwitchLands
  <1> DEFINE Inv == LandInv /\ SwitchLands
  <1>1. Init => Inv
    BY LandInit DEF Init, SwitchLands
  <1>2. Inv /\ [Next]_vars => Inv'
    <2> SUFFICES ASSUME LandInv, SwitchLands, [Next]_vars PROVE LandInv' /\ SwitchLands'
      OBVIOUS
    <2>1. CASE RunSwitch
      BY <2>1, RunSwitchLand
    <2>2. CASE RunOther
      BY <2>2, RunOtherLand
    <2>3. CASE Lift
      <3>1. LandInv'
        BY <2>3, LiftNextLand, SkipLand, AcceptLand, ResolvedLand, NextRoundLand, EmitTablesLand DEF Lift
      <3>2. phase = "lift" /\ phase' # "fault"
        <4>1. at # 0 => phase = "lift"
          BY DEF LandInv, RunOK
        <4> QED
          BY <2>3, <4>1 DEF Lift, LiftNext, Skip, Accept, Resolved, NextRound, EmitTables
      <3> QED
        BY <3>1, <3>2 DEF SwitchLands
    <2>4. CASE UNCHANGED vars
      <3>1. UNCHANGED <<prog, phase, functions, pending, discovered, lifted, at, i, accepted, targets, table, pc, index>>
        BY <2>4 DEF vars, lift
      <3>2. \A b : HasSwitch(b)' = HasSwitch(b) /\ Switch(b)' = Switch(b) /\ \A n : Lost(b, n)' = Lost(b, n)
        BY <3>1, SameProgram
      <3>3. FoundOK'
        <4>1. FoundOK
          BY DEF LandInv
        <4> QED
          BY <3>1, <4>1, FoundNext DEF FoundOK
      <3>4. ListsOK' /\ RunOK'
        BY <3>1 DEF LandInv, ListsOK, RunOK, TableOK, LiftedStubs
      <3>5. ReadOK'
        BY <3>1, <3>2 DEF LandInv, ReadOK, HasSwitch, Switch
      <3>6. SwitchLands'
        BY <3>1 DEF SwitchLands, HasSwitch, Switch, Unseen, Inside, Owner, NextFunction
      <3> QED
        BY <3>3, <3>4, <3>5, <3>6 DEF LandInv
    <2> QED
      BY <2>1, <2>2, <2>3, <2>4 DEF Next
  <1> QED
    BY <1>1, <1>2, PTL DEF Spec
=============================================================================
