----------------------------- MODULE LiftTables -----------------------------
(***************************************************************************)
(* Lifting code with jump tables (xlate/src/xlate.cpp, Lifter, JumpTables  *)
(* and the loop in main) and finding it again at run time                  *)
(* (runtime/runtime.c, xl_lookup and xl_tail).                             *)
(*                                                                         *)
(* Every function start is lifted.  A switch in lifted code jumps through  *)
(* a table; the targets are recovered by evaluating the jump for each      *)
(* index, and lifted as functions of their own, in which further switches  *)
(* may be found.  The translated program then jumps to whatever the table  *)
(* holds, and ends if no translated code starts there.                     *)
(***************************************************************************)
EXTENDS Orders, Sequences, FiniteSetsExt

CONSTANTS
    Programs,    \* the programs to lift
    MaxEntries,  \* the entries read of a table of unknown size, 4096
    LastSpan     \* the size given to the last function, 0x100000

(* A program has function starts, addresses that cannot be lifted, stubs   *)
(* for functions of other images, and at some addresses a switch: the      *)
(* memory from its table on, the indices the code before it lets through,  *)
(* whether that range check can be evaluated from the index alone, and the *)
(* bound on the index that value analysis knows.                           *)
ASSUME LiftAssumption ==
    /\ MaxEntries \in Nat /\ LastSpan \in Nat
    /\ \A p \in Programs :
           /\ IsFiniteSet(p.starts) /\ p.entry \in p.starts
           /\ \A a \in DOMAIN p.switches :
                  LET s == p.switches[a]
                  IN  /\ s.admits \subseteq 0..(Len(s.mem) - 1)
                      /\ s.guarded \in BOOLEAN
                      /\ s.bound \in Nat /\ \A i \in s.admits : i < s.bound

(* A program that xlate can follow: no address is 0, the entry point can   *)
(* be lifted, and a range check that can be evaluated lets a range through *)
(* ("The domain is contiguous", the comment at xlate.cpp 678).             *)
Address == Nat \ {0}
Followable(p) ==
    /\ p.starts \subseteq Address /\ p.entry \notin p.bad
    /\ IsFiniteSet(DOMAIN p.stubs) /\ DOMAIN p.stubs \subseteq Address
    /\ \A a \in DOMAIN p.switches :
           LET s == p.switches[a]
           IN  /\ s.mem \in Seq(Address)
               /\ s.guarded => \A x, z \in s.admits : x..z \subseteq s.admits

VARIABLES
    prog,
    phase,       \* "lift", then the program runs: "run", "over", "fault"
    functions,   \* Program::functions
    pending, discovered,  \* the worklist of this round and of the next
    lifted,      \* Lifter::functions
    at,          \* the address whose switch is being resolved, or 0
    i, accepted, targets, \* the loop of Resolve
    table,       \* xl_functions: [address, function], by address
    pc, index    \* the running program: its place, the index it switched on

lift == <<functions, pending, discovered, lifted, at, i, accepted, targets>>
vars == <<prog, phase, lift, table, pc, index>>

Switch(a) == prog.switches[a]
(* The address the switch jumps to for index n.                            *)
Target(s, n) == s.mem[n + 1]
HasSwitch(a) == a \in DOMAIN prog.switches

(* JumpTables::Owner and NextFunction, over the original starts.           *)
Owner(a) == IF \E s \in prog.starts : s <= a THEN Max({s \in prog.starts : s <= a}) ELSE a
NextFunction(s) == IF \E t \in prog.starts : t > s THEN Min({t \in prog.starts : t > s}) ELSE s + LastSpan
Inside(a, t) == Owner(a) <= t /\ t < NextFunction(Owner(a))

Limit(s) == Min({MaxEntries, s.bound})
Unbounded(s) == Limit(s) = MaxEntries /\ ~ s.guarded

Init ==
    /\ prog \in Programs
    /\ phase = "lift"
    /\ functions = prog.starts /\ pending = prog.starts /\ discovered = {}
    /\ lifted = {}
    /\ at = 0 /\ i = 0 /\ accepted = FALSE /\ targets = {}
    /\ table = <<>> /\ pc = 0 /\ index = 0

----------------------------------------------------------------------------
(* The loop in main.                                                       *)

LiftNext ==
    LET a == Min(pending)
    IN  /\ phase = "lift" /\ at = 0 /\ pending # {}
        /\ pending' = pending \ {a}
        /\ lifted' = IF a \in prog.bad THEN lifted ELSE lifted \cup {a}
        /\ at' = IF a \notin prog.bad /\ HasSwitch(a) THEN a ELSE 0
        /\ i' = 0 /\ accepted' = FALSE /\ targets' = {}
        /\ UNCHANGED <<prog, phase, functions, discovered, table, pc, index>>

(* JumpTables::Resolve, one index after the other.                         *)

(* Mutant: the range check is ignored.                                     *)
OutsideNever(s) == FALSE

Outside(s) == s.guarded /\ i \notin s.admits

(* Mutant: the loop does not go on.                                        *)
SkipStays ==
    LET s == Switch(at)
    IN  /\ at # 0 /\ i < Limit(s)
        /\ \/ Outside(s) /\ ~ accepted
           \/ /\ ~ Outside(s) /\ i < Len(s.mem)
              /\ ~ Inside(at, Target(s, i)) /\ ~ Unbounded(s)
        /\ i' = i
        /\ UNCHANGED <<prog, phase, functions, pending, discovered, lifted, at, accepted, targets, table, pc, index>>

Skip ==
    LET s == Switch(at)
    IN  /\ at # 0 /\ i < Limit(s)
        /\ \/ Outside(s) /\ ~ accepted
           \/ /\ ~ Outside(s) /\ i < Len(s.mem)
              /\ ~ Inside(at, Target(s, i)) /\ ~ Unbounded(s)
        /\ i' = i + 1
        /\ UNCHANGED <<prog, phase, functions, pending, discovered, lifted, at, accepted, targets, table, pc, index>>

Accept ==
    LET s == Switch(at)
    IN  /\ at # 0 /\ i < Limit(s) /\ ~ Outside(s) /\ i < Len(s.mem)
        /\ Inside(at, Target(s, i))
        /\ targets' = targets \cup {Target(s, i)}
        /\ accepted' = TRUE
        /\ i' = i + 1
        /\ UNCHANGED <<prog, phase, functions, pending, discovered, lifted, at, table, pc, index>>

(* Mutant: an index below the range ends the loop.                         *)
DoneEarly(s) ==
    \/ i >= Limit(s)
    \/ Outside(s)
    \/ ~ Outside(s) /\ i >= Len(s.mem)
    \/ ~ Outside(s) /\ i < Len(s.mem) /\ ~ Inside(at, Target(s, i)) /\ Unbounded(s)

(* The loop ends past the limit, past the range the check lets through, at *)
(* unreadable memory, or where a table of unknown size stops looking like  *)
(* one.                                                                    *)
Done(s) ==
    \/ i >= Limit(s)
    \/ Outside(s) /\ accepted
    \/ ~ Outside(s) /\ i >= Len(s.mem)
    \/ ~ Outside(s) /\ i < Len(s.mem) /\ ~ Inside(at, Target(s, i)) /\ Unbounded(s)

New(ts) == ts \ (functions \cup lifted)

Resolved ==
    /\ at # 0 /\ Done(Switch(at))
    /\ discovered' = discovered \cup New(targets)
    /\ at' = 0
    /\ UNCHANGED <<prog, phase, functions, pending, lifted, i, accepted, targets, table, pc, index>>

NextRound ==
    /\ phase = "lift" /\ at = 0 /\ pending = {} /\ discovered # {}
    /\ functions' = functions \cup discovered
    /\ pending' = discovered /\ discovered' = {}
    /\ UNCHANGED <<prog, phase, lifted, at, i, accepted, targets, table, pc, index>>

(* EmitTables: a stub stands for the function of its target, if that was   *)
(* lifted, whatever was lifted at the stub itself.                         *)
LiftedStubs == {b \in DOMAIN prog.stubs : prog.stubs[b] \in lifted}
Entry(a) == [address |-> a, function |-> IF a \in LiftedStubs THEN prog.stubs[a] ELSE a]

(* The table, by address.                                                  *)
Sorted ==
    LET order == InOrder(lifted \cup LiftedStubs)
    IN  [k \in DOMAIN order |-> Entry(order[k])]

EmitTables ==
    /\ phase = "lift" /\ at = 0 /\ pending = {} /\ discovered = {}
    /\ table' = Sorted
    /\ phase' = "run" /\ pc' = prog.entry
    /\ UNCHANGED <<prog, lift, index>>

----------------------------------------------------------------------------
(* The program at run time.  xl_lookup: the first entry not below address. *)

LowerBound(address) ==
    LET search[w \in (0..Len(table)) \X (0..Len(table))] ==
            LET middle == w[1] + (w[2] - w[1]) \div 2
            IN  CASE w[1] >= w[2] -> w[1]
                  [] w[1] < w[2] /\ table[middle + 1].address < address -> search[<<middle + 1, w[2]>>]
                  [] OTHER -> search[<<w[1], middle>>]
    IN  search[<<0, Len(table)>>]

xl_lookup(address) ==
    LET low == LowerBound(address)
    IN  IF low < Len(table) /\ table[low + 1].address = address THEN table[low + 1].function ELSE 0

(* A jump to an address, by xl_tail or xl_call.                            *)
xl_tail(address) ==
    /\ phase' = IF xl_lookup(address) = 0 THEN "fault" ELSE "run"
    /\ pc' = IF xl_lookup(address) = 0 THEN pc ELSE xl_lookup(address)
    /\ UNCHANGED <<prog, lift, table>>

RunSwitch ==
    /\ phase = "run" /\ HasSwitch(pc)
    /\ \E n \in Switch(pc).admits :
           /\ index' = n
           /\ xl_tail(Target(Switch(pc), n))

(* Code without a switch may call through a stub, or is done.              *)
RunOther ==
    /\ phase = "run" /\ ~ HasSwitch(pc)
    /\ \/ phase' = "over" /\ UNCHANGED <<prog, lift, table, pc, index>>
       \/ \E b \in DOMAIN prog.stubs : xl_tail(b) /\ UNCHANGED index

Lift == LiftNext \/ Skip \/ Accept \/ Resolved \/ NextRound \/ EmitTables
Next == Lift \/ RunSwitch \/ RunOther

Spec == Init /\ [][Next]_vars /\ WF_vars(Lift)

----------------------------------------------------------------------------
(* Properties.                                                             *)

(* A jump of a running program ends it only where xlate could not follow:  *)
(* the target cannot be lifted, or belongs to another function without     *)
(* being its start, the index is past the entries that are read, or the    *)
(* table has no known size and an entry before it leaves the function      *)
(* (xlate.cpp 655-716, the comment at 677-680; runtime.c 320-348).         *)
Unseen(s, n) ==
    \/ Target(s, n) \in prog.bad
    \/ ~ Inside(pc, Target(s, n)) /\ Target(s, n) \notin prog.starts
    \/ n >= MaxEntries
    \/ Unbounded(s) /\ \E m \in 0..n : ~ Inside(pc, Target(s, m))

SwitchLands ==
    phase = "fault" =>
        IF HasSwitch(pc) THEN Unseen(Switch(pc), index)
        ELSE \E b \in DOMAIN prog.stubs : prog.stubs[b] \notin lifted

(* If every switch has a range check that can be evaluated, nothing but    *)
(* function starts and the targets of admitted indices is lifted: memory   *)
(* after the table is not taken for code (677-680).                        *)
OnlyTableTargets ==
    (\A a \in DOMAIN prog.switches : prog.switches[a].guarded) =>
        functions \subseteq prog.starts \cup
            UNION {{Target(prog.switches[a], n) : n \in prog.switches[a].admits} : a \in DOMAIN prog.switches}

(* Lifting ends, however switches lead to each other (1350-1371).          *)
LiftEnds == <>(phase # "lift")
=============================================================================
