----------------------------- MODULE IvarLayout -----------------------------
(***************************************************************************)
(* The instance layout of guest classes whose superclass may be the host's *)
(* (runtime/objc_bridge.m, xl_fix_layouts; xlate/src/objc.cpp, ReadData;   *)
(* xlate/src/xlgen.cpp, the layouts of EmitClasses).                       *)
(*                                                                         *)
(* The guest's metadata holds the offsets of the arm64 build; a host       *)
(* superclass has another size.  At start-up every class in the table is   *)
(* moved up by what its superclass is too large by, superclasses first,    *)
(* from the values recorded at translation time.                           *)
(*                                                                         *)
(* A class of the image is a record                                        *)
(*   super    [kind |-> "import", class |-> a host class],                 *)
(*            [kind |-> "local", class |-> a guest class] or "null"        *)
(*   start, size    of its own part of an instance                         *)
(*   ivars    a sequence of [at, width, known, readonly]: the offset in the   *)
(*            image and the size of the variable, whether the metadata     *)
(*            points to an offset variable, and whether that lies in       *)
(*            memory that cannot be written                                *)
(*   slid     by how much the Objective-C runtime has already moved the    *)
(*            class when the layouts are fixed                             *)
(* Offsets and sizes are counted in words of the host.                     *)
(***************************************************************************)
EXTENDS Integers, Sequences, FiniteSets, SequencesExt

VARIABLES
    classes,    \* the guest's classes, by name
    hostSize,   \* the instance size of every host class; 0 when the host has no such class
    table,      \* xl_class_layouts, in the order of the image
    ro,         \* the start and the size in the class_ro of every class
    offsets,    \* the offset variables of every class
    fixed,      \* xl_fixed_layouts
    calls,      \* the calls of xl_fix_layout that have not returned, outermost first
    next,       \* the index in the table of xl_fix_layouts' loop
    fate        \* "fixing", "done", "abort", or "refused" when the image is not built

layoutVars == <<classes, hostSize, table, ro, offsets, fixed, calls, next, fate>>

(* ReadData: an ivar without an offset variable is read with offset zero.  *)
OffsetValue(ivar) == IF ivar.known THEN ivar.at ELSE 0

(* EmitClasses: what the table says of a class.                            *)
Entry(c) ==
    [super_host |-> IF classes[c].super.kind = "import" THEN {classes[c].super.class} ELSE {},
     super_guest |-> IF classes[c].super.kind = "local" THEN {classes[c].super.class} ELSE {},
     guest_instance_start |-> classes[c].start,
     guest_instance_size |-> classes[c].size,
     ivars |-> [i \in DOMAIN classes[c].ivars |-> OffsetValue(classes[c].ivars[i])]]

(* An ivar below the start of its class: its offset was not read.          *)
LayoutErrors(cs, t) ==
    {c \in Range(t) : \E i \in DOMAIN cs[c].ivars : OffsetValue(cs[c].ivars[i]) < cs[c].start}

(* The image is built from the guest's classes (cs) listed in the order t; *)
(* the runtime may have moved some before main.                            *)
LayoutInit(cs, hs, t) ==
    /\ classes = cs
    /\ hostSize = hs
    /\ table = t
    /\ ro = [c \in Range(t) |-> [start |-> cs[c].start + cs[c].slid, size |-> cs[c].size + cs[c].slid]]
    /\ offsets = [c \in Range(t) |-> [i \in DOMAIN cs[c].ivars |->
                    OffsetValue(cs[c].ivars[i]) + cs[c].slid]]
    /\ fixed = {}
    /\ calls = <<>>
    /\ next = 1
    /\ fate = IF LayoutErrors(cs, t) = {} THEN "fixing" ELSE "refused"

(* What a compiler makes of the guest's classes: the variables of a class  *)
(* lie in its part of an instance, apart from each other, a class without  *)
(* a part above it has the offsets of its variables, and no class is its   *)
(* own superclass.                                                         *)
Compiled(class) ==
    /\ class.start \in Nat /\ class.size \in Nat
    /\ \A i \in DOMAIN class.ivars :
        LET v == class.ivars[i] IN
        /\ v.at \in Nat /\ v.width \in Nat
        /\ class.start <= v.at /\ v.at + v.width <= class.size
        /\ class.start = 0 => v.known
        /\ \A j \in DOMAIN class.ivars \ {i} :
            v.at + v.width <= class.ivars[j].at \/ class.ivars[j].at + class.ivars[j].width <= v.at

Ranked(cs, rank) ==
    \A c, s \in DOMAIN cs : cs[c].super.kind = "local" /\ cs[c].super.class = s => rank[s] < rank[c]

LayoutsOK(cs, hs, t) ==
    /\ t \in Seq(DOMAIN cs) /\ IsFiniteSet(DOMAIN cs)
    /\ \A c \in DOMAIN cs : /\ Compiled(cs[c])
                            /\ cs[c].super.kind = "import" => hs[cs[c].super.class] \in Nat
    /\ \E rank \in [DOMAIN cs -> 0..Cardinality(DOMAIN cs)] : Ranked(cs, rank)

-----------------------------------------------------------------------------
(* xl_fix_layout is entered for a class of the table that was not fixed.   *)
Enter(c) == fixed' = fixed \cup {c} /\ calls' = Append(calls, c)

(* The loop of xl_fix_layouts.                                             *)
xl_fix_layouts ==
    /\ fate = "fixing" /\ calls = <<>>
    /\ IF next <= Len(table)
       THEN /\ next' = next + 1
            /\ IF table[next] \in fixed THEN UNCHANGED <<fixed, calls>> ELSE Enter(table[next])
            /\ UNCHANGED fate
       ELSE fate' = "done" /\ UNCHANGED <<fixed, calls, next>>
    /\ UNCHANGED <<classes, hostSize, table, ro, offsets>>

(* xl_find_layout: the guest superclass, if the table has it.              *)
xl_find_layout(c) == Entry(c).super_guest \cap Range(table)

(* The superclass is fixed first.                                          *)
FixSuper ==
    /\ fate = "fixing" /\ calls # <<>>
    /\ \E s \in xl_find_layout(Last(calls)) \ fixed : Enter(s)
    /\ UNCHANGED <<classes, hostSize, table, ro, offsets, next, fate>>

(* The size the superclass has on the host; a guest superclass that the    *)
(* table does not have counts as empty.                                    *)
SuperSize(c) ==
    LET e == Entry(c) IN
    CASE e.super_guest # {} ->
            IF xl_find_layout(c) = {} THEN 0 ELSE ro[CHOOSE s \in xl_find_layout(c) : TRUE].size
      [] e.super_host # {} /\ (\E h \in e.super_host : hostSize[h] # 0) ->
            hostSize[CHOOSE h \in e.super_host : TRUE]
      [] OTHER -> e.guest_instance_start

(* A mutant of Shift: it is computed from the class as the runtime left    *)
(* it, not from what was recorded at translation time.                     *)
ShiftOfCurrent(c) ==
    LET difference == SuperSize(c) - ro[c].start IN
    IF difference < 0 THEN 0 ELSE difference

(* Variables are only ever moved up.                                       *)
Shift(c) ==
    LET difference == SuperSize(c) - Entry(c).guest_instance_start IN
    IF difference < 0 THEN 0 ELSE difference

(* The class's own part: offsets that change are stored, and one that lies *)
(* in read-only memory ends the process.                                   *)
FixClass ==
    /\ fate = "fixing" /\ calls # <<>>
    /\ LET c == Last(calls)
           e == Entry(c)
           moved == [i \in DOMAIN e.ivars |-> e.ivars[i] + Shift(c)]
           stuck == {i \in DOMAIN moved : classes[c].ivars[i].readonly /\ offsets[c][i] # moved[i]}
       IN  /\ xl_find_layout(c) \subseteq fixed
           /\ IF stuck # {}
              THEN /\ fate' = "abort"
                   /\ offsets' = [offsets EXCEPT ![c] = [i \in DOMAIN moved |->
                                    IF \E j \in stuck : j <= i THEN offsets[c][i] ELSE moved[i]]]
                   /\ UNCHANGED <<ro, calls>>
              ELSE /\ offsets' = [offsets EXCEPT ![c] = moved]
                   /\ ro' = [ro EXCEPT ![c] = [start |-> e.guest_instance_start + Shift(c),
                                               size |-> e.guest_instance_size + Shift(c)]]
                   /\ calls' = Front(calls)
                   /\ UNCHANGED fate
    /\ UNCHANGED <<classes, hostSize, table, fixed, next>>

FixLayouts == xl_fix_layouts \/ FixSuper \/ FixClass

-----------------------------------------------------------------------------
Slot(c, i) == offsets[c][i] .. (offsets[c][i] + classes[c].ivars[i].width - 1)

(* What the superclass's own code takes of an instance.                    *)
BelowOf(c) ==
    CASE classes[c].super.kind = "import" -> hostSize[classes[c].super.class]
      [] classes[c].super.kind = "local" /\ classes[c].super.class \in Range(table) -> ro[classes[c].super.class].size
      [] OTHER -> 0

(* When the layouts are fixed, every variable of every guest class lies    *)
(* inside the instance, above everything its superclass owns and apart     *)
(* from its sisters, wherever its offset is read from; and a class never   *)
(* starts inside its superclass, so the runtime moves nothing afterwards.  *)
IvarsFit ==
    fate = "done" => \A c \in Range(table) :
        /\ ro[c].start >= BelowOf(c)
        /\ \A i \in DOMAIN classes[c].ivars :
            /\ \A w \in Slot(c, i) : w >= BelowOf(c) /\ w < ro[c].size
            /\ \A j \in DOMAIN classes[c].ivars \ {i} : Slot(c, i) \cap Slot(c, j) = {}

=============================================================================
