------------------------------- MODULE Marshal ------------------------------
(* A call of the guest through a generated bridge: the guest's half packs  *)
(* the arguments into 64-bit slots, the host's half turns them into the    *)
(* host's types (temporaries for what the guest's pointers point to), the  *)
(* host's function runs and may call functions of the guest, and what it   *)
(* left in the temporaries is copied back.                                 *)
(*                                                                         *)
(* Guest memory is a function from addresses to bytes, little-endian, with *)
(* the sizes and offsets of the real ABIs; only a byte has Byte bits.      *)
(* Object pointers stand for what xl_object_in and xl_object_out make of   *)
(* them (ShadowClasses, BlockBridge).                                      *)
EXTENDS CTypes, Widths

CONSTANTS
    Byte,           \* bits in a byte
    Slots,          \* host functions generated for one callback signature: 32
    Programs,       \* what the guest does: its memory and the calls it makes
    Variables,      \* host variables the guest names
    HostInts,       \* values the host's functions write, pass and return
    GuestInts,      \* values the guest's functions return
    GuestWrites,    \* what a guest function may store: [addr, size, value]
    MaxActs         \* bound: how often the host's function writes or calls

VARIABLES
    phase,    \* setup, guest, prep, host, returned; fault, abort, unsupported
    todo,     \* the calls the guest has yet to make
    mem,      \* guest memory
    call,     \* the call in progress, with its bridge and the ABIs of its types
    pack,     \* the packed arguments
    args,     \* the host's arguments: values and temporaries
    acts,     \* what the host's function has done so far
    xl_callback_targets,
    kept,     \* every function the host was given: [pointer, target, value]
    entered,  \* the last entry into a guest function
    result,   \* of the last call: the host's and the packed one
    unposted  \* guest memory before the temporaries were copied back

vars == <<phase, todo, mem, call, pack, args, acts, xl_callback_targets, kept, entered, result, unposted>>

ASSUME MarshalAssumption ==
    /\ HostWords = 2^(4 * Byte) /\ GuestWords = 2^(8 * Byte)
    /\ Slots \in Nat \ {0} /\ MaxActs \in Nat

(***************************************************************************)
(* Numbers and bytes.                                                      *)
(***************************************************************************)
Range2(size) == 2^(Byte * size)
Wrap(x, size, signed) ==
    LET u == x % Range2(size)
    IN  IF signed /\ u >= Range2(size) \div 2 THEN u - Range2(size) ELSE u
Load(m, a, size) == FoldLeft(LAMBDA u, k : u * 2^Byte + m[a + size - k], 0, [k \in 1..size |-> k])
Store(m, a, size, u) ==
    [x \in DOMAIN m |-> IF x \in a..(a + size - 1) THEN (u \div 2^(Byte * (x - a))) % 2^Byte ELSE m[x]]

Bound(size, signed, max) ==
    CASE signed /\ max -> Range2(size) \div 2 - 1
      [] signed /\ ~max -> -(Range2(size) \div 2)
      [] OTHER -> IF max THEN Range2(size) - 1 ELSE 0

(* (float) of a double, ties to even: a float has one bit less.            *)
ToFloat(x) == IF x % 2 = 0 THEN x ELSE IF (x + 1) % 4 = 0 THEN x + 1 ELSE x - 1

ScalarToHost(value, e) ==
    LET t == value.type IN
    CASE value.kind = "Integer" ->
            IF t.host >= t.guest THEN Wrap(e, t.host, t.signed)
            ELSE IF t.signed
            THEN xl_narrow_signed(Wrap(e, 8, TRUE), Bound(t.host, TRUE, FALSE), Bound(t.host, TRUE, TRUE),
                                  Bound(t.guest, TRUE, FALSE), Bound(t.guest, TRUE, TRUE))
            ELSE xl_narrow_unsigned(Wrap(e, 8, FALSE), Bound(t.host, FALSE, TRUE), Bound(t.guest, FALSE, TRUE))
      [] value.kind = "Floating" -> IF t.host < t.guest THEN ToFloat(e) ELSE e
      [] OTHER -> xl_narrow_pointer(Wrap(e, 8, FALSE))

(* As a uint64_t (a double for a floating value).                          *)
ScalarToGuest(value, e) ==
    LET t == value.type IN
    CASE value.kind = "Integer" ->
            Wrap(IF t.host >= t.guest THEN e
                 ELSE IF t.signed
                 THEN xl_widen_signed(e, Bound(t.host, TRUE, FALSE), Bound(t.host, TRUE, TRUE),
                                      Bound(t.guest, TRUE, FALSE), Bound(t.guest, TRUE, TRUE))
                 ELSE xl_widen_unsigned(e, Bound(t.host, FALSE, TRUE), Bound(t.guest, FALSE, TRUE)), 8, FALSE)
      [] value.kind = "Floating" -> e
      [] OTHER -> xl_widen_pointer(e)

(* The guest's half: its own values into the slots of the pack and back.   *)
GuestStore(value, x) == IF value.kind = "Integer" THEN Wrap(x, 8, FALSE) ELSE x
GuestLoad(value, u) == IF value.kind = "Integer" THEN Wrap(u, value.type.guest, value.type.signed) ELSE u

(***************************************************************************)
(* Temporaries. A host argument is a scalar, the fields of a record by     *)
(* host path, cells (one for an out-slot, an array with a terminator), a   *)
(* null pointer or a function pointer.                                     *)
(***************************************************************************)
Null == [form |-> "null"]
Scalar(v) == [form |-> "scalar", value |-> v]
Record(f) == [form |-> "record", fields |-> f]
Cells(s) == [form |-> "cells", cells |-> s]
FunctionPointer(p) == [form |-> "function", pointer |-> p]

GuestSize(value) == IF value.kind = "Pointer" THEN 8 ELSE value.type.guest
Typed(value, u) == IF value.kind = "Integer" THEN Wrap(u, value.type.guest, value.type.signed) ELSE u
LoadGuest(m, a, value) == Typed(value, Load(m, a, GuestSize(value)))

(* A record of the host as a function of the paths of its fields.          *)
to_host(m, base, mirror) ==
    [p \in {f.leaf.host_path : f \in ToSet(mirror)} |->
        LET f == CHOOSE f \in ToSet(mirror) : f.leaf.host_path = p
        IN  ScalarToHost(f.leaf.value, LoadGuest(m, base + f.at, f.leaf.value))]
to_guest(m, base, mirror, h) ==
    FoldLeft(LAMBDA n, f : Store(n, base + f.at, LeafSize(f.leaf), ScalarToGuest(f.leaf.value, h[f.leaf.host_path])),
             m, mirror)

(* CallbackBridge: one pool of host functions per host spelling; a null    *)
(* pointer or a sentinel stays what it is.                                 *)
IsSentinel(target) == target >= GuestWords - Sentinels
(* Mutant: a function that has a slot is not recognized.                   *)
FreeSlotsOnly(t, target) == {s \in 1..Slots : xl_callback_targets[HostSpelling(t)][s] = 0}
FreeSlots(t, target) ==
    {s \in 1..Slots : xl_callback_targets[HostSpelling(t)][s] \in {target, 0}}
CallbackPointer(t, target) ==
    IF IsSentinel(target) THEN <<"raw", target - (GuestWords - HostWords)>>
    ELSE IF target = 0 THEN <<"raw", 0>>
    ELSE <<"slot", HostSpelling(t), Min(FreeSlots(t, target))>>
(* BlockBridge: a host block of its own around the guest's.                *)
BlockPointer(t, target) == IF target = 0 THEN <<"raw", 0>> ELSE <<"block", HostSpelling(t), target>>

HostLoad(value, u) ==
    LET element == value.pointee
        size == GuestSize(element)
        n == pack[value.count]
    IN  CASE value.kind = "Record" -> Record(to_host(u, 0, value.mirror))
          [] value.kind = "Block" -> FunctionPointer(BlockPointer(value.type, u))
          [] value.kind = "Callback" -> FunctionPointer(CallbackPointer(value.type, u))
          [] value.kind \in {"OutSlot", "RecordPointer", "Array"} /\ u = 0 -> Null
          [] value.kind = "OutSlot" /\ u /= 0 -> Cells(<<ScalarToHost(element, LoadGuest(mem, u, element))>>)
          [] value.kind = "RecordPointer" /\ u /= 0 ->
                Record(IF value.writes_back THEN [p \in {f.leaf.host_path : f \in ToSet(value.mirror)} |-> 0]
                       ELSE to_host(mem, u, value.mirror))
          [] value.kind = "Array" /\ u /= 0 ->
                Cells([i \in 1..(n + 1) |->
                        IF i > n THEN 0 ELSE ScalarToHost(element, LoadGuest(mem, u + (i - 1) * size, element))])
          [] OTHER -> Scalar(ScalarToHost(value, u))

(* Mutant: an array of constants is copied back too.                       *)
PostAlways(m, value, u, arg) ==
    LET element == value.pointee
        size == GuestSize(element)
    IN  CASE value.kind = "OutSlot" /\ arg /= Null -> Store(m, u, size, ScalarToGuest(element, arg.cells[1]))
          [] value.kind = "RecordPointer" /\ value.writes_back /\ arg /= Null -> to_guest(m, u, value.mirror, arg.fields)
          [] value.kind = "Array" /\ arg /= Null ->
                FoldLeft(LAMBDA n, i : Store(n, u + (i - 1) * size, size, ScalarToGuest(element, arg.cells[i])),
                         m, [i \in 1..pack[value.count] |-> i])
          [] OTHER -> m
(* The statements behind the call, for one argument.                       *)
Post(m, value, u, arg) ==
    LET element == value.pointee
        size == GuestSize(element)
    IN  CASE value.kind = "OutSlot" /\ arg /= Null -> Store(m, u, size, ScalarToGuest(element, arg.cells[1]))
          [] value.kind = "RecordPointer" /\ value.writes_back /\ arg /= Null -> to_guest(m, u, value.mirror, arg.fields)
          [] value.kind = "Array" /\ value.writes_back /\ arg /= Null ->
                FoldLeft(LAMBDA n, i : Store(n, u + (i - 1) * size, size, ScalarToGuest(element, arg.cells[i])),
                         m, [i \in 1..pack[value.count] |-> i])
          [] OTHER -> m
PostAll(m, params) ==
    FoldLeft(LAMBDA n, i : Post(n, params[i], pack[i], args[i]), m, [i \in DOMAIN pack |-> i])

Faults(arg) ==
    CASE arg.form = "scalar" -> arg.value = Fault
      [] arg.form = "record" -> \E p \in DOMAIN arg.fields : arg.fields[p] = Fault
      [] arg.form = "cells" -> \E i \in DOMAIN arg.cells : arg.cells[i] = Fault
      [] OTHER -> FALSE

(***************************************************************************)
(* For the properties: the scalars of a type that both sides have, by the  *)
(* names of its fields, where each ABI (and not a mirror) puts them.       *)
(***************************************************************************)
RECURSIVE Scalars(_, _, _, _)
Scalars(side, t, path, base) ==
    CASE IsRecord(t) -> UNION {Scalars(side, t[side][i].type, Append(path, t[side][i].name), base + OffsetOf(side, t, i)) :
                                i \in DOMAIN t[side]}
      [] t.tag = "array" -> UNION {Scalars(side, t.of, Append(path, ToString(i)), base + (i - 1) * SizeOf(side, t.of)) :
                                    i \in 1..t.count}
      [] t.tag \in {"void", "incomplete"} -> {}
      [] OTHER -> {[type |-> t, path |-> path, at |-> base]}

ScalarPairs(t) ==
    {[type |-> p[1].type, path |-> p[1].path, guest |-> p[1].at, host |-> p[2].at] :
        p \in {q \in Scalars("guest", t, <<>>, 0) \X Scalars("host", t, <<>>, 0) : q[1].path = q[2].path}}
PointedTo(t) == IF t.tag = "pointer" THEN t.to ELSE t
AbiOf(t) ==
    [size |-> SizeOf("guest", t), host_size |-> SizeOf("host", t),
     scalars |-> IF IsRecord(t) /\ t.name \in OpaqueRecords THEN {} ELSE ScalarPairs(t)]
Abi(decl) == [i \in 1..(Len(decl.params) + 1) |->
                AbiOf(IF i > Len(decl.params) THEN decl.result ELSE PointedTo(decl.params[i].type))]

(***************************************************************************)
(* Steps.                                                                  *)
(***************************************************************************)
(* EmitVariable: a variable of one layout is the host's own; of another    *)
(* layout the guest has a copy, filled when the process starts from a host *)
(* variable that is there.                                                 *)
Copied(v) == ~SameLayout(v.type)
FillVariable(m, v) ==
    LET value == IF IsPointer(v.type) THEN Value("Pointer", v.type) ELSE Classify(v.type, FALSE)
    IN  CASE ~Copied(v) \/ v.host = None -> m
          [] Copied(v) /\ v.host /= None /\ value.kind = "Record" ->
                IF Leaves(v.type, <<>>, <<>>, 0).ok THEN to_guest(m, v.addr, Mirror(v.type), v.host) ELSE m
          [] Copied(v) /\ v.host /= None /\ value.kind \in Plain ->
                Store(m, v.addr, GuestSize(value), ScalarToGuest(value, v.host))
          [] OTHER -> m

Init ==
    /\ phase = "setup"
    /\ \E p \in Programs : todo = p.calls /\ mem = p.memory
    /\ call = None /\ pack = <<>> /\ args = <<>> /\ acts = 0
    /\ xl_callback_targets = [s \in {HostSpelling(t) : t \in ToSet(CallbackTypes)} |-> [i \in 1..Slots |-> 0]]
    /\ kept = {} /\ entered = None /\ result = None /\ unposted = mem

xl_bridge_init_generated ==
    /\ phase = "setup"
    /\ mem' = FoldLeft(FillVariable, mem, Variables)
    /\ phase' = "guest"
    /\ UNCHANGED <<todo, call, pack, args, acts, xl_callback_targets, kept, entered, result, unposted>>

(* A record goes into the pack with its bytes.                             *)
PackField(value, x) ==
    IF value.kind = "Record" THEN [k \in 0..(SizeOf("guest", value.type) - 1) |-> mem[x + k]] ELSE GuestStore(value, x)

GuestCalls ==
    /\ phase = "guest" /\ todo /= <<>>
    /\ LET next == Head(todo)
           bridge == BridgeOf(next.decl)
       IN  /\ call' = [decl |-> next.decl, args |-> next.args, bridge |-> bridge, abi |-> Abi(next.decl)]
           /\ pack' = IF bridge.supported THEN [i \in DOMAIN next.args |-> PackField(bridge.params[i], next.args[i])] ELSE <<>>
           /\ phase' = IF bridge.supported THEN "prep" ELSE "unsupported"
    /\ todo' = Tail(todo)
    /\ args' = <<>> /\ acts' = 0 /\ entered' = None /\ result' = None
    /\ UNCHANGED <<mem, xl_callback_targets, kept, unposted>>

IsFunction(value) == value.kind \in {"Callback", "Block"}
(* xl_callback_slot, of the functions this call passes. The generator      *)
(* looks each argument up by itself; a declaration here has at most one.   *)
Enlisted(params) ==
    LET passed == {i \in DOMAIN params : params[i].kind = "Callback" /\ pack[i] /= 0 /\ ~IsSentinel(pack[i])}
    IN  [s \in DOMAIN xl_callback_targets |-> [n \in 1..Slots |->
            IF \E i \in passed : CallbackPointer(params[i].type, pack[i]) = <<"slot", s, n>>
            THEN pack[CHOOSE i \in passed : TRUE] ELSE xl_callback_targets[s][n]]]
PoolIsFull(params) ==
    \E i \in DOMAIN params : /\ params[i].kind = "Callback" /\ pack[i] /= 0 /\ ~IsSentinel(pack[i])
                             /\ FreeSlots(params[i].type, pack[i]) = {}

Prep ==
    /\ phase = "prep"
    /\ LET params == call.bridge.params
           loaded == [i \in DOMAIN params |-> HostLoad(params[i], pack[i])]
       IN  IF PoolIsFull(params)
           THEN phase' = "abort" /\ UNCHANGED <<args, xl_callback_targets, kept>>
           ELSE IF \E i \in DOMAIN params : Faults(loaded[i])
           THEN phase' = "fault" /\ UNCHANGED <<args, xl_callback_targets, kept>>
           ELSE /\ phase' = "host"
                /\ args' = loaded
                /\ xl_callback_targets' = Enlisted(params)
                /\ kept' = kept \cup {[pointer |-> loaded[i].pointer, target |-> pack[i], value |-> params[i]] :
                                        i \in {j \in DOMAIN params : IsFunction(params[j])}}
    /\ UNCHANGED <<todo, mem, call, pack, acts, entered, result, unposted>>

(* Values the host may have for a type.                                    *)
HostValues(t) ==
    CASE t.tag = "int" -> {v \in HostInts : Bound(t.host, t.signed, FALSE) <= v /\ v <= Bound(t.host, t.signed, TRUE)}
                          \cup {Bound(t.host, t.signed, TRUE)}
      [] t.tag = "float" -> {2}
      [] OTHER -> {0, HostWords - 1}

GuestValues(t) ==
    IF t.tag = "int" THEN {v \in GuestInts : v <= Bound(t.guest, t.signed, TRUE)} ELSE {0, GuestWords - 1}

HostActs == phase = "host" /\ acts < MaxActs /\ acts' = acts + 1
NonConst(i) == call.decl.params[i].type.tag = "pointer" /\ ~call.decl.params[i].type.const

(* How many elements the host's function takes the argument for: the value *)
(* of the parameter that counts them, as the function is documented.       *)
Extent(i) == IF call.decl.params[i].counted = 0 THEN 1 ELSE call.args[call.decl.params[i].counted]

HostWritesCell(i) ==
    /\ HostActs
    /\ NonConst(i) /\ args[i].form = "cells"
    /\ \E c \in DOMAIN args[i].cells \cap 1..Extent(i), v \in HostValues(call.decl.params[i].type.to) :
        args' = [args EXCEPT ![i].cells[c] = v]
    /\ UNCHANGED <<phase, todo, mem, call, pack, xl_callback_targets, kept, entered, result, unposted>>

HostWritesField(i) ==
    /\ HostActs
    /\ NonConst(i) /\ args[i].form = "record"
    /\ \E f \in ToSet(call.bridge.params[i].mirror) : \E v \in HostValues(f.leaf.value.type) :
        args' = [args EXCEPT ![i].fields[f.leaf.host_path] = v]
    /\ UNCHANGED <<phase, todo, mem, call, pack, xl_callback_targets, kept, entered, result, unposted>>

(* Through a pointer that was passed on as it is.                          *)
HostWritesMemory(i) ==
    /\ HostActs
    /\ NonConst(i) /\ args[i].form = "scalar" /\ args[i].value \in DOMAIN mem
    /\ \E u \in {1, 3} : mem' = Store(mem, args[i].value, Max({1, SizeOf("host", call.decl.params[i].type.to)}), u)
    /\ UNCHANGED <<phase, todo, call, pack, args, xl_callback_targets, kept, entered, result, unposted>>

(* CallbackBridge and BlockBridge, the other direction: the host calls a   *)
(* function it holds, during the call that passed it or later. "got" is    *)
(* what the guest's function reads in its argument register.               *)
EnterGuest(k, v) ==
    LET enter == k.value.enter
        function == IF k.pointer[1] = "slot" THEN xl_callback_targets[k.pointer[2]][k.pointer[3]] ELSE k.pointer[3]
        got == GuestLoad(enter.param, ScalarToGuest(enter.param, v))
        void == enter.result.kind = "Void"
    IN  /\ \E r \in (IF void THEN {0} ELSE GuestValues(k.value.type.result)) :
            LET answer == IF void THEN 0 ELSE ScalarToHost(enter.result, GuestStore(enter.result, r))
            IN  /\ entered' = [wanted |-> k, function |-> function, sent |-> v, got |-> got, returned |-> r, answer |-> answer]
                /\ phase' = IF answer = Fault THEN "fault" ELSE phase
        /\ \E w \in GuestWrites : mem' = Store(mem, w.addr, w.size, w.value)

HostCalls(k) ==
    /\ HostActs
    /\ k.pointer[1] /= "raw"
    /\ \E v \in HostValues(k.value.type.param) : EnterGuest(k, v)
    /\ UNCHANGED <<todo, call, pack, args, xl_callback_targets, kept, result, unposted>>

(* HostStore: the result in its slot of the pack, a record with its bytes. *)
HostResults(value) ==
    IF value.kind = "Record" THEN [{f.leaf.host_path : f \in ToSet(value.mirror)} -> {2}] ELSE HostValues(value.type)
HostStore(value, v) ==
    IF value.kind = "Record" THEN to_guest([k \in 0..(SizeOf("guest", value.type) - 1) |-> 0], 0, value.mirror, v)
    ELSE ScalarToGuest(value, v)

HostReturns ==
    /\ phase = "host"
    /\ LET value == call.bridge.result
       IN  \E v \in (IF value.kind = "Void" THEN {0} ELSE HostResults(value)) :
            result' = [host |-> v, pack |-> IF value.kind = "Void" THEN 0 ELSE HostStore(value, v)]
    /\ mem' = PostAll(mem, call.bridge.params)
    /\ unposted' = mem
    /\ phase' = "returned"
    /\ UNCHANGED <<todo, call, pack, args, acts, xl_callback_targets, kept, entered>>

GuestGoesOn ==
    /\ phase = "returned"
    /\ phase' = "guest"
    /\ call' = None /\ pack' = <<>> /\ args' = <<>> /\ entered' = None /\ result' = None /\ acts' = 0
    /\ UNCHANGED <<todo, mem, xl_callback_targets, kept, unposted>>

Next ==
    \/ xl_bridge_init_generated \/ GuestCalls \/ Prep \/ HostReturns \/ GuestGoesOn
    \/ \E i \in DOMAIN args : HostWritesCell(i)
    \/ \E i \in DOMAIN args : HostWritesField(i)
    \/ \E i \in DOMAIN args : HostWritesMemory(i)
    \/ \E k \in kept : HostCalls(k)

Spec == Init /\ [][Next]_vars

(***************************************************************************)
(* Properties.                                                             *)
(***************************************************************************)
Signed(t) == t.tag = "int" /\ t.signed
ReadScalar(m, side, a, t) == Wrap(Load(m, a, SizeOf(side, t)), SizeOf(side, t), Signed(t))

(* A host value that says the same as a guest value; the greatest and the  *)
(* least value of a wider type are the greatest and the least of a         *)
(* narrower one, and the topmost pointers are small negative numbers.      *)
Narrower(t) == t.host < t.guest
Extremes(t) == {b \in BOOLEAN : b \/ t.signed}
Negative(words, p) == IF p >= words - Sentinels THEN p - words ELSE p
Means(t, g, h) ==
    CASE t.tag = "int" /\ Narrower(t) ->
            /\ g = h \/ \E max \in Extremes(t) : g = Bound(t.guest, t.signed, max) /\ h = Bound(t.host, t.signed, max)
            /\ \A max \in Extremes(t) : g = Bound(t.guest, t.signed, max) => h = Bound(t.host, t.signed, max)
      [] t.tag = "float" /\ Narrower(t) -> h \in (g - 1)..(g + 1) /\ h % 2 = 0
      [] t.tag \in {"int", "float"} /\ ~Narrower(t) -> g = h
      [] OTHER -> Negative(GuestWords, g) = Negative(HostWords, h)
(* And the guest value the host's one has to come back as.                 *)
ComesBack(t, g, h) ==
    /\ Means(t, g, h)
    /\ t.tag = "int" /\ Narrower(t) =>
        \A max \in Extremes(t) : h = Bound(t.host, t.signed, max) => g = Bound(t.guest, t.signed, max)
    /\ t.tag = "float" => g = h
Representable(t, g) ==
    CASE t.tag = "int" /\ Narrower(t) ->
            \/ Bound(t.host, t.signed, FALSE) <= g /\ g <= Bound(t.host, t.signed, TRUE)
            \/ \E max \in Extremes(t) : g = Bound(t.guest, t.signed, max)
      [] t.tag \in {"int", "float"} /\ ~(t.tag = "int" /\ Narrower(t)) -> TRUE
      [] OTHER -> g < HostWords \/ g >= GuestWords - Sentinels

(* The scalars an argument leads to, in guest memory m and as the host     *)
(* sees them: in its temporary or, by its own layout, in guest memory.     *)
ParamType(i) == call.decl.params[i].type
Kind(i) == call.bridge.params[i].kind
Elements(i) == IF ParamType(i).tag = "pointer" THEN 1..Extent(i) ELSE {1}
View(m, i, e, s) ==
    LET arg == args[i] IN
    CASE arg.form = "cells" -> IF e \in DOMAIN arg.cells THEN arg.cells[e] ELSE None
      [] arg.form = "record" -> IF s.path \in DOMAIN arg.fields THEN arg.fields[s.path] ELSE None
      [] OTHER -> ReadScalar(m, "host", arg.value + (e - 1) * call.abi[i].host_size + s.host, s.type)
GuestAt(i, e, s) == call.args[i] + (e - 1) * call.abi[i].size + s.guest
Given(m, i) ==
    IF call.args[i] = 0 THEN {}
    ELSE {[type |-> x[2].type, at |-> GuestAt(i, x[1], x[2]), element |-> x[1], scalar |-> x[2],
           guest |-> ReadScalar(m, "guest", GuestAt(i, x[1], x[2]), x[2].type)] : x \in Elements(i) \X call.abi[i].scalars}
Seen(m, i) == {[type |-> g.type, at |-> g.at, guest |-> g.guest, host |-> View(m, i, g.element, g.scalar)] : g \in Given(m, i)}
Indirect(i) == Kind(i) \in {"Record", "RecordPointer", "OutSlot", "Array"} \/ (Kind(i) = "Pointer" /\ ParamType(i).tag = "pointer")

(* An argument arrives: it says the same to the host, the memory it points *)
(* to included, and has as many elements as the host will use; a null      *)
(* pointer, a sentinel and a function stay what they are. A record the     *)
(* host may write to is not copied in (HostLoad).                          *)
Arrives(i) ==
    LET kind == Kind(i)
        t == ParamType(i)
    IN  CASE kind \in {"Callback", "Block"} ->
                \E k \in kept : /\ k.pointer = args[i].pointer /\ k.target = call.args[i]
                                /\ k.pointer[1] = "raw" => Negative(GuestWords, k.target) = Negative(HostWords, k.pointer[2])
          [] Indirect(i) ->
                /\ (call.args[i] = 0) <=> (args[i] \in {Null, Scalar(0)})
                /\ kind = "Pointer" => Means(t, call.args[i], args[i].value)
                /\ (kind = "RecordPointer" /\ ~t.const) \/ \A s \in Seen(mem, i) : Means(s.type, s.guest, s.host)
          [] OTHER -> Means(t, call.args[i], args[i].value)

(* What the narrowing guard is for: the scalars of an argument that reach  *)
(* the host.                                                               *)
Passed(i) ==
    CASE Kind(i) \in {"Record", "OutSlot", "Array"} \/ (Kind(i) = "RecordPointer" /\ ParamType(i).const) -> Given(mem, i)
      [] Kind(i) \in {"Callback", "Block", "RecordPointer"} /\ ~(Kind(i) = "RecordPointer" /\ ParamType(i).const) -> {}
      [] OTHER -> {[type |-> ParamType(i), guest |-> call.args[i]]}

(* Nothing changes its meaning on its way to the host: when the host's     *)
(* function starts, every argument says to it what it says to the guest,   *)
(* and the process ends in the narrowing guard only for a value the host   *)
(* has no equivalent of. The guest's copies of the host's variables say    *)
(* what the host's say, or nothing when the host has none.                 *)
ValuesArrive ==
    /\ phase = "host" /\ acts = 0 => \A i \in DOMAIN args : Arrives(i)
    /\ phase = "fault" /\ entered = None => \E i \in DOMAIN pack : \E s \in Passed(i) : ~Representable(s.type, s.guest)
    /\ phase = "fault" /\ entered /= None => ~Representable(entered.wanted.value.type.result, entered.returned)
    /\ phase /= "setup" =>
        \A v \in ToSet(Variables) : Copied(v) =>
            \A s \in ScalarPairs(v.type) :
                ComesBack(s.type, ReadScalar(mem, "guest", v.addr + s.guest, s.type),
                          IF v.host = None THEN 0 ELSE IF IsRecord(v.type) THEN v.host[s.path] ELSE v.host)

(* What the host's function leaves behind is what the guest finds: every   *)
(* scalar of an argument that is not const says what the host's last one   *)
(* says, the result too, and no other byte of guest memory has changed by  *)
(* copying back.                                                           *)
WritesComeBack ==
    phase = "returned" =>
        LET out == {i \in DOMAIN args : ParamType(i).tag = "pointer" /\ ~ParamType(i).const /\ Indirect(i)}
            back == {i \in out : Kind(i) /= "Pointer"}
            touched == UNION {UNION {s.at..(s.at + SizeOf("guest", s.type) - 1) : s \in Seen(mem, i)} : i \in back}
            t == call.decl.result
        IN  /\ \A i \in out : \A s \in Seen(mem, i) : ComesBack(s.type, s.guest, s.host)
            /\ \A a \in DOMAIN mem \ touched : mem[a] = unposted[a]
            /\ IF t.tag = "struct"
               THEN \A s \in call.abi[Len(call.abi)].scalars :
                        ComesBack(s.type, ReadScalar(result.pack, "guest", s.guest, s.type), result.host[s.path])
               ELSE t = Void \/ ComesBack(t, GuestLoad(call.bridge.result, result.pack), result.host)

(* A function the host was given stays that function: whenever the host    *)
(* calls it, then or later, the guest's function of that call runs, its    *)
(* argument and its result keep their meaning, and one guest function is   *)
(* one host pointer per signature, so that the host can compare them.      *)
CallbackIsTheFunction ==
    /\ entered /= None =>
        LET k == entered.wanted
        IN  /\ entered.function = k.target
            /\ ComesBack(k.value.type.param, entered.got, entered.sent)
            /\ k.value.type.result = Void \/ entered.answer = Fault \/ Means(k.value.type.result, entered.returned, entered.answer)
    /\ \A k, l \in kept : k.value.type = l.value.type => (k.pointer = l.pointer <=> k.target = l.target)
=============================================================================
