------------------------------- MODULE CTypes -------------------------------
(* What xlgen decides from the declarations of the two SDKs: whether a     *)
(* type has one layout on both sides, how an argument of it crosses the    *)
(* bridge (the Kind of a Value), and the mirror of a record the two sides  *)
(* lay out differently.                                                    *)
(*                                                                         *)
(* A C type is a record with a tag; one description stands for the guest's *)
(* and the host's type of the same name, so a scalar has two sizes and a   *)
(* struct the fields of both sides. Sizes and offsets are in bytes.        *)
EXTENDS Integers, Sequences, SequencesExt, FiniteSets, FiniteSetsExt, TLC

CONSTANTS
    None,
    OpaqueRecords,    \* names of records the guest only hands around
    CallbackTypes,    \* function types, in the order the generator meets them
    CountNames        \* parameter names that count the elements of an array

Void == [tag |-> "void"]
Incomplete == [tag |-> "incomplete"]
Object == [tag |-> "object"]
Integer(guest, host, signed) == [tag |-> "int", guest |-> guest, host |-> host, signed |-> signed]
Floating(guest, host) == [tag |-> "float", guest |-> guest, host |-> host]
Pointer(to, const) == [tag |-> "pointer", to |-> to, const |-> const]
ArrayOf(of, count) == [tag |-> "array", of |-> of, count |-> count]
(* A function pointer or a block, from its parameter and result types.     *)
Function(param, result) == [tag |-> "function", param |-> param, result |-> result]
BlockOf(param, result) == [tag |-> "block", param |-> param, result |-> result]
Field(name, type) == [name |-> name, type |-> type, bits |-> FALSE]
StructOf(name, guest, host) ==
    [tag |-> "struct", name |-> name, guest |-> guest, host |-> host]
UnionOf(name, guest, host) ==
    [tag |-> "union", name |-> name, guest |-> guest, host |-> host]

IsRecord(t) == t.tag \in {"struct", "union"}
IsPointer(t) == t.tag \in {"pointer", "function", "block", "object"}

(***************************************************************************)
(* The two ABIs. Nothing is aligned to more than a word on the host.       *)
(***************************************************************************)
Word(side) == IF side = "guest" THEN 8 ELSE 4
AlignUp(n, a) == ((n + a - 1) \div a) * a

RECURSIVE SizeOf(_, _), AlignOf(_, _), OffsetOf(_, _, _)

AlignOf(side, t) ==
    CASE t.tag \in {"int", "float"} -> Min({t[side], Word(side)})
      [] IsPointer(t) -> Word(side)
      [] t.tag = "array" -> AlignOf(side, t.of)
      [] IsRecord(t) -> Max({AlignOf(side, f.type) : f \in ToSet(t[side])})
      [] OTHER -> 1

SizeOf(side, t) ==
    CASE t.tag \in {"int", "float"} -> t[side]
      [] IsPointer(t) -> Word(side)
      [] t.tag = "array" -> t.count * SizeOf(side, t.of)
      [] IsRecord(t) -> AlignUp(Max({OffsetOf(side, t, i) + SizeOf(side, t[side][i].type) : i \in DOMAIN t[side]}),
                                AlignOf(side, t))
      [] OTHER -> 0

OffsetOf(side, t, i) ==
    IF i = 1 \/ t.tag = "union" THEN 0
    ELSE AlignUp(OffsetOf(side, t, i - 1) + SizeOf(side, t[side][i - 1].type), AlignOf(side, t[side][i].type))

(***************************************************************************)
(* SameLayout: memory of this type means the same to both sides.           *)
(***************************************************************************)
RECURSIVE SameLayout(_)
SameLayout(t) ==
    CASE t.tag \in {"void", "incomplete"} -> TRUE
      [] IsPointer(t) -> FALSE
      [] OTHER ->
        /\ SizeOf("guest", t) = SizeOf("host", t)
        /\ AlignOf("guest", t) = AlignOf("host", t)
        /\ t.tag = "array" => SameLayout(t.of)
        /\ IsRecord(t) =>
            /\ Len(t.guest) = Len(t.host)
            /\ \A i \in DOMAIN t.guest :
                /\ OffsetOf("guest", t, i) = OffsetOf("host", t, i)
                /\ SameLayout(t.guest[i].type)

(***************************************************************************)
(* Classify: how a value crosses.                                          *)
(***************************************************************************)
Value(kind, t) ==
    [kind |-> kind, type |-> t, pointee |-> None, count |-> 0, writes_back |-> FALSE, mirror |-> <<>>, enter |-> None]

Plain == {"Integer", "Floating", "Pointer"}

RECURSIVE Classify(_, _)
ClassifyPointer(t, parameter) ==
    LET pointee == Classify(t.to, FALSE) IN
    CASE SameLayout(t.to) -> Value("Pointer", t)
      [] ~SameLayout(t.to) /\ IsRecord(t.to) /\ t.to.name \in OpaqueRecords -> Value("Pointer", t)
      [] OTHER ->
        CASE parameter /\ pointee.kind = "Record" ->
                [Value("RecordPointer", t) EXCEPT !.pointee = pointee, !.writes_back = ~t.const]
          [] parameter /\ ~t.const /\ pointee.kind \in Plain ->
                [Value("OutSlot", t) EXCEPT !.pointee = pointee]
          [] OTHER -> Value("Unsupported", t)
Classify(t, parameter) ==
    CASE t.tag = "void" -> Value("Void", t)
      [] t.tag = "int" -> Value("Integer", t)
      [] t.tag = "float" -> Value("Floating", t)
      [] t.tag = "object" -> Value("Pointer", t)
      [] t.tag = "block" -> Value("Block", t)
      [] t.tag = "function" -> Value("Callback", t)
      [] t.tag = "pointer" -> ClassifyPointer(t, parameter)
      [] t.tag = "struct" -> Value("Record", t)
      [] OTHER -> Value("Unsupported", t)

Supported(value) == value.kind /= "Unsupported"

(***************************************************************************)
(* Leaves: the scalars of a type, field by field on both sides, each with  *)
(* the guest's offset. It stops at a bit-field, a field of another shape   *)
(* or the end of the shorter side, with what it has found; "ok" tells.     *)
(***************************************************************************)
Leaf(t, path, host_path, base) ==
    [path |-> path, host_path |-> host_path, offset |-> base,
     value |-> IF IsPointer(t) THEN Value("Pointer", t) ELSE Classify(t, FALSE)]

RECURSIVE Leaves(_, _, _, _)
LeavesOfField(t, path, host_path, base, found, i) ==
    LET g == t.guest[i]
        h == t.host[i]
        inner == Leaves(g.type, Append(path, g.name), Append(host_path, h.name), base + OffsetOf("guest", t, i))
    IN  IF ~found.ok THEN found
        ELSE IF g.bits THEN [found EXCEPT !.ok = FALSE]
        ELSE [ok |-> inner.ok, out |-> found.out \o inner.out]
LeavesOfElement(t, path, host_path, base, found, i) ==
    LET inner == Leaves(t.of, Append(path, ToString(i)), Append(host_path, ToString(i)),
                        base + (i - 1) * SizeOf("guest", t.of))
    IN  IF found.ok THEN [ok |-> inner.ok, out |-> found.out \o inner.out] ELSE found
Leaves(t, path, host_path, base) ==
    LET nothing == [ok |-> TRUE, out |-> <<>>]
        upto(n) == [i \in 1..n |-> i]
        leaf == Leaf(t, path, host_path, base)
    IN  CASE IsRecord(t) ->
              LET all == FoldLeft(LAMBDA found, i : LeavesOfField(t, path, host_path, base, found, i),
                                  nothing, upto(Min({Len(t.guest), Len(t.host)})))
              IN  [all EXCEPT !.ok = @ /\ Len(t.guest) = Len(t.host)]
          [] t.tag = "array" ->
              FoldLeft(LAMBDA found, i : LeavesOfElement(t, path, host_path, base, found, i), nothing, upto(t.count))
          [] OTHER ->
              IF leaf.value.kind \in Plain THEN [ok |-> TRUE, out |-> <<leaf>>] ELSE [ok |-> FALSE, out |-> <<>>]

(* The bytes a leaf takes in the mirror.                                   *)
LeafSize(leaf) == IF leaf.value.kind = "Pointer" THEN 8 ELSE leaf.value.type.guest

(* Mutant: no padding.                                                     *)
MirrorUnpadded(t) ==
    LET place(mirror, leaf) ==
            [end |-> mirror.end + LeafSize(leaf), fields |-> Append(mirror.fields, [leaf |-> leaf, at |-> mirror.end])]
    IN  FoldLeft(place, [end |-> 0, fields |-> <<>>], Leaves(t, <<>>, <<>>, 0).out).fields
(* Mirror: a packed struct of the leaves with padding in front of one that *)
(* starts later than the last one ended (cursor); "at" is where each one   *)
(* ends up, and "end" where the next one would, which is not the cursor    *)
(* behind a union. Whether Leaves found everything is not asked.           *)
Mirror(t) ==
    LET place(mirror, leaf) ==
            LET at == mirror.end + Max({0, leaf.offset - mirror.cursor})
            IN  [cursor |-> leaf.offset + LeafSize(leaf), end |-> at + LeafSize(leaf),
                 fields |-> Append(mirror.fields, [leaf |-> leaf, at |-> at])]
    IN  FoldLeft(place, [cursor |-> 0, end |-> 0, fields |-> <<>>], Leaves(t, <<>>, <<>>, 0).out).fields

(***************************************************************************)
(* Signatures. A declaration has parameters with a name and a type and a   *)
(* result type.                                                            *)
(***************************************************************************)
(* DetectArrays: a pointer to scalars of two layouts next to an integer    *)
(* with the name of a count is an array of that many; the nearest one      *)
(* counts, the one behind before the one in front.                         *)
Counts(decl, values, i) ==
    {n \in DOMAIN values \ {i} : values[n].kind = "Integer" /\ decl.params[n].name \in CountNames}
Nearest(i, candidates) ==
    LET rank(n) == IF n > i THEN 2 * (n - i) ELSE 2 * (i - n) + 1
    IN  CHOOSE n \in candidates : \A m \in candidates : rank(n) <= rank(m)
DetectArray(decl, values, i) ==
    LET t == decl.params[i].type
        element == Classify(t.to, FALSE)
        counts == Counts(decl, values, i)
    IN  IF t.tag = "pointer" /\ ~SameLayout(t.to) /\ element.kind \in Plain /\ counts /= {}
        THEN [Value("Array", t) EXCEPT !.pointee = element, !.count = Nearest(i, counts), !.writes_back = ~t.const]
        ELSE values[i]
Values(decl) == [i \in DOMAIN decl.params |-> Classify(decl.params[i].type, TRUE)]
DetectArrays(decl) ==
    LET params == [i \in DOMAIN decl.params |-> DetectArray(decl, Values(decl), i)]
        result == Classify(decl.result, FALSE)
    IN  [params |-> params, result |-> result,
         supported |-> /\ \A i \in DOMAIN params : Supported(params[i])
                       /\ Supported(result) /\ result.kind /= "Callback"]

(* What FromFunction says about a block result is overwritten by           *)
(* DetectArrays; FromMethod says it again afterwards.                      *)
FromFunction(decl) == DetectArrays(decl)
FromMethod(decl) ==
    LET signature == DetectArrays(decl)
    IN  [signature EXCEPT !.supported = @ /\ signature.result.kind /= "Block"]
(* A block the host hands to the guest: no arrays, and nothing is refused. *)
FromBlock(decl) == [params |-> Values(decl), result |-> Classify(decl.result, FALSE), supported |-> TRUE]

SignatureOf(decl) ==
    CASE decl.via = "function" -> FromFunction(decl)
      [] decl.via = "method" -> FromMethod(decl)
      [] decl.via = "block" -> FromBlock(decl)

(* The host's spelling of a function or block type: the key of the         *)
(* generator's callbacks_ and blocks_. It is canonical: NSInteger is       *)
(* spelled int there and CGFloat float, so the host's size and sign stand  *)
(* for the name.                                                           *)
HostSpelling(t) ==
    LET scalar(s) == IF s.tag = "int" THEN <<"int", s.host, s.signed>>
                     ELSE IF s.tag = "float" THEN <<"float", s.host, TRUE>> ELSE <<s.tag, Word("host"), FALSE>>
    IN  <<t.tag, scalar(t.param), scalar(t.result)>>

(* What EmitBridge generates for a value: the mirror of its record; for a  *)
(* function or a block how its parameter and its result cross, as the      *)
(* first type met with the same host spelling has them.                    *)
BridgeType(t) ==
    CallbackTypes[Min({i \in DOMAIN CallbackTypes : HostSpelling(CallbackTypes[i]) = HostSpelling(t)})]
Generated(value) ==
    [value EXCEPT
        !.mirror = CASE value.kind = "Record" -> Mirror(value.type)
                     [] value.kind = "RecordPointer" -> Mirror(value.type.to)
                     [] OTHER -> <<>>,
        !.enter = IF value.kind \in {"Callback", "Block"}
                  THEN LET t == BridgeType(value.type)
                       IN  [param |-> Classify(t.param, TRUE), result |-> Classify(t.result, FALSE)]
                  ELSE None]
BridgeOf(decl) ==
    LET signature == SignatureOf(decl)
    IN  [signature EXCEPT !.params = [i \in DOMAIN @ |-> Generated(@[i])], !.result = Generated(@)]
=============================================================================
