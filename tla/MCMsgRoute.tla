----------------------------- MODULE MCMsgRoute -----------------------------
(* Instances of MsgRoute for TLC: a host class and a guest subclass of it  *)
(* that overrides some of its methods, a class that is neutralized, and,   *)
(* below the host class, a class with a Swift class below it.              *)
EXTENDS MsgRoute, TLC

CONSTANTS
    main, worker,
    view, mine, gone, base, leaf,          \* classes
    draw, value, each, text, make, odd, mute,  \* selectors
    hDraw, gDraw, hValue, gValue, hEach, hText, hOdd, gLeaf,  \* methods
    plain, other                           \* encodings

(* base and mine have a +initialize in guest code, and leaf inherits one.  *)
SuperOfFive == [q \in Classes |-> CASE q \in {mine, base} -> view [] q = leaf -> base [] OTHER -> None]
AboveOfFive == [q \in Classes |->
    CASE q = mine -> {mine, view} [] q = base -> {base, view} [] q = leaf -> {leaf, base, view} [] OTHER -> {q}]
InitOfFive == [q \in Classes |-> CASE q = mine -> mine [] q \in {base, leaf} -> base [] OTHER -> None]

(* draw has one signature; the host's value has another one than most of   *)
(* the declarations xlgen saw; each has a manual handler, text formats,    *)
(* make is variadic; odd has no bridge, and only the host implements it;   *)
(* mute is neutralized.                                                    *)
FindOfView == [s \in Sels |->
    CASE s = draw -> hDraw [] s = value -> hValue [] s = each -> hEach [] s = text -> hText [] s = odd -> hOdd [] OTHER -> None]
FindOfMine == [s \in Sels |->
    CASE s = draw -> gDraw [] s = value -> gValue [] s = each -> hEach [] s = text -> hText [] s = odd -> hOdd [] OTHER -> None]
FindOfLeaf == [FindOfView EXCEPT ![draw] = gLeaf]
FindInClass == [q \in Classes |->
    CASE q = mine -> FindOfMine [] q = leaf -> FindOfLeaf [] OTHER -> FindOfView]
DefinedBy == [i \in GuestImps |-> IF i = gLeaf THEN leaf ELSE mine]
EncOfImp == [i \in Imps |-> IF i \in {hValue, gValue} THEN other ELSE plain]
VotesFor == [q \in Sels |-> [e \in Encs |->
    CASE q \in {make, odd, mute} -> 0
      [] q = value -> IF e = plain THEN 2 ELSE 1
      [] OTHER -> IF e = plain THEN 1 ELSE 0]]
AllDeclared == Sels \X Encs

(* The conditions of MsgRouteProofs: only value makes super a message that *)
(* is not plain, and only a base in Objective-C has a +initialize that is  *)
(* run, but not as a method of a shadow, while one is made.                *)
ASSUME PlainAssumption == value \notin SuperSels <=> SuperIsPlain
ASSUME QuietAssumption == base \in Shadowed <=> QuietBuilds

(* A neutralized class has one answer whatever the selector, leaf is     *)
(* what makes base be met, and of the host class the selectors that mine   *)
(* overrides matter.  What the worker sends meets main in the cache, in a  *)
(* +initialize and at the shadow of leaf.                                  *)
SendsOf == [q \in Threads |->
    IF q = main THEN ({view} \X {draw, value}) \cup ({mine} \X Sels)
                     \cup {<<gone, draw>>, <<base, draw>>, <<leaf, draw>>, <<leaf, make>>}
    ELSE ({view, mine} \X {value}) \cup {<<leaf, draw>>}]

DepthOf == [q \in Threads |-> IF q = main THEN 4 ELSE 2]
=============================================================================
