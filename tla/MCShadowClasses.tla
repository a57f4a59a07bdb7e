-------------------------- MODULE MCShadowClasses --------------------------
(* Instances of ShadowClasses for TLC: a class, its subclass, and a class  *)
(* of the Swift runtime's below the first that replaces a stub.            *)
EXTENDS ShadowClasses, TLC

CONSTANTS base, sub, dyn, stub

SuperOfTwo == base :> None @@ sub :> base
SuperOfThree == base :> None @@ sub :> base @@ dyn :> base

(* What +initialize methods message: nothing, the superclass from the      *)
(* subclass, or the subclass from the superclass.                          *)
Nothing == [c \in Classes |-> None]
TouchesMeta == [c \in Classes |-> IF c = sub THEN MetaOf(base) ELSE None]
TouchesSub == [c \in Classes |-> IF c = base THEN ClassOf(sub) ELSE None]

(* The hypothesis under which NoCrash is proved.                           *)
ASSUME ClassesAreRanked == Touch # TouchesSub => Ranked([c \in Classes |-> IF c = base THEN 0 ELSE 1])

StubOfDyn == [q \in Stubs |-> dyn]

Symmetry == Permutations(Hosts)
============================================================================
