-------------------------- MODULE MCBlockBridge --------------------------
(* Instances of BlockBridge for TLC: two threads with two or three slots   *)
(* between them; two heap blocks, a global block that one thread or both   *)
(* use, and two wrappers.                                                  *)
EXTENDS BlockBridge, TLC

CONSTANTS t1, t2, s1, s2, s3, h1, h2, g0, w1, w2

OwnerOfThree == s1 :> t1 @@ s2 :> t1 @@ s3 :> t2
OwnerOfEach == s1 :> t1 @@ s3 :> t2

UsedByOne == g0 :> {t1}
UsedByNone == [g \in {} |-> {}]
UsedByBoth == g0 :> {t1, t2}

Symmetry == Permutations({h1, h2}) \cup Permutations({w1, w2})
==========================================================================
