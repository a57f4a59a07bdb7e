--------------------------- MODULE BlockIdentity ---------------------------
(***************************************************************************)
(* What the block bridge promises: every guest block has at most one       *)
(* wrapper at a time, with one reference count.  A wrapper appears with    *)
(* its first reference, references come and go one by one, and it goes     *)
(* away exactly when the last one is given up; it is never found again     *)
(* after that.                                                             *)
(***************************************************************************)
EXTENDS Naturals

CONSTANTS Blocks, Wrappers, None

VARIABLES
    canon,  \* the wrapper of a guest block
    refs    \* the references to it

vars == <<canon, refs>>

Init ==
    /\ canon = [b \in Blocks |-> None]
    /\ refs = [b \in Blocks |-> 0]

Create(b, w) ==
    /\ canon[b] = None
    /\ \A c \in Blocks : canon[c] # w
    /\ canon' = [canon EXCEPT ![b] = w]
    /\ refs' = [refs EXCEPT ![b] = 1]

Acquire(b) ==
    /\ canon[b] # None
    /\ refs' = [refs EXCEPT ![b] = @ + 1]
    /\ UNCHANGED canon

Drop(b) ==
    /\ canon[b] # None
    /\ refs' = [refs EXCEPT ![b] = @ - 1]
    /\ canon' = IF refs[b] = 1 THEN [canon EXCEPT ![b] = None] ELSE canon

Next ==
    \E b \in Blocks :
        \/ \E w \in Wrappers : Create(b, w)
        \/ Acquire(b)
        \/ Drop(b)

Spec == Init /\ [][Next]_vars
============================================================================
