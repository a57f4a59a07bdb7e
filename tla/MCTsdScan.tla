----------------------------- MODULE MCTsdScan -----------------------------
(* Instances of TsdScan for TLC: a function that reads the base and does   *)
(* three more things, one that it may call, and a last one that does       *)
(* nothing.  x19 is preserved by calls, x0 is not.                         *)
EXTENDS TsdScan

R(op, r) == [op |-> op, reg |-> r]
A(r, o) == [op |-> "access", reg |-> r, off |-> o]
J(op, a) == [op |-> op, target |-> a]
Ret == [op |-> "ret"]

Firsts == {R("mrs", "x0"), R("mrs", "x19")}
Body == {R("mrs", "x19"), R("write", "x19"), R("use", "x19"),
         A("x0", "above"), A("x19", "above"),
         J("branch", 4), J("cond", 2), J("cond", 4), J("call", 6), [op |-> "icall"]}
Lasts == {A("x0", "above"), A("x19", "above"), A("x19", "below"),
          J("cond", 2), J("call", 1), J("call", 6), [op |-> "icall"]}
Callees == {<<A("x19", "above"), Ret>>, <<R("mrs", "x0"), A("x19", "audited")>>}

ThreeFunctions == {<<i, j, k, l, Ret>> \o c \o <<Ret>> : i \in Firsts, j, k \in Body, l \in Lasts, c \in Callees}
StartsOfThree == {1, 6, 8}

(* What TsdScanProofs asks of the programs.                                *)
ASSUME ProgramsAssumption == \A p \in Programs : LastReadsNone(p)
============================================================================
