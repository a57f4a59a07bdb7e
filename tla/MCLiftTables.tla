---------------------------- MODULE MCLiftTables ----------------------------
(* Instances of LiftTables for TLC: a function at 1 with a switch of up to *)
(* four entries, one at 5 with none.  The code at 2, if the first switch   *)
(* finds it, has a switch of its own, back to 1 or on to 4.                *)
EXTENDS LiftTables, TLC

Intervals == {lo..hi : lo, hi \in 0..3} \ {{}}
Mems == {<<a, b, c, d>> : a, b, c \in {2, 3, 5}, d \in {2, 5}}
Seconds == {<<4, 1>>, <<3, 6>>}

Small ==
    {[starts |-> {1, 5}, entry |-> 1, bad |-> b, stubs |-> (9 :> 1 @@ 10 :> 5),
      switches |-> (1 :> [mem |-> m, admits |-> d, guarded |-> g, bound |-> k] @@
                    2 :> [mem |-> n, admits |-> 0..(Len(n) - 1), guarded |-> g, bound |-> 3])] :
        b \in {{}, {3}, {5}}, m \in Mems, d \in Intervals, g \in BOOLEAN, k \in {3, 4}, n \in Seconds}

Instances == {p \in Small : p.switches[1].bound > Max(p.switches[1].admits)}

(* What LiftTablesProofs asks of the programs.                             *)
ASSUME ProgramsAssumption == \A p \in Instances : Followable(p)
=============================================================================
