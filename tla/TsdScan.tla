------------------------------ MODULE TsdScan ------------------------------
(***************************************************************************)
(* The build-time scan for accesses to thread-specific data               *)
(* (xlate/src/tsd_scan.cpp) and the guard pages that back it at run time   *)
(* (runtime/xl_tsd_guard.h).                                               *)
(*                                                                         *)
(* Guest code reads the base of the thread's data with MRS and accesses    *)
(* slots at fixed offsets from it.  One offset is audited.  The scan       *)
(* follows the base through the registers of every function that reads it, *)
(* with a worklist over basic blocks, and from function to function in the *)
(* registers a call preserves; the build is refused if it finds an access  *)
(* to another offset.  A program that is accepted then runs here: below    *)
(* the audited offset a page that cannot be accessed stops it, above it    *)
(* nothing does.                                                           *)
(***************************************************************************)
EXTENDS Orders, Sequences

CONSTANTS
    Regs,
    CalleeSaved,  \* the registers a call preserves, x19-x28
    Programs,     \* the programs to scan: sequences of instructions
    Starts,       \* the function starts
    MaxRounds,    \* the rounds after which the scan gives up, kMaxRounds
    MaxCalls      \* bound on the calls a running program has open

Ops == {"mrs", "write", "access", "use", "branch", "cond", "call", "icall", "ret"}
Offsets == {"below", "audited", "above"}
None == "none"

(* Instruction a of a program is at address a, from 1 on.  An instruction  *)
(* has a register, an offset or a target as its op needs them.             *)
ASSUME TsdAssumption ==
    /\ CalleeSaved \subseteq Regs /\ None \notin Regs
    /\ 1 \in Starts /\ MaxRounds \in Nat /\ MaxCalls \in Nat
    /\ \A p \in Programs :
           /\ Len(p) \in Nat /\ DOMAIN p = 1..Len(p) /\ Starts \subseteq DOMAIN p
           /\ \A a \in DOMAIN p :
                  /\ p[a].op \in Ops
                  /\ p[a].op \in {"mrs", "write", "access", "use"} => p[a].reg \in Regs
                  /\ p[a].op = "access" => p[a].off \in Offsets
                  /\ p[a].op \in {"branch", "cond", "call"} => p[a].target \in DOMAIN p

(* A program whose last function, the one without a range of its own, does *)
(* not read the base.                                                      *)
LastReadsNone(p) == \A a \in DOMAIN p : p[a].op = "mrs" => \E s \in Starts : s > a

VARIABLES
    prog,
    ends,     \* the end of the range each function is scanned over
    phase,    \* "scan", then "refused", or the program runs: "run", "over"
    pending, next,      \* the functions to analyse in this round, the next
    rounds,   \* the rounds begun
    seeds,    \* what callers hand each function in preserved registers
    found,    \* the violations, addresses
    fun,      \* the function being analysed, 0 between analyses
    dir,      \* the fixpoint it computes, "may" or "must"
    in, mayIn,          \* the state entering each block; the may result
    work,     \* the worklist
    calls,    \* the call sites of the function: target, registers tracked
    pc, held, \* the running program: the registers that hold the base
    own,      \* those it read in this activation, no indirect call since
    open      \* its open calls

scan == <<pending, next, rounds, seeds, found, fun, dir, in, mayIn, work, calls>>
machine == <<pc, held, own, open>>
vars == <<prog, ends, phase, scan, machine>>

Size == Len(prog) + 1
Inst(a) == prog[a]

----------------------------------------------------------------------------
(* Functions.  A range ends where the next one starts, which leaves out    *)
(* the last function; the tail of the section is then given to the last    *)
(* function that has a range, which has two and is scanned over either.    *)

NextStart(f) == CHOOSE g \in Starts : g > f /\ \A h \in Starts : h > f => g <= h
Ranged == {f \in Starts : \E g \in Starts : g > f}
LastRanged == {f \in Ranged : \A g \in Ranged : g <= f}
Ends(f, size) == {NextStart(f)} \cup (IF f \in LastRanged THEN {size} ELSE {})

HasMRS(p, f) == \E a \in f..(Len(p)) :
    /\ p[a].op = "mrs"
    /\ \E e \in Ends(f, Len(p) + 1) : a < e

Init ==
    /\ prog \in Programs
    /\ ends \in {e \in [Ranged -> Nat \cap (1..Size)] : \A f \in Ranged : e[f] \in Ends(f, Size)}
    /\ phase = "scan"
    /\ pending = {f \in Ranged : HasMRS(prog, f)} /\ next = {}
    /\ rounds = 1
    /\ seeds = [f \in Starts |-> {}]
    /\ found = {}
    /\ fun = 0 /\ dir = "may" /\ in = <<>> /\ mayIn = <<>> /\ work = <<>> /\ calls = {}
    /\ pc = 0 /\ held = {} /\ own = {} /\ open = <<>>

----------------------------------------------------------------------------
(* The basic blocks of a function (BuildBlocks), named by their leaders.   *)

JumpsTo(i) == IF i.op \in {"branch", "cond", "call"} THEN i.target ELSE 0
Ending == {"branch", "cond", "call", "icall", "ret"}
Leaders(f) ==
    LET range == f..(ends[f] - 1)
        ending == {a \in range : Inst(a).op \in Ending}
    IN  {f} \cup (range \cap UNION {{a + 1, JumpsTo(Inst(a))} : a \in ending})

BlockEnd(f, l) ==
    LET later == {a \in Leaders(f) : a > l}
    IN  IF later = {} THEN ends[f] ELSE CHOOSE a \in later : \A b \in later : a <= b

(* A call falls through; an indirect one has no edge the scan can follow.  *)
Succs(f, l) ==
    LET e == BlockEnd(f, l)
        last == Inst(e - 1)
    IN  {a \in Leaders(f) : a = JumpsTo(last) \/ (a = e /\ last.op \notin {"branch", "icall", "ret"})}

(* The registers that hold the base after an instruction.                  *)
After(i, s) ==
    CASE i.op = "mrs" -> s \cup {i.reg}
      [] i.op = "write" -> s \ {i.reg}
      [] i.op \in {"call", "icall"} -> s \cap CalleeSaved
      [] OTHER -> s

(* The state before each instruction of block l, entered with s.           *)
Before(f, l, s) ==
    LET at[a \in l..BlockEnd(f, l)] == IF a = l THEN s ELSE After(Inst(a - 1), at[a - 1])
    IN  at

Transfer(f, l, s) == Before(f, l, s)[BlockEnd(f, l)]

(* The calls of block l to functions of the image.                         *)
CallSites(f, l, s) ==
    {[target |-> Inst(a).target, tracked |-> Before(f, l, s)[a] \cap CalleeSaved] :
        a \in {b \in l..(BlockEnd(f, l) - 1) : Inst(b).op = "call" /\ Inst(b).target \in Starts}}

----------------------------------------------------------------------------
(* FunctionAnalysis::Run: two fixpoints, then the report.                  *)

(* Mutant: the two joins are exchanged.                                    *)
MergeSwapped(a, b) == IF dir = "may" THEN a \cap b ELSE a \cup b

Merge(a, b) == IF dir = "may" THEN a \cup b ELSE a \cap b

(* All blocks are on the worklist at first, in the order of addresses.     *)
AllBlocks(f) == InOrder(Leaders(f))

StartSolve(f, d) ==
    /\ dir' = d
    /\ in' = [l \in Leaders(f) |-> IF l = f THEN seeds[f] ELSE {}]
    /\ work' = AllBlocks(f)

(* One of the functions of the round; the order is not specified.          *)
BeginFunction(f) ==
    /\ phase = "scan" /\ fun = 0 /\ f \in pending
    /\ fun' = f
    /\ pending' = pending \ {f}
    /\ calls' = {}
    /\ StartSolve(f, "may")
    /\ UNCHANGED <<prog, ends, phase, next, rounds, seeds, found, mayIn, machine>>

(* A successor whose state changes is put on the worklist, the target of a *)
(* jump before what follows it.                                            *)
SolveBlock ==
    LET b == work[Len(work)]
        out == Transfer(fun, b, in[b])
        succs == Succs(fun, b)
        push(w, s) == IF s \in succs /\ Merge(in[s], out) # in[s] THEN Append(w, s) ELSE w
        e == BlockEnd(fun, b)
        to == JumpsTo(Inst(e - 1))
        rest == push(SubSeq(work, 1, Len(work) - 1), to)
    IN  /\ fun # 0 /\ work # <<>>
        /\ in' = [s \in DOMAIN in |-> IF s \in succs THEN Merge(in[s], out) ELSE in[s]]
        /\ work' = IF to = e THEN rest ELSE push(rest, e)
        /\ calls' = IF dir = "must" THEN calls \cup CallSites(fun, b, in[b]) ELSE calls
        /\ UNCHANGED <<prog, ends, phase, pending, next, rounds, seeds, found, fun, dir, mayIn, machine>>

MayDone ==
    /\ fun # 0 /\ work = <<>> /\ dir = "may"
    /\ mayIn' = in
    /\ StartSolve(fun, "must")
    /\ UNCHANGED <<prog, ends, phase, pending, next, rounds, seeds, found, fun, calls, machine>>

(* An access is reported if the register may hold the base, a use in       *)
(* another form if it must.                                                *)
Report(f, l) ==
    {a \in l..(BlockEnd(f, l) - 1) :
        LET i == Inst(a)
            may == Before(f, l, mayIn[l])[a]
            certain == Before(f, l, in[l])[a]
        IN  \/ i.op = "access" /\ i.reg \in may /\ i.off # "audited"
            \/ i.op = "use" /\ i.reg \in may \cap certain}

(* What the calls hand on grows the seeds of their targets, which are      *)
(* analysed again in the next round.                                       *)
Handed(g) == UNION {c.tracked : c \in {d \in calls : d.target = g}}

(* Mutant: a callee is analysed again if nothing grew.                     *)
EndFunctionRequeues ==
    /\ fun # 0 /\ work = <<>> /\ dir = "must"
    /\ found' = found \cup UNION {Report(fun, l) : l \in Leaders(fun)}
    /\ seeds' = [g \in Starts |-> seeds[g] \cup Handed(g)]
    /\ next' = next \cup {g \in Ranged : Handed(g) # {}}
    /\ fun' = 0 /\ in' = <<>> /\ mayIn' = <<>> /\ calls' = {}
    /\ UNCHANGED <<prog, ends, phase, pending, rounds, dir, work, machine>>

EndFunction ==
    /\ fun # 0 /\ work = <<>> /\ dir = "must"
    /\ found' = found \cup UNION {Report(fun, l) : l \in Leaders(fun)}
    /\ seeds' = [g \in Starts |-> seeds[g] \cup Handed(g)]
    /\ next' = next \cup {g \in Ranged : ~ Handed(g) \subseteq seeds[g]}
    /\ fun' = 0 /\ in' = <<>> /\ mayIn' = <<>> /\ calls' = {}
    /\ UNCHANGED <<prog, ends, phase, pending, rounds, dir, work, machine>>

(* Too many rounds refuse the build.                                       *)
NextRound ==
    /\ phase = "scan" /\ fun = 0 /\ pending = {} /\ next # {}
    /\ pending' = next /\ next' = {}
    /\ rounds' = rounds + 1
    /\ phase' = IF rounds = MaxRounds THEN "refused" ELSE phase
    /\ UNCHANGED <<prog, ends, seeds, found, fun, dir, in, mayIn, work, calls, machine>>

(* The build stops on a violation; else the program is built, and code     *)
(* outside the image calls one of its functions.                           *)
EndScan ==
    /\ phase = "scan" /\ fun = 0 /\ pending = {} /\ next = {}
    /\ phase' = IF found = {} THEN "run" ELSE "refused"
    /\ pc' \in Starts
    /\ UNCHANGED <<prog, ends, scan, held, own, open>>

----------------------------------------------------------------------------
(* The program at run time.                                                *)

SameFunction(a, b) == \A f \in Starts : f <= a <=> f <= b

Goto(a, h, o) ==
    /\ pc' = a
    /\ held' = h
    /\ own' = IF SameFunction(pc, a) THEN o ELSE {}
    /\ phase' = IF a = Size THEN "over" ELSE phase
    /\ UNCHANGED <<prog, ends, scan, open>>

Running(op) == phase = "run" /\ Inst(pc).op = op

RunMRS ==
    /\ Running("mrs")
    /\ Goto(pc + 1, held \cup {Inst(pc).reg}, own \cup {Inst(pc).reg})

RunWrite ==
    /\ Running("write")
    /\ Goto(pc + 1, held \ {Inst(pc).reg}, own \ {Inst(pc).reg})

(* xl_tsd_alloc: the page below the audited slot cannot be accessed.       *)
RunAccess ==
    /\ Running("access")
    /\ IF Inst(pc).reg \in held /\ Inst(pc).off = "below"
         THEN phase' = "over" /\ UNCHANGED <<prog, ends, scan, machine>>
         ELSE Goto(pc + 1, held, own)

RunUse ==
    /\ Running("use")
    /\ Goto(pc + 1, held, own)

RunBranch ==
    \/ Running("branch") /\ Goto(Inst(pc).target, held, own)
    \/ Running("cond") /\ \E a \in {Inst(pc).target, pc + 1} : Goto(a, held, own)

RunCall ==
    /\ Running("call") /\ Len(open) < MaxCalls
    /\ open' = Append(open, [back |-> pc + 1, held |-> held, own |-> own])
    /\ pc' = Inst(pc).target /\ own' = {}
    /\ UNCHANGED <<prog, ends, phase, scan, held>>

(* The callee is not of this image.                                        *)
RunIndirectCall ==
    /\ Running("icall")
    /\ Goto(pc + 1, held \cap CalleeSaved, {})

(* The callee has put back the registers it must preserve.                 *)
RunRet ==
    /\ Running("ret")
    /\ IF open = <<>>
         THEN phase' = "over" /\ UNCHANGED <<prog, ends, scan, machine>>
         ELSE LET c == open[Len(open)]
              IN  /\ pc' = c.back
                  /\ held' = (c.held \cap CalleeSaved) \cup (held \ CalleeSaved)
                  /\ own' = IF SameFunction(c.back - 1, c.back) THEN c.own \cap CalleeSaved ELSE {}
                  /\ open' = SubSeq(open, 1, Len(open) - 1)
                  /\ phase' = IF c.back = Size THEN "over" ELSE phase
                  /\ UNCHANGED <<prog, ends, scan>>

----------------------------------------------------------------------------
Scan ==
    \/ \E f \in Starts : BeginFunction(f)
    \/ SolveBlock \/ MayDone \/ EndFunction \/ NextRound \/ EndScan

Run ==
    \/ RunMRS \/ RunWrite \/ RunAccess \/ RunUse \/ RunBranch
    \/ RunCall \/ RunIndirectCall \/ RunRet

Next == Scan \/ Run

Spec == Init /\ [][Next]_vars /\ WF_vars(Scan)

----------------------------------------------------------------------------
(* Properties.                                                             *)

(* A program the scan accepts never reaches a slot above the audited one   *)
(* through a base that the same activation of the function read itself,    *)
(* on whatever path, with no indirect call since; an access here is a load *)
(* or store at a fixed offset from that register.  The joins keep what any *)
(* path tracks (tsd_scan.cpp 225-232), the worklist comes back to every    *)
(* block whose entry state grew (327-339).                                 *)
AccessIsSeen ==
    phase = "run" =>
        ~ (Inst(pc).op = "access" /\ Inst(pc).off = "above" /\ Inst(pc).reg \in own)

(* The scan comes to an end, and never by giving up: the state entering a  *)
(* block and the seeds only grow, so no more rounds are needed than seeds  *)
(* can be handed over (318-320, 580-583).                                  *)
ScanEnds == <>(phase # "scan" /\ rounds <= MaxRounds)
============================================================================
