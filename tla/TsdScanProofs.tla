--------------------------- MODULE TsdScanProofs ----------------------------
(***************************************************************************)
(* What the scan of TsdScan guarantees of a program it accepts, for every  *)
(* program, set of registers and division into functions.                  *)
(*                                                                         *)
(* A state for every block is settled if it holds, at the entry of each,   *)
(* what its predecessors leave behind.  The scan ends an analysis with a   *)
(* settled state and has reported every access that state shows; a running *)
(* program never holds more of its own bases than any settled state says.  *)
(***************************************************************************)
EXTENDS TsdScan, DataTheorems, TLAPS

(* The program and the ranges of its functions, which stay as they are.    *)
Given ==
    /\ prog \in Programs
    /\ DOMAIN ends = Ranged
    /\ \A f \in Ranged : ends[f] \in Ends(f, Size)

LEMMA ProgramFacts ==
    ASSUME prog \in Programs
    PROVE  /\ Len(prog) \in Nat /\ DOMAIN prog = 1..Len(prog) /\ Starts \in SUBSET 1..Len(prog)
           /\ \A a \in 1..Len(prog) :
                  Inst(a).op \in {"branch", "cond", "call"} => Inst(a).target \in 1..Len(prog)
  BY TsdAssumption DEF Inst

LEMMA NextStartIs ==
    ASSUME prog \in Programs, NEW f \in Ranged
    PROVE  /\ f \in Nat /\ f >= 1 /\ NextStart(f) \in Nat /\ NextStart(f) <= Len(prog)
           /\ NextStart(f) \in Starts /\ NextStart(f) > f
           /\ \A h \in Starts : h > f => NextStart(f) <= h
  <1>1. Len(prog) \in Nat /\ Starts \in SUBSET 1..Len(prog)
    BY ProgramFacts
  <1> DEFINE T == {g \in Starts : g > f}
  <1>2. T \in SUBSET Nat /\ T # {}
    <2>1. 1..Len(prog) \in SUBSET Nat
      BY <1>1
    <2>2. T \in SUBSET Nat
      BY <1>1, <2>1
    <2>3. T # {}
      BY DEF Ranged
    <2> QED
      BY <2>2, <2>3
  <1>3. PICK g \in T : \A h \in T : g <= h
    BY <1>2, Least
  <1>4. NextStart(f) \in Starts /\ NextStart(f) > f /\ \A h \in Starts : h > f => NextStart(f) <= h
    BY <1>3 DEF NextStart
  <1>5. f \in 1..Len(prog) /\ NextStart(f) \in 1..Len(prog)
    BY <1>1, <1>4 DEF Ranged
  <1> HIDE DEF T
  <1> QED
    BY <1>1, <1>4, <1>5

LEMMA RangeIs ==
    ASSUME Given, NEW f \in Ranged
    PROVE  ends[f] \in Nat /\ NextStart(f) <= ends[f] /\ f < ends[f] /\ ends[f] - 1 <= Len(prog)
  <1>1. Len(prog) \in Nat /\ f \in Nat /\ NextStart(f) \in Nat /\ NextStart(f) <= Len(prog) /\ NextStart(f) > f
    BY ProgramFacts, NextStartIs DEF Given
  <1>2. ends[f] = NextStart(f) \/ ends[f] = Len(prog) + 1
    BY DEF Given, Ends, Size
  <1> QED
    BY <1>1, <1>2

-----------------------------------------------------------------------------
(* Blocks.                                                                 *)
LEMMA LeadersAre ==
    ASSUME Given, NEW f \in Ranged
    PROVE  /\ Leaders(f) \in SUBSET (f..(ends[f] - 1)) /\ f \in Leaders(f)
           /\ Leaders(f) \in SUBSET Nat /\ IsFiniteSet(Leaders(f))
  <1>1. f \in Nat /\ ends[f] \in Nat /\ f < ends[f]
    BY RangeIs, NextStartIs DEF Given
  <1>2. Leaders(f) \in SUBSET (f..(ends[f] - 1)) /\ f \in Leaders(f)
    BY <1>1 DEF Leaders
  <1>3. IsFiniteSet(f..(ends[f] - 1))
    BY <1>1, FS_Interval
  <1>4. IsFiniteSet(Leaders(f))
    BY <1>2, <1>3, FS_Subset
  <1>5. f..(ends[f] - 1) \in SUBSET Nat
    BY <1>1
  <1> QED
    BY <1>2, <1>4, <1>5

LEMMA BlockEndIs ==
    ASSUME Given, NEW f \in Ranged, NEW l \in Leaders(f)
    PROVE  /\ l \in Nat /\ f <= l /\ BlockEnd(f, l) \in Nat /\ l < BlockEnd(f, l) /\ BlockEnd(f, l) <= ends[f]
           /\ BlockEnd(f, l) \in Leaders(f) \/ BlockEnd(f, l) = ends[f]
           /\ \A k \in Leaders(f) : k > l => BlockEnd(f, l) <= k
  <1> DEFINE later == {a \in Leaders(f) : a > l}
  <1>1. /\ Leaders(f) \in SUBSET Nat /\ f \in Nat /\ ends[f] \in Nat
        /\ \A a \in Leaders(f) : a \in Nat /\ f <= a /\ a < ends[f]
    <2>1. f \in Nat /\ ends[f] \in Nat
      BY RangeIs, NextStartIs DEF Given
    <2>2. Leaders(f) \in SUBSET (f..(ends[f] - 1)) /\ Leaders(f) \in SUBSET Nat
      BY LeadersAre
    <2> QED
      BY <2>1, <2>2
  <1>2. CASE later = {}
    <2>1. BlockEnd(f, l) = ends[f]
      BY <1>2 DEF BlockEnd
    <2> QED
      BY <1>1, <1>2, <2>1
  <1>3. CASE later # {}
    <2>1. later \in SUBSET Nat
      BY <1>1
    <2>2. PICK a \in later : \A b \in later : a <= b
      BY <1>3, <2>1, Least
    <2>3. BlockEnd(f, l) = CHOOSE x \in later : \A b \in later : x <= b
      BY <1>3 DEF BlockEnd
    <2>4. BlockEnd(f, l) \in later /\ \A b \in later : BlockEnd(f, l) <= b
      BY <2>2, <2>3
    <2> QED
      BY <1>1, <2>4
  <1> QED
    BY <1>2, <1>3

(* Every address of the range is in a block, and in one only.              *)
LEMMA BlockOf ==
    ASSUME Given, NEW f \in Ranged, NEW a \in Nat, f <= a, a < ends[f]
    PROVE  \E l \in Leaders(f) : l <= a /\ a < BlockEnd(f, l)
  <1>1. f \in Nat /\ ends[f] \in Nat /\ f \in Leaders(f) /\ Leaders(f) \in SUBSET Nat
    BY RangeIs, NextStartIs, LeadersAre DEF Given
  <1> DEFINE T == {d \in Nat : a - d \in Leaders(f)}
  <1>2. T \in SUBSET Nat /\ T # {}
    <2>1. a - f \in Nat /\ a - (a - f) = f
      BY <1>1
    <2>2. a - f \in T
      BY <1>1, <2>1
    <2> QED
      BY <2>2
  <1>3. PICK d \in T : \A b \in T : d <= b
    BY <1>2, Least
  <1> DEFINE l == a - d
  <1>4. d \in Nat /\ l \in Leaders(f) /\ l \in Nat /\ l <= a
    BY <1>1, <1>3
  <1>5. a < BlockEnd(f, l)
    <2> SUFFICES ASSUME ~ (a < BlockEnd(f, l)) PROVE FALSE
      OBVIOUS
    <2> DEFINE e == BlockEnd(f, l)
    <2>1. e \in Nat /\ l < e /\ (e \in Leaders(f) \/ e = ends[f])
      BY <1>4, BlockEndIs
    <2> HIDE DEF e
    <2>2. e <= a
      BY <1>1, <2>1 DEF e
    <2>3. e \in Leaders(f) /\ a - e \in Nat /\ a - (a - e) = e /\ a - e < d
      BY <1>1, <1>4, <2>1, <2>2
    <2>4. a - e \in T
      BY <2>3
    <2> QED
      BY <1>3, <1>4, <2>3, <2>4
  <1> HIDE DEF l
  <1> QED
    BY <1>4, <1>5

LEMMA OneBlock ==
    ASSUME Given, NEW f \in Ranged, NEW a \in Nat, NEW k \in Leaders(f), NEW l \in Leaders(f),
           k <= a, a < BlockEnd(f, k), l <= a, a < BlockEnd(f, l)
    PROVE  k = l
  <1>1. k \in Nat /\ l \in Nat /\ BlockEnd(f, k) \in Nat /\ BlockEnd(f, l) \in Nat
    BY BlockEndIs
  <1>2. (l > k => BlockEnd(f, k) <= l) /\ (k > l => BlockEnd(f, l) <= k)
    BY BlockEndIs
  <1> QED
    BY <1>1, <1>2

-----------------------------------------------------------------------------
(* The state before each instruction of a block.  What holds the base:     *)
(* what entered with it and was not overwritten since, what read it and    *)
(* was not overwritten since.                                              *)
Kills(a, r) ==
    \/ Inst(a).op = "write" /\ Inst(a).reg = r
    \/ Inst(a).op \in {"call", "icall"} /\ r \notin CalleeSaved
Reads(a, r) == Inst(a).op = "mrs" /\ Inst(a).reg = r
Held(l, s, a) ==
    {r \in s : \A c \in l..(a - 1) : ~ Kills(c, r)} \cup
    {r \in {Inst(b).reg : b \in {c \in l..(a - 1) : Inst(c).op = "mrs"}} :
        \E b \in l..(a - 1) : Reads(b, r) /\ \A c \in (b + 1)..(a - 1) : ~ Kills(c, r)}

LEMMA HeldNext ==
    ASSUME NEW l \in Nat, NEW s, NEW a \in Nat, l <= a
    PROVE  Held(l, s, l) = s /\ Held(l, s, a + 1) = After(Inst(a), Held(l, s, a))
  <1>1. Held(l, s, l) = s
    <2>1. l..(l - 1) = {}
      OBVIOUS
    <2> QED
      BY <2>1 DEF Held
  <1> DEFINE In(r, n) == \/ r \in s /\ \A c \in l..(n - 1) : ~ Kills(c, r)
                         \/ \E b \in l..(n - 1) : Reads(b, r) /\ \A c \in (b + 1)..(n - 1) : ~ Kills(c, r)
  <1>2. \A r, n : r \in Held(l, s, n) <=> In(r, n)
    BY DEF Held, Reads
  <1>3. ASSUME NEW r PROVE In(r, a + 1) <=> Reads(a, r) \/ (In(r, a) /\ ~ Kills(a, r))
    <2>1. \A c : c \in l..(a + 1 - 1) <=> c \in l..(a - 1) \/ c = a
      OBVIOUS
    <2>2. (\A c \in l..(a + 1 - 1) : ~ Kills(c, r)) <=> (\A c \in l..(a - 1) : ~ Kills(c, r)) /\ ~ Kills(a, r)
      BY <2>1
    <2>3. ASSUME NEW b \in l..(a - 1)
          PROVE  (\A c \in (b + 1)..(a + 1 - 1) : ~ Kills(c, r)) <=>
                 (\A c \in (b + 1)..(a - 1) : ~ Kills(c, r)) /\ ~ Kills(a, r)
      <3>1. \A c : c \in (b + 1)..(a + 1 - 1) <=> c \in (b + 1)..(a - 1) \/ c = a
        OBVIOUS
      <3> QED
        BY <3>1
    <2>4. (a + 1)..(a + 1 - 1) = {}
      OBVIOUS
    <2> HIDE DEF Reads, Kills
    <2>5. (\E b \in l..(a + 1 - 1) : Reads(b, r) /\ \A c \in (b + 1)..(a + 1 - 1) : ~ Kills(c, r)) <=>
              \/ Reads(a, r)
              \/ (\E b \in l..(a - 1) : Reads(b, r) /\ \A c \in (b + 1)..(a - 1) : ~ Kills(c, r)) /\ ~ Kills(a, r)
      BY <2>1, <2>3, <2>4
    <2> QED
      BY <2>2, <2>5
  <1> HIDE DEF In
  <1>4. \A r : r \in After(Inst(a), Held(l, s, a)) <=> Reads(a, r) \/ (r \in Held(l, s, a) /\ ~ Kills(a, r))
    BY DEF After, Reads, Kills
  <1>5. \A r : r \in Held(l, s, a + 1) <=> r \in After(Inst(a), Held(l, s, a))
    BY <1>2, <1>3, <1>4
  <1> QED
    BY <1>1, <1>5

LEMMA BeforeIs ==
    ASSUME Given, NEW f \in Ranged, NEW l \in Leaders(f), NEW s
    PROVE  /\ Before(f, l, s)[l] = s
           /\ \A a \in Nat : l <= a /\ a < BlockEnd(f, l) =>
                  Before(f, l, s)[a + 1] = After(Inst(a), Before(f, l, s)[a])
  <1> DEFINE e == BlockEnd(f, l)
             Rec(at) == [a \in l..e |-> IF a = l THEN s ELSE After(Inst(a - 1), at[a - 1])]
             h == [a \in l..e |-> Held(l, s, a)]
  <1>1. l \in Nat /\ e \in Nat /\ l < e
    BY BlockEndIs
  <1>2. Before(f, l, s) = CHOOSE at : at = Rec(at)
    BY DEF Before
  <1> HIDE DEF e
  <1>3. h = Rec(h)
    <2>1. ASSUME NEW a \in l..e
          PROVE  Held(l, s, a) = IF a = l THEN s ELSE After(Inst(a - 1), h[a - 1])
      <3>1. CASE a = l
        BY <1>1, <3>1, HeldNext
      <3>2. CASE a # l
        <4>1. a - 1 \in Nat /\ l <= a - 1 /\ a - 1 \in l..e /\ (a - 1) + 1 = a
          BY <1>1, <3>2
        <4>2. Held(l, s, (a - 1) + 1) = After(Inst(a - 1), Held(l, s, a - 1))
          BY <1>1, <4>1, HeldNext
        <4>3. h[a - 1] = Held(l, s, a - 1)
          BY <4>1
        <4> HIDE DEF h
        <4> QED
          BY <3>2, <4>1, <4>2, <4>3
      <3> QED
        BY <3>1, <3>2
    <2>2. h = [a \in l..e |-> IF a = l THEN s ELSE After(Inst(a - 1), h[a - 1])]
      BY <2>1
    <2> QED
      BY <2>2
  <1> DEFINE B == Before(f, l, s)
  <1> HIDE DEF h
  <1>4. B = Rec(B)
    BY <1>2, <1>3
  <1> HIDE DEF B
  <1>5. \A a \in l..e : B[a] = IF a = l THEN s ELSE After(Inst(a - 1), B[a - 1])
    BY <1>4
  <1>6. B[l] = s
    BY <1>1, <1>5
  <1>7. ASSUME NEW a \in Nat, l <= a, a < e PROVE B[a + 1] = After(Inst(a), B[a])
    <2>1. a + 1 \in l..e /\ a + 1 # l /\ (a + 1) - 1 = a
      BY <1>1, <1>7
    <2> QED
      BY <1>5, <2>1
  <1> QED
    BY <1>6, <1>7 DEF B, e

(* More before an instruction leaves more after it.                        *)
LEMMA AfterGrows ==
    ASSUME NEW i, NEW s, NEW t, s \subseteq t
    PROVE  After(i, s) \subseteq After(i, t)
  BY DEF After

-----------------------------------------------------------------------------
(* A state for each block of f that holds what the predecessors leave.     *)
Settled(f, M) == \A l \in Leaders(f) : \A s \in Succs(f, l) : Transfer(f, l, M[l]) \subseteq M[s]

(* The registers o at address a are in every settled state of its function.*)
Tracks(a, o) ==
    \A f \in Ranged : f <= a /\ a < NextStart(f) =>
        \A M : Settled(f, M) =>
            \A l \in Leaders(f) : l <= a /\ a < BlockEnd(f, l) => o \subseteq Before(f, l, M[l])[a]

(* Where control can go from a without leaving the activation for good.    *)
Edge(a, b) ==
    \/ b = a + 1 /\ Inst(a).op \notin {"branch", "icall", "ret"}
    \/ b = Inst(a).target /\ Inst(a).op \in {"branch", "cond", "call"}

LEMMA EdgeTracks ==
    ASSUME Given, NEW a \in Nat, NEW b \in Nat, Edge(a, b), SameFunction(a, b), NEW o, Tracks(a, o)
    PROVE  Tracks(b, After(Inst(a), o))
  <1> SUFFICES ASSUME NEW f \in Ranged, f <= b, b < NextStart(f),
                      NEW M, Settled(f, M),
                      NEW l \in Leaders(f), l <= b, b < BlockEnd(f, l)
               PROVE  After(Inst(a), o) \subseteq Before(f, l, M[l])[b]
    BY DEF Tracks
  <1>1. /\ f \in Starts /\ f \in Nat /\ NextStart(f) \in Starts /\ NextStart(f) \in Nat
        /\ ends[f] \in Nat /\ NextStart(f) <= ends[f]
    BY NextStartIs, RangeIs DEF Given, Ranged
  <1>2. f <= a /\ a < NextStart(f) /\ a < ends[f] /\ b < ends[f]
    <2>1. (f <= a <=> f <= b) /\ (NextStart(f) <= a <=> NextStart(f) <= b)
      BY <1>1 DEF SameFunction
    <2> QED
      BY <1>1, <2>1
  <1>3. PICK k \in Leaders(f) : k <= a /\ a < BlockEnd(f, k)
    BY <1>2, BlockOf
  <1> DEFINE e == BlockEnd(f, k)
             B == Before(f, k, M[k])
  <1>4. k \in Nat /\ e \in Nat /\ f <= k /\ e <= ends[f] /\ (e \in Leaders(f) \/ e = ends[f])
    BY BlockEndIs
  <1>5. After(Inst(a), o) \subseteq B[a + 1]
    <2>1. o \subseteq B[a]
      BY <1>2, <1>3 DEF Tracks
    <2>2. B[a + 1] = After(Inst(a), B[a])
      BY <1>3, BeforeIs
    <2> HIDE DEF B
    <2> QED
      BY <2>1, <2>2, AfterGrows
  <1>6. CASE a + 1 < e
    <2>1. Inst(a).op \notin Ending
      <3> SUFFICES ASSUME Inst(a).op \in Ending PROVE FALSE
        OBVIOUS
      <3>1. a + 1 \in f..(ends[f] - 1) /\ a + 1 > f /\ (a + 1) - 1 = a
        BY <1>1, <1>2, <1>4, <1>6
      <3>2. a + 1 \in Leaders(f)
        <4>1. a \in f..(ends[f] - 1)
          BY <1>1, <1>2
        <4> QED
          BY <3>1, <4>1 DEF Leaders
      <3>3. a + 1 > k
        BY <1>3, <1>4
      <3>4. e <= a + 1
        BY <3>2, <3>3, BlockEndIs
      <3> QED
        BY <1>4, <1>6, <3>4
    <2>2. b = a + 1
      BY <2>1 DEF Edge, Ending
    <2>3. k <= b
      BY <1>3, <1>4, <2>2
    <2>4. k = l
      BY <1>6, <2>2, <2>3, OneBlock
    <2> QED
      BY <1>5, <2>2, <2>4
  <1>7. CASE ~ (a + 1 < e)
    <2>1. a + 1 = e /\ e - 1 = a
      BY <1>3, <1>4, <1>7
    <2>2. b \in Leaders(f)
      <3>1. CASE b = a + 1
        BY <1>1, <1>2, <1>4, <2>1, <3>1
      <3>2. CASE b = Inst(a).target /\ Inst(a).op \in {"branch", "cond", "call"}
        <4>1. a \in f..(ends[f] - 1) /\ b \in f..(ends[f] - 1)
          BY <1>1, <1>2
        <4>2. Inst(a).op \in Ending /\ JumpsTo(Inst(a)) = b
          BY <3>2 DEF Ending, JumpsTo
        <4> QED
          BY <4>1, <4>2 DEF Leaders
      <3> QED
        BY <3>1, <3>2 DEF Edge
    <2>3. b \in Succs(f, k)
      BY <2>1, <2>2 DEF Succs, JumpsTo, Edge
    <2>4. B[a + 1] \subseteq M[b]
      <3>1. Transfer(f, k, M[k]) \subseteq M[b]
        BY <2>3 DEF Settled
      <3> QED
        BY <2>1, <3>1 DEF Transfer
    <2>5. b = l
      <3>1. b \in Nat /\ BlockEnd(f, b) \in Nat /\ b < BlockEnd(f, b)
        BY <2>2, BlockEndIs
      <3>2. b <= b
        OBVIOUS
      <3> QED
        BY <2>2, <3>1, <3>2, OneBlock
    <2>6. Before(f, l, M[l])[b] = M[b]
      BY <2>5, BeforeIs
    <2> HIDE DEF B
    <2> QED
      BY <1>5, <2>4, <2>6
  <1> QED
    BY <1>6, <1>7

(* Less is tracked too; nothing is.                                        *)
LEMMA LessTracks ==
    ASSUME NEW a, NEW o, NEW q, Tracks(a, o), q \subseteq o
    PROVE  Tracks(a, q)
  BY DEF Tracks

LEMMA NothingTracks ==
    ASSUME NEW a
    PROVE  Tracks(a, {})
  BY DEF Tracks

-----------------------------------------------------------------------------
(* The scan.  An analysed function has a settled state all of whose        *)
(* accesses to other slots than the audited one are violations.            *)
Good(f) ==
    \E M : /\ Settled(f, M)
           /\ \A l \in Leaders(f) : \A a \in l..(BlockEnd(f, l) - 1) :
                  Inst(a).op = "access" /\ Inst(a).off # "audited" /\ Inst(a).reg \in Before(f, l, M[l])[a] => a \in found

(* What block l leaves behind has arrived at its successors.               *)
Arrived(f, l) == \A s \in Succs(f, l) : Transfer(f, l, in[l]) \subseteq in[s]
Has(w, l) == \E k \in 1..Len(w) : w[k] = l

(* The fixpoint under way: a block that is not on the worklist has handed  *)
(* on what it leaves behind.                                               *)
SolveOK ==
    /\ fun \in Ranged \cup {0}
    /\ fun # 0 =>
           /\ phase = "scan" /\ dir \in {"may", "must"}
           /\ DOMAIN in = Leaders(fun) /\ work \in Seq(Leaders(fun))
           /\ dir = "may" => \A l \in Leaders(fun) : Has(work, l) \/ Arrived(fun, l)
           /\ dir = "must" => Settled(fun, mayIn)

(* A function that reads the base is to be analysed, or was.               *)
ScannedOK ==
    /\ pending \subseteq Ranged /\ next \subseteq Ranged
    /\ \A f \in Ranged : HasMRS(prog, f) => f \in pending \/ f = fun \/ Good(f)

(* The running program.  Its own bases are tracked, and come from an MRS   *)
(* of the function; so do those of its open calls.                         *)
Reader(a) == \E f \in Ranged : f <= a /\ a < NextStart(f) /\ HasMRS(prog, f)
Known(a, o) == o \subseteq Regs /\ Tracks(a, o) /\ (o # {} => Reader(a))
CallAt(a) == a \in 1..Len(prog) /\ Inst(a).op = "call"

Frames == [back : Nat, held : SUBSET Regs, own : SUBSET Regs]
RunOK ==
    /\ phase = "scan" => held = {} /\ own = {} /\ open = <<>>
    /\ phase = "run" =>
           /\ found = {} /\ pending = {} /\ fun = 0
           /\ pc \in 1..Len(prog) /\ held \subseteq Regs /\ Known(pc, own)
           /\ open \in Seq(Frames)
           /\ \A k \in 1..Len(open) : CallAt(open[k].back - 1) /\ Known(open[k].back - 1, open[k].own)

SeenInv == Given /\ SolveOK /\ ScannedOK /\ RunOK

(* What the programs have to be like: see LastReadsNone.                   *)
ReadsOK == \A p \in Programs : LastReadsNone(p)

(* Nothing that is said of the program changes.                            *)
LEMMA SameProgram ==
    ASSUME prog' = prog, ends' = ends
    PROVE  /\ Given' <=> Given
           /\ \A f : Leaders(f)' = Leaders(f)
           /\ \A f, l : BlockEnd(f, l)' = BlockEnd(f, l) /\ Succs(f, l)' = Succs(f, l)
           /\ \A f, l, s : Before(f, l, s)' = Before(f, l, s) /\ Transfer(f, l, s)' = Transfer(f, l, s)
           /\ \A f, M : Settled(f, M)' <=> Settled(f, M)
  BY DEF Given, Size, Leaders, Inst, BlockEnd, Succs, JumpsTo, Before, Transfer, After, Settled

LEMMA SameFacts ==
    ASSUME prog' = prog, ends' = ends
    PROVE  /\ \A a, o : Tracks(a, o)' <=> Tracks(a, o)
           /\ \A a, o : Known(a, o)' <=> Known(a, o)
           /\ \A a : CallAt(a)' <=> CallAt(a)
           /\ \A a : Inst(a)' = Inst(a)
  <1>1. \A a, o : Tracks(a, o)' <=> Tracks(a, o)
    BY SameProgram DEF Tracks
  <1>2. \A a : Reader(a)' <=> Reader(a)
    BY DEF Reader
  <1>3. \A a : Inst(a)' = Inst(a)
    BY DEF Inst
  <1> QED
    BY <1>1, <1>2, <1>3 DEF Known, CallAt

LEMMA SameGood ==
    ASSUME prog' = prog, ends' = ends, found \subseteq found'
    PROVE  \A f : Good(f) => Good(f)'
  <1>1. \A a : Inst(a)' = Inst(a)
    BY DEF Inst
  <1> SUFFICES ASSUME NEW f, Good(f) PROVE Good(f)'
    OBVIOUS
  <1>2. PICK M : /\ Settled(f, M)
                 /\ \A l \in Leaders(f) : \A a \in l..(BlockEnd(f, l) - 1) :
                        Inst(a).op = "access" /\ Inst(a).off # "audited" /\ Inst(a).reg \in Before(f, l, M[l])[a] => a \in found
    BY DEF Good
  <1>3. Settled(f, M)'
    BY <1>2, SameProgram
  <1>4. (\A l \in Leaders(f) : \A a \in l..(BlockEnd(f, l) - 1) :
            Inst(a).op = "access" /\ Inst(a).off # "audited" /\ Inst(a).reg \in Before(f, l, M[l])[a] => a \in found)'
    BY <1>1, <1>2, SameProgram
  <1> QED
    BY <1>3, <1>4 DEF Good

-----------------------------------------------------------------------------
LEMMA SeenInit == Init => SeenInv
  <1> SUFFICES ASSUME Init PROVE SeenInv
    OBVIOUS
  <1>1. Given
    BY DEF Init, Given
  <1>2. SolveOK
    BY DEF Init, SolveOK
  <1>3. ScannedOK
    BY DEF Init, ScannedOK
  <1>4. RunOK
    BY DEF Init, RunOK
  <1> QED
    BY <1>1, <1>2, <1>3, <1>4 DEF SeenInv

(* A fixpoint begins with every block on the worklist.                     *)
LEMMA StartLists ==
    ASSUME Given, NEW f \in Ranged, NEW d, StartSolve(f, d)
    PROVE  /\ dir' = d /\ DOMAIN in' = Leaders(f) /\ work' \in Seq(Leaders(f))
           /\ \A l \in Leaders(f) : Has(work', l)
  <1>1. Leaders(f) \in SUBSET Nat /\ IsFiniteSet(Leaders(f))
    BY LeadersAre
  <1>2. work' = InOrder(Leaders(f))
    BY DEF StartSolve, AllBlocks
  <1>3. /\ InOrder(Leaders(f)) \in Seq(Leaders(f)) /\ Len(InOrder(Leaders(f))) = Cardinality(Leaders(f))
        /\ \A x \in Leaders(f) : \E k \in 1..Cardinality(Leaders(f)) : InOrder(Leaders(f))[k] = x
    BY <1>1, InOrderIsSorted
  <1>4. dir' = d /\ DOMAIN in' = Leaders(f)
    BY DEF StartSolve
  <1> QED
    BY <1>2, <1>3, <1>4 DEF Has

LEMMA NoFunctionAtZero ==
    ASSUME prog \in Programs
    PROVE  0 \notin Ranged
  <1>1. \A f \in Ranged : f >= 1
    BY NextStartIs
  <1> QED
    BY <1>1

LEMMA BeginFunctionSeen ==
    ASSUME SeenInv, NEW f \in Starts, BeginFunction(f)
    PROVE  SeenInv'
  <1>1. /\ phase = "scan" /\ fun = 0 /\ f \in pending /\ fun' = f /\ pending' = pending \ {f}
        /\ StartSolve(f, "may")
        /\ UNCHANGED <<prog, ends, phase, next, found, pc, held, own, open>>
    BY DEF BeginFunction, machine
  <1>2. Given /\ SolveOK /\ ScannedOK /\ RunOK /\ f \in Ranged
    BY <1>1 DEF SeenInv, ScannedOK
  <1>3. Given' /\ f \notin {0} /\ 0 \notin Ranged
    BY <1>1, <1>2, SameProgram, NoFunctionAtZero DEF Given
  <1>4. SolveOK'
    <2>1. /\ dir' = "may" /\ DOMAIN in' = Leaders(f) /\ work' \in Seq(Leaders(f))
          /\ \A l \in Leaders(f) : Has(work', l)
      BY <1>1, <1>2, StartLists
    <2>2. Leaders(f)' = Leaders(f)
      BY <1>1, SameProgram
    <2>3. f \in Ranged /\ fun' = f /\ phase' = "scan" /\ Leaders(fun)' = Leaders(f)
      BY <1>1, <1>2, <2>2
    <2>4. \A l \in Leaders(fun)' : Has(work, l)'
      BY <2>1, <2>3 DEF Has
    <2> QED
      BY <2>1, <2>3, <2>4 DEF SolveOK
  <1>5. ScannedOK'
    <2>1. \A g : Good(g) => Good(g)'
      BY <1>1, SameGood
    <2> QED
      BY <1>1, <1>2, <1>3, <2>1 DEF ScannedOK
  <1>6. RunOK'
    BY <1>1, <1>2 DEF RunOK
  <1> QED
    BY <1>3, <1>4, <1>5, <1>6 DEF SeenInv

(* The worklist after a successor may have been put on it.                 *)
LEMMA PushIs ==
    ASSUME NEW S, NEW w \in Seq(S), NEW c \in BOOLEAN, NEW s, c => s \in S
    PROVE  LET v == IF c THEN Append(w, s) ELSE w
           IN  v \in Seq(S) /\ (c => Has(v, s)) /\ \A l : Has(w, l) => Has(v, l)
  <1>1. CASE c
    <2>1. /\ Append(w, s) \in Seq(S) /\ Len(Append(w, s)) = Len(w) + 1 /\ Len(w) \in Nat
          /\ Append(w, s)[Len(w) + 1] = s
          /\ \A i \in 1..Len(w) : Append(w, s)[i] = w[i]
      BY <1>1, Pushed, StackElements
    <2> QED
      BY <1>1, <2>1 DEF Has
  <1>2. CASE ~ c
    BY <1>2
  <1> QED
    BY <1>1, <1>2

LEMMA PopIs ==
    ASSUME NEW S, NEW w \in Seq(S), w # <<>>
    PROVE  LET r == SubSeq(w, 1, Len(w) - 1)
           IN  /\ w[Len(w)] \in S /\ r \in Seq(S)
               /\ \A l : Has(w, l) => l = w[Len(w)] \/ Has(r, l)
  <1>1. Len(w) \in Nat /\ Len(w) # 0 /\ \A i \in 1..Len(w) : w[i] \in S
    BY StackElements
  <1>2. Len(w) - 1 \in 0..Len(w)
    BY <1>1
  <1> DEFINE r == SubSeq(w, 1, Len(w) - 1)
  <1>3. r \in Seq(S) /\ Len(r) = Len(w) - 1 /\ \A i \in 1..(Len(w) - 1) : r[i] = w[i]
    BY <1>2, Prefix
  <1> HIDE DEF r
  <1>4. \A l : Has(w, l) => l = w[Len(w)] \/ Has(r, l)
    BY <1>1, <1>3 DEF Has
  <1> QED
    BY <1>1, <1>3, <1>4 DEF r

(* One block: the worklist keeps the others and gets each successor whose  *)
(* state changes.                                                          *)
LEMMA SolveBlockWork ==
    ASSUME SeenInv, SolveBlock
    PROVE  LET b == work[Len(work)]
               out == Transfer(fun, b, in[b])
           IN  /\ b \in Leaders(fun) /\ work' \in Seq(Leaders(fun))
               /\ \A l : Has(work, l) => l = b \/ Has(work', l)
               /\ \A s \in Succs(fun, b) : Merge(in[s], out) # in[s] => Has(work', s)
  <1> DEFINE b == work[Len(work)]
             out == Transfer(fun, b, in[b])
             c(s) == s \in Succs(fun, b) /\ Merge(in[s], out) # in[s]
             e == BlockEnd(fun, b)
             to == JumpsTo(Inst(e - 1))
             w0 == SubSeq(work, 1, Len(work) - 1)
             w1 == IF c(to) THEN Append(w0, to) ELSE w0
             w2 == IF c(e) THEN Append(w1, e) ELSE w1
  <1>1. fun # 0 /\ work # <<>> /\ work' = IF to = e THEN w1 ELSE w2
    BY DEF SolveBlock
  <1>2. work \in Seq(Leaders(fun))
    BY <1>1 DEF SeenInv, SolveOK
  <1>3. b \in Leaders(fun) /\ w0 \in Seq(Leaders(fun)) /\ \A l : Has(work, l) => l = b \/ Has(w0, l)
    BY <1>1, <1>2, PopIs
  <1>4. \A s : c(s) \in BOOLEAN /\ (c(s) => s \in Leaders(fun))
    BY DEF Succs
  <1>5. \A s \in Succs(fun, b) : s = to \/ s = e
    BY DEF Succs
  <1>6. \A s \in Succs(fun, b) : Merge(in[s], out) # in[s] => c(s)
    OBVIOUS
  <1> HIDE DEF b, c, e, to, w0
  <1>7. w1 \in Seq(Leaders(fun)) /\ (c(to) => Has(w1, to)) /\ \A l : Has(w0, l) => Has(w1, l)
    BY <1>3, <1>4, PushIs
  <1> HIDE DEF w1
  <1>8. w2 \in Seq(Leaders(fun)) /\ (c(e) => Has(w2, e)) /\ \A l : Has(w1, l) => Has(w2, l)
    BY <1>4, <1>7, PushIs
  <1> HIDE DEF w2
  <1>9. \A s \in Succs(fun, b) : c(s) => Has(work', s)
    BY <1>1, <1>5, <1>7, <1>8
  <1>10. \A l : Has(work, l) => l = b \/ Has(work', l)
    BY <1>1, <1>3, <1>7, <1>8
  <1>11. work' \in Seq(Leaders(fun))
    BY <1>1, <1>7, <1>8
  <1> HIDE DEF out
  <1> QED
    BY <1>3, <1>6, <1>9, <1>10, <1>11 DEF b, out

LEMMA SolveBlockSeen ==
    ASSUME SeenInv, SolveBlock
    PROVE  SeenInv'
  <1> DEFINE b == work[Len(work)]
             out == Transfer(fun, b, in[b])
  <1>1. /\ fun # 0
        /\ in' = [s \in DOMAIN in |-> IF s \in Succs(fun, b) THEN Merge(in[s], out) ELSE in[s]]
        /\ UNCHANGED <<prog, ends, phase, pending, next, found, fun, dir, mayIn, pc, held, own, open>>
    BY DEF SolveBlock, machine
  <1>2. Given /\ SolveOK /\ ScannedOK /\ RunOK
    BY DEF SeenInv
  <1>3. /\ fun \in Ranged /\ phase = "scan" /\ dir \in {"may", "must"} /\ DOMAIN in = Leaders(fun)
        /\ dir = "may" => \A l \in Leaders(fun) : Has(work, l) \/ Arrived(fun, l)
        /\ dir = "must" => Settled(fun, mayIn)
    BY <1>1, <1>2 DEF SolveOK
  <1>4. /\ b \in Leaders(fun) /\ work' \in Seq(Leaders(fun))
        /\ \A l : Has(work, l) => l = b \/ Has(work', l)
        /\ \A s \in Succs(fun, b) : Merge(in[s], out) # in[s] => Has(work', s)
    BY SolveBlockWork
  <1>5. Given'
    BY <1>1, <1>2, SameProgram
  <1>6. SolveOK'
    <2>1. /\ \A f : Leaders(f)' = Leaders(f)
          /\ \A f, l : Succs(f, l)' = Succs(f, l)
          /\ \A f, l, s : Transfer(f, l, s)' = Transfer(f, l, s)
          /\ \A f, M : Settled(f, M)' <=> Settled(f, M)
      BY <1>1, SameProgram
    <2>2. Leaders(fun)' = Leaders(fun) /\ fun' = fun /\ DOMAIN in' = Leaders(fun)
      BY <1>1, <1>3, <2>1
    <2>3. dir = "must" => Settled(fun, mayIn)'
      <3>1. Settled(fun, mayIn)' <=> Settled(fun, mayIn)
        BY <1>1, <2>1 DEF Settled
      <3> QED
        BY <1>3, <3>1
    <2>4. ASSUME dir = "may", NEW l \in Leaders(fun), ~ Has(work', l)
          PROVE  Arrived(fun, l)'
      <3>0. \A s \in Succs(fun, b) : Merge(in[s], out) = in[s] \cup out
        BY <2>4 DEF Merge
      <3>1. \A s \in Leaders(fun) : in[s] \subseteq in'[s] /\ (s \in Succs(fun, b) => out \subseteq in'[s])
        BY <1>1, <1>3, <3>0
      <3>2. in'[l] = in[l]
        BY <1>1, <1>3, <1>4, <2>4
      <3> HIDE DEF out, b
      <3>3. \A s \in Succs(fun, l) : Transfer(fun, l, in[l]) \subseteq in'[s]
        <4>1. \A s \in Succs(fun, l) : s \in Leaders(fun)
          BY DEF Succs
        <4>2. CASE l = b
          BY <3>1, <4>1, <4>2 DEF out
        <4>3. CASE l # b
          <5>1. Arrived(fun, l)
            BY <1>3, <1>4, <2>4, <4>3
          <5> QED
            BY <3>1, <4>1, <5>1 DEF Arrived
        <4> QED
          BY <4>2, <4>3
      <3>4. Arrived(fun, l)' <=> \A s \in Succs(fun, l) : Transfer(fun, l, in'[l]) \subseteq in'[s]
        <4>1. Succs(fun, l)' = Succs(fun, l) /\ Transfer(fun, l, in[l])' = Transfer(fun, l, in'[l])
          BY <1>1, <2>1 DEF Transfer
        <4> QED
          BY <4>1 DEF Arrived
      <3> QED
        BY <3>2, <3>3, <3>4
    <2>5. dir = "may" => \A l \in Leaders(fun) : Has(work, l)' \/ Arrived(fun, l)'
      BY <2>4 DEF Has
    <2>6. work' \in Seq(Leaders(fun))
      BY <1>4
    <2> HIDE DEF out, b
    <2> QED
      BY <1>1, <1>3, <2>2, <2>3, <2>5, <2>6 DEF SolveOK
  <1>7. ScannedOK'
    <2>1. \A g : Good(g) => Good(g)'
      BY <1>1, SameGood
    <2> QED
      BY <1>1, <1>2, <2>1 DEF ScannedOK
  <1>8. RunOK'
    BY <1>1, <1>2, <1>3 DEF RunOK
  <1> QED
    BY <1>5, <1>6, <1>7, <1>8 DEF SeenInv

LEMMA MayDoneSeen ==
    ASSUME SeenInv, MayDone
    PROVE  SeenInv'
  <1>1. /\ fun # 0 /\ work = <<>> /\ dir = "may" /\ mayIn' = in
        /\ StartSolve(fun, "must")
        /\ UNCHANGED <<prog, ends, phase, pending, next, found, fun, pc, held, own, open>>
    BY DEF MayDone, machine
  <1>2. Given /\ SolveOK /\ ScannedOK /\ RunOK
    BY DEF SeenInv
  <1>3. /\ fun \in Ranged /\ phase = "scan"
        /\ \A l \in Leaders(fun) : Has(work, l) \/ Arrived(fun, l)
    BY <1>1, <1>2 DEF SolveOK
  <1>4. Settled(fun, in)
    <2>1. \A l : ~ Has(work, l)
      BY <1>1 DEF Has
    <2> QED
      BY <1>3, <2>1 DEF Settled, Arrived
  <1>5. Given'
    BY <1>1, <1>2, SameProgram
  <1>6. SolveOK'
    <2>1. dir' = "must" /\ DOMAIN in' = Leaders(fun) /\ work' \in Seq(Leaders(fun))
      BY <1>1, <1>2, <1>3, StartLists
    <2>2. Leaders(fun)' = Leaders(fun) /\ fun' = fun
      <3>1. \A f : Leaders(f)' = Leaders(f)
        BY <1>1, SameProgram
      <3> QED
        BY <1>1, <3>1
    <2>3. Settled(fun, mayIn)'
      <3>1. \A f, M : Settled(f, M)' <=> Settled(f, M)
        BY <1>1, SameProgram
      <3>2. Settled(fun, in) <=> Settled(fun, mayIn)'
        BY <1>1, <3>1 DEF Settled
      <3> QED
        BY <1>4, <3>2
    <2> QED
      BY <1>1, <1>3, <2>1, <2>2, <2>3 DEF SolveOK
  <1>7. ScannedOK'
    <2>1. \A g : Good(g) => Good(g)'
      BY <1>1, SameGood
    <2> QED
      BY <1>1, <1>2, <2>1 DEF ScannedOK
  <1>8. RunOK'
    BY <1>1, <1>2, <1>3 DEF RunOK
  <1> QED
    BY <1>5, <1>6, <1>7, <1>8 DEF SeenInv

(* What the report names.                                                  *)
LEMMA EndFunctionSeen ==
    ASSUME SeenInv, EndFunction
    PROVE  SeenInv'
  <1>1. /\ fun # 0 /\ dir = "must"
        /\ found' = found \cup UNION {Report(fun, l) : l \in Leaders(fun)}
        /\ next' = next \cup {g \in Ranged : ~ Handed(g) \subseteq seeds[g]}
        /\ fun' = 0
        /\ UNCHANGED <<prog, ends, phase, pending, pc, held, own, open>>
    BY DEF EndFunction, machine
  <1>2. Given /\ SolveOK /\ ScannedOK /\ RunOK
    BY DEF SeenInv
  <1>3. fun \in Ranged /\ phase = "scan" /\ Settled(fun, mayIn)
    BY <1>1, <1>2 DEF SolveOK
  <1>4. Given'
    BY <1>1, <1>2, SameProgram
  <1>5. ASSUME NEW f, f = fun PROVE Good(f)'
    <2>1. /\ Leaders(f)' = Leaders(f) /\ Settled(f, mayIn)
          /\ \A l : BlockEnd(f, l)' = BlockEnd(f, l)
          /\ \A l, s : Before(f, l, s)' = Before(f, l, s)
          /\ \A M : Settled(f, M)' <=> Settled(f, M)
          /\ \A a : Inst(a)' = Inst(a)
      BY <1>1, <1>3, <1>5, SameProgram, SameFacts
    <2>2. ASSUME NEW l \in Leaders(f), NEW a \in l..(BlockEnd(f, l) - 1), Inst(a).op = "access",
                 Inst(a).off # "audited", Inst(a).reg \in Before(f, l, mayIn[l])[a]
          PROVE  a \in found'
      <3>1. a \in Report(f, l)
        BY <2>2 DEF Report
      <3> QED
        BY <1>1, <1>5, <3>1
    <2>3. \E M : /\ Settled(f, M)
                 /\ \A l \in Leaders(f) : \A a \in l..(BlockEnd(f, l) - 1) :
                        Inst(a).op = "access" /\ Inst(a).off # "audited" /\ Inst(a).reg \in Before(f, l, M[l])[a]
                            => a \in found'
      <3> WITNESS mayIn
      <3> QED
        BY <2>1, <2>2
    <2>4. PICK M : /\ Settled(f, M)
                   /\ \A l \in Leaders(f) : \A a \in l..(BlockEnd(f, l) - 1) :
                          Inst(a).op = "access" /\ Inst(a).off # "audited" /\ Inst(a).reg \in Before(f, l, M[l])[a]
                              => a \in found'
      BY <2>3
    <2>5. /\ Settled(f, M)'
          /\ (\A l \in Leaders(f) : \A a \in l..(BlockEnd(f, l) - 1) :
                 Inst(a).op = "access" /\ Inst(a).off # "audited" /\ Inst(a).reg \in Before(f, l, M[l])[a]
                     => a \in found)'
      BY <2>1, <2>4
    <2> QED
      BY <2>5 DEF Good
  <1>6. ScannedOK'
    <2>1. \A g : Good(g) => Good(g)'
      BY <1>1, SameGood
    <2> QED
      BY <1>1, <1>2, <1>5, <2>1 DEF ScannedOK
  <1>7. SolveOK' /\ RunOK'
    BY <1>1, <1>2, <1>3 DEF SolveOK, RunOK
  <1> QED
    BY <1>4, <1>6, <1>7 DEF SeenInv

LEMMA NextRoundSeen ==
    ASSUME SeenInv, NextRound
    PROVE  SeenInv'
  <1>1. /\ phase = "scan" /\ fun = 0 /\ pending = {} /\ pending' = next /\ next' = {}
        /\ phase' \in {"scan", "refused"}
        /\ UNCHANGED <<prog, ends, found, fun, pc, held, own, open>>
    BY DEF NextRound, machine
  <1>2. Given /\ SolveOK /\ ScannedOK /\ RunOK
    BY DEF SeenInv
  <1>3. Given' /\ 0 \notin Ranged
    BY <1>1, <1>2, SameProgram, NoFunctionAtZero DEF Given
  <1>4. ScannedOK'
    <2>1. \A g : Good(g) => Good(g)'
      BY <1>1, SameGood
    <2> QED
      BY <1>1, <1>2, <1>3, <2>1 DEF ScannedOK
  <1>5. SolveOK' /\ RunOK'
    BY <1>1, <1>2 DEF SolveOK, RunOK
  <1> QED
    BY <1>3, <1>4, <1>5 DEF SeenInv

LEMMA EndScanSeen ==
    ASSUME SeenInv, EndScan
    PROVE  SeenInv'
  <1>1. /\ phase = "scan" /\ fun = 0 /\ pending = {}
        /\ phase' = IF found = {} THEN "run" ELSE "refused"
        /\ pc' \in Starts
        /\ UNCHANGED <<prog, ends, pending, next, found, fun, held, own, open>>
    BY DEF EndScan, scan
  <1>2. Given /\ SolveOK /\ ScannedOK /\ RunOK
    BY DEF SeenInv
  <1>3. Given'
    BY <1>1, <1>2, SameProgram
  <1>4. ScannedOK'
    <2>1. \A g : Good(g) => Good(g)'
      BY <1>1, SameGood
    <2> QED
      BY <1>1, <1>2, <2>1 DEF ScannedOK
  <1>5. SolveOK'
    BY <1>1, <1>2 DEF SolveOK
  <1>6. RunOK'
    <2>1. held' = {} /\ own' = {} /\ open' = <<>> /\ Len(prog)' = Len(prog) /\ pc' \in 1..Len(prog)
      BY <1>1, <1>2, ProgramFacts DEF RunOK, Given
    <2>2. Known(pc, own)'
      <3>1. \A a : Tracks(a, {})'
        <4>1. \A a : Tracks(a, {})' <=> Tracks(a, {})
          BY <1>1, SameFacts
        <4> QED
          BY <4>1, NothingTracks
      <3> QED
        BY <2>1, <3>1 DEF Known
    <2>3. open' \in Seq(Frames) /\ 1..Len(open') = {}
      BY <2>1
    <2> QED
      BY <1>1, <2>1, <2>2, <2>3 DEF RunOK
  <1> QED
    BY <1>3, <1>4, <1>5, <1>6 DEF SeenInv

-----------------------------------------------------------------------------
(* The running program.                                                    *)
LEMMA ReadsInReader ==
    ASSUME prog \in Programs, ReadsOK, NEW a \in 1..Len(prog), Inst(a).op = "mrs"
    PROVE  Reader(a)
  <1>1. /\ Len(prog) \in Nat /\ Starts \in SUBSET 1..Len(prog) /\ 1 \in Starts /\ a \in Nat /\ 1 <= a
        /\ DOMAIN prog = 1..Len(prog)
    BY ProgramFacts, TsdAssumption
  <1>2. PICK t \in Starts : t > a
    BY <1>1 DEF ReadsOK, LastReadsNone, Inst
  <1> DEFINE T == {d \in Nat : a - d \in Starts}
  <1>3. T \in SUBSET Nat /\ T # {}
    <2>1. a - 1 \in Nat /\ a - (a - 1) = 1
      BY <1>1
    <2>2. a - 1 \in T
      BY <1>1, <2>1
    <2> QED
      BY <2>2
  <1>4. PICK d \in T : \A x \in T : d <= x
    BY <1>3, Least
  <1> DEFINE f == a - d
  <1>5. d \in Nat /\ f \in Starts /\ f <= a /\ t \in Nat /\ f \in Nat
    BY <1>1, <1>2, <1>4
  <1>6. f \in Ranged
    <2>1. t > f
      BY <1>1, <1>2, <1>5
    <2> QED
      BY <1>5, <2>1 DEF Ranged
  <1>7. NextStart(f) \in Starts /\ NextStart(f) > f /\ NextStart(f) \in Nat
    BY <1>6, NextStartIs
  <1>8. a < NextStart(f)
    <2> SUFFICES ASSUME ~ (a < NextStart(f)) PROVE FALSE
      OBVIOUS
    <2> DEFINE g == NextStart(f)
    <2>1. a - g \in Nat /\ a - (a - g) = g /\ a - g < d
      <3> HIDE DEF g
      <3> QED
        BY <1>1, <1>5, <1>7 DEF g
    <2>2. a - g \in T
      BY <1>7, <2>1
    <2> QED
      BY <1>4, <1>5, <2>1, <2>2
  <1> HIDE DEF f
  <1>9. HasMRS(prog, f)
    <2>1. a \in f..Len(prog) /\ NextStart(f) \in Ends(f, Len(prog) + 1)
      BY <1>1, <1>5 DEF Ends
    <2> QED
      BY <1>8, <2>1 DEF HasMRS, Inst
  <1> QED
    BY <1>5, <1>6, <1>8, <1>9 DEF Reader

LEMMA SameReader ==
    ASSUME prog \in Programs, NEW a \in Nat, NEW b \in Nat, SameFunction(a, b), Reader(a)
    PROVE  Reader(b)
  <1>1. PICK f \in Ranged : f <= a /\ a < NextStart(f) /\ HasMRS(prog, f)
    BY DEF Reader
  <1>2. f \in Starts /\ NextStart(f) \in Starts /\ f \in Nat /\ NextStart(f) \in Nat
    BY NextStartIs DEF Ranged
  <1>3. (f <= a <=> f <= b) /\ (NextStart(f) <= a <=> NextStart(f) <= b)
    BY <1>2 DEF SameFunction
  <1>4. f <= b /\ b < NextStart(f)
    BY <1>1, <1>2, <1>3
  <1> QED
    BY <1>1, <1>4 DEF Reader

LEMMA KnownNext ==
    ASSUME Given, ReadsOK, NEW a \in 1..Len(prog), NEW b \in Nat, Edge(a, b), SameFunction(a, b),
           NEW o, Known(a, o)
    PROVE  Known(b, After(Inst(a), o))
  <1>1. prog \in Programs /\ Len(prog) \in Nat /\ a \in Nat /\ DOMAIN prog = 1..Len(prog)
    BY ProgramFacts DEF Given
  <1>2. Tracks(b, After(Inst(a), o))
    BY <1>1, EdgeTracks DEF Known
  <1>3. After(Inst(a), o) \subseteq Regs
    <2>1. Inst(a).op = "mrs" => Inst(a).reg \in Regs
      BY <1>1, TsdAssumption DEF Inst
    <2> QED
      BY <2>1 DEF Known, After
  <1>4. After(Inst(a), o) # {} => o # {} \/ Inst(a).op = "mrs"
    BY DEF After
  <1>5. o # {} \/ Inst(a).op = "mrs" => Reader(a)
    BY <1>1, ReadsInReader DEF Known
  <1>6. Reader(a) => Reader(b)
    BY <1>1, SameReader
  <1> QED
    BY <1>2, <1>3, <1>4, <1>5, <1>6 DEF Known

LEMMA KnownNothing ==
    ASSUME NEW a
    PROVE  Known(a, {})
  BY NothingTracks DEF Known

(* A step of the program leaves what the scan found.                       *)
LEMMA RunStep ==
    ASSUME SeenInv, phase = "run", phase' \in {"run", "over"}, UNCHANGED <<prog, ends, scan>>, RunOK'
    PROVE  SeenInv'
  <1>1. UNCHANGED <<prog, ends, pending, next, found, fun>>
    BY DEF scan
  <1>2. Given /\ SolveOK /\ ScannedOK /\ fun = 0
    BY DEF SeenInv, RunOK
  <1>3. Given'
    BY <1>1, <1>2, SameProgram
  <1>4. ScannedOK'
    <2>1. \A g : Good(g) => Good(g)'
      BY <1>1, SameGood
    <2> QED
      BY <1>1, <1>2, <2>1 DEF ScannedOK
  <1>5. SolveOK'
    BY <1>1, <1>2 DEF SolveOK
  <1> QED
    BY <1>3, <1>4, <1>5 DEF SeenInv

LEMMA GotoSeen ==
    ASSUME SeenInv, ReadsOK, phase = "run", NEW a \in 1..Size, NEW h \in SUBSET Regs, NEW o,
           Goto(a, h, o), o = {} \/ (Edge(pc, a) /\ o = After(Inst(pc), own))
    PROVE  SeenInv'
  <1>1. /\ pc' = a /\ held' = h /\ own' = (IF SameFunction(pc, a) THEN o ELSE {})
        /\ phase' = (IF a = Size THEN "over" ELSE "run")
        /\ UNCHANGED <<prog, ends, scan, open, found, pending, fun>>
    BY DEF Goto, scan
  <1>2. /\ Given /\ found = {} /\ pending = {} /\ fun = 0
        /\ pc \in 1..Len(prog) /\ Known(pc, own) /\ open \in Seq(Frames)
        /\ \A k \in 1..Len(open) : CallAt(open[k].back - 1) /\ Known(open[k].back - 1, open[k].own)
    BY DEF SeenInv, RunOK
  <1>3. Len(prog) \in Nat /\ a \in Nat
    BY <1>2, ProgramFacts DEF Given, Size
  <1>4. Known(a, own')
    <2>1. CASE own' = {}
      BY <2>1, KnownNothing
    <2>2. CASE own' # {}
      <3>1. SameFunction(pc, a) /\ own' = o /\ Edge(pc, a) /\ o = After(Inst(pc), own)
        BY <1>1, <2>2
      <3> QED
        BY <1>2, <1>3, <3>1, KnownNext
    <2> QED
      BY <2>1, <2>2
  <1>5. Known(pc, own)' /\ \A k \in 1..Len(open) : CallAt(open[k].back - 1)' /\ Known(open[k].back - 1, open[k].own)'
    <2>1. (\A x, q : Known(x, q)' <=> Known(x, q)) /\ (\A x : CallAt(x)' <=> CallAt(x))
      BY <1>1, SameFacts
    <2>2. Known(pc, own)' <=> Known(a, own')
      BY <1>1, <2>1 DEF Known
    <2> QED
      BY <1>1, <1>2, <1>4, <2>1, <2>2
  <1>6. RunOK'
    <2>1. phase' = "run" => pc' \in 1..Len(prog)
      BY <1>1, <1>3 DEF Size
    <2> QED
      BY <1>1, <1>2, <1>5, <2>1 DEF RunOK
  <1> QED
    BY <1>1, <1>6, RunStep

(* What is known of a program that runs.                                   *)
LEMMA RunFacts ==
    ASSUME SeenInv, phase = "run"
    PROVE  /\ pc \in 1..Len(prog) /\ Len(prog) \in Nat /\ pc + 1 \in 1..Size
           /\ held \subseteq Regs /\ own \subseteq Regs
           /\ Inst(pc).op \in {"mrs", "write", "access", "use"} => Inst(pc).reg \in Regs
           /\ Inst(pc).op \in {"branch", "cond", "call"} => Inst(pc).target \in 1..Len(prog) /\ Inst(pc).target \in 1..Size
  <1>1. prog \in Programs /\ pc \in 1..Len(prog) /\ held \subseteq Regs /\ own \subseteq Regs
    BY DEF SeenInv, RunOK, Given, Known
  <1>2. /\ Len(prog) \in Nat /\ DOMAIN prog = 1..Len(prog)
        /\ Inst(pc).op \in {"branch", "cond", "call"} => Inst(pc).target \in 1..Len(prog)
    BY <1>1, ProgramFacts
  <1>3. pc + 1 \in 1..Size /\ \A x \in 1..Len(prog) : x \in 1..Size
    BY <1>1, <1>2 DEF Size
  <1>4. Inst(pc).op \in {"mrs", "write", "access", "use"} => Inst(pc).reg \in Regs
    BY <1>1, <1>2, TsdAssumption DEF Inst
  <1> QED
    BY <1>1, <1>2, <1>3, <1>4

(* The steps that stay in the activation.                                  *)
LEMMA PlainStepSeen ==
    ASSUME SeenInv, ReadsOK, RunMRS \/ RunWrite \/ RunUse \/ RunBranch \/ RunIndirectCall
    PROVE  SeenInv'
  <1>1. phase = "run"
    BY DEF RunMRS, RunWrite, RunUse, RunBranch, RunIndirectCall, Running
  <1>2. /\ pc + 1 \in 1..Size /\ held \subseteq Regs /\ own \subseteq Regs
        /\ Inst(pc).op \in {"mrs", "write", "access", "use"} => Inst(pc).reg \in Regs
        /\ Inst(pc).op \in {"branch", "cond", "call"} => Inst(pc).target \in 1..Size
    BY <1>1, RunFacts
  <1>3. CASE RunMRS
    <2>1. Inst(pc).op = "mrs" /\ Goto(pc + 1, held \cup {Inst(pc).reg}, own \cup {Inst(pc).reg})
      BY <1>3 DEF RunMRS, Running
    <2>2. Edge(pc, pc + 1) /\ own \cup {Inst(pc).reg} = After(Inst(pc), own) /\ held \cup {Inst(pc).reg} \in SUBSET Regs
      BY <1>2, <2>1 DEF Edge, After
    <2> QED
      BY <1>1, <1>2, <2>1, <2>2, GotoSeen
  <1>4. CASE RunWrite
    <2>1. Inst(pc).op = "write" /\ Goto(pc + 1, held \ {Inst(pc).reg}, own \ {Inst(pc).reg})
      BY <1>4 DEF RunWrite, Running
    <2>2. Edge(pc, pc + 1) /\ own \ {Inst(pc).reg} = After(Inst(pc), own) /\ held \ {Inst(pc).reg} \in SUBSET Regs
      BY <1>2, <2>1 DEF Edge, After
    <2> QED
      BY <1>1, <1>2, <2>1, <2>2, GotoSeen
  <1>5. CASE RunUse
    <2>1. Inst(pc).op = "use" /\ Goto(pc + 1, held, own)
      BY <1>5 DEF RunUse, Running
    <2>2. Edge(pc, pc + 1) /\ own = After(Inst(pc), own) /\ held \in SUBSET Regs
      BY <1>2, <2>1 DEF Edge, After
    <2> QED
      BY <1>1, <1>2, <2>1, <2>2, GotoSeen
  <1>6. CASE RunBranch
    <2>1. PICK a \in {Inst(pc).target, pc + 1} :
              /\ Goto(a, held, own)
              /\ Inst(pc).op = "cond" \/ (Inst(pc).op = "branch" /\ a = Inst(pc).target)
      BY <1>6 DEF RunBranch, Running
    <2>2. Edge(pc, a) /\ own = After(Inst(pc), own) /\ held \in SUBSET Regs /\ a \in 1..Size
      BY <1>2, <2>1 DEF Edge, After
    <2> QED
      BY <1>1, <2>1, <2>2, GotoSeen
  <1>7. CASE RunIndirectCall
    <2>1. Goto(pc + 1, held \cap CalleeSaved, {}) /\ held \cap CalleeSaved \in SUBSET Regs
      BY <1>2, <1>7 DEF RunIndirectCall
    <2> QED
      BY <1>1, <1>2, <2>1, GotoSeen
  <1> QED
    BY <1>3, <1>4, <1>5, <1>6, <1>7

(* An access goes on, or ends at the page below the audited slot.          *)
LEMMA RunAccessSeen ==
    ASSUME SeenInv, ReadsOK, RunAccess
    PROVE  SeenInv'
  <1>1. phase = "run" /\ Inst(pc).op = "access"
    BY DEF RunAccess, Running
  <1>2. CASE Goto(pc + 1, held, own)
    <2>1. Edge(pc, pc + 1) /\ own = After(Inst(pc), own) /\ held \in SUBSET Regs /\ pc + 1 \in 1..Size
      BY <1>1, RunFacts DEF Edge, After
    <2> QED
      BY <1>1, <1>2, <2>1, GotoSeen
  <1>3. CASE phase' = "over" /\ UNCHANGED <<prog, ends, scan, machine>>
    <2>1. RunOK'
      BY <1>3 DEF RunOK
    <2> QED
      BY <1>1, <1>3, <2>1, RunStep
  <1> QED
    BY <1>2, <1>3 DEF RunAccess

(* A call leaves the caller's bases in its frame.                          *)
LEMMA RunCallSeen ==
    ASSUME SeenInv, ReadsOK, RunCall
    PROVE  SeenInv'
  <1> DEFINE c == [back |-> pc + 1, held |-> held, own |-> own]
  <1>1. /\ phase = "run" /\ Inst(pc).op = "call" /\ open' = Append(open, c)
        /\ pc' = Inst(pc).target /\ own' = {}
        /\ UNCHANGED <<prog, ends, phase, scan, held, found, pending, fun>>
    BY DEF RunCall, Running, scan
  <1>2. /\ Given /\ found = {} /\ pending = {} /\ fun = 0
        /\ Known(pc, own) /\ open \in Seq(Frames)
        /\ \A k \in 1..Len(open) : CallAt(open[k].back - 1) /\ Known(open[k].back - 1, open[k].own)
    BY <1>1 DEF SeenInv, RunOK
  <1>3. /\ pc \in 1..Len(prog) /\ Len(prog) \in Nat /\ Inst(pc).target \in 1..Len(prog)
        /\ held \subseteq Regs /\ own \subseteq Regs
    BY <1>1, RunFacts
  <1>4. c \in Frames /\ c.back - 1 = pc /\ c.own = own
    BY <1>3 DEF Frames
  <1> HIDE DEF c
  <1>5. /\ open' \in Seq(Frames) /\ Len(open') = Len(open) + 1 /\ Len(open) \in Nat
        /\ open'[Len(open) + 1] = c
        /\ \A i \in 1..Len(open) : open'[i] = open[i]
    BY <1>1, <1>2, <1>4, Pushed, StackElements
  <1>6. \A k \in 1..Len(open') : CallAt(open'[k].back - 1) /\ Known(open'[k].back - 1, open'[k].own)
    <2>1. CallAt(c.back - 1) /\ Known(c.back - 1, c.own)
      BY <1>1, <1>2, <1>3, <1>4 DEF CallAt
    <2>2. \A k \in 1..Len(open') : k \in 1..Len(open) \/ k = Len(open) + 1
      BY <1>5
    <2> QED
      BY <1>2, <1>5, <2>1, <2>2
  <1>7. RunOK'
    <2>1. (\A x, q : Known(x, q)' <=> Known(x, q)) /\ (\A x : CallAt(x)' <=> CallAt(x))
      BY <1>1, SameFacts
    <2>2. Known(pc, own)'
      <3>1. \A x : Known(x, {})'
        BY <2>1, KnownNothing
      <3> QED
        BY <1>1, <3>1 DEF Known
    <2>3. \A k \in 1..Len(open') : CallAt(open[k].back - 1)' /\ Known(open[k].back - 1, open[k].own)'
      <3>1. \A k : Known(open[k].back - 1, open[k].own)' <=> Known(open'[k].back - 1, open'[k].own)
        BY <1>1, <2>1 DEF Known
      <3>2. \A k : CallAt(open[k].back - 1)' <=> CallAt(open'[k].back - 1)
        BY <1>1, <2>1 DEF CallAt
      <3> QED
        BY <1>6, <3>1, <3>2
    <2> QED
      BY <1>1, <1>2, <1>3, <1>5, <2>2, <2>3 DEF RunOK
  <1> QED
    BY <1>1, <1>7, RunStep

(* A return brings back what a call preserves of the caller's bases.       *)
LEMMA RunRetSeen ==
    ASSUME SeenInv, ReadsOK, RunRet
    PROVE  SeenInv'
  <1>1. phase = "run"
    BY DEF RunRet, Running
  <1>2. CASE open = <<>>
    <2>1. phase' = "over" /\ UNCHANGED <<prog, ends, scan, machine>>
      BY <1>2 DEF RunRet
    <2>2. RunOK'
      BY <2>1 DEF RunOK
    <2> QED
      BY <1>1, <2>1, <2>2, RunStep
  <1>3. CASE open # <<>>
    <2> DEFINE c == open[Len(open)]
               a == c.back - 1
    <2>1. /\ pc' = c.back
          /\ held' = (c.held \cap CalleeSaved) \cup (held \ CalleeSaved)
          /\ own' = (IF SameFunction(c.back - 1, c.back) THEN c.own \cap CalleeSaved ELSE {})
          /\ open' = SubSeq(open, 1, Len(open) - 1)
          /\ phase' = (IF c.back = Size THEN "over" ELSE "run")
          /\ UNCHANGED <<prog, ends, scan, found, pending, fun>>
      BY <1>1, <1>3 DEF RunRet, scan
    <2>2. /\ Given /\ found = {} /\ pending = {} /\ fun = 0 /\ held \subseteq Regs /\ open \in Seq(Frames)
          /\ \A k \in 1..Len(open) : CallAt(open[k].back - 1) /\ Known(open[k].back - 1, open[k].own)
      BY <1>1 DEF SeenInv, RunOK
    <2>3. Len(open) \in Nat /\ Len(open) \in 1..Len(open) /\ c \in Frames
      BY <1>3, <2>2, StackElements
    <2>4. CallAt(a) /\ Known(a, c.own)
      BY <2>2, <2>3
    <2>5. c.back \in Nat /\ c.held \subseteq Regs /\ c.own \subseteq Regs
      BY <2>3 DEF Frames
    <2>6. /\ open' \in Seq(Frames) /\ Len(open') = Len(open) - 1
          /\ \A i \in 1..(Len(open) - 1) : open'[i] = open[i]
      BY <1>3, <2>1, <2>2, TopPopped DEF Popped
    <2> HIDE DEF c
    <2>7. a \in 1..Len(prog) /\ Inst(a).op = "call" /\ c.back = a + 1 /\ Len(prog) \in Nat
      BY <2>2, <2>4, <2>5, ProgramFacts DEF CallAt, Given
    <2>8. Known(c.back, own')
      <3>1. CASE ~ SameFunction(c.back - 1, c.back)
        BY <2>1, <3>1, KnownNothing
      <3>2. CASE SameFunction(c.back - 1, c.back)
        <4>1. After(Inst(a), c.own) = c.own \cap CalleeSaved /\ Edge(a, c.back)
          BY <2>7 DEF After, Edge
        <4>2. Known(c.back, After(Inst(a), c.own))
          BY <2>2, <2>4, <2>5, <2>7, <3>2, <4>1, KnownNext
        <4> QED
          BY <2>1, <3>2, <4>1, <4>2
      <3> QED
        BY <3>1, <3>2
    <2>9. RunOK'
      <3>1. (\A x, q : Known(x, q)' <=> Known(x, q)) /\ (\A x : CallAt(x)' <=> CallAt(x))
        BY <2>1, SameFacts
      <3>2. Known(pc, own)'
        BY <2>1, <2>8, <3>1 DEF Known
      <3>3. \A k \in 1..Len(open') : CallAt(open[k].back - 1)' /\ Known(open[k].back - 1, open[k].own)'
        <4>1. \A k : Known(open[k].back - 1, open[k].own)' <=> Known(open'[k].back - 1, open'[k].own)
          BY <2>1, <3>1 DEF Known
        <4>2. \A k : CallAt(open[k].back - 1)' <=> CallAt(open'[k].back - 1)
          BY <2>1, <3>1 DEF CallAt
        <4>3. \A k \in 1..Len(open') : k \in 1..Len(open) /\ open'[k] = open[k]
          BY <2>3, <2>6
        <4> QED
          BY <2>2, <4>1, <4>2, <4>3
      <3>4. phase' = "run" => pc' \in 1..Len(prog)
        BY <2>1, <2>7 DEF Size
      <3>5. held' \subseteq Regs
        BY <2>1, <2>2, <2>5
      <3> QED
        BY <2>1, <2>2, <2>6, <3>2, <3>3, <3>4, <3>5 DEF RunOK
    <2> QED
      BY <1>1, <2>1, <2>9, RunStep
  <1> QED
    BY <1>2, <1>3

LEMMA SeenNext ==
    ASSUME ReadsOK
    PROVE  SeenInv /\ [Next]_vars => SeenInv'
  <1> SUFFICES ASSUME SeenInv, [Next]_vars PROVE SeenInv'
    OBVIOUS
  <1>1. CASE UNCHANGED vars
    <2>1. UNCHANGED <<prog, ends, phase, pending, next, found, fun, dir, in, mayIn, work, pc, held, own, open>>
      BY <1>1 DEF vars, scan, machine
    <2>2. Given /\ SolveOK /\ ScannedOK /\ RunOK
      BY DEF SeenInv
    <2>3. Given'
      BY <2>1, <2>2, SameProgram
    <2>4. SolveOK'
      <3>1. /\ \A f : Leaders(f)' = Leaders(f)
            /\ \A f, l : Succs(f, l)' = Succs(f, l)
            /\ \A f, l, s : Transfer(f, l, s)' = Transfer(f, l, s)
        BY <2>1, SameProgram
      <3>2. Leaders(fun)' = Leaders(fun)
        BY <2>1, <3>1
      <3>3. \A l : Arrived(fun, l)' <=> Arrived(fun, l)
        BY <2>1, <3>1 DEF Arrived, Transfer, Succs
      <3>4. Settled(fun, mayIn)' <=> Settled(fun, mayIn)
        BY <2>1, <3>1 DEF Settled
      <3>5. \A l : Has(work, l)' <=> Has(work, l)
        BY <2>1 DEF Has
      <3> QED
        BY <2>1, <2>2, <3>2, <3>3, <3>4, <3>5 DEF SolveOK
    <2>5. ScannedOK'
      <3>1. \A g : Good(g) => Good(g)'
        BY <2>1, SameGood
      <3> QED
        BY <2>1, <2>2, <3>1 DEF ScannedOK
    <2>6. RunOK'
      <3>1. (\A x, q : Known(x, q)' <=> Known(x, q)) /\ (\A x : CallAt(x)' <=> CallAt(x))
        BY <2>1, SameFacts
      <3>2. Known(pc, own)' <=> Known(pc, own)
        BY <2>1, <3>1 DEF Known
      <3>3. \A k : Known(open[k].back - 1, open[k].own)' <=> Known(open[k].back - 1, open[k].own)
        BY <2>1, <3>1 DEF Known
      <3>4. \A k : CallAt(open[k].back - 1)' <=> CallAt(open[k].back - 1)
        BY <2>1, <3>1 DEF CallAt
      <3> QED
        BY <2>1, <2>2, <3>2, <3>3, <3>4 DEF RunOK
    <2> QED
      BY <2>3, <2>4, <2>5, <2>6 DEF SeenInv
  <1>2. CASE Scan
    <2>1. CASE \E f \in Starts : BeginFunction(f)
      BY <2>1, BeginFunctionSeen
    <2>2. CASE SolveBlock
      BY <2>2, SolveBlockSeen
    <2>3. CASE MayDone
      BY <2>3, MayDoneSeen
    <2>4. CASE EndFunction
      BY <2>4, EndFunctionSeen
    <2>5. CASE NextRound
      BY <2>5, NextRoundSeen
    <2>6. CASE EndScan
      BY <2>6, EndScanSeen
    <2> QED
      BY <1>2, <2>1, <2>2, <2>3, <2>4, <2>5, <2>6 DEF Scan
  <1>3. CASE Run
    <2>1. CASE RunMRS \/ RunWrite \/ RunUse \/ RunBranch \/ RunIndirectCall
      BY <2>1, PlainStepSeen
    <2>2. CASE RunAccess
      BY <2>2, RunAccessSeen
    <2>3. CASE RunCall
      BY <2>3, RunCallSeen
    <2>4. CASE RunRet
      BY <2>4, RunRetSeen
    <2> QED
      BY <1>3, <2>1, <2>2, <2>3, <2>4 DEF Run
  <1> QED
    BY <1>1, <1>2, <1>3 DEF Next

(* A program that the scan accepted reaches no slot above the audited one  *)
(* through a base that the running function read itself, by a load or      *)
(* store at a fixed offset from the register that holds it, if the last    *)
(* function reads none: whatever the program's branches, loops and calls,  *)
(* and in whatever order its functions are analysed (tsd_scan.cpp 225-232, *)
(* 327-339, 598-626).                                                      *)
THEOREM AccessIsSeenHolds ==
    ASSUME ReadsOK
    PROVE  Spec => []AccessIsSeen
  <1>1. Init => SeenInv
    BY SeenInit
  <1>2. SeenInv /\ [Next]_vars => SeenInv'
    BY SeenNext
  <1>3. SeenInv => AccessIsSeen
    <2> SUFFICES ASSUME SeenInv, phase = "run", Inst(pc).op = "access", Inst(pc).off = "above",
                        Inst(pc).reg \in own
                 PROVE  FALSE
      BY DEF AccessIsSeen
    <2>1. /\ Given /\ found = {} /\ pending = {} /\ fun = 0 /\ ScannedOK
          /\ Tracks(pc, own) /\ Reader(pc)
      BY DEF SeenInv, RunOK, Known
    <2>2. pc \in Nat
      BY RunFacts
    <2>3. PICK f \in Ranged : f <= pc /\ pc < NextStart(f) /\ HasMRS(prog, f)
      BY <2>1 DEF Reader
    <2>4. Good(f)
      BY <2>1, <2>3, NoFunctionAtZero DEF ScannedOK, Given
    <2>5. PICK M : /\ Settled(f, M)
                   /\ \A l \in Leaders(f) : \A a \in l..(BlockEnd(f, l) - 1) :
                          Inst(a).op = "access" /\ Inst(a).off # "audited" /\ Inst(a).reg \in Before(f, l, M[l])[a]
                              => a \in found
      BY <2>4 DEF Good
    <2>6. pc < ends[f]
      <3>1. NextStart(f) \in Nat /\ ends[f] \in Nat /\ NextStart(f) <= ends[f]
        BY <2>1, NextStartIs, RangeIs DEF Given
      <3> QED
        BY <2>2, <2>3, <3>1
    <2>7. PICK l \in Leaders(f) : l <= pc /\ pc < BlockEnd(f, l)
      BY <2>1, <2>2, <2>3, <2>6, BlockOf
    <2>8. own \subseteq Before(f, l, M[l])[pc]
      BY <2>1, <2>3, <2>5, <2>7 DEF Tracks
    <2>9. pc \in l..(BlockEnd(f, l) - 1)
      <3>1. l \in Nat /\ BlockEnd(f, l) \in Nat
        BY <2>1, BlockEndIs
      <3> QED
        BY <2>2, <2>7, <3>1
    <2> QED
      BY <2>1, <2>5, <2>8, <2>9
  <1> QED
    BY <1>1, <1>2, <1>3, PTL DEF Spec
=============================================================================
