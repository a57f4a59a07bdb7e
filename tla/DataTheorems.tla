---------------------------- MODULE DataTheorems ----------------------------
(***************************************************************************)
(* Facts about the data the other modules use: sequences as stacks (the    *)
(* frames of ShadowClasses, MsgRoute, Process and TsdScan), sets of        *)
(* numbers in order (Orders), and what the conversions of Widths keep, for *)
(* every width of the two sides and every number of sentinels: the checks  *)
(* of Marshal use one scaled width only.                                   *)
(***************************************************************************)
EXTENDS Orders, Sequences, SequenceTheorems, FiniteSetTheorems, WellFoundedInduction, TLAPS

(* A stack without its innermost frame, with another one in its place, and *)
(* without it and with another frame in the place of the one below it.     *)
Popped(s) == SubSeq(s, 1, Len(s) - 1)
Replaced(s, f) == Append(SubSeq(s, 1, Len(s) - 1), f)
Returned(s, f) == Append(SubSeq(s, 1, Len(s) - 2), f)

(* The elements of a stack.                                                *)
LEMMA StackElements ==
    ASSUME NEW S, NEW s \in Seq(S)
    PROVE  /\ Len(s) \in Nat
           /\ s = <<>> <=> Len(s) = 0
           /\ \A i \in 1..Len(s) : s[i] \in S
  BY EmptySeq, ElementOfSeq, LenProperties

(* The innermost frames are gone.                                          *)
LEMMA Prefix ==
    ASSUME NEW S, NEW s \in Seq(S), NEW n \in 0..Len(s)
    PROVE  LET r == SubSeq(s, 1, n)
           IN  /\ r \in Seq(S) /\ Len(r) = n
               /\ r = <<>> <=> n = 0
               /\ \A i \in 1..n : r[i] = s[i]
  <1> DEFINE r == SubSeq(s, 1, n)
  <1>1. n \in Int /\ 1 \in Int /\ \A i \in 1..n : s[i] \in S
    BY StackElements
  <1>2. /\ r \in Seq(S)
        /\ Len(r) = IF 1 <= n THEN n - 1 + 1 ELSE 0
        /\ \A i \in 1..(n - 1 + 1) : r[i] = s[1 + i - 1]
    BY <1>1, SubSeqProperties
  <1> HIDE DEF r
  <1>3. Len(r) = n
    BY <1>1, <1>2, StackElements
  <1>4. \A i \in 1..n : r[i] = s[i]
    BY <1>1, <1>2
  <1>5. r = <<>> <=> n = 0
    BY <1>2, <1>3, StackElements
  <1> QED
    BY <1>2, <1>3, <1>4, <1>5 DEF r

(* The innermost frame is replaced.                                        *)
LEMMA TopChanged ==
    ASSUME NEW S, NEW s \in Seq(S), s # <<>>, NEW f \in S
    PROVE  /\ Replaced(s, f) \in Seq(S) /\ Len(Replaced(s, f)) = Len(s) /\ Replaced(s, f) # <<>>
           /\ Replaced(s, f)[Len(s)] = f
           /\ \A i \in 1..(Len(s) - 1) : Replaced(s, f)[i] = s[i]
  <1> DEFINE b == SubSeq(s, 1, Len(s) - 1)
  <1>1. Len(s) \in Nat /\ Len(s) > 0 /\ Len(s) - 1 \in 0..Len(s)
    BY StackElements
  <1>2. b \in Seq(S) /\ Len(b) = Len(s) - 1 /\ \A i \in 1..(Len(s) - 1) : b[i] = s[i]
    BY <1>1, Prefix
  <1> HIDE DEF b
  <1>3. /\ Append(b, f) \in Seq(S) /\ Append(b, f) # <<>> /\ Len(Append(b, f)) = Len(b) + 1
        /\ \A i \in 1..Len(b) : Append(b, f)[i] = b[i]
        /\ Append(b, f)[Len(b) + 1] = f
    BY <1>2, AppendProperties
  <1>4. /\ Len(Append(b, f)) = Len(s)
        /\ \A i \in 1..(Len(s) - 1) : Append(b, f)[i] = s[i]
        /\ Append(b, f)[Len(s)] = f
    BY <1>1, <1>2, <1>3
  <1> QED
    BY <1>3, <1>4 DEF b, Replaced

(* The innermost frame is gone.                                            *)
LEMMA TopPopped ==
    ASSUME NEW S, NEW s \in Seq(S), s # <<>>
    PROVE  /\ Popped(s) \in Seq(S) /\ Len(Popped(s)) = Len(s) - 1
           /\ Popped(s) = <<>> <=> Len(s) = 1
           /\ \A i \in 1..(Len(s) - 1) : Popped(s)[i] = s[i]
  <1> DEFINE n == Len(s) - 1
  <1>1. n \in 0..Len(s) /\ (n = 0 <=> Len(s) = 1)
    BY StackElements
  <1> HIDE DEF n
  <1>2. LET r == SubSeq(s, 1, n)
        IN  /\ r \in Seq(S) /\ Len(r) = n
            /\ r = <<>> <=> n = 0
            /\ \A i \in 1..n : r[i] = s[i]
    BY <1>1, Prefix
  <1> QED
    BY <1>1, <1>2 DEF n, Popped

(* A frame is pushed.                                                      *)
LEMMA Pushed ==
    ASSUME NEW S, NEW s \in Seq(S), NEW f \in S
    PROVE  /\ Append(s, f) \in Seq(S) /\ Len(Append(s, f)) = Len(s) + 1 /\ Append(s, f) # <<>>
           /\ Append(s, f)[Len(s) + 1] = f
           /\ \A i \in 1..Len(s) : Append(s, f)[i] = s[i]
  BY AppendProperties

(* The innermost frame is gone and the one below it is replaced.           *)
LEMMA TopReturned ==
    ASSUME NEW S, NEW s \in Seq(S), Len(s) > 1, NEW f \in S
    PROVE  /\ Returned(s, f) \in Seq(S) /\ Len(Returned(s, f)) = Len(s) - 1 /\ Returned(s, f) # <<>>
           /\ Returned(s, f)[Len(s) - 1] = f
           /\ \A i \in 1..(Len(s) - 2) : Returned(s, f)[i] = s[i]
  <1> DEFINE b == SubSeq(s, 1, Len(s) - 2)
  <1>1. Len(s) \in Nat /\ Len(s) - 2 \in 0..Len(s)
    BY StackElements
  <1>2. b \in Seq(S) /\ Len(b) = Len(s) - 2 /\ \A i \in 1..(Len(s) - 2) : b[i] = s[i]
    BY <1>1, Prefix
  <1> HIDE DEF b
  <1>3. /\ Append(b, f) \in Seq(S) /\ Append(b, f) # <<>> /\ Len(Append(b, f)) = Len(b) + 1
        /\ \A i \in 1..Len(b) : Append(b, f)[i] = b[i]
        /\ Append(b, f)[Len(b) + 1] = f
    BY <1>2, AppendProperties
  <1>4. /\ Len(Append(b, f)) = Len(s) - 1
        /\ \A i \in 1..(Len(s) - 2) : Append(b, f)[i] = s[i]
        /\ Append(b, f)[Len(s) - 1] = f
    BY <1>1, <1>2, <1>3
  <1> QED
    BY <1>3, <1>4 DEF b, Returned

(* The same under a name, for proofs that take the facts one by one.       *)
ReturnedOK(S, s, f) ==
    /\ Returned(s, f) \in Seq(S) /\ Len(Returned(s, f)) = Len(s) - 1 /\ Returned(s, f) # <<>>
    /\ Returned(s, f)[Len(s) - 1] = f
    /\ \A i \in 1..(Len(s) - 2) : Returned(s, f)[i] = s[i]

LEMMA TopReturnedOK ==
    ASSUME NEW S, NEW s \in Seq(S), Len(s) > 1, NEW f \in S
    PROVE  ReturnedOK(S, s, f)
  BY TopReturned DEF ReturnedOK

(* Several frames are pushed at once.                                      *)
LEMMA PushedTwo ==
    ASSUME NEW S, NEW s \in Seq(S), NEW a \in S, NEW b \in S
    PROVE  s \o <<>> = s /\ s \o <<a, b>> = Append(Append(s, a), b)
  <1>1. s \o <<>> = s
    BY ConcatEmptySeq
  <1>2. Append(s, a) = s \o <<a>> /\ s \o <<a>> \in Seq(S)
    BY AppendIsConcat, AppendProperties
  <1>3. Append(s \o <<a>>, b) = (s \o <<a>>) \o <<b>>
    BY <1>2, AppendIsConcat
  <1>4. (s \o <<a>>) \o <<b>> = s \o (<<a>> \o <<b>>)
    BY ConcatAssociative
  <1>5. <<a>> \o <<b>> = <<a, b>>
    <2> DEFINE x == <<a>>
               z == <<a, b>>
    <2>1. /\ x \in Seq(S) /\ Len(x) = 1 /\ x[1] = a
          /\ z \in Seq(S) /\ Len(z) = 2 /\ z[1] = a /\ z[2] = b
      OBVIOUS
    <2> HIDE DEF x, z
    <2>2. Append(x, b) \in Seq(S) /\ Len(Append(x, b)) = 2 /\ Append(x, b)[1] = a /\ Append(x, b)[2] = b
      <3>0. x \in Seq(S)
        BY <2>1
      <3>1. /\ Append(x, b) \in Seq(S) /\ Len(Append(x, b)) = Len(x) + 1
            /\ Append(x, b)[Len(x) + 1] = b
            /\ \A i \in 1..Len(x) : Append(x, b)[i] = x[i]
        BY <3>0, Pushed
      <3> QED
        BY <2>1, <3>1
    <2>3. Append(x, b) = z
      BY <2>1, <2>2, SeqEqual
    <2>4. Append(x, b) = x \o <<b>>
      BY <2>1, AppendIsConcat
    <2> QED
      BY <2>3, <2>4 DEF x, z
  <1> QED
    BY <1>1, <1>2, <1>3, <1>4, <1>5

-----------------------------------------------------------------------------
(* Sets of numbers.  Induction is by the least counterexample: every set   *)
(* of naturals that is not empty has a least element.                      *)
LEMMA Least ==
    ASSUME NEW T \in SUBSET Nat, T # {}
    PROVE  \E x \in T : \A y \in T : x <= y
  <1> DEFINE R == {ss \in Nat \X Nat : ss[1] < ss[2]}
  <1>1. IsWellFoundedOn(R, Nat)
    BY NatLessThanWellFounded DEF OpToRel
  <1>2. ASSUME NEW x \in Nat, NEW y \in Nat, y < x
        PROVE  <<y, x>> \in R
    BY <1>2
  <1> HIDE DEF R
  <1>3. PICK x \in T : \A y \in T : ~ (<<y, x>> \in R)
    BY <1>1, WFMin
  <1>4. ASSUME NEW y \in T PROVE x <= y
    <2>1. x \in Nat /\ y \in Nat /\ ~ (<<y, x>> \in R)
      BY <1>3
    <2>2. ~ (y < x)
      BY <1>2, <2>1
    <2> QED
      BY <2>1, <2>2
  <1> QED
    BY <1>4

(* Induction up to a bound: X are the numbers for which something is so.   *)
LEMMA UpToBound ==
    ASSUME NEW N \in Nat, NEW X, 0 \in X, \A n \in 1..N : n - 1 \in X => n \in X
    PROVE  \A n \in 0..N : n \in X
  <1> DEFINE T == {n \in 0..N : n \notin X}
  <1> SUFFICES T = {}
    OBVIOUS
  <1>1. SUFFICES ASSUME T # {} PROVE FALSE
    OBVIOUS
  <1>2. T \in SUBSET Nat
    OBVIOUS
  <1>3. PICK x \in T : \A y \in T : x <= y
    BY <1>1, <1>2, Least
  <1>4. x \in 1..N /\ x \notin X /\ x - 1 \in 0..N
    BY <1>3
  <1>5. x - 1 \in X
    BY <1>3, <1>4
  <1> QED
    BY <1>4, <1>5

(* f[n] comes from a by n applications of F.                               *)
Iterates(f, T, a, F, N) == f \in [0..N -> T] /\ f[0] = a /\ \A n \in 1..N : f[n] = F[f[n - 1]]

(* A function defined by recursion on the number of steps exists.          *)
LEMMA Iteration ==
    ASSUME NEW T, NEW a \in T, NEW F \in [T -> T], NEW N \in Nat
    PROVE  \E f : Iterates(f, T, a, F, N)
  <1> DEFINE Rec(m, f) == f \in [0..m -> T] /\ f[0] = a /\ \A n \in 1..m : f[n] = F[f[n - 1]]
             X == {m \in Nat : \E f : Rec(m, f)}
  <1>1. 0 \in X
    <2> DEFINE g == [n \in 0..0 |-> a]
    <2>1. Rec(0, g)
      OBVIOUS
    <2> QED
      BY <2>1
  <1>2. ASSUME NEW m \in 1..N, m - 1 \in X PROVE m \in X
    <2>1. PICK f : Rec(m - 1, f)
      BY <1>2
    <2> DEFINE g == [n \in 0..m |-> IF n = m THEN F[f[m - 1]] ELSE f[n]]
    <2>2. m - 1 \in 0..(m - 1) /\ \A n \in 0..m : n = m \/ n \in 0..(m - 1)
      OBVIOUS
    <2>3. f \in [0..(m - 1) -> T] /\ f[m - 1] \in T
      BY <2>1, <2>2
    <2>4. g \in [0..m -> T]
      BY <2>2, <2>3
    <2>5. ASSUME NEW n \in 1..m PROVE g[n] = F[g[n - 1]]
      <3>1. CASE n = m
        <4>1. g[n] = F[f[m - 1]] /\ g[m - 1] = f[m - 1]
          BY <3>1
        <4> QED
          BY <3>1, <4>1
      <3>2. CASE n # m
        <4>1. n \in 1..(m - 1) /\ g[n] = f[n] /\ g[n - 1] = f[n - 1]
          BY <3>2
        <4> QED
          BY <2>1, <4>1
      <3> QED
        BY <3>1, <3>2
    <2>6. g[0] = a
      BY <2>1
    <2> HIDE DEF g
    <2>7. Rec(m, g)
      BY <2>4, <2>5, <2>6
    <2> QED
      BY <2>7
  <1> HIDE DEF X
  <1>3. N \in X
    BY <1>1, <1>2, UpToBound
  <1> QED
    BY <1>3 DEF X, Iterates

(* How many elements of S are up to x.                                     *)
UpTo(S, x) == Cardinality({y \in S : y <= x})

LEMMA RankGrows ==
    ASSUME NEW S \in SUBSET Nat, IsFiniteSet(S), NEW d \in S, NEW e \in S, d < e
    PROVE  UpTo(S, d) < UpTo(S, e)
  <1> DEFINE D == {x \in S : x <= d}
             F == {x \in S : x <= e}
  <1>1. D \in SUBSET F /\ F \in SUBSET S /\ e \in F /\ e \notin D
    <2>1. d \in Nat /\ e \in Nat /\ \A x \in S : x \in Nat
      OBVIOUS
    <2>2. \A x \in S : x <= d => x <= e
      BY <2>1
    <2>3. e <= e /\ ~ (e <= d)
      BY <2>1
    <2> QED
      BY <2>2, <2>3
  <1> HIDE DEF D, F
  <1>2. IsFiniteSet(F) /\ IsFiniteSet(D)
    BY <1>1, FS_Subset
  <1>3. Cardinality(D) <= Cardinality(F) /\ Cardinality(D) # Cardinality(F)
    BY <1>1, <1>2, FS_Subset
  <1>4. Cardinality(D) \in Nat /\ Cardinality(F) \in Nat
    BY <1>2, FS_CardinalityType
  <1>5. Cardinality(D) < Cardinality(F)
    BY <1>3, <1>4
  <1> QED
    BY <1>5 DEF UpTo, D, F

LEMMA RankType ==
    ASSUME NEW S \in SUBSET Nat, IsFiniteSet(S), NEW e \in S
    PROVE  Cardinality(S) \in Nat /\ UpTo(S, e) \in 1..Cardinality(S)
  <1> DEFINE F == {x \in S : x <= e}
  <1>1. F \in SUBSET S /\ e \in F
    OBVIOUS
  <1> HIDE DEF F
  <1>2. IsFiniteSet(F) /\ Cardinality(F) <= Cardinality(S)
    BY <1>1, FS_Subset
  <1>3. Cardinality(F) \in Nat /\ Cardinality(S) \in Nat
    BY <1>2, FS_CardinalityType
  <1>4. Cardinality(F) # 0
    BY <1>1, <1>2, FS_EmptySet
  <1>5. Cardinality(S) \in Nat /\ Cardinality(F) \in 1..Cardinality(S)
    BY <1>2, <1>3, <1>4
  <1> QED
    BY <1>5 DEF UpTo, F

LEMMA RankIsUnique ==
    ASSUME NEW S \in SUBSET Nat, IsFiniteSet(S), NEW d \in S, NEW e \in S, UpTo(S, d) = UpTo(S, e)
    PROVE  d = e
  <1>1. d \in Nat /\ e \in Nat /\ UpTo(S, d) \in Nat
    BY RankType
  <1>2. ~ (d < e) /\ ~ (e < d)
    BY <1>1, RankGrows
  <1> QED
    BY <1>1, <1>2

LEMMA EveryRank ==
    ASSUME NEW S \in SUBSET Nat, IsFiniteSet(S), NEW k \in 1..Cardinality(S)
    PROVE  \E e \in S : UpTo(S, e) = k
  <1> DEFINE n == Cardinality(S)
             f == [e \in S |-> UpTo(S, e)]
  <1>1. n \in Nat
    BY FS_CardinalityType
  <1>2. f \in [S -> 1..n] /\ \A d, e \in S : f[d] = f[e] => d = e
    <2>1. \A e \in S : UpTo(S, e) \in 1..n
      BY RankType
    <2>2. \A d, e \in S : UpTo(S, d) = UpTo(S, e) => d = e
      BY RankIsUnique
    <2> QED
      BY <2>1, <2>2
  <1>3. f \in Injection(S, 1..n)
    BY <1>2 DEF Injection, IsInjective
  <1> HIDE DEF f
  <1>4. IsFiniteSet(1..n) /\ Cardinality(1..n) = n
    BY <1>1, FS_Interval
  <1>5. f \in Surjection(S, 1..n)
    BY <1>1, <1>3, <1>4, FS_Injection
  <1>6. \E e \in S : f[e] = k
    BY <1>5 DEF Surjection
  <1> QED
    BY <1>6 DEF f

(* InOrder has every element of the set, the smaller before the greater.   *)
LEMMA InOrderIsSorted ==
    ASSUME NEW S \in SUBSET Nat, IsFiniteSet(S)
    PROVE  /\ Cardinality(S) \in Nat /\ DOMAIN InOrder(S) = 1..Cardinality(S)
           /\ InOrder(S) \in Seq(S) /\ Len(InOrder(S)) = Cardinality(S)
           /\ \A k \in 1..Cardinality(S) : InOrder(S)[k] \in S
           /\ \A k, l \in 1..Cardinality(S) : k < l => InOrder(S)[k] < InOrder(S)[l]
           /\ \A x \in S : \E k \in 1..Cardinality(S) : InOrder(S)[k] = x
  <1> DEFINE n == Cardinality(S)
             o == InOrder(S)
  <1>1. n \in Nat
    BY FS_CardinalityType
  <1>2. o = [k \in 1..n |-> CHOOSE x \in S : UpTo(S, x) = k]
    BY DEF InOrder, UpTo
  <1>3. \A k \in 1..n : o[k] \in S /\ UpTo(S, o[k]) = k
    BY <1>2, EveryRank
  <1>4. DOMAIN o = 1..n
    BY <1>2
  <1> HIDE DEF o
  <1>5. o \in Seq(S) /\ Len(o) = n
    <2>1. o \in [1..n -> S]
      BY <1>2, <1>3
    <2> HIDE DEF n
    <2> QED
      BY <1>1, <2>1
  <1>6. ASSUME NEW k \in 1..n, NEW l \in 1..n, k < l PROVE o[k] < o[l]
    <2>1. o[k] \in S /\ o[l] \in S /\ UpTo(S, o[k]) = k /\ UpTo(S, o[l]) = l
      BY <1>3
    <2>2. k \in Nat /\ l \in Nat /\ o[k] \in Nat /\ o[l] \in Nat
      <3>1. o[k] \in Nat /\ o[l] \in Nat
        BY <2>1
      <3> HIDE DEF n
      <3> QED
        BY <1>1, <3>1
    <2>3. ~ (o[l] < o[k])
      BY <1>6, <2>1, <2>2, RankGrows
    <2>4. o[l] # o[k]
      BY <1>6, <2>1, <2>2
    <2> QED
      BY <2>2, <2>3, <2>4
  <1>7. ASSUME NEW x \in S PROVE \E k \in 1..n : o[k] = x
    <2>1. UpTo(S, x) \in 1..n
      BY RankType
    <2>2. o[UpTo(S, x)] \in S /\ UpTo(S, o[UpTo(S, x)]) = UpTo(S, x)
      BY <1>3, <2>1
    <2>3. o[UpTo(S, x)] = x
      <3>1. \A d, e \in S : UpTo(S, d) = UpTo(S, e) => d = e
        BY RankIsUnique
      <3> QED
        BY <2>2, <3>1
    <2> HIDE DEF n
    <2> QED
      BY <2>1, <2>3
  <1> QED
    BY <1>1, <1>3, <1>4, <1>5, <1>6, <1>7 DEF o

-----------------------------------------------------------------------------
(* The conversions, for any number of words of guest and host.             *)
Words(GuestWords, HostWords, Sentinels, Fault) == INSTANCE Widths

(* A value of the host comes back unchanged when the guest hands it on,    *)
(* whatever its sign, its extremes included (xl_widen_signed, then         *)
(* xl_narrow_signed): NSNotFound stays NSNotFound, and nothing the host    *)
(* gave out ends the process on its way back.                              *)
THEOREM SignedRoundTrip ==
    ASSUME NEW G, NEW H, NEW S, NEW Fault,
           NEW host_min \in Int, NEW host_max \in Int, NEW guest_min \in Int, NEW guest_max \in Int,
           guest_min < host_min, host_min < host_max, host_max < guest_max,
           NEW v \in host_min..host_max
    PROVE  LET widened == Words(G, H, S, Fault)!xl_widen_signed(v, host_min, host_max, guest_min, guest_max)
           IN  Words(G, H, S, Fault)!xl_narrow_signed(widened, host_min, host_max, guest_min, guest_max) = v
  <1>1. CASE v = host_max
    BY <1>1 DEF Words!xl_narrow_signed, Words!xl_widen_signed
  <1>2. CASE v = host_min
    BY <1>2 DEF Words!xl_narrow_signed, Words!xl_widen_signed
  <1>3. CASE v # host_max /\ v # host_min
    BY <1>3 DEF Words!xl_narrow_signed, Words!xl_widen_signed
  <1> QED
    BY <1>1, <1>2, <1>3

(* The same of unsigned values (xl_widen_unsigned, xl_narrow_unsigned).    *)
THEOREM UnsignedRoundTrip ==
    ASSUME NEW G, NEW H, NEW S, NEW Fault,
           NEW host_max \in Nat, NEW guest_max \in Nat, host_max < guest_max, NEW v \in 0..host_max
    PROVE  LET widened == Words(G, H, S, Fault)!xl_widen_unsigned(v, host_max, guest_max)
           IN  Words(G, H, S, Fault)!xl_narrow_unsigned(widened, host_max, guest_max) = v
  BY DEF Words!xl_narrow_unsigned, Words!xl_widen_unsigned

(* What Widths assumes of the words.                                       *)
WordsOK(G, H, S) ==
    /\ S \in Nat /\ H \in Nat /\ G \in Nat
    /\ S < H /\ 2 * H <= G

(* The same of pointers, sentinels included (xl_widen_pointer,             *)
(* xl_narrow_pointer).                                                     *)
THEOREM PointerRoundTrip ==
    ASSUME NEW G, NEW H, NEW S, NEW Fault, WordsOK(G, H, S), NEW v \in 0..(H - 1)
    PROVE  Words(G, H, S, Fault)!xl_narrow_pointer(Words(G, H, S, Fault)!xl_widen_pointer(v)) = v
  BY DEF WordsOK, Words!xl_narrow_pointer, Words!xl_widen_pointer

(* A value of the guest that the guard lets through (xl_narrow_signed does *)
(* not fault) comes back as itself, except the two values the host takes   *)
(* for its own extremes.                                                   *)
THEOREM SignedComesBack ==
    ASSUME NEW G, NEW H, NEW S, NEW Fault,
           NEW host_min \in Int, NEW host_max \in Int, NEW guest_min \in Int, NEW guest_max \in Int,
           guest_min < host_min, host_min < host_max, host_max < guest_max,
           NEW v \in guest_min..guest_max, v # host_min, v # host_max,
           Words(G, H, S, Fault)!xl_narrow_signed(v, host_min, host_max, guest_min, guest_max) # Fault
    PROVE  LET narrowed == Words(G, H, S, Fault)!xl_narrow_signed(v, host_min, host_max, guest_min, guest_max)
           IN  Words(G, H, S, Fault)!xl_widen_signed(narrowed, host_min, host_max, guest_min, guest_max) = v
  <1>1. CASE v = guest_max
    BY <1>1 DEF Words!xl_narrow_signed, Words!xl_widen_signed
  <1>2. CASE v = guest_min
    BY <1>2 DEF Words!xl_narrow_signed, Words!xl_widen_signed
  <1>3. CASE v # guest_max /\ v # guest_min
    BY <1>3 DEF Words!xl_narrow_signed, Words!xl_widen_signed
  <1> QED
    BY <1>1, <1>2, <1>3

(* A guest pointer that xl_narrow_pointer lets through comes back as       *)
(* itself, except the host's topmost addresses, where nothing lies.        *)
THEOREM PointerComesBack ==
    ASSUME NEW G, NEW H, NEW S, NEW Fault, WordsOK(G, H, S),
           NEW v \in 0..(G - 1), v \notin (H - S)..(H - 1),
           Words(G, H, S, Fault)!xl_narrow_pointer(v) # Fault
    PROVE  /\ Words(G, H, S, Fault)!xl_narrow_pointer(v) \in 0..(H - 1)
           /\ Words(G, H, S, Fault)!xl_widen_pointer(Words(G, H, S, Fault)!xl_narrow_pointer(v)) = v
  <1>1. CASE v < H
    BY <1>1 DEF WordsOK, Words!xl_narrow_pointer, Words!xl_widen_pointer
  <1>2. CASE ~ (v < H)
    <2>1. v >= G - S
      BY <1>2 DEF Words!xl_narrow_pointer
    <2>2. Words(G, H, S, Fault)!xl_narrow_pointer(v) = v - (G - H)
      BY <1>2, <2>1 DEF Words!xl_narrow_pointer
    <2>3. v - (G - H) \in 0..(H - 1) /\ v - (G - H) >= H - S
      BY <2>1 DEF WordsOK
    <2>4. Words(G, H, S, Fault)!xl_widen_pointer(v - (G - H)) = v
      BY <2>3 DEF WordsOK, Words!xl_widen_pointer
    <2> QED
      BY <2>2, <2>3, <2>4
  <1> QED
    BY <1>1, <1>2
=============================================================================
