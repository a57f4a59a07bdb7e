------------------------- MODULE BlockBridgeProofs -------------------------
(***************************************************************************)
(* Proofs about BlockBridge, for any number of threads, slots, blocks and  *)
(* wrappers: a program that is Disciplined - its references to blocks all  *)
(* go through the bridge, and no two of its threads use the same global    *)
(* block - never holds a wrapper that is gone, never has more references   *)
(* than the wrapper counts, sees one wrapper per block, and finds the      *)
(* bridge to be what BlockIdentity promises.  Neither half of Disciplined  *)
(* can be left out: see MCBlockBridge_race.cfg.                            *)
(***************************************************************************)
EXTENDS BlockBridge, FiniteSetTheorems, TLAPS

----------------------------------------------------------------------------
(* Facts about cardinalities.                                              *)

LEMMA CardSubset ==
    ASSUME NEW S, IsFiniteSet(S), NEW T, T \subseteq S
    PROVE  IsFiniteSet(T) /\ Cardinality(T) \in Nat /\ Cardinality(S) \in Nat
           /\ Cardinality(T) <= Cardinality(S)
  BY FS_Subset, FS_CardinalityType

LEMMA CardPlus ==
    ASSUME NEW S, IsFiniteSet(S), NEW T, NEW e, T \subseteq S \cup {e}
    PROVE  Cardinality(T) \in Nat /\ Cardinality(S) \in Nat
           /\ Cardinality(T) <= Cardinality(S) + 1
  <1>1. /\ IsFiniteSet(S \cup {e})
        /\ Cardinality(S \cup {e}) = IF e \in S THEN Cardinality(S) ELSE Cardinality(S) + 1
    BY FS_AddElement
  <1>2. Cardinality(T) \in Nat /\ Cardinality(T) <= Cardinality(S \cup {e})
    BY <1>1, CardSubset
  <1>3. Cardinality(S) \in Nat
    BY FS_CardinalityType
  <1> QED
    BY <1>1, <1>2, <1>3

LEMMA CardMinus ==
    ASSUME NEW S, IsFiniteSet(S), NEW T, NEW e, e \in S, T \subseteq S \ {e}
    PROVE  Cardinality(T) \in Nat /\ Cardinality(S) \in Nat
           /\ Cardinality(T) <= Cardinality(S) - 1
           /\ (Cardinality(S) <= 1 => T = {})
  <1>1. /\ IsFiniteSet(S \ {e})
        /\ Cardinality(S \ {e}) = Cardinality(S) - 1
    BY FS_RemoveElement
  <1>2. IsFiniteSet(T) /\ Cardinality(T) \in Nat /\ Cardinality(T) <= Cardinality(S \ {e})
    BY <1>1, CardSubset
  <1>3. Cardinality(S) \in Nat
    BY FS_CardinalityType
  <1>4. Cardinality(T) = 0 => T = {}
    BY <1>2, FS_EmptySet
  <1> QED
    BY <1>1, <1>2, <1>3, <1>4

LEMMA CardSwap ==
    ASSUME NEW S, IsFiniteSet(S), NEW T, NEW e, e \in S, NEW d, T \subseteq (S \ {e}) \cup {d}
    PROVE  Cardinality(T) \in Nat /\ Cardinality(S) \in Nat
           /\ Cardinality(T) <= Cardinality(S)
  <1>1. IsFiniteSet(S \ {e}) /\ Cardinality(S \ {e}) = Cardinality(S) - 1
    BY FS_RemoveElement
  <1>2. Cardinality(T) \in Nat /\ Cardinality(T) <= Cardinality(S \ {e}) + 1
    BY <1>1, CardPlus
  <1>3. Cardinality(S) \in Nat
    BY FS_CardinalityType
  <1> QED
    BY <1>1, <1>2, <1>3

LEMMA HoldersFinite ==
    ASSUME NEW w
    PROVE  IsFiniteSet(Holders(w)) /\ Holders(w) \subseteq Slots \cup Threads
  <1>1. IsFiniteSet(Slots \cup Threads)
    BY BlockAssumption, FS_Union
  <1>2. Holders(w) \subseteq Slots \cup Threads
    BY DEF Holders
  <1> QED
    BY <1>1, <1>2, FS_Subset

----------------------------------------------------------------------------
(* Initially nothing is held.                                              *)

LEMMA InitInv == Init => IInv
  <1> SUFFICES ASSUME Init PROVE IInv
    OBVIOUS
  <1> USE BlockAssumption DEF Init
  <1>1. TypeOK
    BY DEF TypeOK, Kinds, Steps, Ops
  <1>2. \A w \in Wrappers : Holders(w) = {}
    BY DEF Holders
  <1>3. LockInv /\ SlotInv /\ CallInv /\ DyingInv
    BY DEF LockInv, SlotInv, CallInv, TmpOK, ArgOK, FoundOK, DyingInv, Entering
  <1>u. UserInv /\ ThreadInv
    BY DEF UserInv, ThreadInv, Disposing
  <1>4. MemoryInv
    BY DEF MemoryInv, Guests, Wrapped
  <1>5. HeldWrapperIsLive /\ NoUnderCount
    BY <1>2, FS_EmptySet DEF HeldWrapperIsLive, NoUnderCount
  <1> QED
    BY <1>1, <1>3, <1>4, <1>5, <1>u DEF IInv

----------------------------------------------------------------------------
(* Every step preserves the invariant.  First the parts that follow for    *)
(* many steps from what the step leaves alone.                             *)

LEMMA SameHolders ==
    ASSUME HeldWrapperIsLive, NoUnderCount, UNCHANGED <<ref, tmp, count, wstate>>
    PROVE  HeldWrapperIsLive' /\ NoUnderCount'
  <1>1. \A w \in Wrappers : Holders(w)' = Holders(w)
    BY DEF Holders
  <1> QED
    BY <1>1 DEF HeldWrapperIsLive, NoUnderCount

(* A step of t that does not leave t disposing of a wrapper keeps DyingInv. *)
LEMMA DyingSame ==
    ASSUME DyingInv, NEW t \in Threads, UNCHANGED <<forward, wguest>>,
           \A u \in Threads : u # t => pc'[u] = pc[u] /\ found'[u] = found[u],
           pc'[t] \notin {"dispose", "guestRelease"},
           \A v \in Wrappers : wstate[v] = "dying" => wstate'[v] = "dying"
    PROVE  DyingInv'
  <1>1. \A u \in Threads : pc'[u] \in {"dispose", "guestRelease"} =>
            u # t /\ pc'[u] = pc[u] /\ found'[u] = found[u]
    OBVIOUS
  <1>2. \A u \in Threads : pc'[u] \in {"dispose", "guestRelease"} =>
            found'[u] \in Wrappers /\ wstate'[found'[u]] = "dying"
    BY <1>1 DEF DyingInv
  <1>3. \A a, b \in Threads :
            /\ pc'[a] \in {"dispose", "guestRelease"}
            /\ pc'[b] \in {"dispose", "guestRelease"}
            /\ found'[a] = found'[b]
            => a = b
    BY <1>1 DEF DyingInv
  <1>4. \A u \in Threads : pc'[u] = "guestRelease" => ~ Mapped(found[u]) /\ found'[u] = found[u]
    BY <1>1 DEF DyingInv
  <1> QED
    BY <1>2, <1>3, <1>4 DEF DyingInv, Mapped

(* A step in which t drops the last count of a live wrapper keeps it too.   *)
LEMMA DyingStart ==
    ASSUME DyingInv, NEW t \in Threads, NEW w \in Wrappers, UNCHANGED <<forward, wguest>>,
           \A u \in Threads : u # t => pc'[u] = pc[u] /\ found'[u] = found[u],
           pc'[t] = "dispose", found'[t] = w, wstate[w] = "live", wstate'[w] = "dying",
           \A v \in Wrappers : wstate[v] = "dying" => wstate'[v] = "dying"
    PROVE  DyingInv'
  <1>1. \A u \in Threads : u # t /\ pc'[u] \in {"dispose", "guestRelease"} =>
            /\ pc[u] \in {"dispose", "guestRelease"} /\ found'[u] = found[u]
            /\ found[u] \in Wrappers /\ wstate[found[u]] = "dying" /\ found'[u] # w
    BY DEF DyingInv
  <1>2. \A u \in Threads : pc'[u] \in {"dispose", "guestRelease"} =>
            found'[u] \in Wrappers /\ wstate'[found'[u]] = "dying"
    BY <1>1
  <1>3. \A a, b \in Threads :
            /\ pc'[a] \in {"dispose", "guestRelease"}
            /\ pc'[b] \in {"dispose", "guestRelease"}
            /\ found'[a] = found'[b]
            => a = b
    BY <1>1 DEF DyingInv
  <1>4. \A u \in Threads : pc'[u] = "guestRelease" => ~ Mapped(found[u]) /\ found'[u] = found[u]
    BY <1>1 DEF DyingInv
  <1> QED
    BY <1>2, <1>3, <1>4 DEF DyingInv, Mapped

LEMMA ThreadFacts ==
    ASSUME ThreadInv, NEW w \in Wrappers
    PROVE  /\ wstate[w] = "dying" => \E t \in Threads : Disposing(t) /\ found[t] = w
           /\ wstate[w] # "free" /\ ~ Mapped(w) =>
                  \E t \in Threads : \/ pc[t] = "publish" /\ tmp[t] = w
                                     \/ pc[t] = "guestRelease" /\ found[t] = w
  <1>1. wstate[w] = "dying" => \E t \in Threads : Disposing(t) /\ found[t] = w
    BY Zenon DEF ThreadInv
  <1>2. wstate[w] # "free" /\ ~ Mapped(w) =>
            \E t \in Threads : \/ pc[t] = "publish" /\ tmp[t] = w
                               \/ pc[t] = "guestRelease" /\ found[t] = w
    BY Zenon DEF ThreadInv
  <1> QED
    BY <1>1, <1>2

(* A step of t that neither makes nor disposes of a wrapper, nor leads t   *)
(* there, keeps UserInv and ThreadInv when what slots and calls hold after *)
(* it is held by users.                                                    *)
LEMMA UsersSame ==
    ASSUME UserInv, ThreadInv, NEW t \in Threads, UNCHANGED <<forward, wguest, wstate>>,
           \A s \in Slots : ref'[s] # None => Uses(Owner[s], ref'[s]),
           \A u \in Threads : tmp'[u] # None => Uses(u, tmp'[u]),
           \A u \in Threads : u # t => pc'[u] = pc[u] /\ found'[u] = found[u] /\ tmp'[u] = tmp[u],
           pc[t] \notin {"publish", "dispose", "guestRelease"},
           pc'[t] \notin {"publish", "dispose", "guestRelease"}
    PROVE  UserInv' /\ ThreadInv'
  <1>1. \A u \in Threads : Disposing(u)' <=> Disposing(u)
    BY DEF Disposing
  <1>2. \A u \in Threads : Disposing(u) => found'[u] = found[u]
    BY DEF Disposing
  <1>3. \A u, w : Uses(u, w)' <=> Uses(u, w)
    BY DEF Uses
  <1>4. UserInv'
    BY <1>1, <1>2, <1>3 DEF UserInv, Uses
  <1>5. \A u \in Threads : /\ pc[u] = "publish" => pc'[u] = "publish" /\ tmp'[u] = tmp[u]
                           /\ pc[u] = "guestRelease" => pc'[u] = "guestRelease" /\ found'[u] = found[u]
    OBVIOUS
  <1>6. \A w \in Wrappers : Mapped(w)' <=> Mapped(w)
    BY DEF Mapped
  <1>7. ASSUME NEW w \in Wrappers, wstate'[w] = "dying"
        PROVE  \E u \in Threads : Disposing(u)' /\ found'[u] = w
    BY <1>1, <1>2, <1>7 DEF ThreadInv
  <1>8. ASSUME NEW w \in Wrappers, wstate'[w] # "free"
        PROVE  \/ Mapped(w)'
               \/ \E u \in Threads : \/ pc'[u] = "publish" /\ tmp'[u] = w
                                     \/ pc'[u] = "guestRelease" /\ found'[u] = w
    BY <1>5, <1>6, <1>8 DEF ThreadInv
  <1> QED
    BY <1>4, <1>7, <1>8 DEF ThreadInv

(* A step of t that drops the last count of w keeps them too.              *)
LEMMA UsersLast ==
    ASSUME UserInv, ThreadInv, NEW t \in Threads, NEW w \in Wrappers, UNCHANGED <<forward, wguest>>,
           \A v \in Wrappers : wstate'[v] = IF v = w THEN "dying" ELSE wstate[v],
           wstate[w] = "live", Uses(t, w),
           \A s \in Slots : ref'[s] # None => Uses(Owner[s], ref'[s]),
           \A u \in Threads : tmp'[u] # None => Uses(u, tmp'[u]),
           \A u \in Threads : u # t => pc'[u] = pc[u] /\ found'[u] = found[u] /\ tmp'[u] = tmp[u],
           pc[t] \notin {"publish", "dispose", "guestRelease"},
           pc'[t] = "dispose", found'[t] = w
    PROVE  UserInv' /\ ThreadInv'
  <1>1. \A u \in Threads : u # t => /\ Disposing(u)' <=> Disposing(u)
                                    /\ found'[u] = found[u]
    BY DEF Disposing
  <1>2. ~ Disposing(t) /\ Disposing(t)'
    BY DEF Disposing
  <1>3. \A u, v : Uses(u, v)' <=> Uses(u, v)
    BY DEF Uses
  <1>4. UserInv'
    BY <1>1, <1>2, <1>3 DEF UserInv, Uses
  <1>5. \A u \in Threads : /\ pc[u] = "publish" => pc'[u] = "publish" /\ tmp'[u] = tmp[u]
                           /\ pc[u] = "guestRelease" => pc'[u] = "guestRelease" /\ found'[u] = found[u]
    OBVIOUS
  <1>6. \A v \in Wrappers : Mapped(v)' <=> Mapped(v)
    BY DEF Mapped
  <1>7. ASSUME NEW v \in Wrappers, wstate'[v] = "dying"
        PROVE  \E u \in Threads : Disposing(u)' /\ found'[u] = v
    <2>1. CASE v = w
      BY <1>2, <2>1
    <2>2. CASE v # w
      <3>1. PICK u \in Threads : Disposing(u) /\ found[u] = v
        BY <1>7, <2>2 DEF ThreadInv
      <3> QED
        BY <3>1, <1>1, <1>2
    <2> QED
      BY <2>1, <2>2
  <1>8. ASSUME NEW v \in Wrappers, wstate'[v] # "free"
        PROVE  \/ Mapped(v)'
               \/ \E u \in Threads : \/ pc'[u] = "publish" /\ tmp'[u] = v
                                     \/ pc'[u] = "guestRelease" /\ found'[u] = v
    <2>1. wstate[v] # "free"
      BY <1>8
    <2> QED
      BY <1>5, <1>6, <2>1 DEF ThreadInv
  <1> QED
    BY <1>4, <1>7, <1>8 DEF ThreadInv

(* A wrapper somebody holds is in use, and its count is positive.          *)
LEMMA HeldFacts ==
    ASSUME IInv, NEW w \in Wrappers, NEW e \in Holders(w)
    PROVE  /\ wstate[w] = "live"
           /\ count[w] \in Nat /\ count[w] >= 1
           /\ wguest[w] \in Wrapped
           /\ count[w] = 1 => Holders(w) \ {e} = {}
  <1>1. wstate[w] = "live" /\ count[w] >= Cardinality(Holders(w))
    BY DEF IInv, HeldWrapperIsLive, NoUnderCount
  <1>2. wguest[w] \in Wrapped /\ count[w] \in Nat
    BY <1>1 DEF IInv, MemoryInv, TypeOK
  <1>3. /\ Cardinality(Holders(w) \ {e}) \in Nat /\ Cardinality(Holders(w)) \in Nat
        /\ Cardinality(Holders(w) \ {e}) <= Cardinality(Holders(w)) - 1
        /\ (Cardinality(Holders(w)) <= 1 => Holders(w) \ {e} = {})
    BY HoldersFinite, CardMinus
  <1> QED
    BY <1>1, <1>2, <1>3

(* How a step may change the holders of a wrapper and its count together.  *)
LEMMA CountStep ==
    ASSUME TypeOK, NoUnderCount, NEW v \in Wrappers, wstate[v] = "live",
           \/ Holders(v)' \subseteq Holders(v) /\ count'[v] = count[v]
           \/ \E e : Holders(v)' \subseteq Holders(v) \cup {e} /\ count'[v] = count[v] + 1
           \/ \E e \in Holders(v) : Holders(v)' \subseteq Holders(v) \ {e} /\ count'[v] = count[v] - 1
           \/ \E d : \E e \in Holders(v) : Holders(v)' \subseteq (Holders(v) \ {e}) \cup {d}
                                       /\ count'[v] = count[v]
    PROVE  count'[v] >= Cardinality(Holders(v)')
  <1>0. count[v] \in Nat /\ count[v] >= Cardinality(Holders(v)) /\ IsFiniteSet(Holders(v))
    BY HoldersFinite DEF TypeOK, NoUnderCount
  <1>1. CASE Holders(v)' \subseteq Holders(v) /\ count'[v] = count[v]
    <2>1. /\ Cardinality(Holders(v)') \in Nat /\ Cardinality(Holders(v)) \in Nat
          /\ Cardinality(Holders(v)') <= Cardinality(Holders(v))
      BY <1>0, <1>1, CardSubset
    <2> QED
      BY <1>0, <1>1, <2>1
  <1>2. ASSUME NEW e, Holders(v)' \subseteq Holders(v) \cup {e}, count'[v] = count[v] + 1
        PROVE  count'[v] >= Cardinality(Holders(v)')
    <2>1. /\ Cardinality(Holders(v)') \in Nat /\ Cardinality(Holders(v)) \in Nat
          /\ Cardinality(Holders(v)') <= Cardinality(Holders(v)) + 1
      BY <1>0, <1>2, CardPlus
    <2> QED
      BY <1>0, <1>2, <2>1
  <1>3. ASSUME NEW e \in Holders(v), Holders(v)' \subseteq Holders(v) \ {e}, count'[v] = count[v] - 1
        PROVE  count'[v] >= Cardinality(Holders(v)')
    <2>1. /\ Cardinality(Holders(v)') \in Nat /\ Cardinality(Holders(v)) \in Nat
          /\ Cardinality(Holders(v)') <= Cardinality(Holders(v)) - 1
      BY <1>0, <1>3, CardMinus
    <2> QED
      BY <1>0, <1>3, <2>1
  <1>4. ASSUME NEW e \in Holders(v), NEW d, Holders(v)' \subseteq (Holders(v) \ {e}) \cup {d},
               count'[v] = count[v]
        PROVE  count'[v] >= Cardinality(Holders(v)')
    <2>1. /\ Cardinality(Holders(v)') \in Nat /\ Cardinality(Holders(v)) \in Nat
          /\ Cardinality(Holders(v)') <= Cardinality(Holders(v))
      BY <1>0, <1>4, CardSwap
    <2> QED
      BY <1>0, <1>4, <2>1
  <1> QED
    BY <1>1, <1>2, <1>3, <1>4

LEMMA EnterInv ==
    ASSUME Disciplined, IInv, NEW t \in Threads, NEW o \in Ops \ {"none"}, NEW n, NEW d,
           Enter(t, o, n, d),
           n[1] \in Guests, n[2] \in Slots \cup {None}, d \in Slots \cup {None},
           n[1] \in Heap => n[2] # None,
           n[1] \in Global => t \in GlobalUsers[n[1]],
           n[1] \notin Stack /\ n[2] # None =>
               n[2] \in Own(t) /\ kind[n[2]] # "none" /\ n[1] = wguest[ref[n[2]]],
           o \in TakesDst => d \in Empty(t),
           o \in GivesSrc => n[2] \in Own(t) /\ kind[n[2]] = "guest",
           o \in {"msgRelease", "msgAutorelease"} => n[1] \notin Stack,
           o = "autorelease" => n[1] = addr[n[2]]
    PROVE  IInv'
  <1> USE BlockAssumption DEF IInv
  <1>b. UNCHANGED <<forward, lock, count, wstate, wguest, gcount, kind, addr, ref, tmp, found>>
    BY DEF Enter, heapVars, slotVars
  <1>0. TypeOK /\ pc[t] = "idle"
    BY DEF Enter
  <1>1. TypeOK'
    BY <1>0, <1>b DEF TypeOK, Steps, Enter
  <1>2. LockInv'
    BY <1>0, <1>b DEF LockInv, TypeOK, Enter
  <1>3. SlotInv'
    BY <1>b DEF SlotInv, Stands, Mapped
  <1>4. CallInv'
    <2> SUFFICES ASSUME NEW u \in Threads PROVE (TmpOK(u) /\ ArgOK(u) /\ FoundOK(u))'
      BY DEF CallInv
    <2>0. TmpOK(u) /\ ArgOK(u) /\ FoundOK(u)
      BY DEF CallInv
    <2>1. TmpOK(u)'
      BY <2>0, <1>0, <1>b DEF TmpOK, TypeOK, Mapped, Enter
    <2>2. ArgOK(u)'
      <3>1. CASE u = t
        BY <3>1, <1>0, <1>b DEF ArgOK, TypeOK, Empty, Enter
      <3>2. CASE u # t
        BY <3>2, <2>0, <1>0, <1>b DEF ArgOK, TypeOK, Empty, Enter
      <3> QED
        BY <3>1, <3>2
    <2>3. FoundOK(u)'
      BY <2>0, <1>0, <1>b DEF FoundOK, Stands, TypeOK, Enter
    <2> QED
      BY <2>1, <2>2, <2>3
  <1>5. DyingInv'
    BY <1>0, <1>b DEF DyingInv, TypeOK, Mapped, Enter
  <1>6. MemoryInv'
    BY <1>b DEF MemoryInv
  <1>7. HeldWrapperIsLive' /\ NoUnderCount'
    BY <1>b, SameHolders
  <1>u. UserInv' /\ ThreadInv'
    <2>1. /\ \A u \in Threads : u # t => pc'[u] = pc[u] /\ found'[u] = found[u] /\ tmp'[u] = tmp[u]
          /\ pc[t] \notin {"publish", "dispose", "guestRelease"}
          /\ pc'[t] \notin {"publish", "dispose", "guestRelease"}
      BY <1>0, <1>b DEF TypeOK, Enter
    <2>2. \A s \in Slots : ref'[s] # None => Uses(Owner[s], ref'[s])
      BY <1>b DEF UserInv
    <2>3. \A u \in Threads : tmp'[u] # None => Uses(u, tmp'[u])
      BY <1>b DEF UserInv
    <2> QED
      BY <1>b, <2>1, <2>2, <2>3, UsersSame
  <1> QED
    BY <1>1, <1>2, <1>3, <1>4, <1>5, <1>6, <1>7, <1>u

LEMMA LookUpInv ==
    ASSUME Disciplined, IInv, NEW t \in Threads, LookUp(t)
    PROVE  IInv'
  <1> USE BlockAssumption DEF IInv
  <1>b. UNCHANGED <<forward, count, wstate, wguest, gcount, kind, addr, ref, tmp, op, arg, src, dst>>
    BY DEF slotVars, LookUp, Goto
  <1>0. TypeOK /\ pc[t] = "lock" /\ lock = None /\ ArgOK(t)
    BY DEF LookUp, CallInv
  <1>a. arg[t] \in Guests /\ forward[arg[t]] \in Wrappers \cup {None}
    BY <1>0 DEF ArgOK, Entering, TypeOK
  <1>1. TypeOK'
    BY <1>0, <1>a, <1>b DEF TypeOK, Steps, LookUp, Goto
  <1>2. LockInv'
    BY <1>0 DEF LockInv, TypeOK, LookUp, Goto
  <1>3. SlotInv'
    BY <1>b DEF SlotInv, Stands, Mapped
  <1>c. arg[t] \in Heap => forward[arg[t]] = ref[src[t]] /\ ref[src[t]] # None
    BY <1>0 DEF ArgOK, SlotInv, Mapped, Entering, Own
  <1>d. arg[t] \in Stack => forward[arg[t]] = None
    BY <1>0, <1>a DEF MemoryInv, TypeOK, Guests, Wrapped
  <1>4. CallInv'
    <2> SUFFICES ASSUME NEW u \in Threads PROVE (TmpOK(u) /\ ArgOK(u) /\ FoundOK(u))'
      BY DEF CallInv
    <2>0. TmpOK(u) /\ ArgOK(u) /\ FoundOK(u)
      BY DEF CallInv
    <2>1. TmpOK(u)'
      BY <2>0, <1>0, <1>b DEF TmpOK, TypeOK, Mapped, LookUp, Goto
    <2>2. ArgOK(u)'
      BY <2>0, <1>0, <1>b DEF ArgOK, TypeOK, Entering, Empty, Own, LookUp, Goto
    <2>3. FoundOK(u)'
      BY <2>0, <1>0, <1>a, <1>b, <1>c, <1>d DEF FoundOK, Stands, TypeOK, Own, Guests, Wrapped, LookUp, Goto
    <2> QED
      BY <2>1, <2>2, <2>3
  <1>5. DyingInv'
    BY <1>0, <1>b DEF DyingInv, TypeOK, Mapped, LookUp, Goto
  <1>6. MemoryInv'
    BY <1>b DEF MemoryInv
  <1>7. HeldWrapperIsLive' /\ NoUnderCount'
    BY <1>b, SameHolders
  <1>u. UserInv' /\ ThreadInv'
    <2>1. /\ \A u \in Threads : u # t => pc'[u] = pc[u] /\ found'[u] = found[u] /\ tmp'[u] = tmp[u]
          /\ pc[t] \notin {"publish", "dispose", "guestRelease"}
          /\ pc'[t] \notin {"publish", "dispose", "guestRelease"}
      BY <1>0, <1>b DEF TypeOK, LookUp, Goto
    <2>2. \A s \in Slots : ref'[s] # None => Uses(Owner[s], ref'[s])
      BY <1>b DEF UserInv
    <2>3. \A u \in Threads : tmp'[u] # None => Uses(u, tmp'[u])
      BY <1>b DEF UserInv
    <2> QED
      BY <1>b, <2>1, <2>2, <2>3, UsersSame
  <1> QED
    BY <1>1, <1>2, <1>3, <1>4, <1>5, <1>6, <1>7, <1>u

(* A wrapper found in the map is alive: a thread that looks up a block it  *)
(* has a reference to finds the wrapper that reference is counted on, and  *)
(* nobody but itself could be disposing of the wrapper of a global block.  *)
LEMMA HitLive ==
    ASSUME Disciplined, IInv, NEW t \in Threads, pc[t] = "hit"
    PROVE  found[t] \in Wrappers /\ wstate[found[t]] = "live" /\ Mapped(found[t])
  <1> USE BlockAssumption DEF IInv
  <1> DEFINE w == found[t]
  <1>0. TypeOK /\ ArgOK(t) /\ FoundOK(t) /\ lock = t
    BY DEF CallInv, LockInv
  <1>1. /\ w \in Wrappers /\ arg[t] \in Wrapped /\ forward[arg[t]] = w /\ wguest[w] = arg[t] /\ Mapped(w)
        /\ wstate[w] # "free"
    BY <1>0 DEF ArgOK, FoundOK, Entering, TypeOK, MemoryInv, Mapped, Guests, Wrapped
  <1>2. CASE src[t] # None
    <2>1. src[t] \in Slots /\ kind[src[t]] # "none" /\ Mapped(ref[src[t]]) /\ wguest[ref[src[t]]] = arg[t]
      BY <1>0, <1>1, <1>2 DEF ArgOK, FoundOK, Entering, Own, SlotInv
    <2>2. ref[src[t]] = w
      BY <1>1, <2>1 DEF Mapped
    <2>3. src[t] \in Holders(w)
      BY <2>1, <2>2 DEF Holders
    <2> QED
      BY <1>1, <2>3, HeldFacts
  <1>3. CASE src[t] = None
    <2>1. arg[t] \in Global /\ t \in GlobalUsers[arg[t]]
      BY <1>0, <1>1, <1>3 DEF ArgOK, Entering, Wrapped
    <2>2. \A u \in Threads : Disposing(u) => found[u] # w
      <3> SUFFICES ASSUME NEW u \in Threads, Disposing(u), found[u] = w PROVE FALSE
        OBVIOUS
      <3>1. u \in GlobalUsers[arg[t]]
        BY <1>1, <2>1 DEF UserInv, Uses
      <3>2. u = t
        BY <2>1, <3>1 DEF Disciplined
      <3> QED
        BY <3>2 DEF Disposing
    <2>3. wstate[w] # "dying"
      BY <1>1, <2>2 DEF ThreadInv
    <2> QED
      BY <1>0, <1>1, <2>3 DEF TypeOK
  <1> QED
    BY <1>2, <1>3

LEMMA HitInv ==
    ASSUME Disciplined, IInv, NEW t \in Threads, Hit(t)
    PROVE  IInv'
  <1> USE BlockAssumption DEF IInv
  <1> DEFINE w == found[t]
  <1>b. UNCHANGED <<forward, wstate, wguest, gcount, kind, addr, ref, op, arg, src, dst>>
    BY DEF slotVars, Hit, Goto
  <1>0. TypeOK /\ pc[t] = "hit" /\ lock = t /\ TmpOK(t) /\ ArgOK(t) /\ FoundOK(t) /\ tmp[t] = None
    BY DEF Hit, CallInv, LockInv, TmpOK
  <1>a. /\ w \in Wrappers /\ arg[t] \in Wrapped /\ forward[arg[t]] = w /\ wguest[w] = arg[t] /\ Mapped(w)
        /\ Stands(w, arg[t])
    BY <1>0 DEF ArgOK, FoundOK, Entering, TypeOK, MemoryInv, Mapped, Stands, Guests, Wrapped
  <1>d. wstate[w] = "live" /\ count[w] \in Nat
    BY <1>0, <1>a, HitLive DEF TypeOK
  <1>e. Uses(t, w)
    BY <1>0, <1>a DEF Uses, ArgOK, Entering
  <1>1. TypeOK'
    BY <1>0, <1>a, <1>b, <1>d DEF TypeOK, Steps, Hit, Goto
  <1>2. LockInv'
    BY <1>0 DEF LockInv, TypeOK, Hit, Goto
  <1>3. SlotInv'
    BY <1>b DEF SlotInv, Stands, Mapped
  <1>4. CallInv'
    <2> SUFFICES ASSUME NEW u \in Threads PROVE (TmpOK(u) /\ ArgOK(u) /\ FoundOK(u))'
      BY DEF CallInv
    <2>0. TmpOK(u) /\ ArgOK(u) /\ FoundOK(u)
      BY DEF CallInv
    <2>1. TmpOK(u)'
      BY <2>0, <1>0, <1>a, <1>b DEF TmpOK, TypeOK, Mapped, Hit, Goto
    <2>2. ArgOK(u)'
      BY <2>0, <1>0, <1>b DEF ArgOK, TypeOK, Entering, Empty, Own, Hit, Goto
    <2>3. FoundOK(u)'
      BY <2>0, <1>0, <1>a, <1>b DEF FoundOK, Stands, TypeOK, Own, Guests, Wrapped, Hit, Goto
    <2> QED
      BY <2>1, <2>2, <2>3
  <1>5. DyingInv'
    BY <1>0, <1>b DEF DyingInv, TypeOK, Mapped, Hit, Goto
  <1>6. MemoryInv'
    BY <1>b DEF MemoryInv
  <1>7. \A v \in Wrappers : IF v = w THEN Holders(v)' = Holders(v) \cup {t} ELSE Holders(v)' = Holders(v)
    BY <1>0, <1>a, <1>b DEF Holders, TypeOK, Hit
  <1>8. HeldWrapperIsLive'
    BY <1>7, <1>b, <1>d DEF HeldWrapperIsLive
  <1>9. NoUnderCount'
    <2> SUFFICES ASSUME NEW v \in Wrappers, wstate[v] = "live"
                 PROVE  count'[v] >= Cardinality(Holders(v)')
      BY <1>b DEF NoUnderCount
    <2>1. count'[v] = IF v = w THEN count[v] + 1 ELSE count[v]
      BY <1>0, <1>a DEF Hit, TypeOK
    <2> QED
      BY <1>0, <1>7, <2>1, CountStep
  <1>u. UserInv' /\ ThreadInv'
    <2>1. /\ \A u \in Threads : u # t => pc'[u] = pc[u] /\ found'[u] = found[u] /\ tmp'[u] = tmp[u]
          /\ pc[t] \notin {"publish", "dispose", "guestRelease"}
          /\ pc'[t] \notin {"publish", "dispose", "guestRelease"}
      BY <1>0, <1>b DEF TypeOK, Hit, Goto
    <2>2. \A s \in Slots : ref'[s] # None => Uses(Owner[s], ref'[s])
      BY <1>b DEF UserInv
    <2>3. \A u \in Threads : tmp'[u] # None => Uses(u, tmp'[u])
      BY <1>0, <1>a, <1>b, <1>e DEF UserInv, TypeOK, Hit
    <2> QED
      BY <1>b, <2>1, <2>2, <2>3, UsersSame
  <1> QED
    BY <1>1, <1>2, <1>3, <1>4, <1>5, <1>6, <1>8, <1>9, <1>u

LEMMA MissInv ==
    ASSUME Disciplined, IInv, NEW t \in Threads, NEW h \in Wrapped, NEW w \in Wrappers, Miss(t, h, w)
    PROVE  IInv'
  <1> USE BlockAssumption DEF IInv
  <1>b. UNCHANGED <<forward, lock, kind, addr, ref, op, arg, src, dst, found>>
    BY DEF slotVars, Miss, Goto
  <1>0. /\ TypeOK /\ pc[t] = "miss" /\ lock = t /\ tmp[t] = None
        /\ TmpOK(t) /\ ArgOK(t) /\ FoundOK(t) /\ arg[t] \in Guests \ Heap /\ forward[arg[t]] = None
    BY DEF Miss, CallInv, LockInv, TmpOK, ArgOK, FoundOK, Entering
  <1>a. /\ wguest[w] = None /\ Stands(w, arg[t])'
        /\ \A v \in Wrappers : wguest[v] # h
        /\ h \in Heap => gcount[h] = 0
        /\ gcount' = IF h \in Heap THEN [gcount EXCEPT ![h] = 1] ELSE gcount
        /\ wguest' = [wguest EXCEPT ![w] = h]
        /\ forward[h] = None
    <2>1. wguest[w] = None
      BY DEF Miss, MemoryInv
    <2>2. /\ wguest' = [wguest EXCEPT ![w] = h]
          /\ h \in Heap => gcount[h] = 0
          /\ gcount' = IF h \in Heap THEN [gcount EXCEPT ![h] = 1] ELSE gcount
          /\ arg[t] \in Stack => h \in Heap
          /\ arg[t] \notin Stack => h = arg[t] /\ h \in Global
      <3>1. arg[t] \notin Heap /\ (arg[t] \in Stack => arg[t] \notin Wrapped)
        BY <1>0 DEF Wrapped
      <3>2. CASE arg[t] \in Stack
        <4>1. h \in Heap /\ gcount[h] = 0 /\ gcount' = [gcount EXCEPT ![h] = gcount[h] + 1]
          BY <3>1, <3>2 DEF Miss, GuestBlockCopy
        <4> QED
          BY <3>2, <4>1 DEF Miss
      <3>3. CASE arg[t] \notin Stack
        <4>1. h = arg[t] /\ h \notin Heap /\ h \in Global /\ gcount' = gcount
          BY <3>1, <3>3 DEF Miss, GuestBlockCopy, Wrapped
        <4> QED
          BY <3>3, <4>1 DEF Miss
      <3> QED
        BY <3>2, <3>3
    <2>s. Stands(w, arg[t])'
      <3>1. arg' = arg
        BY <1>b
      <3>2. wguest'[w] = h
        BY <1>0, <2>2 DEF TypeOK
      <3> QED
        BY <2>2, <3>1, <3>2 DEF Stands
    <2>3. \A v \in Wrappers : wguest[v] # h
      <3> SUFFICES ASSUME NEW v \in Wrappers, wguest[v] = h PROVE FALSE
        OBVIOUS
      <3>1. h \notin Heap
        BY <2>2 DEF MemoryInv
      <3>2. h = arg[t] /\ h \in Global /\ ~ Mapped(v) /\ wstate[v] # "free" /\ h # None
        BY <1>0, <2>2, <3>1 DEF Mapped, MemoryInv
      <3>3. PICK u \in Threads : \/ pc[u] = "publish" /\ tmp[u] = v
                                 \/ pc[u] = "guestRelease" /\ found[u] = v
        BY <3>2, ThreadFacts
      <3>4. pc[u] # "publish"
        BY <1>0 DEF LockInv
      <3>5. u \in GlobalUsers[h] /\ t \in GlobalUsers[h]
        BY <1>0, <3>2, <3>3, <3>4 DEF UserInv, Uses, Disposing, ArgOK, Entering
      <3> QED
        BY <1>0, <3>2, <3>3, <3>4, <3>5 DEF Disciplined
    <2>4. forward[h] = None
      BY <1>0, <2>3 DEF MemoryInv, TypeOK, Guests, Wrapped
    <2> QED
      BY <2>1, <2>2, <2>s, <2>3, <2>4
  <1>c. Holders(w) = {}
    BY DEF Miss, HeldWrapperIsLive
  <1>1. TypeOK'
    BY <1>0, <1>a, <1>b DEF TypeOK, Steps, Miss, Goto
  <1>2. LockInv'
    BY <1>0, <1>b DEF LockInv, TypeOK, Miss, Goto
  <1>e. \A s \in Slots : kind[s] # "none" => ref[s] \in Wrappers \ {w}
    BY <1>0, <1>c DEF SlotInv, Holders, TypeOK
  <1>f. \A v \in Wrappers \ {w} : wguest'[v] = wguest[v]
    BY <1>0, <1>a DEF TypeOK
  <1>g. \A v \in Wrappers \ {w} : (Mapped(v)' <=> Mapped(v)) /\ \A g : (Stands(v, g)' <=> Stands(v, g))
    BY <1>b, <1>f DEF Mapped, Stands
  <1>k. \A u \in Threads : u # t => /\ pc'[u] = pc[u] /\ tmp'[u] = tmp[u]
                                    /\ tmp[u] # None => tmp[u] \in Wrappers \ {w}
    BY <1>0, <1>c DEF Holders, TypeOK, Miss, Goto
  <1>l. /\ pc'[t] = "publish" /\ tmp'[t] = w /\ wguest'[w] = h
        /\ forward'[h] = None /\ w # None
    BY <1>0, <1>a, <1>b DEF TypeOK, Miss, Goto
  <1>3. SlotInv'
    BY <1>b, <1>e, <1>g DEF SlotInv
  <1>4. CallInv'
    <2> SUFFICES ASSUME NEW u \in Threads PROVE (TmpOK(u) /\ ArgOK(u) /\ FoundOK(u))'
      BY DEF CallInv
    <2>0. TmpOK(u) /\ ArgOK(u) /\ FoundOK(u) /\ (u # t => pc[u] \notin {"hit", "miss", "publish"})
      BY <1>0 DEF CallInv, LockInv
    <2>1. TmpOK(u)'
      <3>1. CASE u = t
        BY <3>1, <1>l DEF TmpOK
      <3>2. CASE u # t
        BY <3>2, <2>0, <1>k, <1>g DEF TmpOK
      <3> QED
        BY <3>1, <3>2
    <2>2. ArgOK(u)'
      <3>1. src[u] \in Own(u) /\ kind[src[u]] # "none" =>
              wguest'[ref[src[u]]] = wguest[ref[src[u]]]
        BY <1>e, <1>f DEF Own
      <3>2. pc'[u] \in Entering => pc[u] \in Entering
        BY <1>0, <1>k DEF Entering
      <3> QED
        BY <3>1, <3>2, <2>0, <1>b DEF ArgOK, Empty, Own
    <2>3. FoundOK(u)'
      <3>1. CASE u = t
        BY <3>1, <1>0, <1>a, <1>b, <1>l DEF FoundOK
      <3>2. CASE u # t
        <4>1. pc[u] = "got" => tmp[u] \in Wrappers \ {w}
          BY <3>2, <2>0, <1>k DEF TmpOK
        <4> QED
          BY <3>2, <4>1, <2>0, <1>b, <1>g, <1>k DEF FoundOK
      <3> QED
        BY <3>1, <3>2
    <2> QED
      BY <2>1, <2>2, <2>3
  <1>5. DyingInv'
    BY <1>0, <1>a, <1>b DEF DyingInv, TypeOK, Mapped, Miss, Goto
  <1>6. MemoryInv'
    <2>1. \A v \in Wrappers : wstate'[v] = "free" <=> wguest'[v] = None
      BY <1>0, <1>a DEF MemoryInv, TypeOK, Miss
    <2>2. \A u, v \in Wrappers : wguest'[u] = wguest'[v] /\ wguest'[u] # None => u = v
      BY <1>0, <1>a DEF MemoryInv, TypeOK
    <2>3. \A k \in Heap : gcount'[k] \in {0, 1} /\ (gcount'[k] = 1 <=> \E v \in Wrappers : wguest'[v] = k)
      BY <1>0, <1>a DEF MemoryInv, TypeOK
    <2>4. \A g \in Guests : forward'[g] # None => wguest'[forward'[g]] = g
      BY <1>0, <1>a, <1>b DEF MemoryInv, TypeOK, Guests, Wrapped
    <2> QED
      BY <2>1, <2>2, <2>3, <2>4 DEF MemoryInv
  <1>7. \A v \in Wrappers : IF v = w THEN Holders(v)' = {t} ELSE Holders(v)' = Holders(v)
    BY <1>0, <1>b, <1>c DEF Holders, TypeOK, Miss
  <1>8. HeldWrapperIsLive'
    BY <1>0, <1>7 DEF HeldWrapperIsLive, Miss, TypeOK
  <1>9. NoUnderCount'
    <2> SUFFICES ASSUME NEW v \in Wrappers, wstate'[v] = "live"
                 PROVE  count'[v] >= Cardinality(Holders(v)')
      BY DEF NoUnderCount
    <2>1. CASE v = w
      <3>1. count'[v] = 1 /\ Holders(v)' = {t}
        BY <2>1, <1>0, <1>7 DEF Miss, TypeOK
      <3>2. Cardinality({t}) = 1
        BY FS_Singleton
      <3> QED
        BY <3>1, <3>2
    <2>2. CASE v # w
      <3>1. wstate[v] = "live" /\ count'[v] = count[v]
        BY <2>2, <1>0 DEF Miss, TypeOK
      <3> QED
        BY <3>1, <2>2, <1>0, <1>7, CountStep
    <2> QED
      BY <2>1, <2>2
  <1>u. UserInv' /\ ThreadInv'
    <2>0. /\ pc' = [pc EXCEPT ![t] = "publish"] /\ tmp' = [tmp EXCEPT ![t] = w]
          /\ wstate' = [wstate EXCEPT ![w] = "live"] /\ wstate[w] = "free"
      BY DEF Miss, Goto
    <2>1. \A v \in Wrappers \ {w} : wguest'[v] = wguest[v] /\ (Mapped(v)' <=> Mapped(v))
                                  /\ \A u : Uses(u, v)' <=> Uses(u, v)
      BY <1>0, <1>a, <1>b DEF TypeOK, Mapped, Uses
    <2>2. Uses(t, w)'
      <3>1. wguest'[w] = h
        BY <1>0, <1>a DEF TypeOK
      <3>2. h \in Global => h = arg[t]
        BY <1>a, <1>b, <3>1 DEF Stands
      <3> QED
        BY <1>0, <3>1, <3>2 DEF Uses, ArgOK, Entering
    <2>3. /\ \A s \in Slots : ref[s] # None => ref[s] \in Wrappers \ {w}
          /\ \A u \in Threads : tmp[u] # None => tmp[u] \in Wrappers \ {w}
      BY <1>0, <1>c DEF Holders, TypeOK
    <2>4. \A u \in Threads : /\ Disposing(u)' <=> Disposing(u)
                             /\ Disposing(u) => found'[u] = found[u] /\ found[u] \in Wrappers \ {w}
      BY <1>0, <1>b, <2>0 DEF Disposing, TypeOK, DyingInv
    <2>5. UserInv'
      <3>1. \A s \in Slots : (ref[s] # None => Uses(Owner[s], ref[s]))'
        BY <1>b, <2>1, <2>3 DEF UserInv
      <3>2. \A u \in Threads : (tmp[u] # None => Uses(u, tmp[u]))'
        BY <1>0, <2>0, <2>1, <2>2, <2>3 DEF UserInv, TypeOK
      <3>3. \A u \in Threads : (Disposing(u) => Uses(u, found[u]))'
        BY <2>1, <2>4 DEF UserInv
      <3> QED
        BY <3>1, <3>2, <3>3 DEF UserInv
    <2>6. ASSUME NEW v \in Wrappers, wstate'[v] = "dying"
          PROVE  \E u \in Threads : Disposing(u)' /\ found'[u] = v
      <3>1. v # w /\ wstate[v] = "dying"
        BY <2>6, <2>0, <1>0 DEF TypeOK
      <3> QED
        BY <3>1, <2>4, ThreadFacts
    <2>7. ASSUME NEW v \in Wrappers, wstate'[v] # "free"
          PROVE  \/ Mapped(v)'
                 \/ \E u \in Threads : \/ pc'[u] = "publish" /\ tmp'[u] = v
                                       \/ pc'[u] = "guestRelease" /\ found'[u] = v
      <3>1. CASE v = w
        BY <3>1, <2>0, <1>0 DEF TypeOK
      <3>2. CASE v # w
        <4>1. wstate[v] # "free"
          BY <2>7, <3>2, <2>0, <1>0 DEF TypeOK
        <4>2. \A u \in Threads : /\ pc[u] = "publish" => FALSE
                                 /\ pc[u] = "guestRelease" => pc'[u] = "guestRelease" /\ found'[u] = found[u]
          BY <1>0, <1>b, <2>0 DEF LockInv, TypeOK
        <4> QED
          BY <3>2, <4>1, <4>2, <2>1, ThreadFacts
      <3> QED
        BY <3>1, <3>2
    <2> QED
      BY <2>5, <2>6, <2>7 DEF ThreadInv
  <1> QED
    BY <1>1, <1>2, <1>3, <1>4, <1>5, <1>6, <1>8, <1>9, <1>u

LEMMA PublishInv ==
    ASSUME Disciplined, IInv, NEW t \in Threads, Publish(t)
    PROVE  IInv'
  <1> USE BlockAssumption DEF IInv
  <1> DEFINE w == tmp[t]
             h == wguest[w]
  <1>b. UNCHANGED <<count, wstate, wguest, gcount, kind, addr, ref, op, arg, src, dst, found, tmp>>
    BY DEF slotVars, Publish, Goto
  <1>0. /\ TypeOK /\ pc[t] = "publish" /\ lock = t
        /\ w \in Wrappers /\ h \in Wrapped /\ forward[h] = None /\ Stands(w, arg[t])
        /\ forward' = [forward EXCEPT ![h] = w]
    BY DEF Publish, CallInv, LockInv, TmpOK, FoundOK, Stands, TypeOK
  <1>a. w \in Wrappers /\ t \in Holders(w) /\ wstate[w] = "live"
    BY <1>0 DEF HeldWrapperIsLive, Holders
  <1>c. \A v \in Wrappers : Mapped(v) => Mapped(v)'
    BY <1>0, <1>b DEF Mapped, TypeOK
  <1>1. TypeOK'
    BY <1>0, <1>b DEF TypeOK, Steps, Publish, Goto, Guests, Wrapped
  <1>2. LockInv'
    BY <1>0, <1>b DEF LockInv, TypeOK, Publish, Goto
  <1>3. SlotInv'
    BY <1>0, <1>b, <1>c DEF SlotInv, Stands, TypeOK
  <1>4. CallInv'
    <2> SUFFICES ASSUME NEW u \in Threads PROVE (TmpOK(u) /\ ArgOK(u) /\ FoundOK(u))'
      BY DEF CallInv
    <2>0. TmpOK(u) /\ ArgOK(u) /\ FoundOK(u) /\ (u # t => pc[u] \notin {"hit", "miss", "publish"})
      BY <1>0 DEF CallInv, LockInv
    <2>1. TmpOK(u)'
      <3>1. Mapped(w)'
        BY <1>0, <1>b DEF Mapped, TypeOK, Guests, Wrapped
      <3> QED
        BY <3>1, <2>0, <1>0, <1>b, <1>c DEF TmpOK, TypeOK, Publish, Goto
    <2>2. ArgOK(u)'
      BY <2>0, <1>0, <1>b DEF ArgOK, TypeOK, Entering, Empty, Own, Publish, Goto
    <2>3. FoundOK(u)'
      BY <2>0, <1>0, <1>b DEF FoundOK, Stands, TypeOK, Own, Publish, Goto
    <2> QED
      BY <2>1, <2>2, <2>3
  <1>5. DyingInv'
    <2>1. ASSUME NEW u \in Threads, pc'[u] = "guestRelease" PROVE ~ Mapped(found[u])'
      <3>1. pc[u] = "guestRelease" /\ found[u] \in Wrappers /\ found[u] # w /\ ~ Mapped(found[u])
        BY <2>1, <1>0, <1>a DEF DyingInv, Publish, Goto, TypeOK
      <3> QED
        BY <3>1, <1>0, <1>b DEF Mapped, TypeOK
    <2> QED
      BY <2>1, <1>0, <1>b DEF DyingInv, TypeOK, Publish, Goto
  <1>6. MemoryInv'
    BY <1>0, <1>b DEF MemoryInv, TypeOK, Guests, Wrapped
  <1>7. HeldWrapperIsLive' /\ NoUnderCount'
    BY <1>b, SameHolders
  <1>u. UserInv' /\ ThreadInv'
    <2>0. pc' = [pc EXCEPT ![t] = "got"]
      BY DEF Publish, Goto
    <2>1. \A u \in Threads : /\ Disposing(u)' <=> Disposing(u)
                             /\ pc[u] = "publish" => u = t
                             /\ pc[u] = "guestRelease" => pc'[u] = "guestRelease"
      BY <1>0, <2>0 DEF Disposing, TypeOK, LockInv
    <2>a. \A u, v : Uses(u, v)' <=> Uses(u, v)
      BY <1>b DEF Uses
    <2>2. UserInv'
      BY <1>b, <2>1, <2>a DEF UserInv
    <2>3. \A v \in Wrappers : v = tmp[t] => Mapped(v)'
      BY <1>0, <1>b DEF Mapped, TypeOK, Guests, Wrapped
    <2>4. ASSUME NEW v \in Wrappers, wstate'[v] # "free"
          PROVE  Mapped(v)' \/ \E u \in Threads : pc'[u] = "guestRelease" /\ found'[u] = v
      <3>1. CASE v = w
        BY <3>1, <2>3
      <3>2. CASE v # w
        BY <3>2, <2>4, <2>1, <1>b, <1>c, ThreadFacts
      <3> QED
        BY <3>1, <3>2
    <2>5. \A v \in Wrappers : wstate'[v] = "dying" => \E u \in Threads : Disposing(u)' /\ found'[u] = v
      BY <1>b, <2>1, ThreadFacts
    <2> QED
      BY <2>2, <2>4, <2>5 DEF ThreadInv
  <1> QED
    BY <1>1, <1>2, <1>3, <1>4, <1>5, <1>6, <1>7, <1>u

(* A call that returns puts its reference into a slot of its thread.       *)
LEMMA ReturnsInv ==
    ASSUME Disciplined, IInv, NEW t \in Threads, RetainReturns(t) \/ InReturns(t)
    PROVE  IInv'
  <1> USE BlockAssumption DEF IInv
  <1> DEFINE w == tmp[t]
             d == dst[t]
  <1>b. UNCHANGED <<forward, lock, count, wstate, wguest, gcount, found>>
    BY DEF heapVars, RetainReturns, InReturns
  <1>0. TypeOK /\ pc[t] = "got" /\ op[t] \in TakesDst /\ TmpOK(t) /\ ArgOK(t) /\ FoundOK(t)
    BY DEF RetainReturns, InReturns, CallInv, TakesDst
  <1>a. /\ w \in Wrappers /\ Mapped(w) /\ arg[t] \in Guests
        /\ d \in Slots /\ Owner[d] = t /\ kind[d] = "none" /\ ref[d] = None
    BY <1>0 DEF TmpOK, ArgOK, TypeOK, Entering, Empty, Own, SlotInv, Stands
  <1>c. Stands(w, arg[t])
    BY <1>0 DEF FoundOK
  <1>d. PICK k \in {"guest", "pool"} :
          /\ kind' = [kind EXCEPT ![d] = k]
          /\ addr' = [addr EXCEPT ![d] = arg[t]]
          /\ ref' = [ref EXCEPT ![d] = w]
          /\ tmp' = [tmp EXCEPT ![t] = None]
          /\ Goto(t, "idle")
    BY DEF RetainReturns, InReturns, Fill
  <1>1. TypeOK'
    BY <1>0, <1>a, <1>b, <1>d DEF TypeOK, Steps, Goto, Kinds, Ops
  <1>2. LockInv'
    BY <1>0, <1>b, <1>d DEF LockInv, TypeOK, Goto
  <1>3. SlotInv'
    BY <1>0, <1>a, <1>b, <1>c, <1>d DEF SlotInv, Stands, Mapped, TypeOK
  <1>4. CallInv'
    <2> SUFFICES ASSUME NEW u \in Threads PROVE (TmpOK(u) /\ ArgOK(u) /\ FoundOK(u))'
      BY DEF CallInv
    <2>0. TmpOK(u) /\ ArgOK(u) /\ FoundOK(u)
      BY DEF CallInv
    <2>1. TmpOK(u)'
      BY <2>0, <1>0, <1>a, <1>b, <1>d DEF TmpOK, TypeOK, Mapped, Goto
    <2>2. ArgOK(u)'
      BY <2>0, <1>0, <1>a, <1>b, <1>d DEF ArgOK, TypeOK, Entering, TakesDst, GivesSrc, Empty, Own, Goto
    <2>3. FoundOK(u)'
      BY <2>0, <1>0, <1>a, <1>b, <1>d DEF FoundOK, Stands, ArgOK, Entering, TypeOK, Own, Goto
    <2> QED
      BY <2>1, <2>2, <2>3
  <1>5. DyingInv'
    BY <1>0, <1>b, <1>d DEF DyingInv, TypeOK, Mapped, Goto
  <1>6. MemoryInv'
    BY <1>b DEF MemoryInv
  <1>7. \A v \in Wrappers : IF v = w THEN t \in Holders(v) /\ Holders(v)' = (Holders(v) \ {t}) \cup {d}
                            ELSE Holders(v)' = Holders(v)
    BY <1>0, <1>a, <1>d DEF Holders, TypeOK
  <1>8. HeldWrapperIsLive'
    BY <1>a, <1>b, <1>7 DEF HeldWrapperIsLive
  <1>9. NoUnderCount'
    BY <1>0, <1>b, <1>7, CountStep DEF NoUnderCount
  <1>u. UserInv' /\ ThreadInv'
    <2>1. /\ \A u \in Threads : u # t => pc'[u] = pc[u] /\ found'[u] = found[u] /\ tmp'[u] = tmp[u]
          /\ pc[t] \notin {"publish", "dispose", "guestRelease"}
          /\ pc'[t] \notin {"publish", "dispose", "guestRelease"}
      BY <1>0, <1>b, <1>d DEF TypeOK, Goto
    <2>2. \A s \in Slots : ref'[s] # None => Uses(Owner[s], ref'[s])
      BY <1>0, <1>a, <1>d DEF UserInv, TypeOK
    <2>3. \A u \in Threads : tmp'[u] # None => Uses(u, tmp'[u])
      BY <1>0, <1>d DEF UserInv, TypeOK
    <2> QED
      BY <1>b, <2>1, <2>2, <2>3, UsersSame
  <1> QED
    BY <1>1, <1>2, <1>3, <1>4, <1>5, <1>6, <1>8, <1>9, <1>u

LEMMA AutoreleaseInv ==
    ASSUME Disciplined, IInv, NEW t \in Threads, AutoreleaseReturns(t)
    PROVE  IInv'
  <1> USE BlockAssumption DEF IInv
  <1> DEFINE w == tmp[t]
             x == src[t]
  <1>b. UNCHANGED <<forward, lock, count, wstate, wguest, gcount, found>>
    BY DEF heapVars, AutoreleaseReturns
  <1>0. /\ TypeOK /\ pc[t] = "got" /\ op[t] = "autorelease" /\ TmpOK(t) /\ ArgOK(t) /\ FoundOK(t)
    BY DEF AutoreleaseReturns, CallInv
  <1>a. /\ w \in Wrappers /\ Mapped(w) /\ arg[t] = addr[x]
        /\ x \in Slots /\ Owner[x] = t /\ kind[x] = "guest"
    BY <1>0 DEF TmpOK, ArgOK, TypeOK, Entering, GivesSrc, Own
  <1>c. Stands(w, addr[x])
    BY <1>0, <1>a DEF FoundOK
  <1>d. /\ kind' = [kind EXCEPT ![x] = "pool"]
        /\ addr' = [addr EXCEPT ![x] = addr[x]]
        /\ ref' = [ref EXCEPT ![x] = w]
        /\ tmp' = [tmp EXCEPT ![t] = None]
        /\ Goto(t, "idle")
    BY DEF AutoreleaseReturns, Fill
  <1>1. TypeOK'
    BY <1>0, <1>a, <1>b, <1>d DEF TypeOK, Steps, Goto, Kinds, Ops
  <1>2. LockInv'
    BY <1>0, <1>b, <1>d DEF LockInv, TypeOK, Goto
  <1>3. SlotInv'
    BY <1>0, <1>a, <1>b, <1>c, <1>d DEF SlotInv, Stands, Mapped, TypeOK
  <1>4. CallInv'
    <2> SUFFICES ASSUME NEW u \in Threads PROVE (TmpOK(u) /\ ArgOK(u) /\ FoundOK(u))'
      BY DEF CallInv
    <2>0. TmpOK(u) /\ ArgOK(u) /\ FoundOK(u)
      BY DEF CallInv
    <2>1. TmpOK(u)'
      BY <2>0, <1>0, <1>a, <1>b, <1>d DEF TmpOK, TypeOK, Mapped, Goto
    <2>2. ArgOK(u)'
      BY <2>0, <1>0, <1>a, <1>b, <1>d DEF ArgOK, TypeOK, Entering, TakesDst, GivesSrc, Empty, Own, Goto
    <2>3. FoundOK(u)'
      BY <2>0, <1>0, <1>a, <1>b, <1>d DEF FoundOK, Stands, ArgOK, Entering, TypeOK, Own, Goto
    <2> QED
      BY <2>1, <2>2, <2>3
  <1>5. DyingInv'
    BY <1>0, <1>b, <1>d DEF DyingInv, TypeOK, Mapped, Goto
  <1>6. MemoryInv'
    BY <1>b DEF MemoryInv
  <1>7. \A v \in Wrappers :
          IF v = w THEN t \in Holders(v) /\ Holders(v)' \subseteq (Holders(v) \ {t}) \cup {x}
                   ELSE Holders(v)' \subseteq Holders(v)
    BY <1>0, <1>a, <1>d DEF Holders, TypeOK
  <1>8. HeldWrapperIsLive'
    BY <1>a, <1>b, <1>7 DEF HeldWrapperIsLive
  <1>9. NoUnderCount'
    BY <1>0, <1>b, <1>7, CountStep DEF NoUnderCount
  <1>u. UserInv' /\ ThreadInv'
    <2>1. /\ \A u \in Threads : u # t => pc'[u] = pc[u] /\ found'[u] = found[u] /\ tmp'[u] = tmp[u]
          /\ pc[t] \notin {"publish", "dispose", "guestRelease"}
          /\ pc'[t] \notin {"publish", "dispose", "guestRelease"}
      BY <1>0, <1>b, <1>d DEF TypeOK, Goto
    <2>2. \A s \in Slots : ref'[s] # None => Uses(Owner[s], ref'[s])
      BY <1>0, <1>a, <1>d DEF UserInv, TypeOK
    <2>3. \A u \in Threads : tmp'[u] # None => Uses(u, tmp'[u])
      BY <1>0, <1>d DEF UserInv, TypeOK
    <2> QED
      BY <1>b, <2>1, <2>2, <2>3, UsersSame
  <1> QED
    BY <1>1, <1>2, <1>3, <1>4, <1>5, <1>6, <1>8, <1>9, <1>u

LEMMA MsgCopyInv ==
    ASSUME Disciplined, IInv, NEW t \in Threads, MsgCopy(t)
    PROVE  IInv'
  <1> USE BlockAssumption DEF IInv
  <1> DEFINE w == tmp[t]
             d == dst[t]
  <1>b. UNCHANGED <<forward, lock, wstate, wguest, gcount, found, tmp, op, arg, src, dst>>
    BY DEF MsgCopy, Goto
  <1>0. TypeOK /\ pc[t] = "got" /\ op[t] \in TakesDst /\ TmpOK(t) /\ ArgOK(t) /\ FoundOK(t)
    BY DEF MsgCopy, CallInv, TakesDst
  <1>a. /\ w \in Wrappers /\ Mapped(w) /\ t \in Holders(w)
        /\ d \in Slots /\ Owner[d] = t /\ kind[d] = "none" /\ ref[d] = None
    BY <1>0 DEF TmpOK, ArgOK, TypeOK, Entering, Empty, Own, SlotInv, Stands, Holders
  <1>c. wstate[w] = "live" /\ count[w] \in Nat /\ wguest[w] \in Wrapped
    BY <1>a, HeldFacts
  <1>d. /\ kind' = [kind EXCEPT ![d] = "guest"]
        /\ addr' = [addr EXCEPT ![d] = wguest[w]]
        /\ ref' = [ref EXCEPT ![d] = w]
        /\ count' = [count EXCEPT ![w] = count[w] + 1]
        /\ pc' = [pc EXCEPT ![t] = "dropTmp"]
    BY DEF MsgCopy, Fill, Goto
  <1>1. TypeOK'
    BY <1>0, <1>a, <1>b, <1>c, <1>d DEF TypeOK, Steps, Kinds, Guests, Wrapped
  <1>2. LockInv'
    BY <1>0, <1>b, <1>d DEF LockInv, TypeOK
  <1>3. SlotInv'
    BY <1>0, <1>a, <1>b, <1>c, <1>d DEF SlotInv, Stands, Mapped, TypeOK, Guests, Wrapped
  <1>4. CallInv'
    <2> SUFFICES ASSUME NEW u \in Threads PROVE (TmpOK(u) /\ ArgOK(u) /\ FoundOK(u))'
      BY DEF CallInv
    <2>0. TmpOK(u) /\ ArgOK(u) /\ FoundOK(u)
      BY DEF CallInv
    <2>1. TmpOK(u)'
      BY <2>0, <1>0, <1>a, <1>b, <1>d DEF TmpOK, TypeOK, Mapped, Guests, Wrapped
    <2>2. ArgOK(u)'
      BY <2>0, <1>0, <1>a, <1>b, <1>d DEF ArgOK, TypeOK, Entering, TakesDst, GivesSrc, Empty, Own, Guests, Wrapped
    <2>3. FoundOK(u)'
      BY <2>0, <1>0, <1>a, <1>b, <1>d DEF FoundOK, Stands, ArgOK, Entering, TypeOK, Own, Guests, Wrapped
    <2> QED
      BY <2>1, <2>2, <2>3
  <1>5. DyingInv'
    BY <1>0, <1>b, <1>d DEF DyingInv, TypeOK, Mapped
  <1>6. MemoryInv'
    BY <1>b DEF MemoryInv
  <1>7. \A v \in Wrappers : IF v = w THEN Holders(v)' = Holders(v) \cup {d} /\ count'[v] = count[v] + 1
                            ELSE Holders(v)' = Holders(v) /\ count'[v] = count[v]
    BY <1>0, <1>a, <1>b, <1>d DEF Holders, TypeOK
  <1>8. HeldWrapperIsLive'
    BY <1>a, <1>b, <1>c, <1>7 DEF HeldWrapperIsLive
  <1>9. NoUnderCount'
    BY <1>0, <1>b, <1>7, CountStep DEF NoUnderCount
  <1>u. UserInv' /\ ThreadInv'
    <2>1. /\ \A u \in Threads : u # t => pc'[u] = pc[u] /\ found'[u] = found[u] /\ tmp'[u] = tmp[u]
          /\ pc[t] \notin {"publish", "dispose", "guestRelease"}
          /\ pc'[t] \notin {"publish", "dispose", "guestRelease"}
      BY <1>0, <1>b, <1>d DEF TypeOK, Goto
    <2>2. \A s \in Slots : ref'[s] # None => Uses(Owner[s], ref'[s])
      BY <1>0, <1>a, <1>d DEF UserInv, TypeOK
    <2>3. \A u \in Threads : tmp'[u] # None => Uses(u, tmp'[u])
      BY <1>b DEF UserInv
    <2> QED
      BY <1>b, <2>1, <2>2, <2>3, UsersSame
  <1> QED
    BY <1>1, <1>2, <1>3, <1>4, <1>5, <1>6, <1>8, <1>9, <1>u

(* A message that gives a reference up has its wrapper in hand.            *)
LEMMA SenderHolds ==
    ASSUME IInv, NEW t \in Threads, pc[t] = "got", op[t] \in {"msgRelease", "msgAutorelease"}
    PROVE  /\ src[t] \in Slots /\ Owner[src[t]] = t
           /\ kind[src[t]] = "guest" /\ ref[src[t]] = tmp[t]
  <1> USE BlockAssumption DEF IInv
  <1>0. TypeOK /\ TmpOK(t) /\ ArgOK(t) /\ FoundOK(t)
    BY DEF CallInv
  <1>1. src[t] \in Slots /\ Owner[src[t]] = t /\ kind[src[t]] = "guest" /\ arg[t] \notin Stack
    BY <1>0 DEF ArgOK, Entering, GivesSrc, Own
  <1>2. arg[t] = wguest[ref[src[t]]] /\ Mapped(ref[src[t]])
    BY <1>0, <1>1 DEF ArgOK, Entering, SlotInv
  <1>3. wguest[tmp[t]] = arg[t] /\ Mapped(tmp[t])
    BY <1>0, <1>1 DEF FoundOK, Stands, TmpOK
  <1> QED
    BY <1>1, <1>2, <1>3 DEF Mapped

(* Messages other than -copy only move on to the release of the receiver.  *)
LEMMA MsgInv ==
    ASSUME Disciplined, IInv, NEW t \in Threads,
           MsgAutorelease(t) \/ MsgRelease(t) \/ MsgOther(t)
    PROVE  IInv'
  <1> USE BlockAssumption DEF IInv
  <1>b. UNCHANGED <<forward, lock, count, wstate, wguest, gcount, tmp, op, arg, src, dst>>
    BY DEF heapVars, MsgAutorelease, MsgRelease, MsgOther, Goto
  <1>0. TypeOK /\ pc[t] = "got" /\ TmpOK(t) /\ ArgOK(t) /\ FoundOK(t) /\ tmp[t] \in Wrappers
    BY DEF MsgAutorelease, MsgRelease, MsgOther, CallInv, TmpOK, TypeOK
  <1>a. op[t] \in {"msgRelease", "msgAutorelease"} =>
          /\ src[t] \in Slots /\ Owner[src[t]] = t
          /\ kind[src[t]] = "guest" /\ ref[src[t]] = tmp[t]
    BY <1>0, SenderHolds
  <1>c. /\ UNCHANGED <<addr, ref>>
        /\ \/ kind' = kind
           \/ src[t] \in Slots /\ Owner[src[t]] = t /\ kind[src[t]] = "guest"
              /\ kind' = [kind EXCEPT ![src[t]] = "pool"]
        /\ \/ pc' = [pc EXCEPT ![t] = "dropTmp"] /\ found' = found
           \/ /\ pc' = [pc EXCEPT ![t] = "dropSlot"]
              /\ found' = [found EXCEPT ![t] = tmp[t]]
              /\ op[t] = "msgRelease" /\ kind' = kind
    <2>1. CASE MsgAutorelease(t)
      BY <2>1, <1>0, <1>a DEF MsgAutorelease, Fill, Goto, TypeOK
    <2>2. CASE MsgRelease(t)
      BY <2>2 DEF MsgRelease, Goto, slotVars
    <2>3. CASE MsgOther(t)
      BY <2>3 DEF MsgOther, Goto, slotVars
    <2> QED
      BY <2>1, <2>2, <2>3
  <1>1. TypeOK'
    BY <1>0, <1>b, <1>c DEF TypeOK, Steps, Kinds
  <1>2. LockInv'
    BY <1>0, <1>b, <1>c DEF LockInv, TypeOK
  <1>3. SlotInv'
    BY <1>0, <1>b, <1>c DEF SlotInv, Stands, Mapped, TypeOK
  <1>4. CallInv'
    <2> SUFFICES ASSUME NEW u \in Threads PROVE (TmpOK(u) /\ ArgOK(u) /\ FoundOK(u))'
      BY DEF CallInv
    <2>0. TmpOK(u) /\ ArgOK(u) /\ FoundOK(u)
      BY DEF CallInv
    <2>1. TmpOK(u)'
      BY <2>0, <1>0, <1>b, <1>c DEF TmpOK, TypeOK, Mapped
    <2>2. ArgOK(u)'
      <3>1. CASE u = t
        BY <3>1, <1>0, <1>c DEF ArgOK, Entering, TypeOK
      <3>2. CASE u # t
        BY <3>2, <2>0, <1>0, <1>b, <1>c DEF ArgOK, TypeOK, Entering, Empty, Own
      <3> QED
        BY <3>1, <3>2
    <2>3. FoundOK(u)'
      BY <2>0, <1>0, <1>a, <1>b, <1>c DEF FoundOK, Stands, TypeOK, Own
    <2> QED
      BY <2>1, <2>2, <2>3
  <1>5. DyingInv'
    <2>1. /\ \A u \in Threads : u # t => pc'[u] = pc[u] /\ found'[u] = found[u]
          /\ pc'[t] \notin {"dispose", "guestRelease"}
      BY <1>0, <1>c DEF TypeOK
    <2> QED
      BY <2>1, <1>b, DyingSame
  <1>6. MemoryInv'
    BY <1>b DEF MemoryInv
  <1>7. HeldWrapperIsLive' /\ NoUnderCount'
    BY <1>b, <1>c, SameHolders
  <1>u. UserInv' /\ ThreadInv'
    <2>1. /\ \A u \in Threads : u # t => pc'[u] = pc[u] /\ found'[u] = found[u] /\ tmp'[u] = tmp[u]
          /\ pc[t] \notin {"publish", "dispose", "guestRelease"}
          /\ pc'[t] \notin {"publish", "dispose", "guestRelease"}
      BY <1>0, <1>b, <1>c DEF TypeOK, Goto
    <2>2. \A s \in Slots : ref'[s] # None => Uses(Owner[s], ref'[s])
      BY <1>c DEF UserInv
    <2>3. \A u \in Threads : tmp'[u] # None => Uses(u, tmp'[u])
      BY <1>b DEF UserInv
    <2> QED
      BY <1>b, <2>1, <2>2, <2>3, UsersSame
  <1> QED
    BY <1>1, <1>2, <1>3, <1>4, <1>5, <1>6, <1>7, <1>u

(* A release starts: the slot and the wrapper it counts on are known.      *)
LEMMA StartDropInv ==
    ASSUME Disciplined, IInv, NEW t \in Threads, NEW x \in Own(t),
           pc[t] = "idle", kind[x] # "none", UNCHANGED <<heapVars, slotVars, op, arg, dst, tmp>>,
           found' = [found EXCEPT ![t] = ref[x]], src' = [src EXCEPT ![t] = x],
           pc' = [pc EXCEPT ![t] = "dropSlot"]
    PROVE  IInv'
  <1> USE BlockAssumption DEF IInv
  <1>b. UNCHANGED <<forward, lock, count, wstate, wguest, gcount, kind, addr, ref>>
    BY DEF heapVars, slotVars
  <1>0. TypeOK /\ TmpOK(t) /\ x \in Slots
    BY DEF CallInv, Own
  <1>1. TypeOK'
    BY <1>0, <1>b DEF TypeOK, Steps
  <1>2. LockInv'
    BY <1>0, <1>b DEF LockInv, TypeOK
  <1>3. SlotInv'
    BY <1>b DEF SlotInv, Stands, Mapped
  <1>4. CallInv'
    <2> SUFFICES ASSUME NEW u \in Threads PROVE (TmpOK(u) /\ ArgOK(u) /\ FoundOK(u))'
      BY DEF CallInv
    <2>0. TmpOK(u) /\ ArgOK(u) /\ FoundOK(u)
      BY DEF CallInv
    <2>1. TmpOK(u)'
      BY <2>0, <1>0, <1>b DEF TmpOK, TypeOK, Mapped, TmpOK
    <2>2. ArgOK(u)'
      BY <2>0, <1>0, <1>b DEF ArgOK, TypeOK, Entering, Empty, Own, TmpOK
    <2>3. FoundOK(u)'
      BY <2>0, <1>0, <1>b DEF FoundOK, Stands, ArgOK, Entering, TypeOK, Own, TmpOK
    <2> QED
      BY <2>1, <2>2, <2>3
  <1>5. DyingInv'
    BY <1>0, <1>b DEF DyingInv, TypeOK, Mapped
  <1>6. MemoryInv'
    BY <1>b DEF MemoryInv
  <1>7. HeldWrapperIsLive' /\ NoUnderCount'
    BY <1>b, SameHolders
  <1>u. UserInv' /\ ThreadInv'
    <2>1. /\ \A u \in Threads : u # t => pc'[u] = pc[u] /\ found'[u] = found[u] /\ tmp'[u] = tmp[u]
          /\ pc[t] \notin {"publish", "dispose", "guestRelease"}
          /\ pc'[t] \notin {"publish", "dispose", "guestRelease"}
      BY <1>0, <1>b DEF TypeOK, Goto
    <2>2. \A s \in Slots : ref'[s] # None => Uses(Owner[s], ref'[s])
      BY <1>b DEF UserInv
    <2>3. \A u \in Threads : tmp'[u] # None => Uses(u, tmp'[u])
      BY <1>b DEF UserInv
    <2> QED
      BY <1>b, <2>1, <2>2, <2>3, UsersSame
  <1> QED
    BY <1>1, <1>2, <1>3, <1>4, <1>5, <1>6, <1>7, <1>u

LEMMA ReleaseInv ==
    ASSUME Disciplined, IInv, NEW t \in Threads, NEW x \in Own(t),
           xl_block_release(t, x) \/ HostRelease(t, x)
    PROVE  IInv'
  <1> USE BlockAssumption DEF IInv
  <1>0. TypeOK /\ x \in Slots /\ Owner[x] = t /\ pc[t] = "idle"
    BY DEF Own, xl_block_release, HostRelease
  <1>1. CASE HostRelease(t, x)
    BY <1>1, <1>0, StartDropInv DEF HostRelease
  <1>2. CASE xl_block_release(t, x)
    <2>0. kind[x] = "guest" /\ Mapped(ref[x]) /\ addr[x] \in Guests /\ ref[x] # None
      BY <1>2, <1>0 DEF xl_block_release, Disciplined, SlotInv, Stands
    <2>1. addr[x] \notin Stack => forward[addr[x]] = ref[x]
      BY <1>0, <2>0 DEF SlotInv, Stands, Mapped
    <2>2. addr[x] \in Stack => forward[addr[x]] = None
      BY <1>0, <2>0 DEF MemoryInv, TypeOK, Guests, Wrapped
    <2>3. CASE forward[addr[x]] # None
      BY <2>3, <2>0, <2>1, <2>2, <1>2, StartDropInv DEF xl_block_release
    <2>4. CASE forward[addr[x]] = None
      <3>b. UNCHANGED <<forward, lock, count, wstate, wguest, gcount, pc, op, arg, src, dst, found, tmp>>
        BY <2>4, <1>2 DEF xl_block_release, heapVars, callVars
      <3>a. /\ kind' = [kind EXCEPT ![x] = "none"]
            /\ addr' = [addr EXCEPT ![x] = None]
            /\ ref' = [ref EXCEPT ![x] = None]
        BY <2>4, <1>2 DEF xl_block_release, Fill
      <3>1. TypeOK'
        BY <1>0, <3>a, <3>b DEF TypeOK, Kinds
      <3>2. LockInv' /\ DyingInv' /\ MemoryInv'
        BY <3>b DEF LockInv, DyingInv, Mapped, MemoryInv
      <3>3. SlotInv'
        BY <1>0, <3>a, <3>b DEF SlotInv, Stands, Mapped, TypeOK
      <3>4. CallInv'
        <4> SUFFICES ASSUME NEW u \in Threads PROVE (TmpOK(u) /\ ArgOK(u) /\ FoundOK(u))'
          BY DEF CallInv
        <4>0. TmpOK(u) /\ ArgOK(u) /\ FoundOK(u)
          BY DEF CallInv
        <4>1. TmpOK(u)'
          BY <4>0, <3>b DEF TmpOK, Mapped
        <4>2. ArgOK(u)'
          <5>1. CASE u = t
            BY <5>1, <1>0, <3>a, <3>b DEF ArgOK, Entering
          <5>2. CASE u # t
            BY <5>2, <4>0, <1>0, <3>a, <3>b DEF ArgOK, TypeOK, GivesSrc, TakesDst, Empty, Own
          <5> QED
            BY <5>1, <5>2
        <4>3. FoundOK(u)'
          BY <4>0, <1>0, <3>a, <3>b DEF FoundOK, Stands, ArgOK, Entering, TypeOK, Own
        <4> QED
          BY <4>1, <4>2, <4>3
      <3>5. \A v \in Wrappers : Holders(v)' \subseteq Holders(v)
        BY <1>0, <3>a, <3>b DEF Holders, TypeOK
      <3>6. HeldWrapperIsLive'
        BY <3>b, <3>5 DEF HeldWrapperIsLive
      <3>7. NoUnderCount'
        BY <1>0, <3>b, <3>5, CountStep DEF NoUnderCount
      <3>u. UserInv' /\ ThreadInv'
        <4>1. \A s \in Slots : ref'[s] # None => Uses(Owner[s], ref'[s])
          BY <1>0, <3>a DEF UserInv, TypeOK
        <4>2. \A q \in Threads : tmp'[q] # None => Uses(q, tmp'[q])
          BY <3>b DEF UserInv
        <4> QED
          BY <1>0, <3>b, <4>1, <4>2, UsersSame
      <3> QED
        BY <3>1, <3>2, <3>3, <3>4, <3>6, <3>7, <3>u
    <2> QED
      BY <2>3, <2>4
  <1> QED
    BY <1>1, <1>2

LEMMA HostRetainInv ==
    ASSUME Disciplined, IInv, NEW t \in Threads, NEW x \in Own(t), NEW d \in Empty(t),
           HostRetain(t, x, d)
    PROVE  IInv'
  <1> USE BlockAssumption DEF IInv
  <1> DEFINE w == ref[x]
  <1>b. UNCHANGED <<forward, lock, wstate, wguest, gcount, pc, op, arg, src, dst, found, tmp>>
    BY DEF HostRetain, callVars
  <1>0. /\ TypeOK /\ pc[t] = "idle" /\ x \in Slots
        /\ d \in Slots /\ Owner[d] = t /\ kind[d] = "none" /\ ref[d] = None
    BY DEF HostRetain, Own, Empty, SlotInv, Stands
  <1>a. /\ kind[x] # "none" /\ w \in Wrappers /\ Mapped(w) /\ x \in Holders(w) /\ addr[x] \in Guests
    BY <1>0 DEF HostRetain, SlotInv, Stands, TypeOK, Holders
  <1>c. wstate[w] = "live" /\ count[w] \in Nat
    BY <1>a, HeldFacts
  <1>d. /\ kind' = [kind EXCEPT ![d] = "host"]
        /\ addr' = [addr EXCEPT ![d] = addr[x]]
        /\ ref' = [ref EXCEPT ![d] = w]
        /\ count' = [count EXCEPT ![w] = count[w] + 1]
    BY DEF HostRetain, Fill
  <1>1. TypeOK'
    BY <1>0, <1>a, <1>b, <1>c, <1>d DEF TypeOK, Kinds
  <1>2. LockInv' /\ DyingInv' /\ MemoryInv'
    BY <1>b DEF LockInv, DyingInv, Mapped, MemoryInv
  <1>3. SlotInv'
    BY <1>0, <1>a, <1>b, <1>d DEF SlotInv, Stands, Mapped, TypeOK
  <1>4. CallInv'
    <2> SUFFICES ASSUME NEW u \in Threads PROVE (TmpOK(u) /\ ArgOK(u) /\ FoundOK(u))'
      BY DEF CallInv
    <2>0. TmpOK(u) /\ ArgOK(u) /\ FoundOK(u)
      BY DEF CallInv
    <2>1. TmpOK(u)'
      BY <2>0, <1>0, <1>b, <1>d DEF TmpOK, TypeOK, Mapped
    <2>2. ArgOK(u)'
      <3>1. CASE u = t
        BY <3>1, <1>0, <1>b, <1>d DEF ArgOK, Entering
      <3>2. CASE u # t
        BY <3>2, <2>0, <1>0, <1>b, <1>d DEF ArgOK, TypeOK, GivesSrc, TakesDst, Empty, Own
      <3> QED
        BY <3>1, <3>2
    <2>3. FoundOK(u)'
      BY <2>0, <1>0, <1>b, <1>d DEF FoundOK, Stands, ArgOK, Entering, TypeOK, Own
    <2> QED
      BY <2>1, <2>2, <2>3
  <1>7. \A v \in Wrappers : IF v = w THEN Holders(v)' = Holders(v) \cup {d} /\ count'[v] = count[v] + 1
                            ELSE Holders(v)' = Holders(v) /\ count'[v] = count[v]
    BY <1>0, <1>a, <1>b, <1>d DEF Holders, TypeOK
  <1>8. HeldWrapperIsLive'
    BY <1>b, <1>c, <1>7 DEF HeldWrapperIsLive
  <1>9. NoUnderCount'
    BY <1>0, <1>b, <1>7, CountStep DEF NoUnderCount
  <1>u. UserInv' /\ ThreadInv'
    <2>1. /\ \A u \in Threads : u # t => pc'[u] = pc[u] /\ found'[u] = found[u] /\ tmp'[u] = tmp[u]
          /\ pc[t] \notin {"publish", "dispose", "guestRelease"}
          /\ pc'[t] \notin {"publish", "dispose", "guestRelease"}
      BY <1>0, <1>b DEF TypeOK, Goto
    <2>2. \A s \in Slots : ref'[s] # None => Uses(Owner[s], ref'[s])
      BY <1>0, <1>a, <1>d DEF UserInv, TypeOK, Own
    <2>3. \A u \in Threads : tmp'[u] # None => Uses(u, tmp'[u])
      BY <1>b DEF UserInv
    <2> QED
      BY <1>b, <2>1, <2>2, <2>3, UsersSame
  <1> QED
    BY <1>1, <1>2, <1>3, <1>4, <1>8, <1>9, <1>u

(* The host's _Block_release of a wrapper that its holder e gives up.      *)
LEMMA DropFacts ==
    ASSUME IInv, NEW t \in Threads, NEW w \in Wrappers, NEW e \in Holders(w), NEW next,
           HostBlockRelease(t, w, next),
           \A v \in Wrappers : Holders(v)' = Holders(v) \ {e}
    PROVE  /\ wstate[w] = "live"
           /\ count' \in [Wrappers -> Nat]
           /\ wstate' = IF count[w] = 1 THEN [wstate EXCEPT ![w] = "dying"] ELSE wstate
           /\ found' = [found EXCEPT ![t] = IF count[w] = 1 THEN w ELSE None]
           /\ pc' = [pc EXCEPT ![t] = IF count[w] = 1 THEN "dispose" ELSE next]
           /\ count[w] = 1 => Holders(w)' = {}
           /\ HeldWrapperIsLive'
           /\ NoUnderCount'
  <1> USE DEF IInv
  <1>0. /\ wstate[w] = "live" /\ count[w] \in Nat /\ count[w] >= 1
        /\ count[w] = 1 => Holders(w) \ {e} = {}
    BY HeldFacts
  <1>1. /\ count' = [count EXCEPT ![w] = count[w] - 1]
        /\ wstate' = IF count[w] = 1 THEN [wstate EXCEPT ![w] = "dying"] ELSE wstate
        /\ found' = [found EXCEPT ![t] = IF count[w] = 1 THEN w ELSE None]
        /\ pc' = [pc EXCEPT ![t] = IF count[w] = 1 THEN "dispose" ELSE next]
    <2>1. CASE count[w] = 1
      BY <2>1, <1>0 DEF HostBlockRelease, Goto
    <2>2. CASE count[w] # 1
      <3>1. count[w] # 0
        BY <1>0
      <3>2. count' = [count EXCEPT ![w] = IF count[w] = 0 THEN 0 ELSE count[w] - 1]
        BY DEF HostBlockRelease
      <3>3. wstate' = wstate /\ found' = [found EXCEPT ![t] = None] /\ pc' = [pc EXCEPT ![t] = next]
        BY <2>2 DEF HostBlockRelease, Goto
      <3> QED
        BY <2>2, <3>1, <3>2, <3>3
    <2> QED
      BY <2>1, <2>2
  <1>2. count' \in [Wrappers -> Nat]
    BY <1>0, <1>1 DEF TypeOK
  <1>3. \A v \in Wrappers : wstate'[v] = "live" => wstate[v] = "live" /\ (v = w => count[w] # 1)
    BY <1>1 DEF TypeOK
  <1>4. HeldWrapperIsLive'
    BY <1>0, <1>1 DEF HeldWrapperIsLive, TypeOK
  <1>5. NoUnderCount'
    <2> SUFFICES ASSUME NEW v \in Wrappers, wstate'[v] = "live"
                 PROVE  count'[v] >= Cardinality(Holders(v)')
      BY DEF NoUnderCount
    <2>1. wstate[v] = "live" /\ count'[v] = IF v = w THEN count[v] - 1 ELSE count[v]
      BY <1>1, <1>3 DEF TypeOK
    <2> QED
      BY <2>1, CountStep
  <1> QED
    BY <1>0, <1>1, <1>2, <1>4, <1>5

LEMMA DropSlotInv ==
    ASSUME Disciplined, IInv, NEW t \in Threads, DropSlot(t)
    PROVE  IInv'
  <1> USE BlockAssumption DEF IInv
  <1> DEFINE w == found[t]
             x == src[t]
             next == IF tmp[t] = None THEN "idle" ELSE "dropTmp"
  <1>b. UNCHANGED <<forward, lock, wguest, gcount, tmp>>
    BY DEF DropSlot
  <1>0. /\ TypeOK /\ pc[t] = "dropSlot" /\ TmpOK(t)
        /\ x \in Slots /\ Owner[x] = t /\ kind[x] # "none" /\ w = ref[x] /\ w \in Wrappers
        /\ tmp[t] \in {None, w}
    BY DEF DropSlot, CallInv, FoundOK, Stands, Own, SlotInv, TypeOK
  <1>a. x \in Holders(w) /\ HostBlockRelease(t, w, next)
    BY <1>0 DEF Holders, DropSlot
  <1>c. /\ kind' = [kind EXCEPT ![x] = "none"]
        /\ addr' = [addr EXCEPT ![x] = None]
        /\ ref' = [ref EXCEPT ![x] = None]
    BY DEF DropSlot, Fill
  <1>7. \A v \in Wrappers : Holders(v)' = Holders(v) \ {x}
    BY <1>0, <1>b, <1>c DEF Holders, TypeOK
  <1>d. /\ wstate[w] = "live"
        /\ count' \in [Wrappers -> Nat]
        /\ wstate' = IF count[w] = 1 THEN [wstate EXCEPT ![w] = "dying"] ELSE wstate
        /\ found' = [found EXCEPT ![t] = IF count[w] = 1 THEN w ELSE None]
        /\ pc' = [pc EXCEPT ![t] = IF count[w] = 1 THEN "dispose" ELSE next]
        /\ count[w] = 1 => \A v \in Wrappers : v = w => Holders(v)' = {}
        /\ HeldWrapperIsLive' /\ NoUnderCount'
    <2>1. CASE tmp[t] = None
      <3>1. HostBlockRelease(t, w, "idle")
        BY <2>1, <1>a
      <3> QED
        BY <2>1, <3>1, <1>0, <1>a, <1>7, DropFacts
    <2>2. CASE tmp[t] # None
      <3>1. HostBlockRelease(t, w, "dropTmp")
        BY <2>2, <1>a
      <3> QED
        BY <2>2, <3>1, <1>0, <1>a, <1>7, DropFacts
    <2> QED
      BY <2>1, <2>2
  <1>e. count[w] = 1 => tmp[t] = None
    BY <1>0, <1>b, <1>d DEF Holders
  <1>f. /\ op' \in [Threads -> Ops] /\ arg' \in [Threads -> Guests \cup {None}]
        /\ src' \in [Threads -> Slots \cup {None}] /\ dst' \in [Threads -> Slots \cup {None}]
        /\ \A u \in Threads \ {t} : op'[u] = op[u] /\ arg'[u] = arg[u] /\ src'[u] = src[u] /\ dst'[u] = dst[u]
    BY <1>0 DEF DropSlot, HostBlockRelease, Goto, TypeOK, Ops
  <1>1. TypeOK'
    BY <1>0, <1>b, <1>c, <1>d, <1>f DEF TypeOK, Steps, Kinds
  <1>2. LockInv'
    BY <1>0, <1>b, <1>d DEF LockInv, TypeOK
  <1>3. SlotInv'
    BY <1>0, <1>b, <1>c DEF SlotInv, Stands, Mapped, TypeOK
  <1>4. CallInv'
    <2> SUFFICES ASSUME NEW u \in Threads PROVE (TmpOK(u) /\ ArgOK(u) /\ FoundOK(u))'
      BY DEF CallInv
    <2>0. TmpOK(u) /\ ArgOK(u) /\ FoundOK(u)
      BY DEF CallInv
    <2>1. TmpOK(u)'
      BY <2>0, <1>0, <1>b, <1>d, <1>e DEF TmpOK, TypeOK, Mapped
    <2>2. ArgOK(u)'
      <3>1. CASE u = t
        BY <3>1, <1>0, <1>d DEF ArgOK, Entering, TypeOK
      <3>2. CASE u # t
        <4>1. pc'[u] = pc[u]
          BY <3>2, <1>0, <1>d DEF TypeOK
        <4> QED
          BY <4>1, <3>2, <2>0, <1>0, <1>b, <1>c, <1>f DEF ArgOK, TypeOK, GivesSrc, TakesDst, Empty, Own
      <3> QED
        BY <3>1, <3>2
    <2>3. FoundOK(u)'
      <3>1. CASE u = t
        BY <3>1, <1>0, <1>d DEF FoundOK, Stands, TypeOK
      <3>2. CASE u # t
        BY <3>2, <2>0, <1>0, <1>b, <1>c, <1>d, <1>f DEF FoundOK, Stands, ArgOK, TypeOK, Entering, Own
      <3> QED
        BY <3>1, <3>2
    <2> QED
      BY <2>1, <2>2, <2>3
  <1>5. DyingInv'
    <2>1. /\ \A u \in Threads : u # t => pc'[u] = pc[u] /\ found'[u] = found[u]
          /\ \A v \in Wrappers : wstate[v] = "dying" => wstate'[v] = "dying"
      BY <1>0, <1>d DEF TypeOK
    <2>2. CASE count[w] = 1
      <3>1. pc'[t] = "dispose" /\ found'[t] = w /\ wstate'[w] = "dying"
        BY <2>2, <1>0, <1>d DEF TypeOK
      <3> HIDE DEF w
      <3> QED
        BY <2>1, <3>1, <1>0, <1>b, <1>d, DyingStart
    <2>3. CASE count[w] # 1
      <3>1. pc'[t] \notin {"dispose", "guestRelease"}
        BY <2>3, <1>0, <1>d DEF TypeOK
      <3> QED
        BY <2>1, <3>1, <1>b, DyingSame
    <2> QED
      BY <2>2, <2>3
  <1>6. MemoryInv'
    BY <1>0, <1>b, <1>d DEF MemoryInv, TypeOK
  <1>u. UserInv' /\ ThreadInv'
    <2>1. /\ \A u \in Threads : u # t => pc'[u] = pc[u] /\ found'[u] = found[u] /\ tmp'[u] = tmp[u]
          /\ pc[t] \notin {"publish", "dispose", "guestRelease"}
      BY <1>0, <1>a, <1>b, <1>d DEF TypeOK
    <2>2. \A s \in Slots : ref'[s] # None => Uses(Owner[s], ref'[s])
      BY <1>0, <1>c DEF UserInv, TypeOK
    <2>3. \A u \in Threads : tmp'[u] # None => Uses(u, tmp'[u])
      BY <1>b DEF UserInv, TypeOK
    <2>4. CASE count[w] = 1
      <3>1. pc'[t] = "dispose" /\ found'[t] = w /\ \A v \in Wrappers : wstate'[v] = IF v = w THEN "dying" ELSE wstate[v]
        BY <2>4, <1>0, <1>d DEF TypeOK
      <3>2. Uses(t, w) /\ w \in Wrappers /\ wstate[w] = "live"
        BY <1>0, <1>d, BlockAssumption DEF UserInv
      <3> HIDE DEF w
      <3> QED
        BY <1>b, <2>1, <2>2, <2>3, <3>1, <3>2, UsersLast
    <2>5. CASE count[w] # 1
      <3>1. pc'[t] \notin {"publish", "dispose", "guestRelease"} /\ wstate' = wstate
        BY <2>5, <1>0, <1>d DEF TypeOK
      <3> QED
        BY <1>b, <2>1, <2>2, <2>3, <3>1, UsersSame
    <2> QED
      BY <2>4, <2>5
  <1> QED
    BY <1>1, <1>2, <1>3, <1>4, <1>5, <1>6, <1>d, <1>u

LEMMA DropTmpInv ==
    ASSUME Disciplined, IInv, NEW t \in Threads, DropTmp(t)
    PROVE  IInv'
  <1> USE BlockAssumption DEF IInv
  <1> DEFINE w == tmp[t]
  <1>b. UNCHANGED <<forward, lock, wguest, gcount, kind, addr, ref>>
    BY DEF DropTmp, slotVars
  <1>0. TypeOK /\ pc[t] = "dropTmp" /\ w \in Wrappers /\ t \in Holders(w)
    BY DEF DropTmp, CallInv, TmpOK, TypeOK, Holders
  <1>a. HostBlockRelease(t, w, "idle") /\ tmp' = [tmp EXCEPT ![t] = None]
    BY DEF DropTmp
  <1>7. \A v \in Wrappers : Holders(v)' = Holders(v) \ {t}
    BY <1>0, <1>a, <1>b DEF Holders, TypeOK
  <1>d. /\ wstate[w] = "live"
        /\ count' \in [Wrappers -> Nat]
        /\ wstate' = IF count[w] = 1 THEN [wstate EXCEPT ![w] = "dying"] ELSE wstate
        /\ found' = [found EXCEPT ![t] = IF count[w] = 1 THEN w ELSE None]
        /\ pc' = [pc EXCEPT ![t] = IF count[w] = 1 THEN "dispose" ELSE "idle"]
        /\ HeldWrapperIsLive' /\ NoUnderCount'
    BY <1>0, <1>a, <1>7, DropFacts
  <1>f. /\ op' \in [Threads -> Ops] /\ arg' \in [Threads -> Guests \cup {None}]
        /\ src' \in [Threads -> Slots \cup {None}] /\ dst' \in [Threads -> Slots \cup {None}]
        /\ \A u \in Threads \ {t} : op'[u] = op[u] /\ arg'[u] = arg[u] /\ src'[u] = src[u] /\ dst'[u] = dst[u]
    BY <1>0 DEF DropTmp, HostBlockRelease, Goto, TypeOK, Ops
  <1>1. TypeOK'
    BY <1>0, <1>a, <1>b, <1>d, <1>f DEF TypeOK, Steps
  <1>2. LockInv'
    BY <1>0, <1>b, <1>d DEF LockInv, TypeOK
  <1>3. SlotInv'
    BY <1>b DEF SlotInv, Stands, Mapped
  <1>4. CallInv'
    <2> SUFFICES ASSUME NEW u \in Threads PROVE (TmpOK(u) /\ ArgOK(u) /\ FoundOK(u))'
      BY DEF CallInv
    <2>0. TmpOK(u) /\ ArgOK(u) /\ FoundOK(u)
      BY DEF CallInv
    <2>1. TmpOK(u)'
      BY <2>0, <1>0, <1>a, <1>b, <1>d DEF TmpOK, TypeOK, Mapped
    <2>2. ArgOK(u)'
      BY <2>0, <1>0, <1>b, <1>d, <1>f DEF ArgOK, TypeOK, Entering, Empty, Own
    <2>3. FoundOK(u)'
      BY <2>0, <1>0, <1>a, <1>b, <1>d, <1>f DEF FoundOK, Stands, ArgOK, TypeOK, Entering, Own
    <2> QED
      BY <2>1, <2>2, <2>3
  <1>5. DyingInv'
    <2>1. /\ \A u \in Threads : u # t => pc'[u] = pc[u] /\ found'[u] = found[u]
          /\ \A v \in Wrappers : wstate[v] = "dying" => wstate'[v] = "dying"
      BY <1>0, <1>d DEF TypeOK
    <2>2. CASE count[w] = 1
      <3>1. pc'[t] = "dispose" /\ found'[t] = w /\ wstate'[w] = "dying"
        BY <2>2, <1>0, <1>d DEF TypeOK
      <3> HIDE DEF w
      <3> QED
        BY <2>1, <3>1, <1>0, <1>b, <1>d, DyingStart
    <2>3. CASE count[w] # 1
      <3>1. pc'[t] \notin {"dispose", "guestRelease"}
        BY <2>3, <1>0, <1>d DEF TypeOK
      <3> QED
        BY <2>1, <3>1, <1>b, DyingSame
    <2> QED
      BY <2>2, <2>3
  <1>6. MemoryInv'
    BY <1>0, <1>b, <1>d DEF MemoryInv, TypeOK
  <1>u. UserInv' /\ ThreadInv'
    <2>1. /\ \A u \in Threads : u # t => pc'[u] = pc[u] /\ found'[u] = found[u] /\ tmp'[u] = tmp[u]
          /\ pc[t] \notin {"publish", "dispose", "guestRelease"}
      BY <1>0, <1>a, <1>b, <1>d DEF TypeOK
    <2>2. \A s \in Slots : ref'[s] # None => Uses(Owner[s], ref'[s])
      BY <1>b DEF UserInv, TypeOK
    <2>3. \A u \in Threads : tmp'[u] # None => Uses(u, tmp'[u])
      BY <1>0, <1>a DEF UserInv, TypeOK
    <2>4. CASE count[w] = 1
      <3>1. pc'[t] = "dispose" /\ found'[t] = w /\ \A v \in Wrappers : wstate'[v] = IF v = w THEN "dying" ELSE wstate[v]
        BY <2>4, <1>0, <1>d DEF TypeOK
      <3>2. Uses(t, w) /\ w \in Wrappers /\ wstate[w] = "live"
        BY <1>0, <1>d, BlockAssumption DEF UserInv
      <3> HIDE DEF w
      <3> QED
        BY <1>b, <2>1, <2>2, <2>3, <3>1, <3>2, UsersLast
    <2>5. CASE count[w] # 1
      <3>1. pc'[t] \notin {"publish", "dispose", "guestRelease"} /\ wstate' = wstate
        BY <2>5, <1>0, <1>d DEF TypeOK
      <3> QED
        BY <1>b, <2>1, <2>2, <2>3, <3>1, UsersSame
    <2> QED
      BY <2>4, <2>5
  <1> QED
    BY <1>1, <1>2, <1>3, <1>4, <1>5, <1>6, <1>d, <1>u

LEMMA DisposeInv ==
    ASSUME Disciplined, IInv, NEW t \in Threads, Dispose(t)
    PROVE  IInv'
  <1> USE BlockAssumption DEF IInv
  <1> DEFINE w == found[t]
             h == wguest[w]
  <1>b. UNCHANGED <<lock, count, wstate, wguest, gcount, kind, addr, ref, op, arg, src, dst, found, tmp>>
    BY DEF Dispose, slotVars, Goto
  <1>0. /\ TypeOK /\ pc[t] = "dispose" /\ lock = None
        /\ w \in Wrappers /\ wstate[w] = "dying" /\ h \in Wrapped
        /\ forward' = [forward EXCEPT ![h] = None]
        /\ pc' = [pc EXCEPT ![t] = "guestRelease"]
    BY DEF Dispose, Goto, DyingInv, MemoryInv, TypeOK
  <1>a. \A v \in Wrappers : Mapped(v) /\ v # w => Mapped(v)'
    BY <1>0, <1>b DEF Mapped, MemoryInv, TypeOK
  <1>c. \A v \in Wrappers : Holders(v) # {} => v # w
    BY <1>0 DEF HeldWrapperIsLive
  <1>1. TypeOK'
    BY <1>0, <1>b DEF TypeOK, Steps, Guests, Wrapped
  <1>2. LockInv'
    BY <1>0, <1>b DEF LockInv, TypeOK
  <1>3. SlotInv'
    <2>1. \A s \in Slots : kind[s] # "none" => ref[s] \in Wrappers /\ ref[s] # w
      BY <1>0, <1>c DEF SlotInv, Stands, Holders, TypeOK
    <2> QED
      BY <2>1, <1>a, <1>b DEF SlotInv, Stands
  <1>4. CallInv'
    <2> SUFFICES ASSUME NEW u \in Threads PROVE (TmpOK(u) /\ ArgOK(u) /\ FoundOK(u))'
      BY DEF CallInv
    <2>0. TmpOK(u) /\ ArgOK(u) /\ FoundOK(u) /\ pc[u] \notin {"hit", "miss", "publish"}
      BY <1>0 DEF CallInv, LockInv
    <2>a. tmp[u] # None => tmp[u] \in Wrappers /\ tmp[u] # w
      BY <1>0, <1>c DEF Holders, TypeOK
    <2>1. TmpOK(u)'
      BY <2>0, <2>a, <1>0, <1>a, <1>b DEF TmpOK, TypeOK
    <2>2. ArgOK(u)'
      BY <2>0, <1>0, <1>b DEF ArgOK, TypeOK, Entering, Empty, Own
    <2>3. FoundOK(u)'
      BY <2>0, <1>0, <1>b DEF FoundOK, Stands, TypeOK, Own
    <2> QED
      BY <2>1, <2>2, <2>3
  <1>5. DyingInv'
    <2>1. ASSUME NEW v \in Wrappers, Mapped(v)' PROVE Mapped(v) /\ v # w
      <3>1. wguest[v] \in Wrapped /\ forward'[wguest[v]] = v /\ v # None
        BY <2>1, <1>b DEF Mapped
      <3>2. wguest[v] # h
        BY <3>1, <1>0 DEF TypeOK, Guests, Wrapped
      <3> QED
        BY <3>1, <3>2, <1>0 DEF Mapped, TypeOK, Guests, Wrapped
    <2> QED
      BY <2>1, <1>0, <1>b DEF DyingInv, TypeOK
  <1>6. MemoryInv'
    BY <1>0, <1>b DEF MemoryInv, TypeOK, Guests, Wrapped
  <1>7. HeldWrapperIsLive' /\ NoUnderCount'
    BY <1>b, SameHolders
  <1>u. UserInv' /\ ThreadInv'
    <2>1. \A u \in Threads : /\ Disposing(u)' <=> Disposing(u)
                             /\ pc[u] = "publish" => pc'[u] = "publish"
                             /\ pc[u] = "guestRelease" => pc'[u] = "guestRelease"
      BY <1>0 DEF Disposing, TypeOK
    <2>a. \A u, v : Uses(u, v)' <=> Uses(u, v)
      BY <1>b DEF Uses
    <2>2. UserInv'
      BY <1>b, <2>1, <2>a DEF UserInv
    <2>3. pc'[t] = "guestRelease" /\ found'[t] = w
      BY <1>0, <1>b DEF TypeOK
    <2>4. ASSUME NEW v \in Wrappers, wstate'[v] # "free"
          PROVE  \/ Mapped(v)'
                 \/ \E u \in Threads : \/ pc'[u] = "publish" /\ tmp'[u] = v
                                       \/ pc'[u] = "guestRelease" /\ found'[u] = v
      <3>1. CASE v = w
        BY <3>1, <2>3
      <3>2. CASE v # w
        BY <3>2, <2>4, <2>1, <1>a, <1>b, ThreadFacts
      <3> QED
        BY <3>1, <3>2
    <2>5. \A v \in Wrappers : wstate'[v] = "dying" => \E u \in Threads : Disposing(u)' /\ found'[u] = v
      BY <1>b, <2>1, ThreadFacts
    <2> QED
      BY <2>2, <2>4, <2>5 DEF ThreadInv
  <1> QED
    BY <1>1, <1>2, <1>3, <1>4, <1>5, <1>6, <1>7, <1>u

LEMMA GuestReleaseInv ==
    ASSUME Disciplined, IInv, NEW t \in Threads, GuestRelease(t)
    PROVE  IInv'
  <1> USE BlockAssumption DEF IInv
  <1> DEFINE w == found[t]
             h == wguest[w]
  <1>b. UNCHANGED <<forward, lock, count, kind, addr, ref, tmp>>
    BY DEF GuestRelease, slotVars
  <1>0. /\ TypeOK /\ pc[t] = "guestRelease" /\ w \in Wrappers /\ wstate[w] = "dying"
        /\ h \in Wrapped /\ ~ Mapped(w) /\ TmpOK(t) /\ tmp[t] = None
    BY DEF GuestRelease, DyingInv, MemoryInv, TypeOK, CallInv, TmpOK
  <1>a. /\ h \in Heap => gcount[h] = 1
        /\ gcount' = IF h \in Heap THEN [gcount EXCEPT ![h] = 0] ELSE gcount
        /\ wstate' = [wstate EXCEPT ![w] = "free"]
        /\ wguest' = [wguest EXCEPT ![w] = None]
        /\ found' = [found EXCEPT ![t] = None]
        /\ Goto(t, "idle")
    <2>1. h \in Heap => gcount[h] = 1
      BY <1>0 DEF MemoryInv
    <2>2. gcount' = IF h \in Heap THEN [gcount EXCEPT ![h] = IF gcount[h] = 0 THEN 0 ELSE gcount[h] - 1]
                    ELSE gcount
      BY DEF GuestRelease, GuestBlockRelease
    <2>3. gcount' = IF h \in Heap THEN [gcount EXCEPT ![h] = 0] ELSE gcount
      <3>1. CASE h \in Heap
        <4>1. (IF gcount[h] = 0 THEN 0 ELSE gcount[h] - 1) = 0
          BY <2>1, <3>1
        <4>2. gcount' = [gcount EXCEPT ![h] = IF gcount[h] = 0 THEN 0 ELSE gcount[h] - 1]
          BY <2>2, <3>1
        <4> QED
          BY <3>1, <4>1, <4>2
      <3>2. CASE h \notin Heap
        BY <2>2, <3>2
      <3> QED
        BY <3>1, <3>2
    <2> QED
      BY <1>0, <2>1, <2>3 DEF GuestRelease
  <1>c. \A v \in Wrappers : Holders(v) # {} => v # w
    BY <1>0 DEF HeldWrapperIsLive
  <1>d. /\ pc' = [pc EXCEPT ![t] = "idle"]
        /\ op' \in [Threads -> Ops] /\ arg' \in [Threads -> Guests \cup {None}]
        /\ src' \in [Threads -> Slots \cup {None}] /\ dst' \in [Threads -> Slots \cup {None}]
        /\ \A u \in Threads \ {t} : op'[u] = op[u] /\ arg'[u] = arg[u] /\ src'[u] = src[u] /\ dst'[u] = dst[u]
    BY <1>0, <1>a DEF Goto, TypeOK, Ops
  <1>e. \A s \in Slots : kind[s] # "none" => ref[s] \in Wrappers /\ ref[s] # w
    BY <1>0, <1>c DEF SlotInv, Stands, Holders, TypeOK
  <1>f. \A v \in Wrappers \ {w} : wguest'[v] = wguest[v] /\ wstate'[v] = wstate[v]
    BY <1>0, <1>a DEF TypeOK
  <1>g. \A v \in Wrappers \ {w} : Mapped(v)' <=> Mapped(v)
    BY <1>b, <1>f DEF Mapped
  <1>1. TypeOK'
    BY <1>0, <1>a, <1>b, <1>d DEF TypeOK, Steps
  <1>2. LockInv'
    BY <1>0, <1>b, <1>d DEF LockInv, TypeOK
  <1>3. SlotInv'
    BY <1>e, <1>f, <1>g, <1>b DEF SlotInv, Stands
  <1>4. CallInv'
    <2> SUFFICES ASSUME NEW u \in Threads PROVE (TmpOK(u) /\ ArgOK(u) /\ FoundOK(u))'
      BY DEF CallInv
    <2>1. CASE u = t
      BY <2>1, <1>0, <1>b, <1>d DEF TmpOK, ArgOK, FoundOK, Stands, Entering, TypeOK
    <2>2. CASE u # t
      <3>0. /\ TmpOK(u) /\ ArgOK(u) /\ FoundOK(u)
            /\ pc'[u] = pc[u] /\ found'[u] = found[u]
            /\ tmp[u] # None => tmp[u] \in Wrappers \ {w}
        BY <2>2, <1>0, <1>a, <1>c, <1>d DEF CallInv, Holders, TypeOK
      <3>1. TmpOK(u)'
        BY <3>0, <1>b, <1>f, <1>g DEF TmpOK
      <3>2. ArgOK(u)'
        BY <2>2, <3>0, <1>b, <1>d, <1>e, <1>f DEF ArgOK, Empty, Own
      <3>3. FoundOK(u)'
        <4>1. pc[u] \in {"publish", "got"} => wguest'[tmp[u]] = wguest[tmp[u]]
          BY <3>0, <1>f DEF TmpOK
        <4> QED
          BY <2>2, <3>0, <4>1, <1>b, <1>d DEF FoundOK, Stands
      <3> QED
        BY <3>1, <3>2, <3>3
    <2> QED
      BY <2>1, <2>2
  <1>5. DyingInv'
    <2>1. ASSUME NEW u \in Threads, pc'[u] \in {"dispose", "guestRelease"}
          PROVE  /\ u # t /\ pc[u] = pc'[u] /\ found'[u] = found[u]
                 /\ found[u] \in Wrappers \ {w} /\ wstate[found[u]] = "dying"
      BY <2>1, <1>0, <1>a, <1>d DEF DyingInv, TypeOK
    <2> QED
      BY <2>1, <1>f, <1>g DEF DyingInv
  <1>6. MemoryInv'
    <2>1. \A v \in Wrappers : wstate'[v] = "free" <=> wguest'[v] = None
      BY <1>0, <1>a DEF MemoryInv, TypeOK
    <2>2. \A u, v \in Wrappers : wguest'[u] = wguest'[v] /\ wguest'[u] # None => u = v
      BY <1>0, <1>a DEF MemoryInv, TypeOK
    <2>3. \A k \in Heap : gcount'[k] \in {0, 1} /\ (gcount'[k] = 1 <=> \E v \in Wrappers : wguest'[v] = k)
      BY <1>0, <1>a DEF MemoryInv, TypeOK
    <2>4. \A g \in Guests : forward[g] # None => wguest'[forward[g]] = g
      BY <1>0, <1>f DEF MemoryInv, Mapped, TypeOK
    <2> QED
      BY <2>1, <2>2, <2>3, <2>4, <1>b DEF MemoryInv
  <1>7. \A v \in Wrappers : Holders(v)' = Holders(v)
    BY <1>b DEF Holders
  <1>8. HeldWrapperIsLive'
    BY <1>7, <1>c, <1>f DEF HeldWrapperIsLive
  <1>9. NoUnderCount'
    BY <1>0, <1>7, <1>a, <1>b, <1>f DEF NoUnderCount, TypeOK
  <1>u. UserInv' /\ ThreadInv'
    <2>0. \A u \in Threads : u # t => pc'[u] = pc[u] /\ found'[u] = found[u]
      BY <1>0, <1>a, <1>d DEF TypeOK
    <2>1. /\ ~ Disposing(t)'
          /\ \A u \in Threads : Disposing(u)' => u # t /\ Disposing(u) /\ found'[u] = found[u]
          /\ \A u \in Threads : Disposing(u)' => found[u] \in Wrappers \ {w}
      BY <1>0, <1>d, <2>0 DEF Disposing, TypeOK, DyingInv
    <2>2. \A v \in Wrappers \ {w} : \A u : Uses(u, v)' <=> Uses(u, v)
      BY <1>f DEF Uses
    <2>3. /\ \A s \in Slots : ref[s] # None => ref[s] \in Wrappers \ {w}
          /\ \A u \in Threads : tmp[u] # None => tmp[u] \in Wrappers \ {w}
      BY <1>0, <1>c DEF Holders, TypeOK
    <2>4. UserInv'
      <3>1. \A s \in Slots : (ref[s] # None => Uses(Owner[s], ref[s]))'
        BY <1>b, <2>2, <2>3 DEF UserInv
      <3>2. \A u \in Threads : (tmp[u] # None => Uses(u, tmp[u]))'
        BY <1>b, <2>2, <2>3 DEF UserInv
      <3>3. \A u \in Threads : (Disposing(u) => Uses(u, found[u]))'
        BY <2>1, <2>2 DEF UserInv
      <3> QED
        BY <3>1, <3>2, <3>3 DEF UserInv
    <2>5. \A v \in Wrappers : wstate'[v] # "free" => v # w /\ wstate'[v] = wstate[v]
      BY <1>0, <1>a, <1>f DEF TypeOK
    <2>6. pc[t] # "publish" /\ found[t] = w
      BY <1>0
    <2>7. \A u \in Threads : /\ Disposing(u) /\ u # t => Disposing(u)'
                             /\ pc[u] = "publish" => pc'[u] = "publish" /\ tmp'[u] = tmp[u]
      BY <1>b, <2>0, <2>6 DEF Disposing
    <2>8. ASSUME NEW v \in Wrappers, wstate'[v] = "dying"
          PROVE  \E u \in Threads : Disposing(u)' /\ found'[u] = v
      BY <2>8, <2>5, <2>6, <2>7, <2>0, ThreadFacts
    <2>9. ASSUME NEW v \in Wrappers, wstate'[v] # "free"
          PROVE  \/ Mapped(v)'
                 \/ \E u \in Threads : \/ pc'[u] = "publish" /\ tmp'[u] = v
                                       \/ pc'[u] = "guestRelease" /\ found'[u] = v
      BY <2>9, <2>5, <2>6, <2>7, <2>0, <1>g, ThreadFacts
    <2> QED
      BY <2>4, <2>8, <2>9 DEF ThreadInv
  <1> QED
    BY <1>1, <1>2, <1>3, <1>4, <1>5, <1>6, <1>8, <1>9, <1>u

LEMMA HandOverInv ==
    ASSUME Disciplined, IInv, NEW t \in Threads, NEW u \in Threads \ {t},
           NEW x \in Own(t), NEW d \in Empty(u), HandOver(t, u, x, d)
    PROVE  IInv'
  <1> USE BlockAssumption DEF IInv
  <1>b. UNCHANGED <<forward, lock, count, wstate, wguest, gcount, pc, op, arg, src, dst, found, tmp>>
    BY DEF HandOver, heapVars, callVars
  <1>0. /\ TypeOK /\ pc[t] = "idle" /\ pc[u] = "idle" /\ x \in Slots /\ Owner[x] = t
        /\ d \in Slots /\ Owner[d] = u /\ kind[d] = "none" /\ ref[d] = None /\ kind[x] # "none" /\ x # d
    BY DEF HandOver, Own, Empty, SlotInv, Stands
  <1>a. /\ kind' = [kind EXCEPT ![d] = kind[x], ![x] = "none"]
        /\ addr' = [addr EXCEPT ![d] = addr[x], ![x] = None]
        /\ ref' = [ref EXCEPT ![d] = ref[x], ![x] = None]
    BY DEF HandOver
  <1>c. Uses(u, ref[x])
    BY <1>0 DEF HandOver, SlotInv, Stands, Uses
  <1>1. TypeOK'
    BY <1>0, <1>a, <1>b DEF TypeOK, Kinds
  <1>2. LockInv' /\ DyingInv' /\ MemoryInv'
    BY <1>b DEF LockInv, DyingInv, Mapped, MemoryInv
  <1>3. SlotInv'
    BY <1>0, <1>a, <1>b DEF SlotInv, Stands, Mapped, TypeOK
  <1>4. CallInv'
    <2> SUFFICES ASSUME NEW q \in Threads PROVE (TmpOK(q) /\ ArgOK(q) /\ FoundOK(q))'
      BY DEF CallInv
    <2>0. TmpOK(q) /\ ArgOK(q) /\ FoundOK(q)
      BY DEF CallInv
    <2>1. TmpOK(q)'
      BY <2>0, <1>b DEF TmpOK, Mapped
    <2>2. CASE q \in {t, u}
      BY <2>1, <2>2, <1>0, <1>b DEF ArgOK, FoundOK, Stands, Entering
    <2>3. CASE q \notin {t, u}
      <3>1. ArgOK(q)'
        BY <2>0, <2>3, <1>0, <1>a, <1>b DEF ArgOK, TypeOK, GivesSrc, TakesDst, Empty, Own
      <3>2. FoundOK(q)'
        BY <2>0, <2>3, <1>0, <1>a, <1>b DEF FoundOK, Stands, ArgOK, Entering, TypeOK, Own
      <3> QED
        BY <2>1, <3>1, <3>2
    <2> QED
      BY <2>2, <2>3
  <1>5. \A v \in Wrappers : IF v = ref[x] THEN x \in Holders(v) /\ Holders(v)' = (Holders(v) \ {x}) \cup {d}
                            ELSE Holders(v)' = Holders(v)
    BY <1>0, <1>a, <1>b DEF Holders, TypeOK
  <1>6. HeldWrapperIsLive'
    BY <1>b, <1>5 DEF HeldWrapperIsLive
  <1>7. NoUnderCount'
    BY <1>0, <1>b, <1>5, CountStep DEF NoUnderCount
  <1>u. UserInv' /\ ThreadInv'
    <2>1. /\ \A k \in Threads : k # t => pc'[k] = pc[k] /\ found'[k] = found[k] /\ tmp'[k] = tmp[k]
          /\ pc[t] \notin {"publish", "dispose", "guestRelease"}
          /\ pc'[t] \notin {"publish", "dispose", "guestRelease"}
      BY <1>0, <1>b DEF TypeOK, Goto
    <2>2. \A s \in Slots : ref'[s] # None => Uses(Owner[s], ref'[s])
      BY <1>0, <1>a, <1>c DEF UserInv, TypeOK
    <2>3. \A k \in Threads : tmp'[k] # None => Uses(k, tmp'[k])
      BY <1>b DEF UserInv
    <2> QED
      BY <1>b, <2>1, <2>2, <2>3, UsersSame
  <1> QED
    BY <1>1, <1>2, <1>3, <1>4, <1>6, <1>7, <1>u

(* Whatever a thread names is a block, and one it has a reference to when  *)
(* it is on the heap.                                                      *)
LEMMA NamedFacts ==
    ASSUME IInv, NEW t \in Threads, NEW n \in Named(t)
    PROVE  /\ n[1] \in Guests /\ n[2] \in Slots \cup {None}
           /\ n[1] \in Heap => n[2] # None
           /\ n[1] \in Global => t \in GlobalUsers[n[1]]
           /\ n[1] \notin Stack /\ n[2] # None =>
                  n[2] \in Own(t) /\ kind[n[2]] # "none" /\ n[1] = wguest[ref[n[2]]]
           /\ n[2] # None => n[2] \in Own(t)
  <1> USE BlockAssumption DEF IInv
  <1>1. CASE \E g \in Stack \cup {h \in Global : t \in GlobalUsers[h]} : n = <<g, None>>
    BY <1>1 DEF Guests, Wrapped
  <1>2. CASE \E x \in Own(t) : kind[x] # "none" /\ n = <<xl_object_out(x), x>>
    <2>0. PICK x \in Own(t) : kind[x] # "none" /\ n = <<xl_object_out(x), x>>
      BY <1>2
    <2>1. /\ x \in Slots /\ Owner[x] = t /\ Mapped(ref[x]) /\ addr[x] \in Guests
          /\ Stands(ref[x], addr[x]) /\ Uses(t, ref[x])
      BY <2>0 DEF SlotInv, UserInv, Own
    <2>2. n[1] = xl_object_out(x) /\ n[2] = x /\ x # None
      BY <2>0, <2>1
    <2>3. n[1] \in Guests /\ (n[1] \notin Stack => n[1] = wguest[ref[x]])
      <3>1. CASE kind[x] \in {"host", "pool"}
        BY <3>1, <2>1, <2>2 DEF xl_object_out, Mapped, Guests
      <3>2. CASE kind[x] \notin {"host", "pool"}
        BY <3>2, <2>1, <2>2 DEF xl_object_out, Stands
      <3> QED
        BY <3>1, <3>2
    <2>4. n[1] \in Global => t \in GlobalUsers[n[1]]
      BY <2>1, <2>3 DEF Uses
    <2> QED
      BY <2>0, <2>2, <2>3, <2>4 DEF Own
  <1> QED
    BY <1>1, <1>2 DEF Named

LEMMA CallStepInv ==
    ASSUME Disciplined, IInv, NEW t \in Threads, Call(t)
    PROVE  IInv'
  <1>0. BlockAssumption /\ SlotInv /\ UserInv
    BY BlockAssumption DEF IInv
  <1>1. ASSUME NEW n \in Named(t), NEW d \in Empty(t), xl_block_retain(t, n, d) \/ xl_object_in(t, n, d)
        PROVE  IInv'
    <2>1. PICK o \in {"retain", "in"} : Enter(t, o, n, d)
      BY <1>1 DEF xl_block_retain, xl_object_in
    <2> QED
      BY <2>1, NamedFacts, EnterInv DEF Ops, TakesDst, GivesSrc, Empty, Own
  <1>2. ASSUME NEW n \in Named(t), xl_h_objc_msgSend(t, n)
        PROVE  IInv'
    <2>1. CASE \E d \in Empty(t) : Enter(t, "msgCopy", n, d)
      BY <2>1, NamedFacts, EnterInv DEF Ops, TakesDst, GivesSrc, Empty, Own
    <2>2. CASE Enter(t, "msgOther", n, None)
      BY <2>2, NamedFacts, EnterInv DEF Ops, TakesDst, GivesSrc
    <2>3. CASE /\ n[2] # None /\ kind[n[2]] = "guest" /\ n[1] \notin Stack
               /\ Enter(t, "msgRelease", n, None) \/ Enter(t, "msgAutorelease", n, None)
      <3>1. PICK o \in {"msgRelease", "msgAutorelease"} : Enter(t, o, n, None)
        BY <2>3
      <3> QED
        BY <2>3, <3>1, NamedFacts, EnterInv DEF Ops, TakesDst, GivesSrc
    <2> QED
      BY <1>2, <2>1, <2>2, <2>3 DEF xl_h_objc_msgSend, Disciplined
  <1>3. ASSUME NEW x \in Own(t), xl_block_autorelease(t, x)
        PROVE  IInv'
    <2> DEFINE n == <<addr[x], x>>
    <2>1. x \in Slots /\ kind[x] = "guest" /\ n[1] = addr[x] /\ n[2] = x /\ Enter(t, "autorelease", n, None)
      BY <1>3 DEF xl_block_autorelease, Own
    <2>2. addr[x] \in Guests /\ (addr[x] \notin Stack => wguest[ref[x]] = addr[x]) /\ x # None
      BY <1>0, <2>1 DEF SlotInv, Stands
    <2>3. addr[x] \in Global => t \in GlobalUsers[addr[x]]
      <3>1. ref[x] # None /\ Owner[x] = t
        BY <1>0, <2>1 DEF SlotInv, Own
      <3> QED
        BY <1>0, <2>1, <2>2, <3>1 DEF UserInv, Uses
    <2> HIDE DEF n
    <2> QED
      BY <2>1, <2>2, <2>3, <1>0, EnterInv DEF Ops, TakesDst, GivesSrc
  <1> QED
    BY <1>1, <1>2, <1>3 DEF Call

LEMMA NextInv == Disciplined /\ IInv /\ [Next]_vars => IInv'
  <1> SUFFICES ASSUME Disciplined, IInv, [Next]_vars PROVE IInv'
    OBVIOUS
  <1>1. CASE UNCHANGED vars
    <2>1. UNCHANGED <<forward, lock, count, wstate, wguest, gcount, kind, addr, ref,
                      pc, op, arg, src, dst, found, tmp>>
      BY <1>1 DEF vars, heapVars, slotVars, callVars
    <2>u. UserInv' /\ ThreadInv'
      BY <2>1 DEF IInv, UserInv, ThreadInv, Uses, Disposing, Mapped
    <2>2. HeldWrapperIsLive' /\ NoUnderCount'
      BY <2>1, SameHolders DEF IInv
    <2>3. TypeOK' /\ LockInv' /\ SlotInv'
      BY <2>1 DEF IInv, TypeOK, LockInv, SlotInv, Stands, Mapped
    <2>4. CallInv'
      BY <2>1 DEF IInv, CallInv, TmpOK, ArgOK, FoundOK, Stands, Mapped, Empty
    <2>5. DyingInv' /\ MemoryInv'
      BY <2>1 DEF IInv, DyingInv, MemoryInv, Mapped
    <2> QED
      BY <2>2, <2>3, <2>4, <2>5, <2>u DEF IInv
  <1>2. ASSUME NEW t \in Threads, Call(t) PROVE IInv'
    BY <1>2, CallStepInv
  <1>3. ASSUME NEW t \in Threads, Step(t) PROVE IInv'
    BY <1>3, LookUpInv, HitInv, MissInv, PublishInv, ReturnsInv, AutoreleaseInv, MsgCopyInv, MsgInv,
       DropSlotInv, DropTmpInv, DisposeInv, GuestReleaseInv DEF Step
  <1>4. ASSUME NEW t \in Threads, Program(t) PROVE IInv'
    <2>1. \A x \in Own(t) : ~ DirectRelease(t, x)
      BY DEF DirectRelease, IInv, SlotInv, Stands, Own
    <2>2. \A n, h, d : ~ DirectCopy(t, n, h, d)
      BY DEF DirectCopy, Disciplined
    <2> QED
      BY <1>4, <2>1, <2>2, ReleaseInv, HostRetainInv, HandOverInv DEF Program
  <1> QED
    BY <1>1, <1>2, <1>3, <1>4 DEF Next

----------------------------------------------------------------------------
(* The theorems.                                                           *)

(* The invariant holds of every program whose references to blocks all go  *)
(* through the bridge and whose global blocks each belong to one thread,   *)
(* whatever its threads, blocks and reference counts.                      *)
THEOREM Invariant ==
    ASSUME Disciplined PROVE Spec => []IInv
  <1>1. Init => IInv
    BY InitInv
  <1>2. IInv /\ [Next]_vars => IInv'
    BY NextInv
  <1> QED
    BY <1>1, <1>2, PTL DEF Spec

(* xl_wrapper_for never returns a wrapper that is already being disposed   *)
(* of, and a wrapper somebody has a reference to is never freed, although  *)
(* counts change outside of xl_block_lock (objc_bridge.m:1187-1259): the   *)
(* thread that looks a wrapper up has a reference to it, or is the only    *)
(* one that uses its global block.                                         *)
THEOREM WrappersStayAlive ==
    ASSUME Disciplined PROVE Spec => []HeldWrapperIsLive
  <1>1. IInv => HeldWrapperIsLive
    BY DEF IInv
  <1> QED
    BY <1>1, Invariant, PTL

(* A wrapper's count covers every reference to it (1182-1186), under the   *)
(* same two conditions.                                                    *)
THEOREM NeverUnderCounted ==
    ASSUME Disciplined PROVE Spec => []NoUnderCount
  <1>1. IInv => NoUnderCount
    BY DEF IInv
  <1> QED
    BY <1>1, Invariant, PTL

(* The map never leads to a freed wrapper or to another block's (1166-76). *)
THEOREM MapIsSound ==
    ASSUME Disciplined PROVE Spec => []NoDanglingEntry
  <1>1. IInv => NoDanglingEntry
    BY BlockAssumption DEF IInv, MemoryInv, NoDanglingEntry, TypeOK, Guests, Wrapped
  <1> QED
    BY <1>1, Invariant, PTL

(* One wrapper per guest block (1048-1053).                                *)
THEOREM WrapperIsUnique ==
    ASSUME Disciplined PROVE Spec => []OneWrapperPerBlock
  <1>1. IInv => OneWrapperPerBlock
    BY DEF IInv, MemoryInv, OneWrapperPerBlock, TypeOK
  <1> QED
    BY <1>1, Invariant, PTL

(* Two references to the same heap or global block are to the same         *)
(* wrapper (1048-1053).                                                    *)
THEOREM BlocksKeepIdentity ==
    ASSUME Disciplined PROVE Spec => []SameWrapper
  <1>1. IInv => SameWrapper
    BY DEF IInv, SlotInv, Stands, Mapped, SameWrapper, Bridged
  <1> QED
    BY <1>1, Invariant, PTL

----------------------------------------------------------------------------
(* The bridge implements BlockIdentity.  A wrapper that is not in the map  *)
(* yet has the one reference it was made with.                             *)

FirstCount == \A t \in Threads : pc[t] = "publish" => count[tmp[t]] = 1

(* The effect of a step on the map, the wrappers and their counts: nobody  *)
(* starts publishing, and ...                                              *)
NoNewPublisher ==
    \A u \in Threads : pc'[u] = "publish" => pc[u] = "publish" /\ tmp'[u] = tmp[u]

(* ... nothing else changes, ...                                           *)
Leaves == UNCHANGED <<forward, wstate, count, wguest>> /\ NoNewPublisher

(* ... a reference to a mapped wrapper is taken, ...                       *)
Takes(w) ==
    /\ wstate[w] = "live" /\ Mapped(w)
    /\ count' = [count EXCEPT ![w] = @ + 1]
    /\ UNCHANGED <<forward, wstate, wguest>>
    /\ NoNewPublisher

(* ... or given up.                                                        *)
Gives(w) ==
    /\ wstate[w] = "live" /\ Mapped(w) /\ count[w] >= 1
    /\ count' = [count EXCEPT ![w] = count[w] - 1]
    /\ wstate' = IF count[w] = 1 THEN [wstate EXCEPT ![w] = "dying"] ELSE wstate
    /\ UNCHANGED <<forward, wguest>>
    /\ NoNewPublisher

LEMMA HitTakes ==
    ASSUME Disciplined, IInv, NEW t \in Threads, Hit(t)
    PROVE  found[t] \in Wrappers /\ Takes(found[t])
  <1> USE DEF IInv
  <1>0. TypeOK /\ pc[t] = "hit"
    BY DEF Hit
  <1>2. found[t] \in Wrappers /\ Mapped(found[t]) /\ wstate[found[t]] = "live"
    BY <1>0, HitLive
  <1>4. NoNewPublisher
    BY <1>0 DEF Hit, Goto, NoNewPublisher, TypeOK
  <1> QED
    BY <1>2, <1>4 DEF Takes, Hit

LEMMA MsgCopyTakes ==
    ASSUME IInv, NEW t \in Threads, MsgCopy(t)
    PROVE  tmp[t] \in Wrappers /\ Takes(tmp[t])
  <1> USE DEF IInv
  <1>0. TypeOK /\ pc[t] = "got" /\ TmpOK(t)
    BY DEF MsgCopy, CallInv
  <1>1. tmp[t] \in Wrappers /\ Mapped(tmp[t])
    BY <1>0 DEF TmpOK, TypeOK
  <1>2. wstate[tmp[t]] = "live"
    BY <1>1 DEF HeldWrapperIsLive, Holders
  <1>3. NoNewPublisher
    BY <1>0 DEF MsgCopy, Goto, NoNewPublisher, TypeOK
  <1> QED
    BY <1>1, <1>2, <1>3 DEF Takes, MsgCopy

LEMMA HostRetainTakes ==
    ASSUME IInv, NEW t \in Threads, NEW x \in Own(t), NEW d, HostRetain(t, x, d)
    PROVE  ref[x] \in Wrappers /\ Takes(ref[x])
  <1> USE DEF IInv
  <1>0. TypeOK /\ x \in Slots /\ kind[x] # "none"
    BY DEF HostRetain, Own
  <1>1. ref[x] \in Wrappers /\ Mapped(ref[x])
    BY <1>0 DEF SlotInv, Stands, TypeOK
  <1>2. wstate[ref[x]] = "live"
    BY <1>0, <1>1 DEF HeldWrapperIsLive, Holders
  <1>3. NoNewPublisher
    BY DEF HostRetain, NoNewPublisher, callVars
  <1> QED
    BY <1>1, <1>2, <1>3 DEF Takes, HostRetain

LEMMA ReleaseGives ==
    ASSUME IInv, NEW t \in Threads, NEW w \in Wrappers, NEW next \in {"idle", "dropTmp"},
           NEW e \in Holders(w), Mapped(w), HostBlockRelease(t, w, next),
           UNCHANGED <<forward, wguest>>, tmp' = tmp \/ tmp' = [tmp EXCEPT ![t] = None]
    PROVE  Gives(w)
  <1>1. wstate[w] = "live" /\ count[w] \in Nat /\ count[w] >= 1
    BY HeldFacts
  <1>2. /\ count' = [count EXCEPT ![w] = count[w] - 1]
        /\ wstate' = IF count[w] = 1 THEN [wstate EXCEPT ![w] = "dying"] ELSE wstate
    <2>1. count[w] # 0
      BY <1>1
    <2>2. count' = [count EXCEPT ![w] = IF count[w] = 0 THEN 0 ELSE count[w] - 1]
      BY DEF HostBlockRelease
    <2>3. wstate' = IF count[w] = 1 THEN [wstate EXCEPT ![w] = "dying"] ELSE wstate
      BY <1>1 DEF HostBlockRelease
    <2> QED
      BY <2>1, <2>2, <2>3
  <1>3. NoNewPublisher
    <2>1. pc' = [pc EXCEPT ![t] = IF wstate[w] = "live" /\ count[w] = 1 THEN "dispose" ELSE next]
      BY DEF HostBlockRelease, Goto
    <2> QED
      BY <2>1 DEF NoNewPublisher, IInv, TypeOK
  <1> QED
    BY <1>1, <1>2, <1>3 DEF Gives

LEMMA DropSlotGives ==
    ASSUME IInv, NEW t \in Threads, DropSlot(t)
    PROVE  found[t] \in Wrappers /\ Gives(found[t])
  <1> USE DEF IInv
  <1>0. TypeOK /\ pc[t] = "dropSlot" /\ FoundOK(t)
    BY DEF DropSlot, CallInv
  <1>1. src[t] \in Slots /\ kind[src[t]] # "none" /\ found[t] = ref[src[t]]
    BY <1>0 DEF FoundOK, Stands, Own
  <1>2. found[t] \in Wrappers /\ Mapped(found[t]) /\ src[t] \in Holders(found[t])
    BY <1>0, <1>1 DEF SlotInv, Stands, TypeOK, Holders
  <1>3. PICK next \in {"idle", "dropTmp"} : HostBlockRelease(t, found[t], next)
    BY DEF DropSlot
  <1>4. UNCHANGED <<forward, wguest, tmp>>
    BY DEF DropSlot
  <1> QED
    BY <1>2, <1>3, <1>4, ReleaseGives

LEMMA DropTmpGives ==
    ASSUME IInv, NEW t \in Threads, DropTmp(t)
    PROVE  tmp[t] \in Wrappers /\ Gives(tmp[t])
  <1> USE DEF IInv
  <1>0. TypeOK /\ pc[t] = "dropTmp" /\ TmpOK(t)
    BY DEF DropTmp, CallInv
  <1>1. tmp[t] \in Wrappers /\ Mapped(tmp[t]) /\ t \in Holders(tmp[t])
    BY <1>0 DEF TmpOK, TypeOK, Holders
  <1>2. HostBlockRelease(t, tmp[t], "idle") /\ UNCHANGED <<forward, wguest>>
        /\ tmp' = [tmp EXCEPT ![t] = None]
    BY DEF DropTmp
  <1> QED
    BY <1>1, <1>2, ReleaseGives

(* Every step but the three that make, publish and free a wrapper is of    *)
(* one of the three kinds.                                                 *)
LEMMA StepKinds ==
    ASSUME Disciplined, IInv, [Next]_vars
    PROVE  \/ Leaves
           \/ \E w \in Wrappers : Takes(w) \/ Gives(w)
           \/ \E t \in Threads, h \in Wrapped, w \in Wrappers : Miss(t, h, w)
           \/ \E t \in Threads : Publish(t) \/ Dispose(t) \/ GuestRelease(t)
  <1>0. TypeOK
    BY DEF IInv
  <1>1. CASE UNCHANGED vars
    BY <1>1 DEF vars, heapVars, callVars, Leaves, NoNewPublisher
  <1>2. ASSUME NEW t \in Threads, NEW o, NEW n, NEW d, Enter(t, o, n, d) PROVE Leaves
    BY <1>0, <1>2 DEF Enter, heapVars, Leaves, NoNewPublisher, TypeOK
  <1>3. ASSUME NEW t \in Threads, Call(t) PROVE Leaves
    BY <1>2, <1>3 DEF Call, xl_block_retain, xl_object_in, xl_h_objc_msgSend, xl_block_autorelease
  <1>4. ASSUME NEW t \in Threads,
               \/ LookUp(t) \/ RetainReturns(t) \/ InReturns(t) \/ AutoreleaseReturns(t)
               \/ MsgAutorelease(t) \/ MsgRelease(t) \/ MsgOther(t)
        PROVE  Leaves
    <2>1. UNCHANGED <<forward, wstate, count, wguest>>
      BY <1>4 DEF LookUp, RetainReturns, InReturns, AutoreleaseReturns, MsgAutorelease, MsgRelease,
             MsgOther, heapVars
    <2>2. /\ \E s \in Steps \ {"publish"} : pc' = [pc EXCEPT ![t] = s]
          /\ tmp' = tmp \/ tmp' = [tmp EXCEPT ![t] = None]
      BY <1>4 DEF LookUp, RetainReturns, InReturns, AutoreleaseReturns, MsgAutorelease, MsgRelease,
             MsgOther, Goto, Steps
    <2> QED
      BY <1>0, <2>1, <2>2 DEF Leaves, NoNewPublisher, TypeOK
  <1>5. ASSUME NEW t \in Threads, NEW x \in Own(t), xl_block_release(t, x) \/ HostRelease(t, x)
        PROVE  Leaves
    <2>1. UNCHANGED <<forward, wstate, count, wguest, tmp>>
      BY <1>5 DEF xl_block_release, HostRelease, heapVars, callVars
    <2>2. pc' = pc \/ pc' = [pc EXCEPT ![t] = "dropSlot"]
      BY <1>5 DEF xl_block_release, HostRelease, callVars
    <2> QED
      BY <1>0, <2>1, <2>2 DEF Leaves, NoNewPublisher, TypeOK
  <1>6. ASSUME NEW t \in Threads, NEW u, NEW x, NEW d, HandOver(t, u, x, d) PROVE Leaves
    BY <1>6 DEF HandOver, heapVars, callVars, Leaves, NoNewPublisher
  <1>7. ASSUME NEW t \in Threads
        PROVE  /\ \A x \in Own(t) : ~ DirectRelease(t, x)
               /\ \A n, h, d : ~ DirectCopy(t, n, h, d)
    BY DEF DirectRelease, IInv, SlotInv, Stands, Own, DirectCopy, Disciplined
  <1>8. ASSUME NEW t \in Threads, Step(t)
        PROVE  \/ Leaves
               \/ \E w \in Wrappers : Takes(w) \/ Gives(w)
               \/ \E h \in Wrapped, w \in Wrappers : Miss(t, h, w)
               \/ Publish(t) \/ Dispose(t) \/ GuestRelease(t)
    BY <1>4, <1>8, HitTakes, MsgCopyTakes, DropSlotGives, DropTmpGives DEF Step
  <1>9. ASSUME NEW t \in Threads, Program(t)
        PROVE  Leaves \/ \E w \in Wrappers : Takes(w)
    BY <1>5, <1>6, <1>7, <1>9, HostRetainTakes DEF Program
  <1> QED
    BY <1>1, <1>3, <1>8, <1>9 DEF Next

----------------------------------------------------------------------------
(* A wrapper that is being published is in nobody else's hands.            *)
LEMMA PublisherUnmapped ==
    ASSUME IInv, NEW t \in Threads, pc[t] = "publish"
    PROVE  /\ tmp[t] \in Wrappers /\ ~ Mapped(tmp[t]) /\ wstate[tmp[t]] = "live"
           /\ wguest[tmp[t]] \in Wrapped /\ forward[wguest[tmp[t]]] = None
  <1>1. TypeOK /\ TmpOK(t)
    BY DEF IInv, CallInv
  <1>2. /\ tmp[t] \in Wrappers /\ wguest[tmp[t]] \in Wrapped /\ forward[wguest[tmp[t]]] = None
        /\ t \in Holders(tmp[t])
    BY <1>1 DEF TmpOK, TypeOK, Holders
  <1>3. wstate[tmp[t]] = "live"
    BY <1>2 DEF IInv, HeldWrapperIsLive
  <1> QED
    BY <1>2, <1>3, BlockAssumption DEF Mapped

LEMMA OthersKeepPublishing ==
    ASSUME IInv, NEW t \in Threads, Publish(t) \/ Dispose(t) \/ GuestRelease(t)
    PROVE  NoNewPublisher /\ count' = count
  <1>1. TypeOK
    BY DEF IInv
  <1>2. count' = count /\ tmp' = tmp /\ \E s \in Steps \ {"publish"} : pc' = [pc EXCEPT ![t] = s]
    BY DEF Publish, Dispose, GuestRelease, Goto, Steps
  <1> QED
    BY <1>1, <1>2 DEF NoNewPublisher, TypeOK

LEMMA FirstCountInv ==
    ASSUME Disciplined, IInv, FirstCount, [Next]_vars
    PROVE  FirstCount'
  <1> SUFFICES ASSUME NEW u \in Threads, pc'[u] = "publish" PROVE count'[tmp'[u]] = 1
    BY DEF FirstCount
  <1>0. TypeOK
    BY DEF IInv
  <1>k. ASSUME pc[u] = "publish", tmp'[u] = tmp[u]
        PROVE  tmp'[u] \in Wrappers /\ ~ Mapped(tmp'[u]) /\ wstate[tmp'[u]] = "live" /\ count[tmp'[u]] = 1
    BY <1>k, PublisherUnmapped DEF FirstCount
  <1>1. CASE Leaves
    BY <1>1, <1>k DEF Leaves, NoNewPublisher
  <1>2. ASSUME NEW w \in Wrappers, Takes(w) \/ Gives(w) PROVE count'[tmp'[u]] = 1
    <2>1. pc[u] = "publish" /\ tmp'[u] = tmp[u] /\ Mapped(w)
      BY <1>2 DEF Takes, Gives, NoNewPublisher
    <2>2. tmp'[u] # w
      BY <2>1, <1>k
    <2>3. \E n : count' = [count EXCEPT ![w] = n]
      BY <1>2 DEF Takes, Gives
    <2> QED
      BY <2>1, <2>2, <2>3, <1>0, <1>k DEF TypeOK
  <1>3. ASSUME NEW t \in Threads, NEW h \in Wrapped, NEW w \in Wrappers, Miss(t, h, w)
        PROVE  count'[tmp'[u]] = 1
    <2>1. /\ wstate[w] = "free" /\ count' = [count EXCEPT ![w] = 1] /\ tmp' = [tmp EXCEPT ![t] = w]
          /\ pc' = [pc EXCEPT ![t] = "publish"]
      BY <1>3 DEF Miss, Goto
    <2>2. CASE u = t
      BY <2>1, <2>2, <1>0 DEF TypeOK
    <2>3. CASE u # t
      BY <2>1, <2>3, <1>0, <1>k DEF TypeOK
    <2> QED
      BY <2>2, <2>3
  <1>4. ASSUME NEW t \in Threads, Publish(t) \/ Dispose(t) \/ GuestRelease(t)
        PROVE  count'[tmp'[u]] = 1
    BY <1>4, <1>k, OthersKeepPublishing DEF NoNewPublisher
  <1> QED
    BY <1>1, <1>2, <1>3, <1>4, StepKinds

----------------------------------------------------------------------------
(* What a step does to the abstract state.                                 *)

RefsOf(h) == IF CanonOf(h) = None THEN 0 ELSE count[CanonOf(h)]

LEMMA CanonFacts ==
    ASSUME IInv, NEW h \in Wrapped
    PROVE  /\ CanonOf(h) \in Wrappers \cup {None}
           /\ CanonOf(h) # None => /\ CanonOf(h) = forward[h] /\ wstate[forward[h]] = "live"
                                   /\ forward[h] \in Wrappers /\ wguest[forward[h]] = h
  BY DEF CanonOf, IInv, TypeOK, MemoryInv, Guests, Wrapped

(* A live, mapped wrapper is its block's.                                  *)
LEMMA CanonIs ==
    ASSUME IInv, NEW w \in Wrappers, wstate[w] = "live", Mapped(w)
    PROVE  /\ wguest[w] \in Wrapped /\ CanonOf(wguest[w]) = w
           /\ \A h \in Wrapped : CanonOf(h) = w => h = wguest[w]
           /\ RefsOf(wguest[w]) = count[w] /\ count[w] \in Nat
  <1>1. wguest[w] \in Wrapped /\ forward[wguest[w]] = w /\ w # None
    BY BlockAssumption DEF Mapped
  <1>2. CanonOf(wguest[w]) = w
    BY <1>1 DEF CanonOf
  <1>3. \A h \in Wrapped : CanonOf(h) = w => h = wguest[w]
    BY <1>1, CanonFacts
  <1> QED
    BY <1>1, <1>2, <1>3 DEF RefsOf, IInv, TypeOK

LEMMA LeavesIdentity ==
    ASSUME UNCHANGED <<forward, wstate, count>>
    PROVE  \A h \in Wrapped : CanonOf(h)' = CanonOf(h) /\ RefsOf(h)' = RefsOf(h)
  BY DEF CanonOf, RefsOf

LEMMA TakesAcquires ==
    ASSUME IInv, NEW w \in Wrappers, Takes(w)
    PROVE  /\ wguest[w] \in Wrapped /\ CanonOf(wguest[w]) # None
           /\ \A h \in Wrapped : /\ CanonOf(h)' = CanonOf(h)
                                 /\ RefsOf(h)' = IF h = wguest[w] THEN RefsOf(h) + 1 ELSE RefsOf(h)
  <1>1. wstate[w] = "live" /\ Mapped(w) /\ UNCHANGED <<forward, wstate>> /\ count' = [count EXCEPT ![w] = count[w] + 1]
    BY DEF Takes
  <1>2. /\ wguest[w] \in Wrapped /\ CanonOf(wguest[w]) = w /\ w # None
        /\ \A h \in Wrapped : CanonOf(h) = w => h = wguest[w]
        /\ RefsOf(wguest[w]) = count[w] /\ count[w] \in Nat
    BY <1>1, CanonIs, BlockAssumption
  <1>3. \A h \in Wrapped : CanonOf(h)' = CanonOf(h)
    BY <1>1 DEF CanonOf
  <1>4. \A h \in Wrapped : h # wguest[w] => RefsOf(h)' = RefsOf(h)
    BY <1>1, <1>2, <1>3, CanonFacts DEF RefsOf, IInv, TypeOK
  <1>5. RefsOf(wguest[w])' = RefsOf(wguest[w]) + 1
    <2>1. wguest'[w] = wguest[w]
      BY DEF Takes
    <2>2. ASSUME NEW h, h = wguest[w] PROVE RefsOf(h)' = count'[w]
      BY <2>2, <1>2, <1>3 DEF RefsOf
    <2> QED
      BY <1>1, <1>2, <2>1, <2>2 DEF IInv, TypeOK
  <1> QED
    BY <1>2, <1>3, <1>4, <1>5 DEF Takes

LEMMA GivesDrops ==
    ASSUME IInv, NEW w \in Wrappers, Gives(w)
    PROVE  /\ wguest[w] \in Wrapped /\ CanonOf(wguest[w]) # None
           /\ \A h \in Wrapped :
                  /\ RefsOf(h)' = IF h = wguest[w] THEN RefsOf(h) - 1 ELSE RefsOf(h)
                  /\ CanonOf(h)' = IF h = wguest[w] /\ RefsOf(h) = 1 THEN None ELSE CanonOf(h)
  <1>1. /\ wstate[w] = "live" /\ Mapped(w) /\ UNCHANGED <<forward, wguest>>
        /\ count[w] >= 1 /\ count' = [count EXCEPT ![w] = count[w] - 1]
        /\ wstate' = IF count[w] = 1 THEN [wstate EXCEPT ![w] = "dying"] ELSE wstate
    BY DEF Gives
  <1>2. /\ wguest[w] \in Wrapped /\ CanonOf(wguest[w]) = w /\ w # None
        /\ \A h \in Wrapped : CanonOf(h) = w => h = wguest[w]
        /\ RefsOf(wguest[w]) = count[w] /\ count[w] \in Nat
    BY <1>1, CanonIs, BlockAssumption
  <1>3. ASSUME NEW h \in Wrapped, h # wguest[w]
        PROVE  CanonOf(h)' = CanonOf(h) /\ RefsOf(h)' = RefsOf(h)
    <2>1. forward[h] # w
      BY <1>2, <1>3 DEF IInv, MemoryInv, Guests, Wrapped
    <2>2. forward[h] = None \/ (forward[h] \in Wrappers /\ wstate'[forward[h]] = wstate[forward[h]]
                                /\ count'[forward[h]] = count[forward[h]])
      BY <1>1, <2>1 DEF IInv, TypeOK, Guests, Wrapped
    <2>3. CanonOf(h)' = CanonOf(h)
      BY <1>1, <2>2 DEF CanonOf
    <2> QED
      BY <2>2, <2>3, CanonFacts DEF RefsOf
  <1>4. ASSUME NEW h \in Wrapped, h = wguest[w]
        PROVE  /\ CanonOf(h)' = IF count[w] = 1 THEN None ELSE w
               /\ RefsOf(h)' = count[w] - 1
    <2>1. forward'[h] = w /\ wstate'[w] = IF count[w] = 1 THEN "dying" ELSE "live"
      BY <1>1, <1>4 DEF Mapped, IInv, TypeOK
    <2>2. CanonOf(h)' = IF count[w] = 1 THEN None ELSE w
      BY <1>2, <2>1 DEF CanonOf
    <2>3. count'[w] = count[w] - 1
      BY <1>1 DEF IInv, TypeOK
    <2> QED
      BY <1>2, <2>2, <2>3 DEF RefsOf
  <1> QED
    BY <1>2, <1>3, <1>4

LEMMA MissIdentity ==
    ASSUME IInv, NEW t \in Threads, NEW b \in Wrapped, NEW w \in Wrappers, Miss(t, b, w)
    PROVE  \A h \in Wrapped : CanonOf(h)' = CanonOf(h) /\ RefsOf(h)' = RefsOf(h)
  <1>1. /\ wstate[w] = "free" /\ forward' = forward
        /\ wstate' = [wstate EXCEPT ![w] = "live"] /\ count' = [count EXCEPT ![w] = 1]
    BY DEF Miss
  <1>2. \A h \in Wrapped : forward[h] # w
    BY <1>1, BlockAssumption DEF IInv, MemoryInv, Guests, Wrapped, TypeOK
  <1> SUFFICES ASSUME NEW h \in Wrapped PROVE CanonOf(h)' = CanonOf(h) /\ RefsOf(h)' = RefsOf(h)
    OBVIOUS
  <1>3. forward[h] = None \/ (forward[h] \in Wrappers /\ wstate'[forward[h]] = wstate[forward[h]]
                              /\ count'[forward[h]] = count[forward[h]])
    BY <1>1, <1>2 DEF IInv, TypeOK, Guests, Wrapped
  <1>4. CanonOf(h)' = CanonOf(h)
    BY <1>1, <1>3 DEF CanonOf
  <1> QED
    BY <1>3, <1>4, CanonFacts DEF RefsOf

(* The wrapper the dispose helper unmaps was given up before: to others    *)
(* the block had none any more.                                            *)
LEMMA DisposeIdentity ==
    ASSUME IInv, NEW t \in Threads, Dispose(t)
    PROVE  \A h \in Wrapped : CanonOf(h)' = CanonOf(h) /\ RefsOf(h)' = RefsOf(h)
  <1> DEFINE w == found[t]
             b == wguest[w]
  <1>1. /\ w \in Wrappers /\ wstate[w] = "dying" /\ b \in Wrapped
        /\ forward' = [forward EXCEPT ![b] = None] /\ UNCHANGED <<wstate, count>>
    BY DEF Dispose, IInv, DyingInv, MemoryInv, TypeOK
  <1>2. CanonOf(b) = None
    <2>1. forward[b] # None => forward[b] = w
      BY <1>1 DEF IInv, MemoryInv, Guests, Wrapped, TypeOK
    <2> QED
      BY <1>1, <2>1 DEF CanonOf
  <1> HIDE DEF w, b
  <1> SUFFICES ASSUME NEW h \in Wrapped PROVE CanonOf(h)' = CanonOf(h) /\ RefsOf(h)' = RefsOf(h)
    OBVIOUS
  <1>3. CanonOf(h)' = CanonOf(h)
    <2>1. forward'[h] = IF h = b THEN None ELSE forward[h]
      BY <1>1 DEF IInv, TypeOK, Guests, Wrapped
    <2> QED
      BY <1>1, <1>2, <2>1 DEF CanonOf
  <1> QED
    BY <1>1, <1>3 DEF RefsOf

LEMMA GuestReleaseIdentity ==
    ASSUME IInv, NEW t \in Threads, GuestRelease(t)
    PROVE  \A h \in Wrapped : CanonOf(h)' = CanonOf(h) /\ RefsOf(h)' = RefsOf(h)
  <1> DEFINE w == found[t]
  <1>1. /\ w \in Wrappers /\ ~ Mapped(w)
        /\ wstate' = [wstate EXCEPT ![w] = "free"] /\ UNCHANGED <<forward, count>>
    BY DEF GuestRelease, IInv, DyingInv
  <1> HIDE DEF w
  <1>2. \A h \in Wrapped : forward[h] # w
    BY <1>1, BlockAssumption DEF IInv, MemoryInv, Guests, Wrapped, TypeOK, Mapped
  <1> SUFFICES ASSUME NEW h \in Wrapped PROVE CanonOf(h)' = CanonOf(h) /\ RefsOf(h)' = RefsOf(h)
    OBVIOUS
  <1>3. forward[h] = None \/ (forward[h] \in Wrappers /\ wstate'[forward[h]] = wstate[forward[h]])
    BY <1>1, <1>2 DEF IInv, TypeOK, Guests, Wrapped
  <1>4. CanonOf(h)' = CanonOf(h)
    BY <1>1, <1>3 DEF CanonOf
  <1> QED
    BY <1>1, <1>4 DEF RefsOf

LEMMA PublishCreates ==
    ASSUME IInv, FirstCount, NEW t \in Threads, Publish(t)
    PROVE  /\ tmp[t] \in Wrappers /\ wguest[tmp[t]] \in Wrapped
           /\ CanonOf(wguest[tmp[t]]) = None
           /\ \A h \in Wrapped :
                  /\ CanonOf(h) # tmp[t]
                  /\ CanonOf(h)' = IF h = wguest[tmp[t]] THEN tmp[t] ELSE CanonOf(h)
                  /\ RefsOf(h)' = IF h = wguest[tmp[t]] THEN 1 ELSE RefsOf(h)
  <1> DEFINE w == tmp[t]
             b == wguest[w]
  <1>1. /\ w \in Wrappers /\ ~ Mapped(w) /\ wstate[w] = "live" /\ b \in Wrapped /\ forward[b] = None
        /\ count[w] = 1
        /\ forward' = [forward EXCEPT ![b] = w] /\ UNCHANGED <<wstate, count>>
    BY PublisherUnmapped DEF Publish, FirstCount
  <1>2. ~ (forward[b] # None /\ wstate[forward[b]] = "live") /\ w # None
    BY <1>1, BlockAssumption
  <1>3. CanonOf(b) = None
    BY <1>2 DEF CanonOf
  <1> SUFFICES ASSUME NEW h \in Wrapped
               PROVE  /\ CanonOf(h) # w
                      /\ CanonOf(h)' = IF h = b THEN w ELSE CanonOf(h)
                      /\ RefsOf(h)' = IF h = b THEN 1 ELSE RefsOf(h)
    BY <1>1, <1>3
  <1>4. CanonOf(h) # w
    <2>1. CanonOf(h) = w => forward[h] = w /\ wguest[w] = h
      BY <1>2, CanonFacts
    <2> QED
      BY <1>1, <2>1 DEF Mapped
  <1>m. ~ Mapped(w)
    BY <1>1
  <1> HIDE DEF w, b
  <1>5. forward'[h] = IF h = b THEN w ELSE forward[h]
    BY <1>1 DEF IInv, TypeOK, Guests, Wrapped
  <1>6. CanonOf(h)' = IF h = b THEN w ELSE CanonOf(h)
    BY <1>1, <1>2, <1>5 DEF CanonOf
  <1>7. RefsOf(h)' = IF h = b THEN 1 ELSE RefsOf(h)
    BY <1>1, <1>2, <1>6 DEF RefsOf
  <1> QED
    BY <1>4, <1>6, <1>7

(* Every step of the bridge is a step of BlockIdentity, or leaves it be.   *)
LEMMA StepRefines ==
    ASSUME Disciplined, IInv, FirstCount, [Next]_vars
    PROVE  [Identity!Next]_(Identity!vars)
  <1> USE DEF Identity!vars
  <1>s. ASSUME \A h \in Wrapped : CanonOf(h)' = CanonOf(h) /\ RefsOf(h)' = RefsOf(h)
        PROVE  UNCHANGED Identity!vars
    BY <1>s DEF RefsOf
  <1>1. CASE Leaves
    BY <1>1, <1>s, LeavesIdentity DEF Leaves
  <1>2. ASSUME NEW w \in Wrappers, Takes(w) PROVE Identity!Next
    <2>1. Identity!Acquire(wguest[w])
      BY <1>2, TakesAcquires DEF Identity!Acquire, RefsOf
    <2> QED
      BY <1>2, <2>1, TakesAcquires DEF Identity!Next
  <1>3. ASSUME NEW w \in Wrappers, Gives(w) PROVE Identity!Next
    <2> DEFINE b == wguest[w]
               C == [h \in Wrapped |-> CanonOf(h)]
               R == [h \in Wrapped |-> RefsOf(h)]
    <2>0. /\ b \in Wrapped /\ CanonOf(b) # None
          /\ \A h \in Wrapped :
                 /\ RefsOf(h)' = IF h = b THEN RefsOf(h) - 1 ELSE RefsOf(h)
                 /\ CanonOf(h)' = IF h = b /\ RefsOf(h) = 1 THEN None ELSE CanonOf(h)
      BY <1>3, GivesDrops
    <2>r. R' = [R EXCEPT ![b] = R[b] - 1]
      BY <2>0
    <2>c. C' = IF R[b] = 1 THEN [C EXCEPT ![b] = None] ELSE C
      <3>1. CASE RefsOf(b) = 1
        BY <2>0, <3>1
      <3>2. CASE RefsOf(b) # 1
        BY <2>0, <3>2
      <3> QED
        BY <2>0, <3>1, <3>2
    <2>1. Identity!Drop(wguest[w])
      BY <2>0, <2>r, <2>c DEF Identity!Drop, RefsOf
    <2> QED
      BY <1>3, <2>1, GivesDrops DEF Identity!Next
  <1>4. ASSUME NEW t \in Threads, NEW h \in Wrapped, NEW w \in Wrappers, Miss(t, h, w)
        PROVE  UNCHANGED Identity!vars
    BY <1>4, <1>s, MissIdentity
  <1>5. ASSUME NEW t \in Threads, Publish(t) PROVE Identity!Next
    <2>1. Identity!Create(wguest[tmp[t]], tmp[t])
      BY <1>5, PublishCreates DEF Identity!Create, RefsOf
    <2> QED
      BY <1>5, <2>1, PublishCreates DEF Identity!Next
  <1>6. ASSUME NEW t \in Threads, Dispose(t) \/ GuestRelease(t)
        PROVE  UNCHANGED Identity!vars
    BY <1>6, <1>s, DisposeIdentity, GuestReleaseIdentity
  <1> HIDE DEF Identity!vars
  <1> QED
    BY <1>1, <1>2, <1>3, <1>4, <1>5, <1>6, StepKinds

(* The bridge implements BlockIdentity: to the program, a block has at     *)
(* most one wrapper at a time, which appears with its first reference,     *)
(* goes with its last one and is never found again, although the map, the  *)
(* count and the two blocks change in separate steps, some outside of      *)
(* xl_block_lock (objc_bridge.m:1159-1270).  The blocks are heap copies    *)
(* and global blocks, each of the latter used by one thread.               *)
THEOREM Refinement ==
    ASSUME Disciplined PROVE Spec => ImplementsIdentity
  <1>1. Init => FirstCount
    BY DEF Init, FirstCount
  <1>2. Init => Identity!Init
    BY DEF Init, Identity!Init, CanonOf, Guests, Wrapped
  <1>3. IInv /\ FirstCount /\ [Next]_vars => FirstCount'
    BY FirstCountInv
  <1>4. IInv /\ FirstCount /\ [Next]_vars => [Identity!Next]_(Identity!vars)
    BY StepRefines
  <1> QED
    BY <1>1, <1>2, <1>3, <1>4, Invariant, PTL DEF Spec, ImplementsIdentity, Identity!Spec

----------------------------------------------------------------------------
(* A program that neither retains stack blocks nor autoreleases what it    *)
(* owns: then a reference to a block is named by that block, and no count  *)
(* is ever lost.                                                           *)
OffStack ==
    /\ \A s \in Slots : kind[s] = "guest" => addr[s] \in Wrapped
    /\ \A t \in Threads : pc[t] \in Entering =>
           op[t] # "autorelease" /\ (op[t] = "retain" => arg[t] \in Wrapped)

OwnedInv == OffStack /\ CountIsOwned

(* Slots keep the names they have and calls their arguments.               *)
KeepsNames ==
    /\ \A s \in Slots : kind'[s] = "guest" => kind[s] = "guest" /\ addr'[s] = addr[s]
    /\ \A t \in Threads : pc'[t] \in Entering =>
           pc[t] \in Entering /\ op'[t] = op[t] /\ arg'[t] = arg[t]

LEMMA KeepsNamesInv ==
    ASSUME OffStack, KeepsNames PROVE OffStack'
  BY DEF OffStack, KeepsNames

LEMMA GotoKeeps ==
    ASSUME TypeOK, NEW t \in Threads, NEW step \in Steps, Goto(t, step),
           pc[t] \notin Entering => step \notin Entering
    PROVE  \A u \in Threads : pc'[u] \in Entering =>
               pc[u] \in Entering /\ op'[u] = op[u] /\ arg'[u] = arg[u]
  <1>1. pc' = [pc EXCEPT ![t] = step]
    BY DEF Goto
  <1>2. step # "idle" => op' = op /\ arg' = arg
    BY DEF Goto
  <1>3. \A u \in Threads : u # t => op'[u] = op[u] /\ arg'[u] = arg[u]
    BY DEF Goto, TypeOK
  <1> QED
    BY <1>1, <1>2, <1>3 DEF TypeOK, Entering

LEMMA EnterOffStack ==
    ASSUME IInv, OffStack, NEW t \in Threads, NEW o \in Ops \ {"autorelease"}, NEW n, NEW d,
           Enter(t, o, n, d), o = "retain" => n[1] \in Wrapped
    PROVE  OffStack'
  BY DEF IInv, TypeOK, OffStack, Enter, slotVars

LEMMA StepKeeps ==
    ASSUME Disciplined, IInv, OffStack, NEW t \in Threads, Step(t)
    PROVE  OffStack'
  <1> USE BlockAssumption
  <1>0. TypeOK /\ TmpOK(t) /\ ArgOK(t)
    BY DEF IInv, CallInv
  <1>1. CASE \/ LookUp(t) \/ Hit(t) \/ Publish(t) \/ MsgRelease(t) \/ MsgOther(t)
             \/ DropTmp(t) \/ Dispose(t) \/ GuestRelease(t)
             \/ \E h \in Wrapped, w \in Wrappers : Miss(t, h, w)
    <2>1. UNCHANGED <<kind, addr>>
      BY <1>1 DEF LookUp, Hit, Publish, MsgRelease, MsgOther, DropTmp, Dispose, GuestRelease, Miss, slotVars
    <2>2. \E step \in Steps : Goto(t, step) /\ (pc[t] \notin Entering => step \notin Entering)
      BY <1>1 DEF LookUp, Hit, Publish, MsgRelease, MsgOther, DropTmp, Dispose, GuestRelease, Miss,
             HostBlockRelease, Steps, Entering
    <2> QED
      BY <1>0, <2>1, <2>2, GotoKeeps, KeepsNamesInv DEF KeepsNames
  <1>2. CASE InReturns(t) \/ MsgAutorelease(t) \/ DropSlot(t)
    <2>1. \E x : \E k \in {"pool", "none"} : \E g : kind' = [kind EXCEPT ![x] = k] /\ addr' = [addr EXCEPT ![x] = g]
      BY <1>2 DEF InReturns, MsgAutorelease, DropSlot, Fill
    <2>2. \A s \in Slots : kind'[s] = "guest" => kind[s] = "guest" /\ addr'[s] = addr[s]
      BY <1>0, <2>1 DEF TypeOK
    <2>3. \E step \in Steps : Goto(t, step) /\ (pc[t] \notin Entering => step \notin Entering)
      BY <1>2 DEF InReturns, MsgAutorelease, DropSlot, HostBlockRelease, Steps, Entering
    <2> QED
      BY <1>0, <2>2, <2>3, GotoKeeps, KeepsNamesInv DEF KeepsNames
  <1>3. CASE RetainReturns(t) \/ MsgCopy(t)
    <2>1. \E g \in Wrapped : kind' = [kind EXCEPT ![dst[t]] = "guest"] /\ addr' = [addr EXCEPT ![dst[t]] = g]
      <3>1. CASE RetainReturns(t)
        BY <3>1 DEF RetainReturns, Fill, OffStack, Entering
      <3>2. CASE MsgCopy(t)
        <4>1. wguest[tmp[t]] \in Wrapped
          BY <3>2, <1>0 DEF MsgCopy, TmpOK, Mapped
        <4> QED
          BY <3>2, <4>1 DEF MsgCopy, Fill
      <3> QED
        BY <1>3, <3>1, <3>2
    <2>2. \A s \in Slots : kind'[s] = "guest" => addr'[s] \in Wrapped
      BY <1>0, <2>1 DEF TypeOK, OffStack
    <2>3. \E step \in Steps : Goto(t, step) /\ (pc[t] \notin Entering => step \notin Entering)
      BY <1>3 DEF RetainReturns, MsgCopy, Steps, Entering
    <2>4. \A u \in Threads : pc'[u] \in Entering => pc[u] \in Entering /\ op'[u] = op[u] /\ arg'[u] = arg[u]
      BY <1>0, <2>3, GotoKeeps
    <2> QED
      BY <2>2, <2>4 DEF OffStack
  <1>4. ~ AutoreleaseReturns(t)
    BY DEF AutoreleaseReturns, OffStack, Entering
  <1> QED
    BY <1>1, <1>2, <1>3, <1>4 DEF Step

LEMMA OffStackInv ==
    ASSUME Disciplined, Profile = {}, IInv, OffStack, [Next]_vars
    PROVE  OffStack'
  <1> USE BlockAssumption
  <1>0. TypeOK
    BY DEF IInv
  <1>1. CASE UNCHANGED vars
    BY <1>1 DEF vars, slotVars, callVars, OffStack
  <1>2. ASSUME NEW t \in Threads, Call(t) PROVE OffStack'
    <2>1. ASSUME NEW n \in Named(t), NEW d, xl_block_retain(t, n, d) PROVE OffStack'
      <3>1. n[1] \in Wrapped
        BY <2>1, NamedFacts DEF xl_block_retain, Guests, Wrapped
      <3> QED
        BY <2>1, <3>1, EnterOffStack DEF xl_block_retain, Ops
    <2>2. ASSUME NEW n, NEW d, xl_object_in(t, n, d) PROVE OffStack'
      BY <2>2, EnterOffStack DEF xl_object_in, Ops
    <2>3. ASSUME NEW n, xl_h_objc_msgSend(t, n) PROVE OffStack'
      <3>1. PICK o \in {"msgCopy", "msgOther", "msgRelease", "msgAutorelease"}, d \in Slots \cup {None} :
                Enter(t, o, n, d)
        BY <2>3 DEF xl_h_objc_msgSend, Empty, Own
      <3> QED
        BY <3>1, EnterOffStack DEF Ops
    <2>4. \A x \in Own(t) : ~ xl_block_autorelease(t, x)
      BY DEF xl_block_autorelease
    <2> QED
      BY <1>2, <2>1, <2>2, <2>3, <2>4 DEF Call
  <1>3. ASSUME NEW t \in Threads, Step(t) PROVE OffStack'
    BY <1>3, StepKeeps
  <1>4. ASSUME NEW t \in Threads, Program(t) PROVE OffStack'
    <2>1. ASSUME NEW x \in Own(t), xl_block_release(t, x) \/ HostRelease(t, x) PROVE OffStack'
      <3>1. \A s \in Slots : kind'[s] = "guest" => kind[s] = "guest" /\ addr'[s] = addr[s]
        BY <1>0, <2>1 DEF xl_block_release, HostRelease, slotVars, Fill, TypeOK
      <3>2. (pc' = pc \/ pc' = [pc EXCEPT ![t] = "dropSlot"]) /\ UNCHANGED <<op, arg>>
        BY <2>1 DEF xl_block_release, HostRelease, callVars
      <3>3. \A u \in Threads : pc'[u] \in Entering => pc[u] \in Entering /\ op'[u] = op[u] /\ arg'[u] = arg[u]
        BY <1>0, <3>2 DEF TypeOK, Entering
      <3> QED
        BY <3>1, <3>3, KeepsNamesInv DEF KeepsNames
    <2>2. ASSUME NEW x \in Own(t), NEW d, HostRetain(t, x, d) PROVE OffStack'
      BY <1>0, <2>2 DEF HostRetain, Fill, callVars, TypeOK, OffStack
    <2>3. ASSUME NEW x \in Own(t), NEW u, NEW d \in Empty(u), HandOver(t, u, x, d) PROVE OffStack'
      <3>1. x \in Slots /\ d \in Slots
        BY DEF Own, Empty
      <3> QED
        BY <1>0, <2>3, <3>1 DEF HandOver, callVars, TypeOK, OffStack
    <2>4. /\ \A x \in Own(t) : ~ DirectRelease(t, x)
          /\ \A n, h, d : ~ DirectCopy(t, n, h, d)
      BY DEF DirectRelease, IInv, SlotInv, Stands, Own, DirectCopy, Disciplined
    <2> QED
      BY <1>4, <2>1, <2>2, <2>3, <2>4 DEF Program
  <1> QED
    BY <1>1, <1>2, <1>3, <1>4 DEF Next

----------------------------------------------------------------------------
(* The count of a wrapper moves with its holders.                          *)
Balanced(v) ==
    \/ /\ wstate[v] = "live"
       /\ \/ Holders(v)' = Holders(v) /\ count'[v] = count[v]
          \/ \E e : e \notin Holders(v) /\ Holders(v)' = Holders(v) \cup {e} /\ count'[v] = count[v] + 1
          \/ \E e \in Holders(v) : Holders(v)' = Holders(v) \ {e} /\ count'[v] = count[v] - 1
          \/ \E d : \E e \in Holders(v) : /\ d \notin Holders(v) /\ Holders(v)' = (Holders(v) \ {e}) \cup {d}
                                          /\ count'[v] = count[v]
    \/ \E e : Holders(v)' = {e} /\ count'[v] = 1

LEMMA BalancedCount ==
    ASSUME TypeOK, CountIsOwned, NEW v \in Wrappers, Balanced(v)
    PROVE  count'[v] = Cardinality(Holders(v)')
  <1>0. count[v] \in Nat /\ IsFiniteSet(Holders(v)) /\ (wstate[v] = "live" => count[v] = Cardinality(Holders(v)))
    BY HoldersFinite DEF TypeOK, CountIsOwned
  <1>1. ASSUME NEW e, e \notin Holders(v) PROVE Cardinality(Holders(v) \cup {e}) = Cardinality(Holders(v)) + 1
    BY <1>0, <1>1, FS_AddElement
  <1>2. ASSUME NEW e \in Holders(v) PROVE Cardinality(Holders(v) \ {e}) = Cardinality(Holders(v)) - 1
    BY <1>0, <1>2, FS_RemoveElement
  <1>3. ASSUME NEW e \in Holders(v), NEW d, d \notin Holders(v), wstate[v] = "live"
        PROVE  Cardinality((Holders(v) \ {e}) \cup {d}) = Cardinality(Holders(v))
    <2>1. IsFiniteSet(Holders(v) \ {e}) /\ d \notin Holders(v) \ {e}
      BY <1>0, <1>3, FS_RemoveElement
    <2>2. Cardinality((Holders(v) \ {e}) \cup {d}) = Cardinality(Holders(v) \ {e}) + 1
      BY <2>1, FS_AddElement
    <2> QED
      BY <1>0, <1>2, <1>3, <2>2
  <1>4. \A e : Cardinality({e}) = 1
    BY FS_Singleton
  <1>5. CASE \E e : Holders(v)' = {e} /\ count'[v] = 1
    BY <1>4, <1>5
  <1>6. CASE wstate[v] = "live" /\ Holders(v)' = Holders(v) /\ count'[v] = count[v]
    BY <1>0, <1>6
  <1>7. ASSUME wstate[v] = "live", NEW e, e \notin Holders(v), Holders(v)' = Holders(v) \cup {e}, count'[v] = count[v] + 1
        PROVE  count'[v] = Cardinality(Holders(v)')
    BY <1>0, <1>1, <1>7
  <1>8. ASSUME wstate[v] = "live", NEW e \in Holders(v), Holders(v)' = Holders(v) \ {e}, count'[v] = count[v] - 1
        PROVE  count'[v] = Cardinality(Holders(v)')
    BY <1>0, <1>2, <1>8
  <1>9. ASSUME wstate[v] = "live", NEW d, NEW e \in Holders(v), d \notin Holders(v),
               Holders(v)' = (Holders(v) \ {e}) \cup {d}, count'[v] = count[v]
        PROVE  count'[v] = Cardinality(Holders(v)')
    BY <1>0, <1>3, <1>9
  <1> QED
    BY <1>5, <1>6, <1>7, <1>8, <1>9 DEF Balanced

LEMMA SameBalanced ==
    ASSUME TypeOK, NEW v \in Wrappers, wstate[v] = "live", UNCHANGED <<ref, tmp, count>>
    PROVE  Balanced(v)
  <1>1. Holders(v)' = Holders(v)
    BY DEF Holders
  <1> QED
    BY <1>1 DEF Balanced

LEMMA HitBalanced ==
    ASSUME Disciplined, IInv, NEW t \in Threads, Hit(t), NEW v \in Wrappers, wstate'[v] = "live"
    PROVE  Balanced(v)
  <1> USE BlockAssumption DEF IInv
  <1>0. TypeOK /\ pc[t] = "hit" /\ tmp[t] = None /\ found[t] \in Wrappers /\ wstate[v] = "live"
    BY HitTakes DEF Hit, CallInv, TmpOK
  <1>1. IF v = found[t] THEN Holders(v)' = Holders(v) \cup {t} /\ t \notin Holders(v) /\ count'[v] = count[v] + 1
                        ELSE Holders(v)' = Holders(v) /\ count'[v] = count[v]
    BY <1>0 DEF Holders, TypeOK, Hit, slotVars
  <1> QED
    BY <1>0, <1>1 DEF Balanced

LEMMA MissBalanced ==
    ASSUME IInv, NEW t \in Threads, NEW h \in Wrapped, NEW w \in Wrappers, Miss(t, h, w),
           NEW v \in Wrappers, wstate'[v] = "live"
    PROVE  Balanced(v)
  <1> USE BlockAssumption DEF IInv
  <1>0. TypeOK /\ tmp[t] = None /\ Holders(w) = {}
    BY DEF Miss, CallInv, TmpOK, HeldWrapperIsLive
  <1>1. IF v = w THEN Holders(v)' = {t} /\ count'[v] = 1
                 ELSE Holders(v)' = Holders(v) /\ count'[v] = count[v] /\ wstate[v] = "live"
    BY <1>0 DEF Holders, TypeOK, Miss, slotVars
  <1> QED
    BY <1>1 DEF Balanced

LEMMA ReturnsBalanced ==
    ASSUME IInv, NEW t \in Threads, RetainReturns(t) \/ InReturns(t), NEW v \in Wrappers, wstate[v] = "live"
    PROVE  Balanced(v)
  <1> USE BlockAssumption DEF IInv
  <1>0. TypeOK /\ pc[t] = "got" /\ op[t] \in TakesDst /\ TmpOK(t) /\ ArgOK(t)
    BY DEF RetainReturns, InReturns, CallInv, TakesDst
  <1>a. tmp[t] \in Wrappers /\ dst[t] \in Slots /\ ref[dst[t]] = None
    BY <1>0 DEF TmpOK, ArgOK, TypeOK, Entering, Empty, Own, SlotInv, Stands
  <1>d. /\ ref' = [ref EXCEPT ![dst[t]] = tmp[t]] /\ tmp' = [tmp EXCEPT ![t] = None] /\ count' = count
    BY DEF RetainReturns, InReturns, Fill, heapVars
  <1>7. IF v = tmp[t] THEN t \in Holders(v) /\ dst[t] \notin Holders(v) /\ Holders(v)' = (Holders(v) \ {t}) \cup {dst[t]}
                      ELSE Holders(v)' = Holders(v)
    BY <1>0, <1>a, <1>d DEF Holders, TypeOK
  <1> QED
    BY <1>7, <1>d DEF Balanced

LEMMA MsgCopyBalanced ==
    ASSUME IInv, NEW t \in Threads, MsgCopy(t), NEW v \in Wrappers, wstate[v] = "live"
    PROVE  Balanced(v)
  <1> USE BlockAssumption DEF IInv
  <1>0. TypeOK /\ pc[t] = "got" /\ op[t] \in TakesDst /\ TmpOK(t) /\ ArgOK(t)
    BY DEF MsgCopy, CallInv, TakesDst
  <1>a. tmp[t] \in Wrappers /\ dst[t] \in Slots /\ ref[dst[t]] = None
    BY <1>0 DEF TmpOK, ArgOK, TypeOK, Entering, Empty, Own, SlotInv, Stands
  <1>d. ref' = [ref EXCEPT ![dst[t]] = tmp[t]] /\ tmp' = tmp /\ count' = [count EXCEPT ![tmp[t]] = count[tmp[t]] + 1]
    BY DEF MsgCopy, Fill
  <1>7. IF v = tmp[t] THEN /\ dst[t] \notin Holders(v) /\ Holders(v)' = Holders(v) \cup {dst[t]}
                           /\ count'[v] = count[v] + 1
                      ELSE Holders(v)' = Holders(v) /\ count'[v] = count[v]
    BY <1>0, <1>a, <1>d DEF Holders, TypeOK
  <1> QED
    BY <1>7 DEF Balanced

LEMMA MsgBalanced ==
    ASSUME IInv, NEW t \in Threads, MsgAutorelease(t) \/ MsgRelease(t) \/ MsgOther(t),
           NEW v \in Wrappers, wstate[v] = "live"
    PROVE  Balanced(v)
  <1>0. TypeOK /\ pc[t] = "got" /\ ArgOK(t) /\ FoundOK(t)
    BY DEF MsgAutorelease, MsgRelease, MsgOther, IInv, CallInv
  <1>1. UNCHANGED <<ref, tmp, count>>
    <2>1. CASE MsgAutorelease(t)
      <3>1. src[t] \in Slots /\ ref[src[t]] = tmp[t]
        BY <2>1, <1>0, SenderHolds DEF MsgAutorelease
      <3> QED
        BY <2>1, <3>1, <1>0 DEF MsgAutorelease, Fill, heapVars, TypeOK
    <2>2. CASE MsgRelease(t) \/ MsgOther(t)
      BY <2>2 DEF MsgRelease, MsgOther, heapVars, slotVars
    <2> QED
      BY <2>1, <2>2
  <1> QED
    BY <1>0, <1>1, SameBalanced

(* A holder gives its reference up; a wrapper that stays alive has others. *)
LEMMA DropBalanced ==
    ASSUME IInv, NEW t \in Threads, DropSlot(t) \/ DropTmp(t), NEW v \in Wrappers, wstate'[v] = "live"
    PROVE  Balanced(v)
  <1> USE BlockAssumption DEF IInv
  <1>0. TypeOK
    OBVIOUS
  <1>1. PICK w \in Wrappers, e \in Slots \cup Threads :
            e \in Holders(w) /\ Gives(w) /\ \A u \in Wrappers : Holders(u)' = Holders(u) \ {e}
    <2>1. CASE DropSlot(t)
      <3>1. src[t] \in Slots /\ found[t] = ref[src[t]] /\ found[t] \in Wrappers /\ Gives(found[t])
        BY <2>1, DropSlotGives DEF DropSlot, CallInv, FoundOK, Stands, Own
      <3>2. ref' = [ref EXCEPT ![src[t]] = None] /\ tmp' = tmp
        BY <2>1 DEF DropSlot, Fill
      <3>3. src[t] \in Holders(found[t]) /\ \A u \in Wrappers : Holders(u)' = Holders(u) \ {src[t]}
        BY <1>0, <3>1, <3>2 DEF Holders, TypeOK
      <3> QED
        BY <3>1, <3>3
    <2>2. CASE DropTmp(t)
      <3>1. tmp[t] \in Wrappers /\ Gives(tmp[t])
        BY <2>2, DropTmpGives
      <3>2. ref' = ref /\ tmp' = [tmp EXCEPT ![t] = None]
        BY <2>2 DEF DropTmp, slotVars
      <3>3. t \in Holders(tmp[t]) /\ \A u \in Wrappers : Holders(u)' = Holders(u) \ {t}
        BY <1>0, <3>1, <3>2 DEF Holders, TypeOK
      <3> QED
        BY <3>1, <3>3
    <2> QED
      BY <2>1, <2>2
  <1>2. /\ count' = [count EXCEPT ![w] = count[w] - 1]
        /\ wstate[v] = "live"
    BY <1>0, <1>1 DEF Gives, TypeOK
  <1>3. CASE v = w
    BY <1>0, <1>1, <1>2, <1>3 DEF Balanced, TypeOK
  <1>4. CASE v # w
    <2>1. e \notin Holders(v)
      BY <1>4, <1>1 DEF Holders
    <2>2. Holders(v)' = Holders(v)
      <3>1. Holders(v)' = Holders(v) \ {e}
        BY <1>1
      <3> QED
        BY <2>1, <3>1
    <2> QED
      BY <1>0, <1>2, <1>4, <2>2 DEF Balanced, TypeOK
  <1> QED
    BY <1>3, <1>4

LEMMA HostRetainBalanced ==
    ASSUME IInv, NEW t \in Threads, NEW x \in Own(t), NEW d \in Empty(t), HostRetain(t, x, d),
           NEW v \in Wrappers, wstate[v] = "live"
    PROVE  Balanced(v)
  <1> USE BlockAssumption DEF IInv
  <1>0. TypeOK /\ d \in Slots /\ ref[d] = None /\ ref[x] \in Wrappers
    BY HostRetainTakes DEF Empty, Own, SlotInv, Stands
  <1>1. ref' = [ref EXCEPT ![d] = ref[x]] /\ tmp' = tmp /\ count' = [count EXCEPT ![ref[x]] = count[ref[x]] + 1]
    BY DEF HostRetain, Fill, callVars
  <1>2. IF v = ref[x] THEN d \notin Holders(v) /\ Holders(v)' = Holders(v) \cup {d} /\ count'[v] = count[v] + 1
                      ELSE Holders(v)' = Holders(v) /\ count'[v] = count[v]
    BY <1>0, <1>1 DEF Holders, TypeOK
  <1> QED
    BY <1>2 DEF Balanced

LEMMA HandOverBalanced ==
    ASSUME IInv, NEW t \in Threads, NEW u \in Threads \ {t}, NEW x \in Own(t), NEW d \in Empty(u),
           HandOver(t, u, x, d), NEW v \in Wrappers, wstate[v] = "live"
    PROVE  Balanced(v)
  <1> USE BlockAssumption DEF IInv
  <1>0. TypeOK /\ x \in Slots /\ d \in Slots /\ ref[d] = None /\ x # d
    BY DEF HandOver, Own, Empty, SlotInv, Stands
  <1>1. ref' = [ref EXCEPT ![d] = ref[x], ![x] = None] /\ tmp' = tmp /\ count' = count
    BY DEF HandOver, heapVars, callVars
  <1>2. IF v = ref[x] THEN x \in Holders(v) /\ d \notin Holders(v) /\ Holders(v)' = (Holders(v) \ {x}) \cup {d}
                      ELSE Holders(v)' = Holders(v)
    BY <1>0, <1>1 DEF Holders, TypeOK
  <1> QED
    BY <1>1, <1>2 DEF Balanced

LEMMA CountIsOwnedInv ==
    ASSUME Disciplined, IInv, OwnedInv, [Next]_vars
    PROVE  CountIsOwned'
  <1> USE BlockAssumption
  <1>0. TypeOK /\ OffStack /\ CountIsOwned
    BY DEF IInv, OwnedInv
  <1> SUFFICES ASSUME NEW v \in Wrappers, wstate'[v] = "live" PROVE Balanced(v)
    BY <1>0, BalancedCount DEF CountIsOwned
  <1>s. ASSUME UNCHANGED <<ref, tmp, count, wstate>> PROVE Balanced(v)
    BY <1>0, <1>s, SameBalanced
  <1>1. CASE UNCHANGED vars
    BY <1>1, <1>s DEF vars, heapVars, slotVars, callVars
  <1>2. ASSUME NEW t \in Threads, Call(t) PROVE Balanced(v)
    <2>1. \E o, n, d : Enter(t, o, n, d)
      BY <1>2 DEF Call, xl_block_retain, xl_object_in, xl_h_objc_msgSend, xl_block_autorelease
    <2> QED
      BY <2>1, <1>s DEF Enter, heapVars, slotVars
  <1>3. ASSUME NEW t \in Threads, Step(t) PROVE Balanced(v)
    <2>1. CASE LookUp(t) \/ Publish(t) \/ Dispose(t)
      BY <2>1, <1>s DEF LookUp, Publish, Dispose, slotVars
    <2>2. CASE GuestRelease(t)
      <3>1. UNCHANGED <<ref, tmp, count>> /\ wstate[v] = "live"
        BY <2>2, <1>0 DEF GuestRelease, slotVars, TypeOK
      <3> QED
        BY <3>1, <1>0, SameBalanced
    <2>3. CASE RetainReturns(t) \/ InReturns(t) \/ MsgCopy(t) \/ MsgAutorelease(t) \/ MsgRelease(t) \/ MsgOther(t)
      <3>1. wstate[v] = "live"
        BY <2>3 DEF RetainReturns, InReturns, MsgCopy, MsgAutorelease, MsgRelease, MsgOther, heapVars
      <3> QED
        BY <2>3, <3>1, ReturnsBalanced, MsgCopyBalanced, MsgBalanced
    <2>4. ~ AutoreleaseReturns(t)
      BY <1>0 DEF AutoreleaseReturns, OffStack, Entering
    <2> QED
      BY <1>3, <2>1, <2>2, <2>3, <2>4, HitBalanced, MissBalanced, DropBalanced DEF Step
  <1>4. ASSUME NEW t \in Threads, Program(t) PROVE Balanced(v)
    <2>1. ASSUME NEW x \in Own(t), xl_block_release(t, x) \/ HostRelease(t, x) PROVE Balanced(v)
      <3>1. CASE HostRelease(t, x)
        BY <3>1, <1>s DEF HostRelease, heapVars, slotVars
      <3>2. CASE xl_block_release(t, x)
        <4>1. x \in Slots /\ kind[x] = "guest" /\ addr[x] \in Wrapped /\ addr[x] \notin Stack
          BY <3>2, <1>0 DEF xl_block_release, OffStack, Own, Wrapped
        <4>2. forward[addr[x]] # None
          BY <4>1 DEF IInv, SlotInv, Stands, Mapped
        <4> QED
          BY <3>2, <4>2, <1>s DEF xl_block_release, heapVars, slotVars
      <3> QED
        BY <2>1, <3>1, <3>2
    <2>2. ASSUME NEW x \in Own(t), NEW d \in Empty(t), HostRetain(t, x, d) PROVE Balanced(v)
      BY <2>2, HostRetainBalanced DEF HostRetain
    <2>3. ASSUME NEW u \in Threads \ {t}, NEW x \in Own(t), NEW d \in Empty(u), HandOver(t, u, x, d) PROVE Balanced(v)
      BY <2>3, HandOverBalanced DEF HandOver, heapVars
    <2>4. /\ \A x \in Own(t) : ~ DirectRelease(t, x)
          /\ \A n, h, d : ~ DirectCopy(t, n, h, d)
      BY DEF DirectRelease, IInv, SlotInv, Stands, Own, DirectCopy, Disciplined
    <2> QED
      BY <1>4, <2>1, <2>2, <2>3, <2>4 DEF Program
  <1> QED
    BY <1>1, <1>2, <1>3, <1>4 DEF Next

(* Nothing leaks: a live wrapper has exactly the references somebody owns, *)
(* so the last release frees it (objc_bridge.m:1182-1259).  Apart from     *)
(* being Disciplined, the program must not do two things: retain a stack   *)
(* block, whose release under the same address finds no wrapper            *)
(* (1253-1258), and objc_autorelease a block it owns, which takes a        *)
(* reference and gives none up (1262-1266).                                *)
THEOREM CountsAreExact ==
    ASSUME Disciplined, Profile = {} PROVE Spec => []CountIsOwned
  <1>1. Init => OwnedInv
    <2> SUFFICES ASSUME Init PROVE OwnedInv
      OBVIOUS
    <2>1. OffStack
      BY DEF Init, OffStack, Entering
    <2>2. CountIsOwned
      BY DEF Init, CountIsOwned
    <2> QED
      BY <2>1, <2>2 DEF OwnedInv
  <1>2. IInv /\ OwnedInv /\ [Next]_vars => OwnedInv'
    BY OffStackInv, CountIsOwnedInv DEF OwnedInv
  <1>3. OwnedInv => CountIsOwned
    BY DEF OwnedInv
  <1> QED
    BY <1>1, <1>2, <1>3, Invariant, PTL DEF Spec

(* A guest block lives exactly as long as the wrapper made for it: the     *)
(* reference taken with it is given back once, by the dispose helper       *)
(* (1185-1186, 1166-1176).                                                 *)
THEOREM GuestBlocksAreOwned ==
    ASSUME Disciplined PROVE Spec => []WrapperOwnsGuest
  <1>1. IInv => WrapperOwnsGuest
    <2> SUFFICES ASSUME IInv, NEW h \in Heap
                 PROVE  gcount[h] = Cardinality({s \in Slots : kind[s] = "direct" /\ addr[s] = h})
                                    + Cardinality({w \in Wrappers : wguest[w] = h})
      BY DEF WrapperOwnsGuest
    <2>1. {s \in Slots : kind[s] = "direct" /\ addr[s] = h} = {}
      BY DEF IInv, SlotInv
    <2>2. CASE gcount[h] = 1
      <3>1. PICK w \in Wrappers : wguest[w] = h
        BY <2>2 DEF IInv, MemoryInv
      <3>2. {v \in Wrappers : wguest[v] = h} = {w}
        BY <3>1, BlockAssumption DEF IInv, MemoryInv
      <3> QED
        BY <2>1, <2>2, <3>2, FS_EmptySet, FS_Singleton, SMTT(40)
    <2>3. CASE gcount[h] # 1
      <3>1. gcount[h] = 0 /\ {v \in Wrappers : wguest[v] = h} = {}
        BY <2>3 DEF IInv, MemoryInv
      <3> QED
        BY <2>1, <3>1, FS_EmptySet
    <2> QED
      BY <2>2, <2>3
  <1> QED
    BY <1>1, Invariant, PTL
============================================================================
