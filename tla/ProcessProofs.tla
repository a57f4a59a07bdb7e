---------------------------- MODULE ProcessProofs ----------------------------
(***************************************************************************)
(* Proofs about Process, for any number of threads, images, destructors    *)
(* and rounds, and for whatever guest code does.                           *)
(*                                                                         *)
(* The invariant says what the keys of a thread hold, and that the frames  *)
(* of its stack stand on it.  It is a predicate on what one thread has and *)
(* on the keys of the process, so that a step of one thread is compared    *)
(* with what it leaves of the others.                                      *)
(***************************************************************************)
EXTENDS Process, DataTheorems, TLAPS

(* The guest memory of a thread: the block a key holds is the only one of  *)
(* its key that is not freed, and the kernel knows the alternate stack.    *)
Memories(is) == [tsd : [KeyNames(is) -> Nat], made : [KeyNames(is) -> Nat],
                 freed : [KeyNames(is) -> SUBSET Nat], altstack : Int]
MemOK(is, m) ==
    /\ m \in Memories(is)
    /\ \A k \in KeyNames(is) : m.tsd[k] <= m.made[k] /\ m.freed[k] = (1..m.made[k]) \ {m.tsd[k]}
    /\ m.tsd["alt"] # 0 => m.altstack = m.tsd["alt"]

(* Calls of guest functions and of exit.                                   *)
Holds(is) == [key : KeyNames(is), block : Nat, offset : Nat]
GuestFrames(is) == [kind : {"init", "entry", "thread", "callback", "key", "dtor"}, state : Nat, held : SUBSET Holds(is)]
ExitFrames == [kind : {"exit"}, left : Nat, loaded : Int]
Frames(is) == GuestFrames(is) \cup ExitFrames

(* A guest function runs on the blocks that the keys hold; only a worker   *)
(* has the function of a thread on its stack.                              *)
HoldOK(is, m, x) ==
    /\ x.block = m.tsd[x.key] /\ x.block # 0
    /\ \E r \in Range(TlvRegions(is)) : x.key = r.key /\ x.offset \in r.variables
FrameOK(is, t, m, f) == f.kind # "exit" =>
    /\ f.state = m.tsd["state"] /\ f.state # 0 /\ m.tsd["alt"] # 0
    /\ \A x \in f.held : HoldOK(is, m, x)
    /\ f.kind = "thread" => t # Main
FramesOK(is, t, m, s) == s \in Seq(Frames(is)) /\ \A i \in 1..Len(s) : FrameOK(is, t, m, s[i])

(* The keys of the register blocks and of the alternate stacks are the     *)
(* first two, in this order; a group of keys is created at once.           *)
RegionKeys(is) == {r.key : r \in Range(TlvRegions(is))}
KeysOK(is, ks) ==
    /\ ks \in Seq(KeyNames(is))
    /\ ks # <<>> => Len(ks) >= 2 /\ ks[1] = "state" /\ ks[2] = "alt"
    /\ \A i \in 3..Len(ks) : ks[i] \notin {"state", "alt"}
    /\ RegionKeys(is) \subseteq Range(ks) \/ RegionKeys(is) \cap Range(ks) = {}

Handlers == [signal : {"segv", "term", "abrt"}, at : {"enter", "report", "raise"}]
Cleanups == [round : 1..Rounds, at : Nat \ {0}, again : BOOLEAN]

(* A thread that ends.  Between the destructors of its first two keys no   *)
(* guest code runs; if none ran in the last round, what was scanned of it  *)
(* stays empty.                                                            *)
EndOK(t, m, s, h, l, c, ks, lt) ==
    /\ l \in {"no", "running"} => c = FirstRound
    /\ ~ c.again => c.at = 1
    /\ l = "ending" /\ c.at = 2 => s = <<>> /\ h = <<>> /\ m.tsd["state"] = 0
    /\ l = "ending" /\ c.round = Rounds /\ t \notin lt =>
           c.at = 1 \/ (s = <<>> /\ \A j \in 1..Len(ks) : j < c.at => m.tsd[ks[j]] = 0)
    /\ l = "gone" /\ t \notin lt => \A k \in DOMAIN m.tsd : m.tsd[k] = 0

(* Memory hangs on keys that exist.                                        *)
Hung(is, m, ks) == \A k \in KeyNames(is) : m.tsd[k] # 0 => k \in Range(ks)

ThreadOK(is, t, m, s, h, l, c, ks, lt) ==
    /\ MemOK(is, m) /\ Hung(is, m, ks)
    /\ FramesOK(is, t, m, s)
    /\ h \in Seq(Handlers) /\ l \in {"no", "running", "ending", "gone"} /\ c \in Cleanups
    /\ h = <<>> /\ m.tsd["state"] # 0 => m.tsd["alt"] # 0
    /\ l \in {"no", "gone"} => h = <<>> /\ s = <<>>
    /\ h # <<>> => s # <<>> \/ l = "running"
    /\ t = Main => l = "running"
    /\ EndOK(t, m, s, h, l, c, ks, lt)

Tables(is) ==
    /\ mem \in [Threads -> Memories(is)] /\ stack \in [Threads -> Seq(Frames(is))]
    /\ handler \in [Threads -> Seq(Handlers)] /\ cleanup \in [Threads -> Cleanups]
    /\ live \in [Threads -> {"no", "running", "ending", "gone"}]

IInv(is) ==
    /\ images = is /\ Tables(is) /\ KeysOK(is, keys)
    /\ \A t \in Threads :
           ThreadOK(is, t, mem[t], stack[t], handler[t], live[t], cleanup[t], keys, late)

----------------------------------------------------------------------------
(* Guest memory of one thread.                                             *)

LEMMA Names ==
    ASSUME NEW is
    PROVE  /\ {"state", "alt", "guest"} \subseteq KeyNames(is)
           /\ RegionKeys(is) \subseteq KeyNames(is)
           /\ RegionsOK(is) => RegionKeys(is) \cap {"state", "alt", "guest"} = {}
  <1>1. {"state", "alt", "guest"} \subseteq KeyNames(is) /\ RegionKeys(is) \subseteq KeyNames(is)
    BY DEF KeyNames, RegionKeys, GuestKey
  <1>2. RegionsOK(is) => RegionKeys(is) \cap {"state", "alt", "guest"} = {}
    BY DEF RegionsOK, RegionKeys, Range
  <1> QED
    BY <1>1, <1>2

(* Blocks of one key, the ones freed and the one the key holds.            *)
LEMMA Freed ==
    ASSUME NEW n \in Nat, NEW v \in Nat, v <= n
    PROVE  /\ v = 0 => (1..n) \ {v} = 1..n
           /\ v # 0 => ((1..n) \ {v}) \cup {v} = 1..n
           /\ (1..(n + 1)) \ {n + 1} = 1..n
           /\ (1..n) \ {0} = 1..n
  OBVIOUS

(* Records of memory, field by field.                                      *)
PutMade(m, x, y) == [m EXCEPT !.made = x, !.tsd = y]
PutFreed(m, x, y) == [m EXCEPT !.tsd = x, !.freed = y]
PutAlt(m, a) == [m EXCEPT !.altstack = a]

LEMMA Fields ==
    ASSUME NEW is, NEW m \in Memories(is)
    PROVE  /\ m.tsd \in [KeyNames(is) -> Nat] /\ m.made \in [KeyNames(is) -> Nat]
           /\ m.freed \in [KeyNames(is) -> SUBSET Nat] /\ m.altstack \in Int
  BY DEF Memories

LEMMA MadeFields ==
    ASSUME NEW is, NEW m \in Memories(is), NEW x \in [KeyNames(is) -> Nat], NEW y \in [KeyNames(is) -> Nat]
    PROVE  /\ PutMade(m, x, y) \in Memories(is) /\ PutMade(m, x, y).made = x /\ PutMade(m, x, y).tsd = y
           /\ PutMade(m, x, y).freed = m.freed /\ PutMade(m, x, y).altstack = m.altstack
  BY DEF Memories, PutMade

LEMMA FreedFields ==
    ASSUME NEW is, NEW m \in Memories(is), NEW x \in [KeyNames(is) -> Nat], NEW y \in [KeyNames(is) -> SUBSET Nat]
    PROVE  /\ PutFreed(m, x, y) \in Memories(is) /\ PutFreed(m, x, y).tsd = x /\ PutFreed(m, x, y).freed = y
           /\ PutFreed(m, x, y).made = m.made /\ PutFreed(m, x, y).altstack = m.altstack
  BY DEF Memories, PutFreed

LEMMA AltFields ==
    ASSUME NEW is, NEW m \in Memories(is), NEW a \in Int
    PROVE  /\ PutAlt(m, a) \in Memories(is) /\ PutAlt(m, a).tsd = m.tsd /\ PutAlt(m, a).freed = m.freed
           /\ PutAlt(m, a).made = m.made /\ PutAlt(m, a).altstack = a
  BY DEF Memories, PutAlt

LEMMA MakeFields ==
    ASSUME NEW is, NEW m \in Memories(is), NEW k \in KeyNames(is)
    PROVE  /\ Make(m, k) \in Memories(is)
           /\ Make(m, k).tsd = [m.tsd EXCEPT ![k] = m.made[k] + 1]
           /\ Make(m, k).made = [m.made EXCEPT ![k] = m.made[k] + 1]
           /\ Make(m, k).freed = m.freed /\ Make(m, k).altstack = m.altstack
  <1> DEFINE x == [m.made EXCEPT ![k] = m.made[k] + 1]
             y == [m.tsd EXCEPT ![k] = m.made[k] + 1]
  <1>1. x \in [KeyNames(is) -> Nat] /\ y \in [KeyNames(is) -> Nat]
    BY Fields
  <1>2. Make(m, k) = PutMade(m, x, y)
    BY DEF Make, PutMade
  <1> HIDE DEF x, y
  <1>3. /\ PutMade(m, x, y) \in Memories(is) /\ PutMade(m, x, y).made = x /\ PutMade(m, x, y).tsd = y
        /\ PutMade(m, x, y).freed = m.freed /\ PutMade(m, x, y).altstack = m.altstack
    BY <1>1, MadeFields
  <1> QED
    BY <1>2, <1>3 DEF x, y

LEMMA FreeFields ==
    ASSUME NEW is, NEW m \in Memories(is), NEW k \in KeyNames(is)
    PROVE  /\ Free(m, k) \in Memories(is)
           /\ Free(m, k).tsd = [m.tsd EXCEPT ![k] = 0]
           /\ Free(m, k).freed = [m.freed EXCEPT ![k] = m.freed[k] \cup {m.tsd[k]}]
           /\ Free(m, k).made = m.made /\ Free(m, k).altstack = m.altstack
  <1> DEFINE x == [m.tsd EXCEPT ![k] = 0]
             y == [m.freed EXCEPT ![k] = m.freed[k] \cup {m.tsd[k]}]
  <1>1. /\ m.tsd \in [KeyNames(is) -> Nat] /\ m.freed \in [KeyNames(is) -> SUBSET Nat]
        /\ m.tsd[k] \in Nat /\ m.freed[k] \in SUBSET Nat
    BY Fields
  <1>2. x \in [KeyNames(is) -> Nat]
    BY <1>1
  <1>3. y \in [KeyNames(is) -> SUBSET Nat]
    BY <1>1
  <1>4. Free(m, k) = PutFreed(m, x, y)
    BY DEF Free, PutFreed
  <1> HIDE DEF x, y
  <1>5. /\ PutFreed(m, x, y) \in Memories(is) /\ PutFreed(m, x, y).tsd = x /\ PutFreed(m, x, y).freed = y
        /\ PutFreed(m, x, y).made = m.made /\ PutFreed(m, x, y).altstack = m.altstack
    BY <1>2, <1>3, FreedFields
  <1> QED
    BY <1>4, <1>5 DEF x, y

(* A step that only adds memory.                                           *)
Keeps(is, m, n) == \A k \in KeyNames(is) : m.tsd[k] # 0 => n.tsd[k] = m.tsd[k]

IsMade(m, n, k) ==
    /\ n.tsd = [m.tsd EXCEPT ![k] = m.made[k] + 1] /\ n.made = [m.made EXCEPT ![k] = m.made[k] + 1]
    /\ n.freed = m.freed /\ n.altstack = IF k = "alt" THEN m.made[k] + 1 ELSE m.altstack

LEMMA MakeMem ==
    ASSUME NEW is, NEW m, MemOK(is, m), NEW k \in KeyNames(is), m.tsd[k] = 0,
           NEW n \in Memories(is), IsMade(m, n, k)
    PROVE  /\ MemOK(is, n) /\ n.tsd[k] # 0
           /\ \A j \in KeyNames(is) \ {k} : n.tsd[j] = m.tsd[j]
  <1>1. /\ m \in Memories(is) /\ "alt" \in KeyNames(is)
        /\ m.freed[k] = (1..m.made[k]) \ {m.tsd[k]}
        /\ m.tsd["alt"] # 0 => m.altstack = m.tsd["alt"]
    BY Names DEF MemOK
  <1>2. m.made[k] \in Nat /\ m.tsd \in [KeyNames(is) -> Nat] /\ m.made \in [KeyNames(is) -> Nat]
    BY <1>1, Fields
  <1>3. n.tsd[k] = m.made[k] + 1 /\ n.made[k] = m.made[k] + 1 /\ n.freed[k] = m.freed[k]
    BY <1>2 DEF IsMade
  <1>4. \A j \in KeyNames(is) \ {k} : n.tsd[j] = m.tsd[j] /\ n.made[j] = m.made[j] /\ n.freed[j] = m.freed[j]
    BY <1>2 DEF IsMade
  <1>5. (1..m.made[k]) \ {0} = 1..m.made[k] /\ (1..(m.made[k] + 1)) \ {m.made[k] + 1} = 1..m.made[k]
    BY <1>2, Freed
  <1>6. n.freed[k] = (1..n.made[k]) \ {n.tsd[k]}
    BY <1>1, <1>3, <1>5
  <1>7. n.tsd[k] <= n.made[k] /\ n.tsd[k] # 0
    BY <1>2, <1>3
  <1>8. n.tsd["alt"] # 0 => n.altstack = n.tsd["alt"]
    BY <1>1, <1>3, <1>4 DEF IsMade
  <1>9. MemOK(is, n)
    <2>1. \A j \in KeyNames(is) : n.tsd[j] <= n.made[j] /\ n.freed[j] = (1..n.made[j]) \ {n.tsd[j]}
      BY <1>4, <1>6, <1>7 DEF MemOK
    <2> QED
      BY <1>8, <2>1 DEF MemOK
  <1> QED
    BY <1>4, <1>7, <1>9

LEMMA MakeOther ==
    ASSUME NEW is, NEW m, MemOK(is, m), NEW k \in KeyNames(is), m.tsd[k] = 0, k # "alt"
    PROVE  /\ MemOK(is, Make(m, k)) /\ Make(m, k).tsd[k] # 0
           /\ \A j \in KeyNames(is) \ {k} : Make(m, k).tsd[j] = m.tsd[j]
  <1> DEFINE n == Make(m, k)
  <1>1. m \in Memories(is)
    BY DEF MemOK
  <1>2. n \in Memories(is) /\ IsMade(m, n, k)
    BY <1>1, MakeFields DEF IsMade
  <1> HIDE DEF n
  <1>3. /\ MemOK(is, n) /\ n.tsd[k] # 0
        /\ \A j \in KeyNames(is) \ {k} : n.tsd[j] = m.tsd[j]
    BY <1>2, MakeMem
  <1> QED
    BY <1>3 DEF n

LEMMA AltMem ==
    ASSUME NEW is, NEW m, MemOK(is, m)
    PROVE  /\ MemOK(is, xl_thread_altstack(m)) /\ xl_thread_altstack(m).tsd["alt"] # 0
           /\ \A j \in KeyNames(is) \ {"alt"} : xl_thread_altstack(m).tsd[j] = m.tsd[j]
           /\ m.tsd["alt"] # 0 => xl_thread_altstack(m) = m
  <1>1. CASE m.tsd["alt"] # 0
    BY <1>1 DEF xl_thread_altstack
  <1>2. CASE m.tsd["alt"] = 0
    <2> DEFINE k == "alt"
               a == Make(m, k)
               n == PutAlt(a, a.tsd[k])
    <2>0. m \in Memories(is) /\ k \in KeyNames(is)
      BY Names DEF MemOK
    <2>1. n = xl_thread_altstack(m)
      BY <1>2 DEF xl_thread_altstack, PutAlt
    <2>2. /\ a \in Memories(is) /\ a.tsd = [m.tsd EXCEPT ![k] = m.made[k] + 1]
          /\ a.made = [m.made EXCEPT ![k] = m.made[k] + 1] /\ a.freed = m.freed
      BY <2>0, MakeFields
    <2> HIDE DEF a
    <2>3. a.tsd[k] = m.made[k] + 1 /\ a.tsd[k] \in Int
      BY <2>0, <2>2, Fields
    <2>4. /\ n \in Memories(is) /\ n.tsd = a.tsd /\ n.freed = a.freed
          /\ n.made = a.made /\ n.altstack = a.tsd[k]
      BY <2>2, <2>3, AltFields
    <2> HIDE DEF n
    <2>5. n.altstack = IF k = "alt" THEN m.made[k] + 1 ELSE m.altstack
      BY <2>3, <2>4
    <2>6. IsMade(m, n, k) /\ m.tsd[k] = 0
      BY <1>2, <2>2, <2>4, <2>5 DEF IsMade
    <2> HIDE DEF k
    <2>7. /\ MemOK(is, n) /\ n.tsd[k] # 0
          /\ \A j \in KeyNames(is) \ {k} : n.tsd[j] = m.tsd[j]
      BY <2>0, <2>4, <2>6, MakeMem
    <2> QED
      BY <1>2, <2>1, <2>7 DEF k
  <1> QED
    BY <1>1, <1>2

(* The register block of a thread, found or made.                          *)
LEMMA StateMem ==
    ASSUME NEW is, NEW m, MemOK(is, m)
    PROVE  /\ MemOK(is, xl_current_state(m)) /\ Keeps(is, m, xl_current_state(m))
           /\ xl_current_state(m).tsd["state"] # 0
           /\ m.tsd["state"] = 0 \/ m.tsd["alt"] # 0 => xl_current_state(m).tsd["alt"] # 0
           /\ \A j \in KeyNames(is) \ {"state", "alt"} : xl_current_state(m).tsd[j] = m.tsd[j]
  <1>1. CASE m.tsd["state"] # 0
    BY <1>1 DEF xl_current_state, Keeps
  <1>2. CASE m.tsd["state"] = 0
    <2> DEFINE a == Make(m, "state")
               n == xl_thread_altstack(a)
    <2>1. "state" \in KeyNames(is) /\ "alt" \in KeyNames(is)
      BY Names
    <2>2. MemOK(is, a) /\ a.tsd["state"] # 0 /\ \A j \in KeyNames(is) \ {"state"} : a.tsd[j] = m.tsd[j]
      BY <1>2, <2>1, MakeOther
    <2>3. n = xl_current_state(m)
      BY <1>2 DEF xl_current_state
    <2> HIDE DEF a
    <2>4. /\ MemOK(is, n) /\ n.tsd["alt"] # 0
          /\ \A j \in KeyNames(is) \ {"alt"} : n.tsd[j] = a.tsd[j]
          /\ a.tsd["alt"] # 0 => n = a
      BY <2>2, AltMem
    <2> HIDE DEF n
    <2>5. Keeps(is, m, n)
      BY <1>2, <2>1, <2>2, <2>4 DEF Keeps
    <2>6. n.tsd["state"] # 0
      BY <2>1, <2>2, <2>4
    <2>7. \A j \in KeyNames(is) \ {"state", "alt"} : n.tsd[j] = m.tsd[j]
      BY <2>2, <2>4
    <2> QED
      BY <2>3, <2>4, <2>5, <2>6, <2>7
  <1> QED
    BY <1>1, <1>2

LEMMA HandlerMem ==
    ASSUME NEW is, NEW m, MemOK(is, m)
    PROVE  /\ MemOK(is, StateInHandler(m)) /\ Keeps(is, m, StateInHandler(m))
           /\ \A j \in KeyNames(is) \ {"state", "alt"} : StateInHandler(m).tsd[j] = m.tsd[j]
  <1>1. CASE m.tsd["state"] = 0 /\ m.altstack # 0
    <2>1. "state" \in KeyNames(is) /\ StateInHandler(m) = Make(m, "state")
      BY <1>1, Names DEF StateInHandler
    <2>2. MemOK(is, Make(m, "state")) /\ \A j \in KeyNames(is) \ {"state"} : Make(m, "state").tsd[j] = m.tsd[j]
      BY <1>1, <2>1, MakeOther
    <2>3. Keeps(is, m, Make(m, "state"))
      BY <1>1, <2>2 DEF Keeps
    <2> QED
      BY <2>1, <2>2, <2>3
  <1>2. CASE ~ (m.tsd["state"] = 0 /\ m.altstack # 0)
    BY <1>2, StateMem DEF StateInHandler
  <1> QED
    BY <1>1, <1>2

(* A key destructor gives the block of its key back.                       *)
LEMMA DestroyedMem ==
    ASSUME NEW is, NEW m, MemOK(is, m), NEW k \in KeyNames(is), m.tsd[k] # 0
    PROVE  /\ MemOK(is, Destroyed(m, k)) /\ Destroyed(m, k).tsd[k] = 0
           /\ \A j \in KeyNames(is) \ {k} : Destroyed(m, k).tsd[j] = m.tsd[j]
  <1> DEFINE b == Free(m, k)
             n == Destroyed(m, k)
  <1>0. /\ m \in Memories(is) /\ "alt" \in KeyNames(is)
        /\ m.freed[k] = (1..m.made[k]) \ {m.tsd[k]} /\ m.tsd[k] <= m.made[k]
        /\ m.tsd["alt"] # 0 => m.altstack = m.tsd["alt"]
    BY Names DEF MemOK
  <1>1. /\ m.made[k] \in Nat /\ m.tsd[k] \in Nat
        /\ m.tsd \in [KeyNames(is) -> Nat] /\ m.freed \in [KeyNames(is) -> SUBSET Nat]
    BY <1>0, Fields
  <1>2. /\ b \in Memories(is) /\ b.tsd = [m.tsd EXCEPT ![k] = 0]
        /\ b.freed = [m.freed EXCEPT ![k] = m.freed[k] \cup {m.tsd[k]}]
        /\ b.made = m.made /\ b.altstack = m.altstack
    BY <1>0, FreeFields
  <1>3. n = IF k = "alt" THEN PutAlt(b, 0) ELSE b
    BY DEF Destroyed, xl_state_destroy, xl_altstack_free, PutAlt
  <1> HIDE DEF b
  <1>4. /\ PutAlt(b, 0) \in Memories(is) /\ PutAlt(b, 0).tsd = b.tsd /\ PutAlt(b, 0).freed = b.freed
        /\ PutAlt(b, 0).made = b.made /\ PutAlt(b, 0).altstack = 0
    BY <1>2, AltFields
  <1> HIDE DEF n
  <1>5. /\ n \in Memories(is) /\ n.tsd = b.tsd /\ n.freed = b.freed /\ n.made = b.made
        /\ k # "alt" => n.altstack = b.altstack
    BY <1>2, <1>3, <1>4
  <1>6. n.tsd[k] = 0 /\ n.freed[k] = m.freed[k] \cup {m.tsd[k]} /\ n.made[k] = m.made[k]
    BY <1>1, <1>2, <1>5
  <1>7. \A j \in KeyNames(is) \ {k} : n.tsd[j] = m.tsd[j] /\ n.made[j] = m.made[j] /\ n.freed[j] = m.freed[j]
    BY <1>1, <1>2, <1>5
  <1>8. /\ ((1..m.made[k]) \ {m.tsd[k]}) \cup {m.tsd[k]} = 1..m.made[k]
        /\ (1..m.made[k]) \ {0} = 1..m.made[k]
    BY <1>0, <1>1, Freed
  <1>9. n.freed[k] = (1..n.made[k]) \ {n.tsd[k]}
    BY <1>0, <1>6, <1>8
  <1>10. n.tsd[k] <= n.made[k]
    BY <1>1, <1>6
  <1>11. n.tsd["alt"] # 0 => n.altstack = n.tsd["alt"]
    BY <1>0, <1>2, <1>5, <1>6, <1>7
  <1>12. MemOK(is, n)
    <2>1. \A j \in KeyNames(is) : n.tsd[j] <= n.made[j] /\ n.freed[j] = (1..n.made[j]) \ {n.tsd[j]}
      BY <1>7, <1>9, <1>10 DEF MemOK
    <2> QED
      BY <1>5, <1>11, <2>1 DEF MemOK
  <1> QED
    BY <1>6, <1>7, <1>12 DEF n

----------------------------------------------------------------------------
(* Stacks of frames.                                                       *)

LEMMA FrameKept ==
    ASSUME NEW is, NEW t, NEW m, NEW n, Keeps(is, m, n), NEW f \in Frames(is), FrameOK(is, t, m, f)
    PROVE  FrameOK(is, t, n, f)
  <1> SUFFICES ASSUME f.kind # "exit" PROVE FrameOK(is, t, n, f)
    BY DEF FrameOK
  <1>1. f \in GuestFrames(is)
    BY DEF Frames, ExitFrames
  <1>2. \A x \in f.held : x.key \in KeyNames(is)
    BY <1>1 DEF GuestFrames, Holds
  <1>3. "state" \in KeyNames(is) /\ "alt" \in KeyNames(is)
    BY Names
  <1>4. f.state = n.tsd["state"] /\ f.state # 0 /\ n.tsd["alt"] # 0
    BY <1>3 DEF FrameOK, Keeps
  <1>5. \A x \in f.held : HoldOK(is, n, x)
    BY <1>2 DEF FrameOK, HoldOK, Keeps
  <1> QED
    BY <1>4, <1>5 DEF FrameOK

LEMMA FramesKept ==
    ASSUME NEW is, NEW t, NEW m, NEW n, Keeps(is, m, n), NEW s, FramesOK(is, t, m, s)
    PROVE  FramesOK(is, t, n, s)
  <1>1. s \in Seq(Frames(is)) /\ \A i \in 1..Len(s) : FrameOK(is, t, m, s[i])
    BY DEF FramesOK
  <1>2. \A i \in 1..Len(s) : s[i] \in Frames(is)
    BY <1>1, StackElements
  <1>3. \A i \in 1..Len(s) : FrameOK(is, t, n, s[i])
    BY <1>1, <1>2, FrameKept
  <1> QED
    BY <1>1, <1>3 DEF FramesOK

LEMMA FramesPushed ==
    ASSUME NEW is, NEW t, NEW m, NEW s, FramesOK(is, t, m, s), NEW f \in Frames(is), FrameOK(is, t, m, f)
    PROVE  FramesOK(is, t, m, Append(s, f)) /\ Append(s, f) # <<>>
  <1>1. s \in Seq(Frames(is)) /\ Len(s) \in Nat /\ \A i \in 1..Len(s) : FrameOK(is, t, m, s[i])
    BY StackElements DEF FramesOK
  <1> DEFINE r == Append(s, f)
  <1>2. /\ r \in Seq(Frames(is)) /\ Len(r) = Len(s) + 1 /\ r # <<>>
        /\ r[Len(s) + 1] = f
        /\ \A i \in 1..Len(s) : r[i] = s[i]
    BY <1>1, Pushed
  <1> HIDE DEF r
  <1>3. \A i \in 1..Len(r) : FrameOK(is, t, m, r[i])
    <2> SUFFICES ASSUME NEW i \in 1..Len(r) PROVE FrameOK(is, t, m, r[i])
      OBVIOUS
    <2>1. i \in 1..Len(s) \/ i = Len(s) + 1
      BY <1>1, <1>2
    <2> QED
      BY <1>1, <1>2, <2>1
  <1> QED
    BY <1>2, <1>3 DEF FramesOK, r

LEMMA FramesPopped ==
    ASSUME NEW is, NEW t, NEW m, NEW s, FramesOK(is, t, m, s), s # <<>>
    PROVE  FramesOK(is, t, m, Front(s))
  <1>1. s \in Seq(Frames(is)) /\ Len(s) \in Nat /\ \A i \in 1..Len(s) : FrameOK(is, t, m, s[i])
    BY StackElements DEF FramesOK
  <1>2. Front(s) = Popped(s)
    BY DEF Front, Popped
  <1>3. /\ Popped(s) \in Seq(Frames(is)) /\ Len(Popped(s)) = Len(s) - 1
        /\ Popped(s) = <<>> <=> Len(s) = 1
        /\ \A i \in 1..(Len(s) - 1) : Popped(s)[i] = s[i]
    BY <1>1, TopPopped
  <1>4. \A i \in 1..Len(Popped(s)) : FrameOK(is, t, m, Popped(s)[i])
    BY <1>1, <1>3
  <1> QED
    BY <1>2, <1>3, <1>4 DEF FramesOK

LEMMA FramesEmpty ==
    ASSUME NEW is, NEW t, NEW m
    PROVE  FramesOK(is, t, m, <<>>)
  BY DEF FramesOK

(* The innermost frame is edited in place.                                 *)
Edited(s, f) == [s EXCEPT ![Len(s)] = f]

LEMMA FramesEdited ==
    ASSUME NEW is, NEW t, NEW m, NEW s, FramesOK(is, t, m, s), s # <<>>, NEW f \in Frames(is), FrameOK(is, t, m, f)
    PROVE  FramesOK(is, t, m, Edited(s, f)) /\ Edited(s, f) # <<>>
  <1>1. s \in Seq(Frames(is)) /\ Len(s) \in Nat /\ Len(s) # 0 /\ \A i \in 1..Len(s) : FrameOK(is, t, m, s[i])
    BY StackElements DEF FramesOK
  <1> DEFINE r == Edited(s, f)
             n == Len(s)
  <1>2. /\ r \in Seq(Frames(is)) /\ Len(r) = n
        /\ \A j \in 1..n : r[j] = IF j = n THEN f ELSE s[j]
    <2>1. n \in 1..Len(s)
      BY <1>1
    <2> HIDE DEF n
    <2>2. /\ [s EXCEPT ![n] = f] \in Seq(Frames(is))
          /\ Len([s EXCEPT ![n] = f]) = Len(s)
          /\ \A j \in 1..Len(s) : [s EXCEPT ![n] = f][j] = IF j = n THEN f ELSE s[j]
      BY <1>1, <2>1, ExceptSeq
    <2> QED
      BY <2>2 DEF Edited, n
  <1> HIDE DEF r
  <1>3. r # <<>>
    BY <1>1, <1>2, StackElements
  <1>4. \A i \in 1..Len(r) : FrameOK(is, t, m, r[i])
    BY <1>1, <1>2
  <1> QED
    BY <1>2, <1>3, <1>4 DEF FramesOK, r

LEMMA TopFrame ==
    ASSUME NEW is, NEW t, NEW m, NEW s, FramesOK(is, t, m, s), s # <<>>
    PROVE  Last(s) \in Frames(is) /\ FrameOK(is, t, m, Last(s))
  <1>1. s \in Seq(Frames(is)) /\ Len(s) \in 1..Len(s) /\ \A i \in 1..Len(s) : FrameOK(is, t, m, s[i])
    BY StackElements DEF FramesOK
  <1> QED
    BY <1>1, StackElements DEF Last

LEMMA NewGuestFrame ==
    ASSUME NEW is, NEW t, NEW m, MemOK(is, m), m.tsd["state"] # 0, m.tsd["alt"] # 0,
           NEW kind \in {"init", "entry", "thread", "callback", "key", "dtor"}, kind = "thread" => t # Main
    PROVE  GuestFrame(kind, m) \in Frames(is) /\ FrameOK(is, t, m, GuestFrame(kind, m))
  <1>1. m.tsd["state"] \in Nat
    BY Names, Fields DEF MemOK
  <1>2. GuestFrame(kind, m) \in GuestFrames(is)
    BY <1>1 DEF GuestFrame, GuestFrames
  <1> QED
    BY <1>2 DEF GuestFrame, FrameOK, Frames

LEMMA NewExitFrame ==
    ASSUME NEW is, NEW t, NEW m
    PROVE  ExitCall \in Frames(is) /\ FrameOK(is, t, m, ExitCall)
  BY DEF ExitCall, Frames, ExitFrames, FrameOK

LEMMA ExitFrame ==
    ASSUME NEW is, NEW t, NEW m, NEW f \in ExitFrames
    PROVE  f \in Frames(is) /\ FrameOK(is, t, m, f)
  BY DEF Frames, ExitFrames, FrameOK

----------------------------------------------------------------------------
(* The keys of the process.                                                *)

(* Keys are added at the end, and only new ones.                           *)
Grow(ks, kt) ==
    /\ Len(ks) <= Len(kt) /\ \A i \in 1..Len(ks) : kt[i] = ks[i]
    /\ \A i \in 1..Len(kt) : i > Len(ks) => kt[i] \notin Range(ks)

LEMMA RangeOf ==
    ASSUME NEW S, NEW s \in Seq(S)
    PROVE  /\ Range(s) = {s[i] : i \in 1..Len(s)}
           /\ \A x : x \in Range(s) <=> \E i \in 1..Len(s) : s[i] = x
  BY LenProperties DEF Range

LEMMA SameKeys ==
    ASSUME NEW is, NEW ks, KeysOK(is, ks)
    PROVE  Grow(ks, ks)
  <1>1. Len(ks) \in Nat
    BY StackElements DEF KeysOK
  <1> QED
    BY <1>1 DEF Grow

LEMMA KeysAdded ==
    ASSUME NEW is, NEW ks \in Seq(KeyNames(is)), NEW new \in Seq(KeyNames(is)), Range(new) \cap Range(ks) = {}
    PROVE  /\ ks \o new \in Seq(KeyNames(is)) /\ Len(ks \o new) = Len(ks) + Len(new)
           /\ Grow(ks, ks \o new)
           /\ Range(ks \o new) = Range(ks) \cup Range(new)
           /\ \A i \in 1..Len(ks \o new) : i > Len(ks) => (ks \o new)[i] \in Range(new)
  <1> DEFINE r == ks \o new
  <1>1. /\ r \in Seq(KeyNames(is)) /\ Len(r) = Len(ks) + Len(new)
        /\ \A i \in 1..(Len(ks) + Len(new)) : r[i] = IF i <= Len(ks) THEN ks[i] ELSE new[i - Len(ks)]
    BY ConcatProperties
  <1> HIDE DEF r
  <1>2. Len(ks) \in Nat /\ Len(new) \in Nat
    BY StackElements
  <1>3. \A i \in 1..Len(ks) : r[i] = ks[i]
    BY <1>1, <1>2
  <1>4. \A i \in 1..Len(r) : i > Len(ks) => i - Len(ks) \in 1..Len(new) /\ r[i] = new[i - Len(ks)]
    BY <1>1, <1>2
  <1>5. \A i \in 1..Len(r) : i > Len(ks) => r[i] \in Range(new)
    BY <1>4, RangeOf
  <1>6. \A i \in 1..Len(r) : i > Len(ks) => r[i] \notin Range(ks)
    BY <1>5
  <1>7. Range(r) \subseteq Range(ks) \cup Range(new)
    <2> SUFFICES ASSUME NEW x \in Range(r) PROVE x \in Range(ks) \cup Range(new)
      OBVIOUS
    <2>1. PICK i \in 1..Len(r) : r[i] = x
      BY <1>1, RangeOf
    <2>2. CASE i > Len(ks)
      BY <1>5, <2>1, <2>2
    <2>3. CASE ~ i > Len(ks)
      <3>1. i \in 1..Len(ks) /\ ks[i] = x
        BY <1>1, <1>2, <1>3, <2>1, <2>3
      <3> QED
        BY <3>1, RangeOf
    <2> QED
      BY <2>2, <2>3
  <1>8. Range(ks) \subseteq Range(r)
    <2> SUFFICES ASSUME NEW x \in Range(ks) PROVE x \in Range(r)
      OBVIOUS
    <2>1. PICK i \in 1..Len(ks) : ks[i] = x
      BY RangeOf
    <2>2. i \in 1..Len(r) /\ r[i] = x
      BY <1>1, <1>2, <1>3, <2>1
    <2> QED
      BY <1>1, <2>2, RangeOf
  <1>9. Range(new) \subseteq Range(r)
    <2> SUFFICES ASSUME NEW x \in Range(new) PROVE x \in Range(r)
      OBVIOUS
    <2>1. PICK i \in 1..Len(new) : new[i] = x
      BY RangeOf
    <2>2. i + Len(ks) \in 1..Len(r) /\ i + Len(ks) > Len(ks) /\ (i + Len(ks)) - Len(ks) = i
      BY <1>1, <1>2
    <2>3. r[i + Len(ks)] = x
      BY <1>4, <2>1, <2>2
    <2> QED
      BY <1>1, <2>2, <2>3, RangeOf
  <1>10. Grow(ks, r)
    BY <1>1, <1>2, <1>3, <1>6 DEF Grow
  <1> QED
    BY <1>1, <1>5, <1>7, <1>8, <1>9, <1>10 DEF r

(* The keys of the register block and of the alternate stack.              *)
LEMMA StateKeys ==
    ASSUME NEW is, RegionsOK(is), NEW ks, KeysOK(is, ks)
    PROVE  LET kt == Create(ks, <<"state", "alt">>)
           IN  KeysOK(is, kt) /\ Grow(ks, kt) /\ "state" \in Range(kt) /\ "alt" \in Range(kt)
  <1> DEFINE new == <<"state", "alt">>
  <1>0. ks \in Seq(KeyNames(is)) /\ "state" \in KeyNames(is) /\ "alt" \in KeyNames(is)
    BY Names DEF KeysOK
  <1>1. new \in Seq(KeyNames(is)) /\ Len(new) = 2 /\ new[1] = "state" /\ new[2] = "alt"
    BY <1>0
  <1> HIDE DEF new
  <1>2. Range(new) = {"state", "alt"}
    <2>1. \A x : x \in Range(new) <=> \E i \in 1..2 : new[i] = x
      BY <1>1, RangeOf
    <2>2. 1..2 = {1, 2}
      OBVIOUS
    <2> QED
      BY <1>1, <2>1, <2>2
  <1>3. CASE ks = <<>>
    <2>1. Range(ks) = {} /\ ks \o new = new /\ Create(ks, new) = new
      <3>1. Range(ks) = {}
        BY <1>3 DEF Range
      <3>2. ks \o new = new
        BY <1>1, <1>3, ConcatEmptySeq
      <3> QED
        BY <1>2, <3>1, <3>2 DEF Create
    <2>2. Grow(ks, new)
      <3>1. Len(ks) = 0
        BY <1>3
      <3> QED
        BY <1>1, <2>1, <3>1 DEF Grow
    <2>3. RegionKeys(is) \cap Range(new) = {}
      BY <1>2, Names
    <2>4. KeysOK(is, new)
      BY <1>1, <2>3 DEF KeysOK
    <2> QED
      BY <1>2, <2>1, <2>2, <2>4 DEF new
  <1>4. CASE ks # <<>>
    <2>1. Len(ks) \in Nat /\ Len(ks) >= 2 /\ ks[1] = "state" /\ ks[2] = "alt"
      BY <1>0, <1>4, StackElements DEF KeysOK
    <2>2. "state" \in Range(ks) /\ "alt" \in Range(ks)
      <3>1. 1 \in 1..Len(ks) /\ 2 \in 1..Len(ks)
        BY <2>1
      <3> QED
        BY <1>0, <2>1, <3>1, RangeOf
    <2>3. Create(ks, new) = ks
      BY <1>2, <2>2 DEF Create
    <2>4. Grow(ks, ks)
      BY SameKeys
    <2> QED
      BY <2>2, <2>3, <2>4 DEF new
  <1> QED
    BY <1>3, <1>4

(* Keys of the guest's and of the thread-local regions: by then the others *)
(* are there.                                                              *)
LEMMA OtherKeys ==
    ASSUME NEW is, RegionsOK(is), NEW ks, KeysOK(is, ks), ks # <<>>,
           NEW new \in Seq(KeyNames(is)), Range(new) = {"guest"} \/ Range(new) = RegionKeys(is)
    PROVE  LET kt == Create(ks, new)
           IN  KeysOK(is, kt) /\ Grow(ks, kt) /\ Range(new) \subseteq Range(kt)
  <1>0. ks \in Seq(KeyNames(is)) /\ RegionKeys(is) \cap {"state", "alt", "guest"} = {}
    BY Names DEF KeysOK
  <1>1. CASE Range(new) \subseteq Range(ks)
    BY <1>1, SameKeys DEF Create
  <1>2. CASE ~ Range(new) \subseteq Range(ks)
    <2>1. Range(new) \cap Range(ks) = {}
      BY <1>2 DEF KeysOK
    <2> DEFINE kt == ks \o new
    <2>2. kt = Create(ks, new)
      BY <1>2 DEF Create
    <2>3. /\ kt \in Seq(KeyNames(is)) /\ Len(kt) = Len(ks) + Len(new)
          /\ Grow(ks, kt)
          /\ Range(kt) = Range(ks) \cup Range(new)
          /\ \A i \in 1..Len(kt) : i > Len(ks) => kt[i] \in Range(new)
      BY <1>0, <2>1, KeysAdded
    <2> HIDE DEF kt
    <2>4. Len(ks) \in Nat /\ Len(new) \in Nat /\ Len(ks) >= 2 /\ ks[1] = "state" /\ ks[2] = "alt"
      BY <1>0, StackElements DEF KeysOK
    <2>5. Len(kt) >= 2 /\ kt[1] = "state" /\ kt[2] = "alt"
      BY <2>3, <2>4 DEF Grow
    <2>6. \A i \in 3..Len(kt) : kt[i] \notin {"state", "alt"}
      <3> SUFFICES ASSUME NEW i \in 3..Len(kt) PROVE kt[i] \notin {"state", "alt"}
        OBVIOUS
      <3>1. CASE i > Len(ks)
        <4>1. kt[i] \in Range(new)
          BY <2>3, <2>4, <3>1
        <4> QED
          BY <1>0, <4>1
      <3>2. CASE ~ i > Len(ks)
        <4>1. i \in 3..Len(ks) /\ kt[i] = ks[i]
          BY <2>3, <2>4, <3>2 DEF Grow
        <4> QED
          BY <4>1 DEF KeysOK
      <3> QED
        BY <3>1, <3>2
    <2>7. RegionKeys(is) \subseteq Range(kt) \/ RegionKeys(is) \cap Range(kt) = {}
      BY <1>0, <2>3 DEF KeysOK
    <2>8. KeysOK(is, kt)
      BY <2>3, <2>5, <2>6, <2>7 DEF KeysOK
    <2> QED
      BY <2>2, <2>3, <2>8
  <1> QED
    BY <1>1, <1>2

LEMMA HungGrows ==
    ASSUME NEW is, NEW m, NEW ks, KeysOK(is, ks), Hung(is, m, ks), NEW kt, KeysOK(is, kt), Grow(ks, kt)
    PROVE  Hung(is, m, kt)
  <1> SUFFICES ASSUME NEW x \in Range(ks) PROVE x \in Range(kt)
    BY DEF Hung
  <1>1. ks \in Seq(KeyNames(is)) /\ kt \in Seq(KeyNames(is)) /\ Len(ks) \in Nat /\ Len(kt) \in Nat
    BY StackElements DEF KeysOK
  <1>2. PICK i \in 1..Len(ks) : ks[i] = x
    BY <1>1, RangeOf
  <1>3. i \in 1..Len(kt) /\ kt[i] = x
    BY <1>1, <1>2 DEF Grow
  <1> QED
    BY <1>1, <1>3, RangeOf

----------------------------------------------------------------------------
(* Threads.                                                                *)

(* A thread that is not in the middle of ending can do what it likes.      *)
LEMMA BusyThread ==
    ASSUME NEW is, NEW t, NEW m, NEW s, NEW h, NEW l, NEW c, NEW ks, NEW lt,
           ThreadOK(is, t, m, s, h, l, c, ks, lt), s # <<>> \/ h # <<>> \/ l = "running",
           NEW n, MemOK(is, n), NEW kt, Hung(is, n, kt), NEW s2, FramesOK(is, t, n, s2),
           NEW h2 \in Seq(Handlers), NEW l2 \in {l, "ending"}, t = Main => l2 = "running",
           h2 = <<>> /\ n.tsd["state"] # 0 => n.tsd["alt"] # 0,
           h2 # <<>> => s2 # <<>> \/ l2 = "running"
    PROVE  ThreadOK(is, t, n, s2, h2, l2, c, kt, lt)
  <1>1. /\ EndOK(t, m, s, h, l, c, ks, lt) /\ c \in Cleanups
        /\ l \in {"no", "running", "ending", "gone"}
        /\ l \in {"no", "gone"} => h = <<>> /\ s = <<>>
        /\ h # <<>> => s # <<>> \/ l = "running"
    BY DEF ThreadOK
  <1>2. l = "running" \/ (l = "ending" /\ s # <<>>)
    BY <1>1
  <1>3. EndOK(t, n, s2, h2, l2, c, kt, lt)
    <2>1. FirstRound.at = 1
      BY DEF FirstRound
    <2>2. ~ c.again => c.at = 1
      BY <1>1 DEF EndOK
    <2>3. l = "running" => c = FirstRound
      BY <1>1 DEF EndOK
    <2>4. c.at # 2
      BY <1>1, <1>2, <2>1, <2>3 DEF EndOK
    <2>5. c.round = Rounds /\ t \notin lt => c.at = 1
      BY <1>1, <1>2, <2>1, <2>3 DEF EndOK
    <2>6. l2 \in {"no", "running"} => c = FirstRound
      BY <1>2, <2>3
    <2>7. l2 # "gone"
      BY <1>2
    <2> QED
      BY <2>2, <2>4, <2>5, <2>6, <2>7 DEF EndOK
  <1>4. l2 \in {"running", "ending"}
    BY <1>2
  <1> QED
    BY <1>1, <1>3, <1>4 DEF ThreadOK

(* A thread that starts, or that has not looked at its keys.               *)
LEMMA FirstThread ==
    ASSUME NEW is, NEW t, NEW lt, NEW n, MemOK(is, n), NEW kt, Hung(is, n, kt),
           NEW s2, FramesOK(is, t, n, s2),
           NEW l2 \in {"running", "ending"}, t = Main => l2 = "running",
           n.tsd["state"] # 0 => n.tsd["alt"] # 0,
           NEW c \in Cleanups, c.at = 1, l2 = "running" => c = FirstRound
    PROVE  ThreadOK(is, t, n, s2, <<>>, l2, c, kt, lt)
  <1>1. EndOK(t, n, s2, <<>>, l2, c, kt, lt)
    BY DEF EndOK
  <1>2. <<>> \in Seq(Handlers)
    OBVIOUS
  <1> QED
    BY <1>1, <1>2 DEF ThreadOK

LEMMA FirstRoundOK == FirstRound \in Cleanups /\ FirstRound.at = 1
  BY BoundsAssumption DEF FirstRound, Cleanups

(* What other threads do to one: keys are created.                         *)
LEMMA OtherThread ==
    ASSUME NEW is, NEW t, NEW m, NEW s, NEW h, NEW l, NEW c, NEW ks, NEW lt,
           ThreadOK(is, t, m, s, h, l, c, ks, lt), KeysOK(is, ks),
           NEW kt, KeysOK(is, kt), Grow(ks, kt), NEW l2, t \in lt <=> t \in l2
    PROVE  ThreadOK(is, t, m, s, h, l, c, kt, l2)
  <1>1. MemOK(is, m) /\ Hung(is, m, ks) /\ EndOK(t, m, s, h, l, c, ks, lt) /\ c \in Cleanups
    BY DEF ThreadOK
  <1>2. Hung(is, m, kt)
    BY <1>1, HungGrows
  <1>3. /\ ks \in Seq(KeyNames(is)) /\ kt \in Seq(KeyNames(is)) /\ Len(ks) \in Nat /\ Len(kt) \in Nat
        /\ \A j \in 1..Len(kt) : kt[j] \in KeyNames(is)
    BY StackElements DEF KeysOK
  <1>4. ASSUME \A j \in 1..Len(ks) : j < c.at => m.tsd[ks[j]] = 0
        PROVE  \A j \in 1..Len(kt) : j < c.at => m.tsd[kt[j]] = 0
    <2> SUFFICES ASSUME NEW j \in 1..Len(kt), j < c.at PROVE m.tsd[kt[j]] = 0
      OBVIOUS
    <2>1. CASE j > Len(ks)
      <3>1. kt[j] \notin Range(ks) /\ kt[j] \in KeyNames(is)
        BY <1>3, <2>1 DEF Grow
      <3> QED
        BY <1>1, <3>1 DEF Hung
    <2>2. CASE ~ j > Len(ks)
      <3>1. j \in 1..Len(ks) /\ kt[j] = ks[j]
        BY <1>3, <2>2 DEF Grow
      <3> QED
        BY <1>4, <3>1
    <2> QED
      BY <2>1, <2>2
  <1>5. EndOK(t, m, s, h, l, c, kt, l2)
    BY <1>1, <1>4 DEF EndOK
  <1> QED
    BY <1>2, <1>5 DEF ThreadOK

(* A table changes at one thread, or not at all.                           *)
Sets(f, g, t, v) == g = [f EXCEPT ![t] = v]

LEMMA SetsSame ==
    ASSUME NEW X, NEW f \in [Threads -> X], NEW g, NEW t \in Threads, g = f
    PROVE  Sets(f, g, t, f[t])
  BY DEF Sets

(* A step of one thread.                                                   *)
LEMMA ThreadStep ==
    ASSUME NEW is, IInv(is), NEW t \in Threads, UNCHANGED images,
           NEW n, NEW s, NEW h, NEW l, NEW c,
           Sets(mem, mem', t, n), Sets(stack, stack', t, s), Sets(handler, handler', t, h),
           Sets(live, live', t, l), Sets(cleanup, cleanup', t, c),
           late' = late \/ late' = late \cup {t},
           KeysOK(is, keys'), Grow(keys, keys'),
           ThreadOK(is, t, n, s, h, l, c, keys', late')
    PROVE  IInv(is)'
  <1>1. /\ mem \in [Threads -> Memories(is)] /\ stack \in [Threads -> Seq(Frames(is))]
        /\ handler \in [Threads -> Seq(Handlers)] /\ cleanup \in [Threads -> Cleanups]
        /\ live \in [Threads -> {"no", "running", "ending", "gone"}]
    BY DEF IInv, Tables
  <1>2. /\ n \in Memories(is) /\ s \in Seq(Frames(is)) /\ h \in Seq(Handlers) /\ c \in Cleanups
        /\ l \in {"no", "running", "ending", "gone"}
    BY DEF ThreadOK, MemOK, FramesOK
  <1>3. mem' \in [Threads -> Memories(is)] /\ mem'[t] = n /\ \A u \in Threads \ {t} : mem'[u] = mem[u]
    BY <1>1, <1>2 DEF Sets
  <1>4. stack' \in [Threads -> Seq(Frames(is))] /\ stack'[t] = s /\ \A u \in Threads \ {t} : stack'[u] = stack[u]
    BY <1>1, <1>2 DEF Sets
  <1>5. handler' \in [Threads -> Seq(Handlers)] /\ handler'[t] = h /\ \A u \in Threads \ {t} : handler'[u] = handler[u]
    BY <1>1, <1>2 DEF Sets
  <1>6. cleanup' \in [Threads -> Cleanups] /\ cleanup'[t] = c /\ \A u \in Threads \ {t} : cleanup'[u] = cleanup[u]
    BY <1>1, <1>2 DEF Sets
  <1>7. /\ live' \in [Threads -> {"no", "running", "ending", "gone"}]
        /\ live'[t] = l /\ \A u \in Threads \ {t} : live'[u] = live[u]
    BY <1>1, <1>2 DEF Sets
  <1>8. ASSUME NEW u \in Threads
        PROVE  ThreadOK(is, u, mem'[u], stack'[u], handler'[u], live'[u], cleanup'[u], keys', late')
    <2>1. CASE u = t
      BY <1>3, <1>4, <1>5, <1>6, <1>7, <2>1
    <2>2. CASE u # t
      <3>1. ThreadOK(is, u, mem[u], stack[u], handler[u], live[u], cleanup[u], keys, late) /\ KeysOK(is, keys)
        BY DEF IInv
      <3>2. u \in late <=> u \in late'
        BY <2>2
      <3>3. ThreadOK(is, u, mem[u], stack[u], handler[u], live[u], cleanup[u], keys', late')
        BY <3>1, <3>2, OtherThread
      <3>4. u \in Threads \ {t}
        BY <2>2
      <3> QED
        BY <1>3, <1>4, <1>5, <1>6, <1>7, <3>3, <3>4
    <2> QED
      BY <2>1, <2>2
  <1>9. Tables(is)'
    BY <1>3, <1>4, <1>5, <1>6, <1>7 DEF Tables
  <1> QED
    BY <1>8, <1>9 DEF IInv

(* A step that changes nothing the invariant is about.                     *)
LEMMA Stutter ==
    ASSUME NEW is, IInv(is), UNCHANGED <<images, mem, stack, handler, live, cleanup, keys, late>>
    PROVE  IInv(is)'
  <1>1. Tables(is)'
    BY DEF IInv, Tables
  <1> QED
    BY <1>1 DEF IInv

----------------------------------------------------------------------------
(* Steps of a thread.                                                      *)

LEMMA ThreadFacts ==
    ASSUME NEW is, IInv(is), NEW t \in Threads
    PROVE  /\ ThreadOK(is, t, mem[t], stack[t], handler[t], live[t], cleanup[t], keys, late)
           /\ KeysOK(is, keys) /\ images = is
           /\ MemOK(is, mem[t]) /\ Hung(is, mem[t], keys) /\ FramesOK(is, t, mem[t], stack[t])
           /\ handler[t] \in Seq(Handlers) /\ cleanup[t] \in Cleanups
           /\ handler[t] = <<>> /\ mem[t].tsd["state"] # 0 => mem[t].tsd["alt"] # 0
           /\ t = Main => live[t] = "running"
  <1>1. /\ ThreadOK(is, t, mem[t], stack[t], handler[t], live[t], cleanup[t], keys, late)
        /\ KeysOK(is, keys) /\ images = is
    BY DEF IInv
  <1> QED
    BY <1>1 DEF ThreadOK

LEMMA Unchanged ==
    ASSUME NEW is, IInv(is), NEW t \in Threads
    PROVE  /\ UNCHANGED mem => Sets(mem, mem', t, mem[t])
           /\ UNCHANGED stack => Sets(stack, stack', t, stack[t])
           /\ UNCHANGED handler => Sets(handler, handler', t, handler[t])
           /\ UNCHANGED live => Sets(live, live', t, live[t])
           /\ UNCHANGED cleanup => Sets(cleanup, cleanup', t, cleanup[t])
  <1>1. /\ mem \in [Threads -> Memories(is)] /\ stack \in [Threads -> Seq(Frames(is))]
        /\ handler \in [Threads -> Seq(Handlers)] /\ cleanup \in [Threads -> Cleanups]
        /\ live \in [Threads -> {"no", "running", "ending", "gone"}]
    BY DEF IInv, Tables
  <1> QED
    BY <1>1, SetsSame

(* A step of a thread that runs, is in a frame or in a handler.            *)
LEMMA BusyStep ==
    ASSUME NEW is, IInv(is), NEW t \in Threads, UNCHANGED <<images, cleanup, late>>,
           stack[t] # <<>> \/ handler[t] # <<>> \/ live[t] = "running",
           NEW n, NEW s, NEW h \in Seq(Handlers), NEW l \in {live[t], "ending"}, t = Main => l = "running",
           Sets(mem, mem', t, n), Sets(stack, stack', t, s), Sets(handler, handler', t, h), Sets(live, live', t, l),
           KeysOK(is, keys'), Grow(keys, keys'),
           MemOK(is, n), Hung(is, n, keys'), FramesOK(is, t, n, s),
           h = <<>> /\ n.tsd["state"] # 0 => n.tsd["alt"] # 0,
           h # <<>> => s # <<>> \/ l = "running"
    PROVE  IInv(is)'
  <1>1. ThreadOK(is, t, mem[t], stack[t], handler[t], live[t], cleanup[t], keys, late)
    BY ThreadFacts
  <1>2. ThreadOK(is, t, n, s, h, l, cleanup[t], keys', late)
    BY <1>1, BusyThread
  <1>3. Sets(cleanup, cleanup', t, cleanup[t])
    BY Unchanged
  <1> QED
    BY <1>2, <1>3, ThreadStep

(* The register block of a thread, found or made, with its key.            *)
EntersOK(is, t, s, n, ks, kt) ==
    /\ MemOK(is, n) /\ Hung(is, n, kt) /\ FramesOK(is, t, n, s)
    /\ n.tsd["state"] # 0 /\ n.tsd["alt"] # 0
    /\ KeysOK(is, kt) /\ Grow(ks, kt)

LEMMA HungState ==
    ASSUME NEW is, NEW m, NEW ks, KeysOK(is, ks), Hung(is, m, ks), NEW kt, KeysOK(is, kt), Grow(ks, kt),
           "state" \in Range(kt), "alt" \in Range(kt),
           NEW n, \A j \in KeyNames(is) \ {"state", "alt"} : n.tsd[j] = m.tsd[j]
    PROVE  Hung(is, n, kt)
  <1>1. Hung(is, m, kt)
    BY HungGrows
  <1> QED
    BY <1>1 DEF Hung

LEMMA Current ==
    ASSUME NEW is, RegionsOK(is), NEW t, NEW m, MemOK(is, m), NEW s, FramesOK(is, t, m, s),
           NEW ks, KeysOK(is, ks), Hung(is, m, ks), m.tsd["state"] # 0 => m.tsd["alt"] # 0
    PROVE  EntersOK(is, t, s, xl_current_state(m), ks, Create(ks, <<"state", "alt">>))
  <1> DEFINE n == xl_current_state(m)
             kt == Create(ks, <<"state", "alt">>)
  <1>1. /\ MemOK(is, n) /\ Keeps(is, m, n)
        /\ n.tsd["state"] # 0
        /\ m.tsd["state"] = 0 \/ m.tsd["alt"] # 0 => n.tsd["alt"] # 0
        /\ \A j \in KeyNames(is) \ {"state", "alt"} : n.tsd[j] = m.tsd[j]
    BY StateMem
  <1>2. KeysOK(is, kt) /\ Grow(ks, kt) /\ "state" \in Range(kt) /\ "alt" \in Range(kt)
    BY StateKeys
  <1> HIDE DEF n, kt
  <1>3. FramesOK(is, t, n, s)
    BY <1>1, FramesKept
  <1>4. Hung(is, n, kt)
    BY <1>1, <1>2, HungState
  <1>5. EntersOK(is, t, s, n, ks, kt)
    BY <1>1, <1>2, <1>3, <1>4 DEF EntersOK
  <1> QED
    BY <1>5 DEF n, kt

Kinds == {"init", "entry", "thread", "callback", "key", "dtor"}

LEMMA Invoked ==
    ASSUME NEW is, RegionsOK(is), NEW t, NEW m, MemOK(is, m), NEW s, FramesOK(is, t, m, s),
           NEW ks, KeysOK(is, ks), Hung(is, m, ks), m.tsd["state"] # 0 => m.tsd["alt"] # 0,
           NEW kind \in Kinds, kind = "thread" => t # Main
    PROVE  /\ EntersOK(is, t, Append(s, GuestFrame(kind, xl_current_state(m))), xl_current_state(m),
                       ks, Create(ks, <<"state", "alt">>))
           /\ Append(s, GuestFrame(kind, xl_current_state(m))) # <<>>
  <1> DEFINE n == xl_current_state(m)
             kt == Create(ks, <<"state", "alt">>)
             f == GuestFrame(kind, n)
  <1>1. EntersOK(is, t, s, n, ks, kt)
    BY Current
  <1> HIDE DEF n, kt
  <1>2. f \in Frames(is) /\ FrameOK(is, t, n, f)
    BY <1>1, NewGuestFrame DEF EntersOK, Kinds
  <1> HIDE DEF f
  <1>3. FramesOK(is, t, n, Append(s, f)) /\ Append(s, f) # <<>>
    BY <1>1, <1>2, FramesPushed DEF EntersOK
  <1>4. EntersOK(is, t, Append(s, f), n, ks, kt)
    BY <1>1, <1>3 DEF EntersOK
  <1> QED
    BY <1>3, <1>4 DEF n, kt, f

LEMMA InvokeStep ==
    ASSUME NEW is, RegionsOK(is), IInv(is), NEW t \in Threads, NEW kind \in Kinds \ {"thread"},
           xl_invoke(t, kind, mem[t]), handler[t] = <<>>, stack[t] # <<>> \/ live[t] = "running",
           UNCHANGED <<images, live, cleanup, late, handler>>
    PROVE  IInv(is)'
  <1> DEFINE n == xl_current_state(mem[t])
             s == Append(stack[t], GuestFrame(kind, n))
  <1>1. Sets(mem, mem', t, n) /\ Sets(stack, stack', t, s) /\ keys' = Create(keys, <<"state", "alt">>)
    BY DEF xl_invoke, Sets
  <1>2. EntersOK(is, t, s, n, keys, Create(keys, <<"state", "alt">>)) /\ s # <<>>
    BY ThreadFacts, Invoked
  <1> HIDE DEF n, s
  <1>3. MemOK(is, n) /\ Hung(is, n, keys') /\ FramesOK(is, t, n, s) /\ KeysOK(is, keys') /\ Grow(keys, keys')
    BY <1>1, <1>2 DEF EntersOK
  <1>4. n.tsd["alt"] # 0
    BY <1>2 DEF EntersOK
  <1>5. Sets(handler, handler', t, handler[t]) /\ Sets(live, live', t, live[t])
    BY Unchanged
  <1>6. handler[t] \in Seq(Handlers) /\ (t = Main => live[t] = "running") /\ live[t] \in {live[t], "ending"}
    BY ThreadFacts
  <1> QED
    BY <1>1, <1>3, <1>4, <1>5, <1>6, BusyStep

(* A signal is delivered, or a handler goes on.                            *)
Signals == {"segv", "term", "abrt"}

LEMMA Delivered ==
    ASSUME NEW is, IInv(is), NEW t \in Threads, NEW signal \in Signals, Deliver(t, signal)
    PROVE  \E h \in Seq(Handlers) : Sets(handler, handler', t, h) /\ (handler[t] # <<>> => h # <<>>)
  <1>1. handler[t] \in Seq(Handlers)
    BY ThreadFacts
  <1>2. CASE UNCHANGED handler
    BY <1>1, <1>2, Unchanged
  <1>3. CASE ~ UNCHANGED handler
    <2> DEFINE f == [signal |-> signal, at |-> "enter"]
               h == Append(handler[t], f)
    <2>1. f \in Handlers
      BY DEF Handlers, Signals
    <2>2. Sets(handler, handler', t, h)
      BY <1>3 DEF Deliver, Sets
    <2> HIDE DEF f
    <2>3. h \in Seq(Handlers) /\ h # <<>>
      BY <1>1, <2>1, Pushed
    <2> HIDE DEF h
    <2> QED
      BY <2>2, <2>3
  <1> QED
    BY <1>2, <1>3

LEMMA GoesOn ==
    ASSUME NEW is, IInv(is), NEW t \in Threads, NEW at \in {"enter", "report", "raise"}, handler[t] # <<>>, Goto(t, at)
    PROVE  \E h \in Seq(Handlers) : Sets(handler, handler', t, h) /\ h # <<>>
  <1> DEFINE b == handler[t]
             n == Len(b)
             f == [b[n] EXCEPT !.at = at]
             h == [b EXCEPT ![n] = f]
  <1>1. b \in Seq(Handlers) /\ b # <<>>
    BY ThreadFacts
  <1>2. n \in 1..Len(b) /\ b[n] \in Handlers
    BY <1>1, StackElements
  <1>3. Sets(handler, handler', t, h)
    BY DEF Goto, Sets
  <1>4. f \in Handlers
    BY <1>2 DEF Handlers
  <1> HIDE DEF b, n, f
  <1>5. /\ [b EXCEPT ![n] = f] \in Seq(Handlers) /\ Len([b EXCEPT ![n] = f]) = Len(b)
        /\ \A j \in 1..Len(b) : [b EXCEPT ![n] = f][j] = IF j = n THEN f ELSE b[j]
    BY <1>1, <1>2, <1>4, ExceptSeq
  <1>6. h \in Seq(Handlers) /\ Len(h) = Len(b)
    BY <1>5
  <1> HIDE DEF h
  <1>7. h # <<>>
    BY <1>1, <1>6, StackElements
  <1> QED
    BY <1>3, <1>6, <1>7

(* A step that changes the handlers and, it may be, memory.                *)
LEMMA HandlerStep ==
    ASSUME NEW is, IInv(is), NEW t \in Threads, UNCHANGED <<images, stack, live, cleanup, late>>,
           stack[t] # <<>> \/ handler[t] # <<>> \/ live[t] = "running",
           \E h \in Seq(Handlers) : Sets(handler, handler', t, h) /\ (handler[t] # <<>> => h # <<>>),
           NEW n, Sets(mem, mem', t, n), MemOK(is, n), Hung(is, n, keys'), FramesOK(is, t, n, stack[t]),
           KeysOK(is, keys'), Grow(keys, keys'),
           handler[t] = <<>> /\ n.tsd["state"] # 0 => n.tsd["alt"] # 0
    PROVE  IInv(is)'
  <1>1. PICK h \in Seq(Handlers) : Sets(handler, handler', t, h) /\ (handler[t] # <<>> => h # <<>>)
    OBVIOUS
  <1>2. Sets(stack, stack', t, stack[t]) /\ Sets(live, live', t, live[t])
    BY Unchanged
  <1>3. /\ ThreadOK(is, t, mem[t], stack[t], handler[t], live[t], cleanup[t], keys, late)
        /\ t = Main => live[t] = "running"
    BY ThreadFacts
  <1>4. stack[t] # <<>> \/ live[t] = "running"
    BY <1>3 DEF ThreadOK
  <1>5. h = <<>> /\ n.tsd["state"] # 0 => n.tsd["alt"] # 0
    BY <1>1
  <1>6. live[t] \in {live[t], "ending"}
    OBVIOUS
  <1> QED
    BY <1>1, <1>2, <1>3, <1>4, <1>5, <1>6, BusyStep

LEMMA OnlyHandlers ==
    ASSUME NEW is, IInv(is), NEW t \in Threads, UNCHANGED <<images, threadVars>>,
           stack[t] # <<>> \/ handler[t] # <<>> \/ live[t] = "running",
           \E h \in Seq(Handlers) : Sets(handler, handler', t, h) /\ (handler[t] # <<>> => h # <<>>)
    PROVE  IInv(is)'
  <1>1. UNCHANGED <<mem, keys, stack, live, cleanup, late>>
    BY DEF threadVars
  <1>2. Sets(mem, mem', t, mem[t])
    BY <1>1, Unchanged
  <1>3. /\ KeysOK(is, keys) /\ MemOK(is, mem[t]) /\ Hung(is, mem[t], keys) /\ FramesOK(is, t, mem[t], stack[t])
        /\ handler[t] = <<>> /\ mem[t].tsd["state"] # 0 => mem[t].tsd["alt"] # 0
    BY ThreadFacts
  <1>4. Grow(keys, keys)
    BY <1>3, SameKeys
  <1>5. KeysOK(is, keys') /\ Grow(keys, keys') /\ Hung(is, mem[t], keys')
    BY <1>1, <1>3, <1>4
  <1> DEFINE n == mem[t]
  <1>6. /\ Sets(mem, mem', t, n) /\ MemOK(is, n) /\ Hung(is, n, keys') /\ FramesOK(is, t, n, stack[t])
        /\ handler[t] = <<>> /\ n.tsd["state"] # 0 => n.tsd["alt"] # 0
    BY <1>2, <1>3, <1>5
  <1> HIDE DEF n
  <1> QED
    BY <1>1, <1>5, <1>6, HandlerStep

(* Facts about a thread that takes a step of its own.                      *)
LEMMA UpFacts ==
    ASSUME NEW is, IInv(is), NEW t \in Threads, InGuest(t) \/ InExit(t)
    PROVE  /\ handler[t] = <<>> /\ stack[t] # <<>> /\ stack[t] \in Seq(Frames(is))
           /\ live[t] \in {"running", "ending"}
           /\ Top(t) \in Frames(is) /\ FrameOK(is, t, mem[t], Top(t))
           /\ InGuest(t) => Top(t) \in GuestFrames(is)
           /\ InExit(t) => Top(t) \in ExitFrames
  <1>1. /\ handler[t] = <<>> /\ stack[t] # <<>> /\ live[t] \in {"running", "ending"}
        /\ InGuest(t) => Top(t).kind # "exit"
        /\ InExit(t) => Top(t).kind = "exit"
    BY DEF InGuest, InExit, Up, Empty
  <1>2. FramesOK(is, t, mem[t], stack[t])
    BY ThreadFacts
  <1>3. Top(t) \in Frames(is) /\ FrameOK(is, t, mem[t], Top(t))
    BY <1>1, <1>2, TopFrame DEF Top
  <1>4. \A f \in Frames(is) : IF f.kind = "exit" THEN f \in ExitFrames ELSE f \in GuestFrames(is)
    BY DEF Frames, GuestFrames, ExitFrames
  <1> QED
    BY <1>1, <1>2, <1>3, <1>4 DEF FramesOK

----------------------------------------------------------------------------
(* One lemma per action.                                                   *)

LEMMA SetupInv ==
    ASSUME NEW is, IInv(is), Setup
    PROVE  IInv(is)'
  <1>1. Main \in Threads /\ UNCHANGED <<images, threadVars>>
    BY ThreadsAssumption DEF Setup
  <1>2. live[Main] = "running"
    BY <1>1, ThreadFacts
  <1>3. Deliver(Main, "abrt") \/ UNCHANGED handler
    <2>1. CASE fate' = "abort"
      BY <2>1 DEF Setup
    <2>2. CASE fate' = "done"
      BY <2>2 DEF Setup
    <2>3. CASE fate' # "abort" /\ fate' # "done"
      BY <2>3 DEF Setup
    <2> QED
      BY <2>1, <2>2, <2>3
  <1>4. CASE Deliver(Main, "abrt")
    BY <1>1, <1>2, <1>4, Delivered, OnlyHandlers DEF Signals
  <1>5. CASE UNCHANGED handler
    BY <1>1, <1>5, Stutter DEF threadVars
  <1> QED
    BY <1>3, <1>4, <1>5

LEMMA RunInitializersInv ==
    ASSUME NEW is, RegionsOK(is), IInv(is), xl_run_initializers
    PROVE  IInv(is)'
  <1>1. Main \in Threads /\ "init" \in Kinds \ {"thread"}
    BY ThreadsAssumption DEF Kinds
  <1>2. /\ xl_invoke(Main, "init", mem[Main]) /\ handler[Main] = <<>>
        /\ UNCHANGED <<images, live, cleanup, late, handler>>
    BY DEF xl_run_initializers, Up, signalVars
  <1>3. live[Main] = "running"
    BY <1>1, ThreadFacts
  <1> QED
    BY <1>1, <1>2, <1>3, InvokeStep

LEMMA MainInv ==
    ASSUME NEW is, RegionsOK(is), IInv(is), main
    PROVE  IInv(is)'
  <1>1. Main \in Threads /\ "entry" \in Kinds \ {"thread"}
    BY ThreadsAssumption DEF Kinds
  <1>2. /\ xl_invoke(Main, "entry", mem[Main]) /\ handler[Main] = <<>>
        /\ UNCHANGED <<images, live, cleanup, late, handler>>
    BY DEF main, Up, signalVars
  <1>3. live[Main] = "running"
    BY <1>1, ThreadFacts
  <1> QED
    BY <1>1, <1>2, <1>3, InvokeStep

LEMMA SpawnThreadInv ==
    ASSUME NEW is, RegionsOK(is), IInv(is), NEW t \in Threads, SpawnThread(t)
    PROVE  IInv(is)'
  <1>1. PICK u \in Threads : live[u] = "no" /\ live' = [live EXCEPT ![u] = "running"] /\ xl_invoke(u, "thread", mem[u])
    BY DEF SpawnThread
  <1>2. UNCHANGED <<images, cleanup, late, handler>>
    BY DEF SpawnThread, startVars, signalVars
  <1>3. /\ ThreadOK(is, u, mem[u], stack[u], handler[u], live[u], cleanup[u], keys, late)
        /\ KeysOK(is, keys) /\ MemOK(is, mem[u]) /\ Hung(is, mem[u], keys) /\ FramesOK(is, u, mem[u], stack[u])
        /\ handler[u] = <<>> /\ mem[u].tsd["state"] # 0 => mem[u].tsd["alt"] # 0
        /\ u = Main => live[u] = "running"
    BY ThreadFacts
  <1>4. handler[u] = <<>> /\ cleanup[u] = FirstRound /\ u # Main /\ "thread" \in Kinds
    BY <1>1, <1>3 DEF ThreadOK, EndOK, Kinds
  <1> DEFINE kind == "thread"
             n == xl_current_state(mem[u])
             s == Append(stack[u], GuestFrame(kind, n))
  <1>5. Sets(mem, mem', u, n) /\ Sets(stack, stack', u, s) /\ keys' = Create(keys, <<"state", "alt">>)
    BY <1>1 DEF xl_invoke, Sets
  <1>6. EntersOK(is, u, s, n, keys, Create(keys, <<"state", "alt">>)) /\ s # <<>>
    <2>1. kind \in Kinds /\ (kind = "thread" => u # Main) /\ (mem[u].tsd["state"] # 0 => mem[u].tsd["alt"] # 0)
      BY <1>3, <1>4
    <2> HIDE DEF kind
    <2> QED
      BY <1>3, <2>1, Invoked, SMTT(40)
  <1> HIDE DEF n, s
  <1>7. /\ MemOK(is, n) /\ Hung(is, n, keys') /\ FramesOK(is, u, n, s) /\ KeysOK(is, keys') /\ Grow(keys, keys')
        /\ n.tsd["alt"] # 0
    BY <1>5, <1>6 DEF EntersOK
  <1>8. /\ Sets(handler, handler', u, handler[u]) /\ Sets(cleanup, cleanup', u, cleanup[u])
        /\ Sets(live, live', u, "running")
    BY <1>1, <1>2, Unchanged DEF Sets
  <1>9. ThreadOK(is, u, n, s, handler[u], "running", cleanup[u], keys', late')
    BY <1>4, <1>7, FirstThread, FirstRoundOK
  <1> QED
    BY <1>2, <1>5, <1>7, <1>8, <1>9, ThreadStep

LEMMA CallBackInv ==
    ASSUME NEW is, RegionsOK(is), IInv(is), NEW t \in Threads, CallBack(t)
    PROVE  IInv(is)'
  <1>1. /\ InGuest(t) /\ xl_invoke(t, "callback", mem[t]) /\ UNCHANGED <<images, live, cleanup, late, handler>>
        /\ "callback" \in Kinds \ {"thread"}
    BY DEF CallBack, Act, startVars, signalVars, Kinds
  <1>2. handler[t] = <<>> /\ stack[t] # <<>>
    BY <1>1, UpFacts
  <1> QED
    BY <1>1, <1>2, InvokeStep

LEMMA CxaAtexitInv ==
    ASSUME NEW is, IInv(is), NEW t \in Threads, xl_manual_cxa_atexit(t)
    PROVE  IInv(is)'
  <1>1. UNCHANGED <<images, mem, stack, handler, live, cleanup, keys, late>>
    BY DEF xl_manual_cxa_atexit, startVars, threadVars, signalVars
  <1> QED
    BY <1>1, Stutter

(* A thread in the guest stands on memory, so its keys are there.          *)
LEMMA GuestKeysThere ==
    ASSUME NEW is, IInv(is), NEW t \in Threads, InGuest(t)
    PROVE  keys # <<>> /\ mem[t].tsd["state"] # 0 /\ mem[t].tsd["alt"] # 0
  <1>1. Top(t) \in GuestFrames(is) /\ FrameOK(is, t, mem[t], Top(t))
    BY UpFacts
  <1>2. mem[t].tsd["state"] # 0 /\ mem[t].tsd["alt"] # 0
    BY <1>1 DEF GuestFrames, FrameOK
  <1>3. "state" \in KeyNames(is) /\ Hung(is, mem[t], keys)
    BY Names, ThreadFacts
  <1>4. "state" \in Range(keys)
    BY <1>2, <1>3 DEF Hung
  <1>5. Range(<<>>) = {}
    BY DEF Range
  <1> QED
    BY <1>2, <1>4, <1>5

(* Memory is made for a key that has none.                                 *)
LEMMA MakeStep ==
    ASSUME NEW is, NEW m, MemOK(is, m), NEW k \in KeyNames(is) \ {"state", "alt"}, m.tsd[k] = 0,
           NEW ks, KeysOK(is, ks), Hung(is, m, ks), NEW kt, KeysOK(is, kt), Grow(ks, kt), k \in Range(kt)
    PROVE  /\ MemOK(is, Make(m, k)) /\ Hung(is, Make(m, k), kt) /\ Keeps(is, m, Make(m, k))
           /\ Make(m, k).tsd["state"] = m.tsd["state"] /\ Make(m, k).tsd["alt"] = m.tsd["alt"]
           /\ Make(m, k).tsd[k] # 0
  <1> DEFINE n == Make(m, k)
  <1>1. /\ MemOK(is, n) /\ n.tsd[k] # 0
        /\ \A j \in KeyNames(is) \ {k} : n.tsd[j] = m.tsd[j]
    BY MakeOther
  <1> HIDE DEF n
  <1>2. Hung(is, m, kt)
    BY HungGrows
  <1>3. Hung(is, n, kt)
    BY <1>1, <1>2 DEF Hung
  <1>4. Keeps(is, m, n)
    BY <1>1 DEF Keeps
  <1>5. "state" \in KeyNames(is) /\ "alt" \in KeyNames(is)
    BY Names
  <1>6. n.tsd["state"] = m.tsd["state"] /\ n.tsd["alt"] = m.tsd["alt"]
    BY <1>1, <1>5
  <1> QED
    BY <1>1, <1>3, <1>4, <1>6 DEF n

LEMMA SetKeyInv ==
    ASSUME NEW is, RegionsOK(is), IInv(is), NEW t \in Threads, SetKey(t)
    PROVE  IInv(is)'
  <1> DEFINE m == mem[t]
             n == Make(m, "guest")
             new == <<"guest">>
  <1>1. /\ InGuest(t) /\ m.tsd["guest"] = 0 /\ Sets(mem, mem', t, n) /\ keys' = Create(keys, new)
        /\ UNCHANGED <<images, live, stack, cleanup, late, handler>>
    BY DEF SetKey, Act, GuestKey, Sets, startVars, signalVars
  <1>2. /\ KeysOK(is, keys) /\ MemOK(is, m) /\ Hung(is, m, keys) /\ FramesOK(is, t, m, stack[t])
        /\ handler[t] \in Seq(Handlers)
    BY ThreadFacts
  <1>3. keys # <<>> /\ m.tsd["alt"] # 0 /\ stack[t] # <<>>
    BY <1>1, GuestKeysThere, UpFacts
  <1>4. "guest" \in KeyNames(is) \ {"state", "alt"}
    BY Names
  <1>5. new \in Seq(KeyNames(is)) /\ Range(new) = {"guest"}
    BY <1>4 DEF Range
  <1> HIDE DEF m, new
  <1>6. KeysOK(is, keys') /\ Grow(keys, keys') /\ "guest" \in Range(keys')
    <2>1. LET kt == Create(keys, new)
          IN  KeysOK(is, kt) /\ Grow(keys, kt) /\ Range(new) \subseteq Range(kt)
      BY <1>2, <1>3, <1>5, OtherKeys
    <2> QED
      BY <1>1, <1>5, <2>1
  <1>7. /\ MemOK(is, n) /\ Hung(is, n, keys') /\ Keeps(is, m, n)
        /\ n.tsd["state"] = m.tsd["state"] /\ n.tsd["alt"] = m.tsd["alt"]
    BY <1>1, <1>2, <1>4, <1>6, MakeStep
  <1> HIDE DEF n
  <1>8. FramesOK(is, t, n, stack[t])
    BY <1>2, <1>7, FramesKept
  <1>9. \E h \in Seq(Handlers) : Sets(handler, handler', t, h) /\ (handler[t] # <<>> => h # <<>>)
    BY <1>1, <1>2, Unchanged
  <1>10. n.tsd["alt"] # 0
    BY <1>3, <1>7
  <1> QED
    BY <1>1, <1>3, <1>6, <1>7, <1>8, <1>9, <1>10, HandlerStep

(* The keys of the thread-local regions.                                   *)
RegionSeq(is) == [r \in DOMAIN TlvRegions(is) |-> TlvRegions(is)[r].key]

LEMMA RegionSeqFacts ==
    ASSUME NEW is, RegionsOK(is)
    PROVE  /\ RegionSeq(is) \in Seq(KeyNames(is)) /\ Range(RegionSeq(is)) = RegionKeys(is)
           /\ \A r \in Range(TlvRegions(is)) :
                  r.key \in KeyNames(is) \ {"state", "alt"} /\ r.key \in RegionKeys(is) /\ r.variables \subseteq Nat
  <1> DEFINE rs == TlvRegions(is)
  <1>1. /\ rs \in Seq([key : STRING, variables : SUBSET Nat, total : Nat])
        /\ \A i \in DOMAIN rs : rs[i].key \notin {"state", "alt", "guest"}
    BY DEF RegionsOK
  <1>2. /\ KeyNames(is) = {"state", "alt", GuestKey} \cup {r.key : r \in Range(rs)}
        /\ RegionKeys(is) = {r.key : r \in Range(rs)}
        /\ RegionSeq(is) = [r \in DOMAIN rs |-> rs[r].key]
    BY DEF KeyNames, RegionKeys, RegionSeq
  <1> HIDE DEF rs
  <1>3. DOMAIN rs = 1..Len(rs) /\ Len(rs) \in Nat
    BY <1>1, LenProperties
  <1>4. \A i \in 1..Len(rs) : rs[i] \in Range(rs) /\ rs[i].key \in KeyNames(is)
    BY <1>2, <1>3 DEF Range
  <1>5. RegionSeq(is) = [i \in 1..Len(rs) |-> rs[i].key]
    BY <1>2, <1>3
  <1>6. RegionSeq(is) \in Seq(KeyNames(is))
    BY <1>3, <1>4, <1>5, IsASeq
  <1>7. Range(RegionSeq(is)) = RegionKeys(is)
    <2>1. Range(RegionSeq(is)) = {rs[i].key : i \in DOMAIN rs}
      BY <1>2 DEF Range
    <2>2. {r.key : r \in Range(rs)} = {rs[i].key : i \in DOMAIN rs}
      BY DEF Range
    <2> QED
      BY <1>2, <2>1, <2>2
  <1>8. ASSUME NEW r \in Range(rs)
        PROVE  r.key \in KeyNames(is) \ {"state", "alt"} /\ r.key \in RegionKeys(is) /\ r.variables \subseteq Nat
    <2>1. PICK i \in DOMAIN rs : r = rs[i]
      BY DEF Range
    <2>2. rs[i] \in [key : STRING, variables : SUBSET Nat, total : Nat]
      BY <1>1, <1>3, <2>1, StackElements
    <2>3. r.variables \subseteq Nat
      BY <2>1, <2>2
    <2> QED
      BY <1>1, <1>2, <2>1, <2>3
  <1> QED
    BY <1>6, <1>7, <1>8 DEF rs

LEMMA TlvGetInv ==
    ASSUME NEW is, RegionsOK(is), IInv(is), NEW t \in Threads, xl_tlv_get(t)
    PROVE  IInv(is)'
  <1> DEFINE m == mem[t]
  <1>0. images = is
    BY DEF IInv
  <1>1. PICK r \in Range(TlvRegions(is)) : \E offset \in r.variables :
            LET n == IF m.tsd[r.key] # 0 THEN m ELSE Make(m, r.key) IN
            /\ mem' = [mem EXCEPT ![t] = n]
            /\ stack' = [stack EXCEPT ![t][Len(stack[t])].held =
                            @ \cup {[key |-> r.key, block |-> n.tsd[r.key], offset |-> offset]}]
    BY <1>0 DEF xl_tlv_get, Regions
  <1> DEFINE n == IF m.tsd[r.key] # 0 THEN m ELSE Make(m, r.key)
  <1>2. PICK offset \in r.variables :
            /\ mem' = [mem EXCEPT ![t] = n]
            /\ stack' = [stack EXCEPT ![t][Len(stack[t])].held =
                            @ \cup {[key |-> r.key, block |-> n.tsd[r.key], offset |-> offset]}]
    BY <1>1
  <1> DEFINE hold == [key |-> r.key, block |-> n.tsd[r.key], offset |-> offset]
             f == [Top(t) EXCEPT !.held = Top(t).held \cup {hold}]
             s == Edited(stack[t], f)
  <1>3. /\ InGuest(t) /\ keys' = Create(keys, RegionSeq(is)) /\ UNCHANGED <<images, live, cleanup, late, handler>>
    BY <1>0 DEF xl_tlv_get, Act, RegionSeq, startVars, signalVars
  <1>4. Sets(mem, mem', t, n) /\ Sets(stack, stack', t, s)
    BY <1>2 DEF Sets, Edited, Top, Last
  <1>5. /\ KeysOK(is, keys) /\ MemOK(is, m) /\ Hung(is, m, keys) /\ FramesOK(is, t, m, stack[t])
        /\ handler[t] \in Seq(Handlers) /\ (t = Main => live[t] = "running")
    BY ThreadFacts
  <1>6. /\ keys # <<>> /\ m.tsd["alt"] # 0 /\ stack[t] # <<>> /\ handler[t] = <<>>
        /\ Top(t) \in GuestFrames(is) /\ Top(t) \in Frames(is) /\ FrameOK(is, t, m, Top(t))
    BY <1>3, GuestKeysThere, UpFacts
  <1>7. /\ RegionSeq(is) \in Seq(KeyNames(is)) /\ Range(RegionSeq(is)) = RegionKeys(is)
        /\ r.key \in KeyNames(is) \ {"state", "alt"} /\ r.key \in RegionKeys(is) /\ r.variables \subseteq Nat
    BY RegionSeqFacts
  <1>8. KeysOK(is, keys') /\ Grow(keys, keys') /\ r.key \in Range(keys')
    <2> DEFINE new == RegionSeq(is)
    <2>1. new \in Seq(KeyNames(is)) /\ Range(new) = RegionKeys(is)
      BY <1>7
    <2> HIDE DEF new
    <2>2. LET kt == Create(keys, new)
          IN  KeysOK(is, kt) /\ Grow(keys, kt) /\ Range(new) \subseteq Range(kt)
      BY <1>5, <1>6, <2>1, OtherKeys
    <2> QED
      BY <1>3, <1>7, <2>1, <2>2 DEF new
  <1> DEFINE k == r.key
  <1>9. /\ MemOK(is, n) /\ Hung(is, n, keys') /\ Keeps(is, m, n)
        /\ n.tsd["alt"] = m.tsd["alt"] /\ n.tsd[k] # 0
    <2> HIDE DEF m
    <2>1. CASE m.tsd[k] # 0
      <3>1. Hung(is, m, keys')
        BY <1>5, <1>8, HungGrows
      <3> QED
        BY <1>5, <2>1, <3>1 DEF Keeps
    <2>2. CASE m.tsd[k] = 0
      <3>1. k \in KeyNames(is) \ {"state", "alt"} /\ k \in Range(keys') /\ n = Make(m, k)
        BY <1>7, <1>8, <2>2
      <3> HIDE DEF k, n
      <3>2. /\ MemOK(is, Make(m, k)) /\ Hung(is, Make(m, k), keys') /\ Keeps(is, m, Make(m, k))
            /\ Make(m, k).tsd["state"] = m.tsd["state"] /\ Make(m, k).tsd["alt"] = m.tsd["alt"]
            /\ Make(m, k).tsd[k] # 0
        BY <1>5, <1>8, <2>2, <3>1, MakeStep
      <3> QED
        BY <3>1, <3>2
    <2> QED
      BY <2>1, <2>2
  <1> HIDE DEF n
  <1>10. n.tsd[k] \in Nat
    BY <1>7, <1>9, Fields DEF MemOK
  <1>11. hold \in Holds(is) /\ HoldOK(is, n, hold)
    <2>1. hold \in Holds(is)
      BY <1>7, <1>10 DEF Holds
    <2>2. hold.key = k /\ hold.block = n.tsd[k] /\ hold.offset = offset
      OBVIOUS
    <2> HIDE DEF hold
    <2> QED
      BY <1>9, <2>1, <2>2 DEF HoldOK
  <1>12. FrameOK(is, t, n, Top(t))
    BY <1>6, <1>9, FrameKept
  <1> HIDE DEF hold
  <1>13. f \in Frames(is) /\ FrameOK(is, t, n, f)
    <2>1. /\ f \in GuestFrames(is) /\ f.kind = Top(t).kind /\ f.state = Top(t).state
          /\ f.held = Top(t).held \cup {hold}
      BY <1>6, <1>11 DEF GuestFrames
    <2> HIDE DEF f
    <2>2. Top(t).kind # "exit"
      BY <1>6 DEF GuestFrames
    <2> QED
      BY <1>11, <1>12, <2>1, <2>2 DEF FrameOK, Frames
  <1> HIDE DEF f
  <1>14. FramesOK(is, t, n, stack[t])
    BY <1>5, <1>9, FramesKept
  <1>15. FramesOK(is, t, n, s) /\ s # <<>>
    BY <1>6, <1>13, <1>14, FramesEdited
  <1> HIDE DEF s
  <1>16. /\ Sets(handler, handler', t, handler[t]) /\ Sets(live, live', t, live[t])
         /\ live[t] \in {live[t], "ending"}
    BY <1>3, Unchanged
  <1>17. n.tsd["alt"] # 0
    BY <1>6, <1>9
  <1> QED
    BY <1>3, <1>4, <1>5, <1>6, <1>8, <1>9, <1>15, <1>16, <1>17, BusyStep

(* A thread leaves: its stack is gone and its destructors start.           *)
LEMMA LeaveInv ==
    ASSUME NEW is, IInv(is), NEW t \in Threads, InGuest(t), t # Main, Leave(t),
           UNCHANGED <<images, mem, keys, late, handler>>
    PROVE  IInv(is)'
  <1>1. /\ Sets(live, live', t, "ending") /\ Sets(stack, stack', t, <<>>)
        /\ Sets(cleanup, cleanup', t, FirstRound)
    BY DEF Leave, Sets
  <1>2. Sets(mem, mem', t, mem[t]) /\ Sets(handler, handler', t, handler[t])
    BY Unchanged
  <1>3. KeysOK(is, keys) /\ MemOK(is, mem[t]) /\ Hung(is, mem[t], keys)
    BY ThreadFacts
  <1>4. handler[t] = <<>> /\ mem[t].tsd["alt"] # 0
    BY UpFacts, GuestKeysThere
  <1>5. FramesOK(is, t, mem[t], <<>>)
    BY FramesEmpty
  <1>6. KeysOK(is, keys') /\ Grow(keys, keys') /\ Hung(is, mem[t], keys')
    BY <1>3, SameKeys
  <1> DEFINE n == mem[t]
             s == <<>>
             l == "ending"
             c == FirstRound
  <1>7. ThreadOK(is, t, n, s, handler[t], l, c, keys', late')
    BY <1>3, <1>4, <1>5, <1>6, FirstThread, FirstRoundOK
  <1>8. /\ Sets(mem, mem', t, n) /\ Sets(stack, stack', t, s)
        /\ Sets(live, live', t, l) /\ Sets(cleanup, cleanup', t, c)
    BY <1>1, <1>2
  <1> HIDE DEF n, s, l, c
  <1> QED
    BY <1>2, <1>6, <1>7, <1>8, ThreadStep

LEMMA GuestLeavesInv ==
    ASSUME NEW is, IInv(is), NEW t \in Threads, GuestLeaves(t)
    PROVE  IInv(is)'
  <1>1. /\ InGuest(t) /\ t # Main /\ Leave(t)
        /\ UNCHANGED <<images, mem, keys, late, handler>>
    BY DEF GuestLeaves, Act, startVars, signalVars
  <1> QED
    BY <1>1, LeaveInv

LEMMA FaultInv ==
    ASSUME NEW is, IInv(is), NEW t \in Threads, xl_fault(t)
    PROVE  IInv(is)'
  <1>1. InGuest(t) /\ UNCHANGED <<images, mem, keys, late>>
    BY DEF xl_fault, Act
  <1>2. CASE t # Main /\ flag
    <2>1. Leave(t) /\ UNCHANGED handler
      BY <1>2 DEF xl_fault
    <2> QED
      BY <1>1, <1>2, <2>1, LeaveInv
  <1>3. CASE ~ (t # Main /\ flag)
    <2>1. Deliver(t, "abrt") /\ UNCHANGED <<images, threadVars>> /\ "abrt" \in Signals
      BY <1>1, <1>3 DEF xl_fault, threadVars, Signals
    <2>2. stack[t] # <<>>
      BY <1>1, UpFacts
    <2> QED
      BY <2>1, <2>2, Delivered, OnlyHandlers
  <1> QED
    BY <1>2, <1>3

LEMMA SignalInv ==
    ASSUME NEW is, IInv(is), NEW t \in Threads, Signal(t)
    PROVE  IInv(is)'
  <1>1. InGuest(t) /\ UNCHANGED <<images, threadVars>>
    BY DEF Signal, Act
  <1>2. PICK signal \in {"segv", "term"} : Deliver(t, signal)
    BY DEF Signal
  <1>3. signal \in Signals /\ stack[t] # <<>>
    BY <1>1, UpFacts DEF Signals
  <1> QED
    BY <1>1, <1>2, <1>3, Delivered, OnlyHandlers

(* A step that changes only the stack of a thread that is on it, or lets   *)
(* it end.                                                                 *)
LEMMA StackStep ==
    ASSUME NEW is, IInv(is), NEW t \in Threads, InGuest(t) \/ InExit(t),
           UNCHANGED <<images, mem, keys, handler, cleanup, late>>,
           NEW s, Sets(stack, stack', t, s), FramesOK(is, t, mem[t], s),
           NEW l \in {live[t], "ending"}, Sets(live, live', t, l), t = Main => l = "running"
    PROVE  IInv(is)'
  <1> DEFINE n == mem[t]
  <1>1. handler[t] = <<>> /\ stack[t] # <<>>
    BY UpFacts
  <1>2. /\ KeysOK(is, keys) /\ MemOK(is, n) /\ Hung(is, n, keys) /\ handler[t] \in Seq(Handlers)
        /\ handler[t] = <<>> /\ n.tsd["state"] # 0 => n.tsd["alt"] # 0
    BY ThreadFacts
  <1>3. Sets(mem, mem', t, n) /\ Sets(handler, handler', t, handler[t])
    BY Unchanged
  <1>4. KeysOK(is, keys') /\ Grow(keys, keys') /\ Hung(is, n, keys')
    BY <1>2, SameKeys
  <1>5. FramesOK(is, t, n, s)
    OBVIOUS
  <1> HIDE DEF n
  <1> QED
    BY <1>1, <1>2, <1>3, <1>4, <1>5, BusyStep

LEMMA GuestExitsInv ==
    ASSUME NEW is, IInv(is), NEW t \in Threads, GuestExits(t)
    PROVE  IInv(is)'
  <1> DEFINE s == Append(stack[t], ExitCall)
  <1>1. /\ InGuest(t) /\ Sets(stack, stack', t, s)
        /\ UNCHANGED <<images, live, mem, keys, handler, cleanup, late>>
    BY DEF GuestExits, Act, Sets, startVars, signalVars
  <1>2. FramesOK(is, t, mem[t], stack[t]) /\ (t = Main => live[t] = "running")
    BY ThreadFacts
  <1>3. ExitCall \in Frames(is) /\ FrameOK(is, t, mem[t], ExitCall)
    BY NewExitFrame
  <1>4. FramesOK(is, t, mem[t], s)
    BY <1>2, <1>3, FramesPushed
  <1>5. Sets(live, live', t, live[t]) /\ live[t] \in {live[t], "ending"}
    BY <1>1, Unchanged
  <1> HIDE DEF s
  <1> QED
    BY <1>1, <1>2, <1>4, <1>5, StackStep

LEMMA ReturnInv ==
    ASSUME NEW is, IInv(is), NEW t \in Threads, Return(t)
    PROVE  IInv(is)'
  <1> DEFINE s == IF Top(t).kind = "entry" THEN <<ExitCall>> ELSE Front(stack[t])
             l == IF Top(t).kind = "thread" THEN "ending" ELSE live[t]
  <1>1. InGuest(t) /\ UNCHANGED <<images, mem, keys, handler, cleanup, late>>
    BY DEF Return, startVars, signalVars
  <1>2. Sets(stack, stack', t, s)
    <2>1. CASE Top(t).kind = "entry"
      BY <2>1 DEF Return, Sets
    <2>2. CASE Top(t).kind # "entry"
      BY <2>2 DEF Return, Sets
    <2> QED
      BY <2>1, <2>2
  <1>3. Sets(live, live', t, l)
    <2>1. CASE Top(t).kind = "thread"
      BY <2>1 DEF Return, Sets
    <2>2. CASE Top(t).kind # "thread"
      <3>1. UNCHANGED live
        BY <2>2 DEF Return
      <3> QED
        BY <2>2, <3>1, Unchanged
    <2> QED
      BY <2>1, <2>2
  <1>4. /\ FramesOK(is, t, mem[t], stack[t]) /\ (t = Main => live[t] = "running") /\ stack[t] # <<>>
        /\ FrameOK(is, t, mem[t], Top(t))
    BY <1>1, ThreadFacts, UpFacts
  <1>5. FramesOK(is, t, mem[t], s)
    <2>1. FramesOK(is, t, mem[t], Front(stack[t]))
      BY <1>4, FramesPopped
    <2>2. FramesOK(is, t, mem[t], Append(<<>>, ExitCall))
      BY FramesEmpty, NewExitFrame, FramesPushed
    <2>3. Append(<<>>, ExitCall) = <<ExitCall>>
      OBVIOUS
    <2> QED
      BY <2>1, <2>2, <2>3
  <1>6. l \in {live[t], "ending"} /\ (t = Main => l = "running")
    <2>1. Top(t).kind = "thread" => t # Main
      BY <1>1, <1>4 DEF FrameOK, InGuest
    <2> QED
      BY <1>4, <2>1
  <1> HIDE DEF s, l
  <1> QED
    BY <1>1, <1>2, <1>3, <1>5, <1>6, StackStep

(* Calls of exit.                                                          *)
LEMMA SetExitInv ==
    ASSUME NEW is, IInv(is), NEW t \in Threads, InExit(t), NEW call \in ExitFrames, SetExit(t, call),
           UNCHANGED <<images, live, mem, keys, handler, cleanup, late>>
    PROVE  IInv(is)'
  <1> DEFINE s == Append(Front(stack[t]), call)
  <1>1. Sets(stack, stack', t, s)
    BY DEF SetExit, Sets
  <1>2. FramesOK(is, t, mem[t], stack[t]) /\ (t = Main => live[t] = "running") /\ stack[t] # <<>>
    BY ThreadFacts, UpFacts
  <1>3. FramesOK(is, t, mem[t], Front(stack[t]))
    BY <1>2, FramesPopped
  <1>4. FramesOK(is, t, mem[t], s)
    BY <1>3, ExitFrame, FramesPushed
  <1>5. Sets(live, live', t, live[t]) /\ live[t] \in {live[t], "ending"}
    BY Unchanged
  <1> HIDE DEF s
  <1> QED
    BY <1>1, <1>2, <1>4, <1>5, StackStep

(* The list of destructors.                                                *)
ListOK == (\E S : list.items \in Seq(S)) /\ list.moves \in Nat

LEMMA RunCxaDtorsInv ==
    ASSUME NEW is, IInv(is), ListOK, NEW t \in Threads, xl_run_cxa_dtors(t)
    PROVE  IInv(is)'
  <1> DEFINE call == [ExitCall EXCEPT !.left = Len(list.items)]
  <1>1. /\ InExit(t) /\ SetExit(t, call)
        /\ UNCHANGED <<images, live, mem, keys, handler, cleanup, late>>
    BY DEF xl_run_cxa_dtors, startVars, signalVars
  <1>2. call \in ExitFrames
    <2>1. Len(list.items) \in Nat
      BY StackElements DEF ListOK
    <2>2. ExitCall \in ExitFrames
      BY DEF ExitCall, ExitFrames
    <2> QED
      BY <2>1, <2>2 DEF ExitFrames
  <1> HIDE DEF call
  <1> QED
    BY <1>1, <1>2, SetExitInv

LEMMA LoadListInv ==
    ASSUME NEW is, IInv(is), ListOK, NEW t \in Threads, LoadList(t)
    PROVE  IInv(is)'
  <1> DEFINE call == [Top(t) EXCEPT !.loaded = list.moves]
  <1>1. /\ InExit(t) /\ SetExit(t, call)
        /\ UNCHANGED <<images, live, mem, keys, handler, cleanup, late>>
    BY DEF LoadList, startVars, signalVars
  <1>2. call \in ExitFrames
    <2>1. Top(t) \in ExitFrames
      BY <1>1, UpFacts
    <2> QED
      BY <2>1 DEF ListOK, ExitFrames
  <1> HIDE DEF call
  <1> QED
    BY <1>1, <1>2, SetExitInv

LEMMA NoteExitInv ==
    ASSUME NEW is, RegionsOK(is), IInv(is), NEW t \in Threads, xl_note_exit(t)
    PROVE  IInv(is)'
  <1>1. InExit(t) /\ UNCHANGED <<images, live, stack, cleanup, late>>
    BY DEF xl_note_exit
  <1>2. stack[t] # <<>> /\ handler[t] = <<>>
    BY <1>1, UpFacts
  <1>3. CASE UNCHANGED <<mem, keys, phase, handler>>
    BY <1>1, <1>3, Stutter
  <1>4. ASSUME mem' = [mem EXCEPT ![t] = xl_current_state(@)],
               keys' = Create(keys, <<"state", "alt">>), UNCHANGED handler \/ Deliver(t, "segv")
        PROVE  IInv(is)'
    <2> DEFINE n == xl_current_state(mem[t])
    <2>1. Sets(mem, mem', t, n)
      BY <1>4 DEF Sets
    <2>2. /\ KeysOK(is, keys) /\ MemOK(is, mem[t]) /\ Hung(is, mem[t], keys) /\ FramesOK(is, t, mem[t], stack[t])
          /\ handler[t] \in Seq(Handlers)
          /\ mem[t].tsd["state"] # 0 => mem[t].tsd["alt"] # 0
      BY <1>2, ThreadFacts
    <2>3. EntersOK(is, t, stack[t], n, keys, Create(keys, <<"state", "alt">>))
      BY <2>2, Current
    <2> HIDE DEF n
    <2>4. /\ MemOK(is, n) /\ Hung(is, n, keys') /\ FramesOK(is, t, n, stack[t])
          /\ KeysOK(is, keys') /\ Grow(keys, keys') /\ n.tsd["alt"] # 0
      BY <1>4, <2>3 DEF EntersOK
    <2>5. \E h \in Seq(Handlers) : Sets(handler, handler', t, h) /\ (handler[t] # <<>> => h # <<>>)
      BY <1>4, <2>2, Unchanged, Delivered DEF Signals
    <2> QED
      BY <1>1, <1>2, <2>1, <2>4, <2>5, HandlerStep
  <1> QED
    BY <1>3, <1>4 DEF xl_note_exit

LEMMA CallDestructorInv ==
    ASSUME NEW is, RegionsOK(is), IInv(is), NEW t \in Threads, CallDestructor(t)
    PROVE  IInv(is)'
  <1> DEFINE m == mem[t]
             n == xl_current_state(m)
             call == [ExitCall EXCEPT !.left = Top(t).left - 1]
             b == Append(Front(stack[t]), call)
             kind == "dtor"
             s == Append(b, GuestFrame(kind, n))
  <1>1. InExit(t) /\ Top(t).left > 0 /\ UNCHANGED <<images, live, cleanup, late>>
    BY DEF CallDestructor
  <1>2. stack[t] # <<>> /\ handler[t] = <<>> /\ Top(t) \in ExitFrames
    BY <1>1, UpFacts
  <1>3. CASE Deliver(t, "segv") /\ UNCHANGED <<mem, keys, stack>>
    BY <1>1, <1>2, <1>3, Delivered, OnlyHandlers DEF threadVars, Signals
  <1>4. ASSUME mem' = [mem EXCEPT ![t] = n], keys' = Create(keys, <<"state", "alt">>),
               stack' = [stack EXCEPT ![t] = Append(Append(Front(@), call), GuestFrame("dtor", n))],
               UNCHANGED handler
        PROVE  IInv(is)'
    <2>1. Sets(mem, mem', t, n) /\ Sets(stack, stack', t, s)
      BY <1>4 DEF Sets
    <2>2. /\ KeysOK(is, keys) /\ MemOK(is, m) /\ Hung(is, m, keys) /\ FramesOK(is, t, m, stack[t])
          /\ handler[t] \in Seq(Handlers) /\ (t = Main => live[t] = "running")
          /\ m.tsd["state"] # 0 => m.tsd["alt"] # 0
      BY <1>2, ThreadFacts
    <2>3. call \in ExitFrames
      BY <1>1, <1>2 DEF ExitCall, ExitFrames
    <2> HIDE DEF call, m
    <2>4. FramesOK(is, t, m, b)
      <3>1. FramesOK(is, t, m, Front(stack[t]))
        BY <1>2, <2>2, FramesPopped
      <3> QED
        BY <2>3, <3>1, ExitFrame, FramesPushed
    <2>5. kind \in Kinds /\ (kind = "thread" => t # Main)
      BY DEF Kinds
    <2> HIDE DEF b, kind
    <2>6. EntersOK(is, t, s, n, keys, Create(keys, <<"state", "alt">>)) /\ s # <<>>
      BY <2>2, <2>4, <2>5, Invoked
    <2> HIDE DEF n, s
    <2>7. /\ MemOK(is, n) /\ Hung(is, n, keys') /\ FramesOK(is, t, n, s)
          /\ KeysOK(is, keys') /\ Grow(keys, keys') /\ n.tsd["alt"] # 0
      BY <1>4, <2>6 DEF EntersOK
    <2>8. /\ Sets(handler, handler', t, handler[t]) /\ Sets(live, live', t, live[t])
          /\ live[t] \in {live[t], "ending"}
      BY <1>1, <1>4, Unchanged
    <2> QED
      BY <1>1, <1>2, <2>1, <2>2, <2>7, <2>8, BusyStep
  <1> QED
    BY <1>3, <1>4 DEF CallDestructor

----------------------------------------------------------------------------
(* Signal handlers.                                                        *)

LEMMA CrashHandlerInv ==
    ASSUME NEW is, IInv(is), NEW t \in Threads, xl_crash_handler(t)
    PROVE  IInv(is)'
  <1>1. handler[t] # <<>> /\ UNCHANGED <<images, threadVars>> /\ (UNCHANGED handler \/ Goto(t, "report"))
    BY DEF xl_crash_handler, InHandler, CrashAgain
  <1>2. CASE UNCHANGED handler
    BY <1>1, <1>2, Stutter DEF threadVars
  <1>3. CASE Goto(t, "report")
    BY <1>1, <1>3, GoesOn, OnlyHandlers
  <1> QED
    BY <1>1, <1>2, <1>3

LEMMA SignalNoteInv ==
    ASSUME NEW is, IInv(is), NEW t \in Threads, xl_signal_note(t)
    PROVE  IInv(is)'
  <1>1. handler[t] # <<>> /\ UNCHANGED <<images, threadVars>>
    BY DEF xl_signal_note, InHandler, startVars
  <1>2. PICK at \in {"report", "raise"} : Goto(t, at)
    BY DEF xl_signal_note
  <1> QED
    BY <1>1, <1>2, GoesOn, OnlyHandlers

LEMMA WalkGuestInv ==
    ASSUME NEW is, RegionsOK(is), IInv(is), NEW t \in Threads, xl_walk_guest(t)
    PROVE  IInv(is)'
  <1> DEFINE m == mem[t]
             n == StateInHandler(m)
  <1>1. /\ handler[t] # <<>> /\ Sets(mem, mem', t, n) /\ keys' = Create(keys, <<"state", "alt">>)
        /\ UNCHANGED <<images, live, stack, cleanup, late>> /\ (Goto(t, "raise") \/ Deliver(t, "segv"))
    BY DEF xl_walk_guest, InHandler, Sets
  <1>2. KeysOK(is, keys) /\ MemOK(is, m) /\ Hung(is, m, keys) /\ FramesOK(is, t, m, stack[t])
    BY ThreadFacts
  <1>3. /\ MemOK(is, n) /\ Keeps(is, m, n)
        /\ \A j \in KeyNames(is) \ {"state", "alt"} : n.tsd[j] = m.tsd[j]
    BY <1>2, HandlerMem
  <1> HIDE DEF m, n
  <1>4. KeysOK(is, keys') /\ Grow(keys, keys') /\ "state" \in Range(keys') /\ "alt" \in Range(keys')
    <2>1. LET kt == Create(keys, <<"state", "alt">>)
          IN  KeysOK(is, kt) /\ Grow(keys, kt) /\ "state" \in Range(kt) /\ "alt" \in Range(kt)
      BY <1>2, StateKeys
    <2> QED
      BY <1>1, <2>1
  <1>5. FramesOK(is, t, n, stack[t])
    BY <1>2, <1>3, FramesKept
  <1>6. Hung(is, n, keys')
    BY <1>2, <1>3, <1>4, HungState
  <1>7. \E h \in Seq(Handlers) : Sets(handler, handler', t, h) /\ (handler[t] # <<>> => h # <<>>)
    <2>1. CASE Goto(t, "raise")
      BY <1>1, <2>1, GoesOn
    <2>2. CASE Deliver(t, "segv")
      BY <2>2, Delivered DEF Signals
    <2> QED
      BY <1>1, <2>1, <2>2
  <1> QED
    BY <1>1, <1>3, <1>4, <1>5, <1>6, <1>7, HandlerStep

LEMMA RaiseInv ==
    ASSUME NEW is, IInv(is), NEW t \in Threads, Raise(t) \/ EndOfExit(t)
    PROVE  IInv(is)'
  <1>1. UNCHANGED <<images, mem, stack, handler, live, cleanup, keys, late>>
    BY DEF Raise, EndOfExit, threadVars, signalVars
  <1> QED
    BY <1>1, Stutter

----------------------------------------------------------------------------
(* The end of a thread.                                                    *)

LEMMA EndingFacts ==
    ASSUME NEW is, IInv(is), NEW t \in Threads, Ending(t)
    PROVE  /\ live[t] = "ending" /\ stack[t] = <<>> /\ handler[t] = <<>> /\ t # Main
           /\ cleanup[t].round \in 1..Rounds /\ cleanup[t].at \in Nat \ {0}
           /\ EndOK(t, mem[t], stack[t], handler[t], live[t], cleanup[t], keys, late)
           /\ keys \in Seq(KeyNames(is)) /\ Len(keys) \in Nat
           /\ \A k \in 1..Len(keys) : keys[k] \in KeyNames(is)
           /\ Pending(t) = {k \in 1..Len(keys) : cleanup[t].at <= k /\ mem[t].tsd[keys[k]] # 0}
  <1>1. live[t] = "ending" /\ stack[t] = <<>> /\ handler[t] = <<>>
    BY DEF Ending, Up, Empty
  <1>2. /\ ThreadOK(is, t, mem[t], stack[t], handler[t], live[t], cleanup[t], keys, late)
        /\ KeysOK(is, keys) /\ cleanup[t] \in Cleanups /\ (t = Main => live[t] = "running")
    BY ThreadFacts
  <1>3. cleanup[t].round \in 1..Rounds /\ cleanup[t].at \in Nat \ {0}
    BY <1>2 DEF Cleanups
  <1>4. EndOK(t, mem[t], stack[t], handler[t], live[t], cleanup[t], keys, late)
    BY <1>2 DEF ThreadOK
  <1>5. /\ keys \in Seq(KeyNames(is)) /\ Len(keys) \in Nat
        /\ \A k \in 1..Len(keys) : keys[k] \in KeyNames(is)
    BY <1>2, StackElements DEF KeysOK
  <1>6. Pending(t) = {k \in 1..Len(keys) : cleanup[t].at <= k /\ mem[t].tsd[keys[k]] # 0}
    BY <1>3, <1>5 DEF Pending
  <1> QED
    BY <1>1, <1>2, <1>3, <1>4, <1>5, <1>6

(* After the last round nothing is left, if no guest code ran in it.       *)
LEMMA NothingPending ==
    ASSUME NEW is, IInv(is), NEW t \in Threads, Ending(t), Pending(t) = {}, t \notin late,
           ~ (cleanup[t].again /\ cleanup[t].round < Rounds)
    PROVE  \A k \in KeyNames(is) : mem[t].tsd[k] = 0
  <1> DEFINE m == mem[t]
             c == cleanup[t]
  <1>1. /\ c.round \in 1..Rounds /\ c.at \in Nat \ {0} /\ live[t] = "ending"
        /\ EndOK(t, m, stack[t], handler[t], live[t], c, keys, late)
        /\ keys \in Seq(KeyNames(is)) /\ Len(keys) \in Nat
        /\ Pending(t) = {k \in 1..Len(keys) : c.at <= k /\ m.tsd[keys[k]] # 0}
    BY EndingFacts
  <1>2. Hung(is, m, keys) /\ Rounds \in Nat
    BY ThreadFacts, BoundsAssumption
  <1>3. \A k \in 1..Len(keys) : c.at <= k => m.tsd[keys[k]] = 0
    BY <1>1
  <1>4. \A k \in 1..Len(keys) : k < c.at => m.tsd[keys[k]] = 0
    <2>1. CASE ~ c.again
      BY <1>1, <2>1 DEF EndOK
    <2>2. CASE c.again
      <3>1. c.round = Rounds
        BY <1>1, <1>2, <2>2
      <3>2. c.at = 1 \/ \A j \in 1..Len(keys) : j < c.at => m.tsd[keys[j]] = 0
        BY <1>1, <3>1 DEF EndOK
      <3> QED
        BY <1>1, <3>2
    <2> QED
      BY <2>1, <2>2
  <1>5. \A k \in 1..Len(keys) : m.tsd[keys[k]] = 0
    BY <1>1, <1>3, <1>4
  <1> HIDE DEF m
  <1> SUFFICES ASSUME NEW k \in KeyNames(is), m.tsd[k] # 0 PROVE FALSE
    BY DEF m
  <1>6. k \in Range(keys)
    BY <1>2 DEF Hung
  <1>7. PICK i \in 1..Len(keys) : keys[i] = k
    BY <1>1, <1>6, RangeOf
  <1> QED
    BY <1>5, <1>7

LEMMA NextRoundInv ==
    ASSUME NEW is, IInv(is), NEW t \in Threads, NextRound(t)
    PROVE  IInv(is)'
  <1> DEFINE n == mem[t]
             s == stack[t]
             h == handler[t]
  <1>1. Ending(t) /\ Pending(t) = {} /\ UNCHANGED <<images, stack, mem, keys, late, handler>>
    BY DEF NextRound, startVars, signalVars
  <1>2. /\ live[t] = "ending" /\ s = <<>> /\ h = <<>> /\ t # Main
        /\ cleanup[t].round \in 1..Rounds
        /\ EndOK(t, n, s, h, live[t], cleanup[t], keys, late)
    BY <1>1, EndingFacts
  <1>3. /\ ThreadOK(is, t, n, s, h, live[t], cleanup[t], keys, late) /\ cleanup[t] \in Cleanups
        /\ KeysOK(is, keys) /\ MemOK(is, n) /\ Hung(is, n, keys) /\ FramesOK(is, t, n, s)
        /\ h = <<>> /\ n.tsd["state"] # 0 => n.tsd["alt"] # 0
    BY ThreadFacts
  <1>4. Sets(mem, mem', t, n) /\ Sets(stack, stack', t, s) /\ Sets(handler, handler', t, h)
    BY <1>1, Unchanged
  <1>5. KeysOK(is, keys') /\ Grow(keys, keys') /\ Hung(is, n, keys') /\ late' = late /\ keys' = keys
    BY <1>1, <1>3, SameKeys
  <1>6. CASE cleanup[t].again /\ cleanup[t].round < Rounds
    <2> DEFINE c == [FirstRound EXCEPT !.round = cleanup[t].round + 1]
               l == "ending"
    <2>1. Sets(cleanup, cleanup', t, c) /\ UNCHANGED live
      BY <1>6 DEF NextRound, Sets
    <2>2. Sets(live, live', t, l)
      BY <1>2, <2>1, Unchanged
    <2>3. c \in Cleanups /\ c.at = 1
      <3>1. cleanup[t].round + 1 \in 1..Rounds
        BY <1>2, <1>6, BoundsAssumption
      <3>2. FirstRound \in Cleanups /\ FirstRound.at = 1
        BY FirstRoundOK
      <3> QED
        BY <3>1, <3>2 DEF Cleanups
    <2>4. ThreadOK(is, t, n, s, h, l, c, keys', late')
      <3>1. l \in {"running", "ending"} /\ (t = Main => l = "running") /\ (l = "running" => c = FirstRound)
        BY <1>2
      <3> HIDE DEF c, l, n, s
      <3> QED
        BY <1>2, <1>3, <1>5, <2>3, <3>1, FirstThread
    <2> HIDE DEF c, l, n, s, h
    <2> QED
      BY <1>1, <1>4, <1>5, <2>1, <2>2, <2>4, ThreadStep
  <1>7. CASE ~ (cleanup[t].again /\ cleanup[t].round < Rounds)
    <2> DEFINE c == cleanup[t]
               l == "gone"
    <2>1. Sets(live, live', t, l) /\ UNCHANGED cleanup
      BY <1>7 DEF NextRound, Sets
    <2>2. Sets(cleanup, cleanup', t, c)
      BY <2>1, Unchanged
    <2>3. t \notin late => \A k \in DOMAIN n.tsd : n.tsd[k] = 0
      <3>1. DOMAIN n.tsd = KeyNames(is)
        BY <1>3, Fields DEF MemOK
      <3> QED
        BY <1>1, <1>7, <3>1, NothingPending
    <2>4. ~ c.again => c.at = 1
      BY <1>2 DEF EndOK
    <2> HIDE DEF c, n, s, h
    <2>5. EndOK(t, n, s, h, l, c, keys', late')
      BY <1>5, <2>3, <2>4 DEF EndOK
    <2>6. ThreadOK(is, t, n, s, h, l, c, keys', late')
      BY <1>2, <1>3, <1>5, <2>5 DEF ThreadOK, c
    <2> HIDE DEF l
    <2> QED
      BY <1>1, <1>4, <1>5, <2>1, <2>2, <2>6, ThreadStep
  <1> QED
    BY <1>6, <1>7

(* The destructor of a key gives its block back.                           *)
LEMMA KeyDestructorInv ==
    ASSUME NEW is, RegionsOK(is), IInv(is), NEW t \in Threads, KeyDestructor(t)
    PROVE  IInv(is)'
  <1> DEFINE m == mem[t]
  <1>1. PICK k \in Pending(t) :
            /\ \A j \in Pending(t) : k <= j
            /\ cleanup' = [cleanup EXCEPT ![t] = [round |-> @.round, at |-> k + 1, again |-> TRUE]]
            /\ IF keys[k] = GuestKey
               THEN /\ xl_invoke(t, "key", Destroyed(m, keys[k]))
                    /\ late' = IF cleanup[t].round = Rounds THEN late \cup {t} ELSE late
               ELSE /\ mem' = [mem EXCEPT ![t] = Destroyed(@, keys[k])]
                    /\ UNCHANGED <<keys, stack, late>>
    BY DEF KeyDestructor
  <1>2. Ending(t) /\ UNCHANGED <<images, live, handler>>
    BY DEF KeyDestructor, startVars, signalVars
  <1> DEFINE d == Destroyed(m, keys[k])
             c == [round |-> cleanup[t].round, at |-> k + 1, again |-> TRUE]
  <1>3. /\ live[t] = "ending" /\ stack[t] = <<>> /\ handler[t] = <<>> /\ t # Main
        /\ cleanup[t].round \in 1..Rounds /\ cleanup[t].at \in Nat \ {0}
        /\ EndOK(t, m, stack[t], handler[t], live[t], cleanup[t], keys, late)
        /\ keys \in Seq(KeyNames(is)) /\ Len(keys) \in Nat
        /\ \A j \in 1..Len(keys) : keys[j] \in KeyNames(is)
        /\ Pending(t) = {j \in 1..Len(keys) : cleanup[t].at <= j /\ m.tsd[keys[j]] # 0}
    BY <1>2, EndingFacts
  <1>4. /\ KeysOK(is, keys) /\ MemOK(is, m) /\ Hung(is, m, keys) /\ FramesOK(is, t, m, stack[t])
        /\ m.tsd["state"] # 0 => m.tsd["alt"] # 0
    BY <1>3, ThreadFacts
  <1>5. k \in 1..Len(keys) /\ cleanup[t].at <= k /\ m.tsd[keys[k]] # 0 /\ keys[k] \in KeyNames(is)
    BY <1>1, <1>3
  <1>6. /\ MemOK(is, d) /\ d.tsd[keys[k]] = 0
        /\ \A j \in KeyNames(is) \ {keys[k]} : d.tsd[j] = m.tsd[j]
    <2> DEFINE x == keys[k]
    <2>1. x \in KeyNames(is) /\ m.tsd[x] # 0
      BY <1>5
    <2> HIDE DEF x, m
    <2>2. /\ MemOK(is, Destroyed(m, x)) /\ Destroyed(m, x).tsd[x] = 0
          /\ \A j \in KeyNames(is) \ {x} : Destroyed(m, x).tsd[j] = m.tsd[j]
      BY <1>4, <2>1, DestroyedMem
    <2> QED
      BY <2>2 DEF x
  <1>7. Sets(cleanup, cleanup', t, c) /\ c \in Cleanups /\ c.at = k + 1 /\ c.again /\ c.round = cleanup[t].round
    BY <1>1, <1>3, <1>5 DEF Sets, Cleanups
  <1>8. "state" \in KeyNames(is) /\ "alt" \in KeyNames(is) /\ "guest" \in KeyNames(is)
    BY Names
  <1>9. \A j \in KeyNames(is) : m.tsd[j] = 0 => d.tsd[j] = 0
    BY <1>6
  <1>10. keys[1] = "state" /\ keys[2] = "alt" /\ \A i \in 3..Len(keys) : keys[i] \notin {"state", "alt"}
    <2>1. keys # <<>>
      BY <1>3, <1>5, StackElements
    <2> QED
      BY <1>4, <2>1 DEF KeysOK
  <1>11. \A j \in 1..Len(keys) : cleanup[t].at <= j /\ j < k => m.tsd[keys[j]] = 0
    BY <1>1, <1>3, <1>5
  (* The register block goes before the alternate stack.                   *)
  <1>12. keys[k] = "alt" => m.tsd["state"] = 0
    <2> SUFFICES ASSUME keys[k] = "alt" PROVE m.tsd["state"] = 0
      OBVIOUS
    <2>1. k = 2
      BY <1>3, <1>5, <1>10
    <2>2. CASE cleanup[t].at = 2
      BY <1>3, <2>2 DEF EndOK
    <2>3. CASE cleanup[t].at = 1
      <3>1. 1 \in 1..Len(keys)
        BY <1>3, <1>5
      <3> QED
        BY <1>10, <1>11, <2>1, <2>3, <3>1
    <2> QED
      BY <1>3, <1>5, <2>1, <2>2, <2>3
  <1>13. d.tsd["state"] # 0 => d.tsd["alt"] # 0
    <2>1. CASE keys[k] = "alt"
      BY <1>8, <1>9, <1>12, <2>1
    <2>2. CASE keys[k] # "alt"
      BY <1>4, <1>6, <1>8, <1>9, <2>2
    <2> QED
      BY <2>1, <2>2
  <1>14. Hung(is, d, keys)
    BY <1>4, <1>9 DEF Hung
  <1>15. FramesOK(is, t, d, <<>>) /\ <<>> \in Seq(Handlers)
    BY FramesEmpty
  <1>16. Sets(handler, handler', t, handler[t]) /\ Sets(live, live', t, live[t])
    BY <1>2, Unchanged
  <1> DEFINE h == handler[t]
             l == live[t]
  <1>17. CASE keys[k] # GuestKey
    <2> DEFINE s == stack[t]
    <2>1. Sets(mem, mem', t, d) /\ UNCHANGED <<keys, stack, late>>
      BY <1>1, <1>17 DEF Sets
    <2>2. Sets(stack, stack', t, s) /\ KeysOK(is, keys') /\ Grow(keys, keys')
      BY <1>4, <2>1, Unchanged, SameKeys
    <2>3. c.at = 2 => d.tsd["state"] = 0
      BY <1>5, <1>6, <1>7, <1>10
    <2>4. c.round = Rounds /\ t \notin late => \A j \in 1..Len(keys) : j < c.at => d.tsd[keys[j]] = 0
      <3> SUFFICES ASSUME c.round = Rounds, t \notin late, NEW j \in 1..Len(keys), j < c.at
                   PROVE  d.tsd[keys[j]] = 0
        OBVIOUS
      <3>1. cleanup[t].at = 1 \/ \A i \in 1..Len(keys) : i < cleanup[t].at => m.tsd[keys[i]] = 0
        BY <1>3, <1>7 DEF EndOK
      <3>2. j = k \/ (j < k /\ cleanup[t].at <= j) \/ j < cleanup[t].at
        BY <1>3, <1>5, <1>7
      <3>3. j < cleanup[t].at => m.tsd[keys[j]] = 0
        BY <1>3, <3>1
      <3>4. j = k \/ m.tsd[keys[j]] = 0
        BY <1>11, <3>2, <3>3
      <3> QED
        BY <1>3, <1>6, <1>9, <3>4
    <2> HIDE DEF c, d
    <2>5. EndOK(t, d, s, h, l, c, keys, late)
      BY <1>3, <1>7, <2>3, <2>4 DEF EndOK
    <2>6. ThreadOK(is, t, d, s, h, l, c, keys', late')
      BY <1>3, <1>6, <1>7, <1>13, <1>14, <1>15, <2>1, <2>5 DEF ThreadOK
    <2> HIDE DEF s, h, l
    <2> QED
      BY <1>2, <1>7, <1>16, <2>1, <2>2, <2>6, ThreadStep DEF h, l
  <1>18. CASE keys[k] = GuestKey
    <2> DEFINE kind == "key"
               n == xl_current_state(d)
               s == Append(stack[t], GuestFrame(kind, n))
    <2>1. /\ Sets(mem, mem', t, n) /\ Sets(stack, stack', t, s) /\ keys' = Create(keys, <<"state", "alt">>)
          /\ late' = IF cleanup[t].round = Rounds THEN late \cup {t} ELSE late
      BY <1>1, <1>18 DEF xl_invoke, Sets
    <2>2. kind \in Kinds /\ (kind = "thread" => t # Main)
      BY DEF Kinds
    <2> HIDE DEF kind, d
    <2>3. EntersOK(is, t, s, n, keys, Create(keys, <<"state", "alt">>)) /\ s # <<>>
      <3>1. FramesOK(is, t, d, stack[t])
        BY <1>3, <1>15
      <3> QED
        BY <1>4, <1>6, <1>13, <1>14, <2>2, <3>1, Invoked
    <2> HIDE DEF n, s
    <2>4. /\ MemOK(is, n) /\ Hung(is, n, keys') /\ FramesOK(is, t, n, s)
          /\ KeysOK(is, keys') /\ Grow(keys, keys') /\ n.tsd["alt"] # 0
      BY <2>1, <2>3 DEF EntersOK
    <2>5. c.at # 2
      BY <1>5, <1>7, <1>10, <1>18 DEF GuestKey
    <2>6. c.round = Rounds => t \in late'
      BY <1>7, <2>1
    <2> HIDE DEF c
    <2>7. EndOK(t, n, s, h, l, c, keys', late')
      BY <1>3, <1>7, <2>5, <2>6 DEF EndOK
    <2>8. ThreadOK(is, t, n, s, h, l, c, keys', late')
      BY <1>3, <1>7, <1>15, <2>4, <2>7 DEF ThreadOK
    <2>9. late' = late \/ late' = late \cup {t}
      BY <2>1
    <2> HIDE DEF h, l
    <2> QED
      BY <1>2, <1>7, <1>16, <2>1, <2>4, <2>8, <2>9, ThreadStep DEF h, l
  <1> QED
    BY <1>17, <1>18

----------------------------------------------------------------------------
(* The list of destructors grows by one at a time and may move.            *)
LEMMA ListInv ==
    ASSUME ListOK, [Next]_vars
    PROVE  ListOK'
  <1>1. CASE UNCHANGED list
    BY <1>1 DEF ListOK
  <1>2. ASSUME NEW t \in Threads, xl_manual_cxa_atexit(t)
        PROVE  ListOK'
    <2>1. PICK S : list.items \in Seq(S)
      BY DEF ListOK
    <2> DEFINE x == [number |-> Len(list.items) + 1, image |-> InInitializer(t)]
               T == S \cup {x}
               items == list.items
    <2>2. PICK move \in {0, 1} : list' = [items |-> Append(list.items, x), moves |-> list.moves + move]
      BY <1>2 DEF xl_manual_cxa_atexit
    <2> HIDE DEF x
    <2>3. items \in Seq(T)
      BY <2>1
    <2>4. x \in T
      OBVIOUS
    <2> HIDE DEF T, items
    <2>5. Append(items, x) \in Seq(T)
      BY <2>3, <2>4
    <2>6. list'.items = Append(items, x) /\ list'.moves = list.moves + move
      BY <2>2 DEF items
    <2>7. list'.moves \in Nat
      BY <2>6 DEF ListOK
    <2> QED
      BY <2>5, <2>6, <2>7 DEF ListOK
  <1>3. CASE UNCHANGED vars
    BY <1>1, <1>3 DEF vars, exitVars
  <1>4. CASE Setup \/ xl_run_initializers \/ main
    BY <1>1, <1>4 DEF Setup, xl_run_initializers, main, exitVars
  <1>5. ASSUME NEW t \in Threads, GuestStep(t)
        PROVE  ListOK'
    BY <1>1, <1>2, <1>5 DEF GuestStep, SpawnThread, CallBack, xl_tlv_get, SetKey, GuestLeaves, GuestExits,
           xl_fault, Signal, exitVars
  <1>6. ASSUME NEW t \in Threads, HostStep(t)
        PROVE  ListOK'
    BY <1>1, <1>6 DEF HostStep, Return, KeyDestructor, NextRound, xl_note_exit, xl_run_cxa_dtors, LoadList,
           CallDestructor, EndOfExit, xl_crash_handler, xl_signal_note, xl_walk_guest, Raise, exitVars
  <1> QED
    BY <1>3, <1>4, <1>5, <1>6 DEF Next

LEMMA NextInv ==
    ASSUME NEW is, RegionsOK(is), IInv(is), ListOK, [Next]_vars
    PROVE  IInv(is)'
  <1>1. CASE UNCHANGED vars
    BY <1>1, Stutter DEF vars, startVars, threadVars, signalVars
  <1>2. CASE Setup \/ xl_run_initializers \/ main
    BY <1>2, SetupInv, RunInitializersInv, MainInv
  <1>3. ASSUME NEW t \in Threads, GuestStep(t)
        PROVE  IInv(is)'
    BY <1>3, SpawnThreadInv, CallBackInv, CxaAtexitInv, TlvGetInv, SetKeyInv, GuestLeavesInv, GuestExitsInv,
       FaultInv, SignalInv DEF GuestStep
  <1>4. ASSUME NEW t \in Threads, HostStep(t)
        PROVE  IInv(is)'
    BY <1>4, ReturnInv, KeyDestructorInv, NextRoundInv, NoteExitInv, RunCxaDtorsInv, LoadListInv,
       CallDestructorInv, RaiseInv, CrashHandlerInv, SignalNoteInv, WalkGuestInv DEF HostStep
  <1> QED
    BY <1>1, <1>2, <1>3, <1>4 DEF Next

LEMMA FreshOK ==
    ASSUME NEW is, NEW a \in Int
    PROVE  MemOK(is, Fresh(is, a)) /\ \A k \in KeyNames(is) : Fresh(is, a).tsd[k] = 0
  <1>1. /\ Fresh(is, a) \in Memories(is)
        /\ \A k \in KeyNames(is) : /\ Fresh(is, a).tsd[k] = 0 /\ Fresh(is, a).made[k] = 0
                                   /\ Fresh(is, a).freed[k] = {}
    BY DEF Fresh, Memories
  <1>2. "alt" \in KeyNames(is) /\ (1..0) \ {0} = {}
    BY Names
  <1> QED
    BY <1>1, <1>2 DEF MemOK

LEMMA InitInv ==
    ASSUME NEW is, NEW f, NEW a, ProcessInit(is, f, a)
    PROVE  IInv(is) /\ ListOK
  <1>1. /\ images = is /\ keys = <<>> /\ late = {}
        /\ live = [t \in Threads |-> IF t = Main THEN "running" ELSE "no"]
        /\ stack = [t \in Threads |-> <<>>] /\ handler = [t \in Threads |-> <<>>]
        /\ cleanup = [t \in Threads |-> FirstRound]
        /\ mem = [t \in Threads |-> Fresh(is, IF t = Main THEN Static ELSE 0)]
        /\ list = [items |-> <<>>, moves |-> 0]
    BY DEF ProcessInit, xl_install_crash_handler
  <1>2. \A b \in {Static, 0} : MemOK(is, Fresh(is, b)) /\ \A k \in KeyNames(is) : Fresh(is, b).tsd[k] = 0
    BY FreshOK DEF Static
  <1>3. KeysOK(is, keys)
    <2>1. Range(<<>>) = {}
      BY DEF Range
    <2> QED
      BY <1>1, <2>1 DEF KeysOK
  <1>4. ASSUME NEW t \in Threads
        PROVE  /\ ThreadOK(is, t, mem[t], stack[t], handler[t], live[t], cleanup[t], keys, late)
               /\ mem[t] \in Memories(is) /\ stack[t] \in Seq(Frames(is)) /\ handler[t] \in Seq(Handlers)
               /\ cleanup[t] \in Cleanups /\ live[t] \in {"no", "running", "ending", "gone"}
    <2> DEFINE b == IF t = Main THEN Static ELSE 0
               m == Fresh(is, b)
    <2>1. MemOK(is, m) /\ \A k \in KeyNames(is) : m.tsd[k] = 0
      BY <1>2
    <2>2. mem[t] = m /\ stack[t] = <<>> /\ handler[t] = <<>> /\ cleanup[t] = FirstRound
      BY <1>1
    <2>3. live[t] \in {"no", "running"} /\ (t = Main => live[t] = "running")
      BY <1>1
    <2> HIDE DEF m
    <2>4. Hung(is, m, keys) /\ m.tsd["state"] = 0
      BY <2>1, Names DEF Hung
    <2>5. FramesOK(is, t, m, <<>>) /\ <<>> \in Seq(Handlers) /\ <<>> \in Seq(Frames(is))
      BY FramesEmpty
    <2>6. FirstRound \in Cleanups /\ FirstRound.at = 1
      BY FirstRoundOK
    <2>7. EndOK(t, m, <<>>, <<>>, live[t], FirstRound, keys, late)
      BY <2>3, <2>6 DEF EndOK
    <2>8. ThreadOK(is, t, m, <<>>, <<>>, live[t], FirstRound, keys, late)
      BY <2>1, <2>3, <2>4, <2>5, <2>6, <2>7 DEF ThreadOK
    <2> QED
      BY <2>1, <2>2, <2>3, <2>5, <2>6, <2>8 DEF MemOK
  <1>5. Tables(is)
    BY <1>1, <1>4 DEF Tables
  <1>6. ListOK
    <2>1. <<>> \in Seq({}) /\ list.items = <<>> /\ list.moves = 0
      BY <1>1
    <2> QED
      BY <2>1 DEF ListOK
  <1> QED
    BY <1>1, <1>3, <1>4, <1>5, <1>6 DEF IInv

----------------------------------------------------------------------------
(* What the keys of every thread hold, and that its frames stand on it,    *)
(* whatever the guest does (runtime/runtime.c, xl_current_state,           *)
(* xl_thread_altstack and their key destructors; runtime/bridge.m,         *)
(* xl_tlv_get).                                                            *)
THEOREM Invariance ==
    ASSUME NEW is, RegionsOK(is), NEW f, NEW a
    PROVE  ProcessInit(is, f, a) /\ [][Next]_vars => [](IInv(is) /\ ListOK)
  <1>1. ProcessInit(is, f, a) => IInv(is) /\ ListOK
    BY InitInv
  <1>2. (IInv(is) /\ ListOK) /\ [Next]_vars => (IInv(is) /\ ListOK)'
    BY NextInv, ListInv
  <1> QED
    BY <1>1, <1>2, PTL

(* A block that a key holds is made and not freed.                         *)
LEMMA HeldIsLive ==
    ASSUME NEW is, IInv(is), NEW t \in Threads, NEW k \in KeyNames(is), mem[t].tsd[k] # 0
    PROVE  Live(t, k, mem[t].tsd[k])
  <1>1. MemOK(is, mem[t])
    BY ThreadFacts
  <1>2. mem[t].tsd[k] \in Nat /\ mem[t].made[k] \in Nat
    BY <1>1, Fields DEF MemOK
  <1>3. mem[t].tsd[k] <= mem[t].made[k] /\ mem[t].freed[k] = (1..mem[t].made[k]) \ {mem[t].tsd[k]}
    BY <1>1 DEF MemOK
  <1> QED
    BY <1>2, <1>3 DEF Live

(* A variable lies inside the block of its image.                          *)
LEMMA OffsetFits ==
    ASSUME NEW is, RegionsOK(is), images = is, NEW r \in Range(TlvRegions(is)), NEW v \in r.variables
    PROVE  v < SizeOf(r.key)
  <1> DEFINE rs == TlvRegions(is)
             q == CHOOSE x \in Regions : x.key = r.key
  <1>1. /\ \A i, j \in DOMAIN rs : rs[i].key = rs[j].key => i = j
        /\ \A i \in DOMAIN rs : \A w \in rs[i].variables : w < rs[i].total
    BY DEF RegionsOK
  <1>2. q \in Regions /\ q.key = r.key
    BY DEF Regions
  <1>3. Regions = Range(rs)
    BY DEF Regions
  <1>4. SizeOf(r.key) = q.total
    BY DEF SizeOf
  <1> HIDE DEF rs, q
  <1>5. PICK i \in DOMAIN rs : rs[i] = r
    BY DEF Range, rs
  <1>6. PICK j \in DOMAIN rs : rs[j] = q
    BY <1>2, <1>3 DEF Range
  <1>7. q = r
    BY <1>1, <1>2, <1>5, <1>6
  <1> QED
    BY <1>1, <1>4, <1>5, <1>7

(* A thread in guest code stands on its own live memory: its register      *)
(* block, the thread-local blocks it took addresses in and its alternate   *)
(* stack (xl_current_state, xl_tlv_get, xl_thread_altstack and the         *)
(* destructors of their keys, in any order).                               *)
THEOREM GuestMemoryIsLiveHolds ==
    ASSUME NEW is, RegionsOK(is), NEW f, NEW a
    PROVE  ProcessInit(is, f, a) /\ [][Next]_vars => []GuestMemoryIsLive
  <1>1. IInv(is) => GuestMemoryIsLive
    <2> SUFFICES ASSUME IInv(is), NEW t \in Threads, ~ Empty(t), Top(t).kind # "exit"
                 PROVE  /\ Top(t).state = mem[t].tsd["state"] /\ Live(t, "state", Top(t).state)
                        /\ \A h \in Top(t).held : Live(t, h.key, h.block) /\ h.offset < SizeOf(h.key)
                        /\ Live(t, "alt", mem[t].altstack)
      BY DEF GuestMemoryIsLive
    <2>1. images = is /\ MemOK(is, mem[t]) /\ FramesOK(is, t, mem[t], stack[t]) /\ stack[t] # <<>>
      BY ThreadFacts DEF Empty
    <2>2. Top(t) \in Frames(is) /\ FrameOK(is, t, mem[t], Top(t))
      BY <2>1, TopFrame DEF Top
    <2>3. Top(t) \in GuestFrames(is)
      BY <2>2 DEF Frames, ExitFrames
    <2>4. /\ Top(t).state = mem[t].tsd["state"] /\ Top(t).state # 0 /\ mem[t].tsd["alt"] # 0
          /\ \A x \in Top(t).held : HoldOK(is, mem[t], x)
      BY <2>2 DEF FrameOK
    <2>5. "state" \in KeyNames(is) /\ "alt" \in KeyNames(is) /\ mem[t].altstack = mem[t].tsd["alt"]
      BY <2>1, <2>4, Names DEF MemOK
    <2>6. Live(t, "state", Top(t).state) /\ Live(t, "alt", mem[t].altstack)
      BY <2>4, <2>5, HeldIsLive
    <2>7. ASSUME NEW h \in Top(t).held
          PROVE  Live(t, h.key, h.block) /\ h.offset < SizeOf(h.key)
      <3>1. h.key \in KeyNames(is)
        BY <2>3 DEF GuestFrames, Holds
      <3>2. h.block = mem[t].tsd[h.key] /\ h.block # 0
        BY <2>4 DEF HoldOK
      <3>3. PICK r \in Range(TlvRegions(is)) : h.key = r.key /\ h.offset \in r.variables
        BY <2>4 DEF HoldOK
      <3>4. Live(t, h.key, h.block)
        BY <3>1, <3>2, HeldIsLive
      <3>5. h.offset < SizeOf(r.key)
        BY <2>1, <3>3, OffsetFits
      <3> QED
        BY <3>3, <3>4, <3>5
    <2> QED
      BY <2>4, <2>6, <2>7
  <1> QED
    BY <1>1, Invariance, PTL

(* A thread that has ended has given all its guest memory back, unless     *)
(* guest code ran in the last round of its key destructors                 *)
(* (xl_state_destroy, xl_altstack_free and free, for the regions).         *)
THEOREM NothingLeaksHolds ==
    ASSUME NEW is, RegionsOK(is), NEW f, NEW a
    PROVE  ProcessInit(is, f, a) /\ [][Next]_vars => []NothingLeaks
  <1>1. IInv(is) => NothingLeaks
    <2> SUFFICES ASSUME IInv(is), NEW t \in Threads \ late, live[t] = "gone", NEW k \in DOMAIN mem[t].made
                 PROVE  mem[t].freed[k] = 1..mem[t].made[k]
      BY DEF NothingLeaks
    <2>1. /\ MemOK(is, mem[t])
          /\ ThreadOK(is, t, mem[t], stack[t], handler[t], live[t], cleanup[t], keys, late)
      BY ThreadFacts
    <2>2. mem[t].tsd \in [KeyNames(is) -> Nat] /\ mem[t].made \in [KeyNames(is) -> Nat]
      BY <2>1, Fields DEF MemOK
    <2>3. \A j \in DOMAIN mem[t].tsd : mem[t].tsd[j] = 0
      BY <2>1 DEF ThreadOK, EndOK
    <2>4. k \in KeyNames(is) /\ mem[t].tsd[k] = 0 /\ mem[t].made[k] \in Nat
      BY <2>2, <2>3
    <2>5. mem[t].freed[k] = (1..mem[t].made[k]) \ {mem[t].tsd[k]}
      BY <2>1, <2>4 DEF MemOK
    <2>6. (1..mem[t].made[k]) \ {0} = 1..mem[t].made[k]
      BY <2>4, Freed
    <2> QED
      BY <2>4, <2>5, <2>6
  <1> QED
    BY <1>1, Invariance, PTL

-----------------------------------------------------------------------------
(* Instance variables: the calls of xl_fix_layout that are under way, and  *)
(* what those that have returned leave behind.                             *)

(* A class has been moved when its call has returned.                      *)
Moved(f, k, c) == c \in f /\ \A i \in 1..Len(k) : k[i] # c

Below(cs, hs, t, r, c) ==
    CASE cs[c].super.kind = "import" -> hs[cs[c].super.class]
      [] cs[c].super.kind = "local" /\ cs[c].super.class \in Range(t) -> r[cs[c].super.class].size
      [] OTHER -> 0

(* All of a class moved up by the same distance, above its superclass.     *)
Placed(cs, hs, t, r, o, c) ==
    \E d \in Nat :
        /\ r[c].start = cs[c].start + d /\ r[c].size = cs[c].size + d
        /\ \A i \in DOMAIN cs[c].ivars : o[c][i] = OffsetValue(cs[c].ivars[i]) + d
        /\ cs[c].start + d >= Below(cs, hs, t, r, c)

(* The calls under way are of classes each below the next; what has been   *)
(* moved is final, and so is its superclass.                               *)
LayoutInv(cs, hs, t, rank) ==
    /\ classes = cs /\ hostSize = hs /\ table = t
    /\ fixed \subseteq Range(t) /\ calls \in Seq(Range(t))
    /\ \A i \in 1..Len(calls) : calls[i] \in fixed
    /\ \A i, j \in 1..Len(calls) : i < j => rank[calls[j]] < rank[calls[i]]
    /\ next \in Nat \ {0} /\ \A i \in 1..Len(t) : i < next => t[i] \in fixed
    /\ fate = "done" => calls = <<>> /\ next > Len(t)
    /\ fate # "refused" => LayoutErrors(cs, t) = {}
    /\ DOMAIN ro = Range(t) /\ DOMAIN offsets = Range(t)
    /\ \A c \in Range(t) : Moved(fixed, calls, c) =>
        /\ Placed(cs, hs, t, ro, offsets, c)
        /\ cs[c].super.kind = "local" /\ cs[c].super.class \in Range(t) => Moved(fixed, calls, cs[c].super.class)

RankOK(cs, hs, t, rank) == LayoutsOK(cs, hs, t) /\ rank \in [DOMAIN cs -> Nat] /\ Ranked(cs, rank)

LEMMA Rank ==
    ASSUME NEW cs, NEW hs, NEW t, LayoutsOK(cs, hs, t)
    PROVE  \E rank : RankOK(cs, hs, t, rank)
  <1>1. Cardinality(DOMAIN cs) \in Nat
    BY FS_CardinalityType DEF LayoutsOK
  <1>2. PICK rank \in [DOMAIN cs -> 0..Cardinality(DOMAIN cs)] : Ranked(cs, rank)
    BY DEF LayoutsOK
  <1>3. rank \in [DOMAIN cs -> Nat]
    BY <1>1, <1>2
  <1> QED
    BY <1>2, <1>3 DEF RankOK

LEMMA TableOK ==
    ASSUME NEW cs, NEW hs, NEW t, LayoutsOK(cs, hs, t)
    PROVE  /\ t \in Seq(Range(t)) /\ Len(t) \in Nat /\ Range(t) \subseteq DOMAIN cs
           /\ \A i \in 1..Len(t) : t[i] \in Range(t)
           /\ \A c \in Range(t) : \E i \in 1..Len(t) : t[i] = c
           /\ \A c \in Range(t) : Compiled(cs[c])
  <1>1. t \in Seq(DOMAIN cs)
    BY DEF LayoutsOK
  <1>2. DOMAIN t = 1..Len(t) /\ Len(t) \in Nat /\ \A i \in 1..Len(t) : t[i] \in DOMAIN cs
    BY <1>1, StackElements
  <1>3. \A i \in 1..Len(t) : t[i] \in Range(t)
    BY <1>2 DEF Range
  <1>4. t \in Seq(Range(t))
    BY <1>1, <1>2, <1>3, IsASeq
  <1> QED
    BY <1>2, <1>3, <1>4 DEF Range, LayoutsOK

LEMMA InitLayout ==
    ASSUME NEW cs, NEW hs, NEW t, NEW rank, RankOK(cs, hs, t, rank), LayoutInit(cs, hs, t)
    PROVE  LayoutInv(cs, hs, t, rank)
  <1>1. /\ classes = cs /\ hostSize = hs /\ table = t /\ fixed = {} /\ calls = <<>> /\ next = 1
        /\ fate = IF LayoutErrors(cs, t) = {} THEN "fixing" ELSE "refused"
        /\ DOMAIN ro = Range(t) /\ DOMAIN offsets = Range(t)
    BY DEF LayoutInit
  <1>2. calls \in Seq(Range(t)) /\ Len(calls) = 0
    BY <1>1
  <1> QED
    BY <1>1, <1>2 DEF LayoutInv, Moved

(* A class is entered: it was not fixed, and nothing that was moved is     *)
(* touched.                                                                *)
LEMMA EnterInv ==
    ASSUME NEW cs, NEW hs, NEW t, NEW rank, LayoutInv(cs, hs, t, rank),
           NEW s \in Range(t), s \notin fixed, Enter(s),
           \A i \in 1..Len(calls) : rank[s] < rank[calls[i]],
           fate # "done", fate' = fate,
           UNCHANGED <<classes, hostSize, table, ro, offsets>>,
           next' \in Nat \ {0}, \A i \in 1..Len(t) : i < next' => t[i] \in fixed'
    PROVE  LayoutInv(cs, hs, t, rank)'
  <1>1. fixed' = fixed \cup {s} /\ calls' = Append(calls, s)
    BY DEF Enter
  <1>2. calls \in Seq(Range(t)) /\ Len(calls) \in Nat
    BY StackElements DEF LayoutInv
  <1>3. /\ calls' \in Seq(Range(t)) /\ Len(calls') = Len(calls) + 1 /\ calls'[Len(calls) + 1] = s
        /\ \A i \in 1..Len(calls) : calls'[i] = calls[i]
    BY <1>1, <1>2, Pushed
  <1>4. \A i \in 1..Len(calls') : calls'[i] \in fixed'
    BY <1>1, <1>2, <1>3 DEF LayoutInv
  <1>5. \A i, j \in 1..Len(calls') : i < j => rank[calls'[j]] < rank[calls'[i]]
    BY <1>2, <1>3 DEF LayoutInv
  <1>6. \A c : Moved(fixed', calls', c) <=> Moved(fixed, calls, c)
    BY <1>1, <1>2, <1>3 DEF Moved
  <1> QED
    BY <1>1, <1>3, <1>4, <1>5, <1>6 DEF LayoutInv

(* The loop over the table.                                                *)
LEMMA LoopInv ==
    ASSUME NEW cs, NEW hs, NEW t, NEW rank, RankOK(cs, hs, t, rank), LayoutInv(cs, hs, t, rank), xl_fix_layouts
    PROVE  LayoutInv(cs, hs, t, rank)'
  <1>0. /\ fate = "fixing" /\ calls = <<>> /\ Len(calls) = 0 /\ table = t /\ next \in Nat \ {0}
        /\ UNCHANGED <<classes, hostSize, table, ro, offsets>>
        /\ Len(t) \in Nat /\ \A i \in 1..Len(t) : t[i] \in Range(t)
    BY TableOK DEF xl_fix_layouts, LayoutInv, RankOK
  <1>1. CASE next <= Len(t) /\ t[next] \in fixed
    <2>1. next' = next + 1 /\ fixed' = fixed /\ calls' = calls /\ fate' = fate
      BY <1>0, <1>1 DEF xl_fix_layouts
    <2>2. \A i \in 1..Len(t) : i < next' => t[i] \in fixed
      BY <1>0, <1>1, <2>1 DEF LayoutInv
    <2> QED
      BY <1>0, <2>1, <2>2 DEF LayoutInv
  <1>2. CASE next <= Len(t) /\ t[next] \notin fixed
    <2>1. next' = next + 1 /\ Enter(t[next]) /\ fate' = fate /\ t[next] \in Range(t)
      BY <1>0, <1>2 DEF xl_fix_layouts
    <2>2. fixed' = fixed \cup {t[next]}
      BY <2>1 DEF Enter
    <2>3. \A i \in 1..Len(t) : i < next' => t[i] \in fixed'
      BY <1>0, <1>2, <2>1, <2>2 DEF LayoutInv
    <2>4. next' \in Nat \ {0} /\ fate # "done" /\ \A i \in 1..Len(calls) : rank[t[next]] < rank[calls[i]]
      BY <1>0, <2>1
    <2> QED
      BY <1>0, <1>2, <2>1, <2>3, <2>4, EnterInv
  <1>3. CASE next > Len(t)
    <2>1. fate' = "done" /\ fixed' = fixed /\ calls' = calls /\ next' = next
      BY <1>0, <1>3 DEF xl_fix_layouts
    <2> QED
      BY <1>0, <1>3, <2>1 DEF LayoutInv
  <1> QED
    BY <1>0, <1>1, <1>2, <1>3

(* The superclass a class of the table has in the table.                   *)
LEMMA FoundLayout ==
    ASSUME NEW cs, NEW hs, NEW t, NEW rank, LayoutInv(cs, hs, t, rank), NEW c
    PROVE  /\ \A s : s \in xl_find_layout(c) <=> cs[c].super.kind = "local" /\ s = cs[c].super.class /\ s \in Range(t)
           /\ cs[c].super.kind = "local" /\ cs[c].super.class \in Range(t) => xl_find_layout(c) = {cs[c].super.class}
  <1>1. Entry(c).super_guest = IF cs[c].super.kind = "local" THEN {cs[c].super.class} ELSE {}
    BY DEF Entry, LayoutInv
  <1> QED
    BY <1>1 DEF xl_find_layout, LayoutInv

LEMMA LastCall ==
    ASSUME NEW cs, NEW hs, NEW t, NEW rank, LayoutInv(cs, hs, t, rank), calls # <<>>
    PROVE  /\ Len(calls) \in Nat /\ Len(calls) > 0 /\ Last(calls) = calls[Len(calls)]
           /\ Last(calls) \in Range(t) /\ Last(calls) \in fixed
  <1>1. calls \in Seq(Range(t)) /\ Len(calls) \in Nat /\ Len(calls) > 0
    BY StackElements DEF LayoutInv
  <1>2. Last(calls) = calls[Len(calls)]
    BY DEF Last
  <1> QED
    BY <1>1, <1>2 DEF LayoutInv

LEMMA SuperInv ==
    ASSUME NEW cs, NEW hs, NEW t, NEW rank, RankOK(cs, hs, t, rank), LayoutInv(cs, hs, t, rank), FixSuper
    PROVE  LayoutInv(cs, hs, t, rank)'
  <1>1. PICK s \in xl_find_layout(Last(calls)) \ fixed : Enter(s)
    BY DEF FixSuper
  <1>2. /\ fate = "fixing" /\ calls # <<>> /\ UNCHANGED <<classes, hostSize, table, ro, offsets, next, fate>>
        /\ fixed' = fixed \cup {s}
    BY <1>1 DEF FixSuper, Enter
  <1>3. cs[Last(calls)].super.kind = "local" /\ s = cs[Last(calls)].super.class /\ s \in Range(t)
    BY <1>1, FoundLayout
  <1>4. rank[s] < rank[Last(calls)] /\ rank[s] \in Nat
    <2>1. s \in DOMAIN cs /\ Last(calls) \in DOMAIN cs
      BY <1>2, <1>3, LastCall, TableOK DEF RankOK
    <2> QED
      BY <1>3, <2>1 DEF RankOK, Ranked
  <1>5. \A i \in 1..Len(calls) : rank[s] < rank[calls[i]]
    <2>1. \A i \in 1..Len(calls) : rank[calls[i]] \in Nat
      BY <1>2, TableOK, StackElements DEF RankOK, LayoutInv
    <2>2. \A i \in 1..Len(calls) : i < Len(calls) => rank[Last(calls)] < rank[calls[i]]
      BY <1>2, LastCall DEF LayoutInv
    <2> QED
      BY <1>2, <1>4, <2>1, <2>2, LastCall
  <1>6. next' \in Nat \ {0} /\ \A i \in 1..Len(t) : i < next' => t[i] \in fixed'
    BY <1>2 DEF LayoutInv
  <1> QED
    BY <1>1, <1>2, <1>3, <1>5, <1>6, EnterInv

(* The distance a class is moved by: what is below it fits.                *)
LEMMA ShiftOK ==
    ASSUME NEW cs, NEW hs, NEW t, NEW rank, RankOK(cs, hs, t, rank), LayoutInv(cs, hs, t, rank), NEW c \in Range(t),
           cs[c].super.kind = "local" /\ cs[c].super.class \in Range(t) => Moved(fixed, calls, cs[c].super.class)
    PROVE  Shift(c) \in Nat /\ cs[c].start + Shift(c) >= Below(cs, hs, t, ro, c)
  <1>0. cs[c].start \in Nat /\ classes = cs /\ hostSize = hs /\ table = t /\ c \in DOMAIN cs
    BY TableOK DEF Compiled, LayoutInv, RankOK
  <1>1. /\ Entry(c).guest_instance_start = cs[c].start
        /\ Entry(c).super_guest = IF cs[c].super.kind = "local" THEN {cs[c].super.class} ELSE {}
        /\ Entry(c).super_host = IF cs[c].super.kind = "import" THEN {cs[c].super.class} ELSE {}
    BY <1>0 DEF Entry
  <1>2. SuperSize(c) \in Nat /\ SuperSize(c) >= Below(cs, hs, t, ro, c) /\ Below(cs, hs, t, ro, c) \in Nat
    <2>1. CASE cs[c].super.kind = "local" /\ cs[c].super.class \in Range(t)
      <3> DEFINE s == cs[c].super.class
      <3>1. xl_find_layout(c) = {s}
        BY <2>1, FoundLayout
      <3>2. (CHOOSE x \in xl_find_layout(c) : TRUE) = s
        BY <3>1
      <3>3. SuperSize(c) = ro[s].size
        BY <1>1, <2>1, <3>1, <3>2 DEF SuperSize
      <3>4. Below(cs, hs, t, ro, c) = ro[s].size
        BY <2>1 DEF Below
      <3>5. ro[s].size \in Nat
        <4>1. Placed(cs, hs, t, ro, offsets, s) /\ cs[s].size \in Nat
          BY <2>1, TableOK DEF LayoutInv, RankOK, Compiled
        <4>2. \E d \in Nat : ro[s].size = cs[s].size + d
          BY <4>1, Zenon DEF Placed
        <4> QED
          BY <4>1, <4>2
      <3> QED
        BY <3>3, <3>4, <3>5
    <2>2. CASE cs[c].super.kind = "local" /\ cs[c].super.class \notin Range(t)
      <3>1. xl_find_layout(c) = {}
        BY <2>2, FoundLayout
      <3> QED
        BY <1>1, <2>2, <3>1 DEF SuperSize, Below
    <2>3. CASE cs[c].super.kind = "import"
      <3> DEFINE h == cs[c].super.class
      <3>1. hs[h] \in Nat
        BY <1>0, <2>3 DEF RankOK, LayoutsOK
      <3>2. Entry(c).super_guest = {} /\ Entry(c).super_host = {h} /\ (CHOOSE x \in {h} : TRUE) = h
        BY <1>1, <2>3
      <3>3. SuperSize(c) = IF hs[h] # 0 THEN hs[h] ELSE cs[c].start
        BY <1>0, <1>1, <3>2 DEF SuperSize
      <3>4. Below(cs, hs, t, ro, c) = hs[h]
        BY <2>3 DEF Below
      <3> QED
        BY <1>0, <3>1, <3>3, <3>4
    <2>4. CASE cs[c].super.kind \notin {"local", "import"}
      BY <1>0, <1>1, <2>4 DEF SuperSize, Below
    <2> QED
      BY <2>1, <2>2, <2>3, <2>4
  <1>3. Shift(c) = IF SuperSize(c) - cs[c].start < 0 THEN 0 ELSE SuperSize(c) - cs[c].start
    BY <1>1 DEF Shift
  <1> QED
    BY <1>0, <1>2, <1>3

(* The last call returns: its class is moved, its superclass was.          *)
LEMMA ClassInv ==
    ASSUME NEW cs, NEW hs, NEW t, NEW rank, RankOK(cs, hs, t, rank), LayoutInv(cs, hs, t, rank), FixClass
    PROVE  LayoutInv(cs, hs, t, rank)'
  <1> DEFINE c == Last(calls)
             moved == [i \in DOMAIN Entry(c).ivars |-> Entry(c).ivars[i] + Shift(c)]
             stuck == {i \in DOMAIN moved : classes[c].ivars[i].readonly /\ offsets[c][i] # moved[i]}
  <1>0. /\ fate = "fixing" /\ calls # <<>> /\ xl_find_layout(c) \subseteq fixed
        /\ UNCHANGED <<classes, hostSize, table, fixed, next>>
        /\ classes = cs /\ hostSize = hs /\ table = t
        /\ DOMAIN ro = Range(t) /\ DOMAIN offsets = Range(t)
    BY DEF FixClass, LayoutInv
  <1>1. /\ Len(calls) \in Nat /\ Len(calls) > 0 /\ c = calls[Len(calls)] /\ c \in Range(t) /\ c \in fixed
        /\ calls \in Seq(Range(t)) /\ c \in DOMAIN cs
    BY <1>0, LastCall, TableOK, ZenonT(60) DEF LayoutInv, RankOK
  <1>2. ~ Moved(fixed, calls, c)
    BY <1>1 DEF Moved
  <1>3. cs[c].super.kind = "local" /\ cs[c].super.class \in Range(t) => Moved(fixed, calls, cs[c].super.class)
    <2> SUFFICES ASSUME cs[c].super.kind = "local", cs[c].super.class \in Range(t)
                 PROVE  Moved(fixed, calls, cs[c].super.class)
      OBVIOUS
    <2> DEFINE s == cs[c].super.class
    <2>1. s \in fixed
      BY <1>0, FoundLayout
    <2>2. rank[s] < rank[c] /\ \A x \in Range(t) : rank[x] \in Nat
      BY <1>1, TableOK DEF RankOK, Ranked
    <2>3. \A i \in 1..Len(calls) : i < Len(calls) => rank[c] < rank[calls[i]]
      BY <1>1 DEF LayoutInv
    <2>4. \A i \in 1..Len(calls) : rank[s] < rank[calls[i]]
      <3>1. \A i \in 1..Len(calls) : calls[i] \in Range(t)
        BY <1>1, StackElements
      <3> QED
        BY <1>1, <2>2, <2>3, <3>1
    <2>5. \A i \in 1..Len(calls) : calls[i] # s
      BY <2>2, <2>4
    <2> QED
      BY <2>1, <2>5 DEF Moved
  <1>4. CASE stuck # {}
    <2>1. fate' = "abort" /\ ro' = ro /\ calls' = calls
      BY <1>4 DEF FixClass
    <2>2. offsets' = [offsets EXCEPT ![c] = [i \in DOMAIN moved |->
                          IF \E j \in stuck : j <= i THEN offsets[c][i] ELSE moved[i]]]
      BY <1>4 DEF FixClass
    <2>3. DOMAIN offsets' = Range(t) /\ \A x \in Range(t) \ {c} : offsets'[x] = offsets[x]
      BY <1>0, <2>2
    <2>4. \A x \in Range(t) \ {c} : Placed(cs, hs, t, ro, offsets, x) => Placed(cs, hs, t, ro', offsets', x)
      BY <2>1, <2>3 DEF Placed
    <2>5. \A x \in Range(t) : Moved(fixed, calls, x) => Placed(cs, hs, t, ro', offsets', x)
      BY <1>2, <2>4 DEF LayoutInv
    <2> QED
      BY <1>0, <2>1, <2>3, <2>5 DEF LayoutInv
  <1>5. CASE stuck = {}
    <2>1. /\ offsets' = [offsets EXCEPT ![c] = moved] /\ calls' = Front(calls) /\ fate' = fate
          /\ ro' = [ro EXCEPT ![c] = [start |-> Entry(c).guest_instance_start + Shift(c),
                                      size |-> Entry(c).guest_instance_size + Shift(c)]]
      BY <1>5 DEF FixClass
    <2>2. calls' = Popped(calls)
      BY <2>1 DEF Front, Popped
    <2>3. /\ calls' \in Seq(Range(t)) /\ Len(calls') = Len(calls) - 1
          /\ \A i \in 1..(Len(calls) - 1) : calls'[i] = calls[i]
      BY <1>0, <1>1, <2>2, TopPopped
    <2>4. /\ DOMAIN ro' = Range(t) /\ DOMAIN offsets' = Range(t)
          /\ \A x \in Range(t) \ {c} : ro'[x] = ro[x] /\ offsets'[x] = offsets[x]
          /\ ro'[c].start = cs[c].start + Shift(c) /\ ro'[c].size = cs[c].size + Shift(c)
          /\ \A i \in DOMAIN cs[c].ivars : offsets'[c][i] = OffsetValue(cs[c].ivars[i]) + Shift(c)
      <3>1. /\ Entry(c).guest_instance_start = cs[c].start /\ Entry(c).guest_instance_size = cs[c].size
            /\ Entry(c).ivars = [i \in DOMAIN cs[c].ivars |-> OffsetValue(cs[c].ivars[i])]
        BY <1>0 DEF Entry
      <3>2. moved = [i \in DOMAIN cs[c].ivars |-> OffsetValue(cs[c].ivars[i]) + Shift(c)]
        BY <3>1
      <3> QED
        BY <1>0, <1>1, <2>1, <3>1, <3>2
    <2>5. \A x : Moved(fixed', calls', x) <=> x = c \/ Moved(fixed, calls, x)
      <3>1. \A i \in 1..(Len(calls) - 1) : calls[i] # c
        <4>1. \A i \in 1..(Len(calls) - 1) : rank[c] < rank[calls[i]]
          BY <1>1 DEF LayoutInv
        <4>2. rank[c] \in Nat
          BY <1>1 DEF RankOK
        <4> QED
          BY <4>1, <4>2
      <3> QED
        BY <1>0, <1>1, <2>3, <3>1, SMTT(40) DEF Moved
    <2>6. \A x \in Range(t) \ {c} : Moved(fixed, calls, x) =>
              Placed(cs, hs, t, ro', offsets', x)
      <3> SUFFICES ASSUME NEW x \in Range(t) \ {c}, Moved(fixed, calls, x) PROVE Placed(cs, hs, t, ro', offsets', x)
        OBVIOUS
      <3>1. Placed(cs, hs, t, ro, offsets, x)
        BY DEF LayoutInv
      <3>2. cs[x].super.kind = "local" /\ cs[x].super.class \in Range(t) => cs[x].super.class # c
        BY <1>2 DEF LayoutInv
      <3>3. Below(cs, hs, t, ro', x) = Below(cs, hs, t, ro, x)
        BY <2>4, <3>2 DEF Below
      <3> QED
        BY <2>4, <3>1, <3>3 DEF Placed
    <2>7. Placed(cs, hs, t, ro', offsets', c)
      <3>1. Shift(c) \in Nat /\ cs[c].start + Shift(c) >= Below(cs, hs, t, ro, c)
        BY <1>1, <1>3, ShiftOK
      <3>2. cs[c].super.kind = "local" /\ cs[c].super.class \in Range(t) => cs[c].super.class # c
        BY <1>2, <1>3
      <3>3. Below(cs, hs, t, ro', c) = Below(cs, hs, t, ro, c)
        BY <2>4, <3>2 DEF Below
      <3> QED
        BY <2>4, <3>1, <3>3 DEF Placed
    <2>8. \A x \in Range(t) : Moved(fixed', calls', x) =>
              /\ Placed(cs, hs, t, ro', offsets', x)
              /\ cs[x].super.kind = "local" /\ cs[x].super.class \in Range(t) =>
                     Moved(fixed', calls', cs[x].super.class)
      BY <1>3, <2>5, <2>6, <2>7 DEF LayoutInv
    <2>9. /\ \A i \in 1..Len(calls') : calls'[i] \in fixed
          /\ \A i, j \in 1..Len(calls') : i < j => rank[calls'[j]] < rank[calls'[i]]
      BY <1>1, <2>3 DEF LayoutInv
    <2>10. next \in Nat \ {0} /\ (\A i \in 1..Len(t) : i < next => t[i] \in fixed) /\ LayoutErrors(cs, t) = {}
           /\ fixed \subseteq Range(t)
      BY <1>0 DEF LayoutInv
    <2> QED
      BY <1>0, <2>1, <2>3, <2>4, <2>8, <2>9, <2>10 DEF LayoutInv
  <1> QED
    BY <1>4, <1>5

LEMMA LayoutStep ==
    ASSUME NEW cs, NEW hs, NEW t, NEW rank, RankOK(cs, hs, t, rank), LayoutInv(cs, hs, t, rank), [Next]_vars
    PROVE  LayoutInv(cs, hs, t, rank)'
  <1>1. FixLayouts \/ UNCHANGED layoutVars
    BY ZenonT(60) DEF Next, vars, Setup, xl_run_initializers, main, GuestStep, HostStep, SpawnThread, CallBack,
           xl_manual_cxa_atexit, xl_tlv_get, SetKey, GuestLeaves, GuestExits, xl_fault, Signal, Return,
           KeyDestructor, NextRound, xl_note_exit, xl_run_cxa_dtors, LoadList, CallDestructor, EndOfExit,
           xl_crash_handler, xl_signal_note, xl_walk_guest, Raise
  <1>2. CASE UNCHANGED layoutVars
    BY <1>2 DEF LayoutInv, layoutVars
  <1> QED
    BY <1>1, <1>2, LoopInv, SuperInv, ClassInv DEF FixLayouts

(* What the layouts come to when the loop is over.                         *)
LEMMA FixedFit ==
    ASSUME NEW cs, NEW hs, NEW t, NEW rank, RankOK(cs, hs, t, rank), LayoutInv(cs, hs, t, rank)
    PROVE  IvarsFit
  <1> SUFFICES ASSUME fate = "done", NEW c \in Range(table)
               PROVE  /\ ro[c].start >= BelowOf(c)
                      /\ \A i \in DOMAIN classes[c].ivars :
                          /\ \A w \in Slot(c, i) : w >= BelowOf(c) /\ w < ro[c].size
                          /\ \A j \in DOMAIN classes[c].ivars \ {i} : Slot(c, i) \cap Slot(c, j) = {}
    BY DEF IvarsFit
  <1>0. classes = cs /\ hostSize = hs /\ table = t /\ calls = <<>> /\ Len(calls) = 0 /\ c \in Range(t)
    BY DEF LayoutInv
  <1>1. Moved(fixed, calls, c)
    <2>1. PICK i \in 1..Len(t) : t[i] = c
      BY <1>0, TableOK DEF RankOK
    <2>2. next > Len(t) /\ Len(t) \in Nat /\ next \in Nat /\ \A k \in 1..Len(t) : k < next => t[k] \in fixed
      BY TableOK DEF LayoutInv, RankOK
    <2> QED
      BY <1>0, <2>1, <2>2 DEF Moved
  <1>2. PICK d \in Nat :
            /\ ro[c].start = cs[c].start + d /\ ro[c].size = cs[c].size + d
            /\ \A i \in DOMAIN cs[c].ivars : offsets[c][i] = OffsetValue(cs[c].ivars[i]) + d
            /\ cs[c].start + d >= Below(cs, hs, t, ro, c)
    BY <1>0, <1>1 DEF LayoutInv, Placed
  <1>3. Compiled(cs[c]) /\ c \in DOMAIN cs
    BY <1>0, TableOK DEF RankOK
  <1>4. BelowOf(c) = Below(cs, hs, t, ro, c)
    BY <1>0 DEF BelowOf, Below
  <1>5. BelowOf(c) \in Nat
    <2>1. CASE cs[c].super.kind = "local" /\ cs[c].super.class \in Range(t)
      <3>1. Placed(cs, hs, t, ro, offsets, cs[c].super.class) /\ cs[cs[c].super.class].size \in Nat
        BY <1>0, <1>1, <2>1, TableOK DEF LayoutInv, RankOK, Compiled
      <3>2. ro[cs[c].super.class].size \in Nat
        <4>1. \E e \in Nat : ro[cs[c].super.class].size = cs[cs[c].super.class].size + e
          BY <3>1, Zenon DEF Placed
        <4> QED
          BY <3>1, <4>1
      <3>3. Below(cs, hs, t, ro, c) = ro[cs[c].super.class].size
        BY <2>1 DEF Below
      <3> QED
        BY <1>4, <3>2, <3>3
    <2>2. CASE cs[c].super.kind = "import"
      BY <1>3, <1>4, <2>2 DEF Below, RankOK, LayoutsOK
    <2>3. CASE cs[c].super.kind # "import" /\ ~ (cs[c].super.kind = "local" /\ cs[c].super.class \in Range(t))
      BY <1>4, <2>3 DEF Below
    <2> QED
      BY <2>1, <2>2, <2>3
  <1>6. \A i \in DOMAIN cs[c].ivars : OffsetValue(cs[c].ivars[i]) = cs[c].ivars[i].at
    <2> SUFFICES ASSUME NEW i \in DOMAIN cs[c].ivars, ~ cs[c].ivars[i].known PROVE FALSE
      BY DEF OffsetValue
    <2>1. cs[c].start \in Nat /\ cs[c].start # 0
      BY <1>3 DEF Compiled
    <2>2. OffsetValue(cs[c].ivars[i]) < cs[c].start
      BY <2>1 DEF OffsetValue
    <2>3. c \in LayoutErrors(cs, t)
      BY <1>0, <2>2 DEF LayoutErrors
    <2> QED
      BY <2>3 DEF LayoutInv
  <1>7. \A i \in DOMAIN cs[c].ivars :
            /\ cs[c].ivars[i].at \in Nat /\ cs[c].ivars[i].width \in Nat
            /\ offsets[c][i] = cs[c].ivars[i].at + d
            /\ cs[c].start <= cs[c].ivars[i].at
            /\ cs[c].ivars[i].at + cs[c].ivars[i].width <= cs[c].size
    BY <1>2, <1>3, <1>6 DEF Compiled
  <1>8. \A i \in DOMAIN cs[c].ivars : \A w \in Slot(c, i) : w >= BelowOf(c) /\ w < ro[c].size
    <2> SUFFICES ASSUME NEW i \in DOMAIN cs[c].ivars, NEW w \in Slot(c, i)
                 PROVE  w >= BelowOf(c) /\ w < ro[c].size
      OBVIOUS
    <2>1. Slot(c, i) = (cs[c].ivars[i].at + d) .. (cs[c].ivars[i].at + d + cs[c].ivars[i].width - 1)
      BY <1>0, <1>7 DEF Slot
    <2>2. cs[c].start \in Nat /\ cs[c].size \in Nat
      BY <1>3 DEF Compiled
    <2> DEFINE a == cs[c].ivars[i].at
               n == cs[c].ivars[i].width
    <2>3. a \in Nat /\ n \in Nat /\ cs[c].start <= a /\ a + n <= cs[c].size
      BY <1>7
    <2>4. cs[c].start + d >= BelowOf(c) /\ ro[c].size = cs[c].size + d
      BY <1>2, <1>4
    <2>5. w \in (a + d) .. (a + d + n - 1)
      BY <2>1
    <2> HIDE DEF a, n
    <2> QED
      BY <1>2, <1>5, <2>2, <2>3, <2>4, <2>5
  <1>9. \A i \in DOMAIN cs[c].ivars : \A j \in DOMAIN cs[c].ivars \ {i} : Slot(c, i) \cap Slot(c, j) = {}
    <2> SUFFICES ASSUME NEW i \in DOMAIN cs[c].ivars, NEW j \in DOMAIN cs[c].ivars \ {i}, NEW w \in Slot(c, i), w \in Slot(c, j)
                 PROVE  FALSE
      OBVIOUS
    <2> DEFINE a == cs[c].ivars[i].at
               b == cs[c].ivars[j].at
               m == cs[c].ivars[i].width
               n == cs[c].ivars[j].width
    <2>1. a \in Nat /\ b \in Nat /\ m \in Nat /\ n \in Nat
      BY <1>7
    <2>2. a + m <= b \/ b + n <= a
      BY <1>3 DEF Compiled
    <2>3. w \in (a + d) .. (a + d + m - 1) /\ w \in (b + d) .. (b + d + n - 1)
      BY <1>0, <1>7 DEF Slot
    <2> HIDE DEF a, b, m, n
    <2> QED
      BY <1>2, <2>1, <2>2, <2>3
  <1> QED
    BY <1>0, <1>2, <1>4, <1>8, <1>9

(* When xl_fix_layouts is done, in whatever order the table lists the      *)
(* classes and whatever the Objective-C runtime moved before, every        *)
(* variable lies inside the instance, above its superclass and apart from  *)
(* its sisters (objc_bridge.m 1488-1572).                                  *)
THEOREM IvarsFitHolds ==
    ASSUME NEW cs, NEW hs, NEW t, LayoutsOK(cs, hs, t)
    PROVE  LayoutInit(cs, hs, t) /\ [][Next]_vars => []IvarsFit
  <1>1. PICK rank : RankOK(cs, hs, t, rank)
    BY Rank
  <1>2. LayoutInit(cs, hs, t) => LayoutInv(cs, hs, t, rank)
    BY <1>1, InitLayout
  <1>3. LayoutInv(cs, hs, t, rank) /\ [Next]_vars => LayoutInv(cs, hs, t, rank)'
    BY <1>1, LayoutStep
  <1>4. LayoutInv(cs, hs, t, rank) => IvarsFit
    BY <1>1, FixedFit
  <1> QED
    BY <1>2, <1>3, <1>4, PTL

-----------------------------------------------------------------------------
(* Destructors: the order they are registered and run in.                  *)

(* Initializers run image by image, the last image first.                  *)
StartOK(is) ==
    /\ started \in Seq(Initializers(is))
    /\ \A i, j \in 1..Len(started) : i < j => started[i][1] >= started[j][1]
    /\ \A p \in Initializers(is) \ Range(started) : \A i \in 1..Len(started) : p[1] <= started[i][1]
    /\ \A t \in Threads : \A i \in 1..Len(stack[t]) : stack[t][i].kind = "init" => started # <<>>

(* The destructors in the list are numbered, and those that initializers   *)
(* registered are in the order of the initializers.                        *)
Destructors == [number : Nat, image : Nat]
ItemsOK ==
    /\ list.items \in Seq(Destructors)
    /\ \A k \in 1..Len(list.items) :
        /\ list.items[k].number = k
        /\ list.items[k].image # 0 => \E i \in 1..Len(started) : started[i][1] = list.items[k].image
    /\ \A k, l \in 1..Len(list.items) : k < l /\ list.items[k].image # 0 /\ list.items[l].image # 0 =>
           list.items[k].image >= list.items[l].image

RanOK ==
    /\ ran \in Seq(Destructors)
    /\ \A i \in 1..Len(ran) : ran[i].number \in 1..Len(list.items) /\ ran[i] = list.items[ran[i].number]
    /\ \A i, j \in 1..Len(ran) : i < j => ran[i].number > ran[j].number

(* atexit holds xl_run_cxa_dtors, from the first destructor on and until   *)
(* a call of exit takes it.                                                *)
Armed == "cxa" \in Range(atexits)
AtexitOK ==
    /\ atexits \in {<<>>, <<"note">>, <<"cxa">>, <<"note", "cxa">>}
    /\ Armed => list.items # <<>> /\ ran = <<>>
    /\ list.items # <<>> /\ ~ Armed => owed # <<>>

(* At most one call of exit runs destructors, from the oldest that has run *)
(* downwards.                                                              *)
IsExit(t, i) == i \in 1..Len(stack[t]) /\ stack[t][i].kind = "exit"
Runs(t, i) == IsExit(t, i) /\ stack[t][i].left > 0
RunsOK ==
    /\ \A t \in Threads, i \in Nat : Runs(t, i) =>
        /\ ~ Armed /\ stack[t][i].left <= Len(list.items)
        /\ \A k \in 1..Len(ran) : ran[k].number > stack[t][i].left
    /\ \A t, u \in Threads, i, j \in Nat : Runs(t, i) /\ Runs(u, j) => t = u /\ i = j

(* If exit was called once, that call has run what it does not have left.  *)
HasRun(n) == \E k \in 1..Len(ran) : ran[k].number = n
OwedOK ==
    /\ owed \in Seq(Nat) /\ \A k \in 1..Len(owed) : owed[k] <= Len(list.items)
    /\ \A t \in Threads, i \in Nat : IsExit(t, i) => owed # <<>>
    /\ Len(owed) = 1 =>
        /\ \A t, u \in Threads, i, j \in Nat : IsExit(t, i) /\ IsExit(u, j) => t = u /\ i = j
        /\ \A t \in Threads, i \in Nat : IsExit(t, i) /\ ~ Armed =>
               \A n \in 1..owed[1] : n > stack[t][i].left => HasRun(n)
        /\ phase = "exit" => \A n \in 1..owed[1] : HasRun(n)

OrderInv(is) == StartOK(is) /\ ItemsOK /\ RanOK /\ AtexitOK /\ RunsOK /\ OwedOK

(* No call of exit is added to a stack and none goes on; no initializer    *)
(* either.                                                                 *)
SameExits(s, r) ==
    \A i \in 1..Len(r) : r[i].kind = "exit" => i \in 1..Len(s) /\ s[i].kind = "exit" /\ r[i].left = s[i].left
Same(s, r) ==
    /\ SameExits(s, r)
    /\ \A i \in 1..Len(r) : r[i].kind = "init" => i \in 1..Len(s) /\ s[i].kind = "init"
QuietExits == \A t \in Threads : SameExits(stack[t], stack[t]')
Quiet == \A t \in Threads : Same(stack[t], stack[t]')

LEMMA QuietExitStep ==
    ASSUME NEW is, OrderInv(is), QuietExits, UNCHANGED <<list, owed, ran>>, phase' = "exit" => phase = "exit",
           atexits' \in {<<>>, <<"note">>, <<"cxa">>, <<"note", "cxa">>}, Armed' = Armed
    PROVE  RanOK' /\ AtexitOK' /\ RunsOK' /\ OwedOK'
  <1>1. ASSUME NEW t \in Threads, NEW i \in Nat
        PROVE  IsExit(t, i)' => IsExit(t, i) /\ stack'[t][i].left = stack[t][i].left
    BY DEF QuietExits, SameExits, IsExit
  <1>2. \A t \in Threads, i \in Nat : Runs(t, i)' => Runs(t, i) /\ stack'[t][i].left = stack[t][i].left
    BY <1>1 DEF Runs
  <1>3. \A n : HasRun(n)' = HasRun(n)
    BY DEF HasRun
  <1>4. RanOK' /\ AtexitOK'
    BY DEF OrderInv, RanOK, AtexitOK
  <1>5. RunsOK'
    BY <1>2 DEF OrderInv, RunsOK
  <1>6. OwedOK'
    BY <1>1, <1>3 DEF OrderInv, OwedOK
  <1> QED
    BY <1>4, <1>5, <1>6

LEMMA QuietStep ==
    ASSUME NEW is, OrderInv(is), Quiet, UNCHANGED <<started, list, owed, ran>>, phase' = "exit" => phase = "exit",
           atexits' \in {<<>>, <<"note">>, <<"cxa">>, <<"note", "cxa">>}, Armed' = Armed
    PROVE  OrderInv(is)'
  <1>1. QuietExits
    BY DEF Quiet, QuietExits, Same
  <1>2. StartOK(is)'
    BY DEF OrderInv, StartOK, Quiet, Same
  <1>3. ItemsOK'
    BY DEF OrderInv, ItemsOK
  <1> QED
    BY <1>1, <1>2, <1>3, QuietExitStep DEF OrderInv

LEMMA SameAtexits ==
    ASSUME NEW is, OrderInv(is), UNCHANGED atexits
    PROVE  atexits' \in {<<>>, <<"note">>, <<"cxa">>, <<"note", "cxa">>} /\ Armed' = Armed
  BY DEF OrderInv, AtexitOK, Armed

(* The stacks of a step that changes one of them.                          *)
LEMMA SetStack ==
    ASSUME NEW is, IInv(is), NEW t \in Threads, NEW s, Sets(stack, stack', t, s)
    PROVE  /\ stack'[t] = s /\ \A u \in Threads \ {t} : stack'[u] = stack[u]
           /\ stack[t] \in Seq(Frames(is)) /\ Len(stack[t]) \in Nat
           /\ Same(stack[t], s) => Quiet
  <1>1. stack \in [Threads -> Seq(Frames(is))]
    BY DEF IInv, Tables
  <1>2. stack'[t] = s /\ \A u \in Threads \ {t} : stack'[u] = stack[u]
    BY <1>1 DEF Sets
  <1>3. \A u \in Threads : stack[u] \in Seq(Frames(is)) /\ Len(stack[u]) \in Nat
    BY <1>1, StackElements
  <1>4. \A u \in Threads \ {t} : Same(stack[u], stack'[u])
    BY <1>2, <1>3 DEF Same, SameExits
  <1> QED
    BY <1>2, <1>3, <1>4 DEF Quiet

LEMMA SameShapes ==
    ASSUME NEW is, NEW s \in Seq(Frames(is))
    PROVE  /\ Same(s, s) /\ Same(s, <<>>)
           /\ s # <<>> => Same(s, Front(s))
           /\ \A f : f.kind \notin {"exit", "init"} => Same(s, Append(s, f))
           /\ s # <<>> => \A f \in ExitFrames :
                  Last(s).kind = "exit" /\ f.left = Last(s).left => Same(s, Append(Front(s), f))
           /\ s # <<>> => \A f : f.kind = Last(s).kind /\ f.kind # "exit" => Same(s, Edited(s, f))
  <1>0. Len(s) \in Nat
    BY StackElements
  <1>1. Same(s, s) /\ Same(s, <<>>)
    BY DEF Same, SameExits
  <1>2. ASSUME s # <<>> PROVE Same(s, Front(s))
    <2>1. Front(s) = Popped(s)
      BY DEF Front, Popped
    <2>2. Len(Popped(s)) = Len(s) - 1 /\ \A i \in 1..(Len(s) - 1) : Popped(s)[i] = s[i]
      BY <1>2, TopPopped
    <2> QED
      BY <1>0, <2>1, <2>2 DEF Same, SameExits
  <1>3. ASSUME NEW f, f.kind \notin {"exit", "init"} PROVE Same(s, Append(s, f))
    <2> DEFINE r == Append(s, f)
               T == Frames(is) \cup {f}
    <2>0. s \in Seq(T) /\ f \in T
      OBVIOUS
    <2> HIDE DEF T
    <2>1. Len(r) = Len(s) + 1 /\ r[Len(s) + 1] = f /\ \A i \in 1..Len(s) : r[i] = s[i]
      BY <2>0, Pushed
    <2> HIDE DEF r
    <2>2. Same(s, r)
      BY <1>0, <1>3, <2>1 DEF Same, SameExits
    <2> QED
      BY <2>2 DEF r
  <1>4. ASSUME s # <<>>, NEW f, f.kind = Last(s).kind, f.kind # "exit" PROVE Same(s, Edited(s, f))
    <2> DEFINE n == Len(s)
               T == Frames(is) \cup {f}
    <2>0. s \in Seq(T) /\ f \in T
      OBVIOUS
    <2> HIDE DEF T
    <2>1. n \in 1..Len(s) /\ Last(s) = s[n]
      BY <1>0, <1>4, StackElements DEF Last
    <2> HIDE DEF n
    <2>2. /\ Len([s EXCEPT ![n] = f]) = Len(s)
          /\ \A j \in 1..Len(s) : [s EXCEPT ![n] = f][j] = IF j = n THEN f ELSE s[j]
      BY <2>0, <2>1, ExceptSeq
    <2>3. Same(s, [s EXCEPT ![n] = f])
      BY <1>4, <2>1, <2>2 DEF Same, SameExits
    <2> QED
      BY <2>3 DEF n, Edited
  <1>5. ASSUME s # <<>>, NEW f \in ExitFrames, Last(s).kind = "exit", f.left = Last(s).left
        PROVE  Same(s, Append(Front(s), f))
    <2>1. Append(Front(s), f) = Replaced(s, f)
      BY DEF Front, Replaced
    <2>2. f \in Frames(is) /\ f.kind = "exit" /\ Last(s) = s[Len(s)]
      BY DEF ExitFrames, Frames, Last
    <2>3. /\ Len(Replaced(s, f)) = Len(s) /\ Replaced(s, f)[Len(s)] = f
          /\ \A i \in 1..(Len(s) - 1) : Replaced(s, f)[i] = s[i]
      BY <1>5, <2>2, TopChanged
    <2> QED
      BY <1>0, <1>5, <2>1, <2>2, <2>3 DEF Same, SameExits
  <1> QED
    BY <1>1, <1>2, <1>3, <1>4, <1>5

(* Steps that leave the exit as it is.                                     *)
LEMMA InvokeQuiet ==
    ASSUME NEW is, IInv(is), NEW t \in Threads, NEW kind, kind \notin {"exit", "init"}, NEW m, xl_invoke(t, kind, m)
    PROVE  Quiet
  <1> DEFINE f == GuestFrame(kind, xl_current_state(m))
  <1>1. Sets(stack, stack', t, Append(stack[t], f))
    BY DEF xl_invoke, Sets
  <1>2. f.kind \notin {"exit", "init"}
    BY DEF GuestFrame
  <1> HIDE DEF f
  <1>3. stack[t] \in Seq(Frames(is)) /\ (Same(stack[t], Append(stack[t], f)) => Quiet)
    BY <1>1, SetStack
  <1> QED
    BY <1>2, <1>3, SameShapes

LEMMA StackQuiet ==
    ASSUME NEW is, IInv(is), UNCHANGED stack
    PROVE  Quiet
  <1>1. \A t \in Threads : stack[t] \in Seq(Frames(is))
    BY DEF IInv, Tables
  <1> QED
    BY <1>1, SameShapes DEF Quiet

LEMMA LeaveQuiet ==
    ASSUME NEW is, IInv(is), NEW t \in Threads, Leave(t)
    PROVE  Quiet
  <1>1. Sets(stack, stack', t, <<>>)
    BY DEF Leave, Sets
  <1>2. stack[t] \in Seq(Frames(is)) /\ (Same(stack[t], <<>>) => Quiet)
    BY <1>1, SetStack
  <1> QED
    BY <1>2, SameShapes

LEMMA TlvGetQuiet ==
    ASSUME NEW is, IInv(is), NEW t \in Threads, xl_tlv_get(t)
    PROVE  Quiet
  <1>1. PICK h : stack' = [stack EXCEPT ![t][Len(stack[t])].held = @ \cup h]
    BY DEF xl_tlv_get
  <1> DEFINE f == [Top(t) EXCEPT !.held = Top(t).held \cup h]
  <1>2. Sets(stack, stack', t, Edited(stack[t], f))
    BY <1>1 DEF Sets, Edited, Top, Last
  <1>3. InGuest(t)
    BY DEF xl_tlv_get, Act
  <1>4. stack[t] # <<>> /\ Top(t) \in GuestFrames(is)
    BY <1>3, UpFacts
  <1>5. f.kind = Last(stack[t]).kind /\ f.kind # "exit"
    BY <1>4 DEF GuestFrames, Top
  <1> HIDE DEF f
  <1>6. stack[t] \in Seq(Frames(is)) /\ (Same(stack[t], Edited(stack[t], f)) => Quiet)
    BY <1>2, SetStack
  <1> QED
    BY <1>4, <1>5, <1>6, SameShapes

LEMMA KeyDestructorQuiet ==
    ASSUME NEW is, IInv(is), NEW t \in Threads, KeyDestructor(t)
    PROVE  Quiet
  <1>1. UNCHANGED stack \/ \E m : xl_invoke(t, "key", m)
    BY DEF KeyDestructor
  <1> QED
    BY <1>1, StackQuiet, InvokeQuiet

LEMMA DeliverPhase ==
    ASSUME NEW t, NEW signal, Deliver(t, signal)
    PROVE  phase' = "exit" => phase = "exit"
  BY DEF Deliver

LEMMA QuietSteps ==
    ASSUME NEW is, IInv(is), OrderInv(is), NEW t \in Threads,
           \/ Setup \/ main
           \/ SpawnThread(t) \/ CallBack(t) \/ xl_tlv_get(t) \/ SetKey(t) \/ GuestLeaves(t) \/ xl_fault(t) \/ Signal(t)
           \/ KeyDestructor(t) \/ NextRound(t)
           \/ xl_crash_handler(t) \/ xl_signal_note(t) \/ xl_walk_guest(t) \/ Raise(t)
    PROVE  OrderInv(is)'
  <1>1. UNCHANGED <<started, list, atexits, owed, ran>>
    BY DEF Setup, main, SpawnThread, CallBack, xl_tlv_get, SetKey, GuestLeaves, xl_fault, Signal, KeyDestructor,
           NextRound, xl_crash_handler, xl_signal_note, xl_walk_guest, Raise, startVars, exitVars
  <1>2. phase' = "exit" => phase = "exit"
    <2>1. CASE Setup
      BY <2>1, DeliverPhase DEF Setup
    <2>2. CASE main \/ Raise(t)
      BY <2>2 DEF main, Raise
    <2>3. CASE SpawnThread(t) \/ CallBack(t) \/ xl_tlv_get(t) \/ SetKey(t) \/ GuestLeaves(t) \/ KeyDestructor(t) \/ NextRound(t)
               \/ xl_signal_note(t)
      BY <2>3 DEF SpawnThread, CallBack, xl_tlv_get, SetKey, GuestLeaves, KeyDestructor, NextRound, xl_signal_note, startVars
    <2>4. CASE xl_fault(t) \/ Signal(t) \/ xl_walk_guest(t)
      BY <2>4, DeliverPhase DEF xl_fault, Signal, xl_walk_guest
    <2>5. CASE xl_crash_handler(t)
      BY <2>5 DEF xl_crash_handler, CrashAgain
    <2> QED
      BY <2>1, <2>2, <2>3, <2>4, <2>5
  <1>3. Quiet
    <2>1. CASE Setup \/ SetKey(t) \/ Signal(t) \/ NextRound(t) \/ xl_crash_handler(t) \/ xl_signal_note(t)
               \/ xl_walk_guest(t) \/ Raise(t)
      <3>1. UNCHANGED stack
        BY <2>1 DEF Setup, SetKey, Signal, NextRound, xl_crash_handler, xl_signal_note, xl_walk_guest, Raise, threadVars
      <3> QED
        BY <3>1, StackQuiet
    <2>2. CASE main \/ SpawnThread(t) \/ CallBack(t)
      <3>1. \E u \in Threads, kind \in {"entry", "thread", "callback"} : \E m : xl_invoke(u, kind, m)
        BY <2>2, ThreadsAssumption DEF main, SpawnThread, CallBack
      <3> QED
        BY <3>1, InvokeQuiet
    <2>3. CASE GuestLeaves(t) \/ xl_fault(t)
      <3>1. Leave(t) \/ UNCHANGED stack
        BY <2>3 DEF GuestLeaves, xl_fault
      <3> QED
        BY <3>1, LeaveQuiet, StackQuiet
    <2> QED
      BY <2>1, <2>2, <2>3, TlvGetQuiet, KeyDestructorQuiet
  <1> QED
    BY <1>1, <1>2, <1>3, SameAtexits, QuietStep

LEMMA LeftType ==
    ASSUME NEW is, IInv(is)
    PROVE  \A t \in Threads, i \in Nat : IsExit(t, i) => stack[t][i].left \in Nat
  <1>1. \A t \in Threads : stack[t] \in Seq(Frames(is))
    BY DEF IInv, Tables
  <1>2. \A t \in Threads, i \in Nat : IsExit(t, i) => stack[t][i] \in Frames(is) /\ stack[t][i].kind = "exit"
    BY <1>1, StackElements DEF IsExit
  <1>3. \A f \in Frames(is) : f.kind = "exit" => f.left \in Nat
    BY DEF Frames, GuestFrames, ExitFrames
  <1> QED
    BY <1>2, <1>3

LEMMA ExitTop ==
    ASSUME NEW is, IInv(is), NEW t \in Threads, InExit(t)
    PROVE  /\ Len(stack[t]) \in Nat /\ Len(stack[t]) > 0 /\ stack[t] \in Seq(Frames(is)) /\ stack[t] # <<>>
           /\ Top(t) = stack[t][Len(stack[t])] /\ Top(t) = Last(stack[t])
           /\ IsExit(t, Len(stack[t])) /\ Top(t) \in ExitFrames /\ Top(t).left \in Nat
  <1>1. stack[t] # <<>> /\ stack[t] \in Seq(Frames(is)) /\ Top(t) \in ExitFrames
    BY UpFacts
  <1>2. Len(stack[t]) \in Nat /\ Len(stack[t]) > 0
    BY <1>1, StackElements
  <1>3. Top(t) = stack[t][Len(stack[t])] /\ Top(t) = Last(stack[t])
    BY DEF Top, Last
  <1> QED
    BY <1>1, <1>2, <1>3 DEF ExitFrames, IsExit

(* Where the list is.                                                      *)
LEMMA LoadListOrder ==
    ASSUME NEW is, IInv(is), OrderInv(is), ListOK, NEW t \in Threads, LoadList(t)
    PROVE  OrderInv(is)'
  <1> DEFINE f == [Top(t) EXCEPT !.loaded = list.moves]
  <1>1. /\ InExit(t) /\ Sets(stack, stack', t, Append(Front(stack[t]), f))
        /\ UNCHANGED <<started, phase, list, atexits, owed, ran>>
    BY DEF LoadList, SetExit, Sets, startVars, exitVars
  <1>2. f \in ExitFrames /\ f.left = Top(t).left /\ Top(t).kind = "exit"
    BY <1>1, ExitTop DEF ExitFrames, ListOK
  <1> HIDE DEF f
  <1>3. stack[t] \in Seq(Frames(is)) /\ (Same(stack[t], Append(Front(stack[t]), f)) => Quiet)
    BY <1>1, SetStack
  <1>4. Quiet
    BY <1>1, <1>2, <1>3, ExitTop, SameShapes
  <1> QED
    BY <1>1, <1>4, SameAtexits, QuietStep

LEMMA AtexitTaken ==
    ASSUME NEW is, OrderInv(is), atexits # <<>>, atexits' = Front(atexits)
    PROVE  /\ atexits' \in {<<>>, <<"note">>, <<"cxa">>, <<"note", "cxa">>}
           /\ Last(atexits) = "note" => Armed' = Armed
           /\ Last(atexits) = "cxa" => Armed /\ ~ Armed'
  <1>1. CASE atexits = <<"note">>
    <2>1. Front(atexits) = <<>> /\ Last(atexits) = "note" /\ Range(atexits) = {"note"} /\ Range(<<>>) = {}
      BY <1>1 DEF Front, Last, Range
    <2> QED
      BY <2>1 DEF Armed
  <1>2. CASE atexits = <<"cxa">>
    <2>1. Front(atexits) = <<>> /\ Last(atexits) = "cxa" /\ Range(atexits) = {"cxa"} /\ Range(<<>>) = {}
      BY <1>2 DEF Front, Last, Range
    <2> QED
      BY <2>1 DEF Armed
  <1>3. CASE atexits = <<"note", "cxa">>
    <2> DEFINE S == {"note", "cxa"}
               a == <<"note", "cxa">>
               b == <<"note">>
    <2>1. /\ a \in Seq(S) /\ a # <<>> /\ Len(a) = 2 /\ a[1] = "note" /\ a[2] = "cxa"
          /\ b \in Seq(S) /\ Len(b) = 1 /\ b[1] = "note" /\ "cxa" \in Range(a) /\ Range(b) = {"note"}
      BY DEF Range
    <2> HIDE DEF a, b, S
    <2>2. Popped(a) \in Seq(S) /\ Len(Popped(a)) = 1 /\ Popped(a)[1] = "note"
      <3>1. a \in Seq(S) /\ a # <<>>
        BY <2>1
      <3>2. Popped(a) \in Seq(S) /\ Len(Popped(a)) = Len(a) - 1 /\ \A i \in 1..(Len(a) - 1) : Popped(a)[i] = a[i]
        BY <3>1, TopPopped
      <3> QED
        BY <2>1, <3>2
    <2>3. Popped(a) = b
      BY <2>1, <2>2, SeqEqual
    <2>4. Front(a) = Popped(a) /\ Last(a) = "cxa"
      BY <2>1 DEF Front, Popped, Last
    <2>5. atexits = a /\ b = <<"note">>
      BY <1>3 DEF a, b
    <2> QED
      BY <2>1, <2>3, <2>4, <2>5 DEF Armed
  <1> QED
    BY <1>1, <1>2, <1>3 DEF OrderInv, AtexitOK

LEMMA NoteExitOrder ==
    ASSUME NEW is, IInv(is), OrderInv(is), NEW t \in Threads, xl_note_exit(t)
    PROVE  OrderInv(is)'
  <1>1. /\ atexits # <<>> /\ Last(atexits) = "note" /\ atexits' = Front(atexits)
        /\ UNCHANGED <<started, list, owed, ran, stack>>
    BY DEF xl_note_exit
  <1>2. phase' = "exit" => phase = "exit"
    BY DeliverPhase DEF xl_note_exit
  <1> QED
    BY <1>1, <1>2, AtexitTaken, StackQuiet, QuietStep

(* The process ends when the last call of exit has nothing left.           *)
LEMMA EndOfExitOrder ==
    ASSUME NEW is, IInv(is), OrderInv(is), NEW t \in Threads, EndOfExit(t)
    PROVE  OrderInv(is)'
  <1>1. /\ InExit(t) /\ Top(t).left = 0 /\ atexits = <<>> /\ phase' = "exit"
        /\ UNCHANGED <<started, stack, list, atexits, owed, ran>>
    BY DEF EndOfExit, threadVars, exitVars
  <1>2. ~ Armed
    BY <1>1 DEF Armed, Range
  <1>3. IsExit(t, Len(stack[t])) /\ stack[t][Len(stack[t])].left = 0 /\ Len(stack[t]) \in Nat
    BY <1>1, ExitTop
  <1>4. Len(owed) = 1 => \A n \in 1..owed[1] : HasRun(n)
    <2>1. Len(owed) = 1 => \A n \in 1..owed[1] : n > 0 => HasRun(n)
      BY <1>2, <1>3 DEF OrderInv, OwedOK
    <2> QED
      BY <2>1
  <1>5. Armed' = Armed /\ (\A n : HasRun(n)' = HasRun(n)) /\ \A u, i : IsExit(u, i)' = IsExit(u, i) /\ Runs(u, i)' = Runs(u, i)
    BY <1>1 DEF Armed, HasRun, IsExit, Runs
  <1>6. StartOK(is)' /\ ItemsOK' /\ RanOK' /\ AtexitOK'
    BY <1>1, <1>5 DEF OrderInv, StartOK, ItemsOK, RanOK, AtexitOK
  <1>7. RunsOK' /\ OwedOK'
    BY <1>1, <1>4, <1>5 DEF OrderInv, RunsOK, OwedOK
  <1> QED
    BY <1>6, <1>7 DEF OrderInv

(* The next initializer: of the image before, or of an earlier one.        *)
LEMMA RunInitializersOrder ==
    ASSUME NEW is, NEW S, is \in Seq(S), IInv(is), OrderInv(is), xl_run_initializers
    PROVE  OrderInv(is)'
  <1>0. images = is /\ Main \in Threads /\ \A p \in Initializers(is) : p[1] \in Nat
    <2>1. DOMAIN is \subseteq Nat
      OBVIOUS
    <2>2. \A p \in Initializers(is) : p[1] \in DOMAIN is
      BY DEF Initializers
    <2> QED
      BY <2>1, <2>2, ThreadsAssumption DEF IInv
  <1>1. PICK p \in Initializers(is) \ Range(started) :
            /\ \A q \in Initializers(is) \ (Range(started) \cup {p}) : Before(p, q)
            /\ started' = Append(started, p)
    BY <1>0 DEF xl_run_initializers
  <1>2. xl_invoke(Main, "init", mem[Main]) /\ UNCHANGED <<phase, list, atexits, owed, ran>>
    BY DEF xl_run_initializers, exitVars
  <1>3. started \in Seq(Initializers(is)) /\ Len(started) \in Nat
    BY StackElements DEF OrderInv, StartOK
  <1>4. /\ started' \in Seq(Initializers(is)) /\ Len(started') = Len(started) + 1 /\ started' # <<>>
        /\ started'[Len(started) + 1] = p /\ \A i \in 1..Len(started) : started'[i] = started[i]
    BY <1>1, <1>3, Pushed
  <1>5. Range(started') = Range(started) \cup {p}
    <2>1. DOMAIN started = 1..Len(started) /\ DOMAIN started' = 1..(Len(started) + 1)
      BY <1>3, <1>4
    <2> QED
      BY <1>3, <1>4, <2>1 DEF Range
  <1>6. \A i, j \in 1..Len(started') : i < j => started'[i][1] >= started'[j][1]
    <2>1. \A i \in 1..Len(started) : p[1] <= started[i][1]
      BY <1>1 DEF OrderInv, StartOK
    <2>2. \A i \in 1..Len(started) : started[i][1] \in Nat
      BY <1>0, <1>3, StackElements
    <2>3. \A i, j \in 1..Len(started) : i < j => started[i][1] >= started[j][1]
      BY DEF OrderInv, StartOK
    <2> QED
      BY <1>0, <1>3, <1>4, <2>1, <2>2, <2>3
  <1>7. \A q \in Initializers(is) \ Range(started') : \A i \in 1..Len(started') : q[1] <= started'[i][1]
    <2> SUFFICES ASSUME NEW q \in Initializers(is) \ Range(started'), NEW i \in 1..Len(started')
                 PROVE  q[1] <= started'[i][1]
      OBVIOUS
    <2>1. q \notin Range(started) /\ q[1] <= p[1]
      BY <1>0, <1>1, <1>5 DEF Before
    <2>2. i \in 1..Len(started) => q[1] <= started[i][1]
      BY <2>1 DEF OrderInv, StartOK
    <2> QED
      BY <1>3, <1>4, <2>1, <2>2
  <1>8. StartOK(is)'
    BY <1>4, <1>6, <1>7 DEF StartOK
  <1>9. ItemsOK'
    <2>1. \A k \in 1..Len(list.items) : list.items[k].image # 0 =>
              \E i \in 1..Len(started') : started'[i][1] = list.items[k].image
      <3> SUFFICES ASSUME NEW k \in 1..Len(list.items), list.items[k].image # 0
                   PROVE  \E i \in 1..Len(started') : started'[i][1] = list.items[k].image
        OBVIOUS
      <3>1. PICK i \in 1..Len(started) : started[i][1] = list.items[k].image
        BY DEF OrderInv, ItemsOK
      <3> QED
        BY <1>3, <1>4, <3>1
    <2> QED
      BY <1>2, <2>1 DEF OrderInv, ItemsOK
  <1>10. QuietExits
    <2> DEFINE f == GuestFrame("init", xl_current_state(mem[Main]))
               T == Frames(is) \cup {f}
               s == stack[Main]
    <2>1. Sets(stack, stack', Main, Append(s, f)) /\ f.kind # "exit"
      BY <1>2 DEF xl_invoke, Sets, GuestFrame
    <2> HIDE DEF f
    <2>2. /\ stack'[Main] = Append(s, f) /\ \A u \in Threads \ {Main} : stack'[u] = stack[u]
          /\ s \in Seq(Frames(is))
      BY <1>0, <2>1, SetStack
    <2>3. s \in Seq(T) /\ f \in T
      BY <2>2
    <2> HIDE DEF T, s
    <2>4. Len(Append(s, f)) = Len(s) + 1 /\ Append(s, f)[Len(s) + 1] = f /\ \A i \in 1..Len(s) : Append(s, f)[i] = s[i]
      BY <2>3, Pushed
    <2>5. Len(s) \in Nat
      BY <2>3, StackElements
    <2>6. SameExits(s, stack'[Main])
      BY <2>1, <2>2, <2>4, <2>5 DEF SameExits
    <2>7. \A u \in Threads \ {Main} : SameExits(stack[u], stack'[u])
      <3>1. \A u \in Threads : stack[u] \in Seq(Frames(is))
        BY DEF IInv, Tables
      <3> QED
        BY <2>2, <3>1, SameShapes DEF Same
    <2> QED
      BY <2>6, <2>7 DEF QuietExits, s
  <1> QED
    BY <1>2, <1>8, <1>9, <1>10, SameAtexits, QuietExitStep DEF OrderInv

(* A destructor is added: it is the newest.                                *)
LEMMA CxaAtexitOrder ==
    ASSUME NEW is, NEW S, is \in Seq(S), IInv(is), OrderInv(is), NEW t \in Threads, xl_manual_cxa_atexit(t)
    PROVE  OrderInv(is)'
  <1> DEFINE items == list.items
             x == [number |-> Len(items) + 1, image |-> InInitializer(t)]
  <1>1. /\ InGuest(t) /\ list'.items = Append(items, x) /\ UNCHANGED <<started, phase, stack, owed, ran>>
        /\ atexits' = IF items = <<>> THEN Append(atexits, "cxa") ELSE atexits
    BY DEF xl_manual_cxa_atexit, Act, startVars, threadVars
  <1>2. \A p \in Initializers(is) : p[1] \in Nat \ {0}
    <2>1. DOMAIN is \subseteq Nat \ {0}
      OBVIOUS
    <2>2. \A p \in Initializers(is) : p[1] \in DOMAIN is
      BY DEF Initializers
    <2> QED
      BY <2>1, <2>2
  <1>3. /\ started \in Seq(Initializers(is)) /\ Len(started) \in Nat
        /\ \A i \in 1..Len(started) : started[i][1] \in Nat \ {0}
    BY <1>2, StackElements DEF OrderInv, StartOK
  <1>4. /\ InInitializer(t) \in Nat
        /\ InInitializer(t) # 0 => Len(started) > 0 /\ InInitializer(t) = started[Len(started)][1]
    <2>1. CASE Top(t).kind = "init"
      <3>1. stack[t] # <<>> /\ stack[t] \in Seq(Frames(is)) /\ Top(t) = stack[t][Len(stack[t])]
        BY <1>1, UpFacts DEF Top, Last
      <3>2. Len(stack[t]) \in 1..Len(stack[t])
        BY <3>1, StackElements
      <3>3. started # <<>>
        BY <2>1, <3>1, <3>2 DEF OrderInv, StartOK
      <3>4. Len(started) > 0
        BY <1>3, <3>3, StackElements
      <3>5. InInitializer(t) = started[Len(started)][1]
        BY <2>1 DEF InInitializer, Last
      <3> QED
        BY <1>3, <3>4, <3>5
    <2>2. CASE Top(t).kind # "init"
      BY <2>2 DEF InInitializer
    <2> QED
      BY <2>1, <2>2
  <1>5. items \in Seq(Destructors) /\ Len(items) \in Nat
    BY StackElements DEF OrderInv, ItemsOK
  <1>6. x \in Destructors /\ x.number = Len(items) + 1 /\ x.image = InInitializer(t)
    BY <1>4, <1>5 DEF Destructors
  <1> HIDE DEF x, items
  <1> DEFINE more == list'.items
  <1>7. /\ more \in Seq(Destructors) /\ Len(more) = Len(items) + 1 /\ more # <<>>
        /\ more[Len(items) + 1] = x /\ \A k \in 1..Len(items) : more[k] = items[k]
    BY <1>1, <1>5, <1>6, Pushed
  <1>8. items = list.items
    BY DEF items
  <1>9. StartOK(is)'
    BY <1>1 DEF OrderInv, StartOK
  <1>10. ItemsOK'
    <2>1. \A k \in 1..Len(items) :
              /\ items[k].number = k
              /\ items[k].image # 0 => \E i \in 1..Len(started) : started[i][1] = items[k].image
      BY <1>8 DEF OrderInv, ItemsOK
    <2>2. \A k \in 1..Len(more) :
              /\ more[k].number = k
              /\ more[k].image # 0 => \E i \in 1..Len(started) : started[i][1] = more[k].image
      <3> SUFFICES ASSUME NEW k \in 1..Len(more)
                   PROVE  /\ more[k].number = k
                          /\ more[k].image # 0 => \E i \in 1..Len(started) : started[i][1] = more[k].image
        OBVIOUS
      <3>1. CASE k \in 1..Len(items)
        BY <1>7, <2>1, <3>1
      <3>2. CASE k = Len(items) + 1
        <4>1. more[k] = x
          BY <1>7, <3>2
        <4>2. x.image # 0 => Len(started) \in 1..Len(started) /\ started[Len(started)][1] = x.image
          BY <1>3, <1>4, <1>6
        <4> QED
          BY <1>6, <3>2, <4>1, <4>2
      <3> QED
        BY <1>5, <1>7, <3>1, <3>2
    <2>3. \A k \in 1..Len(items) : items[k].image # 0 /\ x.image # 0 => items[k].image >= x.image
      <3> SUFFICES ASSUME NEW k \in 1..Len(items), items[k].image # 0, x.image # 0
                   PROVE  items[k].image >= x.image
        OBVIOUS
      <3>1. PICK i \in 1..Len(started) : started[i][1] = items[k].image
        BY <2>1
      <3>2. x.image = started[Len(started)][1] /\ Len(started) > 0
        BY <1>4, <1>6
      <3>3. i < Len(started) => started[i][1] >= started[Len(started)][1]
        BY <1>3, <3>2 DEF OrderInv, StartOK
      <3> QED
        BY <1>3, <3>1, <3>2, <3>3
    <2>4. \A k, l \in 1..Len(items) : k < l /\ items[k].image # 0 /\ items[l].image # 0 => items[k].image >= items[l].image
      BY <1>8 DEF OrderInv, ItemsOK
    <2>5. \A k, l \in 1..Len(more) : k < l /\ more[k].image # 0 /\ more[l].image # 0 => more[k].image >= more[l].image
      BY <1>5, <1>7, <2>3, <2>4, SMTT(40)
    <2> QED
      BY <1>1, <1>7, <2>2, <2>5 DEF ItemsOK
  <1>11. RanOK'
    <2>1. \A i \in 1..Len(ran) : ran[i].number \in 1..Len(items) /\ ran[i] = items[ran[i].number]
      BY <1>8 DEF OrderInv, RanOK
    <2>2. \A i \in 1..Len(ran) : ran[i].number \in 1..Len(more) /\ ran[i] = more[ran[i].number]
      BY <1>5, <1>7, <2>1
    <2> QED
      BY <1>1, <2>2 DEF OrderInv, RanOK
  <1>12. CASE items # <<>>
    <2>1. UNCHANGED atexits
      BY <1>1, <1>12
    <2>2. Armed' = Armed /\ (\A n : HasRun(n)' = HasRun(n)) /\ \A u, i : IsExit(u, i)' = IsExit(u, i) /\ Runs(u, i)' = Runs(u, i)
      BY <1>1, <2>1 DEF Armed, HasRun, IsExit, Runs
    <2>3. AtexitOK'
      BY <1>1, <1>7, <1>8, <1>12, <2>1, <2>2 DEF OrderInv, AtexitOK
    <2>4. RunsOK'
      <3>1. \A u \in Threads, i \in Nat : Runs(u, i) => stack[u][i].left \in Nat
        BY LeftType DEF Runs
      <3>2. \A u \in Threads, i \in Nat : Runs(u, i) => stack[u][i].left <= Len(more)
        BY <1>5, <1>7, <1>8, <3>1 DEF OrderInv, RunsOK
      <3> QED
        BY <1>1, <2>2, <3>2 DEF OrderInv, RunsOK
    <2>5. OwedOK'
      <3>1. \A k \in 1..Len(owed) : owed[k] \in Nat /\ owed[k] <= Len(items)
        BY <1>8, StackElements DEF OrderInv, OwedOK
      <3>2. \A k \in 1..Len(owed) : owed[k] <= Len(more)
        BY <1>5, <1>7, <3>1
      <3> QED
        BY <1>1, <2>2, <3>2 DEF OrderInv, OwedOK
    <2> QED
      BY <1>9, <1>10, <1>11, <2>3, <2>4, <2>5 DEF OrderInv
  <1>13. CASE items = <<>>
    <2>0. Len(items) = 0
      BY <1>13
    <2>1. ran = <<>> /\ ran' = <<>> /\ Len(ran) = 0
      <3>1. ran \in Seq(Destructors) /\ \A i \in 1..Len(ran) : ran[i].number \in 1..0
        BY <1>8, <2>0 DEF OrderInv, RanOK
      <3>2. Len(ran) = 0
        BY <3>1, StackElements
      <3> QED
        BY <1>1, <3>1, <3>2, StackElements
    <2>2. ~ Armed
      BY <1>8, <1>13 DEF OrderInv, AtexitOK
    <2>3. atexits' \in {<<"cxa">>, <<"note", "cxa">>} /\ Armed'
      <3>1. Range(<<"cxa">>) = {"cxa"} /\ "cxa" \in Range(<<"note", "cxa">>)
        BY DEF Range
      <3>2. atexits \in {<<>>, <<"note">>}
        BY <2>2, <3>1 DEF OrderInv, AtexitOK, Armed
      <3>3. atexits' \in {<<"cxa">>, <<"note", "cxa">>}
        <4>1. Append(<<>>, "cxa") = <<"cxa">>
          OBVIOUS
        <4>2. Append(<<"note">>, "cxa") = <<"note", "cxa">>
          <5> DEFINE T == {"note", "cxa"}
                     e == <<>>
                     a == "note"
                     b == "cxa"
          <5>1. e \in Seq(T) /\ a \in T /\ b \in T /\ <<a, b>> \in Seq(T) /\ Append(e, a) = <<a>>
            OBVIOUS
          <5> HIDE DEF T, a, b
          <5>2. e \o <<a, b>> = Append(Append(e, a), b)
            BY <5>1, PushedTwo
          <5>3. e \o <<a, b>> = <<a, b>>
            BY <5>1, ConcatEmptySeq
          <5> QED
            BY <5>1, <5>2, <5>3 DEF a, b
        <4> QED
          BY <1>1, <1>13, <3>2, <4>1, <4>2
      <3> QED
        BY <3>1, <3>3 DEF Armed
    <2>4. AtexitOK'
      BY <1>7, <2>1, <2>3 DEF AtexitOK
    <2>5. \A u \in Threads, i \in Nat : ~ Runs(u, i)'
      <3>1. \A u \in Threads, i \in Nat : Runs(u, i) => stack[u][i].left <= 0 /\ stack[u][i].left > 0
        BY <1>8, <2>0 DEF OrderInv, RunsOK, Runs
      <3>2. \A u \in Threads, i \in Nat : IsExit(u, i) => stack[u][i].left \in Nat
        BY LeftType
      <3>3. \A u \in Threads, i \in Nat : ~ Runs(u, i)
        BY <3>1, <3>2 DEF Runs
      <3> QED
        BY <1>1, <3>3 DEF Runs, IsExit
    <2>6. RunsOK'
      BY <2>5 DEF RunsOK
    <2>7. OwedOK'
      <3>1. /\ \A u, i : IsExit(u, i)' = IsExit(u, i)
            /\ \A n : HasRun(n)' = HasRun(n)
        BY <1>1 DEF IsExit, HasRun
      <3>2. \A k \in 1..Len(owed) : owed[k] \in Nat /\ owed[k] <= 0
        BY <1>8, <2>0, StackElements DEF OrderInv, OwedOK
      <3>3. \A k \in 1..Len(owed) : owed[k] <= Len(more)
        BY <1>5, <1>7, <3>2
      <3> QED
        BY <1>1, <2>3, <3>1, <3>3 DEF OrderInv, OwedOK
    <2> QED
      BY <1>9, <1>10, <1>11, <2>4, <2>6, <2>7 DEF OrderInv
  <1> QED
    BY <1>12, <1>13

(* exit is called, by the guest or when main returns.                      *)
LEMMA ExitCalled ==
    ASSUME NEW is, IInv(is), OrderInv(is), NEW t \in Threads, NEW s, Sets(stack, stack', t, s), Len(s) \in Nat,
           Exit(t), UNCHANGED <<started, phase, list, atexits, ran>>,
           \A i \in 1..Len(s) : s[i].kind = "init" => i \in 1..Len(stack[t]) /\ s[i].kind = stack[t][i].kind,
           \A i \in 1..Len(s) : s[i].kind = "exit" =>
               \/ i = Len(s) /\ s[i].left = 0
               \/ IsExit(t, i) /\ s[i].left = stack[t][i].left,
           ~ Ended
    PROVE  OrderInv(is)'
  <1>1. stack'[t] = s /\ \A u \in Threads \ {t} : stack'[u] = stack[u]
    BY SetStack
  <1>2. owed' = Append(owed, Len(list.items)) /\ owed \in Seq(Nat) /\ Len(owed) \in Nat /\ Len(list.items) \in Nat
    BY StackElements DEF Exit, OrderInv, OwedOK, ItemsOK
  <1>3. /\ owed' \in Seq(Nat) /\ Len(owed') = Len(owed) + 1 /\ owed' # <<>>
        /\ owed'[Len(owed) + 1] = Len(list.items) /\ \A i \in 1..Len(owed) : owed'[i] = owed[i]
    BY <1>2, Pushed
  <1>4. \A u \in Threads, i \in Nat : IsExit(u, i)' =>
            \/ u = t /\ i = Len(s) /\ stack'[u][i].left = 0
            \/ IsExit(u, i) /\ stack'[u][i].left = stack[u][i].left
    BY <1>1 DEF IsExit
  <1>5. \A u \in Threads, i \in Nat : Runs(u, i)' => Runs(u, i) /\ stack'[u][i].left = stack[u][i].left
    BY <1>4 DEF Runs
  <1>6. Armed' = Armed /\ \A n : HasRun(n)' = HasRun(n)
    BY DEF Armed, HasRun
  <1>7. StartOK(is)'
    <2>1. \A u \in Threads : \A i \in 1..Len(stack'[u]) : stack'[u][i].kind = "init" => started # <<>>
      BY <1>1 DEF OrderInv, StartOK
    <2> QED
      BY <2>1 DEF OrderInv, StartOK
  <1>8. ItemsOK' /\ RanOK'
    BY DEF OrderInv, ItemsOK, RanOK
  <1>9. AtexitOK'
    BY <1>3, <1>6 DEF OrderInv, AtexitOK
  <1>10. RunsOK'
    BY <1>5, <1>6 DEF OrderInv, RunsOK
  <1>11. OwedOK'
    <2>1. \A k \in 1..Len(owed') : owed'[k] <= Len(list.items)
      BY <1>2, <1>3 DEF OrderInv, OwedOK
    <2>2. ASSUME Len(owed') = 1
          PROVE  /\ \A u \in Threads, i \in Nat : IsExit(u, i)' => u = t /\ i = Len(s) /\ stack'[u][i].left = 0
                 /\ owed'[1] = Len(list.items)
                 /\ owed'[1] # 0 => Armed
      <3>1. owed = <<>> /\ Len(owed) = 0
        BY <1>2, <1>3, <2>2, StackElements
      <3>2. \A u \in Threads, i \in Nat : ~ IsExit(u, i)
        BY <3>1 DEF OrderInv, OwedOK
      <3>3. list.items # <<>> => Armed
        BY <3>1 DEF OrderInv, AtexitOK
      <3> QED
        BY <1>3, <1>4, <3>1, <3>2, <3>3
    <2>3. ASSUME Len(owed') = 1
          PROVE  /\ \A u, v \in Threads, i, j \in Nat : IsExit(u, i)' /\ IsExit(v, j)' => u = v /\ i = j
                 /\ ~ Armed => \A n \in 1..owed'[1] : HasRun(n)
      BY <2>2, <2>3
    <2>4. phase' # "exit"
      BY DEF Ended
    <2> QED
      BY <1>3, <1>6, <2>1, <2>3, <2>4 DEF OwedOK
  <1> QED
    BY <1>7, <1>8, <1>9, <1>10, <1>11 DEF OrderInv

LEMMA GuestExitsOrder ==
    ASSUME NEW is, IInv(is), OrderInv(is), NEW t \in Threads, GuestExits(t)
    PROVE  OrderInv(is)'
  <1> DEFINE s == Append(stack[t], ExitCall)
  <1>1. /\ InGuest(t) /\ Exit(t) /\ Sets(stack, stack', t, s) /\ UNCHANGED <<started, phase, list, atexits, ran>>
    BY DEF GuestExits, Act, Sets, startVars
  <1>2. ~ Ended /\ stack[t] \in Seq(Frames(is)) /\ ExitCall \in Frames(is) /\ ExitCall.kind = "exit" /\ ExitCall.left = 0
    BY <1>1, UpFacts, NewExitFrame DEF InGuest, Up, ExitCall
  <1>3. Len(s) = Len(stack[t]) + 1 /\ s[Len(stack[t]) + 1] = ExitCall /\ \A i \in 1..Len(stack[t]) : s[i] = stack[t][i]
    BY <1>2, Pushed
  <1>4. Len(stack[t]) \in Nat
    BY <1>2, StackElements
  <1> HIDE DEF s
  <1>5. /\ Len(s) \in Nat
        /\ \A i \in 1..Len(s) : s[i].kind = "init" => i \in 1..Len(stack[t]) /\ s[i].kind = stack[t][i].kind
        /\ \A i \in 1..Len(s) : s[i].kind = "exit" =>
               \/ i = Len(s) /\ s[i].left = 0
               \/ IsExit(t, i) /\ s[i].left = stack[t][i].left
    BY <1>2, <1>3, <1>4 DEF IsExit
  <1> QED
    BY <1>1, <1>2, <1>5, ExitCalled

LEMMA ReturnOrder ==
    ASSUME NEW is, IInv(is), OrderInv(is), NEW t \in Threads, Return(t)
    PROVE  OrderInv(is)'
  <1>1. InGuest(t) /\ UNCHANGED <<started, phase, list, atexits, ran>>
    BY DEF Return, startVars
  <1>2. CASE Top(t).kind = "entry"
    <2> DEFINE s == <<ExitCall>>
    <2>1. Exit(t) /\ Sets(stack, stack', t, s)
      BY <1>2 DEF Return, Sets
    <2>2. Len(s) = 1 /\ s[1].kind = "exit" /\ s[1].left = 0
      BY DEF ExitCall
    <2> HIDE DEF s
    <2>3. ~ Ended
      BY <1>1 DEF InGuest, Up
    <2>4. /\ Len(s) \in Nat
          /\ \A i \in 1..Len(s) : s[i].kind = "init" => i \in 1..Len(stack[t]) /\ s[i].kind = stack[t][i].kind
          /\ \A i \in 1..Len(s) : s[i].kind = "exit" =>
                 \/ i = Len(s) /\ s[i].left = 0
                 \/ IsExit(t, i) /\ s[i].left = stack[t][i].left
      BY <2>2
    <2> QED
      BY <1>1, <2>1, <2>3, <2>4, ExitCalled
  <1>3. CASE Top(t).kind # "entry"
    <2>1. Sets(stack, stack', t, Front(stack[t])) /\ UNCHANGED owed
      BY <1>3 DEF Return, Sets
    <2>2. stack[t] # <<>>
      BY <1>1, UpFacts
    <2>3. stack[t] \in Seq(Frames(is)) /\ (Same(stack[t], Front(stack[t])) => Quiet)
      BY <2>1, SetStack
    <2>4. Quiet
      BY <2>2, <2>3, SameShapes
    <2> QED
      BY <1>1, <2>1, <2>4, SameAtexits, QuietStep
  <1> QED
    BY <1>2, <1>3

(* A call of exit takes xl_run_cxa_dtors: no other one ever will.          *)
LEMMA RunCxaDtorsOrder ==
    ASSUME NEW is, IInv(is), OrderInv(is), NEW t \in Threads, xl_run_cxa_dtors(t)
    PROVE  OrderInv(is)'
  <1> DEFINE f == [ExitCall EXCEPT !.left = Len(list.items)]
             n == Len(stack[t])
  <1>1. /\ InExit(t) /\ Sets(stack, stack', t, Append(Front(stack[t]), f)) /\ atexits # <<>> /\ Last(atexits) = "cxa"
        /\ atexits' = Front(atexits) /\ UNCHANGED <<started, phase, list, owed, ran>>
    BY DEF xl_run_cxa_dtors, SetExit, Sets, startVars
  <1>2. Armed /\ ~ Armed' /\ atexits' \in {<<>>, <<"note">>, <<"cxa">>, <<"note", "cxa">>}
    BY <1>1, AtexitTaken
  <1>3. ran = <<>> /\ Len(ran) = 0 /\ list.items # <<>> /\ Len(list.items) \in Nat
    BY <1>2, StackElements DEF OrderInv, AtexitOK, ItemsOK
  <1>4. f \in ExitFrames /\ f.kind = "exit" /\ f.left = Len(list.items) /\ f \in Frames(is)
    BY <1>3 DEF ExitCall, ExitFrames, Frames
  <1> HIDE DEF f
  <1>5. /\ n \in Nat /\ n > 0 /\ IsExit(t, n) /\ stack[t] \in Seq(Frames(is)) /\ stack[t] # <<>>
        /\ Append(Front(stack[t]), f) = Replaced(stack[t], f)
    BY <1>1, ExitTop DEF Front, Replaced
  <1>6. /\ Len(stack'[t]) = n /\ stack'[t][n] = f /\ \A i \in 1..(n - 1) : stack'[t][i] = stack[t][i]
        /\ \A u \in Threads \ {t} : stack'[u] = stack[u]
    <2>1. /\ Len(Replaced(stack[t], f)) = n /\ Replaced(stack[t], f)[n] = f
          /\ \A i \in 1..(n - 1) : Replaced(stack[t], f)[i] = stack[t][i]
      <3> DEFINE s == stack[t]
      <3>1. s \in Seq(Frames(is)) /\ s # <<>> /\ f \in Frames(is)
        BY <1>4, <1>5
      <3> HIDE DEF s
      <3>2. /\ Len(Replaced(s, f)) = Len(s) /\ Replaced(s, f)[Len(s)] = f
            /\ \A i \in 1..(Len(s) - 1) : Replaced(s, f)[i] = s[i]
        BY <3>1, TopChanged
      <3> QED
        BY <3>2 DEF s
    <2>2. stack'[t] = Replaced(stack[t], f) /\ \A u \in Threads \ {t} : stack'[u] = stack[u]
      BY <1>1, <1>5, SetStack
    <2> QED
      BY <2>1, <2>2
  <1> HIDE DEF n
  <1>7. \A u \in Threads, i \in Nat : IsExit(u, i)' => IsExit(u, i) /\ ((u = t /\ i = n) \/ stack'[u][i] = stack[u][i])
    <2>1. Len(stack[t]) = n
      BY DEF n
    <2>2. \A u \in Threads \ {t}, i \in Nat : IsExit(u, i)' => IsExit(u, i) /\ stack'[u][i] = stack[u][i]
      BY <1>6 DEF IsExit
    <2>3. \A i \in 1..n : i = n \/ i \in 1..(n - 1)
      BY <1>5
    <2>4. \A i \in Nat : IsExit(t, i)' => IsExit(t, i) /\ (i = n \/ stack'[t][i] = stack[t][i])
      BY <1>5, <1>6, <2>1, <2>3 DEF IsExit
    <2> QED
      BY <2>2, <2>4
  <1>8. \A u \in Threads, i \in Nat : Runs(u, i)' => u = t /\ i = n
    <2>1. \A u \in Threads, i \in Nat : ~ Runs(u, i)
      BY <1>2 DEF OrderInv, RunsOK
    <2> QED
      BY <1>7, <2>1 DEF Runs
  <1>9. StartOK(is)'
    <2>1. \A u \in Threads : \A i \in 1..Len(stack'[u]) : stack'[u][i].kind = "init" => started # <<>>
      <3>1. \A i \in 1..n : stack'[t][i].kind = "init" => i \in 1..(n - 1)
        BY <1>4, <1>5, <1>6
      <3>2. \A u \in Threads : \A i \in 1..Len(stack[u]) : stack[u][i].kind = "init" => started # <<>>
        BY DEF OrderInv, StartOK
      <3>3. Len(stack[t]) = n
        BY DEF n
      <3>4. \A i \in 1..n : stack'[t][i].kind = "init" => started # <<>>
        BY <1>5, <1>6, <3>1, <3>2, <3>3
      <3> QED
        BY <1>6, <3>2, <3>4
    <2> QED
      BY <1>1, <2>1 DEF OrderInv, StartOK
  <1>10. ItemsOK' /\ RanOK'
    BY <1>1 DEF OrderInv, ItemsOK, RanOK
  <1>11. owed # <<>>
    BY <1>5 DEF OrderInv, OwedOK
  <1>12. AtexitOK'
    BY <1>1, <1>2, <1>11 DEF AtexitOK
  <1>13. RunsOK'
    BY <1>1, <1>2, <1>3, <1>4, <1>6, <1>8 DEF RunsOK
  <1>14. OwedOK'
    <2>1. ASSUME Len(owed) = 1
          PROVE  /\ \A u, v \in Threads, i, j \in Nat : IsExit(u, i)' /\ IsExit(v, j)' => u = v /\ i = j
                 /\ \A u \in Threads, i \in Nat : IsExit(u, i)' => \A k \in 1..owed[1] : ~ (k > stack'[u][i].left)
      <3>1. \A u, v \in Threads, i, j \in Nat : IsExit(u, i) /\ IsExit(v, j) => u = v /\ i = j
        BY <2>1 DEF OrderInv, OwedOK
      <3>2. owed[1] \in Nat /\ owed[1] <= Len(list.items)
        <4>1. owed \in Seq(Nat) /\ 1 \in 1..Len(owed) /\ \A k \in 1..Len(owed) : owed[k] <= Len(list.items)
          BY <2>1 DEF OrderInv, OwedOK
        <4>2. \A k \in 1..Len(owed) : owed[k] \in Nat
          BY <4>1, StackElements
        <4> QED
          BY <4>1, <4>2
      <3>3. \A u \in Threads, i \in Nat : IsExit(u, i)' => u = t /\ i = n
        BY <1>5, <1>7, <3>1
      <3>4. \A u \in Threads, i \in Nat : IsExit(u, i)' => stack'[u][i].left = Len(list.items)
        BY <1>4, <1>6, <3>3
      <3> QED
        BY <1>3, <1>7, <3>1, <3>2, <3>4
    <2>2. phase' # "exit"
      BY <1>1 DEF InExit, Up, Ended
    <2> QED
      BY <1>1, <1>11, <2>1, <2>2 DEF OrderInv, OwedOK
  <1> QED
    BY <1>9, <1>10, <1>12, <1>13, <1>14 DEF OrderInv

(* The top of a stack changed, and a call on top of it.                    *)
LEMMA ChangedAndPushed ==
    ASSUME NEW S, NEW s \in Seq(S), s # <<>>, NEW f \in S, NEW g \in S
    PROVE  /\ Len(Append(Replaced(s, f), g)) = Len(s) + 1
           /\ Append(Replaced(s, f), g)[Len(s) + 1] = g /\ Append(Replaced(s, f), g)[Len(s)] = f
           /\ \A i \in 1..(Len(s) - 1) : Append(Replaced(s, f), g)[i] = s[i]
  <1> DEFINE b == Replaced(s, f)
  <1>1. Len(s) \in Nat /\ Len(s) > 0
    BY StackElements
  <1>2. b \in Seq(S) /\ Len(b) = Len(s) /\ b[Len(s)] = f /\ \A i \in 1..(Len(s) - 1) : b[i] = s[i]
    BY TopChanged
  <1> HIDE DEF b
  <1>3. Len(Append(b, g)) = Len(b) + 1 /\ Append(b, g)[Len(b) + 1] = g /\ \A i \in 1..Len(b) : Append(b, g)[i] = b[i]
    BY <1>2, Pushed
  <1>4. Len(Append(b, g)) = Len(s) + 1 /\ Append(b, g)[Len(s) + 1] = g /\ Append(b, g)[Len(s)] = f
        /\ \A i \in 1..(Len(s) - 1) : Append(b, g)[i] = s[i]
    BY <1>1, <1>2, <1>3
  <1> QED
    BY <1>4 DEF b

(* A destructor is called: it is older than those that ran.                *)
LEMMA CallDestructorOrder ==
    ASSUME NEW is, IInv(is), OrderInv(is), NEW t \in Threads, CallDestructor(t)
    PROVE  OrderInv(is)'
  <1>0. InExit(t) /\ Top(t).left > 0 /\ UNCHANGED <<started, list, atexits, owed>>
    BY DEF CallDestructor
  <1>1. ASSUME Deliver(t, "segv"), UNCHANGED <<ran, stack>>
        PROVE  OrderInv(is)'
    BY <1>0, <1>1, DeliverPhase, StackQuiet, SameAtexits, QuietStep
  <1>2. ASSUME ran' = Append(ran, list.items[Top(t).left]), UNCHANGED phase,
               stack' = [stack EXCEPT ![t] = Append(Append(Front(@), [ExitCall EXCEPT !.left = Top(t).left - 1]),
                                                    GuestFrame("dtor", xl_current_state(mem[t])))]
        PROVE  OrderInv(is)'
    <2> DEFINE f == [ExitCall EXCEPT !.left = Top(t).left - 1]
               g == GuestFrame("dtor", xl_current_state(mem[t]))
               s == stack[t]
               n == Len(s)
               left == Top(t).left
               T == Frames(is) \cup {f, g}
               r == Append(Replaced(s, f), g)
               d == list.items[left]
    <2>1. /\ n \in Nat /\ n > 0 /\ s \in Seq(Frames(is)) /\ s # <<>> /\ IsExit(t, n) /\ Runs(t, n)
          /\ left = s[n].left /\ left \in Nat /\ left > 0
      BY <1>0, ExitTop DEF Runs
    <2>2. Sets(stack, stack', t, r)
      BY <1>2 DEF Sets, Front, Replaced
    <2>3. f.kind = "exit" /\ f.left = left - 1 /\ g.kind = "dtor"
      BY <2>1 DEF ExitCall, GuestFrame
    <2>4. stack'[t] = r /\ \A u \in Threads \ {t} : stack'[u] = stack[u]
      BY <2>2, SetStack
    <2> HIDE DEF f, g
    <2>5. s \in Seq(T) /\ f \in T /\ g \in T
      BY <2>1
    <2> HIDE DEF T, left
    <2>6. /\ Len(r) = n + 1 /\ r[n + 1] = g /\ r[n] = f /\ \A i \in 1..(n - 1) : r[i] = s[i]
      <3>1. s \in Seq(T) /\ s # <<>> /\ f \in T /\ g \in T
        BY <2>1, <2>5
      <3> HIDE DEF s
      <3>2. /\ Len(Append(Replaced(s, f), g)) = Len(s) + 1
            /\ Append(Replaced(s, f), g)[Len(s) + 1] = g /\ Append(Replaced(s, f), g)[Len(s)] = f
            /\ \A i \in 1..(Len(s) - 1) : Append(Replaced(s, f), g)[i] = s[i]
        BY <3>1, ChangedAndPushed
      <3> QED
        BY <3>2
    <2> HIDE DEF r
    <2>7. \A u \in Threads, i \in Nat : IsExit(u, i)' =>
              IsExit(u, i) /\ IF u = t /\ i = n THEN stack'[u][i].left = left - 1 ELSE stack'[u][i] = stack[u][i]
      <3>1. \A u \in Threads \ {t}, i \in Nat : IsExit(u, i)' => IsExit(u, i) /\ stack'[u][i] = stack[u][i]
        BY <2>4 DEF IsExit
      <3>2. \A i \in 1..(n + 1) : i = n + 1 \/ i = n \/ i \in 1..(n - 1)
        BY <2>1
      <3>3. \A i \in Nat : IsExit(t, i)' => IsExit(t, i) /\ IF i = n THEN stack'[t][i].left = left - 1 ELSE stack'[t][i] = stack[t][i]
        <4> SUFFICES ASSUME NEW i \in Nat, IsExit(t, i)'
                     PROVE  IsExit(t, i) /\ IF i = n THEN stack'[t][i].left = left - 1 ELSE stack'[t][i] = stack[t][i]
          OBVIOUS
        <4>1. i \in 1..(n + 1) /\ r[i].kind = "exit"
          BY <2>4, <2>6 DEF IsExit
        <4>2. i # n + 1
          BY <2>3, <2>6, <4>1
        <4>3. CASE i = n
          BY <2>1, <2>3, <2>4, <2>6, <4>3
        <4>4. CASE i \in 1..(n - 1)
          BY <2>1, <2>4, <2>6, <4>1, <4>4 DEF IsExit
        <4> QED
          BY <3>2, <4>1, <4>2, <4>3, <4>4
      <3> QED
        BY <3>1, <3>3
    <2>8. \A u \in Threads, i \in Nat : Runs(u, i)' => u = t /\ i = n /\ stack'[u][i].left = left - 1
      <3>1. \A u \in Threads, i \in Nat : Runs(u, i) => u = t /\ i = n
        BY <2>1 DEF OrderInv, RunsOK
      <3> QED
        BY <2>7, <3>1 DEF Runs
    <2>9. /\ left \in 1..Len(list.items) /\ ~ Armed
          /\ \A k \in 1..Len(ran) : ran[k].number > left
      <3>1. left <= Len(list.items) /\ ~ Armed /\ \A k \in 1..Len(ran) : ran[k].number > left
        BY <2>1 DEF OrderInv, RunsOK
      <3>2. Len(list.items) \in Nat
        BY StackElements DEF OrderInv, ItemsOK
      <3> QED
        BY <2>1, <3>1, <3>2
    <2>10. d \in Destructors /\ d.number = left
      BY <2>9, StackElements DEF OrderInv, ItemsOK
    <2>11. ran' = Append(ran, d) /\ ran \in Seq(Destructors) /\ Len(ran) \in Nat
      BY <1>2, StackElements DEF OrderInv, RanOK, left
    <2> HIDE DEF d
    <2>12. /\ ran' \in Seq(Destructors) /\ Len(ran') = Len(ran) + 1 /\ ran' # <<>>
           /\ ran'[Len(ran) + 1] = d /\ \A k \in 1..Len(ran) : ran'[k] = ran[k]
      BY <2>10, <2>11, Pushed
    <2>13. StartOK(is)'
      <3>1. \A i \in 1..Len(r) : r[i].kind = "init" => i \in 1..(n - 1)
        BY <2>1, <2>3, <2>6
      <3>2. \A u \in Threads : \A i \in 1..Len(stack[u]) : stack[u][i].kind = "init" => started # <<>>
        BY DEF OrderInv, StartOK
      <3>3. \A i \in 1..Len(r) : r[i].kind = "init" => started # <<>>
        BY <2>1, <2>6, <3>1, <3>2
      <3>4. \A u \in Threads : \A i \in 1..Len(stack'[u]) : stack'[u][i].kind = "init" => started # <<>>
        BY <2>4, <3>2, <3>3
      <3> QED
        BY <1>0, <3>4 DEF OrderInv, StartOK
    <2>14. ItemsOK'
      BY <1>0 DEF OrderInv, ItemsOK
    <2>15. RanOK'
      <3>1. \A i \in 1..Len(ran') : ran'[i].number \in 1..Len(list.items) /\ ran'[i] = list.items[ran'[i].number]
        <4>1. \A i \in 1..Len(ran) : ran[i].number \in 1..Len(list.items) /\ ran[i] = list.items[ran[i].number]
          BY DEF OrderInv, RanOK
        <4>2. d.number \in 1..Len(list.items) /\ d = list.items[d.number]
          BY <2>9, <2>10 DEF d
        <4> QED
          BY <2>11, <2>12, <4>1, <4>2
      <3>2. \A i, j \in 1..Len(ran') : i < j => ran'[i].number > ran'[j].number
        <4>1. \A i, j \in 1..Len(ran) : i < j => ran[i].number > ran[j].number
          BY DEF OrderInv, RanOK
        <4> QED
          BY <2>9, <2>10, <2>11, <2>12, <4>1, SMTT(40)
      <3> QED
        BY <1>0, <2>12, <3>1, <3>2 DEF RanOK
    <2>16. Armed' = Armed
      BY <1>0 DEF Armed
    <2>17. AtexitOK'
      BY <1>0, <2>9, <2>16 DEF OrderInv, AtexitOK
    <2>18. RunsOK'
      <3>1. \A k \in 1..Len(ran') : ran'[k].number > left - 1
        <4>1. \A k \in 1..Len(ran) : ran[k].number \in Int
          BY DEF OrderInv, RanOK
        <4> QED
          BY <2>1, <2>9, <2>10, <2>11, <2>12, <4>1
      <3>2. left - 1 <= Len(list.items)
        BY <2>9
      <3> QED
        BY <1>0, <2>8, <2>9, <2>16, <3>1, <3>2 DEF RunsOK
    <2>19. \A k : HasRun(k)' <=> HasRun(k) \/ k = left
      <3>1. \A k : HasRun(k)' <=> \E i \in 1..(Len(ran) + 1) : ran'[i].number = k
        BY <2>12 DEF HasRun
      <3> QED
        BY <2>10, <2>11, <2>12, <3>1 DEF HasRun
    <2>20. OwedOK'
      <3>1. ASSUME Len(owed) = 1
            PROVE  /\ \A u, v \in Threads, i, j \in Nat : IsExit(u, i)' /\ IsExit(v, j)' => u = v /\ i = j
                   /\ \A u \in Threads, i \in Nat : IsExit(u, i)' =>
                          \A k \in 1..owed[1] : k > stack'[u][i].left => HasRun(k)'
        <4>1. \A u, v \in Threads, i, j \in Nat : IsExit(u, i) /\ IsExit(v, j) => u = v /\ i = j
          BY <3>1 DEF OrderInv, OwedOK
        <4>2. \A u \in Threads, i \in Nat : IsExit(u, i)' => u = t /\ i = n /\ stack'[u][i].left = left - 1
          BY <2>1, <2>7, <4>1
        <4>3. \A k \in 1..owed[1] : k > left => HasRun(k)
          BY <2>1, <2>9, <3>1 DEF OrderInv, OwedOK
        <4>4. \A k \in 1..owed[1] : k > left - 1 => HasRun(k)'
          BY <2>1, <2>19, <4>3
        <4> QED
          BY <2>7, <4>1, <4>2, <4>4
      <3>2. phase' # "exit"
        BY <1>0, <1>2 DEF InExit, Up, Ended
      <3> QED
        BY <1>0, <2>7, <3>1, <3>2 DEF OrderInv, OwedOK
    <2> QED
      BY <2>13, <2>14, <2>15, <2>17, <2>18, <2>20 DEF OrderInv
  <1> QED
    BY <1>1, <1>2 DEF CallDestructor, NextIndex

LEMMA OrderInit ==
    ASSUME NEW is, NEW f, NEW a, ProcessInit(is, f, a)
    PROVE  OrderInv(is)
  <1>1. /\ started = <<>> /\ list.items = <<>> /\ ran = <<>> /\ owed = <<>> /\ atexits = <<"note">>
        /\ stack = [t \in Threads |-> <<>>] /\ phase = "setup"
    BY DEF ProcessInit, xl_install_crash_handler
  <1>2. \A t \in Threads, i \in Nat : ~ IsExit(t, i)
    BY <1>1 DEF IsExit
  <1>3. Range(<<>>) = {}
    BY DEF Range
  <1>4. StartOK(is)
    BY <1>1 DEF StartOK
  <1>5. ItemsOK /\ RanOK
    BY <1>1 DEF ItemsOK, RanOK
  <1>6. ~ Armed
    BY <1>1 DEF Armed, Range
  <1>7. AtexitOK
    BY <1>1, <1>6 DEF AtexitOK
  <1>8. RunsOK
    BY <1>2 DEF RunsOK, Runs
  <1>9. OwedOK
    BY <1>1, <1>2 DEF OwedOK
  <1> QED
    BY <1>4, <1>5, <1>7, <1>8, <1>9 DEF OrderInv

LEMMA OrderNext ==
    ASSUME NEW is, NEW S, is \in Seq(S), IInv(is), ListOK, OrderInv(is), [Next]_vars
    PROVE  OrderInv(is)'
  <1>1. CASE UNCHANGED vars
    <2>1. UNCHANGED <<phase, started, stack, list, atexits, owed, ran>>
      BY <1>1 DEF vars, startVars, threadVars, exitVars
    <2> QED
      BY <2>1, StackQuiet, SameAtexits, QuietStep
  <1>2. CASE Setup \/ main
    BY <1>2, ThreadsAssumption, QuietSteps
  <1>3. CASE xl_run_initializers
    BY <1>3, RunInitializersOrder
  <1>4. ASSUME NEW t \in Threads, GuestStep(t)
        PROVE  OrderInv(is)'
    <2>1. CASE xl_manual_cxa_atexit(t)
      BY <2>1, CxaAtexitOrder
    <2>2. CASE GuestExits(t)
      BY <2>2, GuestExitsOrder
    <2>3. CASE SpawnThread(t) \/ CallBack(t) \/ xl_tlv_get(t) \/ SetKey(t) \/ GuestLeaves(t) \/ xl_fault(t) \/ Signal(t)
      BY <2>3, QuietSteps
    <2> QED
      BY <1>4, <2>1, <2>2, <2>3 DEF GuestStep
  <1>5. ASSUME NEW t \in Threads, HostStep(t)
        PROVE  OrderInv(is)'
    <2>1. CASE Return(t)
      BY <2>1, ReturnOrder
    <2>2. CASE xl_note_exit(t)
      BY <2>2, NoteExitOrder
    <2>3. CASE xl_run_cxa_dtors(t)
      BY <2>3, RunCxaDtorsOrder
    <2>4. CASE LoadList(t)
      BY <2>4, LoadListOrder
    <2>5. CASE CallDestructor(t)
      BY <2>5, CallDestructorOrder
    <2>6. CASE EndOfExit(t)
      BY <2>6, EndOfExitOrder
    <2>7. CASE \/ KeyDestructor(t) \/ NextRound(t)
               \/ xl_crash_handler(t) \/ xl_signal_note(t) \/ xl_walk_guest(t) \/ Raise(t)
      BY <2>7, QuietSteps
    <2> QED
      BY <1>5, <2>1, <2>2, <2>3, <2>4, <2>5, <2>6, <2>7 DEF HostStep
  <1> QED
    BY <1>1, <1>2, <1>3, <1>4, <1>5 DEF Next

(* However initializers, functions of the guest, threads that call exit    *)
(* and destructors that register destructors follow each other, the        *)
(* destructors that have run ran once each, newest first and image by      *)
(* image, and a single call of exit that completes has run all that were   *)
(* registered before it (runtime/bridge.m, xl_manual_cxa_atexit and        *)
(* xl_run_cxa_dtors; xlate/src/xlate.cpp, the calls of the initializers).  *)
THEOREM DestructorsRunInOrderHolds ==
    ASSUME NEW S, NEW is \in Seq(S), RegionsOK(is), NEW f, NEW a
    PROVE  ProcessInit(is, f, a) /\ [][Next]_vars => []DestructorsRunInOrder
  <1>1. ProcessInit(is, f, a) => OrderInv(is)
    BY OrderInit
  <1>2. (IInv(is) /\ ListOK) /\ OrderInv(is) /\ [Next]_vars => OrderInv(is)'
    BY OrderNext
  <1>3. OrderInv(is) => DestructorsRunInOrder
    <2> SUFFICES ASSUME OrderInv(is) PROVE DestructorsRunInOrder
      OBVIOUS
    <2>1. RanOK /\ ItemsOK /\ OwedOK
      BY DEF OrderInv
    <2>2. ran \in Seq(Destructors) /\ list.items \in Seq(Destructors)
      BY <2>1 DEF RanOK, ItemsOK
    <2>3. DOMAIN ran = 1..Len(ran) /\ Len(list.items) \in Nat
      BY <2>2, StackElements
    <2>4. ASSUME NEW i \in DOMAIN ran, NEW j \in DOMAIN ran, i < j
          PROVE  /\ ran[i].number > ran[j].number
                 /\ ran[i].image # 0 /\ ran[j].image # 0 => ran[i].image <= ran[j].image
      <3> DEFINE k == ran[j].number
                 l == ran[i].number
      <3>1. /\ k \in 1..Len(list.items) /\ l \in 1..Len(list.items) /\ l > k
            /\ ran[j] = list.items[k] /\ ran[i] = list.items[l]
        BY <2>1, <2>3, <2>4 DEF RanOK
      <3>2. list.items[k] \in Destructors /\ list.items[l] \in Destructors
        BY <2>2, <3>1, StackElements
      <3>3. list.items[k].image \in Nat /\ list.items[l].image \in Nat
        BY <3>2 DEF Destructors
      <3>4. k < l
        BY <2>3, <3>1
      <3>5. list.items[k].image # 0 /\ list.items[l].image # 0 => list.items[k].image >= list.items[l].image
        BY <2>1, <3>1, <3>4 DEF ItemsOK
      <3> QED
        BY <3>1, <3>3, <3>5
    <2>5. ASSUME phase = "exit", Len(owed) = 1, NEW n \in 1..owed[1]
          PROVE  n \in {d.number : d \in Range(ran)}
      <3>1. HasRun(n)
        BY <2>1, <2>5 DEF OwedOK
      <3>2. PICK k \in DOMAIN ran : ran[k].number = n
        BY <2>3, <3>1 DEF HasRun
      <3>3. ran[k] \in Range(ran)
        BY DEF Range
      <3> QED
        BY <3>2, <3>3
    <2> QED
      BY <2>4, <2>5 DEF DestructorsRunInOrder
  <1> QED
    BY <1>1, <1>2, <1>3, Invariance, PTL

=============================================================================
