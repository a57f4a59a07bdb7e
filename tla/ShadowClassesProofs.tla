------------------------ MODULE ShadowClassesProofs ------------------------
(***************************************************************************)
(* Proofs about ShadowClasses, for any number of threads, classes, stubs   *)
(* and host class pairs, any class hierarchy, and whatever the +initialize *)
(* methods of the classes message in the middle of a build.                *)
(*                                                                         *)
(* The invariant says what a frame on a thread's stack may rely on while   *)
(* the frames above it run: the value it got is still the table's, and the *)
(* value it waits for is that of the call right above it.  The predicates  *)
(* on frames and stacks take the tables as parameters, so that they can be *)
(* compared between the states before and after a step.                    *)
(***************************************************************************)
EXTENDS ShadowClasses, DataTheorems, TLAPS

(* The frames of a call that answers a class: xl_class_from_guest and      *)
(* xl_build_shadow; and those that can wait for a call above them.         *)
Callee == {"lookup", "static", "lock"} \cup Building
Waiting == {"listed", "receive", "initialize", "realize", "stub"}

Values == Keys \cup Pairs \cup {None}
FrameSet == [pc : Callee \cup Waiting, obj : Keys \cup {None}, val : Values]

(* The class object a frame has asked, or is going to ask, the class of.   *)
Asked(f) ==
    CASE f.pc = "realize" -> ClassOf(Super[f.obj[1]])
      [] f.pc = "stub" -> ClassOf(StubOf[f.obj])
      [] OTHER -> f.obj

Asks(f) == f.pc \in {"receive", "stub"} \/ (f.pc = "realize" /\ Super[f.obj[1]] # None)

(* What a frame holds, with g for xl_guest_to_host: the answer to what it  *)
(* asked is the table's, or the class object itself when neither table had *)
(* it; a class is only allocated below the shadow of its superclass.       *)
FrameOK(g, f) ==
    /\ f.pc \in {"lock", "initialize"} \cup Building => f.obj \in Objects
    /\ f.pc \in {"lookup", "static", "receive"} => f.obj \in Keys
    /\ f.pc = "stub" => f.obj \in Stubs
    /\ f.pc = "super" => f.val = None
    /\ f.pc = "realize" /\ Super[f.obj[1]] = None => f.val = None
    /\ Asks(f) /\ f.val # None =>
           f.val = g[Asked(f)] \/ (f.val = Asked(f) /\ f.pc # "stub")
    /\ f.pc = "allocate" =>
           IF Super[f.obj[1]] = None THEN f.val = None
           ELSE f.val \in Pairs /\ f.val = g[ClassOf(Super[f.obj[1]])]

(* Frame e runs right above frame f.                                       *)
LinkOK(f, e) ==
    /\ f.pc \in Waiting
    /\ f.pc = "listed" => e.pc \in Callee
    /\ f.pc = "initialize" => e.pc = "receive"
    /\ f.pc = "realize" => Asks(f)
    /\ Asks(f) /\ f.val = None => e.pc \in Callee /\ e.obj = Asked(f)
    /\ Asks(f) /\ f.val # None => e.pc = "initialize"
    /\ f.pc = "stub" => f.val = None /\ e.pc \notin {"lookup", "static"}

TopOK(f) == Asks(f) => f.val # None

FramesOK(g, s) ==
    /\ s \in Seq(FrameSet)
    /\ \A i \in 1..Len(s) : FrameOK(g, s[i])
    /\ \A i \in 1..(Len(s) - 1) : LinkOK(s[i], s[i + 1])

StackOK(g, s) == FramesOK(g, s) /\ (s # <<>> => TopOK(s[Len(s)]))

InBuild(s) == \E i \in 1..Len(s) : s[i].pc \in Building

(* The pair a build has allocated and not published, with n for the names  *)
(* of the pairs and r for the registered ones: nobody else has a pair for  *)
(* the class.                                                              *)
PendingOK(g, n, r, s) ==
    LET f == s[Len(s)]
        h == f.val[1]
    IN  s # <<>> /\ f.pc \in {"register", "publish"} =>
            /\ h \in Hosts /\ f.val = ClassOf(h)
            /\ n[h] = f.obj[1]
            /\ g[ClassOf(f.obj[1])] = None
            /\ f.pc = "register" => \A q \in r : n[q] # f.obj[1]
            /\ f.pc = "publish" => h \in r

----------------------------------------------------------------------------
(* The parts of the invariant.                                             *)

TablesType ==
    /\ g2h \in [Keys -> Pairs \cup {None}]
    /\ h2g \in [Pairs -> Objects \cup {None}]
    /\ unbuilt \subseteq Static \X Kinds
    /\ hname \in [Hosts -> Classes \cup {None}]
    /\ hsuper \in [Hosts -> Pairs \cup {None}]
    /\ reg \subseteq Hosts

(* The tables lead from a class to its registered shadow and back; class   *)
(* and metaclass are published together; a stub leads where its class      *)
(* does; a static class is in one table or the other.                      *)
TablesInv ==
    /\ \A h \in reg : hname[h] # None
    /\ \A g, h \in reg : hname[g] = hname[h] => g = h
    /\ \A c \in Classes, k \in Kinds :
           LET p == g2h[<<c, k>>]
           IN  p # None => /\ p[1] \in reg /\ p = <<p[1], k>>
                           /\ hname[p[1]] = c
                           /\ h2g[p] = <<c, k>>
    /\ \A c \in Classes : g2h[ClassOf(c)] = None <=> g2h[MetaOf(c)] = None
    /\ \A p \in Pairs : h2g[p] # None => g2h[h2g[p]] = p
    /\ \A q \in Stubs : g2h[q] # None => g2h[q] = g2h[ClassOf(StubOf[q])]
    /\ \A o \in Static \X Kinds : o \in unbuilt \/ g2h[o] # None

StacksInv ==
    /\ stack \in [Threads -> Seq(FrameSet)]
    /\ \A t \in Threads : StackOK(g2h, stack[t])
MutexInv == \A t, u \in Threads : InBuild(stack[t]) /\ InBuild(stack[u]) => t = u
PendingInv == \A t \in Threads : PendingOK(g2h, hname, reg, stack[t])

(* A registered pair is in the tables, or about to be published.           *)
RegisteredInv ==
    \A h \in reg :
        \/ h2g[ClassOf(h)] # None
        \/ \E t \in Threads : At(t, "publish") /\ Top(t).val = ClassOf(h)

(* The thread that registers the listed classes has come past c.           *)
InLoop == registering # None /\ stack[registering] # <<>> /\ stack[registering][1].pc = "listed"

StartInv ==
    /\ registering \in Threads \cup {None}
    /\ left \subseteq Listed
    /\ registering = None => \A t \in Threads : stack[t] = <<>>
    /\ \A t \in Threads : stack[t] # <<>> /\ stack[t][1].pc = "listed" => t = registering
    /\ registering # None /\ ~ InLoop => left = {}
    /\ \A c \in Listed :
           \/ c \in left
           \/ g2h[ClassOf(c)] # None
           \/ InLoop /\ Len(stack[registering]) > 1 /\ stack[registering][2].obj = ClassOf(c)

IInv ==
    /\ TablesType
    /\ TablesInv
    /\ SuperIsShadow
    /\ StacksInv
    /\ MutexInv
    /\ PendingInv
    /\ RegisteredInv
    /\ StartInv

----------------------------------------------------------------------------
(* How the operations on a stack keep it well-formed.  The tables may grow *)
(* from g to e in the same step.                                           *)

Grows(g, e) == \A o \in Keys : g[o] # None => e[o] = g[o]

LEMMA FrameGrows ==
    ASSUME NEW g, NEW e, Grows(g, e), NEW f \in FrameSet, FrameOK(g, f)
    PROVE  FrameOK(e, f)
  <1>1. Asks(f) => Asked(f) \in Keys
    BY ShadowAssumption DEF FrameOK, Asks, Asked, Keys, Objects, Kinds, ClassOf, Building
  <1>2. f.pc = "allocate" /\ Super[f.obj[1]] # None => ClassOf(Super[f.obj[1]]) \in Keys
    BY ShadowAssumption DEF FrameOK, Keys, Objects, Kinds, ClassOf, Building
  <1>3. None \notin Pairs
    BY ShadowAssumption
  <1> QED
    BY <1>1, <1>2, <1>3 DEF FrameOK, Grows

LEMMA StackGrows ==
    ASSUME NEW g, NEW e, Grows(g, e), NEW s, FramesOK(g, s)
    PROVE  FramesOK(e, s)
  <1>1. \A i \in 1..Len(s) : s[i] \in FrameSet
    BY StackElements DEF FramesOK
  <1> QED
    BY <1>1, FrameGrows DEF FramesOK

LEMMA EmptyStack ==
    ASSUME NEW g
    PROVE  StackOK(g, <<>>) /\ ~ InBuild(<<>>)
  <1>1. <<>> \in Seq(FrameSet) /\ Len(<<>>) = 0
    BY EmptySeq
  <1> QED
    BY <1>1 DEF StackOK, FramesOK, InBuild

LEMMA PushFrame ==
    ASSUME NEW g, NEW s, FramesOK(g, s), NEW f \in FrameSet, FrameOK(g, f),
           s # <<>> => LinkOK(s[Len(s)], f)
    PROVE  /\ FramesOK(g, Append(s, f)) /\ Append(s, f) # <<>> /\ Append(s, f)[Len(s) + 1] = f /\ Len(Append(s, f)) = Len(s) + 1
           /\ \A i \in 1..Len(s) : Append(s, f)[i] = s[i]
           /\ InBuild(Append(s, f)) => InBuild(s) \/ f.pc \in Building
  <1>1. /\ s \in Seq(FrameSet) /\ Len(s) \in Nat
        /\ s = <<>> <=> Len(s) = 0
    BY StackElements DEF FramesOK
  <1>2. /\ Append(s, f) \in Seq(FrameSet) /\ Len(Append(s, f)) = Len(s) + 1 /\ Append(s, f) # <<>>
        /\ Append(s, f)[Len(s) + 1] = f
        /\ \A i \in 1..Len(s) : Append(s, f)[i] = s[i]
    BY <1>1, Pushed
  <1>3. \A i \in 1..Len(Append(s, f)) : FrameOK(g, Append(s, f)[i])
    BY <1>1, <1>2 DEF FramesOK
  <1>4. \A i \in 1..(Len(Append(s, f)) - 1) : LinkOK(Append(s, f)[i], Append(s, f)[i + 1])
    BY <1>1, <1>2 DEF FramesOK
  <1> QED
    BY <1>1, <1>2, <1>3, <1>4 DEF FramesOK, InBuild

LEMMA ReplaceFrame ==
    ASSUME NEW g, NEW s, FramesOK(g, s), s # <<>>, NEW f \in FrameSet, FrameOK(g, f),
           Len(s) > 1 => LinkOK(s[Len(s) - 1], f)
    PROVE  /\ FramesOK(g, Replaced(s, f)) /\ Replaced(s, f) # <<>> /\ Replaced(s, f)[Len(s)] = f /\ Len(Replaced(s, f)) = Len(s)
           /\ \A i \in 1..(Len(s) - 1) : Replaced(s, f)[i] = s[i]
           /\ InBuild(Replaced(s, f)) => InBuild(s) \/ f.pc \in Building
  <1>1. /\ s \in Seq(FrameSet) /\ Len(s) \in Nat /\ Len(s) > 0
    BY StackElements DEF FramesOK
  <1>2. /\ Replaced(s, f) \in Seq(FrameSet) /\ Len(Replaced(s, f)) = Len(s) /\ Replaced(s, f) # <<>>
        /\ Replaced(s, f)[Len(s)] = f
        /\ \A i \in 1..(Len(s) - 1) : Replaced(s, f)[i] = s[i]
    BY <1>1, TopChanged
  <1>3. \A i \in 1..Len(Replaced(s, f)) : FrameOK(g, Replaced(s, f)[i])
    BY <1>1, <1>2 DEF FramesOK
  <1>4. \A i \in 1..(Len(Replaced(s, f)) - 1) : LinkOK(Replaced(s, f)[i], Replaced(s, f)[i + 1])
    BY <1>1, <1>2 DEF FramesOK
  <1>5. InBuild(Replaced(s, f)) => InBuild(s) \/ f.pc \in Building
    BY <1>1, <1>2 DEF InBuild
  <1> QED
    BY <1>2, <1>3, <1>4, <1>5 DEF FramesOK

LEMMA PopFrame ==
    ASSUME NEW g, NEW s, FramesOK(g, s), s # <<>>
    PROVE  /\ FramesOK(g, Popped(s)) /\ Len(Popped(s)) = Len(s) - 1 /\ (Popped(s) = <<>> <=> Len(s) = 1)
           /\ \A i \in 1..(Len(s) - 1) : Popped(s)[i] = s[i]
           /\ InBuild(Popped(s)) => InBuild(s)
  <1>1. /\ s \in Seq(FrameSet) /\ Len(s) \in Nat /\ Len(s) > 0
    BY StackElements DEF FramesOK
  <1>2. /\ Popped(s) \in Seq(FrameSet) /\ Len(Popped(s)) = Len(s) - 1 /\ (Popped(s) = <<>> <=> Len(s) = 1)
        /\ \A i \in 1..(Len(s) - 1) : Popped(s)[i] = s[i]
    BY <1>1, TopPopped
  <1>3. \A i \in 1..Len(Popped(s)) : FrameOK(g, Popped(s)[i])
    BY <1>1, <1>2 DEF FramesOK
  <1>4. \A i \in 1..(Len(Popped(s)) - 1) : LinkOK(Popped(s)[i], Popped(s)[i + 1])
    BY <1>1, <1>2 DEF FramesOK
  <1> QED
    BY <1>1, <1>2, <1>3, <1>4 DEF FramesOK, InBuild

(* A frame of a call goes on in the same call.                             *)
LEMMA SameCall ==
    ASSUME NEW b, NEW f, NEW e, LinkOK(b, f), f.pc \in Callee, e.pc \in Callee, e.obj = f.obj,
           e.pc \in {"lookup", "static"} => f.pc \in {"lookup", "static"}
    PROVE  LinkOK(b, e)
  BY DEF LinkOK, Callee, Building

(* Frames change one or two fields at a time.                              *)
LEMMA FrameFields ==
    ASSUME NEW f \in FrameSet, NEW pc \in Callee \cup Waiting, NEW v \in Values
    PROVE  LET a == [f EXCEPT !.val = v]
               b == [f EXCEPT !.pc = pc, !.val = v]
               c == [f EXCEPT !.pc = pc]
           IN  /\ a \in FrameSet /\ a.pc = f.pc /\ a.obj = f.obj /\ a.val = v
               /\ b \in FrameSet /\ b.pc = pc /\ b.obj = f.obj /\ b.val = v
               /\ c \in FrameSet /\ c.pc = pc /\ c.obj = f.obj /\ c.val = f.val
  BY DEF FrameSet

(* A call returns a class: the table's answer, or from xl_class_from_guest *)
(* the class object it was given.  The frame below it becomes f, the same  *)
(* with the value.                                                         *)
LEMMA ReturnFrame ==
    ASSUME NEW g, NEW s, FramesOK(g, s), Len(s) > 1,
           s[Len(s)].pc \in Callee, NEW v \in Keys \cup Pairs,
           \/ v = g[s[Len(s)].obj]
           \/ v = s[Len(s)].obj /\ s[Len(s)].pc \in {"lookup", "static"},
           NEW f \in FrameSet,
           f.pc = s[Len(s) - 1].pc, f.obj = s[Len(s) - 1].obj, f.val = v
    PROVE  FrameOK(g, f) /\ TopOK(f) /\ f.pc \in Waiting
  <1> DEFINE b == s[Len(s) - 1]
             e == s[Len(s)]
  <1>1. LinkOK(b, e) /\ FrameOK(g, b)
    BY StackElements DEF FramesOK
  <1> HIDE DEF b, e
  <1>2. v # None
    BY ShadowAssumption DEF Keys
  <1>3. f.pc = b.pc /\ f.obj = b.obj /\ e.pc \in Callee
    BY DEF b, e
  <1>4. Asks(f) = Asks(b) /\ Asked(f) = Asked(b)
    BY <1>3 DEF Asks, Asked
  <1>5. Asks(b) => e.obj = Asked(b)
    BY <1>1, <1>3 DEF LinkOK, Callee, Building
  <1>6. f.pc \in Waiting /\ (f.pc = "realize" => Asks(f)) /\ (f.pc = "stub" => e.pc \notin {"lookup", "static"})
    BY <1>1, <1>3, <1>4 DEF LinkOK
  <1>7. v = g[e.obj] \/ (v = e.obj /\ e.pc \in {"lookup", "static"})
    BY DEF e
  <1>8. Asks(f) => f.val = g[Asked(f)] \/ (f.val = Asked(f) /\ f.pc # "stub")
    BY <1>4, <1>5, <1>6, <1>7
  <1>9. FrameOK(g, f)
    BY <1>1, <1>3, <1>6, <1>8 DEF FrameOK, Waiting, Building, Asks
  <1> QED
    BY <1>2, <1>6, <1>9 DEF TopOK

LEMMA ReturnStack ==
    ASSUME NEW g, NEW s, FramesOK(g, s), Len(s) > 1, NEW f \in FrameSet,
           f.pc = s[Len(s) - 1].pc, f.obj = s[Len(s) - 1].obj,
           FrameOK(g, f), TopOK(f)
    PROVE  /\ StackOK(g, Returned(s, f)) /\ Len(Returned(s, f)) = Len(s) - 1
           /\ Returned(s, f) # <<>> /\ Returned(s, f)[Len(s) - 1] = f
           /\ \A i \in 1..(Len(s) - 1) :
                  Returned(s, f)[i].pc = s[i].pc /\ Returned(s, f)[i].obj = s[i].obj
           /\ InBuild(Returned(s, f)) => InBuild(s)
  <1>0. /\ Returned(s, f) \in Seq(FrameSet) /\ Len(Returned(s, f)) = Len(s) - 1 /\ Returned(s, f) # <<>>
        /\ Returned(s, f)[Len(s) - 1] = f
        /\ \A i \in 1..(Len(s) - 2) : Returned(s, f)[i] = s[i]
    <2>1. s \in Seq(FrameSet)
      BY DEF FramesOK
    <2>2. ReturnedOK(FrameSet, s, f)
      BY <2>1, TopReturnedOK
    <2> QED
      BY <2>2 DEF ReturnedOK
  <1> DEFINE r == Returned(s, f)
             n == Len(s)
  <1>1. s \in Seq(FrameSet) /\ n \in Nat /\ n > 1
    BY StackElements DEF FramesOK
  <1>2. /\ r \in Seq(FrameSet) /\ Len(r) = n - 1 /\ r # <<>>
        /\ r[n - 1] = f
        /\ \A i \in 1..(n - 2) : r[i] = s[i]
    BY <1>0
  <1> HIDE DEF r, n
  <1>3. \A i \in 1..Len(r) : FrameOK(g, r[i])
    BY <1>1, <1>2 DEF FramesOK, n
  <1>4. \A i \in 1..(Len(r) - 1) : LinkOK(r[i], r[i + 1])
    <2>1. ASSUME NEW b, LinkOK(b, s[n - 1]) PROVE LinkOK(b, f)
      BY <2>1 DEF LinkOK, n, Asks
    <2>2. \A i \in 1..(n - 2) : LinkOK(s[i], s[i + 1])
      BY <1>1 DEF FramesOK, n
    <2> QED
      BY <1>1, <1>2, <2>1, <2>2
  <1>5. \A i \in 1..(n - 1) : r[i].pc = s[i].pc /\ r[i].obj = s[i].obj
    BY <1>1, <1>2 DEF n
  <1>6. StackOK(g, r)
    BY <1>2, <1>3, <1>4 DEF StackOK, FramesOK
  <1>7. InBuild(r) => InBuild(s)
    BY <1>1, <1>2, <1>5 DEF InBuild, n
  <1> QED
    BY <1>2, <1>5, <1>6, <1>7 DEF r, n

(* What the loop over the listed classes relies on while the call it made  *)
(* runs: the call is still the second frame, or has left a shadow.         *)
Kept(g, s, r) ==
    /\ s # <<>> /\ s[1].pc = "listed" =>
           /\ r # <<>> /\ r[1].pc = "listed"
           /\ Len(s) > 1 => \/ Len(r) > 1 /\ r[2].obj = s[2].obj
                            \/ s[2].obj \in Static \X Kinds => g[s[2].obj] # None
    /\ r # <<>> /\ r[1].pc = "listed" => s # <<>> /\ s[1].pc = "listed"

LEMMA KeptAbove ==
    ASSUME NEW g, NEW s \in Seq(FrameSet), NEW r \in Seq(FrameSet), s # <<>>, Len(r) >= Len(s),
           \A i \in 1..(Len(s) - 1) : r[i] = s[i],
           r[Len(s)].obj = s[Len(s)].obj,
           s[Len(s)].pc = "listed" <=> r[Len(s)].pc = "listed"
    PROVE  Kept(g, s, r)
  <1>1. Len(s) \in Nat /\ Len(r) \in Nat /\ Len(s) > 0 /\ r # <<>>
    BY StackElements
  <1>2. \A n \in Nat : n > 0 => n = 1 \/ n = 2 \/ n > 2
    OBVIOUS
  <1> QED
    BY <1>1, <1>2 DEF Kept

LEMMA KeptBelow ==
    ASSUME NEW g, NEW s, FramesOK(g, s), s # <<>>, NEW r \in Seq(FrameSet), Len(r) = Len(s) - 1,
           \A i \in 1..Len(r) : r[i].pc = s[i].pc /\ r[i].obj = s[i].obj,
           \/ s[Len(s)].pc = "initialize"
           \/ s[Len(s)].pc = "receive"
           \/ /\ s[Len(s)].pc \in Callee
              /\ s[Len(s)].obj \in Static \X Kinds => g[s[Len(s)].obj] # None
    PROVE  Kept(g, s, r)
  <1>1. Len(s) \in Nat /\ Len(s) > 0 /\ (r = <<>> <=> Len(r) = 0)
    BY StackElements DEF FramesOK
  <1> SUFFICES ASSUME s[1].pc = "listed" PROVE Kept(g, s, r)
    BY <1>1 DEF Kept
  <1>2. Len(s) > 1
    BY <1>1 DEF Callee, Building
  <1>3. LinkOK(s[1], s[2])
    BY <1>1, <1>2, SMTT(40) DEF FramesOK
  <1>4. s[2].pc \in Callee
    BY <1>3 DEF LinkOK
  <1>5. CASE Len(s) = 2
    BY <1>1, <1>4, <1>5 DEF Kept, Callee, Building
  <1>6. CASE Len(s) > 2
    BY <1>1, <1>6 DEF Kept
  <1> QED
    BY <1>1, <1>2, <1>5, <1>6

----------------------------------------------------------------------------
(* A step of thread t on its stack, as the invariant sees it.              *)

Moves(t) ==
    /\ stack' = [stack EXCEPT ![t] = stack'[t]]
    /\ StackOK(g2h', stack'[t])
    /\ InBuild(stack'[t]) =>
           InBuild(stack[t]) \/ \A u \in Threads \ {t} : ~ InBuild(stack[u])
    /\ Kept(g2h', stack[t], stack'[t])

LEMMA OthersStay ==
    ASSUME IInv, NEW t \in Threads, Moves(t)
    PROVE  \A u \in Threads \ {t} : stack'[u] = stack[u]
  BY DEF IInv, StacksInv, Moves

LEMMA MoveStacks ==
    ASSUME IInv, NEW t \in Threads, Grows(g2h, g2h'),
           stack' = [stack EXCEPT ![t] = stack'[t]], StackOK(g2h', stack'[t]),
           InBuild(stack'[t]) =>
               InBuild(stack[t]) \/ \A u \in Threads \ {t} : ~ InBuild(stack[u])
    PROVE  StacksInv' /\ MutexInv'
  <1>1. StacksInv'
    <2>0. stack' \in [Threads -> Seq(FrameSet)]
      BY DEF IInv, StacksInv, StackOK, FramesOK
    <2> SUFFICES ASSUME NEW u \in Threads PROVE StackOK(g2h', stack'[u])
      BY <2>0 DEF StacksInv
    <2>1. CASE u = t
      BY <2>1
    <2>2. CASE u # t
      <3>1. StackOK(g2h, stack[u]) /\ stack'[u] = stack[u]
        BY <2>2 DEF IInv, StacksInv
      <3> QED
        BY <3>1, StackGrows DEF StackOK
    <2> QED
      BY <2>1, <2>2
  <1>2. MutexInv'
    <2> SUFFICES ASSUME NEW u \in Threads, NEW v \in Threads,
                        InBuild(stack'[u]), InBuild(stack'[v]), u # v
                 PROVE  FALSE
      BY DEF MutexInv
    <2>1. \A w \in Threads \ {t} : InBuild(stack'[w]) => InBuild(stack[w])
      BY DEF IInv, StacksInv
    <2> QED
      BY <2>1 DEF IInv, MutexInv
  <1> QED
    BY <1>1, <1>2

LEMMA MoveKeeps ==
    ASSUME IInv, NEW t \in Threads, Moves(t), Grows(g2h, g2h'),
           registering # None, UNCHANGED <<registering, left>>
    PROVE  StacksInv' /\ MutexInv' /\ StartInv'
  <1>1. StacksInv' /\ MutexInv'
    BY MoveStacks DEF Moves
  <1>2. StartInv'
    <2> DEFINE s == stack[registering]
               r == stack'[registering]
    <2>1. registering \in Threads
      BY DEF IInv, StartInv
    <2>2. Kept(g2h', s, r)
      <3>1. CASE registering = t
        BY <3>1 DEF Moves
      <3>2. CASE registering # t
        BY <2>1, <3>2, OthersStay DEF Kept
      <3> QED
        BY <3>1, <3>2
    <2>3. InLoop => InLoop'
      BY <2>2 DEF InLoop, Kept
    <2>4. registering' # None /\ ~ InLoop' => left' = {}
      BY <2>3 DEF IInv, StartInv
    <2>5. ASSUME NEW c \in Listed
          PROVE  (\/ c \in left
                  \/ g2h[ClassOf(c)] # None
                  \/ InLoop /\ Len(stack[registering]) > 1 /\ stack[registering][2].obj = ClassOf(c))'
      <3>1. ClassOf(c) \in Keys /\ ClassOf(c) \in Static \X Kinds
        BY ShadowAssumption DEF ClassOf, Keys, Objects, Kinds
      <3>2. CASE c \in left
        BY <3>2
      <3>3. CASE g2h[ClassOf(c)] # None
        BY <3>1, <3>3 DEF Grows, ClassOf
      <3>4. CASE InLoop /\ Len(s) > 1 /\ s[2].obj = ClassOf(c)
        BY <2>2, <2>3, <3>1, <3>4 DEF Kept, ClassOf, InLoop
      <3> QED
        BY <3>2, <3>3, <3>4 DEF IInv, StartInv
    <2>6. \A u \in Threads : stack'[u] # <<>> /\ stack'[u][1].pc = "listed" => u = registering'
      BY OthersStay DEF IInv, StartInv, Moves, Kept
    <2>7. left' \subseteq Listed
      BY DEF IInv, StartInv
    <2> QED
      BY <2>1, <2>4, <2>5, <2>6, <2>7 DEF StartInv
  <1> QED
    BY <1>1, <1>2

(* A step that leaves the tables alone.                                    *)
LEMMA QuietTables ==
    ASSUME IInv, NEW t \in Threads, \A u \in Threads \ {t} : stack'[u] = stack[u],
           UNCHANGED <<tables, host>>,
           ~ At(t, "publish"), PendingOK(g2h, hname, reg, stack'[t])
    PROVE  TablesType' /\ TablesInv' /\ SuperIsShadow' /\ PendingInv' /\ RegisteredInv'
  <1>1. UNCHANGED <<g2h, h2g, unbuilt, hname, hsuper, reg>>
    BY DEF tables, host
  <1>3. TablesType' /\ TablesInv' /\ SuperIsShadow'
    BY <1>1 DEF IInv, TablesType, TablesInv, SuperIsShadow, ClassOf, MetaOf
  <1>4. PendingInv'
    BY <1>1 DEF IInv, PendingInv
  <1>5. RegisteredInv'
    <2> SUFFICES ASSUME NEW h \in reg, h2g[ClassOf(h)] = None
                 PROVE  \E u \in Threads : At(u, "publish")' /\ Top(u)'.val = ClassOf(h)
      BY <1>1 DEF RegisteredInv, ClassOf
    <2>1. PICK u \in Threads : At(u, "publish") /\ Top(u).val = ClassOf(h)
      BY DEF IInv, RegisteredInv
    <2>2. u # t /\ stack'[u] = stack[u]
      BY <2>1
    <2> QED
      BY <2>1, <2>2 DEF At, Top, Depth
  <1> QED
    BY <1>3, <1>4, <1>5

LEMMA QuietStep ==
    ASSUME IInv, NEW t \in Threads, Moves(t),
           registering # None, UNCHANGED <<tables, host, start>>,
           ~ At(t, "publish"), PendingOK(g2h, hname, reg, stack'[t])
    PROVE  IInv'
  <1>1. UNCHANGED <<g2h, registering, left>>
    BY DEF tables, start
  <1>2. StacksInv' /\ MutexInv' /\ StartInv'
    BY <1>1, MoveKeeps DEF Grows
  <1>3. TablesType' /\ TablesInv' /\ SuperIsShadow' /\ PendingInv' /\ RegisteredInv'
    BY OthersStay, QuietTables
  <1> QED
    BY <1>2, <1>3 DEF IInv

(* The innermost frame of a thread.                                        *)
LEMMA TopFacts ==
    ASSUME IInv, NEW t \in Threads, stack[t] # <<>>
    PROVE  /\ FramesOK(g2h, stack[t]) /\ stack[t] \in Seq(FrameSet)
           /\ Len(stack[t]) \in Nat /\ Len(stack[t]) > 0
           /\ Top(t) = stack[t][Len(stack[t])] /\ Top(t) \in FrameSet
           /\ FrameOK(g2h, Top(t)) /\ TopOK(Top(t))
           /\ Len(stack[t]) > 1 => LinkOK(stack[t][Len(stack[t]) - 1], Top(t))
           /\ registering # None
           /\ Top(t).pc \in Building => InBuild(stack[t])
  <1>1. StackOK(g2h, stack[t])
    BY DEF IInv, StacksInv
  <1>2. /\ stack[t] \in Seq(FrameSet) /\ Len(stack[t]) \in Nat /\ Len(stack[t]) > 0
        /\ \A i \in 1..Len(stack[t]) : stack[t][i] \in FrameSet
    BY <1>1, StackElements DEF StackOK, FramesOK
  <1>3. Top(t) = stack[t][Len(stack[t])]
    BY DEF Top, Depth
  <1>4. Len(stack[t]) > 1 => LinkOK(stack[t][Len(stack[t]) - 1], Top(t))
    BY <1>1, <1>2, <1>3 DEF StackOK, FramesOK
  <1>5. registering # None
    BY DEF IInv, StartInv
  <1> QED
    BY <1>1, <1>2, <1>3, <1>4, <1>5 DEF StackOK, FramesOK, InBuild

LEMMA ContinueMoves ==
    ASSUME IInv, NEW t \in Threads, stack[t] # <<>>, Top(t).pc \in Callee,
           NEW pc \in Callee \ {"lookup"}, NEW v \in Values, Continue(t, pc, v),
           Grows(g2h, g2h'), pc = "static" => Top(t).pc \in {"lookup", "static"},
           \A f \in FrameSet : f.pc = pc /\ f.obj = Top(t).obj /\ f.val = v =>
               FrameOK(g2h', f) /\ TopOK(f),
           pc \in Building => \/ Top(t).pc \in Building
                              \/ \A u \in Threads \ {t} : ~ InBuild(stack[u])
    PROVE  /\ Moves(t) /\ stack'[t] # <<>>
           /\ LET f == stack'[t][Len(stack'[t])]
              IN  f.pc = pc /\ f.obj = Top(t).obj /\ f.val = v
  <1> DEFINE f == [Top(t) EXCEPT !.pc = pc, !.val = v]
             r == Replaced(stack[t], f)
  <1>1. Top(t) \in FrameSet /\ FramesOK(g2h', stack[t])
    BY TopFacts, StackGrows
  <1>2. f \in FrameSet /\ f.pc = pc /\ f.obj = Top(t).obj /\ f.val = v
    BY <1>1 DEF FrameSet
  <1> HIDE DEF f
  <1>3. stack' = [stack EXCEPT ![t] = stack'[t]] /\ stack'[t] = r
    <2>1. stack' = [stack EXCEPT ![t] = r]
      BY DEF Continue, Below, Depth, f, Replaced
    <2> HIDE DEF r
    <2> QED
      BY <2>1 DEF IInv, StacksInv
  <1> HIDE DEF r
  <1>4. FrameOK(g2h', f) /\ TopOK(f)
    BY <1>2
  <1>5. Len(stack[t]) > 1 => LinkOK(stack[t][Len(stack[t]) - 1], f)
    BY <1>2, TopFacts, SameCall
  <1>6. /\ FramesOK(g2h', r) /\ r # <<>> /\ r[Len(r)] = f /\ Len(r) = Len(stack[t])
        /\ \A i \in 1..(Len(stack[t]) - 1) : r[i] = stack[t][i]
        /\ InBuild(r) => InBuild(stack[t]) \/ f.pc \in Building
    BY <1>1, <1>2, <1>4, <1>5, TopFacts, ReplaceFrame DEF r
  <1>7. Kept(g2h', stack[t], r)
    <2>1. r \in Seq(FrameSet) /\ stack[t] \in Seq(FrameSet)
      BY <1>6, TopFacts DEF FramesOK
    <2>2. r[Len(stack[t])].obj = stack[t][Len(stack[t])].obj /\ Len(r) >= Len(stack[t])
      BY <1>2, <1>6, TopFacts
    <2>3. stack[t][Len(stack[t])].pc # "listed" /\ r[Len(stack[t])].pc # "listed"
      BY <1>2, <1>6, TopFacts DEF Callee, Building
    <2> QED
      BY <1>6, <2>1, <2>2, <2>3, KeptAbove
  <1>8. InBuild(r) => InBuild(stack[t]) \/ \A u \in Threads \ {t} : ~ InBuild(stack[u])
    BY <1>2, <1>6, TopFacts
  <1> QED
    BY <1>2, <1>3, <1>4, <1>6, <1>7, <1>8 DEF Moves, StackOK

(* The innermost frame returns v to the frame below it, if there is one.   *)
LEMMA ReturnTo ==
    ASSUME IInv, NEW t \in Threads, stack[t] # <<>>, NEW v \in Values, Return(t, v),
           Grows(g2h, g2h'),
           \/ Top(t).pc = "receive"
           \/ /\ Top(t).pc \in Callee
              /\ Top(t).obj \in Static \X Kinds => g2h'[Top(t).obj] # None,
           Len(stack[t]) > 1 =>
               LET b == stack[t][Len(stack[t]) - 1]
               IN  \A f \in FrameSet : f.pc = b.pc /\ f.obj = b.obj /\ f.val = v =>
                       FrameOK(g2h', f) /\ TopOK(f)
    PROVE  /\ Moves(t)
           /\ PendingOK(g2h', hname', reg', stack'[t])
           /\ stack'[t] # <<>> =>
                  /\ Len(stack[t]) > 1
                  /\ stack'[t][Len(stack'[t])].pc = stack[t][Len(stack[t]) - 1].pc
  <1> DEFINE s == stack[t]
             b == s[Len(s) - 1]
             f == [b EXCEPT !.val = v]
             r == IF Len(s) = 1 THEN <<>> ELSE Returned(s, f)
  <1>1. /\ FramesOK(g2h', s) /\ s \in Seq(FrameSet) /\ Len(s) \in Nat /\ Len(s) > 0
        /\ s[Len(s)] = Top(t)
    BY TopFacts, StackGrows
  <1>2. stack' = [stack EXCEPT ![t] = stack'[t]] /\ stack'[t] = r
    <2>1. stack' = [stack EXCEPT ![t] = r]
      BY DEF Return, Depth, Returned
    <2> HIDE DEF r
    <2> QED
      BY <2>1 DEF IInv, StacksInv
  <1>3. CASE Len(s) = 1
    <2>1. r = <<>> /\ s[1].pc # "listed"
      BY <1>1, <1>3 DEF Callee, Building
    <2> HIDE DEF r
    <2>2. StackOK(g2h', r) /\ ~ InBuild(r) /\ Kept(g2h', s, r)
      BY <2>1, EmptyStack DEF Kept
    <2>3. PendingOK(g2h', hname', reg', r)
      BY <2>1 DEF PendingOK
    <2> QED
      BY <1>2, <2>1, <2>2, <2>3 DEF Moves
  <1>4. CASE Len(s) > 1
    <2>0. b \in FrameSet /\ b.pc \in Waiting
      BY <1>1, <1>4, StackElements DEF FramesOK, LinkOK
    <2>1. f \in FrameSet /\ f.pc = b.pc /\ f.obj = b.obj /\ f.val = v
      BY <2>0 DEF FrameSet
    <2> HIDE DEF f
    <2>2. FrameOK(g2h', f) /\ TopOK(f)
      BY <1>4, <2>1
    <2>3. r = Returned(s, f)
      <3>1. Len(s) # 1
        BY <1>1, <1>4
      <3> QED
        BY <3>1
    <2> HIDE DEF r
    <2>4. /\ StackOK(g2h', r) /\ Len(r) = Len(s) - 1
          /\ r # <<>> /\ r[Len(s) - 1] = f
          /\ \A i \in 1..(Len(s) - 1) : r[i].pc = s[i].pc /\ r[i].obj = s[i].obj
          /\ InBuild(r) => InBuild(s)
      BY <1>1, <1>4, <2>1, <2>2, <2>3, ReturnStack
    <2>5. Kept(g2h', s, r)
      <3>1. r \in Seq(FrameSet)
        BY <2>4 DEF StackOK, FramesOK
      <3> QED
        BY <1>1, <2>4, <3>1, KeptBelow
    <2>6. PendingOK(g2h', hname', reg', r)
      BY <2>0, <2>1, <2>4 DEF PendingOK, Waiting
    <2> QED
      BY <1>2, <1>4, <2>1, <2>4, <2>5, <2>6 DEF Moves
  <1>5. \A n \in Nat : n > 0 => n = 1 \/ n > 1
    OBVIOUS
  <1> QED
    BY <1>1, <1>3, <1>4, <1>5

(* A call returns a class.                                                 *)
LEMMA ReturnMoves ==
    ASSUME IInv, NEW t \in Threads, stack[t] # <<>>, Top(t).pc \in Callee,
           NEW v \in Keys \cup Pairs, Return(t, v), Grows(g2h, g2h'),
           Top(t).obj \in Static \X Kinds => g2h'[Top(t).obj] # None,
           v = g2h'[Top(t).obj] \/ (v = Top(t).obj /\ Top(t).pc \in {"lookup", "static"})
    PROVE  Moves(t) /\ PendingOK(g2h', hname', reg', stack'[t])
  <1> DEFINE s == stack[t]
             b == s[Len(s) - 1]
  <1>1. FramesOK(g2h', s) /\ s[Len(s)] = Top(t)
    BY TopFacts, StackGrows
  <1>2. ASSUME Len(s) > 1, NEW f \in FrameSet, f.pc = b.pc, f.obj = b.obj, f.val = v
        PROVE  FrameOK(g2h', f) /\ TopOK(f)
    BY <1>1, <1>2, ReturnFrame
  <1>3. v \in Values
    BY DEF Values
  <1> QED
    BY <1>2, <1>3, ReturnTo

(* The innermost frame calls xl_class_from_guest.                          *)
LEMMA CallMoves ==
    ASSUME IInv, NEW t \in Threads, stack[t] # <<>>, NEW pc \in {"listed", "realize"},
           NEW e \in FrameSet, CallFrom(t, pc, e), UNCHANGED g2h,
           e.pc = "lookup", FrameOK(g2h, e), TopOK(e),
           pc = "listed" <=> Top(t).pc = "listed",
           pc = "realize" => Top(t).pc \in Building,
           \A f \in FrameSet : f.pc = pc /\ f.obj = Top(t).obj /\ f.val = Top(t).val =>
               FrameOK(g2h, f) /\ LinkOK(f, e)
    PROVE  /\ Moves(t)
           /\ Len(stack'[t]) = Len(stack[t]) + 1
           /\ stack'[t] # <<>> /\ stack'[t][Len(stack'[t])] = e
           /\ stack'[t][Len(stack[t])].pc = pc
  <1> DEFINE s == stack[t]
             f == [Top(t) EXCEPT !.pc = pc]
             q == Replaced(s, f)
             r == Append(q, e)
  <1>1. /\ Top(t) \in FrameSet /\ FramesOK(g2h, s) /\ s \in Seq(FrameSet)
        /\ Len(s) \in Nat /\ Len(s) > 0 /\ s[Len(s)] = Top(t)
        /\ Len(s) > 1 => LinkOK(s[Len(s) - 1], Top(t))
    BY TopFacts
  <1>2. f \in FrameSet /\ f.pc = pc /\ f.obj = Top(t).obj /\ f.val = Top(t).val
    BY <1>1 DEF FrameSet, Callee, Building, Waiting
  <1> HIDE DEF f
  <1>3. stack' = [stack EXCEPT ![t] = stack'[t]] /\ stack'[t] = r
    <2>1. stack' = [stack EXCEPT ![t] = r]
      BY DEF CallFrom, Below, Depth, f, Replaced
    <2> HIDE DEF r
    <2> QED
      BY <2>1 DEF IInv, StacksInv
  <1>4. FrameOK(g2h, f) /\ LinkOK(f, e)
    BY <1>2
  <1>5. ASSUME Len(s) > 1 PROVE LinkOK(s[Len(s) - 1], f)
    <2>1. LinkOK(s[Len(s) - 1], Top(t))
      BY <1>1, <1>5
    <2> QED
      BY <2>1, <1>2, SameCall DEF LinkOK, Callee, Building
  <1>6. /\ FramesOK(g2h, q) /\ q # <<>> /\ q[Len(s)] = f /\ Len(q) = Len(s)
        /\ \A i \in 1..(Len(s) - 1) : q[i] = s[i]
        /\ InBuild(q) => InBuild(s) \/ f.pc \in Building
    BY <1>1, <1>2, <1>4, <1>5, ReplaceFrame
  <1> HIDE DEF q
  <1>7. q[Len(q)] = f
    BY <1>6
  <1>8. /\ FramesOK(g2h, r) /\ r # <<>> /\ r[Len(q) + 1] = e /\ Len(r) = Len(q) + 1
        /\ \A i \in 1..Len(q) : r[i] = q[i]
        /\ InBuild(r) => InBuild(q) \/ e.pc \in Building
    BY <1>4, <1>6, <1>7, PushFrame
  <1> HIDE DEF r
  <1>9. /\ Len(r) = Len(s) + 1 /\ r[Len(r)] = e /\ r[Len(s)] = f
        /\ \A i \in 1..(Len(s) - 1) : r[i] = s[i]
    BY <1>1, <1>6, <1>8
  <1>10. Kept(g2h, s, r)
    <2>1. r \in Seq(FrameSet) /\ Len(r) >= Len(s) /\ r[Len(s)].obj = s[Len(s)].obj
      BY <1>1, <1>2, <1>8, <1>9 DEF FramesOK
    <2>2. s[Len(s)].pc = "listed" <=> r[Len(s)].pc = "listed"
      BY <1>1, <1>2, <1>9
    <2> QED
      BY <1>1, <1>9, <2>1, <2>2, KeptAbove
  <1>11. InBuild(r) => InBuild(s)
    <2>1. e.pc \notin Building
      BY DEF Building
    <2>2. f.pc \in Building => InBuild(s)
      BY <1>2, TopFacts DEF Building
    <2> QED
      BY <1>6, <1>8, <2>1, <2>2
  <1>12. StackOK(g2h, r)
    BY <1>8, <1>9 DEF StackOK
  <1> QED
    BY <1>2, <1>3, <1>8, <1>9, <1>10, <1>11, <1>12 DEF Moves

(* The class of a shadow the tables lead to.                               *)
LEMMA NamedShadow ==
    ASSUME IInv, NEW o \in Keys, g2h[o] # None
    PROVE  g2h[o] \in Pairs /\ g2h[o][1] \in reg /\ hname[g2h[o][1]] \in Classes
  <1>1. g2h[o] \in Pairs
    BY DEF IInv, TablesType
  <1>2. CASE o \in Objects
    <2>1. PICK c \in Classes, k \in Kinds : o = <<c, k>>
      BY <1>2 DEF Objects
    <2>2. g2h[o][1] \in reg /\ hname[g2h[o][1]] = c
      BY <2>1 DEF IInv, TablesInv
    <2> QED
      BY <1>1, <2>1, <2>2
  <1>3. CASE o \in Stubs
    <2>1. StubOf[o] \in Classes /\ "class" \in Kinds
      BY <1>3, ShadowAssumption DEF Kinds
    <2>2. g2h[o] = g2h[<<StubOf[o], "class">>]
      BY <1>3 DEF IInv, TablesInv, ClassOf
    <2>3. g2h[o][1] \in reg /\ hname[g2h[o][1]] = StubOf[o]
      BY <2>1, <2>2 DEF IInv, TablesInv
    <2> QED
      BY <1>1, <2>1, <2>3
  <1> QED
    BY <1>2, <1>3 DEF Keys

(* A message to a shadow runs +initialize, on top of the frame that sends  *)
(* it, and what +initialize messages in turn.                              *)
LEMMA InitializeMoves ==
    ASSUME IInv, NEW t \in Threads, stack[t] # <<>>, Top(t).pc \in {"realize", "receive"},
           Top(t).val \in Pairs, BeginInitialize(t, Top(t).val)
    PROVE  Moves(t) /\ PendingOK(g2h, hname, reg, stack'[t])
  <1> DEFINE s == stack[t]
             p == Top(t).val
             c == hname[p[1]]
             i == Frame("initialize", ClassOf(c))
             m == Frame("receive", Touch[c])
             e == Frame("lookup", Touch[c])
             q == Append(s, i)
  <1>1. /\ Top(t) \in FrameSet /\ FramesOK(g2h, s) /\ s \in Seq(FrameSet)
        /\ Len(s) \in Nat /\ Len(s) > 0 /\ s[Len(s)] = Top(t)
        /\ FrameOK(g2h, Top(t)) /\ TopOK(Top(t))
    BY TopFacts
  <1>2. p # None /\ p \notin Keys
    BY ShadowAssumption DEF Keys, Objects, Pairs
  <1>3. Asks(Top(t)) /\ Asked(Top(t)) \in Keys
    BY <1>1, <1>2, ShadowAssumption DEF FrameOK, Asks, Asked, Keys, Objects, Kinds, ClassOf, Building
  <1>4. p = g2h[Asked(Top(t))]
    BY <1>1, <1>2, <1>3 DEF FrameOK
  <1>5. c \in Classes
    BY <1>2, <1>3, <1>4, NamedShadow
  <1>6. UNCHANGED g2h
    BY DEF BeginInitialize, tables
  <1>7. /\ i \in FrameSet /\ i.pc = "initialize" /\ i.obj \in Objects /\ FrameOK(g2h, i) /\ TopOK(i)
    BY <1>5 DEF Frame, FrameSet, FrameOK, TopOK, Asks, Waiting, Values, Keys, Objects, ClassOf, Kinds
  <1>8. LinkOK(Top(t), i)
    BY <1>2, <1>3, <1>7 DEF LinkOK, Waiting
  <1>9. Touch[c] # None => Touch[c] \in Objects
    BY <1>5, ShadowAssumption
  <1>10. Touch[c] # None =>
            /\ m \in FrameSet /\ m.pc = "receive" /\ FrameOK(g2h, m)
            /\ e \in FrameSet /\ e.pc = "lookup" /\ FrameOK(g2h, e) /\ TopOK(e)
            /\ LinkOK(i, m) /\ LinkOK(m, e)
    BY <1>9 DEF Frame, FrameSet, FrameOK, LinkOK, TopOK, Asks, Asked, Waiting, Callee, Building, Values, Keys
  <1>11. \/ Touch[c] = None /\ stack' = [stack EXCEPT ![t] = q \o <<>>]
         \/ Touch[c] # None /\ stack' = [stack EXCEPT ![t] = q \o <<m, e>>]
    BY DEF BeginInitialize, Message
  <1> HIDE DEF p, c, i, m, e
  <1>12. /\ FramesOK(g2h, q) /\ q # <<>> /\ q[Len(q)] = i /\ Len(q) = Len(s) + 1
         /\ \A j \in 1..Len(s) : q[j] = s[j]
         /\ InBuild(q) => InBuild(s)
    <2>1. /\ FramesOK(g2h, q) /\ q # <<>> /\ q[Len(s) + 1] = i /\ Len(q) = Len(s) + 1
          /\ \A j \in 1..Len(s) : q[j] = s[j]
          /\ InBuild(q) => InBuild(s) \/ i.pc \in Building
      BY <1>1, <1>7, <1>8, PushFrame
    <2> QED
      BY <1>7, <2>1 DEF Building
  <1> HIDE DEF q
  <1>13. q \in Seq(FrameSet)
    BY <1>12 DEF FramesOK
  <1>14. ASSUME NEW r, FramesOK(g2h, r), r # <<>>, TopOK(r[Len(r)]),
                r[Len(r)].pc \notin {"register", "publish"},
                Len(r) >= Len(s), \A j \in 1..Len(s) : r[j] = s[j], InBuild(r) => InBuild(s),
                stack' = [stack EXCEPT ![t] = r]
         PROVE  Moves(t) /\ PendingOK(g2h, hname, reg, stack'[t])
    <2>1. Kept(g2h, s, r)
      <3>1. r \in Seq(FrameSet)
        BY <1>14 DEF FramesOK
      <3>2. r[Len(s)] = s[Len(s)] /\ \A j \in 1..(Len(s) - 1) : r[j] = s[j]
        BY <1>1, <1>14
      <3>3. s # <<>>
        OBVIOUS
      <3> HIDE DEF s
      <3> QED
        BY <1>1, <1>14, <3>1, <3>2, <3>3, KeptAbove
    <2>2. stack' = [stack EXCEPT ![t] = stack'[t]] /\ stack'[t] = r
      BY <1>14 DEF IInv, StacksInv
    <2>3. PendingOK(g2h, hname, reg, r)
      BY <1>14 DEF PendingOK
    <2> QED
      BY <1>6, <1>14, <2>1, <2>2, <2>3 DEF Moves, StackOK
  <1>15. CASE Touch[c] = None
    <2>1. q \o <<>> = q
      BY <1>13, ConcatEmptySeq
    <2>2. stack' = [stack EXCEPT ![t] = q]
      BY <1>11, <1>15, <2>1
    <2>3. Len(q) >= Len(s)
      BY <1>1, <1>12
    <2> QED
      BY <1>7, <1>12, <1>14, <2>2, <2>3
  <1>16. CASE Touch[c] # None
    <2> DEFINE u == Append(q, m)
               r == Append(u, e)
    <2>1. q \o <<m, e>> = r
      BY <1>10, <1>13, <1>16, PushedTwo
    <2>2. /\ FramesOK(g2h, u) /\ u # <<>> /\ u[Len(q) + 1] = m /\ Len(u) = Len(q) + 1
          /\ \A j \in 1..Len(q) : u[j] = q[j]
          /\ InBuild(u) => InBuild(q) \/ m.pc \in Building
      BY <1>10, <1>12, <1>16, PushFrame
    <2> HIDE DEF u
    <2>3. u[Len(u)] = m
      BY <2>2
    <2>4. /\ FramesOK(g2h, r) /\ r # <<>> /\ r[Len(u) + 1] = e /\ Len(r) = Len(u) + 1
          /\ \A j \in 1..Len(u) : r[j] = u[j]
          /\ InBuild(r) => InBuild(u) \/ e.pc \in Building
      BY <1>10, <1>16, <2>2, <2>3, PushFrame
    <2> HIDE DEF r
    <2>5. Len(r) >= Len(s) /\ \A j \in 1..Len(s) : r[j] = s[j]
      BY <1>1, <1>12, <2>2, <2>4
    <2>6. InBuild(r) => InBuild(s)
      BY <1>10, <1>12, <1>16, <2>2, <2>4 DEF Building
    <2>7. stack' = [stack EXCEPT ![t] = r]
      BY <1>11, <1>16, <2>1
    <2>8. r[Len(r)] = e
      BY <2>4
    <2> QED
      BY <1>10, <1>14, <1>16, <2>4, <2>5, <2>6, <2>7, <2>8
  <1> QED
    BY <1>15, <1>16

(* A call from outside puts one or two frames on an empty stack.           *)
LEMMA FreshMoves ==
    ASSUME IInv, NEW t \in Threads, stack[t] = <<>>, UNCHANGED <<g2h, hname, reg>>,
           NEW f \in FrameSet, NEW e \in FrameSet,
           FrameOK(g2h, e), TopOK(e), e.pc \in {"lookup", "lock"},
           \/ stack' = [stack EXCEPT ![t] = <<e>>]
           \/ /\ stack' = [stack EXCEPT ![t] = <<f, e>>]
              /\ FrameOK(g2h, f) /\ LinkOK(f, e) /\ f.pc \in {"receive", "stub"}
    PROVE  Moves(t) /\ PendingOK(g2h', hname', reg', stack'[t])
  <1> DEFINE r == stack'[t]
  <1>1. /\ <<e>> \in Seq(FrameSet) /\ Len(<<e>>) = 1 /\ <<e>>[1] = e /\ <<e>> # <<>>
        /\ <<f, e>> \in Seq(FrameSet) /\ Len(<<f, e>>) = 2 /\ <<f, e>>[1] = f /\ <<f, e>>[2] = e
        /\ <<f, e>> # <<>>
    OBVIOUS
  <1>2. stack' = [stack EXCEPT ![t] = r]
    BY DEF IInv, StacksInv
  <1>3. \/ r = <<e>>
        \/ r = <<f, e>> /\ FrameOK(g2h, f) /\ LinkOK(f, e) /\ f.pc \in {"receive", "stub"}
    BY DEF IInv, StacksInv
  <1> HIDE DEF r
  <1>4. /\ r \in Seq(FrameSet) /\ r # <<>> /\ Len(r) \in {1, 2} /\ r[Len(r)] = e
        /\ r[1].pc # "listed"
        /\ Len(r) = 2 => FrameOK(g2h, r[1]) /\ LinkOK(r[1], r[2]) /\ r[1].pc \in {"receive", "stub"}
    <2>1. CASE r = <<e>>
      BY <1>1, <1>3, <2>1
    <2>2. CASE r = <<f, e>>
      BY <1>1, <1>3, <2>2
    <2> QED
      BY <1>3, <2>1, <2>2
  <1>5. FramesOK(g2h, r)
    <2>1. CASE Len(r) = 1
      BY <1>4, <2>1 DEF FramesOK
    <2>2. CASE Len(r) = 2
      BY <1>4, <2>2 DEF FramesOK
    <2> QED
      BY <1>4, <2>1, <2>2
  <1>6. ~ InBuild(r)
    <2>1. CASE Len(r) = 1
      BY <1>4, <2>1 DEF InBuild, Building
    <2>2. CASE Len(r) = 2
      BY <1>4, <2>2 DEF InBuild, Building
    <2> QED
      BY <1>4, <2>1, <2>2
  <1>7. Kept(g2h, stack[t], r)
    BY <1>4 DEF Kept
  <1>8. PendingOK(g2h, hname, reg, r)
    BY <1>4 DEF PendingOK
  <1> QED
    BY <1>2, <1>4, <1>5, <1>6, <1>7, <1>8 DEF Moves, StackOK, r

----------------------------------------------------------------------------
(* The steps that leave the tables alone.                                  *)

(* The class object and the metaclass lead to the two halves of one pair.  *)
LEMMA ShadowPair ==
    ASSUME IInv, NEW c \in Classes, g2h[ClassOf(c)] # None, NEW k \in Kinds
    PROVE  /\ g2h[<<c, k>>] = <<g2h[ClassOf(c)][1], k>>
           /\ g2h[<<c, k>>] \in Pairs
           /\ <<c, k>> \in Keys
  <1>1. /\ <<c, k>> \in Keys /\ <<c, "class">> \in Keys /\ "class" \in Kinds
        /\ k = "class" \/ k = "meta"
    BY DEF Keys, Objects, Kinds
  <1>2. g2h[<<c, "class">>] # None /\ g2h[<<c, k>>] # None
    BY <1>1 DEF IInv, TablesInv, ClassOf, MetaOf
  <1>3. \A j \in Kinds :
            g2h[<<c, j>>] # None =>
                LET p == g2h[<<c, j>>]
                IN  p[1] \in reg /\ p = <<p[1], j>> /\ hname[p[1]] = c
    BY DEF IInv, TablesInv
  <1>4. g2h[<<c, "class">>][1] = g2h[<<c, k>>][1]
    BY <1>1, <1>2, <1>3 DEF IInv, TablesInv
  <1>5. g2h[<<c, k>>] \in Pairs
    BY <1>1, <1>2 DEF IInv, TablesType
  <1> QED
    BY <1>1, <1>2, <1>3, <1>4, <1>5 DEF ClassOf

LEMMA LookupInv ==
    ASSUME IInv, NEW t \in Threads, Lookup(t)
    PROVE  IInv'
  <1> DEFINE o == Top(t).obj
  <1>1. stack[t] # <<>> /\ Top(t).pc = "lookup" /\ ~ At(t, "publish")
    BY DEF Lookup, At
  <1>2. o \in Keys /\ registering # None
    BY <1>1, TopFacts DEF FrameOK
  <1>3. UNCHANGED <<tables, host, start>> /\ UNCHANGED <<g2h, hname, reg>>
    BY DEF Lookup, tables, host, start
  <1>4. Grows(g2h, g2h')
    BY <1>3 DEF Grows
  <1>5. CASE g2h[o] # None
    <2>1. Return(t, g2h[o]) /\ g2h[o] \in Keys \cup Pairs
      BY <1>2, <1>5 DEF Lookup, IInv, TablesType
    <2>2. Moves(t) /\ PendingOK(g2h', hname', reg', stack'[t])
      BY <1>1, <1>3, <1>4, <1>5, <2>1, ReturnMoves DEF Callee
    <2> QED
      BY <1>1, <1>2, <1>3, <2>2, QuietStep
  <1>6. CASE g2h[o] = None
    <2>1. Continue(t, "static", None) /\ None \in Values
      BY <1>6 DEF Lookup, Values
    <2>2. \A f \in FrameSet : f.pc = "static" /\ f.obj = Top(t).obj /\ f.val = None =>
              FrameOK(g2h', f) /\ TopOK(f)
      BY <1>2 DEF FrameOK, TopOK, Asks, Building
    <2>3. /\ Moves(t) /\ stack'[t] # <<>>
          /\ LET f == stack'[t][Len(stack'[t])] IN f.pc = "static"
      BY <1>1, <1>4, <2>1, <2>2, ContinueMoves DEF Callee, Building
    <2>4. PendingOK(g2h, hname, reg, stack'[t])
      BY <2>3 DEF PendingOK
    <2> QED
      BY <1>1, <1>2, <1>3, <2>3, <2>4, QuietStep
  <1> QED
    BY <1>5, <1>6

LEMMA LookupStaticInv ==
    ASSUME IInv, NEW t \in Threads, LookupStatic(t)
    PROVE  IInv'
  <1> DEFINE o == Top(t).obj
  <1>1. stack[t] # <<>> /\ Top(t).pc = "static" /\ ~ At(t, "publish")
    BY DEF LookupStatic, At
  <1>2. o \in Keys /\ registering # None
    BY <1>1, TopFacts DEF FrameOK
  <1>3. UNCHANGED <<tables, host, start>> /\ UNCHANGED <<g2h, hname, reg>>
    BY DEF LookupStatic, tables, host, start
  <1>4. Grows(g2h, g2h')
    BY <1>3 DEF Grows
  <1>5. CASE o \notin unbuilt
    <2>1. Return(t, o) /\ (o \in Static \X Kinds => g2h'[o] # None)
      BY <1>3, <1>5 DEF LookupStatic, IInv, TablesInv
    <2>2. Moves(t) /\ PendingOK(g2h', hname', reg', stack'[t])
      BY <1>1, <1>2, <1>4, <2>1, ReturnMoves DEF Callee
    <2> QED
      BY <1>1, <1>2, <1>3, <2>2, QuietStep
  <1>6. CASE o \in unbuilt
    <2>1. Continue(t, "lock", None) /\ None \in Values
      BY <1>6 DEF LookupStatic, Values
    <2>2. o \in Objects
      BY <1>6, ShadowAssumption DEF IInv, TablesType, Objects
    <2>3. \A f \in FrameSet : f.pc = "lock" /\ f.obj = Top(t).obj /\ f.val = None =>
              FrameOK(g2h', f) /\ TopOK(f)
      BY <2>2 DEF FrameOK, TopOK, Asks, Building
    <2>4. /\ Moves(t) /\ stack'[t] # <<>>
          /\ LET f == stack'[t][Len(stack'[t])] IN f.pc = "lock"
      BY <1>1, <1>4, <2>1, <2>3, ContinueMoves DEF Callee, Building
    <2>5. PendingOK(g2h, hname, reg, stack'[t])
      BY <2>4 DEF PendingOK
    <2> QED
      BY <1>1, <1>2, <1>3, <2>4, <2>5, QuietStep
  <1> QED
    BY <1>5, <1>6

LEMMA BuildLockInv ==
    ASSUME IInv, NEW t \in Threads, xl_build_lock(t)
    PROVE  IInv'
  <1> DEFINE o == Top(t).obj
             shadow == g2h[ClassOf(o[1])]
  <1>1. stack[t] # <<>> /\ Top(t).pc = "lock" /\ ~ At(t, "publish")
    BY DEF xl_build_lock, At
  <1>2. o \in Objects /\ registering # None
    BY <1>1, TopFacts DEF FrameOK
  <1>3. UNCHANGED <<tables, host, start>> /\ UNCHANGED <<g2h, hname, reg>>
    BY DEF xl_build_lock, tables, host, start
  <1>4. Grows(g2h, g2h')
    BY <1>3 DEF Grows
  <1>5. CASE shadow # None
    <2>0. Return(t, <<shadow[1], o[2]>>)
      BY <1>5 DEF xl_build_lock
    <2>1. PICK c \in Classes, k \in Kinds : o = <<c, k>>
      BY <1>2 DEF Objects
    <2>2. g2h[o] = <<shadow[1], o[2]>> /\ g2h[o] \in Pairs /\ g2h[o] # None
      <3>1. o[1] = c /\ o[2] = k
        BY <2>1
      <3>2. g2h[ClassOf(c)] # None
        BY <1>5, <3>1
      <3>3. g2h[<<c, k>>] = <<g2h[ClassOf(c)][1], k>> /\ g2h[<<c, k>>] \in Pairs
        BY <3>2, ShadowPair
      <3> QED
        BY <2>1, <3>1, <3>3, ShadowAssumption
    <2>3. Return(t, g2h[o])
      BY <2>0, <2>2
    <2>4. Moves(t) /\ PendingOK(g2h', hname', reg', stack'[t])
      BY <1>1, <1>3, <1>4, <2>2, <2>3, ReturnMoves DEF Callee
    <2> QED
      BY <1>1, <1>2, <1>3, <2>4, QuietStep
  <1>6. CASE shadow = None
    <2>1. Continue(t, "super", None) /\ None \in Values
      BY <1>6 DEF xl_build_lock, Values
    <2>2. \A f \in FrameSet : f.pc = "super" /\ f.obj = Top(t).obj /\ f.val = None =>
              FrameOK(g2h', f) /\ TopOK(f)
      BY <1>2 DEF FrameOK, TopOK, Asks, Building
    <2>3. \A u \in Threads \ {t} : ~ InBuild(stack[u])
      BY DEF xl_build_lock, Holds, InBuild, Depth
    <2>4. /\ Moves(t) /\ stack'[t] # <<>>
          /\ LET f == stack'[t][Len(stack'[t])] IN f.pc = "super"
      BY <1>1, <1>4, <2>1, <2>2, <2>3, ContinueMoves DEF Callee, Building
    <2>5. PendingOK(g2h, hname, reg, stack'[t])
      BY <2>4 DEF PendingOK
    <2> QED
      BY <1>1, <1>2, <1>3, <2>4, <2>5, QuietStep
  <1> QED
    BY <1>5, <1>6

LEMMA BuildSuperInv ==
    ASSUME IInv, NEW t \in Threads, BuildSuper(t)
    PROVE  IInv'
  <1> DEFINE o == Top(t).obj
             s == Super[o[1]]
             e == Frame("lookup", ClassOf(s))
  <1>1. stack[t] # <<>> /\ Top(t).pc = "super" /\ ~ At(t, "publish")
    BY DEF BuildSuper, At
  <1>2. o \in Objects /\ Top(t).val = None /\ registering # None
    BY <1>1, TopFacts DEF FrameOK, Building
  <1>3. UNCHANGED <<tables, host, start>> /\ UNCHANGED <<g2h, hname, reg>>
    BY DEF BuildSuper, tables, host, start
  <1>4. Grows(g2h, g2h')
    BY <1>3 DEF Grows
  <1>5. CASE s = None
    <2>1. Continue(t, "realize", None) /\ None \in Values
      BY <1>5 DEF BuildSuper, Values
    <2>2. \A f \in FrameSet : f.pc = "realize" /\ f.obj = Top(t).obj /\ f.val = None =>
              FrameOK(g2h', f) /\ TopOK(f)
      BY <1>2, <1>5 DEF FrameOK, TopOK, Asks, Building
    <2>3. /\ Moves(t) /\ stack'[t] # <<>>
          /\ LET f == stack'[t][Len(stack'[t])] IN f.pc = "realize"
      BY <1>1, <1>4, <2>1, <2>2, ContinueMoves DEF Callee, Building
    <2>4. PendingOK(g2h, hname, reg, stack'[t])
      BY <2>3 DEF PendingOK
    <2> QED
      BY <1>1, <1>2, <1>3, <2>3, <2>4, QuietStep
  <1>6. CASE s # None
    <2>1. CallFrom(t, "realize", e)
      BY <1>6 DEF BuildSuper
    <2>2. ClassOf(s) \in Objects
      BY <1>2, <1>6, ShadowAssumption DEF Objects, ClassOf, Kinds
    <2>3. e \in FrameSet /\ e.pc = "lookup" /\ e.obj = ClassOf(s) /\ FrameOK(g2h, e) /\ TopOK(e)
      BY <2>2 DEF Frame, FrameSet, FrameOK, TopOK, Asks, Callee, Building, Values, Keys
    <2> HIDE DEF e
    <2>4. \A f \in FrameSet : f.pc = "realize" /\ f.obj = Top(t).obj /\ f.val = Top(t).val =>
              FrameOK(g2h, f) /\ LinkOK(f, e)
      BY <1>2, <1>6, <2>3 DEF FrameOK, LinkOK, Asks, Asked, Building, Callee, Waiting
    <2>5. /\ Moves(t) /\ stack'[t] # <<>> /\ stack'[t][Len(stack'[t])] = e
      BY <1>1, <1>3, <2>1, <2>3, <2>4, CallMoves DEF Building
    <2>6. PendingOK(g2h, hname, reg, stack'[t])
      BY <2>3, <2>5 DEF PendingOK
    <2> QED
      BY <1>1, <1>2, <1>3, <2>5, <2>6, QuietStep
  <1> QED
    BY <1>5, <1>6

(* The process ends.                                                       *)
LEMMA StutterInv ==
    ASSUME IInv, UNCHANGED <<tables, host, start, stack>>
    PROVE  IInv'
  <1>1. UNCHANGED <<g2h, h2g, unbuilt, hname, hsuper, reg, registering, left, stack>>
    BY DEF tables, host, start
  <1>2. TablesType' /\ TablesInv' /\ SuperIsShadow'
    BY <1>1 DEF IInv, TablesType, TablesInv, SuperIsShadow
  <1>3. StacksInv' /\ MutexInv' /\ PendingInv'
    BY <1>1 DEF IInv, StacksInv, MutexInv, PendingInv
  <1>4. RegisteredInv' /\ StartInv'
    BY <1>1 DEF IInv, RegisteredInv, StartInv, InLoop, At, Top, Depth
  <1> QED
    BY <1>2, <1>3, <1>4 DEF IInv

LEMMA BuildRealizeInv ==
    ASSUME IInv, NEW t \in Threads, BuildRealize(t)
    PROVE  IInv'
  <1> DEFINE o == Top(t).obj
             v == Top(t).val
  <1>1. stack[t] # <<>> /\ Top(t).pc = "realize" /\ ~ At(t, "publish")
    BY DEF BuildRealize, At
  <1>2. /\ o \in Objects /\ registering # None /\ v \in Values
        /\ FrameOK(g2h, Top(t)) /\ TopOK(Top(t))
    BY <1>1, TopFacts DEF FrameOK, Building, FrameSet
  <1>3. CASE (v = None \/ v \in Pairs) /\ Continue(t, "allocate", v)
                 /\ UNCHANGED <<tables, host, init, start, seen, crash>>
    <2>1. UNCHANGED <<tables, host, start>> /\ UNCHANGED g2h
      BY <1>3 DEF tables, host, start
    <2>2. Grows(g2h, g2h')
      BY <2>1 DEF Grows
    <2>3. IF Super[o[1]] = None THEN v = None
          ELSE v \in Pairs /\ v = g2h[ClassOf(Super[o[1]])]
      <3>1. CASE Super[o[1]] = None
        BY <1>1, <1>2, <3>1 DEF FrameOK
      <3>2. CASE Super[o[1]] # None
        <4>1. Asks(Top(t)) /\ v # None /\ Asked(Top(t)) = ClassOf(Super[o[1]])
          BY <1>1, <1>2, <3>2 DEF Asks, TopOK, Asked
        <4>2. ClassOf(Super[o[1]]) \in Objects
          BY <1>2, <3>2, ShadowAssumption DEF Objects, ClassOf, Kinds
        <4>3. v # ClassOf(Super[o[1]])
          BY <1>3, <4>1, <4>2, ShadowAssumption DEF Objects, Pairs
        <4> QED
          BY <1>2, <1>3, <3>2, <4>1, <4>3 DEF FrameOK
      <3> QED
        BY <3>1, <3>2
    <2>4. \A f \in FrameSet : f.pc = "allocate" /\ f.obj = Top(t).obj /\ f.val = v =>
              FrameOK(g2h', f) /\ TopOK(f)
      BY <1>2, <2>1, <2>3 DEF FrameOK, TopOK, Asks, Building
    <2>5. /\ Moves(t) /\ stack'[t] # <<>>
          /\ LET f == stack'[t][Len(stack'[t])] IN f.pc = "allocate"
      BY <1>1, <1>2, <1>3, <2>2, <2>4, ContinueMoves DEF Callee, Building
    <2>6. PendingOK(g2h, hname, reg, stack'[t])
      BY <2>5 DEF PendingOK
    <2> QED
      BY <1>1, <1>2, <2>1, <2>5, <2>6, QuietStep
  <1>4. CASE v \in Pairs /\ BeginInitialize(t, v)
    <2>1. Moves(t) /\ PendingOK(g2h, hname, reg, stack'[t])
      BY <1>1, <1>4, InitializeMoves
    <2>2. UNCHANGED <<tables, host, start>>
      BY <1>4 DEF BeginInitialize
    <2> QED
      BY <1>1, <1>2, <2>1, <2>2, QuietStep
  <1>5. CASE Die("fault")
    BY <1>5, StutterInv DEF Die
  <1> QED
    BY <1>3, <1>4, <1>5 DEF BuildRealize

(* The end of a +initialize goes back to the frame that sent the message.  *)
LEMMA EndInitializeInv ==
    ASSUME IInv, NEW t \in Threads, EndInitialize(t)
    PROVE  IInv'
  <1> DEFINE s == stack[t]
             r == Popped(s)
  <1>1. s # <<>> /\ Top(t).pc = "initialize" /\ ~ At(t, "publish")
    BY DEF EndInitialize, At
  <1>2. /\ FramesOK(g2h, s) /\ s \in Seq(FrameSet) /\ Len(s) \in Nat /\ Len(s) > 0
        /\ s[Len(s)] = Top(t) /\ registering # None
        /\ Len(s) > 1 => LinkOK(s[Len(s) - 1], Top(t))
    BY <1>1, TopFacts
  <1>3. UNCHANGED <<tables, host, start>> /\ UNCHANGED g2h
    BY DEF EndInitialize, tables
  <1>4. stack' = [stack EXCEPT ![t] = stack'[t]] /\ stack'[t] = r
    <2>1. stack' = [stack EXCEPT ![t] = r]
      BY DEF EndInitialize, Below, Depth, Popped
    <2> HIDE DEF r
    <2> QED
      BY <2>1 DEF IInv, StacksInv
  <1>5. /\ FramesOK(g2h, r) /\ Len(r) = Len(s) - 1 /\ (r = <<>> <=> Len(s) = 1)
        /\ \A i \in 1..(Len(s) - 1) : r[i] = s[i]
        /\ InBuild(r) => InBuild(s)
    BY <1>1, <1>2, PopFrame
  <1> HIDE DEF r
  <1>6. r # <<>> => r[Len(r)] = s[Len(s) - 1] /\ LinkOK(s[Len(s) - 1], Top(t))
    BY <1>2, <1>5
  <1>7. r # <<>> => TopOK(r[Len(r)]) /\ r[Len(r)].pc \in Waiting
    BY <1>1, <1>6 DEF LinkOK, TopOK, Callee, Building
  <1>8. Kept(g2h, s, r)
    <2>1. r \in Seq(FrameSet) /\ \A i \in 1..Len(r) : r[i] = s[i]
      BY <1>2, <1>5 DEF FramesOK
    <2> QED
      BY <1>1, <1>2, <1>5, <2>1, KeptBelow
  <1>9. Moves(t)
    BY <1>3, <1>4, <1>5, <1>7, <1>8 DEF Moves, StackOK
  <1>10. PendingOK(g2h, hname, reg, stack'[t])
    BY <1>4, <1>7 DEF PendingOK, Waiting
  <1> QED
    BY <1>1, <1>2, <1>3, <1>9, <1>10, QuietStep

LEMMA ReceiveInv ==
    ASSUME IInv, NEW t \in Threads, Receive(t)
    PROVE  IInv'
  <1> DEFINE v == Top(t).val
             s == stack[t]
  <1>1. stack[t] # <<>> /\ Top(t).pc = "receive" /\ ~ At(t, "publish")
    BY DEF Receive, At
  <1>2. registering # None /\ v \in Values /\ (Len(s) > 1 => LinkOK(s[Len(s) - 1], Top(t)))
    BY <1>1, TopFacts DEF FrameSet
  <1>3. CASE Return(t, v) /\ UNCHANGED <<tables, host, init, start, seen, crash>>
    <2>1. UNCHANGED <<tables, host, start>> /\ UNCHANGED <<g2h, hname, reg>>
      BY <1>3 DEF tables, host, start
    <2>2. Grows(g2h, g2h')
      BY <2>1 DEF Grows
    <2>3. ASSUME Len(s) > 1, NEW f \in FrameSet,
                 f.pc = s[Len(s) - 1].pc, f.obj = s[Len(s) - 1].obj, f.val = v
          PROVE  FrameOK(g2h', f) /\ TopOK(f)
      <3>1. f.pc = "initialize"
        BY <1>1, <1>2, <2>3 DEF LinkOK, Asks, Callee, Waiting, Building
      <3>2. FrameOK(g2h, s[Len(s) - 1])
        BY <1>1, <2>3, TopFacts DEF FramesOK
      <3> QED
        BY <2>3, <3>1, <3>2 DEF FrameOK, TopOK, Asks, Building
    <2>4. Moves(t) /\ PendingOK(g2h', hname', reg', stack'[t])
      BY <1>1, <1>2, <1>3, <2>2, <2>3, ReturnTo
    <2> QED
      BY <1>1, <1>2, <2>1, <2>4, QuietStep
  <1>4. CASE v \in Pairs /\ BeginInitialize(t, v)
    <2>1. Moves(t) /\ PendingOK(g2h, hname, reg, stack'[t])
      BY <1>1, <1>4, InitializeMoves
    <2>2. UNCHANGED <<tables, host, start>>
      BY <1>4 DEF BeginInitialize
    <2> QED
      BY <1>1, <1>2, <2>1, <2>2, QuietStep
  <1>5. CASE Die("fault")
    BY <1>5, StutterInv DEF Die
  <1> QED
    BY <1>3, <1>4, <1>5 DEF Receive

LEMMA SendMessageInv ==
    ASSUME IInv, NEW t \in Threads, NEW o \in Keys, SendMessage(t, o)
    PROVE  IInv'
  <1> DEFINE f == Frame("receive", o)
             e == Frame("lookup", o)
  <1>1. stack[t] = <<>> /\ registering # None /\ ~ At(t, "publish")
    BY DEF SendMessage, Idle, At
  <1>2. UNCHANGED <<tables, host, start>> /\ UNCHANGED <<g2h, hname, reg>>
    BY DEF SendMessage, tables, host
  <1>3. stack' = [stack EXCEPT ![t] = <<f, e>>]
    BY DEF SendMessage, Message
  <1>4. /\ f \in FrameSet /\ f.pc = "receive" /\ FrameOK(g2h, f) /\ LinkOK(f, e)
        /\ e \in FrameSet /\ e.pc = "lookup" /\ FrameOK(g2h, e) /\ TopOK(e)
    BY DEF Frame, FrameSet, FrameOK, LinkOK, TopOK, Asks, Asked, Waiting, Callee, Building, Values
  <1> HIDE DEF f, e
  <1>5. Moves(t) /\ PendingOK(g2h', hname', reg', stack'[t])
    BY <1>1, <1>2, <1>3, <1>4, FreshMoves
  <1> QED
    BY <1>1, <1>2, <1>5, QuietStep

LEMMA ReadClassPairInv ==
    ASSUME IInv, NEW t \in Threads, NEW c \in Classes, xl_manual_objc_readClassPair(t, c)
    PROVE  IInv'
  <1> DEFINE e == Frame("lock", ClassOf(c))
  <1>1. stack[t] = <<>> /\ registering # None /\ ~ At(t, "publish")
    BY DEF xl_manual_objc_readClassPair, Idle, At
  <1>2. UNCHANGED <<tables, host, start>> /\ UNCHANGED <<g2h, hname, reg>>
    BY DEF xl_manual_objc_readClassPair, tables, host
  <1>3. stack' = [stack EXCEPT ![t] = <<e>>]
    BY DEF xl_manual_objc_readClassPair
  <1>4. e \in FrameSet /\ e.pc = "lock" /\ FrameOK(g2h, e) /\ TopOK(e)
    BY DEF Frame, FrameSet, FrameOK, TopOK, Asks, Callee, Building, Values, Keys, Objects, ClassOf, Kinds
  <1> HIDE DEF e
  <1>5. Moves(t) /\ PendingOK(g2h', hname', reg', stack'[t])
    BY <1>1, <1>2, <1>3, <1>4, FreshMoves
  <1> QED
    BY <1>1, <1>2, <1>5, QuietStep

LEMMA RealizeClassInv ==
    ASSUME IInv, NEW t \in Threads, NEW p \in Stubs, xl_manual_objc_realizeClassFromSwift(t, p)
    PROVE  IInv'
  <1> DEFINE f == Frame("stub", p)
             e == Frame("lock", ClassOf(StubOf[p]))
  <1>1. stack[t] = <<>> /\ registering # None /\ ~ At(t, "publish")
    BY DEF xl_manual_objc_realizeClassFromSwift, Idle, At
  <1>2. UNCHANGED <<tables, host, start>> /\ UNCHANGED <<g2h, hname, reg>>
    BY DEF xl_manual_objc_realizeClassFromSwift, tables, host
  <1>3. stack' = [stack EXCEPT ![t] = <<f, e>>]
    BY DEF xl_manual_objc_realizeClassFromSwift
  <1>4. ClassOf(StubOf[p]) \in Objects
    BY ShadowAssumption DEF ClassOf, Objects, Kinds
  <1>5. /\ f \in FrameSet /\ f.pc = "stub" /\ FrameOK(g2h, f) /\ LinkOK(f, e)
        /\ e \in FrameSet /\ e.pc = "lock" /\ FrameOK(g2h, e) /\ TopOK(e)
    BY <1>4 DEF Frame, FrameSet, FrameOK, LinkOK, TopOK, Asks, Asked, Waiting, Callee, Building, Values, Keys
  <1> HIDE DEF f, e
  <1>6. Moves(t) /\ PendingOK(g2h', hname', reg', stack'[t])
    BY <1>1, <1>2, <1>3, <1>5, FreshMoves
  <1> QED
    BY <1>1, <1>2, <1>6, QuietStep

----------------------------------------------------------------------------
(* The steps of a build that change the tables.  Only one thread is in a   *)
(* build.                                                                  *)

LEMMA OnlyPending ==
    ASSUME IInv, NEW t \in Threads, InBuild(stack[t]), NEW u \in Threads \ {t}
    PROVE  /\ \A g, n, r : PendingOK(g, n, r, stack[u])
           /\ ~ At(u, "publish")
  <1>1. ~ InBuild(stack[u])
    BY DEF IInv, MutexInv
  <1>2. ASSUME stack[u] # <<>>
        PROVE  stack[u][Len(stack[u])].pc \notin {"register", "publish"}
    <2>1. Len(stack[u]) \in 1..Len(stack[u])
      BY <1>2, TopFacts
    <2> QED
      BY <1>1, <2>1 DEF InBuild, Building
  <1> QED
    BY <1>2 DEF PendingOK, At, Top, Depth

LEMMA BuildAllocateInv ==
    ASSUME IInv, NEW t \in Threads, BuildAllocate(t)
    PROVE  IInv'
  <1> DEFINE o == Top(t).obj
             c == o[1]
             v == Top(t).val
  <1>1. stack[t] # <<>> /\ Top(t).pc = "allocate" /\ ~ At(t, "publish")
    BY DEF BuildAllocate, At
  <1>2. /\ o \in Objects /\ c \in Classes /\ registering # None
        /\ v \in Values /\ FrameOK(g2h, Top(t)) /\ InBuild(stack[t])
    BY <1>1, TopFacts DEF FrameOK, Building, Objects, FrameSet
  <1>3. CASE Die("abort")
    BY <1>3, StutterInv DEF Die
  <1>4. ASSUME \A q \in reg : hname[q] # c, NEW h \in Hosts, hname[h] = None,
               hname' = [hname EXCEPT ![h] = c], hsuper' = [hsuper EXCEPT ![h] = v],
               Continue(t, "register", ClassOf(h)),
               UNCHANGED <<tables, reg, init, start, seen, crash>>
        PROVE  IInv'
    <2>1. UNCHANGED <<g2h, h2g, unbuilt, reg, registering, left>>
      BY <1>4 DEF tables, start
    <2>2. h \notin reg /\ \A q \in reg : hname'[q] = hname[q]
      BY <1>4 DEF IInv, TablesInv, TablesType
    <2>3. hname'[h] = c /\ hsuper'[h] = v
      BY <1>4 DEF IInv, TablesType
    <2>4. g2h[ClassOf(c)] = None
      <3>1. ClassOf(c) = <<c, "class">> /\ "class" \in Kinds
        BY DEF ClassOf, Kinds
      <3>2. g2h[<<c, "class">>] # None => /\ g2h[<<c, "class">>][1] \in reg
                                          /\ hname[g2h[<<c, "class">>][1]] = c
        BY <1>2, <3>1 DEF IInv, TablesInv
      <3> QED
        BY <1>4, <3>1, <3>2
    <2>5. IF Super[c] = None THEN v = None ELSE v \in Pairs /\ v = g2h[ClassOf(Super[c])]
      BY <1>1, <1>2 DEF FrameOK
    <2>6. TablesType'
      BY <1>2, <1>4, <2>1, <2>5 DEF IInv, TablesType
    <2>7. TablesInv'
      BY <2>1, <2>2 DEF IInv, TablesInv, ClassOf, MetaOf
    <2>8. SuperIsShadow'
      <3> SUFFICES ASSUME NEW q \in Hosts, hname'[q] # None, Super[hname'[q]] # None
                   PROVE  hsuper'[q] # None /\ hsuper'[q] = g2h[ClassOf(Super[hname'[q]])]
        BY <2>1 DEF SuperIsShadow, ClassOf
      <3>1. CASE q = h
        BY <2>3, <2>5, <3>1, ShadowAssumption
      <3>2. CASE q # h
        <4>1. hname'[q] = hname[q] /\ hsuper'[q] = hsuper[q]
          BY <1>4, <3>2 DEF IInv, TablesType
        <4> QED
          BY <4>1 DEF IInv, SuperIsShadow
      <3> QED
        BY <3>1, <3>2
    <2>9. /\ Moves(t) /\ stack'[t] # <<>>
          /\ LET f == stack'[t][Len(stack'[t])]
             IN  f.pc = "register" /\ f.obj = o /\ f.val = ClassOf(h)
      <3>1. ClassOf(h) \in Values
        BY <1>4 DEF ClassOf, Values, Pairs, Kinds
      <3>2. \A f \in FrameSet : f.pc = "register" /\ f.obj = Top(t).obj /\ f.val = ClassOf(h) =>
                FrameOK(g2h', f) /\ TopOK(f)
        BY <1>2 DEF FrameOK, TopOK, Asks, Building
      <3>3. Grows(g2h, g2h')
        BY <2>1 DEF Grows
      <3> QED
        BY <1>1, <1>4, <3>1, <3>2, <3>3, ContinueMoves DEF Callee, Building
    <2>10. StacksInv' /\ MutexInv' /\ StartInv'
      BY <1>2, <2>1, <2>9, MoveKeeps DEF Grows
    <2>11. PendingInv'
      <3>1. PendingOK(g2h, hname', reg, stack'[t])
        <4>1. \A q \in reg : hname'[q] # c
          BY <1>4, <2>2
        <4> QED
          BY <1>4, <2>3, <2>4, <2>9, <4>1 DEF PendingOK, ClassOf
      <3>2. \A u \in Threads \ {t} : PendingOK(g2h, hname', reg, stack'[u])
        BY <1>2, <2>9, OthersStay, OnlyPending
      <3> QED
        BY <2>1, <3>1, <3>2 DEF PendingInv
    <2>12. RegisteredInv'
      <3>1. \A u \in Threads : At(u, "publish") => u # t /\ stack'[u] = stack[u]
        BY <1>1, <2>9, OthersStay
      <3> QED
        BY <2>1, <3>1 DEF IInv, RegisteredInv, At, Top, Depth, ClassOf
    <2> QED
      BY <2>6, <2>7, <2>8, <2>10, <2>11, <2>12 DEF IInv
  <1> QED
    BY <1>3, <1>4 DEF BuildAllocate

LEMMA BuildRegisterInv ==
    ASSUME IInv, NEW t \in Threads, BuildRegister(t)
    PROVE  IInv'
  <1> DEFINE o == Top(t).obj
             h == Top(t).val[1]
  <1>1. stack[t] # <<>> /\ Top(t).pc = "register" /\ ~ At(t, "publish")
    BY DEF BuildRegister, At
  <1>2. /\ o \in Objects /\ o[1] \in Classes /\ registering # None
        /\ Top(t) = stack[t][Len(stack[t])] /\ Top(t).val \in Values /\ InBuild(stack[t])
    BY <1>1, TopFacts DEF FrameOK, Building, Objects, FrameSet
  <1>3. /\ h \in Hosts /\ Top(t).val = ClassOf(h) /\ hname[h] = o[1]
        /\ g2h[ClassOf(o[1])] = None
        /\ \A q \in reg : hname[q] # o[1]
    BY <1>1, <1>2 DEF IInv, PendingInv, PendingOK
  <1>4. reg' = reg \cup {h} /\ Continue(t, "publish", ClassOf(h))
    BY <1>3 DEF BuildRegister
  <1>5. UNCHANGED <<g2h, h2g, unbuilt, hname, hsuper, registering, left>>
    BY DEF BuildRegister, tables, start
  <1> HIDE DEF o, h
  <1>6. TablesType' /\ SuperIsShadow'
    BY <1>3, <1>4, <1>5 DEF IInv, TablesType, SuperIsShadow, ClassOf
  <1>7. TablesInv'
    <2>1. /\ \A q \in reg' : hname[q] # None
          /\ \A p, q \in reg' : hname[p] = hname[q] => p = q
      BY <1>2, <1>3, <1>4, ShadowAssumption DEF IInv, TablesInv
    <2>2. \A c \in Classes, k \in Kinds :
              LET p == g2h[<<c, k>>]
              IN  p # None => /\ p[1] \in reg' /\ p = <<p[1], k>>
                              /\ hname[p[1]] = c /\ h2g[p] = <<c, k>>
      BY <1>4, ZenonT(40) DEF IInv, TablesInv
    <2> QED
      BY <1>5, <2>1, <2>2 DEF IInv, TablesInv, ClassOf, MetaOf
  <1>8. /\ Moves(t) /\ stack'[t] # <<>>
        /\ LET f == stack'[t][Len(stack'[t])]
           IN  f.pc = "publish" /\ f.obj = o /\ f.val = ClassOf(h)
    <2>1. ClassOf(h) \in Values
      BY <1>2, <1>3
    <2>2. \A f \in FrameSet : f.pc = "publish" /\ f.obj = Top(t).obj /\ f.val = ClassOf(h) =>
              FrameOK(g2h', f) /\ TopOK(f)
      BY <1>2 DEF FrameOK, TopOK, Asks, Building, o
    <2>3. Grows(g2h, g2h')
      BY <1>5 DEF Grows
    <2> QED
      BY <1>1, <1>4, <2>1, <2>2, <2>3, ContinueMoves DEF Callee, Building, o
  <1>9. StacksInv' /\ MutexInv' /\ StartInv'
    BY <1>2, <1>5, <1>8, MoveKeeps DEF Grows
  <1>10. PendingInv'
    <2>1. PendingOK(g2h, hname, reg', stack'[t])
      BY <1>3, <1>4, <1>8 DEF PendingOK, ClassOf
    <2>2. \A u \in Threads \ {t} : PendingOK(g2h, hname, reg', stack'[u])
      BY <1>2, <1>8, OthersStay, OnlyPending
    <2> QED
      BY <1>5, <2>1, <2>2 DEF PendingInv
  <1>11. RegisteredInv'
    <2>1. At(t, "publish")' /\ Top(t)'.val = ClassOf(h)
      BY <1>8 DEF At, Top, Depth
    <2>2. \A q \in reg : h2g[ClassOf(q)] # None
      BY <1>1, <1>2, OnlyPending DEF IInv, RegisteredInv
    <2> QED
      BY <1>4, <1>5, <2>1, <2>2 DEF RegisteredInv, ClassOf
  <1> QED
    BY <1>6, <1>7, <1>9, <1>10, <1>11 DEF IInv

(* What publishing the pair h for class c does to the tables.              *)
Publishes(c, h) ==
    /\ g2h' = [g2h EXCEPT ![ClassOf(c)] = ClassOf(h), ![MetaOf(c)] = MetaOf(h)]
    /\ h2g' = [h2g EXCEPT ![ClassOf(h)] = ClassOf(c), ![MetaOf(h)] = MetaOf(c)]
    /\ unbuilt' = unbuilt \ {ClassOf(c), MetaOf(c)}
    /\ UNCHANGED <<hname, hsuper, reg>>

LEMMA BuildPublishTables ==
    ASSUME IInv, NEW c \in Classes, NEW h \in reg, hname[h] = c, g2h[ClassOf(c)] = None,
           Publishes(c, h)
    PROVE  TablesType' /\ TablesInv' /\ SuperIsShadow' /\ Grows(g2h, g2h')
  <1>1. /\ h \in Hosts
        /\ <<c, "class">> \in Keys /\ <<c, "meta">> \in Keys
        /\ <<h, "class">> \in Pairs /\ <<h, "meta">> \in Pairs
    BY DEF IInv, TablesType, Keys, Objects, Pairs, Kinds
  <1>2. /\ g2h'[<<c, "class">>] = <<h, "class">> /\ g2h'[<<c, "meta">>] = <<h, "meta">>
        /\ \A o \in Keys : o # <<c, "class">> /\ o # <<c, "meta">> => g2h'[o] = g2h[o]
        /\ h2g'[<<h, "class">>] = <<c, "class">> /\ h2g'[<<h, "meta">>] = <<c, "meta">>
        /\ \A p \in Pairs : p # <<h, "class">> /\ p # <<h, "meta">> => h2g'[p] = h2g[p]
        /\ unbuilt' = unbuilt \ {<<c, "class">>, <<c, "meta">>}
        /\ hname' = hname /\ hsuper' = hsuper /\ reg' = reg
    BY <1>1 DEF IInv, TablesType, ClassOf, MetaOf, Publishes
  <1>3. g2h[<<c, "class">>] = None /\ g2h[<<c, "meta">>] = None
    BY DEF IInv, TablesInv, ClassOf, MetaOf
  <1>4. TablesType'
    <2>1. g2h' \in [Keys -> Pairs \cup {None}]
      BY <1>1 DEF IInv, TablesType, ClassOf, MetaOf, Publishes
    <2>2. h2g' \in [Pairs -> Objects \cup {None}]
      BY <1>1 DEF IInv, TablesType, ClassOf, MetaOf, Objects, Kinds, Publishes
    <2> QED
      BY <1>2, <2>1, <2>2 DEF IInv, TablesType
  <1>5. Grows(g2h, g2h')
    BY <1>2, <1>3 DEF Grows
  <1>6. ASSUME NEW d \in Classes, NEW k \in Kinds, NEW p, p = g2h'[<<d, k>>], p # None
        PROVE  p[1] \in reg /\ p = <<p[1], k>> /\ hname[p[1]] = d /\ h2g'[p] = <<d, k>>
    <2>1. CASE d = c
      <3>1. p = <<h, k>> /\ h2g'[<<h, k>>] = <<d, k>>
        BY <1>2, <1>6, <2>1 DEF Kinds
      <3>2. p[1] = h
        BY <3>1
      <3> QED
        BY <2>1, <3>1, <3>2
    <2>2. CASE d # c
      <3>1. <<d, k>> \in Keys /\ p = g2h[<<d, k>>]
        BY <1>2, <1>6, <2>2 DEF Keys, Objects
      <3>2. p[1] \in reg /\ p = <<p[1], k>> /\ hname[p[1]] = d /\ h2g[p] = <<d, k>>
        <4>1. LET q == g2h[<<d, k>>]
              IN  q[1] \in reg /\ q = <<q[1], k>> /\ hname[q[1]] = d /\ h2g[q] = <<d, k>>
          BY <1>6, <3>1 DEF IInv, TablesInv
        <4> QED
          BY <3>1, <4>1
      <3>3. p[1] # h
        BY <2>2, <3>2
      <3>4. p \in Pairs
        BY <3>1, <1>6 DEF IInv, TablesType
      <3>5. p # <<h, "class">> /\ p # <<h, "meta">>
        BY <3>3
      <3>6. h2g'[p] = h2g[p]
        BY <1>2, <3>4, <3>5
      <3> QED
        BY <3>2, <3>6
    <2> QED
      BY <2>1, <2>2
  <1>7. \A d \in Classes : g2h'[ClassOf(d)] = None <=> g2h'[MetaOf(d)] = None
    <2> SUFFICES ASSUME NEW d \in Classes
                 PROVE  g2h'[<<d, "class">>] = None <=> g2h'[<<d, "meta">>] = None
      BY DEF ClassOf, MetaOf
    <2>1. CASE d = c
      BY <1>1, <1>2, <2>1, ShadowAssumption
    <2>2. CASE d # c
      <3>1. /\ <<d, "class">> \in Keys /\ <<d, "meta">> \in Keys
        BY DEF Keys, Objects, Kinds
      <3>2. g2h'[<<d, "class">>] = g2h[<<d, "class">>] /\ g2h'[<<d, "meta">>] = g2h[<<d, "meta">>]
        BY <1>2, <2>2, <3>1
      <3> QED
        BY <3>2 DEF IInv, TablesInv, ClassOf, MetaOf
    <2> QED
      BY <2>1, <2>2
  <1>8. \A p \in Pairs : h2g'[p] # None => g2h'[h2g'[p]] = p
    <2> SUFFICES ASSUME NEW p \in Pairs, h2g'[p] # None
                 PROVE  g2h'[h2g'[p]] = p
      OBVIOUS
    <2>1. CASE p = <<h, "class">> \/ p = <<h, "meta">>
      BY <1>2, <2>1
    <2>2. CASE p # <<h, "class">> /\ p # <<h, "meta">>
      <3>1. h2g'[p] = h2g[p]
        BY <1>2, <2>2
      <3>2. g2h[h2g[p]] = p /\ h2g[p] \in Keys /\ p # None
        BY <3>1, ShadowAssumption DEF IInv, TablesInv, TablesType, Keys
      <3> QED
        BY <1>5, <3>1, <3>2 DEF Grows
    <2> QED
      BY <2>1, <2>2
  <1>9. \A q \in Stubs : g2h'[q] # None => g2h'[q] = g2h'[ClassOf(StubOf[q])]
    <2> SUFFICES ASSUME NEW q \in Stubs, g2h'[q] # None
                 PROVE  g2h'[q] = g2h'[ClassOf(StubOf[q])]
      OBVIOUS
    <2>1. q \in Keys /\ ClassOf(StubOf[q]) \in Keys /\ q # <<c, "class">> /\ q # <<c, "meta">>
      BY ShadowAssumption DEF Keys, Objects, Kinds, ClassOf
    <2>2. g2h'[q] = g2h[q]
      BY <1>2, <2>1
    <2> QED
      BY <1>5, <2>1, <2>2 DEF IInv, TablesInv, Grows
  <1>10. \A o \in Static \X Kinds : o \in unbuilt' \/ g2h'[o] # None
    <2> SUFFICES ASSUME NEW o \in Static \X Kinds, o \notin unbuilt'
                 PROVE  g2h'[o] # None
      OBVIOUS
    <2>1. CASE o = <<c, "class">> \/ o = <<c, "meta">>
      BY <1>1, <1>2, <2>1, ShadowAssumption
    <2>2. CASE o # <<c, "class">> /\ o # <<c, "meta">>
      <3>1. o \in Keys
        BY ShadowAssumption DEF Keys, Objects
      <3>2. g2h[o] # None
        BY <1>2, <2>2 DEF IInv, TablesInv
      <3> QED
        BY <1>2, <2>2, <3>1, <3>2
    <2> QED
      BY <2>1, <2>2
  <1>11. TablesInv'
    <2>1. \A d \in Classes, k \in Kinds :
              LET p == g2h'[<<d, k>>]
              IN  p # None => /\ p[1] \in reg /\ p = <<p[1], k>>
                              /\ hname[p[1]] = d
                              /\ h2g'[p] = <<d, k>>
      <3>1. \A d \in Classes, k \in Kinds : \A p :
                p = g2h'[<<d, k>>] /\ p # None =>
                    p[1] \in reg /\ p = <<p[1], k>> /\ hname[p[1]] = d /\ h2g'[p] = <<d, k>>
        BY <1>6
      <3> SUFFICES ASSUME NEW d \in Classes, NEW k \in Kinds
                   PROVE  LET p == g2h'[<<d, k>>]
                          IN  p # None => /\ p[1] \in reg /\ p = <<p[1], k>>
                                          /\ hname[p[1]] = d
                                          /\ h2g'[p] = <<d, k>>
        OBVIOUS
      <3> DEFINE p == g2h'[<<d, k>>]
      <3>2. p # None => p[1] \in reg /\ p = <<p[1], k>> /\ hname[p[1]] = d /\ h2g'[p] = <<d, k>>
        <4>1. p = g2h'[<<d, k>>]
          OBVIOUS
        <4> HIDE DEF p
        <4> QED
          BY <3>1, <4>1
      <3> QED
        BY <3>2
    <2>2. (\A q \in reg : hname[q] # None) /\ (\A p, q \in reg : hname[p] = hname[q] => p = q)
      BY DEF IInv, TablesInv
    <2>3. hname' = hname /\ reg' = reg
      BY <1>2
    <2> QED
      BY <1>7, <1>8, <1>9, <1>10, <2>1, <2>2, <2>3 DEF TablesInv, ClassOf, MetaOf
  <1>12. SuperIsShadow'
    <2> SUFFICES ASSUME NEW q \in Hosts, hname[q] # None, Super[hname[q]] # None
                 PROVE  hsuper[q] # None /\ hsuper[q] = g2h'[ClassOf(Super[hname[q]])]
      BY <1>2 DEF SuperIsShadow, ClassOf
    <2>1. hsuper[q] # None /\ hsuper[q] = g2h[ClassOf(Super[hname[q]])]
      BY DEF IInv, SuperIsShadow
    <2>2. ClassOf(Super[hname[q]]) \in Keys
      BY ShadowAssumption DEF IInv, TablesType, Keys, Objects, Kinds, ClassOf
    <2> QED
      BY <1>5, <2>1, <2>2 DEF Grows
  <1> QED
    BY <1>4, <1>5, <1>11, <1>12

LEMMA BuildPublishInv ==
    ASSUME IInv, NEW t \in Threads, BuildPublish(t)
    PROVE  IInv' /\ Grows(g2h, g2h')
  <1> DEFINE o == Top(t).obj
             h == Top(t).val[1]
  <1>1. stack[t] # <<>> /\ Top(t).pc = "publish"
    BY DEF BuildPublish, At
  <1>2. /\ o \in Objects /\ registering # None
        /\ Top(t) = stack[t][Len(stack[t])] /\ InBuild(stack[t])
    BY <1>1, TopFacts DEF FrameOK, Building
  <1>3. PICK c \in Classes, k \in Kinds : o = <<c, k>>
    BY <1>2 DEF Objects
  <1>4. o[1] = c /\ o[2] = k
    BY <1>3
  <1>5. h \in reg /\ Top(t).val = ClassOf(h) /\ hname[h] = c /\ g2h[ClassOf(c)] = None
    BY <1>1, <1>2, <1>4 DEF IInv, PendingInv, PendingOK
  <1>6. /\ g2h' = [g2h EXCEPT ![ClassOf(c)] = ClassOf(h), ![MetaOf(c)] = MetaOf(h)]
        /\ h2g' = [h2g EXCEPT ![ClassOf(h)] = ClassOf(c), ![MetaOf(h)] = MetaOf(c)]
        /\ unbuilt' = unbuilt \ {ClassOf(c), MetaOf(c)}
        /\ Return(t, <<h, k>>)
        /\ UNCHANGED <<hname, hsuper, reg, registering, left>>
    BY <1>4 DEF BuildPublish, host, start
  <1> HIDE DEF o, h
  <1>7. TablesType' /\ TablesInv' /\ SuperIsShadow' /\ Grows(g2h, g2h')
    BY <1>5, <1>6, BuildPublishTables DEF Publishes
  <1>8. g2h'[o] = <<h, k>> /\ <<h, k>> \in Pairs /\ <<h, k>> # None
    <2>1. <<c, "class">> \in Keys /\ <<c, "meta">> \in Keys
      BY DEF Keys, Objects, Kinds
    <2>2. g2h'[<<c, "class">>] = <<h, "class">> /\ g2h'[<<c, "meta">>] = <<h, "meta">>
      BY <1>6, <2>1 DEF IInv, TablesType, ClassOf, MetaOf
    <2>3. <<h, k>> \in Pairs
      BY <1>5 DEF IInv, TablesType, Pairs
    <2> QED
      BY <1>3, <2>2, <2>3, ShadowAssumption DEF Kinds
  <1>9. Moves(t) /\ PendingOK(g2h', hname', reg', stack'[t])
    BY <1>1, <1>6, <1>7, <1>8, ReturnMoves DEF Callee, Building, o
  <1>10. StacksInv' /\ MutexInv' /\ StartInv'
    BY <1>2, <1>6, <1>7, <1>9, MoveKeeps
  <1>11. PendingInv'
    <2>1. \A u \in Threads \ {t} : PendingOK(g2h', hname', reg', stack'[u])
      BY <1>2, <1>9, OthersStay, OnlyPending
    <2> QED
      BY <1>9, <2>1 DEF PendingInv
  <1>12. RegisteredInv'
    <2> SUFFICES ASSUME NEW q \in reg PROVE h2g'[ClassOf(q)] # None
      BY <1>6 DEF RegisteredInv, ClassOf
    <2>1. ClassOf(q) \in Pairs /\ ClassOf(h) \in Pairs /\ MetaOf(h) \in Pairs /\ ClassOf(c) # None
      BY <1>5, ShadowAssumption DEF IInv, TablesType, Pairs, Kinds, ClassOf, MetaOf, Objects
    <2>2. CASE q = h
      BY <1>6, <2>1, <2>2 DEF IInv, TablesType, ClassOf, MetaOf
    <2>3. CASE q # h
      <3>1. h2g[ClassOf(q)] # None
        BY <1>1, <1>2, <1>5, <2>3, OnlyPending, SMTT(40) DEF IInv, RegisteredInv, ClassOf
      <3>2. ClassOf(q) # ClassOf(h) /\ ClassOf(q) # MetaOf(h)
        BY <2>3 DEF ClassOf, MetaOf
      <3> QED
        BY <1>6, <2>1, <3>1, <3>2 DEF IInv, TablesType
    <2> QED
      BY <2>2, <2>3
  <1> QED
    BY <1>7, <1>10, <1>11, <1>12 DEF IInv

(* Nothing calls the two calls into this file that wait for a class.       *)
LEMMA Outermost ==
    ASSUME IInv, NEW t \in Threads, stack[t] # <<>>, Top(t).pc \in {"stub", "listed"}
    PROVE  Len(stack[t]) = 1 /\ stack[t][1] = Top(t)
  <1>1. ASSUME Len(stack[t]) > 1 PROVE FALSE
    <2>1. LinkOK(stack[t][Len(stack[t]) - 1], Top(t))
      BY <1>1, TopFacts
    <2> QED
      BY <2>1 DEF LinkOK, Asks, Callee, Waiting, Building
  <1>2. \A n \in Nat : n > 0 => n = 1 \/ n > 1
    OBVIOUS
  <1> QED
    BY <1>1, <1>2, TopFacts

LEMMA EmptyReturn ==
    ASSUME IInv, NEW t \in Threads, Len(stack[t]) = 1, NEW v, Return(t, v)
    PROVE  stack' = [stack EXCEPT ![t] = stack'[t]] /\ stack'[t] = <<>>
  <1>1. stack' = [stack EXCEPT ![t] = <<>>]
    BY DEF Return, Depth
  <1> QED
    BY <1>1 DEF IInv, StacksInv

LEMMA EnterStubInv ==
    ASSUME IInv, NEW t \in Threads, EnterStub(t)
    PROVE  IInv' /\ Grows(g2h, g2h')
  <1> DEFINE q == Top(t).obj
             v == Top(t).val
  <1>1. stack[t] # <<>> /\ Top(t).pc = "stub" /\ ~ At(t, "publish")
    BY DEF EnterStub, At
  <1>2. q \in Stubs /\ registering # None /\ v # None /\ v = g2h[ClassOf(StubOf[q])]
    BY <1>1, TopFacts DEF FrameOK, TopOK, Asks, Asked
  <1>3. g2h' = [g2h EXCEPT ![q] = v] /\ Return(t, None)
    BY DEF EnterStub
  <1>4. UNCHANGED <<h2g, unbuilt, hname, hsuper, reg, registering, left>>
    BY DEF EnterStub, host, start
  <1> HIDE DEF q, v
  <1>5. /\ q \in Keys /\ q \notin Objects /\ ClassOf(StubOf[q]) \in Objects
        /\ v \in Pairs
    BY <1>2, ShadowAssumption DEF Keys, Objects, Kinds, ClassOf, IInv, TablesType
  <1>6. g2h' \in [Keys -> Pairs \cup {None}] /\ g2h'[q] = v /\ \A o \in Keys : o # q => g2h'[o] = g2h[o]
    BY <1>3, <1>5 DEF IInv, TablesType
  <1>7. \A o \in Objects : o \in Keys /\ g2h'[o] = g2h[o]
    BY <1>5, <1>6 DEF Keys
  <1>8. Grows(g2h, g2h')
    <2>1. g2h[q] # None => g2h[q] = v
      BY <1>2 DEF IInv, TablesInv
    <2> QED
      BY <1>6, <2>1 DEF Grows
  <1>9. TablesType'
    BY <1>4, <1>6 DEF IInv, TablesType
  <1>10. TablesInv'
    <2>1. \A c \in Classes, k \in Kinds :
              LET p == g2h'[<<c, k>>]
              IN  p # None => /\ p[1] \in reg /\ p = <<p[1], k>>
                              /\ hname[p[1]] = c
                              /\ h2g[p] = <<c, k>>
      <3>1. \A c \in Classes, k \in Kinds : <<c, k>> \in Objects
        BY DEF Objects
      <3>2. \A c \in Classes, k \in Kinds : g2h'[<<c, k>>] = g2h[<<c, k>>]
        BY <1>7, <3>1
      <3> SUFFICES ASSUME NEW c \in Classes, NEW k \in Kinds
                   PROVE  LET p == g2h'[<<c, k>>]
                          IN  p # None => /\ p[1] \in reg /\ p = <<p[1], k>>
                                          /\ hname[p[1]] = c
                                          /\ h2g[p] = <<c, k>>
        OBVIOUS
      <3> DEFINE p == g2h[<<c, k>>]
      <3>3. p # None => p[1] \in reg /\ p = <<p[1], k>> /\ hname[p[1]] = c /\ h2g[p] = <<c, k>>
        BY DEF IInv, TablesInv
      <3>4. g2h'[<<c, k>>] = p
        BY <3>2
      <3> HIDE DEF p
      <3> QED
        BY <3>3, <3>4
    <2>2. \A c \in Classes : g2h'[ClassOf(c)] = None <=> g2h'[MetaOf(c)] = None
      <3>1. \A c \in Classes : ClassOf(c) \in Objects /\ MetaOf(c) \in Objects
        BY DEF Objects, ClassOf, MetaOf, Kinds
      <3> QED
        BY <1>7, <3>1 DEF IInv, TablesInv
    <2>3. \A p \in Pairs : h2g[p] # None => g2h'[h2g[p]] = p
      BY <1>7 DEF IInv, TablesInv, TablesType
    <2>4. \A r \in Stubs : g2h'[r] # None => g2h'[r] = g2h'[ClassOf(StubOf[r])]
      <3> SUFFICES ASSUME NEW r \in Stubs, g2h'[r] # None
                   PROVE  g2h'[r] = g2h'[ClassOf(StubOf[r])]
        OBVIOUS
      <3>1. r \in Keys /\ ClassOf(StubOf[r]) \in Objects
        BY ShadowAssumption DEF Keys, Objects, ClassOf, Kinds
      <3>2. g2h'[ClassOf(StubOf[r])] = g2h[ClassOf(StubOf[r])]
        BY <1>7, <3>1
      <3>3. CASE r = q
        BY <1>2, <1>6, <3>2, <3>3
      <3>4. CASE r # q
        BY <1>6, <3>1, <3>2, <3>4 DEF IInv, TablesInv
      <3> QED
        BY <3>3, <3>4
    <2>5. \A o \in Static \X Kinds : o \in unbuilt \/ g2h'[o] # None
      <3>1. \A o \in Static \X Kinds : o \in Objects
        BY ShadowAssumption DEF Objects
      <3> QED
        BY <1>7, <3>1 DEF IInv, TablesInv
    <2>6. (\A r \in reg : hname[r] # None) /\ (\A p, r \in reg : hname[p] = hname[r] => p = r)
      BY DEF IInv, TablesInv
    <2> QED
      BY <1>4, <2>1, <2>2, <2>3, <2>4, <2>5, <2>6 DEF TablesInv, ClassOf, MetaOf
  <1>11. SuperIsShadow'
    <2>1. \A h \in Hosts : hname[h] # None /\ Super[hname[h]] # None =>
              ClassOf(Super[hname[h]]) \in Objects
      BY ShadowAssumption DEF IInv, TablesType, Objects, Kinds, ClassOf
    <2> QED
      BY <1>4, <1>7, <2>1 DEF IInv, SuperIsShadow, ClassOf
  <1>12. Len(stack[t]) = 1 /\ stack[t][1].pc = "stub"
    BY <1>1, Outermost
  <1>13. stack' = [stack EXCEPT ![t] = stack'[t]] /\ stack'[t] = <<>>
    BY <1>3, <1>12, EmptyReturn
  <1>14. Moves(t)
    BY <1>12, <1>13, EmptyStack DEF Moves, Kept
  <1>15. StacksInv' /\ MutexInv' /\ StartInv'
    BY <1>2, <1>4, <1>8, <1>14, MoveKeeps
  <1>16. PendingInv'
    <2> SUFFICES ASSUME NEW u \in Threads PROVE PendingOK(g2h', hname, reg, stack'[u])
      BY <1>4 DEF PendingInv
    <2>1. CASE u = t
      BY <1>13, <2>1 DEF PendingOK
    <2>2. CASE u # t
      <3>1. stack'[u] = stack[u] /\ PendingOK(g2h, hname, reg, stack[u])
        BY <1>14, <2>2, OthersStay DEF IInv, PendingInv
      <3>2. ASSUME stack[u] # <<>>, stack[u][Len(stack[u])].pc \in {"register", "publish"}
            PROVE  ClassOf(stack[u][Len(stack[u])].obj[1]) \in Objects
        <4>1. stack[u][Len(stack[u])].obj \in Objects
          BY <3>2, TopFacts DEF FrameOK, Building
        <4> QED
          BY <4>1 DEF Objects, ClassOf, Kinds
      <3> QED
        BY <1>7, <3>1, <3>2 DEF PendingOK
    <2> QED
      BY <2>1, <2>2
  <1>17. RegisteredInv'
    <2>1. \A u \in Threads : At(u, "publish") => u # t /\ stack'[u] = stack[u]
      BY <1>1, <1>14, OthersStay
    <2> QED
      BY <1>4, <2>1 DEF IInv, RegisteredInv, At, Top, Depth, ClassOf
  <1> QED
    BY <1>8, <1>9, <1>10, <1>11, <1>15, <1>16, <1>17 DEF IInv

----------------------------------------------------------------------------
(* The start of the bridge.                                                *)

LEMMA BridgeInitInv ==
    ASSUME IInv, NEW t \in Threads, xl_bridge_init(t)
    PROVE  IInv'
  <1> DEFINE e == Frame("listed", None)
             r == <<e>>
  <1>1. registering = None /\ registering' = t /\ \A u \in Threads : stack[u] = <<>>
    BY DEF xl_bridge_init, IInv, StartInv
  <1>2. UNCHANGED <<tables, host>> /\ UNCHANGED <<g2h, hname, reg, left>>
    BY DEF xl_bridge_init, tables, host
  <1>3. stack' = [stack EXCEPT ![t] = r]
    BY DEF xl_bridge_init
  <1>4. e \in FrameSet /\ e.pc = "listed" /\ FrameOK(g2h, e) /\ TopOK(e)
    BY DEF Frame, FrameSet, FrameOK, TopOK, Asks, Waiting, Building, Values
  <1> HIDE DEF e
  <1>5. r \in Seq(FrameSet) /\ Len(r) = 1 /\ r[1] = e /\ r # <<>>
    BY <1>4
  <1> HIDE DEF r
  <1>6. stack'[t] = r /\ \A u \in Threads \ {t} : stack'[u] = <<>>
    BY <1>1, <1>3 DEF IInv, StacksInv
  <1>7. StackOK(g2h, r) /\ ~ InBuild(r)
    BY <1>4, <1>5 DEF StackOK, FramesOK, InBuild, Building
  <1>8. StacksInv' /\ MutexInv'
    BY <1>2, <1>3, <1>6, <1>7, MoveStacks DEF Grows
  <1>9. PendingOK(g2h, hname, reg, r)
    BY <1>4, <1>5 DEF PendingOK
  <1>10. TablesType' /\ TablesInv' /\ SuperIsShadow' /\ PendingInv' /\ RegisteredInv'
    BY <1>1, <1>2, <1>6, <1>9, QuietTables DEF At
  <1>11. StartInv'
    <2>1. registering' \in Threads /\ registering' # None
      BY <1>1, ShadowAssumption
    <2>2. InLoop'
      BY <1>1, <1>4, <1>5, <1>6, <2>1 DEF InLoop
    <2>3. \A u \in Threads : stack'[u] # <<>> => u = registering'
      BY <1>1, <1>6
    <2>4. \A c \in Listed : c \in left \/ g2h[ClassOf(c)] # None
      BY <1>1 DEF IInv, StartInv, InLoop
    <2>5. left' \subseteq Listed
      BY <1>2 DEF IInv, StartInv
    <2> QED
      BY <1>2, <2>1, <2>2, <2>3, <2>4, <2>5 DEF StartInv, ClassOf
  <1> QED
    BY <1>8, <1>10, <1>11 DEF IInv

LEMMA RegisterListedInv ==
    ASSUME IInv, NEW t \in Threads, xl_shadow_register_listed(t)
    PROVE  IInv'
  <1>1. stack[t] # <<>> /\ Top(t).pc = "listed" /\ ~ At(t, "publish")
    BY DEF xl_shadow_register_listed, At
  <1>2. /\ Len(stack[t]) = 1 /\ stack[t][1] = Top(t) /\ registering # None
        /\ FrameOK(g2h, Top(t))
    BY <1>1, Outermost, TopFacts
  <1>3. t = registering
    BY <1>1, <1>2 DEF IInv, StartInv
  <1>4. UNCHANGED <<tables, host>> /\ UNCHANGED <<g2h, hname, reg, registering>>
    BY DEF xl_shadow_register_listed, tables, host
  <1>5. Grows(g2h, g2h')
    BY <1>4 DEF Grows
  <1>6. \A d \in Listed : d \in left \/ g2h[ClassOf(d)] # None
    BY <1>2, <1>3 DEF IInv, StartInv
  <1>7. CASE left = {} /\ Return(t, None) /\ UNCHANGED left
    <2>1. stack' = [stack EXCEPT ![t] = stack'[t]] /\ stack'[t] = <<>>
      BY <1>2, <1>7, EmptyReturn
    <2>2. StacksInv' /\ MutexInv'
      BY <1>5, <2>1, EmptyStack, MoveStacks
    <2>3. \A u \in Threads \ {t} : stack'[u] = stack[u]
      BY <2>1 DEF IInv, StacksInv
    <2>4. TablesType' /\ TablesInv' /\ SuperIsShadow' /\ PendingInv' /\ RegisteredInv'
      BY <1>1, <1>4, <2>1, <2>3, QuietTables DEF PendingOK
    <2>5. StartInv'
      <3>1. \A u \in Threads : stack'[u] # <<>> /\ stack'[u][1].pc = "listed" => u = registering'
        BY <1>4, <2>1, <2>3 DEF IInv, StartInv
      <3> QED
        BY <1>2, <1>3, <1>4, <1>6, <1>7, <3>1 DEF StartInv, ClassOf
    <2> QED
      BY <2>2, <2>4, <2>5 DEF IInv
  <1>8. ASSUME NEW c \in left, left' = left \ {c}, CallFrom(t, "listed", Frame("lookup", ClassOf(c))),
               left \subseteq Listed
        PROVE  IInv'
    <2> DEFINE e == Frame("lookup", ClassOf(c))
    <2>1. ClassOf(c) \in Objects
      BY <1>8, ShadowAssumption DEF ClassOf, Objects, Kinds
    <2>2. e \in FrameSet /\ e.pc = "lookup" /\ e.obj = ClassOf(c) /\ FrameOK(g2h, e) /\ TopOK(e)
      BY <2>1 DEF Frame, FrameSet, FrameOK, TopOK, Asks, Callee, Building, Values, Keys
    <2>3. CallFrom(t, "listed", e)
      BY <1>8
    <2> HIDE DEF e
    <2>4. \A f \in FrameSet : f.pc = "listed" /\ f.obj = Top(t).obj /\ f.val = Top(t).val =>
              FrameOK(g2h, f) /\ LinkOK(f, e)
      BY <2>2 DEF FrameOK, LinkOK, Asks, Waiting, Callee, Building
    <2>5. /\ Moves(t)
          /\ Len(stack'[t]) = Len(stack[t]) + 1
          /\ stack'[t] # <<>> /\ stack'[t][Len(stack'[t])] = e
          /\ stack'[t][Len(stack[t])].pc = "listed"
      BY <1>1, <1>4, <2>2, <2>3, <2>4, CallMoves
    <2>6. Len(stack'[t]) = 2 /\ stack'[t][2] = e /\ stack'[t][1].pc = "listed"
      BY <1>2, <2>5
    <2>7. StacksInv' /\ MutexInv'
      BY <1>5, <2>5, MoveStacks DEF Moves
    <2>8. \A u \in Threads \ {t} : stack'[u] = stack[u]
      BY <2>5, OthersStay
    <2>9. TablesType' /\ TablesInv' /\ SuperIsShadow' /\ PendingInv' /\ RegisteredInv'
      <3>1. PendingOK(g2h, hname, reg, stack'[t])
        BY <2>2, <2>5 DEF PendingOK
      <3> QED
        BY <1>1, <1>4, <2>8, <3>1, QuietTables
    <2>10. StartInv'
      <3>1. InLoop' /\ registering' # None /\ registering' \in Threads
        BY <1>2, <1>3, <1>4, <2>5, <2>6 DEF InLoop
      <3>2. \A u \in Threads : stack'[u] # <<>> /\ stack'[u][1].pc = "listed" => u = registering'
        BY <1>3, <1>4, <2>8 DEF IInv, StartInv
      <3>3. stack'[registering'][2].obj = ClassOf(c) /\ Len(stack'[registering']) > 1
        BY <1>3, <1>4, <2>2, <2>6
      <3>4. \A d \in Listed : d \in left' \/ g2h'[ClassOf(d)] # None \/ d = c
        BY <1>4, <1>6, <1>8
      <3>5. left' \subseteq Listed
        BY <1>8
      <3> QED
        BY <3>1, <3>2, <3>3, <3>4, <3>5 DEF StartInv, ClassOf
    <2> QED
      BY <2>7, <2>9, <2>10 DEF IInv
  <1>9. left \subseteq Listed
    BY DEF IInv, StartInv
  <1> QED
    BY <1>7, <1>8, <1>9 DEF xl_shadow_register_listed

----------------------------------------------------------------------------
(* The invariant holds in every state.                                     *)

LEMMA InitInv ==
    ASSUME Init
    PROVE  IInv
  <1>1. \A t \in Threads : stack[t] = <<>>
    BY DEF Init
  <1>2. TablesType
    BY DEF Init, TablesType
  <1>3. TablesInv
    <2>1. /\ \A c \in Classes, k \in Kinds : g2h[<<c, k>>] = None
          /\ \A q \in Stubs : g2h[q] = None
          /\ \A p \in Pairs : h2g[p] = None
          /\ reg = {} /\ unbuilt = Static \X Kinds
      BY DEF Init, Keys, Objects
    <2> QED
      BY <2>1 DEF TablesInv, ClassOf, MetaOf, Kinds
  <1>4. SuperIsShadow
    BY DEF Init, SuperIsShadow
  <1>5. StacksInv
    <2>1. <<>> \in Seq(FrameSet)
      BY EmptySeq
    <2>2. stack \in [Threads -> Seq(FrameSet)]
      BY <2>1 DEF Init
    <2> QED
      BY <1>1, <2>2, EmptyStack DEF StacksInv
  <1>6. MutexInv /\ PendingInv
    BY <1>1, EmptyStack DEF MutexInv, PendingInv, PendingOK
  <1>7. RegisteredInv
    BY DEF Init, RegisteredInv
  <1>8. StartInv
    BY <1>1 DEF Init, StartInv
  <1> QED
    BY <1>2, <1>3, <1>4, <1>5, <1>6, <1>7, <1>8 DEF IInv

LEMMA NextInv ==
    ASSUME IInv, [Next]_vars
    PROVE  IInv' /\ Grows(g2h, g2h')
  <1>1. CASE UNCHANGED vars
    <2>1. UNCHANGED <<tables, host, start, stack>> /\ UNCHANGED g2h
      BY <1>1 DEF vars, tables
    <2> QED
      BY <2>1, StutterInv DEF Grows
  <1>2. ASSUME NEW t \in Threads, Step(t)
        PROVE  IInv' /\ Grows(g2h, g2h')
    <2>1. CASE BuildPublish(t)
      BY <2>1, BuildPublishInv
    <2>2. CASE EnterStub(t)
      BY <2>2, EnterStubInv
    <2>3. ASSUME ~ BuildPublish(t), ~ EnterStub(t)
          PROVE  UNCHANGED g2h
      BY <1>2, <2>3 DEF Step, Lookup, LookupStatic, xl_build_lock, BuildSuper, BuildRealize,
             BuildAllocate, BuildRegister, EndInitialize, Receive, xl_shadow_register_listed,
             BeginInitialize, Die, tables
    <2>4. ASSUME ~ BuildPublish(t), ~ EnterStub(t)
          PROVE  IInv'
      BY <1>2, <2>4, LookupInv, LookupStaticInv, BuildLockInv, BuildSuperInv, BuildRealizeInv,
         BuildAllocateInv, BuildRegisterInv, EndInitializeInv, ReceiveInv, RegisterListedInv
         DEF Step
    <2> QED
      BY <2>1, <2>2, <2>3, <2>4 DEF Grows
  <1>3. ASSUME NEW t \in Threads, Program(t)
        PROVE  IInv' /\ Grows(g2h, g2h')
    <2>1. UNCHANGED g2h
      BY <1>3 DEF Program, xl_bridge_init, SendMessage, xl_manual_objc_readClassPair, LookUpName,
             xl_manual_objc_realizeClassFromSwift, tables
    <2>2. ASSUME NEW c \in Classes, LookUpName(t, c) PROVE IInv'
      BY <2>2, StutterInv DEF LookUpName
    <2>3. IInv'
      BY <1>3, <2>2, BridgeInitInv, SendMessageInv, ReadClassPairInv, RealizeClassInv DEF Program
    <2> QED
      BY <2>1, <2>3 DEF Grows
  <1> QED
    BY <1>1, <1>2, <1>3 DEF Next

(* What the frames of every thread rely on holds in every state.           *)
THEOREM Invariance == Spec => []IInv
  BY InitInv, NextInv, PTL DEF Spec

(* Whatever the threads ask for, and whatever a +initialize messages in    *)
(* the middle of a build, no guest class ever has two registered shadows,  *)
(* and the two tables stay inverse (xl_build_shadow, xl_class_in,          *)
(* xl_class_out).                                                          *)
THEOREM OneShadowHolds == Spec => []OneShadow
  <1>1. ASSUME IInv PROVE OneShadow
    <2>1. \A g, h \in Hosts : hname[g] = hname[h] /\ g \in reg /\ h \in reg => g = h
      BY <1>1 DEF IInv, TablesInv
    <2>2. \A o \in Objects : g2h[o] # None => h2g[g2h[o]] = o
      <3> SUFFICES ASSUME NEW o \in Objects, g2h[o] # None PROVE h2g[g2h[o]] = o
        OBVIOUS
      <3>1. PICK c \in Classes, k \in Kinds : o = <<c, k>>
        BY DEF Objects
      <3> QED
        BY <1>1, <3>1 DEF IInv, TablesInv
    <2>3. \A p \in Pairs : h2g[p] # None => g2h[h2g[p]] = p
      BY <1>1 DEF IInv, TablesInv
    <2> QED
      BY <2>1, <2>2, <2>3 DEF OneShadow
  <1> QED
    BY <1>1, Invariance, PTL

(* The superclass a shadow is allocated with is the published shadow of    *)
(* the guest superclass, although the table was read, and a guest          *)
(* +initialize ran, before the allocation (xl_build_shadow).               *)
THEOREM SuperIsShadowHolds == Spec => []SuperIsShadow
  <1>1. IInv => SuperIsShadow
    BY DEF IInv
  <1> QED
    BY <1>1, Invariance, PTL

(* No step takes an entry of xl_guest_to_host back or changes it, so what  *)
(* a thread has read stays right after it releases xl_table_lock.          *)
THEOREM ShadowIsForeverHolds == Spec => ShadowIsForever
  <1>1. ASSUME IInv, [Next]_vars PROVE [\A o \in Keys : g2h[o] # None => g2h'[o] = g2h[o]]_vars
    BY <1>1, NextInv DEF Grows
  <1> QED
    BY <1>1, Invariance, PTL DEF Spec, ShadowIsForever

(* When the thread that registers the listed classes has gone on, each of  *)
(* them has its shadow, however often the loop's calls nested              *)
(* (xl_shadow_register_listed).                                            *)
THEOREM ListedAreRegisteredHolds == Spec => []ListedAreRegistered
  <1>1. ASSUME IInv PROVE ListedAreRegistered
    BY <1>1 DEF IInv, StartInv, InLoop, ListedAreRegistered
  <1> QED
    BY <1>1, Invariance, PTL

(* With one thread, the host's class object of a guest class never comes   *)
(* out of a lookup by name: there the only code that could look between    *)
(* objc_registerClassPair and the tables is the build itself, which does   *)
(* not.  (With two threads there is such a moment.)                        *)
THEOREM NamesComeOutAsGuestHolds ==
    ASSUME \A t, u \in Threads : t = u
    PROVE  Spec => []NamesComeOutAsGuest
  <1>1. Init => NamesComeOutAsGuest
    BY ShadowAssumption DEF Init, NamesComeOutAsGuest
  <1>2. ASSUME IInv, NamesComeOutAsGuest, [Next]_vars PROVE NamesComeOutAsGuest'
    <2>1. CASE UNCHANGED seen
      BY <1>2, <2>1 DEF NamesComeOutAsGuest
    <2>2. ASSUME NEW t \in Threads, NEW c \in Classes, LookUpName(t, c)
          PROVE  NamesComeOutAsGuest'
      <3>1. CASE seen' = [name |-> c, got |-> None]
        BY <3>1, ShadowAssumption DEF NamesComeOutAsGuest
      <3>2. ASSUME NEW h \in reg,
                   seen' = [name |-> c, got |-> IF h2g[ClassOf(h)] # None THEN h2g[ClassOf(h)] ELSE ClassOf(h)]
            PROVE  NamesComeOutAsGuest'
        <4>1. ~ At(t, "publish")
          BY <2>2 DEF LookUpName, Idle, At
        <4>2. h2g[ClassOf(h)] # None
          BY <1>2, <4>1 DEF IInv, RegisteredInv
        <4>3. ClassOf(h) \in Pairs
          BY <1>2 DEF IInv, TablesType, ClassOf, Pairs, Kinds
        <4>4. h2g[ClassOf(h)] \in Objects
          BY <1>2, <4>2, <4>3 DEF IInv, TablesType
        <4>5. h2g[ClassOf(h)] \notin Pairs
          BY <4>4, ShadowAssumption DEF Objects, Pairs
        <4> QED
          BY <3>2, <4>2, <4>5 DEF NamesComeOutAsGuest
      <3> QED
        BY <2>2, <3>1, <3>2 DEF LookUpName
    <2> QED
      BY <1>2, <2>1, <2>2, ZenonT(40) DEF Next, vars, Step, Program, Lookup, LookupStatic, xl_build_lock,
             BuildSuper, BuildRealize, BuildAllocate, BuildRegister, BuildPublish, EndInitialize,
             Receive, EnterStub, xl_shadow_register_listed, BeginInitialize, Die, xl_bridge_init,
             SendMessage, xl_manual_objc_readClassPair, xl_manual_objc_realizeClassFromSwift
  <1> QED
    BY <1>1, <1>2, Invariance, PTL DEF Spec

----------------------------------------------------------------------------
(* One thread does not crash.  A lookup is only made of a class object that *)
(* some table has, and nothing moves it between the tests of the two; and   *)
(* a class under build is not built again further up the stack, as every    *)
(* class that a build comes to is of a lower rank.                          *)

Known(g, o) == o \in Static \X Kinds \/ g[o] # None

SafeFrame(g, f) ==
    /\ f.pc \in {"lookup", "static"} => Known(g, f.obj)
    /\ f.pc = "static" => g[f.obj] = None
    /\ f.pc \in {"lock", "super"} /\ Super[f.obj[1]] # None => Known(g, ClassOf(Super[f.obj[1]]))
    /\ f.pc \in {"super", "realize", "allocate"} => g[ClassOf(f.obj[1])] = None
    /\ f.pc \in {"receive", "realize"} => f.val \notin Keys

(* Object o is of a rank below those of the builds of stack s.             *)
Under(rank, s, o) ==
    \A i \in 1..Len(s) : s[i].pc = "realize" => o \in Objects /\ rank[o[1]] < rank[s[i].obj[1]]

Descends(rank, s) ==
    \A i, j \in 1..Len(s) :
        i < j /\ s[i].pc = "realize" => s[j].obj \in Objects /\ rank[s[j].obj[1]] < rank[s[i].obj[1]]

SafeStack(rank, g, s) == Descends(rank, s) /\ \A i \in 1..Len(s) : SafeFrame(g, s[i])

SafeInv(rank) == crash = "no" /\ \A t \in Threads : SafeStack(rank, g2h, stack[t])

LEMMA SafeEmpty ==
    ASSUME NEW rank, NEW g
    PROVE  SafeStack(rank, g, <<>>)
  <1>1. Len(<<>>) = 0
    BY EmptySeq
  <1> QED
    BY <1>1 DEF SafeStack, Descends

LEMMA SafePush ==
    ASSUME NEW rank, NEW g, NEW s \in Seq(FrameSet), SafeStack(rank, g, s),
           NEW f \in FrameSet, SafeFrame(g, f), Under(rank, s, f.obj)
    PROVE  /\ Append(s, f) \in Seq(FrameSet) /\ SafeStack(rank, g, Append(s, f))
           /\ f.pc # "realize" => \A o : Under(rank, s, o) => Under(rank, Append(s, f), o)
  <1> DEFINE r == Append(s, f)
  <1>1. Len(s) \in Nat /\ r \in Seq(FrameSet) /\ Len(r) = Len(s) + 1 /\ r[Len(s) + 1] = f
    BY StackElements, Pushed
  <1>2. \A i \in 1..Len(s) : r[i] = s[i]
    BY Pushed
  <1> HIDE DEF r
  <1>3. \A i \in 1..Len(r) : SafeFrame(g, r[i])
    BY <1>1, <1>2 DEF SafeStack
  <1>4. Descends(rank, r)
    <2> SUFFICES ASSUME NEW i \in 1..Len(r), NEW j \in 1..Len(r), i < j, r[i].pc = "realize"
                 PROVE  r[j].obj \in Objects /\ rank[r[j].obj[1]] < rank[r[i].obj[1]]
      BY DEF Descends
    <2>1. i \in 1..Len(s) /\ s[i].pc = "realize" /\ r[i] = s[i]
      BY <1>1, <1>2
    <2>2. CASE j \in 1..Len(s)
      <3>1. r[j] = s[j]
        BY <1>2, <2>2
      <3> QED
        BY <2>1, <2>2, <3>1 DEF SafeStack, Descends
    <2>3. CASE j = Len(s) + 1
      BY <1>1, <2>1, <2>3 DEF Under
    <2> QED
      BY <1>1, <2>2, <2>3
  <1>5. ASSUME f.pc # "realize", NEW o, Under(rank, s, o) PROVE Under(rank, r, o)
    <2> SUFFICES ASSUME NEW i \in 1..Len(r), r[i].pc = "realize"
                 PROVE  o \in Objects /\ rank[o[1]] < rank[r[i].obj[1]]
      BY DEF Under
    <2>1. i \in 1..Len(s) /\ r[i] = s[i]
      BY <1>1, <1>2, <1>5
    <2> QED
      BY <1>5, <2>1 DEF Under
  <1> QED
    BY <1>1, <1>3, <1>4, <1>5 DEF SafeStack, r

(* The innermost frame is at another place of the same call.               *)
LEMMA SafeReplace ==
    ASSUME NEW rank, NEW g, NEW s \in Seq(FrameSet), s # <<>>, SafeStack(rank, g, s),
           NEW f \in FrameSet, SafeFrame(g, f), f.obj = s[Len(s)].obj
    PROVE  /\ Replaced(s, f) \in Seq(FrameSet) /\ SafeStack(rank, g, Replaced(s, f))
           /\ Len(Replaced(s, f)) = Len(s) /\ Replaced(s, f) # <<>> /\ Replaced(s, f)[Len(s)] = f
           /\ \A i \in 1..(Len(s) - 1) : Replaced(s, f)[i] = s[i]
  <1> DEFINE r == Replaced(s, f)
  <1>1. Len(s) \in Nat /\ Len(s) > 0
    BY StackElements
  <1>2. r \in Seq(FrameSet) /\ Len(r) = Len(s) /\ r # <<>> /\ r[Len(s)] = f
    BY TopChanged
  <1>3. \A i \in 1..(Len(s) - 1) : r[i] = s[i]
    BY TopChanged
  <1> HIDE DEF r
  <1>4. \A i \in 1..Len(r) : SafeFrame(g, r[i])
    BY <1>1, <1>2, <1>3 DEF SafeStack
  <1>5. \A i \in 1..Len(r) : r[i].obj = s[i].obj
    BY <1>1, <1>2, <1>3
  <1>6. Descends(rank, r)
    <2> SUFFICES ASSUME NEW i \in 1..Len(r), NEW j \in 1..Len(r), i < j, r[i].pc = "realize"
                 PROVE  r[j].obj \in Objects /\ rank[r[j].obj[1]] < rank[r[i].obj[1]]
      BY DEF Descends
    <2>1. i \in 1..Len(s) /\ j \in 1..Len(s) /\ r[i] = s[i] /\ r[j].obj = s[j].obj
      BY <1>1, <1>2, <1>3, <1>5
    <2> QED
      BY <2>1 DEF SafeStack, Descends
  <1> QED
    BY <1>2, <1>3, <1>4, <1>6 DEF SafeStack, r

(* Frames are gone, and the tables may have grown: the classes of the      *)
(* builds that are left have no shadow yet.                                *)
LEMMA SafeShorter ==
    ASSUME NEW rank, NEW g, NEW e, Grows(g, e), NEW s, FramesOK(g, s), SafeStack(rank, g, s),
           NEW r \in Seq(FrameSet), Len(r) < Len(s),
           \A i \in 1..Len(r) : r[i].pc = s[i].pc /\ r[i].obj = s[i].obj /\ (r[i].val = s[i].val \/ r[i].val \notin Keys),
           \A i \in 1..Len(r) : s[i].pc = "realize" => e[ClassOf(s[i].obj[1])] = None
    PROVE  SafeStack(rank, e, r)
  <1>1. Len(s) \in Nat /\ Len(r) \in Nat
    BY StackElements DEF FramesOK
  <1>2. Descends(rank, r)
    <2> SUFFICES ASSUME NEW i \in 1..Len(r), NEW j \in 1..Len(r), i < j, r[i].pc = "realize"
                 PROVE  r[j].obj \in Objects /\ rank[r[j].obj[1]] < rank[r[i].obj[1]]
      BY DEF Descends
    <2>1. i \in 1..Len(s) /\ j \in 1..Len(s) /\ s[i].pc = "realize" /\ r[i].obj = s[i].obj /\ r[j].obj = s[j].obj
      BY <1>1
    <2> QED
      BY <2>1 DEF SafeStack, Descends
  <1>3. ASSUME NEW i \in 1..Len(r) PROVE SafeFrame(e, r[i])
    <2>1. i \in 1..Len(s) /\ i \in 1..(Len(s) - 1)
      BY <1>1
    <2>2. LinkOK(s[i], s[i + 1]) /\ SafeFrame(g, s[i])
      BY <2>1 DEF FramesOK, SafeStack
    <2>3. r[i].pc = s[i].pc /\ r[i].obj = s[i].obj /\ (r[i].val = s[i].val \/ r[i].val \notin Keys) /\ s[i].pc \in Waiting
      BY <2>2 DEF LinkOK
    <2> QED
      BY <2>2, <2>3 DEF SafeFrame, Waiting
  <1> QED
    BY <1>2, <1>3 DEF SafeStack

(* What the innermost frame calls for is of no higher rank than its own    *)
(* object, of a lower one if that is under build.                          *)
LEMMA UnderTop ==
    ASSUME NEW rank \in [Classes -> Nat], NEW g, NEW s \in Seq(FrameSet), s # <<>>, SafeStack(rank, g, s),
           NEW o \in Objects,
           s[Len(s)].obj \in Objects => rank[o[1]] <= rank[s[Len(s)].obj[1]],
           s[Len(s)].pc = "realize" => s[Len(s)].obj \in Objects /\ rank[o[1]] < rank[s[Len(s)].obj[1]],
           \A i \in 1..Len(s) : s[i].pc = "realize" => s[i].obj \in Objects
    PROVE  Under(rank, s, o)
  <1>1. Len(s) \in Nat /\ Len(s) > 0
    BY StackElements
  <1> SUFFICES ASSUME NEW i \in 1..Len(s), s[i].pc = "realize"
               PROVE  rank[o[1]] < rank[s[i].obj[1]]
    BY DEF Under
  <1>2. \A x \in Objects : rank[x[1]] \in Nat
    BY DEF Objects
  <1>3. CASE i = Len(s)
    BY <1>3
  <1>4. CASE i # Len(s)
    <2> DEFINE top == s[Len(s)]
    <2>1. i < Len(s) /\ Len(s) \in 1..Len(s)
      BY <1>1, <1>4
    <2>2. top.obj \in Objects /\ rank[top.obj[1]] < rank[s[i].obj[1]]
      BY <2>1 DEF SafeStack, Descends
    <2>3. s[i].obj \in Objects /\ rank[o[1]] <= rank[top.obj[1]]
      BY <2>2
    <2> QED
      BY <1>2, <2>2, <2>3
  <1> QED
    BY <1>3, <1>4

(* A build is of a class.                                                  *)
LEMMA BuildsAreOfClasses ==
    ASSUME IInv, NEW t \in Threads
    PROVE  \A i \in 1..Len(stack[t]) : stack[t][i].pc = "realize" => stack[t][i].obj \in Objects
  BY DEF IInv, StacksInv, StackOK, FramesOK, FrameOK, Building

LEMMA SafeContinue ==
    ASSUME IInv, NEW rank, NEW t \in Threads, SafeStack(rank, g2h, stack[t]), stack[t] # <<>>,
           NEW pc \in Callee \cup Waiting, NEW v \in Values, Continue(t, pc, v), UNCHANGED g2h,
           \A f \in FrameSet : f.pc = pc /\ f.obj = Top(t).obj /\ f.val = v => SafeFrame(g2h, f)
    PROVE  SafeStack(rank, g2h', stack'[t])
  <1> DEFINE f == [Top(t) EXCEPT !.pc = pc, !.val = v]
             r == Replaced(stack[t], f)
  <1>1. Top(t) \in FrameSet /\ stack[t] \in Seq(FrameSet) /\ Top(t) = stack[t][Len(stack[t])]
    BY TopFacts
  <1>2. f \in FrameSet /\ f.pc = pc /\ f.obj = Top(t).obj /\ f.val = v
    BY <1>1 DEF FrameSet
  <1> HIDE DEF f
  <1>3. stack'[t] = r
    <2>1. stack' = [stack EXCEPT ![t] = r]
      BY DEF Continue, Below, Depth, f, Replaced
    <2> HIDE DEF r
    <2> QED
      BY <2>1 DEF IInv, StacksInv
  <1>4. SafeFrame(g2h, f)
    BY <1>2
  <1> QED
    BY <1>1, <1>2, <1>3, <1>4, SafeReplace

LEMMA SafeReturn ==
    ASSUME IInv, NEW rank, NEW t \in Threads, SafeStack(rank, g2h, stack[t]), stack[t] # <<>>,
           NEW v \in Values \ Keys, Return(t, v), Grows(g2h, g2h'),
           \A i \in 1..(Len(stack[t]) - 1) :
               stack[t][i].pc = "realize" => g2h'[ClassOf(stack[t][i].obj[1])] = None
    PROVE  SafeStack(rank, g2h', stack'[t])
  <1> DEFINE s == stack[t]
             b == s[Len(s) - 1]
             f == [b EXCEPT !.val = v]
  <1>1. FramesOK(g2h, s) /\ s \in Seq(FrameSet) /\ Len(s) \in Nat /\ Len(s) > 0
    BY TopFacts
  <1>2. CASE Len(s) = 1
    BY <1>2, EmptyReturn, SafeEmpty
  <1>3. CASE Len(s) > 1
    <2> DEFINE r == Returned(s, f)
    <2>1. stack'[t] = r
      <3>1. Len(s) # 1
        BY <1>1, <1>3
      <3>2. stack' = [stack EXCEPT ![t] = r]
        BY <3>1 DEF Return, Depth, Returned
      <3> HIDE DEF r
      <3> QED
        BY <3>2 DEF IInv, StacksInv
    <2>2. b \in FrameSet
      BY <1>1, <1>3, StackElements
    <2>3. f \in FrameSet /\ f.pc = b.pc /\ f.obj = b.obj /\ f.val = v
      BY <2>2 DEF FrameSet
    <2> HIDE DEF f
    <2>0. ReturnedOK(FrameSet, s, f)
      BY <1>1, <1>3, <2>3, TopReturnedOK
    <2>4. r \in Seq(FrameSet) /\ Len(r) = Len(s) - 1 /\ r[Len(s) - 1] = f
      BY <2>0 DEF ReturnedOK
    <2>5. \A i \in 1..(Len(s) - 2) : r[i] = s[i]
      BY <2>0 DEF ReturnedOK
    <2> HIDE DEF r
    <2>6. \A i \in 1..Len(r) : r[i].pc = s[i].pc /\ r[i].obj = s[i].obj /\ (r[i].val = s[i].val \/ r[i].val \notin Keys)
      <3> SUFFICES ASSUME NEW i \in 1..Len(r)
                   PROVE  r[i].pc = s[i].pc /\ r[i].obj = s[i].obj /\ (r[i].val = s[i].val \/ r[i].val \notin Keys)
        OBVIOUS
      <3>1. i = Len(s) - 1 \/ i \in 1..(Len(s) - 2)
        BY <1>1, <2>4
      <3>2. CASE i = Len(s) - 1
        BY <2>3, <2>4, <3>2
      <3>3. CASE i \in 1..(Len(s) - 2)
        BY <2>5, <3>3
      <3> QED
        BY <3>1, <3>2, <3>3
    <2>7. Len(r) < Len(s)
      BY <1>1, <2>4
    <2>8. \A i \in 1..Len(r) : s[i].pc = "realize" => g2h'[ClassOf(s[i].obj[1])] = None
      BY <2>4
    <2>9. SafeStack(rank, g2h', r)
      <3>1. Grows(g2h, g2h') /\ SafeStack(rank, g2h, s)
        OBVIOUS
      <3> HIDE DEF s
      <3> QED
        BY ONLY <1>1, <2>4, <2>6, <2>7, <2>8, <3>1, SafeShorter
    <2> QED
      BY <2>1, <2>9
  <1>4. \A n \in Nat : n > 0 => n = 1 \/ n > 1
    OBVIOUS
  <1> QED
    BY <1>1, <1>2, <1>3, <1>4

LEMMA SafeCall ==
    ASSUME IInv, NEW rank \in [Classes -> Nat], NEW t \in Threads, SafeStack(rank, g2h, stack[t]), stack[t] # <<>>,
           NEW pc \in {"listed", "realize"}, NEW e \in FrameSet, CallFrom(t, pc, e), UNCHANGED g2h,
           SafeFrame(g2h, e), e.obj \in Objects,
           Top(t).obj \in Objects => rank[e.obj[1]] <= rank[Top(t).obj[1]],
           pc = "realize" => Top(t).obj \in Objects /\ rank[e.obj[1]] < rank[Top(t).obj[1]],
           \A f \in FrameSet : f.pc = pc /\ f.obj = Top(t).obj /\ f.val = Top(t).val => SafeFrame(g2h, f)
    PROVE  SafeStack(rank, g2h', stack'[t])
  <1> DEFINE s == stack[t]
             f == [Top(t) EXCEPT !.pc = pc]
             q == Replaced(s, f)
  <1>1. /\ Top(t) \in FrameSet /\ s \in Seq(FrameSet) /\ Top(t) = s[Len(s)]
        /\ Len(s) \in Nat /\ Len(s) > 0
    BY TopFacts
  <1>2. f \in FrameSet /\ f.pc = pc /\ f.obj = Top(t).obj /\ f.val = Top(t).val
    BY <1>1 DEF FrameSet, Callee, Building, Waiting
  <1> HIDE DEF f
  <1>3. stack'[t] = Append(q, e)
    <2> DEFINE r == Append(q, e)
    <2>1. stack' = [stack EXCEPT ![t] = r]
      BY DEF CallFrom, Below, Depth, f, Replaced
    <2> HIDE DEF r
    <2>2. stack'[t] = r
      BY <2>1 DEF IInv, StacksInv
    <2> QED
      BY <2>2 DEF r
  <1>4. SafeFrame(g2h, f)
    BY <1>2
  <1>5. /\ q \in Seq(FrameSet) /\ SafeStack(rank, g2h, q)
        /\ Len(q) = Len(s) /\ q # <<>> /\ q[Len(s)] = f
        /\ \A i \in 1..(Len(s) - 1) : q[i] = s[i]
    BY <1>1, <1>2, <1>4, SafeReplace
  <1>6. q[Len(q)] = f
    BY <1>5
  <1> HIDE DEF q
  <1>7. \A i \in 1..Len(q) : q[i].pc = "realize" => q[i].obj \in Objects
    <2>1. \A i \in 1..Len(s) : s[i].pc = "realize" => s[i].obj \in Objects
      BY BuildsAreOfClasses
    <2> QED
      BY <1>1, <1>2, <1>5, <2>1
  <1>8. Under(rank, q, e.obj)
    BY <1>2, <1>5, <1>6, <1>7, UnderTop
  <1> QED
    BY <1>3, <1>5, <1>8, SafePush

(* The class of a shadow the tables lead to, which has that shadow, and    *)
(* whose superclass has one.                                               *)
LEMMA NamedClass ==
    ASSUME IInv, NEW o \in Keys, g2h[o] # None
    PROVE  LET c == hname[g2h[o][1]]
           IN  /\ c \in Classes /\ g2h[ClassOf(c)] # None
               /\ o \in Objects => c = o[1]
               /\ Super[c] # None => g2h[ClassOf(Super[c])] # None
  <1> DEFINE p == g2h[o]
             c == hname[p[1]]
  <1>1. p[1] \in reg /\ p[1] \in Hosts /\ c \in Classes
    BY NamedShadow DEF IInv, TablesType
  <1>2. Super[c] # None => g2h[ClassOf(Super[c])] # None
    BY <1>1, ShadowAssumption DEF IInv, SuperIsShadow
  <1>3. ASSUME o \in Objects PROVE c = o[1] /\ g2h[ClassOf(c)] # None
    <2>1. PICK d \in Classes, k \in Kinds : o = <<d, k>>
      BY <1>3 DEF Objects
    <2>2. hname[g2h[<<d, k>>][1]] = d
      BY <2>1 DEF IInv, TablesInv
    <2>3. g2h[ClassOf(d)] # None
      BY <2>1 DEF IInv, TablesInv, ClassOf, MetaOf, Kinds
    <2> QED
      BY <2>1, <2>2, <2>3
  <1>4. ASSUME o \in Stubs PROVE g2h[ClassOf(c)] # None
    <2>1. StubOf[o] \in Classes /\ "class" \in Kinds
      BY <1>4, ShadowAssumption DEF Kinds
    <2>2. g2h[o] = g2h[<<StubOf[o], "class">>]
      BY <1>4 DEF IInv, TablesInv, ClassOf
    <2>3. hname[g2h[o][1]] = StubOf[o]
      BY <2>1, <2>2 DEF IInv, TablesInv
    <2> QED
      BY <2>2, <2>3 DEF ClassOf
  <1> QED
    BY <1>1, <1>2, <1>3, <1>4 DEF Keys

(* What a +initialize messages is known: it has a shadow or will have.     *)
LEMMA TouchedIsKnown ==
    ASSUME IInv, NEW rank, Ranked(rank), NEW c \in Classes, Touch[c] # None, g2h[ClassOf(c)] # None,
           Super[c] # None => g2h[ClassOf(Super[c])] # None
    PROVE  Touch[c] \in Objects /\ rank[Touch[c][1]] <= rank[c] /\ Known(g2h, Touch[c])
  <1>1. Touch[c] \in Objects /\ rank[Touch[c][1]] <= rank[c] /\ Touch[c][1] \in Static \cup {c, Super[c]}
    BY ShadowAssumption DEF Ranked
  <1>2. PICK d \in Classes, k \in Kinds : Touch[c] = <<d, k>>
    BY <1>1 DEF Objects
  <1>3. d \in Static \/ d = c \/ (d = Super[c] /\ Super[c] # None)
    BY <1>1, <1>2, ShadowAssumption
  <1>4. CASE d \in Static
    BY <1>1, <1>2, <1>4 DEF Known
  <1>5. ASSUME g2h[ClassOf(d)] # None PROVE Known(g2h, Touch[c])
    <2>1. g2h[<<d, k>>] \in Pairs
      BY <1>5, ShadowPair
    <2> QED
      BY <1>2, <2>1, ShadowAssumption DEF Known
  <1> QED
    BY <1>1, <1>3, <1>4, <1>5

LEMMA SafeInitialize ==
    ASSUME IInv, NEW rank \in [Classes -> Nat], Ranked(rank), NEW t \in Threads,
           SafeStack(rank, g2h, stack[t]), stack[t] # <<>>, Top(t).pc \in {"realize", "receive"},
           Top(t).val \in Pairs, BeginInitialize(t, Top(t).val)
    PROVE  SafeStack(rank, g2h', stack'[t]) /\ UNCHANGED crash
  <1> DEFINE s == stack[t]
             f == Top(t)
             p == f.val
             c == hname[p[1]]
             i == Frame("initialize", ClassOf(c))
             m == Frame("receive", Touch[c])
             e == Frame("lookup", Touch[c])
             q == Append(s, i)
  <1>1. /\ f \in FrameSet /\ s \in Seq(FrameSet) /\ s[Len(s)] = f
        /\ FrameOK(g2h, f) /\ TopOK(f)
    BY TopFacts
  <1>2. p # None /\ p \notin Keys
    BY ShadowAssumption DEF Keys, Objects, Pairs
  <1>3. Asks(f) /\ Asked(f) \in Keys
    BY <1>1, <1>2, ShadowAssumption DEF FrameOK, Asks, Asked, Keys, Objects, Kinds, ClassOf, Building
  <1>4. p = g2h[Asked(f)]
    BY <1>1, <1>2, <1>3 DEF FrameOK
  <1>5. /\ c \in Classes /\ g2h[ClassOf(c)] # None
        /\ Asked(f) \in Objects => c = Asked(f)[1]
        /\ Super[c] # None => g2h[ClassOf(Super[c])] # None
    BY <1>2, <1>3, <1>4, NamedClass
  <1>6. UNCHANGED g2h /\ UNCHANGED crash
    BY DEF BeginInitialize, tables
  <1>7. f.pc = "realize" => f.obj \in Objects /\ c = Super[f.obj[1]] /\ rank[c] < rank[f.obj[1]]
    <2> SUFFICES ASSUME f.pc = "realize" PROVE f.obj \in Objects /\ c = Super[f.obj[1]] /\ rank[c] < rank[f.obj[1]]
      OBVIOUS
    <2>1. f.obj \in Objects /\ f.obj[1] \in Classes /\ Super[f.obj[1]] # None
      BY <1>1, <1>3 DEF FrameOK, Building, Objects, Asks
    <2>2. Asked(f) = ClassOf(Super[f.obj[1]]) /\ Asked(f) \in Objects
      BY <2>1, ShadowAssumption DEF Asked, Objects, ClassOf, Kinds
    <2>3. c = Super[f.obj[1]]
      BY <1>5, <2>2 DEF ClassOf
    <2> QED
      BY <2>1, <2>3 DEF Ranked
  <1>8. f.obj \in Objects => rank[c] <= rank[f.obj[1]]
    <2>1. f.pc = "receive" => Asked(f) = f.obj
      BY DEF Asked
    <2>2. f.obj \in Objects => f.obj[1] \in Classes
      BY DEF Objects
    <2> QED
      BY <1>5, <1>7, <2>1, <2>2
  <1> HIDE DEF c, f, p
  <1>9. \A o \in Objects : rank[o[1]] <= rank[c] => Under(rank, s, o)
    <2> SUFFICES ASSUME NEW o \in Objects, rank[o[1]] <= rank[c] PROVE Under(rank, s, o)
      OBVIOUS
    <2>1. \A x \in Objects : rank[x[1]] \in Nat
      BY DEF Objects
    <2>2. rank[c] \in Nat
      BY <1>5
    <2>3. f.obj \in Objects => rank[o[1]] <= rank[f.obj[1]]
      BY <1>8, <2>1, <2>2
    <2>4. f.pc = "realize" => f.obj \in Objects /\ rank[o[1]] < rank[f.obj[1]]
      BY <1>7, <2>1, <2>2
    <2>5. \A j \in 1..Len(s) : s[j].pc = "realize" => s[j].obj \in Objects
      BY BuildsAreOfClasses
    <2> QED
      BY <1>1, <2>3, <2>4, <2>5, UnderTop
  <1>10. ClassOf(c) \in Objects /\ Under(rank, s, ClassOf(c))
    <2>1. ClassOf(c) \in Objects /\ ClassOf(c)[1] = c /\ rank[c] \in Nat
      BY <1>5 DEF ClassOf, Objects, Kinds
    <2>2. rank[ClassOf(c)[1]] <= rank[c]
      BY <2>1
    <2> QED
      BY <1>9, <2>1, <2>2
  <1>11. i \in FrameSet /\ i.pc = "initialize" /\ i.obj = ClassOf(c) /\ SafeFrame(g2h, i)
    <2>1. i \in FrameSet /\ i.pc = "initialize" /\ i.obj = ClassOf(c)
      BY <1>10 DEF Frame, FrameSet, Waiting, Values, Keys
    <2> HIDE DEF i
    <2> QED
      BY <2>1 DEF SafeFrame
  <1>12. \/ Touch[c] = None /\ stack' = [stack EXCEPT ![t] = q \o <<>>]
         \/ Touch[c] # None /\ stack' = [stack EXCEPT ![t] = q \o <<m, e>>]
    BY Zenon DEF BeginInitialize, Message, c, p, f
  <1> HIDE DEF i
  <1>13. /\ q \in Seq(FrameSet) /\ SafeStack(rank, g2h, q)
         /\ \A o : Under(rank, s, o) => Under(rank, q, o)
    BY <1>1, <1>10, <1>11, SafePush
  <1> HIDE DEF q
  <1>14. CASE Touch[c] = None
    <2>1. q \o <<>> = q
      BY <1>13, ConcatEmptySeq
    <2>2. stack'[t] = q
      BY <1>12, <1>14, <2>1 DEF IInv, StacksInv
    <2> QED
      BY <1>6, <1>13, <2>2
  <1>15. CASE Touch[c] # None
    <2>1. Touch[c] \in Objects /\ rank[Touch[c][1]] <= rank[c] /\ Known(g2h, Touch[c])
      BY <1>5, <1>15, TouchedIsKnown
    <2>2. None \notin Keys
      BY ShadowAssumption DEF Keys
    <2>3. /\ m \in FrameSet /\ m.pc = "receive" /\ m.obj = Touch[c] /\ SafeFrame(g2h, m)
          /\ e \in FrameSet /\ e.pc = "lookup" /\ e.obj = Touch[c] /\ SafeFrame(g2h, e)
      BY <2>1, <2>2 DEF Frame, FrameSet, SafeFrame, Waiting, Callee, Values, Keys
    <2> HIDE DEF m, e
    <2>4. Under(rank, q, Touch[c])
      BY <1>9, <1>13, <2>1
    <2>5. /\ Append(q, m) \in Seq(FrameSet) /\ SafeStack(rank, g2h, Append(q, m))
          /\ Under(rank, Append(q, m), Touch[c])
      BY <1>13, <2>3, <2>4, SafePush
    <2>6. SafeStack(rank, g2h, Append(Append(q, m), e))
      BY <2>3, <2>5, SafePush
    <2>7. q \o <<m, e>> = Append(Append(q, m), e)
      BY <1>13, <2>3, PushedTwo
    <2>8. stack' = [stack EXCEPT ![t] = Append(Append(q, m), e)]
      BY <1>12, <1>15, <2>7
    <2>9. stack'[t] = Append(Append(q, m), e)
      BY <2>8 DEF IInv, StacksInv
    <2> QED
      BY <1>6, <2>6, <2>9
  <1> QED
    BY <1>14, <1>15

(* One lemma per action: the stack of the thread stays safe, and the       *)
(* process goes on.                                                        *)
SafeAfter(rank, t) == SafeStack(rank, g2h', stack'[t]) /\ crash' = "no"

LEMMA ReturnUnchanged ==
    ASSUME IInv, NEW rank, NEW t \in Threads, SafeStack(rank, g2h, stack[t]), stack[t] # <<>>,
           NEW v \in Values \ Keys, Return(t, v), UNCHANGED g2h
    PROVE  SafeStack(rank, g2h', stack'[t])
  <1>1. Grows(g2h, g2h')
    BY DEF Grows
  <1>2. ASSUME NEW i \in 1..(Len(stack[t]) - 1), stack[t][i].pc = "realize"
        PROVE  g2h'[ClassOf(stack[t][i].obj[1])] = None
    <2>1. i \in 1..Len(stack[t])
      BY TopFacts
    <2> QED
      BY <1>2, <2>1 DEF SafeStack, SafeFrame
  <1> QED
    BY <1>1, <1>2, SafeReturn

LEMMA SafeTop ==
    ASSUME IInv, NEW rank, NEW t \in Threads, SafeStack(rank, g2h, stack[t]), stack[t] # <<>>
    PROVE  SafeFrame(g2h, Top(t))
  <1>1. Len(stack[t]) \in 1..Len(stack[t]) /\ Top(t) = stack[t][Len(stack[t])]
    BY TopFacts
  <1> QED
    BY <1>1 DEF SafeStack

LEMMA PairsAreNoKeys ==
    ASSUME NEW p \in Pairs
    PROVE  p \in Values \ Keys /\ p # None
  BY ShadowAssumption DEF Values, Keys, Objects, Pairs

LEMMA LookupSafe ==
    ASSUME IInv, NEW rank, NEW t \in Threads, SafeStack(rank, g2h, stack[t]), crash = "no", Lookup(t)
    PROVE  SafeAfter(rank, t)
  <1> DEFINE o == Top(t).obj
  <1>1. stack[t] # <<>> /\ Top(t).pc = "lookup" /\ UNCHANGED <<g2h, crash>>
    BY DEF Lookup, At, tables
  <1>2. o \in Keys /\ Known(g2h, o)
    BY <1>1, TopFacts, SafeTop DEF FrameOK, SafeFrame
  <1>3. CASE g2h[o] # None
    <2>1. Return(t, g2h[o]) /\ g2h[o] \in Pairs
      BY <1>2, <1>3 DEF Lookup, IInv, TablesType
    <2> QED
      BY <1>1, <2>1, PairsAreNoKeys, ReturnUnchanged DEF SafeAfter
  <1>4. CASE g2h[o] = None
    <2>1. Continue(t, "static", None) /\ None \in Values /\ "static" \in Callee \cup Waiting
      BY <1>4 DEF Lookup, Values, Callee
    <2>2. \A f \in FrameSet : f.pc = "static" /\ f.obj = o /\ f.val = None => SafeFrame(g2h, f)
      BY <1>2, <1>4 DEF SafeFrame
    <2> QED
      BY <1>1, <2>1, <2>2, SafeContinue DEF SafeAfter
  <1> QED
    BY <1>3, <1>4

(* Nothing was published since the first table was read, so the second one *)
(* has the class: xl_class_from_guest never gives a class of the guest's   *)
(* back for a host class.                                                  *)
LEMMA LookupStaticSafe ==
    ASSUME IInv, NEW rank, NEW t \in Threads, SafeStack(rank, g2h, stack[t]), crash = "no", LookupStatic(t)
    PROVE  SafeAfter(rank, t)
  <1> DEFINE o == Top(t).obj
  <1>1. stack[t] # <<>> /\ Top(t).pc = "static" /\ UNCHANGED <<g2h, crash>>
    BY DEF LookupStatic, At, tables
  <1>2. Known(g2h, o) /\ g2h[o] = None
    BY <1>1, SafeTop DEF SafeFrame
  <1>3. o \in unbuilt /\ o \in Static \X Kinds
    BY <1>2 DEF Known, IInv, TablesInv
  <1>4. Continue(t, "lock", None) /\ None \in Values /\ "lock" \in Callee \cup Waiting
    BY <1>3 DEF LookupStatic, Values, Callee
  <1>5. Super[o[1]] # None => ClassOf(Super[o[1]]) \in Static \X Kinds
    BY <1>3, ShadowAssumption DEF ClassOf, Kinds
  <1>6. \A f \in FrameSet : f.pc = "lock" /\ f.obj = o /\ f.val = None => SafeFrame(g2h, f)
    BY <1>5 DEF SafeFrame, Known
  <1> QED
    BY <1>1, <1>4, <1>6, SafeContinue DEF SafeAfter

LEMMA BuildLockSafe ==
    ASSUME IInv, NEW rank, NEW t \in Threads, SafeStack(rank, g2h, stack[t]), crash = "no", xl_build_lock(t)
    PROVE  SafeAfter(rank, t)
  <1> DEFINE o == Top(t).obj
             shadow == g2h[ClassOf(o[1])]
  <1>1. stack[t] # <<>> /\ Top(t).pc = "lock" /\ UNCHANGED <<g2h, crash>>
    BY DEF xl_build_lock, At, tables
  <1>2. o \in Objects /\ SafeFrame(g2h, Top(t))
    BY <1>1, TopFacts, SafeTop DEF FrameOK
  <1>3. CASE shadow # None
    <2>1. PICK c \in Classes, k \in Kinds : o = <<c, k>>
      BY <1>2 DEF Objects
    <2>2. o[1] = c /\ o[2] = k
      BY <2>1
    <2>3. g2h[<<c, k>>] = <<shadow[1], k>> /\ g2h[<<c, k>>] \in Pairs
      BY <1>3, <2>2, ShadowPair
    <2>4. Return(t, <<shadow[1], k>>)
      BY <1>3, <2>2 DEF xl_build_lock
    <2> QED
      BY <1>1, <2>3, <2>4, PairsAreNoKeys, ReturnUnchanged DEF SafeAfter
  <1>4. CASE shadow = None
    <2>1. Continue(t, "super", None) /\ None \in Values /\ "super" \in Callee \cup Waiting
      BY <1>4 DEF xl_build_lock, Values, Callee, Building
    <2>2. \A f \in FrameSet : f.pc = "super" /\ f.obj = o /\ f.val = None => SafeFrame(g2h, f)
      BY <1>1, <1>2, <1>4 DEF SafeFrame
    <2> QED
      BY <1>1, <2>1, <2>2, SafeContinue DEF SafeAfter
  <1> QED
    BY <1>3, <1>4

LEMMA BuildSuperSafe ==
    ASSUME IInv, NEW rank \in [Classes -> Nat], Ranked(rank), NEW t \in Threads,
           SafeStack(rank, g2h, stack[t]), crash = "no", BuildSuper(t)
    PROVE  SafeAfter(rank, t)
  <1> DEFINE o == Top(t).obj
             s == Super[o[1]]
             e == Frame("lookup", ClassOf(s))
  <1>1. stack[t] # <<>> /\ Top(t).pc = "super" /\ UNCHANGED <<g2h, crash>>
    BY DEF BuildSuper, At, tables
  <1>2. o \in Objects /\ o[1] \in Classes /\ Top(t).val = None
    BY <1>1, TopFacts DEF FrameOK, Building, Objects
  <1>3. g2h[ClassOf(o[1])] = None /\ (s # None => Known(g2h, ClassOf(s)))
    BY <1>1, SafeTop DEF SafeFrame
  <1>4. None \notin Keys
    BY ShadowAssumption DEF Keys
  <1>5. \A f \in FrameSet : f.pc = "realize" /\ f.obj = o /\ f.val = None => SafeFrame(g2h, f)
    BY <1>3, <1>4 DEF SafeFrame
  <1>6. CASE s = None
    <2>1. Continue(t, "realize", None) /\ None \in Values /\ "realize" \in Callee \cup Waiting
      BY <1>6 DEF BuildSuper, Values, Waiting
    <2> QED
      BY <1>1, <1>5, <2>1, SafeContinue DEF SafeAfter
  <1>7. CASE s # None
    <2>1. CallFrom(t, "realize", e)
      BY <1>7 DEF BuildSuper
    <2>2. s \in Classes /\ ClassOf(s) \in Objects /\ ClassOf(s)[1] = s
      BY <1>2, <1>7, ShadowAssumption DEF Objects, ClassOf, Kinds
    <2>3. e \in FrameSet /\ e.pc = "lookup" /\ e.obj = ClassOf(s)
      BY <2>2 DEF Frame, FrameSet, Callee, Values, Keys
    <2> HIDE DEF e
    <2>4. SafeFrame(g2h, e)
      BY <1>3, <1>7, <2>3 DEF SafeFrame
    <2>5. rank[s] < rank[o[1]] /\ rank[s] <= rank[o[1]]
      BY <1>2, <1>7, <2>2 DEF Ranked
    <2> HIDE DEF s, o
    <2> QED
      BY <1>1, <1>2, <1>5, <2>1, <2>2, <2>3, <2>4, <2>5, SafeCall DEF SafeAfter, o
  <1> QED
    BY <1>6, <1>7

LEMMA BuildRealizeSafe ==
    ASSUME IInv, NEW rank \in [Classes -> Nat], Ranked(rank), NEW t \in Threads,
           SafeStack(rank, g2h, stack[t]), crash = "no", BuildRealize(t)
    PROVE  SafeAfter(rank, t)
  <1> DEFINE v == Top(t).val
  <1>1. stack[t] # <<>> /\ Top(t).pc = "realize"
    BY DEF BuildRealize, At
  <1>2. SafeFrame(g2h, Top(t)) /\ v \in Values
    BY <1>1, TopFacts, SafeTop DEF FrameSet
  <1>3. v \notin Keys
    BY <1>1, <1>2 DEF SafeFrame
  <1>4. CASE Continue(t, "allocate", v) /\ UNCHANGED <<tables, host, init, start, seen, crash>>
    <2>1. UNCHANGED <<g2h, crash>> /\ "allocate" \in Callee \cup Waiting
      BY <1>4 DEF tables, Callee, Building
    <2>2. \A f \in FrameSet : f.pc = "allocate" /\ f.obj = Top(t).obj /\ f.val = v => SafeFrame(g2h, f)
      BY <1>1, <1>2 DEF SafeFrame
    <2> QED
      BY <1>1, <1>2, <1>4, <2>1, <2>2, SafeContinue DEF SafeAfter
  <1>5. CASE v \in Pairs /\ BeginInitialize(t, v)
    BY <1>1, <1>5, SafeInitialize DEF SafeAfter
  <1> QED
    BY <1>3, <1>4, <1>5 DEF BuildRealize

LEMMA ReceiveSafe ==
    ASSUME IInv, NEW rank \in [Classes -> Nat], Ranked(rank), NEW t \in Threads,
           SafeStack(rank, g2h, stack[t]), crash = "no", Receive(t)
    PROVE  SafeAfter(rank, t)
  <1> DEFINE v == Top(t).val
  <1>1. stack[t] # <<>> /\ Top(t).pc = "receive"
    BY DEF Receive, At
  <1>2. v \notin Keys
    BY <1>1, SafeTop DEF SafeFrame
  <1>3. CASE v \in Pairs /\ Return(t, v) /\ UNCHANGED <<tables, host, init, start, seen, crash>>
    <2>1. UNCHANGED <<g2h, crash>>
      BY <1>3 DEF tables
    <2> QED
      BY <1>1, <1>3, <2>1, PairsAreNoKeys, ReturnUnchanged DEF SafeAfter
  <1>4. CASE v \in Pairs /\ BeginInitialize(t, v)
    BY <1>1, <1>4, SafeInitialize DEF SafeAfter
  <1> QED
    BY <1>2, <1>3, <1>4 DEF Receive

(* No class of the name is registered: it would have been published, as    *)
(* the only thread is not between the two.                                 *)
LEMMA BuildAllocateSafe ==
    ASSUME IInv, NEW rank, NEW t \in Threads, \A u \in Threads : u = t,
           SafeStack(rank, g2h, stack[t]), crash = "no", BuildAllocate(t)
    PROVE  SafeAfter(rank, t)
  <1> DEFINE c == Top(t).obj[1]
  <1>1. stack[t] # <<>> /\ Top(t).pc = "allocate" /\ ~ At(t, "publish")
    BY DEF BuildAllocate, At
  <1>2. g2h[ClassOf(c)] = None
    BY <1>1, SafeTop DEF SafeFrame
  <1>3. ASSUME NEW h \in reg, hname[h] = c PROVE FALSE
    <2>1. h2g[ClassOf(h)] # None /\ ClassOf(h) \in Pairs
      BY <1>1 DEF IInv, RegisteredInv, TablesType, ClassOf, Pairs, Kinds
    <2>2. h2g[ClassOf(h)] \in Objects /\ g2h[h2g[ClassOf(h)]] = ClassOf(h)
      BY <2>1 DEF IInv, TablesType, TablesInv
    <2>3. PICK d \in Classes, k \in Kinds : h2g[ClassOf(h)] = <<d, k>>
      BY <2>2 DEF Objects
    <2>4. g2h[<<d, k>>] = ClassOf(h) /\ ClassOf(h) # None /\ ClassOf(h)[1] = h
      BY <2>1, <2>2, <2>3, ShadowAssumption DEF ClassOf
    <2>5. hname[h] = d
      BY <2>4 DEF IInv, TablesInv
    <2>6. g2h[ClassOf(d)] # None
      <3>1. g2h[ClassOf(d)] = None <=> g2h[MetaOf(d)] = None
        BY DEF IInv, TablesInv
      <3>2. k = "class" \/ k = "meta"
        BY DEF Kinds
      <3> QED
        BY <2>4, <3>1, <3>2 DEF ClassOf, MetaOf
    <2> QED
      BY <1>2, <1>3, <2>5, <2>6
  <1>4. PICK h \in Hosts : Continue(t, "register", ClassOf(h)) /\ UNCHANGED <<g2h, crash>>
    BY <1>3 DEF BuildAllocate, tables
  <1> DEFINE v == ClassOf(h)
  <1>5. v \in Values /\ "register" \in Callee \cup Waiting
    BY DEF ClassOf, Values, Pairs, Kinds, Callee, Building
  <1>6. Continue(t, "register", v) /\ UNCHANGED <<g2h, crash>>
    BY <1>4
  <1> HIDE DEF v
  <1>7. \A f \in FrameSet : f.pc = "register" /\ f.obj = Top(t).obj /\ f.val = v => SafeFrame(g2h, f)
    BY DEF SafeFrame
  <1>8. SafeStack(rank, g2h', stack'[t])
    <2>1. SafeStack(rank, g2h, stack[t]) /\ IInv /\ t \in Threads
      OBVIOUS
    <2> QED
      BY ONLY <1>1, <1>5, <1>6, <1>7, <2>1, SafeContinue
  <1> QED
    BY <1>6, <1>8 DEF SafeAfter

LEMMA BuildRegisterSafe ==
    ASSUME IInv, NEW rank, NEW t \in Threads, SafeStack(rank, g2h, stack[t]), crash = "no", BuildRegister(t)
    PROVE  SafeAfter(rank, t)
  <1>1. stack[t] # <<>> /\ UNCHANGED <<g2h, crash>> /\ Continue(t, "publish", Top(t).val)
    BY DEF BuildRegister, At, tables
  <1>2. Top(t).val \in Values /\ "publish" \in Callee \cup Waiting
    BY <1>1, TopFacts DEF FrameSet, Callee, Building
  <1>3. \A f \in FrameSet : f.pc = "publish" /\ f.obj = Top(t).obj /\ f.val = Top(t).val => SafeFrame(g2h, f)
    BY DEF SafeFrame
  <1> QED
    BY <1>1, <1>2, <1>3, SafeContinue DEF SafeAfter

(* The classes under build below this one are of higher rank, so they are  *)
(* others, and still have no shadow.                                       *)
LEMMA BuildPublishSafe ==
    ASSUME IInv, NEW rank \in [Classes -> Nat], NEW t \in Threads, SafeStack(rank, g2h, stack[t]), crash = "no",
           BuildPublish(t)
    PROVE  SafeAfter(rank, t)
  <1> DEFINE s == stack[t]
             o == Top(t).obj
             h == Top(t).val[1]
  <1>1. stack[t] # <<>> /\ Top(t).pc = "publish" /\ UNCHANGED crash
    BY DEF BuildPublish, At
  <1>2. /\ o \in Objects /\ Top(t) = s[Len(s)] /\ Len(s) \in Nat /\ Len(s) > 0
    BY <1>1, TopFacts DEF FrameOK, Building
  <1>3. PICK c \in Classes, k \in Kinds : o = <<c, k>>
    BY <1>2 DEF Objects
  <1>4. o[1] = c /\ o[2] = k
    BY <1>3
  <1>5. h \in Hosts
    BY <1>1, <1>2 DEF IInv, PendingInv, PendingOK
  <1>6. /\ g2h' = [g2h EXCEPT ![ClassOf(c)] = ClassOf(h), ![MetaOf(c)] = MetaOf(h)]
        /\ Return(t, <<h, k>>)
    BY <1>4 DEF BuildPublish
  <1>7. <<h, k>> \in Values \ Keys
    BY <1>5, PairsAreNoKeys DEF Pairs
  <1>8. ASSUME NEW i \in 1..(Len(s) - 1), s[i].pc = "realize"
        PROVE  g2h'[ClassOf(s[i].obj[1])] = None
    <2> DEFINE d == s[i].obj[1]
    <2>1. i \in 1..Len(s) /\ Len(s) \in 1..Len(s) /\ i < Len(s)
      BY <1>2
    <2>2. s[i].obj \in Objects /\ d \in Classes
      BY <1>8, <2>1, BuildsAreOfClasses DEF Objects
    <2>3. rank[o[1]] < rank[d]
      BY <1>2, <1>8, <2>1 DEF SafeStack, Descends
    <2>4. d # c
      BY <1>4, <2>2, <2>3
    <2>5. g2h[ClassOf(d)] = None
      BY <1>8, <2>1 DEF SafeStack, SafeFrame
    <2> HIDE DEF d
    <2>6. ClassOf(d) # ClassOf(c) /\ ClassOf(d) # MetaOf(c) /\ ClassOf(d) \in Keys
      BY <2>2, <2>4 DEF ClassOf, MetaOf, Keys, Objects, Kinds, d
    <2>7. g2h'[ClassOf(d)] = g2h[ClassOf(d)]
      BY <1>6, <2>6 DEF IInv, TablesType
    <2> QED
      BY <2>5, <2>7 DEF d
  <1>9. Grows(g2h, g2h')
    BY BuildPublishInv
  <1> QED
    BY <1>1, <1>6, <1>7, <1>8, <1>9, SafeReturn DEF SafeAfter

LEMMA EndInitializeSafe ==
    ASSUME IInv, NEW rank, NEW t \in Threads, SafeStack(rank, g2h, stack[t]), crash = "no", EndInitialize(t)
    PROVE  SafeAfter(rank, t)
  <1> DEFINE s == stack[t]
             r == Popped(s)
  <1>1. s # <<>> /\ UNCHANGED <<g2h, crash>>
    BY DEF EndInitialize, At, tables
  <1>2. FramesOK(g2h, s) /\ s \in Seq(FrameSet) /\ Len(s) \in Nat /\ Len(s) > 0
    BY <1>1, TopFacts
  <1>3. stack'[t] = r
    <2>1. stack' = [stack EXCEPT ![t] = r]
      BY DEF EndInitialize, Below, Depth, Popped
    <2> HIDE DEF r
    <2> QED
      BY <2>1 DEF IInv, StacksInv
  <1>4. /\ r \in Seq(FrameSet) /\ Len(r) = Len(s) - 1
        /\ \A i \in 1..(Len(s) - 1) : r[i] = s[i]
    BY <1>1, <1>2, TopPopped
  <1> HIDE DEF r
  <1>5. Len(r) < Len(s) /\ \A i \in 1..Len(r) : r[i] = s[i] /\ i \in 1..Len(s)
    BY <1>2, <1>4
  <1>6. \A i \in 1..Len(r) : s[i].pc = "realize" => g2h'[ClassOf(s[i].obj[1])] = None
    BY <1>1, <1>5 DEF SafeStack, SafeFrame
  <1>7. Grows(g2h, g2h')
    BY <1>1 DEF Grows
  <1>8. SafeStack(rank, g2h', r)
    BY <1>2, <1>4, <1>5, <1>6, <1>7, SafeShorter
  <1> QED
    BY <1>1, <1>3, <1>8 DEF SafeAfter

LEMMA EnterStubSafe ==
    ASSUME IInv, NEW rank, NEW t \in Threads, crash = "no", EnterStub(t)
    PROVE  SafeAfter(rank, t)
  <1>1. stack[t] # <<>> /\ Top(t).pc = "stub" /\ UNCHANGED crash /\ Return(t, None)
    BY DEF EnterStub, At
  <1>2. stack'[t] = <<>>
    BY <1>1, Outermost, EmptyReturn
  <1> QED
    BY <1>1, <1>2, SafeEmpty DEF SafeAfter

LEMMA RegisterListedSafe ==
    ASSUME IInv, NEW rank \in [Classes -> Nat], NEW t \in Threads, SafeStack(rank, g2h, stack[t]), crash = "no",
           xl_shadow_register_listed(t)
    PROVE  SafeAfter(rank, t)
  <1>1. stack[t] # <<>> /\ Top(t).pc = "listed" /\ UNCHANGED <<g2h, crash>>
    BY DEF xl_shadow_register_listed, At, tables
  <1>2. Len(stack[t]) = 1 /\ stack[t][1] = Top(t)
    BY <1>1, Outermost
  <1>3. CASE Return(t, None)
    BY <1>1, <1>2, <1>3, EmptyReturn, SafeEmpty DEF SafeAfter
  <1>4. ASSUME NEW c \in left, CallFrom(t, "listed", Frame("lookup", ClassOf(c)))
        PROVE  SafeAfter(rank, t)
    <2> DEFINE f == [Top(t) EXCEPT !.pc = "listed"]
               e == Frame("lookup", ClassOf(c))
               r == Append(Replaced(stack[t], f), e)
    <2>1. c \in Static /\ c \in Classes
      BY ShadowAssumption DEF IInv, StartInv
    <2>2. e \in FrameSet /\ e.pc = "lookup" /\ e.obj = ClassOf(c) /\ ClassOf(c) \in Static \X Kinds
      BY <2>1 DEF Frame, FrameSet, Callee, Values, Keys, Objects, ClassOf, Kinds
    <2> HIDE DEF e
    <2>3. SafeFrame(g2h, e)
      BY <2>2 DEF SafeFrame, Known
    <2>4. Top(t) \in FrameSet /\ stack[t] \in Seq(FrameSet) /\ Top(t) = stack[t][Len(stack[t])]
      BY <1>1, TopFacts
    <2>5. f \in FrameSet /\ f.pc = "listed" /\ f.obj = Top(t).obj
      BY <2>4 DEF FrameSet, Waiting
    <2> HIDE DEF f
    <2>6. SafeFrame(g2h, f)
      BY <2>5 DEF SafeFrame
    <2> DEFINE q == Replaced(stack[t], f)
    <2>7. /\ q \in Seq(FrameSet) /\ SafeStack(rank, g2h, q)
          /\ Len(q) = Len(stack[t]) /\ q # <<>> /\ q[Len(stack[t])] = f
      BY <1>1, <2>4, <2>5, <2>6, SafeReplace
    <2>8. stack'[t] = Append(q, e)
      <3>1. stack' = [stack EXCEPT ![t] = r]
        BY <1>4 DEF CallFrom, Below, Depth, f, e, Replaced
      <3> HIDE DEF r
      <3>2. stack'[t] = r
        BY <3>1 DEF IInv, StacksInv
      <3> QED
        BY <3>2 DEF r
    <2> HIDE DEF q
    <2>9. Under(rank, q, e.obj)
      BY <1>2, <2>5, <2>7 DEF Under
    <2> QED
      BY <1>1, <2>2, <2>3, <2>7, <2>8, <2>9, SafePush DEF SafeAfter
  <1> QED
    BY <1>3, <1>4 DEF xl_shadow_register_listed

(* One frame, or a frame and the call it waits for, on an empty stack.     *)
LEMMA SafeFresh ==
    ASSUME NEW rank, NEW g, NEW f, NEW e, SafeFrame(g, f), SafeFrame(g, e), f.pc # "realize"
    PROVE  SafeStack(rank, g, <<e>>) /\ SafeStack(rank, g, <<f, e>>)
  <1> DEFINE a == <<e>>
             b == <<f, e>>
  <1>1. Len(a) = 1 /\ a[1] = e /\ Len(b) = 2 /\ b[1] = f /\ b[2] = e
    OBVIOUS
  <1> HIDE DEF a, b
  <1>2. \A i \in 1..Len(a) : i = 1
    BY <1>1
  <1>3. \A i \in 1..Len(b) : i = 1 \/ i = 2
    BY <1>1
  <1>4. Descends(rank, a) /\ Descends(rank, b)
    BY <1>1, <1>2, <1>3 DEF Descends
  <1>5. SafeStack(rank, g, a) /\ SafeStack(rank, g, b)
    BY <1>1, <1>2, <1>3, <1>4 DEF SafeStack
  <1> QED
    BY <1>5 DEF a, b

LEMMA ProgramSafe ==
    ASSUME IInv, NEW rank, NEW t \in Threads, SafeStack(rank, g2h, stack[t]), crash = "no", Program(t)
    PROVE  SafeAfter(rank, t)
  <1>1. UNCHANGED <<g2h, crash>>
    BY DEF Program, xl_bridge_init, SendMessage, xl_manual_objc_readClassPair, LookUpName,
           xl_manual_objc_realizeClassFromSwift, tables
  <1>2. None \notin Keys
    BY ShadowAssumption DEF Keys
  <1>3. CASE xl_bridge_init(t)
    <2> DEFINE e == Frame("listed", None)
    <2>1. SafeFrame(g2h, e) /\ e.pc # "realize"
      BY DEF SafeFrame, Frame
    <2>2. stack'[t] = <<e>>
      BY <1>3 DEF xl_bridge_init, IInv, StacksInv
    <2> HIDE DEF e
    <2> QED
      BY <1>1, <2>1, <2>2, SafeFresh DEF SafeAfter
  <1>4. ASSUME NEW o \in Keys, SendMessage(t, o) PROVE SafeAfter(rank, t)
    <2> DEFINE f == Frame("receive", o)
               e == Frame("lookup", o)
    <2>1. SafeFrame(g2h, f) /\ SafeFrame(g2h, e) /\ f.pc # "realize"
      BY <1>2, <1>4 DEF SafeFrame, Frame, SendMessage, Known
    <2>2. stack'[t] = <<f, e>>
      BY <1>4 DEF SendMessage, Message, IInv, StacksInv
    <2> HIDE DEF e, f
    <2> QED
      BY <1>1, <2>1, <2>2, SafeFresh DEF SafeAfter
  <1>5. ASSUME NEW c \in Classes, Handable(c)
        PROVE  SafeFrame(g2h, Frame("lock", ClassOf(c)))
    <2> DEFINE e == Frame("lock", ClassOf(c))
    <2>1. e.pc = "lock" /\ e.obj[1] = c
      BY DEF Frame, ClassOf
    <2> HIDE DEF e
    <2>2. Super[c] # None => Known(g2h, ClassOf(Super[c]))
      BY <1>5 DEF Handable, Known, ClassOf, Kinds
    <2>3. SafeFrame(g2h, e)
      BY <2>1, <2>2 DEF SafeFrame
    <2> QED
      BY <2>3 DEF e
  <1>6. ASSUME NEW c \in Classes, xl_manual_objc_readClassPair(t, c) PROVE SafeAfter(rank, t)
    <2> DEFINE e == Frame("lock", ClassOf(c))
    <2>1. SafeFrame(g2h, e) /\ e.pc # "realize"
      BY <1>5, <1>6 DEF xl_manual_objc_readClassPair, Frame
    <2>2. stack'[t] = <<e>>
      BY <1>6 DEF xl_manual_objc_readClassPair, IInv, StacksInv
    <2> HIDE DEF e
    <2> QED
      BY <1>1, <2>1, <2>2, SafeFresh DEF SafeAfter
  <1>7. ASSUME NEW p \in Stubs, xl_manual_objc_realizeClassFromSwift(t, p) PROVE SafeAfter(rank, t)
    <2> DEFINE f == Frame("stub", p)
               e == Frame("lock", ClassOf(StubOf[p]))
    <2>1. SafeFrame(g2h, e)
      <3>1. StubOf[p] \in Classes /\ Handable(StubOf[p])
        BY <1>7, ShadowAssumption DEF xl_manual_objc_realizeClassFromSwift
      <3> QED
        BY <1>5, <3>1
    <2>2. SafeFrame(g2h, f) /\ f.pc # "realize"
      BY DEF SafeFrame, Frame
    <2>3. stack'[t] = <<f, e>>
      BY <1>7 DEF xl_manual_objc_realizeClassFromSwift, IInv, StacksInv
    <2> HIDE DEF e, f
    <2> QED
      BY <1>1, <2>1, <2>2, <2>3, SafeFresh DEF SafeAfter
  <1>8. ASSUME NEW c \in Classes, LookUpName(t, c) PROVE SafeAfter(rank, t)
    BY <1>1, <1>8 DEF LookUpName, SafeAfter
  <1> QED
    BY <1>3, <1>4, <1>6, <1>7, <1>8 DEF Program

(* With one thread, if no +initialize messages a class of a higher rank    *)
(* than its own, no class in the guest's layout reaches the host runtime,  *)
(* and no build finds its class registered, wherever builds and +initialize *)
(* methods nest (xl_class_from_guest, xl_build_shadow).  With two threads  *)
(* xl_class_from_guest can miss a class that another one is publishing.    *)
THEOREM NoCrashHolds ==
    ASSUME \A t, u \in Threads : t = u, NEW rank \in [Classes -> Nat], Ranked(rank)
    PROVE  Spec => []NoCrash
  <1>1. Init => SafeInv(rank)
    BY SafeEmpty DEF Init, SafeInv
  <1>2. ASSUME IInv, SafeInv(rank), [Next]_vars PROVE SafeInv(rank)'
    <2>1. CASE UNCHANGED vars
      BY <1>2, <2>1 DEF SafeInv, vars, tables
    <2>2. ASSUME NEW t \in Threads, Step(t) \/ Program(t) PROVE SafeInv(rank)'
      <3>1. SafeStack(rank, g2h, stack[t]) /\ crash = "no" /\ \A u \in Threads : u = t
        BY <1>2 DEF SafeInv
      <3>2. ASSUME Step(t) PROVE SafeAfter(rank, t)
        BY <1>2, <3>1, <3>2, LookupSafe, LookupStaticSafe, BuildLockSafe, BuildSuperSafe, BuildRealizeSafe,
           BuildAllocateSafe, BuildRegisterSafe, BuildPublishSafe, EndInitializeSafe, ReceiveSafe,
           EnterStubSafe, RegisterListedSafe DEF Step
      <3>3. SafeAfter(rank, t)
        BY <1>2, <2>2, <3>1, <3>2, ProgramSafe
      <3> QED
        BY <3>1, <3>3 DEF SafeAfter, SafeInv
    <2> QED
      BY <1>2, <2>1, <2>2 DEF Next
  <1>3. SafeInv(rank) => NoCrash
    BY DEF SafeInv, NoCrash
  <1> QED
    BY <1>1, <1>2, <1>3, Invariance, PTL DEF Spec
============================================================================
