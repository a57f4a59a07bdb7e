--------------------------- MODULE ShadowClasses ---------------------------
(***************************************************************************)
(* The shadow classes of runtime/swift_classes.m.  A class that keeps the  *)
(* guest's (arm64) layout is stood for in the host runtime by a shadow, an *)
(* ordinary host class pair.  Shadows are built on demand, one at a time   *)
(* under the recursive xl_build_lock, and found through two tables that    *)
(* are read and written under a spin lock of their own.                    *)
(*                                                                         *)
(* Building a shadow sends a message to its superclass, which runs that    *)
(* class's +initialize the first time: guest code, on top of the build and *)
(* with the lock held, that can send messages to classes in turn.  So a    *)
(* thread has a stack of frames, and another thread can be anywhere while  *)
(* it runs.                                                                *)
(***************************************************************************)
EXTENDS Naturals, Sequences

CONSTANTS
    Threads,
    Classes,  \* guest class objects, each with a metaclass
    Static,   \* those of xl_swift_static_classes; the others are handed
              \* over by the Swift runtime
    Listed,   \* those of xl_swift_listed_classes
    Super,    \* Super[c]: the guest superclass, None when it is the host's
    Touch,    \* Touch[c]: the class object the +initialize of c messages
    Stubs,    \* class stubs the Swift runtime may replace
    StubOf,   \* StubOf[p]: the class that replaces stub p
    Hosts,    \* class pairs objc_allocateClassPair may make
    None

Kinds == {"class", "meta"}
Objects == Classes \X Kinds
Pairs == Hosts \X Kinds
Keys == Objects \cup Stubs

ClassOf(c) == <<c, "class">>
MetaOf(c) == <<c, "meta">>

ASSUME ShadowAssumption ==
    /\ Static \subseteq Classes /\ Listed \subseteq Static
    /\ Super \in [Classes -> Classes \cup {None}]
    /\ \A c \in Static : Super[c] # None => Super[c] \in Static
    /\ Touch \in [Classes -> Objects \cup {None}]
    /\ StubOf \in [Stubs -> Classes \ Static]
    /\ Classes \cap Hosts = {}
    /\ Stubs \cap (Objects \cup Pairs) = {}
    /\ None \notin Threads \cup Classes \cup Hosts \cup Objects \cup Pairs \cup Stubs
    /\ "no" \notin Threads /\ "done" \notin Threads

VARIABLES
    g2h,          \* xl_guest_to_host
    h2g,          \* xl_host_to_guest
    unbuilt,      \* the keys of xl_unbuilt_static
    hname,        \* the guest class a host pair was allocated (and named) for
    hsuper,       \* the superclass it was allocated with
    reg,          \* the pairs registered with the host runtime
    init,         \* +initialize of a class: "no", the thread in it, "done"
    registering,  \* the thread that registers the listed classes
    left,         \* the listed classes it has not come to yet
    stack,        \* a thread's frames in this file, the innermost one last
    seen,         \* the latest lookup of a class by name, and its answer
    crash         \* "no", or how the process ended

tables == <<g2h, h2g, unbuilt>>
host == <<hname, hsuper, reg>>
start == <<registering, left>>
vars == <<tables, host, init, start, stack, seen, crash>>

(* A frame waits for the value of the frame it called: "listed" is         *)
(* xl_shadow_register_listed; "receive" a message to a class; "initialize" *)
(* a guest +initialize; "lookup" and "static" xl_class_from_guest; "lock", *)
(* "super", "realize", "allocate", "register" and "publish"                *)
(* xl_build_shadow; "stub" _objc_realizeClassFromSwift.                    *)
Frame(pc, o) == [pc |-> pc, obj |-> o, val |-> None]

Depth(t) == Len(stack[t])
Top(t) == stack[t][Depth(t)]
At(t, pc) == stack[t] # <<>> /\ Top(t).pc = pc

(* The frames of a build that has taken xl_build_lock and not released it. *)
Building == {"super", "realize", "allocate", "register", "publish"}
Holds(t) == \E i \in 1..Depth(t) : stack[t][i].pc \in Building

(* Mutant: the set-up enters the classes that are not listed only.         *)
InitUnlistedOnly ==
    /\ g2h = [o \in Keys |-> None]
    /\ h2g = [p \in Pairs |-> None]
    /\ unbuilt = (Static \ Listed) \X Kinds
    /\ hname = [h \in Hosts |-> None]
    /\ hsuper = [h \in Hosts |-> None]
    /\ reg = {}
    /\ init = [c \in Classes |-> "no"]
    /\ registering = None
    /\ left = Listed
    /\ stack = [t \in Threads |-> <<>>]
    /\ seen = [name |-> None, got |-> None]
    /\ crash = "no"

Init ==
    /\ g2h = [o \in Keys |-> None]
    /\ h2g = [p \in Pairs |-> None]
    /\ unbuilt = Static \X Kinds
    /\ hname = [h \in Hosts |-> None]
    /\ hsuper = [h \in Hosts |-> None]
    /\ reg = {}
    /\ init = [c \in Classes |-> "no"]
    /\ registering = None
    /\ left = Listed
    /\ stack = [t \in Threads |-> <<>>]
    /\ seen = [name |-> None, got |-> None]
    /\ crash = "no"

----------------------------------------------------------------------------
(* Frames.                                                                 *)

Below(t) == SubSeq(stack[t], 1, Depth(t) - 1)

(* The innermost frame goes on at pc with value v.                         *)
Continue(t, pc, v) ==
    stack' = [stack EXCEPT ![t] = Append(Below(t), [Top(t) EXCEPT !.pc = pc, !.val = v])]

(* It goes on at pc once what it calls returns.                            *)
CallFrom(t, pc, f) ==
    stack' = [stack EXCEPT ![t] = Append(Append(Below(t), [Top(t) EXCEPT !.pc = pc]), f)]

(* It returns v to its caller.                                             *)
Return(t, v) ==
    stack' = [stack EXCEPT ![t] =
        IF Depth(t) = 1 THEN <<>>
        ELSE Append(SubSeq(@, 1, Depth(t) - 2), [@[Depth(t) - 1] EXCEPT !.val = v])]

Die(how) ==
    /\ crash' = how
    /\ UNCHANGED <<tables, host, init, start, stack, seen>>

(* A message to a class: its class is looked up first (xl_class_of).       *)
Message(o) == <<Frame("receive", o), Frame("lookup", o)>>

----------------------------------------------------------------------------
(* xl_class_from_guest: two lookups, each under xl_table_lock.  The test   *)
(* of xl_shadows_active only saves them while both tables are empty.       *)

Lookup(t) ==
    /\ At(t, "lookup")
    /\ IF g2h[Top(t).obj] # None
         THEN Return(t, g2h[Top(t).obj])
         ELSE Continue(t, "static", None)
    /\ UNCHANGED <<tables, host, init, start, seen, crash>>

LookupStatic(t) ==
    /\ At(t, "static")
    /\ IF Top(t).obj \in unbuilt
         THEN Continue(t, "lock", None)
         ELSE Return(t, Top(t).obj)
    /\ UNCHANGED <<tables, host, init, start, seen, crash>>

----------------------------------------------------------------------------
(* xl_build_shadow, of the class whose class object or metaclass is asked  *)
(* for.                                                                    *)

(* Mutant: the mutex is not taken.                                         *)
BuildUnlocked(t) ==
    LET shadow == g2h[ClassOf(Top(t).obj[1])]
    IN  /\ At(t, "lock")
        /\ IF shadow # None
             THEN Return(t, <<shadow[1], Top(t).obj[2]>>)
             ELSE Continue(t, "super", None)
        /\ UNCHANGED <<tables, host, init, start, seen, crash>>

(* The mutex is recursive: only another thread's build keeps this one out. *)
xl_build_lock(t) ==
    LET c == Top(t).obj[1]
        k == Top(t).obj[2]
        shadow == g2h[ClassOf(c)]
    IN  /\ At(t, "lock")
        /\ \A u \in Threads \ {t} : ~ Holds(u)
        /\ IF shadow # None
             THEN Return(t, <<shadow[1], k>>)
             ELSE Continue(t, "super", None)
        /\ UNCHANGED <<tables, host, init, start, seen, crash>>

(* Mutant: a class with a superclass of its own kind becomes a root.       *)
BuildWithoutSuper(t) ==
    /\ At(t, "super")
    /\ Continue(t, "realize", None)
    /\ UNCHANGED <<tables, host, init, start, seen, crash>>

BuildSuper(t) ==
    LET s == Super[Top(t).obj[1]]
    IN  /\ At(t, "super")
        /\ IF s = None
             THEN Continue(t, "realize", None)
             ELSE CallFrom(t, "realize", Frame("lookup", ClassOf(s)))
        /\ UNCHANGED <<tables, host, init, start, seen, crash>>

(* The innermost frame sends a message to the shadow p.  The host runtime  *)
(* runs +initialize before the first message to a class gets through, and  *)
(* other threads' messages wait for it.                                    *)
BeginInitialize(t, p) ==
    LET c == hname[p[1]]
        touched == Touch[c]
    IN  /\ init[c] = "no"
        /\ Super[c] # None => init[Super[c]] \in {t, "done"}
        /\ init' = [init EXCEPT ![c] = t]
        /\ stack' = [stack EXCEPT ![t] =
               Append(@, Frame("initialize", ClassOf(c)))
                   \o (IF touched = None THEN <<>> ELSE Message(touched))]
        /\ UNCHANGED <<tables, host, start, seen, crash>>

Initialized(t, p) == init[hname[p[1]]] \in {t, "done"}

EndInitialize(t) ==
    /\ At(t, "initialize")
    /\ init' = [init EXCEPT ![Top(t).obj[1]] = "done"]
    /\ stack' = [stack EXCEPT ![t] = Below(t)]
    /\ UNCHANGED <<tables, host, start, seen, crash>>

(* The message to the superclass.  A class object in the guest's layout    *)
(* that reaches the host runtime faults there.                             *)
BuildRealize(t) ==
    LET v == Top(t).val
    IN  /\ At(t, "realize")
        /\ \/ /\ v = None \/ (v \in Pairs /\ Initialized(t, v))
              /\ Continue(t, "allocate", v)
              /\ UNCHANGED <<tables, host, init, start, seen, crash>>
           \/ v \in Pairs /\ BeginInitialize(t, v)
           \/ v \in Keys /\ Die("fault")

(* objc_allocateClassPair answers nil when a class of the name exists,     *)
(* which ends the process; a pair it allocates is not found by name yet.   *)
BuildAllocate(t) ==
    LET c == Top(t).obj[1]
        taken == \E h \in reg : hname[h] = c
    IN  /\ At(t, "allocate")
        /\ \/ taken /\ Die("abort")
           \/ /\ ~ taken
              /\ \E h \in Hosts :
                     /\ hname[h] = None
                     /\ hname' = [hname EXCEPT ![h] = c]
                     /\ hsuper' = [hsuper EXCEPT ![h] = Top(t).val]
                     /\ Continue(t, "register", ClassOf(h))
              /\ UNCHANGED <<tables, reg, init, start, seen, crash>>

(* Methods are added, and the class is registered: found by name from now. *)
BuildRegister(t) ==
    /\ At(t, "register")
    /\ reg' = reg \cup {Top(t).val[1]}
    /\ Continue(t, "publish", Top(t).val)
    /\ UNCHANGED <<tables, hname, hsuper, init, start, seen, crash>>

(* Mutant: the way back is not entered.                                    *)
PublishOneWay(t) ==
    LET c == Top(t).obj[1]
        h == Top(t).val[1]
    IN  /\ At(t, "publish")
        /\ g2h' = [g2h EXCEPT ![ClassOf(c)] = ClassOf(h), ![MetaOf(c)] = MetaOf(h)]
        /\ unbuilt' = unbuilt \ {ClassOf(c), MetaOf(c)}
        /\ Return(t, <<h, Top(t).obj[2]>>)
        /\ UNCHANGED <<h2g, host, init, start, seen, crash>>

(* The tables change for class and metaclass under one xl_table_lock.      *)
BuildPublish(t) ==
    LET c == Top(t).obj[1]
        k == Top(t).obj[2]
        h == Top(t).val[1]
    IN  /\ At(t, "publish")
        /\ g2h' = [g2h EXCEPT ![ClassOf(c)] = ClassOf(h), ![MetaOf(c)] = MetaOf(h)]
        /\ h2g' = [h2g EXCEPT ![ClassOf(h)] = ClassOf(c), ![MetaOf(h)] = MetaOf(c)]
        /\ unbuilt' = unbuilt \ {ClassOf(c), MetaOf(c)}
        /\ Return(t, <<h, k>>)
        /\ UNCHANGED <<host, init, start, seen, crash>>

----------------------------------------------------------------------------
(* The calls into this file.                                               *)

(* Every entry into the bridge calls xl_bridge_init: the first thread      *)
(* registers the listed classes, the others go on at once.                 *)
xl_bridge_init(t) ==
    /\ registering = None
    /\ registering' = t
    /\ stack' = [stack EXCEPT ![t] = <<Frame("listed", None)>>]
    /\ UNCHANGED <<tables, host, init, left, seen, crash>>

(* Mutant: the loop stops before the last class.                           *)
RegisterAllButOne(t) ==
    /\ At(t, "listed")
    /\ \/ /\ \A c, e \in left : c = e
          /\ Return(t, None)
          /\ UNCHANGED left
       \/ \E c, e \in left :
              /\ c # e
              /\ left' = left \ {c}
              /\ CallFrom(t, "listed", Frame("lookup", ClassOf(c)))
    /\ UNCHANGED <<tables, host, init, registering, seen, crash>>

xl_shadow_register_listed(t) ==
    /\ At(t, "listed")
    /\ \/ /\ left = {}
          /\ Return(t, None)
          /\ UNCHANGED left
       \/ \E c \in left :
              /\ left' = left \ {c}
              /\ CallFrom(t, "listed", Frame("lookup", ClassOf(c)))
    /\ UNCHANGED <<tables, host, init, registering, seen, crash>>

Idle(t) == stack[t] = <<>> /\ registering # None

(* Guest code messages a class the compiler laid out, or one the Swift     *)
(* runtime has handed over before.                                         *)
SendMessage(t, o) ==
    /\ Idle(t)
    /\ o \in Static \X Kinds \/ g2h[o] # None
    /\ stack' = [stack EXCEPT ![t] = Message(o)]
    /\ UNCHANGED <<tables, host, init, start, seen, crash>>

(* Mutant: the class of the receiver is looked up over and over.           *)
ReceiveAgain(t) ==
    /\ At(t, "receive")
    /\ \/ Top(t).val \in Pairs /\ BeginInitialize(t, Top(t).val)
       \/ /\ Top(t).val \in Keys \/ Initialized(t, Top(t).val)
          /\ CallFrom(t, "receive", Frame("lookup", Top(t).obj))
          /\ UNCHANGED <<tables, host, init, start, seen, crash>>

(* The class of the receiver is known: the message gets through.           *)
Receive(t) ==
    LET v == Top(t).val
    IN  /\ At(t, "receive")
        /\ \/ /\ v \in Pairs /\ Initialized(t, v)
              /\ Return(t, v)
              /\ UNCHANGED <<tables, host, init, start, seen, crash>>
           \/ v \in Pairs /\ BeginInitialize(t, v)
           \/ v \in Keys /\ Die("fault")

(* The Swift runtime hands a class over, after its superclass.             *)
Handable(c) == c \notin Static /\ (Super[c] # None => Super[c] \in Static \/ g2h[ClassOf(Super[c])] # None)

xl_manual_objc_readClassPair(t, c) ==
    /\ Idle(t)
    /\ Handable(c)
    /\ stack' = [stack EXCEPT ![t] = <<Frame("lock", ClassOf(c))>>]
    /\ UNCHANGED <<tables, host, init, start, seen, crash>>

xl_manual_objc_realizeClassFromSwift(t, p) ==
    /\ Idle(t)
    /\ Handable(StubOf[p])
    /\ stack' = [stack EXCEPT ![t] = <<Frame("stub", p), Frame("lock", ClassOf(StubOf[p]))>>]
    /\ UNCHANGED <<tables, host, init, start, seen, crash>>

(* The stub's address answers for the class that replaced it.              *)
EnterStub(t) ==
    /\ At(t, "stub")
    /\ g2h' = [g2h EXCEPT ![Top(t).obj] = Top(t).val]
    /\ Return(t, None)
    /\ UNCHANGED <<h2g, unbuilt, host, init, start, seen, crash>>

(* objc_getClass and the like, called by guest code, a +initialize too:    *)
(* the host finds a registered class by its name, and what it answers      *)
(* comes out through xl_class_out.                                         *)
LookUpName(t, c) ==
    LET answers == {h \in reg : hname[h] = c}
        xl_class_out(p) == IF h2g[p] # None THEN h2g[p] ELSE p
    IN  /\ Idle(t) \/ At(t, "initialize")
        /\ \/ answers = {} /\ seen' = [name |-> c, got |-> None]
           \/ \E h \in answers : seen' = [name |-> c, got |-> xl_class_out(ClassOf(h))]
        /\ UNCHANGED <<tables, host, init, start, stack, crash>>

----------------------------------------------------------------------------
Step(t) ==
    \/ Lookup(t) \/ LookupStatic(t)
    \/ xl_build_lock(t) \/ BuildSuper(t) \/ BuildRealize(t)
    \/ BuildAllocate(t) \/ BuildRegister(t) \/ BuildPublish(t)
    \/ EndInitialize(t) \/ Receive(t) \/ EnterStub(t)
    \/ xl_shadow_register_listed(t)

Program(t) ==
    \/ xl_bridge_init(t)
    \/ \E o \in Keys : SendMessage(t, o)
    \/ \E c \in Classes : xl_manual_objc_readClassPair(t, c) \/ LookUpName(t, c)
    \/ \E p \in Stubs : xl_manual_objc_realizeClassFromSwift(t, p)

Next == crash = "no" /\ \E t \in Threads : Step(t) \/ Program(t)

Spec == Init /\ [][Next]_vars

(* A thread in a call keeps running, and gets a lock it waits for in turn. *)
Running(t) == crash = "no" /\ Step(t)
FairSpec == Spec /\ \A t \in Threads : SF_vars(Running(t))

(* Classes have ranks: a superclass is of a lower rank, a +initialize      *)
(* messages no class of a higher one.  Without them a build could come to  *)
(* its own class again.  And code only has class objects that the compiler *)
(* laid out, its own class's and its superclass's.                         *)
Ranked(rank) ==
    \A c \in Classes :
        /\ Super[c] # None => rank[Super[c]] < rank[c]
        /\ Touch[c] # None =>
               /\ rank[Touch[c][1]] <= rank[c]
               /\ Touch[c][1] \in Static \cup {c, Super[c]}

----------------------------------------------------------------------------
(* The host runtime never has two classes for one guest class, although    *)
(* several threads ask for it and the lock lets a thread in twice; and the *)
(* two tables are inverse to each other: a class that crosses to the host  *)
(* and back is the class it was (xl_class_in, xl_class_out).               *)
OneShadow ==
    /\ \A g, h \in Hosts : hname[g] = hname[h] /\ g \in reg /\ h \in reg => g = h
    /\ \A o \in Objects : g2h[o] # None => h2g[g2h[o]] = o
    /\ \A p \in Pairs : h2g[p] # None => g2h[h2g[p]] = p

(* A shadow's superclass is the published shadow of the guest superclass,  *)
(* whoever built that, and in whichever order (swift_classes.m:241).       *)
SuperIsShadow ==
    \A h \in Hosts : hname[h] # None /\ Super[hname[h]] # None =>
        hsuper[h] # None /\ hsuper[h] = g2h[ClassOf(Super[hname[h]])]

(* What a table says of a class it says for good: no step takes a shadow   *)
(* back or puts another in its place, so a value read from the table stays *)
(* right after the spin lock is released.                                  *)
ShadowIsForever == [][\A o \in Keys : g2h[o] # None => g2h'[o] = g2h[o]]_vars

(* A class in the guest's layout never reaches the host runtime (3-9), and *)
(* building a shadow never finds a class of its name there (248-254).      *)
NoCrash == crash = "no"

(* The guest never gets the host's class object for a class of its own     *)
(* (7-9).                                                                  *)
NamesComeOutAsGuest == seen.got \notin Pairs

(* Once the thread that registers the listed classes has gone on, they all *)
(* have their shadows.                                                     *)
ListedAreRegistered ==
    registering # None /\ stack[registering] = <<>> =>
        \A c \in Listed : g2h[ClassOf(c)] # None

(* Every call into the bridge returns, unless the process ends.            *)
CallsReturn ==
    \A t \in Threads : stack[t] # <<>> ~> stack[t] = <<>> \/ crash # "no"
============================================================================
