------------------------------ MODULE MsgRoute ------------------------------
(***************************************************************************)
(* How a message that lifted guest code sends reaches a method: the        *)
(* handlers of objc_msgSend and objc_msgSendSuper2 and xl_route in         *)
(* runtime/objc_bridge.m, the selector bridges that xlgen generates, and   *)
(* xl_invoke in runtime/runtime.c, by which host code calls guest code.    *)
(*                                                                         *)
(* Guest and host code of a thread call each other on one stack and share  *)
(* one register state.  A message is routed to a guest method (entered by  *)
(* a tail call) or to a bridge, which sends it to the host runtime.  The   *)
(* class of a super message travels to the bridge in a thread-specific     *)
(* slot.  Looking a method up runs the +initialize of the class first:     *)
(* guest code on the registers of the message being routed.  So does       *)
(* making the shadow of a Swift class that a message is the first to meet, *)
(* which happens before xl_route saves the registers.                      *)
(***************************************************************************)
EXTENDS Naturals, Sequences

CONSTANTS
    Threads,
    MaxDepth,      \* MaxDepth[t]: bound on the frames of thread t
    Classes,
    SuperOf,       \* SuperOf[c]: class_getSuperclass
    Above,         \* Above[c]: c and its ancestors
    Initializer,   \* Initializer[c]: the guest class whose +initialize is
                   \* run for class c, None if it is host code
    Shadowed,      \* the Swift classes of the guest that need a shadow
    Sels,
    Imps,          \* the method implementations the host runtime knows
    Find,          \* Find[c][s]: the method of s in c, None if there is none
    GuestImps,     \* those of guest methods: xl_guest_imps, xl_shadow_imp
    Definer,       \* Definer[i]: the class guest method i belongs to
    Encs,
    Enc,           \* Enc[i]: the normalised type encoding of i
    Votes,         \* Votes[s][e]: the SDK declarations of s with encoding e
    Supported,     \* the <<s, e>> a bridge can be generated for
    Manual,        \* the selectors with a manual handler
    Format,        \* the selectors that format
    Variadic,      \* the selectors of xl_variadic_table
    Sends,         \* Sends[t]: the <<c, s>> that code of thread t sends
    SuperSels,     \* the selectors guest methods send to super
    NeutralClasses, NeutralSels,  \* the rules of xlate.rules
    Marshalled,    \* the methods xl_dynamic_send can call
    None

ASSUME MsgAssumption ==
    /\ MaxDepth \in [Threads -> Nat]
    /\ SuperOf \in [Classes -> Classes \cup {None}]
    /\ Above \in [Classes -> SUBSET Classes]
    /\ \A c \in Classes :
           Above[c] = {c} \cup (IF SuperOf[c] = None THEN {} ELSE Above[SuperOf[c]])
    /\ Find \in [Classes -> [Sels -> Imps \cup {None}]]
    /\ Initializer \in [Classes -> Classes \cup {None}]
    /\ Shadowed \subseteq Classes /\ GuestImps \subseteq Imps
    /\ Definer \in [GuestImps -> Classes]
    /\ Enc \in [Imps -> Encs]
    /\ Votes \in [Sels -> [Encs -> Nat]] /\ Supported \subseteq Sels \X Encs
    /\ \A s \in Sels : \E e \in Encs : \A f \in Encs : Votes[s][f] <= Votes[s][e]
    /\ Manual \subseteq Sels /\ Format \subseteq Sels
    /\ Sends \in [Threads -> SUBSET (Classes \X Sels)]
    /\ Variadic \subseteq Sels /\ SuperSels \subseteq Sels
    /\ NeutralClasses \subseteq Classes /\ NeutralSels \subseteq Sels
    /\ Marshalled \subseteq Imps
    /\ None \notin Threads \cup Classes \cup Imps \cup Sels \cup (Sels \X Encs)
    /\ "no" \notin Threads /\ "done" \notin Threads

----------------------------------------------------------------------------
(* The tables xlgen generates (EmitSelectors).  A bridge is named by the   *)
(* selector and the encoding it was generated for.                         *)

Bridges == Sels \X Encs
Sig(b) == b[2]

(* The encoding most declarations agree on.                                *)
Best(s) == CHOOSE e \in Encs : \A f \in Encs : Votes[s][f] <= Votes[s][e]

(* xl_selector_table.                                                      *)
SelBridge(s) ==
    IF /\ s \notin Variadic
       /\ Votes[s][Best(s)] > 0
       /\ s \in Manual \/ <<s, Best(s)>> \in Supported
      THEN <<s, Best(s)>> ELSE None

(* xl_selector_variant_table: a selector declared in more than one way has *)
(* a bridge for each, unless its handler is special.                       *)
VariantBridge(s, e) ==
    IF /\ SelBridge(s) # None /\ s \notin Manual \cup Format
       /\ Votes[s][e] > 0 /\ \E f \in Encs \ {e} : Votes[s][f] > 0
       /\ <<s, e>> \in Supported
      THEN <<s, e>> ELSE None

(* A method that is reached by a selector declared in more than one way.   *)
Varied(i) == \E c \in Classes, s \in Sels : Find[c][s] = i /\ VariantBridge(s, Enc[i]) # None

(* The selectors guest methods send to super are ordinary ones, declared   *)
(* in one way and not the method of another one that is not.               *)
SuperIsPlain ==
    /\ SuperSels \cap (Manual \cup Format) = {}
    /\ \A s \in SuperSels, c \in Classes : Find[c][s] # None => ~ Varied(Find[c][s])

----------------------------------------------------------------------------
VARIABLES
    stack,     \* a thread's frames of guest and host code, innermost last
    reg,       \* a thread's State: whose arguments x0-x7 hold, and x30
    superKey,  \* the thread's value of xl_super_key
    cache,     \* xl_variant_cache
    init,      \* +initialize of a class: "no", the thread in it, "done"
    built,     \* the Swift classes whose shadow is made
    crash      \* "no", or how the process ended

vars == <<stack, reg, superKey, cache, init, built, crash>>

(* Calls are named by the index their frame gets: args is the index of the *)
(* call whose arguments are in the registers, lr the index of the frame    *)
(* x30 returns to, and 0 stands for neither.                               *)
Registers == [args : Nat, lr : Nat]

(* at: "body" guest code; "class" a message that waits for a shadow;       *)
(* "build" in xl_build_shadow; "lookup" in class_getMethodImplementation;  *)
(* "store" in CFDictionarySetValue on the cache; "bridge" at the start of  *)
(* a bridge; "host" in the method it called; "called" when that is a guest *)
(* method and has run.  saved: the registers xl_route or xl_invoke keeps.  *)
Steps == {"body", "class", "build", "lookup", "store", "bridge", "host", "called"}
Frames == [at : Steps, rcv : Classes \cup {None}, sel : Sels \cup {None},
           lookup : Classes \cup {None}, sup : Classes \cup {None},
           imp : Imps \cup {None}, bridge : Bridges \cup {None},
           invoked : BOOLEAN, saved : Registers]

Depth(t) == Len(stack[t])
Top(t) == stack[t][Depth(t)]
At(t, step) == Depth(t) > 0 /\ Top(t).at = step
CanCall(t) == Depth(t) < MaxDepth[t]

NoCall == [args |-> 0, lr |-> 0]

(* Guest code that host code entered: main, a thread's start routine, a    *)
(* +initialize of c (no imp), or a method i of an object of class c.       *)
Invoked(c, i, saved) ==
    [at |-> "body", rcv |-> c, sel |-> None, lookup |-> None, sup |-> None,
     imp |-> i, bridge |-> None, invoked |-> TRUE, saved |-> saved]

(* The classes the compiler lists, and those above them, have their shadow *)
(* from the start-up on, which messaged the classes above.                 *)
Init ==
    /\ stack = [t \in Threads |-> <<Invoked(None, None, NoCall)>>]
    /\ reg = [t \in Threads |-> NoCall]
    /\ superKey = [t \in Threads |-> None]
    /\ cache = [i \in Imps |-> None]
    /\ built \in {b \in SUBSET Shadowed : \A c \in b : Above[c] \cap Shadowed \subseteq b}
    /\ init = [c \in Classes |-> IF \E b \in built : c \in Above[b] \ {b} THEN "done" ELSE "no"]
    /\ crash = "no"

----------------------------------------------------------------------------
(* Frames and registers.                                                   *)

Below(t) == SubSeq(stack[t], 1, Depth(t) - 1)
Push(t, f) == stack' = [stack EXCEPT ![t] = Append(@, f)]
Pop(t) == stack' = [stack EXCEPT ![t] = Below(t)]
Become(t, f) == stack' = [stack EXCEPT ![t] = Append(Below(t), f)]

(* The registers with which the innermost frame, guest code, makes a call. *)
Call(t) == [args |-> Depth(t) + 1, lr |-> Depth(t)]

(* A result replaces the arguments; x30 stays.                             *)
Result(r) == [r EXCEPT !.args = 0]

Die(how) ==
    /\ crash' = how
    /\ UNCHANGED <<stack, reg, superKey, cache, init, built>>

Neutralized(c, s) == Above[c] \cap NeutralClasses # {} \/ s \in NeutralSels

----------------------------------------------------------------------------
(* The handlers guest code calls.                                          *)

Message(t, c, s, lookup, sup) ==
    [at |-> "class", rcv |-> c, sel |-> s, lookup |-> lookup, sup |-> sup,
     imp |-> None, bridge |-> None, invoked |-> FALSE, saved |-> Call(t)]

(* A Swift class is met for the first time.                                *)
Unbuilt(c) == c \in Shadowed \ built

(* The handlers of the variadic selectors are host code that collects the  *)
(* arguments and runs no method of the receiver.                           *)
VariadicShim(f) == [f EXCEPT !.at = "host"]

(* Message f goes on, above the frames s and with registers r, once the    *)
(* classes it names are known: a neutralized message answers zero at once, *)
(* a variadic selector goes to its handler, the others to xl_route, which  *)
(* saves the registers.                                                    *)
Dispatch(t, s, f, r) ==
    \/ /\ Neutralized(f.lookup, f.sel)
       /\ reg' = [reg EXCEPT ![t] = Result(r)]
       /\ stack' = [stack EXCEPT ![t] = s]
    \/ /\ ~ Neutralized(f.lookup, f.sel) /\ f.sup = None /\ f.sel \in Variadic
       /\ reg' = [reg EXCEPT ![t] = r]
       /\ stack' = [stack EXCEPT ![t] = Append(s, [VariadicShim(f) EXCEPT !.saved = r])]
    \/ /\ ~ Neutralized(f.lookup, f.sel) /\ (f.sup # None \/ f.sel \notin Variadic)
       /\ reg' = [reg EXCEPT ![t] = r]
       /\ stack' = [stack EXCEPT ![t] = Append(s, [f EXCEPT !.at = "lookup", !.saved = r])]

(* The class that is asked for, c, may first need a shadow.                *)
Send(t, c, f) ==
    /\ At(t, "body") /\ CanCall(t)
    /\ \/ /\ Unbuilt(c)
          /\ reg' = [reg EXCEPT ![t] = Call(t)]
          /\ Push(t, f)
       \/ ~ Unbuilt(c) /\ Dispatch(t, stack[t], f, Call(t))
    /\ UNCHANGED <<superKey, cache, init, built, crash>>

xl_h_objc_msgSend(t, c, s) == <<c, s>> \in Sends[t] /\ Send(t, c, Message(t, c, s, c, None))

(* A method of the guest messages super: the receiver is its own, the      *)
(* lookup starts above the class the method belongs to.                    *)
xl_h_objc_msgSendSuper2(t, s) ==
    LET current == Definer[Top(t).imp]
        lookup == SuperOf[current]
    IN  /\ At(t, "body") /\ Top(t).imp \in GuestImps /\ lookup # None
        /\ Send(t, current, Message(t, Top(t).rcv, s, lookup, current))

(* Swift code of the guest calls a method of a Swift class directly.       *)
SwiftCall(t, c, s) ==
    /\ At(t, "body") /\ CanCall(t)
    /\ c \in Shadowed /\ Find[c][s] \in GuestImps /\ Definer[Find[c][s]] \in Shadowed
    /\ reg' = [reg EXCEPT ![t] = Call(t)]
    /\ Push(t, [Message(t, c, s, c, None) EXCEPT !.at = "body", !.imp = Find[c][s]])
    /\ UNCHANGED <<superKey, cache, init, built, crash>>

----------------------------------------------------------------------------
(* xl_class_of, xl_class_in and xl_build_shadow.                           *)

Initialized(t, c) == \A a \in Above[c] : init[a] \in {t, "done"}

(* The class the innermost frame asks for: the receiver's, the sender's of *)
(* a super message, or the one above the class whose shadow is made.       *)
Asked(t) ==
    IF At(t, "build") THEN SuperOf[Top(t).rcv]
    ELSE IF Top(t).sup = None THEN Top(t).rcv ELSE Top(t).sup

Building(t) == \E i \in 1..Depth(t) : stack[t][i].at = "build"

(* One thread at a time makes shadows, in nested calls (xl_build_lock).    *)
BeginBuild(t) ==
    /\ At(t, "class") \/ At(t, "build")
    /\ Unbuilt(Asked(t)) /\ CanCall(t)
    /\ \A u \in Threads \ {t} : ~ Building(u)
    /\ Push(t, [at |-> "build", rcv |-> Asked(t), sel |-> None, lookup |-> None, sup |-> None,
                imp |-> None, bridge |-> None, invoked |-> FALSE, saved |-> reg[t]])
    /\ UNCHANGED <<reg, superKey, cache, init, built, crash>>

(* The shadow is made of one of the class above, which has been messaged   *)
(* and so is initialized.  It cannot be made twice: the host runtime takes *)
(* a name once.                                                            *)
xl_build_shadow(t) ==
    /\ At(t, "build")
    /\ Asked(t) # None => ~ Unbuilt(Asked(t)) /\ Initialized(t, Asked(t))
    /\ IF Unbuilt(Top(t).rcv)
         THEN /\ built' = built \cup {Top(t).rcv}
              /\ Pop(t)
              /\ UNCHANGED <<reg, superKey, cache, init, crash>>
         ELSE Die("taken")

(* The class is known: the message goes on with the registers as they are  *)
(* now.  A super message reads its selector only here.                     *)
Resume(t) ==
    /\ At(t, "class") /\ ~ Unbuilt(Asked(t))
    /\ \E s \in Sels :
           /\ Top(t).sup = None \/ reg[t].args = Depth(t) => s = Top(t).sel
           /\ Dispatch(t, Below(t), [Top(t) EXCEPT !.sel = s], reg[t])
    /\ UNCHANGED <<superKey, cache, init, built, crash>>

----------------------------------------------------------------------------
(* xl_route.                                                               *)

(* The host runtime initializes a class when a method is looked up in it,  *)
(* or when the class above a new shadow is messaged: the superclass first. *)
(* It makes the other threads that message the class wait.                 *)
BeginInitialize(t, c) ==
    /\ \/ At(t, "lookup") /\ c \in Above[Top(t).lookup]
       \/ At(t, "build") /\ Asked(t) # None /\ ~ Unbuilt(Asked(t)) /\ c \in Above[Asked(t)]
    /\ init[c] = "no"
    /\ SuperOf[c] # None => init[SuperOf[c]] \in {t, "done"}
    /\ \/ /\ Initializer[c] = None
          /\ init' = [init EXCEPT ![c] = "done"]
          /\ UNCHANGED <<stack, reg>>
       \/ /\ Initializer[c] # None /\ CanCall(t)
          /\ init' = [init EXCEPT ![c] = t]
          /\ reg' = [reg EXCEPT ![t] = [args |-> Depth(t) + 1, lr |-> 0]]
          /\ Push(t, Invoked(c, None, reg[t]))
    /\ UNCHANGED <<superKey, cache, built, crash>>

(* Another thread changes the cache, which nothing protects: an access to  *)
(* it may fault.                                                           *)
Torn(t) == \E u \in Threads \ {t} : At(u, "store")

(* Mutant: the registers are left as the +initialize left them.            *)
GoesUnsaved(t, step, imp, bridge) ==
    /\ At(t, "lookup") /\ Initialized(t, Top(t).lookup)
    /\ Become(t, [Top(t) EXCEPT !.at = step, !.imp = imp, !.bridge = bridge,
                                !.saved = reg[t]])
    /\ UNCHANGED <<reg, init, built, crash>>

(* The method is found: the registers of the message are put back, and its *)
(* frame goes on at the step given.                                        *)
Goes(t, step, imp, bridge) ==
    /\ At(t, "lookup") /\ Initialized(t, Top(t).lookup)
    /\ reg' = [reg EXCEPT ![t] = Top(t).saved]
    /\ Become(t, [Top(t) EXCEPT !.at = step, !.imp = imp, !.bridge = bridge])
    /\ UNCHANGED <<init, built, crash>>

Found(t) == Find[Top(t).lookup][Top(t).sel]

(* Mutant: the voted bridge serves every class.                            *)
VotedOnly(t) == None

(* The bridge for the encoding of the method found.                        *)
Variant(t) ==
    IF Found(t) = None THEN None ELSE VariantBridge(Top(t).sel, Enc[Found(t)])
Cached(t) == IF Found(t) = None THEN None ELSE cache[Found(t)]

(* A guest method is entered by a tail call.                               *)
RouteToGuest(t) ==
    /\ At(t, "lookup") /\ Found(t) \in GuestImps
    /\ Goes(t, "body", Found(t), None)
    /\ UNCHANGED <<superKey, cache>>

RouteCached(t) ==
    /\ At(t, "lookup") /\ Found(t) \notin GuestImps /\ Cached(t) # None
    /\ Goes(t, "bridge", None, Cached(t))
    /\ UNCHANGED <<superKey, cache>>

RouteVariant(t) ==
    /\ At(t, "lookup") /\ Found(t) \notin GuestImps
    /\ Cached(t) = None /\ Variant(t) # None
    /\ Goes(t, "store", None, Variant(t))
    /\ UNCHANGED <<superKey, cache>>

StoreVariant(t) ==
    /\ At(t, "store")
    /\ cache' = [cache EXCEPT ![Found(t)] = Top(t).bridge]
    /\ Become(t, [Top(t) EXCEPT !.at = "bridge"])
    /\ UNCHANGED <<reg, superKey, init, built, crash>>

(* Mutant: a super message is routed like a plain one.                     *)
RouteSelectorPlain(t) ==
    LET b == SelBridge(Top(t).sel)
    IN  /\ At(t, "lookup") /\ Found(t) \notin GuestImps
        /\ Cached(t) = None /\ Variant(t) = None /\ b # None
        /\ Goes(t, "bridge", None, b)
        /\ UNCHANGED <<superKey, cache>>

RouteSelector(t) ==
    LET b == SelBridge(Top(t).sel)
        sup == Top(t).sup
    IN  /\ At(t, "lookup") /\ Found(t) \notin GuestImps
        /\ Cached(t) = None /\ Variant(t) = None /\ b # None
        /\ superKey' = [superKey EXCEPT ![t] = IF sup = None THEN @ ELSE sup]
        /\ Goes(t, "bridge", None, b)
        /\ UNCHANGED cache

Unrouted(t) ==
    /\ At(t, "lookup") /\ Initialized(t, Top(t).lookup) /\ Found(t) \notin GuestImps
    /\ Cached(t) = None /\ Variant(t) = None /\ SelBridge(Top(t).sel) = None

(* No bridge.  In collect mode, a file that may come and go, the answer is *)
(* zero; else the message is marshalled from the encoding of its method.   *)
RouteCollected(t) ==
    /\ Unrouted(t)
    /\ reg' = [reg EXCEPT ![t] = Result(Top(t).saved)]
    /\ Pop(t)
    /\ UNCHANGED <<superKey, cache, init, built, crash>>

xl_dynamic_send(t) ==
    /\ Unrouted(t) /\ Top(t).sup = None /\ Found(t) \in Marshalled
    /\ Goes(t, "host", Found(t), None)
    /\ UNCHANGED <<superKey, cache>>

xl_fault(t) ==
    \/ /\ Unrouted(t)
       /\ Top(t).sup # None \/ Found(t) \notin Marshalled
       /\ Die("fault")
    \/ /\ At(t, "lookup") /\ Initialized(t, Top(t).lookup) /\ Found(t) \notin GuestImps
       /\ Torn(t)
       /\ Die("torn")
    \/ At(t, "store") /\ Torn(t) /\ Die("torn")

----------------------------------------------------------------------------
(* The bridges (EmitBridge) and the host code they call.                   *)

(* Mutant: the bridge reads the slot and does not empty it.                *)
BridgePeeks(t) ==
    LET sel == Top(t).sel
        super_class == IF sel \in Manual THEN None ELSE superKey[t]
        from == IF super_class # None /\ sel \notin Format THEN SuperOf[super_class] ELSE Top(t).rcv
    IN  /\ At(t, "bridge")
        /\ Become(t, [Top(t) EXCEPT !.at = "host", !.imp = Find[from][sel]])
        /\ UNCHANGED <<reg, superKey, cache, init, built, crash>>

(* A bridge takes the class of a super message and sends the message to    *)
(* the class above it; without one it sends the message to the receiver.   *)
(* A manual handler takes none, a format method's sends to the receiver.   *)
Bridge(t) ==
    LET sel == Top(t).sel
        super_class == IF sel \in Manual THEN None ELSE superKey[t]
        from == IF super_class # None /\ sel \notin Format THEN SuperOf[super_class] ELSE Top(t).rcv
    IN  /\ At(t, "bridge")
        /\ superKey' = [superKey EXCEPT ![t] = IF sel \in Manual THEN @ ELSE None]
        /\ Become(t, [Top(t) EXCEPT !.at = "host", !.imp = Find[from][sel]])
        /\ UNCHANGED <<reg, cache, init, built, crash>>

(* The method is a guest's: its host implementation invokes it.            *)
InvokeMethod(t) ==
    /\ At(t, "host") /\ Top(t).imp \in GuestImps /\ CanCall(t)
    /\ reg' = [reg EXCEPT ![t] = [args |-> Depth(t) + 1, lr |-> 0]]
    /\ stack' = [stack EXCEPT ![t] =
           Append(Append(Below(t), [Top(t) EXCEPT !.at = "called"]),
                  Invoked(Top(t).rcv, Top(t).imp, reg[t]))]
    /\ UNCHANGED <<superKey, cache, init, built, crash>>

(* A host method messages an object, of a class in use, whose method is a  *)
(* guest's.                                                                *)
HostCallsGuest(t, c, s) ==
    /\ At(t, "host") /\ Top(t).imp \notin GuestImps /\ CanCall(t)
    /\ Find[c][s] \in GuestImps /\ ~ Unbuilt(c) /\ Initialized(t, c)
    /\ reg' = [reg EXCEPT ![t] = [args |-> Depth(t) + 1, lr |-> 0]]
    /\ Push(t, Invoked(c, Find[c][s], reg[t]))
    /\ UNCHANGED <<superKey, cache, init, built, crash>>

(* xl_return.                                                              *)
BridgeReturns(t) ==
    /\ At(t, "called") \/ (At(t, "host") /\ Top(t).imp \notin GuestImps)
    /\ reg' = [reg EXCEPT ![t] = Result(@)]
    /\ Pop(t)
    /\ UNCHANGED <<superKey, cache, init, built, crash>>

(* Mutant: xl_invoke leaves x30 as the guest code left it.                 *)
GuestReturnsUnsaved(t) ==
    LET f == Top(t)
    IN  /\ At(t, "body") /\ Depth(t) > 1
        /\ reg' = [reg EXCEPT ![t] = Result(@)]
        /\ init' = IF f.imp = None THEN [init EXCEPT ![f.rcv] = "done"] ELSE init
        /\ Pop(t)
        /\ UNCHANGED <<superKey, cache, built, crash>>

(* The methods of a shadow are entered by xl_invoke_n, which keeps the     *)
(* argument registers of its caller, the others by xl_invoke.              *)
Keeps(f) == IF f.imp = None THEN Initializer[f.rcv] \in Shadowed ELSE Definer[f.imp] \in Shadowed

(* Mutant: xl_invoke_n leaves the argument registers as xl_invoke does.    *)
GuestReturnsResult(t) ==
    LET f == Top(t)
    IN  /\ At(t, "body") /\ Depth(t) > 1
        /\ reg' = [reg EXCEPT ![t] = [args |-> 0, lr |-> IF f.invoked THEN f.saved.lr ELSE @.lr]]
        /\ init' = IF f.imp = None THEN [init EXCEPT ![f.rcv] = "done"] ELSE init
        /\ Pop(t)
        /\ UNCHANGED <<superKey, cache, built, crash>>

(* Guest code returns, to the guest code that called it or to xl_invoke,   *)
(* which puts x30 back.  A +initialize is then over.                       *)
GuestReturns(t) ==
    LET f == Top(t)
    IN  /\ At(t, "body") /\ Depth(t) > 1
        /\ reg' = [reg EXCEPT ![t] =
               IF ~ f.invoked THEN Result(@)
               ELSE IF Keeps(f) THEN f.saved ELSE Result(f.saved)]
        /\ init' = IF f.imp = None THEN [init EXCEPT ![f.rcv] = "done"] ELSE init
        /\ Pop(t)
        /\ UNCHANGED <<superKey, cache, built, crash>>

----------------------------------------------------------------------------
Step(t) ==
    \/ \E c \in Classes, s \in Sels : xl_h_objc_msgSend(t, c, s)
    \/ \E s \in SuperSels : xl_h_objc_msgSendSuper2(t, s)
    \/ \E c \in Classes, s \in Sels : SwiftCall(t, c, s)
    \/ BeginBuild(t) \/ xl_build_shadow(t) \/ Resume(t)
    \/ \E c \in Classes : BeginInitialize(t, c)
    \/ RouteToGuest(t) \/ RouteCached(t) \/ RouteVariant(t) \/ StoreVariant(t)
    \/ RouteSelector(t) \/ RouteCollected(t) \/ xl_dynamic_send(t) \/ xl_fault(t)
    \/ Bridge(t) \/ InvokeMethod(t)
    \/ \E c \in Classes, s \in Sels : HostCallsGuest(t, c, s)
    \/ BridgeReturns(t) \/ GuestReturns(t)

Next == crash = "no" /\ \E t \in Threads : Step(t)

Spec == Init /\ [][Next]_vars

----------------------------------------------------------------------------
(* Properties.                                                             *)

(* A message runs the method that was looked up for it: the receiver's     *)
(* for a plain message, the one above the sender's class for a message to  *)
(* super.  The bridge looks the method up a second time (bridge code at    *)
(* xlgen.cpp 1299-1306), with what the thread's slot holds by then.  The   *)
(* variadic selectors have no method looked up.                            *)
RightMethod ==
    \A t \in Threads : \A i \in 1..Depth(t) :
        LET f == stack[t][i]
        IN  f.at \in {"host", "called"} /\ f.sel \notin Variadic =>
                f.imp = Find[f.lookup][f.sel]

(* The class of a super message is taken by the bridge it was meant for:   *)
(* the slot is full only while that bridge starts (objc_bridge.m 314-320,  *)
(* 503-505).                                                               *)
SuperClassIsTaken ==
    \A t \in Threads : superKey[t] # None =>
        At(t, "bridge") /\ Top(t).sup = superKey[t]

(* A guest method, a bridge or a variadic handler starts with the          *)
(* arguments of its message in the registers, whatever a +initialize did   *)
(* to them in between (objc_bridge.m 418-424).  It does so as long as no   *)
(* shadow is made below a class with a +initialize of its own in guest     *)
(* Objective-C (QuietBuilds): the registers are saved only after xl_class_ *)
(* of (743) and xl_class_in (775), which may make one.                     *)
ArgumentsArrive ==
    \A t \in Threads :
        /\ At(t, "bridge") \/ At(t, "store") => reg[t].args = Depth(t)
        /\ \A i \in 1..Depth(t) :
               LET f == stack[t][i]
               IN  f.at \in {"body", "host"} /\ ~ f.invoked => f.saved.args = i

(* Above a class whose shadow is still to be made when it is first met, no *)
(* class has a +initialize in guest Objective-C, which would run on the    *)
(* registers of the message that met it.                                   *)
QuietBuilds ==
    \A c \in Shadowed : \A a \in Above[c] : Initializer[a] \in Shadowed \cup {None}

(* A bridge returns to the guest code that sent the message, however often *)
(* the host called back into the guest on the same registers (runtime.c    *)
(* 363-371).                                                               *)
ReturnsToSender ==
    \A t \in Threads :
        /\ At(t, "bridge") \/ At(t, "host") \/ At(t, "called") => reg[t].lr = Depth(t) - 1
        /\ \A i \in 1..Depth(t) :
               LET f == stack[t][i]
               IN  f.at = "body" /\ ~ f.invoked => f.saved.lr = i - 1

(* A message with more than one signature goes through the bridge of the   *)
(* signature its method has, also when another class or another selector   *)
(* filled the cache (objc_bridge.m 430-437).                               *)
SignatureMatches ==
    \A t \in Threads : \A i \in 1..Depth(t) :
        LET f == stack[t][i]
        IN  /\ f.at \in {"host", "called"} /\ f.bridge # None /\ f.imp # None
            /\ VariantBridge(f.sel, Enc[f.imp]) # None
            => Sig(f.bridge) = Enc[f.imp]
=============================================================================
