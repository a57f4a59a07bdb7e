--------------------------- MODULE MsgRouteProofs ---------------------------
(***************************************************************************)
(* Proofs about MsgRoute, for any number of threads, classes, selectors,   *)
(* methods and encodings and any nesting of guest and host code.           *)
(*                                                                         *)
(* The invariant relates a thread's registers to its stack: a message's    *)
(* frame keeps the x30 it was sent with, guest code that the host invoked  *)
(* keeps the x30 of the bridge below it.  That it keeps the arguments too  *)
(* is the case only if making a shadow runs no guest Objective-C, which    *)
(* the constant formula QuietBuilds says of the classes.  The predicates   *)
(* on frames and stacks take the registers and the tables as parameters,   *)
(* so that they can be compared between the states before and after a      *)
(* step.                                                                   *)
(***************************************************************************)
EXTENDS MsgRoute, DataTheorems, TLAPS

(* The registers q hold what the registers r hold.                         *)
Kept(q, r) == q.lr = r.lr /\ (QuietBuilds => q.args = r.args)

(* The message of the i-th frame, with the registers, the receiver and the *)
(* class it was sent with.                                                 *)
MessageOK(i, f) ==
    /\ f.saved.lr = i - 1 /\ (QuietBuilds => f.saved.args = i)
    /\ f.rcv \in Classes /\ f.sel \in Sels /\ f.lookup \in Classes
    /\ f.sup = None => f.lookup = f.rcv
    /\ f.sup # None => /\ f.sup \in Classes /\ SuperOf[f.sup] = f.lookup
                       /\ QuietBuilds => f.sel \in SuperSels

(* What the i-th frame of a stack holds: guest code that the host invoked, *)
(* a shadow that is made, or a message.                                    *)
FrameOK(i, f) ==
    /\ IF f.invoked THEN f.at = "body"
       ELSE IF f.at = "build" THEN f.rcv \in Shadowed
       ELSE MessageOK(i, f)
    /\ f.imp # None => f.rcv \in Classes

(* Frame e runs right above the i-th frame f: guest code above a shadow    *)
(* that is made or a message whose method is looked up or runs, a shadow   *)
(* above the message or the shadow that asks for it, or a message above    *)
(* guest code.                                                             *)
Carries(f, e) ==
    IF e.invoked THEN f.at \in {"build", "lookup", "host", "called"}
    ELSE IF e.at = "build" THEN f.at \in {"class", "build"}
    ELSE f.at = "body"
LinkOK(i, f, e) ==
    /\ Carries(f, e)
    /\ f.at \in {"host", "called"} => e.saved.lr = i - 1
    /\ f.at \in {"class", "build"} =>
           Kept(e.saved, f.saved) /\ (QuietBuilds /\ e.invoked => Keeps(e))

(* What the innermost frame finds in the registers.                        *)
TopOK(n, f, r) ==
    /\ f.at \in {"store", "bridge"} => (QuietBuilds => r.args = n)
    /\ f.at \in {"store", "bridge", "host", "called"} => r.lr = n - 1
    /\ f.at \in {"class", "build"} => Kept(r, f.saved)

CallOK(s, r) ==
    /\ s \in Seq(Frames) /\ Len(s) >= 1 /\ s[1].invoked
    /\ \A i \in 1..Len(s) : FrameOK(i, s[i])
    /\ \A i \in 1..(Len(s) - 1) : LinkOK(i, s[i], s[i + 1])
    /\ TopOK(Len(s), s[Len(s)], r)

Subclasses == {c \in Classes : SuperOf[c] # None}

TablesType ==
    /\ superKey \in [Threads -> Subclasses \cup {None}]
    /\ cache \in [Imps -> Bridges \cup {None}]

CallsInv ==
    /\ stack \in [Threads -> Seq(Frames)]
    /\ reg \in [Threads -> Registers]
    /\ \A t \in Threads : CallOK(stack[t], reg[t])

IInv == TablesType /\ CallsInv

(* The method a message's lookup finds.                                    *)
FoundBy(f) == Find[f.lookup][f.sel]

(* The bridge b has the signature of the method i that selector s reaches. *)
Fits(b, s, i) == i # None /\ VariantBridge(s, Enc[i]) # None => b[2] = Enc[i]

(* A frame's bridge is for the method found, and what runs is that method. *)
(* A variadic selector has a bridge in no case.                            *)
MethodOK(f) ==
    /\ f.at = "class" => f.bridge = None
    /\ f.at = "lookup" /\ f.sup = None => f.sel \notin Variadic
    /\ f.at = "store" => /\ FoundBy(f) # None /\ f.sup = None
                         /\ f.bridge = VariantBridge(f.sel, Enc[FoundBy(f)]) /\ f.bridge # None
    /\ f.at = "bridge" => f.sel \notin Variadic /\ Fits(f.bridge, f.sel, FoundBy(f))
    /\ f.at \in {"host", "called"} /\ f.sel \notin Variadic => f.imp = FoundBy(f)
    /\ f.at \in {"host", "called"} /\ f.bridge # None => f.sel \notin Variadic /\ Fits(f.bridge, f.sel, FoundBy(f))

(* The slot holds the class of the super message whose bridge starts.      *)
SlotOK(k, f) ==
    /\ k # None => f.at = "bridge" /\ f.sup = k
    /\ f.at = "bridge" => k = f.sup

RoutedOK(s, k) == (\A i \in 1..Len(s) : MethodOK(s[i])) /\ SlotOK(k, s[Len(s)])

(* The cache holds the bridge of the signature of the method.              *)
CacheOK(i, b) == b # None => b[2] = Enc[i] /\ Varied(i)

RouteInv ==
    /\ \A i \in Imps : CacheOK(i, cache[i])
    /\ \A t \in Threads : RoutedOK(stack[t], superKey[t])

----------------------------------------------------------------------------
(* The operations on a stack.                                              *)

LEMMA CallFacts ==
    ASSUME NEW s, NEW r, CallOK(s, r)
    PROVE  /\ s \in Seq(Frames) /\ Len(s) \in Nat /\ Len(s) >= 1 /\ s # <<>>
           /\ s[Len(s)] \in Frames /\ FrameOK(Len(s), s[Len(s)]) /\ TopOK(Len(s), s[Len(s)], r)
           /\ s[1].invoked
           /\ Len(s) > 1 => LinkOK(Len(s) - 1, s[Len(s) - 1], s[Len(s)])
           /\ Len(s) > 1 => s[Len(s) - 1] \in Frames
  <1>1. s \in Seq(Frames) /\ Len(s) \in Nat /\ Len(s) >= 1 /\ s # <<>> /\ \A i \in 1..Len(s) : s[i] \in Frames
    BY StackElements DEF CallOK
  <1> QED
    BY <1>1 DEF CallOK

LEMMA PushCall ==
    ASSUME NEW s, NEW r, CallOK(s, r), NEW f \in Frames, NEW q,
           FrameOK(Len(s) + 1, f), LinkOK(Len(s), s[Len(s)], f), TopOK(Len(s) + 1, f, q)
    PROVE  CallOK(Append(s, f), q)
  <1> DEFINE a == Append(s, f)
  <1>0. s \in Seq(Frames) /\ Len(s) \in Nat /\ Len(s) >= 1 /\ s[1].invoked
    BY CallFacts
  <1>1. /\ a \in Seq(Frames) /\ Len(a) = Len(s) + 1 /\ a[Len(s) + 1] = f
        /\ \A i \in 1..Len(s) : a[i] = s[i]
    BY <1>0, Pushed
  <1> HIDE DEF a
  <1>2. \A i \in 1..Len(a) : FrameOK(i, a[i])
    BY <1>0, <1>1 DEF CallOK
  <1>3. \A i \in 1..(Len(a) - 1) : LinkOK(i, a[i], a[i + 1])
    BY <1>0, <1>1 DEF CallOK
  <1>4. CallOK(a, q)
    BY <1>0, <1>1, <1>2, <1>3 DEF CallOK
  <1> QED
    BY <1>4 DEF a

LEMMA ReplaceCall ==
    ASSUME NEW s, NEW r, CallOK(s, r), NEW f \in Frames, NEW q,
           FrameOK(Len(s), f), TopOK(Len(s), f, q),
           ~ f.invoked, ~ s[Len(s)].invoked, f.at # "build", s[Len(s)].at # "build"
    PROVE  /\ CallOK(Replaced(s, f), q) /\ Len(Replaced(s, f)) = Len(s)
           /\ Replaced(s, f)[Len(s)] = f
  <1> DEFINE a == Replaced(s, f)
  <1>0. s \in Seq(Frames) /\ Len(s) \in Nat /\ Len(s) >= 1 /\ s[1].invoked /\ s # <<>>
    BY CallFacts
  <1>1. /\ a \in Seq(Frames) /\ Len(a) = Len(s) /\ a[Len(s)] = f
        /\ \A i \in 1..(Len(s) - 1) : a[i] = s[i]
    BY <1>0, TopChanged
  <1> HIDE DEF a
  <1>2. \A i \in 1..Len(a) : FrameOK(i, a[i])
    BY <1>0, <1>1 DEF CallOK
  <1>3. \A i \in 1..(Len(a) - 1) : LinkOK(i, a[i], a[i + 1])
    <2>1. \A i \in 1..(Len(s) - 1) : LinkOK(i, s[i], s[i + 1])
      BY DEF CallOK
    <2>2. \A i, b : LinkOK(i, b, s[Len(s)]) => LinkOK(i, b, f)
      BY DEF LinkOK, Carries
    <2> QED
      BY <1>0, <1>1, <2>1, <2>2
  <1>4. a[1].invoked
    <2>1. Len(s) # 1
      BY <1>0
    <2> QED
      BY <1>0, <1>1, <2>1
  <1>5. CallOK(a, q)
    BY <1>0, <1>1, <1>2, <1>3, <1>4 DEF CallOK
  <1> QED
    BY <1>1, <1>5 DEF a

LEMMA PopCall ==
    ASSUME NEW s, NEW r, CallOK(s, r), Len(s) > 1, NEW q, TopOK(Len(s) - 1, s[Len(s) - 1], q)
    PROVE  CallOK(Popped(s), q)
  <1> DEFINE a == Popped(s)
  <1>0. s \in Seq(Frames) /\ Len(s) \in Nat /\ s[1].invoked /\ s # <<>>
    BY CallFacts
  <1>1. a \in Seq(Frames) /\ Len(a) = Len(s) - 1 /\ \A i \in 1..(Len(s) - 1) : a[i] = s[i]
    BY <1>0, TopPopped
  <1> HIDE DEF a
  <1>2. \A i \in 1..Len(a) : FrameOK(i, a[i])
    BY <1>0, <1>1 DEF CallOK
  <1>3. \A i \in 1..(Len(a) - 1) : LinkOK(i, a[i], a[i + 1])
    <2>1. \A i \in 1..(Len(s) - 1) : LinkOK(i, s[i], s[i + 1])
      BY DEF CallOK
    <2>2. \A i \in 1..(Len(a) - 1) : i \in 1..(Len(s) - 1) /\ i + 1 \in 1..(Len(s) - 1)
      BY <1>0, <1>1
    <2> QED
      BY <1>1, <2>1, <2>2
  <1>4. CallOK(a, q)
    BY <1>0, <1>1, <1>2, <1>3 DEF CallOK
  <1> QED
    BY <1>4 DEF a

(* A step of thread t.                                                     *)
LEMMA Moves ==
    ASSUME CallsInv, NEW t \in Threads, NEW s, NEW r \in Registers, CallOK(s, r),
           stack' = [stack EXCEPT ![t] = s], reg' = [reg EXCEPT ![t] = r]
    PROVE  CallsInv'
  <1>1. s \in Seq(Frames)
    BY CallFacts
  <1>2. stack' \in [Threads -> Seq(Frames)] /\ reg' \in [Threads -> Registers]
    BY <1>1 DEF CallsInv
  <1>3. ASSUME NEW u \in Threads PROVE CallOK(stack'[u], reg'[u])
    <2>1. CASE u = t
      BY <2>1 DEF CallsInv
    <2>2. CASE u # t
      BY <2>2 DEF CallsInv
    <2> QED
      BY <2>1, <2>2
  <1> QED
    BY <1>2, <1>3 DEF CallsInv

LEMMA InvokedFields ==
    ASSUME NEW c \in Classes \cup {None}, NEW i \in Imps \cup {None}, NEW r \in Registers
    PROVE  /\ Invoked(c, i, r) \in Frames /\ Invoked(c, i, r).at = "body" /\ Invoked(c, i, r).invoked
           /\ Invoked(c, i, r).imp = i /\ Invoked(c, i, r).rcv = c /\ Invoked(c, i, r).saved = r
           /\ Invoked(c, i, r).sel = None /\ Invoked(c, i, r).bridge = None /\ Invoked(c, i, r).sup = None
  BY DEF Invoked, Frames, Steps

LEMMA BridgeTypes ==
    /\ \A s \in Sels : SelBridge(s) \in Bridges \cup {None}
    /\ \A s \in Sels, e \in Encs : VariantBridge(s, e) \in Bridges \cup {None}
  <1>1. \A s \in Sels : Best(s) \in Encs
    BY MsgAssumption DEF Best
  <1> QED
    BY <1>1 DEF SelBridge, VariantBridge, Bridges

----------------------------------------------------------------------------
(* Every step keeps the registers and the stack of its thread in step.     *)

LEMMA TopFacts ==
    ASSUME CallsInv, NEW t \in Threads
    PROVE  /\ stack[t] \in Seq(Frames) /\ Depth(t) \in Nat /\ Depth(t) >= 1 /\ stack[t] # <<>>
           /\ CallOK(stack[t], reg[t]) /\ reg[t] \in Registers
           /\ Top(t) \in Frames /\ FrameOK(Depth(t), Top(t)) /\ TopOK(Depth(t), Top(t), reg[t])
           /\ stack[t][1].invoked
  BY CallFacts DEF CallsInv, Depth, Top

LEMMA InitInv == Init => IInv
  <1> SUFFICES ASSUME Init PROVE IInv
    OBVIOUS
  <1> USE MsgAssumption
  <1>0. NoCall \in Registers
    BY DEF NoCall, Registers
  <1> DEFINE f == Invoked(None, None, NoCall)
  <1>1. f \in Frames /\ f.at = "body" /\ f.invoked /\ f.imp = None
    BY <1>0, InvokedFields
  <1> HIDE DEF f
  <1>2. <<f>> \in Seq(Frames) /\ Len(<<f>>) = 1 /\ <<f>>[1] = f
    BY <1>1
  <1>3. CallOK(<<f>>, NoCall)
    BY <1>1, <1>2 DEF CallOK, FrameOK, TopOK
  <1>4. stack = [t \in Threads |-> <<f>>] /\ reg = [t \in Threads |-> NoCall]
    BY DEF Init, f
  <1>5. CallsInv
    BY <1>0, <1>2, <1>3, <1>4 DEF CallsInv
  <1>6. TablesType
    BY DEF Init, TablesType
  <1> QED
    BY <1>5, <1>6 DEF IInv

(* A message is sent: what it leaves on the stack.                         *)
LEMMA MessageFields ==
    ASSUME CallsInv, NEW t \in Threads, NEW c \in Classes, NEW s \in Sels, NEW k \in Classes,
           NEW p \in Classes \cup {None}
    PROVE  LET f == Message(t, c, s, k, p)
           IN  /\ f \in Frames /\ f.at = "class" /\ f.rcv = c /\ f.sel = s /\ f.lookup = k /\ f.sup = p
               /\ f.imp = None /\ f.bridge = None /\ ~ f.invoked
               /\ f.saved = [args |-> Depth(t) + 1, lr |-> Depth(t)]
  <1>1. Depth(t) \in Nat
    BY TopFacts
  <1> QED
    BY <1>1 DEF Message, Call, Frames, Registers, Steps

LEMMA ResultType ==
    ASSUME NEW r \in Registers
    PROVE  Result(r) \in Registers /\ Result(r).lr = r.lr
  BY DEF Registers, Result

LEMMA CallType ==
    ASSUME CallsInv, NEW t \in Threads
    PROVE  /\ Call(t) \in Registers /\ Call(t).args = Depth(t) + 1 /\ Call(t).lr = Depth(t)
           /\ Call(t) = [args |-> Depth(t) + 1, lr |-> Depth(t)]
           /\ Result(Call(t)) \in Registers
           /\ [args |-> Depth(t) + 1, lr |-> 0] \in Registers
  <1>1. Depth(t) \in Nat
    BY TopFacts
  <1> QED
    BY <1>1 DEF Call, Registers, Result

(* A message is pushed on guest code.                                      *)
LEMMA PushInv ==
    ASSUME CallsInv, NEW t \in Threads, At(t, "body"), NEW f \in Frames,
           f.at \in {"body", "class", "lookup", "host"}, ~ f.invoked,
           f.imp # None => f.rcv \in Classes, MessageOK(Depth(t) + 1, f), f.saved = Call(t),
           Push(t, f), reg' = [reg EXCEPT ![t] = Call(t)]
    PROVE  CallsInv'
  <1>1. Depth(t) \in Nat /\ Depth(t) >= 1 /\ CallOK(stack[t], reg[t]) /\ Top(t).at = "body"
    BY TopFacts DEF At
  <1>2. FrameOK(Depth(t) + 1, f)
    BY <1>1 DEF FrameOK
  <1>3. LinkOK(Depth(t), Top(t), f)
    BY <1>1 DEF LinkOK, Carries
  <1>4. Call(t) \in Registers /\ TopOK(Depth(t) + 1, f, Call(t))
    <2>1. Call(t) \in Registers /\ Call(t).lr = Depth(t)
      BY CallType
    <2>2. Depth(t) = (Depth(t) + 1) - 1
      BY <1>1
    <2>3. Kept(Call(t), f.saved)
      BY DEF Kept
    <2> QED
      BY <2>1, <2>2, <2>3 DEF TopOK
  <1>5. CallOK(Append(stack[t], f), Call(t))
    BY <1>1, <1>2, <1>3, <1>4, PushCall DEF Depth, Top
  <1>6. stack' = [stack EXCEPT ![t] = Append(stack[t], f)]
    BY DEF Push
  <1> QED
    BY <1>4, <1>5, <1>6, Moves

(* Registers change while guest code runs.                                 *)
LEMMA AnswerInv ==
    ASSUME CallsInv, NEW t \in Threads, At(t, "body"), NEW r \in Registers,
           UNCHANGED stack, reg' = [reg EXCEPT ![t] = r]
    PROVE  CallsInv'
  <1>1. CallOK(stack[t], reg[t]) /\ Top(t).at = "body"
    BY TopFacts DEF At
  <1>2. CallOK(stack[t], r)
    BY <1>1 DEF CallOK, TopOK, Top, Depth
  <1>3. stack' = [stack EXCEPT ![t] = stack[t]]
    BY DEF CallsInv
  <1> QED
    BY <1>2, <1>3, Moves

(* The message f keeps what it was sent with, at the step it goes on at.   *)
Dispatched(f, step, r) == [f EXCEPT !.at = step, !.saved = r]

LEMMA DispatchedFields ==
    ASSUME NEW f \in Frames, NEW r \in Registers, NEW step \in {"lookup", "host"},
           NEW g, g = Dispatched(f, step, r)
    PROVE  /\ g \in Frames /\ g.at = step /\ g.rcv = f.rcv /\ g.sel = f.sel /\ g.lookup = f.lookup
           /\ g.sup = f.sup /\ g.imp = f.imp /\ g.bridge = f.bridge /\ g.invoked = f.invoked
           /\ g.saved = r
  BY DEF Frames, Dispatched, Steps

(* What Dispatch does with the stack, in terms of the step the message     *)
(* goes on at.                                                             *)
LEMMA DispatchCases ==
    ASSUME NEW t \in Threads, NEW s, NEW f \in Frames, NEW r, Dispatch(t, s, f, r)
    PROVE  \/ /\ reg' = [reg EXCEPT ![t] = Result(r)]
              /\ stack' = [stack EXCEPT ![t] = s]
           \/ \E step \in {"lookup", "host"} :
                  /\ step = "lookup" /\ f.sup = None => f.sel \notin Variadic
                  /\ step = "host" => f.sel \in Variadic
                  /\ reg' = [reg EXCEPT ![t] = r]
                  /\ stack' = [stack EXCEPT ![t] = Append(s, Dispatched(f, step, r))]
  <1>1. [VariadicShim(f) EXCEPT !.saved = r] = [f EXCEPT !.at = "host", !.saved = r]
    BY DEF VariadicShim, Frames
  <1> QED
    BY <1>1 DEF Dispatch, Dispatched

(* A message is sent, by guest code.                                       *)
LEMMA SendInv ==
    ASSUME CallsInv, NEW t \in Threads, NEW c, NEW f \in Frames, f.at = "class", ~ f.invoked,
           f.imp = None, MessageOK(Depth(t) + 1, f), f.saved = Call(t), Send(t, c, f)
    PROVE  CallsInv'
  <1>0. At(t, "body") /\ Call(t) \in Registers /\ Result(Call(t)) \in Registers
    BY CallType DEF Send
  <1>1. CASE Push(t, f) /\ reg' = [reg EXCEPT ![t] = Call(t)]
    BY <1>0, <1>1, PushInv
  <1>2. CASE stack' = [stack EXCEPT ![t] = stack[t]] /\ reg' = [reg EXCEPT ![t] = Result(Call(t))]
    <2>1. stack' = stack
      BY <1>2 DEF CallsInv
    <2> QED
      BY <1>0, <1>2, <2>1, AnswerInv
  <1>3. ASSUME NEW step \in {"lookup", "host"}, reg' = [reg EXCEPT ![t] = Call(t)],
               stack' = [stack EXCEPT ![t] = Append(stack[t], Dispatched(f, step, Call(t)))]
        PROVE  CallsInv'
    <2> DEFINE g == Dispatched(f, step, Call(t))
    <2>0. PICK q \in Registers : q = Call(t) /\ g = Dispatched(f, step, q)
      BY <1>0
    <2> HIDE DEF g
    <2>1. /\ g \in Frames /\ g.at = step /\ g.rcv = f.rcv /\ g.sel = f.sel /\ g.lookup = f.lookup
          /\ g.sup = f.sup /\ g.imp = f.imp /\ g.invoked = f.invoked /\ g.saved = Call(t)
      BY <2>0, DispatchedFields
    <2>2. Push(t, g)
      BY <1>3, <2>0 DEF Push
    <2>3. MessageOK(Depth(t) + 1, g)
      BY <2>1 DEF MessageOK
    <2>4. ~ g.invoked /\ g.imp = None /\ g.saved = Call(t) /\ g.at \in {"body", "class", "lookup", "host"}
      BY <2>1
    <2> QED
      BY <1>0, <1>3, <2>1, <2>2, <2>3, <2>4, PushInv
  <1>4. CASE Dispatch(t, stack[t], f, Call(t))
    BY <1>2, <1>3, <1>4, DispatchCases
  <1> QED
    BY <1>1, <1>4 DEF Send

LEMMA MsgSendInv ==
    ASSUME CallsInv, NEW t \in Threads, NEW c \in Classes, NEW s \in Sels, xl_h_objc_msgSend(t, c, s)
    PROVE  CallsInv'
  <1> DEFINE f == Message(t, c, s, c, None)
  <1>0. None \in Classes \cup {None} /\ Depth(t) \in Nat /\ Call(t) = [args |-> Depth(t) + 1, lr |-> Depth(t)]
    BY TopFacts, CallType
  <1>1. /\ f \in Frames /\ f.at = "class" /\ f.rcv = c /\ f.sel = s /\ f.lookup = c /\ f.sup = None
        /\ f.imp = None /\ f.bridge = None /\ ~ f.invoked
        /\ f.saved = [args |-> Depth(t) + 1, lr |-> Depth(t)]
    BY <1>0, MessageFields
  <1>2. Send(t, c, f)
    BY DEF xl_h_objc_msgSend
  <1> HIDE DEF f
  <1>3. MessageOK(Depth(t) + 1, f)
    BY <1>0, <1>1 DEF MessageOK
  <1> QED
    BY <1>0, <1>1, <1>2, <1>3, SendInv

LEMMA SuperFields ==
    ASSUME CallsInv, NEW t \in Threads, NEW s \in SuperSels, xl_h_objc_msgSendSuper2(t, s)
    PROVE  \E f \in Frames, c \in Classes :
               /\ f.at = "class" /\ ~ f.invoked /\ f.imp = None /\ f.bridge = None /\ f.sup # None
               /\ MessageOK(Depth(t) + 1, f) /\ f.saved = Call(t) /\ Send(t, c, f)
  <1> USE MsgAssumption
  <1> DEFINE p == Definer[Top(t).imp]
             k == SuperOf[p]
             c == Top(t).rcv
             f == Message(t, c, s, k, p)
  <1>0. /\ At(t, "body") /\ s \in Sels /\ Depth(t) \in Nat
        /\ Call(t) = [args |-> Depth(t) + 1, lr |-> Depth(t)]
    BY TopFacts, CallType DEF xl_h_objc_msgSendSuper2
  <1>1. Top(t).imp \in GuestImps /\ k # None
    BY DEF xl_h_objc_msgSendSuper2
  <1>2. p \in Classes /\ k \in Classes /\ c \in Classes
    <2>1. FrameOK(Depth(t), Top(t)) /\ Top(t).imp # None
      BY <1>1, TopFacts
    <2> QED
      BY <1>1, <2>1 DEF FrameOK
  <1>3. Send(t, p, f) /\ SuperOf[p] = k
    BY DEF xl_h_objc_msgSendSuper2
  <1> HIDE DEF p, k, c
  <1>4. /\ f \in Frames /\ f.at = "class" /\ f.rcv = c /\ f.sel = s /\ f.lookup = k /\ f.sup = p
        /\ f.imp = None /\ f.bridge = None /\ ~ f.invoked
        /\ f.saved = [args |-> Depth(t) + 1, lr |-> Depth(t)]
    BY <1>0, <1>2, MessageFields
  <1> HIDE DEF f
  <1>5. MessageOK(Depth(t) + 1, f)
    BY <1>0, <1>2, <1>3, <1>4 DEF MessageOK
  <1>6. p # None /\ f.saved = Call(t)
    BY <1>0, <1>2, <1>4
  <1> QED
    BY <1>2, <1>3, <1>4, <1>5, <1>6

LEMMA SuperInv ==
    ASSUME CallsInv, NEW t \in Threads, NEW s \in SuperSels, xl_h_objc_msgSendSuper2(t, s)
    PROVE  CallsInv'
  BY SuperFields, SendInv

(* Swift code of the guest enters a method of its own.                     *)
LEMMA SwiftFields ==
    ASSUME CallsInv, NEW t \in Threads, NEW c \in Classes, NEW s \in Sels, SwiftCall(t, c, s)
    PROVE  \E f \in Frames :
               /\ f.at = "body" /\ ~ f.invoked /\ f.rcv \in Classes
               /\ MessageOK(Depth(t) + 1, f) /\ f.saved = Call(t) /\ Push(t, f)
  <1> DEFINE m == Message(t, c, s, c, None)
             f == [m EXCEPT !.at = "body", !.imp = Find[c][s]]
  <1>0. /\ None \in Classes \cup {None} /\ Depth(t) \in Nat /\ Find[c][s] \in Imps \cup {None}
        /\ Call(t) = [args |-> Depth(t) + 1, lr |-> Depth(t)]
    <2>1. Find[c][s] \in Imps \cup {None}
      BY MsgAssumption
    <2> QED
      BY <2>1, TopFacts, CallType
  <1>1. /\ m \in Frames /\ m.at = "class" /\ m.rcv = c /\ m.sel = s /\ m.lookup = c /\ m.sup = None
        /\ m.imp = None /\ m.bridge = None /\ ~ m.invoked
        /\ m.saved = [args |-> Depth(t) + 1, lr |-> Depth(t)]
    BY <1>0, MessageFields
  <1>2. Push(t, f)
    BY DEF SwiftCall
  <1> HIDE DEF m
  <1>3. /\ f \in Frames /\ f.at = "body" /\ f.rcv = c /\ f.sel = s /\ f.lookup = c /\ f.sup = None
        /\ ~ f.invoked /\ f.saved = m.saved
    BY <1>0, <1>1 DEF Frames, Steps
  <1> HIDE DEF f
  <1>4. MessageOK(Depth(t) + 1, f)
    BY <1>0, <1>1, <1>3 DEF MessageOK
  <1> QED
    BY <1>0, <1>1, <1>2, <1>3, <1>4

LEMMA SwiftInv ==
    ASSUME CallsInv, NEW t \in Threads, NEW c \in Classes, NEW s \in Sels, SwiftCall(t, c, s)
    PROVE  CallsInv'
  <1>1. At(t, "body") /\ reg' = [reg EXCEPT ![t] = Call(t)]
    BY DEF SwiftCall
  <1> QED
    BY <1>1, SwiftFields, PushInv

(* Host code invokes guest code: on top of a lookup, of a shadow that is   *)
(* made, or of the method of a message, whose registers are kept.          *)
LEMMA InvokeInv ==
    ASSUME CallsInv, NEW t \in Threads, Top(t).at \in {"build", "lookup", "host", "called"},
           NEW c \in Classes, NEW i \in Imps \cup {None},
           Top(t).at = "build" => (QuietBuilds => Keeps(Invoked(c, i, reg[t]))),
           stack' = [stack EXCEPT ![t] = Append(stack[t], Invoked(c, i, reg[t]))],
           reg' = [reg EXCEPT ![t] = [args |-> Depth(t) + 1, lr |-> 0]]
    PROVE  CallsInv'
  <1> DEFINE f == Invoked(c, i, reg[t])
             q == [args |-> Depth(t) + 1, lr |-> 0]
  <1>0. /\ reg[t] \in Registers /\ q \in Registers /\ CallOK(stack[t], reg[t]) /\ TopOK(Depth(t), Top(t), reg[t])
    BY TopFacts, CallType
  <1>1. f \in Frames /\ f.at = "body" /\ f.invoked /\ f.imp = i /\ f.rcv = c /\ f.saved = reg[t]
    BY ONLY <1>0, c \in Classes, i \in Imps \cup {None}, InvokedFields
  <1>5. Top(t).at = "build" => (QuietBuilds => Keeps(f))
    OBVIOUS
  <1> HIDE DEF f, q
  <1>2. FrameOK(Depth(t) + 1, f) /\ TopOK(Depth(t) + 1, f, q)
    BY <1>1 DEF FrameOK, TopOK
  <1>3. LinkOK(Depth(t), Top(t), f)
    BY <1>0, <1>1, <1>5 DEF LinkOK, Carries, TopOK
  <1>4. CallOK(Append(stack[t], f), q)
    BY <1>0, <1>1, <1>2, <1>3, PushCall DEF Depth, Top
  <1> QED
    BY <1>0, <1>4, Moves DEF f, q

(* A +initialize that runs while a shadow is made is one of a shadow.      *)
LEMMA BuildKeeps ==
    ASSUME QuietBuilds, CallsInv, NEW t \in Threads, NEW c \in Classes, NEW r, At(t, "build"),
           Asked(t) # None, c \in Above[Asked(t)], Initializer[c] # None
    PROVE  Keeps(Invoked(c, None, r))
  <1> USE MsgAssumption
  <1>1. Top(t).rcv \in Shadowed /\ Asked(t) = SuperOf[Top(t).rcv]
    BY TopFacts DEF FrameOK, At, Asked
  <1>2. c \in Above[Top(t).rcv]
    BY <1>1
  <1>3. Initializer[c] \in Shadowed
    BY <1>1, <1>2 DEF QuietBuilds
  <1> QED
    BY <1>3 DEF Keeps, Invoked

LEMMA BeginInitializeInv ==
    ASSUME CallsInv, NEW t \in Threads, NEW c \in Classes, BeginInitialize(t, c)
    PROVE  CallsInv'
  <1>1. CASE UNCHANGED <<stack, reg>>
    BY <1>1 DEF CallsInv
  <1>2. CASE /\ reg' = [reg EXCEPT ![t] = [args |-> Depth(t) + 1, lr |-> 0]]
             /\ Push(t, Invoked(c, None, reg[t])) /\ Initializer[c] # None
    <2>1. Top(t).at \in {"build", "lookup"}
      BY DEF BeginInitialize, At
    <2>2. Top(t).at = "build" => At(t, "build") /\ Asked(t) # None /\ c \in Above[Asked(t)]
      BY DEF BeginInitialize, At
    <2>3. Top(t).at = "build" => (QuietBuilds => Keeps(Invoked(c, None, reg[t])))
      BY <1>2, <2>2, BuildKeeps
    <2> QED
      BY <1>2, <2>1, <2>3, InvokeInv DEF Push
  <1> QED
    BY <1>1, <1>2 DEF BeginInitialize

(* A shadow is asked for.                                                  *)
LEMMA AskedType ==
    ASSUME CallsInv, NEW t \in Threads, At(t, "class") \/ At(t, "build")
    PROVE  Asked(t) \in Classes \cup {None} /\ (At(t, "class") => Asked(t) \in Classes)
  <1>1. FrameOK(Depth(t), Top(t)) /\ Top(t).at \in {"class", "build"} /\ ~ (At(t, "class") /\ At(t, "build"))
    BY TopFacts DEF At
  <1>2. CASE At(t, "build")
    BY <1>1, <1>2, MsgAssumption DEF FrameOK, Asked, At
  <1>3. CASE At(t, "class")
    <2>1. ~ At(t, "build") /\ MessageOK(Depth(t), Top(t))
      BY <1>1, <1>3 DEF FrameOK, At
    <2> QED
      BY <1>3, <2>1 DEF MessageOK, Asked
  <1> QED
    BY <1>1, <1>2, <1>3

LEMMA BuildFields ==
    ASSUME CallsInv, NEW t \in Threads, BeginBuild(t)
    PROVE  \E f \in Frames :
               /\ f.at = "build" /\ f.rcv \in Shadowed /\ f.imp = None /\ ~ f.invoked /\ f.saved = reg[t]
               /\ Push(t, f)
  <1> DEFINE f == [at |-> "build", rcv |-> Asked(t), sel |-> None, lookup |-> None, sup |-> None,
                   imp |-> None, bridge |-> None, invoked |-> FALSE, saved |-> reg[t]]
  <1>1. Asked(t) \in Shadowed /\ Asked(t) \in Classes /\ reg[t] \in Registers
    BY TopFacts, MsgAssumption DEF BeginBuild, Unbuilt
  <1>2. f \in Frames
    BY <1>1 DEF Frames, Steps
  <1>3. Push(t, f)
    BY DEF BeginBuild
  <1> QED
    BY <1>1, <1>2, <1>3

LEMMA BeginBuildInv ==
    ASSUME CallsInv, NEW t \in Threads, BeginBuild(t)
    PROVE  CallsInv'
  <1>0. /\ Top(t).at \in {"class", "build"} /\ reg[t] \in Registers /\ CallOK(stack[t], reg[t])
        /\ TopOK(Depth(t), Top(t), reg[t]) /\ reg' = [reg EXCEPT ![t] = reg[t]]
    BY TopFacts DEF BeginBuild, At, CallsInv
  <1>1. PICK f \in Frames :
            /\ f.at = "build" /\ f.rcv \in Shadowed /\ f.imp = None /\ ~ f.invoked /\ f.saved = reg[t]
            /\ Push(t, f)
    BY BuildFields
  <1>2. FrameOK(Depth(t) + 1, f) /\ TopOK(Depth(t) + 1, f, reg[t])
    BY <1>1 DEF FrameOK, TopOK, Kept
  <1>3. LinkOK(Depth(t), Top(t), f)
    BY <1>0, <1>1 DEF LinkOK, Carries, TopOK
  <1>4. CallOK(Append(stack[t], f), reg[t])
    BY <1>0, <1>1, <1>2, <1>3, PushCall DEF Depth, Top
  <1> QED
    BY <1>0, <1>1, <1>4, Moves DEF Push

(* The innermost message goes on.                                          *)
LEMMA ChangeInv ==
    ASSUME CallsInv, NEW t \in Threads, ~ Top(t).invoked, Top(t).at # "build",
           NEW f \in Frames, NEW r \in Registers,
           ~ f.invoked, f.at # "build", MessageOK(Depth(t), f), f.imp # None => f.rcv \in Classes,
           TopOK(Depth(t), f, r), Become(t, f), reg' = [reg EXCEPT ![t] = r]
    PROVE  CallsInv'
  <1>1. CallOK(stack[t], reg[t])
    BY TopFacts
  <1>2. FrameOK(Depth(t), f)
    BY DEF FrameOK
  <1>3. CallOK(Replaced(stack[t], f), r)
    BY <1>1, <1>2, ReplaceCall DEF Depth, Top
  <1>4. stack' = [stack EXCEPT ![t] = Replaced(stack[t], f)]
    BY DEF Become, Below, Replaced, Depth
  <1> QED
    BY <1>3, <1>4, Moves

LEMMA NotInvoked ==
    ASSUME CallsInv, NEW t \in Threads, Top(t).at # "body"
    PROVE  ~ Top(t).invoked /\ Depth(t) > 1 /\ Depth(t) - 1 \in Nat
  <1>1. FrameOK(Depth(t), Top(t)) /\ stack[t][1].invoked /\ Depth(t) \in Nat /\ Depth(t) >= 1
    BY TopFacts
  <1>2. ~ Top(t).invoked
    BY <1>1 DEF FrameOK
  <1>3. Depth(t) # 1
    BY <1>1, <1>2 DEF Top
  <1> QED
    BY <1>1, <1>2, <1>3

LEMMA TopMessage ==
    ASSUME CallsInv, NEW t \in Threads, Top(t).at # "body", Top(t).at # "build"
    PROVE  /\ ~ Top(t).invoked /\ MessageOK(Depth(t), Top(t)) /\ Depth(t) > 1 /\ Depth(t) - 1 \in Nat
           /\ Top(t).sel \in Sels /\ Top(t).lookup \in Classes /\ Top(t).rcv \in Classes
  <1>1. FrameOK(Depth(t), Top(t)) /\ ~ Top(t).invoked /\ Depth(t) > 1 /\ Depth(t) - 1 \in Nat
    BY TopFacts, NotInvoked
  <1> QED
    BY <1>1 DEF FrameOK, MessageOK

LEMMA BecomeInv ==
    ASSUME CallsInv, NEW t \in Threads, Top(t).at # "body", Top(t).at # "build",
           NEW f \in Frames, NEW r \in Registers,
           f.at # "build", f.invoked = Top(t).invoked, f.saved = Top(t).saved,
           f.rcv = Top(t).rcv, f.sel = Top(t).sel, f.lookup = Top(t).lookup, f.sup = Top(t).sup,
           TopOK(Depth(t), f, r),
           Become(t, f), reg' = [reg EXCEPT ![t] = r]
    PROVE  CallsInv'
  <1>1. ~ Top(t).invoked /\ MessageOK(Depth(t), Top(t)) /\ Top(t).rcv \in Classes
    BY TopMessage
  <1>2. MessageOK(Depth(t), f) /\ ~ f.invoked /\ f.rcv \in Classes
    BY <1>1 DEF MessageOK
  <1> QED
    BY <1>1, <1>2, ChangeInv

LEMMA GoesInv ==
    ASSUME CallsInv, NEW t \in Threads, NEW step \in {"body", "store", "bridge", "host"},
           NEW i \in Imps \cup {None}, NEW b \in Bridges \cup {None}, Goes(t, step, i, b)
    PROVE  CallsInv'
  <1> DEFINE f == [Top(t) EXCEPT !.at = step, !.imp = i, !.bridge = b]
             r == Top(t).saved
  <1>0. Top(t) \in Frames /\ Top(t).at = "lookup"
    BY TopFacts DEF Goes, At
  <1>1. r.lr = Depth(t) - 1 /\ (QuietBuilds => r.args = Depth(t))
    BY <1>0, TopMessage DEF MessageOK
  <1>2. r \in Registers
    BY <1>0 DEF Frames
  <1>3. step \in Steps
    BY DEF Steps
  <1>4. /\ f \in Frames /\ f.at = step /\ f.rcv = Top(t).rcv /\ f.sel = Top(t).sel
        /\ f.lookup = Top(t).lookup /\ f.sup = Top(t).sup /\ f.invoked = Top(t).invoked /\ f.saved = Top(t).saved
    BY <1>0, <1>3 DEF Frames
  <1>5. Become(t, f) /\ reg' = [reg EXCEPT ![t] = r]
    BY DEF Goes
  <1> HIDE DEF f, r
  <1>6. TopOK(Depth(t), f, r) /\ f.at # "build"
    BY <1>1, <1>4 DEF TopOK
  <1> QED
    BY <1>0, <1>2, <1>4, <1>5, <1>6, BecomeInv

LEMMA FoundType ==
    ASSUME CallsInv, NEW t \in Threads, At(t, "lookup") \/ At(t, "store")
    PROVE  Found(t) \in Imps \cup {None} /\ Found(t) = FoundBy(Top(t))
  <1>1. Top(t).sel \in Sels /\ Top(t).lookup \in Classes
    BY TopMessage DEF At
  <1> QED
    BY <1>1, MsgAssumption DEF Found, FoundBy

LEMMA RouteStepInv ==
    ASSUME IInv, NEW t \in Threads,
           RouteToGuest(t) \/ RouteCached(t) \/ RouteVariant(t) \/ RouteSelector(t) \/ xl_dynamic_send(t)
    PROVE  IInv'
  <1>0. CallsInv /\ TablesType /\ At(t, "lookup")
    BY DEF IInv, RouteToGuest, RouteCached, RouteVariant, RouteSelector, xl_dynamic_send, Unrouted
  <1>1. Found(t) \in Imps \cup {None} /\ Top(t).sel \in Sels /\ Top(t) \in Frames
    BY <1>0, FoundType, TopMessage, TopFacts DEF At
  <1>2. SelBridge(Top(t).sel) \in Bridges \cup {None} /\ Variant(t) \in Bridges \cup {None}
        /\ Cached(t) \in Bridges \cup {None}
    <2>1. Found(t) # None => Enc[Found(t)] \in Encs /\ cache[Found(t)] \in Bridges \cup {None}
      BY <1>0, <1>1, MsgAssumption DEF TablesType
    <2> QED
      BY <1>1, <2>1, BridgeTypes DEF Variant, Cached
  <1>3. PICK step \in {"body", "store", "bridge", "host"}, i \in Imps \cup {None}, b \in Bridges \cup {None} :
            Goes(t, step, i, b)
    BY <1>1, <1>2 DEF RouteToGuest, RouteCached, RouteVariant, RouteSelector, xl_dynamic_send
  <1>4. CallsInv'
    BY <1>0, <1>3, GoesInv
  <1>5. TablesType'
    <2>1. cache' = cache
      BY DEF RouteToGuest, RouteCached, RouteVariant, RouteSelector, xl_dynamic_send
    <2>2. superKey' = superKey \/ \E p \in Subclasses \cup {None} : superKey' = [superKey EXCEPT ![t] = p]
      <3>1. CASE RouteSelector(t)
        <4>1. superKey' = [superKey EXCEPT ![t] = IF Top(t).sup = None THEN superKey[t] ELSE Top(t).sup]
          BY <3>1 DEF RouteSelector
        <4>2. superKey[t] \in Subclasses \cup {None} /\ Top(t).sup \in Classes \cup {None}
          BY <1>0, <1>1 DEF TablesType, Frames
        <4>3. Top(t).sup # None => SuperOf[Top(t).sup] \in Classes
          BY <1>0, TopMessage DEF MessageOK, At
        <4> QED
          BY <4>1, <4>2, <4>3, MsgAssumption DEF Subclasses
      <3>2. CASE ~ RouteSelector(t)
        BY <3>2 DEF RouteToGuest, RouteCached, RouteVariant, xl_dynamic_send
      <3> QED
        BY <3>1, <3>2
    <2> QED
      BY <1>0, <2>1, <2>2 DEF TablesType
  <1> QED
    BY <1>4, <1>5 DEF IInv

LEMMA StoreVariantInv ==
    ASSUME IInv, NEW t \in Threads, StoreVariant(t)
    PROVE  IInv'
  <1> DEFINE f == [Top(t) EXCEPT !.at = "bridge"]
  <1>0. /\ CallsInv /\ TablesType /\ At(t, "store") /\ Top(t).at = "store" /\ Top(t) \in Frames
        /\ reg[t] \in Registers /\ TopOK(Depth(t), Top(t), reg[t])
    BY TopFacts DEF IInv, StoreVariant, At
  <1>1. /\ f \in Frames /\ f.at = "bridge" /\ f.rcv = Top(t).rcv /\ f.sel = Top(t).sel
        /\ f.lookup = Top(t).lookup /\ f.sup = Top(t).sup /\ f.invoked = Top(t).invoked /\ f.saved = Top(t).saved
    BY <1>0 DEF Frames, Steps
  <1>2. Become(t, f) /\ reg' = [reg EXCEPT ![t] = reg[t]]
    BY <1>0 DEF StoreVariant, CallsInv
  <1> HIDE DEF f
  <1>4. TopOK(Depth(t), f, reg[t])
    BY <1>0, <1>1 DEF TopOK
  <1>5. CallsInv'
    BY <1>0, <1>1, <1>2, <1>4, BecomeInv
  <1>6. TablesType'
    <2>1. cache' = [cache EXCEPT ![Found(t)] = Top(t).bridge] /\ superKey' = superKey
      BY DEF StoreVariant
    <2>2. Top(t).bridge \in Bridges \cup {None}
      BY <1>0 DEF Frames
    <2> QED
      BY <1>0, <2>1, <2>2 DEF TablesType
  <1> QED
    BY <1>5, <1>6 DEF IInv

(* The innermost frame returns.                                            *)
LEMMA ReturnInv ==
    ASSUME CallsInv, NEW t \in Threads, Depth(t) > 1, Pop(t), NEW r \in Registers,
           Top(t).invoked => r.lr = Top(t).saved.lr /\ (Keeps(Top(t)) => r.args = Top(t).saved.args),
           Top(t).at = "build" => ~ Top(t).invoked /\ Kept(r, Top(t).saved),
           reg' = [reg EXCEPT ![t] = r]
    PROVE  CallsInv'
  <1>1. CallOK(stack[t], reg[t]) /\ Depth(t) \in Nat
    BY TopFacts
  <1>2. LinkOK(Depth(t) - 1, stack[t][Depth(t) - 1], Top(t))
    BY <1>1, CallFacts DEF Depth, Top
  <1>3. TopOK(Depth(t) - 1, stack[t][Depth(t) - 1], r)
    BY <1>2 DEF LinkOK, Carries, TopOK, Kept
  <1>4. CallOK(Popped(stack[t]), r)
    BY <1>1, <1>3, PopCall DEF Depth
  <1>5. stack' = [stack EXCEPT ![t] = Popped(stack[t])]
    BY DEF Pop, Below, Popped, Depth
  <1> QED
    BY <1>4, <1>5, Moves

LEMMA MessageReturnsInv ==
    ASSUME IInv, NEW t \in Threads, RouteCollected(t) \/ BridgeReturns(t)
    PROVE  IInv'
  <1>0. /\ CallsInv /\ TablesType /\ Top(t).at \in {"lookup", "host", "called"} /\ Pop(t)
        /\ UNCHANGED <<superKey, cache>>
    BY DEF IInv, RouteCollected, Unrouted, BridgeReturns, At
  <1>1. ~ Top(t).invoked /\ Depth(t) > 1 /\ Top(t) \in Frames /\ reg[t] \in Registers
    BY <1>0, NotInvoked, TopFacts
  <1>2. Top(t).saved \in Registers
    BY <1>1 DEF Frames
  <1>3. PICK r \in Registers : reg' = [reg EXCEPT ![t] = Result(r)]
    BY <1>1, <1>2 DEF RouteCollected, BridgeReturns
  <1>4. CallsInv'
    BY <1>0, <1>1, <1>3, ResultType, ReturnInv
  <1> QED
    BY <1>0, <1>4 DEF IInv, TablesType

LEMMA GuestReturnsInv ==
    ASSUME IInv, NEW t \in Threads, GuestReturns(t)
    PROVE  IInv'
  <1> DEFINE r == IF ~ Top(t).invoked THEN Result(reg[t])
                  ELSE IF Keeps(Top(t)) THEN Top(t).saved ELSE Result(Top(t).saved)
  <1>0. /\ CallsInv /\ TablesType /\ Depth(t) > 1 /\ Pop(t) /\ UNCHANGED <<superKey, cache>>
        /\ Top(t).at = "body"
    BY DEF IInv, GuestReturns, At
  <1>1. Top(t) \in Frames /\ reg[t] \in Registers
    BY <1>0, TopFacts
  <1>2. Top(t).saved \in Registers
    BY <1>1 DEF Frames
  <1>3. /\ r \in Registers
        /\ Top(t).invoked => r.lr = Top(t).saved.lr /\ (Keeps(Top(t)) => r.args = Top(t).saved.args)
    BY <1>1, <1>2, ResultType
  <1>4. reg' = [reg EXCEPT ![t] = r]
    BY DEF GuestReturns
  <1> HIDE DEF r
  <1>5. CallsInv'
    BY <1>0, <1>3, <1>4, ReturnInv
  <1> QED
    BY <1>0, <1>5 DEF IInv, TablesType

LEMMA BuildShadowInv ==
    ASSUME IInv, NEW t \in Threads, xl_build_shadow(t)
    PROVE  IInv'
  <1>0. CallsInv /\ TablesType /\ Top(t).at = "build"
    BY DEF IInv, xl_build_shadow, At
  <1>1. CASE crash' = "taken" /\ UNCHANGED <<stack, reg, superKey, cache>>
    BY <1>0, <1>1 DEF IInv, CallsInv, TablesType
  <1>2. CASE Pop(t) /\ UNCHANGED <<reg, superKey, cache>>
    <2>1. /\ ~ Top(t).invoked /\ Depth(t) > 1 /\ reg[t] \in Registers /\ TopOK(Depth(t), Top(t), reg[t])
      BY <1>0, NotInvoked, TopFacts
    <2>2. Kept(reg[t], Top(t).saved)
      BY <1>0, <2>1 DEF TopOK
    <2>3. reg' = [reg EXCEPT ![t] = reg[t]]
      BY <1>0, <1>2 DEF CallsInv
    <2>4. CallsInv'
      BY <1>0, <1>2, <2>1, <2>2, <2>3, ReturnInv
    <2> QED
      BY <1>0, <1>2, <2>4 DEF IInv, TablesType
  <1> QED
    BY <1>1, <1>2 DEF xl_build_shadow, Die

(* The message that waited for a shadow goes on: with its own selector if  *)
(* making the shadow left the registers alone.                             *)
LEMMA ResumeFields ==
    ASSUME CallsInv, NEW t \in Threads, Resume(t)
    PROVE  /\ Top(t).at = "class" /\ reg[t] \in Registers /\ TopOK(Depth(t), Top(t), reg[t])
           /\ \E f \in Frames :
                  /\ ~ f.invoked /\ f.imp = Top(t).imp /\ f.rcv = Top(t).rcv /\ f.bridge = Top(t).bridge
                  /\ f.sup = Top(t).sup /\ f.lookup = Top(t).lookup /\ f.saved = Top(t).saved
                  /\ MessageOK(Depth(t), f) /\ Dispatch(t, Below(t), f, reg[t])
  <1>0. /\ Top(t).at = "class" /\ At(t, "class") /\ Top(t) \in Frames /\ reg[t] \in Registers
        /\ TopOK(Depth(t), Top(t), reg[t]) /\ MessageOK(Depth(t), Top(t)) /\ ~ Top(t).invoked
    BY TopFacts, TopMessage DEF Resume, At
  <1>1. PICK s \in Sels :
            /\ Top(t).sup = None \/ reg[t].args = Depth(t) => s = Top(t).sel
            /\ Dispatch(t, Below(t), [Top(t) EXCEPT !.sel = s], reg[t])
    BY DEF Resume
  <1> DEFINE f == [Top(t) EXCEPT !.sel = s]
  <1>2. /\ f \in Frames /\ f.invoked = Top(t).invoked /\ f.imp = Top(t).imp /\ f.rcv = Top(t).rcv
        /\ f.bridge = Top(t).bridge /\ f.sup = Top(t).sup /\ f.lookup = Top(t).lookup
        /\ f.saved = Top(t).saved /\ f.sel = s
    BY <1>0 DEF Frames
  <1>3. Dispatch(t, Below(t), f, reg[t])
    BY <1>1
  <1> HIDE DEF f
  <1>4. QuietBuilds => f.sel = Top(t).sel
    BY <1>0, <1>1, <1>2 DEF TopOK, Kept, MessageOK
  <1>5. MessageOK(Depth(t), f)
    BY <1>0, <1>2, <1>4 DEF MessageOK
  <1> QED
    BY <1>0, <1>2, <1>3, <1>5

LEMMA ResumeInv ==
    ASSUME IInv, NEW t \in Threads, Resume(t)
    PROVE  IInv'
  <1>0. /\ CallsInv /\ TablesType /\ UNCHANGED <<superKey, cache>> /\ Top(t).at = "class"
        /\ reg[t] \in Registers /\ TopOK(Depth(t), Top(t), reg[t])
    BY ResumeFields DEF IInv, Resume
  <1>1. PICK f \in Frames :
                  /\ ~ f.invoked /\ f.imp = Top(t).imp /\ f.rcv = Top(t).rcv /\ f.bridge = Top(t).bridge
                  /\ f.sup = Top(t).sup /\ f.lookup = Top(t).lookup /\ f.saved = Top(t).saved
                  /\ MessageOK(Depth(t), f) /\ Dispatch(t, Below(t), f, reg[t])
    BY <1>0, ResumeFields
  <1>2. ~ Top(t).invoked /\ Depth(t) > 1 /\ Top(t).rcv \in Classes /\ MessageOK(Depth(t), Top(t))
    BY <1>0, TopMessage
  <1>3. CASE reg' = [reg EXCEPT ![t] = Result(reg[t])] /\ stack' = [stack EXCEPT ![t] = Below(t)]
    <2>1. CallsInv'
      BY <1>0, <1>2, <1>3, ResultType, ReturnInv DEF Pop
    <2> QED
      BY <1>0, <2>1 DEF IInv, TablesType
  <1>4. ASSUME NEW step \in {"lookup", "host"}, reg' = [reg EXCEPT ![t] = reg[t]],
               stack' = [stack EXCEPT ![t] = Append(Below(t), Dispatched(f, step, reg[t]))]
        PROVE  IInv'
    <2> DEFINE g == Dispatched(f, step, reg[t])
    <2>1. /\ g \in Frames /\ g.at = step /\ g.rcv = f.rcv /\ g.sel = f.sel /\ g.lookup = f.lookup
          /\ g.sup = f.sup /\ g.imp = f.imp /\ g.invoked = f.invoked /\ g.saved = reg[t]
      BY <1>0, DispatchedFields
    <2>2. Become(t, g)
      BY <1>4 DEF Become
    <2> HIDE DEF g
    <2>3. reg[t].lr = Depth(t) - 1 /\ (QuietBuilds => reg[t].args = Depth(t))
      BY <1>0, <1>2 DEF TopOK, Kept, MessageOK
    <2>4. MessageOK(Depth(t), g)
      BY <1>1, <2>1, <2>3 DEF MessageOK
    <2>5. TopOK(Depth(t), g, reg[t])
      BY <2>1, <2>3 DEF TopOK
    <2>6. ~ g.invoked /\ g.at # "build" /\ g.rcv \in Classes /\ Top(t).at # "build"
      BY <1>0, <1>1, <1>2, <2>1
    <2>7. CallsInv'
      BY <1>0, <1>2, <1>4, <2>1, <2>2, <2>4, <2>5, <2>6, ChangeInv
    <2> QED
      BY <1>0, <2>7 DEF IInv, TablesType
  <1>5. \/ /\ reg' = [reg EXCEPT ![t] = Result(reg[t])]
           /\ stack' = [stack EXCEPT ![t] = Below(t)]
        \/ \E step \in {"lookup", "host"} :
               /\ step = "lookup" /\ f.sup = None => f.sel \notin Variadic
               /\ step = "host" => f.sel \in Variadic
               /\ reg' = [reg EXCEPT ![t] = reg[t]]
               /\ stack' = [stack EXCEPT ![t] = Append(Below(t), Dispatched(f, step, reg[t]))]
    BY <1>1, DispatchCases
  <1> QED
    BY <1>3, <1>4, <1>5

(* What a bridge messages.                                                 *)
BridgeFrom(t) ==
    IF (IF Top(t).sel \in Manual THEN None ELSE superKey[t]) # None /\ Top(t).sel \notin Format
      THEN SuperOf[superKey[t]] ELSE Top(t).rcv

LEMMA BridgeFacts ==
    ASSUME NEW t \in Threads, Bridge(t)
    PROVE  /\ At(t, "bridge")
           /\ superKey' = [superKey EXCEPT ![t] = IF Top(t).sel \in Manual THEN superKey[t] ELSE None]
           /\ Become(t, [Top(t) EXCEPT !.at = "host", !.imp = Find[BridgeFrom(t)][Top(t).sel]])
           /\ UNCHANGED <<reg, cache, init, crash>>
  <1>1. Become(t, [Top(t) EXCEPT !.at = "host", !.imp = Find[BridgeFrom(t)][Top(t).sel]])
    <2>1. CASE Top(t).sel \in Manual
      BY <2>1 DEF Bridge, BridgeFrom
    <2>2. CASE Top(t).sel \notin Manual
      BY <2>2 DEF Bridge, BridgeFrom
    <2> QED
      BY <2>1, <2>2
  <1> QED
    BY <1>1 DEF Bridge

LEMMA BridgeFromType ==
    ASSUME IInv, NEW t \in Threads, At(t, "bridge")
    PROVE  BridgeFrom(t) \in Classes /\ Find[BridgeFrom(t)][Top(t).sel] \in Imps \cup {None}
  <1>1. Top(t).rcv \in Classes /\ Top(t).sel \in Sels
    BY TopMessage DEF IInv, At
  <1>2. superKey[t] # None => SuperOf[superKey[t]] \in Classes
    BY MsgAssumption DEF IInv, TablesType, Subclasses
  <1>3. BridgeFrom(t) \in Classes
    BY <1>1, <1>2 DEF BridgeFrom
  <1> QED
    BY <1>1, <1>3, MsgAssumption

LEMMA BridgeInv ==
    ASSUME IInv, NEW t \in Threads, Bridge(t)
    PROVE  IInv'
  <1> DEFINE i == Find[BridgeFrom(t)][Top(t).sel]
             f == [Top(t) EXCEPT !.at = "host", !.imp = i]
  <1>0. /\ CallsInv /\ TablesType /\ At(t, "bridge") /\ Top(t).at = "bridge" /\ Top(t) \in Frames
        /\ reg[t] \in Registers /\ TopOK(Depth(t), Top(t), reg[t]) /\ UNCHANGED <<reg, cache>>
    BY BridgeFacts, TopFacts DEF IInv, At
  <1>1. i \in Imps \cup {None} /\ Become(t, f)
    BY <1>0, BridgeFacts, BridgeFromType
  <1> HIDE DEF i
  <1>2. /\ f \in Frames /\ f.at = "host" /\ f.rcv = Top(t).rcv /\ f.sel = Top(t).sel
        /\ f.lookup = Top(t).lookup /\ f.sup = Top(t).sup /\ f.invoked = Top(t).invoked /\ f.saved = Top(t).saved
    BY <1>0, <1>1 DEF Frames, Steps
  <1>3. reg' = [reg EXCEPT ![t] = reg[t]] /\ Become(t, f)
    BY <1>0, <1>1 DEF CallsInv
  <1> HIDE DEF f
  <1>5. TopOK(Depth(t), f, reg[t])
    BY <1>0, <1>2 DEF TopOK
  <1>6. CallsInv'
    BY <1>0, <1>2, <1>3, <1>5, BecomeInv
  <1>7. TablesType'
    BY <1>0, BridgeFacts DEF TablesType
  <1> QED
    BY <1>6, <1>7 DEF IInv

LEMMA InvokeMethodInv ==
    ASSUME IInv, NEW t \in Threads, InvokeMethod(t)
    PROVE  IInv'
  <1> USE MsgAssumption
  <1> DEFINE g == [Top(t) EXCEPT !.at = "called"]
             f == Invoked(Top(t).rcv, Top(t).imp, reg[t])
             q == [args |-> Depth(t) + 1, lr |-> 0]
             s == Replaced(stack[t], g)
  <1>0. /\ CallsInv /\ TablesType /\ Top(t).at = "host" /\ Top(t) \in Frames /\ Top(t).imp \in GuestImps
        /\ reg[t] \in Registers /\ q \in Registers /\ TopOK(Depth(t), Top(t), reg[t])
        /\ FrameOK(Depth(t), Top(t)) /\ CallOK(stack[t], reg[t]) /\ Depth(t) \in Nat
    BY TopFacts, CallType DEF IInv, At, InvokeMethod
  <1>1. /\ g \in Frames /\ g.at = "called" /\ g.rcv = Top(t).rcv /\ g.sel = Top(t).sel /\ g.imp = Top(t).imp
        /\ g.lookup = Top(t).lookup /\ g.sup = Top(t).sup /\ g.invoked = Top(t).invoked /\ g.saved = Top(t).saved
    BY <1>0 DEF Frames, Steps
  <1>2. /\ Top(t).rcv \in Classes /\ Top(t).imp \in Imps /\ ~ Top(t).invoked
        /\ MessageOK(Depth(t), Top(t))
    BY <1>0, TopMessage
  <1>3. f \in Frames /\ f.at = "body" /\ f.invoked /\ f.imp = Top(t).imp /\ f.rcv = Top(t).rcv /\ f.saved = reg[t]
    BY <1>0, <1>2, InvokedFields
  <1>4. stack' = [stack EXCEPT ![t] = Append(s, f)] /\ reg' = [reg EXCEPT ![t] = q]
    BY DEF InvokeMethod, Below, Replaced, Depth
  <1> HIDE DEF g, f, q
  <1>5. FrameOK(Depth(t), g) /\ TopOK(Depth(t), g, reg[t])
    BY <1>0, <1>1, <1>2 DEF FrameOK, MessageOK, TopOK
  <1>6. CallOK(s, reg[t]) /\ Len(s) = Depth(t) /\ s[Depth(t)] = g
    <2> DEFINE u == stack[t]
    <2>1. /\ CallOK(u, reg[t]) /\ FrameOK(Len(u), g) /\ TopOK(Len(u), g, reg[t])
          /\ ~ g.invoked /\ ~ u[Len(u)].invoked /\ g.at # "build" /\ u[Len(u)].at # "build"
      BY <1>0, <1>1, <1>2, <1>5 DEF Depth, Top
    <2> HIDE DEF u
    <2>2. g \in Frames
      BY <1>1
    <2>3. /\ CallOK(Replaced(u, g), reg[t]) /\ Len(Replaced(u, g)) = Len(u)
          /\ Replaced(u, g)[Len(u)] = g
      BY <2>1, <2>2, ReplaceCall
    <2> QED
      BY <2>3 DEF u, Depth
  <1> HIDE DEF s
  <1>7. FrameOK(Depth(t) + 1, f) /\ TopOK(Depth(t) + 1, f, q)
    BY <1>2, <1>3 DEF FrameOK, TopOK
  <1>8. LinkOK(Depth(t), g, f)
    BY <1>0, <1>1, <1>3 DEF LinkOK, Carries, TopOK
  <1>9. CallOK(Append(s, f), q)
    <2>1. f \in Frames /\ CallOK(s, reg[t])
      BY <1>3, <1>6
    <2>2. FrameOK(Len(s) + 1, f) /\ LinkOK(Len(s), s[Len(s)], f) /\ TopOK(Len(s) + 1, f, q)
      BY <1>6, <1>7, <1>8
    <2> QED
      BY <2>1, <2>2, PushCall
  <1>10. CallsInv'
    BY <1>0, <1>4, <1>9, Moves
  <1>11. TablesType'
    BY <1>0 DEF TablesType, InvokeMethod
  <1> QED
    BY <1>10, <1>11 DEF IInv

LEMMA HostCallsGuestInv ==
    ASSUME IInv, NEW t \in Threads, NEW c \in Classes, NEW s \in Sels, HostCallsGuest(t, c, s)
    PROVE  IInv'
  <1>0. CallsInv /\ TablesType /\ Top(t).at = "host" /\ Find[c][s] \in Imps \cup {None}
    BY MsgAssumption DEF IInv, At, HostCallsGuest
  <1>1. CallsInv'
    BY <1>0, InvokeInv DEF HostCallsGuest, Push
  <1> QED
    BY <1>0, <1>1 DEF IInv, TablesType, HostCallsGuest

LEMMA NextInv == IInv /\ [Next]_vars => IInv'
  <1> SUFFICES ASSUME IInv, [Next]_vars PROVE IInv'
    OBVIOUS
  <1>0. CallsInv /\ TablesType
    BY DEF IInv
  <1>1. CASE UNCHANGED vars
    BY <1>0, <1>1 DEF vars, IInv, CallsInv, TablesType
  <1>2. ASSUME NEW t \in Threads, Step(t) PROVE IInv'
    <2>1. ASSUME NEW c \in Classes, NEW s \in Sels, xl_h_objc_msgSend(t, c, s) PROVE IInv'
      BY <1>0, <2>1, MsgSendInv DEF IInv, TablesType, xl_h_objc_msgSend, Send
    <2>2. ASSUME NEW s \in SuperSels, xl_h_objc_msgSendSuper2(t, s) PROVE IInv'
      BY <1>0, <2>2, SuperInv DEF IInv, TablesType, xl_h_objc_msgSendSuper2, Send
    <2>3. ASSUME NEW c \in Classes, BeginInitialize(t, c) PROVE IInv'
      BY <1>0, <2>3, BeginInitializeInv DEF IInv, TablesType, BeginInitialize
    <2>4. CASE xl_fault(t)
      BY <1>0, <2>4 DEF xl_fault, Die, IInv, CallsInv, TablesType
    <2>5. ASSUME NEW c \in Classes, NEW s \in Sels, SwiftCall(t, c, s) PROVE IInv'
      BY <1>0, <2>5, SwiftInv DEF IInv, TablesType, SwiftCall
    <2>6. CASE BeginBuild(t)
      BY <1>0, <2>6, BeginBuildInv DEF IInv, TablesType, BeginBuild
    <2> QED
      BY <1>2, <2>1, <2>2, <2>3, <2>4, <2>5, <2>6, BuildShadowInv, ResumeInv, RouteStepInv, StoreVariantInv, MessageReturnsInv, BridgeInv,
         InvokeMethodInv, HostCallsGuestInv, GuestReturnsInv DEF Step
  <1> QED
    BY <1>1, <1>2 DEF Next

(* The registers and the stack of every thread stay in step, whatever the  *)
(* nesting of messages, callbacks and +initialize methods.                 *)
THEOREM Invariance == Spec => []IInv
  <1>1. Init => IInv
    BY InitInv
  <1>2. IInv /\ [Next]_vars => IInv'
    BY NextInv
  <1> QED
    BY <1>1, <1>2, PTL DEF Spec

(* A guest method, a bridge or a variadic handler starts with the          *)
(* arguments of its message, although the lookup may have run a            *)
(* +initialize on the same registers (objc_bridge.m 418-424), if no shadow *)
(* that a message is the first to meet is made below a class whose         *)
(* +initialize is guest Objective-C (743, 775).                            *)
THEOREM ArgumentsArriveHolds ==
    ASSUME QuietBuilds
    PROVE  Spec => []ArgumentsArrive
  <1>1. IInv => ArgumentsArrive
    <2> SUFFICES ASSUME IInv, NEW t \in Threads
                 PROVE  /\ At(t, "bridge") \/ At(t, "store") => reg[t].args = Depth(t)
                        /\ \A i \in 1..Depth(t) :
                               stack[t][i].at \in {"body", "host"} /\ ~ stack[t][i].invoked =>
                                   stack[t][i].saved.args = i
      BY DEF ArgumentsArrive
    <2>1. TopOK(Depth(t), Top(t), reg[t]) /\ CallOK(stack[t], reg[t])
      BY TopFacts DEF IInv
    <2>2. \A i \in 1..Depth(t) : FrameOK(i, stack[t][i])
      BY <2>1 DEF CallOK, Depth
    <2>3. At(t, "bridge") \/ At(t, "store") => reg[t].args = Depth(t)
      BY <2>1 DEF TopOK, At
    <2>4. ASSUME NEW i \in 1..Depth(t), stack[t][i].at \in {"body", "host"}, ~ stack[t][i].invoked
          PROVE stack[t][i].saved.args = i
      BY <2>2, <2>4 DEF FrameOK, MessageOK
    <2> QED
      BY <2>3, <2>4
  <1> QED
    BY <1>1, Invariance, PTL

(* A bridge returns to the guest code that sent the message, however often *)
(* its host method called back into the guest (runtime.c 363-371).         *)
THEOREM ReturnsToSenderHolds == Spec => []ReturnsToSender
  <1>1. IInv => ReturnsToSender
    <2> SUFFICES ASSUME IInv, NEW t \in Threads
                 PROVE  /\ At(t, "bridge") \/ At(t, "host") \/ At(t, "called") => reg[t].lr = Depth(t) - 1
                        /\ \A i \in 1..Depth(t) :
                               stack[t][i].at = "body" /\ ~ stack[t][i].invoked => stack[t][i].saved.lr = i - 1
      BY DEF ReturnsToSender
    <2>1. TopOK(Depth(t), Top(t), reg[t]) /\ CallOK(stack[t], reg[t])
      BY TopFacts DEF IInv
    <2>2. \A i \in 1..Depth(t) : FrameOK(i, stack[t][i])
      BY <2>1 DEF CallOK, Depth
    <2>3. At(t, "bridge") \/ At(t, "host") \/ At(t, "called") => reg[t].lr = Depth(t) - 1
      BY <2>1 DEF TopOK, At
    <2>4. ASSUME NEW i \in 1..Depth(t), stack[t][i].at = "body", ~ stack[t][i].invoked
          PROVE stack[t][i].saved.lr = i - 1
      BY <2>2, <2>4 DEF FrameOK, MessageOK
    <2> QED
      BY <2>3, <2>4
  <1> QED
    BY <1>1, Invariance, PTL

----------------------------------------------------------------------------
(* Every step keeps the messages routed.                                   *)

LEMMA RoutedTop ==
    ASSUME NEW s \in Seq(Frames), s # <<>>, NEW k, RoutedOK(s, k)
    PROVE  MethodOK(s[Len(s)]) /\ SlotOK(k, s[Len(s)])
  <1>1. Len(s) \in 1..Len(s)
    BY StackElements
  <1> QED
    BY <1>1 DEF RoutedOK

LEMMA RoutedPush ==
    ASSUME NEW s \in Seq(Frames), NEW f \in Frames, NEW k, RoutedOK(s, k), NEW q, MethodOK(f), SlotOK(q, f)
    PROVE  RoutedOK(Append(s, f), q)
  <1> DEFINE a == Append(s, f)
  <1>1. /\ Len(a) = Len(s) + 1 /\ a[Len(s) + 1] = f /\ Len(s) \in Nat
        /\ \A i \in 1..Len(s) : a[i] = s[i]
    BY Pushed, StackElements
  <1> HIDE DEF a
  <1>2. \A i \in 1..Len(a) : i \in 1..Len(s) \/ i = Len(s) + 1
    BY <1>1
  <1>3. RoutedOK(a, q)
    BY <1>1, <1>2 DEF RoutedOK
  <1> QED
    BY <1>3 DEF a

LEMMA RoutedReplace ==
    ASSUME NEW s \in Seq(Frames), s # <<>>, NEW f \in Frames, NEW k, RoutedOK(s, k), NEW q, MethodOK(f), SlotOK(q, f)
    PROVE  RoutedOK(Replaced(s, f), q)
  <1> DEFINE a == Replaced(s, f)
  <1>1. /\ Len(a) = Len(s) /\ a[Len(s)] = f /\ Len(s) \in Nat
        /\ \A i \in 1..(Len(s) - 1) : a[i] = s[i]
    BY TopChanged, StackElements
  <1> HIDE DEF a
  <1>2. \A i \in 1..Len(a) : i = Len(s) \/ (i \in 1..(Len(s) - 1) /\ i \in 1..Len(s))
    BY <1>1
  <1>3. RoutedOK(a, q)
    BY <1>1, <1>2 DEF RoutedOK
  <1> QED
    BY <1>3 DEF a

LEMMA RoutedPop ==
    ASSUME NEW s \in Seq(Frames), Len(s) > 1, NEW k, RoutedOK(s, k), NEW q, SlotOK(q, s[Len(s) - 1])
    PROVE  RoutedOK(Popped(s), q)
  <1> DEFINE a == Popped(s)
  <1>0. s # <<>> /\ Len(s) \in Nat
    BY StackElements
  <1>1. Len(a) = Len(s) - 1 /\ \A i \in 1..(Len(s) - 1) : a[i] = s[i]
    BY <1>0, TopPopped
  <1> HIDE DEF a
  <1>2. /\ \A i \in 1..Len(a) : i \in 1..(Len(s) - 1) /\ i \in 1..Len(s)
        /\ Len(a) \in 1..(Len(s) - 1)
    BY <1>0, <1>1
  <1>3. RoutedOK(a, q)
    BY <1>1, <1>2 DEF RoutedOK
  <1> QED
    BY <1>3 DEF a

LEMMA RouteMoves ==
    ASSUME IInv, RouteInv, NEW t \in Threads, NEW s, NEW k, RoutedOK(s, k),
           stack' = [stack EXCEPT ![t] = s], superKey' = [superKey EXCEPT ![t] = k],
           \A i \in Imps : CacheOK(i, cache'[i])
    PROVE  RouteInv'
  <1>1. ASSUME NEW u \in Threads PROVE RoutedOK(stack'[u], superKey'[u])
    <2>1. CASE u = t
      BY <2>1 DEF IInv, CallsInv, TablesType
    <2>2. CASE u # t
      BY <2>2 DEF IInv, CallsInv, TablesType, RouteInv
    <2> QED
      BY <2>1, <2>2
  <1> QED
    BY <1>1 DEF RouteInv

(* What the innermost frame of a thread says of its slot.                  *)
LEMMA RouteFacts ==
    ASSUME IInv, RouteInv, NEW t \in Threads
    PROVE  /\ stack[t] \in Seq(Frames) /\ stack[t] # <<>> /\ RoutedOK(stack[t], superKey[t])
           /\ MethodOK(Top(t)) /\ SlotOK(superKey[t], Top(t))
           /\ Top(t).at # "bridge" => superKey[t] = None
           /\ superKey \in [Threads -> Subclasses \cup {None}]
           /\ \A i \in Imps : CacheOK(i, cache[i])
  <1>1. /\ stack[t] \in Seq(Frames) /\ stack[t] # <<>> /\ RoutedOK(stack[t], superKey[t])
        /\ superKey \in [Threads -> Subclasses \cup {None}]
        /\ \A i \in Imps : CacheOK(i, cache[i])
    BY TopFacts DEF IInv, RouteInv, TablesType
  <1>2. MethodOK(Top(t)) /\ SlotOK(superKey[t], Top(t))
    BY <1>1, RoutedTop DEF Top, Depth
  <1>3. Top(t).at # "bridge" => superKey[t] = None
    BY <1>2 DEF SlotOK
  <1> QED
    BY <1>1, <1>2, <1>3

(* A frame is pushed on one that is at no bridge.                          *)
LEMMA PushRoute ==
    ASSUME IInv, RouteInv, NEW t \in Threads, Top(t).at # "bridge", NEW f \in Frames,
           f.at # "bridge", MethodOK(f), Push(t, f), UNCHANGED <<superKey, cache>>
    PROVE  RouteInv'
  <1>1. /\ stack[t] \in Seq(Frames) /\ RoutedOK(stack[t], superKey[t]) /\ superKey[t] = None
        /\ \A i \in Imps : CacheOK(i, cache'[i])
    BY RouteFacts
  <1>2. SlotOK(None, f)
    BY DEF SlotOK
  <1>3. RoutedOK(Append(stack[t], f), None)
    BY <1>1, <1>2, RoutedPush
  <1>4. stack' = [stack EXCEPT ![t] = Append(stack[t], f)] /\ superKey' = [superKey EXCEPT ![t] = None]
    BY <1>1, RouteFacts DEF Push
  <1> QED
    BY <1>1, <1>3, <1>4, RouteMoves

(* The innermost frame changes.                                            *)
LEMMA BecomeRoute ==
    ASSUME IInv, RouteInv, NEW t \in Threads, NEW f \in Frames, NEW k,
           MethodOK(f), SlotOK(k, f), Become(t, f), superKey' = [superKey EXCEPT ![t] = k],
           \A i \in Imps : CacheOK(i, cache'[i])
    PROVE  RouteInv'
  <1>1. stack[t] \in Seq(Frames) /\ stack[t] # <<>> /\ RoutedOK(stack[t], superKey[t])
    BY RouteFacts
  <1>2. RoutedOK(Replaced(stack[t], f), k)
    BY <1>1, RoutedReplace
  <1>3. stack' = [stack EXCEPT ![t] = Replaced(stack[t], f)]
    BY DEF Become, Below, Replaced, Depth
  <1> QED
    BY <1>2, <1>3, RouteMoves

(* The innermost frame returns.                                            *)
LEMMA PopRoute ==
    ASSUME IInv, RouteInv, NEW t \in Threads, Top(t).at # "bridge", Depth(t) > 1, Pop(t),
           UNCHANGED <<superKey, cache>>
    PROVE  RouteInv'
  <1> DEFINE e == stack[t][Depth(t) - 1]
  <1>1. /\ stack[t] \in Seq(Frames) /\ RoutedOK(stack[t], superKey[t]) /\ superKey[t] = None
        /\ superKey \in [Threads -> Subclasses \cup {None}]
        /\ \A i \in Imps : CacheOK(i, cache'[i])
    BY RouteFacts
  <1>2. LinkOK(Depth(t) - 1, e, Top(t))
    BY TopFacts, CallFacts DEF IInv, Depth, Top
  <1>3. SlotOK(None, e)
    BY <1>2 DEF LinkOK, Carries, SlotOK
  <1>4. RoutedOK(Popped(stack[t]), None)
    BY <1>1, <1>3, RoutedPop DEF Depth
  <1>5. stack' = [stack EXCEPT ![t] = Popped(stack[t])] /\ superKey' = [superKey EXCEPT ![t] = None]
    BY <1>1 DEF Pop, Below, Popped, Depth
  <1> QED
    BY <1>1, <1>4, <1>5, RouteMoves

LEMMA InitRoute == Init => RouteInv
  <1> SUFFICES ASSUME Init PROVE RouteInv
    OBVIOUS
  <1> USE MsgAssumption
  <1> DEFINE f == Invoked(None, None, NoCall)
  <1>1. f.at = "body"
    BY DEF Invoked
  <1>2. stack = [t \in Threads |-> <<f>>] /\ superKey = [t \in Threads |-> None] /\ cache = [i \in Imps |-> None]
    BY DEF Init
  <1> HIDE DEF f
  <1>3. MethodOK(f) /\ SlotOK(None, f)
    BY <1>1 DEF MethodOK, SlotOK
  <1>4. RoutedOK(<<f>>, None)
    BY <1>3 DEF RoutedOK
  <1> QED
    BY <1>2, <1>4 DEF RouteInv, CacheOK

(* The frame of a message at the step Dispatch takes it to.                *)
LEMMA DispatchedMethod ==
    ASSUME NEW f \in Frames, f.bridge = None, NEW r \in Registers, NEW step \in {"lookup", "host"},
           step = "lookup" /\ f.sup = None => f.sel \notin Variadic,
           step = "host" => f.sel \in Variadic
    PROVE  /\ Dispatched(f, step, r) \in Frames /\ Dispatched(f, step, r).at # "bridge"
           /\ MethodOK(Dispatched(f, step, r))
  <1> DEFINE g == Dispatched(f, step, r)
  <1>1. g \in Frames /\ g.at = step /\ g.sel = f.sel /\ g.sup = f.sup /\ g.bridge = f.bridge
    BY DispatchedFields
  <1> HIDE DEF g
  <1>2. MethodOK(g)
    BY <1>1 DEF MethodOK
  <1> QED
    BY <1>1, <1>2 DEF g

LEMMA SendRoute ==
    ASSUME IInv, RouteInv, NEW t \in Threads, NEW c, NEW f \in Frames, f.at = "class", f.bridge = None,
           Send(t, c, f)
    PROVE  RouteInv'
  <1>0. CallsInv /\ Top(t).at # "bridge" /\ UNCHANGED <<superKey, cache>> /\ Call(t) \in Registers
    BY CallType DEF IInv, At, Send
  <1>1. CASE Push(t, f)
    <2>1. MethodOK(f)
      BY DEF MethodOK
    <2> QED
      BY <1>0, <1>1, <2>1, PushRoute
  <1>2. CASE stack' = [stack EXCEPT ![t] = stack[t]]
    <2>1. stack' = stack
      BY <1>0, <1>2 DEF CallsInv
    <2> QED
      BY <1>0, <2>1 DEF RouteInv
  <1>3. ASSUME NEW step \in {"lookup", "host"},
               step = "lookup" /\ f.sup = None => f.sel \notin Variadic,
               step = "host" => f.sel \in Variadic,
               stack' = [stack EXCEPT ![t] = Append(stack[t], Dispatched(f, step, Call(t)))]
        PROVE  RouteInv'
    <2> DEFINE g == Dispatched(f, step, Call(t))
    <2>1. g \in Frames /\ g.at # "bridge" /\ MethodOK(g)
      BY <1>0, <1>3, DispatchedMethod
    <2>2. Push(t, g)
      BY <1>3 DEF Push
    <2> HIDE DEF g
    <2> QED
      BY <1>0, <2>1, <2>2, PushRoute
  <1>4. CASE Dispatch(t, stack[t], f, Call(t))
    BY <1>2, <1>3, <1>4, DispatchCases
  <1> QED
    BY <1>1, <1>4 DEF Send

LEMMA MsgSendRoute ==
    ASSUME IInv, RouteInv, NEW t \in Threads, NEW c \in Classes, NEW s \in Sels, xl_h_objc_msgSend(t, c, s)
    PROVE  RouteInv'
  <1> DEFINE f == Message(t, c, s, c, None)
  <1>0. CallsInv /\ None \in Classes \cup {None}
    BY DEF IInv
  <1>1. /\ f \in Frames /\ f.at = "class" /\ f.rcv = c /\ f.sel = s /\ f.lookup = c /\ f.sup = None
        /\ f.imp = None /\ f.bridge = None /\ ~ f.invoked
        /\ f.saved = [args |-> Depth(t) + 1, lr |-> Depth(t)]
    BY <1>0, MessageFields
  <1>2. Send(t, c, f)
    BY DEF xl_h_objc_msgSend
  <1> HIDE DEF f
  <1> QED
    BY <1>1, <1>2, SendRoute

LEMMA SuperRoute ==
    ASSUME IInv, RouteInv, NEW t \in Threads, NEW s \in SuperSels, xl_h_objc_msgSendSuper2(t, s)
    PROVE  RouteInv'
  BY SuperFields, SendRoute DEF IInv

LEMMA SwiftRoute ==
    ASSUME IInv, RouteInv, NEW t \in Threads, NEW c \in Classes, NEW s \in Sels, SwiftCall(t, c, s)
    PROVE  RouteInv'
  <1>1. CallsInv /\ Top(t).at # "bridge" /\ UNCHANGED <<superKey, cache>>
    BY DEF IInv, At, SwiftCall
  <1>2. PICK f \in Frames : f.at = "body" /\ Push(t, f)
    BY <1>1, SwiftFields
  <1>3. MethodOK(f)
    BY <1>2 DEF MethodOK
  <1> QED
    BY <1>1, <1>2, <1>3, PushRoute

LEMMA BuildRoute ==
    ASSUME IInv, RouteInv, NEW t \in Threads, BeginBuild(t) \/ xl_build_shadow(t)
    PROVE  RouteInv'
  <1>0. CallsInv /\ Top(t).at \in {"class", "build"} /\ UNCHANGED <<superKey, cache>>
    BY DEF IInv, At, BeginBuild, xl_build_shadow, Die
  <1>1. CASE BeginBuild(t)
    <2>1. PICK f \in Frames : f.at = "build" /\ Push(t, f)
      BY <1>0, <1>1, BuildFields
    <2>2. MethodOK(f)
      BY <2>1 DEF MethodOK
    <2> QED
      BY <1>0, <2>1, <2>2, PushRoute
  <1>2. CASE xl_build_shadow(t)
    <2>1. Depth(t) > 1
      BY <1>0, NotInvoked
    <2>2. Pop(t) \/ UNCHANGED stack
      BY <1>2 DEF xl_build_shadow, Die
    <2>3. CASE UNCHANGED stack
      BY <1>0, <2>3 DEF RouteInv
    <2> QED
      BY <1>0, <2>1, <2>2, <2>3, PopRoute
  <1> QED
    BY <1>1, <1>2

LEMMA ResumeRoute ==
    ASSUME IInv, RouteInv, NEW t \in Threads, Resume(t)
    PROVE  RouteInv'
  <1>0. /\ CallsInv /\ Top(t).at = "class" /\ UNCHANGED <<superKey, cache>> /\ reg[t] \in Registers
        /\ MethodOK(Top(t)) /\ superKey[t] = None /\ superKey' = [superKey EXCEPT ![t] = None]
        /\ \A i \in Imps : CacheOK(i, cache'[i])
    BY ResumeFields, RouteFacts DEF IInv, Resume
  <1>1. PICK f \in Frames : f.bridge = Top(t).bridge /\ Dispatch(t, Below(t), f, reg[t])
    BY <1>0, ResumeFields
  <1>2. f.bridge = None /\ Depth(t) > 1
    BY <1>0, <1>1, NotInvoked DEF MethodOK
  <1>3. CASE stack' = [stack EXCEPT ![t] = Below(t)]
    BY <1>0, <1>2, <1>3, PopRoute DEF Pop
  <1>4. ASSUME NEW step \in {"lookup", "host"},
               step = "lookup" /\ f.sup = None => f.sel \notin Variadic,
               step = "host" => f.sel \in Variadic,
               stack' = [stack EXCEPT ![t] = Append(Below(t), Dispatched(f, step, reg[t]))]
        PROVE  RouteInv'
    <2> DEFINE g == Dispatched(f, step, reg[t])
    <2>1. g \in Frames /\ g.at # "bridge" /\ MethodOK(g)
      BY <1>0, <1>2, <1>4, DispatchedMethod
    <2>2. Become(t, g)
      BY <1>4 DEF Become
    <2> HIDE DEF g
    <2>3. SlotOK(None, g)
      BY <2>1 DEF SlotOK
    <2> QED
      BY <1>0, <2>1, <2>2, <2>3, BecomeRoute
  <1>5. \/ /\ reg' = [reg EXCEPT ![t] = Result(reg[t])]
           /\ stack' = [stack EXCEPT ![t] = Below(t)]
        \/ \E step \in {"lookup", "host"} :
               /\ step = "lookup" /\ f.sup = None => f.sel \notin Variadic
               /\ step = "host" => f.sel \in Variadic
               /\ reg' = [reg EXCEPT ![t] = reg[t]]
               /\ stack' = [stack EXCEPT ![t] = Append(Below(t), Dispatched(f, step, reg[t]))]
    BY <1>1, DispatchCases
  <1> QED
    BY <1>3, <1>4, <1>5

LEMMA InvokedRoute ==
    ASSUME IInv, RouteInv, NEW t \in Threads, Top(t).at # "bridge",
           NEW c \in Classes, NEW i \in Imps \cup {None}, Push(t, Invoked(c, i, reg[t])),
           UNCHANGED <<superKey, cache>>
    PROVE  RouteInv'
  <1> DEFINE f == Invoked(c, i, reg[t])
  <1>1. reg[t] \in Registers
    BY TopFacts DEF IInv
  <1>2. f \in Frames /\ f.at = "body"
    BY <1>1, InvokedFields
  <1>3. Push(t, f)
    OBVIOUS
  <1> HIDE DEF f
  <1>4. MethodOK(f)
    BY <1>2 DEF MethodOK
  <1> QED
    BY <1>2, <1>3, <1>4, PushRoute

LEMMA BeginInitializeRoute ==
    ASSUME IInv, RouteInv, NEW t \in Threads, NEW c \in Classes, BeginInitialize(t, c)
    PROVE  RouteInv'
  <1>0. Top(t).at # "bridge" /\ UNCHANGED <<superKey, cache>>
    BY DEF BeginInitialize, At
  <1>1. CASE UNCHANGED stack
    BY <1>0, <1>1 DEF RouteInv
  <1>2. CASE Push(t, Invoked(c, None, reg[t]))
    BY <1>0, <1>2, InvokedRoute
  <1> QED
    BY <1>1, <1>2 DEF BeginInitialize

LEMMA HostCallsGuestRoute ==
    ASSUME IInv, RouteInv, NEW t \in Threads, NEW c \in Classes, NEW s \in Sels, HostCallsGuest(t, c, s)
    PROVE  RouteInv'
  <1>0. /\ Top(t).at # "bridge" /\ UNCHANGED <<superKey, cache>> /\ Find[c][s] \in Imps \cup {None}
        /\ Push(t, Invoked(c, Find[c][s], reg[t]))
    BY MsgAssumption DEF HostCallsGuest, At
  <1> QED
    BY <1>0, InvokedRoute

LEMMA ReturnRoute ==
    ASSUME IInv, RouteInv, NEW t \in Threads, RouteCollected(t) \/ BridgeReturns(t) \/ GuestReturns(t)
    PROVE  RouteInv'
  <1>0. CallsInv /\ Top(t).at # "bridge" /\ Pop(t) /\ UNCHANGED <<superKey, cache>>
    BY DEF IInv, RouteCollected, Unrouted, BridgeReturns, GuestReturns, At
  <1>1. Depth(t) > 1
    <2>1. CASE GuestReturns(t)
      BY <2>1 DEF GuestReturns
    <2>2. CASE RouteCollected(t) \/ BridgeReturns(t)
      BY <1>0, <2>2, NotInvoked DEF RouteCollected, Unrouted, BridgeReturns, At
    <2> QED
      BY <2>1, <2>2
  <1> QED
    BY <1>0, <1>1, PopRoute

(* The lookup is over and the message goes on.                             *)
LEMMA GoesRoute ==
    ASSUME IInv, RouteInv, NEW t \in Threads, NEW step \in {"body", "store", "bridge", "host"},
           NEW i \in Imps \cup {None}, NEW b \in Bridges \cup {None}, Goes(t, step, i, b),
           NEW k, superKey' = [superKey EXCEPT ![t] = k], cache' = cache,
           IF step = "bridge" THEN k = Top(t).sup ELSE k = None,
           step = "store" => /\ Found(t) # None /\ Top(t).sup = None /\ b # None
                             /\ b = VariantBridge(Top(t).sel, Enc[Found(t)]),
           step = "bridge" => Top(t).sel \notin Variadic /\ Fits(b, Top(t).sel, Found(t)),
           step = "host" => i = Found(t) /\ b = None
    PROVE  RouteInv'
  <1> DEFINE f == [Top(t) EXCEPT !.at = step, !.imp = i, !.bridge = b]
  <1>0. CallsInv /\ Top(t) \in Frames /\ Top(t).at = "lookup" /\ At(t, "lookup")
    BY TopFacts DEF IInv, Goes, At
  <1>1. step \in Steps
    BY DEF Steps
  <1>2. /\ f \in Frames /\ f.at = step /\ f.sel = Top(t).sel /\ f.imp = i /\ f.bridge = b
        /\ f.lookup = Top(t).lookup /\ f.sup = Top(t).sup
    BY <1>0, <1>1 DEF Frames
  <1>3. Become(t, f)
    BY DEF Goes
  <1> HIDE DEF f
  <1>4. FoundBy(f) = Found(t)
    BY <1>2 DEF FoundBy, Found
  <1>5. MethodOK(f)
    BY <1>2, <1>4 DEF MethodOK
  <1>6. SlotOK(k, f)
    BY <1>2 DEF SlotOK
  <1>7. \A j \in Imps : CacheOK(j, cache'[j])
    BY RouteFacts
  <1> QED
    BY <1>2, <1>3, <1>5, <1>6, <1>7, BecomeRoute

(* The tables and the slot at the end of a lookup.                         *)
LEMMA LookupFacts ==
    ASSUME IInv, RouteInv, NEW t \in Threads, At(t, "lookup")
    PROVE  /\ Found(t) \in Imps \cup {None} /\ Top(t).sel \in Sels /\ Top(t).lookup \in Classes
           /\ superKey[t] = None /\ superKey = [superKey EXCEPT ![t] = None]
           /\ SelBridge(Top(t).sel) \in Bridges \cup {None} /\ Variant(t) \in Bridges \cup {None}
           /\ Cached(t) \in Bridges \cup {None}
           /\ QuietBuilds /\ Top(t).sup # None => Top(t).sel \in SuperSels
           /\ Top(t).sup = None => Top(t).sel \notin Variadic
           /\ Cached(t) # None => Found(t) \in Imps /\ CacheOK(Found(t), Cached(t))
  <1>0. CallsInv /\ TablesType /\ Top(t).at = "lookup"
    BY DEF IInv, At
  <1>1. Found(t) \in Imps \cup {None} /\ Top(t).sel \in Sels /\ Top(t).lookup \in Classes
    BY <1>0, FoundType, TopMessage
  <1>2. SelBridge(Top(t).sel) \in Bridges \cup {None} /\ Variant(t) \in Bridges \cup {None}
        /\ Cached(t) \in Bridges \cup {None}
    <2>1. Found(t) # None => Enc[Found(t)] \in Encs /\ cache[Found(t)] \in Bridges \cup {None}
      BY <1>0, <1>1, MsgAssumption DEF TablesType
    <2> QED
      BY <1>1, <2>1, BridgeTypes DEF Variant, Cached
  <1>3. superKey[t] = None /\ superKey \in [Threads -> Subclasses \cup {None}]
    BY <1>0, RouteFacts
  <1>4. QuietBuilds /\ Top(t).sup # None => Top(t).sel \in SuperSels
    BY <1>0, TopMessage DEF MessageOK
  <1>5. Top(t).sup = None => Top(t).sel \notin Variadic
    BY <1>0, RouteFacts DEF MethodOK
  <1>6. Cached(t) # None => Found(t) \in Imps /\ CacheOK(Found(t), Cached(t))
    BY <1>1, RouteFacts DEF Cached
  <1> QED
    BY <1>1, <1>2, <1>3, <1>4, <1>5, <1>6

(* A method reached by a variant is a varied one.                          *)
LEMMA VariantIsVaried ==
    ASSUME NEW c \in Classes, NEW s \in Sels, Find[c][s] # None, VariantBridge(s, Enc[Find[c][s]]) # None
    PROVE  /\ Varied(Find[c][s])
           /\ VariantBridge(s, Enc[Find[c][s]])[2] = Enc[Find[c][s]]
           /\ s \notin Variadic
  <1>1. Varied(Find[c][s])
    BY DEF Varied
  <1> QED
    BY <1>1 DEF VariantBridge, SelBridge

(* A message to super meets neither the cache nor a variant.               *)
LEMMA SuperNotVaried ==
    ASSUME SuperIsPlain, QuietBuilds, IInv, RouteInv, NEW t \in Threads, At(t, "lookup"), Top(t).sup # None
    PROVE  Cached(t) = None /\ Variant(t) = None
  <1>1. Found(t) # None => ~ Varied(Found(t))
    BY LookupFacts DEF SuperIsPlain, Found
  <1>2. Cached(t) = None
    BY <1>1, LookupFacts, MsgAssumption DEF CacheOK
  <1>3. Variant(t) # None => Found(t) # None /\ Varied(Found(t))
    BY LookupFacts, VariantIsVaried DEF Variant, Found
  <1> QED
    BY <1>1, <1>2, <1>3

LEMMA RouteToGuestRoute ==
    ASSUME IInv, RouteInv, NEW t \in Threads, RouteToGuest(t)
    PROVE  RouteInv'
  <1>1. At(t, "lookup") /\ Goes(t, "body", Found(t), None) /\ cache' = cache /\ superKey' = superKey
    BY DEF RouteToGuest
  <1>2. superKey' = [superKey EXCEPT ![t] = None] /\ Found(t) \in Imps \cup {None}
    BY <1>1, LookupFacts
  <1> QED
    BY <1>1, <1>2, GoesRoute

LEMMA DynamicSendRoute ==
    ASSUME IInv, RouteInv, NEW t \in Threads, xl_dynamic_send(t)
    PROVE  RouteInv'
  <1>1. At(t, "lookup") /\ Goes(t, "host", Found(t), None) /\ cache' = cache /\ superKey' = superKey
    BY DEF xl_dynamic_send, Unrouted
  <1>2. superKey' = [superKey EXCEPT ![t] = None] /\ Found(t) \in Imps \cup {None}
    BY <1>1, LookupFacts
  <1> QED
    BY <1>1, <1>2, GoesRoute

LEMMA RouteCachedRoute ==
    ASSUME SuperIsPlain, QuietBuilds, IInv, RouteInv, NEW t \in Threads, RouteCached(t)
    PROVE  RouteInv'
  <1>1. /\ At(t, "lookup") /\ Cached(t) # None /\ Goes(t, "bridge", None, Cached(t))
        /\ cache' = cache /\ superKey' = superKey
    BY DEF RouteCached
  <1>2. /\ superKey' = [superKey EXCEPT ![t] = None] /\ Found(t) \in Imps /\ CacheOK(Found(t), Cached(t))
        /\ Cached(t) \in Bridges \cup {None}
    BY <1>1, LookupFacts
  <1>3. Top(t).sup = None
    BY <1>1, SuperNotVaried
  <1>4. Top(t).sel \notin Variadic
    BY <1>1, <1>3, LookupFacts
  <1>5. Fits(Cached(t), Top(t).sel, Found(t))
    BY <1>1, <1>2 DEF Fits, CacheOK
  <1>6. None \in Imps \cup {None}
    OBVIOUS
  <1> QED
    BY <1>1, <1>2, <1>3, <1>4, <1>5, <1>6, GoesRoute

LEMMA RouteVariantRoute ==
    ASSUME SuperIsPlain, QuietBuilds, IInv, RouteInv, NEW t \in Threads, RouteVariant(t)
    PROVE  RouteInv'
  <1>1. /\ At(t, "lookup") /\ Variant(t) # None /\ Goes(t, "store", None, Variant(t))
        /\ cache' = cache /\ superKey' = superKey
    BY DEF RouteVariant
  <1>2. superKey' = [superKey EXCEPT ![t] = None] /\ Variant(t) \in Bridges \cup {None}
    BY <1>1, LookupFacts
  <1>3. Top(t).sup = None
    BY <1>1, SuperNotVaried
  <1>4. Found(t) # None /\ Variant(t) = VariantBridge(Top(t).sel, Enc[Found(t)])
    BY <1>1 DEF Variant
  <1>5. None \in Imps \cup {None}
    OBVIOUS
  <1> QED
    BY <1>1, <1>2, <1>3, <1>4, <1>5, GoesRoute

(* The slot gets the class of a message to super.                          *)
LEMMA RouteSelectorRoute ==
    ASSUME IInv, RouteInv, NEW t \in Threads, RouteSelector(t)
    PROVE  RouteInv'
  <1> DEFINE b == SelBridge(Top(t).sel)
  <1>1. /\ At(t, "lookup") /\ Variant(t) = None /\ b # None /\ Goes(t, "bridge", None, b)
        /\ cache' = cache
        /\ superKey' = [superKey EXCEPT ![t] = IF Top(t).sup = None THEN superKey[t] ELSE Top(t).sup]
    BY DEF RouteSelector
  <1>2. superKey[t] = None /\ b \in Bridges \cup {None}
    BY <1>1, LookupFacts
  <1>3. superKey' = [superKey EXCEPT ![t] = Top(t).sup]
    BY <1>1, <1>2
  <1>4. Top(t).sel \notin Variadic
    BY <1>1 DEF SelBridge
  <1>5. Fits(b, Top(t).sel, Found(t))
    BY <1>1 DEF Variant, Fits
  <1>6. None \in Imps \cup {None}
    OBVIOUS
  <1> HIDE DEF b
  <1> QED
    BY <1>1, <1>2, <1>3, <1>4, <1>5, <1>6, GoesRoute

LEMMA StoreVariantRoute ==
    ASSUME IInv, RouteInv, NEW t \in Threads, StoreVariant(t)
    PROVE  RouteInv'
  <1> DEFINE f == [Top(t) EXCEPT !.at = "bridge"]
  <1>0. /\ CallsInv /\ TablesType /\ At(t, "store") /\ Top(t).at = "store" /\ Top(t) \in Frames
        /\ MethodOK(Top(t)) /\ superKey[t] = None /\ superKey = [superKey EXCEPT ![t] = None]
        /\ \A i \in Imps : CacheOK(i, cache[i])
    BY TopFacts, RouteFacts DEF IInv, StoreVariant, At
  <1>1. Top(t).sel \in Sels /\ Top(t).lookup \in Classes /\ Found(t) \in Imps \cup {None} /\ Found(t) = FoundBy(Top(t))
    BY <1>0, TopMessage, FoundType
  <1>2. /\ Found(t) # None /\ Top(t).sup = None
        /\ Top(t).bridge = VariantBridge(Top(t).sel, Enc[Found(t)]) /\ Top(t).bridge # None
    BY <1>0, <1>1 DEF MethodOK
  <1>3. Varied(Found(t)) /\ Top(t).bridge[2] = Enc[Found(t)] /\ Top(t).sel \notin Variadic
    BY <1>1, <1>2, VariantIsVaried DEF FoundBy
  <1>4. /\ f \in Frames /\ f.at = "bridge" /\ f.sel = Top(t).sel /\ f.bridge = Top(t).bridge
        /\ f.lookup = Top(t).lookup /\ f.sup = Top(t).sup
    BY <1>0 DEF Frames, Steps
  <1>5. Become(t, f) /\ superKey' = [superKey EXCEPT ![t] = None] /\ cache' = [cache EXCEPT ![Found(t)] = Top(t).bridge]
    BY <1>0 DEF StoreVariant
  <1> HIDE DEF f
  <1>6. FoundBy(f) = Found(t)
    BY <1>1, <1>4 DEF FoundBy
  <1>7. MethodOK(f) /\ SlotOK(None, f)
    BY <1>2, <1>3, <1>4, <1>6 DEF MethodOK, SlotOK, Fits
  <1>8. \A i \in Imps : CacheOK(i, cache'[i])
    <2>1. cache'[Found(t)] = Top(t).bridge /\ \A i \in Imps \ {Found(t)} : cache'[i] = cache[i]
      BY <1>0, <1>1, <1>2, <1>5 DEF TablesType
    <2>2. CacheOK(Found(t), Top(t).bridge)
      BY <1>3 DEF CacheOK
    <2> QED
      BY <1>0, <2>1, <2>2
  <1> QED
    BY <1>4, <1>5, <1>7, <1>8, BecomeRoute

(* The bridge finds the class of its own message in the slot: it looks up  *)
(* the method the lookup found.                                            *)
LEMMA BridgeRoute ==
    ASSUME SuperIsPlain, QuietBuilds, IInv, RouteInv, NEW t \in Threads, Bridge(t)
    PROVE  RouteInv'
  <1> DEFINE i == Find[BridgeFrom(t)][Top(t).sel]
             f == [Top(t) EXCEPT !.at = "host", !.imp = i]
  <1>0. /\ CallsInv /\ At(t, "bridge") /\ Top(t).at = "bridge" /\ Top(t) \in Frames
        /\ MethodOK(Top(t)) /\ superKey[t] = Top(t).sup
        /\ \A j \in Imps : CacheOK(j, cache'[j])
    BY BridgeFacts, TopFacts, RouteFacts DEF IInv, At, SlotOK
  <1>1. i \in Imps \cup {None} /\ Become(t, f)
    BY <1>0, BridgeFacts, BridgeFromType
  <1>2. /\ Top(t).sup = None => Top(t).lookup = Top(t).rcv
        /\ Top(t).sup # None => /\ Top(t).sel \notin Manual \cup Format
                                /\ SuperOf[Top(t).sup] = Top(t).lookup
    BY <1>0, TopMessage DEF MessageOK, SuperIsPlain
  <1>3. BridgeFrom(t) = Top(t).lookup
    BY <1>0, <1>2 DEF BridgeFrom
  <1>4. i = FoundBy(Top(t))
    BY <1>3 DEF FoundBy
  <1> HIDE DEF i
  <1>5. /\ f \in Frames /\ f.at = "host" /\ f.sel = Top(t).sel /\ f.lookup = Top(t).lookup
        /\ f.imp = i /\ f.bridge = Top(t).bridge
    BY <1>0, <1>1 DEF Frames, Steps
  <1>6. Become(t, f)
    BY <1>1
  <1> HIDE DEF f
  <1>7. MethodOK(f) /\ SlotOK(None, f)
    <2>1. FoundBy(f) = i
      BY <1>4, <1>5 DEF FoundBy
    <2>2. Top(t).sel \notin Variadic /\ Fits(Top(t).bridge, Top(t).sel, i)
      BY <1>0, <1>4 DEF MethodOK
    <2> QED
      BY <1>5, <2>1, <2>2 DEF MethodOK, SlotOK
  <1>8. superKey' = [superKey EXCEPT ![t] = None]
    BY <1>0, <1>2, BridgeFacts
  <1> QED
    BY <1>0, <1>5, <1>6, <1>7, <1>8, BecomeRoute

LEMMA InvokeMethodRoute ==
    ASSUME IInv, RouteInv, NEW t \in Threads, InvokeMethod(t)
    PROVE  RouteInv'
  <1> USE MsgAssumption
  <1> DEFINE g == [Top(t) EXCEPT !.at = "called"]
             f == Invoked(Top(t).rcv, Top(t).imp, reg[t])
             s == Replaced(stack[t], g)
  <1>0. /\ CallsInv /\ Top(t).at = "host" /\ Top(t) \in Frames /\ Top(t).imp \in GuestImps
        /\ reg[t] \in Registers /\ MethodOK(Top(t)) /\ superKey[t] = None
        /\ stack[t] \in Seq(Frames) /\ stack[t] # <<>> /\ RoutedOK(stack[t], superKey[t])
        /\ superKey' = superKey /\ superKey \in [Threads -> Subclasses \cup {None}]
        /\ \A j \in Imps : CacheOK(j, cache'[j])
    BY TopFacts, RouteFacts DEF IInv, At, InvokeMethod
  <1>1. /\ g \in Frames /\ g.at = "called" /\ g.sel = Top(t).sel /\ g.imp = Top(t).imp
        /\ g.lookup = Top(t).lookup /\ g.bridge = Top(t).bridge
    BY <1>0, ZenonT(40) DEF Frames, Steps
  <1>2. Top(t).rcv \in Classes /\ Top(t).imp \in Imps
    BY <1>0, TopMessage
  <1>3. f \in Frames /\ f.at = "body"
    BY <1>0, <1>2, InvokedFields
  <1>4. stack' = [stack EXCEPT ![t] = Append(s, f)]
    BY DEF InvokeMethod, Below, Replaced, Depth
  <1> HIDE DEF g, f
  <1>5. MethodOK(g) /\ SlotOK(None, g)
    <2>1. FoundBy(g) = FoundBy(Top(t))
      BY <1>1 DEF FoundBy
    <2> QED
      BY <1>0, <1>1, <2>1 DEF MethodOK, SlotOK
  <1>6. MethodOK(f) /\ SlotOK(None, f)
    BY <1>3 DEF MethodOK, SlotOK
  <1>7. RoutedOK(s, None) /\ s \in Seq(Frames)
    BY <1>0, <1>1, <1>5, RoutedReplace, TopChanged
  <1> HIDE DEF s
  <1>8. RoutedOK(Append(s, f), None)
    BY <1>3, <1>6, <1>7, RoutedPush
  <1>9. superKey' = [superKey EXCEPT ![t] = None]
    BY <1>0
  <1> QED
    BY <1>0, <1>4, <1>8, <1>9, RouteMoves

LEMMA NextRoute ==
    ASSUME SuperIsPlain, QuietBuilds
    PROVE  IInv /\ RouteInv /\ [Next]_vars => RouteInv'
  <1> SUFFICES ASSUME IInv, RouteInv, [Next]_vars PROVE RouteInv'
    OBVIOUS
  <1>1. CASE UNCHANGED vars
    BY <1>1 DEF vars, RouteInv
  <1>2. ASSUME NEW t \in Threads, Step(t) PROVE RouteInv'
    <2>1. CASE xl_fault(t)
      BY <2>1 DEF xl_fault, Die, RouteInv
    <2> QED
      BY <1>2, <2>1, MsgSendRoute, SuperRoute, SwiftRoute, BuildRoute, ResumeRoute, BeginInitializeRoute, RouteToGuestRoute, RouteCachedRoute,
         RouteVariantRoute, StoreVariantRoute, RouteSelectorRoute, DynamicSendRoute, BridgeRoute,
         InvokeMethodRoute, HostCallsGuestRoute, ReturnRoute DEF Step
  <1> QED
    BY <1>1, <1>2 DEF Next

(* When the selectors sent to super are ordinary ones, every message keeps *)
(* its bridge, its method and its class from the lookup to the return.     *)
(* That a message to super is sent with the selector it was written with   *)
(* is so only if making a shadow leaves x1 alone (QuietBuilds): xl_h_objc_ *)
(* msgSendSuper2 reads it after xl_class_in (objc_bridge.m 775-787).       *)
THEOREM RouteInvariance ==
    ASSUME SuperIsPlain, QuietBuilds
    PROVE  Spec => []RouteInv
  <1>1. Init => RouteInv
    BY InitRoute
  <1>2. IInv /\ RouteInv /\ [Next]_vars => RouteInv'
    BY NextRoute
  <1> QED
    BY <1>1, <1>2, Invariance, PTL DEF Spec

(* A message runs the method that was looked up for it, plain or to super, *)
(* although the bridge looks it up again with the class the slot then      *)
(* holds (xlgen.cpp 1299-1306), under the same two hypotheses.             *)
THEOREM RightMethodHolds ==
    ASSUME SuperIsPlain, QuietBuilds
    PROVE  Spec => []RightMethod
  <1>1. RouteInv => RightMethod
    BY DEF RouteInv, RoutedOK, MethodOK, FoundBy, RightMethod, Depth
  <1> QED
    BY <1>1, RouteInvariance, PTL

(* The slot is full only while the bridge of the message to super that     *)
(* filled it starts: no other message of the thread finds a class in it    *)
(* (objc_bridge.m 314-320, 503-505), under the same two hypotheses.        *)
THEOREM SuperClassIsTakenHolds ==
    ASSUME SuperIsPlain, QuietBuilds
    PROVE  Spec => []SuperClassIsTaken
  <1>1. IInv /\ RouteInv => SuperClassIsTaken
    <2> SUFFICES ASSUME IInv, RouteInv, NEW t \in Threads, superKey[t] # None
                 PROVE  At(t, "bridge") /\ Top(t).sup = superKey[t]
      BY DEF SuperClassIsTaken
    <2>1. SlotOK(superKey[t], Top(t)) /\ Depth(t) \in Nat /\ Depth(t) >= 1
      BY RouteFacts, TopFacts DEF IInv
    <2> QED
      BY <2>1 DEF SlotOK, At
  <1> QED
    BY <1>1, Invariance, RouteInvariance, PTL

(* A message with more than one signature goes through the bridge of the   *)
(* signature its method has, whichever message filled the cache and        *)
(* however many threads fill it at once (objc_bridge.m 430-437), under the *)
(* same two hypotheses.                                                    *)
THEOREM SignatureMatchesHolds ==
    ASSUME SuperIsPlain, QuietBuilds
    PROVE  Spec => []SignatureMatches
  <1>1. RouteInv => SignatureMatches
    BY DEF RouteInv, RoutedOK, MethodOK, Fits, SignatureMatches, Depth, Sig
  <1> QED
    BY <1>1, RouteInvariance, PTL
=============================================================================
