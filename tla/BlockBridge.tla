---------------------------- MODULE BlockBridge ----------------------------
(***************************************************************************)
(* The block bridge of runtime/objc_bridge.m: a guest (arm64) block and    *)
(* its host (armv7) wrapper are one logical block.  xl_block_forward maps  *)
(* a guest block to its wrapper, xl_block_lock protects the map, and the   *)
(* wrapper's host reference count stands for both.                         *)
(*                                                                         *)
(* Threads run guest and host code and enter the bridge through            *)
(* xl_wrapper_for (from objc_retain, xl_object_in, objc_autorelease and a  *)
(* message to a block) and xl_block_release.  The lock is only held inside *)
(* xl_wrapper_for, xl_block_release and the dispose helper: reference      *)
(* counts change outside of it, which is what the steps below keep apart.  *)
(*                                                                         *)
(* The program's own references are explicit: a slot is one strong         *)
(* variable, container element or autorelease pool entry of a thread.      *)
(***************************************************************************)
EXTENDS Naturals, FiniteSets

CONSTANTS
    Threads,       \* threads of the process
    Slots,         \* places that can hold one reference to a block
    Owner,         \* Owner[s]: the thread that uses slot s
    Stack,         \* guest blocks still in a stack frame
    Heap,          \* addresses the guest's _Block_copy may allocate
    Global,        \* guest blocks in a data section, never copied or counted
    GlobalUsers,   \* GlobalUsers[g]: the threads whose code uses block g
    Wrappers,      \* addresses the host's calloc may return
    DirectThreads, \* threads that take references from the guest's own
                   \* Block runtime (_Block_copy, or XLGuestBlock)
    MaxCount,      \* bound on the count of a wrapper a call starts with
    Profile,       \* what else the program does with blocks, see Profiles
    None           \* no wrapper, no slot, nobody

Profiles == {"retainStack",   \* objc_retain/objc_retainBlock of a stack block
             "autorelease"}   \* objc_autorelease of a block it owns

ASSUME BlockAssumption ==
    /\ IsFiniteSet(Threads) /\ IsFiniteSet(Slots) /\ IsFiniteSet(Wrappers)
    /\ Owner \in [Slots -> Threads]
    /\ DirectThreads \subseteq Threads
    /\ Profile \subseteq Profiles
    /\ MaxCount \in Nat
    /\ Stack \cap Heap = {} /\ Global \cap (Stack \cup Heap) = {}
    /\ GlobalUsers \in [Global -> SUBSET Threads]
    /\ Threads \cap Slots = {}
    /\ None \notin Threads \cup Slots \cup Stack \cup Heap \cup Global \cup Wrappers

VARIABLES
    forward,  \* xl_block_forward: guest block -> wrapper
    lock,     \* holder of xl_block_lock
    count,    \* reference count in a wrapper's flags
    wstate,   \* a wrapper's memory: "free", "live", or "dying" (count
              \* reached zero, dispose helper and free still to come)
    wguest,   \* w->guest
    gcount,   \* reference count of a guest heap block; 0 when not allocated
    kind,     \* what a slot holds, see Kinds
    addr,     \* the guest block the slot's reference was asked for
    ref,      \* the wrapper whose count the slot's reference is part of
    pc,       \* where a thread is
    op,       \* the entry point it came through
    arg,      \* the guest block it passed
    src,      \* the slot it got that block from
    dst,      \* the slot that receives the result
    found,    \* the wrapper looked up or being released
    tmp       \* the wrapper xl_wrapper_for returned: a reference the thread
              \* owns for the rest of the call

heapVars == <<forward, lock, count, wstate, wguest, gcount>>
slotVars == <<kind, addr, ref>>
callVars == <<pc, op, arg, src, dst, found, tmp>>
vars == <<heapVars, slotVars, callVars>>

(* The blocks a wrapper may stand for, and all blocks xl_is_guest_block    *)
(* knows by their isa.                                                     *)
Wrapped == Heap \cup Global
Guests == Stack \cup Wrapped

(* A slot is empty, or holds a reference counted by the bridge and owned   *)
(* by guest code, by host code or by an autorelease pool, or a reference   *)
(* counted by the guest's own Block runtime.                               *)
Kinds == {"none", "guest", "host", "pool", "direct"}

Ops == {"none", "retain", "in", "autorelease",
        "msgCopy", "msgRelease", "msgAutorelease", "msgOther"}

Steps == {"idle", "lock", "hit", "miss", "publish", "got",
          "dropSlot", "dropTmp", "dispose", "guestRelease"}

Own(t) == {s \in Slots : Owner[s] = t}

Empty(t) == {s \in Own(t) : kind[s] = "none"}

(* The guest block a slot's content is to guest code: a wrapper read back  *)
(* from the host is unwrapped.                                             *)
xl_object_out(s) == IF kind[s] \in {"host", "pool"} THEN wguest[ref[s]] ELSE addr[s]

(* Memory is unbounded in the program; here a call that may need a block   *)
(* and a wrapper starts only while the calls under way leave one of each.  *)
Allocating == Cardinality({t \in Threads : pc[t] \in {"lock", "miss"}})
Room == /\ Cardinality({h \in Heap : gcount[h] = 0}) > Allocating
        /\ Cardinality({w \in Wrappers : wstate[w] = "free"}) > Allocating

Init ==
    /\ forward = [g \in Guests |-> None]
    /\ lock = None
    /\ count = [w \in Wrappers |-> 0]
    /\ wstate = [w \in Wrappers |-> "free"]
    /\ wguest = [w \in Wrappers |-> None]
    /\ gcount = [h \in Heap |-> 0]
    /\ kind = [s \in Slots |-> "none"]
    /\ addr = [s \in Slots |-> None]
    /\ ref = [s \in Slots |-> None]
    /\ pc = [t \in Threads |-> "idle"]
    /\ op = [t \in Threads |-> "none"]
    /\ arg = [t \in Threads |-> None]
    /\ src = [t \in Threads |-> None]
    /\ dst = [t \in Threads |-> None]
    /\ found = [t \in Threads |-> None]
    /\ tmp = [t \in Threads |-> None]

----------------------------------------------------------------------------
(* Entering xl_wrapper_for.                                                *)

(* The blocks a thread may name, with the slot it knows them from: a stack *)
(* block, a global block its code refers to, for which it needs no         *)
(* reference, or a block it has a reference to and keeps for the whole     *)
(* call.                                                                   *)
Named(t) ==
    {<<g, None>> : g \in Stack \cup {h \in Global : t \in GlobalUsers[h]}}
        \cup {<<xl_object_out(x), x>> : x \in {s \in Own(t) : kind[s] # "none"}}

Enter(t, o, n, d) ==
    /\ pc[t] = "idle"
    /\ IF forward[n[1]] = None THEN Room ELSE count[forward[n[1]]] < MaxCount
    /\ pc' = [pc EXCEPT ![t] = "lock"]
    /\ op' = [op EXCEPT ![t] = o]
    /\ arg' = [arg EXCEPT ![t] = n[1]]
    /\ src' = [src EXCEPT ![t] = n[2]]
    /\ dst' = [dst EXCEPT ![t] = d]
    /\ UNCHANGED <<heapVars, slotVars, found, tmp>>

(* objc_retain, objc_retainBlock, objc_retainAutoreleasedReturnValue and   *)
(* objc_claimAutoreleasedReturnValue of a guest block.                     *)
xl_block_retain(t, n, d) ==
    /\ n[1] \in Stack => "retainStack" \in Profile
    /\ Enter(t, "retain", n, d)

(* A guest block given to the host as an object; also                      *)
(* objc_retainAutoreleaseReturnValue.                                      *)
xl_object_in(t, n, d) == Enter(t, "in", n, d)

(* objc_autorelease and objc_autoreleaseReturnValue: the caller gives up   *)
(* the reference it holds.                                                 *)
xl_block_autorelease(t, x) ==
    /\ "autorelease" \in Profile
    /\ kind[x] = "guest"
    /\ Enter(t, "autorelease", <<addr[x], x>>, None)

(* A message whose receiver is a guest block: -copy or -retain, -release   *)
(* or -autorelease of a reference the caller holds, or anything else.      *)
xl_h_objc_msgSend(t, n) ==
    \/ \E d \in Empty(t) : Enter(t, "msgCopy", n, d)
    \/ Enter(t, "msgOther", n, None)
    \/ /\ n[2] # None
       /\ kind[n[2]] = "guest" /\ n[1] \notin Stack
       /\ Enter(t, "msgRelease", n, None) \/ Enter(t, "msgAutorelease", n, None)

----------------------------------------------------------------------------
(* xl_wrapper_for.                                                         *)

(* Going to a step of the call; a call that returns leaves nothing behind. *)
Goto(t, step) ==
    LET Kept(f, empty) == IF step = "idle" THEN [f EXCEPT ![t] = empty] ELSE f
    IN  /\ pc' = [pc EXCEPT ![t] = step]
        /\ op' = Kept(op, "none")
        /\ arg' = Kept(arg, None)
        /\ src' = Kept(src, None)
        /\ dst' = Kept(dst, None)

(* Mutant: the lookup does not take the lock.                              *)
LookUpUnlocked(t) ==
    /\ pc[t] = "lock"
    /\ found' = [found EXCEPT ![t] = forward[arg[t]]]
    /\ Goto(t, IF forward[arg[t]] = None THEN "miss" ELSE "hit")
    /\ UNCHANGED <<forward, lock, count, wstate, wguest, gcount, slotVars, tmp>>

LookUp(t) ==
    /\ pc[t] = "lock"
    /\ lock = None
    /\ lock' = t
    /\ found' = [found EXCEPT ![t] = forward[arg[t]]]
    /\ Goto(t, IF forward[arg[t]] = None THEN "miss" ELSE "hit")
    /\ UNCHANGED <<forward, count, wstate, wguest, gcount, slotVars, tmp>>

(* Mutant: the wrapper is returned without the _Block_copy.                *)
HitWithoutRetain(t) ==
    /\ pc[t] = "hit"
    /\ tmp' = [tmp EXCEPT ![t] = found[t]]
    /\ found' = [found EXCEPT ![t] = None]
    /\ lock' = None
    /\ Goto(t, "got")
    /\ UNCHANGED <<forward, count, wstate, wguest, gcount, slotVars>>

Hit(t) ==
    /\ pc[t] = "hit"
    /\ count' = [count EXCEPT ![found[t]] = @ + 1]
    /\ tmp' = [tmp EXCEPT ![t] = found[t]]
    /\ found' = [found EXCEPT ![t] = None]
    /\ lock' = None
    /\ Goto(t, "got")
    /\ UNCHANGED <<forward, wstate, wguest, gcount, slotVars>>

(* The guest's _Block_copy: a stack block is copied to the heap, a heap    *)
(* block gains a reference, a global block is returned as it is.           *)
GuestBlockCopy(g, h) ==
    /\ \/ g \in Stack /\ h \in Heap /\ gcount[h] = 0
       \/ g \in Wrapped /\ h = g
    /\ gcount' = IF h \in Heap THEN [gcount EXCEPT ![h] = @ + 1] ELSE gcount

(* The guest's _Block_release, whose count stops at zero; a global block   *)
(* has none.                                                               *)
GuestBlockRelease(h) ==
    gcount' = IF h \in Heap THEN [gcount EXCEPT ![h] = IF @ = 0 THEN 0 ELSE @ - 1] ELSE gcount

(* Mutant: a new wrapper starts with two references in its flags.          *)
MissCountedTwice(t, h, w) ==
    /\ pc[t] = "miss"
    /\ wstate[w] = "free"
    /\ GuestBlockCopy(arg[t], h)
    /\ wstate' = [wstate EXCEPT ![w] = "live"]
    /\ count' = [count EXCEPT ![w] = 2]
    /\ wguest' = [wguest EXCEPT ![w] = h]
    /\ tmp' = [tmp EXCEPT ![t] = w]
    /\ Goto(t, "publish")
    /\ UNCHANGED <<forward, lock, slotVars, found>>

(* The guest's _Block_copy runs with xl_block_lock held; its copy helpers  *)
(* do not come back to the bridge here.                                    *)
Miss(t, h, w) ==
    /\ pc[t] = "miss"
    /\ wstate[w] = "free"
    /\ GuestBlockCopy(arg[t], h)
    /\ wstate' = [wstate EXCEPT ![w] = "live"]
    /\ count' = [count EXCEPT ![w] = 1]
    /\ wguest' = [wguest EXCEPT ![w] = h]
    /\ tmp' = [tmp EXCEPT ![t] = w]
    /\ Goto(t, "publish")
    /\ UNCHANGED <<forward, lock, slotVars, found>>

(* Mutant: the wrapper is entered under the block it was asked for, not    *)
(* under the copy it stands for.                                           *)
PublishUnderArgument(t) ==
    /\ pc[t] = "publish"
    /\ forward' = [forward EXCEPT ![arg[t]] = tmp[t]]
    /\ lock' = None
    /\ Goto(t, "got")
    /\ UNCHANGED <<count, wstate, wguest, gcount, slotVars, found, tmp>>

Publish(t) ==
    /\ pc[t] = "publish"
    /\ forward' = [forward EXCEPT ![wguest[tmp[t]]] = tmp[t]]
    /\ lock' = None
    /\ Goto(t, "got")
    /\ UNCHANGED <<count, wstate, wguest, gcount, slotVars, found, tmp>>

----------------------------------------------------------------------------
(* What the entry points do with the wrapper they got.                     *)

Fill(s, k, g, w) ==
    /\ kind' = [kind EXCEPT ![s] = k]
    /\ addr' = [addr EXCEPT ![s] = g]
    /\ ref' = [ref EXCEPT ![s] = w]

(* xl_block_retain returns the block it was given.                         *)
RetainReturns(t) ==
    /\ pc[t] = "got" /\ op[t] = "retain"
    /\ Fill(dst[t], "guest", arg[t], tmp[t])
    /\ tmp' = [tmp EXCEPT ![t] = None]
    /\ Goto(t, "idle")
    /\ UNCHANGED <<heapVars, found>>

(* objc_autorelease of the wrapper: its reference is now the pool's.       *)
InReturns(t) ==
    /\ pc[t] = "got" /\ op[t] = "in"
    /\ Fill(dst[t], "pool", arg[t], tmp[t])
    /\ tmp' = [tmp EXCEPT ![t] = None]
    /\ Goto(t, "idle")
    /\ UNCHANGED <<heapVars, found>>

(* The reference just taken goes to the pool; the one the caller gave up   *)
(* is what the pool owes in its place.                                     *)
AutoreleaseReturns(t) ==
    /\ pc[t] = "got" /\ op[t] = "autorelease"
    /\ Fill(src[t], "pool", addr[src[t]], tmp[t])
    /\ tmp' = [tmp EXCEPT ![t] = None]
    /\ Goto(t, "idle")
    /\ UNCHANGED <<heapVars, found>>

(* Mutant: -copy keeps the bridge's own reference.                         *)
MsgCopyLeaks(t) ==
    /\ pc[t] = "got" /\ op[t] = "msgCopy"
    /\ count' = [count EXCEPT ![tmp[t]] = @ + 1]
    /\ Fill(dst[t], "guest", wguest[tmp[t]], tmp[t])
    /\ tmp' = [tmp EXCEPT ![t] = None]
    /\ Goto(t, "idle")
    /\ UNCHANGED <<forward, lock, wstate, wguest, gcount, found>>

(* -copy (and -retain) of the wrapper adds a reference and returns it,     *)
(* unwrapped; the bridge then releases its own.                            *)
MsgCopy(t) ==
    /\ pc[t] = "got" /\ op[t] = "msgCopy"
    /\ count' = [count EXCEPT ![tmp[t]] = @ + 1]
    /\ Fill(dst[t], "guest", wguest[tmp[t]], tmp[t])
    /\ Goto(t, "dropTmp")
    /\ UNCHANGED <<forward, lock, wstate, wguest, gcount, found, tmp>>

MsgAutorelease(t) ==
    /\ pc[t] = "got" /\ op[t] = "msgAutorelease"
    /\ Fill(src[t], "pool", addr[src[t]], tmp[t])
    /\ Goto(t, "dropTmp")
    /\ UNCHANGED <<heapVars, found, tmp>>

MsgRelease(t) ==
    /\ pc[t] = "got" /\ op[t] = "msgRelease"
    /\ found' = [found EXCEPT ![t] = tmp[t]]
    /\ Goto(t, "dropSlot")
    /\ UNCHANGED <<heapVars, slotVars, tmp>>

(* The host's _Block_release: the last reference marks the block as        *)
(* deallocating and runs the dispose helper, still without xl_block_lock.  *)
(* A block that is already deallocating is only counted.                   *)
HostBlockRelease(t, w, next) ==
    LET last == wstate[w] = "live" /\ count[w] = 1
    IN  /\ count' = [count EXCEPT ![w] = IF @ = 0 THEN 0 ELSE @ - 1]
        /\ wstate' = IF last THEN [wstate EXCEPT ![w] = "dying"] ELSE wstate
        /\ found' = [found EXCEPT ![t] = IF last THEN w ELSE None]
        /\ Goto(t, IF last THEN "dispose" ELSE next)

(* Mutant: the wrapper does not replace the receiver, so the message finds *)
(* the guest block again.                                                  *)
MsgOtherAgain(t) ==
    /\ pc[t] = "got" /\ op[t] = "msgOther"
    /\ HostBlockRelease(t, tmp[t], "lock")
    /\ tmp' = [tmp EXCEPT ![t] = None]
    /\ UNCHANGED <<forward, lock, wguest, gcount, slotVars>>

MsgOther(t) ==
    /\ pc[t] = "got" /\ op[t] = "msgOther"
    /\ Goto(t, "dropTmp")
    /\ UNCHANGED <<heapVars, slotVars, found, tmp>>

----------------------------------------------------------------------------
(* Giving references up.                                                   *)

(* objc_release of a guest block: the lookup is under the lock, the        *)
(* _Block_release of what it found is not.  No wrapper: nothing to do.     *)
xl_block_release(t, x) ==
    /\ pc[t] = "idle"
    /\ lock = None
    /\ kind[x] = "guest"
    /\ LET w == forward[addr[x]]
       IN  \/ /\ w = None
              /\ Fill(x, "none", None, None)
              /\ UNCHANGED callVars
           \/ /\ w # None
              /\ found' = [found EXCEPT ![t] = w]
              /\ src' = [src EXCEPT ![t] = x]
              /\ pc' = [pc EXCEPT ![t] = "dropSlot"]
              /\ UNCHANGED <<slotVars, op, arg, dst, tmp>>
    /\ UNCHANGED heapVars

(* Host code, or the draining of a pool, releases a wrapper.               *)
HostRelease(t, x) ==
    /\ pc[t] = "idle"
    /\ kind[x] \in {"host", "pool"}
    /\ found' = [found EXCEPT ![t] = ref[x]]
    /\ src' = [src EXCEPT ![t] = x]
    /\ pc' = [pc EXCEPT ![t] = "dropSlot"]
    /\ UNCHANGED <<heapVars, slotVars, op, arg, dst, tmp>>

(* Host code retains a wrapper it was handed.                              *)
HostRetain(t, x, d) ==
    /\ pc[t] = "idle"
    /\ kind[x] \in {"host", "pool"}
    /\ count' = [count EXCEPT ![ref[x]] = @ + 1]
    /\ Fill(d, "host", addr[x], ref[x])
    /\ UNCHANGED <<forward, lock, wstate, wguest, gcount, callVars>>

DropSlot(t) ==
    /\ pc[t] = "dropSlot"
    /\ HostBlockRelease(t, found[t], IF tmp[t] = None THEN "idle" ELSE "dropTmp")
    /\ Fill(src[t], "none", None, None)
    /\ UNCHANGED <<forward, lock, wguest, gcount, tmp>>

DropTmp(t) ==
    /\ pc[t] = "dropTmp"
    /\ HostBlockRelease(t, tmp[t], "idle")
    /\ tmp' = [tmp EXCEPT ![t] = None]
    /\ UNCHANGED <<forward, lock, wguest, gcount, slotVars>>

(* Mutant: the dispose helper leaves the map's entry behind.               *)
DisposeKeepsEntry(t) ==
    /\ pc[t] = "dispose"
    /\ lock = None
    /\ Goto(t, "guestRelease")
    /\ UNCHANGED <<forward, lock, count, wstate, wguest, gcount, slotVars, found, tmp>>

(* xl_block_dispose_helper, up to the unlock ...                           *)
Dispose(t) ==
    /\ pc[t] = "dispose"
    /\ lock = None
    /\ forward' = [forward EXCEPT ![wguest[found[t]]] = None]
    /\ Goto(t, "guestRelease")
    /\ UNCHANGED <<lock, count, wstate, wguest, gcount, slotVars, found, tmp>>

(* Mutant: the dispose helper forgets the guest block.                     *)
GuestReleaseForgotten(t) ==
    LET w == found[t]
    IN  /\ pc[t] = "guestRelease"
        /\ wstate' = [wstate EXCEPT ![w] = "free"]
        /\ wguest' = [wguest EXCEPT ![w] = None]
        /\ found' = [found EXCEPT ![t] = None]
        /\ Goto(t, IF tmp[t] = None THEN "idle" ELSE "dropTmp")
        /\ UNCHANGED <<gcount, forward, lock, count, slotVars, tmp>>

(* ... and the guest's _Block_release after it; then the host frees the    *)
(* wrapper.                                                                *)
GuestRelease(t) ==
    LET w == found[t]
    IN  /\ pc[t] = "guestRelease"
        /\ GuestBlockRelease(wguest[w])
        /\ wstate' = [wstate EXCEPT ![w] = "free"]
        /\ wguest' = [wguest EXCEPT ![w] = None]
        /\ found' = [found EXCEPT ![t] = None]
        /\ Goto(t, IF tmp[t] = None THEN "idle" ELSE "dropTmp")
        /\ UNCHANGED <<forward, lock, count, slotVars, tmp>>

----------------------------------------------------------------------------
(* The program around the bridge.                                          *)

(* +[XLGuestBlock holderWithGuestBlock:], or a _Block_copy in guest code.  *)
DirectCopy(t, g, h, d) ==
    /\ pc[t] = "idle"
    /\ t \in DirectThreads
    /\ Room
    /\ GuestBlockCopy(g, h)
    /\ Fill(d, "direct", h, None)
    /\ UNCHANGED <<forward, lock, count, wstate, wguest, callVars>>

(* -[XLGuestBlock dealloc], or a _Block_release in guest code.             *)
DirectRelease(t, x) ==
    /\ pc[t] = "idle"
    /\ kind[x] = "direct"
    /\ GuestBlockRelease(addr[x])
    /\ Fill(x, "none", None, None)
    /\ UNCHANGED <<forward, lock, count, wstate, wguest, callVars>>

(* A thread hands a reference it owns to another one; to one of a global   *)
(* block this makes the other thread a user of the block.                  *)
HandOver(t, u, x, d) ==
    /\ pc[t] = "idle" /\ pc[u] = "idle"
    /\ kind[x] \in {"guest", "host", "direct"}
    /\ kind[x] # "direct" \/ u \in DirectThreads
    /\ kind[x] = "guest" => addr[x] \notin Stack
    /\ addr[x] \in Global => u \in GlobalUsers[addr[x]]
    /\ kind' = [kind EXCEPT ![d] = kind[x], ![x] = "none"]
    /\ addr' = [addr EXCEPT ![d] = addr[x], ![x] = None]
    /\ ref' = [ref EXCEPT ![d] = ref[x], ![x] = None]
    /\ UNCHANGED <<heapVars, callVars>>

----------------------------------------------------------------------------
Call(t) ==
    \/ \E n \in Named(t) :
           \/ \E d \in Empty(t) : xl_block_retain(t, n, d) \/ xl_object_in(t, n, d)
           \/ xl_h_objc_msgSend(t, n)
    \/ \E x \in Own(t) : xl_block_autorelease(t, x)

(* Steps of a call under way.                                              *)
Step(t) ==
    \/ LookUp(t) \/ Hit(t) \/ Publish(t)
    \/ \E h \in Wrapped, w \in Wrappers : Miss(t, h, w)
    \/ RetainReturns(t) \/ InReturns(t) \/ AutoreleaseReturns(t)
    \/ MsgCopy(t) \/ MsgAutorelease(t) \/ MsgRelease(t) \/ MsgOther(t)
    \/ DropSlot(t) \/ DropTmp(t) \/ Dispose(t) \/ GuestRelease(t)

Program(t) ==
    \/ \E x \in Own(t) :
           \/ xl_block_release(t, x) \/ HostRelease(t, x) \/ DirectRelease(t, x)
           \/ \E d \in Empty(t) : HostRetain(t, x, d)
           \/ \E u \in Threads \ {t} : \E d \in Empty(u) : HandOver(t, u, x, d)
    \/ \E n \in Named(t), h \in Wrapped, d \in Empty(t) : DirectCopy(t, n[1], h, d)

Next == \E t \in Threads : Call(t) \/ Step(t) \/ Program(t)

Spec == Init /\ [][Next]_vars

(* A thread inside the bridge keeps running, and a thread waiting for      *)
(* xl_block_lock gets it in its turn (iOS 6's mutexes are fair); nothing   *)
(* obliges the program to call.                                            *)
FairSpec == Spec /\ \A t \in Threads : SF_vars(Step(t))

----------------------------------------------------------------------------
TypeOK ==
    /\ forward \in [Guests -> Wrappers \cup {None}]
    /\ lock \in Threads \cup {None}
    /\ count \in [Wrappers -> Nat]
    /\ wstate \in [Wrappers -> {"free", "live", "dying"}]
    /\ wguest \in [Wrappers -> Wrapped \cup {None}]
    /\ gcount \in [Heap -> Nat]
    /\ kind \in [Slots -> Kinds]
    /\ addr \in [Slots -> Guests \cup {None}]
    /\ ref \in [Slots -> Wrappers \cup {None}]
    /\ pc \in [Threads -> Steps]
    /\ op \in [Threads -> Ops]
    /\ arg \in [Threads -> Guests \cup {None}]
    /\ src \in [Threads -> Slots \cup {None}]
    /\ dst \in [Threads -> Slots \cup {None}]
    /\ found \in [Threads -> Wrappers \cup {None}]
    /\ tmp \in [Threads -> Wrappers \cup {None}]

(* The references counted on wrapper w that somebody still owns: slots,    *)
(* and calls under way.                                                    *)
Holders(w) == {s \in Slots : ref[s] = w} \cup {t \in Threads : tmp[t] = w}

(* A reference somebody owns keeps its wrapper alive: xl_wrapper_for never *)
(* returns, and no container, pool or variable ever keeps, a wrapper whose *)
(* last reference was already dropped (the lookup of objc_bridge.m:1192    *)
(* against the unlocked _Block_release of 1259).                           *)
HeldWrapperIsLive ==
    \A w \in Wrappers : Holders(w) # {} => wstate[w] = "live"

(* The wrapper's count is never behind the references owned (1182-1186).   *)
NoUnderCount ==
    \A w \in Wrappers : wstate[w] = "live" => count[w] >= Cardinality(Holders(w))

(* ... nor ahead of them: nothing leaks.                                   *)
CountIsOwned ==
    \A w \in Wrappers : wstate[w] = "live" => count[w] = Cardinality(Holders(w))

(* A guest heap block is kept alive by exactly the direct references to it *)
(* and one reference of each wrapper made for it, for the wrapper's whole  *)
(* life (1185-1186).                                                       *)
WrapperOwnsGuest ==
    \A h \in Heap :
        gcount[h] = Cardinality({s \in Slots : kind[s] = "direct" /\ addr[s] = h})
                    + Cardinality({w \in Wrappers : wguest[w] = h})

(* The map never leads to freed memory: the dispose helper unmaps a        *)
(* wrapper before it is freed, and maps it under its own block only.       *)
NoDanglingEntry ==
    \A g \in Guests : forward[g] # None =>
        wstate[forward[g]] # "free" /\ wguest[forward[g]] = g

(* Two live wrappers never stand for the same guest block.                 *)
OneWrapperPerBlock ==
    \A v, w \in Wrappers :
        wstate[v] = "live" /\ wstate[w] = "live" /\ wguest[v] = wguest[w] => v = w

Bridged(s) == kind[s] \in {"guest", "host", "pool"}

(* The same heap or global block always yields the same wrapper.           *)
SameWrapper ==
    \A r, s \in Slots :
        Bridged(r) /\ Bridged(s) /\ addr[r] = addr[s] /\ addr[r] \notin Stack => ref[r] = ref[s]

(* Every call into the bridge returns.                                     *)
CallsReturn == \A t \in Threads : pc[t] # "idle" ~> pc[t] = "idle"

----------------------------------------------------------------------------
(* The inductive invariant behind the theorems of BlockBridgeProofs, for   *)
(* a program whose references to blocks all go through the bridge and in   *)
(* which no two threads use the same global block.  Both are needed: a     *)
(* thread that reaches a block without a reference of the bridge can look  *)
(* its wrapper up while another thread drops the last one.                 *)

Disciplined ==
    /\ DirectThreads = {}
    /\ \A g \in Global : \A t, u \in GlobalUsers[g] : t = u

Mapped(w) == wguest[w] \in Wrapped /\ forward[wguest[w]] = w

(* A wrapper for g stands for a heap copy of a stack block, else for g.    *)
Stands(w, g) == IF g \in Stack THEN wguest[w] \in Heap ELSE wguest[w] = g

(* Exactly the holder of the lock is between lookup and unlock.            *)
LockInv ==
    \A t \in Threads : lock = t <=> pc[t] \in {"hit", "miss", "publish"}

(* A reference in a slot is counted on a live, mapped wrapper of its block.*)
SlotInv ==
    \A s \in Slots :
        /\ kind[s] # "direct"
        /\ kind[s] = "none" <=> ref[s] = None
        /\ kind[s] # "none" => Mapped(ref[s]) /\ addr[s] \in Guests /\ Stands(ref[s], addr[s])

Entering == {"lock", "hit", "miss", "publish", "got"}
TakesDst == {"retain", "in", "msgCopy"}
GivesSrc == {"autorelease", "msgRelease", "msgAutorelease"}

(* What a call under way relies on: the reference in hand, ...             *)
TmpOK(t) ==
    /\ tmp[t] # None => pc[t] \in {"publish", "got", "dropSlot", "dropTmp"}
    /\ pc[t] \in {"publish", "got", "dropTmp"} => tmp[t] # None
    /\ pc[t] = "publish" => wguest[tmp[t]] \in Wrapped /\ forward[wguest[tmp[t]]] = None
    /\ pc[t] # "publish" /\ tmp[t] # None => Mapped(tmp[t])

(* ... the slots it reads and fills, and the block it passed, ...          *)
ArgOK(t) ==
    pc[t] \in Entering =>
        /\ op[t] # "none"
        /\ arg[t] \in Guests
        /\ op[t] \in TakesDst => dst[t] \in Empty(t)
        /\ op[t] \in GivesSrc => src[t] \in Own(t) /\ kind[src[t]] = "guest"
        /\ op[t] \in {"msgRelease", "msgAutorelease"} => arg[t] \notin Stack
        /\ op[t] = "autorelease" => arg[t] = addr[src[t]]
        /\ arg[t] \in Heap => src[t] # None
        /\ arg[t] \in Global => t \in GlobalUsers[arg[t]]
        /\ arg[t] \notin Stack /\ src[t] # None =>
               src[t] \in Own(t) /\ kind[src[t]] # "none" /\ arg[t] = wguest[ref[src[t]]]

(* ... and the wrapper it looked up.                                       *)
FoundOK(t) ==
    /\ pc[t] = "hit" => /\ arg[t] \notin Stack
                        /\ found[t] # None /\ forward[arg[t]] = found[t]
    /\ pc[t] \in {"miss", "publish"} => arg[t] \notin Heap /\ forward[arg[t]] = None
    /\ pc[t] \in {"publish", "got"} => Stands(tmp[t], arg[t])
    /\ pc[t] = "dropSlot" => src[t] \in Own(t) /\ kind[src[t]] # "none"
                             /\ found[t] = ref[src[t]] /\ tmp[t] \in {None, found[t]}

CallInv == \A t \in Threads : TmpOK(t) /\ ArgOK(t) /\ FoundOK(t)

(* A wrapper whose count reached zero is being disposed of by one thread.  *)
DyingInv ==
    /\ \A t \in Threads : pc[t] \in {"dispose", "guestRelease"} =>
           found[t] \in Wrappers /\ wstate[found[t]] = "dying"
    /\ \A t, u \in Threads :
           /\ pc[t] \in {"dispose", "guestRelease"}
           /\ pc[u] \in {"dispose", "guestRelease"}
           /\ found[t] = found[u]
           => t = u
    /\ \A t \in Threads : pc[t] = "guestRelease" => ~ Mapped(found[t])

(* Wrappers in use and allocated guest blocks correspond one to one.       *)
MemoryInv ==
    /\ \A w \in Wrappers : wstate[w] = "free" <=> wguest[w] = None
    /\ \A v, w \in Wrappers : wguest[v] = wguest[w] /\ wguest[v] # None => v = w
    /\ \A h \in Heap : gcount[h] \in {0, 1}
    /\ \A h \in Heap : gcount[h] = 1 <=> \E w \in Wrappers : wguest[w] = h
    /\ \A g \in Guests : forward[g] # None => wguest[forward[g]] = g

(* Only its users have to do with the wrapper of a global block.           *)
Uses(t, w) == wguest[w] \in Global => t \in GlobalUsers[wguest[w]]

Disposing(t) == pc[t] \in {"dispose", "guestRelease"}

UserInv ==
    /\ \A s \in Slots : ref[s] # None => Uses(Owner[s], ref[s])
    /\ \A t \in Threads : tmp[t] # None => Uses(t, tmp[t])
    /\ \A t \in Threads : Disposing(t) => Uses(t, found[t])

(* A wrapper whose count reached zero has a thread that disposes of it,    *)
(* and one that is not in the map is on its way into it or has left it.    *)
ThreadInv ==
    /\ \A w \in Wrappers : wstate[w] = "dying" =>
           \E t \in Threads : Disposing(t) /\ found[t] = w
    /\ \A w \in Wrappers : wstate[w] # "free" =>
           \/ Mapped(w)
           \/ \E t \in Threads : \/ pc[t] = "publish" /\ tmp[t] = w
                                 \/ pc[t] = "guestRelease" /\ found[t] = w

IInv ==
    /\ TypeOK
    /\ LockInv
    /\ SlotInv
    /\ CallInv
    /\ DyingInv
    /\ MemoryInv
    /\ UserInv
    /\ ThreadInv
    /\ HeldWrapperIsLive
    /\ NoUnderCount

----------------------------------------------------------------------------
(* The bridge implements BlockIdentity: the wrapper of a block is the one  *)
(* the map leads to, until its last reference is dropped.                  *)

CanonOf(h) ==
    IF forward[h] # None /\ wstate[forward[h]] = "live" THEN forward[h] ELSE None

Identity == INSTANCE BlockIdentity WITH
    Blocks <- Wrapped,
    canon <- [h \in Wrapped |-> CanonOf(h)],
    refs <- [h \in Wrapped |-> IF CanonOf(h) = None THEN 0 ELSE count[CanonOf(h)]]

ImplementsIdentity == Identity!Spec
============================================================================
