------------------------------ MODULE Process -------------------------------
(***************************************************************************)
(* The life of a translated program: start-up, the guest memory of its     *)
(* threads, exit and crashes (runtime/runtime.c; runtime/bridge.m,         *)
(* __cxa_atexit and thread-local variables; xlate/src/xlate.cpp, the       *)
(* tables of initializers and of thread-local regions).                    *)
(*                                                                         *)
(* A thread that enters guest code gets a register block with a guest      *)
(* stack, an alternate signal stack, and on first use a block for the      *)
(* thread-local variables of an image; each hangs on a key of the host's   *)
(* thread-specific data, whose destructors run when the thread ends, in    *)
(* rounds, between destructors that are guest code and enter all of this   *)
(* again.  Blocks of one key and thread are numbered as they are made.     *)
(***************************************************************************)
EXTENDS IvarLayout

CONSTANTS
    Threads,    \* the threads of the process
    Main,       \* the one that runs main
    Rounds,     \* PTHREAD_DESTRUCTOR_ITERATIONS
    Capacity    \* the destructors the list holds when it is first allocated

ASSUME ThreadsAssumption == Main \in Threads
ASSUME BoundsAssumption == Rounds \in Nat \ {0} /\ Capacity \in Nat \ {0}

VARIABLES
    images,     \* the guest images in the order they were given
    flag,       \* the file xl-fault-ends-thread exists
    acts,       \* what guest code may still do: the bound on a behaviour
    phase,      \* "setup", "init", "main", or how the process ended: "exit", "signal"
    started,    \* the initializers that xl_run_initializers has called
    live,       \* per thread: "no", "running", "ending", "gone"
    stack,      \* per thread: guest functions the host called, and calls of exit; innermost last
    mem,        \* per thread: the guest memory that hangs on its keys
    keys,       \* the keys of the process, in the order they were created
    cleanup,    \* per thread: the round and the place of its key destructors
    late,       \* threads that ran a guest destructor in the last round
    list,       \* xl_cxa_list: the destructors, and how often realloc moved it
    atexits,    \* the functions atexit holds, the next one to run last
    owed,       \* per call of exit: how many destructors were registered before it
    ran,        \* the destructors that xl_run_cxa_dtors has called
    crashing,   \* xl_crashing
    handler     \* per thread: the signal handlers it is in, innermost last

startVars == <<images, flag, phase, started>>
threadVars == <<live, stack, mem, keys, cleanup, late>>
exitVars == <<list, atexits, owed, ran>>
signalVars == <<crashing, handler>>
vars == <<layoutVars, acts, startVars, threadVars, exitVars, signalVars>>

Ended == phase \in {"exit", "signal"}
GuestKey == "guest"   \* a key of the guest's with a guest destructor

-----------------------------------------------------------------------------
(* EmitTables: the initializers of every image, by image and place in its  *)
(* sections, the last image first; a pointer that is not rebased, or that  *)
(* cannot be read, is left out.                                            *)
Initializers(is) == UNION {{i} \X {f \in DOMAIN is[i].inits : is[i].inits[f]} : i \in DOMAIN is}
Before(p, q) == p[1] > q[1] \/ (p[1] = q[1] /\ p[2] < q[2])

(* A region for every image with descriptors: its block is what            *)
(* __thread_data and __thread_bss take together.                           *)
TlvRegions(is) ==
    LET with == SelectSeq(is, LAMBDA i : i.variables # {}) IN
    [r \in DOMAIN with |-> [key |-> with[r].name, variables |-> with[r].variables,
                            total |-> with[r].data + with[r].bss]]

Regions == Range(TlvRegions(images))

(* Images have names of their own, and a variable lies inside the block of *)
(* its image.                                                              *)
RegionsOK(is) ==
    LET rs == TlvRegions(is) IN
    /\ rs \in Seq([key : STRING, variables : SUBSET Nat, total : Nat])
    /\ \A i, j \in DOMAIN rs : rs[i].key = rs[j].key => i = j
    /\ \A i \in DOMAIN rs : /\ rs[i].key \notin {"state", "alt", "guest"}
                           /\ \A v \in rs[i].variables : v < rs[i].total

-----------------------------------------------------------------------------
(* Guest memory of one thread: the value of each key, how many blocks were *)
(* made for it and which were freed, and the kernel's alternate stack.     *)
KeyNames(is) == {"state", "alt", GuestKey} \cup {r.key : r \in Range(TlvRegions(is))}
Static == -1    \* the alternate stack of the constructor
Fresh(is, altstack) ==
    [tsd |-> [k \in KeyNames(is) |-> 0], made |-> [k \in KeyNames(is) |-> 0],
     freed |-> [k \in KeyNames(is) |-> {}], altstack |-> altstack]

Make(m, k) == [m EXCEPT !.made[k] = @ + 1, !.tsd[k] = m.made[k] + 1]
Free(m, k) == [m EXCEPT !.tsd[k] = 0, !.freed[k] = @ \cup {m.tsd[k]}]

(* pthread_once: the keys of a group are created together, by the first    *)
(* thread that needs one.                                                  *)
Create(ks, new) == IF Range(new) \subseteq Range(ks) THEN ks ELSE ks \o new

(* A mutant of xl_thread_altstack: once for a thread.                      *)
AltstackOnce(m) ==
    IF m.made["alt"] # 0 THEN m
    ELSE LET n == Make(m, "alt") IN [n EXCEPT !.altstack = n.tsd["alt"]]

xl_thread_altstack(m) ==
    IF m.tsd["alt"] # 0 THEN m
    ELSE LET n == Make(m, "alt") IN [n EXCEPT !.altstack = n.tsd["alt"]]

(* A mutant of xl_current_state: the key is not asked.                     *)
StateAlways(m) == xl_thread_altstack(Make(m, "state"))

xl_current_state(m) == IF m.tsd["state"] # 0 THEN m ELSE xl_thread_altstack(Make(m, "state"))

(* In a signal handler on the alternate stack, sigaltstack is refused and  *)
(* the new one is given back.                                              *)
StateInHandler(m) ==
    IF m.tsd["state"] = 0 /\ m.altstack # 0 THEN Make(m, "state") ELSE xl_current_state(m)

xl_state_destroy(m) == Free(m, "state")
xl_altstack_free(m) == [Free(m, "alt") EXCEPT !.altstack = 0]

-----------------------------------------------------------------------------
(* The constructor registers xl_note_exit, installs the handlers and gives *)
(* the thread that loads the image a static alternate stack.               *)
xl_install_crash_handler(is) ==
    /\ atexits = <<"note">>
    /\ crashing = FALSE
    /\ handler = [t \in Threads |-> <<>>]
    /\ mem = [t \in Threads |-> Fresh(is, IF t = Main THEN Static ELSE 0)]

FirstRound == [round |-> 1, at |-> 1, again |-> FALSE]

ProcessInit(is, f, a) ==
    /\ images = is /\ flag = f /\ acts = a
    /\ phase = "setup" /\ started = <<>>
    /\ live = [t \in Threads |-> IF t = Main THEN "running" ELSE "no"]
    /\ stack = [t \in Threads |-> <<>>]
    /\ keys = <<>>
    /\ cleanup = [t \in Threads |-> FirstRound]
    /\ late = {}
    /\ list = [items |-> <<>>, moves |-> 0]
    /\ owed = <<>> /\ ran = <<>>
    /\ xl_install_crash_handler(is)

(* A thread takes steps of its own until the process ends, except while    *)
(* it is in a signal handler.                                              *)
Up(t) == ~ Ended /\ live[t] \in {"running", "ending"} /\ handler[t] = <<>>
Top(t) == Last(stack[t])
Empty(t) == stack[t] = <<>>

GuestFrame(kind, m) == [kind |-> kind, state |-> m.tsd["state"], held |-> {}]
ExitCall == [kind |-> "exit", left |-> 0, loaded |-> -1]

(* xl_invoke: guest code runs on the register block of the thread.         *)
xl_invoke(t, kind, m) ==
    LET n == xl_current_state(m) IN
    /\ mem' = [mem EXCEPT ![t] = n]
    /\ keys' = Create(keys, <<"state", "alt">>)
    /\ stack' = [stack EXCEPT ![t] = Append(@, GuestFrame(kind, n))]

(* A signal is delivered to its handler; a fault in the handler of the     *)
(* same signal ends the process.                                           *)
Deliver(t, signal) ==
    IF \E h \in Range(handler[t]) : h.signal = signal
    THEN phase' = "signal" /\ UNCHANGED handler
    ELSE handler' = [handler EXCEPT ![t] = Append(@, [signal |-> signal, at |-> "enter"])] /\ UNCHANGED phase

-----------------------------------------------------------------------------
(* Start-up on the main thread: the layouts, the initializers, main.       *)
Setup ==
    /\ phase = "setup" /\ Up(Main)
    /\ FixLayouts
    /\ CASE fate' = "abort" -> Deliver(Main, "abrt")
         [] fate' = "done" -> phase' = "init" /\ UNCHANGED handler
         [] OTHER -> UNCHANGED <<phase, handler>>
    /\ UNCHANGED <<acts, images, flag, started, threadVars, exitVars, crashing>>

xl_run_initializers ==
    /\ phase = "init" /\ Up(Main) /\ Empty(Main)
    /\ \E p \in Initializers(images) \ Range(started) :
        /\ \A q \in Initializers(images) \ (Range(started) \cup {p}) : Before(p, q)
        /\ started' = Append(started, p)
    /\ xl_invoke(Main, "init", mem[Main])
    /\ UNCHANGED <<layoutVars, acts, images, flag, phase, live, cleanup, late, exitVars, signalVars>>

main ==
    /\ phase = "init" /\ Up(Main) /\ Empty(Main)
    /\ Initializers(images) = Range(started)
    /\ phase' = "main"
    /\ xl_invoke(Main, "entry", mem[Main])
    /\ UNCHANGED <<layoutVars, acts, images, flag, started, live, cleanup, late, exitVars, signalVars>>

-----------------------------------------------------------------------------
(* What guest code may do, each act taken from the bound.                  *)
InGuest(t) == Up(t) /\ ~ Empty(t) /\ Top(t).kind # "exit"
Act(t) == InGuest(t) /\ acts > 0 /\ acts' = acts - 1

(* A new thread, whose function is guest code.                             *)
SpawnThread(t) ==
    /\ Act(t)
    /\ \E u \in Threads :
        /\ live[u] = "no"
        /\ live' = [live EXCEPT ![u] = "running"]
        /\ xl_invoke(u, "thread", mem[u])
    /\ UNCHANGED <<layoutVars, startVars, cleanup, late, exitVars, signalVars>>

(* A host function the guest called calls a function of the guest's.       *)
CallBack(t) ==
    /\ Act(t)
    /\ xl_invoke(t, "callback", mem[t])
    /\ UNCHANGED <<layoutVars, startVars, live, cleanup, late, exitVars, signalVars>>

(* The list grows under its lock: when it is full its memory doubles and   *)
(* may move.  The first destructor arms atexit.                            *)
Full == \E n \in 0..Len(list.items) : Len(list.items) = Capacity * 2^n
InInitializer(t) == IF Top(t).kind = "init" THEN Last(started)[1] ELSE 0

xl_manual_cxa_atexit(t) ==
    /\ Act(t)
    /\ \E move \in (IF Full THEN {0, 1} ELSE {0}) :
        list' = [items |-> Append(list.items, [number |-> Len(list.items) + 1, image |-> InInitializer(t)]),
                 moves |-> list.moves + move]
    /\ atexits' = IF list.items = <<>> THEN Append(atexits, "cxa") ELSE atexits
    /\ UNCHANGED <<layoutVars, startVars, threadVars, owed, ran, signalVars>>

(* xl_tlv_get: the block of the region that has the descriptor, made on    *)
(* the thread's first use; the guest holds the address of the variable.    *)
xl_tlv_get(t) ==
    /\ Act(t)
    /\ \E r \in Regions : \E offset \in r.variables :
        LET m == IF mem[t].tsd[r.key] # 0 THEN mem[t] ELSE Make(mem[t], r.key) IN
        /\ mem' = [mem EXCEPT ![t] = m]
        /\ stack' = [stack EXCEPT ![t][Len(stack[t])].held =
                        @ \cup {[key |-> r.key, block |-> m.tsd[r.key], offset |-> offset]}]
    /\ keys' = Create(keys, [r \in DOMAIN TlvRegions(images) |-> TlvRegions(images)[r].key])
    /\ UNCHANGED <<layoutVars, startVars, live, cleanup, late, exitVars, signalVars>>

(* The guest's pthread_setspecific of a key with a guest destructor.       *)
SetKey(t) ==
    /\ Act(t)
    /\ mem[t].tsd[GuestKey] = 0
    /\ mem' = [mem EXCEPT ![t] = Make(@, GuestKey)]
    /\ keys' = Create(keys, <<GuestKey>>)
    /\ UNCHANGED <<layoutVars, startVars, live, stack, cleanup, late, exitVars, signalVars>>

(* pthread_exit: nothing on the stack goes on, the destructors start.      *)
Leave(t) ==
    /\ live' = [live EXCEPT ![t] = "ending"]
    /\ stack' = [stack EXCEPT ![t] = <<>>]
    /\ cleanup' = [cleanup EXCEPT ![t] = FirstRound]

GuestLeaves(t) ==
    /\ Act(t) /\ t # Main /\ live[t] = "running" /\ ExitCall.kind \notin {f.kind : f \in Range(stack[t])}
    /\ Leave(t)
    /\ UNCHANGED <<layoutVars, startVars, mem, keys, late, exitVars, signalVars>>

(* exit, the guest's or that of the host when main has returned.           *)
Exit(t) == owed' = Append(owed, Len(list.items))

GuestExits(t) ==
    /\ Act(t) /\ Exit(t)
    /\ stack' = [stack EXCEPT ![t] = Append(@, ExitCall)]
    /\ UNCHANGED <<layoutVars, startVars, live, mem, keys, cleanup, late, list, atexits, ran, signalVars>>

(* xl_fault: a worker ends alone if the file says so, otherwise abort.     *)
xl_fault(t) ==
    /\ Act(t)
    /\ IF t # Main /\ flag
       THEN Leave(t) /\ UNCHANGED <<phase, handler>>
       ELSE Deliver(t, "abrt") /\ UNCHANGED <<live, stack, cleanup>>
    /\ UNCHANGED <<layoutVars, images, flag, started, mem, keys, late, exitVars, crashing>>

(* The guest touches memory it must not, or someone ends the process.      *)
Signal(t) ==
    /\ Act(t)
    /\ \E signal \in {"segv", "term"} : Deliver(t, signal)
    /\ UNCHANGED <<layoutVars, images, flag, started, threadVars, exitVars, crashing>>

(* The guest function returns to the host.                                 *)
Return(t) ==
    /\ InGuest(t)
    /\ live' = IF Top(t).kind = "thread" THEN [live EXCEPT ![t] = "ending"] ELSE live
    /\ IF Top(t).kind = "entry"
       THEN Exit(t) /\ stack' = [stack EXCEPT ![t] = <<ExitCall>>]
       ELSE stack' = [stack EXCEPT ![t] = Front(@)] /\ UNCHANGED owed
    /\ UNCHANGED <<layoutVars, acts, startVars, mem, keys, cleanup, late, list, atexits, ran, signalVars>>

-----------------------------------------------------------------------------
(* The end of a thread: the destructors of its keys in the order of the    *)
(* keys, in rounds for as long as one is found (the host's libpthread).    *)
Pending(t) == {k \in cleanup[t].at .. Len(keys) : mem[t].tsd[keys[k]] # 0}

Destroyed(m, k) ==
    CASE k = "state" -> xl_state_destroy(m)
      [] k = "alt" -> xl_altstack_free(m)
      [] OTHER -> Free(m, k)

Ending(t) == Up(t) /\ live[t] = "ending" /\ Empty(t)

KeyDestructor(t) ==
    /\ Ending(t)
    /\ \E k \in Pending(t) :
        /\ \A j \in Pending(t) : k <= j
        /\ cleanup' = [cleanup EXCEPT ![t] = [round |-> @.round, at |-> k + 1, again |-> TRUE]]
        /\ IF keys[k] = GuestKey
           THEN /\ xl_invoke(t, "key", Destroyed(mem[t], keys[k]))
                /\ late' = IF cleanup[t].round = Rounds THEN late \cup {t} ELSE late
           ELSE /\ mem' = [mem EXCEPT ![t] = Destroyed(@, keys[k])]
                /\ UNCHANGED <<keys, stack, late>>
    /\ UNCHANGED <<layoutVars, acts, startVars, live, exitVars, signalVars>>

NextRound(t) ==
    /\ Ending(t) /\ Pending(t) = {}
    /\ IF cleanup[t].again /\ cleanup[t].round < Rounds
       THEN cleanup' = [cleanup EXCEPT ![t] = [FirstRound EXCEPT !.round = cleanup[t].round + 1]] /\ UNCHANGED live
       ELSE live' = [live EXCEPT ![t] = "gone"] /\ UNCHANGED cleanup
    /\ UNCHANGED <<layoutVars, acts, startVars, stack, mem, keys, late, exitVars, signalVars>>

-----------------------------------------------------------------------------
(* exit runs what atexit holds, newest first, and ends the process.  A     *)
(* second call, by another thread or by a destructor, goes on with what    *)
(* the first has not started.                                              *)
InExit(t) == Up(t) /\ ~ Empty(t) /\ Top(t).kind = "exit"
SetExit(t, call) == stack' = [stack EXCEPT ![t] = Append(Front(@), call)]

(* The note: nothing if its file cannot be opened, otherwise the frames of *)
(* the guest, where the walk may fault.                                    *)
xl_note_exit(t) ==
    /\ InExit(t) /\ Top(t).left = 0 /\ atexits # <<>> /\ Last(atexits) = "note"
    /\ atexits' = Front(atexits)
    /\ \/ UNCHANGED <<mem, keys, phase, handler>>
       \/ /\ mem' = [mem EXCEPT ![t] = xl_current_state(@)]
          /\ keys' = Create(keys, <<"state", "alt">>)
          /\ UNCHANGED <<phase, handler>> \/ Deliver(t, "segv")
    /\ UNCHANGED <<layoutVars, acts, images, flag, started, live, stack, cleanup, late, list, owed, ran, crashing>>

(* xl_run_cxa_dtors counts the destructors under the lock,                 *)
xl_run_cxa_dtors(t) ==
    /\ InExit(t) /\ Top(t).left = 0 /\ atexits # <<>> /\ Last(atexits) = "cxa"
    /\ atexits' = Front(atexits)
    /\ SetExit(t, [ExitCall EXCEPT !.left = Len(list.items)])
    /\ UNCHANGED <<layoutVars, acts, startVars, live, mem, keys, cleanup, late, list, owed, ran, signalVars>>

(* then reads where the list is without it,                                *)
LoadList(t) ==
    /\ InExit(t) /\ Top(t).left > 0 /\ Top(t).loaded = -1
    /\ SetExit(t, [Top(t) EXCEPT !.loaded = list.moves])
    /\ UNCHANGED <<layoutVars, acts, startVars, live, mem, keys, cleanup, late, exitVars, signalVars>>

(* A mutant of NextIndex: from the first one to the last.                  *)
NextIndexForward(t) == Len(list.items) + 1 - Top(t).left

(* and calls the destructor found there, from the last one counted to the  *)
(* first.  If the list has moved since, the read is of freed memory: it    *)
(* holds what it held, or the call faults.                                 *)
NextIndex(t) == Top(t).left

CallDestructor(t) ==
    /\ InExit(t) /\ Top(t).left > 0 /\ Top(t).loaded # -1
    /\ LET m == xl_current_state(mem[t]) IN
       \/ /\ ran' = Append(ran, list.items[NextIndex(t)])
          /\ mem' = [mem EXCEPT ![t] = m]
          /\ keys' = Create(keys, <<"state", "alt">>)
          /\ stack' = [stack EXCEPT ![t] = Append(Append(Front(@), [ExitCall EXCEPT !.left = Top(t).left - 1]),
                                                  GuestFrame("dtor", m))]
          /\ UNCHANGED <<phase, handler>>
       \/ /\ Top(t).loaded # list.moves
          /\ Deliver(t, "segv")
          /\ UNCHANGED <<ran, mem, keys, stack>>
    /\ UNCHANGED <<layoutVars, acts, images, flag, started, live, cleanup, late, list, atexits, owed, crashing>>

EndOfExit(t) ==
    /\ InExit(t) /\ Top(t).left = 0 /\ atexits = <<>>
    /\ phase' = "exit"
    /\ UNCHANGED <<layoutVars, acts, images, flag, started, threadVars, exitVars, signalVars>>

-----------------------------------------------------------------------------
(* Signal handlers.  The first crash is reported; one that comes while a   *)
(* report is written, on this thread or on another, ends the process.      *)
InHandler(t) == ~ Ended /\ handler[t] # <<>>
At(t) == Last(handler[t]).at
Goto(t, at) == handler' = [handler EXCEPT ![t][Len(handler[t])].at = at]

(* A mutant of CrashAgain: the second handler just returns.                *)
CrashReturns(t) == handler' = [handler EXCEPT ![t] = Front(@)] /\ UNCHANGED phase

(* The default action is restored and the signal raised again.             *)
CrashAgain(t) == phase' = "signal" /\ UNCHANGED handler

xl_crash_handler(t) ==
    /\ InHandler(t) /\ At(t) = "enter" /\ Last(handler[t]).signal # "term"
    /\ crashing' = TRUE
    /\ IF crashing THEN CrashAgain(t) ELSE Goto(t, "report") /\ UNCHANGED phase
    /\ UNCHANGED <<layoutVars, acts, images, flag, started, threadVars, exitVars>>

(* xl_signal_note, for signals that are no crash; without its file there   *)
(* is no report.                                                           *)
xl_signal_note(t) ==
    /\ InHandler(t) /\ At(t) = "enter" /\ Last(handler[t]).signal = "term"
    /\ \E at \in {"report", "raise"} : Goto(t, at)
    /\ UNCHANGED <<layoutVars, acts, startVars, threadVars, exitVars, crashing>>

(* xl_walk_guest follows frame pointers of the guest, and may fault.       *)
xl_walk_guest(t) ==
    /\ InHandler(t) /\ At(t) = "report"
    /\ mem' = [mem EXCEPT ![t] = StateInHandler(@)]
    /\ keys' = Create(keys, <<"state", "alt">>)
    /\ \/ Goto(t, "raise") /\ UNCHANGED phase
       \/ Deliver(t, "segv")
    /\ UNCHANGED <<layoutVars, acts, images, flag, started, live, stack, cleanup, late, exitVars, crashing>>

Raise(t) ==
    /\ InHandler(t) /\ At(t) = "raise"
    /\ phase' = "signal"
    /\ UNCHANGED <<layoutVars, acts, images, flag, started, threadVars, exitVars, signalVars>>

-----------------------------------------------------------------------------
GuestStep(t) ==
    \/ SpawnThread(t) \/ CallBack(t) \/ xl_manual_cxa_atexit(t) \/ xl_tlv_get(t) \/ SetKey(t)
    \/ GuestLeaves(t) \/ GuestExits(t) \/ xl_fault(t) \/ Signal(t)

HostStep(t) ==
    \/ Return(t) \/ KeyDestructor(t) \/ NextRound(t)
    \/ xl_note_exit(t) \/ xl_run_cxa_dtors(t) \/ LoadList(t) \/ CallDestructor(t) \/ EndOfExit(t)
    \/ xl_crash_handler(t) \/ xl_signal_note(t) \/ xl_walk_guest(t) \/ Raise(t)

Next ==
    \/ Setup \/ xl_run_initializers \/ main
    \/ \E t \in Threads : GuestStep(t) \/ HostStep(t)

(* The kernel runs every thread, and a guest function that is not waited   *)
(* for returns.                                                            *)
Fairness ==
    /\ WF_vars(Setup) /\ WF_vars(xl_run_initializers) /\ WF_vars(main)
    /\ \A t \in Threads : WF_vars(HostStep(t))

-----------------------------------------------------------------------------
(* Whatever order threads end, keys are destroyed and handlers run in, a   *)
(* thread in guest code stands on memory that is its own and live: the     *)
(* register block of the innermost function is the one its key holds, the  *)
(* blocks of thread-local variables it took addresses in are not freed,    *)
(* and if it crashes there is an alternate stack, which is not freed.      *)
Live(t, k, n) == n \in 1..mem[t].made[k] /\ n \notin mem[t].freed[k]
SizeOf(k) == (CHOOSE r \in Regions : r.key = k).total

GuestMemoryIsLive ==
    \A t \in Threads : ~ Ended /\ ~ Empty(t) /\ Top(t).kind # "exit" =>
        /\ Top(t).state = mem[t].tsd["state"] /\ Live(t, "state", Top(t).state)
        /\ \A h \in Top(t).held : Live(t, h.key, h.block) /\ h.offset < SizeOf(h.key)
        /\ Live(t, "alt", mem[t].altstack)

(* A thread that has ended has given everything back, unless guest code    *)
(* ran in the last round of its destructors.                               *)
NothingLeaks ==
    \A t \in Threads \ late : live[t] = "gone" =>
        \A k \in DOMAIN mem[t].made : mem[t].freed[k] = 1..mem[t].made[k]

(* Destructors run once each and newest first, those of an image before    *)
(* those of the images it is given before; and if exit was called once and *)
(* completes, every destructor registered by then has run.                 *)
DestructorsRunInOrder ==
    /\ \A i, j \in DOMAIN ran : i < j =>
        /\ ran[i].number > ran[j].number
        /\ ran[i].image # 0 /\ ran[j].image # 0 => ran[i].image <= ran[j].image
    /\ phase = "exit" /\ Len(owed) = 1 => \A n \in 1..owed[1] : n \in {d.number : d \in Range(ran)}

(* A crash, a signal or a call of exit ends the process: handlers that     *)
(* fault, threads that crash together and destructors that go on           *)
(* registering cannot hold it up.  Ending a thread for its fault can, when *)
(* it is the one in exit.                                                  *)
EndIsReached ==
    (\E t \in Threads : handler[t] # <<>> \/ (~ flag /\ ~ Empty(t) /\ Top(t).kind = "exit")) ~> Ended

=============================================================================
