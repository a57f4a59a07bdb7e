# Katabasis: models, checks and proofs

Katabasis turns an arm64 iOS executable into an armv7 one that runs on iOS 6.
This directory holds TLA+ models of the parts of it that are hard to test, the
TLC configurations that check them on small instances, and TLAPS proofs for
instances of any size. Source paths are relative to the repository's root
(`src/` in `PROJECT.json`); line numbers are those of the commit modelled.

Contents: [the system](#1-the-system) · [modules](#2-the-modules-and-the-code)
· [runs](#3-what-the-runs-check) · [bounds and fairness](#4-bounds-and-fairness)
· [proofs](#5-what-is-proved) · [disagreements found](#6-where-code-and-comments-disagree)
· [limits](#7-what-the-models-leave-out) · [plan](#8-plan)

## 1. The system

A translation has two halves. At **build time** `xlate` reads the guest's
Mach-O images, decides which image answers each bind, lifts every function to
LLVM IR and rewrites the Objective-C metadata; `xlgen` generates bridges for
what the guest takes from the host; `scripts/translate.sh` runs both and
links. At **run time** lifted code keeps its 64-bit registers in a state block
per thread and its data at fixed addresses below 4 GiB; every crossing to the
host goes through a bridge, and the host calls back through `xl_invoke`.

| component | state | operations | talks to | what is hard | what makes it correct |
|---|---|---|---|---|---|
| block bridge (`runtime/objc_bridge.m` 1045-1266, 1379-1477) | `xl_block_forward`, `xl_block_lock`, a count per wrapper, a count per guest block | retain, copy, release, autorelease, message, pass to the host, dispose helper | both Block runtimes, message routing | counts change outside the lock; two runtimes count | a reference keeps its wrapper alive; nothing leaks; one wrapper per block |
| shadow classes (`runtime/swift_classes.m`) | two hash tables, the static classes not yet built, a recursive build lock | translate a class in or out, build a shadow, take over a class from the Swift runtime, register the listed ones | message routing, the host's Objective-C runtime, guest `+initialize` | guest code runs inside a build; two tables, two locks | one shadow per class, for good; tables inverse; no guest-layout class reaches the host |
| message routing (`objc_bridge.m` 314-788, bridges made by `xlgen.cpp` 1174-1326) | registers of a thread, the pending super class, the variant cache | send, send to super, route, bridge, call back | shadow classes, `xl_invoke` | `+initialize` on the registers of a message; a thread-specific slot read later | the right method runs with its own arguments and signature, and returns to its sender |
| calls and lookup (`runtime/runtime.c` 320-372) | the function table, the state block | look up, call, tail call, invoke | everything | indirect jumps to code that was never lifted | a jump the lifter could follow lands |
| lifter and jump tables (`xlate.cpp` 228-750, 1004-1030, 1344-1371) | functions, worklists, the table being read | lift, evaluate an entry, accept or skip it, next round | the function table at run time | the end of a table is guessed from range checks; found code has tables of its own | each admitted target is lifted, once; nothing else is; it ends |
| thread-data scan (`xlate/src/tsd_scan.cpp`, `runtime/xl_tsd_guard.h`) | states per block, worklist, seeds per function | two dataflow fixpoints, calls hand registers on, report | refuses the build; guard pages back it | loops, recursion, joins | an access of an accepted program is to the audited slot |
| binds and exports (`exports.cpp`, `macho.cpp`, `xlate.cpp` 132-226, 850-930) | images by name, replaced libraries | add, replace, find, write the names left to the host, fill slots | `xlgen`, linker | re-exports, names defined twice, weak imports, two passes that must agree | a bind takes its own library's definition; no strong bind is left over; weak ones stay unbound |
| class split (`objc.cpp` 415-516) | superclass links over all images | resolve, walk, move or keep, refuse | shadow classes at run time | two class lists, links across images | no class at host layout under one at the guest's |
| pipeline (`scripts/translate.sh`) | the files of an output directory | manifest, bridges, lift, compile, link, reuse | the tools | a run stops anywhere, inputs change between runs | a binary comes from one lift, that of its inputs |
| bridges' conversions (`xlgen.cpp` 136-327, 439-996, 1752-1801, `runtime/xl_bridge.h`, `bridge.m` 880-895) | callback slots per signature; temporaries of a call | classify a type, lay out a mirror, pack, narrow, call, widen, copy back, enter a callback | every bridge | two ABIs, sentinels at the edge of a type, memory copied in before and out after a call, a pool that is never emptied | an argument says the same to both sides, what the host writes comes back, nothing else changes, a callback stays its function |
| process and threads (`runtime/runtime.c` 67-318, 374-430, `bridge.m` 773-876, `xlate.cpp` 1031-1100) | register block, guest stack, alternate stack and thread-local blocks per thread; the list of destructors; `xl_crashing` | enter the guest, start, register, thread exit, exit, crash, signal | pthread keys, `atexit`, signals | key destructors that are guest code, exit against registration, crashes inside crashes | guest code stands on its own live memory; nothing leaks; destructors newest first; the end is reached |
| ivar layout (`objc_bridge.m` 1488-1572, `xlgen.cpp` 2245-2279) | `class_ro` and offset variables, the table of recorded layouts | fix a class after its superclass | the host runtime, which moves classes too | order of the table, moved twice, read-only offsets | variables of a class lie in the instance, above the superclass, apart |
| other C services (`bridge.m`) | image callbacks, zlib mirrors | single calls | host libraries | none that spans calls | not modelled |

`PROJECT.json` lists every component with its status, and under `hazards` the
places that are hard to test, each with the properties that would catch it.

## 2. The modules and the code

**BlockBridge** (with **BlockIdentity**, the promise it implements, and
**BlockBridgeProofs**). A guest block is of one of the kinds `xl_is_guest_block` tells
by the isa: a stack block, a heap block, or a global one (`_NSConcreteGlobalBlock`),
which lies in a data section, is never copied or counted by the guest's runtime and
is mapped under its own address. Code needs no reference to name a global block;
`GlobalUsers` says which threads do. A wrapper has a count and a state (live, dying, free), a
guest heap block a count, and every reference the program holds is a slot:
owned by guest code, host code or a pool, or counted by the guest's own Block
runtime (`direct`). A call goes through the steps at which other threads can
come in: take the lock and look up (`LookUp`), `Hit` or `Miss` (guest
`_Block_copy` and a new wrapper), `Publish`, then what the entry point does with
the result; a release drops the count outside the lock, and the dispose helper
takes the lock again (`Dispose`, `GuestRelease`). `DirectThreads` are the
threads that also count on the guest block (`_Block_copy` in guest code, the
`XLGuestBlock` holder); `Profile` adds programs that retain stack blocks or call
`objc_autorelease` on a block.

**ShadowClasses**. A class is a pair of objects (class, metaclass), a shadow a
pair of host objects. Each thread has a stack of frames in the file, because a
build messages the superclass and that runs a guest `+initialize`, which may
message further classes with the recursive build lock held. One step is one
critical section of a table's spin lock, one entry or exit of the build lock,
or one call of the host runtime. `crash` records a guest-layout class that
reaches the host (`fault`) and a name that exists already (`abort`).

**MsgRoute**. Guest and host frames of a thread on one stack, with the registers
they share reduced to whose arguments and which return address they hold. A message
first asks for the class of its receiver (`xl_class_of`, 743) or of its sender
(`xl_class_in`, 775). If that is a Swift class of the guest nobody messaged yet
(`Unbuilt`), the message waits in a frame `class` and the shadow is made in frames
`build` above it, which message the superclass: its `+initialize` (`Initializer` says
whose it is, as a class inherits it) runs on the registers of the message, and only
then does `xl_route` save them (421). `GuestReturns` tells the entry that puts all
registers back (`xl_invoke_n`, for the methods of a shadow) from the one that puts only
PC and x30 back (`xl_invoke`, for all others). What ShadowClasses
says of a build in detail, its tables and locks, is one step here
(`xl_build_shadow`). The routing steps follow `xl_route` line by line: look up (a `+initialize` may run
first), guest method, cached variant, variant by encoding, selector table,
dynamic send, fault. The tables `xlgen` generates are operators over the
declarations (`Best`, `SelBridge`, `VariantBridge`). The variant cache has no
lock; a store that meets another thread's use ends the behaviour (`torn`).

**TsdScan**. A program is a sequence of instructions reduced to what they do
with registers. `BeginFunction`, `SolveBlock` and `EndFunction` are the
interprocedural loop, one worklist step at a time, in the order of the code. A
program the scan accepts then runs, from every function start, under the guard.

**LiftTables**. `LiftNext` takes an address; `Skip`, `Accept` and `Resolved` are
the loop of `JumpTables::Resolve`; `NextRound` and `EmitTables` close the rounds.
The lifted program then runs, with every index its range checks admit, through
the binary search of `xl_lookup`.

**GuestBinds** holds the operators of `macho.cpp` (which library an ordinal
names), `exports.cpp`, `WriteResolved` and `objc.cpp` over an input. `Find` is the
recursive lookup, with the calls it may still make as the argument of a recursive
function; `FindStep` is one call of it. `Answers` is the reference it is compared
with: two-level lookup as `exports.h` describes it, without the bridge and without
an order. `WellFormed` says what an input is. An image pulled out of a shared cache
(`unread`) has stubs and a table of symbols, but no table of binds; the script reads
imports from both tables and what is weak from the second only (`Imports`,
`WeakOnly`). **Translate** runs them in the order of
the script.
What `xlgen` makes of a name is one of seven kinds. Every file the lift leaves
is a variable that holds the key of the lift it came from. `Stop` and `Cut` end
a run between two steps and inside one.

**Widths** holds the conversions of one scalar (`xl_bridge.h`), for any pair of
widths. **CTypes** is the generator's
half of a bridge, as functions of a C type: `SameLayout`, `Classify`, `Leaves`,
`Mirror`, `DetectArrays`. One description stands for the guest's and the host's
type of the same name, with both sizes or both lists of fields. **Marshal** is a
call through the bridge so generated: `GuestCalls` packs, `Prep` makes the host's
arguments and takes callback slots, the host's function writes through what it
was given (`HostWrites...`) and calls functions it holds (`HostCalls`), `HostReturns`
copies back and stores the result. Guest memory has an address for every byte,
with the offsets of the two ABIs, so padding, width and aliasing are real; the
properties read it by the ABI, never by a mirror.

**IvarLayout** is `xl_fix_layouts`: the table `xlgen` emits, the recursion into the
superclass as a stack of calls (`calls`), the shift from the recorded values.
**Process** extends it to the life of the program. Start-up is `Setup` (the
layouts), `xl_run_initializers` and `main`. Every thread has a stack of guest
functions the host called; `xl_invoke` pushes one, on the register block that
`xl_current_state` finds or makes. Guest memory of a thread hangs on keys; when
it ends, `KeyDestructor` and `NextRound` run the destructors as libpthread does,
one of them guest code that enters all of this again. `exit` is a frame of its
own that takes handlers off `atexits`; `LoadList` and `CallDestructor` are the
unlocked read of `xl_cxa_list` and the call. A signal pushes a handler; the
first crash goes on to the report, whose walk over guest frames may fault.
What guest code may do is `GuestStep`.

**Orders** has the one operator that TsdScan and LiftTables share: a set of
addresses in ascending order.

The proofs are in modules of their own: **BlockBridgeProofs**,
**ShadowClassesProofs**, **MsgRouteProofs**, **TsdScanProofs**, **LiftTablesProofs**,
**TranslateProofs** and **ProcessProofs**, each of the module it is
named after (ProcessProofs of IvarLayout too). **DataTheorems** has what they need
about data: sequences used as stacks, sets of numbers in order, and the theorems
about Widths.

The `MC` modules only give constants values. Definitions whose comment says
*Mutant* are the seeded faults that `PROJECT.json` lists: each property is
violated when the definition below is replaced by its mutant.

## 3. What the runs check

| run | question | answer |
|---|---|---|
| `block_shared` | two threads share blocks and use only the bridge; one of them uses a global block | holds: exact counts, live wrappers, no dangling entry, one wrapper per block, `BlockIdentity` implemented, `IInv` inductive candidate holds |
| `block_live` | one thread also counts on the guest block, the other uses a global block; stack blocks and autorelease too | holds: both halves kept alive, every call returns |
| `block_race` | two threads that use only the bridge, and the same global block | **violated**: a dying wrapper is handed out |
| `shadow_shared` | two threads message, hand over and look up a class, its subclass and a stub | holds: tables inverse, one shadow for good, below the right superclass |
| `shadow_listed` | one thread, from start-up on | holds: nothing faults or aborts, listed classes registered, calls return |
| `msg_routing` | plain and super messages, call-backs, `+initialize`, messages that are the first to meet Swift classes, two threads | holds: right method, arguments, signature, return |
| `msg_super` | `super` with a selector of several signatures | **violated**: the message goes back to the receiver's own method |
| `tsd_scan` | 2 800 programs scanned, then run | holds: accesses at a fixed offset from a base are seen, the scan settles |
| `lift_tables` | programs with two switches, lifted, then run | holds: jumps land, only table targets, it ends |
| `marshal` | calls with scalars at every boundary, out-slots, counted arrays, records, callbacks, blocks, host variables | holds: arguments arrive, writes come back and nothing else changes, a callback is its function |
| `process` | hierarchies of classes at start-up; a process with two threads whose guest does anything | holds: ivars fit, guest memory is live, nothing leaks, destructors in order, the end is reached |
| `translate` | 6 171 inputs, interrupted and repeated runs | holds: see the properties of `Translate` |

Deadlock is checked except in the runs where the system may stop: a process
that ended (`shadow_shared`, `msg_routing`, `process`, `marshal`), a program that returned
(`tsd_scan`, `lift_tables`), and `block_live`, where every slot can fill up with
references that leaked through `objc_autorelease`.

## 4. Bounds and fairness

*block*: two threads, three slots, one stack block, one global block, two heap
addresses, two wrappers. A race needs a releasing thread and a looking-up one; a leak needs
one slot more than the references shared. Two heap addresses and two wrappers
let an address be reused while an old wrapper is dying. `MaxCount` = 5 is above
what the slots can hold, except through the leak; `Room` starts a call only
while memory is left. Slots, heap addresses, wrappers are symmetric where the
run checks safety only.

*shadow*: a class, its subclass and one handed over in place of a stub are the
smallest set in which builds nest, meet and cross. `Touch` makes a
`+initialize` message the metaclass of another class.

*msg*: a host class, a guest subclass in Objective-C, an absent class, and two Swift
classes of the guest, the one below the other, with a `+initialize` in the upper one:
the shadow of the lower one needs that of the upper one. Selectors with a guest
override, with two signatures, with a manual handler, a format, variadic, only
known at run time, neutralised. Depths of four frames for one thread, two for
the other: a message, a `+initialize` inside it, a call-back and a message of
that; or `main`'s code, a message that waits, the build it waits for and the build
inside that or the `+initialize` of the class above. `Sends` says which messages the
code of each thread sends: the second thread sends those that meet the first one's
in the cache, in a `+initialize` and at a shadow.

*tsd*: two registers (one preserved), functions of five instructions with every
combination of two middle instructions. `MaxRounds` = 3 stands for 4096: three
functions hand on one register at most twice.

*lift*: tables of four entries, every interval of admitted indices,
`MaxEntries` 3 so that a table is longer than the limit.

*translate*: four images, one of them out of a shared cache in a part of the inputs,
three names. `kMaxReexportDepth` is the code's 8;
the superclass walk is bounded by 4 instead of 256, with chains of three. The
inputs of `translate` satisfy the hypotheses of the theorems (`InputsAreLinked` in
`MCTranslate`, section 5). `UnseenProjects` and `UnlistedProjects` there are inputs that
`StrongIsSeen` and `UnlistedEndLocally` exclude; the code fails on them (section 6).

*marshal*: a byte has two bits, so that a guest `long` has 2^16 values and a host
`long` 2^8, and the memory is 96 bytes; offsets and sizes in bytes are the real
ones. Four sentinels stand for 256, two callback slots for 32. Inputs are the
values on both sides of every boundary. The host's function does two things
(writes a cell or a field, or calls back) before it returns; four calls follow
each other where a callback is kept. Records: one with padding on both sides,
one with a nested record and an array, one that is opaque.

*process*: two threads, `Rounds` 3 instead of 4 and `Capacity` 1 instead of 128, so
that a second destructor moves the list. The guest does four things (three with
`xl-fault-ends-thread`): enough for a thread, a key, a destructor and an exit or a
fault. Classes: one over another over a host class, a root or a class the table
lacks, up to two variables each, sizes of the host's class below and above the
guest's, tables in both orders, classes the runtime has moved already.

Fairness. `process` assumes weak fairness of every thread's host steps and of the
return of a guest function: iOS schedules its threads, and handlers and key
destructors wait for nothing; what the guest does besides is not fair.
`block_live` and `shadow_listed` assume strong fairness of every
thread's steps inside the bridge: iOS schedules all runnable threads, its mutexes
queue their waiters, and a waiter that finds the lock free infinitely often gets
it; what the program does between calls is not fair. `tsd_scan` and
`lift_tables` assume weak fairness of the step of a sequential program.

## 5. What is proved

`BlockBridgeProofs` proves for every set of threads, slots, blocks and wrappers
(finite, `BlockAssumption`), and every program all of whose references go
through the bridge and in which no two threads use the same global block
(`Disciplined`):

* `Invariant`: `IInv` is invariant, and so the type invariant;
* `WrappersStayAlive`, `NeverUnderCounted`: a wrapper somebody has a reference to is
  live, and its count covers all of them;
* `MapIsSound`, `WrapperIsUnique`, `BlocksKeepIdentity`;
* `GuestBlocksAreOwned`: the guest block of a wrapper in use is not freed under it;
* `Refinement`: the bridge, with lock, map and two counts, implements
  `BlockIdentity`;
* `CountsAreExact`: without retained stack blocks and `objc_autorelease`
  (`Profile = {}`) the count of a wrapper is exactly the references to it.

Both halves of `Disciplined` are needed: `block_race` violates `HeldWrapperIsLive`
without the second, and without the first if `MCBlockBridge_race.cfg` is changed as
it says there. The code guarantees neither; a global block that captures nothing is an ordinary thing to pass from two threads.

The argument. That a held wrapper is live is not inductive: it depends on what
the calls under way rely on. `IInv` adds that exactly the thread between lookup
and unlock holds the lock (`LockInv`); that a reference in a slot is counted on a
mapped wrapper of its block (`SlotInv`); that a call that passed a heap block
still has the slot it passed, so that the wrapper it finds is one it holds a
reference to (`CallInv`); that a wrapper whose count reached zero belongs to one
thread, which disposes of it (`DyingInv`); and that wrappers in use and guest
blocks correspond one to one (`MemoryInv`); that a wrapper of a global block is held,
and disposed of, by users of that block only (`UserInv`); and that a wrapper that is
neither mapped nor free has a thread that is making or disposing of it
(`ThreadInv`). With these, the last reference can only be dropped when no lookup can
find the wrapper: whoever looks it up holds one, or is the one thread that uses the
global block and would itself be disposing of the wrapper. The counting facts (`CardPlus`, `CardMinus`, `CardSwap`, `CountStep`) say how
the number of holders changes when one is added or removed, and there is one
lemma per action. `NoUnderCount`, not equality, is in the invariant: the
theorems then also cover programs that leak through `objc_autorelease`. The
refinement maps every step inside the bridge to a stutter except the one at
which a reference appears or goes, and needs `IInv` to know that the wrapper of
that step is the block's one; exactness (`OwnedInv`) adds the references that a
call under way has taken and not handed on yet.

`ShadowClassesProofs` proves for any number of threads, classes, stubs and host
pairs, any hierarchy, and any `+initialize` in the middle of a build:
`OneShadowHolds`, `SuperIsShadowHolds`, `ShadowIsForeverHolds`,
`ListedAreRegisteredHolds`, and for one thread `NamesComeOutAsGuestHolds` (with two it
is false: another thread can look a pair up between its registration with the
host and its publication). A build goes on after it has let guest code run, with
what it read before. So `IInv` says, besides that the tables are inverse, who is
inside the build lock, which class a build under way has a pair for that nobody
else has, and for every frame of every stack what it relies on while the frames
above it run: the answer it got is still the table's (`FrameOK`), the answer it
waits for is that of the call right above it (`LinkOK`). The tables are parameters
of these predicates and only grow, so a step of one thread keeps them true of
the others.

`NoCrashHolds` is for one thread too, and for programs that `Ranked` allows: classes
can be numbered so that a superclass has a lower number than its class and no
`+initialize` messages a class of a higher one than its own; and it messages only
what its code can name, classes laid out by the compiler, its own and its
superclass. `SafeInv` says, on top of `IInv`: a lookup is made only of a class that one of
the tables has, and between the reads of the two nothing is published, so a class
object of the guest's is never the answer (`SafeFrame`); and the builds under way on
a stack are of classes of falling rank (`Descends`), so the one that publishes is not
a class a build further down is about to allocate. Both conditions are needed: two
threads, or a `+initialize` that messages the subclass being built, end the process
(section 6). TLC evaluates `Ranked` for the instances of `MCShadowClasses`.

`MsgRouteProofs` has two layers. For every program, `IInv` ties the registers to
the stack: a message keeps the return address it was sent with, guest code that the
host called keeps the x30 of the bridge below it, and `ReturnsToSenderHolds` follows
without a condition. That a message also keeps its arguments is true only under
`QuietBuilds`: above a Swift class whose shadow is made when a message first meets it,
no class has a `+initialize` in guest Objective-C. `IInv` says so as an implication, and
`ArgumentsArriveHolds` has `QuietBuilds` as its hypothesis; the code fails without it
(section 6). So do the theorems of the second layer, because a message to
super reads its selector from x1 after the build (775-776). `RouteInv` adds what is known about
the method, the pending super class and the cache, and gives `RightMethodHolds`,
`SuperClassIsTakenHolds` and `SignatureMatchesHolds` under `SuperIsPlain`: what guest
methods send to super is neither handled manually nor a format nor declared in
several ways. The condition is needed, since `msg_super` violates `RightMethod` with
one selector that breaks it; TLC evaluates both conditions on the instances
(`MCMsgRoute`).

`TsdScanProofs` proves `AccessIsSeenHolds` for every program, set of registers and
division into functions. A state for each block of a function is *settled* if every
block is entered with at least what its predecessors leave behind. The argument has
two halves that meet in this notion. The scan ends with one: a block that is not on
the worklist has handed on what it leaves (`SolveOK`), so an empty worklist means
settled, and every function that reads the base is still to be analysed or has a
settled state all of whose accesses to other slots are violations (`ScannedOK`). The
running program stays below all of them: the bases it read itself are in every
settled state of its function at its place (`Tracks`), along every edge and across
calls (`EdgeTracks`), so they are in the one the scan reported from. Neither half
mentions how the worklist is ordered, which functions come first or what the seeds
are. The hypothesis `ReadsOK` is that the last function, which has no range of its
own (section 6), does not read the base; TLC evaluates it for the programs of
`MCTsdScan`.

`LiftTablesProofs` proves `OnlyTableTargetsHolds` for every program: worklists, the
functions and the table being read hold only starts and targets of admitted
indices.

`SwitchLandsHolds`, in the same module, holds for every program that `Follows` allows:
no address is 0, the entry point can be lifted, and a range check that can be
evaluated lets a range through, which is what the comment at `xlate.cpp` 678 says; TLC
evaluates it for the programs of `MCLiftTables`. `LandInv` says: what was found and not
lifted is on one of the two worklists (`ListsOK`); the loop of `Resolve` has taken all
it could of the indices below `i`, and once it accepted one it is past the first
index of the range (`ReadOK`); the targets of a switch that is finished are known
(`FoundOK`); the table is strictly ascending and has an entry for all that was lifted
(`TableOK`). The binary search is an induction over the length of the range searched,
made without an induction theorem: a set of counterexamples that is not empty has a
shortest one (`Least`), and that one contradicts the step.

`TranslateProofs` proves all six properties of `Translate`, for every set of inputs
that are `WellFormed`, any depth limits and any sequence of runs that stop anywhere.

* `BinaryIsOfItsInputsHolds` and `BinaryIsConsistentHolds` rest on an invariant of the
  files: from before a lift touches its first file until after it wrote the last
  there is no stamp, so a stamp vouches for all the files a link reads.
  `BinaryIsConsistent` compares the class split of the second pass with that of the
  first. That they agree (`KeptSame`) is proved: a lookup that an image answers in the
  first pass has the same answer in the second, one that none answers is left to the
  bridge, and neither changes where a chain of superclasses ends.
* `BindsTakeTheirLibraryHolds` compares `Find` with `Answers`: what `Find` gives without the
  bridge is one of the answers, and it gives something if there is one; with the
  bridge it gives the same or, if there was none, the bridge's.
* `NothingIsLeftOutHolds`: a name that some strong bind does not find in the first pass
  is among the imports the bridge is made for, if the script sees that it is strong.
* `WeakStaysUnboundHolds` needs no hypothesis. It says what weak means without the
  script's list: every bind of the name is weak, and some table of binds has one. It
  excludes names that an image re-exports by name: such a bind goes on to another
  name, which may be bridged.
* `LayoutsDoNotMixHolds`: a class below a moved one is moved or the split is refused;
  below a class that only `__objc_clsrolist` names, a Swift class has a chain that is
  one step longer than that class's and still within the limit, so it is moved. The
  chain above such a class is the one that was read, since nothing resolves its
  superclass: the theorem is about inputs where that is no import.

The lookup and the walk are recursive functions of the steps left. Their closed
form comes from `Iteration` (a function defined by recursion up to a bound exists),
facts about every level from `UpToBound` (induction up to a bound), both in
`DataTheorems` and both by the least counterexample. The hypotheses are in `Translate`:
`NoneHidden` (`BinaryIsConsistent`, `BindsTakeTheirLibrary`), that no library passes a name
on in two ways of which the bridge could answer the first, without which the code
binds the wrong one (section 6); `StubsAreCalls` (`NothingIsLeftOut`), that only
functions have stubs, and `StrongIsSeen`, that no strong import of an image without a
table of binds is taken for weak, where the code fails (section 6);
`UnlistedEndLocally` (`LayoutsDoNotMix`), that a class only `__objc_clsrolist` names
imports no superclass, neither the host's nor one of another guest image, and the
chain above it ends, where the code fails too (section 6). TLC evaluates them for the
inputs of `MCTranslate`.

`ProcessProofs` proves `GuestMemoryIsLiveHolds` and `NothingLeaksHolds` for any number
of threads, images, rounds of key destructors and nested calls, whatever the
guest does. `IInv` says of one thread: the block a key holds is the only one of
its key that is not freed, and the kernel knows the alternate stack (`MemOK`);
every frame stands on the blocks the keys hold now (`FrameOK`); memory hangs on
keys that exist (`Hung`); register block and alternate stack have the first two
keys, and keys of one `pthread_once` are created together (`KeysOK`). That last part
is what the argument turns on: a destructor that is guest code needs both blocks,
and between the destructors of the first two keys no guest code runs, so it finds
both or makes both. If no guest code ran in the last round, what was scanned of
it stays empty (`EndOK`); otherwise `NothingLeaks` excepts the thread (`late`), as a
register block made there is really left behind. `RegionsOK` is assumed of the
images: names differ, and a variable lies inside its block. The second half is a
property of the input that `xlate` does not establish when there is a gap between
the sections (`xlate.cpp` 1094, a hazard); only the offsets in `GuestMemoryIsLive`
depend on it. TLC evaluates it for the images of `MCProcess`.

`IvarsFitHolds`, in the same module, holds for any set of classes that a compiler
could have written (`LayoutsOK`: variables lie inside their class and apart, a root
class has the offsets of its variables, no class is its own superclass), any order of
the table and any sizes of the host's superclasses. `xl_fix_layout` marks a class as
fixed before it has moved it, so "fixed" alone says nothing about its size.
`LayoutInv` therefore tells the classes whose call has returned from those still being
moved: the calls under way descend in the hierarchy, so the superclass that a call
finds fixed is not one of them but final, and what was moved after it stays
above it. TLC evaluates `LayoutsOK` for the hierarchies of `MCProcess`.

`DestructorsRunInOrderHolds` holds for any number of threads, initializers, destructors
and calls of exit. `OrderInv` says that initializers were called by image, the last
first, and so the destructors they registered are in that order in the list
(`StartOK`, `ItemsOK`); that the host's atexit holds `xl_run_cxa_dtors` exactly from the
first destructor until some exit takes it (`AtexitOK`); hence that at most one exit
call has destructors left to run, all of them older than those that ran (`RunsOK`); and
that, if exit was called once, this call has run all that it does not have left
(`OwedOK`). The list may grow and move under the call: what it relies on is the
number it counts down from, which is fixed when it starts.

`DataTheorems` proves of `xl_bridge.h`, for every width of the two sides and every
number of sentinels (`WordsOK`, what `WordsAssumption` says of the constants): what the host gives out comes back
unchanged and never faults (`SignedRoundTrip`, `UnsignedRoundTrip`,
`PointerRoundTrip`), and what the guard lets through comes back as itself, except
where the host takes it for an extreme of its own or for one of its topmost
addresses (`SignedComesBack`, `PointerComesBack`). Each is a case split on which
edge of the type the value lies at. `marshal` checks the generated code around
these functions.

Not proved, and why:

* liveness (`CallsReturn`, `EndIsReached`, `ScanEnds`, `LiftEnds`): out of reach of
  this version of TLAPS;
* the properties of `Marshal` (`ValuesArrive`, `WritesComeBack`, `CallbackIsTheFunction`):
  it rests on the layouts of `CTypes`, which recur over the structure of a type as
  RECURSIVE operators, and what those compute for every type is an induction over
  data. What can be proved for every width, the conversion of one scalar, is in
  `DataTheorems`.

## 6. Where code and comments disagree

Shown by runs, and in `PROJECT.json` under `findings`:

* `block_race`: a release drops a wrapper's last reference outside
  `xl_block_lock` (`objc_bridge.m` 1259) while a lookup still finds it (1192). It takes
  a thread that can name a block without a reference of the bridge: from the guest's
  own Block runtime, or because the block is global.
* `msg_super`: the class of a super message is left in its slot on some paths (461).

Five more are one line of a configuration away, at the lines of hazards.

* Set `Shadowed = {leaf}` in `MCMsgRoute_routing.cfg`, so that the class above `leaf`, which
  has a `+initialize`, is Objective-C, and `ArgumentsArrive` fails. The registers of a
  message are saved only after its class was asked for (743, 775 against 421);
  making the shadow messages the class above (`swift_classes.m` 247), whose
  `+initialize` `xl_invoke` enters, and that puts only PC and x30 back. The comment at
  418-420 says of the same thing during the lookup that it "clobbers the argument
  registers of the message being routed".
* Set `Projects <- UnseenProjects` in `MCTranslate.cfg` and `NothingIsLeftOut` fails:
  `translate.sh` reads imports from two tables (66) and what is weak from one of them
  (69), which a library pulled out of a shared cache does not have. A name it imports
  strongly and another image weakly is dropped or gets no trap, and the lift has a
  strong stub without an answer. The comment at 60-65 says that such a library's
  calls "must be bridged or trapped or xlate fails resolving their call stubs".
* Set `Projects <- UnlistedProjects` there and `LayoutsDoNotMix` fails. Superclasses of
  classes that only `__objc_clsrolist` names are not resolved (`objc.cpp` 506-508), so a
  Swift class below one whose superclass another guest image defines, as
  `_SwiftObject` is (489-491), is kept at host layout (432, 445), the fault that the
  comment at 416-419 describes.
* Set `Profile = {"autorelease"}` in `MCBlockBridge_shared.cfg` and `CountIsOwned` fails:
  `xl_block_autorelease` autoreleases the reference that
  `xl_wrapper_for` has just added, and the one the caller gave up is never dropped
  (`objc_bridge.m` 1264; comment 1245).
* Add `NoCrash` to `MCShadowClasses_shared.cfg` and it fails:
  `xl_class_from_guest` reads two tables under two locks, and a class that
  `xl_build_shadow` moves from one to the other in between is found in neither and
  taken for a host class (`swift_classes.m` 297; comment 288).

Seen while modelling, each a hazard or a limit of an instance:

* Block bridge. A stack block passed twice gets two wrappers (1212; comment
  1051). `objc_retainBlock` of a stack block returns the stack block (1409; 1406).
  Mixing `_Block_copy` and `objc_release` on one block drops the wrapper's count
  (1258; 1183). A guest copy helper that retains a captured block waits for its
  own thread, which holds `xl_block_lock` (1202).
* Shadow classes. With two threads `CallsReturn` fails: a build waits, with
  `xl_build_lock` held, for a `+initialize` that another thread runs and that
  waits for the lock (247; the comment at `objc_bridge.m` 310 covers one thread).
  A build re-entered for its own class aborts (248): set `Touch <- TouchesSub` in
  `MCShadowClasses_listed.cfg`. Between registration with
  the host and publication a lookup by name yields the host's class (266). A
  `+initialize` that runs during registration does not find later listed
  classes by name (304-312).
* Messages. Manual handlers never take the super class out of its slot
  (`xlgen.cpp` 1236-1241; `objc_bridge.m` 852, 901); format bridges send `super` as
  a plain message (1303); variadic handlers bypass the receiver's method, and
  `arrayWithObjects:` of a mutable class yields an immutable array (1313-1319).
  `MCMsgRoute` lets guest methods message super only with the selectors of
  `SuperSels`.
* Scan. An indirect call has no successor, so the base is lost behind it
  (266-267); jump tables have no edges; the `must` solve starts from false and
  joins with "and", so it never crosses a block boundary (240-250); the last
  function of a section is not scanned and the one before has two ranges
  (561-578; `tsd_scan.h`: "Scans every executable section"); a base returned in
  x0 is not tracked. `AccessIsSeen` claims the rest: bases read in the same
  activation, no indirect call since. Of the running program's instructions only a
  load or store at a fixed offset (LDR, STR) from the register that holds the base
  counts as an access: pairs, indexed and register offsets, copies of the base and
  arithmetic on it are a `use`, which the scan refuses within a block but which
  reaches no slot here.
* Jump tables. Range checks that exclude an index in the middle (an earlier test for
  equality) end the scan there (690; comment 678, "The domain is contiguous").
* Binds. In a library that re-exports two guest libraries, the lookup of the
  first falls through to the bridge, whose export hides the second's
  (`exports.cpp` 100, 124; `exports.h` 16). The hypothesis `NoneHidden` of the theorems
  excludes such inputs.
* Weak imports. A name that only libraries pulled out of a shared cache import weakly
  is not known to be weak, and gets a trap instead of nothing (`translate.sh` 69; 67).
  A weak bind whose name an image re-exports under another name is
  bound if that name has a bridge (`exports.cpp` 93), although the name itself was
  left out of the imports.
* Bridges. A non-const record is zeroed instead of copied in (855;
  `docs/research.md` 110 says records are copied in, and back unless const): an
  in/out record arrives empty. `Mirror` does not ask whether `Leaves` found every
  field (446). The refusal of a block as a result in `FromFunction` is overwritten
  by `DetectArrays` (938). Callbacks and blocks are told apart by their host
  spelling only, so that `NSInteger` and `int` share the first one's bridge (758,
  622). A callback's own writes to memory it was passed are undone by the copy
  back (841). The count of an array is found by its name (898).
* Process. Destructors registered once exit counts them never run (`bridge.m` 785;
  comment 773-777). A worker that faults in `exit` under `xl-fault-ends-thread` ends
  alone, and the process stays. The size of a thread-local block has no padding
  between its sections (`xlate.cpp` 1094). Initializers run in reverse order of the
  command line, whatever the dependencies (1032). Crash handlers allocate.
* Ivars. A guest superclass that the table lacks counts as empty (1513), the shift
  is not rounded to an ivar's alignment (1530), and an offset variable that the
  image has none of is refused only because its zero lies below the start.

## 7. What the models leave out

Data: the translation of one function (Rellume's), encodings, printf formats,
the text of reports and messages; failures of malloc and mmap. Threads call
bridges at once in MsgRoute, BlockBridge and ShadowClasses; a call in Marshal is
one thread's, the lock of the callback slots being its only shared state.
`Marshal` takes objects as pointers: what becomes of them is BlockBridge's and
ShadowClasses'. Floating values are integers of one bit less. Functions that the
guest registers with `atexit` itself are not in `Process`. Data races on plain
memory are modelled where the code has them (`xl_variant_cache`), not inside
locked code. The host's Objective-C and Block runtimes, the Swift runtime, the
compilers and the linker are external: they do what the code in this repository
relies on. In `Translate` inputs change between runs, not during one; the bridge
library's own binds (`xl_trap_`) are not followed; frameworks, backports,
relinking and the weakening of class references are outside `Link`. Of
start-up the registration of listed classes (ShadowClasses), the layouts, the
initializers and the host variables are modelled, the other tables are filled
once and never change. Devirtualisation (`ObjCOverrides`), the readers of load
commands and metadata lists and the compatibility shims are sequential
transformations of data without state. Components
without a module are listed in `PROJECT.json` with the reason.

## 8. Plan

Written so far, in this order: BlockBridge, BlockIdentity, BlockBridgeProofs;
ShadowClasses; MsgRoute; TsdScan; LiftTables; GuestBinds and Translate; Widths,
CTypes and Marshal; IvarLayout and Process; DataTheorems, the proofs
about ShadowClasses, MsgRoute, TsdScan, LiftTables, Translate and Process (every safety
property of these), and those of the refinement and of exact counts in BlockBridgeProofs.

Later, model: a composition of ShadowClasses and MsgRoute with the tables and locks of
the one and the registers of the other (MsgRoute has builds as single steps),
arguments of a bridge that need a shadow while others wait in registers
(`objc_bridge.m` 544), printf formats, the overrides of devirtualised calls.
