----------------------------- MODULE Translate -----------------------------
(***************************************************************************)
(* A translation (scripts/translate.sh): the manifest pass of xlate, the   *)
(* bridges xlgen generates for what is left to the host, the lift pass,    *)
(* which is cached, its compilation, and the link.                         *)
(*                                                                         *)
(* The script runs again and again in one output directory, on inputs that *)
(* change from run to run, and any run may stop anywhere: a tool fails, or *)
(* it is interrupted.  The files stay.                                     *)
(***************************************************************************)
EXTENDS GuestBinds

CONSTANT Projects   \* an output directory is used for the runs of one project: a set of inputs

Keys == [input : UNION Projects, exported : SUBSET Symbols, passthrough : SUBSET Symbols]

(* Inputs are well-formed, and a key of a lift is a file's contents, never *)
(* a missing file.                                                         *)
ASSUME ProjectsAssumption == (\A w \in UNION Projects : WellFormed(w)) /\ None \notin Keys

(* The empty name stands for no library; the limits are the code's 8 and   *)
(* 256.                                                                    *)
ASSUME LimitsAssumption == Flat \in Libraries /\ MaxReexportDepth \in Nat /\ MaxClassDepth \in Nat \ {0}

VARIABLES
    project,
    input,      \* what the next run will read
    pc,         \* the step of the script, "idle" between runs
    resolved,   \* guest-resolved.txt
    manifest,   \* the classes at host layout of manifest.json
    exported, passthrough,  \* libxl-guest.dylib, passthrough.txt
    stamp,      \* lift.stamp, the key of the last lift
    list,       \* lifted-objs.txt: "single" or "split" objects, "cut" if only part of it was written
    bitcode, layout, header,  \* lifted.bc, layout.txt, xl_state.h: a key
    single, split,            \* the objects: the key of the code they hold
    binary      \* what the last link was made of
    \* None: there is no such file, or only part of one

files == <<resolved, manifest, exported, passthrough, stamp, list, bitcode, layout, header, single, split, binary>>
vars == <<project, input, pc, files>>

Init ==
    /\ project \in Projects
    /\ input \in project
    /\ pc = "idle"
    /\ resolved = {} /\ manifest = {} /\ exported = {} /\ passthrough = {}
    /\ stamp = None /\ list = None /\ bitcode = None /\ layout = None /\ header = None
    /\ single = None /\ split = None /\ binary = None

(* Between runs.                                                           *)
Edit ==
    /\ pc = "idle"
    /\ input' \in project \ {input}
    /\ UNCHANGED <<project, pc, files>>

Start ==
    /\ pc = "idle"
    /\ pc' = "manifest"
    /\ UNCHANGED <<project, input, files>>

Stop ==
    /\ pc # "idle"
    /\ pc' = "idle"
    /\ UNCHANGED <<project, input, files>>

(* The script stops while the tool of this step writes its file.           *)
Cut ==
    /\ pc' = "idle"
    /\ \/ pc = "lift" /\ bitcode' = None /\ UNCHANGED <<stamp, list, layout, header, single, split, binary>>
       \/ pc = "layout" /\ layout' = None /\ UNCHANGED <<stamp, list, bitcode, header, single, split, binary>>
       \/ pc = "header" /\ header' = None /\ UNCHANGED <<stamp, list, bitcode, layout, single, split, binary>>
       \/ pc = "compile" /\ single' = None /\ split' = None /\ UNCHANGED <<stamp, list, bitcode, layout, header, binary>>
       \/ pc \in {"list-single", "list-split"} /\ list' = "cut" /\ UNCHANGED <<stamp, bitcode, layout, header, single, split, binary>>
       \/ pc = "stamp" /\ stamp' = None /\ UNCHANGED <<list, bitcode, layout, header, single, split, binary>>
       \/ pc = "link" /\ binary' = None /\ UNCHANGED <<stamp, list, bitcode, layout, header, single, split>>
    /\ UNCHANGED <<project, input, resolved, manifest, exported, passthrough>>

(* xlate --objc-manifest --resolved-out.                                   *)
Manifest ==
    /\ pc = "manifest"
    /\ ~ Refused(input) /\ ~ SplitRefused(input, {})
    /\ resolved' = WriteResolved(input)
    /\ manifest' = Kept(input, {})
    /\ pc' = "bridges"
    /\ UNCHANGED <<project, input, exported, passthrough, stamp, list, bitcode, layout, header, single, split, binary>>

(* The imports that go to xlgen: not those guest images answer, and not    *)
(* those imported weakly alone that the target does not have.  The imports *)
(* are those of the tables of binds and of symbols (dyld_info, nm -u), but *)
(* whether one is weak is read from the table of binds, which an image     *)
(* from a shared cache has not; the support objects' are strong.           *)
Imports ==
    {b.symbol : b \in input.binds} \cup input.needs \cup
    UNION {{e.name : e \in input.sends[i]} : i \in Range(input.images)}

Listed(w, weak) == {b.symbol : b \in {c \in w.binds : c.image \notin w.unread /\ c.weak = weak}}
WeakOnly(w) == Listed(w, TRUE) \ (Listed(w, FALSE) \cup w.needs)

Provided == input.support \cup resolved
WeakAbsent == {s \in WeakOnly(input) \ Provided : input.host[s] = "absent"}
Asked == (Imports \ resolved) \ WeakAbsent

(* xlgen: functions, and variables of another layout, get a definition in  *)
(* the bridge library; classes and variables of the same layout are bound  *)
(* to the host's; what has no bridge becomes a trap, or nothing if it is   *)
(* imported weakly.                                                        *)
(* Mutant: a weak import without a bridge gets a trap too.                 *)
BridgedEvenWeak == {s \in Asked \ Provided : input.host[s] \in {"function", "variable", "absent", "unsupported"}}

Bridged ==
    {s \in Asked \ Provided :
        \/ input.host[s] \in {"function", "variable", "absent"}
        \/ input.host[s] = "unsupported" /\ s \notin WeakOnly(input)}

Bridges ==
    /\ pc = "bridges"
    /\ exported' = input.support \cup Bridged
    /\ passthrough' = {s \in Asked \ Provided : input.host[s] \in {"class", "data"}}
    /\ pc' = "cache"
    /\ UNCHANGED <<project, input, resolved, manifest, stamp, list, bitcode, layout, header, single, split, binary>>

(* What a lift depends on.                                                 *)
LiftKey == [input |-> input, exported |-> exported, passthrough |-> passthrough]

(* Mutant: any complete lift is reused.                                    *)
ReuseAny ==
    /\ pc = "cache"
    /\ stamp # None /\ list # None
    /\ pc' = "link"
    /\ UNCHANGED <<project, input, files>>

Reuse ==
    /\ pc = "cache"
    /\ stamp = LiftKey /\ list # None
    /\ pc' = "link"
    /\ UNCHANGED <<project, input, files>>

(* Mutant: the stamp of the last lift stays.                               *)
KeepStamp ==
    /\ pc = "cache"
    /\ ~ (stamp = LiftKey /\ list # None)
    /\ pc' = "lift"
    /\ UNCHANGED <<project, input, files>>

DropStamp ==
    /\ pc = "cache"
    /\ ~ (stamp = LiftKey /\ list # None)
    /\ stamp' = None
    /\ pc' = "lift"
    /\ UNCHANGED <<project, input, resolved, manifest, exported, passthrough, list, bitcode, layout, header, single, split, binary>>

(* xlate --output: the bitcode, then the linker arguments, then the header *)
(* for the runtime.                                                        *)
Lift ==
    /\ pc = "lift"
    /\ ~ Refused(input) /\ Unresolved(input, exported, passthrough) = {}
    /\ ~ SplitRefused(input, exported)
    /\ bitcode' = LiftKey
    /\ pc' = "layout"
    /\ UNCHANGED <<project, input, resolved, manifest, exported, passthrough, stamp, list, layout, header, single, split, binary>>

WriteLayout ==
    /\ pc = "layout"
    /\ layout' = LiftKey
    /\ pc' = "header"
    /\ UNCHANGED <<project, input, resolved, manifest, exported, passthrough, stamp, list, bitcode, header, single, split, binary>>

WriteStateHeader ==
    /\ pc = "header"
    /\ header' = LiftKey
    /\ pc' = "compile"
    /\ UNCHANGED <<project, input, resolved, manifest, exported, passthrough, stamp, list, bitcode, layout, single, split, binary>>

(* One object if the code fits its branch range, else a split: known from  *)
(* its size, or from the failure.                                          *)
Compile ==
    /\ pc = "compile"
    /\ IF input.fits
         THEN single' = bitcode /\ pc' = "list-single" /\ UNCHANGED split
         ELSE split' = bitcode /\ pc' = "list-split" /\ UNCHANGED single
    /\ UNCHANGED <<project, input, resolved, manifest, exported, passthrough, stamp, list, bitcode, layout, header, binary>>

WriteList ==
    /\ pc \in {"list-single", "list-split"}
    /\ list' = IF pc = "list-single" THEN "single" ELSE "split"
    /\ pc' = "stamp"
    /\ UNCHANGED <<project, input, resolved, manifest, exported, passthrough, stamp, bitcode, layout, header, single, split, binary>>

WriteStamp ==
    /\ pc = "stamp"
    /\ stamp' = LiftKey
    /\ pc' = "link"
    /\ UNCHANGED <<project, input, resolved, manifest, exported, passthrough, list, bitcode, layout, header, single, split, binary>>

Link ==
    /\ pc = "link"
    /\ binary' = [code |-> IF list = "single" THEN single ELSE split,
                  layout |-> layout, header |-> header, classes |-> manifest]
    /\ pc' = "idle"
    /\ UNCHANGED <<project, input, resolved, manifest, exported, passthrough, stamp, list, bitcode, layout, header, single, split>>

Next ==
    \/ Edit \/ Start \/ Stop \/ Cut
    \/ Manifest \/ Bridges \/ Reuse \/ DropStamp
    \/ Lift \/ WriteLayout \/ WriteStateHeader \/ Compile \/ WriteList \/ WriteStamp \/ Link

Spec == Init /\ [][Next]_vars

(* What an input must be for the properties below to hold; the code checks *)
(* none of it.                                                             *)

(* The names the bridge library may export: those of its support objects,  *)
(* and those that not every bind finds in the guest.                       *)
MayBridge(w) == w.support \cup (Symbols \ WriteResolved(w))

(* An image passes a name on to one library, or no name the search goes    *)
(* through is bridged, or none is the guest's: otherwise the bridge        *)
(* answers for the first library and hides the second (exports.cpp 100,    *)
(* 124).                                                                   *)
Sent(w) == UNION {{e.symbol : e \in w.sends[i]} : i \in Range(w.images)}
NoneHidden(w) ==
    \A i \in Range(w.images), s \in Symbols :
        \/ \A p, q \in PassedOn(w, i, s) : p = q
        \/ MayBridge(w) \cap ({s} \cup Sent(w)) = {}
        \/ \A j \in Range(w.images) : w.exports[j] \cap ({s} \cup Sent(w)) = {}

(* Only functions are called through stubs.                                *)
StubsAreCalls(w) == \A b \in w.binds : b.stub => w.host[b.symbol] \notin {"class", "data"}

(* What the script takes for imported weakly alone is no strong import of  *)
(* an image from a shared cache (translate.sh 69).                         *)
StrongIsSeen(w) == \A b \in w.binds : b.symbol \in WeakOnly(w) => b.weak

(* Only Swift classes have superclasses that __objc_clsrolist alone names, *)
(* and the superclass of such a class, which nothing resolves, is none or  *)
(* one of its own image, from where the chain ends at none: never one that *)
(* it imports, not even from another guest image, as _SwiftObject is       *)
(* (objc.cpp 432, 489-491).                                                *)
UnlistedEndLocally(w, bridged) ==
    \A k \in w.classes : ~ k.listed =>
        /\ k.super \in Ends(w, bridged, MaxClassDepth - 1)
        /\ \A c \in w.classes : Super(w, bridged, c) = [kind |-> "local", at |-> k.address] => c.swift

----------------------------------------------------------------------------
(* Properties.                                                             *)

(* Wherever earlier runs stopped and however the inputs changed, the code, *)
(* the linker arguments, the register offsets the runtime is compiled with *)
(* and the class metadata of a binary come from one complete lift          *)
(* (translate.sh 122-127, 180-181).                                        *)
BinaryIsConsistent ==
    binary # None =>
        /\ binary.code # None
        /\ binary.layout = binary.code /\ binary.header = binary.code
        /\ binary.classes = Kept(binary.code.input, binary.code.exported)

(* A binary is made of the lift of the inputs its run read, reused or not  *)
(* (translate.sh 118-124).                                                 *)
BinaryIsOfItsInputs == [][binary' # binary => binary' = None \/ binary'.code = LiftKey]_vars

(* A bind that names a library takes the export of the guest image that    *)
(* library is, or of one it re-exports, if there is one, and never that of *)
(* another guest image; a bind that names none takes some guest image's;   *)
(* the bridge library answers only what they do not (exports.cpp 78-129).  *)
BindsTakeTheirLibrary ==
    pc = "layout" =>
        \A b \in input.binds :
            LET slot == Slot(input, exported, passthrough, b)
                answers == Answers(input, BindLibrary(input, b), b.symbol)
            IN  IF answers # {} THEN slot \in answers
                ELSE slot = None \/ slot.image \in {Bridge, "host"}

(* What the manifest pass leaves to the host is enough: if every name that *)
(* no image answers has a bridge, a trap or host data, the lift pass finds *)
(* an answer for every bind that needs one (xlate.cpp 195-226, 175-190;    *)
(* translate.sh 60-65).                                                    *)
NothingIsLeftOut ==
    pc = "lift" => \A b \in Unresolved(input, exported, passthrough) : input.host[b.symbol] = "opaque"

(* A name that every image imports weakly, one of them by its table of     *)
(* binds, and no support object imports or defines, that has no bridge and *)
(* that no guest image defines or sends to another, stays unbound, so that *)
(* the guest's own check finds it absent (translate.sh 66-69, xlgen.cpp    *)
(* 1328-1334).                                                             *)
WeakStaysUnbound ==
    pc = "layout" =>
        \A b \in input.binds :
            /\ \A c \in input.binds : c.symbol = b.symbol => c.weak
            /\ \E c \in input.binds : c.symbol = b.symbol /\ c.image \notin input.unread
            /\ b.symbol \notin input.needs \cup input.support
            /\ input.host[b.symbol] \in {"unsupported", "absent"}
            /\ Answers(input, BindLibrary(input, b), b.symbol) = {}
            /\ \A i \in Range(input.images) : \A e \in input.sends[i] : e.name # b.symbol
            => Slot(input, exported, passthrough, b) = None

(* A class at host layout has no superclass in the guest's: neither one    *)
(* that was moved nor one that only __objc_clsrolist names, which keeps    *)
(* the guest's layout whatever is above it (objc.cpp 415-487).             *)
LayoutsDoNotMix ==
    pc = "layout" =>
        \A c \in Kept(input, exported), k \in input.classes :
            Super(input, exported, c) = [kind |-> "local", at |-> k.address] => k \in Kept(input, exported)
============================================================================
