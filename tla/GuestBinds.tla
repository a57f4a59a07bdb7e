----------------------------- MODULE GuestBinds -----------------------------
(***************************************************************************)
(* What xlate decides about the names guest images bind to                 *)
(* (xlate/src/exports.cpp, macho.cpp, objc.cpp and the parts of xlate.cpp  *)
(* that use them): which image answers a bind, which names no host library *)
(* has to supply, and which classes keep the guest's layout.               *)
(*                                                                         *)
(* A world is a set of input images as macho.cpp reads them, a record of   *)
(*   images    the input images, in the order of the command line          *)
(*   install   the install name of each, Flat if it has none               *)
(*   dylibs    the libraries each loads, in order; ordinals count from 1   *)
(*   exports   the names each defines                                      *)
(*   sends     the names each re-exports: [name, ordinal, symbol]          *)
(*   whole     the libraries each re-exports, in order                     *)
(*   binds     [image, ordinal, symbol, weak, stub, named]: a fixup or a stub;*)
(*             named unless the weak table or a flat image has it          *)
(*   unread    the images pulled out of a shared cache, whose table of     *)
(*             binds is empty: they have stubs only                        *)
(*   replaces  [library, image], given on the command line                 *)
(*   classes   [address, super, swift, listed], superclasses as read       *)
(*   extends   the classes that categories extend, as read                 *)
(*   host      what the SDK and the target make of each name: a "function" *)
(*             with a bridge, a "variable" of another layout, a "class",   *)
(*             "data" of the same layout, "unsupported" (no declaration),  *)
(*             "absent" on the target, "opaque" data that has no bridge    *)
(*   fits      whether the lifted code fits one object                     *)
(*   support   the names the support objects of the bridge library define  *)
(*   needs     the names those import                                      *)
(* and the address of an export is [image, symbol].                        *)
(***************************************************************************)
EXTENDS Naturals, Sequences, FiniteSets, SequencesExt

CONSTANTS
    Libraries,          \* the names a bind gives a library
    Symbols,
    MaxReexportDepth,   \* kMaxReexportDepth
    MaxClassDepth,      \* the steps guest_only takes, 256
    None

Flat == "flat"      \* no library: flat namespace, weak coalescing
Bridge == "bridge"  \* the bridge library, an image of the second pass only

Address(image, symbol) == [image |-> image, symbol |-> symbol]

----------------------------------------------------------------------------
(* The library an entry names: ordinal 0 is the image itself, one past the *)
(* libraries it loads (dynamic lookup and the like) is none.  A stub of    *)
(* ordinal 0 names none either.                                            *)

LibraryOf(w, image, ordinal) ==
    IF ordinal = 0 THEN w.install[image]
    ELSE IF ordinal \in DOMAIN w.dylibs[image] THEN w.dylibs[image][ordinal]
    ELSE Flat

FixupLibrary(w, b) == IF b.named THEN LibraryOf(w, b.image, b.ordinal) ELSE Flat
StubLibrary(w, b) == IF b.named /\ b.ordinal # 0 THEN LibraryOf(w, b.image, b.ordinal) ELSE Flat
BindLibrary(w, b) == IF b.stub THEN StubLibrary(w, b) ELSE FixupLibrary(w, b)

----------------------------------------------------------------------------
(* GuestExports.  The second pass adds the bridge library to the images.   *)

Images(w, bridged) == IF bridged = {} THEN w.images ELSE Append(w.images, Bridge)
ExportsOf(w, bridged, image) == IF image = Bridge THEN bridged ELSE w.exports[image]

(* Add and Replace: no two images of one name, no library replaced twice,  *)
(* no image's own name replaced.                                           *)
Refused(w) ==
    \/ \E i, j \in DOMAIN w.images :
           /\ i # j /\ w.install[w.images[i]] # Flat
           /\ w.install[w.images[i]] = w.install[w.images[j]]
    \/ \E r \in w.replaces :
           \/ \E i \in DOMAIN w.images : w.install[w.images[i]] = r.library
           \/ \E q \in w.replaces : q # r /\ q.library = r.library

ImageOf(w, library) ==
    LET replaced == {r.image : r \in {q \in w.replaces : q.library = library}}
        named == {w.images[i] : i \in {j \in DOMAIN w.images : w.install[w.images[j]] = library}}
    IN  IF replaced # {} THEN CHOOSE i \in replaced : TRUE
        ELSE IF named # {} THEN CHOOSE i \in named : TRUE
        ELSE None

OrElse(a, b) == IF a # None THEN a ELSE b

FirstAnswer(answers) ==
    LET hits == {i \in DOMAIN answers : answers[i] # None}
    IN  IF hits = {} THEN None ELSE answers[CHOOSE i \in hits : \A j \in hits : i <= j]

Exported(w, bridged, image, s) ==
    IF s \in ExportsOf(w, bridged, image) THEN Address(image, s) ELSE None

FirstExport(w, bridged, s) ==
    FirstAnswer([i \in DOMAIN Images(w, bridged) |-> Exported(w, bridged, Images(w, bridged)[i], s)])

FromBridge(bridged, s) == IF s \in bridged THEN Address(Bridge, s) ELSE None

(* Mutant: the library a bind names is ignored.                            *)
FindByName(w, bridged, library, symbol) == FirstExport(w, bridged, symbol)

(* A call of Find, given the answers of the calls it makes: the image the  *)
(* library is, what it re-exports by name, the libraries it re-exports,    *)
(* the bridge.                                                             *)
Query(library, symbol) == [library |-> library, symbol |-> symbol]
Queries == [library : Libraries, symbol : Symbols]

FindStep(w, bridged, below, q) ==
    LET image == ImageOf(w, q.library)
        sent == {e \in w.sends[image] : e.name = q.symbol}
        bySend == IF sent = {} THEN None
                  ELSE LET e == CHOOSE x \in sent : TRUE IN below[Query(LibraryOf(w, image, e.ordinal), e.symbol)]
        byWhole == [i \in DOMAIN w.whole[image] |->
                       IF ImageOf(w, w.whole[image][i]) = None THEN None ELSE below[Query(w.whole[image][i], q.symbol)]]
    IN  IF q.library = Flat THEN FirstExport(w, bridged, q.symbol)
        ELSE IF image = None THEN FromBridge(bridged, q.symbol)
        ELSE OrElse(Exported(w, bridged, image, q.symbol),
                    OrElse(bySend, OrElse(FirstAnswer(byWhole), FromBridge(bridged, q.symbol))))

(* The deepest call, MaxReexportDepth below the first, makes none.         *)
Find(w, bridged, library, symbol) ==
    LET find[n \in 0..MaxReexportDepth] ==
            IF n = 0 THEN [q \in Queries |-> FindStep(w, bridged, [p \in Queries |-> None], q)]
            ELSE [q \in Queries |-> FindStep(w, bridged, find[n - 1], q)]
    IN  find[MaxReexportDepth][Query(library, symbol)]

----------------------------------------------------------------------------
(* The manifest pass: the names every bind of which a guest image answers. *)

Noted(w) ==
    {[symbol |-> b.symbol, to |-> Find(w, {}, BindLibrary(w, b), b.symbol)] : b \in w.binds} \cup
    UNION {{[symbol |-> e.name, to |-> Find(w, {}, LibraryOf(w, i, e.ordinal), e.symbol)] : e \in w.sends[i]} : i \in Range(w.images)}

(* Mutant: a name that one bind finds is resolved for all.                 *)
WriteAnswered(w) == {n.symbol : n \in {m \in Noted(w) : m.to # None}}

WriteResolved(w) == {n.symbol : n \in Noted(w)} \ {n.symbol : n \in {m \in Noted(w) : m.to = None}}

(* The lift pass: what the slot of a bind holds, and whether a stub or a   *)
(* slot that must be bound is not.                                         *)
Slot(w, bridged, passthrough, b) ==
    LET to == Find(w, bridged, BindLibrary(w, b), b.symbol)
    IN  IF to # None THEN to
        ELSE IF b.symbol \in passthrough THEN Address("host", b.symbol)
        ELSE None

Unresolved(w, bridged, passthrough) ==
    {b \in w.binds : ~ b.weak /\ (\/ Slot(w, bridged, passthrough, b) = None
                                  \/ b.stub /\ Find(w, bridged, BindLibrary(w, b), b.symbol) = None)}

----------------------------------------------------------------------------
(* ResolveGuestImports and SplitGuestLayoutClasses.  A superclass is       *)
(* [kind |-> "null"], [kind |-> "local", at |-> an address] or             *)
(* [kind |-> "import", library, symbol].                                   *)

Null == [kind |-> "null"]

ResolveGuestImport(w, bridged, p) ==
    IF p.kind # "import" THEN p
    ELSE LET to == Find(w, bridged, p.library, p.symbol)
         IN  IF to = None THEN p ELSE [kind |-> "local", at |-> to]

(* Only the superclasses of classes of __objc_classlist are resolved; a    *)
(* class found through __objc_clsrolist alone keeps what was read.         *)
Super(w, bridged, c) == IF c.listed THEN ResolveGuestImport(w, bridged, c.super) ELSE c.super

(* Mutant: the walk does not see __objc_clsrolist.                         *)
ListedClassAt(w, address) == {c \in w.classes : c.listed /\ c.address = address}

ClassAt(w, address) == {c \in w.classes : c.address = address}

(* The superclasses from which the chain ends at none, in at most n steps. *)
Ends(w, bridged, n) ==
    LET supers == {Super(w, bridged, k) : k \in w.classes}
        ends[m \in 0..MaxClassDepth] ==
            IF m = 0 THEN {}
            ELSE {s \in supers :
                     \/ s.kind = "null"
                     \/ /\ s.kind = "local" /\ ClassAt(w, s.at) # {}
                        /\ Super(w, bridged, CHOOSE k \in ClassAt(w, s.at) : TRUE) \in ends[m - 1]}
    IN  ends[n]

GuestOnly(w, bridged, c) == Super(w, bridged, c) \in Ends(w, bridged, MaxClassDepth)

Moved(w, bridged) == {c \in w.classes : c.listed /\ c.swift /\ GuestOnly(w, bridged, c)}
Kept(w, bridged) == {c \in w.classes : c.listed} \ Moved(w, bridged)

SplitRefused(w, bridged) ==
    LET moved == {[kind |-> "local", at |-> k.address] : k \in Moved(w, bridged)}
    IN  \/ \E p \in w.extends : ResolveGuestImport(w, bridged, p) \in moved
        \/ \E c \in Kept(w, bridged) : Super(w, bridged, c) \in moved

----------------------------------------------------------------------------
(* What an input is, whatever the command line and the images say: every   *)
(* library and every name it mentions is known, an image re-exports a name *)
(* once, and a class has an address of its own in an image.                *)

WellFormed(w) ==
    LET images == Range(w.images) IN
    /\ w.images \in Seq(images) /\ images \cap {Bridge, None} = {}
    /\ None \notin [image : images \cup {Bridge, "host"}, symbol : Symbols]
    /\ \A i \in images :
           /\ w.install[i] \in Libraries /\ w.dylibs[i] \in Seq(Libraries)
           /\ w.whole[i] \in Seq(Libraries \ {Flat})
           /\ \A e \in w.sends[i] :
                  /\ e.name \in Symbols /\ e.symbol \in Symbols
                  /\ \A x \in w.sends[i] : x.name = e.name => x = e
    /\ \A r \in w.replaces : r.image \in images
    /\ \A b \in w.binds : b.image \in images /\ b.symbol \in Symbols /\ b.weak \in BOOLEAN
    /\ w.unread \subseteq images /\ \A b \in w.binds : b.image \in w.unread => b.stub
    /\ w.support \subseteq Symbols /\ w.needs \subseteq Symbols
    /\ w.host \in [Symbols -> {"function", "variable", "class", "data", "unsupported", "absent", "opaque"}]
    /\ \A c \in w.classes :
           /\ c.address.image \in images /\ c.listed \in BOOLEAN
           /\ c.super.kind = "import" => c.super.library \in Libraries /\ c.super.symbol \in Symbols
           /\ \A k \in w.classes : k.address = c.address => k = c

----------------------------------------------------------------------------
(* Two-level lookup, as exports.h 12-18 describes it: the guest images     *)
(* that define the name asked of a library, themselves or through as many  *)
(* re-exports as are followed.  A name asked of no library is any image's. *)
ImagesOf(w, library) == IF library = Flat THEN Range(w.images) ELSE {ImageOf(w, library)} \ {None}

PassedOn(w, i, s) ==
    {Query(l, s) : l \in Range(w.whole[i])} \cup
    {Query(LibraryOf(w, i, e.ordinal), e.symbol) : e \in {x \in w.sends[i] : x.name = s}}

Defined(w, q) == {Address(i, q.symbol) : i \in {j \in ImagesOf(w, q.library) : q.symbol \in w.exports[j]}}

Below(w, q) == IF q.library = Flat THEN {} ELSE UNION {PassedOn(w, i, q.symbol) : i \in ImagesOf(w, q.library)}

Answers(w, library, symbol) ==
    LET answers[n \in 0..MaxReexportDepth] ==
            IF n = 0 THEN [q \in Queries |-> Defined(w, q)]
            ELSE [q \in Queries |-> Defined(w, q) \cup UNION {answers[n - 1][p] : p \in Below(w, q)}]
    IN  answers[MaxReexportDepth][Query(library, symbol)]
=============================================================================
