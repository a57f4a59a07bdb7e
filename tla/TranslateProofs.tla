-------------------------- MODULE TranslateProofs --------------------------
(***************************************************************************)
(* Proofs about Translate, for every set of projects: runs that stop       *)
(* anywhere, repeat, and reuse what earlier ones left in the directory.    *)
(***************************************************************************)
EXTENDS Translate, DataTheorems, TLAPS

(* What is known of the inputs and of the lists that steer the lift.       *)
InputInv == project \in Projects /\ input \in project /\ exported \subseteq Symbols /\ passthrough \subseteq Symbols

ManifestInv == pc \notin {"idle", "manifest"} => manifest = Kept(input, {})

(* The files that a link reads come from the lift with key k.              *)
Whole(k) ==
    /\ layout = k /\ header = k
    /\ (list = "single" /\ single = k) \/ (list = "split" /\ split = k)

Listing == {"list-single", "list-split"}

(* What the current run has written.  There is no stamp from before the    *)
(* first file of a lift is touched until after the last one is complete.   *)
LiftInv ==
    /\ pc \in {"lift", "layout", "header", "compile", "stamp"} \cup Listing => stamp = None
    /\ pc \in {"layout", "header", "compile"} => bitcode = LiftKey
    /\ pc \in {"header", "compile", "stamp"} \cup Listing => layout = LiftKey
    /\ pc \in {"compile", "stamp"} \cup Listing => header = LiftKey
    /\ pc = "list-single" => single = LiftKey
    /\ pc = "list-split" => split = LiftKey
    /\ pc = "stamp" => Whole(LiftKey)
    /\ pc = "link" => stamp = LiftKey

(* A stamp vouches for everything a link reads.                            *)
StampInv == stamp # None => Whole(stamp)

IInv == InputInv /\ ManifestInv /\ LiftInv /\ StampInv

LEMMA InitInv == Init => IInv
  BY DEF Init, IInv, InputInv, ManifestInv, LiftInv, StampInv, Listing

LEMMA KeyType == IInv => LiftKey \in Keys /\ LiftKey # None
  <1> SUFFICES ASSUME IInv PROVE LiftKey \in Keys
    BY ProjectsAssumption
  <1> QED
    BY DEF IInv, InputInv, LiftKey, Keys

(* Only known names are exported to the lift.                              *)
LEMMA BridgesInput == IInv /\ Bridges => InputInv'
  <1> SUFFICES ASSUME IInv, Bridges PROVE InputInv'
    OBVIOUS
  <1>1. /\ project' = project /\ input' = input /\ exported' = input.support \cup Bridged
        /\ passthrough' = {s \in Asked \ Provided : input.host[s] \in {"class", "data"}}
    BY DEF Bridges
  <1>2. input \in UNION Projects
    BY DEF IInv, InputInv
  <1>3. Imports \subseteq Symbols /\ input.support \subseteq Symbols
    BY <1>2, ProjectsAssumption DEF Imports, WellFormed
  <1>4. Asked \subseteq Symbols /\ Bridged \subseteq Asked
    BY <1>3 DEF Asked, Bridged
  <1> QED
    BY <1>1, <1>3, <1>4 DEF IInv, InputInv

LEMMA BridgesInv == IInv /\ Bridges => IInv'
  <1> SUFFICES ASSUME IInv, Bridges PROVE IInv'
    OBVIOUS
  <1>1. InputInv'
    BY BridgesInput
  <1>2. pc = "bridges" /\ pc' = "cache" /\ UNCHANGED <<input, manifest, stamp, list, layout, header, single, split>>
    BY DEF Bridges
  <1> QED
    BY <1>1, <1>2 DEF IInv, ManifestInv, LiftInv, StampInv, Whole, Listing

(* Steps between runs, and those that end one.                             *)
LEMMA BetweenInv == IInv /\ (Edit \/ Start \/ Stop) => IInv'
  <1> SUFFICES ASSUME IInv, Edit \/ Start \/ Stop PROVE IInv'
    OBVIOUS
  <1>1. /\ UNCHANGED <<project, files>> /\ pc' \in {"idle", "manifest"}
        /\ input' \in project
    BY DEF IInv, InputInv, Edit, Start, Stop
  <1> QED
    BY <1>1 DEF files, IInv, InputInv, ManifestInv, LiftInv, StampInv, Whole, Listing

LEMMA CutInv == IInv /\ Cut => IInv'
  <1> SUFFICES ASSUME IInv, Cut PROVE IInv'
    OBVIOUS
  <1>1. pc' = "idle" /\ UNCHANGED <<project, input, manifest, exported, passthrough>>
    BY DEF Cut
  <1>2. StampInv'
    <2>1. CASE pc \in {"lift", "layout", "header", "compile", "stamp"} \cup Listing
      <3>1. stamp' = None
        BY <2>1 DEF Cut, IInv, LiftInv, Listing
      <3> QED
        BY <3>1 DEF StampInv
    <2>2. CASE pc = "link"
      <3>1. UNCHANGED <<stamp, list, layout, header, single, split>>
        BY <2>2 DEF Cut
      <3> QED
        BY <3>1 DEF IInv, StampInv, Whole
    <2> QED
      BY <2>1, <2>2 DEF Cut, Listing
  <1> QED
    BY <1>1, <1>2 DEF IInv, InputInv, ManifestInv, LiftInv, Listing

(* The steps of the lift before its list.                                  *)
LEMMA LiftStepInv == IInv /\ (DropStamp \/ Lift \/ WriteLayout \/ WriteStateHeader \/ Compile) => IInv'
  <1> SUFFICES ASSUME IInv, DropStamp \/ Lift \/ WriteLayout \/ WriteStateHeader \/ Compile PROVE IInv'
    OBVIOUS
  <1>1. UNCHANGED <<project, input, manifest, exported, passthrough>> /\ stamp' = None
        /\ pc \notin {"idle", "manifest"}
    BY DEF DropStamp, Lift, WriteLayout, WriteStateHeader, Compile, IInv, LiftInv, Listing
  <1>2. LiftKey' = LiftKey
    BY <1>1 DEF LiftKey
  <1>3. InputInv' /\ ManifestInv' /\ StampInv'
    BY <1>1 DEF IInv, InputInv, ManifestInv, StampInv
  <1>4. LiftInv'
    <2>1. CASE DropStamp
      BY <1>1, <2>1 DEF DropStamp, LiftInv, Listing
    <2>2. CASE Lift
      BY <1>1, <1>2, <2>2 DEF Lift, LiftInv, Listing
    <2>3. CASE WriteLayout
      BY <1>1, <1>2, <2>3 DEF WriteLayout, IInv, LiftInv, Listing
    <2>4. CASE WriteStateHeader
      BY <1>1, <1>2, <2>4 DEF WriteStateHeader, IInv, LiftInv, Listing
    <2>5. CASE Compile
      BY <1>1, <1>2, <2>5 DEF Compile, IInv, LiftInv, Listing
    <2> QED
      BY <2>1, <2>2, <2>3, <2>4, <2>5
  <1> QED
    BY <1>3, <1>4 DEF IInv

LEMMA WriteListInv == IInv /\ WriteList => IInv'
  <1> SUFFICES ASSUME IInv, WriteList PROVE IInv'
    OBVIOUS
  <1>1. /\ UNCHANGED <<project, input, manifest, exported, passthrough, stamp, layout, header, single, split>>
        /\ pc \in Listing /\ pc' = "stamp" /\ list' = IF pc = "list-single" THEN "single" ELSE "split"
    BY DEF WriteList, Listing
  <1>2. LiftKey' = LiftKey /\ stamp' = None
    BY <1>1 DEF LiftKey, IInv, LiftInv
  <1>3. Whole(LiftKey)'
    BY <1>1, <1>2 DEF IInv, LiftInv, Whole, Listing
  <1> QED
    BY <1>1, <1>2, <1>3 DEF IInv, InputInv, ManifestInv, LiftInv, StampInv, Listing

LEMMA WriteStampInv == IInv /\ WriteStamp => IInv'
  <1> SUFFICES ASSUME IInv, WriteStamp PROVE IInv'
    OBVIOUS
  <1>1. /\ UNCHANGED <<project, input, manifest, exported, passthrough, list, layout, header, single, split>>
        /\ pc = "stamp" /\ pc' = "link" /\ stamp' = LiftKey
    BY DEF WriteStamp
  <1>2. LiftKey' = LiftKey /\ Whole(LiftKey)
    BY <1>1 DEF LiftKey, IInv, LiftInv
  <1> QED
    BY <1>1, <1>2 DEF IInv, InputInv, ManifestInv, LiftInv, StampInv, Whole, Listing

LEMMA NextInv == IInv /\ [Next]_vars => IInv'
  <1> SUFFICES ASSUME IInv, [Next]_vars PROVE IInv'
    OBVIOUS
  <1>1. CASE UNCHANGED vars
    BY <1>1 DEF vars, files, IInv, InputInv, ManifestInv, LiftInv, StampInv, Whole, Listing, LiftKey
  <1>2. CASE Manifest
    BY <1>2 DEF Manifest, IInv, InputInv, ManifestInv, LiftInv, StampInv, Whole, Listing
  <1>3. CASE Reuse
    BY <1>3 DEF Reuse, files, IInv, InputInv, ManifestInv, LiftInv, StampInv, Whole, Listing, LiftKey
  <1>4. CASE Link
    BY <1>4 DEF Link, IInv, InputInv, ManifestInv, LiftInv, StampInv, Whole, Listing
  <1> QED
    BY <1>1, <1>2, <1>3, <1>4, BetweenInv, CutInv, BridgesInv, LiftStepInv, WriteListInv, WriteStampInv DEF Next

(* A stamp vouches for a complete lift, wherever earlier runs stopped.     *)
THEOREM Invariance == Spec => []IInv
  <1>1. Init => IInv
    BY InitInv
  <1>2. IInv /\ [Next]_vars => IInv'
    BY NextInv
  <1> QED
    BY <1>1, <1>2, PTL DEF Spec

(* What a link is made of.                                                 *)
LEMMA Linked ==
    ASSUME IInv, Link
    PROVE  binary' = [code |-> LiftKey, layout |-> LiftKey, header |-> LiftKey, classes |-> Kept(input, {})]
  <1>1. /\ pc = "link"
        /\ binary' = [code |-> IF list = "single" THEN single ELSE split,
                      layout |-> layout, header |-> header, classes |-> manifest]
    BY DEF Link
  <1>2. stamp = LiftKey /\ LiftKey # None
    BY <1>1, KeyType DEF IInv, LiftInv
  <1>3. Whole(LiftKey)
    BY <1>2 DEF IInv, StampInv
  <1>4. (IF list = "single" THEN single ELSE split) = LiftKey /\ layout = LiftKey /\ header = LiftKey
    BY <1>3 DEF Whole
  <1>5. manifest = Kept(input, {})
    BY <1>1 DEF IInv, ManifestInv
  <1> QED
    BY <1>1, <1>4, <1>5

(* A binary is made of the lift of the inputs its run read, whether that   *)
(* run lifted them or an earlier one did (translate.sh 118-124).           *)
THEOREM BinaryIsOfItsInputsHolds == Spec => BinaryIsOfItsInputs
  <1>1. IInv /\ [Next]_vars => [binary' # binary => binary' = None \/ binary'.code = LiftKey]_vars
    <2> SUFFICES ASSUME IInv, Next, binary' # binary PROVE binary' = None \/ binary'.code = LiftKey
      OBVIOUS
    <2>1. CASE Link
      BY <2>1, Linked
    <2>2. CASE Cut
      BY <2>2 DEF Cut
    <2> QED
      BY <2>1, <2>2 DEF Next, Edit, Start, Stop, Manifest, Bridges, Reuse, DropStamp, Lift, WriteLayout,
         WriteStateHeader, Compile, WriteList, WriteStamp, files
  <1> QED
    BY <1>1, Invariance, PTL DEF Spec, BinaryIsOfItsInputs

----------------------------------------------------------------------------
(* The search of exports.cpp: what one call answers.                       *)

(* What a call may return.                                                 *)
Places(w) == [image : Range(w.images) \cup {Bridge}, symbol : Symbols] \cup {None}
Silent == [q \in Queries |-> None]

LEMMA QueryType ==
    /\ \A l \in Libraries, s \in Symbols : Query(l, s) \in Queries
    /\ \A l, s : Query(l, s).library = l /\ Query(l, s).symbol = s
    /\ \A q \in Queries : q.library \in Libraries /\ q.symbol \in Symbols /\ q = Query(q.library, q.symbol)
  BY DEF Query, Queries

(* What an input says of an image.                                         *)
LEMMA ImageFacts ==
    ASSUME NEW w, WellFormed(w), NEW i \in Range(w.images)
    PROVE  /\ i # Bridge /\ i # None
           /\ w.install[i] \in Libraries /\ w.dylibs[i] \in Seq(Libraries)
           /\ w.whole[i] \in Seq(Libraries \ {Flat})
           /\ \A e \in w.sends[i] :
                  /\ e.name \in Symbols /\ e.symbol \in Symbols
                  /\ \A x \in w.sends[i] : x.name = e.name => x = e
  BY DEF WellFormed

LEMMA LibraryType ==
    ASSUME NEW w, WellFormed(w), NEW i \in Range(w.images), NEW o
    PROVE  LibraryOf(w, i, o) \in Libraries
  <1>1. w.install[i] \in Libraries /\ w.dylibs[i] \in Seq(Libraries)
    BY ImageFacts
  <1>2. \A n \in DOMAIN w.dylibs[i] : w.dylibs[i][n] \in Libraries
    BY <1>1
  <1> QED
    BY <1>1, <1>2, LimitsAssumption DEF LibraryOf

LEMMA ImageOfType ==
    ASSUME NEW w, WellFormed(w), NEW l, ImageOf(w, l) # None
    PROVE  ImageOf(w, l) \in Range(w.images)
  <1> DEFINE replaced == {r.image : r \in {q \in w.replaces : q.library = l}}
             named == {w.images[i] : i \in {j \in DOMAIN w.images : w.install[w.images[j]] = l}}
  <1>1. replaced \subseteq Range(w.images) /\ named \subseteq Range(w.images)
    BY DEF WellFormed, Range
  <1>2. ImageOf(w, l) \in replaced \cup named
    <2>1. ImageOf(w, l) = IF replaced # {} THEN CHOOSE i \in replaced : TRUE
                          ELSE IF named # {} THEN CHOOSE i \in named : TRUE ELSE None
      BY DEF ImageOf
    <2> HIDE DEF replaced, named
    <2> QED
      BY <2>1
  <1> QED
    BY <1>1, <1>2

(* Where a name goes from an image.                                        *)
LEMMA PassedOnType ==
    ASSUME NEW w, WellFormed(w), NEW i \in Range(w.images), NEW s \in Symbols
    PROVE  /\ PassedOn(w, i, s) \subseteq Queries
           /\ \A p \in PassedOn(w, i, s) : p.symbol \in {s} \cup Sent(w)
  <1>1. ASSUME NEW l \in Range(w.whole[i]) PROVE Query(l, s) \in Queries
    <2>1. w.whole[i] \in Seq(Libraries \ {Flat})
      BY ImageFacts
    <2>2. l \in Libraries
      BY <2>1 DEF Range
    <2> QED
      BY <2>2, QueryType
  <1>2. ASSUME NEW e \in w.sends[i]
        PROVE  Query(LibraryOf(w, i, e.ordinal), e.symbol) \in Queries /\ e.symbol \in Sent(w)
    BY ImageFacts, LibraryType, QueryType DEF Sent
  <1> QED
    BY <1>1, <1>2, QueryType DEF PassedOn

(* The first answer is one of them, if there is one.                       *)
LEMMA FirstIsOne ==
    ASSUME NEW a, DOMAIN a \subseteq Nat
    PROVE  /\ FirstAnswer(a) # None => \E i \in DOMAIN a : FirstAnswer(a) = a[i]
           /\ FirstAnswer(a) = None => \A i \in DOMAIN a : a[i] = None
  <1> DEFINE hits == {i \in DOMAIN a : a[i] # None}
  <1>1. FirstAnswer(a) = IF hits = {} THEN None ELSE a[CHOOSE i \in hits : \A j \in hits : i <= j]
    BY DEF FirstAnswer
  <1>2. hits # {} => (CHOOSE i \in hits : \A j \in hits : i <= j) \in hits
    <2>1. hits \in SUBSET Nat
      OBVIOUS
    <2> HIDE DEF hits
    <2>2. hits # {} => \E i \in hits : \A j \in hits : i <= j
      BY <2>1, Least
    <2> QED
      BY <2>2
  <1> QED
    BY <1>1, <1>2

(* One more, at the end.                                                   *)
LEMMA FirstOfMore ==
    ASSUME NEW a, NEW b, NEW n \in Nat, DOMAIN a = 1..n, DOMAIN b = 1..(n + 1), \A i \in 1..n : b[i] = a[i]
    PROVE  FirstAnswer(b) = OrElse(FirstAnswer(a), b[n + 1])
  <1> DEFINE hits == {i \in DOMAIN a : a[i] # None}
             more == {i \in DOMAIN b : b[i] # None}
  <1>1. /\ FirstAnswer(a) = IF hits = {} THEN None ELSE a[CHOOSE i \in hits : \A j \in hits : i <= j]
        /\ FirstAnswer(b) = IF more = {} THEN None ELSE b[CHOOSE i \in more : \A j \in more : i <= j]
    BY DEF FirstAnswer
  <1>2. hits \subseteq more /\ more \subseteq hits \cup {n + 1} /\ hits \subseteq 1..n
    OBVIOUS
  <1>3. /\ b[n + 1] # None <=> n + 1 \in more
        /\ \A i \in hits : a[i] # None
    OBVIOUS
  <1> HIDE DEF hits, more
  <1>4. CASE hits # {}
    <2> DEFINE x == CHOOSE i \in hits : \A j \in hits : i <= j
               y == CHOOSE i \in more : \A j \in more : i <= j
    <2>1. hits \in SUBSET Nat /\ more \in SUBSET Nat /\ more # {}
      <3>1. 1..n \subseteq Nat /\ n + 1 \in Nat
        OBVIOUS
      <3> QED
        BY <1>2, <1>4, <3>1
    <2>2. \E i \in hits : \A j \in hits : i <= j
      BY <1>4, <2>1, Least
    <2>3. \E i \in more : \A j \in more : i <= j
      BY <2>1, Least
    <2>4. x \in hits /\ \A j \in hits : x <= j
      BY <2>2
    <2>5. y \in more /\ \A j \in more : y <= j
      BY <2>3
    <2>6. FirstAnswer(a) = a[x] /\ FirstAnswer(b) = b[y]
      BY <1>1, <1>4, <2>1
    <2> HIDE DEF x, y
    <2>7. x = y /\ x \in 1..n
      BY <1>2, <2>1, <2>4, <2>5
    <2> QED
      BY <1>3, <2>4, <2>6, <2>7 DEF OrElse
  <1>5. CASE hits = {} /\ more = {}
    BY <1>1, <1>3, <1>5 DEF OrElse
  <1>6. CASE hits = {} /\ more = {n + 1}
    <2>1. (CHOOSE i \in more : \A j \in more : i <= j) = n + 1
      BY <1>6
    <2> QED
      BY <1>1, <1>6, <2>1 DEF OrElse
  <1> QED
    BY <1>2, <1>4, <1>5, <1>6

(* An address is an answer.                                                *)
LEMMA AddressType ==
    ASSUME NEW w, WellFormed(w), NEW i \in Range(w.images) \cup {Bridge}, NEW s \in Symbols
    PROVE  Address(i, s) \in Places(w) /\ Address(i, s) # None
  BY DEF WellFormed, Address, Places

(* Names of no library: the guest's images come before the bridge.         *)
LEMMA FirstExportIs ==
    ASSUME NEW w, WellFormed(w), NEW bridged \in SUBSET Symbols, NEW s \in Symbols
    PROVE  /\ FirstExport(w, {}, s) # None =>
                  \E i \in Range(w.images) : s \in w.exports[i] /\ FirstExport(w, {}, s) = Address(i, s)
           /\ (\E i \in Range(w.images) : s \in w.exports[i]) => FirstExport(w, {}, s) # None
           /\ FirstExport(w, bridged, s) = OrElse(FirstExport(w, {}, s), FromBridge(bridged, s))
  <1> DEFINE n == Len(w.images)
             guest == [i \in DOMAIN w.images |-> Exported(w, {}, w.images[i], s)]
             all == [i \in DOMAIN Images(w, bridged) |-> Exported(w, bridged, Images(w, bridged)[i], s)]
  <1>1. /\ w.images \in Seq(Range(w.images)) /\ DOMAIN w.images = 1..n /\ n \in Nat /\ 1..n \subseteq Nat
        /\ \A i \in 1..n : w.images[i] \in Range(w.images) /\ w.images[i] # Bridge
        /\ \A i \in Range(w.images) : \E k \in 1..n : w.images[k] = i
    <2>1. w.images \in Seq(Range(w.images)) /\ Bridge \notin Range(w.images)
      BY DEF WellFormed
    <2> QED
      BY <2>1 DEF Range
  <1>2. FirstExport(w, {}, s) = FirstAnswer(guest) /\ FirstExport(w, bridged, s) = FirstAnswer(all)
    BY DEF FirstExport, Images
  <1>3. /\ DOMAIN guest = 1..n
        /\ \A i \in 1..n : guest[i] = IF s \in w.exports[w.images[i]] THEN Address(w.images[i], s) ELSE None
    BY <1>1 DEF Exported, ExportsOf
  <1>4. bridged # {} => /\ DOMAIN all = 1..(n + 1) /\ all[n + 1] = FromBridge(bridged, s)
                        /\ \A i \in 1..n : all[i] = guest[i]
    <2>1. SUFFICES ASSUME bridged # {}
                   PROVE  /\ DOMAIN all = 1..(n + 1) /\ all[n + 1] = FromBridge(bridged, s)
                          /\ \A i \in 1..n : all[i] = guest[i]
      OBVIOUS
    <2>2. /\ Images(w, bridged) = Append(w.images, Bridge) /\ DOMAIN Images(w, bridged) = 1..(n + 1)
          /\ Images(w, bridged)[n + 1] = Bridge
          /\ \A i \in 1..n : Images(w, bridged)[i] = w.images[i]
      BY <1>1, <2>1 DEF Images
    <2>3. \A i \in 1..n : Exported(w, bridged, w.images[i], s) = Exported(w, {}, w.images[i], s)
      BY <1>1 DEF Exported, ExportsOf
    <2>4. Exported(w, bridged, Bridge, s) = FromBridge(bridged, s)
      BY DEF Exported, ExportsOf, FromBridge
    <2>5. DOMAIN all = 1..(n + 1) /\ \A i \in 1..(n + 1) : all[i] = Exported(w, bridged, Images(w, bridged)[i], s)
      BY <2>2
    <2>6. \A i \in 1..n : i \in 1..(n + 1) /\ guest[i] = Exported(w, {}, w.images[i], s)
      BY <1>1
    <2>7. n + 1 \in 1..(n + 1)
      BY <1>1
    <2> HIDE DEF n, all, guest
    <2> QED
      BY <2>2, <2>3, <2>4, <2>5, <2>6, <2>7
  <1>5. bridged = {} => all = guest /\ FromBridge(bridged, s) = None
    BY DEF Images, FromBridge
  <1> HIDE DEF guest, all
  <1>6. /\ FirstAnswer(guest) # None => \E i \in 1..n : FirstAnswer(guest) = guest[i]
        /\ FirstAnswer(guest) = None => \A i \in 1..n : guest[i] = None
    <2> HIDE DEF n
    <2>1. DOMAIN guest \subseteq Nat
      BY <1>1, <1>3
    <2>2. /\ FirstAnswer(guest) # None => \E i \in DOMAIN guest : FirstAnswer(guest) = guest[i]
          /\ FirstAnswer(guest) = None => \A i \in DOMAIN guest : guest[i] = None
      BY <2>1, FirstIsOne
    <2> QED
      BY <1>3, <2>2
  <1>7. FirstAnswer(all) = OrElse(FirstAnswer(guest), FromBridge(bridged, s))
    <2>1. CASE bridged = {}
      BY <1>5, <2>1 DEF OrElse
    <2>2. CASE bridged # {}
      <3> HIDE DEF n
      <3>1. n \in Nat /\ DOMAIN guest = 1..n /\ DOMAIN all = 1..(n + 1) /\ \A i \in 1..n : all[i] = guest[i]
        BY <1>1, <1>3, <1>4, <2>2
      <3>2. FirstAnswer(all) = OrElse(FirstAnswer(guest), all[n + 1])
        BY ONLY <3>1, FirstOfMore
      <3> QED
        BY <1>4, <2>2, <3>2
    <2> QED
      BY <2>1, <2>2
  <1>8. \A i \in 1..n : Address(w.images[i], s) # None
    BY <1>1, AddressType
  <1> HIDE DEF n
  <1>9. FirstAnswer(guest) # None =>
            \E i \in Range(w.images) : s \in w.exports[i] /\ FirstAnswer(guest) = Address(i, s)
    BY <1>1, <1>3, <1>6
  <1>10. ASSUME NEW i \in Range(w.images), s \in w.exports[i] PROVE FirstAnswer(guest) # None
    <2>1. PICK k \in 1..n : w.images[k] = i
      BY <1>1
    <2>2. guest[k] # None
      BY <1>3, <1>8, <1>10, <2>1
    <2> QED
      BY <1>6, <2>2
  <1> QED
    BY <1>2, <1>7, <1>9, <1>10

(* A call that names a guest image which does not define the name: the     *)
(* answer of some call below, or of the bridge if all those are None.      *)
LEMMA StepBelow ==
    ASSUME NEW w, WellFormed(w), NEW bridged \in SUBSET Symbols, NEW below, NEW q \in Queries,
           q.library # Flat, ImageOf(w, q.library) # None, q.symbol \notin w.exports[ImageOf(w, q.library)]
    PROVE  LET passed == PassedOn(w, ImageOf(w, q.library), q.symbol)
               answer == FindStep(w, bridged, below, q)
           IN  \/ \E p \in passed : below[p] # None /\ answer = below[p]
               \/ /\ answer = FromBridge(bridged, q.symbol)
                  /\ \A p \in passed : ImagesOf(w, p.library) # {} => below[p] = None
  <1> DEFINE i == ImageOf(w, q.library)
             s == q.symbol
             sent == {e \in w.sends[i] : e.name = s}
             bySend == IF sent = {} THEN None
                       ELSE LET e == CHOOSE x \in sent : TRUE IN below[Query(LibraryOf(w, i, e.ordinal), e.symbol)]
             byWhole == [k \in DOMAIN w.whole[i] |->
                            IF ImageOf(w, w.whole[i][k]) = None THEN None ELSE below[Query(w.whole[i][k], s)]]
  <1>1. i \in Range(w.images) /\ i # Bridge
    BY ImageOfType, ImageFacts
  <1>2. FindStep(w, bridged, below, q) = OrElse(bySend, OrElse(FirstAnswer(byWhole), FromBridge(bridged, s)))
    <2>1. Exported(w, bridged, i, s) = None
      BY <1>1 DEF Exported, ExportsOf
    <2>2. FindStep(w, bridged, below, q) =
              OrElse(Exported(w, bridged, i, s), OrElse(bySend, OrElse(FirstAnswer(byWhole), FromBridge(bridged, s))))
      BY DEF FindStep
    <2> HIDE DEF bySend, byWhole
    <2> QED
      BY <2>1, <2>2 DEF OrElse
  <1>3. /\ bySend # None => \E e \in sent : bySend = below[Query(LibraryOf(w, i, e.ordinal), e.symbol)]
        /\ \A e \in sent : bySend = below[Query(LibraryOf(w, i, e.ordinal), e.symbol)]
    <2>1. CASE sent = {}
      BY <2>1
    <2>2. CASE sent # {}
      <3>1. \A e, x \in sent : e = x
        BY <1>1, ImageFacts
      <3> DEFINE c == CHOOSE x \in sent : TRUE
      <3>2. bySend = below[Query(LibraryOf(w, i, c.ordinal), c.symbol)]
        BY <2>2
      <3> HIDE DEF sent, bySend
      <3>3. c \in sent
        BY <2>2
      <3> HIDE DEF c
      <3> QED
        BY <3>1, <3>2, <3>3
    <2> QED
      BY <2>1, <2>2
  <1>4. /\ DOMAIN byWhole = DOMAIN w.whole[i] /\ DOMAIN byWhole \subseteq Nat
        /\ \A k \in DOMAIN byWhole : byWhole[k] = IF ImageOf(w, w.whole[i][k]) = None THEN None ELSE below[Query(w.whole[i][k], s)]
        /\ \A k \in DOMAIN w.whole[i] : w.whole[i][k] # Flat
    <2>1. w.whole[i] \in Seq(Libraries \ {Flat})
      BY <1>1, ImageFacts
    <2> QED
      BY <2>1
  <1>5. /\ FirstAnswer(byWhole) # None => \E k \in DOMAIN byWhole : FirstAnswer(byWhole) = byWhole[k]
        /\ FirstAnswer(byWhole) = None => \A k \in DOMAIN byWhole : byWhole[k] = None
    <2> HIDE DEF byWhole
    <2> QED
      BY <1>4, FirstIsOne
  <1>6. PassedOn(w, i, s) = {Query(l, s) : l \in Range(w.whole[i])} \cup
                            {Query(LibraryOf(w, i, e.ordinal), e.symbol) : e \in sent}
    BY DEF PassedOn
  <1>7. \A k \in DOMAIN w.whole[i] : Query(w.whole[i][k], s) \in PassedOn(w, i, s)
    BY <1>6 DEF Range
  <1> HIDE DEF bySend, byWhole, sent
  <1>8. CASE bySend # None
    BY <1>2, <1>3, <1>6, <1>8 DEF OrElse
  <1>9. CASE bySend = None /\ FirstAnswer(byWhole) # None
    <2>1. FindStep(w, bridged, below, q) = FirstAnswer(byWhole)
      BY <1>2, <1>9 DEF OrElse
    <2>2. PICK k \in DOMAIN byWhole : FirstAnswer(byWhole) = byWhole[k]
      BY <1>5, <1>9
    <2>3. byWhole[k] = below[Query(w.whole[i][k], s)] /\ k \in DOMAIN w.whole[i]
      BY <1>4, <1>9, <2>2
    <2> QED
      BY <1>7, <1>9, <2>1, <2>2, <2>3
  <1>10. CASE bySend = None /\ FirstAnswer(byWhole) = None
    <2>1. FindStep(w, bridged, below, q) = FromBridge(bridged, s)
      BY <1>2, <1>10 DEF OrElse
    <2>2. ASSUME NEW k \in DOMAIN w.whole[i], ImagesOf(w, w.whole[i][k]) # {}
          PROVE  below[Query(w.whole[i][k], s)] = None
      <3>1. ImageOf(w, w.whole[i][k]) # None
        BY <1>4, <2>2 DEF ImagesOf
      <3> QED
        BY <1>4, <1>5, <1>10, <3>1
    <2>3. ASSUME NEW p \in PassedOn(w, i, s), ImagesOf(w, p.library) # {} PROVE below[p] = None
      <3>1. CASE \E e \in sent : p = Query(LibraryOf(w, i, e.ordinal), e.symbol)
        BY <1>3, <1>10, <3>1
      <3>2. CASE \E k \in DOMAIN w.whole[i] : p = Query(w.whole[i][k], s)
        <4>1. PICK k \in DOMAIN w.whole[i] : p = Query(w.whole[i][k], s)
          BY <3>2
        <4>2. p.library = w.whole[i][k]
          BY <4>1, QueryType
        <4> QED
          BY <2>2, <2>3, <4>1, <4>2
      <3> QED
        BY <1>6, <3>1, <3>2 DEF Range
    <2> QED
      BY <2>1, <2>3
  <1> QED
    BY <1>8, <1>9, <1>10

(* A call that names a guest image which defines the name.                 *)
LEMMA StepOwn ==
    ASSUME NEW w, WellFormed(w), NEW bridged, NEW below, NEW q \in Queries,
           q.library # Flat, ImageOf(w, q.library) # None, q.symbol \in w.exports[ImageOf(w, q.library)]
    PROVE  /\ FindStep(w, bridged, below, q) = Address(ImageOf(w, q.library), q.symbol)
           /\ FindStep(w, bridged, below, q) # None
  <1> DEFINE i == ImageOf(w, q.library)
  <1>1. i \in Range(w.images) /\ i # Bridge
    BY ImageOfType, ImageFacts
  <1>2. Exported(w, bridged, i, q.symbol) = Address(i, q.symbol)
    BY <1>1 DEF Exported, ExportsOf
  <1>3. Address(i, q.symbol) # None
    BY <1>1, AddressType, QueryType
  <1>4. FindStep(w, bridged, below, q) = Exported(w, bridged, i, q.symbol)
    BY <1>2, <1>3 DEF FindStep, OrElse
  <1> QED
    BY <1>2, <1>3, <1>4

(* A call whose deeper calls answer the same, of a name not bridged.       *)
LEMMA StepSame ==
    ASSUME NEW w, WellFormed(w), NEW bridged, NEW below, NEW below2, NEW q \in Queries,
           q.library # Flat, ImageOf(w, q.library) # None, FromBridge(bridged, q.symbol) = FromBridge({}, q.symbol),
           \A p \in PassedOn(w, ImageOf(w, q.library), q.symbol) : below[p] = below2[p]
    PROVE  FindStep(w, bridged, below, q) = FindStep(w, {}, below2, q)
  <1> DEFINE i == ImageOf(w, q.library)
             s == q.symbol
             sent == {e \in w.sends[i] : e.name = s}
             bySend(b) == IF sent = {} THEN None
                          ELSE LET e == CHOOSE x \in sent : TRUE IN b[Query(LibraryOf(w, i, e.ordinal), e.symbol)]
             byWhole(b) == [k \in DOMAIN w.whole[i] |->
                               IF ImageOf(w, w.whole[i][k]) = None THEN None ELSE b[Query(w.whole[i][k], s)]]
  <1>1. i \in Range(w.images) /\ i # Bridge
    BY ImageOfType, ImageFacts
  <1>2. Exported(w, bridged, i, s) = Exported(w, {}, i, s)
    BY <1>1 DEF Exported, ExportsOf
  <1>3. /\ FindStep(w, bridged, below, q) =
              OrElse(Exported(w, bridged, i, s), OrElse(bySend(below), OrElse(FirstAnswer(byWhole(below)), FromBridge(bridged, s))))
        /\ FindStep(w, {}, below2, q) =
              OrElse(Exported(w, {}, i, s), OrElse(bySend(below2), OrElse(FirstAnswer(byWhole(below2)), FromBridge({}, s))))
    BY DEF FindStep
  <1>4. bySend(below) = bySend(below2)
    <2>1. CASE sent = {}
      BY <2>1
    <2>2. CASE sent # {}
      <3> DEFINE c == CHOOSE x \in sent : TRUE
                 p == Query(LibraryOf(w, i, c.ordinal), c.symbol)
      <3>1. c \in sent
        BY <2>2
      <3>2. \A b : bySend(b) = IF sent = {} THEN None ELSE b[p]
        OBVIOUS
      <3>3. p \in PassedOn(w, i, s)
        <4> HIDE DEF c
        <4> QED
          BY <3>1 DEF PassedOn
      <3> HIDE DEF c, p, bySend
      <3> QED
        BY <3>2, <3>3
    <2> QED
      BY <2>1, <2>2
  <1>5. byWhole(below) = byWhole(below2)
    <2>1. \A k \in DOMAIN w.whole[i] : Query(w.whole[i][k], s) \in PassedOn(w, i, s)
      BY DEF PassedOn, Range
    <2> QED
      BY <2>1
  <1> HIDE DEF bySend, byWhole
  <1> QED
    BY <1>2, <1>3, <1>4, <1>5

LEMMA StepOther ==
    ASSUME NEW w, NEW bridged, NEW below, NEW q \in Queries
    PROVE  /\ q.library = Flat => FindStep(w, bridged, below, q) = FirstExport(w, bridged, q.symbol)
           /\ q.library # Flat /\ ImageOf(w, q.library) = None =>
                  FindStep(w, bridged, below, q) = FromBridge(bridged, q.symbol)
  BY DEF FindStep

LEMMA StepType ==
    ASSUME NEW w, WellFormed(w), NEW bridged \in SUBSET Symbols, NEW below \in [Queries -> Places(w)], NEW q \in Queries
    PROVE  FindStep(w, bridged, below, q) \in Places(w)
  <1>1. FromBridge(bridged, q.symbol) \in Places(w)
    BY AddressType, QueryType DEF FromBridge, Places
  <1>2. CASE q.library = Flat
    <2>1. FirstExport(w, {}, q.symbol) \in Places(w)
      <3>1. q.symbol \in Symbols
        BY QueryType
      <3>2. \A i \in Range(w.images) : Address(i, q.symbol) \in Places(w)
        BY <3>1, AddressType
      <3>3. CASE FirstExport(w, {}, q.symbol) = None
        BY <3>3 DEF Places
      <3>4. CASE FirstExport(w, {}, q.symbol) # None
        BY <3>1, <3>2, <3>4, FirstExportIs
      <3> QED
        BY <3>3, <3>4
    <2>2. FirstExport(w, bridged, q.symbol) \in Places(w)
      BY <1>1, <2>1, FirstExportIs, QueryType DEF OrElse
    <2> QED
      BY <1>2, <2>2, StepOther
  <1>3. CASE q.library # Flat /\ ImageOf(w, q.library) = None
    BY <1>1, <1>3, StepOther
  <1>4. CASE q.library # Flat /\ ImageOf(w, q.library) # None
    <2>1. CASE q.symbol \in w.exports[ImageOf(w, q.library)]
      <3>1. ImageOf(w, q.library) \in Range(w.images) /\ q.symbol \in Symbols
        BY <1>4, ImageOfType, QueryType
      <3> QED
        BY <1>4, <2>1, <3>1, StepOwn, AddressType
    <2>2. CASE q.symbol \notin w.exports[ImageOf(w, q.library)]
      <3>1. PassedOn(w, ImageOf(w, q.library), q.symbol) \subseteq Queries
        BY <1>4, ImageOfType, PassedOnType, QueryType
      <3> QED
        BY <1>1, <1>4, <2>2, <3>1, StepBelow
    <2> QED
      BY <2>1, <2>2
  <1> QED
    BY <1>2, <1>3, <1>4

----------------------------------------------------------------------------
(* The search as a whole: Finds(w, bridged)[n] are the answers of calls    *)
(* that may go n deeper.                                                   *)

FindRec(w, bridged, f) ==
    f = [n \in 0..MaxReexportDepth |->
            IF n = 0 THEN [q \in Queries |-> FindStep(w, bridged, [p \in Queries |-> None], q)]
            ELSE [q \in Queries |-> FindStep(w, bridged, f[n - 1], q)]]

Finds(w, bridged) == CHOOSE f : FindRec(w, bridged, f)

Deeper(w, bridged, n) == IF n = 0 THEN Silent ELSE Finds(w, bridged)[n - 1]

LEMMA FindIs ==
    ASSUME NEW w, NEW bridged, NEW l, NEW s
    PROVE  Find(w, bridged, l, s) = Finds(w, bridged)[MaxReexportDepth][Query(l, s)]
  BY DEF Find, Finds, FindRec

LEMMA FindsExist ==
    ASSUME NEW w, WellFormed(w), NEW bridged \in SUBSET Symbols
    PROVE  /\ Finds(w, bridged) \in [0..MaxReexportDepth -> [Queries -> Places(w)]]
           /\ FindRec(w, bridged, Finds(w, bridged))
  <1> DEFINE N == MaxReexportDepth
             T == [Queries -> Places(w)]
             a == [q \in Queries |-> FindStep(w, bridged, Silent, q)]
             F == [g \in T |-> [q \in Queries |-> FindStep(w, bridged, g, q)]]
  <1>1. Silent \in T
    BY DEF Silent, Places
  <1>2. a \in T /\ F \in [T -> T] /\ N \in Nat
    BY <1>1, StepType, LimitsAssumption
  <1>3. ASSUME NEW f \in [0..N -> T], f[0] = a, \A n \in 1..N : f[n] = F[f[n - 1]]
        PROVE  FindRec(w, bridged, f)
    <2>1. ASSUME NEW n \in 0..N, n # 0
          PROVE  f[n] = [q \in Queries |-> FindStep(w, bridged, f[n - 1], q)]
      <3>1. n \in 1..N /\ f[n - 1] \in T
        BY <1>2, <2>1
      <3> QED
        BY <1>3, <3>1
    <2>2. f = [n \in 0..N |-> IF n = 0 THEN a ELSE [q \in Queries |-> FindStep(w, bridged, f[n - 1], q)]]
      <3> HIDE DEF a
      <3> QED
        BY <1>3, <2>1
    <2> QED
      BY <2>2 DEF FindRec, Silent
  <1> HIDE DEF N, T, a, F
  <1>4. PICK f : Iterates(f, T, a, F, N)
    BY <1>2, Iteration
  <1>5. FindRec(w, bridged, f)
    BY <1>3, <1>4 DEF Iterates
  <1>6. FindRec(w, bridged, Finds(w, bridged))
    BY <1>5 DEF Finds
  <1>7. ASSUME NEW g, FindRec(w, bridged, g) PROVE g \in [0..N -> T]
    <2>1. /\ DOMAIN g = 0..N /\ g = [n \in 0..N |-> g[n]]
          /\ g[0] = a
          /\ \A n \in 1..N : g[n] = [q \in Queries |-> FindStep(w, bridged, g[n - 1], q)]
      <3>1. g = [n \in 0..N |-> IF n = 0 THEN a ELSE [q \in Queries |-> FindStep(w, bridged, g[n - 1], q)]]
        BY <1>7 DEF FindRec, N, a, Silent
      <3>2. DOMAIN g = 0..N /\ 0 \in 0..N /\ \A n \in 1..N : n \in 0..N /\ n # 0
        BY <1>2, <3>1
      <3> QED
        BY <3>1, <3>2
    <2> DEFINE X == {n \in 0..N : g[n] \in T}
    <2>2. 0 \in X
      BY <1>2, <2>1
    <2>3. ASSUME NEW n \in 1..N, n - 1 \in X PROVE n \in X
      <3>1. g[n - 1] \in T
        BY <2>3
      <3>2. F[g[n - 1]] = g[n] /\ F[g[n - 1]] \in T
        BY <1>2, <2>1, <3>1 DEF F
      <3> QED
        BY <1>2, <3>2
    <2>4. \A n \in 0..N : n \in X
      <3> HIDE DEF X
      <3> QED
        BY <1>2, <2>2, <2>3, UpToBound
    <2> QED
      BY <2>1, <2>4
  <1> QED
    BY <1>6, <1>7 DEF N, T

(* The answers of a call come from those one deeper.                       *)
LEMMA FindsAt ==
    ASSUME NEW w, WellFormed(w), NEW bridged \in SUBSET Symbols, NEW n \in 0..MaxReexportDepth
    PROVE  /\ Deeper(w, bridged, n) \in [Queries -> Places(w)]
           /\ \A q \in Queries : Finds(w, bridged)[n][q] = FindStep(w, bridged, Deeper(w, bridged, n), q)
           /\ n # 0 => n - 1 \in 0..MaxReexportDepth /\ Deeper(w, bridged, n) = Finds(w, bridged)[n - 1]
  <1> DEFINE f == Finds(w, bridged)
  <1>1. f \in [0..MaxReexportDepth -> [Queries -> Places(w)]] /\ FindRec(w, bridged, f)
    BY FindsExist
  <1>2. n # 0 => n - 1 \in 0..MaxReexportDepth
    BY LimitsAssumption
  <1>3. f[n] = IF n = 0 THEN [q \in Queries |-> FindStep(w, bridged, [p \in Queries |-> None], q)]
               ELSE [q \in Queries |-> FindStep(w, bridged, f[n - 1], q)]
    BY <1>1 DEF FindRec
  <1>4. Silent \in [Queries -> Places(w)]
    BY DEF Silent, Places
  <1> HIDE DEF f
  <1>5. Deeper(w, bridged, n) = IF n = 0 THEN Silent ELSE f[n - 1]
    BY DEF Deeper, f
  <1>6. f[n] = [q \in Queries |-> FindStep(w, bridged, Deeper(w, bridged, n), q)]
    BY <1>3, <1>5 DEF Silent
  <1> QED
    BY <1>1, <1>2, <1>4, <1>5, <1>6 DEF f

(* The answers of the guest's images, n re-exports deep.                   *)
AnswersRec(w, f) ==
    f = [n \in 0..MaxReexportDepth |->
            IF n = 0 THEN [q \in Queries |-> Defined(w, q)]
            ELSE [q \in Queries |-> Defined(w, q) \cup UNION {f[n - 1][p] : p \in Below(w, q)}]]

GuestAnswers(w) == CHOOSE f : AnswersRec(w, f)

LEMMA AnswersIs ==
    ASSUME NEW w, NEW l, NEW s
    PROVE  Answers(w, l, s) = GuestAnswers(w)[MaxReexportDepth][Query(l, s)]
  BY DEF Answers, GuestAnswers, AnswersRec

LEMMA BelowIs ==
    ASSUME NEW w, WellFormed(w), NEW q \in Queries
    PROVE  /\ Below(w, q) \subseteq Queries
           /\ q.library = Flat => Below(w, q) = {} /\ ImagesOf(w, q.library) = Range(w.images)
           /\ q.library # Flat /\ ImageOf(w, q.library) = None => Below(w, q) = {} /\ ImagesOf(w, q.library) = {}
           /\ q.library # Flat /\ ImageOf(w, q.library) # None =>
                  /\ Below(w, q) = PassedOn(w, ImageOf(w, q.library), q.symbol)
                  /\ ImagesOf(w, q.library) = {ImageOf(w, q.library)}
           /\ ImagesOf(w, q.library) \subseteq Range(w.images)
  <1>1. q.library = Flat => Below(w, q) = {} /\ ImagesOf(w, q.library) = Range(w.images)
    BY DEF Below, ImagesOf
  <1>2. q.library # Flat /\ ImageOf(w, q.library) = None => Below(w, q) = {} /\ ImagesOf(w, q.library) = {}
    BY DEF Below, ImagesOf
  <1>3. q.library # Flat /\ ImageOf(w, q.library) # None =>
            /\ ImagesOf(w, q.library) = {ImageOf(w, q.library)}
            /\ Below(w, q) = PassedOn(w, ImageOf(w, q.library), q.symbol)
    <2> SUFFICES ASSUME q.library # Flat, ImageOf(w, q.library) # None
                 PROVE  /\ ImagesOf(w, q.library) = {ImageOf(w, q.library)}
                        /\ Below(w, q) = PassedOn(w, ImageOf(w, q.library), q.symbol)
      OBVIOUS
    <2>1. ImagesOf(w, q.library) = {ImageOf(w, q.library)}
      BY DEF ImagesOf
    <2> QED
      BY <2>1 DEF Below
  <1>4. ImageOf(w, q.library) # None => /\ ImageOf(w, q.library) \in Range(w.images)
                                        /\ PassedOn(w, ImageOf(w, q.library), q.symbol) \subseteq Queries
    BY ImageOfType, PassedOnType, QueryType
  <1> QED
    BY <1>1, <1>2, <1>3, <1>4

LEMMA AnswersAt ==
    ASSUME NEW w, WellFormed(w)
    PROVE  /\ \A q \in Queries : GuestAnswers(w)[0][q] = Defined(w, q)
           /\ \A n \in 1..MaxReexportDepth, q \in Queries :
                  GuestAnswers(w)[n][q] = Defined(w, q) \cup UNION {GuestAnswers(w)[n - 1][p] : p \in Below(w, q)}
  <1> DEFINE N == MaxReexportDepth
             T == [Queries -> SUBSET Places(w)]
             a == [q \in Queries |-> Defined(w, q)]
             F == [g \in T |-> [q \in Queries |-> Defined(w, q) \cup UNION {g[p] : p \in Below(w, q)}]]
  <1>1. \A q \in Queries : Defined(w, q) \in SUBSET Places(w)
    <2>1. ASSUME NEW q \in Queries, NEW i \in ImagesOf(w, q.library) PROVE Address(i, q.symbol) \in Places(w)
      BY BelowIs, AddressType, QueryType
    <2> QED
      BY <2>1 DEF Defined
  <1>2. a \in T /\ N \in Nat
    BY <1>1, LimitsAssumption
  <1>3. F \in [T -> T]
    <2>1. ASSUME NEW g \in T, NEW q \in Queries PROVE UNION {g[p] : p \in Below(w, q)} \in SUBSET Places(w)
      <3>1. \A p \in Below(w, q) : g[p] \in SUBSET Places(w)
        BY BelowIs
      <3> QED
        BY <3>1
    <2> QED
      BY <1>1, <2>1
  <1>4. ASSUME NEW f \in [0..N -> T], f[0] = a, \A n \in 1..N : f[n] = F[f[n - 1]]
        PROVE  AnswersRec(w, f)
    <2>1. ASSUME NEW n \in 0..N, n # 0
          PROVE  f[n] = [q \in Queries |-> Defined(w, q) \cup UNION {f[n - 1][p] : p \in Below(w, q)}]
      <3>1. n \in 1..N /\ f[n - 1] \in T
        BY <1>2, <2>1
      <3> QED
        BY <1>4, <3>1
    <2>2. f = [n \in 0..N |-> IF n = 0 THEN a
                              ELSE [q \in Queries |-> Defined(w, q) \cup UNION {f[n - 1][p] : p \in Below(w, q)}]]
      <3> HIDE DEF a
      <3> QED
        BY <1>4, <2>1
    <2> QED
      BY <2>2 DEF AnswersRec
  <1> HIDE DEF N, T, a, F
  <1>5. PICK f : Iterates(f, T, a, F, N)
    BY <1>2, <1>3, Iteration
  <1>6. AnswersRec(w, f)
    BY <1>4, <1>5 DEF Iterates
  <1> DEFINE g == GuestAnswers(w)
  <1>7. AnswersRec(w, g)
    BY <1>6 DEF GuestAnswers
  <1> HIDE DEF g
  <1>8. g = [n \in 0..N |-> IF n = 0 THEN a
                            ELSE [q \in Queries |-> Defined(w, q) \cup UNION {g[n - 1][p] : p \in Below(w, q)}]]
    BY <1>7 DEF AnswersRec, N, a
  <1>9. 0 \in 0..N /\ \A n \in 1..N : n \in 0..N /\ n # 0
    BY <1>2
  <1>10. g[0] = a
    BY <1>8, <1>9
  <1>11. ASSUME NEW n \in 1..N
         PROVE  g[n] = [q \in Queries |-> Defined(w, q) \cup UNION {g[n - 1][p] : p \in Below(w, q)}]
    BY <1>8, <1>9
  <1> QED
    BY <1>10, <1>11 DEF g, N, a

(* What an image defines itself is an answer at every depth.               *)
LEMMA AnswersHave ==
    ASSUME NEW w, WellFormed(w), NEW n \in 0..MaxReexportDepth, NEW q \in Queries
    PROVE  /\ Defined(w, q) \subseteq GuestAnswers(w)[n][q]
           /\ n # 0 => \A p \in Below(w, q) : GuestAnswers(w)[n - 1][p] \subseteq GuestAnswers(w)[n][q]
           /\ \A a \in GuestAnswers(w)[n][q] :
                  a \in Defined(w, q) \/ (n # 0 /\ \E p \in Below(w, q) : a \in GuestAnswers(w)[n - 1][p])
  <1>1. CASE n = 0
    BY <1>1, AnswersAt
  <1>2. CASE n # 0
    <2>1. n \in 1..MaxReexportDepth
      BY <1>2, LimitsAssumption
    <2>2. GuestAnswers(w)[n][q] = Defined(w, q) \cup UNION {GuestAnswers(w)[n - 1][p] : p \in Below(w, q)}
      BY <2>1, AnswersAt
    <2> QED
      BY <1>2, <2>2
  <1> QED
    BY <1>1, <1>2

----------------------------------------------------------------------------
(* What the search finds.                                                  *)

BridgePlaces(bridged) == {Address(Bridge, x) : x \in bridged}

LEMMA FromBridgeIs ==
    ASSUME NEW w, WellFormed(w), NEW bridged \in SUBSET Symbols, NEW s \in Symbols
    PROVE  /\ FromBridge(bridged, s) = None <=> s \notin bridged
           /\ FromBridge(bridged, s) # None => FromBridge(bridged, s) \in BridgePlaces(bridged)
  <1>1. Address(Bridge, s) # None
    BY AddressType
  <1> QED
    BY <1>1 DEF FromBridge, BridgePlaces

(* A name asked of no library, or of one that no guest image is.           *)
LEMMA FoundApart ==
    ASSUME NEW w, WellFormed(w), NEW bridged \in SUBSET Symbols, NEW n \in 0..MaxReexportDepth, NEW q \in Queries
    PROVE  /\ q.library = Flat => Finds(w, bridged)[n][q] = FirstExport(w, bridged, q.symbol)
           /\ q.library # Flat /\ ImageOf(w, q.library) = None => Finds(w, bridged)[n][q] = FromBridge(bridged, q.symbol)
  BY FindsAt, StepOther

(* A guest image that defines the name.                                    *)
LEMMA FoundOwn ==
    ASSUME NEW w, WellFormed(w), NEW bridged \in SUBSET Symbols, NEW n \in 0..MaxReexportDepth, NEW q \in Queries,
           q.library # Flat, ImageOf(w, q.library) # None, q.symbol \in w.exports[ImageOf(w, q.library)]
    PROVE  /\ Finds(w, bridged)[n][q] = Address(ImageOf(w, q.library), q.symbol)
           /\ Finds(w, bridged)[n][q] # None /\ Finds(w, bridged)[n][q] \in Defined(w, q)
  <1>1. Finds(w, bridged)[n][q] = FindStep(w, bridged, Deeper(w, bridged, n), q)
    BY FindsAt
  <1>2. ImagesOf(w, q.library) = {ImageOf(w, q.library)}
    BY BelowIs
  <1> QED
    BY <1>1, <1>2, StepOwn DEF Defined

(* A guest image that does not define the name.                            *)
LEMMA FoundBelow ==
    ASSUME NEW w, WellFormed(w), NEW bridged \in SUBSET Symbols, NEW n \in 0..MaxReexportDepth, NEW q \in Queries,
           q.library # Flat, ImageOf(w, q.library) # None, q.symbol \notin w.exports[ImageOf(w, q.library)]
    PROVE  \/ /\ n # 0
              /\ \E p \in Below(w, q) : /\ Finds(w, bridged)[n - 1][p] # None
                                        /\ Finds(w, bridged)[n][q] = Finds(w, bridged)[n - 1][p]
           \/ /\ Finds(w, bridged)[n][q] = FromBridge(bridged, q.symbol)
              /\ n # 0 => \A p \in Below(w, q) :
                              ImagesOf(w, p.library) # {} => Finds(w, bridged)[n - 1][p] = None
  <1>1. Finds(w, bridged)[n][q] = FindStep(w, bridged, Deeper(w, bridged, n), q)
    BY FindsAt
  <1>2. Below(w, q) = PassedOn(w, ImageOf(w, q.library), q.symbol) /\ Below(w, q) \subseteq Queries
    BY BelowIs
  <1>3. CASE n = 0
    <2>1. \A p \in Below(w, q) : Deeper(w, bridged, n)[p] = None
      BY <1>2, <1>3 DEF Deeper, Silent
    <2> QED
      BY <1>1, <1>2, <1>3, <2>1, StepBelow
  <1>4. CASE n # 0
    <2>1. Deeper(w, bridged, n) = Finds(w, bridged)[n - 1]
      BY <1>4, FindsAt
    <2> QED
      BY <1>1, <1>2, <1>4, <2>1, StepBelow
  <1> QED
    BY <1>3, <1>4

(* Nothing is found but what the guest's images answer and the bridge.     *)
LEMMA FoundIsAnswer ==
    ASSUME NEW w, WellFormed(w), NEW bridged \in SUBSET Symbols
    PROVE  \A n \in 0..MaxReexportDepth, q \in Queries :
               Finds(w, bridged)[n][q] \in GuestAnswers(w)[n][q] \cup {None} \cup BridgePlaces(bridged)
  <1> DEFINE Ok(n, q) == Finds(w, bridged)[n][q] \in GuestAnswers(w)[n][q] \cup {None} \cup BridgePlaces(bridged)
             X == {n \in 0..MaxReexportDepth : \A q \in Queries : Ok(n, q)}
  <1>1. ASSUME NEW n \in 0..MaxReexportDepth, NEW q \in Queries, n # 0 => \A p \in Queries : Ok(n - 1, p)
        PROVE  Ok(n, q)
    <2>1. q.symbol \in Symbols /\ Below(w, q) \subseteq Queries /\ Defined(w, q) \subseteq GuestAnswers(w)[n][q]
      BY QueryType, BelowIs, AnswersHave
    <2>2. FromBridge(bridged, q.symbol) \in {None} \cup BridgePlaces(bridged)
      BY <2>1, FromBridgeIs
    <2>3. CASE q.library = Flat
      <3>1. FirstExport(w, {}, q.symbol) # None => FirstExport(w, {}, q.symbol) \in Defined(w, q)
        <4>1. ImagesOf(w, q.library) = Range(w.images)
          BY <2>3, BelowIs
        <4>2. FirstExport(w, {}, q.symbol) # None =>
                  \E i \in Range(w.images) : q.symbol \in w.exports[i] /\ FirstExport(w, {}, q.symbol) = Address(i, q.symbol)
          BY <2>1, FirstExportIs
        <4> QED
          BY <4>1, <4>2 DEF Defined
      <3>2. FirstExport(w, bridged, q.symbol) = OrElse(FirstExport(w, {}, q.symbol), FromBridge(bridged, q.symbol))
        BY <2>1, FirstExportIs
      <3> QED
        BY <2>1, <2>2, <2>3, <3>1, <3>2, FoundApart DEF OrElse
    <2>4. CASE q.library # Flat /\ ImageOf(w, q.library) = None
      BY <2>2, <2>4, FoundApart
    <2>5. CASE q.library # Flat /\ ImageOf(w, q.library) # None
      <3>1. CASE q.symbol \in w.exports[ImageOf(w, q.library)]
        BY <2>1, <2>5, <3>1, FoundOwn
      <3>2. CASE q.symbol \notin w.exports[ImageOf(w, q.library)]
        <4>1. CASE Finds(w, bridged)[n][q] = FromBridge(bridged, q.symbol)
          BY <2>2, <4>1
        <4>2. CASE n # 0 /\ \E p \in Below(w, q) : Finds(w, bridged)[n][q] = Finds(w, bridged)[n - 1][p]
          <5>1. PICK p \in Below(w, q) : Finds(w, bridged)[n][q] = Finds(w, bridged)[n - 1][p]
            BY <4>2
          <5>2. Ok(n - 1, p)
            BY <1>1, <2>1, <4>2, <5>1
          <5>3. GuestAnswers(w)[n - 1][p] \subseteq GuestAnswers(w)[n][q]
            BY <4>2, <5>1, AnswersHave
          <5> QED
            BY <5>1, <5>2, <5>3
        <4> QED
          BY <2>5, <3>2, <4>1, <4>2, FoundBelow
      <3> QED
        BY <3>1, <3>2
    <2> QED
      BY <2>3, <2>4, <2>5
  <1> HIDE DEF Ok
  <1>2. 0 \in X
    BY <1>1, LimitsAssumption
  <1>3. ASSUME NEW n \in 1..MaxReexportDepth, n - 1 \in X PROVE n \in X
    BY <1>1, <1>3, LimitsAssumption
  <1>4. \A n \in 0..MaxReexportDepth : n \in X
    <2> HIDE DEF X
    <2> QED
      BY <1>2, <1>3, LimitsAssumption, UpToBound
  <1> QED
    BY <1>4 DEF Ok

(* Without a bridge only the guest's images answer.                        *)
LEMMA GuestFinds ==
    ASSUME NEW w, WellFormed(w), NEW n \in 0..MaxReexportDepth, NEW q \in Queries, Finds(w, {})[n][q] # None
    PROVE  Finds(w, {})[n][q] \in GuestAnswers(w)[n][q] /\ ImagesOf(w, q.library) # {}
  <1>1. {} \in SUBSET Symbols /\ BridgePlaces({}) = {}
    BY DEF BridgePlaces
  <1>2. Finds(w, {})[n][q] \in GuestAnswers(w)[n][q]
    BY <1>1, FoundIsAnswer
  <1>3. ASSUME ImagesOf(w, q.library) = {} PROVE FALSE
    <2>1. Below(w, q) = {}
      BY <1>3 DEF Below
    <2>2. Defined(w, q) = {}
      BY <1>3 DEF Defined
    <2> QED
      BY <1>2, <2>1, <2>2, AnswersHave
  <1> QED
    BY <1>2, <1>3

(* If a guest image answers, or the bridge, something is found.            *)
LEMMA AnswerIsFound ==
    ASSUME NEW w, WellFormed(w), NEW bridged \in SUBSET Symbols
    PROVE  \A n \in 0..MaxReexportDepth, q \in Queries :
               GuestAnswers(w)[n][q] # {} \/ q.symbol \in bridged => Finds(w, bridged)[n][q] # None
  <1> DEFINE Ok(n, q) == GuestAnswers(w)[n][q] # {} \/ q.symbol \in bridged => Finds(w, bridged)[n][q] # None
             X == {n \in 0..MaxReexportDepth : \A q \in Queries : Ok(n, q)}
  <1>1. ASSUME NEW n \in 0..MaxReexportDepth, NEW q \in Queries, n # 0 => \A p \in Queries : Ok(n - 1, p)
        PROVE  Ok(n, q)
    <2>1. q.symbol \in Symbols /\ Below(w, q) \subseteq Queries
      BY QueryType, BelowIs
    <2>2. q.symbol \in bridged => FromBridge(bridged, q.symbol) # None
      BY <2>1, FromBridgeIs
    <2>3. CASE q.library = Flat
      <3>1. GuestAnswers(w)[n][q] # {} => FirstExport(w, {}, q.symbol) # None
        <4>1. GuestAnswers(w)[n][q] # {} => Defined(w, q) # {}
          BY <2>3, AnswersHave, BelowIs
        <4> QED
          BY <2>1, <2>3, <4>1, FirstExportIs, BelowIs DEF Defined
      <3>2. FirstExport(w, bridged, q.symbol) = OrElse(FirstExport(w, {}, q.symbol), FromBridge(bridged, q.symbol))
        BY <2>1, FirstExportIs
      <3> QED
        BY <2>2, <2>3, <3>1, <3>2, FoundApart DEF OrElse
    <2>4. CASE q.library # Flat /\ ImageOf(w, q.library) = None
      <3>1. GuestAnswers(w)[n][q] = {}
        <4>1. Below(w, q) = {} /\ Defined(w, q) = {}
          BY <2>4, BelowIs DEF Defined
        <4> QED
          BY <4>1, AnswersHave
      <3> QED
        BY <2>2, <2>4, <3>1, FoundApart
    <2>5. CASE q.library # Flat /\ ImageOf(w, q.library) # None
      <3>1. CASE q.symbol \in w.exports[ImageOf(w, q.library)]
        BY <2>5, <3>1, FoundOwn
      <3>2. CASE q.symbol \notin w.exports[ImageOf(w, q.library)]
        <4>1. SUFFICES ASSUME Finds(w, bridged)[n][q] = None, GuestAnswers(w)[n][q] # {} \/ q.symbol \in bridged PROVE FALSE
          OBVIOUS
        <4>2. /\ FromBridge(bridged, q.symbol) = None
              /\ n # 0 => \A p \in Below(w, q) : ImagesOf(w, p.library) # {} => Finds(w, bridged)[n - 1][p] = None
          BY <2>5, <3>2, <4>1, FoundBelow
        <4>3. Defined(w, q) = {}
          BY <2>5, <3>2, BelowIs DEF Defined
        <4>4. n # 0 /\ \E p \in Below(w, q) : GuestAnswers(w)[n - 1][p] # {}
          BY <2>2, <4>1, <4>2, <4>3, AnswersHave
        <4>5. PICK p \in Below(w, q) : GuestAnswers(w)[n - 1][p] # {}
          BY <4>4
        <4>6. p \in Queries /\ Ok(n - 1, p) /\ n - 1 \in 0..MaxReexportDepth
          BY <1>1, <2>1, <4>4, <4>5, FindsAt
        <4>7. ImagesOf(w, p.library) # {}
          <5>1. ASSUME ImagesOf(w, p.library) = {} PROVE FALSE
            <6>1. Below(w, p) = {} /\ Defined(w, p) = {}
              BY <5>1 DEF Below, Defined
            <6> QED
              BY <4>5, <4>6, <6>1, AnswersHave
          <5> QED
            BY <5>1
        <4> QED
          BY <4>2, <4>4, <4>5, <4>6, <4>7
      <3> QED
        BY <3>1, <3>2
    <2> QED
      BY <2>3, <2>4, <2>5
  <1> HIDE DEF Ok
  <1>2. 0 \in X
    BY <1>1, LimitsAssumption
  <1>3. ASSUME NEW n \in 1..MaxReexportDepth, n - 1 \in X PROVE n \in X
    BY <1>1, <1>3, LimitsAssumption
  <1>4. \A n \in 0..MaxReexportDepth : n \in X
    <2> HIDE DEF X
    <2> QED
      BY <1>2, <1>3, LimitsAssumption, UpToBound
  <1> QED
    BY <1>4 DEF Ok

(* Names that go only to one another and are not bridged: the bridge       *)
(* library makes no difference.                                            *)
Closed(w, names) == \A i \in Range(w.images) : \A e \in w.sends[i] : e.name \in names => e.symbol \in names

LEMMA ClosedBelow ==
    ASSUME NEW w, WellFormed(w), NEW names, Closed(w, names), NEW q \in Queries, q.symbol \in names, NEW p \in Below(w, q)
    PROVE  p \in Queries /\ p.symbol \in names
  <1>1. /\ ImageOf(w, q.library) # None /\ ImageOf(w, q.library) \in Range(w.images)
        /\ p \in PassedOn(w, ImageOf(w, q.library), q.symbol)
    BY BelowIs, ImageOfType
  <1> QED
    BY <1>1, BelowIs, QueryType DEF PassedOn, Closed

LEMMA NotBridged ==
    ASSUME NEW w, WellFormed(w), NEW bridged \in SUBSET Symbols, NEW names, Closed(w, names), names \cap bridged = {}
    PROVE  \A n \in 0..MaxReexportDepth, q \in Queries :
               q.symbol \in names => Finds(w, bridged)[n][q] = Finds(w, {})[n][q]
  <1> DEFINE Ok(n, q) == q.symbol \in names => Finds(w, bridged)[n][q] = Finds(w, {})[n][q]
             X == {n \in 0..MaxReexportDepth : \A q \in Queries : Ok(n, q)}
  <1>1. ASSUME NEW n \in 0..MaxReexportDepth, NEW q \in Queries, n # 0 => \A p \in Queries : Ok(n - 1, p), q.symbol \in names
        PROVE  Finds(w, bridged)[n][q] = Finds(w, {})[n][q]
    <2>1. q.symbol \in Symbols /\ q.symbol \notin bridged /\ {} \in SUBSET Symbols
      BY <1>1, QueryType
    <2>2. FromBridge(bridged, q.symbol) = None /\ FromBridge({}, q.symbol) = None
      BY <2>1, FromBridgeIs
    <2>3. CASE q.library = Flat
      <3>1. FirstExport(w, bridged, q.symbol) = OrElse(FirstExport(w, {}, q.symbol), None)
        BY <2>1, <2>2, FirstExportIs
      <3>2. FirstExport(w, bridged, q.symbol) = FirstExport(w, {}, q.symbol)
        BY <3>1 DEF OrElse
      <3> QED
        BY <2>1, <2>3, <3>2, FoundApart
    <2>4. CASE q.library # Flat /\ ImageOf(w, q.library) = None
      BY <2>1, <2>2, <2>4, FoundApart
    <2>5. CASE q.library # Flat /\ ImageOf(w, q.library) # None
      <3>1. \A p \in PassedOn(w, ImageOf(w, q.library), q.symbol) : Deeper(w, bridged, n)[p] = Deeper(w, {}, n)[p]
        <4> SUFFICES ASSUME NEW p \in PassedOn(w, ImageOf(w, q.library), q.symbol)
                     PROVE  Deeper(w, bridged, n)[p] = Deeper(w, {}, n)[p]
          OBVIOUS
        <4>1. p \in Queries /\ p.symbol \in names
          BY <1>1, <2>5, BelowIs, ClosedBelow
        <4>2. CASE n = 0
          BY <4>2 DEF Deeper
        <4>3. CASE n # 0
          BY <1>1, <2>1, <4>1, <4>3, FindsAt
        <4> QED
          BY <4>2, <4>3
      <3>2. FindStep(w, bridged, Deeper(w, bridged, n), q) = FindStep(w, {}, Deeper(w, {}, n), q)
        BY <2>1, <2>2, <2>5, <3>1, StepSame
      <3> QED
        BY <2>1, <3>2, FindsAt
    <2> QED
      BY <2>3, <2>4, <2>5
  <1>2. ASSUME NEW n \in 0..MaxReexportDepth, NEW q \in Queries, n # 0 => \A p \in Queries : Ok(n - 1, p) PROVE Ok(n, q)
    BY <1>1, <1>2
  <1> HIDE DEF Ok
  <1>3. 0 \in X
    BY <1>2, LimitsAssumption
  <1>4. ASSUME NEW n \in 1..MaxReexportDepth, n - 1 \in X PROVE n \in X
    BY <1>2, <1>4, LimitsAssumption
  <1>5. \A n \in 0..MaxReexportDepth : n \in X
    <2> HIDE DEF X
    <2> QED
      BY <1>3, <1>4, LimitsAssumption, UpToBound
  <1> QED
    BY <1>5 DEF Ok

(* Names that no guest image defines.                                      *)
LEMMA NotGuest ==
    ASSUME NEW w, WellFormed(w), NEW names, Closed(w, names), \A j \in Range(w.images) : w.exports[j] \cap names = {}
    PROVE  \A n \in 0..MaxReexportDepth, q \in Queries : q.symbol \in names => GuestAnswers(w)[n][q] = {}
  <1> DEFINE Ok(n, q) == q.symbol \in names => GuestAnswers(w)[n][q] = {}
             X == {n \in 0..MaxReexportDepth : \A q \in Queries : Ok(n, q)}
  <1>1. ASSUME NEW n \in 0..MaxReexportDepth, NEW q \in Queries, n # 0 => \A p \in Queries : Ok(n - 1, p) PROVE Ok(n, q)
    <2> SUFFICES ASSUME q.symbol \in names, NEW a \in GuestAnswers(w)[n][q] PROVE FALSE
      OBVIOUS
    <2>1. Defined(w, q) = {}
      BY BelowIs DEF Defined
    <2>2. n # 0 /\ \E p \in Below(w, q) : a \in GuestAnswers(w)[n - 1][p]
      BY <2>1, AnswersHave
    <2> QED
      BY <1>1, <2>2, ClosedBelow
  <1> HIDE DEF Ok
  <1>3. 0 \in X
    BY <1>1, LimitsAssumption
  <1>4. ASSUME NEW n \in 1..MaxReexportDepth, n - 1 \in X PROVE n \in X
    BY <1>1, <1>4, LimitsAssumption
  <1>5. \A n \in 0..MaxReexportDepth : n \in X
    <2> HIDE DEF X
    <2> QED
      BY <1>3, <1>4, LimitsAssumption, UpToBound
  <1> QED
    BY <1>5 DEF Ok

(* What is found without the bridge library is found with it.              *)
LEMMA NotHidden ==
    ASSUME NEW w, WellFormed(w), NoneHidden(w), NEW bridged \in SUBSET Symbols, bridged \subseteq MayBridge(w)
    PROVE  \A n \in 0..MaxReexportDepth, q \in Queries :
               Finds(w, {})[n][q] # None => Finds(w, bridged)[n][q] = Finds(w, {})[n][q]
  <1> DEFINE Ok(n, q) == Finds(w, {})[n][q] # None => Finds(w, bridged)[n][q] = Finds(w, {})[n][q]
             X == {n \in 0..MaxReexportDepth : \A q \in Queries : Ok(n, q)}
  <1>1. ASSUME NEW n \in 0..MaxReexportDepth, NEW q \in Queries, n # 0 => \A p \in Queries : Ok(n - 1, p),
               Finds(w, {})[n][q] # None
        PROVE  Finds(w, bridged)[n][q] = Finds(w, {})[n][q]
    <2> DEFINE i == ImageOf(w, q.library)
               s == q.symbol
               names == {s} \cup Sent(w)
    <2>1. s \in Symbols /\ {} \in SUBSET Symbols /\ FromBridge({}, s) = None
      BY QueryType, FromBridgeIs
    <2>2. Closed(w, names) /\ s \in names
      BY DEF Closed, Sent
    <2>3. CASE q.library = Flat
      <3>1. /\ Finds(w, {})[n][q] = FirstExport(w, {}, s)
            /\ Finds(w, bridged)[n][q] = FirstExport(w, bridged, s)
        BY <2>1, <2>3, FoundApart
      <3>2. FirstExport(w, bridged, s) = OrElse(FirstExport(w, {}, s), FromBridge(bridged, s))
        BY <2>1, FirstExportIs
      <3> QED
        BY <1>1, <3>1, <3>2 DEF OrElse
    <2>4. CASE q.library # Flat /\ i = None
      BY <1>1, <2>1, <2>4, FoundApart
    <2>5. CASE q.library # Flat /\ i # None
      <3>1. CASE s \in w.exports[i]
        BY <2>1, <2>5, <3>1, FoundOwn
      <3>2. CASE s \notin w.exports[i]
        <4>1. i \in Range(w.images) /\ Below(w, q) = PassedOn(w, i, s) /\ Below(w, q) \subseteq Queries
          BY <2>5, ImageOfType, BelowIs
        <4>2. CASE \A p, r \in PassedOn(w, i, s) : p = r
          <5>1. n # 0 /\ \E p \in Below(w, q) : /\ Finds(w, {})[n - 1][p] # None
                                                /\ Finds(w, {})[n][q] = Finds(w, {})[n - 1][p]
            BY <1>1, <2>1, <2>5, <3>2, FoundBelow
          <5>2. PICK p \in Below(w, q) : Finds(w, {})[n - 1][p] # None /\ Finds(w, {})[n][q] = Finds(w, {})[n - 1][p]
            BY <5>1
          <5>3. p \in Queries /\ n - 1 \in 0..MaxReexportDepth
            BY <2>1, <4>1, <5>1, FindsAt
          <5>4. Finds(w, bridged)[n - 1][p] = Finds(w, {})[n - 1][p] /\ ImagesOf(w, p.library) # {}
            BY <1>1, <5>1, <5>2, <5>3, GuestFinds
          <5>5. \E r \in Below(w, q) : Finds(w, bridged)[n][q] = Finds(w, bridged)[n - 1][r]
            BY <2>5, <3>2, <5>1, <5>2, <5>4, FoundBelow
          <5> QED
            BY <4>1, <4>2, <5>2, <5>4, <5>5
        <4>3. CASE MayBridge(w) \cap names = {}
          <5>1. names \cap bridged = {}
            BY <4>3
          <5> HIDE DEF names
          <5> QED
            BY <2>2, <5>1, NotBridged
        <4>4. CASE \A j \in Range(w.images) : w.exports[j] \cap names = {}
          <5> HIDE DEF names
          <5>1. GuestAnswers(w)[n][q] = {}
            BY <2>2, <4>4, NotGuest
          <5> QED
            BY <1>1, <5>1, GuestFinds
        <4> QED
          BY <2>1, <4>1, <4>2, <4>3, <4>4 DEF NoneHidden
      <3> QED
        BY <3>1, <3>2
    <2> QED
      BY <2>3, <2>4, <2>5
  <1>2. ASSUME NEW n \in 0..MaxReexportDepth, NEW q \in Queries, n # 0 => \A p \in Queries : Ok(n - 1, p) PROVE Ok(n, q)
    BY <1>1, <1>2
  <1> HIDE DEF Ok
  <1>3. 0 \in X
    BY <1>2, LimitsAssumption
  <1>4. ASSUME NEW n \in 1..MaxReexportDepth, n - 1 \in X PROVE n \in X
    BY <1>2, <1>4, LimitsAssumption
  <1>5. \A n \in 0..MaxReexportDepth : n \in X
    <2> HIDE DEF X
    <2> QED
      BY <1>3, <1>4, LimitsAssumption, UpToBound
  <1> QED
    BY <1>5 DEF Ok

----------------------------------------------------------------------------
(* The chains of superclasses that objc.cpp follows.                       *)

EndsStep(w, bridged, below) ==
    {s \in {Super(w, bridged, k) : k \in w.classes} :
        \/ s.kind = "null"
        \/ /\ s.kind = "local" /\ ClassAt(w, s.at) # {}
           /\ Super(w, bridged, CHOOSE k \in ClassAt(w, s.at) : TRUE) \in below}

EndsRec(w, bridged, f) == f = [m \in 0..MaxClassDepth |-> IF m = 0 THEN {} ELSE EndsStep(w, bridged, f[m - 1])]

LEMMA EndsExist ==
    ASSUME NEW w, NEW bridged
    PROVE  \E f : EndsRec(w, bridged, f)
  <1> DEFINE N == MaxClassDepth
             T == SUBSET {Super(w, bridged, k) : k \in w.classes}
             F == [g \in T |-> EndsStep(w, bridged, g)]
  <1>1. {} \in T /\ F \in [T -> T] /\ N \in Nat
    BY LimitsAssumption DEF EndsStep
  <1>2. ASSUME NEW f \in [0..N -> T], f[0] = {}, \A n \in 1..N : f[n] = F[f[n - 1]]
        PROVE  EndsRec(w, bridged, f)
    <2>1. ASSUME NEW n \in 0..N, n # 0 PROVE f[n] = EndsStep(w, bridged, f[n - 1])
      <3>1. n \in 1..N /\ f[n - 1] \in T
        BY <1>1, <2>1
      <3> QED
        BY <1>2, <3>1
    <2> QED
      BY <1>2, <2>1 DEF EndsRec
  <1> HIDE DEF N, T, F
  <1>3. PICK f : Iterates(f, T, {}, F, N)
    BY <1>1, Iteration
  <1> QED
    BY <1>2, <1>3 DEF Iterates

LEMMA EndsIs ==
    ASSUME NEW w, NEW bridged
    PROVE  /\ Ends(w, bridged, 0) = {}
           /\ \A n \in 1..MaxClassDepth : Ends(w, bridged, n) = EndsStep(w, bridged, Ends(w, bridged, n - 1))
  <1> DEFINE f == CHOOSE f : EndsRec(w, bridged, f)
  <1>1. EndsRec(w, bridged, f)
    BY EndsExist
  <1>2. \A n : Ends(w, bridged, n) = f[n]
    BY DEF Ends, EndsRec, EndsStep
  <1> HIDE DEF f
  <1>3. f = [m \in 0..MaxClassDepth |-> IF m = 0 THEN {} ELSE EndsStep(w, bridged, f[m - 1])]
    BY <1>1 DEF EndsRec
  <1>4. 0 \in 0..MaxClassDepth /\ \A n \in 1..MaxClassDepth : n \in 0..MaxClassDepth /\ n # 0
    BY LimitsAssumption
  <1>5. f[0] = {} /\ \A n \in 1..MaxClassDepth : f[n] = EndsStep(w, bridged, f[n - 1])
    BY <1>3, <1>4
  <1> QED
    BY <1>2, <1>5

(* The class at an address.                                                *)
LEMMA TheClassAt ==
    ASSUME NEW w, WellFormed(w), NEW k \in w.classes
    PROVE  ClassAt(w, k.address) # {} /\ (CHOOSE c \in ClassAt(w, k.address) : TRUE) = k
  <1>1. ClassAt(w, k.address) = {k}
    BY DEF ClassAt, WellFormed
  <1> QED
    BY <1>1

(* A superclass that a guest image defines is the same in both passes; any *)
(* other is no class of the guest's in either.                             *)
LEMMA SuperSame ==
    ASSUME NEW w, WellFormed(w), NoneHidden(w), NEW bridged \in SUBSET Symbols, bridged \subseteq MayBridge(w),
           NEW k \in w.classes
    PROVE  \/ Super(w, bridged, k) = Super(w, {}, k)
           \/ /\ Super(w, {}, k).kind = "import"
              /\ Super(w, bridged, k).kind = "local" /\ ClassAt(w, Super(w, bridged, k).at) = {}
  <1> DEFINE p == k.super
             q == Query(p.library, p.symbol)
             to == Find(w, bridged, p.library, p.symbol)
             to0 == Find(w, {}, p.library, p.symbol)
             N == MaxReexportDepth
  <1>1. CASE ~ (k.listed /\ p.kind = "import")
    BY <1>1 DEF Super, ResolveGuestImport
  <1>2. CASE k.listed /\ p.kind = "import"
    <2>1. q \in Queries /\ N \in 0..N /\ {} \in SUBSET Symbols
      BY <1>2, QueryType, LimitsAssumption DEF WellFormed
    <2>2. to = Finds(w, bridged)[N][q] /\ to0 = Finds(w, {})[N][q]
      BY FindIs
    <2>3. /\ Super(w, bridged, k) = IF to = None THEN p ELSE [kind |-> "local", at |-> to]
          /\ Super(w, {}, k) = IF to0 = None THEN p ELSE [kind |-> "local", at |-> to0]
      BY <1>2 DEF Super, ResolveGuestImport
    <2> HIDE DEF to, to0, q, N
    <2>4. CASE to0 # None
      <3>1. to = to0
        BY <2>1, <2>2, <2>4, NotHidden DEF N
      <3> QED
        BY <2>3, <3>1
    <2>5. CASE to0 = None /\ to = None
      BY <2>3, <2>5
    <2>6. CASE to0 = None /\ to # None
      <3>1. GuestAnswers(w)[N][q] = {}
        BY <2>1, <2>2, <2>6, AnswerIsFound DEF N
      <3>2. to \in BridgePlaces(bridged)
        BY <2>1, <2>2, <2>6, <3>1, FoundIsAnswer DEF N
      <3>3. to.image = Bridge
        BY <3>2 DEF BridgePlaces, Address
      <3>4. ClassAt(w, to) = {}
        BY <3>3, ImageFacts DEF ClassAt, WellFormed
      <3> QED
        BY <1>2, <2>3, <2>6, <3>4
    <2> QED
      BY <2>4, <2>5, <2>6
  <1> QED
    BY <1>1, <1>2

(* The two passes split the classes in the same way.                       *)
LEMMA KeptSame ==
    ASSUME NEW w, WellFormed(w), NoneHidden(w), NEW bridged \in SUBSET Symbols, bridged \subseteq MayBridge(w)
    PROVE  Kept(w, bridged) = Kept(w, {})
  <1> DEFINE Ok(n, k) == Super(w, bridged, k) \in Ends(w, bridged, n) <=> Super(w, {}, k) \in Ends(w, {}, n)
             X == {n \in 0..MaxClassDepth : \A k \in w.classes : Ok(n, k)}
  <1>1. 0 \in X
    BY EndsIs, LimitsAssumption
  <1>2. ASSUME NEW n \in 1..MaxClassDepth, n - 1 \in X, NEW k \in w.classes PROVE Ok(n, k)
    <2> DEFINE p == Super(w, bridged, k)
               p0 == Super(w, {}, k)
               Up(b, s) == Super(w, b, CHOOSE c \in ClassAt(w, s.at) : TRUE)
    <2>1. \A b : Ends(w, b, n) = EndsStep(w, b, Ends(w, b, n - 1))
      BY EndsIs
    <2>2. \A b : Super(w, b, k) \in Ends(w, b, n) <=>
                     \/ Super(w, b, k).kind = "null"
                     \/ /\ Super(w, b, k).kind = "local" /\ ClassAt(w, Super(w, b, k).at) # {}
                        /\ Up(b, Super(w, b, k)) \in Ends(w, b, n - 1)
      BY <2>1 DEF EndsStep
    <2>3. CASE p = p0
      <3>1. ASSUME ClassAt(w, p.at) # {} PROVE Up(bridged, p) \in Ends(w, bridged, n - 1) <=> Up({}, p) \in Ends(w, {}, n - 1)
        <4> DEFINE c == CHOOSE c \in ClassAt(w, p.at) : TRUE
        <4>1. c \in w.classes
          BY <3>1 DEF ClassAt
        <4>2. Ok(n - 1, c)
          BY <1>2, <4>1
        <4> QED
          BY <4>2
      <3> HIDE DEF Up
      <3> QED
        BY <2>2, <2>3, <3>1
    <2>4. CASE p0.kind = "import" /\ p.kind = "local" /\ ClassAt(w, p.at) = {}
      <3> HIDE DEF Up
      <3> QED
        BY <2>2, <2>4
    <2> QED
      BY <2>3, <2>4, SuperSame
  <1>3. ASSUME NEW n \in 1..MaxClassDepth, n - 1 \in X PROVE n \in X
    BY <1>2, <1>3, LimitsAssumption
  <1>4. MaxClassDepth \in X
    <2> HIDE DEF X
    <2> QED
      BY <1>1, <1>3, LimitsAssumption, UpToBound
  <1>5. \A k \in w.classes : GuestOnly(w, bridged, k) <=> GuestOnly(w, {}, k)
    BY <1>4 DEF GuestOnly
  <1> QED
    BY <1>5 DEF Kept, Moved

----------------------------------------------------------------------------
(* What the passes hand to one another.                                    *)

(* Host data and classes that the lift binds as they are.                  *)
HostData == {s \in Asked \ Provided : input.host[s] \in {"class", "data"}}

PassInv ==
    /\ pc \notin {"idle", "manifest"} => resolved = WriteResolved(input)
    /\ pc \notin {"idle", "manifest", "bridges"} => exported = input.support \cup Bridged /\ passthrough = HostData
    /\ pc = "layout" => ~ SplitRefused(input, exported)

LEMMA SameLists ==
    ASSUME input' = input, resolved' = resolved
    PROVE  Bridged' = Bridged /\ HostData' = HostData
  BY DEF Bridged, HostData, Asked, Provided, WeakOnly, Listed, WeakAbsent, Imports

LEMMA PassNext == PassInv /\ [Next]_vars => PassInv'
  <1> SUFFICES ASSUME PassInv, [Next]_vars PROVE PassInv'
    OBVIOUS
  <1>1. CASE Manifest
    BY <1>1 DEF Manifest, PassInv
  <1>2. CASE Bridges
    <2>1. /\ pc = "bridges" /\ pc' = "cache" /\ input' = input /\ resolved' = resolved
          /\ exported' = input.support \cup Bridged /\ passthrough' = HostData
      BY <1>2 DEF Bridges, HostData
    <2> QED
      BY <2>1, SameLists DEF PassInv
  <1>3. CASE Lift
    <2>1. /\ pc = "lift" /\ pc' = "layout" /\ UNCHANGED <<input, resolved, exported, passthrough>>
          /\ ~ SplitRefused(input, exported)
      BY <1>3 DEF Lift
    <2> QED
      BY <2>1, SameLists DEF PassInv
  <1>4. CASE UNCHANGED <<input, resolved, exported, passthrough>> /\ (pc' = pc \/ pc \notin {"idle", "manifest", "bridges"}) /\ (pc' = "layout" => pc = "layout")
    BY <1>4, SameLists DEF PassInv
  <1>5. CASE pc' \in {"idle", "manifest"}
    BY <1>5 DEF PassInv
  <1> QED
    BY <1>1, <1>2, <1>3, <1>4, <1>5 DEF Next, vars, files, Edit, Start, Stop, Cut, Reuse, DropStamp,
       WriteLayout, WriteStateHeader, Compile, WriteList, WriteStamp, Link

LEMMA PassInvariance == Spec => []PassInv
  <1>1. Init => PassInv
    BY DEF Init, PassInv
  <1> QED
    BY <1>1, PassNext, PTL DEF Spec

(* After the bridges, for every bind.                                      *)
LEMMA InputKnown ==
    ASSUME IInv
    PROVE  input \in UNION Projects /\ WellFormed(input) /\ exported \in SUBSET Symbols
  BY ProjectsAssumption DEF IInv, InputInv

LEMMA ExportedMayBridge ==
    ASSUME IInv, PassInv, pc \notin {"idle", "manifest", "bridges"}
    PROVE  exported \subseteq MayBridge(input)
  <1>1. resolved = WriteResolved(input) /\ exported = input.support \cup Bridged /\ exported \subseteq Symbols
    BY InputKnown DEF PassInv
  <1>2. Bridged \cap resolved = {}
    BY DEF Bridged, Provided
  <1> QED
    BY <1>1, <1>2 DEF MayBridge

LEMMA BindQuery ==
    ASSUME NEW w, WellFormed(w), NEW b \in w.binds
    PROVE  /\ Query(BindLibrary(w, b), b.symbol) \in Queries /\ b.symbol \in Symbols
           /\ MaxReexportDepth \in 0..MaxReexportDepth /\ {} \in SUBSET Symbols
  <1>1. b.image \in Range(w.images) /\ b.symbol \in Symbols
    BY DEF WellFormed
  <1>2. BindLibrary(w, b) \in Libraries
    BY <1>1, LibraryType, LimitsAssumption DEF BindLibrary, StubLibrary, FixupLibrary
  <1> QED
    BY <1>1, <1>2, QueryType, LimitsAssumption

(* What the manifest pass leaves to the host is enough: an unresolved bind *)
(* that is needed names data that has no bridge (xlate.cpp 195-226,        *)
(* 175-190), if only functions are called through stubs and no name that   *)
(* an image from a shared cache needs is taken for imported weakly alone   *)
(* (translate.sh 60-69).                                                   *)
THEOREM NothingIsLeftOutHolds ==
    ASSUME \A w \in UNION Projects : StubsAreCalls(w) /\ StrongIsSeen(w)
    PROVE  Spec => []NothingIsLeftOut
  <1>1. IInv /\ PassInv => NothingIsLeftOut
    <2> SUFFICES ASSUME IInv, PassInv, pc = "lift", NEW b \in Unresolved(input, exported, passthrough)
                 PROVE  input.host[b.symbol] = "opaque"
      BY DEF NothingIsLeftOut
    <2> DEFINE s == b.symbol
               l == BindLibrary(input, b)
               q == Query(l, s)
    <2>1. /\ b \in input.binds /\ ~ b.weak
          /\ Slot(input, exported, passthrough, b) = None \/ (b.stub /\ Find(input, exported, l, s) = None)
      BY DEF Unresolved
    <2>2. input \in UNION Projects /\ WellFormed(input) /\ exported \in SUBSET Symbols
      BY InputKnown
    <2>3. q \in Queries /\ s \in Symbols /\ MaxReexportDepth \in 0..MaxReexportDepth /\ {} \in SUBSET Symbols
      BY <2>1, <2>2, BindQuery
    <2>4. Find(input, exported, l, s) = None
      BY <2>1 DEF Slot
    <2>5. Finds(input, exported)[MaxReexportDepth][q] = None
      BY <2>4, FindIs
    <2>6. s \notin exported /\ GuestAnswers(input)[MaxReexportDepth][q] = {}
      BY <2>2, <2>3, <2>5, AnswerIsFound, QueryType
    <2>7. Find(input, {}, l, s) = None
      BY <2>2, <2>3, <2>6, GuestFinds, FindIs
    <2>8. /\ resolved = WriteResolved(input) /\ exported = input.support \cup Bridged /\ passthrough = HostData
      BY DEF PassInv
    <2>9. s \notin resolved
      <3>1. [symbol |-> s, to |-> None] \in Noted(input)
        BY <2>1, <2>7 DEF Noted
      <3> QED
        BY <2>8, <3>1 DEF WriteResolved
    <2>10. s \in Asked \ Provided /\ s \notin WeakOnly(input)
      <3>1. s \in Imports /\ s \notin WeakOnly(input)
        BY <2>1, <2>2 DEF Imports, StrongIsSeen
      <3> QED
        BY <2>6, <2>8, <2>9, <3>1 DEF Asked, WeakAbsent, Provided
    <2>11. input.host[s] \notin {"function", "variable", "absent", "unsupported"}
      BY <2>6, <2>8, <2>10 DEF Bridged
    <2>12. input.host[s] \notin {"class", "data"}
      <3>1. ASSUME input.host[s] \in {"class", "data"} PROVE FALSE
        <4>1. s \in passthrough
          BY <2>8, <2>10, <3>1 DEF HostData
        <4>2. Slot(input, exported, passthrough, b) = Address("host", s)
          BY <2>4, <4>1 DEF Slot
        <4>3. Address("host", s) # None
          BY <2>2, <2>3 DEF Address, WellFormed
        <4>4. b.stub
          BY <2>1, <4>2, <4>3
        <4> QED
          BY <2>1, <2>2, <3>1, <4>4 DEF StubsAreCalls
      <3> QED
        BY <3>1
    <2>13. input.host[s] \in {"function", "variable", "class", "data", "unsupported", "absent", "opaque"}
      BY <2>2, <2>3 DEF WellFormed
    <2> QED
      BY <2>11, <2>12, <2>13
  <1> QED
    BY <1>1, Invariance, PassInvariance, PTL

(* A bind takes the export of the guest image its library is, or of one    *)
(* it re-exports, never that of another; the bridge answers only what they *)
(* do not (exports.cpp 78-129), if no image passes a bridged name on to    *)
(* more than one library.                                                  *)
THEOREM BindsTakeTheirLibraryHolds ==
    ASSUME \A w \in UNION Projects : NoneHidden(w)
    PROVE  Spec => []BindsTakeTheirLibrary
  <1>1. IInv /\ PassInv => BindsTakeTheirLibrary
    <2> SUFFICES ASSUME IInv, PassInv, pc = "layout", NEW b \in input.binds
                 PROVE  LET slot == Slot(input, exported, passthrough, b)
                            answers == Answers(input, BindLibrary(input, b), b.symbol)
                        IN  IF answers # {} THEN slot \in answers
                            ELSE slot = None \/ slot.image \in {Bridge, "host"}
      BY DEF BindsTakeTheirLibrary
    <2> DEFINE slot == Slot(input, exported, passthrough, b)
               l == BindLibrary(input, b)
               q == Query(l, b.symbol)
               N == MaxReexportDepth
               to == Find(input, exported, l, b.symbol)
               answers == Answers(input, l, b.symbol)
    <2>1. input \in UNION Projects /\ WellFormed(input) /\ exported \in SUBSET Symbols /\ NoneHidden(input)
      BY InputKnown
    <2>2. q \in Queries /\ N \in 0..N /\ {} \in SUBSET Symbols
      BY <2>1, BindQuery
    <2>3. exported \subseteq MayBridge(input)
      BY ExportedMayBridge
    <2>4. to = Finds(input, exported)[N][q] /\ answers = GuestAnswers(input)[N][q]
      BY FindIs, AnswersIs
    <2>5. slot = IF to # None THEN to ELSE IF b.symbol \in passthrough THEN Address("host", b.symbol) ELSE None
      BY DEF Slot
    <2> HIDE DEF slot, to, answers, q, N
    <2>6. CASE answers # {}
      <3>1. Finds(input, {})[N][q] # None
        BY <2>1, <2>2, <2>4, <2>6, AnswerIsFound DEF N
      <3>2. to = Finds(input, {})[N][q]
        BY <2>1, <2>2, <2>3, <2>4, <3>1, NotHidden DEF N
      <3>3. to \in answers
        BY <2>1, <2>2, <2>4, <3>1, <3>2, GuestFinds DEF N
      <3> QED
        BY <2>5, <2>6, <3>1, <3>2, <3>3 DEF slot, answers
    <2>7. CASE answers = {}
      <3>1. to = None \/ to \in BridgePlaces(exported)
        BY <2>1, <2>2, <2>4, <2>7, FoundIsAnswer DEF N
      <3>2. to = None \/ to.image = Bridge
        BY <3>1 DEF BridgePlaces, Address
      <3>3. Address("host", b.symbol).image = "host"
        BY DEF Address
      <3> QED
        BY <2>5, <2>7, <3>2, <3>3 DEF slot, answers
    <2> QED
      BY <2>6, <2>7
  <1> QED
    BY <1>1, Invariance, PassInvariance, PTL

(* A name that every image imports weakly, one of them by its table of     *)
(* binds, that the host does not have and that no guest image defines,     *)
(* stays unbound (translate.sh 66-69, xlgen.cpp 1328-1334).                *)
THEOREM WeakStaysUnboundHolds == Spec => []WeakStaysUnbound
  <1>1. IInv /\ PassInv => WeakStaysUnbound
    <2> SUFFICES ASSUME IInv, PassInv, pc = "layout", NEW b \in input.binds,
                        \A c \in input.binds : c.symbol = b.symbol => c.weak,
                        \E c \in input.binds : c.symbol = b.symbol /\ c.image \notin input.unread,
                        b.symbol \notin input.needs \cup input.support,
                        input.host[b.symbol] \in {"unsupported", "absent"},
                        Answers(input, BindLibrary(input, b), b.symbol) = {},
                        \A i \in Range(input.images) : \A e \in input.sends[i] : e.name # b.symbol
                 PROVE  Slot(input, exported, passthrough, b) = None
      BY DEF WeakStaysUnbound
    <2> DEFINE l == BindLibrary(input, b)
               s == b.symbol
               q == Query(l, s)
    <2>1. WellFormed(input) /\ exported \in SUBSET Symbols
      BY InputKnown
    <2>2. q \in Queries /\ q.symbol = s /\ MaxReexportDepth \in 0..MaxReexportDepth /\ {} \in SUBSET Symbols
      BY <2>1, BindQuery, QueryType
    <2>3. exported = input.support \cup Bridged /\ passthrough = HostData
      BY DEF PassInv
    <2>4. s \in WeakOnly(input)
      <3>1. PICK c \in input.binds : c.symbol = s /\ c.image \notin input.unread /\ c.weak = TRUE
        BY <2>1 DEF WellFormed
      <3>2. s \in Listed(input, TRUE)
        BY <3>1 DEF Listed
      <3>3. s \notin Listed(input, FALSE)
        BY DEF Listed
      <3> QED
        BY <3>2, <3>3 DEF WeakOnly
    <2>5. s \notin exported /\ s \notin passthrough
      <3>1. s \notin Bridged
        BY <2>4 DEF Bridged, Asked, WeakAbsent
      <3> QED
        BY <2>3, <3>1 DEF HostData
    <2>6. Closed(input, {s}) /\ {s} \cap exported = {}
      BY <2>5 DEF Closed
    <2>7. Finds(input, exported)[MaxReexportDepth][q] = Finds(input, {})[MaxReexportDepth][q]
      <3> DEFINE names == {s}
      <3>1. Closed(input, names) /\ names \cap exported = {} /\ q.symbol \in names
        BY <2>2, <2>6
      <3> HIDE DEF names, q
      <3> QED
        BY <2>1, <2>2, <3>1, NotBridged
    <2>8. Finds(input, {})[MaxReexportDepth][q] = None
      BY <2>1, <2>2, GuestFinds, AnswersIs
    <2>9. Find(input, exported, l, s) = None
      BY <2>7, <2>8, FindIs
    <2> QED
      BY <2>5, <2>9 DEF Slot
  <1> QED
    BY <1>1, Invariance, PassInvariance, PTL

(* A class at host layout has no superclass in the guest's (objc.cpp       *)
(* 415-487), if the classes that only __objc_clsrolist names import no     *)
(* superclass, from the host or from another guest image, the chain ends   *)
(* above them, and they have Swift subclasses only.                        *)
THEOREM LayoutsDoNotMixHolds ==
    ASSUME \A w \in UNION Projects : \A bridged \in SUBSET Symbols : UnlistedEndLocally(w, bridged)
    PROVE  Spec => []LayoutsDoNotMix
  <1>1. IInv /\ PassInv => LayoutsDoNotMix
    <2> SUFFICES ASSUME IInv, PassInv, pc = "layout", NEW c \in Kept(input, exported), NEW k \in input.classes,
                        Super(input, exported, c) = [kind |-> "local", at |-> k.address]
                 PROVE  k \in Kept(input, exported)
      BY DEF LayoutsDoNotMix
    <2> DEFINE up == Super(input, exported, c)
    <2>1. WellFormed(input) /\ UnlistedEndLocally(input, exported)
      BY InputKnown
    <2>2. c \in input.classes /\ c.listed /\ c \notin Moved(input, exported)
      BY DEF Kept
    <2>3. k \notin Moved(input, exported)
      BY DEF PassInv, SplitRefused
    <2>4. ASSUME ~ k.listed PROVE FALSE
      <3>1. c.swift /\ k.super \in Ends(input, exported, MaxClassDepth - 1)
        BY <2>1, <2>2, <2>4 DEF UnlistedEndLocally
      <3>2. ClassAt(input, k.address) # {} /\ (CHOOSE x \in ClassAt(input, k.address) : TRUE) = k
        BY <2>1, TheClassAt
      <3>3. Super(input, exported, k) = k.super
        BY <2>4 DEF Super
      <3>4. up.kind = "local" /\ up.at = k.address
        OBVIOUS
      <3>5. up \in EndsStep(input, exported, Ends(input, exported, MaxClassDepth - 1))
        BY <2>2, <3>1, <3>2, <3>3, <3>4 DEF EndsStep
      <3>6. MaxClassDepth \in 1..MaxClassDepth
        BY LimitsAssumption
      <3>7. GuestOnly(input, exported, c)
        BY <3>5, <3>6, EndsIs DEF GuestOnly
      <3> QED
        BY <2>2, <3>1, <3>7 DEF Moved
    <2> QED
      BY <2>3, <2>4 DEF Kept
  <1> QED
    BY <1>1, Invariance, PassInvariance, PTL

(* Code, linker arguments, register offsets and class metadata of a binary *)
(* come from one complete lift (translate.sh 122-127, 180-181), if no      *)
(* image passes a bridged name on to more than one library: the two passes *)
(* of xlate then split the classes in the same way.                        *)
THEOREM BinaryIsConsistentHolds ==
    ASSUME \A w \in UNION Projects : NoneHidden(w)
    PROVE  Spec => []BinaryIsConsistent
  <1>1. Init => BinaryIsConsistent
    BY DEF Init, BinaryIsConsistent
  <1>2. IInv /\ PassInv /\ BinaryIsConsistent /\ [Next]_vars => BinaryIsConsistent'
    <2> SUFFICES ASSUME IInv, PassInv, BinaryIsConsistent, [Next]_vars PROVE BinaryIsConsistent'
      OBVIOUS
    <2>1. CASE Link
      <3>1. LiftKey # None /\ LiftKey.input = input /\ LiftKey.exported = exported
        BY KeyType DEF LiftKey
      <3>2. Kept(input, exported) = Kept(input, {})
        <4>1. pc \notin {"idle", "manifest", "bridges"}
          BY <2>1 DEF Link
        <4> QED
          BY <4>1, InputKnown, ExportedMayBridge, KeptSame
      <3>3. /\ binary'.code = LiftKey /\ binary'.layout = LiftKey /\ binary'.header = LiftKey
            /\ binary'.classes = Kept(input, {})
        BY <2>1, Linked
      <3> HIDE DEF LiftKey
      <3> QED
        BY <3>1, <3>2, <3>3 DEF BinaryIsConsistent
    <2>2. CASE Cut
      BY <2>2 DEF Cut, BinaryIsConsistent
    <2>3. CASE binary' = binary
      BY <2>3 DEF BinaryIsConsistent
    <2> QED
      BY <2>1, <2>2, <2>3 DEF Next, Edit, Start, Stop, Manifest, Bridges, Reuse, DropStamp, Lift, WriteLayout,
         WriteStateHeader, Compile, WriteList, WriteStamp, files, vars
  <1> QED
    BY <1>1, <1>2, Invariance, PassInvariance, PTL DEF Spec
=============================================================================
