----------------------------- MODULE MCProcess ------------------------------
(* Instances of Process for TLC: every small hierarchy of classes with a   *)
(* guest that does nothing, and one without classes whose guest does       *)
(* anything.                                                               *)
EXTENDS Process

CONSTANTS MaxActs, MaxActsFlagged

Ivar(at, readonly, known) == [at |-> at, width |-> 2, known |-> known, readonly |-> readonly]

(* An app over a library with static initializers and thread-locals.       *)
Images ==
    <<[name |-> "app", inits |-> <<TRUE, FALSE>>, variables |-> {0, 1}, data |-> 1, bss |-> 1],
      [name |-> "lib", inits |-> <<TRUE>>, variables |-> {}, data |-> 0, bss |-> 0]>>

(* What ProcessProofs asks of the images, of both parts of Init.            *)
ASSUME ImagesAssumption == RegionsOK(Images) /\ RegionsOK(<<>>)

NoClasses == [classes |-> <<>>, host |-> <<>>, table |-> <<>>]

(* Base over Super over a host class, the guest's root or nothing known;   *)
(* each part of an instance follows the other.  arm64 sizes of the host's  *)
(* class and its sizes here are independent.                               *)
Host == [kind |-> "import", class |-> "H"]
Local(c) == [kind |-> "local", class |-> c]
Class(super, start, ivars, slid) ==
    [super |-> super, start |-> start, size |-> start + 2 * Len(ivars), ivars |-> ivars, slid |-> slid]
Ivars(start, n, readonly, known) == [i \in 1..n |-> Ivar(start + 2 * (i - 1), readonly, known)]

Hierarchies ==
    {[classes |-> [Super |-> Class(s, a, Ivars(a, n, r, known), slid),
                   Sub |-> Class(Local("Super"), a + 2 * n, Ivars(a + 2 * n, m, r, TRUE), slid)],
      host |-> [H |-> h], table |-> t] :
        s \in {Host, Local("Elsewhere"), [kind |-> "null"]}, a \in {0, 2, 4}, n, m \in 0..2,
        r, known \in BOOLEAN, slid \in {0, 1, 3}, h \in {0, 1, 3, 6},
        t \in {<<"Super", "Sub">>, <<"Sub", "Super">>, <<"Sub">>}}

(* A root starts at zero and its variables are known; the runtime moves no *)
(* root, and no class whose offsets it cannot write.                       *)
Built(w) ==
    LET super == w.classes["Super"] IN
    /\ (super.start = 0) <=> (super.super.kind = "null")
    /\ super.start = 0 => super.slid = 0 /\ \A i \in DOMAIN super.ivars : super.ivars[i].known
    /\ super.slid # 0 => \A c \in DOMAIN w.classes : \A i \in DOMAIN w.classes[c].ivars : ~ w.classes[c].ivars[i].readonly

(* What ProcessProofs asks of the classes.                                 *)
ASSUME ClassesAssumption ==
    \A w \in {v \in Hierarchies : Built(v)} : LayoutsOK(w.classes, w.host, w.table)

Init ==
    \/ \E w \in {v \in Hierarchies : Built(v)} :
        LayoutInit(w.classes, w.host, w.table) /\ ProcessInit(<<>>, FALSE, 0)
    \/ /\ LayoutInit(NoClasses.classes, NoClasses.host, NoClasses.table)
       /\ \/ ProcessInit(Images, FALSE, MaxActs)
          \/ ProcessInit(Images, TRUE, MaxActsFlagged)

Spec == Init /\ [][Next]_vars /\ Fairness
=============================================================================
