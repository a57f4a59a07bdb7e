---------------------------- MODULE MCTranslate ----------------------------
(* Instances of Translate for TLC.  The guest is an app and the libraries  *)
(* A, B and C; sys is a library of the host.  f and g are names, K a class. *)
EXTENDS Translate

Names == {"A", "B", "C", "sys", Flat}
SymbolSet == {"f", "g", "K"}

Plain ==
    [images |-> <<"app", "A", "B", "C">>,
     install |-> [app |-> Flat, A |-> "A", B |-> "B", C |-> "C"],
     dylibs |-> [app |-> <<"A", "B", "sys">>, A |-> <<"C", "B">>, B |-> <<"sys">>, C |-> <<>>],
     exports |-> [app |-> {}, A |-> {}, B |-> {}, C |-> {}],
     sends |-> [app |-> {}, A |-> {}, B |-> {}, C |-> {}],
     whole |-> [app |-> <<>>, A |-> <<>>, B |-> <<>>, C |-> <<>>],
     binds |-> {}, unread |-> {}, needs |-> {}, replaces |-> {}, classes |-> {}, extends |-> {},
     host |-> [f |-> "function", g |-> "function", K |-> "class"],
     support |-> {}, fits |-> TRUE]

Bind(i, o, s, w, stub) == [image |-> i, ordinal |-> o, symbol |-> s, weak |-> w, stub |-> stub, named |-> TRUE]

(* The app binds f; A and B may define it, A may re-export it, B may bind  *)
(* it to the host.                                                         *)
Shapes ==
    {[a |-> a, b |-> b, whole |-> o, send |-> {}] : a, b \in SUBSET {"f"}, o \in {<<>>, <<"B">>, <<"C", "B">>}} \cup
    {[a |-> a, b |-> {"g"}, whole |-> <<>>, send |-> {[name |-> "f", ordinal |-> 2, symbol |-> "g"]}] : a \in SUBSET {"f"}}

(* What B binds f to, if it does: the host's, weakly or not, or its own.   *)
Others == {{}, {[ordinal |-> 1, weak |-> FALSE]}, {[ordinal |-> 1, weak |-> TRUE]}, {[ordinal |-> 0, weak |-> FALSE]}}

(* Ordinary inputs, B for a library of the system's, B out of a shared     *)
(* cache, and then a support object that imports f as well.                *)
Origins ==
    {[unread |-> {}, needs |-> {}, replaces |-> {}],
     [unread |-> {}, needs |-> {}, replaces |-> {[library |-> "sys", image |-> "B"]}],
     [unread |-> {"B"}, needs |-> {}, replaces |-> {}],
     [unread |-> {"B"}, needs |-> {"f"}, replaces |-> {}]}

NameWorlds ==
    {[Plain EXCEPT
        !.exports.A = x.a, !.exports.B = x.b, !.whole.A = x.whole, !.sends.A = x.send,
        !.binds = {Bind("app", o, "f", w, h # "data")} \cup {Bind("B", v.ordinal, "f", v.weak, h # "data") : v \in other},
        !.unread = u.unread, !.needs = u.needs, !.replaces = u.replaces, !.host.f = h] :
        x \in Shapes, o \in 1..4, w \in BOOLEAN,
        h \in {"function", "data", "unsupported", "absent", "opaque"}, other \in Others, u \in Origins}

(* If A re-exports two libraries no image binds f to the host; only a      *)
(* library that defines f binds its own; an image out of a shared cache    *)
(* has stubs only.                                                         *)
Linked(w) ==
    /\ NoneHidden(w)
    /\ \A b \in w.binds : b.image \in w.unread => b.stub
    /\ \A b \in w.binds : b.image = "B" /\ b.ordinal = 0 => "f" \in w.exports.B

(* Classes: one of the app over one of the app or of A, or the host's.     *)
Local(i, s) == [kind |-> "local", at |-> Address(i, s)]
Import(l) == [kind |-> "import", library |-> l, symbol |-> "K"]
Class(i, s, super, swift, listed) ==
    [address |-> Address(i, s), super |-> super, swift |-> swift, listed |-> listed]

Supers ==
    {{Class("app", "p", Null, TRUE, FALSE)}, {Class("app", "p", Null, TRUE, TRUE)},
     {Class("app", "p", Import("A"), TRUE, TRUE)}, {Class("app", "p", Import("A"), TRUE, FALSE)}} \cup
    {{Class("app", "p", Local("app", "q"), TRUE, FALSE), q} :
        q \in {Class("app", "q", Null, TRUE, FALSE), Class("app", "q", Import("A"), TRUE, FALSE),
               Class("app", "q", Import("A"), TRUE, TRUE)}}

ClassWorlds ==
    {[Plain EXCEPT
        !.exports.A = e,
        !.binds = {Bind("app", 1, "K", FALSE, FALSE)},
        !.classes = {Class("app", "sub", sub, swift, TRUE), k} \cup p] :
        sub \in {Null, Local("app", "p"), Import("A"), Import("sys")}, swift \in BOOLEAN,
        p \in Supers,
        k \in {Class("A", "K", Null, TRUE, TRUE), Class("A", "K", Import("sys"), TRUE, TRUE), Class("A", "K", Import("sys"), FALSE, TRUE)},
        e \in {{}, {"K"}}}

(* Inputs xlate refuses, and a category on a class that keeps its layout.  *)
OddWorlds ==
    {[Plain EXCEPT !.install.B = "A"],
     [Plain EXCEPT !.replaces = {[library |-> "sys", image |-> "A"], [library |-> "sys", image |-> "B"]}],
     [Plain EXCEPT !.replaces = {[library |-> "A", image |-> "B"]}],
     [Plain EXCEPT !.exports.A = {"K"}, !.extends = {Import("A")},
                   !.classes = {Class("A", "K", Null, TRUE, TRUE)}]}

(* One project whose inputs change: A defines f or not, the code fits one  *)
(* object or not.                                                          *)
Versions ==
    {[Plain EXCEPT !.binds = {Bind("app", 1, "f", FALSE, TRUE)}, !.exports.A = a, !.fits = z] :
        a \in SUBSET {"f"}, z \in BOOLEAN}

AllProjects ==
    {{w} : w \in {v \in NameWorlds : Linked(v) /\ StrongIsSeen(v)} \cup
                  {v \in ClassWorlds : UnlistedEndLocally(v, {})} \cup OddWorlds} \cup
    {Versions}

(* These are the inputs that the properties are about.                     *)
ASSUME InputsAreLinked ==
    \A w \in UNION AllProjects :
        /\ NoneHidden(w) /\ StubsAreCalls(w) /\ StrongIsSeen(w)
        /\ \A bridged \in SUBSET Symbols : UnlistedEndLocally(w, bridged)

(* The others: a strong import of B that only its table of symbols has,    *)
(* and a class of __objc_clsrolist whose superclass another image defines. *)
UnseenProjects == {{w} : w \in {v \in NameWorlds : Linked(v) /\ StubsAreCalls(v) /\ ~ StrongIsSeen(v)}}

UnlistedProjects ==
    {{w} : w \in {v \in ClassWorlds : ~ UnlistedEndLocally(v, {}) /\ \A c \in v.classes : c.swift}}
============================================================================
