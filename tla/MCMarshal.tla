------------------------------ MODULE MCMarshal -----------------------------
(* Marshal for TLC: a byte has two bits, so that a long has 2^16 values to *)
(* the guest and 2^8 to the host, and guest memory is 96 bytes.            *)
EXTENDS Marshal

Char == Integer(1, 1, TRUE)
CInt == Integer(4, 4, TRUE)
NSInteger == Integer(8, 4, TRUE)
NSUInteger == Integer(8, 4, FALSE)
LongLong == Integer(8, 8, TRUE)
Double == Floating(8, 8)
CGFloat == Floating(8, 4)
(* A record with padding on both sides; nested records and an array; one   *)
(* both sides lay out alike; one the guest only hands around.              *)
Rusage == StructOf("rusage", <<Field("c", Char), Field("l", NSInteger), Field("i", CInt)>>,
                             <<Field("c", Char), Field("l", NSInteger), Field("i", CInt)>>)
Point == StructOf("point", <<Field("x", CGFloat), Field("y", CGFloat)>>, <<Field("x", CGFloat), Field("y", CGFloat)>>)
Region == LET fields == <<Field("n", CInt), Field("origin", Point), Field("v", ArrayOf(NSUInteger, 2))>>
          IN  StructOf("region", fields, fields)
Mutex == StructOf("mutex", <<Field("sig", NSInteger), Field("p", Pointer(Void, FALSE))>>, <<Field("sig", NSInteger), Field("p", Pointer(Void, FALSE))>>)
Either == UnionOf("either", <<Field("l", NSInteger), Field("p", Pointer(Void, FALSE))>>, <<Field("l", NSInteger), Field("p", Pointer(Void, FALSE))>>)

Compare == Function(NSInteger, CInt)
Destroy == Function(Pointer(Void, FALSE), Void)
Handler == BlockOf(CGFloat, NSUInteger)
MCCallbackTypes == <<Compare, Destroy, Handler>>

Param(name, type, counted) == [name |-> name, type |-> type, counted |-> counted]
Decl(via, params, res) == [via |-> via, params |-> params, result |-> res]

(* Addresses: the first object, the second one, a variable of the guest's  *)
(* functions, the guest's copies of the host's variables, its functions.   *)
A == 16
B == 56
C == 72
D == 80
F1 == 120
F2 == 124
F3 == 128
Blank == [a \in A..111 |-> 0]
Stores(m, cells) == FoldLeft(LAMBDA n, c : Store(n, c[1], c[2], Wrap(c[3], c[2], FALSE)), m, cells)
Program(memory, decl, given) == [memory |-> memory, calls |-> <<[decl |-> decl, args |-> given]>>]

Longs == {0, 5, -3, 127, 128, -128, -129, 32767, -32768}
ULongs == {0, 7, 255, 256, 65535}
(* No address of the host lies in its topmost pointers (xl_bridge.h:88).  *)
Pointers == {0, A, 251, 256, 65531, 65532, 65535}

ScalarPrograms == {Program(Blank, Decl("function", <<Param("a", NSInteger, 0), Param("b", NSUInteger, 0), Param("c", CInt, 0)>>, NSInteger), <<l, u, -2>>) :
                l \in Longs, u \in ULongs}
    \cup {Program(Blank, Decl("method", <<Param("p", Pointer(Void, TRUE), 0), Param("d", CGFloat, 0), Param("q", LongLong, 0)>>,
                              Pointer(Void, FALSE)), <<p, 5, -9>>) : p \in Pointers}
SlotPrograms == {Program(Stores(Blank, <<<<A, 8, l>>, <<B, 4, 3>>>>),
                   Decl(via, <<Param("value", Pointer(NSInteger, FALSE), 0), Param("rest", Pointer(CInt, FALSE), 0)>>, NSUInteger), <<a, b>>) :
                l \in Longs, via \in {"function", "block"}, a \in {0, A}, b \in {0, B}}
    \cup {Program(Stores(Blank, <<<<A, 8, p>>, <<B, 8, 6>>>>),
                  Decl("method", <<Param("error", Pointer(Pointer(Char, FALSE), FALSE), 0), Param("d", Pointer(Double, FALSE), 0)>>, Double), <<A, B>>) :
                p \in Pointers}
ArrayPrograms == {Program(Stores(Blank, <<<<A, 8, l>>, <<A + 8, 8, -1>>, <<A + 16, 8, 300>>>>),
                   Decl("function", <<Param("count", CInt, 0), Param("values", Pointer(NSInteger, const), 1)>>, Void), <<n, a>>) :
                l \in Longs, const \in BOOLEAN, n \in 0..2, a \in {0, A}}
RecordPrograms == {Program(Stores(Blank, <<<<A, 1, -1>>, <<A + 8, 8, l>>, <<A + 16, 4, -4>>>>),
                    Decl("function", <<Param("r", t, 0), Param("m", Pointer(Mutex, FALSE), 0)>>, Point), <<A, B>>) :
                l \in Longs, t \in {Rusage, Pointer(Rusage, TRUE), Pointer(Rusage, FALSE)}}
    \cup {Program(Stores(Blank, <<<<A, 4, 9>>, <<A + 8, 8, 3>>, <<A + 16, 8, 6>>, <<A + 24, 8, u>>, <<A + 32, 8, 1>>>>),
                  Decl("method", <<Param("r", t, 0)>>, IF t = Region THEN Region ELSE Void), <<A>>) :
                u \in ULongs, t \in {Region, Pointer(Region, TRUE), Pointer(Region, FALSE)}}
    \cup {Program(Blank, Decl("function", <<Param("u", Pointer(Either, FALSE), 0)>>, Void), <<A>>)}
Register(f) == [decl |-> Decl("function", <<Param("f", Compare, 0), Param("out", Pointer(NSInteger, FALSE), 0)>>, Void), args |-> <<f, A>>]
Free(f) == [decl |-> Decl("function", <<Param("f", Destroy, 0)>>, CInt), args |-> <<f>>]
Animate(b) == [decl |-> Decl("method", <<Param("b", Handler, 0)>>, Void), args |-> <<b>>]
FunctionPrograms == {[memory |-> Blank, calls |-> c] :
    c \in {<<Register(F1), Register(F2), Register(F1)>>, <<Register(F1), Register(F1), Register(F2), Register(F3)>>,
           <<Free(65535), Free(0), Free(F1)>>, <<Animate(F1), Register(F1), Animate(0)>>}}
MCPrograms == ScalarPrograms \cup SlotPrograms \cup ArrayPrograms \cup RecordPrograms \cup FunctionPrograms

MCVariables ==
    <<[addr |-> D, type |-> NSInteger, host |-> 127], [addr |-> D + 8, type |-> Pointer(Void, TRUE), host |-> None],
      [addr |-> D + 16, type |-> Point, host |-> [p \in {<<"x">>, <<"y">>} |-> 6]],
      [addr |-> D, type |-> CInt, host |-> 3]>>
MCGuestWrites == {[addr |-> C, size |-> 4, value |-> 0], [addr |-> C, size |-> 4, value |-> 9]}
MCHostInts == {-5, 1}
MCGuestInts == {2, 300}
=============================================================================
