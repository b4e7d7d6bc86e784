---------------------------- MODULE MCSerialize ----------------------------
(***************************************************************************)
(* Every kind of argument, classes of two versions, and values at the      *)
(* limits of strings, of containers, of nesting and of an object's size.   *)
(***************************************************************************)
EXTENDS Serialize

CONSTANT null

Int8   == [kind |-> "literal", width |-> 1]
Int16  == [kind |-> "literal", width |-> 2]
String == [kind |-> "string"]
WString == [kind |-> "wstring"]
CString(n) == [kind |-> "cstring", maxLen |-> n]
Bools  == [kind |-> "bools"]
Object(fields) == [kind |-> "object", fields |-> fields]
Of(kind, item) == [kind |-> kind, item |-> item]
MapOf(kind, item) == [kind |-> kind, key |-> Int8, item |-> item]

\* Two versions of a class, and of a class with one of it and a list of them inside.
Point1 == Object(<<Int8>>)
Point2 == Object(<<Int8, String, Int16>>)
Line(point) == Object(<<point, Of("vector", point)>>)
Area(line)  == Object(<<line, Int8>>)
Void        == Object(<<>>)

P1 == {<<7>>}
P2 == {<<7, <<1, 2>>, 40>>, <<8, <<1, 2, 3>>, 1023>>}

Message(types, known, args) ==
  {[types |-> types, known |-> known, args |-> a, wchar |-> 1] : a \in args}
Same(type, values) == Message(<<type>>, <<type>>, {<<v>> : v \in values})
Versions(S, R, values) == Message(<<S, Int8>>, <<R, Int8>>, {<<v, 5>> : v \in values})

Strings == {<<>>, <<4>>, <<1, 2, 3>>, <<1, 2, 3, 4>>}
Lists(values) == {<<>>} \cup {<<v>> : v \in values} \cup (values \X values)
                 \cup {<<v, v, v>> : v \in values}
Maps(values) == {<<>>} \cup {4 :> v : v \in values} \cup {(9 :> v) @@ (3 :> v) : v \in values}

\* At the width of the size field: no size, one byte and two, without a terminator.
Long(n) == [i \in 1 .. n |-> 1 + (i % (Base - 1))]
LongCStrings == {Long(Base - 2), Long(Base - 1), Long(Base), Long(Base + 1)}

\* Wide characters that have more bytes than the wire, on a host that has them.
Wide == {[m EXCEPT !.wchar = 2] : m \in Versions(WString, WString, {<<40>>, <<2, 1023, 3>>})}

MCSetups ==
  UNION {Same(Int8, {0, 31}), Same(Int16, {1, 1000}), Same(String, Strings),
         Same(WString, Strings), Same(CString(3), {<<>>, <<6>>, <<1, 2>>, <<1, 2, 3>>}),
         Same(CString(3), {null}), Versions(CString(3), CString(3), LongCStrings), Wide,
         Versions(Object(<<CString(3), Int8>>), Object(<<CString(3)>>), LongCStrings \X {6}),
         Same(Bools, Lists({0, 1})),
         Same(Of("vector", Int16), Lists({3, 1000})), Same(Of("list", Int8), Lists({3, 30})),
         Same(Of("set", Int8), {{}, {3}, {9, 3}, {1, 2, 3}}),
         Same(MapOf("map", Int16), Maps({600})), Same(Void, {<<>>}),
         UNION {Versions(Of(k, Point1), Of(k, R), Lists(P1)) :
                  k \in {"vector", "list", "vector*", "list*", "set*"}, R \in {Point1, Point2}},
         UNION {Versions(Of(k, Point2), Of(k, R), Lists(P2)) :
                  k \in {"vector", "list", "vector*", "list*", "set*"}, R \in {Point1, Void}},
         UNION {Versions(Of(k, Point2), Of(k, Point1), Lists(P2 \cup {null})) :
                  k \in {"vector*", "list*", "set*"}},
         Versions(MapOf("map", Point2), MapOf("map", Point1), Maps(P2)),
         Versions(MapOf("map*", Point1), MapOf("map*", Point2), Maps(P1 \cup {null})),
         Versions(Line(Point1), Line(Point2), P1 \X Lists(P1)),
         Versions(Line(Point2), Line(Point1), P2 \X Lists(P2)),
         Versions(Area(Line(Point1)), Area(Line(Point2)), (P1 \X Lists(P1)) \X {9})}

LE == [le |-> TRUE, wchar |-> 2]
BE == [le |-> FALSE, wchar |-> 2]
SmallWchar == [le |-> TRUE, wchar |-> 1]
MCHosts == {LE, BE, SmallWchar}
=============================================================================
