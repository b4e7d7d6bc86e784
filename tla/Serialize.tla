------------------------------ MODULE Serialize ------------------------------
(***************************************************************************)
(* The arguments of a remote call as bytes: serialize (msg_serialize.h)    *)
(* and Serializer, which a message passes on both sides.  One message is   *)
(* written, arrives whole or cut short, and is read, argument by argument, *)
(* by a program that may be older or newer than the sender, on a host of   *)
(* another byte order.                                                     *)
(*                                                                         *)
(* A type is a record with a kind; an object has a sequence of fields, its *)
(* class's read() and write() visiting them in that order.  The errors'    *)
(* codes and the handlers are left out: an error is what it does to the    *)
(* stream.                                                                 *)
(***************************************************************************)
EXTENDS Integers, Sequences, SequencesExt, TLC

CONSTANTS Base,                  \* the values of a byte
          SizeWidth,             \* bytes of a size field
          MAX_STRING_SIZE, MAX_CONTAINER_SIZE, MAX_PARSE_STACK_DEPTH,
          WCHAR_SIZE,            \* bytes of a wide character on the wire
          TmpSize,               \* bytes that write_internal() can reverse
          Null,
          Hosts,                 \* [le, wchar]: byte order, sizeof(wchar_t)
          Setups                 \* [types, known, args, wchar]: the sender's types, the
                                 \* receiver's, and the sizeof(wchar_t) that args need

ASSUME LimitsAssumption ==
  /\ Base \in Nat /\ {SizeWidth, WCHAR_SIZE, TmpSize} \subseteq Nat \ {0}
  /\ MAX_STRING_SIZE < Base ^ SizeWidth /\ MAX_CONTAINER_SIZE < Base ^ SizeWidth

VARIABLES setup,  \* which message this is
          phase,  \* "start", "write", "refused", "read", "done"
          next,   \* the argument whose turn it is
          os,     \* the ostream: [host, bytes, fail]
          is,     \* the istream: [host, bytes, pos, eof, fail, stop, halted]
          got     \* what the receiver has read

vars == <<setup, phase, next, os, is, got>>

\* Type.  The other values of a byte are data.
Tag == [LITERAL |-> 1, STRING |-> 8, WSTRING |-> 9, VECTOR |-> 20, MAP |-> 21, LIST |-> 22,
        SET |-> 23, USER_DEFINED |-> 31]

-----------------------------------------------------------------------------
(* Bytes.                                                                  *)

Digits(v, w) == [i \in 1 .. w |-> (v \div (Base ^ (i - 1))) % Base]
ValueOf(mem) == FoldRight(LAMBDA d, acc : d + Base * acc, mem, 0)

\* The memory of a number of w bytes, and back.
Memory(host, v, w) == IF host.le THEN Digits(v, w) ELSE Reverse(Digits(v, w))
Number(host, mem)  == ValueOf(IF host.le THEN mem ELSE Reverse(mem))

Swapped(host, mem, no_swap) == IF host.le \/ no_swap THEN mem ELSE Reverse(mem)

Numbers(n) == [i \in 1 .. n |-> i]

Fail(s) == [s EXCEPT !.fail = TRUE]
Good(s) == ~s.fail /\ ~s.eof

\* ostream::write(), which a failed stream ignores.
Put(s, bytes) == IF s.fail THEN s ELSE [s EXCEPT !.bytes = @ \o bytes]

write_internal(s, mem, no_swap) ==
  IF ~s.host.le /\ ~no_swap /\ Len(mem) > TmpSize THEN Fail(s)
  ELSE Put(s, Swapped(s.host, mem, no_swap))

write_type(s, type) == Put(s, <<Tag[type]>>)

\* istream::tellg().
Tell(s) == IF s.fail THEN -1 ELSE s.pos

\* Nothing more is read at the end of the stream, or at the end of the object.
check_stop_parse(s) == s.eof \/ (s.stop # <<>> /\ Tell(s) >= Last(s.stop))

\* What an operation on the istream returns: the stream, and the value.
Result(s, v) == [s |-> s, v |-> v]

\* n bytes into memory that holds "old".
read_internal(s, old, n, no_swap) ==
  IF check_stop_parse(s) \/ s.fail THEN Result(s, old)
  ELSE IF s.pos + n > Len(s.bytes)
       THEN Result([Fail(s) EXCEPT !.eof = TRUE, !.pos = Len(s.bytes)], old)
  ELSE Result([s EXCEPT !.pos = @ + n],
              Swapped(s.host, SubSeq(s.bytes, s.pos + 1, s.pos + n), no_swap))

\* Mutant: the end of the stream is not an error of the message.
AtEndOfFileEof(s) == [s EXCEPT !.eof = TRUE]
AtEndOfFile(s)    == [Fail(s) EXCEPT !.eof = TRUE]

\* peek() and the byte, when it is the type that is expected: [s, ok].
read_type(s, type) ==
  IF s.fail \/ s.pos = Len(s.bytes) THEN [s |-> AtEndOfFile(s), ok |-> FALSE]
  ELSE IF s.bytes[s.pos + 1] = Tag[type] THEN [s |-> [s EXCEPT !.pos = @ + 1], ok |-> TRUE]
  ELSE [s |-> Fail(s), ok |-> FALSE]

check_slength(s, size)        == IF size > MAX_STRING_SIZE THEN Fail(s) ELSE s
check_container_size(s, size) == IF size > MAX_CONTAINER_SIZE THEN Fail(s) ELSE s

-----------------------------------------------------------------------------
(* Literals: of fundamental types, with or without their type.             *)

write_literal(s, v, width, prependType) ==
  write_internal(IF prependType THEN write_type(s, "LITERAL") ELSE s,
                 Memory(s.host, v, width), FALSE)

read_literal(s, old, width, readPrependedType) ==
  IF check_stop_parse(s) THEN Result(s, old)
  ELSE LET t == IF readPrependedType THEN read_type(s, "LITERAL") ELSE [s |-> s, ok |-> TRUE]
           r == read_internal(t.s, Memory(s.host, old, width), width, FALSE)
       IN  IF t.ok THEN Result(r.s, Number(s.host, r.v)) ELSE Result(t.s, old)

write_size(s, n) == write_literal(s, n, SizeWidth, FALSE)
read_size(s)     == read_literal(s, 0, SizeWidth, FALSE)

\* The type and the size that a string or a container begins with.
Header(s, type, n) == write_size(write_type(s, type), n)

\* ... and read, with what is read after them.
Sized(s, old, type, Body(_, _)) ==
  LET t == read_type(s, type)
      n == read_size(t.s)
  IN IF check_stop_parse(s) THEN Result(s, old)
     ELSE IF t.ok THEN Body(n.s, n.v) ELSE Result(t.s, old)

-----------------------------------------------------------------------------
(* Strings.                                                                *)

write_string(s, str) ==
  IF Len(str) > MAX_STRING_SIZE THEN Fail(s)
  ELSE write_internal(Header(s, "STRING", Len(str)), str, TRUE)

read_string(s, old) ==
  LET Body(t, n) == IF Good(check_slength(t, n)) THEN read_internal(t, <<>>, n, TRUE)
                    ELSE Result(Fail(t), <<>>)
  IN  Sized(s, old, "STRING", Body)

\* On this host a wide character is longer than on the wire.
Offset(host) == IF host.le THEN 0 ELSE host.wchar - WCHAR_SIZE

write_wchar(s, c) ==
  LET o == Offset(s.host)
  IN  write_internal(s, SubSeq(Memory(s.host, c, s.host.wchar), o + 1, o + WCHAR_SIZE), FALSE)

write_wstring(s, str) ==
  IF Len(str) > MAX_STRING_SIZE THEN Fail(s)
  ELSE FoldLeft(write_wchar, Header(s, "WSTRING", Len(str)), str)

read_wchar(r) ==
  LET o == Offset(r.s.host)
      c == read_internal(r.s, Digits(0, WCHAR_SIZE), WCHAR_SIZE, FALSE)
      mem == Digits(0, o) \o c.v \o Digits(0, r.s.host.wchar - WCHAR_SIZE - o)
  IN  Result(c.s, Append(r.v, Number(r.s.host, mem)))

read_wstring(s, old) ==
  LET Body(t, n) == IF Good(check_slength(t, n))
                    THEN FoldLeft(LAMBDA r, i : read_wchar(r), Result(t, <<>>), Numbers(n))
                    ELSE Result(Fail(t), <<>>)
  IN  Sized(s, old, "WSTRING", Body)

\* A char*: its length is reduced to the width of the size before it is looked at.
write_cstring(s, str) ==
  LET size == ((Len(str) % (Base ^ SizeWidth)) + 1) % (Base ^ SizeWidth)
      h == check_slength(Header(s, "STRING", size), size)
  IN  IF s.fail \/ str = Null THEN Fail(s)
      ELSE write_internal(h, SubSeq(Append(str, 0), 1, size), TRUE)

\* Over an array of maxLen bytes with zeros behind what it holds; up to its terminator, it
\* is the string.
read_cstring(s, old, maxLen) ==
  LET Over(mem) == mem \o SubSeq(old, Len(mem) + 1, Len(old)) \o <<0>>
      Text(mem) == SubSeq(Over(mem), 1, SelectInSeq(Over(mem), LAMBDA b : b = 0) - 1)
      Body(t, n) ==
        LET r == read_internal(t, <<>>, n, TRUE)
        IN IF ~Good(check_slength(t, n)) \/ n > maxLen THEN Result(Fail(t), old)
           ELSE IF n = 0 \/ ~Good(r.s) THEN Result(r.s, old)
           ELSE Result(r.s, Text(r.v))
  IN  Sized(s, old, "STRING", Body)

-----------------------------------------------------------------------------
(* Objects and containers.  What they hold is written and read by the type *)
(* of it.                                                                  *)

RECURSIVE Write(_, _, _)
RECURSIVE Read(_, _, _)

\* What a default-constructed value is.
RECURSIVE Default(_)
Default(type) ==
  CASE type.kind = "literal" -> 0
    [] type.kind = "object"  -> [i \in DOMAIN type.fields |-> Default(type.fields[i])]
    [] type.kind = "set"     -> {}
    [] OTHER                 -> <<>>

\* The size field is filled in afterwards, and counts its own bytes.
Backfilled(s, at) ==
  LET sizeDiff == Len(s.bytes) - at
  IN  IF sizeDiff >= Base ^ SizeWidth THEN Fail(s)
      ELSE [s EXCEPT !.bytes = SubSeq(@, 1, at) \o Memory([le |-> TRUE], sizeDiff, SizeWidth)
                               \o SubSeq(@, at + SizeWidth + 1, Len(@))]

write_object(s, object, type) ==
  LET h  == write_type(s, "USER_DEFINED")
      at == Len(h.bytes)
      w  == FoldLeft(LAMBDA o, i : Write(o, object[i], type.fields[i]), write_size(h, 0),
                     Numbers(Len(type.fields)))
  IN  IF Good(w) THEN Backfilled(w, at) ELSE w

\* A size that the stream, or the object around it, cannot hold.
Beyond(s, target) == s.fail \/ target > Len(s.bytes) \/ (s.stop # <<>> /\ target > Last(s.stop))

\* Mutant: what a newer sender added is not skipped.
ExtraRead(s, target) == s
ExtraSkipped(s, target) == IF Good(s) /\ s.pos < target THEN [s EXCEPT !.pos = target] ELSE s

\* Fields that an older sender did not write keep what they have: each one's read() finds
\* itself at the end of the object.  An object nested too deep ends the program (ASSERT).
read_object(s, old, type) ==
  LET t == read_type(s, "USER_DEFINED")
      n == read_size(t.s)
      target == Tell(t.s) + n.v
      Field(r, i) == LET f == Read(r.s, r.v[i], type.fields[i])
                     IN  Result(f.s, [r.v EXCEPT ![i] = f.v])
      fields == FoldLeft(Field, Result([n.s EXCEPT !.stop = Append(@, target)], old),
                         Numbers(Len(type.fields)))
  IN IF check_stop_parse(s) THEN Result(s, old)
     ELSE IF ~t.ok THEN Result(t.s, old)
     ELSE IF Beyond(n.s, target) THEN Result(Fail(n.s), old)
     ELSE IF Len(s.stop) = MAX_PARSE_STACK_DEPTH
          THEN Result([Fail(n.s) EXCEPT !.halted = TRUE], old)
     ELSE Result(ExtraSkipped([fields.s EXCEPT !.stop = s.stop], target), fields.v)

\* An element by value: a literal without its type, or an object.
WriteItem(s, v, type) == IF type.kind = "literal" THEN write_literal(s, v, type.width, FALSE)
                         ELSE write_object(s, v, type)
ReadItem(s, type) == IF type.kind = "literal" THEN read_literal(s, 0, type.width, FALSE)
                     ELSE read_object(s, Default(type), type)

\* An element by pointer: a flag, and the object if there is one; the reader makes it.
WritePointer(s, v, type) ==
  IF v = Null THEN write_literal(s, 0, 1, FALSE)
  ELSE write_object(write_literal(s, 1, 1, FALSE), v, type)
ReadPointer(s, type) ==
  LET notNULL == read_literal(s, 0, 1, FALSE)
  IN  IF notNULL.v = 0 THEN Result(notNULL.s, Null)
      ELSE read_object(notNULL.s, Default(type), type)

WriteAll(s, type, items, Item(_, _)) ==
  IF Len(items) > MAX_CONTAINER_SIZE THEN Fail(s)
  ELSE FoldLeft(Item, Header(s, type, Len(items)), items)

\* The container is cleared once it is its turn.
ReadAll(s, old, type, empty, Item(_)) ==
  LET Body(t, n) == IF Good(check_container_size(t, n))
                    THEN FoldLeft(LAMBDA r, i : Item(r), Result(t, empty), Numbers(n))
                    ELSE Result(Fail(t), empty)
  IN  IF check_stop_parse(s) THEN Result(s, old) ELSE Sized(s, empty, type, Body)

Appended(r, x) == Result(x.s, Append(r.v, x.v))

write_bools(s, v) == WriteAll(s, "VECTOR", v, LAMBDA o, x : write_literal(o, x, 1, TRUE))
read_bools(s, old) ==
  ReadAll(s, old, "VECTOR", <<>>, LAMBDA r : Appended(r, read_literal(r.s, 0, 1, TRUE)))

write_vector(s, v, T) == WriteAll(s, "VECTOR", v, LAMBDA o, x : WriteItem(o, x, T.item))
read_vector(s, old, T) ==
  ReadAll(s, old, "VECTOR", <<>>, LAMBDA r : Appended(r, ReadItem(r.s, T.item)))

write_vector_of_pointers(s, v, T) ==
  WriteAll(s, "VECTOR", v, LAMBDA o, x : WritePointer(o, x, T.item))
read_vector_of_pointers(s, old, T) ==
  ReadAll(s, old, "VECTOR", <<>>, LAMBDA r : Appended(r, ReadPointer(r.s, T.item)))

write_list(s, v, T) == WriteAll(s, "LIST", v, LAMBDA o, x : WriteItem(o, x, T.item))
read_list(s, old, T) ==
  ReadAll(s, old, "LIST", <<>>, LAMBDA r : Appended(r, ReadItem(r.s, T.item)))

write_list_of_pointers(s, v, T) ==
  WriteAll(s, "LIST", v, LAMBDA o, x : WritePointer(o, x, T.item))
read_list_of_pointers(s, old, T) ==
  ReadAll(s, old, "LIST", <<>>, LAMBDA r : Appended(r, ReadPointer(r.s, T.item)))

\* In the order of a set and of a map; the sets here are of literals.
Sorted(set) == SetToSortSeq(set, <)

write_set(s, v, T) == WriteAll(s, "SET", Sorted(v), LAMBDA o, x : WriteItem(o, x, T.item))
read_set(s, old, T) ==
  ReadAll(s, old, "SET", {}, LAMBDA r : LET x == ReadItem(r.s, T.item)
                                        IN  Result(x.s, r.v \cup {x.v}))

\* In the order of the addresses, which are the reader's own: a sequence stands for it.
write_set_of_pointers(s, v, T) ==
  WriteAll(s, "SET", v, LAMBDA o, x : WritePointer(o, x, T.item))
read_set_of_pointers(s, old, T) ==
  ReadAll(s, old, "SET", <<>>, LAMBDA r : Appended(r, ReadPointer(r.s, T.item)))

write_map(s, v, T) ==
  WriteAll(s, "MAP", Sorted(DOMAIN v),
           LAMBDA o, k : WriteItem(WriteItem(o, k, T.key), v[k], T.item))
read_map(s, old, T) ==
  ReadAll(s, old, "MAP", <<>>, LAMBDA r : LET k == ReadItem(r.s, T.key)
                                              x == ReadItem(k.s, T.item)
                                          IN  Result(x.s, (k.v :> x.v) @@ r.v))

write_map_of_pointers(s, v, T) ==
  WriteAll(s, "MAP", Sorted(DOMAIN v),
           LAMBDA o, k : WritePointer(WriteItem(o, k, T.key), v[k], T.item))
read_map_of_pointers(s, old, T) ==
  ReadAll(s, old, "MAP", <<>>, LAMBDA r : LET k == ReadItem(r.s, T.key)
                                              x == ReadPointer(k.s, T.item)
                                          IN  Result(x.s, (k.v :> x.v) @@ r.v))

Write(s, v, T) ==
  CASE T.kind = "literal" -> write_literal(s, v, T.width, TRUE)
    [] T.kind = "string"  -> write_string(s, v)
    [] T.kind = "wstring" -> write_wstring(s, v)
    [] T.kind = "cstring" -> write_cstring(s, v)
    [] T.kind = "object"  -> write_object(s, v, T)
    [] T.kind = "bools"   -> write_bools(s, v)
    [] T.kind = "vector"  -> write_vector(s, v, T)
    [] T.kind = "list"    -> write_list(s, v, T)
    [] T.kind = "set"     -> write_set(s, v, T)
    [] T.kind = "map"     -> write_map(s, v, T)
    [] T.kind = "vector*" -> write_vector_of_pointers(s, v, T)
    [] T.kind = "list*"   -> write_list_of_pointers(s, v, T)
    [] T.kind = "set*"    -> write_set_of_pointers(s, v, T)
    [] T.kind = "map*"    -> write_map_of_pointers(s, v, T)

Read(s, old, T) ==
  CASE T.kind = "literal" -> read_literal(s, old, T.width, TRUE)
    [] T.kind = "string"  -> read_string(s, old)
    [] T.kind = "wstring" -> read_wstring(s, old)
    [] T.kind = "cstring" -> read_cstring(s, old, T.maxLen)
    [] T.kind = "object"  -> read_object(s, old, T)
    [] T.kind = "bools"   -> read_bools(s, old)
    [] T.kind = "vector"  -> read_vector(s, old, T)
    [] T.kind = "list"    -> read_list(s, old, T)
    [] T.kind = "set"     -> read_set(s, old, T)
    [] T.kind = "map"     -> read_map(s, old, T)
    [] T.kind = "vector*" -> read_vector_of_pointers(s, old, T)
    [] T.kind = "list*"   -> read_list_of_pointers(s, old, T)
    [] T.kind = "set*"    -> read_set_of_pointers(s, old, T)
    [] T.kind = "map*"    -> read_map_of_pointers(s, old, T)

-----------------------------------------------------------------------------
(* Serializer: one message.                                                *)

NoInput(host) == [host |-> host, bytes |-> <<>>, pos |-> 0, eof |-> FALSE, fail |-> FALSE,
                  stop |-> <<>>, halted |-> FALSE]

\* The ostream is a channel's, with the last message still in it.
Init ==
  /\ setup \in Setups
  /\ phase = "start" /\ next = 1
  /\ \E host \in {h \in Hosts : h.wchar >= setup.wchar} :
       os = [host |-> host, bytes |-> <<0>>, fail |-> FALSE, eof |-> FALSE]
  /\ \E host \in Hosts : is = NoInput(host)
  /\ got = [i \in DOMAIN setup.known |-> Default(setup.known[i])]

\* Serializer::Write() empties the stream ...
Start ==
  /\ phase = "start" /\ phase' = "write"
  /\ os' = [os EXCEPT !.bytes = <<>>]
  /\ UNCHANGED <<setup, next, is, got>>

\* ... and writes the arguments one after the other.
WriteArgument ==
  /\ phase = "write" /\ next <= Len(setup.types)
  /\ os' = Write(os, setup.args[next], setup.types[next])
  /\ next' = next + 1
  /\ UNCHANGED <<setup, phase, is, got>>

\* A stream that is not good is not dispatched.
Refuse ==
  /\ phase = "write" /\ next > Len(setup.types) /\ os.fail
  /\ phase' = "refused"
  /\ UNCHANGED <<setup, next, os, is, got>>

\* What the receiver gets of the message is a prefix of it.
Arrive ==
  /\ phase = "write" /\ next > Len(setup.types) /\ ~os.fail
  /\ phase' = "read" /\ next' = 1
  /\ \E n \in 0 .. Len(os.bytes) : is' = [is EXCEPT !.bytes = SubSeq(os.bytes, 1, n)]
  /\ UNCHANGED <<setup, os, got>>

\* Serializer::Read(): every argument is tried.
ReadArgument ==
  /\ phase = "read" /\ next <= Len(setup.known) /\ ~is.halted
  /\ LET r == Read(is, got[next], setup.known[next])
     IN  is' = r.s /\ got' = [got EXCEPT ![next] = r.v]
  /\ next' = next + 1
  /\ UNCHANGED <<setup, phase, os>>

ReadReturns ==
  /\ phase = "read" /\ phase' = "done"
  /\ next > Len(setup.known) \/ is.halted
  /\ UNCHANGED <<setup, next, os, is, got>>

Next == Start \/ WriteArgument \/ Refuse \/ Arrive \/ ReadArgument \/ ReadReturns

Spec == Init /\ [][Next]_vars

-----------------------------------------------------------------------------
\* What the receiver should see of v, of the sender's type S, in its own type R.
RECURSIVE Seen(_, _, _)
Seen(S, R, v) ==
  LET Element(x) == IF x = Null THEN Null ELSE Seen(S.item, R.item, x) IN
  CASE S.kind = "object" ->
         [i \in DOMAIN R.fields |-> IF i \in DOMAIN S.fields
                                    THEN Seen(S.fields[i], R.fields[i], v[i])
                                    ELSE Default(R.fields[i])]
    [] S.kind \in {"vector", "list", "map", "vector*", "list*", "set*", "map*"} ->
         [i \in DOMAIN v |-> Element(v[i])]
    [] OTHER -> v

RECURSIVE Depth(_)
Depth(type) ==
  CASE type.kind = "object" ->
         1 + FoldLeft(LAMBDA n, f : IF Depth(f) > n THEN Depth(f) ELSE n, 0, type.fields)
    [] "item" \in DOMAIN type -> Depth(type.item)
    [] OTHER -> 0

Shallow == \A i \in DOMAIN setup.known : Depth(setup.known[i]) <= MAX_PARSE_STACK_DEPTH

Whole == Len(is.bytes) = Len(os.bytes)

\* The writer accepts two kinds of values that it does not carry in full: of a char* whose
\* length and terminator do not fit in a size field, what the cut length leaves, and of a
\* wide character the WCHAR_SIZE low bytes.
RECURSIVE Carried(_, _)
Carried(T, v) ==
  CASE T.kind = "cstring" -> v = Null \/ Len(v) + 1 < Base ^ SizeWidth
    [] T.kind = "wstring" -> \A i \in DOMAIN v : v[i] < Base ^ WCHAR_SIZE
    [] T.kind = "object"  -> \A i \in DOMAIN T.fields : Carried(T.fields[i], v[i])
    [] T.kind \in {"vector", "list", "map", "vector*", "list*", "set*", "map*"} ->
         \A i \in DOMAIN v : v[i] = Null \/ Carried(T.item, v[i])
    [] OTHER -> TRUE

\* A message that the writer accepted and that arrived whole is read without an error and
\* to its end, whatever the byte order of the two hosts, also when the writer cut a char*
\* or a wide character short.  If it cut none, the receiver, though its classes have fewer
\* or more fields than the sender's at any level, sees the fields that both know as they
\* were sent, and the others at their defaults.  (Objects within objects up to the depth of
\* the parse stack.)
NothingLost ==
  phase = "done" /\ Whole /\ Shallow =>
    /\ ~is.fail /\ ~is.halted /\ is.pos = Len(is.bytes)
    /\ (\A i \in DOMAIN setup.types : Carried(setup.types[i], setup.args[i])) =>
         got = [i \in DOMAIN setup.known |-> Seen(setup.types[i], setup.known[i], setup.args[i])]

\* A message that was cut short, wherever, sets the failbit, which is what an endpoint
\* looks at before it calls its target with the arguments.
TruncationDetected == phase = "done" /\ ~Whole => is.fail
=============================================================================
