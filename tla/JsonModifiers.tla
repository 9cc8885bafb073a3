----------------------------- MODULE JsonModifiers -----------------------------
(***************************************************************************)
(* The constructors, iterators and modifiers of basic_json (json.hpp).  A  *)
(* modifier of v gives Place or Throw of the value as it leaves it.  An    *)
(* iterator of v is a number: the distance from begin() in a container,    *)
(* m_it of the primitive_iterator_t (0 at the value, 1 past it) otherwise. *)
(***************************************************************************)
EXTENDS JsonPointer

Elements(v) == IF type(v) = "null" THEN <<>> ELSE v[2]
Members(v) == IF type(v) = "null" THEN EmptyObject[2] ELSE v[2]

-----------------------------------------------------------------------------
\* size, empty and max_size: null has no element, a scalar is one element.
size(v) ==
    CASE type(v) = "null" -> 0
      [] type(v) = "array" -> Len(v[2])
      [] type(v) = "object" -> Cardinality(DOMAIN v[2])
      [] OTHER -> 1
empty(v) ==
    CASE type(v) = "null" -> TRUE
      [] type(v) = "array" -> v[2] = <<>>
      [] type(v) = "object" -> DOMAIN v[2] = {}
      [] OTHER -> FALSE

\* iter_impl::set_begin and set_end; an iterator of null begins at its end.
set_begin(v) == IF type(v) = "null" THEN 1 ELSE 0
set_end(v) == IF is_structured(v) THEN size(v) ELSE 1

\* operator*: 214 for null and past a scalar.  Past the end of a container it is
\* undefined, which no caller here asks for.
Deref(v, it) ==
    CASE type(v) = "object" -> Place(v[2][KeysOf(v)[it + 1]], <<>>)
      [] type(v) = "array" -> Place(v[2][it + 1], <<>>)
      [] type(v) = "null" -> Thrown
      [] OTHER -> IF it = 0 THEN Place(v, <<>>) ELSE Thrown

\* operator+= (and -=, +, - of an offset): 209 for an object.  operator++ and --
\* take every value.
Advance(v, it, n) == IF type(v) = "object" THEN [ok |-> FALSE, it |-> it]
                     ELSE [ok |-> TRUE, it |-> it + n]

\* operator[]: 208 for an object; a scalar is at the offset that leads back to it.
At(v, it, n) ==
    CASE type(v) = "object" -> Thrown
      [] type(v) = "array" -> Place(v[2][it + n + 1], <<>>)
      [] type(v) = "null" -> Thrown
      [] OTHER -> IF it = - n THEN Place(v, <<>>) ELSE Thrown

\* key: 207 unless the value is an object.
IterKey(v, it) == IF type(v) = "object" THEN Place(Str(KeysOf(v)[it + 1]), <<>>) ELSE Thrown

\* The value of a json_reverse_iterator with base it, front and back.
ReverseValue(v, base) == Deref(v, base - 1)
front(v) == Deref(v, set_begin(v))
back(v) == Deref(v, set_end(v) - 1)

-----------------------------------------------------------------------------
\* The constructor of an initializer list: a list of pairs that start with a
\* string is an object (the first of two equal keys stays), other lists arrays.
IsPair(x) == type(x) = "array" /\ Len(x[2]) = 2 /\ type(x[2][1]) = "string"
RECURSIVE EmplaceAll(_, _)
EmplaceAll(f, pairs) ==
    IF pairs = <<>> THEN f
    ELSE EmplaceAll(f @@ (Head(pairs)[2][1][2] :> Head(pairs)[2][2]), Tail(pairs))

InitializerList(list, type_deduction, manual_type) ==
    LET pairs == \A i \in 1 .. Len(list) : IsPair(list[i])
    IN  IF ~ type_deduction /\ manual_type = "object" /\ ~ pairs THEN Thrown
        ELSE IF pairs /\ (type_deduction \/ manual_type = "object")
             THEN Place(Object(EmplaceAll(EmptyObject[2], list)), <<>>)
        ELSE Place(Array(list), <<>>)

\* The constructors of cnt copies and of a range of iterators of one value.
Copies(cnt, v) == Array([i \in 1 .. cnt |-> v])
Range(v, first, last) ==
    LET keys == KeysOf(v)
    IN  CASE type(v) = "object" ->
                Place(Object([k \in {keys[i] : i \in first + 1 .. last} |-> v[2][k]]), <<>>)
          [] type(v) = "array" -> Place(Array(SubSeq(v[2], first + 1, last)), <<>>)
          [] type(v) = "null" -> Thrown
          [] OTHER -> IF first = 0 /\ last = 1 THEN Place(v, <<>>) ELSE Thrown

-----------------------------------------------------------------------------
\* clear keeps the type.
clear(v) ==
    CASE type(v) \in {"integer", "unsigned", "float"} -> <<type(v), Zero>>
      [] type(v) = "boolean" -> Bool(FALSE)
      [] type(v) = "string" -> Str(<<>>)
      [] type(v) = "array" -> EmptyArray
      [] type(v) = "object" -> EmptyObject
      [] OTHER -> v

\* push_back of a value, and emplace_back, which differ in the exception only.
push_back(v, x) ==
    IF type(v) \notin {"null", "array"} THEN Throw(v)
    ELSE Place(Array(Append(Elements(v), x)), <<>>)

\* push_back of a pair, and emplace: std::map::insert keeps an earlier member.
emplace(v, k, x) ==
    IF type(v) \notin {"null", "object"} THEN Throw(v)
    ELSE Place(Object(Members(v) @@ (k :> x)), <<>>)

\* push_back of an initializer list: two values that start with a string are a
\* member for an object, and an element made of the list otherwise.
PushList(v, list) ==
    IF type(v) = "object" /\ Len(list) = 2 /\ type(list[1]) = "string"
    THEN emplace(v, list[1][2], list[2])
    ELSE push_back(v, InitializerList(list, TRUE, "array").v)

\* insert before pos: of a value, of cnt values, of a range of another array and
\* of a list, and of the members of an object into an object.
insert(v, pos, list) ==
    IF type(v) # "array" THEN Throw(v)
    ELSE Place(Array(SubSeq(v[2], 1, pos) \o list \o SubSeq(v[2], pos + 1, Len(v[2]))), <<>>)
InsertMembers(v, j) ==
    IF type(v) # "object" \/ type(j) # "object" THEN Throw(v)
    ELSE Place(Object(v[2] @@ j[2]), <<>>)

\* update: null is an object already when the argument is refused.
update(v, j) ==
    LET w == IF type(v) = "null" THEN EmptyObject ELSE v
    IN  IF type(w) # "object" \/ type(j) # "object" THEN Throw(w)
        ELSE Place(Object(j[2] @@ w[2]), <<>>)

\* erase of a key, of a position, and of a range of iterators: a scalar becomes
\* null when all of it is erased.  The iterator returned is the end computed
\* before, or the one after the last element erased.
EraseKey(v, k) == IF type(v) # "object" THEN Throw(v) ELSE Place(Object(Drop(v[2], k)), <<>>)
EraseIndex(v, idx) ==
    IF type(v) # "array" \/ idx >= size(v) THEN Throw(v)
    ELSE Place(Array(ErasedAt(v[2], idx)), <<>>)
EraseRange(v, first, last) ==
    LET keys == KeysOf(v)
        kept == {keys[i] : i \in (1 .. Len(keys)) \ (first + 1 .. last)}
    IN  CASE type(v) = "object" -> Place(Object([k \in kept |-> v[2][k]]), <<first>>)
          [] type(v) = "array" ->
                Place(Array(SubSeq(v[2], 1, first) \o SubSeq(v[2], last + 1, Len(v[2]))),
                      <<first>>)
          [] type(v) = "null" -> Throw(v)
          [] OTHER -> IF first = 0 /\ last = 1 THEN Place(Null, <<set_end(v)>>) ELSE Throw(v)
\* Mutant: the iterator returned is the one after the position erased.
ErasePositionSteps(v, pos) ==
    CASE is_structured(v) -> Place(EraseRange(v, pos, pos + 1).v, <<pos + 1>>)
      [] type(v) = "null" -> Throw(v)
      [] OTHER -> IF pos = 0 THEN Place(Null, <<set_end(v)>>) ELSE Throw(v)
ErasePosition(v, pos) ==
    CASE is_structured(v) -> EraseRange(v, pos, pos + 1)
      [] type(v) = "null" -> Throw(v)
      [] OTHER -> IF pos = 0 THEN Place(Null, <<set_end(v)>>) ELSE Throw(v)
=============================================================================
