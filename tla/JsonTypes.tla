------------------------------ MODULE JsonTypes ------------------------------
(***************************************************************************)
(* The types of basic_json (json/json.hpp).  A value is a tuple that       *)
(* starts with its m_type.  Strings are sequences of bytes; an object_t    *)
(* (std::map) is a function of its keys; numbers are what JsonValue and    *)
(* JsonLexer say.                                                          *)
(***************************************************************************)
EXTENDS Integers, Sequences

Null == <<"null">>
Discarded == <<"discarded">>
Bool(b) == <<"boolean", b>>
Str(s) == <<"string", s>>
Array(s) == <<"array", s>>
Object(f) == <<"object", f>>
Unsigned(w) == <<"unsigned", w>>   \* number_unsigned_t
Integer(w) == <<"integer", w>>     \* number_integer_t, in two's complement
Float(x) == <<"float", x>>         \* number_float_t

type(v) == v[1]
EmptyArray == Array(<<>>)
EmptyObject == Object([k \in {} |-> Null])

is_structured(v) == type(v) \in {"array", "object"}

\* The digits of a float that is not finite: strtod gives them to a number that is
\* too large.
Infinite == <<-1>>

\* back() and pop_back() of a vector.
Top(s) == s[Len(s)]
Pop(s) == SubSeq(s, 1, Len(s) - 1)

\* ia->get_character at position p; EOF is the character after the last one.
EOF == -1
Byte(bs, p) == IF p <= Len(bs) THEN bs[p] ELSE EOF
=============================================================================
