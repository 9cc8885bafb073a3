------------------------------ MODULE JsonValue ------------------------------
(***************************************************************************)
(* basic_json (json/json.hpp): the values that the service reads from      *)
(* requests and writes to answers: the order of members and of values, the *)
(* places inside a value, and the arithmetic of the 64-bit numbers.        *)
(***************************************************************************)
EXTENDS JsonWords, FiniteSets, TLC

\* The codes of the printable characters; the backquote goes by its name.
Printable ==
    <<" ", "!", "\"", "#", "$", "%", "&", "'", "(", ")", "*", "+", ",", "-", ".", "/",
      "0", "1", "2", "3", "4", "5", "6", "7", "8", "9", ":", ";", "<", "=", ">", "?",
      "@", "A", "B", "C", "D", "E", "F", "G", "H", "I", "J", "K", "L", "M", "N", "O",
      "P", "Q", "R", "S", "T", "U", "V", "W", "X", "Y", "Z", "[", "\\", "]", "^", "_",
      "grave", "a", "b", "c", "d", "e", "f", "g", "h", "i", "j", "k", "l", "m", "n", "o",
      "p", "q", "r", "s", "t", "u", "v", "w", "x", "y", "z", "{", "|", "}", "~">>
Ascii == [c \in {Printable[i] : i \in 1 .. 95} |-> 31 + CHOOSE i \in 1 .. 95 : Printable[i] = c]
Chars(cs) == [i \in 1 .. Len(cs) |-> Ascii[cs[i]]]

-----------------------------------------------------------------------------
\* std::string::operator<, on unsigned bytes.
LessSeq(s, t) ==
    \E i \in 1 .. Len(t) :
        /\ i <= Len(s) + 1
        /\ \A h \in 1 .. i - 1 : s[h] = t[h]
        /\ i = Len(s) + 1 \/ s[i] < t[i]

RECURSIVE Sorted(_)
Sorted(S) ==
    IF S = {} THEN <<>>
    ELSE LET least == CHOOSE k \in S : \A j \in S \ {k} : LessSeq(k, j)
         IN <<least>> \o Sorted(S \ {least})

\* The members of an object in the order of iteration.
KeysOf(v) == Sorted(DOMAIN v[2])

RECURSIVE Concat(_)
Concat(ss) == IF ss = <<>> THEN <<>> ELSE Head(ss) \o Concat(Tail(ss))

\* std::map::operator[] = and std::map::erase.
Put(f, k, v) == (k :> v) @@ f
Drop(f, k) == [j \in DOMAIN f \ {k} |-> f[j]]

-----------------------------------------------------------------------------
\* The value at a path into a value, and the value with another one there.
RECURSIVE GetAt(_, _)
GetAt(v, path) == IF path = <<>> THEN v ELSE GetAt(v[2][Head(path)], Tail(path))

RECURSIVE SetAt(_, _, _)
SetAt(v, path, new) ==
    IF path = <<>> THEN new
    ELSE LET step == Head(path)
             old == IF step \in DOMAIN v[2] THEN v[2][step] ELSE Null
         IN <<v[1], (step :> SetAt(old, Tail(path), new)) @@ v[2]>>

\* A throw of a writer leaves the id of its exception, which is no byte, in the
\* output: nothing is returned to the caller.
Throws(bs) == \E i \in 1 .. Len(bs) : bs[i] > 255

\* w * 10 + d and w div 10, a byte at a time with a carry.
RECURSIVE TimesTenFrom(_, _, _)
TimesTenFrom(w, i, carry) ==
    IF i = 0 THEN <<carry, <<>>>>
    ELSE LET sum == w[i] * 10 + carry
             rest == TimesTenFrom(w, i - 1, sum \div 256)
         IN <<rest[1], rest[2] \o <<sum % 256>>>>

RECURSIVE DivTenFrom(_, _, _)
DivTenFrom(w, i, rem) ==
    IF i > 8 THEN <<rem, <<>>>>
    ELSE LET n == rem * 256 + w[i]
             rest == DivTenFrom(w, i + 1, n % 10)
         IN <<rest[1], <<n \div 10>> \o rest[2]>>

RECURSIVE Negate(_)
Negate(w) ==   \* -w, modulo 2^64
    IF w = <<>> THEN <<>>
    ELSE IF w[Len(w)] = 0 THEN Negate(SubSeq(w, 1, Len(w) - 1)) \o <<0>>
    ELSE [i \in 1 .. Len(w) |-> IF i = Len(w) THEN 256 - w[i] ELSE 255 - w[i]]

-----------------------------------------------------------------------------
\* Mutant: arrays and strings share a place.
OrderShared == [null |-> 0, object |-> 3, array |-> 4, string |-> 4,
                boolean |-> 1, integer |-> 2, unsigned |-> 2, float |-> 2]

\* detail::operator<(value_t, value_t): null, boolean, number, object, array,
\* string; discarded values are not less than anything.
order == [null |-> 0, object |-> 3, array |-> 4, string |-> 5,
          boolean |-> 1, integer |-> 2, unsigned |-> 2, float |-> 2]

TypeLess(s, t) == s \in DOMAIN order /\ t \in DOMAIN order /\ order[s] < order[t]

IsInteger(v) == type(v) \in {"integer", "unsigned"}

\* operator==.  An integer and an unsigned are compared after a cast of the
\* unsigned to number_integer_t, which keeps the word.
RECURSIVE JsonEq(_, _)
JsonEq(l, r) ==
    IF type(l) # type(r) THEN IsInteger(l) /\ IsInteger(r) /\ l[2] = r[2]
    ELSE IF type(l) = "array" THEN
        /\ Len(l[2]) = Len(r[2])
        /\ \A i \in 1 .. Len(l[2]) : JsonEq(l[2][i], r[2][i])
    ELSE IF type(l) = "object" THEN
        /\ DOMAIN l[2] = DOMAIN r[2]
        /\ \A k \in DOMAIN l[2] : JsonEq(l[2][k], r[2][k])
    ELSE type(l) # "discarded" /\ l = r

\* operator<.  Signed words are compared after their sign; a float is a word of
\* IEEE 754 here, whose order is that of its magnitude.  A float is compared
\* with floats only.
SignedLess(v, w) ==
    IF IsNegative(v) = IsNegative(w) THEN LessSeq(v, w) ELSE IsNegative(v)
FloatLess(v, w) ==
    IF IsNegative(v) /\ IsNegative(w) THEN LessSeq(w, v)
    ELSE IF IsNegative(v) = IsNegative(w) THEN LessSeq(v, w)
    ELSE IsNegative(v) /\ {Tail(v), Tail(w)} # {Fill(0, 7)}

\* std::lexicographical_compare with the order Less of the elements.
Lexicographic(s, t, Less(_, _)) ==
    \E i \in 1 .. Len(t) :
        /\ i <= Len(s) + 1
        /\ \A h \in 1 .. i - 1 : ~ Less(s[h], t[h]) /\ ~ Less(t[h], s[h])
        /\ IF i = Len(s) + 1 THEN TRUE ELSE Less(s[i], t[i])

Pairs(v) == LET keys == KeysOf(v) IN [i \in 1 .. Len(keys) |-> <<keys[i], v[2][keys[i]]>>]

RECURSIVE JsonLess(_, _)
PairLess(a, b) ==
    LessSeq(a[1], b[1]) \/ (~ LessSeq(b[1], a[1]) /\ JsonLess(a[2], b[2]))
JsonLess(l, r) ==
    CASE type(l) # type(r) ->
            IF IsInteger(l) /\ IsInteger(r) THEN SignedLess(l[2], r[2])
            ELSE TypeLess(type(l), type(r))
      [] type(l) = "array" -> Lexicographic(l[2], r[2], JsonLess)
      [] type(l) = "object" -> Lexicographic(Pairs(l), Pairs(r), PairLess)
      [] type(l) \in {"string", "unsigned"} -> LessSeq(l[2], r[2])
      [] type(l) = "boolean" -> ~ l[2] /\ r[2]
      [] type(l) = "integer" -> SignedLess(l[2], r[2])
      [] type(l) = "float" -> FloatLess(l[2], r[2])
      [] OTHER -> FALSE
=============================================================================
