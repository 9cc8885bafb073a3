------------------------------- MODULE JsonText -------------------------------
(***************************************************************************)
(* json::parse and dump together: the bodies of requests are texts, read   *)
(* by the lexer and the parser, and answers are written by the serializer. *)
(* A text is typed piece by piece.  The pieces are of one family: tokens,  *)
(* bytes and whole escapes of a string, parts of a string in any order,    *)
(* characters of a number.  So each part of the reader meets its hard      *)
(* cases in short texts.  Tokens, with a space after each, are parsed as   *)
(* they are typed, bytes and characters are scanned as they are typed.     *)
(***************************************************************************)
EXTENDS JsonParser, JsonString, JsonSerializer

CONSTANTS Families,   \* names
          Pieces,     \* for each family, the set of its pieces: byte sequences
          MaxPieces   \* for each family, the length of a text

VARIABLES family, typed

vars == <<family, typed, parser, str, num>>

\* The bytes typed, and the text that the reader is given.
Typed == Concat(typed)
Quoted(s) == <<Quote>> \o s \o <<Quote>>
Spaced(pieces) == Concat([i \in 1 .. Len(pieces) |-> Append(pieces[i], Ascii[" "])])
Text == CASE family \in {"string", "bytes"} -> Quoted(Typed)
          [] family = "tokens" -> Spaced(typed)
          [] OTHER -> Typed

\* The value in the nodes of the parser, from the path p on.
RECURSIVE ValueAt(_, _)
ValueAt(root, p) ==
    CASE type(root[p]) = "array" ->
            Array([i \in 1 .. root[p][2] |-> ValueAt(root, Append(p, i))])
      [] type(root[p]) = "object" ->
            Object([k \in {Top(q) : q \in {r \in DOMAIN root : Below(r, p) /\ Len(r) = Len(p) + 1}}
                       |-> ValueAt(root, Append(p, k))])
      [] OTHER -> root[p]
Result(st) == ValueAt(st.root, <<>>)

RECURSIVE Parsed(_, _)
Parsed(st, ts) == IF ts = <<>> THEN st ELSE Parsed(Step(st, Head(ts)), Tail(ts))

\* basic_json::parse of a text.
parse(bs) == Parsed(Initial, Tokens(bs))

\* The tokens of the text before the end of the input.
BeforeEnd(ts) == IF Top(ts).token = "parse_error" THEN ts ELSE Pop(ts)
Read == BeforeEnd(Tokens(Text))

\* The number after the characters s.
RECURSIVE NumberAfter(_, _)
NumberAfter(n, s) == IF s = <<>> THEN n ELSE NumberAfter(NumberRead(n, Head(s)), Tail(s))

Init == family \in Families /\ typed = <<>> /\ ParserInit /\ StrInit /\ NumInit

\* What a piece adds.  A text that is already rejected is not typed further.
TypeToken(piece) ==
    /\ family = "tokens"
    /\ parser.expect # "error" /\ Take(scan(piece, 1))
    /\ UNCHANGED <<str, num>>
TypeBytes(piece) ==
    /\ family = "bytes"
    /\ IF Len(piece) = 1 \/ str.lexer.wanted # <<>> THEN TakeByte(piece[1])
       ELSE TakeEscape(piece)
    /\ UNCHANGED <<parser, num>>
TypeEscapes ==
    /\ family = "string"
    /\ UNCHANGED <<parser, str, num>>
TypeNumber(piece) ==
    /\ family = "number"
    /\ num.label \notin Stopped /\ num' = NumberAfter(num, piece)
    /\ UNCHANGED <<parser, str>>

Type(piece) ==
    /\ Len(typed) < MaxPieces[family]
    /\ typed' = Append(typed, piece)
    /\ TypeToken(piece) \/ TypeBytes(piece) \/ TypeEscapes \/ TypeNumber(piece)
    /\ UNCHANGED family

\* The next request.
Clear ==
    /\ typed # <<>> /\ typed' = <<>>
    /\ parser' = Initial /\ str' = EmptyString /\ num' = NoNumber
    /\ UNCHANGED family

Next == (\E piece \in Pieces[family] : Type(piece)) \/ Clear

Spec == Init /\ [][Next]_vars

-----------------------------------------------------------------------------
\* The grammar of RFC 8259 on tokens, by cutting a container at the commas
\* that are in no inner container.
Opening == {"begin_array", "begin_object"}
Closing == {"end_array", "end_object"}
Scalars == {"literal_null", "literal_true", "literal_false", "value_string",
            "value_integer", "value_unsigned", "value_float"}

Depth(ts, i) == Cardinality({j \in 1 .. i : ts[j].token \in Opening})
                    - Cardinality({j \in 1 .. i : ts[j].token \in Closing})
Commas(ts) == {i \in 1 .. Len(ts) : ts[i].token = "value_separator" /\ Depth(ts, i) = 0}
Items(ts) ==
    LET cuts == Commas(ts) \cup {0, Len(ts) + 1}
        EndOf(i) == CHOOSE j \in cuts : j > i /\ \A k \in cuts : k > i => j <= k
    IN IF ts = <<>> THEN {} ELSE {<<i + 1, EndOf(i) - 1>> : i \in cuts \ {Len(ts) + 1}}

RECURSIVE IsValue(_)
IsMember(ts) == Len(ts) >= 3 /\ ts[1].token = "value_string"
                    /\ ts[2].token = "name_separator" /\ IsValue(SubSeq(ts, 3, Len(ts)))
IsValue(ts) ==
    LET inner == SubSeq(ts, 2, Len(ts) - 1)
        Item(c) == SubSeq(inner, c[1], c[2])
    IN  IF Len(ts) <= 1
        THEN \E t \in Scalars : /\ Len(ts) = 1 /\ ts[1].token = t
                                /\ t = "value_float" => ts[1].v[2] # Infinite
        ELSE \/ /\ ts[1].token = "begin_array" /\ ts[Len(ts)].token = "end_array"
                /\ \A c \in Items(inner) : IsValue(Item(c))
             \/ /\ ts[1].token = "begin_object" /\ ts[Len(ts)].token = "end_object"
                /\ \A c \in Items(inner) : IsMember(Item(c))

\* The value of such tokens.  Of the members with one key the last one counts.
RECURSIVE ValueOf(_)
ValueOf(ts) ==
    LET inner == SubSeq(ts, 2, Len(ts) - 1)
        items == Items(inner)
        Item(c) == SubSeq(inner, c[1], c[2])
        Nth(i) == CHOOSE c \in items : Cardinality({d \in items : d[1] < c[1]}) = i - 1
        Holding(k) == {c \in items : Item(c)[1].v = k}
        LastOf(S) == CHOOSE c \in S : \A d \in S : d[1] <= c[1]
    IN  CASE ts[1].token = "begin_array" ->
                Array([i \in 1 .. Cardinality(items) |-> ValueOf(Item(Nth(i)))])
          [] ts[1].token = "begin_object" ->
                Object([k \in {Item(c)[1].v : c \in items} |->
                           LET m == Item(LastOf(Holding(k))) IN ValueOf(SubSeq(m, 3, Len(m)))])
          [] OTHER -> Result(Scalar(Initial, ts[1]))

\* The final state of the parser agrees with the tokens ts.
Represents(st, ts) ==
    /\ st.expect = "accepted" <=> IsValue(ts)
    /\ st.expect = "accepted" => Result(st) = ValueOf(ts)

\* json::parse accepts exactly the texts whose tokens are one value, and builds
\* that value: its two stacks, the places it writes to through ref_stack and
\* object_element, and its jumps into the middle of the loop (parser::
\* sax_parse_internal, json_sax_dom_parser) amount to the grammar.
ParsesTheGrammar == Represents(parse(Text), Read)

\* The tokens that end the text in each state of the parser.
RECURSIVE Completion(_)
Completion(st) ==
    IF st.expect = "end" THEN <<>>
    ELSE <<Ending(st)>> \o Completion(Step(st, Ending(st)))

\* The parser in state st, after the tokens ts, has an end to wait for.
CanBecomeValue(st, ts) ==
    st.expect \notin {"error", "accepted"} => IsValue(ts \o Completion(st))

\* The parser goes on only while the tokens can still become a value: when it
\* waits for more, some end of the text makes it one; it reports an error at
\* the first token that rules this out (the position in a parse_error).
WaitsOnlyForViableTexts == family = "tokens" => CanBecomeValue(parser, Read)

-----------------------------------------------------------------------------
\* The largest numbers of the two integer types, in decimal.
MaxUnsigned == <<1,8,4,4,6,7,4,4,0,7,3,7,0,9,5,5,1,6,1,5>>
MinInteger == <<9,2,2,3,3,7,2,0,3,6,8,5,4,7,7,5,8,0,8>>
AtMost(s, limit) ==
    LET l == [i \in 1 .. Len(limit) |-> limit[i] + Ascii["0"]]
    IN Len(s) < Len(l) \/ (Len(s) = Len(l) /\ ~ LessSeq(l, s))

\* The type of a number, and t is the token of the whole of s, if it is one.
NumberType(s) ==
    IF ~ IsInt(s, SignLen(s), Len(s)) THEN "value_float"
    ELSE IF s[1] = Minus
         THEN IF AtMost(Tail(s), MinInteger) THEN "value_integer" ELSE "value_float"
    ELSE IF AtMost(s, MaxUnsigned) THEN "value_unsigned" ELSE "value_float"
IsTokenOf(t, s) ==
    LET whole == t.token # "parse_error" /\ t.p = Len(s) + 1 /\ s # <<>>
    IN  /\ whole <=> IsNumber(s)
        /\ whole => t.token = NumberType(s)

\* lexer::scan_number takes exactly the numbers of the grammar, and gives them
\* the integer types whenever these can hold them: a sign makes the number an
\* integer, and one that is out of range becomes a float instead of a wrong
\* integer.
NumbersKeepTheirType == family = "number" => IsTokenOf(scan(Text, 1), Typed)

\* A value, its text, and the state that the text leads to.
ReadsAs(st, v) == st.expect = "accepted" /\ JsonEq(Result(st), v)
WrittenAs(v, text) == ~ Throws(text) /\ ReadsAs(parse(text), v)
Rewritten(st) ==
    st.expect = "accepted" =>
        \A pretty, ascii \in BOOLEAN :
            WrittenAs(Result(st), dump(Result(st), pretty, ascii, 2, 0))

\* What json::parse has read, dump writes without an exception, compact or
\* indented, with or without ensure_ascii, and the text reads back as the same
\* value.
TextRoundTrip == Rewritten(parse(Text))
=============================================================================
