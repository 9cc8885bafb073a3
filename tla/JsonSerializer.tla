--------------------------- MODULE JsonSerializer ---------------------------
(***************************************************************************)
(* serializer (json.hpp): basic_json::dump, the text of every answer of    *)
(* the service.  The layout is modelled because the text is read back; the *)
(* buffers, the indentation string among them, are left out.               *)
(***************************************************************************)
EXTENDS JsonLexer

\* dump_escaped: a byte that decode rejects, or a string that ends within a
\* character, throws.
RECURSIVE EscapedFrom(_, _, _, _)
EscapedFrom(s, ensure_ascii, state, codep) ==
    IF s = <<>> THEN IF state = Accept THEN <<>> ELSE <<316>>
    ELSE LET d == decode(state, codep, Head(s))
         IN  IF d.state = Reject THEN <<316>>
             ELSE Written(d, Head(s), ensure_ascii)
                    \o EscapedFrom(Tail(s), ensure_ascii, d.state, d.codep)
dump_escaped(s, ensure_ascii) == EscapedFrom(s, ensure_ascii, Accept, 0)

-----------------------------------------------------------------------------
\* dump_integer: the decimal digits of the magnitude, the last one first.
RECURSIVE DecimalDigits(_)
DecimalDigits(w) ==
    IF w = Zero THEN <<>>
    ELSE LET d == DivTenFrom(w, 1, 0) IN DecimalDigits(d[2]) \o <<Ascii["0"] + d[1]>>
dump_integer(w, negative) ==
    IF w = Zero THEN Chars(<<"0">>)
    ELSE IF negative THEN Chars(<<"-">>) \o DecimalDigits(Negate(w))
    ELSE DecimalDigits(w)

\* append_exponent: at least two digits.
append_exponent(e) ==
    LET k == IF e < 0 THEN -e ELSE e
    IN  Chars(<<IF e < 0 THEN "-" ELSE "+">>)
            \o (IF k < 100 THEN <<>> ELSE <<Ascii["0"] + k \div 100>>)
            \o <<Ascii["0"] + ((k \div 10) % 10), Ascii["0"] + (k % 10)>>

\* format_buffer: `digits` times ten to the power `exponent`.
format_buffer(digits, exponent, min_exp, max_exp) ==
    LET k == Len(digits)
        n == k + exponent
        zeros(m) == Fill(Ascii["0"], m)
        point == Chars(<<".">>)
    IN  IF k <= n /\ n <= max_exp THEN digits \o zeros(n - k) \o point \o zeros(1)
        ELSE IF 0 < n /\ n <= max_exp
             THEN SubSeq(digits, 1, n) \o point \o SubSeq(digits, n + 1, k)
        ELSE IF min_exp < n /\ n <= 0
             THEN zeros(1) \o point \o zeros(-n) \o digits
        ELSE <<digits[1]>> \o (IF k = 1 THEN <<>> ELSE point \o Tail(digits))
                \o Chars(<<"e">>) \o append_exponent(n - 1)

\* to_chars: kMinExp is -4 and kMaxExp is digits10 of a double.
to_chars(x) ==
    (IF x[1] THEN Chars(<<"-">>) ELSE <<>>)
        \o (IF x[2] = <<>> THEN Chars(<<"0", ".", "0">>)
            ELSE format_buffer(x[2], x[3], -4, 15))
dump_float(x) == IF x[2] = Infinite THEN NullText ELSE to_chars(x)

-----------------------------------------------------------------------------
\* dump, compact or with a line for each element and `indent` more blanks for
\* each level.
Newline(blanks) == <<10>> \o Fill(32, blanks)

RECURSIVE Joined(_, _)
Joined(items, separator) ==
    IF Len(items) = 1 THEN items[1]
    ELSE items[1] \o separator \o Joined(Tail(items), separator)

\* The items of a container between its brackets.
Enclosed(open, items, close, pretty, step, current) ==
    IF items = <<>> THEN Chars(<<open, close>>)
    ELSE IF pretty
         THEN Chars(<<open>>) \o Newline(current + step)
                \o Joined(items, Chars(<<",">>) \o Newline(current + step))
                \o Newline(current) \o Chars(<<close>>)
    ELSE Chars(<<open>>) \o Joined(items, Chars(<<",">>)) \o Chars(<<close>>)

RECURSIVE dump(_, _, _, _, _)
dump(v, pretty, ensure_ascii, step, current) ==
    LET keys == KeysOf(v)
        quote == Chars(<<"\"">>)
        Quoted(s) == quote \o dump_escaped(s, ensure_ascii) \o quote
        Inner(e) == dump(e, pretty, ensure_ascii, step, current + step)
        colon == Chars(IF pretty THEN <<":", " ">> ELSE <<":">>)
    IN  CASE type(v) = "object" ->
                Enclosed("{", [i \in 1 .. Len(keys) |->
                                  Quoted(keys[i]) \o colon \o Inner(v[2][keys[i]])],
                         "}", pretty, step, current)
          [] type(v) = "array" ->
                Enclosed("[", [i \in 1 .. Len(v[2]) |-> Inner(v[2][i])], "]",
                         pretty, step, current)
          [] type(v) = "string" -> Quoted(v[2])
          [] type(v) = "boolean" -> IF v[2] THEN True ELSE False
          [] type(v) = "integer" -> dump_integer(v[2], IsNegative(v[2]))
          [] type(v) = "unsigned" -> dump_integer(v[2], FALSE)
          [] type(v) = "float" -> dump_float(v[2])
          [] type(v) = "null" -> NullText
          [] OTHER -> <<60>>   \* the text <discarded>, which is not JSON
=============================================================================
