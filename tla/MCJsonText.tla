------------------------------ MODULE MCJsonText ------------------------------
(***************************************************************************)
(* Short texts for JsonText.  The string bytes are the ends of the ranges  *)
(* that the two UTF-8 validators tell apart.                               *)
(***************************************************************************)
EXTENDS JsonText

MCFamilies == {"tokens", "bytes", "string", "number"}

One(cs) == {<<Ascii[c]>> : c \in cs}

MCTokens ==
    One({"{", "}", "[", "]", ":", ",", "7"})
        \cup {<<Quote, Ascii["a"], Quote>>}

MCBytes ==
    {<<b>> : b \in {65, 127, 128, 143, 144, 159, 160, 191, 193, 194, 224, 225, 237,
                    240, 241, 244, 245}}
    \cup {Chars(<<"\\", "u", "d", "8", "3", "D", "\\", "u", "D", "e", "0", "0">>),
          Chars(<<"\\", "u", "0", "0", "1", "f">>), Chars(<<"\\", "u", "0", "0", "e", "9">>),
          Chars(<<"\\", "\"">>)}

MCStrings ==
    {<<b>> : b \in {31, 65, 128, 194}}
    \cup {Chars(<<"\\", "u", "d", "8", "3", "D">>), Chars(<<"\\", "u", "D", "e", "0", "0">>),
          Chars(<<"\\", "u", "0", "0", "e", "9">>), Chars(<<"\\", "\"">>)}

MCNumbers ==
    One({"-", "0", "1", ".", "e", "+"})
        \cup {Chars(<<".", "5">>), Chars(<<"e", "-">>)}
        \cup {[i \in 1 .. 20 |-> MaxUnsigned[i] + Ascii["0"]],
              [i \in 1 .. 19 |-> MinInteger[i] + Ascii["0"]]}

MCPieces == [tokens |-> MCTokens, bytes |-> MCBytes, string |-> MCStrings, number |-> MCNumbers]
MCMaxPieces == [tokens |-> 11, bytes |-> 4, string |-> 4, number |-> 4]
=============================================================================
