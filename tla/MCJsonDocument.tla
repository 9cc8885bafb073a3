---------------------------- MODULE MCJsonDocument ----------------------------
(***************************************************************************)
(* Documents of two elements with an element each, over the keys           *)
(* a, 0 and ~/ (an index and the characters that pointers escape), and the *)
(* scalars at which the encodings change their form.                       *)
(***************************************************************************)
EXTENDS JsonDocument

MCMaxSize == 2
MCMaxInner == 1

A == Chars(<<"a">>)
Odd == Chars(<<"~", "/">>)
MCKeys == {A, ZeroToken, Odd}
MCLeaves == {Null, Unsigned(Zero), EmptyArray, EmptyObject}

Edges == {Word(n) : n \in {0, 1, 23, 24, 31, 32, 127, 128, 255, 256, 32767, 32768,
                           65535, 65536}}
    \cup {Fill(0, 4) \o <<127, 255, 255, 255>>, Fill(0, 4) \o <<128, 0, 0, 0>>,
          Fill(0, 4) \o Fill(255, 4), <<0, 0, 0, 1, 0, 0, 0, 0>>,
          <<127>> \o Fill(255, 7)}
MCScalars ==
         {Unsigned(w) : w \in Edges \cup {MinusOneMinus(w) : w \in Edges}}
    \cup {Integer(w) : w \in Edges \cup {MinusOneMinus(w) : w \in Edges}}
    \cup {Bool(TRUE), Bool(FALSE), Float(<<63, 240>> \o Fill(0, 6))}
    \cup {Str(Fill(65, n)) : n \in {0, 1, 23, 24, 31, 32, 255, 256}}
    \cup {Copies(n, Null) : n \in {15, 16, 24}}
    \cup {Array(<<Unsigned(Word(200)), Unsigned(Word(300))>>),
          Array(<<Integer(Word(5)), Integer(MinusOneMinus(Word(5)))>>)}

MCPointers == {<<>>, <<Slash>> \o A, <<Slash>> \o ZeroToken,
               <<Slash>> \o escape(Odd), <<Slash>> \o Minus,
               <<Slash>> \o A \o <<Slash>> \o ZeroToken \o ZeroToken,
               <<Slash>> \o ZeroToken \o <<Slash>> \o A}

MCTargets ==
    {Null, EmptyArray, EmptyObject, Array(<<Null, Unsigned(Zero)>>),
     Array(<<EmptyObject>>),
     Object(A :> Null), Object(A :> Unsigned(Zero) @@ Odd :> Array(<<Null>>)),
     Object(Odd :> Object(A :> Null) @@ ZeroToken :> Null)}
=============================================================================
