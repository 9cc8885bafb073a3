-------------------------- MODULE JsonBytesProofs ---------------------------
(***************************************************************************)
(* What json.hpp writes it reads back, for every input: strings            *)
(* (JsonString), and the integers and heads of the binary formats          *)
(* (JsonHeads).                                                            *)
(***************************************************************************)
EXTENDS JsonString, JsonHeads, SequenceTheorems, TLAPS

-----------------------------------------------------------------------------
(***************************************************************************)
(* Strings, for every sequence of bytes and escapes: scan_string and the   *)
(* decoder of dump_escaped accept the same texts (ValidatorsAlwaysAgree),  *)
(* and what dump_escaped writes is read back as it was (StringsReadBack).  *)
(* Both walk over the same string; the state of the one gives what the     *)
(* other waits for, and a character is followed through its bytes.         *)
(***************************************************************************)

\* The bytes, and the code points that UTF-8 has a form for: not the surrogates.
Bytes == 0 .. 255
CodePoints == {c \in Nat : c <= 1114111 /\ (c < 55296 \/ c > 57343)}

-----------------------------------------------------------------------------
\* The ranges that scan_string waits for in each state of decode.
WantedIn(state) ==
    CASE state = 0 -> <<>>
      [] state = 1 -> Wrong
      [] state = 2 -> <<Tail80>>
      [] state = 3 -> <<Tail80, Tail80>>
      [] state = 4 -> <<160 .. 191, Tail80>>
      [] state = 5 -> <<128 .. 159, Tail80>>
      [] state = 6 -> <<144 .. 191, Tail80, Tail80>>
      [] state = 7 -> <<Tail80, Tail80, Tail80>>
      [] state = 8 -> <<128 .. 143, Tail80, Tail80>>

\* Only the rejecting state waits for no byte, only the accepting one for none.
LEMMA WantedDiffer ==
    ASSUME NEW state \in 0 .. 8
    PROVE  /\ WantedIn(state) = <<>> <=> state = 0
           /\ WantedIn(state) = Wrong <=> state = 1
<1>1. \A A, B, C : /\ <<A>> # <<>> /\ <<A>>[1] = A /\ <<A, B>> # <<>> /\ <<A, B>>[1] = A
                   /\ <<A, B, C>> # <<>> /\ <<A, B, C>>[1] = A
  OBVIOUS
<1>2. {} # 128 .. 191 /\ {} # 160 .. 191 /\ {} # 128 .. 159 /\ {} # 144 .. 191 /\ {} # 128 .. 143
  <2>1. 128 \in 128 .. 191 /\ 160 \in 160 .. 191 /\ 128 \in 128 .. 159 /\ 144 \in 144 .. 191
        /\ 128 \in 128 .. 143
    OBVIOUS
  <2> QED
    BY <2>1
<1>3. state \in {0, 1, 2, 3, 4, 5, 6, 7, 8}
  OBVIOUS
<1>4. CASE state = 0 BY <1>4, <1>1 DEF WantedIn, Wrong
<1>5. CASE state = 1 BY <1>5, <1>1 DEF WantedIn, Wrong
<1>6. CASE state = 2 BY <1>6, <1>1, <1>2 DEF WantedIn, Wrong, Tail80
<1>7. CASE state = 3 BY <1>7, <1>1, <1>2 DEF WantedIn, Wrong, Tail80
<1>8. CASE state = 4 BY <1>8, <1>1, <1>2 DEF WantedIn, Wrong, Tail80
<1>9. CASE state = 5 BY <1>9, <1>1, <1>2 DEF WantedIn, Wrong, Tail80
<1>10. CASE state = 6 BY <1>10, <1>1, <1>2 DEF WantedIn, Wrong, Tail80
<1>11. CASE state = 7 BY <1>11, <1>1, <1>2 DEF WantedIn, Wrong, Tail80
<1>12. CASE state = 8 BY <1>12, <1>1, <1>2 DEF WantedIn, Wrong, Tail80
<1> QED
  BY <1>3, <1>4, <1>5, <1>6, <1>7, <1>8, <1>9, <1>10, <1>11, <1>12

\* The class of every byte.
LEMMA Classes ==
    ASSUME NEW b \in Bytes
    PROVE  /\ b <= 127 => ByteClass(b) = 0
           /\ b \in 128 .. 143 => ByteClass(b) = 1
           /\ b \in 144 .. 159 => ByteClass(b) = 9
           /\ b \in 160 .. 191 => ByteClass(b) = 7
           /\ b \in 192 .. 193 => ByteClass(b) = 8
           /\ b \in 194 .. 223 => ByteClass(b) = 2
           /\ b = 224 => ByteClass(b) = 10
           /\ b = 237 => ByteClass(b) = 4
           /\ b \in 225 .. 236 \cup 238 .. 239 => ByteClass(b) = 3
           /\ b = 240 => ByteClass(b) = 11
           /\ b \in 241 .. 243 => ByteClass(b) = 6
           /\ b = 244 => ByteClass(b) = 5
           /\ b \in 245 .. 255 => ByteClass(b) = 8
<1>1. b <= 127 => ByteClass(b) = 0
  BY DEF ByteClass, Bytes
<1>2. b \in 128 .. 143 => ByteClass(b) = 1
  BY DEF ByteClass, Bytes
<1>3. b \in 144 .. 159 => ByteClass(b) = 9
  BY DEF ByteClass, Bytes
<1>4. b \in 160 .. 191 => ByteClass(b) = 7
  BY DEF ByteClass, Bytes
<1>5. b \in 192 .. 193 => ByteClass(b) = 8
  BY DEF ByteClass, Bytes
<1>6. b \in 194 .. 223 => ByteClass(b) = 2
  BY DEF ByteClass, Bytes
<1>7. b = 224 => ByteClass(b) = 10
  BY DEF ByteClass, Bytes
<1>8. b = 237 => ByteClass(b) = 4
  BY DEF ByteClass, Bytes
<1>9. b \in 225 .. 236 \cup 238 .. 239 => ByteClass(b) = 3
  BY DEF ByteClass, Bytes
<1>10. b = 240 => ByteClass(b) = 11
  BY DEF ByteClass, Bytes
<1>11. b \in 241 .. 243 => ByteClass(b) = 6
  BY DEF ByteClass, Bytes
<1>12. b = 244 => ByteClass(b) = 5
  BY DEF ByteClass, Bytes
<1>13. b \in 245 .. 255 => ByteClass(b) = 8
  BY DEF ByteClass, Bytes
<1> QED
  BY <1>1, <1>2, <1>3, <1>4, <1>5, <1>6, <1>7, <1>8, <1>9,
     <1>10, <1>11, <1>12, <1>13

\* The states after the first byte of a character.
LEMMA FirstStates ==
    /\ Transition(0, 0) = 0 /\ Transition(0, 1) = 1 /\ Transition(0, 2) = 2
    /\ Transition(0, 3) = 3 /\ Transition(0, 4) = 5 /\ Transition(0, 5) = 8
    /\ Transition(0, 6) = 7 /\ Transition(0, 7) = 1 /\ Transition(0, 8) = 1
    /\ Transition(0, 9) = 1 /\ Transition(0, 10) = 4 /\ Transition(0, 11) = 6
BY DEF Transition

\* What scan_string waits for in each state, one by one.
LEMMA WantedAre ==
    /\ WantedIn(0) = <<>> /\ WantedIn(1) = Wrong /\ WantedIn(2) = <<Tail80>>
    /\ WantedIn(3) = <<Tail80, Tail80>> /\ WantedIn(4) = <<160 .. 191, Tail80>>
    /\ WantedIn(5) = <<128 .. 159, Tail80>> /\ WantedIn(6) = <<144 .. 191, Tail80, Tail80>>
    /\ WantedIn(7) = <<Tail80, Tail80, Tail80>> /\ WantedIn(8) = <<128 .. 143, Tail80, Tail80>>
BY DEF WantedIn

\* The ranges after each leading byte.
LEMMA Tails ==
    ASSUME NEW b \in Bytes
    PROVE  /\ b \in 0 .. 193 \cup 245 .. 255 => Utf8Tail(b) = <<>>
           /\ b \in 194 .. 223 => Utf8Tail(b) = WantedIn(2)
           /\ b = 224 => Utf8Tail(b) = WantedIn(4)
           /\ b \in 225 .. 236 \cup 238 .. 239 => Utf8Tail(b) = WantedIn(3)
           /\ b = 237 => Utf8Tail(b) = WantedIn(5)
           /\ b = 240 => Utf8Tail(b) = WantedIn(6)
           /\ b \in 241 .. 243 => Utf8Tail(b) = WantedIn(7)
           /\ b = 244 => Utf8Tail(b) = WantedIn(8)
<1>1. Utf8Tail(b) =
          CASE b \in 194 .. 223 -> WantedIn(2)
            [] b = 224 -> WantedIn(4)
            [] b \in 225 .. 236 \cup {238, 239} -> WantedIn(3)
            [] b = 237 -> WantedIn(5)
            [] b = 240 -> WantedIn(6)
            [] b \in 241 .. 243 -> WantedIn(7)
            [] b = 244 -> WantedIn(8)
            [] OTHER -> WantedIn(0)
  BY WantedAre, Zenon DEF Utf8Tail
<1>2. b \in 0 .. 193 \cup 245 .. 255 => Utf8Tail(b) = WantedIn(0)
  BY <1>1 DEF Bytes
<1>3. b \in 194 .. 223 => Utf8Tail(b) = WantedIn(2)
  BY <1>1 DEF Bytes
<1>4. b = 224 => Utf8Tail(b) = WantedIn(4)
  BY <1>1 DEF Bytes
<1>5. b \in 225 .. 236 \cup 238 .. 239 => Utf8Tail(b) = WantedIn(3)
  BY <1>1 DEF Bytes
<1>6. b = 237 => Utf8Tail(b) = WantedIn(5)
  BY <1>1 DEF Bytes
<1>7. b = 240 => Utf8Tail(b) = WantedIn(6)
  BY <1>1 DEF Bytes
<1>8. b \in 241 .. 243 => Utf8Tail(b) = WantedIn(7)
  BY <1>1 DEF Bytes
<1>9. b = 244 => Utf8Tail(b) = WantedIn(8)
  BY <1>1 DEF Bytes
<1>10. WantedIn(0) = <<>>
  BY WantedAre
<1> QED
  BY <1>2, <1>3, <1>4, <1>5, <1>6, <1>7, <1>8, <1>9, <1>10, Zenon

\* What scan_string waits for after the first byte of a character.
LEMMA FirstByte ==
    ASSUME NEW b \in Unescaped \cup 128 .. 255
    PROVE  ScanByte(<<>>, b) = WantedIn(Transition(0, ByteClass(b)))
<1>1. b \in Bytes
  BY DEF Unescaped, Bytes
<1>2. \A state \in 2 .. 8 : WantedIn(state) # <<>>
  BY WantedDiffer
<1>3. CASE b <= 127
  <2>1. ByteClass(b) = 0
    BY <1>1, <1>3, Classes
  <2>2. ScanByte(<<>>, b) = <<>>
    BY <1>3 DEF ScanByte, Unescaped
  <2> QED
    BY <2>1, <2>2, FirstStates, WantedAre
<1>4. b > 127 => ScanByte(<<>>, b) = IF Utf8Tail(b) # <<>> THEN Utf8Tail(b) ELSE Wrong
  BY <1>1 DEF ScanByte, Unescaped, Bytes
<1>5. CASE b \in 128 .. 193 \cup 245 .. 255
  <2>0. b > 127 /\ b \in 0 .. 193 \cup 245 .. 255
    BY <1>1, <1>5 DEF Bytes
  <2>1. Utf8Tail(b) = <<>>
    BY <2>0, <1>1, Tails, Zenon
  <2>2. ByteClass(b) \in {1, 7, 8, 9}
    BY <1>1, <1>5, Classes
  <2>3. Transition(0, ByteClass(b)) = 1
    BY <2>2, FirstStates
  <2> QED
    BY <2>0, <2>1, <2>3, <1>4, WantedAre
<1>6. CASE b \in 194 .. 223
  <2>0. b > 127
    BY <1>6
  <2>1. Utf8Tail(b) = WantedIn(2)
    BY <1>1, <1>6, Tails
  <2>2. ByteClass(b) = 2
    BY <1>1, <1>6, Classes
  <2> QED
    BY <2>0, <2>1, <2>2, <1>2, <1>4, FirstStates
<1>7. CASE b = 224
  <2>0. b > 127
    BY <1>7
  <2>1. Utf8Tail(b) = WantedIn(4)
    BY <1>1, <1>7, Tails
  <2>2. ByteClass(b) = 10
    BY <1>1, <1>7, Classes
  <2> QED
    BY <2>0, <2>1, <2>2, <1>2, <1>4, FirstStates
<1>8. CASE b = 237
  <2>0. b > 127
    BY <1>8
  <2>1. Utf8Tail(b) = WantedIn(5)
    BY <1>1, <1>8, Tails
  <2>2. ByteClass(b) = 4
    BY <1>1, <1>8, Classes
  <2> QED
    BY <2>0, <2>1, <2>2, <1>2, <1>4, FirstStates
<1>9. CASE b \in 225 .. 236 \cup 238 .. 239
  <2>0. b > 127
    BY <1>9
  <2>1. Utf8Tail(b) = WantedIn(3)
    BY <1>1, <1>9, Tails
  <2>2. ByteClass(b) = 3
    BY <1>1, <1>9, Classes
  <2> QED
    BY <2>0, <2>1, <2>2, <1>2, <1>4, FirstStates
<1>10. CASE b = 240
  <2>0. b > 127
    BY <1>10
  <2>1. Utf8Tail(b) = WantedIn(6)
    BY <1>1, <1>10, Tails
  <2>2. ByteClass(b) = 11
    BY <1>1, <1>10, Classes
  <2> QED
    BY <2>0, <2>1, <2>2, <1>2, <1>4, FirstStates
<1>11. CASE b \in 241 .. 243
  <2>0. b > 127
    BY <1>11
  <2>1. Utf8Tail(b) = WantedIn(7)
    BY <1>1, <1>11, Tails
  <2>2. ByteClass(b) = 6
    BY <1>1, <1>11, Classes
  <2> QED
    BY <2>0, <2>1, <2>2, <1>2, <1>4, FirstStates
<1>12. CASE b = 244
  <2>0. b > 127
    BY <1>12
  <2>1. Utf8Tail(b) = WantedIn(8)
    BY <1>1, <1>12, Tails
  <2>2. ByteClass(b) = 5
    BY <1>1, <1>12, Classes
  <2> QED
    BY <2>0, <2>1, <2>2, <1>2, <1>4, FirstStates
<1> QED
  BY <1>1, <1>3, <1>5, <1>6, <1>7, <1>8, <1>9, <1>10, <1>11, <1>12 DEF Bytes

\* A later byte of a character.
LEMMA LaterByte ==
    ASSUME NEW state \in 2 .. 8, NEW b \in Bytes
    PROVE  ScanByte(WantedIn(state), b) = WantedIn(Transition(state, ByteClass(b)))
<1> DEFINE class == ByteClass(b)
<1>1. /\ b \in 128 .. 191 <=> class \in {1, 7, 9}
      /\ b \in 160 .. 191 <=> class = 7
      /\ b \in 128 .. 159 <=> class \in {1, 9}
      /\ b \in 144 .. 191 <=> class \in {7, 9}
      /\ b \in 128 .. 143 <=> class = 1
  BY Classes DEF Bytes
<1>2. ScanByte(WantedIn(state), b) =
          IF b \in Head(WantedIn(state)) THEN Tail(WantedIn(state)) ELSE Wrong
  BY WantedDiffer DEF ScanByte, next_byte_in_range
<1>3. \A A, B, C : /\ Head(<<A>>) = A /\ Tail(<<A>>) = <<>>
                   /\ Head(<<A, B>>) = A /\ Tail(<<A, B>>) = <<B>>
                   /\ Head(<<A, B, C>>) = A /\ Tail(<<A, B, C>>) = <<B, C>>
  OBVIOUS
<1> HIDE DEF class
<1>4. CASE state = 2 BY <1>1, <1>2, <1>3, <1>4 DEF WantedIn, Transition, Tail80, class
<1>5. CASE state = 3 BY <1>1, <1>2, <1>3, <1>5 DEF WantedIn, Transition, Tail80, class
<1>6. CASE state = 4 BY <1>1, <1>2, <1>3, <1>6 DEF WantedIn, Transition, Tail80, class
<1>7. CASE state = 5 BY <1>1, <1>2, <1>3, <1>7 DEF WantedIn, Transition, Tail80, class
<1>8. CASE state = 6 BY <1>1, <1>2, <1>3, <1>8 DEF WantedIn, Transition, Tail80, class
<1>9. CASE state = 7 BY <1>1, <1>2, <1>3, <1>9 DEF WantedIn, Transition, Tail80, class
<1>10. CASE state = 8 BY <1>1, <1>2, <1>3, <1>10 DEF WantedIn, Transition, Tail80, class
<1> QED
  BY <1>4, <1>5, <1>6, <1>7, <1>8, <1>9, <1>10

-----------------------------------------------------------------------------
\* The bytes of a character that is not whole yet, and what decode has made of
\* them: one, two or three bytes.
One(state, codep, x) ==
    \/ state = 2 /\ x \in 194 .. 223 /\ codep = x - 192
    \/ state = 3 /\ x \in 225 .. 239 \ {237} /\ codep = x - 224
    \/ state = 4 /\ x = 224 /\ codep = 0
    \/ state = 5 /\ x = 237 /\ codep = 13
    \/ state = 6 /\ x = 240 /\ codep = 0
    \/ state = 7 /\ x \in 241 .. 243 /\ codep = x - 240
    \/ state = 8 /\ x = 244 /\ codep = 4
Two(state, codep, x, y) ==
    /\ y \in 128 .. 191
    /\ \/ /\ state = 2 /\ x \in 224 .. 239 /\ codep = (x - 224) * 64 + (y - 128)
          /\ codep >= 32 /\ (codep < 864 \/ codep > 895)
       \/ /\ state = 3 /\ x \in 240 .. 244 /\ codep = (x - 240) * 64 + (y - 128)
          /\ codep >= 16 /\ codep <= 271
Three(state, codep, x, y, z) ==
    /\ state = 2 /\ x \in 240 .. 244 /\ y \in 128 .. 191 /\ z \in 128 .. 191
    /\ codep = ((x - 240) * 64 + (y - 128)) * 64 + (z - 128) /\ codep >= 1024 /\ codep <= 17407
Pending(state, codep, bytes) ==
    \/ state = 0 /\ bytes = <<>>
    \/ \E x \in Bytes : bytes = <<x>> /\ One(state, codep, x)
    \/ \E x, y \in Bytes : bytes = <<x, y>> /\ Two(state, codep, x, y)
    \/ \E x, y, z \in Bytes : bytes = <<x, y, z>> /\ Three(state, codep, x, y, z)

\* The bits of the first byte that decode keeps.
LEMMA FirstBits ==
    ASSUME NEW b \in Bytes, NEW codep
    PROVE  /\ b <= 127 => decode(0, codep, b) = [state |-> 0, codep |-> b]
           /\ b > 127 => LET d == decode(0, codep, b)
                         IN  d.state = 1 \/ One(d.state, d.codep, b)
<1>1. decode(0, codep, b) = [state |-> Transition(0, ByteClass(b)),
                             codep |-> b % Mask(ByteClass(b))]
  BY DEF decode, Accept
<1>2. /\ Mask(0) = 256 /\ Mask(2) = 64 /\ Mask(3) = 32 /\ Mask(4) = 16 /\ Mask(5) = 8
      /\ Mask(6) = 4 /\ Mask(10) = 1 /\ Mask(11) = 1
  BY DEF Mask
<1>3. CASE b <= 127
  <2>1. ByteClass(b) = 0 /\ b % 256 = b
    BY <1>3, Classes DEF Bytes
  <2>2. ~ b > 127
    BY <1>3 DEF Bytes
  <2>3. decode(0, codep, b) = [state |-> 0, codep |-> b]
    BY <2>1, <1>1, <1>2, FirstStates
  <2> QED
    BY <2>2, <2>3, Zenon
<1>4. CASE b \in 128 .. 193 \cup 245 .. 255
  <2>1. ByteClass(b) \in {1, 7, 8, 9}
    BY <1>4, Classes
  <2> QED
    BY <2>1, <1>1, <1>4, FirstStates
<1>5. CASE b \in 194 .. 223
  <2>1. ByteClass(b) = 2 /\ b % 64 = b - 192
    BY <1>5, Classes DEF Bytes
  <2> QED
    BY <2>1, <1>1, <1>2, <1>5, FirstStates DEF One
<1>6. CASE b = 224
  <2>1. ByteClass(b) = 10 /\ b % 1 = 0
    BY <1>6, Classes DEF Bytes
  <2> QED
    BY <2>1, <1>1, <1>2, <1>6, FirstStates DEF One
<1>7. CASE b = 237
  <2>1. ByteClass(b) = 4 /\ b % 16 = 13
    BY <1>7, Classes DEF Bytes
  <2> QED
    BY <2>1, <1>1, <1>2, <1>7, FirstStates DEF One
<1>8. CASE b \in 225 .. 236 \cup 238 .. 239
  <2>1. ByteClass(b) = 3 /\ b % 32 = b - 224
    BY <1>8, Classes DEF Bytes
  <2> QED
    BY <2>1, <1>1, <1>2, <1>8, FirstStates DEF One
<1>9. CASE b = 240
  <2>1. ByteClass(b) = 11 /\ b % 1 = 0
    BY <1>9, Classes DEF Bytes
  <2> QED
    BY <2>1, <1>1, <1>2, <1>9, FirstStates DEF One
<1>10. CASE b \in 241 .. 243
  <2>1. ByteClass(b) = 6 /\ b % 4 = b - 240
    BY <1>10, Classes DEF Bytes
  <2> QED
    BY <2>1, <1>1, <1>2, <1>10, FirstStates DEF One
<1>11. CASE b = 244
  <2>1. ByteClass(b) = 5 /\ b % 8 = 4
    BY <1>11, Classes DEF Bytes
  <2> QED
    BY <2>1, <1>1, <1>2, <1>11, FirstStates DEF One
<1> QED
  BY <1>3, <1>4, <1>5, <1>6, <1>7, <1>8, <1>9, <1>10, <1>11 DEF Bytes

\* What decode makes of a byte inside a character.
Later(d, state, codep, b) ==
    /\ d.state # 1 => b \in 128 .. 191 /\ d.codep = codep * 64 + (b - 128)
    /\ state = 2 => d.state \in {0, 1}
    /\ state \in 3 .. 5 => d.state \in {1, 2}
    /\ state \in 6 .. 8 => d.state \in {1, 3}
    /\ state = 4 => d.state = 1 \/ b >= 160
    /\ state = 5 => d.state = 1 \/ b <= 159
    /\ state = 6 => d.state = 1 \/ b >= 144
    /\ state = 8 => d.state = 1 \/ b <= 143

\* A later byte, decoded.
LEMMA LaterBits ==
    ASSUME NEW state \in 2 .. 8, NEW codep \in Nat, NEW b \in Bytes
    PROVE  Later(decode(state, codep, b), state, codep, b)
<1>1. decode(state, codep, b) = [state |-> Transition(state, ByteClass(b)),
                                 codep |-> (b % 64) + codep * 64]
  BY DEF decode, Accept
<1>2. ByteClass(b) \in {1, 7, 9} <=> b \in 128 .. 191
  BY Classes DEF Bytes
<1>3. (ByteClass(b) = 7 <=> b \in 160 .. 191) /\ (ByteClass(b) = 1 <=> b \in 128 .. 143)
  BY Classes DEF Bytes
<1>4. b \in 128 .. 191 => b % 64 = b - 128
  OBVIOUS
<1>5. state \in {2, 3, 4, 5, 6, 7, 8}
  OBVIOUS
<1>6. Transition(state, ByteClass(b)) =
          IF \/ state \in {2, 3, 7} /\ ByteClass(b) \in {1, 7, 9}
             \/ state = 4 /\ ByteClass(b) = 7
             \/ state = 5 /\ ByteClass(b) \in {1, 9}
             \/ state = 6 /\ ByteClass(b) \in {7, 9}
             \/ state = 8 /\ ByteClass(b) = 1
          THEN IF state = 2 THEN 0 ELSE IF state \in {3, 4, 5} THEN 2 ELSE 3
          ELSE 1
  BY <1>5 DEF Transition
<1> QED
  BY <1>1, <1>2, <1>3, <1>4, <1>6 DEF Later

\* A byte after one byte.
LEMMA AppendOne ==
    ASSUME NEW S, NEW x \in S, NEW b \in S
    PROVE  Append(<<x>>, b) = <<x, b>>
<1>1. <<x>> \in Seq(S) /\ <<x, b>> \in Seq(S) /\ Len(<<x>>) = 1 /\ Len(<<x, b>>) = 2
  OBVIOUS
<1>2. Append(<<x>>, b) \in Seq(S) /\ Len(Append(<<x>>, b)) = 2
  BY <1>1, AppendProperties
<1>3. Append(<<x>>, b)[1] = x /\ Append(<<x>>, b)[2] = b
  BY <1>1, AppendProperties
<1>4. \A i \in 1 .. 2 : Append(<<x>>, b)[i] = <<x, b>>[i]
  BY <1>3
<1> QED
  BY <1>1, <1>2, <1>4, SeqEqual, Zenon

\* The same after two bytes.
LEMMA AppendTwo ==
    ASSUME NEW S, NEW x \in S, NEW y \in S, NEW b \in S
    PROVE  Append(<<x, y>>, b) = <<x, y, b>>
<1>1. <<x, y>> \in Seq(S) /\ <<x, y, b>> \in Seq(S) /\ Len(<<x, y>>) = 2 /\ Len(<<x, y, b>>) = 3
  OBVIOUS
<1>2. Append(<<x, y>>, b) \in Seq(S) /\ Len(Append(<<x, y>>, b)) = 3
  BY <1>1, AppendProperties
<1>3. /\ Append(<<x, y>>, b)[1] = x /\ Append(<<x, y>>, b)[2] = y
      /\ Append(<<x, y>>, b)[3] = b
  BY <1>1, AppendProperties
<1>4. \A i \in 1 .. 3 : Append(<<x, y>>, b)[i] = <<x, y, b>>[i]
  BY <1>3
<1> QED
  BY <1>1, <1>2, <1>4, SeqEqual, Zenon

\* The same after three bytes.
LEMMA AppendThree ==
    ASSUME NEW S, NEW x \in S, NEW y \in S, NEW z \in S, NEW b \in S
    PROVE  Append(<<x, y, z>>, b) = <<x, y, z, b>>
<1>1. /\ <<x, y, z>> \in Seq(S) /\ <<x, y, z, b>> \in Seq(S)
      /\ Len(<<x, y, z>>) = 3 /\ Len(<<x, y, z, b>>) = 4
  OBVIOUS
<1>2. Append(<<x, y, z>>, b) \in Seq(S) /\ Len(Append(<<x, y, z>>, b)) = 4
  BY <1>1, AppendProperties
<1>3. /\ Append(<<x, y, z>>, b)[1] = x /\ Append(<<x, y, z>>, b)[2] = y
      /\ Append(<<x, y, z>>, b)[3] = z /\ Append(<<x, y, z>>, b)[4] = b
  BY <1>1, AppendProperties
<1>4. \A i \in 1 .. 4 : Append(<<x, y, z>>, b)[i] = <<x, y, z, b>>[i]
  BY <1>3
<1> QED
  BY <1>1, <1>2, <1>4, SeqEqual, Zenon

\* A character beyond ASCII and its bytes.
Whole(c, s) == c \in CodePoints /\ c >= 128 /\ Utf8(c) = s

\* The last byte of a character of two, three and four bytes.
LEMMA CompleteTwo ==
    ASSUME NEW x \in Bytes, NEW b \in 128 .. 191, NEW codep \in Nat, One(2, codep, x)
    PROVE  Whole(codep * 64 + (b - 128), <<x, b>>)
<1> DEFINE c == codep * 64 + (b - 128)
<1>0. c = codep * 64 + (b - 128) /\ c \in Nat
  OBVIOUS
<1> HIDE DEF c
<1>1. x >= 194 /\ x <= 223 /\ codep = x - 192
  BY DEF One, Bytes
<1>2. c >= 128 /\ c <= 2047
  BY <1>0, <1>1 DEF Bytes
<1>3. x = 192 + c \div 64 /\ b = 128 + (c % 64)
  BY <1>0, <1>1 DEF Bytes
<1>4. Utf8(c) = <<x, b>>
  BY <1>0, <1>2, <1>3, SMTT(20) DEF Utf8
<1>5. c \in CodePoints
  BY <1>0, <1>2, SMTT(20) DEF CodePoints
<1> QED
  BY <1>0, <1>2, <1>4, <1>5, SMTT(20) DEF Whole

\* The same with three bytes.
LEMMA CompleteThree ==
    ASSUME NEW x \in Bytes, NEW y \in Bytes, NEW b \in 128 .. 191, NEW codep \in Nat,
           Two(2, codep, x, y)
    PROVE  Whole(codep * 64 + (b - 128), <<x, y, b>>)
<1> DEFINE c == codep * 64 + (b - 128)
<1>0. c = codep * 64 + (b - 128) /\ c \in Nat
  OBVIOUS
<1> HIDE DEF c
<1>1. /\ x >= 224 /\ x <= 239 /\ y >= 128 /\ y <= 191 /\ codep = (x - 224) * 64 + (y - 128)
      /\ codep >= 32 /\ (codep < 864 \/ codep > 895)
  BY DEF Two, Bytes
<1>2. c >= 2048 /\ c <= 65535 /\ (c < 55296 \/ c > 57343)
  BY <1>0, <1>1 DEF Bytes
<1>3. x = 224 + c \div 4096 /\ y = 128 + ((c \div 64) % 64) /\ b = 128 + (c % 64)
  BY <1>0, <1>1 DEF Bytes
<1>4. Utf8(c) = <<x, y, b>>
  BY <1>0, <1>2, <1>3, SMTT(20) DEF Utf8
<1>5. c \in CodePoints
  BY <1>0, <1>2, SMTT(20) DEF CodePoints
<1> QED
  BY <1>0, <1>2, <1>4, <1>5, SMTT(20) DEF Whole

\* The same with four bytes.
LEMMA CompleteFour ==
    ASSUME NEW x \in Bytes, NEW y \in Bytes, NEW z \in Bytes, NEW b \in 128 .. 191,
           NEW codep \in Nat, Three(2, codep, x, y, z)
    PROVE  Whole(codep * 64 + (b - 128), <<x, y, z, b>>)
<1> DEFINE c == codep * 64 + (b - 128)
<1>0. c = codep * 64 + (b - 128) /\ c \in Nat
  OBVIOUS
<1> HIDE DEF c
<1>1. /\ x >= 240 /\ x <= 244 /\ y >= 128 /\ y <= 191 /\ z >= 128 /\ z <= 191
      /\ codep = ((x - 240) * 64 + (y - 128)) * 64 + (z - 128)
      /\ codep >= 1024 /\ codep <= 17407
  BY DEF Three, Bytes
<1>2. c >= 65536 /\ c <= 1114111
  BY <1>0, <1>1, SMTT(20)
<1>3. x = 240 + c \div 262144
  BY <1>0, <1>1, SMTT(20) DEF Bytes
<1>4. y = 128 + ((c \div 4096) % 64)
  BY <1>0, <1>1, SMTT(20) DEF Bytes
<1>5. z = 128 + ((c \div 64) % 64) /\ b = 128 + (c % 64)
  <2>1. c \div 64 = codep /\ b = 128 + (c % 64)
    BY <1>0
  <2>2. z = 128 + (codep % 64)
    BY <1>1 DEF Bytes
  <2> QED
    BY <2>1, <2>2
<1>6. Utf8(c) = <<x, y, z, b>>
  BY <1>0, <1>2, <1>3, <1>4, <1>5, SMTT(20) DEF Utf8
<1>7. c \in CodePoints
  BY <1>0, <1>2, SMTT(20) DEF CodePoints
<1> QED
  BY <1>0, <1>2, <1>6, <1>7, SMTT(20) DEF Whole

\* One more byte completes the character, or leaves it pending.
Grown(d, bytes, b) ==
    /\ b >= 128
    /\ \/ /\ d.state = 0 /\ d.codep \in CodePoints /\ d.codep >= 128
          /\ Utf8(d.codep) = Append(bytes, b)
       \/ /\ d.state \in 2 .. 8 /\ d.codep \in Nat
          /\ Pending(d.state, d.codep, Append(bytes, b))

\* The code point that bytes make up, byte after byte.
LEMMA PendingGrows ==
    ASSUME NEW state \in 2 .. 8, NEW codep \in Nat, NEW bytes, Pending(state, codep, bytes),
           NEW b \in Bytes
    PROVE  LET d == decode(state, codep, b)
           IN  d.state = 1 \/ Grown(d, bytes, b)
<1> DEFINE d == decode(state, codep, b)
<1>b. SUFFICES ASSUME d.state # 1 PROVE Grown(d, bytes, b)
  BY Zenon
<1>e. Later(d, state, codep, b)
  BY LaterBits, Zenon
<1> HIDE DEF d
<1>a. /\ d.state # 1 => b \in 128 .. 191 /\ d.codep = codep * 64 + (b - 128)
      /\ state = 2 => d.state \in {0, 1}
      /\ state \in 3 .. 5 => d.state \in {1, 2}
      /\ state \in 6 .. 8 => d.state \in {1, 3}
      /\ state = 4 => d.state = 1 \/ b >= 160
      /\ state = 5 => d.state = 1 \/ b <= 159
      /\ state = 6 => d.state = 1 \/ b >= 144
      /\ state = 8 => d.state = 1 \/ b <= 143
  BY <1>e DEF Later
<1>c. b \in 128 .. 191 /\ d.codep = codep * 64 + (b - 128) /\ b >= 128
  BY <1>a, <1>b
<1>d. b = 128 + (b - 128) /\ d.codep \in Nat
  BY <1>c
<1>1. ASSUME NEW x \in Bytes, bytes = <<x>>, One(state, codep, x) PROVE Grown(d, bytes, b)
  <2>0. Append(bytes, b) = <<x, b>>
    BY <1>1, AppendOne
  <2>1. CASE state = 2
    <3>0. One(2, codep, x)
      BY <1>1, <2>1
    <3>1. Whole(codep * 64 + (b - 128), <<x, b>>)
      BY <3>0, <1>c, CompleteTwo
    <3>2. d.state = 0
      BY <1>a, <1>b, <2>1
    <3> QED
      BY <2>0, <3>1, <3>2, <1>c DEF Grown, Whole
  <2>2. CASE state # 2
    <3>1. Two(d.state, d.codep, x, b) /\ d.state \in 2 .. 8
      BY <1>1, <1>a, <1>b, <1>c, <2>2 DEF One, Two, Bytes
    <3>2. Pending(d.state, d.codep, <<x, b>>)
      BY <3>1 DEF Pending
    <3> QED
      BY <2>0, <3>1, <3>2, <1>c, <1>d DEF Grown
  <2> QED
    BY <2>1, <2>2
<1>2. ASSUME NEW x \in Bytes, NEW y \in Bytes, bytes = <<x, y>>, Two(state, codep, x, y)
      PROVE  Grown(d, bytes, b)
  <2>0. Append(bytes, b) = <<x, y, b>>
    BY <1>2, AppendTwo
  <2>1. CASE state = 2
    <3>0. Two(2, codep, x, y)
      BY <1>2, <2>1
    <3>1. Whole(codep * 64 + (b - 128), <<x, y, b>>)
      BY <3>0, <1>c, CompleteThree
    <3>2. d.state = 0
      BY <1>a, <1>b, <2>1
    <3> QED
      BY <2>0, <3>1, <3>2, <1>c DEF Grown, Whole
  <2>2. CASE state # 2
    <3>1. Three(d.state, d.codep, x, y, b) /\ d.state \in 2 .. 8
      BY <1>2, <1>a, <1>b, <1>c, <2>2 DEF Two, Three, Bytes
    <3>2. Pending(d.state, d.codep, <<x, y, b>>)
      BY <3>1 DEF Pending
    <3> QED
      BY <2>0, <3>1, <3>2, <1>c, <1>d DEF Grown
  <2> QED
    BY <2>1, <2>2
<1>3. ASSUME NEW x \in Bytes, NEW y \in Bytes, NEW z \in Bytes, bytes = <<x, y, z>>,
             Three(state, codep, x, y, z)
      PROVE  Grown(d, bytes, b)
  <2>0. Append(bytes, b) = <<x, y, z, b>>
    BY <1>3, AppendThree
  <2>1. state = 2
    BY <1>3 DEF Three
  <2>2. Whole(codep * 64 + (b - 128), <<x, y, z, b>>)
    BY <1>3, <1>c, <2>1, CompleteFour
  <2>3. d.state = 0
    BY <1>a, <1>b, <2>1
  <2> QED
    BY <2>0, <2>2, <2>3, <1>c DEF Grown, Whole
<1> QED
  BY <1>1, <1>2, <1>3 DEF Pending

-----------------------------------------------------------------------------
\* A hexadecimal digit reads back.
LEMMA HexBack ==
    ASSUME NEW n \in Nat, n <= 15
    PROVE  Hex(HexDigit(n)) = n
<1>1. CASE n < 10
  <2>1. HexDigit(n) = 48 + n /\ 48 + n \in 48 .. 57
    BY <1>1 DEF HexDigit
  <2> QED
    BY <2>1 DEF Hex
<1>2. CASE ~ n < 10
  <2>1. HexDigit(n) = 87 + n /\ 87 + n \in 97 .. 102
    BY <1>2 DEF HexDigit
  <2> QED
    BY <2>1 DEF Hex
<1> QED
  BY <1>1, <1>2

\* The code points of the basic plane and of the others.
Basic == {c \in Nat : c <= 65535}
Beyond == {c \in Nat : c >= 65536 /\ c <= 1114111}

\* get_codepoint reads what "%04x" writes.
LEMMA DigitsBack ==
    ASSUME NEW c \in Basic, NEW bs, NEW p \in Nat,
           Byte(bs, p) = HexDigit(c \div 4096), Byte(bs, p + 1) = HexDigit((c \div 256) % 16),
           Byte(bs, p + 2) = HexDigit((c \div 16) % 16), Byte(bs, p + 3) = HexDigit(c % 16)
    PROVE  get_codepoint(bs, p) = c
<1> DEFINE h == [i \in 0 .. 3 |-> Hex(Byte(bs, p + i))]
           h0 == c \div 4096
           h1 == (c \div 256) % 16
           h2 == (c \div 16) % 16
           h3 == c % 16
<1>1. /\ h0 \in Nat /\ h0 <= 15 /\ h1 \in Nat /\ h1 <= 15 /\ h2 \in Nat /\ h2 <= 15
      /\ h3 \in Nat /\ h3 <= 15
  BY SMTT(20) DEF Basic
<1>2. ((h0 * 16 + h1) * 16 + h2) * 16 + h3 = c
  BY SMTT(20) DEF Basic
<1> HIDE DEF h0, h1, h2, h3
<1>3. Hex(HexDigit(h0)) = h0 /\ Hex(HexDigit(h1)) = h1 /\ Hex(HexDigit(h2)) = h2
      /\ Hex(HexDigit(h3)) = h3
  BY <1>1, HexBack
<1>4. h[0] = h0 /\ h[1] = h1 /\ h[2] = h2 /\ h[3] = h3
  <2>1. p + 0 = p
    OBVIOUS
  <2> QED
    BY <2>1, <1>3 DEF h0, h1, h2, h3
<1>5. get_codepoint(bs, p) = Codepoint(h)
  BY DEF get_codepoint
<1> HIDE DEF h
<1>6. ~ \E i \in 0 .. 3 : h[i] = -1
  BY <1>1, <1>4
<1> QED
  BY <1>2, <1>4, <1>5, <1>6 DEF Codepoint

\* The characters of an escape.
LEMMA EscapeCodeIs ==
    ASSUME NEW c \in Basic
    PROVE  LET s == EscapeCode(c)
           IN  /\ s \in Seq(Nat) /\ Len(s) = 6 /\ s[1] = Backslash /\ s[2] = LetterU
               /\ s[3] = HexDigit(c \div 4096) /\ s[4] = HexDigit((c \div 256) % 16)
               /\ s[5] = HexDigit((c \div 16) % 16) /\ s[6] = HexDigit(c % 16)
<1>1. /\ c \div 4096 \in Nat /\ (c \div 256) % 16 \in Nat
      /\ (c \div 16) % 16 \in Nat /\ c % 16 \in Nat
  BY SMTT(20) DEF Basic
<1>2. \A n \in Nat : HexDigit(n) \in Nat
  BY DEF HexDigit
<1> DEFINE a == HexDigit(c \div 4096)
           b == HexDigit((c \div 256) % 16)
           d == HexDigit((c \div 16) % 16)
           e == HexDigit(c % 16)
<1>3. a \in Nat /\ b \in Nat /\ d \in Nat /\ e \in Nat
  BY <1>1, <1>2
<1>4. EscapeCode(c) = <<Backslash, LetterU, a, b, d, e>>
  BY DEF EscapeCode
<1> HIDE DEF a, b, d, e
<1>5. LET s == <<Backslash, LetterU, a, b, d, e>>
      IN  /\ s \in Seq(Nat) /\ Len(s) = 6 /\ s[1] = Backslash /\ s[2] = LetterU
          /\ s[3] = a /\ s[4] = b /\ s[5] = d /\ s[6] = e
  BY <1>3 DEF Backslash, LetterU
<1> QED
  BY <1>4, <1>5 DEF a, b, d, e

\* A \u escape reads back as its code point.
LEMMA ShortCodeBack ==
    ASSUME NEW c \in Basic \cap CodePoints
    PROVE  EscapeBytes(EscapeCode(c)) = Utf8(c)
<1> DEFINE s == EscapeCode(c)
<1>1. /\ s \in Seq(Nat) /\ Len(s) = 6 /\ s[1] = Backslash /\ s[2] = LetterU
      /\ s[3] = HexDigit(c \div 4096) /\ s[4] = HexDigit((c \div 256) % 16)
      /\ s[5] = HexDigit((c \div 16) % 16) /\ s[6] = HexDigit(c % 16)
  BY EscapeCodeIs
<1> HIDE DEF s
<1>2. Byte(s, 3) = s[3] /\ Byte(s, 3 + 1) = s[4] /\ Byte(s, 3 + 2) = s[5] /\ Byte(s, 3 + 3) = s[6]
  BY <1>1 DEF Byte
<1>3. get_codepoint(s, 3) = c
  BY <1>1, <1>2, DigitsBack
<1>4. \A second : EscapedBytes(c, second) = <<Utf8(c), 4>>
  BY SMTT(20) DEF EscapedBytes, Basic, CodePoints
<1>5. CodepointEscape(s, 3) = <<Utf8(c), 4>>
  BY <1>3, <1>4, Zenon DEF CodepointEscape
<1>6. s[2] \notin Escapable
  BY <1>1 DEF Escapable, LetterU, Quote, Backslash
<1>7. <<Utf8(c), 4>> # <<>> /\ <<Utf8(c), 4>>[1] = Utf8(c)
  OBVIOUS
<1> QED
  BY <1>1, <1>5, <1>6, <1>7 DEF EscapeBytes, s

\* Two escapes, one after the other.
LEMMA JoinedSixes ==
    ASSUME NEW a \in Seq(Nat), NEW b \in Seq(Nat), Len(a) = 6, Len(b) = 6
    PROVE  /\ Len(a \o b) = 12
           /\ \A i \in 1 .. 12 : (a \o b)[i] = IF i <= 6 THEN a[i] ELSE b[i - 6]
<1>1. /\ Len(a \o b) = Len(a) + Len(b)
      /\ \A i \in 1 .. Len(a) + Len(b) : (a \o b)[i] = IF i <= Len(a) THEN a[i] ELSE b[i - Len(a)]
  BY ConcatProperties, Zenon
<1>2. Len(a) + Len(b) = 12
  OBVIOUS
<1> QED
  BY <1>1, <1>2

\* A pair of escapes, read as one.
LEMMA PairIs ==
    ASSUME NEW c \in Basic, NEW e \in Basic
    PROVE  LET s == EscapeCode(c) \o EscapeCode(e)
           IN  /\ s # <<>> /\ s[1] = Backslash /\ s[2] = LetterU /\ get_codepoint(s, 3) = c
               /\ Byte(s, 3 + 4) = Backslash /\ Byte(s, 3 + 5) = LetterU
               /\ get_codepoint(s, 3 + 6) = e
<1> DEFINE a == EscapeCode(c)
           b == EscapeCode(e)
           s == a \o b
<1>1. /\ a \in Seq(Nat) /\ Len(a) = 6 /\ a[1] = Backslash /\ a[2] = LetterU
      /\ a[3] = HexDigit(c \div 4096) /\ a[4] = HexDigit((c \div 256) % 16)
      /\ a[5] = HexDigit((c \div 16) % 16) /\ a[6] = HexDigit(c % 16)
  BY EscapeCodeIs
<1>2. /\ b \in Seq(Nat) /\ Len(b) = 6 /\ b[1] = Backslash /\ b[2] = LetterU
      /\ b[3] = HexDigit(e \div 4096) /\ b[4] = HexDigit((e \div 256) % 16)
      /\ b[5] = HexDigit((e \div 16) % 16) /\ b[6] = HexDigit(e % 16)
  BY EscapeCodeIs
<1> HIDE DEF a, b
<1>3. /\ Len(s) = 12
      /\ \A i \in 1 .. 12 : s[i] = IF i <= 6 THEN a[i] ELSE b[i - 6]
  <2>1. a \in Seq(Nat) /\ b \in Seq(Nat) /\ Len(a) = 6 /\ Len(b) = 6
    BY <1>1, <1>2
  <2> QED
    BY <2>1, JoinedSixes
<1> HIDE DEF s
<1>4. /\ s[1] = a[1] /\ s[2] = a[2] /\ s[3] = a[3] /\ s[4] = a[4] /\ s[5] = a[5] /\ s[6] = a[6]
  BY <1>3
<1>5. /\ s[7] = b[1] /\ s[8] = b[2] /\ s[9] = b[3] /\ s[10] = b[4] /\ s[11] = b[5] /\ s[12] = b[6]
  BY <1>3
<1>6. /\ Byte(s, 3) = s[3] /\ Byte(s, 3 + 1) = s[4] /\ Byte(s, 3 + 2) = s[5]
      /\ Byte(s, 3 + 3) = s[6] /\ Byte(s, 3 + 4) = s[7] /\ Byte(s, 3 + 5) = s[8]
      /\ Byte(s, 9) = s[9] /\ Byte(s, 9 + 1) = s[10] /\ Byte(s, 9 + 2) = s[11]
      /\ Byte(s, 9 + 3) = s[12]
  BY <1>3 DEF Byte
<1>7. get_codepoint(s, 3) = c
  BY <1>1, <1>4, <1>6, DigitsBack
<1>8. get_codepoint(s, 9) = e
  BY <1>2, <1>5, <1>6, DigitsBack
<1>9. 3 + 6 = 9
  OBVIOUS
<1>10. s # <<>>
  <2>1. Len(<<>>) # 12
    OBVIOUS
  <2> QED
    BY <2>1, <1>3, Zenon
<1> QED
  BY <1>10, <1>1, <1>2, <1>4, <1>5, <1>6, <1>7, <1>8, <1>9 DEF s, a, b

\* A surrogate pair reads back as the code point beyond the basic plane.
LEMMA PairBack ==
    ASSUME NEW c \in Beyond
    PROVE  LET s == EscapeCode(55232 + c \div 1024) \o EscapeCode(56320 + (c % 1024))
           IN  s # <<>> /\ s[1] = Backslash /\ EscapeBytes(s) = Utf8(c)
<1> DEFINE high == 55232 + c \div 1024
           low == 56320 + (c % 1024)
           s == EscapeCode(high) \o EscapeCode(low)
<1>1. /\ high \in Nat /\ 55296 <= high /\ high <= 56319
      /\ low \in Nat /\ 56320 <= low /\ low <= 57343
      /\ 65536 + (high - 55296) * 1024 + (low - 56320) = c
  BY SMTT(20) DEF Beyond
<1> HIDE DEF high, low
<1>2. high \in Basic /\ low \in Basic
  BY <1>1, SMTT(20) DEF Basic
<1>3. /\ s # <<>> /\ s[1] = Backslash /\ s[2] = LetterU /\ get_codepoint(s, 3) = high
      /\ Byte(s, 3 + 4) = Backslash /\ Byte(s, 3 + 5) = LetterU /\ get_codepoint(s, 3 + 6) = low
  BY <1>2, PairIs, Zenon
<1> HIDE DEF s
<1>4. EscapedBytes(high, low) = <<Utf8(c), 10>>
  BY <1>1, SMTT(20) DEF EscapedBytes
<1>5. CodepointEscape(s, 3) = <<Utf8(c), 10>>
  BY <1>3, <1>4, Zenon DEF CodepointEscape
<1>6. s[2] \notin Escapable
  BY <1>3 DEF Escapable, LetterU, Quote, Backslash
<1>7. <<Utf8(c), 10>> # <<>> /\ <<Utf8(c), 10>>[1] = Utf8(c)
  OBVIOUS
<1>8. EscapeBytes(s) = Utf8(c)
  BY <1>3, <1>5, <1>6, <1>7 DEF EscapeBytes
<1> QED
  BY <1>3, <1>8 DEF s, high, low

\* One character at the end of a string.
LEMMA JoinOne ==
    ASSUME NEW a \in Seq(Bytes), NEW b \in Bytes
    PROVE  a \o <<b>> = Append(a, b) /\ Append(a, b) \in Seq(Bytes)
  BY AppendIsConcat, AppendProperties

\* The escapes of one character read back.
LEMMA ShortBack ==
    ASSUME NEW c \in {8, 9, 10, 12, 13, Quote, Backslash}
    PROVE  EscapeBytes(<<Backslash, ShortEscape(c)>>) = <<c>>
<1>1. ShortEscape(c) \in Escapable /\ EscapeOf(ShortEscape(c)) = c
  <2>1. /\ ShortEscape(8) = 98 /\ ShortEscape(9) = 116 /\ ShortEscape(10) = 110
        /\ ShortEscape(12) = 102 /\ ShortEscape(13) = 114
        /\ ShortEscape(34) = 34 /\ ShortEscape(92) = 92
    BY DEF ShortEscape, Quote, Backslash
  <2>2. /\ EscapeOf(98) = 8 /\ EscapeOf(116) = 9 /\ EscapeOf(110) = 10 /\ EscapeOf(102) = 12
        /\ EscapeOf(114) = 13 /\ EscapeOf(34) = 34 /\ EscapeOf(92) = 92
    BY DEF EscapeOf
  <2> QED
    BY <2>1, <2>2 DEF Escapable, Quote, Backslash
<1>2. <<Backslash, ShortEscape(c)>>[2] = ShortEscape(c)
  OBVIOUS
<1> QED
  BY <1>1, <1>2 DEF EscapeBytes

\* An escape of c, reread.
LEMMA EscapeReread ==
    ASSUME NEW a \in Seq(Bytes), NEW s, s # <<>>, s[1] = Backslash, EscapeBytes(s) # <<>>
    PROVE  Reread([wanted |-> <<>>, buffer |-> a], s)
             = [wanted |-> <<>>, buffer |-> a \o EscapeBytes(s)]
  BY DEF Reread, ReadEscape

\* The same when the escape stands for one character.
LEMMA EscapeOneReread ==
    ASSUME NEW a \in Seq(Bytes), NEW c \in Bytes, NEW s, s # <<>>, s[1] = Backslash,
           EscapeBytes(s) = <<c>>
    PROVE  Reread([wanted |-> <<>>, buffer |-> a], s) = [wanted |-> <<>>, buffer |-> Append(a, c)]
<1>1. <<c>> # <<>> /\ a \o <<c>> = Append(a, c)
  BY JoinOne
<1>2. EscapeBytes(s) # <<>>
  BY <1>1, Zenon
<1>3. Reread([wanted |-> <<>>, buffer |-> a], s) = [wanted |-> <<>>, buffer |-> a \o EscapeBytes(s)]
  BY <1>2, EscapeReread, Zenon
<1> QED
  BY <1>1, <1>3, Zenon

\* What is written for an ASCII character reads back as that character.
LEMMA AsciiReread ==
    ASSUME NEW a \in Seq(Bytes), NEW c \in Bytes, c <= 127, NEW ensure \in BOOLEAN
    PROVE  Reread([wanted |-> <<>>, buffer |-> a], Escaped(c, c, ensure))
             = [wanted |-> <<>>, buffer |-> Append(a, c)]
<1> DEFINE short == c \in {8, 9, 10, 12, 13, Quote, Backslash}
           code == c <= 31 \/ (ensure /\ c >= 127)
<1>0. <<c>> # <<>>
  OBVIOUS
<1>1. CASE short
  <2>1. Escaped(c, c, ensure) = <<Backslash, ShortEscape(c)>>
    BY <1>1 DEF Escaped
  <2>2. <<Backslash, ShortEscape(c)>> # <<>> /\ <<Backslash, ShortEscape(c)>>[1] = Backslash
    OBVIOUS
  <2>3. EscapeBytes(<<Backslash, ShortEscape(c)>>) = <<c>>
    BY <1>1, ShortBack
  <2> QED
    BY <2>1, <2>2, <2>3, EscapeOneReread, Zenon
<1>2. CASE ~ short /\ code
  <2>1. Escaped(c, c, ensure) = EscapeCode(c)
    <3>1. c <= 65535
      BY SMTT(20) DEF Bytes
    <3> QED
      BY <1>2, <3>1, SMTT(20) DEF Escaped
  <2>2. c \in Basic \cap CodePoints
    BY SMTT(20) DEF Basic, CodePoints, Bytes
  <2>3. EscapeCode(c) # <<>> /\ EscapeCode(c)[1] = Backslash
    BY DEF EscapeCode
  <2>4. EscapeBytes(EscapeCode(c)) = Utf8(c)
    BY <2>2, ShortCodeBack
  <2>5. Utf8(c) = <<c>>
    <3>1. c < 128
      BY DEF Bytes
    <3> QED
      BY <3>1 DEF Utf8
  <2> QED
    BY <2>1, <2>3, <2>4, <2>5, EscapeOneReread, Zenon
<1>3. CASE ~ short /\ ~ code
  <2>1. Escaped(c, c, ensure) = <<c>>
    BY <1>3 DEF Escaped
  <2>2. c \in Unescaped /\ c # Backslash
    BY <1>3 DEF Unescaped, Bytes, Quote, Backslash
  <2>3. <<c>>[1] = c
    OBVIOUS
  <2>4. ScanByte(<<>>, c) = <<>>
    BY <2>2 DEF ScanByte
  <2> QED
    BY <2>1, <2>2, <2>3, <2>4, <1>0 DEF Reread, ReadByte
<1> QED
  BY <1>1, <1>2, <1>3

\* With ensure_ascii, what is written for any other character reads back as its
\* bytes; without it, its last byte is written as it is.
LEMMA WideReread ==
    ASSUME NEW a \in Seq(Bytes), NEW c \in CodePoints, c >= 128, NEW b
    PROVE  /\ Reread([wanted |-> <<>>, buffer |-> a], Escaped(c, b, TRUE))
                = [wanted |-> <<>>, buffer |-> a \o Utf8(c)]
           /\ Escaped(c, b, FALSE) = <<b>>
<1>0. c \in Nat /\ ~ c <= 31 /\ c >= 127 /\ c \notin {8, 9, 10, 12, 13, Quote, Backslash}
  BY SMTT(20) DEF CodePoints, Quote, Backslash
<1>1. Utf8(c) # <<>>
  BY <1>0, SMTT(20) DEF Utf8
<1>2. Escaped(c, b, FALSE) = <<b>>
  BY <1>0, SMTT(20) DEF Escaped
<1>3. CASE c \in Basic
  <2>1. Escaped(c, b, TRUE) = EscapeCode(c)
    BY <1>0, <1>3, SMTT(20) DEF Escaped, Basic
  <2>2. c \in Basic \cap CodePoints
    BY <1>3
  <2>3. EscapeCode(c) # <<>> /\ EscapeCode(c)[1] = Backslash
    BY DEF EscapeCode
  <2>4. EscapeBytes(EscapeCode(c)) = Utf8(c)
    BY <2>2, ShortCodeBack
  <2> QED
    BY <1>1, <1>2, <2>1, <2>3, <2>4, EscapeReread, Zenon
<1>4. CASE c \notin Basic
  <2> DEFINE s == EscapeCode(55232 + c \div 1024) \o EscapeCode(56320 + (c % 1024))
  <2>1. Escaped(c, b, TRUE) = s
    BY <1>0, <1>4, SMTT(20) DEF Escaped, Basic
  <2>2. c \in Beyond
    BY <1>0, <1>4, SMTT(20) DEF CodePoints, Beyond, Basic
  <2>3. s # <<>> /\ s[1] = Backslash
    BY <2>2, PairBack
  <2>4. EscapeBytes(s) = Utf8(c)
    BY <2>2, PairBack
  <2> HIDE DEF s
  <2> QED
    BY <1>1, <1>2, <2>1, <2>3, <2>4, EscapeReread, Zenon
<1> QED
  BY <1>3, <1>4, Zenon

-----------------------------------------------------------------------------
\* The invariant: scan_string waits for what decode's state says, the plain
\* answer reads back byte by byte, and the ASCII answer lacks the bytes of the
\* character that is not whole yet.
Same(l, w) ==
    /\ w.state \in 0 .. 8
    /\ l.wanted = WantedIn(w.state)
    /\ w.state # 1 =>
         /\ w.codep \in Nat
         /\ w.plain = l
         /\ \E a, p \in Seq(Bytes) :
              /\ Pending(w.state, w.codep, p)
              /\ w.ascii = [wanted |-> <<>>, buffer |-> a]
              /\ l = [wanted |-> WantedIn(w.state), buffer |-> a \o p]

\* The invariant after an error.
LEMMA SameError ==
    ASSUME NEW codep, NEW plain, NEW ascii, NEW buffer
    PROVE  Same([wanted |-> WantedIn(1), buffer |-> buffer],
                [state |-> 1, codep |-> codep, plain |-> plain, ascii |-> ascii])
  BY DEF Same

\* The invariant otherwise.
LEMMA SameIs ==
    ASSUME NEW k \in 0 .. 8, NEW codep \in Nat, NEW a \in Seq(Bytes), NEW p \in Seq(Bytes),
           NEW l, Pending(k, codep, p), l = [wanted |-> WantedIn(k), buffer |-> a \o p]
    PROVE  Same(l, [state |-> k, codep |-> codep, plain |-> l,
                    ascii |-> [wanted |-> <<>>, buffer |-> a]])
  BY DEF Same

\* A character whose first byte alone was read.
LEMMA OneState ==
    ASSUME NEW state, NEW codep, NEW x \in Bytes, One(state, codep, x)
    PROVE  state \in 2 .. 8 /\ codep \in Nat
  BY DEF One, Bytes

\* Nothing is pending in the accepting state.
LEMMA PendingNone ==
    ASSUME NEW codep, NEW p, Pending(0, codep, p)
    PROVE  p = <<>>
  BY DEF Pending, One, Two, Three

\* The bytes of a character follow those before it.
LEMMA AppendJoins ==
    ASSUME NEW a \in Seq(Bytes), NEW p \in Seq(Bytes), NEW b \in Bytes
    PROVE  /\ Append(p, b) \in Seq(Bytes) /\ a \o p \in Seq(Bytes)
           /\ a \o Append(p, b) \in Seq(Bytes)
           /\ Append(a \o p, b) = a \o Append(p, b)
<1>1. <<b>> \in Seq(Bytes) /\ Append(p, b) = p \o <<b>> /\ a \o p \in Seq(Bytes)
      /\ Append(p, b) \in Seq(Bytes)
  BY AppendIsConcat, AppendProperties, ConcatProperties
<1>2. Append(a \o p, b) = (a \o p) \o <<b>>
  BY <1>1, AppendIsConcat
<1>3. (a \o p) \o <<b>> = a \o (p \o <<b>>)
  BY <1>1, ConcatAssociative
<1>4. a \o Append(p, b) \in Seq(Bytes)
  BY <1>1, ConcatProperties
<1> QED
  BY <1>1, <1>2, <1>3, <1>4, Zenon

\* Where the states of decode lead.
LEMMA NextState ==
    ASSUME NEW state \in 0 .. 8, state # 1, NEW b \in Bytes,
           state = 0 => b \in Unescaped \cup 128 .. 255
    PROVE  /\ Transition(state, ByteClass(b)) \in 0 .. 8
           /\ ScanByte(WantedIn(state), b) = WantedIn(Transition(state, ByteClass(b)))
<1>1. CASE state = 0
  <2>1. Transition(0, ByteClass(b)) \in 0 .. 8
    BY Classes, FirstStates DEF Bytes
  <2>2. WantedIn(0) = <<>>
    BY WantedDiffer
  <2> QED
    BY <1>1, <2>1, <2>2, FirstByte
<1>2. CASE state # 0
  <2>1. state \in 2 .. 8
    BY <1>2
  <2>2. Transition(state, ByteClass(b)) \in 0 .. 8
    <3>1. state \in {2, 3, 4, 5, 6, 7, 8}
      BY <2>1
    <3> QED
      BY <3>1 DEF Transition
  <2> QED
    BY <2>1, <2>2, LaterByte
<1> QED
  BY <1>1, <1>2

\* One ASCII character more, written and reread.
LEMMA AsciiKeeps ==
    ASSUME NEW l, NEW w, Same(l, w), w.state = 0, NEW b \in Bytes, b <= 127
    PROVE  Same([wanted |-> WantedIn(0), buffer |-> Append(l.buffer, b)], Dumped(w, b))
<1> DEFINE d == decode(w.state, w.codep, b)
<1>1. w.codep \in Nat /\ w.plain = l
  BY DEF Same
<1>2. PICK a \in Seq(Bytes), p \in Seq(Bytes) :
        /\ Pending(w.state, w.codep, p)
        /\ w.ascii = [wanted |-> <<>>, buffer |-> a]
        /\ l = [wanted |-> WantedIn(w.state), buffer |-> a \o p]
  <2>1. w.state # 1
    OBVIOUS
  <2> QED
    BY <2>1, Zenon DEF Same
<1>3. d = [state |-> 0, codep |-> b]
  BY FirstBits
<1>4. Dumped(w, b) = [state |-> d.state, codep |-> d.codep,
                      plain |-> Reread(l, Written(d, b, FALSE)),
                      ascii |-> Reread([wanted |-> <<>>, buffer |-> a], Written(d, b, TRUE))]
  BY <1>1, <1>2 DEF Dumped
<1> HIDE DEF d
<1>5. \A e \in BOOLEAN : Written(d, b, e) = Escaped(b, b, e)
  BY <1>3 DEF Written, Accept
<1>6. p = <<>>
  BY <1>2, PendingNone
<1>7. /\ a \o p = a /\ <<>> \in Seq(Bytes) /\ Append(a, b) \in Seq(Bytes)
      /\ Append(a, b) \o <<>> = Append(a, b)
  BY <1>6, ConcatEmptySeq, AppendProperties
<1>8. WantedIn(0) = <<>>
  BY WantedDiffer
<1>9. l = [wanted |-> <<>>, buffer |-> a] /\ l.buffer = a
  BY <1>2, <1>7, <1>8
<1>10. \A e \in BOOLEAN : Reread([wanted |-> <<>>, buffer |-> a], Escaped(b, b, e))
                            = [wanted |-> <<>>, buffer |-> Append(a, b)]
  BY AsciiReread
<1>11. b \in Nat /\ Pending(0, b, <<>>) /\ 0 \in 0 .. 8
  BY DEF Pending, Bytes
<1>12. d.state = 0 /\ d.codep = b
  BY <1>3
<1> DEFINE q == Append(a, b)
           m == [wanted |-> WantedIn(0), buffer |-> q]
<1>13. Dumped(w, b) = [state |-> 0, codep |-> b, plain |-> m,
                       ascii |-> [wanted |-> <<>>, buffer |-> q]]
  BY <1>4, <1>5, <1>8, <1>9, <1>10, <1>12, Zenon
<1>14. q \in Seq(Bytes) /\ m = [wanted |-> WantedIn(0), buffer |-> q \o <<>>]
       /\ m = [wanted |-> WantedIn(0), buffer |-> Append(l.buffer, b)]
  BY <1>7, <1>9
<1> HIDE DEF q, m
<1>15. <<>> \in Seq(Bytes)
  OBVIOUS
<1>16. Same(m, Dumped(w, b))
  BY <1>11, <1>13, <1>14, <1>15, SameIs, Zenon
<1> QED
  BY <1>14, <1>16, Zenon

\* One byte more, written and reread.
LEMMA ByteKeeps ==
    ASSUME NEW l, NEW w, Same(l, w), w.state # 1, NEW b \in Bytes,
           w.state = 0 => b \in Unescaped \cup 128 .. 255
    PROVE  Same(ReadByte(l, b), Dumped(w, b))
<1> DEFINE d == decode(w.state, w.codep, b)
<1>1. w.state \in 0 .. 8 /\ w.codep \in Nat /\ w.plain = l
  BY DEF Same
<1>2. PICK a \in Seq(Bytes), p \in Seq(Bytes) :
        /\ Pending(w.state, w.codep, p)
        /\ w.ascii = [wanted |-> <<>>, buffer |-> a]
        /\ l = [wanted |-> WantedIn(w.state), buffer |-> a \o p]
  BY Zenon DEF Same
<1>3. d.state = Transition(w.state, ByteClass(b))
  BY DEF decode
<1>4. d.state \in 0 .. 8 /\ ScanByte(WantedIn(w.state), b) = WantedIn(d.state)
  BY <1>1, <1>3, NextState
<1>5. l.wanted = WantedIn(w.state) /\ l.buffer = a \o p
  BY <1>2
<1>6. ReadByte(l, b) = [wanted |-> WantedIn(d.state), buffer |-> Append(a \o p, b)]
  BY <1>4, <1>5 DEF ReadByte
<1>7. Dumped(w, b) = [state |-> d.state, codep |-> d.codep,
                      plain |-> Reread(l, Written(d, b, FALSE)),
                      ascii |-> Reread([wanted |-> <<>>, buffer |-> a], Written(d, b, TRUE))]
  BY <1>1, <1>2 DEF Dumped
<1>8. /\ Append(p, b) \in Seq(Bytes) /\ a \o p \in Seq(Bytes) /\ a \o Append(p, b) \in Seq(Bytes)
      /\ Append(a \o p, b) = a \o Append(p, b)
  BY AppendJoins
<1>9. /\ <<>> \in Seq(Bytes) /\ <<b>> \in Seq(Bytes) /\ \A s \in Seq(Bytes) : s \o <<>> = s
      /\ <<b>>[1] = b /\ <<b>> # <<>>
  BY ConcatEmptySeq
<1>10. b >= 128 => Reread(l, <<b>>) = ReadByte(l, b)
  <2>1. b >= 128 => b # Backslash
    BY DEF Backslash
  <2> QED
    BY <2>1, <1>9 DEF Reread
<1> HIDE DEF d
<1>11. CASE d.state = 1
  BY <1>6, <1>7, <1>11, SameError, Zenon
<1>12. CASE w.state = 0 /\ b <= 127
  <2>1. d.state = 0
    BY <1>12, FirstBits DEF d
  <2>2. Same([wanted |-> WantedIn(0), buffer |-> Append(l.buffer, b)], Dumped(w, b))
    BY <1>12, AsciiKeeps
  <2> QED
    BY <1>5, <1>6, <2>1, <2>2, Zenon
<1>13. CASE w.state = 0 /\ b > 127 /\ d.state # 1
  <2>1. One(d.state, d.codep, b)
    BY <1>13, FirstBits DEF d
  <2>2. d.state \in 2 .. 8 /\ d.codep \in Nat
    BY <2>1, OneState
  <2>3. Written(d, b, FALSE) = <<b>> /\ Written(d, b, TRUE) = <<>>
    <3>1. d.state # 0
      BY <2>2
    <3> QED
      BY <3>1 DEF Written, Accept
  <2>4. p = <<>>
    BY <1>2, <1>13, PendingNone
  <2>5. Append(a \o p, b) = a \o <<b>>
    BY <1>8, <1>9, <2>4, JoinOne
  <2>6. Pending(d.state, d.codep, <<b>>)
    BY <2>1 DEF Pending
  <2>7. b >= 128
    BY <1>13 DEF Bytes
  <2>8. Dumped(w, b) = [state |-> d.state, codep |-> d.codep, plain |-> ReadByte(l, b),
                        ascii |-> [wanted |-> <<>>, buffer |-> a]]
    BY <1>7, <1>10, <2>3, <2>7 DEF Reread
  <2> QED
    <3>1. ReadByte(l, b) = [wanted |-> WantedIn(d.state), buffer |-> a \o <<b>>]
      BY <1>6, <2>5, Zenon
    <3>2. d.state \in 0 .. 8 /\ d.codep \in Nat /\ <<b>> \in Seq(Bytes)
      BY <1>4, <1>9, <2>2
    <3> QED
      BY <2>6, <2>8, <3>1, <3>2, SameIs, Zenon
<1>14. CASE w.state # 0 /\ d.state # 1
  <2>1. w.state \in 2 .. 8
    BY <1>1, <1>14
  <2>2. Grown(d, p, b)
    BY <1>1, <1>2, <1>14, <2>1, PendingGrows DEF d
  <2>3. b >= 128
    BY <2>2 DEF Grown
  <2>4. CASE d.state = 0
    <3>1. d.codep \in CodePoints /\ d.codep >= 128 /\ Utf8(d.codep) = Append(p, b)
      BY <2>2, <2>4 DEF Grown
    <3>2. \A e \in BOOLEAN : Written(d, b, e) = Escaped(d.codep, b, e)
      BY <2>4 DEF Written, Accept
    <3>3. /\ Reread([wanted |-> <<>>, buffer |-> a], Escaped(d.codep, b, TRUE))
               = [wanted |-> <<>>, buffer |-> a \o Append(p, b)]
          /\ Escaped(d.codep, b, FALSE) = <<b>>
      BY <3>1, WideReread, Zenon
    <3>4. Dumped(w, b) = [state |-> d.state, codep |-> d.codep, plain |-> ReadByte(l, b),
                          ascii |-> [wanted |-> <<>>, buffer |-> a \o Append(p, b)]]
      BY <1>7, <1>10, <2>3, <3>2, <3>3, Zenon
    <3>5. d.codep \in Nat /\ Pending(d.state, d.codep, <<>>)
      BY <2>4, <3>1, SMTT(20) DEF Pending, CodePoints
    <3>6. Append(a \o p, b) = (a \o Append(p, b)) \o <<>>
      BY <1>8, <1>9
    <3> QED
      <4> DEFINE q == a \o Append(p, b)
      <4>1. q \in Seq(Bytes) /\ <<>> \in Seq(Bytes) /\ d.state \in 0 .. 8
        BY <1>4, <1>8, <1>9
      <4>2. ReadByte(l, b) = [wanted |-> WantedIn(d.state), buffer |-> q \o <<>>]
        BY <1>6, <3>6
      <4>3. Dumped(w, b) = [state |-> d.state, codep |-> d.codep, plain |-> ReadByte(l, b),
                            ascii |-> [wanted |-> <<>>, buffer |-> q]]
        BY <3>4
      <4> HIDE DEF q
      <4> QED
        BY <3>5, <4>1, <4>2, <4>3, SameIs, Zenon
  <2>5. CASE d.state # 0
    <3>1. d.state \in 2 .. 8 /\ d.codep \in Nat /\ Pending(d.state, d.codep, Append(p, b))
      BY <2>2, <2>5 DEF Grown
    <3>2. Written(d, b, FALSE) = <<b>> /\ Written(d, b, TRUE) = <<>>
      BY <2>5 DEF Written, Accept
    <3>3. Dumped(w, b) = [state |-> d.state, codep |-> d.codep, plain |-> ReadByte(l, b),
                          ascii |-> [wanted |-> <<>>, buffer |-> a]]
      BY <1>7, <1>10, <2>3, <3>2 DEF Reread
    <3> QED
      BY <1>4, <1>6, <1>8, <3>1, <3>3, SameIs, Zenon
  <2> QED
    BY <2>4, <2>5
<1>15. b <= 127 \/ b > 127
  BY DEF Bytes
<1> QED
  BY <1>11, <1>12, <1>13, <1>14, <1>15, Zenon

-----------------------------------------------------------------------------
\* The encoding of a code point is well-formed UTF-8.
Leads2(x, y) == x >= 194 /\ x <= 223 /\ y \in 128 .. 191
Leads3(x, y, z) ==
    /\ x >= 224 /\ x <= 239 /\ y \in 128 .. 191 /\ z \in 128 .. 191
    /\ x = 224 => y >= 160
    /\ x = 237 => y <= 159
Leads4(x, y, z, t) ==
    /\ x >= 240 /\ x <= 244 /\ y \in 128 .. 191 /\ z \in 128 .. 191 /\ t \in 128 .. 191
    /\ x = 240 => y >= 144
    /\ x = 244 => y <= 143
WellFormed(s) ==
    \/ \E x, y \in Bytes : s = <<x, y>> /\ Leads2(x, y)
    \/ \E x, y, z \in Bytes : s = <<x, y, z>> /\ Leads3(x, y, z)
    \/ \E x, y, z, t \in Bytes : s = <<x, y, z, t>> /\ Leads4(x, y, z, t)

\* Utf8 writes a code point beyond ASCII in two, three or four bytes.
LEMMA Utf8WellFormed ==
    ASSUME NEW c \in CodePoints, c >= 128
    PROVE  WellFormed(Utf8(c))
<1>0. c \in Nat /\ c <= 1114111 /\ (c < 55296 \/ c > 57343)
  BY SMTT(20) DEF CodePoints
<1>1. CASE c <= 2047
  <2> DEFINE x == 192 + c \div 64
             y == 128 + (c % 64)
  <2>1. Utf8(c) = <<x, y>>
    BY <1>0, <1>1, SMTT(20) DEF Utf8
  <2>2. x \in Nat /\ x >= 194 /\ x <= 223 /\ y \in Nat /\ y >= 128 /\ y <= 191
    BY <1>0, <1>1, SMTT(20)
  <2> HIDE DEF x, y
  <2>3. x \in Bytes /\ y \in Bytes /\ y \in 128 .. 191
    BY <2>2 DEF Bytes
  <2> QED
    BY <2>1, <2>2, <2>3, SMTT(20) DEF WellFormed, Leads2
<1>2. CASE ~ c <= 2047 /\ c <= 65535
  <2> DEFINE x == 224 + c \div 4096
             y == 128 + ((c \div 64) % 64)
             z == 128 + (c % 64)
  <2>1. Utf8(c) = <<x, y, z>>
    BY <1>0, <1>2, SMTT(20) DEF Utf8
  <2>2. x \in Nat /\ x >= 224 /\ x <= 239 /\ y \in Nat /\ y >= 128 /\ y <= 191
        /\ z \in Nat /\ z >= 128 /\ z <= 191
    BY <1>0, <1>2, SMTT(20)
  <2>3. (x = 224 => y >= 160) /\ (x = 237 => y <= 159)
    BY <1>0, <1>2, SMTT(20)
  <2> HIDE DEF x, y, z
  <2>4. x \in Bytes /\ y \in Bytes /\ y \in 128 .. 191 /\ z \in Bytes /\ z \in 128 .. 191
    BY <2>2 DEF Bytes
  <2> QED
    BY <2>1, <2>2, <2>3, <2>4, SMTT(20) DEF WellFormed, Leads3
<1>3. CASE ~ c <= 65535
  <2> DEFINE x == 240 + c \div 262144
             y == 128 + ((c \div 4096) % 64)
             z == 128 + ((c \div 64) % 64)
             t == 128 + (c % 64)
  <2>1. Utf8(c) = <<x, y, z, t>>
    BY <1>0, <1>3, SMTT(20) DEF Utf8
  <2>2. x \in Nat /\ x >= 240 /\ x <= 244 /\ y \in Nat /\ y >= 128 /\ y <= 191
    BY <1>0, <1>3, SMTT(20)
  <2>3. z \in Nat /\ z >= 128 /\ z <= 191 /\ t \in Nat /\ t >= 128 /\ t <= 191
    BY <1>0, <1>3, SMTT(20)
  <2>4. (x = 240 => y >= 144) /\ (x = 244 => y <= 143)
    BY <1>0, <1>3, SMTT(20)
  <2> HIDE DEF x, y, z, t
  <2>5. /\ x \in Bytes /\ y \in Bytes /\ z \in Bytes /\ t \in Bytes
        /\ y \in 128 .. 191 /\ z \in 128 .. 191 /\ t \in 128 .. 191
    BY <2>2, <2>3 DEF Bytes
  <2> QED
    BY <2>1, <2>2, <2>4, <2>5, SMTT(20) DEF WellFormed, Leads4
<1>4. c <= 2047 \/ (~ c <= 2047 /\ c <= 65535) \/ ~ c <= 65535
  BY SMTT(20)
<1> QED
  BY <1>1, <1>2, <1>3, <1>4, SMTT(20)

\* The states that well-formed bytes lead decode through.
LEMMA Chain ==
    ASSUME NEW b \in Bytes
    PROVE  /\ b >= 194 /\ b <= 223 => Transition(0, ByteClass(b)) = 2
           /\ b >= 224 /\ b <= 239 => Transition(0, ByteClass(b)) =
                IF b = 224 THEN 4 ELSE IF b = 237 THEN 5 ELSE 3
           /\ b >= 240 /\ b <= 244 => Transition(0, ByteClass(b)) =
                IF b = 240 THEN 6 ELSE IF b = 244 THEN 8 ELSE 7
           /\ b \in 128 .. 191 =>
                /\ Transition(2, ByteClass(b)) = 0
                /\ Transition(3, ByteClass(b)) = 2
                /\ b >= 160 => Transition(4, ByteClass(b)) = 2
                /\ b <= 159 => Transition(5, ByteClass(b)) = 2
                /\ b >= 144 => Transition(6, ByteClass(b)) = 3
                /\ Transition(7, ByteClass(b)) = 3
                /\ b <= 143 => Transition(8, ByteClass(b)) = 3
<1>1. b >= 194 /\ b <= 223 => Transition(0, ByteClass(b)) = 2
  BY Classes, FirstStates DEF Bytes
<1>2. b >= 224 /\ b <= 239 => Transition(0, ByteClass(b)) =
        IF b = 224 THEN 4 ELSE IF b = 237 THEN 5 ELSE 3
  BY Classes, FirstStates DEF Bytes
<1>3. b >= 240 /\ b <= 244 => Transition(0, ByteClass(b)) =
        IF b = 240 THEN 6 ELSE IF b = 244 THEN 8 ELSE 7
  BY Classes, FirstStates DEF Bytes
<1>4. ASSUME b \in 128 .. 191
      PROVE  /\ Transition(2, ByteClass(b)) = 0
             /\ Transition(3, ByteClass(b)) = 2
             /\ b >= 160 => Transition(4, ByteClass(b)) = 2
             /\ b <= 159 => Transition(5, ByteClass(b)) = 2
             /\ b >= 144 => Transition(6, ByteClass(b)) = 3
             /\ Transition(7, ByteClass(b)) = 3
             /\ b <= 143 => Transition(8, ByteClass(b)) = 3
  <2>1. /\ ByteClass(b) \in {1, 7, 9}
        /\ b >= 160 => ByteClass(b) = 7
        /\ b <= 159 => ByteClass(b) \in {1, 9}
        /\ b >= 144 => ByteClass(b) \in {7, 9}
        /\ b <= 143 => ByteClass(b) = 1
    BY <1>4, Classes DEF Bytes
  <2> QED
    BY <2>1 DEF Transition
<1> QED
  BY <1>1, <1>2, <1>3, <1>4

\* The string read so far is one of bytes.
LEMMA BufferIs ==
    ASSUME NEW l, NEW w, Same(l, w), w.state # 1
    PROVE  l.buffer \in Seq(Bytes)
<1>1. PICK a \in Seq(Bytes), p \in Seq(Bytes) : l = [wanted |-> WantedIn(w.state), buffer |-> a \o p]
  BY Zenon DEF Same
<1>2. a \o p \in Seq(Bytes)
  BY ConcatProperties
<1> QED
  BY <1>1, <1>2

\* A reader and a writer, in state k, that have read bytes p of a character.
At(l, w, k, a, p) == Same(l, w) /\ w.state = k /\ l.buffer = a \o p

\* One byte of a character beyond ASCII.
LEMMA WideStep ==
    ASSUME NEW l, NEW w, NEW k, NEW next, NEW a \in Seq(Bytes), NEW p \in Seq(Bytes), NEW q,
           NEW b \in Bytes, b >= 128, At(l, w, k, a, p), k # 1,
           Transition(k, ByteClass(b)) = next, Append(p, b) = q
    PROVE  At(ReadByte(l, b), Dumped(w, b), next, a, q)
<1>1. b \in 128 .. 255
  BY DEF Bytes
<1>2. Same(l, w) /\ w.state = k /\ l.buffer = a \o p
  BY DEF At
<1>3. Same(ReadByte(l, b), Dumped(w, b))
  BY <1>1, <1>2, ByteKeeps, Zenon
<1>4. Dumped(w, b).state = decode(w.state, w.codep, b).state
  BY DEF Dumped
<1>5. decode(w.state, w.codep, b).state = next
  BY <1>2 DEF decode
<1>6. ReadByte(l, b).buffer = Append(a \o p, b)
  BY <1>2 DEF ReadByte
<1>7. Append(a \o p, b) = a \o q
  BY AppendJoins
<1> QED
  BY <1>3, <1>4, <1>5, <1>6, <1>7 DEF At

\* A whole character beyond ASCII, written and reread.
LEMMA WideKeeps ==
    ASSUME NEW l, NEW w, Same(l, w), w.state = 0, NEW s, WellFormed(s)
    PROVE  At([wanted |-> <<>>, buffer |-> l.buffer \o s], DumpedAll(w, s), 0, l.buffer, s)
<1> DEFINE a == l.buffer
<1>0. a \in Seq(Bytes) /\ <<>> \in Seq(Bytes) /\ 0 # 1 /\ 2 # 1 /\ 3 # 1
  BY BufferIs
<1>1. At(l, w, 0, a, <<>>)
  <2>1. a = a \o <<>>
    BY <1>0, ConcatEmptySeq
  <2> QED
    BY <2>1 DEF At
<1> HIDE DEF a
<1>2. ASSUME NEW r, NEW v, At(r, v, 0, a, s), r.buffer = a \o s, r = [wanted |-> r.wanted, buffer |-> r.buffer]
      PROVE  At([wanted |-> <<>>, buffer |-> a \o s], v, 0, a, s)
  <2>1. r.wanted = WantedIn(0)
    BY <1>2 DEF At, Same
  <2>2. WantedIn(0) = <<>>
    BY WantedDiffer
  <2>3. r = [wanted |-> <<>>, buffer |-> a \o s]
    BY <1>2, <2>1, <2>2, Zenon
  <2> QED
    BY <1>2, <2>3, Zenon
<1>3. \A r, b : ReadByte(r, b) = [wanted |-> ReadByte(r, b).wanted, buffer |-> ReadByte(r, b).buffer]
  BY DEF ReadByte
<1>4. \A r, v, b : At(ReadByte(r, b), v, 0, a, s) =>
                     At([wanted |-> <<>>, buffer |-> a \o s], v, 0, a, s)
  <2> SUFFICES ASSUME NEW r, NEW v, NEW b, At(ReadByte(r, b), v, 0, a, s)
               PROVE  At([wanted |-> <<>>, buffer |-> a \o s], v, 0, a, s)
    OBVIOUS
  <2>1. ReadByte(r, b).buffer = a \o s
    BY DEF At
  <2> QED
    BY <2>1, <1>2, <1>3, Zenon
<1>5. ASSUME NEW x \in Bytes, NEW y \in Bytes, s = <<x, y>>, Leads2(x, y)
      PROVE  At([wanted |-> <<>>, buffer |-> a \o s], DumpedAll(w, s), 0, a, s)
  <2> DEFINE w1 == Dumped(w, x)
             l1 == ReadByte(l, x)
             w2 == Dumped(w1, y)
             l2 == ReadByte(l1, y)
  <2>1. x >= 128 /\ y >= 128
    BY <1>5 DEF Bytes, Leads2
  <2>2. Transition(0, ByteClass(x)) = 2 /\ Transition(2, ByteClass(y)) = 0
    BY <1>5, Chain DEF Leads2
  <2>3. <<x>> \in Seq(Bytes) /\ Append(<<>>, x) = <<x>> /\ Append(<<x>>, y) = <<x, y>>
    BY AppendOne
  <2>4. At(l1, w1, 2, a, <<x>>)
    BY <1>0, <1>1, <2>1, <2>2, <2>3, WideStep, Zenon
  <2> HIDE DEF w1, l1
  <2>5. At(l2, w2, 0, a, <<x, y>>)
    BY <1>0, <2>1, <2>2, <2>3, <2>4, WideStep, Zenon
  <2>6. DumpedAll(w, s) = w2
    BY <1>5 DEF DumpedAll, w1
  <2> QED
    BY <1>4, <1>5, <2>5, <2>6, Zenon
<1>6. ASSUME NEW x \in Bytes, NEW y \in Bytes, NEW z \in Bytes, s = <<x, y, z>>,
             Leads3(x, y, z)
      PROVE  At([wanted |-> <<>>, buffer |-> a \o s], DumpedAll(w, s), 0, a, s)
  <2> DEFINE k == IF x = 224 THEN 4 ELSE IF x = 237 THEN 5 ELSE 3
             w1 == Dumped(w, x)
             l1 == ReadByte(l, x)
             w2 == Dumped(w1, y)
             l2 == ReadByte(l1, y)
             w3 == Dumped(w2, z)
             l3 == ReadByte(l2, z)
  <2>1. x >= 128 /\ y >= 128 /\ z >= 128
    BY <1>6 DEF Bytes, Leads3
  <2>2. /\ Transition(0, ByteClass(x)) = k /\ k # 1 /\ Transition(k, ByteClass(y)) = 2
        /\ Transition(2, ByteClass(z)) = 0
    BY <1>6, Chain DEF Leads3
  <2> HIDE DEF k
  <2>3. /\ <<x>> \in Seq(Bytes) /\ <<x, y>> \in Seq(Bytes) /\ Append(<<>>, x) = <<x>>
        /\ Append(<<x>>, y) = <<x, y>> /\ Append(<<x, y>>, z) = <<x, y, z>>
    BY AppendOne, AppendTwo
  <2>4. At(l1, w1, k, a, <<x>>)
    BY <1>0, <1>1, <2>1, <2>2, <2>3, WideStep, Zenon
  <2> HIDE DEF w1, l1
  <2>5. At(l2, w2, 2, a, <<x, y>>)
    BY <1>0, <2>1, <2>2, <2>3, <2>4, WideStep, Zenon
  <2> HIDE DEF w2, l2
  <2>6. At(l3, w3, 0, a, <<x, y, z>>)
    BY <1>0, <2>1, <2>2, <2>3, <2>5, WideStep, Zenon
  <2>7. DumpedAll(w, s) = w3
    BY <1>6 DEF DumpedAll, w1, w2
  <2> QED
    BY <1>4, <1>6, <2>6, <2>7, Zenon
<1>7. ASSUME NEW x \in Bytes, NEW y \in Bytes, NEW z \in Bytes, NEW t \in Bytes,
             s = <<x, y, z, t>>, Leads4(x, y, z, t)
      PROVE  At([wanted |-> <<>>, buffer |-> a \o s], DumpedAll(w, s), 0, a, s)
  <2> DEFINE k == IF x = 240 THEN 6 ELSE IF x = 244 THEN 8 ELSE 7
             w1 == Dumped(w, x)
             l1 == ReadByte(l, x)
             w2 == Dumped(w1, y)
             l2 == ReadByte(l1, y)
             w3 == Dumped(w2, z)
             l3 == ReadByte(l2, z)
             w4 == Dumped(w3, t)
             l4 == ReadByte(l3, t)
  <2>1. x >= 128 /\ y >= 128 /\ z >= 128 /\ t >= 128
    BY <1>7 DEF Bytes, Leads4
  <2>2. /\ Transition(0, ByteClass(x)) = k /\ k # 1 /\ Transition(k, ByteClass(y)) = 3
        /\ Transition(3, ByteClass(z)) = 2 /\ Transition(2, ByteClass(t)) = 0
    BY <1>7, Chain DEF Leads4
  <2> HIDE DEF k
  <2>3. /\ <<x>> \in Seq(Bytes) /\ <<x, y>> \in Seq(Bytes) /\ <<x, y, z>> \in Seq(Bytes)
        /\ Append(<<>>, x) = <<x>> /\ Append(<<x>>, y) = <<x, y>>
        /\ Append(<<x, y>>, z) = <<x, y, z>> /\ Append(<<x, y, z>>, t) = <<x, y, z, t>>
    BY AppendOne, AppendTwo, AppendThree
  <2>4. At(l1, w1, k, a, <<x>>)
    BY <1>0, <1>1, <2>1, <2>2, <2>3, WideStep, Zenon
  <2> HIDE DEF w1, l1
  <2>5. At(l2, w2, 3, a, <<x, y>>)
    BY <1>0, <2>1, <2>2, <2>3, <2>4, WideStep, Zenon
  <2> HIDE DEF w2, l2
  <2>6. At(l3, w3, 2, a, <<x, y, z>>)
    BY <1>0, <2>1, <2>2, <2>3, <2>5, WideStep, Zenon
  <2> HIDE DEF w3, l3
  <2>7. At(l4, w4, 0, a, <<x, y, z, t>>)
    BY <1>0, <2>1, <2>2, <2>3, <2>6, WideStep, Zenon
  <2>8. DumpedAll(w, s) = w4
    BY <1>7 DEF DumpedAll, w1, w2, w3
  <2> QED
    BY <1>4, <1>7, <2>7, <2>8, Zenon
<1> QED
  BY <1>5, <1>6, <1>7, Zenon DEF WellFormed, a

-----------------------------------------------------------------------------
\* A code point read from four digits, if any.
LEMMA CodepointRange ==
    ASSUME NEW bs, NEW p
    PROVE  get_codepoint(bs, p) = -1 \/ get_codepoint(bs, p) \in Basic
<1>1. \A x : Hex(x) = -1 \/ (Hex(x) \in Nat /\ Hex(x) <= 15)
  BY DEF Hex
<1> DEFINE h == [i \in 0 .. 3 |-> Hex(Byte(bs, p + i))]
<1>2. \A i \in 0 .. 3 : h[i] = -1 \/ (h[i] \in Nat /\ h[i] <= 15)
  BY <1>1
<1>3. get_codepoint(bs, p) = Codepoint(h)
  BY DEF get_codepoint
<1> HIDE DEF h
<1>4. CASE \E i \in 0 .. 3 : h[i] = -1
  BY <1>3, <1>4 DEF Codepoint
<1>5. CASE ~ \E i \in 0 .. 3 : h[i] = -1
  <2>1. /\ h[0] \in Nat /\ h[0] <= 15 /\ h[1] \in Nat /\ h[1] <= 15
        /\ h[2] \in Nat /\ h[2] <= 15 /\ h[3] \in Nat /\ h[3] <= 15
    BY <1>2, <1>5
  <2>2. Codepoint(h) = ((h[0] * 16 + h[1]) * 16 + h[2]) * 16 + h[3]
    BY <1>5, Zenon DEF Codepoint
  <2> QED
    BY <2>1, <2>2, <1>3, SMTT(20) DEF Basic
<1> QED
  BY <1>4, <1>5, Zenon

\* An escape that scan_string accepts stands for one code point.
LEMMA EscapeIsChar ==
    ASSUME NEW s, EscapeBytes(s) # <<>>
    PROVE  \E c \in CodePoints : EscapeBytes(s) = Utf8(c)
<1>1. CASE s[2] \in Escapable
  <2>1. EscapeOf(s[2]) \in {8, 9, 10, 12, 13, 34, 47, 92}
    <3>1. s[2] \in {34, 92, 47, 98, 102, 110, 114, 116}
      BY <1>1 DEF Escapable, Quote, Backslash
    <3> QED
      BY <3>1 DEF EscapeOf
  <2>2. EscapeBytes(s) = <<EscapeOf(s[2])>>
    BY <1>1 DEF EscapeBytes
  <2>3. EscapeOf(s[2]) \in CodePoints /\ EscapeOf(s[2]) < 128
    BY <2>1, SMTT(20) DEF CodePoints
  <2>4. Utf8(EscapeOf(s[2])) = <<EscapeOf(s[2])>>
    BY <2>3, SMTT(20) DEF Utf8
  <2> QED
    BY <2>2, <2>3, <2>4, Zenon
<1>2. CASE s[2] \notin Escapable
  <2>1. CodepointEscape(s, 3) # <<>> /\ EscapeBytes(s) = CodepointEscape(s, 3)[1]
    BY <1>2, Zenon DEF EscapeBytes
  <2> DEFINE first == get_codepoint(s, 3)
             second == IF Byte(s, 3 + 4) = Backslash /\ Byte(s, 3 + 5) = LetterU
                       THEN get_codepoint(s, 3 + 6) ELSE -1
  <2>2. CodepointEscape(s, 3) = EscapedBytes(first, second)
    BY Zenon DEF CodepointEscape
  <2>3. (first = -1 \/ first \in Basic) /\ (second = -1 \/ second \in Basic)
    BY CodepointRange, Zenon
  <2> HIDE DEF first, second
  <2>4. \A x, y : <<x, y>>[1] = x
    OBVIOUS
  <2>5. ASSUME first \in Basic, second \in Basic, 55296 <= first, first <= 56319,
               56320 <= second, second <= 57343
        PROVE  \E c \in CodePoints : EscapeBytes(s) = Utf8(c)
    <3> DEFINE c == 65536 + (first - 55296) * 1024 + (second - 56320)
    <3>1. c \in CodePoints
      BY <2>5, SMTT(20) DEF CodePoints, Basic
    <3>2. EscapedBytes(first, second) = <<Utf8(c), 10>>
      BY <2>5, SMTT(20) DEF EscapedBytes
    <3> HIDE DEF c
    <3> QED
      BY <2>1, <2>2, <2>4, <3>1, <3>2, Zenon
  <2>6. ASSUME first \in Basic, first < 55296 \/ first > 57343
        PROVE  \E c \in CodePoints : EscapeBytes(s) = Utf8(c)
    <3>1. first \in CodePoints
      BY <2>6, SMTT(20) DEF CodePoints, Basic
    <3>2. EscapedBytes(first, second) = <<Utf8(first), 4>>
      BY <2>6, SMTT(20) DEF EscapedBytes, Basic
    <3> QED
      BY <2>1, <2>2, <2>4, <3>1, <3>2, Zenon
  <2>7. EscapedBytes(first, second) # <<>>
    BY <2>1, <2>2, Zenon
  <2>8. \/ /\ first \in Basic /\ second \in Basic /\ 55296 <= first /\ first <= 56319
           /\ 56320 <= second /\ second <= 57343
        \/ first \in Basic /\ (first < 55296 \/ first > 57343)
    BY <2>3, <2>7, SMTT(20) DEF EscapedBytes, Basic
  <2> QED
    BY <2>5, <2>6, <2>8, SMTT(20)
<1> QED
  BY <1>1, <1>2, Zenon

\* A whole character, written and reread.
LEMMA CharacterKeeps ==
    ASSUME NEW l, NEW w, Same(l, w), w.state = 0, NEW c \in CodePoints
    PROVE  Same([wanted |-> <<>>, buffer |-> l.buffer \o Utf8(c)], DumpedAll(w, Utf8(c)))
<1>1. CASE c >= 128
  BY <1>1, Utf8WellFormed, WideKeeps, Zenon DEF At
<1>2. CASE ~ c >= 128
  <2>1. c \in Bytes /\ c <= 127 /\ c < 128
    BY <1>2, SMTT(20) DEF CodePoints, Bytes
  <2>2. Utf8(c) = <<c>>
    BY <2>1, SMTT(20) DEF Utf8
  <2>3. Same([wanted |-> WantedIn(0), buffer |-> Append(l.buffer, c)], Dumped(w, c))
    BY <2>1, AsciiKeeps
  <2>4. l.buffer \o <<c>> = Append(l.buffer, c)
    BY <2>1, BufferIs, JoinOne
  <2>5. DumpedAll(w, <<c>>) = Dumped(w, c)
    BY DEF DumpedAll
  <2>6. WantedIn(0) = <<>>
    BY WantedDiffer
  <2> QED
    BY <2>2, <2>3, <2>4, <2>5, <2>6, Zenon
<1> QED
  BY <1>1, <1>2

-----------------------------------------------------------------------------
\* The inductive invariant of the string on its way.
StrInv == Same(str.lexer, str.dump)

\* The empty string.
LEMMA EmptySame ==
    ASSUME StrInit
    PROVE  StrInv
<1>1. /\ str.lexer = [wanted |-> WantedIn(0), buffer |-> <<>>]
      /\ str.dump = [state |-> 0, codep |-> 0,
                     plain |-> [wanted |-> WantedIn(0), buffer |-> <<>>],
                     ascii |-> [wanted |-> <<>>, buffer |-> <<>>]]
  <2>1. WantedIn(0) = <<>>
    BY WantedDiffer
  <2> QED
    BY <2>1 DEF StrInit, EmptyString, Reader, Accept
<1>2. <<>> \in Seq(Bytes) /\ <<>> \o <<>> = <<>> /\ 0 \in 0 .. 8 /\ 0 \in Nat
  OBVIOUS
<1>3. Pending(0, 0, <<>>)
  BY DEF Pending
<1> QED
  BY <1>1, <1>2, <1>3, SameIs, Zenon DEF StrInv

\* Every byte and every escape keeps the invariant.
LEMMA StrKeeps ==
    ASSUME StrInv, [StrNext]_str
    PROVE  StrInv'
<1>1. CASE UNCHANGED str
  BY <1>1 DEF StrInv
<1>2. ASSUME NEW b \in 0 .. 255, TakeByte(b) PROVE StrInv'
  <2>1. str.lexer.wanted = WantedIn(str.dump.state) /\ str.dump.state \in 0 .. 8
    BY DEF StrInv, Same
  <2>2. str.dump.state # 1 /\ (str.dump.state = 0 => b \in Unescaped \cup 128 .. 255)
    BY <1>2, <2>1, WantedDiffer DEF TakeByte
  <2>3. Same(ReadByte(str.lexer, b), Dumped(str.dump, b))
    BY <2>2, ByteKeeps DEF StrInv, Bytes
  <2>4. str'.lexer = ReadByte(str.lexer, b) /\ str'.dump = Dumped(str.dump, b)
    BY <1>2 DEF TakeByte
  <2> QED
    BY <2>3, <2>4 DEF StrInv
<1>3. ASSUME NEW s, TakeEscape(s) PROVE StrInv'
  <2>1. str.lexer.wanted = WantedIn(str.dump.state) /\ str.dump.state \in 0 .. 8
    BY DEF StrInv, Same
  <2>2. str.dump.state = 0 /\ EscapeBytes(s) # <<>> /\ str.lexer.wanted = <<>>
    BY <1>3, <2>1, WantedDiffer DEF TakeEscape
  <2>3. PICK c \in CodePoints : EscapeBytes(s) = Utf8(c)
    BY <2>2, EscapeIsChar
  <2>4. Same([wanted |-> <<>>, buffer |-> str.lexer.buffer \o Utf8(c)], DumpedAll(str.dump, Utf8(c)))
    BY <2>2, CharacterKeeps DEF StrInv
  <2>5. /\ str'.lexer = ReadEscape(str.lexer, s)
        /\ str'.dump = DumpedAll(str.dump, EscapeBytes(s))
    BY <1>3 DEF TakeEscape
  <2>6. ReadEscape(str.lexer, s) = [wanted |-> <<>>, buffer |-> str.lexer.buffer \o EscapeBytes(s)]
    BY <2>2 DEF ReadEscape
  <2> QED
    BY <2>3, <2>4, <2>5, <2>6, Zenon DEF StrInv
<1> QED
  BY <1>1, <1>2, <1>3 DEF StrNext

\* What the invariant says where a string is whole and where it is wrong.
LEMMA StrInvSays ==
    ASSUME StrInv
    PROVE  ValidatorsAgree /\ AnswersReadBack
<1>1. str.lexer.wanted = WantedIn(str.dump.state) /\ str.dump.state \in 0 .. 8
  BY DEF StrInv, Same
<1>2. ValidatorsAgree
  BY <1>1, WantedDiffer DEF ValidatorsAgree, Accept, Reject
<1>3. ASSUME str.dump.state = 0
      PROVE  str.dump.plain = str.lexer /\ str.dump.ascii = str.lexer
  <2>1. str.dump.state # 1
    BY <1>3
  <2>2. PICK a \in Seq(Bytes), p \in Seq(Bytes) :
          /\ Pending(str.dump.state, str.dump.codep, p)
          /\ str.dump.ascii = [wanted |-> <<>>, buffer |-> a]
          /\ str.lexer = [wanted |-> WantedIn(str.dump.state), buffer |-> a \o p]
    BY <2>1, Zenon DEF StrInv, Same
  <2>3. p = <<>>
    BY <1>3, <2>2, PendingNone
  <2>4. a \o p = a
    BY <2>3, ConcatEmptySeq
  <2>5. WantedIn(0) = <<>>
    BY WantedDiffer
  <2>6. str.dump.ascii = str.lexer
    BY <1>3, <2>2, <2>4, <2>5, Zenon
  <2>7. str.dump.plain = str.lexer
    BY <2>1 DEF StrInv, Same
  <2> QED
    BY <2>6, <2>7
<1> QED
  BY <1>2, <1>3 DEF AnswersReadBack, Accept

\* The byte ranges of scan_string and the table of decode accept the same byte
\* sequences, of any length.
THEOREM ValidatorsAlwaysAgree == StrSpec => []ValidatorsAgree
<1>1. StrInit => StrInv
  BY EmptySame
<1>2. StrInv /\ [StrNext]_str => StrInv'
  BY StrKeeps
<1>3. StrInv => ValidatorsAgree
  BY StrInvSays
<1> QED
  BY <1>1, <1>2, <1>3, PTL DEF StrSpec

\* Whatever string a request holds, plain or escaped, the answer that quotes it,
\* with or without ensure_ascii, reads back as the same bytes.
THEOREM StringsReadBack == StrSpec => []AnswersReadBack
<1>1. StrInit => StrInv
  BY EmptySame
<1>2. StrInv /\ [StrNext]_str => StrInv'
  BY StrKeeps
<1>3. StrInv => AnswersReadBack
  BY StrInvSays
<1> QED
  BY <1>1, <1>2, <1>3, PTL DEF StrSpec

-----------------------------------------------------------------------------
(***************************************************************************)
(* The binary formats, for each of the 2^64 words, wherever in the input:  *)
(* an integer of CBOR, MessagePack or UBJSON, and a head of CBOR, is read  *)
(* back as it was written, and refused where the input ends inside.        *)
(***************************************************************************)

\* The 64-bit numbers.
Words == [1 .. 8 -> Bytes]

\* The numbers that are bytes.
LEMMA BytesAre ==
    /\ \A b : b \in Bytes <=> b \in Nat /\ b <= 255
    /\ 0 \in Bytes /\ 255 \in Bytes
BY DEF Bytes

\* A word is a sequence of eight bytes.
LEMMA WordIs ==
    ASSUME NEW w \in Words
    PROVE  /\ w \in Seq(Bytes) /\ Len(w) = 8
           /\ \A i \in 1 .. 8 : w[i] \in Bytes /\ w[i] \in Nat /\ w[i] <= 255
<1>1. w = [i \in 1 .. 8 |-> w[i]] /\ \A i \in 1 .. 8 : w[i] \in Bytes
  BY DEF Words
<1>2. [i \in 1 .. 8 |-> w[i]] \in Seq(Bytes)
  BY <1>1, IsASeq
<1>3. Len([i \in 1 .. 8 |-> w[i]]) = 8
  OBVIOUS
<1>4. \A i \in 1 .. 8 : w[i] \in Nat /\ w[i] <= 255
  BY <1>1, BytesAre, Zenon
<1> QED
  BY <1>1, <1>2, <1>3, <1>4, Zenon

\* Words with the same bytes are the same.
LEMMA SameWord ==
    ASSUME NEW v \in Words, NEW w \in Words, \A i \in 1 .. 8 : v[i] = w[i]
    PROVE  v = w
BY DEF Words

\* The bytes that a cast keeps.
LEMMA LowIs ==
    ASSUME NEW w \in Words, NEW n \in 1 .. 8
    PROVE  /\ Low(w, n) \in Seq(Bytes) /\ Len(Low(w, n)) = n
           /\ \A i \in 1 .. n : Low(w, n)[i] = w[8 - n + i]
<1>1. w \in Seq(Bytes) /\ Len(w) = 8 /\ \A i \in 1 .. 8 : w[i] \in Bytes
  BY WordIs
<1>2. Low(w, n) = SubSeq(w, 9 - n, 8)
  BY <1>1 DEF Low
<1>3. \A i \in 9 - n .. 8 : w[i] \in Bytes
  BY <1>1
<1>4. /\ SubSeq(w, 9 - n, 8) \in Seq(Bytes) /\ Len(SubSeq(w, 9 - n, 8)) = n
      /\ \A i \in 1 .. n : SubSeq(w, 9 - n, 8)[i] = w[(9 - n) + i - 1]
  BY <1>1, <1>3, SubSeqProperties
<1>5. \A i \in 1 .. n : (9 - n) + i - 1 = 8 - n + i
  OBVIOUS
<1> QED
  BY <1>2, <1>4, <1>5, Zenon

\* Bytes before a number.
LEMMA FillIs ==
    ASSUME NEW b \in Bytes, NEW n \in Nat
    PROVE  /\ Fill(b, n) \in Seq(Bytes) /\ Len(Fill(b, n)) = n
           /\ \A i \in 1 .. n : Fill(b, n)[i] = b
<1>1. Fill(b, n) \in Seq(Bytes)
  BY IsASeq DEF Fill
<1> QED
  BY <1>1 DEF Fill

\* y is the word of the bytes x behind copies of the byte b.
Behind(y, b, x) ==
    /\ y \in Words
    /\ \A i \in 1 .. 8 : y[i] = IF i <= 8 - Len(x) THEN b ELSE x[i - (8 - Len(x))]

\* A number behind copies of a byte makes a word.
LEMMA FilledIs ==
    ASSUME NEW x \in Seq(Bytes), Len(x) <= 8, NEW b \in Bytes
    PROVE  Behind(Fill(b, 8 - Len(x)) \o x, b, x)
<1> DEFINE n == 8 - Len(x)
           f == Fill(b, n)
           y == f \o x
<1>1. Len(x) \in Nat /\ n \in Nat /\ n <= 8
  OBVIOUS
<1>2. f \in Seq(Bytes) /\ Len(f) = n /\ \A i \in 1 .. n : f[i] = b
  BY <1>1, FillIs
<1> HIDE DEF f
<1>3. y \in Seq(Bytes) /\ Len(y) = 8
  BY <1>1, <1>2
<1>4. \A i \in 1 .. 8 : y[i] = IF i <= n THEN b ELSE x[i - n]
  BY <1>1, <1>2
<1>5. y \in Words
  <2>1. y \in [1 .. Len(y) -> Bytes]
    BY <1>3, LenProperties, Zenon
  <2> QED
    BY <1>3, <2>1, Zenon DEF Words
<1> QED
  BY <1>4, <1>5 DEF f, Behind

\* ZeroExtend and SignExtend.
LEMMA ExtendIs ==
    ASSUME NEW x \in Seq(Bytes), Len(x) <= 8
    PROVE  /\ Behind(ZeroExtend(x), 0, x)
           /\ Behind(SignExtend(x), IF x[1] < 128 THEN 0 ELSE 255, x)
<1> DEFINE sign == IF x[1] < 128 THEN 0 ELSE 255
<1>1. 0 \in Bytes /\ 255 \in Bytes
  BY BytesAre
<1>2. sign \in Bytes
  BY <1>1, Zenon
<1>3. SignExtend(x) = Fill(sign, 8 - Len(x)) \o x
  BY Zenon DEF SignExtend
<1> HIDE DEF sign
<1>4. Behind(ZeroExtend(x), 0, x)
  BY <1>1, FilledIs, Zenon DEF ZeroExtend
<1>5. Behind(SignExtend(x), sign, x)
  BY <1>2, <1>3, FilledIs, Zenon
<1> QED
  BY <1>4, <1>5, Zenon DEF sign

\* Casting down and extending is undone when the number fits.
LEMMA CastBack ==
    ASSUME NEW w \in Words, NEW n \in {1, 2, 4, 8}
    PROVE  /\ FitsUnsigned(w, n) => ZeroExtend(Low(w, n)) = w
           /\ FitsPositive(w, n) => SignExtend(Low(w, n)) = w
           /\ FitsSigned(w, n) => SignExtend(Low(w, n)) = w
<1> DEFINE x == Low(w, n)
<1>1. x \in Seq(Bytes) /\ Len(x) = n /\ n \in 1 .. 8 /\ \A i \in 1 .. n : x[i] = w[8 - n + i]
  <2>1. n \in 1 .. 8
    OBVIOUS
  <2> QED
    BY <2>1, LowIs
<1> HIDE DEF x
<1>2. x[1] = w[9 - n]
  BY <1>1
<1>3. /\ ZeroExtend(x) \in Words /\ SignExtend(x) \in Words
      /\ \A i \in 1 .. 8 : ZeroExtend(x)[i] = IF i <= 8 - n THEN 0 ELSE x[i - (8 - n)]
      /\ \A i \in 1 .. 8 : SignExtend(x)[i] =
            IF i <= 8 - n THEN IF x[1] < 128 THEN 0 ELSE 255 ELSE x[i - (8 - n)]
  <2>1. Len(x) <= 8
    BY <1>1
  <2>2. Behind(ZeroExtend(x), 0, x) /\ Behind(SignExtend(x), IF x[1] < 128 THEN 0 ELSE 255, x)
    BY <1>1, <2>1, ExtendIs, Zenon
  <2> QED
    BY <1>1, <2>2, Zenon DEF Behind
<1>4. \A i \in 1 .. 8 : ~ (i <= 8 - n) => x[i - (8 - n)] = w[i]
  BY <1>1
<1>5. ASSUME FitsUnsigned(w, n) PROVE ZeroExtend(x) = w
  <2>1. \A i \in 1 .. 8 : ZeroExtend(x)[i] = w[i]
    BY <1>3, <1>4, <1>5 DEF FitsUnsigned
  <2> QED
    BY <1>3, <2>1, SameWord
<1>6. ASSUME FitsSigned(w, n) PROVE SignExtend(x) = w
  <2>1. \A i \in 1 .. 8 : SignExtend(x)[i] = w[i]
    BY <1>2, <1>3, <1>4, <1>6 DEF FitsSigned
  <2> QED
    BY <1>3, <2>1, SameWord
<1>7. FitsPositive(w, n) => FitsSigned(w, n)
  BY DEF FitsPositive, FitsUnsigned, FitsSigned
<1> QED
  BY <1>5, <1>6, <1>7 DEF x

\* A small number and its word.
LEMMA SmallWord ==
    ASSUME NEW w \in Words, IsSmall(w), Number(w) <= 23
    PROVE  Number(w) \in 0 .. 23 /\ Word(Number(w)) = w
<1>1. \A i \in 1 .. 8 : w[i] \in Nat /\ w[i] <= 255
  BY WordIs, Zenon
<1>2. w[6] = 0 /\ w[7] = 0 /\ w[8] <= 23 /\ Number(w) = w[8]
  <2> DEFINE a == w[6]
             b == w[7]
             c == w[8]
  <2>1. a \in Nat /\ b \in Nat /\ c \in Nat
    BY <1>1
  <2>2. Number(w) = (a * 256 + b) * 256 + c
    BY DEF Number
  <2> HIDE DEF a, b, c
  <2>3. a = 0 /\ b = 0 /\ c <= 23 /\ Number(w) = c
    BY <2>1, <2>2
  <2> QED
    BY <2>3 DEF a, b, c
<1> DEFINE x == <<0, 0, w[8]>>
<1>3. w[8] \div 65536 = 0 /\ (w[8] \div 256) % 256 = 0 /\ w[8] % 256 = w[8]
  BY <1>1, <1>2
<1>4. Word(Number(w)) = ZeroExtend(x)
  BY <1>2, <1>3 DEF Word
<1>5. x \in Seq(Bytes) /\ Len(x) = 3 /\ x[1] = 0 /\ x[2] = 0 /\ x[3] = w[8]
  BY WordIs, BytesAre
<1> HIDE DEF x
<1>6. ZeroExtend(x) \in Words
      /\ \A i \in 1 .. 8 : ZeroExtend(x)[i] = IF i <= 8 - Len(x) THEN 0 ELSE x[i - (8 - Len(x))]
  <2>1. Len(x) <= 8
    BY <1>5
  <2>2. Behind(ZeroExtend(x), 0, x)
    BY <1>5, <2>1, ExtendIs, Zenon
  <2> QED
    BY <2>2, Zenon DEF Behind
<1>7. \A i \in 1 .. 8 : ZeroExtend(x)[i] = w[i]
  BY <1>2, <1>5, <1>6 DEF IsSmall
<1>8. ZeroExtend(x) = w
  BY <1>6, <1>7, SameWord
<1> QED
  BY <1>1, <1>2, <1>4, <1>8

\* MinusOneMinus is its own inverse and changes the sign.
LEMMA Complement ==
    ASSUME NEW w \in Words
    PROVE  /\ MinusOneMinus(w) \in Words
           /\ MinusOneMinus(MinusOneMinus(w)) = w
           /\ IsNegative(MinusOneMinus(w)) <=> ~ IsNegative(w)
<1>1. \A i \in 1 .. 8 : w[i] \in Nat /\ w[i] <= 255
  BY WordIs, Zenon
<1> DEFINE v == MinusOneMinus(w)
<1>2. v = [i \in 1 .. 8 |-> 255 - w[i]]
  BY DEF MinusOneMinus
<1>3. \A i \in 1 .. 8 : v[i] = 255 - w[i] /\ v[i] \in Bytes
  BY <1>1, <1>2, BytesAre
<1>4. v \in Words
  BY <1>2, <1>3 DEF Words
<1> HIDE DEF v
<1>5. MinusOneMinus(v) = [i \in 1 .. 8 |-> w[i]]
  BY <1>1, <1>3 DEF MinusOneMinus
<1>6. MinusOneMinus(v) = w
  BY <1>5 DEF Words
<1>7. IsNegative(v) <=> ~ IsNegative(w)
  BY <1>1, <1>3 DEF IsNegative
<1> QED
  BY <1>4, <1>6, <1>7 DEF v

-----------------------------------------------------------------------------
\* The bytes of bs from p on begin with the byte h and the bytes x; or with h
\* and, where the input ends, less than x.
Headed(bs, p, h, x) ==
    /\ bs \in Seq(Bytes) /\ p \in Nat \ {0} /\ p + Len(x) <= Len(bs)
    /\ bs[p] = h /\ \A i \in 1 .. Len(x) : bs[p + i] = x[i]
Cut(bs, p, h, x) ==
    /\ bs \in Seq(Bytes) /\ p \in Nat \ {0} /\ p <= Len(bs) /\ Len(bs) < p + Len(x)
    /\ bs[p] = h

\* get_number after a head, and where the input ends.
LEMMA NumberAfter ==
    ASSUME NEW x \in Seq(Bytes), NEW bs, NEW p, NEW h
    PROVE  /\ Headed(bs, p, h, x) => get_number(bs, p + 1, Len(x)) = Read(x, p + Len(x) + 1)
           /\ Cut(bs, p, h, x) => get_number(bs, p + 1, Len(x)) = Failed
<1>1. ASSUME Headed(bs, p, h, x)
      PROVE  get_number(bs, p + 1, Len(x)) = Read(x, p + Len(x) + 1)
  <2> DEFINE n == Len(x)
             y == SubSeq(bs, p + 1, p + n)
  <2>1. bs \in Seq(Bytes) /\ p \in Nat \ {0} /\ n \in Nat /\ p + n <= Len(bs)
    BY <1>1 DEF Headed
  <2>2. \A i \in p + 1 .. p + n : bs[i] \in Bytes
    BY <2>1, ElementOfSeq
  <2>3. y \in Seq(Bytes) /\ Len(y) = n /\ \A i \in 1 .. n : y[i] = bs[p + i]
    BY <2>1, <2>2, SubSeqProperties
  <2>4. \A i \in 1 .. n : y[i] = x[i]
    BY <1>1, <2>3 DEF Headed
  <2>5. y = x
    <3> HIDE DEF y
    <3> QED
      BY <2>3, <2>4, SeqEqual
  <2>6. p + 1 + n - 1 = p + n /\ p + 1 + n - 1 <= Len(bs) /\ p + 1 + n = p + n + 1
    BY <2>1
  <2> HIDE DEF n
  <2> QED
    BY <2>5, <2>6, Zenon DEF get_number, n
<1>2. ASSUME Cut(bs, p, h, x)
      PROVE  get_number(bs, p + 1, Len(x)) = Failed
  BY <1>2 DEF Cut, get_number
<1> QED
  BY <1>1, <1>2

\* The concatenation of two sequences of bytes, byte by byte.
LEMMA Joined ==
    ASSUME NEW a \in Seq(Bytes), NEW b \in Seq(Bytes)
    PROVE  /\ a \o b \in Seq(Bytes) /\ Len(a \o b) = Len(a) + Len(b)
           /\ \A i \in 1 .. Len(a) : (a \o b)[i] = a[i]
           /\ \A i \in 1 .. Len(b) : (a \o b)[Len(a) + i] = b[i]
OBVIOUS

\* A head that is written is a head where it is read, and a piece of it is cut.
LEMMA HeadIs ==
    ASSUME NEW h \in Bytes, NEW x \in Seq(Bytes), NEW before \in Seq(Bytes)
    PROVE  LET head == <<h>> \o x
               p == Len(before) + 1
           IN  /\ Len(head) = Len(x) + 1
               /\ \A rest \in Seq(Bytes) : Headed(before \o head \o rest, p, h, x)
               /\ \A n \in 1 .. Len(x) : Cut(before \o SubSeq(head, 1, n), p, h, x)
<1> DEFINE one == <<h>>
           head == one \o x
           p == Len(before) + 1
<1>1. one \in Seq(Bytes) /\ Len(one) = 1 /\ one[1] = h
  OBVIOUS
<1> HIDE DEF one
<1>2. /\ head \in Seq(Bytes) /\ Len(head) = Len(x) + 1 /\ head[1] = h
      /\ \A i \in 1 .. Len(x) : head[1 + i] = x[i]
  <2>1. /\ head \in Seq(Bytes) /\ Len(head) = Len(one) + Len(x)
        /\ \A i \in 1 .. Len(one) : head[i] = one[i]
        /\ \A i \in 1 .. Len(x) : head[Len(one) + i] = x[i]
    BY <1>1, Joined, Zenon
  <2> HIDE DEF head
  <2> QED
    BY <1>1, <2>1
<1>3. Len(x) \in Nat /\ Len(before) \in Nat
  OBVIOUS
<1> HIDE DEF head
<1>4. ASSUME NEW rest \in Seq(Bytes)
      PROVE  Headed(before \o head \o rest, p, h, x)
  <2> DEFINE c == before \o head
             bs == c \o rest
  <2>1. /\ c \in Seq(Bytes) /\ Len(c) = Len(before) + Len(x) + 1 /\ c[p] = h
        /\ \A i \in 1 .. Len(x) : c[p + i] = x[i]
    <3>1. /\ c \in Seq(Bytes) /\ Len(c) = Len(before) + Len(head)
          /\ \A i \in 1 .. Len(head) : c[Len(before) + i] = head[i]
      BY <1>2, Joined
    <3> HIDE DEF c
    <3> QED
      BY <1>2, <1>3, <3>1
  <2> HIDE DEF c
  <2>2. /\ bs \in Seq(Bytes) /\ Len(bs) = Len(c) + Len(rest) /\ Len(rest) \in Nat
        /\ \A i \in 1 .. Len(c) : bs[i] = c[i]
    BY <2>1, Joined, LenProperties, Zenon
  <2> HIDE DEF bs
  <2>3. bs[p] = h
    BY <1>3, <2>1, <2>2
  <2>4. ASSUME NEW i \in 1 .. Len(x) PROVE bs[p + i] = x[i]
    <3>1. p + i \in 1 .. Len(c) /\ c[p + i] = x[i]
      BY <1>3, <2>1
    <3> QED
      BY <2>2, <3>1, Zenon
  <2>5. Headed(bs, p, h, x)
    BY <1>3, <2>1, <2>2, <2>3, <2>4 DEF Headed
  <2> QED
    BY <2>5 DEF bs, c
<1>5. ASSUME NEW n \in 1 .. Len(x)
      PROVE  Cut(before \o SubSeq(head, 1, n), p, h, x)
  <2> DEFINE y == SubSeq(head, 1, n)
             bs == before \o y
  <2>1. y \in Seq(Bytes) /\ Len(y) = n /\ y[1] = h
    <3>1. \A i \in 1 .. n : head[i] \in Bytes
      BY <1>2, <1>3, ElementOfSeq
    <3>2. /\ y \in Seq(Bytes) /\ Len(y) = n
          /\ \A i \in 1 .. n : y[i] = head[1 + i - 1]
      BY <1>2, <1>3, <3>1, SubSeqProperties
    <3> HIDE DEF y
    <3> QED
      BY <1>2, <1>3, <3>2
  <2> HIDE DEF y
  <2>2. /\ bs \in Seq(Bytes) /\ Len(bs) = Len(before) + n
        /\ bs[p] = h
    BY <1>3, <2>1, Joined
  <2> HIDE DEF bs
  <2>3. Cut(bs, p, h, x)
    BY <1>3, <2>2 DEF Cut
  <2> QED
    BY <2>3 DEF bs, y
<1> QED
  BY <1>2, <1>4, <1>5 DEF head, one

\* The same for a head of one byte.
LEMMA ByteIs ==
    ASSUME NEW h \in Bytes, NEW before \in Seq(Bytes), NEW rest \in Seq(Bytes)
    PROVE  (before \o <<h>> \o rest)[Len(before) + 1] = h /\ Len(<<h>>) = 1
<1>1. <<h>> \in Seq(Bytes) /\ Len(<<h>>) = 1 /\ <<h>>[1] = h
  OBVIOUS
<1> DEFINE c == before \o <<h>>
<1>2. c \in Seq(Bytes) /\ Len(c) = Len(before) + 1 /\ c[Len(before) + 1] = h /\ Len(before) \in Nat
  BY <1>1, Joined
<1> HIDE DEF c
<1>3. (c \o rest)[Len(before) + 1] = h
  BY <1>2, Joined
<1> QED
  BY <1>1, <1>3 DEF c

\* What a reader returns.
LEMMA ReadIs ==
    /\ \A v, q : Read(v, q).ok /\ Read(v, q).v = v /\ Read(v, q).p = q
    /\ ~ Failed.ok
BY DEF Read, Failed

\* The whole word, and its last byte.
LEMMA LowEnds ==
    ASSUME NEW w \in Words
    PROVE  Low(w, 8) = w /\ Low(w, 1) = <<w[8]>> /\ w[8] \in Bytes
<1>1. w \in Seq(Bytes) /\ Len(w) = 8 /\ w[8] \in Bytes
  BY WordIs
<1>2. Low(w, 8) = w
  <2>1. Low(w, 8) \in Seq(Bytes) /\ Len(Low(w, 8)) = 8 /\ \A i \in 1 .. 8 : Low(w, 8)[i] = w[8 - 8 + i]
    BY LowIs
  <2>2. \A i \in 1 .. Len(w) : Low(w, 8)[i] = w[i]
    BY <1>1, <2>1
  <2> QED
    BY <1>1, <2>1, <2>2, SeqEqual
<1>3. Low(w, 1) = <<w[8]>>
  <2>1. Low(w, 1) \in Seq(Bytes) /\ Len(Low(w, 1)) = 1 /\ Low(w, 1)[1] = w[8]
    BY LowIs
  <2>2. <<w[8]>> \in Seq(Bytes) /\ Len(<<w[8]>>) = 1 /\ <<w[8]>>[1] = w[8]
    BY <1>1
  <2>3. \A i \in 1 .. Len(Low(w, 1)) : Low(w, 1)[i] = <<w[8]>>[i]
    BY <2>1, <2>2
  <2> QED
    BY <2>1, <2>2, <2>3, SeqEqual
<1> QED
  BY <1>1, <1>2, <1>3

\* The widths.
LEMMA WidthIs ==
    Width(0) = 1 /\ Width(1) = 2 /\ Width(2) = 4 /\ Width(3) = 8
    /\ \A i \in 0 .. 3 : Width(i) \in {1, 2, 4, 8}
<1>1. Width(0) = 1 /\ Width(1) = 2 /\ Width(2) = 4 /\ Width(3) = 8
  BY DEF Width
<1>2. \A i \in 0 .. 3 : i = 0 \/ i = 1 \/ i = 2 \/ i = 3
  OBVIOUS
<1> QED
  BY <1>1, <1>2

-----------------------------------------------------------------------------
\* The forms of a CBOR head: the word in its low bits, or after it.
LEMMA CborForm ==
    ASSUME NEW w \in Words, NEW base \in Nat
    PROVE  \/ \E k \in 0 .. 23 : CborHead(base, w) = <<base + k>> /\ Word(k) = w
           \/ \E i \in 0 .. 3 : /\ CborHead(base, w) = <<base + 24 + i>> \o Low(w, Width(i))
                                /\ ZeroExtend(Low(w, Width(i))) = w
<1>1. CASE IsSmall(w) /\ Number(w) <= 23
  BY <1>1, SmallWord DEF CborHead
<1>2. ASSUME ~ (IsSmall(w) /\ Number(w) <= 23), NEW i \in 0 .. 3,
             FitsUnsigned(w, Width(i)), \A j \in 0 .. i - 1 : ~ FitsUnsigned(w, Width(j))
      PROVE  /\ CborHead(base, w) = <<base + 24 + i>> \o Low(w, Width(i))
             /\ ZeroExtend(Low(w, Width(i))) = w
  <2>1. ZeroExtend(Low(w, Width(i))) = w
    BY <1>2, WidthIs, CastBack, Zenon
  <2>2. base + 24 + 0 = base + 24 /\ base + 24 + 1 = base + 25 /\ base + 24 + 2 = base + 26
        /\ base + 24 + 3 = base + 27
    OBVIOUS
  <2>3. CASE i = 0
    BY <1>2, <2>1, <2>2, <2>3, WidthIs DEF CborHead
  <2>4. CASE i = 1
    <3>1. ~ FitsUnsigned(w, 1)
      BY <1>2, <2>4, WidthIs
    <3> QED
      BY <1>2, <2>1, <2>2, <2>4, <3>1, WidthIs DEF CborHead
  <2>5. CASE i = 2
    <3>1. ~ FitsUnsigned(w, 1) /\ ~ FitsUnsigned(w, 2)
      BY <1>2, <2>5, WidthIs
    <3> QED
      BY <1>2, <2>1, <2>2, <2>5, <3>1, WidthIs DEF CborHead
  <2>6. CASE i = 3
    <3>1. ~ FitsUnsigned(w, 1) /\ ~ FitsUnsigned(w, 2) /\ ~ FitsUnsigned(w, 4)
      BY <1>2, <2>6, WidthIs
    <3> QED
      BY <1>2, <2>1, <2>2, <2>6, <3>1, WidthIs, LowEnds DEF CborHead
  <2> QED
    BY <2>3, <2>4, <2>5, <2>6
<1>3. \E i \in 0 .. 3 : FitsUnsigned(w, Width(i)) /\ \A j \in 0 .. i - 1 : ~ FitsUnsigned(w, Width(j))
  <2>1. FitsUnsigned(w, 8)
    BY DEF FitsUnsigned
  <2>2. \A j \in 0 .. 2 : j = 0 \/ j = 1 \/ j = 2
    OBVIOUS
  <2>3. CASE FitsUnsigned(w, 1)
    BY <2>3, WidthIs
  <2>4. CASE ~ FitsUnsigned(w, 1) /\ FitsUnsigned(w, 2)
    BY <2>4, WidthIs
  <2>5. CASE ~ FitsUnsigned(w, 1) /\ ~ FitsUnsigned(w, 2) /\ FitsUnsigned(w, 4)
    BY <2>5, WidthIs
  <2>6. CASE ~ FitsUnsigned(w, 1) /\ ~ FitsUnsigned(w, 2) /\ ~ FitsUnsigned(w, 4)
    BY <2>1, <2>2, <2>6, WidthIs
  <2> QED
    BY <2>3, <2>4, <2>5, <2>6
<1> QED
  BY <1>1, <1>2, <1>3

\* CborArgument reads the word w from `head`, wherever it stands in the input
\* and whatever follows; where the input ends inside, it fails.
CborGives(head, w) ==
    \A before \in Seq(Bytes) :
        LET p == Len(before) + 1
        IN  /\ \A rest \in Seq(Bytes) :
                 LET bs == before \o head \o rest
                 IN  CborArgument(bs, p + 1, bs[p] % 32) = Read(w, p + Len(head))
            /\ \A n \in 1 .. Len(head) - 1 :
                 LET bs == before \o SubSeq(head, 1, n)
                 IN  CborArgument(bs, p + 1, bs[p] % 32) = Failed

\* The major types that write_cbor gives a head.
Majors == {0, 32, 96, 128, 160}

\* A head of one byte.
LEMMA CborShort ==
    ASSUME NEW k \in 0 .. 23, NEW base \in Majors
    PROVE  /\ base + k \in Bytes /\ (base + k) % 32 = k /\ (base + k) \div 32 = base \div 32
           /\ CborGives(<<base + k>>, Word(k))
<1> DEFINE h == base + k
<1>1. h \in Bytes /\ h % 32 = k /\ h \div 32 = base \div 32
  <2>1. h \in Nat /\ h <= 255
    BY DEF Majors
  <2>2. h % 32 = k /\ h \div 32 = base \div 32
    BY DEF Majors
  <2> QED
    BY <2>1, <2>2, BytesAre, Zenon
<1> HIDE DEF h
<1>2. ASSUME NEW before \in Seq(Bytes), NEW rest \in Seq(Bytes)
      PROVE  LET p == Len(before) + 1
                 bs == before \o <<h>> \o rest
             IN  CborArgument(bs, p + 1, bs[p] % 32) = Read(Word(k), p + Len(<<h>>))
  <2> DEFINE p == Len(before) + 1
             bs == before \o <<h>> \o rest
  <2>1. bs[p] = h /\ Len(<<h>>) = 1
    BY <1>1, ByteIs
  <2> HIDE DEF bs, p
  <2>2. k <= 23
    OBVIOUS
  <2>3. CborArgument(bs, p + 1, k) = Read(Word(k), p + 1)
    BY <2>2, Zenon DEF CborArgument
  <2> QED
    BY <1>1, <2>1, <2>3 DEF bs, p
<1>3. 1 .. Len(<<h>>) - 1 = {}
  OBVIOUS
<1> QED
  BY <1>1, <1>2, <1>3 DEF CborGives, h

\* A head with a number behind it.
LEMMA CborLong ==
    ASSUME NEW w \in Words, NEW i \in 0 .. 3, NEW base \in Majors,
           ZeroExtend(Low(w, Width(i))) = w
    PROVE  /\ base + 24 + i \in Bytes /\ (base + 24 + i) \div 32 = base \div 32
           /\ CborGives(<<base + 24 + i>> \o Low(w, Width(i)), w)
<1> DEFINE info == 24 + i
           h == base + 24 + i
           n == Width(i)
           x == Low(w, n)
           head == <<h>> \o x
<1>1. h \in Bytes /\ h % 32 = info /\ h \div 32 = base \div 32
  <2>1. h \in Nat /\ h <= 255
    BY DEF Majors
  <2>2. h % 32 = info /\ h \div 32 = base \div 32
    BY DEF Majors
  <2> QED
    BY <2>1, <2>2, BytesAre, Zenon
<1>2. x \in Seq(Bytes) /\ Len(x) = n
  <2>1. n \in 1 .. 8
    <3>1. n \in {1, 2, 4, 8}
      BY WidthIs
    <3> HIDE DEF n
    <3> QED
      BY <3>1
  <2> QED
    BY <2>1, LowIs
<1>3. ZeroExtend(x) = w
  OBVIOUS
<1>4. ~ (info <= 23) /\ info <= 27 /\ Width(info - 24) = n
  <2>1. ~ (info <= 23) /\ info <= 27 /\ info - 24 = i
    OBVIOUS
  <2> QED
    BY <2>1
<1> HIDE DEF h, n, x, info
<1>5. ASSUME NEW bs, NEW q, NEW y, NEW e
      PROVE  /\ get_number(bs, q, n) = Read(y, e) => CborArgument(bs, q, info) = Read(ZeroExtend(y), e)
             /\ get_number(bs, q, n) = Failed => CborArgument(bs, q, info) = Failed
  <2> DEFINE r == get_number(bs, q, n)
  <2>1. CborArgument(bs, q, info) = IF r.ok THEN Read(ZeroExtend(r.v), r.p) ELSE Failed
    BY <1>4 DEF CborArgument, NumberThen
  <2> HIDE DEF r
  <2>2. ASSUME r = Read(y, e) PROVE CborArgument(bs, q, info) = Read(ZeroExtend(y), e)
    <3>1. r.ok /\ r.v = y /\ r.p = e
      BY <2>2, ReadIs, Zenon
    <3> QED
      BY <2>1, <3>1, Zenon
  <2>3. ASSUME r = Failed PROVE CborArgument(bs, q, info) = Failed
    BY <2>1, <2>3, ReadIs, Zenon
  <2> QED
    BY <2>2, <2>3, Zenon DEF r
<1>6. ASSUME NEW before \in Seq(Bytes), NEW rest \in Seq(Bytes)
      PROVE  LET p == Len(before) + 1
                 bs == before \o head \o rest
             IN  CborArgument(bs, p + 1, bs[p] % 32) = Read(w, p + Len(head))
  <2> DEFINE p == Len(before) + 1
             bs == before \o head \o rest
  <2>1. Headed(bs, p, h, x) /\ Len(head) = Len(x) + 1
    BY <1>1, <1>2, HeadIs
  <2>2. p \in Nat /\ bs[p] = h /\ Len(x) \in Nat
    BY <1>2, <2>1 DEF Headed
  <2> HIDE DEF bs, p, head
  <2>3. get_number(bs, p + 1, n) = Read(x, p + Len(x) + 1)
    BY <1>2, <2>1, NumberAfter, Zenon
  <2>4. CborArgument(bs, p + 1, info) = Read(w, p + Len(x) + 1)
    BY <1>3, <1>5, <2>3
  <2>5. p + Len(x) + 1 = p + Len(head)
    BY <2>1, <2>2
  <2>6. CborArgument(bs, p + 1, bs[p] % 32) = Read(w, p + Len(head))
    BY <1>1, <2>2, <2>4, <2>5, Zenon
  <2> QED
    BY <2>6, Zenon DEF bs, p
<1>7. ASSUME NEW before \in Seq(Bytes), NEW m \in 1 .. Len(head) - 1
      PROVE  LET p == Len(before) + 1
                 bs == before \o SubSeq(head, 1, m)
             IN  CborArgument(bs, p + 1, bs[p] % 32) = Failed
  <2> DEFINE p == Len(before) + 1
             bs == before \o SubSeq(head, 1, m)
  <2>1. Cut(bs, p, h, x)
    <3>1. Len(head) = Len(x) + 1 /\ Len(x) \in Nat
      BY <1>1, <1>2, HeadIs, LenProperties
    <3>2. m \in 1 .. Len(x)
      <4> HIDE DEF head
      <4> QED
        BY <3>1
    <3> QED
      BY <1>1, <1>2, <3>2, HeadIs, Zenon
  <2> HIDE DEF bs, p, head
  <2>2. bs[p] = h
    BY <2>1, Zenon DEF Cut
  <2>3. get_number(bs, p + 1, n) = Failed
    BY <1>2, <2>1, NumberAfter, Zenon
  <2>4. CborArgument(bs, p + 1, info) = Failed
    BY <1>5, <2>3, Zenon
  <2>5. CborArgument(bs, p + 1, bs[p] % 32) = Failed
    BY <1>1, <2>2, <2>4, Zenon
  <2> QED
    BY <2>5, Zenon DEF bs, p
<1> QED
  <2>1. CborGives(head, w)
    BY <1>6, <1>7, Zenon DEF CborGives
  <2> QED
    BY <1>1, <2>1, Zenon DEF h, n, x

\* A nonempty sequence in its place.
LEMMA PlaceIs ==
    ASSUME NEW head \in Seq(Bytes), Len(head) >= 1, NEW before \in Seq(Bytes),
           NEW rest \in Seq(Bytes)
    PROVE  (before \o head \o rest)[Len(before) + 1] = head[1]
<1> DEFINE c == before \o head
<1>1. Len(head) \in Nat /\ Len(before) \in Nat
  OBVIOUS
<1>2. /\ c \in Seq(Bytes) /\ Len(c) = Len(before) + Len(head)
      /\ \A i \in 1 .. Len(head) : c[Len(before) + i] = head[i]
  BY Joined, Zenon
<1> HIDE DEF c
<1>3. c[Len(before) + 1] = head[1] /\ Len(before) + 1 \in 1 .. Len(c)
  <2>1. 1 \in 1 .. Len(head)
    BY <1>1
  <2>2. Len(before) + 1 \in 1 .. Len(c)
    BY <1>1, <1>2
  <2> QED
    BY <1>2, <2>1, <2>2, Zenon
<1>4. (c \o rest)[Len(before) + 1] = c[Len(before) + 1]
  BY <1>2, <1>3, Joined
<1> QED
  BY <1>3, <1>4 DEF c

\* Every head that write_cbor writes, for an integer, a string, an array or an
\* object, gives its word back to parse_cbor_internal and keeps its major type,
\* for each of the 2^64 words; a head that the input cuts short is refused.
THEOREM CborHeadsReadBack ==
    \A w \in Words, base \in Majors :
        /\ CborHead(base, w) \in Seq(Bytes) /\ Len(CborHead(base, w)) >= 1
        /\ CborHead(base, w)[1] \div 32 = base \div 32
        /\ CborGives(CborHead(base, w), w)
<1> SUFFICES ASSUME NEW w \in Words, NEW base \in Majors
             PROVE  /\ CborHead(base, w) \in Seq(Bytes) /\ Len(CborHead(base, w)) >= 1
                    /\ CborHead(base, w)[1] \div 32 = base \div 32
                    /\ CborGives(CborHead(base, w), w)
  OBVIOUS
<1> DEFINE head == CborHead(base, w)
<1>1. base \in Nat
  BY DEF Majors
<1>2. ASSUME NEW k \in 0 .. 23, head = <<base + k>>, Word(k) = w
      PROVE  /\ head \in Seq(Bytes) /\ Len(head) >= 1 /\ head[1] \div 32 = base \div 32
             /\ CborGives(head, w)
  <2> DEFINE h == base + k
  <2>1. h \in Bytes /\ h \div 32 = base \div 32 /\ CborGives(<<h>>, w)
    BY <1>2, CborShort
  <2> HIDE DEF h, head
  <2>2. head = <<h>>
    BY <1>2 DEF h
  <2>3. <<h>> \in Seq(Bytes) /\ Len(<<h>>) >= 1 /\ <<h>>[1] = h
    BY <2>1
  <2> QED
    BY <2>1, <2>2, <2>3, Zenon
<1>3. ASSUME NEW i \in 0 .. 3, head = <<base + 24 + i>> \o Low(w, Width(i)),
             ZeroExtend(Low(w, Width(i))) = w
      PROVE  /\ head \in Seq(Bytes) /\ Len(head) >= 1 /\ head[1] \div 32 = base \div 32
             /\ CborGives(head, w)
  <2> DEFINE h == base + 24 + i
             x == Low(w, Width(i))
  <2>1. h \in Bytes /\ h \div 32 = base \div 32 /\ CborGives(<<h>> \o x, w)
    BY <1>3, CborLong
  <2>2. x \in Seq(Bytes)
    <3>1. Width(i) \in 1 .. 8
      <4>1. Width(i) \in {1, 2, 4, 8}
        BY WidthIs
      <4> QED
        BY <4>1
    <3> QED
      BY <3>1, LowIs
  <2> HIDE DEF h, x, head
  <2>3. head = <<h>> \o x
    BY <1>3 DEF h, x
  <2>4. <<h>> \in Seq(Bytes) /\ Len(<<h>>) = 1 /\ <<h>>[1] = h
    BY <2>1
  <2>5. <<h>> \o x \in Seq(Bytes) /\ Len(<<h>> \o x) >= 1 /\ (<<h>> \o x)[1] = h
    BY <2>1, <2>2
  <2> QED
    BY <2>1, <2>3, <2>5, Zenon
<1> QED
  BY <1>1, <1>2, <1>3, CborForm

\* CborNumber reads the value v from `head`, wherever it stands; where the
\* input ends inside, it fails.
CborReads(head, v) ==
    \A before \in Seq(Bytes) :
        LET p == Len(before) + 1
        IN  /\ \A rest \in Seq(Bytes) : CborNumber(before \o head \o rest, p) = Read(v, p + Len(head))
            /\ \A n \in 1 .. Len(head) - 1 : CborNumber(before \o SubSeq(head, 1, n), p) = Failed

\* The value of a head of major type 0 or 1.
LEMMA CborValue ==
    ASSUME NEW w \in Words, NEW base \in {0, 32}
    PROVE  CborReads(CborHead(base, w), IF base = 0 THEN Unsigned(w) ELSE Integer(MinusOneMinus(w)))
<1> DEFINE head == CborHead(base, w)
           v == IF base = 0 THEN Unsigned(w) ELSE Integer(MinusOneMinus(w))
<1>1. /\ head \in Seq(Bytes) /\ Len(head) >= 1 /\ head[1] \div 32 = base \div 32
      /\ CborGives(head, w)
  <2>1. base \in Majors
    BY DEF Majors
  <2> QED
    BY <2>1, CborHeadsReadBack, Zenon
<1> HIDE DEF head
<1>2. head[1] < 32 <=> base = 0
  <2>1. head[1] \in Nat
    <3>1. 1 \in 1 .. Len(head)
      BY <1>1
    <3>2. head[1] \in Bytes
      BY <1>1, <3>1, ElementOfSeq, Zenon
    <3> QED
      BY <3>2, BytesAre, Zenon
  <2> QED
    BY <1>1, <2>1
<1>3. ASSUME NEW before \in Seq(Bytes), NEW rest \in Seq(Bytes)
      PROVE  LET p == Len(before) + 1
             IN  CborNumber(before \o head \o rest, p) = Read(v, p + Len(head))
  <2> DEFINE p == Len(before) + 1
             bs == before \o head \o rest
             arg == CborArgument(bs, p + 1, bs[p] % 32)
  <2>1. bs[p] = head[1]
    BY <1>1, PlaceIs, Zenon
  <2>2. arg = Read(w, p + Len(head))
    BY <1>1, Zenon DEF CborGives
  <2>3. CborNumber(bs, p) = IF ~ arg.ok THEN Failed
                            ELSE IF bs[p] < 32 THEN Read(Unsigned(arg.v), arg.p)
                            ELSE Read(Integer(MinusOneMinus(arg.v)), arg.p)
    BY Zenon DEF CborNumber
  <2> HIDE DEF arg, bs, p
  <2>4. arg.ok /\ arg.v = w /\ arg.p = p + Len(head)
    BY <2>2, ReadIs
  <2>5. CborNumber(bs, p) = Read(v, p + Len(head))
    <3>1. CASE base = 0
      BY <1>2, <2>1, <2>3, <2>4, <3>1, Zenon
    <3>2. CASE base # 0
      BY <1>2, <2>1, <2>3, <2>4, <3>2, Zenon
    <3> QED
      BY <3>1, <3>2, Zenon
  <2> QED
    BY <2>5, Zenon DEF bs, p
<1>4. ASSUME NEW before \in Seq(Bytes), NEW n \in 1 .. Len(head) - 1
      PROVE  LET p == Len(before) + 1
             IN  CborNumber(before \o SubSeq(head, 1, n), p) = Failed
  <2> DEFINE p == Len(before) + 1
             bs == before \o SubSeq(head, 1, n)
             arg == CborArgument(bs, p + 1, bs[p] % 32)
  <2>1. arg = Failed
    BY <1>1, Zenon DEF CborGives
  <2> QED
    BY <2>1, ReadIs, Zenon DEF CborNumber
<1> QED
  BY <1>3, <1>4, Zenon DEF CborReads, head

\* CBOR integers: what write_cbor writes of an unsigned and of a signed number,
\* parse_cbor_internal reads as the same 64 bits, an Integer when negative.
THEOREM CborIntegersReadBack ==
    \A w \in Words :
        /\ CborReads(CborHead(0, w), Unsigned(w))
        /\ CborReads(CborInteger(w), IF IsNegative(w) THEN Integer(w) ELSE Unsigned(w))
<1> SUFFICES ASSUME NEW w \in Words
             PROVE  /\ CborReads(CborHead(0, w), Unsigned(w))
                    /\ CborReads(CborInteger(w), IF IsNegative(w) THEN Integer(w) ELSE Unsigned(w))
  OBVIOUS
<1>1. CborReads(CborHead(0, w), Unsigned(w))
  BY CborValue
<1>2. CborReads(CborHead(32, MinusOneMinus(w)), Integer(w))
  <2>1. MinusOneMinus(w) \in Words /\ MinusOneMinus(MinusOneMinus(w)) = w
    BY Complement
  <2>2. 32 \in {0, 32} /\ 32 # 0
    OBVIOUS
  <2>3. CborReads(CborHead(32, MinusOneMinus(w)), Integer(MinusOneMinus(MinusOneMinus(w))))
    BY <2>1, <2>2, CborValue
  <2> QED
    BY <2>1, <2>3, Zenon
<1> QED
  BY <1>1, <1>2, Zenon DEF CborInteger

-----------------------------------------------------------------------------
\* A type byte h and the n bytes after it, as get_number finds them.
Tagged(h, x, n) ==
    \A before \in Seq(Bytes) :
        LET head == <<h>> \o x
            p == Len(before) + 1
        IN  /\ \A rest \in Seq(Bytes) :
                 LET bs == before \o head \o rest
                 IN  bs[p] = h /\ get_number(bs, p + 1, n) = Read(x, p + Len(head))
            /\ \A m \in 1 .. Len(head) - 1 :
                 LET bs == before \o SubSeq(head, 1, m)
                 IN  bs[p] = h /\ get_number(bs, p + 1, n) = Failed

\* Every number behind a type byte is found.
LEMMA TaggedIs ==
    ASSUME NEW h \in Bytes, NEW w \in Words, NEW n \in {1, 2, 4, 8}
    PROVE  Tagged(h, Low(w, n), n)
<1> DEFINE x == Low(w, n)
           head == <<h>> \o x
<1>1. x \in Seq(Bytes) /\ Len(x) = n
  <2>1. n \in 1 .. 8
    OBVIOUS
  <2> QED
    BY <2>1, LowIs
<1> HIDE DEF x
<1>2. ASSUME NEW before \in Seq(Bytes), NEW rest \in Seq(Bytes)
      PROVE  LET p == Len(before) + 1
                 bs == before \o head \o rest
             IN  bs[p] = h /\ get_number(bs, p + 1, n) = Read(x, p + Len(head))
  <2> DEFINE p == Len(before) + 1
             bs == before \o head \o rest
  <2>1. Headed(bs, p, h, x) /\ Len(head) = Len(x) + 1
    BY <1>1, HeadIs
  <2>2. p \in Nat /\ bs[p] = h /\ Len(x) \in Nat
    BY <1>1, <2>1 DEF Headed
  <2> HIDE DEF bs, p, head
  <2>3. get_number(bs, p + 1, n) = Read(x, p + Len(x) + 1)
    BY <1>1, <2>1, NumberAfter, Zenon
  <2>4. p + Len(x) + 1 = p + Len(head)
    BY <2>1, <2>2
  <2> QED
    BY <2>2, <2>3, <2>4, Zenon DEF bs, p
<1>3. ASSUME NEW before \in Seq(Bytes), NEW m \in 1 .. Len(head) - 1
      PROVE  LET p == Len(before) + 1
                 bs == before \o SubSeq(head, 1, m)
             IN  bs[p] = h /\ get_number(bs, p + 1, n) = Failed
  <2> DEFINE p == Len(before) + 1
             bs == before \o SubSeq(head, 1, m)
  <2>1. Cut(bs, p, h, x)
    <3>1. Len(head) = Len(x) + 1 /\ Len(x) \in Nat
      BY <1>1, HeadIs, LenProperties
    <3>2. m \in 1 .. Len(x)
      <4> HIDE DEF head
      <4> QED
        BY <3>1
    <3> QED
      BY <1>1, <3>2, HeadIs, Zenon
  <2> HIDE DEF bs, p, head
  <2>2. bs[p] = h /\ get_number(bs, p + 1, n) = Failed
    BY <1>1, <2>1, NumberAfter, Zenon DEF Cut
  <2> QED
    BY <2>2, Zenon DEF bs, p
<1>4. Tagged(h, x, n)
  BY <1>2, <1>3, Zenon DEF Tagged
<1> QED
  BY <1>4 DEF x

\* MsgpackNumber reads the value v from `head`, wherever it stands; where the
\* input ends inside, it fails.
MsgpackReads(head, v) ==
    \A before \in Seq(Bytes) :
        LET p == Len(before) + 1
        IN  /\ \A rest \in Seq(Bytes) : MsgpackNumber(before \o head \o rest, p) = Read(v, p + Len(head))
            /\ \A n \in 1 .. Len(head) - 1 : MsgpackNumber(before \o SubSeq(head, 1, n), p) = Failed

\* The reader on each kind of first byte.
LEMMA MsgpackCases ==
    ASSUME NEW bs, NEW p
    PROVE  /\ \A i \in 0 .. 3 : bs[p] = 204 + i =>
                 LET r == get_number(bs, p + 1, Width(i))
                 IN  MsgpackNumber(bs, p) = IF r.ok THEN Read(UnsignedOf(r.v), r.p) ELSE Failed
           /\ \A i \in 0 .. 3 : bs[p] = 208 + i =>
                 LET r == get_number(bs, p + 1, Width(i))
                 IN  MsgpackNumber(bs, p) = IF r.ok THEN Read(IntegerOf(r.v), r.p) ELSE Failed
           /\ bs[p] \in Nat /\ bs[p] < 128 =>
                 MsgpackNumber(bs, p) = Read(UnsignedOf(<<bs[p]>>), p + 1)
           /\ bs[p] \in Nat /\ bs[p] >= 224 =>
                 MsgpackNumber(bs, p) = Read(IntegerOf(<<bs[p]>>), p + 1)
<1>1. ASSUME NEW i \in 0 .. 3, bs[p] = 204 + i
      PROVE  LET r == get_number(bs, p + 1, Width(i))
             IN  MsgpackNumber(bs, p) = IF r.ok THEN Read(UnsignedOf(r.v), r.p) ELSE Failed
  <2> DEFINE b == bs[p]
  <2>1. b \in 204 .. 207 /\ ~ (b < 128) /\ b - 204 = i /\ b \notin 208 .. 211 /\ b # 202 /\ b # 203 /\ ~ (b >= 224)
    BY <1>1
  <2> HIDE DEF b
  <2> QED
    BY <2>1 DEF MsgpackNumber, NumberThen, b
<1>2. ASSUME NEW i \in 0 .. 3, bs[p] = 208 + i
      PROVE  LET r == get_number(bs, p + 1, Width(i))
             IN  MsgpackNumber(bs, p) = IF r.ok THEN Read(IntegerOf(r.v), r.p) ELSE Failed
  <2> DEFINE b == bs[p]
  <2>1. b \in 208 .. 211 /\ ~ (b < 128) /\ b - 208 = i /\ b \notin 204 .. 207 /\ b # 202 /\ b # 203 /\ ~ (b >= 224)
    BY <1>2
  <2> HIDE DEF b
  <2> QED
    BY <2>1 DEF MsgpackNumber, NumberThen, b
<1>3. ASSUME bs[p] \in Nat, bs[p] < 128
      PROVE  MsgpackNumber(bs, p) = Read(UnsignedOf(<<bs[p]>>), p + 1)
  <2> DEFINE b == bs[p]
  <2>1. b < 128 /\ b \notin 204 .. 207 /\ b \notin 208 .. 211 /\ b # 202 /\ b # 203 /\ ~ (b >= 224)
    BY <1>3
  <2> HIDE DEF b
  <2> QED
    BY <2>1 DEF MsgpackNumber, PositiveFixint, b
<1>4. ASSUME bs[p] \in Nat, bs[p] >= 224
      PROVE  MsgpackNumber(bs, p) = Read(IntegerOf(<<bs[p]>>), p + 1)
  <2> DEFINE b == bs[p]
  <2>1. b >= 224 /\ ~ (b < 128) /\ b \notin 204 .. 207 /\ b \notin 208 .. 211 /\ b # 202 /\ b # 203
    BY <1>4
  <2> HIDE DEF b
  <2> QED
    BY <2>1 DEF MsgpackNumber, NegativeFixint, b
<1> QED
  BY <1>1, <1>2, <1>3, <1>4

\* A number of its own type byte, unsigned or signed.
LEMMA MsgpackLong ==
    ASSUME NEW w \in Words, NEW i \in 0 .. 3
    PROVE  /\ ZeroExtend(Low(w, Width(i))) = w =>
                 MsgpackReads(<<204 + i>> \o Low(w, Width(i)), Unsigned(w))
           /\ SignExtend(Low(w, Width(i))) = w =>
                 MsgpackReads(<<208 + i>> \o Low(w, Width(i)), Integer(w))
<1> DEFINE n == Width(i)
           x == Low(w, n)
<1>1. n \in {1, 2, 4, 8}
  BY WidthIs
<1>2. ASSUME NEW h \in Bytes PROVE Tagged(h, x, n)
  <2> HIDE DEF n
  <2> QED
    BY <1>1, TaggedIs
<1>3. ASSUME ZeroExtend(x) = w, NEW h, h = 204 + i
      PROVE  MsgpackReads(<<h>> \o x, Unsigned(w))
  <2>1. h \in Bytes
    <3>1. h \in Nat /\ h <= 255
      BY <1>3
    <3> QED
      BY <3>1, BytesAre, Zenon
  <2>2. Tagged(h, x, n)
    BY <1>2, <2>1
  <2>3. UnsignedOf(x) = Unsigned(w)
    BY <1>3 DEF UnsignedOf
  <2>4. ASSUME NEW bs, NEW p, bs[p] = h
        PROVE  /\ \A q : get_number(bs, p + 1, n) = Read(x, q) => MsgpackNumber(bs, p) = Read(Unsigned(w), q)
               /\ get_number(bs, p + 1, n) = Failed => MsgpackNumber(bs, p) = Failed
    <3> DEFINE r == get_number(bs, p + 1, n)
    <3>1. MsgpackNumber(bs, p) = IF r.ok THEN Read(UnsignedOf(r.v), r.p) ELSE Failed
      <4>1. bs[p] = 204 + i
        BY <1>3, <2>4, Zenon
      <4> QED
        BY <4>1, MsgpackCases, Zenon
    <3> HIDE DEF r, n, x
    <3>2. ASSUME NEW q, r = Read(x, q) PROVE MsgpackNumber(bs, p) = Read(Unsigned(w), q)
      <4>1. r.ok /\ r.v = x /\ r.p = q
        BY <3>2, ReadIs, Zenon
      <4> QED
        BY <2>3, <3>1, <4>1, Zenon
    <3>3. ASSUME r = Failed PROVE MsgpackNumber(bs, p) = Failed
      BY <3>1, <3>3, ReadIs, Zenon
    <3> QED
      BY <3>2, <3>3, Zenon DEF r
  <2> HIDE DEF n, x
  <2> DEFINE head == <<h>> \o x
  <2>5. ASSUME NEW before \in Seq(Bytes), NEW rest \in Seq(Bytes)
        PROVE  MsgpackNumber(before \o head \o rest, Len(before) + 1) = Read(Unsigned(w), Len(before) + 1 + Len(head))
    <3> DEFINE p == Len(before) + 1
               bs == before \o head \o rest
    <3>1. bs[p] = h /\ get_number(bs, p + 1, n) = Read(x, p + Len(head))
      BY <2>2, Zenon DEF Tagged
    <3> HIDE DEF p, bs, head
    <3>2. MsgpackNumber(bs, p) = Read(Unsigned(w), p + Len(head))
      BY <2>4, <3>1, Zenon
    <3> QED
      BY <3>2, Zenon DEF p, bs
  <2>6. ASSUME NEW before \in Seq(Bytes), NEW m \in 1 .. Len(head) - 1
        PROVE  MsgpackNumber(before \o SubSeq(head, 1, m), Len(before) + 1) = Failed
    <3> DEFINE p == Len(before) + 1
               bs == before \o SubSeq(head, 1, m)
    <3>1. bs[p] = h /\ get_number(bs, p + 1, n) = Failed
      BY <2>2, Zenon DEF Tagged
    <3> HIDE DEF p, bs, head
    <3>2. MsgpackNumber(bs, p) = Failed
      BY <2>4, <3>1, Zenon
    <3> QED
      BY <3>2, Zenon DEF p, bs
  <2> QED
    BY <2>5, <2>6, Zenon DEF MsgpackReads
<1>4. ASSUME SignExtend(x) = w, NEW h, h = 208 + i
      PROVE  MsgpackReads(<<h>> \o x, Integer(w))
  <2>1. h \in Bytes
    <3>1. h \in Nat /\ h <= 255
      BY <1>4
    <3> QED
      BY <3>1, BytesAre, Zenon
  <2>2. Tagged(h, x, n)
    BY <1>2, <2>1
  <2>3. IntegerOf(x) = Integer(w)
    BY <1>4 DEF IntegerOf
  <2>4. ASSUME NEW bs, NEW p, bs[p] = h
        PROVE  /\ \A q : get_number(bs, p + 1, n) = Read(x, q) => MsgpackNumber(bs, p) = Read(Integer(w), q)
               /\ get_number(bs, p + 1, n) = Failed => MsgpackNumber(bs, p) = Failed
    <3> DEFINE r == get_number(bs, p + 1, n)
    <3>1. MsgpackNumber(bs, p) = IF r.ok THEN Read(IntegerOf(r.v), r.p) ELSE Failed
      <4>1. bs[p] = 208 + i
        BY <1>4, <2>4, Zenon
      <4> QED
        BY <4>1, MsgpackCases, Zenon
    <3> HIDE DEF r, n, x
    <3>2. ASSUME NEW q, r = Read(x, q) PROVE MsgpackNumber(bs, p) = Read(Integer(w), q)
      <4>1. r.ok /\ r.v = x /\ r.p = q
        BY <3>2, ReadIs, Zenon
      <4> QED
        BY <2>3, <3>1, <4>1, Zenon
    <3>3. ASSUME r = Failed PROVE MsgpackNumber(bs, p) = Failed
      BY <3>1, <3>3, ReadIs, Zenon
    <3> QED
      BY <3>2, <3>3, Zenon DEF r
  <2> HIDE DEF n, x
  <2> DEFINE head == <<h>> \o x
  <2>5. ASSUME NEW before \in Seq(Bytes), NEW rest \in Seq(Bytes)
        PROVE  MsgpackNumber(before \o head \o rest, Len(before) + 1) = Read(Integer(w), Len(before) + 1 + Len(head))
    <3> DEFINE p == Len(before) + 1
               bs == before \o head \o rest
    <3>1. bs[p] = h /\ get_number(bs, p + 1, n) = Read(x, p + Len(head))
      BY <2>2, Zenon DEF Tagged
    <3> HIDE DEF p, bs, head
    <3>2. MsgpackNumber(bs, p) = Read(Integer(w), p + Len(head))
      BY <2>4, <3>1, Zenon
    <3> QED
      BY <3>2, Zenon DEF p, bs
  <2>6. ASSUME NEW before \in Seq(Bytes), NEW m \in 1 .. Len(head) - 1
        PROVE  MsgpackNumber(before \o SubSeq(head, 1, m), Len(before) + 1) = Failed
    <3> DEFINE p == Len(before) + 1
               bs == before \o SubSeq(head, 1, m)
    <3>1. bs[p] = h /\ get_number(bs, p + 1, n) = Failed
      BY <2>2, Zenon DEF Tagged
    <3> HIDE DEF p, bs, head
    <3>2. MsgpackNumber(bs, p) = Failed
      BY <2>4, <3>1, Zenon
    <3> QED
      BY <3>2, Zenon DEF p, bs
  <2> QED
    BY <2>5, <2>6, Zenon DEF MsgpackReads
<1> QED
  BY <1>3, <1>4

\* A number that is its own byte.
LEMMA MsgpackShort ==
    ASSUME NEW w \in Words
    PROVE  /\ w[8] < 128 /\ ZeroExtend(Low(w, 1)) = w => MsgpackReads(Low(w, 1), Unsigned(w))
           /\ w[8] >= 224 /\ SignExtend(Low(w, 1)) = w => MsgpackReads(Low(w, 1), Integer(w))
<1> DEFINE h == w[8]
<1>1. Low(w, 1) = <<h>> /\ h \in Bytes /\ h \in Nat
  <2>1. 8 \in 1 .. 8
    OBVIOUS
  <2> QED
    BY <2>1, LowEnds, WordIs, Zenon
<1> HIDE DEF h
<1>2. Len(<<h>>) = 1 /\ 1 .. Len(<<h>>) - 1 = {}
  OBVIOUS
<1>3. \A before, rest \in Seq(Bytes) : (before \o <<h>> \o rest)[Len(before) + 1] = h
  BY <1>1, ByteIs, Zenon
<1>4. ASSUME NEW v, \A bs, p : bs[p] = h => MsgpackNumber(bs, p) = Read(v, p + 1)
      PROVE  MsgpackReads(<<h>>, v)
  BY <1>2, <1>3, <1>4, Zenon DEF MsgpackReads
<1>5. ASSUME h < 128, ZeroExtend(<<h>>) = w PROVE MsgpackReads(<<h>>, Unsigned(w))
  <2>1. \A bs, p : bs[p] = h => MsgpackNumber(bs, p) = Read(Unsigned(w), p + 1)
    BY <1>1, <1>5, MsgpackCases, Zenon DEF UnsignedOf
  <2> QED
    BY <1>4, <2>1, Zenon
<1>6. ASSUME h >= 224, SignExtend(<<h>>) = w PROVE MsgpackReads(<<h>>, Integer(w))
  <2>1. \A bs, p : bs[p] = h => MsgpackNumber(bs, p) = Read(Integer(w), p + 1)
    BY <1>1, <1>6, MsgpackCases, Zenon DEF IntegerOf
  <2> QED
    BY <1>4, <2>1, Zenon
<1> QED
  BY <1>1, <1>5, <1>6, Zenon DEF h

\* MessagePack integers: what write_msgpack writes of an unsigned and of a
\* signed number, parse_msgpack_internal reads as the same 64 bits, an Integer
\* when negative; a number that the input cuts short is refused.
THEOREM MsgpackIntegersReadBack ==
    \A w \in Words :
        /\ MsgpackReads(MsgpackUnsigned(w), Unsigned(w))
        /\ MsgpackReads(MsgpackInteger(w), IF IsNegative(w) THEN Integer(w) ELSE Unsigned(w))
<1> SUFFICES ASSUME NEW w \in Words
             PROVE  /\ MsgpackReads(MsgpackUnsigned(w), Unsigned(w))
                    /\ MsgpackReads(MsgpackInteger(w), IF IsNegative(w) THEN Integer(w) ELSE Unsigned(w))
  OBVIOUS
<1>1. \A n \in {1, 2, 4, 8} : /\ FitsUnsigned(w, n) => ZeroExtend(Low(w, n)) = w
                              /\ FitsSigned(w, n) => SignExtend(Low(w, n)) = w
  BY CastBack
<1>2. FitsUnsigned(w, 8) /\ FitsSigned(w, 8)
  BY DEF FitsUnsigned, FitsSigned
<1>3. /\ FitsUnsigned(w, 1) => MsgpackReads(<<204>> \o Low(w, 1), Unsigned(w))
      /\ FitsUnsigned(w, 2) => MsgpackReads(<<205>> \o Low(w, 2), Unsigned(w))
      /\ FitsUnsigned(w, 4) => MsgpackReads(<<206>> \o Low(w, 4), Unsigned(w))
      /\ MsgpackReads(<<207>> \o w, Unsigned(w))
  <2>1. \A i \in 0 .. 3 : ZeroExtend(Low(w, Width(i))) = w =>
            MsgpackReads(<<204 + i>> \o Low(w, Width(i)), Unsigned(w))
    BY MsgpackLong
  <2>2. /\ ZeroExtend(Low(w, 1)) = w => MsgpackReads(<<204 + 0>> \o Low(w, 1), Unsigned(w))
        /\ ZeroExtend(Low(w, 2)) = w => MsgpackReads(<<204 + 1>> \o Low(w, 2), Unsigned(w))
        /\ ZeroExtend(Low(w, 4)) = w => MsgpackReads(<<204 + 2>> \o Low(w, 4), Unsigned(w))
        /\ ZeroExtend(Low(w, 8)) = w => MsgpackReads(<<204 + 3>> \o Low(w, 8), Unsigned(w))
    BY <2>1, WidthIs
  <2>3. 204 + 0 = 204 /\ 204 + 1 = 205 /\ 204 + 2 = 206 /\ 204 + 3 = 207
    OBVIOUS
  <2> QED
    BY <1>1, <1>2, <2>2, <2>3, LowEnds
<1>4. /\ FitsSigned(w, 1) => MsgpackReads(<<208>> \o Low(w, 1), Integer(w))
      /\ FitsSigned(w, 2) => MsgpackReads(<<209>> \o Low(w, 2), Integer(w))
      /\ FitsSigned(w, 4) => MsgpackReads(<<210>> \o Low(w, 4), Integer(w))
      /\ MsgpackReads(<<211>> \o w, Integer(w))
  <2>1. \A i \in 0 .. 3 : SignExtend(Low(w, Width(i))) = w =>
            MsgpackReads(<<208 + i>> \o Low(w, Width(i)), Integer(w))
    BY MsgpackLong
  <2>2. /\ SignExtend(Low(w, 1)) = w => MsgpackReads(<<208 + 0>> \o Low(w, 1), Integer(w))
        /\ SignExtend(Low(w, 2)) = w => MsgpackReads(<<208 + 1>> \o Low(w, 2), Integer(w))
        /\ SignExtend(Low(w, 4)) = w => MsgpackReads(<<208 + 2>> \o Low(w, 4), Integer(w))
        /\ SignExtend(Low(w, 8)) = w => MsgpackReads(<<208 + 3>> \o Low(w, 8), Integer(w))
    BY <2>1, WidthIs
  <2>3. 208 + 0 = 208 /\ 208 + 1 = 209 /\ 208 + 2 = 210 /\ 208 + 3 = 211
    OBVIOUS
  <2> QED
    BY <1>1, <1>2, <2>2, <2>3, LowEnds
<1>5. FitsPositive(w, 1) => MsgpackReads(Low(w, 1), Unsigned(w))
  <2>1. 9 - 1 = 8
    OBVIOUS
  <2> QED
    BY <1>1, <2>1, MsgpackShort DEF FitsPositive
<1>6. FitsSigned(w, 1) /\ w[8] >= 224 => MsgpackReads(Low(w, 1), Integer(w))
  BY <1>1, MsgpackShort
<1>7. MsgpackReads(MsgpackUnsigned(w), Unsigned(w))
  BY <1>3, <1>5 DEF MsgpackUnsigned
<1>8. CASE IsNegative(w)
  <2>1. MsgpackReads(MsgpackInteger(w), Integer(w))
    BY <1>4, <1>6, <1>8 DEF MsgpackInteger
  <2> QED
    BY <1>7, <1>8, <2>1, Zenon
<1>9. CASE ~ IsNegative(w)
  <2>1. MsgpackInteger(w) = MsgpackUnsigned(w)
    BY <1>9, Zenon DEF MsgpackInteger
  <2> QED
    BY <1>7, <1>9, <2>1, Zenon
<1> QED
  BY <1>8, <1>9

-----------------------------------------------------------------------------
\* UbjsonWord, after the prefix, reads the word w from `head`, wherever it
\* stands; where the input ends inside, it fails.
UbjsonReads(head, w) ==
    \A before \in Seq(Bytes) :
        LET p == Len(before) + 1
        IN  /\ \A rest \in Seq(Bytes) :
                 LET bs == before \o head \o rest
                 IN  UbjsonWord(bs, p + 1, bs[p]) = Read(w, p + Len(head))
            /\ \A n \in 1 .. Len(head) - 1 :
                 LET bs == before \o SubSeq(head, 1, n)
                 IN  UbjsonWord(bs, p + 1, bs[p]) = Failed

\* The integer types.
Prefixes == {"i", "U", "I", "l", "L"}

\* Their codes and widths.
LEMMA PrefixIs ==
    /\ PrefixCode("i") = 105 /\ PrefixCode("U") = 85 /\ PrefixCode("I") = 73
    /\ PrefixCode("l") = 108 /\ PrefixCode("L") = 76
    /\ UbjsonWidth("i") = 1 /\ UbjsonWidth("U") = 1 /\ UbjsonWidth("I") = 2
    /\ UbjsonWidth("l") = 4 /\ UbjsonWidth("L") = 8
    /\ \A t \in Prefixes : PrefixCode(t) \in Bytes /\ UbjsonWidth(t) \in {1, 2, 4, 8}
<1>1. /\ PrefixCode("i") = 105 /\ PrefixCode("U") = 85 /\ PrefixCode("I") = 73
      /\ PrefixCode("l") = 108 /\ PrefixCode("L") = 76
  BY DEF PrefixCode
<1>2. /\ UbjsonWidth("i") = 1 /\ UbjsonWidth("U") = 1 /\ UbjsonWidth("I") = 2
      /\ UbjsonWidth("l") = 4 /\ UbjsonWidth("L") = 8
  BY DEF UbjsonWidth
<1>3. ASSUME NEW t \in Prefixes PROVE PrefixCode(t) \in Bytes /\ UbjsonWidth(t) \in {1, 2, 4, 8}
  <2>1. PrefixCode(t) \in Nat /\ PrefixCode(t) <= 255
    BY <1>1 DEF Prefixes
  <2>2. UbjsonWidth(t) \in {1, 2, 4, 8}
    BY <1>2 DEF Prefixes
  <2> QED
    BY <2>1, <2>2, BytesAre, Zenon
<1> QED
  BY <1>1, <1>2, <1>3

\* The reader on each prefix.
LEMMA UbjsonCases ==
    ASSUME NEW bs, NEW p, NEW t \in Prefixes
    PROVE  LET r == get_number(bs, p, UbjsonWidth(t))
               Extended(b) == IF t = "U" THEN ZeroExtend(b) ELSE SignExtend(b)
           IN  UbjsonWord(bs, p, PrefixCode(t)) = IF r.ok THEN Read(Extended(r.v), r.p) ELSE Failed
<1>1. CASE t = "U"
  BY <1>1, PrefixIs DEF UbjsonWord, NumberThen
<1>2. CASE t = "i"
  BY <1>2, PrefixIs DEF UbjsonWord, NumberThen
<1>3. CASE t = "I"
  BY <1>3, PrefixIs DEF UbjsonWord, NumberThen
<1>4. CASE t = "l"
  BY <1>4, PrefixIs DEF UbjsonWord, NumberThen
<1>5. CASE t = "L"
  BY <1>5, PrefixIs DEF UbjsonWord, NumberThen
<1> QED
  BY <1>1, <1>2, <1>3, <1>4, <1>5 DEF Prefixes

\* A number behind its prefix.
LEMMA UbjsonLong ==
    ASSUME NEW w \in Words, NEW t \in Prefixes,
           t = "U" => ZeroExtend(Low(w, UbjsonWidth(t))) = w,
           t # "U" => SignExtend(Low(w, UbjsonWidth(t))) = w
    PROVE  UbjsonReads(UbjsonBytes(w, t, TRUE), w)
<1> DEFINE h == PrefixCode(t)
           n == UbjsonWidth(t)
           x == Low(w, n)
           head == <<h>> \o x
           Extended(b) == IF t = "U" THEN ZeroExtend(b) ELSE SignExtend(b)
<1>1. Tagged(h, x, n)
  <2>1. h \in Bytes /\ n \in {1, 2, 4, 8}
    BY PrefixIs, Zenon
  <2> HIDE DEF h, n
  <2> QED
    BY <2>1, TaggedIs
<1>2. Extended(x) = w
  BY Zenon
<1>3. ASSUME NEW bs, NEW p
      PROVE  /\ \A q : get_number(bs, p + 1, n) = Read(x, q) => UbjsonWord(bs, p + 1, h) = Read(w, q)
             /\ get_number(bs, p + 1, n) = Failed => UbjsonWord(bs, p + 1, h) = Failed
  <2> DEFINE r == get_number(bs, p + 1, n)
  <2>1. UbjsonWord(bs, p + 1, h) = IF r.ok THEN Read(Extended(r.v), r.p) ELSE Failed
    BY UbjsonCases, Zenon
  <2> HIDE DEF r, n, x, h, Extended
  <2>2. ASSUME NEW q, r = Read(x, q) PROVE UbjsonWord(bs, p + 1, h) = Read(w, q)
    <3>1. r.ok /\ r.v = x /\ r.p = q
      BY <2>2, ReadIs, Zenon
    <3> QED
      BY <1>2, <2>1, <3>1, Zenon
  <2>3. ASSUME r = Failed PROVE UbjsonWord(bs, p + 1, h) = Failed
    BY <2>1, <2>3, ReadIs, Zenon
  <2> QED
    BY <2>2, <2>3, Zenon DEF r
<1> HIDE DEF h, n, x, Extended
<1>4. ASSUME NEW before \in Seq(Bytes), NEW rest \in Seq(Bytes)
      PROVE  LET p == Len(before) + 1
                 bs == before \o head \o rest
             IN  UbjsonWord(bs, p + 1, bs[p]) = Read(w, p + Len(head))
  <2> DEFINE p == Len(before) + 1
             bs == before \o head \o rest
  <2>1. bs[p] = h /\ get_number(bs, p + 1, n) = Read(x, p + Len(head))
    BY <1>1, Zenon DEF Tagged
  <2> HIDE DEF p, bs, head
  <2>2. UbjsonWord(bs, p + 1, bs[p]) = Read(w, p + Len(head))
    BY <1>3, <2>1, Zenon
  <2> QED
    BY <2>2, Zenon DEF p, bs
<1>5. ASSUME NEW before \in Seq(Bytes), NEW m \in 1 .. Len(head) - 1
      PROVE  LET p == Len(before) + 1
                 bs == before \o SubSeq(head, 1, m)
             IN  UbjsonWord(bs, p + 1, bs[p]) = Failed
  <2> DEFINE p == Len(before) + 1
             bs == before \o SubSeq(head, 1, m)
  <2>1. bs[p] = h /\ get_number(bs, p + 1, n) = Failed
    BY <1>1, Zenon DEF Tagged
  <2> HIDE DEF p, bs, head
  <2>2. UbjsonWord(bs, p + 1, bs[p]) = Failed
    BY <1>3, <2>1, Zenon
  <2> QED
    BY <2>2, Zenon DEF p, bs
<1>6. UbjsonReads(head, w)
  BY <1>4, <1>5, Zenon DEF UbjsonReads
<1>7. UbjsonBytes(w, t, TRUE) = head
  BY Zenon DEF UbjsonBytes, h, n, x
<1> QED
  BY <1>6, <1>7, Zenon

\* UBJSON integers: what write_number_with_ubjson_prefix writes of a number below
\* 2^63, and of every signed number, the reader reads as the same 64 bits; a
\* number that the input cuts short is refused.
THEOREM UbjsonIntegersReadBack ==
    \A w \in Words :
        /\ ~ IsNegative(w) => UbjsonReads(UbjsonUnsigned(w, TRUE), w)
        /\ UbjsonReads(UbjsonInteger(w, TRUE), w)
<1> SUFFICES ASSUME NEW w \in Words
             PROVE  /\ ~ IsNegative(w) => UbjsonReads(UbjsonUnsigned(w, TRUE), w)
                    /\ UbjsonReads(UbjsonInteger(w, TRUE), w)
  OBVIOUS
<1>1. \A n \in {1, 2, 4, 8} : /\ FitsUnsigned(w, n) => ZeroExtend(Low(w, n)) = w
                              /\ FitsPositive(w, n) => SignExtend(Low(w, n)) = w
                              /\ FitsSigned(w, n) => SignExtend(Low(w, n)) = w
  BY CastBack
<1>2. FitsSigned(w, 8)
  BY DEF FitsSigned
<1>3. \A t \in Prefixes :
          /\ t = "U" => ZeroExtend(Low(w, UbjsonWidth(t))) = w
          /\ t # "U" => SignExtend(Low(w, UbjsonWidth(t))) = w
          => UbjsonReads(UbjsonBytes(w, t, TRUE), w)
  BY UbjsonLong, Zenon
<1>4. /\ UnsignedPrefix(w) \in Prefixes
      /\ UnsignedPrefix(w) = "U" => ZeroExtend(Low(w, UbjsonWidth(UnsignedPrefix(w)))) = w
      /\ UnsignedPrefix(w) # "U" => SignExtend(Low(w, UbjsonWidth(UnsignedPrefix(w)))) = w
  BY <1>1, <1>2, PrefixIs DEF UnsignedPrefix, Prefixes
<1>5. /\ IntegerPrefix(w) \in Prefixes
      /\ IntegerPrefix(w) = "U" => ZeroExtend(Low(w, UbjsonWidth(IntegerPrefix(w)))) = w
      /\ IntegerPrefix(w) # "U" => SignExtend(Low(w, UbjsonWidth(IntegerPrefix(w)))) = w
  BY <1>1, <1>2, PrefixIs DEF IntegerPrefix, Prefixes
<1> QED
  BY <1>3, <1>4, <1>5, Zenon DEF UbjsonUnsigned, UbjsonInteger
=============================================================================
