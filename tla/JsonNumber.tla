------------------------------ MODULE JsonNumber ------------------------------
(***************************************************************************)
(* lexer::scan_number (json.hpp), the automaton of its labels, and the     *)
(* grammar of numbers that it is to follow.  The state `num` is a number   *)
(* being scanned: the characters read so far and the label reached.        *)
(***************************************************************************)
EXTENDS JsonTypes

VARIABLE num

Digit == 48 .. 57
Digit0 == 48
Minus == 45
Plus == 43
Point == 46
IsExponent(c) == c \in {69, 101}   \* E, e

-----------------------------------------------------------------------------
\* The label after a character is read; "done" when the character is not part of
\* the number.  scan calls scan_number for a minus sign or a digit only.
IntegerStep(label, c) ==
    CASE label = "init" ->
            IF c = Minus THEN "minus" ELSE IF c = Digit0 THEN "zero"
            ELSE IF c \in Digit THEN "any1" ELSE "error"
      [] label = "minus" ->
            IF c = Digit0 THEN "zero" ELSE IF c \in Digit THEN "any1" ELSE "error"
      [] label \in {"zero", "any1"} ->
            IF label = "any1" /\ c \in Digit THEN "any1"
            ELSE IF c = Point THEN "decimal1"
            ELSE IF IsExponent(c) THEN "exponent" ELSE "done"

\* Mutant: the number may end after its decimal point.
FractionStepOpen(label, c) ==
    CASE label \in {"decimal1", "decimal2"} ->
            IF c \in Digit THEN "decimal2"
            ELSE IF IsExponent(c) THEN "exponent" ELSE "done"
      [] label = "exponent" ->
            IF c \in {Plus, Minus} THEN "sign"
            ELSE IF c \in Digit THEN "any2" ELSE "error"
      [] label = "sign" -> IF c \in Digit THEN "any2" ELSE "error"
      [] label = "any2" -> IF c \in Digit THEN "any2" ELSE "done"
FractionStep(label, c) ==
    CASE label = "decimal1" -> IF c \in Digit THEN "decimal2" ELSE "error"
      [] label = "decimal2" ->
            IF c \in Digit THEN "decimal2"
            ELSE IF IsExponent(c) THEN "exponent" ELSE "done"
      [] label = "exponent" ->
            IF c \in {Plus, Minus} THEN "sign"
            ELSE IF c \in Digit THEN "any2" ELSE "error"
      [] label = "sign" -> IF c \in Digit THEN "any2" ELSE "error"
      [] label = "any2" -> IF c \in Digit THEN "any2" ELSE "done"

NumberStep(label, c) ==
    IF label \in {"init", "minus", "zero", "any1"} THEN IntegerStep(label, c)
    ELSE FractionStep(label, c)

\* The loop returns at the first character that is not part of the number.
Stopped == {"done", "error"}
NumberRead(n, c) ==
    IF n.label \in Stopped THEN n
    ELSE [read |-> Append(n.read, c), label |-> NumberStep(n.label, c)]

NoNumber == [read |-> <<>>, label |-> "init"]
NumInit == num = NoNumber
NumNext == \E c \in {EOF} \cup 0 .. 255 : num' = NumberRead(num, c)
NumSpec == NumInit /\ [][NumNext]_num

-----------------------------------------------------------------------------
\* The grammar of RFC 8259: the integer ends at i, the fraction at j.
Digits(s, first, last) == \A k \in first .. last : s[k] \in Digit
SignLen(s) == IF s # <<>> /\ s[1] = Minus THEN 1 ELSE 0
IsInt(s, b, i) == b < i /\ Digits(s, b + 1, i) /\ (s[b + 1] = Digit0 => i = b + 1)
IsFrac(s, i, j) == j = i \/ (i + 2 <= j /\ s[i + 1] = Point /\ Digits(s, i + 2, j))
IsExp(s, j, n) ==
    \/ j = n
    \/ j + 2 <= n /\ IsExponent(s[j + 1]) /\ Digits(s, j + 2, n)
    \/ j + 3 <= n /\ IsExponent(s[j + 1]) /\ s[j + 2] \in {Plus, Minus} /\ Digits(s, j + 3, n)
IsNumber(s) ==
    \E i, j \in 0 .. Len(s) :
        /\ i <= j
        /\ IsInt(s, SignLen(s), i) /\ IsFrac(s, i, j) /\ IsExp(s, j, Len(s))

\* lexer::scan_number follows the grammar: at each label it knows whether the
\* characters so far are a number, it stops at the first character that cannot
\* go on with it, and then the ones before are a number unless it is an error.
NumbersFollowTheGrammar ==
    /\ IsNumber(num.read) <=> num.label \in {"zero", "any1", "decimal2", "any2"}
    /\ num.label \in Stopped => (IsNumber(Pop(num.read)) <=> num.label = "done")
=============================================================================
