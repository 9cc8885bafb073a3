------------------------- MODULE JsonGrammarProofs --------------------------
(***************************************************************************)
(* The text that json.hpp accepts, for every input: the SAX parser         *)
(* (JsonParser) over any sequence of tokens, and numbers (JsonNumber).     *)
(***************************************************************************)
EXTENDS JsonParser, JsonNumber, SequenceTheorems, TLAPS

-----------------------------------------------------------------------------
(***************************************************************************)
(* The parser, for every sequence of tokens: the open containers nest and  *)
(* match `states` (ContainersNest), a token changes only the innermost of  *)
(* them (OuterKept), the nodes make up one value at every moment           *)
(* (ValueIsTree), and some end is always accepted (NeverWaitsInVain).  The *)
(* inductive invariant Inv is Sound, which holds everywhere, and At, what  *)
(* the place in the loop adds.                                             *)
(***************************************************************************)

\* The steps of a path: an index into an array or a key of an object.
Steps == Nat \cup Seq(0 .. 255)
Paths == Seq(Steps)

-----------------------------------------------------------------------------
\* The first n elements of a sequence.
LEMMA Prefix ==
    ASSUME NEW S, NEW s \in Seq(S), NEW n \in 0 .. Len(s)
    PROVE  /\ SubSeq(s, 1, n) \in Seq(S) /\ Len(SubSeq(s, 1, n)) = n
           /\ \A i \in 1 .. n : SubSeq(s, 1, n)[i] = s[i]
<1>1. n \in Nat /\ Len(s) \in Nat /\ \A i \in 1 .. n : s[i] \in S
  BY ElementOfSeq, LenProperties
<1>2. SubSeq(s, 1, n) = [i \in 1 .. n |-> s[i]]
  BY SubSeqRestrict DEF Restrict
<1>3. [i \in 1 .. n |-> s[i]] \in Seq(S)
  BY <1>1, IsASeq
<1>4. Len([i \in 1 .. n |-> s[i]]) = n
  BY <1>1
<1> QED
  BY <1>1, <1>2, <1>3, <1>4

\* push_back and back, pop_back of a vector.
LEMMA Pushed ==
    ASSUME NEW S, NEW s \in Seq(S), NEW x \in S
    PROVE  /\ Append(s, x) \in Seq(S) /\ Append(s, x) # <<>>
           /\ Len(Append(s, x)) = Len(s) + 1 /\ Top(Append(s, x)) = x
           /\ \A i \in 1 .. Len(s) : Append(s, x)[i] = s[i]
           /\ Pop(Append(s, x)) = s
<1>1. /\ Append(s, x) \in Seq(S) /\ Len(Append(s, x)) = Len(s) + 1 /\ Append(s, x) # <<>>
      /\ \A i \in 1 .. Len(s) : Append(s, x)[i] = s[i]
      /\ Append(s, x)[Len(s) + 1] = x /\ Len(s) \in Nat
  OBVIOUS
<1>2. Pop(Append(s, x)) = SubSeq(Append(s, x), 1, Len(s))
  BY <1>1 DEF Pop
<1>4. /\ SubSeq(Append(s, x), 1, Len(s)) \in Seq(S)
      /\ Len(SubSeq(Append(s, x), 1, Len(s))) = Len(s)
      /\ \A i \in 1 .. Len(s) : SubSeq(Append(s, x), 1, Len(s))[i] = Append(s, x)[i]
  BY <1>1, Prefix
<1>5. SubSeq(Append(s, x), 1, Len(s)) = s
  BY <1>1, <1>4, SeqEqual
<1> QED
  BY <1>1, <1>2, <1>5 DEF Top

\* What pop_back leaves.
LEMMA Popped ==
    ASSUME NEW S, NEW s \in Seq(S), s # <<>>
    PROVE  /\ Pop(s) \in Seq(S) /\ Len(Pop(s)) = Len(s) - 1 /\ Len(s) \in Nat \ {0}
           /\ \A i \in 1 .. Len(Pop(s)) : Pop(s)[i] = s[i]
           /\ Top(s) \in S
<1>1. Len(s) \in Nat \ {0} /\ \A i \in 1 .. Len(s) : s[i] \in S
  BY EmptySeq, ElementOfSeq
<1>2. /\ SubSeq(s, 1, Len(s) - 1) \in Seq(S)
      /\ Len(SubSeq(s, 1, Len(s) - 1)) = Len(s) - 1
      /\ \A i \in 1 .. Len(s) - 1 : SubSeq(s, 1, Len(s) - 1)[i] = s[i]
  <2>1. Len(s) - 1 \in 0 .. Len(s)
    BY <1>1
  <2> QED
    BY <2>1, Prefix
<1> QED
  BY <1>1, <1>2 DEF Pop, Top

\* A child is below p when its parent is p or below p.
LEMMA BelowChild ==
    ASSUME NEW q \in Paths, NEW x \in Steps, NEW p \in Paths
    PROVE  Below(Append(q, x), p) <=> (q = p \/ Below(q, p))
<1>1. /\ Append(q, x) \in Paths /\ Len(Append(q, x)) = Len(q) + 1
      /\ \A i \in 1 .. Len(q) : Append(q, x)[i] = q[i]
      /\ Len(q) \in Nat /\ Len(p) \in Nat
  BY Pushed DEF Paths
<1>2. ASSUME Len(q) >= Len(p)
      PROVE  SubSeq(Append(q, x), 1, Len(p)) = SubSeq(q, 1, Len(p))
  <2>1. Len(p) \in 0 .. Len(q) /\ Len(p) \in 0 .. Len(Append(q, x))
    BY <1>1, <1>2
  <2>2. /\ SubSeq(Append(q, x), 1, Len(p)) \in Seq(Steps)
        /\ Len(SubSeq(Append(q, x), 1, Len(p))) = Len(p)
        /\ \A i \in 1 .. Len(p) : SubSeq(Append(q, x), 1, Len(p))[i] = Append(q, x)[i]
    BY <1>1, <2>1, Prefix DEF Paths
  <2>3. /\ SubSeq(q, 1, Len(p)) \in Seq(Steps)
        /\ Len(SubSeq(q, 1, Len(p))) = Len(p)
        /\ \A i \in 1 .. Len(p) : SubSeq(q, 1, Len(p))[i] = q[i]
    BY <1>1, <2>1, Prefix DEF Paths
  <2>4. \A i \in 1 .. Len(p) : SubSeq(Append(q, x), 1, Len(p))[i] = SubSeq(q, 1, Len(p))[i]
    BY <1>1, <1>2, <2>2, <2>3
  <2> QED
    BY <2>2, <2>3, <2>4, SeqEqual
<1>3. Len(q) = Len(p) => SubSeq(q, 1, Len(p)) = q
  BY SubSeqFull DEF Paths
<1> QED
  BY <1>1, <1>2, <1>3 DEF Below

-----------------------------------------------------------------------------
\* A state of the parser has its five fields.
IsState(st) ==
    st = [expect |-> st.expect, states |-> st.states, root |-> st.root,
          refs |-> st.refs, element |-> st.element]

\* A state with other stacks and nodes in it.
LEMMA Fields ==
    ASSUME NEW st, IsState(st), NEW x
    PROVE  /\ [st EXCEPT !.expect = x] = [expect |-> x, states |-> st.states, root |-> st.root,
                                          refs |-> st.refs, element |-> st.element]
           /\ [st EXCEPT !.states = x] = [expect |-> st.expect, states |-> x, root |-> st.root,
                                          refs |-> st.refs, element |-> st.element]
           /\ [st EXCEPT !.root = x] = [expect |-> st.expect, states |-> st.states, root |-> x,
                                        refs |-> st.refs, element |-> st.element]
           /\ [st EXCEPT !.refs = x] = [expect |-> st.expect, states |-> st.states,
                                        root |-> st.root, refs |-> x, element |-> st.element]
           /\ [st EXCEPT !.element = x] = [expect |-> st.expect, states |-> st.states,
                                        root |-> st.root, refs |-> st.refs, element |-> x]
BY DEF IsState

\* end_object and end_array pop ref_stack.
LEMMA Ended ==
    ASSUME NEW st, IsState(st)
    PROVE  end(st) = [expect |-> st.expect, states |-> st.states, root |-> st.root,
                      refs |-> Pop(st.refs), element |-> st.element]
<1>1. end(st) = [st EXCEPT !.refs = Pop(st.refs)]
  BY DEF end
<1>2. [st EXCEPT !.refs = Pop(st.refs)] =
          [expect |-> st.expect, states |-> st.states, root |-> st.root,
           refs |-> Pop(st.refs), element |-> st.element]
  BY Fields
<1> QED
  BY <1>1, <1>2

\* The nodes: places are paths, an array has a size.
Nodes(root) ==
    /\ DOMAIN root \subseteq Paths
    /\ \A p \in DOMAIN root : type(root[p]) = "array" => root[p][2] \in Nat

\* The open containers: each one is inside the one before it, at its end if that
\* is an array.
Link(root, refs, i) ==
    /\ refs[i] \in DOMAIN root /\ is_structured(root[refs[i]])
    /\ Len(refs[i]) = i - 1
    /\ i > 1 => /\ refs[i] = Append(refs[i - 1], Top(refs[i]))
                /\ Top(refs[i]) \in Steps
                /\ type(root[refs[i - 1]]) = "array" => Top(refs[i]) = root[refs[i - 1]][2]
Chain(root, refs) == \A i \in 1 .. Len(refs) : Link(root, refs, i)

Kinds(root, refs, states) ==
    /\ Len(states) <= Len(refs)
    /\ \A i \in 1 .. Len(states) : states[i] = (type(root[refs[i]]) = "array")

Sound(st) ==
    /\ IsState(st)
    /\ st.states \in Seq(BOOLEAN) /\ st.refs \in Seq(Paths) /\ st.element \in Paths
    /\ Nodes(st.root) /\ Chain(st.root, st.refs) /\ Kinds(st.root, st.refs, st.states)

\* key() has been called for the object on top.
HasElement(st) ==
    /\ st.refs # <<>> /\ type(st.root[Top(st.refs)]) = "object"
    /\ st.element \in DOMAIN st.root
    /\ \E x \in Steps : st.element = Append(Top(st.refs), x)

\* A value may come: as the root, as an element, or as the member prepared.
Ready(st) ==
    /\ Sound(st) /\ Len(st.refs) = Len(st.states)
    /\ st.refs = <<>> \/ InArray(st) \/ HasElement(st)

\* The containers below the top of ref_stack are as they were.
Untouched(st, s) ==
    \A i \in 1 .. Len(st.refs) - 1 :
        /\ st.refs[i] \in DOMAIN s.root
        /\ s.root[st.refs[i]] = st.root[st.refs[i]]

\* The node of a value that is handed over: a scalar or an empty container.
NewNode(v) == type(v) = "array" => v[2] = 0

\* The top of ref_stack is a container.
LEMMA TopIsOpen ==
    ASSUME NEW st, Sound(st), st.refs # <<>>
    PROVE  /\ Top(st.refs) \in DOMAIN st.root /\ Top(st.refs) \in Paths
           /\ is_structured(st.root[Top(st.refs)])
           /\ Len(st.refs) \in Nat \ {0} /\ Len(Top(st.refs)) = Len(st.refs) - 1
           /\ InArray(st) => Size(st) \in Nat
<1>1. Len(st.refs) \in Nat \ {0} /\ Len(st.refs) \in 1 .. Len(st.refs)
  BY EmptySeq DEF Sound
<1> QED
  BY <1>1 DEF Sound, Chain, Link, Top, Nodes, InArray, Size

\* Places of different lengths differ, and the longer one is not above the other.
LEMMA Shorter ==
    ASSUME NEW q \in Paths, NEW p \in Paths, Len(q) < Len(p)
    PROVE  q # p /\ ~ Below(q, p)
<1>1. Len(q) \in Nat /\ Len(p) \in Nat
  BY DEF Paths
<1> QED
  BY <1>1 DEF Below

\* handle_value: the new value is at its place, one step below the top of ref_stack
\* and at the end of it if that is an array, and ref_stack points to what it did.
LEMMA ValueHandled ==
    ASSUME NEW st, Ready(st), NEW v, NewNode(v)
    PROVE  LET s == handle_value(st, v)
               p == PlaceOf(st)
           IN  /\ Sound(s) /\ Untouched(st, s)
               /\ s.expect = st.expect /\ s.refs = st.refs /\ s.states = st.states
               /\ p \in Paths /\ p \in DOMAIN s.root /\ s.root[p] = v
               /\ Len(p) = Len(st.refs)
               /\ st.refs # <<>> =>
                     /\ p = Append(Top(st.refs), Top(p)) /\ Top(p) \in Steps
                     /\ type(s.root[Top(st.refs)]) = type(st.root[Top(st.refs)])
                     /\ type(s.root[Top(st.refs)]) = "array" => Top(p) = s.root[Top(st.refs)][2]
<1> DEFINE s == handle_value(st, v)
           p == PlaceOf(st)
           g == Grown(st)
<1>0. Sound(st) /\ IsState(st)
  BY DEF Ready, Sound
<1>1. s = [expect |-> st.expect, states |-> st.states, root |-> Assign(g, p, v),
           refs |-> st.refs, element |-> st.element]
  BY <1>0, Fields DEF handle_value
<1>2. IsState(s) /\ s.root = Assign(g, p, v) /\ s.refs = st.refs /\ s.states = st.states
      /\ s.element = st.element /\ s.expect = st.expect
  BY <1>1 DEF IsState
<1>3. /\ p \in Paths /\ Len(p) = Len(st.refs)
      /\ st.refs # <<>> => p = Append(Top(st.refs), Top(p)) /\ Top(p) \in Steps
      /\ st.refs # <<>> /\ InArray(st) => Top(p) = Size(st) + 1
  <2>1. CASE st.refs = <<>>
    BY <2>1 DEF PlaceOf, Paths
  <2>2. CASE st.refs # <<>> /\ InArray(st)
    <3>1. Size(st) + 1 \in Steps /\ Top(st.refs) \in Paths /\ Len(Top(st.refs)) = Len(st.refs) - 1
          /\ Len(st.refs) \in Nat
      BY <1>0, <2>2, TopIsOpen DEF Steps
    <3>2. p = Append(Top(st.refs), Size(st) + 1)
      BY <2>2 DEF PlaceOf
    <3> QED
      BY <2>2, <3>1, <3>2, Pushed DEF Paths
  <2>3. CASE st.refs # <<>> /\ ~ InArray(st)
    <3>1. PICK x \in Steps : st.element = Append(Top(st.refs), x)
      BY <2>3 DEF Ready, HasElement
    <3>2. Top(st.refs) \in Paths /\ Len(Top(st.refs)) = Len(st.refs) - 1 /\ Len(st.refs) \in Nat
      BY <1>0, <2>3, TopIsOpen
    <3>3. p = Append(Top(st.refs), x)
      BY <2>3, <3>1 DEF PlaceOf
    <3> QED
      BY <2>3, <3>2, <3>3, Pushed DEF Paths
  <2> QED
    BY <2>1, <2>2, <2>3
<1>4. /\ DOMAIN g = DOMAIN st.root
      /\ \A q \in DOMAIN st.root : q # Top(st.refs) => g[q] = st.root[q]
      /\ ~ InArray(st) => g = st.root
      /\ InArray(st) => g[Top(st.refs)] = <<"array", Size(st) + 1>>
  <2>1. CASE InArray(st)
    <3>1. Top(st.refs) \in DOMAIN st.root
      BY <1>0, <2>1, TopIsOpen DEF InArray
    <3> QED
      BY <2>1, <3>1 DEF Grown, ArrayNode
  <2> QED
    BY <2>1 DEF Grown
<1> HIDE DEF s, p, g
<1>a. /\ DOMAIN Assign(g, p, v) = {p} \cup {r \in DOMAIN g : ~ Below(r, p)}
      /\ Assign(g, p, v)[p] = v
      /\ \A q \in DOMAIN g :
            q # p /\ ~ Below(q, p) => /\ q \in DOMAIN Assign(g, p, v)
                                      /\ Assign(g, p, v)[q] = g[q]
  BY DEF Assign
<1>b. /\ DOMAIN s.root = {p} \cup {r \in DOMAIN st.root : ~ Below(r, p)}
      /\ s.root[p] = v
      /\ \A q \in DOMAIN st.root : q # p /\ ~ Below(q, p) => s.root[q] = g[q]
  BY <1>a, <1>2, <1>4
<1>5. ASSUME NEW i \in 1 .. Len(st.refs)
      PROVE  /\ st.refs[i] \in DOMAIN s.root /\ s.root[st.refs[i]] = g[st.refs[i]]
             /\ st.refs[i] \in Paths
  <2>1. st.refs[i] \in DOMAIN st.root /\ Len(st.refs[i]) = i - 1 /\ st.refs[i] \in Paths
    BY <1>0 DEF Sound, Chain, Link, Nodes
  <2>2. Len(st.refs[i]) < Len(p)
    BY <1>3, <2>1
  <2>3. st.refs[i] # p /\ ~ Below(st.refs[i], p)
    BY <1>3, <2>1, <2>2, Shorter
  <2> QED
    BY <1>b, <2>1, <2>3
<1>6. ASSUME NEW i \in 1 .. Len(st.refs) - 1
      PROVE  s.root[st.refs[i]] = st.root[st.refs[i]]
  <2>1. i \in 1 .. Len(st.refs) /\ st.refs # <<>> /\ Len(st.refs) \in Nat
    BY <1>0 DEF Sound
  <2>2. Len(st.refs[i]) = i - 1 /\ Len(Top(st.refs)) = Len(st.refs) - 1 /\ st.refs[i] \in DOMAIN st.root
    BY <1>0, <2>1, TopIsOpen DEF Sound, Chain, Link
  <2>3. st.refs[i] # Top(st.refs)
    BY <2>1, <2>2
  <2> QED
    BY <1>4, <1>5, <2>1, <2>2, <2>3
<1>7. ASSUME NEW i \in 1 .. Len(st.refs)
      PROVE  type(s.root[st.refs[i]]) = type(st.root[st.refs[i]])
  <2>0. Len(st.refs) \in Nat /\ st.refs # <<>>
    BY <1>0 DEF Sound
  <2>1. CASE i < Len(st.refs)
    BY <1>6, <2>0, <2>1
  <2>2. CASE i = Len(st.refs)
    BY <1>4, <1>5, <2>0, <2>2 DEF Top, InArray, type
  <2> QED
    BY <2>0, <2>1, <2>2
<1>8. Nodes(s.root)
  <2>1. DOMAIN s.root \subseteq Paths
    BY <1>0, <1>3, <1>b DEF Sound, Nodes
  <2>2. ASSUME NEW q \in DOMAIN s.root, type(s.root[q]) = "array" PROVE s.root[q][2] \in Nat
    <3>1. CASE q = p
      BY <1>b, <2>2, <3>1 DEF NewNode
    <3>2. CASE q # p
      <4>1. q \in DOMAIN st.root /\ s.root[q] = g[q]
        BY <1>b, <3>2
      <4>2. CASE InArray(st) /\ q = Top(st.refs)
        <5>1. Size(st) \in Nat
          BY <1>0, <4>2, TopIsOpen DEF InArray
        <5> QED
          BY <1>4, <4>1, <4>2, <5>1
      <4>3. CASE ~(InArray(st) /\ q = Top(st.refs))
        BY <1>0, <1>4, <2>2, <4>1, <4>3 DEF Sound, Nodes
      <4> QED
        BY <4>2, <4>3
    <3> QED
      BY <3>1, <3>2
  <2> QED
    BY <2>1, <2>2 DEF Nodes
<1>9. Chain(s.root, s.refs)
  <2> SUFFICES ASSUME NEW i \in 1 .. Len(st.refs)
               PROVE  Link(s.root, st.refs, i)
    BY <1>2 DEF Chain
  <2>1. Link(st.root, st.refs, i)
    BY <1>0 DEF Sound, Chain
  <2>2. i > 1 => s.root[st.refs[i - 1]] = st.root[st.refs[i - 1]]
    <3>1. Len(st.refs) \in Nat /\ (i > 1 => i - 1 \in 1 .. Len(st.refs) - 1)
      BY <1>0 DEF Sound
    <3> QED
      BY <1>6, <3>1
  <2> QED
    BY <1>5, <1>7, <2>1, <2>2 DEF Link, is_structured
<1>10. Kinds(s.root, s.refs, s.states)
  <2>1. Len(st.states) <= Len(st.refs) /\ Len(st.states) \in Nat /\ Len(st.refs) \in Nat
    BY <1>0 DEF Sound, Kinds
  <2> QED
    BY <1>0, <1>2, <1>7, <2>1 DEF Sound, Kinds
<1>11. Sound(s) /\ Untouched(st, s)
  <2>1. Len(st.refs) \in Nat
    BY <1>0 DEF Sound
  <2> QED
    BY <1>0, <1>2, <1>5, <1>6, <1>8, <1>9, <1>10, <2>1 DEF Sound, Untouched
<1>12. p \in DOMAIN s.root /\ s.root[p] = v
  BY <1>b
<1>13. ASSUME st.refs # <<>>
       PROVE  /\ type(s.root[Top(st.refs)]) = type(st.root[Top(st.refs)])
              /\ type(s.root[Top(st.refs)]) = "array" => Top(p) = s.root[Top(st.refs)][2]
  <2>1. Len(st.refs) \in 1 .. Len(st.refs) /\ Top(st.refs) = st.refs[Len(st.refs)]
    BY <1>0, <1>13, TopIsOpen DEF Top
  <2>2. type(s.root[Top(st.refs)]) = type(st.root[Top(st.refs)]) /\ s.root[Top(st.refs)] = g[Top(st.refs)]
    BY <1>5, <1>7, <2>1
  <2>3. InArray(st) <=> type(st.root[Top(st.refs)]) = "array"
    BY <1>13 DEF InArray
  <2> QED
    BY <1>3, <1>4, <1>13, <2>2, <2>3
<1> QED
  BY <1>2, <1>3, <1>11, <1>12, <1>13 DEF s, p

\* start_array and start_object: the new container is on top of ref_stack, and
\* `states` does not have it yet.
LEMMA ContainerStarted ==
    ASSUME NEW st, Ready(st), NEW c, is_structured(c), NewNode(c)
    PROVE  LET s == start(st, c)
           IN  /\ Sound(s) /\ Untouched(st, s)
               /\ Len(s.refs) = Len(s.states) + 1 /\ s.refs # <<>>
               /\ s.root[Top(s.refs)] = c /\ s.states = st.states
<1> DEFINE h == handle_value(st, c)
           p == PlaceOf(st)
           s == start(st, c)
<1>1. /\ Sound(h) /\ Untouched(st, h)
      /\ h.refs = st.refs /\ h.states = st.states
      /\ p \in Paths /\ p \in DOMAIN h.root /\ h.root[p] = c
      /\ Len(p) = Len(st.refs)
      /\ st.refs # <<>> =>
            /\ p = Append(Top(st.refs), Top(p)) /\ Top(p) \in Steps
            /\ type(h.root[Top(st.refs)]) = "array" => Top(p) = h.root[Top(st.refs)][2]
  BY ValueHandled
<1>2. s = [expect |-> h.expect, states |-> h.states, root |-> h.root,
           refs |-> Append(h.refs, p), element |-> h.element]
  <2>1. IsState(h) /\ s = [h EXCEPT !.refs = Append(h.refs, p)]
    BY <1>1 DEF start, Sound
  <2> HIDE DEF h, p, s
  <2> QED
    BY <2>1, Fields
<1> HIDE DEF h, p, s
<1>3. /\ IsState(s) /\ s.refs = Append(st.refs, p) /\ s.root = h.root
      /\ s.states = st.states /\ s.element = h.element
  BY <1>1, <1>2 DEF IsState
<1>4. /\ st.refs \in Seq(Paths) /\ s.refs \in Seq(Paths) /\ s.refs # <<>>
      /\ Len(s.refs) = Len(st.refs) + 1 /\ Top(s.refs) = p
      /\ \A i \in 1 .. Len(st.refs) : s.refs[i] = st.refs[i]
      /\ s.refs[Len(st.refs) + 1] = p
      /\ Len(st.refs) \in Nat
  <2>1. st.refs \in Seq(Paths) /\ Len(st.refs) \in Nat
    BY DEF Ready, Sound
  <2>2. /\ Append(st.refs, p) \in Seq(Paths) /\ Append(st.refs, p) # <<>>
        /\ Len(Append(st.refs, p)) = Len(st.refs) + 1 /\ Top(Append(st.refs, p)) = p
        /\ \A i \in 1 .. Len(st.refs) : Append(st.refs, p)[i] = st.refs[i]
    BY <1>1, <2>1, Pushed
  <2>3. Append(st.refs, p)[Len(st.refs) + 1] = p
    BY <2>2 DEF Top
  <2> QED
    BY <1>3, <2>1, <2>2, <2>3
<1>5. Chain(s.root, s.refs)
  <2> SUFFICES ASSUME NEW i \in 1 .. Len(s.refs)
               PROVE  Link(s.root, s.refs, i)
    BY DEF Chain
  <2>1. CASE i <= Len(st.refs)
    <3>1. i \in 1 .. Len(st.refs) /\ s.refs[i] = st.refs[i]
          /\ (i > 1 => s.refs[i - 1] = st.refs[i - 1])
      BY <1>4, <2>1
    <3>2. Link(h.root, st.refs, i)
      <4>1. Chain(h.root, st.refs)
        BY <1>1 DEF Sound
      <4> QED
        BY <3>1, <4>1, Zenon DEF Chain
    <3>3. s.root = h.root
      BY <1>3
    <3> QED
      BY <3>1, <3>2, <3>3, Zenon DEF Link
  <2>2. CASE i = Len(st.refs) + 1
    <3>1. i > 1 => st.refs # <<>> /\ s.refs[i - 1] = Top(st.refs)
      BY <1>4, <2>2 DEF Top
    <3>2. s.refs[i] = p /\ s.root = h.root /\ Len(p) = i - 1
      BY <1>1, <1>3, <1>4, <2>2
    <3>3. p \in DOMAIN h.root /\ is_structured(h.root[p])
      BY <1>1
    <3>4. ASSUME i > 1
          PROVE  /\ p = Append(s.refs[i - 1], Top(p)) /\ Top(p) \in Steps
                 /\ type(h.root[s.refs[i - 1]]) = "array" => Top(p) = h.root[s.refs[i - 1]][2]
      BY <1>1, <3>1, <3>4, Zenon
    <3> QED
      BY <3>2, <3>3, <3>4, Zenon DEF Link
  <2>3. i <= Len(st.refs) \/ i = Len(st.refs) + 1
    BY <1>4
  <2> QED
    BY <2>1, <2>2, <2>3, Zenon
<1>6. Kinds(s.root, s.refs, s.states)
  <2>1. Len(st.states) = Len(st.refs) /\ Kinds(h.root, st.refs, st.states)
    BY <1>1 DEF Ready, Sound
  <2>2. /\ Len(st.states) <= Len(st.refs) /\ Len(st.refs) \in Nat
        /\ Len(s.refs) = Len(st.refs) + 1
        /\ \A i \in 1 .. Len(st.states) : s.refs[i] = st.refs[i]
    BY <1>4, <2>1
  <2>3. ASSUME NEW i \in 1 .. Len(st.states)
        PROVE  st.states[i] = (type(h.root[s.refs[i]]) = "array")
    <3>1. st.states[i] = (type(h.root[st.refs[i]]) = "array")
      BY <2>1 DEF Kinds
    <3>2. s.refs[i] = st.refs[i]
      BY <2>2, Zenon
    <3> QED
      BY <3>1, <3>2, Zenon
  <2>4. Len(st.states) <= Len(s.refs)
    BY <2>1, <2>2
  <2>5. Kinds(h.root, s.refs, st.states)
    BY <2>3, <2>4 DEF Kinds
  <2> QED
    BY <1>3, <2>5
<1>7. Sound(s)
  BY <1>1, <1>3, <1>4, <1>5, <1>6 DEF Sound
<1>8. Untouched(st, s)
  BY <1>1, <1>3 DEF Untouched
<1>9. Len(st.states) = Len(st.refs)
  BY DEF Ready
<1> QED
  BY <1>1, <1>3, <1>4, <1>7, <1>8, <1>9 DEF s

\* key(): the member is there, with its old value or null.
LEMMA MemberPrepared ==
    ASSUME NEW st, Sound(st), st.refs # <<>>, type(st.root[Top(st.refs)]) = "object",
           NEW k \in Seq(0 .. 255)
    PROVE  LET s == key(st, k)
           IN  /\ Sound(s) /\ Untouched(st, s) /\ HasElement(s)
               /\ s.refs = st.refs /\ s.states = st.states
<1> DEFINE p == Append(Top(st.refs), k)
           r == IF p \in DOMAIN st.root THEN st.root ELSE Assign(st.root, p, Null)
           s == key(st, k)
<1>1. s = [expect |-> st.expect, states |-> st.states, root |-> r,
           refs |-> st.refs, element |-> p]
  <2>1. IsState(st)
    BY DEF Sound
  <2>2. s = [[st EXCEPT !.element = p] EXCEPT !.root = r]
    BY <2>1 DEF key, IsState
  <2> QED
    BY <2>1, <2>2 DEF IsState
<1>2. /\ IsState(s) /\ s.refs = st.refs /\ s.states = st.states /\ s.root = r /\ s.element = p
  BY <1>1 DEF IsState
<1>3. /\ Top(st.refs) \in Paths /\ k \in Steps /\ Len(Top(st.refs)) = Len(st.refs) - 1
      /\ Len(st.refs) \in Nat \ {0} /\ p \in Paths /\ Len(p) = Len(st.refs)
  BY TopIsOpen, Pushed DEF Steps, Paths
<1>4. /\ p \in DOMAIN r /\ DOMAIN r \subseteq DOMAIN st.root \cup {p}
      /\ \A q \in DOMAIN r : q \in DOMAIN st.root => r[q] = st.root[q]
      /\ p \notin DOMAIN st.root => r[p] = <<"null">>
      /\ \A q \in DOMAIN st.root : q # p /\ ~ Below(q, p) => q \in DOMAIN r
  BY DEF Assign, Null
<1> HIDE DEF p, r, s
<1>5. ASSUME NEW i \in 1 .. Len(st.refs)
      PROVE  st.refs[i] \in DOMAIN r /\ r[st.refs[i]] = st.root[st.refs[i]]
  <2>1. st.refs[i] \in DOMAIN st.root /\ Len(st.refs[i]) = i - 1 /\ st.refs[i] \in Paths
    BY DEF Sound, Chain, Link, Nodes
  <2>2. Len(st.refs[i]) < Len(p)
    BY <1>3, <2>1
  <2> QED
    BY <1>3, <1>4, <2>1, <2>2, Shorter
<1>6. Nodes(r)
  <2>1. ASSUME NEW q \in DOMAIN r, type(r[q]) = "array" PROVE r[q][2] \in Nat
    BY <1>4, <2>1 DEF Sound, Nodes, type
  <2> QED
    BY <1>3, <1>4, <2>1 DEF Sound, Nodes
<1>7. Chain(r, st.refs)
  <2> SUFFICES ASSUME NEW i \in 1 .. Len(st.refs)
               PROVE  Link(r, st.refs, i)
    BY DEF Chain
  <2>1. i > 1 => i - 1 \in 1 .. Len(st.refs)
    BY <1>3
  <2>2. Link(st.root, st.refs, i)
    BY DEF Sound, Chain
  <2> QED
    BY <1>5, <2>1, <2>2 DEF Link
<1>8. Kinds(r, st.refs, st.states)
  <2>1. Len(st.states) <= Len(st.refs) /\ Len(st.states) \in Nat
    BY DEF Sound, Kinds
  <2>2. \A i \in 1 .. Len(st.states) : i \in 1 .. Len(st.refs)
    BY <1>3, <2>1
  <2> QED
    BY <1>5, <2>1, <2>2 DEF Sound, Kinds
<1>9. Sound(s)
  BY <1>2, <1>3, <1>6, <1>7, <1>8 DEF Sound
<1>10. Untouched(st, s)
  BY <1>2, <1>3, <1>5 DEF Untouched
<1>11. HasElement(s)
  <2>1. Len(st.refs) \in 1 .. Len(st.refs) /\ Top(st.refs) = st.refs[Len(st.refs)]
    BY <1>3 DEF Top
  <2>2. r[Top(st.refs)] = st.root[Top(st.refs)]
    BY <1>5, <2>1
  <2> QED
    BY <1>2, <1>3, <1>4, <2>2 DEF HasElement, p
<1> QED
  BY <1>2, <1>9, <1>10, <1>11 DEF s

\* end_array and end_object, with the pop of `states` when it has the container.
LEMMA ContainerEnded ==
    ASSUME NEW st, Sound(st), st.refs # <<>>, NEW states \in Seq(BOOLEAN),
           Len(states) = Len(st.refs) - 1,
           \A i \in 1 .. Len(states) : states[i] = st.states[i], Len(states) <= Len(st.states)
    PROVE  LET s == [end(st) EXCEPT !.states = states]
           IN  /\ Sound(s) /\ Untouched(st, s) /\ Len(s.refs) = Len(s.states)
               /\ s.states = states
<1> DEFINE s == [end(st) EXCEPT !.states = states]
<1>1. s = [expect |-> st.expect, states |-> states, root |-> st.root,
           refs |-> Pop(st.refs), element |-> st.element]
  <2>1. end(st) = [expect |-> st.expect, states |-> st.states, root |-> st.root,
                   refs |-> Pop(st.refs), element |-> st.element]
    BY Ended DEF Sound
  <2> QED
    BY <2>1
<1>2. /\ IsState(s) /\ s.refs = Pop(st.refs) /\ s.states = states /\ s.root = st.root
      /\ s.element = st.element
  BY <1>1 DEF IsState
<1> HIDE DEF s
<1>3. /\ Pop(st.refs) \in Seq(Paths) /\ Len(Pop(st.refs)) = Len(st.refs) - 1
      /\ Len(st.refs) \in Nat \ {0}
      /\ \A i \in 1 .. Len(Pop(st.refs)) : Pop(st.refs)[i] = st.refs[i]
  BY Popped DEF Sound
<1>4. Chain(s.root, s.refs)
  <2> SUFFICES ASSUME NEW i \in 1 .. Len(s.refs)
               PROVE  Link(s.root, s.refs, i)
    BY DEF Chain
  <2>1. i \in 1 .. Len(st.refs) /\ s.refs[i] = st.refs[i]
        /\ (i > 1 => s.refs[i - 1] = st.refs[i - 1])
    BY <1>2, <1>3
  <2>2. Link(st.root, st.refs, i)
    BY <2>1 DEF Sound, Chain
  <2> QED
    BY <1>2, <2>1, <2>2 DEF Link
<1>5. Kinds(s.root, s.refs, s.states)
  <2>1. Len(states) \in Nat /\ Len(st.states) \in Nat
    BY DEF Sound
  <2>2. \A i \in 1 .. Len(states) : i \in 1 .. Len(st.states) /\ i \in 1 .. Len(Pop(st.refs))
    BY <1>3, <2>1
  <2>3. ASSUME NEW i \in 1 .. Len(states)
        PROVE  states[i] = (type(st.root[Pop(st.refs)[i]]) = "array")
    <3>1. Pop(st.refs)[i] = st.refs[i] /\ states[i] = st.states[i]
      BY <1>3, <2>2
    <3>2. st.states[i] = (type(st.root[st.refs[i]]) = "array")
      BY <2>2 DEF Sound, Kinds
    <3> QED
      BY <3>1, <3>2
  <2>4. Len(states) <= Len(Pop(st.refs))
    BY <1>3, <2>1
  <2> QED
    BY <1>2, <2>3, <2>4 DEF Kinds
<1>6. Sound(s)
  BY <1>2, <1>3, <1>4, <1>5 DEF Sound
<1>7. Untouched(st, s)
  BY <1>2, <1>3 DEF Untouched, Sound, Chain, Link
<1> QED
  BY <1>2, <1>3, <1>6, <1>7 DEF s

-----------------------------------------------------------------------------
\* Where the parser is, and what it has on its stacks there.  `states` lacks the
\* container just opened; it is empty only at the root value and at the end.
At(st) ==
    CASE st.expect = "value" -> Ready(st)
      [] st.expect = "first_key" -> Len(st.refs) = Len(st.states) + 1
                                       /\ type(st.root[Top(st.refs)]) = "object"
      [] st.expect = "first_element" -> Len(st.refs) = Len(st.states) + 1
                                           /\ type(st.root[Top(st.refs)]) = "array"
      [] st.expect = "first_colon" -> Len(st.refs) = Len(st.states) + 1 /\ HasElement(st)
      [] st.expect = "colon" -> Len(st.refs) = Len(st.states) /\ HasElement(st)
      [] st.expect = "key" -> /\ Len(st.refs) = Len(st.states) /\ st.refs # <<>>
                              /\ type(st.root[Top(st.refs)]) = "object"
      [] st.expect = "separator" -> Len(st.refs) = Len(st.states) /\ st.refs # <<>>
      [] st.expect \in {"end", "accepted"} -> st.refs = <<>> /\ st.states = <<>>
      [] OTHER -> FALSE

\* The inductive invariant.  After an error only the stacks and the nodes are as
\* they should be: the caller throws the value away.
Inv(st) == Sound(st) /\ (st.expect # "error" => At(st))

\* Doing nothing leaves the outer containers alone.
LEMMA Idle == ASSUME NEW st, Sound(st) PROVE Untouched(st, st)
<1>1. Len(st.refs) \in Nat
  BY DEF Sound
<1> QED
  BY <1>1 DEF Untouched, Sound, Chain, Link

\* The place in the loop is all that Expect changes.
LEMMA Expected ==
    ASSUME NEW st, NEW s, Sound(s), Untouched(st, s), NEW e
    PROVE  /\ Sound(Expect(s, e)) /\ Untouched(st, Expect(s, e)) /\ Expect(s, e).expect = e
           /\ Expect(s, e).states = s.states /\ Expect(s, e).root = s.root
           /\ Expect(s, e).refs = s.refs /\ Expect(s, e).element = s.element
<1>1. Expect(s, e) = [expect |-> e, states |-> s.states, root |-> s.root,
                      refs |-> s.refs, element |-> s.element]
  BY Fields DEF Sound, Expect
<1> QED
  BY <1>1 DEF Sound, Untouched, IsState

\* The empty stacks are empty together.
LEMMA EmptyTogether ==
    ASSUME NEW s, Sound(s), Len(s.refs) = Len(s.states)
    PROVE  s.refs = <<>> <=> s.states = <<>>
BY EmptySeq DEF Sound

\* The state evaluation after a value.
LEMMA ValueDone ==
    ASSUME NEW st, NEW s, Sound(s), Untouched(st, s), Len(s.refs) = Len(s.states)
    PROVE  Inv(AfterValue(s)) /\ Untouched(st, AfterValue(s))
<1> DEFINE x == AfterValue(s)
           e == IF s.states = <<>> THEN "end" ELSE "separator"
<1>0. x = Expect(s, e)
  BY DEF AfterValue, Expect
<1> HIDE DEF x
<1>1. /\ Sound(x) /\ Untouched(st, x) /\ x.expect = e
      /\ x.states = s.states /\ x.root = s.root /\ x.refs = s.refs
  BY <1>0, Expected
<1>2. s.refs = <<>> <=> s.states = <<>>
  BY EmptyTogether
<1>3. At(x)
  BY <1>1, <1>2 DEF At
<1> QED
  BY <1>1, <1>3 DEF Inv, Sound, x

\* An error leaves the nodes alone.
LEMMA ErrorStep ==
    ASSUME NEW st, Sound(st) PROVE Inv(Error(st)) /\ Untouched(st, Error(st))
<1>1. Error(st) = Expect(st, "error")
  BY DEF Error, Expect
<1>2. Sound(Error(st)) /\ Untouched(st, Error(st)) /\ Error(st).expect = "error"
  BY <1>1, Idle, Expected
<1> QED
  BY <1>2 DEF Inv

\* A scalar value is handed over.
LEMMA ScalarStep ==
    ASSUME NEW st, Ready(st), NEW t
    PROVE  Inv(Scalar(st, t)) /\ Untouched(st, Scalar(st, t))
<1>1. ASSUME NEW v, type(v) # "array"
      PROVE  Inv(AfterValue(handle_value(st, v))) /\ Untouched(st, AfterValue(handle_value(st, v)))
  <2>1. /\ Sound(handle_value(st, v)) /\ Untouched(st, handle_value(st, v))
        /\ Len(handle_value(st, v).refs) = Len(handle_value(st, v).states)
    BY <1>1, ValueHandled DEF NewNode, Ready
  <2> QED
    BY <2>1, ValueDone
<1>2. Inv(Error(st)) /\ Untouched(st, Error(st))
  BY ErrorStep DEF Ready
<1>3. /\ type(Null) # "array" /\ type(Bool(TRUE)) # "array" /\ type(Bool(FALSE)) # "array"
      /\ type(Str(t.v)) # "array" /\ type(Integer(t.v)) # "array"
      /\ type(Unsigned(t.v)) # "array" /\ type(Float(t.v)) # "array"
  BY DEF type, Null, Bool, Str, Integer, Unsigned, Float
<1> QED
  BY <1>1, <1>2, <1>3 DEF Scalar

\* The switch on the token that starts a value.
LEMMA ValueStep ==
    ASSUME NEW st, Ready(st), NEW t
    PROVE  Inv(ParseValue(st, t)) /\ Untouched(st, ParseValue(st, t))
<1>1. ASSUME NEW c, NEW e, \/ c = ObjectNode /\ e = "first_key"
                           \/ c = ArrayNode(0) /\ e = "first_element"
      PROVE  Inv(Expect(start(st, c), e)) /\ Untouched(st, Expect(start(st, c), e))
  <2> DEFINE s == start(st, c)
             x == Expect(s, e)
  <2>1. is_structured(c) /\ NewNode(c)
        /\ (e = "first_key" => type(c) = "object") /\ (e = "first_element" => type(c) = "array")
        /\ e \in {"first_key", "first_element"}
    BY <1>1 DEF is_structured, NewNode, ObjectNode, ArrayNode, type
  <2>2. /\ Sound(s) /\ Untouched(st, s)
        /\ Len(s.refs) = Len(s.states) + 1 /\ s.root[Top(s.refs)] = c
    BY <2>1, ContainerStarted
  <2>3. /\ Sound(x) /\ Untouched(st, x) /\ x.expect = e
        /\ x.states = s.states /\ x.root = s.root /\ x.refs = s.refs
    BY <2>2, Expected
  <2> HIDE DEF s, x
  <2>4. At(x)
    BY <2>1, <2>2, <2>3 DEF At
  <2> QED
    BY <2>3, <2>4 DEF Inv, Sound, s, x
<1>2. Inv(Scalar(st, t)) /\ Untouched(st, Scalar(st, t))
  BY ScalarStep
<1> QED
  BY <1>1, <1>2 DEF ParseValue

\* A key comes.
LEMMA KeyComes ==
    ASSUME NEW st, Sound(st), st.refs # <<>>, type(st.root[Top(st.refs)]) = "object",
           NEW t, IsToken(t), t.token = "value_string",
           NEW e, \/ e = "first_colon" /\ Len(st.refs) = Len(st.states) + 1
                  \/ e = "colon" /\ Len(st.refs) = Len(st.states)
    PROVE  Inv(Expect(key(st, t.v), e)) /\ Untouched(st, Expect(key(st, t.v), e))
<1> DEFINE s == key(st, t.v)
           x == Expect(s, e)
<1>1. t.v \in Seq(0 .. 255)
  BY DEF IsToken
<1>2. /\ Sound(s) /\ Untouched(st, s) /\ HasElement(s)
      /\ s.refs = st.refs /\ s.states = st.states
  BY <1>1, MemberPrepared
<1> HIDE DEF s
<1>3. /\ Sound(x) /\ Untouched(st, x) /\ x.expect = e
      /\ x.states = s.states /\ x.root = s.root /\ x.refs = s.refs /\ x.element = s.element
  BY <1>2, Expected
<1> HIDE DEF x
<1>4. At(x)
  BY <1>2, <1>3 DEF At, HasElement
<1> QED
  BY <1>3, <1>4 DEF Inv, Sound, s, x

\* A container that ends at once has not been in `states`.
LEMMA EmptyContainer ==
    ASSUME NEW st, Sound(st), Len(st.refs) = Len(st.states) + 1
    PROVE  Inv(AfterValue(end(st))) /\ Untouched(st, AfterValue(end(st)))
<1>1. /\ Len(st.states) \in Nat /\ Len(st.refs) \in Nat /\ st.refs # <<>>
      /\ st.states \in Seq(BOOLEAN) /\ Len(st.states) = Len(st.refs) - 1
      /\ Len(st.states) <= Len(st.states)
  BY DEF Sound
<1>2. end(st) = [expect |-> st.expect, states |-> st.states, root |-> st.root,
                 refs |-> Pop(st.refs), element |-> st.element]
  BY Ended DEF Sound
<1>3. [end(st) EXCEPT !.states = st.states] = end(st)
  BY <1>2
<1> DEFINE s == [end(st) EXCEPT !.states = st.states]
<1>4. Sound(s) /\ Untouched(st, s) /\ Len(s.refs) = Len(s.states)
  BY <1>1, ContainerEnded
<1>5. Sound(end(st)) /\ Untouched(st, end(st)) /\ Len(end(st).refs) = Len(end(st).states)
  BY <1>3, <1>4
<1> QED
  BY <1>5, ValueDone

\* The container on top of ref_stack enters `states`.
LEMMA StateEntered ==
    ASSUME NEW st, Sound(st), Len(st.refs) = Len(st.states) + 1, NEW b \in BOOLEAN,
           b = (type(st.root[Top(st.refs)]) = "array")
    PROVE  LET s == [st EXCEPT !.states = Append(@, b)]
           IN  /\ Sound(s) /\ Untouched(st, s) /\ Len(s.refs) = Len(s.states)
               /\ s.root = st.root /\ s.refs = st.refs /\ s.element = st.element
<1> DEFINE s == [st EXCEPT !.states = Append(@, b)]
           more == Append(st.states, b)
<1>1. s = [expect |-> st.expect, states |-> more, root |-> st.root,
           refs |-> st.refs, element |-> st.element]
  BY Fields DEF Sound
<1>2. /\ more \in Seq(BOOLEAN) /\ Len(more) = Len(st.states) + 1 /\ Top(more) = b
      /\ \A i \in 1 .. Len(st.states) : more[i] = st.states[i]
      /\ Len(st.states) \in Nat
  <2>1. st.states \in Seq(BOOLEAN) /\ Len(st.states) \in Nat
    BY DEF Sound
  <2>2. \A S : \A q \in Seq(S), e \in S :
            /\ Append(q, e) \in Seq(S) /\ Len(Append(q, e)) = Len(q) + 1 /\ Top(Append(q, e)) = e
            /\ \A i \in 1 .. Len(q) : Append(q, e)[i] = q[i]
    BY Pushed
  <2>3. b \in BOOLEAN
    OBVIOUS
  <2> HIDE DEF s
  <2> QED
    BY <2>1, <2>2, <2>3, ZenonT(30)
<1> HIDE DEF s, more
<1>3. Kinds(st.root, st.refs, more)
  <2>1. ASSUME NEW i \in 1 .. Len(more) PROVE more[i] = (type(st.root[st.refs[i]]) = "array")
    <3>1. CASE i \in 1 .. Len(st.states)
      <4>1. more[i] = st.states[i] /\ st.states[i] = (type(st.root[st.refs[i]]) = "array")
        BY <1>2, <3>1 DEF Sound, Kinds
      <4> QED
        BY <4>1
    <3>2. CASE i = Len(more)
      <4>1. more[i] = Top(more) /\ st.refs[i] = Top(st.refs)
        BY <1>2, <3>2 DEF Top
      <4> QED
        BY <1>2, <4>1
    <3> QED
      BY <1>2, <3>1, <3>2
  <2>2. Len(more) <= Len(st.refs)
    BY <1>2
  <2> QED
    BY <2>1, <2>2 DEF Kinds
<1>4. /\ IsState(s) /\ s.states = more /\ s.root = st.root /\ s.refs = st.refs
      /\ s.element = st.element
  BY <1>1 DEF IsState
<1>5. Sound(s) /\ Len(s.refs) = Len(s.states)
  BY <1>2, <1>3, <1>4 DEF Sound
<1>6. Untouched(st, s)
  BY <1>4 DEF Untouched, Sound, Chain, Link
<1> QED
  BY <1>4, <1>5, <1>6 DEF s

\* After { : the object ends, or its first key comes.
LEMMA FirstKeyStep ==
    ASSUME NEW st, Sound(st), At(st), st.expect = "first_key", NEW t, IsToken(t)
    PROVE  Inv(FirstKey(st, t)) /\ Untouched(st, FirstKey(st, t))
<1>1. /\ Len(st.refs) = Len(st.states) + 1 /\ type(st.root[Top(st.refs)]) = "object"
      /\ Len(st.states) \in Nat /\ Len(st.refs) \in Nat /\ st.refs # <<>>
  BY DEF At, Sound
<1>2. Inv(AfterValue(end(st))) /\ Untouched(st, AfterValue(end(st)))
  BY <1>1, EmptyContainer
<1>3. ASSUME t.token = "value_string"
      PROVE  /\ Inv(Expect(key(st, t.v), "first_colon"))
             /\ Untouched(st, Expect(key(st, t.v), "first_colon"))
  BY <1>1, <1>3, KeyComes
<1> QED
  BY <1>2, <1>3, ErrorStep DEF FirstKey

\* After [ : the array ends, or its first element comes.
LEMMA FirstElementStep ==
    ASSUME NEW st, Sound(st), At(st), st.expect = "first_element", NEW t, IsToken(t)
    PROVE  Inv(FirstElement(st, t)) /\ Untouched(st, FirstElement(st, t))
<1>1. /\ Len(st.refs) = Len(st.states) + 1 /\ type(st.root[Top(st.refs)]) = "array"
      /\ Len(st.states) \in Nat /\ Len(st.refs) \in Nat /\ st.refs # <<>>
      /\ st.states \in Seq(BOOLEAN)
  BY DEF At, Sound
<1>2. Inv(AfterValue(end(st))) /\ Untouched(st, AfterValue(end(st)))
  BY <1>1, EmptyContainer
<1>3. LET s == [st EXCEPT !.states = Append(@, IsArray)]
      IN  Inv(ParseValue(s, t)) /\ Untouched(st, ParseValue(s, t))
  <2> DEFINE s == [st EXCEPT !.states = Append(@, IsArray)]
  <2>1. IsArray \in BOOLEAN /\ IsArray = (type(st.root[Top(st.refs)]) = "array")
    BY <1>1 DEF IsArray
  <2>2. /\ Sound(s) /\ Untouched(st, s) /\ Len(s.refs) = Len(s.states)
        /\ s.root = st.root /\ s.refs = st.refs
    BY <1>1, <2>1, StateEntered
  <2> HIDE DEF s
  <2>3. InArray(s)
    BY <1>1, <2>2 DEF InArray
  <2>4. Inv(ParseValue(s, t)) /\ Untouched(s, ParseValue(s, t))
    BY <2>2, <2>3, ValueStep DEF Ready
  <2>5. Untouched(st, ParseValue(s, t))
    BY <2>2, <2>4 DEF Untouched
  <2> QED
    BY <2>4, <2>5 DEF s
<1> QED
  BY <1>2, <1>3 DEF FirstElement

\* The colon after a key; after the first key the object enters `states`.
LEMMA ColonStep ==
    ASSUME NEW st, Sound(st), At(st), st.expect \in {"colon", "first_colon"}, NEW t
    PROVE  Inv(Colon(st, t)) /\ Untouched(st, Colon(st, t))
<1> DEFINE s == IF st.expect = "first_colon" THEN [st EXCEPT !.states = Append(@, ~ IsArray)]
                ELSE st
           x == Expect(s, "value")
<1>1. /\ HasElement(st) /\ Len(st.states) \in Nat /\ Len(st.refs) \in Nat /\ st.refs # <<>>
      /\ st.expect = "colon" => Len(st.refs) = Len(st.states)
      /\ st.expect = "first_colon" => Len(st.refs) = Len(st.states) + 1
  BY DEF At, Sound, HasElement
<1>2. Untouched(st, s) /\ Sound(s) /\ HasElement(s) /\ Len(s.refs) = Len(s.states)
  <2>1. CASE st.expect = "colon"
    BY <1>1, <2>1 DEF Untouched, Sound, Chain, Link
  <2>2. CASE st.expect = "first_colon"
    <3>1. s = [st EXCEPT !.states = Append(@, ~ IsArray)]
      BY <2>2
    <3>2. (~ IsArray) \in BOOLEAN /\ (~ IsArray) = (type(st.root[Top(st.refs)]) = "array")
      BY <1>1 DEF IsArray, HasElement
    <3> HIDE DEF s
    <3>3. /\ Sound(s) /\ Untouched(st, s) /\ Len(s.refs) = Len(s.states)
          /\ s.root = st.root /\ s.refs = st.refs /\ s.element = st.element
      BY <1>1, <2>2, <3>1, <3>2, StateEntered
    <3> QED
      BY <1>1, <3>3 DEF HasElement
  <2> QED
    BY <2>1, <2>2
<1> HIDE DEF s
<1>3. /\ Sound(x) /\ Untouched(st, x) /\ x.expect = "value"
      /\ x.states = s.states /\ x.root = s.root /\ x.refs = s.refs /\ x.element = s.element
  BY <1>2, Expected
<1> HIDE DEF x
<1>4. At(x)
  BY <1>2, <1>3 DEF At, Ready, HasElement
<1>5. Inv(x) /\ Untouched(st, x)
  BY <1>3, <1>4 DEF Inv, Sound
<1>6. CASE t.token = "name_separator"
  <2>1. Colon(st, t) = x
    BY <1>6 DEF Colon, x, s
  <2> QED
    BY <1>5, <2>1
<1>7. CASE t.token # "name_separator"
  BY <1>7, ErrorStep DEF Colon
<1> QED
  BY <1>6, <1>7

\* A comma, or the end of the innermost container.
LEMMA SeparatorStep ==
    ASSUME NEW st, Sound(st), At(st), st.expect = "separator", NEW t
    PROVE  Inv(Separator(st, t)) /\ Untouched(st, Separator(st, t))
<1>1. /\ Len(st.refs) = Len(st.states) /\ st.refs # <<>> /\ st.states # <<>>
      /\ Len(st.states) \in Nat \ {0}
  BY EmptyTogether, EmptySeq DEF At, Sound
<1>2. Top(st.states) = (type(st.root[Top(st.refs)]) = "array")
  BY <1>1 DEF Sound, Kinds, Top
<1>3. ASSUME NEW e, e = IF Top(st.states) = IsArray THEN "value" ELSE "key"
      PROVE  Inv(Expect(st, e)) /\ Untouched(st, Expect(st, e))
  <2> DEFINE x == Expect(st, e)
  <2>1. Untouched(st, st)
    BY Idle
  <2>2. /\ Sound(x) /\ Untouched(st, x) /\ x.expect = e
        /\ x.states = st.states /\ x.root = st.root /\ x.refs = st.refs
    BY <2>1, Expected
  <2> HIDE DEF x
  <2>3. is_structured(st.root[Top(st.refs)])
    BY <1>1, TopIsOpen
  <2>4. At(x)
    <3>1. CASE e = "value"
      <4>1. InArray(x)
        BY <1>1, <1>2, <1>3, <2>2, <3>1 DEF InArray, IsArray
      <4> QED
        BY <1>1, <2>2, <3>1, <4>1 DEF At, Ready
    <3>2. CASE e = "key"
      <4>1. type(st.root[Top(st.refs)]) = "object"
        BY <1>2, <1>3, <2>3, <3>2 DEF IsArray, is_structured
      <4> QED
        BY <1>1, <2>2, <3>2, <4>1 DEF At
    <3> QED
      BY <1>3, <3>1, <3>2
  <2> QED
    BY <2>2, <2>4 DEF Inv, Sound, x
<1>4. LET s == [end(st) EXCEPT !.states = Pop(@)]
      IN  Inv(AfterValue(s)) /\ Untouched(st, AfterValue(s))
  <2>1. end(st).states = st.states
    <3>1. end(st) = [expect |-> st.expect, states |-> st.states, root |-> st.root,
                     refs |-> Pop(st.refs), element |-> st.element]
      BY Ended DEF Sound
    <3> QED
      BY <3>1
  <2>2. /\ Pop(st.states) \in Seq(BOOLEAN) /\ Len(Pop(st.states)) = Len(st.states) - 1
        /\ \A i \in 1 .. Len(Pop(st.states)) : Pop(st.states)[i] = st.states[i]
    BY <1>1, Popped DEF Sound
  <2> DEFINE s == [end(st) EXCEPT !.states = Pop(st.states)]
  <2>3. Sound(s) /\ Untouched(st, s) /\ Len(s.refs) = Len(s.states)
    <3>1. Len(Pop(st.states)) = Len(st.refs) - 1 /\ Len(Pop(st.states)) <= Len(st.states)
      BY <1>1, <2>2 DEF Sound
    <3> QED
      BY <1>1, <2>2, <3>1, ContainerEnded
  <2>4. s = [end(st) EXCEPT !.states = Pop(@)]
    BY <2>1
  <2> HIDE DEF s
  <2>5. Inv(AfterValue(s)) /\ Untouched(st, AfterValue(s))
    BY <2>3, ValueDone
  <2> QED
    BY <2>4, <2>5
<1> QED
  BY <1>3, <1>4, ErrorStep DEF Separator

\* The key after a comma.
LEMMA KeyStep ==
    ASSUME NEW st, Sound(st), At(st), st.expect = "key", NEW t, IsToken(t)
    PROVE  Inv(Key(st, t)) /\ Untouched(st, Key(st, t))
<1>1. /\ Len(st.refs) = Len(st.states) /\ st.refs # <<>>
      /\ type(st.root[Top(st.refs)]) = "object"
  BY DEF At
<1>2. CASE t.token = "value_string"
  BY <1>1, <1>2, KeyComes DEF Key
<1>3. CASE t.token # "value_string"
  BY <1>3, ErrorStep DEF Key
<1> QED
  BY <1>2, <1>3

\* The end of the input.
LEMMA EndStep ==
    ASSUME NEW st, Sound(st), At(st), st.expect = "end", NEW t
    PROVE  Inv(End(st, t)) /\ Untouched(st, End(st, t))
<1>1. st.refs = <<>> /\ st.states = <<>>
  BY DEF At
<1>2. Untouched(st, st)
  BY <1>1 DEF Untouched
<1> DEFINE x == Expect(st, "accepted")
<1>3. /\ Sound(x) /\ Untouched(st, x) /\ x.expect = "accepted"
      /\ x.states = st.states /\ x.refs = st.refs
  BY <1>2, Expected
<1> HIDE DEF x
<1>4. Inv(x)
  BY <1>1, <1>3 DEF Inv, At, Sound
<1> QED
  BY <1>3, <1>4, ErrorStep DEF End, x

-----------------------------------------------------------------------------
\* Whatever the token, wherever the parser is.
LEMMA StepKeeps ==
    ASSUME NEW st, Inv(st), NEW t, IsToken(t)
    PROVE  Inv(Step(st, t)) /\ Untouched(st, Step(st, t))
<1>1. Sound(st) /\ (st.expect # "error" => At(st))
  BY DEF Inv
<1>2. CASE st.expect = "value"
  <2>1. Ready(st)
    BY <1>1, <1>2 DEF At
  <2> QED
    BY <1>2, <2>1, ValueStep DEF Step
<1>3. CASE st.expect = "first_key"
  BY <1>1, <1>3, FirstKeyStep DEF Step
<1>4. CASE st.expect = "first_element"
  BY <1>1, <1>4, FirstElementStep DEF Step
<1>5. CASE st.expect \in {"colon", "first_colon"}
  <2>1. Step(st, t) = Colon(st, t) /\ At(st)
    BY <1>1, <1>5 DEF Step
  <2> QED
    BY <1>1, <1>5, <2>1, ColonStep
<1>6. CASE st.expect = "separator"
  BY <1>1, <1>6, SeparatorStep DEF Step
<1>7. CASE st.expect = "key"
  BY <1>1, <1>7, KeyStep DEF Step
<1>8. CASE st.expect = "end"
  BY <1>1, <1>8, EndStep DEF Step
<1>9. CASE st.expect \notin {"value", "first_key", "first_element", "colon", "first_colon",
                            "separator", "key", "end"}
  <2>1. Step(st, t) = st
    BY <1>9 DEF Step
  <2> QED
    BY <1>1, <2>1, Idle
<1> QED
  BY <1>2, <1>3, <1>4, <1>5, <1>6, <1>7, <1>8, <1>9

\* Before the first token.
LEMMA InitiallySound == Inv(Initial)
<1> DEFINE st == Initial
<1>1. /\ IsState(st) /\ st.expect = "value" /\ st.states = <<>> /\ st.refs = <<>>
      /\ st.element = <<>> /\ st.root = [p \in {<<>>} |-> Null]
  BY DEF Initial, IsState
<1> HIDE DEF st
<1>2. Nodes(st.root)
  BY <1>1 DEF Nodes, Paths, Null, type
<1>3. Sound(st)
  BY <1>1, <1>2 DEF Sound, Chain, Link, Kinds, Paths
<1>4. At(st)
  BY <1>1, <1>3 DEF At, Ready
<1> QED
  BY <1>3, <1>4 DEF Inv, st

\* The invariant is what the comments of handle_value and its assertions say.
LEMMA SoundNests ==
    ASSUME NEW st, Inv(st), st.expect # "error"
    PROVE  Nested(st) /\ Prepared(st)
<1>1. Sound(st) /\ At(st) /\ Len(st.refs) \in Nat /\ Len(st.states) \in Nat
  BY DEF Inv, Sound
<1>2. Len(st.refs) = Len(st.states) + JustOpened(st)
  <2>1. CASE st.expect \in {"first_key", "first_colon", "first_element"}
    BY <1>1, <2>1 DEF At, JustOpened
  <2>2. CASE st.expect \in {"value", "colon", "key", "separator"}
    <3>1. Len(st.refs) = Len(st.states)
      BY <1>1, <2>2 DEF At, Ready
    <3>2. JustOpened(st) = 0
      BY <2>2 DEF JustOpened
    <3> QED
      BY <1>1, <3>1, <3>2
  <2>3. CASE st.expect \in {"end", "accepted"}
    <3>1. st.refs = <<>> /\ st.states = <<>>
      BY <1>1, <2>3 DEF At
    <3> QED
      BY <2>3, <3>1 DEF JustOpened
  <2> QED
    BY <1>1, <2>1, <2>2, <2>3 DEF At
<1>3. ASSUME NEW i \in 1 .. Len(st.refs)
      PROVE  LET outer == st.root[st.refs[i - 1]]
             IN  /\ st.refs[i] \in DOMAIN st.root /\ is_structured(st.root[st.refs[i]])
                 /\ IF i = 1 THEN st.refs[i] = <<>>
                    ELSE /\ st.refs[i] = Append(st.refs[i - 1], Top(st.refs[i]))
                         /\ type(outer) = "array" => Top(st.refs[i]) = outer[2]
  <2>1. Link(st.root, st.refs, i) /\ st.refs[i] \in Seq(Steps)
    BY <1>1 DEF Sound, Chain, Paths
  <2>2. Len(st.refs[i]) = i - 1
    BY <2>1, Zenon DEF Link
  <2>3. i = 1 => st.refs[i] = <<>>
    BY <2>1, <2>2, EmptySeq
  <2>4. i # 1 => i > 1
    OBVIOUS
  <2> QED
    BY <2>1, <2>3, <2>4, Zenon DEF Link
<1>4. Nested(st)
  BY <1>1, <1>2, <1>3 DEF Nested, Sound, Kinds
<1>5. Prepared(st)
  <2>1. SUFFICES ASSUME HasElement(st)
                 PROVE  st.element \in DOMAIN st.root /\ Pop(st.element) = Top(st.refs)
    BY <1>1 DEF Prepared, At, Ready
  <2>2. PICK x \in Steps : st.element = Append(Top(st.refs), x)
    BY <2>1 DEF HasElement
  <2>3. Top(st.refs) \in Seq(Steps)
    BY <1>1, <2>1, TopIsOpen DEF HasElement, Paths
  <2> QED
    BY <2>1, <2>2, <2>3, Pushed DEF HasElement
<1> QED
  BY <1>4, <1>5

\* A step of the parser keeps the invariant and the outer containers.
LEMMA ParserKeeps ==
    ASSUME Inv(parser), [ParserNext]_parser
    PROVE  Inv(parser)' /\ (parser' # parser => Untouched(parser, parser'))
<1>1. CASE ParserNext
  <2>1. PICK t : IsToken(t) /\ parser' = Step(parser, t)
    BY <1>1 DEF ParserNext, Take
  <2>2. Inv(Step(parser, t)) /\ Untouched(parser, Step(parser, t))
    BY <2>1, StepKeeps
  <2> QED
    BY <2>1, <2>2
<1>2. CASE UNCHANGED parser
  BY <1>2
<1> QED
  BY <1>1, <1>2

\* For every sequence of tokens: the open containers nest.
LEMMA ParserInvariance == ParserSpec => []Inv(parser)
<1>1. ParserInit => Inv(parser)
  BY InitiallySound DEF ParserInit
<1>2. Inv(parser) /\ [ParserNext]_parser => Inv(parser)'
  BY ParserKeeps
<1> QED
  BY <1>1, <1>2, PTL DEF ParserSpec

\* json_sax_dom_parser's invariant ("If the ref stack contains a value, then it is
\* an array or an object to which we can add elements") and the assertions of
\* handle_value and of sax_parse_internal, for every sequence of tokens.
THEOREM ContainersNest == ParserSpec => []OpenContainersNest
<1>1. Inv(parser) => OpenContainersNest
  BY SoundNests DEF OpenContainersNest
<1> QED
  BY <1>1, ParserInvariance, PTL

\* No token changes a container that is not on top of ref_stack.
THEOREM OuterKept == ParserSpec => OuterContainersKept
<1> DEFINE Kept == \A i \in 1 .. Len(parser.refs) - 1 :
                       /\ parser.refs[i] \in DOMAIN parser'.root
                       /\ parser'.root[parser.refs[i]] = parser.root[parser.refs[i]]
<1>1. Inv(parser) /\ [ParserNext]_parser => [Kept]_parser
  <2>1. Untouched(parser, parser') => Kept
    BY DEF Untouched
  <2> QED
    BY <2>1, ParserKeeps
<1> QED
  BY <1>1, ParserInvariance, PTL DEF ParserSpec, OuterContainersKept

-----------------------------------------------------------------------------
\* A path is its parent and its last step.
LEMMA PathParts ==
    ASSUME NEW q \in Paths, q # <<>>
    PROVE  /\ Pop(q) \in Paths /\ Top(q) \in Steps /\ Len(Pop(q)) < Len(q)
           /\ q = Append(Pop(q), Top(q))
<1>1. /\ Pop(q) \in Seq(Steps) /\ Len(Pop(q)) = Len(q) - 1 /\ Len(q) \in Nat \ {0}
      /\ \A i \in 1 .. Len(Pop(q)) : Pop(q)[i] = q[i]
      /\ Top(q) \in Steps
  BY Popped DEF Paths
<1>2. /\ Append(Pop(q), Top(q)) \in Seq(Steps) /\ Len(Append(Pop(q), Top(q))) = Len(Pop(q)) + 1
      /\ Top(Append(Pop(q), Top(q))) = Top(q)
      /\ \A i \in 1 .. Len(Pop(q)) : Append(Pop(q), Top(q))[i] = Pop(q)[i]
  BY <1>1, Pushed
<1>3. \A i \in 1 .. Len(q) : Append(Pop(q), Top(q))[i] = q[i]
  BY <1>1, <1>2 DEF Top
<1>4. q = Append(Pop(q), Top(q))
  BY <1>1, <1>2, <1>3, SeqEqual DEF Paths
<1> QED
  BY <1>1, <1>4 DEF Paths

\* A value is assigned to a place that is attached: what is left is a tree.
LEMMA AssignedTree ==
    ASSUME NEW g, Nodes(g), NEW p \in Paths, NEW v, NewNode(v),
           <<>> \in DOMAIN g, \A q \in DOMAIN g : q # <<>> => Attached(g, q),
           p # <<>> => Attached(g, p),
           \A q \in DOMAIN g : type(g[q]) = "array" =>
               \A i \in 1 .. g[q][2] : Append(q, i) = p \/ Append(q, i) \in DOMAIN g
    PROVE  Tree(Assign(g, p, v))
<1> DEFINE a == Assign(g, p, v)
<1>1. /\ DOMAIN a = {p} \cup {r \in DOMAIN g : ~ Below(r, p)} /\ a[p] = v
      /\ \A q \in DOMAIN g : q # p /\ ~ Below(q, p) => q \in DOMAIN a /\ a[q] = g[q]
  BY DEF Assign
<1> HIDE DEF a
<1>2. \A q \in Paths : q # <<>> => /\ Pop(q) \in Paths /\ Top(q) \in Steps
                                   /\ Len(Pop(q)) < Len(q) /\ q = Append(Pop(q), Top(q))
  BY PathParts
<1>3. <<>> \in DOMAIN a
  <2>1. CASE p = <<>>
    BY <1>1, <2>1
  <2>2. CASE p # <<>>
    <3>1. <<>> \in Paths /\ Len(p) \in Nat \ {0} /\ Len(<<>>) = 0
      BY <2>2, EmptySeq DEF Paths
    <3> QED
      BY <1>1, <3>1, Shorter
  <2> QED
    BY <2>1, <2>2
<1>4. ASSUME NEW q \in DOMAIN a, q # <<>> PROVE Attached(a, q)
  <2>1. q \in Paths /\ Attached(g, q)
    BY <1>1, <1>4 DEF Nodes
  <2>2. Pop(q) # p /\ ~ Below(Pop(q), p)
    <3>1. CASE q = p
      BY <1>2, <1>4, <2>1, <3>1, Shorter
    <3>2. CASE q # p
      <4>1. ~ Below(Append(Pop(q), Top(q)), p)
        BY <1>1, <1>2, <1>4, <2>1, <3>2
      <4> QED
        BY <1>2, <1>4, <2>1, <4>1, BelowChild
    <3> QED
      BY <3>1, <3>2
  <2>3. Pop(q) \in DOMAIN a /\ a[Pop(q)] = g[Pop(q)]
    BY <1>1, <2>1, <2>2 DEF Attached
  <2> QED
    BY <2>1, <2>3 DEF Attached
<1>5. ASSUME NEW q \in DOMAIN a, type(a[q]) = "array", NEW i \in 1 .. a[q][2]
      PROVE  Append(q, i) \in DOMAIN a
  <2>1. CASE q = p
    <3>1. a[q][2] = 0
      BY <1>1, <1>5, <2>1 DEF NewNode
    <3> QED
      BY <3>1
  <2>2. CASE q # p
    <3>1. q \in DOMAIN g /\ ~ Below(q, p) /\ a[q] = g[q] /\ q \in Paths
      BY <1>1, <2>2 DEF Nodes
    <3>2. i \in Steps
      BY <1>5, <3>1 DEF Nodes, Steps
    <3>3. ~ Below(Append(q, i), p)
      BY <2>2, <3>1, <3>2, BelowChild
    <3> QED
      BY <1>1, <1>5, <3>1, <3>3
  <2> QED
    BY <2>1, <2>2
<1>6. Tree(a)
  BY <1>3, <1>4, <1>5 DEF Tree
<1> QED
  BY <1>6 DEF a

\* handle_value: a root, a last element, or the member prepared.
LEMMA HandledTree ==
    ASSUME NEW st, Ready(st), Tree(st.root), NEW v, NewNode(v)
    PROVE  Tree(handle_value(st, v).root)
<1> DEFINE p == PlaceOf(st)
           g == Grown(st)
<1>1. Sound(st) /\ Nodes(st.root) /\ handle_value(st, v).root = Assign(g, p, v)
  BY Fields DEF Ready, Sound, handle_value
<1>2. CASE ~ InArray(st)
  <2>1. g = st.root
    BY <1>2 DEF Grown
  <2>2. p \in Paths /\ p \in DOMAIN st.root
    <3>1. CASE st.refs = <<>>
      BY <3>1 DEF PlaceOf, Tree, Paths
    <3>2. CASE st.refs # <<>>
      BY <1>1, <1>2, <3>2 DEF PlaceOf, Ready, HasElement, Sound
    <3> QED
      BY <3>1, <3>2
  <2> HIDE DEF p, g
  <2>3. Tree(Assign(st.root, p, v))
    BY <1>1, <2>2, AssignedTree DEF Tree
  <2> QED
    BY <1>1, <2>1, <2>3
<1>3. CASE InArray(st)
  <2> DEFINE top == Top(st.refs)
             n == Size(st)
  <2>1. /\ top \in DOMAIN st.root /\ top \in Paths /\ n \in Nat
        /\ type(st.root[top]) = "array" /\ st.root[top][2] = n
    BY <1>1, <1>3, TopIsOpen DEF InArray, Size
  <2>2. p = Append(top, n + 1) /\ g = [st.root EXCEPT ![top] = <<"array", n + 1>>]
    BY <1>3 DEF PlaceOf, Grown, InArray, ArrayNode
  <2> HIDE DEF p, g, top, n
  <2>3. /\ DOMAIN g = DOMAIN st.root /\ g[top] = <<"array", n + 1>>
        /\ \A q \in DOMAIN st.root : q # top => g[q] = st.root[q]
    BY <2>1, <2>2
  <2>4. type(g[top]) = "array" /\ g[top][2] = n + 1
    BY <2>3 DEF type
  <2>5. p \in Paths /\ p # <<>> /\ Top(p) = n + 1 /\ Pop(p) = top
    <3>1. n + 1 \in Steps /\ top \in Seq(Steps)
      BY <2>1 DEF Steps, Paths
    <3> QED
      BY <2>2, <3>1, Pushed DEF Paths
  <2>6. Nodes(g)
    BY <1>1, <2>1, <2>3, <2>4 DEF Nodes
  <2>7. Attached(g, p)
    BY <2>1, <2>3, <2>4, <2>5 DEF Attached
  <2>8. ASSUME NEW q \in DOMAIN g, q # <<>> PROVE Attached(g, q)
    <3>1. Attached(st.root, q)
      BY <2>3, <2>8 DEF Tree
    <3>2. CASE Pop(q) = top
      BY <2>1, <2>3, <2>4, <3>1, <3>2 DEF Attached
    <3>3. CASE Pop(q) # top
      BY <2>3, <3>1, <3>3 DEF Attached
    <3> QED
      BY <3>2, <3>3
  <2>9. ASSUME NEW q \in DOMAIN g, type(g[q]) = "array", NEW i \in 1 .. g[q][2]
        PROVE  Append(q, i) = p \/ Append(q, i) \in DOMAIN g
    <3>1. CASE q = top
      <4>1. i \in 1 .. n \/ i = n + 1
        BY <2>1, <2>4, <3>1
      <4>2. i \in 1 .. n => Append(q, i) \in DOMAIN st.root
        BY <2>1, <3>1 DEF Tree
      <4> QED
        BY <2>2, <2>3, <3>1, <4>1, <4>2
    <3>2. CASE q # top
      BY <2>3, <2>9, <3>2 DEF Tree
    <3> QED
      BY <3>1, <3>2
  <2>10. <<>> \in DOMAIN g
    BY <2>3 DEF Tree
  <2>11. Tree(Assign(g, p, v))
    BY <2>5, <2>6, <2>7, <2>8, <2>9, <2>10, AssignedTree
  <2> QED
    BY <1>1, <2>11
<1> QED
  BY <1>2, <1>3

\* key(): the member is there, with null if the key is new.
LEMMA PreparedTree ==
    ASSUME NEW st, Sound(st), Tree(st.root), st.refs # <<>>,
           type(st.root[Top(st.refs)]) = "object", NEW k \in Seq(0 .. 255)
    PROVE  Tree(key(st, k).root)
<1> DEFINE path == Append(Top(st.refs), k)
<1>1. key(st, k).root = IF path \in DOMAIN st.root THEN st.root ELSE Assign(st.root, path, Null)
  BY DEF key, Sound, IsState
<1>2. Top(st.refs) \in DOMAIN st.root /\ Top(st.refs) \in Seq(Steps) /\ k \in Steps
  BY TopIsOpen DEF Steps, Paths
<1>3. path \in Paths /\ Top(path) = k /\ Pop(path) = Top(st.refs)
  BY <1>2, Pushed DEF Paths
<1> HIDE DEF path
<1>4. Attached(st.root, path)
  BY <1>2, <1>3 DEF Attached
<1>5. NewNode(Null) /\ Nodes(st.root)
  BY DEF NewNode, Null, type, Sound
<1>6. Tree(Assign(st.root, path, Null))
  BY <1>3, <1>4, <1>5, AssignedTree DEF Tree
<1> QED
  BY <1>1, <1>6

\* What is not handle_value or key leaves the nodes alone.
LEMMA SameRoot ==
    ASSUME NEW st, IsState(st), NEW x
    PROVE  /\ Expect(st, x).root = st.root /\ AfterValue(st).root = st.root
           /\ Error(st).root = st.root /\ end(st).root = st.root
           /\ IsState(end(st)) /\ end(st).states = st.states
           /\ IsState([st EXCEPT !.states = x]) /\ [st EXCEPT !.states = x].root = st.root
<1>1. \A y : [st EXCEPT !.expect = y].root = st.root
  <2>1. \A y : [st EXCEPT !.expect = y] =
                   [expect |-> y, states |-> st.states, root |-> st.root,
                    refs |-> st.refs, element |-> st.element]
    BY Fields
  <2> QED
    BY <2>1
<1>2. /\ IsState([st EXCEPT !.refs = Pop(@)]) /\ [st EXCEPT !.refs = Pop(@)].root = st.root
      /\ [st EXCEPT !.refs = Pop(@)].states = st.states
  <2>1. [st EXCEPT !.refs = Pop(@)] =
            [expect |-> st.expect, states |-> st.states, root |-> st.root,
             refs |-> Pop(st.refs), element |-> st.element]
    BY Fields
  <2> QED
    BY <2>1 DEF IsState
<1>3. IsState([st EXCEPT !.states = x]) /\ [st EXCEPT !.states = x].root = st.root
  <2>1. [st EXCEPT !.states = x] = [expect |-> st.expect, states |-> x, root |-> st.root,
                                    refs |-> st.refs, element |-> st.element]
    BY Fields
  <2> QED
    BY <2>1 DEF IsState
<1> QED
  BY <1>1, <1>2, <1>3 DEF Expect, AfterValue, Error, end

\* A value that starts: a scalar or an empty container is handed over.
LEMMA ValueTree ==
    ASSUME NEW st, Ready(st), Tree(st.root), NEW t
    PROVE  Tree(ParseValue(st, t).root)
<1>1. Sound(st) /\ IsState(st)
  BY DEF Ready, Sound
<1>2. ASSUME NEW v, NewNode(v)
      PROVE  Tree(AfterValue(handle_value(st, v)).root)
  <2>1. IsState(handle_value(st, v))
    BY <1>2, ValueHandled DEF Sound
  <2>2. Tree(handle_value(st, v).root)
    BY <1>2, HandledTree
  <2>3. AfterValue(handle_value(st, v)).root = handle_value(st, v).root
    BY <2>1, SameRoot
  <2> QED
    BY <2>2, <2>3
<1>3. Tree(Error(st).root)
  BY <1>1, SameRoot
<1>4. \A x : type(<<"null">>) # "array" /\ type(<<"boolean", x>>) # "array"
             /\ type(<<"string", x>>) # "array" /\ type(<<"integer", x>>) # "array"
             /\ type(<<"unsigned", x>>) # "array" /\ type(<<"float", x>>) # "array"
  BY DEF type
<1>5. \A x : /\ NewNode(Null) /\ NewNode(Bool(x)) /\ NewNode(Str(x)) /\ NewNode(Integer(x))
             /\ NewNode(Unsigned(x)) /\ NewNode(Float(x))
  BY <1>4 DEF NewNode, Null, Bool, Str, Integer, Unsigned, Float
<1>6. Tree(Scalar(st, t).root)
  BY <1>2, <1>3, <1>5 DEF Scalar
<1>7. ASSUME NEW c, NEW e, is_structured(c), NewNode(c)
      PROVE  Tree(Expect(start(st, c), e).root)
  <2>1. IsState(start(st, c))
    BY <1>7, ContainerStarted DEF Sound
  <2>2. IsState(handle_value(st, c))
    BY <1>7, ValueHandled DEF Sound
  <2>3. start(st, c).root = handle_value(st, c).root
    <3> DEFINE h == handle_value(st, c)
    <3>1. start(st, c) = [h EXCEPT !.refs = Append(h.refs, PlaceOf(st))]
      BY DEF start
    <3> HIDE DEF h
    <3>2. start(st, c) = [expect |-> h.expect, states |-> h.states, root |-> h.root,
                          refs |-> Append(h.refs, PlaceOf(st)), element |-> h.element]
      BY <2>2, <3>1, Fields DEF h
    <3> QED
      BY <3>2 DEF h
  <2>4. Tree(start(st, c).root)
    BY <1>7, <2>3, HandledTree
  <2>5. Expect(start(st, c), e).root = start(st, c).root
    BY <2>1, SameRoot
  <2> QED
    BY <2>4, <2>5
<1>8. is_structured(ObjectNode) /\ NewNode(ObjectNode)
      /\ is_structured(ArrayNode(0)) /\ NewNode(ArrayNode(0))
  BY DEF is_structured, NewNode, ObjectNode, ArrayNode, type
<1>9. /\ Tree(Expect(start(st, ObjectNode), "first_key").root)
      /\ Tree(Expect(start(st, ArrayNode(0)), "first_element").root)
  BY <1>7, <1>8
<1> QED
  BY <1>6, <1>9 DEF ParseValue

\* Whatever the token.
LEMMA StepTree ==
    ASSUME NEW st, Inv(st), Tree(st.root), NEW t, IsToken(t)
    PROVE  Tree(Step(st, t).root)
<1>1. Sound(st) /\ IsState(st) /\ (st.expect # "error" => At(st))
  BY DEF Inv, Sound
<1>2. Tree(Error(st).root) /\ Tree(AfterValue(end(st)).root) /\ \A e : Tree(Expect(st, e).root)
  BY <1>1, SameRoot
<1>3. ASSUME st.refs # <<>>, type(st.root[Top(st.refs)]) = "object", t.token = "value_string",
             NEW e
      PROVE  Tree(Expect(key(st, t.v), e).root)
  <2>1. t.v \in Seq(0 .. 255)
    BY <1>3 DEF IsToken
  <2>2. IsState(key(st, t.v))
    BY <1>1, <1>3, <2>1, MemberPrepared DEF Sound
  <2>3. Tree(key(st, t.v).root)
    BY <1>1, <1>3, <2>1, PreparedTree
  <2>4. Expect(key(st, t.v), e).root = key(st, t.v).root
    BY <2>2, SameRoot
  <2> QED
    BY <2>3, <2>4
<1>4. CASE st.expect = "value"
  <2>1. Ready(st) /\ Step(st, t) = ParseValue(st, t)
    BY <1>1, <1>4 DEF At, Step
  <2> QED
    BY <2>1, ValueTree
<1>5. CASE st.expect = "first_key"
  <2>1. Step(st, t) = FirstKey(st, t) /\ type(st.root[Top(st.refs)]) = "object"
        /\ Len(st.refs) = Len(st.states) + 1
    BY <1>1, <1>5 DEF At, Step
  <2>2. st.refs # <<>>
    BY <1>1, <2>1 DEF Sound
  <2> QED
    BY <1>2, <1>3, <2>1, <2>2 DEF FirstKey
<1>6. CASE st.expect = "first_element"
  <2> DEFINE s == [st EXCEPT !.states = Append(@, IsArray)]
  <2>1. Step(st, t) = FirstElement(st, t) /\ type(st.root[Top(st.refs)]) = "array"
        /\ Len(st.refs) = Len(st.states) + 1
    BY <1>1, <1>6 DEF At, Step
  <2>2. st.refs # <<>> /\ IsArray \in BOOLEAN
        /\ IsArray = (type(st.root[Top(st.refs)]) = "array")
    BY <1>1, <2>1 DEF Sound, IsArray
  <2>3. /\ Sound(s) /\ Len(s.refs) = Len(s.states) /\ s.root = st.root /\ s.refs = st.refs
    BY <1>1, <2>1, <2>2, StateEntered
  <2>4. FirstElement(st, t) = IF t.token = "end_array" THEN AfterValue(end(st))
                              ELSE ParseValue(s, t)
    BY DEF FirstElement
  <2> HIDE DEF s
  <2>5. Ready(s) /\ Tree(s.root)
    BY <2>1, <2>2, <2>3 DEF Ready, InArray
  <2>6. Tree(ParseValue(s, t).root)
    BY <2>5, ValueTree
  <2> QED
    BY <1>2, <2>1, <2>4, <2>6
<1>7. CASE st.expect \in {"colon", "first_colon"}
  <2> DEFINE s == [st EXCEPT !.states = Append(@, ~ IsArray)]
  <2>1. Step(st, t) = Colon(st, t)
    BY <1>7 DEF Step
  <2>2. IsState(s) /\ s.root = st.root
    BY <1>1, SameRoot
  <2>3. Colon(st, t) = IF t.token # "name_separator" THEN Error(st)
                       ELSE Expect(IF st.expect = "first_colon" THEN s ELSE st, "value")
    BY DEF Colon
  <2> HIDE DEF s
  <2>4. Tree(Expect(s, "value").root)
    BY <2>2, SameRoot
  <2> QED
    BY <1>2, <2>1, <2>3, <2>4
<1>8. CASE st.expect = "separator"
  <2> DEFINE s == [end(st) EXCEPT !.states = Pop(@)]
             inArray == Top(st.states) = IsArray
  <2>1. Step(st, t) = Separator(st, t)
    BY <1>8 DEF Step
  <2>2. IsState(end(st)) /\ end(st).root = st.root
    BY <1>1, SameRoot
  <2>3. IsState(s) /\ s.root = st.root
    BY <2>2, SameRoot
  <2>4. Separator(st, t) =
          CASE t.token = "value_separator" -> Expect(st, IF inArray THEN "value" ELSE "key")
            [] t.token = (IF inArray THEN "end_array" ELSE "end_object") -> AfterValue(s)
            [] OTHER -> Error(st)
    BY DEF Separator
  <2> HIDE DEF s, inArray
  <2>5. Tree(AfterValue(s).root)
    BY <2>3, SameRoot
  <2> QED
    BY <1>2, <2>1, <2>4, <2>5
<1>9. CASE st.expect = "key"
  <2>1. Step(st, t) = Key(st, t) /\ type(st.root[Top(st.refs)]) = "object" /\ st.refs # <<>>
    BY <1>1, <1>9 DEF At, Step
  <2> QED
    BY <1>2, <1>3, <2>1 DEF Key
<1>10. CASE st.expect = "end"
  BY <1>2, <1>10 DEF Step, End
<1>11. CASE st.expect \notin {"value", "first_key", "first_element", "colon", "first_colon",
                             "separator", "key", "end"}
  BY <1>11 DEF Step
<1> QED
  BY <1>4, <1>5, <1>6, <1>7, <1>8, <1>9, <1>10, <1>11

\* json_sax_dom_parser builds one value, in place, whatever the tokens.
THEOREM ValueIsTree == ParserSpec => []RootIsTree
<1>1. ParserInit => RootIsTree
  <2>1. ParserInit => parser.root = [p \in {<<>>} |-> Null]
    BY DEF ParserInit, Initial
  <2> QED
    BY <2>1 DEF RootIsTree, Tree, Null, type
<1>2. Inv(parser) /\ RootIsTree /\ [ParserNext]_parser => RootIsTree'
  <2> SUFFICES ASSUME Inv(parser), RootIsTree, [ParserNext]_parser PROVE RootIsTree'
    OBVIOUS
  <2>1. CASE ParserNext
    <3>1. PICK t : IsToken(t) /\ parser' = Step(parser, t)
      BY <2>1 DEF ParserNext, Take
    <3>2. Tree(Step(parser, t).root)
      BY <3>1, StepTree DEF RootIsTree
    <3> QED
      BY <3>1, <3>2 DEF RootIsTree
  <2>2. CASE UNCHANGED parser
    BY <2>2 DEF RootIsTree
  <2> QED
    BY <2>1, <2>2
<1> QED
  BY <1>1, <1>2, ParserInvariance, PTL DEF ParserSpec

-----------------------------------------------------------------------------
\* The places where the parser reads a token.
LEMMA Places ==
    ASSUME NEW st, Inv(st), st.expect \notin {"error", "accepted"}
    PROVE  /\ st.expect \in {"value", "first_key", "first_element", "colon", "first_colon",
                             "separator", "key", "end"}
           /\ st.states \in Seq(BOOLEAN) /\ Len(st.states) \in Nat /\ IsState(st)
           /\ st.expect = "separator" => st.states # <<>>
           /\ st.expect = "end" => st.states = <<>>
<1>1. Sound(st) /\ At(st)
  BY DEF Inv
<1>2. st.states \in Seq(BOOLEAN) /\ Len(st.states) \in Nat /\ IsState(st)
  BY <1>1 DEF Sound
<1>3. st.expect \in {"value", "first_key", "first_element", "colon", "first_colon",
                     "separator", "key", "end"}
  BY <1>1 DEF At
<1>4. st.expect = "separator" => st.states # <<>>
  BY <1>1, EmptyTogether DEF At
<1>5. st.expect = "end" => st.states = <<>>
  BY <1>1 DEF At
<1> QED
  BY <1>2, <1>3, <1>4, <1>5

\* After a value that leaves n containers, n of them and the end are missing.
LEMMA MissingAfterValue ==
    ASSUME NEW st, IsState(st), st.states \in Seq(BOOLEAN)
    PROVE  /\ AfterValue(st).expect # "error"
           /\ Missing(AfterValue(st)) = Len(st.states) + 1
<1>1. AfterValue(st) = [expect |-> IF st.states = <<>> THEN "end" ELSE "separator",
                        states |-> st.states, root |-> st.root,
                        refs |-> st.refs, element |-> st.element]
  BY Fields DEF AfterValue
<1>2. AfterValue(st).expect \in {"end", "separator"} /\ AfterValue(st).states = st.states
  BY <1>1
<1> QED
  BY <1>2 DEF Missing

\* The same for a place in the loop.
LEMMA MissingAt ==
    ASSUME NEW st, IsState(st), NEW e
    PROVE  Expect(st, e).expect = e /\ Expect(st, e).states = st.states
<1>1. Expect(st, e) = [expect |-> e, states |-> st.states, root |-> st.root,
                       refs |-> st.refs, element |-> st.element]
  BY Fields DEF Expect
<1> QED
  BY <1>1

\* The token brings the end closer, wherever the parser is.
LEMMA EndingShrinks ==
    ASSUME NEW st, Inv(st), st.expect \notin {"error", "accepted"}
    PROVE  Shrinks(st, Step(st, Ending(st)))
<1> DEFINE t == Ending(st)
           s == Step(st, t)
           n == Len(st.states)
<1>0. /\ st.expect \in {"value", "first_key", "first_element", "colon", "first_colon",
                        "separator", "key", "end"}
      /\ st.states \in Seq(BOOLEAN) /\ n \in Nat /\ IsState(st)
      /\ st.expect = "separator" => st.states # <<>>
      /\ st.expect = "end" => st.states = <<>>
  BY Places
<1>1. CASE st.expect = "value"
  <2>1. t.token = "literal_null"
    BY <1>1 DEF Ending
  <2> HIDE DEF t
  <2>2. s = AfterValue(handle_value(st, Null))
    BY <1>1, <2>1 DEF Step, ParseValue, Scalar
  <2>3. IsState(handle_value(st, Null)) /\ handle_value(st, Null).states = st.states
    BY <1>0, Fields DEF handle_value, IsState
  <2>4. Missing(st) = n + 2
    BY <1>1 DEF Missing
  <2> QED
    BY <1>0, <2>2, <2>3, <2>4, MissingAfterValue DEF Shrinks, t
<1>2. CASE st.expect \in {"first_key", "first_element"}
  <2>1. t.token = IF st.expect = "first_key" THEN "end_object" ELSE "end_array"
    BY <1>2 DEF Ending
  <2> HIDE DEF t
  <2>2. s = AfterValue(end(st))
    BY <1>2, <2>1 DEF Step, FirstKey, FirstElement
  <2>3. IsState(end(st)) /\ end(st).states = st.states
    BY <1>0, Ended DEF IsState
  <2>4. Missing(st) = n + 2
    BY <1>2 DEF Missing
  <2> QED
    BY <1>0, <2>2, <2>3, <2>4, MissingAfterValue DEF Shrinks, t
<1>3. CASE st.expect \in {"colon", "first_colon"}
  <2>1. t.token = "name_separator"
    BY <1>3 DEF Ending
  <2> HIDE DEF t
  <2> DEFINE u == IF st.expect = "first_colon" THEN [st EXCEPT !.states = Append(@, ~ IsArray)]
                  ELSE st
  <2>2. s = Expect(u, "value")
    BY <1>3, <2>1 DEF Step, Colon
  <2>3. IsState(u) /\ Len(u.states) = IF st.expect = "first_colon" THEN n + 1 ELSE n
    <3>1. CASE st.expect = "first_colon"
      <4>1. u = [st EXCEPT !.states = Append(st.states, ~ IsArray)]
        BY <3>1
      <4>2. u = [expect |-> st.expect, states |-> Append(st.states, ~ IsArray), root |-> st.root,
                 refs |-> st.refs, element |-> st.element]
        BY <1>0, <4>1, Fields
      <4>3. Len(Append(st.states, ~ IsArray)) = n + 1
        BY <1>0 DEF IsArray
      <4> QED
        BY <3>1, <4>2, <4>3 DEF IsState
    <3>2. CASE st.expect # "first_colon"
      BY <1>0, <3>2
    <3> QED
      BY <3>1, <3>2
  <2> HIDE DEF u
  <2>4. s.expect = "value" /\ s.states = u.states
    BY <2>2, <2>3, MissingAt
  <2>5. Missing(s) = Len(u.states) + 2
    BY <2>4 DEF Missing
  <2>6. Missing(st) = IF st.expect = "first_colon" THEN n + 4 ELSE n + 3
    BY <1>3 DEF Missing
  <2> QED
    BY <1>0, <2>3, <2>4, <2>5, <2>6 DEF Shrinks, t
<1>4. CASE st.expect = "separator"
  <2>1. t.token = IF Top(st.states) = IsArray THEN "end_array" ELSE "end_object"
    BY <1>4 DEF Ending
  <2> HIDE DEF t
  <2> DEFINE u == [end(st) EXCEPT !.states = Pop(@)]
  <2>2. s = AfterValue(u)
    BY <1>4, <2>1 DEF Step, Separator
  <2>3. u = [expect |-> st.expect, states |-> Pop(st.states), root |-> st.root,
             refs |-> Pop(st.refs), element |-> st.element]
    BY <1>0, Ended
  <2>4. Pop(st.states) \in Seq(BOOLEAN) /\ Len(Pop(st.states)) = n - 1
    BY <1>0, <1>4, Popped
  <2>5. IsState(u) /\ u.states = Pop(st.states)
    BY <2>3 DEF IsState
  <2> HIDE DEF u
  <2>6. Missing(st) = n + 1
    BY <1>4 DEF Missing
  <2>7. s.expect # "error" /\ Missing(s) = Len(u.states) + 1
    BY <2>2, <2>4, <2>5, MissingAfterValue
  <2> QED
    BY <1>0, <2>4, <2>5, <2>6, <2>7 DEF Shrinks, t
<1>5. CASE st.expect = "key"
  <2>1. t.token = "value_string" /\ t.v \in Seq(0 .. 255)
    BY <1>5 DEF Ending
  <2> HIDE DEF t
  <2>2. s = Expect(key(st, t.v), "colon")
    BY <1>5, <2>1 DEF Step, Key
  <2>3. IsState(key(st, t.v)) /\ key(st, t.v).states = st.states
    <3>1. Sound(st) /\ st.refs # <<>> /\ type(st.root[Top(st.refs)]) = "object"
      BY <1>5 DEF Inv, At
    <3> QED
      BY <2>1, <3>1, MemberPrepared DEF Sound
  <2>4. s.expect = "colon" /\ s.states = st.states
    BY <2>2, <2>3, MissingAt
  <2>5. Missing(s) = n + 3 /\ Missing(st) = n + 4
    BY <1>5, <2>4 DEF Missing
  <2> QED
    BY <1>0, <2>4, <2>5 DEF Shrinks, t
<1>6. CASE st.expect = "end"
  <2>1. t.token = "end_of_input"
    BY <1>6 DEF Ending
  <2> HIDE DEF t
  <2>2. s = Expect(st, "accepted")
    BY <1>6, <2>1 DEF Step, End
  <2>3. s.expect = "accepted"
    BY <1>0, <2>2, MissingAt
  <2>4. Missing(s) = 0 /\ Missing(st) = n + 1 /\ n = 0
    BY <1>0, <1>6, <2>3 DEF Missing
  <2> QED
    BY <2>3, <2>4 DEF Shrinks, t
<1> QED
  BY <1>0, <1>1, <1>2, <1>3, <1>4, <1>5, <1>6

\* The parser rejects a text no later than it has to: whatever tokens it has taken
\* without an error, some further ones make it accept.
THEOREM NeverWaitsInVain == ParserSpec => []SomeEndIsAccepted
<1>1. Inv(parser) => SomeEndIsAccepted
  BY EndingShrinks DEF SomeEndIsAccepted
<1> QED
  BY <1>1, ParserInvariance, PTL

-----------------------------------------------------------------------------
(***************************************************************************)
(* Numbers, for every sequence of characters: scan_number stops with       *)
(* exactly the numbers of the grammar (NumbersAreRead).  The inductive     *)
(* invariant NumInv says what has been read at each of its labels.         *)
(***************************************************************************)

\* What get returns, the labels of scan_number, and those a number may end at.
Chars == {EOF} \cup 0 .. 255
Labels == {"init", "minus", "zero", "any1", "decimal1", "decimal2", "exponent", "sign", "any2",
           "done", "error"}
Accepting == {"zero", "any1", "decimal2", "any2"}

\* What the characters read so far look like at each label.
ShapeAt(label, s) ==
    LET n == Len(s)
        b == SignLen(s)
    IN  /\ label = "init" => n = 0
        /\ label = "minus" => n = 1 /\ s[1] = Minus
        /\ label = "zero" => n = b + 1 /\ s[n] = Digit0
        /\ label = "any1" => IsInt(s, b, n) /\ s[b + 1] # Digit0
        /\ label = "decimal1" => n > 0 /\ IsInt(s, b, n - 1) /\ s[n] = Point
        /\ label = "decimal2" =>
             \E i \in 0 .. n : IsInt(s, b, i) /\ i + 2 <= n /\ s[i + 1] = Point /\ Digits(s, i + 2, n)
        /\ label = "exponent" =>
             \E i, j \in 0 .. n : /\ i <= j /\ IsInt(s, b, i) /\ IsFrac(s, i, j)
                                  /\ n = j + 1 /\ IsExponent(s[n])
        /\ label = "sign" =>
             \E i, j \in 0 .. n : /\ i <= j /\ IsInt(s, b, i) /\ IsFrac(s, i, j)
                                  /\ n = j + 2 /\ IsExponent(s[j + 1]) /\ s[n] \in {Plus, Minus}
        /\ label = "any2" =>
             \E i, j \in 0 .. n : /\ i <= j /\ IsInt(s, b, i) /\ IsFrac(s, i, j)
                                  /\ j < n /\ IsExp(s, j, n)

\* The labels up to the decimal point one by one, and where the loop has stopped.
LEMMA ShapeOf ==
    ASSUME NEW s
    PROVE  /\ ShapeAt("init", s) <=> Len(s) = 0
           /\ ShapeAt("minus", s) <=> Len(s) = 1 /\ s[1] = Minus
           /\ ShapeAt("zero", s) <=> Len(s) = SignLen(s) + 1 /\ s[Len(s)] = Digit0
           /\ ShapeAt("any1", s) <=>
                 IsInt(s, SignLen(s), Len(s)) /\ s[SignLen(s) + 1] # Digit0
           /\ ShapeAt("decimal1", s) <=>
                 Len(s) > 0 /\ IsInt(s, SignLen(s), Len(s) - 1) /\ s[Len(s)] = Point
           /\ ShapeAt("done", s) /\ ShapeAt("error", s)
<1>1. ShapeAt("init", s) <=> Len(s) = 0
  BY Zenon DEF ShapeAt
<1>2. ShapeAt("minus", s) <=> Len(s) = 1 /\ s[1] = Minus
  BY Zenon DEF ShapeAt
<1>3. ShapeAt("zero", s) <=> Len(s) = SignLen(s) + 1 /\ s[Len(s)] = Digit0
  BY Zenon DEF ShapeAt
<1>4. ShapeAt("any1", s) <=> IsInt(s, SignLen(s), Len(s)) /\ s[SignLen(s) + 1] # Digit0
  BY Zenon DEF ShapeAt
<1>5. ShapeAt("decimal1", s) <=>
        Len(s) > 0 /\ IsInt(s, SignLen(s), Len(s) - 1) /\ s[Len(s)] = Point
  BY Zenon DEF ShapeAt
<1>6. ShapeAt("done", s) /\ ShapeAt("error", s)
  BY Zenon DEF ShapeAt
<1> QED
  BY <1>1, <1>2, <1>3, <1>4, <1>5, <1>6, Zenon

\* The grammar is read where the label accepts.
LEMMA ShapeAccepts ==
    ASSUME NEW s \in Seq(Chars), NEW label \in Accepting, ShapeAt(label, s)
    PROVE  IsNumber(s)
<1> DEFINE n == Len(s)
           b == SignLen(s)
<1>0. n \in Nat /\ b \in {0, 1}
  BY DEF SignLen
<1>1. CASE label = "zero"
  <2>1. n = b + 1 /\ s[n] = Digit0
    BY <1>1 DEF ShapeAt
  <2>2. IsInt(s, b, n)
    BY <1>0, <2>1 DEF IsInt, Digits, Digit, Digit0
  <2>3. IsFrac(s, n, n) /\ IsExp(s, n, n) /\ n \in 0 .. n /\ n <= n
    BY <1>0 DEF IsFrac, IsExp
  <2> QED
    BY <2>2, <2>3, Zenon DEF IsNumber
<1>2. CASE label = "any1"
  <2>1. IsInt(s, b, n)
    BY <1>2 DEF ShapeAt
  <2>2. IsFrac(s, n, n) /\ IsExp(s, n, n) /\ n \in 0 .. n /\ n <= n
    BY <1>0 DEF IsFrac, IsExp
  <2> QED
    BY <2>1, <2>2, Zenon DEF IsNumber
<1>3. CASE label = "decimal2"
  <2>1. PICK i \in 0 .. n : IsInt(s, b, i) /\ i + 2 <= n /\ s[i + 1] = Point /\ Digits(s, i + 2, n)
    BY <1>3 DEF ShapeAt
  <2>2. IsFrac(s, i, n) /\ IsExp(s, n, n) /\ n \in 0 .. n /\ i <= n
    BY <1>0, <2>1 DEF IsFrac, IsExp
  <2> QED
    BY <2>1, <2>2, Zenon DEF IsNumber
<1>4. CASE label = "any2"
  BY <1>4 DEF ShapeAt, IsNumber
<1> QED
  BY <1>1, <1>2, <1>3, <1>4 DEF Accepting

\* A number ends with a digit.
LEMMA LastIsDigit ==
    ASSUME NEW s \in Seq(Chars), IsNumber(s)
    PROVE  s # <<>> /\ s[Len(s)] \in Digit
<1> DEFINE n == Len(s)
           b == SignLen(s)
<1>0. n \in Nat /\ b \in {0, 1}
  BY DEF SignLen
<1>1. PICK i \in 0 .. n, j \in 0 .. n :
        i <= j /\ IsInt(s, b, i) /\ IsFrac(s, i, j) /\ IsExp(s, j, n)
  BY DEF IsNumber
<1>2. i >= 1 /\ s[i] \in Digit
  BY <1>0, <1>1 DEF IsInt, Digits
<1>3. j >= 1 /\ s[j] \in Digit
  BY <1>0, <1>1, <1>2 DEF IsFrac, Digits
<1>4. n >= 1 /\ s[n] \in Digit
  BY <1>0, <1>1, <1>3 DEF IsExp, Digits
<1>5. s # <<>>
  BY <1>4
<1> QED
  BY <1>4, <1>5

\* The empty text and one that ends with another character are no numbers.
LEMMA NoDigitNoNumber ==
    ASSUME NEW s \in Seq(Chars), s = <<>> \/ s[Len(s)] \notin Digit
    PROVE  ~ IsNumber(s)
  BY LastIsDigit

\* Reading one more character keeps the ones before, and the sign.
LEMMA ReadOneMore ==
    ASSUME NEW s \in Seq(Chars), NEW c \in Chars
    PROVE  LET t == Append(s, c)
           IN  /\ t \in Seq(Chars) /\ Len(t) = Len(s) + 1 /\ t[Len(s) + 1] = c
               /\ \A k \in 1 .. Len(s) : t[k] = s[k]
               /\ Pop(t) = s
               /\ s # <<>> => SignLen(t) = SignLen(s)
               /\ s = <<>> => SignLen(t) = IF c = Minus THEN 1 ELSE 0
<1> DEFINE t == Append(s, c)
<1>1. t \in Seq(Chars) /\ Len(t) = Len(s) + 1 /\ t[Len(s) + 1] = c /\ Len(s) \in Nat
  OBVIOUS
<1>2. \A k \in 1 .. Len(s) : t[k] = s[k]
  OBVIOUS
<1>3. Pop(t) = s
  BY Pushed
<1>4. t # <<>>
  BY <1>1
<1>5. s # <<>> => t[1] = s[1]
  <2>1. s # <<>> => Len(s) # 0
    BY EmptySeq
  <2> QED
    BY <1>1, <1>2, <2>1
<1>6. s = <<>> => t[1] = c
  BY <1>1
<1>7. s # <<>> => SignLen(t) = SignLen(s)
  BY <1>4, <1>5 DEF SignLen
<1>8. s = <<>> => SignLen(t) = IF c = Minus THEN 1 ELSE 0
  BY <1>4, <1>6 DEF SignLen
<1> HIDE DEF t
<1>9. /\ t \in Seq(Chars) /\ Len(t) = Len(s) + 1 /\ t[Len(s) + 1] = c
      /\ \A k \in 1 .. Len(s) : t[k] = s[k]
      /\ Pop(t) = s
      /\ s # <<>> => SignLen(t) = SignLen(s)
      /\ s = <<>> => SignLen(t) = IF c = Minus THEN 1 ELSE 0
  BY <1>1, <1>2, <1>3, <1>7, <1>8
<1> QED
  BY <1>9 DEF t

\* The parts that were read stay what they are.
LEMMA PartsStay ==
    ASSUME NEW s \in Seq(Chars), NEW t \in Seq(Chars), Len(t) >= Len(s),
           \A k \in 1 .. Len(s) : t[k] = s[k],
           NEW b \in {0, 1}, NEW i \in 0 .. Len(s), NEW j \in 0 .. Len(s), i <= j
    PROVE  /\ IsInt(s, b, i) => IsInt(t, b, i)
           /\ IsFrac(s, i, j) => IsFrac(t, i, j)
<1>0. Len(s) \in Nat
  OBVIOUS
<1>1. ASSUME IsInt(s, b, i) PROVE IsInt(t, b, i)
  BY <1>0, <1>1 DEF IsInt, Digits
<1>2. ASSUME IsFrac(s, i, j) PROVE IsFrac(t, i, j)
  BY <1>0, <1>2 DEF IsFrac, Digits
<1> QED
  BY <1>1, <1>2

\* The labels where a number may not end have read no digit last.
LEMMA OpenEnds ==
    ASSUME NEW s \in Seq(Chars), NEW label \in Labels \ (Accepting \cup Stopped), ShapeAt(label, s)
    PROVE  ~ IsNumber(s)
<1>1. Minus \notin Digit /\ Plus \notin Digit /\ Point \notin Digit
  BY DEF Minus, Plus, Point, Digit
<1>2. \A c \in Chars : IsExponent(c) => c \notin Digit
  BY DEF IsExponent, Digit, Chars
<1>3. CASE label = "init"
  <2>1. s = <<>>
    BY <1>3, EmptySeq DEF ShapeAt
  <2> QED
    BY <2>1, NoDigitNoNumber, Zenon
<1>4. CASE label = "minus"
  BY <1>1, <1>4, NoDigitNoNumber DEF ShapeAt
<1>5. CASE label = "decimal1"
  BY <1>1, <1>5, NoDigitNoNumber DEF ShapeAt
<1>6. CASE label = "exponent"
  <2>1. Len(s) > 0 /\ IsExponent(s[Len(s)])
    BY <1>6 DEF ShapeAt
  <2>2. s[Len(s)] \in Chars
    BY <2>1
  <2> QED
    BY <1>2, <2>1, <2>2, NoDigitNoNumber
<1>7. CASE label = "sign"
  <2>1. s[Len(s)] \in {Plus, Minus}
    BY <1>7 DEF ShapeAt
  <2> QED
    BY <1>1, <2>1, NoDigitNoNumber
<1> QED
  BY <1>3, <1>4, <1>5, <1>6, <1>7, Zenon DEF Labels, Accepting, Stopped

\* A character that is read after s, and what the parts before it become.
Next1(s, t, c) ==
    /\ s \in Seq(Chars) /\ t \in Seq(Chars) /\ c \in Chars
    /\ Len(t) = Len(s) + 1 /\ t[Len(s) + 1] = c
    /\ \A k \in 1 .. Len(s) : t[k] = s[k]
    /\ s # <<>> => SignLen(t) = SignLen(s)
    /\ s = <<>> => SignLen(t) = IF c = Minus THEN 1 ELSE 0

\* The labels before the integer, and its first digit.
LEMMA IntegerBegins ==
    ASSUME NEW s, NEW t, NEW c, Next1(s, t, c), NEW label \in {"init", "minus"}, ShapeAt(label, s)
    PROVE  LET l == NumberStep(label, c)
           IN  l \in {"minus", "zero", "any1", "error"} /\ ShapeAt(l, t)
<1> DEFINE l == NumberStep(label, c)
<1>0. s \in Seq(Chars) /\ t \in Seq(Chars) /\ Len(s) \in Nat
  BY DEF Next1
<1>1. CASE label = "init"
  <2>1. Len(s) = 0
    BY <1>1, ShapeOf
  <2>2. s = <<>>
    BY <1>0, <2>1, EmptySeq
  <2>3. Len(t) = 1 /\ t[1] = c /\ SignLen(t) = IF c = Minus THEN 1 ELSE 0
    BY <2>1, <2>2 DEF Next1
  <2>4. l = IF c = Minus THEN "minus" ELSE IF c = Digit0 THEN "zero"
            ELSE IF c \in Digit THEN "any1" ELSE "error"
    BY <1>1 DEF NumberStep, IntegerStep
  <2>5. CASE c = Minus
    BY <2>3, <2>4, <2>5, ShapeOf
  <2>6. CASE c # Minus /\ c = Digit0
    BY <2>3, <2>4, <2>6, ShapeOf
  <2>7. CASE c # Minus /\ c # Digit0 /\ c \in Digit
    <3>1. IsInt(t, 0, 1)
      BY <2>3, <2>7 DEF IsInt, Digits
    <3> QED
      BY <2>3, <2>4, <2>7, <3>1, ShapeOf
  <2>8. CASE c # Minus /\ c # Digit0 /\ c \notin Digit
    BY <2>4, <2>8, ShapeOf
  <2> QED
    BY <2>5, <2>6, <2>7, <2>8
<1>2. CASE label = "minus"
  <2>1. Len(s) = 1 /\ s[1] = Minus
    BY <1>2, ShapeOf
  <2>2. s # <<>>
    BY <2>1
  <2>3. Len(t) = 2 /\ t[1] = Minus /\ t[2] = c /\ SignLen(t) = 1
    BY <1>0, <2>1, <2>2 DEF Next1, SignLen
  <2>4. l = IF c = Digit0 THEN "zero" ELSE IF c \in Digit THEN "any1" ELSE "error"
    BY <1>2 DEF NumberStep, IntegerStep
  <2>6. CASE c = Digit0
    BY <2>3, <2>4, <2>6, ShapeOf
  <2>7. CASE c # Digit0 /\ c \in Digit
    <3>1. IsInt(t, 1, 2)
      BY <2>3, <2>7 DEF IsInt, Digits
    <3> QED
      BY <2>3, <2>4, <2>7, <3>1, ShapeOf
  <2>8. CASE c # Digit0 /\ c \notin Digit
    BY <2>4, <2>8, ShapeOf
  <2> QED
    BY <2>6, <2>7, <2>8
<1> QED
  BY <1>1, <1>2

\* The integer goes on, or it is over.
LEMMA IntegerGoesOn ==
    ASSUME NEW s, NEW t, NEW c, Next1(s, t, c), NEW label \in {"zero", "any1"}, ShapeAt(label, s)
    PROVE  LET l == NumberStep(label, c)
           IN  l \in {"any1", "decimal1", "exponent", "done"} /\ ShapeAt(l, t)
<1> DEFINE l == NumberStep(label, c)
           n == Len(s)
           b == SignLen(s)
<1>0. s \in Seq(Chars) /\ t \in Seq(Chars) /\ n \in Nat /\ b \in {0, 1} /\ Len(t) = n + 1
  BY DEF Next1, SignLen
<1>1. l = IF label = "any1" /\ c \in Digit THEN "any1" ELSE IF c = Point THEN "decimal1"
          ELSE IF IsExponent(c) THEN "exponent" ELSE "done"
  BY DEF NumberStep, IntegerStep
<1>2. IsInt(s, b, n) /\ n > 0
  <2>1. CASE label = "zero"
    BY <1>0, <2>1, ShapeOf DEF IsInt, Digits, Digit, Digit0
  <2>2. CASE label = "any1"
    BY <1>0, <2>2, ShapeOf DEF IsInt
  <2> QED
    BY <2>1, <2>2
<1>3. s # <<>>
  BY <1>2
<1>4. SignLen(t) = b /\ t[n + 1] = c
  BY <1>3 DEF Next1
<1>5. IsInt(t, b, n)
  BY <1>0, <1>2, PartsStay DEF Next1
<1>6. CASE label = "any1" /\ c \in Digit
  <2>1. s[b + 1] # Digit0
    BY <1>6 DEF ShapeAt
  <2>2. t[b + 1] # Digit0
    BY <1>0, <1>2, <2>1 DEF Next1, IsInt
  <2>3. IsInt(t, b, n + 1)
    BY <1>0, <1>4, <1>5, <1>6, <2>2 DEF IsInt, Digits
  <2> QED
    BY <1>0, <1>1, <1>4, <1>6, <2>2, <2>3 DEF ShapeAt
<1>7. CASE ~ (label = "any1" /\ c \in Digit) /\ c = Point
  <2>1. l = "decimal1" /\ Len(t) > 0 /\ Len(t) - 1 = n
    BY <1>0, <1>1, <1>7
  <2> QED
    BY <1>0, <1>4, <1>5, <1>7, <2>1 DEF ShapeAt
<1>8. CASE ~ (label = "any1" /\ c \in Digit) /\ c # Point /\ IsExponent(c)
  <2>1. l = "exponent"
    BY <1>1, <1>8
  <2>2. n \in 0 .. Len(t) /\ n <= n /\ IsFrac(t, n, n) /\ Len(t) = n + 1
    BY <1>0 DEF IsFrac
  <2>3. IsExponent(t[Len(t)])
    BY <1>4, <1>8, <2>2
  <2> QED
    BY <1>4, <1>5, <2>1, <2>2, <2>3 DEF ShapeAt
<1>9. CASE ~ (label = "any1" /\ c \in Digit) /\ c # Point /\ ~ IsExponent(c)
  BY <1>1, <1>9 DEF ShapeAt
<1> QED
  BY <1>6, <1>7, <1>8, <1>9

\* The digits after the decimal point.
LEMMA FractionGoesOn ==
    ASSUME NEW s, NEW t, NEW c, Next1(s, t, c), NEW label \in {"decimal1", "decimal2"},
           ShapeAt(label, s)
    PROVE  LET l == NumberStep(label, c)
           IN  /\ l \in {"decimal2", "exponent", "done", "error"} /\ ShapeAt(l, t)
               /\ l = "done" => label = "decimal2" /\ c \notin Digit
               /\ l = "error" => label = "decimal1"
<1> DEFINE l == NumberStep(label, c)
           n == Len(s)
           b == SignLen(s)
<1>0. s \in Seq(Chars) /\ t \in Seq(Chars) /\ n \in Nat /\ b \in {0, 1} /\ Len(t) = n + 1
  BY DEF Next1, SignLen
<1>1. l = IF c \in Digit THEN "decimal2" ELSE IF label = "decimal1" THEN "error"
          ELSE IF IsExponent(c) THEN "exponent" ELSE "done"
  <2>1. CASE label = "decimal1"
    BY <2>1 DEF NumberStep, FractionStep
  <2>2. CASE label = "decimal2"
    BY <2>2 DEF NumberStep, FractionStep
  <2> QED
    BY <2>1, <2>2
<1>2. PICK i \in 0 .. n : IsInt(s, b, i) /\ i < n /\ s[i + 1] = Point /\ Digits(s, i + 2, n)
                          /\ (label = "decimal2" => i + 2 <= n)
  <2>1. CASE label = "decimal1"
    <3>1. n > 0 /\ IsInt(s, b, n - 1) /\ s[n] = Point
      BY <2>1 DEF ShapeAt
    <3>2. n - 1 \in 0 .. n /\ n - 1 < n /\ s[(n - 1) + 1] = Point /\ Digits(s, (n - 1) + 2, n)
      BY <1>0, <3>1 DEF Digits
    <3> QED
      BY <2>1, <3>1, <3>2
  <2>2. CASE label = "decimal2"
    BY <1>0, <2>2 DEF ShapeAt
  <2> QED
    BY <2>1, <2>2
<1>3. s # <<>>
  BY <1>0, <1>2
<1>4. SignLen(t) = b /\ t[n + 1] = c /\ \A k \in 1 .. n : t[k] = s[k]
  BY <1>3 DEF Next1
<1>5. IsInt(t, b, i)
  BY <1>0, <1>2, <1>4, PartsStay
<1>6. t[i + 1] = Point /\ Digits(t, i + 2, n)
  BY <1>0, <1>2, <1>4 DEF Digits
<1>7. CASE c \in Digit
  <2>1. i \in 0 .. Len(t) /\ i + 2 <= Len(t) /\ Digits(t, i + 2, Len(t))
    BY <1>0, <1>2, <1>4, <1>6, <1>7 DEF Digits
  <2> QED
    BY <1>1, <1>4, <1>5, <1>6, <1>7, <2>1 DEF ShapeAt
<1>8. CASE c \notin Digit /\ label # "decimal1" /\ IsExponent(c)
  <2>1. l = "exponent"
    BY <1>1, <1>8
  <2>2. i \in 0 .. Len(t) /\ n \in 0 .. Len(t) /\ i <= n /\ IsFrac(t, i, n) /\ Len(t) = n + 1
    BY <1>0, <1>2, <1>6, <1>8 DEF IsFrac
  <2>3. IsExponent(t[Len(t)])
    BY <1>4, <1>8, <2>2
  <2>4. \E i1, j \in 0 .. Len(t) : /\ i1 <= j /\ IsInt(t, b, i1) /\ IsFrac(t, i1, j)
                                   /\ Len(t) = j + 1 /\ IsExponent(t[Len(t)])
    BY <1>5, <2>2, <2>3
  <2> QED
    BY <1>4, <2>1, <2>4 DEF ShapeAt
<1>9. CASE c \notin Digit /\ (label = "decimal1" \/ ~ IsExponent(c))
  BY <1>1, <1>9 DEF ShapeAt
<1> QED
  BY <1>7, <1>8, <1>9

\* Digits up to the end of s are digits up to the end of t.
LEMMA DigitsGrow ==
    ASSUME NEW s, NEW t, NEW c \in Digit, Next1(s, t, c), NEW a \in Nat \ {0}, Digits(s, a, Len(s))
    PROVE  Digits(t, a, Len(t))
<1> DEFINE n == Len(s)
<1>1. n \in Nat /\ Len(t) = n + 1 /\ t[n + 1] \in Digit /\ \A k \in 1 .. n : t[k] = s[k]
  BY DEF Next1
<1>2. ASSUME NEW k \in a .. n PROVE t[k] \in Digit
  <2>1. k \in 1 .. n
    BY <1>1
  <2>2. s[k] \in Digit
    BY DEF Digits
  <2> QED
    BY <1>1, <2>1, <2>2, Zenon
<1> HIDE DEF n
<1>3. \A k \in a .. Len(t) : k \in a .. n \/ k = n + 1
  BY <1>1
<1> QED
  BY <1>1, <1>2, <1>3, Zenon DEF Digits

\* The sign and the digits of the exponent.
LEMMA ExponentGoesOn ==
    ASSUME NEW s, NEW t, NEW c, Next1(s, t, c), NEW label \in {"exponent", "sign", "any2"},
           ShapeAt(label, s)
    PROVE  LET l == NumberStep(label, c)
           IN  /\ l \in {"sign", "any2", "done", "error"} /\ ShapeAt(l, t)
               /\ l = "done" => label = "any2" /\ c \notin Digit
               /\ l = "error" => label # "any2"
<1> DEFINE l == NumberStep(label, c)
           n == Len(s)
           b == SignLen(s)
<1>0. s \in Seq(Chars) /\ t \in Seq(Chars) /\ n \in Nat /\ b \in {0, 1} /\ Len(t) = n + 1
  BY DEF Next1, SignLen
<1>1. l = IF label = "exponent" /\ c \in {Plus, Minus} THEN "sign"
          ELSE IF c \in Digit THEN "any2" ELSE IF label = "any2" THEN "done" ELSE "error"
  <2>1. CASE label = "exponent"
    BY <2>1 DEF NumberStep, FractionStep
  <2>2. CASE label = "sign"
    BY <2>2 DEF NumberStep, FractionStep
  <2>3. CASE label = "any2"
    BY <2>3 DEF NumberStep, FractionStep
  <2> QED
    BY <2>1, <2>2, <2>3
<1>2. PICK i \in 0 .. n, j \in 0 .. n :
        /\ i <= j /\ IsInt(s, b, i) /\ IsFrac(s, i, j) /\ j < n
        /\ label = "exponent" => n = j + 1 /\ IsExponent(s[n])
        /\ label = "sign" => n = j + 2 /\ IsExponent(s[j + 1]) /\ s[n] \in {Plus, Minus}
        /\ label = "any2" => IsExp(s, j, n)
  <2>1. CASE label = "exponent"
    <3>1. PICK i, j \in 0 .. n : /\ i <= j /\ IsInt(s, b, i) /\ IsFrac(s, i, j)
                                 /\ n = j + 1 /\ IsExponent(s[n])
      BY <2>1, Zenon DEF ShapeAt
    <3>2. j < n
      BY <1>0, <3>1
    <3> QED
      BY <2>1, <3>1, <3>2, Zenon
  <2>2. CASE label = "sign"
    <3>1. PICK i, j \in 0 .. n : /\ i <= j /\ IsInt(s, b, i) /\ IsFrac(s, i, j)
                                 /\ n = j + 2 /\ IsExponent(s[j + 1]) /\ s[n] \in {Plus, Minus}
      BY <2>2, Zenon DEF ShapeAt
    <3>2. j < n
      BY <1>0, <3>1
    <3> QED
      BY <2>2, <3>1, <3>2, Zenon
  <2>3. CASE label = "any2"
    BY <2>3, Zenon DEF ShapeAt
  <2> QED
    BY <2>1, <2>2, <2>3
<1>3. s # <<>>
  BY <1>0, <1>2
<1>4. SignLen(t) = b /\ t[n + 1] = c /\ \A k \in 1 .. n : t[k] = s[k]
  BY <1>3 DEF Next1
<1>5. /\ i \in 0 .. Len(t) /\ j \in 0 .. Len(t) /\ i <= j /\ j < Len(t)
      /\ IsInt(t, b, i) /\ IsFrac(t, i, j)
  BY <1>0, <1>2, <1>4, PartsStay
<1>6. CASE label = "exponent" /\ c \in {Plus, Minus}
  <2>1. l = "sign"
    BY <1>1, <1>6
  <2>2. Len(t) = j + 2 /\ IsExponent(t[j + 1]) /\ t[Len(t)] \in {Plus, Minus}
    BY <1>0, <1>2, <1>4, <1>6
  <2> QED
    BY <1>4, <1>5, <2>1, <2>2 DEF ShapeAt
<1>7. CASE ~ (label = "exponent" /\ c \in {Plus, Minus}) /\ c \in Digit
  <2>1. l = "any2"
    BY <1>1, <1>7
  <2>2. IsExp(t, j, Len(t))
    <3>1. CASE label = "exponent"
      BY <1>0, <1>2, <1>4, <1>7, <3>1 DEF IsExp, Digits
    <3>2. CASE label = "sign"
      BY <1>0, <1>2, <1>4, <1>7, <3>2 DEF IsExp, Digits
    <3>3. CASE label = "any2"
      <4>1. CASE j + 2 <= n /\ IsExponent(s[j + 1]) /\ Digits(s, j + 2, n)
        <5>1. j + 2 <= Len(t) /\ t[j + 1] = s[j + 1]
          BY <1>0, <1>2, <1>4, <4>1
        <5>2. Digits(t, j + 2, Len(t))
          <6>1. j + 2 \in Nat \ {0}
            BY <1>2
          <6> QED
            BY <1>0, <1>7, <4>1, <6>1, DigitsGrow
        <5> QED
          BY <4>1, <5>1, <5>2 DEF IsExp
      <4>2. CASE /\ j + 3 <= n /\ IsExponent(s[j + 1]) /\ s[j + 2] \in {Plus, Minus}
                 /\ Digits(s, j + 3, n)
        <5>1. j + 3 <= Len(t) /\ t[j + 1] = s[j + 1] /\ t[j + 2] = s[j + 2]
          BY <1>0, <1>2, <1>4, <4>2
        <5>2. Digits(t, j + 3, Len(t))
          <6>1. j + 3 \in Nat \ {0}
            BY <1>2
          <6> QED
            BY <1>0, <1>7, <4>2, <6>1, DigitsGrow
        <5> QED
          BY <4>2, <5>1, <5>2 DEF IsExp
      <4>3. IsExp(s, j, n) /\ j # n
        BY <1>0, <1>2, <3>3
      <4> QED
        BY <4>1, <4>2, <4>3, Zenon DEF IsExp
    <3> QED
      BY <3>1, <3>2, <3>3
  <2> QED
    BY <1>4, <1>5, <2>1, <2>2 DEF ShapeAt
<1>8. CASE ~ (label = "exponent" /\ c \in {Plus, Minus}) /\ c \notin Digit
  BY <1>1, <1>8 DEF ShapeAt
<1> QED
  BY <1>6, <1>7, <1>8

\* A zero is followed by no digit.
LEMMA ZeroStands ==
    ASSUME NEW s, NEW t, NEW c, Next1(s, t, c), ShapeAt("zero", s)
    PROVE  ~ IsNumber(t)
<1> SUFFICES ASSUME IsNumber(t) PROVE FALSE
  OBVIOUS
<1> DEFINE n == Len(s)
           b == SignLen(s)
<1>0. s \in Seq(Chars) /\ t \in Seq(Chars) /\ n \in Nat /\ b \in {0, 1} /\ Len(t) = n + 1
  BY DEF Next1, SignLen
<1>1. n = b + 1 /\ s[n] = Digit0
  BY DEF ShapeAt
<1>2. s # <<>>
  BY <1>0, <1>1
<1>3. SignLen(t) = b /\ t[b + 1] = Digit0
  BY <1>0, <1>1, <1>2 DEF Next1
<1>4. PICK i \in 0 .. Len(t), j \in 0 .. Len(t) :
        i <= j /\ IsInt(t, b, i) /\ IsFrac(t, i, j) /\ IsExp(t, j, Len(t))
  BY <1>3 DEF IsNumber
<1>5. i = n
  BY <1>1, <1>3, <1>4 DEF IsInt
<1>6. j = n
  BY <1>0, <1>4, <1>5 DEF IsFrac
<1> QED
  BY <1>0, <1>4, <1>6 DEF IsExp

\* One more character, at every label where the scanner reads on.
LEMMA NumberStepShape ==
    ASSUME NEW s, NEW t, NEW c, Next1(s, t, c), NEW label \in Labels \ Stopped, ShapeAt(label, s)
    PROVE  LET l == NumberStep(label, c)
           IN  /\ l \in Labels /\ ShapeAt(l, t)
               /\ l \in Stopped => ~ IsNumber(t) /\ (l = "done" <=> label \in Accepting)
<1> DEFINE l == NumberStep(label, c)
<1>0. s \in Seq(Chars) /\ t \in Seq(Chars) /\ Len(s) \in Nat /\ t[Len(t)] = c
  BY DEF Next1
<1>1. c \notin Digit => ~ IsNumber(t)
  BY <1>0, NoDigitNoNumber
<1>2. CASE label \in {"init", "minus"}
  <2>1. l \in {"minus", "zero", "any1", "error"} /\ ShapeAt(l, t)
    BY <1>2, IntegerBegins
  <2>2. l = "error" => c \notin Digit
    BY <1>2 DEF NumberStep, IntegerStep
  <2> QED
    BY <1>1, <1>2, <2>1, <2>2 DEF Labels, Stopped, Accepting
<1>3. CASE label \in {"zero", "any1"}
  <2>1. l \in {"any1", "decimal1", "exponent", "done"} /\ ShapeAt(l, t)
    BY <1>3, IntegerGoesOn
  <2>2. l = "done" => ~ IsNumber(t)
    <3>1. CASE label = "zero"
      BY <1>1, <3>1, ZeroStands
    <3>2. CASE label = "any1"
      <4>1. l = "done" => c \notin Digit
        BY <3>2 DEF NumberStep, IntegerStep
      <4> QED
        BY <1>1, <4>1
    <3> QED
      BY <1>3, <3>1, <3>2
  <2> QED
    BY <1>3, <2>1, <2>2 DEF Labels, Stopped, Accepting
<1>4. CASE label \in {"decimal1", "decimal2"}
  <2>1. /\ l \in {"decimal2", "exponent", "done", "error"} /\ ShapeAt(l, t)
        /\ l = "done" => label = "decimal2" /\ c \notin Digit
        /\ l = "error" => label = "decimal1"
    BY <1>4, FractionGoesOn
  <2>2. l = "error" => c \notin Digit
    BY <1>4 DEF NumberStep, FractionStep
  <2> QED
    BY <1>1, <1>4, <2>1, <2>2 DEF Labels, Stopped, Accepting
<1>5. CASE label \in {"exponent", "sign", "any2"}
  <2>1. /\ l \in {"sign", "any2", "done", "error"} /\ ShapeAt(l, t)
        /\ l = "done" => label = "any2" /\ c \notin Digit
        /\ l = "error" => label # "any2"
    BY <1>5, ExponentGoesOn
  <2>2. l = "error" => c \notin Digit
    BY <1>5 DEF NumberStep, FractionStep
  <2> QED
    BY <1>1, <1>5, <2>1, <2>2 DEF Labels, Stopped, Accepting
<1> QED
  BY <1>2, <1>3, <1>4, <1>5 DEF Labels, Stopped

-----------------------------------------------------------------------------
\* The inductive invariant: the characters have the shape of the label, and at the
\* last label it is known what they and the ones before them are.
NumInv(x) ==
    /\ x = [read |-> x.read, label |-> x.label]
    /\ x.read \in Seq(Chars) /\ x.label \in Labels
    /\ x.label \notin Stopped => ShapeAt(x.label, x.read)
    /\ x.label \in Stopped =>
         ~ IsNumber(x.read) /\ (IsNumber(Pop(x.read)) <=> x.label = "done")

\* The scanner keeps the invariant.
LEMMA NumberReadKeeps ==
    ASSUME NEW x, NumInv(x), NEW c \in Chars
    PROVE  NumInv(NumberRead(x, c))
<1>1. CASE x.label \in Stopped
  BY <1>1 DEF NumberRead
<1>2. CASE x.label \notin Stopped
  <2> DEFINE s == x.read
             t == Append(x.read, c)
             l == NumberStep(x.label, c)
             y == [read |-> t, label |-> l]
  <2>0. NumberRead(x, c) = y
    BY <1>2 DEF NumberRead
  <2>1. s \in Seq(Chars) /\ x.label \in Labels \ Stopped /\ ShapeAt(x.label, s)
    BY <1>2 DEF NumInv
  <2>2. Next1(s, t, c) /\ Pop(t) = s
    BY <2>1, ReadOneMore DEF Next1
  <2> HIDE DEF s, t
  <2>3. /\ l \in Labels /\ ShapeAt(l, t)
        /\ l \in Stopped => ~ IsNumber(t) /\ (l = "done" <=> x.label \in Accepting)
    BY <2>1, <2>2, NumberStepShape
  <2>4. IsNumber(s) <=> x.label \in Accepting
    BY <2>1, ShapeAccepts, OpenEnds DEF Labels
  <2>5. t \in Seq(Chars)
    BY <2>2 DEF Next1
  <2> HIDE DEF l
  <2>6. y.read = t /\ y.label = l
    OBVIOUS
  <2> HIDE DEF y
  <2>7. y = [read |-> y.read, label |-> y.label]
    BY <2>6 DEF y
  <2>8. NumInv(y)
    BY <2>2, <2>3, <2>4, <2>5, <2>6, <2>7 DEF NumInv
  <2> QED
    BY <2>0, <2>8
<1> QED
  BY <1>1, <1>2

\* What the invariant says of the characters read.
LEMMA NumInvSays == ASSUME NumInv(num) PROVE NumbersFollowTheGrammar
<1>1. num.label \in Stopped => num.label \notin Accepting
  BY DEF Stopped, Accepting
<1>2. num.label \notin Stopped => (IsNumber(num.read) <=> num.label \in Accepting)
  BY ShapeAccepts, OpenEnds DEF NumInv
<1> QED
  BY <1>1, <1>2 DEF NumInv, NumbersFollowTheGrammar, Accepting

\* lexer::scan_number reads the numbers of the grammar and no other text, for every
\* sequence of characters.
THEOREM NumbersAreRead == NumSpec => []NumbersFollowTheGrammar
<1>1. NumInit => NumInv(num)
  <2>1. NumInv(NoNumber)
    <3>1. <<>> \in Seq(Chars) /\ Len(<<>>) = 0 /\ "init" \in Labels /\ "init" \notin Stopped
      BY DEF Labels, Stopped
    <3>2. ShapeAt("init", <<>>)
      BY <3>1 DEF ShapeAt
    <3> QED
      BY <3>1, <3>2 DEF NumInv, NoNumber
  <2> QED
    BY <2>1 DEF NumInit
<1>2. NumInv(num) /\ [NumNext]_num => NumInv(num)'
  <2> SUFFICES ASSUME NumInv(num), [NumNext]_num PROVE NumInv(num')
    OBVIOUS
  <2>1. CASE NumNext
    <3>1. PICK c \in Chars : num' = NumberRead(num, c)
      BY <2>1 DEF NumNext, Chars
    <3> QED
      BY <3>1, NumberReadKeeps, Zenon
  <2>2. CASE UNCHANGED num
    BY <2>2, Zenon
  <2> QED
    BY <2>1, <2>2
<1>3. NumInv(num) => NumbersFollowTheGrammar
  BY NumInvSays
<1> QED
  BY <1>1, <1>2, <1>3, PTL DEF NumSpec
=============================================================================
