--------------------------- MODULE EnvelopeProofs ---------------------------
(***************************************************************************)
(* For any set of keys and any collision-free hash: an envelope opens for  *)
(* exactly the users it was sealed for, and opening it takes at most one   *)
(* step more than it has entries.                                          *)
(***************************************************************************)
EXTENDS Envelope, FiniteSetTheorems, TLAPS

\* A set of keys has a size, and only the empty one has size 0.
LEMMA Sizes ==
    ASSUME NEW K \in SUBSET Keys
    PROVE  /\ Cardinality(K) \in Nat
           /\ K = {} => Cardinality(K) = 0
<1>1. IsFiniteSet(K)
  BY FS_Subset, HashAssumption
<1>2. QED
  BY <1>1, FS_CardinalityType, FS_EmptySet

\* The middle of a range lies in it.
LEMMA Middle ==
    ASSUME NEW l \in Int, NEW r \in Int, l <= r
    PROVE  /\ l + (r - l) \div 2 \in Int
           /\ l <= l + (r - l) \div 2 /\ l + (r - l) \div 2 <= r
OBVIOUS

LEMMA InitInv == Init => IInv
<1>1. SUFFICES ASSUME Init
               PROVE  TypeOK
  BY <1>1 DEF Init, IInv, EnvelopeInv, RangeInv, OpensForMembersOnly
<1>2. Size = 0 /\ 0 .. Size - 1 = {}
  BY <1>1, Sizes DEF Init, Size
<1>3. envelope \in [0 .. Size - 1 -> ka]
  BY <1>1, <1>2 DEF Init
<1>4. /\ left \in 0 .. Size /\ right \in -1 .. Size - 1 /\ position \in 0 .. Size
  BY <1>1, <1>2 DEF Init
<1>5. QED
  BY <1>1, <1>3, <1>4 DEF Init, TypeOK

\* The loop invariant: a hash that is too small rules out the entry at left, a
\* hash that is too large the entry at right, because the hashes ascend.
LEMMA ProbeStep == IInv /\ Probe => IInv'
<1>1. SUFFICES ASSUME IInv, Probe
               PROVE  IInv'
  OBVIOUS
<1> DEFINE m == left + (right - left) \div 2
           toFind == Hash[nonce][userKey]
<1>2. /\ Size \in Nat /\ left \in Nat /\ right \in Int /\ left <= right /\ right <= Size - 1
      /\ m \in DOMAIN envelope /\ left <= m /\ m <= right
  <2>1. Size \in Nat /\ left \in 0 .. Size /\ right \in -1 .. Size - 1 /\ left <= right
        /\ DOMAIN envelope = 0 .. Size - 1
    BY <1>1, Sizes DEF IInv, TypeOK, Probe, Size
  <2>2. m \in Int /\ left <= m /\ m <= right
    BY <2>1, Middle
  <2>3. QED
    BY <2>1, <2>2
<1>3. /\ pc = "search" /\ indexed /\ Ascending(envelope, nonce)
      /\ \A i \in DOMAIN envelope : envelope[i] = userKey => left <= i /\ i <= right
      /\ \A i \in DOMAIN envelope : Hash[nonce][envelope[i]] \in Nat /\ envelope[i] \in ka
      /\ toFind \in Nat
  <2>1. /\ pc = "search" /\ indexed /\ Ascending(envelope, nonce)
        /\ \A i \in DOMAIN envelope : envelope[i] = userKey => left <= i /\ i <= right
    BY <1>1 DEF IInv, EnvelopeInv, RangeInv, Probe
  <2>2. \A i \in DOMAIN envelope : envelope[i] \in ka /\ envelope[i] \in Keys
    BY <1>1 DEF IInv, TypeOK
  <2>3. \A k \in Keys : Hash[nonce][k] \in Nat
    BY <1>1, HashAssumption DEF IInv, TypeOK
  <2>4. userKey \in Keys
    BY <1>1 DEF IInv, TypeOK
  <2>5. QED
    BY <2>1, <2>2, <2>3, <2>4
<1>4. UNCHANGED <<ka, indexed, nonce, envelope, userKey, position>>
  BY <1>1 DEF Probe
<1>5. CASE Hash[nonce][envelope[m]] = toFind
  <2>1. pc' = "opened" /\ UNCHANGED <<left, right>>
    BY <1>1, <1>2, <1>3, <1>5 DEF Probe
  <2>2. userKey = envelope[m] /\ userKey \in ka
    <3>1. nonce \in Nonces /\ userKey \in Keys /\ envelope[m] \in Keys /\ envelope[m] \in ka
      BY <1>1, <1>2, <1>3 DEF IInv, TypeOK
    <3>2. QED
      BY <1>5, <3>1, HashAssumption
  <2>3. QED
    BY <1>1, <1>4, <2>1, <2>2 DEF IInv, TypeOK, Size, EnvelopeInv, RangeInv, OpensForMembersOnly
<1>6. CASE Hash[nonce][envelope[m]] < toFind
  <2>1. pc' = "search" /\ left' = left + 1 /\ right' = right
    BY <1>1, <1>2, <1>3, <1>6 DEF Probe
  <2>2. ASSUME NEW i \in DOMAIN envelope, envelope[i] = userKey
        PROVE  left + 1 <= i
    <3>1. i \in Int /\ left <= i /\ (i < m => toFind < Hash[nonce][envelope[m]])
      BY <1>1, <1>2, <1>3, <2>2 DEF Ascending, IInv, TypeOK
    <3>2. i # m
      BY <1>2, <1>3, <1>6, <2>2
    <3>3. QED
      BY <1>2, <1>3, <1>6, <3>1, <3>2
  <2>3. left' \in 0 .. Size
    BY <1>2, <2>1
  <2>4. QED
    BY <1>1, <1>3, <1>4, <2>1, <2>2, <2>3
       DEF IInv, TypeOK, Size, EnvelopeInv, RangeInv, OpensForMembersOnly
<1>7. CASE Hash[nonce][envelope[m]] > toFind
  <2>1. pc' = "search" /\ left' = left /\ right' = right - 1
    BY <1>1, <1>2, <1>3, <1>7 DEF Probe
  <2>2. ASSUME NEW i \in DOMAIN envelope, envelope[i] = userKey
        PROVE  i <= right - 1
    <3>1. i \in Int /\ i <= right /\ (m < i => Hash[nonce][envelope[m]] < toFind)
      BY <1>1, <1>2, <1>3, <2>2 DEF Ascending, IInv, TypeOK
    <3>2. i # m
      BY <1>2, <1>3, <1>7, <2>2
    <3>3. QED
      BY <1>2, <1>3, <1>7, <3>1, <3>2
  <2>3. right' \in -1 .. Size - 1
    BY <1>2, <2>1
  <2>4. QED
    BY <1>1, <1>3, <1>4, <2>1, <2>2, <2>3
       DEF IInv, TypeOK, Size, EnvelopeInv, RangeInv, OpensForMembersOnly
<1>8. QED
  BY <1>2, <1>3, <1>5, <1>6, <1>7

\* Every other step keeps the invariant; a refusal has looked at every entry.
LEMMA OtherSteps ==
    IInv /\ (GenerateEnvelope \/ Open \/ TryNext \/ Refuse \/ Again) => IInv'
<1>1. SUFFICES ASSUME IInv, GenerateEnvelope \/ Open \/ TryNext \/ Refuse \/ Again
               PROVE  IInv'
  OBVIOUS
<1>2. Size \in Nat /\ DOMAIN envelope = 0 .. Size - 1
  BY <1>1, Sizes DEF IInv, TypeOK, Size
<1>3. CASE GenerateEnvelope
  <2>1. PICK K \in SUBSET Keys \ {{}}, n \in Nonces, ix \in BOOLEAN :
            /\ ka' = K /\ indexed' = ix /\ nonce' = n
            /\ envelope' \in {f \in Listings(K) : ix => Ascending(f, n)}
    BY <1>3 DEF GenerateEnvelope
  <2>2. pc = "none" /\ pc' = "sealed" /\ UNCHANGED <<userKey, left, right, position>>
    BY <1>3 DEF GenerateEnvelope
  <2>3. ka = {} /\ Size = 0 /\ left = 0 /\ right = -1 /\ position = 0
    <3>1. ka = {} /\ Size = 0
      BY <1>1, <2>2, Sizes DEF IInv, EnvelopeInv, Size
    <3>2. QED
      BY <1>1, <3>1 DEF IInv, TypeOK
  <2>4. Size' = Cardinality(K) /\ Cardinality(K) \in Nat
    BY <2>1, Sizes DEF Size
  <2>5. envelope' \in [0 .. Size' - 1 -> K] /\ envelope' \in Listings(K)
    BY <2>1, <2>4 DEF Listings
  <2>6. left' \in 0 .. Size' /\ right' \in -1 .. Size' - 1 /\ position' \in 0 .. Size'
    BY <2>2, <2>3, <2>4
  <2>7. TypeOK'
    BY <1>1, <2>1, <2>2, <2>5, <2>6 DEF IInv, TypeOK
  <2>8. QED
    BY <2>1, <2>2, <2>5, <2>7 DEF IInv, EnvelopeInv, RangeInv, OpensForMembersOnly
<1>4. CASE Open
  BY <1>1, <1>2, <1>4 DEF Open, IInv, TypeOK, Size, EnvelopeInv, RangeInv, OpensForMembersOnly
<1>5. CASE TryNext
  BY <1>1, <1>2, <1>5 DEF TryNext, IInv, TypeOK, Size, EnvelopeInv, RangeInv, OpensForMembersOnly
<1>6. CASE Refuse
  <2>1. ASSUME userKey \in ka
        PROVE  FALSE
    <3>1. PICK i \in DOMAIN envelope : envelope[i] = userKey
      BY <1>1, <1>6, <2>1 DEF Refuse, IInv, EnvelopeInv, Listings
    <3>2. QED
      BY <1>1, <1>2, <1>6, <3>1 DEF Refuse, IInv, TypeOK, RangeInv
  <2>2. QED
    BY <1>1, <1>6, <2>1 DEF Refuse, IInv, TypeOK, Size, EnvelopeInv, RangeInv, OpensForMembersOnly
<1>7. CASE Again
  BY <1>1, <1>7 DEF Again, IInv, TypeOK, Size, EnvelopeInv, RangeInv, OpensForMembersOnly
<1>8. QED
  BY <1>1, <1>3, <1>4, <1>5, <1>6, <1>7

\* The inductive invariant of the two loops.
THEOREM EnvelopeInvariance == Spec => []IInv
<1>1. IInv /\ UNCHANGED vars => IInv'
  BY DEF vars, IInv, TypeOK, Size, EnvelopeInv, RangeInv, OpensForMembersOnly
<1>2. IInv /\ [Next]_vars => IInv'
  BY <1>1, ProbeStep, OtherSteps DEF Next, Step
<1>3. QED
  BY <1>2, InitInv, PTL DEF Spec

\* Envelope.open and IndexedEnvelope.open give the key of the bucket to exactly
\* the users whose key generate_envelope was given, for groups of any size.
THEOREM MembersOnly == Spec => []OpensForMembersOnly
<1>1. IInv => OpensForMembersOnly
  BY DEF IInv
<1>2. QED
  BY <1>1, EnvelopeInvariance, PTL

-----------------------------------------------------------------------------
\* The bounds of the search start at the ends and are moved only while they have
\* not passed each other.
LEMMA BoundsKeep ==
    /\ Init => BoundsMeet
    /\ IInv /\ BoundsMeet /\ [Next]_vars => BoundsMeet'
<1>1. Init => BoundsMeet
  BY DEF Init, BoundsMeet
<1>2. ASSUME IInv, BoundsMeet, [Next]_vars PROVE BoundsMeet'
  <2>1. Size \in Nat /\ left \in Int /\ right \in Int
    <3>1. Size \in Nat
      BY <1>2, Sizes DEF IInv, TypeOK, Size
    <3> QED
      BY <1>2, <3>1 DEF IInv, TypeOK
  <2>2. CASE Probe
    <3>1. left <= right /\ \/ pc' = "opened"
                           \/ left' = left + 1 /\ right' = right
                           \/ left' = left /\ right' = right - 1
      BY <2>2 DEF Probe
    <3> QED
      BY <2>1, <3>1 DEF BoundsMeet
  <2>3. CASE Open
    BY <2>1, <2>3 DEF Open, BoundsMeet
  <2>4. CASE GenerateEnvelope \/ TryNext \/ Refuse \/ Again
    BY <2>4 DEF GenerateEnvelope, TryNext, Refuse, Again, BoundsMeet
  <2>5. CASE UNCHANGED vars
    BY <1>2, <2>5 DEF vars, BoundsMeet
  <2> QED
    BY <1>2, <2>2, <2>3, <2>4, <2>5 DEF Next, Step
<1> QED
  BY <1>1, <1>2

\* Neither loop of open runs for ever, nor reads beyond the entries, however many
\* there are: OpenNarrows.
THEOREM OpenIsBounded == Spec => OpenNarrows
<1>1. ASSUME IInv, BoundsMeet PROVE Unread \in 0 .. Size
  <2>1. Size \in Nat
    BY <1>1, Sizes DEF IInv, TypeOK, Size
  <2> QED
    BY <1>1, <2>1 DEF IInv, TypeOK, BoundsMeet, Unread
<1>2. ASSUME IInv, Step PROVE Unread' < Unread \/ pc' \in {"opened", "refused"}
  <2>1. Size \in Nat /\ left \in Int /\ right \in Int /\ position \in Int
    <3>1. Size \in Nat
      BY <1>2, Sizes DEF IInv, TypeOK, Size
    <3> QED
      BY <1>2, <3>1 DEF IInv, TypeOK
  <2>2. CASE Probe
    <3>1. pc = "search" /\ \/ pc' = "opened"
                           \/ pc' = pc /\ left' = left + 1 /\ right' = right
                           \/ pc' = pc /\ left' = left /\ right' = right - 1
      BY <2>2 DEF Probe
    <3> QED
      BY <2>1, <3>1 DEF Unread
  <2>3. CASE TryNext
    <3>1. /\ pc = "scan" /\ pc' \in {"opened", "scan"} /\ position' = position + 1
          /\ Size' = Size
      BY <2>3 DEF TryNext, Size
    <3> QED
      BY <2>1, <3>1 DEF Unread
  <2>4. CASE Refuse
    BY <2>4 DEF Refuse
  <2> QED
    BY <1>2, <2>2, <2>3, <2>4 DEF Step
<1>3. Spec => []BoundsMeet
  BY BoundsKeep, EnvelopeInvariance, PTL DEF Spec
<1>4. Spec => [](Unread \in 0 .. Size)
  BY <1>1, <1>3, EnvelopeInvariance, PTL
<1>5. Spec => [][Step => Unread' < Unread \/ pc' \in {"opened", "refused"}]_vars
  BY <1>2, EnvelopeInvariance, PTL DEF Spec
<1> QED
  BY <1>4, <1>5, PTL DEF OpenNarrows
=============================================================================
