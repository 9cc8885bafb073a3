------------------------------ MODULE Envelope ------------------------------
(***************************************************************************)
(* The envelope: the key of a bucket, sealed once for every member of a    *)
(* group.  AnonymBE::generate_envelope makes it inside the enclave from    *)
(* the KeyArray of the group; Envelope.open and IndexedEnvelope.open look  *)
(* for the reader's entry on the client.                                   *)
(*                                                                         *)
(* An entry is the user key it is sealed with.  AES-GCM opens it under     *)
(* that key and throws AEADBadTagException under any other.  In an indexed *)
(* envelope the entry is preceded by Hash[nonce][key], the SHA-224 of the  *)
(* nonce of the envelope and the key; both sides order hashes as unsigned  *)
(* bytes (std::map over std::string, ByteArray.compareTo), as numbers here.*)
(***************************************************************************)
EXTENDS Integers, FiniteSets

CONSTANTS
    Keys,    \* user keys
    Nonces,  \* nonces of envelopes
    Hash     \* Hash[n][k]: the index of key k in an envelope with nonce n

\* SHA-224 has no collisions among the keys of a group.
ASSUME HashAssumption ==
    /\ Hash \in [Nonces -> [Keys -> Nat]]
    /\ \A n \in Nonces, j, k \in Keys : Hash[n][j] = Hash[n][k] => j = k
    /\ IsFiniteSet(Keys)

VARIABLES
    ka,            \* the KeyArray the envelope was made from
    indexed, nonce,
    envelope,      \* the entries, in the order in which they are written
    userKey,       \* the key open was called with
    pc,
    left, right,   \* the loop of IndexedEnvelope.open, from 0
    position       \* the ByteBuffer position of Envelope.open, in entries

vars == <<ka, indexed, nonce, envelope, userKey, pc, left, right, position>>

Size == Cardinality(ka)

\* The ways to write the keys of K one after the other.
Listings(K) ==
    {f \in [0 .. Cardinality(K) - 1 -> K] : \A k \in K : \E i \in DOMAIN f : f[i] = k}

Ascending(f, n) == \A i, j \in DOMAIN f : i < j => Hash[n][f[i]] < Hash[n][f[j]]

TypeOK ==
    /\ ka \in SUBSET Keys /\ indexed \in BOOLEAN /\ nonce \in Nonces
    /\ envelope \in [0 .. Size - 1 -> ka]
    /\ userKey \in Keys
    /\ pc \in {"none", "sealed", "search", "scan", "opened", "refused"}
    /\ left \in 0 .. Size /\ right \in -1 .. Size - 1 /\ position \in 0 .. Size

Init ==
    /\ ka = {} /\ indexed = FALSE /\ nonce \in Nonces
    /\ envelope \in [{} -> ka]
    /\ userKey \in Keys
    /\ pc = "none" /\ left = 0 /\ right = -1 /\ position = 0

\* Mutant: the entries are written in the order of the KeyArray.
SealUnordered ==
    /\ pc = "none"
    /\ \E K \in SUBSET Keys \ {{}}, n \in Nonces, ix \in BOOLEAN :
          /\ ka' = K /\ indexed' = ix /\ nonce' = n
          /\ envelope' \in Listings(K)
    /\ pc' = "sealed"
    /\ UNCHANGED <<userKey, left, right, position>>

\* generate_envelope.  The KeyArray is not empty (MemDatabase refuses an empty
\* group); orderedhashes is a std::map, written in the order of its keys.
GenerateEnvelope ==
    /\ pc = "none"
    /\ \E K \in SUBSET Keys \ {{}}, n \in Nonces, ix \in BOOLEAN :
          /\ ka' = K /\ indexed' = ix /\ nonce' = n
          /\ envelope' \in {f \in Listings(K) : ix => Ascending(f, n)}
    /\ pc' = "sealed"
    /\ UNCHANGED <<userKey, left, right, position>>

\* A client opens the envelope with the class made for its format.
Open ==
    /\ pc = "sealed"
    /\ userKey' \in Keys
    /\ pc' = IF indexed THEN "search" ELSE "scan"
    /\ left' = 0 /\ right' = Size - 1 /\ position' = 0
    /\ UNCHANGED <<ka, indexed, nonce, envelope>>

\* Mutants: the bounds of a binary search, with the probe itself left in.
ProbeHalves ==
    LET currentIndex == left + (right - left) \div 2
        hashedIndex == Hash[nonce][envelope[currentIndex]]
        hashToFind == Hash[nonce][userKey]
    IN
    /\ pc = "search" /\ left <= right
    /\ \/ /\ hashedIndex = hashToFind
          /\ pc' = "opened" /\ UNCHANGED <<left, right>>
       \/ hashedIndex < hashToFind /\ left' = currentIndex /\ UNCHANGED <<right, pc>>
       \/ hashedIndex > hashToFind /\ right' = currentIndex /\ UNCHANGED <<left, pc>>
    /\ UNCHANGED <<ka, indexed, nonce, envelope, userKey, position>>

\* One iteration of IndexedEnvelope.open: compare the entry in the middle and
\* narrow the range by one.  Equal hashes mean equal keys, so decryptAes opens.
Probe ==
    LET currentIndex == left + (right - left) \div 2
        hashedIndex == Hash[nonce][envelope[currentIndex]]
        hashToFind == Hash[nonce][userKey]
    IN
    /\ pc = "search" /\ left <= right
    /\ \/ /\ hashedIndex = hashToFind
          /\ pc' = "opened" /\ UNCHANGED <<left, right>>
       \/ hashedIndex < hashToFind /\ left' = left + 1 /\ UNCHANGED <<right, pc>>
       \/ hashedIndex > hashToFind /\ right' = right - 1 /\ UNCHANGED <<left, pc>>
    /\ UNCHANGED <<ka, indexed, nonce, envelope, userKey, position>>

\* One iteration of Envelope.open: try the next entry, go on after a bad tag.
TryNext ==
    /\ pc = "scan" /\ position < Size
    /\ position' = position + 1
    /\ pc' = IF envelope[position] = userKey THEN "opened" ELSE "scan"
    /\ UNCHANGED <<ka, indexed, nonce, envelope, userKey, left, right>>

\* "User key not in envelope".
Refuse ==
    /\ \/ pc = "search" /\ left > right
       \/ pc = "scan" /\ position = Size
    /\ pc' = "refused"
    /\ UNCHANGED <<ka, indexed, nonce, envelope, userKey, left, right, position>>

\* The envelope can be opened again, by the same or by another user.
Again ==
    /\ pc \in {"opened", "refused"}
    /\ pc' = "sealed"
    /\ UNCHANGED <<ka, indexed, nonce, envelope, userKey, left, right, position>>

Step == Probe \/ TryNext \/ Refuse

Next == GenerateEnvelope \/ Open \/ Step \/ Again

Spec == Init /\ [][Next]_vars

FairSpec == Spec /\ WF_vars(Step)

-----------------------------------------------------------------------------
\* open returns the key of the bucket exactly to the users whose key was in the
\* group when the envelope was made, in either format: the search by hash,
\* though its bounds move by one and not to the probe, misses no entry.
OpensForMembersOnly ==
    /\ pc = "opened" => userKey \in ka
    /\ pc = "refused" => userKey \notin ka

\* open ends, with the key or with "User key not in envelope".
OpenReturns == pc \in {"search", "scan"} ~> pc \in {"opened", "refused"}

-----------------------------------------------------------------------------
\* The written order, and what the two loops have not looked at yet: the
\* reader's entry, if there is one, lies in left .. right, or from position on.
EnvelopeInv ==
    /\ pc = "none" => ka = {}
    /\ pc # "none" => envelope \in Listings(ka) /\ (indexed => Ascending(envelope, nonce))

RangeInv ==
    /\ pc = "search" =>
          /\ indexed
          /\ \A i \in DOMAIN envelope : envelope[i] = userKey => left <= i /\ i <= right
    /\ pc = "scan" => \A i \in DOMAIN envelope : envelope[i] = userKey => position <= i

IInv == TypeOK /\ EnvelopeInv /\ RangeInv /\ OpensForMembersOnly

-----------------------------------------------------------------------------
\* The entries that the loops of open have still to look at.
Unread ==
    IF pc = "search" THEN right - left + 1 ELSE IF pc = "scan" THEN Size - position ELSE 0

\* Every iteration of open leaves fewer entries to look at, or is the last: open
\* makes at most one more iteration than the envelope has entries.
OpenNarrows ==
    /\ [](Unread \in 0 .. Size)
    /\ [][Step => Unread' < Unread \/ pc' \in {"opened", "refused"}]_vars

\* The bounds of the search never pass each other by more than one.
BoundsMeet == pc = "search" => left <= right + 1
=============================================================================
