------------------------- MODULE WriterProxyProofs -------------------------
(***************************************************************************)
(* Proofs about WriterProxy, for every number of proxies, buckets,         *)
(* removals and failures.                                                  *)
(***************************************************************************)
EXTENDS WriterProxy, TLAPS

\* What IInv says of one proxy.
Fine(p) ==
    /\ pc[p] \in {"idle", "token", "grant"} \/ bucket[p] = NoBucket => depth[p] = 0
    /\ pc[p] = "make" => bucket[p] \in Buckets /\ depth[p] <= removals
    /\ pc[p] = "forward" /\ depth[p] > removals => bucket[p] \in DOMAIN contents
    /\ depth[p] <= removals + 1
    /\ HollowOk(p) => faults > 0 \/ (removals > 0 /\ depth[p] > 0)

\* IInv speaks of one proxy at a time.
LEMMA ByProxy == IInv <=> ThreadTypes /\ \A p \in Proxies : Fine(p)
BY DEF IInv, Fine, RetryInv, RetriesArePaidFor, OkMeansDone

\* No proxy has done anything at the start.
LEMMA InitInv == Init => IInv
BY DEF Init, IInv, ThreadTypes, RetryInv, RetriesArePaidFor, OkMeansDone, HollowOk,
       Places, Codes

\* A step of p leaves the state of the other threads alone.
Alone(p) ==
    \A q \in Proxies \ {p} :
        /\ pc'[q] = pc[q] /\ bucket'[q] = bucket[q] /\ depth'[q] = depth[q]
        /\ code'[q] = code[q] /\ fulfilled'[q] = fulfilled[q]

\* A step of p that removes no bucket and forgets no failure disturbs no other
\* proxy: it is enough to look at p.
LEMMA OtherProxies ==
    ASSUME IInv, NEW p \in Proxies, ThreadTypes', Alone(p), Fine(p)',
           DOMAIN contents \subseteq DOMAIN contents', removals' = removals,
           faults' >= faults
    PROVE  IInv'
<1>1. ASSUME NEW q \in Proxies PROVE Fine(q)'
  <2>1. CASE q = p
    BY <2>1
  <2>2. CASE q # p
    <3>1. Fine(q)
      BY ByProxy
    <3>2. /\ pc'[q] = pc[q] /\ bucket'[q] = bucket[q] /\ depth'[q] = depth[q]
          /\ code'[q] = code[q] /\ fulfilled'[q] = fulfilled[q]
      BY <2>2 DEF Alone
    <3>3. faults \in Nat /\ faults' \in Nat
      BY DEF IInv, ThreadTypes
    <3> QED
      BY <3>1, <3>2, <3>3 DEF Fine, HollowOk
  <2> QED
    BY <2>1, <2>2
<1>2. IInv' <=> ThreadTypes' /\ \A q \in Proxies : Fine(q)'
  BY DEF IInv, Fine, RetryInv, RetriesArePaidFor, OkMeansDone
<1> QED
  BY <1>1, <1>2

\* Writing to the p-th place of a function on Proxies keeps its type, and the
\* other places.
LEMMA Place ==
    ASSUME NEW S, NEW f \in [Proxies -> S], NEW p \in Proxies, NEW x \in S
    PROVE  /\ [f EXCEPT ![p] = x] \in [Proxies -> S]
           /\ [f EXCEPT ![p] = x][p] = x
           /\ \A q \in Proxies \ {p} : [f EXCEPT ![p] = x][q] = f[q]
OBVIOUS

\* What an answer does: the outer calls of forward turn any code into 200.
LEMMA AnswerEffect ==
    ASSUME ThreadTypes, NEW p \in Proxies, NEW c \in Codes, Answer(p, c)
    PROVE  /\ pc' \in [Proxies -> Places] /\ code' \in [Proxies -> Codes]
           /\ pc'[p] = "answered" /\ code'[p] = IF depth[p] = 0 THEN c ELSE 200
           /\ \A q \in Proxies \ {p} : pc'[q] = pc[q] /\ code'[q] = code[q]
<1>1. 200 \in Codes /\ "answered" \in Places
  BY DEF Codes, Places
<1>2. pc \in [Proxies -> Places] /\ code \in [Proxies -> Codes]
  BY DEF ThreadTypes
<1> QED
  BY <1>1, <1>2, Place DEF Answer, Goto

\* What going to another place does.
LEMMA GotoEffect ==
    ASSUME ThreadTypes, NEW p \in Proxies, NEW l \in Places, Goto(p, l)
    PROVE  /\ pc' \in [Proxies -> Places] /\ pc'[p] = l
           /\ \A q \in Proxies \ {p} : pc'[q] = pc[q]
BY Place DEF Goto, ThreadTypes

\* What fulfilling a request does.
LEMMA FulfilEffect ==
    ASSUME ThreadTypes, NEW p \in Proxies, Fulfil(p)
    PROVE  /\ fulfilled' \in [Proxies -> BOOLEAN] /\ fulfilled'[p]
           /\ \A q \in Proxies \ {p} : fulfilled'[q] = fulfilled[q]
BY DEF Fulfil, ThreadTypes

\* A thread outside forward is within every bound.
LEMMA ZeroIsLeast == \A n, m \in Nat : m = 0 => m <= n + 1 /\ ~(m > n)
OBVIOUS

\* A proxy takes a request: what it answers at once is fulfilled.
LEMMA TreatStep ==
    ASSUME IInv, NEW p \in Proxies, TreatRequest(p) PROVE IInv'
<1>0. ThreadTypes /\ Fine(p)
  BY ByProxy
<1>1. pc[p] = "idle" /\ UNCHANGED <<contents, depth, removals, faults>>
  BY DEF TreatRequest
<1>c. {200, 400} \subseteq Codes /\ {"token", "forward"} \subseteq Places
  BY DEF Codes, Places
<1> DEFINE Result == /\ ThreadTypes' /\ Alone(p)
                     /\ pc'[p] \notin {"idle", "make"}
                     /\ ~HollowOk(p)'
<1>2. Result
  <2>1. ASSUME NEW c \in {200, 400}, Answer(p, c), Fulfil(p), UNCHANGED bucket PROVE Result
    BY <1>0, <1>1, <1>c, <2>1, AnswerEffect, FulfilEffect DEF ThreadTypes, Alone, HollowOk
  <2>2. CASE Goto(p, "token") /\ UNCHANGED <<code, fulfilled, bucket>>
    BY <1>0, <1>1, <1>c, <2>2, GotoEffect DEF ThreadTypes, Alone, HollowOk
  <2>3. ASSUME NEW b \in Buckets \cup {NoBucket}, Goto(p, "forward"),
               bucket' = [bucket EXCEPT ![p] = b], UNCHANGED <<code, fulfilled>>
        PROVE  Result
    BY <1>0, <1>1, <1>c, <2>3, GotoEffect, Place DEF ThreadTypes, Alone, HollowOk
  <2> QED
    BY <2>1, <2>2, <2>3 DEF TreatRequest
<1>4. Fine(p)'
  <2>1. depth'[p] = 0 /\ depth'[p] \in Nat /\ removals' \in Nat
    BY <1>0, <1>1 DEF Fine, ThreadTypes
  <2>2. ~HollowOk(p)' /\ pc'[p] # "make"
    BY <1>2
  <2>3. depth'[p] <= removals' + 1 /\ ~(depth'[p] > removals')
    BY <2>1, ZeroIsLeast
  <2> QED
    BY <2>1, <2>2, <2>3 DEF Fine
<1>5. faults' >= faults
  BY <1>0, <1>1 DEF ThreadTypes
<1> QED
  BY <1>5, <1>1, <1>2, <1>4, OtherProxies DEF ThreadTypes

\* A call of forward: what minio stored is fulfilled; it is only without a bucket,
\* hence not ahead of the removals, that the thread goes on to make one.
LEMMA ForwardStep ==
    ASSUME IInv, NEW p \in Proxies, Forward(p) PROVE IInv'
<1>0. ThreadTypes /\ Fine(p) /\ pc[p] = "forward" /\ NoBucket \notin Buckets
  BY ByProxy, ProxyAssumption DEF Forward
<1>1. /\ UNCHANGED <<bucket, depth, removals>>
      /\ faults' \in {faults, faults + 1}
      /\ DOMAIN contents' = DOMAIN contents
  BY DEF Forward, Store, StoreOrNot, Fault
<1>c. {200, 409, 444} \subseteq Codes /\ "make" \in Places
  BY DEF Codes, Places
<1> DEFINE Result == /\ ThreadTypes' /\ Alone(p)
                     /\ pc'[p] \in {"make", "answered"}
                     /\ pc'[p] = "make" => bucket[p] \in Buckets \ DOMAIN contents
                     /\ HollowOk(p)' => faults' = faults + 1
<1>f. ThreadTypes /\ faults' \in Nat
  BY <1>0, <1>1 DEF ThreadTypes
<1>2. Result
  <2>1. CASE Store(p) /\ Answer(p, 200)
    BY <1>f, <1>1, <1>c, <2>1, AnswerEffect, FulfilEffect DEF Store, ThreadTypes, Alone, HollowOk
  <2>2. CASE bucket[p] \in Buckets \ DOMAIN contents /\ Goto(p, "make") /\ UNCHANGED <<code, fulfilled>>
    BY <1>f, <1>1, <1>c, <2>2, GotoEffect DEF ThreadTypes, Alone, HollowOk
  <2>3. CASE bucket[p] = NoBucket /\ Answer(p, 409) /\ UNCHANGED fulfilled
    <3>1. depth[p] = 0
      BY <1>0, <2>3 DEF Fine
    <3> QED
      BY <1>f, <1>1, <1>c, <2>3, <3>1, AnswerEffect DEF ThreadTypes, Alone, HollowOk
  <2>4. ASSUME NEW c \in {200, 409, 444}, Fault, Answer(p, c), UNCHANGED fulfilled PROVE Result
    BY <1>f, <1>1, <1>c, <2>4, AnswerEffect DEF ThreadTypes, Alone, HollowOk, Fault
  <2>5. ASSUME NEW c \in {200, 409, 444}, Fault, Answer(p, c), Fulfil(p) PROVE Result
    BY <1>f, <1>1, <1>c, <2>5, AnswerEffect, FulfilEffect DEF ThreadTypes, Alone, HollowOk, Fault
  <2> QED
    BY <2>1, <2>2, <2>3, <2>4, <2>5 DEF Forward, StoreOrNot, Store
<1>3. depth[p] \in Nat /\ removals \in Nat /\ faults \in Nat
  BY <1>0 DEF ThreadTypes
<1>4. Fine(p)'
  <2>1. /\ pc'[p] \notin {"idle", "token", "grant", "forward"}
        /\ pc'[p] = "make" => bucket[p] \in Buckets \ DOMAIN contents
        /\ HollowOk(p)' => faults' > 0
    BY <1>2, <1>3
  <2> QED
    BY <1>0, <1>1, <1>3, <2>1 DEF Fine
<1>5. faults' >= faults
  BY <1>1, <1>3
<1>6. ThreadTypes' /\ Alone(p)
  BY <1>2
<1> QED
  BY <1>1, <1>4, <1>5, <1>6, OtherProxies

\* make_bucket: a bucket made now is one that no removal has taken away yet; a
\* refusal answers 409, or 200 below a first call, which is no deeper than the
\* removals.
LEMMA MakeStep ==
    ASSUME IInv, NEW p \in Proxies, MakeBucket(p) PROVE IInv'
<1>0. ThreadTypes /\ Fine(p) /\ pc[p] = "make" /\ NoBucket \notin Buckets
  BY ByProxy, ProxyAssumption DEF MakeBucket
<1>1. /\ UNCHANGED <<bucket, fulfilled, removals>>
      /\ faults' \in {faults, faults + 1}
      /\ DOMAIN contents \subseteq DOMAIN contents'
  BY DEF MakeBucket, Fault
<1>3. depth[p] \in Nat /\ removals \in Nat /\ faults \in Nat /\ depth[p] <= removals
  BY <1>0 DEF ThreadTypes, Fine
<1>c. 409 \in Codes /\ "forward" \in Places
  BY DEF Codes, Places
<1>2. ThreadTypes' /\ Alone(p) /\ Fine(p)'
  <2>1. CASE /\ contents' = [x \in DOMAIN contents \cup {bucket[p]} |->
                               IF x = bucket[p] THEN {} ELSE contents[x]]
             /\ depth' = [depth EXCEPT ![p] = @ + 1]
             /\ Goto(p, "forward") /\ UNCHANGED code
    <3>1. /\ depth' \in [Proxies -> Nat] /\ depth'[p] = depth[p] + 1
          /\ \A q \in Proxies \ {p} : depth'[q] = depth[q]
      BY <1>0, <1>3, <2>1 DEF ThreadTypes
    <3>2. ThreadTypes' /\ Alone(p) /\ pc'[p] = "forward"
      BY <1>0, <1>1, <1>3, <1>c, <2>1, <3>1, GotoEffect DEF ThreadTypes, Alone
    <3>3. bucket'[p] \in DOMAIN contents' /\ bucket'[p] # NoBucket
      BY <1>0, <1>1, <2>1 DEF Fine
    <3> QED
      BY <1>1, <1>3, <3>1, <3>2, <3>3 DEF Fine, HollowOk
  <2>2. CASE Answer(p, 409) /\ UNCHANGED depth
    <3>1. ThreadTypes' /\ Alone(p) /\ pc'[p] = "answered"
          /\ code'[p] = IF depth[p] = 0 THEN 409 ELSE 200
      BY <1>0, <1>1, <1>3, <1>c, <2>2, AnswerEffect DEF ThreadTypes, Alone
    <3>2. HollowOk(p)' => depth[p] # 0
      BY <3>1 DEF HollowOk
    <3> QED
      BY <1>0, <1>1, <1>3, <2>2, <3>1, <3>2 DEF Fine
  <2> QED
    BY <2>1, <2>2 DEF MakeBucket
<1>5. faults' >= faults
  BY <1>1, <1>3
<1> QED
  BY <1>1, <1>2, <1>5, OtherProxies

\* The token path: no call of forward is under way.
LEMMA TokenStep ==
    ASSUME IInv, NEW p \in Proxies, AskIdentity(p) \/ AskMinio(p) PROVE IInv'
<1>0. ThreadTypes /\ Fine(p)
  BY ByProxy
<1>1. /\ UNCHANGED <<contents, bucket, depth, removals>>
      /\ faults' \in {faults, faults + 1}
  BY DEF AskIdentity, AskMinio, Unreachable, Fault
<1>3. depth[p] \in Nat /\ removals \in Nat /\ faults \in Nat
  BY <1>0 DEF ThreadTypes
<1>c. {0, 200, 405, 504} \subseteq Codes /\ {"spin", "grant"} \subseteq Places
  BY DEF Codes, Places
<1> DEFINE Result == /\ ThreadTypes' /\ Alone(p)
                     /\ pc'[p] \in {"spin", "grant", "answered"}
                     /\ HollowOk(p)' => faults' > 0
<1>f. depth[p] = 0 /\ ThreadTypes /\ faults' \in Nat
  BY <1>0, <1>1, <1>3 DEF Fine, AskIdentity, AskMinio
<1>2. Result
  <2>1. CASE Answer(p, 405) /\ UNCHANGED fulfilled
    BY <1>f, <1>1, <1>3, <1>c, <2>1, AnswerEffect DEF ThreadTypes, Alone, HollowOk
  <2>2. CASE Goto(p, "grant") /\ UNCHANGED <<code, fulfilled>>
    BY <1>f, <1>1, <1>3, <1>c, <2>2, GotoEffect DEF ThreadTypes, Alone, HollowOk
  <2>3. ASSUME NEW c \in {0, 200, 504}, Fault, Answer(p, c), UNCHANGED fulfilled PROVE Result
    BY <1>f, <1>1, <1>3, <1>c, <2>3, AnswerEffect DEF ThreadTypes, Alone, HollowOk, Fault
  <2>4. CASE Goto(p, "spin") /\ UNCHANGED <<code, fulfilled>>
    BY <1>f, <1>1, <1>3, <1>c, <2>4, GotoEffect DEF ThreadTypes, Alone, HollowOk
  <2>5. CASE Answer(p, 200) /\ Fulfil(p)
    BY <1>f, <1>1, <1>3, <1>c, <2>5, AnswerEffect, FulfilEffect DEF ThreadTypes, Alone, HollowOk
  <2> QED
    BY <2>1, <2>2, <2>3, <2>4, <2>5 DEF AskIdentity, AskMinio, Unreachable
<1>4. Fine(p)'
  <2>1. pc'[p] \notin {"forward", "make"} /\ (HollowOk(p)' => faults' > 0)
    BY <1>2
  <2> QED
    BY <1>f, <1>1, <1>3, <2>1 DEF Fine
<1>5. faults' >= faults
  BY <1>1, <1>3
<1>6. ThreadTypes' /\ Alone(p)
  BY <1>2
<1> QED
  BY <1>1, <1>4, <1>5, <1>6, OtherProxies

\* The response is sent, and the thread is as it was at the start.
LEMMA SendStep ==
    ASSUME IInv, NEW p \in Proxies, Send(p) PROVE IInv'
<1>0. ThreadTypes /\ Fine(p)
  BY ByProxy
<1>1. UNCHANGED <<contents, removals, faults>>
  BY DEF Send
<1>2. /\ pc' = [pc EXCEPT ![p] = "idle"] /\ bucket' = [bucket EXCEPT ![p] = NoBucket]
      /\ depth' = [depth EXCEPT ![p] = 0] /\ code' = [code EXCEPT ![p] = 0]
      /\ fulfilled' = [fulfilled EXCEPT ![p] = FALSE]
  BY DEF Send, Goto
<1>3. ThreadTypes'
  BY <1>0, <1>1, <1>2 DEF ThreadTypes, Places, Codes
<1>4. Alone(p) /\ pc'[p] = "idle" /\ depth'[p] = 0
  BY <1>0, <1>2 DEF ThreadTypes, Alone
<1>5. depth'[p] \in Nat /\ removals' \in Nat /\ faults' >= faults
  BY <1>0, <1>1, <1>3 DEF ThreadTypes
<1>6. Fine(p)'
  <2>1. depth'[p] <= removals' + 1
    BY <1>4, <1>5, ZeroIsLeast
  <2> QED
    BY <1>4, <2>1 DEF Fine, HollowOk
<1> QED
  BY <1>1, <1>3, <1>4, <1>5, <1>6, OtherProxies

\* deleteBucket: a removal pays for one more call of forward, whichever proxy's
\* bucket it takes away.
LEMMA DeleterStep ==
    ASSUME IInv,
           (\E b \in Buckets : DeleteBucket(b)) \/ ListObjects \/ RemoveObjects \/ RemoveBucket
    PROVE  IInv'
<1>0. UNCHANGED <<pc, bucket, depth, code, fulfilled, faults>>
  BY DEF DeleteBucket, ListObjects, RemoveObjects, RemoveBucket, proxy
<1>1. \/ removals' = removals /\ DOMAIN contents' = DOMAIN contents
      \/ removals' = removals + 1
  BY DEF DeleteBucket, ListObjects, RemoveObjects, RemoveBucket
<1>2. ThreadTypes'
  BY <1>0, <1>1 DEF IInv, ThreadTypes
<1>3. ASSUME NEW p \in Proxies PROVE Fine(p)'
  <2>1. Fine(p)
    BY ByProxy
  <2>2. depth[p] \in Nat /\ removals \in Nat /\ faults \in Nat
    BY DEF IInv, ThreadTypes
  <2> QED
    BY <1>0, <1>1, <2>1, <2>2 DEF Fine, HollowOk
<1>4. IInv' <=> ThreadTypes' /\ \A q \in Proxies : Fine(q)'
  BY DEF IInv, Fine, RetryInv, RetriesArePaidFor, OkMeansDone
<1> QED
  BY <1>2, <1>3, <1>4

\* IInv holds in every state of every behaviour of the proxies.
THEOREM ProxyInvariance == Spec => []IInv
<1>1. IInv /\ [Next]_vars => IInv'
  <2>1. ASSUME IInv, UNCHANGED vars PROVE IInv'
    BY <2>1 DEF vars, proxy, deleter, IInv, ThreadTypes, RetryInv, RetriesArePaidFor,
                OkMeansDone, HollowOk
  <2>2. ASSUME IInv, Next PROVE IInv'
    BY <2>1, <2>2, TreatStep, ForwardStep, MakeStep, TokenStep, SendStep, DeleterStep
    DEF Next, Thread, Spin
  <2> QED
    BY <2>1, <2>2
<1> QED
  BY InitInv, <1>1, PTL DEF Spec

\* A 200 is hollow only after a failed call or a removal under a nested forward,
\* however many proxies and removers there are: OkMeansDone.
THEOREM OkIsHonest == Spec => []OkMeansDone
<1>1. IInv => OkMeansDone
  BY DEF IInv
<1> QED
  BY <1>1, ProxyInvariance, PTL

\* forward nests no deeper than one call per removal and one more, so that it
\* cannot exhaust the enclave's stack by itself: RetriesArePaidFor.
THEOREM RetriesBounded == Spec => []RetriesArePaidFor
<1>1. IInv => RetriesArePaidFor
  BY DEF IInv
<1> QED
  BY <1>1, ProxyInvariance, PTL


-----------------------------------------------------------------------------
\* What minio holds: sets of uploads, for some of the buckets.
Stored == UNION {[B -> SUBSET Proxies] : B \in SUBSET Buckets}

\* To be what minio holds is to map some of the buckets to sets of uploads.
LEMMA StoredIsMap ==
    \A c : c \in Stored <=> /\ DOMAIN c \subseteq Buckets
                            /\ c \in [DOMAIN c -> SUBSET Proxies]
BY DEF Stored

\* An upload that is stored, a bucket that is made: minio holds uploads still, and
\* no bucket goes.
LEMMA StoredGrows ==
    ASSUME IInv, contents \in Stored, NEW p \in Proxies,
           TreatRequest(p) \/ Thread(p)
    PROVE  contents' \in Stored /\ DOMAIN contents \subseteq DOMAIN contents'
<1>0. DOMAIN contents \subseteq Buckets /\ contents \in [DOMAIN contents -> SUBSET Proxies]
  BY StoredIsMap
<1>1. CASE Forward(p)
  <2>1. CASE Store(p)
    <3>1. /\ DOMAIN contents' = DOMAIN contents
          /\ contents' \in [DOMAIN contents -> SUBSET Proxies]
      BY <1>0, <2>1 DEF Store
    <3> QED
      BY <1>0, <3>1, StoredIsMap
  <2>2. CASE UNCHANGED contents
    BY <2>2
  <2> QED
    BY <1>1, <2>1, <2>2 DEF Forward, StoreOrNot
<1>2. CASE MakeBucket(p)
  <2>1. bucket[p] \in Buckets
    BY <1>2 DEF IInv, RetryInv, MakeBucket
  <2>2. CASE contents' = [x \in DOMAIN contents \cup {bucket[p]} |->
                            IF x = bucket[p] THEN {} ELSE contents[x]]
    <3>1. /\ DOMAIN contents' = DOMAIN contents \cup {bucket[p]}
          /\ contents' \in [DOMAIN contents \cup {bucket[p]} -> SUBSET Proxies]
      BY <1>0, <2>2
    <3> QED
      BY <1>0, <2>1, <3>1, StoredIsMap
  <2> QED
    BY <1>2, <2>2 DEF MakeBucket
<1> QED
  BY <1>1, <1>2 DEF TreatRequest, Thread, AskIdentity, AskMinio, Spin, Send, vars

\* A failure is counted, within the bound; a thread leaves deleteBucket alone.
LEMMA ThreadKeepsDeleter ==
    ASSUME IInv, DeleterInv, NEW p \in Proxies, TreatRequest(p) \/ Thread(p)
    PROVE  DeleterInv'
<1>1. UNCHANGED <<dpc, victim, listed, attempts, removals>>
  BY DEF TreatRequest, Thread, Forward, MakeBucket, AskIdentity, AskMinio, Spin, Send,
         deleter, vars
<1>2. faults' \in 0..MaxFaults
  <2>1. faults' = faults \/ (faults < MaxFaults /\ faults' = faults + 1)
    BY DEF TreatRequest, Thread, Forward, MakeBucket, AskIdentity, AskMinio, Spin, Send,
           Unreachable, Fault, vars
  <2> QED
    BY <2>1, ProxyAssumption DEF DeleterInv
<1>3. contents' \in Stored /\ DOMAIN contents \subseteq DOMAIN contents'
  BY StoredGrows DEF DeleterInv, Stored
<1> QED
  BY <1>1, <1>2, <1>3 DEF DeleterInv, Stored

\* deleteBucket works on a bucket that is there, to the step that removes it.
LEMMA DeleterKeepsDeleter ==
    ASSUME IInv, DeleterInv,
           (\E b \in Buckets : DeleteBucket(b)) \/ ListObjects \/ RemoveObjects \/ RemoveBucket
    PROVE  DeleterInv'
<1>0. /\ contents \in Stored /\ DOMAIN contents \subseteq Buckets
      /\ contents \in [DOMAIN contents -> SUBSET Proxies]
      /\ MaxAttempts \in Nat /\ MaxRemovals \in Nat
  BY StoredIsMap, ProxyAssumption DEF DeleterInv, Stored
<1>1. ASSUME NEW b \in Buckets, DeleteBucket(b) PROVE DeleterInv'
  BY <1>0, <1>1 DEF DeleterInv, DeleteBucket
<1>2. CASE ListObjects
  <2>1. victim \in DOMAIN contents /\ contents[victim] \subseteq Proxies
    BY <1>0, <1>2 DEF DeleterInv, ListObjects
  <2>2. attempts' \in 0..MaxAttempts /\ listed' \subseteq Proxies
    BY <1>0, <1>2, <2>1 DEF DeleterInv, ListObjects
  <2> QED
    BY <1>2, <2>1, <2>2 DEF DeleterInv, ListObjects
<1>3. CASE RemoveObjects
  <2>1. /\ DOMAIN contents' = DOMAIN contents
        /\ contents' \in [DOMAIN contents -> SUBSET Proxies]
    BY <1>0, <1>3 DEF RemoveObjects
  <2>2. contents' \in Stored
    BY <1>0, <2>1, StoredIsMap
  <2> QED
    BY <1>3, <2>1, <2>2 DEF DeleterInv, RemoveObjects, Stored
<1>4. CASE RemoveBucket
  <2>1. contents' \in Stored
    <3>1. CASE contents' = [b \in DOMAIN contents \ {victim} |-> contents[b]]
      <4>1. /\ DOMAIN contents' = DOMAIN contents \ {victim}
            /\ contents' \in [DOMAIN contents \ {victim} -> SUBSET Proxies]
        BY <1>0, <3>1
      <4> QED
        BY <1>0, <4>1, StoredIsMap
    <3> QED
      BY <1>0, <1>4, <3>1 DEF RemoveBucket
  <2>2. removals' \in 0..MaxRemovals
    BY <1>0, <1>4 DEF DeleterInv, RemoveBucket
  <2> QED
    BY <1>0, <1>4, <2>1, <2>2 DEF DeleterInv, RemoveBucket, Stored
<1> QED
  BY <1>1, <1>2, <1>3, <1>4

\* Every variable keeps its type, the bounds of the counters included: TypeOK.  The
\* calls of forward within forward are bounded by the removals there can be.
THEOREM ProxyTypeCorrect == Spec => []TypeOK
<1>1. Init => DeleterInv
  <2>1. Init => contents \in Stored
    BY StoredIsMap DEF Init
  <2> QED
    BY <2>1, ProxyAssumption DEF Init, DeleterInv, Stored
<1>2. IInv /\ DeleterInv /\ [Next]_vars => DeleterInv'
  <2>1. ASSUME DeleterInv, UNCHANGED vars PROVE DeleterInv'
    BY <2>1 DEF vars, deleter, DeleterInv
  <2> QED
    BY <2>1, ThreadKeepsDeleter, DeleterKeepsDeleter DEF Next
<1>3. IInv /\ DeleterInv => TypeOK
  <2> SUFFICES ASSUME IInv, DeleterInv PROVE TypeOK
    OBVIOUS
  <2>1. depth \in [Proxies -> 0..(MaxRemovals + 1)]
    <3>1. ASSUME NEW p \in Proxies PROVE depth[p] \in 0..(MaxRemovals + 1)
      <4>1. depth[p] \in Nat /\ depth[p] <= removals + 1
        BY DEF IInv, ThreadTypes, RetriesArePaidFor
      <4> QED
        BY <4>1, ProxyAssumption DEF DeleterInv
    <3> QED
      BY <3>1 DEF IInv, ThreadTypes
  <2> QED
    BY <2>1 DEF IInv, ThreadTypes, DeleterInv, TypeOK
<1> QED
  BY <1>1, <1>2, <1>3, ProxyInvariance, PTL DEF Spec
=============================================================================
