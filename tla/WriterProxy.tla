---------------------------- MODULE WriterProxy ----------------------------
(***************************************************************************)
(* The writer proxies (enclave/writerproxy_service.cpp): each has one      *)
(* thread, forwards uploads to a shared minio and creates the bucket that  *)
(* is missing, and obtains temporary credentials for clients that upload   *)
(* themselves.  A storage client (storage/Minio.kt) deletes buckets        *)
(* meanwhile.                                                              *)
(*                                                                         *)
(* minio and the identity server are external: a call answers, refuses or  *)
(* fails, and a call that fails may have taken effect.                     *)
(***************************************************************************)
EXTENDS Naturals

CONSTANTS
    Proxies,      \* the replicas behind the service address
    Buckets,      \* bucket names
    NoBucket,     \* the path of an upload that names no bucket
    WithIdentity, \* the proxies for which an identity server is configured
    MaxAttempts,  \* attempts of emptyBucket (20 in the code)
    MaxRemovals,  \* bound: buckets removed
    MaxFaults     \* bound: calls to minio and the identity server that fail

ASSUME ProxyAssumption ==
    /\ NoBucket \notin Buckets /\ WithIdentity \subseteq Proxies
    /\ MaxAttempts \in Nat /\ MaxRemovals \in Nat /\ MaxFaults \in Nat

VARIABLES
    contents,   \* minio: contents[b], the uploads in b, for the buckets there are
    pc,         \* pc[p]: where the thread of p is
    bucket,     \* bucket[p]: the bucket of its upload
    depth,      \* depth[p]: the calls of forward within forward
    code,       \* code[p]: the status to send, 0 when an exception sends none
    fulfilled,  \* fulfilled[p]: the request has had the effect asked for
    dpc, victim, listed, attempts,  \* deleteBucket: where it is, its locals
    removals, faults                \* how often each happened

proxy == <<pc, bucket, depth, code, fulfilled>>
deleter == <<dpc, victim, listed, attempts>>
vars == <<contents, proxy, deleter, removals, faults>>

Places == {"idle", "forward", "make", "token", "grant", "spin", "answered"}
Codes == {0, 200, 400, 405, 409, 444, 504}

TypeOK ==
    /\ contents \in UNION {[B -> SUBSET Proxies] : B \in SUBSET Buckets}
    /\ pc \in [Proxies -> Places]
    /\ bucket \in [Proxies -> Buckets \cup {NoBucket}]
    /\ depth \in [Proxies -> 0..(MaxRemovals + 1)]
    /\ code \in [Proxies -> Codes]
    /\ fulfilled \in [Proxies -> BOOLEAN]
    /\ dpc \in {"idle", "list", "erase", "remove"}
    /\ victim \in Buckets \cup {NoBucket} /\ listed \subseteq Proxies
    /\ attempts \in 0..MaxAttempts
    /\ removals \in 0..MaxRemovals /\ faults \in 0..MaxFaults

Init ==
    /\ contents = [b \in {} |-> {}]
    /\ pc = [p \in Proxies |-> "idle"]
    /\ bucket = [p \in Proxies |-> NoBucket]
    /\ depth = [p \in Proxies |-> 0]
    /\ code = [p \in Proxies |-> 0]
    /\ fulfilled = [p \in Proxies |-> FALSE]
    /\ dpc = "idle" /\ victim = NoBucket /\ listed = {} /\ attempts = 0
    /\ removals = 0 /\ faults = 0

-----------------------------------------------------------------------------
Goto(p, place) == pc' = [pc EXCEPT ![p] = place]
Fault == faults < MaxFaults /\ faults' = faults + 1

\* The response goes back through the calls of forward: an outer call ignores
\* what the inner one returned and answers 200.
Answer(p, c) ==
    /\ Goto(p, "answered")
    /\ code' = [code EXCEPT ![p] = IF depth[p] = 0 THEN c ELSE 200]

Fulfil(p) == fulfilled' = [fulfilled EXCEPT ![p] = TRUE]

\* treat_request: /ping, a request that is no GET and no PUT, /token, an upload.
TreatRequest(p) ==
    /\ pc[p] = "idle"
    /\ \/ \E c \in {200, 400} : Answer(p, c) /\ Fulfil(p) /\ UNCHANGED bucket
       \/ Goto(p, "token") /\ UNCHANGED <<code, fulfilled, bucket>>
       \/ \E b \in Buckets \cup {NoBucket} :
             /\ Goto(p, "forward")
             /\ bucket' = [bucket EXCEPT ![p] = b]
             /\ UNCHANGED <<code, fulfilled>>
    /\ UNCHANGED <<contents, depth, deleter, removals, faults>>

\* minio stores the upload of p.
Store(p) ==
    /\ bucket[p] \in DOMAIN contents
    /\ contents' = [contents EXCEPT ![bucket[p]] = @ \cup {p}]
    /\ Fulfil(p)

StoreOrNot(p) == Store(p) \/ UNCHANGED <<contents, fulfilled>>

\* Mutant: every error answer of minio is swallowed.
ForwardSwallows(p) ==
    /\ pc[p] = "forward"
    /\ \/ Store(p) /\ Answer(p, 200) /\ UNCHANGED faults
       \/ /\ bucket[p] \notin DOMAIN contents
          /\ Answer(p, 200)
          /\ UNCHANGED <<contents, fulfilled, faults>>
    /\ UNCHANGED <<bucket, depth, deleter, removals>>

\* forward: check_user asks the access monitor and is always true.  minio
\* stores the upload; or there is no such bucket; or it answers with another
\* error; or it does not answer; or the call fails in another way, which is
\* taken for success.
Forward(p) ==
    /\ pc[p] = "forward"
    /\ \/ Store(p) /\ Answer(p, 200) /\ UNCHANGED faults
       \/ /\ bucket[p] \in Buckets \ DOMAIN contents
          /\ Goto(p, "make")
          /\ UNCHANGED <<contents, code, fulfilled, faults>>
       \/ bucket[p] = NoBucket /\ Answer(p, 409) /\ UNCHANGED <<contents, fulfilled, faults>>
       \/ Fault /\ Answer(p, 409) /\ UNCHANGED <<contents, fulfilled>>
       \/ Fault /\ Answer(p, 444) /\ StoreOrNot(p)
       \/ Fault /\ Answer(p, 200) /\ StoreOrNot(p)
    /\ UNCHANGED <<bucket, depth, deleter, removals>>

\* Mutant: make_bucket returns true whatever happened.
MakeBucketAlwaysTrue(p) ==
    LET b == bucket[p] IN
    /\ pc[p] = "make"
    /\ \/ b \notin DOMAIN contents /\ UNCHANGED faults
          /\ contents' = [x \in DOMAIN contents \cup {b} |->
                            IF x = b THEN {} ELSE contents[x]]
       \/ b \in DOMAIN contents /\ UNCHANGED <<contents, faults>>
       \/ Fault /\ UNCHANGED contents
    /\ depth' = [depth EXCEPT ![p] = @ + 1]
    /\ Goto(p, "forward")
    /\ UNCHANGED <<bucket, code, fulfilled, deleter, removals>>

\* make_bucket, and forward again if it succeeded: it does not if the bucket is
\* there by now, or minio fails.
MakeBucket(p) ==
    LET b == bucket[p] IN
    /\ pc[p] = "make"
    /\ \/ /\ b \notin DOMAIN contents
          /\ contents' = [x \in DOMAIN contents \cup {b} |->
                            IF x = b THEN {} ELSE contents[x]]
          /\ depth' = [depth EXCEPT ![p] = @ + 1]
          /\ Goto(p, "forward")
          /\ UNCHANGED <<code, faults>>
       \/ /\ b \in DOMAIN contents
          /\ Answer(p, 409)
          /\ UNCHANGED <<contents, depth, faults>>
       \/ Fault /\ Answer(p, 409) /\ UNCHANGED <<contents, depth>>
    /\ UNCHANGED <<bucket, fulfilled, deleter, removals>>

-----------------------------------------------------------------------------
\* request_reply goes wrong: no connection or a broken one is a 504; a peer
\* that closes before its answer is complete makes recv return 0 for ever.
Unreachable(p) ==
    /\ Fault
    /\ Answer(p, 504) \/ (Goto(p, "spin") /\ UNCHANGED code)
    /\ UNCHANGED fulfilled

\* The first half of generate_token: without an identity server 405; a refusal
\* is an empty string, which json::parse throws at, and nothing is sent.
AskIdentity(p) ==
    /\ pc[p] = "token"
    /\ \/ p \notin WithIdentity /\ Answer(p, 405) /\ UNCHANGED <<fulfilled, faults>>
       \/ /\ p \in WithIdentity
          /\ \/ Goto(p, "grant") /\ UNCHANGED <<code, fulfilled, faults>>
             \/ Fault /\ Answer(p, 0) /\ UNCHANGED fulfilled
             \/ Unreachable(p)
    /\ UNCHANGED <<contents, bucket, depth, deleter, removals>>

\* The second half: minio's refusal is an empty string, sent with a 200.
AskMinio(p) ==
    /\ pc[p] = "grant"
    /\ \/ Answer(p, 200) /\ Fulfil(p) /\ UNCHANGED faults
       \/ Fault /\ Answer(p, 200) /\ UNCHANGED fulfilled
       \/ Unreachable(p)
    /\ UNCHANGED <<contents, bucket, depth, deleter, removals>>

Spin(p) == pc[p] = "spin" /\ UNCHANGED vars


\* process_input: conn.send, or the exception is printed.
Send(p) ==
    /\ pc[p] = "answered"
    /\ Goto(p, "idle")
    /\ bucket' = [bucket EXCEPT ![p] = NoBucket]
    /\ depth' = [depth EXCEPT ![p] = 0]
    /\ code' = [code EXCEPT ![p] = 0]
    /\ fulfilled' = [fulfilled EXCEPT ![p] = FALSE]
    /\ UNCHANGED <<contents, deleter, removals, faults>>

-----------------------------------------------------------------------------
\* Minio.deleteBucket: list and erase until the bucket is empty or the attempts
\* are used up, then remove it; minio refuses that while it holds anything, and
\* the exception is printed.
DeleteBucket(b) ==
    /\ dpc = "idle" /\ removals < MaxRemovals
    /\ b \in DOMAIN contents
    /\ dpc' = "list" /\ victim' = b /\ attempts' = MaxAttempts
    /\ UNCHANGED <<contents, proxy, listed, removals, faults>>

ListObjects ==
    /\ dpc = "list"
    /\ \/ /\ attempts > 0 /\ contents[victim] # {}
          /\ dpc' = "erase" /\ listed' = contents[victim] /\ attempts' = attempts - 1
       \/ /\ attempts = 0 \/ contents[victim] = {}
          /\ dpc' = "remove" /\ UNCHANGED <<listed, attempts>>
    /\ UNCHANGED <<contents, proxy, victim, removals, faults>>

RemoveObjects ==
    /\ dpc = "erase"
    /\ contents' = [contents EXCEPT ![victim] = @ \ listed]
    /\ dpc' = "list" /\ listed' = {}
    /\ UNCHANGED <<proxy, victim, attempts, removals, faults>>

RemoveBucket ==
    /\ dpc = "remove"
    /\ \/ /\ contents[victim] = {}
          /\ contents' = [b \in DOMAIN contents \ {victim} |-> contents[b]]
          /\ removals' = removals + 1
       \/ contents[victim] # {} /\ UNCHANGED <<contents, removals>>
    /\ dpc' = "idle" /\ victim' = NoBucket /\ attempts' = 0
    /\ UNCHANGED <<proxy, listed, faults>>

-----------------------------------------------------------------------------
Thread(p) ==
    \/ Forward(p) \/ MakeBucket(p) \/ AskIdentity(p) \/ AskMinio(p)
    \/ Spin(p) \/ Send(p)

Next ==
    \/ \E p \in Proxies : TreatRequest(p) \/ Thread(p)
    \/ \E b \in Buckets : DeleteBucket(b)
    \/ ListObjects \/ RemoveObjects \/ RemoveBucket

Spec == Init /\ [][Next]_vars

\* The thread of a proxy goes on with the request it has taken.
FairSpec == Spec /\ \A p \in Proxies : WF_vars(Thread(p))

-----------------------------------------------------------------------------
HollowOk(p) == pc[p] = "answered" /\ code[p] = 200 /\ ~fulfilled[p]

\* A 200 means that the upload is stored, or the credentials are there, unless
\* a call to minio failed, or a bucket was removed while forward was creating
\* it: what the second call of forward returns is ignored.
OkMeansDone ==
    \A p \in Proxies : HollowOk(p) => faults > 0 \/ (removals > 0 /\ depth[p] > 0)

\* forward calls itself once, and once more for every bucket removed meanwhile.
RetriesArePaidFor == \A p \in Proxies : depth[p] <= removals + 1

\* Why: a call of forward that has run ahead of the removals made its bucket
\* after the last of them, so it finds the bucket and goes no deeper.
RetryInv ==
    \A p \in Proxies :
        /\ pc[p] \in {"idle", "token", "grant"} \/ bucket[p] = NoBucket => depth[p] = 0
        /\ pc[p] = "make" => bucket[p] \in Buckets /\ depth[p] <= removals
        /\ pc[p] = "forward" /\ depth[p] > removals => bucket[p] \in DOMAIN contents

ThreadTypes ==
    /\ pc \in [Proxies -> Places] /\ bucket \in [Proxies -> Buckets \cup {NoBucket}]
    /\ depth \in [Proxies -> Nat] /\ code \in [Proxies -> Codes]
    /\ fulfilled \in [Proxies -> BOOLEAN]
    /\ removals \in Nat /\ faults \in Nat

\* The inductive invariant behind OkMeansDone and RetriesArePaidFor: the types of
\* the threads' state, the reason why the retries are bounded, and the two claims.
IInv == ThreadTypes /\ RetryInv /\ RetriesArePaidFor /\ OkMeansDone

\* What the types of the rest hang on: only deleteBucket removes a bucket, so the
\* one it works on is there until it has done so, and its removal is within the
\* bound.
DeleterInv ==
    /\ contents \in UNION {[B -> SUBSET Proxies] : B \in SUBSET Buckets}
    /\ dpc \in {"idle", "list", "erase", "remove"}
    /\ victim \in Buckets \cup {NoBucket} /\ listed \subseteq Proxies
    /\ attempts \in 0..MaxAttempts
    /\ removals \in 0..MaxRemovals /\ faults \in 0..MaxFaults
    /\ dpc # "idle" => victim \in DOMAIN contents /\ removals < MaxRemovals


\* What the storage test expects of storeObject: once it has returned, getObject
\* finds what was stored.
AcknowledgedIsStored == \A p \in Proxies : bucket[p] \in Buckets => ~HollowOk(p)

\* What the storage client relies on: the proxy creates the bucket as needed, so
\* that an upload is not refused on account of it when nothing else fails.
MissingBucketIsHandled ==
    \A p \in Proxies : pc[p] = "answered" /\ code[p] = 409 => bucket[p] = NoBucket
=============================================================================
