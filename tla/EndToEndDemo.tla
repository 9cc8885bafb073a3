---------------------------- MODULE EndToEndDemo ----------------------------
(***************************************************************************)
(* The whole path of a shared file, as EndToEndDemo.kt walks it: a user    *)
(* and a group are created, an envelope is fetched from the access-control *)
(* service and verified, the file is uploaded with Client.kt to the S3     *)
(* storage behind Minio.kt, retrieved, and the bucket is deleted in the    *)
(* end.  The demos share the group, the bucket and the file name.          *)
(*                                                                         *)
(* The service is Database; the storage is one bucket with one object.  An *)
(* envelope is the set of keys it is sealed for.  A demo stands for its    *)
(* user id, a random UUID, for its random user key and for its dummyData.  *)
(***************************************************************************)
EXTENDS Naturals

CONSTANTS
    Demos,         \* the running copies of the program
    AttemptsLeft,  \* 20 in emptyBucket
    None           \* no call, no object, no result

groupId == "endtoend"

Asking == {"create_user", "create_group", "get_keys_of_group"}
Requests == [op : Asking, gname : {groupId}, uid : Demos, key : Demos]
Objects == [keys : SUBSET Demos, data : Demos \cup {"earlier"}]

ASSUME DemoAssumption ==
    /\ Demos # {} /\ AttemptsLeft \in Nat \ {0}
    /\ "threw" \notin Demos
    /\ None \notin Demos \cup {"threw", "earlier"} \cup Requests \cup Objects

VARIABLES
    users_, groups_, call, ret,  \* the database, as in Database
    bucket,        \* does the bucket exist?
    object,        \* what it holds: an envelope and the data, or None
    pc,            \* pc[d]: the call demo d is at
    envelope,      \* envelope[d]: the keys the envelope of d is sealed for
    result,        \* result[d]: what d retrieved, "threw", or None
    attemptsLeft,  \* attemptsLeft[d]: of emptyBucket
    troubled       \* history: the demos and blocks in which a call was lost

Db == INSTANCE Database WITH
          Users <- Demos, Keys <- Demos, Threads <- Demos, Groups <- {groupId},
          NoCall <- None

dbvars == <<users_, groups_, call, ret>>
storage == <<bucket, object>>
vars == <<dbvars, storage, pc, envelope, result, attemptsLeft, troubled>>

Uploading == {"exists", "make", "policy", "store", "get"}
Deleting == {"delete", "empty", "list", "purge", "remove"}

TypeOK ==
    /\ users_ \in Db!UserMap /\ groups_ \in Db!GroupMap
    /\ call \in [Demos -> Requests \cup {None}] /\ ret \in [Demos -> Db!Answers]
    /\ bucket \in BOOLEAN
    /\ object \in Objects \cup {None}
    /\ object # None => bucket
    /\ pc \in [Demos -> {"start", "done"} \cup Asking \cup Uploading \cup Deleting]
    /\ envelope \in [Demos -> SUBSET Demos]
    /\ result \in [Demos -> Demos \cup {"earlier", "threw", None}]
    /\ attemptsLeft \in [Demos -> 0 .. AttemptsLeft]
    /\ troubled \subseteq Demos \X {"try", "finally"}

\* The service was just started; the storage may hold what an earlier demo,
\* whose user the service has forgotten, has left there.
Init ==
    /\ Db!Init
    /\ bucket \in BOOLEAN
    /\ object \in {None} \cup (IF bucket THEN {[keys |-> {}, data |-> "earlier"]} ELSE {})
    /\ pc = [d \in Demos |-> "start"]
    /\ envelope = [d \in Demos |-> {}]
    /\ result = [d \in Demos |-> None]
    /\ attemptsLeft = [d \in Demos |-> AttemptsLeft]
    /\ troubled = {}

Goto(d, place) == pc' = [pc EXCEPT ![d] = place]

\* An exception leaves the try block: the finally block is next.
Throw(d) ==
    /\ Goto(d, "delete")
    /\ result' = [result EXCEPT ![d] = "threw"]

-----------------------------------------------------------------------------
\* A call to the service: its request is under way.
Ask(d, op) ==
    /\ call' = [call EXCEPT ![d] = [op |-> op, gname |-> groupId, uid |-> d, key |-> d]]
    /\ Goto(d, op)
    /\ UNCHANGED <<users_, groups_, ret>>

Start(d) ==
    /\ pc[d] = "start"
    /\ Ask(d, "create_user")
    /\ UNCHANGED <<storage, envelope, result, attemptsLeft, troubled>>

\* The service executes a request, wherever its demo has got to meanwhile.
Serve(d) ==
    /\ Db!Operation(d)
    /\ UNCHANGED <<storage, pc, envelope, result, attemptsLeft, troubled>>

Answered(d, op) == pc[d] = op /\ call[d] = None

\* createUser, which cannot be refused, the user id being new; createGroup next.
UserCreated(d) ==
    /\ Answered(d, "create_user") /\ ret[d].status = "ok"
    /\ Ask(d, "create_group")
    /\ UNCHANGED <<storage, envelope, result, attemptsLeft, troubled>>

\* Mutant: a demo that finds the group there joins it.
GroupJoined(d) ==
    /\ Answered(d, "create_group")
    /\ call' = [call EXCEPT ![d] = [op |-> "get_keys_of_group", gname |-> groupId,
                                    uid |-> d, key |-> d]]
    /\ Goto(d, "get_keys_of_group")
    /\ groups_' = [g \in DOMAIN groups_ |-> groups_[g] \cup {d}]
    /\ UNCHANGED <<users_, ret, storage, envelope, result, attemptsLeft, troubled>>

\* createGroup: that the group exists already is printed only.  Then
\* generateSymmetricKeyAndGetEnvelope asks for the envelope.
GroupCreated(d) ==
    /\ Answered(d, "create_group")
    /\ Ask(d, "get_keys_of_group")
    /\ UNCHANGED <<storage, envelope, result, attemptsLeft, troubled>>

\* verifyEnvelope opens the envelope: without an entry for the user it throws.
GotEnvelope(d) ==
    LET opens == ret[d].status = "ok" /\ d \in ret[d].keys IN
    /\ Answered(d, "get_keys_of_group")
    /\ \/ opens /\ Goto(d, "exists") /\ UNCHANGED result
       \/ ~opens /\ Throw(d)
    /\ envelope' = [envelope EXCEPT ![d] = ret[d].keys]
    /\ UNCHANGED <<dbvars, storage, attemptsLeft, troubled>>

-----------------------------------------------------------------------------
\* Mutant: the bucket is taken to be there.
ExistsAlways(d) ==
    /\ pc[d] = "exists"
    /\ Goto(d, "store")
    /\ UNCHANGED <<dbvars, storage, envelope, result, attemptsLeft, troubled>>

\* uploadToCloud, with createBucketIfNotExists of Minio.kt: ask, make, set the
\* policy.  To make a bucket that exists, or to use one that does not, throws.
Exists(d) ==
    /\ pc[d] = "exists"
    /\ Goto(d, IF bucket THEN "store" ELSE "make")
    /\ UNCHANGED <<dbvars, storage, envelope, result, attemptsLeft, troubled>>

Make(d) ==
    /\ pc[d] = "make"
    /\ bucket' = TRUE
    /\ IF bucket THEN Throw(d) ELSE Goto(d, "policy") /\ UNCHANGED result
    /\ UNCHANGED <<dbvars, object, envelope, attemptsLeft, troubled>>

SetPolicy(d) ==
    /\ pc[d] = "policy"
    /\ \/ bucket /\ Goto(d, "store") /\ UNCHANGED result
       \/ ~bucket /\ Throw(d)
    /\ UNCHANGED <<dbvars, storage, envelope, attemptsLeft, troubled>>

\* encryptAndEncodeFile and storeObject: envelope and data are one object.
Store(d) ==
    /\ pc[d] = "store"
    /\ \/ /\ bucket
          /\ object' = [keys |-> envelope[d], data |-> d]
          /\ Goto(d, "get") /\ UNCHANGED result
       \/ ~bucket /\ Throw(d) /\ UNCHANGED object
    /\ UNCHANGED <<dbvars, bucket, envelope, attemptsLeft, troubled>>

\* retrieveFromCloud: tryDecrypt opens the envelope that came with the data.
Retrieve(d) ==
    /\ pc[d] = "get"
    /\ IF object # None /\ d \in object.keys
       THEN result' = [result EXCEPT ![d] = object.data] /\ Goto(d, "delete")
       ELSE Throw(d)
    /\ UNCHANGED <<dbvars, storage, envelope, attemptsLeft, troubled>>

-----------------------------------------------------------------------------
deleteFrame == <<dbvars, envelope, result, troubled>>

\* The finally block: deleteBucket of Minio.kt.  Whatever it throws is printed.
Delete(d) ==
    /\ pc[d] = "delete"
    /\ Goto(d, IF bucket THEN "empty" ELSE "done")
    /\ UNCHANGED storage /\ UNCHANGED attemptsLeft /\ UNCHANGED deleteFrame

\* emptyBucket asks again.
EmptyBucket(d) ==
    /\ pc[d] = "empty"
    /\ Goto(d, IF bucket THEN "list" ELSE "remove")
    /\ UNCHANGED storage /\ UNCHANGED attemptsLeft /\ UNCHANGED deleteFrame

\* Mutant: the loop goes on when the attempts are over.
ListForever(d) ==
    /\ pc[d] = "list"
    /\ attemptsLeft' = [attemptsLeft EXCEPT ![d] = IF @ = 0 THEN AttemptsLeft ELSE @ - 1]
    /\ \/ ~bucket /\ Goto(d, "done") /\ UNCHANGED troubled
       \/ bucket /\ object = None /\ Goto(d, "remove") /\ UNCHANGED troubled
       \/ bucket /\ object # None /\ Goto(d, "purge") /\ UNCHANGED troubled
       \/ troubled' = troubled \cup {<<d, "finally">>} /\ UNCHANGED pc
    /\ UNCHANGED <<dbvars, storage, envelope, result>>

\* The loop of emptyBucket: list the objects and remove them, until there are
\* none.  An answer that does not parse costs an attempt; a bucket that is gone
\* throws.
List(d) ==
    /\ pc[d] = "list"
    /\ \/ attemptsLeft[d] = 0 /\ Goto(d, "remove") /\ UNCHANGED <<attemptsLeft, troubled>>
       \/ /\ attemptsLeft[d] > 0
          /\ attemptsLeft' = [attemptsLeft EXCEPT ![d] = @ - 1]
          /\ \/ ~bucket /\ Goto(d, "done") /\ UNCHANGED troubled
             \/ bucket /\ object = None /\ Goto(d, "remove") /\ UNCHANGED troubled
             \/ bucket /\ object # None /\ Goto(d, "purge") /\ UNCHANGED troubled
             \/ troubled' = troubled \cup {<<d, "finally">>} /\ UNCHANGED pc
    /\ UNCHANGED <<dbvars, storage, envelope, result>>

\* Removing an object that is gone already is no error; here too an answer that
\* does not parse is printed and the loop goes on.
Purge(d) ==
    /\ pc[d] = "purge"
    /\ \/ /\ object' = None
          /\ Goto(d, IF bucket THEN "list" ELSE "done") /\ UNCHANGED troubled
       \/ /\ object' \in {object, None}
          /\ Goto(d, "list") /\ troubled' = troubled \cup {<<d, "finally">>}
    /\ UNCHANGED <<dbvars, bucket, attemptsLeft, envelope, result>>

\* removeBucket: a bucket that is gone, or not empty, is an exception, printed.
RemoveBucket(d) ==
    /\ pc[d] = "remove"
    /\ bucket' = (bucket /\ object # None)
    /\ Goto(d, "done")
    /\ UNCHANGED object /\ UNCHANGED attemptsLeft /\ UNCHANGED deleteFrame

-----------------------------------------------------------------------------
Try(d) ==
    \/ Start(d) \/ UserCreated(d) \/ GroupCreated(d) \/ GotEnvelope(d)
    \/ Exists(d) \/ Make(d) \/ SetPolicy(d) \/ Store(d) \/ Retrieve(d)

Finally(d) == Delete(d) \/ EmptyBucket(d) \/ List(d) \/ Purge(d) \/ RemoveBucket(d)

\* What a lost call may have done to the storage before the demo learns of it.
Lost(d) ==
    /\ bucket' \in {bucket} \cup (IF pc[d] = "make" THEN {TRUE}
                                  ELSE IF pc[d] = "remove" THEN {bucket /\ object # None}
                                  ELSE {})
    /\ object' \in {object} \cup (IF pc[d] = "store" /\ bucket
                                  THEN {[keys |-> envelope[d], data |-> d]}
                                  ELSE IF pc[d] = "purge" THEN {None}
                                  ELSE {})

\* Mutant: there is no finally block.
BreakForGood(d) ==
    /\ pc[d] \in Asking \cup Uploading
    /\ Goto(d, "done")
    /\ result' = [result EXCEPT ![d] = "threw"]
    /\ troubled' = troubled \cup {<<d, "try">>}
    /\ call' \in {call, [call EXCEPT ![d] = None]}
    /\ Lost(d)
    /\ UNCHANGED <<users_, groups_, ret, envelope, attemptsLeft>>

\* The connection to the service or to the storage breaks, or a call times out.
\* A request to the service may still be executed, later.
Break(d) ==
    /\ \/ pc[d] \in Asking \cup Uploading /\ Throw(d) /\ troubled' = troubled \cup {<<d, "try">>}
       \/ /\ pc[d] \in Deleting
          /\ Goto(d, "done") /\ UNCHANGED result
          /\ troubled' = troubled \cup {<<d, "finally">>}
    /\ call' \in {call, [call EXCEPT ![d] = None]}
    /\ Lost(d)
    /\ UNCHANGED <<users_, groups_, ret, envelope, attemptsLeft>>

AllDone == \A d \in Demos : pc[d] = "done" /\ call[d] = None

Next ==
    \/ \E d \in Demos : Try(d) \/ Serve(d) \/ Finally(d) \/ Break(d)
    \/ AllDone /\ UNCHANGED vars

Spec == Init /\ [][Next]_vars

\* Every demo runs, and the service answers.
FairSpec ==
    /\ Spec
    /\ \A d \in Demos : WF_vars(Try(d) \/ Finally(d)) /\ WF_vars(Serve(d))

-----------------------------------------------------------------------------
\* What the comment of endToEndDemo promises, "the same dummyData after it has
\* done a round trip", however many demos share the group, the bucket and the
\* file name: none of them gets the data of another.
ReturnsOwnData == \A d \in Demos : result[d] \in {d, "threw", None}

\* A demo whose own calls all get through fails only because of another one: it
\* has lost the group to it, or the other's finally block has taken the bucket.
FailsOnlyForOthers ==
    \A d \in Demos :
        result[d] = "threw" /\ <<d, "try">> \notin troubled
        => \E e \in Demos \ {d} :
              \/ pc[e] \in Deleting \cup {"done"}
              \/ groupId \in DOMAIN groups_ /\ e \in groups_[groupId]

\* createBucketIfNotExists asks first and makes the bucket next, and nothing
\* keeps another client from making it in between: here no demo is caught by
\* that, since only the one that created the group opens its envelope.
BucketIsNotRaced == \A d \in Demos : pc[d] = "make" => ~bucket

\* When every demo is over the bucket is gone, with what an earlier demo had
\* left in it, unless a call was lost in a finally block: a removal that came
\* too early, or met an object just stored, is made good by another demo.
NothingStaysBehind ==
    AllDone /\ (\A d \in Demos : <<d, "finally">> \notin troubled) => ~bucket

\* Every demo comes to its end, in any case.
DemosEnd == \A d \in Demos : <>(pc[d] = "done")

-----------------------------------------------------------------------------
\* Why no demo meets another's data.  Users keep the key they drew; the group has
\* one member, whoever created it; the keys the service answers with are that
\* member's; and so a demo that goes on to upload is that member.
ServiceInv ==
    /\ \A u \in DOMAIN users_ : users_[u] = u
    /\ DOMAIN groups_ \subseteq {groupId}
    /\ groupId \in DOMAIN groups_ => \E e \in DOMAIN users_ : groups_[groupId] = {e}
    /\ \A d \in Demos : call[d] # None => call[d].op \in Asking /\ call[d].gname = groupId
                                          /\ call[d].uid = d /\ call[d].key = d
    /\ \A d \in Demos : ret[d].keys # {} => /\ groupId \in DOMAIN groups_
                                            /\ ret[d].keys = groups_[groupId]

UploadInv ==
    /\ \A d \in Demos : pc[d] \in Uploading => /\ groupId \in DOMAIN groups_
                                               /\ groups_[groupId] = {d}
                                               /\ envelope[d] = {d}
    /\ object # None => object.keys \subseteq {object.data}

DemoInv == ServiceInv /\ UploadInv /\ ReturnsOwnData /\ BucketIsNotRaced

\* Why only another demo makes one fail.  As long as no call of d is lost in its
\* try block, what the service has for d is what the next call of d needs, and its
\* answer is to the call d waits for; the bucket and the object that d relies on
\* are there until another demo is in its finally block.
Over(d) == pc[d] \in Deleting \cup {"done"}
OtherOver(d) == \E e \in Demos \ {d} : Over(e)

AskingInv ==
    \A d \in Demos : <<d, "try">> \notin troubled =>
        /\ pc[d] \in Asking /\ call[d] # None => call[d].op = pc[d]
        /\ pc[d] = "create_user" /\ call[d] = None => d \in DOMAIN users_
        /\ pc[d] = "create_group" => d \in DOMAIN users_
        /\ pc[d] = "create_group" /\ call[d] = None => groupId \in DOMAIN groups_
        /\ pc[d] = "get_keys_of_group" => groupId \in DOMAIN groups_
        /\ pc[d] = "get_keys_of_group" /\ call[d] = None =>
              ret[d].status = "ok" /\ ret[d].keys = groups_[groupId]

StorageInv ==
    \A d \in Demos :
        /\ pc[d] \in {"policy", "store", "get"} => bucket \/ OtherOver(d)
        /\ pc[d] = "get" => (object # None /\ d \in object.keys) \/ OtherOver(d)

FailureInv == AskingInv /\ StorageInv /\ FailsOnlyForOthers

\* Why the bucket goes in the end: while it is there, some demo is still to take it
\* away.  That is a demo before the loop of emptyBucket, or one in the loop that
\* has an attempt left for the object, or one past it that finds no object.
WillClean(d) ==
    \/ pc[d] \notin {"list", "remove", "done"}
    \/ pc[d] = "list" /\ (attemptsLeft[d] > 0 \/ object = None)
    \/ pc[d] = "remove" /\ object = None

CleanupInv ==
    /\ \A d \in Demos : pc[d] \notin {"list", "purge", "remove", "done"}
                         => attemptsLeft[d] = AttemptsLeft
    /\ bucket /\ (\A d \in Demos : <<d, "finally">> \notin troubled)
       => \E d \in Demos : WillClean(d)

-----------------------------------------------------------------------------
\* How far a demo is from its end: the calls before the loop of emptyBucket have
\* their place, and a round of the loop costs an attempt.
Stage == [empty |-> 4, delete |-> 5, get |-> 6, store |-> 7, policy |-> 8, make |-> 9,
          exists |-> 10, get_keys_of_group |-> 11, create_group |-> 12,
          create_user |-> 13, start |-> 14]

Remaining(place, a) ==
    CASE place = "done" -> 0
      [] place = "remove" -> 1
      [] place = "list" -> 2 * a + 2
      [] place = "purge" -> 2 * a + 3
      [] OTHER -> 2 * AttemptsLeft + Stage[place]

Rank(d) == Remaining(pc[d], attemptsLeft[d])

\* Every step a demo takes, whether its call is answered, throws or is lost, brings
\* it closer to its end, and no step of another demo or of the service sets it back:
\* endToEndDemo makes at most 2 * AttemptsLeft + 14 calls, in any case.
DemosAdvance ==
    /\ [](\A d \in Demos : Rank(d) \in 0 .. 2 * AttemptsLeft + 14)
    /\ [][\A d \in Demos : /\ Rank(d)' <= Rank(d)
                           /\ Try(d) \/ Finally(d) \/ Break(d) => Rank(d)' < Rank(d)]_vars
=============================================================================
