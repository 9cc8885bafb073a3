-------------------------- MODULE EndToEndDemoProofs --------------------------
(***************************************************************************)
(* For any number of demos and attempts: a demo retrieves its own data or  *)
(* nothing, no two of them meet in createBucketIfNotExists, a demo fails   *)
(* only because of a lost call or of another demo, the bucket is gone when *)
(* all are over, and each demo makes a bounded number of calls.            *)
(***************************************************************************)
EXTENDS EndToEndDemo, TLAPS

\* The shape of the per-demo state.
Shapes ==
    /\ call \in [Demos -> Requests \cup {None}] /\ DOMAIN ret = Demos
    /\ pc \in [Demos -> {"start", "done"} \cup Asking \cup Uploading \cup Deleting]
    /\ DOMAIN envelope = Demos
    /\ result \in [Demos -> Demos \cup {"earlier", "threw", None}]

Inv == Shapes /\ DemoInv

\* What the service does with the requests of the demos: users_ and groups_ only
\* grow, the group gets one member, an answer holds the key of that member.
LEMMA ServeKeeps ==
    ASSUME Inv, NEW d \in Demos, Db!Operation(d)
    PROVE  /\ call' \in [Demos -> Requests \cup {None}] /\ DOMAIN ret' = Demos
           /\ ServiceInv'
           /\ groupId \in DOMAIN groups_ => /\ groupId \in DOMAIN groups_'
                                            /\ groups_'[groupId] = groups_[groupId]
<1> USE DemoAssumption DEF Inv, Shapes, DemoInv, Db!Finish, Db!Refuse, Db!Answer, Db!KeyArray
<1>1. call[d] # None /\ call[d].op \in Asking /\ call[d].gname = groupId
      /\ call[d].uid = d /\ call[d].key = d
      BY DEF Db!Operation, Db!CreateUser, Db!CreateGroup, Db!AddUserToGroup,
             Db!RemoveUserFromGroup, Db!DeleteUser, Db!DeleteAllData, Db!IsUserPartOfGroup,
             Db!GetKeysOfGroup, Db!Executes, ServiceInv
<1>2. CASE Db!CreateUser(d)
   <2>1. CASE d \in DOMAIN users_
         BY <1>1, <1>2, <2>1 DEF Db!CreateUser, ServiceInv
   <2>2. CASE d \notin DOMAIN users_
      <3>1. /\ users_' = Db!Put(users_, d, d) /\ groups_' = groups_
            /\ ret' = [ret EXCEPT ![d] = Db!Answer("ok")]
            /\ call' = [call EXCEPT ![d] = None]
            BY <1>1, <1>2, <2>2 DEF Db!CreateUser
      <3>2. DOMAIN users_' = DOMAIN users_ \cup {d} /\ \A u \in DOMAIN users_' : users_'[u] = u
            BY <3>1 DEF Db!Put, ServiceInv
      <3> QED BY <3>1, <3>2 DEF ServiceInv
   <2> QED BY <2>1, <2>2
<1>3. CASE Db!CreateGroup(d)
   <2>1. CASE groupId \in DOMAIN groups_ \/ d \notin DOMAIN users_
         BY <1>1, <1>3, <2>1 DEF Db!CreateGroup, ServiceInv
   <2>2. CASE groupId \notin DOMAIN groups_ /\ d \in DOMAIN users_
      <3>1. /\ groups_' = Db!Put(groups_, groupId, {d}) /\ users_' = users_
            /\ ret' = [ret EXCEPT ![d] = Db!Answer("ok")]
            /\ call' = [call EXCEPT ![d] = None]
            BY <1>1, <1>3, <2>2 DEF Db!CreateGroup
      <3>2. DOMAIN groups_' = {groupId} /\ groups_'[groupId] = {d}
            BY <3>1 DEF Db!Put, ServiceInv
      <3> QED BY <2>2, <3>1, <3>2 DEF ServiceInv
   <2> QED BY <2>1, <2>2
<1>4. CASE Db!GetKeysOfGroup(d)
   <2>1. CASE groupId \notin DOMAIN groups_
         BY <1>1, <1>4, <2>1 DEF Db!GetKeysOfGroup, ServiceInv
   <2>2. CASE groupId \in DOMAIN groups_
      <3>1. PICK e \in DOMAIN users_ : groups_[groupId] = {e}
            BY <2>2 DEF ServiceInv
      <3>2. {users_[u] : u \in groups_[groupId]} = {e}
            BY <3>1 DEF ServiceInv
      <3>3. /\ users_' = users_ /\ groups_' = groups_
            /\ ret' = [ret EXCEPT ![d] = Db!KeyArray({e})]
            /\ call' = [call EXCEPT ![d] = None]
            BY <1>1, <1>4, <2>2, <3>1, <3>2 DEF Db!GetKeysOfGroup
      <3> QED BY <2>2, <3>1, <3>3 DEF ServiceInv
   <2> QED BY <2>1, <2>2
<1> QED BY <1>1, <1>2, <1>3, <1>4 DEF Asking, Db!Operation, Db!AddUserToGroup,
             Db!RemoveUserFromGroup, Db!DeleteUser, Db!DeleteAllData, Db!IsUserPartOfGroup,
             Db!Executes

\* A demo asks the service for something in its own name.
LEMMA AskKeeps ==
    ASSUME Inv, NEW d \in Demos, NEW op \in Asking, Ask(d, op)
    PROVE  call' \in [Demos -> Requests \cup {None}] /\ DOMAIN ret' = Demos /\ ServiceInv'
<1>1. [op |-> op, gname |-> groupId, uid |-> d, key |-> d] \in Requests
      BY DEF Requests
<1> QED BY <1>1 DEF Ask, Inv, Shapes, DemoInv, ServiceInv

\* What is said of the service holds as long as nothing happens to it.
LEMMA ServiceFrame ==
    ASSUME Inv, UNCHANGED dbvars
    PROVE  call' \in [Demos -> Requests \cup {None}] /\ DOMAIN ret' = Demos /\ ServiceInv'
BY DEF dbvars, Inv, Shapes, DemoInv, ServiceInv

\* The try block, up to the envelope: it is the key of the group's member that
\* opens it.
LEMMA AskingKeeps ==
    ASSUME Inv, NEW d \in Demos,
           Start(d) \/ UserCreated(d) \/ GroupCreated(d) \/ GotEnvelope(d)
    PROVE  Inv'
<1> USE DemoAssumption DEF Inv, DemoInv, Goto
<1>1. CASE Start(d) \/ UserCreated(d) \/ GroupCreated(d)
   <2>1. PICK op \in Asking : Ask(d, op)
         BY <1>1 DEF Start, UserCreated, GroupCreated, Asking
   <2>2. UNCHANGED <<storage, envelope, result>> /\ UNCHANGED <<users_, groups_>>
         BY <1>1, <2>1 DEF Start, UserCreated, GroupCreated, Ask
   <2>3. call' \in [Demos -> Requests \cup {None}] /\ DOMAIN ret' = Demos /\ ServiceInv'
         BY <2>1, AskKeeps
   <2>4. pc' = [pc EXCEPT ![d] = op] /\ op \notin Uploading
         BY <2>1 DEF Ask, Asking, Uploading
   <2>5. Shapes'
         BY <2>2, <2>3, <2>4 DEF Shapes
   <2> QED BY <2>2, <2>3, <2>4, <2>5 DEF Shapes, UploadInv, storage, ReturnsOwnData,
              BucketIsNotRaced, Uploading
<1>2. CASE GotEnvelope(d)
   <2>1. UNCHANGED <<dbvars, storage>>
         BY <1>2 DEF GotEnvelope
   <2>2. call' \in [Demos -> Requests \cup {None}] /\ DOMAIN ret' = Demos /\ ServiceInv'
         BY <2>1, ServiceFrame
   <2>3. d \in ret[d].keys => /\ groupId \in DOMAIN groups_ /\ groups_[groupId] = {d}
                              /\ ret[d].keys = {d}
         BY DEF ServiceInv
   <2>4. CASE ret[d].status = "ok" /\ d \in ret[d].keys
      <3>1. /\ pc' = [pc EXCEPT ![d] = "exists"] /\ result' = result
            /\ envelope' = [envelope EXCEPT ![d] = {d}]
            BY <1>2, <2>3, <2>4 DEF GotEnvelope
      <3> QED BY <2>1, <2>2, <2>3, <2>4, <3>1 DEF Shapes, UploadInv, storage, dbvars,
                 ReturnsOwnData, BucketIsNotRaced, Uploading
   <2>5. CASE ~(ret[d].status = "ok" /\ d \in ret[d].keys)
      <3>1. /\ pc' = [pc EXCEPT ![d] = "delete"] /\ result' = [result EXCEPT ![d] = "threw"]
            /\ envelope' = [envelope EXCEPT ![d] = ret[d].keys]
            BY <1>2, <2>5 DEF GotEnvelope, Throw
      <3> QED BY <2>1, <2>2, <3>1 DEF Shapes, UploadInv, storage, dbvars,
                 ReturnsOwnData, BucketIsNotRaced, Uploading, Deleting
   <2> QED BY <2>4, <2>5
<1> QED BY <1>1, <1>2

\* uploadToCloud and retrieveFromCloud: the demo there is the group's one member,
\* so nobody else makes the bucket or stores an object its key opens.
LEMMA UploadingKeeps ==
    ASSUME Inv, NEW d \in Demos,
           Exists(d) \/ Make(d) \/ SetPolicy(d) \/ Store(d) \/ Retrieve(d)
    PROVE  Inv'
<1> USE DemoAssumption DEF Inv, DemoInv, Goto, Throw
<1>1. call' \in [Demos -> Requests \cup {None}] /\ DOMAIN ret' = Demos /\ ServiceInv'
      /\ UNCHANGED groups_ /\ UNCHANGED envelope
   <2>1. UNCHANGED dbvars /\ UNCHANGED envelope
         BY DEF Exists, Make, SetPolicy, Store, Retrieve
   <2> QED BY <2>1, ServiceFrame DEF dbvars
<1>2. pc[d] \in Uploading
      BY DEF Exists, Make, SetPolicy, Store, Retrieve, Uploading
<1>3. envelope[d] = {d} /\ \A e \in Demos \ {d} : pc[e] \notin Uploading
      BY <1>2 DEF UploadInv
<1>4. CASE Exists(d)
      BY <1>1, <1>2, <1>3, <1>4 DEF Exists, Shapes, UploadInv, storage, ReturnsOwnData,
         BucketIsNotRaced, Uploading, Deleting
<1>5. CASE Make(d)
      BY <1>1, <1>2, <1>3, <1>5 DEF Make, Shapes, UploadInv, ReturnsOwnData,
         BucketIsNotRaced, Uploading, Deleting
<1>6. CASE SetPolicy(d)
      BY <1>1, <1>2, <1>3, <1>6 DEF SetPolicy, Shapes, UploadInv, storage, ReturnsOwnData,
         BucketIsNotRaced, Uploading, Deleting
<1>7. CASE Store(d)
      BY <1>1, <1>2, <1>3, <1>7 DEF Store, Shapes, UploadInv, ReturnsOwnData,
         BucketIsNotRaced, Uploading, Deleting
<1>8. CASE Retrieve(d)
      BY <1>1, <1>2, <1>3, <1>8 DEF Retrieve, Shapes, UploadInv, storage, ReturnsOwnData,
         BucketIsNotRaced, Uploading, Deleting
<1> QED BY <1>4, <1>5, <1>6, <1>7, <1>8

\* The finally block takes things away only.
LEMMA FinallyKeeps ==
    ASSUME Inv, NEW d \in Demos, Finally(d)
    PROVE  Inv'
<1> USE DemoAssumption DEF Inv, DemoInv, Goto
<1>1. UNCHANGED <<dbvars, envelope, result>>
      BY DEF Finally, Delete, EmptyBucket, List, Purge, RemoveBucket, deleteFrame
<1>2. call' \in [Demos -> Requests \cup {None}] /\ DOMAIN ret' = Demos /\ ServiceInv'
      BY <1>1, ServiceFrame
<1>3. pc[d] \in Deleting /\ (pc' = pc \/ \E place \in Deleting \cup {"done"} :
                                            pc' = [pc EXCEPT ![d] = place])
      BY DEF Finally, Delete, EmptyBucket, List, Purge, RemoveBucket, Deleting
<1>4. (bucket' => bucket) /\ object' \in {object, None}
   <2>1. CASE RemoveBucket(d)
      <3>1. bucket' = (bucket /\ object # None) /\ object' = object
            BY <2>1 DEF RemoveBucket
      <3> QED BY <3>1
   <2>2. CASE Delete(d) \/ EmptyBucket(d) \/ List(d) \/ Purge(d)
         BY <2>2 DEF Delete, EmptyBucket, List, Purge, storage
   <2> QED BY <2>1, <2>2 DEF Finally
<1>5. Shapes' /\ \A e \in Demos : pc'[e] \in Uploading => pc'[e] = pc[e]
      BY <1>1, <1>2, <1>3 DEF Shapes, Uploading, Deleting
<1> QED BY <1>1, <1>2, <1>4, <1>5 DEF UploadInv, ReturnsOwnData, BucketIsNotRaced, dbvars,
           Uploading

\* A call that is lost ends the block; what it may have done is what it does.
LEMMA BreakKeeps ==
    ASSUME Inv, NEW d \in Demos, Break(d)
    PROVE  Inv'
<1> USE DemoAssumption DEF Inv, DemoInv, Goto, Throw
<1>1. /\ UNCHANGED <<users_, groups_, ret, envelope>>
      /\ call' \in {call, [call EXCEPT ![d] = None]}
      BY DEF Break
<1>2. call' \in [Demos -> Requests \cup {None}] /\ DOMAIN ret' = Demos /\ ServiceInv'
      BY <1>1 DEF Shapes, ServiceInv
<1>3. /\ \E place \in {"delete", "done"} : pc' = [pc EXCEPT ![d] = place]
      /\ result' \in {result, [result EXCEPT ![d] = "threw"]}
      BY DEF Break
<1>4. Shapes' /\ \A e \in Demos : pc'[e] \in Uploading => pc'[e] = pc[e] /\ e # d
      BY <1>1, <1>2, <1>3 DEF Shapes, Uploading, Deleting
<1>5. UploadInv'
   <2>1. object' # None => object'.keys \subseteq {object'.data}
         BY DEF Break, Lost, UploadInv, Uploading
   <2> QED BY <1>1, <1>4, <2>1 DEF UploadInv
<1>6. ReturnsOwnData'
      BY <1>3 DEF Shapes, ReturnsOwnData
<1>7. BucketIsNotRaced'
   <2>1. bucket' => bucket \/ pc[d] = "make"
         BY DEF Break, Lost
   <2>2. pc[d] = "make" => \A e \in Demos \ {d} : pc[e] # "make"
         BY DEF UploadInv, Uploading
   <2> QED BY <1>4, <2>1, <2>2 DEF BucketIsNotRaced, Uploading
<1> QED BY <1>2, <1>4, <1>5, <1>6, <1>7

\* The invariant holds before any demo has started, whatever the storage holds.
LEMMA InitKeeps == Init => Inv
<1> SUFFICES ASSUME Init PROVE Inv  OBVIOUS
<1>1. Shapes
      BY DemoAssumption DEF Init, Db!Init, Shapes
<1>2. ServiceInv
      BY DEF Init, Db!Init, Db!EmptyMap, Db!Answer, ServiceInv
<1>3. UploadInv /\ ReturnsOwnData /\ BucketIsNotRaced
      BY DemoAssumption DEF Init, UploadInv, ReturnsOwnData, BucketIsNotRaced, Uploading
<1> QED BY <1>1, <1>2, <1>3 DEF Inv, DemoInv

\* Every step keeps it: the lemmas above, and the steps that leave the demos alone.
LEMMA NextKeeps == Inv /\ [Next]_vars => Inv'
<1> SUFFICES ASSUME Inv, [Next]_vars PROVE Inv'  OBVIOUS
<1>1. ASSUME NEW d \in Demos, Serve(d) PROVE Inv'
   <2>1. /\ Db!Operation(d)
         /\ UNCHANGED <<storage, pc, envelope, result>>
         BY <1>1 DEF Serve
   <2> QED BY <2>1, ServeKeeps DEF Inv, Shapes, DemoInv, UploadInv, ReturnsOwnData,
              BucketIsNotRaced, storage
<1>2. CASE UNCHANGED vars
   <2>1. UNCHANGED <<dbvars, storage, pc, envelope, result>>
         BY <1>2 DEF vars
   <2> QED BY <2>1, ServiceFrame DEF Inv, Shapes, DemoInv, UploadInv, ReturnsOwnData,
              BucketIsNotRaced, storage, dbvars
<1> QED BY <1>1, <1>2, AskingKeeps, UploadingKeeps, FinallyKeeps, BreakKeeps DEF Next, Try

\* The invariant of the demos holds for every number of them.
THEOREM DemoInvariance == Spec => []DemoInv
<1>1. Inv => DemoInv  BY DEF Inv
<1> QED BY <1>1, InitKeeps, NextKeeps, PTL DEF Spec

\* However many demos share the group, the bucket and the file name, what
\* endToEndDemo returns is the data it was given.
THEOREM OwnDataOnly == Spec => []ReturnsOwnData
<1>1. DemoInv => ReturnsOwnData  BY DEF DemoInv
<1> QED BY <1>1, DemoInvariance, PTL

\* No demo finds the bucket made between its bucketExists and its makeBucket.
THEOREM NoBucketRace == Spec => []BucketIsNotRaced
<1>1. DemoInv => BucketIsNotRaced  BY DEF DemoInv
<1> QED BY <1>1, DemoInvariance, PTL

-----------------------------------------------------------------------------
(***************************************************************************)
(* Types.                                                                  *)
(***************************************************************************)

\* std::map::operator[] yields a map.
LEMMA PutIsMap ==
    ASSUME NEW S, NEW T, NEW f \in Db!MapOf(S, T), NEW x \in S, NEW y \in T
    PROVE  Db!Put(f, x, y) \in Db!MapOf(S, T)
<1>1. DOMAIN f \cup {x} \in SUBSET S /\ \A z \in DOMAIN f : f[z] \in T
      BY DEF Db!MapOf
<1>2. Db!Put(f, x, y) \in [DOMAIN f \cup {x} -> T]
      BY <1>1 DEF Db!Put
<1> QED BY <1>1, <1>2 DEF Db!MapOf

\* The service keeps the types of its maps and of its answers.
LEMMA ServeTypes ==
    ASSUME TypeOK, Inv, NEW d \in Demos, Db!Operation(d)
    PROVE  users_' \in Db!UserMap /\ groups_' \in Db!GroupMap /\ ret' \in [Demos -> Db!Answers]
<1> USE DEF Db!UserMap, Db!GroupMap
<1>1. /\ users_ \in Db!MapOf(Demos, Demos) /\ groups_ \in Db!MapOf({groupId}, SUBSET Demos)
      /\ ret \in [Demos -> Db!Answers]
      BY DEF TypeOK
<1>2. call[d] # None /\ call[d].op \in Asking /\ call[d].gname = groupId
      /\ call[d].uid = d /\ call[d].key = d
      BY DEF Db!Operation, Db!CreateUser, Db!CreateGroup, Db!AddUserToGroup,
             Db!RemoveUserFromGroup, Db!DeleteUser, Db!DeleteAllData, Db!IsUserPartOfGroup,
             Db!GetKeysOfGroup, Db!Executes, Inv, DemoInv, ServiceInv
<1>3. Db!CreateUser(d) \/ Db!CreateGroup(d) \/ Db!GetKeysOfGroup(d)
      BY <1>2 DEF Asking, Db!Operation, Db!AddUserToGroup, Db!RemoveUserFromGroup,
         Db!DeleteUser, Db!DeleteAllData, Db!IsUserPartOfGroup, Db!Executes
<1>4. users_' = users_ \/ users_' = Db!Put(users_, d, d)
      BY <1>2, <1>3 DEF Db!CreateUser, Db!CreateGroup, Db!GetKeysOfGroup, Db!Refuse
<1>5. groups_' = groups_ \/ groups_' = Db!Put(groups_, groupId, {d})
      BY <1>2, <1>3 DEF Db!CreateUser, Db!CreateGroup, Db!GetKeysOfGroup, Db!Refuse
<1>6. \E a \in Db!Answers : ret' = [ret EXCEPT ![d] = a]
   <2>1. Db!Answer("ok") \in Db!Answers /\ Db!Answer("invalid_argument") \in Db!Answers
         BY DEF Db!Answer, Db!Answers, Db!Statuses
   <2>2. CASE Db!CreateUser(d) \/ Db!CreateGroup(d)
         BY <2>1, <2>2 DEF Db!CreateUser, Db!CreateGroup, Db!Refuse, Db!Finish
   <2>3. CASE Db!GetKeysOfGroup(d)
      <3>1. groupId \in DOMAIN groups_ => {users_[u] : u \in groups_[groupId]} \in SUBSET Demos
            BY DEF Inv, DemoInv, ServiceInv, Db!MapOf, TypeOK, Db!UserMap
      <3>2. groupId \in DOMAIN groups_ =>
               Db!KeyArray({users_[u] : u \in groups_[groupId]}) \in Db!Answers
            BY <3>1 DEF Db!KeyArray, Db!Answers, Db!Statuses
      <3> QED BY <1>2, <2>1, <2>3, <3>2 DEF Db!GetKeysOfGroup, Db!Refuse, Db!Finish
   <2> QED BY <1>3, <2>2, <2>3
<1> QED BY <1>1, <1>4, <1>5, <1>6, PutIsMap

\* What the steps of a demo do to the storage: nothing is stored without the bucket
\* and the bucket is not removed with an object in it.
LEMMA StorageTypes ==
    ASSUME TypeOK, Inv, NEW d \in Demos, Try(d) \/ Finally(d) \/ Break(d)
    PROVE  /\ bucket' \in BOOLEAN /\ object' \in Objects \cup {None}
           /\ object' # None => bucket'
<1>0. /\ bucket \in BOOLEAN /\ object \in Objects \cup {None} /\ (object # None => bucket)
      /\ [keys |-> envelope[d], data |-> d] \in Objects
      BY DEF TypeOK, Objects
<1>1. CASE Start(d) \/ UserCreated(d) \/ GroupCreated(d) \/ GotEnvelope(d) \/ Exists(d)
           \/ SetPolicy(d) \/ Retrieve(d) \/ Delete(d) \/ EmptyBucket(d) \/ List(d)
   <2>1. UNCHANGED storage
         BY <1>1 DEF Start, UserCreated, GroupCreated, GotEnvelope, Exists, SetPolicy,
            Retrieve, Delete, EmptyBucket, List
   <2> QED BY <1>0, <2>1 DEF storage
<1>2. CASE Make(d)
      BY <1>0, <1>2 DEF Make
<1>3. CASE Store(d)
      BY <1>0, <1>3 DEF Store
<1>4. CASE Purge(d)
      BY <1>0, <1>4 DEF Purge
<1>5. CASE RemoveBucket(d)
      BY <1>0, <1>5 DEF RemoveBucket
<1>6. CASE Break(d)
   <2>1. CASE pc[d] = "store" \/ pc[d] = "purge"
         BY <1>0, <1>6, <2>1 DEF Break, Lost
   <2>2. CASE pc[d] # "store" /\ pc[d] # "purge"
      <3>1. object' = object
            BY <1>6, <2>2 DEF Break, Lost
      <3>2. bucket' \in {bucket, TRUE, bucket /\ object # None}
            BY <1>6 DEF Break, Lost
      <3> QED BY <1>0, <3>1, <3>2
   <2> QED BY <2>1, <2>2
<1> QED BY <1>1, <1>2, <1>3, <1>4, <1>5, <1>6 DEF Try, Finally

\* What the steps of a demo do to its envelope, its attempts and the history.
LEMMA LocalTypes ==
    ASSUME TypeOK, Inv, NEW d \in Demos, Try(d) \/ Finally(d) \/ Break(d)
    PROVE  /\ envelope' \in [Demos -> SUBSET Demos]
           /\ attemptsLeft' \in [Demos -> 0 .. AttemptsLeft]
           /\ troubled' \subseteq Demos \X {"try", "finally"}
           /\ UNCHANGED <<users_, groups_, ret>>
<1>0. /\ envelope \in [Demos -> SUBSET Demos] /\ attemptsLeft \in [Demos -> 0 .. AttemptsLeft]
      /\ troubled \subseteq Demos \X {"try", "finally"}
      BY DEF TypeOK
<1>1. UNCHANGED <<users_, groups_, ret>>
      BY DEF Try, Finally, Start, UserCreated, GroupCreated, GotEnvelope, Exists, Make,
         SetPolicy, Store, Retrieve, Delete, EmptyBucket, List, Purge, RemoveBucket, Break,
         Ask, dbvars, deleteFrame
<1>2. envelope' = envelope \/ envelope' = [envelope EXCEPT ![d] = ret[d].keys]
      BY DEF Try, Finally, Start, UserCreated, GroupCreated, GotEnvelope, Exists, Make,
         SetPolicy, Store, Retrieve, Delete, EmptyBucket, List, Purge, RemoveBucket, Break,
         deleteFrame
<1>3. ret[d].keys \in SUBSET Demos
      BY DEF TypeOK, Db!Answers
<1>4. \/ attemptsLeft' = attemptsLeft
      \/ attemptsLeft[d] > 0 /\ attemptsLeft' = [attemptsLeft EXCEPT ![d] = @ - 1]
      BY DEF Try, Finally, Start, UserCreated, GroupCreated, GotEnvelope, Exists, Make,
         SetPolicy, Store, Retrieve, Delete, EmptyBucket, List, Purge, RemoveBucket, Break
<1>5. attemptsLeft' \in [Demos -> 0 .. AttemptsLeft]
   <2>1. attemptsLeft[d] > 0 => attemptsLeft[d] - 1 \in 0 .. AttemptsLeft
         BY <1>0, DemoAssumption
   <2> QED BY <1>0, <1>4, <2>1
<1>6. \E b \in {"try", "finally"} : troubled' \in {troubled, troubled \cup {<<d, b>>}}
      BY DEF Try, Finally, Start, UserCreated, GroupCreated, GotEnvelope, Exists, Make,
         SetPolicy, Store, Retrieve, Delete, EmptyBucket, List, Purge, RemoveBucket, Break,
         deleteFrame
<1> QED BY <1>0, <1>1, <1>2, <1>3, <1>5, <1>6

\* The first state has its type.
LEMMA InitTypes == Init => TypeOK
<1> SUFFICES ASSUME Init PROVE TypeOK  OBVIOUS
<1>1. users_ \in Db!UserMap /\ groups_ \in Db!GroupMap
   <2>1. \A S, T : Db!EmptyMap \in Db!MapOf(S, T)
      <3> SUFFICES ASSUME NEW S, NEW T PROVE Db!EmptyMap \in Db!MapOf(S, T)  OBVIOUS
      <3>1. Db!EmptyMap \in [{} -> T] /\ {} \in SUBSET S
            BY DEF Db!EmptyMap
      <3> QED BY <3>1 DEF Db!MapOf
   <2> QED BY <2>1 DEF Init, Db!Init, Db!UserMap, Db!GroupMap
<1>2. call \in [Demos -> Requests \cup {None}] /\ ret \in [Demos -> Db!Answers]
      BY DEF Init, Db!Init, Db!Answer, Db!Answers, Db!Statuses
<1>3. bucket \in BOOLEAN /\ object \in Objects \cup {None} /\ (object # None => bucket)
      BY DEF Init, Objects
<1>4. /\ pc \in [Demos -> {"start", "done"} \cup Asking \cup Uploading \cup Deleting]
      /\ envelope \in [Demos -> SUBSET Demos]
      /\ result \in [Demos -> Demos \cup {"earlier", "threw", None}]
      /\ attemptsLeft \in [Demos -> 0 .. AttemptsLeft]
      /\ troubled \subseteq Demos \X {"try", "finally"}
      BY DemoAssumption DEF Init
<1> QED BY <1>1, <1>2, <1>3, <1>4 DEF TypeOK

\* Every step keeps the types.
LEMMA NextTypes == TypeOK /\ Inv /\ [Next]_vars => TypeOK'
<1> SUFFICES ASSUME TypeOK, Inv, [Next]_vars PROVE TypeOK'  OBVIOUS
<1>1. Shapes'
      BY NextKeeps DEF Inv
<1>2. ASSUME NEW d \in Demos, Try(d) \/ Finally(d) \/ Break(d) PROVE TypeOK'
      BY <1>1, <1>2, StorageTypes, LocalTypes DEF TypeOK, Shapes
<1>3. ASSUME NEW d \in Demos, Serve(d) PROVE TypeOK'
      BY <1>1, <1>3, ServeTypes DEF Serve, TypeOK, Shapes, storage
<1>4. CASE UNCHANGED vars
      BY <1>4 DEF vars, dbvars, storage, TypeOK
<1> QED BY <1>2, <1>3, <1>4 DEF Next

\* The state has its type: in particular there is no object without its bucket,
\* whatever the demos do to both at the same time.
THEOREM DemoTypeCorrect == Spec => []TypeOK
BY InitTypes, InitKeeps, NextTypes, NextKeeps, PTL DEF Spec

-----------------------------------------------------------------------------
(***************************************************************************)
(* Failures.                                                               *)
(***************************************************************************)

\* What FailureInv says of one demo.
AskedFor(d) ==
    <<d, "try">> \notin troubled =>
        /\ pc[d] \in Asking /\ call[d] # None => call[d].op = pc[d]
        /\ pc[d] = "create_user" /\ call[d] = None => d \in DOMAIN users_
        /\ pc[d] = "create_group" => d \in DOMAIN users_
        /\ pc[d] = "create_group" /\ call[d] = None => groupId \in DOMAIN groups_
        /\ pc[d] = "get_keys_of_group" => groupId \in DOMAIN groups_
        /\ pc[d] = "get_keys_of_group" /\ call[d] = None =>
              ret[d].status = "ok" /\ ret[d].keys = groups_[groupId]

Relied(d) ==
    /\ pc[d] \in {"policy", "store", "get"} => bucket \/ OtherOver(d)
    /\ pc[d] = "get" => (object # None /\ d \in object.keys) \/ OtherOver(d)

Excused(d) ==
    result[d] = "threw" /\ <<d, "try">> \notin troubled
    => OtherOver(d) \/ (groupId \in DOMAIN groups_ /\ \E e \in Demos \ {d} : e \in groups_[groupId])

\* FailureInv speaks of one demo at a time.
LEMMA ByDemo == FailureInv <=> \A d \in Demos : AskedFor(d) /\ Relied(d) /\ Excused(d)
<1>1. AskingInv <=> \A d \in Demos : AskedFor(d)
      BY DEF AskingInv, AskedFor
<1>2. StorageInv <=> \A d \in Demos : Relied(d)
      BY DEF StorageInv, Relied
<1>3. FailsOnlyForOthers <=> \A d \in Demos : Excused(d)
      BY DEF FailsOnlyForOthers, Excused, OtherOver, Over
<1> QED BY <1>1, <1>2, <1>3 DEF FailureInv

\* What the service does with a request of a demo.
LEMMA ServeAnswers ==
    ASSUME Inv, NEW d \in Demos, Db!Operation(d)
    PROVE  /\ call' = [call EXCEPT ![d] = None] /\ \E a : ret' = [ret EXCEPT ![d] = a]
           /\ DOMAIN users_ \subseteq DOMAIN users_'
           /\ call[d] # None /\ call[d].op \in Asking
           /\ call[d].op = "create_user" => d \in DOMAIN users_'
           /\ call[d].op = "create_group" /\ d \in DOMAIN users_ => groupId \in DOMAIN groups_'
           /\ call[d].op = "get_keys_of_group" /\ groupId \in DOMAIN groups_ =>
                 ret'[d].status = "ok" /\ ret'[d].keys = groups_'[groupId]
<1> USE DEF Inv, Shapes, DemoInv
<1>1. call[d] # None /\ call[d].op \in Asking /\ call[d].gname = groupId
      /\ call[d].uid = d /\ call[d].key = d
      BY DEF Db!Operation, Db!CreateUser, Db!CreateGroup, Db!AddUserToGroup,
             Db!RemoveUserFromGroup, Db!DeleteUser, Db!DeleteAllData, Db!IsUserPartOfGroup,
             Db!GetKeysOfGroup, Db!Executes, ServiceInv
<1>2. CASE Db!CreateUser(d)
      BY <1>1, <1>2 DEF Db!CreateUser, Db!Executes, Db!Refuse, Db!Finish, Db!Put
<1>3. CASE Db!CreateGroup(d)
      BY <1>1, <1>3 DEF Db!CreateGroup, Db!Executes, Db!Refuse, Db!Finish, Db!Put
<1>4. CASE Db!GetKeysOfGroup(d)
   <2>1. /\ call' = [call EXCEPT ![d] = None] /\ \E a : ret' = [ret EXCEPT ![d] = a]
         /\ users_' = users_ /\ groups_' = groups_ /\ call[d].op = "get_keys_of_group"
         BY <1>4 DEF Db!GetKeysOfGroup, Db!Executes, Db!Refuse, Db!Finish
   <2>2. ASSUME groupId \in DOMAIN groups_
         PROVE  ret'[d].status = "ok" /\ ret'[d].keys = groups_[groupId]
      <3>1. PICK e \in DOMAIN users_ : groups_[groupId] = {e}
            BY <2>2 DEF ServiceInv
      <3>2. {users_[u] : u \in groups_[groupId]} = {e}
            BY <3>1 DEF ServiceInv
      <3>3. ret' = [ret EXCEPT ![d] = Db!KeyArray({e})]
            BY <1>1, <1>4, <2>2, <3>1, <3>2 DEF Db!GetKeysOfGroup, Db!Finish
      <3> QED BY <3>1, <3>3 DEF Db!KeyArray
   <2> QED BY <1>1, <2>1, <2>2
<1> QED BY <1>1, <1>2, <1>3, <1>4 DEF Asking, Db!Operation, Db!AddUserToGroup,
             Db!RemoveUserFromGroup, Db!DeleteUser, Db!DeleteAllData, Db!IsUserPartOfGroup,
             Db!Executes

\* A step of d is d's alone, and no demo leaves its finally block but to its end.
Mine(d) ==
    /\ \A e \in Demos \ {d} : /\ pc'[e] = pc[e] /\ call'[e] = call[e] /\ ret'[e] = ret[e]
                              /\ result'[e] = result[e]
                              /\ <<e, "try">> \in troubled' <=> <<e, "try">> \in troubled
    /\ Over(d) => Over(d)'

\* Every step is of that kind.
LEMMA StepIsMine ==
    ASSUME Inv, NEW d \in Demos, Try(d) \/ Serve(d) \/ Finally(d) \/ Break(d)
    PROVE  Mine(d)
<1> USE DEF Inv, Shapes, Goto, Throw, Ask
<1>1. CASE Serve(d)
   <2>1. /\ call' = [call EXCEPT ![d] = None] /\ \E a : ret' = [ret EXCEPT ![d] = a]
         /\ UNCHANGED <<pc, result, troubled>>
         BY <1>1, ServeAnswers DEF Serve
   <2> QED BY <2>1 DEF Mine, Over
<1>2. CASE Try(d)
   <2>1. ret' = ret /\ (call' = call \/ \E r : call' = [call EXCEPT ![d] = r])
         BY <1>2 DEF Try, Start, UserCreated, GroupCreated, GotEnvelope, Exists, Make,
            SetPolicy, Store, Retrieve, dbvars
   <2>2. /\ \E l : pc' = [pc EXCEPT ![d] = l]
         /\ result' = result \/ \E r : result' = [result EXCEPT ![d] = r]
         /\ troubled' = troubled /\ ~Over(d)
         BY <1>2 DEF Try, Start, UserCreated, GroupCreated, GotEnvelope, Answered, Exists, Make,
            SetPolicy, Store, Retrieve, Over, Deleting
   <2> QED BY <2>1, <2>2 DEF Mine
<1>3. CASE Finally(d)
   <2>1. UNCHANGED <<dbvars, result>>
         BY <1>3 DEF Finally, Delete, EmptyBucket, List, Purge, RemoveBucket, deleteFrame
   <2>2. pc' = pc \/ \E l \in Deleting \cup {"done"} : pc' = [pc EXCEPT ![d] = l]
         BY <1>3 DEF Finally, Delete, EmptyBucket, List, Purge, RemoveBucket, Deleting
   <2>3. troubled' = troubled \/ troubled' = troubled \cup {<<d, "finally">>}
         BY <1>3 DEF Finally, Delete, EmptyBucket, List, Purge, RemoveBucket, deleteFrame
   <2> QED BY <2>1, <2>2, <2>3 DEF Mine, Over, dbvars
<1>4. CASE Break(d)
   <2>1. /\ ret' = ret /\ call' \in {call, [call EXCEPT ![d] = None]}
         /\ \E l \in {"delete", "done"} : pc' = [pc EXCEPT ![d] = l]
         /\ result' \in {result, [result EXCEPT ![d] = "threw"]}
         /\ \E b : troubled' = troubled \cup {<<d, b>>}
         BY <1>4 DEF Break
   <2> QED BY <2>1 DEF Mine, Over, Deleting
<1> QED BY <1>1, <1>2, <1>3, <1>4

\* Users and the group stay, with the group's member.
LEMMA ServiceGrows ==
    ASSUME Inv, NEW d \in Demos, Try(d) \/ Serve(d) \/ Finally(d) \/ Break(d)
    PROVE  /\ DOMAIN users_ \subseteq DOMAIN users_'
           /\ groupId \in DOMAIN groups_ => /\ groupId \in DOMAIN groups_'
                                            /\ groups_'[groupId] = groups_[groupId]
<1>1. CASE Serve(d)
      BY <1>1, ServeKeeps, ServeAnswers DEF Serve
<1>2. CASE Try(d) \/ Finally(d) \/ Break(d)
   <2>1. UNCHANGED <<users_, groups_>>
         BY <1>2 DEF Try, Finally, Start, UserCreated, GroupCreated, GotEnvelope, Exists, Make,
            SetPolicy, Store, Retrieve, Delete, EmptyBucket, List, Purge, RemoveBucket, Break,
            Ask, dbvars, deleteFrame
   <2> QED BY <2>1
<1> QED BY <1>1, <1>2

\* The storage changes in the hands of a demo that uploads or deletes only.
LEMMA StorageHands ==
    ASSUME Inv, NEW d \in Demos, Try(d) \/ Serve(d) \/ Finally(d) \/ Break(d),
           pc[d] \notin Uploading \cup Deleting
    PROVE  UNCHANGED <<bucket, object>>
BY DEF Try, Finally, Start, UserCreated, GroupCreated, GotEnvelope, Exists, Make,
       SetPolicy, Store, Retrieve, Serve, Delete, EmptyBucket, List, Purge, RemoveBucket, Break,
       Lost, Uploading, Deleting, storage

\* A step of d is no other demo's trouble, but for the finally block of d.
LEMMA OthersExcused ==
    ASSUME Inv, FailureInv, NEW d \in Demos, Try(d) \/ Serve(d) \/ Finally(d) \/ Break(d),
           NEW e \in Demos \ {d}
    PROVE  AskedFor(e)' /\ Relied(e)' /\ Excused(e)'
<1>1. AskedFor(e) /\ Relied(e) /\ Excused(e)
      BY ByDemo
<1>2. /\ pc'[e] = pc[e] /\ call'[e] = call[e] /\ ret'[e] = ret[e] /\ result'[e] = result[e]
      /\ <<e, "try">> \in troubled' <=> <<e, "try">> \in troubled
      BY StepIsMine DEF Mine
<1>3. \A f \in Demos : Over(f) => Over(f)'
      BY StepIsMine DEF Mine, Over
<1>4. OtherOver(e) => OtherOver(e)'
      BY <1>3 DEF OtherOver
<1>5. AskedFor(e)'
      BY <1>1, <1>2, ServiceGrows DEF AskedFor
<1>6. Excused(e)'
      BY <1>1, <1>2, <1>4, ServiceGrows DEF Excused
<1>7. Relied(e)'
   <2>1. CASE pc[e] \notin Uploading
         BY <1>2, <2>1 DEF Relied, Uploading
   <2>2. CASE pc[d] \in Deleting
      <3>1. Over(d)'
            BY <1>3, <2>2 DEF Over
      <3>2. OtherOver(e)'
            BY <3>1 DEF OtherOver
      <3> QED BY <3>2 DEF Relied
   <2>3. CASE pc[e] \in Uploading /\ pc[d] \notin Deleting
      <3>1. pc[d] \notin Uploading
            BY <2>3 DEF Inv, DemoInv, UploadInv
      <3>2. UNCHANGED <<bucket, object>>
            BY <2>3, <3>1, StorageHands
      <3> QED BY <1>1, <1>2, <1>4, <3>2 DEF Relied
   <2> QED BY <2>1, <2>2, <2>3
<1> QED BY <1>5, <1>6, <1>7

\* The service: its answer is to the call that d waits for.
LEMMA ServeExcused ==
    ASSUME Inv, FailureInv, NEW d \in Demos, Serve(d)
    PROVE  AskedFor(d)' /\ Relied(d)' /\ Excused(d)'
<1>1. AskedFor(d) /\ Relied(d) /\ Excused(d)
      BY ByDemo
<1>2. UNCHANGED <<bucket, object, pc, result, troubled>> /\ Db!Operation(d)
      BY DEF Serve, storage
<1>3. call'[d] = None
      BY <1>2, ServeAnswers DEF Inv, Shapes
<1>4. AskedFor(d)'
   <2> SUFFICES ASSUME <<d, "try">> \notin troubled
                PROVE  AskedFor(d)'
       BY <1>2 DEF AskedFor
   <2>1. call[d] # None /\ (pc[d] \in Asking => call[d].op = pc[d])
         BY <1>1, <1>2, ServeAnswers DEF AskedFor
   <2>2. /\ pc[d] = "create_group" => d \in DOMAIN users_
         /\ pc[d] = "get_keys_of_group" => groupId \in DOMAIN groups_
         BY <1>1 DEF AskedFor
   <2>3. {"create_user", "create_group", "get_keys_of_group"} = Asking
         BY DEF Asking
   <2> QED BY <1>2, <1>3, <2>1, <2>2, <2>3, ServeAnswers, ServiceGrows DEF AskedFor
<1>5. Relied(d)'
      BY <1>1, <1>2 DEF Relied, OtherOver, Over
<1>6. Excused(d)'
      BY <1>1, <1>2, ServiceGrows DEF Excused, OtherOver, Over
<1> QED BY <1>4, <1>5, <1>6

\* The try block up to the envelope: it fails to open only if another demo has
\* created the group.
LEMMA AskingExcused ==
    ASSUME TypeOK, Inv, FailureInv, NEW d \in Demos,
           Start(d) \/ UserCreated(d) \/ GroupCreated(d) \/ GotEnvelope(d)
    PROVE  AskedFor(d)' /\ Relied(d)' /\ Excused(d)'
<1> USE DEF Inv, Shapes, Goto
<1>0. AskedFor(d) /\ Relied(d) /\ Excused(d)
      BY ByDemo
<1>1. CASE Start(d) \/ UserCreated(d) \/ GroupCreated(d)
   <2>1. PICK op \in Asking : /\ Ask(d, op)
                              /\ op = "create_group" => UserCreated(d)
                              /\ op = "get_keys_of_group" => GroupCreated(d)
         BY <1>1 DEF Start, UserCreated, GroupCreated, Asking
   <2>2. /\ pc'[d] = op /\ UNCHANGED <<users_, groups_, bucket, object, result, troubled>>
         /\ call'[d] = [op |-> op, gname |-> groupId, uid |-> d, key |-> d]
         BY <1>1, <2>1 DEF Start, UserCreated, GroupCreated, Ask, storage
   <2>3. call'[d] # None /\ call'[d].op = op
      <3> HIDE DEF Inv, Shapes, Goto
      <3>1. [op |-> op, gname |-> groupId, uid |-> d, key |-> d] \in Requests
            BY DEF Requests
      <3>2. None \notin Requests
            BY DemoAssumption
      <3>3. call'[d] # None
            BY <2>2, <3>1, <3>2
      <3>4. call'[d].op = op
            BY <2>2
      <3> QED BY <3>3, <3>4
   <2>4. <<d, "try">> \notin troubled =>
            /\ op = "create_group" => d \in DOMAIN users_
            /\ op = "get_keys_of_group" => groupId \in DOMAIN groups_
         BY <1>0, <2>1 DEF UserCreated, GroupCreated, Answered, AskedFor
   <2>5. AskedFor(d)'
         BY <2>2, <2>3, <2>4 DEF AskedFor
   <2>6. Relied(d)'
         BY <2>2 DEF Relied, Asking
   <2>7. ~(result[d] = "threw" /\ <<d, "try">> \notin troubled) \/ Excused(d)'
      <3>1. OtherOver(d) => OtherOver(d)'
            BY StepIsMine DEF Mine, OtherOver, Over, Try
      <3> QED BY <1>0, <2>2, <3>1 DEF Excused
   <2> QED BY <2>2, <2>5, <2>6, <2>7 DEF Excused
<1>2. CASE GotEnvelope(d)
   <2>1. UNCHANGED <<users_, groups_, call, ret, bucket, object, troubled>>
         BY <1>2 DEF GotEnvelope, dbvars, storage
   <2>2. OtherOver(d) => OtherOver(d)'
         BY <1>2, StepIsMine DEF Mine, OtherOver, Over, Try
   <2>3. pc'[d] \in {"exists", "delete"}
         BY <1>2 DEF GotEnvelope, Throw
   <2>4. AskedFor(d)' /\ Relied(d)'
         BY <2>3 DEF AskedFor, Relied, Asking
   <2>5. CASE ret[d].status = "ok" /\ d \in ret[d].keys
      <3>1. result' = result
            BY <1>2, <2>5 DEF GotEnvelope
      <3> QED BY <1>0, <2>1, <2>2, <2>4, <3>1 DEF Excused
   <2>6. CASE ~(ret[d].status = "ok" /\ d \in ret[d].keys)
      <3>1. <<d, "try">> \notin troubled => groupId \in DOMAIN groups_ /\ d \notin groups_[groupId]
            BY <1>0, <1>2, <2>6 DEF GotEnvelope, Answered, AskedFor
      <3>2. groupId \in DOMAIN groups_ => \E e \in Demos : groups_[groupId] = {e}
         <4>1. groupId \in DOMAIN groups_ => \E e \in DOMAIN users_ : groups_[groupId] = {e}
               BY DEF DemoInv, ServiceInv
         <4>2. DOMAIN users_ \subseteq Demos
               BY DEF TypeOK, Db!UserMap, Db!MapOf
         <4> QED BY <4>1, <4>2
      <3> QED BY <2>1, <2>4, <3>1, <3>2 DEF Excused
   <2> QED BY <2>5, <2>6
<1> QED BY <1>1, <1>2

\* The upload: makeBucket finds no bucket, and what d has made, seen or stored is
\* there, unless another demo is in its finally block.
LEMMA UploadingExcused ==
    ASSUME Inv, FailureInv, NEW d \in Demos,
           Exists(d) \/ Make(d) \/ SetPolicy(d) \/ Store(d) \/ Retrieve(d)
    PROVE  AskedFor(d)' /\ Relied(d)' /\ Excused(d)'
<1> USE DEF Inv, Shapes, Goto, Throw
<1>0. AskedFor(d) /\ Relied(d) /\ Excused(d)
      BY ByDemo
<1>1. UNCHANGED <<users_, groups_, call, ret, troubled>>
      BY DEF Exists, Make, SetPolicy, Store, Retrieve, dbvars
<1>2. OtherOver(d) => OtherOver(d)'
      BY StepIsMine DEF Mine, OtherOver, Over, Try
<1>3. AskedFor(d)'
      BY DEF Exists, Make, SetPolicy, Store, Retrieve, AskedFor, Asking
<1>4. envelope[d] = {d}
      BY DEF Exists, Make, SetPolicy, Store, Retrieve, Uploading, DemoInv, UploadInv
<1>5. CASE Exists(d)
   <2>1. /\ pc'[d] = IF bucket THEN "store" ELSE "make"
         /\ UNCHANGED <<bucket, object, result>>
         BY <1>5 DEF Exists, storage
   <2> QED BY <1>0, <1>1, <1>2, <1>3, <2>1 DEF Relied, Excused
<1>6. CASE Make(d)
   <2>1. ~bucket
         BY <1>6 DEF Make, DemoInv, BucketIsNotRaced
   <2>2. pc'[d] = "policy" /\ bucket' /\ result' = result
         BY <1>6, <2>1 DEF Make
   <2> QED BY <1>0, <1>1, <1>2, <1>3, <2>2 DEF Relied, Excused
<1>7. CASE SetPolicy(d)
   <2>1. CASE bucket
      <3>1. pc'[d] = "store" /\ UNCHANGED <<bucket, object, result>>
            BY <1>7, <2>1 DEF SetPolicy, storage
      <3> QED BY <1>0, <1>1, <1>2, <1>3, <2>1, <3>1 DEF Relied, Excused
   <2>2. CASE ~bucket
      <3>1. pc'[d] = "delete" /\ OtherOver(d)
            BY <1>0, <1>7, <2>2 DEF SetPolicy, Relied
      <3> QED BY <1>2, <1>3, <3>1 DEF Relied, Excused
   <2> QED BY <2>1, <2>2
<1>8. CASE Store(d)
   <2>1. CASE bucket
      <3>1. /\ pc'[d] = "get" /\ UNCHANGED <<bucket, result>>
            /\ object' = [keys |-> {d}, data |-> d]
            BY <1>4, <1>8, <2>1 DEF Store
      <3>2. object' # None /\ d \in object'.keys
         <4>1. object' \in Objects
               BY <3>1 DEF Objects
         <4> QED BY <3>1, <4>1, DemoAssumption
      <3> QED BY <1>0, <1>1, <1>2, <1>3, <2>1, <3>1, <3>2 DEF Relied, Excused
   <2>2. CASE ~bucket
      <3>1. pc'[d] = "delete" /\ OtherOver(d)
            BY <1>0, <1>8, <2>2 DEF Store, Relied
      <3> QED BY <1>2, <1>3, <3>1 DEF Relied, Excused
   <2> QED BY <2>1, <2>2
<1>9. CASE Retrieve(d)
   <2>1. CASE object # None /\ d \in object.keys
      <3>1. pc'[d] = "delete" /\ result'[d] = object.data
            BY <1>9, <2>1 DEF Retrieve
      <3>2. object.data = d
            BY <2>1 DEF DemoInv, UploadInv
      <3>3. result'[d] # "threw"
            BY <3>1, <3>2, DemoAssumption
      <3> QED BY <1>3, <3>1, <3>3 DEF Relied, Excused
   <2>2. CASE ~(object # None /\ d \in object.keys)
      <3>1. pc'[d] = "delete" /\ OtherOver(d)
            BY <1>0, <1>9, <2>2 DEF Retrieve, Relied
      <3> QED BY <1>2, <1>3, <3>1 DEF Relied, Excused
   <2> QED BY <2>1, <2>2
<1> QED BY <1>5, <1>6, <1>7, <1>8, <1>9

\* A demo in its finally block relies on nothing any more, and a lost call is
\* trouble of its own.
LEMMA EndingExcused ==
    ASSUME Inv, FailureInv, NEW d \in Demos, Finally(d) \/ Break(d)
    PROVE  AskedFor(d)' /\ Relied(d)' /\ Excused(d)'
<1> USE DEF Inv, Shapes, Goto, Throw
<1>0. AskedFor(d) /\ Relied(d) /\ Excused(d)
      BY ByDemo
<1>1. pc'[d] \in Deleting \cup {"done"}
      BY DEF Finally, Delete, EmptyBucket, List, Purge, RemoveBucket, Break, Deleting
<1>2. AskedFor(d)' /\ Relied(d)'
      BY <1>1 DEF AskedFor, Relied, Asking, Deleting
<1>3. OtherOver(d) => OtherOver(d)'
      BY StepIsMine DEF Mine, OtherOver, Over
<1>4. UNCHANGED groups_
      BY DEF Finally, Delete, EmptyBucket, List, Purge, RemoveBucket, Break, dbvars, deleteFrame
<1>5. \/ result' = result /\ (<<d, "try">> \notin troubled' => <<d, "try">> \notin troubled)
      \/ <<d, "try">> \in troubled'
      BY DEF Finally, Delete, EmptyBucket, List, Purge, RemoveBucket, Break, deleteFrame
<1>6. Excused(d)'
      BY <1>0, <1>3, <1>4, <1>5 DEF Excused
<1> QED BY <1>2, <1>6

\* Every step keeps FailureInv.
LEMMA NextExcused == TypeOK /\ Inv /\ FailureInv /\ [Next]_vars => FailureInv'
<1> SUFFICES ASSUME TypeOK, Inv, FailureInv, [Next]_vars PROVE FailureInv'  OBVIOUS
<1>0. FailureInv' <=> \A d \in Demos : AskedFor(d)' /\ Relied(d)' /\ Excused(d)'
   <2>1. AskingInv' <=> \A d \in Demos : AskedFor(d)'
         BY DEF AskingInv, AskedFor
   <2>2. StorageInv' <=> \A d \in Demos : Relied(d)'
         BY DEF StorageInv, Relied
   <2>3. FailsOnlyForOthers' <=> \A d \in Demos : Excused(d)'
         BY DEF FailsOnlyForOthers, Excused, OtherOver, Over
   <2> QED BY <2>1, <2>2, <2>3 DEF FailureInv
<1>1. ASSUME NEW d \in Demos, Try(d) \/ Serve(d) \/ Finally(d) \/ Break(d) PROVE FailureInv'
   <2>1. AskedFor(d)' /\ Relied(d)' /\ Excused(d)'
         BY <1>1, ServeExcused, AskingExcused, UploadingExcused, EndingExcused DEF Try
   <2> QED BY <1>0, <1>1, <2>1, OthersExcused
<1>2. CASE UNCHANGED vars
   <2>1. \A d \in Demos : AskedFor(d) /\ Relied(d) /\ Excused(d)
         BY ByDemo
   <2>2. UNCHANGED <<users_, groups_, call, ret, bucket, object, pc, result, troubled>>
         BY <1>2 DEF vars, dbvars, storage
   <2>3. ASSUME NEW d \in Demos PROVE AskedFor(d)' /\ Relied(d)' /\ Excused(d)'
         BY <2>1, <2>2 DEF AskedFor, Relied, Excused, OtherOver, Over
   <2> QED BY <1>0, <2>3
<1> QED BY <1>1, <1>2 DEF Next

\* A demo whose own calls get through fails only because another demo has created
\* the group, or has come to its finally block: FailsOnlyForOthers, for any number
\* of demos.
THEOREM FailuresAreOthers == Spec => []FailsOnlyForOthers
<1>1. Init => FailureInv
   <2> SUFFICES ASSUME Init PROVE FailureInv  OBVIOUS
   <2>1. \A d \in Demos : pc[d] = "start" /\ result[d] = None
         BY DEF Init
   <2> QED BY <2>1, DemoAssumption DEF FailureInv, AskingInv, StorageInv, FailsOnlyForOthers,
              Asking
<1>2. FailureInv => FailsOnlyForOthers
      BY DEF FailureInv
<1> QED BY <1>1, <1>2, InitTypes, InitKeeps, NextTypes, NextKeeps, NextExcused, PTL DEF Spec

-----------------------------------------------------------------------------
(***************************************************************************)
(* Cleaning up.                                                            *)
(***************************************************************************)

\* A demo that is still to empty the bucket stays one while another demo moves,
\* unless that one stores an object; then it is itself still to empty the bucket.
LEMMA CleanerStays ==
    ASSUME TypeOK, Inv, NEW d \in Demos, Try(d) \/ Serve(d) \/ Finally(d) \/ Break(d),
           NEW e \in Demos \ {d}, WillClean(e)
    PROVE  WillClean(e)' \/ WillClean(d)'
<1> USE DEF Inv, Shapes, Goto, Throw
<1>1. pc'[e] = pc[e]
      BY StepIsMine DEF Mine
<1>2. attemptsLeft'[e] = attemptsLeft[e]
   <2>1. attemptsLeft' = attemptsLeft \/ \E n : attemptsLeft' = [attemptsLeft EXCEPT ![d] = n]
         BY DEF Try, Finally, Start, UserCreated, GroupCreated, GotEnvelope, Exists, Make,
            SetPolicy, Store, Retrieve, Serve, Delete, EmptyBucket, List, Purge, RemoveBucket, Break
   <2> QED BY <2>1 DEF TypeOK
<1>3. object = None => object' = None \/ pc'[d] \in {"get", "delete"}
      BY DEF Try, Finally, Start, UserCreated, GroupCreated, GotEnvelope, Exists, Make,
         SetPolicy, Store, Retrieve, Serve, Delete, EmptyBucket, List, Purge, RemoveBucket, Break,
         Lost, storage, Uploading, Deleting, Asking
<1>4. pc'[d] \in {"get", "delete"} => WillClean(d)'
      BY DEF WillClean
<1> QED BY <1>1, <1>2, <1>3, <1>4 DEF WillClean

\* The try block, and a call lost in it, end before the loop of emptyBucket.
LEMMA TryCleans ==
    ASSUME TypeOK, Inv, NEW d \in Demos,
           Try(d) \/ (Break(d) /\ pc[d] \in Asking \cup Uploading)
    PROVE  WillClean(d)'
<1> USE DEF Inv, Shapes, Goto, Throw
<1>1. pc'[d] \notin {"list", "remove", "done"}
      BY DEF Try, Start, UserCreated, GroupCreated, GotEnvelope, Exists, Make,
         SetPolicy, Store, Retrieve, Break, Ask, Asking, Uploading, Deleting
<1> QED BY <1>1 DEF WillClean

\* The finally block: a demo that is to empty the bucket does so, if no call is lost.
LEMMA FinallyCleans ==
    ASSUME TypeOK, Inv, CleanupInv, NEW d \in Demos, Finally(d), WillClean(d),
           <<d, "finally">> \notin troubled', bucket'
    PROVE  WillClean(d)'
<1> USE DEF Inv, Shapes, Goto
<1>1. CASE Delete(d)
   <2>1. pc'[d] = "empty" \/ ~bucket'
         BY <1>1 DEF Delete, storage
   <2> QED BY <2>1 DEF WillClean
<1>2. CASE EmptyBucket(d)
   <2>1. pc'[d] = "list" /\ attemptsLeft'[d] = AttemptsLeft
         BY <1>2 DEF EmptyBucket, storage, CleanupInv
   <2> QED BY <2>1, DemoAssumption DEF WillClean
<1>3. CASE List(d)
   <2>1. bucket /\ object' = object /\ <<d, "finally">> \notin troubled
         BY <1>3 DEF List, storage
   <2>2. CASE attemptsLeft[d] = 0
      <3>1. pc'[d] = "remove" /\ object = None
            BY <1>3, <2>2 DEF List, WillClean
      <3> QED BY <2>1, <3>1 DEF WillClean
   <2>3. CASE attemptsLeft[d] > 0
      <3>1. (pc'[d] = "remove" /\ object = None) \/ pc'[d] = "purge"
            BY <1>3, <2>1, <2>3, SMTT(30) DEF List
      <3> QED BY <2>1, <3>1 DEF WillClean
   <2>4. attemptsLeft[d] \in Nat
         BY DemoAssumption, SMTT(30) DEF TypeOK
   <2> QED BY <2>2, <2>3, <2>4
<1>4. CASE Purge(d)
   <2>1. object' = None /\ pc'[d] = "list"
         BY <1>4 DEF Purge
   <2> QED BY <2>1 DEF WillClean
<1>5. CASE RemoveBucket(d)
   <2>1. ~bucket'
         BY <1>5 DEF RemoveBucket, WillClean
   <2> QED BY <2>1
<1> QED BY <1>1, <1>2, <1>3, <1>4, <1>5 DEF Finally

\* The attempts are those of the loop of emptyBucket.
LEMMA AttemptsKept ==
    ASSUME TypeOK, Inv, CleanupInv, NEW d \in Demos,
           Try(d) \/ Serve(d) \/ Finally(d) \/ Break(d), NEW e \in Demos,
           pc'[e] \notin {"list", "purge", "remove", "done"}
    PROVE  attemptsLeft'[e] = AttemptsLeft
<1> USE DEF Inv, Shapes, Goto, Throw
<1>1. CASE attemptsLeft' = attemptsLeft
   <2>1. pc[e] \notin {"list", "purge", "remove", "done"}
      <3>1. CASE e # d
            BY <3>1, StepIsMine DEF Mine
      <3>2. CASE e = d
            BY <3>2 DEF Try, Finally, Start, UserCreated, GroupCreated, GotEnvelope, Answered,
               Exists, Make, SetPolicy, Store, Retrieve, Serve, Delete, EmptyBucket, List, Purge,
               RemoveBucket, Break, Asking, Uploading
      <3> QED BY <3>1, <3>2
   <2> QED BY <1>1, <2>1 DEF CleanupInv
<1>2. CASE List(d)
   <2>1. /\ pc[d] = "list" /\ pc'[d] \in {"list", "purge", "remove", "done"}
         /\ \E n : attemptsLeft' = [attemptsLeft EXCEPT ![d] = n] \/ attemptsLeft' = attemptsLeft
         BY <1>2 DEF List
   <2>2. e # d /\ pc'[e] = pc[e]
         BY <1>2, <2>1, StepIsMine DEF Mine, Finally
   <2> QED BY <2>1, <2>2 DEF CleanupInv, TypeOK
<1> QED BY <1>1, <1>2 DEF Try, Finally, Start, UserCreated, GroupCreated, GotEnvelope,
           Exists, Make, SetPolicy, Store, Retrieve, Serve, Delete, EmptyBucket, Purge,
           RemoveBucket, Break

\* Every step keeps CleanupInv: a bucket that is there, or is made, has its cleaner.
LEMMA NextCleans == TypeOK /\ Inv /\ CleanupInv /\ [Next]_vars => CleanupInv'
<1> SUFFICES ASSUME TypeOK, Inv, CleanupInv, [Next]_vars PROVE CleanupInv'  OBVIOUS
<1>1. ASSUME NEW d \in Demos, Try(d) \/ Serve(d) \/ Finally(d) \/ Break(d) PROVE CleanupInv'
   <2>1. ASSUME bucket', \A e \in Demos : <<e, "finally">> \notin troubled'
         PROVE  \E e \in Demos : WillClean(e)'
      <3>1. \A e \in Demos : <<e, "finally">> \notin troubled
         <4>1. troubled \subseteq troubled'
               BY <1>1 DEF Try, Finally, Start, UserCreated, GroupCreated, GotEnvelope, Exists,
                  Make, SetPolicy, Store, Retrieve, Serve, Delete, EmptyBucket, List, Purge,
                  RemoveBucket, Break, deleteFrame
         <4> QED BY <2>1, <4>1
      <3>2. CASE Try(d) \/ (Break(d) /\ pc[d] \in Asking \cup Uploading)
            BY <3>2, TryCleans
      <3>3. CASE Break(d) /\ pc[d] \notin Asking \cup Uploading
            BY <2>1, <3>3 DEF Break
      <3>4. CASE Serve(d) \/ Finally(d)
         <4>1. bucket
            <5>1. CASE RemoveBucket(d)
                  BY <2>1, <5>1 DEF RemoveBucket
            <5>2. CASE Serve(d) \/ Delete(d) \/ EmptyBucket(d) \/ List(d) \/ Purge(d)
                  BY <2>1, <5>2 DEF Serve, Delete, EmptyBucket, List, Purge, storage
            <5> QED BY <3>4, <5>1, <5>2 DEF Finally
         <4>2. PICK e \in Demos : WillClean(e)
               BY <3>1, <4>1 DEF CleanupInv
         <4>3. CASE e # d
               BY <1>1, <4>2, <4>3, CleanerStays
         <4>4. CASE e = d /\ Finally(d)
               BY <2>1, <4>2, <4>4, FinallyCleans
         <4>5. CASE e = d /\ Serve(d)
               BY <4>2, <4>5 DEF Serve, WillClean, storage
         <4> QED BY <3>4, <4>3, <4>4, <4>5
      <3> QED BY <1>1, <3>2, <3>3, <3>4
   <2> QED BY <1>1, <2>1, AttemptsKept DEF CleanupInv
<1>2. CASE UNCHANGED vars
      BY <1>2 DEF vars, storage, CleanupInv, WillClean
<1> QED BY <1>1, <1>2 DEF Next

\* When every demo is over and no call was lost in a finally block, the bucket is
\* gone: NothingStaysBehind, for any number of demos and attempts.  One attempt is
\* enough: whoever stores an object has its own finally block still to come.
THEOREM BucketGoes == Spec => []NothingStaysBehind
<1>1. Init => CleanupInv
      BY DemoAssumption DEF Init, CleanupInv, WillClean
<1>2. CleanupInv => NothingStaysBehind
      BY DEF CleanupInv, NothingStaysBehind, AllDone, WillClean
<1> QED BY <1>1, <1>2, InitTypes, InitKeeps, NextTypes, NextKeeps, NextCleans, PTL DEF Spec


-----------------------------------------------------------------------------
(***************************************************************************)
(* Progress.                                                               *)
(***************************************************************************)

\* The distance from the end, place by place, for n = 2 * a and m = 2 * AttemptsLeft.
Distances(a, n, m) ==
    /\ Remaining("done", a) = 0 /\ Remaining("remove", a) = 1
    /\ Remaining("list", a) = n + 2 /\ Remaining("purge", a) = n + 3
    /\ Remaining("empty", a) = m + 4
    /\ Remaining("delete", a) = m + 5
    /\ Remaining("get", a) = m + 6
    /\ Remaining("store", a) = m + 7
    /\ Remaining("policy", a) = m + 8
    /\ Remaining("make", a) = m + 9
    /\ Remaining("exists", a) = m + 10
    /\ Remaining("get_keys_of_group", a) = m + 11
    /\ Remaining("create_group", a) = m + 12
    /\ Remaining("create_user", a) = m + 13
    /\ Remaining("start", a) = m + 14

\* What Remaining says of each place.
LEMMA RemainingIs == ASSUME NEW a PROVE Distances(a, 2 * a, 2 * AttemptsLeft)
BY DEF Distances, Remaining, Stage

\* It is a number, and the finally block is closer to the end than the try block.
LEMMA RemainingBounds ==
    ASSUME NEW a \in 0 .. AttemptsLeft, NEW place
    PROVE  /\ place \in {"start", "done"} \cup Asking \cup Uploading \cup Deleting =>
                 Remaining(place, a) \in 0 .. 2 * AttemptsLeft + 14
           /\ place \in Asking \cup Uploading => Remaining("delete", a) < Remaining(place, a)
           /\ place \in Deleting => Remaining("done", a) < Remaining(place, a)
<1> DEFINE n == 2 * a
           m == 2 * AttemptsLeft
<1>1. n \in Nat /\ m \in Nat /\ n <= m /\ Distances(a, n, m)
  BY DemoAssumption, RemainingIs
<1> HIDE DEF n, m
<1> QED
  <2>1. /\ place \in {"start", "done"} \cup Asking \cup Uploading \cup Deleting =>
              Remaining(place, a) \in 0 .. m + 14
        /\ place \in Asking \cup Uploading => Remaining("delete", a) < Remaining(place, a)
        /\ place \in Deleting => Remaining("done", a) < Remaining(place, a)
    BY <1>1 DEF Distances, Asking, Uploading, Deleting
  <2> QED
    BY <2>1, Zenon DEF m

\* It falls from each call to the next ones.
LEMMA RemainingFalls ==
    ASSUME NEW a \in 0 .. AttemptsLeft
    PROVE  /\ Remaining("create_user", a) < Remaining("start", a)
           /\ Remaining("create_group", a) < Remaining("create_user", a)
           /\ Remaining("get_keys_of_group", a) < Remaining("create_group", a)
           /\ Remaining("exists", a) < Remaining("get_keys_of_group", a)
           /\ Remaining("delete", a) < Remaining("get_keys_of_group", a)
           /\ Remaining("store", a) < Remaining("exists", a)
           /\ Remaining("make", a) < Remaining("exists", a)
           /\ Remaining("policy", a) < Remaining("make", a)
           /\ Remaining("delete", a) < Remaining("make", a)
           /\ Remaining("store", a) < Remaining("policy", a)
           /\ Remaining("delete", a) < Remaining("policy", a)
           /\ Remaining("get", a) < Remaining("store", a)
           /\ Remaining("delete", a) < Remaining("store", a)
           /\ Remaining("delete", a) < Remaining("get", a)
           /\ Remaining("empty", a) < Remaining("delete", a)
           /\ Remaining("done", a) < Remaining("delete", a)
           /\ Remaining("list", a) < Remaining("empty", a)
           /\ Remaining("remove", a) < Remaining("empty", a)
           /\ Remaining("list", a) < Remaining("purge", a)
           /\ Remaining("done", a) < Remaining("purge", a)
           /\ Remaining("done", a) < Remaining("remove", a)
<1> DEFINE n == 2 * a
           m == 2 * AttemptsLeft
<1>1. n \in Nat /\ m \in Nat /\ n <= m /\ Distances(a, n, m)
  BY DemoAssumption, RemainingIs
<1> HIDE DEF n, m
<1>2. /\ Remaining("create_user", a) < Remaining("start", a)
      /\ Remaining("create_group", a) < Remaining("create_user", a)
      /\ Remaining("get_keys_of_group", a) < Remaining("create_group", a)
      /\ Remaining("exists", a) < Remaining("get_keys_of_group", a)
      /\ Remaining("delete", a) < Remaining("get_keys_of_group", a)
      /\ Remaining("store", a) < Remaining("exists", a)
  BY <1>1 DEF Distances
<1>3. /\ Remaining("make", a) < Remaining("exists", a)
      /\ Remaining("policy", a) < Remaining("make", a)
      /\ Remaining("delete", a) < Remaining("make", a)
      /\ Remaining("store", a) < Remaining("policy", a)
      /\ Remaining("delete", a) < Remaining("policy", a)
      /\ Remaining("get", a) < Remaining("store", a)
  BY <1>1 DEF Distances
<1>4. /\ Remaining("delete", a) < Remaining("store", a)
      /\ Remaining("delete", a) < Remaining("get", a)
      /\ Remaining("empty", a) < Remaining("delete", a)
      /\ Remaining("done", a) < Remaining("delete", a)
      /\ Remaining("list", a) < Remaining("empty", a)
      /\ Remaining("remove", a) < Remaining("empty", a)
  BY <1>1 DEF Distances
<1>5. /\ Remaining("list", a) < Remaining("purge", a)
      /\ Remaining("done", a) < Remaining("purge", a)
      /\ Remaining("done", a) < Remaining("remove", a)
  BY <1>1 DEF Distances
<1> QED
  BY <1>2, <1>3, <1>4, <1>5, Zenon

\* A step of a demo that leaves its attempts alone.
Moves(d, from, to) ==
    /\ pc[d] = from /\ pc'[d] = to /\ attemptsLeft'[d] = attemptsLeft[d]
    /\ \A e \in Demos \ {d} : pc'[e] = pc[e] /\ attemptsLeft'[e] = attemptsLeft[e]

\* A step of a demo leaves the others where they are, and brings it closer to its
\* end.
LEMMA OwnStep ==
    ASSUME TypeOK, NEW d \in Demos, Try(d) \/ Finally(d) \/ Break(d)
    PROVE  /\ \A e \in Demos \ {d} : pc'[e] = pc[e] /\ attemptsLeft'[e] = attemptsLeft[e]
           /\ Rank(d)' < Rank(d)
<1> DEFINE a == attemptsLeft[d]
<1>1. a \in 0 .. AttemptsLeft /\ a \in Nat /\ AttemptsLeft \in Nat
  BY DemoAssumption DEF TypeOK
<1>2. ASSUME NEW from, NEW to, Moves(d, from, to), Remaining(to, a) < Remaining(from, a)
      PROVE  /\ \A e \in Demos \ {d} : pc'[e] = pc[e] /\ attemptsLeft'[e] = attemptsLeft[e]
             /\ Rank(d)' < Rank(d)
  BY <1>2 DEF Moves, Rank
<1> HIDE DEF a
<1>3. CASE Start(d)
  <2>1. Moves(d, "start", "create_user")
    BY <1>3 DEF Start, Ask, Goto, Moves, TypeOK
  <2> QED
    BY <1>1, <1>2, <2>1, RemainingFalls, Zenon
<1>4. CASE UserCreated(d)
  <2>1. Moves(d, "create_user", "create_group")
    BY <1>4 DEF UserCreated, Answered, Ask, Goto, Moves, TypeOK
  <2> QED
    BY <1>1, <1>2, <2>1, RemainingFalls, Zenon
<1>5. CASE GroupCreated(d)
  <2>1. Moves(d, "create_group", "get_keys_of_group")
    BY <1>5 DEF GroupCreated, Answered, Ask, Goto, Moves, TypeOK
  <2> QED
    BY <1>1, <1>2, <2>1, RemainingFalls, Zenon
<1>6. CASE GotEnvelope(d)
  <2>1. Moves(d, "get_keys_of_group", "exists") \/ Moves(d, "get_keys_of_group", "delete")
    BY <1>6 DEF GotEnvelope, Answered, Throw, Goto, Moves, TypeOK
  <2> QED
    BY <1>1, <1>2, <2>1, RemainingFalls, Zenon
<1>7. CASE Exists(d)
  <2>1. Moves(d, "exists", "store") \/ Moves(d, "exists", "make")
    BY <1>7 DEF Exists, Goto, Moves, TypeOK
  <2> QED
    BY <1>1, <1>2, <2>1, RemainingFalls, Zenon
<1>8. CASE Make(d)
  <2>1. Moves(d, "make", "policy") \/ Moves(d, "make", "delete")
    BY <1>8 DEF Make, Throw, Goto, Moves, TypeOK
  <2> QED
    BY <1>1, <1>2, <2>1, RemainingFalls, Zenon
<1>9. CASE SetPolicy(d)
  <2>1. Moves(d, "policy", "store") \/ Moves(d, "policy", "delete")
    BY <1>9 DEF SetPolicy, Throw, Goto, Moves, TypeOK
  <2> QED
    BY <1>1, <1>2, <2>1, RemainingFalls, Zenon
<1>10. CASE Store(d)
  <2>1. Moves(d, "store", "get") \/ Moves(d, "store", "delete")
    BY <1>10 DEF Store, Throw, Goto, Moves, TypeOK
  <2> QED
    BY <1>1, <1>2, <2>1, RemainingFalls, Zenon
<1>11. CASE Retrieve(d)
  <2>1. Moves(d, "get", "delete")
    BY <1>11 DEF Retrieve, Throw, Goto, Moves, TypeOK
  <2> QED
    BY <1>1, <1>2, <2>1, RemainingFalls, Zenon
<1>12. CASE Delete(d)
  <2>1. Moves(d, "delete", "empty") \/ Moves(d, "delete", "done")
    BY <1>12 DEF Delete, Goto, Moves, TypeOK
  <2> QED
    BY <1>1, <1>2, <2>1, RemainingFalls, Zenon
<1>13. CASE EmptyBucket(d)
  <2>1. Moves(d, "empty", "list") \/ Moves(d, "empty", "remove")
    BY <1>13 DEF EmptyBucket, Goto, Moves, TypeOK
  <2> QED
    BY <1>1, <1>2, <2>1, RemainingFalls, Zenon
<1>14. CASE List(d)
  <2>1. /\ \A e \in Demos \ {d} : pc'[e] = pc[e] /\ attemptsLeft'[e] = attemptsLeft[e]
        /\ pc[d] = "list"
        /\ \/ pc'[d] = "remove" /\ attemptsLeft'[d] = a
           \/ attemptsLeft'[d] = a - 1 /\ pc'[d] \in {"done", "remove", "purge", "list"}
    BY <1>14 DEF List, Goto, TypeOK, a
  <2> DEFINE n == 2 * a
             k == 2 * (a - 1)
             m == 2 * AttemptsLeft
  <2>2. Distances(a, n, m) /\ Distances(a - 1, k, m)
    BY RemainingIs
  <2>3. n \in Nat /\ k = n - 2
    BY <1>1
  <2> HIDE DEF n, k, m
  <2>4. Rank(d) = n + 2 /\ Rank(d)' = Remaining(pc'[d], attemptsLeft'[d])
    BY <2>1, <2>2 DEF Rank, a, Distances
  <2>5. Rank(d)' \in {0, 1, k + 2, k + 3}
    <3>1. /\ Remaining("remove", a) = 1 /\ Remaining("remove", a - 1) = 1
          /\ Remaining("done", a - 1) = 0 /\ Remaining("list", a - 1) = k + 2
          /\ Remaining("purge", a - 1) = k + 3
      BY <2>2, Zenon DEF Distances
    <3> QED
      BY <2>1, <2>4, <3>1, Zenon
  <2>6. 0 < n + 2 /\ 1 < n + 2 /\ k + 2 < n + 2 /\ k + 3 < n + 2
    BY <2>3
  <2>7. Rank(d)' < Rank(d)
    BY <2>4, <2>5, <2>6, Zenon
  <2> QED
    BY <2>1, <2>7, Zenon
<1>15. CASE Purge(d)
  <2>1. Moves(d, "purge", "list") \/ Moves(d, "purge", "done")
    BY <1>15 DEF Purge, Goto, Moves, TypeOK
  <2> QED
    BY <1>1, <1>2, <2>1, RemainingFalls, Zenon
<1>16. CASE RemoveBucket(d)
  <2>1. Moves(d, "remove", "done")
    BY <1>16 DEF RemoveBucket, Goto, Moves, TypeOK
  <2> QED
    BY <1>1, <1>2, <2>1, RemainingFalls, Zenon
<1>17. CASE Break(d)
  <2>1. \/ pc[d] \in Asking \cup Uploading /\ Moves(d, pc[d], "delete")
        \/ pc[d] \in Deleting /\ Moves(d, pc[d], "done")
    BY <1>17 DEF Break, Throw, Goto, Moves, TypeOK
  <2> QED
    BY <1>1, <1>2, <2>1, RemainingBounds, Zenon
<1> QED
  BY <1>3, <1>4, <1>5, <1>6, <1>7, <1>8, <1>9, <1>10, <1>11, <1>12, <1>13, <1>14, <1>15, <1>16,
     <1>17 DEF Try, Finally


\* Every demo, among any number of them and for any number of attempts, gets closer
\* to its end with every step of its own and is never set back: DemosAdvance.
THEOREM DemosWindDown == Spec => DemosAdvance
<1> DEFINE Bounded == \A d \in Demos : Rank(d) \in 0 .. 2 * AttemptsLeft + 14
           Falls == \A d \in Demos : /\ Rank(d)' <= Rank(d)
                                     /\ Try(d) \/ Finally(d) \/ Break(d) => Rank(d)' < Rank(d)
<1>1. TypeOK => Bounded
  <2> SUFFICES ASSUME TypeOK, NEW d \in Demos PROVE Rank(d) \in 0 .. 2 * AttemptsLeft + 14
    OBVIOUS
  <2>1. /\ attemptsLeft[d] \in 0 .. AttemptsLeft
        /\ pc[d] \in {"start", "done"} \cup Asking \cup Uploading \cup Deleting
    BY DEF TypeOK
  <2> QED
    BY <2>1, RemainingBounds, Zenon DEF Rank
<1>2. TypeOK /\ Bounded' /\ Next => Falls
  <2> SUFFICES ASSUME TypeOK, Bounded', Next, NEW d \in Demos
               PROVE  /\ Rank(d)' <= Rank(d)
                      /\ Try(d) \/ Finally(d) \/ Break(d) => Rank(d)' < Rank(d)
    OBVIOUS
  <2>1. Rank(d) \in Nat /\ Rank(d)' \in Nat
    BY <1>1, DemoAssumption
  <2>2. Try(d) \/ Finally(d) \/ Break(d) => Rank(d)' < Rank(d)
    BY OwnStep
  <2>3. Rank(d)' < Rank(d) => Rank(d)' <= Rank(d)
    BY <2>1
  <2>4. pc'[d] = pc[d] /\ attemptsLeft'[d] = attemptsLeft[d] => Rank(d)' <= Rank(d)
    <3>1. pc'[d] = pc[d] /\ attemptsLeft'[d] = attemptsLeft[d] => Rank(d)' = Rank(d)
      BY DEF Rank
    <3> QED
      BY <2>1, <3>1
  <2>5. ASSUME NEW e \in Demos, Try(e) \/ Finally(e) \/ Break(e) PROVE Rank(d)' <= Rank(d)
    BY <2>3, <2>4, <2>5, OwnStep
  <2>6. ASSUME NEW e \in Demos, Serve(e) PROVE Rank(d)' <= Rank(d)
    BY <2>4, <2>6 DEF Serve
  <2>7. ASSUME UNCHANGED vars PROVE Rank(d)' <= Rank(d)
    BY <2>4, <2>7 DEF vars
  <2> QED
    BY <2>2, <2>5, <2>6, <2>7 DEF Next
<1> HIDE DEF Bounded, Falls
<1>3. Spec => []Bounded
  BY <1>1, DemoTypeCorrect, PTL
<1>4. Spec => [][Falls]_vars
  BY <1>2, <1>3, DemoTypeCorrect, PTL DEF Spec
<1> QED
  BY <1>3, <1>4, PTL DEF DemosAdvance, Bounded, Falls
=============================================================================
