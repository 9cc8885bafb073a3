-------------------------- MODULE MemDatabaseProofs --------------------------
(***************************************************************************)
(* Proofs about MemDatabase, for any sets of users, groups, keys, threads  *)
(* and requests.                                                           *)
(***************************************************************************)
EXTENDS MemDatabase, TLAPS

-----------------------------------------------------------------------------
\* The std::map operations of DbTypes.

\* What it means to be a std::map from S to T.
LEMMA MapFacts ==
    ASSUME NEW S, NEW T, NEW f \in MapOf(S, T)
    PROVE  /\ DOMAIN f \subseteq S
           /\ \A x \in DOMAIN f : f[x] \in T
           /\ f = [x \in DOMAIN f |-> f[x]]
BY DEF MapOf

\* Put, as insert or operator[] followed by an assignment, yields a map.
LEMMA PutIsMap ==
    ASSUME NEW S, NEW T, NEW f \in MapOf(S, T), NEW x \in S, NEW y \in T
    PROVE  Put(f, x, y) \in MapOf(S, T)
<1>1. Put(f, x, y) \in [DOMAIN f \cup {x} -> T]
  BY MapFacts DEF Put
<1>2. DOMAIN f \cup {x} \in SUBSET S
  BY MapFacts
<1>3. QED
  BY <1>1, <1>2 DEF MapOf

\* Drop, as erase, yields a map.
LEMMA DropIsMap ==
    ASSUME NEW S, NEW T, NEW f \in MapOf(S, T), NEW x
    PROVE  Drop(f, x) \in MapOf(S, T)
<1>1. Drop(f, x) \in [DOMAIN f \ {x} -> T]
  BY MapFacts DEF Drop
<1>2. DOMAIN f \ {x} \in SUBSET S
  BY MapFacts
<1>3. QED
  BY <1>1, <1>2 DEF MapOf

\* The cleared map.
LEMMA EmptyFacts ==
    ASSUME NEW S, NEW T
    PROVE  EmptyMap \in MapOf(S, T) /\ DOMAIN EmptyMap = {}
<1>1. EmptyMap \in [{} -> T]
  BY DEF EmptyMap
<1>2. {} \in SUBSET S
  OBVIOUS
<1>3. QED
  BY <1>1, <1>2 DEF MapOf, EmptyMap

\* The loop of delete_user keeps the groups and takes the user out of each.
LEMMA EraseFacts ==
    ASSUME NEW f \in GroupMap, NEW u
    PROVE  /\ EraseMember(f, u) \in GroupMap
           /\ DOMAIN EraseMember(f, u) = DOMAIN f
           /\ \A g \in DOMAIN f : EraseMember(f, u)[g] = f[g] \ {u}
<1>1. EraseMember(f, u) \in [DOMAIN f -> SUBSET Users]
  <2>1. \A g \in DOMAIN f : f[g] \in SUBSET Users
    BY MapFacts DEF GroupMap
  <2>2. QED
    BY <2>1 DEF EraseMember
<1>2. DOMAIN f \in SUBSET Groups
  BY MapFacts DEF GroupMap
<1>3. QED
  BY <1>1, <1>2 DEF GroupMap, MapOf, EraseMember

\* The answers the operations give are answers.
LEMMA AnswerFacts ==
    /\ \A s \in Statuses : Answer(s) \in Answers
    /\ \A b \in BOOLEAN : Belongs(b) \in Answers
    /\ \A ks \in SUBSET Keys : KeyArray(ks) \in Answers
BY DEF Answer, Belongs, KeyArray, Answers, Statuses

-----------------------------------------------------------------------------
\* A thread inside an operation executes a well-formed request.
LEMMA RequestFacts ==
    ASSUME TypeOK, CallInv, NEW t \in Threads, pc[t] # "idle"
    PROVE  /\ call[t] \in Requests
           /\ call[t].op \in Ops /\ call[t].gname \in Groups
           /\ call[t].uid \in Users /\ call[t].key \in Keys
BY RequestsAssumption DEF TypeOK, CallInv

\* Indexing groups_ yields a set of users.
LEMMA MembersFacts ==
    ASSUME TypeOK, NEW g
    PROVE  Members(g) \subseteq Users
BY MapFacts DEF TypeOK, GroupMap, Members

\* Every step keeps the mutexes in line with the program counters.
LEMMA LockStep ==
    ASSUME TypeOK, LockInv, CallInv, NEW t \in Threads, Call(t) \/ Step(t)
    PROVE  LockInv'
<1> USE FreeAssumption DEF TypeOK, PCs, LockInv
<1>1. CASE Call(t)
  BY <1>1 DEF Call, Entry
<1>2. CASE LockGroups(t) \/ LockForKeys(t) \/ LockUsers(t) \/ LockGroupsToo(t)
  BY <1>2 DEF LockGroups, LockForKeys, LockUsers, LockGroupsToo, At, Goto, Throw, Finish
<1>3. CASE CheckUser(t) \/ CopyKey(t) \/ FindGroup(t) \/ CreateUser(t)
  BY <1>3 DEF CheckUser, CopyKey, FindGroup, CreateUser, Goto, Throw, Finish
<1>4. CASE \/ AddUserToGroup(t) \/ CreateGroup(t) \/ RemoveUserFromGroup(t) \/ ReturnKeys(t)
           \/ DeleteUser(t) \/ DeleteAllData(t) \/ ReadMember(t)
  BY <1>4 DEF AddUserToGroup, CreateGroup, RemoveUserFromGroup, ReturnKeys, DeleteUser,
              DeleteAllData, ReadMember, Finish
<1>5. QED
  BY <1>1, <1>2, <1>3, <1>4 DEF Step

\* Every step keeps requests and labels in line.
LEMMA CallStep ==
    ASSUME TypeOK, CallInv, NEW t \in Threads, Call(t) \/ Step(t)
    PROVE  CallInv'
<1> USE DEF TypeOK, PCs, CallInv
<1>1. CASE Call(t)
  BY <1>1, RequestsAssumption DEF Call, Entry, Ops, GroupOps, DeleteOps
<1>2. CASE LockGroups(t) \/ LockForKeys(t) \/ LockUsers(t) \/ LockGroupsToo(t)
  BY <1>2 DEF LockGroups, LockForKeys, LockUsers, LockGroupsToo, At, Goto, Throw, Finish
<1>3. CASE CheckUser(t) \/ CopyKey(t) \/ FindGroup(t) \/ CreateUser(t)
  BY <1>3 DEF CheckUser, CopyKey, FindGroup, CreateUser, Goto, Throw, Finish
<1>4. CASE \/ AddUserToGroup(t) \/ CreateGroup(t) \/ RemoveUserFromGroup(t) \/ ReturnKeys(t)
           \/ DeleteUser(t) \/ DeleteAllData(t) \/ ReadMember(t)
  BY <1>4 DEF AddUserToGroup, CreateGroup, RemoveUserFromGroup, ReturnKeys, DeleteUser,
              DeleteAllData, ReadMember, Finish
<1>5. QED
  BY <1>1, <1>2, <1>3, <1>4 DEF Step

-----------------------------------------------------------------------------
\* How a step of thread t may change the two maps.

Untouched == UNCHANGED <<users_, groups_>>

GroupWritten(t) ==
    /\ pc[t] = "update"
    /\ UNCHANGED users_
    /\ groups_' \in GroupMap
    /\ \A h \in DOMAIN groups_' : groups_'[h] \subseteq Members(h) \cup {call[t].uid}

UserCreated(t) ==
    /\ pc[t] = "ulock"
    /\ UNCHANGED groups_
    /\ users_' \in UserMap
    /\ DOMAIN users_ \subseteq DOMAIN users_'
    /\ \A u \in DOMAIN users_ : users_'[u] = users_[u]

Deleted(t) ==
    /\ pc[t] = "wipe"
    /\ users_' \in UserMap /\ groups_' \in GroupMap
    /\ DOMAIN users_' \subseteq DOMAIN users_
    /\ \A u \in DOMAIN users_' : users_'[u] = users_[u]
    /\ MembersKnown => MembersKnown'

GroupRead(t) ==
    /\ pc[t] = "member"
    /\ UNCHANGED users_
    /\ groups_' \in GroupMap
    /\ DOMAIN groups_ \subseteq DOMAIN groups_'
    /\ \A h \in DOMAIN groups_' : groups_'[h] = Members(h)

\* A group operation leaves a map in which only its own group has changed.
LEMMA PutGroup ==
    ASSUME TypeOK, NEW g \in Groups, NEW m \in SUBSET Users,
           groups_' = Put(groups_, g, m)
    PROVE  /\ groups_' \in GroupMap
           /\ DOMAIN groups_' = DOMAIN groups_ \cup {g}
           /\ \A h \in DOMAIN groups_' : groups_'[h] = IF h = g THEN m ELSE groups_[h]
<1>1. groups_ \in MapOf(Groups, SUBSET Users)
  BY DEF TypeOK, GroupMap
<1>2. Put(groups_, g, m) \in MapOf(Groups, SUBSET Users)
  BY <1>1, PutIsMap
<1>3. QED
  BY <1>2 DEF GroupMap, Put

\* Every step changes the maps in one of these ways.
LEMMA StepEffect ==
    ASSUME TypeOK, CallInv, NEW t \in Threads, Call(t) \/ Step(t)
    PROVE  Untouched \/ GroupWritten(t) \/ UserCreated(t) \/ Deleted(t) \/ GroupRead(t)
<1>a. pc[t] # "idle" => call[t].gname \in Groups /\ call[t].uid \in Users /\ call[t].key \in Keys
  BY RequestFacts
<1>b. \A g : Members(g) \in SUBSET Users
  BY MembersFacts
<1>1. CASE \/ Call(t) \/ LockGroups(t) \/ CheckUser(t) \/ LockForKeys(t) \/ CopyKey(t)
           \/ ReturnKeys(t) \/ LockUsers(t) \/ LockGroupsToo(t) \/ FindGroup(t)
  BY <1>1 DEF Untouched, Call, LockGroups, CheckUser, LockForKeys, CopyKey, ReturnKeys,
              LockUsers, LockGroupsToo, FindGroup, Throw
<1>2. CASE AddUserToGroup(t) \/ CreateGroup(t) \/ RemoveUserFromGroup(t)
  <2>1. PICK m \in SUBSET Users :
           /\ groups_' = Put(groups_, call[t].gname, m)
           /\ m \subseteq Members(call[t].gname) \cup {call[t].uid}
    BY <1>2, <1>a, <1>b DEF AddUserToGroup, CreateGroup, RemoveUserFromGroup, At
  <2>2. pc[t] = "update" /\ UNCHANGED users_
    BY <1>2 DEF AddUserToGroup, CreateGroup, RemoveUserFromGroup, At
  <2>3. /\ groups_' \in GroupMap
        /\ \A h \in DOMAIN groups_' :
              groups_'[h] = IF h = call[t].gname THEN m ELSE groups_[h]
        /\ DOMAIN groups_' = DOMAIN groups_ \cup {call[t].gname}
    <3>1. call[t].gname \in Groups
      BY <2>2, <1>a
    <3>2. groups_' = Put(groups_, call[t].gname, m)
      BY <2>1
    <3>3. m \in SUBSET Users
      BY <2>1
    <3>4. QED
      BY <3>1, <3>2, <3>3, PutGroup
  <2>4. QED
    BY <2>1, <2>2, <2>3 DEF GroupWritten, Members
<1>3. CASE CreateUser(t)
  <2>1. CASE Untouched
    BY <2>1
  <2>2. CASE call[t].uid \notin DOMAIN users_ /\ users_' = Put(users_, call[t].uid, call[t].key)
    <3>1. pc[t] = "ulock" /\ UNCHANGED groups_
      BY <1>3, <2>2 DEF CreateUser, At, Throw
    <3>2. /\ users_' \in UserMap
          /\ DOMAIN users_' = DOMAIN users_ \cup {call[t].uid}
          /\ \A u \in DOMAIN users_' :
                users_'[u] = IF u = call[t].uid THEN call[t].key ELSE users_[u]
      <4>1. users_ \in MapOf(Users, Keys) /\ call[t].uid \in Users /\ call[t].key \in Keys
        BY <3>1, <1>a DEF TypeOK, UserMap
      <4>2. Put(users_, call[t].uid, call[t].key) \in MapOf(Users, Keys)
        BY <4>1, PutIsMap
      <4>3. QED
        BY <2>2, <4>2 DEF UserMap, Put
    <3>3. QED
      BY <2>2, <3>1, <3>2 DEF UserCreated
  <2>3. QED
    BY <1>3, <2>1, <2>2 DEF CreateUser, Throw, Untouched
<1>4. CASE DeleteUser(t)
  <2>1. pc[t] = "wipe"
    BY <1>4 DEF DeleteUser, At
  <2>2. /\ users_' \in UserMap
        /\ DOMAIN users_' = DOMAIN users_ \ {call[t].uid}
        /\ \A u \in DOMAIN users_' : users_'[u] = users_[u]
    <3>1. users_ \in MapOf(Users, Keys) /\ users_' = Drop(users_, call[t].uid)
      BY <1>4 DEF DeleteUser, TypeOK, UserMap
    <3>2. Drop(users_, call[t].uid) \in MapOf(Users, Keys)
      BY <3>1, DropIsMap
    <3>3. QED
      BY <3>1, <3>2 DEF UserMap, Drop
  <2>3. /\ groups_' \in GroupMap
        /\ DOMAIN groups_' = DOMAIN groups_
        /\ \A h \in DOMAIN groups_' : groups_'[h] = groups_[h] \ {call[t].uid}
    BY <1>4, EraseFacts DEF DeleteUser, TypeOK
  <2>4. QED
    BY <2>1, <2>2, <2>3 DEF Deleted, MembersKnown
<1>5. CASE DeleteAllData(t)
  <2>1. pc[t] = "wipe" /\ users_' = EmptyMap /\ groups_' = EmptyMap
    BY <1>5 DEF DeleteAllData, At
  <2>2. users_' \in UserMap /\ groups_' \in GroupMap
    BY <2>1, EmptyFacts DEF UserMap, GroupMap
  <2>3. DOMAIN users_' = {} /\ DOMAIN groups_' = {}
    BY <2>1, EmptyFacts
  <2>4. QED
    BY <2>1, <2>2, <2>3 DEF Deleted, MembersKnown
<1>6. CASE ReadMember(t)
  <2>1. pc[t] = "member" /\ UNCHANGED users_
    BY <1>6 DEF ReadMember
  <2>2. PICK m \in SUBSET Users :
           m = Members(call[t].gname) /\ groups_' = Put(groups_, call[t].gname, m)
    BY <1>6, <1>b DEF ReadMember
  <2>3. /\ groups_' \in GroupMap
        /\ \A h \in DOMAIN groups_' :
              groups_'[h] = IF h = call[t].gname THEN m ELSE groups_[h]
        /\ DOMAIN groups_' = DOMAIN groups_ \cup {call[t].gname}
    <3>1. call[t].gname \in Groups
      BY <2>1, <1>a
    <3>2. QED
      BY <2>2, <3>1, PutGroup, Zenon
  <2>4. QED
    BY <2>1, <2>2, <2>3 DEF GroupRead, Members
<1>7. QED
  BY <1>1, <1>2, <1>3, <1>4, <1>5, <1>6 DEF Step

\* What a step of t leaves alone of another thread s.
LEMMA OtherThreads ==
    ASSUME TypeOK, NEW t \in Threads, Call(t) \/ Step(t), NEW s \in Threads \ {t}
    PROVE  pc'[s] = pc[s] /\ call'[s] = call[s] /\ todo'[s] = todo[s] /\ ka'[s] = ka[s]
<1>1. CASE \/ Call(t) \/ LockGroups(t) \/ CheckUser(t) \/ LockForKeys(t) \/ CopyKey(t)
           \/ ReturnKeys(t) \/ LockUsers(t) \/ LockGroupsToo(t) \/ FindGroup(t)
  BY <1>1 DEF Call, LockGroups, CheckUser, LockForKeys, CopyKey, ReturnKeys,
              LockUsers, LockGroupsToo, FindGroup, Throw, Finish, Goto, TypeOK
<1>2. CASE \/ AddUserToGroup(t) \/ CreateGroup(t) \/ RemoveUserFromGroup(t)
           \/ CreateUser(t) \/ DeleteUser(t) \/ DeleteAllData(t) \/ ReadMember(t)
  BY <1>2 DEF AddUserToGroup, CreateGroup, RemoveUserFromGroup, CreateUser, DeleteUser,
              DeleteAllData, ReadMember, Throw, Finish, TypeOK
<1>3. QED
  BY <1>1, <1>2 DEF Step
-----------------------------------------------------------------------------
\* Every step keeps the types.
LEMMA TypeStep ==
    ASSUME TypeOK, CallInv, NEW t \in Threads, Call(t) \/ Step(t)
    PROVE  TypeOK'
<1>1. users_' \in UserMap /\ groups_' \in GroupMap
  BY StepEffect DEF Untouched, GroupWritten, UserCreated, Deleted, GroupRead, TypeOK
<1>2. gmutex_' \in Threads \cup {Free} /\ umutex_' \in Threads \cup {Free}
  BY DEF TypeOK, Step, Call, LockGroups, CheckUser, AddUserToGroup, CreateGroup,
         RemoveUserFromGroup, LockForKeys, CopyKey, ReturnKeys, CreateUser, LockUsers,
         LockGroupsToo, DeleteUser, DeleteAllData, FindGroup, ReadMember, Throw, Finish
<1>3. pc' \in [Threads -> PCs] /\ call' \in [Threads -> Requests \cup {NoCall}]
  <2>1. pc' \in [Threads -> PCs]
    BY DEF TypeOK, PCs, Entry, Step, Call, LockGroups, CheckUser, AddUserToGroup, CreateGroup,
           RemoveUserFromGroup, LockForKeys, CopyKey, ReturnKeys, CreateUser, LockUsers,
           LockGroupsToo, DeleteUser, DeleteAllData, FindGroup, ReadMember, Throw, Finish, Goto
  <2>2. call' \in [Threads -> Requests \cup {NoCall}]
    BY DEF TypeOK, Step, Call, LockGroups, CheckUser, AddUserToGroup, CreateGroup,
           RemoveUserFromGroup, LockForKeys, CopyKey, ReturnKeys, CreateUser, LockUsers,
           LockGroupsToo, DeleteUser, DeleteAllData, FindGroup, ReadMember, Throw, Finish, Goto
  <2>3. QED
    BY <2>1, <2>2
<1>4. todo' \in [Threads -> SUBSET Users] /\ ka' \in [Threads -> SUBSET Keys]
  <2>1. \A g : Members(g) \subseteq Users
    BY MembersFacts
  <2>2. \A u \in DOMAIN users_ : users_[u] \in Keys
    BY MapFacts DEF TypeOK, UserMap
  <2>3. CASE LockForKeys(t)
    BY <2>1, <2>3 DEF TypeOK, LockForKeys, Throw
  <2>4. CASE CopyKey(t)
    BY <2>2, <2>4 DEF TypeOK, CopyKey
  <2>5. CASE ~LockForKeys(t) /\ ~CopyKey(t)
    BY <2>5 DEF TypeOK, Step, Call, LockGroups, CheckUser, AddUserToGroup, CreateGroup,
         RemoveUserFromGroup, ReturnKeys, CreateUser, LockUsers,
         LockGroupsToo, DeleteUser, DeleteAllData, FindGroup, ReadMember, Throw
  <2>6. QED
    BY <2>3, <2>4, <2>5
<1>5. ret' \in [Threads -> Answers]
  <2>1. UNCHANGED ret \/ \E a \in Answers : Finish(t, a)
    <3>1. CASE ReturnKeys(t)
      BY <3>1, AnswerFacts DEF ReturnKeys, TypeOK
    <3>2. CASE ReadMember(t)
      BY <3>2, AnswerFacts DEF ReadMember
    <3>3. CASE AddUserToGroup(t) \/ RemoveUserFromGroup(t)
      BY <3>3, AnswerFacts DEF AddUserToGroup, RemoveUserFromGroup, Statuses
    <3>4. CASE ~(ReturnKeys(t) \/ ReadMember(t) \/ AddUserToGroup(t) \/ RemoveUserFromGroup(t))
      BY <3>4, AnswerFacts DEF Step, Call, LockGroups, CheckUser, CreateGroup,
         LockForKeys, CopyKey, CreateUser, LockUsers, LockGroupsToo, DeleteUser,
         DeleteAllData, FindGroup, Throw, Goto, Statuses
    <3>5. QED
      BY <3>1, <3>2, <3>3, <3>4
  <2>2. QED
    BY <2>1 DEF Finish, TypeOK
<1>6. QED
  BY <1>1, <1>2, <1>3, <1>4, <1>5 DEF TypeOK

\* The only steps that bring a thread to "update" or "keys" are its lookups.
LEMMA Arrivals ==
    ASSUME TypeOK, NEW t \in Threads, Call(t) \/ Step(t)
    PROVE  /\ pc'[t] = "update" => CheckUser(t)
           /\ pc'[t] = "keys" => LockForKeys(t) \/ CopyKey(t)
           /\ pc'[t] \in {"update", "keys"} => call'[t] = call[t]
BY DEF TypeOK, PCs, Entry, Step, Call, LockGroups, CheckUser, AddUserToGroup, CreateGroup,
       RemoveUserFromGroup, LockForKeys, CopyKey, ReturnKeys, CreateUser, LockUsers,
       LockGroupsToo, DeleteUser, DeleteAllData, FindGroup, ReadMember, Throw, Finish, Goto

\* No step deletes a user that a thread has looked up and is about to put into
\* a group: deleting takes gmutex_, which that thread holds.
LEMMA CheckedStep ==
    ASSUME TypeOK, LockInv, CallInv, CheckedInv, NEW t \in Threads, Call(t) \/ Step(t)
    PROVE  CheckedInv'
<1>1. SUFFICES ASSUME NEW s \in Threads, pc'[s] = "update"
               PROVE  call'[s].uid \in DOMAIN users_'
  BY DEF CheckedInv
<1>2. CASE s = t
  <2>1. CheckUser(t) /\ call'[t] = call[t]
    BY <1>1, <1>2, Arrivals
  <2>2. call[t].uid \in DOMAIN users_ /\ UNCHANGED users_
    BY <2>1, <1>1, <1>2 DEF CheckUser, Throw, Finish, TypeOK
  <2>3. QED
    BY <2>1, <2>2, <1>2
<1>3. CASE s # t
  <2>1. pc[s] = "update" /\ call'[s] = call[s]
    BY <1>1, <1>3, OtherThreads
  <2>2. gmutex_ = s /\ call[s].uid \in DOMAIN users_
    BY <2>1 DEF LockInv, CheckedInv
  <2>3. ~Deleted(t)
    BY <2>2, <1>3 DEF Deleted, LockInv
  <2>4. DOMAIN users_ \subseteq DOMAIN users_'
    BY <2>3, StepEffect DEF Untouched, GroupWritten, UserCreated, GroupRead
  <2>5. QED
    BY <2>1, <2>2, <2>4
<1>4. QED
  BY <1>2, <1>3

\* Every step keeps referential integrity.
LEMMA MembersStep ==
    ASSUME TypeOK, CallInv, CheckedInv, MembersKnown, NEW t \in Threads, Call(t) \/ Step(t)
    PROVE  MembersKnown'
<1>1. CASE GroupWritten(t)
  BY <1>1 DEF GroupWritten, Members, CheckedInv, MembersKnown
<1>2. CASE GroupRead(t)
  BY <1>2 DEF GroupRead, Members, MembersKnown
<1>3. CASE Untouched \/ UserCreated(t) \/ Deleted(t)
  BY <1>3 DEF Untouched, UserCreated, Deleted, MembersKnown
<1>4. QED
  BY <1>1, <1>2, <1>3, StepEffect

\* Every step keeps the copied keys those of the visited members: a thread in
\* the copy loop holds gmutex_, so no other thread writes a group or deletes.
LEMMA KeysStep ==
    ASSUME TypeOK, LockInv, CallInv, KeysInv, MembersKnown, NEW t \in Threads, Call(t) \/ Step(t)
    PROVE  KeysInv'
<1>1. SUFFICES ASSUME NEW s \in Threads, pc'[s] = "keys", NEW g, g = call'[s].gname
               PROVE  /\ g \in DOMAIN groups_'
                      /\ groups_'[g] # {}
                      /\ todo'[s] \subseteq groups_'[g]
                      /\ ka'[s] = {users_'[u] : u \in groups_'[g] \ todo'[s]}
  BY DEF KeysInv
<1>2. CASE s = t
  <2>1. call'[t] = call[t] /\ (LockForKeys(t) \/ CopyKey(t))
    BY <1>1, <1>2, Arrivals
  <2>2. UNCHANGED <<users_, groups_>>
    BY <2>1 DEF LockForKeys, CopyKey, Throw
  <2>3. CASE LockForKeys(t)
    <3>1. /\ Members(g) # {} /\ todo'[t] = Members(g) /\ ka'[t] = {}
      BY <2>1, <2>3, <1>1, <1>2 DEF LockForKeys, Throw, Finish, TypeOK
    <3>2. QED
      BY <3>1, <2>2, <1>2 DEF Members
  <2>4. CASE CopyKey(t)
    <3>1. /\ g \in DOMAIN groups_ /\ groups_[g] # {}
          /\ todo[t] \subseteq groups_[g]
          /\ ka[t] = {users_[u] : u \in groups_[g] \ todo[t]}
      BY <2>1, <2>4, <1>1, <1>2 DEF CopyKey, KeysInv
    <3>2. PICK u \in todo[t] :
             /\ todo'[t] = todo[t] \ {u}
             /\ ka'[t] = ka[t] \cup (IF u \in DOMAIN users_ THEN {users_[u]} ELSE {})
      BY <2>4 DEF CopyKey, TypeOK
    <3>3. u \in DOMAIN users_
      BY <3>1, <3>2 DEF MembersKnown
    <3>4. groups_[g] \ todo'[t] = (groups_[g] \ todo[t]) \cup {u}
      BY <3>1, <3>2
    <3>5. ka'[t] = {users_[v] : v \in (groups_[g] \ todo[t]) \cup {u}}
      BY <3>1, <3>2, <3>3
    <3>6. QED
      BY <3>1, <3>2, <3>4, <3>5, <2>2, <1>2
  <2>5. QED
    BY <2>1, <2>3, <2>4
<1>3. CASE s # t
  <2>1. pc[s] = "keys" /\ call'[s] = call[s] /\ todo'[s] = todo[s] /\ ka'[s] = ka[s]
    BY <1>1, <1>3, OtherThreads
  <2>2. /\ g \in DOMAIN groups_ /\ groups_[g] # {}
        /\ todo[s] \subseteq groups_[g]
        /\ ka[s] = {users_[u] : u \in groups_[g] \ todo[s]}
    BY <2>1, <1>1 DEF KeysInv
  <2>3. ~Deleted(t) /\ ~GroupWritten(t)
    BY <2>1, <1>3 DEF Deleted, GroupWritten, LockInv
  <2>4. g \in DOMAIN groups_' /\ groups_'[g] = groups_[g]
    BY <2>2, <2>3, StepEffect DEF Untouched, UserCreated, GroupRead, Members
  <2>5. \A u \in DOMAIN users_ : users_'[u] = users_[u]
    BY <2>3, StepEffect DEF Untouched, UserCreated, GroupRead
  <2>6. \A u \in groups_[g] \ todo[s] : users_'[u] = users_[u]
    BY <2>5, <2>2 DEF MembersKnown
  <2>7. QED
    BY <2>1, <2>2, <2>4, <2>6
<1>4. QED
  BY <1>2, <1>3

-----------------------------------------------------------------------------
\* The inductive invariant holds in every reachable state.
THEOREM Invariance == Spec => []IInv
<1>1. Init => IInv
  BY EmptyFacts, AnswerFacts, FreeAssumption
     DEF Init, IInv, TypeOK, PCs, UserMap, GroupMap, Statuses, LockInv, CallInv,
         CheckedInv, KeysInv, MembersKnown
<1>2. IInv /\ [Next]_vars => IInv'
  <2>1. ASSUME IInv, NEW t \in Threads, Call(t) \/ Step(t)
        PROVE  IInv'
    BY <2>1, TypeStep, LockStep, CallStep, CheckedStep, KeysStep, MembersStep DEF IInv
  <2>2. ASSUME IInv, UNCHANGED vars
        PROVE  IInv'
    <3>1. TypeOK' /\ LockInv'
      BY <2>2 DEF vars, IInv, TypeOK, LockInv
    <3>2. CallInv' /\ CheckedInv'
      BY <2>2 DEF vars, IInv, CallInv, CheckedInv
    <3>3. KeysInv'
      BY <2>2 DEF vars, IInv, KeysInv
    <3>4. MembersKnown'
      BY <2>2 DEF vars, IInv, MembersKnown
    <3>5. QED
      BY <3>1, <3>2, <3>3, <3>4 DEF IInv
  <2>3. QED
    BY <2>1, <2>2 DEF Next
<1>3. QED
  BY <1>1, <1>2, PTL DEF Spec

\* Every variable of the database keeps its type: the maps of the class, the
\* two mutexes and the locals of the operations.
THEOREM TypeCorrect == Spec => []TypeOK
<1>1. IInv => TypeOK
  BY DEF IInv
<1>2. QED
  BY <1>1, Invariance, PTL

\* groups_ never names a user that users_ does not have, however many threads
\* use the database and whatever they ask of it.
THEOREM ReferentialIntegrity == Spec => []MembersKnown
<1>1. IInv => MembersKnown
  BY DEF IInv
<1>2. QED
  BY <1>1, Invariance, PTL

\* get_keys_of_group never returns an empty KeyArray, so generate_envelope
\* never answers "empty envelope".
THEOREM NoEmptyEnvelope == Spec => []EnvelopeNeverEmpty
<1>1. IInv => EnvelopeNeverEmpty
  <2>1. SUFFICES ASSUME KeysInv, NEW t \in Threads, pc[t] = "keys", todo[t] = {}
        PROVE  ka[t] # {}
    BY DEF IInv, EnvelopeNeverEmpty
  <2>2. PICK u : u \in groups_[call[t].gname] \ todo[t]
    BY <2>1 DEF KeysInv
  <2>3. ka[t] = {users_[v] : v \in groups_[call[t].gname] \ todo[t]}
    BY <2>1 DEF KeysInv
  <2>4. QED
    BY <2>2, <2>3
<1>2. QED
  BY <1>1, Invariance, PTL

\* When every thread inside an operation of the database waits for a mutex, a
\* deleting operation and a group operation wait for each other: the order in
\* which delete_user and delete_all_data lock is the only source of deadlock.
THEOREM OnlyLockInversionHalts == Spec => []HaltsOnlyOnLockInversion
<1>1. ASSUME IInv, NEW b \in Threads, pc[b] # "idle",
             \A t \in Threads : pc[t] # "idle" => WaitsForGroups(t) \/ WaitsForUsers(t)
      PROVE  \E d \in Threads, o \in Threads :
                 /\ pc[d] # "idle" /\ pc[o] # "idle"
                 /\ umutex_ = d /\ WaitsForGroups(d) /\ call[d].op \in DeleteOps
                 /\ gmutex_ = o /\ WaitsForUsers(o) /\ call[o].op \in GroupOps
  <2>1. ASSUME gmutex_ \in Threads
        PROVE  umutex_ \in Threads /\ WaitsForUsers(gmutex_) /\ call[gmutex_].op \in GroupOps
    BY <1>1, <2>1 DEF IInv, TypeOK, LockInv, CallInv, WaitsForGroups, WaitsForUsers, GroupOps
  <2>2. ASSUME umutex_ \in Threads
        PROVE  gmutex_ \in Threads /\ WaitsForGroups(umutex_) /\ call[umutex_].op \in DeleteOps
    BY <1>1, <2>2 DEF IInv, TypeOK, LockInv, CallInv, WaitsForGroups, WaitsForUsers
  <2>3. gmutex_ \in Threads \/ umutex_ \in Threads
    BY <1>1 DEF IInv, TypeOK, WaitsForGroups, WaitsForUsers
  <2>4. gmutex_ \in Threads /\ umutex_ \in Threads
    BY <2>1, <2>2, <2>3
  <2>5. pc[umutex_] # "idle" /\ pc[gmutex_] # "idle"
    BY <1>1, <2>4 DEF IInv, LockInv
  <2>6. QED
    BY <2>1, <2>2, <2>4, <2>5
<1>2. IInv => HaltsOnlyOnLockInversion
  BY <1>1 DEF HaltsOnlyOnLockInversion
<1>3. QED
  BY <1>2, Invariance, PTL

\* No step gives a registered user another key.
THEOREM StableKeys == Spec => KeyIsStable
<1>1. IInv /\ [Next]_vars =>
         [\A u \in DOMAIN users_ \cap DOMAIN users_' : users_'[u] = users_[u]]_vars
  <2>1. ASSUME IInv, NEW t \in Threads, Call(t) \/ Step(t)
        PROVE  \A u \in DOMAIN users_ \cap DOMAIN users_' : users_'[u] = users_[u]
    BY <2>1, StepEffect DEF IInv, Untouched, GroupWritten, UserCreated, Deleted, GroupRead
  <2>2. QED
    BY <2>1 DEF Next
<1>2. QED
  BY <1>1, Invariance, PTL DEF Spec, KeyIsStable

\* Whoever joins a group was named by the operation that holds gmutex_.
LEMMA MemberAdded ==
    ASSUME IInv, NEW t \in Threads, Call(t) \/ Step(t),
           NEW g \in DOMAIN groups_', NEW u \in groups_'[g] \ Members(g)
    PROVE  /\ gmutex_ = t /\ call[t].gname = g /\ call[t].uid = u
           /\ call[t].op \in {"create_group", "add_user_to_group"}
<1>1. CASE groups_' = groups_
  BY <1>1 DEF Members
<1>2. CASE AddUserToGroup(t) \/ CreateGroup(t)
  <2>1. /\ groups_' = Put(groups_, call[t].gname, Members(call[t].gname) \cup {call[t].uid})
        /\ pc[t] = "update" /\ call[t].op \in {"create_group", "add_user_to_group"}
    BY <1>2 DEF AddUserToGroup, CreateGroup, At
  <2>2. gmutex_ = t
    BY <2>1 DEF IInv, LockInv
  <2>3. g = call[t].gname
    BY <2>1 DEF Put, Members
  <2>4. groups_'[g] = Members(g) \cup {call[t].uid}
    BY <2>1, <2>3 DEF Put
  <2>5. QED
    BY <2>1, <2>2, <2>3, <2>4
<1>3. CASE RemoveUserFromGroup(t) \/ ReadMember(t)
  <2>1. PICK m : groups_' = Put(groups_, call[t].gname, m) /\ m \subseteq Members(call[t].gname)
    BY <1>3 DEF RemoveUserFromGroup, ReadMember
  <2>2. groups_'[g] \subseteq Members(g)
    BY <2>1 DEF Put, Members
  <2>3. QED
    BY <2>2
<1>4. CASE DeleteUser(t)
  <2>1. DOMAIN groups_' = DOMAIN groups_ /\ groups_'[g] = groups_[g] \ {call[t].uid}
    BY <1>4, EraseFacts DEF DeleteUser, IInv, TypeOK
  <2>2. QED
    BY <2>1 DEF Members
<1>5. CASE DeleteAllData(t)
  BY <1>5, EmptyFacts DEF DeleteAllData
<1>6. QED
  BY <1>1, <1>2, <1>3, <1>4, <1>5 DEF Step, Call, LockGroups, CheckUser, LockForKeys, CopyKey,
     ReturnKeys, LockUsers, LockGroupsToo, FindGroup, CreateUser, Throw

\* The read that takes no lock adds nobody to a group, whatever it races with.
THEOREM OnlyWritersAdd == Spec => ReadsAddNobody
<1> DEFINE Added ==
       \A g \in DOMAIN groups_' :
          LET before == IF g \in DOMAIN groups_ THEN groups_[g] ELSE {} IN
          \A u \in groups_'[g] \ before :
              \E t \in Threads :
                  /\ gmutex_ = t /\ call[t].gname = g /\ call[t].uid = u
                  /\ call[t].op \in {"create_group", "add_user_to_group"}
<1>1. IInv /\ [Next]_vars => [Added]_vars
  <2>1. ASSUME IInv, NEW t \in Threads, Call(t) \/ Step(t)
        PROVE  Added
    BY <2>1, MemberAdded DEF Members
  <2>2. QED
    BY <2>1 DEF Next
<1>2. QED
  BY <1>1, Invariance, PTL DEF Spec, ReadsAddNobody

-----------------------------------------------------------------------------
\* With ReaderAlone, no other thread is inside is_user_part_of_group.
LEMMA NoOtherReader ==
    ASSUME ReaderAlone, TypeOK, CallInv,
           NEW s \in Threads, NEW t \in Threads, s # t
    PROVE  pc[t] \notin {"find", "member"}
BY RequestsAssumption DEF ReaderAlone, TypeOK, CallInv

\* So it races with nobody.
LEMMA NoRace ==
    ASSUME ReaderAlone, TypeOK, CallInv, NEW t \in Threads, pc[t] \in {"find", "member"}
    PROVE  ~Racing(t)
BY NoOtherReader DEF Racing

\* Where a thread comes from when it relies on the group it has looked up.
LEMMA FoundArrivals ==
    ASSUME TypeOK, NEW t \in Threads, Call(t) \/ Step(t)
    PROVE  /\ pc'[t] = "ucheck" => LockGroups(t)
           /\ pc'[t] = "update" => CheckUser(t)
           /\ pc'[t] = "member" => FindGroup(t)
           /\ pc'[t] \in {"ucheck", "update", "member"} =>
                 UNCHANGED <<users_, groups_>> /\ call'[t] = call[t]
BY DEF TypeOK, PCs, Entry, Step, Call, LockGroups, CheckUser, AddUserToGroup, CreateGroup,
       RemoveUserFromGroup, LockForKeys, CopyKey, ReturnKeys, CreateUser, LockUsers,
       LockGroupsToo, DeleteUser, DeleteAllData, FindGroup, ReadMember, Throw, Finish, Goto

\* With ReaderAlone, a group that was looked up is neither created nor deleted
\* before the operation that looked it up ends.
LEMMA FoundStep ==
    ASSUME ReaderAlone, IInv, FoundInv, NEW t \in Threads, Call(t) \/ Step(t)
    PROVE  FoundInv'
<1>1. SUFFICES ASSUME NEW s \in Threads
      PROVE  /\ pc'[s] \in {"ucheck", "update"} =>
                  (call'[s].gname \in DOMAIN groups_') = (call'[s].op # "create_group")
             /\ pc'[s] = "member" => call'[s].gname \in DOMAIN groups_'
  BY DEF FoundInv
<1>2. CASE s = t
  <2>1. CASE LockGroups(t)
    <3>1. pc'[t] \in {"idle", "ucheck"}
      BY <2>1 DEF LockGroups, Throw, Finish, Goto, IInv, TypeOK
    <3>2. CASE pc'[t] = "ucheck"
      <4>1. (call[t].gname \in DOMAIN groups_) # (call[t].op = "create_group")
        BY <2>1, <3>2 DEF LockGroups, Throw, Finish, IInv, TypeOK
      <4>2. UNCHANGED groups_ /\ call'[t] = call[t]
        BY <3>2, FoundArrivals DEF IInv
      <4>3. (call[t].gname \in DOMAIN groups_) = (call[t].op # "create_group")
        BY <4>1
      <4>4. (call'[t].gname \in DOMAIN groups_') = (call'[t].op # "create_group")
        BY <4>2, <4>3
      <4>5. QED
        BY <4>4, <3>2, <1>2
    <3>3. QED
      BY <3>1, <3>2, <1>2
  <2>2. CASE CheckUser(t)
    BY <2>2, <1>2, FoundArrivals DEF CheckUser, Throw, Finish, Goto, IInv, TypeOK, FoundInv
  <2>3. CASE FindGroup(t)
    <3>1. ~Racing(t)
      BY <2>3, NoRace DEF FindGroup, IInv
    <3>2. QED
      BY <3>1, <2>3, <1>2, FoundArrivals DEF FindGroup, Throw, Finish, Goto, IInv, TypeOK
  <2>4. QED
    BY <2>1, <2>2, <2>3, <1>2, FoundArrivals DEF IInv
<1>3. CASE s # t
  <2>1. pc'[s] = pc[s] /\ call'[s] = call[s]
    BY <1>3, OtherThreads DEF IInv
  <2>2. pc[s] # "member" /\ pc[t] # "member"
    BY <1>3, NoOtherReader DEF IInv
  <2>3. CASE pc[s] \in {"ucheck", "update"}
    <3>1. ~GroupWritten(t) /\ ~Deleted(t) /\ ~GroupRead(t)
      BY <2>2, <2>3, <1>3 DEF GroupWritten, Deleted, GroupRead, IInv, LockInv
    <3>2. UNCHANGED groups_
      BY <3>1, StepEffect DEF IInv, Untouched, UserCreated
    <3>3. QED
      BY <3>2, <2>1, <2>2, <2>3 DEF FoundInv
  <2>4. QED
    BY <2>1, <2>2, <2>3
<1>4. QED
  BY <1>2, <1>3

\* With ReaderAlone, every step is a step of Database or leaves it alone.
LEMMA Simulation ==
    ASSUME ReaderAlone, IInv, FoundInv, NEW t \in Threads, Call(t) \/ Step(t)
    PROVE  D!Next \/ UNCHANGED D!dbvars
<1> USE DEF IInv
<1>1. CASE Call(t)
  <2>1. D!Call(t)
    BY <1>1 DEF Call, CallInv, D!Call
  <2>2. QED
    BY <2>1 DEF D!Next, D!Operation
<1>2. CASE LockUsers(t) \/ LockGroupsToo(t) \/ CopyKey(t)
  BY <1>2 DEF LockUsers, LockGroupsToo, CopyKey, Goto, D!dbvars
<1>3. CASE LockGroups(t)
  <2>1. CASE UNCHANGED D!dbvars
    BY <2>1
  <2>2. CASE Throw(t) /\ (call[t].gname \in DOMAIN groups_) = (call[t].op = "create_group")
    <3>1. call[t] # NoCall /\ call[t].op \in {"create_group", "add_user_to_group", "remove_user_from_group"}
      BY <1>3 DEF LockGroups, At, CallInv, GroupOps
    <3>2. D!Refuse(t)
      BY <2>2 DEF Throw, Finish, Answer, D!Refuse, D!Finish, D!Answer
    <3>3. D!CreateGroup(t) \/ D!AddUserToGroup(t) \/ D!RemoveUserFromGroup(t)
      BY <2>2, <3>1, <3>2 DEF D!CreateGroup, D!AddUserToGroup, D!RemoveUserFromGroup, D!Executes
    <3>4. QED
      BY <3>3 DEF D!Next, D!Operation
  <2>3. QED
    BY <1>3, <2>1, <2>2 DEF LockGroups, Goto, D!dbvars
<1>4. CASE CheckUser(t)
  <2>1. CASE UNCHANGED D!dbvars
    BY <2>1
  <2>2. CASE Throw(t) /\ call[t].uid \notin DOMAIN users_
    <3>1. call[t] # NoCall /\ call[t].op \in {"create_group", "add_user_to_group", "remove_user_from_group"}
      BY <1>4 DEF CheckUser, CallInv, GroupOps
    <3>2. D!Refuse(t)
      BY <2>2 DEF Throw, Finish, Answer, D!Refuse, D!Finish, D!Answer
    <3>3. D!CreateGroup(t) \/ D!AddUserToGroup(t) \/ D!RemoveUserFromGroup(t)
      BY <2>2, <3>1, <3>2 DEF D!CreateGroup, D!AddUserToGroup, D!RemoveUserFromGroup, D!Executes
    <3>4. QED
      BY <3>3 DEF D!Next, D!Operation
  <2>3. QED
    BY <1>4, <2>1, <2>2 DEF CheckUser, Goto, D!dbvars
<1>5. CASE AddUserToGroup(t)
  <2>1. /\ call[t] # NoCall /\ call[t].op = "add_user_to_group"
        /\ call[t].gname \in DOMAIN groups_ /\ call[t].uid \in DOMAIN users_
    BY <1>5 DEF AddUserToGroup, At, CallInv, CheckedInv, FoundInv
  <2>2. D!AddUserToGroup(t)
    BY <1>5, <2>1 DEF AddUserToGroup, Members, Finish, Answer, Put,
                      D!AddUserToGroup, D!Executes, D!Finish, D!Answer, D!Put
  <2>3. QED
    BY <2>2 DEF D!Next, D!Operation
<1>6. CASE CreateGroup(t)
  <2>1. /\ call[t] # NoCall /\ call[t].op = "create_group"
        /\ call[t].gname \notin DOMAIN groups_ /\ call[t].uid \in DOMAIN users_
    BY <1>6 DEF CreateGroup, At, CallInv, CheckedInv, FoundInv
  <2>2. Members(call[t].gname) \cup {call[t].uid} = {call[t].uid}
    BY <2>1 DEF Members
  <2>3. D!CreateGroup(t)
    BY <1>6, <2>1, <2>2 DEF CreateGroup, Finish, Answer, Put,
                            D!CreateGroup, D!Executes, D!Finish, D!Answer, D!Put
  <2>4. QED
    BY <2>3 DEF D!Next, D!Operation
<1>7. CASE RemoveUserFromGroup(t)
  <2>1. /\ call[t] # NoCall /\ call[t].op = "remove_user_from_group"
        /\ call[t].gname \in DOMAIN groups_ /\ call[t].uid \in DOMAIN users_
    BY <1>7 DEF RemoveUserFromGroup, At, CallInv, CheckedInv, FoundInv
  <2>2. groups_ = [g \in DOMAIN groups_ |-> groups_[g]]
    BY MapFacts DEF TypeOK, GroupMap
  <2>3. CASE call[t].uid \in groups_[call[t].gname]
    BY <1>7, <2>1, <2>3 DEF RemoveUserFromGroup, Members, Finish, Answer, Put,
             D!Next, D!Operation, D!RemoveUserFromGroup, D!Executes, D!Finish, D!Answer, D!Put
  <2>4. CASE call[t].uid \notin groups_[call[t].gname]
    <3>1. UNCHANGED <<users_, groups_>>
      BY <1>7, <2>1, <2>2, <2>4 DEF RemoveUserFromGroup, Members, Put
    <3>2. D!Refuse(t)
      BY <1>7, <2>1, <2>4, <3>1 DEF RemoveUserFromGroup, Members, Finish, Answer,
                                    D!Refuse, D!Finish, D!Answer
    <3>3. D!RemoveUserFromGroup(t)
      BY <2>1, <2>4, <3>2 DEF D!RemoveUserFromGroup, D!Executes
    <3>4. QED
      BY <3>3 DEF D!Next, D!Operation
  <2>5. QED
    BY <2>3, <2>4
<1>8. CASE LockForKeys(t)
  <2>1. CASE UNCHANGED D!dbvars
    BY <2>1
  <2>2. CASE Throw(t) /\ Members(call[t].gname) = {}
    <3>1. call[t] # NoCall /\ call[t].op = "get_keys_of_group"
      BY <1>8 DEF LockForKeys, At, CallInv
    <3>2. D!Refuse(t)
      BY <2>2 DEF Throw, Finish, Answer, D!Refuse, D!Finish, D!Answer
    <3>3. D!GetKeysOfGroup(t)
      BY <2>2, <3>1, <3>2 DEF Members, D!GetKeysOfGroup, D!Executes
    <3>4. QED
      BY <3>3 DEF D!Next, D!Operation
  <2>3. QED
    BY <1>8, <2>1, <2>2 DEF LockForKeys, Goto, D!dbvars
<1>9. CASE ReturnKeys(t)
  <2>1. /\ call[t] # NoCall /\ call[t].op = "get_keys_of_group"
        /\ call[t].gname \in DOMAIN groups_ /\ groups_[call[t].gname] # {}
        /\ ka[t] = {users_[u] : u \in groups_[call[t].gname]}
    <3>1. pc[t] = "keys" /\ todo[t] = {}
      BY <1>9 DEF ReturnKeys
    <3>2. call[t] # NoCall /\ call[t].op = "get_keys_of_group"
      BY <3>1 DEF CallInv
    <3>3. /\ call[t].gname \in DOMAIN groups_ /\ groups_[call[t].gname] # {}
          /\ ka[t] = {users_[u] : u \in groups_[call[t].gname] \ todo[t]}
      BY <3>1 DEF KeysInv
    <3>4. groups_[call[t].gname] \ todo[t] = groups_[call[t].gname]
      BY <3>1
    <3>5. QED
      BY <3>2, <3>3, <3>4
  <2>2. D!GetKeysOfGroup(t)
    BY <1>9, <2>1 DEF ReturnKeys, Finish, KeyArray,
                      D!GetKeysOfGroup, D!Executes, D!Finish, D!KeyArray
  <2>3. QED
    BY <2>2 DEF D!Next, D!Operation
<1>10. CASE CreateUser(t)
  <2>1. call[t] # NoCall /\ call[t].op = "create_user"
    BY <1>10 DEF CreateUser, At, CallInv
  <2>2. D!CreateUser(t)
    BY <1>10, <2>1 DEF CreateUser, Throw, Finish, Answer, Put,
                       D!CreateUser, D!Executes, D!Refuse, D!Finish, D!Answer, D!Put
  <2>3. QED
    BY <2>2 DEF D!Next, D!Operation
<1>11. CASE DeleteUser(t)
  <2>1. call[t] # NoCall /\ call[t].op = "delete_user"
    BY <1>11 DEF DeleteUser, At, CallInv
  <2>2. D!DeleteUser(t)
    BY <1>11, <2>1 DEF DeleteUser, Finish, Answer, Drop, EraseMember,
                       D!DeleteUser, D!Executes, D!Finish, D!Answer, D!Drop, D!EraseMember
  <2>3. QED
    BY <2>2 DEF D!Next, D!Operation
<1>12. CASE DeleteAllData(t)
  <2>1. call[t] # NoCall /\ call[t].op = "delete_all_data"
    BY <1>12 DEF DeleteAllData, At, CallInv
  <2>2. D!DeleteAllData(t)
    BY <1>12, <2>1 DEF DeleteAllData, Finish, Answer, EmptyMap,
                       D!DeleteAllData, D!Executes, D!Finish, D!Answer, D!EmptyMap
  <2>3. QED
    BY <2>2 DEF D!Next, D!Operation
<1>13. CASE FindGroup(t)
  <2>1. CASE UNCHANGED D!dbvars
    BY <2>1
  <2>2. CASE Throw(t) /\ call[t].gname \notin DOMAIN groups_
    <3>1. call[t] # NoCall /\ call[t].op = "is_user_part_of_group"
      BY <1>13 DEF FindGroup, CallInv
    <3>2. D!Refuse(t)
      BY <2>2 DEF Throw, Finish, Answer, D!Refuse, D!Finish, D!Answer
    <3>3. D!IsUserPartOfGroup(t)
      BY <2>2, <3>1, <3>2 DEF D!IsUserPartOfGroup, D!Executes
    <3>4. QED
      BY <3>3 DEF D!Next, D!Operation
  <2>3. ~Racing(t)
    BY <1>13, NoRace DEF FindGroup
  <2>4. QED
    BY <1>13, <2>1, <2>2, <2>3 DEF FindGroup, Goto, D!dbvars
<1>14. CASE ReadMember(t)
  <2>1. /\ call[t] # NoCall /\ call[t].op = "is_user_part_of_group"
        /\ call[t].gname \in DOMAIN groups_
    BY <1>14 DEF ReadMember, CallInv, FoundInv
  <2>2. groups_ = [g \in DOMAIN groups_ |-> groups_[g]]
    BY MapFacts DEF TypeOK, GroupMap
  <2>3. UNCHANGED <<users_, groups_>>
    BY <1>14, <2>1, <2>2 DEF ReadMember, Members, Put
  <2>4. ~Racing(t)
    BY <1>14, NoRace DEF ReadMember
  <2>5. Finish(t, Belongs(call[t].uid \in groups_[call[t].gname]))
    BY <1>14, <2>1, <2>4 DEF ReadMember, Members
  <2>6. D!IsUserPartOfGroup(t)
    BY <2>1, <2>3, <2>5 DEF Finish, Belongs, D!IsUserPartOfGroup, D!Executes, D!Finish, D!Belongs
  <2>7. QED
    BY <2>6 DEF D!Next, D!Operation
<1>15. QED
  BY <1>1, <1>2, <1>3, <1>4, <1>5, <1>6, <1>7, <1>8, <1>9, <1>10, <1>11, <1>12, <1>13, <1>14
     DEF Step

\* The operations of MemDatabase are atomic: when one thread uses it, as in the
\* server that is built, or when no thread calls the unlocked reader, it
\* implements Database.
THEOREM Refinement == ReaderAlone => (Spec => ImplementsDatabase)
<1> SUFFICES ASSUME ReaderAlone
             PROVE  Spec => ImplementsDatabase
  OBVIOUS
<1>1. Init => D!Init
  BY DEF Init, EmptyMap, Answer, D!Init, D!EmptyMap, D!Answer
<1>2. Init => FoundInv
  BY DEF Init, FoundInv
<1>3. IInv /\ FoundInv /\ [Next]_vars => FoundInv' /\ [D!Next]_(D!dbvars)
  <2>1. IInv /\ FoundInv /\ Next => FoundInv' /\ [D!Next]_(D!dbvars)
    BY FoundStep, Simulation DEF Next
  <2>2. FoundInv /\ UNCHANGED vars => FoundInv' /\ [D!Next]_(D!dbvars)
    BY DEF vars, FoundInv, D!dbvars
  <2>3. QED
    BY <2>1, <2>2
<1>4. QED
  BY <1>1, <1>2, <1>3, Invariance, PTL DEF Spec, ImplementsDatabase, D!Spec
=============================================================================
