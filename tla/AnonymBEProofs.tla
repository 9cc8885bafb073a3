---------------------------- MODULE AnonymBEProofs ----------------------------
(***************************************************************************)
(* For any number of clients, service threads, users, groups and faults:   *)
(* clients are told registered keys only, the key of a deleted user is in  *)
(* no envelope made later, and the database is used as Database allows.    *)
(***************************************************************************)
EXTENDS AnonymBE, TLAPS

-----------------------------------------------------------------------------
\* The std::map operations of DbTypes.

\* What it means to be a std::map from S to T.
LEMMA MapFacts ==
    ASSUME NEW S, NEW T, NEW f \in MapOf(S, T)
    PROVE  /\ DOMAIN f \subseteq S
           /\ \A x \in DOMAIN f : f[x] \in T
           /\ f = [x \in DOMAIN f |-> f[x]]
BY DEF MapOf

\* Put, as insert or operator[] followed by an assignment, yields a map.
LEMMA PutIsMap ==
    ASSUME NEW S, NEW T, NEW f \in MapOf(S, T), NEW x \in S, NEW y \in T
    PROVE  Put(f, x, y) \in MapOf(S, T)
<1>1. Put(f, x, y) \in [DOMAIN f \cup {x} -> T]
  BY MapFacts DEF Put
<1>2. DOMAIN f \cup {x} \in SUBSET S
  BY MapFacts
<1>3. QED
  BY <1>1, <1>2 DEF MapOf

\* Drop, as erase, yields a map.
LEMMA DropIsMap ==
    ASSUME NEW S, NEW T, NEW f \in MapOf(S, T), NEW x
    PROVE  Drop(f, x) \in MapOf(S, T)
<1>1. Drop(f, x) \in [DOMAIN f \ {x} -> T]
  BY MapFacts DEF Drop
<1>2. DOMAIN f \ {x} \in SUBSET S
  BY MapFacts
<1>3. QED
  BY <1>1, <1>2 DEF MapOf

\* The cleared map.
LEMMA EmptyFacts ==
    ASSUME NEW S, NEW T
    PROVE  EmptyMap \in MapOf(S, T) /\ DOMAIN EmptyMap = {}
<1>1. EmptyMap \in [{} -> T]
  BY DEF EmptyMap
<1>2. {} \in SUBSET S
  OBVIOUS
<1>3. QED
  BY <1>1, <1>2 DEF MapOf, EmptyMap

\* The loop of delete_user keeps the groups and takes the user out of each.
LEMMA EraseFacts ==
    ASSUME NEW f \in GroupMap, NEW u
    PROVE  /\ EraseMember(f, u) \in GroupMap
           /\ DOMAIN EraseMember(f, u) = DOMAIN f
           /\ \A g \in DOMAIN f : EraseMember(f, u)[g] = f[g] \ {u}
<1>1. EraseMember(f, u) \in [DOMAIN f -> SUBSET Users]
  <2>1. \A g \in DOMAIN f : f[g] \in SUBSET Users
    BY MapFacts DEF GroupMap
  <2>2. QED
    BY <2>1 DEF EraseMember
<1>2. DOMAIN f \in SUBSET Groups
  BY MapFacts DEF GroupMap
<1>3. QED
  BY <1>1, <1>2 DEF GroupMap, MapOf, EraseMember

\* The answers the operations give are answers.
LEMMA AnswerFacts ==
    /\ \A s \in Statuses : Answer(s) \in Answers
    /\ \A b \in BOOLEAN : Belongs(b) \in Answers
    /\ \A ks \in SUBSET Keys : KeyArray(ks) \in Answers
BY DEF Answer, Belongs, KeyArray, Answers, Statuses

-----------------------------------------------------------------------------
\* The keys that a map holds.
Values(map) == {map[u] : u \in DOMAIN map}

\* A request of a client is one that the database understands.
LEMMA CallIsRequest ==
    ASSUME NEW q \in SomeRequest, Route(q) = "call", NEW k \in Keys
    PROVE  /\ [op |-> q.path, gname |-> q.gname, uid |-> q.uid, key |-> k] \in Requests
           /\ [op |-> q.path, gname |-> q.gname, uid |-> q.uid, key |-> k] # NoCall
<1>1. PICK c \in Clients : q \in HttpRequests[c]
      BY DEF SomeRequest
<1>2. q.path \in Ops
      BY DEF Route, ProcessGet, ProcessPut, ProcessPost, ProcessDelete, ReadBody, Ops
<1> QED BY <1>1, <1>2, HttpAssumption, RequestsAssumption

\* What an operation of the database does: its thread gets an answer; users_ loses
\* users or gains the one that was asked for; members stay users; and the keys in
\* the answer are keys of users.
Effect(t) ==
    /\ users_' \in UserMap /\ groups_' \in GroupMap
    /\ \A g \in DOMAIN groups_' : groups_'[g] \subseteq DOMAIN users_'
    /\ call' = [call EXCEPT ![t] = NoCall]
    /\ \E a \in Answers : ret' = [ret EXCEPT ![t] = a] /\ a.keys \subseteq Values(users_)
    /\ \A u \in DOMAIN users_' :
          \/ u \in DOMAIN users_ /\ users_'[u] = users_[u]
          \/ Creating(t) /\ u = call[t].uid /\ users_'[u] = call[t].key
    /\ Creating(t) /\ ret'[t].status # "invalid_argument" =>
          call[t].uid \in DOMAIN users_' /\ users_'[call[t].uid] = call[t].key

\* Every operation of the database has that effect.
LEMMA OperationEffect ==
    ASSUME TypeOK, KeyInv, NEW t \in Threads, Db!Operation(t)
    PROVE  Effect(t) /\ call[t] # NoCall
<1> DEFINE r == call[t]
<1>1. /\ call[t] # NoCall /\ r.op \in Ops /\ r.gname \in Groups
      /\ r.uid \in Users /\ r.key \in Keys
   <2>1. call[t] # NoCall
         BY DEF Db!Operation, Db!CreateUser, Db!CreateGroup, Db!AddUserToGroup,
                Db!RemoveUserFromGroup, Db!DeleteUser, Db!DeleteAllData, Db!IsUserPartOfGroup,
                Db!GetKeysOfGroup, Db!Executes
   <2> QED BY <2>1, RequestsAssumption DEF TypeOK
<1> SUFFICES Effect(t)  BY <1>1
<1>2. /\ DOMAIN users_ \subseteq Users /\ \A u \in DOMAIN users_ : users_[u] \in Keys
      /\ DOMAIN groups_ \subseteq Groups /\ \A g \in DOMAIN groups_ : groups_[g] \subseteq Users
      BY MapFacts DEF TypeOK, UserMap, GroupMap
<1>3. ASSUME NEW a, Db!Finish(t, a)
      PROVE  /\ call' = [call EXCEPT ![t] = NoCall] /\ ret' = [ret EXCEPT ![t] = a]
             /\ ret'[t] = a
      BY <1>3 DEF Db!Finish, TypeOK
<1>4. \A s \in Statuses : Db!Answer(s) = Answer(s) /\ Answer(s) \in Answers
                          /\ Answer(s).keys = {} /\ Answer(s).status = s
      BY AnswerFacts DEF Db!Answer, Answer
<1>5. ASSUME Db!Refuse(t)  PROVE Effect(t)
   <2>1. UNCHANGED <<users_, groups_>> /\ Db!Finish(t, Answer("invalid_argument"))
         BY <1>4, <1>5 DEF Db!Refuse, Statuses
   <2>2. /\ call' = [call EXCEPT ![t] = NoCall]
         /\ ret' = [ret EXCEPT ![t] = Answer("invalid_argument")]
         /\ ret'[t] = Answer("invalid_argument")
         BY <1>3, <2>1
   <2> QED BY <1>4, <2>1, <2>2 DEF Effect, TypeOK, KeyInv, Statuses
<1>6. CASE Db!CreateUser(t) /\ ~Db!Refuse(t)
   <2>1. /\ r.op = "create_user" /\ users_' = Put(users_, r.uid, r.key) /\ groups_' = groups_
         /\ Db!Finish(t, Answer("ok"))
         BY <1>4, <1>6 DEF Db!CreateUser, Db!Executes, Db!Put, Put, Statuses
   <2>2. users_' \in UserMap
         BY <1>1, <2>1, PutIsMap DEF TypeOK, UserMap
   <2>3. /\ DOMAIN users_' = DOMAIN users_ \cup {r.uid} /\ users_'[r.uid] = r.key
         /\ \A u \in DOMAIN users_' \ {r.uid} : users_'[u] = users_[u]
         BY <2>1 DEF Put
   <2>4. /\ call' = [call EXCEPT ![t] = NoCall] /\ ret' = [ret EXCEPT ![t] = Answer("ok")]
         BY <1>3, <2>1
   <2>5. \E a \in Answers : ret' = [ret EXCEPT ![t] = a] /\ a.keys \subseteq Values(users_)
         BY <1>4, <2>4 DEF Statuses
   <2>6. groups_' \in GroupMap /\ \A g \in DOMAIN groups_' : groups_'[g] \subseteq DOMAIN users_'
         BY <2>1, <2>3 DEF TypeOK, KeyInv
   <2> QED BY <1>1, <2>1, <2>2, <2>3, <2>4, <2>5, <2>6 DEF Effect, Creating
<1>7. ASSUME NEW g \in Groups, NEW m \in SUBSET DOMAIN users_, NEW s \in Statuses,
             ~Creating(t), users_' = users_, groups_' = Put(groups_, g, m),
             Db!Finish(t, Answer(s))
      PROVE  Effect(t)
   <2>1. groups_' \in GroupMap
         BY <1>2, <1>7, PutIsMap DEF TypeOK, GroupMap
   <2>2. \A h \in DOMAIN groups_' : groups_'[h] \subseteq DOMAIN users_'
         BY <1>7 DEF Put, KeyInv
   <2>3. /\ call' = [call EXCEPT ![t] = NoCall] /\ ret' = [ret EXCEPT ![t] = Answer(s)]
         BY <1>3, <1>7
   <2> QED BY <1>4, <1>7, <2>1, <2>2, <2>3 DEF Effect, TypeOK
<1>8. CASE Db!CreateGroup(t) /\ ~Db!Refuse(t)
   <2>1. /\ r.op = "create_group" /\ r.uid \in DOMAIN users_
         /\ users_' = users_ /\ groups_' = Put(groups_, r.gname, {r.uid})
         /\ Db!Finish(t, Answer("ok"))
         BY <1>4, <1>8 DEF Db!CreateGroup, Db!Executes, Db!Put, Put, Statuses
   <2>2. ~Creating(t) /\ {r.uid} \in SUBSET DOMAIN users_ /\ "ok" \in Statuses
         BY <2>1 DEF Creating, Statuses
   <2> QED BY <1>1, <1>7, <2>1, <2>2
<1>9. CASE Db!AddUserToGroup(t) /\ ~Db!Refuse(t)
   <2>1. /\ r.op = "add_user_to_group" /\ r.uid \in DOMAIN users_ /\ r.gname \in DOMAIN groups_
         /\ users_' = users_ /\ groups_' = Put(groups_, r.gname, groups_[r.gname] \cup {r.uid})
         /\ \E s \in Statuses : Db!Finish(t, Answer(s))
         BY <1>4, <1>9 DEF Db!AddUserToGroup, Db!Executes, Db!Put, Put, Statuses
   <2>2. ~Creating(t) /\ groups_[r.gname] \cup {r.uid} \in SUBSET DOMAIN users_
         BY <2>1 DEF Creating, KeyInv
   <2> QED BY <1>1, <1>7, <2>1, <2>2
<1>10. CASE Db!RemoveUserFromGroup(t) /\ ~Db!Refuse(t)
   <2>1. /\ r.op = "remove_user_from_group" /\ r.gname \in DOMAIN groups_
         /\ users_' = users_ /\ groups_' = Put(groups_, r.gname, groups_[r.gname] \ {r.uid})
         /\ Db!Finish(t, Answer("ok"))
         BY <1>4, <1>10 DEF Db!RemoveUserFromGroup, Db!Executes, Db!Put, Put, Statuses
   <2>2. ~Creating(t) /\ groups_[r.gname] \ {r.uid} \in SUBSET DOMAIN users_ /\ "ok" \in Statuses
         BY <2>1 DEF Creating, KeyInv, Statuses
   <2> QED BY <1>1, <1>7, <2>1, <2>2
<1>11. CASE Db!DeleteUser(t)
   <2>1. /\ r.op = "delete_user" /\ users_' = Drop(users_, r.uid)
         /\ groups_' = EraseMember(groups_, r.uid) /\ Db!Finish(t, Answer("ok"))
         BY <1>4, <1>11 DEF Db!DeleteUser, Db!Executes, Db!Drop, Drop, Db!EraseMember,
            EraseMember, Statuses
   <2>2. users_' \in UserMap /\ groups_' \in GroupMap
         BY <2>1, DropIsMap, EraseFacts DEF TypeOK, UserMap
   <2>3. \A u \in DOMAIN users_' : u \in DOMAIN users_ /\ users_'[u] = users_[u]
         BY <2>1 DEF Drop
   <2>4. \A g \in DOMAIN groups_' : groups_'[g] \subseteq DOMAIN users_'
         BY <2>1, EraseFacts DEF TypeOK, KeyInv, Drop
   <2>5. /\ call' = [call EXCEPT ![t] = NoCall] /\ ret' = [ret EXCEPT ![t] = Answer("ok")]
         BY <1>3, <2>1
   <2>6. ~Creating(t) /\ "ok" \in Statuses  BY <2>1 DEF Creating, Statuses
   <2>7. \E a \in Answers : ret' = [ret EXCEPT ![t] = a] /\ a.keys \subseteq Values(users_)
         BY <1>4, <2>5, <2>6
   <2> QED BY <2>2, <2>3, <2>4, <2>5, <2>6, <2>7 DEF Effect
<1>12. CASE Db!DeleteAllData(t)
   <2>1. /\ r.op = "delete_all_data" /\ users_' = EmptyMap /\ groups_' = EmptyMap
         /\ Db!Finish(t, Answer("ok"))
         BY <1>4, <1>12 DEF Db!DeleteAllData, Db!Executes, Db!EmptyMap, EmptyMap, Statuses
   <2>2. /\ users_' \in UserMap /\ groups_' \in GroupMap
         /\ DOMAIN users_' = {} /\ DOMAIN groups_' = {}
         BY <2>1, EmptyFacts DEF UserMap, GroupMap
   <2>3. /\ call' = [call EXCEPT ![t] = NoCall] /\ ret' = [ret EXCEPT ![t] = Answer("ok")]
         BY <1>3, <2>1
   <2>4. ~Creating(t) /\ "ok" \in Statuses  BY <2>1 DEF Creating, Statuses
   <2>5. \E a \in Answers : ret' = [ret EXCEPT ![t] = a] /\ a.keys \subseteq Values(users_)
         BY <1>4, <2>3, <2>4
   <2>6. /\ \A u \in DOMAIN users_' : u \in DOMAIN users_ /\ users_'[u] = users_[u]
         /\ \A g \in DOMAIN groups_' : groups_'[g] \subseteq DOMAIN users_'
         BY <2>2
   <2> QED BY <2>2, <2>3, <2>4, <2>5, <2>6 DEF Effect
<1>13. ASSUME ~Creating(t), users_' = users_, groups_' = groups_,
              \E a \in Answers : Db!Finish(t, a) /\ a.keys \subseteq Values(users_)
       PROVE  Effect(t)
   <2>1. PICK a \in Answers : Db!Finish(t, a) /\ a.keys \subseteq Values(users_)
         BY <1>13
   <2>2. call' = [call EXCEPT ![t] = NoCall] /\ ret' = [ret EXCEPT ![t] = a]
         BY <1>3, <2>1
   <2> QED BY <1>13, <2>1, <2>2 DEF Effect, TypeOK, KeyInv
<1>14. CASE Db!IsUserPartOfGroup(t) /\ ~Db!Refuse(t)
   <2> DEFINE a == [status |-> "ok", belongs |-> r.uid \in groups_[r.gname], keys |-> {}]
   <2>1. ~Creating(t) /\ users_' = users_ /\ groups_' = groups_ /\ Db!Finish(t, a)
         BY <1>14 DEF Db!IsUserPartOfGroup, Db!Executes, Creating, Db!Belongs
   <2>2. a \in Answers /\ a.keys = {}
         BY DEF Answers, Statuses
   <2>3. \E b \in Answers : Db!Finish(t, b) /\ b.keys \subseteq Values(users_)
      <3> HIDE DEF a
      <3> QED BY <2>1, <2>2
   <2> QED BY <1>13, <2>1, <2>3
<1>15. CASE Db!GetKeysOfGroup(t) /\ ~Db!Refuse(t)
   <2> DEFINE ks == {users_[u] : u \in groups_[r.gname]}
   <2>1. /\ ~Creating(t) /\ users_' = users_ /\ groups_' = groups_ /\ r.gname \in DOMAIN groups_
         /\ Db!Finish(t, KeyArray(ks))
         BY <1>15 DEF Db!GetKeysOfGroup, Db!Executes, Creating, Db!KeyArray, KeyArray
   <2>2. ks \subseteq Values(users_) /\ ks \subseteq Keys
         BY <1>2, <2>1 DEF KeyInv, Values
   <2>3. KeyArray(ks) \in Answers /\ KeyArray(ks).keys = ks
         BY <2>2, AnswerFacts DEF KeyArray
   <2>4. \E a \in Answers : Db!Finish(t, a) /\ a.keys \subseteq Values(users_)
      <3> HIDE DEF ks
      <3> QED BY <2>1, <2>2, <2>3
   <2> QED BY <1>13, <2>1, <2>4
<1> QED BY <1>1, <1>5, <1>6, <1>8, <1>9, <1>10, <1>11, <1>12, <1>14, <1>15 DEF Db!Operation

-----------------------------------------------------------------------------
\* The faults stay within their bound.
LEMMA FaultBounded ==
    ASSUME TypeOK, Fault
    PROVE  faults' \in 0 .. MaxFaults
<1>1. faults \in 0 .. MaxFaults /\ MaxFaults \in Nat
      BY HttpAssumption DEF TypeOK
<1> QED BY <1>1 DEF Fault

\* The clients' own steps leave the service alone, and nobody serves a client that
\* is not waiting for its response.
LEMMA ClientStep ==
    ASSUME IInv, NEW c \in Clients, Issue(c) \/ Reissue(c) \/ LoseRequest(c) \/ Receive(c)
    PROVE  IInv'
<1> USE DEF IInv
<1>1. UNCHANGED <<dbvars, serving, drawn, history>> /\ mode[c] # "served"
      BY DEF Issue, Reissue, LoseRequest, Receive
<1>2. \E m \in {"idle", "sent", "retry"}, q \in SomeRequest \cup {None} :
         /\ mode' = [mode EXCEPT ![c] = m] /\ request' = [request EXCEPT ![c] = q]
         /\ m # "idle" => q # None
   <2>1. request = [request EXCEPT ![c] = request[c]] /\ request[c] \in SomeRequest \cup {None}
         BY DEF TypeOK
   <2>2. CASE Issue(c)
      <3>1. PICK q \in HttpRequests[c] : request' = [request EXCEPT ![c] = q]
            BY <2>2 DEF Issue
      <3>2. q \in SomeRequest /\ q # None
            BY <3>1, HttpAssumption DEF SomeRequest
      <3> QED BY <2>2, <3>1, <3>2 DEF Issue
   <2>3. CASE Reissue(c)
         BY <2>1, <2>3 DEF Reissue, ServingInv
   <2>4. ASSUME GiveUp(c) \/ Return(c), mode[c] # "idle"
         PROVE  \E m \in {"idle", "sent", "retry"}, q \in SomeRequest \cup {None} :
                   /\ mode' = [mode EXCEPT ![c] = m] /\ request' = [request EXCEPT ![c] = q]
                   /\ m # "idle" => q # None
         BY <2>1, <2>4 DEF GiveUp, Return, ServingInv
   <2> QED BY <2>2, <2>3, <2>4 DEF LoseRequest, Receive
<1>3. /\ reply' \in {reply, [reply EXCEPT ![c] = None]}
      /\ orphans' \subseteq SomeRequest /\ faults' \in 0 .. MaxFaults
   <2>1. CASE LoseRequest(c)
      <3>1. request[c] \in SomeRequest
            BY <2>1 DEF LoseRequest, TypeOK, ServingInv
      <3>2. Fault /\ reply' = reply /\ orphans' \subseteq orphans \cup {request[c]}
            BY <2>1 DEF LoseRequest
      <3>3. orphans \subseteq SomeRequest
            BY DEF TypeOK
      <3> QED BY <3>1, <3>2, <3>3, FaultBounded
   <2> QED BY <2>1 DEF Issue, Reissue, Receive, TypeOK
<1>4. PICK m \in {"idle", "sent", "retry"}, q \in SomeRequest \cup {None} :
         /\ mode' = [mode EXCEPT ![c] = m] /\ request' = [request EXCEPT ![c] = q]
         /\ m # "idle" => q # None
      BY <1>2
<1>5. TypeOK'
      BY <1>1, <1>3, <1>4 DEF TypeOK, dbvars, history
<1>6. KeyInv'
      BY <1>1 DEF KeyInv, Creating, dbvars, history
<1>7. \A e \in Clients \ {c} : mode'[e] = mode[e] /\ request'[e] = request[e] /\ reply'[e] = reply[e]
      BY <1>3, <1>4 DEF TypeOK
<1>8. mode'[c] = m /\ request'[c] = q
      BY <1>4 DEF TypeOK
<1>9. ServingInv'
   <2>1. \A t \in Threads : serving[t].client \in Clients \cup {None}
         BY DEF TypeOK
   <2>2. \A t \in Threads : serving[t].client # c
      <3>1. TAKE t \in Threads
      <3>2. NotServing.client = None /\ None # c  BY HttpAssumption DEF NotServing
      <3>3. serving[t] # NotServing /\ serving[t].client # None
               => mode[serving[t].client] = "served"
            BY DEF ServingInv, Serves
      <3> QED BY <1>1, <3>2, <3>3
   <2>3. \A d \in Clients : mode'[d] # "idle" => request'[d] # None
         BY <1>4, <1>7, <1>8 DEF ServingInv
   <2>4. /\ serving' = serving /\ call' = call /\ ret' = ret /\ registered' = registered
         BY <1>1 DEF dbvars, history
   <2>5. \A t \in Threads : serving[t].client # None =>
            /\ mode'[serving[t].client] = mode[serving[t].client]
            /\ request'[serving[t].client] = request[serving[t].client]
         BY <1>7, <2>1, <2>2
   <2>6. \A t \in Threads : Serves(t) => Serves(t)'
         BY <2>4, <2>5 DEF Serves
   <2> QED BY <2>3, <2>4, <2>6 DEF ServingInv
<1>10. KeysGivenAreRegistered'
   <2>1. registered' = registered /\ mode'[c] # "answered"
         BY <1>1, <1>4, <1>8 DEF history
   <2> QED BY <1>7, <2>1 DEF KeysGivenAreRegistered
<1> QED BY <1>5, <1>6, <1>9, <1>10

\* Taking up a request: the thread was free; the request goes to the database as it
\* is, with key k, drawn for it alone if it creates a user.
Taken(t, c, q, k, v) ==
    LET r == [op |-> q.path, gname |-> q.gname, uid |-> q.uid, key |-> k] IN
    /\ serving[t] = NotServing
    /\ serving' = [serving EXCEPT ![t] = [client |-> c, q |-> q, key |-> k, verdict |-> v]]
    /\ \/ v # "call" /\ call' = call /\ drawn' = drawn
       \/ /\ v = "call" /\ r \in Requests /\ r # NoCall
          /\ call' = [call EXCEPT ![t] = r]
          /\ IF q.path = "create_user" THEN k \notin drawn /\ drawn' = drawn \cup {k}
                                       ELSE drawn' = drawn

\* Take does that, with some key and verdict.
LEMMA TakeEffect ==
    ASSUME NEW t \in Threads, NEW c \in Clients \cup {None}, NEW q \in SomeRequest,
           Take(t, c, q)
    PROVE  \E k \in Keys, v \in {"ok", "bad", "call"} : Taken(t, c, q, k, v)
<1> DEFINE creates == Route(q) = "call" /\ q.path = "create_user"
<1>1. PICK k \in (IF creates THEN Draw ELSE {CHOOSE x \in Keys : TRUE}) :
              /\ serving' = [serving EXCEPT ![t] =
                               [client |-> c, q |-> q, key |-> k, verdict |-> Route(q)]]
              /\ call' = IF Route(q) # "call" THEN call
                         ELSE [call EXCEPT ![t] = [op |-> q.path, gname |-> q.gname,
                                                   uid |-> q.uid, key |-> k]]
              /\ drawn' = IF creates THEN drawn \cup {k} ELSE drawn
      BY DEF Take
<1>2. k \in Keys /\ (creates => k \notin drawn)
   <2>1. CASE creates  BY <1>1, <2>1 DEF Draw
   <2>2. CASE ~creates
      <3>1. k = CHOOSE x \in Keys : TRUE  BY <1>1, <2>2
      <3> QED BY <2>2, <3>1, HttpAssumption
   <2> QED BY <2>1, <2>2
<1>3. Route(q) \in {"ok", "bad", "call"}
      BY DEF Route, ProcessGet, ProcessPut, ProcessPost, ProcessDelete, ReadBody
<1>4. serving[t] = NotServing
      BY DEF Take
<1>5. CASE Route(q) = "call"
      BY <1>1, <1>2, <1>3, <1>4, <1>5, CallIsRequest DEF Taken
<1>6. CASE Route(q) # "call"
      BY <1>1, <1>2, <1>3, <1>4, <1>6 DEF Taken
<1> QED BY <1>5, <1>6

\* A key newly drawn for thread t disturbs no other key.
LEMMA NewKey ==
    ASSUME KeyInv, NEW t \in Threads, users_' = users_, groups_' = groups_, retired' = retired,
           drawn \subseteq drawn', \A e \in Threads \ {t} : call'[e] = call[e],
           Creating(t)' => call'[t].key \in drawn' \ drawn
    PROVE  KeyInv'
<1>1. \A e \in Threads \ {t} : Creating(e)' => Creating(e) /\ call'[e].key = call[e].key
      BY DEF Creating
<1>2. /\ \A u \in DOMAIN users_ : users_[u] \in drawn \ retired
      /\ retired \subseteq drawn
      /\ \A e \in Threads : Creating(e) => /\ call[e].key \in drawn \ retired
                                          /\ \A u \in DOMAIN users_ : users_[u] # call[e].key
      /\ \A d, e \in Threads :
            Creating(d) /\ Creating(e) /\ call[d].key = call[e].key => d = e
      BY DEF KeyInv
<1>3. \A e \in Threads : Creating(e)' =>
         /\ call'[e].key \in drawn' \ retired
         /\ \A u \in DOMAIN users_ : users_[u] # call'[e].key
      BY <1>1, <1>2
<1>4. \A d, e \in Threads :
         Creating(d)' /\ Creating(e)' /\ call'[d].key = call'[e].key => d = e
      BY <1>1, <1>2
<1> QED BY <1>2, <1>3, <1>4 DEF KeyInv

\* A thread takes up the request of a client that waits, or one that was left
\* behind: the key drawn is new, and the client is served by this thread alone.
LEMMA DispatchStep ==
    ASSUME IInv, NEW t \in Threads, NEW c \in Clients \cup {None}, NEW q \in SomeRequest,
           Take(t, c, q),
           c # None => /\ mode[c] = "sent" /\ request[c] = q
                       /\ mode' = [mode EXCEPT ![c] = "served"],
           c = None => mode' = mode,
           orphans' \subseteq orphans
    PROVE  IInv'
<1>1. UNCHANGED <<users_, groups_, ret, request, reply, faults, history>>
      BY DEF Take
<1>2. PICK k \in Keys, v \in {"ok", "bad", "call"} : Taken(t, c, q, k, v)
      BY TakeEffect
<1> USE DEF IInv
<1> DEFINE r == [op |-> q.path, gname |-> q.gname, uid |-> q.uid, key |-> k]
           s0 == [client |-> c, q |-> q, key |-> k, verdict |-> v]
<1>3. /\ r.op = q.path /\ r.key = k
      /\ s0.client = c /\ s0.q = q /\ s0.key = k /\ s0.verdict = v
      OBVIOUS
<1>4. s0 \in [client : Clients \cup {None}, q : SomeRequest \cup {None},
              key : Keys \cup {None}, verdict : Verdicts]
      BY DEF Verdicts
<1>5. serving' = [serving EXCEPT ![t] = s0] /\ serving[t] = NotServing /\ call[t] = NoCall
      BY <1>2 DEF ServingInv, Taken
<1>6. \/ v # "call" /\ call' = call /\ drawn' = drawn
      \/ /\ v = "call" /\ r \in Requests /\ r # NoCall
         /\ call' = [call EXCEPT ![t] = r]
         /\ IF q.path = "create_user" THEN k \notin drawn /\ drawn' = drawn \cup {k}
                                      ELSE drawn' = drawn
      BY <1>2 DEF Taken
<1> HIDE DEF r, s0
<1>7. TypeOK'
      BY <1>1, <1>4, <1>5, <1>6 DEF TypeOK, history
<1>8. /\ \A e \in Threads \ {t} : serving'[e] = serving[e] /\ call'[e] = call[e]
      /\ serving'[t] = s0 /\ call'[t] \in {NoCall, r}
      /\ \A d \in Clients : d # c => mode'[d] = mode[d]
      BY <1>5, <1>6 DEF TypeOK
<1>9. KeyInv'
   <2>1. Creating(t)' => call'[t].key \in drawn' \ drawn
         BY <1>3, <1>5, <1>6, SMTT(30) DEF Creating, TypeOK
   <2>2. drawn \subseteq drawn' /\ users_' = users_ /\ groups_' = groups_ /\ retired' = retired
         BY <1>1, <1>6 DEF history
   <2> QED BY <1>8, <2>1, <2>2, NewKey
<1>10. ServingInv'
   <2>1. q # None
      <3> HIDE DEF IInv
      <3>1. PICK d \in Clients : q \in HttpRequests[d]
            BY Zenon DEF SomeRequest
      <3>2. None \notin HttpRequests[d]
            BY HttpAssumption, Zenon
      <3> QED BY <3>1, <3>2, Zenon
   <2>2. \A d \in Clients : mode'[d] # "idle" => request'[d] # None
      <3>1. request' = request /\ (c # None => request[c] = q)
            BY <1>1
      <3> QED BY <1>8, <2>1, <3>1 DEF ServingInv
   <2>3. \A e \in Threads : c # None => serving[e].client # c
      <3>1. TAKE e \in Threads
      <3>2. NotServing.client = None  BY DEF NotServing
      <3>3. serving[e] # NotServing /\ serving[e].client # None
               => mode[serving[e].client] = "served"
            BY DEF ServingInv, Serves
      <3> QED BY <3>2, <3>3
   <2>4. s0 # NotServing
         BY <1>3, <2>1 DEF NotServing
   <2>5. \A e \in Threads : serving'[e] = NotServing => call'[e] = NoCall
         BY <1>8, <2>4 DEF ServingInv
   <2>6. \A e \in Threads \ {t} : serving'[e].client = serving[e].client
         BY <1>8
   <2>7. \A d, e \in Threads :
            serving'[d].client = serving'[e].client /\ serving'[d].client # None => d = e
      <3>1. \A d, e \in Threads :
               serving[d].client = serving[e].client /\ serving[d].client # None => d = e
            BY DEF ServingInv
      <3>2. serving'[t].client = c
            BY <1>3, <1>8
      <3> QED BY <2>3, <2>6, <3>1, <3>2
   <2>8. Serves(t)'
      <3>1. c # None => mode'[c] = "served" /\ request'[c] = q
            BY <1>1 DEF TypeOK
      <3>2. call'[t] # NoCall => call'[t] = [op |-> q.path, gname |-> q.gname,
                                             uid |-> q.uid, key |-> k]
            BY <1>8 DEF r
      <3>3. v = "call" => call'[t] # NoCall
            BY <1>6 DEF TypeOK
      <3> QED BY <1>3, <1>8, <2>1, <3>1, <3>2, <3>3 DEF Serves
   <2>9. ASSUME NEW e \in Threads \ {t}, Serves(e)
         PROVE  Serves(e)'
      <3>1. /\ serving'[e] = serving[e] /\ call'[e] = call[e] /\ ret'[e] = ret[e]
            /\ request' = request /\ registered' = registered
            BY <1>1, <1>8 DEF history
      <3>2. serving[e].client \in Clients \cup {None}
            BY DEF TypeOK
      <3>3. serving[e].client # None => mode'[serving[e].client] = mode[serving[e].client]
            BY <1>8, <2>3, <3>2
      <3> QED BY <2>9, <3>1, <3>3 DEF Serves
   <2> QED BY <1>8, <2>2, <2>5, <2>7, <2>8, <2>9 DEF ServingInv
<1>11. KeysGivenAreRegistered'
      BY <1>1, <1>8 DEF KeysGivenAreRegistered, history, TypeOK
<1> QED BY <1>7, <1>9, <1>10, <1>11

\* The database executes a call: users_ only gains the pending key, which nobody
\* had; what it loses is retired; and the pair it gained is registered.
LEMMA ExecuteStep ==
    ASSUME IInv, NEW t \in Threads, Execute(t)
    PROVE  IInv' /\ \A e \in Threads : ret'[e] # ret[e] => ret'[e].keys \cap retired = {}
<1> USE DEF IInv
<1>1. Effect(t) /\ call[t] # NoCall
      BY OperationEffect DEF Execute
<1>2. PICK a \in Answers : ret' = [ret EXCEPT ![t] = a] /\ a.keys \subseteq Values(users_)
      BY <1>1 DEF Effect
<1>3. UNCHANGED <<request, mode, reply, orphans, faults, serving, drawn>>
      BY DEF Execute
<1>4. /\ \A k \in retired' : k \in retired \/ (k \in Values(users_) /\ k \notin Values(users_'))
      /\ retired \subseteq retired' /\ registered \subseteq registered'
      /\ \A u \in DOMAIN users_' : <<u, users_'[u]>> \in registered'
      /\ \A p \in registered' : p \in registered
                                \/ \E u \in DOMAIN users_' : p = <<u, users_'[u]>>
      BY DEF Execute, Values
<1>5. /\ \A k \in Values(users_) : k \in drawn \ retired
      /\ \A u \in DOMAIN users_ : users_[u] \in Values(users_)
      /\ \A u \in DOMAIN users_' : users_'[u] \in Values(users_')
      BY DEF KeyInv, Values
<1>6. call' = [call EXCEPT ![t] = NoCall]
      BY <1>1 DEF Effect
<1>7. /\ ret'[t] = a /\ call'[t] = NoCall
      /\ \A e \in Threads \ {t} : ret'[e] = ret[e] /\ call'[e] = call[e]
      BY <1>2, <1>6 DEF TypeOK
<1>8. \A e \in Threads : ret'[e] # ret[e] => ret'[e].keys \cap retired = {}
      BY <1>2, <1>5, <1>7
<1>9. TypeOK'
   <2>1. users_' \in UserMap /\ groups_' \in GroupMap
         BY <1>1 DEF Effect
   <2>2. \A u \in DOMAIN users_' : u \in Users /\ users_'[u] \in Keys
         BY <2>1, MapFacts DEF UserMap
   <2>3. retired' \subseteq Keys
         BY <1>4, <1>5 DEF TypeOK
   <2>4. registered' \subseteq Users \X Keys
      <3>1. \A u \in DOMAIN users_' : <<u, users_'[u]>> \in Users \X Keys
            BY <2>2
      <3>2. registered \subseteq Users \X Keys
            BY DEF TypeOK
      <3> QED BY <1>4, <3>1, <3>2
   <2> QED BY <1>2, <1>3, <1>6, <2>1, <2>3, <2>4 DEF TypeOK
<1>10. KeyInv'
   <2>1. \A g \in DOMAIN groups_' : groups_'[g] \subseteq DOMAIN users_'
         BY <1>1 DEF Effect
   <2>2. \A u \in DOMAIN users_' :
            \/ u \in DOMAIN users_ /\ users_'[u] = users_[u]
            \/ Creating(t) /\ users_'[u] = call[t].key
         BY <1>1 DEF Effect
   <2>3. \A u \in DOMAIN users_' : users_'[u] \in drawn \ retired
         BY <1>5, <2>2 DEF KeyInv
   <2>4. \A u \in DOMAIN users_' : users_'[u] \in drawn' \ retired'
         BY <1>3, <1>4, <1>5, <2>3
   <2>5. retired' \subseteq drawn'
         BY <1>3, <1>4, <1>5 DEF KeyInv
   <2>6. \A e \in Threads : Creating(e)' => e # t /\ Creating(e) /\ call'[e] = call[e]
         BY <1>7 DEF Creating
   <2>7. ASSUME NEW e \in Threads, Creating(e)'
         PROVE  /\ call'[e].key \in drawn' \ retired'
                /\ \A u \in DOMAIN users_' : users_'[u] # call'[e].key
      <3>1. e # t /\ Creating(e) /\ call'[e] = call[e]
            BY <2>6, <2>7
      <3>2. call[e].key \in drawn \ retired /\ \A u \in DOMAIN users_ : users_[u] # call[e].key
            BY <3>1 DEF KeyInv
      <3>3. call[e].key \notin Values(users_)
            BY <3>2 DEF Values
      <3>4. Creating(t) => call[t].key # call[e].key
            BY <3>1 DEF KeyInv
      <3> QED BY <1>3, <1>4, <2>2, <3>1, <3>2, <3>3, <3>4
   <2>8. \A d, e \in Threads :
            Creating(d)' /\ Creating(e)' /\ call'[d].key = call'[e].key => d = e
         BY <2>6 DEF KeyInv
   <2> QED BY <2>1, <2>4, <2>5, <2>7, <2>8 DEF KeyInv
<1>11. ServingInv'
   <2>1. ASSUME NEW e \in Threads \ {t}, Serves(e)
         PROVE  Serves(e)'
         BY <1>3, <1>4, <1>7, <2>1 DEF Serves
   <2>2. ASSUME Serves(t)
         PROVE  Serves(t)'
      <3>1. call[t] = [op |-> serving[t].q.path, gname |-> serving[t].q.gname,
                       uid |-> serving[t].q.uid, key |-> serving[t].key]
            BY <1>1, <2>2 DEF Serves
      <3>2. /\ call[t].op = serving[t].q.path
            /\ call[t].uid = serving[t].q.uid /\ call[t].key = serving[t].key
            BY <3>1
      <3>3. serving[t].q.path = "create_user" /\ ret'[t].status # "invalid_argument"
               => <<serving[t].q.uid, serving[t].key>> \in registered'
            BY <1>1, <1>4, <3>2 DEF Effect, Creating
      <3> QED BY <1>3, <1>7, <2>2, <3>3 DEF Serves
   <2>3. \A e \in Threads : call[e] = NoCall => call'[e] = NoCall
         BY <1>7
   <2> QED BY <1>3, <2>1, <2>2, <2>3 DEF ServingInv
<1>12. KeysGivenAreRegistered'
      BY <1>3, <1>4 DEF KeysGivenAreRegistered
<1> QED BY <1>8, <1>9, <1>10, <1>11, <1>12

\* The response goes out, or is lost: the thread is free, and a client that is told
\* a key is told one that the database has registered.
LEMMA ResponseStep ==
    ASSUME IInv, NEW t \in Threads, Respond(t) \/ LoseResponse(t)
    PROVE  IInv'
<1> USE DEF IInv
<1> DEFINE c == serving[t].client
           a == ResponseOf(serving[t], ret[t])
<1>1. /\ UNCHANGED <<dbvars, orphans, drawn, history>> /\ Done(t)
      /\ serving' = [serving EXCEPT ![t] = NotServing]
      BY DEF Respond, LoseResponse
<1>2. /\ serving[t] # NotServing /\ call[t] = NoCall /\ c \in Clients \cup {None}
      /\ serving[t].key \in Keys \cup {None}
      /\ c # None => mode[c] = "served" /\ request[c] = serving[t].q /\ request[c] # None
   <2>1. serving[t] # NotServing /\ call[t] = NoCall
         BY <1>1 DEF Done
   <2>2. c \in Clients \cup {None} /\ serving[t].key \in Keys \cup {None}
         BY DEF TypeOK
   <2>3. Serves(t)
         BY <2>1 DEF ServingInv
   <2> QED BY <2>1, <2>2, <2>3 DEF Serves
<1>3. a \in Replies
   <2>1. /\ a.ok \in BOOLEAN /\ a.key \in Keys \cup {None}
         /\ a = [ok |-> a.ok, key |-> a.key]
         BY <1>2 DEF ResponseOf
   <2> QED BY <2>1 DEF Replies
<1>4. \E m \in {"idle", "answered", "retry"} :
         /\ c # None => mode' = [mode EXCEPT ![c] = m]
         /\ c = None => mode' = mode /\ request' = request
         /\ IF m = "idle" THEN request' \in {request, [request EXCEPT ![c] = None]}
                          ELSE request' = request
         /\ IF m = "answered" THEN reply' = [reply EXCEPT ![c] = a] ELSE reply' = reply
         /\ faults' \in 0 .. MaxFaults
   <2>1. CASE Respond(t)
         BY <2>1 DEF Respond, TypeOK
   <2>2. CASE LoseResponse(t) /\ c = None
         BY <2>2 DEF LoseResponse, TypeOK
   <2>3. CASE LoseResponse(t) /\ c # None
      <3>1. faults' \in 0 .. MaxFaults
            BY <2>3, FaultBounded DEF LoseResponse
      <3> QED BY <2>3, <3>1 DEF LoseResponse, GiveUp, Return
   <2> QED BY <2>1, <2>2, <2>3
<1>5. PICK m \in {"idle", "answered", "retry"} :
         /\ c # None => mode' = [mode EXCEPT ![c] = m]
         /\ c = None => mode' = mode /\ request' = request
         /\ IF m = "idle" THEN request' \in {request, [request EXCEPT ![c] = None]}
                          ELSE request' = request
         /\ IF m = "answered" THEN reply' = [reply EXCEPT ![c] = a] ELSE reply' = reply
         /\ faults' \in 0 .. MaxFaults
      BY <1>4
<1>6. c # None /\ m = "answered" /\ a.key # None => <<request[c].uid, a.key>> \in registered
   <2>1. a.key # None => /\ a.key = serving[t].key /\ serving[t].verdict = "call"
                         /\ serving[t].q.path = "create_user"
                         /\ ret[t].status # "invalid_argument"
         BY DEF ResponseOf
   <2>2. Serves(t)
         BY <1>2 DEF ServingInv
   <2> QED BY <1>2, <2>1, <2>2 DEF Serves
<1>7. c \in Clients <=> c # None
      BY <1>2, HttpAssumption
<1>8. \A d \in Clients : d # c =>
         mode'[d] = mode[d] /\ request'[d] = request[d] /\ reply'[d] = reply[d]
      BY <1>5, <1>7 DEF TypeOK
<1>9. c # None => /\ mode'[c] = m /\ (m # "idle" => request'[c] = request[c])
                  /\ (m = "answered" => reply'[c] = a)
      BY <1>5, <1>7 DEF TypeOK
<1>10. /\ serving'[t] = NotServing
       /\ \A e \in Threads \ {t} : serving'[e] = serving[e] /\ (c # None => serving[e].client # c)
      BY <1>1 DEF TypeOK, ServingInv
<1> HIDE DEF a
<1>11. TypeOK'
   <2>1. NotServing \in [client : Clients \cup {None}, q : SomeRequest \cup {None},
                         key : Keys \cup {None}, verdict : Verdicts]
         BY DEF NotServing, Verdicts
   <2>2. serving' \in [Threads -> [client : Clients \cup {None}, q : SomeRequest \cup {None},
                                   key : Keys \cup {None}, verdict : Verdicts]]
         BY <1>1, <2>1 DEF TypeOK
   <2>3. /\ mode' \in [Clients -> {"idle", "sent", "served", "answered", "retry"}]
         /\ request' \in [Clients -> SomeRequest \cup {None}]
         /\ reply' \in [Clients -> Replies \cup {None}]
         BY <1>3, <1>5, <1>7 DEF TypeOK
   <2> QED BY <1>1, <1>5, <2>2, <2>3 DEF TypeOK, dbvars, history
<1>12. KeyInv'
      BY <1>1 DEF KeyInv, Creating, dbvars, history
<1>13. ServingInv'
   <2>1. \A d \in Clients : mode'[d] # "idle" => request'[d] # None
         BY <1>2, <1>7, <1>8, <1>9 DEF ServingInv
   <2>2. call' = call /\ ret' = ret /\ registered' = registered
         BY <1>1 DEF dbvars, history
   <2>3. \A e \in Threads : serving'[e] = NotServing => call'[e] = NoCall
         BY <1>2, <1>10, <2>2 DEF ServingInv
   <2>4. NotServing.client = None
         BY DEF NotServing
   <2>5. \A e \in Threads \ {t} : serving'[e].client = serving[e].client
         BY <1>10
   <2>6. \A d, e \in Threads :
            serving'[d].client = serving'[e].client /\ serving'[d].client # None => d = e
      <3>1. \A d, e \in Threads :
               serving[d].client = serving[e].client /\ serving[d].client # None => d = e
            BY DEF ServingInv
      <3>2. serving'[t].client = None
            BY <1>10, <2>4
      <3> QED BY <2>5, <3>1, <3>2
   <2>7. ASSUME NEW e \in Threads \ {t}, Serves(e)
         PROVE  Serves(e)'
      <3>1. serving[e].client \in Clients \cup {None}
            BY DEF TypeOK
      <3>2. serving[e].client # None =>
               /\ mode'[serving[e].client] = mode[serving[e].client]
               /\ request'[serving[e].client] = request[serving[e].client]
            BY <1>8, <1>10, <3>1
      <3> QED BY <1>10, <2>2, <2>7, <3>2 DEF Serves
   <2> QED BY <1>10, <2>1, <2>3, <2>6, <2>7 DEF ServingInv
<1>14. KeysGivenAreRegistered'
   <2>1. registered' = registered  BY <1>1 DEF history
   <2> QED BY <1>6, <1>7, <1>8, <1>9, <2>1 DEF KeysGivenAreRegistered
<1> QED BY <1>11, <1>12, <1>13, <1>14

-----------------------------------------------------------------------------
\* The service starts with an empty database and nobody served.
LEMMA InitInv == Init => IInv
<1> SUFFICES ASSUME Init PROVE IInv
    OBVIOUS
<1>1. /\ users_ = EmptyMap /\ groups_ = EmptyMap
      /\ call = [t \in Threads |-> NoCall] /\ ret = [t \in Threads |-> Answer("ok")]
      BY DEF Init, Db!Init, Db!EmptyMap, EmptyMap, Db!Answer, Answer
<1>2. /\ users_ \in UserMap /\ groups_ \in GroupMap
      /\ DOMAIN users_ = {} /\ DOMAIN groups_ = {}
      BY <1>1, EmptyFacts DEF UserMap, GroupMap
<1>3. Answer("ok") \in Answers
      BY AnswerFacts DEF Statuses
<1>4. NotServing \in [client : Clients \cup {None}, q : SomeRequest \cup {None},
                      key : Keys \cup {None}, verdict : Verdicts]
      BY DEF NotServing, Verdicts
<1>5. TypeOK
   <2>1. /\ call \in [Threads -> Requests \cup {NoCall}] /\ ret \in [Threads -> Answers]
         BY <1>1, <1>3
   <2>2. /\ request \in [Clients -> SomeRequest \cup {None}]
         /\ mode \in [Clients -> {"idle", "sent", "served", "answered", "retry"}]
         /\ reply \in [Clients -> Replies \cup {None}]
         BY DEF Init
   <2>3. /\ orphans \subseteq SomeRequest /\ faults \in 0 .. MaxFaults
         /\ drawn \subseteq Keys /\ retired \subseteq Keys /\ registered \subseteq Users \X Keys
         BY HttpAssumption DEF Init
   <2>4. serving \in [Threads -> [client : Clients \cup {None}, q : SomeRequest \cup {None},
                                  key : Keys \cup {None}, verdict : Verdicts]]
         BY <1>4 DEF Init
   <2> QED BY <1>2, <2>1, <2>2, <2>3, <2>4 DEF TypeOK
<1>6. KeyInv
      BY <1>1, <1>2 DEF Init, KeyInv, Creating
<1>7. ServingInv
      BY <1>1 DEF Init, ServingInv, NotServing
<1>8. KeysGivenAreRegistered
      BY DEF Init, KeysGivenAreRegistered
<1> QED BY <1>5, <1>6, <1>7, <1>8 DEF IInv

\* Every step keeps the invariant, and gives no thread a key that is retired.
LEMMA NextInv ==
    ASSUME IInv, [Next]_vars
    PROVE  IInv' /\ \A t \in Threads : ret'[t] # ret[t] => ret'[t].keys \cap retired = {}
<1>1. CASE UNCHANGED vars
   <2>1. UNCHANGED <<users_, groups_, call, ret, request, mode, reply, orphans, faults,
                     serving, drawn, retired, registered>>
         BY <1>1 DEF vars, dbvars, history
   <2>2. TypeOK => TypeOK'  BY <2>1 DEF TypeOK
   <2>3. KeyInv => KeyInv'  BY <2>1 DEF KeyInv, Creating
   <2>4. \A t \in Threads : Serves(t) => Serves(t)'  BY <2>1 DEF Serves
   <2>5. ServingInv => ServingInv'  BY <2>1, <2>4 DEF ServingInv
   <2>6. KeysGivenAreRegistered => KeysGivenAreRegistered'
         BY <2>1 DEF KeysGivenAreRegistered
   <2> QED BY <2>1, <2>2, <2>3, <2>5, <2>6 DEF IInv
<1>2. ASSUME NEW c \in Clients, Issue(c) \/ Reissue(c) \/ LoseRequest(c) \/ Receive(c)
      PROVE  IInv' /\ ret' = ret
   <2>1. ret' = ret  BY <1>2 DEF Issue, Reissue, LoseRequest, Receive, dbvars
   <2> QED BY <1>2, <2>1, ClientStep
<1>3. ASSUME NEW c \in Clients, NEW t \in Threads, Dispatch(t, c)
      PROVE  IInv' /\ ret' = ret
   <2>1. request[c] \in SomeRequest /\ c # None
      <3>1. mode[c] = "sent"  BY <1>3 DEF Dispatch
      <3>2. request[c] # None  BY <3>1 DEF IInv, ServingInv
      <3>3. request[c] \in SomeRequest \cup {None}  BY DEF IInv, TypeOK
      <3> QED BY <3>2, <3>3, HttpAssumption
   <2>2. /\ Take(t, c, request[c]) /\ mode[c] = "sent" /\ orphans' = orphans
         /\ mode' = [mode EXCEPT ![c] = "served"]
         BY <1>3 DEF Dispatch
   <2>3. ret' = ret  BY <2>2 DEF Take
   <2> QED BY <2>1, <2>2, <2>3, DispatchStep
<1>4. ASSUME NEW t \in Threads, DispatchOrphan(t)
      PROVE  IInv' /\ ret' = ret
   <2>1. PICK q \in orphans : Take(t, None, q) /\ orphans' = orphans \ {q} /\ mode' = mode
         BY <1>4 DEF DispatchOrphan
   <2>2. q \in SomeRequest  BY <2>1 DEF IInv, TypeOK
   <2>3. ret' = ret  BY <2>1 DEF Take
   <2> QED BY <2>1, <2>2, <2>3, DispatchStep
<1>5. ASSUME NEW t \in Threads, Respond(t) \/ LoseResponse(t)
      PROVE  IInv' /\ ret' = ret
   <2>1. ret' = ret  BY <1>5 DEF Respond, LoseResponse, dbvars
   <2> QED BY <1>5, <2>1, ResponseStep
<1> QED BY <1>1, <1>2, <1>3, <1>4, <1>5, ExecuteStep DEF Next

-----------------------------------------------------------------------------
\* IInv holds in every state of the service, whatever is lost on the way.
THEOREM ServiceInvariance == Spec => []IInv
<1>1. IInv /\ [Next]_vars => IInv'
      BY NextInv
<1> QED BY InitInv, <1>1, PTL DEF Spec

\* The service's state keeps its type.
THEOREM ServiceTypeCorrect == Spec => []TypeOK
<1>1. IInv => TypeOK
      BY DEF IInv
<1> QED BY ServiceInvariance, <1>1, PTL

\* The key that create_user answers is one the database registered for that user
\* (anonymbe_service.hpp), with any number of clients, threads and lost messages.
THEOREM GivenKeysAreRegistered == Spec => []KeysGivenAreRegistered
<1>1. IInv => KeysGivenAreRegistered
      BY DEF IInv
<1> QED BY ServiceInvariance, <1>1, PTL

\* get_keys_of_group never returns the key of a deleted user again, even when the
\* user id is taken anew.
THEOREM RevokedKeysAreGone == Spec => RevokedKeysStayOut
<1>1. IInv /\ [Next]_vars
         => [\A t \in Threads : ret'[t] # ret[t] => ret'[t].keys \cap retired = {}]_vars
      BY NextInv
<1> QED BY ServiceInvariance, <1>1, PTL DEF Spec, RevokedKeysStayOut


\* A thread that takes up a request calls the database, or leaves it alone.
LEMMA TakeCalls ==
    ASSUME IInv, NEW t \in Threads, NEW c \in Clients \cup {None}, NEW q \in SomeRequest,
           Take(t, c, q)
    PROVE  Db!Call(t) \/ UNCHANGED dbvars
<1>1. PICK k \in Keys, v \in {"ok", "bad", "call"} : Taken(t, c, q, k, v)
      BY TakeEffect
<1>2. UNCHANGED <<users_, groups_, ret>>
      BY DEF Take
<1>3. CASE v = "call"
   <2>1. call[t] = NoCall
         BY <1>1 DEF Taken, IInv, ServingInv
   <2> QED BY <1>1, <1>2, <1>3, <2>1 DEF Taken, Db!Call
<1>4. CASE v # "call"
      BY <1>1, <1>2, <1>4 DEF Taken, dbvars
<1> QED BY <1>3, <1>4

\* The service uses its database as Database allows: a thread asks for nothing
\* while a request of its own is under way, every request is one the database
\* declares, and nothing but the database's operations touches users and groups.
\* With Refinement of MemDatabase, what is said of the service with the atomic
\* database holds of it with memory_database.cpp.
THEOREM ServiceUsesDatabase == Spec => Db!Spec
<1>1. Init => Db!Init
      BY DEF Init
<1>2. IInv /\ [Next]_vars => [Db!Next]_(Db!dbvars)
   <2> SUFFICES ASSUME IInv, [Next]_vars
                PROVE  (\E t \in Threads : Db!Call(t) \/ Db!Operation(t)) \/ UNCHANGED dbvars
         BY DEF Db!Next, Db!dbvars, dbvars
   <2>1. ASSUME NEW c \in Clients, Issue(c) \/ Reissue(c) \/ LoseRequest(c) \/ Receive(c)
         PROVE  UNCHANGED dbvars
         BY <2>1 DEF Issue, Reissue, LoseRequest, Receive
   <2>2. ASSUME NEW c \in Clients, NEW t \in Threads, Dispatch(t, c)
         PROVE  Db!Call(t) \/ UNCHANGED dbvars
      <3>1. request[c] \in SomeRequest
            BY <2>2 DEF IInv, TypeOK, ServingInv, Dispatch
      <3> QED BY <2>2, <3>1, TakeCalls DEF Dispatch
   <2>3. ASSUME NEW t \in Threads, DispatchOrphan(t)
         PROVE  Db!Call(t) \/ UNCHANGED dbvars
      <3>1. PICK q \in orphans : Take(t, None, q)
            BY <2>3 DEF DispatchOrphan
      <3>2. q \in SomeRequest
            BY DEF IInv, TypeOK
      <3> QED BY <3>1, <3>2, TakeCalls
   <2>4. ASSUME NEW t \in Threads, Execute(t)
         PROVE  Db!Operation(t)
         BY <2>4 DEF Execute
   <2>5. ASSUME NEW t \in Threads, Respond(t) \/ LoseResponse(t)
         PROVE  UNCHANGED dbvars
         BY <2>5 DEF Respond, LoseResponse
   <2>6. CASE UNCHANGED vars
         BY <2>6 DEF vars, dbvars
   <2> QED BY <2>1, <2>2, <2>3, <2>4, <2>5, <2>6 DEF Next
<1> QED BY <1>1, <1>2, ServiceInvariance, PTL DEF Spec, Db!Spec
=============================================================================
