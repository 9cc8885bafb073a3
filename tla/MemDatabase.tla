----------------------------- MODULE MemDatabase -----------------------------
(***************************************************************************)
(* MemDatabase (enclave/memory_database.cpp): two maps and two mutexes.    *)
(* The group operations take gmutex_ first and umutex_ inside it, only for *)
(* the lookup of the user; delete_user and delete_all_data take umutex_    *)
(* first and then gmutex_; is_user_part_of_group takes no lock.            *)
(*                                                                         *)
(* A step ends wherever another thread may be scheduled to visible effect: *)
(* at each acquisition of a mutex and before each change of groups_.       *)
(***************************************************************************)
EXTENDS DbTypes

VARIABLES
    users_, groups_,    \* the two maps of the class
    gmutex_, umutex_,   \* the thread holding each mutex, or Free
    pc,                 \* pc[t]: where in its operation thread t is
    todo,               \* todo[t]: members whose key t has not copied yet
    ka,                 \* ka[t]: the keys t has copied (KeyArray ret)
    call, ret           \* as in Database

vars == <<users_, groups_, gmutex_, umutex_, pc, todo, ka, call, ret>>

CONSTANT Free           \* the value of a mutex nobody holds
ASSUME FreeAssumption == Free \notin Threads

\* idle    no request                     ulock  waits for umutex_, holds nothing
\* glock   waits for gmutex_              gwait  holds umutex_, waits for gmutex_
\* ucheck  holds gmutex_, looks a user up wipe   holds both, about to delete
\* update  holds gmutex_, about to write  find   about to read without a lock
\* keys    holds gmutex_, copying keys    member found the group, no lock held
PCs == {"idle", "glock", "ucheck", "update", "keys",
        "ulock", "gwait", "wipe", "find", "member"}

GroupOps == {"create_group", "add_user_to_group", "remove_user_from_group",
             "get_keys_of_group"}
DeleteOps == {"delete_user", "delete_all_data"}

TypeOK ==
    /\ users_ \in UserMap
    /\ groups_ \in GroupMap
    /\ gmutex_ \in Threads \cup {Free}
    /\ umutex_ \in Threads \cup {Free}
    /\ pc \in [Threads -> PCs]
    /\ todo \in [Threads -> SUBSET Users]
    /\ ka \in [Threads -> SUBSET Keys]
    /\ call \in [Threads -> Requests \cup {NoCall}]
    /\ ret \in [Threads -> Answers]

Init ==
    /\ users_ = EmptyMap /\ groups_ = EmptyMap
    /\ gmutex_ = Free /\ umutex_ = Free
    /\ pc = [t \in Threads |-> "idle"]
    /\ todo = [t \in Threads |-> {}]
    /\ ka = [t \in Threads |-> {}]
    /\ call = [t \in Threads |-> NoCall]
    /\ ret = [t \in Threads |-> Answer("ok")]

-----------------------------------------------------------------------------
Entry(op) ==
    IF op \in GroupOps THEN "glock"
    ELSE IF op \in DeleteOps \cup {"create_user"} THEN "ulock"
    ELSE "find"

At(t, label, ops) == pc[t] = label /\ call[t].op \in ops

Goto(t, label) == pc' = [pc EXCEPT ![t] = label] /\ UNCHANGED <<call, ret>>

\* t returns from, or throws out of, its operation: every lock_guard it holds
\* is destroyed.
Finish(t, a) ==
    /\ pc' = [pc EXCEPT ![t] = "idle"]
    /\ call' = [call EXCEPT ![t] = NoCall]
    /\ ret' = [ret EXCEPT ![t] = a]
    /\ gmutex_' = IF gmutex_ = t THEN Free ELSE gmutex_
    /\ umutex_' = IF umutex_ = t THEN Free ELSE umutex_

\* Mutant: a mutex locked by hand and not unlocked on the way out.
ThrowKeepsLocks(t) ==
    /\ pc' = [pc EXCEPT ![t] = "idle"]
    /\ call' = [call EXCEPT ![t] = NoCall]
    /\ ret' = [ret EXCEPT ![t] = Answer("invalid_argument")]
    /\ UNCHANGED <<users_, groups_, gmutex_, umutex_, todo, ka>>

Throw(t) ==
    /\ Finish(t, Answer("invalid_argument"))
    /\ UNCHANGED <<users_, groups_, todo, ka>>

Call(t) ==
    /\ pc[t] = "idle"
    /\ \E r \in Requests :
          /\ call' = [call EXCEPT ![t] = r]
          /\ pc' = [pc EXCEPT ![t] = Entry(r.op)]
    /\ UNCHANGED <<users_, groups_, gmutex_, umutex_, todo, ka, ret>>

-----------------------------------------------------------------------------
\* The first lines of the group operations: lock gmutex_, look the group up,
\* refuse a group that is missing (for create_group: present).
LockGroups(t) ==
    LET r == call[t] IN
    /\ At(t, "glock", GroupOps \ {"get_keys_of_group"})
    /\ gmutex_ = Free
    /\ \/ /\ (r.gname \in DOMAIN groups_) = (r.op = "create_group")
          /\ Throw(t)
       \/ /\ (r.gname \in DOMAIN groups_) # (r.op = "create_group")
          /\ gmutex_' = t
          /\ Goto(t, "ucheck")
          /\ UNCHANGED <<users_, groups_, umutex_, todo, ka>>

\* The inner block: umutex_ is held for the lookup of the user only.
CheckUser(t) ==
    /\ pc[t] = "ucheck"
    /\ umutex_ = Free
    /\ \/ call[t].uid \notin DOMAIN users_ /\ Throw(t)
       \/ /\ call[t].uid \in DOMAIN users_
          /\ Goto(t, "update")
          /\ UNCHANGED <<users_, groups_, gmutex_, umutex_, todo, ka>>

\* groups_[g], where operator[] inserts an empty group if there is none.
Members(g) == IF g \in DOMAIN groups_ THEN groups_[g] ELSE {}

AddUserToGroup(t) ==
    LET r == call[t] IN
    /\ At(t, "update", {"add_user_to_group"})
    /\ groups_' = Put(groups_, r.gname, Members(r.gname) \cup {r.uid})
    /\ Finish(t, Answer(IF r.uid \in Members(r.gname) THEN "logic_error" ELSE "ok"))
    /\ UNCHANGED <<users_, todo, ka>>

CreateGroup(t) ==
    LET r == call[t] IN
    /\ At(t, "update", {"create_group"})
    /\ groups_' = Put(groups_, r.gname, Members(r.gname) \cup {r.uid})
    /\ Finish(t, Answer("ok"))
    /\ UNCHANGED <<users_, todo, ka>>

RemoveUserFromGroup(t) ==
    LET r == call[t] IN
    /\ At(t, "update", {"remove_user_from_group"})
    /\ groups_' = Put(groups_, r.gname, Members(r.gname) \ {r.uid})
    /\ Finish(t, Answer(IF r.uid \in Members(r.gname) THEN "ok" ELSE "invalid_argument"))
    /\ UNCHANGED <<users_, todo, ka>>

-----------------------------------------------------------------------------
\* get_keys_of_group: lock gmutex_, refuse an unknown or an empty group.
LockForKeys(t) ==
    LET g == call[t].gname IN
    /\ At(t, "glock", {"get_keys_of_group"})
    /\ gmutex_ = Free
    /\ \/ Members(g) = {} /\ Throw(t)
       \/ /\ Members(g) # {}
          /\ gmutex_' = t
          /\ Goto(t, "keys")
          /\ todo' = [todo EXCEPT ![t] = Members(g)]
          /\ ka' = [ka EXCEPT ![t] = {}]
          /\ UNCHANGED <<users_, groups_, umutex_>>

\* Mutant: the iterator is not advanced.
CopyKeyStands(t) ==
    /\ pc[t] = "keys"
    /\ umutex_ = Free
    /\ \E u \in todo[t] \cap DOMAIN users_ : ka' = [ka EXCEPT ![t] = @ \cup {users_[u]}]
    /\ UNCHANGED <<users_, groups_, gmutex_, umutex_, pc, todo, call, ret>>

\* One iteration of its loop: umutex_ is taken anew for every member.
CopyKey(t) ==
    /\ pc[t] = "keys"
    /\ umutex_ = Free
    /\ \E u \in todo[t] :
          /\ todo' = [todo EXCEPT ![t] = @ \ {u}]
          /\ ka' = [ka EXCEPT ![t] =
                      @ \cup (IF u \in DOMAIN users_ THEN {users_[u]} ELSE {})]
    /\ UNCHANGED <<users_, groups_, gmutex_, umutex_, pc, call, ret>>

ReturnKeys(t) ==
    /\ pc[t] = "keys"
    /\ todo[t] = {}
    /\ Finish(t, KeyArray(ka[t]))
    /\ ka' = [ka EXCEPT ![t] = {}]
    /\ UNCHANGED <<users_, groups_, todo>>

-----------------------------------------------------------------------------
\* Mutant: users_[uid] = key without the find.
CreateUserOverwrites(t) ==
    LET r == call[t] IN
    /\ At(t, "ulock", {"create_user"})
    /\ umutex_ = Free
    /\ users_' = Put(users_, r.uid, r.key)
    /\ Finish(t, Answer("ok"))
    /\ UNCHANGED <<groups_, todo, ka>>

\* The whole critical section of create_user lies under umutex_.
CreateUser(t) ==
    LET r == call[t] IN
    /\ At(t, "ulock", {"create_user"})
    /\ umutex_ = Free
    /\ \/ r.uid \in DOMAIN users_ /\ Throw(t)
       \/ /\ r.uid \notin DOMAIN users_
          /\ users_' = Put(users_, r.uid, r.key)
          /\ Finish(t, Answer("ok"))
          /\ UNCHANGED <<groups_, todo, ka>>

\* delete_user, delete_all_data: ulock(umutex_), then glock(gmutex_).
LockUsers(t) ==
    /\ At(t, "ulock", DeleteOps)
    /\ umutex_ = Free
    /\ umutex_' = t
    /\ Goto(t, "gwait")
    /\ UNCHANGED <<users_, groups_, gmutex_, todo, ka>>

\* Mutant: the deleting operations take umutex_ only.
LockUsersOnly(t) ==
    /\ pc[t] = "gwait"
    /\ Goto(t, "wipe")
    /\ UNCHANGED <<users_, groups_, gmutex_, umutex_, todo, ka>>

LockGroupsToo(t) ==
    /\ pc[t] = "gwait"
    /\ gmutex_ = Free
    /\ gmutex_' = t
    /\ Goto(t, "wipe")
    /\ UNCHANGED <<users_, groups_, umutex_, todo, ka>>

\* Mutant: the memberships stay.
DeleteUserKeepsMemberships(t) ==
    /\ At(t, "wipe", {"delete_user"})
    /\ users_' = Drop(users_, call[t].uid)
    /\ Finish(t, Answer("ok"))
    /\ UNCHANGED <<groups_, todo, ka>>

DeleteUser(t) ==
    /\ At(t, "wipe", {"delete_user"})
    /\ groups_' = EraseMember(groups_, call[t].uid)
    /\ users_' = Drop(users_, call[t].uid)
    /\ Finish(t, Answer("ok"))
    /\ UNCHANGED <<todo, ka>>

DeleteAllData(t) ==
    /\ At(t, "wipe", {"delete_all_data"})
    /\ users_' = EmptyMap
    /\ groups_' = EmptyMap
    /\ Finish(t, Answer("ok"))
    /\ UNCHANGED <<todo, ka>>

-----------------------------------------------------------------------------
\* is_user_part_of_group reads without a lock; reading groups_ while another
\* thread is about to write it is a data race, whose answer may be either one.
Racing(t) == \E s \in Threads \ {t} : pc[s] \in {"update", "wipe"}

\* Find the group, then index the map again.
FindGroup(t) ==
    LET found == call[t].gname \in DOMAIN groups_ IN
    /\ pc[t] = "find"
    /\ \/ (~found \/ Racing(t)) /\ Throw(t)
       \/ /\ found \/ Racing(t)
          /\ Goto(t, "member")
          /\ UNCHANGED <<users_, groups_, gmutex_, umutex_, todo, ka>>

\* Mutant: the answer is what inserting the user into the group would say.
ReadMemberInserts(t) ==
    LET r == call[t] IN
    /\ pc[t] = "member"
    /\ Finish(t, Belongs(r.uid \in Members(r.gname)))
    /\ groups_' = Put(groups_, r.gname, Members(r.gname) \cup {r.uid})
    /\ UNCHANGED <<users_, todo, ka>>

\* groups_[gname] re-creates a group that vanished after it was found.
ReadMember(t) ==
    LET r == call[t] IN
    /\ pc[t] = "member"
    /\ \E b \in BOOLEAN :
          /\ b = (r.uid \in Members(r.gname)) \/ Racing(t)
          /\ Finish(t, Belongs(b))
    /\ groups_' = Put(groups_, r.gname, Members(r.gname))
    /\ UNCHANGED <<users_, todo, ka>>

-----------------------------------------------------------------------------
Step(t) ==
    \/ LockGroups(t) \/ CheckUser(t)
    \/ AddUserToGroup(t) \/ CreateGroup(t) \/ RemoveUserFromGroup(t)
    \/ LockForKeys(t) \/ CopyKey(t) \/ ReturnKeys(t)
    \/ CreateUser(t)
    \/ LockUsers(t) \/ LockGroupsToo(t) \/ DeleteUser(t) \/ DeleteAllData(t)
    \/ FindGroup(t) \/ ReadMember(t)

Next == \E t \in Threads : Call(t) \/ Step(t)

Spec == Init /\ [][Next]_vars

\* A thread inside an operation is scheduled again; a caller may stay away.
FairSpec == Spec /\ \A t \in Threads : WF_vars(Step(t))

-----------------------------------------------------------------------------
\* Referential integrity: groups_ never names a user that users_ does not
\* have.  add_user_to_group and create_group write the group after they have
\* released umutex_, when a concurrent delete_user may already hold it.
MembersKnown == \A g \in DOMAIN groups_ : groups_[g] \subseteq DOMAIN users_

\* When the copy loop of get_keys_of_group ends it has found a key, so the
\* "empty envelope" branch of AnonymBE::generate_envelope is dead code with
\* this database: a group that was populated when gmutex_ was taken still is.
EnvelopeNeverEmpty ==
    \A t \in Threads : pc[t] = "keys" /\ todo[t] = {} => ka[t] # {}

\* create_user never replaces the key of a registered user: envelopes sealed
\* for that key stay readable until the user is deleted.
KeyIsStable ==
    [][\A u \in DOMAIN users_ \cap DOMAIN users_' : users_'[u] = users_[u]]_vars

\* The read without a lock writes at most an empty group: when delete_all_data
\* comes between its two lookups, the group is back without members.  Whoever is
\* added to a group was named by an operation that holds gmutex_.
ReadsAddNobody ==
    [][\A g \in DOMAIN groups_' :
          LET before == IF g \in DOMAIN groups_ THEN groups_[g] ELSE {} IN
          \A u \in groups_'[g] \ before :
              \E t \in Threads :
                  /\ gmutex_ = t /\ call[t].gname = g /\ call[t].uid = u
                  /\ call[t].op \in {"create_group", "add_user_to_group"}]_vars

\* A thread that waits for a mutex another thread holds.
WaitsForGroups(t) == pc[t] \in {"glock", "gwait"} /\ gmutex_ # Free
WaitsForUsers(t) ==
    /\ \/ pc[t] \in {"ucheck", "ulock"}
       \/ pc[t] = "keys" /\ todo[t] # {}
    /\ umutex_ # Free

\* The only way for the database to come to a halt is the inversion of the
\* lock order between delete_user or delete_all_data (umutex_ first) and a
\* group operation (gmutex_ first): whenever no thread inside an operation can
\* move, one of each kind waits for the other.
HaltsOnlyOnLockInversion ==
    LET busy == {t \in Threads : pc[t] # "idle"} IN
    (busy # {} /\ \A t \in busy : WaitsForGroups(t) \/ WaitsForUsers(t))
    => \E d \in busy, o \in busy :
          /\ umutex_ = d /\ WaitsForGroups(d) /\ call[d].op \in DeleteOps
          /\ gmutex_ = o /\ WaitsForUsers(o) /\ call[o].op \in GroupOps

\* Every request is answered.  Holds with one service thread, which is how
\* the server is built (#define N 1), whatever the order of the locks.
EveryCallReturns == \A t \in Threads : pc[t] # "idle" ~> pc[t] = "idle"

-----------------------------------------------------------------------------
\* The mutexes are held exactly between their acquisition and the end of the
\* operation (umutex_ in the inner blocks excepted: it is taken and released
\* in one step there).
LockInv ==
    \A t \in Threads :
        /\ gmutex_ = t <=> pc[t] \in {"ucheck", "update", "keys", "wipe"}
        /\ umutex_ = t <=> pc[t] \in {"gwait", "wipe"}

\* Which operations a thread can be executing at each label.
CallInv ==
    \A t \in Threads :
        /\ pc[t] = "idle" <=> call[t] = NoCall
        /\ pc[t] = "glock" => call[t].op \in GroupOps
        /\ pc[t] \in {"ucheck", "update"} => call[t].op \in GroupOps \ {"get_keys_of_group"}
        /\ pc[t] = "keys" => call[t].op = "get_keys_of_group"
        /\ pc[t] = "ulock" => call[t].op \in DeleteOps \cup {"create_user"}
        /\ pc[t] \in {"gwait", "wipe"} => call[t].op \in DeleteOps
        /\ pc[t] \in {"find", "member"} => call[t].op = "is_user_part_of_group"

\* The lookup of the user still stands when the group is written, although
\* umutex_ was released in between: only a holder of gmutex_ deletes users.
CheckedInv == \A t \in Threads : pc[t] = "update" => call[t].uid \in DOMAIN users_

\* The keys copied so far are those of the members already visited.
KeysInv ==
    \A t \in Threads :
        pc[t] = "keys" =>
            LET g == call[t].gname IN
            /\ g \in DOMAIN groups_
            /\ groups_[g] # {}
            /\ todo[t] \subseteq groups_[g]
            /\ ka[t] = {users_[u] : u \in groups_[g] \ todo[t]}

\* The inductive invariant behind MembersKnown and EnvelopeNeverEmpty.
IInv == TypeOK /\ LockInv /\ CallInv /\ CheckedInv /\ KeysInv /\ MembersKnown

-----------------------------------------------------------------------------
\* is_user_part_of_group takes no lock, so the database as a whole is atomic
\* only when one thread uses it, or none of several threads calls that.
ReaderAlone ==
    \/ \A s, t \in Threads : s = t
    \/ \A r \in Requests : r.op # "is_user_part_of_group"

\* Then the lookup of the group stands until the operation ends, too.
FoundInv ==
    \A t \in Threads :
        /\ pc[t] \in {"ucheck", "update"} =>
              (call[t].gname \in DOMAIN groups_) = (call[t].op # "create_group")
        /\ pc[t] = "member" => call[t].gname \in DOMAIN groups_

\* The refinement mapping forgets the mutexes, the labels and the copy loop.
D == INSTANCE Database
         WITH users_ <- users_, groups_ <- groups_, call <- call, ret <- ret

\* The locked, multi-step operations are atomic as seen by their callers: each
\* takes effect at the step that returns or throws.
ImplementsDatabase == D!Spec
=============================================================================
