------------------------------ MODULE Database ------------------------------
(***************************************************************************)
(* What the access-control database promises its callers, abstractly: a    *)
(* request is accepted, and at one later instant it takes effect as a      *)
(* whole and its answer is fixed.  No locks, no intermediate states.       *)
(* MemDatabase is shown to implement this.                                 *)
(***************************************************************************)
EXTENDS DbTypes

VARIABLES
    users_,   \* registered users and their keys
    groups_,  \* groups and their members
    call,     \* call[t]: the request thread t is executing, or NoCall
    ret       \* ret[t]: the answer to t's last finished request

dbvars == <<users_, groups_, call, ret>>

Init ==
    /\ users_ = EmptyMap
    /\ groups_ = EmptyMap
    /\ call = [t \in Threads |-> NoCall]
    /\ ret = [t \in Threads |-> Answer("ok")]

Call(t) ==
    /\ call[t] = NoCall
    /\ \E r \in Requests : call' = [call EXCEPT ![t] = r]
    /\ UNCHANGED <<users_, groups_, ret>>

\* The request of t ends with answer a.
Finish(t, a) ==
    /\ ret' = [ret EXCEPT ![t] = a]
    /\ call' = [call EXCEPT ![t] = NoCall]

\* The request of t is refused: no state changes.
Refuse(t) == Finish(t, Answer("invalid_argument")) /\ UNCHANGED <<users_, groups_>>

Executes(t, op) == call[t] # NoCall /\ call[t].op = op

CreateUser(t) ==
    LET r == call[t] IN
    /\ Executes(t, "create_user")
    /\ \/ r.uid \in DOMAIN users_ /\ Refuse(t)
       \/ /\ r.uid \notin DOMAIN users_
          /\ users_' = Put(users_, r.uid, r.key)
          /\ UNCHANGED groups_
          /\ Finish(t, Answer("ok"))

CreateGroup(t) ==
    LET r == call[t] IN
    /\ Executes(t, "create_group")
    /\ \/ (r.gname \in DOMAIN groups_ \/ r.uid \notin DOMAIN users_) /\ Refuse(t)
       \/ /\ r.gname \notin DOMAIN groups_
          /\ r.uid \in DOMAIN users_
          /\ groups_' = Put(groups_, r.gname, {r.uid})
          /\ UNCHANGED users_
          /\ Finish(t, Answer("ok"))

\* Adding a member again succeeds with a warning and changes nothing.
AddUserToGroup(t) ==
    LET r == call[t] IN
    /\ Executes(t, "add_user_to_group")
    /\ \/ (r.gname \notin DOMAIN groups_ \/ r.uid \notin DOMAIN users_) /\ Refuse(t)
       \/ /\ r.gname \in DOMAIN groups_
          /\ r.uid \in DOMAIN users_
          /\ groups_' = Put(groups_, r.gname, groups_[r.gname] \cup {r.uid})
          /\ UNCHANGED users_
          /\ Finish(t, Answer(IF r.uid \in groups_[r.gname]
                              THEN "logic_error" ELSE "ok"))

RemoveUserFromGroup(t) ==
    LET r == call[t]
        member == r.gname \in DOMAIN groups_ /\ r.uid \in groups_[r.gname]
    IN  /\ Executes(t, "remove_user_from_group")
        /\ \/ (~member \/ r.uid \notin DOMAIN users_) /\ Refuse(t)
           \/ /\ member
              /\ r.uid \in DOMAIN users_
              /\ groups_' = Put(groups_, r.gname, groups_[r.gname] \ {r.uid})
              /\ UNCHANGED users_
              /\ Finish(t, Answer("ok"))

\* Deleting a user, known or not, also ends every membership of that user.
DeleteUser(t) ==
    /\ Executes(t, "delete_user")
    /\ users_' = Drop(users_, call[t].uid)
    /\ groups_' = EraseMember(groups_, call[t].uid)
    /\ Finish(t, Answer("ok"))

DeleteAllData(t) ==
    /\ Executes(t, "delete_all_data")
    /\ users_' = EmptyMap
    /\ groups_' = EmptyMap
    /\ Finish(t, Answer("ok"))

IsUserPartOfGroup(t) ==
    LET r == call[t] IN
    /\ Executes(t, "is_user_part_of_group")
    /\ \/ r.gname \notin DOMAIN groups_ /\ Refuse(t)
       \/ /\ r.gname \in DOMAIN groups_
          /\ Finish(t, Belongs(r.uid \in groups_[r.gname]))
          /\ UNCHANGED <<users_, groups_>>

\* The keys of exactly the members of the group, all of one instant.
GetKeysOfGroup(t) ==
    LET g == call[t].gname
        populated == g \in DOMAIN groups_ /\ groups_[g] # {}
    IN  /\ Executes(t, "get_keys_of_group")
        /\ \/ ~populated /\ Refuse(t)
           \/ /\ populated
              /\ Finish(t, KeyArray({users_[u] : u \in groups_[g]}))
              /\ UNCHANGED <<users_, groups_>>

Operation(t) ==
    \/ CreateUser(t) \/ CreateGroup(t) \/ AddUserToGroup(t)
    \/ RemoveUserFromGroup(t) \/ DeleteUser(t) \/ DeleteAllData(t)
    \/ IsUserPartOfGroup(t) \/ GetKeysOfGroup(t)

Next == \E t \in Threads : Call(t) \/ Operation(t)

Spec == Init /\ [][Next]_dbvars
=============================================================================
