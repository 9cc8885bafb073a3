------------------------------- MODULE DbTypes -------------------------------
(***************************************************************************)
(* The vocabulary of the access-control database of anonymBE: the requests *)
(* its callers issue (database.h), the answers they get back, and the      *)
(* std::map operations that memory_database.cpp is written with.           *)
(*                                                                         *)
(* A user key is the 32 random bytes drawn by AnonymBE::create_user: a     *)
(* member of Keys.  get_keys_of_group copies min(size, KEY_SIZE) bytes of  *)
(* it into a zeroed 32-byte array, which for a 32-byte key is the key.     *)
(***************************************************************************)
CONSTANTS
    Users,     \* user ids
    Groups,    \* group names
    Keys,      \* user keys
    Threads,   \* service threads: the N enclave threads of the bootstrap
    Requests,  \* the requests the threads issue
    NoCall     \* marks a thread that is executing no request

Ops == {"create_user", "create_group", "add_user_to_group",
        "remove_user_from_group", "delete_user", "delete_all_data",
        "is_user_part_of_group", "get_keys_of_group"}

\* Every request carries all fields; an operation reads the ones it declares.
ASSUME RequestsAssumption ==
    /\ Requests \subseteq [op : Ops, gname : Groups, uid : Users, key : Keys]
    /\ NoCall \notin Requests

\* A std::map from S to T: a function whose domain is its current key set.
MapOf(S, T) == UNION {[D -> T] : D \in SUBSET S}
EmptyMap == [x \in {} |-> {}]
Put(f, x, y) == [z \in DOMAIN f \cup {x} |-> IF z = x THEN y ELSE f[z]]
Drop(f, x) == [z \in DOMAIN f \ {x} |-> f[z]]

UserMap == MapOf(Users, Keys)
GroupMap == MapOf(Groups, SUBSET Users)

\* erase(uid) on every member set, as delete_user does.
EraseMember(groups, uid) == [g \in DOMAIN groups |-> groups[g] \ {uid}]

\* What the caller sees: a normal return, std::logic_error (the service turns
\* it into a warning) or std::invalid_argument (the service refuses).
Statuses == {"ok", "logic_error", "invalid_argument"}
Answers == [status : Statuses, belongs : BOOLEAN, keys : SUBSET Keys]

Answer(s) == [status |-> s, belongs |-> FALSE, keys |-> {}]
Belongs(b) == [status |-> "ok", belongs |-> b, keys |-> {}]
KeyArray(ks) == [status |-> "ok", belongs |-> FALSE, keys |-> ks]
=============================================================================
