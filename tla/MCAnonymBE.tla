----------------------------- MODULE MCAnonymBE -----------------------------
(***************************************************************************)
(* Small instances of AnonymBE: the requests of the Kotlin clients, one of *)
(* each kind the service refuses, and the database requests they lead to.  *)
(***************************************************************************)
EXTENDS AnonymBE

SomeUser == CHOOSE u \in Users : TRUE
SomeGroup == CHOOSE g \in Groups : TRUE

AllDbRequests == [op : Ops, gname : Groups, uid : Users, key : Keys]

Sent(verb, path, body, uids) ==
    [verb : {verb}, path : {path}, body : {body}, gname : Groups, uid : uids]

\* The administration client, which retries, and everybody else.
AdminRequests ==
    Sent("POST", "create_user", "good", Users)
    \cup Sent("POST", "create_group", "good", {SomeUser})
    \cup Sent("PUT", "add_user_to_group", "good", Users)

OtherRequests ==
    Sent("POST", "create_user", "good", {SomeUser})
    \cup Sent("DELETE", "delete_user", "good", {SomeUser})
    \cup Sent("DELETE", "remove_user_from_group", "good", {SomeUser})
    \cup Sent("DELETE", "delete_all_data", "garbled", {SomeUser})
    \cup Sent("POST", "get_keys_of_group", "good", {SomeUser})
    \cup Sent("POST", "is_user_part_of_group", "good", {SomeUser})
    \cup Sent("POST", "create_user", "mistyped", {SomeUser})
    \cup Sent("PUT", "unknown", "garbled", {SomeUser})

TwoClients == {"admin", "other"}
SentBy == [c \in TwoClients |-> IF c = "admin" THEN AdminRequests ELSE OtherRequests]
=============================================================================
