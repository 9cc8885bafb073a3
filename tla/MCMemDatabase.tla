---------------------------- MODULE MCMemDatabase ----------------------------
(***************************************************************************)
(* Small instances of MemDatabase.  A request carries the fields its       *)
(* operation reads; the others hold one fixed filler value.                *)
(***************************************************************************)
EXTENDS MemDatabase

SomeUser == CHOOSE u \in Users : TRUE
SomeGroup == CHOOSE g \in Groups : TRUE
SomeKey == CHOOSE k \in Keys : TRUE

CreateUserRequests ==
    [op : {"create_user"}, gname : {SomeGroup}, uid : Users, key : Keys]
MembershipRequests ==
    [op : {"create_group", "add_user_to_group", "remove_user_from_group"},
     gname : Groups, uid : Users, key : {SomeKey}]
KeysRequests ==
    [op : {"get_keys_of_group"}, gname : Groups, uid : {SomeUser}, key : {SomeKey}]
ReadRequests ==
    [op : {"is_user_part_of_group"}, gname : Groups, uid : Users, key : {SomeKey}]
DeleteRequests ==
    [op : {"delete_user"}, gname : {SomeGroup}, uid : Users, key : {SomeKey}]
    \cup [op : {"delete_all_data"}, gname : {SomeGroup}, uid : {SomeUser}, key : {SomeKey}]

NoDeleteRequests == CreateUserRequests \cup MembershipRequests \cup KeysRequests
LockingRequests == NoDeleteRequests \cup DeleteRequests
AllRequests == LockingRequests \cup ReadRequests
=============================================================================
