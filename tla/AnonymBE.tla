------------------------------ MODULE AnonymBE ------------------------------
(***************************************************************************)
(* The access-control service (enclave/anonymbe_service.hpp) between its   *)
(* clients and its database: an HTTP request is routed by verb and path,   *)
(* its JSON body is read, the database is asked, and an answer or an       *)
(* exception becomes the response.  Requests and responses can get lost    *)
(* with their connection: the service ignores that its send failed.        *)
(*                                                                         *)
(* The database is Database, atomic; MemDatabase implements it.            *)
(***************************************************************************)
EXTENDS DbTypes, Naturals

CONSTANTS
    Clients,       \* the programs that use the service
    HttpRequests,  \* HttpRequests[c]: the requests c sends
    MaxFaults,     \* bound: connections that break or calls that time out
    None           \* no request, no response, no client, no key

Verbs == {"GET", "PUT", "POST", "DELETE", "other"}
\* What json::parse and json_str make of a body: all fields there, no JSON at
\* all (parse_error), a field missing (out_of_range), or a field that is no
\* string (type_error).
Bodies == {"good", "garbled", "incomplete", "mistyped"}

\* The path is named by the database operation it stands for, if any.
ASSUME HttpAssumption ==
    /\ HttpRequests \in
          [Clients -> SUBSET [verb : Verbs, path : Ops \cup {"ping", "unknown"},
                              body : Bodies, gname : Groups, uid : Users]]
    /\ \A c \in Clients : None \notin HttpRequests[c]
    /\ \A c \in Clients : \A q \in HttpRequests[c] : \A k \in Keys :
          q.path \in Ops =>
              [op |-> q.path, gname |-> q.gname, uid |-> q.uid, key |-> k] \in Requests
    /\ None \notin Clients \cup Keys
    /\ Keys # {} /\ MaxFaults \in Nat

SomeRequest == UNION {HttpRequests[c] : c \in Clients}

VARIABLES
    users_, groups_, call, ret,  \* the database, as in Database
    request,     \* request[c]: what c is asking for, or None
    mode,        \* mode[c]: "idle", "sent", "served", "answered" or "retry"
    reply,       \* reply[c]: the response to c, or None
    orphans,     \* requests under way whose client has given up
    faults,      \* the connections broken and calls timed out so far
    serving,     \* serving[t]: the request t is treating, for whom, with which key
    drawn,       \* the user keys drawn so far
    retired,     \* history: the keys of users since deleted
    registered   \* history: the pairs of user and key users_ ever held

Db == INSTANCE Database

dbvars == <<users_, groups_, call, ret>>
history == <<retired, registered>>
vars == <<dbvars, request, mode, reply, orphans, faults, serving, drawn, history>>

Replies == [ok : BOOLEAN, key : Keys \cup {None}]
Verdicts == {"none", "ok", "bad", "call"}
NotServing == [client |-> None, q |-> None, key |-> None, verdict |-> "none"]

TypeOK ==
    /\ users_ \in UserMap /\ groups_ \in GroupMap
    /\ call \in [Threads -> Requests \cup {NoCall}] /\ ret \in [Threads -> Answers]
    /\ request \in [Clients -> SomeRequest \cup {None}]
    /\ mode \in [Clients -> {"idle", "sent", "served", "answered", "retry"}]
    /\ reply \in [Clients -> Replies \cup {None}]
    /\ orphans \subseteq SomeRequest /\ faults \in 0..MaxFaults
    /\ serving \in [Threads -> [client : Clients \cup {None}, q : SomeRequest \cup {None},
                                key : Keys \cup {None}, verdict : Verdicts]]
    /\ drawn \subseteq Keys /\ retired \subseteq Keys
    /\ registered \subseteq Users \X Keys

Init ==
    /\ Db!Init
    /\ request = [c \in Clients |-> None]
    /\ mode = [c \in Clients |-> "idle"]
    /\ reply = [c \in Clients |-> None]
    /\ orphans = {} /\ faults = 0
    /\ serving = [t \in Threads |-> NotServing]
    /\ drawn = {} /\ retired = {} /\ registered = {}

-----------------------------------------------------------------------------
\* A client sends a request, one at a time.
Issue(c) ==
    /\ mode[c] = "idle"
    /\ \E q \in HttpRequests[c] : request' = [request EXCEPT ![c] = q]
    /\ mode' = [mode EXCEPT ![c] = "sent"]
    /\ UNCHANGED <<dbvars, reply, orphans, faults, serving, drawn, history>>

\* The call is over.
Return(c) ==
    /\ mode' = [mode EXCEPT ![c] = "idle"]
    /\ request' = [request EXCEPT ![c] = None]

\* What a client does when its call throws: addUserToGroup is tried again
\* until it succeeds (CreateEnvelopeGroups.kt), the other programs stop.
GiveUp(c) ==
    \/ /\ request[c].path = "add_user_to_group"
       /\ mode' = [mode EXCEPT ![c] = "retry"]
       /\ UNCHANGED request
    \/ request[c].path # "add_user_to_group" /\ Return(c)

Reissue(c) ==
    /\ mode[c] = "retry"
    /\ mode' = [mode EXCEPT ![c] = "sent"]
    /\ UNCHANGED <<dbvars, request, reply, orphans, faults, serving, drawn, history>>

Fault == faults < MaxFaults /\ faults' = faults + 1

\* The connection breaks, or the call times out, before a thread has read the
\* request.  What has reached the socket by then is still read and executed.
LoseRequest(c) ==
    /\ mode[c] = "sent"
    /\ Fault /\ GiveUp(c)
    /\ UNCHANGED orphans \/ orphans' = orphans \cup {request[c]}
    /\ UNCHANGED <<dbvars, reply, serving, drawn, history>>

\* The client reads the response: isReallySuccessful, or an exception.
Receive(c) ==
    /\ mode[c] = "answered"
    /\ reply' = [reply EXCEPT ![c] = None]
    /\ (reply[c].ok /\ Return(c)) \/ (~reply[c].ok /\ GiveUp(c))
    /\ UNCHANGED <<dbvars, orphans, faults, serving, drawn, history>>

-----------------------------------------------------------------------------
\* What becomes of a body on its way to the database: parse_error and
\* out_of_range are caught as bad requests, a type_error only as a
\* std::exception, which is printed and leaves the error code at NOERROR.
ReadBody(body) ==
    IF body = "good" THEN "call" ELSE IF body = "mistyped" THEN "ok" ELSE "bad"

\* POST parses the body before it looks at the path, PUT and DELETE after, and
\* delete_all_data not at all: a body that is no JSON is refused elsewhere.
ProcessGet(q) == IF q.path = "ping" THEN "ok" ELSE "bad"

ProcessPut(q) == IF q.path = "add_user_to_group" THEN ReadBody(q.body) ELSE "bad"

ProcessPost(q) ==
    IF q.path \in {"create_user", "create_group", "get_keys_of_group", "is_user_part_of_group"}
    THEN ReadBody(q.body) ELSE "bad"

ProcessDelete(q) ==
    IF q.path = "delete_all_data" THEN "call"
    ELSE IF q.path \in {"remove_user_from_group", "delete_user"} THEN ReadBody(q.body)
    ELSE "bad"

\* process_input: a verb that is none of the four is no error.
Route(q) ==
    IF q.verb = "GET" THEN ProcessGet(q)
    ELSE IF q.verb = "PUT" THEN ProcessPut(q)
    ELSE IF q.verb = "POST" THEN ProcessPost(q)
    ELSE IF q.verb = "DELETE" THEN ProcessDelete(q)
    ELSE "ok"

\* Mutant: the generator returns bytes it returned before.
DrawAny == Keys

\* sgx_read_rand: 32 bytes, never the same twice.
Draw == Keys \ drawn

\* A thread takes up request q of client c.  create_user draws a key; the key
\* field of every other request means nothing.
Take(t, c, q) ==
    LET verdict == Route(q)
        creates == verdict = "call" /\ q.path = "create_user"
    IN  /\ serving[t] = NotServing
        /\ \E k \in IF creates THEN Draw ELSE {CHOOSE x \in Keys : TRUE} :
              /\ serving' = [serving EXCEPT ![t] =
                               [client |-> c, q |-> q, key |-> k, verdict |-> verdict]]
              /\ call' = IF verdict # "call" THEN call
                         ELSE [call EXCEPT ![t] = [op |-> q.path, gname |-> q.gname,
                                                   uid |-> q.uid, key |-> k]]
              /\ drawn' = IF creates THEN drawn \cup {k} ELSE drawn
        /\ UNCHANGED <<users_, groups_, ret, request, reply, faults, history>>

Dispatch(t, c) ==
    /\ mode[c] = "sent"
    /\ Take(t, c, request[c])
    /\ mode' = [mode EXCEPT ![c] = "served"]
    /\ UNCHANGED orphans

\* The same for a request whose client is no longer there.
DispatchOrphan(t) ==
    \E q \in orphans :
        /\ Take(t, None, q)
        /\ orphans' = orphans \ {q}
        /\ UNCHANGED mode

\* The database executes it.
Execute(t) ==
    /\ Db!Operation(t)
    /\ retired' = retired \cup ({users_[u] : u \in DOMAIN users_}
                                \ {users_'[u] : u \in DOMAIN users_'})
    /\ registered' = registered \cup {<<u, users_'[u]>> : u \in DOMAIN users_'}
    /\ UNCHANGED <<request, mode, reply, orphans, faults, serving, drawn>>

\* Mutants: std::logic_error is an error; the key is returned in any case.
ResponseStrict(s, answer) ==
    LET done == s.verdict = "call" /\ answer.status = "ok"
    IN  [ok  |-> s.verdict = "ok" \/ done,
         key |-> IF done /\ s.q.path = "create_user" THEN s.key ELSE None]

ResponseWithKey(s, answer) ==
    LET done == s.verdict = "call" /\ answer.status # "invalid_argument"
    IN  [ok  |-> s.verdict = "ok" \/ done,
         key |-> IF s.q.path = "create_user" THEN s.key ELSE None]

\* The catch clauses and the response: invalid_argument is a bad request,
\* logic_error an "info" on a positive response.
ResponseOf(s, answer) ==
    LET done == s.verdict = "call" /\ answer.status # "invalid_argument"
    IN  [ok  |-> s.verdict = "ok" \/ done,
         key |-> IF done /\ s.q.path = "create_user" THEN s.key ELSE None]

\* conn.send, whose result is ignored: the client gets the response, or an
\* exception when the connection is gone.
Done(t) == serving[t] # NotServing /\ call[t] = NoCall

Respond(t) ==
    LET c == serving[t].client IN
    /\ Done(t) /\ c # None
    /\ reply' = [reply EXCEPT ![c] = ResponseOf(serving[t], ret[t])]
    /\ mode' = [mode EXCEPT ![c] = "answered"]
    /\ serving' = [serving EXCEPT ![t] = NotServing]
    /\ UNCHANGED <<dbvars, request, orphans, faults, drawn, history>>

LoseResponse(t) ==
    LET c == serving[t].client IN
    /\ Done(t)
    /\ \/ c = None /\ UNCHANGED <<mode, request, faults>>
       \/ c # None /\ Fault /\ GiveUp(c)
    /\ serving' = [serving EXCEPT ![t] = NotServing]
    /\ UNCHANGED <<dbvars, reply, orphans, drawn, history>>

-----------------------------------------------------------------------------
Next ==
    \/ \E c \in Clients :
          \/ Issue(c) \/ Reissue(c) \/ LoseRequest(c) \/ Receive(c)
          \/ \E t \in Threads : Dispatch(t, c)
    \/ \E t \in Threads :
          DispatchOrphan(t) \/ Execute(t) \/ Respond(t) \/ LoseResponse(t)

Spec == Init /\ [][Next]_vars

\* The service thread runs and gets round to every request that waits; a
\* client goes on.  No connection breaks for ever: MaxFaults bounds them.
FairSpec ==
    /\ Spec
    /\ \A t \in Threads :
          WF_vars(Execute(t)) /\ WF_vars(DispatchOrphan(t)) /\ WF_vars(Respond(t) \/ LoseResponse(t))
    /\ \A c \in Clients :
          /\ WF_vars(Receive(c)) /\ WF_vars(Reissue(c))
          /\ SF_vars(\E t \in Threads : Dispatch(t, c))

-----------------------------------------------------------------------------
\* A key a client was given for a user is a key that user really had: a
\* create_user that is refused, or whose response is lost, misleads nobody.
KeysGivenAreRegistered ==
    \A c \in Clients :
        mode[c] = "answered" /\ reply[c].key # None
        => <<request[c].uid, reply[c].key>> \in registered

\* Once a user is deleted no envelope is sealed for that user's key again, not
\* even when the same user id is registered anew.
RevokedKeysStayOut ==
    [][\A t \in Threads : ret'[t] # ret[t] => ret'[t].keys \cap retired = {}]_vars

Adding(c) ==
    /\ mode[c] # "idle"
    /\ request[c].verb = "PUT" /\ request[c].path = "add_user_to_group"
    /\ request[c].body = "good"

\* The database has what the addition needs.
Addable(c) ==
    request[c] # None /\ request[c].uid \in DOMAIN users_ /\ request[c].gname \in DOMAIN groups_

\* The loop that repeats addUserToGroup ends, although the addition may have
\* been done by a try whose response was lost: doing it again is only unusual.
RetryEnds == \A c \in Clients : (Adding(c) ~> ~Adding(c)) \/ []<>~Addable(c)

-----------------------------------------------------------------------------
\* What these rest on.  A key drawn for a create_user under way is nobody's, was
\* nobody's, and is drawn for no other; members are users; and keys of users are
\* not retired.
Creating(t) == call[t] # NoCall /\ call[t].op = "create_user"

KeyInv ==
    /\ \A g \in DOMAIN groups_ : groups_[g] \subseteq DOMAIN users_
    /\ \A u \in DOMAIN users_ : users_[u] \in drawn \ retired
    /\ retired \subseteq drawn
    /\ \A t \in Threads : Creating(t) =>
          /\ call[t].key \in drawn \ retired
          /\ \A u \in DOMAIN users_ : users_[u] # call[t].key
    /\ \A s, t \in Threads :
          Creating(s) /\ Creating(t) /\ call[s].key = call[t].key => s = t

\* What a busy thread treats is the request its client waits with; its database
\* call is that request's; and one that created a user has registered the key
\* that the response is going to name.
Serves(t) ==
    LET s == serving[t] IN
    /\ s.q # None
    /\ s.client # None => mode[s.client] = "served" /\ request[s.client] = s.q
    /\ call[t] # NoCall =>
          call[t] = [op |-> s.q.path, gname |-> s.q.gname, uid |-> s.q.uid, key |-> s.key]
    /\ call[t] = NoCall /\ s.verdict = "call" /\ s.q.path = "create_user"
          /\ ret[t].status # "invalid_argument"
       => <<s.q.uid, s.key>> \in registered

\* No client is served by two threads, and a free thread has no call.
ServingInv ==
    /\ \A c \in Clients : mode[c] # "idle" => request[c] # None
    /\ \A t \in Threads : serving[t] = NotServing => call[t] = NoCall
    /\ \A t \in Threads : serving[t] # NotServing => Serves(t)
    /\ \A s, t \in Threads :
          serving[s].client = serving[t].client /\ serving[s].client # None => s = t

IInv == TypeOK /\ KeyInv /\ ServingInv /\ KeysGivenAreRegistered
=============================================================================
