------------------------------ MODULE TlsServer ------------------------------
(***************************************************************************)
(* How a connection travels through the server (both anonymBE and the      *)
(* writer proxy): the event loop in the main thread (event_loop.cpp), the  *)
(* queue of ready descriptors and the enclave thread that empties it       *)
(* (sgxserver_bootstrap.cpp, N = 1), the table of TLS connections inside   *)
(* the enclave (tls_config.cpp), the SIGINT handler that may run on either *)
(* thread, and, as their environment, the descriptors and the              *)
(* edge-triggered epoll of the kernel, and the clients.                    *)
(*                                                                         *)
(* A block that holds table_lock is one action; table_lock itself shows    *)
(* only when the signal interrupts its holder.                             *)
(***************************************************************************)
EXTENDS Integers, Sequences, FiniteSets, FiniteSetsExt

CONSTANTS
    Fds,        \* the descriptor numbers left for connections, a set of numbers
    Conns,      \* the connections clients open
    MaxData,    \* how many chunks a client sends on a connection
    MaxEvents,  \* MAX_EVENTS
    None        \* no connection; a fd_ that is -1; the listening socket

ASSUME ServerAssumption ==
    /\ Fds \subseteq Nat /\ IsFiniteSet(Fds) /\ Fds # {}
    /\ MaxData \in Nat /\ MaxEvents \in Nat \ {0}
    /\ None \notin Fds \cup Conns

VARIABLES
    sock,            \* kernel: sock[fd] is the connection open as fd, or None
    backlog,         \* kernel: connections waiting for accept
    peer,            \* peer[c]: what the client of c has done
    inbox, left,     \* chunks of c not read yet, and not sent yet
    armed, ready,    \* connections in the epoll set, and with an event in it
    events,          \* what is left of the array epoll_wait has filled
    mpc, mfd,        \* main thread: its place, and conn_sock
    iqueue, asleep,  \* the queue of descriptors; is the worker in iqcv.wait?
    table,           \* connection_table: fd -> its connection, and fd_
    wpc, wfd, wconn, \* enclave thread: its place, fd and the referenced entry
    handler, hpc,    \* the thread that runs ctrlc_handler, and its place there
    table_lock,      \* the interrupted thread that holds it, or "nobody"
    status,          \* "running", or how the process ended
    races            \* history: how an entry or a number was taken from a thread

kernel == <<sock, backlog, peer, inbox, left, armed, ready>>
main == <<events, mpc, mfd>>
queue == <<iqueue, asleep>>
worker == <<wpc, wfd, wconn>>
signal == <<handler, hpc, table_lock>>
vars == <<kernel, main, queue, table, worker, signal, status, races>>

Threads == {"main", "worker"}
Entries == [conn : Conns, fd : Fds \cup {None}]

KernelTypeOK ==
    /\ sock \in [Fds -> Conns \cup {None}]
    /\ backlog \subseteq Conns
    /\ peer \in [Conns -> {"away", "up", "eof", "reset"}]
    /\ inbox \in [Conns -> 0 .. MaxData] /\ left \in [Conns -> 0 .. MaxData]
    /\ armed \subseteq Conns /\ ready \subseteq armed

ThreadTypeOK ==
    /\ events \subseteq Fds \cup {None}
    /\ mpc \in {"batch", "erase", "handshake", "insert", "register", "notify"}
    /\ mfd \in Fds
    /\ wpc \in {"wait", "lookup", "recv", "blocked", "close", "clear", "remove"}
    /\ wfd \in Fds /\ wconn \in Conns \cup {None}
    /\ handler \in Threads \cup {"nobody"} /\ hpc \in {"lock", "exit"}
    /\ table_lock \in {"nobody", handler}

TypeOK ==
    /\ KernelTypeOK /\ ThreadTypeOK
    /\ iqueue \in Seq(Fds) /\ asleep \in BOOLEAN
    /\ DOMAIN table \subseteq Fds /\ \A fd \in DOMAIN table : table[fd] \in Entries
    /\ status \in {"running", "refused", "exit", "terminate", "finished"}
    /\ races \subseteq {"window", "early", "finish"}

Init ==
    /\ sock = [fd \in Fds |-> None] /\ backlog = {}
    /\ peer = [c \in Conns |-> "away"]
    /\ inbox = [c \in Conns |-> 0] /\ left = [c \in Conns |-> MaxData]
    /\ armed = {} /\ ready = {} /\ events = {}
    /\ mpc = "batch" /\ mfd = CHOOSE fd \in Fds : TRUE
    /\ iqueue = <<>> /\ asleep = FALSE
    /\ table = [fd \in {} |-> None]
    /\ wpc = "wait" /\ wfd = mfd /\ wconn = None
    /\ handler = "nobody" /\ hpc = "lock" /\ table_lock = "nobody"
    /\ status = "running" /\ races = {}

-----------------------------------------------------------------------------
\* The clients.  An arrival is an event for epoll if the socket is armed.
Arrives(c) == ready' = ready \cup (armed \cap {c})

Open(c) == \E fd \in Fds : sock[fd] = c

Connect(c) ==
    /\ peer[c] = "away"
    /\ peer' = [peer EXCEPT ![c] = "up"]
    /\ backlog' = backlog \cup {c}
    /\ UNCHANGED <<sock, inbox, left, armed, ready, main, queue, table, worker, signal, status, races>>

\* A client sends once the handshake has given it a session.
Send(c) ==
    /\ peer[c] = "up" /\ left[c] > 0
    /\ \E fd \in DOMAIN table : table[fd].conn = c
    /\ inbox' = [inbox EXCEPT ![c] = @ + 1]
    /\ left' = [left EXCEPT ![c] = @ - 1]
    /\ Arrives(c)
    /\ UNCHANGED <<sock, backlog, peer, armed, main, queue, table, worker, signal, status, races>>

\* An orderly close leaves what was sent readable, a reset discards it.
Hangup(c) ==
    /\ peer[c] = "up"
    /\ \/ peer' = [peer EXCEPT ![c] = "eof"] /\ UNCHANGED inbox
       \/ peer' = [peer EXCEPT ![c] = "reset"] /\ inbox' = [inbox EXCEPT ![c] = 0]
    /\ Arrives(c)
    /\ UNCHANGED <<sock, backlog, left, armed, main, queue, table, worker, signal, status, races>>

Client == \E c \in Conns : Connect(c) \/ Send(c) \/ Hangup(c)

-----------------------------------------------------------------------------
\* ::close(fd) in the kernel: the number is free, the socket leaves epoll.
CloseFd(fd) ==
    /\ sock' = [sock EXCEPT ![fd] = None]
    /\ armed' = armed \ {sock[fd]}
    /\ ready' = ready \ {sock[fd]}

\* erase(fd) on connection_table: the entry's destructor closes the descriptor
\* the entry holds, unless close() has set fd_ to -1.
EraseEntry(fd) ==
    /\ table' = [f \in DOMAIN table \ {fd} |-> table[f]]
    /\ IF table[fd].fd # None THEN CloseFd(table[fd].fd) ELSE UNCHANGED <<sock, armed, ready>>

-----------------------------------------------------------------------------
\* event_loop: epoll_wait fills the array; an edge is reported once, a
\* connection in the backlog until it is accepted.
EpollWait ==
    LET pending == {fd \in Fds : sock[fd] \in ready}
                   \cup (IF backlog # {} THEN {None} ELSE {})
    IN
    /\ mpc = "batch" /\ events = {} /\ pending # {}
    /\ \E batch \in kSubset(Min({MaxEvents, Cardinality(pending)}), pending) :
          /\ events' = batch
          /\ ready' = ready \ {sock[fd] : fd \in batch \ {None}}
    /\ UNCHANGED <<sock, backlog, peer, inbox, left, armed, mpc, mfd, queue, table, worker,
                   signal, status, races>>

\* accept returns the lowest free number.  It fails when there is none, and for
\* reasons of its own, and the process exits.
Accept ==
    LET free == {fd \in Fds : sock[fd] = None} IN
    /\ mpc = "batch" /\ None \in events
    /\ \/ status' = "refused" /\ UNCHANGED <<kernel, main, races>>
       \/ \E fd \in free, c \in backlog :
             /\ \A other \in free : fd <= other
             /\ sock' = [sock EXCEPT ![fd] = c]
             /\ backlog' = backlog \ {c}
             /\ mfd' = fd /\ mpc' = "erase"
             /\ events' = events \ {None}
             /\ races' = races \cup (IF wpc \in {"clear", "remove"} /\ wfd = fd
                                     THEN {"window"} ELSE {})
             /\ UNCHANGED <<peer, inbox, left, armed, ready, status>>
    /\ UNCHANGED <<queue, table, worker, signal>>

\* Mutant: table_lock is kept over the handshake.
EraseStaleKeepsLock ==
    /\ mpc = "erase" /\ table_lock = "nobody"
    /\ \/ mfd \in DOMAIN table /\ EraseEntry(mfd)
       \/ mfd \notin DOMAIN table /\ UNCHANGED <<sock, armed, ready, table>>
    /\ mpc' = "handshake" /\ table_lock' = "main"
    /\ UNCHANGED <<backlog, peer, inbox, left, events, mfd, queue, worker, handler, hpc, status, races>>

\* addConnection, first block: drop the entry of an earlier socket.
EraseStale ==
    /\ mpc = "erase" /\ table_lock = "nobody"
    /\ \/ mfd \in DOMAIN table /\ EraseEntry(mfd)
       \/ mfd \notin DOMAIN table /\ UNCHANGED <<sock, armed, ready, table>>
    /\ mpc' = "handshake"
    /\ UNCHANGED <<backlog, peer, inbox, left, events, mfd, queue, worker, signal, status, races>>

\* SSL_accept: it may fail at any time; it cannot succeed without the client.
Handshake ==
    /\ mpc = "handshake"
    /\ \/ /\ sock[mfd] # None /\ peer[sock[mfd]] = "up"
          /\ mpc' = "insert"
          /\ UNCHANGED <<sock, armed, ready>>
       \/ CloseFd(mfd) /\ mpc' = "batch"
    /\ UNCHANGED <<backlog, peer, inbox, left, events, mfd, queue, table, worker, signal, status, races>>

\* addConnection, last block.  Only this thread inserts, so insert finds the
\* number free, the first block having erased it.
Insert ==
    /\ mpc = "insert" /\ table_lock = "nobody"
    /\ table' = [f \in DOMAIN table \cup {mfd} |->
                   IF f = mfd THEN [conn |-> sock[mfd], fd |-> mfd] ELSE table[f]]
    /\ mpc' = "register"
    /\ UNCHANGED <<kernel, events, mfd, queue, worker, signal, status, races>>

\* addto_epoll: make the socket non-blocking and add it; what has arrived
\* already counts as an event.  With the descriptor closed the process exits.
Register ==
    LET c == sock[mfd] IN
    /\ mpc = "register"
    /\ \/ c = None /\ status' = "exit" /\ UNCHANGED <<armed, ready, mpc>>
       \/ /\ c # None
          /\ armed' = armed \cup {c}
          /\ ready' = IF inbox[c] > 0 \/ peer[c] # "up" THEN ready \cup {c} ELSE ready
          /\ mpc' = "batch"
          /\ UNCHANGED status
    /\ UNCHANGED <<sock, backlog, peer, inbox, left, events, mfd, queue, table, worker, signal, races>>


\* Any other event: push the number under iqmutex, and notify after it.
Push ==
    /\ mpc = "batch"
    /\ \E fd \in events \ {None} :
          iqueue' = Append(iqueue, fd) /\ events' = events \ {fd}
    /\ mpc' = "notify"
    /\ UNCHANGED <<kernel, mfd, asleep, table, worker, signal, status, races>>

Notify ==
    /\ mpc = "notify"
    /\ asleep' = FALSE
    /\ mpc' = "batch"
    /\ UNCHANGED <<kernel, events, mfd, iqueue, table, worker, signal, status, races>>

Handling == EpollWait \/ Accept \/ EraseStale \/ Insert \/ Register \/ Push \/ Notify

Main == handler # "main" /\ (Handling \/ Handshake)

-----------------------------------------------------------------------------
\* Mutant: iqcv.wait without its predicate.
SleepAlways ==
    /\ wpc = "wait" /\ ~asleep
    /\ asleep' = TRUE
    /\ UNCHANGED <<kernel, main, iqueue, table, worker, signal, status, races>>

\* enclave_thread: iqcv.wait with its predicate, then front and pop.
Sleep ==
    /\ wpc = "wait" /\ ~asleep /\ iqueue = <<>>
    /\ asleep' = TRUE
    /\ UNCHANGED <<kernel, main, iqueue, table, worker, signal, status, races>>

Pop ==
    /\ wpc = "wait" /\ ~asleep /\ iqueue # <<>>
    /\ wfd' = Head(iqueue) /\ iqueue' = Tail(iqueue)
    /\ wpc' = "lookup"
    /\ UNCHANGED <<kernel, main, asleep, table, wconn, signal, status, races>>

\* Mutant: NOT_FOUND is not caught.
GetConnectionUncaught ==
    /\ wpc = "lookup"
    /\ \/ wfd \notin DOMAIN table /\ status' = "terminate" /\ UNCHANGED <<wconn, wpc>>
       \/ /\ wfd \in DOMAIN table
          /\ wconn' = table[wfd].conn
          /\ wpc' = "recv" /\ UNCHANGED status
    /\ UNCHANGED <<kernel, main, queue, table, wfd, signal, races>>

\* ecall_tls_recv: getConnection; NOT_FOUND is caught.
GetConnection ==
    /\ wpc = "lookup" /\ table_lock = "nobody"
    /\ \/ wfd \notin DOMAIN table /\ wpc' = "wait" /\ UNCHANGED <<wconn, races>>
       \/ /\ wfd \in DOMAIN table
          /\ wconn' = table[wfd].conn
          /\ wpc' = "recv"
          /\ races' = races \cup (IF table[wfd].conn \in armed THEN {} ELSE {"early"})
    /\ UNCHANGED <<kernel, main, queue, table, wfd, signal, status>>

recvFrame == <<sock, backlog, peer, left, armed, ready, main, queue, table, wfd, wconn,
               signal, status, races>>


\* The loop of ecall_tls_recv.  A chunk is read and handed to process_input;
\* with nothing to read, a non-blocking socket ends the call
\* (SSL_ERROR_WANT_READ) and one that addto_epoll has not seen yet blocks; a
\* reset ends the call; end of file enters close().
Recv ==
    /\ wpc = "recv"
    /\ \/ /\ inbox[wconn] > 0
          /\ inbox' = [inbox EXCEPT ![wconn] = @ - 1]
          /\ UNCHANGED wpc
       \/ /\ inbox[wconn] = 0 /\ peer[wconn] = "up"
          /\ wpc' = IF wconn \in armed THEN "wait" ELSE "blocked"
          /\ UNCHANGED inbox
       \/ peer[wconn] = "reset" /\ wpc' = "wait" /\ UNCHANGED inbox
       \/ inbox[wconn] = 0 /\ peer[wconn] = "eof" /\ wpc' = "close" /\ UNCHANGED inbox
    /\ UNCHANGED recvFrame

\* The read that blocked goes on; the flag set meanwhile does not wake it.
Unblock ==
    /\ wpc = "blocked"
    /\ inbox[wconn] > 0 \/ peer[wconn] # "up"
    /\ wpc' = "recv"
    /\ UNCHANGED inbox /\ UNCHANGED recvFrame

\* close(), as called from recv: ::close(fd_) first, fd_ = -1 next.
CloseConnection ==
    /\ wpc = "close"
    /\ CloseFd(wfd)
    /\ wpc' = "clear"
    /\ UNCHANGED <<backlog, peer, inbox, left, main, queue, table, wfd, wconn, signal, status, races>>

\* If the entry was erased meanwhile the assignment is to freed memory, which
\* may by then hold the new entry of the same number.
ClearFd ==
    LET mine == wfd \in DOMAIN table /\ table[wfd].conn = wconn IN
    /\ wpc = "clear"
    /\ \/ wfd \in DOMAIN table /\ table' = [table EXCEPT ![wfd].fd = None]
       \/ ~mine /\ UNCHANGED table
    /\ wpc' = "remove"
    /\ UNCHANGED <<kernel, main, queue, wfd, wconn, signal, status, races>>

\* Mutant: the entry stays in the table.
RemoveNothing ==
    /\ wpc = "remove"
    /\ wpc' = "wait"
    /\ UNCHANGED <<kernel, main, queue, table, wfd, wconn, signal, status, races>>

\* The handler of CONNECTION_CLOSED calls removeConnection; NOT_FOUND thrown
\* there leaves ecall_tls_recv and, caught by nobody, ends the process.
RemoveConnection ==
    /\ wpc = "remove" /\ table_lock = "nobody"
    /\ \/ /\ wfd \in DOMAIN table
          /\ EraseEntry(wfd) /\ wpc' = "wait" /\ UNCHANGED status
       \/ /\ wfd \notin DOMAIN table
          /\ status' = "terminate" /\ UNCHANGED <<sock, armed, ready, table, wpc>>
    /\ UNCHANGED <<backlog, peer, inbox, left, main, queue, wfd, wconn, signal, races>>

\* The entry the worker has in its hands is gone: finish() has freed it.
UseAfterFinish ==
    /\ wpc \in {"recv", "close", "clear"} /\ hpc = "exit"
    /\ \/ status' = "terminate" /\ UNCHANGED wpc
       \/ wpc' = "wait" /\ UNCHANGED status
    /\ UNCHANGED <<kernel, main, queue, table, wfd, wconn, signal, races>>

Worker ==
    /\ handler # "worker"
    /\ \/ Sleep \/ Pop \/ GetConnection \/ Recv \/ Unblock
       \/ CloseConnection \/ ClearFd \/ RemoveConnection \/ UseAfterFinish

-----------------------------------------------------------------------------
\* The blocks that hold table_lock.
InTableBlock(th) ==
    IF th = "main" THEN mpc \in {"erase", "insert"} ELSE wpc \in {"lookup", "remove"}

\* SIGINT, once: ctrlc_handler runs on one of the threads, wherever that is.
Interrupt(th) ==
    /\ handler = "nobody"
    /\ handler' = th
    /\ UNCHANGED table_lock \/ (InTableBlock(th) /\ table_lock' = th)
    /\ UNCHANGED <<kernel, main, queue, table, worker, hpc, status, races>>

\* ecall_finish: under table_lock, close every connection and clear the table.
\* The other thread may have an entry or its descriptor in its hands.
Finish ==
    LET closed == {table[fd].fd : fd \in DOMAIN table} \ {None}
        conns == {sock[fd] : fd \in closed}
    IN
    /\ handler # "nobody" /\ hpc = "lock" /\ table_lock = "nobody"
    /\ sock' = [fd \in Fds |-> IF fd \in closed THEN None ELSE sock[fd]]
    /\ armed' = armed \ conns /\ ready' = ready \ conns
    /\ table' = [fd \in {} |-> None]
    /\ hpc' = "exit"
    /\ races' = races \cup (IF wpc \in {"recv", "blocked", "close", "clear", "remove"}
                               \/ mpc = "register" THEN {"finish"} ELSE {})
    /\ UNCHANGED <<backlog, peer, inbox, left, main, queue, worker, handler, table_lock, status>>

Exit ==
    /\ hpc = "exit"
    /\ status' = "finished"
    /\ UNCHANGED <<kernel, main, queue, table, worker, signal, races>>

-----------------------------------------------------------------------------
Next ==
    /\ status = "running"
    /\ \/ Client \/ Main \/ Worker \/ Finish \/ Exit
       \/ \E th \in Threads : Interrupt(th)

Spec == Init /\ [][Next]_vars

\* The two threads and the handler are scheduled.  SSL_accept reads from a
\* blocking socket, so nothing says that a handshake ends, nor what clients send.
FairSpec ==
    /\ Spec
    /\ WF_vars(status = "running" /\ handler # "main" /\ Handling)
    /\ WF_vars(status = "running" /\ Worker)
    /\ WF_vars(status = "running" /\ (Finish \/ Exit))

-----------------------------------------------------------------------------
\* The worker never sleeps on a queue that holds work: between the push under
\* iqmutex and the notify outside it, the notify is still to come.
NoLostWakeup == asleep /\ iqueue # <<>> => mpc = "notify"

\* An entry of the table speaks for the socket its number denotes; only the
\* worker's own close() is between.  Unless a number was reused, or the table
\* cleared, under the other thread's hands, a socket in epoll has its entry.
TableMatchesKernel ==
    /\ \A fd \in DOMAIN table :
          \/ table[fd] = [conn |-> sock[fd], fd |-> fd]
          \/ wfd = fd /\ wpc \in {"clear", "remove"}
    /\ races = {} => \A fd \in Fds : sock[fd] \in armed => fd \in DOMAIN table

\* Only such a race can bring the process down, a failing accept apart:
\* addto_epoll never meets a closed descriptor and removeConnection never
\* misses its entry otherwise.
DiesOnlyOfRaces == status \in {"exit", "terminate"} => races # {}

\* What addConnection says of a number that is re-assigned to a new socket
\* ("may possibly happen") it handles: the process survives it.
ReuseIsHandled == status \in {"exit", "terminate"} => "finish" \in races

Unread(c) == status = "running" /\ Open(c) /\ c \in armed /\ inbox[c] > 0

\* What may keep a thread for ever: the worker reads a socket that was not
\* non-blocking yet and whose client is silent; the event loop waits for a
\* silent client in SSL_accept; the signal met the holder of table_lock.
Stalled == <>[](wpc = "blocked") \/ <>[](mpc = "handshake") \/ <>[](table_lock # "nobody")



\* After SIGINT the process ends, unless the handler runs on top of the very
\* thread that holds the lock finish() takes: no other holder waits for a client.
ShutdownEnds ==
    handler # "nobody" ~> (status # "running" \/ table_lock = handler)

-----------------------------------------------------------------------------
\* What the three safety properties rest on.  The kernel: a connection is open
\* once, and not before it is accepted; a client sends what it has left.
Reading == {"recv", "blocked", "close"}
Closing == {"clear", "remove"}
Fresh(c) == c \notin armed /\ \A fd \in Fds : sock[fd] # c

KernelInv ==
    /\ \A c \in Conns : inbox[c] + left[c] <= MaxData
    /\ \A f, g \in Fds : sock[f] = sock[g] => f = g \/ sock[f] = None
    /\ \A c \in backlog : Fresh(c) /\ peer[c] # "away"
    /\ \A c \in Conns : peer[c] = "away" => Fresh(c)

\* The threads and the table, whatever races there were: a number that is being
\* accepted has no entry but the one the worker is closing, and the worker holds
\* the entry of another number.
ThreadInv ==
    /\ \A fd \in DOMAIN table : table[fd].fd \in {fd, None}
    /\ mpc = "erase" /\ mfd \in DOMAIN table => wfd = mfd /\ wpc \in Closing
    /\ mpc \in {"handshake", "insert"} => mfd \notin DOMAIN table
    /\ mpc = "insert" => sock[mfd] # None
    /\ wpc \in Reading /\ hpc # "exit" => wfd \in DOMAIN table
    /\ wpc \in Reading /\ handler # "worker" /\ mpc \in {"erase", "handshake", "insert"}
          => wfd # mfd
    /\ wpc \in Reading \cup Closing => wconn # None
    /\ hpc = "exit" => handler # "nobody" /\ (handler = "main" => DOMAIN table = {})

\* Without a race: what is being accepted is open and not in epoll yet, what is
\* being read is in epoll, what is being closed keeps its entry and its number.
QuietInv ==
    races = {} =>
        /\ mpc \in {"erase", "handshake", "insert", "register"} =>
              sock[mfd] # None /\ sock[mfd] \notin armed
        /\ mpc = "register" => mfd \in DOMAIN table
        /\ wpc \in Reading => wfd \in DOMAIN table /\ sock[wfd] \in armed
        /\ wpc \in Closing => wfd \in DOMAIN table /\ sock[wfd] = None
        /\ hpc = "exit" => wpc \in {"wait", "lookup"}

IInv ==
    /\ TypeOK /\ KernelInv /\ ThreadInv /\ QuietInv
    /\ NoLostWakeup /\ TableMatchesKernel /\ DiesOnlyOfRaces
=============================================================================
