--------------------------- MODULE TlsServerProofs ---------------------------
(***************************************************************************)
(* The safety properties of TlsServer, for every number of descriptors,    *)
(* connections, chunks and events.  IInv is inductive: one lemma per       *)
(* action, and the four properties are its conjuncts.                      *)
(***************************************************************************)
EXTENDS TlsServer, TLAPS

USE DEF IInv, TypeOK, kernel, main, queue, worker, signal

\* Closing a descriptor keeps what is said of the kernel: no connection
\* becomes open, or enters epoll, by it.
LEMMA CloseFdKeepsKernel ==
    ASSUME NEW fd \in Fds, KernelTypeOK, KernelInv, CloseFd(fd),
           UNCHANGED <<backlog, peer, inbox, left>>
    PROVE KernelTypeOK' /\ KernelInv'
BY ServerAssumption DEF KernelTypeOK, KernelInv, CloseFd, Fresh

\* Nor does it if an entry of the table is erased: its destructor closes the
\* number of the entry or nothing.
LEMMA EraseEntryKeepsKernel ==
    ASSUME NEW fd \in DOMAIN table, TypeOK, ThreadInv, KernelInv, EraseEntry(fd),
           UNCHANGED <<backlog, peer, inbox, left>>
    PROVE KernelTypeOK' /\ KernelInv'
<1>1. CASE table[fd].fd # None
  <2>1. table[fd].fd \in Fds /\ CloseFd(table[fd].fd)
    BY <1>1 DEF TypeOK, Entries, ThreadInv, EraseEntry
  <2> QED BY <2>1, CloseFdKeepsKernel DEF TypeOK
<1>2. CASE table[fd].fd = None
  BY <1>2 DEF EraseEntry, TypeOK, KernelTypeOK, KernelInv, Fresh
<1> QED BY <1>1, <1>2

\* Erasing an entry touches its own number at most.
LEMMA EraseEntryEffect ==
    ASSUME NEW fd \in DOMAIN table, TypeOK, ThreadInv, EraseEntry(fd)
    PROVE /\ DOMAIN table' = DOMAIN table \ {fd}
          /\ \A f \in DOMAIN table' : table'[f] = table[f]
          /\ \A f \in Fds \ {fd} : sock'[f] = sock[f]
          /\ sock'[fd] \in {sock[fd], None}
          /\ armed' \subseteq armed
BY DEF EraseEntry, CloseFd, KernelTypeOK, ThreadInv

\* What is said of the kernel holds as long as nothing happens to it.
LEMMA KernelFrame ==
    ASSUME IInv, UNCHANGED kernel
    PROVE KernelTypeOK' /\ KernelInv'
BY DEF KernelTypeOK, KernelInv, Fresh

\* What is said of the threads and the table holds as long as no descriptor
\* opens, closes or enters epoll and no thread but the client's moves.
LEMMA ThreadFrame ==
    ASSUME IInv, UNCHANGED <<sock, armed, mpc, mfd, table, worker, signal, races>>
    PROVE ThreadInv' /\ QuietInv' /\ TableMatchesKernel'
BY DEF ThreadInv, QuietInv, TableMatchesKernel, Reading, Closing

\* A client connects: its connection is fresh.
LEMMA ConnectStep ==
    ASSUME NEW c \in Conns, IInv, Connect(c), status = "running"
    PROVE IInv'
<1>1. KernelTypeOK' /\ KernelInv'
      BY ServerAssumption DEF Connect, KernelTypeOK, KernelInv, Fresh
<1>2. TypeOK'  BY <1>1 DEF Connect, ThreadTypeOK
<1>3. ThreadInv'  BY ThreadFrame DEF Connect
<1>4. QuietInv'  BY ThreadFrame DEF Connect
<1>5. NoLostWakeup' /\ TableMatchesKernel' /\ DiesOnlyOfRaces'
      BY ThreadFrame DEF Connect, NoLostWakeup, DiesOnlyOfRaces
<1> QED BY <1>1, <1>2, <1>3, <1>4, <1>5

\* A client sends: only epoll and the client's counters change.
LEMMA SendStep ==
    ASSUME NEW c \in Conns, IInv, Send(c), status = "running"
    PROVE IInv'
<1>1. /\ inbox[c] \in Nat /\ left[c] \in Nat /\ MaxData \in Nat
      /\ left[c] > 0 /\ inbox[c] + left[c] <= MaxData
      BY ServerAssumption DEF Send, KernelTypeOK, KernelInv
<1>2. /\ inbox[c] + 1 \in 0 .. MaxData /\ left[c] - 1 \in 0 .. MaxData
      /\ (inbox[c] + 1) + (left[c] - 1) <= MaxData
      BY <1>1
<1>3. KernelTypeOK'  BY <1>2 DEF Send, Arrives, KernelTypeOK
<1>4. KernelInv'
   <2>1. \A d \in Conns : inbox'[d] + left'[d] <= MaxData
      <3>1. TAKE d \in Conns
      <3>2. CASE d = c  BY <1>2, <3>2 DEF Send, KernelTypeOK
      <3>3. CASE d # c  BY <3>3 DEF Send, KernelTypeOK, KernelInv
      <3> QED BY <3>2, <3>3
   <2> QED BY <2>1 DEF Send, KernelInv, Fresh
<1>5. TypeOK'  BY <1>3 DEF Send, ThreadTypeOK
<1>6. ThreadInv'  BY ThreadFrame DEF Send
<1>7. QuietInv'  BY ThreadFrame DEF Send
<1>8. NoLostWakeup' /\ TableMatchesKernel' /\ DiesOnlyOfRaces'
      BY ThreadFrame DEF Send, NoLostWakeup, DiesOnlyOfRaces
<1> QED BY <1>3, <1>4, <1>5, <1>6, <1>7, <1>8

\* A client hangs up.
LEMMA HangupStep ==
    ASSUME NEW c \in Conns, IInv, Hangup(c), status = "running"
    PROVE IInv'
<1>1. CASE peer' = [peer EXCEPT ![c] = "eof"] /\ UNCHANGED inbox
   <2>1. KernelTypeOK' /\ KernelInv'
         BY <1>1, ServerAssumption DEF Hangup, Arrives, KernelTypeOK, KernelInv, Fresh
   <2>2. TypeOK'  BY <1>1, <2>1 DEF Hangup, ThreadTypeOK
   <2>3. ThreadInv'  BY <1>1, ThreadFrame DEF Hangup
   <2>4. QuietInv'  BY <1>1, ThreadFrame DEF Hangup
   <2>5. NoLostWakeup' /\ TableMatchesKernel' /\ DiesOnlyOfRaces'
         BY <1>1, ThreadFrame DEF Hangup, NoLostWakeup, DiesOnlyOfRaces
   <2> QED BY <2>1, <2>2, <2>3, <2>4, <2>5
<1>2. CASE peer' = [peer EXCEPT ![c] = "reset"] /\ inbox' = [inbox EXCEPT ![c] = 0]
   <2>1. KernelTypeOK' /\ KernelInv'
         BY <1>2, ServerAssumption DEF Hangup, Arrives, KernelTypeOK, KernelInv, Fresh
   <2>2. TypeOK'  BY <1>2, <2>1 DEF Hangup, ThreadTypeOK
   <2>3. ThreadInv'  BY <1>2, ThreadFrame DEF Hangup
   <2>4. QuietInv'  BY <1>2, ThreadFrame DEF Hangup
   <2>5. NoLostWakeup' /\ TableMatchesKernel' /\ DiesOnlyOfRaces'
         BY <1>2, ThreadFrame DEF Hangup, NoLostWakeup, DiesOnlyOfRaces
   <2> QED BY <2>1, <2>2, <2>3, <2>4, <2>5
<1> QED BY <1>1, <1>2 DEF Hangup

\* epoll_wait: edges become events.
LEMMA EpollWaitStep ==
    ASSUME IInv, EpollWait, handler # "main", status = "running"
    PROVE IInv'
<1>1. KernelTypeOK' /\ KernelInv'
      BY ServerAssumption DEF EpollWait, KernelTypeOK, KernelInv, Fresh
<1>2. TypeOK'  BY <1>1 DEF EpollWait, kSubset, ThreadTypeOK
<1>3. ThreadInv'  BY ThreadFrame DEF EpollWait
<1>4. QuietInv'  BY ThreadFrame DEF EpollWait
<1>5. NoLostWakeup' /\ TableMatchesKernel' /\ DiesOnlyOfRaces'
      BY ThreadFrame DEF EpollWait, NoLostWakeup, DiesOnlyOfRaces
<1> QED BY <1>1, <1>2, <1>3, <1>4, <1>5

\* accept: a free number that still has an entry is one the worker is closing.
LEMMA AcceptStep ==
    ASSUME IInv, Accept, handler # "main", status = "running"
    PROVE IInv'
<1>1. CASE status' = "refused" /\ UNCHANGED <<kernel, main, races>>
   <2>1. KernelTypeOK' /\ KernelInv'  BY <1>1, KernelFrame
   <2>2. TypeOK'  BY <1>1, <2>1 DEF Accept, ThreadTypeOK
   <2>3. ThreadInv'
         BY <1>1, ServerAssumption DEF Accept, ThreadInv
   <2>4. QuietInv'
         BY <1>1, ServerAssumption DEF Accept, QuietInv
   <2>5. NoLostWakeup' /\ TableMatchesKernel' /\ DiesOnlyOfRaces'
         BY <1>1, ServerAssumption DEF Accept, TableMatchesKernel, DiesOnlyOfRaces,
            NoLostWakeup
   <2> QED BY <2>1, <2>2, <2>3, <2>4, <2>5
<1>2. ASSUME NEW fd \in Fds, NEW d \in backlog, sock[fd] = None,
              sock' = [sock EXCEPT ![fd] = d], backlog' = backlog \ {d},
              mfd' = fd, mpc' = "erase", events' = events \ {None},
              races' = races \cup (IF wpc \in {"clear", "remove"} /\ wfd = fd
                                   THEN {"window"} ELSE {}),
              mpc = "batch",
              UNCHANGED <<peer, inbox, left, armed, ready, status, queue, table, worker, signal>>
       PROVE IInv'
   <2>1. fd \in DOMAIN table => wfd = fd /\ wpc \in Closing
         BY <1>2, ServerAssumption DEF Entries, TableMatchesKernel, Closing
   <2>2. KernelTypeOK' /\ KernelInv'
         BY <1>2, ServerAssumption DEF KernelTypeOK, KernelInv, Fresh
   <2>3. TypeOK'  BY <1>2, <2>2 DEF ThreadTypeOK
   <2>4. ThreadInv'
         BY <1>2, <2>1, ServerAssumption DEF ThreadInv, Reading, Closing, ThreadTypeOK,
            Threads
   <2>5. QuietInv'
         BY <1>2, ServerAssumption DEF KernelTypeOK, KernelInv, QuietInv, Fresh, Reading,
            Closing, Threads
   <2>6. NoLostWakeup' /\ TableMatchesKernel' /\ DiesOnlyOfRaces'
         BY <1>2, <2>1, ServerAssumption DEF NoLostWakeup, TableMatchesKernel,
            DiesOnlyOfRaces, KernelInv, Fresh, Closing
   <2> QED BY <2>2, <2>3, <2>4, <2>5, <2>6
<1> QED BY <1>1, <1>2 DEF Accept

\* addConnection, first block: an entry erased here is one the worker is closing.
LEMMA EraseStaleStep ==
    ASSUME IInv, EraseStale, handler # "main", status = "running"
    PROVE IInv'
<1>1. CASE mfd \in DOMAIN table
   <2>1. KernelTypeOK' /\ KernelInv'  BY <1>1, EraseEntryKeepsKernel DEF EraseStale
   <2>2. TypeOK'
         BY <1>1, <2>1 DEF EraseStale, EraseEntry, ThreadTypeOK
   <2>3. ThreadInv'
         BY <1>1, ServerAssumption DEF EraseStale, EraseEntry, ThreadInv, Reading, Closing
   <2>4. QuietInv'
         BY <1>1, ServerAssumption DEF EraseStale, ThreadInv, QuietInv
   <2>5. NoLostWakeup' /\ TableMatchesKernel' /\ DiesOnlyOfRaces'
         BY <1>1, ServerAssumption DEF EraseStale, EraseEntry, CloseFd, KernelTypeOK,
            ThreadInv, QuietInv, TableMatchesKernel, DiesOnlyOfRaces, NoLostWakeup
   <2> QED BY <2>1, <2>2, <2>3, <2>4, <2>5
<1>2. CASE mfd \notin DOMAIN table
   <2>1. KernelTypeOK' /\ KernelInv'
         BY <1>2, ServerAssumption DEF EraseStale, KernelTypeOK, KernelInv, Fresh
   <2>2. TypeOK'
         BY <1>2, <2>1 DEF EraseStale, ThreadTypeOK
   <2>3. ThreadInv'
         BY <1>2, ServerAssumption DEF EraseStale, ThreadInv
   <2>4. QuietInv'
         BY <1>2, ServerAssumption DEF EraseStale, QuietInv
   <2>5. NoLostWakeup' /\ TableMatchesKernel' /\ DiesOnlyOfRaces'
         BY <1>2, ServerAssumption DEF EraseStale, TableMatchesKernel, DiesOnlyOfRaces,
            NoLostWakeup
   <2> QED BY <2>1, <2>2, <2>3, <2>4, <2>5
<1> QED BY <1>1, <1>2

\* addConnection, last block.
LEMMA InsertStep ==
    ASSUME IInv, Insert, handler # "main", status = "running"
    PROVE IInv'
<1>1. KernelTypeOK' /\ KernelInv'  BY KernelFrame DEF Insert
<1>2. TypeOK'  BY <1>1 DEF Insert, Entries, KernelTypeOK, ThreadTypeOK, ThreadInv
<1>3. ThreadInv'
      BY ServerAssumption DEF Insert, ThreadInv
<1>4. QuietInv'
      BY ServerAssumption DEF Insert, QuietInv
<1>5. NoLostWakeup' /\ TableMatchesKernel' /\ DiesOnlyOfRaces'
      BY ServerAssumption DEF Insert, TableMatchesKernel, DiesOnlyOfRaces, NoLostWakeup
<1> QED BY <1>1, <1>2, <1>3, <1>4, <1>5

\* addto_epoll: without a race the socket is open.
LEMMA RegisterStep ==
    ASSUME IInv, Register, handler # "main", status = "running"
    PROVE IInv'
<1>1. KernelTypeOK' /\ KernelInv'
      BY ServerAssumption DEF Register, KernelTypeOK, KernelInv, Fresh, ThreadTypeOK
<1>2. TypeOK'  BY <1>1 DEF Register, ThreadTypeOK
<1>3. ThreadInv'
      BY ServerAssumption DEF Register, ThreadInv
<1>4. QuietInv'
      BY ServerAssumption DEF Register, QuietInv
<1>5. NoLostWakeup' /\ TableMatchesKernel' /\ DiesOnlyOfRaces'
      BY ServerAssumption DEF Register, KernelInv, QuietInv, TableMatchesKernel,
         DiesOnlyOfRaces, NoLostWakeup
<1> QED BY <1>1, <1>2, <1>3, <1>4, <1>5

\* A number enters the queue, the notify is to come.
LEMMA PushStep ==
    ASSUME IInv, Push, handler # "main", status = "running"
    PROVE IInv'
<1>1. KernelTypeOK' /\ KernelInv'  BY KernelFrame DEF Push
<1>2. TypeOK'  BY <1>1 DEF Push, ThreadTypeOK
<1>3. ThreadInv'
      BY ServerAssumption DEF Push, ThreadInv
<1>4. QuietInv'
      BY ServerAssumption DEF Push, QuietInv
<1>5. NoLostWakeup' /\ TableMatchesKernel' /\ DiesOnlyOfRaces'
      BY ServerAssumption DEF Push, TableMatchesKernel, DiesOnlyOfRaces, NoLostWakeup
<1> QED BY <1>1, <1>2, <1>3, <1>4, <1>5

\* The notify wakes the worker.
LEMMA NotifyStep ==
    ASSUME IInv, Notify, handler # "main", status = "running"
    PROVE IInv'
<1>1. KernelTypeOK' /\ KernelInv'  BY KernelFrame DEF Notify
<1>2. TypeOK'  BY <1>1 DEF Notify, ThreadTypeOK
<1>3. ThreadInv'
      BY ServerAssumption DEF Notify, ThreadInv
<1>4. QuietInv'
      BY ServerAssumption DEF Notify, QuietInv
<1>5. NoLostWakeup' /\ TableMatchesKernel' /\ DiesOnlyOfRaces'
      BY ServerAssumption DEF Notify, TableMatchesKernel, DiesOnlyOfRaces, NoLostWakeup
<1> QED BY <1>1, <1>2, <1>3, <1>4, <1>5

\* SSL_accept: the descriptor it closes has no entry.
LEMMA HandshakeStep ==
    ASSUME IInv, Handshake, handler # "main", status = "running"
    PROVE IInv'
<1>1. CASE /\ sock[mfd] # None /\ peer[sock[mfd]] = "up"
            /\ mpc' = "insert"
            /\ UNCHANGED <<sock, armed, ready>>
   <2>1. KernelTypeOK' /\ KernelInv'
         BY <1>1, ServerAssumption DEF Handshake, KernelTypeOK, KernelInv, Fresh
   <2>2. TypeOK'  BY <1>1, <2>1 DEF Handshake, ThreadTypeOK
   <2>3. ThreadInv'
         BY <1>1, ServerAssumption DEF Handshake, ThreadInv
   <2>4. QuietInv'
         BY <1>1, ServerAssumption DEF Handshake, QuietInv
   <2>5. NoLostWakeup' /\ TableMatchesKernel' /\ DiesOnlyOfRaces'
         BY <1>1, ServerAssumption DEF Handshake, TableMatchesKernel, DiesOnlyOfRaces,
            NoLostWakeup
   <2> QED BY <2>1, <2>2, <2>3, <2>4, <2>5
<1>2. CASE CloseFd(mfd) /\ mpc' = "batch"
   <2>1. /\ mpc = "handshake" /\ mfd' = mfd /\ events' = events /\ iqueue' = iqueue
         /\ asleep' = asleep /\ table' = table /\ wpc' = wpc /\ wfd' = wfd /\ wconn' = wconn
         /\ handler' = handler /\ hpc' = hpc /\ table_lock' = table_lock
         /\ status' = status /\ races' = races
         BY <1>2 DEF Handshake
   <2>2. mfd \in Fds  BY DEF ThreadTypeOK
   <2>3. KernelTypeOK' /\ KernelInv'  BY <1>2, <2>2, CloseFdKeepsKernel DEF Handshake
   <2>4. /\ sock'[mfd] = None /\ \A f \in Fds \ {mfd} : sock'[f] = sock[f]
         /\ armed' = armed \ {sock[mfd]} /\ mfd \notin DOMAIN table
         BY <1>2, <2>1, <2>2 DEF CloseFd, KernelTypeOK, ThreadInv
   <2>5. TypeOK'  BY <1>2, <2>1, <2>3 DEF ThreadTypeOK
   <2>6. ThreadInv'  BY <1>2, <2>1, <2>4 DEF ThreadInv
   <2>7. QuietInv'
      <3>1. races = {} /\ wpc \in Reading \cup Closing => wfd \in DOMAIN table /\ wfd \in Fds
            BY DEF QuietInv, ThreadTypeOK
      <3>2. wfd \in DOMAIN table => wfd # mfd  BY <2>4
      <3>3. races = {} => sock[mfd] \notin armed  BY <2>1 DEF QuietInv
      <3> QED BY <1>2, <2>1, <2>4, <3>1, <3>2, <3>3 DEF QuietInv
   <2>8. NoLostWakeup' /\ DiesOnlyOfRaces'  BY <2>1 DEF NoLostWakeup, DiesOnlyOfRaces
   <2>9. TableMatchesKernel'
      <3>1. None \notin armed  BY ServerAssumption DEF KernelTypeOK
      <3> QED BY <2>1, <2>4, <3>1 DEF TableMatchesKernel
   <2> QED BY <2>3, <2>5, <2>6, <2>7, <2>8, <2>9
<1> QED BY <1>1, <1>2 DEF Handshake

\* The worker sleeps on an empty queue only.
LEMMA SleepStep ==
    ASSUME IInv, Sleep, handler # "worker", status = "running"
    PROVE IInv'
<1>1. KernelTypeOK' /\ KernelInv'  BY KernelFrame DEF Sleep
<1>2. TypeOK'  BY <1>1 DEF Sleep, ThreadTypeOK
<1>3. ThreadInv'  BY ThreadFrame DEF Sleep
<1>4. QuietInv'  BY ThreadFrame DEF Sleep
<1>5. NoLostWakeup' /\ TableMatchesKernel' /\ DiesOnlyOfRaces'
      BY ThreadFrame DEF Sleep, NoLostWakeup, DiesOnlyOfRaces
<1> QED BY <1>1, <1>2, <1>3, <1>4, <1>5

\* The worker takes a number.
LEMMA PopStep ==
    ASSUME IInv, Pop, handler # "worker", status = "running"
    PROVE IInv'
<1>1. KernelTypeOK' /\ KernelInv'  BY KernelFrame DEF Pop
<1>2. TypeOK'  BY <1>1 DEF Pop, ThreadTypeOK
<1>3. ThreadInv'
      BY ServerAssumption DEF Pop, ThreadInv, Reading, Closing
<1>4. QuietInv'
      BY ServerAssumption DEF Pop, QuietInv, Reading, Closing
<1>5. NoLostWakeup' /\ TableMatchesKernel' /\ DiesOnlyOfRaces'
      BY ServerAssumption DEF Pop, TableMatchesKernel, DiesOnlyOfRaces, NoLostWakeup
<1> QED BY <1>1, <1>2, <1>3, <1>4, <1>5

\* getConnection: what it finds is in epoll, or the race is recorded.
LEMMA GetConnectionStep ==
    ASSUME IInv, GetConnection, handler # "worker", status = "running"
    PROVE IInv'
<1>1. /\ wpc = "lookup" /\ UNCHANGED kernel /\ sock' = sock /\ armed' = armed
      /\ events' = events /\ mpc' = mpc /\ mfd' = mfd /\ iqueue' = iqueue /\ asleep' = asleep
      /\ table' = table /\ wfd' = wfd /\ handler' = handler /\ hpc' = hpc
      /\ table_lock' = table_lock /\ status' = status
      BY DEF GetConnection
<1>2. KernelTypeOK' /\ KernelInv'  BY <1>1, KernelFrame
<1>3. NoLostWakeup'  BY <1>1 DEF NoLostWakeup
<1>4. DiesOnlyOfRaces'  BY <1>1 DEF DiesOnlyOfRaces
<1>5. CASE wpc' = "wait" /\ wconn' = wconn /\ races' = races
   <2>1. TypeOK'  BY <1>1, <1>2, <1>5 DEF ThreadTypeOK
   <2>2. ThreadInv'  BY <1>1, <1>5 DEF ThreadInv, Reading, Closing
   <2>3. QuietInv'  BY <1>1, <1>5 DEF QuietInv, Reading, Closing
   <2>4. TableMatchesKernel'  BY <1>1, <1>5 DEF TableMatchesKernel
   <2> QED BY <1>2, <1>3, <1>4, <2>1, <2>2, <2>3, <2>4
<1>6. CASE /\ wfd \in DOMAIN table /\ wconn' = table[wfd].conn /\ wpc' = "recv"
           /\ races' = races \cup (IF table[wfd].conn \in armed THEN {} ELSE {"early"})
   <2>1. table[wfd].conn \in Conns  BY <1>6 DEF Entries
   <2>2. races' \subseteq {"window", "early", "finish"} /\ races \subseteq races'
         BY <1>6
   <2>3. races' = {} => races = {} /\ table[wfd].conn \in armed
         BY <1>6
   <2>4. TypeOK'  BY <1>1, <1>2, <1>6, <2>1, <2>2 DEF ThreadTypeOK
   <2>5. ThreadInv'
      <3>1. hpc = "exit" /\ handler = "main" => DOMAIN table = {}  BY DEF ThreadInv
      <3>2. mpc = "erase" => mfd \notin DOMAIN table
            BY <1>1 DEF ThreadInv, Closing
      <3>3. mpc \in {"handshake", "insert"} => mfd \notin DOMAIN table
            BY DEF ThreadInv
      <3> QED BY <1>1, <1>6, <2>1, <3>1, <3>2, <3>3, ServerAssumption
              DEF ThreadInv, Reading, Closing
   <2>6. QuietInv'
      <3>1. table[wfd] = [conn |-> sock[wfd], fd |-> wfd]
            BY <1>1, <1>6 DEF TableMatchesKernel
      <3>2. races' = {} => sock[wfd] \in armed  BY <2>3, <3>1
      <3>3. hpc # "exit"
         <4>1. hpc = "exit" => handler \in Threads  BY DEF ThreadInv, ThreadTypeOK
         <4> QED BY <1>6, <4>1 DEF ThreadInv, Threads
      <3> QED BY <1>1, <1>6, <2>3, <3>2, <3>3 DEF QuietInv, Reading, Closing
   <2>7. TableMatchesKernel'  BY <1>1, <1>6, <2>3 DEF TableMatchesKernel
   <2> QED BY <1>2, <1>3, <1>4, <2>4, <2>5, <2>6, <2>7
<1> QED BY <1>5, <1>6 DEF GetConnection

\* recv.
LEMMA RecvStep ==
    ASSUME IInv, Recv, handler # "worker", status = "running"
    PROVE IInv'
<1>1. /\ wpc = "recv" /\ sock' = sock /\ armed' = armed /\ ready' = ready /\ backlog' = backlog
      /\ peer' = peer /\ left' = left /\ events' = events /\ mpc' = mpc /\ mfd' = mfd
      /\ iqueue' = iqueue /\ asleep' = asleep /\ table' = table /\ wfd' = wfd
      /\ wconn' = wconn /\ handler' = handler /\ hpc' = hpc /\ table_lock' = table_lock
      /\ status' = status /\ races' = races
      BY DEF Recv, recvFrame
<1>2. wpc' \in {"recv", "wait", "blocked", "close"}  BY <1>1 DEF Recv
<1>3. KernelTypeOK' /\ KernelInv'
   <2>1. CASE inbox' = inbox  BY <1>1, <2>1 DEF KernelTypeOK, KernelInv, Fresh
   <2>2. CASE inbox[wconn] > 0 /\ inbox' = [inbox EXCEPT ![wconn] = @ - 1]
      <3>1. wconn \in Conns  BY <1>1 DEF ThreadTypeOK, ThreadInv, Reading
      <3>2. inbox[wconn] \in 0 .. MaxData /\ left[wconn] \in 0 .. MaxData /\ MaxData \in Nat
            BY <3>1, ServerAssumption DEF KernelTypeOK
      <3>3. inbox[wconn] + left[wconn] <= MaxData  BY <3>1 DEF KernelInv
      <3>4. inbox[wconn] - 1 \in 0 .. MaxData /\ (inbox[wconn] - 1) + left[wconn] <= MaxData
            BY <2>2, <3>2, <3>3
      <3>5. inbox' \in [Conns -> 0 .. MaxData]  BY <2>2, <3>4 DEF KernelTypeOK
      <3>6. \A d \in Conns : inbox'[d] + left'[d] <= MaxData
         <4>1. TAKE d \in Conns
         <4>2. CASE d = wconn  BY <1>1, <2>2, <3>1, <3>4, <4>2 DEF KernelTypeOK
         <4>3. CASE d # wconn  BY <1>1, <2>2, <4>3 DEF KernelTypeOK, KernelInv
         <4> QED BY <4>2, <4>3
      <3>7. KernelTypeOK'  BY <1>1, <3>5 DEF KernelTypeOK
      <3> QED BY <1>1, <3>6, <3>7 DEF KernelInv, Fresh
   <2> QED BY <2>1, <2>2 DEF Recv
<1>4. TypeOK'  BY <1>1, <1>2, <1>3 DEF ThreadTypeOK
<1>5. ThreadInv'  BY <1>1, <1>2 DEF ThreadInv, Reading, Closing
<1>6. QuietInv'  BY <1>1, <1>2 DEF QuietInv, Reading, Closing
<1>7. NoLostWakeup' /\ DiesOnlyOfRaces'  BY <1>1 DEF NoLostWakeup, DiesOnlyOfRaces
<1>8. TableMatchesKernel'  BY <1>1 DEF TableMatchesKernel
<1> QED BY <1>3, <1>4, <1>5, <1>6, <1>7, <1>8

\* A blocked read goes on.
LEMMA UnblockStep ==
    ASSUME IInv, Unblock, handler # "worker", status = "running"
    PROVE IInv'
<1>1. KernelTypeOK' /\ KernelInv'
      BY ServerAssumption DEF Unblock, recvFrame, KernelTypeOK, KernelInv, Fresh
<1>2. TypeOK'  BY <1>1 DEF Unblock, recvFrame, ThreadTypeOK
<1>3. ThreadInv'
      BY ServerAssumption DEF Unblock, recvFrame, ThreadInv, Reading
<1>4. QuietInv'
      BY ServerAssumption DEF Unblock, recvFrame, QuietInv, Reading, Closing
<1>5. NoLostWakeup' /\ TableMatchesKernel' /\ DiesOnlyOfRaces'
      BY ServerAssumption DEF Unblock, recvFrame, TableMatchesKernel, DiesOnlyOfRaces,
         NoLostWakeup
<1> QED BY <1>1, <1>2, <1>3, <1>4, <1>5

\* close(): the number it frees is not the one being accepted.
LEMMA CloseConnectionStep ==
    ASSUME IInv, CloseConnection, handler # "worker", status = "running"
    PROVE IInv'
<1>1. /\ wpc = "close" /\ wpc' = "clear" /\ events' = events /\ mpc' = mpc /\ mfd' = mfd
      /\ iqueue' = iqueue /\ asleep' = asleep /\ table' = table /\ wfd' = wfd
      /\ wconn' = wconn /\ handler' = handler /\ hpc' = hpc /\ table_lock' = table_lock
      /\ status' = status /\ races' = races
      BY DEF CloseConnection
<1>2. wfd \in Fds  BY DEF ThreadTypeOK
<1>3. KernelTypeOK' /\ KernelInv'  BY <1>2, CloseFdKeepsKernel DEF CloseConnection
<1>4. /\ sock'[wfd] = None /\ \A f \in Fds \ {wfd} : sock'[f] = sock[f]
      /\ armed' = armed \ {sock[wfd]}
      BY <1>2 DEF CloseConnection, CloseFd, KernelTypeOK
<1>5. TypeOK'  BY <1>1, <1>3 DEF ThreadTypeOK
<1>6. mpc \in {"erase", "handshake", "insert"} => mfd \in Fds /\ mfd # wfd
      BY <1>1 DEF ThreadInv, Reading, ThreadTypeOK
<1>7. ThreadInv'  BY <1>1, <1>4, <1>6 DEF ThreadInv, Reading, Closing
<1>8. QuietInv'
   <2>1. races = {} /\ mpc = "register" => mfd \in Fds /\ mfd # wfd
         BY <1>1 DEF QuietInv, Reading, ThreadTypeOK
   <2> QED BY <1>1, <1>4, <1>6, <2>1 DEF QuietInv, Reading, Closing
<1>9. NoLostWakeup' /\ DiesOnlyOfRaces'  BY <1>1 DEF NoLostWakeup, DiesOnlyOfRaces
<1>10. TableMatchesKernel'
   <2>1. None \notin armed  BY ServerAssumption DEF KernelTypeOK
   <2> QED BY <1>1, <1>4, <2>1 DEF TableMatchesKernel
<1> QED BY <1>3, <1>5, <1>7, <1>8, <1>9, <1>10

\* fd_ = -1: without a race the entry is the worker's own.
LEMMA ClearFdStep ==
    ASSUME IInv, ClearFd, handler # "worker", status = "running"
    PROVE IInv'
<1>1. CASE wfd \in DOMAIN table /\ table' = [table EXCEPT ![wfd].fd = None]
   <2>1. /\ DOMAIN table' = DOMAIN table
         /\ \A fd \in DOMAIN table \ {wfd} : table'[fd] = table[fd]
         /\ table'[wfd] = [conn |-> table[wfd].conn, fd |-> None]
         BY <1>1 DEF Entries
   <2>2. KernelTypeOK' /\ KernelInv'  BY <1>1, KernelFrame DEF ClearFd
   <2>3. TypeOK'  BY <1>1, <2>2 DEF ClearFd, Entries, ThreadTypeOK
   <2>4. ThreadInv'
         BY <1>1, ServerAssumption DEF ClearFd, ThreadInv, Reading, Closing
   <2>5. QuietInv'
         BY <1>1, ServerAssumption DEF ClearFd, QuietInv, Reading, Closing
   <2>6. NoLostWakeup' /\ TableMatchesKernel' /\ DiesOnlyOfRaces'
         BY <1>1, ServerAssumption DEF ClearFd, TableMatchesKernel, DiesOnlyOfRaces,
            NoLostWakeup
   <2> QED BY <2>2, <2>3, <2>4, <2>5, <2>6
<1>2. CASE UNCHANGED table /\ ~(wfd \in DOMAIN table /\ table[wfd].conn = wconn)
   <2>1. KernelTypeOK' /\ KernelInv'  BY <1>2, KernelFrame DEF ClearFd
   <2>2. TypeOK'  BY <1>2, <2>1 DEF ClearFd, ThreadTypeOK
   <2>3. ThreadInv'
         BY <1>2, ServerAssumption DEF ClearFd, ThreadInv, Reading, Closing
   <2>4. QuietInv'
         BY <1>2, ServerAssumption DEF ClearFd, QuietInv, Reading, Closing
   <2>5. NoLostWakeup' /\ TableMatchesKernel' /\ DiesOnlyOfRaces'
         BY <1>2, ServerAssumption DEF ClearFd, TableMatchesKernel, DiesOnlyOfRaces,
            NoLostWakeup
   <2> QED BY <2>1, <2>2, <2>3, <2>4, <2>5
<1> QED BY <1>1, <1>2 DEF ClearFd

\* removeConnection: without a race the entry is there, and closes nothing.
LEMMA RemoveConnectionStep ==
    ASSUME IInv, RemoveConnection, handler # "worker", status = "running"
    PROVE IInv'
<1>1. CASE wfd \in DOMAIN table
   <2>1. /\ DOMAIN table' = DOMAIN table \ {wfd}
         /\ \A f \in DOMAIN table' : table'[f] = table[f]
         /\ \A f \in Fds \ {wfd} : sock'[f] = sock[f]
         /\ sock'[wfd] \in {sock[wfd], None}
         /\ armed' \subseteq armed
         BY <1>1, EraseEntryEffect DEF RemoveConnection
   <2>2. KernelTypeOK' /\ KernelInv'  BY <1>1, EraseEntryKeepsKernel DEF RemoveConnection
   <2>3. TypeOK'
         BY <1>1, <2>2 DEF RemoveConnection, EraseEntry, ThreadTypeOK
   <2>4. ThreadInv'
         BY <1>1, <2>1, ServerAssumption DEF RemoveConnection, ThreadTypeOK, ThreadInv,
            Reading, Closing
   <2>5. QuietInv'
         BY <1>1, <2>1, <2>2, ServerAssumption DEF RemoveConnection, ThreadTypeOK, QuietInv,
            Reading, Closing
   <2>6. NoLostWakeup'
         BY <1>1 DEF RemoveConnection, NoLostWakeup
   <2>7. TableMatchesKernel'
      <3>1. wpc = "remove" /\ wfd \in Fds /\ DOMAIN table \subseteq Fds /\ races' = races
            BY DEF RemoveConnection, ThreadTypeOK
      <3>2. \A f \in DOMAIN table' : table'[f] = [conn |-> sock'[f], fd |-> f]
            BY <2>1, <3>1 DEF TableMatchesKernel
      <3>3. None \notin armed
            BY ServerAssumption DEF KernelTypeOK
      <3>4. races = {} => sock[wfd] = None
            BY <3>1 DEF QuietInv, Closing
      <3>5. races = {} => \A f \in Fds : sock'[f] \in armed' => f \in DOMAIN table'
            BY <2>1, <3>3, <3>4 DEF TableMatchesKernel
      <3> QED BY <3>1, <3>2, <3>5 DEF TableMatchesKernel
   <2>8. DiesOnlyOfRaces'
         BY <1>1 DEF RemoveConnection, DiesOnlyOfRaces
   <2> QED BY <2>2, <2>3, <2>4, <2>5, <2>6, <2>7, <2>8
<1>2. CASE wfd \notin DOMAIN table
   <2>1. KernelTypeOK' /\ KernelInv'
      <3>1. UNCHANGED kernel
            BY <1>2 DEF RemoveConnection, kernel
      <3> QED BY <3>1, KernelFrame
   <2>2. TypeOK'
         BY <1>2, <2>1 DEF RemoveConnection, ThreadTypeOK
   <2>3. ThreadInv'
         BY <1>2, ServerAssumption DEF RemoveConnection, ThreadInv
   <2>4. QuietInv'
         BY <1>2, ServerAssumption DEF RemoveConnection, QuietInv
   <2>5. NoLostWakeup' /\ TableMatchesKernel' /\ DiesOnlyOfRaces'
         BY <1>2, ServerAssumption DEF RemoveConnection, QuietInv, TableMatchesKernel,
            DiesOnlyOfRaces, NoLostWakeup, Closing
   <2> QED BY <2>1, <2>2, <2>3, <2>4, <2>5
<1> QED BY <1>1, <1>2

\* An entry freed under the worker: a race was recorded.
LEMMA UseAfterFinishStep ==
    ASSUME IInv, UseAfterFinish, handler # "worker", status = "running"
    PROVE IInv'
<1>1. KernelTypeOK' /\ KernelInv'  BY KernelFrame DEF UseAfterFinish
<1>2. TypeOK'  BY <1>1 DEF UseAfterFinish, ThreadTypeOK
<1>3. ThreadInv'
      BY ServerAssumption DEF UseAfterFinish, ThreadTypeOK, ThreadInv, Reading, Closing,
         Threads
<1>4. QuietInv'
      BY ServerAssumption DEF UseAfterFinish, QuietInv
<1>5. NoLostWakeup' /\ TableMatchesKernel' /\ DiesOnlyOfRaces'
      BY ServerAssumption DEF UseAfterFinish, ThreadTypeOK, ThreadInv, QuietInv,
         TableMatchesKernel, DiesOnlyOfRaces, NoLostWakeup, Threads
<1> QED BY <1>1, <1>2, <1>3, <1>4, <1>5

\* finish(): the table is empty, a thread with an entry in its hands is a race.
LEMMA FinishStep ==
    ASSUME IInv, Finish, status = "running"
    PROVE IInv'
<1>1. /\ hpc = "lock" /\ hpc' = "exit" /\ handler # "nobody" /\ DOMAIN table' = {}
      /\ backlog' = backlog /\ peer' = peer /\ inbox' = inbox /\ left' = left
      /\ events' = events /\ mpc' = mpc /\ mfd' = mfd /\ iqueue' = iqueue /\ asleep' = asleep
      /\ wpc' = wpc /\ wfd' = wfd /\ wconn' = wconn /\ handler' = handler
      /\ table_lock' = table_lock /\ status' = status
      BY DEF Finish
<1>2. /\ races' \subseteq {"window", "early", "finish"} /\ races \subseteq races'
      /\ races' = {} => /\ wpc \notin {"recv", "blocked", "close", "clear", "remove"}
                        /\ mpc # "register"
      BY DEF Finish
<1>3. /\ \A f \in Fds : sock'[f] \in {sock[f], None}
      /\ \A f \in Fds \ DOMAIN table : sock'[f] = sock[f]
      /\ sock' \in [Fds -> Conns \cup {None}]
      BY SMTT(30) DEF Finish, ThreadInv, KernelTypeOK
<1>4. /\ armed' \subseteq armed /\ ready' \subseteq armed'
      /\ \A f \in DOMAIN table : table[f].fd # None => sock[table[f].fd] \notin armed'
      BY DEF Finish, KernelTypeOK
<1>5. KernelTypeOK'  BY <1>1, <1>3, <1>4 DEF KernelTypeOK
<1>6. KernelInv'
   <2>1. \A c \in Conns : Fresh(c) => Fresh(c)'
         BY <1>3, <1>4, ServerAssumption DEF Fresh
   <2>2. \A f, g \in Fds : sock'[f] = sock'[g] => f = g \/ sock'[f] = None
         BY <1>3 DEF KernelInv
   <2>3. backlog \subseteq Conns  BY DEF KernelTypeOK
   <2> QED BY <1>1, <2>1, <2>2, <2>3 DEF KernelInv
<1>7. TypeOK'  BY <1>1, <1>2, <1>5 DEF ThreadTypeOK
<1>8. ThreadInv'
   <2>1. mpc = "insert" => mfd \in Fds \ DOMAIN table  BY DEF ThreadInv, ThreadTypeOK
   <2> QED BY <1>1, <1>3, <2>1 DEF ThreadInv
<1>9. QuietInv'
   <2>1. SUFFICES ASSUME races' = {} PROVE QuietInv'  BY DEF QuietInv
   <2>2. /\ races = {} /\ mpc # "register" /\ wpc \in {"wait", "lookup"}
         BY <1>2, <2>1 DEF ThreadTypeOK
   <2>3. mpc \in {"erase", "handshake", "insert"} => mfd \in Fds \ DOMAIN table
         BY <2>2 DEF ThreadInv, ThreadTypeOK, Closing
   <2>4. mpc \in {"erase", "handshake", "insert"} => sock[mfd] # None /\ sock[mfd] \notin armed
         BY <2>2 DEF QuietInv
   <2> QED BY <1>1, <1>3, <1>4, <2>2, <2>3, <2>4 DEF QuietInv, Reading, Closing
<1>10. NoLostWakeup' /\ DiesOnlyOfRaces'  BY <1>1 DEF NoLostWakeup, DiesOnlyOfRaces
<1>11. TableMatchesKernel'
   <2>1. ASSUME races' = {}, NEW f \in Fds, sock'[f] \in armed'
         PROVE  FALSE
      <3>1. races = {} /\ wpc \in {"wait", "lookup"}  BY <1>2, <2>1 DEF ThreadTypeOK
      <3>2. None \notin armed  BY ServerAssumption DEF KernelTypeOK
      <3>3. sock'[f] = sock[f] /\ sock[f] \in armed  BY <1>3, <1>4, <2>1, <3>2
      <3>4. f \in DOMAIN table  BY <3>1, <3>3 DEF TableMatchesKernel
      <3>5. table[f].fd = f  BY <3>1, <3>4 DEF TableMatchesKernel
      <3> QED BY <1>4, <2>1, <3>3, <3>4, <3>5, ServerAssumption
   <2> QED BY <1>1, <2>1 DEF TableMatchesKernel
<1> QED BY <1>5, <1>6, <1>7, <1>8, <1>9, <1>10, <1>11

\* exit(0).
LEMMA ExitStep ==
    ASSUME IInv, Exit, status = "running"
    PROVE IInv'
<1>1. KernelTypeOK' /\ KernelInv'  BY KernelFrame DEF Exit
<1>2. TypeOK'  BY <1>1 DEF Exit, ThreadTypeOK
<1>3. ThreadInv'  BY ThreadFrame DEF Exit
<1>4. QuietInv'  BY ThreadFrame DEF Exit
<1>5. NoLostWakeup' /\ TableMatchesKernel' /\ DiesOnlyOfRaces'
      BY ThreadFrame DEF Exit, NoLostWakeup, DiesOnlyOfRaces
<1> QED BY <1>1, <1>2, <1>3, <1>4, <1>5

\* SIGINT stops a thread where it is.
LEMMA InterruptStep ==
    ASSUME NEW th \in Threads, IInv, Interrupt(th), status = "running"
    PROVE IInv'
<1>1. KernelTypeOK' /\ KernelInv'  BY KernelFrame DEF Interrupt
<1>2. TypeOK'  BY <1>1 DEF Interrupt, ThreadTypeOK
<1>3. ThreadInv'
      BY ServerAssumption DEF Interrupt, ThreadInv
<1>4. QuietInv'
      BY ServerAssumption DEF Interrupt, QuietInv
<1>5. NoLostWakeup' /\ TableMatchesKernel' /\ DiesOnlyOfRaces'
      BY ServerAssumption DEF Interrupt, TableMatchesKernel, DiesOnlyOfRaces, NoLostWakeup
<1> QED BY <1>1, <1>2, <1>3, <1>4, <1>5

\* The server starts with no connection, an empty table and no thread at work.
LEMMA InitInv ==
    Init => IInv
<1> SUFFICES ASSUME Init PROVE IInv  OBVIOUS
<1>1. mfd \in Fds  BY ServerAssumption DEF Init
<1>2. TypeOK
  <2>1. KernelTypeOK  BY ServerAssumption DEF Init, KernelTypeOK
  <2>2. ThreadTypeOK  BY <1>1 DEF Init, ThreadTypeOK, Threads
  <2>3. iqueue \in Seq(Fds)  BY DEF Init
  <2>4. asleep \in BOOLEAN  BY DEF Init
  <2> QED BY <2>1, <2>2, <2>3, <2>4 DEF Init
<1>3. KernelInv
  <2>1. \A c \in Conns : Fresh(c)  BY ServerAssumption DEF Init, Fresh
  <2> QED BY <2>1, ServerAssumption DEF Init, KernelInv
<1>4. ThreadInv /\ QuietInv
      BY DEF Init, ThreadInv, QuietInv, Reading, Closing
<1>5. NoLostWakeup /\ TableMatchesKernel /\ DiesOnlyOfRaces
      BY DEF Init, NoLostWakeup, TableMatchesKernel, DiesOnlyOfRaces
<1> QED BY <1>2, <1>3, <1>4, <1>5 DEF IInv

\* Every step of the clients, the two threads and the signal handler keeps the
\* invariant.
LEMMA NextInv ==
    IInv /\ [Next]_vars => IInv'
<1> SUFFICES ASSUME IInv, [Next]_vars PROVE IInv'  OBVIOUS
<1>1. CASE UNCHANGED vars
  <2>1. KernelTypeOK' /\ KernelInv'  BY <1>1, KernelFrame DEF vars
  <2>2. ThreadTypeOK'  BY <1>1 DEF vars, ThreadTypeOK
  <2>3. table' = table /\ iqueue' = iqueue /\ asleep' = asleep /\ status' = status /\ races' = races
        BY <1>1 DEF vars
  <2>4. TypeOK'  BY <2>1, <2>2, <2>3
  <2>5. ThreadInv' /\ QuietInv' /\ TableMatchesKernel'  BY <1>1, ThreadFrame DEF vars
  <2> QED BY <1>1, <2>1, <2>4, <2>5 DEF vars, NoLostWakeup, DiesOnlyOfRaces
<1>2. CASE status = "running" /\ Client
  BY <1>2, ConnectStep, SendStep, HangupStep DEF Client
<1>3. CASE status = "running" /\ Main
  BY <1>3, EpollWaitStep, AcceptStep, EraseStaleStep, HandshakeStep, InsertStep,
     RegisterStep, PushStep, NotifyStep DEF Main, Handling
<1>4. CASE status = "running" /\ Worker
  BY <1>4, SleepStep, PopStep, GetConnectionStep, RecvStep, UnblockStep,
     CloseConnectionStep, ClearFdStep, RemoveConnectionStep, UseAfterFinishStep DEF Worker
<1>5. CASE status = "running" /\ (Finish \/ Exit \/ \E th \in Threads : Interrupt(th))
  BY <1>5, FinishStep, ExitStep, InterruptStep
<1> QED BY <1>1, <1>2, <1>3, <1>4, <1>5 DEF Next

\* The inductive invariant of the server holds in every reachable state.
THEOREM Invariance == Spec => []IInv
BY InitInv, NextInv, PTL DEF Spec

\* Every variable of the event loop, the enclave thread, the table and the
\* kernel keeps its type.
THEOREM ServerTypeCorrect == Spec => []TypeOK
<1>1. IInv => TypeOK  BY DEF IInv
<1> QED BY <1>1, Invariance, PTL

\* No wakeup is lost between the push under iqmutex, the notify after it and
\* the predicate of iqcv.wait, with any number of events and connections.
THEOREM WakeupsAreNotLost == Spec => []NoLostWakeup
<1>1. IInv => NoLostWakeup  BY DEF IInv
<1> QED BY <1>1, Invariance, PTL

\* connection_table speaks for the sockets behind its numbers however the two
\* threads, the signal handler and the kernel's reuse of numbers interleave.
THEOREM TableSpeaksForKernel == Spec => []TableMatchesKernel
<1>1. IInv => TableMatchesKernel  BY DEF IInv
<1> QED BY <1>1, Invariance, PTL

\* addto_epoll never exits and removeConnection never throws into enclave_thread
\* unless a number was reused, or an entry freed, under a thread that held it.
THEOREM OnlyRacesKill == Spec => []DiesOnlyOfRaces
<1>1. IInv => DiesOnlyOfRaces  BY DEF IInv
<1> QED BY <1>1, Invariance, PTL
=============================================================================
