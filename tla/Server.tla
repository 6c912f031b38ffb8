------------------------------- MODULE Server -------------------------------
(***************************************************************************)
(* The threads that share the session manager (src/src/connection/         *)
(* server.cpp, src/src/system/user_manager.cpp): the accept loop, one      *)
(* handler for each connection, and the heartbeat check.                   *)
(*                                                                         *)
(* A step is one access to what threads share: a call of the session       *)
(* manager, a database statement, a use of a session through a pointer, a  *)
(* system call on a socket, an update of currentConnections.  Between the  *)
(* lookup of a session and its use every other thread may run.             *)
(***************************************************************************)
EXTENDS SessionManager, Integers, Sequences

CONSTANTS
    Friends,        \* the friendships, a set of two-element sets of users
    MaxConnections, \* maxConnections
    PoolSize,       \* the number of worker threads
    Timeouts,       \* whether clients may stay silent for ten minutes
    Malformed,      \* whether clients send requests whose fields have a wrong type
    DbMayFail       \* whether a database statement may fail

ASSUME ServerAssumption ==
    /\ MaxConnections \in Nat
    /\ PoolSize \in Nat
    /\ {Timeouts, Malformed, DbMayFail} \subseteq BOOLEAN

Heartbeat == "heartbeat"    \* the thread of HeartbeatCheckThread

ASSUME HeartbeatAssumption == Heartbeat \notin Conns

Threads == Conns \cup {Heartbeat}   \* the handler of connection c is thread c

VARIABLES
    fd,         \* clientSocket of each connection
    fdOwner,    \* the kernel's table: fd |-> the connection it refers to
    shut,       \* the connection was shut down with SHUT_RDWR
    peer,       \* the client's end: "open", "closed", or "reset": it answered with RST
    unread,     \* a request arrived before that and was not read
    currentConnections,
    taskQueue,  \* connections submitted to the pool and not taken by a worker
    isOnline,   \* column users.is_online
    up,         \* the process is alive
    pc,         \* where each thread is
    local,      \* the local variables of each thread
    scan        \* the sessions the heartbeat thread has still to look at

socketVars == <<fd, fdOwner, shut, peer, unread>>
tableVars == <<sessionVars, socketVars, currentConnections, taskQueue, isOnline>>
vars == <<tableVars, up, pc, local, scan>>

\* ptr: session or oldSession, a raw pointer; friendPtr: friendSession; name: the user
\* name the thread works for; sock: oldSocket, or socket in the heartbeat thread;
\* todo: the friends that are online and still to be notified.
Locals == [ptr : Conns \cup {NoConn}, friendPtr : Conns \cup {NoConn}, name : Users \cup {NoUser},
           sock : Fds \cup {NoFd}, todo : SUBSET Users]
NoLocals == [ptr |-> NoConn, friendPtr |-> NoConn, name |-> NoUser, sock |-> NoFd, todo |-> {}]

Init ==
    /\ SessionInit
    /\ fd = [c \in Conns |-> NoFd]
    /\ fdOwner = [f \in Fds |-> NoConn]
    /\ shut = [c \in Conns |-> FALSE]
    /\ peer = [c \in Conns |-> "open"]
    /\ unread = [c \in Conns |-> FALSE]
    /\ currentConnections = 0
    /\ taskQueue = <<>>
    /\ isOnline = [u \in Users |-> FALSE]
    /\ up = TRUE
    /\ pc = [t \in Threads |-> IF t = Heartbeat THEN "sleep" ELSE "none"]
    /\ local = [t \in Threads |-> NoLocals]
    /\ scan = {}

-----------------------------------------------------------------------------
(* Building blocks *)

\* Thread t goes from one place to another while the process is alive.
Goto(t, from, to) ==
    /\ up
    /\ pc[t] = from
    /\ pc' = [pc EXCEPT ![t] = to]

\* A database update of is_online; its failure is logged and ignored.
UpdateOnlineStatus(u, value) ==
    \/ isOnline' = [v \in Users |-> IF v = u THEN value ELSE isOnline[v]]
    \/ DbMayFail /\ UNCHANGED isOnline

\* send() on f: on a socket that was shut down, or that the client has reset, it
\* raises SIGPIPE, which nobody ignores or catches (main.cpp:27-28), and the process
\* dies; what is sent to a client that closed its end comes back as a reset; on a
\* closed fd the call just fails.
Send(f) ==
    LET c == fdOwner[f]
    IN  /\ up' = (c = NoConn \/ (~shut[c] /\ peer[c] # "reset"))
        /\ \/ c # NoConn /\ peer[c] = "closed" /\ peer' = [peer EXCEPT ![c] = "reset"]
           \/ UNCHANGED peer

\* shutdown(f, SHUT_RDWR): what arrived before can still be read.
Shutdown(f) ==
    LET c == fdOwner[f]
    IN  IF c = NoConn \/ shut[c] THEN UNCHANGED <<shut, unread>>
        ELSE /\ shut' = [shut EXCEPT ![c] = TRUE]
             /\ IF peer[c] # "open" THEN UNCHANGED unread
                ELSE \E b \in BOOLEAN : unread' = [unread EXCEPT ![c] = b]

\* close(f): the kernel forgets the descriptor and the connection behind it.
Close(f) ==
    LET c == fdOwner[f]
    IN  /\ fdOwner' = [fdOwner EXCEPT ![f] = NoConn]
        /\ shut' = [d \in Conns |-> d # c /\ shut[d]]
        /\ peer' = [d \in Conns |-> IF d = c THEN "open" ELSE peer[d]]
        /\ unread' = [d \in Conns |-> d # c /\ unread[d]]

\* The friends of u the database shows as online (UserDAO::GetFriendsOfUser).
OnlineFriends(u) == {g \in Users : {u, g} \in Friends /\ isOnline[g]}

-----------------------------------------------------------------------------
(* AcceptConnections *)

\* Slip: one connection too many.
OverLimit == currentConnections > MaxConnections

\* The next connection would pass the limit.
AtLimit == currentConnections >= MaxConnections

\* accept() gives the new connection the lowest free descriptor; over the limit the
\* client gets 5003 and the socket is closed again.
Accept(c) ==
    /\ up
    /\ pc[c] = "none"
    /\ \A d \in Conns : pc[d] # "accepted"
    /\ \E f \in Fds :
        /\ fdOwner[f] = NoConn
        /\ \A g \in Fds : g < f => fdOwner[g] # NoConn
        /\ \/ /\ AtLimit
              /\ pc' = [pc EXCEPT ![c] = "refused"]
              /\ UNCHANGED <<fd, fdOwner>>
           \/ /\ ~AtLimit
              /\ pc' = [pc EXCEPT ![c] = "accepted"]
              /\ fd' = [fd EXCEPT ![c] = f]
              /\ fdOwner' = [fdOwner EXCEPT ![f] = c]
    /\ UNCHANGED <<sessionVars, shut, peer, unread, currentConnections, taskQueue, isOnline,
                   up, local, scan>>

\* Slip: the connection is not counted.
RegisterUncounted(c) ==
    /\ Goto(c, "accepted", "queued")
    /\ AddSession(fd[c], c)
    /\ taskQueue' = Append(taskQueue, c)
    /\ UNCHANGED <<socketVars, currentConnections, isOnline, up, local, scan>>

Register(c) ==
    /\ Goto(c, "accepted", "queued")
    /\ AddSession(fd[c], c)
    /\ currentConnections' = currentConnections + 1
    /\ taskQueue' = Append(taskQueue, c)
    /\ UNCHANGED <<socketVars, isOnline, up, local, scan>>

-----------------------------------------------------------------------------
(* HandleClient: the request loop *)

\* Where a worker is not serving connection c.
NotServing == {"none", "refused", "accepted", "queued", "done"}

\* A worker takes the oldest task, as ThreadPool promises.
StartTask(c) ==
    /\ taskQueue # <<>> /\ c = Head(taskQueue)
    /\ Cardinality({d \in Conns : pc[d] \notin NotServing}) < PoolSize
    /\ Goto(c, "queued", "recv")
    /\ taskQueue' = Tail(taskQueue)
    /\ UNCHANGED <<sessionVars, socketVars, currentConnections, isOnline, up, local, scan>>

\* recv() returns a request and DispatchRequest parses it and looks its session up;
\* or it is no JSON and the answer is 4001; or jsoncpp throws over a type.
Receive(c) ==
    LET d == fdOwner[fd[c]]
    IN  /\ \/ Goto(c, "recv", "touch") /\ local' = [local EXCEPT ![c].ptr = GetSession(fd[c])]
           \/ Goto(c, "recv", "reply") /\ UNCHANGED local
           \/ Malformed /\ Goto(c, "recv", "throw") /\ UNCHANGED local
        /\ d # NoConn
        /\ shut[d] \/ peer[d] # "open" => unread[d]
        /\ unread' = [unread EXCEPT ![d] = FALSE]
        /\ UNCHANGED <<sessionVars, fd, fdOwner, shut, peer, currentConnections, taskQueue,
                       isOnline, up, scan>>

\* Neither end of the socket will send any more.
Gone(f) == LET d == fdOwner[f] IN d = NoConn \/ shut[d] \/ peer[d] # "open"

\* Slip: the loop goes on after empty data.
ReceiveAgain(c) ==
    /\ Goto(c, "recv", "recv")
    /\ UNCHANGED <<tableVars, up, local, scan>>

\* recv() returns 0 or an error, or the length in the header is out of bounds.
ReceiveNothing(c) ==
    /\ Goto(c, "recv", "find")
    /\ UNCHANGED <<tableVars, up, local, scan>>

\* UpdateHeartbeat through the pointer, then the second GetSession; a number of a
\* wrong type (count) throws between the two.
Touch(c) ==
    /\ \/ Goto(c, "touch", "resolve") /\ local' = [local EXCEPT ![c].ptr = GetSession(fd[c])]
       \/ Malformed /\ Goto(c, "touch", "throw") /\ local' = [local EXCEPT ![c].ptr = NoConn]
    /\ \/ local[c].ptr = NoConn /\ UNCHANGED expired
       \/ local[c].ptr # NoConn /\ \E o \in Seen(local[c].ptr) : UpdateHeartbeat(o)
    /\ UNCHANGED <<cliSessionMap, usernameToSocket, object, username, socketVars, currentConnections,
                   taskQueue, isOnline, up, scan>>

\* The request acts for the user of the session when that has one, whatever name it
\* carries.  Requests other than a valid LOGIN change nothing here.
Resolve(c) ==
    \/ /\ Goto(c, "resolve", "reply")
       /\ local' = [local EXCEPT ![c].ptr = NoConn]
       /\ UNCHANGED <<tableVars, up, scan>>
    \/ /\ Goto(c, "resolve", "login")
       /\ \E u \in Users :
            /\ local[c].ptr # NoConn => \E o \in Seen(local[c].ptr) : username[o] \in {u, NoUser}
            /\ local' = [local EXCEPT ![c].ptr = NoConn, ![c].name = u]
       /\ UNCHANGED <<tableVars, up, scan>>

Reply(c) ==
    /\ Goto(c, "reply", "recv")
    /\ Send(fd[c])
    /\ local' = [local EXCEPT ![c] = NoLocals]
    /\ UNCHANGED <<sessionVars, fd, fdOwner, shut, unread, currentConnections, taskQueue, isOnline, scan>>

-----------------------------------------------------------------------------
(* UserManager::HandleLogin *)

ReadOnlineStatus(c) ==
    /\ \/ Goto(c, "login", "forceOffline") /\ isOnline[local[c].name]
       \/ Goto(c, "login", "setOnline") /\ (~isOnline[local[c].name] \/ DbMayFail)
    /\ UNCHANGED <<tableVars, up, local, scan>>

ForceOffline(c) ==
    /\ Goto(c, "forceOffline", "findOld")
    /\ UpdateOnlineStatus(local[c].name, FALSE)
    /\ UNCHANGED <<sessionVars, socketVars, currentConnections, taskQueue, up, local, scan>>

FindOldSession(c) ==
    LET old == GetSessionByUsername(local[c].name)
    IN  /\ \/ Goto(c, "findOld", "kick") /\ old # NoConn
           \/ Goto(c, "findOld", "setOnline") /\ old = NoConn
        /\ local' = [local EXCEPT ![c].ptr = old]
        /\ UNCHANGED <<tableVars, up, scan>>

\* KICKED to the old socket.
SendKicked(c) ==
    /\ Goto(c, "kick", "clearOld")
    /\ \E o \in Seen(local[c].ptr) :
        /\ local' = [local EXCEPT ![c].sock = fd[o]]
        /\ Send(fd[o])
    /\ UNCHANGED <<sessionVars, fd, fdOwner, shut, unread, currentConnections, taskQueue, isOnline, scan>>

ClearOldUsername(c) ==
    /\ Goto(c, "clearOld", "shutOld")
    /\ \E o \in Seen(local[c].ptr) : SetUsername(o, NoUser)
    /\ local' = [local EXCEPT ![c].ptr = NoConn]
    /\ UNCHANGED <<socketVars, currentConnections, taskQueue, isOnline, up, scan>>

\* Slip: the socket of the old connection is closed, not shut down.
CloseOld(c) ==
    /\ Goto(c, "shutOld", "setOnline")
    /\ Close(local[c].sock)
    /\ local' = [local EXCEPT ![c].sock = NoFd]
    /\ UNCHANGED <<sessionVars, fd, currentConnections, taskQueue, isOnline, up, scan>>

ShutdownOld(c) ==
    /\ Goto(c, "shutOld", "setOnline")
    /\ Shutdown(local[c].sock)
    /\ local' = [local EXCEPT ![c].sock = NoFd]
    /\ UNCHANGED <<sessionVars, fd, fdOwner, peer, currentConnections, taskQueue, isOnline, up, scan>>

SetOnline(c) ==
    /\ Goto(c, "setOnline", "findOwn")
    /\ UpdateOnlineStatus(local[c].name, TRUE)
    /\ UNCHANGED <<sessionVars, socketVars, currentConnections, taskQueue, up, local, scan>>

FindOwnSession(c) ==
    LET own == GetSession(fd[c])
    IN  /\ \/ Goto(c, "findOwn", "nameOwn") /\ own # NoConn
           \/ Goto(c, "findOwn", "loginDone") /\ own = NoConn
        /\ local' = [local EXCEPT ![c].ptr = own]
        /\ UNCHANGED <<tableVars, up, scan>>

NameOwnSession(c) ==
    /\ Goto(c, "nameOwn", "bind")
    /\ \E o \in Seen(local[c].ptr) : SetUsername(o, local[c].name)
    /\ UNCHANGED <<socketVars, currentConnections, taskQueue, isOnline, up, local, scan>>

\* BindUsername and the UpdateHeartbeat after it.
Bind(c) ==
    /\ Goto(c, "bind", "loginDone")
    /\ BindUsername(fd[c], local[c].name)
    /\ \E o \in Seen(local[c].ptr) : UpdateHeartbeat(o)
    /\ local' = [local EXCEPT ![c].ptr = NoConn]
    /\ UNCHANGED <<cliSessionMap, object, username, socketVars, currentConnections, taskQueue,
                   isOnline, up, scan>>

-----------------------------------------------------------------------------
(* UserManager::NotifyFriendsStatusChange, run by handlers and the heartbeat thread *)

\* The list of friends; when the query fails nobody is notified.
ReadFriends(t, from, to) ==
    /\ Goto(t, from, to)
    /\ \/ local' = [local EXCEPT ![t].todo = OnlineFriends(local[t].name)]
       \/ DbMayFail /\ local' = [local EXCEPT ![t].todo = {}]
    /\ UNCHANGED <<tableVars, up, scan>>

FindFriend(t, at) ==
    /\ Goto(t, at, at)
    /\ local[t].friendPtr = NoConn
    /\ \E g \in local[t].todo :
        local' = [local EXCEPT ![t].todo = @ \ {g}, ![t].friendPtr = GetSessionByUsername(g)]
    /\ UNCHANGED <<tableVars, up, scan>>

SendStatus(t, at) ==
    /\ Goto(t, at, at)
    /\ local[t].friendPtr # NoConn
    /\ \E o \in Seen(local[t].friendPtr) : Send(fd[o])
    /\ local' = [local EXCEPT ![t].friendPtr = NoConn]
    /\ UNCHANGED <<sessionVars, fd, fdOwner, shut, unread, currentConnections, taskQueue, isOnline, scan>>

AllNotified(t, at, to) ==
    /\ Goto(t, at, to)
    /\ local[t].friendPtr = NoConn /\ local[t].todo = {}
    /\ UNCHANGED <<tableVars, up, local, scan>>

Notify(t, from, at, to) ==
    ReadFriends(t, from, at) \/ FindFriend(t, at) \/ SendStatus(t, at) \/ AllNotified(t, at, to)

-----------------------------------------------------------------------------
(* HandleClient: the two ways out *)

FindForCleanup(c, from, found, missing) ==
    LET own == GetSession(fd[c])
    IN  /\ \/ Goto(c, from, found) /\ own # NoConn
           \/ Goto(c, from, missing) /\ own = NoConn
        /\ local' = [local EXCEPT ![c] = [NoLocals EXCEPT !.ptr = own]]
        /\ UNCHANGED <<tableVars, up, scan>>

ReadName(c, from, named, anonymous) ==
    /\ pc[c] = from
    /\ \E o \in Seen(local[c].ptr) :
        /\ Goto(c, from, IF username[o] = NoUser THEN anonymous ELSE named)
        /\ local' = [local EXCEPT ![c].ptr = NoConn, ![c].name = username[o]]
    /\ UNCHANGED <<tableVars, up, scan>>

SetOffline(t, from, to) ==
    /\ Goto(t, from, to)
    /\ UpdateOnlineStatus(local[t].name, FALSE)
    /\ UNCHANGED <<sessionVars, socketVars, currentConnections, taskQueue, up, local, scan>>

Remove(t, f, from, to) ==
    /\ Goto(t, from, to)
    /\ RemoveSession(f)
    /\ UNCHANGED <<socketVars, currentConnections, taskQueue, isOnline, up, local, scan>>

CountDown(t, from, to) ==
    /\ Goto(t, from, to)
    /\ currentConnections' = currentConnections - 1
    /\ local' = [local EXCEPT ![t] = NoLocals]
    /\ UNCHANGED <<sessionVars, socketVars, taskQueue, isOnline, up, scan>>

\* Slip: the socket is never closed.
LeakSocket(c, from, to) ==
    /\ Goto(c, from, to)
    /\ UNCHANGED <<tableVars, up, local, scan>>

CloseSocket(c, from, to) ==
    /\ Goto(c, from, to)
    /\ Close(fd[c])
    /\ UNCHANGED <<sessionVars, fd, currentConnections, taskQueue, isOnline, up, local, scan>>

\* The loop ended: notify, forget the session, and close the socket last.
Cleanup(c) ==
    \/ FindForCleanup(c, "find", "read", "close")
    \/ ReadName(c, "read", "offline", "remove")
    \/ SetOffline(c, "offline", "offlineDone")
    \/ Notify(c, "offlineDone", "notifyOffline", "remove")
    \/ Remove(c, fd[c], "remove", "count")
    \/ CountDown(c, "count", "close")
    \/ CloseSocket(c, "close", "done")

\* An exception reached HandleClient: HandleClientException closes the socket first.
CleanupAfterException(c) ==
    \/ CloseSocket(c, "throw", "throwFind")
    \/ FindForCleanup(c, "throwFind", "throwRead", "done")
    \/ ReadName(c, "throwRead", "throwOffline", "throwRemove")
    \/ SetOffline(c, "throwOffline", "throwRemove")
    \/ Remove(c, fd[c], "throwRemove", "throwCount")
    \/ CountDown(c, "throwCount", "done")

-----------------------------------------------------------------------------
(* HeartbeatCheckThread *)

Snapshot ==
    /\ Timeouts
    /\ Goto(Heartbeat, "sleep", "scan")
    /\ scan' = GetAllSessions
    /\ UNCHANGED <<tableVars, up, local>>

\* Slip: the test of the name is the wrong way round.
TimedOutUnnamed(o) == username[o] = NoUser /\ expired[o]

\* A session that is logged in and has been silent for more than ten minutes.
TimedOut(o) == username[o] # NoUser /\ expired[o]

Look(c) ==
    /\ pc[Heartbeat] = "scan" /\ c \in scan
    /\ scan' = scan \ {c}
    /\ \E o \in Seen(c) :
        IF TimedOut(o)
        THEN /\ Goto(Heartbeat, "scan", "hbOffline")
             /\ local' = [local EXCEPT ![Heartbeat].sock = fd[c], ![Heartbeat].name = username[o]]
        ELSE Goto(Heartbeat, "scan", "scan") /\ UNCHANGED local
    /\ UNCHANGED <<tableVars, up>>

ScanEnds ==
    /\ Goto(Heartbeat, "scan", "sleep")
    /\ scan = {}
    /\ UNCHANGED <<tableVars, up, local, scan>>

\* Slip: the socket of the session is closed under its handler.
CloseExpired ==
    /\ Goto(Heartbeat, "hbShut", "hbRemove")
    /\ Close(local[Heartbeat].sock)
    /\ UNCHANGED <<sessionVars, fd, currentConnections, taskQueue, isOnline, up, local, scan>>

ShutdownExpired ==
    /\ Goto(Heartbeat, "hbShut", "hbRemove")
    /\ Shutdown(local[Heartbeat].sock)
    /\ UNCHANGED <<sessionVars, fd, fdOwner, peer, currentConnections, taskQueue, isOnline,
                   up, local, scan>>

HeartbeatStep ==
    \/ Snapshot
    \/ \E c \in Conns : Look(c)
    \/ ScanEnds
    \/ SetOffline(Heartbeat, "hbOffline", "hbOfflineDone")
    \/ Notify(Heartbeat, "hbOfflineDone", "hbNotify", "hbShut")
    \/ ShutdownExpired
    \/ Remove(Heartbeat, local[Heartbeat].sock, "hbRemove", "hbCount")
    \/ CountDown(Heartbeat, "hbCount", "scan")

-----------------------------------------------------------------------------
(* Clients, time, and the use of freed memory *)

ClientCloses(c) ==
    /\ up
    /\ fd[c] # NoFd /\ fdOwner[fd[c]] = c
    /\ peer[c] = "open"
    /\ peer' = [peer EXCEPT ![c] = "closed"]
    /\ IF shut[c] THEN UNCHANGED unread
       ELSE \E b \in BOOLEAN : unread' = [unread EXCEPT ![c] = b]
    /\ UNCHANGED <<sessionVars, fd, fdOwner, shut, currentConnections, taskQueue, isOnline, up,
                   pc, local, scan>>

\* Ten minutes pass while the handler of c waits for a request; what else it does
\* takes less time than that.
ClientStaysSilent(c) ==
    /\ up /\ Timeouts
    /\ pc[c] = "recv"
    /\ Expire(c)
    /\ UNCHANGED <<socketVars, currentConnections, taskQueue, isOnline, up, pc, local, scan>>

\* The pointers thread t follows in its next step.
Following(t) ==
    {p \in {local[t].ptr, local[t].friendPtr} : p # NoConn}
        \cup (IF t = Heartbeat /\ pc[t] = "scan" THEN scan ELSE {})

\* Following a pointer to a freed session may also end the process.
FollowFreed(t) ==
    /\ up
    /\ \E p \in Following(t) : object[p] = "freed"
    /\ up' = FALSE
    /\ UNCHANGED <<tableVars, pc, local, scan>>

-----------------------------------------------------------------------------
Login(c) ==
    \/ ReadOnlineStatus(c) \/ ForceOffline(c) \/ FindOldSession(c) \/ SendKicked(c)
    \/ ClearOldUsername(c) \/ ShutdownOld(c) \/ SetOnline(c) \/ FindOwnSession(c)
    \/ NameOwnSession(c) \/ Bind(c) \/ Notify(c, "loginDone", "notifyOnline", "reply")

\* What the handler of c does by itself, without waiting for its client.
Proceed(c) ==
    \/ Touch(c) \/ Resolve(c) \/ Reply(c) \/ Login(c)
    \/ Cleanup(c) \/ CleanupAfterException(c)

\* What its client makes the handler of c do.
Request(c) == pc[c] = "recv" /\ ~Gone(fd[c]) /\ (Receive(c) \/ ReceiveNothing(c))

\* What recv() returns without a client: what is still buffered, and then the end.
Drain(c) == pc[c] = "recv" /\ Gone(fd[c]) /\ (Receive(c) \/ ReceiveNothing(c))

Next ==
    \/ \E c \in Conns :
        \/ Accept(c) \/ Register(c) \/ StartTask(c)
        \/ Request(c) \/ Drain(c) \/ Proceed(c)
        \/ ClientCloses(c) \/ ClientStaysSilent(c)
    \/ HeartbeatStep
    \/ \E t \in Threads : FollowFreed(t)

Spec == Init /\ [][Next]_vars

\* The operating system runs every thread; an accepted connection is registered, a
\* handler whose client is gone or that is busy goes on, the heartbeat thread wakes
\* up.  What concerns one connection happens one after the other, so one condition for
\* each is enough.  Clients need not connect, send, close or fall silent.
FairSpec ==
    /\ Spec
    /\ \A c \in Conns : WF_vars(Register(c) \/ StartTask(c) \/ Proceed(c) \/ Drain(c))
    /\ WF_vars(HeartbeatStep)

-----------------------------------------------------------------------------
(* Properties *)

Places == NotServing \cup
    {"recv", "touch", "resolve", "reply", "login", "forceOffline", "findOld", "kick", "clearOld",
     "shutOld", "setOnline", "findOwn", "nameOwn", "bind", "loginDone", "notifyOnline",
     "find", "read", "offline", "offlineDone", "notifyOffline", "remove", "count", "close",
     "throw", "throwFind", "throwRead", "throwOffline", "throwRemove", "throwCount"}
HeartbeatPlaces ==
    {"sleep", "scan", "hbOffline", "hbOfflineDone", "hbNotify", "hbShut", "hbRemove", "hbCount"}

\* Every variable has its type.
TypeOK ==
    /\ SessionTypeOK
    /\ fd \in [Conns -> Fds \cup {NoFd}]
    /\ fdOwner \in [Fds -> Conns \cup {NoConn}]
    /\ shut \in [Conns -> BOOLEAN]
    /\ peer \in [Conns -> {"open", "closed", "reset"}]
    /\ unread \in [Conns -> BOOLEAN]
    /\ currentConnections \in Int
    /\ taskQueue \in Seq(Conns)
    /\ isOnline \in [Users -> BOOLEAN]
    /\ up \in BOOLEAN
    /\ pc \in [Threads -> Places \cup HeartbeatPlaces]
    /\ local \in [Threads -> Locals]
    /\ scan \subseteq Conns

\* Connection c has a socket: from accept() to the close() of its own handler.
HoldsSocket(c) ==
    pc[c] \notin {"none", "refused", "done", "throwFind", "throwRead", "throwOffline",
                  "throwRemove", "throwCount"}

\* A handler reads from and answers to its own client, never another: its descriptor
\* stays its own until it closes it itself, whatever kicks, timeouts and exceptions do
\* to its session, and no descriptor is leaked (shutdown but no close in
\* server.cpp:467 and user_manager.cpp:124, close in 251 and exception_handler.cpp:43).
SocketDiscipline == \A c \in Conns, f \in Fds : fdOwner[f] = c <=> HoldsSocket(c) /\ fd[c] = f

\* The handler of c has still to take its session out of the map.
HasSession(c) == pc[c] \notin {"none", "refused", "accepted", "count", "close", "throwCount", "done"}

\* The session map holds live objects only, each under its own descriptor, and none
\* that outlives its handler; so no object is deleted twice, however the heartbeat
\* thread, the exception path and the reuse of descriptors interleave
\* (session_manager.cpp:38-52 against server.cpp:214, 246, 265 and 468).
StoredSessionsAreAlive ==
    \A f \in Fds : LET c == cliSessionMap[f]
                   IN  c # NoConn => object[c] = "live" /\ fd[c] = f /\ HasSession(c)

\* currentConnections never passes the limit, although it is compared and incremented
\* in two steps and other threads decrement it in between (server.cpp:203 and 217).
CounterWithinLimit == currentConnections <= MaxConnections

\* What the three properties above rest on: a connection past accept() has a descriptor,
\* also while the heartbeat thread holds a copy of its entry, a login has a user, and at
\* most one connection is between the comparison with the limit and the increment.
SocketAssigned == \A c \in Conns : pc[c] \notin {"none", "refused"} => fd[c] \in Fds

HeartbeatHoldsSocket ==
    /\ \A c \in scan : fd[c] \in Fds
    /\ pc[Heartbeat] \in {"hbOffline", "hbOfflineDone", "hbNotify", "hbShut", "hbRemove"}
            => local[Heartbeat].sock \in Fds

LoginNamesUser ==
    \A c \in Conns : pc[c] \in {"login", "forceOffline", "findOld"} => local[c].name \in Users

OneBeingAdmitted ==
    \A c \in Conns : pc[c] = "accepted" =>
        /\ currentConnections < MaxConnections
        /\ \A d \in Conns : pc[d] = "accepted" => d = c

\* The inductive invariant of the server, whatever times out, throws or fails.
IInv ==
    /\ TypeOK
    /\ SocketAssigned /\ SocketDiscipline
    /\ StoredSessionsAreAlive
    /\ OneBeingAdmitted /\ CounterWithinLimit
    /\ LoginNamesUser /\ HeartbeatHoldsSocket

Stored(c) == c \in GetAllSessions

\* Sessions whose end is counted exactly once: without timeouts and exceptions the
\* counter is the number of sessions stored or just removed (server.cpp:217 and 246-247).
ConnectionCountExact ==
    currentConnections = Cardinality({c \in Conns : Stored(c) \/ pc[c] = "count"})

\* A client keeps its session while its handler serves it: without timeouts and exceptions
\* nobody else takes the session out of the map, although other handlers kick the
\* connection and remove sessions by descriptors the kernel hands out again
\* (server.cpp:246-251, user_manager.cpp:121-122).
InLoop(c) == HasSession(c) /\ pc[c] \notin {"throw", "throwFind", "throwRead", "throwOffline", "throwRemove"}

ServedClientKeepsSession == \A c \in Conns : InLoop(c) => Stored(c)

\* "支持顶号，强制旧连接下线" (a second login takes over and forces the old connection
\* off line, README.md:14): no two connections are logged in as one user.
OneSessionPerUser ==
    \A c, d \in GetAllSessions : username[c] = username[d] /\ username[c] # NoUser => c = d

Served(c) == pc[c] \notin NotServing

\* A connection whose client left, or that was kicked or timed out, gives its worker
\* and its descriptor back (server.cpp:230-251), unless the process died.
GoneIsReleased ==
    \A c \in Conns : Served(c) /\ (shut[c] \/ peer[c] # "open") ~> pc[c] = "done" \/ ~up

\* A logged-in client that stays silent for ten minutes loses its session
\* (server.cpp:455-468), unless it speaks or is kicked first.
SilentUserIsDropped ==
    \A c \in Conns : Stored(c) /\ username[c] # NoUser /\ expired[c]
        ~> ~Stored(c) \/ username[c] = NoUser \/ ~expired[c] \/ ~up

\* The limit on connections, seen from outside.
Limit == INSTANCE Admission WITH
    open <- {c \in Conns : Stored(c) \/ pc[c] = "count"},
    left <- {c \in Conns : object[c] = "freed" /\ pc[c] # "count"}

ImplementsAdmission == Limit!AdmissionSpec

=============================================================================
