----------------------------- MODULE Lifecycle -----------------------------
(***************************************************************************)
(* Start and stop of the server (src/src/main.cpp, Server::Start, Stop and *)
(* destructor, src/src/system/server_monitor.cpp) together with the pool   *)
(* of database connections all threads compete for.                        *)
(*                                                                         *)
(* Handlers appear with what a shutdown depends on: the test of running,   *)
(* the wait in recv(), the statements that read or write is_online, the    *)
(* sends that find a socket shut down, and the removal of the session.     *)
(* Each connection logs in as a user of its own; takeovers, timeouts and   *)
(* exceptions are the subject of Server.                                   *)
(***************************************************************************)
EXTENDS DBPool

CONSTANTS
    Conns,      \* the connections clients open, each for one user
    PoolSize,   \* the number of worker threads
    DbDrops     \* whether the database may drop connections

ASSUME LifecycleAssumption ==
    /\ PoolSize \in Nat \ {0} /\ DbDrops \in BOOLEAN
    /\ Conns \cap {"main", "accept", "heartbeat", "monitor"} = {}
    /\ DbThreads = Conns \cup {"main", "monitor"}

Threads == Conns \cup {"main", "accept", "heartbeat", "monitor"}

VARIABLES
    process,    \* "up", "crashed", or "hung" on a mutex its own thread holds
    running,    \* Server::running
    isRunning,  \* ServerMonitor::isRunning
    listening,  \* serverSocket is open
    stored,     \* the connections whose session is in the map
    named,      \* the sessions that have a user name
    shut,       \* the sockets that were shut down with SHUT_RDWR
    online,     \* column users.is_online of the user of each connection
    pc,         \* where each thread is
    resume,     \* where main goes on after Stop
    walk,       \* the sessions Stop has still to visit
    ptr,        \* the session Stop visits
    target,     \* the connection whose user Stop sets off line
    \* What the properties are about; the code has no such variables.
    signalled,  \* a signal has arrived
    heard,      \* and Stop was called for it while the server was running
    failed      \* a statement has failed

serverVars == <<running, isRunning, listening, stored, named, shut, online>>
stopVars == <<resume, walk, ptr, target, signalled, heard>>
vars == <<dbVars, process, serverVars, pc, stopVars, failed>>

\* The process starts; is_online is what an earlier one left behind.
Init ==
    /\ DbInit
    /\ process = "up"
    /\ running = FALSE /\ isRunning = FALSE /\ listening = FALSE
    /\ stored = {} /\ named = {} /\ shut = {}
    /\ online \in SUBSET Conns
    /\ pc = [t \in Threads |-> IF t = "main" THEN "boot" ELSE "none"]
    /\ resume = "none" /\ walk = {} /\ ptr = "none" /\ target = "none"
    /\ signalled = FALSE /\ heard = FALSE /\ failed = FALSE

-----------------------------------------------------------------------------
(* Building blocks *)

Goto(t, from, to) ==
    /\ process = "up"
    /\ pc[t] = from
    /\ pc' = [pc EXCEPT ![t] = to]

\* Where a thread is in a DAO, between the call of GetConnection and the return of
\* ReleaseConnection.
DbPlaces == {"login", "notifyOnline", "offline", "notifyOffline", "walkDb", "validate"}

\* A thread gets a connection, or waits for one.
Connect(t) ==
    /\ process = "up"
    /\ pc[t] \in DbPlaces
    /\ GetConnection(t) \/ WaitForConnection(t)
    /\ UNCHANGED <<process, serverVars, pc, stopVars, failed>>

\* Thread t executes its statement and gives the connection back; the DAO catches what
\* the statement throws.
Statement(t, from, to) ==
    /\ Goto(t, from, to)
    /\ held[t] # NoDb
    /\ ReleaseConnection(t)
    /\ failed' = (failed \/ StatementFails(t))

\* The statement that writes is_online of the user of c.
UpdateUserOnlineStatus(t, c, value) ==
    online' = IF StatementFails(t) THEN online
              ELSE IF value THEN online \cup {c} ELSE online \ {c}

\* send() to connection c: when its socket was shut down the process dies of SIGPIPE.
SendTo(c) == process' = IF c \in shut THEN "crashed" ELSE process

\* What a thread finds behind a pointer to the session of c; see SessionManager.
Seen(c) == {d \in Conns : d = c \/ (c \notin stored /\ d \in stored)}

-----------------------------------------------------------------------------
(* main: up to the join of the accept thread *)

\* InitConnectionPool has succeeded and g_server is set.
Boot ==
    /\ Goto("main", "boot", "setup")
    /\ UNCHANGED <<dbVars, process, serverVars, stopVars, failed>>

\* socket, bind and listen succeed.
Listen ==
    /\ Goto("main", "setup", "listen")
    /\ listening' = TRUE
    /\ UNCHANGED <<dbVars, process, running, isRunning, stored, named, shut, online, stopVars, failed>>

\* One of them fails, also because Stop has closed the socket: Start returns false.
StartFails ==
    /\ \/ Goto("main", "setup", "destroy")
       \/ Goto("main", "listen", "destroy") /\ ~listening
    /\ UNCHANGED <<dbVars, process, serverVars, stopVars, failed>>

Start ==
    /\ Goto("main", "listen", "threads")
    /\ running' = TRUE
    /\ UNCHANGED <<dbVars, process, isRunning, listening, stored, named, shut, online, stopVars, failed>>

\* StartHeartbeatCheck, StartMonitor, and WriteLog follows.
StartThreads ==
    /\ process = "up" /\ pc["main"] = "threads"
    /\ isRunning' = TRUE
    /\ pc' = [pc EXCEPT !["main"] = "log", !["heartbeat"] = "sleep", !["monitor"] = "sleep"]
    /\ UNCHANGED <<dbVars, process, running, listening, stored, named, shut, online, stopVars, failed>>

SpawnAccept ==
    /\ process = "up" /\ pc["main"] = "log"
    /\ pc' = [pc EXCEPT !["main"] = "join", !["accept"] = "loop"]
    /\ UNCHANGED <<dbVars, process, serverVars, stopVars, failed>>

\* The accept thread has returned: main returns, and ~Server runs.
Join ==
    /\ Goto("main", "join", "destroy")
    /\ pc["accept"] = "exited"
    /\ UNCHANGED <<dbVars, process, serverVars, stopVars, failed>>

-----------------------------------------------------------------------------
(* SignalHandler, on top of what main is doing *)

\* Before g_server is set the signal has no effect; inside WriteLog the handler waits
\* for the mutex its own thread holds.
Signal ==
    /\ process = "up" /\ ~signalled
    /\ signalled' = TRUE
    /\ \/ /\ pc["main"] \in {"boot", "log"}
          /\ process' = "hung"
          /\ UNCHANGED <<pc, resume, heard>>
       \/ /\ pc["main"] = "boot"
          /\ UNCHANGED <<process, pc, resume, heard>>
       \/ /\ pc["main"] \in {"setup", "listen", "threads", "join"}
          /\ pc' = [pc EXCEPT !["main"] = "stop"]
          /\ resume' = pc["main"]
          /\ heard' = (pc["main"] \in {"threads", "join"})
          /\ UNCHANGED process
    /\ UNCHANGED <<dbVars, serverVars, walk, ptr, target, failed>>

-----------------------------------------------------------------------------
(* Server::Stop *)

StopRunning ==
    /\ Goto("main", "stop", "stopMonitor")
    /\ running' = FALSE
    /\ UNCHANGED <<dbVars, process, isRunning, listening, stored, named, shut, online, stopVars, failed>>

\* Slip: the monitor is joined and not told to stop.
StopMonitorUntold ==
    /\ \/ Goto("main", "stopMonitor", "joinMonitor") /\ isRunning
       \/ Goto("main", "stopMonitor", "joinHeartbeat") /\ ~isRunning
    /\ UNCHANGED <<dbVars, process, serverVars, stopVars, failed>>

StopMonitor ==
    /\ \/ Goto("main", "stopMonitor", "joinMonitor") /\ isRunning
       \/ Goto("main", "stopMonitor", "joinHeartbeat") /\ ~isRunning
    /\ isRunning' = FALSE
    /\ UNCHANGED <<dbVars, process, running, listening, stored, named, shut, online, stopVars, failed>>

JoinMonitor ==
    /\ Goto("main", "joinMonitor", "joinHeartbeat")
    /\ pc["monitor"] = "exited"
    /\ UNCHANGED <<dbVars, process, serverVars, stopVars, failed>>

JoinHeartbeat ==
    /\ Goto("main", "joinHeartbeat", "snapshot")
    /\ pc["heartbeat"] \in {"none", "exited"}
    /\ UNCHANGED <<dbVars, process, serverVars, stopVars, failed>>

Snapshot ==
    /\ Goto("main", "snapshot", "walk")
    /\ walk' = stored
    /\ UNCHANGED <<dbVars, process, serverVars, resume, ptr, target, signalled, heard, failed>>

\* The next session of the snapshot; its handler may have deleted it.
Visit(c) ==
    /\ c \in walk
    /\ walk' = walk \ {c}
    /\ ptr' = c
    /\ \E d \in Seen(c) :
        /\ \/ Goto("main", "walk", "walkDb") /\ d \in named
           \/ Goto("main", "walk", "walkShut") /\ d \notin named
        /\ target' = d
    /\ UNCHANGED <<dbVars, process, serverVars, resume, signalled, heard, failed>>

SetOffline ==
    /\ Statement("main", "walkDb", "walkShut")
    /\ UpdateUserOnlineStatus("main", target, FALSE)
    /\ UNCHANGED <<process, running, isRunning, listening, stored, named, shut, stopVars>>

ShutdownSession ==
    /\ Goto("main", "walkShut", "walk")
    /\ \E d \in Seen(ptr) : shut' = IF pc[d] = "done" THEN shut ELSE shut \cup {d}
    /\ ptr' = "none" /\ target' = "none"
    /\ UNCHANGED <<dbVars, process, running, isRunning, listening, stored, named, online,
                   resume, walk, signalled, heard, failed>>

\* Following a pointer to a deleted session may also end the process.
FollowFreed ==
    /\ process = "up"
    /\ \/ pc["main"] = "walk" /\ ~(walk \subseteq stored)
       \/ pc["main"] \in {"walkDb", "walkShut"} /\ ptr \notin stored
    /\ process' = "crashed"
    /\ UNCHANGED <<dbVars, serverVars, pc, stopVars, failed>>

CloseListener ==
    /\ walk = {}
    /\ Goto("main", "walk", resume)
    /\ listening' = FALSE
    /\ resume' = "none"
    /\ UNCHANGED <<dbVars, process, running, isRunning, stored, named, shut, online,
                   walk, ptr, target, signalled, heard, failed>>

Stop ==
    \/ StopRunning \/ StopMonitor \/ JoinMonitor \/ JoinHeartbeat \/ Snapshot
    \/ (\E c \in Conns : Visit(c)) \/ SetOffline \/ ShutdownSession \/ CloseListener

-----------------------------------------------------------------------------
(* ~Server and ~DBManager *)

\* ~Server stops again.
Destroy ==
    /\ Goto("main", "destroy", "stop")
    /\ resume' = "pool"
    /\ UNCHANGED <<dbVars, process, serverVars, walk, ptr, target, signalled, heard, failed>>

\* Slip: the workers are not joined.
DetachWorkers ==
    /\ Goto("main", "pool", "free")
    /\ UNCHANGED <<dbVars, process, serverVars, stopVars, failed>>

\* ~ThreadPool returns when every connection that was submitted has been handled
\* (ThreadPool!ShutdownDrains).
JoinWorkers ==
    /\ Goto("main", "pool", "free")
    /\ \A c \in Conns : pc[c] \in {"none", "done"}
    /\ UNCHANGED <<dbVars, process, serverVars, stopVars, failed>>

\* The managers are deleted, and dbManager with the connections in its pool.
Free ==
    /\ Goto("main", "free", "exited")
    /\ DestroyPool
    /\ stored' = {}
    /\ UNCHANGED <<process, running, isRunning, listening, named, shut, online, stopVars, failed>>

-----------------------------------------------------------------------------
(* AcceptConnections *)

AcceptLoop ==
    /\ \/ Goto("accept", "loop", "accept") /\ running
       \/ Goto("accept", "loop", "exited") /\ ~running
    /\ UNCHANGED <<dbVars, process, serverVars, stopVars, failed>>

Accept(c) ==
    /\ process = "up"
    /\ pc["accept"] = "accept" /\ pc[c] = "none" /\ listening
    /\ pc' = [pc EXCEPT !["accept"] = "register", ![c] = "accepted"]
    /\ UNCHANGED <<dbVars, process, serverVars, stopVars, failed>>

\* Slip: the task is submitted before the session is stored.
SubmitFirst(c) ==
    /\ process = "up"
    /\ \/ /\ pc["accept"] = "register" /\ pc[c] = "accepted"
          /\ pc' = [pc EXCEPT !["accept"] = "store", ![c] = "queued"]
          /\ UNCHANGED stored
       \/ /\ pc["accept"] = "store" /\ pc[c] # "none" /\ c \notin stored /\ pc[c] # "done"
          /\ pc' = [pc EXCEPT !["accept"] = "loop"]
          /\ stored' = stored \cup {c}
    /\ UNCHANGED <<dbVars, process, running, isRunning, listening, named, shut, online, stopVars, failed>>

\* AddSession, then SubmitTask.
Register(c) ==
    /\ process = "up"
    /\ pc["accept"] = "register" /\ pc[c] = "accepted"
    /\ pc' = [pc EXCEPT !["accept"] = "loop", ![c] = "queued"]
    /\ stored' = stored \cup {c}
    /\ UNCHANGED <<dbVars, process, running, isRunning, listening, named, shut, online, stopVars, failed>>

\* accept() fails on the closed listener.
AcceptFails ==
    /\ ~listening
    /\ \/ Goto("accept", "accept", "loop") /\ running
       \/ Goto("accept", "accept", "exited") /\ ~running
    /\ UNCHANGED <<dbVars, process, serverVars, stopVars, failed>>

AcceptThread == AcceptLoop \/ AcceptFails \/ \E c \in Conns : Register(c)

-----------------------------------------------------------------------------
(* HandleClient *)

Idle == {"none", "accepted", "queued", "done"}

StartTask(c) ==
    /\ Goto(c, "queued", "test")
    /\ Cardinality({d \in Conns : pc[d] \notin Idle}) < PoolSize
    /\ UNCHANGED <<dbVars, process, serverVars, stopVars, failed>>

TestRunning(c) ==
    /\ \/ Goto(c, "test", "recv") /\ running
       \/ Goto(c, "test", "find") /\ ~running
    /\ UNCHANGED <<dbVars, process, serverVars, stopVars, failed>>

\* A request arrives, or arrived before the socket was shut down: a LOGIN, or one that
\* changes nothing here.
Receive(c) ==
    /\ Goto(c, "recv", "login") \/ Goto(c, "recv", "reply")
    /\ UNCHANGED <<dbVars, process, serverVars, stopVars, failed>>

\* The client has closed its end or the socket was shut down.
ReceiveNothing(c) ==
    /\ Goto(c, "recv", "find")
    /\ UNCHANGED <<dbVars, process, serverVars, stopVars, failed>>

SetOnline(c) ==
    /\ Statement(c, "login", "name")
    /\ UpdateUserOnlineStatus(c, c, TRUE)
    /\ UNCHANGED <<process, running, isRunning, listening, stored, named, shut, stopVars>>

NameSession(c) ==
    /\ Goto(c, "name", "notifyOnline")
    /\ named' = IF c \in stored THEN named \cup {c} ELSE named
    /\ UNCHANGED <<dbVars, process, running, isRunning, listening, stored, shut, online, stopVars, failed>>

\* NotifyFriendsStatusChange: the query, and a send to a friend who is online.
Notify(c, from, to) ==
    /\ Statement(c, from, to)
    /\ \/ UNCHANGED process
       \/ ~StatementFails(c) /\ \E d \in (stored \cap named) \ {c} : SendTo(d)
    /\ UNCHANGED <<serverVars, stopVars>>

Reply(c) ==
    /\ Goto(c, "reply", "test")
    /\ SendTo(c)
    /\ UNCHANGED <<dbVars, serverVars, stopVars, failed>>

\* Slip: only a connection whose client left is set off line.
FindSessionOpen(c) ==
    /\ \/ Goto(c, "find", "offline") /\ c \in named /\ c \notin shut
       \/ Goto(c, "find", "remove") /\ (c \notin named \/ c \in shut)
    /\ UNCHANGED <<dbVars, process, serverVars, stopVars, failed>>

FindSession(c) ==
    /\ \/ Goto(c, "find", "offline") /\ c \in stored \cap named
       \/ Goto(c, "find", "remove") /\ c \notin stored \cap named
    /\ UNCHANGED <<dbVars, process, serverVars, stopVars, failed>>

UpdateOffline(c) ==
    /\ Statement(c, "offline", "notifyOffline")
    /\ UpdateUserOnlineStatus(c, c, FALSE)
    /\ UNCHANGED <<process, running, isRunning, listening, stored, named, shut, stopVars>>

\* RemoveSession and close.
Remove(c) ==
    /\ Goto(c, "remove", "done")
    /\ stored' = stored \ {c}
    /\ shut' = shut \ {c}
    /\ UNCHANGED <<dbVars, process, running, isRunning, listening, named, online, stopVars, failed>>

\* What the handler of c does without waiting for its client.
Proceed(c) ==
    \/ StartTask(c) \/ TestRunning(c) \/ SetOnline(c) \/ NameSession(c)
    \/ Notify(c, "notifyOnline", "reply") \/ Reply(c)
    \/ FindSession(c) \/ UpdateOffline(c) \/ Notify(c, "notifyOffline", "remove") \/ Remove(c)

\* What recv() returns to it.
Wait(c) == Receive(c) \/ ReceiveNothing(c)

-----------------------------------------------------------------------------
(* HeartbeatCheckThread and MonitorThreadFunc *)

\* Nothing times out here: the thread sleeps, looks at running and sleeps again.
HeartbeatThread ==
    /\ Goto("heartbeat", "sleep", "exited")
    /\ ~running
    /\ UNCHANGED <<dbVars, process, serverVars, stopVars, failed>>

MonitorLoop ==
    /\ \/ Goto("monitor", "sleep", "validate") /\ isRunning
       \/ Goto("monitor", "sleep", "exited") /\ ~isRunning
    /\ UNCHANGED <<dbVars, process, serverVars, stopVars, failed>>

\* CollectStatus with its SELECT 1.
ValidateConnection ==
    /\ Statement("monitor", "validate", "sleep")
    /\ UNCHANGED <<process, serverVars, stopVars>>

MonitorThread == MonitorLoop \/ ValidateConnection

-----------------------------------------------------------------------------
Drop(d) ==
    /\ DbDrops /\ process = "up"
    /\ DropConnection(d)
    /\ UNCHANGED <<process, serverVars, pc, stopVars, failed>>

WakeSpuriously(t) ==
    /\ process = "up"
    /\ SpuriousWakeup(t)
    /\ UNCHANGED <<process, serverVars, pc, stopVars, failed>>

Main ==
    \/ Boot \/ Listen \/ StartFails \/ Start \/ StartThreads \/ SpawnAccept \/ Join
    \/ Stop \/ Destroy \/ JoinWorkers \/ Free

Next ==
    \/ Main \/ Signal \/ FollowFreed
    \/ AcceptThread \/ HeartbeatThread \/ MonitorThread
    \/ \E c \in Conns : Accept(c) \/ Proceed(c) \/ Wait(c)
    \/ \E t \in DbThreads : Connect(t) \/ WakeSpuriously(t)
    \/ \E d \in DbConns : Drop(d)

Spec == Init /\ [][Next]_vars

\* The operating system runs every thread; recv() returns on a socket that was shut down.
\* Clients need not connect, send or leave, and nobody needs to send a signal.
FairSpec ==
    /\ Spec
    /\ WF_vars(Main) /\ WF_vars(AcceptThread) /\ WF_vars(HeartbeatThread) /\ WF_vars(MonitorThread)
    /\ \A c \in Conns : WF_vars(Proceed(c)) /\ WF_vars(Wait(c) /\ c \in shut)
    /\ \A t \in DbThreads : WF_vars(Connect(t))

-----------------------------------------------------------------------------
(* Properties *)

\* Every variable has its type.
TypeOK ==
    /\ DbTypeOK
    /\ process \in {"up", "crashed", "hung"}
    /\ {running, isRunning, listening, signalled, heard, failed} \subseteq BOOLEAN
    /\ stored \subseteq Conns /\ named \subseteq Conns /\ shut \subseteq Conns
    /\ online \subseteq Conns /\ walk \subseteq Conns
    /\ ptr \in Conns \cup {"none"} /\ target \in Conns \cup {"none"}
    /\ resume \in {"none", "setup", "listen", "threads", "join", "pool"}
    /\ DOMAIN pc = Threads

\* The threads that hold a connection, and those that are awake and want one.
Holders == {t \in DbThreads : held[t] # NoDb}
Seekers == {t \in DbThreads : pc[t] \in DbPlaces /\ held[t] = NoDb /\ t \notin poolCondition}

\* Until the pool is destroyed every database connection is either in it or checked out
\* by exactly one thread, which is in the middle of a statement, whatever statements fail
\* (db_manager.cpp:83-103).
ConnectionsConserved ==
    /\ \A t \in Holders : pc[t] \in DbPlaces
    /\ pc["main"] # "exited" =>
        /\ Len(connectionPool) + Cardinality(Holders) = Cardinality(DbConns)
        /\ Pooled \cup {held[t] : t \in Holders} = DbConns

\* A free connection is not left unused while threads sleep for one: for every free
\* connection some thread is awake to take it, although a thread that did not wait may
\* take what a sleeper was woken for (db_manager.cpp:85 and 102).
NoLostDbWakeup == poolCondition # {} => Len(connectionPool) <= Cardinality(Seekers)

\* Stop has shut the sessions down.
SessionsShutDown == ~running /\ pc["main"] \in {"join", "destroy", "pool", "free", "exited"}

\* No handler is left waiting for its client: running is cleared before the sessions are
\* copied and a session is stored before its handler starts, so that a handler that found
\* running true is among those shut down, also when it was accepted during the shutdown
\* (server.cpp:157, 165, 175, 214 and 228).
NobodyLeftInRecv == SessionsShutDown => \A c \in Conns : pc[c] = "recv" => c \in shut

\* "优雅关闭（等待线程结束、更新用户离线状态、关闭所有连接）" (graceful shutdown: waits
\* for the threads, sets users off line, closes all connections, README.md:149): whoever
\* logged in, also during the shutdown, is off line at its end, unless a statement failed
\* (server.cpp:169 and 240).
OfflineAtExit == pc["main"] = "exited" /\ ~failed => online \cap named = {}

\* At the end no thread runs or waits, no session is left and every database connection was
\* in the pool when that was destroyed (main.cpp:32-38, server.cpp:41-45).
NothingLeftAtExit ==
    pc["main"] \in {"free", "exited"} =>
        /\ \A c \in Conns : pc[c] \in {"none", "done"}
        /\ \A t \in {"accept", "heartbeat", "monitor"} : pc[t] \in {"none", "exited"}
        /\ stored = {} /\ Holders = {} /\ poolCondition = {}
        /\ pc["main"] = "free" => Pooled = DbConns

\* All that is left of a shutdown is the destructor of a pool without tasks.
Drained ==
    /\ pc["main"] \in {"pool", "free", "exited"}
    /\ \A c \in Conns : pc[c] \in {"none", "done"}

\* A signal to the running server ends all threads and handlers, whatever they are doing,
\* and although Stop joins threads and waits for database connections that handlers and
\* the monitor hold (main.cpp:18, server.cpp:156-184), unless the process dies.  That
\* the destructor of the pool then returns is the subject of ThreadPool.
ShutdownCompletes == heard ~> Drained \/ process # "up"

=============================================================================
