-------------------------- MODULE LifecycleProofs --------------------------
(***************************************************************************)
(* For any connections, workers and database connections, and at whatever  *)
(* moment the signal comes: the pool of database connections loses none of *)
(* them and no wakeup, and a shutdown leaves no handler in recv(), no user *)
(* on line and nothing behind.                                             *)
(***************************************************************************)
EXTENDS Lifecycle, FiniteSetTheorems, SequenceTheorems, TLAPS

-----------------------------------------------------------------------------
(* The inductive invariant *)

HandlerPlaces == {"none", "accepted", "queued", "test", "recv", "login", "name", "notifyOnline",
                  "reply", "find", "offline", "notifyOffline", "remove", "done"}

\* Where main is before the accept thread runs, in Stop, and from its return on.
Booting == {"boot", "setup", "listen", "threads", "log"}
Walking == {"walk", "walkDb", "walkShut"}
Stopping == {"stop", "stopMonitor", "joinMonitor", "joinHeartbeat", "snapshot"} \cup Walking
Leaving == {"destroy", "pool", "free", "exited"}

\* Every thread is somewhere in its own code.
Located ==
    /\ \A c \in Conns : pc[c] \in HandlerPlaces
    /\ pc["main"] \in Booting \cup Stopping \cup Leaving \cup {"join"}
    /\ pc["accept"] \in {"none", "loop", "accept", "register", "exited"}
    /\ pc["heartbeat"] \in {"none", "sleep", "exited"}
    /\ pc["monitor"] \in {"none", "sleep", "validate", "exited"}

\* The accept thread does not run yet, so that there is no connection; or main is past its
\* end.
AcceptThreadInTime ==
    /\ pc["main"] \in Booting \/ (pc["main"] \in Stopping /\ resume \in {"setup", "listen", "threads"})
            => pc["accept"] = "none"
    /\ pc["main"] \in Leaving \/ (pc["main"] \in Stopping /\ resume = "pool")
            => pc["accept"] \in {"none", "exited"}
    /\ pc["main"] \in Stopping => resume # "none"
    /\ pc["accept"] = "none" => \A c \in Conns : pc[c] = "none"

\* running is true from Start to Stop, and the accept thread outlives it.
RunningInTime ==
    /\ running => pc["main"] \in {"threads", "log", "join"}
                    \/ (pc["main"] = "stop" /\ resume \in {"threads", "join"})
    /\ pc["accept"] = "exited" => ~running

\* No thread runs before StartThreads; Stop joins those it has told to stop, and none is
\* started afterwards.
ThreadsJoined ==
    /\ pc["main"] \in Booting \ {"log"}
            \/ (pc["main"] \in Stopping /\ resume \in {"setup", "listen", "threads"})
        => pc["monitor"] = "none"
    /\ ~isRunning /\ pc["main"] # "joinMonitor" => pc["monitor"] \in {"none", "exited"}
    /\ pc["main"] \in (Stopping \ {"stop", "stopMonitor"}) \cup (Leaving \ {"destroy"}) => ~isRunning
    /\ pc["main"] \in {"snapshot"} \cup Walking \cup (Leaving \ {"destroy"}) =>
            pc["heartbeat"] \in {"none", "exited"}
    /\ pc["main"] \in {"free", "exited"} => \A c \in Conns : pc[c] \in {"none", "done"}

\* A session is stored while its handler runs.
StoredWhileHandled == \A c \in Conns : c \in stored <=> pc[c] \notin {"none", "accepted", "done"}

\* A handler that waits for its client was shut down, or Stop is still to come to it.
WaitingAreVisited ==
    /\ pc["main"] \notin Walking => walk = {}
    /\ ~running /\ pc["main"] \in Walking \cup Leaving \cup {"join"} =>
        \A c \in Conns : pc[c] = "recv" =>
            c \in shut \/ c \in walk \/ (pc["main"] \in {"walkDb", "walkShut"} /\ c = ptr)

\* Unless a statement failed, who is past the end of its connection is off line.
OfflineAfterwards ==
    \A c \in named : /\ pc[c] \notin {"none", "accepted", "queued"}
                     /\ ~failed /\ c \in online => pc[c] \notin {"notifyOffline", "remove", "done"}

\* Only who is in a DAO sleeps for a connection or holds one, and that is no endless crowd.
InDao == {t \in DbThreads : pc[t] \in DbPlaces}

DaoDiscipline ==
    /\ IsFiniteSet(InDao)
    /\ poolCondition \subseteq InDao /\ Holders \subseteq InDao
    /\ \A t \in poolCondition : held[t] = NoDb

Control ==
    /\ Located /\ AcceptThreadInTime /\ RunningInTime /\ ThreadsJoined
    /\ StoredWhileHandled /\ WaitingAreVisited /\ OfflineAfterwards

IInv == TypeOK /\ Control /\ DaoDiscipline /\ ConnectionsConserved /\ NoLostDbWakeup

-----------------------------------------------------------------------------
(* Lemmas about places *)

(* No connection has the name of one of the server's own threads. *)
LEMMA ThreadNames ==
    /\ "main" \notin Conns /\ "accept" \notin Conns /\ "heartbeat" \notin Conns
    /\ "monitor" \notin Conns
    /\ Threads = Conns \cup {"main", "accept", "heartbeat", "monitor"}
    /\ DbThreads = Conns \cup {"main", "monitor"}
BY LifecycleAssumption DEF Threads

(* A thread that goes on leaves the others where they are. *)
LEMMA GotoMoves ==
    ASSUME TypeOK, NEW t \in Threads, NEW from, NEW to, Goto(t, from, to)
    PROVE  /\ pc[t] = from /\ pc'[t] = to /\ DOMAIN pc' = Threads
           /\ \A u \in Threads : u # t => pc'[u] = pc[u]
BY DEF Goto, TypeOK

\* A step of the handler of c, as the rest of the server sees it.
HandlerMoved(c, from, to) ==
    /\ pc[c] = from /\ pc'[c] = to
    /\ \A u \in Threads : u # c => pc'[u] = pc[u]
    /\ UNCHANGED <<running, isRunning, walk, ptr, resume>>

(* The parts of the invariant that a step of a handler does not touch. *)
LEMMA HandlerLeaves ==
    ASSUME IInv, NEW c \in Conns, NEW from \in HandlerPlaces \ {"none", "done"},
           NEW to \in HandlerPlaces \ {"none"}, HandlerMoved(c, from, to)
    PROVE  /\ Located' /\ AcceptThreadInTime' /\ RunningInTime' /\ ThreadsJoined'
           /\ pc["main"] \notin {"free", "exited"}
<1>1. /\ \A u \in {"main", "accept", "heartbeat", "monitor"} : pc'[u] = pc[u]
      /\ \A d \in Conns : d # c => pc'[d] = pc[d]
      /\ pc[c] = from /\ pc'[c] = to
      /\ UNCHANGED <<running, isRunning, walk, ptr, resume>>
  BY ThreadNames DEF HandlerMoved
<1>2. Located /\ AcceptThreadInTime /\ RunningInTime /\ ThreadsJoined
  BY DEF IInv, Control
<1>3. Located'
  BY <1>1, <1>2 DEF Located, HandlerPlaces
<1>4. AcceptThreadInTime'
  BY <1>1, <1>2 DEF AcceptThreadInTime, HandlerPlaces
<1>5. RunningInTime'
  BY <1>1, <1>2 DEF RunningInTime
<1>6. pc["main"] \notin {"free", "exited"}
  BY <1>1, <1>2 DEF ThreadsJoined, HandlerPlaces
<1>7. ThreadsJoined'
  BY <1>1, <1>2, <1>6 DEF ThreadsJoined
<1> QED
  BY <1>3, <1>4, <1>5, <1>6, <1>7

\* What a step of the handler of c may do besides.
HandlerStep(c, from, to) ==
    /\ HandlerMoved(c, from, to)
    /\ from \in HandlerPlaces \ {"none", "accepted", "done"}
    /\ to \in HandlerPlaces \ {"none", "accepted", "queued"}
    /\ stored' = IF to = "done" THEN stored \ {c} ELSE stored
    /\ shut \subseteq shut' \cup {c}
    /\ to = "recv" => running
    /\ named' \subseteq named \cup {c} /\ online' \subseteq online \cup {c}
    /\ failed => failed'
    /\ to \in {"notifyOffline", "remove", "done"} =>
            failed' \/ c \notin online' \/ c \notin named'

(* Then nobody is forgotten in recv() or left on line. *)
LEMMA HandlerKeeps ==
    ASSUME IInv, NEW c \in Conns, NEW from, NEW to, HandlerStep(c, from, to)
    PROVE  Control'
<1>1. /\ \A d \in Conns : d # c => pc'[d] = pc[d]
      /\ pc[c] = from /\ pc'[c] = to /\ pc'["main"] = pc["main"]
      /\ UNCHANGED <<running, walk, ptr>>
  BY ThreadNames DEF HandlerStep, HandlerMoved
<1>2. /\ from \in HandlerPlaces \ {"none", "accepted", "done"}
      /\ to \in HandlerPlaces \ {"none", "accepted", "queued"}
      /\ stored' = IF to = "done" THEN stored \ {c} ELSE stored
  BY DEF HandlerStep
<1>3. Located' /\ AcceptThreadInTime' /\ RunningInTime' /\ ThreadsJoined'
  BY <1>2, HandlerLeaves DEF HandlerStep
<1>4. StoredWhileHandled'
  BY <1>1, <1>2 DEF IInv, Control, StoredWhileHandled
<1>5. WaitingAreVisited'
  <2>1. WaitingAreVisited /\ shut \subseteq shut' \cup {c} /\ (to = "recv" => running)
    BY DEF HandlerStep, IInv, Control
  <2> QED
    BY <1>1, <2>1 DEF WaitingAreVisited
<1>6. OfflineAfterwards'
  <2>1. /\ named' \subseteq named \cup {c} /\ online' \subseteq online \cup {c}
        /\ failed => failed'
        /\ to \in {"notifyOffline", "remove", "done"} =>
              failed' \/ c \notin online' \/ c \notin named'
        /\ named' \subseteq Conns \/ named \subseteq Conns
    BY DEF HandlerStep, IInv, TypeOK
  <2>2. OfflineAfterwards
    BY DEF IInv, Control
  <2> QED
    BY <1>1, <1>2, <2>1, <2>2 DEF OfflineAfterwards
<1> QED
  BY <1>3, <1>4, <1>5, <1>6 DEF Control

(* The handlers take no other steps. *)
LEMMA HandlersStep ==
    ASSUME IInv, NEW c \in Conns, Proceed(c) \/ Wait(c)
    PROVE  \E from, to : HandlerStep(c, from, to)
<1> USE DEF HandlerPlaces
<1>0. TypeOK /\ c \in Threads /\ StoredWhileHandled /\ OfflineAfterwards
  BY ThreadNames DEF IInv, Control
<1>1. ASSUME NEW from, NEW to, Goto(c, from, to),
             UNCHANGED <<running, isRunning, walk, ptr, resume>>
      PROVE  HandlerMoved(c, from, to)
  BY <1>0, <1>1, GotoMoves DEF HandlerMoved
<1>2. CASE StartTask(c)
  <2>1. HandlerMoved(c, "queued", "test")
    BY <1>1, <1>2 DEF StartTask, serverVars, stopVars
  <2> QED
    BY <1>2, <2>1 DEF HandlerStep, StartTask, serverVars, stopVars
<1>3. CASE TestRunning(c)
  <2>1. PICK to \in {"recv", "find"} : Goto(c, "test", to) /\ (to = "recv" => running)
    BY <1>3 DEF TestRunning
  <2>2. HandlerMoved(c, "test", to)
    BY <1>1, <1>3, <2>1 DEF TestRunning, serverVars, stopVars
  <2> QED
    BY <1>3, <2>1, <2>2 DEF HandlerStep, TestRunning, serverVars, stopVars
<1>4. CASE Wait(c)
  <2>1. /\ \E to \in {"login", "reply", "find"} : Goto(c, "recv", to)
        /\ UNCHANGED <<dbVars, process, serverVars, stopVars, failed>>
    BY <1>4 DEF Wait, Receive, ReceiveNothing
  <2>2. PICK to \in {"login", "reply", "find"} : Goto(c, "recv", to)
    BY <2>1
  <2>3. HandlerMoved(c, "recv", to)
    BY <1>1, <2>1, <2>2 DEF serverVars, stopVars
  <2> QED
    BY <2>1, <2>2, <2>3 DEF HandlerStep, serverVars, stopVars
<1>5. CASE SetOnline(c)
  <2>1. HandlerMoved(c, "login", "name")
    BY <1>1, <1>5 DEF SetOnline, Statement, stopVars
  <2>2. failed => failed'
    BY <1>5, Zenon DEF SetOnline, Statement
  <2>3. online' \subseteq online \cup {c} /\ UNCHANGED <<stored, named, shut>>
    BY <1>5 DEF SetOnline, UpdateUserOnlineStatus
  <2> QED
    BY <2>1, <2>2, <2>3 DEF HandlerStep
<1>6. CASE NameSession(c)
  <2>1. HandlerMoved(c, "name", "notifyOnline")
    BY <1>1, <1>6 DEF NameSession, stopVars
  <2> QED
    BY <1>6, <2>1 DEF HandlerStep, NameSession, stopVars
<1>7. CASE Notify(c, "notifyOnline", "reply")
  <2>1. HandlerMoved(c, "notifyOnline", "reply")
    BY <1>1, <1>7 DEF Notify, Statement, serverVars, stopVars
  <2>2. failed => failed'
    BY <1>7, Zenon DEF Notify, Statement
  <2>3. UNCHANGED <<stored, named, shut, online>>
    BY <1>7 DEF Notify, serverVars
  <2> QED
    BY <2>1, <2>2, <2>3 DEF HandlerStep
<1>8. CASE Reply(c)
  <2>1. HandlerMoved(c, "reply", "test")
    BY <1>1, <1>8 DEF Reply, serverVars, stopVars
  <2> QED
    BY <1>8, <2>1 DEF HandlerStep, Reply, serverVars, stopVars
<1>9. CASE FindSession(c)
  <2>1. PICK to \in {"offline", "remove"} :
            Goto(c, "find", to) /\ (to = "remove" => c \notin stored \cap named)
    BY <1>9 DEF FindSession
  <2>2. HandlerMoved(c, "find", to)
    BY <1>1, <1>9, <2>1 DEF FindSession, serverVars, stopVars
  <2>3. c \in stored
    BY <1>0, <2>1 DEF Goto, StoredWhileHandled
  <2> QED
    BY <1>9, <2>1, <2>2, <2>3 DEF HandlerStep, FindSession, serverVars, stopVars
<1>10. CASE UpdateOffline(c)
  <2>1. HandlerMoved(c, "offline", "notifyOffline")
    BY <1>1, <1>10 DEF UpdateOffline, Statement, stopVars
  <2>2. failed' \/ c \notin online'
    BY <1>10 DEF UpdateOffline, Statement, UpdateUserOnlineStatus
  <2> QED
    BY <1>10, <2>1, <2>2 DEF HandlerStep, UpdateOffline, Statement, UpdateUserOnlineStatus, stopVars
<1>11. CASE Notify(c, "notifyOffline", "remove")
  <2>1. HandlerMoved(c, "notifyOffline", "remove")
    BY <1>1, <1>11 DEF Notify, Statement, serverVars, stopVars
  <2>2. failed \/ c \notin online \/ c \notin named
    BY <1>0, <2>1 DEF OfflineAfterwards, HandlerMoved
  <2> QED
    BY <1>11, <2>1, <2>2 DEF HandlerStep, Notify, Statement, serverVars, stopVars
<1>12. CASE Remove(c)
  <2>1. HandlerMoved(c, "remove", "done")
    BY <1>1, <1>12 DEF Remove, stopVars
  <2>2. failed \/ c \notin online \/ c \notin named
    BY <1>0, <2>1 DEF OfflineAfterwards, HandlerMoved
  <2> QED
    BY <1>12, <2>1, <2>2 DEF HandlerStep, Remove, stopVars
<1> QED
  BY <1>2, <1>3, <1>4, <1>5, <1>6, <1>7, <1>8, <1>9, <1>10, <1>11, <1>12 DEF Proceed

(* What concerns connections stays as it is while none of them moves. *)
LEMMA ConnectionsRest ==
    ASSUME IInv, \A c \in Conns : pc'[c] = pc[c],
           UNCHANGED <<stored, named, online, failed>>
    PROVE  StoredWhileHandled' /\ OfflineAfterwards'
<1>1. StoredWhileHandled /\ OfflineAfterwards /\ named \subseteq Conns
  BY DEF IInv, Control, TypeOK
<1> QED
  BY <1>1 DEF StoredWhileHandled, OfflineAfterwards

(* A step outside the code of any thread changes nothing that control depends on. *)
LEMMA ControlRests ==
    ASSUME IInv, UNCHANGED <<serverVars, pc, resume, walk, ptr, failed>>
    PROVE  Control'
BY DEF IInv, Control, serverVars, Located, AcceptThreadInTime, RunningInTime, ThreadsJoined,
    StoredWhileHandled, WaitingAreVisited, OfflineAfterwards

(* The threads beside main take steps that main has foreseen. *)
LEMMA OtherThreadsKeep ==
    ASSUME IInv, AcceptLoop \/ AcceptFails \/ HeartbeatThread \/ MonitorThread
    PROVE  Control'
<1>0. /\ TypeOK /\ {"main", "accept", "heartbeat", "monitor"} \subseteq Threads
      /\ Conns \subseteq Threads
      /\ \A c \in Conns : c \notin {"main", "accept", "heartbeat", "monitor"}
      /\ Located /\ AcceptThreadInTime /\ RunningInTime /\ ThreadsJoined /\ WaitingAreVisited
  BY ThreadNames DEF IInv, Control
<1>1. UNCHANGED <<serverVars, stopVars>> /\ (failed => failed')
  <2>1. failed => failed'
    BY Zenon DEF AcceptLoop, AcceptFails, HeartbeatThread, MonitorThread, MonitorLoop,
        ValidateConnection, Statement
  <2> QED
    BY <2>1 DEF AcceptLoop, AcceptFails, HeartbeatThread, MonitorThread, MonitorLoop,
        ValidateConnection
<1>2. PICK t, from, to :
        /\ t \in {"accept", "heartbeat", "monitor"} /\ Goto(t, from, to)
        /\ t = "accept" => /\ from \in {"loop", "accept"} /\ to \in {"loop", "accept", "exited"}
                           /\ to = "exited" => ~running
        /\ t = "heartbeat" => from = "sleep" /\ to = "exited"
        /\ t = "monitor" => \/ from = "sleep" /\ to = "validate" /\ isRunning
                            \/ from = "sleep" /\ to = "exited"
                            \/ from = "validate" /\ to = "sleep"
  BY DEF AcceptLoop, AcceptFails, HeartbeatThread, MonitorThread, MonitorLoop, ValidateConnection,
      Statement
<1>3. /\ pc[t] = from /\ pc'[t] = to
      /\ \A u \in {"main", "accept", "heartbeat", "monitor"} : u # t => pc'[u] = pc[u]
      /\ \A c \in Conns : pc'[c] = pc[c]
  BY <1>0, <1>2, GotoMoves
<1>4. UNCHANGED <<running, isRunning, stored, named, shut, online, walk, ptr, resume>>
  BY <1>1 DEF serverVars, stopVars
<1>5. Located'
  BY <1>0, <1>2, <1>3 DEF Located
<1>6. AcceptThreadInTime'
  BY <1>0, <1>2, <1>3, <1>4 DEF AcceptThreadInTime
<1>7. RunningInTime'
  BY <1>0, <1>2, <1>3, <1>4 DEF RunningInTime
<1>8. ThreadsJoined'
  <2>1. CASE t = "accept"
    BY <1>0, <1>3, <1>4, <2>1 DEF ThreadsJoined
  <2>2. CASE t = "heartbeat"
    BY <1>0, <1>2, <1>3, <1>4, <2>2 DEF ThreadsJoined
  <2>3. CASE t = "monitor"
    BY <1>0, <1>2, <1>3, <1>4, <2>3 DEF ThreadsJoined
  <2> QED
    BY <1>2, <2>1, <2>2, <2>3
<1>9. StoredWhileHandled' /\ WaitingAreVisited'
  <2>1. StoredWhileHandled
    BY DEF IInv, Control
  <2>2. pc'["main"] = pc["main"]
    BY <1>2, <1>3
  <2> QED
    BY <1>0, <1>3, <1>4, <2>1, <2>2 DEF StoredWhileHandled, WaitingAreVisited
<1>10. OfflineAfterwards'
  <2>1. OfflineAfterwards /\ named \subseteq Conns
    BY DEF IInv, Control, TypeOK
  <2> QED
    BY <1>1, <1>3, <1>4, <2>1 DEF OfflineAfterwards
<1> QED
  BY <1>5, <1>6, <1>7, <1>8, <1>9, <1>10 DEF Control

(* A connection is accepted while the accept thread runs, and its session is stored before
   its task can start. *)
LEMMA AcceptKeeps ==
    ASSUME IInv, NEW c \in Conns, Accept(c) \/ Register(c)
    PROVE  Control'
<1>0. /\ TypeOK /\ DOMAIN pc = Threads /\ {"main", "accept", "heartbeat", "monitor"} \subseteq Threads
      /\ Conns \subseteq Threads
      /\ \A d \in Conns : d \notin {"main", "accept", "heartbeat", "monitor"}
      /\ Located /\ AcceptThreadInTime /\ RunningInTime /\ ThreadsJoined /\ WaitingAreVisited
      /\ StoredWhileHandled /\ OfflineAfterwards /\ named \subseteq Conns
  BY ThreadNames DEF IInv, Control, TypeOK
<1>1. /\ UNCHANGED <<running, isRunning, named, shut, online, walk, ptr, resume, failed>>
      /\ \A d \in Conns : d # c => pc'[d] = pc[d]
      /\ \A u \in {"main", "heartbeat", "monitor"} : pc'[u] = pc[u]
      /\ \/ /\ pc["accept"] = "accept" /\ pc'["accept"] = "register"
            /\ pc[c] = "none" /\ pc'[c] = "accepted" /\ UNCHANGED stored
         \/ /\ pc["accept"] = "register" /\ pc'["accept"] = "loop"
            /\ pc[c] = "accepted" /\ pc'[c] = "queued" /\ stored' = stored \cup {c}
  BY <1>0 DEF Accept, Register, serverVars, stopVars
<1>2. Located'
  BY <1>0, <1>1 DEF Located, HandlerPlaces
<1>3. AcceptThreadInTime'
  BY <1>0, <1>1 DEF AcceptThreadInTime
<1>4. RunningInTime'
  BY <1>0, <1>1 DEF RunningInTime
<1>5. ThreadsJoined'
  <2>1. pc["main"] \notin {"free", "exited"}
    BY <1>0, <1>1 DEF AcceptThreadInTime, Leaving
  <2> QED
    BY <1>0, <1>1, <2>1 DEF ThreadsJoined
<1>6. StoredWhileHandled'
  BY <1>0, <1>1 DEF StoredWhileHandled
<1>7. WaitingAreVisited'
  BY <1>0, <1>1 DEF WaitingAreVisited
<1>8. OfflineAfterwards'
  BY <1>0, <1>1 DEF OfflineAfterwards
<1> QED
  BY <1>2, <1>3, <1>4, <1>5, <1>6, <1>7, <1>8 DEF Control

\* A step of main, as the other threads see it.
MainMoved(from, to) ==
    /\ pc["main"] = from /\ pc'["main"] = to
    /\ \A u \in {"accept", "heartbeat", "monitor"} : pc'[u] = pc[u]
    /\ \A c \in Conns : pc'[c] = pc[c]
    /\ UNCHANGED named /\ online' \subseteq online /\ (failed => failed')

(* main starts no thread when it goes on. *)
LEMMA MainMoves ==
    ASSUME IInv, NEW from, NEW to, Goto("main", from, to), UNCHANGED named,
           online' \subseteq online, failed => failed'
    PROVE  MainMoved(from, to)
<1>1. TypeOK /\ Conns \subseteq Threads /\ \A c \in Conns : c # "main"
  BY ThreadNames DEF IInv
<1>2. {"main", "accept", "heartbeat", "monitor"} \subseteq Threads
  BY ThreadNames
<1> QED
  BY <1>1, <1>2, GotoMoves DEF MainMoved

\* The parts of the invariant that depend on what main does.
MainParts ==
    Located /\ AcceptThreadInTime /\ RunningInTime /\ ThreadsJoined /\ WaitingAreVisited

(* What remains is to show these parts. *)
LEMMA MainKeeps ==
    ASSUME IInv, NEW from, NEW to, MainMoved(from, to), UNCHANGED stored, MainParts'
    PROVE  Control'
<1>1. StoredWhileHandled /\ OfflineAfterwards /\ named \subseteq Conns
  BY DEF IInv, Control, TypeOK
<1>2. StoredWhileHandled'
  BY <1>1 DEF StoredWhileHandled, MainMoved
<1>3. OfflineAfterwards'
  BY <1>1 DEF OfflineAfterwards, MainMoved
<1> QED
  BY <1>2, <1>3 DEF Control, MainParts

(* main before the accept thread runs, and after it returned. *)
LEMMA BootKeeps ==
    ASSUME IInv, Boot \/ Listen \/ StartFails \/ Start \/ Join \/ Destroy \/ JoinWorkers
    PROVE  Control'
<1> USE DEF Booting, Stopping, Walking, Leaving
<1>0. MainParts /\ StoredWhileHandled
  BY DEF IInv, Control, MainParts
<1>1. CASE Boot
  <2>1. MainMoved("boot", "setup")
    BY <1>1, MainMoves DEF Boot, serverVars, stopVars
  <2>2. UNCHANGED <<running, isRunning, walk, ptr, resume, shut, stored>>
    BY <1>1 DEF Boot, serverVars, stopVars
  <2>3. MainParts'
    BY <1>0, <2>1, <2>2 DEF MainMoved, MainParts, Located, AcceptThreadInTime, RunningInTime,
        ThreadsJoined, WaitingAreVisited
  <2> QED
    BY <2>1, <2>2, <2>3, MainKeeps
<1>2. CASE Listen
  <2>1. MainMoved("setup", "listen")
    BY <1>2, MainMoves DEF Listen, serverVars, stopVars
  <2>2. UNCHANGED <<running, isRunning, walk, ptr, resume, shut, stored>>
    BY <1>2 DEF Listen, serverVars, stopVars
  <2>3. MainParts'
    BY <1>0, <2>1, <2>2 DEF MainMoved, MainParts, Located, AcceptThreadInTime, RunningInTime,
        ThreadsJoined, WaitingAreVisited
  <2> QED
    BY <2>1, <2>2, <2>3, MainKeeps
<1>3. CASE Start
  <2>1. MainMoved("listen", "threads")
    BY <1>3, MainMoves DEF Start, serverVars, stopVars
  <2>2. running' = TRUE /\ UNCHANGED <<isRunning, walk, ptr, resume, shut, stored>>
    BY <1>3 DEF Start, serverVars, stopVars
  <2>3. MainParts'
    BY <1>0, <2>1, <2>2 DEF MainMoved, MainParts, Located, AcceptThreadInTime, RunningInTime,
        ThreadsJoined, WaitingAreVisited
  <2> QED
    BY <2>1, <2>2, <2>3, MainKeeps
<1>4. CASE Join
  <2>1. MainMoved("join", "destroy")
    BY <1>4, MainMoves DEF Join, serverVars, stopVars
  <2>2. UNCHANGED <<running, isRunning, walk, ptr, resume, shut, stored>> /\ pc["accept"] = "exited"
    BY <1>4 DEF Join, serverVars, stopVars
  <2>3. MainParts'
    BY <1>0, <2>1, <2>2 DEF MainMoved, MainParts, Located, AcceptThreadInTime, RunningInTime,
        ThreadsJoined, WaitingAreVisited
  <2> QED
    BY <2>1, <2>2, <2>3, MainKeeps
<1>5. CASE Destroy
  <2>1. MainMoved("destroy", "stop")
    BY <1>5, MainMoves DEF Destroy, serverVars, stopVars
  <2>2. UNCHANGED <<running, isRunning, walk, ptr, shut, stored>> /\ resume' = "pool"
    BY <1>5 DEF Destroy, serverVars, stopVars
  <2>3. MainParts'
    BY <1>0, <2>1, <2>2 DEF MainMoved, MainParts, Located, AcceptThreadInTime, RunningInTime,
        ThreadsJoined, WaitingAreVisited
  <2> QED
    BY <2>1, <2>2, <2>3, MainKeeps
<1>6. CASE JoinWorkers
  <2>1. MainMoved("pool", "free")
    BY <1>6, MainMoves DEF JoinWorkers, serverVars, stopVars
  <2>2. UNCHANGED <<running, isRunning, walk, ptr, resume, shut, stored>> /\ \A c \in Conns : pc[c] \in {"none", "done"}
    BY <1>6 DEF JoinWorkers, serverVars, stopVars
  <2>3. MainParts'
    BY <1>0, <2>1, <2>2 DEF MainMoved, MainParts, Located, AcceptThreadInTime, RunningInTime,
        ThreadsJoined, WaitingAreVisited
  <2> QED
    BY <2>1, <2>2, <2>3, MainKeeps
<1>7. CASE StartFails
  <2>1. PICK from \in {"setup", "listen"} : Goto("main", from, "destroy")
    BY <1>7 DEF StartFails
  <2>2. UNCHANGED <<serverVars, stopVars, failed>>
    BY <1>7 DEF StartFails
  <2>3. MainMoved(from, "destroy") /\ UNCHANGED stored
    BY <2>1, <2>2, MainMoves DEF serverVars
  <2>4. MainParts'
    BY <1>0, <2>2, <2>3 DEF serverVars, stopVars, MainMoved, MainParts, Located,
        AcceptThreadInTime, RunningInTime, ThreadsJoined, WaitingAreVisited
  <2> QED
    BY <2>3, <2>4, MainKeeps
<1> QED
  BY <1>1, <1>2, <1>3, <1>4, <1>5, <1>6, <1>7

(* The threads and the accept thread begin while there is no connection yet. *)
LEMMA ThreadsBegin ==
    ASSUME IInv, StartThreads \/ SpawnAccept
    PROVE  Control'
<1> USE DEF Booting, Stopping, Walking, Leaving
<1>0. /\ Located /\ AcceptThreadInTime /\ RunningInTime /\ ThreadsJoined /\ WaitingAreVisited
      /\ DOMAIN pc = Threads /\ {"main", "accept", "heartbeat", "monitor"} \subseteq Threads
      /\ Conns \subseteq Threads
      /\ \A c \in Conns : c \notin {"main", "accept", "heartbeat", "monitor"}
  BY ThreadNames DEF IInv, Control, TypeOK
<1>1. /\ UNCHANGED <<running, stored, named, shut, online, failed, resume, walk, ptr>>
      /\ isRunning => isRunning'
  BY DEF StartThreads, SpawnAccept, serverVars, stopVars
<1>2. \/ /\ pc["main"] = "threads" /\ pc'["main"] = "log" /\ isRunning'
         /\ pc'["heartbeat"] = "sleep" /\ pc'["monitor"] = "sleep" /\ pc'["accept"] = pc["accept"]
         /\ \A c \in Conns : pc'[c] = pc[c]
      \/ /\ pc["main"] = "log" /\ pc'["main"] = "join" /\ pc'["accept"] = "loop"
         /\ pc'["heartbeat"] = pc["heartbeat"] /\ pc'["monitor"] = pc["monitor"]
         /\ isRunning' = isRunning
         /\ \A c \in Conns : pc'[c] = pc[c]
  BY <1>0 DEF StartThreads, SpawnAccept, serverVars
<1>3. Located'
  BY <1>0, <1>2 DEF Located
<1>4. AcceptThreadInTime' /\ RunningInTime'
  BY <1>0, <1>1, <1>2 DEF AcceptThreadInTime, RunningInTime
<1>5. ThreadsJoined'
  BY <1>0, <1>1, <1>2 DEF ThreadsJoined
<1>6. WaitingAreVisited'
  BY <1>0, <1>1, <1>2 DEF WaitingAreVisited, AcceptThreadInTime
<1> QED
  BY <1>1, <1>2, <1>3, <1>4, <1>5, <1>6, ConnectionsRest DEF Control

(* A signal interrupts main where the server has not begun to stop by itself. *)
LEMMA SignalKeeps ==
    ASSUME IInv, Signal
    PROVE  Control'
<1> USE DEF Booting, Stopping, Walking, Leaving
<1>0. MainParts
  BY DEF IInv, Control, MainParts
<1>1. CASE UNCHANGED <<pc, resume>>
  BY <1>1, ControlRests DEF Signal
<1>2. CASE /\ pc["main"] \in {"setup", "listen", "threads", "join"}
           /\ pc' = [pc EXCEPT !["main"] = "stop"]
           /\ resume' = pc["main"]
  <2>1. UNCHANGED <<running, isRunning, walk, ptr, shut, stored, named, online, failed>>
    BY DEF Signal, serverVars
  <2>2. PICK from \in {"setup", "listen", "threads", "join"} : pc["main"] = from
    BY <1>2
  <2>3. Goto("main", from, "stop")
    BY <1>2, <2>2 DEF Signal, Goto
  <2>4. MainMoved(from, "stop")
    BY <2>1, <2>3, MainMoves
  <2>5. MainParts'
    BY <1>0, <1>2, <2>1, <2>2, <2>4 DEF MainMoved, MainParts, Located, AcceptThreadInTime,
        RunningInTime, ThreadsJoined, WaitingAreVisited
  <2> QED
    BY <2>1, <2>4, <2>5, MainKeeps
<1> QED
  BY <1>1, <1>2 DEF Signal

(* Stop clears running before it copies the sessions, and joins before it walks. *)
LEMMA StopBeginsKeeps ==
    ASSUME IInv, StopRunning \/ StopMonitor \/ JoinMonitor \/ JoinHeartbeat \/ Snapshot
    PROVE  Control'
<1> USE DEF Booting, Stopping, Walking, Leaving
<1>0. MainParts /\ StoredWhileHandled
  BY DEF IInv, Control, MainParts
<1>1. CASE StopRunning
  <2>1. MainMoved("stop", "stopMonitor")
    BY <1>1, MainMoves DEF StopRunning, serverVars, stopVars
  <2>2. running' = FALSE /\ UNCHANGED <<isRunning, walk, ptr, resume, shut, stored>>
    BY <1>1 DEF StopRunning, serverVars, stopVars
  <2>3. MainParts'
    BY <1>0, <2>1, <2>2 DEF MainMoved, MainParts, Located, AcceptThreadInTime, RunningInTime,
        ThreadsJoined, WaitingAreVisited
  <2> QED
    BY <2>1, <2>2, <2>3, MainKeeps
<1>2. CASE JoinMonitor
  <2>1. MainMoved("joinMonitor", "joinHeartbeat")
    BY <1>2, MainMoves DEF JoinMonitor, serverVars, stopVars
  <2>2. UNCHANGED <<running, isRunning, walk, ptr, resume, shut, stored>> /\ pc["monitor"] = "exited"
    BY <1>2 DEF JoinMonitor, serverVars, stopVars
  <2>3. MainParts'
    BY <1>0, <2>1, <2>2 DEF MainMoved, MainParts, Located, AcceptThreadInTime, RunningInTime,
        ThreadsJoined, WaitingAreVisited
  <2> QED
    BY <2>1, <2>2, <2>3, MainKeeps
<1>3. CASE JoinHeartbeat
  <2>1. MainMoved("joinHeartbeat", "snapshot")
    BY <1>3, MainMoves DEF JoinHeartbeat, serverVars, stopVars
  <2>2. UNCHANGED <<running, isRunning, walk, ptr, resume, shut, stored>> /\ pc["heartbeat"] \in {"none", "exited"}
    BY <1>3 DEF JoinHeartbeat, serverVars, stopVars
  <2>3. MainParts'
    BY <1>0, <2>1, <2>2 DEF MainMoved, MainParts, Located, AcceptThreadInTime, RunningInTime,
        ThreadsJoined, WaitingAreVisited
  <2> QED
    BY <2>1, <2>2, <2>3, MainKeeps
<1>4. CASE Snapshot
  <2>1. MainMoved("snapshot", "walk")
    BY <1>4, MainMoves DEF Snapshot, serverVars
  <2>2. walk' = stored /\ UNCHANGED <<running, isRunning, ptr, resume, shut, stored>>
    BY <1>4 DEF Snapshot, serverVars
  <2>3. \A c \in Conns : pc[c] = "recv" => c \in stored
    BY <1>0 DEF StoredWhileHandled
  <2>4. MainParts'
    BY <1>0, <2>1, <2>2, <2>3 DEF MainMoved, MainParts, Located, AcceptThreadInTime, RunningInTime,
        ThreadsJoined, WaitingAreVisited
  <2> QED
    BY <2>1, <2>2, <2>4, MainKeeps
<1>5. CASE StopMonitor
  <2>1. PICK to \in {"joinMonitor", "joinHeartbeat"} :
            /\ Goto("main", "stopMonitor", to)
            /\ to = "joinHeartbeat" => ~isRunning
    BY <1>5 DEF StopMonitor
  <2>2. /\ isRunning' = FALSE
        /\ UNCHANGED <<running, stored, named, online, failed, walk, ptr, resume, shut>>
    BY <1>5 DEF StopMonitor, stopVars
  <2>3. MainMoved("stopMonitor", to)
    BY <2>1, <2>2, MainMoves
  <2>4. MainParts'
    BY <1>0, <2>1, <2>2, <2>3 DEF MainMoved, MainParts, Located, AcceptThreadInTime, RunningInTime,
        ThreadsJoined, WaitingAreVisited
  <2> QED
    BY <2>2, <2>3, <2>4, MainKeeps
<1> QED
  BY <1>1, <1>2, <1>3, <1>4, <1>5

(* Whoever waits for its client and is visited has been shut down: its session is stored,
   so that the pointer leads to no other. *)
LEMMA WalkKeeps ==
    ASSUME IInv, (\E c \in Conns : Visit(c)) \/ SetOffline \/ ShutdownSession \/ CloseListener
    PROVE  Control'
<1> USE DEF Booting, Stopping, Walking, Leaving
<1>0. MainParts /\ StoredWhileHandled
  BY DEF IInv, Control, MainParts
<1>1. ASSUME NEW c \in Conns, Visit(c)
      PROVE  Control'
  <2>1. PICK to \in {"walkDb", "walkShut"} : Goto("main", "walk", to)
    BY <1>1 DEF Visit
  <2>2. /\ walk' = walk \ {c} /\ ptr' = c
        /\ UNCHANGED <<running, isRunning, resume, shut, stored, named, online, failed>>
    BY <1>1 DEF Visit, serverVars
  <2>3. MainMoved("walk", to)
    BY <2>1, <2>2, MainMoves
  <2>4. MainParts'
    BY <1>0, <2>2, <2>3 DEF MainMoved, MainParts, Located, AcceptThreadInTime, RunningInTime,
        ThreadsJoined, WaitingAreVisited
  <2> QED
    BY <2>2, <2>3, <2>4, MainKeeps
<1>2. CASE SetOffline
  <2>1. failed => failed'
    BY <1>2, Zenon DEF SetOffline, Statement
  <2>2. /\ Goto("main", "walkDb", "walkShut") /\ online' \subseteq online
        /\ UNCHANGED <<running, isRunning, walk, ptr, resume, shut, stored, named>>
    BY <1>2 DEF SetOffline, Statement, UpdateUserOnlineStatus, stopVars
  <2>3. MainMoved("walkDb", "walkShut")
    BY <2>1, <2>2, MainMoves
  <2>4. MainParts'
    BY <1>0, <2>2, <2>3 DEF MainMoved, MainParts, Located, AcceptThreadInTime, RunningInTime,
        ThreadsJoined, WaitingAreVisited
  <2> QED
    BY <2>2, <2>3, <2>4, MainKeeps
<1>3. CASE ShutdownSession
  <2>1. /\ Goto("main", "walkShut", "walk")
        /\ UNCHANGED <<running, isRunning, walk, resume, stored, named, online, failed>>
    BY <1>3 DEF ShutdownSession
  <2>2. MainMoved("walkShut", "walk")
    BY <2>1, MainMoves
  <2>3. shut \subseteq shut'
    BY <1>3 DEF ShutdownSession
  <2>4. \A c \in Conns : pc[c] = "recv" /\ c = ptr => c \in shut'
    <3> SUFFICES ASSUME NEW c \in Conns, pc[c] = "recv", c = ptr PROVE c \in shut'
      OBVIOUS
    <3>1. c \in stored
      BY <1>0 DEF StoredWhileHandled
    <3>2. PICK d \in Seen(ptr) : shut' = IF pc[d] = "done" THEN shut ELSE shut \cup {d}
      BY <1>3 DEF ShutdownSession
    <3>3. d = c
      BY <3>1, <3>2 DEF Seen
    <3> QED
      BY <3>2, <3>3
  <2>5. MainParts'
    BY <1>0, <2>1, <2>2, <2>3, <2>4 DEF MainMoved, MainParts, Located, AcceptThreadInTime,
        RunningInTime, ThreadsJoined, WaitingAreVisited
  <2> QED
    BY <2>1, <2>2, <2>5, MainKeeps
<1>4. CASE CloseListener
  <2>1. /\ Goto("main", "walk", resume) /\ walk = {} /\ resume' = "none"
        /\ resume \in {"none", "setup", "listen", "threads", "join", "pool"}
        /\ UNCHANGED <<running, isRunning, walk, ptr, shut, stored, named, online, failed>>
    BY <1>4 DEF CloseListener, IInv, TypeOK
  <2>2. PICK to : to = resume /\ MainMoved("walk", to)
    BY <2>1, MainMoves
  <2>3. MainParts'
    BY <1>0, <2>1, <2>2 DEF MainMoved, MainParts, Located, AcceptThreadInTime,
        RunningInTime, ThreadsJoined, WaitingAreVisited
  <2> QED
    BY <2>1, <2>2, <2>3, MainKeeps
<1> QED
  BY <1>1, <1>2, <1>3, <1>4

(* When the managers are deleted no handler is left to miss its session. *)
LEMMA FreeKeeps ==
    ASSUME IInv, Free
    PROVE  Control'
<1> USE DEF Booting, Stopping, Walking, Leaving
<1>0. MainParts
  BY DEF IInv, Control, MainParts
<1>1. /\ Goto("main", "free", "exited") /\ stored' = {}
      /\ UNCHANGED <<running, isRunning, walk, ptr, resume, shut, named, online, failed>>
  BY DEF Free, stopVars
<1>2. MainMoved("free", "exited")
  BY <1>1, MainMoves
<1>3. MainParts'
  BY <1>0, <1>1, <1>2 DEF MainMoved, MainParts, Located, AcceptThreadInTime,
      RunningInTime, ThreadsJoined, WaitingAreVisited
<1>4. StoredWhileHandled'
  BY <1>0, <1>1, <1>2 DEF MainMoved, MainParts, ThreadsJoined, StoredWhileHandled
<1>5. OfflineAfterwards'
  BY <1>1, <1>2 DEF IInv, Control, TypeOK, OfflineAfterwards, MainMoved
<1> QED
  BY <1>3, <1>4, <1>5 DEF Control, MainParts

(* Control is kept by every step. *)
LEMMA ControlStep == IInv /\ [Next]_vars => Control'
<1> SUFFICES ASSUME IInv, [Next]_vars PROVE Control'
  OBVIOUS
<1>1. CASE Boot \/ Listen \/ StartFails \/ Start \/ Join \/ Destroy \/ JoinWorkers
  BY <1>1, BootKeeps
<1>2. CASE StartThreads \/ SpawnAccept
  BY <1>2, ThreadsBegin
<1>3. CASE Stop
  BY <1>3, StopBeginsKeeps, WalkKeeps DEF Stop
<1>4. CASE Free \/ Signal
  BY <1>4, FreeKeeps, SignalKeeps
<1>5. CASE AcceptThread \/ HeartbeatThread \/ MonitorThread
  BY <1>5, OtherThreadsKeep, AcceptKeeps DEF AcceptThread, MonitorThread
<1>6. CASE \E c \in Conns : Accept(c) \/ Proceed(c) \/ Wait(c)
  BY <1>6, AcceptKeeps, HandlersStep, HandlerKeeps
<1>7. CASE FollowFreed \/ (\E d \in DbConns : Drop(d))
            \/ (\E t \in DbThreads : Connect(t) \/ WakeSpuriously(t)) \/ UNCHANGED vars
  <2>1. UNCHANGED <<serverVars, pc, resume, walk, ptr, failed>>
    BY <1>7 DEF FollowFreed, Drop, Connect, WakeSpuriously, vars, stopVars
  <2> QED
    BY <2>1, ControlRests
<1> QED
  BY <1>1, <1>2, <1>3, <1>4, <1>5, <1>6, <1>7 DEF Next, Main

-----------------------------------------------------------------------------
(* The pool of database connections *)

(* The pool is a queue of connections. *)
LEMMA PoolIsQueue ==
    ASSUME TypeOK
    PROVE  /\ connectionPool \in Seq(DbConns) /\ Len(connectionPool) \in Nat
           /\ IsFiniteSet(DbConns) /\ Cardinality(DbConns) \in Nat
           /\ NoDb \notin DbConns
           /\ held \in [DbThreads -> DbConns \cup {NoDb}]
<1>1. connectionPool \in Seq(DbConns) /\ held \in [DbThreads -> DbConns \cup {NoDb}]
  BY DEF TypeOK, DbTypeOK
<1>2. IsFiniteSet(DbConns) /\ NoDb \notin DbConns
  BY DbAssumption
<1>3. Len(connectionPool) \in Nat
  BY <1>1, LenProperties
<1>4. Cardinality(DbConns) \in Nat
  BY <1>2, FS_CardinalityType
<1> QED
  BY <1>1, <1>2, <1>3, <1>4

\* What a queue holds.
Elements(q) == {q[i] : i \in 1..Len(q)}

(* The head of a queue and its tail are the queue. *)
LEMMA TakenFromQueue ==
    ASSUME NEW S, NEW q \in Seq(S), q # <<>>
    PROVE  /\ Head(q) \in S /\ Tail(q) \in Seq(S) /\ Len(Tail(q)) = Len(q) - 1 /\ Len(q) > 0
           /\ Elements(q) = Elements(Tail(q)) \cup {Head(q)}
<1>1. /\ Head(q) \in S /\ Tail(q) \in Seq(S) /\ Len(Tail(q)) = Len(q) - 1
      /\ \A i \in 1..Len(Tail(q)) : Tail(q)[i] = q[i + 1]
  BY HeadTailProperties
<1>2. Len(q) \in Nat /\ Len(q) > 0 /\ Head(q) = q[1]
  BY EmptySeq, LenProperties
<1> PICK t : t = Tail(q)
  OBVIOUS
<1>3. Len(t) = Len(q) - 1 /\ \A i \in 1..Len(t) : t[i] = q[i + 1]
  BY <1>1
<1>4. ASSUME NEW i \in 1..Len(q)
      PROVE  q[i] \in Elements(t) \cup {q[1]}
  <2>1. CASE i = 1
    BY <2>1
  <2>2. CASE i # 1
    <3>1. i - 1 \in 1..Len(t) /\ t[i - 1] = q[i]
      BY <1>2, <1>3, <2>2
    <3> QED
      BY <3>1 DEF Elements
  <2> QED
    BY <2>1, <2>2
<1>5. \A i \in 1..Len(t) : i + 1 \in 1..Len(q) /\ t[i] = q[i + 1]
  BY <1>2, <1>3
<1>6. Elements(t) \cup {q[1]} \subseteq Elements(q)
  BY <1>2, <1>5 DEF Elements
<1>7. Elements(q) \subseteq Elements(t) \cup {q[1]}
  BY <1>4 DEF Elements
<1> QED
  BY <1>1, <1>2, <1>6, <1>7

(* A queue that grows holds one more. *)
LEMMA AddedToQueue ==
    ASSUME NEW S, NEW q \in Seq(S), NEW e \in S
    PROVE  /\ Append(q, e) \in Seq(S) /\ Len(Append(q, e)) = Len(q) + 1
           /\ Elements(Append(q, e)) = Elements(q) \cup {e}
<1>1. /\ Append(q, e) \in Seq(S) /\ Len(Append(q, e)) = Len(q) + 1
      /\ \A i \in 1..Len(q) : Append(q, e)[i] = q[i]
      /\ Append(q, e)[Len(q) + 1] = e
  BY AppendProperties
<1>2. Len(q) \in Nat
  BY LenProperties
<1> PICK a : a = Append(q, e)
  OBVIOUS
<1>3. 1..Len(a) = 1..Len(q) \cup {Len(q) + 1}
  BY <1>1, <1>2
<1>4. Elements(a) = Elements(q) \cup {e}
  BY <1>1, <1>3 DEF Elements
<1> QED
  BY <1>1, <1>4

(* The threads that hold a connection or look for one are in a DAO, so that they can be
   counted. *)
LEMMA Countable ==
    ASSUME DaoDiscipline
    PROVE  /\ IsFiniteSet(Holders) /\ Cardinality(Holders) \in Nat
           /\ IsFiniteSet(Seekers) /\ Cardinality(Seekers) \in Nat
           /\ Holders \subseteq InDao /\ Seekers \subseteq InDao /\ InDao \subseteq DbThreads
<1>1. Holders \subseteq InDao /\ Seekers \subseteq InDao /\ InDao \subseteq DbThreads
      /\ IsFiniteSet(InDao)
  BY DEF DaoDiscipline, Seekers, InDao
<1>2. IsFiniteSet(Holders) /\ IsFiniteSet(Seekers)
  BY <1>1, FS_Subset
<1> QED
  BY <1>1, <1>2, FS_CardinalityType

\* What the pool promises, without the types.
PoolKept == DbTypeOK /\ DaoDiscipline /\ ConnectionsConserved /\ NoLostDbWakeup

(* Who gets a connection no longer looks for one, and who falls asleep found the pool
   empty. *)
LEMMA ConnectKeepsPool ==
    ASSUME IInv, NEW t \in DbThreads, Connect(t)
    PROVE  PoolKept'
<1>0. /\ connectionPool \in Seq(DbConns) /\ Len(connectionPool) \in Nat
      /\ Cardinality(DbConns) \in Nat /\ NoDb \notin DbConns
      /\ held \in [DbThreads -> DbConns \cup {NoDb}]
      /\ poolCondition \subseteq DbThreads /\ alive \subseteq DbConns
      /\ DaoDiscipline
  BY PoolIsQueue DEF IInv, TypeOK, DbTypeOK
<1>1. /\ pc' = pc /\ t \in InDao /\ InDao' = InDao /\ t \notin poolCondition /\ held[t] = NoDb
  BY DEF Connect, InDao, GetConnection, WaitForConnection
<1>2. CASE GetConnection(t)
  <2>1. /\ connectionPool # <<>> /\ connectionPool' = Tail(connectionPool)
        /\ held' = [held EXCEPT ![t] = Head(connectionPool)]
        /\ UNCHANGED <<poolCondition, alive>>
    BY <1>2 DEF GetConnection
  <2> PICK d : d = Head(connectionPool)
    OBVIOUS
  <2>2. /\ d \in DbConns /\ d # NoDb /\ connectionPool' \in Seq(DbConns)
        /\ Len(connectionPool') = Len(connectionPool) - 1 /\ Len(connectionPool) > 0
        /\ Elements(connectionPool) = Elements(connectionPool') \cup {d}
    BY <1>0, <2>1, TakenFromQueue
  <2>3. /\ held' \in [DbThreads -> DbConns \cup {NoDb}] /\ held'[t] = d
        /\ \A u \in DbThreads : u # t => held'[u] = held[u]
    BY <1>0, <2>1, <2>2
  <2>4. DbTypeOK'
    BY <1>0, <2>1, <2>2, <2>3 DEF DbTypeOK
  <2>5. Holders' = Holders \cup {t} /\ t \notin Holders
    BY <1>1, <2>2, <2>3 DEF Holders
  <2>6. DaoDiscipline'
    BY <1>0, <1>1, <2>1, <2>3, <2>5 DEF DaoDiscipline
  <2>7. ConnectionsConserved'
    <3>1. \A u \in Holders' : pc'[u] \in DbPlaces
      BY <1>1, <2>6 DEF DaoDiscipline, InDao
    <3>2. Cardinality(Holders') = Cardinality(Holders) + 1 /\ Cardinality(Holders) \in Nat
      BY <1>0, <2>5, Countable, FS_AddElement
    <3>3. {held'[u] : u \in Holders'} = {held[u] : u \in Holders} \cup {d}
      BY <1>1, <2>3, <2>5 DEF Holders
    <3>4. Pooled = Elements(connectionPool) /\ Pooled' = Elements(connectionPool')
      BY DEF Pooled, Elements
    <3>5. Pooled' \cup {held'[u] : u \in Holders'} = Pooled \cup {held[u] : u \in Holders}
      BY <2>2, <3>3, <3>4
    <3>6. Len(connectionPool') + Cardinality(Holders') = Len(connectionPool) + Cardinality(Holders)
      BY <1>0, <2>2, <3>2
    <3> QED
      BY <1>1, <3>1, <3>5, <3>6 DEF IInv, ConnectionsConserved
  <2>8. NoLostDbWakeup'
    <3>1. Seekers' = Seekers \ {t} /\ t \in Seekers
      BY <1>1, <2>1, <2>2, <2>3 DEF Seekers, InDao
    <3>2. Cardinality(Seekers') = Cardinality(Seekers) - 1 /\ Cardinality(Seekers) \in Nat
      BY <1>0, <3>1, Countable, FS_RemoveElement
    <3> QED
      BY <1>0, <2>1, <2>2, <3>2 DEF IInv, NoLostDbWakeup
  <2> QED
    BY <2>4, <2>6, <2>7, <2>8 DEF PoolKept
<1>3. CASE WaitForConnection(t)
  <2>1. /\ connectionPool = <<>> /\ poolCondition' = poolCondition \cup {t}
        /\ UNCHANGED <<connectionPool, held, alive>>
    BY <1>3 DEF WaitForConnection
  <2>2. DbTypeOK'
    BY <1>0, <2>1 DEF DbTypeOK
  <2>3. Holders' = Holders
    BY <2>1 DEF Holders
  <2>4. DaoDiscipline'
    BY <1>0, <1>1, <2>1, <2>3 DEF DaoDiscipline
  <2>5. ConnectionsConserved'
    BY <1>1, <2>1, <2>3 DEF IInv, ConnectionsConserved, Pooled
  <2>6. Len(connectionPool') = 0 /\ Cardinality(Seekers)' \in Nat
    <3>1. Cardinality(Seekers') \in Nat
      <4>1. Seekers' \subseteq Seekers
        BY <1>1, <2>1 DEF Seekers
      <4> QED
        BY <1>0, <4>1, Countable, FS_Subset, FS_CardinalityType
    <3> QED
      BY <2>1, <3>1, EmptySeq
  <2> QED
    BY <2>2, <2>4, <2>5, <2>6 DEF PoolKept, NoLostDbWakeup
<1> QED
  BY <1>2, <1>3 DEF Connect

(* Who gives a connection back wakes a sleeper up for it. *)
LEMMA StatementKeepsPool ==
    ASSUME IInv, NEW t \in DbThreads, NEW from \in DbPlaces, NEW to, Statement(t, from, to)
    PROVE  PoolKept'
<1>0. /\ connectionPool \in Seq(DbConns) /\ Len(connectionPool) \in Nat
      /\ Cardinality(DbConns) \in Nat /\ NoDb \notin DbConns
      /\ held \in [DbThreads -> DbConns \cup {NoDb}]
      /\ poolCondition \subseteq DbThreads /\ alive \subseteq DbConns
      /\ DaoDiscipline
  BY PoolIsQueue DEF IInv, TypeOK, DbTypeOK
<1>1. /\ Goto(t, from, to) /\ held[t] # NoDb /\ ReleaseConnection(t)
  BY DEF Statement
<1>2. /\ pc[t] = from /\ \A u \in DbThreads : u # t => pc'[u] = pc[u]
      /\ pc'["main"] # "exited" => pc["main"] # "exited"
  <2>1. t \in Threads /\ DbThreads \subseteq Threads /\ "main" \in DbThreads
    BY ThreadNames
  <2>2. pc[t] = from /\ \A u \in DbThreads : u # t => pc'[u] = pc[u]
    BY <1>1, <2>1, GotoMoves DEF IInv
  <2> QED
    BY <2>1, <2>2 DEF DbPlaces
<1>3. /\ connectionPool' = Append(connectionPool, held[t])
      /\ held' = [held EXCEPT ![t] = NoDb] /\ UNCHANGED alive
      /\ \/ poolCondition = {} /\ UNCHANGED poolCondition
         \/ \E w \in poolCondition : poolCondition' = poolCondition \ {w}
  BY <1>1 DEF ReleaseConnection
<1> PICK d : d = held[t]
  OBVIOUS
<1>4. /\ d \in DbConns /\ connectionPool' \in Seq(DbConns)
      /\ Len(connectionPool') = Len(connectionPool) + 1
      /\ Elements(connectionPool') = Elements(connectionPool) \cup {d}
  BY <1>0, <1>1, <1>3, AddedToQueue
<1>5. /\ held' \in [DbThreads -> DbConns \cup {NoDb}] /\ held'[t] = NoDb
      /\ \A u \in DbThreads : u # t => held'[u] = held[u]
  BY <1>0, <1>3
<1>6. DbTypeOK'
  BY <1>0, <1>3, <1>4, <1>5 DEF DbTypeOK
<1>7. Holders' = Holders \ {t} /\ t \in Holders
  BY <1>1, <1>5 DEF Holders
<1>8. \A w \in poolCondition : w # t /\ w \in InDao' /\ w \in DbThreads
  BY <1>0, <1>1, <1>2 DEF DaoDiscipline, InDao
<1>9. DaoDiscipline'
  <2>1. InDao' \subseteq InDao
    BY <1>2 DEF InDao
  <2>2. IsFiniteSet(InDao')
    BY <1>0, <2>1, FS_Subset DEF DaoDiscipline
  <2>3. poolCondition' \subseteq poolCondition
    BY <1>3
  <2>4. Holders' \subseteq InDao'
    BY <1>0, <1>2, <1>7 DEF DaoDiscipline, InDao
  <2> QED
    BY <1>0, <1>5, <1>8, <2>2, <2>3, <2>4 DEF DaoDiscipline
<1>10. ConnectionsConserved'
  <2>1. \A u \in Holders' : pc'[u] \in DbPlaces
    BY <1>9 DEF DaoDiscipline, InDao
  <2>2. Cardinality(Holders') = Cardinality(Holders) - 1 /\ Cardinality(Holders) \in Nat
    BY <1>0, <1>7, Countable, FS_RemoveElement
  <2>3. {held[u] : u \in Holders} = {held'[u] : u \in Holders'} \cup {d}
    BY <1>5, <1>7 DEF Holders
  <2>4. Pooled = Elements(connectionPool) /\ Pooled' = Elements(connectionPool')
    BY DEF Pooled, Elements
  <2>5. Pooled' \cup {held'[u] : u \in Holders'} = Pooled \cup {held[u] : u \in Holders}
    BY <1>4, <2>3, <2>4
  <2>6. Len(connectionPool') + Cardinality(Holders') = Len(connectionPool) + Cardinality(Holders)
    BY <1>0, <1>4, <2>2
  <2> QED
    BY <1>2, <2>1, <2>5, <2>6 DEF IInv, ConnectionsConserved
<1>11. NoLostDbWakeup'
  <2> SUFFICES ASSUME poolCondition' # {}
               PROVE  Len(connectionPool') <= Cardinality(Seekers')
    BY DEF NoLostDbWakeup
  <2>1. PICK w \in poolCondition : poolCondition' = poolCondition \ {w}
    BY <1>3
  <2>2. Seekers \cup {w} \subseteq Seekers' /\ w \notin Seekers
    BY <1>0, <1>1, <1>2, <1>5, <1>8, <2>1 DEF DaoDiscipline, Seekers, InDao
  <2>3. Cardinality(Seekers \cup {w}) = Cardinality(Seekers) + 1 /\ Cardinality(Seekers) \in Nat
    BY <1>0, <2>2, Countable, FS_AddElement
  <2>4. IsFiniteSet(Seekers') /\ Cardinality(Seekers') \in Nat
    <3>1. Seekers' \subseteq InDao'
      BY DEF Seekers, InDao
    <3> QED
      BY <1>9, <3>1, FS_Subset, FS_CardinalityType DEF DaoDiscipline
  <2>5. Cardinality(Seekers \cup {w}) <= Cardinality(Seekers')
    BY <2>2, <2>4, FS_Subset
  <2>6. Len(connectionPool) <= Cardinality(Seekers)
    BY <2>1 DEF IInv, NoLostDbWakeup
  <2> QED
    BY <1>0, <1>4, <2>3, <2>4, <2>5, <2>6
<1> QED
  BY <1>6, <1>9, <1>10, <1>11 DEF PoolKept

\* A step that uses no database connection: thread t is in no DAO, and the others stay in
\* theirs.
Quiet(t) ==
    /\ UNCHANGED dbVars /\ pc[t] \notin DbPlaces
    /\ \A u \in DbThreads : u # t => (pc'[u] \in DbPlaces <=> pc[u] \in DbPlaces)
    /\ pc["main"] = "exited" => pc'["main"] = "exited"

(* Such a step can only add to those who look for a connection. *)
LEMMA QuietKeepsPool ==
    ASSUME IInv, NEW t, Quiet(t)
    PROVE  PoolKept'
<1>0. DaoDiscipline /\ ConnectionsConserved /\ NoLostDbWakeup /\ DbTypeOK
  BY DEF IInv, TypeOK
<1>1. /\ UNCHANGED <<connectionPool, poolCondition, held, alive>> /\ t \notin InDao
      /\ Holders' = Holders
  BY DEF Quiet, dbVars, Holders, InDao
<1>2. InDao \subseteq InDao' /\ InDao' \subseteq InDao \cup {t}
  BY DEF Quiet, InDao
<1>3. DaoDiscipline'
  <2>1. IsFiniteSet(InDao')
    BY <1>0, <1>2, FS_AddElement, FS_Subset DEF DaoDiscipline
  <2> QED
    BY <1>0, <1>1, <1>2, <2>1 DEF DaoDiscipline
<1>4. ConnectionsConserved'
  <2>1. \A u \in Holders' : pc'[u] \in DbPlaces
    BY <1>3 DEF DaoDiscipline, InDao
  <2>2. Pooled' = Pooled /\ {held'[u] : u \in Holders'} = {held[u] : u \in Holders}
    BY <1>1 DEF Pooled
  <2> QED
    BY <1>0, <1>1, <2>1, <2>2 DEF ConnectionsConserved, Quiet
<1>5. NoLostDbWakeup'
  <2>1. Seekers \subseteq Seekers' /\ Seekers' \subseteq InDao'
    BY <1>1, <1>2 DEF Seekers, InDao
  <2>2. Cardinality(Seekers) <= Cardinality(Seekers') /\ Cardinality(Seekers') \in Nat
        /\ Cardinality(Seekers) \in Nat
    BY <1>0, <1>3, <2>1, Countable, FS_Subset, FS_CardinalityType DEF DaoDiscipline
  <2>3. Len(connectionPool) \in Nat
    BY PoolIsQueue DEF IInv
  <2> QED
    BY <1>0, <1>1, <2>2, <2>3 DEF NoLostDbWakeup
<1>6. DbTypeOK'
  BY <1>0, <1>1 DEF DbTypeOK
<1> QED
  BY <1>3, <1>4, <1>5, <1>6 DEF PoolKept

(* A sleeper that wakes up by itself looks again, and a connection that is lost stays
   where it is. *)
LEMMA WakeKeepsPool ==
    ASSUME IInv, (\E t \in DbThreads : WakeSpuriously(t)) \/ (\E d \in DbConns : Drop(d))
    PROVE  PoolKept'
<1>0. DaoDiscipline /\ ConnectionsConserved /\ NoLostDbWakeup /\ DbTypeOK
  BY DEF IInv, TypeOK
<1>1. /\ UNCHANGED <<connectionPool, held, pc>> /\ poolCondition' \subseteq poolCondition
      /\ alive' \subseteq alive
  BY DEF WakeSpuriously, Drop, SpuriousWakeup, DropConnection
<1>2. Holders' = Holders /\ InDao' = InDao /\ Pooled' = Pooled
  BY <1>1 DEF Holders, InDao, Pooled
<1>3. DaoDiscipline'
  BY <1>0, <1>1, <1>2 DEF DaoDiscipline
<1>4. ConnectionsConserved'
  BY <1>0, <1>1, <1>2 DEF ConnectionsConserved
<1>5. NoLostDbWakeup'
  <2>1. Seekers \subseteq Seekers' /\ Seekers' \subseteq InDao'
    BY <1>1 DEF Seekers, InDao
  <2>2. Cardinality(Seekers) <= Cardinality(Seekers') /\ Cardinality(Seekers') \in Nat
        /\ Cardinality(Seekers) \in Nat
    BY <1>0, <1>3, <2>1, Countable, FS_Subset, FS_CardinalityType DEF DaoDiscipline
  <2>3. Len(connectionPool) \in Nat
    BY PoolIsQueue DEF IInv
  <2>4. poolCondition' # {} => poolCondition # {}
    BY <1>1
  <2> QED
    BY <1>0, <1>1, <2>2, <2>3, <2>4 DEF NoLostDbWakeup
<1>6. DbTypeOK'
  BY <1>0, <1>1 DEF DbTypeOK
<1> QED
  BY <1>3, <1>4, <1>5, <1>6 DEF PoolKept

(* The pool is destroyed when nobody can look for a connection any more. *)
LEMMA FreeKeepsPool ==
    ASSUME IInv, Free
    PROVE  PoolKept'
<1>0. DaoDiscipline /\ ConnectionsConserved /\ DbTypeOK
  BY DEF IInv, TypeOK
<1>1. /\ Goto("main", "free", "exited") /\ connectionPool' = <<>>
      /\ UNCHANGED <<poolCondition, held, alive>>
  BY DEF Free, DestroyPool
<1>2. /\ pc["main"] = "free" /\ pc'["main"] = "exited"
      /\ \A u \in DbThreads : u # "main" => pc'[u] = pc[u]
  <2>1. "main" \in Threads /\ DbThreads \subseteq Threads
    BY ThreadNames
  <2> QED
    BY <1>1, <2>1, GotoMoves DEF IInv
<1>3. InDao' = InDao /\ Holders' = Holders
  BY <1>1, <1>2 DEF InDao, Holders, DbPlaces
<1>4. DaoDiscipline'
  BY <1>0, <1>1, <1>3 DEF DaoDiscipline
<1>5. ConnectionsConserved'
  BY <1>2, <1>4 DEF ConnectionsConserved, DaoDiscipline, InDao
<1>6. NoLostDbWakeup'
  <2>1. Cardinality(Seekers') \in Nat
    <3>1. Seekers' \subseteq InDao'
      BY DEF Seekers, InDao
    <3> QED
      BY <1>4, <3>1, FS_Subset, FS_CardinalityType DEF DaoDiscipline
  <2>2. Len(connectionPool') = 0
    BY <1>1, EmptySeq
  <2> QED
    BY <2>1, <2>2 DEF NoLostDbWakeup
<1>7. DbTypeOK'
  BY <1>0, <1>1, EmptySeq DEF DbTypeOK
<1> QED
  BY <1>4, <1>5, <1>6, <1>7 DEF PoolKept

(* Every step is one of these. *)
LEMMA PoolSteps ==
    ASSUME IInv, [Next]_vars
    PROVE  \/ \E t : Quiet(t)
           \/ \E t \in DbThreads : Connect(t)
           \/ \E t \in DbThreads, from \in DbPlaces : \E to : Statement(t, from, to)
           \/ (\E t \in DbThreads : WakeSpuriously(t)) \/ (\E d \in DbConns : Drop(d))
           \/ Free
<1>0. /\ TypeOK /\ DOMAIN pc = Threads /\ {"main", "accept", "heartbeat", "monitor"} \subseteq Threads
      /\ Conns \subseteq Threads /\ DbThreads \subseteq Threads /\ Conns \subseteq DbThreads
      /\ {"main", "monitor"} \subseteq DbThreads /\ "accept" \notin DbThreads
      /\ "heartbeat" \notin DbThreads
      /\ \A c \in Conns : c \notin {"main", "accept", "heartbeat", "monitor"}
      /\ Located /\ ThreadsJoined
  BY ThreadNames DEF IInv, Control, TypeOK
<1>1. ASSUME NEW t \in Threads, NEW from, NEW to, from \notin DbPlaces \cup {"exited"},
             Goto(t, from, to), UNCHANGED dbVars
      PROVE  Quiet(t)
  <2>1. /\ pc[t] = from /\ \A u \in Threads : u # t => pc'[u] = pc[u]
    BY <1>0, <1>1, GotoMoves
  <2> QED
    BY <1>0, <1>1, <2>1 DEF Quiet
<1>2. ASSUME UNCHANGED <<pc, dbVars>>
      PROVE  Quiet("accept")
  BY <1>0, <1>2 DEF Quiet, Located, DbPlaces
<1>3. CASE Boot \/ Listen \/ StartFails \/ Start \/ Join \/ Destroy \/ JoinWorkers
  <2>1. /\ UNCHANGED dbVars
        /\ \E from \in {"boot", "setup", "listen", "join", "destroy", "pool"} : \E to :
                Goto("main", from, to)
    BY <1>3 DEF Boot, Listen, StartFails, Start, Join, Destroy, JoinWorkers
  <2> QED
    BY <1>0, <1>1, <2>1 DEF DbPlaces
<1>4. CASE StartThreads \/ SpawnAccept
  <2>1. /\ UNCHANGED dbVars /\ pc["main"] \in {"threads", "log"}
        /\ \A u \in DbThreads : u \notin {"main", "monitor"} => pc'[u] = pc[u]
        /\ pc["main"] = "log" => pc'["monitor"] = pc["monitor"]
        /\ pc["main"] = "threads" => pc'["monitor"] = "sleep"
    BY <1>0, <1>4 DEF StartThreads, SpawnAccept
  <2>2. pc["main"] = "threads" => pc["monitor"] = "none"
    BY <1>0 DEF ThreadsJoined, Booting
  <2>3. Quiet("main")
    BY <2>1, <2>2 DEF Quiet, DbPlaces
  <2> QED
    BY <2>3
<1>5. CASE StopRunning \/ StopMonitor \/ JoinMonitor \/ JoinHeartbeat \/ Snapshot
            \/ (\E c \in Conns : Visit(c)) \/ ShutdownSession \/ CloseListener
  <2>1. /\ UNCHANGED dbVars
        /\ \E from \in {"stop", "stopMonitor", "joinMonitor", "joinHeartbeat", "snapshot", "walk",
                        "walkShut"} : \E to : Goto("main", from, to)
    BY <1>5 DEF StopRunning, StopMonitor, JoinMonitor, JoinHeartbeat, Snapshot, Visit,
        ShutdownSession, CloseListener
  <2> QED
    BY <1>0, <1>1, <2>1 DEF DbPlaces
<1>6. CASE Signal
  <2>1. CASE UNCHANGED pc
    BY <1>2, <1>6, <2>1 DEF Signal
  <2>2. CASE pc["main"] \in {"setup", "listen", "threads", "join"} /\ pc' = [pc EXCEPT !["main"] = "stop"]
    <3>1. UNCHANGED dbVars
      BY <1>6 DEF Signal
    <3>2. Quiet("main")
      BY <1>0, <2>2, <3>1 DEF Quiet, DbPlaces
    <3> QED
      BY <3>2
  <2> QED
    BY <1>6, <2>1, <2>2 DEF Signal
<1>7. CASE FollowFreed \/ UNCHANGED vars
  BY <1>2, <1>7 DEF FollowFreed, vars
<1>8. CASE AcceptLoop \/ AcceptFails \/ HeartbeatThread \/ MonitorLoop
  <2>1. /\ UNCHANGED dbVars
        /\ \E t \in {"accept", "heartbeat", "monitor"}, from \in {"loop", "accept", "sleep"} : \E to :
                Goto(t, from, to)
    BY <1>8 DEF AcceptLoop, AcceptFails, HeartbeatThread, MonitorLoop
  <2> QED
    BY <1>0, <1>1, <2>1 DEF DbPlaces
<1>9. ASSUME NEW c \in Conns, Accept(c) \/ Register(c)
      PROVE  Quiet(c)
  BY <1>0, <1>9 DEF Accept, Register, Quiet, DbPlaces
<1>10. ASSUME NEW c \in Conns,
              StartTask(c) \/ TestRunning(c) \/ NameSession(c) \/ Reply(c) \/ FindSession(c)
                \/ Remove(c) \/ Wait(c)
       PROVE  Quiet(c)
  <2>1. /\ UNCHANGED dbVars
        /\ \E from \in {"queued", "test", "recv", "name", "reply", "find", "remove"} : \E to :
                Goto(c, from, to)
    BY <1>10 DEF StartTask, TestRunning, NameSession, Reply, FindSession, Remove, Wait, Receive,
        ReceiveNothing
  <2> QED
    BY <1>0, <1>1, <2>1 DEF DbPlaces
<1>11. ASSUME NEW c \in Conns,
              SetOnline(c) \/ UpdateOffline(c) \/ Notify(c, "notifyOnline", "reply")
                \/ Notify(c, "notifyOffline", "remove")
       PROVE  \E from \in DbPlaces : \E to : Statement(c, from, to)
  BY <1>11 DEF SetOnline, UpdateOffline, Notify, DbPlaces
<1>12. CASE SetOffline \/ ValidateConnection
  BY <1>0, <1>12 DEF SetOffline, ValidateConnection, DbPlaces
<1>13. CASE Next
  <2>1. CASE Main
    BY <1>3, <1>4, <1>5, <1>12, <2>1 DEF Main, Stop
  <2>2. CASE AcceptThread \/ HeartbeatThread \/ MonitorThread
    BY <1>8, <1>9, <1>12, <2>2 DEF AcceptThread, MonitorThread
  <2>3. ASSUME NEW c \in Conns, Accept(c) \/ Proceed(c) \/ Wait(c)
        PROVE  (\E t : Quiet(t)) \/ \E t \in DbThreads, from \in DbPlaces : \E to : Statement(t, from, to)
    <3>1. CASE Accept(c) \/ Wait(c) \/ StartTask(c) \/ TestRunning(c) \/ NameSession(c) \/ Reply(c)
                \/ FindSession(c) \/ Remove(c)
      BY <1>9, <1>10, <3>1
    <3>2. CASE SetOnline(c) \/ UpdateOffline(c) \/ Notify(c, "notifyOnline", "reply")
                \/ Notify(c, "notifyOffline", "remove")
      BY <1>0, <1>11, <3>2
    <3> QED
      BY <2>3, <3>1, <3>2 DEF Proceed
  <2> QED
    BY <1>6, <1>7, <1>13, <2>1, <2>2, <2>3 DEF Next
<1> QED
  BY <1>7, <1>13

(* The pool keeps its promises. *)
LEMMA PoolStep == IInv /\ [Next]_vars => PoolKept'
BY PoolSteps, QuietKeepsPool, ConnectKeepsPool, StatementKeepsPool, WakeKeepsPool, FreeKeepsPool

-----------------------------------------------------------------------------
(* Types *)

\* The types of the server's variables, one by one.
ServerTypeOK ==
    /\ process \in {"up", "crashed", "hung"}
    /\ stored \subseteq Conns /\ named \subseteq Conns /\ shut \subseteq Conns
    /\ online \subseteq Conns /\ walk \subseteq Conns
    /\ ptr \in Conns \cup {"none"} /\ target \in Conns \cup {"none"}
    /\ resume \in {"none", "setup", "listen", "threads", "join", "pool"}
    /\ DOMAIN pc = Threads

FlagsOK ==
    /\ running \in BOOLEAN /\ isRunning \in BOOLEAN /\ listening \in BOOLEAN
    /\ signalled \in BOOLEAN /\ heard \in BOOLEAN /\ failed \in BOOLEAN

(* The type invariant is made of these. *)
LEMMA TypeParts == TypeOK <=> DbTypeOK /\ ServerTypeOK /\ FlagsOK
<1>1. {running, isRunning, listening, signalled, heard, failed} \subseteq BOOLEAN <=> FlagsOK
  BY Zenon DEF FlagsOK
<1> QED
  BY <1>1 DEF TypeOK, ServerTypeOK

LEMMA TypePartsNext == TypeOK' <=> DbTypeOK' /\ ServerTypeOK' /\ FlagsOK'
<1>1. {running', isRunning', listening', signalled', heard', failed'} \subseteq BOOLEAN <=> FlagsOK'
  BY Zenon DEF FlagsOK
<1> QED
  BY <1>1 DEF TypeOK, ServerTypeOK

(* Every step keeps the types. *)
LEMMA TypeStep == IInv /\ [Next]_vars => ServerTypeOK' /\ FlagsOK'
<1> SUFFICES ASSUME IInv, [Next]_vars PROVE ServerTypeOK' /\ FlagsOK'
  OBVIOUS
<1>0. ServerTypeOK /\ FlagsOK
  BY TypeParts DEF IInv
<1>1. ASSUME NEW t, NEW from, NEW to, Goto(t, from, to)
      PROVE  DOMAIN pc' = Threads
  BY <1>0, <1>1 DEF Goto, ServerTypeOK
<1>2. ASSUME NEW t, NEW from, NEW to, Statement(t, from, to)
      PROVE  DOMAIN pc' = Threads /\ failed' \in BOOLEAN
  <2>1. failed' \in BOOLEAN
    BY <1>2, Zenon DEF Statement
  <2> QED
    BY <1>1, <1>2, <2>1 DEF Statement
<1>3. ASSUME UNCHANGED <<serverVars, stopVars, failed>>, process' \in {"up", "crashed", "hung"},
             DOMAIN pc' = Threads
      PROVE  ServerTypeOK' /\ FlagsOK'
  BY <1>0, <1>3 DEF ServerTypeOK, FlagsOK, serverVars, stopVars
<1>4. \A c : SendTo(c) => process' \in {"up", "crashed", "hung"}
  BY <1>0 DEF SendTo, ServerTypeOK
<1>5. CASE Boot \/ StartFails \/ SpawnAccept \/ Join \/ JoinWorkers \/ JoinMonitor \/ JoinHeartbeat
            \/ FollowFreed \/ AcceptLoop \/ AcceptFails \/ HeartbeatThread \/ MonitorLoop
            \/ (\E c \in Conns : Accept(c) \/ StartTask(c) \/ TestRunning(c) \/ Wait(c) \/ FindSession(c))
            \/ (\E t \in DbThreads : Connect(t) \/ WakeSpuriously(t))
            \/ (\E d \in DbConns : Drop(d)) \/ UNCHANGED vars
  <2>1. UNCHANGED <<serverVars, stopVars, failed>>
    BY <1>5 DEF Boot, StartFails, SpawnAccept, Join, JoinWorkers, JoinMonitor, JoinHeartbeat,
        FollowFreed, AcceptLoop, AcceptFails, HeartbeatThread, MonitorLoop, Accept, StartTask,
        TestRunning, Wait, Receive, ReceiveNothing, FindSession, Connect, WakeSpuriously, Drop, vars
  <2>2. process' \in {"up", "crashed", "hung"}
    BY <1>0, <1>5 DEF Boot, StartFails, SpawnAccept, Join, JoinWorkers, JoinMonitor, JoinHeartbeat,
        FollowFreed, AcceptLoop, AcceptFails, HeartbeatThread, MonitorLoop, Accept, StartTask,
        TestRunning, Wait, Receive, ReceiveNothing, FindSession, Connect, WakeSpuriously, Drop, vars,
        ServerTypeOK
  <2>3. DOMAIN pc' = Threads
    BY <1>0, <1>5 DEF Boot, StartFails, SpawnAccept, Join, JoinWorkers, JoinMonitor, JoinHeartbeat,
        FollowFreed, AcceptLoop, AcceptFails, HeartbeatThread, MonitorLoop, Accept, StartTask,
        TestRunning, Wait, Receive, ReceiveNothing, FindSession, Connect, WakeSpuriously, Drop, vars,
        ServerTypeOK, Goto
  <2> QED
    BY <1>3, <2>1, <2>2, <2>3
<1>6. CASE Listen \/ Start \/ StartThreads \/ StopRunning \/ StopMonitor \/ CloseListener
  <2>1. UNCHANGED <<process, stored, named, shut, online, walk, ptr, target, signalled, heard, failed>>
        /\ (UNCHANGED resume \/ resume' = "none")
    BY <1>6 DEF Listen, Start, StartThreads, StopRunning, StopMonitor, CloseListener, stopVars
  <2>2. DOMAIN pc' = Threads
    BY <1>0, <1>1, <1>6 DEF Listen, Start, StartThreads, StopRunning, StopMonitor, CloseListener,
        ServerTypeOK
  <2>3. /\ running' \in {running, TRUE, FALSE} /\ isRunning' \in {isRunning, TRUE, FALSE}
        /\ listening' \in {listening, TRUE, FALSE}
    BY <1>6, Zenon DEF Listen, Start, StartThreads, StopRunning, StopMonitor, CloseListener
  <2>4. running' \in BOOLEAN /\ isRunning' \in BOOLEAN /\ listening' \in BOOLEAN
    BY <1>0, <2>3 DEF FlagsOK
  <2> QED
    BY <1>0, <2>1, <2>2, <2>4 DEF ServerTypeOK, FlagsOK
<1>7. CASE Signal
  <2>0. heard' = (pc["main"] \in {"threads", "join"}) \/ heard' = heard
    BY <1>7, Zenon DEF Signal
  <2>1. UNCHANGED <<serverVars, walk, ptr, target, failed>> /\ signalled' = TRUE
    BY <1>7 DEF Signal
  <2>3. (pc["main"] \in {"threads", "join"}) \in BOOLEAN
    OBVIOUS
  <2>4. heard' \in BOOLEAN
    BY <1>0, <2>0, <2>3, Zenon DEF FlagsOK
  <2>2. /\ process' \in {"up", "crashed", "hung"} /\ DOMAIN pc' = Threads
        /\ resume' \in {"none", "setup", "listen", "threads", "join", "pool"}
    BY <1>0, <1>7 DEF Signal, ServerTypeOK
  <2> QED
    BY <1>0, <2>1, <2>2, <2>4 DEF ServerTypeOK, FlagsOK, serverVars
<1>8. CASE Destroy \/ Snapshot \/ ShutdownSession \/ Free \/ (\E c \in Conns : Visit(c))
  <2>1. UNCHANGED <<process, running, isRunning, listening, named, online, signalled, heard, failed>>
    BY <1>8 DEF Destroy, Snapshot, ShutdownSession, Free, Visit, serverVars, stopVars
  <2>2. DOMAIN pc' = Threads
    BY <1>0, <1>8 DEF Destroy, Snapshot, ShutdownSession, Free, Visit, ServerTypeOK, Goto
  <2>3. /\ stored' \subseteq Conns /\ shut' \subseteq Conns /\ walk' \subseteq Conns
        /\ ptr' \in Conns \cup {"none"} /\ target' \in Conns \cup {"none"}
        /\ resume' \in {"none", "setup", "listen", "threads", "join", "pool"}
    BY <1>0, <1>8 DEF Destroy, Snapshot, ShutdownSession, Free, Visit, serverVars, stopVars,
        ServerTypeOK, Seen
  <2> QED
    BY <1>0, <2>1, <2>2, <2>3 DEF ServerTypeOK, FlagsOK
<1>9. CASE SetOffline \/ (\E c \in Conns : SetOnline(c) \/ UpdateOffline(c))
  <2>1. /\ UNCHANGED <<process, running, isRunning, listening, stored, named, shut, stopVars>>
        /\ online' \subseteq online \cup Conns
    BY <1>9 DEF SetOffline, SetOnline, UpdateOffline, UpdateUserOnlineStatus
  <2>2. DOMAIN pc' = Threads /\ failed' \in BOOLEAN
    BY <1>2, <1>9 DEF SetOffline, SetOnline, UpdateOffline
  <2> QED
    BY <1>0, <2>1, <2>2 DEF ServerTypeOK, FlagsOK, stopVars
<1>10. CASE ValidateConnection
            \/ (\E c \in Conns : Notify(c, "notifyOnline", "reply") \/ Notify(c, "notifyOffline", "remove"))
  <2>1. UNCHANGED <<serverVars, stopVars>>
    BY <1>10 DEF ValidateConnection, Notify
  <2>2. process' \in {"up", "crashed", "hung"}
    BY <1>0, <1>4, <1>10 DEF ValidateConnection, Notify, ServerTypeOK
  <2>3. DOMAIN pc' = Threads /\ failed' \in BOOLEAN
    BY <1>2, <1>10 DEF ValidateConnection, Notify
  <2> QED
    BY <1>0, <2>1, <2>2, <2>3 DEF ServerTypeOK, FlagsOK, serverVars, stopVars
<1>11. CASE \E c \in Conns : Register(c) \/ NameSession(c) \/ Reply(c) \/ Remove(c)
  <2>1. UNCHANGED <<running, isRunning, listening, online, stopVars, failed>>
    BY <1>11 DEF Register, NameSession, Reply, Remove, serverVars
  <2>2. stored' \subseteq Conns /\ named' \subseteq Conns /\ shut' \subseteq Conns
    BY <1>0, <1>11 DEF Register, NameSession, Reply, Remove, serverVars, ServerTypeOK
  <2>3. process' \in {"up", "crashed", "hung"}
    BY <1>0, <1>4, <1>11 DEF Register, NameSession, Reply, Remove, ServerTypeOK
  <2>4. DOMAIN pc' = Threads
    BY <1>0, <1>1, <1>11 DEF Register, NameSession, Reply, Remove, ServerTypeOK
  <2> QED
    BY <1>0, <2>1, <2>2, <2>3, <2>4 DEF ServerTypeOK, FlagsOK, stopVars
<1> QED
  BY <1>5, <1>6, <1>7, <1>8, <1>9, <1>10, <1>11 DEF Next, Main, Stop, AcceptThread, MonitorThread,
      Proceed

-----------------------------------------------------------------------------
(* The theorems *)

(* The pool is filled before the server exists. *)
LEMMA InitIInv == Init => IInv
<1> SUFFICES ASSUME Init PROVE IInv
  OBVIOUS
<1>1. IsFiniteSet(DbConns) /\ Cardinality(DbConns) \in Nat
  BY DbAssumption, FS_CardinalityType
<1>2. /\ connectionPool \in [1..Cardinality(DbConns) -> DbConns]
      /\ {connectionPool[i] : i \in 1..Cardinality(DbConns)} = DbConns
  BY DEF Init, DbInit
<1>3. connectionPool \in Seq(DbConns) /\ Len(connectionPool) = Cardinality(DbConns)
  BY <1>1, <1>2
<1>4. TypeOK
  <2>1. DbTypeOK
    BY <1>3 DEF Init, DbInit, DbTypeOK
  <2>2. ServerTypeOK /\ FlagsOK
    BY DEF Init, ServerTypeOK, FlagsOK
  <2> QED
    BY <2>1, <2>2, TypeParts
<1>5. Control
  <2>1. pc["main"] = "boot" /\ \A t \in Threads \ {"main"} : pc[t] = "none"
    BY ThreadNames DEF Init
  <2>2. /\ ~running /\ ~isRunning /\ stored = {} /\ named = {} /\ walk = {}
    BY DEF Init
  <2>3. /\ pc["accept"] = "none" /\ pc["heartbeat"] = "none" /\ pc["monitor"] = "none"
        /\ \A c \in Conns : pc[c] = "none"
    BY <2>1, ThreadNames
  <2> QED
    BY <2>1, <2>2, <2>3 DEF Control, Located, AcceptThreadInTime, RunningInTime, ThreadsJoined,
        StoredWhileHandled, WaitingAreVisited, OfflineAfterwards, Booting, Stopping, Walking,
        Leaving, HandlerPlaces
<1>6. InDao = {} /\ Holders = {} /\ poolCondition = {}
  BY ThreadNames DEF Init, DbInit, InDao, Holders, DbPlaces
<1>7. DaoDiscipline
  BY <1>6, FS_EmptySet DEF DaoDiscipline
<1>8. ConnectionsConserved
  <2>1. Pooled = DbConns
    BY <1>2, <1>3 DEF Pooled
  <2>2. Cardinality(Holders) = 0 /\ {held[t] : t \in Holders} = {}
    BY <1>6, FS_EmptySet
  <2> QED
    BY <1>1, <1>3, <1>6, <2>1, <2>2 DEF ConnectionsConserved
<1>9. NoLostDbWakeup
  BY <1>6 DEF NoLostDbWakeup
<1> QED
  BY <1>4, <1>5, <1>7, <1>8, <1>9 DEF IInv

(* The invariant of control and of the pool of connections always holds. *)
THEOREM Invariance == Spec => []IInv
<1>1. IInv /\ [Next]_vars => IInv'
  BY ControlStep, PoolStep, TypeStep, TypePartsNext DEF IInv, PoolKept
<1> QED
  BY InitIInv, <1>1, PTL DEF Spec

(* Every variable has its type. *)
THEOREM TypeCorrect == Spec => []TypeOK
<1>1. IInv => TypeOK
  BY DEF IInv
<1> QED
  BY <1>1, Invariance, PTL

(* No database connection is lost or given to two threads, whatever fails
   (db_manager.cpp:83-103). *)
THEOREM Conservation == Spec => []ConnectionsConserved
<1>1. IInv => ConnectionsConserved
  BY DEF IInv
<1> QED
  BY <1>1, Invariance, PTL

(* A free connection never waits while threads sleep for one (db_manager.cpp:85 and 102). *)
THEOREM NoWakeupIsLost == Spec => []NoLostDbWakeup
<1>1. IInv => NoLostDbWakeup
  BY DEF IInv
<1> QED
  BY <1>1, Invariance, PTL

(* Stop leaves no handler waiting for its client, at whatever moment the signal comes and
   whoever connects meanwhile (server.cpp:157, 165, 175, 214 and 228). *)
THEOREM EveryoneIsShutDown == Spec => []NobodyLeftInRecv
<1>1. IInv => NobodyLeftInRecv
  BY DEF IInv, Control, WaitingAreVisited, NobodyLeftInRecv, SessionsShutDown, Walking, Leaving
<1> QED
  BY <1>1, Invariance, PTL

(* Whoever logged in is off line when the process ends, unless a statement failed
   (README.md:149; server.cpp:169 and 240). *)
THEOREM AllOffline == Spec => []OfflineAtExit
<1>1. IInv => OfflineAtExit
  <2> SUFFICES ASSUME IInv, pc["main"] = "exited", ~failed, NEW c \in online, c \in named
               PROVE  FALSE
    BY DEF OfflineAtExit
  <2>1. c \in Conns /\ pc[c] \in {"none", "done"}
    BY DEF IInv, TypeOK, Control, ThreadsJoined
  <2> QED
    BY <2>1 DEF IInv, Control, OfflineAfterwards
<1> QED
  BY <1>1, Invariance, PTL

(* The destructors run when no thread, no handler and no session is left, with every
   database connection in the pool (main.cpp:32-38, server.cpp:41-45). *)
THEOREM CleanExit == Spec => []NothingLeftAtExit
<1>1. IInv => NothingLeftAtExit
  <2> SUFFICES ASSUME IInv, pc["main"] \in {"free", "exited"}
               PROVE  /\ \A c \in Conns : pc[c] \in {"none", "done"}
                      /\ \A t \in {"accept", "heartbeat", "monitor"} : pc[t] \in {"none", "exited"}
                      /\ stored = {} /\ Holders = {} /\ poolCondition = {}
                      /\ pc["main"] = "free" => Pooled = DbConns
    BY DEF NothingLeftAtExit
  <2>1. \A c \in Conns : pc[c] \in {"none", "done"}
    BY DEF IInv, Control, ThreadsJoined
  <2>2. \A t \in {"accept", "heartbeat", "monitor"} : pc[t] \in {"none", "exited"}
    BY DEF IInv, Control, ThreadsJoined, AcceptThreadInTime, Leaving
  <2>3. stored = {}
    BY <2>1 DEF IInv, TypeOK, Control, StoredWhileHandled
  <2>4. InDao = {}
    BY <2>1, <2>2, ThreadNames DEF InDao, DbPlaces
  <2>5. Holders = {} /\ poolCondition = {}
    BY <2>4 DEF IInv, DaoDiscipline
  <2>6. pc["main"] = "free" => Pooled = DbConns
    BY <2>5 DEF IInv, ConnectionsConserved
  <2> QED
    BY <2>1, <2>2, <2>3, <2>5, <2>6
<1> QED
  BY <1>1, Invariance, PTL

=============================================================================
