---------------------------- MODULE ServerProofs ----------------------------
(***************************************************************************)
(* For any number of connections, descriptors and users, with timeouts,    *)
(* exceptions and failing statements: the discipline of sockets, of        *)
(* session objects and of the limit on connections.                        *)
(*                                                                         *)
(* Most of the steps are harmless: they touch neither the descriptors nor  *)
(* the session map nor the counter, and leave every connection on the same *)
(* side of each line the invariant draws.  They are dealt with together;   *)
(* what remains are the steps that accept, register, remove, count and     *)
(* close.                                                                  *)
(***************************************************************************)
EXTENDS Server, TLAPS

(* The parts of IInv that harmless steps cannot disturb. *)
Discipline ==
    /\ SocketAssigned /\ SocketDiscipline
    /\ StoredSessionsAreAlive
    /\ OneBeingAdmitted /\ CounterWithinLimit

Harmless ==
    /\ UNCHANGED <<fd, fdOwner, cliSessionMap, object, currentConnections>>
    /\ \A c \in Conns :
        /\ HoldsSocket(c)' <=> HoldsSocket(c)
        /\ HasSession(c)' <=> HasSession(c)
        /\ pc'[c] = "accepted" <=> pc[c] = "accepted"
        /\ pc'[c] \in {"none", "refused"} <=> pc[c] \in {"none", "refused"}

(* A harmless step keeps the discipline. *)
LEMMA HarmlessStep ==
    ASSUME TypeOK, Discipline, Harmless
    PROVE  Discipline'
<1> USE DEF Discipline, Harmless
<1>1. SocketAssigned'
  BY DEF SocketAssigned
<1>2. SocketDiscipline'
  BY DEF SocketDiscipline, HoldsSocket
<1>3. StoredSessionsAreAlive'
  <2>1. \A f \in Fds : cliSessionMap[f] # NoConn => cliSessionMap[f] \in Conns
    BY DEF TypeOK, SessionTypeOK
  <2> QED
    BY <2>1 DEF StoredSessionsAreAlive, HasSession
<1>4. OneBeingAdmitted'
  BY DEF OneBeingAdmitted
<1>5. CounterWithinLimit'
  BY DEF CounterWithinLimit
<1> QED
  BY <1>1, <1>2, <1>3, <1>4, <1>5

(* The initial state satisfies the inductive invariant. *)
LEMMA InitIInv == Init => IInv
<1> SUFFICES ASSUME Init PROVE IInv
  OBVIOUS
<1> USE SessionAssumption, ServerAssumption, HeartbeatAssumption DEF Init, SessionInit
<1>1. TypeOK
  <2>1. taskQueue \in Seq(Conns)
    OBVIOUS
  <2>2. SessionTypeOK
    BY DEF SessionTypeOK
  <2>3. local \in [Threads -> Locals]
    BY DEF Locals, NoLocals
  <2>4. pc \in [Threads -> Places \cup HeartbeatPlaces]
    BY DEF Places, HeartbeatPlaces, NotServing
  <2> QED BY <2>1, <2>2, <2>3, <2>4 DEF TypeOK
<1>2. \A c \in Conns : pc[c] = "none"
  BY DEF Threads
<1>3. SocketAssigned /\ SocketDiscipline
  BY <1>2 DEF SocketAssigned, SocketDiscipline, HoldsSocket
<1>4. StoredSessionsAreAlive
  BY DEF StoredSessionsAreAlive
<1>5. OneBeingAdmitted /\ CounterWithinLimit
  BY <1>2 DEF OneBeingAdmitted, CounterWithinLimit
<1>6. HeartbeatHoldsSocket /\ LoginNamesUser
  BY <1>2 DEF HeartbeatHoldsSocket, LoginNamesUser, Threads
<1> QED
  BY <1>1, <1>3, <1>4, <1>5, <1>6 DEF IInv

(* A thread that moves between places on the same sides of all the lines is harmless
   when it leaves the tables alone. *)
Inner == Places \ {"none", "refused", "accepted", "count", "close", "done",
                   "throwFind", "throwRead", "throwOffline", "throwRemove", "throwCount"}

LEMMA GotoIsHarmless ==
    ASSUME TypeOK, NEW t \in Threads, NEW a, NEW b, Goto(t, a, b),
           UNCHANGED <<fd, fdOwner, cliSessionMap, object, currentConnections>>,
           \/ t = Heartbeat
           \/ a \in Inner /\ b \in Inner
           \/ {a, b} \subseteq {"throwFind", "throwRead", "throwOffline", "throwRemove"}
    PROVE  Harmless
<1>1. \A c \in Conns : c # t => pc'[c] = pc[c]
  BY DEF Goto, TypeOK, Threads
<1>2. pc[t] = a /\ pc'[t] = b
  BY DEF Goto, TypeOK
<1>3. CASE t = Heartbeat
  BY <1>1, <1>3, HeartbeatAssumption DEF Harmless, HoldsSocket, HasSession
<1>4. CASE a \in Inner /\ b \in Inner
  BY <1>1, <1>2, <1>4 DEF Harmless, HoldsSocket, HasSession, Inner
<1>5. CASE {a, b} \subseteq {"throwFind", "throwRead", "throwOffline", "throwRemove"}
  BY <1>1, <1>2, <1>5 DEF Harmless, HoldsSocket, HasSession
<1> QED
  BY <1>3, <1>4, <1>5

-----------------------------------------------------------------------------
(* Type correctness. *)

(* What a step may do to the local variables of thread t. *)
LocalsStep(t) ==
    \/ UNCHANGED local
    \/ local' = [local EXCEPT ![t] = NoLocals]
    \/ \E p \in Conns \cup {NoConn} :
        \/ local' = [local EXCEPT ![t].ptr = p]
        \/ local' = [local EXCEPT ![t].friendPtr = p]
        \/ local' = [local EXCEPT ![t] = [NoLocals EXCEPT !.ptr = p]]
        \/ \E u \in Users \cup {NoUser} : local' = [local EXCEPT ![t].ptr = p, ![t].name = u]
        \/ \E U \in SUBSET Users : local' = [local EXCEPT ![t].todo = U, ![t].friendPtr = p]
    \/ \E f \in Fds \cup {NoFd} :
        \/ local' = [local EXCEPT ![t].sock = f]
        \/ \E u \in Users \cup {NoUser} : local' = [local EXCEPT ![t].sock = f, ![t].name = u]
    \/ \E U \in SUBSET Users : local' = [local EXCEPT ![t].todo = U]

(* It keeps their type. *)
LEMMA LocalsTyped ==
    ASSUME local \in [Threads -> Locals], NEW t \in Threads, LocalsStep(t)
    PROVE  local' \in [Threads -> Locals]
<1> USE DEF Locals, NoLocals
<1>1. ASSUME NEW p \in Conns \cup {NoConn}, local' = [local EXCEPT ![t].ptr = p]
      PROVE  local' \in [Threads -> Locals]
  BY <1>1
<1>2. ASSUME NEW p \in Conns \cup {NoConn}, local' = [local EXCEPT ![t].friendPtr = p]
      PROVE  local' \in [Threads -> Locals]
  BY <1>2
<1>3. ASSUME NEW p \in Conns \cup {NoConn}, local' = [local EXCEPT ![t] = [NoLocals EXCEPT !.ptr = p]]
      PROVE  local' \in [Threads -> Locals]
  BY <1>3
<1>4. ASSUME NEW p \in Conns \cup {NoConn}, NEW u \in Users \cup {NoUser},
             local' = [local EXCEPT ![t].ptr = p, ![t].name = u]
      PROVE  local' \in [Threads -> Locals]
  BY <1>4, ZenonT(60)
<1>5. ASSUME NEW p \in Conns \cup {NoConn}, NEW U \in SUBSET Users,
             local' = [local EXCEPT ![t].todo = U, ![t].friendPtr = p]
      PROVE  local' \in [Threads -> Locals]
  BY <1>5, ZenonT(60)
<1>6. ASSUME NEW f \in Fds \cup {NoFd}, local' = [local EXCEPT ![t].sock = f]
      PROVE  local' \in [Threads -> Locals]
  BY <1>6
<1>7. ASSUME NEW f \in Fds \cup {NoFd}, NEW u \in Users \cup {NoUser},
             local' = [local EXCEPT ![t].sock = f, ![t].name = u]
      PROVE  local' \in [Threads -> Locals]
  BY <1>7
<1>8. ASSUME NEW U \in SUBSET Users, local' = [local EXCEPT ![t].todo = U]
      PROVE  local' \in [Threads -> Locals]
  BY <1>8
<1>9. UNCHANGED local \/ local' = [local EXCEPT ![t] = NoLocals] => local' \in [Threads -> Locals]
  OBVIOUS
<1> QED
  <2> HIDE DEF Locals, NoLocals
  <2> QED
    BY <1>1, <1>2, <1>3, <1>4, <1>5, <1>6, <1>7, <1>8, <1>9, Zenon DEF LocalsStep

(* A lookup returns a session or none. *)
LEMMA LookupsTyped ==
    ASSUME TypeOK
    PROVE  /\ \A f \in Fds : GetSession(f) \in Conns \cup {NoConn}
           /\ \A u \in Users : GetSessionByUsername(u) \in Conns \cup {NoConn}
           /\ GetAllSessions \subseteq Conns
BY DEF TypeOK, SessionTypeOK, GetSession, GetSessionByUsername, GetAllSessions

(* A move between known places keeps the type of pc. *)
LEMMA PcTyped ==
    ASSUME TypeOK, NEW t \in Threads, NEW a, NEW b \in Places \cup HeartbeatPlaces, Goto(t, a, b)
    PROVE  pc' \in [Threads -> Places \cup HeartbeatPlaces]
BY DEF TypeOK, Goto

(* Type correctness of the steps of the request loop and the login. *)
LEMMA LoopTyped ==
    ASSUME TypeOK, SocketAssigned, LoginNamesUser, NEW c \in Conns,
           Receive(c) \/ ReceiveNothing(c) \/ Touch(c) \/ Resolve(c) \/ Reply(c)
           \/ ReadOnlineStatus(c) \/ ForceOffline(c) \/ FindOldSession(c) \/ SendKicked(c)
           \/ ClearOldUsername(c) \/ ShutdownOld(c) \/ SetOnline(c) \/ FindOwnSession(c)
           \/ NameOwnSession(c) \/ Bind(c)
    PROVE  TypeOK'
<1> USE SessionAssumption DEF TypeOK, SessionTypeOK, sessionVars, socketVars, tableVars
<1>t. c \in Threads
  BY DEF Threads
<1>l. local[c].ptr \in Conns \cup {NoConn} /\ local[c].name \in Users \cup {NoUser}
  BY <1>t DEF Locals
<1>1. CASE Receive(c)
  <2>1. pc' \in [Threads -> Places \cup HeartbeatPlaces]
    BY <1>1, <1>t, PcTyped DEF Receive, Places, NotServing, Goto
  <2>2. LocalsStep(c)
    BY <1>1, <1>l, LookupsTyped DEF LocalsStep, Receive, SocketAssigned, Goto
  <2>3. local' \in [Threads -> Locals]
    BY <1>t, <2>2, LocalsTyped
  <2>4. SessionTypeOK'
    BY <1>1, <1>l DEF Receive
  <2> QED
    BY <1>1, <2>1, <2>3, <2>4 DEF Receive, Goto
<1>2. CASE ReceiveNothing(c)
  <2>1. pc' \in [Threads -> Places \cup HeartbeatPlaces]
    BY <1>2, <1>t, PcTyped DEF ReceiveNothing, Places, NotServing, Goto
  <2>4. SessionTypeOK'
    BY <1>2, <1>l DEF ReceiveNothing
  <2> QED
    BY <1>2, <2>1, <2>4 DEF ReceiveNothing, Goto
<1>3. CASE Touch(c)
  <2>1. pc' \in [Threads -> Places \cup HeartbeatPlaces]
    BY <1>3, <1>t, PcTyped DEF Touch, Places, NotServing, Goto
  <2>2. LocalsStep(c)
    BY <1>3, <1>l, LookupsTyped DEF LocalsStep, Touch, UpdateHeartbeat, Seen, SocketAssigned, Goto
  <2>3. local' \in [Threads -> Locals]
    BY <1>t, <2>2, LocalsTyped
  <2>4. SessionTypeOK'
    BY <1>3, <1>l DEF Touch, UpdateHeartbeat, Seen
  <2> QED
    BY <1>3, <2>1, <2>3, <2>4 DEF Touch, UpdateHeartbeat, Seen, Goto
<1>4. CASE Resolve(c)
  <2>1. pc' \in [Threads -> Places \cup HeartbeatPlaces]
    BY <1>4, <1>t, PcTyped DEF Resolve, Places, NotServing, Goto
  <2>2. LocalsStep(c)
    BY <1>4, <1>l, LookupsTyped DEF LocalsStep, Resolve, Goto
  <2>3. local' \in [Threads -> Locals]
    BY <1>t, <2>2, LocalsTyped
  <2>4. SessionTypeOK'
    BY <1>4, <1>l DEF Resolve
  <2> QED
    BY <1>4, <2>1, <2>3, <2>4 DEF Resolve, Goto
<1>5. CASE Reply(c)
  <2>1. pc' \in [Threads -> Places \cup HeartbeatPlaces]
    BY <1>5, <1>t, PcTyped DEF Reply, Places, NotServing, Goto
  <2>2. LocalsStep(c)
    BY <1>5, <1>l, LookupsTyped DEF LocalsStep, Reply, Send, Goto
  <2>3. local' \in [Threads -> Locals]
    BY <1>t, <2>2, LocalsTyped
  <2>4. SessionTypeOK'
    BY <1>5, <1>l DEF Reply, Send
  <2> QED
    BY <1>5, <2>1, <2>3, <2>4 DEF Reply, Send, Goto
<1>6. CASE ReadOnlineStatus(c)
  <2>1. pc' \in [Threads -> Places \cup HeartbeatPlaces]
    BY <1>6, <1>t, PcTyped DEF ReadOnlineStatus, Places, NotServing, Goto
  <2>4. SessionTypeOK'
    BY <1>6, <1>l DEF ReadOnlineStatus
  <2> QED
    BY <1>6, <2>1, <2>4 DEF ReadOnlineStatus, Goto
<1>7. CASE ForceOffline(c)
  <2>1. pc' \in [Threads -> Places \cup HeartbeatPlaces]
    BY <1>7, <1>t, PcTyped DEF ForceOffline, Places, NotServing, Goto
  <2>4. SessionTypeOK'
    BY <1>7, <1>l DEF ForceOffline, UpdateOnlineStatus
  <2> QED
    BY <1>7, <2>1, <2>4 DEF ForceOffline, UpdateOnlineStatus, Goto
<1>8. CASE FindOldSession(c)
  <2>1. pc' \in [Threads -> Places \cup HeartbeatPlaces]
    BY <1>8, <1>t, PcTyped DEF FindOldSession, Places, NotServing, Goto
  <2>2. LocalsStep(c)
    BY <1>8, <1>l, LookupsTyped DEF LocalsStep, FindOldSession, LoginNamesUser, Goto
  <2>3. local' \in [Threads -> Locals]
    BY <1>t, <2>2, LocalsTyped
  <2>4. SessionTypeOK'
    BY <1>8, <1>l DEF FindOldSession
  <2> QED
    BY <1>8, <2>1, <2>3, <2>4 DEF FindOldSession, Goto
<1>9. CASE SendKicked(c)
  <2>1. pc' \in [Threads -> Places \cup HeartbeatPlaces]
    BY <1>9, <1>t, PcTyped DEF SendKicked, Places, NotServing, Goto
  <2>2. LocalsStep(c)
    BY <1>9, <1>l, LookupsTyped DEF LocalsStep, SendKicked, Send, Seen, Goto
  <2>3. local' \in [Threads -> Locals]
    BY <1>t, <2>2, LocalsTyped
  <2>4. SessionTypeOK'
    BY <1>9, <1>l DEF SendKicked, Send, Seen
  <2> QED
    BY <1>9, <2>1, <2>3, <2>4 DEF SendKicked, Send, Seen, Goto
<1>10. CASE ClearOldUsername(c)
  <2>1. pc' \in [Threads -> Places \cup HeartbeatPlaces]
    BY <1>10, <1>t, PcTyped DEF ClearOldUsername, Places, NotServing, Goto
  <2>2. LocalsStep(c)
    BY <1>10, <1>l, LookupsTyped DEF LocalsStep, ClearOldUsername, SetUsername, Seen, Goto
  <2>3. local' \in [Threads -> Locals]
    BY <1>t, <2>2, LocalsTyped
  <2>4. SessionTypeOK'
    BY <1>10, <1>l DEF ClearOldUsername, SetUsername, Seen
  <2> QED
    BY <1>10, <2>1, <2>3, <2>4 DEF ClearOldUsername, SetUsername, Seen, Goto
<1>11. CASE ShutdownOld(c)
  <2>1. pc' \in [Threads -> Places \cup HeartbeatPlaces]
    BY <1>11, <1>t, PcTyped DEF ShutdownOld, Places, NotServing, Goto
  <2>2. LocalsStep(c)
    BY <1>11, <1>l, LookupsTyped DEF LocalsStep, ShutdownOld, Shutdown, Goto
  <2>3. local' \in [Threads -> Locals]
    BY <1>t, <2>2, LocalsTyped
  <2>4. SessionTypeOK'
    BY <1>11, <1>l DEF ShutdownOld, Shutdown
  <2> QED
    BY <1>11, <2>1, <2>3, <2>4, ZenonT(60) DEF ShutdownOld, Shutdown, Goto
<1>12. CASE SetOnline(c)
  <2>1. pc' \in [Threads -> Places \cup HeartbeatPlaces]
    BY <1>12, <1>t, PcTyped DEF SetOnline, Places, NotServing, Goto
  <2>4. SessionTypeOK'
    BY <1>12, <1>l DEF SetOnline, UpdateOnlineStatus
  <2> QED
    BY <1>12, <2>1, <2>4 DEF SetOnline, UpdateOnlineStatus, Goto
<1>13. CASE FindOwnSession(c)
  <2>1. pc' \in [Threads -> Places \cup HeartbeatPlaces]
    BY <1>13, <1>t, PcTyped DEF FindOwnSession, Places, NotServing, Goto
  <2>2. LocalsStep(c)
    BY <1>13, <1>l, LookupsTyped DEF LocalsStep, FindOwnSession, SocketAssigned, Goto
  <2>3. local' \in [Threads -> Locals]
    BY <1>t, <2>2, LocalsTyped
  <2>4. SessionTypeOK'
    BY <1>13, <1>l DEF FindOwnSession
  <2> QED
    BY <1>13, <2>1, <2>3, <2>4 DEF FindOwnSession, Goto
<1>14. CASE NameOwnSession(c)
  <2>1. pc' \in [Threads -> Places \cup HeartbeatPlaces]
    BY <1>14, <1>t, PcTyped DEF NameOwnSession, Places, NotServing, Goto
  <2>4. SessionTypeOK'
    BY <1>14, <1>l DEF NameOwnSession, SetUsername, Seen
  <2> QED
    BY <1>14, <2>1, <2>4 DEF NameOwnSession, SetUsername, Seen, Goto
<1>15. CASE Bind(c)
  <2>1. pc' \in [Threads -> Places \cup HeartbeatPlaces]
    BY <1>15, <1>t, PcTyped DEF Bind, Places, NotServing, Goto
  <2>2. LocalsStep(c)
    BY <1>15, <1>l, LookupsTyped DEF LocalsStep, Bind, BindUsername, UpdateHeartbeat, Seen, Goto
  <2>3. local' \in [Threads -> Locals]
    BY <1>t, <2>2, LocalsTyped
  <2>4. SessionTypeOK'
    BY <1>15, <1>l DEF Bind, BindUsername, UpdateHeartbeat, Seen
  <2> QED
    BY <1>15, <2>1, <2>3, <2>4 DEF Bind, BindUsername, UpdateHeartbeat, Seen, Goto
<1> QED
  BY <1>1, <1>2, <1>3, <1>4, <1>5, <1>6, <1>7, <1>8, <1>9, <1>10, <1>11, <1>12, <1>13, <1>14, <1>15

(* Type correctness of the steps handlers share with the heartbeat thread. *)
LEMMA SharedTyped ==
    ASSUME TypeOK, NEW t \in Threads, NEW a, NEW b \in Places \cup HeartbeatPlaces,
           \/ ReadFriends(t, a, b) \/ FindFriend(t, b) \/ SendStatus(t, b) \/ AllNotified(t, a, b)
           \/ SetOffline(t, a, b) \/ CountDown(t, a, b)
           \/ \E f \in Fds \cup {NoFd} : Remove(t, f, a, b)
    PROVE  TypeOK'
<1> USE SessionAssumption DEF TypeOK, SessionTypeOK, sessionVars, socketVars, tableVars
<1>l. local[t].todo \subseteq Users
  BY DEF Locals
<1>1. CASE ReadFriends(t, a, b)
  <2>1. pc' \in [Threads -> Places \cup HeartbeatPlaces]
    BY <1>1, <1>l, PcTyped DEF ReadFriends, Goto
  <2>2. LocalsStep(t)
    BY <1>1, <1>l, LookupsTyped DEF LocalsStep, ReadFriends, OnlineFriends, Goto
  <2>3. local' \in [Threads -> Locals]
    BY <2>2, <1>l, LocalsTyped
  <2>4. SessionTypeOK'
    BY <1>1, <1>l DEF ReadFriends, OnlineFriends
  <2> QED
    BY <1>1, <1>l, <2>1, <2>3, <2>4 DEF ReadFriends, OnlineFriends, Goto
<1>2. CASE FindFriend(t, b)
  <2>1. pc' \in [Threads -> Places \cup HeartbeatPlaces]
    BY <1>2, <1>l, PcTyped DEF FindFriend, Goto
  <2>2. LocalsStep(t)
    BY <1>2, <1>l, LookupsTyped DEF LocalsStep, FindFriend, Goto
  <2>3. local' \in [Threads -> Locals]
    BY <2>2, <1>l, LocalsTyped
  <2>4. SessionTypeOK'
    BY <1>2, <1>l DEF FindFriend
  <2> QED
    BY <1>2, <1>l, <2>1, <2>3, <2>4 DEF FindFriend, Goto
<1>3. CASE SendStatus(t, b)
  <2>1. pc' \in [Threads -> Places \cup HeartbeatPlaces]
    BY <1>3, <1>l, PcTyped DEF SendStatus, Goto
  <2>2. LocalsStep(t)
    BY <1>3, <1>l, LookupsTyped DEF LocalsStep, SendStatus, Send, Seen, Goto
  <2>3. local' \in [Threads -> Locals]
    BY <2>2, <1>l, LocalsTyped
  <2>4. SessionTypeOK'
    BY <1>3, <1>l DEF SendStatus, Send, Seen
  <2> QED
    BY <1>3, <1>l, <2>1, <2>3, <2>4 DEF SendStatus, Send, Seen, Goto
<1>4. CASE AllNotified(t, a, b)
  <2>1. pc' \in [Threads -> Places \cup HeartbeatPlaces]
    BY <1>4, <1>l, PcTyped DEF AllNotified, Goto
  <2>4. SessionTypeOK'
    BY <1>4, <1>l DEF AllNotified
  <2> QED
    BY <1>4, <1>l, <2>1, <2>4 DEF AllNotified, Goto
<1>5. CASE SetOffline(t, a, b)
  <2>1. pc' \in [Threads -> Places \cup HeartbeatPlaces]
    BY <1>5, <1>l, PcTyped DEF SetOffline, Goto
  <2>4. SessionTypeOK'
    BY <1>5, <1>l DEF SetOffline, UpdateOnlineStatus
  <2> QED
    BY <1>5, <1>l, <2>1, <2>4 DEF SetOffline, UpdateOnlineStatus, Goto
<1>6. CASE CountDown(t, a, b)
  <2>1. pc' \in [Threads -> Places \cup HeartbeatPlaces]
    BY <1>6, <1>l, PcTyped DEF CountDown, Goto
  <2>2. LocalsStep(t)
    BY <1>6, <1>l, LookupsTyped DEF LocalsStep, CountDown, Goto
  <2>3. local' \in [Threads -> Locals]
    BY <2>2, <1>l, LocalsTyped
  <2>4. SessionTypeOK'
    BY <1>6, <1>l DEF CountDown
  <2> QED
    BY <1>6, <1>l, <2>1, <2>3, <2>4 DEF CountDown, Goto
<1>7. CASE \E f \in Fds \cup {NoFd} : Remove(t, f, a, b)
  <2>1. pc' \in [Threads -> Places \cup HeartbeatPlaces]
    BY <1>7, <1>l, PcTyped DEF Remove, Goto
  <2>4. SessionTypeOK'
    BY <1>7, <1>l DEF Remove, RemoveSession
  <2> QED
    BY <1>7, <1>l, <2>1, <2>4 DEF Remove, RemoveSession, Goto
<1> QED
  BY <1>1, <1>2, <1>3, <1>4, <1>5, <1>6, <1>7

(* Type correctness of the steps of the two ways out of a handler. *)
LEMMA CleanupTyped ==
    ASSUME TypeOK, SocketAssigned, NEW c \in Conns, NEW a \in Places \ {"none", "refused"},
           NEW b \in Places \cup HeartbeatPlaces, NEW d \in Places \cup HeartbeatPlaces,
           FindForCleanup(c, a, b, d) \/ ReadName(c, a, b, d) \/ CloseSocket(c, a, b)
    PROVE  TypeOK'
<1> USE SessionAssumption DEF TypeOK, SessionTypeOK, sessionVars, socketVars, tableVars
<1>t. c \in Threads
  BY DEF Threads
<1>1. CASE FindForCleanup(c, a, b, d)
  <2>1. pc' \in [Threads -> Places \cup HeartbeatPlaces]
    BY <1>1, <1>t, PcTyped DEF FindForCleanup, Goto
  <2>2. LocalsStep(c)
    BY <1>1, <1>t, LookupsTyped DEF LocalsStep, FindForCleanup, SocketAssigned, Goto
  <2>3. local' \in [Threads -> Locals]
    BY <2>2, <1>t, LocalsTyped
  <2>4. SessionTypeOK'
    BY <1>1, <1>t DEF FindForCleanup
  <2> QED
    BY <1>1, <1>t, <2>1, <2>3, <2>4 DEF FindForCleanup, Goto
<1>2. CASE ReadName(c, a, b, d)
  <2>1. pc' \in [Threads -> Places \cup HeartbeatPlaces]
    BY <1>2, <1>t, PcTyped DEF ReadName, Goto, Seen
  <2>2. LocalsStep(c)
    BY <1>2, <1>t, LookupsTyped DEF LocalsStep, ReadName, Seen, Goto
  <2>3. local' \in [Threads -> Locals]
    BY <2>2, <1>t, LocalsTyped
  <2>4. SessionTypeOK'
    BY <1>2, <1>t DEF ReadName, Seen
  <2> QED
    BY <1>2, <1>t, <2>1, <2>3, <2>4 DEF ReadName, Seen, Goto
<1>3. CASE CloseSocket(c, a, b)
  <2>1. pc' \in [Threads -> Places \cup HeartbeatPlaces]
    BY <1>3, <1>t, PcTyped DEF CloseSocket, Goto
  <2>4. SessionTypeOK'
    BY <1>3, <1>t DEF CloseSocket, Close
  <2> QED
    BY <1>3, <1>t, <2>1, <2>4 DEF CloseSocket, Close, Goto
<1> QED
  BY <1>1, <1>2, <1>3

(* Type correctness of the steps of the accept loop, the pool, the clients and time. *)
LEMMA OuterTyped ==
    ASSUME TypeOK, NEW c \in Conns,
           \/ Accept(c) \/ Register(c) \/ StartTask(c)
           \/ ClientCloses(c) \/ ClientStaysSilent(c)
    PROVE  TypeOK'
<1> USE DEF TypeOK, SessionTypeOK, sessionVars, socketVars, tableVars
<1>t. c \in Threads
  BY DEF Threads
<1>1. CASE Accept(c)
  BY <1>1, <1>t DEF Accept, AtLimit, Places, NotServing
<1>2. CASE Register(c)
  <2>1. pc' \in [Threads -> Places \cup HeartbeatPlaces]
    BY <1>2, <1>t, PcTyped DEF Register, Places, NotServing
  <2>2. SessionTypeOK'
    BY <1>2 DEF Register, AddSession
  <2>3. taskQueue' \in Seq(Conns) /\ currentConnections' \in Int
    BY <1>2 DEF Register
  <2> QED
    BY <1>2, <2>1, <2>2, <2>3 DEF Register, Goto
<1>3. CASE StartTask(c)
  <2>1. pc' \in [Threads -> Places \cup HeartbeatPlaces]
    BY <1>3, <1>t, PcTyped DEF StartTask, Places, NotServing
  <2>2. taskQueue' \in Seq(Conns)
    BY <1>3 DEF StartTask
  <2> QED
    BY <1>3, <2>1, <2>2 DEF StartTask, Goto
<1>4. CASE ClientCloses(c)
  BY <1>4 DEF ClientCloses
<1>5. CASE ClientStaysSilent(c)
  BY <1>5 DEF ClientStaysSilent, Expire
<1> QED
  BY <1>1, <1>2, <1>3, <1>4, <1>5

(* Type correctness of the steps of the heartbeat thread. *)
LEMMA HeartbeatTyped ==
    ASSUME TypeOK, HeartbeatStep
    PROVE  TypeOK'
<1>t. Heartbeat \in Threads /\ local[Heartbeat].sock \in Fds \cup {NoFd}
  BY DEF Threads, TypeOK, Locals
<1>1. CASE Snapshot
  <2>1. pc' \in [Threads -> Places \cup HeartbeatPlaces]
    BY <1>1, <1>t, PcTyped DEF Snapshot, HeartbeatPlaces
  <2> QED
    BY <1>1, <2>1, LookupsTyped DEF Snapshot, Goto, TypeOK, SessionTypeOK, tableVars, sessionVars, socketVars
<1>2. CASE \E c \in Conns : Look(c)
  <2>1. PICK c \in Conns : Look(c)
    BY <1>2
  <2>2. pc' \in [Threads -> Places \cup HeartbeatPlaces]
    BY <2>1, <1>t, PcTyped DEF Look, HeartbeatPlaces
  <2>3. LocalsStep(Heartbeat)
    <3>1. \A o \in Conns : fd[c] \in Fds \cup {NoFd} /\ username[o] \in Users \cup {NoUser}
      BY DEF TypeOK, SessionTypeOK
    <3>2. \/ UNCHANGED local
          \/ \E o \in Conns :
                local' = [local EXCEPT ![Heartbeat].sock = fd[c], ![Heartbeat].name = username[o]]
      BY <2>1 DEF Look, Seen
    <3> QED
      BY <3>1, <3>2, Zenon DEF LocalsStep
  <2>4. local' \in [Threads -> Locals]
    BY <1>t, <2>3, LocalsTyped DEF TypeOK
  <2> QED
    BY <2>1, <2>2, <2>4 DEF Look, TypeOK, SessionTypeOK, tableVars, sessionVars, socketVars
<1>3. CASE ScanEnds
  <2>1. pc' \in [Threads -> Places \cup HeartbeatPlaces]
    BY <1>3, <1>t, PcTyped DEF ScanEnds, HeartbeatPlaces
  <2> QED
    BY <1>3, <2>1 DEF ScanEnds, Goto, TypeOK, SessionTypeOK, tableVars, sessionVars, socketVars
<1>4. CASE SetOffline(Heartbeat, "hbOffline", "hbOfflineDone")
  BY <1>4, <1>t, SharedTyped DEF HeartbeatPlaces
<1>5. CASE Notify(Heartbeat, "hbOfflineDone", "hbNotify", "hbShut")
  <2>1. /\ "hbNotify" \in Places \cup HeartbeatPlaces
        /\ "hbShut" \in Places \cup HeartbeatPlaces
    BY DEF HeartbeatPlaces
  <2> QED
    BY <1>5, <1>t, <2>1, SharedTyped DEF Notify
<1>6. CASE ShutdownExpired
  <2>1. pc' \in [Threads -> Places \cup HeartbeatPlaces]
    BY <1>6, <1>t, PcTyped DEF ShutdownExpired, HeartbeatPlaces
  <2> QED
    BY <1>6, <2>1 DEF ShutdownExpired, Shutdown, Goto, TypeOK, SessionTypeOK, sessionVars
<1>7. CASE Remove(Heartbeat, local[Heartbeat].sock, "hbRemove", "hbCount")
  BY <1>7, <1>t, SharedTyped DEF HeartbeatPlaces
<1>8. CASE CountDown(Heartbeat, "hbCount", "scan")
  BY <1>8, <1>t, SharedTyped DEF HeartbeatPlaces
<1> QED
  BY <1>1, <1>2, <1>3, <1>4, <1>5, <1>6, <1>7, <1>8 DEF HeartbeatStep

(* Type correctness of every step. *)
LEMMA TypeStep ==
    ASSUME TypeOK, SocketAssigned, LoginNamesUser, Next
    PROVE  TypeOK'
<1>1. ASSUME NEW c \in Conns, Proceed(c) PROVE TypeOK'
  <2> USE <1>1
  <2>t. c \in Threads /\ fd[c] \in Fds \cup {NoFd}
    BY DEF Threads, TypeOK
  <2>p. \A p \in {"reply", "notifyOnline", "read", "close", "offline", "remove", "offlineDone",
                  "notifyOffline", "count", "done", "throwFind", "throwRead", "throwOffline",
                  "throwRemove", "throwCount"} : p \in Places \cup HeartbeatPlaces
    BY DEF Places, NotServing
  <2>f. {"find", "read", "close", "throw", "throwFind", "throwRead"} \subseteq Places \ {"none", "refused"}
    BY DEF Places, NotServing
  <2>1. CASE Touch(c) \/ Resolve(c) \/ Reply(c)
    BY <2>1, LoopTyped
  <2>2. CASE Notify(c, "loginDone", "notifyOnline", "reply")
    BY <2>2, <2>t, <2>p, SharedTyped DEF Notify
  <2>3. CASE Login(c)
    BY <2>2, <2>3, LoopTyped DEF Login
  <2>4. CASE Cleanup(c)
    <3>1. CASE FindForCleanup(c, "find", "read", "close") \/ ReadName(c, "read", "offline", "remove")
               \/ CloseSocket(c, "close", "done")
      BY <3>1, <2>p, <2>f, CleanupTyped
    <3>2. CASE SetOffline(c, "offline", "offlineDone") \/ Remove(c, fd[c], "remove", "count")
               \/ CountDown(c, "count", "close")
      BY <3>2, <2>t, <2>p, SharedTyped
    <3>3. CASE Notify(c, "offlineDone", "notifyOffline", "remove")
      BY <3>3, <2>t, <2>p, SharedTyped DEF Notify
    <3> QED
      BY <2>4, <3>1, <3>2, <3>3 DEF Cleanup
  <2>5. CASE CleanupAfterException(c)
    <3>1. CASE FindForCleanup(c, "throwFind", "throwRead", "done")
               \/ ReadName(c, "throwRead", "throwOffline", "throwRemove")
               \/ CloseSocket(c, "throw", "throwFind")
      BY <3>1, <2>p, <2>f, CleanupTyped
    <3>2. CASE SetOffline(c, "throwOffline", "throwRemove") \/ Remove(c, fd[c], "throwRemove", "throwCount")
               \/ CountDown(c, "throwCount", "done")
      BY <3>2, <2>t, <2>p, SharedTyped
    <3> QED
      BY <2>5, <3>1, <3>2 DEF CleanupAfterException
  <2> QED
    BY <2>1, <2>3, <2>4, <2>5 DEF Proceed
<1>2. ASSUME NEW c \in Conns, Request(c) \/ Drain(c) PROVE TypeOK'
  BY <1>2, LoopTyped DEF Request, Drain
<1>3. ASSUME NEW t \in Threads, FollowFreed(t) PROVE TypeOK'
  BY <1>3 DEF FollowFreed, TypeOK, SessionTypeOK, tableVars, sessionVars, socketVars
<1> QED
  BY <1>1, <1>2, <1>3, OuterTyped, HeartbeatTyped DEF Next

-----------------------------------------------------------------------------
(* The steps that touch neither descriptors nor the session map nor the counter. *)

(* The steps of a worker, the request loop and the login are harmless. *)
LEMMA LoopIsHarmless ==
    ASSUME TypeOK, NEW c \in Conns,
           \/ Receive(c) \/ ReceiveNothing(c) \/ Touch(c) \/ Resolve(c) \/ Reply(c)
           \/ ReadOnlineStatus(c) \/ ForceOffline(c) \/ FindOldSession(c) \/ SendKicked(c)
           \/ ClearOldUsername(c) \/ ShutdownOld(c) \/ SetOnline(c) \/ FindOwnSession(c)
           \/ NameOwnSession(c) \/ Bind(c) \/ StartTask(c)
    PROVE  Harmless
<1>t. c \in Threads
  BY DEF Threads
<1>p. {"queued", "recv", "touch", "resolve", "reply", "login", "forceOffline", "findOld", "kick",
       "clearOld", "shutOld", "setOnline", "findOwn", "nameOwn", "bind", "loginDone", "find",
       "throw"} \subseteq Inner
  BY DEF Inner, Places, NotServing
<1> USE DEF sessionVars, socketVars, tableVars
<1>1. CASE Receive(c)
  BY <1>1, <1>t, <1>p, GotoIsHarmless DEF Receive
<1>2. CASE ReceiveNothing(c)
  BY <1>2, <1>t, <1>p, GotoIsHarmless DEF ReceiveNothing
<1>3. CASE Touch(c)
  BY <1>3, <1>t, <1>p, GotoIsHarmless DEF Touch
<1>4. CASE Resolve(c)
  BY <1>4, <1>t, <1>p, GotoIsHarmless DEF Resolve
<1>5. CASE Reply(c)
  BY <1>5, <1>t, <1>p, GotoIsHarmless DEF Reply
<1>6. CASE ReadOnlineStatus(c)
  BY <1>6, <1>t, <1>p, GotoIsHarmless DEF ReadOnlineStatus
<1>7. CASE ForceOffline(c)
  BY <1>7, <1>t, <1>p, GotoIsHarmless DEF ForceOffline
<1>8. CASE FindOldSession(c)
  BY <1>8, <1>t, <1>p, GotoIsHarmless DEF FindOldSession
<1>9. CASE SendKicked(c)
  BY <1>9, <1>t, <1>p, GotoIsHarmless DEF SendKicked
<1>10. CASE ClearOldUsername(c)
  BY <1>10, <1>t, <1>p, GotoIsHarmless DEF ClearOldUsername, SetUsername
<1>11. CASE ShutdownOld(c)
  BY <1>11, <1>t, <1>p, GotoIsHarmless DEF ShutdownOld
<1>12. CASE SetOnline(c)
  BY <1>12, <1>t, <1>p, GotoIsHarmless DEF SetOnline
<1>13. CASE FindOwnSession(c)
  BY <1>13, <1>t, <1>p, GotoIsHarmless DEF FindOwnSession
<1>14. CASE NameOwnSession(c)
  BY <1>14, <1>t, <1>p, GotoIsHarmless DEF NameOwnSession, SetUsername
<1>15. CASE Bind(c)
  BY <1>15, <1>t, <1>p, GotoIsHarmless DEF Bind
<1>16. CASE StartTask(c)
  BY <1>16, <1>t, <1>p, GotoIsHarmless DEF StartTask
<1> QED
  BY <1>1, <1>2, <1>3, <1>4, <1>5, <1>6, <1>7, <1>8, <1>9, <1>10, <1>11, <1>12, <1>13, <1>14, <1>15, <1>16

(* So are the notifications and the update of is_online at a logout. *)
LEMMA NotifyIsHarmless ==
    ASSUME TypeOK, NEW t \in Threads, NEW a, NEW b, NEW d,
           Notify(t, a, b, d) \/ SetOffline(t, a, b),
           \/ t = Heartbeat
           \/ {a, b, d} \subseteq Inner
           \/ {a, b} \subseteq {"throwOffline", "throwRemove"} /\ SetOffline(t, a, b)
    PROVE  Harmless
<1> USE DEF sessionVars, socketVars, tableVars
<1>1. CASE SetOffline(t, a, b)
  BY <1>1, GotoIsHarmless DEF SetOffline
<1>2. CASE ReadFriends(t, a, b) /\ (t = Heartbeat \/ {a, b, d} \subseteq Inner)
  BY <1>2, GotoIsHarmless DEF ReadFriends
<1>3. CASE FindFriend(t, b) /\ (t = Heartbeat \/ {a, b, d} \subseteq Inner)
  BY <1>3, GotoIsHarmless DEF FindFriend
<1>4. CASE SendStatus(t, b) /\ (t = Heartbeat \/ {a, b, d} \subseteq Inner)
  BY <1>4, GotoIsHarmless DEF SendStatus
<1>5. CASE AllNotified(t, b, d) /\ (t = Heartbeat \/ {a, b, d} \subseteq Inner)
  BY <1>5, GotoIsHarmless DEF AllNotified
<1> QED
  BY <1>1, <1>2, <1>3, <1>4, <1>5 DEF Notify

(* So are the steps of a handler that leaves, until it removes its session. *)
LEMMA LeavingIsHarmless ==
    ASSUME TypeOK, NEW c \in Conns,
           \/ FindForCleanup(c, "find", "read", "close") /\ GetSession(fd[c]) # NoConn
           \/ FindForCleanup(c, "throwFind", "throwRead", "done") /\ GetSession(fd[c]) # NoConn
           \/ ReadName(c, "read", "offline", "remove")
           \/ ReadName(c, "throwRead", "throwOffline", "throwRemove")
    PROVE  Harmless
<1>t. c \in Threads
  BY DEF Threads
<1>p. {"find", "read", "offline", "remove"} \subseteq Inner
  BY DEF Inner, Places, NotServing
<1> USE DEF sessionVars, socketVars, tableVars
<1>1. CASE FindForCleanup(c, "find", "read", "close") /\ GetSession(fd[c]) # NoConn
  BY <1>1, <1>t, <1>p, GotoIsHarmless DEF FindForCleanup
<1>2. CASE FindForCleanup(c, "throwFind", "throwRead", "done") /\ GetSession(fd[c]) # NoConn
  BY <1>2, <1>t, GotoIsHarmless DEF FindForCleanup
<1>3. CASE ReadName(c, "read", "offline", "remove")
  BY <1>3, <1>t, <1>p, GotoIsHarmless DEF ReadName
<1>4. CASE ReadName(c, "throwRead", "throwOffline", "throwRemove")
  BY <1>4, <1>t, GotoIsHarmless DEF ReadName
<1> QED
  BY <1>1, <1>2, <1>3, <1>4

(* So are the heartbeat thread's, until it removes a session, and the clients'. *)
LEMMA OutsideIsHarmless ==
    ASSUME TypeOK,
           \/ Snapshot \/ (\E c \in Conns : Look(c)) \/ ScanEnds \/ ShutdownExpired
           \/ (\E c \in Conns : ClientCloses(c) \/ ClientStaysSilent(c))
           \/ \E t \in Threads : FollowFreed(t)
    PROVE  Harmless
<1>t. Heartbeat \in Threads
  BY DEF Threads
<1> USE DEF sessionVars, socketVars, tableVars
<1>1. CASE Snapshot
  BY <1>1, <1>t, GotoIsHarmless DEF Snapshot
<1>2. CASE \E c \in Conns : Look(c)
  BY <1>2, <1>t, GotoIsHarmless DEF Look
<1>3. CASE ScanEnds
  BY <1>3, <1>t, GotoIsHarmless DEF ScanEnds
<1>4. CASE ShutdownExpired
  BY <1>4, <1>t, GotoIsHarmless DEF ShutdownExpired
<1>5. CASE \E c \in Conns : ClientCloses(c) \/ ClientStaysSilent(c)
  BY <1>5 DEF ClientCloses, ClientStaysSilent, Expire, Harmless, HoldsSocket, HasSession
<1>6. CASE \E t \in Threads : FollowFreed(t)
  BY <1>6 DEF FollowFreed, Harmless, HoldsSocket, HasSession
<1> QED
  BY <1>1, <1>2, <1>3, <1>4, <1>5, <1>6

-----------------------------------------------------------------------------
(* The steps that accept, register, remove, count and close. *)

(* A move of one thread leaves the others where they are. *)
LEMMA GotoMoves ==
    ASSUME TypeOK, NEW t \in Threads, NEW a, NEW b, Goto(t, a, b)
    PROVE  /\ pc[t] = a /\ pc'[t] = b
           /\ \A d \in Conns : d # t => pc'[d] = pc[d]
BY DEF Goto, TypeOK, Threads

(* A connection is stored under its own descriptor only. *)
LEMMA StoredWhereItBelongs ==
    ASSUME TypeOK, StoredSessionsAreAlive, NEW f \in Fds, cliSessionMap[f] # NoConn
    PROVE  /\ cliSessionMap[f] \in Conns
           /\ fd[cliSessionMap[f]] = f
           /\ HasSession(cliSessionMap[f])
           /\ object[cliSessionMap[f]] = "live"
BY DEF TypeOK, SessionTypeOK, StoredSessionsAreAlive

(* The accept loop gives a connection a descriptor nobody uses. *)
LEMMA AcceptKeeps ==
    ASSUME TypeOK, Discipline, NEW c \in Conns, Accept(c)
    PROVE  Discipline'
<1> USE DEF Discipline, Accept, AtLimit, sessionVars
<1>1. /\ pc[c] = "none" /\ pc'[c] \in {"refused", "accepted"}
      /\ \A d \in Conns : d # c => pc'[d] = pc[d]
  BY DEF TypeOK, Threads
<1>2. \A f \in Fds : cliSessionMap[f] # c
  <2> HIDE DEF Accept, AtLimit
  <2> QED
    BY <1>1, StoredWhereItBelongs, SessionAssumption DEF HasSession
<1>3. \A f \in Fds : fdOwner[f] # c
  BY <1>1 DEF SocketDiscipline, HoldsSocket
<1>4. SocketAssigned'
  BY <1>1 DEF SocketAssigned, TypeOK
<1>5. SocketDiscipline'
  <2>1. CASE pc'[c] = "refused"
    <3>1. UNCHANGED <<fd, fdOwner>>
      BY <2>1 DEF TypeOK, Threads
    <3> QED
      BY <1>1, <1>3, <2>1, <3>1 DEF SocketDiscipline, HoldsSocket
  <2>2. CASE pc'[c] = "accepted"
    <3>1. PICK f \in Fds : /\ fdOwner[f] = NoConn
                           /\ fd' = [fd EXCEPT ![c] = f] /\ fdOwner' = [fdOwner EXCEPT ![f] = c]
      BY <1>1, <2>2 DEF TypeOK
    <3>2. \A d \in Conns, g \in Fds : d # c => (fdOwner'[g] = d <=> fdOwner[g] = d)
      BY <3>1, SessionAssumption DEF TypeOK
    <3>3. fd'[c] = f /\ \A d \in Conns : d # c => fd'[d] = fd[d]
      BY <3>1 DEF TypeOK
    <3>4. \A g \in Fds : fdOwner'[g] = c <=> g = f
      BY <1>3, <3>1 DEF TypeOK
    <3> QED
      BY <1>1, <2>2, <3>2, <3>3, <3>4 DEF SocketDiscipline, HoldsSocket
  <2> QED
    BY <1>1, <2>1, <2>2
<1>6. StoredSessionsAreAlive'
  BY <1>1, <1>2, StoredWhereItBelongs DEF StoredSessionsAreAlive, HasSession, TypeOK
<1>7. OneBeingAdmitted'
  <2>1. ~AtLimit => currentConnections < MaxConnections
    BY ServerAssumption DEF TypeOK
  <2>2. pc'[c] = "accepted" => ~AtLimit
    <3> HIDE DEF AtLimit
    <3> QED
      BY DEF TypeOK, Threads
  <2> QED
    BY <1>1, <2>1, <2>2 DEF OneBeingAdmitted
<1>8. CounterWithinLimit'
  BY DEF CounterWithinLimit
<1> QED
  BY <1>4, <1>5, <1>6, <1>7, <1>8

(* Registering a connection stores its session and counts it, within the limit. *)
LEMMA RegisterKeeps ==
    ASSUME TypeOK, Discipline, NEW c \in Conns, Register(c)
    PROVE  Discipline'
<1> USE DEF Discipline, Register, AddSession, socketVars
<1>1. /\ pc[c] = "accepted" /\ pc'[c] = "queued"
      /\ \A d \in Conns : d # c => pc'[d] = pc[d]
  BY GotoMoves DEF Threads
<1>2. fd[c] \in Fds
  BY <1>1 DEF SocketAssigned
<1>3. \A f \in Fds : cliSessionMap[f] # c
  BY <1>1, StoredWhereItBelongs, SessionAssumption DEF HasSession
<1>4. SocketAssigned' /\ SocketDiscipline'
  BY <1>1, <1>2 DEF SocketAssigned, SocketDiscipline, HoldsSocket
<1>5. StoredSessionsAreAlive'
  BY <1>1, <1>2, <1>3, StoredWhereItBelongs DEF StoredSessionsAreAlive, HasSession, TypeOK, SessionTypeOK
<1>6. CounterWithinLimit'
  BY <1>1, ServerAssumption DEF OneBeingAdmitted, CounterWithinLimit, TypeOK
<1>7. OneBeingAdmitted'
  BY <1>1 DEF OneBeingAdmitted
<1> QED
  BY <1>4, <1>5, <1>6, <1>7

(* A handler that finds no session of its own leaves none behind. *)
LEMMA MissingKeeps ==
    ASSUME TypeOK, Discipline, NEW c \in Conns, GetSession(fd[c]) = NoConn,
           \/ FindForCleanup(c, "find", "read", "close")
           \/ FindForCleanup(c, "throwFind", "throwRead", "done")
    PROVE  Discipline'
<1> USE DEF Discipline, FindForCleanup, tableVars, sessionVars, socketVars
<1>1. /\ \/ pc[c] = "find" /\ pc'[c] = "close"
         \/ pc[c] = "throwFind" /\ pc'[c] = "done"
      /\ \A d \in Conns : d # c => pc'[d] = pc[d]
  BY GotoMoves DEF Threads
<1>2. \A f \in Fds : cliSessionMap[f] # c
  BY StoredWhereItBelongs, SessionAssumption DEF GetSession
<1>3. SocketAssigned' /\ SocketDiscipline'
  BY <1>1 DEF SocketAssigned, SocketDiscipline, HoldsSocket
<1>4. StoredSessionsAreAlive'
  BY <1>1, <1>2, StoredWhereItBelongs DEF StoredSessionsAreAlive, HasSession
<1>5. OneBeingAdmitted' /\ CounterWithinLimit'
  BY <1>1 DEF OneBeingAdmitted, CounterWithinLimit
<1> QED
  BY <1>3, <1>4, <1>5

(* A session leaves the map in the step that frees it, whoever removes it. *)
LEMMA RemoveKeeps ==
    ASSUME TypeOK, Discipline, NEW t \in Threads, NEW f \in Fds, NEW a, NEW b, Remove(t, f, a, b),
           \/ t = Heartbeat
           \/ t \in Conns /\ f = fd[t] /\ <<a, b>> \in {<<"remove", "count">>, <<"throwRemove", "throwCount">>}
    PROVE  Discipline'
<1> USE DEF Discipline, Remove, RemoveSession, sessionVars, socketVars
<1>1. /\ pc[t] = a /\ pc'[t] = b
      /\ \A d \in Conns : d # t => pc'[d] = pc[d]
  BY GotoMoves
<1>2. /\ cliSessionMap'[f] = NoConn
      /\ \A g \in Fds \ {f} : cliSessionMap'[g] = cliSessionMap[g]
      /\ \A d \in Conns : d # cliSessionMap[f] => object'[d] = object[d]
  BY DEF TypeOK, SessionTypeOK
<1>3. \A g \in Fds \ {f} : cliSessionMap[g] # NoConn => cliSessionMap[g] # cliSessionMap[f]
  BY StoredWhereItBelongs
<1>4. SocketAssigned' /\ SocketDiscipline'
  BY <1>1, HeartbeatAssumption DEF SocketAssigned, SocketDiscipline, HoldsSocket
<1>5. StoredSessionsAreAlive'
  <2>1. \A g \in Fds : cliSessionMap'[g] # NoConn => g # f /\ cliSessionMap'[g] = cliSessionMap[g]
    BY <1>2
  <2>2. \A g \in Fds : cliSessionMap'[g] # NoConn =>
            /\ cliSessionMap[g] \in Conns /\ cliSessionMap[g] # t
            /\ object[cliSessionMap[g]] = "live" /\ fd[cliSessionMap[g]] = g
            /\ HasSession(cliSessionMap[g])
    BY <2>1, StoredWhereItBelongs, HeartbeatAssumption
  <2>3. \A g \in Fds : cliSessionMap'[g] # NoConn =>
            object'[cliSessionMap[g]] = "live" /\ pc'[cliSessionMap[g]] = pc[cliSessionMap[g]]
    BY <1>1, <1>2, <1>3, <2>1, <2>2
  <2> QED
    BY <2>1, <2>2, <2>3 DEF StoredSessionsAreAlive, HasSession
<1>6. OneBeingAdmitted' /\ CounterWithinLimit'
  BY <1>1, HeartbeatAssumption DEF OneBeingAdmitted, CounterWithinLimit
<1> QED
  BY <1>4, <1>5, <1>6

(* Counting down keeps the limit. *)
LEMMA CountDownKeeps ==
    ASSUME TypeOK, Discipline, NEW t \in Threads, NEW a, NEW b, CountDown(t, a, b),
           t = Heartbeat \/ <<a, b>> \in {<<"count", "close">>, <<"throwCount", "done">>}
    PROVE  Discipline'
<1> USE DEF Discipline, CountDown, sessionVars, socketVars
<1>1. /\ pc[t] = a /\ pc'[t] = b
      /\ \A d \in Conns : d # t => pc'[d] = pc[d]
  BY GotoMoves
<1>2. SocketAssigned' /\ SocketDiscipline'
  BY <1>1, HeartbeatAssumption DEF SocketAssigned, SocketDiscipline, HoldsSocket
<1>3. StoredSessionsAreAlive'
  BY <1>1, StoredWhereItBelongs, HeartbeatAssumption DEF StoredSessionsAreAlive, HasSession
<1>4. CounterWithinLimit'
  BY ServerAssumption DEF CounterWithinLimit, TypeOK
<1>5. OneBeingAdmitted'
  BY <1>1, HeartbeatAssumption, ServerAssumption DEF OneBeingAdmitted, TypeOK
<1> QED
  BY <1>2, <1>3, <1>4, <1>5

(* A handler closes its own descriptor, and only that. *)
LEMMA CloseKeeps ==
    ASSUME TypeOK, Discipline, NEW c \in Conns,
           CloseSocket(c, "close", "done") \/ CloseSocket(c, "throw", "throwFind")
    PROVE  Discipline'
<1> USE DEF Discipline, CloseSocket, Close, sessionVars
<1>1. /\ \/ pc[c] = "close" /\ pc'[c] = "done"
         \/ pc[c] = "throw" /\ pc'[c] = "throwFind"
      /\ \A d \in Conns : d # c => pc'[d] = pc[d]
  BY GotoMoves DEF Threads
<1>2. fd[c] \in Fds /\ fdOwner[fd[c]] = c
  BY <1>1 DEF SocketAssigned, SocketDiscipline, HoldsSocket
<1>3. SocketAssigned' /\ SocketDiscipline'
  BY <1>1, <1>2, SessionAssumption, SMTT(40) DEF SocketAssigned, SocketDiscipline, HoldsSocket, TypeOK
<1>4. StoredSessionsAreAlive'
  BY <1>1, StoredWhereItBelongs DEF StoredSessionsAreAlive, HasSession
<1>5. OneBeingAdmitted' /\ CounterWithinLimit'
  BY <1>1 DEF OneBeingAdmitted, CounterWithinLimit
<1> QED
  BY <1>3, <1>4, <1>5

-----------------------------------------------------------------------------
(* What threads do to the places and locals of others: nothing. *)

LoginPlaces == {"login", "forceOffline", "findOld"}

ActsAlone(c) ==
    /\ UNCHANGED scan
    /\ \A d \in Threads \ {c} : pc'[d] = pc[d] /\ local'[d] = local[d]
    /\ \A d \in Conns : fd'[d] = fd[d] \/ fd'[d] \in Fds
    /\ pc'[c] \in LoginPlaces => local'[c].name \in Users

(* The handler of a connection acts alone when it is accepted, serves and logs in. *)
LEMMA LoopActsAlone ==
    ASSUME TypeOK, LoginNamesUser, NEW c \in Conns,
           \/ Accept(c) \/ Register(c) \/ StartTask(c)
           \/ Receive(c) \/ ReceiveNothing(c) \/ Touch(c) \/ Resolve(c) \/ Reply(c)
           \/ ReadOnlineStatus(c) \/ ForceOffline(c) \/ FindOldSession(c) \/ SendKicked(c)
           \/ ClearOldUsername(c) \/ ShutdownOld(c) \/ SetOnline(c) \/ FindOwnSession(c)
           \/ NameOwnSession(c) \/ Bind(c)
    PROVE  ActsAlone(c)
<1>t. /\ c \in Threads /\ local[c] \in Locals
      /\ fd \in [Conns -> Fds \cup {NoFd}] /\ local \in [Threads -> Locals]
      /\ pc \in [Threads -> Places \cup HeartbeatPlaces]
      /\ pc[c] \in LoginPlaces => local[c].name \in Users
  BY DEF TypeOK, Threads, LoginNamesUser, LoginPlaces
<1> USE DEF ActsAlone, LoginPlaces, Goto, Locals, socketVars, tableVars
<1>1. CASE Accept(c)
  BY <1>1, <1>t DEF Accept, AtLimit
<1>2. CASE Register(c)
  BY <1>2, <1>t DEF Register
<1>3. CASE StartTask(c)
  BY <1>3, <1>t DEF StartTask
<1>4. CASE Receive(c)
  BY <1>4, <1>t DEF Receive
<1>5. CASE ReceiveNothing(c)
  BY <1>5, <1>t DEF ReceiveNothing
<1>6. CASE Touch(c)
  BY <1>6, <1>t DEF Touch
<1>7. CASE Resolve(c)
  BY <1>7, <1>t DEF Resolve
<1>8. CASE Reply(c)
  BY <1>8, <1>t DEF Reply
<1>9. CASE ReadOnlineStatus(c)
  BY <1>9, <1>t DEF ReadOnlineStatus
<1>10. CASE ForceOffline(c)
  BY <1>10, <1>t DEF ForceOffline
<1>11. CASE FindOldSession(c)
  BY <1>11, <1>t DEF FindOldSession
<1>12. CASE SendKicked(c)
  BY <1>12, <1>t DEF SendKicked
<1>13. CASE ClearOldUsername(c)
  BY <1>13, <1>t DEF ClearOldUsername, SetUsername
<1>14. CASE ShutdownOld(c)
  BY <1>14, <1>t DEF ShutdownOld
<1>15. CASE SetOnline(c)
  BY <1>15, <1>t DEF SetOnline
<1>16. CASE FindOwnSession(c)
  BY <1>16, <1>t DEF FindOwnSession
<1>17. CASE NameOwnSession(c)
  BY <1>17, <1>t DEF NameOwnSession, SetUsername
<1>18. CASE Bind(c)
  BY <1>18, <1>t DEF Bind
<1> QED
  BY <1>1, <1>2, <1>3, <1>4, <1>5, <1>6, <1>7, <1>8, <1>9, <1>10, <1>11, <1>12, <1>13, <1>14, <1>15, <1>16, <1>17, <1>18

(* So it does when it notifies friends and leaves. *)
LEMMA LeavingActsAlone ==
    ASSUME TypeOK, NEW c \in Conns, NEW a, NEW b, b \notin LoginPlaces,
           \/ ReadFriends(c, a, b) \/ FindFriend(c, b) \/ SendStatus(c, b) \/ AllNotified(c, a, b)
           \/ SetOffline(c, a, b)
           \/ (\E d \in Places \ LoginPlaces : FindForCleanup(c, a, b, d) \/ ReadName(c, a, b, d))
           \/ (\E f \in Fds \cup {NoFd} : Remove(c, f, a, b))
           \/ CountDown(c, a, b) \/ CloseSocket(c, a, b)
    PROVE  ActsAlone(c)
<1>t. /\ c \in Threads /\ local \in [Threads -> Locals]
      /\ pc \in [Threads -> Places \cup HeartbeatPlaces]
  BY DEF TypeOK, Threads
<1> USE DEF ActsAlone, Goto, socketVars, tableVars
<1>1. CASE ReadFriends(c, a, b)
  BY <1>1, <1>t DEF ReadFriends
<1>2. CASE FindFriend(c, b)
  BY <1>2, <1>t DEF FindFriend
<1>3. CASE SendStatus(c, b)
  BY <1>3, <1>t DEF SendStatus
<1>4. CASE AllNotified(c, a, b)
  BY <1>4, <1>t DEF AllNotified
<1>5. CASE \E d \in Places \ LoginPlaces : FindForCleanup(c, a, b, d)
  BY <1>5, <1>t DEF FindForCleanup
<1>6. CASE \E d \in Places \ LoginPlaces : ReadName(c, a, b, d)
  BY <1>6, <1>t DEF ReadName
<1>7. CASE SetOffline(c, a, b)
  BY <1>7, <1>t DEF SetOffline
<1>8. CASE \E f \in Fds \cup {NoFd} : Remove(c, f, a, b)
  BY <1>8, <1>t DEF Remove
<1>9. CASE CountDown(c, a, b)
  BY <1>9, <1>t DEF CountDown
<1>10. CASE CloseSocket(c, a, b)
  BY <1>10, <1>t DEF CloseSocket
<1> QED
  BY <1>1, <1>2, <1>3, <1>4, <1>5, <1>6, <1>7, <1>8, <1>9, <1>10

-----------------------------------------------------------------------------
(* The inductive step, action by action. *)

LEMMA ProceedKeeps ==
    ASSUME IInv, NEW c \in Conns, Proceed(c)
    PROVE  Discipline' /\ ActsAlone(c)
<1>i. TypeOK /\ Discipline /\ SocketAssigned /\ LoginNamesUser
  BY DEF IInv, Discipline
<1>t. c \in Threads /\ fd[c] \in Fds \cup {NoFd}
  BY <1>i DEF Threads, TypeOK
<1>p. {"loginDone", "notifyOnline", "reply", "offline", "offlineDone", "notifyOffline", "remove"} \subseteq Inner
  BY DEF Inner, Places, NotServing
<1>n. \A p \in {"notifyOnline", "reply", "read", "close", "offline", "remove", "offlineDone",
                "notifyOffline", "count", "done", "throwFind", "throwRead", "throwOffline",
                "throwRemove", "throwCount"} : p \in Places \ LoginPlaces
  BY DEF LoginPlaces, Places, NotServing
<1>1. CASE Touch(c) \/ Resolve(c) \/ Reply(c)
  BY <1>1, <1>i, LoopIsHarmless, HarmlessStep, LoopActsAlone
<1>2. CASE Login(c)
  <2>1. CASE Notify(c, "loginDone", "notifyOnline", "reply")
    <3>1. Harmless
      BY <1>i, <1>t, <1>p, <2>1, NotifyIsHarmless
    <3>2. ActsAlone(c)
      BY <1>i, <1>n, <2>1, LeavingActsAlone DEF Notify
    <3> QED
      BY <1>i, <3>1, <3>2, HarmlessStep
  <2> QED
    BY <1>2, <1>i, <2>1, LoopIsHarmless, HarmlessStep, LoopActsAlone DEF Login
<1>3. CASE Cleanup(c)
  <2>1. CASE FindForCleanup(c, "find", "read", "close")
    BY <2>1, <1>i, <1>n, LeavingIsHarmless, HarmlessStep, MissingKeeps, LeavingActsAlone
  <2>2. CASE ReadName(c, "read", "offline", "remove")
    BY <2>2, <1>i, <1>n, LeavingIsHarmless, HarmlessStep, LeavingActsAlone
  <2>3. CASE SetOffline(c, "offline", "offlineDone")
    <3>1. Harmless
      BY <1>i, <1>t, <1>p, <2>3, NotifyIsHarmless
    <3> QED
      BY <2>3, <3>1, <1>i, <1>n, HarmlessStep, LeavingActsAlone
  <2>4. CASE Notify(c, "offlineDone", "notifyOffline", "remove")
    <3>1. Harmless
      BY <1>i, <1>t, <1>p, <2>4, NotifyIsHarmless
    <3>2. ActsAlone(c)
      BY <1>i, <1>n, <2>4, LeavingActsAlone DEF Notify
    <3> QED
      BY <1>i, <3>1, <3>2, HarmlessStep
  <2>5. CASE Remove(c, fd[c], "remove", "count")
    <3>1. fd[c] \in Fds
      BY <1>i, <2>5 DEF Remove, Goto, SocketAssigned
    <3> QED
      BY <2>5, <3>1, <1>i, <1>t, <1>n, RemoveKeeps, LeavingActsAlone
  <2>6. CASE CountDown(c, "count", "close")
    BY <2>6, <1>i, <1>t, <1>n, CountDownKeeps, LeavingActsAlone
  <2>7. CASE CloseSocket(c, "close", "done")
    BY <2>7, <1>i, <1>n, CloseKeeps, LeavingActsAlone
  <2> QED
    BY <1>3, <2>1, <2>2, <2>3, <2>4, <2>5, <2>6, <2>7 DEF Cleanup
<1>4. CASE CleanupAfterException(c)
  <2>1. CASE CloseSocket(c, "throw", "throwFind")
    BY <2>1, <1>i, <1>n, CloseKeeps, LeavingActsAlone
  <2>2. CASE FindForCleanup(c, "throwFind", "throwRead", "done")
    BY <2>2, <1>i, <1>n, LeavingIsHarmless, HarmlessStep, MissingKeeps, LeavingActsAlone
  <2>3. CASE ReadName(c, "throwRead", "throwOffline", "throwRemove")
    BY <2>3, <1>i, <1>n, LeavingIsHarmless, HarmlessStep, LeavingActsAlone
  <2>4. CASE SetOffline(c, "throwOffline", "throwRemove")
    <3>1. Harmless
      BY <1>i, <1>t, <2>4, NotifyIsHarmless
    <3> QED
      BY <2>4, <3>1, <1>i, <1>n, HarmlessStep, LeavingActsAlone
  <2>5. CASE Remove(c, fd[c], "throwRemove", "throwCount")
    <3>1. fd[c] \in Fds
      BY <1>i, <2>5 DEF Remove, Goto, SocketAssigned
    <3> QED
      BY <2>5, <3>1, <1>i, <1>t, <1>n, RemoveKeeps, LeavingActsAlone
  <2>6. CASE CountDown(c, "throwCount", "done")
    BY <2>6, <1>i, <1>t, <1>n, CountDownKeeps, LeavingActsAlone
  <2> QED
    BY <1>4, <2>1, <2>2, <2>3, <2>4, <2>5, <2>6 DEF CleanupAfterException
<1> QED
  BY <1>1, <1>2, <1>3, <1>4 DEF Proceed

(* The heartbeat thread keeps the discipline and the sockets it holds. *)
LEMMA HeartbeatKeeps ==
    ASSUME IInv, HeartbeatStep
    PROVE  Discipline' /\ HeartbeatHoldsSocket' /\ LoginNamesUser'
<1>i. TypeOK /\ Discipline /\ HeartbeatHoldsSocket /\ LoginNamesUser
  BY DEF IInv, Discipline
<1>t. Heartbeat \in Threads /\ Heartbeat \notin Conns
  BY HeartbeatAssumption DEF Threads
<1>f. /\ pc \in [Threads -> Places \cup HeartbeatPlaces] /\ local \in [Threads -> Locals]
      /\ local[Heartbeat] \in Locals
  BY <1>i, <1>t DEF TypeOK
<1>h. HeartbeatHoldsSocket' <=>
        /\ \A c \in scan' : fd'[c] \in Fds
        /\ pc'[Heartbeat] \in {"hbOffline", "hbOfflineDone", "hbNotify", "hbShut", "hbRemove"}
                => local'[Heartbeat].sock \in Fds
  BY DEF HeartbeatHoldsSocket
<1>l. ASSUME \A c \in Conns : pc'[c] = pc[c] /\ local'[c] = local[c]
      PROVE  LoginNamesUser'
  BY <1>i, <1>l DEF LoginNamesUser
<1> USE DEF tableVars, socketVars
<1>1. CASE Snapshot
  <2>1. \A c \in GetAllSessions : fd[c] \in Fds
    BY <1>i, StoredWhereItBelongs DEF GetAllSessions, Discipline
  <2>2. HeartbeatHoldsSocket'
    BY <1>1, <1>t, <1>f, <1>h, <2>1 DEF Snapshot, Goto
  <2>3. LoginNamesUser'
    BY <1>1, <1>t, <1>f, <1>l DEF Snapshot, Goto, Threads
  <2> QED
    BY <1>1, <1>i, <2>2, <2>3, OutsideIsHarmless, HarmlessStep
<1>2. CASE \E c \in Conns : Look(c)
  <2>1. PICK c \in Conns : Look(c)
    BY <1>2
  <2>2. HeartbeatHoldsSocket'
    <3>1. fd[c] \in Fds
      BY <2>1, <1>i DEF Look, HeartbeatHoldsSocket
    <3>2. scan' \subseteq scan /\ UNCHANGED fd
      BY <2>1 DEF Look
    <3>3. pc'[Heartbeat] = "scan" \/ local'[Heartbeat].sock = fd[c]
      BY <2>1, <1>t, <1>f DEF Look, Goto, Locals
    <3> QED
      BY <1>i, <1>h, <3>1, <3>2, <3>3 DEF HeartbeatHoldsSocket
  <2>3. LoginNamesUser'
    BY <2>1, <1>t, <1>f, <1>l DEF Look, Goto, Threads
  <2> QED
    BY <1>2, <1>i, <2>2, <2>3, OutsideIsHarmless, HarmlessStep
<1>3. CASE ScanEnds
  <2>1. HeartbeatHoldsSocket' /\ LoginNamesUser'
    BY <1>3, <1>i, <1>t, <1>f, <1>h, <1>l DEF ScanEnds, Goto, Threads, HeartbeatHoldsSocket
  <2> QED
    BY <1>3, <1>i, <2>1, OutsideIsHarmless, HarmlessStep
<1>4. CASE SetOffline(Heartbeat, "hbOffline", "hbOfflineDone")
  <2>1. HeartbeatHoldsSocket' /\ LoginNamesUser'
    BY <1>4, <1>i, <1>t, <1>f, <1>h, <1>l DEF SetOffline, Goto, Threads, HeartbeatHoldsSocket
  <2>2. Harmless
    BY <1>4, <1>i, <1>t, NotifyIsHarmless
  <2> QED
    BY <1>i, <2>1, <2>2, HarmlessStep
<1>5. CASE Notify(Heartbeat, "hbOfflineDone", "hbNotify", "hbShut")
  <2>1. /\ UNCHANGED <<fd, scan>> /\ local'[Heartbeat].sock = local[Heartbeat].sock
        /\ pc[Heartbeat] \in {"hbOfflineDone", "hbNotify"}
        /\ \A c \in Conns : pc'[c] = pc[c] /\ local'[c] = local[c]
    <3>1. \A c \in Conns : c \in Threads /\ c # Heartbeat
      BY <1>t DEF Threads
    <3>2. CASE ReadFriends(Heartbeat, "hbOfflineDone", "hbNotify")
      BY <3>1, <3>2, <1>t, <1>f DEF ReadFriends, Goto, Locals
    <3>3. CASE FindFriend(Heartbeat, "hbNotify")
      BY <3>1, <3>3, <1>t, <1>f DEF FindFriend, Goto, Locals
    <3>4. CASE SendStatus(Heartbeat, "hbNotify")
      BY <3>1, <3>4, <1>t, <1>f DEF SendStatus, Goto, Locals
    <3>5. CASE AllNotified(Heartbeat, "hbNotify", "hbShut")
      BY <3>1, <3>5, <1>t, <1>f DEF AllNotified, Goto, Locals
    <3> QED
      BY <1>5, <3>2, <3>3, <3>4, <3>5 DEF Notify
  <2>2. HeartbeatHoldsSocket' /\ LoginNamesUser'
    BY <2>1, <1>i, <1>h, <1>l DEF HeartbeatHoldsSocket
  <2>3. Harmless
    BY <1>5, <1>i, <1>t, NotifyIsHarmless
  <2> QED
    BY <1>i, <2>2, <2>3, HarmlessStep
<1>6. CASE ShutdownExpired
  <2>1. HeartbeatHoldsSocket' /\ LoginNamesUser'
    BY <1>6, <1>i, <1>t, <1>f, <1>h, <1>l DEF ShutdownExpired, Goto, Threads, HeartbeatHoldsSocket
  <2> QED
    BY <1>6, <1>i, <2>1, OutsideIsHarmless, HarmlessStep
<1>7. CASE Remove(Heartbeat, local[Heartbeat].sock, "hbRemove", "hbCount")
  <2>1. HeartbeatHoldsSocket' /\ LoginNamesUser'
    BY <1>7, <1>i, <1>t, <1>f, <1>h, <1>l DEF Remove, Goto, Threads, HeartbeatHoldsSocket
  <2>2. local[Heartbeat].sock \in Fds
    BY <1>7, <1>i DEF Remove, Goto, HeartbeatHoldsSocket
  <2> QED
    BY <1>7, <1>i, <1>t, <2>1, <2>2, RemoveKeeps
<1>8. CASE CountDown(Heartbeat, "hbCount", "scan")
  <2>1. HeartbeatHoldsSocket' /\ LoginNamesUser'
    BY <1>8, <1>i, <1>t, <1>f, <1>h, <1>l DEF CountDown, Goto, Threads, HeartbeatHoldsSocket
  <2> QED
    BY <1>8, <1>i, <1>t, <2>1, CountDownKeeps
<1> QED
  BY <1>1, <1>2, <1>3, <1>4, <1>5, <1>6, <1>7, <1>8 DEF HeartbeatStep

(* A handler that acts alone disturbs neither the heartbeat thread nor another login. *)
LEMMA AloneKeeps ==
    ASSUME TypeOK, LoginNamesUser, HeartbeatHoldsSocket, NEW c \in Conns, ActsAlone(c)
    PROVE  LoginNamesUser' /\ HeartbeatHoldsSocket'
<1>1. Heartbeat \in Threads \ {c} /\ scan \subseteq Conns
  BY HeartbeatAssumption DEF Threads, TypeOK
<1>2. LoginNamesUser'
  BY DEF LoginNamesUser, ActsAlone, LoginPlaces, Threads
<1>3. HeartbeatHoldsSocket'
  BY <1>1 DEF HeartbeatHoldsSocket, ActsAlone
<1> QED
  BY <1>2, <1>3

(* Every step keeps the inductive invariant. *)
LEMMA NextIInv == IInv /\ [Next]_vars => IInv'
<1> SUFFICES ASSUME IInv, [Next]_vars PROVE IInv'
  OBVIOUS
<1>i. TypeOK /\ Discipline /\ SocketAssigned /\ LoginNamesUser /\ HeartbeatHoldsSocket
  BY DEF IInv, Discipline
<1>q. TypeOK' /\ Discipline' /\ LoginNamesUser' /\ HeartbeatHoldsSocket' => IInv'
  BY DEF IInv, Discipline
<1>1. CASE UNCHANGED vars
  BY <1>1 DEF vars, tableVars, sessionVars, socketVars, IInv, TypeOK, SessionTypeOK, SocketAssigned,
       SocketDiscipline, HoldsSocket, StoredSessionsAreAlive, HasSession, OneBeingAdmitted,
       CounterWithinLimit, LoginNamesUser, HeartbeatHoldsSocket
<1>2. CASE Next
  <2>1. TypeOK'
    BY <1>2, <1>i, TypeStep
  <2>2. ASSUME NEW c \in Conns, Discipline', ActsAlone(c) PROVE IInv'
    BY <1>i, <1>q, <2>1, <2>2, AloneKeeps
  <2>3. ASSUME NEW c \in Conns, Accept(c) \/ Register(c) \/ StartTask(c) PROVE IInv'
    BY <2>2, <2>3, <1>i, AcceptKeeps, RegisterKeeps, LoopIsHarmless, HarmlessStep, LoopActsAlone
  <2>4. ASSUME NEW c \in Conns, Request(c) \/ Drain(c) PROVE IInv'
    BY <2>2, <2>4, <1>i, LoopIsHarmless, HarmlessStep, LoopActsAlone DEF Request, Drain
  <2>5. ASSUME NEW c \in Conns, Proceed(c) PROVE IInv'
    BY <2>2, <2>5, ProceedKeeps
  <2>6. ASSUME \/ \E c \in Conns : ClientCloses(c) \/ ClientStaysSilent(c)
               \/ \E t \in Threads : FollowFreed(t)
        PROVE  IInv'
    <3>1. UNCHANGED <<fd, pc, local, scan>>
      BY <2>6 DEF ClientCloses, ClientStaysSilent, FollowFreed, tableVars, socketVars
    <3>2. LoginNamesUser' /\ HeartbeatHoldsSocket'
      BY <1>i, <3>1 DEF LoginNamesUser, HeartbeatHoldsSocket
    <3> QED
      BY <2>6, <1>i, <1>q, <2>1, <3>2, OutsideIsHarmless, HarmlessStep
  <2>7. CASE HeartbeatStep
    BY <2>7, <1>q, <2>1, HeartbeatKeeps
  <2> QED
    BY <1>2, <2>3, <2>4, <2>5, <2>6, <2>7 DEF Next
<1> QED
  BY <1>1, <1>2

-----------------------------------------------------------------------------
(* The inductive invariant holds in every reachable state. *)
THEOREM ServerInvariant == Spec => []IInv
BY InitIInv, NextIInv, PTL DEF Spec

(* Every variable of the server keeps its type. *)
THEOREM ServerTypeOK == Spec => []TypeOK
<1>1. IInv => TypeOK
  BY DEF IInv
<1> QED
  BY <1>1, ServerInvariant, PTL

(* A handler's descriptor is its own until it closes it, and no descriptor leaks:
   HandleClient, HandleLogin's kick, HeartbeatCheckThread and HandleClientException
   never read from, answer to or close the socket of another connection's handler. *)
THEOREM HandlersOwnTheirSockets == Spec => []SocketDiscipline
<1>1. IInv => SocketDiscipline
  BY DEF IInv
<1> QED
  BY <1>1, ServerInvariant, PTL

(* The session map never holds a freed object: SessionManager::RemoveSession deletes
   each session at most once, whichever of its three callers comes first. *)
THEOREM NoSessionIsDeletedTwice == Spec => []StoredSessionsAreAlive
<1>1. IInv => StoredSessionsAreAlive
  BY DEF IInv
<1> QED
  BY <1>1, ServerInvariant, PTL

(* The comparison and the increment of AcceptConnections keep currentConnections within
   maxConnections, although they are two steps. *)
THEOREM CounterStaysWithinLimit == Spec => []CounterWithinLimit
<1>1. IInv => CounterWithinLimit
  BY DEF IInv
<1> QED
  BY <1>1, ServerInvariant, PTL
=============================================================================
