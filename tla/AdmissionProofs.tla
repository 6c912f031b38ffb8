--------------------------- MODULE AdmissionProofs ---------------------------
(***************************************************************************)
(* When no client stays silent for ten minutes and no request makes        *)
(* jsoncpp throw, each session ends once and the normal way: for any       *)
(* connections, descriptors and users, and whether or not statements fail, *)
(* a client keeps its session while it is served, currentConnections       *)
(* counts the sessions, and Server implements Admission.                   *)
(*                                                                         *)
(* Regular is inductive relative to IInv.  Most steps are quiet: they move *)
(* a handler about between queue and RemoveSession.  What remains are the  *)
(* five steps of accepting, registering, removing, counting and closing.   *)
(***************************************************************************)
EXTENDS ServerProofs, FiniteSetTheorems

NormalEnds == ~Timeouts /\ ~Malformed

\* Where a handler is from Register to RemoveSession.
Serving == Inner \ {"throw"}

Counted == {c \in Conns : pc[c] \in Serving \cup {"count"}}

Regular ==
    /\ pc[Heartbeat] = "sleep"
    /\ \A c \in Conns :
        /\ pc[c] \in Serving \cup {"none", "refused", "accepted", "count", "close", "done"}
        /\ pc[c] \in Serving => cliSessionMap[fd[c]] = c
        /\ pc[c] \in {"none", "refused", "accepted"} => object[c] = "none"
        /\ pc[c] \in {"count", "close", "done"} => object[c] = "freed"
    /\ IsFiniteSet(Counted) /\ currentConnections = Cardinality(Counted)

(* Where a connection is decides whether it has a session, and a socket. *)
LEMMA WhereServed ==
    ASSUME NEW c \in Conns, pc[c] \in Serving
    PROVE  /\ HasSession(c) /\ HoldsSocket(c)
           /\ pc[c] \notin {"none", "refused", "accepted", "count", "close", "done"}
BY DEF Serving, Inner, HasSession, HoldsSocket

(* At the start no connection has been made. *)
LEMMA InitRegular == Init => Regular
<1> SUFFICES ASSUME Init PROVE Regular
  OBVIOUS
<1>1. pc[Heartbeat] = "sleep" /\ \A c \in Conns : pc[c] = "none" /\ object[c] = "none"
  BY HeartbeatAssumption DEF Init, SessionInit, Threads
<1>2. "none" \notin Serving
  BY DEF Serving, Inner
<1>3. Counted = {}
  BY <1>1, <1>2 DEF Counted
<1>4. currentConnections = 0
  BY DEF Init
<1> QED
  BY <1>1, <1>2, <1>3, <1>4, FS_EmptySet DEF Regular

-----------------------------------------------------------------------------
(* Quiet steps *)

Moves(c) == \E a, b \in Serving : Goto(c, a, b)

Quiet ==
    /\ UNCHANGED <<fd, cliSessionMap, object, currentConnections>>
    /\ pc'[Heartbeat] = pc[Heartbeat]
    /\ \A c \in Conns : pc'[c] = pc[c] \/ {pc[c], pc'[c]} \subseteq Serving

(* The steps of a worker, the request loop and the login stay between queue and RemoveSession:
   nothing throws. *)
LEMMA LoopMoves ==
    ASSUME NormalEnds, NEW c \in Conns,
           \/ Receive(c) \/ ReceiveNothing(c) \/ Touch(c) \/ Resolve(c) \/ Reply(c)
           \/ ReadOnlineStatus(c) \/ ForceOffline(c) \/ FindOldSession(c) \/ SendKicked(c)
           \/ ClearOldUsername(c) \/ ShutdownOld(c) \/ SetOnline(c) \/ FindOwnSession(c)
           \/ NameOwnSession(c) \/ Bind(c) \/ StartTask(c)
    PROVE  Moves(c)
<1>p. {"queued", "recv", "touch", "resolve", "reply", "login", "forceOffline", "findOld", "kick",
       "clearOld", "shutOld", "setOnline", "findOwn", "nameOwn", "bind", "loginDone", "find"} \subseteq Serving
  BY DEF Serving, Inner, Places, NotServing
<1>1. CASE Receive(c) \/ ReceiveNothing(c) \/ Touch(c) \/ Resolve(c) \/ Reply(c) \/ StartTask(c)
  BY <1>1, <1>p DEF Moves, NormalEnds, Receive, ReceiveNothing, Touch, Resolve, Reply, StartTask
<1>2. CASE ReadOnlineStatus(c) \/ ForceOffline(c) \/ FindOldSession(c) \/ SendKicked(c)
           \/ ClearOldUsername(c)
  BY <1>2, <1>p DEF Moves, ReadOnlineStatus, ForceOffline, FindOldSession, SendKicked, ClearOldUsername
<1>3. CASE ShutdownOld(c) \/ SetOnline(c) \/ FindOwnSession(c) \/ NameOwnSession(c) \/ Bind(c)
  BY <1>3, <1>p DEF Moves, ShutdownOld, SetOnline, FindOwnSession, NameOwnSession, Bind
<1> QED
  BY <1>1, <1>2, <1>3

(* So do the notifications and the search for the session to remove. *)
LEMMA LeavingMoves ==
    ASSUME NEW c \in Conns,
           \/ Notify(c, "loginDone", "notifyOnline", "reply")
           \/ Notify(c, "offlineDone", "notifyOffline", "remove")
           \/ SetOffline(c, "offline", "offlineDone")
           \/ FindForCleanup(c, "find", "read", "close") /\ GetSession(fd[c]) # NoConn
           \/ ReadName(c, "read", "offline", "remove")
    PROVE  Moves(c)
<1>p. {"loginDone", "notifyOnline", "reply", "offlineDone", "notifyOffline", "remove", "offline",
       "find", "read"} \subseteq Serving
  BY DEF Serving, Inner, Places, NotServing
<1>1. CASE SetOffline(c, "offline", "offlineDone")
  BY <1>1, <1>p DEF Moves, SetOffline
<1>2. CASE FindForCleanup(c, "find", "read", "close") /\ GetSession(fd[c]) # NoConn
  BY <1>2, <1>p DEF Moves, FindForCleanup
<1>3. CASE ReadName(c, "read", "offline", "remove")
  BY <1>3, <1>p DEF Moves, ReadName
<1>4. CASE Notify(c, "loginDone", "notifyOnline", "reply") \/ Notify(c, "offlineDone", "notifyOffline", "remove")
  BY <1>4, <1>p DEF Moves, Notify, ReadFriends, FindFriend, SendStatus, AllNotified
<1> QED
  BY <1>1, <1>2, <1>3, <1>4

(* A harmless step that only moves a handler about is quiet. *)
LEMMA MovesQuietly ==
    ASSUME TypeOK, NEW c \in Conns, Harmless, Moves(c)
    PROVE  Quiet
<1>1. c \in Threads /\ Heartbeat \in Threads /\ c # Heartbeat /\ Conns \subseteq Threads
  BY HeartbeatAssumption DEF Threads
<1>2. PICK a, b \in Serving : Goto(c, a, b)
  BY DEF Moves
<1>3. /\ pc[c] = a /\ pc'[c] = b
      /\ \A t \in Threads : t # c => pc'[t] = pc[t]
  BY <1>1, <1>2 DEF Goto, TypeOK
<1> QED
  BY <1>1, <1>3 DEF Quiet, Harmless

(* The heartbeat thread sleeps for good, and every step of a handler is quiet or one of five. *)
LEMMA Steps ==
    ASSUME NormalEnds, IInv, Regular, [Next]_vars
    PROVE  \/ Quiet
           \/ \E c \in Conns :
                \/ Accept(c) \/ Register(c) \/ Remove(c, fd[c], "remove", "count")
                \/ CountDown(c, "count", "close") \/ CloseSocket(c, "close", "done")
<1>i. TypeOK /\ SessionAssumption
  BY SessionAssumption DEF IInv
<1>t. Conns \subseteq Threads /\ Heartbeat \in Threads
  BY DEF Threads
<1>s. pc[Heartbeat] = "sleep" /\ \A c \in Conns : pc[c] \notin {"throw", "throwFind", "throwRead",
          "throwOffline", "throwRemove", "throwCount"}
  BY DEF Regular, Serving, Inner
<1>1. ASSUME NEW c \in Conns, Harmless, Moves(c) PROVE Quiet
  BY <1>i, <1>1, MovesQuietly
<1>2. ASSUME NEW c \in Conns, StartTask(c) \/ Request(c) \/ Drain(c) \/ Touch(c) \/ Resolve(c) \/ Reply(c)
      PROVE  Quiet
  BY <1>1, <1>2, <1>i, LoopIsHarmless, LoopMoves DEF Request, Drain
<1>3. ASSUME NEW c \in Conns, Login(c) PROVE Quiet
  <2>1. CASE Notify(c, "loginDone", "notifyOnline", "reply")
    <3>1. {"loginDone", "notifyOnline", "reply"} \subseteq Inner
      BY DEF Inner, Places, NotServing
    <3> QED BY <1>1, <1>i, <1>t, <2>1, <3>1, NotifyIsHarmless, LeavingMoves
  <2> QED BY <1>1, <1>3, <1>i, <2>1, LoopIsHarmless, LoopMoves DEF Login
<1>4. ASSUME NEW c \in Conns, Cleanup(c)
      PROVE  \/ Quiet
             \/ Remove(c, fd[c], "remove", "count")
             \/ CountDown(c, "count", "close") \/ CloseSocket(c, "close", "done")
  <2>p. {"offline", "offlineDone", "notifyOffline", "remove"} \subseteq Inner
    BY DEF Inner, Places, NotServing
  <2>1. CASE FindForCleanup(c, "find", "read", "close")
    <3>1. pc[c] = "find" /\ "find" \in Serving
      BY <2>1 DEF FindForCleanup, Goto, Serving, Inner, Places, NotServing
    <3>2. GetSession(fd[c]) # NoConn
      BY <1>i, <3>1 DEF Regular, GetSession, SessionAssumption
    <3> QED BY <1>1, <1>i, <2>1, <3>2, LeavingIsHarmless, LeavingMoves
  <2>2. CASE ReadName(c, "read", "offline", "remove")
    BY <1>1, <1>i, <2>2, LeavingIsHarmless, LeavingMoves
  <2>3. CASE SetOffline(c, "offline", "offlineDone")
    BY <1>1, <1>i, <1>t, <2>p, <2>3, NotifyIsHarmless, LeavingMoves
  <2>4. CASE Notify(c, "offlineDone", "notifyOffline", "remove")
    BY <1>1, <1>i, <1>t, <2>p, <2>4, NotifyIsHarmless, LeavingMoves
  <2> QED BY <1>4, <2>1, <2>2, <2>3, <2>4 DEF Cleanup
<1>5. ASSUME NEW c \in Conns, CleanupAfterException(c) PROVE FALSE
  BY <1>5, <1>s DEF CleanupAfterException, CloseSocket, FindForCleanup, ReadName, SetOffline, Remove,
     CountDown, Goto
<1>6. ASSUME HeartbeatStep PROVE FALSE
  BY <1>6, <1>s DEF HeartbeatStep, NormalEnds, Snapshot, Look, ScanEnds, SetOffline, Notify, ReadFriends,
     FindFriend, SendStatus, AllNotified, ShutdownExpired, Remove, CountDown, Goto
<1>7. CASE UNCHANGED vars
  BY <1>7 DEF vars, tableVars, sessionVars, socketVars, Quiet
<1>8. ASSUME \/ \E c \in Conns : ClientCloses(c) \/ ClientStaysSilent(c)
             \/ \E t \in Threads : FollowFreed(t)
      PROVE  Quiet
  BY <1>8 DEF ClientCloses, ClientStaysSilent, Expire, FollowFreed, tableVars, sessionVars, socketVars, Quiet
<1> QED
  BY <1>2, <1>3, <1>4, <1>5, <1>6, <1>7, <1>8 DEF Next, Proceed

-----------------------------------------------------------------------------
(* The five other steps *)

(* A quiet step keeps everything Regular says. *)
LEMMA QuietKeeps ==
    ASSUME Regular, Quiet
    PROVE  Regular' /\ Counted' = Counted
<1>1. \A c \in Conns : pc[c] \in Serving => pc[c] \notin {"none", "refused", "accepted", "count", "close", "done"}
  BY WhereServed
<1>2. \A c \in Conns : pc'[c] \in Serving => pc'[c] \notin {"none", "refused", "accepted", "count", "close", "done"}
  BY DEF Serving, Inner
<1>3. Counted' = Counted
  BY <1>1, <1>2 DEF Counted, Quiet
<1> QED
  BY <1>1, <1>2, <1>3 DEF Regular, Quiet

(* A step that moves the handler of c leaves the place of all others. *)
LEMMA HandlerMoves ==
    ASSUME TypeOK, NEW c \in Conns, NEW a, NEW b, Goto(c, a, b)
    PROVE  /\ pc[c] = a /\ pc'[c] = b
           /\ \A d \in Conns : d # c => pc'[d] = pc[d]
           /\ pc'[Heartbeat] = pc[Heartbeat]
           /\ a \in Serving \cup {"count"} /\ b \notin Serving \cup {"count"} => Counted' = Counted \ {c} /\ c \in Counted
           /\ a \notin Serving \cup {"count"} /\ b \in Serving \cup {"count"} => Counted' = Counted \cup {c} /\ c \notin Counted
           /\ (a \in Serving \cup {"count"} <=> b \in Serving \cup {"count"}) => Counted' = Counted
<1>1. c \in Threads /\ Heartbeat \in Threads /\ c # Heartbeat /\ Conns \subseteq Threads
  BY HeartbeatAssumption DEF Threads
<1>2. /\ pc[c] = a /\ pc'[c] = b
      /\ \A t \in Threads : t # c => pc'[t] = pc[t]
  BY <1>1 DEF Goto, TypeOK
<1> QED
  BY <1>1, <1>2 DEF Counted

(* Places outside the loop. *)
LEMMA Outside ==
    /\ Serving \cap {"none", "refused", "accepted", "count", "close", "done"} = {}
    /\ {"queued", "remove"} \subseteq Serving
BY DEF Serving, Inner, Places, NotServing

(* accept() takes a connection no one has seen and leaves the sessions alone. *)
LEMMA AcceptRegular ==
    ASSUME TypeOK, Regular, NEW c \in Conns, Accept(c)
    PROVE  Regular' /\ Counted' = Counted
<1> USE DEF Accept, sessionVars
<1>1. PICK b \in {"refused", "accepted"} : Goto(c, "none", b)
  BY DEF Goto
<1>2. /\ pc[c] = "none" /\ pc'[c] = b /\ Counted' = Counted /\ pc'[Heartbeat] = pc[Heartbeat]
      /\ \A d \in Conns : d # c => pc'[d] = pc[d]
  BY <1>1, HandlerMoves, Outside
<1>3. \A d \in Conns : d # c => fd'[d] = fd[d]
  BY DEF TypeOK
<1>4. UNCHANGED <<cliSessionMap, object, currentConnections>>
  OBVIOUS
<1> HIDE DEF Accept
<1> QED
  BY <1>2, <1>3, <1>4, Outside DEF Regular

(* Registering stores the session under a descriptor no other session uses, and counts it. *)
LEMMA RegisterRegular ==
    ASSUME IInv, Regular, NEW c \in Conns, Register(c)
    PROVE  /\ Regular' /\ Counted' = Counted \cup {c} /\ c \notin Counted
           /\ object[c] = "none" /\ object' = [object EXCEPT ![c] = "live"]
           /\ Cardinality(Counted) < MaxConnections
<1> USE DEF Register, AddSession, socketVars
<1>t. TypeOK
  BY DEF IInv
<1>1. /\ pc[c] = "accepted" /\ pc'[c] = "queued" /\ pc'[Heartbeat] = pc[Heartbeat]
      /\ Counted' = Counted \cup {c} /\ c \notin Counted
      /\ \A d \in Conns : d # c => pc'[d] = pc[d]
  BY <1>t, HandlerMoves, Outside
<1>2. object[c] = "none"
  BY <1>1 DEF Regular
<1>3. fd[c] \in Fds /\ \A d \in Conns : d # c /\ pc[d] \in Serving => fd[d] # fd[c]
  <2>1. HoldsSocket(c) /\ fd[c] \in Fds
    BY <1>1 DEF HoldsSocket, IInv, SocketAssigned
  <2> QED BY <2>1, WhereServed DEF IInv, SocketDiscipline
<1>4. /\ cliSessionMap'[fd[c]] = c
      /\ \A f \in Fds : f # fd[c] => cliSessionMap'[f] = cliSessionMap[f]
      /\ UNCHANGED fd
  BY <1>t, <1>3 DEF TypeOK, SessionTypeOK
<1>5. \A d \in Conns : pc[d] \in Serving => fd[d] \in Fds
  BY WhereServed DEF IInv, SocketAssigned
<1>6. \A d \in Conns : d # c => object'[d] = object[d]
  BY <1>t DEF TypeOK, SessionTypeOK
<1>7. currentConnections < MaxConnections /\ currentConnections' = currentConnections + 1
  BY <1>1 DEF IInv, OneBeingAdmitted
<1>8. IsFiniteSet(Counted') /\ currentConnections' = Cardinality(Counted')
  BY <1>1, <1>7, FS_AddElement DEF Regular
<1> HIDE DEF Register, AddSession
<1>9. \A d \in Conns :
        /\ pc'[d] \in Serving \cup {"none", "refused", "accepted", "count", "close", "done"}
        /\ pc'[d] \in Serving => cliSessionMap'[fd'[d]] = d
        /\ pc'[d] \in {"none", "refused", "accepted"} => object'[d] = "none"
        /\ pc'[d] \in {"count", "close", "done"} => object'[d] = "freed"
  BY <1>1, <1>3, <1>4, <1>5, <1>6, Outside DEF Regular
<1> QED
  BY <1>1, <1>2, <1>7, <1>8, <1>9 DEF Regular, Register, AddSession

(* The handler removes its own session and no other. *)
LEMMA RemoveRegular ==
    ASSUME IInv, Regular, NEW c \in Conns, Remove(c, fd[c], "remove", "count")
    PROVE  /\ Regular' /\ Counted' = Counted
           /\ object' = [object EXCEPT ![c] = "freed"]
<1> USE DEF Remove, RemoveSession, socketVars
<1>t. TypeOK
  BY DEF IInv
<1>1. /\ pc[c] = "remove" /\ pc'[c] = "count" /\ pc'[Heartbeat] = pc[Heartbeat]
      /\ Counted' = Counted
      /\ \A d \in Conns : d # c => pc'[d] = pc[d]
  BY <1>t, HandlerMoves, Outside
<1>2. cliSessionMap[fd[c]] = c /\ c # NoConn
  BY <1>1, Outside, SessionAssumption DEF Regular
<1>3. \A d \in Conns : pc[d] \in Serving => fd[d] \in Fds
  BY WhereServed DEF IInv, SocketAssigned
<1>4. \A d \in Conns : d # c /\ pc[d] \in Serving => fd[d] # fd[c]
  BY <1>2 DEF Regular
<1>5. object' = [object EXCEPT ![c] = "freed"] /\ UNCHANGED <<fd, currentConnections>>
  BY <1>2
<1>6. \A f \in Fds : f # fd[c] => cliSessionMap'[f] = cliSessionMap[f]
  BY <1>t, <1>2 DEF TypeOK, SessionTypeOK
<1>7. object'[c] = "freed" /\ \A d \in Conns : d # c => object'[d] = object[d]
  BY <1>t, <1>5 DEF TypeOK, SessionTypeOK
<1> HIDE DEF Remove, RemoveSession
<1>8. \A d \in Conns :
        /\ pc'[d] \in Serving \cup {"none", "refused", "accepted", "count", "close", "done"}
        /\ pc'[d] \in Serving => cliSessionMap'[fd'[d]] = d
        /\ pc'[d] \in {"none", "refused", "accepted"} => object'[d] = "none"
        /\ pc'[d] \in {"count", "close", "done"} => object'[d] = "freed"
  BY <1>1, <1>3, <1>4, <1>5, <1>6, <1>7, Outside DEF Regular
<1> QED
  BY <1>1, <1>5, <1>8 DEF Regular

(* Counting down counts the session that was removed, and closing changes neither. *)
LEMMA LeaveRegular ==
    ASSUME TypeOK, Regular, NEW c \in Conns,
           CountDown(c, "count", "close") \/ CloseSocket(c, "close", "done")
    PROVE  /\ Regular' /\ UNCHANGED object
           /\ CountDown(c, "count", "close") => Counted' = Counted \ {c} /\ c \in Counted /\ pc[c] = "count"
           /\ CloseSocket(c, "close", "done") => Counted' = Counted /\ pc[c] = "close"
<1>1. CASE CountDown(c, "count", "close")
  <2>1. /\ pc[c] = "count" /\ pc'[c] = "close" /\ pc'[Heartbeat] = pc[Heartbeat]
        /\ Counted' = Counted \ {c} /\ c \in Counted
        /\ \A d \in Conns : d # c => pc'[d] = pc[d]
    BY <1>1, HandlerMoves, Outside DEF CountDown
  <2>2. UNCHANGED <<cliSessionMap, object, fd>> /\ currentConnections' = currentConnections - 1
    BY <1>1 DEF CountDown, sessionVars, socketVars
  <2>3. IsFiniteSet(Counted') /\ currentConnections' = Cardinality(Counted')
    BY <2>1, <2>2, FS_RemoveElement DEF Regular
  <2>4. ~CloseSocket(c, "close", "done")
    BY <2>1 DEF CloseSocket, Goto
  <2> QED BY <2>1, <2>2, <2>3, <2>4, Outside DEF Regular
<1>2. CASE CloseSocket(c, "close", "done")
  <2>1. /\ pc[c] = "close" /\ pc'[c] = "done" /\ pc'[Heartbeat] = pc[Heartbeat]
        /\ Counted' = Counted
        /\ \A d \in Conns : d # c => pc'[d] = pc[d]
    BY <1>2, HandlerMoves, Outside DEF CloseSocket
  <2>2. UNCHANGED <<cliSessionMap, object, fd, currentConnections>>
    BY <1>2 DEF CloseSocket, sessionVars
  <2>3. ~CountDown(c, "count", "close")
    BY <2>1 DEF CountDown, Goto
  <2> QED BY <2>1, <2>2, <2>3, Outside DEF Regular
<1> QED
  BY <1>1, <1>2

(* Every step keeps Regular. *)
LEMMA NextRegular ==
    ASSUME NormalEnds
    PROVE  IInv /\ Regular /\ [Next]_vars => Regular'
<1> SUFFICES ASSUME IInv, Regular, [Next]_vars PROVE Regular'
  OBVIOUS
<1>1. TypeOK
  BY DEF IInv
<1> QED
  BY <1>1, Steps, QuietKeeps, AcceptRegular, RegisterRegular, RemoveRegular, LeaveRegular

LEMMA RegularInvariant ==
    ASSUME NormalEnds
    PROVE  Spec => []Regular
BY InitRegular, NextRegular, ServerInvariant, PTL DEF Spec

-----------------------------------------------------------------------------
(* The theorems *)

(* The sessions in the map are those of the connections between Register and RemoveSession. *)
LEMMA StoredIsServing ==
    ASSUME IInv, Regular, NEW c \in Conns
    PROVE  Stored(c) <=> pc[c] \in Serving
<1>1. ASSUME pc[c] \in Serving PROVE Stored(c)
  <2>1. fd[c] \in Fds
    BY <1>1, WhereServed DEF IInv, SocketAssigned
  <2> QED BY <1>1, <2>1, SessionAssumption DEF Regular, Stored, GetAllSessions
<1>2. ASSUME Stored(c) PROVE pc[c] \in Serving
  <2>1. PICK f \in Fds : cliSessionMap[f] = c /\ c # NoConn
    BY <1>2, SessionAssumption DEF Stored, GetAllSessions
  <2>2. HasSession(c)
    BY <2>1 DEF IInv, StoredSessionsAreAlive
  <2> QED BY <2>2 DEF Regular, HasSession
<1> QED
  BY <1>1, <1>2

(* Without timeouts and exceptions nobody but its own handler takes the session of a client out
   of the map (server.cpp:246-251, user_manager.cpp:121-122). *)
THEOREM ServedClientsKeepTheirSessions ==
    ASSUME NormalEnds
    PROVE  Spec => []ServedClientKeepsSession
<1>1. IInv /\ Regular => ServedClientKeepsSession
  <2> SUFFICES ASSUME IInv, Regular, NEW c \in Conns, InLoop(c) PROVE Stored(c)
    BY DEF ServedClientKeepsSession
  <2>1. pc[c] \in Serving
    BY DEF InLoop, HasSession, Regular
  <2> QED BY <2>1, StoredIsServing
<1> QED
  BY <1>1, RegularInvariant, ServerInvariant, PTL

(* Without timeouts and exceptions currentConnections is the number of sessions stored or just
   removed: each end is counted once (server.cpp:217 and 246-247). *)
THEOREM ConnectionsAreCountedExactly ==
    ASSUME NormalEnds
    PROVE  Spec => []ConnectionCountExact
<1>1. IInv /\ Regular => ConnectionCountExact
  <2> SUFFICES ASSUME IInv, Regular PROVE ConnectionCountExact
    OBVIOUS
  <2>1. Counted = {c \in Conns : Stored(c) \/ pc[c] = "count"}
    BY StoredIsServing DEF Counted
  <2> QED BY <2>1 DEF ConnectionCountExact, Regular
<1> QED
  BY <1>1, RegularInvariant, ServerInvariant, PTL

(* The instance counts as this module does. *)
LEMMA SameCount == \A S : Limit!Cardinality(S) = Cardinality(S)
BY DEF Limit!Cardinality, Cardinality

Open == {c \in Conns : Stored(c) \/ pc[c] = "count"}
Left == {c \in Conns : object[c] = "freed" /\ pc[c] # "count"}

(* What Admission sees: a connection is admitted while it is counted, and has left once its
   session was removed and its end counted. *)
LEMMA OpenIsCounted ==
    ASSUME NormalEnds
    PROVE  Spec => [](Open = Counted)
<1>1. IInv /\ Regular => Open = Counted
  BY StoredIsServing DEF Open, Counted
<1> QED
  BY <1>1, RegularInvariant, ServerInvariant, PTL

(* Registering a connection is Admit, counting its end is Leave, and nothing else shows. *)
LEMMA RefinementStep ==
    ASSUME NormalEnds
    PROVE  IInv /\ Regular /\ Open = Counted /\ (Open = Counted)' /\ [Next]_vars
                => [Limit!AdmissionNext]_(Limit!admissionVars)
<1> SUFFICES ASSUME IInv, Regular, Open = Counted, (Open = Counted)', [Next]_vars
    PROVE  \/ \E c \in Conns :
                /\ c \notin Open \cup Left /\ Cardinality(Open) < MaxConnections
                /\ Open' = Open \cup {c} /\ UNCHANGED Left
           \/ \E c \in Conns :
                c \in Open /\ Open' = Open \ {c} /\ Left' = Left \cup {c}
           \/ UNCHANGED <<Open, Left>>
  BY SameCount DEF Open, Left, Limit!AdmissionNext, Limit!Admit, Limit!Leave, Limit!admissionVars
<1>t. /\ TypeOK /\ object \in [Conns -> {"none", "live", "freed"}]
      /\ pc \in [Threads -> Places \cup HeartbeatPlaces]
  BY DEF IInv, TypeOK, SessionTypeOK
<1>o. Open = Counted /\ Open' = Counted'
  OBVIOUS
<1>1. CASE Quiet
  <2>1. Left' = Left
    BY <1>1, Outside DEF Left, Quiet
  <2> QED BY <1>1, <1>o, <2>1, QuietKeeps
<1>2. ASSUME NEW c \in Conns, Accept(c) PROVE UNCHANGED <<Open, Left>>
  <2>1. UNCHANGED object /\ pc[c] = "none"
    BY <1>2 DEF Accept, sessionVars
  <2>2. pc'[c] \in {"refused", "accepted"} /\ \A d \in Conns : d # c => pc'[d] = pc[d]
    BY <1>t, <1>2 DEF Accept, Threads
  <2>3. Left' = Left
    BY <2>1, <2>2 DEF Left
  <2> QED BY <1>t, <1>2, <1>o, <2>3, AcceptRegular
<1>3. ASSUME NEW c \in Conns, Register(c)
      PROVE  /\ c \notin Open \cup Left /\ Cardinality(Open) < MaxConnections
             /\ Open' = Open \cup {c} /\ UNCHANGED Left
  <2>1. /\ Counted' = Counted \cup {c} /\ c \notin Counted
        /\ object[c] = "none" /\ object' = [object EXCEPT ![c] = "live"]
        /\ Cardinality(Counted) < MaxConnections
    BY <1>3, RegisterRegular
  <2>2. pc'[c] = "queued" /\ \A d \in Conns : d # c => pc'[d] = pc[d]
    BY <1>t, <1>3, HandlerMoves DEF Register
  <2>3. Left' = Left /\ c \notin Left
    BY <1>t, <2>1, <2>2 DEF Left
  <2> QED BY <1>o, <2>1, <2>3
<1>4. ASSUME NEW c \in Conns, Remove(c, fd[c], "remove", "count") PROVE UNCHANGED <<Open, Left>>
  <2>1. Counted' = Counted /\ object' = [object EXCEPT ![c] = "freed"]
    BY <1>4, RemoveRegular
  <2>2. pc[c] = "remove" /\ pc'[c] = "count" /\ \A d \in Conns : d # c => pc'[d] = pc[d]
    BY <1>t, <1>4, HandlerMoves DEF Remove
  <2>3. object[c] # "freed"
    BY <2>2, Outside, StoredIsServing, SessionAssumption DEF IInv, StoredSessionsAreAlive, Stored, GetAllSessions
  <2>4. Left' = Left
    BY <1>t, <2>1, <2>2, <2>3 DEF Left
  <2> QED BY <1>o, <2>1, <2>4
<1>5. ASSUME NEW c \in Conns, CountDown(c, "count", "close")
      PROVE  c \in Open /\ Open' = Open \ {c} /\ Left' = Left \cup {c}
  <2>1. Counted' = Counted \ {c} /\ c \in Counted /\ UNCHANGED object
    BY <1>t, <1>5, LeaveRegular
  <2>2. pc[c] = "count" /\ pc'[c] = "close" /\ \A d \in Conns : d # c => pc'[d] = pc[d]
    BY <1>t, <1>5, HandlerMoves DEF CountDown
  <2>3. object[c] = "freed"
    BY <2>2 DEF Regular
  <2>4. Left' = Left \cup {c}
    BY <2>1, <2>2, <2>3 DEF Left
  <2> QED BY <1>o, <2>1, <2>4
<1>6. ASSUME NEW c \in Conns, CloseSocket(c, "close", "done") PROVE UNCHANGED <<Open, Left>>
  <2>1. Counted' = Counted /\ UNCHANGED object
    BY <1>t, <1>6, LeaveRegular
  <2>2. pc[c] = "close" /\ pc'[c] = "done" /\ \A d \in Conns : d # c => pc'[d] = pc[d]
    BY <1>t, <1>6, HandlerMoves DEF CloseSocket
  <2>3. Left' = Left
    BY <2>1, <2>2 DEF Left
  <2> QED BY <1>o, <2>1, <2>3
<1> HIDE DEF Open, Left
<1> QED
  BY <1>1, <1>2, <1>3, <1>4, <1>5, <1>6, Steps

(* Seen from outside, the server admits each client at most once and never more than
   maxConnections at a time, although the comparison, the increment and the decrement are
   separate steps of several threads (server.cpp:203, 217, 247). *)
THEOREM ServerImplementsAdmission ==
    ASSUME NormalEnds
    PROVE  Spec => ImplementsAdmission
<1>1. Init => Limit!AdmissionInit
  <2> SUFFICES ASSUME Init PROVE Open = {} /\ Left = {}
    BY DEF Open, Left, Limit!AdmissionInit
  <2>1. \A c \in Conns : object[c] = "none" /\ ~Stored(c) /\ pc[c] = "none"
    BY SessionAssumption, HeartbeatAssumption DEF Init, SessionInit, Stored, GetAllSessions, Threads
  <2> QED BY <2>1 DEF Open, Left
<1> QED
  BY <1>1, RefinementStep, OpenIsCounted, RegularInvariant, ServerInvariant, PTL
  DEF Spec, ImplementsAdmission, Limit!AdmissionSpec

=============================================================================
