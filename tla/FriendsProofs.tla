---------------------------- MODULE FriendsProofs ----------------------------
(***************************************************************************)
(* For any number of handlers, users and messages, with statements that    *)
(* may fail: the answers to ADD_FRIEND and DEL_FRIEND are true of the      *)
(* tables, and a deletion takes the messages of the two along.             *)
(***************************************************************************)
EXTENDS Friends, TLAPS

-----------------------------------------------------------------------------
(* The inductive invariant *)

AddPlaces == {"addCheck", "insert"}

DeletePlaces == {"delCheck", "delete", "delMessages"}

\* A request whose first statement follows has passed the refusals.
Admitted(h) ==
    /\ at[h] \in AddPlaces => request[h].type = "ADD_FRIEND"
    /\ at[h] \in DeletePlaces => request[h].type = "DEL_FRIEND"
    /\ at[h] \in AddPlaces \cup DeletePlaces =>
        /\ request[h].user \in Users /\ request[h].target \in Users
        /\ request[h].type = "ADD_FRIEND" => request[h].user # request[h].target

\* What handler h knows of its own row from its last statement, unless it is excused.
Knows(h) ==
    ~excused[h] =>
        /\ at[h] \in {"insert", "delMessages"} => Row(h) \notin friends
        /\ Answers(h, "ADD_FRIEND", 0) \/ Answers(h, "ADD_FRIEND", 3002) =>
            /\ Row(h) \in friends
            /\ request[h].user # request[h].target
        /\ Answers(h, "DEL_FRIEND", 0) \/ Answers(h, "DEL_FRIEND", 3004) => Row(h) \notin friends
        /\ ~(at[h] = "answer" /\ code[h] = 5001)

\* What was there when the request came is no message of the future, is between the two,
\* and is gone once the deletion is answered.
OldMessages(h) ==
    /\ \A m \in before[h] : m.id <= stored /\ m.users = Pair(h)
    /\ Answers(h, "DEL_FRIEND", 0) => before[h] \cap messages = {}

\* What a handler relies on, apart from the types.
Sound(h) == Admitted(h) /\ Knows(h) /\ OldMessages(h)

NumbersGiven == \A m \in messages : m.id <= stored

IInv ==
    /\ TypeOK /\ NumbersGiven
    /\ \A h \in Handlers : Sound(h)

-----------------------------------------------------------------------------
(* What a step leaves the other handlers *)

\* A step of another handler as handler g sees it: its own place is as it was, its row is
\* too unless it is excused, and no message comes up that is as old as its request.
Outside(g) ==
    /\ at'[g] = at[g] /\ request'[g] = request[g] /\ code'[g] = code[g] /\ before'[g] = before[g]
    /\ excused[g] => excused'[g]
    /\ excused'[g] \/ (Row(g) \in friends' <=> Row(g) \in friends)
    /\ stored' \in Nat /\ stored <= stored'
    /\ \A m \in messages' : m \in messages \/ m.id > stored

(* Messages are numbered. *)
LEMMA MessagesNumbered ==
    ASSUME TypeOK
    PROVE  /\ stored \in Nat
           /\ \A m \in messages : m.id \in Nat
           /\ \A h \in Handlers : \A m \in before[h] : m.id \in Nat
<1> DEFINE Messages == [id : 1..MaxMessages, from : Users, users : SUBSET Users]
<1>1. MaxMessages \in Nat
  BY FriendsAssumption
<1>2. stored \in 0..MaxMessages
  BY DEF TypeOK
<1>3. \A m \in Messages : m.id \in Nat
  BY <1>1
<1>4. messages \subseteq Messages /\ before \in [Handlers -> SUBSET Messages]
  BY DEF TypeOK
<1> HIDE DEF Messages
<1> QED
  BY <1>1, <1>2, <1>3, <1>4

(* Such a step takes nothing from what g relies on. *)
LEMMA OutsideKeeps ==
    ASSUME TypeOK, NEW g \in Handlers, Sound(g), Outside(g)
    PROVE  Sound(g)'
<1> USE DEF Sound, Outside
<1>1. UNCHANGED <<Row(g), Pair(g)>>
  BY DEF Row, Pair
<1>2. Admitted(g)'
  BY DEF Admitted
<1>3. Knows(g)'
  BY <1>1 DEF Knows, Answers
<1>4. OldMessages(g)'
  <2>1. ASSUME NEW m \in before[g]
        PROVE  /\ m.id \in Nat /\ m.id <= stored /\ m.id <= stored'
               /\ m.users = Pair(g)'
    <3>1. m.id \in Nat /\ stored \in Nat
      BY MessagesNumbered
    <3>2. m.id <= stored /\ m.users = Pair(g)
      BY DEF OldMessages
    <3> QED
      BY <1>1, <3>1, <3>2
  <2>2. Answers(g, "DEL_FRIEND", 0)' => Answers(g, "DEL_FRIEND", 0)
    BY DEF Answers
  <2>3. ASSUME NEW m \in before[g], m \in messages' PROVE m \in messages
    <3>1. ~(m.id > stored)
      BY <2>1, MessagesNumbered
    <3> QED
      BY <2>3, <3>1
  <2> QED
    BY <2>1, <2>2, <2>3 DEF OldMessages
<1> QED
  BY <1>2, <1>3, <1>4

(* A handler that changes nothing but its own state is out of everybody's sight. *)
LEMMA PrivateStep ==
    ASSUME TypeOK, NEW h \in Handlers, UNCHANGED tableVars,
           NEW a, NEW q, NEW c, NEW b,
           at' = [at EXCEPT ![h] = a], request' = [request EXCEPT ![h] = q],
           code' = [code EXCEPT ![h] = c], before' = [before EXCEPT ![h] = b],
           \A g \in Handlers : g # h => excused'[g] = excused[g]
    PROVE  \A g \in Handlers : g # h => Outside(g)
BY DEF TypeOK, Outside, tableVars

-----------------------------------------------------------------------------
(* Type correctness *)

Step(h) == Begin(h) \/ HandleAddFriend(h) \/ HandleDeleteFriend(h) \/ Reply(h) \/ StoreMessage(h)

(* A step of the tables and the handlers keeps the types. *)
LEMMA StepTyped ==
    ASSUME TypeOK, NEW h \in Handlers, Admitted(h), Step(h)
    PROVE  TypeOK'
<1> DEFINE Messages == [id : 1..MaxMessages, from : Users, users : SUBSET Users]
           Codes == {0, 1001, 2003, 3001, 3002, 3003, 3004, 5001}
<1>1. /\ friends \subseteq Users \X Users
      /\ messages \subseteq Messages
      /\ stored \in 0..MaxMessages
      /\ at \in [Handlers -> Places]
      /\ request \in [Handlers -> Requests \cup {NoRequest}]
      /\ code \in [Handlers -> Codes]
      /\ before \in [Handlers -> SUBSET Messages]
      /\ excused \in [Handlers -> BOOLEAN]
  BY DEF TypeOK
<1>2. at' \in [Handlers -> Places] /\ code' \in [Handlers -> Codes]
  <2>1. CASE Begin(h)
    BY <1>1, <2>1 DEF Begin, Refusals, Answer, Goto, Places
  <2>2. CASE HandleAddFriend(h)
    BY <1>1, <2>2 DEF HandleAddFriend, AddCheck, InsertFriend, Answer, Goto, Places
  <2>3. CASE HandleDeleteFriend(h)
    BY <1>1, <2>3 DEF HandleDeleteFriend, DeleteCheck, DeleteFriend,
        DeleteMessagesBetweenUsers, Answer, Goto, Places
  <2>4. CASE Reply(h) \/ StoreMessage(h)
    BY <1>1, <2>4 DEF Reply, StoreMessage, Goto, Places
  <2> QED
    BY <2>1, <2>2, <2>3, <2>4 DEF Step
<1>3. request' \in [Handlers -> Requests \cup {NoRequest}]
  <2> HIDE DEF Messages, Codes
  <2> QED
    BY <1>1 DEF Step, Begin, HandleAddFriend, AddCheck, InsertFriend, HandleDeleteFriend,
        DeleteCheck, DeleteFriend, DeleteMessagesBetweenUsers, Reply, StoreMessage
<1>4. excused' \in [Handlers -> BOOLEAN]
  <2>1. CASE UNCHANGED excused
    BY <1>1, <2>1
  <2>2. CASE Disturb(h)
    BY <1>1, <2>2 DEF Disturb
  <2>3. CASE Fail(h)
    BY <1>1, <2>3 DEF Fail
  <2>4. CASE excused' = [excused EXCEPT ![h] = FALSE]
    BY <1>1, <2>4
  <2> QED
    BY <2>1, <2>2, <2>3, <2>4 DEF Step, Begin, HandleAddFriend, AddCheck, InsertFriend,
        HandleDeleteFriend, DeleteCheck, DeleteFriend, DeleteMessagesBetweenUsers, Reply,
        StoreMessage
<1>5. friends' \subseteq Users \X Users
  <2>1. CASE UNCHANGED friends
    BY <1>1, <2>1
  <2>2. CASE friends' = friends \ {Row(h)}
    BY <1>1, <2>2
  <2>3. CASE at[h] = "insert" /\ friends' = friends \cup {Row(h)}
    <3>1. Row(h) \in Users \X Users
      BY <2>3 DEF Admitted, AddPlaces, Row
    <3> QED
      BY <1>1, <2>3, <3>1
  <2> QED
    BY <2>1, <2>2, <2>3 DEF Step, Begin, HandleAddFriend, AddCheck, InsertFriend, Answer, Goto,
        HandleDeleteFriend, DeleteCheck, DeleteFriend, DeleteMessagesBetweenUsers, Reply,
        StoreMessage, tableVars
<1>6. messages' \subseteq Messages /\ stored' \in 0..MaxMessages
  <2>1. CASE StoreMessage(h)
    <3>1. stored' = stored + 1 /\ stored < MaxMessages /\ MaxMessages \in Nat
      BY <2>1, FriendsAssumption DEF StoreMessage
    <3>2. PICK u \in Users, v \in Users :
            messages' = messages \cup {[id |-> stored + 1, from |-> u, users |-> {u, v}]}
      BY <2>1 DEF StoreMessage
    <3>3. stored + 1 \in 1..MaxMessages
      BY <1>1, <3>1
    <3>4. [id |-> stored + 1, from |-> u, users |-> {u, v}] \in Messages
      BY <3>3
    <3>5. messages' \subseteq Messages
      BY <1>1, <3>2, <3>4
    <3>6. stored' \in 0..MaxMessages
      BY <3>1, <3>3
    <3> QED
      BY <3>5, <3>6
  <2>2. CASE messages' \subseteq messages /\ UNCHANGED stored
    BY <1>1, <2>2
  <2> QED
    BY <2>1, <2>2 DEF Step, Begin, HandleAddFriend, AddCheck, InsertFriend,
        HandleDeleteFriend, DeleteCheck, DeleteFriend, DeleteMessagesBetweenUsers, Reply,
        tableVars
<1>7. before' \in [Handlers -> SUBSET Messages]
  <2> HIDE DEF Messages
  <2>1. CASE Begin(h)
    BY <1>1, <2>1 DEF Begin
  <2>2. CASE UNCHANGED before \/ before' = [before EXCEPT ![h] = {}]
    BY <1>1, <2>2
  <2> QED
    BY <2>1, <2>2 DEF Step, HandleAddFriend, AddCheck, InsertFriend, HandleDeleteFriend,
        DeleteCheck, DeleteFriend, DeleteMessagesBetweenUsers, Reply, StoreMessage
<1> QED
  BY <1>2, <1>3, <1>4, <1>5, <1>6, <1>7 DEF TypeOK

-----------------------------------------------------------------------------
(* The other handlers *)

(* Handlers that see another step than their own keep what they rely on: a row that
   changes is an excuse for all who serve the same two users. *)
LEMMA OthersSeeNothing ==
    ASSUME TypeOK, NEW h \in Handlers, Step(h)
    PROVE  \A g \in Handlers : g # h => Outside(g)
<1> SUFFICES ASSUME NEW g \in Handlers, g # h PROVE Outside(g)
  OBVIOUS
<1>1. /\ at'[g] = at[g] /\ request'[g] = request[g] /\ code'[g] = code[g]
      /\ before'[g] = before[g]
  BY DEF TypeOK, Step, Begin, HandleAddFriend, AddCheck, InsertFriend, HandleDeleteFriend,
      DeleteCheck, DeleteFriend, DeleteMessagesBetweenUsers, Reply, StoreMessage, Answer, Goto
<1>2. /\ excused[g] => excused'[g]
      /\ excused'[g] \/ (Row(g) \in friends' <=> Row(g) \in friends)
  <2>1. CASE Disturb(h)
    <3>1. excused'[g] = (excused[g] \/ (g # h /\ Pair(g) = Pair(h)))
      BY <2>1 DEF Disturb
    <3>2. Row(g) = Row(h) => Pair(g) = Pair(h)
      BY DEF Row, Pair
    <3>3. \/ friends' = friends
          \/ friends' = friends \cup {Row(h)}
          \/ friends' = friends \ {Row(h)}
      BY DEF Step, Begin, HandleAddFriend, AddCheck, InsertFriend, HandleDeleteFriend,
          DeleteCheck, DeleteFriend, DeleteMessagesBetweenUsers, Reply, StoreMessage, tableVars
    <3>4. CASE Row(g) = Row(h)
      BY <3>1, <3>2, <3>4
    <3>5. CASE Row(g) # Row(h)
      BY <3>1, <3>3, <3>5
    <3> QED
      BY <3>4, <3>5
  <2>2. CASE /\ UNCHANGED friends
             /\ \/ UNCHANGED excused
                \/ excused' = [excused EXCEPT ![h] = TRUE]
                \/ excused' = [excused EXCEPT ![h] = FALSE]
    BY <2>2 DEF TypeOK
  <2> QED
    BY <2>1, <2>2 DEF Step, Begin, HandleAddFriend, AddCheck, InsertFriend, HandleDeleteFriend,
        DeleteCheck, DeleteFriend, DeleteMessagesBetweenUsers, Reply, StoreMessage, Fail, tableVars
<1>3. /\ stored' \in Nat /\ stored <= stored'
      /\ \A m \in messages' : m \in messages \/ m.id > stored
  <2>1. CASE StoreMessage(h)
    <3> PICK u \in Users, v \in Users :
            messages' = messages \cup {[id |-> stored + 1, from |-> u, users |-> {u, v}]}
      BY <2>1 DEF StoreMessage
    <3>1. stored' = stored + 1 /\ stored \in Nat
      BY <2>1, MessagesNumbered DEF StoreMessage
    <3>2. [id |-> stored + 1, from |-> u, users |-> {u, v}].id > stored
      BY <3>1
    <3> QED
      BY <3>1, <3>2
  <2>2. CASE messages' \subseteq messages /\ UNCHANGED stored
    BY <2>2, MessagesNumbered
  <2> QED
    BY <2>1, <2>2 DEF Step, Begin, HandleAddFriend, AddCheck, InsertFriend,
        HandleDeleteFriend, DeleteCheck, DeleteFriend, DeleteMessagesBetweenUsers, Reply, tableVars
<1> QED
  BY <1>1, <1>2, <1>3 DEF Outside

(* No message has a number that is still to be given. *)
LEMMA NumbersStayGiven ==
    ASSUME TypeOK, NumbersGiven, NEW h \in Handlers, Step(h)
    PROVE  NumbersGiven'
<1>1. CASE StoreMessage(h)
  <2> PICK u \in Users, v \in Users :
          messages' = messages \cup {[id |-> stored + 1, from |-> u, users |-> {u, v}]}
    BY <1>1 DEF StoreMessage
  <2>1. stored' = stored + 1 /\ stored \in Nat
    BY <1>1, MessagesNumbered DEF StoreMessage
  <2>2. [id |-> stored + 1, from |-> u, users |-> {u, v}].id = stored + 1
    OBVIOUS
  <2>3. \A m \in messages : m.id <= stored'
    BY <2>1, MessagesNumbered DEF NumbersGiven
  <2> QED
    BY <2>1, <2>2, <2>3 DEF NumbersGiven
<1>2. CASE messages' \subseteq messages /\ UNCHANGED stored
  BY <1>2 DEF NumbersGiven
<1> QED
  BY <1>1, <1>2 DEF Step, Begin, HandleAddFriend, AddCheck, InsertFriend,
      HandleDeleteFriend, DeleteCheck, DeleteFriend, DeleteMessagesBetweenUsers, Reply, tableVars

-----------------------------------------------------------------------------
(* The handler itself *)

(* A request that begins is known to be well-formed, or refused for what it is. *)
LEMMA BeginSound ==
    ASSUME IInv, NEW h \in Handlers, Begin(h)
    PROVE  Sound(h)'
<1> PICK r \in Requests :
        /\ \/ \E c \in Refusals(r) : Answer(h, "idle", c)
           \/ /\ Refusals(r) = {}
              /\ Goto(h, "idle", IF r.type = "ADD_FRIEND" THEN "addCheck" ELSE "delCheck")
              /\ UNCHANGED code
        /\ request' = [request EXCEPT ![h] = r]
        /\ before' = [before EXCEPT ![h] = {m \in messages : m.users = {r.user, r.target}}]
        /\ UNCHANGED <<tableVars, excused>>
  BY DEF Begin
<1>1. request'[h] = r /\ before'[h] = {m \in messages : m.users = {r.user, r.target}}
  BY DEF IInv, TypeOK
<1>2. UNCHANGED <<friends, messages, stored, excused>>
  BY DEF tableVars
<1>3. \A m \in before'[h] : m.id <= stored' /\ m.users = Pair(h)'
  BY <1>1, <1>2 DEF IInv, NumbersGiven, Pair
<1>4. CASE \E c \in Refusals(r) : Answer(h, "idle", c)
  <2> PICK c \in Refusals(r) : Answer(h, "idle", c)
    BY <1>4
  <2>1. c \in {1001, 2003, 3001, 3003}
    BY DEF Refusals
  <2>2. at'[h] = "answer" /\ code'[h] = c
    BY DEF Answer, Goto, IInv, TypeOK
  <2> QED
    BY <1>3, <2>1, <2>2
    DEF Sound, Admitted, AddPlaces, DeletePlaces, Knows, OldMessages, Answers
<1>5. CASE /\ Refusals(r) = {}
           /\ Goto(h, "idle", IF r.type = "ADD_FRIEND" THEN "addCheck" ELSE "delCheck")
  <2>1. r.user # NoName /\ r.target # NoName /\ (r.type = "ADD_FRIEND" => r.user # r.target)
    BY <1>5 DEF Refusals
  <2>2. r.user \in Users /\ r.target \in Users /\ r.type \in {"ADD_FRIEND", "DEL_FRIEND"}
    BY <2>1 DEF Requests
  <2>3. at'[h] = IF r.type = "ADD_FRIEND" THEN "addCheck" ELSE "delCheck"
    BY <1>5 DEF Goto, IInv, TypeOK
  <2> QED
    BY <1>1, <1>3, <2>1, <2>2, <2>3
    DEF Sound, Admitted, AddPlaces, DeletePlaces, Knows, OldMessages, Answers
<1> QED
  BY <1>4, <1>5

(* A step of the handler h that is no Begin and no Reply serves the same request. *)
LEMMA SameRequest ==
    ASSUME TypeOK, NEW h \in Handlers, UNCHANGED <<request, before, stored>>
    PROVE  UNCHANGED <<Row(h), Pair(h), request[h], before[h], stored>>
BY DEF Row, Pair

(* An insertion that succeeds makes the row, and one that fails does so because the
   row was there when the handler knew it was not. *)
LEMMA AddSound ==
    ASSUME IInv, NEW h \in Handlers, HandleAddFriend(h)
    PROVE  Sound(h)'
<1> USE DEF IInv
<1>0. UNCHANGED <<request, before, stored, messages>>
  BY DEF HandleAddFriend, AddCheck, InsertFriend, tableVars
<1>1. UNCHANGED <<Row(h), Pair(h), request[h], before[h]>>
  BY <1>0, SameRequest
<1>2. at[h] \in AddPlaces /\ Admitted(h) /\ Knows(h) /\ OldMessages(h)
  BY DEF HandleAddFriend, AddCheck, InsertFriend, Answer, Goto, AddPlaces, Sound
<1>3. at'[h] \in {"insert", "answer"}
  BY DEF HandleAddFriend, AddCheck, InsertFriend, Answer, Goto, TypeOK
<1>4. Admitted(h)'
  BY <1>1, <1>2, <1>3 DEF Admitted, AddPlaces, DeletePlaces
<1>5. request[h].type = "ADD_FRIEND" /\ request[h].user # request[h].target
  BY <1>2 DEF Admitted
<1>6. OldMessages(h)'
  BY <1>0, <1>1, <1>2, <1>5 DEF OldMessages, Answers
<1>7. Knows(h)'
  <2>1. ASSUME Fail(h) PROVE excused'[h]
    BY <2>1 DEF Fail, TypeOK
  <2>2. CASE AddCheck(h)
    <3>1. friends' = friends
      BY <2>2 DEF AddCheck, tableVars
    <3>2. CASE CheckFriendship(h) /\ Answer(h, "addCheck", 3002)
      <4>1. at'[h] = "answer" /\ code'[h] = 3002
        BY <3>2 DEF Answer, Goto, TypeOK
      <4> QED
        BY <1>1, <1>5, <3>1, <3>2, <4>1 DEF Knows, Answers, CheckFriendship
    <3>3. CASE ~CheckFriendship(h) /\ Goto(h, "addCheck", "insert")
      <4>1. at'[h] = "insert"
        BY <3>3 DEF Goto, TypeOK
      <4> QED
        BY <1>1, <3>1, <3>3, <4>1 DEF Knows, Answers, CheckFriendship
    <3>4. CASE Fail(h)
      BY <2>1, <3>4 DEF Knows
    <3> QED
      BY <2>2, <3>2, <3>3, <3>4 DEF AddCheck
  <2>3. CASE InsertFriend(h)
    <3>1. at[h] = "insert" /\ at'[h] = "answer"
      BY <2>3 DEF InsertFriend, Answer, Goto, TypeOK
    <3>2. CASE friends' = friends \cup {Row(h)} /\ Answer(h, "insert", 0)
      <4>1. code'[h] = 0
        BY <3>2 DEF Answer, TypeOK
      <4> QED
        BY <1>1, <1>5, <3>1, <3>2, <4>1 DEF Knows, Answers
    <3>3. CASE CheckFriendship(h) /\ UNCHANGED <<friends, excused>>
      BY <1>2, <3>1, <3>3 DEF Knows, CheckFriendship
    <3>4. CASE Fail(h)
      BY <2>1, <3>4 DEF Knows
    <3> QED
      BY <2>3, <3>2, <3>3, <3>4 DEF InsertFriend
  <2> QED
    BY <2>2, <2>3 DEF HandleAddFriend
<1> QED
  BY <1>4, <1>6, <1>7 DEF Sound

(* A deletion leaves neither the row nor the messages that were there. *)
LEMMA DeleteSound ==
    ASSUME IInv, NEW h \in Handlers, HandleDeleteFriend(h)
    PROVE  Sound(h)'
<1> USE DEF IInv
<1>0. UNCHANGED <<request, before, stored>> /\ messages' \subseteq messages
  BY DEF HandleDeleteFriend, DeleteCheck, DeleteFriend, DeleteMessagesBetweenUsers, tableVars
<1>1. UNCHANGED <<Row(h), Pair(h), request[h], before[h]>>
  BY <1>0, SameRequest
<1>2. at[h] \in DeletePlaces /\ Admitted(h) /\ Knows(h) /\ OldMessages(h)
  BY DEF HandleDeleteFriend, DeleteCheck, DeleteFriend, DeleteMessagesBetweenUsers,
      Answer, Goto, DeletePlaces, Sound
<1>3. at'[h] \in {"delete", "delMessages", "answer"}
  BY DEF HandleDeleteFriend, DeleteCheck, DeleteFriend, DeleteMessagesBetweenUsers, Answer,
      Goto, TypeOK
<1>4. Admitted(h)'
  BY <1>1, <1>2, <1>3 DEF Admitted, AddPlaces, DeletePlaces
<1>5. request[h].type = "DEL_FRIEND"
  BY <1>2 DEF Admitted
<1>6. ASSUME Fail(h) PROVE excused'[h]
  BY <1>6 DEF Fail, TypeOK
<1>7. CASE DeleteCheck(h)
  <2>1. CASE CheckFriendship(h) /\ Goto(h, "delCheck", "delete")
    <3>1. at'[h] = "delete"
      BY <2>1 DEF Goto, TypeOK
    <3> QED
      BY <1>0, <1>1, <1>2, <1>4, <3>1 DEF Sound, Knows, OldMessages, Answers
  <2>2. CASE Answer(h, "delCheck", 3004)
    <3>1. at'[h] = "answer" /\ code'[h] = 3004 /\ UNCHANGED friends
      BY <1>7, <2>2 DEF Answer, Goto, TypeOK, DeleteCheck, tableVars
    <3>2. excused'[h] \/ Row(h) \notin friends
      BY <1>6, <1>7, <2>2, <3>1 DEF DeleteCheck, CheckFriendship, Goto, TypeOK
    <3> QED
      BY <1>0, <1>1, <1>2, <1>4, <1>5, <3>1, <3>2 DEF Sound, Knows, OldMessages, Answers
  <2> QED
    BY <1>7, <2>1, <2>2 DEF DeleteCheck
<1>8. CASE DeleteFriend(h)
  <2>1. CASE Goto(h, "delete", "delMessages") /\ friends' = friends \ {Row(h)}
    <3>1. at'[h] = "delMessages"
      BY <2>1 DEF Goto, TypeOK
    <3> QED
      BY <1>0, <1>1, <1>2, <1>4, <2>1, <3>1 DEF Sound, Knows, OldMessages, Answers
  <2>2. CASE Fail(h) /\ Answer(h, "delete", 5001)
    <3>1. at'[h] = "answer" /\ code'[h] = 5001
      BY <2>2 DEF Answer, Goto, TypeOK
    <3> QED
      BY <1>0, <1>1, <1>2, <1>4, <1>6, <2>2, <3>1 DEF Sound, Knows, OldMessages, Answers
  <2> QED
    BY <1>8, <2>1, <2>2 DEF DeleteFriend
<1>9. CASE DeleteMessagesBetweenUsers(h)
  <2>1. /\ at[h] = "delMessages" /\ at'[h] = "answer" /\ code'[h] = 0
        /\ UNCHANGED friends
    BY <1>9 DEF DeleteMessagesBetweenUsers, Answer, Goto, TypeOK
  <2>2. excused[h] => excused'[h]
    BY <1>6, <1>9 DEF DeleteMessagesBetweenUsers
  <2>3. Knows(h)'
    BY <1>1, <1>2, <1>5, <2>1, <2>2 DEF Knows, Answers
  <2>4. OldMessages(h)'
    <3>1. CASE messages' = {m \in messages : m.users # Pair(h)}
      BY <1>0, <1>1, <1>2, <3>1 DEF OldMessages
    <3>2. CASE Fail(h)
      BY <1>0, <1>1, <1>2, <1>6, <3>2 DEF OldMessages, Answers
    <3> QED
      BY <1>9, <3>1, <3>2 DEF DeleteMessagesBetweenUsers
  <2> QED
    BY <1>4, <2>3, <2>4 DEF Sound
<1> QED
  BY <1>7, <1>8, <1>9 DEF HandleDeleteFriend

(* Between two requests nothing is known and nothing is owed. *)
LEMMA IdleSound ==
    ASSUME IInv, NEW h \in Handlers, Reply(h) \/ StoreMessage(h)
    PROVE  Sound(h)'
<1> USE DEF IInv
<1>1. at'[h] = "idle"
  BY DEF Reply, StoreMessage, Goto, TypeOK
<1>2. Admitted(h)' /\ Knows(h)'
  BY <1>1 DEF Admitted, Knows, Answers, AddPlaces, DeletePlaces
<1>3. OldMessages(h)'
  <2>1. CASE Reply(h)
    <3>1. before'[h] = {}
      BY <2>1 DEF Reply, TypeOK
    <3> QED
      BY <1>1, <3>1 DEF OldMessages, Answers
  <2>2. CASE StoreMessage(h)
    <3>1. \A m \in before[h] : m.id <= stored /\ m.users = Pair(h)
      BY DEF Sound, OldMessages
    <3>2. stored \in Nat /\ stored' = stored + 1 /\ \A m \in before[h] : m.id \in Nat
      BY <2>2, MessagesNumbered DEF StoreMessage
    <3>3. UNCHANGED <<before, Pair(h)>>
      BY <2>2 DEF StoreMessage, Pair
    <3>4. \A m \in before[h] : m.id <= stored'
      BY <3>1, <3>2
    <3> QED
      BY <1>1, <3>1, <3>3, <3>4 DEF OldMessages, Answers
  <2> QED
    BY <2>1, <2>2
<1> QED
  BY <1>2, <1>3 DEF Sound

-----------------------------------------------------------------------------
(* The theorems *)

(* The initial state satisfies the inductive invariant. *)
LEMMA InitIInv == Init => IInv
<1> SUFFICES ASSUME Init PROVE IInv
  OBVIOUS
<1>1. TypeOK
  <2>1. stored \in 0..MaxMessages
    <3>1. stored = 0 /\ MaxMessages \in Nat
      BY FriendsAssumption DEF Init
    <3> QED
      BY <3>1
  <2>2. at \in [Handlers -> Places]
    BY DEF Init, Places
  <2> QED
    BY <2>1, <2>2 DEF Init, TypeOK
<1>2. NumbersGiven
  BY DEF Init, NumbersGiven
<1>3. \A h \in Handlers : Sound(h)
  BY DEF Init, Sound, Admitted, Knows, OldMessages, Answers, AddPlaces, DeletePlaces
<1> QED
  BY <1>1, <1>2, <1>3 DEF IInv

(* Every step keeps it, and so does standing still. *)
LEMMA NextIInv == IInv /\ [Next]_vars => IInv'
<1> SUFFICES ASSUME IInv, [Next]_vars PROVE IInv'
  OBVIOUS
<1>1. ASSUME NEW h \in Handlers, Step(h) PROVE IInv'
  <2>1. TypeOK'
    BY <1>1, StepTyped DEF IInv, Sound
  <2>2. NumbersGiven'
    BY <1>1, NumbersStayGiven DEF IInv
  <2>3. Sound(h)'
    BY <1>1, BeginSound, AddSound, DeleteSound, IdleSound DEF Step
  <2>4. ASSUME NEW g \in Handlers, g # h PROVE Sound(g)'
    BY <1>1, <2>4, OthersSeeNothing, OutsideKeeps DEF IInv
  <2> QED
    BY <2>1, <2>2, <2>3, <2>4 DEF IInv
<1>2. CASE UNCHANGED vars
  BY <1>2 DEF vars, tableVars, IInv, TypeOK, NumbersGiven, Sound, Admitted, Knows, OldMessages,
      Answers, Row, Pair
<1> QED
  BY <1>1, <1>2 DEF Next, Step

(* The inductive invariant holds in every state. *)
THEOREM Invariance == Spec => []IInv
<1> QED
  BY InitIInv, NextIInv, PTL DEF Spec

(* Every variable has its type. *)
THEOREM TypeCorrect == Spec => []TypeOK
<1>1. IInv => TypeOK
  BY DEF IInv
<1> QED
  BY <1>1, Invariance, PTL

(* Every answer about a friendship is true of the table when it is given, unless another
   request for the same two users interfered or a statement failed. *)
THEOREM TrueAnswers == Spec => []AnswersAreTrue
<1>1. IInv => AnswersAreTrue
  <2> SUFFICES ASSUME IInv, NEW h \in Handlers PROVE AnswerIsTrue(h)
    BY DEF AnswersAreTrue
  <2>1. Knows(h)
    BY DEF IInv, Sound
  <2>2. ASSUME Answers(h, "ADD_FRIEND", 0) \/ Answers(h, "ADD_FRIEND", 3002)
        PROVE  /\ request[h].target \in GetFriendList(request[h].user)
               /\ request[h].user \in GetFriendList(request[h].target)
    <3>1. Row(h) \in friends /\ request[h].user # request[h].target
      BY <2>1, <2>2 DEF Knows, Answers
    <3>2. request[h].user \in Users /\ request[h].target \in Users
      BY <3>1 DEF IInv, TypeOK, Row
    <3> QED
      BY <3>1, <3>2 DEF GetFriendList, Row
  <2>3. \A c \in {0, 3004} : Answers(h, "DEL_FRIEND", c) => ~CheckFriendship(h)
    BY <2>1 DEF Knows, Answers, CheckFriendship
  <2>4. \A type \in {"ADD_FRIEND", "DEL_FRIEND"} : ~Answers(h, type, 5001)
    BY <2>1 DEF Knows, Answers
  <2> QED
    BY <2>2, <2>3, <2>4 DEF AnswerIsTrue
<1> QED
  BY <1>1, Invariance, PTL

(* A deletion that is answered has taken along the messages of the two. *)
THEOREM MessagesGoWithTheFriend == Spec => []DeletedFriendsHaveNoMessages
<1>1. IInv => DeletedFriendsHaveNoMessages
  BY DEF IInv, Sound, OldMessages, DeletedFriendsHaveNoMessages
<1> QED
  BY <1>1, Invariance, PTL

=============================================================================
