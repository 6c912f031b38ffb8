------------------------------ MODULE Friends ------------------------------
(***************************************************************************)
(* Friendships and the messages that go with them (src/src/system/         *)
(* friend_manager.cpp and friend_dao.cpp).                                 *)
(*                                                                         *)
(* Handlers serve requests side by side, and a step is one database        *)
(* statement.  A connection that is not logged in acts for the user its    *)
(* request names (server.cpp:550-568), so several handlers may act for the *)
(* same user.  The cache of friend lists is left out: it is written at     *)
(* login and logout, and nothing reads it.                                 *)
(***************************************************************************)
EXTENDS Naturals

CONSTANTS
    Handlers,       \* the threads that serve connections
    Users,          \* registered users
    MaxMessages,    \* bound on the number of messages stored
    DbMayFail       \* whether a database statement may fail

ASSUME FriendsAssumption == MaxMessages \in Nat /\ DbMayFail \in BOOLEAN /\ "" \notin Users

VARIABLES
    friends,    \* the rows <<user_id1, user_id2>>; the pair is a UNIQUE KEY
    messages,   \* the rows of table messages: number, sender and the two users
    stored,     \* how many messages have been stored
    at,         \* where each handler is
    request,    \* the request it serves: ADD_FRIEND or DEL_FRIEND, user and target
    code,       \* the code it answers
    \* What an answer is judged by; the code has no such variables.
    before,     \* the messages between user and target when the request began
    excused     \* since then somebody else has changed their rows or a statement failed

tableVars == <<friends, messages, stored>>
vars == <<tableVars, at, request, code, before, excused>>

\* A name that nobody has, or that could not be looked up.
NoName == ""

Requests == [type : {"ADD_FRIEND", "DEL_FRIEND"},
             user : Users \cup {NoName}, target : Users \cup {NoName}]

NoRequest == [type |-> "none", user |-> NoName, target |-> NoName]

Init ==
    /\ friends = {} /\ messages = {} /\ stored = 0
    /\ at = [h \in Handlers |-> "idle"]
    /\ request = [h \in Handlers |-> NoRequest]
    /\ code = [h \in Handlers |-> 0]
    /\ before = [h \in Handlers |-> {}]
    /\ excused = [h \in Handlers |-> FALSE]

-----------------------------------------------------------------------------
(* Building blocks *)

Row(h) == <<request[h].user, request[h].target>>
Pair(h) == {request[h].user, request[h].target}

\* SELECT COUNT in the direction of the request only.
CheckFriendship(h) == Row(h) \in friends

\* The friends of u, on either side of a row.
GetFriendList(u) == {v \in Users : <<u, v>> \in friends \/ <<v, u>> \in friends} \ {u}

Goto(h, from, to) == at[h] = from /\ at' = [at EXCEPT ![h] = to]

\* Handler h answers c.
Answer(h, from, c) == Goto(h, from, "answer") /\ code' = [code EXCEPT ![h] = c]

\* Handler h has changed a row: a reason for what others answer about these users.
Disturb(h) == excused' = [g \in Handlers |-> excused[g] \/ (g # h /\ Pair(g) = Pair(h))]

Fail(h) == DbMayFail /\ excused' = [excused EXCEPT ![h] = TRUE]

\* The codes that refuse a request before the tables are looked at: no names at all, a
\* friendship with oneself, an unknown user, an unknown target.
Refusals(r) ==
    {c \in {1001} : r.user = NoName /\ r.target = NoName}
        \cup {c \in {3003} : r.type = "ADD_FRIEND" /\ r.user = r.target}
        \cup {c \in {2003} : r.user = NoName}
        \cup {c \in {3001} : r.user # NoName /\ r.target = NoName}

\* A request arrives and is refused, or its first statement follows.
Begin(h) ==
    \E r \in Requests :
        /\ \/ \E c \in Refusals(r) : Answer(h, "idle", c)
           \/ /\ Refusals(r) = {}
              /\ Goto(h, "idle", IF r.type = "ADD_FRIEND" THEN "addCheck" ELSE "delCheck")
              /\ UNCHANGED code
        /\ request' = [request EXCEPT ![h] = r]
        /\ before' = [before EXCEPT ![h] = {m \in messages : m.users = {r.user, r.target}}]
        /\ UNCHANGED <<tableVars, excused>>

-----------------------------------------------------------------------------
(* HandleAddFriend *)

\* A query that fails finds no friendship.
AddCheck(h) ==
    /\ \/ CheckFriendship(h) /\ Answer(h, "addCheck", 3002) /\ UNCHANGED excused
       \/ ~CheckFriendship(h) /\ Goto(h, "addCheck", "insert") /\ UNCHANGED <<code, excused>>
       \/ Fail(h) /\ Goto(h, "addCheck", "insert") /\ UNCHANGED code
    /\ UNCHANGED <<tableVars, request, before>>

\* Slip: the id of a target that was not found is inserted.
InsertUnchecked(h) ==
    /\ friends' = friends \cup {<<request[h].user, 0>>}
    /\ Answer(h, "insert", 0) /\ Disturb(h)
    /\ UNCHANGED <<messages, stored, request, before>>

\* The UNIQUE KEY refuses a row that exists.
InsertFriend(h) ==
    /\ \/ /\ ~CheckFriendship(h) /\ friends' = friends \cup {Row(h)}
          /\ Answer(h, "insert", 0) /\ Disturb(h)
       \/ /\ CheckFriendship(h) /\ UNCHANGED <<friends, excused>>
          /\ Answer(h, "insert", 5001)
       \/ Fail(h) /\ Answer(h, "insert", 5001) /\ UNCHANGED friends
    /\ UNCHANGED <<messages, stored, request, before>>

HandleAddFriend(h) == AddCheck(h) \/ InsertFriend(h)

-----------------------------------------------------------------------------
(* HandleDeleteFriend *)

DeleteCheck(h) ==
    /\ \/ CheckFriendship(h) /\ Goto(h, "delCheck", "delete") /\ UNCHANGED <<code, excused>>
       \/ ~CheckFriendship(h) /\ Answer(h, "delCheck", 3004) /\ UNCHANGED excused
       \/ Fail(h) /\ Answer(h, "delCheck", 3004)
    /\ UNCHANGED <<tableVars, request, before>>

\* Slip: user_id1 and user_id2 are swapped in the statement.
DeleteSwapped(h) ==
    /\ Goto(h, "delete", "delMessages")
    /\ friends' = friends \ {<<request[h].target, request[h].user>>}
    /\ Disturb(h)
    /\ UNCHANGED <<messages, stored, request, code, before>>

\* A row that is gone meanwhile is no error.
DeleteFriend(h) ==
    /\ \/ /\ Goto(h, "delete", "delMessages")
          /\ friends' = friends \ {Row(h)}
          /\ Disturb(h) /\ UNCHANGED code
       \/ Fail(h) /\ Answer(h, "delete", 5001) /\ UNCHANGED friends
    /\ UNCHANGED <<messages, stored, request, before>>

\* Slip: only what the user sent is deleted.
DeleteOneWay(h) ==
    /\ Answer(h, "delMessages", 0)
    /\ messages' = {m \in messages : m.users # Pair(h) \/ m.from # request[h].user}
    /\ UNCHANGED <<friends, stored, request, before, excused>>

\* The messages in both directions; the result of the statement is ignored.
DeleteMessagesBetweenUsers(h) ==
    /\ Answer(h, "delMessages", 0)
    /\ \/ messages' = {m \in messages : m.users # Pair(h)} /\ UNCHANGED excused
       \/ Fail(h) /\ UNCHANGED messages
    /\ UNCHANGED <<friends, stored, request, before>>

HandleDeleteFriend(h) ==
    DeleteCheck(h) \/ DeleteFriend(h) \/ DeleteMessagesBetweenUsers(h)

-----------------------------------------------------------------------------
\* The answer is sent, and the next request may come.
Reply(h) ==
    /\ Goto(h, "answer", "idle")
    /\ request' = [request EXCEPT ![h] = NoRequest]
    /\ code' = [code EXCEPT ![h] = 0]
    /\ before' = [before EXCEPT ![h] = {}]
    /\ excused' = [excused EXCEPT ![h] = FALSE]
    /\ UNCHANGED tableVars

\* StoreMessage of HandleSendMessage, which does not ask for a friendship.
StoreMessage(h) ==
    /\ at[h] = "idle"
    /\ stored < MaxMessages
    /\ stored' = stored + 1
    /\ \E u, v \in Users :
        messages' = messages \cup {[id |-> stored + 1, from |-> u, users |-> {u, v}]}
    /\ UNCHANGED <<friends, at, request, code, before, excused>>

Next == \E h \in Handlers :
    Begin(h) \/ HandleAddFriend(h) \/ HandleDeleteFriend(h) \/ Reply(h) \/ StoreMessage(h)

Spec == Init /\ [][Next]_vars

-----------------------------------------------------------------------------
(* Properties *)

Places == {"idle", "addCheck", "insert", "delCheck", "delete", "delMessages", "answer"}

\* Every variable has its type.
TypeOK ==
    /\ friends \subseteq Users \X Users
    /\ messages \subseteq [id : 1..MaxMessages, from : Users, users : SUBSET Users]
    /\ stored \in 0..MaxMessages
    /\ at \in [Handlers -> Places]
    /\ request \in [Handlers -> Requests \cup {NoRequest}]
    /\ code \in [Handlers -> {0, 1001, 2003, 3001, 3002, 3003, 3004, 5001}]
    /\ before \in [Handlers -> SUBSET [id : 1..MaxMessages, from : Users, users : SUBSET Users]]
    /\ excused \in [Handlers -> BOOLEAN]

\* Handler h is about to answer c to a request nothing interfered with.
Answers(h, type, c) ==
    at[h] = "answer" /\ request[h].type = type /\ code[h] = c /\ ~excused[h]

\* The answer handler h gives is true of the tables.
AnswerIsTrue(h) ==
    /\ \A c \in {0, 3002} : Answers(h, "ADD_FRIEND", c) =>
            /\ request[h].target \in GetFriendList(request[h].user)
            /\ request[h].user \in GetFriendList(request[h].target)
    /\ \A c \in {0, 3004} : Answers(h, "DEL_FRIEND", c) => ~CheckFriendship(h)
    /\ \A type \in {"ADD_FRIEND", "DEL_FRIEND"} : ~Answers(h, type, 5001)

\* An answer is true of the tables when it is given, unless another request interfered
\* or a statement failed: although every handler looks and acts in separate statements,
\* a friend who was added or was there before is in the lists of both, a friendship that
\* was deleted or not found is not stored, and nothing else fails
\* (friend_manager.cpp:66-79 and 115-129).
AnswersAreTrue == \A h \in Handlers : AnswerIsTrue(h)

\* A deletion that is answered has taken along what the two had written each other before
\* it was asked for, in both directions and whoever writes or deletes meanwhile
\* (friend_manager.cpp:127, friend_dao.cpp:103).
DeletedFriendsHaveNoMessages ==
    \A h \in Handlers : Answers(h, "DEL_FRIEND", 0) => before[h] \cap messages = {}

=============================================================================
