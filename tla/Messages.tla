------------------------------ MODULE Messages ------------------------------
(***************************************************************************)
(* The delivery of messages to one user (src/src/system/                   *)
(* message_manager.cpp and message_dao.cpp): handlers of other users store *)
(* a message and forward it when the receiver is online, the receiver's    *)
(* own handler pushes what is unread when he logs in.                      *)
(*                                                                         *)
(* Every statement and every lookup names the receiver, so the deliveries  *)
(* to different users do not interact; Receiver stands for any of them.    *)
(* A step is one database statement, one call of the session manager or    *)
(* one send.  The receiver logs in over one connection after the other;    *)
(* Server.tla is about connections that compete.                           *)
(***************************************************************************)
EXTENDS Naturals, Sequences

CONSTANTS
    Senders,        \* users who send to the receiver
    MaxMessages,    \* bound on the number of messages
    MaxLogins,      \* bound on the number of times the receiver logs in
    ClientLeaves,   \* whether the receiver's client may disconnect
    DbMayFail       \* whether a database statement may fail

Receiver == "receiver"      \* the handler of the receiver's connection
Threads == Senders \cup {Receiver}

ASSUME MessagesAssumption ==
    /\ Receiver \notin Senders
    /\ MaxMessages \in Nat /\ MaxLogins \in Nat
    /\ {ClientLeaves, DbMayFail} \subseteq BOOLEAN

VARIABLES
    messages,   \* the table: message_id |-> sender_id and is_read
    isOnline,   \* users.is_online of the receiver
    session,    \* the login whose session GetSessionByUsername finds, or 0
    login,      \* the number of the receiver's current connection
    client,     \* the receiver's client: "away", "connected" or "left"
    inbox,      \* the messages that have reached one of his clients
    at,         \* where each handler is
    msg,        \* the message each handler forwards
    found,      \* receiverSession of ForwardMessage
    unread,     \* what PushOfflineMessages has read from the table
    todo,       \* what of it is still to be forwarded
    failed      \* whether a statement has failed: what the properties make allowance for

tableVars == <<messages, isOnline, session>>
clientVars == <<login, client, inbox>>
pushVars == <<unread, todo>>
vars == <<tableVars, clientVars, at, msg, found, pushVars, failed>>

Ids == 1..Len(messages)
Unread == {m \in Ids : ~messages[m].read}

Init ==
    /\ messages = <<>> /\ isOnline = FALSE /\ session = 0
    /\ login = 0 /\ client = "away" /\ inbox = {}
    /\ at = [t \in Threads |-> IF t = Receiver THEN "none" ELSE "idle"]
    /\ msg = [t \in Threads |-> 0]
    /\ found = [t \in Threads |-> 0]
    /\ unread = {} /\ todo = {}
    /\ failed = FALSE

Goto(t, from, to) == at[t] = from /\ at' = [at EXCEPT ![t] = to]

Fail == DbMayFail /\ failed' = TRUE

-----------------------------------------------------------------------------
(* HandleSendMessage, for a valid request between existing users *)

\* Sender s has stored a message and goes on with the one of number id.  A message whose
\* INSERT fails is refused with 5001 and changes nothing.
StoreAs(s, id) ==
    /\ Goto(s, "idle", "check")
    /\ Len(messages) < MaxMessages
    /\ messages' = Append(messages, [from |-> s, read |-> FALSE])
    /\ msg' = [msg EXCEPT ![s] = id]
    /\ UNCHANGED <<isOnline, session, clientVars, found, pushVars, failed>>

\* Slip: the next message is taken for the one just stored.
StoreForNext(s) == StoreAs(s, Len(messages) + 2)

StoreMessage(s) == StoreAs(s, Len(messages) + 1)

\* A query that fails leaves isOnline false.
CheckOnline(s) ==
    /\ \/ Goto(s, "check", "find") /\ isOnline /\ UNCHANGED failed
       \/ Goto(s, "check", "idle") /\ ~isOnline /\ UNCHANGED failed
       \/ Goto(s, "check", "idle") /\ Fail
    /\ UNCHANGED <<tableVars, clientVars, msg, found, pushVars>>

FindReceiver(s) ==
    /\ \/ Goto(s, "find", "forward") /\ session # 0
       \/ Goto(s, "find", "idle") /\ session = 0
    /\ UNCHANGED <<tableVars, clientVars, msg, found, pushVars, failed>>

-----------------------------------------------------------------------------
(* ForwardMessage, called by HandleSendMessage and by PushOfflineMessages *)

\* Where a handler goes on after ForwardMessage; the MSG_NOTIFY it sends before that
\* carries a summary only.
Resume(t) == IF t = Receiver THEN "push" ELSE "idle"

\* The receiver's session is looked up a second time.
FindAgain(t) ==
    /\ \/ Goto(t, "forward", "send") /\ session # 0
       \/ Goto(t, "forward", Resume(t)) /\ session = 0
    /\ found' = [found EXCEPT ![t] = session]
    /\ UNCHANGED <<tableVars, clientVars, msg, pushVars, failed>>

\* send() to a client that has left may well succeed.
SendForward(t) ==
    /\ \/ /\ Goto(t, "send", "mark")
          /\ inbox' = IF found[t] = login /\ client = "connected" THEN inbox \cup {msg[t]} ELSE inbox
       \/ /\ Goto(t, "send", Resume(t))
          /\ found[t] # login \/ client # "connected"
          /\ UNCHANGED inbox
    /\ UNCHANGED <<tableVars, login, client, msg, found, pushVars, failed>>

\* Slip: nothing is marked.
MarkNothing(t) ==
    /\ Goto(t, "mark", Resume(t))
    /\ UNCHANGED <<tableVars, clientVars, msg, found, pushVars, failed>>

\* Marks all the messages of this sender, not only the one that was sent.
MarkMessagesAsRead(t) ==
    /\ Goto(t, "mark", Resume(t))
    /\ \/ /\ messages' = [m \in Ids |->
                [messages[m] EXCEPT !.read = @ \/ messages[m].from = messages[msg[t]].from]]
          /\ UNCHANGED failed
       \/ Fail /\ UNCHANGED messages
    /\ UNCHANGED <<isOnline, session, clientVars, msg, found, pushVars>>

ForwardMessage(t) == FindAgain(t) \/ SendForward(t) \/ MarkMessagesAsRead(t)

-----------------------------------------------------------------------------
(* The receiver's connection: HandleLogin, PushOfflineMessages, the end of HandleClient *)

Connect ==
    /\ Goto(Receiver, "none", "setOnline")
    /\ login < MaxLogins
    /\ login' = login + 1
    /\ client' = "connected"
    /\ UNCHANGED <<tableVars, inbox, msg, found, pushVars, failed>>

\* Slip: is_online is not set.
StayOffline ==
    /\ Goto(Receiver, "setOnline", "bind")
    /\ UNCHANGED <<tableVars, clientVars, msg, found, pushVars, failed>>

SetOnline ==
    /\ Goto(Receiver, "setOnline", "bind")
    /\ (isOnline' = TRUE /\ UNCHANGED failed) \/ (Fail /\ UNCHANGED isOnline)
    /\ UNCHANGED <<messages, session, clientVars, msg, found, pushVars>>

Bind ==
    /\ Goto(Receiver, "bind", "query")
    /\ session' = login
    /\ UNCHANGED <<messages, isOnline, clientVars, msg, found, pushVars, failed>>

\* A query that fails finds nothing.  The session PushOfflineMessages looks for next is
\* its own handler's, which is bound.
GetUnreadMessages ==
    /\ Goto(Receiver, "query", "push")
    /\ (unread' = Unread /\ UNCHANGED failed) \/ (Fail /\ unread' = {})
    /\ todo' = unread'
    /\ UNCHANGED <<tableVars, clientVars, msg, found>>

\* Slip: only the newest message is pushed.
PushNewest ==
    /\ Goto(Receiver, "push", "forward")
    /\ \E m \in todo : (\A k \in todo : k <= m) /\ msg' = [msg EXCEPT ![Receiver] = m]
    /\ todo' = {}
    /\ UNCHANGED <<tableVars, clientVars, found, unread, failed>>

\* The list is ordered by send_time, which has a resolution of one second: messages
\* of the same second may come in any order, and the model lets all of them.
PushNext ==
    /\ Goto(Receiver, "push", "forward")
    /\ \E m \in todo : todo' = todo \ {m} /\ msg' = [msg EXCEPT ![Receiver] = m]
    /\ UNCHANGED <<tableVars, clientVars, found, unread, failed>>

PushEnds ==
    /\ Goto(Receiver, "push", "loop")
    /\ todo = {}
    /\ UNCHANGED <<tableVars, clientVars, msg, found, pushVars, failed>>

LoopEnds ==
    /\ Goto(Receiver, "loop", "unbind")
    /\ client = "left"
    /\ (isOnline' = FALSE /\ UNCHANGED failed) \/ (Fail /\ UNCHANGED isOnline)
    /\ UNCHANGED <<messages, session, clientVars, msg, found, pushVars>>

Unbind ==
    /\ Goto(Receiver, "unbind", "none")
    /\ session' = 0
    /\ client' = "away"
    /\ UNCHANGED <<messages, isOnline, login, inbox, msg, found, pushVars, failed>>

Leave ==
    /\ ClientLeaves
    /\ client = "connected"
    /\ client' = "left"
    /\ UNCHANGED <<tableVars, login, inbox, at, msg, found, pushVars, failed>>

-----------------------------------------------------------------------------
HandleSendMessage(s) == StoreMessage(s) \/ CheckOnline(s) \/ FindReceiver(s) \/ ForwardMessage(s)

PushOfflineMessages == GetUnreadMessages \/ PushNext \/ ForwardMessage(Receiver) \/ PushEnds

Serve == SetOnline \/ Bind \/ PushOfflineMessages \/ LoopEnds \/ Unbind

Next ==
    \/ \E s \in Senders : HandleSendMessage(s)
    \/ Connect \/ Serve \/ Leave

Spec == Init /\ [][Next]_vars

\* Handlers run to the end of what they have begun; nobody has to send or connect.
FairSpec ==
    /\ Spec
    /\ \A s \in Senders : WF_vars(CheckOnline(s) \/ FindReceiver(s) \/ ForwardMessage(s))
    /\ WF_vars(Serve)

-----------------------------------------------------------------------------
(* Properties *)

Places == {"idle", "check", "find", "forward", "send", "mark", "none", "setOnline", "bind",
           "query", "push", "loop", "unbind"}

\* Every variable has its type.
TypeOK ==
    /\ messages \in Seq([from : Senders, read : BOOLEAN])
    /\ isOnline \in BOOLEAN
    /\ session \in 0..MaxLogins /\ login \in 0..MaxLogins
    /\ client \in {"away", "connected", "left"}
    /\ inbox \subseteq Ids
    /\ at \in [Threads -> Places]
    /\ msg \in [Threads -> 0..MaxMessages]
    /\ found \in [Threads -> 0..MaxLogins]
    /\ unread \subseteq Ids /\ todo \subseteq unread
    /\ failed \in BOOLEAN

InHand(m) == \E s \in Senders : at[s] # "idle" /\ msg[s] = m

\* No message falls between the sender, who stores and then looks whether the receiver
\* is online, and the receiver's login, which makes him online and then looks what is
\* unread: once the push is over every unread message is in the hands of its sender
\* (message_manager.cpp:66-75 against user_manager.cpp:127-132 and
\* message_manager.cpp:161), unless a statement failed or the client has left.
NothingLeftBehind ==
    at[Receiver] = "loop" /\ client = "connected" /\ ~failed => \A m \in Unread : InHand(m)

\* A push that is over has brought every message it found unread to the client, however
\* senders forward and mark messages meanwhile (message_manager.cpp:174-178).
PushDeliversUnread ==
    at[Receiver] = "loop" /\ client = "connected" => unread \subseteq inbox

\* A message to a receiver who stays connected is eventually marked as read, unless a
\* statement failed (message_manager.cpp:74-78 and 174-178).
UnreadIsForwarded ==
    \A m \in 1..MaxMessages : m \in Ids ~> m \notin Unread \/ client # "connected" \/ failed

\* "离线消息推送（用户上线后自动推送未读消息）" (unread messages are pushed once the
\* user is online, README.md:26): a message is not marked as read before it has
\* reached a client.
ReadMeansReceived == \A m \in Ids : messages[m].read => m \in inbox

=============================================================================
