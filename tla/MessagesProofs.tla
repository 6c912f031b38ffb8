--------------------------- MODULE MessagesProofs ---------------------------
(***************************************************************************)
(* For any number of senders, messages and logins, with a client that may  *)
(* leave and statements that may fail: no message falls between its sender *)
(* and the receiver's login, and a push brings all it found unread.        *)
(***************************************************************************)
EXTENDS Messages, SequenceTheorems, TLAPS

-----------------------------------------------------------------------------
(* The inductive invariant *)

SenderPlaces == {"idle", "check", "find", "forward", "send", "mark"}

Forwarding == {"forward", "send", "mark"}

\* From the answer to the query for unread messages to the end of the connection.
Pushed == {"push", "loop"} \cup Forwarding

\* Where each handler can be; a push that is over has nothing left to forward, and the
\* table stays within its bound.
Located ==
    /\ \A s \in Senders : at[s] \in SenderPlaces
    /\ at[Receiver] \in Pushed \cup {"none", "setOnline", "bind", "query", "unbind"}
    /\ at[Receiver] = "loop" => todo = {}
    /\ Len(messages) <= MaxMessages

\* Who has a message in his hands has one of the table.
HandsHoldMessages ==
    /\ \A s \in Senders : at[s] # "idle" => msg[s] \in Ids
    /\ at[Receiver] \in Forwarding => msg[Receiver] \in Ids

\* The receiver's name finds the session of his current login from Bind to Unbind, and
\* he is online from SetOnline to the end of the loop.
LoggedIn ==
    /\ at[Receiver] = "none" <=> client = "away"
    /\ at[Receiver] # "none" => login > 0
    /\ session = IF at[Receiver] \in {"none", "setOnline", "bind"} THEN 0 ELSE login
    /\ at[Receiver] \in Pushed \cup {"bind", "query"} => isOnline \/ failed
    /\ at[Receiver] = "send" => found[Receiver] = login

\* What the push found unread is still to be forwarded, in its hands or with the client.
PushGoesOn ==
    at[Receiver] \in Pushed /\ client = "connected" =>
        \A m \in unread :
            \/ m \in inbox \cup todo
            \/ at[Receiver] \in {"forward", "send"} /\ m = msg[Receiver]

\* Sender s will mark message m: he has not sent it yet, or is sending it to the
\* connection that is there now.
WillMark(s, m) ==
    /\ at[s] # "idle" /\ msg[s] = m
    /\ at[s] = "send" => found[s] = login

\* Whatever is unread after the query will be marked by the push or by its sender.
NobodyForgets ==
    at[Receiver] \in Pushed /\ client = "connected" /\ ~failed =>
        \A m \in Unread :
            \/ m \in todo
            \/ at[Receiver] \in Forwarding /\ m = msg[Receiver]
            \/ \E s \in Senders : WillMark(s, m)

IInv ==
    /\ TypeOK /\ Located /\ HandsHoldMessages /\ LoggedIn
    /\ PushGoesOn /\ NobodyForgets

-----------------------------------------------------------------------------
(* Lemmas about what the steps are made of *)

(* The receiver's handler is a thread of its own. *)
LEMMA ThreadsApart ==
    /\ Receiver \in Threads
    /\ \A s \in Senders : s \in Threads /\ s # Receiver
BY MessagesAssumption DEF Threads

(* A handler that moves leaves the others where they are. *)
LEMMA Moves ==
    ASSUME TypeOK, NEW t \in Threads, NEW from, NEW to \in Places, Goto(t, from, to)
    PROVE  /\ at[t] = from /\ at'[t] = to
           /\ \A x \in Threads : x # t => at'[x] = at[x]
           /\ at' \in [Threads -> Places]
BY DEF TypeOK, Goto

(* A new row of the table leaves the others as they are. *)
LEMMA RowAppended ==
    ASSUME TypeOK, NEW s \in Senders, Len(messages) < MaxMessages,
           messages' = Append(messages, [from |-> s, read |-> FALSE])
    PROVE  /\ messages' \in Seq([from : Senders, read : BOOLEAN])
           /\ Len(messages') = Len(messages) + 1 /\ Len(messages') <= MaxMessages
           /\ Ids' = Ids \cup {Len(messages) + 1}
           /\ Unread' = Unread \cup {Len(messages) + 1}
<1> DEFINE row == [from |-> s, read |-> FALSE]
<1>1. row \in [from : Senders, read : BOOLEAN]
  OBVIOUS
<1>2. /\ messages' \in Seq([from : Senders, read : BOOLEAN])
      /\ Len(messages') = Len(messages) + 1
      /\ \A m \in 1..Len(messages) : messages'[m] = messages[m]
      /\ messages'[Len(messages) + 1] = row
  BY <1>1, AppendProperties DEF TypeOK
<1>3. Len(messages) \in Nat /\ MaxMessages \in Nat
  BY MessagesAssumption, LenProperties DEF TypeOK
<1>4. Ids' = Ids \cup {Len(messages) + 1}
  BY <1>2, <1>3 DEF Ids
<1>5. Unread' = Unread \cup {Len(messages) + 1}
  <2>1. ~row.read
    OBVIOUS
  <2>2. \A m \in Ids : messages'[m].read <=> messages[m].read
    BY <1>2 DEF Ids
  <2> QED
    BY <1>2, <1>4, <2>1, <2>2 DEF Unread
<1> QED
  BY <1>2, <1>3, <1>4, <1>5

(* Marking reads the message in hand, perhaps others, and unreads none. *)
LEMMA RowsMarked ==
    ASSUME TypeOK, NEW i \in Ids,
           messages' = [m \in Ids |->
                [messages[m] EXCEPT !.read = @ \/ messages[m].from = messages[i].from]]
    PROVE  /\ messages' \in Seq([from : Senders, read : BOOLEAN])
           /\ Len(messages') = Len(messages)
           /\ Ids' = Ids
           /\ Unread' \subseteq Unread \ {i}
<1>1. Len(messages) \in Nat /\ \A m \in Ids : messages[m] \in [from : Senders, read : BOOLEAN]
  BY LenProperties, ElementOfSeq DEF TypeOK, Ids
<1>2. \A m \in Ids : [messages[m] EXCEPT !.read = @ \/ messages[m].from = messages[i].from]
                        \in [from : Senders, read : BOOLEAN]
  BY <1>1
<1>3. messages' \in [1..Len(messages) -> [from : Senders, read : BOOLEAN]]
  BY <1>2 DEF Ids
<1>4. /\ messages' \in Seq([from : Senders, read : BOOLEAN])
      /\ Len(messages') = Len(messages)
  BY <1>1, <1>3, LenProperties
<1>5. Ids' = Ids
  BY <1>4 DEF Ids
<1>6. ASSUME NEW m \in Unread' PROVE m \in Unread /\ m # i
  <2>1. m \in Ids /\ ~messages'[m].read
    BY <1>5 DEF Unread
  <2>2. messages'[m].read = (messages[m].read \/ messages[m].from = messages[i].from)
    BY <1>1, <2>1
  <2> QED
    BY <2>1, <2>2 DEF Unread
<1> QED
  BY <1>4, <1>5, <1>6

-----------------------------------------------------------------------------
(* The steps of a sender *)

(* A message that has just been stored is in the hands of its sender. *)
LEMMA StoreKeeps ==
    ASSUME IInv, NEW s \in Senders, StoreMessage(s)
    PROVE  IInv'
<1> USE DEF IInv
<1> PICK new \in Nat : new = Len(messages) + 1
  BY LenProperties DEF TypeOK
<1>1. /\ s \in Threads /\ s # Receiver /\ Receiver \in Threads
      /\ at[s] = "idle" /\ at'[s] = "check"
      /\ \A x \in Threads : x # s => at'[x] = at[x]
      /\ at' \in [Threads -> Places]
  BY ThreadsApart, Moves DEF StoreMessage, StoreAs, Places
<1>2. /\ messages' \in Seq([from : Senders, read : BOOLEAN])
      /\ Len(messages') = new /\ Len(messages') <= MaxMessages
      /\ Ids' = Ids \cup {new} /\ Unread' = Unread \cup {new}
  BY RowAppended DEF StoreMessage, StoreAs
<1>3. new \in 0..MaxMessages
  BY <1>2, LenProperties, MessagesAssumption DEF TypeOK
<1>4. /\ msg' = [msg EXCEPT ![s] = new]
      /\ UNCHANGED <<isOnline, session, login, client, inbox, found, unread, todo, failed>>
  BY DEF StoreMessage, StoreAs, clientVars, pushVars
<1>5. msg' \in [Threads -> 0..MaxMessages] /\ msg'[s] = new
      /\ \A x \in Threads : x # s => msg'[x] = msg[x]
  BY <1>1, <1>3, <1>4 DEF TypeOK
<1>6. TypeOK'
  BY <1>1, <1>2, <1>4, <1>5 DEF TypeOK
<1>7. Located'
  BY <1>1, <1>2, <1>4, ThreadsApart DEF Located, SenderPlaces
<1>8. HandsHoldMessages'
  BY <1>1, <1>2, <1>5, ThreadsApart DEF HandsHoldMessages, Forwarding
<1>9. LoggedIn'
  BY <1>1, <1>4 DEF LoggedIn
<1>10. PushGoesOn'
  BY <1>1, <1>4, <1>5 DEF PushGoesOn
<1>11. NobodyForgets'
  <2>1. WillMark(s, new)'
    BY <1>1, <1>5 DEF WillMark
  <2>2. \A x \in Senders, m \in Unread : WillMark(x, m) => WillMark(x, m)'
    BY <1>1, <1>4, <1>5, ThreadsApart DEF WillMark
  <2> QED
    BY <1>1, <1>2, <1>4, <1>5, <2>1, <2>2 DEF NobodyForgets
<1> QED
  BY <1>6, <1>7, <1>8, <1>9, <1>10, <1>11

(* A sender puts a message aside only when the receiver has not come to the query. *)
LEMMA LookKeeps ==
    ASSUME IInv, NEW s \in Senders, CheckOnline(s) \/ FindReceiver(s)
    PROVE  IInv'
<1> USE DEF IInv
<1>1. /\ s \in Threads /\ s # Receiver /\ Receiver \in Threads
      /\ at[s] \in {"check", "find"} /\ at'[s] \in {"idle", "find", "forward"}
      /\ \A x \in Threads : x # s => at'[x] = at[x]
      /\ at' \in [Threads -> Places]
  BY ThreadsApart, Moves DEF CheckOnline, FindReceiver, Places
<1>2. /\ UNCHANGED <<messages, isOnline, session, login, client, inbox, msg, found, unread, todo>>
      /\ failed' \in BOOLEAN /\ (failed => failed')
  BY DEF CheckOnline, FindReceiver, Fail, tableVars, clientVars, pushVars, TypeOK
<1>3. Ids' = Ids /\ Unread' = Unread
  BY <1>2 DEF Ids, Unread
<1>4. at'[s] = "idle" => failed' \/ ~isOnline \/ session = 0
  BY <1>1, Moves DEF CheckOnline, FindReceiver, Fail, Places
<1>5. TypeOK'
  BY <1>1, <1>2, <1>3 DEF TypeOK
<1>6. Located' /\ HandsHoldMessages'
  BY <1>1, <1>2, <1>3, ThreadsApart DEF Located, HandsHoldMessages, SenderPlaces
<1>7. LoggedIn'
  BY <1>1, <1>2 DEF LoggedIn
<1>8. PushGoesOn'
  BY <1>1, <1>2 DEF PushGoesOn
<1>9. NobodyForgets'
  <2> SUFFICES ASSUME at[Receiver] \in Pushed, client = "connected", ~failed'
               PROVE  \A m \in Unread :
                        \/ m \in todo
                        \/ at[Receiver] \in Forwarding /\ m = msg[Receiver]
                        \/ \E x \in Senders : WillMark(x, m)'
    BY <1>1, <1>2, <1>3 DEF NobodyForgets
  <2>1. at'[s] # "idle"
    BY <1>2, <1>4 DEF LoggedIn, Pushed, Forwarding, TypeOK
  <2>2. \A x \in Senders, m \in Unread : WillMark(x, m) => WillMark(x, m)'
    BY <1>1, <1>2, <2>1, ThreadsApart DEF WillMark
  <2> QED
    BY <1>2, <2>2 DEF NobodyForgets
<1> QED
  BY <1>5, <1>6, <1>7, <1>8, <1>9

-----------------------------------------------------------------------------
(* The steps of ForwardMessage, on behalf of a sender or of the push *)

(* The session that is found is the one of the connection that is there now. *)
LEMMA FindAgainKeeps ==
    ASSUME IInv, NEW t \in Threads, FindAgain(t)
    PROVE  IInv'
<1> USE DEF IInv
<1>1. /\ at[t] = "forward" /\ at'[t] \in {"send", Resume(t)}
      /\ at'[t] = Resume(t) => session = 0
      /\ \A x \in Threads : x # t => at'[x] = at[x]
      /\ at' \in [Threads -> Places]
  BY Moves DEF FindAgain, Places, Resume
<1>2. /\ UNCHANGED <<messages, isOnline, session, login, client, inbox, msg, unread, todo, failed>>
      /\ found' = [found EXCEPT ![t] = session]
  BY DEF FindAgain, tableVars, clientVars, pushVars
<1>3. Ids' = Ids /\ Unread' = Unread
  BY <1>2 DEF Ids, Unread
<1>4. /\ found' \in [Threads -> 0..MaxLogins] /\ found'[t] = session
      /\ \A x \in Threads : x # t => found'[x] = found[x]
  BY <1>2 DEF TypeOK
<1>5. at[Receiver] \in Pushed => at'[Receiver] \in Pushed /\ session = login /\ session # 0
  BY <1>1, ThreadsApart DEF LoggedIn, Pushed, Forwarding, Resume, TypeOK
<1>6. TypeOK'
  BY <1>1, <1>2, <1>3, <1>4 DEF TypeOK
<1>7. Located' /\ HandsHoldMessages'
  BY <1>1, <1>2, <1>3, ThreadsApart
  DEF Located, HandsHoldMessages, SenderPlaces, Pushed, Forwarding, Resume
<1>8. LoggedIn'
  <2>1. CASE t = Receiver
    BY <1>1, <1>2, <1>4, <1>5, <2>1, ThreadsApart DEF LoggedIn, Pushed, Forwarding, Resume
  <2>2. CASE t # Receiver
    BY <1>1, <1>2, <1>4, <2>2, ThreadsApart DEF LoggedIn
  <2> QED BY <2>1, <2>2
<1>9. at[Receiver] \in Pushed => at'[t] = "send"
  BY <1>1, <1>5
<1>10. at'[Receiver] \in Pushed => at[Receiver] \in Pushed
  BY <1>1, ThreadsApart DEF Pushed, Forwarding
<1>11. PushGoesOn'
  BY <1>1, <1>2, <1>9, <1>10, ThreadsApart DEF PushGoesOn
<1>12. NobodyForgets'
  <2> SUFFICES ASSUME at[Receiver] \in Pushed, client = "connected", ~failed
               PROVE  \A m \in Unread :
                        \/ m \in todo
                        \/ at'[Receiver] \in Forwarding /\ m = msg[Receiver]
                        \/ \E x \in Senders : WillMark(x, m)'
    BY <1>2, <1>3, <1>10 DEF NobodyForgets
  <2>1. at[Receiver] \in Forwarding => at'[Receiver] \in Forwarding
    BY <1>1, <1>9, ThreadsApart DEF Forwarding
  <2>2. \A x \in Senders, m \in Unread : WillMark(x, m) => WillMark(x, m)'
    BY <1>1, <1>2, <1>4, <1>5, <1>9, ThreadsApart DEF WillMark
  <2> QED
    BY <1>2, <2>1, <2>2 DEF NobodyForgets
<1> QED
  BY <1>6, <1>7, <1>8, <1>11, <1>12

(* A message that is not marked after the send was sent to a connection of the past, or
   its receiver has left. *)
LEMMA SendKeeps ==
    ASSUME IInv, NEW t \in Threads, SendForward(t)
    PROVE  IInv'
<1> USE DEF IInv
<1>1. /\ at[t] = "send" /\ at'[t] \in {"mark", Resume(t)}
      /\ at'[t] = Resume(t) => found[t] # login \/ client # "connected"
      /\ \A x \in Threads : x # t => at'[x] = at[x]
      /\ at' \in [Threads -> Places]
  BY Moves DEF SendForward, Places, Resume
<1>2. UNCHANGED <<messages, isOnline, session, login, client, msg, found, unread, todo, failed>>
  BY DEF SendForward, tableVars, pushVars
<1>3. Ids' = Ids /\ Unread' = Unread
  BY <1>2 DEF Ids, Unread
<1>4. msg[t] \in Ids
  BY <1>1 DEF HandsHoldMessages, Forwarding, Threads
<1>5. /\ inbox \subseteq inbox' /\ inbox' \subseteq Ids
      /\ at'[t] = "mark" /\ found[t] = login /\ client = "connected" => msg[t] \in inbox'
  BY <1>1, <1>4, Moves DEF SendForward, TypeOK, Places, Resume
<1>6. at'[Receiver] \in Pushed <=> at[Receiver] \in Pushed
  BY <1>1, ThreadsApart DEF Pushed, Forwarding, Resume
<1>7. TypeOK'
  BY <1>1, <1>2, <1>3, <1>5 DEF TypeOK
<1>8. Located' /\ HandsHoldMessages'
  BY <1>1, <1>2, <1>3, ThreadsApart
  DEF Located, HandsHoldMessages, SenderPlaces, Pushed, Forwarding, Resume
<1>9. LoggedIn'
  BY <1>1, <1>2, ThreadsApart DEF LoggedIn, Pushed, Forwarding, Resume
<1>10. t = Receiver /\ client = "connected" => at'[t] = "mark" /\ found[t] = login
  BY <1>1 DEF LoggedIn
<1>11. PushGoesOn'
  BY <1>1, <1>2, <1>5, <1>6, <1>10, ThreadsApart DEF PushGoesOn
<1>12. NobodyForgets'
  <2> SUFFICES ASSUME at[Receiver] \in Pushed, client = "connected", ~failed
               PROVE  \A m \in Unread :
                        \/ m \in todo
                        \/ at'[Receiver] \in Forwarding /\ m = msg[Receiver]
                        \/ \E x \in Senders : WillMark(x, m)'
    BY <1>2, <1>3, <1>6 DEF NobodyForgets
  <2>1. at[Receiver] \in Forwarding => at'[Receiver] \in Forwarding
    BY <1>1, <1>10, ThreadsApart DEF Forwarding
  <2>2. \A x \in Senders, m \in Unread : WillMark(x, m) => WillMark(x, m)'
    BY <1>1, <1>2, ThreadsApart DEF WillMark
  <2> QED
    BY <1>2, <2>1, <2>2 DEF NobodyForgets
<1> QED
  BY <1>7, <1>8, <1>9, <1>11, <1>12

(* Marking takes messages off the table's unread ones, the one in hand among them. *)
LEMMA MarkKeeps ==
    ASSUME IInv, NEW t \in Threads, MarkMessagesAsRead(t)
    PROVE  IInv'
<1> USE DEF IInv
<1>1. /\ at[t] = "mark" /\ at'[t] = Resume(t)
      /\ \A x \in Threads : x # t => at'[x] = at[x]
      /\ at' \in [Threads -> Places]
  BY Moves DEF MarkMessagesAsRead, Places, Resume
<1>2. UNCHANGED <<isOnline, session, login, client, inbox, msg, found, unread, todo>>
  BY DEF MarkMessagesAsRead, clientVars, pushVars
<1>3. msg[t] \in Ids
  BY <1>1 DEF HandsHoldMessages, Forwarding, Threads
<1>4. /\ messages' \in Seq([from : Senders, read : BOOLEAN])
      /\ Len(messages') = Len(messages) /\ Ids' = Ids
      /\ Unread' \subseteq Unread
      /\ failed' \in BOOLEAN /\ (failed => failed')
      /\ ~failed' => Unread' \subseteq Unread \ {msg[t]}
  <2>1. CASE /\ messages' = [m \in Ids |->
                    [messages[m] EXCEPT !.read = @ \/ messages[m].from = messages[msg[t]].from]]
             /\ UNCHANGED failed
    BY <1>3, <2>1, RowsMarked DEF TypeOK
  <2>2. CASE Fail /\ UNCHANGED messages
    BY <2>2 DEF Fail, TypeOK, Ids, Unread
  <2> QED
    BY <2>1, <2>2 DEF MarkMessagesAsRead
<1>5. at'[Receiver] \in Pushed <=> at[Receiver] \in Pushed
  BY <1>1, ThreadsApart DEF Pushed, Forwarding, Resume
<1>6. TypeOK'
  BY <1>1, <1>2, <1>4 DEF TypeOK
<1>7. Located' /\ HandsHoldMessages'
  BY <1>1, <1>2, <1>4, ThreadsApart
  DEF Located, HandsHoldMessages, SenderPlaces, Pushed, Forwarding, Resume
<1>8. LoggedIn'
  BY <1>1, <1>2, <1>4, ThreadsApart DEF LoggedIn, Pushed, Forwarding, Resume
<1>9. PushGoesOn'
  BY <1>1, <1>2, <1>5, ThreadsApart DEF PushGoesOn
<1>10. NobodyForgets'
  <2> SUFFICES ASSUME at[Receiver] \in Pushed, client = "connected", ~failed', NEW m \in Unread'
               PROVE  \/ m \in todo
                      \/ at'[Receiver] \in Forwarding /\ m = msg[Receiver]
                      \/ \E x \in Senders : WillMark(x, m)'
    BY <1>2, <1>5 DEF NobodyForgets
  <2>1. m \in Unread /\ m # msg[t]
    BY <1>4
  <2>2. ASSUME NEW x \in Senders, WillMark(x, m) PROVE WillMark(x, m)'
    BY <1>1, <1>2, <2>1, <2>2, ThreadsApart DEF WillMark
  <2>3. CASE at[Receiver] \in Forwarding /\ m = msg[Receiver]
    BY <1>1, <2>1, <2>3, ThreadsApart
  <2> QED
    BY <1>4, <2>1, <2>2, <2>3 DEF NobodyForgets
<1> QED
  BY <1>6, <1>7, <1>8, <1>9, <1>10

-----------------------------------------------------------------------------
(* The steps of the receiver's connection *)

(* A login, up to the session's name, and its end happen outside of the push. *)
LEMMA LoginKeeps ==
    ASSUME IInv, Connect \/ SetOnline \/ Bind \/ LoopEnds \/ Unbind \/ Leave
    PROVE  IInv'
<1> USE DEF IInv
<1>1. /\ UNCHANGED <<messages, inbox, msg, found, unread, todo>>
      /\ failed' \in BOOLEAN /\ (failed => failed')
  BY DEF Connect, SetOnline, Bind, LoopEnds, Unbind, Leave, Fail, tableVars, clientVars,
         pushVars, TypeOK
<1>2. Ids' = Ids /\ Unread' = Unread
  BY <1>1 DEF Ids, Unread
<1>3. CASE Connect \/ SetOnline \/ Bind \/ LoopEnds \/ Unbind
  <2>1. /\ \A s \in Senders : at'[s] = at[s]
        /\ at' \in [Threads -> Places]
    BY <1>3, ThreadsApart, Moves DEF Connect, SetOnline, Bind, LoopEnds, Unbind, Places
  <2>2. <<at[Receiver], at'[Receiver]>> \in
            {<<"none", "setOnline">>, <<"setOnline", "bind">>, <<"bind", "query">>,
             <<"loop", "unbind">>, <<"unbind", "none">>}
    BY <1>3, ThreadsApart, Moves DEF Connect, SetOnline, Bind, LoopEnds, Unbind, Places
  <2>3. at'[Receiver] \notin Pushed
    BY <2>2 DEF Pushed, Forwarding
  <2>4. TypeOK'
    <3>1. isOnline' \in BOOLEAN
      BY <1>3 DEF TypeOK, Connect, SetOnline, Bind, LoopEnds, Unbind, tableVars
    <3>2. login' \in 0..MaxLogins /\ session' \in 0..MaxLogins
      BY <1>3, MessagesAssumption
      DEF TypeOK, Connect, SetOnline, Bind, LoopEnds, Unbind, tableVars, clientVars
    <3>3. client' \in {"away", "connected", "left"}
      BY <1>3 DEF TypeOK, Connect, SetOnline, Bind, LoopEnds, Unbind, clientVars
    <3> QED
      BY <1>1, <1>2, <2>1, <3>1, <3>2, <3>3 DEF TypeOK
  <2>5. Located' /\ HandsHoldMessages'
    BY <1>1, <1>2, <2>1, <2>2 DEF Located, HandsHoldMessages, Pushed, Forwarding
  <2>6. LoggedIn'
    <3>1. CASE Connect
      <4>1. at[Receiver] = "none" /\ at'[Receiver] = "setOnline"
        BY <3>1, ThreadsApart, Moves DEF Connect, Places
      <4> QED
        BY <1>1, <3>1, <4>1 DEF LoggedIn, Connect, tableVars, Pushed, Forwarding, TypeOK
    <3>2. CASE SetOnline
      <4>1. at[Receiver] = "setOnline" /\ at'[Receiver] = "bind"
        BY <3>2, ThreadsApart, Moves DEF SetOnline, Places
      <4> QED
        BY <1>1, <3>2, <4>1 DEF LoggedIn, SetOnline, Fail, clientVars
    <3>3. CASE Bind
      <4>1. at[Receiver] = "bind" /\ at'[Receiver] = "query"
        BY <3>3, ThreadsApart, Moves DEF Bind, Places
      <4> QED
        BY <1>1, <3>3, <4>1 DEF LoggedIn, Bind, clientVars
    <3>4. CASE LoopEnds
      <4>1. at[Receiver] = "loop" /\ at'[Receiver] = "unbind"
        BY <3>4, ThreadsApart, Moves DEF LoopEnds, Places
      <4> QED
        BY <1>1, <3>4, <4>1 DEF LoggedIn, LoopEnds, clientVars, Pushed, Forwarding
    <3>5. CASE Unbind
      <4>1. at[Receiver] = "unbind" /\ at'[Receiver] = "none"
        BY <3>5, ThreadsApart, Moves DEF Unbind, Places
      <4> QED
        BY <1>1, <3>5, <4>1 DEF LoggedIn, Unbind, Pushed, Forwarding
    <3> QED
      BY <1>3, <3>1, <3>2, <3>3, <3>4, <3>5
  <2>7. PushGoesOn' /\ NobodyForgets'
    BY <2>3 DEF PushGoesOn, NobodyForgets
  <2> QED
    BY <2>4, <2>5, <2>6, <2>7
<1>4. CASE Leave
  <2>1. /\ UNCHANGED <<isOnline, session, login, at>>
        /\ client = "connected" /\ client' = "left"
    BY <1>4 DEF Leave, tableVars
  <2>2. TypeOK' /\ Located' /\ HandsHoldMessages'
    BY <1>1, <1>2, <2>1 DEF TypeOK, Located, HandsHoldMessages
  <2>3. LoggedIn' /\ PushGoesOn' /\ NobodyForgets'
    BY <1>1, <2>1 DEF LoggedIn, PushGoesOn, NobodyForgets
  <2> QED
    BY <2>2, <2>3
<1> QED
  BY <1>3, <1>4

(* The query finds everything that is unread. *)
LEMMA QueryKeeps ==
    ASSUME IInv, GetUnreadMessages
    PROVE  IInv'
<1> USE DEF IInv
<1>1. /\ \A s \in Senders : at'[s] = at[s]
      /\ at' \in [Threads -> Places]
      /\ at[Receiver] = "query" /\ at'[Receiver] = "push"
  BY ThreadsApart, Moves DEF GetUnreadMessages, Places
<1>2. /\ UNCHANGED <<messages, isOnline, session, login, client, inbox, msg, found>>
      /\ failed' \in BOOLEAN /\ (failed => failed')
      /\ todo' = unread' /\ unread' \subseteq Unread
      /\ ~failed' => todo' = Unread
  <2>1. CASE unread' = Unread /\ UNCHANGED failed
    BY <2>1 DEF GetUnreadMessages, tableVars, clientVars, TypeOK
  <2>2. CASE Fail /\ unread' = {}
    BY <2>2 DEF GetUnreadMessages, Fail, tableVars, clientVars
  <2> QED
    BY <2>1, <2>2 DEF GetUnreadMessages
<1>3. Ids' = Ids /\ Unread' = Unread /\ Unread \subseteq Ids
  BY <1>2 DEF Ids, Unread
<1>4. TypeOK' /\ Located' /\ HandsHoldMessages'
  BY <1>1, <1>2, <1>3 DEF TypeOK, Located, HandsHoldMessages, Pushed, Forwarding
<1>5. LoggedIn'
  BY <1>1, <1>2 DEF LoggedIn
<1>6. PushGoesOn' /\ NobodyForgets'
  BY <1>1, <1>2, <1>3 DEF PushGoesOn, NobodyForgets
<1> QED
  BY <1>4, <1>5, <1>6

(* The push takes one message after the other, until none is left. *)
LEMMA PushKeeps ==
    ASSUME IInv, PushNext \/ PushEnds
    PROVE  IInv'
<1> USE DEF IInv
<1>1. /\ \A s \in Senders : s \in Threads /\ s # Receiver /\ at'[s] = at[s]
      /\ at' \in [Threads -> Places]
      /\ at[Receiver] = "push" /\ at'[Receiver] \in {"forward", "loop"}
  BY ThreadsApart, Moves DEF PushNext, PushEnds, Places
<1>2. UNCHANGED <<messages, isOnline, session, login, client, inbox, found, unread, failed>>
  BY DEF PushNext, PushEnds, tableVars, clientVars, pushVars
<1>3. Ids' = Ids /\ Unread' = Unread
  BY <1>2 DEF Ids, Unread
<1>4. CASE PushNext
  <2> PICK m \in todo : todo' = todo \ {m} /\ msg' = [msg EXCEPT ![Receiver] = m]
    BY <1>4 DEF PushNext
  <2>1. m \in Ids /\ m \in 0..MaxMessages
    BY LenProperties, MessagesAssumption DEF TypeOK, Located, Ids
  <2>2. /\ msg' \in [Threads -> 0..MaxMessages] /\ msg'[Receiver] = m
        /\ \A s \in Senders : msg'[s] = msg[s]
    BY <1>1, <2>1, ThreadsApart DEF TypeOK
  <2>3. at'[Receiver] = "forward"
    BY <1>4, ThreadsApart, Moves DEF PushNext, Places
  <2>4. TypeOK' /\ Located' /\ HandsHoldMessages'
    BY <1>1, <1>2, <1>3, <2>1, <2>2, <2>3
    DEF TypeOK, Located, HandsHoldMessages, Pushed, Forwarding
  <2>5. LoggedIn'
    BY <1>1, <1>2, <2>3 DEF LoggedIn, Pushed, Forwarding
  <2>6. PushGoesOn'
    BY <1>1, <1>2, <2>2, <2>3 DEF PushGoesOn, Pushed
  <2>7. NobodyForgets'
    <3>1. \A s \in Senders, k \in Unread : WillMark(s, k) => WillMark(s, k)'
      BY <1>1, <1>2, <2>2 DEF WillMark
    <3> QED
      BY <1>1, <1>2, <1>3, <2>2, <2>3, <3>1 DEF NobodyForgets, Pushed, Forwarding
  <2> QED
    BY <2>4, <2>5, <2>6, <2>7
<1>5. CASE PushEnds
  <2>1. UNCHANGED <<msg, todo>> /\ todo = {}
    BY <1>5 DEF PushEnds, pushVars
  <2>2. at'[Receiver] = "loop"
    BY <1>5, ThreadsApart, Moves DEF PushEnds, Places
  <2>3. TypeOK' /\ Located' /\ HandsHoldMessages'
    BY <1>1, <1>2, <1>3, <2>1, <2>2
    DEF TypeOK, Located, HandsHoldMessages, Pushed, Forwarding
  <2>4. LoggedIn'
    BY <1>1, <1>2, <2>2 DEF LoggedIn, Pushed, Forwarding
  <2>5. PushGoesOn'
    BY <1>1, <1>2, <2>1, <2>2 DEF PushGoesOn, Pushed
  <2>6. NobodyForgets'
    <3>1. \A s \in Senders, k \in Unread : WillMark(s, k) => WillMark(s, k)'
      BY <1>1, <1>2, <2>1 DEF WillMark
    <3> QED
      BY <1>1, <1>2, <1>3, <2>1, <2>2, <3>1 DEF NobodyForgets, Pushed, Forwarding
  <2> QED
    BY <2>3, <2>4, <2>5, <2>6
<1> QED
  BY <1>4, <1>5

-----------------------------------------------------------------------------
(* The theorems *)

(* The initial state satisfies the inductive invariant. *)
LEMMA InitIInv == Init => IInv
<1> SUFFICES ASSUME Init PROVE IInv
  OBVIOUS
<1>1. Len(messages) = 0 /\ Ids = {} /\ Unread = {}
  BY EmptySeq DEF Init, Ids, Unread
<1>2. at[Receiver] = "none" /\ \A s \in Senders : at[s] = "idle"
  BY ThreadsApart DEF Init
<1>3. TypeOK
  <2>1. messages \in Seq([from : Senders, read : BOOLEAN])
    BY DEF Init
  <2>2. at \in [Threads -> Places]
    BY DEF Init, Places
  <2>3. /\ session \in 0..MaxLogins /\ login \in 0..MaxLogins
        /\ msg \in [Threads -> 0..MaxMessages] /\ found \in [Threads -> 0..MaxLogins]
    BY MessagesAssumption DEF Init
  <2>4. inbox \subseteq Ids /\ unread \subseteq Ids /\ todo \subseteq unread
    BY DEF Init
  <2> QED
    BY <2>1, <2>2, <2>3, <2>4 DEF Init, TypeOK
<1>4. Located /\ HandsHoldMessages /\ LoggedIn
  BY <1>1, <1>2, MessagesAssumption
  DEF Init, Located, HandsHoldMessages, LoggedIn, SenderPlaces, Pushed, Forwarding
<1>5. PushGoesOn /\ NobodyForgets
  BY <1>2 DEF PushGoesOn, NobodyForgets, Pushed, Forwarding
<1> QED
  BY <1>3, <1>4, <1>5 DEF IInv

(* Every step keeps it, and so does standing still. *)
LEMMA NextIInv == IInv /\ [Next]_vars => IInv'
<1> SUFFICES ASSUME IInv, [Next]_vars PROVE IInv'
  OBVIOUS
<1>1. ASSUME NEW s \in Senders, HandleSendMessage(s) PROVE IInv'
  BY <1>1, StoreKeeps, LookKeeps, FindAgainKeeps, SendKeeps, MarkKeeps, ThreadsApart
  DEF HandleSendMessage, ForwardMessage
<1>2. CASE Connect \/ Leave
  BY <1>2, LoginKeeps
<1>3. CASE Serve
  BY <1>3, LoginKeeps, QueryKeeps, PushKeeps, FindAgainKeeps, SendKeeps, MarkKeeps, ThreadsApart
  DEF Serve, PushOfflineMessages, ForwardMessage
<1>4. CASE UNCHANGED vars
  <2>1. Ids' = Ids /\ Unread' = Unread
    BY <1>4 DEF vars, tableVars, Ids, Unread
  <2> QED
    BY <1>4, <2>1 DEF vars, tableVars, clientVars, pushVars, IInv, TypeOK, Located, LoggedIn,
         HandsHoldMessages, PushGoesOn, NobodyForgets, WillMark
<1> QED
  BY <1>1, <1>2, <1>3, <1>4 DEF Next

(* The inductive invariant holds in every state. *)
THEOREM Invariance == Spec => []IInv
<1>1. Init => IInv
  BY InitIInv
<1>2. IInv /\ [Next]_vars => IInv'
  BY NextIInv
<1> QED
  BY <1>1, <1>2, PTL DEF Spec

(* Every variable has its type. *)
THEOREM TypeCorrect == Spec => []TypeOK
<1>1. IInv => TypeOK
  BY DEF IInv
<1> QED
  BY <1>1, Invariance, PTL

(* No message falls between the sender's look at is_online and the receiver's query for
   what is unread. *)
THEOREM NoMessageFallsBetween == Spec => []NothingLeftBehind
<1>1. IInv => NothingLeftBehind
  <2> SUFFICES ASSUME IInv, at[Receiver] = "loop", client = "connected", ~failed,
                      NEW m \in Unread
               PROVE  InHand(m)
    BY DEF NothingLeftBehind
  <2>1. \E s \in Senders : WillMark(s, m)
    BY DEF IInv, Located, NobodyForgets, Pushed, Forwarding
  <2> QED
    BY <2>1 DEF InHand, WillMark
<1> QED
  BY <1>1, Invariance, PTL

(* A push that is over has brought all it found unread to the client. *)
THEOREM PushIsComplete == Spec => []PushDeliversUnread
<1>1. IInv => PushDeliversUnread
  BY DEF IInv, Located, PushGoesOn, PushDeliversUnread, Pushed
<1> QED
  BY <1>1, Invariance, PTL

=============================================================================
