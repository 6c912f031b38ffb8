------------------------------ MODULE Accounts ------------------------------
(***************************************************************************)
(* Registration, login and change of accounts (src/src/system/             *)
(* user_manager.cpp, user_dao.cpp) by handlers that serve their            *)
(* connections side by side.                                               *)
(*                                                                         *)
(* A step is one database statement or one change of a session's name,     *)
(* with what the handler computes from it by itself.  Of a login only what *)
(* concerns names is here: is_online, pointers and sockets are in module   *)
(* Server.  A field of a request that is first looked at in the middle of  *)
(* a handler is chosen there.  Sending the answer touches none of this     *)
(* state and belongs to the step before it.                                *)
(***************************************************************************)
EXTENDS Naturals, Sequences

CONSTANTS
    Handlers,   \* the threads that serve connections, one connection each
    Names,      \* well-formed user names
    Key,        \* what the collation of table users compares: spellings of one name agree
    Passwords,  \* well-formed passwords
    MaxUsers,   \* bound on the number of accounts
    DbMayFail   \* whether a database statement may fail

\* An empty name or password, and one that is too short or has a character too many.
NoName == ""
Bad == "?"

ASSUME AccountsAssumption ==
    /\ Key \in [Names -> Names]
    /\ {NoName, Bad} \cap (Names \cup Passwords) = {}
    /\ MaxUsers \in Nat /\ DbMayFail \in BOOLEAN

VARIABLES
    users,      \* the rows of table users in the order of user_id
    session,    \* the user name of each handler's ClientSession
    at,         \* where each handler is
    request,    \* the request it serves
    row,        \* userId, as its query found it
    \* What the properties speak of; the code has no such variables.
    account,    \* the account each connection logged in to
    stale,      \* whether that account was renamed afterwards
    seen,       \* what has been true at some moment since the request came
    failed,     \* whether a statement has failed since then
    unfounded   \* what the last answer should have seen and had not

sessionVars == <<session, account, stale>>
vars == <<users, sessionVars, at, request, row, seen, failed, unfounded>>

NoRequest == [type |-> "none", user |-> NoName, password |-> NoName,
              newName |-> NoName, newPassword |-> NoName]

Init ==
    /\ users = << >>
    /\ session = [h \in Handlers |-> NoName]
    /\ account = [h \in Handlers |-> 0]
    /\ stale = [h \in Handlers |-> FALSE]
    /\ at = [h \in Handlers |-> "idle"]
    /\ request = [h \in Handlers |-> NoRequest]
    /\ row = [h \in Handlers |-> 0]
    /\ seen = [h \in Handlers |-> {}]
    /\ failed = [h \in Handlers |-> FALSE]
    /\ unfounded = {}

-----------------------------------------------------------------------------
(* The table *)

\* Distinct passwords have distinct digests, and no digest is a password.
MD5Encrypt(p) == [md5 |-> p]

ValidateUsername(n) == n \in Names

ValidatePassword(p) == p \in Passwords

\* The user_ids that WHERE username = n selects among the given rows.
SelectFrom(rows, n) == {i \in DOMAIN rows : n \in Names /\ Key[rows[i].name] = Key[n]}

Select(n) == SelectFrom(users, n)

-----------------------------------------------------------------------------
(* What an answer is judged by *)

\* What is true of the rows for request r of a handler that found row i.
Facts(rows, r, i) ==
    LET own == SelectFrom(rows, r.user)
        new == SelectFrom(rows, r.newName)
        hash == MD5Encrypt(r.password)
    IN  {f \in {"free"} : own = {} /\ i = 0}
            \cup {f \in {"taken"} : own # {}}
            \cup {f \in {"right"} : \E j \in own : rows[j].hash = hash}
            \cup {f \in {"wrong"} : i = 0 /\ \E j \in own : rows[j].hash # hash}
            \cup {f \in {"newFree"} : ValidateUsername(r.newName) /\ new = {}}
            \cup {f \in {"newTaken"} : new # {}}
            \cup {f \in {"renamed"} : i # 0 /\ rows[i].name = r.newName}
            \cup {f \in {"rehashed"} : i # 0 /\ rows[i].hash = MD5Encrypt(r.newPassword)}

\* What must have been true at some moment of request r if it is answered c.
Evidence(r, c) ==
    CASE r.type = "REGISTER" /\ c = 0 -> {"free", "right"}
      [] r.type = "REGISTER" /\ c = 2002 -> {"taken"}
      [] r.type = "REGISTER" /\ c = 5001 -> {"free", "taken"}
      [] r.type = "LOGIN" /\ c = 0 -> {"right"}
      [] r.type = "LOGIN" /\ c = 2004 -> {"wrong"}
      [] r.type = "UPDATE_USER" /\ c = 0 ->
            {"right"} \cup {f \in {"newFree", "renamed"} : r.newName # NoName}
                      \cup {f \in {"rehashed"} : r.newPassword # NoName}
      [] r.type = "UPDATE_USER" /\ c = 2006 -> {"wrong"}
      [] r.type = "UPDATE_USER" /\ c = 2002 -> {"right", "newTaken"}
      [] r.type = "UPDATE_USER" /\ c = 5001 -> {"right", "newFree", "newTaken"}
      [] r.type = "QUERY_STATUS" /\ c = 0 -> {"taken"}
      [] c = 2003 -> {"free"}
      [] OTHER -> {}

\* The facts that some answer to a request of each type depends on.
Relevant == [REGISTER |-> {"free", "taken", "right"}, LOGIN |-> {"free", "right", "wrong"},
             UPDATE_USER |-> {"free", "right", "wrong", "newFree", "newTaken", "renamed",
                              "rehashed"},
             QUERY_STATUS |-> {"free", "taken"}]

\* The history of what each request in progress could have seen.
Observe ==
    seen' = [h \in Handlers |->
                IF at'[h] = "idle" \/ failed'[h] THEN {}
                ELSE seen[h] \cup (Facts(users', request'[h], row'[h])
                                        \cap Relevant[request'[h].type])]

-----------------------------------------------------------------------------
(* Building blocks *)

Goto(h, from, to) == at[h] = from /\ at' = [at EXCEPT ![h] = to] /\ UNCHANGED unfounded

\* Handler h has answered, and the next request may come.
Done(h, from) ==
    /\ at[h] = from /\ at' = [at EXCEPT ![h] = "idle"]
    /\ request' = [request EXCEPT ![h] = NoRequest]
    /\ row' = [row EXCEPT ![h] = 0]
    /\ failed' = [failed EXCEPT ![h] = FALSE]

\* Handler h answers c to request r.
Answer(h, from, r, c) ==
    /\ Done(h, from)
    /\ unfounded' = IF failed[h] THEN {}
                    ELSE Evidence(r, c) \ (seen[h] \cup Facts(users', r, row[h]))

\* A statement fails, and handler h answers c; or it goes on as if nothing had happened.
AnswerFailed(h, from, c) == DbMayFail /\ Done(h, from) /\ unfounded' = {}

GotoFailed(h, from, to) ==
    DbMayFail /\ Goto(h, from, to) /\ failed' = [failed EXCEPT ![h] = TRUE]

\* Slip: a request acts for the user it names.
ResolveAsNamed(h, n) == n

\* DispatchRequest: a connection that is logged in acts for its user, whatever name the
\* request gives; another acts for the name that is given, which may be none.
Resolve(h, n) == IF session[h] # NoName THEN session[h] ELSE n

\* Handler h serves request r from now on.
Serve(h, r) == request' = [request EXCEPT ![h] = r] /\ UNCHANGED row

\* Slip: the result of the query is not looked at.
CheckNothing(h, r, n, from, to) == Goto(h, from, to) /\ Serve(h, r) /\ UNCHANGED failed

\* CheckUsernameExists of n and its refusal, for request r: a query that fails finds nobody.
CheckUsernameExists(h, r, n, from, to) ==
    \/ Select(n) # {} /\ Answer(h, from, r, 2002)
    \/ Select(n) = {} /\ Goto(h, from, to) /\ Serve(h, r) /\ UNCHANGED failed
    \/ GotoFailed(h, from, to) /\ Serve(h, r)

-----------------------------------------------------------------------------
(* The beginning of a request *)

RequestOf(type, user, password) ==
    [NoRequest EXCEPT !.type = type, !.user = user, !.password = password]

\* A request of each type with the fields its handler looks at first.  No account has a
\* name or a password that is malformed, so beyond REGISTER these are no case of their own.
Requests(h) ==
    {RequestOf(t, Resolve(h, n), p) :
        t \in {"REGISTER", "LOGIN", "UPDATE_USER"}, n \in Names \cup {NoName}, p \in Passwords}
    \cup {RequestOf("REGISTER", Resolve(h, n), Bad) : n \in Names \cup {NoName}}
    \cup {RequestOf("QUERY_STATUS", Resolve(h, n), NoName) : n \in Names \cup {NoName}}

\* What is refused before the first statement.
Malformed(r) ==
    \/ r.type \in {"REGISTER", "LOGIN"} /\ ~ValidateUsername(r.user)
    \/ r.type = "REGISTER" /\ ~ValidatePassword(r.password)

\* A request arrives.
Begin(h) ==
    /\ at[h] = "idle"
    /\ UNCHANGED <<users, sessionVars>>
    /\ \E r \in Requests(h) :
        \/ Malformed(r) /\ Answer(h, "idle", r, 2001)
        \/ /\ ~Malformed(r) /\ Serve(h, r) /\ UNCHANGED failed
           /\ Goto(h, "idle", IF r.type = "REGISTER" THEN "exists" ELSE "find")

-----------------------------------------------------------------------------
(* HandleRegister *)

RegisterCheck(h) ==
    /\ UNCHANGED <<users, sessionVars>>
    /\ CheckUsernameExists(h, request[h], request[h].user, "exists", "insert")

\* Slip: the password itself is stored.
InsertPlain(h) ==
    /\ at[h] = "insert" /\ UNCHANGED sessionVars /\ Len(users) < MaxUsers
    /\ users' = Append(users, [name |-> request[h].user, hash |-> request[h].password])
    /\ Answer(h, "insert", request[h], 0)

\* The UNIQUE key refuses a name that somebody took since the check.
InsertUser(h) ==
    LET r == request[h] IN
    /\ at[h] = "insert" /\ UNCHANGED sessionVars
    /\ \/ /\ Select(r.user) = {} /\ Len(users) < MaxUsers
          /\ users' = Append(users, [name |-> r.user, hash |-> MD5Encrypt(r.password)])
          /\ Answer(h, "insert", r, 0)
       \/ Select(r.user) # {} /\ UNCHANGED users /\ Answer(h, "insert", r, 5001)
       \/ AnswerFailed(h, "insert", 5001) /\ UNCHANGED users

HandleRegister(h) == RegisterCheck(h) \/ InsertUser(h)

-----------------------------------------------------------------------------
(* HandleLogin, HandleUpdateUser and HandleQueryStatus begin with GetUserByUsername *)

\* What follows the query in the handler, if the password it wants is the right one.
AfterFind == [LOGIN |-> "kick", UPDATE_USER |-> "newName", QUERY_STATUS |-> "status"]

\* The fields that are out of use then are dropped: a login needs the name once more.
Verified(r) ==
    [r EXCEPT !.password = NoName, !.user = IF r.type = "LOGIN" THEN r.user ELSE NoName]

\* The answer to a password that is wrong.
WrongPassword == [LOGIN |-> 2004, UPDATE_USER |-> 2006]

GetUserByUsername(h) ==
    LET r == request[h] IN
    /\ at[h] = "find" /\ UNCHANGED <<users, sessionVars>>
    /\ \/ Select(r.user) = {} /\ Answer(h, "find", r, 2003)
       \/ AnswerFailed(h, "find", 2003)
       \/ \E i \in Select(r.user) :
            \/ /\ r.type = "QUERY_STATUS" \/ users[i].hash = MD5Encrypt(r.password)
               /\ Goto(h, "find", AfterFind[r.type]) /\ UNCHANGED failed
               /\ row' = [row EXCEPT ![h] = i]
               /\ request' = [request EXCEPT ![h] = Verified(r)]
            \/ /\ r.type # "QUERY_STATUS" /\ users[i].hash # MD5Encrypt(r.password)
               /\ Answer(h, "find", r, WrongPassword[r.type])

-----------------------------------------------------------------------------
(* The rest of HandleLogin *)

\* The session of handler g has user name n after a login to account i.
SetSession(g, n, i) ==
    /\ session' = [session EXCEPT ![g] = n]
    /\ account' = [account EXCEPT ![g] = i]
    /\ stale' = [stale EXCEPT ![g] = i # 0 /\ i \notin Select(n)]

\* If is_online is set, the session that is found under the name loses it, which may be the
\* handler's own.  The lookup among the sessions tells spellings apart.
Kick(h) ==
    /\ Goto(h, "kick", "bind")
    /\ \/ \E g \in Handlers : session[g] = request[h].user /\ SetSession(g, NoName, 0)
       \/ UNCHANGED sessionVars
    /\ UNCHANGED <<users, request, row, failed>>

\* SetUsername of the connection's own session.
SetUsername(h) ==
    /\ at[h] = "bind" /\ UNCHANGED users
    /\ SetSession(h, request[h].user, row[h])
    /\ Answer(h, "bind", request[h], 0)

HandleLogin(h) == Kick(h) \/ SetUsername(h)

-----------------------------------------------------------------------------
(* The rest of HandleUpdateUser *)

\* newUsername: none, one that is malformed, or one that has to be free.
NewUsername(h) ==
    /\ at[h] = "newName" /\ UNCHANGED <<users, sessionVars>>
    /\ \E n \in Names \cup {NoName, Bad} :
        LET r == [request[h] EXCEPT !.newName = n] IN
        \/ n = NoName /\ Goto(h, "newName", "newPassword") /\ Serve(h, r) /\ UNCHANGED failed
        \/ n # NoName /\ ~ValidateUsername(n) /\ Answer(h, "newName", r, 2001)
        \/ ValidateUsername(n) /\ CheckUsernameExists(h, r, n, "newName", "rename")

\* Handler h gives its row the new name.
Rename(h) ==
    /\ Goto(h, "rename", "newPassword") /\ UNCHANGED <<request, row, failed>>
    /\ users' = [users EXCEPT ![row[h]].name = request[h].newName]
    /\ stale' = [g \in Handlers |-> stale[g] \/ account[g] = row[h]]

\* Slip: the table has no UNIQUE key.
RenameAnyway(h) == Rename(h) /\ UNCHANGED <<session, account>>

UpdateUsername(h) ==
    /\ at[h] = "rename" /\ UNCHANGED <<session, account>>
    /\ \/ Select(request[h].newName) = {} /\ Rename(h)
       \/ /\ Select(request[h].newName) # {} /\ UNCHANGED <<users, stale>>
          /\ Answer(h, "rename", request[h], 5001)
       \/ AnswerFailed(h, "rename", 5001) /\ UNCHANGED <<users, stale>>

\* newPassword: none, in which case something must have been changed before; one that is
\* malformed, which leaves the new name in force; or one that is stored.
UpdatePassword(h) ==
    /\ at[h] = "newPassword" /\ UNCHANGED sessionVars
    /\ \E p \in Passwords \cup {NoName, Bad} :
        LET r == [request[h] EXCEPT !.newPassword = p] IN
        \/ /\ p = NoName /\ UNCHANGED users
           /\ Answer(h, "newPassword", r, IF r.newName = NoName THEN 1001 ELSE 0)
        \/ /\ p # NoName /\ ~ValidatePassword(p) /\ UNCHANGED users
           /\ Answer(h, "newPassword", r, 2001)
        \/ /\ ValidatePassword(p)
           /\ users' = [users EXCEPT ![row[h]].hash = MD5Encrypt(p)]
           /\ Answer(h, "newPassword", r, 0)
        \/ /\ ValidatePassword(p)
           /\ AnswerFailed(h, "newPassword", 5001) /\ UNCHANGED users

HandleUpdateUser(h) == NewUsername(h) \/ UpdateUsername(h) \/ UpdatePassword(h)

-----------------------------------------------------------------------------
\* HandleQueryStatus: the online status of the row that was found.
HandleQueryStatus(h) ==
    /\ at[h] = "status" /\ UNCHANGED <<users, sessionVars>>
    /\ Answer(h, "status", request[h], 0) \/ AnswerFailed(h, "status", 5002)

\* The connection ends, its session with it, and the handler takes another one.
Leave(h) ==
    /\ at[h] = "idle" /\ session[h] # NoName
    /\ SetSession(h, NoName, 0)
    /\ UNCHANGED <<users, at, request, row, failed, unfounded>>

Step(h) ==
    \/ Begin(h) \/ Leave(h)
    \/ HandleRegister(h) \/ GetUserByUsername(h)
    \/ HandleLogin(h) \/ HandleUpdateUser(h) \/ HandleQueryStatus(h)

Next == \E h \in Handlers : Step(h) /\ Observe

Spec == Init /\ [][Next]_vars

-----------------------------------------------------------------------------
(* Properties *)

Places == {"idle", "exists", "insert", "find", "kick", "bind", "newName", "rename",
           "newPassword", "status"}

\* Every variable has its type; the table holds digests and never a password.
TypeOK ==
    /\ users \in Seq([name : Names, hash : {MD5Encrypt(p) : p \in Passwords}])
    /\ Len(users) \in 0..MaxUsers
    /\ session \in [Handlers -> Names \cup {NoName}]
    /\ at \in [Handlers -> Places]
    /\ row \in [Handlers -> 0..Len(users)]
    /\ account \in [Handlers -> 0..Len(users)]
    /\ stale \in [Handlers -> BOOLEAN]
    /\ failed \in [Handlers -> BOOLEAN]

\* Unless a statement failed, every answer about accounts was true at some moment while
\* the request was served, whatever other handlers registered, renamed or changed between
\* its statements: a name that is refused was taken, a password that is accepted was right
\* and one that is refused was not, a change that is confirmed was made, and "database
\* error" without a failing statement means that another handler won the race for the
\* name (user_manager.cpp:58-71, 91-105 and 150-212).
AnswersWereTrue == unfounded = {}

\* The name of a logged-in connection leads every later request to the account it logged
\* in to and to no other, until that account is renamed: no registration or renaming by
\* another handler comes in between (server.cpp:550-568, user_manager.cpp:129-134, the
\* UNIQUE key in init.sql:13).
SessionActsForItsAccount ==
    \A h \in Handlers :
        session[h] # NoName /\ ~stale[h] => Select(session[h]) = {account[h]}

\* A connection that is logged in never becomes another user's: a LOGIN that gives another
\* name acts for the user the connection has, although others may take the name from the
\* session while the handler is between two steps (server.cpp:559-568).
IdentityIsFixed ==
    [][\A h \in Handlers : session[h] # NoName => session'[h] \in {session[h], NoName}]_vars

=============================================================================
