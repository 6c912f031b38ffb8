--------------------------- MODULE SessionManager ---------------------------
(***************************************************************************)
(* The session manager (src/src/system/session_manager.cpp) and the        *)
(* session objects it stores (src/src/connection/client_session.cpp).      *)
(*                                                                         *)
(* Every method holds sessionMutex from its first to its last line, so     *)
(* each is one step; it hands out raw pointers, which the callers use      *)
(* after the mutex is released.  A connection c stands for the session     *)
(* object made for it: "a pointer to the session of c" is c itself.        *)
(***************************************************************************)
EXTENDS Naturals, FiniteSets

CONSTANTS
    Conns,  \* the connections clients open, one after the other
    Users,  \* registered user names
    Fds     \* socket descriptors the kernel may hand out

NoConn == "null"    \* the null pointer
NoUser == ""        \* the empty user name of a session that is not logged in
NoFd == 0           \* no entry in usernameToSocket (0 is standard input)

ASSUME SessionAssumption ==
    /\ NoConn \notin Conns
    /\ NoUser \notin Users
    /\ Fds \subseteq Nat \ {NoFd}

VARIABLES
    cliSessionMap,      \* fd |-> the session stored for it, or NoConn
    usernameToSocket,   \* user |-> the fd it is bound to, or NoFd
    object,             \* whether the session object of c is allocated
    username,           \* the field username of each session object
    expired             \* lastHeartbeat is more than 600 s in the past

sessionVars == <<cliSessionMap, usernameToSocket, object, username, expired>>

SessionInit ==
    /\ cliSessionMap = [f \in Fds |-> NoConn]
    /\ usernameToSocket = [u \in Users |-> NoFd]
    /\ object = [c \in Conns |-> "none"]
    /\ username = [c \in Conns |-> NoUser]
    /\ expired = [c \in Conns |-> FALSE]

-----------------------------------------------------------------------------
(* Lookups *)

GetSession(f) == cliSessionMap[f]

GetSessionByUsername(u) ==
    IF usernameToSocket[u] = NoFd THEN NoConn ELSE cliSessionMap[usernameToSocket[u]]

GetAllSessions == {cliSessionMap[f] : f \in Fds} \ {NoConn}

\* The object a thread sees when it follows the pointer p.  The memory of a freed
\* session still holds its last values, or has been given to a session made since.
Seen(p) == {c \in Conns : c = p \/ (object[p] = "freed" /\ object[c] = "live")}

-----------------------------------------------------------------------------
(* Updates *)

\* new ClientSession(f, ...) and AddSession: the name is still empty, so it is not
\* bound.  A session that is still stored for f is overwritten, not deleted.
AddSession(f, c) ==
    /\ object' = [object EXCEPT ![c] = "live"]
    /\ cliSessionMap' = [cliSessionMap EXCEPT ![f] = c]
    /\ UNCHANGED <<usernameToSocket, username, expired>>

\* Slip: the object is deleted and its entry stays.
DeleteWithoutErase(f) ==
    LET c == cliSessionMap[f]
    IN  IF c = NoConn THEN UNCHANGED sessionVars
        ELSE /\ object' = [object EXCEPT ![c] = "freed"]
             /\ UNCHANGED <<cliSessionMap, usernameToSocket, username, expired>>

\* Does nothing for an fd that is not in the map; unbinds the name only if it is
\* bound to this very fd.
RemoveSession(f) ==
    LET c == cliSessionMap[f]
    IN  IF c = NoConn THEN UNCHANGED sessionVars
        ELSE /\ usernameToSocket' = [u \in Users |->
                    IF username[c] = u /\ usernameToSocket[u] = f THEN NoFd ELSE usernameToSocket[u]]
             /\ object' = [object EXCEPT ![c] = "freed"]
             /\ cliSessionMap' = [cliSessionMap EXCEPT ![f] = NoConn]
             /\ UNCHANGED <<username, expired>>

\* Does not look whether the fd has a session.
BindUsername(f, u) == usernameToSocket' = [usernameToSocket EXCEPT ![u] = f]

SetUsername(c, u) ==
    /\ username' = [username EXCEPT ![c] = u]
    /\ UNCHANGED <<cliSessionMap, usernameToSocket, object, expired>>

UpdateHeartbeat(c) == expired' = [expired EXCEPT ![c] = FALSE]

\* Ten minutes pass in which the client of c sends nothing.
Expire(c) ==
    /\ object[c] = "live"
    /\ ~expired[c]
    /\ expired' = [expired EXCEPT ![c] = TRUE]
    /\ UNCHANGED <<cliSessionMap, usernameToSocket, object, username>>

-----------------------------------------------------------------------------
SessionTypeOK ==
    /\ cliSessionMap \in [Fds -> Conns \cup {NoConn}]
    /\ usernameToSocket \in [Users -> Fds \cup {NoFd}]
    /\ object \in [Conns -> {"none", "live", "freed"}]
    /\ username \in [Conns -> Users \cup {NoUser}]
    /\ expired \in [Conns -> BOOLEAN]

=============================================================================
